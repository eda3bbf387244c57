-------------------------------- MODULE Imports --------------------------------
(***************************************************************************)
(* What the names of every module stand for (ResolverState): the module's  *)
(* own declarations, and what its imports deliver.  An import looks its    *)
(* path up in the tables that the other imports fill, so all of them are   *)
(* taken in turn until a whole round changes nothing (resolve_imports).    *)
(***************************************************************************)
EXTENDS Discovery

VARIABLES tables,      \* deliveries: all of them, and the public ones
          imports,
          candidates,  \* what each import may stand for, and what it may
          hidden,      \*   only have reached if it were accessible
          turn, changed

vars == <<project, phase, pending, attempted, tables, imports, candidates, hidden, turn, changed>>

ImportsOf(parsed) ==
  FlattenSeq([i \in DOMAIN project.uses |->
                IF FileOf(project.uses[i].module) \in parsed THEN Flatten(project.uses[i]) ELSE <<>>])

Delivery(m, name, e) == [in |-> m, namespace |-> e.namespace, name |-> name, target |-> e]
(* index_modules, index_declarations: what the modules themselves hold.    *)
OwnTables ==
  LET modules == {m \in KnownModules(Parsed) : m[2] # <<>>}
      children == {Delivery(Parent(m), Last(m[2]), ModuleEntity(m)) : m \in modules}
      roots == {Delivery(Root(d[1]), d[2], ModuleEntity(Root(d[3]))) : d \in project.dependencies}
      declared == {Delivery(e.module, e.name, e) :
                     e \in {f \in project.entities : f.owner = "" /\ FileOf(f.module) \in Parsed}}
  IN  [all |-> children \cup roots \cup declared,
       public |-> {d \in children \cup declared : IsPublic(d.target)}]

(* The members of a container that a name may mean.  A path that starts    *)
(* with a bare name may mean an entity of the language, but a value of the *)
(* module shadows a function of the language.                              *)
LanguageNamed(all, m, name) ==
  LET shadowed == \E d \in all : d.in = m /\ d.name = name /\ d.namespace = "value"
  IN  {e \in Language : e.name = name /\ ~ (shadowed /\ e.namespace = "value")}
DeliveriesNamed(all, c, name) == {d \in all : c.kind = "module" /\ d.in = c.module /\ d.name = name}
Open(t, requester, c, name) ==
  {d.target : d \in {e \in DeliveriesNamed(t.all, c, name) : e \in t.public \/ Descends(requester, e.in)}}
    \cup {e \in Members(c) : e.name = name /\ (IsPublic(e) \/ Descends(requester, e.module))}
ShutOut(t, requester, c, name) ==
  {d.target : d \in {e \in DeliveriesNamed(t.all, c, name) : ~ (e \in t.public \/ Descends(requester, e.in))}}
    \cup {e \in Members(c) : e.name = name /\ ~ (IsPublic(e) \/ Descends(requester, e.module))}

(* lookup_global_path: the steps along a path, from `taken` to its end.    *)
Along(t, m, path, prior, i) ==
  LET open == (UNION {Open(t, m, c, path[i]) : c \in prior.found})
                \cup (IF i = 1 /\ Start(m, path).taken = 0 THEN LanguageNamed(t.all, m, path[i]) ELSE {})
      shut == UNION {ShutOut(t, m, c, path[i]) : c \in prior.found}
      Kept(S) == IF i = Len(path) THEN S ELSE {e \in S : IsContainer(e)}
  IN  [found |-> Kept(open), hidden |-> prior.hidden \cup Kept(shut)]
Lookup(t, m, path) ==
  LET start == Start(m, path)
      first == [found |-> {ModuleEntity(start.module)}, hidden |-> {}]
      Step(prior, i) == Along(t, m, path, prior, i)
  IN  IF Escapes(m, path) THEN [found |-> {}, hidden |-> {}]
      ELSE After(Step, first, [j \in 1 .. Len(path) - start.taken |-> start.taken + j])

(* What an import delivers, given what it may stand for.                   *)
DeliverFirst(t, import, targets) ==   \* a bug: what is there already never becomes public
  LET new == {Delivery(import.module, import.local, e) : e \in targets}
  IN  [all |-> t.all \cup new, public |-> t.public \cup (IF import.public THEN new \ t.all ELSE {})]

Deliver(t, import, targets) ==
  LET new == {Delivery(import.module, import.local, e) : e \in targets}
  IN  [all |-> t.all \cup new, public |-> t.public \cup (IF import.public THEN new ELSE {})]

Init ==
  /\ DiscoveryInit
  /\ tables = [all |-> {}, public |-> {}]
  /\ imports = <<>> /\ candidates = <<>> /\ hidden = <<>>
  /\ turn = 0 /\ changed = FALSE

ParseStep ==
  /\ (\E m \in pending : Parse(m)) \/ Discover \/ RejectBroken
  /\ UNCHANGED <<tables, imports, candidates, hidden, turn, changed>>

(* Two declarations of one name in a module, or a declaration of a name    *)
(* that belongs to the language, or a type called Self.                    *)
Protected(namespace, name) == namespace # "value" /\ \E e \in Language : e.name = name /\ e.namespace = namespace
BindingErrors(all) ==
  {d \in all : \/ \E e \in all : e.in = d.in /\ e.namespace = d.namespace /\ e.name = d.name /\ e.target # d.target
               \/ Protected(d.namespace, d.name) /\ ~ (d.target \in Language /\ d.target.name = d.name)
               \/ d.namespace = "type" /\ d.name = "Self"}

IndexEntities ==
  /\ phase = "closed" /\ attempted \cap project.broken = {}
  /\ tables' = OwnTables
  /\ imports' = ImportsOf(Parsed)
  /\ phase' = IF BindingErrors(OwnTables.all) = {} THEN "import" ELSE "rejected"
  /\ candidates' = [i \in DOMAIN imports' |-> {}]
  /\ hidden' = [i \in DOMAIN imports' |-> {}]
  /\ turn' = 1 /\ changed' = FALSE
  /\ UNCHANGED <<project, pending, attempted>>

(* One turn of one import; whether anything grew is kept for the round.    *)
ImportTurn ==
  /\ phase = "import" /\ turn <= Len(imports)
  /\ LET outcome == Lookup(tables, imports[turn].module, imports[turn].path)
     IN  /\ candidates' = [candidates EXCEPT ![turn] = @ \cup outcome.found]
         /\ hidden' = [hidden EXCEPT ![turn] = @ \cup outcome.hidden]
         /\ tables' = Deliver(tables, imports[turn], candidates'[turn])
  /\ turn' = turn + 1
  /\ UNCHANGED <<project, phase, pending, attempted, imports>>
Grown == <<tables, candidates, hidden>>' # <<tables, candidates, hidden>>
ResolveLast == ImportTurn /\ changed' = Grown   \* a bug: an earlier change is forgotten
ResolveAny ==   \* a bug: what was delivered before counts as a change
  ImportTurn /\ changed' = (changed \/ candidates'[turn] # {})
Resolve == ImportTurn /\ changed' = (changed \/ Grown)

NextRound ==
  /\ phase = "import" /\ turn > Len(imports) /\ changed
  /\ turn' = 1 /\ changed' = FALSE
  /\ UNCHANGED <<project, phase, pending, attempted, tables, imports, candidates, hidden>>
-----------------------------------------------------------------------------
(* The diagnostics; the first of them in the source is the one reported.   *)
Owner(c) == CHOOSE e \in project.entities : e.kind = "enum" /\ e.module = c.module /\ e.name = c.owner
OwnerMissing(import, e) ==
  e.kind = "constructor" /\ import.public
    /\ ~ \E d \in tables.public : d.in = import.module /\ d.target = Owner(e)
ImportErrors(i) ==
  {why \in {"invalid", "unresolved", "ambiguous", "private re-export", "missing owner"} :
     CASE why = "invalid" -> imports[i].local = "super"
       [] why = "unresolved" -> candidates[i] = {}
       [] why = "ambiguous" -> Cardinality(candidates[i]) > 1
       [] why = "private re-export" -> imports[i].public /\ \E e \in candidates[i] : ~ IsPublic(e)
       [] why = "missing owner" -> \E e \in candidates[i] : OwnerMissing(imports[i], e)}

Conclude ==
  /\ phase = "import" /\ turn > Len(imports) /\ ~ changed
  /\ phase' = IF BindingErrors(tables.all) = {} /\ \A i \in DOMAIN imports : ImportErrors(i) = {}
              THEN "accepted" ELSE "rejected"
  /\ UNCHANGED <<project, pending, attempted, tables, imports, candidates, hidden, turn, changed>>

Next == ParseStep \/ IndexEntities \/ Resolve \/ NextRound \/ Conclude

Spec == Init /\ [][Next]_vars
FairSpec == Spec /\ WF_vars(Next)
-----------------------------------------------------------------------------
Settled == phase \in {"accepted", "rejected"} /\ turn > 0 /\ ~ changed /\ turn > Len(imports)

(* The order of declarations gives no priority: the imports taken in the   *)
(* opposite order, round after round, make the same tables.                *)
Backwards ==
  LET Step(t, import) == Deliver(t, import, Lookup(t, import.module, import.path).found)
  IN  After(Step, OwnTables, FlattenSeq([round \in 1 .. Len(imports) + 1 |-> Reverse(imports)]))
OrderHasNoPriority == Settled => tables = Backwards

(* Whatever file module an import means has been parsed, when its library  *)
(* is the import's own: discovery foresees what resolution finds, although *)
(* the two read the paths on their own.                                    *)
MeantFilesAreParsed ==
  phase = "accepted" =>
    \A i \in DOMAIN imports : \A e \in candidates[i] :
      e.kind = "module" /\ e.module[1] = imports[i].module[1] /\ e.module \in project.files
        => e.module \in Parsed

(* An accepted project gives nobody a name for what is private elsewhere,  *)
(* however many re-exports and renamings lie between: whoever has one is   *)
(* in the module that declares it, or in a module inside that.             *)
HomeOf(e) == IF e.kind = "module" THEN Parent(e.module) ELSE e.module
PrivateStaysPrivate ==
  phase = "accepted" =>
    \A d \in {e \in tables.all : ~ IsPublic(e.target)} :
      d.in[1] = HomeOf(d.target)[1] /\ IsPrefix(HomeOf(d.target)[2], d.in[2])

(* What the imports were found to mean while the tables grew is what their *)
(* paths mean in the final ones: no project is accepted, or rejected, for  *)
(* a table that was out of date.                                           *)
FindingsStand ==
  Settled => \A i \in DOMAIN imports :
               candidates[i] = Lookup(tables, imports[i].module, imports[i].path).found

(* Parsing and importing, each feeding itself, come to an end.             *)
ResolutionEnds == <>(phase \in {"accepted", "rejected"})
===============================================================================
