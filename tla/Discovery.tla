------------------------------- MODULE Discovery -------------------------------
(***************************************************************************)
(* A project as the resolver sees it: libraries of file and inline         *)
(* modules, what they declare and what their `use` declarations say        *)
(* (project.rs, resolver.rs).  A module is a library and a path.           *)
(*   files        the modules with a file of their own, the roots included *)
(*   broken       the files that do not parse                              *)
(*   inline       for each inline module the file that holds it            *)
(*   dependencies triples of a library, an alias and the library it names  *)
(*   entities     what modules declare, the constructors of enums included *)
(*   public       the entities and inline modules declared `pub`           *)
(*   uses         the `use` declarations, in the order of their modules    *)
(***************************************************************************)
EXTENDS Integers, Sequences, FiniteSets, SequencesExt

CONSTANTS Inputs, ProjectOf(_),   \* the projects to resolve
          Libraries,
          Before(_, _),    \* the order of modules in the code's maps
          Language         \* the entities of the language itself

VARIABLE project

(* Modules have paths of names, and inline ones a parent; modules are not  *)
(* declared as entities; a `use` names something.                          *)
Modules == Libraries \X Seq(STRING)
Uses == [module : Modules, public : BOOLEAN, path : Seq(STRING) \ {<<>>}, alias : STRING,
         items : Seq(STRING \X STRING)]
IsProject(p) ==
  /\ p.files \subseteq Modules /\ DOMAIN p.inline \subseteq Modules
  /\ \A m \in DOMAIN p.inline : m[2] # <<>>
  /\ \A e \in p.entities : e.module \in Modules /\ e.kind # "module"
  /\ \A d \in p.dependencies : d[1] \in Libraries
  /\ p.uses \in Seq(Uses)
ASSUME InputsAssumption == \A input \in Inputs : IsProject(ProjectOf(input))

Root(library) == <<library, <<>>>>
Child(m, name) == <<m[1], Append(m[2], name)>>
Parent(m) == <<m[1], Front(m[2])>>
DescendsByPath(m, ancestor) == IsPrefix(ancestor[2], m[2])   \* a bug: of any library
Descends(m, ancestor) == m[1] = ancestor[1] /\ IsPrefix(ancestor[2], m[2])

(* The modules that the names of the files alone make known.               *)
Inventory == UNION {{<<f[1], SubSeq(f[2], 1, n)>> : n \in 0 .. Len(f[2])} : f \in project.files}
Inline == DOMAIN project.inline
FileOf(m) == IF m \in Inline THEN project.inline[m] ELSE m
KnownModules(parsed) == Inventory \cup {m \in Inline : project.inline[m] \in parsed}
UsesOf(parsed) == SelectSeq(project.uses, LAMBDA u : FileOf(u.module) \in parsed)

(* Entities.                                                               *)
ModuleEntity(m) == [kind |-> "module", module |-> m, namespace |-> "type", name |-> "", owner |-> ""]
Members(e) == IF e.kind = "enum" THEN {c \in project.entities : c.module = e.module /\ c.owner = e.name} ELSE {}
IsContainer(e) == e.kind = "module" \/ Members(e) # {}
IsPublic(e) == \/ e \in Language \cup project.public
               \/ e.kind = "module" /\ e.module \notin Inline

(* Where a path starts: the module it is looked up in, and how many of its *)
(* segments that takes.  `root` and `self` are names when they are alone.  *)
Leading(path) == CHOOSE n \in 0 .. Len(path) :
                   (\A i \in 1 .. n : path[i] = "super") /\ (n < Len(path) => path[n + 1] # "super")
Escapes(m, path) == Leading(path) > Len(m[2])
Start(m, path) ==
  CASE path[1] = "super" -> [module |-> <<m[1], SubSeq(m[2], 1, Len(m[2]) - Leading(path))>>, taken |-> Leading(path)]
    [] path[1] = "root" /\ Len(path) > 1 -> [module |-> Root(m[1]), taken |-> 1]
    [] path[1] = "self" /\ Len(path) > 1 -> [module |-> m, taken |-> 1]
    [] OTHER -> [module |-> m, taken |-> 0]

(* The imports that a `use` declaration stands for (flatten_imports).      *)
Local(u) == IF u.alias = "" THEN Last(u.path) ELSE u.alias
Import(u, path, local) == [module |-> u.module, public |-> u.public, path |-> path, local |-> local]
Flatten(u) ==
  IF u.items = <<>> THEN <<Import(u, u.path, Local(u))>>
  ELSE [i \in DOMAIN u.items |-> Import(u, Append(u.path, u.items[i][1]), u.items[i][2])]

(* The state after the steps of a sequence, and after n rounds.  (The sets *)
(* of one element have TLC evaluate each state once.)                      *)
OnlyOne(S) == CHOOSE x \in S : TRUE
After(Step(_, _), state, steps) ==
  LET after[n \in 0 .. Len(steps)] == IF n = 0 THEN state ELSE OnlyOne({Step(prior, steps[n]) : prior \in {after[n - 1]}})
  IN  after[Len(steps)]
Repeat(Round(_), state, n) ==
  LET after[k \in 0 .. n] == IF k = 0 THEN state ELSE OnlyOne({Round(prior) : prior \in {after[k - 1]}})
  IN  after[n]
-----------------------------------------------------------------------------
(* Which files of a project are parsed (parse_reachable_sources): the      *)
(* roots, and whatever file the paths of `use` declarations in parsed      *)
(* files may pass through, round after round.  A file that no path reaches *)
(* is never read, whatever it holds.                                       *)
VARIABLES phase,       \* "parse", "closed", "import", then "accepted" or "rejected"
          pending, attempted

Parsed == attempted \ project.broken

(* Modules by name: children, and what `use` declarations may rename to    *)
(* the name.  An alias is <<module, name, target>>.                        *)
ChildrenDirectly(m, name, known, aliases) == {Child(m, name)} \cap known   \* a bug: renamed ones are missed
ChildrenNamed(m, name, known, aliases) ==
  ({Child(m, name)} \cap known) \cup {a[3] : a \in {b \in aliases : b[1] = m /\ b[2] = name}}

(* The modules a path may stand for, segment by segment.                   *)
Levels(m, path, known, aliases) ==
  LET start == Start(m, path)
      level[i \in start.taken .. Len(path)] ==
        IF i = start.taken THEN {start.module}
        ELSE UNION {ChildrenNamed(c, path[i], known, aliases) : c \in level[i - 1]}
  IN  IF Escapes(m, path) THEN [i \in {Len(path)} |-> {}] ELSE level

(* A declaration is scanned as it is written: its path, then its items.    *)
Named(u, known, aliases) == Levels(u.module, u.path, known, aliases)[Len(u.path)]
Items(u, known, aliases) ==
  UNION {{<<u.items[i][2], c>> : c \in UNION {ChildrenNamed(m, u.items[i][1], known, aliases) : m \in Named(u, known, aliases)}}
           : i \in DOMAIN u.items}
AliasesOf(u, known, aliases) ==
  IF u.items = <<>>
  THEN IF Local(u) = "super" THEN {} ELSE {<<u.module, Local(u), m>> : m \in Named(u, known, aliases)}
  ELSE {<<u.module, item[1], item[2]>> : item \in Items(u, known, aliases)}
Visited(u, known, aliases) ==
  LET levels == Levels(u.module, u.path, known, aliases)
  IN  UNION {levels[i] : i \in DOMAIN levels} \cup {item[2] : item \in Items(u, known, aliases)}

(* The aliases feed the paths that make aliases, until nothing is new.     *)
Aliases(uses, known) ==
  LET Round(aliases) == aliases \cup UNION {AliasesOf(uses[i], known, aliases) : i \in DOMAIN uses}
  IN  Repeat(Round, {}, Len(uses) * Cardinality(known))
ReachedBy(uses, known) ==
  LET Reached(aliases) == UNION {Visited(uses[i], known, aliases) : i \in DOMAIN uses}
  IN  OnlyOne({Reached(aliases) : aliases \in {Aliases(uses, known)}})
NewlyReachable ==
  OnlyOne({(ReachedBy(uses, known) \cap project.files) \ attempted :
             uses \in {UsesOf(Parsed)}, known \in {KnownModules(Parsed)}})

DiscoveryInit ==
  /\ \E input \in Inputs : project = ProjectOf(input)
  /\ phase = "parse"
  /\ pending = {Root(l) : l \in Libraries}
  /\ attempted = {}

(* The first pending file is parsed; a failure does not stop the others.   *)
Parse(m) ==
  /\ phase = "parse" /\ m \in pending /\ \A n \in pending \ {m} : Before(m, n)
  /\ attempted' = attempted \cup {m}
  /\ pending' = pending \ {m}
  /\ UNCHANGED <<project, phase>>

(* What the parsed files reach is parsed next, until that is nothing.      *)
Discover ==
  /\ phase = "parse" /\ pending = {}
  /\ pending' = NewlyReachable
  /\ phase' = IF pending' = {} THEN "closed" ELSE "parse"
  /\ UNCHANGED <<project, attempted>>

(* A file that failed rejects the project.                                 *)
RejectBroken ==
  /\ phase = "closed" /\ attempted \cap project.broken # {}
  /\ phase' = "rejected"
  /\ UNCHANGED <<project, pending, attempted>>
===============================================================================
