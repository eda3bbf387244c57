------------------------------- MODULE Borrowing -------------------------------
(***************************************************************************)
(* A body that move and borrow checking accept, as it runs: what the       *)
(* indices hold and what each reference points at.  An access spoils every *)
(* reference to the same storage that cannot tolerate it and that it is    *)
(* not made through; the checks have to keep a spoiled reference unused.   *)
(***************************************************************************)
EXTENDS Moves, Loans

CONSTANTS Bodies,
          Numbers,    \* the locals that hold an index
          Number,     \* what they may hold
          Inputs,     \* the values a run may start with
          Caller,     \* what the reference parameters point at
          MaxSteps    \* bounds the turns of loops

VARIABLES body, source,      \* the body as it runs, and as it was checked
          flows,             \* what the check knew before each statement of the source
          phase, block, index, steps,
          origin,            \* the statement of the source that comes next
          values,            \* what the numbers hold
          pointers           \* what the references point at

run == <<phase, block, index, origin, steps>>
vars == <<body, source, flows, run, values, pointers>>

NoPointer == [kind |-> "none"]
(* `at` is the binding that made a pointer; with those it was made through *)
(* it is its lineage; `lent` is what they lent.                            *)
Pointer(kind, target, at, lineage, lent) ==
  [kind |-> kind, target |-> target, at |-> at, lineage |-> lineage \cup {at}, lent |-> lent, spoiled |-> FALSE]
Binding(r) == <<steps + 1, r>>
AtEntry(r) == <<0, r>>    \* the binding of a parameter
LineageOf(place) == IF place.local \in References THEN pointers[place.local].lineage ELSE {}
LentBy(place) == IF place.local \in References THEN pointers[place.local].lent ELSE {}

(* The references that something is changed through: type checking has     *)
(* them hold `&mut` references.                                            *)
Changing(bod) ==
  {s.value.place.local : s \in {x \in StatementsOf(bod) : x.do = "bind" /\ x.value.is = "ref" /\ x.value.kind # "shared"}}
    \cup {s.to.local : s \in {x \in StatementsOf(bod) : x.do = "assign"}}

(* The references an argument is made for, and those that are lent to a    *)
(* call; the references and variables that are borrowed or assigned.       *)
Reserved(bod) ==
  {s.to.local : s \in {x \in StatementsOf(bod) : x.do = "bind" /\ x.value.is = "ref" /\ x.value.kind = "argument"}}
Lends(bod, s) ==
  IF s.do \in {"assign", "bind"}
  THEN {o.place.local : o \in {x \in OperandsOf(s) : x.gives = "borrowed"}}
         \cup (IF s.value.is = "builtin" THEN {s.value.place.local} \cap Reserved(bod) ELSE {})
  ELSE {}
Lenders(bod) == UNION {Lends(bod, s) : s \in StatementsOf(bod)}
Bases(bod) ==
  {s.value.place.local : s \in {x \in StatementsOf(bod) : x.do = "bind" /\ x.value.is = "ref"}}
    \cup {s.to.local : s \in {x \in StatementsOf(bod) : x.do = "assign"}}

(* Lowering binds a reference to a borrow or to what a call returns, indexes*)
(* with numbers, and lends calls references of its own, which nothing else *)
(* borrows through and which nothing uses behind the call.                 *)
Lowered(bod) ==
  /\ \A s \in StatementsOf(bod) :
       /\ s.do \in {"assign", "bind", "unpack", "release", "keep"}
       /\ LocalsOf(NamedPlaces(s)) \cup Replaces(s) \subseteq Locals /\ Lends(bod, s) \subseteq References
       /\ s.do \in {"assign", "bind"} /\ s.value.is \in {"ref", "builtin"} => "place" \in DOMAIN s.value
       /\ s.do = "assign" /\ s.value.is = "use" => DOMAIN s.value.operands = {1}
       /\ s.do = "assign" /\ s.value.is = "binary" => DOMAIN s.value.operands = {1, 2}
       /\ s.do = "bind" => s.value.is \in {"ref", "call"}
       /\ s.do = "bind" /\ s.value.is = "ref" =>
            /\ s.value.kind \in {"shared", "argument", "mutable"}
            /\ s.value.kind = "shared" => s.to.local \notin Changing(bod)
       /\ s.do = "bind" /\ s.to.local \in Lenders(bod) => s.value.is = "ref" /\ s.value.kind # "mutable"
       /\ s.do = "unpack" => \A i \in DOMAIN s.taken : s.taken[i][1] \notin References
       /\ \A place \in NamedPlaces(s) : IndexLocals(place) \subseteq Numbers
  /\ (Wanted(bod) \cap Temporaries) \ References \subseteq Numbers
  /\ (Lenders(bod) \cup Reserved(bod)) \cap (Bases(bod) \cup Parameters) = {}
  /\ \A b \in Blocks(bod) :
       /\ bod.terminators[b].go = "return" => Whole(Result) \in bod.terminators[b].reads
       /\ \A i \in DOMAIN bod.statements[b] :
            Lends(bod, bod.statements[b][i]) \cap LiveBehind(bod, LiveEnds(bod, LiveStarts(bod)), b, i) = {}
(* It ends what is borrowed, and what a loan indexes with, only where no   *)
(* loan is left, makes each loan for a reference of its own, and passes a  *)
(* call its arguments for this call alone.                                 *)
Scoped(bod) ==
  LET flow == Flows(bod)
  IN  \A b \in Reachable(bod) : \A i \in DOMAIN bod.statements[b] :
        LET s == bod.statements[b][i]
            carried == flow[b][i].carried
        IN  /\ OwnLoan(<<b, i>>, s) \cap InForce(carried) = {}
            /\ \A loan \in InForce(flow[b][i + 1].carried) : IndexLocals(loan.place) \cap ChangedLocals(carried, s) = {}
            /\ \A a \in Lends(bod, s) : \A own, loan \in carried[a] :
                 /\ own.by = a /\ own.kind = "argument" /\ loan.place.local = own.place.local
                 => loan.by = a /\ loan.kind = "argument"

(* A check compares indices: constants, and what numbers hold.             *)
IsIndexOperand(o) == o.gives = "constant" \/ (o.gives = "copy" /\ o.place.path = <<>> /\ o.place.local \in Numbers)
Compares(pairs) == \A i \in DOMAIN pairs : IsIndexOperand(pairs[i][1]) /\ IsIndexOperand(pairs[i][2])

ASSUME LocalsAssumption ==
  /\ References \subseteq Locals /\ Numbers \subseteq Locals /\ Caller \notin Locals
  /\ References \cap Numbers = {}
ASSUME InputsAssumption == Inputs \subseteq [Numbers -> Number]
ASSUME BodiesAssumption == \A bod \in Bodies : WellFormed(bod) /\ Lowered(bod)
(* What the engines of dataflow.rs find solves its equations (Forward and  *)
(* Backward), and asks for finitely many checks, of indices.               *)
ASSUME EnginesAssumption ==
  \A bod \in Bodies :
    LET live == LiveStarts(bod)
        ends == FlowEnds(bod, Wanted(bod), live, LiveEnds(bod, live))
    IN  /\ Solved(bod) /\ ends = FlowRound(bod, Wanted(bod), live, LiveEnds(bod, live), ends)
        /\ IsFiniteSet(BorrowVerdict(bod).checks)
        /\ \A check \in BorrowVerdict(bod).checks : Compares(check.pairs)
ASSUME ScopesAssumption == \A bod \in Bodies : Scoped(bod)

Init ==
  /\ body \in Bodies /\ source = body
  /\ flows = <<>>
  /\ phase = "check" /\ block = 0 /\ index = 1 /\ origin = 1 /\ steps = 0
  /\ values = [n \in Numbers |-> 0]
  /\ pointers = [r \in References |->
       IF r \in Parameters
       THEN Pointer("mutable", Place(Caller, <<<<"field", r>>>>), AtEntry(r), {}, {}) ELSE NoPointer]

Check ==
  /\ phase = "check"
  /\ LET verdict == BorrowVerdict(body)
     IN  IF MovesAccepted(body) /\ ~ verdict.refused
         THEN /\ body' = InsertChecks(body, verdict.checks)
              /\ flows' = Flows(body)
              /\ phase' = "run" /\ values' \in Inputs
         ELSE phase' = "rejected" /\ UNCHANGED <<body, flows, values>>
  /\ UNCHANGED <<source, block, index, origin, steps, pointers>>
-----------------------------------------------------------------------------
Running == phase = "run" /\ steps < MaxSteps
AtStatement == Running /\ index <= Len(body.statements[block])
Statement == body.statements[block][index]
Advance == index' = index + 1 /\ steps' = steps + 1 /\ UNCHANGED <<body, source, flows, phase, block>>
Proceed == origin' = origin + 1 /\ Advance

(* The storage a place reaches: its base, and the elements behind it.      *)
Base(l) ==
  IF l \in References THEN [local |-> l, at |-> pointers[l].at, target |-> pointers[l].target]
  ELSE [local |-> l, at |-> <<>>, target |-> Whole(l)]
Element(step) ==
  CASE Indexed(step) -> <<"element", values[step[2]]>>
    [] step[1] = "constant" -> <<"element", step[2]>>
    [] OTHER -> step
Behind(base, path) == Place(base.target.local, base.target.path \o [i \in DOMAIN path |-> Element(path[i])])
Concrete(place) == Behind(Base(place.local), place.path)
Meet(p, q) == Covers(p, q) \/ Covers(q, p)

(* What a reference was lent: the loan, the storage, and when.             *)
Lent(loan, base, place, at) == [loan |-> loan, base |-> base, place |-> place, at |-> at, kind |-> loan.kind]

(* Accesses as they happen: of storage, through the loans of a lineage.    *)
Touch(kind, place, lineage) == [kind |-> kind, place |-> place, lineage |-> lineage]
TouchAt(kind, place) ==
  Touch(kind, Concrete(place), LineageOf(place))
Moved(s) == {TouchAt("move", o.place) : o \in {x \in OperandsOf(s) : x.gives = "move"}}
Started(s) ==   \* a `&mut` argument takes effect when its call runs
  {TouchAt("borrow", Whole(r)) : r \in {x \in Activated(s.value) \cap References : pointers[x].kind = "argument"}}
(* Storing the value of a key may add the key, which moves the others.     *)
Written(to) == TouchAt("write", IF MapEntry(to) THEN Whole(to.local) ELSE to)
Touches(s) ==
  CASE s.do = "assign" -> Moved(s) \cup Started(s) \cup {Written(s.to)}
    [] s.do = "bind" ->
         Moved(s) \cup Started(s)
           \cup (IF s.value.is = "ref"
                 THEN {TouchAt(CASE s.value.kind = "mutable" -> "borrow" [] OTHER -> "share", s.value.place)}
                 ELSE {})
    [] s.do = "unpack" ->
         UNION {{TouchAt("move", s.taken[i][2]), TouchAt("write", Whole(s.taken[i][1]))} : i \in DOMAIN s.taken}
    [] s.do = "release" -> IF s.local \in References THEN {} ELSE {TouchAt("end", Whole(s.local))}
    [] OTHER -> {}

(* Only looking leaves a shared borrow and a waiting argument as they are. *)
Tolerates(kind, touch) == kind # "mutable" /\ touch.kind = "share"
Spoils(touch, r) ==
  /\ pointers[r] # NoPointer
  /\ pointers[r].at \notin touch.lineage
  /\ Meet(touch.place, pointers[r].target)
  /\ ~ Tolerates(pointers[r].kind, touch)
Remaining(s) ==
  [r \in References |->
     IF \E touch \in Touches(s) : Spoils(touch, r) THEN [pointers[r] EXCEPT !.spoiled = TRUE] ELSE pointers[r]]

(* Reading operands, and what a call may leave in the numbers it was lent. *)
Read(o) ==
  IF o.gives = "constant" THEN o.constant
  ELSE LET place == Concrete(o.place)
       IN  IF place.path = <<>> /\ place.local \in Numbers THEN values[place.local] ELSE 0
Plus(l, r) == (l + r) % Cardinality(Number)
Given(value) ==
  CASE value.is = "use" -> {Read(value.operands[1])}
    [] value.is = "binary" -> {Plus(Read(value.operands[1]), Read(value.operands[2]))}
    [] OTHER -> Number
LentNumbers(s) ==
  {pointers[r].target.local : r \in {x \in Activated(s.value) \cap References : pointers[x].kind # "shared"}} \cap Numbers
Called(s) == {v \in [Numbers -> Number] : \A n \in Numbers \ LentNumbers(s) : v[n] = values[n]}
-----------------------------------------------------------------------------
AssignStep ==
  /\ AtStatement /\ Statement.do = "assign"
  /\ pointers' = Remaining(Statement)
  /\ LET to == Concrete(Statement.to)
     IN  \E after \in Called(Statement) :
           IF to.path = <<>> /\ to.local \in Numbers
           THEN \E given \in Given(Statement.value) : values' = [after EXCEPT ![to.local] = given]
           ELSE values' = after
  /\ Proceed

BorrowStep ==
  /\ AtStatement /\ Statement.do = "bind" /\ Statement.value.is = "ref"
  /\ LET place == Statement.value.place
         kind == Statement.value.kind
         at == Binding(Statement.to.local)
     IN  pointers' = [Remaining(Statement) EXCEPT ![Statement.to.local] =
           Pointer(kind, Concrete(place), at, LineageOf(place),
                   LentBy(place) \cup
                     {Lent(Loan(<<block, origin>>, kind, place, Statement.to.local), Base(place.local), Concrete(place), at)})]
  /\ Proceed /\ UNCHANGED values

(* A call that returns a borrow returns one of something it was lent, and  *)
(* an `&mut` one only if it was lent that.                                 *)
Activate(lent) == IF lent.kind = "argument" THEN [lent EXCEPT !.kind = "mutable"] ELSE lent
CallStep ==
  /\ AtStatement /\ Statement.do = "bind" /\ Statement.value.is = "call"
  /\ LET lenders == Activated(Statement.value)
         to == Statement.to.local
     IN  \E r \in lenders :
           /\ pointers[r].kind = "shared" => to \notin Changing(source)
           /\ pointers' = [Remaining(Statement) EXCEPT ![to] =
                Pointer(IF pointers[r].kind = "shared" THEN "shared" ELSE "mutable",
                        pointers[r].target, Binding(to), pointers[r].lineage,
                        {Activate(lent) : lent \in UNION {pointers[q].lent : q \in lenders}})]
  /\ values' \in Called(Statement)
  /\ Proceed

EndStep ==
  /\ AtStatement /\ Statement.do \in {"unpack", "release", "keep"}
  /\ pointers' = Remaining(Statement)
  /\ Proceed /\ UNCHANGED values

(* Panics if every pair is equal.                                          *)
AllEqual(s) == \A i \in DOMAIN s.pairs : Read(s.pairs[i][1]) = Read(s.pairs[i][2])
DistinctStep ==
  /\ AtStatement /\ Statement.do = "distinct"
  /\ IF AllEqual(Statement)
     THEN phase' = "panicked" /\ UNCHANGED <<body, source, flows, block, index, steps>>
     ELSE Advance
  /\ UNCHANGED <<origin, values, pointers>>

Terminator == body.terminators[block]
AtTerminator == Running /\ index = Len(body.statements[block]) + 1
Jump ==
  /\ AtTerminator /\ Terminator.go # "return"
  /\ block' \in Terminator.to
  /\ index' = 1 /\ origin' = 1 /\ steps' = steps + 1
  /\ UNCHANGED <<body, source, flows, phase, values, pointers>>
ReturnStep ==
  /\ AtTerminator /\ Terminator.go = "return"
  /\ phase' = "returned"
  /\ UNCHANGED <<body, source, flows, block, index, origin, steps, values, pointers>>

Next == \/ Check \/ AssignStep \/ BorrowStep \/ CallStep \/ EndStep
        \/ DistinctStep \/ Jump \/ ReturnStep
Spec == Init /\ [][Next]_vars
-----------------------------------------------------------------------------
(* No accepted body uses a reference after something else has changed,     *)
(* moved or ended what it points at, or has borrowed it for itself.        *)
UsedReferences ==
  (IF AtStatement THEN Reads(Statement) \cup Changes(Statement)
   ELSE IF AtTerminator THEN LocalsOf(Terminator.reads) ELSE {}) \cap References
NothingSpoiledIsUsed ==
  \A r \in UsedReferences : pointers[r] # NoPointer /\ ~ pointers[r].spoiled

(* What a running call changes through one argument no other one reaches.  *)
Arguments ==
  IF AtStatement /\ Statement.do \in {"assign", "bind"} THEN Activated(Statement.value) \cap References ELSE {}
ArgumentsApart ==
  \A r, q \in Arguments :
    r # q /\ Meet(pointers[r].target, pointers[q].target) =>
      pointers[r].kind = "shared" /\ pointers[q].kind = "shared"

(* What a temporary is known to hold it holds, whatever was changed since, *)
(* directly, through a reference or by a call.                             *)
ValueOf(value, x) ==
  CASE x.form[1] = "constant" -> x.form[2]
    [] x.form[1] = "copy" -> Read(Copy(x.form[2]))
    [] x.form[1] = "binary" -> Plus(value[x.form[2]], value[x.form[3]])
Evaluate(e) ==
  LET value[x \in {e} \cup e.within] == ValueOf(value, x)
  IN  value[e]
KnownIsTrue ==
  phase = "run" => \A k \in flows[block][origin].known : values[k[1]] = Evaluate(k[2])

(* A borrow that is returned points behind a parameter that is one.        *)
ReturnedPointsOutside ==
  phase = "returned" /\ Result \in References => pointers[Result].target.local = Caller

(* A check panics only if the statement it is for would reach what a       *)
(* reference still in use was lent.                                        *)
Guarded == source.statements[block][origin]
InUse ==
  LiveBehind(source, LiveEnds(source, LiveStarts(source)), block, origin - 1) \cap References
PanicsAreReal ==
  AtStatement /\ Statement.do = "distinct" /\ AllEqual(Statement) =>
    \E r \in InUse : \E lent \in pointers[r].lent : \E touch \in Touches(Guarded) :
      lent.at \notin touch.lineage /\ Meet(lent.place, touch.place) /\ ~ Tolerates(lent.kind, touch)
===============================================================================
