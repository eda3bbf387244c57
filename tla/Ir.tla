----------------------------------- MODULE Ir -----------------------------------
(***************************************************************************)
(* The steps of the IR (mir.rs): places, operands, right sides, statements *)
(* and terminators.  A place is a local and a path of projections:         *)
(* <<"field", f>>, <<"variant", v, f>>, <<"index", l>>, <<"constant", c>>  *)
(* or <<"position", l>>, where l is a local.                               *)
(***************************************************************************)
EXTENDS Integers, Sequences, FiniteSets, SequencesExt, TLC

Place(l, path) == [local |-> l, path |-> path]
Whole(l) == Place(l, <<>>)
Indexed(step) == step[1] \in {"index", "position"}
IsIndex(step) == Indexed(step) \/ step[1] = "constant"
IndexLocals(place) == {place.path[i][2] : i \in {j \in DOMAIN place.path : Indexed(place.path[j])}}
WithIndices(place) == {place} \cup {Whole(l) : l \in IndexLocals(place)}
(* Whether p is q or contains it (moves.rs).                               *)
Covers(p, q) == p.local = q.local /\ IsPrefix(p.path, q.path)

(* Operands and right sides.                                               *)
Copy(place) == [gives |-> "copy", place |-> place]
Move(place) == [gives |-> "move", place |-> place]
Borrowed(r) == [gives |-> "borrowed", place |-> Whole(r)]
Inspect(place) == [gives |-> "inspect", place |-> place]   \* an entity, looked at where it is
Constant(c) == [gives |-> "constant", constant |-> c]
OperandPlaces(o) == IF o.gives = "constant" THEN {} ELSE WithIndices(o.place)

Use(o) == [is |-> "use", operands |-> <<o>>]
Binary(left, right) == [is |-> "binary", operands |-> <<left, right>>]
Operation(operator, left, right) == [is |-> "binary", operands |-> <<left, right>>, operator |-> operator]
Ref(kind, place) == [is |-> "ref", operands |-> <<>>, kind |-> kind, place |-> place]
Call(arguments) == [is |-> "call", operands |-> arguments]
Builtin(receiver, arguments) == [is |-> "builtin", operands |-> arguments, place |-> receiver]
CallTo(callee, arguments, ty, borrows) ==
  [is |-> "call", callee |-> callee, operands |-> arguments, ty |-> ty, borrows |-> borrows]
Combine(operands, ty, variant) == [is |-> "combine", operands |-> operands, ty |-> ty, variant |-> variant]
Glue(operation, operands, ty) ==   \* compares or clones, by the impls of the program
  [is |-> "glue", operation |-> operation, operands |-> operands, ty |-> ty]
Discriminant(place) == [is |-> "discriminant", operands |-> <<>>, place |-> place]
LengthOf(place) == [is |-> "length", operands |-> <<>>, place |-> place]
TakeOut(container, position) ==
  [is |-> "take", operands |-> <<Copy(Whole(position))>>, place |-> Whole(container), position |-> position]
OccupiedAt(container, position) ==   \* whether the entry there has not been removed
  [is |-> "occupied", operands |-> <<Copy(Whole(position))>>, place |-> container, position |-> position]
RvaluePlaces(v) ==
  (UNION {OperandPlaces(v.operands[i]) : i \in DOMAIN v.operands})
    \cup (IF "place" \in DOMAIN v THEN WithIndices(v.place) ELSE {})

(* Statements.                                                             *)
Assign(to, value) == [do |-> "assign", to |-> to, value |-> value]
Bind(r, value) == [do |-> "bind", to |-> Whole(r), value |-> value]
Unpack(taken) == [do |-> "unpack", taken |-> taken]     \* pairs of a local and a place
Release(l) == [do |-> "release", local |-> l]
Keep(r) == [do |-> "keep", local |-> r]
Distinct(pairs) == [do |-> "distinct", pairs |-> pairs]

(* The places a statement names to read, take or borrow.                   *)
UsedPlaces(s) ==
  CASE s.do \in {"assign", "bind"} -> RvaluePlaces(s.value)
    [] s.do = "unpack" -> UNION {WithIndices(s.taken[i][2]) : i \in DOMAIN s.taken}
    [] s.do = "keep" -> {Whole(s.local)}
    [] s.do = "release" -> {}
    [] s.do = "distinct" ->
         UNION {OperandPlaces(s.pairs[i][1]) \cup OperandPlaces(s.pairs[i][2]) : i \in DOMAIN s.pairs}

(* The states between the steps of a sequence, in order, from a first      *)
(* state; the state after the first n of them, and after all of them.      *)
Along(Step(_, _), state, steps) ==
  LET after[k \in 0 .. Len(steps)] == IF k = 0 THEN state ELSE Step(after[k - 1], steps[k])
  IN  after
AfterFirst(n, Step(_, _), state, steps) == Along(Step, state, steps)[n]
After(Step(_, _), state, steps) == AfterFirst(Len(steps), Step, state, steps)
(* What n rounds make of a first state, and what rounds make of it once    *)
(* they change nothing.                                                    *)
Repeat(Round(_), state, n) ==
  LET after[k \in 0 .. n] == IF k = 0 THEN state ELSE Round(after[k - 1])
  IN  after[n]
MaxRounds == 30   \* more than any body of the runs needs
Settle(Round(_), state) ==
  LET Step(s) == LET next == Round(s) IN [at |-> next, settled |-> next = s]
      after[k \in 0 .. MaxRounds] ==
        IF k = 0 THEN [at |-> state, settled |-> FALSE]
        ELSE LET before == after[k - 1] IN IF before.settled THEN before ELSE Step(before.at)
      last == after[MaxRounds]
  IN  CHOOSE s \in {last.at} : last.settled

LocalsOf(places) == {place.local : place \in places}
(* Terminators; `reads` are the places they read.                          *)
Goto(b) == [go |-> "goto", to |-> {b}, reads |-> {}]
Branch(b, c) == [go |-> "branch", to |-> {b, c}, reads |-> {}]
BranchOn(o, b, c) == [go |-> "branch", to |-> {b, c}, reads |-> OperandPlaces(o)]
If(o, b, c) == [BranchOn(o, b, c) EXCEPT !.go = "if"] @@ [condition |-> o, then |-> b, otherwise |-> c]
ReturnOf(result) == [go |-> "return", to |-> {}, reads |-> {Whole(result)}]
Unreachable == [go |-> "unreachable", to |-> {}, reads |-> {}]
TailCall(arguments, releases) ==
  [go |-> "tail_call", to |-> {}, reads |-> UNION {OperandPlaces(arguments[i]) : i \in DOMAIN arguments},
   arguments |-> arguments, releases |-> releases]

(* A body is [statements, terminators]; block 0 is the entry.              *)
Blocks(body) == DOMAIN body.statements
Successors(body, b) == body.terminators[b].to
Predecessors(body, b) == {p \in Blocks(body) : b \in Successors(body, p)}
===============================================================================
