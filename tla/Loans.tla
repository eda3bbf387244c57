--------------------------------- MODULE Loans ---------------------------------
(***************************************************************************)
(* Borrow checking (borrowck/loans.rs): the loans each reference carries,  *)
(* the accesses each statement makes, and what becomes of those that meet  *)
(* a loan still in force: an error, a check at run time, or nothing.       *)
(* First, what index temporaries are known to hold, and the one judgement  *)
(* of whether two places overlap (borrowck/values.rs).  An expression      *)
(* stands for itself where the code gives it a number: <<"copy", place>>,  *)
(* <<"constant", c>> or <<"binary", left, right>>.  Equal expressions have *)
(* equal values as long as nothing they read has changed.                  *)
(***************************************************************************)
EXTENDS Mir

(* A loan of a place: `made` is the statement that makes it, `by` the      *)
(* reference it is made for.                                               *)
Loan(made, kind, place, by) == [made |-> made, kind |-> kind, place |-> place, by |-> by]

(* The temporaries worth knowing: indices, and what they are computed from.*)
StatementsOf(body) ==
  UNION {{body.statements[b][i] : i \in DOMAIN body.statements[b]} : b \in Blocks(body)}
NamedPlaces(s) == UsedPlaces(s) \cup (IF s.do = "assign" THEN {s.to} ELSE {})
Sources(body, l) ==
  {place.local : place \in
     UNION {{s.value.operands[i].place : i \in {j \in DOMAIN s.value.operands :
               s.value.operands[j].gives = "copy" /\ s.value.operands[j].place.path = <<>>}} :
            s \in {x \in StatementsOf(body) : x.do = "assign" /\ x.to = Whole(l)}}}
Wanted(body) ==
  LET places == (UNION {NamedPlaces(s) : s \in {x \in StatementsOf(body) : x.do # "distinct"}})
                  \cup (UNION {body.terminators[b].reads : b \in Blocks(body)})
      Round(wanted) == wanted \cup UNION {Sources(body, l) : l \in wanted}
  IN  Repeat(Round, UNION {IndexLocals(place) : place \in places}, Cardinality(Temporaries))

(* `known` is a set of pairs of a temporary and the expression it holds;   *)
(* an expression says which locals it reads and what it is made of.        *)
Expression(form, reads, within, size) == [form |-> form, reads |-> reads, within |-> within, size |-> size]
ConstantOf(c) == Expression(<<"constant", c>>, {}, {}, 0)
CopyOf(place) == Expression(<<"copy", place>>, {place.local}, {}, 0)
BinaryOf(l, r) ==
  Expression(<<"binary", l, r>>, l.reads \cup r.reads, {l, r} \cup l.within \cup r.within, l.size + r.size + 1)
Holding(known, l) == {pair[2] : pair \in {x \in known : x[1] = l}}
(* What an operand is known to be: nothing or one expression.              *)
Known(o, known) ==
  CASE o.gives = "constant" -> {ConstantOf(o.constant)}
    [] o.gives = "copy" /\ o.place.local \in Temporaries ->
         IF o.place.path = <<>> THEN Holding(known, o.place.local) ELSE {}
    [] o.gives = "copy" /\ o.place.local \notin Temporaries ->
         IF o.place.local \notin References /\ \A i \in DOMAIN o.place.path : o.place.path[i][1] = "field"
         THEN {CopyOf(o.place)} ELSE {}
    [] OTHER -> {}
KnownValue(value, known) ==
  CASE value.is = "use" -> Known(value.operands[1], known)
    [] value.is = "binary" ->
         {BinaryOf(l, r) : l \in Known(value.operands[1], known), r \in Known(value.operands[2], known)}
    [] OTHER -> {}

(* The locals that may change through a reference, by the loans it carries.*)
ThroughNothing(carried, r) == {}   \* a bug: only direct changes count
Through(carried, r) == {loan.place.local : loan \in {x \in carried[r] : x.kind # "shared"}}
OperandsOf(s) == {s.value.operands[i] : i \in DOMAIN s.value.operands}
ChangedByValue(carried, s) ==
  {o.place.local : o \in {x \in OperandsOf(s) : x.gives = "move"}}
    \cup (UNION {Through(carried, o.place.local) : o \in {x \in OperandsOf(s) : x.gives = "borrowed"}})
    \cup (IF s.value.is = "builtin" /\ s.value.place.local \in References
          THEN Through(carried, s.value.place.local) ELSE {})
ChangedLocals(carried, s) ==
  CASE s.do = "assign" -> ChangedByValue(carried, s)
         \cup (IF s.to.local \in References THEN Through(carried, s.to.local) ELSE {s.to.local})
    [] s.do = "bind" -> ChangedByValue(carried, s) \cup {s.to.local}
    [] s.do = "unpack" -> UNION {{s.taken[i][1], s.taken[i][2].local} : i \in DOMAIN s.taken}
    [] s.do = "release" -> {s.local}
    [] OTHER -> {}

Forget(known, changed) == {k \in known : k[1] \notin changed /\ k[2].reads \cap changed = {}}
Learn(known, wanted, carried, s) ==
  LET kept == Forget(known, ChangedLocals(carried, s))
  IN  IF s.do = "assign" /\ IsWholeLocal(s.to) /\ s.to.local \in Temporaries \cap wanted
      THEN kept \cup {<<s.to.local, e>> : e \in KnownValue(s.value, kept)}
      ELSE kept
-----------------------------------------------------------------------------
(* How two places relate.                                                  *)
Disjoint == <<"disjoint">>
Certain == <<"certain">>
IfEqual(pairs) == <<"if equal", pairs>>

IndexOperand(step) == IF step[1] = "constant" THEN Constant(step[2]) ELSE Copy(Whole(step[2]))
IndexValue(step, known) ==
  LET held == Holding(known, step[2])
      e == CHOOSE x \in held : TRUE
  IN  CASE step[1] = "constant" -> <<"constant", step[2]>>
        [] Indexed(step) /\ held # {} -> IF e.form[1] = "constant" THEN e.form ELSE <<"known", e>>
        [] Indexed(step) /\ held = {} -> <<"local", step[2]>>

Common(left, right) == 1 .. IF Len(left.path) < Len(right.path) THEN Len(left.path) ELSE Len(right.path)
(* A bug: only constant indices part.                                      *)
PartsByIndex(step, other, known) ==
  /\ IsIndex(step) /\ IsIndex(other)
  /\ IndexValue(step, known) # IndexValue(other, known)
  /\ IndexValue(step, known)[1] = "constant" /\ IndexValue(other, known)[1] = "constant"
(* Steps that part for certain: other fields, of one variant or of two, or *)
(* other constants.                                                        *)
Parts(step, other, known) ==
  \/ step[1] \in {"field", "variant"} /\ other[1] = step[1] /\ step # other
  \/ /\ IsIndex(step) /\ IsIndex(other)
     /\ IndexValue(step, known) # IndexValue(other, known)
     /\ IndexValue(step, known)[1] = "constant" /\ IndexValue(other, known)[1] = "constant"
(* Steps that only their values at run time tell apart; a position and a   *)
(* key are taken as the same.                                              *)
Unsure(step, other, known) ==
  /\ IsIndex(step) /\ IsIndex(other)
  /\ IndexValue(step, known) # IndexValue(other, known)
  /\ (step[1] = "position") = (other[1] = "position")
Overlap(left, right, known) ==
  LET common == Common(left, right)
      unsure == {i \in common : Unsure(left.path[i], right.path[i], known)}
  IN  CASE \/ left.local # right.local
           \/ \E i \in common : Parts(left.path[i], right.path[i], known) -> Disjoint
        [] OTHER ->
             IF unsure = {} THEN Certain
             ELSE IfEqual([i \in unsure |-> <<IndexOperand(left.path[i]), IndexOperand(right.path[i])>>])
-----------------------------------------------------------------------------
(* The state of the forward analysis: what the references carry, and what  *)
(* the temporaries are known to hold.                                      *)
Flow(carried, known) == [carried |-> carried, known |-> known]
NoFlow == Flow([r \in References |-> {}], {})
JoinFlows(flows) ==
  Flow([r \in References |-> UNION {f.carried[r] : f \in flows}],
       {k \in UNION {f.known : f \in flows} : \A f \in flows : k \in f.known})
RetainFlow(flow, live) ==
  [flow EXCEPT !.carried = [r \in References |-> IF r \in live THEN @[r] ELSE {}]]

(* The loan that a statement makes: nothing or one.                        *)
OwnLoan(at, s) ==
  IF s.do = "bind" /\ s.value.is = "ref"
  THEN {Loan(at, s.value.kind, s.value.place, s.to.local)} ELSE {}
(* A borrow that a call returns carries its `&mut` arguments as active.    *)
Waiting(loan) == loan   \* a bug: it goes on as reserved only
Active(loan) == IF loan.kind = "argument" THEN [loan EXCEPT !.kind = "mutable"] ELSE loan

CarriedAlone(carried, at, s) ==   \* a bug: a reborrow forgets what it was made from
  CASE s.value.is = "ref" -> OwnLoan(at, s)
    [] s.value.is = "call" ->
         UNION {{Active(loan) : loan \in carried[o.place.local]} :
                  o \in {x \in OperandsOf(s) : x.gives = "borrowed"}}
CarriedOn(carried, at, s) ==
  CASE s.value.is = "ref" ->
         OwnLoan(at, s) \cup (IF s.value.place.local \in References THEN carried[s.value.place.local] ELSE {})
    [] s.value.is = "call" ->
         UNION {{Active(loan) : loan \in carried[o.place.local]} :
                  o \in {x \in OperandsOf(s) : x.gives = "borrowed"}}
Carry(carried, at, s) ==
  CASE s.do = "bind" -> [carried EXCEPT ![s.to.local] = CarriedOn(carried, at, s)]
    [] s.do = "release" /\ s.local \in References -> [carried EXCEPT ![s.local] = {}]
    [] OTHER -> carried
StepFlow(flow, wanted, at, s) ==
  Flow(Carry(flow.carried, at, s), Learn(flow.known, wanted, flow.carried, s))
-----------------------------------------------------------------------------
(* The accesses of a statement, each with the loans that do not count      *)
(* against it, as it is made through them.                                 *)
Made(kind, place, exempt) == [kind |-> kind, place |-> place, exempt |-> exempt]
RefAccess(kind) == CASE kind = "shared" -> "share" [] kind = "argument" -> "reserve" [] kind = "mutable" -> "borrow"

Destination(to) == IF MapEntry(to) THEN Whole(to.local) ELSE to
Activated(value) ==
  CASE value.is = "call" -> {o.place.local : o \in {value.operands[i] : i \in {j \in DOMAIN value.operands : value.operands[j].gives = "borrowed"}}}
    [] value.is = "builtin" -> {value.place.local}
    [] OTHER -> {}
NoActivations(carried, s) == {}   \* a bug: reserving an argument is enough
Activations(carried, s) ==
  UNION {{Made("borrow", loan.place, carried[r]) :
            loan \in {x \in carried[r] : x.by = r /\ x.kind = "argument"}} :
         r \in Activated(s.value) \cap References}
MoveAccesses(s, own) == {Made("move", o.place, own) : o \in {x \in OperandsOf(s) : x.gives = "move"}}
Accesses(carried, at, s) ==
  LET own == OwnLoan(at, s)
  IN  CASE s.do = "assign" ->
             MoveAccesses(s, own) \cup {Made("write", Destination(s.to), own)} \cup Activations(carried, s)
        [] s.do = "bind" ->
             MoveAccesses(s, own) \cup Activations(carried, s)
               \cup (IF s.value.is = "ref" THEN {Made(RefAccess(s.value.kind), s.value.place, own)} ELSE {})
        [] s.do = "unpack" ->
             UNION {{Made("move", s.taken[i][2], own), Made("write", Whole(s.taken[i][1]), own)} : i \in DOMAIN s.taken}
        [] s.do = "release" ->
             IF s.local \in References THEN {} ELSE {Made("release", Whole(s.local), own)}
        [] OTHER -> {}

KindsConflict(loan, access) == loan = "mutable" \/ access \in {"borrow", "write", "move", "release"}

(* What the accesses meet among the loans in force.                        *)
InForce(carried) == UNION {carried[r] : r \in References}
Meetings(flow, at, s) ==
  {Overlap(m[2].place, m[1].place, flow.known) :
     m \in {x \in Accesses(flow.carried, at, s) \X InForce(flow.carried) :
              x[2] \notin x[1].exempt /\ KindsConflict(x[2].kind, x[1].kind)}}
-----------------------------------------------------------------------------
(* The references whose last use is statement i of a block, or that it     *)
(* makes point somewhere no later step looks.                              *)
LiveBehind(body, liveEnds, b, i) ==
  After(LiveBefore, liveEnds[b] \cup LocalsOf(body.terminators[b].reads),
        Reverse(SubSeq(body.statements[b], i + 1, Len(body.statements[b]))))

(* Checks block b from its start, statement by statement.                  *)
CheckStep(body, wanted, liveEnds, b, state, s) ==
  LET met == Meetings(state.flow, <<b, state.index>>, s)
      next == StepFlow(state.flow, wanted, <<b, state.index>>, s)
  IN  [flow |-> RetainFlow(next, LiveBehind(body, liveEnds, b, state.index)),
       index |-> state.index + 1,
       refused |-> state.refused \/ Certain \in met,
       checks |-> state.checks \cup
                    {[block |-> b, index |-> state.index, pairs |-> m[2]] : m \in met \ {Certain, Disjoint}}]
Unchecked(start) == [flow |-> start, index |-> 1, refused |-> FALSE, checks |-> {}]
CheckBlock(body, wanted, liveEnds, b, start) ==
  Along(LAMBDA state, s : CheckStep(body, wanted, liveEnds, b, state, s), Unchecked(start), body.statements[b])
(* A returned borrow must come from behind a reference.                    *)
ReturnsLocal(body, b, carried) ==
  /\ body.terminators[b].go = "return" /\ Result \in References
  /\ \E loan \in carried[Result] : loan.place.local \notin References

FlowStep(wanted, b, state, s) ==
  [flow |-> StepFlow(state.flow, wanted, <<b, state.index>>, s), index |-> state.index + 1]
FlowTransfer(body, wanted, liveStarts, liveEnds, b, flow) ==
  LET end == After(LAMBDA state, s : FlowStep(wanted, b, state, s),
                   [flow |-> RetainFlow(flow, liveStarts[b]), index |-> 1], body.statements[b])
  IN  RetainFlow(end.flow, liveEnds[b])
(* What the engine finds: one round, and the end.                          *)
FlowRound(body, wanted, live, liveEnds, ends) ==
  ForwardRound(body, NoFlow, JoinFlows, LAMBDA b, f : FlowTransfer(body, wanted, live, liveEnds, b, f), ends)
FlowEnds(body, wanted, live, liveEnds) ==
  Settle(LAMBDA ends : FlowRound(body, wanted, live, liveEnds, ends), [b \in Blocks(body) |-> {}])
FlowStarts(body) ==
  LET live == LiveStarts(body)
      ends == FlowEnds(body, Wanted(body), live, LiveEnds(body, live))
  IN  [b \in Reachable(body) |-> RetainFlow(StartOf(body, b, NoFlow, ends, JoinFlows), live[b])]

(* The states of the check of each block, from its start to its end.       *)
Checking(body) ==
  LET liveEnds == LiveEnds(body, LiveStarts(body))
      wanted == Wanted(body)
      starts == FlowStarts(body)
  IN  [b \in Reachable(body) |-> CheckBlock(body, wanted, liveEnds, b, starts[b])]
(* The verdict on a body: whether it is refused, and the checks it needs.  *)
BorrowVerdict(body) ==
  LET checking == Checking(body)
      last == [b \in Reachable(body) |-> checking[b][Len(body.statements[b])]]
  IN  [refused |-> \E b \in Reachable(body) : last[b].refused \/ ReturnsLocal(body, b, last[b].flow.carried),
       checks |-> UNION {last[b].checks : b \in Reachable(body)}]
(* What is known before each statement of a body, and behind the last one. *)
Flows(body) ==
  LET checking == Checking(body)
  IN  [b \in Reachable(body) |-> [i \in 1 .. Len(body.statements[b]) + 1 |-> checking[b][i - 1].flow]]
===============================================================================
