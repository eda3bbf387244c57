------------------------------- MODULE Forward -------------------------------
(***************************************************************************)
(* The engine of the forward analyses (dataflow.rs, forward): a worklist   *)
(* of positions in the visiting order.  A visit joins the states at the    *)
(* ends of the predecessors and passes the result through the block.  The  *)
(* states, their join and the effect of a block are parameters, as in the  *)
(* code.                                                                   *)
(***************************************************************************)
EXTENDS BlockGraph

CONSTANTS States, None,     \* None: no path has reached the block yet
          EntryState,       \* what holds where the body is entered
          JoinAll(_),       \* the join of a nonempty set of states
          Effects, Apply(_, _),   \* what a block does to a state
          Below(_, _)       \* the order in which the join is a bound

VARIABLES effect,              \* of each block
          starts, ends,        \* the states found so far, or None
          pending              \* the positions to visit

vars == <<successors, order, effect, starts, ends, pending>>

ASSUME BlocksAssumption == First \in Blocks /\ None \notin States /\ EntryState \in States
ASSUME JoinAssumption == \A S \in (SUBSET States) \ {{}} : JoinAll(S) \in States
ASSUME ApplyAssumption == \A e \in Effects, s \in States : Apply(e, s) \in States

(* What the analyses of the compiler have in common: they join by union or *)
(* by intersection, a least bound in their order, and more before a block  *)
(* is more after it.                                                       *)
ASSUME OrderAssumption ==
  /\ \A r, s, t \in States : Below(r, s) /\ Below(s, t) => Below(r, t)
  /\ \A S \in (SUBSET States) \ {{}} :
       /\ \A s \in S : Below(s, JoinAll(S))
       /\ \A t \in States : (\A s \in S : Below(s, t)) => Below(JoinAll(S), t)
  /\ \A e \in Effects, s, t \in States : Below(s, t) => Below(Apply(e, s), Apply(e, t))

ArrivingAnywhere(b) ==    \* a bug: the entry state reaches every block
  {ends[p] : p \in {q \in Predecessors(b) : ends[q] # None}} \cup {EntryState}
Arriving(b) == {ends[p] : p \in {q \in Predecessors(b) : ends[q] # None}}
                 \cup (IF b = First THEN {EntryState} ELSE {})

Init ==
  /\ \E g \in Graphs : successors = g.successors /\ order = g.order
  /\ effect \in [Blocks -> Effects]
  /\ starts = [b \in Blocks |-> None]
  /\ ends = [b \in Blocks |-> None]
  /\ pending = {1}

(* A bug: only blocks that were never visited are visited again.           *)
FollowUnvisited(b) == {i \in DOMAIN order : order[i] \in successors[b] /\ starts[order[i]] = None}
Follow(b) == {i \in DOMAIN order : order[i] \in successors[b]}

(* A bug: a visited block always asks for its successors again.            *)
VisitAlwaysFollowing(i) ==
  /\ i \in pending /\ \A j \in pending : i <= j
  /\ LET b == order[i]
         start == JoinAll(Arriving(b))
     IN  /\ starts' = [starts EXCEPT ![b] = start]
         /\ ends' = [ends EXCEPT ![b] = Apply(effect[b], start)]
         /\ pending' = (pending \ {i}) \cup Follow(b)
  /\ UNCHANGED <<successors, order, effect>>

(* The first pending position; `b` is the block there.                     *)
Visit(i) ==
  /\ i \in pending /\ \A j \in pending : i <= j
  /\ LET b == order[i]
         start == JoinAll(Arriving(b))
         state == Apply(effect[b], start)
     IN  /\ starts' = [starts EXCEPT ![b] = start]
         /\ ends' = [ends EXCEPT ![b] = state]
         /\ pending' = (pending \ {i}) \cup (IF ends[b] = state THEN {} ELSE Follow(b))
  /\ UNCHANGED <<successors, order, effect>>

Next == \E i \in DOMAIN order : Visit(i)

Spec == Init /\ [][Next]_vars
-----------------------------------------------------------------------------
TypeOK ==
  /\ WellOrdered(successors, order)
  /\ effect \in [Blocks -> Effects]
  /\ starts \in [Blocks -> States \cup {None}]
  /\ ends \in [Blocks -> States \cup {None}]
  /\ pending \subseteq DOMAIN order

(* forward() expects "a visited block is reached": whatever is pending has *)
(* a state to start from.                                                  *)
VisitedIsReached == \A i \in pending : Arriving(order[i]) # {}

(* When nothing is pending, the states solve the equations of the          *)
(* analysis: each reached block starts in the join of what arrives there,  *)
(* although blocks are revisited only when their input has changed.        *)
Solved ==
  pending = {} =>
    \A b \in Reached : /\ starts[b] = JoinAll(Arriving(b))
                       /\ ends[b] = Apply(effect[b], starts[b])

(* The states found are the most precise solution: below any other.        *)
Solves(f) ==
  \A b \in Reached :
    f[b] = JoinAll({Apply(effect[p], f[p]) : p \in Predecessors(b)}
                     \cup (IF b = First THEN {EntryState} ELSE {}))
MostPrecise ==
  pending = {} =>
    \A f \in [Reached -> States] : Solves(f) => \A b \in Reached : Below(starts[b], f[b])
===============================================================================
