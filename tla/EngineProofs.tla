----------------------------- MODULE EngineProofs -----------------------------
(***************************************************************************)
(* The engines of dataflow.rs, on every graph: the forward one finds the   *)
(* most precise solution of its equations, for every lattice and every     *)
(* effect of the blocks; the backward one finds the least solution of      *)
(* its, which for the summaries of the code of the blocks is what some     *)
(* path uses before anything replaces it.                                  *)
(***************************************************************************)
EXTENDS Forward, Backward, SequenceTheorems, WellFoundedInduction, TLAPS


(* What holds at a position that is not pending: its block was never       *)
(* reached, or what the engine keeps for it is up to date.                 *)
UpToDate(b) ==
  \/ Arriving(b) = {} /\ starts[b] = None /\ ends[b] = None
  \/ /\ Arriving(b) # {}
     /\ starts[b] = JoinAll(Arriving(b))
     /\ ends[b] = Apply(effect[b], starts[b])
Settled == \A i \in DOMAIN order \ pending : UpToDate(order[i])

IInv == TypeOK /\ VisitedIsReached /\ Settled
-----------------------------------------------------------------------------
(* The block at a position is a block, reached, and at no other position.  *)
LEMMA Positions ==
  ASSUME TypeOK, NEW i \in DOMAIN order
  PROVE  /\ order[i] \in Blocks
         /\ order[i] \in Reached
         /\ \A j \in DOMAIN order : order[j] = order[i] => j = i
<1>1. order \in Seq(Blocks)
  BY DEF TypeOK, WellOrdered
<1>2. order[i] \in Blocks
  BY <1>1
<1>. QED
  BY <1>2, Zenon DEF TypeOK, WellOrdered, Reached

(* What arrives at a block are states.                                     *)
LEMMA ArrivingTyped ==
  ASSUME TypeOK, NEW b
  PROVE  Arriving(b) \in SUBSET States
<1>1. \A p \in Predecessors(b) : p \in Blocks
  BY Positions, Zenon DEF Predecessors, Reached
<1>2. \A p \in Predecessors(b) : ends[p] # None => ends[p] \in States
  BY <1>1 DEF TypeOK
<1>. QED
  BY <1>2, BlocksAssumption DEF Arriving

(* A visit of a reached block finds states.                                *)
LEMMA VisitTyped ==
  ASSUME TypeOK, NEW b \in Blocks, Arriving(b) # {}
  PROVE  /\ JoinAll(Arriving(b)) \in States
         /\ Apply(effect[b], JoinAll(Arriving(b))) \in States
<1>0. Arriving(b) \in SUBSET States
  BY ArrivingTyped
<1>1. Arriving(b) \in (SUBSET States) \ {{}}
  BY <1>0
<1>2. JoinAll(Arriving(b)) \in States
  BY <1>1, JoinAssumption
<1>3. effect[b] \in Effects
  BY DEF TypeOK
<1>. QED
  BY <1>2, <1>3, ApplyAssumption

LEMMA UpdateType ==
  ASSUME NEW S, NEW T, NEW f \in [S -> T], NEW x \in S, NEW y \in T
  PROVE  /\ [f EXCEPT ![x] = y] \in [S -> T]
         /\ [f EXCEPT ![x] = y][x] = y
         /\ \A z \in S : z # x => [f EXCEPT ![x] = y][z] = f[z]
         /\ f[x] = y => [f EXCEPT ![x] = y] = f
  OBVIOUS
-----------------------------------------------------------------------------
(* A visit of the block b at position i, from a state that satisfies the   *)
(* invariant.                                                              *)
LEMMA VisitPreserves ==
  ASSUME IInv, NEW i \in DOMAIN order, Visit(i)
  PROVE  IInv'
<1>. DEFINE b == order[i]
            start == JoinAll(Arriving(b))
            state == Apply(effect[b], start)
<1>1. /\ i \in pending
      /\ starts' = [starts EXCEPT ![b] = start]
      /\ ends' = [ends EXCEPT ![b] = state]
      /\ pending' = (pending \ {i}) \cup (IF ends[b] = state THEN {} ELSE Follow(b))
      /\ successors' = successors /\ order' = order /\ effect' = effect
  BY Zenon DEF Visit
<1>2. TypeOK /\ VisitedIsReached /\ Settled
  BY DEF IInv
<1>3. b \in Blocks /\ b \in Reached /\ \A j \in DOMAIN order : order[j] = b => j = i
  BY <1>2, Positions
<1>4. Arriving(b) # {}
  BY <1>1, <1>2 DEF VisitedIsReached
<1>5. start \in States /\ state \in States
  BY <1>2, <1>3, <1>4, VisitTyped
<1>6. state # None /\ start # None
  BY <1>5, BlocksAssumption
<1>7. /\ starts' \in [Blocks -> States \cup {None}]
      /\ starts'[b] = start
      /\ \A c \in Blocks : c # b => starts'[c] = starts[c]
  <2>1. starts \in [Blocks -> States \cup {None}]
    BY <1>2 DEF TypeOK
  <2>. QED
    BY <1>1, <1>3, <1>5, <2>1, UpdateType
<1>8. /\ ends' \in [Blocks -> States \cup {None}]
      /\ ends'[b] = state
      /\ \A c \in Blocks : c # b => ends'[c] = ends[c]
      /\ ends[b] = state => ends' = ends
  <2>1. ends \in [Blocks -> States \cup {None}]
    BY <1>2 DEF TypeOK
  <2>. HIDE DEF state
  <2>. QED
    BY <1>1, <1>3, <1>5, <2>1, UpdateType
<1>. HIDE DEF start, state, b
<1>9. Reached' = Reached /\ Reached \subseteq Blocks
  <2>1. Reached' = Reached
    BY <1>1 DEF Reached
  <2>2. Reached \subseteq Blocks
    BY <1>2, Positions, Zenon DEF Reached
  <2>. QED
    BY <2>1, <2>2
<1>10. \A c : Predecessors(c)' = Predecessors(c) /\ Predecessors(c) \subseteq Blocks
  BY <1>1, <1>9 DEF Predecessors
(* Only the successors of b can see another state arrive.                  *)
<1>11. ASSUME NEW c, ends[b] = state \/ b \notin Predecessors(c)
       PROVE  Arriving(c)' = Arriving(c)
  <2>1. \A q \in Predecessors(c) : ends'[q] = ends[q]
    BY <1>8, <1>10, <1>11
  <2>2. {ends'[p] : p \in {q \in Predecessors(c) : ends'[q] # None}}
          = {ends[p] : p \in {q \in Predecessors(c) : ends[q] # None}}
    BY <2>1
  <2>. QED
    BY <2>2, <1>10, Zenon DEF Arriving
(* Whatever arrived somewhere before, something still arrives.             *)
<1>12. ASSUME NEW c, Arriving(c) # {} \/ b \in Predecessors(c)
       PROVE  Arriving(c)' # {}
  <2>1. CASE c = First
    BY <2>1 DEF Arriving
  <2>2. CASE c # First
    <3>1. PICK p \in Predecessors(c) : ends[p] # None \/ p = b
      BY <1>12, <2>2 DEF Arriving
    <3>2. ends'[p] # None
      BY <3>1, <1>6, <1>8, <1>10
    <3>3. ends'[p] \in Arriving(c)'
      BY <3>2, <3>1, <1>10 DEF Arriving
    <3>. QED
      BY <3>3
  <2>. QED
    BY <2>1, <2>2
<1>13. TypeOK'
  <2>1. Follow(b) \subseteq DOMAIN order
    BY DEF Follow
  <2>2. pending' \subseteq DOMAIN order'
    BY <2>1, <1>1, <1>2 DEF TypeOK
  <2>3. WellOrdered(successors, order)' /\ effect' \in [Blocks -> Effects]
    BY <1>1, <1>2, Zenon DEF TypeOK
  <2>. QED
    BY <2>2, <2>3, <1>7, <1>8 DEF TypeOK
<1>14. VisitedIsReached'
  <2>. SUFFICES ASSUME NEW k \in pending'
                PROVE  Arriving(order[k])' # {}
    BY <1>1, Zenon DEF VisitedIsReached
  <2>1. CASE k \in pending
    BY <2>1, <1>2, <1>12, <1>1 DEF VisitedIsReached
  <2>2. CASE k \in Follow(b)
    <3>1. b \in Predecessors(order[k])
      BY <2>2, <1>3 DEF Follow, Predecessors
    <3>. QED
      BY <3>1, <1>12, <1>1
  <2>. QED
    BY <2>1, <2>2, <1>1
<1>15. Settled'
  <2>. SUFFICES ASSUME NEW k \in DOMAIN order, k \notin pending'
                PROVE  UpToDate(order[k])'
    BY <1>1, Zenon DEF Settled
  <2>. DEFINE c == order[k]
  <2>1. c \in Blocks /\ c \in Reached
    BY <1>2, Positions
  <2>2. ends[b] = state \/ b \notin Predecessors(c)
    BY <1>1 DEF Follow, Predecessors
  <2>3. Arriving(c)' = Arriving(c)
    BY <2>2, <1>11, <1>1
  <2>4. CASE k = i
    <3>1. c = b
      BY <2>4 DEF b
    <3>2. Arriving(c)' # {} /\ starts'[c] = JoinAll(Arriving(c)') /\ ends'[c] = Apply(effect'[c], starts'[c])
      BY <3>1, <2>3, <1>1, <1>4, <1>7, <1>8, Zenon DEF start, state
    <3>. QED
      BY <3>2, <1>1 DEF UpToDate
  <2>5. CASE k # i
    <3>1. c # b
      BY <2>5, <1>3
    <3>2. UpToDate(c)
      BY <2>5, <1>1, <1>2 DEF Settled
    <3>3. starts'[c] = starts[c] /\ ends'[c] = ends[c]
      BY <3>1, <2>1, <1>7, <1>8
    <3>. QED
      BY <3>2, <3>3, <2>3, <1>1 DEF UpToDate
  <2>. QED
    BY <2>4, <2>5
<1>. QED
  BY <1>13, <1>14, <1>15 DEF IInv
-----------------------------------------------------------------------------
(* Only the entry is pending at first, and the entry state arrives there.  *)
Unvisited ==
  /\ effect \in [Blocks -> Effects]
  /\ starts = [b \in Blocks |-> None] /\ ends = [b \in Blocks |-> None]
  /\ pending = {1}

LEMMA UnvisitedInv == WellOrdered(successors, order) /\ Unvisited => IInv
<1>. SUFFICES ASSUME WellOrdered(successors, order), Unvisited PROVE IInv
  OBVIOUS
<1>2. order \in Seq(Blocks) /\ order # <<>> /\ order[1] = First
  BY DEF WellOrdered
<1>3. 1 \in DOMAIN order
  BY <1>2
<1>4. TypeOK
  BY <1>3 DEF Unvisited, TypeOK
<1>5. VisitedIsReached
  BY <1>2 DEF Unvisited, VisitedIsReached, Arriving
<1>6. Settled
  <2>. SUFFICES ASSUME NEW i \in DOMAIN order, i # 1
                PROVE  UpToDate(order[i])
    BY DEF Settled, Unvisited
  <2>1. order[i] # First
    BY <1>2, <1>3 DEF WellOrdered
  <2>2. order[i] \in Blocks
    BY <1>2
  <2>3. \A q \in Reached : ends[q] = None
    <3>1. \A q \in Reached : q \in Blocks
      BY <1>4, Positions, Zenon DEF Reached
    <3>. QED
      BY <3>1 DEF Unvisited
  <2>4. Arriving(order[i]) = {}
    BY <2>1, <2>3 DEF Arriving, Predecessors
  <2>5. starts[order[i]] = None /\ ends[order[i]] = None
    BY <2>2 DEF Unvisited
  <2>. QED
    BY <2>4, <2>5 DEF UpToDate
<1>. QED
  BY <1>4, <1>5, <1>6 DEF IInv

LEMMA InitEstablishes == Init => IInv
<1>1. Init => WellOrdered(successors, order)
  BY GraphAssumption DEF Init
<1>2. Init => Unvisited
  BY DEF Init, Unvisited
<1>. QED
  BY <1>1, <1>2, UnvisitedInv

LEMMA StepPreserves == IInv /\ [Next]_vars => IInv'
<1>. SUFFICES ASSUME IInv, [Next]_vars PROVE IInv'
  OBVIOUS
<1>1. CASE Next
  BY <1>1, VisitPreserves DEF Next
<1>2. CASE UNCHANGED vars
  <2>1. TypeOK' /\ VisitedIsReached'
    BY <1>2 DEF IInv, vars, TypeOK, VisitedIsReached, Arriving, Predecessors, Reached
  <2>2. Settled'
    BY <1>2 DEF IInv, vars, Settled, UpToDate, Arriving, Predecessors, Reached
  <2>. QED
    BY <2>1, <2>2 DEF IInv
<1>. QED
  BY <1>1, <1>2

(* With nothing pending, what is settled has spread over every edge from   *)
(* the entry, so every reached block has a state.                          *)
LEMMA AllReached ==
  ASSUME IInv, pending = {}
  PROVE  \A b \in Reached : UpToDate(b) /\ ends[b] # None
<1>1. TypeOK /\ WellOrdered(successors, order)
  BY DEF IInv, TypeOK
<1>2. \A b \in Reached : UpToDate(b)
  BY DEF IInv, Settled, Reached
<1>3. \A b \in Reached : b \in Blocks
  BY <1>1, Positions, Zenon DEF Reached
<1>. DEFINE R == {b \in Reached : ends[b] # None}
<1>4. \A b \in Reached : Arriving(b) # {} => b \in R
  <2>. SUFFICES ASSUME NEW b \in Reached, Arriving(b) # {} PROVE ends[b] # None
    OBVIOUS
  <2>1. ends[b] = Apply(effect[b], JoinAll(Arriving(b)))
    BY <1>2 DEF UpToDate
  <2>2. Apply(effect[b], JoinAll(Arriving(b))) \in States
    BY <1>1, <1>3, VisitTyped
  <2>. QED
    BY <2>1, <2>2, BlocksAssumption
<1>5. First \in R
  <2>1. order \in Seq(Blocks) /\ order # <<>> /\ order[1] = First
    BY <1>1 DEF WellOrdered
  <2>2. 1 \in DOMAIN order
    BY <2>1
  <2>3. First \in Reached
    BY <2>1, <2>2, Zenon DEF Reached
  <2>4. Arriving(First) # {}
    BY DEF Arriving
  <2>. QED
    BY <2>3, <2>4, <1>4
<1>6. \A b \in R : successors[b] \subseteq R
  <2>. SUFFICES ASSUME NEW b \in R, NEW c \in successors[b] PROVE c \in R
    OBVIOUS
  <2>1. c \in Reached
    BY <1>1, Zenon DEF WellOrdered, Reached
  <2>2. b \in Predecessors(c)
    BY DEF Predecessors
  <2>3. ends[b] \in Arriving(c)
    BY <2>2 DEF Arriving
  <2>. QED
    BY <2>1, <2>3, <1>4
<1>7. R \in SUBSET Blocks
  BY <1>3
<1>. HIDE DEF R
<1>8. \A i \in DOMAIN order : order[i] \in R
  BY <1>1, <1>5, <1>6, <1>7, Zenon DEF WellOrdered
<1>9. \A b \in Reached : b \in R
  BY <1>8, Zenon DEF Reached
<1>10. \A b \in Reached : ends[b] # None
  BY <1>9 DEF R
<1>. QED
  BY <1>2, <1>10

LEMMA SettledSolves == IInv => Solved
  BY AllReached DEF Solved, UpToDate

THEOREM Invariant == Spec => []IInv
  BY InitEstablishes, StepPreserves, PTL DEF Spec

(* The engine keeps a state or none for each block, and its positions are  *)
(* positions of the order.                                                 *)
THEOREM TypeCorrect == Spec => []TypeOK
<1>1. IInv => TypeOK
  BY DEF IInv
<1>. QED
  BY <1>1, Invariant, PTL

(* "a visited block is reached": forward never panics there, whatever the  *)
(* graph.                                                                  *)
THEOREM NeverUnreached == Spec => []VisitedIsReached
<1>1. IInv => VisitedIsReached
  BY DEF IInv
<1>. QED
  BY <1>1, Invariant, PTL

(* A forward analysis that ends has solved its equations, on every graph,  *)
(* for every join and every effect of the blocks.                          *)
THEOREM FixedPoint == Spec => []Solved
  BY Invariant, SettledSolves, PTL
-----------------------------------------------------------------------------
(* No state ever exceeds what a solution has for the block: not at its     *)
(* start, and not at its end what the block makes of that.                 *)
Within(f, b) ==
  /\ starts[b] # None => Below(starts[b], f[b])
  /\ ends[b] # None => Below(ends[b], Apply(effect[b], f[b]))
NeverAbove == \A f \in [Reached -> States] : Solves(f) => \A b \in Reached : Within(f, b)

PreciseInv == IInv /\ NeverAbove

(* What arrives at a block is below what a solution has arriving there.    *)
LEMMA ArrivingBelow ==
  ASSUME PreciseInv, NEW f \in [Reached -> States], Solves(f), NEW b \in Reached, Arriving(b) # {}
  PROVE  Below(JoinAll(Arriving(b)), f[b])
<1>. DEFINE solved == {Apply(effect[p], f[p]) : p \in Predecessors(b)}
                        \cup (IF b = First THEN {EntryState} ELSE {})
<1>1. TypeOK /\ Reached \subseteq Blocks /\ Predecessors(b) \subseteq Reached
  BY Positions, Zenon DEF PreciseInv, IInv, Reached, Predecessors
<1>2. \A p \in Predecessors(b) : Apply(effect[p], f[p]) \in States
  BY <1>1, ApplyAssumption DEF TypeOK
<1>3. solved \in SUBSET States
  BY <1>2, BlocksAssumption
<1>4. f[b] = JoinAll(solved) /\ f[b] \in States
  BY Zenon DEF Solves
<1>5. Arriving(b) \in (SUBSET States) \ {{}}
  BY <1>1, ArrivingTyped
<1>0. solved # {} => \A s \in solved : Below(s, f[b])
  <2>. HIDE DEF solved
  <2>1. CASE solved # {}
    <3>1. solved \in (SUBSET States) \ {{}}
      BY <2>1, <1>3
    <3>2. \A s \in solved : Below(s, JoinAll(solved))
      BY <3>1, OrderAssumption
    <3>. QED  BY <3>2, <1>4
  <2>. QED  BY <2>1
<1>6. ASSUME NEW s \in Arriving(b) PROVE Below(s, f[b])
  <2>1. CASE s = EntryState /\ b = First
    <3>1. s \in solved
      BY <2>1
    <3>. QED  BY <2>1, <3>1, <1>0
  <2>2. CASE \E p \in Predecessors(b) : ends[p] # None /\ s = ends[p]
    <3>1. PICK p \in Predecessors(b) : ends[p] # None /\ s = ends[p]
      BY <2>2
    <3>2. Below(s, Apply(effect[p], f[p]))
      BY <1>1, <3>1 DEF PreciseInv, NeverAbove, Within
    <3>3. Apply(effect[p], f[p]) \in solved /\ s \in States
      BY <1>5
    <3>4. Below(Apply(effect[p], f[p]), f[b])
      BY <3>3, <1>0
    <3>. QED  BY <3>2, <3>3, <3>4, <1>3, <1>4, OrderAssumption
  <2>. QED  BY <2>1, <2>2 DEF Arriving
<1>. HIDE DEF solved
<1>. QED  BY <1>4, <1>5, <1>6, OrderAssumption

LEMMA VisitNeverAbove ==
  ASSUME PreciseInv, NEW i \in DOMAIN order, Visit(i)
  PROVE  NeverAbove'
<1>. DEFINE b == order[i]
            start == JoinAll(Arriving(b))
            state == Apply(effect[b], start)
<1>1. /\ starts' = [starts EXCEPT ![b] = start]
      /\ ends' = [ends EXCEPT ![b] = state]
      /\ successors' = successors /\ order' = order /\ effect' = effect /\ i \in pending
  BY Zenon DEF Visit
<1>2. TypeOK /\ VisitedIsReached
  BY DEF PreciseInv, IInv
<1>3. b \in Blocks /\ b \in Reached
  BY <1>2, Positions
<1>4. Arriving(b) # {}
  BY <1>1, <1>2 DEF VisitedIsReached
<1>5. start \in States /\ effect[b] \in Effects
  BY <1>2, <1>3, <1>4, VisitTyped DEF TypeOK
  <1>6. \A c \in Blocks : /\ starts'[c] = IF c = b THEN start ELSE starts[c]
                          /\ ends'[c] = IF c = b THEN state ELSE ends[c]
  BY <1>1, <1>2 DEF TypeOK
<1>7. Reached' = Reached /\ Reached \subseteq Blocks
  BY <1>1, <1>2, Positions, Zenon DEF Reached
<1>8. ASSUME NEW f \in [Reached -> States], Solves(f)
      PROVE  Below(start, f[b]) /\ Below(state, Apply(effect[b], f[b]))
  <2>1. Below(start, f[b]) /\ f[b] \in States
    BY <1>3, <1>4, <1>8, ArrivingBelow
  <2>. HIDE DEF start
  <2>. QED  BY <2>1, <1>5, OrderAssumption
<1>. HIDE DEF b, start, state
<1>. SUFFICES ASSUME NEW f \in [Reached -> States], Solves(f)', NEW c \in Reached
              PROVE  Within(f, c)'
  BY <1>7 DEF NeverAbove
<1>9. Solves(f)
  BY <1>1, <1>7 DEF Solves, Predecessors
<1>10. Within(f, c) /\ c \in Blocks
  BY <1>7, <1>9 DEF PreciseInv, NeverAbove
<1>. QED
  BY <1>1, <1>6, <1>8, <1>9, <1>10 DEF Within

LEMMA StepPrecise == PreciseInv /\ [Next]_vars => PreciseInv'
<1>. SUFFICES ASSUME PreciseInv, [Next]_vars PROVE PreciseInv'
  OBVIOUS
<1>1. IInv'
  BY StepPreserves DEF PreciseInv
<1>2. CASE Next
  BY <1>1, <1>2, VisitNeverAbove DEF Next, PreciseInv
<1>3. CASE UNCHANGED vars
  <2>1. Reached' = Reached /\ \A b : Predecessors(b)' = Predecessors(b)
    BY <1>3 DEF vars, Reached, Predecessors
  <2>2. \A f : Solves(f)' = Solves(f) /\ \A b : Within(f, b)' = Within(f, b)
    BY <1>3, <2>1 DEF vars, Solves, Within
  <2>. QED  BY <1>1, <2>1, <2>2 DEF PreciseInv, NeverAbove
<1>. QED  BY <1>2, <1>3

LEMMA UnvisitedPrecise == WellOrdered(successors, order) /\ Unvisited => PreciseInv
<1>. SUFFICES ASSUME WellOrdered(successors, order), Unvisited PROVE PreciseInv
  OBVIOUS
<1>1. IInv
  BY UnvisitedInv
<1>2. Reached \subseteq Blocks
  BY <1>1, Positions, Zenon DEF IInv, Reached
<1>. QED  BY <1>1, <1>2 DEF PreciseInv, NeverAbove, Within, Unvisited

LEMMA PreciseAtTheEnd == PreciseInv => MostPrecise
<1>. SUFFICES ASSUME PreciseInv, pending = {}, NEW f \in [Reached -> States], Solves(f),
                     NEW b \in Reached
              PROVE  Below(starts[b], f[b])
  BY DEF MostPrecise
<1>1. TypeOK /\ Solved
  BY SettledSolves DEF PreciseInv, IInv
<1>2. starts[b] = JoinAll(Arriving(b)) /\ b \in Blocks
  BY <1>1, Positions, Zenon DEF Solved, Reached
<1>3. Within(f, b)
  BY DEF PreciseInv, NeverAbove
<1>4. starts[b] # None
  <2>1. Arriving(b) # {}
    BY AllReached DEF PreciseInv, UpToDate
  <2>. QED  BY <1>1, <1>2, <2>1, VisitTyped, BlocksAssumption
<1>. QED  BY <1>3, <1>4 DEF Within

(* When a forward analysis ends, what it found is below every solution of  *)
(* its equations: blocks visited early, before some of their predecessors, *)
(* or visited again, lose no precision.                                    *)
THEOREM LeastFixedPoint == Spec => []MostPrecise
<1>1. Init => PreciseInv
  BY UnvisitedPrecise, GraphAssumption DEF Init, Unvisited
<1>. QED
  BY <1>1, StepPrecise, PreciseAtTheEnd, PTL DEF Spec
-----------------------------------------------------------------------------

(* What holds at a position that is not waiting.                           *)
LiveUpToDate(b) == liveEnds[b] = Leaving(b) /\ liveStarts[b] = Flow(b, liveEnds[b])
LiveSettled == \A i \in DOMAIN order \ waiting : LiveUpToDate(order[i])

LiveInv == LiveTypeOK /\ LiveSettled /\ NeverTooMuch
-----------------------------------------------------------------------------
LEMMA LiveUpdateType ==
  ASSUME NEW S, NEW T, NEW f \in [S -> T], NEW x \in S, NEW y \in T
  PROVE  /\ [f EXCEPT ![x] = y] \in [S -> T]
         /\ [f EXCEPT ![x] = y][x] = y
         /\ \A z \in S : z # x => [f EXCEPT ![x] = y][z] = f[z]
  OBVIOUS

(* The block at a position is a block, reached, and at no other position.  *)
LEMMA LivePositions ==
  ASSUME LiveTypeOK, NEW i \in DOMAIN order
  PROVE  /\ order[i] \in Blocks
         /\ order[i] \in Reached
         /\ \A j \in DOMAIN order : order[j] = order[i] => j = i
<1>1. order \in Seq(Blocks)
  BY DEF LiveTypeOK, WellOrdered
<1>2. order[i] \in Blocks
  BY <1>1
<1>. QED
  BY <1>2, Zenon DEF LiveTypeOK, WellOrdered, Reached

LEMMA SuccessorsTyped ==
  ASSUME LiveTypeOK, NEW b \in Blocks
  PROVE  successors[b] \subseteq Blocks
  BY DEF LiveTypeOK, WellOrdered

LEMMA ReachedTyped ==
  ASSUME LiveTypeOK, NEW b \in Reached
  PROVE  b \in Blocks /\ successors[b] \subseteq Reached
<1>1. PICK i \in DOMAIN order : b = order[i]
  BY DEF Reached
<1>2. b \in Blocks
  BY <1>1, LivePositions
<1>3. \A c \in successors[b] : \E j \in DOMAIN order : order[j] = c
  BY <1>1, Zenon DEF LiveTypeOK, WellOrdered
<1>. QED
  BY <1>2, <1>3, Zenon DEF Reached

LEMMA FlowTyped ==
  ASSUME LiveTypeOK, NEW b \in Blocks
  PROVE  Leaving(b) \in SUBSET Locals /\ Flow(b, Leaving(b)) \in SUBSET Locals
<1>1. \A c \in successors[b] : liveStarts[c] \in SUBSET Locals
  BY SuccessorsTyped DEF LiveTypeOK
<1>2. Leaving(b) \in SUBSET Locals
  BY <1>1 DEF Leaving
<1>3. summaries[b] \in [uses : SUBSET Locals, kills : SUBSET Locals]
  BY DEF LiveTypeOK, Summaries
<1>. QED
  BY <1>2, <1>3 DEF Flow
-----------------------------------------------------------------------------
(* A visit of the block b at position i, from a state that satisfies the   *)
(* invariant.                                                              *)
LEMMA VisitBackPreserves ==
  ASSUME LiveInv, NEW i \in DOMAIN order, VisitBack(i)
  PROVE  LiveInv'
<1>. DEFINE b == order[i]
            live == Flow(b, Leaving(b))
<1>1. /\ i \in waiting
      /\ liveEnds' = [liveEnds EXCEPT ![b] = Leaving(b)]
      /\ visited' = [visited EXCEPT ![b] = TRUE]
      /\ liveStarts' = [liveStarts EXCEPT ![b] = live]
      /\ waiting' = (waiting \ {i}) \cup (IF Changed(b, live) THEN FollowBack(b) ELSE {})
      /\ successors' = successors /\ order' = order /\ summaries' = summaries
  BY Zenon DEF VisitBack
<1>2. LiveTypeOK /\ LiveSettled /\ NeverTooMuch
  BY DEF LiveInv
<1>3. b \in Blocks /\ b \in Reached /\ \A j \in DOMAIN order : order[j] = b => j = i
  BY <1>2, LivePositions
<1>4. live \in SUBSET Locals /\ Leaving(b) \in SUBSET Locals
  BY <1>2, <1>3, FlowTyped
<1>. HIDE DEF live, b
<1>5. /\ liveStarts' \in [Blocks -> SUBSET Locals]
      /\ liveStarts'[b] = live
      /\ \A c \in Blocks : c # b => liveStarts'[c] = liveStarts[c]
  <2>1. liveStarts \in [Blocks -> SUBSET Locals]
    BY <1>2 DEF LiveTypeOK
  <2>. QED
    BY <1>1, <1>3, <1>4, <2>1, LiveUpdateType
<1>6. /\ liveEnds' \in [Blocks -> SUBSET Locals]
      /\ liveEnds'[b] = Leaving(b)
      /\ \A c \in Blocks : c # b => liveEnds'[c] = liveEnds[c]
  <2>1. liveEnds \in [Blocks -> SUBSET Locals]
    BY <1>2 DEF LiveTypeOK
  <2>. QED
    BY <1>1, <1>3, <1>4, <2>1, LiveUpdateType
<1>7. visited' \in [Blocks -> BOOLEAN]
  <2>1. visited \in [Blocks -> BOOLEAN]
    BY <1>2 DEF LiveTypeOK
  <2>. QED
    BY <1>1, <1>3, <2>1, LiveUpdateType
<1>8. LiveTypeOK'
  <2>1. FollowBack(b) \subseteq DOMAIN order
    BY DEF FollowBack
  <2>2. waiting' \subseteq DOMAIN order'
    BY <2>1, <1>1, <1>2 DEF LiveTypeOK
  <2>3. WellOrdered(successors, order)' /\ summaries' \in [Blocks -> Summaries]
    BY <1>1, <1>2, Zenon DEF LiveTypeOK
  <2>. QED
    BY <2>2, <2>3, <1>5, <1>6, <1>7 DEF LiveTypeOK
(* A changed block leaves no predecessor settled.                          *)
<1>9. ASSUME NEW k \in DOMAIN order, k \notin waiting'
      PROVE  liveStarts'[b] = liveStarts[b] \/ b \notin successors[order[k]]
  <2>1. CASE Changed(b, live)
    <3>1. k \notin FollowBack(b)
      BY <2>1, <1>1, <1>9
    <3>2. order[k] \in Reached
      BY <1>2, LivePositions
    <3>. QED
      BY <3>1, <3>2 DEF FollowBack, Predecessors
  <2>2. CASE ~ Changed(b, live)
    BY <2>2, <1>5 DEF Changed
  <2>. QED
    BY <2>1, <2>2
<1>10. ASSUME NEW k \in DOMAIN order, k \notin waiting'
       PROVE  Leaving(order[k])' = Leaving(order[k])
  <2>1. order[k] \in Blocks
    BY <1>2, LivePositions
  <2>2. \A c \in successors[order[k]] : c \in Blocks
    BY <2>1, <1>2, SuccessorsTyped
  <2>3. \A c \in successors[order[k]] : liveStarts'[c] = liveStarts[c]
    BY <2>2, <1>5, <1>9, <1>10
  <2>. QED
    BY <2>3, <1>1 DEF Leaving
<1>11. LiveSettled'
  <2>. SUFFICES ASSUME NEW k \in DOMAIN order, k \notin waiting'
                PROVE  LiveUpToDate(order[k])'
    BY <1>1, Zenon DEF LiveSettled
  <2>1. Leaving(order[k])' = Leaving(order[k])
    BY <1>10
  <2>2. order[k] \in Blocks
    BY <1>2, LivePositions
  <2>3. CASE k = i
    <3>1. order[k] = b
      BY <2>3 DEF b
    <3>2. liveEnds'[order[k]] = Leaving(order[k]) /\ liveStarts'[order[k]] = Flow(order[k], liveEnds'[order[k]])
      BY <3>1, <1>5, <1>6, Zenon DEF live
    <3>4. liveEnds[order[k]]' = Leaving(order[k])'
      BY <3>2, <2>1, <1>1
    <3>5. liveStarts[order[k]]' = Flow(order[k], liveEnds[order[k]])'
      BY <3>2, <1>1 DEF Flow
    <3>. QED
      BY <3>4, <3>5 DEF LiveUpToDate
  <2>4. CASE k # i
    <3>1. order[k] # b
      BY <2>4, <1>3
    <3>2. LiveUpToDate(order[k])
      BY <2>4, <1>1, <1>2 DEF LiveSettled
    <3>3. liveStarts'[order[k]] = liveStarts[order[k]] /\ liveEnds'[order[k]] = liveEnds[order[k]]
      BY <3>1, <2>2, <1>5, <1>6
    <3>. QED
      BY <3>2, <3>3, <2>1, <1>1 DEF LiveUpToDate, Flow
  <2>. QED
    BY <2>3, <2>4
<1>12. Reached' = Reached
  BY <1>1 DEF Reached
<1>13. NeverTooMuch'
  <2>. SUFFICES ASSUME NEW f \in [Blocks -> SUBSET Locals], Solution(f),
                       NEW c \in Reached
                PROVE  liveStarts'[c] \subseteq f[c]
    BY <1>1, <1>12, Zenon DEF NeverTooMuch, Solution, Flow
  <2>1. \A d \in Reached : liveStarts[d] \subseteq f[d]
    BY <1>2 DEF NeverTooMuch
  <2>2. CASE c = b
    <3>1. successors[b] \subseteq Reached
      BY <1>2, <1>3, ReachedTyped
    <3>2. Leaving(b) \subseteq UNION {f[d] : d \in successors[b]}
      BY <2>1, <3>1 DEF Leaving
    <3>3. Flow(b, UNION {f[d] : d \in successors[b]}) \subseteq f[b]
      BY <1>3 DEF Solution
    <3>4. live \subseteq f[b]
      BY <3>2, <3>3 DEF Flow, live
    <3>. QED
      BY <2>2, <3>4, <1>5
  <2>3. CASE c # b
    BY <2>3, <2>1, <1>2, <1>5, ReachedTyped
  <2>. QED
    BY <2>2, <2>3
<1>. QED
  BY <1>8, <1>11, <1>13 DEF LiveInv
-----------------------------------------------------------------------------
(* Everything is waiting at first, and the empty sets exceed nothing.      *)
AllWaiting == summaries \in [Blocks -> Summaries] /\ Start

LEMMA AllWaitingInv == WellOrdered(successors, order) /\ AllWaiting => LiveInv
<1>. SUFFICES ASSUME WellOrdered(successors, order), AllWaiting PROVE LiveInv
  OBVIOUS
<1>2. LiveTypeOK
  BY DEF AllWaiting, Start, LiveTypeOK
<1>3. LiveSettled
  BY DEF AllWaiting, Start, LiveSettled
<1>4. NeverTooMuch
  <2>1. \A c \in Reached : liveStarts[c] = {}
    BY <1>2, ReachedTyped DEF AllWaiting, Start
  <2>. QED
    BY <2>1 DEF NeverTooMuch
<1>. QED
  BY <1>2, <1>3, <1>4 DEF LiveInv

LEMMA BackwardInitEstablishes == BackwardInit => LiveInv
<1>1. BackwardInit => WellOrdered(successors, order)
  BY GraphAssumption DEF BackwardInit
<1>2. BackwardInit => AllWaiting
  BY DEF BackwardInit, AllWaiting
<1>. QED
  BY <1>1, <1>2, AllWaitingInv

LEMMA BackwardStepPreserves == LiveInv /\ [BackwardNext]_backwardVars => LiveInv'
<1>. SUFFICES ASSUME LiveInv, [BackwardNext]_backwardVars PROVE LiveInv'
  OBVIOUS
<1>1. CASE BackwardNext
  BY <1>1, VisitBackPreserves DEF BackwardNext
<1>2. CASE UNCHANGED backwardVars
  <2>1. LiveTypeOK'
    BY <1>2 DEF LiveInv, backwardVars, LiveTypeOK
  <2>2. LiveSettled'
    BY <1>2 DEF LiveInv, backwardVars, LiveSettled, LiveUpToDate, Leaving, Flow
  <2>3. NeverTooMuch'
    BY <1>2 DEF LiveInv, backwardVars, NeverTooMuch, Solution, Flow, Reached
  <2>. QED
    BY <2>1, <2>2, <2>3 DEF LiveInv
<1>. QED
  BY <1>1, <1>2

LEMMA LiveSettledSolves == LiveInv => LiveSolved
  BY DEF LiveInv, LiveSettled, LiveUpToDate, LiveSolved, Reached

THEOREM BackwardInvariant == BackwardSpec => []LiveInv
  BY BackwardInitEstablishes, BackwardStepPreserves, PTL DEF BackwardSpec

(* The engine keeps sets of locals, and its positions are positions of the *)
(* order.                                                                  *)
THEOREM LiveTypeCorrect == BackwardSpec => []LiveTypeOK
<1>1. LiveInv => LiveTypeOK
  BY DEF LiveInv
<1>. QED
  BY <1>1, BackwardInvariant, PTL

(* A backward analysis that ends has solved its equations.                 *)
THEOREM LiveFixedPoint == BackwardSpec => []LiveSolved
  BY BackwardInvariant, LiveSettledSolves, PTL

(* What it finds is below every solution: with LiveFixedPoint, the least.      *)
THEOREM Least == BackwardSpec => []NeverTooMuch
<1>1. LiveInv => NeverTooMuch
  BY DEF LiveInv
<1>. QED
  BY <1>1, BackwardInvariant, PTL
-----------------------------------------------------------------------------
(* Down from n: a set with n that has, with a position, the one before it. *)
LEMMA Downward ==
  ASSUME NEW n \in Nat, NEW S, n \in S, \A k \in 1 .. n - 1 : k + 1 \in S => k \in S
  PROVE  \A k \in 1 .. n : k \in S
<1>. SUFFICES ASSUME NEW x \in 1 .. n, x \notin S PROVE FALSE
  OBVIOUS
<1>. DEFINE D == {d \in Nat : d < n /\ n - d \notin S}
<1>1. D \in SUBSET Nat /\ n - x \in D
  <2>1. n - x \in Nat /\ n - x < n /\ n - (n - x) = x
    OBVIOUS
  <2>. QED  BY <2>1
<1>2. PICK d \in D : \A e \in D : <<e, d>> \notin OpToRel(<, Nat)
  BY <1>1, WFMin, NatLessThanWellFounded, Zenon
<1>3. d \in Nat /\ d < n /\ n - d \notin S
  OBVIOUS
<1>4. d # 0
  BY <1>3
<1>5. n - d \in 1 .. n - 1 /\ n - d + 1 = n - (d - 1) /\ d - 1 \in Nat /\ d - 1 < n /\ d - 1 < d
  BY <1>3, <1>4
<1>6. n - (d - 1) \notin S
  BY <1>3, <1>5
<1>7. d - 1 \in D
  BY <1>5, <1>6
<1>8. <<d - 1, d>> \in OpToRel(<, Nat)
  BY <1>3, <1>5, Zenon DEF OpToRel
<1>. QED
  BY <1>2, <1>7, <1>8
-----------------------------------------------------------------------------
(* The summaries of the rests of a block.                                  *)
NoSummary == [uses |-> {}, kills |-> {}]
IsFrom(purpose, steps, f) ==
  f = [k \in 1 .. Len(steps) + 1 |->
         IF k > Len(steps) THEN NoSummary ELSE StepBefore(purpose, steps[k], f[k + 1])]
From(purpose, steps) == CHOOSE f : IsFrom(purpose, steps, f)

LEMMA NothingKept == NoSummary.uses = {} /\ NoSummary.kills = {}
  BY DEF NoSummary

LEMMA SummaryIsFrom == \A purpose, steps : SummaryOf(purpose, steps) = From(purpose, steps)[1]
  BY DEF SummaryOf, From, IsFrom, NoSummary

LEMMA FromExists ==
  ASSUME NEW purpose, NEW steps, Len(steps) \in Nat
  PROVE  IsFrom(purpose, steps, From(purpose, steps))
<1>. DEFINE n == Len(steps)
            Is(i, f) == f = [k \in i .. n + 1 |->
                               IF k > n THEN NoSummary ELSE StepBefore(purpose, steps[k], f[k + 1])]
            S == {i \in 1 .. n + 1 : \E f : Is(i, f)}
<1>. HIDE DEF n
<1>0. n \in Nat
  BY DEF n
<1>1. n + 1 \in S
  <2>1. Is(n + 1, [k \in n + 1 .. n + 1 |-> NoSummary])
    BY <1>0
  <2>. HIDE DEF Is
  <2>. QED  BY <1>0, <2>1
<1>2. ASSUME NEW i \in 1 .. n + 1 - 1, i + 1 \in S PROVE i \in S
  <2>1. PICK f : Is(i + 1, f)
    BY <1>2
  <2>. DEFINE g == [k \in i .. n + 1 |-> IF k = i THEN StepBefore(purpose, steps[i], f[i + 1]) ELSE f[k]]
  <2>2. \A k \in i .. n + 1 : g[k] = IF k > n THEN NoSummary ELSE StepBefore(purpose, steps[k], g[k + 1])
    <3>. SUFFICES ASSUME NEW k \in i .. n + 1
                  PROVE g[k] = IF k > n THEN NoSummary ELSE StepBefore(purpose, steps[k], g[k + 1])
      OBVIOUS
    <3>1. k <= n => g[k + 1] = f[k + 1]
      BY <1>0
    <3>2. CASE k = i
      BY <1>0, <3>1, <3>2
    <3>3. CASE k # i
      <4>1. k \in i + 1 .. n + 1
        BY <1>0, <3>3
      <4>2. f[k] = IF k > n THEN NoSummary ELSE StepBefore(purpose, steps[k], f[k + 1])
        BY <4>1, <2>1
      <4>. QED  BY <1>0, <3>1, <3>3, <4>2
    <3>. QED  BY <3>2, <3>3
  <2>3. g = [k \in i .. n + 1 |-> g[k]]
    OBVIOUS
  <2>. HIDE DEF g
  <2>4. g = [k \in i .. n + 1 |-> IF k > n THEN NoSummary ELSE StepBefore(purpose, steps[k], g[k + 1])]
    BY <2>2, <2>3
  <2>. QED  BY <2>4, <1>0
<1>3. 1 \in S
  <2>. HIDE DEF S
  <2>. QED  BY <1>0, <1>1, <1>2, Downward
<1>4. \E f : Is(1, f)
  BY <1>3
<1>5. \E f : IsFrom(purpose, steps, f)
  BY <1>4 DEF IsFrom, n
<1>. QED
  BY <1>5, Zenon DEF From

LEMMA FromSteps ==
  ASSUME NEW purpose, NEW steps, Len(steps) \in Nat
  PROVE  /\ From(purpose, steps)[Len(steps) + 1] = NoSummary
         /\ \A k \in 1 .. Len(steps) :
              From(purpose, steps)[k] = StepBefore(purpose, steps[k], From(purpose, steps)[k + 1])
<1>. DEFINE f == From(purpose, steps)
            n == Len(steps)
<1>1. f = [k \in 1 .. n + 1 |-> IF k > n THEN NoSummary ELSE StepBefore(purpose, steps[k], f[k + 1])]
  BY FromExists DEF IsFrom
<1>. HIDE DEF f, n
<1>0. n \in Nat
  BY DEF n
<1>2. \A k \in 1 .. n + 1 : f[k] = IF k > n THEN NoSummary ELSE StepBefore(purpose, steps[k], f[k + 1])
  BY <1>1
<1>3. f[n + 1] = NoSummary /\ \A k \in 1 .. n : f[k] = StepBefore(purpose, steps[k], f[k + 1])
  BY <1>0, <1>2
<1>. QED  BY <1>3 DEF f, n
-----------------------------------------------------------------------------
(* What the bodies of the compiler are: each block has a terminator, which *)
(* replaces nothing, and the summaries are those of the code.              *)
CodeOK ==
  /\ \A b \in Blocks : /\ code[b] \in Seq(Steps) /\ code[b] # <<>>
                       /\ code[b][Len(code[b])].replaces = {}
  /\ summaries = [b \in Blocks |-> SummaryOf(analysis, code[b])]

LEMMA StepsTyped ==
  ASSUME NEW steps \in Seq(Steps)
  PROVE  /\ Len(steps) \in Nat /\ DOMAIN steps = 1 .. Len(steps)
         /\ steps # <<>> => Len(steps) >= 1
         /\ \A k \in 1 .. Len(steps) : /\ steps[k].reads \in SUBSET Locals
                                       /\ steps[k].changes \in SUBSET Locals
                                       /\ steps[k].replaces \in SUBSET Locals
<1>1. Len(steps) \in Nat /\ DOMAIN steps = 1 .. Len(steps) /\ (steps # <<>> => Len(steps) >= 1)
  BY LenProperties, EmptySeq
<1>2. \A k \in 1 .. Len(steps) : steps[k] \in Steps
  BY ElementOfSeq
<1>. QED  BY <1>1, <1>2 DEF Steps

LEMMA StepBeforeTyped ==
  ASSUME NEW purpose, NEW step \in Steps, NEW summary \in Summaries
  PROVE  StepBefore(purpose, step, summary) \in Summaries
  BY DEF Steps, Summaries, StepBefore, Uses

LEMMA SummaryTyped ==
  ASSUME NEW purpose, NEW steps \in Seq(Steps)
  PROVE  SummaryOf(purpose, steps) \in Summaries
<1>. DEFINE f == From(purpose, steps)
            n == Len(steps)
            S == {k \in 1 .. n + 1 : f[k] \in Summaries}
<1>1. n \in Nat
  BY StepsTyped
<1>2. /\ f[n + 1] = NoSummary
      /\ \A k \in 1 .. n : f[k] = StepBefore(purpose, steps[k], f[k + 1])
  BY FromSteps, <1>1
<1>3. NoSummary \in Summaries
  BY DEF NoSummary, Summaries
<1>4. \A k \in 1 .. n : steps[k] \in Steps
  BY ElementOfSeq
<1>. HIDE DEF f, n
<1>5. n + 1 \in S
  BY <1>1, <1>2, <1>3
<1>6. ASSUME NEW k \in 1 .. n, k + 1 \in S PROVE k \in S
  BY <1>1, <1>2, <1>4, <1>6, StepBeforeTyped
<1>7. 1 \in S
  <2>. HIDE DEF S
  <2>1. \A k \in 1 .. n + 1 - 1 : k + 1 \in S => k \in S
    BY <1>1, <1>6
  <2>. QED  BY <1>1, <1>5, <2>1, Downward
<1>. QED
  BY <1>7, SummaryIsFrom DEF f

(* The locals live before a step, by the end of its block.                 *)
LiveFrom(b, k) ==
  (liveEnds[b] \ From(analysis, code[b])[k].kills) \cup From(analysis, code[b])[k].uses

LEMMA LiveFromSteps ==
  ASSUME CodeOK, NEW b \in Blocks
  PROVE  /\ Len(code[b]) \in Nat /\ Len(code[b]) >= 1 /\ DOMAIN code[b] = 1 .. Len(code[b])
         /\ LiveFrom(b, Len(code[b]) + 1) = liveEnds[b]
         /\ \A k \in 1 .. Len(code[b]) :
              LiveFrom(b, k) = (LiveFrom(b, k + 1) \ code[b][k].replaces) \cup Uses(analysis, code[b][k])
<1>. DEFINE f == From(analysis, code[b])
            n == Len(code[b])
<1>1. n \in Nat /\ n >= 1 /\ DOMAIN code[b] = 1 .. n
  BY StepsTyped DEF CodeOK
<1>2. /\ f[n + 1] = NoSummary
      /\ \A k \in 1 .. n : f[k] = StepBefore(analysis, code[b][k], f[k + 1])
  BY FromSteps, <1>1
<1>3. \A k : LiveFrom(b, k) = (liveEnds[b] \ f[k].kills) \cup f[k].uses
  BY DEF LiveFrom
<1>. HIDE DEF f, n
<1>4. LiveFrom(b, n + 1) = liveEnds[b]
  BY <1>2, <1>3, NothingKept
<1>5. ASSUME NEW k \in 1 .. n
      PROVE  LiveFrom(b, k) = (LiveFrom(b, k + 1) \ code[b][k].replaces) \cup Uses(analysis, code[b][k])
  <2>1. f[k] = StepBefore(analysis, code[b][k], f[k + 1])
    BY <1>2
  <2>2. /\ f[k].kills = f[k + 1].kills \cup code[b][k].replaces
        /\ f[k].uses = (f[k + 1].uses \ code[b][k].replaces) \cup Uses(analysis, code[b][k])
    BY <2>1 DEF StepBefore
  <2>. QED  BY <2>2, <1>3
<1>. QED  BY <1>1, <1>4, <1>5 DEF n

LEMMA FlowIsLiveFrom ==
  ASSUME CodeOK, NEW b \in Blocks, NEW live
  PROVE  Flow(b, live) = (live \ From(analysis, code[b])[1].kills) \cup From(analysis, code[b])[1].uses
  BY SummaryIsFrom DEF CodeOK, Flow
-----------------------------------------------------------------------------
(* UsedAhead is closed, and within every closed set.                       *)
LEMMA UsedIsClosed ==
  ASSUME NEW l
  PROVE  UsedAhead(l) \in SUBSET Points /\ FollowedBack(l, UsedAhead(l))
<1>1. UsedAhead(l) \in SUBSET Points
  BY DEF UsedAhead
<1>2. ASSUME NEW p \in Points,
             \/ l \in Uses(analysis, StepAt(p))
             \/ l \notin StepAt(p).replaces /\ Following(p) \cap UsedAhead(l) # {}
      PROVE  p \in UsedAhead(l)
  <2>. SUFFICES ASSUME NEW R \in SUBSET Points, FollowedBack(l, R) PROVE p \in R
    BY Zenon DEF UsedAhead
  <2>1. UsedAhead(l) \subseteq R
    BY Zenon DEF UsedAhead
  <2>. QED  BY <1>2, <2>1 DEF FollowedBack
<1>. QED  BY <1>1, <1>2, Zenon DEF FollowedBack

LEMMA UsedIsLeast ==
  ASSUME NEW l, NEW R \in SUBSET Points, FollowedBack(l, R)
  PROVE  UsedAhead(l) \subseteq R
  BY Zenon DEF UsedAhead

(* The points of a block and where they lead.                              *)
LEMMA PointsOf ==
  ASSUME CodeOK, NEW b \in Blocks, NEW k \in 1 .. Len(code[b])
  PROVE  /\ <<b, k>> \in Points /\ StepAt(<<b, k>>) = code[b][k]
         /\ k < Len(code[b]) => Following(<<b, k>>) = {<<b, k + 1>>}
         /\ k = Len(code[b]) => Following(<<b, k>>) = {<<c, 1>> : c \in successors[b]}
<1>1. k \in DOMAIN code[b] /\ Len(code[b]) \in Nat
  BY LiveFromSteps
<1>2. <<b, k>> \in Points
  BY <1>1 DEF Points
<1>. QED  BY <1>1, <1>2 DEF StepAt, Following

LEMMA PointsAre ==
  ASSUME CodeOK, NEW p \in Points
  PROVE  \E b \in Blocks : \E k \in 1 .. Len(code[b]) : p = <<b, k>>
<1>1. PICK b \in Blocks : p \in {<<b, k>> : k \in DOMAIN code[b]}
  BY DEF Points
<1>2. DOMAIN code[b] = 1 .. Len(code[b])
  BY LiveFromSteps
<1>. QED  BY <1>1, <1>2
-----------------------------------------------------------------------------
Ended == LiveInv /\ CodeOK /\ waiting = {}

LEMMA EndedSolves ==
  ASSUME Ended, NEW b \in Reached
  PROVE  /\ b \in Blocks /\ successors[b] \subseteq Reached
         /\ liveEnds[b] = Leaving(b) /\ liveStarts[b] = LiveFrom(b, 1)
<1>1. LiveSolved /\ LiveTypeOK
  BY LiveSettledSolves DEF Ended, LiveInv
<1>2. b \in Blocks /\ successors[b] \subseteq Reached
  BY <1>1, ReachedTyped
<1>3. liveEnds[b] = Leaving(b) /\ liveStarts[b] = Flow(b, liveEnds[b])
  BY <1>1 DEF LiveSolved, Ended
<1>4. Flow(b, liveEnds[b]) = LiveFrom(b, 1)
  BY <1>2, FlowIsLiveFrom DEF LiveFrom, Ended
<1>. QED  BY <1>2, <1>3, <1>4

(* What some path uses is live: the points where l is live are closed.     *)
LEMMA UsedIsLive ==
  ASSUME Ended, NEW l
  PROVE  \A b \in Reached : \A k \in 1 .. Len(code[b]) : <<b, k>> \in UsedAhead(l) => l \in LiveFrom(b, k)
<1>. DEFINE R == {p \in Points : p[1] \in Reached => l \in LiveFrom(p[1], p[2])}
<1>1. CodeOK
  BY DEF Ended
<1>2. ASSUME NEW b \in Reached, NEW k \in 1 .. Len(code[b]),
             \/ l \in Uses(analysis, code[b][k])
             \/ l \notin code[b][k].replaces /\ Following(<<b, k>>) \cap R # {}
      PROVE  l \in LiveFrom(b, k)
  <2>1. b \in Blocks /\ successors[b] \subseteq Reached /\ liveEnds[b] = Leaving(b)
    BY EndedSolves
  <2>2. /\ Len(code[b]) \in Nat /\ LiveFrom(b, Len(code[b]) + 1) = liveEnds[b]
        /\ LiveFrom(b, k) = (LiveFrom(b, k + 1) \ code[b][k].replaces) \cup Uses(analysis, code[b][k])
    BY <1>1, <2>1, LiveFromSteps
  <2>3. CASE l \in Uses(analysis, code[b][k])
    BY <2>2, <2>3
  <2>4. CASE l \notin code[b][k].replaces /\ Following(<<b, k>>) \cap R # {} /\ k < Len(code[b])
    <3>1. <<b, k + 1>> \in R
      BY <1>1, <2>1, <2>4, PointsOf
    <3>2. l \in LiveFrom(b, k + 1)
      BY <3>1
    <3>. QED  BY <2>2, <2>4, <3>2
  <2>5. CASE l \notin code[b][k].replaces /\ Following(<<b, k>>) \cap R # {} /\ k = Len(code[b])
    <3>1. PICK c \in successors[b] : <<c, 1>> \in R
      BY <1>1, <2>1, <2>5, PointsOf
    <3>2. c \in Reached /\ l \in LiveFrom(c, 1)
      BY <2>1, <3>1
    <3>3. l \in liveStarts[c]
      BY <3>2, EndedSolves
    <3>4. l \in Leaving(b)
      BY <3>3 DEF Leaving
    <3>. QED  BY <2>1, <2>2, <2>5, <3>4
  <2>. QED  BY <1>2, <2>2, <2>3, <2>4, <2>5
<1>3. FollowedBack(l, R)
  <2>. SUFFICES ASSUME NEW p \in Points,
                       \/ l \in Uses(analysis, StepAt(p))
                       \/ l \notin StepAt(p).replaces /\ Following(p) \cap R # {},
                       p[1] \in Reached
                PROVE  l \in LiveFrom(p[1], p[2])
    BY DEF FollowedBack
  <2>1. PICK b \in Blocks : \E k \in 1 .. Len(code[b]) : p = <<b, k>>
    BY <1>1, PointsAre
  <2>2. PICK k \in 1 .. Len(code[b]) : p = <<b, k>>
    BY <2>1
  <2>3. StepAt(p) = code[b][k] /\ p[1] = b /\ p[2] = k
    BY <2>2 DEF StepAt
  <2>. HIDE DEF R
  <2>. QED  BY <1>2, <2>2, <2>3
<1>4. R \in SUBSET Points
  OBVIOUS
<1>5. UsedAhead(l) \subseteq R
  <2>. HIDE DEF R
  <2>. QED  BY <1>3, <1>4, UsedIsLeast
<1>. QED  BY <1>5

(* What is live some path uses: those sets are a solution.                 *)
LEMMA LiveIsAhead ==
  ASSUME Ended, NEW b \in Reached, NEW l \in Locals, l \in liveStarts[b]
  PROVE  <<b, 1>> \in UsedAhead(l)
<1>. DEFINE f == [c \in Blocks |-> {m \in Locals : <<c, 1>> \in UsedAhead(m)}]
<1>1. CodeOK /\ LiveTypeOK /\ NeverTooMuch
  BY DEF Ended, LiveInv
<1>2. f \in [Blocks -> SUBSET Locals]
  OBVIOUS
<1>3. ASSUME NEW c \in Reached, NEW m \in Flow(c, UNION {f[d] : d \in successors[c]})
      PROVE  m \in f[c]
  <2>. DEFINE n == Len(code[c])
              out == UNION {f[d] : d \in successors[c]}
              g == From(analysis, code[c])
              S == {k \in 1 .. n + 1 : k <= n /\ m \in (out \ g[k].kills) \cup g[k].uses
                                          => <<c, k>> \in UsedAhead(m)}
  <2>1. c \in Blocks /\ successors[c] \subseteq Blocks /\ n \in Nat /\ n >= 1
    BY <1>1, ReachedTyped, LiveFromSteps, SuccessorsTyped
  <2>2. /\ g[n + 1] = NoSummary
        /\ \A k \in 1 .. n : g[k] = StepBefore(analysis, code[c][k], g[k + 1])
    BY <2>1, FromSteps
  <2>3. \A k \in 1 .. n : /\ <<c, k>> \in Points /\ StepAt(<<c, k>>) = code[c][k]
                          /\ k < n => Following(<<c, k>>) = {<<c, k + 1>>}
                          /\ k = n => Following(<<c, k>>) = {<<d, 1>> : d \in successors[c]}
    BY <1>1, <2>1, PointsOf
  <2>4. FollowedBack(m, UsedAhead(m))
    BY UsedIsClosed
  <2>5. m \in out => \E d \in successors[c] : <<d, 1>> \in UsedAhead(m)
    BY <2>1
  <2>6. m \in (out \ g[1].kills) \cup g[1].uses
    BY <1>1, <1>3, <2>1, FlowIsLiveFrom
  <2>. HIDE DEF n, out, g
  <2>7. n + 1 \in S
    BY <2>1
  <2>8. ASSUME NEW k \in 1 .. n, k + 1 \in S, m \in (out \ g[k].kills) \cup g[k].uses
        PROVE  <<c, k>> \in UsedAhead(m)
    <3>1. /\ g[k].kills = g[k + 1].kills \cup code[c][k].replaces
          /\ g[k].uses = (g[k + 1].uses \ code[c][k].replaces) \cup Uses(analysis, code[c][k])
      <4>1. g[k] = StepBefore(analysis, code[c][k], g[k + 1])
        BY <2>2
      <4>. QED  BY <4>1 DEF StepBefore
    <3>2. CASE m \in Uses(analysis, code[c][k])
      BY <2>3, <2>4, <3>2 DEF FollowedBack
    <3>3. CASE m \notin Uses(analysis, code[c][k])
      <4>1. m \notin code[c][k].replaces /\ m \in (out \ g[k + 1].kills) \cup g[k + 1].uses
        BY <2>8, <3>1, <3>3
      <4>2. CASE k < n
        <5>1. <<c, k + 1>> \in UsedAhead(m)
          BY <2>1, <2>8, <4>1, <4>2
        <5>2. Following(<<c, k>>) \cap UsedAhead(m) # {}
          BY <2>3, <4>2, <5>1
        <5>. QED  BY <2>3, <2>4, <4>1, <5>2 DEF FollowedBack
      <4>3. CASE k = n
        <5>1. m \in out
          BY <2>2, <4>1, <4>3, NothingKept
        <5>2. Following(<<c, k>>) \cap UsedAhead(m) # {}
          BY <2>3, <2>5, <4>3, <5>1
        <5>. QED  BY <2>3, <2>4, <4>1, <5>2 DEF FollowedBack
      <4>. QED  BY <2>1, <4>2, <4>3
    <3>. QED  BY <3>2, <3>3
  <2>9. 1 \in S
    <3>1. \A k \in 1 .. n + 1 - 1 : k + 1 \in S => k \in S
      BY <2>1, <2>8
    <3>. HIDE DEF S
    <3>. QED  BY <2>1, <2>7, <3>1, Downward
  <2>10. <<c, 1>> \in UsedAhead(m)
    BY <2>1, <2>6, <2>9
  <2>11. m \in Locals
    <3>1. Len(code[c]) \in Nat /\ code[c] \in Seq(Steps)
      BY <1>1, <2>1 DEF CodeOK, n
    <3>2. SummaryOf(analysis, code[c]) \in Summaries
      BY <3>1, SummaryTyped
    <3>3. g[1].uses \in SUBSET Locals
      BY <3>2, SummaryIsFrom DEF g, Summaries
    <3>4. out \in SUBSET Locals
      BY <2>1 DEF out
    <3>. QED  BY <2>6, <3>3, <3>4
  <2>. QED  BY <2>1, <2>10, <2>11
<1>4. Solution(f)
  <2>. HIDE DEF f
  <2>. QED  BY <1>3 DEF Solution
<1>5. liveStarts[b] \subseteq f[b] /\ b \in Blocks
  <2>. HIDE DEF f
  <2>. QED  BY <1>1, <1>2, <1>4, ReachedTyped DEF NeverTooMuch
<1>. QED  BY <1>5

LEMMA LiveIsUsedAtTheEnd == LiveInv /\ CodeOK => LiveIsUsed
<1>. SUFFICES ASSUME Ended, NEW l \in Locals, NEW b \in Reached
              PROVE  /\ l \in liveStarts[b] <=> <<b, 1>> \in UsedAhead(l)
                     /\ l \in liveEnds[b] <=> \E c \in successors[b] : <<c, 1>> \in UsedAhead(l)
  BY Zenon DEF LiveIsUsed, Found, Ended
<1>1. ASSUME NEW c \in Reached PROVE l \in liveStarts[c] <=> <<c, 1>> \in UsedAhead(l)
  <2>1. liveStarts[c] = LiveFrom(c, 1) /\ 1 \in 1 .. Len(code[c])
    BY EndedSolves, LiveFromSteps DEF Ended
  <2>. QED  BY <2>1, UsedIsLive, LiveIsAhead
<1>2. successors[b] \subseteq Reached /\ liveEnds[b] = Leaving(b)
  BY EndedSolves
<1>3. l \in liveEnds[b] <=> \E c \in successors[b] : <<c, 1>> \in UsedAhead(l)
  BY <1>1, <1>2 DEF Leaving
<1>. QED  BY <1>1, <1>3
-----------------------------------------------------------------------------
(* Back through steps that do not replace l.                               *)
LEMMA UsedBefore ==
  ASSUME CodeOK, NEW b \in Blocks, NEW l, NEW j \in 1 .. Len(code[b]), NEW i \in 1 .. j,
         <<b, j>> \in UsedAhead(l), \A k \in i .. j - 1 : l \notin code[b][k].replaces
  PROVE  <<b, i>> \in UsedAhead(l)
<1>. DEFINE S == {k \in 1 .. j : i <= k => <<b, k>> \in UsedAhead(l)}
<1>1. Len(code[b]) \in Nat
  BY LiveFromSteps
<1>2. ASSUME NEW k \in 1 .. j - 1, k + 1 \in S, i <= k PROVE <<b, k>> \in UsedAhead(l)
  <2>1. /\ k \in 1 .. Len(code[b]) /\ k < Len(code[b]) /\ k \in i .. j - 1
        /\ <<b, k + 1>> \in UsedAhead(l)
    BY <1>1, <1>2
  <2>2. /\ <<b, k>> \in Points /\ StepAt(<<b, k>>) = code[b][k]
        /\ Following(<<b, k>>) = {<<b, k + 1>>}
    BY <2>1, PointsOf
  <2>. QED  BY <2>1, <2>2, UsedIsClosed DEF FollowedBack
<1>3. j \in S /\ j \in Nat /\ \A k \in 1 .. j - 1 : k + 1 \in S => k \in S
  BY <1>1, <1>2
<1>4. i \in S
  <2>. HIDE DEF S
  <2>. QED  BY <1>3, Downward
<1>. QED  BY <1>4

(* What the search for unread changes looks at, from the step k on.        *)
ReadFrom(b, k, l) ==
  \/ \E j \in k .. Len(code[b]) :
       l \in code[b][j].reads /\ \A i \in k .. j - 1 : l \notin code[b][i].replaces
  \/ l \in liveEnds[b] /\ \A i \in k .. Len(code[b]) - 1 : l \notin code[b][i].replaces

LEMMA UsedIsRead ==
  ASSUME Ended, analysis = "unread", NEW l
  PROVE  \A b \in Reached : \A k \in 1 .. Len(code[b]) : <<b, k>> \in UsedAhead(l) => ReadFrom(b, k, l)
<1>. DEFINE R == {p \in UsedAhead(l) : p[1] \in Reached => ReadFrom(p[1], p[2], l)}
<1>1. CodeOK
  BY DEF Ended
<1>2. ASSUME NEW b \in Reached, NEW k \in 1 .. Len(code[b]),
             \/ l \in Uses(analysis, code[b][k])
             \/ l \notin code[b][k].replaces /\ Following(<<b, k>>) \cap R # {}
      PROVE  ReadFrom(b, k, l)
  <2>1. /\ b \in Blocks /\ successors[b] \subseteq Reached /\ liveEnds[b] = Leaving(b)
        /\ Len(code[b]) \in Nat
    BY <1>1, EndedSolves, LiveFromSteps
  <2>2. CASE l \in Uses(analysis, code[b][k])
    <3>1. l \in code[b][k].reads
      BY <2>2 DEF Uses
    <3>2. k \in k .. Len(code[b]) /\ \A i \in k .. k - 1 : l \notin code[b][i].replaces
      BY <2>1
    <3>. QED  BY <3>1, <3>2 DEF ReadFrom
  <2>3. CASE l \notin code[b][k].replaces /\ Following(<<b, k>>) \cap R # {} /\ k < Len(code[b])
    <3>1. <<b, k + 1>> \in R
      BY <1>1, <2>1, <2>3, PointsOf
    <3>2. ReadFrom(b, k + 1, l)
      BY <3>1
    <3>3. \A j : (\A i \in k + 1 .. j : l \notin code[b][i].replaces)
                    => \A i \in k .. j : l \notin code[b][i].replaces
      BY <2>1, <2>3
    <3>4. CASE \E j \in k + 1 .. Len(code[b]) :
                 l \in code[b][j].reads /\ \A i \in k + 1 .. j - 1 : l \notin code[b][i].replaces
      <4>1. PICK j \in k + 1 .. Len(code[b]) :
                 l \in code[b][j].reads /\ \A i \in k + 1 .. j - 1 : l \notin code[b][i].replaces
        BY <3>4
      <4>2. j \in k .. Len(code[b]) /\ \A i \in k .. j - 1 : l \notin code[b][i].replaces
        BY <2>1, <2>3, <4>1
      <4>. QED  BY <4>1, <4>2 DEF ReadFrom
    <3>5. CASE l \in liveEnds[b] /\ \A i \in k + 1 .. Len(code[b]) - 1 : l \notin code[b][i].replaces
      <4>1. \A i \in k .. Len(code[b]) - 1 : l \notin code[b][i].replaces
        BY <2>1, <2>3, <3>5
      <4>. QED  BY <3>5, <4>1 DEF ReadFrom
    <3>. QED  BY <3>2, <3>4, <3>5 DEF ReadFrom
  <2>4. CASE l \notin code[b][k].replaces /\ Following(<<b, k>>) \cap R # {} /\ k = Len(code[b])
    <3>1. PICK c \in successors[b] : <<c, 1>> \in R
      BY <1>1, <2>1, <2>4, PointsOf
    <3>2. c \in Reached /\ 1 \in 1 .. Len(code[c]) /\ liveStarts[c] = LiveFrom(c, 1)
      BY <1>1, <2>1, EndedSolves, LiveFromSteps
    <3>3. l \in liveStarts[c]
      BY <3>1, <3>2, UsedIsLive
    <3>4. l \in liveEnds[b]
      BY <2>1, <3>3 DEF Leaving
    <3>5. \A i \in k .. Len(code[b]) - 1 : l \notin code[b][i].replaces
      BY <2>1, <2>4
    <3>. QED  BY <3>4, <3>5 DEF ReadFrom
  <2>. QED  BY <1>2, <2>1, <2>2, <2>3, <2>4
<1>3. R \subseteq UsedAhead(l)
  OBVIOUS
<1>4. FollowedBack(l, R)
  <2>. SUFFICES ASSUME NEW p \in Points,
                       \/ l \in Uses(analysis, StepAt(p))
                       \/ l \notin StepAt(p).replaces /\ Following(p) \cap R # {}
                PROVE  p \in R
    BY Zenon DEF FollowedBack
  <2>1. p \in UsedAhead(l)
    <3>. HIDE DEF R
    <3>. QED  BY <1>3, UsedIsClosed DEF FollowedBack
  <2>2. PICK b \in Blocks : \E k \in 1 .. Len(code[b]) : p = <<b, k>>
    BY <1>1, PointsAre
  <2>3. PICK k \in 1 .. Len(code[b]) : p = <<b, k>>
    BY <2>2
  <2>4. StepAt(p) = code[b][k] /\ p[1] = b /\ p[2] = k
    BY <2>3 DEF StepAt
  <2>5. b \in Reached => ReadFrom(b, k, l)
    <3>. HIDE DEF R
    <3>. QED  BY <1>2, <2>3, <2>4
  <2>. QED  BY <2>1, <2>4, <2>5
<1>5. UsedAhead(l) \subseteq R
  <2>1. R \in SUBSET Points
    BY UsedIsClosed
  <2>. HIDE DEF R
  <2>. QED  BY <1>4, <2>1, UsedIsLeast
<1>. QED  BY <1>5

LEMMA ReadIsUsed ==
  ASSUME Ended, analysis = "unread", NEW l \in Locals, NEW b \in Reached, NEW k \in 1 .. Len(code[b]),
         ReadFrom(b, k, l)
  PROVE  <<b, k>> \in UsedAhead(l)
<1>. DEFINE n == Len(code[b])
<1>1. /\ CodeOK /\ b \in Blocks /\ successors[b] \subseteq Reached /\ liveEnds[b] = Leaving(b)
      /\ n \in Nat /\ n >= 1 /\ code[b][n].replaces = {}
  BY EndedSolves, LiveFromSteps DEF Ended, CodeOK
<1>2. CASE \E j \in k .. n : l \in code[b][j].reads /\ \A i \in k .. j - 1 : l \notin code[b][i].replaces
  <2>1. PICK j \in k .. n : l \in code[b][j].reads /\ \A i \in k .. j - 1 : l \notin code[b][i].replaces
    BY <1>2
  <2>2. j \in 1 .. n /\ k \in 1 .. j
    BY <1>1
  <2>3. <<b, j>> \in Points /\ StepAt(<<b, j>>) = code[b][j]
    BY <1>1, <2>2, PointsOf
  <2>4. <<b, j>> \in UsedAhead(l)
    BY <2>1, <2>3, UsedIsClosed DEF FollowedBack, Uses
  <2>. QED  BY <1>1, <2>1, <2>2, <2>4, UsedBefore
<1>3. CASE l \in liveEnds[b] /\ \A i \in k .. n - 1 : l \notin code[b][i].replaces
  <2>1. PICK c \in successors[b] : l \in liveStarts[c]
    BY <1>1, <1>3 DEF Leaving
  <2>2. <<c, 1>> \in UsedAhead(l)
    BY <1>1, <2>1, LiveIsAhead
  <2>3. n \in 1 .. n /\ k \in 1 .. n
    BY <1>1
  <2>4. /\ <<b, n>> \in Points /\ StepAt(<<b, n>>) = code[b][n]
        /\ Following(<<b, n>>) = {<<d, 1>> : d \in successors[b]}
    BY <1>1, <2>3, PointsOf
  <2>5. Following(<<b, n>>) \cap UsedAhead(l) # {}
    BY <2>1, <2>2, <2>4
  <2>6. <<b, n>> \in UsedAhead(l)
    BY <1>1, <2>4, <2>5, UsedIsClosed DEF FollowedBack
  <2>. QED  BY <1>1, <1>3, <2>3, <2>6, UsedBefore
<1>. QED  BY <1>2, <1>3 DEF ReadFrom

LEMMA UnreadAtTheEnd == LiveInv /\ CodeOK => UnreadIsNeverRead
<1>. SUFFICES ASSUME Ended, analysis = "unread", NEW l \in Locals, NEW b \in Reached, NEW i \in Statements(b)
              PROVE  ReadLater(b, i, l) <=> <<b, i + 1>> \in UsedAhead(l)
  BY Zenon DEF UnreadIsNeverRead, Found, Ended
<1>1. b \in Blocks /\ Len(code[b]) \in Nat
  BY EndedSolves, LiveFromSteps DEF Ended
<1>2. i + 1 \in 1 .. Len(code[b])
  BY <1>1 DEF Statements
<1>3. ReadLater(b, i, l) <=> ReadFrom(b, i + 1, l)
  BY DEF ReadLater, ReadFrom
<1>. QED  BY <1>2, <1>3, UsedIsRead, ReadIsUsed
===============================================================================
