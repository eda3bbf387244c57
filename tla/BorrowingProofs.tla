----------------------------- MODULE BorrowingProofs -----------------------------
(***************************************************************************)
(* Proofs about Borrowing.  First: what the indices hold is what the check *)
(* has learned of them, each pointer was made by loans that the check      *)
(* carries for its reference, and no accepted body returns a pointer to    *)
(* what ends with it.  Then, from what the checks leave apart: nothing     *)
(* that is still used is spoiled, and arguments of a call are apart.       *)
(***************************************************************************)
EXTENDS Borrowing, BodyProofs

LEMMA BodiesTyped ==
  ASSUME NEW bod \in Bodies
  PROVE  /\ WellFormed(bod) /\ Solved(bod) /\ Lowered(bod) /\ Scoped(bod)
         /\ \A b \in Reachable(bod) : b \in Blocks(bod)
  BY BodiesAssumption, EnginesAssumption, ScopesAssumption, ReachableTyped
-----------------------------------------------------------------------------
(* The references that hold something a later step may look at.            *)
Alive(bod, b, i) == (LiveAt(bod, b, i) \cap References) \ EmptyAt(bod, b, i).whole

LEMMA AliveUsed ==
  ASSUME NEW bod \in Bodies, MovesAccepted(bod), NEW b \in Reachable(bod),
         NEW i \in 1 .. Len(bod.statements[b])
  PROVE  (Reads(bod.statements[b][i]) \cup Changes(bod.statements[b][i])) \cap References \subseteq Alive(bod, b, i)
<1>. DEFINE s == bod.statements[b][i]
            empty == EmptyAt(bod, b, i)
<1>1. /\ WellFormed(bod) /\ Solved(bod) /\ Lowered(bod) /\ b \in Blocks(bod)
      /\ s \in StatementsOf(bod)
  BY BodiesTyped, BlocksTyped
<1>2. /\ LiveAt(bod, b, i) = LiveBefore(LiveAt(bod, b, i + 1), s)
      /\ MoveErrors(empty, s) = {}
  BY <1>1, LiveSteps, NoErrors
<1>. HIDE DEF s, empty
<1>3. ASSUME NEW place \in UsedPlaces(s) PROVE place.local \notin empty.whole
  BY <1>2 DEF MoveErrors, Overlaps
<1>4. ASSUME s.do = "assign" PROVE IndexLocals(s.to) \cap References = {}
  BY <1>1, <1>4, LocalsAssumption DEF Lowered, NamedPlaces
<1>5. ASSUME NEW r \in Changes(s) \cap References PROVE r \notin empty.whole
  <2>1. s.do = "assign" /\ ~ IsWholeLocal(s.to) /\ r = s.to.local /\ r \in References
    BY <1>5 DEF Changes
  <2>2. r \notin AfterMoves(empty, s).whole
    BY <1>2, <2>1 DEF MoveErrors
  <2>. QED  BY <2>2 DEF AfterMoves, InsertAll
<1>6. Reads(s) \cap References \subseteq LocalsOf(UsedPlaces(s))
  BY <1>4 DEF Reads
<1>7. \A r \in (Reads(s) \cup Changes(s)) \cap References : r \notin empty.whole
  BY <1>3, <1>5, <1>6 DEF LocalsOf
<1>8. Reads(s) \cup Changes(s) \subseteq LiveAt(bod, b, i)
  BY <1>2 DEF LiveBefore
<1>. QED  BY <1>7, <1>8 DEF Alive, s, empty

(* A statement adds only the reference it binds.                           *)
LEMMA AliveStep ==
  ASSUME NEW bod \in Bodies, MovesAccepted(bod), NEW b \in Reachable(bod),
         NEW i \in 1 .. Len(bod.statements[b]), NEW r \in Alive(bod, b, i + 1)
  PROVE  /\ \/ r \in Alive(bod, b, i)
            \/ bod.statements[b][i].do = "bind" /\ r = bod.statements[b][i].to.local
         /\ bod.statements[b][i].do = "release" => r # bod.statements[b][i].local
<1>. DEFINE s == bod.statements[b][i]
            empty == EmptyAt(bod, b, i)
<1>1. /\ WellFormed(bod) /\ Solved(bod) /\ Lowered(bod) /\ b \in Blocks(bod)
      /\ s \in StatementsOf(bod)
  BY BodiesTyped, BlocksTyped
<1>2. /\ LiveAt(bod, b, i) = LiveBefore(LiveAt(bod, b, i + 1), s)
      /\ EmptyAt(bod, b, i + 1) = MoveStep(empty, s)
  BY <1>1, LiveSteps, EmptySteps
<1>3. s.do \in {"assign", "bind", "unpack", "release", "keep"}
  BY <1>1 DEF Lowered
<1>4. r \in References /\ r \in LiveAt(bod, b, i + 1) /\ r \notin MoveStep(empty, s).whole
  BY <1>2 DEF Alive
<1>5. CASE s.do = "assign"
  <2>1. r \in LiveAt(bod, b, i)
    BY <1>2, <1>4, <1>5 DEF LiveBefore, Replaces, IsWholeLocal
  <2>2. r \notin empty.whole
    <3>1. CASE r = s.to.local
      <4>1. r \in (Reads(s) \cup Changes(s)) \cap References
        BY <1>4, <1>5, <3>1 DEF Changes, IsWholeLocal
      <4>. QED  BY <4>1, AliveUsed DEF Alive
    <3>2. CASE r # s.to.local
      BY <1>4, <1>5, <3>2 DEF MoveStep, FillPlace, AfterMoves, InsertAll
    <3>. QED  BY <3>1, <3>2
  <2>. QED  BY <1>4, <1>5, <2>1, <2>2 DEF Alive
<1>6. CASE s.do = "bind"
  <2>. SUFFICES ASSUME r # s.to.local PROVE r \in Alive(bod, b, i)
    BY <1>6
  <2>1. r \in LiveAt(bod, b, i)
    BY <1>2, <1>4, <1>6 DEF LiveBefore, Replaces
  <2>2. r \notin empty.whole
    BY <1>4, <1>6 DEF MoveStep, FillPlace, AfterMoves, InsertAll
  <2>. QED  BY <1>4, <2>1, <2>2 DEF Alive
<1>7. CASE s.do = "unpack"
  <2>1. \A j \in DOMAIN s.taken : s.taken[j][1] # r
    BY <1>1, <1>4, <1>7 DEF Lowered
  <2>2. r \in LiveAt(bod, b, i)
    BY <1>2, <1>4, <1>7, <2>1 DEF LiveBefore, Replaces
  <2>3. r \in Locals
    BY <1>4, LocalsAssumption
  <2>4. r \notin empty.whole
    BY <1>4, <1>7, <2>1, <2>3 DEF MoveStep, Retain, InsertAll
  <2>. QED  BY <1>4, <1>7, <2>2, <2>4 DEF Alive
<1>8. CASE s.do = "release"
  <2>1. r # s.local
    <3>1. Whole(s.local).path = <<>> /\ Whole(s.local).local = s.local
      BY DEF Whole, Place
    <3>2. s.local \in MoveStep(empty, s).whole
      BY <1>8, <3>1 DEF MoveStep, InsertAll
    <3>. QED  BY <1>4, <3>2
  <2>2. r \in LiveAt(bod, b, i)
    BY <1>2, <1>4, <1>8, <2>1 DEF LiveBefore, Replaces
  <2>3. r \notin empty.whole
    BY <1>4, <1>8 DEF MoveStep, InsertAll
  <2>. QED  BY <1>4, <1>8, <2>1, <2>2, <2>3 DEF Alive
<1>9. CASE s.do = "keep"
  <2>1. r \in LiveAt(bod, b, i)
    BY <1>2, <1>4, <1>9 DEF LiveBefore, Replaces
  <2>2. r \notin empty.whole
    BY <1>4, <1>9 DEF MoveStep
  <2>. QED  BY <1>4, <1>9, <2>1, <2>2 DEF Alive
<1>. QED  BY <1>3, <1>5, <1>6, <1>7, <1>8, <1>9

LEMMA AliveEntry ==
  ASSUME NEW bod \in Bodies
  PROVE  Alive(bod, 0, 1) \subseteq Parameters /\ EmptyArriving(bod, 0) # {}
<1>1. /\ WellFormed(bod) /\ Solved(bod) /\ 0 \in Blocks(bod) /\ 0 \in Reachable(bod)
  BY BodiesTyped, ReachableTyped
<1>2. EntryEmpty \in EmptyArriving(bod, 0)
  BY DEF EmptyArriving, ArrivingAt
<1>3. EmptyAt(bod, 0, 1) = Retain(JoinEmpty(EmptyArriving(bod, 0)), LiveAt(bod, 0, 1))
  BY <1>1, EmptySteps, LiveSteps DEF EmptyStart
<1>4. ASSUME NEW r \in Alive(bod, 0, 1), r \notin Parameters PROVE FALSE
  <2>1. r \in EntryEmpty.whole
    BY <1>4, LocalsAssumption DEF Alive, EntryEmpty
  <2>2. r \in JoinEmpty(EmptyArriving(bod, 0)).whole
    BY <1>2, <2>1 DEF JoinEmpty
  <2>3. r \in EmptyAt(bod, 0, 1).whole
    BY <1>3, <1>4, <2>2 DEF Retain, Alive
  <2>. QED  BY <1>4, <2>3 DEF Alive
<1>. QED  BY <1>2, <1>4

LEMMA AliveEdge ==
  ASSUME NEW bod \in Bodies, NEW b \in Reachable(bod), EmptyArriving(bod, b) # {}, NEW c \in Successors(bod, b)
  PROVE  /\ Alive(bod, c, 1) \subseteq Alive(bod, b, End(bod, b))
         /\ c \in Reachable(bod) /\ EmptyArriving(bod, c) # {}
<1>. DEFINE leaving == Retain(EmptyAt(bod, b, End(bod, b)), LiveEnds(bod, LiveStarts(bod))[b])
<1>1. /\ c \in Reachable(bod)
      /\ LiveAt(bod, c, 1) \subseteq LiveEnds(bod, LiveStarts(bod))[b]
      /\ LiveAt(bod, c, 1) \subseteq LiveAt(bod, b, End(bod, b))
      /\ leaving \in EmptyArriving(bod, c)
      /\ EmptyAt(bod, c, 1) = Retain(JoinEmpty(EmptyArriving(bod, c)), LiveAt(bod, c, 1))
  BY BodiesTyped, EmptyEdge
<1>2. ASSUME NEW r \in Alive(bod, c, 1), r \in EmptyAt(bod, b, End(bod, b)).whole PROVE FALSE
  <2>1. r \in LiveAt(bod, c, 1) /\ r \notin EmptyAt(bod, c, 1).whole
    BY <1>2 DEF Alive
  <2>2. r \in leaving.whole
    BY <1>1, <1>2, <2>1 DEF Retain
  <2>. HIDE DEF leaving
  <2>3. r \in JoinEmpty(EmptyArriving(bod, c)).whole
    BY <1>1, <2>2 DEF JoinEmpty
  <2>4. r \in EmptyAt(bod, c, 1).whole
    BY <1>1, <2>1, <2>3 DEF Retain
  <2>. QED  BY <2>1, <2>4
<1>. QED  BY <1>1, <1>2 DEF Alive

LEMMA AliveEnd ==
  ASSUME NEW bod \in Bodies, MovesAccepted(bod), NEW b \in Reachable(bod)
  PROVE  LocalsOf(bod.terminators[b].reads) \cap References \subseteq Alive(bod, b, End(bod, b))
<1>1. WellFormed(bod) /\ Solved(bod) /\ b \in Blocks(bod)
  BY BodiesTyped
<1>2. /\ LiveAt(bod, b, End(bod, b)) = LiveLeaving(bod, b)
      /\ \A place \in bod.terminators[b].reads : ~ Overlaps(EmptyAt(bod, b, End(bod, b)), place)
  BY <1>1, LiveSteps, NoErrors
<1>3. LocalsOf(bod.terminators[b].reads) \subseteq LiveAt(bod, b, End(bod, b))
  BY <1>2 DEF LiveLeaving
<1>. QED  BY <1>2, <1>3 DEF Alive, LocalsOf, Overlaps
-----------------------------------------------------------------------------
(* What the check knows at a statement, and what it finds there.           *)
EndsLive(bod) == LiveEnds(bod, LiveStarts(bod))
FlowAt(bod, b, i) == Flows(bod)[b][i]
FlowArriving(bod, b) == ArrivingAt(bod, b, NoFlow, FlowEnds(bod, Wanted(bod), LiveStarts(bod), EndsLive(bod)))
CheckAt(bod, b, i) ==
  Between(<<"check", bod, Wanted(bod), EndsLive(bod), b>>, Unchecked(FlowStarts(bod)[b]), bod.statements[b])[i - 1]

LEMMA BehindIsLive ==
  ASSUME NEW bod \in Bodies, NEW b \in Blocks(bod), NEW i \in 0 .. Len(bod.statements[b])
  PROVE  LiveBehind(bod, EndsLive(bod), b, i) = LiveAt(bod, b, i + 1)
<1>. DEFINE s == bod.statements[b]
            n == Len(s)
            r == Reverse(s)
            t == SubSeq(s, i + 1, n)
            u == Reverse(t)
<1>1. s \in Seq(ToSet(s)) /\ n \in Nat
  BY BodiesTyped, BlocksTyped
<1>2. r \in Seq(ToSet(s)) /\ Len(r) = n /\ \A k \in 1 .. n : r[k] = s[n - k + 1]
  BY <1>1 DEF Reverse
<1>3. t \in Seq(ToSet(s)) /\ Len(t) = n - i /\ \A k \in 1 .. n - i : t[k] = s[i + k]
  <2>1. \A k \in i + 1 .. n : s[k] \in ToSet(s)
    BY <1>1
  <2>. HIDE DEF s, n
  <2>2. /\ t \in Seq(ToSet(s)) /\ Len(t) = (IF i + 1 <= n THEN n - (i + 1) + 1 ELSE 0)
        /\ \A k \in 1 .. n - (i + 1) + 1 : t[k] = s[i + 1 + k - 1]
    BY <1>1, <2>1, SubSeqProperties
  <2>3. i <= n
    BY DEF n, s
  <2>4. n - (i + 1) + 1 = n - i /\ (i + 1 > n => n - i = 0)
    BY <1>1, <2>3
  <2>. HIDE DEF t
  <2>5. Len(t) = n - i
    BY <1>1, <2>2, <2>3, <2>4
  <2>6. ASSUME NEW k \in 1 .. n - i PROVE t[k] = s[i + k]
    <3>1. t[k] = s[i + 1 + k - 1] /\ i + 1 + k - 1 = i + k
      BY <2>2, <2>4
    <3>. QED  BY <3>1
  <2>. QED  BY <2>2, <2>5, <2>6
<1>4. u \in Seq(ToSet(s)) /\ Len(u) = n - i /\ \A k \in 1 .. n - i : u[k] = t[n - i - k + 1]
  <2>. HIDE DEF s, n, t
  <2>. QED  BY <1>3 DEF Reverse
<1>5. i \in 0 .. n /\ n - i \in Nat /\ n - i <= n
  BY <1>1
<1>. HIDE DEF s, n, r, t, u
<1>6. ASSUME NEW k \in 1 .. n - i PROVE u[k] = r[k]
  <2>1. k \in 1 .. n /\ n - i - k + 1 \in 1 .. n - i /\ i + (n - i - k + 1) = n - k + 1
    BY <1>1, <1>5
  <2>2. u[k] = t[n - i - k + 1] /\ t[n - i - k + 1] = s[i + (n - i - k + 1)] /\ r[k] = s[n - k + 1]
    BY <1>2, <1>3, <1>4, <2>1
  <2>. QED  BY <2>1, <2>2
<1>7. Between(<<"live">>, LiveLeaving(bod, b), u)[n - i] = Between(<<"live">>, LiveLeaving(bod, b), r)[n - i]
  <2>. DEFINE m == n - i
  <2>1. m \in Nat /\ m <= Len(u) /\ m <= Len(r) /\ m \in 0 .. m
    BY <1>1, <1>2, <1>4, <1>5
  <2>2. \A k \in 1 .. m : u[k] = r[k]
    BY <1>6
  <2>. HIDE DEF m
  <2>3. \A k \in 0 .. m : Between(<<"live">>, LiveLeaving(bod, b), u)[k] = Between(<<"live">>, LiveLeaving(bod, b), r)[k]
    <3>. DEFINE S == ToSet(s)
    <3>1. u \in Seq(S) /\ r \in Seq(S)
      BY <1>2, <1>4
    <3>. HIDE DEF S
    <3>. QED  BY <2>1, <2>2, <3>1, BetweenAgree
  <2>4. Between(<<"live">>, LiveLeaving(bod, b), u)[m] = Between(<<"live">>, LiveLeaving(bod, b), r)[m]
    BY <2>1, <2>3
  <2>. QED  BY <2>4 DEF m
<1>8. LiveBehind(bod, EndsLive(bod), b, i) = AfterFirst(Len(u), LiveBefore, LiveLeaving(bod, b), u)
  BY DEF LiveBehind, After, LiveLeaving, EndsLive, u, t, n, s
<1>9. LiveAt(bod, b, i + 1) = Between(<<"live">>, LiveLeaving(bod, b), r)[n - i]
  <2>1. n + 1 - (i + 1) = n - i
    BY <1>1, <1>5
  <2>. QED  BY <2>1 DEF LiveAt, r, n, s
<1>. QED  BY <1>4, <1>7, <1>8, <1>9, AfterIsBetween

LEMMA CheckStepFlow ==
  \A bod, wanted, live, b, state, s :
    /\ CheckStep(bod, wanted, live, b, state, s).index = state.index + 1
    /\ CheckStep(bod, wanted, live, b, state, s).flow
         = RetainFlow(StepFlow(state.flow, wanted, <<b, state.index>>, s), LiveBehind(bod, live, b, state.index))
  BY DEF CheckStep

LEMMA CheckStepRefuses ==
  \A bod, wanted, live, b, state, s :
    /\ state.refused => CheckStep(bod, wanted, live, b, state, s).refused
    /\ Certain \in Meetings(state.flow, <<b, state.index>>, s) => CheckStep(bod, wanted, live, b, state, s).refused
<1>. SUFFICES ASSUME NEW bod, NEW wanted, NEW live, NEW b, NEW state, NEW s,
                     state.refused \/ Certain \in Meetings(state.flow, <<b, state.index>>, s)
              PROVE  CheckStep(bod, wanted, live, b, state, s).refused
  OBVIOUS
<1>1. CheckStep(bod, wanted, live, b, state, s).refused
        = (state.refused \/ Certain \in Meetings(state.flow, <<b, state.index>>, s))
  BY DEF CheckStep
<1>. QED  BY <1>1

LEMMA CheckStepAsks ==
  \A bod, wanted, live, b, state, s :
    /\ state.checks \subseteq CheckStep(bod, wanted, live, b, state, s).checks
    /\ \A m \in Meetings(state.flow, <<b, state.index>>, s) \ {Certain, Disjoint} :
         [block |-> b, index |-> state.index, pairs |-> m[2]] \in CheckStep(bod, wanted, live, b, state, s).checks
  BY DEF CheckStep

LEMMA CheckSteps ==
  ASSUME NEW bod \in Bodies, NEW b \in Reachable(bod)
  PROVE  /\ CheckAt(bod, b, 1) = Unchecked(FlowStarts(bod)[b])
         /\ \A i \in 1 .. Len(bod.statements[b]) :
              CheckAt(bod, b, i + 1)
                = CheckStep(bod, Wanted(bod), EndsLive(bod), b, CheckAt(bod, b, i), bod.statements[b][i])
         /\ \A i \in 1 .. End(bod, b) : Checking(bod)[b][i - 1] = CheckAt(bod, b, i) /\ CheckAt(bod, b, i).index = i
         /\ \A i \in 1 .. End(bod, b) : FlowAt(bod, b, i) = CheckAt(bod, b, i).flow
<1>. DEFINE s == bod.statements[b]
            n == Len(s)
            fold == <<"check", bod, Wanted(bod), EndsLive(bod), b>>
            f == Between(fold, Unchecked(FlowStarts(bod)[b]), s)
<1>1. s \in Seq(ToSet(s)) /\ n \in Nat /\ b \in Blocks(bod)
  BY BodiesTyped, BlocksTyped
<1>2. f[0] = Unchecked(FlowStarts(bod)[b]) /\ \A k \in 1 .. n : f[k] = StepOf(fold, f[k - 1], s[k])
  BY <1>1, BetweenSteps
<1>3. Checking(bod)[b] = f
  BY ChecksAreBetween DEF Checking, CheckBlock, EndsLive
<1>4. \A i : CheckAt(bod, b, i) = f[i - 1]
  BY DEF CheckAt
<1>5. \A t, x : StepOf(fold, t, x) = CheckStep(bod, Wanted(bod), EndsLive(bod), b, t, x)
  BY DEF StepOf
<1>6. \A i \in 1 .. n + 1 : FlowAt(bod, b, i) = f[i - 1].flow
  BY <1>3 DEF FlowAt, Flows
<1>. HIDE DEF f, fold
<1>7. ASSUME NEW i \in 1 .. n
      PROVE  CheckAt(bod, b, i + 1) = CheckStep(bod, Wanted(bod), EndsLive(bod), b, CheckAt(bod, b, i), s[i])
  <2>1. i + 1 - 1 = i
    OBVIOUS
  <2>2. CheckAt(bod, b, i + 1) = f[i] /\ CheckAt(bod, b, i) = f[i - 1]
    BY <1>4, <2>1
  <2>3. f[i] = StepOf(fold, f[i - 1], s[i])
    BY <1>2
  <2>. QED  BY <1>5, <2>2, <2>3, Zenon
<1>8. CheckAt(bod, b, 1) = Unchecked(FlowStarts(bod)[b])
  BY <1>2, <1>4
<1>9. \A i \in 1 .. n + 1 : CheckAt(bod, b, i).index = i
  <2>. DEFINE Counted == {k \in 0 .. n : f[k].index = k + 1}
  <2>1. 0 \in Counted
    BY <1>1, <1>2 DEF Unchecked
  <2>2. ASSUME NEW k \in 1 .. n, k - 1 \in Counted PROVE k \in Counted
    <3>1. f[k] = CheckStep(bod, Wanted(bod), EndsLive(bod), b, f[k - 1], s[k])
      BY <1>2, <1>5, Zenon
    <3>2. f[k].index = f[k - 1].index + 1
      BY <3>1, CheckStepFlow
    <3>. QED  BY <1>1, <2>2, <3>2
  <2>5. \A k \in 1 .. n : k - 1 \in Counted => k \in Counted
    BY <2>2
  <2>. HIDE DEF Counted
  <2>3. \A k \in 0 .. n : k \in Counted
    BY <1>1, <2>1, <2>5, Upward
  <2>4. \A i \in 1 .. n + 1 : i - 1 \in 0 .. n /\ i - 1 + 1 = i
    BY <1>1
  <2>. QED  BY <1>4, <2>3, <2>4 DEF Counted
<1>. QED  BY <1>3, <1>4, <1>6, <1>7, <1>8, <1>9 DEF End

LEMMA FlowSteps ==
  ASSUME NEW bod \in Bodies, NEW b \in Reachable(bod)
  PROVE  /\ FlowAt(bod, b, 1) = RetainFlow(JoinFlows(FlowArriving(bod, b)), LiveAt(bod, b, 1))
         /\ \A i \in 1 .. Len(bod.statements[b]) :
              FlowAt(bod, b, i + 1)
                = RetainFlow(StepFlow(FlowAt(bod, b, i), Wanted(bod), <<b, i>>, bod.statements[b][i]), LiveAt(bod, b, i + 1))
<1>1. WellFormed(bod) /\ Solved(bod) /\ b \in Blocks(bod) /\ Len(bod.statements[b]) \in Nat
  BY BodiesTyped, BlocksTyped
<1>2. FlowAt(bod, b, 1) = RetainFlow(JoinFlows(FlowArriving(bod, b)), LiveAt(bod, b, 1))
  <2>1. 1 \in 1 .. End(bod, b)
    BY <1>1 DEF End
  <2>2. FlowAt(bod, b, 1) = FlowStarts(bod)[b]
    BY <2>1, CheckSteps DEF Unchecked
  <2>3. FlowStarts(bod)[b] = RetainFlow(JoinFlows(FlowArriving(bod, b)), LiveStarts(bod)[b])
    BY DEF FlowStarts, StartOf, FlowArriving, EndsLive
  <2>. QED  BY <1>1, <2>2, <2>3, LiveSteps
<1>3. ASSUME NEW i \in 1 .. Len(bod.statements[b])
      PROVE  FlowAt(bod, b, i + 1)
               = RetainFlow(StepFlow(FlowAt(bod, b, i), Wanted(bod), <<b, i>>, bod.statements[b][i]), LiveAt(bod, b, i + 1))
  <2>1. i \in 1 .. End(bod, b) /\ i + 1 \in 1 .. End(bod, b) /\ i \in 0 .. Len(bod.statements[b])
    BY <1>1 DEF End
  <2>2. CheckAt(bod, b, i).index = i /\ FlowAt(bod, b, i) = CheckAt(bod, b, i).flow
        /\ FlowAt(bod, b, i + 1) = CheckAt(bod, b, i + 1).flow
    BY <2>1, CheckSteps
  <2>3. CheckAt(bod, b, i + 1) = CheckStep(bod, Wanted(bod), EndsLive(bod), b, CheckAt(bod, b, i), bod.statements[b][i])
    BY CheckSteps
  <2>4. CheckAt(bod, b, i + 1).flow
          = RetainFlow(StepFlow(FlowAt(bod, b, i), Wanted(bod), <<b, i>>, bod.statements[b][i]), LiveBehind(bod, EndsLive(bod), b, i))
    BY <2>2, <2>3 DEF CheckStep
  <2>. QED  BY <1>1, <2>1, <2>2, <2>4, BehindIsLive
<1>. QED  BY <1>2, <1>3

(* An accepted body has no certain meeting anywhere, and a check for each  *)
(* of the others.                                                          *)
MeetAt(bod, b, i) == Meetings(FlowAt(bod, b, i), <<b, i>>, bod.statements[b][i])
LEMMA MeetingsChecked ==
  ASSUME NEW bod \in Bodies, ~ BorrowVerdict(bod).refused, NEW b \in Reachable(bod),
         NEW i \in 1 .. Len(bod.statements[b])
  PROVE  /\ Certain \notin MeetAt(bod, b, i)
         /\ \A m \in MeetAt(bod, b, i) \ {Certain, Disjoint} :
              [block |-> b, index |-> i, pairs |-> m[2]] \in BorrowVerdict(bod).checks
<1>. DEFINE n == Len(bod.statements[b])
            Asked(m) == [block |-> b, index |-> i, pairs |-> m[2]]
            Good(k) == /\ CheckAt(bod, b, k).refused => CheckAt(bod, b, n + 1).refused
                       /\ CheckAt(bod, b, k).checks \subseteq CheckAt(bod, b, n + 1).checks
<1>1. n \in Nat
  BY BodiesTyped, BlocksTyped
<1>2. \A k \in 1 .. n : /\ CheckAt(bod, b, k).refused => CheckAt(bod, b, k + 1).refused
                        /\ CheckAt(bod, b, k).checks \subseteq CheckAt(bod, b, k + 1).checks
  <2>. SUFFICES ASSUME NEW k \in 1 .. n
                PROVE  /\ CheckAt(bod, b, k).refused => CheckAt(bod, b, k + 1).refused
                       /\ CheckAt(bod, b, k).checks \subseteq CheckAt(bod, b, k + 1).checks
    OBVIOUS
  <2>. DEFINE state == CheckAt(bod, b, k)
              s == bod.statements[b][k]
  <2>1. CheckAt(bod, b, k + 1) = CheckStep(bod, Wanted(bod), EndsLive(bod), b, state, s)
    BY CheckSteps
  <2>. HIDE DEF state, s
  <2>3. /\ state.refused => CheckAt(bod, b, k + 1).refused
        /\ state.checks \subseteq CheckAt(bod, b, k + 1).checks
    BY <2>1, CheckStepRefuses, CheckStepAsks
  <2>. QED  BY <2>3 DEF state
<1>3. Good(i + 1)
  <2>. DEFINE S == {k \in 0 .. n - i : Good(n + 1 - k)}
  <2>1. 0 \in S
    BY <1>1
  <2>2. ASSUME NEW k \in 1 .. n - i, k - 1 \in S PROVE k \in S
    <3>1. Good(n + 1 - (k - 1)) /\ n + 1 - k \in 1 .. n /\ n + 1 - (k - 1) = n + 1 - k + 1
      BY <1>1, <2>2
    <3>2. Good(n + 1 - k + 1)
      BY <3>1
    <3>3. Good(n + 1 - k)
      BY <1>2, <3>1, <3>2
    <3>. QED  BY <2>2, <3>3
  <2>3. \A k \in 1 .. n - i : k - 1 \in S => k \in S
    BY <2>2
  <2>4. n - i \in Nat
    BY <1>1
  <2>. HIDE DEF S
  <2>5. \A k \in 0 .. n - i : k \in S
    BY <2>1, <2>3, <2>4, Upward
  <2>6. n - i \in S /\ n + 1 - (n - i) = i + 1
    BY <1>1, <2>4, <2>5
  <2>. QED  BY <2>6 DEF S
<1>4. /\ i \in 1 .. End(bod, b) /\ n + 1 \in 1 .. End(bod, b) /\ n + 1 - 1 = n
  BY <1>1 DEF End
<1>5. ~ CheckAt(bod, b, n + 1).refused /\ CheckAt(bod, b, n + 1).checks \subseteq BorrowVerdict(bod).checks
  <2>1. Checking(bod)[b][n] = CheckAt(bod, b, n + 1)
    BY <1>4, CheckSteps
  <2>. QED  BY <2>1 DEF BorrowVerdict
<1>6. CheckAt(bod, b, i + 1) = CheckStep(bod, Wanted(bod), EndsLive(bod), b, CheckAt(bod, b, i), bod.statements[b][i])
  BY CheckSteps
<1>7. CheckAt(bod, b, i).index = i /\ CheckAt(bod, b, i).flow = FlowAt(bod, b, i)
  BY <1>4, CheckSteps
<1>8. /\ Certain \in MeetAt(bod, b, i) => CheckAt(bod, b, i + 1).refused
      /\ \A m \in MeetAt(bod, b, i) \ {Certain, Disjoint} : Asked(m) \in CheckAt(bod, b, i + 1).checks
  <2>. DEFINE state == CheckAt(bod, b, i)
              s == bod.statements[b][i]
  <2>1. CheckAt(bod, b, i + 1) = CheckStep(bod, Wanted(bod), EndsLive(bod), b, state, s)
    BY <1>6
  <2>2. state.index = i /\ MeetAt(bod, b, i) = Meetings(state.flow, <<b, i>>, s)
    BY <1>7 DEF MeetAt
  <2>. HIDE DEF state, s
  <2>3. /\ Certain \in Meetings(state.flow, <<b, state.index>>, s) => CheckAt(bod, b, i + 1).refused
        /\ \A m \in Meetings(state.flow, <<b, state.index>>, s) \ {Certain, Disjoint} :
             [block |-> b, index |-> state.index, pairs |-> m[2]] \in CheckAt(bod, b, i + 1).checks
    BY <2>1, CheckStepRefuses, CheckStepAsks
  <2>. QED  BY <2>2, <2>3
<1>. HIDE DEF n
<1>. QED  BY <1>3, <1>5, <1>8

(* A body that returns a borrow of a local of its own is refused.          *)
LEMMA ReturnsChecked ==
  ASSUME NEW bod \in Bodies, ~ BorrowVerdict(bod).refused, NEW b \in Reachable(bod),
         bod.terminators[b].go = "return", Result \in References,
         NEW loan \in FlowAt(bod, b, End(bod, b)).carried[Result]
  PROVE  loan.place.local \in References
<1>. DEFINE n == Len(bod.statements[b])
<1>1. n \in Nat
  BY BodiesTyped, BlocksTyped
<1>2. n + 1 \in 1 .. End(bod, b) /\ n + 1 - 1 = n /\ End(bod, b) = n + 1
  BY <1>1 DEF End
<1>3. Checking(bod)[b][n].flow = FlowAt(bod, b, End(bod, b))
  BY <1>2, CheckSteps
<1>4. ~ ReturnsLocal(bod, b, FlowAt(bod, b, End(bod, b)).carried)
  BY <1>3 DEF BorrowVerdict
<1>. QED  BY <1>4 DEF ReturnsLocal
-----------------------------------------------------------------------------
(* The engine follows every reference to the end of a block; the check     *)
(* forgets those that are dead.  They agree on the others.                 *)
IsFlow(f) == f = Flow(f.carried, f.known) /\ f.carried = [r \in References |-> f.carried[r]]
Agree(f, g, live) == f.known = g.known /\ \A r \in live \cap References : f.carried[r] = g.carried[r]

LEMMA OperandsRead ==
  ASSUME NEW bod \in Bodies, NEW s \in StatementsOf(bod), s.do \in {"assign", "bind"}
  PROVE  /\ \A o \in OperandsOf(s) : o.gives # "constant" => o.place \in UsedPlaces(s) /\ o.place.local \in Reads(s)
         /\ \A o \in OperandsOf(s) : o.gives = "borrowed" => o.place.local \in Lends(bod, s)
         /\ Lends(bod, s) \subseteq Reads(s) \cap References
         /\ s.value.is \in {"ref", "builtin"} => s.value.place \in UsedPlaces(s) /\ s.value.place.local \in Reads(s)
<1>1. Lowered(bod)
  BY BodiesTyped
<1>2. \A p : p \in WithIndices(p)
  BY DEF WithIndices
<1>3. ASSUME NEW o \in OperandsOf(s), o.gives # "constant"
      PROVE  o.place \in UsedPlaces(s) /\ o.place.local \in Reads(s)
  <2>1. PICK i \in DOMAIN s.value.operands : o = s.value.operands[i]
    BY DEF OperandsOf
  <2>2. o.place \in OperandPlaces(s.value.operands[i])
    BY <1>2, <1>3, <2>1 DEF OperandPlaces
  <2>3. o.place \in UsedPlaces(s)
    BY <2>2 DEF UsedPlaces, RvaluePlaces
  <2>. QED  BY <2>3 DEF Reads, LocalsOf
<1>4. \A o \in OperandsOf(s) : o.gives = "borrowed" => o.place.local \in Lends(bod, s)
  BY DEF Lends
<1>5. ASSUME s.value.is \in {"ref", "builtin"} PROVE s.value.place \in UsedPlaces(s) /\ s.value.place.local \in Reads(s)
  <2>1. "place" \in DOMAIN s.value
    BY <1>1, <1>5 DEF Lowered
  <2>2. s.value.place \in UsedPlaces(s)
    BY <1>2, <2>1 DEF UsedPlaces, RvaluePlaces
  <2>. QED  BY <2>2 DEF Reads, LocalsOf
<1>6. Lends(bod, s) \subseteq Reads(s) \cap References
  <2>1. Lends(bod, s) \subseteq References
    BY <1>1 DEF Lowered
  <2>2. \A r \in Lends(bod, s) : (\E o \in OperandsOf(s) : o.gives = "borrowed" /\ r = o.place.local)
                                 \/ (s.value.is = "builtin" /\ r = s.value.place.local)
    BY DEF Lends
  <2>. QED  BY <1>3, <1>5, <2>1, <2>2
<1>. QED  BY <1>3, <1>4, <1>5, <1>6

LEMMA ChangesAgree ==
  ASSUME NEW bod \in Bodies, NEW s \in StatementsOf(bod), NEW c, NEW d,
         \A r \in (Reads(s) \cup Changes(s)) \cap References : c[r] = d[r]
  PROVE  ChangedLocals(c, s) = ChangedLocals(d, s)
<1>1. \A r \in (Reads(s) \cup Changes(s)) \cap References : Through(c, r) = Through(d, r)
  BY DEF Through
<1>2. ASSUME s.do \in {"assign", "bind"} PROVE ChangedByValue(c, s) = ChangedByValue(d, s)
  <2>1. \A o \in OperandsOf(s) : o.gives = "borrowed" => Through(c, o.place.local) = Through(d, o.place.local)
    BY <1>1, <1>2, OperandsRead
  <2>2. s.value.is = "builtin" /\ s.value.place.local \in References =>
          Through(c, s.value.place.local) = Through(d, s.value.place.local)
    BY <1>1, <1>2, OperandsRead
  <2>3. {Through(c, o.place.local) : o \in {x \in OperandsOf(s) : x.gives = "borrowed"}}
          = {Through(d, o.place.local) : o \in {x \in OperandsOf(s) : x.gives = "borrowed"}}
    BY <2>1
  <2>. QED  BY <2>2, <2>3 DEF ChangedByValue
<1>3. ASSUME s.do = "assign", s.to.local \in References PROVE Through(c, s.to.local) = Through(d, s.to.local)
  <2>1. s.to.local \in Changes(s)
    BY <1>3 DEF Changes, IsWholeLocal
  <2>. QED  BY <1>1, <1>3, <2>1
<1>. QED  BY <1>2, <1>3 DEF ChangedLocals

LEMMA StepAgrees ==
  ASSUME NEW bod \in Bodies, NEW s \in StatementsOf(bod), NEW wanted, NEW at, NEW live,
         WellFormed(bod), NEW f, NEW g, IsFlow(f), IsFlow(g), Agree(f, g, LiveBefore(live, s))
  PROVE  /\ Agree(StepFlow(f, wanted, at, s), StepFlow(g, wanted, at, s), live)
         /\ IsFlow(StepFlow(f, wanted, at, s))
<1>1. \A r \in (Reads(s) \cup Changes(s)) \cap References : f.carried[r] = g.carried[r]
  BY DEF Agree, LiveBefore
<1>2. Learn(f.known, wanted, f.carried, s) = Learn(g.known, wanted, g.carried, s)
  BY <1>1, ChangesAgree DEF Learn, Agree
<1>3. s.do = "bind" => s.to.local \in References
  BY StatementsTyped
<1>4. ASSUME s.do = "bind" PROVE CarriedOn(f.carried, at, s) = CarriedOn(g.carried, at, s)
  <2>1. s.value.is \in {"ref", "call"}
    BY <1>4, BodiesTyped DEF Lowered
  <2>2. CASE s.value.is = "ref"
    <3>1. s.value.place.local \in Reads(s)
      BY <1>4, <2>2, OperandsRead
    <3>. QED  BY <1>1, <2>2, <3>1 DEF CarriedOn
  <2>3. CASE s.value.is = "call"
    <3>1. \A o \in OperandsOf(s) : o.gives = "borrowed" => f.carried[o.place.local] = g.carried[o.place.local]
      BY <1>1, <1>4, OperandsRead
    <3>2. {{Active(loan) : loan \in f.carried[o.place.local]} : o \in {x \in OperandsOf(s) : x.gives = "borrowed"}}
            = {{Active(loan) : loan \in g.carried[o.place.local]} : o \in {x \in OperandsOf(s) : x.gives = "borrowed"}}
      BY <3>1
    <3>. QED  BY <2>3, <3>2 DEF CarriedOn
  <2>. QED  BY <2>1, <2>2, <2>3
<1>5. ASSUME NEW r \in live \cap References
      PROVE  Carry(f.carried, at, s)[r] = Carry(g.carried, at, s)[r]
  <2>0. /\ f.carried = [q \in References |-> f.carried[q]]
        /\ g.carried = [q \in References |-> g.carried[q]]
    BY DEF IsFlow
  <2>1. CASE s.do = "bind"
    <3>1. r # s.to.local => f.carried[r] = g.carried[r]
      BY <2>1 DEF Agree, LiveBefore, Replaces
    <3>. QED  BY <1>3, <1>4, <2>0, <2>1, <3>1 DEF Carry
  <2>2. CASE s.do = "release"
    <3>1. r # s.local => f.carried[r] = g.carried[r]
      BY <2>2 DEF Agree, LiveBefore, Replaces
    <3>. QED  BY <2>0, <2>2, <3>1 DEF Carry
  <2>3. CASE s.do \notin {"bind", "release"}
    <3>1. s.do \in {"assign", "unpack", "keep"}
      BY <2>3, BodiesTyped DEF Lowered
    <3>2. r \notin Replaces(s)
      BY <3>1, BodiesTyped DEF Replaces, IsWholeLocal, Lowered
    <3>3. f.carried[r] = g.carried[r]
      BY <3>2 DEF Agree, LiveBefore
    <3>. QED  BY <2>3, <3>3 DEF Carry
  <2>. QED  BY <2>1, <2>2, <2>3
<1>6. IsFlow(StepFlow(f, wanted, at, s))
  <2>0. f.carried = [q \in References |-> f.carried[q]]
    BY DEF IsFlow
  <2>1. Carry(f.carried, at, s) = [q \in References |-> Carry(f.carried, at, s)[q]]
    BY <1>3, <2>0 DEF Carry
  <2>. QED  BY <2>1 DEF IsFlow, StepFlow, Flow
<1>7. /\ StepFlow(f, wanted, at, s).known = StepFlow(g, wanted, at, s).known
      /\ \A r : StepFlow(f, wanted, at, s).carried[r] = Carry(f.carried, at, s)[r]
      /\ \A r : StepFlow(g, wanted, at, s).carried[r] = Carry(g.carried, at, s)[r]
  BY <1>2 DEF StepFlow, Flow
<1>. QED  BY <1>5, <1>6, <1>7 DEF Agree

LEMMA RetainKeeps ==
  ASSUME NEW f, NEW live, f = Flow(f.carried, f.known)
  PROVE  /\ IsFlow(RetainFlow(f, live))
         /\ RetainFlow(f, live).known = f.known
         /\ \A r \in References : RetainFlow(f, live).carried[r] = IF r \in live THEN f.carried[r] ELSE {}
  BY DEF RetainFlow, Flow, IsFlow

LEMMA StepIsFlow ==
  \A f, wanted, at, s : /\ StepFlow(f, wanted, at, s) = Flow(StepFlow(f, wanted, at, s).carried, StepFlow(f, wanted, at, s).known)
                        /\ StepFlow(f, wanted, at, s).carried = Carry(f.carried, at, s)
                        /\ StepFlow(f, wanted, at, s).known = Learn(f.known, wanted, f.carried, s)
  BY DEF StepFlow, Flow
LEMMA JoinIsFlow ==
  \A fs : JoinFlows(fs) = Flow(JoinFlows(fs).carried, JoinFlows(fs).known)
  BY DEF JoinFlows, Flow

(* The flows of the check have a set of loans for each reference.          *)
LEMMA FlowTyped ==
  ASSUME NEW bod \in Bodies, NEW b \in Reachable(bod), NEW i \in 1 .. End(bod, b)
  PROVE  IsFlow(FlowAt(bod, b, i))
<1>. DEFINE n == Len(bod.statements[b])
<1>1. n \in Nat /\ i \in 1 .. n + 1
  BY BodiesTyped, BlocksTyped DEF End
<1>2. CASE i = 1
  BY <1>2, FlowSteps, JoinIsFlow, RetainKeeps
<1>3. CASE i # 1
  <2>1. i - 1 \in 1 .. n /\ i - 1 + 1 = i
    BY <1>1, <1>3
  <2>2. FlowAt(bod, b, i - 1 + 1)
          = RetainFlow(StepFlow(FlowAt(bod, b, i - 1), Wanted(bod), <<b, i - 1>>, bod.statements[b][i - 1]), LiveAt(bod, b, i - 1 + 1))
    BY <2>1, FlowSteps
  <2>. HIDE DEF n
  <2>. QED  BY <2>1, <2>2, StepIsFlow, RetainKeeps
<1>. QED  BY <1>2, <1>3
RawAt(bod, b, i) ==
  Between(<<"flow", Wanted(bod), b>>,
          [flow |-> RetainFlow(JoinFlows(FlowArriving(bod, b)), LiveStarts(bod)[b]), index |-> 1],
          bod.statements[b])[i - 1]

LEMMA RawAgrees ==
  ASSUME NEW bod \in Bodies, NEW b \in Reachable(bod)
  PROVE  \A i \in 1 .. End(bod, b) :
           IsFlow(RawAt(bod, b, i).flow) /\ Agree(FlowAt(bod, b, i), RawAt(bod, b, i).flow, LiveAt(bod, b, i))
<1>. DEFINE s == bod.statements[b]
            n == Len(s)
            fold == <<"flow", Wanted(bod), b>>
            start == [flow |-> RetainFlow(JoinFlows(FlowArriving(bod, b)), LiveStarts(bod)[b]), index |-> 1]
            f == Between(fold, start, s)
            Good == {k \in 0 .. n : /\ f[k].index = k + 1 /\ IsFlow(f[k].flow)
                                    /\ Agree(FlowAt(bod, b, k + 1), f[k].flow, LiveAt(bod, b, k + 1))}
<1>1. s \in Seq(ToSet(s)) /\ n \in Nat /\ b \in Blocks(bod) /\ WellFormed(bod) /\ Solved(bod)
      /\ \A k \in 1 .. n : s[k] \in StatementsOf(bod)
  BY BodiesTyped, BlocksTyped
<1>2. f[0] = start /\ \A k \in 1 .. n : f[k] = StepOf(fold, f[k - 1], s[k])
  BY <1>1, BetweenSteps
<1>3. \A i : RawAt(bod, b, i) = f[i - 1]
  BY DEF RawAt
<1>4. \A t, x : /\ StepOf(fold, t, x).flow = StepFlow(t.flow, Wanted(bod), <<b, t.index>>, x)
                /\ StepOf(fold, t, x).index = t.index + 1
  BY DEF StepOf, FlowStep
<1>5. start.index = 1 /\ start.flow = FlowAt(bod, b, 1) /\ IsFlow(start.flow)
  <2>1. start.flow = FlowAt(bod, b, 1)
    BY <1>1, FlowSteps, LiveSteps
  <2>2. IsFlow(start.flow)
    BY JoinIsFlow, RetainKeeps
  <2>. QED  BY <2>1, <2>2
<1>6. \A k \in 1 .. n :
        FlowAt(bod, b, k + 1)
          = RetainFlow(StepFlow(FlowAt(bod, b, k), Wanted(bod), <<b, k>>, s[k]), LiveAt(bod, b, k + 1))
  BY FlowSteps
<1>7. \A k \in 1 .. n : LiveAt(bod, b, k) = LiveBefore(LiveAt(bod, b, k + 1), s[k])
  BY <1>1, LiveSteps
<1>8. \A k \in 1 .. n + 1 : IsFlow(FlowAt(bod, b, k))
  BY FlowTyped DEF End
<1>. HIDE DEF f, fold, start, s, n
<1>9. 0 \in Good
  BY <1>1, <1>2, <1>5 DEF Agree
<1>10. ASSUME NEW k \in 1 .. n, k - 1 \in Good PROVE k \in Good
  <2>. DEFINE x == s[k]
              g == f[k - 1].flow
              after == StepFlow(FlowAt(bod, b, k), Wanted(bod), <<b, k>>, x)
              live == LiveAt(bod, b, k + 1)
  <2>1. k - 1 + 1 = k /\ k \in 0 .. n /\ k \in 1 .. n + 1
    BY <1>1
  <2>2. f[k - 1].index = k /\ IsFlow(g) /\ Agree(FlowAt(bod, b, k), g, LiveBefore(live, x))
    BY <1>7, <1>10, <2>1
  <2>3. f[k].flow = StepFlow(g, Wanted(bod), <<b, k>>, x) /\ f[k].index = k + 1
    BY <1>2, <1>4, <2>2
  <2>4. FlowAt(bod, b, k + 1) = RetainFlow(after, live)
    BY <1>6
  <2>5. x \in StatementsOf(bod) /\ IsFlow(FlowAt(bod, b, k))
    BY <1>1, <1>8, <2>1
  <2>. HIDE DEF x, g, after, live
  <2>6. Agree(after, f[k].flow, live) /\ IsFlow(after)
    BY <1>1, <2>2, <2>3, <2>5, StepAgrees DEF after
  <2>7. IsFlow(f[k].flow)
    <3>1. Agree(g, g, LiveBefore(live, x))
      BY DEF Agree
    <3>. QED  BY <1>1, <2>2, <2>3, <2>5, <3>1, StepAgrees
  <2>8. Agree(RetainFlow(after, live), f[k].flow, live)
    BY <2>6, RetainKeeps DEF Agree, IsFlow
  <2>. QED  BY <2>1, <2>3, <2>4, <2>7, <2>8 DEF live
<1>11. \A k \in 1 .. n : k - 1 \in Good => k \in Good
  BY <1>10
<1>. HIDE DEF Good
<1>12. \A k \in 0 .. n : k \in Good
  BY <1>1, <1>9, <1>11, Upward
<1>13. ASSUME NEW i \in 1 .. n + 1
       PROVE  IsFlow(RawAt(bod, b, i).flow) /\ Agree(FlowAt(bod, b, i), RawAt(bod, b, i).flow, LiveAt(bod, b, i))
  <2>1. i - 1 \in 0 .. n /\ i - 1 + 1 = i
    BY <1>1
  <2>2. i - 1 \in Good
    BY <1>12, <2>1
  <2>. QED  BY <1>3, <2>1, <2>2 DEF Good
<1>. QED  BY <1>13 DEF End, n, s

(* Along an edge loans are added, and nothing new is known.                *)
LEMMA FlowEdge ==
  ASSUME NEW bod \in Bodies, NEW b \in Reachable(bod), FlowArriving(bod, b) # {}, NEW c \in Successors(bod, b)
  PROVE  /\ FlowArriving(bod, c) # {}
         /\ FlowAt(bod, c, 1).known \subseteq FlowAt(bod, b, End(bod, b)).known
         /\ \A r \in LiveAt(bod, c, 1) \cap References :
              FlowAt(bod, b, End(bod, b)).carried[r] \subseteq FlowAt(bod, c, 1).carried[r]
<1>. DEFINE live == LiveStarts(bod)
            wanted == Wanted(bod)
            ends == FlowEnds(bod, wanted, live, EndsLive(bod))
            s == bod.statements[b]
            n == Len(s)
            raw == RawAt(bod, b, End(bod, b)).flow
            leaving == RetainFlow(raw, EndsLive(bod)[b])
<1>1. /\ WellFormed(bod) /\ Solved(bod) /\ b \in Blocks(bod) /\ c \in Reachable(bod) /\ c \in Blocks(bod)
      /\ b \in Predecessors(bod, c) /\ n \in Nat
  BY BodiesTyped, ReachableTyped, BlocksTyped DEF Predecessors
<1>2. End(bod, b) \in 1 .. End(bod, b) /\ End(bod, b) - 1 = n
  BY <1>1 DEF End
<1>3. ends = FlowRound(bod, wanted, live, EndsLive(bod), ends)
  BY EnginesAssumption DEF EndsLive
<1>4. FlowRound(bod, wanted, live, EndsLive(bod), ends)[b]
        = {FlowTransfer(bod, wanted, live, EndsLive(bod), b, JoinFlows(FlowArriving(bod, b)))}
  BY <1>1 DEF FlowRound, ForwardRound, FlowArriving
<1>5. FlowTransfer(bod, wanted, live, EndsLive(bod), b, JoinFlows(FlowArriving(bod, b))) = leaving
  BY <1>2, FlowsAreBetween DEF FlowTransfer, After, AfterFirst, RawAt
<1>6. leaving \in FlowArriving(bod, c)
  <2>1. leaving \in ends[b]
    BY <1>3, <1>4, <1>5
  <2>. QED  BY <1>1, <2>1 DEF FlowArriving, ArrivingAt
<1>7. /\ LiveAt(bod, c, 1) \subseteq EndsLive(bod)[b]
      /\ LiveAt(bod, c, 1) \subseteq LiveAt(bod, b, End(bod, b))
  <2>1. live[c] \subseteq EndsLive(bod)[b]
    BY <1>1 DEF LiveEnds, EndsLive
  <2>. QED  BY <1>1, <2>1, LiveSteps DEF LiveLeaving, EndsLive
<1>8. Agree(FlowAt(bod, b, End(bod, b)), raw, LiveAt(bod, b, End(bod, b)))
  BY <1>2, RawAgrees
<1>9. IsFlow(raw)
  BY <1>2, RawAgrees
<1>10. FlowAt(bod, c, 1) = RetainFlow(JoinFlows(FlowArriving(bod, c)), LiveAt(bod, c, 1))
  BY <1>1, FlowSteps
<1>. HIDE DEF raw, leaving
<1>11. /\ FlowAt(bod, c, 1).known \subseteq leaving.known
       /\ \A r \in LiveAt(bod, c, 1) \cap References : leaving.carried[r] \subseteq FlowAt(bod, c, 1).carried[r]
  <2>1. /\ FlowAt(bod, c, 1).known = JoinFlows(FlowArriving(bod, c)).known
        /\ \A r \in LiveAt(bod, c, 1) \cap References : FlowAt(bod, c, 1).carried[r] = JoinFlows(FlowArriving(bod, c)).carried[r]
    BY <1>10, JoinIsFlow, RetainKeeps
  <2>2. /\ JoinFlows(FlowArriving(bod, c)).known \subseteq leaving.known
        /\ \A r \in References : leaving.carried[r] \subseteq JoinFlows(FlowArriving(bod, c)).carried[r]
    BY <1>6 DEF JoinFlows, Flow
  <2>. QED  BY <2>1, <2>2
<1>12. /\ leaving.known = raw.known
       /\ \A r \in References : leaving.carried[r] = IF r \in EndsLive(bod)[b] THEN raw.carried[r] ELSE {}
  BY <1>9, RetainKeeps DEF IsFlow, leaving
<1>. QED  BY <1>6, <1>7, <1>8, <1>11, <1>12 DEF Agree

LEMMA FlowEntry ==
  ASSUME NEW bod \in Bodies
  PROVE  FlowArriving(bod, 0) # {} /\ FlowAt(bod, 0, 1).known = {}
<1>1. NoFlow \in FlowArriving(bod, 0)
  BY DEF FlowArriving, ArrivingAt
<1>2. FlowAt(bod, 0, 1) = RetainFlow(JoinFlows(FlowArriving(bod, 0)), LiveAt(bod, 0, 1))
  BY BodiesTyped, ReachableTyped, FlowSteps
<1>3. FlowAt(bod, 0, 1).known = JoinFlows(FlowArriving(bod, 0)).known
  BY <1>2, JoinIsFlow, RetainKeeps
<1>4. JoinFlows(FlowArriving(bod, 0)).known \subseteq NoFlow.known /\ NoFlow.known = {}
  BY <1>1 DEF JoinFlows, Flow, NoFlow
<1>. QED  BY <1>1, <1>3, <1>4
-----------------------------------------------------------------------------
(* Where the body that runs is: statement o of the source comes next, and  *)
(* index i is at it or at one of its checks.                               *)
Asked(bod) == BorrowVerdict(bod).checks
Checked(bod) == InsertChecks(bod, Asked(bod))
WovenBy(bod, b, places) == Woven(bod.statements[b], Checked(bod).statements[b], Asked(bod), b, places)
PlacesOf(bod, b) == CHOOSE places : WovenBy(bod, b, places)
IsAt(bod, b, o, i) ==
  /\ o \in 1 .. End(bod, b) /\ i \in Nat
  /\ PlacesOf(bod, b)[o - 1] < i /\ i <= PlacesOf(bod, b)[o]

LEMMA PlacesWoven ==
  ASSUME NEW bod \in Bodies, NEW b \in Blocks(bod)
  PROVE  /\ WovenBy(bod, b, PlacesOf(bod, b))
         /\ Len(Checked(bod).statements[b]) \in Nat
         /\ Checked(bod).terminators = bod.terminators
<1>1. WellFormed(bod) /\ IsFiniteSet(Asked(bod))
  BY BodiesTyped, EnginesAssumption DEF Asked
<1>2. /\ \E places : WovenBy(bod, b, places)
      /\ Len(Checked(bod).statements[b]) \in Nat
      /\ Checked(bod).terminators = bod.terminators
  BY <1>1, ChecksAreWoven DEF Checked, WovenBy
<1>. QED  BY <1>2 DEF PlacesOf

LEMMA AtEntryOf ==
  ASSUME NEW bod \in Bodies, NEW b \in Blocks(bod)
  PROVE  IsAt(bod, b, 1, 1)
<1>. DEFINE places == PlacesOf(bod, b)
            n == Len(bod.statements[b])
<1>1. n \in Nat /\ WovenBy(bod, b, places)
  BY BodiesTyped, BlocksTyped, PlacesWoven
<1>2. /\ places \in [0 .. n + 1 -> Nat] /\ places[0] = 0
      /\ \A i, j \in 0 .. n + 1 : i < j => places[i] < places[j]
  BY <1>1 DEF WovenBy, Woven
<1>. HIDE DEF places, n
<1>3. 0 \in 0 .. n + 1 /\ 1 \in 0 .. n + 1 /\ 1 \in 1 .. n + 1 /\ 1 - 1 = 0
  BY <1>1
<1>4. places[0] < places[1] /\ places[1] \in Nat
  BY <1>2, <1>3
<1>. QED  BY <1>2, <1>3, <1>4 DEF IsAt, End, places, n

LEMMA AtEndOf ==
  ASSUME NEW bod \in Bodies, NEW b \in Blocks(bod), NEW o, IsAt(bod, b, o, Len(Checked(bod).statements[b]) + 1)
  PROVE  o = End(bod, b)
<1>. DEFINE places == PlacesOf(bod, b)
            n == Len(bod.statements[b])
            m == Len(Checked(bod).statements[b])
<1>1. n \in Nat /\ m \in Nat /\ WovenBy(bod, b, places)
  BY BodiesTyped, BlocksTyped, PlacesWoven
<1>2. /\ places \in [0 .. n + 1 -> Nat] /\ places[n + 1] = m + 1
      /\ \A i, j \in 0 .. n + 1 : i < j => places[i] < places[j]
  BY <1>1 DEF WovenBy, Woven
<1>3. o \in 1 .. n + 1 /\ m + 1 <= places[o]
  BY DEF IsAt, End
<1>. HIDE DEF places, n, m
<1>4. o \in 0 .. n + 1 /\ n + 1 \in 0 .. n + 1 /\ (o = n + 1 \/ o < n + 1)
  BY <1>1, <1>3
<1>5. ~ (o < n + 1)
  BY <1>1, <1>2, <1>3, <1>4
<1>. QED  BY <1>4, <1>5 DEF End, n

(* At a statement: one of the checks of the next statement of the source,  *)
(* or that statement itself.                                               *)
LEMMA AtStatementOf ==
  ASSUME NEW bod \in Bodies, NEW b \in Blocks(bod), NEW o, NEW i, IsAt(bod, b, o, i),
         i <= Len(Checked(bod).statements[b])
  PROVE  /\ o \in 1 .. Len(bod.statements[b])
         /\ Checked(bod).statements[b][i].do = "distinct" =>
              IsAt(bod, b, o, i + 1) /\ Checked(bod).statements[b][i] \in ChecksBefore(Asked(bod), b, o)
         /\ Checked(bod).statements[b][i].do # "distinct" =>
              IsAt(bod, b, o + 1, i + 1) /\ Checked(bod).statements[b][i] = bod.statements[b][o]
<1>. DEFINE places == PlacesOf(bod, b)
            old == bod.statements[b]
            new == Checked(bod).statements[b]
            n == Len(old)
            m == Len(new)
            s == new[i]
<1>1. n \in Nat /\ m \in Nat /\ WovenBy(bod, b, places) /\ \A j \in 1 .. n : old[j] \in StatementsOf(bod)
  BY BodiesTyped, BlocksTyped, PlacesWoven
<1>2. /\ places \in [0 .. n + 1 -> Nat] /\ places[n + 1] = m + 1 /\ places[n + 1] = places[n] + 1
      /\ \A j, k \in 0 .. n + 1 : j < k => places[j] < places[k]
      /\ \A j \in 1 .. n : new[places[j]] = old[j]
      /\ \A j \in 1 .. n : {new[k] : k \in places[j - 1] + 1 .. places[j] - 1} = ChecksBefore(Asked(bod), b, j)
  BY <1>1 DEF WovenBy, Woven
<1>3. o \in 1 .. n + 1 /\ i \in Nat /\ places[o - 1] < i /\ i <= places[o] /\ i <= m
  BY DEF IsAt, End
<1>4. End(bod, b) = n + 1
  BY DEF End
<1>5. \A j \in 1 .. n : old[j].do # "distinct"
  BY <1>1, BodiesTyped DEF Lowered
<1>6. IsAt(bod, b, o, i + 1) <=> i + 1 <= places[o]
  BY <1>1, <1>2, <1>3, <1>4 DEF IsAt
<1>. HIDE DEF places, old, new, n, m
<1>7. o \in 1 .. n
  <2>1. SUFFICES ASSUME o = n + 1 PROVE FALSE
    BY <1>1, <1>3
  <2>2. o - 1 = n /\ n \in 0 .. n + 1
    BY <1>1, <2>1
  <2>3. places[n] < i /\ places[n] \in Nat /\ places[n] + 1 = m + 1
    BY <1>2, <1>3, <2>2
  <2>. QED  BY <1>1, <1>3, <2>3
<1>8. o - 1 \in 0 .. n + 1 /\ o \in 0 .. n + 1 /\ o + 1 \in 0 .. n + 1 /\ o + 1 \in 1 .. n + 1 /\ o + 1 - 1 = o /\ o < o + 1
  BY <1>1, <1>7
<1>9. places[o] \in Nat /\ places[o - 1] \in Nat /\ places[o + 1] \in Nat /\ places[o] < places[o + 1]
  BY <1>2, <1>8
<1>10. CASE i = places[o]
  <2>1. s = old[o] /\ s.do # "distinct"
    BY <1>2, <1>3, <1>5, <1>7, <1>10
  <2>2. i + 1 \in Nat /\ places[o] < i + 1 /\ i + 1 <= places[o + 1]
    BY <1>9, <1>10
  <2>3. IsAt(bod, b, o + 1, i + 1)
    BY <1>4, <1>8, <2>2 DEF IsAt, places
  <2>. QED  BY <1>7, <1>10, <2>1, <2>3 DEF old, new, n, places
<1>11. CASE i # places[o]
  <2>1. i \in places[o - 1] + 1 .. places[o] - 1 /\ i + 1 <= places[o]
    BY <1>3, <1>9, <1>11
  <2>2. s \in ChecksBefore(Asked(bod), b, o)
    BY <1>2, <1>3, <1>7, <2>1
  <2>3. s.do = "distinct"
    BY <2>2 DEF ChecksBefore, Distinct
  <2>. QED  BY <1>6, <1>7, <2>1, <2>2, <2>3 DEF n, old, new
<1>. QED  BY <1>10, <1>11
-----------------------------------------------------------------------------
(* Expressions and what they evaluate to, with the values of the numbers   *)
(* given.  The definition of Evaluate is recursive: it has a value for an  *)
(* expression because all that it is made of is smaller.                   *)
Plain(e) == \/ \E c : e = ConstantOf(c)
            \/ \E place : e = CopyOf(place) /\ place.local \notin References /\ IsPath(place.path)
Closed(D) ==
  \A x \in D : x.size \in Nat /\ (Plain(x) \/ \E l, r \in D : x = BinaryOf(l, r))
PartsOf(e) == {e} \cup e.within
IsExpression(e) ==
  /\ Closed(PartsOf(e))
  /\ \A x \in PartsOf(e) : x.reads \subseteq e.reads /\ x.size <= e.size

ReadIn(v, place) == IF place.path = <<>> /\ place.local \in Numbers THEN v[place.local] ELSE 0
ValueIn(v, f, x) ==
  CASE x.form[1] = "constant" -> x.form[2]
    [] x.form[1] = "copy" -> ReadIn(v, x.form[2])
    [] x.form[1] = "binary" -> Plus(f[x.form[2]], f[x.form[3]])
IsValue(v, D, f) == f = [x \in D |-> ValueIn(v, f, x)]
EvaluateIn(v, e) == (CHOOSE f : IsValue(v, PartsOf(e), f))[e]

LEMMA ConstantForm ==
  ASSUME NEW c
  PROVE  /\ ConstantOf(c).form = <<"constant", c>> /\ ConstantOf(c).size = 0
         /\ ConstantOf(c).reads = {} /\ ConstantOf(c).within = {} /\ Plain(ConstantOf(c))
  BY DEF ConstantOf, Expression, Plain
LEMMA CopyForm ==
  ASSUME NEW place
  PROVE  /\ CopyOf(place).form = <<"copy", place>> /\ CopyOf(place).size = 0
         /\ CopyOf(place).reads = {place.local} /\ CopyOf(place).within = {}
  BY DEF CopyOf, Expression
LEMMA BinaryForm ==
  ASSUME NEW l, NEW r
  PROVE  /\ BinaryOf(l, r).form = <<"binary", l, r>> /\ BinaryOf(l, r).size = l.size + r.size + 1
         /\ BinaryOf(l, r).reads = l.reads \cup r.reads
         /\ BinaryOf(l, r).within = {l, r} \cup l.within \cup r.within
  BY DEF BinaryOf, Expression

LEMMA PlainValue ==
  ASSUME NEW v, NEW f, NEW g, NEW x, Plain(x)
  PROVE  ValueIn(v, f, x) = ValueIn(v, g, x)
<1>1. x.form[1] = "constant" \/ x.form[1] = "copy"
  BY ConstantForm, CopyForm DEF Plain
<1>. QED  BY <1>1 DEF ValueIn
LEMMA BinaryValue ==
  ASSUME NEW v, NEW f, NEW l, NEW r
  PROVE  ValueIn(v, f, BinaryOf(l, r)) = Plus(f[l], f[r])
  BY BinaryForm DEF ValueIn

(* Plain expressions and those made of expressions are expressions.        *)
LEMMA PlainIsExpression ==
  ASSUME NEW e, Plain(e) PROVE IsExpression(e)
<1>1. e.size = 0 /\ e.within = {}
  BY ConstantForm, CopyForm DEF Plain
<1>. QED  BY <1>1 DEF IsExpression, Closed, PartsOf
LEMMA BinaryIsExpression ==
  ASSUME NEW l, NEW r, IsExpression(l), IsExpression(r)
  PROVE  IsExpression(BinaryOf(l, r))
<1>. DEFINE e == BinaryOf(l, r)
<1>1. /\ e.size = l.size + r.size + 1 /\ e.reads = l.reads \cup r.reads
      /\ PartsOf(e) = {e} \cup PartsOf(l) \cup PartsOf(r)
  BY BinaryForm DEF PartsOf
<1>2. l \in PartsOf(l) /\ r \in PartsOf(r)
  BY DEF PartsOf
<1>3. l.size \in Nat /\ r.size \in Nat
  BY <1>2 DEF IsExpression, Closed
<1>4. e.size \in Nat /\ l.size <= e.size /\ r.size <= e.size
  BY <1>1, <1>3
<1>5. ASSUME NEW x \in PartsOf(e)
      PROVE  /\ x.size \in Nat /\ (Plain(x) \/ \E a, b \in PartsOf(e) : x = BinaryOf(a, b))
             /\ x.reads \subseteq e.reads /\ x.size <= e.size
  <2>1. CASE x = e
    BY <1>1, <1>2, <1>4, <2>1
  <2>2. CASE x \in PartsOf(l)
    <3>1. x.size \in Nat /\ x.reads \subseteq l.reads /\ x.size <= l.size
      BY <2>2 DEF IsExpression, Closed
    <3>2. Plain(x) \/ \E a, b \in PartsOf(l) : x = BinaryOf(a, b)
      BY <2>2 DEF IsExpression, Closed
    <3>. QED  BY <1>1, <1>3, <1>4, <3>1, <3>2
  <2>3. CASE x \in PartsOf(r)
    <3>1. x.size \in Nat /\ x.reads \subseteq r.reads /\ x.size <= r.size
      BY <2>3 DEF IsExpression, Closed
    <3>2. Plain(x) \/ \E a, b \in PartsOf(r) : x = BinaryOf(a, b)
      BY <2>3 DEF IsExpression, Closed
    <3>. QED  BY <1>1, <1>3, <1>4, <3>1, <3>2
  <2>. QED  BY <1>1, <2>1, <2>2, <2>3
<1>. QED  BY <1>5 DEF IsExpression, Closed

(* On a closed set there is one function of values, whatever else it is    *)
(* defined on.                                                             *)
LEMMA ValuesAgree ==
  ASSUME NEW v, NEW D, Closed(D), NEW A, NEW B, D \subseteq A, D \subseteq B,
         NEW f, IsValue(v, A, f), NEW g, IsValue(v, B, g), NEW e \in D
  PROVE  f[e] = g[e]
<1>. DEFINE n == e.size
            Same == {k \in 0 .. n : \A x \in D : x.size <= k => f[x] = g[x]}
<1>1. n \in Nat /\ n <= n
  BY DEF Closed
<1>2. \A x \in D : f[x] = ValueIn(v, f, x) /\ g[x] = ValueIn(v, g, x)
  BY DEF IsValue
<1>3. \A x \in D : Plain(x) => f[x] = g[x]
  BY <1>2, PlainValue
<1>4. ASSUME NEW x \in D, ~ Plain(x)
      PROVE  \E l, r \in D : /\ x = BinaryOf(l, r) /\ l.size \in Nat /\ r.size \in Nat /\ x.size = l.size + r.size + 1
                             /\ f[x] = Plus(f[l], f[r]) /\ g[x] = Plus(g[l], g[r])
  <2>1. PICK l \in D, r \in D : x = BinaryOf(l, r)
    BY <1>4 DEF Closed
  <2>2. l.size \in Nat /\ r.size \in Nat
    BY DEF Closed
  <2>. QED  BY <1>2, <2>1, <2>2, BinaryForm, BinaryValue
<1>5. 0 \in Same
  <2>1. ASSUME NEW x \in D, x.size <= 0 PROVE f[x] = g[x]
    BY <1>3, <1>4, <2>1
  <2>. QED  BY <1>1, <2>1
<1>6. ASSUME NEW k \in 1 .. n, k - 1 \in Same PROVE k \in Same
  <2>1. \A y \in D : y.size <= k - 1 => f[y] = g[y]
    BY <1>6
  <2>2. ASSUME NEW x \in D, x.size <= k, ~ Plain(x) PROVE f[x] = g[x]
    <3>1. PICK l \in D, r \in D : /\ l.size \in Nat /\ r.size \in Nat /\ x.size = l.size + r.size + 1
                                  /\ f[x] = Plus(f[l], f[r]) /\ g[x] = Plus(g[l], g[r])
      BY <1>4, <2>2
    <3>2. l.size <= k - 1 /\ r.size <= k - 1
      BY <2>2, <3>1
    <3>. QED  BY <2>1, <3>1, <3>2
  <2>. QED  BY <1>3, <2>2
<1>7. \A k \in 1 .. n : k - 1 \in Same => k \in Same
  BY <1>6
<1>. HIDE DEF Same
<1>8. \A k \in 0 .. n : k \in Same
  BY <1>1, <1>5, <1>7, Upward
<1>9. n \in Same
  BY <1>1, <1>8
<1>. QED  BY <1>1, <1>9 DEF Same

LEMMA ValuesExist ==
  ASSUME NEW v, NEW D, Closed(D), NEW n \in Nat, \A x \in D : x.size <= n
  PROVE  \E f : IsValue(v, D, f)
<1>. DEFINE Under(k) == {x \in D : x.size <= k}
            Has == {k \in 0 .. n : \E f : IsValue(v, Under(k), f)}
<1>1. ASSUME NEW k \in 0 .. n, NEW g,
             \A x \in Under(k) : ~ Plain(x) =>
               \E l, r \in D : x = BinaryOf(l, r) /\ IsValue(v, Under(k - 1), g) /\ l \in Under(k - 1) /\ r \in Under(k - 1)
      PROVE  \E f : IsValue(v, Under(k), f)
  <2>. DEFINE f == [x \in Under(k) |-> ValueIn(v, g, x)]
  <2>1. ASSUME NEW x \in Under(k) PROVE ValueIn(v, g, x) = ValueIn(v, f, x)
    <3>1. CASE Plain(x)
      BY <3>1, PlainValue
    <3>2. CASE ~ Plain(x)
      <4>1. PICK l \in D, r \in D : x = BinaryOf(l, r) /\ IsValue(v, Under(k - 1), g) /\ l \in Under(k - 1) /\ r \in Under(k - 1)
        BY <1>1, <3>2
      <4>2. l \in Under(k) /\ r \in Under(k)
        BY <1>1, <4>1 DEF Closed
      <4>3. g[l] = ValueIn(v, g, l) /\ g[r] = ValueIn(v, g, r)
        BY <4>1 DEF IsValue
      <4>4. f[l] = g[l] /\ f[r] = g[r]
        BY <4>2, <4>3
      <4>. QED  BY <4>1, <4>4, BinaryValue
    <3>. QED  BY <3>1, <3>2
  <2>2. f = [x \in Under(k) |-> ValueIn(v, f, x)]
    BY <2>1
  <2>. QED  BY <2>2 DEF IsValue
<1>2. ASSUME NEW x \in D, ~ Plain(x)
      PROVE  \E l, r \in D : x = BinaryOf(l, r) /\ l.size \in Nat /\ r.size \in Nat /\ x.size = l.size + r.size + 1
  <2>1. PICK l \in D, r \in D : x = BinaryOf(l, r)
    BY <1>2 DEF Closed
  <2>2. l.size \in Nat /\ r.size \in Nat
    BY DEF Closed
  <2>. QED  BY <2>1, <2>2, BinaryForm
<1>3. 0 \in Has
  <2>1. \A x \in Under(0) : Plain(x)
    <3>1. ASSUME NEW x \in Under(0), ~ Plain(x) PROVE FALSE
      <4>1. PICK l \in D, r \in D : l.size \in Nat /\ r.size \in Nat /\ x.size = l.size + r.size + 1
        BY <1>2, <3>1
      <4>. QED  BY <3>1, <4>1
    <3>. QED  BY <3>1
  <2>. HIDE DEF Under
  <2>. QED  BY <1>1, <2>1
<1>4. ASSUME NEW k \in 1 .. n, k - 1 \in Has PROVE k \in Has
  <2>1. PICK g : IsValue(v, Under(k - 1), g)
    BY <1>4
  <2>2. ASSUME NEW x \in Under(k), ~ Plain(x)
        PROVE  \E l, r \in D : x = BinaryOf(l, r) /\ l \in Under(k - 1) /\ r \in Under(k - 1)
    <3>1. x \in D /\ x.size <= k
      BY <2>2
    <3>2. PICK l \in D, r \in D : x = BinaryOf(l, r) /\ l.size \in Nat /\ r.size \in Nat /\ x.size = l.size + r.size + 1
      BY <1>2, <2>2, <3>1
    <3>3. l.size <= k - 1 /\ r.size <= k - 1
      BY <3>1, <3>2
    <3>. QED  BY <3>2, <3>3
  <2>. HIDE DEF Under
  <2>3. k \in 0 .. n
    OBVIOUS
  <2>4. \E f : IsValue(v, Under(k), f)
    BY <1>1, <2>1, <2>2, <2>3
  <2>. QED  BY <2>3, <2>4
<1>5. \A k \in 1 .. n : k - 1 \in Has => k \in Has
  BY <1>4
<1>6. Under(n) = D
  OBVIOUS
<1>. HIDE DEF Has, Under
<1>7. \A k \in 0 .. n : k \in Has
  BY <1>3, <1>5, Upward
<1>8. n \in Has
  BY <1>7
<1>. QED  BY <1>6, <1>8 DEF Has

LEMMA ExpressionHasValue ==
  ASSUME NEW v, NEW e, IsExpression(e)
  PROVE  /\ e \in PartsOf(e) /\ Closed(PartsOf(e))
         /\ \E f : IsValue(v, PartsOf(e), f) /\ f[e] = EvaluateIn(v, e)
<1>1. e \in PartsOf(e) /\ Closed(PartsOf(e)) /\ \A x \in PartsOf(e) : x.size <= e.size
  BY DEF IsExpression, PartsOf
<1>2. e.size \in Nat
  BY <1>1 DEF Closed
<1>3. \E f : IsValue(v, PartsOf(e), f)
  BY <1>1, <1>2, ValuesExist
<1>4. IsValue(v, PartsOf(e), CHOOSE f : IsValue(v, PartsOf(e), f))
  BY <1>3, Zenon
<1>. QED  BY <1>1, <1>4 DEF EvaluateIn

LEMMA PlainEvaluates ==
  ASSUME NEW v
  PROVE  /\ \A c : EvaluateIn(v, ConstantOf(c)) = c
         /\ \A place : place.local \notin References /\ IsPath(place.path) => EvaluateIn(v, CopyOf(place)) = ReadIn(v, place)
<1>1. ASSUME NEW e, Plain(e) PROVE \E f : EvaluateIn(v, e) = ValueIn(v, f, e)
  <2>1. PICK f : IsValue(v, PartsOf(e), f) /\ f[e] = EvaluateIn(v, e)
    BY <1>1, PlainIsExpression, ExpressionHasValue
  <2>2. e \in PartsOf(e)
    BY DEF PartsOf
  <2>. QED  BY <2>1, <2>2 DEF IsValue
<1>2. ASSUME NEW c PROVE EvaluateIn(v, ConstantOf(c)) = c
  BY <1>1, ConstantForm DEF ValueIn
<1>3. ASSUME NEW place, place.local \notin References, IsPath(place.path)
      PROVE  EvaluateIn(v, CopyOf(place)) = ReadIn(v, place)
  <2>1. Plain(CopyOf(place))
    BY <1>3 DEF Plain
  <2>. QED  BY <1>1, <2>1, CopyForm DEF ValueIn
<1>. QED  BY <1>2, <1>3

LEMMA BinaryEvaluates ==
  ASSUME NEW v, NEW l, NEW r, IsExpression(l), IsExpression(r)
  PROVE  EvaluateIn(v, BinaryOf(l, r)) = Plus(EvaluateIn(v, l), EvaluateIn(v, r))
<1>. DEFINE e == BinaryOf(l, r)
<1>1. PICK f : IsValue(v, PartsOf(e), f) /\ f[e] = EvaluateIn(v, e)
  BY BinaryIsExpression, ExpressionHasValue
<1>2. e \in PartsOf(e) /\ PartsOf(l) \subseteq PartsOf(e) /\ PartsOf(r) \subseteq PartsOf(e)
  BY BinaryForm DEF PartsOf
<1>3. f[e] = Plus(f[l], f[r])
  <2>1. f[e] = ValueIn(v, f, e)
    BY <1>1, <1>2 DEF IsValue
  <2>. QED  BY <2>1, BinaryValue
<1>4. PICK g : IsValue(v, PartsOf(l), g) /\ g[l] = EvaluateIn(v, l)
  BY ExpressionHasValue
<1>5. PICK h : IsValue(v, PartsOf(r), h) /\ h[r] = EvaluateIn(v, r)
  BY ExpressionHasValue
<1>. HIDE DEF e
<1>6. f[l] = g[l]
  <2>. DEFINE D == PartsOf(l)
  <2>1. l \in D /\ Closed(D) /\ D \subseteq PartsOf(e) /\ IsValue(v, D, g)
    BY <1>2, <1>4, ExpressionHasValue
  <2>. HIDE DEF D
  <2>. QED  BY <1>1, <2>1, ValuesAgree
<1>7. f[r] = h[r]
  <2>. DEFINE D == PartsOf(r)
  <2>1. r \in D /\ Closed(D) /\ D \subseteq PartsOf(e) /\ IsValue(v, D, h)
    BY <1>2, <1>5, ExpressionHasValue
  <2>. HIDE DEF D
  <2>. QED  BY <1>1, <2>1, ValuesAgree
<1>. QED  BY <1>1, <1>3, <1>4, <1>5, <1>6, <1>7 DEF e

(* Only what an expression reads decides its value.                        *)
LEMMA SameReads ==
  ASSUME NEW v, NEW w, NEW e, IsExpression(e), \A n \in e.reads \cap Numbers : v[n] = w[n]
  PROVE  EvaluateIn(v, e) = EvaluateIn(w, e)
<1>1. ASSUME NEW f, NEW x \in PartsOf(e) PROVE ValueIn(v, f, x) = ValueIn(w, f, x)
  <2>1. x.reads \subseteq e.reads /\ (Plain(x) \/ \E l, r \in PartsOf(e) : x = BinaryOf(l, r))
    BY DEF IsExpression, Closed
  <2>2. CASE \E l, r \in PartsOf(e) : x = BinaryOf(l, r)
    BY <2>2, BinaryValue
  <2>3. CASE \E c : x = ConstantOf(c)
    BY <2>3, ConstantForm DEF ValueIn
  <2>4. CASE \E place : x = CopyOf(place)
    <3>1. PICK place : x = CopyOf(place)
      BY <2>4
    <3>2. place.local \in e.reads
      BY <2>1, <3>1, CopyForm
    <3>. QED  BY <3>1, <3>2, CopyForm DEF ValueIn, ReadIn
  <2>. QED  BY <2>1, <2>2, <2>3, <2>4 DEF Plain
<1>2. \A f : IsValue(v, PartsOf(e), f) <=> IsValue(w, PartsOf(e), f)
  BY <1>1 DEF IsValue
<1>. HIDE DEF IsValue
<1>. QED  BY <1>2 DEF EvaluateIn
-----------------------------------------------------------------------------
(* What the state of a run has to do with what the check knows.            *)
IsPointer(p) ==
  \/ p = NoPointer
  \/ p = [kind |-> p.kind, target |-> p.target, at |-> p.at, lineage |-> p.lineage, lent |-> p.lent, spoiled |-> p.spoiled]
ArePointers(ptrs) == ptrs = [r \in References |-> ptrs[r]] /\ \A r \in References : IsPointer(ptrs[r])
AreValues(v) == v = [n \in Numbers |-> v[n]]

IsLoan(loan) == loan = Loan(loan.made, loan.kind, loan.place, loan.by)
(* A reference points behind a parameter that is one, or at a local that   *)
(* it carries a loan of, one to change it if it is to.                     *)
Rooted(bod, carried, r, p) ==
  /\ p # NoPointer
  /\ r \in Changing(bod) => p.kind # "shared"
  /\ p.target.local # Caller =>
       \E loan \in carried[r] :
         /\ IsLoan(loan) /\ loan.place.local = p.target.local /\ loan.place.local \notin References
         /\ p.kind # "shared" => loan.kind # "shared"
RootedAt(bod, b, i, ptrs) == \A r \in Alive(bod, b, i) : Rooted(bod, FlowAt(bod, b, i).carried, r, ptrs[r])

(* What is known is true.                                                  *)
True(k, v) == k[1] \in Numbers /\ IsExpression(k[2]) /\ v[k[1]] = EvaluateIn(v, k[2])
TrueAt(bod, b, i, v) == \A k \in FlowAt(bod, b, i).known : True(k, v)

LEMMA ActiveIs ==
  ASSUME NEW loan, IsLoan(loan), NEW active, active = Active(loan)
  PROVE  /\ IsLoan(active) /\ active.made = loan.made /\ active.place = loan.place /\ active.by = loan.by
         /\ active.kind = IF loan.kind = "argument" THEN "mutable" ELSE loan.kind
<1>1. loan = [made |-> loan.made, kind |-> loan.kind, place |-> loan.place, by |-> loan.by]
  BY DEF IsLoan, Loan
<1>2. CASE loan.kind = "argument"
  <2>1. active = [loan EXCEPT !.kind = "mutable"]
    BY <1>2 DEF Active
  <2>2. active = [made |-> loan.made, kind |-> "mutable", place |-> loan.place, by |-> loan.by]
    BY <1>1, <2>1
  <2>. QED  BY <1>2, <2>2 DEF IsLoan, Loan
<1>3. CASE loan.kind # "argument"
  <2>1. active = loan
    BY <1>3 DEF Active
  <2>. QED  BY <1>3, <2>1
<1>. QED  BY <1>2, <1>3

LEMMA NoPointerIs == \A k, t, a, l, m, s :
  [kind |-> k, target |-> t, at |-> a, lineage |-> l, lent |-> m, spoiled |-> s] # NoPointer
<1>. SUFFICES ASSUME NEW k, NEW t, NEW a, NEW l, NEW m, NEW s,
                     [kind |-> k, target |-> t, at |-> a, lineage |-> l, lent |-> m, spoiled |-> s] = NoPointer
              PROVE FALSE
  OBVIOUS
<1>1. DOMAIN [kind |-> k, target |-> t, at |-> a, lineage |-> l, lent |-> m, spoiled |-> s]
        = {"kind", "target", "at", "lineage", "lent", "spoiled"}
  OBVIOUS
<1>2. DOMAIN NoPointer = {"kind"}
  BY DEF NoPointer
<1>. QED  BY <1>1, <1>2

LEMMA SpoiledIs ==
  ASSUME NEW p, p = [kind |-> p.kind, target |-> p.target, at |-> p.at, lineage |-> p.lineage, lent |-> p.lent, spoiled |-> p.spoiled],
         NEW q, q = [p EXCEPT !.spoiled = TRUE]
  PROVE  q = [kind |-> p.kind, target |-> p.target, at |-> p.at, lineage |-> p.lineage, lent |-> p.lent, spoiled |-> TRUE]
  OBVIOUS

LEMMA PointerIs ==
  ASSUME NEW k, NEW t, NEW a, NEW l, NEW m
  PROVE  /\ IsPointer(Pointer(k, t, a, l, m)) /\ Pointer(k, t, a, l, m) # NoPointer
         /\ Pointer(k, t, a, l, m).kind = k /\ Pointer(k, t, a, l, m).target = t
         /\ Pointer(k, t, a, l, m).at = a /\ Pointer(k, t, a, l, m).lineage = l \cup {a}
         /\ Pointer(k, t, a, l, m).lent = m /\ Pointer(k, t, a, l, m).spoiled = FALSE
  BY NoPointerIs DEF Pointer, IsPointer

(* Spoiling a reference changes nothing else about it.                     *)
LEMMA RemainingKeeps ==
  ASSUME ArePointers(pointers), NEW s
  PROVE  /\ ArePointers(Remaining(s))
         /\ \A r \in References :
              /\ Remaining(s)[r] # NoPointer <=> pointers[r] # NoPointer
              /\ pointers[r] # NoPointer =>
                   /\ Remaining(s)[r].kind = pointers[r].kind /\ Remaining(s)[r].target = pointers[r].target
                   /\ Remaining(s)[r].at = pointers[r].at /\ Remaining(s)[r].lineage = pointers[r].lineage
                   /\ Remaining(s)[r].lent = pointers[r].lent
                   /\ Remaining(s)[r].spoiled <=> (pointers[r].spoiled \/ \E touch \in Touches(s) : Spoils(touch, r))
<1>1. Remaining(s) = [r \in References |-> Remaining(s)[r]]
  BY DEF Remaining
<1>. SUFFICES ASSUME NEW r \in References
              PROVE  /\ IsPointer(Remaining(s)[r])
                     /\ Remaining(s)[r] # NoPointer <=> pointers[r] # NoPointer
                     /\ pointers[r] # NoPointer =>
                          /\ Remaining(s)[r].kind = pointers[r].kind /\ Remaining(s)[r].target = pointers[r].target
                          /\ Remaining(s)[r].at = pointers[r].at /\ Remaining(s)[r].lineage = pointers[r].lineage
                          /\ Remaining(s)[r].lent = pointers[r].lent
                          /\ Remaining(s)[r].spoiled <=> (pointers[r].spoiled \/ \E touch \in Touches(s) : Spoils(touch, r))
  BY <1>1 DEF ArePointers
<1>2. Remaining(s)[r] = IF \E touch \in Touches(s) : Spoils(touch, r) THEN [pointers[r] EXCEPT !.spoiled = TRUE] ELSE pointers[r]
  BY DEF Remaining
<1>3. IsPointer(pointers[r])
  BY DEF ArePointers
<1>4. CASE pointers[r] = NoPointer
  BY <1>2, <1>3, <1>4 DEF Spoils
<1>5. CASE pointers[r] # NoPointer
  <2>. DEFINE p == pointers[r]
              sp == \E touch \in Touches(s) : Spoils(touch, r)
  <2>1. p = [kind |-> p.kind, target |-> p.target, at |-> p.at, lineage |-> p.lineage, lent |-> p.lent, spoiled |-> p.spoiled]
    BY <1>3, <1>5 DEF IsPointer
  <2>2. Remaining(s)[r] = IF sp THEN [p EXCEPT !.spoiled = TRUE] ELSE p
    BY <1>2
  <2>. HIDE DEF p, sp
  <2>. DEFINE x == Remaining(s)[r]
  <2>. HIDE DEF x
  <2>4. x = IF sp THEN [p EXCEPT !.spoiled = TRUE] ELSE p
    BY <2>2 DEF x
  <2>3. sp => x = [kind |-> p.kind, target |-> p.target, at |-> p.at, lineage |-> p.lineage, lent |-> p.lent, spoiled |-> TRUE]
    BY <2>1, <2>4, SpoiledIs
  <2>5. IsPointer(x) /\ x # NoPointer
    <3>1. CASE sp
      BY <2>3, <3>1, NoPointerIs DEF IsPointer
    <3>2. CASE ~ sp
      BY <1>3, <1>5, <2>4, <3>2 DEF p
    <3>. QED  BY <3>1, <3>2
  <2>6. /\ x.kind = p.kind /\ x.target = p.target /\ x.at = p.at /\ x.lineage = p.lineage /\ x.lent = p.lent
        /\ x.spoiled <=> (p.spoiled \/ sp)
    <3>1. CASE sp
      BY <2>3, <3>1
    <3>2. CASE ~ sp
      BY <2>4, <3>2
    <3>. QED  BY <3>1, <3>2
  <2>. QED  BY <1>5, <2>5, <2>6 DEF x, p, sp
<1>. QED  BY <1>4, <1>5

(* Where a place of a variable is when the program runs.                   *)
LEMMA ElementsEmpty ==
  ASSUME NEW path, IsPath(path)
  PROVE  <<>> \o [i \in DOMAIN path |-> Element(path[i])] = <<>> <=> path = <<>>
<1>. DEFINE S == ToSet(path)
            T == {Element(x) : x \in S}
            g == [i \in DOMAIN path |-> Element(path[i])]
<1>1. path \in Seq(S)
  BY DEF IsPath
<1>2. Len(path) \in Nat /\ DOMAIN path = 1 .. Len(path) /\ \A i \in 1 .. Len(path) : path[i] \in S
  BY <1>1
<1>3. g \in Seq(T) /\ Len(g) = Len(path)
  <2>. HIDE DEF S
  <2>1. g \in [1 .. Len(path) -> T]
    BY <1>2
  <2>. HIDE DEF g, T
  <2>. QED  BY <1>2, <2>1
<1>. HIDE DEF g, T
<1>4. <<>> \o g = g
  BY <1>3
<1>5. g = <<>> <=> Len(g) = 0
  BY <1>3
<1>6. path = <<>> <=> Len(path) = 0
  BY <1>1
<1>. QED  BY <1>3, <1>4, <1>5, <1>6 DEF g

LEMMA ConcreteOf ==
  ASSUME NEW place
  PROVE  /\ place.local \in References => Concrete(place).local = pointers[place.local].target.local
         /\ place.local \notin References => Concrete(place).local = place.local
         /\ place.local \notin References /\ IsPath(place.path) => (Concrete(place).path = <<>> <=> place.path = <<>>)
<1>1. /\ Concrete(place).local = Base(place.local).target.local
      /\ Concrete(place).path = Base(place.local).target.path \o [i \in DOMAIN place.path |-> Element(place.path[i])]
  BY DEF Concrete, Behind, Place
<1>2. place.local \notin References => Base(place.local).target.local = place.local /\ Base(place.local).target.path = <<>>
  BY DEF Base, Whole, Place
<1>3. place.local \in References => Base(place.local).target = pointers[place.local].target
  BY DEF Base
<1>. QED  BY <1>1, <1>2, <1>3, ElementsEmpty

LEMMA ReadOf ==
  ASSUME NEW o, o.gives = "copy", o.place.local \notin References, IsPath(o.place.path)
  PROVE  Read(o) = ReadIn(values, o.place)
<1>1. Read(o) = IF Concrete(o.place).path = <<>> /\ Concrete(o.place).local \in Numbers
                THEN values[Concrete(o.place).local] ELSE 0
  BY DEF Read
<1>. QED  BY <1>1, ConcreteOf DEF ReadIn

LEMMA EvaluateIsIn ==
  ASSUME NEW e, IsExpression(e)
  PROVE  Evaluate(e) = EvaluateIn(values, e)
<1>. DEFINE Is(f) == f = [x \in {e} \cup e.within |-> ValueOf(f, x)]
<1>1. Evaluate(e) = (CHOOSE f : Is(f))[e]
  BY DEF Evaluate
<1>2. ASSUME NEW f, NEW x \in PartsOf(e) PROVE ValueOf(f, x) = ValueIn(values, f, x)
  <2>1. Plain(x) \/ \E l, r \in PartsOf(e) : x = BinaryOf(l, r)
    BY DEF IsExpression, Closed
  <2>2. CASE \E l, r \in PartsOf(e) : x = BinaryOf(l, r)
    BY <2>2, BinaryForm DEF ValueOf, ValueIn
  <2>3. CASE \E c : x = ConstantOf(c)
    BY <2>3, ConstantForm DEF ValueOf, ValueIn
  <2>4. CASE \E place : x = CopyOf(place) /\ place.local \notin References /\ IsPath(place.path)
    <3>1. PICK place : x = CopyOf(place) /\ place.local \notin References /\ IsPath(place.path)
      BY <2>4
    <3>2. Read(Copy(place)) = ReadIn(values, place)
      BY <3>1, ReadOf DEF Copy
    <3>. QED  BY <3>1, <3>2, CopyForm DEF ValueOf, ValueIn
  <2>. QED  BY <2>1, <2>2, <2>3, <2>4 DEF Plain
<1>3. \A f : Is(f) <=> IsValue(values, PartsOf(e), f)
  BY <1>2 DEF IsValue, PartsOf
<1>. HIDE DEF Is, IsValue
<1>. QED  BY <1>1, <1>3 DEF EvaluateIn
-----------------------------------------------------------------------------
(* What a statement makes of what the references carry and of what is      *)
(* known.                                                                  *)
LEMMA StatementTyped ==
  ASSUME NEW bod \in Bodies, NEW b \in Reachable(bod), NEW i \in 1 .. Len(bod.statements[b])
  PROVE  /\ bod.statements[b][i] \in StatementsOf(bod)
         /\ bod.statements[b][i].do \in {"assign", "bind", "unpack", "release", "keep"}
         /\ i \in 1 .. End(bod, b) /\ i + 1 \in 1 .. End(bod, b) /\ i + 1 - 1 = i
         /\ b \in Blocks(bod) /\ WellFormed(bod) /\ Lowered(bod)
<1>1. /\ WellFormed(bod) /\ Lowered(bod) /\ b \in Blocks(bod) /\ Len(bod.statements[b]) \in Nat
      /\ bod.statements[b][i] \in StatementsOf(bod)
  BY BodiesTyped, BlocksTyped
<1>2. bod.statements[b][i].do \in {"assign", "bind", "unpack", "release", "keep"}
  BY <1>1 DEF Lowered
<1>. QED  BY <1>1, <1>2 DEF End

LEMMA FlowBehind ==
  ASSUME NEW bod \in Bodies, NEW b \in Reachable(bod), NEW i \in 1 .. Len(bod.statements[b]),
         NEW s, s = bod.statements[b][i]
  PROVE  /\ \A r \in LiveAt(bod, b, i + 1) \cap References :
              FlowAt(bod, b, i + 1).carried[r] = Carry(FlowAt(bod, b, i).carried, <<b, i>>, s)[r]
         /\ FlowAt(bod, b, i + 1).known = Learn(FlowAt(bod, b, i).known, Wanted(bod), FlowAt(bod, b, i).carried, s)
         /\ FlowAt(bod, b, i).carried = [r \in References |-> FlowAt(bod, b, i).carried[r]]
<1>. DEFINE flow == FlowAt(bod, b, i)
            next == StepFlow(flow, Wanted(bod), <<b, i>>, s)
<1>1. FlowAt(bod, b, i + 1) = RetainFlow(next, LiveAt(bod, b, i + 1))
  BY FlowSteps
<1>2. next = Flow(next.carried, next.known) /\ next.carried = Carry(flow.carried, <<b, i>>, s)
      /\ next.known = Learn(flow.known, Wanted(bod), flow.carried, s)
  BY StepIsFlow
<1>3. IsFlow(flow)
  BY StatementTyped, FlowTyped
<1>. HIDE DEF flow, next
<1>4. /\ FlowAt(bod, b, i + 1).known = next.known
      /\ \A r \in References : FlowAt(bod, b, i + 1).carried[r] = IF r \in LiveAt(bod, b, i + 1) THEN next.carried[r] ELSE {}
  BY <1>1, <1>2, RetainKeeps
<1>. QED  BY <1>2, <1>3, <1>4 DEF IsFlow, flow

LEMMA CarriedBehind ==
  ASSUME NEW bod \in Bodies, MovesAccepted(bod), NEW b \in Reachable(bod), NEW i \in 1 .. Len(bod.statements[b]),
         NEW s, s = bod.statements[b][i], NEW r \in Alive(bod, b, i + 1)
  PROVE  /\ r \in References
         /\ ~ (s.do = "bind" /\ r = s.to.local) =>
              r \in Alive(bod, b, i) /\ FlowAt(bod, b, i + 1).carried[r] = FlowAt(bod, b, i).carried[r]
         /\ s.do = "bind" /\ r = s.to.local =>
              FlowAt(bod, b, i + 1).carried[r] = CarriedOn(FlowAt(bod, b, i).carried, <<b, i>>, s)
<1>. DEFINE carried == FlowAt(bod, b, i).carried
<1>1. r \in References /\ r \in LiveAt(bod, b, i + 1)
  BY DEF Alive
<1>2. /\ FlowAt(bod, b, i + 1).carried[r] = Carry(carried, <<b, i>>, s)[r]
      /\ carried = [q \in References |-> carried[q]]
  BY <1>1, FlowBehind
<1>3. /\ r \in Alive(bod, b, i) \/ (s.do = "bind" /\ r = s.to.local)
      /\ s.do = "release" => r # s.local
  BY AliveStep
<1>. HIDE DEF carried
<1>4. ~ (s.do = "bind" /\ r = s.to.local) => Carry(carried, <<b, i>>, s)[r] = carried[r]
  BY <1>1, <1>2, <1>3 DEF Carry
<1>5. s.do = "bind" /\ r = s.to.local => Carry(carried, <<b, i>>, s)[r] = CarriedOn(carried, <<b, i>>, s)
  BY <1>1, <1>2 DEF Carry
<1>. QED  BY <1>1, <1>2, <1>3, <1>4, <1>5 DEF carried

(* A statement that binds nothing leaves what is alive rooted.             *)
LEMMA RootedStep ==
  ASSUME NEW bod \in Bodies, MovesAccepted(bod), NEW b \in Reachable(bod), NEW i \in 1 .. Len(bod.statements[b]),
         NEW s, s = bod.statements[b][i], ArePointers(pointers), RootedAt(bod, b, i, pointers)
  PROVE  /\ \A r \in Alive(bod, b, i + 1) : ~ (s.do = "bind" /\ r = s.to.local) =>
              Rooted(bod, FlowAt(bod, b, i + 1).carried, r, Remaining(s)[r])
         /\ s.do # "bind" => RootedAt(bod, b, i + 1, Remaining(s))
<1>1. ASSUME NEW r \in Alive(bod, b, i + 1), ~ (s.do = "bind" /\ r = s.to.local)
      PROVE  Rooted(bod, FlowAt(bod, b, i + 1).carried, r, Remaining(s)[r])
  <2>1. /\ r \in References /\ r \in Alive(bod, b, i)
        /\ FlowAt(bod, b, i + 1).carried[r] = FlowAt(bod, b, i).carried[r]
    BY <1>1, CarriedBehind
  <2>2. Rooted(bod, FlowAt(bod, b, i).carried, r, pointers[r])
    BY <2>1 DEF RootedAt
  <2>3. pointers[r] # NoPointer
    BY <2>2 DEF Rooted
  <2>4. /\ Remaining(s)[r] # NoPointer
        /\ Remaining(s)[r].kind = pointers[r].kind /\ Remaining(s)[r].target = pointers[r].target
    BY <2>1, <2>3, RemainingKeeps
  <2>. QED  BY <2>1, <2>2, <2>4 DEF Rooted
<1>. QED  BY <1>1 DEF RootedAt

(* So does one that binds a reference which is rooted itself.              *)
LEMMA RootedBind ==
  ASSUME NEW bod \in Bodies, MovesAccepted(bod), NEW b \in Reachable(bod), NEW i \in 1 .. Len(bod.statements[b]),
         NEW s, s = bod.statements[b][i], s.do = "bind", ArePointers(pointers), RootedAt(bod, b, i, pointers),
         NEW p, IsPointer(p), NEW carried, carried = FlowAt(bod, b, i).carried,
         Rooted(bod, [carried EXCEPT ![s.to.local] = CarriedOn(carried, <<b, i>>, s)], s.to.local, p)
  PROVE  /\ RootedAt(bod, b, i + 1, [Remaining(s) EXCEPT ![s.to.local] = p])
         /\ ArePointers([Remaining(s) EXCEPT ![s.to.local] = p])
<1>. DEFINE after == [Remaining(s) EXCEPT ![s.to.local] = p]
<1>1. s.to.local \in References
  BY StatementTyped, StatementsTyped
<1>2. ArePointers(Remaining(s))
  BY RemainingKeeps
<1>3. \A r \in References : after[r] = IF r = s.to.local THEN p ELSE Remaining(s)[r]
  BY <1>2 DEF ArePointers
<1>4. ArePointers(after)
  BY <1>1, <1>2, <1>3 DEF ArePointers
<1>. HIDE DEF after
<1>5. ASSUME NEW r \in Alive(bod, b, i + 1)
      PROVE  Rooted(bod, FlowAt(bod, b, i + 1).carried, r, after[r])
  <2>1. CASE r # s.to.local
    BY <1>3, <2>1, RootedStep, CarriedBehind
  <2>2. CASE r = s.to.local
    <3>1. /\ carried = [q \in References |-> carried[q]]
          /\ FlowAt(bod, b, i + 1).carried[r] = CarriedOn(carried, <<b, i>>, s)
      BY <2>2, FlowBehind, CarriedBehind
    <3>2. [carried EXCEPT ![s.to.local] = CarriedOn(carried, <<b, i>>, s)][r] = FlowAt(bod, b, i + 1).carried[r]
      BY <1>1, <2>2, <3>1
    <3>3. after[r] = p
      BY <1>1, <1>3, <2>2
    <3>. QED  BY <2>2, <3>2, <3>3 DEF Rooted
  <2>. QED  BY <2>1, <2>2
<1>. QED  BY <1>4, <1>5 DEF RootedAt, after

(* A borrow carries the loan that it is rooted in, of what it borrows or   *)
(* of what it borrows through.                                             *)
LEMMA BorrowIsRooted ==
  ASSUME NEW bod \in Bodies, MovesAccepted(bod), NEW b \in Reachable(bod), NEW i \in 1 .. Len(bod.statements[b]),
         NEW s, s = bod.statements[b][i], s.do = "bind", s.value.is = "ref", RootedAt(bod, b, i, pointers),
         NEW carried, carried = FlowAt(bod, b, i).carried, NEW at, NEW lineage, NEW lent
  PROVE  Rooted(bod, [carried EXCEPT ![s.to.local] = CarriedOn(carried, <<b, i>>, s)], s.to.local,
                Pointer(s.value.kind, Concrete(s.value.place), at, lineage, lent))
<1>. DEFINE p == Pointer(s.value.kind, Concrete(s.value.place), at, lineage, lent)
            place == s.value.place
            y == place.local
            on == CarriedOn(carried, <<b, i>>, s)
            own == Loan(<<b, i>>, s.value.kind, place, s.to.local)
<1>0. s \in StatementsOf(bod) /\ WellFormed(bod) /\ Lowered(bod)
  BY StatementTyped
<1>9. carried = [q \in References |-> carried[q]]
  <2>1. FlowAt(bod, b, i).carried = [q \in References |-> FlowAt(bod, b, i).carried[q]]
    BY FlowBehind
  <2>. QED  BY <2>1
<1>1. s \in StatementsOf(bod) /\ s.to.local \in References /\ Lowered(bod)
  BY <1>0, StatementsTyped
<1>2. p # NoPointer /\ p.kind = s.value.kind /\ p.target = Concrete(place)
  BY NoPointerIs DEF Pointer
<1>3. /\ own \in on /\ own.place = place /\ own.kind = s.value.kind
      /\ y \in References => carried[y] \subseteq on
      /\ IsLoan(own)
  BY DEF CarriedOn, OwnLoan, Loan, IsLoan
<1>4. s.to.local \in Changing(bod) => s.value.kind # "shared"
  BY <1>1 DEF Lowered
<1>5. s.value.kind # "shared" => y \in Changing(bod)
  BY <1>1 DEF Changing
<1>6. y \in References => y \in Alive(bod, b, i)
  <2>1. y \in Reads(s)
    BY <1>1, OperandsRead
  <2>. QED  BY <2>1, AliveUsed
<1>7. [carried EXCEPT ![s.to.local] = on][s.to.local] = on
  BY <1>1, <1>9
<1>. HIDE DEF p, on, own
<1>8. ASSUME p.target.local # Caller
      PROVE  \E loan \in on : /\ IsLoan(loan) /\ loan.place.local = p.target.local /\ loan.place.local \notin References
                              /\ p.kind # "shared" => loan.kind # "shared"
  <2>1. CASE y \notin References
    BY <1>2, <1>3, <2>1, ConcreteOf
  <2>2. CASE y \in References
    <3>1. Rooted(bod, carried, y, pointers[y]) /\ p.target.local = pointers[y].target.local
      BY <1>2, <1>6, <2>2, ConcreteOf DEF RootedAt
    <3>2. PICK loan \in carried[y] : /\ IsLoan(loan) /\ loan.place.local = p.target.local /\ loan.place.local \notin References
                                     /\ pointers[y].kind # "shared" => loan.kind # "shared"
      BY <1>8, <3>1 DEF Rooted
    <3>3. p.kind # "shared" => pointers[y].kind # "shared"
      BY <1>2, <1>5, <3>1 DEF Rooted
    <3>. QED  BY <1>3, <2>2, <3>2, <3>3
  <2>. QED  BY <2>1, <2>2
<1>. QED  BY <1>2, <1>4, <1>7, <1>8 DEF Rooted, p, on

(* What a call returns carries the loans of what the call was lent.        *)
LEMMA LentIsLends ==
  ASSUME NEW bod, NEW s, s.do \in {"assign", "bind"}, s.value.is = "call"
  PROVE  Activated(s.value) = Lends(bod, s)
<1>1. OperandsOf(s) = {s.value.operands[i] : i \in DOMAIN s.value.operands}
  BY DEF OperandsOf
<1>2. {s.value.operands[i] : i \in {j \in DOMAIN s.value.operands : s.value.operands[j].gives = "borrowed"}}
        = {x \in OperandsOf(s) : x.gives = "borrowed"}
  BY <1>1
<1>. QED  BY <1>2 DEF Activated, Lends

LEMMA ReturnedIsRooted ==
  ASSUME NEW bod \in Bodies, MovesAccepted(bod), NEW b \in Reachable(bod), NEW i \in 1 .. Len(bod.statements[b]),
         NEW s, s = bod.statements[b][i], s.do = "bind", s.value.is = "call", RootedAt(bod, b, i, pointers),
         NEW carried, carried = FlowAt(bod, b, i).carried, NEW at, NEW lineage, NEW lent,
         NEW r \in Activated(s.value), pointers[r].kind = "shared" => s.to.local \notin Changing(bod),
         NEW kind, kind = IF pointers[r].kind = "shared" THEN "shared" ELSE "mutable"
  PROVE  Rooted(bod, [carried EXCEPT ![s.to.local] = CarriedOn(carried, <<b, i>>, s)], s.to.local,
                Pointer(kind, pointers[r].target, at, lineage, lent))
<1>. DEFINE p == Pointer(kind, pointers[r].target, at, lineage, lent)
            on == CarriedOn(carried, <<b, i>>, s)
<1>0. s \in StatementsOf(bod) /\ WellFormed(bod) /\ Lowered(bod)
  BY StatementTyped
<1>9. carried = [q \in References |-> carried[q]]
  <2>1. FlowAt(bod, b, i).carried = [q \in References |-> FlowAt(bod, b, i).carried[q]]
    BY FlowBehind
  <2>. QED  BY <2>1
<1>1. s \in StatementsOf(bod) /\ s.to.local \in References
  BY <1>0, StatementsTyped
<1>2. p # NoPointer /\ p.kind = kind /\ p.target = pointers[r].target
  BY NoPointerIs DEF Pointer
<1>3. r \in Lends(bod, s) /\ r \in References /\ r \in Alive(bod, b, i)
  <2>1. r \in Lends(bod, s)
    BY LentIsLends
  <2>2. r \in Reads(s) \cap References
    BY <1>1, <2>1, OperandsRead
  <2>. QED  BY <2>1, <2>2, AliveUsed
<1>4. \A loan \in carried[r] : Active(loan) \in on
  <2>1. PICK o \in OperandsOf(s) : o.gives = "borrowed" /\ r = o.place.local
    BY <1>3 DEF Lends
  <2>2. on = UNION {{Active(loan) : loan \in carried[x.place.local]} : x \in {z \in OperandsOf(s) : z.gives = "borrowed"}}
    BY DEF CarriedOn
  <2>. HIDE DEF on
  <2>. QED  BY <2>1, <2>2
<1>6. Rooted(bod, carried, r, pointers[r])
  BY <1>3 DEF RootedAt
<1>7. [carried EXCEPT ![s.to.local] = on][s.to.local] = on
  BY <1>1, <1>9
<1>8. ASSUME p.target.local # Caller
      PROVE  \E loan \in on : /\ IsLoan(loan) /\ loan.place.local = p.target.local /\ loan.place.local \notin References
                              /\ p.kind # "shared" => loan.kind # "shared"
  <2>1. PICK loan \in carried[r] : /\ IsLoan(loan) /\ loan.place.local = p.target.local /\ loan.place.local \notin References
                                   /\ pointers[r].kind # "shared" => loan.kind # "shared"
    BY <1>2, <1>6, <1>8 DEF Rooted
  <2>2. IsLoan(Active(loan)) /\ Active(loan).place = loan.place /\ (loan.kind # "shared" => Active(loan).kind # "shared")
    BY <2>1, ActiveIs
  <2>3. Active(loan) \in on
    BY <1>4, <2>1
  <2>4. p.kind # "shared" => pointers[r].kind # "shared"
    BY <1>2
  <2>. HIDE DEF p, on
  <2>. QED  BY <2>1, <2>2, <2>3, <2>4
<1>10. s.to.local \in Changing(bod) => p.kind # "shared"
  BY <1>2
<1>. HIDE DEF p, on
<1>. QED  BY <1>2, <1>7, <1>8, <1>10 DEF Rooted, p, on
-----------------------------------------------------------------------------
(* What a statement may change it is known to change; what is known of the *)
(* others stays true, and what the statement teaches is true.              *)
LEMMA ReceiverIsChanged ==
  ASSUME NEW carried, NEW s, s.value.is = "builtin", s.value.place.local \in References,
         NEW n \in Through(carried, s.value.place.local)
  PROVE  n \in ChangedByValue(carried, s)
<1>. DEFINE A == {o.place.local : o \in {x \in OperandsOf(s) : x.gives = "move"}}
                   \cup (UNION {Through(carried, o.place.local) : o \in {x \in OperandsOf(s) : x.gives = "borrowed"}})
            B == IF s.value.is = "builtin" /\ s.value.place.local \in References
                 THEN Through(carried, s.value.place.local) ELSE {}
<1>1. n \in B
  OBVIOUS
<1>2. ChangedByValue(carried, s) = A \cup B
  BY DEF ChangedByValue
<1>. HIDE DEF A, B
<1>. QED  BY <1>1, <1>2

LEMMA LentAreChanged ==
  ASSUME NEW bod \in Bodies, MovesAccepted(bod), NEW b \in Reachable(bod), NEW i \in 1 .. Len(bod.statements[b]),
         NEW s, s = bod.statements[b][i], s.do \in {"assign", "bind"}, RootedAt(bod, b, i, pointers),
         NEW carried, carried = FlowAt(bod, b, i).carried, NEW n \in LentNumbers(s)
  PROVE  n \in ChangedByValue(carried, s)
<1>1. PICK r \in Activated(s.value) \cap References :
        pointers[r].kind # "shared" /\ n = pointers[r].target.local
  BY DEF LentNumbers
<1>2. n \in Numbers /\ n # Caller
  BY LocalsAssumption DEF LentNumbers
<1>3. s \in StatementsOf(bod)
  BY StatementTyped
<1>4. s.value.is \in {"call", "builtin"}
  BY <1>1 DEF Activated
<1>5. /\ s.value.is = "call" => \E o \in OperandsOf(s) : o.gives = "borrowed" /\ r = o.place.local
      /\ s.value.is = "builtin" => r = s.value.place.local
  <2>1. CASE s.value.is = "call"
    <3>1. r \in Lends(bod, s)
      BY <1>1, <2>1, LentIsLends
    <3>. QED  BY <2>1, <3>1 DEF Lends
  <2>2. CASE s.value.is = "builtin"
    BY <1>1, <2>2 DEF Activated
  <2>. QED  BY <1>4, <2>1, <2>2
<1>6. r \in Alive(bod, b, i)
  <2>1. r \in Reads(s) \cap References
    BY <1>1, <1>3, <1>4, <1>5, OperandsRead
  <2>. QED  BY <2>1, AliveUsed
<1>7. n \in Through(carried, r)
  <2>1. Rooted(bod, carried, r, pointers[r])
    BY <1>6 DEF RootedAt
  <2>2. PICK loan \in carried[r] : loan.place.local = n /\ loan.kind # "shared"
    BY <1>1, <1>2, <2>1 DEF Rooted
  <2>. QED  BY <2>2 DEF Through
<1>8. CASE s.value.is = "call"
  <2>1. PICK o \in OperandsOf(s) : o.gives = "borrowed" /\ r = o.place.local
    BY <1>5, <1>8
  <2>2. n \in UNION {Through(carried, x.place.local) : x \in {z \in OperandsOf(s) : z.gives = "borrowed"}}
    BY <1>7, <2>1
  <2>. QED  BY <2>2 DEF ChangedByValue
<1>9. CASE s.value.is = "builtin"
  <2>1. r = s.value.place.local /\ s.value.place.local \in References
    BY <1>1, <1>5, <1>9
  <2>2. n \in Through(carried, s.value.place.local)
    BY <1>7, <2>1
  <2>. QED  BY <1>9, <2>1, <2>2, ReceiverIsChanged
<1>. QED  BY <1>4, <1>8, <1>9

LEMMA TargetIsChanged ==
  ASSUME NEW bod \in Bodies, MovesAccepted(bod), NEW b \in Reachable(bod), NEW i \in 1 .. Len(bod.statements[b]),
         NEW s, s = bod.statements[b][i], s.do = "assign", RootedAt(bod, b, i, pointers),
         NEW carried, carried = FlowAt(bod, b, i).carried, Concrete(s.to).local \in Numbers
  PROVE  Concrete(s.to).local \in ChangedLocals(carried, s)
<1>1. s \in StatementsOf(bod)
  BY StatementTyped
<1>2. CASE s.to.local \notin References
  BY <1>2, ConcreteOf DEF ChangedLocals
<1>3. CASE s.to.local \in References
  <2>. DEFINE r == s.to.local
  <2>1. r \in Alive(bod, b, i)
    <3>1. r \in Changes(s) \cap References
      BY <1>3 DEF Changes, IsWholeLocal
    <3>. QED  BY <3>1, AliveUsed
  <2>2. Rooted(bod, carried, r, pointers[r]) /\ Concrete(s.to).local = pointers[r].target.local
    BY <1>3, <2>1, ConcreteOf DEF RootedAt
  <2>3. r \in Changing(bod)
    BY <1>1 DEF Changing
  <2>4. Concrete(s.to).local # Caller
    BY LocalsAssumption
  <2>5. PICK loan \in carried[r] : loan.place.local = Concrete(s.to).local /\ loan.kind # "shared"
    BY <2>2, <2>3, <2>4 DEF Rooted
  <2>6. Concrete(s.to).local \in Through(carried, r)
    BY <2>5 DEF Through
  <2>. QED  BY <1>3, <2>6 DEF ChangedLocals
<1>. QED  BY <1>2, <1>3

LEMMA KeptIsTrue ==
  ASSUME NEW known, NEW changed, NEW v, NEW w, \A k \in known : True(k, v),
         \A n \in Numbers \ changed : w[n] = v[n]
  PROVE  \A k \in Forget(known, changed) : True(k, w)
<1>. SUFFICES ASSUME NEW k \in Forget(known, changed) PROVE True(k, w)
  OBVIOUS
<1>1. k \in known /\ k[1] \notin changed /\ k[2].reads \cap changed = {}
  BY DEF Forget
<1>2. k[1] \in Numbers /\ IsExpression(k[2]) /\ v[k[1]] = EvaluateIn(v, k[2])
  BY <1>1 DEF True
<1>3. EvaluateIn(v, k[2]) = EvaluateIn(w, k[2])
  BY <1>1, <1>2, SameReads
<1>. QED  BY <1>1, <1>2, <1>3 DEF True

LEMMA KnownOperand ==
  ASSUME NEW o, o.gives # "constant" => IsPath(o.place.path), NEW l \in Temporaries,
         NEW known, \A k \in known : True(k, values) /\ l \notin k[2].reads, NEW e \in Known(o, known)
  PROVE  IsExpression(e) /\ l \notin e.reads /\ Read(o) = EvaluateIn(values, e)
<1>1. CASE o.gives = "constant"
  <2>1. e = ConstantOf(o.constant)
    BY <1>1 DEF Known
  <2>2. Plain(e) /\ e.reads = {}
    BY <2>1, ConstantForm
  <2>. QED  BY <1>1, <2>1, <2>2, PlainIsExpression, PlainEvaluates DEF Read
<1>2. CASE o.gives = "copy" /\ o.place.local \in Temporaries
  <2>1. o.place.path = <<>> /\ e \in Holding(known, o.place.local)
    BY <1>2 DEF Known
  <2>2. PICK k \in known : k[1] = o.place.local /\ e = k[2]
    BY <2>1 DEF Holding
  <2>3. o.place.local \in Numbers /\ IsExpression(e) /\ values[o.place.local] = EvaluateIn(values, e)
    BY <2>2 DEF True
  <2>4. o.place.local \notin References
    BY <2>3, LocalsAssumption
  <2>5. Read(o) = ReadIn(values, o.place)
    BY <1>2, <2>4, ReadOf
  <2>. QED  BY <2>1, <2>2, <2>3, <2>5 DEF ReadIn
<1>3. CASE o.gives = "copy" /\ o.place.local \notin Temporaries
  <2>1. e = CopyOf(o.place) /\ o.place.local \notin References /\ IsPath(o.place.path)
    BY <1>3 DEF Known
  <2>2. Plain(e) /\ e.reads = {o.place.local}
    BY <2>1, CopyForm DEF Plain
  <2>3. Read(o) = ReadIn(values, o.place)
    BY <1>3, <2>1, ReadOf
  <2>. QED  BY <1>3, <2>1, <2>2, <2>3, PlainIsExpression, PlainEvaluates
<1>. QED  BY <1>1, <1>2, <1>3 DEF Known

LEMMA LearnedIsTrue ==
  ASSUME NEW bod \in Bodies, NEW s \in StatementsOf(bod), s.do = "assign", NEW l \in Temporaries,
         NEW known, \A k \in known : True(k, values) /\ l \notin k[2].reads, NEW e \in KnownValue(s.value, known)
  PROVE  /\ s.value.is \in {"use", "binary"}
         /\ IsExpression(e) /\ l \notin e.reads /\ Given(s.value) = {EvaluateIn(values, e)}
<1>1. s.value.is \in {"use", "binary"}
  BY DEF KnownValue
<1>2. ASSUME NEW i \in DOMAIN s.value.operands
      PROVE  s.value.operands[i].gives # "constant" => IsPath(s.value.operands[i].place.path)
  <2>1. s.value.operands[i] \in OperandsOf(s)
    BY DEF OperandsOf
  <2>2. s.value.operands[i].gives # "constant" => s.value.operands[i].place \in UsedPlaces(s)
    BY <2>1, OperandsRead
  <2>. QED  BY <2>2, BodiesTyped, StatementsTyped
<1>3. CASE s.value.is = "use"
  <2>1. 1 \in DOMAIN s.value.operands
    BY <1>3, BodiesTyped DEF Lowered
  <2>2. e \in Known(s.value.operands[1], known)
    BY <1>3 DEF KnownValue
  <2>3. IsExpression(e) /\ l \notin e.reads /\ Read(s.value.operands[1]) = EvaluateIn(values, e)
    BY <1>2, <2>1, <2>2, KnownOperand
  <2>. QED  BY <1>3, <2>3 DEF Given
<1>4. CASE s.value.is = "binary"
  <2>1. 1 \in DOMAIN s.value.operands /\ 2 \in DOMAIN s.value.operands
    BY <1>4, BodiesTyped DEF Lowered
  <2>2. PICK x \in Known(s.value.operands[1], known), y \in Known(s.value.operands[2], known) : e = BinaryOf(x, y)
    BY <1>4 DEF KnownValue
  <2>3. IsExpression(x) /\ l \notin x.reads /\ Read(s.value.operands[1]) = EvaluateIn(values, x)
    BY <1>2, <2>1, KnownOperand
  <2>4. IsExpression(y) /\ l \notin y.reads /\ Read(s.value.operands[2]) = EvaluateIn(values, y)
    BY <1>2, <2>1, KnownOperand
  <2>5. IsExpression(e) /\ EvaluateIn(values, e) = Plus(EvaluateIn(values, x), EvaluateIn(values, y))
    BY <2>2, <2>3, <2>4, BinaryIsExpression, BinaryEvaluates
  <2>6. l \notin e.reads
    BY <2>2, <2>3, <2>4, BinaryForm
  <2>. QED  BY <1>4, <2>3, <2>4, <2>5, <2>6 DEF Given
<1>. QED  BY <1>1, <1>3, <1>4

LEMMA KnownBehind ==
  ASSUME NEW bod \in Bodies, NEW b \in Reachable(bod), NEW i \in 1 .. Len(bod.statements[b])
  PROVE  FlowAt(bod, b, i + 1).known
           = Learn(FlowAt(bod, b, i).known, Wanted(bod), FlowAt(bod, b, i).carried, bod.statements[b][i])
<1>. DEFINE flow == FlowAt(bod, b, i)
            s == bod.statements[b][i]
            next == StepFlow(flow, Wanted(bod), <<b, i>>, s)
<1>1. FlowAt(bod, b, i + 1) = RetainFlow(next, LiveAt(bod, b, i + 1))
  BY FlowSteps
<1>2. next = Flow(next.carried, next.known) /\ next.known = Learn(flow.known, Wanted(bod), flow.carried, s)
  BY StepIsFlow
<1>. HIDE DEF flow, s, next
<1>3. FlowAt(bod, b, i + 1).known = next.known
  BY <1>1, <1>2, RetainKeeps
<1>. QED  BY <1>2, <1>3 DEF flow, s

(* A statement that leaves the numbers alone but for those it may change   *)
(* leaves what is known true, if it teaches nothing or something true.     *)
LEMMA TrueStep ==
  ASSUME NEW bod \in Bodies, NEW b \in Reachable(bod), NEW i \in 1 .. Len(bod.statements[b]),
         NEW s, s = bod.statements[b][i], NEW carried, carried = FlowAt(bod, b, i).carried,
         NEW v, NEW w, TrueAt(bod, b, i, v), \A n \in Numbers \ ChangedLocals(carried, s) : w[n] = v[n],
         s.do = "assign" /\ IsWholeLocal(s.to) /\ s.to.local \in Temporaries \cap Wanted(bod) =>
           \A e \in KnownValue(s.value, Forget(FlowAt(bod, b, i).known, ChangedLocals(carried, s))) :
             True(<<s.to.local, e>>, w)
  PROVE  TrueAt(bod, b, i + 1, w)
<1>. DEFINE known == FlowAt(bod, b, i).known
            kept == Forget(known, ChangedLocals(carried, s))
            after == FlowAt(bod, b, i + 1).known
<1>1. after = Learn(known, Wanted(bod), carried, s)
  BY KnownBehind
<1>2. \A k \in kept : True(k, w)
  <2>1. \A k \in known : True(k, v)
    BY DEF TrueAt
  <2>. HIDE DEF known
  <2>. QED  BY <2>1, KeptIsTrue
<1>3. \/ after = kept
      \/ /\ s.do = "assign" /\ IsWholeLocal(s.to) /\ s.to.local \in Temporaries \cap Wanted(bod)
         /\ after = kept \cup {<<s.to.local, e>> : e \in KnownValue(s.value, kept)}
  BY <1>1 DEF Learn
<1>4. \A k \in after : True(k, w)
  BY <1>2, <1>3
<1>. QED  BY <1>4 DEF TrueAt
-----------------------------------------------------------------------------
(* The inductive invariant: a body that runs has been accepted, and at the *)
(* statement of the source that comes next the references that are alive   *)
(* are rooted in loans and what is known is true.                          *)
Follows(bod, b, o, i, v, ptrs) ==
  /\ b \in Reachable(bod) /\ EmptyArriving(bod, b) # {} /\ FlowArriving(bod, b) # {}
  /\ IsAt(bod, b, o, i)
  /\ AreValues(v) /\ RootedAt(bod, b, o, ptrs) /\ TrueAt(bod, b, o, v)
AtStart ==
  /\ body = source /\ block = 0 /\ index = 1 /\ origin = 1
  /\ \A r \in References \cap Parameters :
       pointers[r] # NoPointer /\ pointers[r].kind = "mutable" /\ pointers[r].target.local = Caller
Accepted ==
  /\ MovesAccepted(source) /\ ~ BorrowVerdict(source).refused
  /\ body = Checked(source) /\ flows = Flows(source)
Inv ==
  /\ source \in Bodies /\ ArePointers(pointers)
  /\ phase = "check" => AtStart
  /\ phase = "run" => Accepted /\ Follows(source, block, origin, index, values, pointers)
  /\ ReturnedPointsOutside

LEMMA InitInv == Init => Inv
<1>. SUFFICES ASSUME Init PROVE Inv
  OBVIOUS
<1>1. /\ source \in Bodies /\ body = source /\ phase = "check" /\ block = 0 /\ index = 1 /\ origin = 1
      /\ pointers = [r \in References |->
           IF r \in Parameters
           THEN Pointer("mutable", Place(Caller, <<<<"field", r>>>>), AtEntry(r), {}, {}) ELSE NoPointer]
  BY DEF Init
<1>2. ASSUME NEW r \in References PROVE IsPointer(pointers[r])
  <2>1. IsPointer(NoPointer)
    BY DEF IsPointer
  <2>2. \A t, a : IsPointer(Pointer("mutable", t, a, {}, {}))
    BY PointerIs
  <2>. QED  BY <1>1, <2>1, <2>2
<1>3. ArePointers(pointers)
  BY <1>1, <1>2 DEF ArePointers
<1>4. ASSUME NEW r \in References \cap Parameters
      PROVE  pointers[r] # NoPointer /\ pointers[r].kind = "mutable" /\ pointers[r].target.local = Caller
  <2>1. pointers[r] = Pointer("mutable", Place(Caller, <<<<"field", r>>>>), AtEntry(r), {}, {})
    BY <1>1, <1>4
  <2>2. Place(Caller, <<<<"field", r>>>>).local = Caller
    BY DEF Place
  <2>3. \A t, a : /\ Pointer("mutable", t, a, {}, {}) # NoPointer /\ Pointer("mutable", t, a, {}, {}).kind = "mutable"
                  /\ Pointer("mutable", t, a, {}, {}).target = t
    BY NoPointerIs DEF Pointer
  <2>. QED  BY <2>1, <2>2, <2>3
<1>. QED  BY <1>1, <1>3, <1>4 DEF Inv, AtStart, ReturnedPointsOutside

LEMMA CheckInv == Inv /\ Check => Inv'
<1>. SUFFICES ASSUME Inv, Check PROVE Inv'
  OBVIOUS
<1>1. /\ source \in Bodies /\ ArePointers(pointers) /\ AtStart
      /\ source' = source /\ pointers' = pointers /\ block' = 0 /\ index' = 1 /\ origin' = 1
  BY DEF Inv, Check, AtStart
<1>2. CASE ~ (MovesAccepted(body) /\ ~ BorrowVerdict(body).refused)
  <2>1. phase' = "rejected"
    BY <1>2 DEF Check
  <2>. QED  BY <1>1, <2>1 DEF Inv, ReturnedPointsOutside
<1>3. CASE MovesAccepted(body) /\ ~ BorrowVerdict(body).refused
  <2>1. phase' = "run" /\ body' = InsertChecks(body, BorrowVerdict(body).checks) /\ flows' = Flows(body) /\ values' \in Inputs
    BY <1>3 DEF Check
  <2>2. Accepted'
    BY <1>1, <1>3, <2>1 DEF Accepted, Checked, Asked, AtStart
  <2>3. /\ 0 \in Reachable(source) /\ 0 \in Blocks(source) /\ EmptyArriving(source, 0) # {} /\ FlowArriving(source, 0) # {}
        /\ IsAt(source, 0, 1, 1)
    BY <1>1, BodiesTyped, ReachableTyped, AliveEntry, FlowEntry, AtEntryOf
  <2>4. AreValues(values')
    BY <2>1, InputsAssumption DEF AreValues
  <2>5. RootedAt(source, 0, 1, pointers)
    <3>1. ASSUME NEW r \in Alive(source, 0, 1) PROVE Rooted(source, FlowAt(source, 0, 1).carried, r, pointers[r])
      <4>1. r \in References \cap Parameters
        BY <1>1, AliveEntry DEF Alive
      <4>2. pointers[r] # NoPointer /\ pointers[r].kind = "mutable" /\ pointers[r].target.local = Caller
        BY <1>1, <4>1 DEF AtStart
      <4>. QED  BY <4>2 DEF Rooted
    <3>. QED  BY <3>1 DEF RootedAt
  <2>6. TrueAt(source, 0, 1, values')
    BY <1>1, FlowEntry DEF TrueAt
  <2>7. Follows(source, 0, 1, 1, values', pointers)
    BY <2>3, <2>4, <2>5, <2>6 DEF Follows
  <2>. QED  BY <1>1, <2>1, <2>2, <2>7 DEF Inv, ReturnedPointsOutside
<1>. QED  BY <1>2, <1>3

(* What a step at a statement of the source has to show.                   *)
LEMMA StatementInv ==
  ASSUME Inv, AtStatement, Statement.do # "distinct", NEW s, s = Statement
  PROVE  /\ source \in Bodies /\ MovesAccepted(source) /\ block \in Reachable(source)
         /\ origin \in 1 .. Len(source.statements[block]) /\ s = source.statements[block][origin]
         /\ ArePointers(pointers) /\ AreValues(values)
         /\ RootedAt(source, block, origin, pointers) /\ TrueAt(source, block, origin, values)
         /\ Proceed /\ ArePointers(pointers') /\ AreValues(values') /\ RootedAt(source, block, origin + 1, pointers')
              /\ TrueAt(source, block, origin + 1, values') => Inv'
<1>1. /\ source \in Bodies /\ ArePointers(pointers) /\ phase = "run" /\ Accepted
      /\ Follows(source, block, origin, index, values, pointers)
  BY DEF Inv, AtStatement, Running
<1>2. block \in Reachable(source) /\ block \in Blocks(source) /\ IsAt(source, block, origin, index)
  BY <1>1, BodiesTyped DEF Follows
<1>3. s = Checked(source).statements[block][index] /\ index <= Len(Checked(source).statements[block])
  BY <1>1 DEF AtStatement, Statement, Accepted
<1>4. /\ origin \in 1 .. Len(source.statements[block]) /\ s = source.statements[block][origin]
      /\ IsAt(source, block, origin + 1, index + 1)
  <2>1. Checked(source).statements[block][index].do # "distinct"
    BY <1>3
  <2>2. source \in Bodies /\ block \in Blocks(source) /\ IsAt(source, block, origin, index)
    BY <1>1, <1>2
  <2>. QED  BY <1>3, <2>1, <2>2, AtStatementOf
<1>5. ASSUME Proceed, ArePointers(pointers'), AreValues(values'), RootedAt(source, block, origin + 1, pointers'),
             TrueAt(source, block, origin + 1, values')
      PROVE  Inv'
  <2>1. /\ source' = source /\ flows' = flows /\ phase' = "run" /\ block' = block /\ body' = body
        /\ index' = index + 1 /\ origin' = origin + 1
    BY <1>1, <1>5 DEF Proceed, Advance
  <2>2. Accepted'
    BY <1>1, <2>1 DEF Accepted
  <2>3. Follows(source, block, origin + 1, index + 1, values', pointers')
    BY <1>1, <1>2, <1>4, <1>5 DEF Follows
  <2>. QED  BY <1>1, <1>5, <2>1, <2>2, <2>3 DEF Inv, ReturnedPointsOutside
<1>6. AreValues(values) /\ RootedAt(source, block, origin, pointers) /\ TrueAt(source, block, origin, values)
  BY <1>1 DEF Follows
<1>7. MovesAccepted(source)
  BY <1>1 DEF Accepted
<1>. QED  BY <1>1, <1>2, <1>4, <1>5, <1>6, <1>7

(* What a call leaves in the numbers.                                      *)
LEMMA CalledKeeps ==
  ASSUME NEW s, AreValues(values), NEW v \in Called(s)
  PROVE  AreValues(v) /\ \A n \in Numbers \ LentNumbers(s) : v[n] = values[n]
  BY DEF Called, AreValues

LEMMA AssignInv == Inv /\ AssignStep => Inv'
<1>. SUFFICES ASSUME Inv, AssignStep PROVE Inv'
  OBVIOUS
<1>. DEFINE s == Statement
            carried == FlowAt(source, block, origin).carried
            known == FlowAt(source, block, origin).known
            to == Concrete(s.to)
            changed == ChangedLocals(carried, s)
<1>1. AtStatement /\ s.do = "assign" /\ Proceed /\ pointers' = Remaining(s)
  BY DEF AssignStep
<1>2. /\ source \in Bodies /\ MovesAccepted(source) /\ block \in Reachable(source)
      /\ origin \in 1 .. Len(source.statements[block]) /\ s = source.statements[block][origin]
      /\ ArePointers(pointers) /\ AreValues(values)
      /\ RootedAt(source, block, origin, pointers) /\ TrueAt(source, block, origin, values)
      /\ Proceed /\ ArePointers(pointers') /\ AreValues(values') /\ RootedAt(source, block, origin + 1, pointers')
           /\ TrueAt(source, block, origin + 1, values') => Inv'
  BY <1>1, StatementInv
<1>3. ArePointers(pointers') /\ RootedAt(source, block, origin + 1, pointers')
  BY <1>1, <1>2, RemainingKeeps, RootedStep
<1>4. PICK after \in Called(s) :
        IF to.path = <<>> /\ to.local \in Numbers
        THEN \E given \in Given(s.value) : values' = [after EXCEPT ![to.local] = given]
        ELSE values' = after
  BY DEF AssignStep
<1>5. AreValues(after) /\ \A n \in Numbers \ LentNumbers(s) : after[n] = values[n]
  BY <1>2, CalledKeeps
<1>6. \A n \in Numbers \ changed : after[n] = values[n]
  <2>1. \A n \in LentNumbers(s) : n \in ChangedByValue(carried, s)
    BY <1>1, <1>2, LentAreChanged
  <2>2. ChangedByValue(carried, s) \subseteq changed
    BY <1>1 DEF ChangedLocals
  <2>. QED  BY <1>5, <2>1, <2>2
<1>7. to.local \in Numbers => to.local \in changed
  BY <1>1, <1>2, TargetIsChanged
<1>8. s \in StatementsOf(source)
  BY <1>2, StatementTyped
<1>. HIDE DEF s, to, carried, known, changed
<1>9. AreValues(values') /\ \A n \in Numbers \ changed : values'[n] = values[n]
  BY <1>4, <1>5, <1>6, <1>7 DEF AreValues
<1>10. ASSUME IsWholeLocal(s.to), s.to.local \in Temporaries \cap Wanted(source), NEW e \in KnownValue(s.value, Forget(known, changed))
       PROVE  True(<<s.to.local, e>>, values')
  <2>. DEFINE l == s.to.local
              kept == Forget(known, changed)
  <2>1. l \in Temporaries /\ l \in Numbers /\ l \notin References /\ s.to.path = <<>>
    BY <1>2, <1>10, BodiesTyped DEF IsWholeLocal, Lowered
  <2>2. to.path = <<>> /\ to.local = l
    <3>1. IsPath(s.to.path)
      BY <1>1, <1>2, <1>8, BodiesTyped, StatementsTyped DEF s
    <3>. QED  BY <2>1, <3>1, ConcreteOf DEF to
  <2>3. l \in changed
    BY <1>7, <2>1, <2>2
  <2>4. \A k \in kept : True(k, values) /\ l \notin k[2].reads
    <3>1. \A k \in known : True(k, values)
      BY <1>2 DEF TrueAt, known
    <3>. QED  BY <2>3, <3>1 DEF Forget
  <2>. HIDE DEF l, kept
  <2>5. /\ s.value.is \in {"use", "binary"}
        /\ IsExpression(e) /\ l \notin e.reads /\ Given(s.value) = {EvaluateIn(values, e)}
    <3>1. e \in KnownValue(s.value, kept)
      BY <1>10 DEF kept
    <3>2. source \in Bodies /\ s \in StatementsOf(source) /\ s.do = "assign" /\ l \in Temporaries
      BY <1>1, <1>2, <1>8, <2>1
    <3>. QED  BY <2>4, <3>1, <3>2, LearnedIsTrue
  <2>6. LentNumbers(s) = {}
    BY <2>5 DEF LentNumbers, Activated
  <2>7. values' = [after EXCEPT ![l] = EvaluateIn(values, e)]
    BY <1>4, <2>1, <2>2, <2>5
  <2>8. values'[l] = EvaluateIn(values, e) /\ \A n \in Numbers : n # l => values'[n] = values[n]
    BY <1>5, <2>1, <2>6, <2>7 DEF AreValues
  <2>9. EvaluateIn(values, e) = EvaluateIn(values', e)
    BY <2>5, <2>8, SameReads
  <2>. QED  BY <2>1, <2>5, <2>8, <2>9 DEF True, l
<1>11. TrueAt(source, block, origin + 1, values')
  BY <1>2, <1>9, <1>10, TrueStep DEF s, carried, known, changed
<1>. QED  BY <1>1, <1>2, <1>3, <1>9, <1>11

LEMMA BorrowInv == Inv /\ BorrowStep => Inv'
<1>. SUFFICES ASSUME Inv, BorrowStep PROVE Inv'
  OBVIOUS
<1>. DEFINE s == Statement
            carried == FlowAt(source, block, origin).carried
            place == s.value.place
            at == Binding(s.to.local)
            lineage == LineageOf(place)
            lent == LentBy(place) \cup
                      {Lent(Loan(<<block, origin>>, s.value.kind, place, s.to.local), Base(place.local), Concrete(place), at)}
            p == Pointer(s.value.kind, Concrete(place), at, lineage, lent)
<1>1. AtStatement /\ s.do = "bind" /\ s.value.is = "ref" /\ Proceed /\ values' = values
      /\ pointers' = [Remaining(s) EXCEPT ![s.to.local] = p]
  BY DEF BorrowStep
<1>2. /\ source \in Bodies /\ MovesAccepted(source) /\ block \in Reachable(source)
      /\ origin \in 1 .. Len(source.statements[block]) /\ s = source.statements[block][origin]
      /\ ArePointers(pointers) /\ AreValues(values)
      /\ RootedAt(source, block, origin, pointers) /\ TrueAt(source, block, origin, values)
      /\ Proceed /\ ArePointers(pointers') /\ AreValues(values') /\ RootedAt(source, block, origin + 1, pointers')
           /\ TrueAt(source, block, origin + 1, values') => Inv'
  BY <1>1, StatementInv
<1>. HIDE DEF s, carried, at, lineage, lent
<1>3. IsPointer(p)
  BY PointerIs
<1>4. Rooted(source, [carried EXCEPT ![s.to.local] = CarriedOn(carried, <<block, origin>>, s)], s.to.local, p)
  BY <1>1, <1>2, BorrowIsRooted DEF carried
<1>. HIDE DEF p
<1>5. ArePointers(pointers') /\ RootedAt(source, block, origin + 1, pointers')
  BY <1>1, <1>2, <1>3, <1>4, RootedBind DEF carried
<1>6. TrueAt(source, block, origin + 1, values')
  BY <1>1, <1>2, TrueStep DEF carried
<1>. QED  BY <1>1, <1>2, <1>5, <1>6

LEMMA CallInv == Inv /\ CallStep => Inv'
<1>. SUFFICES ASSUME Inv, CallStep PROVE Inv'
  OBVIOUS
<1>. DEFINE s == Statement
            to == s.to.local
            carried == FlowAt(source, block, origin).carried
            lent == {Activate(x) : x \in UNION {pointers[q].lent : q \in Activated(s.value)}}
<1>1. AtStatement /\ s.do = "bind" /\ s.value.is = "call" /\ Proceed /\ values' \in Called(s)
  BY DEF CallStep
<1>2. PICK r \in Activated(s.value) :
        /\ pointers[r].kind = "shared" => to \notin Changing(source)
        /\ pointers' = [Remaining(s) EXCEPT ![to] =
             Pointer(IF pointers[r].kind = "shared" THEN "shared" ELSE "mutable",
                     pointers[r].target, Binding(to), pointers[r].lineage, lent)]
  BY DEF CallStep
<1>. DEFINE kind == IF pointers[r].kind = "shared" THEN "shared" ELSE "mutable"
            p == Pointer(kind, pointers[r].target, Binding(to), pointers[r].lineage, lent)
<1>3. /\ source \in Bodies /\ MovesAccepted(source) /\ block \in Reachable(source)
      /\ origin \in 1 .. Len(source.statements[block]) /\ s = source.statements[block][origin]
      /\ ArePointers(pointers) /\ AreValues(values)
      /\ RootedAt(source, block, origin, pointers) /\ TrueAt(source, block, origin, values)
      /\ Proceed /\ ArePointers(pointers') /\ AreValues(values') /\ RootedAt(source, block, origin + 1, pointers')
           /\ TrueAt(source, block, origin + 1, values') => Inv'
  BY <1>1, StatementInv
<1>. HIDE DEF s, carried, lent, kind
<1>4. IsPointer(p) /\ pointers' = [Remaining(s) EXCEPT ![s.to.local] = p]
  BY <1>2, PointerIs DEF kind
<1>5. Rooted(source, [carried EXCEPT ![s.to.local] = CarriedOn(carried, <<block, origin>>, s)], s.to.local, p)
  BY <1>1, <1>2, <1>3, ReturnedIsRooted DEF carried, kind
<1>. HIDE DEF p
<1>6. ArePointers(pointers') /\ RootedAt(source, block, origin + 1, pointers')
  BY <1>1, <1>3, <1>4, <1>5, RootedBind DEF carried
<1>7. AreValues(values') /\ \A n \in Numbers \ LentNumbers(s) : values'[n] = values[n]
  BY <1>1, <1>3, CalledKeeps
<1>8. \A n \in Numbers \ ChangedLocals(carried, s) : values'[n] = values[n]
  <2>1. \A n \in LentNumbers(s) : n \in ChangedByValue(carried, s)
    BY <1>1, <1>3, LentAreChanged DEF carried
  <2>. QED  BY <1>1, <1>7, <2>1 DEF ChangedLocals
<1>9. TrueAt(source, block, origin + 1, values')
  BY <1>1, <1>3, <1>8, TrueStep DEF carried
<1>. QED  BY <1>1, <1>3, <1>6, <1>7, <1>9

LEMMA EndInv == Inv /\ EndStep => Inv'
<1>. SUFFICES ASSUME Inv, EndStep PROVE Inv'
  OBVIOUS
<1>. DEFINE s == Statement
            carried == FlowAt(source, block, origin).carried
<1>1. AtStatement /\ s.do \in {"unpack", "release", "keep"} /\ Proceed /\ values' = values /\ pointers' = Remaining(s)
  BY DEF EndStep
<1>2. /\ source \in Bodies /\ MovesAccepted(source) /\ block \in Reachable(source)
      /\ origin \in 1 .. Len(source.statements[block]) /\ s = source.statements[block][origin]
      /\ ArePointers(pointers) /\ AreValues(values)
      /\ RootedAt(source, block, origin, pointers) /\ TrueAt(source, block, origin, values)
      /\ Proceed /\ ArePointers(pointers') /\ AreValues(values') /\ RootedAt(source, block, origin + 1, pointers')
           /\ TrueAt(source, block, origin + 1, values') => Inv'
  BY <1>1, StatementInv
<1>. HIDE DEF s, carried
<1>3. ArePointers(pointers') /\ RootedAt(source, block, origin + 1, pointers')
  BY <1>1, <1>2, RemainingKeeps, RootedStep
<1>4. TrueAt(source, block, origin + 1, values')
  BY <1>1, <1>2, TrueStep DEF carried
<1>. QED  BY <1>1, <1>2, <1>3, <1>4

(* A check stays at the statement it is for.                               *)
LEMMA DistinctInv == Inv /\ DistinctStep => Inv'
<1>. SUFFICES ASSUME Inv, DistinctStep PROVE Inv'
  OBVIOUS
<1>1. /\ source \in Bodies /\ ArePointers(pointers) /\ phase = "run" /\ Accepted
      /\ Follows(source, block, origin, index, values, pointers)
      /\ index <= Len(Checked(source).statements[block])
      /\ Checked(source).statements[block][index].do = "distinct"
      /\ source' = source /\ origin' = origin /\ values' = values /\ pointers' = pointers
  BY DEF Inv, DistinctStep, AtStatement, Running, Statement, Accepted, Advance
<1>2. CASE phase' = "panicked"
  BY <1>1, <1>2 DEF Inv, ReturnedPointsOutside
<1>3. CASE Advance
  <2>1. /\ body' = body /\ flows' = flows /\ phase' = "run" /\ block' = block /\ index' = index + 1
    BY <1>1, <1>3 DEF Advance
  <2>2. IsAt(source, block, origin, index + 1)
    <3>1. block \in Blocks(source) /\ IsAt(source, block, origin, index)
      BY <1>1, BodiesTyped DEF Follows
    <3>. QED  BY <1>1, <3>1, AtStatementOf
  <2>3. Follows(source, block, origin, index + 1, values, pointers) /\ Accepted'
    BY <1>1, <2>1, <2>2 DEF Follows, Accepted
  <2>. QED  BY <1>1, <2>1, <2>3 DEF Inv, ReturnedPointsOutside
<1>. QED  BY <1>2, <1>3 DEF DistinctStep

(* Along an edge references die, loans are added, and nothing is learned.  *)
LEMMA JumpInv == Inv /\ Jump => Inv'
<1>. SUFFICES ASSUME Inv, Jump PROVE Inv'
  OBVIOUS
<1>1. /\ source \in Bodies /\ ArePointers(pointers) /\ phase = "run" /\ Accepted
      /\ Follows(source, block, origin, index, values, pointers)
      /\ index = Len(Checked(source).statements[block]) + 1
      /\ source' = source /\ body' = body /\ flows' = flows /\ phase' = "run" /\ values' = values /\ pointers' = pointers
      /\ index' = 1 /\ origin' = 1
  BY DEF Inv, Jump, AtTerminator, Running, Accepted
<1>2. /\ block \in Reachable(source) /\ block \in Blocks(source)
      /\ EmptyArriving(source, block) # {} /\ FlowArriving(source, block) # {} /\ origin = End(source, block)
  BY <1>1, BodiesTyped, AtEndOf DEF Follows
<1>. DEFINE c == block'
<1>3. c \in Successors(source, block)
  <2>1. body.terminators = source.terminators
    BY <1>1, <1>2, PlacesWoven DEF Accepted
  <2>. QED  BY <2>1 DEF Jump, Terminator, Successors
<1>. HIDE DEF c
<1>4. /\ Alive(source, c, 1) \subseteq Alive(source, block, origin)
      /\ c \in Reachable(source) /\ EmptyArriving(source, c) # {} /\ FlowArriving(source, c) # {}
      /\ FlowAt(source, c, 1).known \subseteq FlowAt(source, block, origin).known
      /\ \A r \in LiveAt(source, c, 1) \cap References :
           FlowAt(source, block, origin).carried[r] \subseteq FlowAt(source, c, 1).carried[r]
  BY <1>1, <1>2, <1>3, AliveEdge, FlowEdge
<1>5. IsAt(source, c, 1, 1)
  BY <1>1, <1>4, BodiesTyped, AtEntryOf
<1>6. RootedAt(source, c, 1, pointers)
  <2>1. ASSUME NEW r \in Alive(source, c, 1) PROVE Rooted(source, FlowAt(source, c, 1).carried, r, pointers[r])
    <3>1. Rooted(source, FlowAt(source, block, origin).carried, r, pointers[r])
      BY <1>1, <1>4 DEF Follows, RootedAt
    <3>2. FlowAt(source, block, origin).carried[r] \subseteq FlowAt(source, c, 1).carried[r]
      BY <1>4 DEF Alive
    <3>. QED  BY <3>1, <3>2 DEF Rooted
  <2>. QED  BY <2>1 DEF RootedAt
<1>7. TrueAt(source, c, 1, values)
  BY <1>1, <1>4 DEF Follows, TrueAt
<1>8. Follows(source, c, 1, 1, values, pointers) /\ Accepted'
  BY <1>1, <1>4, <1>5, <1>6, <1>7 DEF Follows, Accepted
<1>. QED  BY <1>1, <1>8 DEF Inv, ReturnedPointsOutside, c

(* What is returned is alive, and what it carries has been checked.        *)
LEMMA ReturnInv == Inv /\ ReturnStep => Inv'
<1>. SUFFICES ASSUME Inv, ReturnStep PROVE Inv'
  OBVIOUS
<1>1. /\ source \in Bodies /\ ArePointers(pointers) /\ phase = "run" /\ Accepted
      /\ Follows(source, block, origin, index, values, pointers)
      /\ index = Len(Checked(source).statements[block]) + 1 /\ body.terminators[block].go = "return"
      /\ source' = source /\ phase' = "returned" /\ pointers' = pointers
  BY DEF Inv, ReturnStep, AtTerminator, Running, Accepted, Terminator
<1>2. /\ block \in Reachable(source) /\ block \in Blocks(source) /\ origin = End(source, block)
      /\ source.terminators[block].go = "return"
  BY <1>1, BodiesTyped, AtEndOf, PlacesWoven DEF Follows, Accepted
<1>3. ASSUME Result \in References PROVE pointers[Result].target.local = Caller
  <2>1. Whole(Result) \in source.terminators[block].reads
    BY <1>1, <1>2, BodiesTyped DEF Lowered
  <2>2. Result \in LocalsOf(source.terminators[block].reads)
    BY <2>1 DEF LocalsOf, Whole, Place
  <2>3. Result \in Alive(source, block, origin)
    BY <1>1, <1>2, <1>3, <2>2, AliveEnd DEF Accepted
  <2>4. Rooted(source, FlowAt(source, block, origin).carried, Result, pointers[Result])
    BY <1>1, <2>3 DEF Follows, RootedAt
  <2>5. \A loan \in FlowAt(source, block, origin).carried[Result] : loan.place.local \in References
    BY <1>1, <1>2, <1>3, ReturnsChecked DEF Accepted
  <2>. QED  BY <2>4, <2>5 DEF Rooted
<1>. QED  BY <1>1, <1>3 DEF Inv, ReturnedPointsOutside

LEMMA StepInv == Inv /\ [Next]_vars => Inv'
<1>1. ASSUME Inv, UNCHANGED vars PROVE Inv'
  <2>1. /\ body' = body /\ source' = source /\ flows' = flows /\ phase' = phase /\ block' = block /\ index' = index
        /\ origin' = origin /\ values' = values /\ pointers' = pointers
    BY <1>1 DEF vars, run
  <2>. QED  BY <1>1, <2>1 DEF Inv, AtStart, Accepted, ReturnedPointsOutside
<1>. QED  BY <1>1, CheckInv, AssignInv, BorrowInv, CallInv, EndInv, DistinctInv, JumpInv, ReturnInv DEF Next

(* The invariant of every body that runs: the check, continued from the    *)
(* start of the block to each statement, is on the safe side of what the   *)
(* numbers hold and the references point at.                               *)
THEOREM InvHolds == Spec => []Inv
<1>. QED  BY InitInv, StepInv, PTL DEF Spec

(* What the check knows a temporary to hold, by the values of others, it   *)
(* holds when the body runs (values.rs: two places of equal indices are    *)
(* taken as one, and of other constants as apart).                         *)
THEOREM KnownIsTrueHolds == Spec => []KnownIsTrue
<1>1. Inv => KnownIsTrue
  <2>. SUFFICES ASSUME Inv, phase = "run", NEW k \in flows[block][origin].known
                PROVE  values[k[1]] = Evaluate(k[2])
    BY DEF KnownIsTrue
  <2>1. k \in FlowAt(source, block, origin).known /\ TrueAt(source, block, origin, values)
    BY DEF Inv, Accepted, Follows, FlowAt
  <2>2. IsExpression(k[2]) /\ values[k[1]] = EvaluateIn(values, k[2])
    BY <2>1 DEF TrueAt, True
  <2>. QED  BY <2>2, EvaluateIsIn
<1>. QED  BY <1>1, InvHolds, PTL

(* A body that is accepted returns no borrow of what ends with it          *)
(* (loans.rs, the check at each return).                                   *)
THEOREM ReturnedPointsOutsideHolds == Spec => []ReturnedPointsOutside
<1>1. Inv => ReturnedPointsOutside
  BY DEF Inv
<1>. QED  BY <1>1, InvHolds, PTL
-----------------------------------------------------------------------------
(* The storage that places reach, and whether two of them meet.            *)
StepIn(v, step) ==
  CASE Indexed(step) -> <<"element", v[step[2]]>>
    [] step[1] = "constant" -> <<"element", step[2]>>
    [] OTHER -> step
PathIn(v, path) == [i \in DOMAIN path |-> StepIn(v, path[i])]
BehindIn(v, base, path) == Place(base.target.local, base.target.path \o PathIn(v, path))

LEMMA BehindIs == \A base, path : Behind(base, path) = BehindIn(values, base, path)
  BY DEF Behind, BehindIn, PathIn, StepIn, Element

LEMMA PathInIs ==
  ASSUME NEW v, NEW path, IsPath(path)
  PROVE  /\ IsPath(PathIn(v, path)) /\ Len(PathIn(v, path)) = Len(path)
         /\ \A i \in 1 .. Len(path) : PathIn(v, path)[i] = StepIn(v, path[i])
<1>. DEFINE S == ToSet(path)
            T == {StepIn(v, x) : x \in S}
            g == PathIn(v, path)
<1>1. path \in Seq(S)
  BY DEF IsPath
<1>2. Len(path) \in Nat /\ DOMAIN path = 1 .. Len(path) /\ \A i \in 1 .. Len(path) : path[i] \in S
  BY <1>1
<1>3. g \in [1 .. Len(path) -> T] /\ \A i \in 1 .. Len(path) : g[i] = StepIn(v, path[i])
  BY <1>2 DEF PathIn
<1>. HIDE DEF S, T, g
<1>4. g \in Seq(T) /\ Len(g) = Len(path)
  BY <1>2, <1>3
<1>5. \A i \in 1 .. Len(g) : g[i] \in ToSet(g)
  BY <1>4 DEF ToSet
<1>6. g \in Seq(ToSet(g))
  BY <1>2, <1>4, <1>5
<1>. QED  BY <1>3, <1>4, <1>6 DEF g, IsPath

(* A path behind a path.                                                   *)
LEMMA JoinedIs ==
  ASSUME NEW s, NEW t, IsPath(s), IsPath(t)
  PROVE  /\ IsPath(s \o t) /\ Len(s \o t) = Len(s) + Len(t)
         /\ \A i \in 1 .. Len(s) : (s \o t)[i] = s[i]
         /\ \A i \in 1 .. Len(t) : (s \o t)[Len(s) + i] = t[i]
<1>. DEFINE S == ToSet(s) \cup ToSet(t)
            u == s \o t
<1>1. s \in Seq(S) /\ t \in Seq(S)
  BY SeqMonotonic DEF IsPath
<1>. HIDE DEF S
<1>2. u \in Seq(S) /\ Len(u) = Len(s) + Len(t) /\ Len(s) \in Nat /\ Len(t) \in Nat
  BY <1>1
<1>3. \A i \in 1 .. Len(s) : u[i] = s[i]
  BY <1>1, <1>2
<1>4. \A i \in 1 .. Len(t) : u[Len(s) + i] = t[i]
  BY <1>1, <1>2
<1>. HIDE DEF u
<1>5. \A i \in 1 .. Len(u) : u[i] \in ToSet(u)
  BY <1>2 DEF ToSet
<1>6. u \in Seq(ToSet(u))
  BY <1>2, <1>5
<1>. QED  BY <1>2, <1>3, <1>4, <1>6 DEF u, IsPath

IsPlace(place) == place = Place(place.local, place.path) /\ IsPath(place.path)
LEMMA BehindIsPlace ==
  ASSUME NEW v, NEW base, NEW path, IsPath(path), IsPath(base.target.path)
  PROVE  /\ IsPlace(BehindIn(v, base, path)) /\ BehindIn(v, base, path).local = base.target.local
         /\ Covers(base.target, BehindIn(v, base, path))
<1>. DEFINE p == BehindIn(v, base, path)
            t == base.target
<1>1. p = Place(t.local, t.path \o PathIn(v, path))
  BY DEF BehindIn
<1>2. p.local = t.local /\ p.path = t.path \o PathIn(v, path) /\ p = Place(p.local, p.path)
  BY <1>1 DEF Place
<1>3. /\ IsPath(p.path) /\ Len(p.path) = Len(t.path) + Len(PathIn(v, path)) /\ Len(PathIn(v, path)) \in Nat
      /\ \A i \in 1 .. Len(t.path) : p.path[i] = t.path[i]
  BY <1>2, PathInIs, JoinedIs, PathLen
<1>. HIDE DEF p
<1>4. IsPrefix(t.path, p.path)
  BY <1>3, PrefixMeans, PathLen
<1>. QED  BY <1>2, <1>3, <1>4 DEF Covers, IsPlace, p

(* Behind the same base, places part where their steps do.                 *)
LEMMA PartedIs ==
  ASSUME NEW v, NEW base, NEW s, NEW t, IsPath(s), IsPath(t), IsPath(base.target.path),
         NEW i \in 1 .. Len(s), i <= Len(t), StepIn(v, s[i]) # StepIn(v, t[i])
  PROVE  ~ Meet(BehindIn(v, base, s), BehindIn(v, base, t))
<1>. DEFINE p == BehindIn(v, base, s).path
            q == BehindIn(v, base, t).path
            f == PathIn(v, s)
            g == PathIn(v, t)
            n == Len(base.target.path)
<1>1. n \in Nat /\ Len(s) \in Nat /\ Len(t) \in Nat /\ i \in 1 .. Len(t)
  BY PathLen
<1>2. /\ IsPath(f) /\ Len(f) = Len(s) /\ f[i] = StepIn(v, s[i])
      /\ IsPath(g) /\ Len(g) = Len(t) /\ g[i] = StepIn(v, t[i])
  BY <1>1, PathInIs
<1>3. p = base.target.path \o f /\ q = base.target.path \o g
  BY DEF BehindIn, Place
<1>. HIDE DEF f, g, p, q
<1>9. i \in 1 .. Len(f) /\ i \in 1 .. Len(g)
  BY <1>1, <1>2
<1>7. /\ IsPath(base.target.path \o f) /\ Len(base.target.path \o f) = n + Len(f) /\ (base.target.path \o f)[n + i] = f[i]
  BY <1>2, <1>9, JoinedIs
<1>8. /\ IsPath(base.target.path \o g) /\ Len(base.target.path \o g) = n + Len(g) /\ (base.target.path \o g)[n + i] = g[i]
  BY <1>2, <1>9, JoinedIs
<1>. HIDE DEF n
<1>4. /\ IsPath(p) /\ Len(p) = n + Len(s) /\ p[n + i] = f[i]
      /\ IsPath(q) /\ Len(q) = n + Len(t) /\ q[n + i] = g[i]
  BY <1>2, <1>3, <1>7, <1>8
<1>5. n + i \in 1 .. Len(p) /\ n + i \in 1 .. Len(q) /\ p[n + i] # q[n + i]
  BY <1>1, <1>2, <1>4
<1>6. ~ IsPrefix(p, q) /\ ~ IsPrefix(q, p)
  BY <1>4, <1>5, PrefixMeans
<1>. QED  BY <1>6 DEF Meet, Covers, p, q

(* Meeting, from one place to those that it covers and that cover it.      *)
LEMMA MeetDown ==
  ASSUME NEW p, NEW q, NEW r, IsPath(p.path), IsPath(q.path), IsPath(r.path), Covers(p, q), Meet(q, r)
  PROVE  Meet(p, r) /\ Meet(r, p)
<1>1. CASE Covers(q, r)
  BY <1>1, CoversTransitive DEF Meet
<1>2. CASE Covers(r, q)
  BY <1>2, CoversComparable DEF Meet
<1>. QED  BY <1>1, <1>2 DEF Meet

LEMMA MeetSame == \A p, q : Meet(p, q) <=> Meet(q, p)
  BY DEF Meet
-----------------------------------------------------------------------------
(* What the checks have passed: an index as an operand gives it, and pairs *)
(* of indices that are all the same.                                       *)
IndexIn(v, o) == IF o.gives = "constant" THEN o.constant ELSE v[o.place.local]
AllEqualIn(v, pairs) == \A i \in DOMAIN pairs : IndexIn(v, pairs[i][1]) = IndexIn(v, pairs[i][2])
PassedAt(bod, b, i, v) ==
  \A check \in Asked(bod) : check.block = b /\ check.index = i => ~ AllEqualIn(v, check.pairs)
PassedUpTo(bod, b, o, i, v) ==
  \A k \in PlacesOf(bod, b)[o - 1] + 1 .. i - 1 : ~ AllEqualIn(v, Checked(bod).statements[b][k].pairs)

LEMMA IndexStep ==
  ASSUME NEW v, NEW step, IsIndex(step)
  PROVE  StepIn(v, step) = <<"element", IndexIn(v, IndexOperand(step))>>
<1>1. CASE step[1] = "constant"
  BY <1>1 DEF StepIn, Indexed, IndexIn, IndexOperand, Constant
<1>2. CASE step[1] # "constant"
  <2>1. Indexed(step)
    BY <1>2 DEF IsIndex
  <2>. QED  BY <1>2, <2>1 DEF StepIn, IndexIn, IndexOperand, Copy, Whole, Place
<1>. QED  BY <1>1, <1>2

(* A constant that an index is known to be is its value.                   *)
LEMMA ConstantStep ==
  ASSUME NEW v, NEW known, \A k \in known : True(k, v), NEW step, IsIndex(step),
         IndexValue(step, known)[1] = "constant"
  PROVE  IndexValue(step, known) = <<"constant", IndexIn(v, IndexOperand(step))>>
<1>. DEFINE value == IndexValue(step, known)
            H == Holding(known, step[2])
            e == CHOOSE x \in H : TRUE
<1>1. CASE step[1] = "constant"
  <2>1. value = <<"constant", step[2]>>
    BY <1>1 DEF IndexValue, Indexed
  <2>2. IndexIn(v, IndexOperand(step)) = step[2]
    BY <1>1 DEF IndexIn, IndexOperand, Constant
  <2>. QED  BY <2>1, <2>2
<1>2. CASE step[1] # "constant"
  <2>1. IndexIn(v, IndexOperand(step)) = v[step[2]]
    BY <1>2 DEF IndexIn, IndexOperand, Copy, Whole, Place
  <2>2. value = e.form /\ H # {}
    <3>1. Indexed(step)
      BY <1>2 DEF IsIndex
    <3>2. CASE H = {}
      <4>1. value = <<"local", step[2]>>
        BY <1>2, <3>1, <3>2 DEF IndexValue
      <4>. QED  BY <4>1
    <3>3. CASE H # {}
      <4>1. value = IF e.form[1] = "constant" THEN e.form ELSE <<"known", e>>
        BY <1>2, <3>1, <3>3 DEF IndexValue
      <4>. HIDE DEF value, e, H
      <4>2. value[1] = "constant"
        BY DEF value
      <4>. QED  BY <3>3, <4>1, <4>2
    <3>. QED  BY <3>2, <3>3
  <2>3. e \in H
    BY <2>2
  <2>. HIDE DEF e, value
  <2>4. PICK k \in known : k[1] = step[2] /\ k[2] = e
    BY <2>3 DEF Holding
  <2>5. IsExpression(e) /\ v[step[2]] = EvaluateIn(v, e)
    BY <2>4 DEF True
  <2>6. e.form[1] = "constant"
    BY <2>2 DEF value
  <2>7. Plain(e) \/ \E l, r : e = BinaryOf(l, r)
    BY <2>5 DEF IsExpression, Closed, PartsOf
  <2>8. PICK c : e = ConstantOf(c)
    BY <2>6, <2>7, CopyForm, BinaryForm DEF Plain
  <2>9. EvaluateIn(v, e) = c /\ e.form = <<"constant", c>>
    BY <2>8, PlainEvaluates, ConstantForm
  <2>. QED  BY <2>1, <2>2, <2>5, <2>9 DEF value
<1>. QED  BY <1>1, <1>2

(* Steps that part for certain part when the program runs.                 *)
LEMMA PartsPart ==
  ASSUME NEW v, NEW known, \A k \in known : True(k, v), NEW step, NEW other, Parts(step, other, known)
  PROVE  StepIn(v, step) # StepIn(v, other)
<1>1. CASE step[1] \in {"field", "variant"} /\ other[1] = step[1] /\ step # other
  BY <1>1 DEF StepIn, Indexed
<1>2. CASE ~ (step[1] \in {"field", "variant"} /\ other[1] = step[1] /\ step # other)
  <2>1. /\ IsIndex(step) /\ IsIndex(other) /\ IndexValue(step, known) # IndexValue(other, known)
        /\ IndexValue(step, known)[1] = "constant" /\ IndexValue(other, known)[1] = "constant"
    BY <1>2 DEF Parts
  <2>2. IndexIn(v, IndexOperand(step)) # IndexIn(v, IndexOperand(other))
    BY <2>1, ConstantStep
  <2>. QED  BY <2>1, <2>2, IndexStep
<1>. QED  BY <1>1, <1>2

(* The judgement of overlap is on the safe side: what it calls disjoint    *)
(* does not meet, and what it is unsure of does not if some pair of        *)
(* indices differs.                                                        *)
UnsureOf(left, right, known) == {i \in Common(left, right) : Unsure(left.path[i], right.path[i], known)}
PairsOf(left, right, known) ==
  [i \in UnsureOf(left, right, known) |-> <<IndexOperand(left.path[i]), IndexOperand(right.path[i])>>]
LEMMA OverlapIs ==
  ASSUME NEW left, NEW right, NEW known
  PROVE  \/ /\ Overlap(left, right, known) = Disjoint
            /\ left.local # right.local \/ \E i \in Common(left, right) : Parts(left.path[i], right.path[i], known)
         \/ Overlap(left, right, known) = Certain
         \/ Overlap(left, right, known) = IfEqual(PairsOf(left, right, known))
  BY DEF Overlap, PairsOf, UnsureOf

LEMMA OverlapIsSafe ==
  ASSUME NEW v, NEW known, \A k \in known : True(k, v),
         NEW left, NEW right, left.local = right.local, IsPath(left.path), IsPath(right.path),
         NEW base, IsPath(base.target.path),
         Overlap(left, right, known) # Certain,
         Overlap(left, right, known) # Disjoint => ~ AllEqualIn(v, Overlap(left, right, known)[2])
  PROVE  ~ Meet(BehindIn(v, base, left.path), BehindIn(v, base, right.path))
<1>. DEFINE common == Common(left, right)
            pairs == PairsOf(left, right, known)
<1>1. Len(left.path) \in Nat /\ Len(right.path) \in Nat
  BY PathLen
<1>2. \A i \in common : i \in 1 .. Len(left.path) /\ i <= Len(right.path)
  BY <1>1 DEF Common
<1>3. ASSUME NEW i \in common, StepIn(v, left.path[i]) # StepIn(v, right.path[i])
      PROVE  ~ Meet(BehindIn(v, base, left.path), BehindIn(v, base, right.path))
  <2>1. i \in 1 .. Len(left.path) /\ i <= Len(right.path)
    BY <1>2
  <2>. QED  BY <1>3, <2>1, PartedIs
<1>4. CASE Overlap(left, right, known) = Disjoint
  <2>1. Disjoint # Certain /\ \A p : Disjoint # IfEqual(p)
    BY DEF Disjoint, Certain, IfEqual
  <2>2. PICK i \in common : Parts(left.path[i], right.path[i], known)
    BY <1>4, <2>1, OverlapIs
  <2>3. StepIn(v, left.path[i]) # StepIn(v, right.path[i])
    BY <2>2, PartsPart
  <2>. QED  BY <1>3, <2>3
<1>5. CASE Overlap(left, right, known) # Disjoint
  <2>1. Overlap(left, right, known) = IfEqual(pairs)
    BY <1>5, OverlapIs
  <2>. HIDE DEF pairs
  <2>2. Overlap(left, right, known)[2] = pairs
    <3>1. \A x : IfEqual(x)[2] = x
      BY DEF IfEqual
    <3>. QED  BY <2>1, <3>1
  <2>3. PICK i \in DOMAIN pairs : IndexIn(v, pairs[i][1]) # IndexIn(v, pairs[i][2])
    BY <1>5, <2>2 DEF AllEqualIn
  <2>4. i \in UnsureOf(left, right, known) /\ pairs[i] = <<IndexOperand(left.path[i]), IndexOperand(right.path[i])>>
    BY <2>3 DEF PairsOf, pairs
  <2>5. i \in common /\ IsIndex(left.path[i]) /\ IsIndex(right.path[i])
    BY <2>4 DEF UnsureOf, Unsure
  <2>6. StepIn(v, left.path[i]) # StepIn(v, right.path[i])
    BY <2>3, <2>4, <2>5, IndexStep
  <2>. QED  BY <1>3, <2>5, <2>6
<1>. QED  BY <1>4, <1>5

(* Storage behind the same base that a loan in force and an access that it *)
(* does not suffer reach is apart, once the checks have been passed.       *)
LEMMA NotMeeting ==
  ASSUME NEW bod \in Bodies, ~ BorrowVerdict(bod).refused, NEW b \in Reachable(bod),
         NEW i \in 1 .. Len(bod.statements[b]), NEW s, s = bod.statements[b][i],
         NEW v, TrueAt(bod, b, i, v), PassedAt(bod, b, i, v),
         NEW loan \in InForce(FlowAt(bod, b, i).carried), NEW access \in Accesses(FlowAt(bod, b, i).carried, <<b, i>>, s),
         loan \notin access.exempt, KindsConflict(loan.kind, access.kind), loan.place.local = access.place.local,
         IsPath(loan.place.path), IsPath(access.place.path), NEW base, IsPath(base.target.path)
  PROVE  ~ Meet(BehindIn(v, base, loan.place.path), BehindIn(v, base, access.place.path))
<1>. DEFINE flow == FlowAt(bod, b, i)
            met == Overlap(loan.place, access.place, flow.known)
            pair == <<access, loan>>
<1>1. met \in MeetAt(bod, b, i)
  <2>1. pair \in Accesses(flow.carried, <<b, i>>, s) \X InForce(flow.carried)
    OBVIOUS
  <2>2. pair[1] = access /\ pair[2] = loan
    OBVIOUS
  <2>. HIDE DEF pair
  <2>. QED  BY <2>1, <2>2 DEF MeetAt, Meetings
<1>2. met # Certain
  BY <1>1, MeetingsChecked
<1>3. ASSUME met # Disjoint PROVE ~ AllEqualIn(v, met[2])
  <2>. DEFINE check == [block |-> b, index |-> i, pairs |-> met[2]]
  <2>1. met \in MeetAt(bod, b, i) \ {Certain, Disjoint}
    BY <1>1, <1>2, <1>3
  <2>. HIDE DEF met
  <2>2. check \in Asked(bod)
    BY <2>1, MeetingsChecked DEF Asked
  <2>. QED  BY <2>2 DEF PassedAt
<1>4. \A k \in flow.known : True(k, v)
  BY DEF TrueAt
<1>. HIDE DEF flow
<1>. QED  BY <1>2, <1>3, <1>4, OverlapIsSafe
-----------------------------------------------------------------------------
(* What the references that are alive have to do with each other.  What a  *)
(* reference was lent holds what it points at: as storage, and by a kind   *)
(* that is strong enough.  Each loan it was lent is carried for it.        *)
Strong(kind, by) == /\ kind = "mutable" => by = "mutable"
                    /\ kind = "argument" => by # "shared"
Holds(l, p) == Covers(l.place, p.target) /\ Strong(p.kind, l.kind)
BaseAt(r, p) == [local |-> r, at |-> p.at, target |-> p.target]
Own(x) == [local |-> x, at |-> <<>>, target |-> Whole(x)]
Old(at, n) == at = <<>> \/ (at[1] \in Nat /\ at[1] <= n)
LoanOf(l) == Loan(l.loan.made, l.kind, l.loan.place, l.loan.by)
IsLent(l) == l = [loan |-> l.loan, base |-> l.base, place |-> l.place, at |-> l.at, kind |-> l.kind] /\ IsLoan(l.loan)
Kinds == {"shared", "argument", "mutable"}
LentIn(bod, carried, v, n, r, p, l) ==
  /\ IsLent(l) /\ l.kind \in Kinds
  /\ Old(l.at, n) /\ Old(l.base.at, n) /\ l.base.at # p.at
  /\ IsPath(l.loan.place.path) /\ IndexLocals(l.loan.place) \subseteq Numbers
  /\ IsPath(l.base.target.path) /\ l.base.local = l.loan.place.local
  /\ l.base.local \notin Lenders(bod) \cup Reserved(bod)
  /\ l.place = BehindIn(v, l.base, l.loan.place.path)
  /\ LoanOf(l) \in carried[r]
  /\ l.kind = "argument" => l.loan.by = r /\ r \in Reserved(bod) /\ l.at = p.at
Points(bod, carried, v, n, r, p) ==
  /\ p # NoPointer /\ ~ p.spoiled /\ p.kind \in Kinds /\ IsPlace(p.target)
  /\ r \in Changing(bod) => p.kind # "shared"
  /\ r \notin Reserved(bod) => p.kind # "argument"
  /\ r \in Lenders(bod) => p.kind # "mutable"
  /\ p.at \in p.lineage /\ \A at \in p.lineage : Old(at, n)
  /\ \A l \in p.lent : LentIn(bod, carried, v, n, r, p, l)
  /\ p.target.local # Caller =>
       p.target.local \notin References /\ \E l \in p.lent : l.base = Own(p.target.local) /\ Holds(l, p)

(* What two of them were lent behind one base is apart, if either may be   *)
(* changed; what was made through another holds a loan of what that one    *)
(* points at, and nothing was made through one that is lent to a call; and *)
(* of two that meet, not both to look only, the second was made through    *)
(* the first, or both were lent something behind the same base.            *)
Apart(p, q) ==
  \A l \in p.lent, m \in q.lent :
    l.at # m.at /\ l.base = m.base /\ Meet(l.place, m.place) => l.kind # "mutable" /\ m.kind # "mutable"
Derived(bod, r, p, q) ==
  r \notin Lenders(bod) /\ p.at \in q.lineage => \E m \in q.lent : m.base = BaseAt(r, p) /\ Holds(m, q)
Unused(bod, r, p, q) == r \in Lenders(bod) => p.at \notin q.lineage
Rivals(p, q) ==
  /\ Meet(p.target, q.target) /\ ~ (p.kind = "shared" /\ q.kind = "shared") /\ q.at \notin p.lineage
MadeThrough(r, p, q) == \E l \in q.lent : l.base = BaseAt(r, p) /\ Holds(l, q)
Beside(p, q) == \E l \in q.lent, m \in p.lent : l.base = m.base /\ l.at # m.at /\ Holds(l, q) /\ Holds(m, p)
Diverge(r, p, q) == Rivals(p, q) => MadeThrough(r, p, q) \/ Beside(p, q)
Related(bod, r, p, q) == Derived(bod, r, p, q) /\ Unused(bod, r, p, q) /\ Diverge(r, p, q)
Sound(bod, alive, carried, v, n, ptrs) ==
  /\ \A r \in alive : Points(bod, carried, v, n, r, ptrs[r])
  /\ \A r, q \in alive : Apart(ptrs[r], ptrs[q]) /\ (r # q => Related(bod, r, ptrs[r], ptrs[q]))

(* A statement of an accepted body whose checks have been passed.          *)
Ready(bod, b, i, s) ==
  /\ bod \in Bodies /\ MovesAccepted(bod) /\ ~ BorrowVerdict(bod).refused
  /\ b \in Reachable(bod) /\ i \in 1 .. Len(bod.statements[b]) /\ s = bod.statements[b][i]
  /\ ArePointers(pointers) /\ TrueAt(bod, b, i, values) /\ PassedAt(bod, b, i, values) /\ steps \in Nat
  /\ Sound(bod, Alive(bod, b, i), FlowAt(bod, b, i).carried, values, steps, pointers)

LEMMA LoanOfIs ==
  ASSUME NEW l
  PROVE  /\ LoanOf(l).kind = l.kind /\ LoanOf(l).place = l.loan.place /\ LoanOf(l).by = l.loan.by
         /\ IsLoan(LoanOf(l))
  BY DEF LoanOf, Loan, IsLoan

LEMMA ApartBoth == \A p, q : Apart(p, q) => Apart(q, p)
  BY DEF Apart, Meet

LEMMA LentOf ==
  ASSUME NEW bod, NEW alive, NEW carried, NEW v, NEW n, NEW ptrs, Sound(bod, alive, carried, v, n, ptrs),
         NEW r \in alive, NEW l \in ptrs[r].lent
  PROVE  LentIn(bod, carried, v, n, r, ptrs[r], l) /\ LoanOf(l) \in carried[r]
<1>1. Points(bod, carried, v, n, r, ptrs[r])
  BY DEF Sound
<1>2. LentIn(bod, carried, v, n, r, ptrs[r], l)
  BY <1>1 DEF Points
<1>. QED  BY <1>2 DEF LentIn

(* What is there at a statement that is ready.                             *)
LEMMA ReadyIs ==
  ASSUME NEW bod, NEW b, NEW i, NEW s, Ready(bod, b, i, s)
  PROVE  /\ s \in StatementsOf(bod) /\ WellFormed(bod) /\ Lowered(bod) /\ Scoped(bod)
         /\ s.do \in {"assign", "bind", "unpack", "release", "keep"}
         /\ (Reads(s) \cup Changes(s)) \cap References \subseteq Alive(bod, b, i)
         /\ FlowAt(bod, b, i).carried = [r \in References |-> FlowAt(bod, b, i).carried[r]]
         /\ Alive(bod, b, i) \subseteq References
<1>1. /\ bod \in Bodies /\ MovesAccepted(bod) /\ b \in Reachable(bod)
      /\ i \in 1 .. Len(bod.statements[b]) /\ s = bod.statements[b][i]
  BY DEF Ready
<1>2. /\ s \in StatementsOf(bod) /\ WellFormed(bod) /\ Lowered(bod) /\ Scoped(bod)
      /\ s.do \in {"assign", "bind", "unpack", "release", "keep"}
  BY <1>1, BodiesTyped, StatementTyped
<1>3. (Reads(s) \cup Changes(s)) \cap References \subseteq Alive(bod, b, i)
  BY <1>1, AliveUsed
<1>4. FlowAt(bod, b, i).carried = [r \in References |-> FlowAt(bod, b, i).carried[r]]
  BY <1>1, FlowBehind
<1>. QED  BY <1>2, <1>3, <1>4 DEF Alive

LEMMA ReadyLent ==
  ASSUME NEW bod, NEW b, NEW i, NEW s, Ready(bod, b, i, s), NEW r \in Alive(bod, b, i)
  PROVE  /\ Points(bod, FlowAt(bod, b, i).carried, values, steps, r, pointers[r])
         /\ r \in References
         /\ \A l \in pointers[r].lent :
              /\ LentIn(bod, FlowAt(bod, b, i).carried, values, steps, r, pointers[r], l)
              /\ LoanOf(l) \in FlowAt(bod, b, i).carried[r] /\ LoanOf(l) \in InForce(FlowAt(bod, b, i).carried)
         /\ \A q \in Alive(bod, b, i) :
              Apart(pointers[r], pointers[q]) /\ (r # q => Related(bod, r, pointers[r], pointers[q]))
<1>1. /\ Sound(bod, Alive(bod, b, i), FlowAt(bod, b, i).carried, values, steps, pointers)
      /\ r \in References
  BY ReadyIs DEF Ready
<1>2. \A l \in pointers[r].lent :
        /\ LentIn(bod, FlowAt(bod, b, i).carried, values, steps, r, pointers[r], l)
        /\ LoanOf(l) \in FlowAt(bod, b, i).carried[r]
  BY <1>1, LentOf
<1>. QED  BY <1>1, <1>2 DEF Sound, InForce

(* What was lent to a reference that is alive an access that its loan does *)
(* not suffer does not meet.                                               *)
LEMMA LentApart ==
  ASSUME NEW bod, NEW b, NEW i, NEW s, Ready(bod, b, i, s), NEW r \in Alive(bod, b, i), NEW l \in pointers[r].lent,
         NEW access \in Accesses(FlowAt(bod, b, i).carried, <<b, i>>, s), LoanOf(l) \notin access.exempt,
         KindsConflict(l.kind, access.kind), l.base.local = access.place.local, IsPath(access.place.path)
  PROVE  ~ Meet(l.place, BehindIn(values, l.base, access.place.path))
<1>1. /\ LentIn(bod, FlowAt(bod, b, i).carried, values, steps, r, pointers[r], l)
      /\ LoanOf(l) \in InForce(FlowAt(bod, b, i).carried)
  BY ReadyLent
<1>2. /\ IsPath(l.loan.place.path) /\ IsPath(l.base.target.path) /\ l.base.local = l.loan.place.local
      /\ l.place = BehindIn(values, l.base, l.loan.place.path)
  BY <1>1 DEF LentIn
<1>3. LoanOf(l).kind = l.kind /\ LoanOf(l).place = l.loan.place
  BY LoanOfIs
<1>4. /\ bod \in Bodies /\ ~ BorrowVerdict(bod).refused /\ b \in Reachable(bod)
      /\ i \in 1 .. Len(bod.statements[b]) /\ s = bod.statements[b][i]
      /\ TrueAt(bod, b, i, values) /\ PassedAt(bod, b, i, values)
  BY DEF Ready
<1>. DEFINE loan == LoanOf(l)
<1>5. /\ loan \in InForce(FlowAt(bod, b, i).carried) /\ loan \notin access.exempt /\ KindsConflict(loan.kind, access.kind)
      /\ loan.place.local = access.place.local /\ IsPath(loan.place.path) /\ loan.place.path = l.loan.place.path
  BY <1>1, <1>2, <1>3
<1>. HIDE DEF loan
<1>6. ~ Meet(BehindIn(values, l.base, loan.place.path), BehindIn(values, l.base, access.place.path))
  BY <1>2, <1>4, <1>5, NotMeeting
<1>. QED  BY <1>2, <1>5, <1>6
-----------------------------------------------------------------------------
(* What a call is lent is alive before it, and dead behind it if it is an  *)
(* argument or a reference of lowering.                                    *)
LEMMA ActivatedIs ==
  ASSUME NEW bod, NEW b, NEW i, NEW s, Ready(bod, b, i, s), s.do \in {"assign", "bind"},
         NEW q \in Activated(s.value) \cap References
  PROVE  /\ q \in Alive(bod, b, i)
         /\ s.value.is \in {"call", "builtin"}
         /\ s.value.is = "builtin" => Activated(s.value) = {q}
         /\ s.value.is = "call" \/ q \in Reserved(bod) => q \in Lends(bod, s)
<1>1. s \in StatementsOf(bod) /\ bod \in Bodies /\ (Reads(s) \cup Changes(s)) \cap References \subseteq Alive(bod, b, i)
  BY ReadyIs DEF Ready
<1>2. s.value.is \in {"call", "builtin"}
  BY DEF Activated
<1>3. CASE s.value.is = "call"
  <2>1. q \in Lends(bod, s)
    BY <1>3, LentIsLends
  <2>2. q \in Reads(s) \cap References
    BY <1>1, <2>1, OperandsRead
  <2>. QED  BY <1>1, <1>2, <1>3, <2>1, <2>2
<1>4. CASE s.value.is = "builtin"
  <2>1. Activated(s.value) = {s.value.place.local} /\ q = s.value.place.local
    BY <1>4 DEF Activated
  <2>2. q \in Reads(s)
    BY <1>1, <1>4, <2>1, OperandsRead
  <2>. DEFINE A == {o.place.local : o \in {x \in OperandsOf(s) : x.gives = "borrowed"}}
              B == {s.value.place.local} \cap Reserved(bod)
  <2>3. Lends(bod, s) = A \cup B
    BY <1>4 DEF Lends
  <2>4. q \in Reserved(bod) => q \in B
    BY <2>1
  <2>. HIDE DEF A, B
  <2>. QED  BY <1>1, <1>2, <1>4, <2>1, <2>2, <2>3, <2>4
<1>. QED  BY <1>2, <1>3, <1>4

LEMMA LendsAre ==
  ASSUME NEW bod, NEW b, NEW i, NEW s, Ready(bod, b, i, s), NEW a \in Lends(bod, s)
  PROVE  /\ a \in Lenders(bod) /\ a \notin Bases(bod) /\ a \in Alive(bod, b, i)
         /\ a \notin Alive(bod, b, i + 1)
<1>1. /\ bod \in Bodies /\ b \in Reachable(bod) /\ i \in 1 .. Len(bod.statements[b]) /\ s = bod.statements[b][i]
      /\ s \in StatementsOf(bod) /\ Lowered(bod) /\ WellFormed(bod) /\ b \in Blocks(bod)
      /\ (Reads(s) \cup Changes(s)) \cap References \subseteq Alive(bod, b, i)
  BY ReadyIs, BodiesTyped DEF Ready
<1>2. a \in Lenders(bod) /\ a \notin Bases(bod)
  <2>1. a \in Lenders(bod)
    BY <1>1 DEF Lenders
  <2>. QED  BY <1>1, <2>1 DEF Lowered
<1>3. s.do \in {"assign", "bind"}
  BY DEF Lends
<1>4. a \in Alive(bod, b, i)
  BY <1>1, <1>3, OperandsRead
<1>5. i \in 0 .. Len(bod.statements[b]) /\ i \in DOMAIN bod.statements[b]
  BY <1>1, BlocksTyped
<1>6. a \notin LiveBehind(bod, EndsLive(bod), b, i)
  BY <1>1, <1>5 DEF Lowered, EndsLive
<1>7. a \notin LiveAt(bod, b, i + 1)
  BY <1>1, <1>5, <1>6, BehindIsLive
<1>. QED  BY <1>2, <1>4, <1>7 DEF Alive

LEMMA ScopedIs ==
  ASSUME NEW bod, NEW b, NEW i, NEW s, Ready(bod, b, i, s)
  PROVE  /\ OwnLoan(<<b, i>>, s) \cap InForce(FlowAt(bod, b, i).carried) = {}
         /\ \A loan \in InForce(FlowAt(bod, b, i + 1).carried) :
              IndexLocals(loan.place) \cap ChangedLocals(FlowAt(bod, b, i).carried, s) = {}
<1>1. Scoped(bod) /\ bod \in Bodies /\ b \in Reachable(bod) /\ i \in DOMAIN bod.statements[b] /\ s = bod.statements[b][i]
  BY ReadyIs, BodiesTyped, BlocksTyped DEF Ready
<1>. QED  BY <1>1 DEF Scoped, FlowAt

LEMMA LentAlone ==
  ASSUME NEW bod, NEW b, NEW i, NEW s, Ready(bod, b, i, s), NEW a \in Lends(bod, s),
         NEW own \in FlowAt(bod, b, i).carried[a], own.by = a, own.kind = "argument",
         NEW loan \in FlowAt(bod, b, i).carried[a], loan.place.local = own.place.local
  PROVE  loan.by = a /\ loan.kind = "argument"
<1>1. Scoped(bod) /\ bod \in Bodies /\ b \in Reachable(bod) /\ i \in DOMAIN bod.statements[b] /\ s = bod.statements[b][i]
  BY ReadyIs, BodiesTyped, BlocksTyped DEF Ready
<1>2. \A x \in Lends(bod, bod.statements[b][i]) : \A y, z \in Flows(bod)[b][i].carried[x] :
        y.by = x /\ y.kind = "argument" /\ z.place.local = y.place.local => z.by = x /\ z.kind = "argument"
  BY <1>1 DEF Scoped
<1>. QED  BY <1>1, <1>2 DEF FlowAt

(* The access that a call makes through an argument meets only what that   *)
(* argument was lent itself.                                               *)
LEMMA ActivationApart ==
  ASSUME NEW bod, NEW b, NEW i, NEW s, Ready(bod, b, i, s), s.do \in {"assign", "bind"},
         NEW q \in Activated(s.value) \cap References, NEW l \in pointers[q].lent, l.kind = "argument",
         NEW r \in Alive(bod, b, i), NEW m \in pointers[r].lent, l.base = m.base, Meet(l.place, m.place)
  PROVE  r = q /\ m.kind = "argument" /\ m.at = l.at
<1>. DEFINE carried == FlowAt(bod, b, i).carried
            own == LoanOf(l)
            loan == LoanOf(m)
            access == Made("borrow", own.place, carried[q])
<1>1. q \in Alive(bod, b, i)
  BY ActivatedIs
<1>2. /\ LentIn(bod, carried, values, steps, q, pointers[q], l) /\ own \in carried[q]
      /\ LentIn(bod, carried, values, steps, r, pointers[r], m)
  BY <1>1, ReadyLent
<1>3. /\ q \in Reserved(bod) /\ own.by = q /\ own.kind = "argument" /\ own.place = l.loan.place /\ l.at = pointers[q].at
      /\ l.base.local = own.place.local /\ m.base.local = loan.place.local /\ IsPath(own.place.path)
      /\ l.place = BehindIn(values, l.base, own.place.path)
      /\ m.kind = "argument" => loan.by = r /\ m.at = pointers[r].at
      /\ loan.kind = m.kind
  BY <1>2, LoanOfIs DEF LentIn
<1>4. access \in Accesses(carried, <<b, i>>, s)
  <2>1. own \in {x \in carried[q] : x.by = q /\ x.kind = "argument"}
    BY <1>2, <1>3
  <2>. DEFINE A(r2) == {Made("borrow", x.place, carried[r2]) : x \in {y \in carried[r2] : y.by = r2 /\ y.kind = "argument"}}
  <2>2. access \in A(q)
    BY <2>1
  <2>3. Activations(carried, s) = UNION {A(r2) : r2 \in Activated(s.value) \cap References}
    BY DEF Activations
  <2>. HIDE DEF A, access
  <2>4. access \in Activations(carried, s)
    BY <2>2, <2>3
  <2>5. Activations(carried, s) \subseteq Accesses(carried, <<b, i>>, s)
    BY DEF Accesses
  <2>. QED  BY <2>4, <2>5
<1>5. access.kind = "borrow" /\ access.place = own.place /\ access.exempt = carried[q]
  BY DEF Made
<1>. HIDE DEF access, own, loan, carried
<1>6. loan \in carried[q]
  <2>1. SUFFICES ASSUME loan \notin carried[q] PROVE FALSE
    OBVIOUS
  <2>2. /\ KindsConflict(m.kind, access.kind) /\ LoanOf(m) \notin access.exempt
        /\ m.base.local = access.place.local /\ IsPath(access.place.path)
    BY <1>3, <1>5, <2>1 DEF KindsConflict, loan
  <2>3. ~ Meet(m.place, BehindIn(values, m.base, access.place.path))
    BY <1>4, <2>2, LentApart DEF carried
  <2>. QED  BY <1>3, <1>5, <2>3, MeetSame
<1>7. q \in Lends(bod, s)
  BY <1>3, ActivatedIs
<1>8. loan.by = q /\ loan.kind = "argument"
  <2>3. own \in carried[q] /\ loan.place.local = own.place.local
    BY <1>2, <1>3 DEF own
  <2>. QED  BY <1>3, <1>6, <1>7, <2>3, LentAlone DEF carried
<1>. QED  BY <1>3, <1>8
-----------------------------------------------------------------------------
(* Each touch of storage is an access of the check, of a place that a      *)
(* variable or a reference in use reaches, or one through an argument.     *)
ReachedBy(bod, s, place, looks) ==
  /\ IsPath(place.path) /\ place.local \in Locals
  /\ place.local \in References =>
       /\ place.local \in Reads(s) \cup Changes(s) /\ place.local \in Bases(bod)
       /\ ~ looks => place.local \in Changing(bod)
Accessed(bod, b, i, s, touch, access) ==
  /\ access \in Accesses(FlowAt(bod, b, i).carried, <<b, i>>, s) /\ access.exempt = OwnLoan(<<b, i>>, s)
  /\ touch = TouchAt(touch.kind, access.place)
  /\ touch.kind = "share" \/ access.kind \in {"borrow", "write", "move", "release"}
  /\ ReachedBy(bod, s, access.place, touch.kind = "share")
Activates(s, touch) ==
  /\ s.do \in {"assign", "bind"}
  /\ \E a \in Activated(s.value) \cap References : pointers[a].kind = "argument" /\ touch = TouchAt("borrow", Whole(a))

LEMMA TouchAtIs == \A kind, place : /\ TouchAt(kind, place).kind = kind /\ TouchAt(kind, place).place = Concrete(place)
                                    /\ TouchAt(kind, place).lineage = LineageOf(place)
  BY DEF TouchAt, Touch
LEMMA MadeIs == \A kind, place, exempt : /\ Made(kind, place, exempt).kind = kind /\ Made(kind, place, exempt).place = place
                                         /\ Made(kind, place, exempt).exempt = exempt
  BY DEF Made
LEMMA WholeIs == \A l : Whole(l).local = l /\ Whole(l).path = <<>> /\ IsPath(Whole(l).path)
  BY DEF Whole, Place, IsPath

LEMMA AccessedIs ==
  ASSUME NEW bod, NEW b, NEW i, NEW s, NEW kind, NEW way, NEW place,
         Made(way, place, OwnLoan(<<b, i>>, s)) \in Accesses(FlowAt(bod, b, i).carried, <<b, i>>, s),
         kind = "share" \/ way \in {"borrow", "write", "move", "release"},
         ReachedBy(bod, s, place, kind = "share")
  PROVE  \E access : Accessed(bod, b, i, s, TouchAt(kind, place), access)
<1>. DEFINE access == Made(way, place, OwnLoan(<<b, i>>, s))
            touch == TouchAt(kind, place)
<1>1. access.kind = way /\ access.place = place /\ access.exempt = OwnLoan(<<b, i>>, s)
  <2>. DEFINE own == OwnLoan(<<b, i>>, s)
  <2>1. access = Made(way, place, own)
    OBVIOUS
  <2>. HIDE DEF access, own
  <2>2. access.kind = way /\ access.place = place /\ access.exempt = own
    BY <2>1, MadeIs
  <2>. QED  BY <2>2 DEF own
<1>2. touch.kind = kind /\ touch = TouchAt(touch.kind, place)
  BY TouchAtIs
<1>3. access \in Accesses(FlowAt(bod, b, i).carried, <<b, i>>, s)
  OBVIOUS
<1>. HIDE DEF access, touch
<1>4. Accessed(bod, b, i, s, touch, access)
  BY <1>1, <1>2, <1>3 DEF Accessed
<1>. QED  BY <1>4 DEF touch

(* What is moved no reference reaches.                                     *)
LEMMA MovesReach ==
  ASSUME NEW bod, NEW b, NEW i, NEW s, Ready(bod, b, i, s), NEW place \in MovedBy(s), NEW looks
  PROVE  ReachedBy(bod, s, place, looks)
<1>1. /\ s \in StatementsOf(bod) /\ WellFormed(bod) /\ Lowered(bod) /\ Solved(bod) /\ MovesAccepted(bod)
      /\ b \in Reachable(bod)
  BY ReadyIs, BodiesTyped DEF Ready
<1>2. place \in UsedPlaces(s) /\ place \in MovedIn(bod)
  BY <1>1, MovedIsUsed, StatementsTyped
<1>3. place.local \notin References
  BY <1>1, <1>2, NoErrors
<1>4. IsPath(place.path) /\ place.local \in Locals
  <2>1. place.local \in LocalsOf(NamedPlaces(s))
    BY <1>2 DEF NamedPlaces, LocalsOf
  <2>. QED  BY <1>1, <1>2, <2>1, StatementsTyped DEF Lowered
<1>. QED  BY <1>3, <1>4 DEF ReachedBy

LEMMA OperandTouches ==
  ASSUME NEW bod, NEW b, NEW i, NEW s, Ready(bod, b, i, s), s.do \in {"assign", "bind"},
         NEW touch \in Moved(s) \cup Started(s)
  PROVE  (\E access : Accessed(bod, b, i, s, touch, access)) \/ Activates(s, touch)
<1>. DEFINE own == OwnLoan(<<b, i>>, s)
            carried == FlowAt(bod, b, i).carried
<1>1. CASE touch \in Started(s)
  <2>1. PICK a \in Activated(s.value) \cap References : pointers[a].kind = "argument" /\ touch = TouchAt("borrow", Whole(a))
    BY <1>1 DEF Started
  <2>. QED  BY <2>1 DEF Activates
<1>2. CASE touch \in Moved(s)
  <2>1. PICK o \in OperandsOf(s) : o.gives = "move" /\ touch = TouchAt("move", o.place)
    BY <1>2 DEF Moved
  <2>2. Made("move", o.place, own) \in MoveAccesses(s, own)
    BY <2>1 DEF MoveAccesses
  <2>3. MoveAccesses(s, own) \subseteq Accesses(carried, <<b, i>>, s)
    BY DEF Accesses
  <2>4. o.place \in MovedBy(s)
    BY <2>1 DEF MovedBy, MovedOperands, OperandsOf
  <2>5. ReachedBy(bod, s, o.place, "move" = "share")
    BY <2>4, MovesReach
  <2>. HIDE DEF own, carried
  <2>6. Made("move", o.place, own) \in Accesses(carried, <<b, i>>, s)
    BY <2>2, <2>3
  <2>. QED  BY <2>1, <2>5, <2>6, AccessedIs DEF own, carried
<1>. QED  BY <1>1, <1>2

LEMMA AssignTouches ==
  ASSUME NEW bod, NEW b, NEW i, NEW s, Ready(bod, b, i, s), s.do = "assign", NEW touch, touch = Written(s.to)
  PROVE  \E access : Accessed(bod, b, i, s, touch, access)
<1>. DEFINE to == Destination(s.to)
            own == OwnLoan(<<b, i>>, s)
<1>1. s \in StatementsOf(bod) /\ WellFormed(bod) /\ Lowered(bod)
  BY ReadyIs
<1>2. touch = TouchAt("write", to)
  BY DEF Written, Destination
<1>3. to.local = s.to.local /\ IsPath(to.path)
  <2>1. CASE MapEntry(s.to)
    BY <2>1, WholeIs DEF Destination
  <2>2. CASE ~ MapEntry(s.to)
    BY <1>1, <2>2, StatementsTyped DEF Destination
  <2>. QED  BY <2>1, <2>2
<1>4. to.local \in Locals
  <2>1. s.to.local \in LocalsOf(NamedPlaces(s))
    BY DEF NamedPlaces, LocalsOf
  <2>. QED  BY <1>1, <1>3, <2>1 DEF Lowered
<1>5. ASSUME to.local \in References
      PROVE  to.local \in Changes(s) /\ to.local \in Bases(bod) /\ to.local \in Changing(bod)
  BY <1>1, <1>3, <1>5 DEF Changes, IsWholeLocal, Bases, Changing
<1>6. Made("write", to, own) \in Accesses(FlowAt(bod, b, i).carried, <<b, i>>, s)
  BY DEF Accesses
<1>. HIDE DEF to, own
<1>7. ReachedBy(bod, s, to, "write" = "share")
  BY <1>3, <1>4, <1>5 DEF ReachedBy
<1>. QED  BY <1>2, <1>6, <1>7, AccessedIs DEF own

LEMMA RefTouches ==
  ASSUME NEW bod, NEW b, NEW i, NEW s, Ready(bod, b, i, s), s.do = "bind", s.value.is = "ref", NEW touch,
         touch = TouchAt(CASE s.value.kind = "mutable" -> "borrow" [] OTHER -> "share", s.value.place)
  PROVE  \E access : Accessed(bod, b, i, s, touch, access)
<1>. DEFINE place == s.value.place
            own == OwnLoan(<<b, i>>, s)
            kind == CASE s.value.kind = "mutable" -> "borrow" [] OTHER -> "share"
<1>1. s \in StatementsOf(bod) /\ WellFormed(bod) /\ Lowered(bod) /\ bod \in Bodies
  BY ReadyIs DEF Ready
<1>2. place \in UsedPlaces(s) /\ place.local \in Reads(s)
  BY <1>1, OperandsRead
<1>3. IsPath(place.path) /\ place.local \in Locals
  <2>1. place.local \in LocalsOf(NamedPlaces(s))
    BY <1>2 DEF NamedPlaces, LocalsOf
  <2>. QED  BY <1>1, <1>2, <2>1, StatementsTyped DEF Lowered
<1>4. place.local \in Bases(bod) /\ (s.value.kind # "shared" => place.local \in Changing(bod))
  BY <1>1 DEF Bases, Changing
<1>5. Made(RefAccess(s.value.kind), place, own) \in Accesses(FlowAt(bod, b, i).carried, <<b, i>>, s)
  BY DEF Accesses
<1>6. kind = "share" \/ (s.value.kind = "mutable" /\ kind = "borrow" /\ RefAccess(s.value.kind) = "borrow")
  BY DEF RefAccess
<1>. HIDE DEF place, own, kind
<1>7. ReachedBy(bod, s, place, kind = "share")
  BY <1>2, <1>3, <1>4, <1>6 DEF ReachedBy
<1>8. kind = "share" \/ RefAccess(s.value.kind) \in {"borrow", "write", "move", "release"}
  BY <1>6
<1>9. \E access : Accessed(bod, b, i, s, TouchAt(kind, place), access)
  BY <1>5, <1>7, <1>8, AccessedIs DEF own
<1>. QED  BY <1>9 DEF kind, place

LEMMA UnpackTouches ==
  ASSUME NEW bod, NEW b, NEW i, NEW s, Ready(bod, b, i, s), s.do = "unpack", NEW j \in DOMAIN s.taken,
         NEW touch \in {TouchAt("move", s.taken[j][2]), TouchAt("write", Whole(s.taken[j][1]))}
  PROVE  \E access : Accessed(bod, b, i, s, touch, access)
<1>. DEFINE own == OwnLoan(<<b, i>>, s)
            accesses == Accesses(FlowAt(bod, b, i).carried, <<b, i>>, s)
            A(k) == {Made("move", s.taken[k][2], own), Made("write", Whole(s.taken[k][1]), own)}
<1>1. s \in StatementsOf(bod) /\ WellFormed(bod) /\ Lowered(bod)
  BY ReadyIs
<1>2. accesses = UNION {A(k) : k \in DOMAIN s.taken}
  BY DEF Accesses
<1>3. Made("move", s.taken[j][2], own) \in accesses /\ Made("write", Whole(s.taken[j][1]), own) \in accesses
  <2>1. Made("move", s.taken[j][2], own) \in A(j) /\ Made("write", Whole(s.taken[j][1]), own) \in A(j)
    OBVIOUS
  <2>. HIDE DEF A, accesses
  <2>. QED  BY <1>2, <2>1
<1>4. ReachedBy(bod, s, s.taken[j][2], "move" = "share")
  <2>1. s.taken[j][2] \in MovedBy(s)
    BY DEF MovedBy
  <2>. QED  BY <2>1, MovesReach
<1>5. ReachedBy(bod, s, Whole(s.taken[j][1]), "write" = "share")
  <2>1. s.taken[j][1] \in Replaces(s)
    BY DEF Replaces
  <2>2. s.taken[j][1] \in Locals /\ s.taken[j][1] \notin References
    BY <1>1, <2>1 DEF Lowered
  <2>. QED  BY <2>2, WholeIs DEF ReachedBy
<1>. HIDE DEF own, accesses
<1>6. \E access : Accessed(bod, b, i, s, TouchAt("move", s.taken[j][2]), access)
  BY <1>3, <1>4, AccessedIs DEF own, accesses
<1>7. \E access : Accessed(bod, b, i, s, TouchAt("write", Whole(s.taken[j][1])), access)
  BY <1>3, <1>5, AccessedIs DEF own, accesses
<1>. QED  BY <1>6, <1>7

LEMMA ReleaseTouches ==
  ASSUME NEW bod, NEW b, NEW i, NEW s, Ready(bod, b, i, s), s.do = "release", NEW touch \in Touches(s)
  PROVE  \E access : Accessed(bod, b, i, s, touch, access)
<1>. DEFINE own == OwnLoan(<<b, i>>, s)
            accesses == Accesses(FlowAt(bod, b, i).carried, <<b, i>>, s)
<1>1. Lowered(bod) /\ s \in StatementsOf(bod)
  BY ReadyIs
<1>2. s.local \notin References /\ touch = TouchAt("end", Whole(s.local))
  BY DEF Touches
<1>3. Made("release", Whole(s.local), own) \in accesses
  BY <1>2 DEF Accesses
<1>4. ReachedBy(bod, s, Whole(s.local), "end" = "share")
  <2>1. s.local \in Replaces(s)
    BY DEF Replaces
  <2>2. s.local \in Locals
    BY <1>1, <2>1 DEF Lowered
  <2>. QED  BY <1>2, <2>2, WholeIs DEF ReachedBy
<1>. HIDE DEF own, accesses
<1>. QED  BY <1>2, <1>3, <1>4, AccessedIs DEF own, accesses

LEMMA TouchIs ==
  ASSUME NEW bod, NEW b, NEW i, NEW s, Ready(bod, b, i, s), NEW touch \in Touches(s)
  PROVE  (\E access : Accessed(bod, b, i, s, touch, access)) \/ Activates(s, touch)
<1>1. s.do \in {"assign", "bind", "unpack", "release", "keep"}
  BY ReadyIs
<1>2. CASE s.do = "assign"
  <2>1. touch \in Moved(s) \cup Started(s) \/ touch = Written(s.to)
    BY <1>2 DEF Touches
  <2>. QED  BY <1>2, <2>1, OperandTouches, AssignTouches
<1>3. CASE s.do = "bind"
  <2>. DEFINE T == IF s.value.is = "ref"
                   THEN {TouchAt(CASE s.value.kind = "mutable" -> "borrow" [] OTHER -> "share", s.value.place)}
                   ELSE {}
  <2>1. Touches(s) = Moved(s) \cup Started(s) \cup T
    BY <1>3 DEF Touches
  <2>2. CASE touch \in Moved(s) \cup Started(s)
    BY <1>3, <2>2, OperandTouches
  <2>3. CASE touch \in T
    BY <1>3, <2>3, RefTouches
  <2>. HIDE DEF T
  <2>. QED  BY <2>1, <2>2, <2>3
<1>4. CASE s.do = "unpack"
  <2>1. PICK j \in DOMAIN s.taken : touch \in {TouchAt("move", s.taken[j][2]), TouchAt("write", Whole(s.taken[j][1]))}
    BY <1>4 DEF Touches
  <2>. QED  BY <1>4, <2>1, UnpackTouches
<1>5. CASE s.do = "release"
  BY <1>5, ReleaseTouches
<1>6. CASE s.do = "keep"
  BY <1>6 DEF Touches
<1>. QED  BY <1>1, <1>2, <1>3, <1>4, <1>5, <1>6
-----------------------------------------------------------------------------
(* No touch of a statement spoils a reference that is alive behind it.     *)
LEMMA BaseIs == \A l : /\ l \in References => Base(l) = BaseAt(l, pointers[l])
                       /\ l \notin References => Base(l) = Own(l)
  BY DEF Base, BaseAt, Own
LEMMA ConcreteIs == \A place : Concrete(place) = BehindIn(values, Base(place.local), place.path)
  BY BehindIs DEF Concrete
LEMMA CoversLocal == \A p, q : Meet(p, q) => p.local = q.local
  BY DEF Meet, Covers

LEMMA LentPath ==
  ASSUME NEW bod, NEW carried, NEW v, NEW n, NEW r, NEW p, NEW l, LentIn(bod, carried, v, n, r, p, l)
  PROVE  IsPlace(l.place) /\ IsPath(l.place.path) /\ l.place.local = l.base.target.local
  BY BehindIsPlace DEF LentIn, IsPlace

LEMMA BesideMeet ==
  ASSUME NEW p, NEW q, NEW l, NEW m, Holds(l, q), Holds(m, p), Meet(p.target, q.target),
         IsPath(p.target.path), IsPath(q.target.path), IsPath(l.place.path), IsPath(m.place.path)
  PROVE  Meet(l.place, m.place) /\ Meet(m.place, l.place)
<1>1. Meet(q.target, m.place)
  BY MeetDown DEF Holds
<1>. QED  BY <1>1, MeetDown DEF Holds

(* What a place reaches of a base: the base covers it.                     *)
LEMMA TouchedIs ==
  ASSUME NEW bod, NEW b, NEW i, NEW s, Ready(bod, b, i, s), NEW kind, NEW place, IsPath(place.path),
         place.local \in References => place.local \in Alive(bod, b, i),
         NEW touch, touch = TouchAt(kind, place)
  PROVE  /\ touch.kind = kind /\ touch.lineage = LineageOf(place)
         /\ touch.place = BehindIn(values, Base(place.local), place.path)
         /\ IsPath(Base(place.local).target.path) /\ IsPath(touch.place.path)
         /\ touch.place.local = Base(place.local).target.local
         /\ Covers(Base(place.local).target, touch.place)
<1>. DEFINE base == Base(place.local)
<1>1. IsPath(base.target.path)
  <2>1. CASE place.local \in References
    <3>1. base.target = pointers[place.local].target
      BY <2>1, BaseIs DEF BaseAt
    <3>2. IsPlace(pointers[place.local].target)
      BY <2>1, ReadyLent DEF Points
    <3>. QED  BY <3>1, <3>2 DEF IsPlace
  <2>2. CASE place.local \notin References
    BY <2>2, BaseIs, WholeIs DEF Own
  <2>. QED  BY <2>1, <2>2
<1>2. touch.kind = kind /\ touch.lineage = LineageOf(place) /\ touch.place = BehindIn(values, base, place.path)
  BY TouchAtIs, ConcreteIs
<1>. HIDE DEF base
<1>3. IsPath(touch.place.path) /\ touch.place.local = base.target.local /\ Covers(base.target, touch.place)
  BY <1>1, <1>2, BehindIsPlace DEF IsPlace
<1>. QED  BY <1>1, <1>2, <1>3 DEF base

(* What was lent to a reference of the base of a place keeps an access of  *)
(* that place from it.                                                     *)
LEMMA LentKeeps ==
  ASSUME NEW bod, NEW b, NEW i, NEW s, Ready(bod, b, i, s), NEW r \in Alive(bod, b, i),
         NEW touch, NEW access, Accessed(bod, b, i, s, touch, access), Spoils(touch, r),
         NEW l \in pointers[r].lent, l.base = Base(access.place.local), Holds(l, pointers[r])
  PROVE  FALSE
<1>. DEFINE place == access.place
<1>1. /\ access \in Accesses(FlowAt(bod, b, i).carried, <<b, i>>, s) /\ access.exempt = OwnLoan(<<b, i>>, s)
      /\ touch = TouchAt(touch.kind, place)
      /\ touch.kind = "share" \/ access.kind \in {"borrow", "write", "move", "release"}
      /\ IsPath(place.path)
      /\ place.local \in References => place.local \in Alive(bod, b, i)
  BY ReadyIs DEF Accessed, ReachedBy
<1>2. touch.place = BehindIn(values, l.base, place.path) /\ IsPath(touch.place.path)
  BY <1>1, TouchedIs
<1>3. /\ LentIn(bod, FlowAt(bod, b, i).carried, values, steps, r, pointers[r], l)
      /\ LoanOf(l) \in InForce(FlowAt(bod, b, i).carried)
      /\ Points(bod, FlowAt(bod, b, i).carried, values, steps, r, pointers[r])
  BY ReadyLent
<1>4. LoanOf(l) \notin access.exempt
  BY <1>1, <1>3, ScopedIs
<1>5. KindsConflict(l.kind, access.kind)
  BY <1>1 DEF Spoils, Tolerates, Holds, Strong, KindsConflict
<1>6. l.base.local = place.local
  BY BaseIs DEF BaseAt, Own
<1>7. ~ Meet(l.place, touch.place)
  BY <1>1, <1>2, <1>4, <1>5, <1>6, LentApart
<1>8. IsPath(l.place.path) /\ IsPath(pointers[r].target.path)
  BY <1>3, LentPath DEF Points, IsPlace
<1>9. Meet(pointers[r].target, touch.place) /\ Covers(l.place, pointers[r].target)
  BY MeetSame DEF Spoils, Holds
<1>. QED  BY <1>2, <1>7, <1>8, <1>9, MeetDown

(* A touch through a reference that spoils another one: the two are rivals.*)
LEMMA SpoiledIsRival ==
  ASSUME NEW bod, NEW b, NEW i, NEW s, Ready(bod, b, i, s), NEW r \in Alive(bod, b, i),
         NEW kind, NEW place, IsPath(place.path), NEW w \in Alive(bod, b, i), w = place.local,
         kind # "share" => pointers[w].kind # "shared",
         NEW touch, touch = TouchAt(kind, place), Spoils(touch, r)
  PROVE  /\ r # w /\ Rivals(pointers[w], pointers[r])
         /\ MadeThrough(w, pointers[w], pointers[r]) \/ Beside(pointers[w], pointers[r])
<1>. DEFINE p == pointers[w]
            q == pointers[r]
<1>1. /\ touch.kind = kind /\ touch.lineage = LineageOf(place) /\ IsPath(touch.place.path)
      /\ Covers(Base(w).target, touch.place) /\ w \in References
  BY TouchedIs, ReadyLent
<1>2. Base(w).target = p.target /\ touch.lineage = p.lineage
  BY <1>1, BaseIs DEF BaseAt, LineageOf
<1>3. /\ Points(bod, FlowAt(bod, b, i).carried, values, steps, w, p)
      /\ Points(bod, FlowAt(bod, b, i).carried, values, steps, r, q)
  BY ReadyLent
<1>4. Meet(p.target, q.target)
  BY <1>1, <1>2, <1>3, MeetDown DEF Points, IsPlace, Spoils
<1>5. ~ (p.kind = "shared" /\ q.kind = "shared") /\ q.at \notin p.lineage
  BY <1>1, <1>2 DEF Spoils, Tolerates
<1>6. r # w
  BY <1>3, <1>5 DEF Points
<1>7. Rivals(p, q)
  BY <1>4, <1>5 DEF Rivals
<1>8. Diverge(w, p, q)
  BY <1>6, ReadyLent DEF Related
<1>. QED  BY <1>6, <1>7, <1>8 DEF Diverge

(* What two references were lent side by side, where they meet.            *)
LEMMA BesideIs ==
  ASSUME NEW bod, NEW b, NEW i, NEW s, Ready(bod, b, i, s), NEW w \in Alive(bod, b, i), NEW r \in Alive(bod, b, i),
         Meet(pointers[w].target, pointers[r].target), Beside(pointers[w], pointers[r])
  PROVE  \E l \in pointers[r].lent, m \in pointers[w].lent :
           /\ l.base = m.base /\ l.at # m.at /\ Holds(l, pointers[r]) /\ Holds(m, pointers[w])
           /\ Meet(l.place, m.place) /\ Meet(m.place, l.place) /\ l.kind # "mutable" /\ m.kind # "mutable"
           /\ l.kind \in Kinds /\ m.kind \in Kinds
<1>. DEFINE p == pointers[w]
            q == pointers[r]
            carried == FlowAt(bod, b, i).carried
<1>1. PICK l \in q.lent, m \in p.lent : l.base = m.base /\ l.at # m.at /\ Holds(l, q) /\ Holds(m, p)
  BY DEF Beside
<1>2. /\ Points(bod, carried, values, steps, w, p) /\ Points(bod, carried, values, steps, r, q)
      /\ LentIn(bod, carried, values, steps, r, q, l) /\ LentIn(bod, carried, values, steps, w, p, m)
      /\ Apart(q, p)
  BY ReadyLent
<1>3. /\ IsPath(l.place.path) /\ IsPath(m.place.path) /\ IsPath(p.target.path) /\ IsPath(q.target.path)
      /\ l.kind \in Kinds /\ m.kind \in Kinds
  <2>1. IsPath(l.place.path) /\ IsPath(m.place.path)
    BY <1>2, LentPath
  <2>2. IsPath(p.target.path) /\ IsPath(q.target.path)
    BY <1>2 DEF Points, IsPlace
  <2>3. l.kind \in Kinds /\ m.kind \in Kinds
    BY <1>2 DEF LentIn
  <2>. QED  BY <2>1, <2>2, <2>3
<1>4. Meet(l.place, m.place) /\ Meet(m.place, l.place)
  BY <1>1, <1>3, BesideMeet
<1>5. l.kind # "mutable" /\ m.kind # "mutable"
  BY <1>1, <1>2, <1>4 DEF Apart
<1>. QED  BY <1>1, <1>3, <1>4, <1>5

LEMMA AccessSpoilsNone ==
  ASSUME NEW bod, NEW b, NEW i, NEW s, Ready(bod, b, i, s), NEW r \in Alive(bod, b, i),
         NEW touch, NEW access, Accessed(bod, b, i, s, touch, access)
  PROVE  ~ Spoils(touch, r)
<1>1. SUFFICES ASSUME Spoils(touch, r) PROVE FALSE
  OBVIOUS
<1>. DEFINE place == access.place
            w == place.local
            q == pointers[r]
<1>2. /\ touch = TouchAt(touch.kind, place)
      /\ IsPath(place.path) /\ w \in Locals
      /\ w \in References => /\ w \in Alive(bod, b, i) /\ w \in Bases(bod)
                             /\ touch.kind # "share" => w \in Changing(bod)
  BY ReadyIs DEF Accessed, ReachedBy
<1>3. /\ Points(bod, FlowAt(bod, b, i).carried, values, steps, r, q) /\ Lowered(bod)
  BY ReadyLent, ReadyIs
<1>4. CASE w \notin References
  <2>1. touch.place.local = w
    BY <1>2, <1>4, TouchedIs, BaseIs, WholeIs DEF Own
  <2>2. q.target.local = w /\ w # Caller
    BY <1>1, <1>2, <2>1, CoversLocal, LocalsAssumption DEF Spoils
  <2>3. PICK l \in q.lent : l.base = Own(w) /\ Holds(l, q)
    BY <1>3, <2>2 DEF Points
  <2>. QED  BY <1>1, <1>4, <2>3, LentKeeps, BaseIs
<1>5. CASE w \in References
  <2>. DEFINE p == pointers[w]
  <2>1. Points(bod, FlowAt(bod, b, i).carried, values, steps, w, p)
    BY <1>2, <1>5, ReadyLent
  <2>2. touch.kind # "share" => p.kind # "shared"
    BY <1>2, <1>5, <2>1 DEF Points
  <2>3. Rivals(p, q) /\ (MadeThrough(w, p, q) \/ Beside(p, q))
    BY <1>1, <1>2, <1>5, <2>2, SpoiledIsRival
  <2>4. CASE MadeThrough(w, p, q)
    <3>1. PICK l \in q.lent : l.base = BaseAt(w, p) /\ Holds(l, q)
      BY <2>4 DEF MadeThrough
    <3>. QED  BY <1>1, <1>5, <3>1, LentKeeps, BaseIs
  <2>5. CASE Beside(p, q)
    <3>1. PICK l \in q.lent, m \in p.lent : Holds(l, q) /\ Holds(m, p) /\ l.kind # "mutable" /\ m.kind # "mutable"
      BY <1>2, <1>5, <2>3, <2>5, BesideIs DEF Rivals
    <3>2. p.kind # "mutable" /\ q.kind # "mutable"
      BY <3>1 DEF Holds, Strong
    <3>3. p.kind # "argument"
      BY <1>2, <1>3, <1>5, <2>1 DEF Points, Lowered
    <3>4. p.kind = "shared"
      BY <2>1, <3>2, <3>3 DEF Points, Kinds
    <3>5. touch.kind # "share"
      BY <1>1, <3>2 DEF Spoils, Tolerates
    <3>. QED  BY <2>2, <3>4, <3>5
  <2>. QED  BY <2>3, <2>4, <2>5
<1>. QED  BY <1>4, <1>5

LEMMA ActivationSpoilsNone ==
  ASSUME NEW bod, NEW b, NEW i, NEW s, Ready(bod, b, i, s), NEW r \in Alive(bod, b, i), r \in Alive(bod, b, i + 1),
         NEW touch, Activates(s, touch)
  PROVE  ~ Spoils(touch, r)
<1>1. SUFFICES ASSUME Spoils(touch, r) PROVE FALSE
  OBVIOUS
<1>2. PICK a \in Activated(s.value) \cap References : pointers[a].kind = "argument" /\ touch = TouchAt("borrow", Whole(a))
  BY DEF Activates
<1>. DEFINE p == pointers[a]
            q == pointers[r]
<1>3. s.do \in {"assign", "bind"} /\ a \in Alive(bod, b, i)
  BY ActivatedIs DEF Activates
<1>4. Points(bod, FlowAt(bod, b, i).carried, values, steps, a, p)
  BY <1>3, ReadyLent
<1>5. a \in Lends(bod, s)
  BY <1>2, <1>3, <1>4, ActivatedIs DEF Points
<1>6. a \in Lenders(bod)
  BY <1>5, LendsAre
<1>7. r # a
  BY <1>5, LendsAre
<1>8. Rivals(p, q) /\ (MadeThrough(a, p, q) \/ Beside(p, q))
  BY <1>1, <1>2, <1>3, SpoiledIsRival, WholeIs
<1>9. ~ MadeThrough(a, p, q)
  <2>1. SUFFICES ASSUME NEW l \in q.lent, l.base = BaseAt(a, p) PROVE FALSE
    BY DEF MadeThrough
  <2>2. l.base.local = a
    BY <2>1 DEF BaseAt
  <2>3. l.base.local \notin Lenders(bod)
    BY <2>1, ReadyLent DEF LentIn
  <2>. QED  BY <1>6, <2>2, <2>3
<1>10. PICK l \in q.lent, m \in p.lent :
         l.base = m.base /\ Holds(m, p) /\ Meet(m.place, l.place) /\ m.kind # "mutable" /\ m.kind \in Kinds
  BY <1>3, <1>8, <1>9, BesideIs DEF Rivals
<1>11. m.kind = "argument"
  BY <1>2, <1>10 DEF Holds, Strong, Kinds
<1>12. r = a
  BY <1>2, <1>3, <1>10, <1>11, ActivationApart
<1>. QED  BY <1>7, <1>12

LEMMA NoneIsSpoiled ==
  ASSUME NEW bod, NEW b, NEW i, NEW s, Ready(bod, b, i, s), NEW r \in Alive(bod, b, i + 1),
         ~ (s.do = "bind" /\ r = s.to.local), NEW touch \in Touches(s)
  PROVE  r \in Alive(bod, b, i) /\ ~ Spoils(touch, r)
<1>1. r \in Alive(bod, b, i)
  BY AliveStep DEF Ready
<1>2. (\E access : Accessed(bod, b, i, s, touch, access)) \/ Activates(s, touch)
  BY TouchIs
<1>. QED  BY <1>1, <1>2, AccessSpoilsNone, ActivationSpoilsNone
-----------------------------------------------------------------------------
(* What stays sound: fewer references, with more loans, later, and other   *)
(* values of numbers that no loan indexes with.                            *)
LEMMA BehindAgrees ==
  ASSUME NEW v, NEW w, NEW base, NEW place, IsPath(place.path), \A n \in IndexLocals(place) : v[n] = w[n]
  PROVE  BehindIn(v, base, place.path) = BehindIn(w, base, place.path)
<1>1. \A k \in DOMAIN place.path : StepIn(v, place.path[k]) = StepIn(w, place.path[k])
  BY DEF StepIn, IndexLocals
<1>2. PathIn(v, place.path) = PathIn(w, place.path)
  BY <1>1 DEF PathIn
<1>. QED  BY <1>2 DEF BehindIn

LEMMA OldKeeps == \A at : \A n, m \in Nat : Old(at, n) /\ n <= m => Old(at, m)
  BY DEF Old

LEMMA LentKept ==
  ASSUME NEW bod, NEW c, NEW d, NEW v, NEW w, NEW n \in Nat, NEW m \in Nat, n <= m, NEW r, c[r] \subseteq d[r],
         NEW p, NEW l, LentIn(bod, c, v, n, r, p, l), \A k \in IndexLocals(LoanOf(l).place) : v[k] = w[k]
  PROVE  LentIn(bod, d, w, m, r, p, l)
<1>1. LoanOf(l).place = l.loan.place
  BY LoanOfIs
<1>2. BehindIn(v, l.base, l.loan.place.path) = BehindIn(w, l.base, l.loan.place.path)
  BY <1>1, BehindAgrees DEF LentIn
<1>3. Old(l.at, m) /\ Old(l.base.at, m)
  BY OldKeeps DEF LentIn
<1>. QED  BY <1>2, <1>3 DEF LentIn

LEMMA Kept ==
  ASSUME NEW bod, NEW S, NEW T, T \subseteq S, NEW c, NEW d, \A r \in T : c[r] \subseteq d[r],
         NEW v, NEW w, NEW n \in Nat, NEW m \in Nat, n <= m, NEW ptrs, NEW qtrs, \A r \in T : qtrs[r] = ptrs[r],
         Sound(bod, S, c, v, n, ptrs),
         \A r \in T : \A l \in ptrs[r].lent : \A k \in IndexLocals(LoanOf(l).place) : v[k] = w[k]
  PROVE  Sound(bod, T, d, w, m, qtrs)
<1>1. ASSUME NEW r \in T
      PROVE  Points(bod, d, w, m, r, qtrs[r])
  <2>. DEFINE p == ptrs[r]
  <2>1. Points(bod, c, v, n, r, p) /\ c[r] \subseteq d[r] /\ qtrs[r] = p
    BY DEF Sound
  <2>2. ASSUME NEW l \in p.lent
        PROVE  LentIn(bod, d, w, m, r, p, l)
    <3>1. LentIn(bod, c, v, n, r, p, l)
      BY <2>1 DEF Points
    <3>. QED  BY <2>1, <3>1, LentKept
  <2>3. \A at \in p.lineage : Old(at, m)
    BY <2>1, OldKeeps DEF Points
  <2>. HIDE DEF p
  <2>4. Points(bod, d, w, m, r, p)
    BY <2>1, <2>2, <2>3 DEF Points
  <2>. QED  BY <2>1, <2>4
<1>2. ASSUME NEW r \in T, NEW q \in T
      PROVE  Apart(qtrs[r], qtrs[q]) /\ (r # q => Related(bod, r, qtrs[r], qtrs[q]))
  BY DEF Sound
<1>. QED  BY <1>1, <1>2 DEF Sound

(* The references that a statement does not bind.                          *)
Others(bod, b, i, s) == {r \in Alive(bod, b, i + 1) : ~ (s.do = "bind" /\ r = s.to.local)}
LEMMA Stays ==
  ASSUME NEW bod, NEW b, NEW i, NEW s, Ready(bod, b, i, s), NEW w,
         \A n \in Numbers \ ChangedLocals(FlowAt(bod, b, i).carried, s) : w[n] = values[n]
  PROVE  /\ Others(bod, b, i, s) \subseteq Alive(bod, b, i)
         /\ \A r \in Others(bod, b, i, s) :
              /\ Remaining(s)[r] = pointers[r]
              /\ FlowAt(bod, b, i + 1).carried[r] = FlowAt(bod, b, i).carried[r]
              /\ \A l \in pointers[r].lent : \A k \in IndexLocals(LoanOf(l).place) : values[k] = w[k]
         /\ Sound(bod, Others(bod, b, i, s), FlowAt(bod, b, i + 1).carried, w, steps + 1, Remaining(s))
<1>. DEFINE T == Others(bod, b, i, s)
            c == FlowAt(bod, b, i).carried
            d == FlowAt(bod, b, i + 1).carried
<1>1. /\ bod \in Bodies /\ MovesAccepted(bod) /\ b \in Reachable(bod) /\ i \in 1 .. Len(bod.statements[b])
      /\ s = bod.statements[b][i] /\ steps \in Nat /\ Sound(bod, Alive(bod, b, i), c, values, steps, pointers)
  BY DEF Ready
<1>2. ASSUME NEW r \in T
      PROVE  /\ r \in References /\ r \in Alive(bod, b, i) /\ d[r] = c[r] /\ Remaining(s)[r] = pointers[r]
             /\ \A l \in pointers[r].lent : \A k \in IndexLocals(LoanOf(l).place) : values[k] = w[k]
  <2>1. r \in Alive(bod, b, i + 1) /\ ~ (s.do = "bind" /\ r = s.to.local)
    BY DEF Others
  <2>2. r \in References /\ r \in Alive(bod, b, i) /\ d[r] = c[r]
    BY <1>1, <2>1, CarriedBehind
  <2>3. \A touch \in Touches(s) : ~ Spoils(touch, r)
    BY <2>1, NoneIsSpoiled
  <2>4. Remaining(s)[r] = pointers[r]
    BY <2>2, <2>3 DEF Remaining
  <2>5. ASSUME NEW l \in pointers[r].lent, NEW k \in IndexLocals(LoanOf(l).place)
        PROVE  values[k] = w[k]
    <3>1. LentIn(bod, c, values, steps, r, pointers[r], l) /\ LoanOf(l) \in c[r] /\ LoanOf(l).place = l.loan.place
      BY <2>2, ReadyLent, LoanOfIs
    <3>2. k \in Numbers
      BY <3>1 DEF LentIn
    <3>3. LoanOf(l) \in InForce(d)
      BY <2>2, <3>1 DEF InForce
    <3>4. k \notin ChangedLocals(c, s)
      BY <3>3, ScopedIs
    <3>. QED  BY <3>2, <3>4
  <2>. QED  BY <2>2, <2>4, <2>5
<1>. HIDE DEF T, c, d
<1>3. Sound(bod, T, d, w, steps + 1, Remaining(s))
  <2>1. /\ T \subseteq Alive(bod, b, i) /\ \A r \in T : c[r] \subseteq d[r]
        /\ \A r \in T : Remaining(s)[r] = pointers[r]
        /\ \A r \in T : \A l \in pointers[r].lent : \A k \in IndexLocals(LoanOf(l).place) : values[k] = w[k]
        /\ steps \in Nat /\ steps + 1 \in Nat /\ steps <= steps + 1
    BY <1>1, <1>2
  <2>. QED  BY <1>1, <2>1, Kept
<1>. QED  BY <1>2, <1>3 DEF T, c, d
-----------------------------------------------------------------------------
(* A new reference among those that are sound.                             *)
Joins(bod, T, c, v, n, ptrs, to, p) ==
  /\ Points(bod, c, v, n, to, p) /\ Apart(p, p)
  /\ \A r \in T : Apart(p, ptrs[r]) /\ Related(bod, r, ptrs[r], p) /\ Related(bod, to, p, ptrs[r])
LEMMA Added ==
  ASSUME NEW bod, NEW T, NEW c, NEW v, NEW n, NEW ptrs, Sound(bod, T, c, v, n, ptrs), NEW to,
         NEW p, Joins(bod, T, c, v, n, ptrs, to, p), NEW qtrs, qtrs[to] = p, \A r \in T : qtrs[r] = ptrs[r],
         NEW U, U \subseteq T \cup {to}, to \notin T
  PROVE  Sound(bod, U, c, v, n, qtrs)
<1>1. \A r \in U : r \in T \/ r = to
  OBVIOUS
<1>2. ASSUME NEW r \in U
      PROVE  Points(bod, c, v, n, r, qtrs[r])
  <2>1. r = to => qtrs[r] = p
    OBVIOUS
  <2>2. r \in T => Points(bod, c, v, n, r, ptrs[r]) /\ qtrs[r] = ptrs[r]
    BY DEF Sound
  <2>. QED  BY <1>1, <2>1, <2>2 DEF Joins
<1>3. ASSUME NEW r \in U, NEW q \in U
      PROVE  Apart(qtrs[r], qtrs[q]) /\ (r # q => Related(bod, r, qtrs[r], qtrs[q]))
  <2>1. CASE r \in T /\ q \in T
    BY <2>1 DEF Sound
  <2>2. CASE r = to /\ q \in T
    BY <2>2 DEF Joins
  <2>3. CASE r \in T /\ q = to
    BY <2>3, ApartBoth DEF Joins
  <2>4. CASE r = to /\ q = to
    BY <2>4 DEF Joins
  <2>. QED  BY <1>1, <2>1, <2>2, <2>3, <2>4
<1>. QED  BY <1>2, <1>3 DEF Sound

LEMMA Bound ==
  ASSUME NEW bod, NEW b, NEW i, NEW s, Ready(bod, b, i, s), s.do = "bind", NEW to, to = s.to.local, NEW w,
         \A n \in Numbers \ ChangedLocals(FlowAt(bod, b, i).carried, s) : w[n] = values[n],
         ArePointers(pointers), NEW p,
         to \in Alive(bod, b, i + 1) =>
           Joins(bod, Others(bod, b, i, s), FlowAt(bod, b, i + 1).carried, w, steps + 1, pointers, to, p)
  PROVE  Sound(bod, Alive(bod, b, i + 1), FlowAt(bod, b, i + 1).carried, w, steps + 1, [Remaining(s) EXCEPT ![to] = p])
<1>. DEFINE T == Others(bod, b, i, s)
            U == Alive(bod, b, i + 1)
            d == FlowAt(bod, b, i + 1).carried
            qtrs == [Remaining(s) EXCEPT ![to] = p]
<1>1. to \notin T /\ U \subseteq T \cup {to} /\ (to \notin U => U = T) /\ U \subseteq References
  BY DEF Others, Alive
<1>2. Sound(bod, T, d, w, steps + 1, Remaining(s)) /\ \A r \in T : Remaining(s)[r] = pointers[r]
  BY Stays
<1>3. /\ \A r \in T : qtrs[r] = Remaining(s)[r]
      /\ to \in References => qtrs[to] = p
  <2>1. Remaining(s) = [r \in References |-> Remaining(s)[r]]
    BY RemainingKeeps DEF ArePointers
  <2>2. \A r \in T : r # to /\ r \in References
    BY <1>1 DEF Others, Alive
  <2>. DEFINE f == Remaining(s)
  <2>. HIDE DEF f, T
  <2>. QED  BY <2>1, <2>2 DEF f
<1>. HIDE DEF T, U, d, qtrs
<1>4. CASE to \notin U
  <2>1. Sound(bod, U, d, w, steps + 1, Remaining(s)) /\ \A r \in U : qtrs[r] = Remaining(s)[r]
    BY <1>1, <1>2, <1>3, <1>4
  <2>. QED  BY <2>1 DEF Sound, U, d, qtrs
<1>5. CASE to \in U
  <2>1. Joins(bod, T, d, w, steps + 1, pointers, to, p)
    BY <1>5 DEF T, U, d
  <2>2. Joins(bod, T, d, w, steps + 1, Remaining(s), to, p)
    BY <1>2, <2>1 DEF Joins
  <2>3. to \in References
    BY <1>1, <1>5
  <2>4. Sound(bod, U, d, w, steps + 1, qtrs)
    BY <1>1, <1>2, <1>3, <2>2, <2>3, Added
  <2>. QED  BY <2>4 DEF U, d, qtrs
<1>. QED  BY <1>4, <1>5
-----------------------------------------------------------------------------
(* A borrow: it is lent what it borrows by a loan of its own, and what the *)
(* reference that it borrows through was lent.                             *)
Borrows(bod, b, i, s) ==
  /\ Ready(bod, b, i, s) /\ s.do = "bind" /\ s.value.is = "ref" /\ s.to.local \in Alive(bod, b, i + 1)
OwnLent(at, s) ==
  Lent(Loan(at, s.value.kind, s.value.place, s.to.local), Base(s.value.place.local), Concrete(s.value.place),
       Binding(s.to.local))
BorrowOf(at, s) ==
  Pointer(s.value.kind, Concrete(s.value.place), Binding(s.to.local), LineageOf(s.value.place),
          LentBy(s.value.place) \cup {OwnLent(at, s)})

LEMMA BindingIsNew ==
  ASSUME steps \in Nat, NEW r
  PROVE  ~ Old(Binding(r), steps) /\ Old(Binding(r), steps + 1) /\ Binding(r) # <<>>
<1>1. Binding(r)[1] = steps + 1 /\ Binding(r) # <<>>
  BY DEF Binding
<1>. QED  BY <1>1 DEF Old

LEMMA LentFields == \A loan, base, place, at :
  /\ Lent(loan, base, place, at).loan = loan /\ Lent(loan, base, place, at).base = base
  /\ Lent(loan, base, place, at).place = place /\ Lent(loan, base, place, at).at = at
  /\ Lent(loan, base, place, at).kind = loan.kind
  /\ Lent(loan, base, place, at) = [loan |-> loan, base |-> base, place |-> place, at |-> at, kind |-> loan.kind]
  BY DEF Lent
LEMMA LoanFields == \A made, kind, place, by :
  /\ Loan(made, kind, place, by).made = made /\ Loan(made, kind, place, by).kind = kind
  /\ Loan(made, kind, place, by).place = place /\ Loan(made, kind, place, by).by = by /\ IsLoan(Loan(made, kind, place, by))
  BY DEF Loan, IsLoan
LEMMA CoversSelf == \A p : IsPath(p.path) => Covers(p, p)
<1>1. SUFFICES ASSUME NEW p, IsPath(p.path) PROVE Covers(p, p)
  OBVIOUS
<1>2. Len(p.path) \in Nat
  BY <1>1, PathLen
<1>3. IsPrefix(p.path, p.path)
  BY <1>1, <1>2, PrefixMeans
<1>. QED  BY <1>3 DEF Covers

LEMMA BorrowIs ==
  ASSUME NEW bod, NEW b, NEW i, NEW s, Borrows(bod, b, i, s), NEW place, place = s.value.place, NEW y, y = place.local
  PROVE  /\ y \in References => y \in Alive(bod, b, i)
         /\ y \in Locals /\ y \notin Lenders(bod) \cup Reserved(bod)
         /\ y \in References => pointers[y].kind # "argument"
         /\ y \in References /\ s.value.kind # "shared" => pointers[y].kind = "mutable"
         /\ IsPath(place.path) /\ IndexLocals(place) \subseteq Numbers /\ s.value.kind \in Kinds
<1>1. /\ Ready(bod, b, i, s) /\ s \in StatementsOf(bod) /\ WellFormed(bod) /\ Lowered(bod) /\ bod \in Bodies
      /\ (Reads(s) \cup Changes(s)) \cap References \subseteq Alive(bod, b, i)
      /\ s.do = "bind" /\ s.value.is = "ref"
  BY ReadyIs DEF Ready, Borrows
<1>2. place \in UsedPlaces(s) /\ y \in Reads(s)
  BY <1>1, OperandsRead
<1>3. place \in NamedPlaces(s) /\ y \in LocalsOf(NamedPlaces(s))
  BY <1>2 DEF NamedPlaces, LocalsOf
<1>4. IsPath(place.path)
  BY <1>1, <1>2, StatementsTyped
<1>5. y \in Locals /\ IndexLocals(place) \subseteq Numbers
  BY <1>1, <1>3 DEF Lowered
<1>6. s.value.kind \in Kinds
  BY <1>1 DEF Lowered, Kinds
<1>7. y \in Bases(bod) /\ (s.value.kind # "shared" => y \in Changing(bod))
  BY <1>1 DEF Bases, Changing
<1>8. y \notin Lenders(bod) \cup Reserved(bod)
  BY <1>1, <1>7 DEF Lowered
<1>9. y \in References => y \in Alive(bod, b, i)
  BY <1>1, <1>2
<1>10. y \in References => pointers[y].kind # "argument" /\ (s.value.kind # "shared" => pointers[y].kind = "mutable")
  <2>1. y \in References => Points(bod, FlowAt(bod, b, i).carried, values, steps, y, pointers[y])
    BY <1>1, <1>9, ReadyLent
  <2>. QED  BY <1>7, <1>8, <2>1 DEF Points, Kinds
<1>. QED  BY <1>4, <1>5, <1>6, <1>8, <1>9, <1>10

LEMMA BorrowPointer ==
  ASSUME NEW at, NEW s, NEW p, p = BorrowOf(at, s), NEW place, place = s.value.place
  PROVE  /\ p # NoPointer /\ p.kind = s.value.kind /\ p.target = Concrete(place) /\ p.at = Binding(s.to.local)
         /\ ~ p.spoiled
         /\ \A x : x \in p.lineage <=> x \in LineageOf(place) \/ x = Binding(s.to.local)
         /\ \A l : l \in p.lent <=> l \in LentBy(place) \/ l = OwnLent(at, s)
<1>. DEFINE kind == s.value.kind
            target == Concrete(place)
            new == Binding(s.to.local)
            lineage == LineageOf(place)
            before == LentBy(place)
            own == OwnLent(at, s)
            lent == before \cup {own}
<1>1. p = Pointer(kind, target, new, lineage, lent)
  BY DEF BorrowOf
<1>. HIDE DEF kind, target, new, lineage, before, own
<1>2. /\ p # NoPointer /\ p.kind = kind /\ p.target = target /\ p.at = new /\ p.lineage = lineage \cup {new}
      /\ p.lent = lent /\ ~ p.spoiled
  BY <1>1, NoPointerIs DEF Pointer
<1>3. /\ \A x : x \in p.lineage <=> x \in lineage \/ x = new
      /\ \A l : l \in p.lent <=> l \in before \/ l = own
  BY <1>2
<1>. QED  BY <1>2, <1>3 DEF kind, target, new, lineage, before, own

LEMMA OwnIs ==
  ASSUME NEW at, NEW s, NEW own, own = OwnLent(at, s), NEW place, place = s.value.place
  PROVE  /\ own.loan = LoanOf(own) /\ own.base = Base(place.local) /\ own.place = Concrete(place)
         /\ own.at = Binding(s.to.local) /\ own.kind = s.value.kind
         /\ own.loan.place = place /\ own.loan.by = s.to.local /\ IsLent(own)
         /\ own.loan = Loan(at, s.value.kind, place, s.to.local)
<1>. DEFINE loan == Loan(at, s.value.kind, place, s.to.local)
            base == Base(place.local)
            target == Concrete(place)
            new == Binding(s.to.local)
<1>1. loan.kind = s.value.kind /\ IsLoan(loan) /\ loan.place = place /\ loan.by = s.to.local
  BY LoanFields
<1>2. own = Lent(loan, base, target, new)
  BY DEF OwnLent
<1>. HIDE DEF loan, base, target, new
<1>3. /\ own.loan = loan /\ own.base = base /\ own.place = target /\ own.at = new /\ own.kind = loan.kind
      /\ own = [loan |-> loan, base |-> base, place |-> target, at |-> new, kind |-> loan.kind]
  BY <1>2, LentFields
<1>4. IsLent(own)
  BY <1>1, <1>3 DEF IsLent
<1>5. LoanOf(own) = loan
  BY <1>1, <1>3 DEF LoanOf, IsLoan
<1>. QED  BY <1>1, <1>3, <1>4, <1>5 DEF loan, base, target, new

(* What a borrow is made through holds what it points at.                  *)
LEMMA BorrowHolds ==
  ASSUME NEW bod, NEW b, NEW i, NEW s, Borrows(bod, b, i, s), NEW at, NEW p, p = BorrowOf(at, s),
         NEW place, place = s.value.place, NEW y, y = place.local, NEW own, own = OwnLent(at, s), NEW q, q = pointers[y]
  PROVE  /\ IsPlace(p.target) /\ IsPath(p.target.path) /\ IsPath(Base(y).target.path)
         /\ p.target = BehindIn(values, Base(y), place.path) /\ p.target.local = Base(y).target.local
         /\ Holds(own, p)
         /\ y \in References => Covers(q.target, p.target) /\ \A l \in q.lent : Holds(l, q) => Holds(l, p)
         /\ y \notin References => p.target.local = y
<1>1. /\ Ready(bod, b, i, s) /\ IsPath(place.path)
      /\ y \in References => y \in Alive(bod, b, i)
      /\ y \in References /\ s.value.kind # "shared" => q.kind = "mutable"
  BY BorrowIs DEF Borrows
<1>2. p.kind = s.value.kind /\ p.target = Concrete(place) /\ own.place = Concrete(place) /\ own.kind = s.value.kind
  <2>1. p.kind = s.value.kind /\ p.target = Concrete(place)
    BY BorrowPointer
  <2>2. own.place = Concrete(place) /\ own.kind = s.value.kind
    BY OwnIs
  <2>. QED  BY <2>1, <2>2
<1>3. /\ IsPath(Base(y).target.path) /\ p.target = BehindIn(values, Base(y), place.path)
      /\ p.target.local = Base(y).target.local /\ Covers(Base(y).target, p.target)
  <2>. DEFINE touch == TouchAt("share", place)
  <2>1. touch.place = p.target
    BY <1>2, TouchAtIs
  <2>2. touch = TouchAt("share", place)
    OBVIOUS
  <2>. HIDE DEF touch
  <2>3. /\ touch.place = BehindIn(values, Base(y), place.path) /\ IsPath(Base(y).target.path)
        /\ touch.place.local = Base(y).target.local /\ Covers(Base(y).target, touch.place)
    BY <1>1, <2>2, TouchedIs
  <2>. QED  BY <2>1, <2>3
<1>4. IsPlace(p.target) /\ IsPath(p.target.path)
  BY <1>1, <1>3, BehindIsPlace DEF IsPlace
<1>5. Holds(own, p)
  <2>1. Covers(own.place, p.target)
    BY <1>2, <1>4, CoversSelf
  <2>. QED  BY <1>2, <2>1 DEF Holds, Strong
<1>6. y \in References => Covers(q.target, p.target)
  BY <1>3, BaseIs DEF BaseAt
<1>7. ASSUME y \in References, NEW l \in q.lent, Holds(l, q)
      PROVE  Holds(l, p)
  <2>1. IsPath(q.target.path) /\ IsPath(l.place.path)
    <3>1. Points(bod, FlowAt(bod, b, i).carried, values, steps, y, q)
      BY <1>1, <1>7, ReadyLent
    <3>2. LentIn(bod, FlowAt(bod, b, i).carried, values, steps, y, q, l)
      BY <1>1, <1>7, ReadyLent
    <3>. QED  BY <3>1, <3>2, LentPath DEF Points, IsPlace
  <2>2. Covers(l.place, p.target)
    BY <1>4, <1>6, <1>7, <2>1, CoversTransitive DEF Holds
  <2>3. Strong(p.kind, l.kind)
    BY <1>1, <1>2, <1>7 DEF Holds, Strong
  <2>. QED  BY <2>2, <2>3 DEF Holds
<1>8. y \notin References => p.target.local = y
  BY <1>3, BaseIs, WholeIs DEF Own
<1>. QED  BY <1>3, <1>4, <1>5, <1>6, <1>7, <1>8

(* A borrow points at what it was lent.                                    *)
LEMMA BorrowPoints ==
  ASSUME NEW bod, NEW b, NEW i, NEW s, Borrows(bod, b, i, s), NEW at, at = <<b, i>>, NEW p, p = BorrowOf(at, s),
         NEW to, to = s.to.local
  PROVE  Points(bod, FlowAt(bod, b, i + 1).carried, values, steps + 1, to, p)
<1>. DEFINE place == s.value.place
            y == place.local
            q == pointers[y]
            own == OwnLent(at, s)
            c == FlowAt(bod, b, i).carried
            d == FlowAt(bod, b, i + 1).carried
<1>1. /\ Ready(bod, b, i, s) /\ s.do = "bind" /\ s.value.is = "ref" /\ to \in Alive(bod, b, i + 1)
      /\ s \in StatementsOf(bod) /\ Lowered(bod) /\ steps \in Nat
  BY ReadyIs DEF Borrows, Ready
<1>2. /\ y \in References => y \in Alive(bod, b, i)
      /\ y \in Locals /\ y \notin Lenders(bod) \cup Reserved(bod)
      /\ IsPath(place.path) /\ IndexLocals(place) \subseteq Numbers /\ s.value.kind \in Kinds
  BY BorrowIs
<1>3. /\ p # NoPointer /\ p.kind = s.value.kind /\ p.at = Binding(to) /\ ~ p.spoiled
      /\ \A x : x \in p.lineage <=> x \in LineageOf(place) \/ x = Binding(to)
      /\ \A l : l \in p.lent <=> l \in LentBy(place) \/ l = own
  BY BorrowPointer
<1>4. /\ IsPlace(p.target) /\ p.target.local = Base(y).target.local /\ Holds(own, p) /\ IsPath(Base(y).target.path)
      /\ p.target = BehindIn(values, Base(y), place.path)
      /\ y \in References => \A l \in q.lent : Holds(l, q) => Holds(l, p)
      /\ y \notin References => p.target.local = y
  BY BorrowHolds
<1>5. y \in References => LineageOf(place) = q.lineage /\ LentBy(place) = q.lent
  BY DEF LineageOf, LentBy
<1>6. y \notin References => LineageOf(place) = {} /\ LentBy(place) = {}
  BY DEF LineageOf, LentBy
<1>7. /\ to \in Changing(bod) => p.kind # "shared"
      /\ to \notin Reserved(bod) => p.kind # "argument"
      /\ to \in Lenders(bod) => p.kind # "mutable"
  <2>1. to \in Changing(bod) => p.kind # "shared"
    BY <1>1, <1>3 DEF Lowered
  <2>2. to \notin Reserved(bod) => p.kind # "argument"
    BY <1>1, <1>3 DEF Reserved
  <2>3. to \in Lenders(bod) => p.kind # "mutable"
    BY <1>1, <1>3 DEF Lowered
  <2>. QED  BY <2>1, <2>2, <2>3
<1>8. y \in References => Points(bod, c, values, steps, y, q) /\ \A l \in q.lent : LentIn(bod, c, values, steps, y, q, l)
  BY <1>1, <1>2, ReadyLent
<1>9. p.at \in p.lineage /\ \A x \in p.lineage : Old(x, steps + 1)
  <2>1. Old(Binding(to), steps + 1)
    BY <1>1, BindingIsNew
  <2>2. ASSUME NEW x \in p.lineage, x # Binding(to)
        PROVE  Old(x, steps + 1)
    <3>1. y \in References /\ x \in q.lineage
      BY <1>3, <1>5, <1>6, <2>2
    <3>2. Old(x, steps)
      BY <1>8, <3>1 DEF Points
    <3>. QED  BY <1>1, <3>2, OldKeeps
  <2>. QED  BY <1>3, <2>1, <2>2
<1>10. d[to] = OwnLoan(at, s) \cup (IF y \in References THEN c[y] ELSE {})
  <2>1. d[to] = CarriedOn(c, <<b, i>>, s)
    BY <1>1, CarriedBehind DEF Ready
  <2>. QED  BY <1>1, <2>1 DEF CarriedOn
<1>11. LentIn(bod, d, values, steps + 1, to, p, own)
  <2>1. /\ own.loan = LoanOf(own) /\ own.base = Base(y) /\ own.place = Concrete(place)
        /\ own.at = Binding(to) /\ own.kind = s.value.kind
        /\ own.loan.place = place /\ own.loan.by = to /\ IsLent(own)
        /\ own.loan = Loan(at, s.value.kind, place, to)
    BY OwnIs
  <2>2. LoanOf(own) \in d[to]
    <3>1. LoanOf(own) \in OwnLoan(at, s)
      BY <1>1, <2>1 DEF OwnLoan
    <3>. QED  BY <1>10, <3>1
  <2>3. Base(y).local = y /\ Old(Base(y).at, steps)
    <3>1. CASE y \in References
      <4>1. Old(q.at, steps)
        BY <1>8, <3>1 DEF Points
      <4>. QED  BY <3>1, <4>1, BaseIs DEF BaseAt
    <3>2. CASE y \notin References
      BY <3>2, BaseIs DEF Own, Old
    <3>. QED  BY <3>1, <3>2
  <2>4. Old(own.at, steps + 1) /\ Old(own.base.at, steps + 1) /\ own.base.at # p.at /\ p.at = own.at
    BY <1>1, <1>3, <2>1, <2>3, BindingIsNew, OldKeeps
  <2>5. own.place = BehindIn(values, own.base, own.loan.place.path)
    BY <2>1, ConcreteIs
  <2>6. own.kind = "argument" => own.loan.by = to /\ to \in Reserved(bod) /\ own.at = p.at
    BY <1>3, <1>7, <2>1
  <2>7. IsPath(own.loan.place.path) /\ IndexLocals(own.loan.place) \subseteq Numbers /\ own.kind \in Kinds
    BY <1>2, <2>1
  <2>8. /\ IsPath(own.base.target.path) /\ own.base.local = own.loan.place.local
        /\ own.base.local \notin Lenders(bod) \cup Reserved(bod) /\ IsLent(own)
    BY <1>2, <1>4, <2>1, <2>3
  <2>. HIDE DEF own, place, y, d
  <2>. QED  BY <2>2, <2>4, <2>5, <2>6, <2>7, <2>8 DEF LentIn
<1>12. ASSUME y \in References, NEW l \in q.lent
       PROVE  LentIn(bod, d, values, steps + 1, to, p, l)
  <2>1. LentIn(bod, c, values, steps, y, q, l)
    BY <1>8, <1>12
  <2>2. l.kind # "argument"
    BY <1>2, <2>1 DEF LentIn
  <2>3. LoanOf(l) \in d[to]
    BY <1>10, <1>12, <2>1 DEF LentIn
  <2>4. Old(l.at, steps + 1) /\ Old(l.base.at, steps + 1) /\ l.base.at # p.at
    BY <1>1, <1>3, <2>1, BindingIsNew, OldKeeps DEF LentIn
  <2>. QED  BY <2>1, <2>2, <2>3, <2>4 DEF LentIn
<1>13. \A l \in p.lent : LentIn(bod, d, values, steps + 1, to, p, l)
  BY <1>3, <1>5, <1>6, <1>11, <1>12
<1>14. ASSUME p.target.local # Caller
       PROVE  p.target.local \notin References /\ \E l \in p.lent : l.base = Own(p.target.local) /\ Holds(l, p)
  <2>1. CASE y \notin References
    <3>1. own.base = Own(y) /\ own \in p.lent
      <4>1. own.base = Base(y)
        BY OwnIs
      <4>. QED  BY <1>3, <2>1, <4>1, BaseIs
    <3>. QED  BY <1>4, <2>1, <3>1
  <2>2. CASE y \in References
    <3>1. p.target.local = q.target.local
      BY <1>4, <2>2, BaseIs DEF BaseAt
    <3>2. q.target.local \notin References /\ \E l \in q.lent : l.base = Own(q.target.local) /\ Holds(l, q)
      BY <1>8, <1>14, <2>2, <3>1 DEF Points
    <3>. QED  BY <1>3, <1>4, <1>5, <2>2, <3>1, <3>2
  <2>. QED  BY <2>1, <2>2
<1>. HIDE DEF d
<1>15. p.kind \in Kinds
  BY <1>2, <1>3
<1>16. Points(bod, d, values, steps + 1, to, p)
  BY <1>3, <1>4, <1>7, <1>9, <1>13, <1>14, <1>15 DEF Points
<1>. QED  BY <1>16 DEF d

(* What is lent by the borrow no loan in force holds that suffers it.      *)
LEMMA BorrowApart ==
  ASSUME NEW bod, NEW b, NEW i, NEW s, Borrows(bod, b, i, s), NEW at, at = <<b, i>>, NEW p, p = BorrowOf(at, s),
         NEW r \in Alive(bod, b, i)
  PROVE  Apart(p, pointers[r])
<1>. DEFINE place == s.value.place
            y == place.local
            q == pointers[y]
            own == OwnLent(at, s)
            c == FlowAt(bod, b, i).carried
<1>1. SUFFICES ASSUME NEW l \in p.lent, NEW m \in pointers[r].lent, l.at # m.at, l.base = m.base, Meet(l.place, m.place)
               PROVE  l.kind # "mutable" /\ m.kind # "mutable"
  BY DEF Apart
<1>2. Ready(bod, b, i, s) /\ s.do = "bind" /\ s.value.is = "ref"
  BY DEF Borrows
<1>3. \A x : x \in p.lent <=> x \in LentBy(place) \/ x = own
  BY BorrowPointer
<1>4. IsPath(place.path) /\ (y \in References => y \in Alive(bod, b, i))
  BY BorrowIs
<1>5. CASE l \in LentBy(place)
  <2>1. y \in References /\ l \in q.lent
    BY <1>5 DEF LentBy
  <2>2. Apart(q, pointers[r])
    BY <1>2, <1>4, <2>1, ReadyLent
  <2>. QED  BY <1>1, <2>1, <2>2 DEF Apart
<1>6. CASE l = own
  <2>1. own.base = Base(y) /\ own.place = Concrete(place) /\ own.kind = s.value.kind
    BY OwnIs
  <2>. DEFINE access == Made(RefAccess(s.value.kind), place, OwnLoan(<<b, i>>, s))
  <2>2. access \in Accesses(c, <<b, i>>, s)
    BY <1>2 DEF Accesses
  <2>3. access.kind = RefAccess(s.value.kind) /\ access.place = place /\ access.exempt = OwnLoan(<<b, i>>, s)
    <3>. DEFINE exempt == OwnLoan(<<b, i>>, s)
                kind == RefAccess(s.value.kind)
    <3>1. access = Made(kind, place, exempt)
      OBVIOUS
    <3>. HIDE DEF access, kind, exempt, place
    <3>2. access.kind = kind /\ access.place = place /\ access.exempt = exempt
      BY <3>1, MadeIs
    <3>. QED  BY <3>2 DEF kind, exempt
  <2>4. LoanOf(m) \notin access.exempt
    BY <1>2, <2>3, ReadyLent, ScopedIs
  <2>5. m.base.local = y
    BY <1>1, <1>6, <2>1, BaseIs DEF BaseAt, Own
  <2>6. own.place = BehindIn(values, m.base, place.path)
    BY <1>1, <1>6, <2>1, ConcreteIs
  <2>. HIDE DEF access
  <2>7. ~ KindsConflict(m.kind, access.kind)
    <3>1. SUFFICES ASSUME KindsConflict(m.kind, access.kind) PROVE FALSE
      OBVIOUS
    <3>2. m.base.local = access.place.local /\ IsPath(access.place.path)
      BY <1>4, <2>3, <2>5
    <3>3. ~ Meet(m.place, BehindIn(values, m.base, access.place.path))
      BY <1>2, <2>2, <2>4, <3>1, <3>2, LentApart
    <3>. QED  BY <1>1, <1>6, <2>3, <2>6, <3>3, MeetSame
  <2>8. s.value.kind # "mutable"
    BY <2>3, <2>7 DEF KindsConflict, RefAccess
  <2>. QED  BY <1>6, <2>1, <2>7, <2>8 DEF KindsConflict
<1>. QED  BY <1>3, <1>5, <1>6

LEMMA BorrowAlone ==
  ASSUME NEW bod, NEW b, NEW i, NEW s, Borrows(bod, b, i, s), NEW at, at = <<b, i>>, NEW p, p = BorrowOf(at, s)
  PROVE  Apart(p, p)
<1>. DEFINE place == s.value.place
            y == place.local
            q == pointers[y]
            own == OwnLent(at, s)
<1>1. SUFFICES ASSUME NEW l \in p.lent, NEW m \in p.lent, l.at # m.at, l.base = m.base, Meet(l.place, m.place)
               PROVE  l.kind # "mutable" /\ m.kind # "mutable"
  BY DEF Apart
<1>2. Ready(bod, b, i, s)
  BY DEF Borrows
<1>3. \A x : x \in p.lent <=> x \in LentBy(place) \/ x = own
  BY BorrowPointer
<1>4. y \in References => y \in Alive(bod, b, i)
  BY BorrowIs
<1>5. own.base = Base(y)
  BY OwnIs
<1>6. ASSUME NEW x \in LentBy(place)
      PROVE  y \in References /\ x \in q.lent /\ x.base # own.base
  <2>1. y \in References /\ x \in q.lent
    BY DEF LentBy
  <2>2. x.base.at # q.at
    BY <1>2, <1>4, <2>1, ReadyLent DEF LentIn
  <2>3. own.base.at = q.at
    BY <1>5, <2>1, BaseIs DEF BaseAt
  <2>. QED  BY <2>1, <2>2, <2>3
<1>7. CASE l \in LentBy(place) /\ m \in LentBy(place)
  <2>1. Apart(q, q) /\ l \in q.lent /\ m \in q.lent
    BY <1>2, <1>4, <1>6, <1>7, ReadyLent
  <2>. QED  BY <1>1, <2>1 DEF Apart
<1>. QED  BY <1>1, <1>3, <1>6, <1>7

(* The borrow and each other reference: what was made through which, and   *)
(* what both were lent.                                                    *)
LEMMA BorrowRelates ==
  ASSUME NEW bod, NEW b, NEW i, NEW s, Borrows(bod, b, i, s), NEW at, at = <<b, i>>, NEW p, p = BorrowOf(at, s),
         NEW to, to = s.to.local, NEW r \in Alive(bod, b, i)
  PROVE  Related(bod, r, pointers[r], p) /\ Related(bod, to, p, pointers[r])
<1>. DEFINE place == s.value.place
            y == place.local
            py == pointers[y]
            pr == pointers[r]
            own == OwnLent(at, s)
            c == FlowAt(bod, b, i).carried
<1>1. Ready(bod, b, i, s) /\ steps \in Nat
  BY DEF Borrows, Ready
<1>2. /\ y \in References => y \in Alive(bod, b, i)
      /\ y \in Locals /\ y \notin Lenders(bod)
      /\ y \in References /\ s.value.kind # "shared" => py.kind = "mutable"
  BY BorrowIs
<1>3. /\ p.kind = s.value.kind /\ p.at = Binding(to)
      /\ \A x : x \in p.lineage <=> x \in LineageOf(place) \/ x = Binding(to)
      /\ \A l : l \in p.lent <=> l \in LentBy(place) \/ l = own
  BY BorrowPointer
<1>4. /\ p.target.local = Base(y).target.local /\ Holds(own, p) /\ IsPath(p.target.path)
      /\ y \in References => Covers(py.target, p.target) /\ \A l \in py.lent : Holds(l, py) => Holds(l, p)
      /\ y \notin References => p.target.local = y
  BY BorrowHolds
<1>5. own.base = Base(y) /\ own.at = Binding(to)
  BY OwnIs
<1>6. /\ Points(bod, c, values, steps, r, pr)
      /\ \A l \in pr.lent : LentIn(bod, c, values, steps, r, pr, l)
  BY <1>1, ReadyLent
<1>7. Binding(to) \notin pr.lineage /\ Binding(to) # pr.at /\ \A l \in pr.lent : l.at # Binding(to)
  BY <1>1, <1>6, BindingIsNew DEF Points, LentIn
<1>8. CASE y \notin References
  <2>1. \A x : x \in p.lineage => x = Binding(to)
    BY <1>3, <1>8 DEF LineageOf
  <2>2. ASSUME Meet(pr.target, p.target)
        PROVE  \E m \in pr.lent : m.base = own.base /\ m.at # own.at /\ Holds(m, pr)
    <3>1. pr.target.local = y /\ y # Caller
      BY <1>2, <1>4, <1>8, <2>2, CoversLocal, LocalsAssumption
    <3>. QED  BY <1>5, <1>6, <1>7, <1>8, <3>1, BaseIs DEF Points
  <2>3. Meet(pr.target, p.target) => Beside(pr, p) /\ Beside(p, pr)
    BY <1>3, <1>4, <2>2 DEF Beside
  <2>4. Derived(bod, r, pr, p) /\ Unused(bod, r, pr, p) /\ Derived(bod, to, p, pr) /\ Unused(bod, to, p, pr)
    BY <1>3, <1>7, <2>1 DEF Derived, Unused
  <2>5. Diverge(r, pr, p) /\ Diverge(to, p, pr)
    BY <2>3, MeetSame DEF Diverge, Rivals
  <2>. QED  BY <2>4, <2>5 DEF Related
<1>9. CASE y \in References
  <2>1. /\ y \in Alive(bod, b, i) /\ Base(y) = BaseAt(y, py) /\ LineageOf(place) = py.lineage /\ LentBy(place) = py.lent
    BY <1>2, <1>9, BaseIs DEF LineageOf, LentBy
  <2>2. /\ Points(bod, c, values, steps, y, py)
        /\ r # y => Related(bod, r, pr, py) /\ Related(bod, y, py, pr)
    BY <1>1, <2>1, ReadyLent
  <2>3. /\ \A x : x \in p.lineage <=> x \in py.lineage \/ x = Binding(to)
        /\ py.lent \subseteq p.lent /\ own \in p.lent /\ own.base = BaseAt(y, py)
    BY <1>3, <1>5, <2>1
  <2>4. ASSUME Meet(pr.target, p.target)
        PROVE  Meet(pr.target, py.target) /\ Meet(py.target, pr.target)
    <3>1. IsPath(py.target.path) /\ IsPath(pr.target.path) /\ Covers(py.target, p.target)
      BY <1>4, <1>6, <1>9, <2>2 DEF Points, IsPlace
    <3>. QED  BY <1>4, <2>4, <3>1, MeetDown, MeetSame
  <2>5. ~ (pr.kind = "shared" /\ p.kind = "shared") => ~ (pr.kind = "shared" /\ py.kind = "shared")
    BY <1>2, <1>3, <1>9
  <2>6. Beside(pr, py) => Beside(pr, p)
    BY <1>4, <1>9, <2>3 DEF Beside
  <2>7. Beside(py, pr) => Beside(p, pr)
    BY <1>4, <1>9, <2>3 DEF Beside
  <2>8. MadeThrough(y, py, pr) => Beside(p, pr) /\ Beside(pr, p)
    <3>1. SUFFICES ASSUME NEW l \in pr.lent, l.base = BaseAt(y, py), Holds(l, pr) PROVE Beside(p, pr) /\ Beside(pr, p)
      BY DEF MadeThrough
    <3>2. l.base = own.base /\ l.at # own.at
      BY <1>5, <1>7, <2>3, <3>1
    <3>. QED  BY <1>4, <2>3, <3>1, <3>2 DEF Beside
  <2>9. Derived(bod, r, pr, p)
    <3>1. SUFFICES ASSUME r \notin Lenders(bod), pr.at \in p.lineage PROVE \E m \in p.lent : m.base = BaseAt(r, pr) /\ Holds(m, p)
      BY DEF Derived
    <3>2. pr.at \in py.lineage
      BY <1>7, <2>3, <3>1
    <3>3. CASE r = y
      BY <1>4, <2>3, <3>3
    <3>4. CASE r # y
      <4>1. PICK m \in py.lent : m.base = BaseAt(r, pr) /\ Holds(m, py)
        BY <2>2, <3>1, <3>2, <3>4 DEF Related, Derived
      <4>. QED  BY <1>4, <1>9, <2>3, <4>1
    <3>. QED  BY <3>3, <3>4
  <2>10. Unused(bod, r, pr, p)
    BY <1>2, <1>7, <2>2, <2>3 DEF Unused, Related
  <2>11. Diverge(r, pr, p)
    <3>1. SUFFICES ASSUME Rivals(pr, p) PROVE MadeThrough(r, pr, p) \/ Beside(pr, p)
      BY DEF Diverge
    <3>2. CASE r = y
      BY <1>4, <2>3, <3>2 DEF MadeThrough
    <3>3. CASE r # y /\ py.at \in pr.lineage
      <4>1. MadeThrough(y, py, pr)
        BY <1>2, <2>2, <3>3 DEF Related, Derived, MadeThrough
      <4>. QED  BY <2>8, <4>1
    <3>4. CASE r # y /\ py.at \notin pr.lineage
      <4>1. Rivals(pr, py)
        BY <2>4, <2>5, <3>1, <3>4 DEF Rivals
      <4>2. MadeThrough(r, pr, py) \/ Beside(pr, py)
        BY <2>2, <3>4, <4>1 DEF Related, Diverge
      <4>3. MadeThrough(r, pr, py) => MadeThrough(r, pr, p)
        BY <1>4, <1>9, <2>3 DEF MadeThrough
      <4>. QED  BY <2>6, <4>2, <4>3
    <3>. QED  BY <3>2, <3>3, <3>4
  <2>12. Derived(bod, to, p, pr) /\ Unused(bod, to, p, pr)
    BY <1>3, <1>7 DEF Derived, Unused
  <2>13. Diverge(to, p, pr)
    <3>1. SUFFICES ASSUME Rivals(p, pr) PROVE Beside(p, pr)
      BY DEF Diverge
    <3>2. pr.at \notin py.lineage /\ r # y
      BY <2>2, <2>3, <3>1 DEF Rivals, Points
    <3>3. Rivals(py, pr)
      BY <2>4, <2>5, <3>1, <3>2, MeetSame DEF Rivals
    <3>4. MadeThrough(y, py, pr) \/ Beside(py, pr)
      BY <2>2, <3>2, <3>3 DEF Related, Diverge
    <3>. QED  BY <2>7, <2>8, <3>4
  <2>. QED  BY <2>9, <2>10, <2>11, <2>12, <2>13 DEF Related
<1>. QED  BY <1>8, <1>9

LEMMA BorrowJoins ==
  ASSUME NEW bod, NEW b, NEW i, NEW s, Borrows(bod, b, i, s), NEW at, at = <<b, i>>, NEW p, p = BorrowOf(at, s),
         NEW to, to = s.to.local
  PROVE  Joins(bod, Others(bod, b, i, s), FlowAt(bod, b, i + 1).carried, values, steps + 1, pointers, to, p)
<1>1. Others(bod, b, i, s) \subseteq Alive(bod, b, i)
  BY Stays DEF Borrows
<1>2. Points(bod, FlowAt(bod, b, i + 1).carried, values, steps + 1, to, p) /\ Apart(p, p)
  BY BorrowPoints, BorrowAlone
<1>3. ASSUME NEW r \in Others(bod, b, i, s)
      PROVE  Apart(p, pointers[r]) /\ Related(bod, r, pointers[r], p) /\ Related(bod, to, p, pointers[r])
  BY <1>1, BorrowApart, BorrowRelates
<1>. QED  BY <1>2, <1>3 DEF Joins
-----------------------------------------------------------------------------
(* What a call returns: it is lent what the arguments of the call were     *)
(* lent, each `&mut` one for good, and points where one of them does.      *)
Returns(bod, b, i, s, a, p) ==
  /\ Ready(bod, b, i, s) /\ s.do = "bind" /\ s.value.is = "call" /\ s.to.local \in Alive(bod, b, i + 1)
  /\ a \in Activated(s.value) /\ (pointers[a].kind = "shared" => s.to.local \notin Changing(bod))
  /\ p = Pointer(IF pointers[a].kind = "shared" THEN "shared" ELSE "mutable",
                 pointers[a].target, Binding(s.to.local), pointers[a].lineage,
                 {Activate(lent) : lent \in UNION {pointers[q].lent : q \in Activated(s.value)}})

LEMMA ActivateIs ==
  ASSUME NEW x, IsLent(x), x.kind \in Kinds, NEW l, l = Activate(x)
  PROVE  /\ IsLent(l) /\ l.loan = x.loan /\ l.base = x.base /\ l.place = x.place /\ l.at = x.at
         /\ l.kind = IF x.kind = "argument" THEN "mutable" ELSE x.kind
         /\ l.kind \in Kinds /\ l.kind # "argument"
         /\ LoanOf(l) = Active(LoanOf(x)) /\ LoanOf(l).place = x.loan.place
<1>1. x = [loan |-> x.loan, base |-> x.base, place |-> x.place, at |-> x.at, kind |-> x.kind] /\ IsLoan(x.loan)
  BY DEF IsLent
<1>2. l = [loan |-> x.loan, base |-> x.base, place |-> x.place, at |-> x.at,
           kind |-> IF x.kind = "argument" THEN "mutable" ELSE x.kind]
  <2>1. CASE x.kind = "argument"
    <3>1. l = [x EXCEPT !.kind = "mutable"]
      BY <2>1 DEF Activate
    <3>. QED  BY <1>1, <2>1, <3>1
  <2>2. CASE x.kind # "argument"
    BY <1>1, <2>2 DEF Activate
  <2>. QED  BY <2>1, <2>2
<1>3. /\ l.loan = x.loan /\ l.base = x.base /\ l.place = x.place /\ l.at = x.at
      /\ l.kind = IF x.kind = "argument" THEN "mutable" ELSE x.kind
  BY <1>2
<1>4. IsLent(l) /\ l.kind \in Kinds /\ l.kind # "argument"
  BY <1>1, <1>2, <1>3 DEF IsLent, Kinds
<1>5. LoanOf(l) = Active(LoanOf(x))
  <2>1. /\ LoanOf(x) = [made |-> x.loan.made, kind |-> x.kind, place |-> x.loan.place, by |-> x.loan.by]
        /\ LoanOf(l) = [made |-> x.loan.made, kind |-> l.kind, place |-> x.loan.place, by |-> x.loan.by]
    BY <1>3 DEF LoanOf, Loan
  <2>2. LoanOf(x).kind = x.kind
    BY LoanOfIs
  <2>3. CASE x.kind = "argument"
    <3>1. Active(LoanOf(x)) = [LoanOf(x) EXCEPT !.kind = "mutable"]
      BY <2>2, <2>3 DEF Active
    <3>. QED  BY <1>3, <2>1, <2>3, <3>1
  <2>4. CASE x.kind # "argument"
    BY <1>3, <2>1, <2>2, <2>4 DEF Active
  <2>. QED  BY <2>3, <2>4
<1>6. LoanOf(l).place = x.loan.place
  BY <1>3, LoanOfIs
<1>. QED  BY <1>3, <1>4, <1>5, <1>6

LEMMA ReturnPointer ==
  ASSUME NEW bod, NEW b, NEW i, NEW s, NEW a, NEW p, Returns(bod, b, i, s, a, p), NEW q, q = pointers[a]
  PROVE  /\ p # NoPointer /\ ~ p.spoiled /\ p.kind = (IF q.kind = "shared" THEN "shared" ELSE "mutable")
         /\ p.target = q.target /\ p.at = Binding(s.to.local)
         /\ \A x : x \in p.lineage <=> x \in q.lineage \/ x = Binding(s.to.local)
         /\ \A l : l \in p.lent <=> \E c \in Activated(s.value) : \E x \in pointers[c].lent : l = Activate(x)
<1>. DEFINE lent == {Activate(x) : x \in UNION {pointers[c].lent : c \in Activated(s.value)}}
            kind == IF q.kind = "shared" THEN "shared" ELSE "mutable"
            target == q.target
            lineage == q.lineage
            new == Binding(s.to.local)
<1>1. p = Pointer(kind, target, new, lineage, lent)
  BY DEF Returns
<1>2. \A l : l \in lent <=> \E c \in Activated(s.value) : \E x \in pointers[c].lent : l = Activate(x)
  OBVIOUS
<1>. HIDE DEF lent, kind, target, lineage, new
<1>3. /\ p # NoPointer /\ ~ p.spoiled /\ p.kind = kind /\ p.target = target /\ p.at = new /\ p.lineage = lineage \cup {new}
      /\ p.lent = lent
  BY <1>1, NoPointerIs DEF Pointer
<1>4. \A x : x \in p.lineage <=> x \in lineage \/ x = new
  BY <1>3
<1>. QED  BY <1>2, <1>3, <1>4 DEF kind, target, lineage, new

(* The arguments of the call.                                              *)
LEMMA ArgumentsAre ==
  ASSUME NEW bod, NEW b, NEW i, NEW s, NEW a, NEW p, Returns(bod, b, i, s, a, p), NEW c \in Activated(s.value)
  PROVE  /\ c \in Activated(s.value) \cap References /\ c \in Alive(bod, b, i) /\ c \in Lenders(bod)
         /\ c \notin Others(bod, b, i, s)
         /\ Points(bod, FlowAt(bod, b, i).carried, values, steps, c, pointers[c]) /\ pointers[c].kind # "mutable"
         /\ \A x \in pointers[c].lent :
              /\ LentIn(bod, FlowAt(bod, b, i).carried, values, steps, c, pointers[c], x)
              /\ IsLent(x) /\ x.kind \in Kinds
<1>1. Ready(bod, b, i, s) /\ s.do = "bind" /\ s.value.is = "call"
  BY DEF Returns
<1>2. c \in Lends(bod, s)
  BY <1>1, LentIsLends
<1>3. c \in Lenders(bod) /\ c \in Alive(bod, b, i) /\ c \notin Alive(bod, b, i + 1)
  BY <1>1, <1>2, LendsAre
<1>4. c \in References /\ c \notin Others(bod, b, i, s)
  BY <1>3 DEF Alive, Others
<1>5. Points(bod, FlowAt(bod, b, i).carried, values, steps, c, pointers[c])
  BY <1>1, <1>3, ReadyLent
<1>6. pointers[c].kind # "mutable"
  BY <1>3, <1>5 DEF Points
<1>7. ASSUME NEW x \in pointers[c].lent
      PROVE  LentIn(bod, FlowAt(bod, b, i).carried, values, steps, c, pointers[c], x) /\ IsLent(x) /\ x.kind \in Kinds
  <2>1. LentIn(bod, FlowAt(bod, b, i).carried, values, steps, c, pointers[c], x)
    BY <1>1, <1>3, ReadyLent
  <2>. QED  BY <2>1 DEF LentIn
<1>. QED  BY <1>3, <1>4, <1>5, <1>6, <1>7

LEMMA ReturnHolds ==
  ASSUME NEW bod, NEW b, NEW i, NEW s, NEW a, NEW p, Returns(bod, b, i, s, a, p),
         NEW x \in pointers[a].lent, Holds(x, pointers[a])
  PROVE  /\ Activate(x) \in p.lent /\ Holds(Activate(x), p)
         /\ Activate(x).base = x.base /\ Activate(x).at = x.at
<1>1. a \in Activated(s.value)
  BY DEF Returns
<1>2. IsLent(x) /\ x.kind \in Kinds /\ pointers[a].kind # "mutable"
      /\ Points(bod, FlowAt(bod, b, i).carried, values, steps, a, pointers[a])
  BY <1>1, ArgumentsAre
<1>3. /\ p.kind = (IF pointers[a].kind = "shared" THEN "shared" ELSE "mutable") /\ p.target = pointers[a].target
      /\ Activate(x) \in p.lent
  BY <1>1, ReturnPointer
<1>. DEFINE l == Activate(x)
<1>4. /\ l.base = x.base /\ l.place = x.place /\ l.at = x.at
      /\ l.kind = IF x.kind = "argument" THEN "mutable" ELSE x.kind
  BY <1>2, ActivateIs
<1>5. Strong(p.kind, l.kind)
  <2>1. CASE pointers[a].kind = "shared"
    BY <1>3, <2>1 DEF Strong
  <2>2. CASE pointers[a].kind # "shared"
    <3>1. pointers[a].kind = "argument"
      BY <1>2, <2>2 DEF Points, Kinds
    <3>2. x.kind # "shared"
      BY <3>1 DEF Holds, Strong
    <3>3. l.kind = "mutable"
      BY <1>2, <1>4, <3>2 DEF Kinds
    <3>. QED  BY <3>3 DEF Strong
  <2>. QED  BY <2>1, <2>2
<1>. HIDE DEF l
<1>6. Holds(l, p)
  BY <1>3, <1>4, <1>5 DEF Holds
<1>. QED  BY <1>3, <1>4, <1>6 DEF l

(* What a bound reference carries is what its value hands on.               *)
LEMMA CarriedBound ==
  ASSUME NEW bod, NEW b, NEW i, NEW s, Ready(bod, b, i, s), s.do = "bind", NEW to, to = s.to.local,
         to \in Alive(bod, b, i + 1)
  PROVE  /\ FlowAt(bod, b, i + 1).carried[to] = CarriedOn(FlowAt(bod, b, i).carried, <<b, i>>, s)
         /\ to \in References
<1>1. to \in References
  BY DEF Alive
<1>. QED  BY <1>1, CarriedBehind DEF Ready

LEMMA ReturnPoints ==
  ASSUME NEW bod, NEW b, NEW i, NEW s, NEW a, NEW p, Returns(bod, b, i, s, a, p), NEW to, to = s.to.local, NEW w,
         \A n \in Numbers \ ChangedLocals(FlowAt(bod, b, i).carried, s) : w[n] = values[n]
  PROVE  Points(bod, FlowAt(bod, b, i + 1).carried, w, steps + 1, to, p)
<1>. DEFINE q == pointers[a]
            c == FlowAt(bod, b, i).carried
            d == FlowAt(bod, b, i + 1).carried
<1>1. /\ Ready(bod, b, i, s) /\ s.do = "bind" /\ s.value.is = "call" /\ to \in Alive(bod, b, i + 1)
      /\ a \in Activated(s.value) /\ (q.kind = "shared" => to \notin Changing(bod))
      /\ s \in StatementsOf(bod) /\ Lowered(bod) /\ steps \in Nat
  BY ReadyIs DEF Returns, Ready
<1>2. /\ p # NoPointer /\ ~ p.spoiled /\ p.kind = (IF q.kind = "shared" THEN "shared" ELSE "mutable")
      /\ p.target = q.target /\ p.at = Binding(to)
      /\ \A x : x \in p.lineage <=> x \in q.lineage \/ x = Binding(to)
      /\ \A l : l \in p.lent <=> \E f \in Activated(s.value) : \E x \in pointers[f].lent : l = Activate(x)
  BY ReturnPointer
<1>3. Points(bod, c, values, steps, a, q)
  BY <1>1, ArgumentsAre
<1>4. /\ p.kind \in Kinds /\ p.kind # "argument" /\ IsPlace(p.target)
      /\ to \in Changing(bod) => p.kind # "shared"
      /\ to \notin Lenders(bod)
  BY <1>1, <1>2, <1>3 DEF Kinds, Points, Lowered
<1>5. p.at \in p.lineage /\ \A x \in p.lineage : Old(x, steps + 1)
  <2>1. Old(Binding(to), steps + 1)
    BY <1>1, BindingIsNew
  <2>2. ASSUME NEW x \in p.lineage, x # Binding(to)
        PROVE  Old(x, steps + 1)
    <3>1. Old(x, steps)
      BY <1>2, <1>3, <2>2 DEF Points
    <3>. QED  BY <1>1, <3>1, OldKeeps
  <2>. QED  BY <1>2, <2>1, <2>2
<1>6. d[to] = CarriedOn(c, <<b, i>>, s) /\ to \in References
  BY <1>1, CarriedBound
<1>7. ASSUME NEW f \in Activated(s.value), NEW loan \in c[f]
      PROVE  Active(loan) \in d[to]
  <2>1. f \in Lends(bod, s)
    BY <1>1, LentIsLends
  <2>2. PICK o \in OperandsOf(s) : o.gives = "borrowed" /\ f = o.place.local
    BY <1>1, <2>1 DEF Lends
  <2>3. d[to] = UNION {{Active(x) : x \in c[y.place.local]} : y \in {z \in OperandsOf(s) : z.gives = "borrowed"}}
    BY <1>1, <1>6 DEF CarriedOn
  <2>. HIDE DEF d, c
  <2>. QED  BY <1>7, <2>2, <2>3
<1>8. ASSUME NEW l \in p.lent
      PROVE  LentIn(bod, d, w, steps + 1, to, p, l)
  <2>1. PICK f \in Activated(s.value) : \E x \in pointers[f].lent : l = Activate(x)
    BY <1>2, <1>8
  <2>2. PICK x \in pointers[f].lent : l = Activate(x)
    BY <2>1
  <2>3. LentIn(bod, c, values, steps, f, pointers[f], x) /\ IsLent(x) /\ x.kind \in Kinds
    BY ArgumentsAre
  <2>4. /\ IsLent(l) /\ l.loan = x.loan /\ l.base = x.base /\ l.place = x.place /\ l.at = x.at
        /\ l.kind \in Kinds /\ l.kind # "argument" /\ LoanOf(l) = Active(LoanOf(x)) /\ LoanOf(l).place = x.loan.place
    BY <2>2, <2>3, ActivateIs
  <2>5. LoanOf(l) \in d[to]
    BY <1>7, <2>3, <2>4 DEF LentIn
  <2>6. LoanOf(l) \in InForce(d)
    BY <1>6, <2>5 DEF InForce
  <2>7. IndexLocals(LoanOf(l).place) \cap ChangedLocals(c, s) = {}
    BY <1>1, <2>6, ScopedIs
  <2>8. \A n \in IndexLocals(x.loan.place) : values[n] = w[n]
    BY <2>3, <2>4, <2>7 DEF LentIn
  <2>9. IsPath(x.loan.place.path) /\ x.place = BehindIn(values, x.base, x.loan.place.path)
    BY <2>3 DEF LentIn
  <2>10. l.place = BehindIn(w, l.base, l.loan.place.path)
    BY <2>4, <2>8, <2>9, BehindAgrees
  <2>11. Old(l.at, steps + 1) /\ Old(l.base.at, steps + 1) /\ l.base.at # p.at
    BY <1>1, <1>2, <2>3, <2>4, BindingIsNew, OldKeeps DEF LentIn
  <2>12. /\ IsPath(l.loan.place.path) /\ IndexLocals(l.loan.place) \subseteq Numbers
         /\ IsPath(l.base.target.path) /\ l.base.local = l.loan.place.local
         /\ l.base.local \notin Lenders(bod) \cup Reserved(bod)
    BY <2>3, <2>4 DEF LentIn
  <2>. HIDE DEF d
  <2>. QED  BY <2>4, <2>5, <2>10, <2>11, <2>12 DEF LentIn
<1>9. ASSUME p.target.local # Caller
      PROVE  p.target.local \notin References /\ \E l \in p.lent : l.base = Own(p.target.local) /\ Holds(l, p)
  <2>1. q.target.local \notin References
    BY <1>2, <1>3, <1>9 DEF Points
  <2>2. PICK x \in q.lent : x.base = Own(q.target.local) /\ Holds(x, q)
    BY <1>2, <1>3, <1>9 DEF Points
  <2>3. Activate(x) \in p.lent /\ Holds(Activate(x), p) /\ Activate(x).base = x.base
    BY <2>2, ReturnHolds
  <2>. QED  BY <1>2, <2>1, <2>2, <2>3
<1>. HIDE DEF d
<1>10. Points(bod, d, w, steps + 1, to, p)
  BY <1>2, <1>4, <1>5, <1>8, <1>9 DEF Points
<1>. QED  BY <1>10 DEF d

(* What was lent to an argument is not lent for good while another one is. *)
LEMMA ArgumentAlone ==
  ASSUME NEW bod, NEW b, NEW i, NEW s, NEW a, NEW p, Returns(bod, b, i, s, a, p),
         NEW f \in Activated(s.value), NEW x \in pointers[f].lent,
         NEW r \in Alive(bod, b, i), NEW m \in pointers[r].lent, x.at # m.at, x.base = m.base, Meet(x.place, m.place)
  PROVE  Activate(x).kind = "shared" /\ m.kind # "mutable"
<1>1. /\ Ready(bod, b, i, s) /\ s.do \in {"assign", "bind"} /\ f \in Activated(s.value) \cap References
      /\ f \in Alive(bod, b, i) /\ IsLent(x) /\ x.kind \in Kinds
  BY ArgumentsAre DEF Returns
<1>2. Apart(pointers[f], pointers[r])
  BY <1>1, ReadyLent
<1>3. x.kind # "mutable" /\ m.kind # "mutable"
  BY <1>2 DEF Apart
<1>4. x.kind # "argument"
  BY <1>1, ActivationApart
<1>5. x.kind = "shared"
  BY <1>1, <1>3, <1>4 DEF Kinds
<1>. QED  BY <1>1, <1>3, <1>5, ActivateIs

LEMMA ReturnApart ==
  ASSUME NEW bod, NEW b, NEW i, NEW s, NEW a, NEW p, Returns(bod, b, i, s, a, p), NEW r \in Alive(bod, b, i)
  PROVE  Apart(p, pointers[r])
<1>1. SUFFICES ASSUME NEW l \in p.lent, NEW m \in pointers[r].lent, l.at # m.at, l.base = m.base, Meet(l.place, m.place)
               PROVE  l.kind # "mutable" /\ m.kind # "mutable"
  BY DEF Apart
<1>2. PICK f \in Activated(s.value) : \E x \in pointers[f].lent : l = Activate(x)
  BY ReturnPointer
<1>3. PICK x \in pointers[f].lent : l = Activate(x)
  BY <1>2
<1>4. l.base = x.base /\ l.place = x.place /\ l.at = x.at
  BY <1>3, ArgumentsAre, ActivateIs
<1>. QED  BY <1>1, <1>3, <1>4, ArgumentAlone

LEMMA ReturnAlone ==
  ASSUME NEW bod, NEW b, NEW i, NEW s, NEW a, NEW p, Returns(bod, b, i, s, a, p)
  PROVE  Apart(p, p)
<1>1. SUFFICES ASSUME NEW l \in p.lent, NEW m \in p.lent, l.at # m.at, l.base = m.base, Meet(l.place, m.place)
               PROVE  l.kind # "mutable"
  <2>1. ASSUME NEW l \in p.lent, NEW m \in p.lent, l.at # m.at, l.base = m.base, Meet(l.place, m.place)
        PROVE  m.at # l.at /\ m.base = l.base /\ Meet(m.place, l.place)
    BY <2>1, MeetSame
  <2>. QED  BY <2>1 DEF Apart
<1>2. PICK f \in Activated(s.value) : \E x \in pointers[f].lent : l = Activate(x)
  BY ReturnPointer
<1>3. PICK x \in pointers[f].lent : l = Activate(x)
  BY <1>2
<1>4. PICK g \in Activated(s.value) : \E z \in pointers[g].lent : m = Activate(z)
  BY ReturnPointer
<1>5. PICK z \in pointers[g].lent : m = Activate(z)
  BY <1>4
<1>6. l.base = x.base /\ l.place = x.place /\ l.at = x.at
  BY <1>3, ArgumentsAre, ActivateIs
<1>7. m.base = z.base /\ m.place = z.place /\ m.at = z.at /\ g \in Alive(bod, b, i)
  BY <1>5, ArgumentsAre, ActivateIs
<1>. QED  BY <1>1, <1>3, <1>6, <1>7, ArgumentAlone

LEMMA ReturnRelates ==
  ASSUME NEW bod, NEW b, NEW i, NEW s, NEW a, NEW p, Returns(bod, b, i, s, a, p), NEW to, to = s.to.local,
         NEW r \in Others(bod, b, i, s), r \in Alive(bod, b, i)
  PROVE  Related(bod, r, pointers[r], p) /\ Related(bod, to, p, pointers[r])
<1>. DEFINE pa == pointers[a]
            pr == pointers[r]
            c == FlowAt(bod, b, i).carried
<1>1. Ready(bod, b, i, s) /\ steps \in Nat /\ a \in Activated(s.value)
  BY DEF Returns, Ready
<1>2. /\ p.kind = (IF pa.kind = "shared" THEN "shared" ELSE "mutable") /\ p.target = pa.target /\ p.at = Binding(to)
      /\ \A x : x \in p.lineage <=> x \in pa.lineage \/ x = Binding(to)
  BY ReturnPointer
<1>3. a \in Alive(bod, b, i) /\ a \in Lenders(bod) /\ a \notin Others(bod, b, i, s)
  BY <1>1, ArgumentsAre
<1>4. r # a
  BY <1>3
<1>5. Related(bod, r, pr, pa) /\ Related(bod, a, pa, pr)
  BY <1>1, <1>3, <1>4, ReadyLent
<1>6. /\ Points(bod, c, values, steps, r, pr)
      /\ \A l \in pr.lent : LentIn(bod, c, values, steps, r, pr, l)
  BY <1>1, ReadyLent
<1>7. Binding(to) \notin pr.lineage /\ Binding(to) # pr.at
  BY <1>1, <1>6, BindingIsNew DEF Points
<1>8. \A x \in pa.lent : Holds(x, pa) => Activate(x) \in p.lent /\ Holds(Activate(x), p)
                                         /\ Activate(x).base = x.base /\ Activate(x).at = x.at
  BY ReturnHolds
<1>9. pa.at \notin pr.lineage
  BY <1>3, <1>5 DEF Related, Unused
<1>10. pr.at \in p.lineage => pr.at \in pa.lineage
  BY <1>2, <1>7
<1>11. Derived(bod, r, pr, p)
  BY <1>5, <1>8, <1>10 DEF Related, Derived
<1>12. Unused(bod, r, pr, p)
  BY <1>5, <1>10 DEF Related, Unused
<1>13. Diverge(r, pr, p)
  <2>1. SUFFICES ASSUME Rivals(pr, p) PROVE MadeThrough(r, pr, p) \/ Beside(pr, p)
    BY DEF Diverge
  <2>2. Rivals(pr, pa)
    BY <1>2, <1>9, <2>1 DEF Rivals
  <2>3. MadeThrough(r, pr, pa) \/ Beside(pr, pa)
    BY <1>5, <2>2 DEF Related, Diverge
  <2>4. MadeThrough(r, pr, pa) => MadeThrough(r, pr, p)
    BY <1>8 DEF MadeThrough
  <2>5. Beside(pr, pa) => Beside(pr, p)
    BY <1>8 DEF Beside
  <2>. QED  BY <2>3, <2>4, <2>5
<1>14. Derived(bod, to, p, pr) /\ Unused(bod, to, p, pr)
  BY <1>2, <1>7 DEF Derived, Unused
<1>15. Diverge(to, p, pr)
  <2>1. SUFFICES ASSUME Rivals(p, pr) PROVE Beside(p, pr)
    BY DEF Diverge
  <2>2. Rivals(pa, pr)
    BY <1>2, <2>1 DEF Rivals
  <2>3. MadeThrough(a, pa, pr) \/ Beside(pa, pr)
    BY <1>5, <2>2 DEF Related, Diverge
  <2>4. ~ MadeThrough(a, pa, pr)
    <3>1. SUFFICES ASSUME NEW l \in pr.lent, l.base = BaseAt(a, pa) PROVE FALSE
      BY DEF MadeThrough
    <3>2. l.base.local = a
      BY <3>1 DEF BaseAt
    <3>. QED  BY <1>3, <1>6, <3>2 DEF LentIn
  <2>5. Beside(pa, pr) => Beside(p, pr)
    BY <1>8 DEF Beside
  <2>. QED  BY <2>3, <2>4, <2>5
<1>. QED  BY <1>11, <1>12, <1>13, <1>14, <1>15 DEF Related

LEMMA ReturnJoins ==
  ASSUME NEW bod, NEW b, NEW i, NEW s, NEW a, NEW p, Returns(bod, b, i, s, a, p), NEW to, to = s.to.local, NEW w,
         \A n \in Numbers \ ChangedLocals(FlowAt(bod, b, i).carried, s) : w[n] = values[n]
  PROVE  Joins(bod, Others(bod, b, i, s), FlowAt(bod, b, i + 1).carried, w, steps + 1, pointers, to, p)
<1>1. Others(bod, b, i, s) \subseteq Alive(bod, b, i)
  BY Stays DEF Returns
<1>2. Points(bod, FlowAt(bod, b, i + 1).carried, w, steps + 1, to, p) /\ Apart(p, p)
  BY ReturnPoints, ReturnAlone
<1>3. ASSUME NEW r \in Others(bod, b, i, s)
      PROVE  Apart(p, pointers[r]) /\ Related(bod, r, pointers[r], p) /\ Related(bod, to, p, pointers[r])
  <2>1. r \in Alive(bod, b, i)
    BY <1>1
  <2>. QED  BY <2>1, ReturnApart, ReturnRelates
<1>. QED  BY <1>2, <1>3 DEF Joins
-----------------------------------------------------------------------------
(* The inductive invariant of soundness: the references that are alive at  *)
(* the statement of the source that comes next are sound, and the checks   *)
(* of it that have run did not panic.                                      *)
AtParameters ==
  \A r \in References \cap Parameters :
    pointers[r] = Pointer("mutable", Place(Caller, <<<<"field", r>>>>), AtEntry(r), {}, {})
Safe ==
  /\ steps \in Nat
  /\ phase = "check" => steps = 0 /\ AtParameters
  /\ phase = "run" =>
       /\ Sound(source, Alive(source, block, origin), FlowAt(source, block, origin).carried, values, steps, pointers)
       /\ PassedUpTo(source, block, origin, index, values)

LEMMA InitSafe == Init => Safe
  BY DEF Init, Safe, AtParameters

(* The parameters point at storage of their own.                           *)
LEMMA EntryIs ==
  ASSUME NEW r, NEW p, p = Pointer("mutable", Place(Caller, <<<<"field", r>>>>), AtEntry(r), {}, {})
  PROVE  /\ p # NoPointer /\ ~ p.spoiled /\ p.kind = "mutable" /\ p.at = <<0, r>> /\ p.lineage = {<<0, r>>} /\ p.lent = {}
         /\ IsPlace(p.target) /\ p.target.local = Caller /\ p.target.path = <<<<"field", r>>>>
<1>1. p # NoPointer
  BY NoPointerIs DEF Pointer
<1>2. /\ ~ p.spoiled /\ p.kind = "mutable" /\ p.at = <<0, r>> /\ p.lineage = {<<0, r>>} /\ p.lent = {}
      /\ p.target = Place(Caller, <<<<"field", r>>>>)
  BY DEF Pointer, AtEntry
<1>3. IsPath(<<<<"field", r>>>>)
  <2>1. <<"field", r>> \in ToSet(<<<<"field", r>>>>)
    BY DEF ToSet
  <2>. QED  BY <2>1 DEF IsPath
<1>. QED  BY <1>1, <1>2, <1>3 DEF IsPlace, Place

LEMMA EntryApart ==
  ASSUME NEW r, NEW q, IsPath(<<<<"field", r>>>>), IsPath(<<<<"field", q>>>>), Meet(Place(Caller, <<<<"field", r>>>>), Place(Caller, <<<<"field", q>>>>))
  PROVE  r = q
<1>. DEFINE s == <<<<"field", r>>>>
            t == <<<<"field", q>>>>
<1>1. Len(s) = 1 /\ Len(t) = 1 /\ s[1] = <<"field", r>> /\ t[1] = <<"field", q>> /\ IsPath(s) /\ IsPath(t)
  OBVIOUS
<1>2. IsPrefix(s, t) \/ IsPrefix(t, s)
  BY DEF Meet, Covers, Place
<1>. HIDE DEF s, t
<1>3. s[1] = t[1]
  BY <1>1, <1>2, PrefixMeans
<1>. QED  BY <1>1, <1>3

LEMMA EntrySound ==
  ASSUME source \in Bodies, AtParameters, NEW v
  PROVE  Sound(source, Alive(source, 0, 1), FlowAt(source, 0, 1).carried, v, 0, pointers)
<1>1. Alive(source, 0, 1) \subseteq References \cap Parameters
  BY AliveEntry DEF Alive
<1>2. (Lenders(source) \cup Reserved(source)) \cap Parameters = {}
  BY BodiesTyped DEF Lowered
<1>. DEFINE d == FlowAt(source, 0, 1).carried
<1>. HIDE DEF d
<1>3. ASSUME NEW r \in Alive(source, 0, 1)
      PROVE  /\ Points(source, d, v, 0, r, pointers[r])
             /\ pointers[r].at = <<0, r>> /\ pointers[r].lineage = {<<0, r>>} /\ pointers[r].lent = {}
             /\ pointers[r].target.local = Caller /\ pointers[r].target.path = <<<<"field", r>>>>
             /\ IsPath(pointers[r].target.path)
  <2>. DEFINE p == pointers[r]
  <2>1. r \in References \cap Parameters /\ r \notin Lenders(source) /\ r \notin Reserved(source)
    BY <1>1, <1>2
  <2>2. p = Pointer("mutable", Place(Caller, <<<<"field", r>>>>), AtEntry(r), {}, {})
    BY <2>1 DEF AtParameters
  <2>. HIDE DEF p
  <2>3. /\ p # NoPointer /\ ~ p.spoiled /\ p.kind = "mutable" /\ p.at = <<0, r>> /\ p.lineage = {<<0, r>>} /\ p.lent = {}
        /\ IsPlace(p.target) /\ p.target.local = Caller /\ p.target.path = <<<<"field", r>>>>
    BY <2>2, EntryIs
  <2>4. \A x \in p.lineage : Old(x, 0)
    BY <2>3 DEF Old
  <2>5. Points(source, d, v, 0, r, p)
    BY <2>1, <2>3, <2>4 DEF Points, Kinds
  <2>. QED  BY <2>3, <2>5 DEF p, IsPlace
<1>4. ASSUME NEW r \in Alive(source, 0, 1), NEW q \in Alive(source, 0, 1)
      PROVE  Apart(pointers[r], pointers[q]) /\ (r # q => Related(source, r, pointers[r], pointers[q]))
  <2>1. Apart(pointers[r], pointers[q])
    BY <1>3 DEF Apart
  <2>2. ASSUME r # q PROVE Related(source, r, pointers[r], pointers[q])
    <3>1. pointers[r].at \notin pointers[q].lineage
      BY <1>3, <2>2
    <3>2. ~ Meet(pointers[r].target, pointers[q].target)
      <4>1. /\ IsPath(<<<<"field", r>>>>) /\ IsPath(<<<<"field", q>>>>)
            /\ Meet(pointers[r].target, pointers[q].target) =>
                 Meet(Place(Caller, <<<<"field", r>>>>), Place(Caller, <<<<"field", q>>>>))
        BY <1>3 DEF Meet, Covers, Place
      <4>. QED  BY <2>2, <4>1, EntryApart
    <3>. QED  BY <3>1, <3>2 DEF Related, Derived, Unused, Diverge, Rivals
  <2>. QED  BY <2>1, <2>2
<1>. QED  BY <1>3, <1>4 DEF Sound, d

(* A statement of the source comes behind its checks, and the first of     *)
(* them behind the statement before.                                       *)
LEMMA PassedIs ==
  ASSUME NEW bod \in Bodies, NEW b \in Blocks(bod), NEW o \in 1 .. Len(bod.statements[b]), NEW i,
         IsAt(bod, b, o, i), IsAt(bod, b, o + 1, i + 1)
  PROVE  /\ \A v : PassedUpTo(bod, b, o, i, v) => PassedAt(bod, b, o, v)
         /\ \A v : PassedUpTo(bod, b, o + 1, i + 1, v)
<1>. DEFINE places == PlacesOf(bod, b)
            n == Len(bod.statements[b])
<1>1. n \in Nat /\ WovenBy(bod, b, places)
  BY BodiesTyped, BlocksTyped, PlacesWoven
<1>2. /\ places \in [0 .. n + 1 -> Nat]
      /\ \A j \in 1 .. n : {Checked(bod).statements[b][k] : k \in places[j - 1] + 1 .. places[j] - 1}
                             = ChecksBefore(Asked(bod), b, j)
  BY <1>1 DEF WovenBy, Woven
<1>3. i \in Nat /\ i <= places[o] /\ places[o + 1 - 1] < i + 1 /\ o + 1 - 1 = o /\ o \in 1 .. n /\ o \in 0 .. n + 1
  BY <1>1 DEF IsAt
<1>. HIDE DEF places, n
<1>4. places[o] = i
  <2>1. places[o] \in Nat
    BY <1>2, <1>3
  <2>. QED  BY <1>3, <2>1
<1>5. ASSUME NEW v, PassedUpTo(bod, b, o, i, v), NEW check \in Asked(bod), check.block = b, check.index = o
      PROVE  ~ AllEqualIn(v, check.pairs)
  <2>1. Distinct(check.pairs) \in ChecksBefore(Asked(bod), b, o)
    BY <1>5 DEF ChecksBefore
  <2>2. PICK k \in places[o - 1] + 1 .. places[o] - 1 : Distinct(check.pairs) = Checked(bod).statements[b][k]
    BY <1>2, <1>3, <2>1
  <2>3. k \in PlacesOf(bod, b)[o - 1] + 1 .. i - 1
    BY <1>4, <2>2 DEF places
  <2>4. ~ AllEqualIn(v, Checked(bod).statements[b][k].pairs)
    BY <1>5, <2>3 DEF PassedUpTo
  <2>. QED  BY <2>2, <2>4 DEF Distinct
<1>6. ASSUME NEW v PROVE PassedUpTo(bod, b, o + 1, i + 1, v)
  BY <1>3, <1>4 DEF PassedUpTo, places
<1>. QED  BY <1>5, <1>6 DEF PassedAt

LEMMA NothingPassed ==
  ASSUME NEW bod \in Bodies, NEW b \in Blocks(bod), NEW v
  PROVE  PassedUpTo(bod, b, 1, 1, v)
<1>1. WovenBy(bod, b, PlacesOf(bod, b))
  BY PlacesWoven
<1>2. PlacesOf(bod, b)[0] = 0
  BY <1>1 DEF WovenBy, Woven
<1>. QED  BY <1>2 DEF PassedUpTo

LEMMA CheckSafe == Inv /\ Safe /\ Check => Safe'
<1>. SUFFICES ASSUME Inv, Safe, Check PROVE Safe'
  OBVIOUS
<1>1. /\ source \in Bodies /\ phase = "check" /\ steps = 0 /\ AtParameters
      /\ source' = source /\ pointers' = pointers /\ block' = 0 /\ index' = 1 /\ origin' = 1 /\ steps' = 0
  BY DEF Inv, Check, AtStart, Safe
<1>2. phase' # "check"
  BY DEF Check
<1>3. Sound(source, Alive(source, 0, 1), FlowAt(source, 0, 1).carried, values', 0, pointers)
  BY <1>1, EntrySound
<1>4. PassedUpTo(source, 0, 1, 1, values')
  <2>1. 0 \in Blocks(source)
    BY <1>1, BodiesTyped, ReachableTyped
  <2>. QED  BY <1>1, <2>1, NothingPassed
<1>. QED  BY <1>1, <1>2, <1>3, <1>4 DEF Safe

(* A statement of the source that comes next is ready, and leaves the      *)
(* references sound if those that are alive behind it are.                 *)
LEMMA ReadyAt ==
  ASSUME Inv, Safe, AtStatement, Statement.do # "distinct", NEW s, s = Statement
  PROVE  /\ Ready(source, block, origin, s) /\ s \in StatementsOf(source)
         /\ Proceed /\ Sound(source, Alive(source, block, origin + 1), FlowAt(source, block, origin + 1).carried,
                             values', steps + 1, pointers')
              => Safe'
<1>1. /\ source \in Bodies /\ phase = "run" /\ Accepted /\ ArePointers(pointers)
      /\ Follows(source, block, origin, index, values, pointers)
      /\ Sound(source, Alive(source, block, origin), FlowAt(source, block, origin).carried, values, steps, pointers)
      /\ PassedUpTo(source, block, origin, index, values) /\ steps \in Nat
  BY DEF Inv, AtStatement, Running, Safe
<1>2. /\ block \in Reachable(source) /\ block \in Blocks(source) /\ IsAt(source, block, origin, index)
      /\ TrueAt(source, block, origin, values)
  BY <1>1, BodiesTyped DEF Follows
<1>3. s = Checked(source).statements[block][index] /\ index <= Len(Checked(source).statements[block])
  BY <1>1 DEF AtStatement, Statement, Accepted
<1>4. /\ origin \in 1 .. Len(source.statements[block]) /\ s = source.statements[block][origin]
      /\ IsAt(source, block, origin + 1, index + 1)
  <2>1. Checked(source).statements[block][index].do # "distinct"
    BY <1>3
  <2>. QED  BY <1>1, <1>2, <1>3, <2>1, AtStatementOf
<1>5. /\ PassedAt(source, block, origin, values)
      /\ \A v : PassedUpTo(source, block, origin + 1, index + 1, v)
  BY <1>1, <1>2, <1>4, PassedIs
<1>6. MovesAccepted(source) /\ ~ BorrowVerdict(source).refused
  BY <1>1 DEF Accepted
<1>7. Ready(source, block, origin, s)
  BY <1>1, <1>2, <1>4, <1>5, <1>6 DEF Ready
<1>8. ASSUME Proceed, Sound(source, Alive(source, block, origin + 1), FlowAt(source, block, origin + 1).carried,
                            values', steps + 1, pointers')
      PROVE  Safe'
  <2>1. /\ source' = source /\ phase' = "run" /\ block' = block /\ index' = index + 1 /\ origin' = origin + 1
        /\ steps' = steps + 1
    BY <1>1, <1>8 DEF Proceed, Advance
  <2>. QED  BY <1>1, <1>5, <1>8, <2>1 DEF Safe
<1>. QED  BY <1>7, <1>8, ReadyIs

(* What a statement that binds nothing leaves.                             *)
LEMMA OthersAre ==
  ASSUME NEW bod, NEW b, NEW i, NEW s, s.do # "bind"
  PROVE  Others(bod, b, i, s) = Alive(bod, b, i + 1)
  BY DEF Others

LEMMA NumbersKept ==
  ASSUME Inv, AtStatement, Statement.do \in {"assign", "bind"}, NEW s, s = Statement,
         NEW carried, carried = FlowAt(source, block, origin).carried, NEW v \in Called(s)
  PROVE  AreValues(v) /\ \A n \in Numbers \ ChangedLocals(carried, s) : v[n] = values[n]
<1>1. /\ source \in Bodies /\ MovesAccepted(source) /\ block \in Reachable(source)
      /\ origin \in 1 .. Len(source.statements[block]) /\ s = source.statements[block][origin]
      /\ AreValues(values) /\ RootedAt(source, block, origin, pointers)
  BY StatementInv
<1>2. AreValues(v) /\ \A n \in Numbers \ LentNumbers(s) : v[n] = values[n]
  BY <1>1, CalledKeeps
<1>3. \A n \in LentNumbers(s) : n \in ChangedByValue(carried, s)
  BY <1>1, LentAreChanged
<1>4. ChangedByValue(carried, s) \subseteq ChangedLocals(carried, s)
  BY DEF ChangedLocals
<1>. QED  BY <1>2, <1>3, <1>4

LEMMA AssignSafe == Inv /\ Safe /\ AssignStep => Safe'
<1>. SUFFICES ASSUME Inv, Safe, AssignStep PROVE Safe'
  OBVIOUS
<1>. DEFINE s == Statement
            carried == FlowAt(source, block, origin).carried
            to == Concrete(s.to)
            changed == ChangedLocals(carried, s)
<1>1. AtStatement /\ s.do = "assign" /\ Proceed /\ pointers' = Remaining(s)
  BY DEF AssignStep
<1>2. PICK after \in Called(s) :
        IF to.path = <<>> /\ to.local \in Numbers
        THEN \E given \in Given(s.value) : values' = [after EXCEPT ![to.local] = given]
        ELSE values' = after
  BY DEF AssignStep
<1>3. AreValues(after) /\ \A n \in Numbers \ changed : after[n] = values[n]
  BY <1>1, NumbersKept
<1>4. to.local \in Numbers => to.local \in changed
  <2>1. /\ source \in Bodies /\ MovesAccepted(source) /\ block \in Reachable(source)
        /\ origin \in 1 .. Len(source.statements[block]) /\ s = source.statements[block][origin]
        /\ RootedAt(source, block, origin, pointers)
    BY <1>1, StatementInv
  <2>. QED  BY <1>1, <2>1, TargetIsChanged
<1>5. Ready(source, block, origin, s)
  BY <1>1, ReadyAt
<1>. HIDE DEF s, to, carried, changed
<1>6. \A n \in Numbers \ changed : values'[n] = values[n]
  BY <1>2, <1>3, <1>4 DEF AreValues
<1>7. Sound(source, Others(source, block, origin, s), FlowAt(source, block, origin + 1).carried, values', steps + 1, Remaining(s))
  BY <1>5, <1>6, Stays DEF changed, carried
<1>8. Others(source, block, origin, s) = Alive(source, block, origin + 1)
  BY <1>1, OthersAre
<1>. QED  BY <1>1, <1>7, <1>8, ReadyAt DEF s

LEMMA EndSafe == Inv /\ Safe /\ EndStep => Safe'
<1>. SUFFICES ASSUME Inv, Safe, EndStep PROVE Safe'
  OBVIOUS
<1>. DEFINE s == Statement
<1>1. AtStatement /\ s.do \in {"unpack", "release", "keep"} /\ Proceed /\ values' = values /\ pointers' = Remaining(s)
  BY DEF EndStep
<1>2. Ready(source, block, origin, s)
  BY <1>1, ReadyAt
<1>. HIDE DEF s
<1>3. Sound(source, Others(source, block, origin, s), FlowAt(source, block, origin + 1).carried, values, steps + 1, Remaining(s))
  BY <1>2, Stays
<1>4. Others(source, block, origin, s) = Alive(source, block, origin + 1)
  BY <1>1, OthersAre
<1>. QED  BY <1>1, <1>3, <1>4, ReadyAt DEF s

LEMMA BorrowSafe == Inv /\ Safe /\ BorrowStep => Safe'
<1>. SUFFICES ASSUME Inv, Safe, BorrowStep PROVE Safe'
  OBVIOUS
<1>. DEFINE s == Statement
            to == s.to.local
            at == <<block, origin>>
            p == BorrowOf(at, s)
<1>1. AtStatement /\ s.do = "bind" /\ s.value.is = "ref" /\ Proceed /\ values' = values
  BY DEF BorrowStep
<1>2. pointers' = [Remaining(s) EXCEPT ![to] = p]
  BY DEF BorrowStep, BorrowOf, OwnLent
<1>3. Ready(source, block, origin, s) /\ ArePointers(pointers)
  BY <1>1, ReadyAt DEF Inv
<1>. HIDE DEF s, p, at, to
<1>4. ASSUME to \in Alive(source, block, origin + 1)
      PROVE  Joins(source, Others(source, block, origin, s), FlowAt(source, block, origin + 1).carried, values, steps + 1, pointers, to, p)
  <2>1. Borrows(source, block, origin, s)
    BY <1>1, <1>3, <1>4 DEF Borrows, to
  <2>. QED  BY <2>1, BorrowJoins DEF p, at, to
<1>5. Sound(source, Alive(source, block, origin + 1), FlowAt(source, block, origin + 1).carried, values, steps + 1,
            [Remaining(s) EXCEPT ![to] = p])
  BY <1>1, <1>3, <1>4, Bound DEF to
<1>. QED  BY <1>1, <1>2, <1>5, ReadyAt DEF s

LEMMA CallSafe == Inv /\ Safe /\ CallStep => Safe'
<1>. SUFFICES ASSUME Inv, Safe, CallStep PROVE Safe'
  OBVIOUS
<1>. DEFINE s == Statement
            to == s.to.local
            carried == FlowAt(source, block, origin).carried
<1>1. AtStatement /\ s.do = "bind" /\ s.value.is = "call" /\ Proceed /\ values' \in Called(s)
  BY DEF CallStep
<1>2. PICK r \in Activated(s.value) :
        /\ pointers[r].kind = "shared" => to \notin Changing(source)
        /\ pointers' = [Remaining(s) EXCEPT ![to] =
             Pointer(IF pointers[r].kind = "shared" THEN "shared" ELSE "mutable",
                     pointers[r].target, Binding(to), pointers[r].lineage,
                     {Activate(lent) : lent \in UNION {pointers[q].lent : q \in Activated(s.value)}})]
  BY DEF CallStep
<1>. DEFINE p == Pointer(IF pointers[r].kind = "shared" THEN "shared" ELSE "mutable",
                         pointers[r].target, Binding(to), pointers[r].lineage,
                         {Activate(lent) : lent \in UNION {pointers[q].lent : q \in Activated(s.value)}})
<1>3. Ready(source, block, origin, s) /\ ArePointers(pointers)
  BY <1>1, ReadyAt DEF Inv
<1>4. \A n \in Numbers \ ChangedLocals(carried, s) : values'[n] = values[n]
  BY <1>1, NumbersKept
<1>. HIDE DEF s, to, carried
<1>5. ASSUME to \in Alive(source, block, origin + 1)
      PROVE  Joins(source, Others(source, block, origin, s), FlowAt(source, block, origin + 1).carried, values', steps + 1, pointers, to, p)
  <2>1. Returns(source, block, origin, s, r, p)
    BY <1>1, <1>2, <1>3, <1>5 DEF Returns, to
  <2>. HIDE DEF p
  <2>. QED  BY <1>4, <2>1, ReturnJoins DEF carried, to
<1>6. pointers' = [Remaining(s) EXCEPT ![to] = p]
  BY <1>2
<1>. HIDE DEF p
<1>7. Sound(source, Alive(source, block, origin + 1), FlowAt(source, block, origin + 1).carried, values', steps + 1,
            [Remaining(s) EXCEPT ![to] = p])
  BY <1>1, <1>3, <1>4, <1>5, Bound DEF to, carried
<1>. QED  BY <1>1, <1>6, <1>7, ReadyAt DEF s

(* A check that does not panic has found two of its indices to differ.     *)
LEMMA IndexRead ==
  ASSUME NEW o, IsIndexOperand(o)
  PROVE  Read(o) = IndexIn(values, o)
<1>1. CASE o.gives = "constant"
  BY <1>1 DEF Read, IndexIn
<1>2. CASE o.gives # "constant"
  <2>1. o.gives = "copy" /\ o.place.path = <<>> /\ o.place.local \in Numbers /\ o.place.local \notin References
    BY <1>2, LocalsAssumption DEF IsIndexOperand
  <2>2. IsPath(o.place.path)
    BY <2>1 DEF IsPath
  <2>3. Read(o) = ReadIn(values, o.place)
    BY <2>1, <2>2, ReadOf
  <2>. QED  BY <1>2, <2>1, <2>3 DEF ReadIn, IndexIn
<1>. QED  BY <1>1, <1>2

LEMMA DistinctIs ==
  ASSUME Inv, AtStatement, Statement.do = "distinct"
  PROVE  /\ Statement = Checked(source).statements[block][index]
         /\ block \in Blocks(source) /\ index \in Nat
         /\ Compares(Statement.pairs) /\ (AllEqual(Statement) <=> AllEqualIn(values, Statement.pairs))
<1>1. /\ source \in Bodies /\ Accepted /\ IsAt(source, block, origin, index) /\ block \in Blocks(source)
  BY BodiesTyped DEF Inv, AtStatement, Running, Follows
<1>2. Statement = Checked(source).statements[block][index] /\ index <= Len(Checked(source).statements[block])
  BY <1>1 DEF AtStatement, Statement, Accepted
<1>3. Statement \in ChecksBefore(Asked(source), block, origin)
  BY <1>1, <1>2, AtStatementOf
<1>4. PICK check \in Asked(source) : Statement = Distinct(check.pairs)
  BY <1>3 DEF ChecksBefore
<1>5. Statement.pairs = check.pairs /\ Compares(check.pairs)
  <2>1. Compares(check.pairs)
    BY <1>1, EnginesAssumption DEF Asked
  <2>. QED  BY <1>4, <2>1 DEF Distinct
<1>6. \A i \in DOMAIN Statement.pairs :
        /\ Read(Statement.pairs[i][1]) = IndexIn(values, Statement.pairs[i][1])
        /\ Read(Statement.pairs[i][2]) = IndexIn(values, Statement.pairs[i][2])
  BY <1>5, IndexRead DEF Compares
<1>. QED  BY <1>1, <1>2, <1>5, <1>6 DEF AllEqual, AllEqualIn, IsAt

LEMMA DistinctSafe == Inv /\ Safe /\ DistinctStep => Safe'
<1>. SUFFICES ASSUME Inv, Safe, DistinctStep PROVE Safe'
  OBVIOUS
<1>. DEFINE A == Alive(source, block, origin)
            c == FlowAt(source, block, origin).carried
<1>1. /\ AtStatement /\ Statement.do = "distinct" /\ phase = "run" /\ steps \in Nat
      /\ source' = source /\ origin' = origin /\ values' = values /\ pointers' = pointers
      /\ Sound(source, A, c, values, steps, pointers) /\ PassedUpTo(source, block, origin, index, values)
  BY DEF DistinctStep, AtStatement, Running, Advance, Safe
<1>2. CASE AllEqual(Statement)
  BY <1>1, <1>2 DEF DistinctStep, Safe
<1>3. CASE ~ AllEqual(Statement)
  <2>1. block' = block /\ index' = index + 1 /\ steps' = steps + 1 /\ phase' = "run"
    BY <1>1, <1>3 DEF DistinctStep, Advance
  <2>2. /\ Statement = Checked(source).statements[block][index] /\ index \in Nat
        /\ ~ AllEqualIn(values, Statement.pairs) /\ source \in Bodies /\ block \in Blocks(source)
    BY <1>1, <1>3, DistinctIs DEF Inv
  <2>3. PassedUpTo(source, block, origin, index + 1, values)
    <3>1. \A k \in PlacesOf(source, block)[origin - 1] + 1 .. index + 1 - 1 :
            k \in PlacesOf(source, block)[origin - 1] + 1 .. index - 1 \/ k = index
      <4>1. PlacesOf(source, block)[origin - 1] \in Nat
        <5>1. /\ IsAt(source, block, origin, index)
              /\ WovenBy(source, block, PlacesOf(source, block)) /\ Len(source.statements[block]) \in Nat
          BY <1>1, <2>2, PlacesWoven, BodiesTyped, BlocksTyped DEF Inv, Follows
        <5>2. PlacesOf(source, block) \in [0 .. Len(source.statements[block]) + 1 -> Nat]
          BY <5>1 DEF WovenBy, Woven
        <5>3. origin - 1 \in 0 .. Len(source.statements[block]) + 1
          BY <5>1 DEF IsAt, End
        <5>. QED  BY <5>2, <5>3
      <4>. QED  BY <2>2, <4>1
    <3>. QED  BY <1>1, <2>2, <3>1 DEF PassedUpTo
  <2>. HIDE DEF A, c
  <2>4. Sound(source, A, c, values, steps + 1, pointers)
    <3>1. steps + 1 \in Nat /\ steps <= steps + 1
      BY <1>1
    <3>. QED  BY <1>1, <3>1, Kept
  <2>. QED  BY <1>1, <2>1, <2>3, <2>4 DEF Safe, A, c
<1>. QED  BY <1>2, <1>3

LEMMA JumpSafe == Inv /\ Safe /\ Jump => Safe'
<1>. SUFFICES ASSUME Inv, Safe, Jump PROVE Safe'
  OBVIOUS
<1>. DEFINE c == block'
            S == Alive(source, block, origin)
            T == Alive(source, c, 1)
            d == FlowAt(source, block, origin).carried
            e == FlowAt(source, c, 1).carried
<1>1. /\ source \in Bodies /\ phase = "run" /\ Accepted /\ Follows(source, block, origin, index, values, pointers)
      /\ index = Len(Checked(source).statements[block]) + 1
      /\ source' = source /\ phase' = "run" /\ values' = values /\ pointers' = pointers
      /\ index' = 1 /\ origin' = 1 /\ steps' = steps + 1 /\ steps \in Nat
      /\ Sound(source, S, d, values, steps, pointers)
  BY DEF Inv, Jump, AtTerminator, Running, Accepted, Safe
<1>2. /\ block \in Reachable(source) /\ block \in Blocks(source)
      /\ EmptyArriving(source, block) # {} /\ FlowArriving(source, block) # {} /\ origin = End(source, block)
  BY <1>1, BodiesTyped, AtEndOf DEF Follows
<1>. HIDE DEF c
<1>3. c \in Successors(source, block)
  <2>1. body.terminators = source.terminators
    BY <1>1, <1>2, PlacesWoven DEF Accepted
  <2>. QED  BY <2>1 DEF Jump, Terminator, Successors, c
<1>4. T \subseteq S /\ c \in Reachable(source) /\ \A r \in LiveAt(source, c, 1) \cap References : d[r] \subseteq e[r]
  BY <1>1, <1>2, <1>3, AliveEdge, FlowEdge
<1>5. \A r \in T : d[r] \subseteq e[r]
  BY <1>4 DEF Alive
<1>. HIDE DEF S, T, d, e
<1>6. Sound(source, T, e, values, steps + 1, pointers)
  <2>1. steps + 1 \in Nat /\ steps <= steps + 1
    BY <1>1
  <2>. QED  BY <1>1, <1>4, <1>5, <2>1, Kept
<1>7. PassedUpTo(source, c, 1, 1, values)
  <2>1. c \in Blocks(source)
    BY <1>1, <1>4, BodiesTyped
  <2>. QED  BY <1>1, <2>1, NothingPassed
<1>. QED  BY <1>1, <1>6, <1>7 DEF Safe, T, e, c

LEMMA StepSafe == Inv /\ Safe /\ [Next]_vars => Safe'
<1>1. ASSUME Safe, ReturnStep PROVE Safe'
  BY <1>1 DEF Safe, ReturnStep
<1>2. ASSUME Safe, UNCHANGED vars PROVE Safe'
  <2>1. /\ source' = source /\ phase' = phase /\ block' = block /\ index' = index /\ origin' = origin
        /\ steps' = steps /\ values' = values /\ pointers' = pointers
    BY <1>2 DEF vars, run
  <2>. QED  BY <1>2, <2>1 DEF Safe, AtParameters
<1>. QED  BY <1>1, <1>2, CheckSafe, AssignSafe, BorrowSafe, CallSafe, EndSafe, DistinctSafe, JumpSafe DEF Next

(* At every step of an accepted body the references that are alive are     *)
(* sound: none of them is spoiled, and what two of them were lent is apart *)
(* where either may be changed.                                            *)
THEOREM SafeHolds == Spec => [](Inv /\ Safe)
<1>. QED  BY InitInv, StepInv, InitSafe, StepSafe, PTL DEF Spec

(* No accepted body uses a reference after something else has changed,     *)
(* moved or ended what it points at, or has borrowed it for itself         *)
(* (loans.rs, the conflicts of accesses with loans, and the checks at run  *)
(* time for those it cannot decide).                                       *)
THEOREM NothingSpoiledIsUsedHolds == Spec => []NothingSpoiledIsUsed
<1>1. Inv /\ Safe => NothingSpoiledIsUsed
  <2>. SUFFICES ASSUME Inv, Safe, NEW r \in UsedReferences PROVE pointers[r] # NoPointer /\ ~ pointers[r].spoiled
    BY DEF NothingSpoiledIsUsed
  <2>1. /\ phase = "run" /\ r \in References
        /\ \/ AtStatement /\ r \in Reads(Statement) \cup Changes(Statement)
           \/ AtTerminator /\ r \in LocalsOf(Terminator.reads)
    BY DEF UsedReferences, AtStatement, AtTerminator, Running
  <2>2. /\ source \in Bodies /\ Accepted /\ Follows(source, block, origin, index, values, pointers)
        /\ Sound(source, Alive(source, block, origin), FlowAt(source, block, origin).carried, values, steps, pointers)
    BY <2>1 DEF Inv, Safe
  <2>3. r \in Alive(source, block, origin)
    <3>1. CASE AtStatement /\ Statement.do # "distinct" /\ r \in Reads(Statement) \cup Changes(Statement)
      BY <2>1, <3>1, ReadyAt, ReadyIs
    <3>2. CASE AtStatement /\ Statement.do = "distinct" /\ r \in Reads(Statement) \cup Changes(Statement)
      <4>1. Compares(Statement.pairs)
        BY <3>2, DistinctIs
      <4>2. r \in LocalsOf(UsedPlaces(Statement))
        BY <3>2 DEF Reads, Changes
      <4>3. PICK place \in UsedPlaces(Statement) : r = place.local
        BY <4>2 DEF LocalsOf
      <4>4. PICK i \in DOMAIN Statement.pairs :
              place \in OperandPlaces(Statement.pairs[i][1]) \cup OperandPlaces(Statement.pairs[i][2])
        <5>1. UsedPlaces(Statement) =
                UNION {OperandPlaces(Statement.pairs[i][1]) \cup OperandPlaces(Statement.pairs[i][2]) : i \in DOMAIN Statement.pairs}
          BY <3>2 DEF UsedPlaces
        <5>. QED  BY <4>3, <5>1
      <4>5. PICK o : IsIndexOperand(o) /\ place \in OperandPlaces(o)
        BY <4>1, <4>4 DEF Compares
      <4>6. o.place.path = <<>> /\ o.place.local \in Numbers /\ place \in WithIndices(o.place)
        BY <4>5 DEF IsIndexOperand, OperandPlaces
      <4>7. IndexLocals(o.place) = {}
        BY <4>6 DEF IndexLocals
      <4>8. place.local \in Numbers
        BY <4>6, <4>7 DEF WithIndices
      <4>. QED  BY <2>1, <4>3, <4>8, LocalsAssumption
    <3>3. CASE AtTerminator /\ r \in LocalsOf(Terminator.reads)
      <4>1. /\ block \in Reachable(source) /\ block \in Blocks(source)
            /\ IsAt(source, block, origin, Len(Checked(source).statements[block]) + 1)
            /\ MovesAccepted(source) /\ body = Checked(source)
        BY <2>2, <3>3, BodiesTyped DEF AtTerminator, Follows, Accepted
      <4>2. origin = End(source, block) /\ body.terminators = source.terminators
        BY <2>2, <4>1, AtEndOf, PlacesWoven
      <4>. QED  BY <2>1, <2>2, <3>3, <4>1, <4>2, AliveEnd DEF Terminator
    <3>. QED  BY <2>1, <3>1, <3>2, <3>3
  <2>. QED  BY <2>2, <2>3 DEF Sound, Points
<1>. QED  BY <1>1, SafeHolds, PTL

(* What a call changes through one argument no other one reaches: `&mut`   *)
(* arguments are reserved first and activated together (loans.rs,          *)
(* activations).                                                           *)
THEOREM ArgumentsApartHolds == Spec => []ArgumentsApart
<1>1. Inv /\ Safe => ArgumentsApart
  <2>. SUFFICES ASSUME Inv, Safe, NEW r \in Arguments, NEW q \in Arguments, r # q,
                       Meet(pointers[r].target, pointers[q].target),
                       ~ (pointers[r].kind = "shared" /\ pointers[q].kind = "shared")
                PROVE  FALSE
    BY DEF ArgumentsApart
  <2>. DEFINE s == Statement
              p == pointers[r]
              pq == pointers[q]
  <2>1. AtStatement /\ s.do \in {"assign", "bind"} /\ r \in Activated(s.value) \cap References
        /\ q \in Activated(s.value) \cap References
    BY DEF Arguments
  <2>2. Ready(source, block, origin, s)
    BY <2>1, ReadyAt
  <2>3. s.value.is = "call"
    <3>1. s.value.is \in {"call", "builtin"} /\ (s.value.is = "builtin" => Activated(s.value) = {q})
      BY <2>1, <2>2, ActivatedIs
    <3>. QED  BY <2>1, <3>1
  <2>4. /\ r \in Alive(source, block, origin) /\ q \in Alive(source, block, origin)
        /\ r \in Lends(source, s) /\ q \in Lends(source, s)
    BY <2>1, <2>2, <2>3, ActivatedIs
  <2>5. r \in Lenders(source) /\ q \in Lenders(source)
    BY <2>2, <2>4, LendsAre
  <2>6. Related(source, r, p, pq) /\ Related(source, q, pq, p)
    BY <2>2, <2>4, ReadyLent
  <2>7. Rivals(p, pq)
    BY <2>5, <2>6 DEF Rivals, Related, Unused
  <2>8. ~ MadeThrough(r, p, pq)
    <3>1. SUFFICES ASSUME NEW l \in pq.lent, l.base = BaseAt(r, p) PROVE FALSE
      BY DEF MadeThrough
    <3>2. l.base.local = r
      BY <3>1 DEF BaseAt
    <3>3. l.base.local \notin Lenders(source)
      BY <2>2, <2>4, ReadyLent DEF LentIn
    <3>. QED  BY <2>5, <3>2, <3>3
  <2>9. Beside(p, pq)
    BY <2>6, <2>7, <2>8 DEF Related, Diverge
  <2>10. PICK l \in pq.lent, m \in p.lent :
           /\ l.base = m.base /\ l.at # m.at /\ Holds(l, pq) /\ Holds(m, p)
           /\ Meet(l.place, m.place) /\ Meet(m.place, l.place) /\ l.kind # "mutable" /\ m.kind # "mutable"
           /\ l.kind \in Kinds /\ m.kind \in Kinds
    BY <2>2, <2>4, <2>9, BesideIs
  <2>11. p.kind \in Kinds /\ pq.kind \in Kinds
    BY <2>2, <2>4, ReadyLent DEF Points
  <2>12. l.kind = "argument" \/ m.kind = "argument"
    BY <2>10, <2>11 DEF Holds, Strong, Kinds
  <2>13. CASE l.kind = "argument"
    BY <2>1, <2>2, <2>4, <2>10, <2>13, ActivationApart
  <2>14. CASE m.kind = "argument"
    BY <2>1, <2>2, <2>4, <2>10, <2>14, ActivationApart
  <2>. QED  BY <2>12, <2>13, <2>14
<1>. QED  BY <1>1, SafeHolds, PTL
===============================================================================
