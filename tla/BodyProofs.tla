------------------------------- MODULE BodyProofs -------------------------------
(***************************************************************************)
(* What the proofs about bodies share: folds along statements, places that *)
(* cover each other, and what liveness and move checking find at each      *)
(* statement.                                                              *)
(***************************************************************************)
EXTENDS Moves, Loans, SequenceTheorems, FiniteSetTheorems, TLAPS

(* Up to n: a set with 0 that has, with a number, the one after it.        *)
LEMMA Upward ==
  ASSUME NEW n \in Nat, NEW S, 0 \in S, \A k \in 1 .. n : k - 1 \in S => k \in S
  PROVE  \A k \in 0 .. n : k \in S
<1>. SUFFICES ASSUME NEW x \in 0 .. n, x \notin S PROVE FALSE
  OBVIOUS
<1>. DEFINE D == {d \in Nat : d <= n /\ d \notin S}
<1>1. D \in SUBSET Nat /\ x \in D
  OBVIOUS
<1>2. PICK d \in D : \A e \in D : <<e, d>> \notin OpToRel(<, Nat)
  BY <1>1, WFMin, NatLessThanWellFounded, Zenon
<1>3. d \in 1 .. n /\ d - 1 \in Nat /\ d - 1 < d /\ d \notin S /\ d - 1 <= n
  OBVIOUS
<1>4. d - 1 \in D
  BY <1>3
<1>5. <<d - 1, d>> \in OpToRel(<, Nat)
  BY <1>3, Zenon DEF OpToRel
<1>. QED  BY <1>2, <1>4, <1>5
-----------------------------------------------------------------------------
(* The states between the steps of a sequence, for each of the folds.      *)
StepOf(fold, state, s) ==
  CASE fold[1] = "moves" -> MoveStep(state, s)
    [] fold[1] = "filled" -> Fill(state, s)
    [] fold[1] = "live" -> LiveBefore(state, s)
    [] fold[1] = "check" -> CheckStep(fold[2], fold[3], fold[4], fold[5], state, s)
    [] fold[1] = "flow" -> FlowStep(fold[2], fold[3], state, s)
    [] fold[1] = "insert" -> InsertedBefore(state, s, ChecksBefore(fold[2], fold[3], s))
AreBetween(fold, state, statements, f) ==
  f = [k \in 0 .. Len(statements) |-> IF k = 0 THEN state ELSE StepOf(fold, f[k - 1], statements[k])]
Between(fold, state, statements) == CHOOSE f : AreBetween(fold, state, statements, f)

LEMMA BetweenExists ==
  ASSUME NEW fold, NEW state, NEW statements, Len(statements) \in Nat
  PROVE  AreBetween(fold, state, statements, Between(fold, state, statements))
<1>. DEFINE n == Len(statements)
            Is(i, f) == f = [k \in 0 .. i |-> IF k = 0 THEN state ELSE StepOf(fold, f[k - 1], statements[k])]
            S == {i \in 0 .. n : \E f : Is(i, f)}
<1>. HIDE DEF n
<1>0. n \in Nat
  BY DEF n
<1>1. 0 \in S
  <2>1. Is(0, [k \in 0 .. 0 |-> state])
    OBVIOUS
  <2>. HIDE DEF Is
  <2>. QED  BY <1>0, <2>1
<1>2. ASSUME NEW i \in 1 .. n, i - 1 \in S PROVE i \in S
  <2>1. PICK f : Is(i - 1, f)
    BY <1>2
  <2>. DEFINE g == [k \in 0 .. i |-> IF k = i THEN StepOf(fold, f[i - 1], statements[i]) ELSE f[k]]
  <2>2. \A k \in 0 .. i : g[k] = IF k = 0 THEN state ELSE StepOf(fold, g[k - 1], statements[k])
    <3>. SUFFICES ASSUME NEW k \in 0 .. i
                  PROVE g[k] = IF k = 0 THEN state ELSE StepOf(fold, g[k - 1], statements[k])
      OBVIOUS
    <3>1. k # 0 => g[k - 1] = f[k - 1]
      BY <1>0
    <3>2. CASE k = i
      BY <1>0, <3>1, <3>2
    <3>3. CASE k # i
      <4>1. k \in 0 .. i - 1
        BY <1>0, <3>3
      <4>2. f[k] = IF k = 0 THEN state ELSE StepOf(fold, f[k - 1], statements[k])
        BY <4>1, <2>1
      <4>. QED  BY <1>0, <3>1, <3>3, <4>2
    <3>. QED  BY <3>2, <3>3
  <2>3. g = [k \in 0 .. i |-> g[k]]
    OBVIOUS
  <2>. HIDE DEF g
  <2>4. g = [k \in 0 .. i |-> IF k = 0 THEN state ELSE StepOf(fold, g[k - 1], statements[k])]
    BY <2>2, <2>3
  <2>. QED  BY <2>4, <1>0
<1>3. n \in S
  <2>1. \A k \in 1 .. n : k - 1 \in S => k \in S
    BY <1>2
  <2>. HIDE DEF S
  <2>. QED  BY <1>0, <1>1, <2>1, Upward
<1>4. \E f : Is(n, f)
  BY <1>3
<1>5. \E f : AreBetween(fold, state, statements, f)
  BY <1>4 DEF AreBetween, n
<1>. QED
  BY <1>5, Zenon DEF Between

(* They start with the state and follow each other.                        *)
LEMMA BetweenSteps ==
  ASSUME NEW fold, NEW state, NEW S, NEW statements \in Seq(S)
  PROVE  /\ Between(fold, state, statements)[0] = state
         /\ \A k \in 1 .. Len(statements) :
              Between(fold, state, statements)[k]
                = StepOf(fold, Between(fold, state, statements)[k - 1], statements[k])
<1>. DEFINE f == Between(fold, state, statements)
            n == Len(statements)
<1>0. n \in Nat
  BY LenProperties
<1>1. f = [k \in 0 .. n |-> IF k = 0 THEN state ELSE StepOf(fold, f[k - 1], statements[k])]
  BY <1>0, BetweenExists DEF AreBetween
<1>. HIDE DEF f, n
<1>2. \A k \in 0 .. n : f[k] = IF k = 0 THEN state ELSE StepOf(fold, f[k - 1], statements[k])
  BY <1>1
<1>3. f[0] = state /\ \A k \in 1 .. n : f[k] = StepOf(fold, f[k - 1], statements[k])
  BY <1>0, <1>2
<1>. QED  BY <1>3 DEF f, n

(* Sequences that begin alike have the same states.                        *)
LEMMA BetweenAgree ==
  ASSUME NEW fold, NEW state, NEW S, NEW s \in Seq(S), NEW T, NEW t \in Seq(T), NEW n \in Nat,
         n <= Len(s), n <= Len(t), \A k \in 1 .. n : s[k] = t[k]
  PROVE  \A k \in 0 .. n : Between(fold, state, s)[k] = Between(fold, state, t)[k]
<1>. DEFINE f == Between(fold, state, s)
            g == Between(fold, state, t)
            Same == {k \in 0 .. n : f[k] = g[k]}
<1>1. f[0] = state /\ \A k \in 1 .. Len(s) : f[k] = StepOf(fold, f[k - 1], s[k])
  BY BetweenSteps
<1>2. g[0] = state /\ \A k \in 1 .. Len(t) : g[k] = StepOf(fold, g[k - 1], t[k])
  BY BetweenSteps
<1>3. Len(s) \in Nat /\ Len(t) \in Nat
  BY LenProperties
<1>. HIDE DEF f, g
<1>4. 0 \in Same
  BY <1>1, <1>2
<1>5. \A k \in 1 .. n : k - 1 \in Same => k \in Same
  BY <1>1, <1>2, <1>3
<1>. HIDE DEF Same
<1>6. \A k \in 0 .. n : k \in Same
  BY <1>4, <1>5, Upward
<1>. QED  BY <1>6 DEF Same, f, g

LEMMA AfterIsBetween ==
  ASSUME NEW n, NEW state, NEW statements
  PROVE  /\ AfterFirst(n, MoveStep, state, statements) = Between(<<"moves">>, state, statements)[n]
         /\ AfterFirst(n, Fill, state, statements) = Between(<<"filled">>, state, statements)[n]
         /\ AfterFirst(n, LiveBefore, state, statements) = Between(<<"live">>, state, statements)[n]
<1>. DEFINE Moves(f) == f = [k \in 0 .. Len(statements) |-> IF k = 0 THEN state ELSE MoveStep(f[k - 1], statements[k])]
            Filled(f) == f = [k \in 0 .. Len(statements) |-> IF k = 0 THEN state ELSE Fill(f[k - 1], statements[k])]
            Live(f) == f = [k \in 0 .. Len(statements) |-> IF k = 0 THEN state ELSE LiveBefore(f[k - 1], statements[k])]
<1>1. \A t, s : /\ StepOf(<<"moves">>, t, s) = MoveStep(t, s)
                /\ StepOf(<<"filled">>, t, s) = Fill(t, s)
                /\ StepOf(<<"live">>, t, s) = LiveBefore(t, s)
  BY DEF StepOf
<1>2. \A f : /\ AreBetween(<<"moves">>, state, statements, f) <=> Moves(f)
             /\ AreBetween(<<"filled">>, state, statements, f) <=> Filled(f)
             /\ AreBetween(<<"live">>, state, statements, f) <=> Live(f)
  BY <1>1 DEF AreBetween
<1>3. /\ AfterFirst(n, MoveStep, state, statements) = (CHOOSE f : Moves(f))[n]
      /\ AfterFirst(n, Fill, state, statements) = (CHOOSE f : Filled(f))[n]
      /\ AfterFirst(n, LiveBefore, state, statements) = (CHOOSE f : Live(f))[n]
  BY DEF AfterFirst, Along
<1>. HIDE DEF Moves, Filled, Live
<1>4. /\ Between(<<"moves">>, state, statements) = CHOOSE f : Moves(f)
      /\ Between(<<"filled">>, state, statements) = CHOOSE f : Filled(f)
      /\ Between(<<"live">>, state, statements) = CHOOSE f : Live(f)
  BY <1>2 DEF Between
<1>. QED  BY <1>3, <1>4

LEMMA ChecksAreBetween ==
  ASSUME NEW state, NEW statements, NEW body, NEW wanted, NEW liveEnds, NEW b
  PROVE  Along(LAMBDA t, s : CheckStep(body, wanted, liveEnds, b, t, s), state, statements)
           = Between(<<"check", body, wanted, liveEnds, b>>, state, statements)
<1>. DEFINE Is(f) == f = [k \in 0 .. Len(statements) |->
                IF k = 0 THEN state ELSE CheckStep(body, wanted, liveEnds, b, f[k - 1], statements[k])]
<1>1. \A f : AreBetween(<<"check", body, wanted, liveEnds, b>>, state, statements, f) <=> Is(f)
  <2>. SUFFICES ASSUME NEW f PROVE AreBetween(<<"check", body, wanted, liveEnds, b>>, state, statements, f) <=> Is(f)
    OBVIOUS
  <2>1. \A k : StepOf(<<"check", body, wanted, liveEnds, b>>, f[k - 1], statements[k]) = CheckStep(body, wanted, liveEnds, b, f[k - 1], statements[k])
    BY DEF StepOf
  <2>. QED  BY <2>1, Zenon DEF AreBetween
<1>2. Along(LAMBDA t, s : CheckStep(body, wanted, liveEnds, b, t, s), state, statements) = CHOOSE f : Is(f)
  BY DEF Along
<1>. HIDE DEF Is
<1>. QED  BY <1>1, <1>2 DEF Between

LEMMA FlowsAreBetween ==
  ASSUME NEW state, NEW statements, NEW wanted, NEW b
  PROVE  Along(LAMBDA t, s : FlowStep(wanted, b, t, s), state, statements)
           = Between(<<"flow", wanted, b>>, state, statements)
<1>. DEFINE Is(f) == f = [k \in 0 .. Len(statements) |->
                IF k = 0 THEN state ELSE FlowStep(wanted, b, f[k - 1], statements[k])]
<1>1. \A f : AreBetween(<<"flow", wanted, b>>, state, statements, f) <=> Is(f)
  <2>. SUFFICES ASSUME NEW f PROVE AreBetween(<<"flow", wanted, b>>, state, statements, f) <=> Is(f)
    OBVIOUS
  <2>1. \A k : StepOf(<<"flow", wanted, b>>, f[k - 1], statements[k]) = FlowStep(wanted, b, f[k - 1], statements[k])
    BY DEF StepOf
  <2>. QED  BY <2>1, Zenon DEF AreBetween
<1>2. Along(LAMBDA t, s : FlowStep(wanted, b, t, s), state, statements) = CHOOSE f : Is(f)
  BY DEF Along
<1>. HIDE DEF Is
<1>. QED  BY <1>1, <1>2 DEF Between

LEMMA InsertedAreBetween ==
  ASSUME NEW state, NEW statements, NEW checks, NEW b
  PROVE  Along(LAMBDA t, i : InsertedBefore(t, i, ChecksBefore(checks, b, i)), state, statements)
           = Between(<<"insert", checks, b>>, state, statements)
<1>. DEFINE Is(f) == f = [k \in 0 .. Len(statements) |->
                IF k = 0 THEN state ELSE InsertedBefore(f[k - 1], statements[k], ChecksBefore(checks, b, statements[k]))]
<1>1. \A f : AreBetween(<<"insert", checks, b>>, state, statements, f) <=> Is(f)
  <2>. SUFFICES ASSUME NEW f PROVE AreBetween(<<"insert", checks, b>>, state, statements, f) <=> Is(f)
    OBVIOUS
  <2>1. \A k : StepOf(<<"insert", checks, b>>, f[k - 1], statements[k]) = InsertedBefore(f[k - 1], statements[k], ChecksBefore(checks, b, statements[k]))
    BY DEF StepOf
  <2>. QED  BY <2>1, Zenon DEF AreBetween
<1>2. Along(LAMBDA t, i : InsertedBefore(t, i, ChecksBefore(checks, b, i)), state, statements) = CHOOSE f : Is(f)
  BY DEF Along
<1>. HIDE DEF Is
<1>. QED  BY <1>1, <1>2 DEF Between
-----------------------------------------------------------------------------
(* Places that cover each other.                                           *)
LEMMA PrefixMeans ==
  ASSUME NEW s, NEW t, IsPath(s), IsPath(t)
  PROVE  IsPrefix(s, t) <=> Len(s) <= Len(t) /\ \A i \in 1 .. Len(s) : s[i] = t[i]
<1>. DEFINE S == ToSet(s) \cup ToSet(t)
<1>1. s \in Seq(S) /\ t \in Seq(S)
  BY SeqMonotonic DEF IsPath
<1>. HIDE DEF S
<1>2. Len(s) \in Nat /\ Len(t) \in Nat
  BY <1>1, LenProperties
<1>3. SubSeq(s, 1, Len(s)) = s
  BY <1>1
<1>4. Len(s) <= Len(t) => /\ SubSeq(t, 1, Len(s)) \in Seq(S) /\ Len(SubSeq(t, 1, Len(s))) = Len(s)
                          /\ \A i \in 1 .. Len(s) : SubSeq(t, 1, Len(s))[i] = t[i]
  BY <1>1, <1>2
<1>5. Len(s) <= Len(t) => (s = SubSeq(t, 1, Len(s)) <=> \A i \in 1 .. Len(s) : s[i] = t[i])
  BY <1>1, <1>2, <1>4, SeqEqual
<1>. QED  BY <1>3, <1>5 DEF IsPrefix

LEMMA PathLen == \A s : IsPath(s) => Len(s) \in Nat
  BY LenProperties DEF IsPath

(* What covers what covers a place covers it.                              *)
LEMMA CoversTransitive ==
  ASSUME NEW p, NEW q, NEW r, IsPath(p.path), IsPath(q.path), IsPath(r.path),
         Covers(p, q), Covers(q, r)
  PROVE  Covers(p, r)
  BY PrefixMeans, PathLen DEF Covers

(* Of two places that cover a third, one covers the other.                 *)
LEMMA CoversComparable ==
  ASSUME NEW p, NEW q, NEW r, IsPath(p.path), IsPath(q.path), IsPath(r.path),
         Covers(p, r), Covers(q, r)
  PROVE  Covers(p, q) \/ Covers(q, p)
  BY PrefixMeans, PathLen DEF Covers

LEMMA WholeCovers ==
  ASSUME NEW l, NEW p, IsPath(p.path), p.local = l
  PROVE  Covers(Whole(l), p) /\ IsPath(Whole(l).path) /\ Whole(l).local = l
<1>1. Whole(l).path = <<>> /\ Whole(l).local = l
  BY DEF Whole, Place
<1>2. IsPath(<<>>) /\ Len(<<>>) = 0
  BY DEF IsPath
<1>. QED  BY <1>1, <1>2, PrefixMeans, PathLen DEF Covers
-----------------------------------------------------------------------------
(* What statements name.                                                   *)
(* What is moved is used, and every place used is a path.                  *)
LEMMA MovedIsUsed == \A s : MovedBy(s) \subseteq UsedPlaces(s)
<1>. SUFFICES ASSUME NEW s, NEW place \in MovedBy(s) PROVE place \in UsedPlaces(s)
  OBVIOUS
<1>1. \A p : p \in WithIndices(p)
  BY DEF WithIndices
<1>2. CASE s.do \in {"assign", "bind"}
  <2>1. PICK i \in DOMAIN s.value.operands :
          s.value.operands[i].gives = "move" /\ place = s.value.operands[i].place
    BY <1>2 DEF MovedBy, MovedOperands
  <2>2. place \in OperandPlaces(s.value.operands[i])
    BY <2>1, <1>1 DEF OperandPlaces
  <2>. QED  BY <1>2, <2>1, <2>2 DEF UsedPlaces, RvaluePlaces
<1>3. CASE s.do = "unpack"
  <2>1. PICK i \in DOMAIN s.taken : place = s.taken[i][2]
    BY <1>3 DEF MovedBy
  <2>. QED  BY <1>1, <1>3, <2>1 DEF UsedPlaces
<1>. QED  BY <1>2, <1>3 DEF MovedBy

LEMMA StatementsTyped ==
  ASSUME NEW bod, WellFormed(bod), NEW s \in StatementsOf(bod)
  PROVE  /\ \A place \in UsedPlaces(s) : IsPath(place.path)
         /\ s.do = "assign" => IsPath(s.to.path)
         /\ s.do = "bind" => IsPath(s.to.path) /\ s.to = Whole(s.to.local) /\ s.to.path = <<>> /\ s.to.local \in References
         /\ MovedBy(s) \subseteq MovedIn(bod)
<1>1. PICK b \in Blocks(bod) : \E i \in DOMAIN bod.statements[b] : s = bod.statements[b][i]
  BY DEF StatementsOf
<1>2. PICK i \in DOMAIN bod.statements[b] : s = bod.statements[b][i]
  BY <1>1
<1>3. MovedBy(s) \subseteq MovedIn(bod)
  BY <1>2 DEF MovedIn
<1>4. s \in ToSet(bod.statements[b])
  BY <1>2 DEF ToSet
<1>5. /\ \A place \in UsedPlaces(s) : IsPath(place.path)
      /\ s.do = "assign" => IsPath(s.to.path)
      /\ s.do = "bind" => s.to = Whole(s.to.local) /\ s.to.local \in References
  BY <1>4 DEF WellFormed
<1>6. s.do = "bind" => s.to.path = <<>>
  BY <1>5 DEF Whole, Place
<1>7. IsPath(<<>>)
  BY DEF IsPath
<1>. QED  BY <1>3, <1>5, <1>6, <1>7

LEMMA MovedIsPath ==
  ASSUME NEW bod, WellFormed(bod), NEW place \in MovedIn(bod)
  PROVE  IsPath(place.path)
<1>1. PICK b \in Blocks(bod) : \E i \in DOMAIN bod.statements[b] : place \in MovedBy(bod.statements[b][i])
  BY DEF MovedIn
<1>2. PICK i \in DOMAIN bod.statements[b] : place \in MovedBy(bod.statements[b][i])
  BY <1>1
<1>3. bod.statements[b][i] \in StatementsOf(bod)
  BY <1>2 DEF StatementsOf
<1>. QED  BY <1>2, <1>3, MovedIsUsed, StatementsTyped
-----------------------------------------------------------------------------
(* What liveness and move checking find at statement i of block b, and,    *)
(* with i one past the last statement, at its terminator.                  *)
EmptyArriving(bod, b) == ArrivingAt(bod, b, EntryEmpty, MoveEnds(bod, LiveStarts(bod)))
EmptyStart(bod, b) == Retain(JoinEmpty(EmptyArriving(bod, b)), LiveStarts(bod)[b])
EmptyAt(bod, b, i) == Between(<<"moves">>, EmptyStart(bod, b), bod.statements[b])[i - 1]
LiveLeaving(bod, b) == LiveEnds(bod, LiveStarts(bod))[b] \cup LocalsOf(bod.terminators[b].reads)
LiveAt(bod, b, i) ==
  Between(<<"live">>, LiveLeaving(bod, b), Reverse(bod.statements[b]))[Len(bod.statements[b]) + 1 - i]
End(bod, b) == Len(bod.statements[b]) + 1

LEMMA BlocksTyped ==
  ASSUME NEW bod, WellFormed(bod), NEW b \in Blocks(bod)
  PROVE  /\ bod.statements[b] \in Seq(ToSet(bod.statements[b])) /\ Len(bod.statements[b]) \in Nat
         /\ DOMAIN bod.statements[b] = 1 .. Len(bod.statements[b])
         /\ \A i \in 1 .. Len(bod.statements[b]) : bod.statements[b][i] \in StatementsOf(bod)
         /\ \A place \in bod.terminators[b].reads : IsPath(place.path)
<1>1. /\ bod.statements[b] \in Seq(ToSet(bod.statements[b]))
      /\ \A place \in bod.terminators[b].reads : IsPath(place.path)
  BY DEF WellFormed
<1>2. /\ Len(bod.statements[b]) \in Nat
      /\ DOMAIN bod.statements[b] = 1 .. Len(bod.statements[b])
  BY <1>1, LenProperties
<1>3. \A i \in 1 .. Len(bod.statements[b]) : bod.statements[b][i] \in StatementsOf(bod)
  BY <1>2 DEF StatementsOf
<1>. QED  BY <1>1, <1>2, <1>3

LEMMA ReachableTyped ==
  ASSUME NEW bod, Solved(bod)
  PROVE  /\ 0 \in Reachable(bod) /\ Reachable(bod) \subseteq Blocks(bod)
         /\ \A b \in Reachable(bod) : Successors(bod, b) \subseteq Reachable(bod)
  BY DEF Solved

(* What is live and empty before and after a statement.                    *)
LEMMA LiveSteps ==
  ASSUME NEW bod, WellFormed(bod), Solved(bod), NEW b \in Blocks(bod)
  PROVE  /\ LiveAt(bod, b, 1) = LiveStarts(bod)[b]
         /\ LiveAt(bod, b, End(bod, b)) = LiveLeaving(bod, b)
         /\ \A i \in 1 .. Len(bod.statements[b]) :
              LiveAt(bod, b, i) = LiveBefore(LiveAt(bod, b, i + 1), bod.statements[b][i])
<1>. DEFINE s == bod.statements[b]
            r == Reverse(s)
            n == Len(s)
            f == Between(<<"live">>, LiveLeaving(bod, b), r)
<1>1. s \in Seq(ToSet(s)) /\ n \in Nat
  BY BlocksTyped
<1>2. r \in Seq(ToSet(s)) /\ Len(r) = n /\ \A k \in 1 .. n : r[k] = s[n - k + 1]
  BY <1>1 DEF Reverse
<1>3. /\ f[0] = LiveLeaving(bod, b)
      /\ \A k \in 1 .. n : f[k] = StepOf(<<"live">>, f[k - 1], r[k])
  BY <1>2, BetweenSteps
<1>4. LiveStarts(bod)[b] = f[n]
  <2>1. LiveStarts(bod) = LiveRound(bod, LiveStarts(bod))
    BY DEF Solved
  <2>2. LiveRound(bod, LiveStarts(bod))[b] = AfterFirst(Len(r), LiveBefore, LiveLeaving(bod, b), r)
    BY DEF LiveRound, After, LiveLeaving
  <2>. QED  BY <1>2, <2>1, <2>2, AfterIsBetween
<1>5. \A i : LiveAt(bod, b, i) = f[n + 1 - i]
  BY DEF LiveAt
<1>6. End(bod, b) = n + 1
  BY DEF End
<1>. HIDE DEF f, r, n, s
<1>7. \A i \in 1 .. n : LiveAt(bod, b, i) = LiveBefore(LiveAt(bod, b, i + 1), s[i])
  <2>. SUFFICES ASSUME NEW i \in 1 .. n PROVE LiveAt(bod, b, i) = LiveBefore(LiveAt(bod, b, i + 1), s[i])
    OBVIOUS
  <2>1. n + 1 - i \in 1 .. n /\ n + 1 - i - 1 = n + 1 - (i + 1) /\ n - (n + 1 - i) + 1 = i
    BY <1>1
  <2>2. f[n + 1 - i] = LiveBefore(f[n + 1 - (i + 1)], s[i])
    BY <1>2, <1>3, <2>1 DEF StepOf
  <2>. QED  BY <1>5, <2>2
<1>8. LiveAt(bod, b, 1) = LiveStarts(bod)[b] /\ LiveAt(bod, b, n + 1) = LiveLeaving(bod, b)
  <2>1. n + 1 - 1 = n /\ n + 1 - (n + 1) = 0
    BY <1>1
  <2>. QED  BY <1>3, <1>4, <1>5, <2>1
<1>. QED  BY <1>6, <1>7, <1>8 DEF n, s

LEMMA EmptySteps ==
  ASSUME NEW bod, WellFormed(bod), NEW b \in Blocks(bod)
  PROVE  /\ EmptyAt(bod, b, 1) = EmptyStart(bod, b)
         /\ \A i \in 1 .. Len(bod.statements[b]) :
              EmptyAt(bod, b, i + 1) = MoveStep(EmptyAt(bod, b, i), bod.statements[b][i])
<1>. DEFINE s == bod.statements[b]
            e == Between(<<"moves">>, EmptyStart(bod, b), s)
<1>1. s \in Seq(ToSet(s)) /\ Len(s) \in Nat
  BY BlocksTyped
<1>2. /\ e[0] = EmptyStart(bod, b)
      /\ \A k \in 1 .. Len(s) : e[k] = StepOf(<<"moves">>, e[k - 1], s[k])
  BY <1>1, BetweenSteps
<1>3. \A i : EmptyAt(bod, b, i) = e[i - 1]
  BY DEF EmptyAt
<1>. HIDE DEF e, s
<1>4. \A i \in 1 .. Len(s) : EmptyAt(bod, b, i + 1) = e[i]
  <2>1. \A i \in 1 .. Len(s) : i + 1 - 1 = i
    BY <1>1
  <2>. QED  BY <1>3, <2>1
<1>5. EmptyAt(bod, b, 1) = e[0]
  BY <1>3
<1>6. \A i \in 1 .. Len(s) : EmptyAt(bod, b, i + 1) = MoveStep(EmptyAt(bod, b, i), s[i])
  BY <1>2, <1>3, <1>4 DEF StepOf
<1>. QED  BY <1>2, <1>5, <1>6 DEF s

-----------------------------------------------------------------------------
(* An accepted body has no error at any statement that it reaches.         *)
LEMMA NoErrors ==
  ASSUME NEW bod, WellFormed(bod), Solved(bod), MovesAccepted(bod), NEW b \in Reachable(bod)
  PROVE  /\ \A i \in 1 .. Len(bod.statements[b]) : MoveErrors(EmptyAt(bod, b, i), bod.statements[b][i]) = {}
         /\ \A place \in bod.terminators[b].reads : ~ Overlaps(EmptyAt(bod, b, End(bod, b)), place)
         /\ \A place \in MovedIn(bod) : place.local \notin References
<1>. DEFINE s == bod.statements[b]
<1>1. BlockErrors(bod, b, EmptyStart(bod, b)) = {}
  BY DEF MovesAccepted, UseErrors, EmptyStart, EmptyArriving, StartOf
<1>2. b \in Blocks(bod) /\ Len(s) \in Nat /\ DOMAIN s = 1 .. Len(s)
  BY ReachableTyped, BlocksTyped
<1>3. \A n : AfterFirst(n, MoveStep, EmptyStart(bod, b), s) = Between(<<"moves">>, EmptyStart(bod, b), s)[n]
  BY AfterIsBetween
<1>4. \A i \in 1 .. Len(s) : MoveErrors(AfterFirst(i - 1, MoveStep, EmptyStart(bod, b), s), s[i]) = {}
  BY <1>1, <1>2 DEF BlockErrors
<1>5. \A place \in bod.terminators[b].reads : ~ Overlaps(After(MoveStep, EmptyStart(bod, b), s), place)
  BY <1>1 DEF BlockErrors
<1>6. After(MoveStep, EmptyStart(bod, b), s) = EmptyAt(bod, b, End(bod, b))
  <2>1. Len(s) + 1 - 1 = Len(s)
    BY <1>2
  <2>. QED  BY <2>1, <1>3 DEF After, EmptyAt, End
<1>7. \A place \in MovedIn(bod) : place.local \notin References
  BY DEF MovesAccepted, SourceErrors, Immovable
<1>. QED  BY <1>3, <1>4, <1>5, <1>6, <1>7 DEF EmptyAt
-----------------------------------------------------------------------------
(* What an edge keeps: what is live behind it is live before it, and what  *)
(* is empty before it arrives behind it.                                   *)
LEMMA EmptyEdge ==
  ASSUME NEW bod, WellFormed(bod), Solved(bod), NEW b \in Reachable(bod), EmptyArriving(bod, b) # {},
         NEW c \in Successors(bod, b)
  PROVE  /\ c \in Reachable(bod)
         /\ LiveStarts(bod)[c] = LiveAt(bod, c, 1)
         /\ LiveAt(bod, c, 1) \subseteq LiveEnds(bod, LiveStarts(bod))[b]
         /\ LiveAt(bod, c, 1) \subseteq LiveAt(bod, b, End(bod, b))
         /\ Retain(EmptyAt(bod, b, End(bod, b)), LiveEnds(bod, LiveStarts(bod))[b]) \in EmptyArriving(bod, c)
         /\ EmptyAt(bod, c, 1) = Retain(JoinEmpty(EmptyArriving(bod, c)), LiveAt(bod, c, 1))
<1>. DEFINE live == LiveStarts(bod)
            s == bod.statements[b]
            ends == MoveEnds(bod, live)
            leaving == Retain(EmptyAt(bod, b, End(bod, b)), LiveEnds(bod, live)[b])
<1>1. b \in Blocks(bod) /\ c \in Blocks(bod) /\ c \in Reachable(bod) /\ b \in Predecessors(bod, c)
  BY ReachableTyped DEF Predecessors
<1>2. Len(s) \in Nat /\ End(bod, b) - 1 = Len(s)
  BY <1>1, BlocksTyped DEF End
<1>3. leaving \in EmptyArriving(bod, c)
  <2>1. ends = MoveRound(bod, live, ends)
    BY DEF Solved
  <2>2. MoveRound(bod, live, ends)[b]
          = {MoveTransfer(bod, live, LiveEnds(bod, live), b, JoinEmpty(EmptyArriving(bod, b)))}
    BY <1>1 DEF MoveRound, ForwardRound, EmptyArriving
  <2>3. MoveTransfer(bod, live, LiveEnds(bod, live), b, JoinEmpty(EmptyArriving(bod, b))) = leaving
    <3>1. AfterFirst(Len(s), MoveStep, EmptyStart(bod, b), s) = EmptyAt(bod, b, End(bod, b))
      BY <1>2, AfterIsBetween DEF EmptyAt
    <3>. QED  BY <3>1 DEF MoveTransfer, After, EmptyStart
  <2>4. leaving \in ends[b]
    BY <2>1, <2>2, <2>3
  <2>. QED  BY <1>1, <2>4 DEF EmptyArriving, ArrivingAt
<1>4. live[c] \subseteq LiveEnds(bod, live)[b]
  BY <1>1 DEF LiveEnds
<1>5. LiveAt(bod, c, 1) = live[c] /\ LiveAt(bod, b, End(bod, b)) = LiveLeaving(bod, b)
  BY <1>1, LiveSteps
<1>6. EmptyAt(bod, c, 1) = Retain(JoinEmpty(EmptyArriving(bod, c)), live[c])
  BY <1>1, EmptySteps DEF EmptyStart
<1>. HIDE DEF live, s, ends, leaving
<1>7. LiveAt(bod, c, 1) \subseteq LiveAt(bod, b, End(bod, b))
  BY <1>4, <1>5 DEF LiveLeaving, live
<1>. QED  BY <1>1, <1>3, <1>4, <1>5, <1>6, <1>7 DEF leaving, live
-----------------------------------------------------------------------------
(* What insert_checks makes of a block: its statements, in order, each with*)
(* its checks between it and the one before it.  Statement i of the old    *)
(* block is at places[i] of the new one.                                   *)
Woven(old, new, checks, b, places) ==
  /\ places \in [0 .. Len(old) + 1 -> Nat]
  /\ places[0] = 0 /\ places[Len(old) + 1] = Len(new) + 1 /\ places[Len(old) + 1] = places[Len(old)] + 1
  /\ \A i, j \in 0 .. Len(old) + 1 : i < j => places[i] < places[j]
  /\ \A i \in 1 .. Len(old) : new[places[i]] = old[i]
  /\ \A i \in 1 .. Len(old) :
       {new[j] : j \in places[i - 1] + 1 .. places[i] - 1} = ChecksBefore(checks, b, i)

LEMMA SetSequence ==
  ASSUME NEW S, IsFiniteSet(S)
  PROVE  SetToSeq(S) \in Seq(S) /\ {SetToSeq(S)[i] : i \in 1 .. Len(SetToSeq(S))} = S
<1>. DEFINE n == Cardinality(S)
            f == SetToSeq(S)
<1>1. n \in Nat /\ ExistsBijection(1 .. n, S)
  BY FS_CardinalityType
<1>. HIDE DEF n
<1>2. \E g \in [1 .. n -> S] : IsInjective(g)
  <2>1. PICK g : g \in Bijection(1 .. n, S)
    BY <1>1 DEF ExistsBijection
  <2>. QED  BY <2>1 DEF Bijection, Injection
<1>3. f \in [1 .. n -> S] /\ IsInjective(f)
  BY <1>2 DEF SetToSeq, n
<1>. HIDE DEF f
<1>4. f \in Injection(1 .. n, S)
  BY <1>3 DEF Injection
<1>5. IsFiniteSet(1 .. n) /\ Cardinality(1 .. n) = n
  BY <1>1, FS_Interval
<1>6. f \in Surjection(1 .. n, S)
  BY <1>4, <1>5, FS_Injection DEF n
<1>7. \A t \in S : \E i \in 1 .. n : f[i] = t
  BY <1>6 DEF Surjection
<1>8. f \in Seq(S) /\ Len(f) = n
  BY <1>1, <1>3
<1>. QED  BY <1>3, <1>7, <1>8 DEF f

LEMMA ChecksFinite ==
  ASSUME NEW checks, IsFiniteSet(checks), NEW b, NEW i
  PROVE  IsFiniteSet(ChecksBefore(checks, b, i))
<1>. DEFINE S == {x \in checks : x.block = b /\ x.index = i}
            T == ChecksBefore(checks, b, i)
            f == [c \in S |-> Distinct(c.pairs)]
<1>1. IsFiniteSet(S)
  BY FS_Subset
<1>2. f \in Surjection(S, T)
  BY DEF Surjection, ChecksBefore
<1>. HIDE DEF S, T, f
<1>3. IsFiniteSet(T)
  BY <1>1, <1>2, FS_Surjection
<1>. QED  BY <1>3 DEF T

(* A sequence put into another.                                            *)
Splice(t, i, q) == SubSeq(t, 1, i - 1) \o q \o SubSeq(t, i, Len(t))
LEMMA Spliced ==
  ASSUME NEW S, NEW t \in Seq(S), NEW q \in Seq(S), NEW i \in 1 .. Len(t)
  PROVE  /\ Splice(t, i, q) \in Seq(S) /\ Len(Splice(t, i, q)) = Len(t) + Len(q)
         /\ \A j \in 1 .. i - 1 : Splice(t, i, q)[j] = t[j]
         /\ \A j \in 1 .. Len(q) : Splice(t, i, q)[i - 1 + j] = q[j]
         /\ \A j \in i .. Len(t) : Splice(t, i, q)[j + Len(q)] = t[j]
<1>. DEFINE before == SubSeq(t, 1, i - 1)
            behind == SubSeq(t, i, Len(t))
            first == before \o q
            u == first \o behind
<1>0. Splice(t, i, q) = u
  BY DEF Splice
<1>1. Len(t) \in Nat /\ Len(q) \in Nat /\ i \in Nat
  BY LenProperties
<1>2. before \in Seq(S) /\ Len(before) = i - 1 /\ \A j \in 1 .. i - 1 : before[j] = t[j]
  <2>1. \A j \in 1 .. i - 1 : t[j] \in S
    BY <1>1
  <2>2. /\ before \in Seq(S) /\ Len(before) = (IF 1 <= i - 1 THEN i - 1 - 1 + 1 ELSE 0)
        /\ \A j \in 1 .. i - 1 - 1 + 1 : before[j] = t[1 + j - 1]
    BY <1>1, <2>1, SubSeqProperties
  <2>. HIDE DEF before
  <2>3. Len(before) = i - 1
    BY <1>1, <2>2
  <2>4. ASSUME NEW j \in 1 .. i - 1 PROVE before[j] = t[j]
    <3>1. j \in 1 .. i - 1 - 1 + 1 /\ 1 + j - 1 = j
      BY <1>1
    <3>. QED  BY <2>2, <3>1
  <2>. QED  BY <2>2, <2>3, <2>4
<1>3. behind \in Seq(S) /\ Len(behind) = Len(t) - i + 1 /\ \A j \in 1 .. Len(t) - i + 1 : behind[j] = t[i + j - 1]
  <2>1. \A j \in i .. Len(t) : t[j] \in S
    BY <1>1
  <2>2. /\ behind \in Seq(S) /\ Len(behind) = (IF i <= Len(t) THEN Len(t) - i + 1 ELSE 0)
        /\ \A j \in 1 .. Len(t) - i + 1 : behind[j] = t[i + j - 1]
    BY <1>1, <2>1, SubSeqProperties
  <2>. QED  BY <1>1, <2>2
<1>. HIDE DEF before, behind
<1>4. /\ first \in Seq(S) /\ Len(first) = i - 1 + Len(q)
      /\ \A j \in 1 .. i - 1 + Len(q) : first[j] = IF j <= i - 1 THEN before[j] ELSE q[j - (i - 1)]
  <2>1. /\ first \in Seq(S) /\ Len(first) = Len(before) + Len(q)
        /\ \A j \in 1 .. Len(before) + Len(q) : first[j] = IF j <= Len(before) THEN before[j] ELSE q[j - Len(before)]
    BY <1>2, ConcatProperties
  <2>. HIDE DEF first
  <2>. QED  BY <1>2, <2>1
<1>. HIDE DEF first
<1>5. /\ u \in Seq(S) /\ Len(u) = i - 1 + Len(q) + (Len(t) - i + 1)
      /\ \A j \in 1 .. i - 1 + Len(q) + (Len(t) - i + 1) :
           u[j] = IF j <= i - 1 + Len(q) THEN first[j] ELSE behind[j - (i - 1 + Len(q))]
  <2>1. /\ u \in Seq(S) /\ Len(u) = Len(first) + Len(behind)
        /\ \A j \in 1 .. Len(first) + Len(behind) :
             u[j] = IF j <= Len(first) THEN first[j] ELSE behind[j - Len(first)]
    BY <1>3, <1>4, ConcatProperties
  <2>. HIDE DEF u
  <2>. QED  BY <1>3, <1>4, <2>1
<1>. HIDE DEF u
<1>6. Len(u) = Len(t) + Len(q)
  BY <1>1, <1>5
<1>7. ASSUME NEW j \in 1 .. i - 1 PROVE u[j] = t[j]
  <2>1. /\ j \in 1 .. i - 1 + Len(q) + (Len(t) - i + 1) /\ j <= i - 1 + Len(q)
        /\ j \in 1 .. i - 1 + Len(q) /\ j <= i - 1
    BY <1>1
  <2>2. u[j] = first[j] /\ first[j] = before[j] /\ before[j] = t[j]
    BY <1>2, <1>4, <1>5, <2>1
  <2>. QED  BY <2>2
<1>8. ASSUME NEW j \in 1 .. Len(q) PROVE u[i - 1 + j] = q[j]
  <2>1. i - 1 + j \in 1 .. i - 1 + Len(q) /\ i - 1 + j - (i - 1) = j /\ ~ (i - 1 + j <= i - 1)
        /\ i - 1 + j \in 1 .. i - 1 + Len(q) + (Len(t) - i + 1)
    BY <1>1
  <2>2. u[i - 1 + j] = first[i - 1 + j] /\ first[i - 1 + j] = q[i - 1 + j - (i - 1)]
    BY <1>4, <1>5, <2>1
  <2>. QED  BY <2>1, <2>2
<1>9. ASSUME NEW j \in i .. Len(t) PROVE u[j + Len(q)] = t[j]
  <2>1. /\ j + Len(q) \in 1 .. i - 1 + Len(q) + (Len(t) - i + 1) /\ ~ (j + Len(q) <= i - 1 + Len(q))
        /\ j + Len(q) - (i - 1 + Len(q)) = j - i + 1 /\ j - i + 1 \in 1 .. Len(t) - i + 1 /\ i + (j - i + 1) - 1 = j
    BY <1>1
  <2>2. u[j + Len(q)] = behind[j - i + 1] /\ behind[j - i + 1] = t[i + (j - i + 1) - 1]
    BY <1>3, <1>5, <2>1
  <2>. QED  BY <2>1, <2>2
<1>. QED  BY <1>0, <1>5, <1>6, <1>7, <1>8, <1>9

LEMMA Shifted ==
  ASSUME NEW p \in Nat, NEW q \in Nat, NEW m \in Nat, NEW i \in Nat, NEW n \in Nat, i <= p, q <= n + 1
  PROVE  /\ \A j \in p + m + 1 .. (q + m) - 1 : j - m \in p + 1 .. q - 1 /\ j - m \in i .. n /\ j - m + m = j
         /\ \A l \in p + 1 .. q - 1 : l + m \in p + m + 1 .. (q + m) - 1 /\ l \in i .. n
  OBVIOUS

(* The places after the checks of the last k statements are in.            *)
WovenLast(old, k, new, checks, b, places) ==
  /\ places \in [0 .. Len(old) + 1 -> Nat]
  /\ places[Len(old) + 1] = Len(new) + 1 /\ places[Len(old) + 1] = places[Len(old)] + 1
  /\ \A i \in 0 .. Len(old) - k : places[i] = i
  /\ \A i, j \in 0 .. Len(old) + 1 : i < j => places[i] < places[j]
  /\ \A i \in 1 .. Len(old) : new[places[i]] = old[i]
  /\ \A i \in Len(old) - k + 1 .. Len(old) :
       {new[j] : j \in places[i - 1] + 1 .. places[i] - 1} = ChecksBefore(checks, b, i)

Insertion(old, k, new, checks, b) ==
  InsertedBefore(new, Len(old) + 1 - k, ChecksBefore(checks, b, Len(old) + 1 - k))
LEMMA WeaveOne ==
  ASSUME NEW S, NEW old, Len(old) \in Nat, NEW new \in Seq(S), NEW checks, NEW b, NEW k \in 1 .. Len(old),
         NEW places, WovenLast(old, k - 1, new, checks, b, places),
         IsFiniteSet(checks), \A c \in checks : Distinct(c.pairs) \in S
  PROVE  /\ Insertion(old, k, new, checks, b) \in Seq(S)
         /\ \E after : WovenLast(old, k, Insertion(old, k, new, checks, b), checks, b, after)
<1>. DEFINE n == Len(old)
            i0 == n + 1 - k
            C == ChecksBefore(checks, b, i0)
            q == SetToSeq(C)
            m == Len(q)
            woven == Splice(new, i0, q)
            after == [i \in 0 .. n + 1 |-> IF i < i0 THEN i ELSE places[i] + m]
<1>1. n \in Nat /\ Len(new) \in Nat /\ i0 \in 1 .. n /\ i0 \in Nat /\ n - (k - 1) = i0 /\ n - k = i0 - 1 /\ n - k + 1 = i0
      /\ n - (k - 1) + 1 = i0 + 1
  BY LenProperties
<1>2. /\ places \in [0 .. n + 1 -> Nat]
      /\ places[n + 1] = Len(new) + 1 /\ places[n + 1] = places[n] + 1
      /\ \A i \in 0 .. i0 : places[i] = i
      /\ \A i, j \in 0 .. n + 1 : i < j => places[i] < places[j]
      /\ \A i \in 1 .. n : new[places[i]] = old[i]
      /\ \A i \in i0 + 1 .. n : {new[j] : j \in places[i - 1] + 1 .. places[i] - 1} = ChecksBefore(checks, b, i)
  BY <1>1 DEF WovenLast
<1>3. IsFiniteSet(C) /\ C \subseteq S
  <2>1. IsFiniteSet(C)
    BY ChecksFinite
  <2>2. C \subseteq S
    BY DEF ChecksBefore
  <2>. QED  BY <2>1, <2>2
<1>4. q \in Seq(S) /\ m \in Nat /\ {q[j] : j \in 1 .. m} = C
  <2>1. q \in Seq(C) /\ {q[j] : j \in 1 .. m} = C
    BY <1>3, SetSequence
  <2>. HIDE DEF C, q
  <2>. QED  BY <1>3, <2>1, SeqMonotonic, LenProperties
<1>5. i0 \in 1 .. Len(new)
  <2>1. places[i0] = i0 /\ places[i0] < places[n + 1]
    BY <1>1, <1>2
  <2>. QED  BY <1>1, <1>2, <2>1
<1>6. InsertedBefore(new, i0, C) = woven
  BY DEF InsertedBefore, Splice
<1>. HIDE DEF n, i0, C, q, m, woven
<1>7. /\ woven \in Seq(S) /\ Len(woven) = Len(new) + m
      /\ \A j \in 1 .. i0 - 1 : woven[j] = new[j]
      /\ \A j \in 1 .. m : woven[i0 - 1 + j] = q[j]
      /\ \A j \in i0 .. Len(new) : woven[j + m] = new[j]
  BY <1>4, <1>5, Spliced DEF m, woven
<1>8. \A i \in i0 .. n + 1 : places[i] \in Nat /\ places[i] >= i0 /\ places[i] <= Len(new) + 1
  <2>. SUFFICES ASSUME NEW i \in i0 .. n + 1 PROVE places[i] \in Nat /\ places[i] >= i0 /\ places[i] <= Len(new) + 1
    OBVIOUS
  <2>1. i \in 0 .. n + 1 /\ i0 \in 0 .. n + 1 /\ n + 1 \in 0 .. n + 1 /\ (i = i0 \/ i0 < i) /\ (i = n + 1 \/ i < n + 1)
        /\ i0 \in 0 .. i0
    BY <1>1
  <2>2. places[i] \in Nat /\ places[i0] = i0 /\ places[n + 1] \in Nat
    BY <1>2, <2>1
  <2>3. (i0 < i => i0 < places[i]) /\ (i < n + 1 => places[i] < places[n + 1])
    BY <1>2, <2>1, <2>2
  <2>4. places[n + 1] = Len(new) + 1 /\ i0 <= Len(new)
    BY <1>2, <1>5
  <2>5. CASE i = i0
    BY <1>1, <2>2, <2>4, <2>5
  <2>6. CASE i = n + 1
    BY <1>1, <2>2, <2>4, <2>6
  <2>7. CASE i0 < i /\ i < n + 1
    BY <1>1, <2>2, <2>3, <2>4, <2>7
  <2>. QED  BY <2>1, <2>5, <2>6, <2>7
<1>9. \A i \in 0 .. n + 1 : after[i] = (IF i < i0 THEN i ELSE places[i] + m) /\ after[i] \in Nat
  BY <1>1, <1>2, <1>4
<1>. HIDE DEF after
<1>10. after \in [0 .. n + 1 -> Nat]
  BY <1>9 DEF after
<1>11. after[n + 1] = Len(woven) + 1 /\ after[n + 1] = after[n] + 1
  <2>1. n \in 0 .. n + 1 /\ n + 1 \in 0 .. n + 1 /\ ~ (n < i0) /\ ~ (n + 1 < i0)
    BY <1>1
  <2>2. after[n] = places[n] + m /\ after[n + 1] = places[n + 1] + m /\ places[n] \in Nat
    BY <1>2, <1>9, <2>1
  <2>3. places[n + 1] = Len(new) + 1 /\ places[n + 1] = places[n] + 1 /\ Len(woven) = Len(new) + m
    BY <1>2, <1>7
  <2>4. \A p \in Nat, r \in Nat : r + 1 + p = r + p + 1
    OBVIOUS
  <2>5. places[n] + 1 + m = places[n] + m + 1 /\ Len(new) + 1 + m = Len(new) + m + 1
    BY <1>1, <1>4, <2>2, <2>4
  <2>. QED  BY <2>2, <2>3, <2>5
<1>12. \A i \in 0 .. n - k : after[i] = i
  <2>1. \A i \in 0 .. n - k : i \in 0 .. n + 1 /\ i < i0
    BY <1>1
  <2>. QED  BY <1>9, <2>1
<1>13. ASSUME NEW i \in 0 .. n + 1, NEW j \in 0 .. n + 1, i < j PROVE after[i] < after[j]
  <2>1. CASE j < i0
    BY <1>1, <1>9, <1>13, <2>1
  <2>2. CASE i < i0 /\ ~ (j < i0)
    <3>1. places[j] \in Nat /\ places[j] >= i0
      BY <1>1, <1>8, <2>2
    <3>. QED  BY <1>1, <1>4, <1>9, <2>2, <3>1
  <2>3. CASE ~ (i < i0) /\ ~ (j < i0)
    <3>1. places[i] < places[j] /\ places[i] \in Nat /\ places[j] \in Nat
      BY <1>2, <1>13
    <3>. QED  BY <1>4, <1>9, <2>3, <3>1
  <2>. QED  BY <1>1, <1>13, <2>1, <2>2, <2>3
<1>14. ASSUME NEW i \in 1 .. n PROVE woven[after[i]] = old[i]
  <2>0. i \in 0 .. n + 1 /\ n + 1 \in 0 .. n + 1 /\ i < n + 1
    BY <1>1
  <2>1. CASE i < i0
    <3>1. i \in 0 .. i0 /\ i \in 1 .. i0 - 1
      BY <1>1, <2>1
    <3>2. after[i] = i /\ places[i] = i
      BY <1>2, <1>9, <2>0, <2>1, <3>1
    <3>. QED  BY <1>2, <1>7, <3>1, <3>2
  <2>2. CASE ~ (i < i0)
    <3>1. places[i] \in Nat /\ places[i] >= i0 /\ places[i] < places[n + 1]
      BY <1>1, <1>2, <1>8, <2>0, <2>2
    <3>2. places[i] \in i0 .. Len(new)
      BY <1>1, <1>2, <3>1
    <3>3. woven[places[i] + m] = new[places[i]]
      BY <1>7, <3>2
    <3>. QED  BY <1>2, <1>9, <2>0, <2>2, <3>3
  <2>. QED  BY <2>1, <2>2
<1>15. ASSUME NEW i \in n - k + 1 .. n
       PROVE  {woven[j] : j \in after[i - 1] + 1 .. after[i] - 1} = ChecksBefore(checks, b, i)
  <2>0. i \in i0 .. n /\ i \in 0 .. n + 1 /\ i - 1 \in 0 .. n + 1
    BY <1>1
  <2>1. CASE i = i0
    <3>0. i - 1 < i0 /\ ~ (i < i0) /\ i0 \in 0 .. i0 /\ i - 1 + 1 = i0
      BY <1>1, <2>1
    <3>3. places[i] = i0
      BY <1>2, <2>1, <3>0
    <3>4. after[i - 1] = i - 1 /\ after[i] = i0 + m
      BY <1>9, <2>0, <3>0, <3>3
    <3>1. after[i - 1] + 1 = i0 /\ after[i] - 1 = i0 + m - 1
      <4>1. after[i - 1] + 1 = i0
        BY <3>0, <3>4
      <4>2. after[i] - 1 = i0 + m - 1
        BY <1>1, <1>4, <3>4
      <4>. QED  BY <4>1, <4>2
    <3>2. {woven[j] : j \in i0 .. i0 + m - 1} = {q[j] : j \in 1 .. m}
      <4>1. ASSUME NEW j \in i0 .. i0 + m - 1 PROVE \E l \in 1 .. m : woven[j] = q[l]
        <5>1. j - i0 + 1 \in 1 .. m /\ i0 - 1 + (j - i0 + 1) = j
          BY <1>1, <1>4
        <5>2. woven[i0 - 1 + (j - i0 + 1)] = q[j - i0 + 1]
          BY <1>7, <5>1
        <5>. QED  BY <5>1, <5>2
      <4>2. ASSUME NEW l \in 1 .. m PROVE \E j \in i0 .. i0 + m - 1 : woven[j] = q[l]
        <5>1. i0 - 1 + l \in i0 .. i0 + m - 1
          BY <1>1, <1>4
        <5>2. woven[i0 - 1 + l] = q[l]
          BY <1>7
        <5>. QED  BY <5>1, <5>2
      <4>3. \A x : (\E j \in i0 .. i0 + m - 1 : x = woven[j]) <=> (\E l \in 1 .. m : x = q[l])
        BY <4>1, <4>2
      <4>. QED  BY <4>3
    <3>. QED  BY <1>4, <2>1, <3>1, <3>2 DEF C
  <2>2. CASE i # i0
    <3>0. i \in i0 + 1 .. n /\ ~ (i - 1 < i0) /\ ~ (i < i0) /\ i - 1 \in i0 .. n + 1 /\ i \in i0 .. n + 1
      BY <1>1, <2>0, <2>2
    <3>1. after[i - 1] = places[i - 1] + m /\ after[i] = places[i] + m
      BY <1>9, <2>0, <3>0
    <3>2. /\ places[i - 1] \in Nat /\ places[i - 1] >= i0
          /\ places[i] \in Nat /\ places[i] <= Len(new) + 1
      BY <1>8, <3>0
    <3>4. /\ \A j \in places[i - 1] + m + 1 .. (places[i] + m) - 1 :
               j - m \in places[i - 1] + 1 .. places[i] - 1 /\ j - m \in i0 .. Len(new) /\ j - m + m = j
          /\ \A l \in places[i - 1] + 1 .. places[i] - 1 :
               l + m \in places[i - 1] + m + 1 .. (places[i] + m) - 1 /\ l \in i0 .. Len(new)
      BY <1>1, <1>4, <3>2, Shifted
    <3>3. {woven[j] : j \in after[i - 1] + 1 .. after[i] - 1} = {new[j] : j \in places[i - 1] + 1 .. places[i] - 1}
      <4>1. ASSUME NEW j \in after[i - 1] + 1 .. after[i] - 1
            PROVE  \E l \in places[i - 1] + 1 .. places[i] - 1 : woven[j] = new[l]
        <5>1. j - m \in places[i - 1] + 1 .. places[i] - 1 /\ j - m \in i0 .. Len(new) /\ j - m + m = j
          BY <3>1, <3>4
        <5>2. woven[j - m + m] = new[j - m]
          BY <1>7, <5>1
        <5>. QED  BY <5>1, <5>2
      <4>2. ASSUME NEW l \in places[i - 1] + 1 .. places[i] - 1
            PROVE  \E j \in after[i - 1] + 1 .. after[i] - 1 : woven[j] = new[l]
        <5>1. l + m \in after[i - 1] + 1 .. after[i] - 1 /\ l \in i0 .. Len(new)
          BY <3>1, <3>4
        <5>2. woven[l + m] = new[l]
          BY <1>7, <5>1
        <5>. QED  BY <5>1, <5>2
      <4>3. \A x : (\E j \in after[i - 1] + 1 .. after[i] - 1 : x = woven[j])
                     <=> (\E l \in places[i - 1] + 1 .. places[i] - 1 : x = new[l])
        BY <4>1, <4>2
      <4>. QED  BY <4>3
    <3>. QED  BY <1>2, <3>0, <3>3
  <2>. QED  BY <2>1, <2>2
<1>16. WovenLast(old, k, woven, checks, b, after)
  BY <1>10, <1>11, <1>12, <1>13, <1>14, <1>15 DEF WovenLast, n
<1>. QED  BY <1>6, <1>7, <1>16 DEF Insertion, n, i0, C

LEMMA ChecksAreWoven ==
  ASSUME NEW bod, WellFormed(bod), NEW b \in Blocks(bod), NEW checks, IsFiniteSet(checks)
  PROVE  /\ \E places : Woven(bod.statements[b], InsertChecks(bod, checks).statements[b], checks, b, places)
         /\ Len(InsertChecks(bod, checks).statements[b]) \in Nat
         /\ InsertChecks(bod, checks).terminators = bod.terminators
         /\ Blocks(InsertChecks(bod, checks)) = Blocks(bod)
<1>. DEFINE old == bod.statements[b]
            n == Len(old)
            S == ToSet(old) \cup {Distinct(c.pairs) : c \in checks}
            back == Backwards(n)
            f == Between(<<"insert", checks, b>>, old, back)
            Good == {k \in 0 .. n : f[k] \in Seq(S) /\ \E places : WovenLast(old, k, f[k], checks, b, places)}
<1>1. old \in Seq(ToSet(old)) /\ n \in Nat
  BY BlocksTyped
<1>2. old \in Seq(S)
  <2>. DEFINE R == ToSet(old)
  <2>1. old \in Seq(R) /\ R \subseteq S
    BY <1>1
  <2>. HIDE DEF R, S
  <2>. QED  BY <2>1, SeqMonotonic
<1>3. back \in Seq(1 .. n) /\ Len(back) = n /\ \A k \in 1 .. n : back[k] = n + 1 - k
  <2>1. \A k \in 1 .. n : n + 1 - k \in 1 .. n
    BY <1>1
  <2>. HIDE DEF n
  <2>. QED  BY <1>1, <2>1 DEF Backwards
<1>4. f[0] = old /\ \A k \in 1 .. n : f[k] = StepOf(<<"insert", checks, b>>, f[k - 1], back[k])
  <2>. DEFINE R == 1 .. n
  <2>1. back \in Seq(R)
    BY <1>3
  <2>. HIDE DEF R, back
  <2>2. f[0] = old /\ \A k \in 1 .. Len(back) : f[k] = StepOf(<<"insert", checks, b>>, f[k - 1], back[k])
    BY <2>1, BetweenSteps
  <2>. QED  BY <1>3, <2>2
<1>5. \A t, i : StepOf(<<"insert", checks, b>>, t, i) = InsertedBefore(t, i, ChecksBefore(checks, b, i))
  BY DEF StepOf
<1>6. InsertChecks(bod, checks).statements[b] = f[n]
  <2>1. After(LAMBDA t, i : InsertedBefore(t, i, ChecksBefore(checks, b, i)), old, back) = f[Len(back)]
    BY InsertedAreBetween DEF After, AfterFirst
  <2>2. InsertChecks(bod, checks).statements[b]
          = After(LAMBDA t, i : InsertedBefore(t, i, ChecksBefore(checks, b, i)), old, back)
    <3>1. bod.statements = bod.statements
      OBVIOUS
    <3>. QED  BY DEF InsertChecks, WellFormed
  <2>. QED  BY <1>3, <2>1, <2>2
<1>. HIDE DEF f, S, back
<1>7. 0 \in Good
  <2>. DEFINE places == [i \in 0 .. n + 1 |-> i]
  <2>1. WovenLast(old, 0, old, checks, b, places)
    BY <1>1 DEF WovenLast
  <2>. QED  BY <1>1, <1>2, <1>4, <2>1
<1>8. ASSUME NEW k \in 1 .. n, k - 1 \in Good PROVE k \in Good
  <2>1. f[k - 1] \in Seq(S)
    BY <1>8
  <2>2. PICK places : WovenLast(old, k - 1, f[k - 1], checks, b, places)
    BY <1>8
  <2>3. f[k] = Insertion(old, k, f[k - 1], checks, b)
    BY <1>3, <1>4, <1>5 DEF Insertion
  <2>4. \A c \in checks : Distinct(c.pairs) \in S
    BY DEF S
  <2>5. f[k] \in Seq(S) /\ \E after : WovenLast(old, k, f[k], checks, b, after)
    BY <1>1, <2>1, <2>2, <2>3, <2>4, WeaveOne
  <2>. QED  BY <1>1, <2>5
<1>9. n \in Good
  <2>1. \A k \in 1 .. n : k - 1 \in Good => k \in Good
    BY <1>8
  <2>. HIDE DEF Good
  <2>2. \A k \in 0 .. n : k \in Good
    BY <1>1, <1>7, <2>1, Upward
  <2>. QED  BY <1>1, <2>2
<1>10. PICK places : WovenLast(old, n, f[n], checks, b, places)
  BY <1>9
<1>11. Woven(old, f[n], checks, b, places)
  <2>1. n - n = 0 /\ n - n + 1 = 1
    BY <1>1
  <2>. QED  BY <1>1, <1>10, <2>1 DEF WovenLast, Woven
<1>12. f[n] \in Seq(S)
  BY <1>9
<1>13. Len(f[n]) \in Nat
  BY <1>12, LenProperties
<1>14. InsertChecks(bod, checks).terminators = bod.terminators /\ Blocks(InsertChecks(bod, checks)) = Blocks(bod)
  BY DEF InsertChecks, Blocks
<1>. QED  BY <1>6, <1>11, <1>13, <1>14
===============================================================================
