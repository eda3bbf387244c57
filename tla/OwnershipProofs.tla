----------------------------- MODULE OwnershipProofs -----------------------------
(***************************************************************************)
(* A body that is accepted never uses an empty place, tracks what its      *)
(* locals hold and releases it.                                            *)
(***************************************************************************)
EXTENDS Ownership, BodyProofs

LEMMA BodiesTyped ==
  ASSUME NEW bod \in Bodies
  PROVE  /\ WellFormed(bod) /\ Solved(bod)
         /\ FilledEnds(bod) = FilledRound(bod, FilledEnds(bod))
  BY BodiesAssumption, EnginesAssumption
-----------------------------------------------------------------------------
(* What a statement takes and gives.                                       *)
TakenBy(s) ==
  (UNION {LeavesOf(place) : place \in MovedBy(s)})
    \cup (IF s.do = "release" THEN LeavesOf(Whole(s.local)) ELSE {})
GivenTo(s) ==
  CASE s.do \in {"assign", "bind"} -> LeavesOf(s.to)
    [] s.do = "unpack" -> UNION {LeavesOf(Whole(s.taken[i][1])) : i \in DOMAIN s.taken}
    [] OTHER -> {}
-----------------------------------------------------------------------------
(* A leaf that the analysis knows to be empty.                             *)
Covered(bod, empty, leaf) ==
  \/ leaf.local \in empty.whole
  \/ \E part \in empty.parts \cap MovedIn(bod) : Covers(part, leaf)

LEMMA InsertCovers ==
  ASSUME NEW bod \in Bodies, NEW places \in SUBSET MovedIn(bod), NEW empty, NEW leaf \in Leaves,
         Covered(bod, empty, leaf) \/ \E place \in places : leaf \in LeavesOf(place)
  PROVE  Covered(bod, InsertAll(empty, {MovedPlace(p) : p \in places}), leaf)
<1>. DEFINE moved == {MovedPlace(p) : p \in places}
            wholes == {place.local : place \in {q \in moved : q.path = <<>>}}
            after == InsertAll(empty, moved)
<1>1. /\ after.whole = empty.whole \cup wholes
      /\ after.parts = {part \in empty.parts : part.local \notin wholes}
                         \cup {place \in moved : place.local \notin after.whole}
  BY DEF InsertAll
<1>. SUFFICES Covered(bod, after, leaf)
  OBVIOUS
<1>. HIDE DEF after
<1>2. CASE Covered(bod, empty, leaf)
  <2>. HIDE DEF moved
  <2>1. CASE leaf.local \in empty.whole
    BY <1>1, <2>1 DEF Covered
  <2>2. ASSUME NEW part \in empty.parts \cap MovedIn(bod), Covers(part, leaf)
        PROVE  Covered(bod, after, leaf)
    <3>1. part.local = leaf.local
      BY <2>2 DEF Covers
    <3>2. part.local \notin wholes => part \in after.parts
      BY <1>1, <2>2
    <3>3. part.local \in wholes => leaf.local \in after.whole
      BY <1>1, <3>1
    <3>. QED  BY <2>2, <3>2, <3>3 DEF Covered
  <2>. QED  BY <1>2, <2>1, <2>2 DEF Covered
<1>3. ASSUME NEW place \in places, leaf \in LeavesOf(place)
      PROVE  Covered(bod, after, leaf)
  <2>1. leaf.local = place.local
    BY <1>3 DEF LeavesOf, Covers
  <2>2. CASE place.local \notin Temporaries
    <3>1. Whole(place.local) \in moved /\ Whole(place.local).path = <<>> /\ Whole(place.local).local = place.local
      BY <1>3, <2>2 DEF MovedPlace, Whole, Place
    <3>. HIDE DEF moved
    <3>2. place.local \in wholes
      BY <3>1
    <3>. QED  BY <1>1, <2>1, <3>2 DEF Covered
  <2>3. CASE place.local \in Temporaries
    <3>1. place \in moved
      BY <1>3, <2>3 DEF MovedPlace
    <3>2. Covers(place, leaf)
      BY <1>3, <2>3, LeavesAssumption DEF LeavesOf
    <3>. HIDE DEF moved
    <3>3. place.local \notin after.whole => place \in after.parts
      BY <1>1, <3>1
    <3>. QED  BY <2>1, <3>2, <3>3 DEF Covered
  <2>. QED  BY <2>2, <2>3
<1>. QED  BY <1>2, <1>3

LEMMA FillCovers ==
  ASSUME NEW bod \in Bodies, NEW to, IsPath(to.path), NEW empty, NEW leaf \in Leaves,
         Covered(bod, empty, leaf), leaf \notin LeavesOf(to)
  PROVE  Covered(bod, FillPlace(empty, to), leaf)
<1>1. IsPath(leaf.path)
  BY LeavesAssumption
<1>2. ~ Covers(to, leaf)
  BY DEF LeavesOf
<1>3. to.path = <<>> => to.local # leaf.local
  BY <1>1, <1>2, WholeCovers DEF Whole, Place, Covers
<1>4. CASE leaf.local \in empty.whole
  BY <1>3, <1>4 DEF Covered, FillPlace
<1>5. ASSUME NEW part \in empty.parts \cap MovedIn(bod), Covers(part, leaf)
      PROVE  Covered(bod, FillPlace(empty, to), leaf)
  <2>1. ~ Covers(to, part)
    BY <1>1, <1>2, <1>5, BodiesTyped, MovedIsPath, CoversTransitive
  <2>. QED  BY <1>5, <2>1 DEF Covered, FillPlace
<1>. QED  BY <1>4, <1>5 DEF Covered
-----------------------------------------------------------------------------
(* A leaf that a statement leaves empty is known to be empty after it, if  *)
(* it was before it or the statement takes it.                             *)
LEMMA StepCovers ==
  ASSUME NEW bod \in Bodies, NEW s \in StatementsOf(bod), NEW empty, NEW leaf \in Leaves,
         leaf \notin GivenTo(s), Covered(bod, empty, leaf) \/ leaf \in TakenBy(s)
  PROVE  Covered(bod, MoveStep(empty, s), leaf)
<1>0. MovedBy(s) \subseteq MovedIn(bod)
  BY BodiesTyped, StatementsTyped
<1>1. CASE s.do \in {"assign", "bind"}
  <2>1. MoveStep(empty, s) = FillPlace(InsertAll(empty, {MovedPlace(p) : p \in MovedBy(s)}), s.to)
    BY <1>1 DEF MoveStep, AfterMoves, MovedBy
  <2>2. Covered(bod, InsertAll(empty, {MovedPlace(p) : p \in MovedBy(s)}), leaf)
    BY <1>0, <1>1, InsertCovers DEF TakenBy
  <2>3. IsPath(s.to.path) /\ leaf \notin LeavesOf(s.to)
    BY <1>1, BodiesTyped, StatementsTyped DEF GivenTo
  <2>. QED  BY <2>1, <2>2, <2>3, FillCovers
<1>2. CASE s.do = "unpack"
  <2>. DEFINE after == InsertAll(empty, {MovedPlace(p) : p \in MovedBy(s)})
              variables == {s.taken[i][1] : i \in DOMAIN s.taken}
  <2>1. MoveStep(empty, s) = Retain(after, Locals \ variables)
    <3>1. {MovedPlace(p) : p \in MovedBy(s)} = {MovedPlace(s.taken[i][2]) : i \in DOMAIN s.taken}
      BY <1>2 DEF MovedBy
    <3>. QED  BY <1>2, <3>1 DEF MoveStep
  <2>2. Covered(bod, after, leaf)
    BY <1>0, <1>2, InsertCovers DEF TakenBy
  <2>3. leaf.local \in Locals \ variables
    <3>1. leaf.local \in Locals /\ IsPath(leaf.path)
      BY LeavesAssumption
    <3>2. ASSUME NEW i \in DOMAIN s.taken, leaf.local = s.taken[i][1] PROVE FALSE
      <4>1. leaf \in LeavesOf(Whole(s.taken[i][1]))
        BY <3>1, <3>2, WholeCovers DEF LeavesOf
      <4>. QED  BY <1>2, <4>1 DEF GivenTo
    <3>. QED  BY <3>1, <3>2
  <2>. HIDE DEF after, variables
  <2>. QED  BY <2>1, <2>2, <2>3 DEF Covered, Retain, Covers
<1>3. CASE s.do = "release"
  <2>1. MoveStep(empty, s) = InsertAll(empty, {Whole(s.local)})
    BY <1>3 DEF MoveStep
  <2>2. /\ InsertAll(empty, {Whole(s.local)}).whole = empty.whole \cup {s.local}
        /\ {part \in empty.parts : part.local # s.local} \subseteq InsertAll(empty, {Whole(s.local)}).parts
    <3>1. Whole(s.local).path = <<>> /\ Whole(s.local).local = s.local
      BY DEF Whole, Place
    <3>2. {place.local : place \in {q \in {Whole(s.local)} : q.path = <<>>}} = {s.local}
      BY <3>1
    <3>. QED  BY <3>2 DEF InsertAll
  <2>3. leaf \in TakenBy(s) => leaf.local = s.local
    BY <1>3 DEF TakenBy, MovedBy, LeavesOf, Covers, Whole, Place
  <2>. HIDE DEF InsertAll
  <2>. QED  BY <2>1, <2>2, <2>3 DEF Covered, Covers
<1>4. CASE s.do \notin {"assign", "bind", "unpack", "release"}
  <2>1. MoveStep(empty, s) = empty
    BY <1>4 DEF MoveStep
  <2>2. TakenBy(s) = {}
    BY <1>4 DEF TakenBy, MovedBy
  <2>. QED  BY <2>1, <2>2
<1>. QED  BY <1>1, <1>2, <1>3, <1>4

(* A leaf that is live after a statement, which gives it nothing, is live  *)
(* before it, unless the statement takes it.                               *)
LEMMA StepLives ==
  ASSUME NEW bod \in Bodies, NEW s \in StatementsOf(bod), NEW live, NEW leaf \in Leaves,
         leaf \notin GivenTo(s), leaf.local \in live
  PROVE  leaf.local \in LiveBefore(live, s) \/ leaf \in TakenBy(s)
<1>0. IsPath(leaf.path)
  BY LeavesAssumption
<1>1. \A l : leaf.local = l => leaf \in LeavesOf(Whole(l))
  BY <1>0, WholeCovers DEF LeavesOf
<1>2. CASE leaf.local \notin Replaces(s)
  BY <1>2 DEF LiveBefore
<1>3. CASE leaf.local \in Replaces(s)
  <2>1. CASE s.do \in {"assign", "bind"}
    <3>1. s.to.path = <<>> /\ s.to.local = leaf.local
      BY <1>3, <2>1, BodiesTyped, StatementsTyped DEF Replaces, IsWholeLocal
    <3>2. leaf \in LeavesOf(s.to)
      BY <1>0, <3>1, WholeCovers DEF LeavesOf, Whole, Place, Covers
    <3>. QED  BY <2>1, <3>2 DEF GivenTo
  <2>2. CASE s.do = "unpack"
    BY <1>1, <1>3, <2>2 DEF Replaces, GivenTo
  <2>3. CASE s.do = "release"
    BY <1>1, <1>3, <2>3 DEF Replaces, TakenBy
  <2>. QED  BY <1>3, <2>1, <2>2, <2>3 DEF Replaces
<1>. QED  BY <1>2, <1>3

(* The locals that own something are tracked by Fill.                      *)
Holders(leaves) == {leaf.local : leaf \in {l \in leaves : l.local \in Owning}}

LEMMA StepTracks ==
  ASSUME NEW bod \in Bodies, NEW s \in StatementsOf(bod), NEW leaves \in SUBSET Leaves, NEW tracked,
         Holders(leaves) \subseteq tracked
  PROVE  Holders((leaves \ TakenBy(s)) \cup GivenTo(s)) \subseteq Fill(tracked, s)
<1>. SUFFICES ASSUME NEW leaf \in (leaves \ TakenBy(s)) \cup GivenTo(s), leaf.local \in Owning
              PROVE  leaf.local \in Fill(tracked, s)
  BY DEF Holders
<1>0. leaf \in leaves => leaf.local \in tracked
  BY DEF Holders
<1>1. \A place : leaf \in LeavesOf(place) => leaf \in Leaves /\ leaf.local = place.local
  BY DEF LeavesOf, Covers
<1>2. leaf \in Leaves => \A l : leaf.local = l => leaf \in LeavesOf(Whole(l))
  BY WholeCovers, LeavesAssumption DEF LeavesOf
<1>3. CASE s.do \in {"assign", "bind"}
  <2>1. leaf \in LeavesOf(s.to) => s.do = "assign" /\ leaf.local \in {s.to.local} \cap Owning
    BY <1>1, <1>3, BodiesTyped, StatementsTyped, LocalsAssumption
  <2>2. leaf \notin TakenBy(s) /\ leaf \in Leaves => leaf.local \notin MovedWhole(s)
    <3>. SUFFICES ASSUME leaf \in Leaves, leaf.local \in MovedWhole(s) PROVE leaf \in TakenBy(s)
      OBVIOUS
    <3>1. PICK i \in DOMAIN s.value.operands :
            /\ s.value.operands[i].gives = "move" /\ s.value.operands[i].place.path = <<>>
            /\ leaf.local = s.value.operands[i].place.local
      BY DEF MovedWhole
    <3>2. s.value.operands[i].place \in MovedBy(s)
      BY <1>3, <3>1 DEF MovedBy, MovedOperands
    <3>3. leaf \in LeavesOf(s.value.operands[i].place)
      BY <3>1, WholeCovers, LeavesAssumption DEF LeavesOf, Whole, Place, Covers
    <3>. QED  BY <3>2, <3>3 DEF TakenBy
  <2>3. GivenTo(s) = LeavesOf(s.to)
    BY <1>3 DEF GivenTo
  <2>. QED  BY <1>0, <1>3, <2>1, <2>2, <2>3 DEF Fill
<1>4. CASE s.do = "unpack"
  <2>1. leaf \in GivenTo(s) => leaf.local \in {s.taken[i][1] : i \in DOMAIN s.taken} \cap Owning
    <3>. SUFFICES ASSUME leaf \in GivenTo(s) PROVE leaf.local \in {s.taken[i][1] : i \in DOMAIN s.taken}
      OBVIOUS
    <3>1. PICK i \in DOMAIN s.taken : leaf \in LeavesOf(Whole(s.taken[i][1]))
      BY <1>4 DEF GivenTo
    <3>2. leaf.local = s.taken[i][1]
      BY <1>1, <3>1 DEF Whole, Place
    <3>. QED  BY <3>2
  <2>. QED  BY <1>0, <1>4, <2>1 DEF Fill
<1>5. CASE s.do = "release"
  BY <1>0, <1>2, <1>5 DEF Fill, GivenTo, TakenBy
<1>6. CASE s.do \notin {"assign", "bind", "unpack", "release"}
  BY <1>0, <1>6 DEF Fill, GivenTo
<1>. QED  BY <1>3, <1>4, <1>5, <1>6
-----------------------------------------------------------------------------
(* What the analyses find at every statement i of block b, and, with i one *)
(* past the last statement, at its terminator.                             *)
FilledArriving(bod, b) == ArrivingAt(bod, b, Parameters \cap Owning, FilledEnds(bod))
FilledAt(bod, b, i) == Between(<<"filled">>, Either(FilledArriving(bod, b)), bod.statements[b])[i - 1]
LEMMA ForwardSteps ==
  ASSUME NEW bod \in Bodies, NEW b \in Blocks(bod)
  PROVE  /\ EmptyAt(bod, b, 1) = EmptyStart(bod, b)
         /\ FilledAt(bod, b, 1) = Either(FilledArriving(bod, b))
         /\ \A i \in 1 .. Len(bod.statements[b]) :
              /\ EmptyAt(bod, b, i + 1) = MoveStep(EmptyAt(bod, b, i), bod.statements[b][i])
              /\ FilledAt(bod, b, i + 1) = Fill(FilledAt(bod, b, i), bod.statements[b][i])
<1>. DEFINE s == bod.statements[b]
            f == Between(<<"filled">>, Either(FilledArriving(bod, b)), s)
<1>1. s \in Seq(ToSet(s)) /\ Len(s) \in Nat
  BY BodiesTyped, BlocksTyped
<1>2. /\ f[0] = Either(FilledArriving(bod, b))
      /\ \A k \in 1 .. Len(s) : f[k] = StepOf(<<"filled">>, f[k - 1], s[k])
  BY <1>1, BetweenSteps
<1>3. \A i : FilledAt(bod, b, i) = f[i - 1]
  BY DEF FilledAt
<1>4. /\ EmptyAt(bod, b, 1) = EmptyStart(bod, b)
      /\ \A i \in 1 .. Len(s) : EmptyAt(bod, b, i + 1) = MoveStep(EmptyAt(bod, b, i), s[i])
  BY BodiesTyped, EmptySteps
<1>. HIDE DEF f, s
<1>5. \A i \in 1 .. Len(s) : FilledAt(bod, b, i + 1) = f[i]
  <2>1. \A i \in 1 .. Len(s) : i + 1 - 1 = i
    BY <1>1
  <2>. QED  BY <1>3, <2>1
<1>6. FilledAt(bod, b, 1) = f[0]
  BY <1>3
<1>7. \A i \in 1 .. Len(s) : FilledAt(bod, b, i + 1) = Fill(FilledAt(bod, b, i), s[i])
  BY <1>2, <1>3, <1>5 DEF StepOf
<1>. QED  BY <1>2, <1>4, <1>6, <1>7 DEF s
-----------------------------------------------------------------------------
(* What is known at a block that the paths from the entry reach, and what  *)
(* an edge keeps of it.                                                    *)
Arrives(bod, b) == EmptyArriving(bod, b) # {} /\ FilledArriving(bod, b) # {}

LEMMA Joined ==
  ASSUME NEW bod, NEW states, NEW state \in states, NEW leaf, NEW live,
         leaf.local \in live, Covered(bod, state, leaf)
  PROVE  Covered(bod, Retain(JoinEmpty(states), live), leaf)
<1>. DEFINE after == Retain(JoinEmpty(states), live)
<1>1. /\ after.whole = (UNION {t.whole : t \in states}) \cap live
      /\ after.parts = {part \in UNION {t.parts : t \in states} : part.local \in live}
  BY DEF Retain, JoinEmpty
<1>. SUFFICES Covered(bod, after, leaf)
  OBVIOUS
<1>. HIDE DEF after
<1>2. CASE leaf.local \in state.whole
  BY <1>1, <1>2 DEF Covered
<1>3. ASSUME NEW part \in state.parts \cap MovedIn(bod), Covers(part, leaf)
      PROVE  Covered(bod, after, leaf)
  <2>1. part.local = leaf.local
    BY <1>3 DEF Covers
  <2>2. part \in after.parts
    BY <1>1, <2>1
  <2>. QED  BY <1>3, <2>2 DEF Covered
<1>. QED  BY <1>2, <1>3 DEF Covered

LEMMA Kept ==
  ASSUME NEW bod, NEW state, NEW leaf, NEW live, leaf.local \in live, Covered(bod, state, leaf)
  PROVE  Covered(bod, Retain(state, live), leaf)
  BY DEF Covered, Retain, Covers

LEMMA EntryArrives ==
  ASSUME NEW bod \in Bodies
  PROVE  /\ Arrives(bod, 0)
         /\ \A leaf \in Leaves :
              leaf.local \notin Parameters /\ leaf.local \in LiveAt(bod, 0, 1) =>
                Covered(bod, EmptyAt(bod, 0, 1), leaf)
         /\ Parameters \cap Owning \subseteq FilledAt(bod, 0, 1)
<1>1. 0 \in Blocks(bod)
  BY BodiesTyped, ReachableTyped
<1>2. EntryEmpty \in EmptyArriving(bod, 0) /\ Parameters \cap Owning \in FilledArriving(bod, 0)
  BY DEF EmptyArriving, FilledArriving, ArrivingAt
<1>3. FilledAt(bod, 0, 1) = UNION FilledArriving(bod, 0)
  BY <1>1, ForwardSteps DEF Either
<1>4. ASSUME NEW leaf \in Leaves, leaf.local \notin Parameters, leaf.local \in LiveAt(bod, 0, 1)
      PROVE  Covered(bod, EmptyAt(bod, 0, 1), leaf)
  <2>1. Covered(bod, EntryEmpty, leaf)
    BY <1>4, LeavesAssumption DEF Covered, EntryEmpty
  <2>2. EmptyAt(bod, 0, 1) = Retain(JoinEmpty(EmptyArriving(bod, 0)), LiveAt(bod, 0, 1))
    BY <1>1, ForwardSteps, BodiesTyped, LiveSteps DEF EmptyStart
  <2>. QED  BY <1>2, <1>4, <2>1, <2>2, Joined
<1>. QED  BY <1>2, <1>3, <1>4 DEF Arrives

LEMMA EdgeKeeps ==
  ASSUME NEW bod \in Bodies, NEW b \in Reachable(bod), Arrives(bod, b), NEW c \in Successors(bod, b)
  PROVE  /\ c \in Reachable(bod) /\ Arrives(bod, c)
         /\ LiveAt(bod, c, 1) \subseteq LiveAt(bod, b, End(bod, b))
         /\ FilledAt(bod, b, End(bod, b)) \subseteq FilledAt(bod, c, 1)
         /\ \A leaf \in Leaves :
              leaf.local \in LiveAt(bod, c, 1) /\ Covered(bod, EmptyAt(bod, b, End(bod, b)), leaf) =>
                Covered(bod, EmptyAt(bod, c, 1), leaf)
<1>. DEFINE s == bod.statements[b]
            filledEnds == FilledEnds(bod)
            leaving == Retain(EmptyAt(bod, b, End(bod, b)), LiveEnds(bod, LiveStarts(bod))[b])
            filledLeaving == FilledAt(bod, b, End(bod, b))
<1>1. b \in Blocks(bod) /\ c \in Blocks(bod) /\ c \in Reachable(bod) /\ b \in Predecessors(bod, c)
  BY BodiesTyped, ReachableTyped DEF Predecessors
<1>2. Len(s) \in Nat /\ End(bod, b) - 1 = Len(s)
  BY <1>1, BodiesTyped, BlocksTyped DEF End
<1>3. /\ LiveAt(bod, c, 1) \subseteq LiveEnds(bod, LiveStarts(bod))[b]
      /\ LiveAt(bod, c, 1) \subseteq LiveAt(bod, b, End(bod, b))
      /\ leaving \in EmptyArriving(bod, c)
      /\ EmptyAt(bod, c, 1) = Retain(JoinEmpty(EmptyArriving(bod, c)), LiveAt(bod, c, 1))
  BY BodiesTyped, EmptyEdge DEF Arrives
<1>4. filledLeaving \in FilledArriving(bod, c)
  <2>1. filledEnds = FilledRound(bod, filledEnds)
    BY BodiesTyped
  <2>2. FilledRound(bod, filledEnds)[b] = {After(Fill, Either(FilledArriving(bod, b)), s)}
    BY <1>1 DEF FilledRound, ForwardRound, Arrives, FilledArriving
  <2>3. After(Fill, Either(FilledArriving(bod, b)), s) = filledLeaving
    BY <1>2, AfterIsBetween DEF After, FilledAt
  <2>4. filledLeaving \in filledEnds[b]
    BY <2>1, <2>2, <2>3
  <2>. QED  BY <1>1, <2>4 DEF FilledArriving, ArrivingAt
<1>5. FilledAt(bod, c, 1) = UNION FilledArriving(bod, c)
  BY <1>1, ForwardSteps DEF Either
<1>. HIDE DEF s, filledEnds, leaving, filledLeaving
<1>6. ASSUME NEW leaf \in Leaves, leaf.local \in LiveAt(bod, c, 1),
             Covered(bod, EmptyAt(bod, b, End(bod, b)), leaf)
      PROVE  Covered(bod, EmptyAt(bod, c, 1), leaf)
  <2>1. Covered(bod, leaving, leaf)
    BY <1>3, <1>6, Kept DEF leaving
  <2>. QED  BY <1>3, <1>6, <2>1, Joined
<1>. QED  BY <1>1, <1>3, <1>4, <1>5, <1>6 DEF Arrives, filledLeaving
-----------------------------------------------------------------------------
(* The invariant.  The body that runs was accepted, and is where its graph *)
(* leads; what holds something is tracked; and a leaf that is empty and    *)
(* still live is known to be.                                              *)
Accepted == MovesAccepted(body) /\ Released(body) /\ filled = MaybeFilled(body)
Here == block \in Reachable(body) /\ index \in 1 .. End(body, block) /\ Arrives(body, block)
Tracked == Holders(holds) \subseteq FilledAt(body, block, index)
EmptyIsKnown ==
  \A leaf \in Leaves \ holds :
    leaf.local \in LiveAt(body, block, index) => Covered(body, EmptyAt(body, block, index), leaf)
OwnershipInv ==
  /\ body \in Bodies /\ holds \in SUBSET Leaves
  /\ phase \in {"check", "run", "rejected", "returned"}
  /\ phase = "check" =>
       block = 0 /\ index = 1 /\ holds = {leaf \in Leaves : leaf.local \in Parameters} /\ ~ lost
  /\ phase \in {"run", "returned"} => Accepted /\ Here /\ Tracked /\ EmptyIsKnown /\ ~ lost
  /\ phase = "returned" => index = End(body, block) /\ Terminator.go = "return"

LEMMA FilledIsMaybeFilled ==
  ASSUME NEW bod \in Bodies, NEW b \in Reachable(bod), NEW i
  PROVE  AfterFirst(i - 1, Fill, MaybeFilled(bod)[b], bod.statements[b]) = FilledAt(bod, b, i)
<1>1. MaybeFilled(bod)[b] = Either(FilledArriving(bod, b))
  BY DEF MaybeFilled, StartOf, FilledArriving
<1>. QED  BY <1>1, AfterIsBetween DEF FilledAt

LEMMA VariablesFree ==
  ASSUME NEW bod \in Bodies, MovesAccepted(bod), Released(bod), NEW b \in Reachable(bod),
         NEW i \in 1 .. Len(bod.statements[b]), bod.statements[b][i].do = "unpack",
         NEW j \in DOMAIN bod.statements[b][i].taken
  PROVE  bod.statements[b][i].taken[j][1] \notin FilledAt(bod, b, i)
<1>1. b \in Blocks(bod) /\ i \in DOMAIN bod.statements[b]
  BY BodiesTyped, ReachableTyped, BlocksTyped
<1>2. VariablesAreFree(bod)
  BY PatternsAssumption
<1>. QED  BY <1>1, <1>2, FilledIsMaybeFilled DEF VariablesAreFree

(* A step that takes and gives what its statement says keeps the invariant.*)
LEMMA StatementStep ==
  ASSUME OwnershipInv, AtStatement, Proceed, ~ lost',
         holds' = (holds \ TakenBy(Statement)) \cup GivenTo(Statement)
  PROVE  OwnershipInv'
<1>1. /\ phase = "run" /\ body \in Bodies /\ holds \in SUBSET Leaves
      /\ Accepted /\ Here /\ Tracked /\ EmptyIsKnown
  BY DEF OwnershipInv, AtStatement, Running
<1>2. /\ body' = body /\ filled' = filled /\ phase' = phase /\ block' = block /\ index' = index + 1
  BY DEF Proceed
<1>3. block \in Blocks(body)
  BY <1>1, BodiesTyped, ReachableTyped DEF Here
<1>4. index \in 1 .. Len(body.statements[block]) /\ index + 1 \in 1 .. End(body, block)
  BY <1>1, <1>3, BodiesTyped, BlocksTyped DEF Here, End, AtStatement
<1>5. Statement \in StatementsOf(body) /\ Statement = body.statements[block][index]
  BY <1>1, <1>3, <1>4, BodiesTyped, BlocksTyped DEF Statement
<1>6. /\ LiveAt(body, block, index) = LiveBefore(LiveAt(body, block, index + 1), Statement)
      /\ EmptyAt(body, block, index + 1) = MoveStep(EmptyAt(body, block, index), Statement)
      /\ FilledAt(body, block, index + 1) = Fill(FilledAt(body, block, index), Statement)
  BY <1>1, <1>3, <1>4, <1>5, BodiesTyped, LiveSteps, ForwardSteps
<1>7. holds' \in SUBSET Leaves
  BY <1>1 DEF GivenTo, LeavesOf
<1>8. Holders(holds') \subseteq FilledAt(body, block, index + 1)
  BY <1>1, <1>5, <1>6, StepTracks DEF Tracked
<1>9. ASSUME NEW leaf \in Leaves \ holds', leaf.local \in LiveAt(body, block, index + 1)
      PROVE  Covered(body, EmptyAt(body, block, index + 1), leaf)
  <2>1. leaf \notin GivenTo(Statement) /\ (leaf \notin holds \/ leaf \in TakenBy(Statement))
    BY <1>9
  <2>2. leaf.local \in LiveAt(body, block, index) \/ leaf \in TakenBy(Statement)
    BY <1>1, <1>5, <1>6, <1>9, <2>1, StepLives
  <2>3. Covered(body, EmptyAt(body, block, index), leaf) \/ leaf \in TakenBy(Statement)
    BY <1>1, <1>9, <2>1, <2>2 DEF EmptyIsKnown
  <2>. QED  BY <1>1, <1>5, <1>6, <1>9, <2>1, <2>3, StepCovers
<1>10. Tracked' /\ EmptyIsKnown' /\ Accepted' /\ Here'
  BY <1>1, <1>2, <1>4, <1>8, <1>9 DEF Tracked, EmptyIsKnown, Accepted, Here
<1>. QED  BY <1>1, <1>2, <1>7, <1>10 DEF OwnershipInv

LEMMA OwnershipInit == Init => OwnershipInv
  BY DEF Init, OwnershipInv

LEMMA OwnershipNext == OwnershipInv /\ [Next]_vars => OwnershipInv'
<1>. SUFFICES ASSUME OwnershipInv, [Next]_vars PROVE OwnershipInv'
  OBVIOUS
<1>1. CASE Check
  <2>1. /\ body \in Bodies /\ holds = {leaf \in Leaves : leaf.local \in Parameters}
        /\ block = 0 /\ index = 1 /\ ~ lost
    BY <1>1 DEF Check, OwnershipInv
  <2>2. /\ body' = body /\ block' = block /\ index' = index /\ holds' = holds /\ lost' = lost
        /\ phase' \in {"run", "rejected"}
        /\ phase' = "run" => MovesAccepted(body) /\ Released(body) /\ filled' = MaybeFilled(body)
    BY <1>1 DEF Check
  <2>3. (Accepted' /\ Here' /\ Tracked' /\ EmptyIsKnown') \/ phase' = "rejected"
    <3>. SUFFICES ASSUME phase' = "run" PROVE Accepted' /\ Here' /\ Tracked' /\ EmptyIsKnown'
      BY <2>2
    <3>1. Here'
      <4>1. 0 \in Reachable(body) /\ 1 \in 1 .. End(body, 0)
        BY <2>1, BodiesTyped, ReachableTyped, BlocksTyped DEF End
      <4>. QED  BY <2>1, <2>2, <4>1, EntryArrives DEF Here
    <3>2. Holders(holds) \subseteq Parameters \cap Owning
      BY <2>1 DEF Holders
    <3>3. Tracked'
      BY <2>1, <2>2, <3>2, EntryArrives DEF Tracked
    <3>4. EmptyIsKnown'
      BY <2>1, <2>2, EntryArrives DEF EmptyIsKnown
    <3>. QED  BY <2>2, <3>1, <3>3, <3>4 DEF Accepted
  <2>. QED  BY <2>1, <2>2, <2>3 DEF OwnershipInv
<1>2. CASE AssignStep \/ BindStep
  <2>1. /\ AtStatement /\ Proceed /\ lost' = lost /\ Statement.do \in {"assign", "bind"}
        /\ holds' = (holds \ Taken) \cup Store(Statement.to)
    BY <1>2 DEF AssignStep, BindStep
  <2>2. Taken = TakenBy(Statement) /\ Store(Statement.to) = GivenTo(Statement)
    BY <2>1 DEF Taken, TakenBy, MovedBy, Store, GivenTo
  <2>. QED  BY <2>1, <2>2, StatementStep DEF OwnershipInv, AtStatement, Running
<1>3. CASE UnpackStep
  <2>. DEFINE taken == UNION {LeavesOf(Statement.taken[i][2]) : i \in DOMAIN Statement.taken}
              given == UNION {LeavesOf(Whole(Statement.taken[i][1])) : i \in DOMAIN Statement.taken}
  <2>1. /\ AtStatement /\ Proceed /\ Statement.do = "unpack"
        /\ lost' = (lost \/ \E leaf \in (given \cap holds) \ taken : leaf.local \in Owning)
        /\ holds' = (holds \ taken) \cup given
    BY <1>3 DEF UnpackStep
  <2>2. taken = TakenBy(Statement) /\ given = GivenTo(Statement)
    BY <2>1 DEF TakenBy, MovedBy, GivenTo
  <2>3. ~ lost /\ Accepted /\ Here /\ Tracked /\ body \in Bodies
    BY <2>1 DEF OwnershipInv, AtStatement, Running
  <2>4. ASSUME NEW leaf \in given \cap holds, leaf.local \in Owning PROVE FALSE
    <3>1. PICK j \in DOMAIN Statement.taken : leaf \in LeavesOf(Whole(Statement.taken[j][1]))
      BY <2>4
    <3>2. leaf.local = Statement.taken[j][1]
      BY <3>1 DEF LeavesOf, Covers, Whole, Place
    <3>3. index \in 1 .. Len(body.statements[block])
      BY <2>1, <2>3, BodiesTyped, ReachableTyped, BlocksTyped DEF Here, End, AtStatement
    <3>4. leaf.local \notin FilledAt(body, block, index)
      BY <2>1, <2>3, <3>2, <3>3, VariablesFree DEF Accepted, Here, Statement
    <3>. QED  BY <2>3, <2>4, <3>4 DEF Tracked, Holders
  <2>5. ~ lost'
    BY <2>1, <2>3, <2>4
  <2>. QED  BY <2>1, <2>2, <2>5, StatementStep
<1>4. CASE ReleaseStep
  <2>1. /\ AtStatement /\ Proceed /\ lost' = lost /\ Statement.do = "release"
        /\ holds' = holds \ LeavesOf(Whole(Statement.local))
    BY <1>4 DEF ReleaseStep
  <2>2. TakenBy(Statement) = LeavesOf(Whole(Statement.local)) /\ GivenTo(Statement) = {}
    BY <2>1 DEF TakenBy, MovedBy, GivenTo
  <2>. QED  BY <2>1, <2>2, StatementStep DEF OwnershipInv, AtStatement, Running
<1>5. CASE LookStep
  <2>1. /\ AtStatement /\ Proceed /\ lost' = lost /\ holds' = holds /\ Statement.do \in {"keep", "distinct"}
    BY <1>5 DEF LookStep
  <2>2. TakenBy(Statement) = {} /\ GivenTo(Statement) = {}
    BY <2>1 DEF TakenBy, MovedBy, GivenTo
  <2>. QED  BY <2>1, <2>2, StatementStep DEF OwnershipInv, AtStatement, Running
<1>6. CASE Jump
  <2>1. /\ phase = "run" /\ body \in Bodies /\ holds \in SUBSET Leaves /\ ~ lost
        /\ Accepted /\ Here /\ Tracked /\ EmptyIsKnown /\ index = End(body, block)
    BY <1>6 DEF Jump, AtTerminator, Running, OwnershipInv, End
  <2>2. PICK c \in Successors(body, block) : block' = c
    BY <1>6 DEF Jump, Terminator, Successors
  <2>3. /\ body' = body /\ filled' = filled /\ phase' = phase /\ index' = 1 /\ holds' = holds /\ lost' = lost
    BY <1>6 DEF Jump
  <2>4. c \in Blocks(body) /\ 1 \in 1 .. End(body, c)
    BY <2>1, <2>2, BodiesTyped, ReachableTyped, BlocksTyped DEF Here, End
  <2>5. /\ c \in Reachable(body) /\ Arrives(body, c)
        /\ LiveAt(body, c, 1) \subseteq LiveAt(body, block, End(body, block))
        /\ FilledAt(body, block, End(body, block)) \subseteq FilledAt(body, c, 1)
        /\ \A leaf \in Leaves :
             leaf.local \in LiveAt(body, c, 1) /\ Covered(body, EmptyAt(body, block, End(body, block)), leaf) =>
               Covered(body, EmptyAt(body, c, 1), leaf)
    BY <2>1, <2>2, EdgeKeeps DEF Here
  <2>6. Tracked' /\ EmptyIsKnown'
    BY <2>1, <2>2, <2>3, <2>5 DEF Tracked, EmptyIsKnown
  <2>7. Accepted' /\ Here'
    BY <2>1, <2>2, <2>3, <2>4, <2>5 DEF Accepted, Here
  <2>. QED  BY <2>1, <2>3, <2>6, <2>7 DEF OwnershipInv
<1>7. CASE ReturnStep
  <2>1. /\ phase = "run" /\ body \in Bodies /\ holds \in SUBSET Leaves /\ ~ lost
        /\ Accepted /\ Here /\ Tracked /\ EmptyIsKnown /\ index = End(body, block) /\ Terminator.go = "return"
    BY <1>7 DEF ReturnStep, AtTerminator, Running, OwnershipInv, End
  <2>2. /\ body' = body /\ filled' = filled /\ phase' = "returned" /\ block' = block /\ index' = index
        /\ holds' = holds /\ lost' = lost
    BY <1>7 DEF ReturnStep
  <2>3. Accepted' /\ Here' /\ Tracked' /\ EmptyIsKnown' /\ Terminator' = Terminator
    BY <2>1, <2>2 DEF Accepted, Here, Tracked, EmptyIsKnown, Terminator
  <2>. QED  BY <2>1, <2>2, <2>3 DEF OwnershipInv
<1>8. CASE UNCHANGED vars
  BY <1>8 DEF vars, OwnershipInv, Accepted, Here, Tracked, EmptyIsKnown, Terminator
<1>. QED  BY <1>1, <1>2, <1>3, <1>4, <1>5, <1>6, <1>7, <1>8 DEF Next

(* The invariant of every body that runs.                                  *)
THEOREM OwnershipInvariant == Spec => []OwnershipInv
  BY OwnershipInit, OwnershipNext, PTL DEF Spec
-----------------------------------------------------------------------------
(* A place whose leaf is known to be empty is one that the check reports.  *)
LEMMA EmptyOverlaps ==
  ASSUME NEW bod \in Bodies, NEW empty, NEW place, IsPath(place.path),
         NEW leaf \in LeavesOf(place), Covered(bod, empty, leaf)
  PROVE  Overlaps(empty, place)
<1>1. leaf \in Leaves /\ IsPath(leaf.path) /\ leaf.local = place.local /\ (Covers(place, leaf) \/ Covers(leaf, place))
  BY LeavesAssumption DEF LeavesOf, Covers
<1>2. CASE leaf.local \in empty.whole
  BY <1>1, <1>2 DEF Overlaps
<1>3. ASSUME NEW part \in empty.parts \cap MovedIn(bod), Covers(part, leaf)
      PROVE  Overlaps(empty, place)
  <2>1. Covers(part, place) \/ Covers(place, part)
    BY <1>1, <1>3, BodiesTyped, MovedIsPath, CoversTransitive, CoversComparable
  <2>. QED  BY <2>1 DEF Overlaps
<1>. QED  BY <1>2, <1>3 DEF Covered

(* What inserting places leaves empty as a whole.                          *)
LEMMA MovesKeepEmpty ==
  ASSUME NEW empty, NEW s PROVE empty.whole \subseteq AfterMoves(empty, s).whole
  BY DEF AfterMoves, InsertAll

LEMMA KnownIsFilled == OwnershipInv => NothingEmptyIsUsed
<1>. SUFFICES ASSUME OwnershipInv, NEW place \in NextUses, NEW leaf \in LeavesOf(place), leaf \notin holds
              PROVE FALSE
  BY DEF NothingEmptyIsUsed
<1>1. phase = "run" /\ body \in Bodies /\ Accepted /\ Here /\ EmptyIsKnown
  BY DEF OwnershipInv, NextUses, AtStatement, AtTerminator, Running
<1>2. leaf \in Leaves /\ leaf.local = place.local
  BY DEF LeavesOf, Covers
<1>3. block \in Reachable(body) /\ block \in Blocks(body)
  BY <1>1, BodiesTyped, ReachableTyped DEF Here
<1>4. leaf.local \in LiveAt(body, block, index) => Covered(body, EmptyAt(body, block, index), leaf)
  BY <1>1, <1>2 DEF EmptyIsKnown
<1>5. CASE AtStatement
  <2>. DEFINE s == body.statements[block][index]
              empty == EmptyAt(body, block, index)
  <2>1. index \in 1 .. Len(body.statements[block])
    BY <1>1, <1>3, <1>5, BodiesTyped, BlocksTyped DEF Here, End, AtStatement
  <2>2. Statement = s /\ s \in StatementsOf(body) /\ MoveErrors(empty, s) = {}
    BY <1>1, <1>3, <2>1, BodiesTyped, BlocksTyped, NoErrors DEF Statement, Accepted
  <2>3. LiveAt(body, block, index) = LiveBefore(LiveAt(body, block, index + 1), s)
    BY <1>1, <1>3, <2>1, BodiesTyped, LiveSteps
  <2>. HIDE DEF s, empty
  <2>4. CASE place \in UsedPlaces(s)
    <3>1. leaf.local \in LiveAt(body, block, index)
      BY <1>2, <2>3, <2>4 DEF LiveBefore, Reads, LocalsOf
    <3>2. Overlaps(empty, place)
      BY <1>1, <1>4, <2>2, <2>4, <3>1, BodiesTyped, StatementsTyped, EmptyOverlaps DEF empty
    <3>. QED  BY <2>2, <2>4, <3>2 DEF MoveErrors
  <2>5. CASE place \notin UsedPlaces(s)
    <3>1. s.do = "assign" /\ s.to.local \in References /\ place = Whole(s.to.local)
      BY <1>5, <2>2, <2>5 DEF NextUses
    <3>2. leaf.local = s.to.local
      BY <1>2, <3>1 DEF Whole, Place
    <3>3. leaf.local \in LiveAt(body, block, index)
      BY <2>3, <3>1, <3>2 DEF LiveBefore, Changes, IsWholeLocal
    <3>4. leaf.local \in empty.whole
      <4>1. Covered(body, empty, leaf)
        BY <1>4, <3>3 DEF empty
      <4>2. \A part \in MovedIn(body) : part.local # leaf.local
        BY <1>1, <1>3, <3>1, <3>2, BodiesTyped, NoErrors DEF Accepted
      <4>. QED  BY <4>1, <4>2 DEF Covered, Covers
    <3>5. s.to.local \in AfterMoves(empty, s).whole
      BY <3>2, <3>4, MovesKeepEmpty
    <3>. QED  BY <2>2, <3>1, <3>5 DEF MoveErrors, IsWholeLocal
  <2>. QED  BY <2>4, <2>5
<1>6. CASE ~ AtStatement
  <2>1. AtTerminator /\ place \in body.terminators[block].reads
    BY <1>6 DEF NextUses, Terminator
  <2>2. index = End(body, block)
    BY <2>1 DEF AtTerminator, End
  <2>3. leaf.local \in LiveAt(body, block, index)
    BY <1>1, <1>2, <1>3, <2>1, <2>2, BodiesTyped, LiveSteps DEF LiveLeaving, LocalsOf
  <2>4. Overlaps(EmptyAt(body, block, index), place)
    BY <1>1, <1>3, <1>4, <2>1, <2>3, BodiesTyped, BlocksTyped, EmptyOverlaps
  <2>. QED  BY <1>1, <1>3, <2>1, <2>2, <2>4, BodiesTyped, NoErrors DEF Accepted
<1>. QED  BY <1>5, <1>6

(* No accepted body uses a place that holds nothing, on any path, though   *)
(* check_moves forgets the locals that are dead and joins the paths.       *)
THEOREM NothingEmptyUsed == Spec => []NothingEmptyIsUsed
  BY OwnershipInvariant, KnownIsFilled, PTL
-----------------------------------------------------------------------------
LEMMA TrackedAtRun == OwnershipInv => HoldersAreTracked
<1>. SUFFICES ASSUME OwnershipInv, phase = "run" PROVE HoldersAreTracked
  BY DEF HoldersAreTracked
<1>1. body \in Bodies /\ Accepted /\ Here /\ Tracked
  BY DEF OwnershipInv
<1>2. AfterFirst(index - 1, Fill, filled[block], body.statements[block]) = FilledAt(body, block, index)
  BY <1>1, FilledIsMaybeFilled DEF Accepted, Here
<1>. QED  BY <1>1, <1>2 DEF HoldersAreTracked, Tracked, Holders

(* Body::fill never misses a local that holds what must be released.       *)
THEOREM HoldersTracked == Spec => []HoldersAreTracked
  BY OwnershipInvariant, TrackedAtRun, PTL

LEMMA ReleasedAtReturn == OwnershipInv => NothingLeaks
<1>. SUFFICES ASSUME OwnershipInv, phase = "returned" PROVE NothingLeaks
  BY DEF NothingLeaks
<1>1. /\ body \in Bodies /\ Accepted /\ Here /\ Tracked /\ ~ lost
      /\ index = End(body, block) /\ body.terminators[block].go = "return"
  BY DEF OwnershipInv, Terminator
<1>2. block \in Reachable(body) /\ index - 1 = Len(body.statements[block])
  BY <1>1, BodiesTyped, ReachableTyped, BlocksTyped DEF Here, End
<1>3. After(Fill, MaybeFilled(body)[block], body.statements[block]) \subseteq {Result}
  BY <1>1, <1>2 DEF Accepted, Released
<1>4. After(Fill, MaybeFilled(body)[block], body.statements[block]) = FilledAt(body, block, index)
  BY <1>1, <1>2, FilledIsMaybeFilled DEF After
<1>. QED  BY <1>1, <1>3, <1>4 DEF NothingLeaks, Tracked, Holders

(* An accepted body that returns has released everything but its result,   *)
(* and overwritten nothing that needed releasing.                          *)
THEOREM NothingLost == Spec => []NothingLeaks
  BY OwnershipInvariant, ReleasedAtReturn, PTL
===============================================================================
