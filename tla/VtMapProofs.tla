----------------------------- MODULE VtMapProofs -----------------------------
(***************************************************************************)
(* Proofs about the runtime map for every set of keys and values, every    *)
(* hash function and every sequence of operations.                         *)
(***************************************************************************)
EXTENDS VtMap, SequenceTheorems, FiniteSetTheorems, WellFoundedInduction, TLAPS

Filled    == {s \in 0 .. slotCap - 1 : slots[s] # EMPTY}
Remaining == {i \in from .. used - 1 : entries[i].live}

(* How many positions have a slot: all, or those the rebuild has visited.  *)
Indexed == IF pc = "placing" THEN from ELSE used

(* The index is twice as large as the storage, and the storage holds what  *)
(* is in use.                                                              *)
RoomOK == slotCap = 2 * cap /\ used <= cap

(* What each loop of a rebuild has done so far, and how the length relates *)
(* to the live entries at that point.                                      *)
CountOK ==
  /\ pc \in {"ready", "taking"} => len = Cardinality(LivePositions)
  /\ pc = "compacting" => /\ to <= from /\ from <= used
                          /\ \A i \in 0 .. to - 1 : entries[i].live
                          /\ len = to + Cardinality(Remaining)
  /\ pc = "placing" => /\ from <= used /\ used = len /\ used < cap
                       /\ \A i \in 0 .. used - 1 : entries[i].live

(* While the index is in use: a slot names a live entry, no two slots name *)
(* the same one, and no more slots are filled than positions were indexed. *)
IndexOK ==
  pc # "compacting" =>
    /\ \A s \in 0 .. slotCap - 1 : slots[s] >= 0 =>
         slots[s] < Indexed /\ entries[slots[s]].live
    /\ \A s, t \in 0 .. slotCap - 1 : slots[s] >= 0 /\ slots[s] = slots[t] => s = t
    /\ Cardinality(Filled) <= Indexed

IInv == TypeOK /\ RoomOK /\ CountOK /\ IndexOK
-----------------------------------------------------------------------------
LEMMA FilledFinite ==
  ASSUME slotCap \in Nat
  PROVE  IsFiniteSet(Filled) /\ Cardinality(Filled) \in Nat
  <1>1. IsFiniteSet(0 .. slotCap - 1)
    BY FS_Interval
  <1>. QED  BY <1>1, FS_Subset, FS_CardinalityType DEF Filled

LEMMA LiveFinite ==
  ASSUME used \in Nat, from \in Nat
  PROVE  /\ IsFiniteSet(LivePositions) /\ Cardinality(LivePositions) \in Nat
         /\ Cardinality(LivePositions) <= used
         /\ IsFiniteSet(Remaining) /\ Cardinality(Remaining) \in Nat
         /\ Cardinality(Remaining) <= used
  <1>1. IsFiniteSet(0 .. used - 1) /\ Cardinality(0 .. used - 1) = used
    BY FS_Interval
  <1>2. LivePositions \in SUBSET (0 .. used - 1) /\ Remaining \in SUBSET (0 .. used - 1)
    BY DEF LivePositions, Remaining
  <1>3. IsFiniteSet(LivePositions) /\ Cardinality(LivePositions) <= used
    BY <1>1, <1>2, FS_Subset
  <1>4. IsFiniteSet(Remaining) /\ Cardinality(Remaining) <= used
    BY <1>1, <1>2, FS_Subset
  <1>. QED  BY <1>3, <1>4, FS_CardinalityType

LEMMA UpdateType ==
  ASSUME NEW S, NEW T, NEW f \in [S -> T], NEW x, NEW y \in T
  PROVE  [f EXCEPT ![x] = y] \in [S -> T]
  OBVIOUS

(* Filling one slot adds at most one to the filled slots.                  *)
LEMMA OneMore ==
  ASSUME NEW S, IsFiniteSet(S), NEW x, NEW T \in SUBSET (S \cup {x})
  PROVE  /\ IsFiniteSet(T) /\ Cardinality(T) \in Nat
         /\ Cardinality(T) <= Cardinality(S) + 1
  <1>1. IsFiniteSet(S \cup {x}) /\ Cardinality(S \cup {x}) <= Cardinality(S) + 1
    <2>1. Cardinality(S) \in Nat
      BY FS_CardinalityType
    <2>. QED  BY <2>1, FS_AddElement
  <1>2. IsFiniteSet(T) /\ Cardinality(T) <= Cardinality(S \cup {x})
    BY <1>1, FS_Subset
  <1>. QED  BY <1>1, <1>2, FS_CardinalityType

(* The pigeonhole behind the comment on vt_map: fewer slots are filled     *)
(* than there are.                                                         *)
LEMMA EmptySlot ==
  ASSUME TypeOK, RoomOK, CountOK, IndexOK, cap > 0, pc # "compacting"
  PROVE  \E s \in 0 .. slotCap - 1 : slots[s] = EMPTY
  <1>1. IsFiniteSet(0 .. slotCap - 1) /\ Cardinality(0 .. slotCap - 1) = slotCap
    BY FS_Interval DEF TypeOK
  <1>2. Cardinality(Filled) <= used
    BY FilledFinite DEF TypeOK, IndexOK, CountOK, Indexed
  <1>3. Filled # 0 .. slotCap - 1
    BY <1>1, <1>2, FilledFinite DEF TypeOK, RoomOK
  <1>. QED  BY <1>3 DEF Filled

(* Every slot lies on every probe path.                                    *)
LEMMA ProbeReaches ==
  ASSUME TypeOK, NEW k \in Keys, NEW s \in 0 .. slotCap - 1
  PROVE  /\ \E j \in Probes : Probe(k, j) = s
         /\ \A j \in Probes : Probe(k, j) \in 0 .. slotCap - 1
  <1>1. slotCap \in Nat /\ slotCap > 0 /\ Hash[k] \in Nat
    BY HashAssumption DEF TypeOK
  <1>2. Home(k) \in 0 .. slotCap - 1
    BY <1>1 DEF Home
  <1>3. CASE s >= Home(k)
    <2>. s - Home(k) \in Probes /\ Probe(k, s - Home(k)) = s
      BY <1>1, <1>2, <1>3 DEF Probes, Probe
    <2>. QED  BY <1>1, <1>2 DEF Probes, Probe
  <1>4. CASE s < Home(k)
    <2>. s + slotCap - Home(k) \in Probes /\ Probe(k, s + slotCap - Home(k)) = s
      BY <1>1, <1>2, <1>4 DEF Probes, Probe
    <2>. QED  BY <1>1, <1>2 DEF Probes, Probe
  <1>. QED  BY <1>1, <1>2, <1>3, <1>4

LEMMA LeastExists ==
  ASSUME NEW S \in SUBSET Nat, S # {}
  PROVE  Least(S) \in S /\ \A i \in S : Least(S) <= i
  <1>1. PICK j \in S : \A i \in S : <<i, j>> \notin OpToRel(<, Nat)
    BY WFMin, NatLessThanWellFounded, Zenon
  <1>2. \A i \in S : ~ (i < j)
    <2>. SUFFICES ASSUME NEW i \in S, i < j PROVE FALSE
      OBVIOUS
    <2>1. <<i, j>> \in OpToRel(<, Nat)
      BY Zenon DEF OpToRel
    <2>. QED  BY <1>1, <2>1
  <1>3. \A i \in S : j <= i
    BY <1>2
  <1>. QED  BY <1>3 DEF Least

(* A search that answers a position read it from a slot of the index, and  *)
(* that position is a live entry with the key that was sought.             *)
LEMMA FindSound ==
  ASSUME IInv, NEW k \in Keys, Find(k) >= 0, pc = "ready"
  PROVE  /\ StopSlot(k) \in 0 .. slotCap - 1
         /\ Find(k) = slots[StopSlot(k)]
         /\ Find(k) \in LivePositions
         /\ entries[Find(k)].key = k
         /\ len > 0
  <1>1. len > 0 /\ Find(k) = slots[StopSlot(k)]
    BY DEF Find, EMPTY, IInv, TypeOK
  <1>2. cap > 0
    BY <1>1, LiveFinite DEF IInv, TypeOK, RoomOK, CountOK
  <1>3. PICK s \in 0 .. slotCap - 1 : slots[s] = EMPTY
    BY <1>2, EmptySlot DEF IInv
  <1>4. Stops(k) # {} /\ Stops(k) \in SUBSET Nat
    BY <1>3, ProbeReaches DEF Stops, Probes, IInv
  <1>5. PICK j \in Stops(k) : j = Least(Stops(k))
    BY <1>4, LeastExists
  <1>6. StopSlot(k) = Probe(k, j)
    BY <1>5 DEF StopSlot
  <1>7. StopSlot(k) \in 0 .. slotCap - 1
    BY <1>3, <1>6, ProbeReaches DEF Stops, IInv
  <1>8. entries[Find(k)].key = k
    BY <1>1, <1>6, <1>7 DEF Stops, EMPTY
  <1>. QED  BY <1>1, <1>7, <1>8 DEF IInv, TypeOK, IndexOK, Indexed, LivePositions
-----------------------------------------------------------------------------
LEMMA InitIInv == Init => IInv
  <1>. SUFFICES ASSUME Init PROVE IInv
    OBVIOUS
  <1>1. LivePositions = {} /\ Filled = {}
    BY DEF Init, LivePositions, Filled
  <1>2. TypeOK /\ RoomOK
    BY DEF Init, TypeOK, RoomOK, Entry, NoEntry
  <1>3. CountOK /\ IndexOK
    BY <1>1, FS_EmptySet DEF Init, CountOK, IndexOK, Indexed
  <1>. QED  BY <1>2, <1>3 DEF IInv

(* A new entry takes the first unused position and one slot more.          *)
LEMMA AddEntryStep ==
  ASSUME IInv, NEW k \in Keys \cup {NoValue}, NEW v \in Values \cup {NoValue},
         AddEntry(k, v), pc' = "ready", pc \in {"ready", "placing"}, used < cap,
         pending' \in (Keys \cup {NoValue}) \X (Values \cup {NoValue}),
         from' \in Nat, to' \in Nat, pc = "placing" => from = used
  PROVE  IInv'
  <1>. DEFINE e == [key |-> k, value |-> v, live |-> TRUE]
             q == PlaceSlot(k)
  <1>a. /\ entries' = [i \in 0 .. used |-> IF i = used THEN e ELSE entries[i]]
        /\ slots' = [slots EXCEPT ![q] = used]
        /\ used' = used + 1 /\ len' = len + 1 /\ cap' = cap /\ slotCap' = slotCap
    BY DEF AddEntry
  <1>b. e \in Entry /\ e.live
    BY DEF Entry
  <1>. HIDE DEF e, q
  <1>1. TypeOK' /\ RoomOK'
    <2>1. entries' \in [0 .. used' - 1 -> Entry]
      BY <1>a, <1>b DEF IInv, TypeOK
    <2>2. slots' \in [0 .. slotCap' - 1 -> Int]
      <3>1. slots \in [0 .. slotCap - 1 -> Int] /\ used \in Int
        BY DEF IInv, TypeOK
      <3>. QED  BY <1>a, <3>1, UpdateType
    <2>. QED  BY <1>a, <2>1, <2>2 DEF IInv, TypeOK, RoomOK
  <1>2. len = Cardinality(LivePositions)
    <2>1. CASE pc = "ready"
      BY <2>1 DEF IInv, CountOK
    <2>2. CASE pc = "placing"
      <3>1. LivePositions = 0 .. used - 1
        BY <2>2 DEF IInv, CountOK, LivePositions
      <3>. QED  BY <2>2, <3>1, FS_Interval DEF IInv, CountOK, TypeOK
    <2>. QED  BY <2>1, <2>2
  <1>3. LivePositions' = LivePositions \cup {used} /\ used \notin LivePositions
    BY <1>a, <1>b DEF LivePositions, IInv, TypeOK
  <1>4. CountOK'
    BY <1>a, <1>2, <1>3, LiveFinite, FS_AddElement DEF IInv, TypeOK, CountOK
  <1>5. Filled' \in SUBSET (Filled \cup {q})
    BY <1>a DEF Filled, IInv, TypeOK
  <1>6. Cardinality(Filled') \in Nat /\ Cardinality(Filled') <= Cardinality(Filled) + 1
    BY <1>5, FilledFinite, OneMore DEF IInv, TypeOK
  <1>7. Cardinality(Filled') <= Indexed'
    BY <1>a, <1>6, FilledFinite DEF IInv, IndexOK, Indexed, TypeOK
  <1>8. /\ \A s \in 0 .. slotCap - 1 : slots'[s] >= 0 =>
             slots'[s] < used' /\ entries'[slots'[s]].live
        /\ \A s, t \in 0 .. slotCap - 1 :
             slots'[s] >= 0 /\ slots'[s] = slots'[t] => s = t
    <2>1. \A s \in 0 .. slotCap - 1 :
            slots[s] \in Int /\ slots'[s] = IF s = q THEN used ELSE slots[s]
      BY <1>a DEF IInv, TypeOK
    <2>2. /\ \A s \in 0 .. slotCap - 1 : slots[s] >= 0 =>
               slots[s] < used /\ entries[slots[s]].live
          /\ \A s, t \in 0 .. slotCap - 1 : slots[s] >= 0 /\ slots[s] = slots[t] => s = t
      BY DEF IInv, IndexOK, Indexed
    <2>3. used \in Nat /\ entries'[used].live
          /\ \A i \in 0 .. used - 1 : entries'[i] = entries[i]
      BY <1>a, <1>b DEF IInv, TypeOK
    <2>. QED  BY <1>a, <2>1, <2>2, <2>3
  <1>9. IndexOK'
    BY <1>a, <1>7, <1>8 DEF IndexOK, Indexed
  <1>. QED  BY <1>1, <1>4, <1>9 DEF IInv

(* A step that changes neither which positions are live nor the index.     *)
LEMMA QuietStep ==
  ASSUME IInv, TypeOK', pc \in {"ready", "taking"}, pc' \in {"ready", "taking"},
         \A i \in 0 .. used - 1 : entries'[i].live = entries[i].live,
         UNCHANGED <<used, len, cap, slots, slotCap>>
  PROVE  IInv'
  <1>1. LivePositions' = LivePositions
    BY DEF LivePositions
  <1>2. Filled' = Filled
    BY DEF Filled
  <1>3. RoomOK' /\ CountOK'
    BY <1>1 DEF IInv, RoomOK, CountOK
  <1>4. \A s \in 0 .. slotCap - 1 : slots[s] >= 0 => slots[s] \in 0 .. used - 1
    BY DEF IInv, IndexOK, Indexed, TypeOK
  <1>5. IndexOK'
    BY <1>2, <1>4 DEF IInv, IndexOK, Indexed
  <1>. QED  BY <1>3, <1>5 DEF IInv

(* Emptying the map: no entry is in use and no slot is filled.             *)
LEMMA EmptiedStep ==
  ASSUME IInv, TypeOK', RoomOK', pc' = "ready", used' = 0, len' = 0,
         \A s \in 0 .. slotCap' - 1 : slots'[s] = EMPTY
  PROVE  IInv'
  <1>1. LivePositions' = {} /\ Filled' = {}
    BY DEF LivePositions, Filled
  <1>2. CountOK' /\ IndexOK'
    BY <1>1, FS_EmptySet DEF CountOK, IndexOK, Indexed, EMPTY
  <1>. QED  BY <1>2 DEF IInv

LEMMA RemoveStep ==
  ASSUME IInv, NEW k \in Keys, Remove(k)
  PROVE  IInv'
  <1>1. CASE Find(k) >= 0
    <2>. DEFINE p == Find(k)
    <2>1. /\ StopSlot(k) \in 0 .. slotCap - 1 /\ p = slots[StopSlot(k)]
          /\ p \in LivePositions /\ len > 0
      BY <1>1, FindSound DEF Remove
    <2>2. /\ slots' = [slots EXCEPT ![StopSlot(k)] = REMOVED]
          /\ entries' = [entries EXCEPT ![p] = NoEntry]
          /\ len' = len - 1 /\ pc = "ready"
          /\ UNCHANGED <<used, cap, slotCap, control>>
      BY <1>1 DEF Remove
    <2>. HIDE DEF p
    <2>3. TypeOK' /\ RoomOK'
      <3>1. NoEntry \in Entry /\ REMOVED \in Int
        BY DEF NoEntry, Entry, REMOVED
      <3>2. entries' \in [0 .. used' - 1 -> Entry] /\ slots' \in [0 .. slotCap' - 1 -> Int]
        BY <2>2, <3>1, UpdateType DEF IInv, TypeOK, control
      <3>. QED  BY <2>1, <2>2, <3>2 DEF IInv, TypeOK, RoomOK, control
    <2>4. LivePositions' = LivePositions \ {p}
      BY <2>1, <2>2 DEF LivePositions, IInv, TypeOK, NoEntry
    <2>5. CountOK'
      <3>1. Cardinality(LivePositions') = Cardinality(LivePositions) - 1
        BY <2>1, <2>4, LiveFinite, FS_RemoveElement DEF IInv, TypeOK
      <3>. QED  BY <2>2, <3>1 DEF IInv, CountOK, control
    <2>6. Filled' = Filled
      BY <1>1, <2>1, <2>2 DEF Filled, IInv, TypeOK, REMOVED, EMPTY, p
    <2>7. /\ \A s \in 0 .. slotCap - 1 : slots'[s] >= 0 =>
               slots'[s] = slots[s] /\ slots[s] # p
          /\ \A s \in 0 .. slotCap - 1 : slots'[s] >= 0 =>
               slots'[s] < used /\ entries'[slots'[s]].live
      BY <2>1, <2>2 DEF IInv, TypeOK, IndexOK, Indexed, REMOVED, LivePositions
    <2>8. IndexOK'
      BY <2>2, <2>6, <2>7 DEF IInv, IndexOK, Indexed, control
    <2>. QED  BY <2>3, <2>5, <2>8 DEF IInv
  <1>2. CASE ~ (Find(k) >= 0)
    <2>1. TypeOK'
      BY <1>2 DEF Remove, control, IInv, TypeOK
    <2>. QED  BY <1>2, <2>1, QuietStep DEF Remove, control
  <1>. QED  BY <1>1, <1>2

LEMMA CompactStep ==
  ASSUME IInv, Compact
  PROVE  IInv'
  <1>1. /\ pc = "compacting" /\ pc' = pc /\ from < used /\ from' = from + 1
        /\ UNCHANGED <<used, len, cap, slotCap>>
    BY DEF Compact
  <1>2. RoomOK' /\ IndexOK'
    BY <1>1 DEF IInv, RoomOK, IndexOK
  <1>3. CASE entries[from].live
    <2>1. entries' = [entries EXCEPT ![to] = entries[from]] /\ to' = to + 1
      BY <1>3 DEF Compact
    <2>2. TypeOK'
      <3>1. entries[from] \in Entry
        BY <1>1 DEF IInv, TypeOK
      <3>2. entries' \in [0 .. used' - 1 -> Entry]
        BY <1>1, <2>1, <3>1, UpdateType DEF IInv, TypeOK
      <3>. QED  BY <1>1, <2>1, <3>2 DEF IInv, TypeOK, Compact
    <2>3. Remaining' = Remaining \ {from} /\ from \in Remaining
      BY <1>1, <1>3, <2>1 DEF Remaining, IInv, TypeOK, CountOK
    <2>4. len = to' + Cardinality(Remaining')
      <3>1. /\ Cardinality(Remaining') = Cardinality(Remaining) - 1
            /\ Cardinality(Remaining) \in Nat
        BY <2>3, LiveFinite, FS_RemoveElement DEF IInv, TypeOK
      <3>. QED  BY <1>1, <2>1, <3>1 DEF IInv, TypeOK, CountOK
    <2>5. \A i \in 0 .. to' - 1 : entries'[i].live
      BY <1>1, <1>3, <2>1 DEF IInv, TypeOK, CountOK
    <2>. QED  BY <1>1, <1>2, <2>1, <2>2, <2>4, <2>5 DEF IInv, TypeOK, CountOK
  <1>4. CASE ~ entries[from].live
    <2>1. entries' = entries /\ to' = to
      BY <1>4 DEF Compact
    <2>2. Remaining' = Remaining
      BY <1>1, <1>4, <2>1 DEF Remaining, IInv, TypeOK
    <2>3. TypeOK'
      BY <1>1, <2>1 DEF IInv, TypeOK, Compact
    <2>. QED  BY <1>1, <1>2, <2>1, <2>2, <2>3 DEF IInv, TypeOK, CountOK
  <1>. QED  BY <1>3, <1>4

(* The storage always ends up with room for one entry more.                *)
LEMMA GrownCapEnough ==
  ASSUME len \in Nat, cap \in Nat, len <= cap
  PROVE  GrownCap \in Nat /\ Need <= GrownCap /\ len < Need
  BY DEF GrownCap, Need

LEMMA ResizeStep ==
  ASSUME IInv, Resize
  PROVE  IInv'
  <1>1. Remaining = {}
    BY DEF Remaining, Resize, IInv, TypeOK
  <1>2. len = to /\ to <= used /\ used <= cap
    BY <1>1, FS_EmptySet DEF IInv, TypeOK, CountOK, RoomOK, Resize
  <1>3. len < cap' /\ cap' \in Nat /\ slotCap' = 2 * cap'
    BY <1>2, GrownCapEnough DEF IInv, TypeOK, RoomOK, Resize, Need, IndexSize
  <1>4. TypeOK' /\ RoomOK'
    <2>1. entries' \in [0 .. used' - 1 -> Entry]
      BY <1>2 DEF IInv, TypeOK, Resize
    <2>2. slots' \in [0 .. slotCap' - 1 -> Int]
      BY DEF Resize, EMPTY
    <2>. QED  BY <1>2, <1>3, <2>1, <2>2 DEF IInv, TypeOK, RoomOK, Resize
  <1>5. CountOK'
    BY <1>2, <1>3 DEF IInv, TypeOK, CountOK, Resize
  <1>6. Filled' = {}
    BY DEF Filled, Resize
  <1>7. IndexOK'
    BY <1>6, FS_EmptySet DEF IndexOK, Indexed, Resize, EMPTY
  <1>. QED  BY <1>4, <1>5, <1>7 DEF IInv

LEMMA PlaceEntryStep ==
  ASSUME IInv, PlaceEntry
  PROVE  IInv'
  <1>. DEFINE q == PlaceSlot(entries[from].key)
  <1>1. /\ slots' = [slots EXCEPT ![q] = from]
        /\ pc = "placing" /\ from < used /\ from' = from + 1
        /\ UNCHANGED <<entries, used, len, cap, slotCap, pc, pending, to>>
    BY DEF PlaceEntry
  <1>. HIDE DEF q
  <1>2. TypeOK' /\ RoomOK' /\ CountOK'
    <2>1. slots' \in [0 .. slotCap' - 1 -> Int]
      <3>1. slots \in [0 .. slotCap - 1 -> Int] /\ from \in Int
        BY DEF IInv, TypeOK
      <3>. QED  BY <1>1, <3>1, UpdateType
    <2>. QED  BY <1>1, <2>1 DEF IInv, TypeOK, RoomOK, CountOK
  <1>3. Filled' \in SUBSET (Filled \cup {q})
    BY <1>1 DEF Filled, IInv, TypeOK
  <1>4. Cardinality(Filled') \in Nat /\ Cardinality(Filled') <= Cardinality(Filled) + 1
    BY <1>3, FilledFinite, OneMore DEF IInv, TypeOK
  <1>5. Cardinality(Filled') <= Indexed'
    BY <1>1, <1>4, FilledFinite DEF IInv, IndexOK, Indexed, TypeOK
  <1>6. /\ \A s \in 0 .. slotCap - 1 : slots'[s] >= 0 =>
             slots'[s] < from' /\ entries'[slots'[s]].live
        /\ \A s, t \in 0 .. slotCap - 1 :
             slots'[s] >= 0 /\ slots'[s] = slots'[t] => s = t
    <2>1. /\ slots \in [0 .. slotCap - 1 -> Int] /\ from \in Nat
          /\ from \in 0 .. used - 1 /\ entries[from].live
      BY <1>1 DEF IInv, TypeOK, CountOK
    <2>2. /\ \A s \in 0 .. slotCap - 1 :
               slots[s] >= 0 => slots[s] < from /\ entries[slots[s]].live
          /\ \A s, t \in 0 .. slotCap - 1 :
               slots[s] >= 0 /\ slots[s] = slots[t] => s = t
      BY <1>1 DEF IInv, IndexOK, Indexed
    <2>3. \A s \in 0 .. slotCap - 1 : slots'[s] = (IF s = q THEN from ELSE slots[s])
      BY <1>1, <2>1
    <2>4. from' = from + 1 /\ entries' = entries
      BY <1>1
    <2>5. \A s \in 0 .. slotCap - 1 :
             slots[s] \in Int /\ (slots[s] >= 0 => slots[s] < from)
      BY <2>1, <2>2
    <2>6. ASSUME NEW s \in 0 .. slotCap - 1, slots'[s] >= 0
          PROVE  slots'[s] < from' /\ entries'[slots'[s]].live
      BY <2>1, <2>2, <2>3, <2>4, <2>5, <2>6
    <2>7. ASSUME NEW s \in 0 .. slotCap - 1, NEW t \in 0 .. slotCap - 1,
                 slots'[s] >= 0, slots'[s] = slots'[t]
          PROVE  s = t
      BY <2>1, <2>2, <2>3, <2>5, <2>7
    <2>. QED  BY <2>6, <2>7
  <1>7. IndexOK'
    BY <1>1, <1>5, <1>6 DEF IndexOK, Indexed
  <1>. QED  BY <1>2, <1>7 DEF IInv

-----------------------------------------------------------------------------
LEMMA StepIInv ==
  ASSUME IInv, [Next]_vars
  PROVE  IInv'
  <1>1. ASSUME NEW k \in Keys, NEW v \in Values, InsertPresent(k, v)
        PROVE  IInv'
    <2>. DEFINE p == Find(k)
    <2>1. p \in LivePositions
      BY <1>1, FindSound DEF InsertPresent
    <2>2. /\ entries' = [entries EXCEPT ![p].value = v] /\ pc = "ready"
          /\ UNCHANGED <<used, len, cap, slots, slotCap, control>>
      BY <1>1 DEF InsertPresent
    <2>. HIDE DEF p
    <2>3. [entries[p] EXCEPT !.value = v] \in Entry
      BY <2>1 DEF IInv, TypeOK, Entry, LivePositions
    <2>4. entries' \in [0 .. used' - 1 -> Entry]
      BY <2>2, <2>3, UpdateType DEF IInv, TypeOK
    <2>5. TypeOK'
      BY <2>2, <2>4 DEF IInv, TypeOK, control
    <2>6. \A i \in 0 .. used - 1 : entries'[i].live = entries[i].live
      BY <2>2 DEF IInv, TypeOK, Entry
    <2>. QED  BY <2>2, <2>5, <2>6, QuietStep DEF control
  <1>2. ASSUME NEW k \in Keys, NEW v \in Values, InsertRoom(k, v)
        PROVE  IInv'
    BY <1>2, AddEntryStep DEF InsertRoom, control, IInv, TypeOK
  <1>3. ASSUME NEW k \in Keys, NEW v \in Values, InsertFull(k, v)
        PROVE  IInv'
    <2>1. Remaining' = LivePositions
      BY <1>3 DEF InsertFull, storage, Remaining, LivePositions
    <2>2. Cardinality(LivePositions) \in Nat
      BY LiveFinite DEF IInv, TypeOK
    <2>3. TypeOK' /\ RoomOK' /\ IndexOK'
      BY <1>3 DEF InsertFull, storage, IInv, TypeOK, RoomOK, IndexOK
    <2>. QED  BY <1>3, <2>1, <2>2, <2>3
              DEF InsertFull, storage, IInv, TypeOK, CountOK
  <1>4. CASE FinishInsert
    <2>1. /\ pending[1] \in Keys \cup {NoValue} /\ pending[2] \in Values \cup {NoValue}
          /\ pending' \in (Keys \cup {NoValue}) \X (Values \cup {NoValue})
          /\ used < cap /\ pc = "placing" /\ from = used
      BY <1>4 DEF FinishInsert, IInv, TypeOK, CountOK
    <2>. QED  BY <1>4, <2>1, AddEntryStep DEF FinishInsert
  <1>5. ASSUME NEW k \in Keys, Get(k)
        PROVE  IInv'
    <2>1. TypeOK'
      BY <1>5 DEF Get, storage, control, IInv, TypeOK
    <2>. QED  BY <1>5, <2>1, QuietStep DEF Get, storage, control
  <1>6. CASE Clear
    <2>1. TypeOK' /\ RoomOK'
      BY <1>6 DEF Clear, control, IInv, TypeOK, RoomOK, EMPTY
    <2>. QED  BY <1>6, <2>1, EmptiedStep DEF Clear, control
  <1>7. CASE Release
    <2>1. TypeOK' /\ RoomOK'
      BY <1>7 DEF Release, IInv, TypeOK, RoomOK
    <2>. QED  BY <1>7, <2>1, EmptiedStep DEF Release
  <1>8. CASE BeginTake
    <2>1. TypeOK'
      BY <1>8 DEF BeginTake, storage, IInv, TypeOK
    <2>. QED  BY <1>8, <2>1, QuietStep DEF BeginTake, storage
  <1>9. CASE TakeNext
    <2>1. pc = "taking" /\ pc' = pc /\ UNCHANGED <<used, len, cap, slots, slotCap>>
      BY <1>9 DEF TakeNext
    <2>2. CASE entries[from].live
      <3>1. entries' = [entries EXCEPT ![from] = [entries[from] EXCEPT !.key = NoValue,
                                                                        !.value = NoValue]]
        BY <1>9, <2>2 DEF TakeNext
      <3>2. [entries[from] EXCEPT !.key = NoValue, !.value = NoValue] \in Entry
        <4>1. entries[from] \in Entry
          BY <1>9 DEF TakeNext, IInv, TypeOK
        <4>. QED  BY <4>1 DEF Entry
      <3>3. entries' \in [0 .. used' - 1 -> Entry]
        BY <2>1, <3>1, <3>2, UpdateType DEF IInv, TypeOK
      <3>4. TypeOK'
        BY <1>9, <3>3 DEF TakeNext, IInv, TypeOK
      <3>5. \A i \in 0 .. used - 1 : entries'[i].live = entries[i].live
        BY <3>1 DEF IInv, TypeOK, Entry
      <3>. QED  BY <2>1, <3>4, <3>5, QuietStep
    <2>3. CASE ~ entries[from].live
      <3>1. TypeOK' /\ entries' = entries
        BY <1>9, <2>3 DEF TakeNext, IInv, TypeOK
      <3>. QED  BY <2>1, <3>1, QuietStep
    <2>. QED  BY <2>2, <2>3
  <1>10. CASE UNCHANGED vars
    BY <1>10 DEF vars, IInv, TypeOK, RoomOK, CountOK, IndexOK, Indexed,
                 LivePositions, Remaining, Filled
  <1>. QED  BY <1>1, <1>2, <1>3, <1>4, <1>5, <1>6, <1>7, <1>8, <1>9, <1>10,
               CompactStep, ResizeStep, PlaceEntryStep, RemoveStep DEF Next

THEOREM Invariant == Spec => []IInv
  BY InitIInv, StepIInv, PTL DEF Spec

(* Every reachable map is well formed: positions, slots and counters have  *)
(* their types throughout every operation and rebuild.                     *)
THEOREM TypeCorrect == Spec => []TypeOK
  <1>1. IInv => TypeOK
    BY DEF IInv
  <1>. QED  BY <1>1, Invariant, PTL

(* No probing loop of the map runs for ever: whenever the index is in use, *)
(* a search or a placement reaches an empty slot.                          *)
THEOREM ProbingEnds == Spec => []SearchEnds
  <1>1. IInv => SearchEnds
    BY EmptySlot DEF IInv, SearchEnds
  <1>. QED  BY <1>1, Invariant, PTL

(* The counter behind `len()` agrees with the live entries, through every  *)
(* removal, rebuild, clearing and loop that takes the map.                 *)
THEOREM LengthExact == Spec => []LenExact
  <1>1. IInv => LenExact
    BY DEF IInv, CountOK, LenExact
  <1>. QED  BY <1>1, Invariant, PTL
-----------------------------------------------------------------------------
(* Why a search finds every entry.  The positions whose entries are part   *)
(* of the map; their keys differ, and from that of an insertion that waits *)
(* for a rebuild.                                                          *)
Kept == IF pc = "compacting" THEN (0 .. to - 1) \cup (from .. used - 1) ELSE 0 .. used - 1

KeysOK ==
  pc # "taking" =>
    /\ \A i \in Kept : entries[i].live => entries[i].key \in Keys
    /\ \A i, j \in Kept : entries[i].live /\ entries[j].live /\ entries[i].key = entries[j].key => i = j
    /\ pc # "ready" => /\ pending[1] \in Keys
                       /\ \A i \in Kept : entries[i].live => entries[i].key # pending[1]

(* The probe path of k leads to a slot that names position i, and no slot  *)
(* before it was never filled.                                             *)
Reaches(k, i) ==
  \E j \in Probes : /\ slots[Probe(k, j)] = i
                    /\ \A h \in 0 .. j - 1 : slots[Probe(k, h)] # EMPTY

(* Every indexed entry lies on the probe path of its key.                  *)
PathsOK ==
  pc \in {"ready", "placing"} =>
    \A i \in 0 .. Indexed - 1, c \in Keys : entries[i].live /\ entries[i].key = c => Reaches(c, i)

FoundInv == IInv /\ KeysOK /\ PathsOK

(* What a search meets first on such a path is the entry itself.           *)
LEMMA ReachedIsFound ==
  ASSUME FoundInv, pc = "ready", NEW i \in LivePositions
  PROVE  Find(entries[i].key) = i
  <1>. DEFINE k == entries[i].key
  <1>1. k \in Keys /\ i \in 0 .. used - 1 /\ entries[i].live /\ i \in Kept
    BY DEF FoundInv, KeysOK, Kept, LivePositions
  <1>2. PICK j \in Probes : /\ slots[Probe(k, j)] = i
                            /\ \A h \in 0 .. j - 1 : slots[Probe(k, h)] # EMPTY
    BY <1>1 DEF FoundInv, PathsOK, Indexed, Reaches
  <1>. HIDE DEF k
  <1>3. len > 0 /\ used \in Nat /\ slotCap \in Nat
    <2>1. LivePositions # {} /\ IsFiniteSet(LivePositions) /\ len = Cardinality(LivePositions)
      BY LiveFinite DEF FoundInv, IInv, TypeOK, CountOK
    <2>2. Cardinality(LivePositions) # 0
      BY <2>1, FS_EmptySet
    <2>. QED  BY <2>1, <2>2 DEF FoundInv, IInv, TypeOK
  <1>4. \A h \in Probes : Probe(k, h) \in 0 .. slotCap - 1
    <2>1. Probes # {}
      BY <1>2
    <2>2. 0 \in 0 .. slotCap - 1
      BY <1>2, <1>3 DEF Probes
    <2>. QED  BY <1>1, <2>2, ProbeReaches DEF FoundInv, IInv
  <1>5. j \in Stops(k)
    BY <1>1, <1>2, <1>3 DEF Stops, k
  <1>6. Stops(k) \in SUBSET Nat
    BY DEF Stops, Probes
  <1>7. PICK m \in Stops(k) : m = Least(Stops(k)) /\ m <= j
    BY <1>5, <1>6, LeastExists
  <1>8. slots[Probe(k, m)] = i
    <2>1. CASE m = j
      BY <2>1, <1>2
    <2>2. CASE m # j
      <3>1. m \in 0 .. j - 1 /\ m \in Probes
        BY <1>6, <1>7, <2>2, <1>2 DEF Stops, Probes
      <3>2. slots[Probe(k, m)] # EMPTY
        BY <1>2, <3>1
      <3>3. slots[Probe(k, m)] >= 0 /\ entries[slots[Probe(k, m)]].key = k
        BY <1>7, <3>2 DEF Stops
      <3>4. slots[Probe(k, m)] \in 0 .. used - 1 /\ entries[slots[Probe(k, m)]].live
        BY <1>3, <1>4, <3>1, <3>3 DEF FoundInv, IInv, TypeOK, IndexOK, Indexed
      <3>. QED  BY <1>1, <3>3, <3>4 DEF FoundInv, KeysOK, Kept, k
    <2>. QED  BY <2>1, <2>2
  <1>9. StopSlot(k) = Probe(k, m)
    BY <1>7 DEF StopSlot
  <1>. QED  BY <1>3, <1>8, <1>9 DEF Find, k

(* A key that a search does not find is not in the map.                    *)
LEMMA AbsentKey ==
  ASSUME FoundInv, pc = "ready", NEW k \in Keys, Find(k) = EMPTY
  PROVE  \A i \in LivePositions : entries[i].key # k
  <1>. SUFFICES ASSUME NEW i \in LivePositions, entries[i].key = k PROVE FALSE
    OBVIOUS
  <1>1. Find(k) = i /\ i >= 0
    BY ReachedIsFound DEF LivePositions, FoundInv, IInv, TypeOK
  <1>. QED  BY <1>1 DEF EMPTY

(* A place for a key: a slot that names no entry, behind slots that do.    *)
LEMMA PlaceFree ==
  ASSUME IInv, pc \in {"ready", "placing"}, cap > 0, NEW k \in Keys
  PROVE  \E j \in Probes : /\ PlaceSlot(k) = Probe(k, j) /\ PlaceSlot(k) \in 0 .. slotCap - 1
                           /\ slots[PlaceSlot(k)] < 0
                           /\ \A h \in 0 .. j - 1 : slots[Probe(k, h)] >= 0
  <1>1. PICK s \in 0 .. slotCap - 1 : slots[s] = EMPTY
    BY EmptySlot DEF IInv
  <1>2. PICK e \in Probes : Probe(k, e) = s
    BY ProbeReaches DEF IInv
  <1>3. e \in FreeSlots(k) /\ FreeSlots(k) \in SUBSET Nat
    BY <1>1, <1>2 DEF FreeSlots, EMPTY, Probes
  <1>4. PICK j \in FreeSlots(k) : j = Least(FreeSlots(k)) /\ \A i \in FreeSlots(k) : j <= i
    BY <1>3, LeastExists
  <1>5. j \in Probes /\ slots[Probe(k, j)] < 0 /\ PlaceSlot(k) = Probe(k, j)
    BY <1>4 DEF FreeSlots, PlaceSlot
  <1>6. \A h \in 0 .. j - 1 : slots[Probe(k, h)] >= 0
    <2>. SUFFICES ASSUME NEW h \in 0 .. j - 1 PROVE slots[Probe(k, h)] >= 0
      OBVIOUS
    <2>1. h \in Probes /\ h \notin FreeSlots(k) /\ slotCap \in Nat
      BY <1>4, <1>5 DEF Probes, IInv, TypeOK
    <2>2. Probe(k, h) \in 0 .. slotCap - 1
      BY <1>1, <2>1, ProbeReaches DEF IInv
    <2>3. slots[Probe(k, h)] \in Int
      BY <2>2 DEF IInv, TypeOK
    <2>. QED  BY <2>1, <2>3 DEF FreeSlots
  <1>7. Probe(k, j) \in 0 .. slotCap - 1
    BY <1>1, <1>5, ProbeReaches DEF IInv
  <1>. QED  BY <1>5, <1>6, <1>7

(* Filling a free slot of a path keeps every path and makes one more.      *)
LEMMA PathsKept ==
  ASSUME IInv, pc \in {"ready", "placing"}, cap > 0, NEW k \in Keys, NEW p \in Nat,
         slots' = [slots EXCEPT ![PlaceSlot(k)] = p], slotCap' = slotCap
  PROVE  /\ Reaches(k, p)'
         /\ \A c \in Keys, i \in Nat : Reaches(c, i) => Reaches(c, i)'
  <1>. DEFINE q == PlaceSlot(k)
  <1>1. PICK j \in Probes : /\ q = Probe(k, j) /\ q \in 0 .. slotCap - 1 /\ slots[q] < 0
                            /\ \A h \in 0 .. j - 1 : slots[Probe(k, h)] >= 0
    BY PlaceFree
  <1>. HIDE DEF q
  <1>2. slotCap \in Nat /\ \A s \in 0 .. slotCap - 1 : slots[s] \in Int
    BY DEF IInv, TypeOK
  <1>3. Probes' = Probes /\ \A c \in Keys, h \in Probes : Probe(c, h)' = Probe(c, h)
    BY DEF Probes, Probe, Home
  <1>4. \A c \in Keys, h \in Probes : Probe(c, h) \in 0 .. slotCap - 1
    BY <1>1, ProbeReaches DEF IInv
  <1>5. \A s \in 0 .. slotCap - 1 : slots'[s] = IF s = q THEN p ELSE slots[s]
    BY DEF IInv, TypeOK, q
  <1>6. \A n \in Probes : \A h \in 0 .. n - 1 : h \in Probes
    BY <1>2 DEF Probes
  <1>7. Reaches(k, p)'
    <2>1. slots'[Probe(k, j)'] = p
      BY <1>1, <1>3, <1>5
    <2>2. ASSUME NEW h \in 0 .. j - 1 PROVE slots'[Probe(k, h)'] # EMPTY
      <3>1. slots'[Probe(k, h)] = p \/ slots'[Probe(k, h)] = slots[Probe(k, h)]
        BY <1>4, <1>5, <1>6
      <3>. QED  BY <1>1, <1>3, <1>6, <3>1 DEF EMPTY
    <2>. QED  BY <1>3, <2>1, <2>2 DEF Reaches, EMPTY
  <1>8. ASSUME NEW c \in Keys, NEW i \in Nat, Reaches(c, i)
        PROVE  Reaches(c, i)'
    <2>1. PICK n \in Probes : /\ slots[Probe(c, n)] = i
                              /\ \A h \in 0 .. n - 1 : slots[Probe(c, h)] # EMPTY
      BY <1>8 DEF Reaches
    <2>2. slots'[Probe(c, n)'] = i
      BY <1>1, <1>3, <1>4, <1>5, <2>1
    <2>3. ASSUME NEW h \in 0 .. n - 1 PROVE slots'[Probe(c, h)'] # EMPTY
      <3>1. slots'[Probe(c, h)] = p \/ slots'[Probe(c, h)] = slots[Probe(c, h)]
        BY <1>4, <1>5, <1>6
      <3>. QED  BY <1>3, <1>6, <2>1, <3>1 DEF EMPTY
    <2>. QED  BY <1>3, <2>1, <2>2, <2>3 DEF Reaches, EMPTY
  <1>. QED  BY <1>7, <1>8

LEMMA InitFound == Init => FoundInv
  BY InitIInv DEF FoundInv, Init, KeysOK, PathsOK, Kept, Indexed

(* A new entry keeps keys apart and gets a path of its own.                *)
LEMMA AddEntryFound ==
  ASSUME FoundInv, NEW k \in Keys, NEW v \in Values \cup {NoValue}, AddEntry(k, v),
         pc' = "ready", pc \in {"ready", "placing"}, used < cap, pc = "placing" => from = used,
         \A i \in 0 .. used - 1 : entries[i].live => entries[i].key # k
  PROVE  KeysOK' /\ PathsOK'
  <1>1. /\ \A i \in 0 .. used - 1 : entries'[i] = entries[i]
        /\ entries'[used].key = k /\ entries'[used].live
        /\ slots' = [slots EXCEPT ![PlaceSlot(k)] = used]
        /\ used' = used + 1 /\ slotCap' = slotCap
    BY DEF AddEntry, FoundInv, IInv, TypeOK
  <1>2. used \in Nat /\ cap > 0 /\ 0 .. used' - 1 = (0 .. used - 1) \cup {used}
    BY <1>1 DEF FoundInv, IInv, TypeOK
  <1>3. Kept = 0 .. used - 1 /\ Kept' = 0 .. used' - 1 /\ Indexed = used /\ Indexed' = used'
    BY DEF Kept, Indexed
  <1>4. KeysOK'
    BY <1>1, <1>2, <1>3 DEF KeysOK, FoundInv
  <1>5. PICK p \in Nat : p = used
    BY <1>2
  <1>6. Reaches(k, p)' /\ \A c \in Keys, i \in Nat : Reaches(c, i) => Reaches(c, i)'
    BY <1>1, <1>2, <1>5, PathsKept DEF FoundInv
  <1>7. PathsOK'
    <2>. SUFFICES ASSUME NEW i \in 0 .. used' - 1, NEW c \in Keys, entries'[i].live, entries'[i].key = c
                  PROVE  Reaches(c, i)'
      BY <1>3 DEF PathsOK
    <2>1. CASE i = used
      <3>1. i = p /\ c = k
        BY <1>1, <1>5, <2>1
      <3>. QED  BY <1>6, <3>1
    <2>2. CASE i # used
      <3>1. i \in 0 .. used - 1 /\ i \in Nat
        BY <1>1, <1>2, <2>2
      <3>2. entries[i].live /\ entries[i].key = c
        BY <1>1, <3>1
      <3>3. Reaches(c, i)
        BY <1>3, <3>1, <3>2 DEF FoundInv, PathsOK
      <3>. QED  BY <1>6, <3>1, <3>3
    <2>. QED  BY <2>1, <2>2
  <1>. QED  BY <1>4, <1>7

(* A path depends on the index alone.                                      *)
LEMMA SamePaths ==
  ASSUME slots' = slots, slotCap' = slotCap
  PROVE  \A c \in Keys, i \in Nat : Reaches(c, i) => Reaches(c, i)'
  <1>1. Probes' = Probes /\ \A c \in Keys, h \in Probes : Probe(c, h)' = Probe(c, h)
    BY DEF Probes, Probe, Home
  <1>2. SUFFICES ASSUME NEW c \in Keys, NEW i \in Nat, Reaches(c, i) PROVE Reaches(c, i)'
    OBVIOUS
  <1>3. PICK n \in Probes : /\ slots[Probe(c, n)] = i
                            /\ \A h \in 0 .. n - 1 : slots[Probe(c, h)] # EMPTY
    BY <1>2 DEF Reaches
  <1>4. \A h \in 0 .. n - 1 : Probe(c, h)' = Probe(c, h)
    BY DEF Probe, Home
  <1>. QED  BY <1>1, <1>3, <1>4 DEF Reaches, EMPTY

(* What leaves keys, live flags and the index alone.                       *)
LEMMA QuietFound ==
  ASSUME FoundInv, pc = "ready", pc' = "ready",
         \A i \in 0 .. used - 1 : entries'[i].live = entries[i].live /\ entries'[i].key = entries[i].key,
         UNCHANGED <<used, slots, slotCap>>
  PROVE  KeysOK' /\ PathsOK'
  <1>1. Kept = 0 .. used - 1 /\ Kept' = Kept /\ Indexed = used /\ Indexed' = used
    BY DEF Kept, Indexed
  <1>2. KeysOK'
    BY <1>1 DEF FoundInv, KeysOK
  <1>4. PathsOK'
    <2>. SUFFICES ASSUME NEW i \in 0 .. used - 1, NEW c \in Keys, entries'[i].live, entries'[i].key = c
                  PROVE  Reaches(c, i)'
      BY <1>1 DEF PathsOK
    <2>1. i \in Nat /\ entries[i].live /\ entries[i].key = c
      BY DEF FoundInv, IInv, TypeOK
    <2>2. Reaches(c, i)
      BY <1>1, <2>1 DEF FoundInv, PathsOK
    <2>. QED  BY <2>1, <2>2, SamePaths
  <1>. QED  BY <1>2, <1>4

LEMMA RemoveFound ==
  ASSUME FoundInv, NEW k \in Keys, Remove(k)
  PROVE  KeysOK' /\ PathsOK'
  <1>0. pc = "ready" /\ pc' = "ready" /\ used' = used /\ slotCap' = slotCap /\ used \in Nat
    BY DEF Remove, control, FoundInv, IInv, TypeOK
  <1>1. CASE Find(k) >= 0
    <2>. DEFINE p == Find(k)
                q == StopSlot(k)
    <2>1. /\ q \in 0 .. slotCap - 1 /\ p = slots[q] /\ p \in 0 .. used - 1
          /\ slots' = [slots EXCEPT ![q] = REMOVED]
          /\ entries' = [entries EXCEPT ![p] = NoEntry]
      BY <1>1, FindSound DEF Remove, FoundInv, LivePositions
    <2>. HIDE DEF p, q
    <2>2. /\ \A i \in 0 .. used - 1 : i # p => entries'[i] = entries[i]
          /\ ~ entries'[p].live
      BY <2>1 DEF NoEntry, FoundInv, IInv, TypeOK
    <2>3. Kept = 0 .. used - 1 /\ Kept' = Kept /\ Indexed = used /\ Indexed' = used
      BY <1>0 DEF Kept, Indexed
    <2>4. KeysOK'
      BY <1>0, <2>2, <2>3 DEF FoundInv, KeysOK
    <2>5. ASSUME NEW c \in Keys, NEW i \in 0 .. used - 1, i # p, Reaches(c, i)
          PROVE  Reaches(c, i)'
      <3>1. PICK n \in Probes : /\ slots[Probe(c, n)] = i
                                /\ \A h \in 0 .. n - 1 : slots[Probe(c, h)] # EMPTY
        BY <2>5 DEF Reaches
      <3>2. Probes' = Probes /\ \A h \in Probes : Probe(c, h)' = Probe(c, h)
        BY <1>0 DEF Probes, Probe, Home
      <3>3. \A h \in Probes : Probe(c, h) \in 0 .. slotCap - 1
        BY <2>1, ProbeReaches DEF FoundInv, IInv
      <3>4. \A s \in 0 .. slotCap - 1 : slots'[s] = IF s = q THEN REMOVED ELSE slots[s]
        BY <2>1 DEF FoundInv, IInv, TypeOK
      <3>5. slots'[Probe(c, n)'] = i
        BY <2>1, <2>5, <3>1, <3>2, <3>3, <3>4
      <3>6. ASSUME NEW h \in 0 .. n - 1 PROVE slots'[Probe(c, h)'] # EMPTY
        <4>1. h \in Probes
          BY <3>1 DEF Probes, FoundInv, IInv, TypeOK
        <4>2. slots'[Probe(c, h)] = REMOVED \/ slots'[Probe(c, h)] = slots[Probe(c, h)]
          BY <3>3, <3>4, <4>1
        <4>. QED  BY <3>1, <3>2, <4>1, <4>2 DEF EMPTY, REMOVED
      <3>. QED  BY <3>2, <3>5, <3>6 DEF Reaches, EMPTY
    <2>6. PathsOK'
      <3>. SUFFICES ASSUME NEW i \in 0 .. used - 1, NEW c \in Keys, entries'[i].live, entries'[i].key = c
                    PROVE  Reaches(c, i)'
        BY <2>3 DEF PathsOK
      <3>1. i # p /\ entries[i].live /\ entries[i].key = c
        BY <2>2
      <3>2. Reaches(c, i)
        BY <1>0, <2>3, <3>1 DEF FoundInv, PathsOK
      <3>. QED  BY <2>5, <3>1, <3>2
    <2>. QED  BY <2>4, <2>6
  <1>2. CASE ~ (Find(k) >= 0)
    BY <1>0, <1>2, QuietFound DEF Remove
  <1>. QED  BY <1>1, <1>2

(* Closing gaps moves entries down, and forgets where they came from.      *)
LEMMA CompactFound ==
  ASSUME FoundInv, Compact
  PROVE  KeysOK' /\ PathsOK'
  <1>1. /\ pc = "compacting" /\ pc' = pc /\ from < used /\ from' = from + 1 /\ pending' = pending
        /\ used' = used /\ used \in Nat /\ from \in Nat /\ to \in Nat /\ to <= from
        /\ entries \in [0 .. used - 1 -> Entry]
    BY DEF Compact, FoundInv, IInv, TypeOK, CountOK
  <1>2. PathsOK'
    BY <1>1 DEF PathsOK
  <1>3. Kept = (0 .. to - 1) \cup (from .. used - 1) /\ Kept' = (0 .. to' - 1) \cup (from + 1 .. used - 1)
    BY <1>1 DEF Kept
  <1>4. CASE entries[from].live
    <2>1. entries' = [entries EXCEPT ![to] = entries[from]] /\ to' = to + 1
      BY <1>4 DEF Compact
    <2>2. \A i \in Kept' : \E o \in Kept : entries'[i] = entries[o] /\ (IF i = to THEN o = from ELSE o = i)
      <3>. SUFFICES ASSUME NEW i \in Kept'
                    PROVE  \E o \in Kept : entries'[i] = entries[o] /\ (IF i = to THEN o = from ELSE o = i)
        OBVIOUS
      <3>1. CASE i = to
        BY <1>1, <1>3, <2>1, <3>1
      <3>2. CASE i # to
        BY <1>1, <1>3, <2>1, <3>2
      <3>. QED  BY <3>1, <3>2
    <2>3. from \notin Kept' \/ from = to
      BY <1>1, <1>3, <2>1
    <2>. QED  BY <1>1, <1>2, <2>2, <2>3 DEF FoundInv, KeysOK
  <1>5. CASE ~ entries[from].live
    <2>1. entries' = entries /\ Kept' \in SUBSET Kept
      BY <1>1, <1>3, <1>5 DEF Compact
    <2>. QED  BY <1>1, <1>2, <2>1 DEF FoundInv, KeysOK
  <1>. QED  BY <1>4, <1>5

LEMMA ResizeFound ==
  ASSUME FoundInv, Resize
  PROVE  KeysOK' /\ PathsOK'
  <1>1. /\ pc = "compacting" /\ pc' = "placing" /\ pending' = pending /\ from' = 0
        /\ used' = to /\ to \in Nat /\ entries' = [i \in 0 .. to - 1 |-> entries[i]]
    BY DEF Resize, FoundInv, IInv, TypeOK
  <1>2. PathsOK'
    BY <1>1 DEF PathsOK, Indexed
  <1>3. Kept' = 0 .. to - 1 /\ 0 .. to - 1 \in SUBSET Kept /\ \A i \in 0 .. to - 1 : entries'[i] = entries[i]
    BY <1>1 DEF Kept
  <1>4. KeysOK'
    BY <1>1, <1>3 DEF FoundInv, KeysOK
  <1>. QED  BY <1>2, <1>4

LEMMA PlaceEntryFound ==
  ASSUME FoundInv, PlaceEntry
  PROVE  KeysOK' /\ PathsOK'
  <1>1. /\ pc = "placing" /\ pc' = pc /\ from \in Nat /\ from < used /\ from' = from + 1
        /\ UNCHANGED <<entries, used, pending>> /\ slotCap' = slotCap /\ cap > 0
        /\ slots' = [slots EXCEPT ![PlaceSlot(entries[from].key)] = from]
    BY DEF PlaceEntry, FoundInv, IInv, TypeOK, CountOK
  <1>2. Kept = 0 .. used - 1 /\ Kept' = Kept /\ Indexed = from /\ Indexed' = from + 1 /\ used \in Nat
    BY <1>1 DEF Kept, Indexed, FoundInv, IInv, TypeOK
  <1>3. KeysOK'
    BY <1>1, <1>2 DEF FoundInv, KeysOK
  <1>4. \A i \in 0 .. used - 1 : entries[i].live /\ entries[i].key \in Keys
    BY <1>1, <1>2 DEF FoundInv, IInv, CountOK, KeysOK
  <1>5. PICK k \in Keys, p \in Nat : k = entries[from].key /\ p = from
    BY <1>1, <1>2, <1>4
  <1>6. slots' = [slots EXCEPT ![PlaceSlot(k)] = p]
    BY <1>1, <1>5
  <1>7. Reaches(k, p)' /\ \A c \in Keys, i \in Nat : Reaches(c, i) => Reaches(c, i)'
    BY <1>1, <1>6, PathsKept DEF FoundInv
  <1>8. PathsOK'
    <2>. SUFFICES ASSUME NEW i \in 0 .. from, NEW c \in Keys, entries[i].live, entries[i].key = c
                  PROVE  Reaches(c, i)'
      <3>1. 0 .. Indexed' - 1 = 0 .. from
        BY <1>1, <1>2
      <3>. QED  BY <1>1, <3>1 DEF PathsOK
    <2>1. CASE i = from
      <3>1. i = p /\ c = k
        BY <1>5, <2>1
      <3>. QED  BY <1>7, <3>1
    <2>2. CASE i # from
      <3>1. i \in 0 .. from - 1 /\ i \in Nat
        BY <1>1, <2>2
      <3>2. Reaches(c, i)
        BY <1>1, <1>2, <3>1 DEF FoundInv, PathsOK
      <3>. QED  BY <1>7, <3>1, <3>2
    <2>. QED  BY <2>1, <2>2
  <1>. QED  BY <1>3, <1>8

LEMMA StepFound ==
  ASSUME FoundInv, [Next]_vars
  PROVE  FoundInv'
  <1>0. IInv'
    BY StepIInv DEF FoundInv
  <1>. SUFFICES KeysOK' /\ PathsOK'
    BY <1>0 DEF FoundInv
  <1>1. ASSUME NEW k \in Keys, NEW v \in Values, InsertPresent(k, v)
        PROVE  KeysOK' /\ PathsOK'
    <2>1. Find(k) \in 0 .. used - 1
      BY <1>1, FindSound DEF InsertPresent, FoundInv, LivePositions
    <2>2. \A i \in 0 .. used - 1 : entries'[i].live = entries[i].live /\ entries'[i].key = entries[i].key
      BY <1>1, <2>1 DEF InsertPresent, FoundInv, IInv, TypeOK, Entry
    <2>. QED  BY <1>1, <2>2, QuietFound DEF InsertPresent, control
  <1>2. ASSUME NEW k \in Keys, NEW v \in Values, InsertRoom(k, v)
        PROVE  KeysOK' /\ PathsOK'
    <2>1. \A i \in 0 .. used - 1 : entries[i].live => entries[i].key # k
      BY <1>2, AbsentKey DEF InsertRoom, LivePositions
    <2>2. AddEntry(k, v) /\ pc = "ready" /\ pc' = "ready" /\ used < cap
      BY <1>2 DEF InsertRoom, control
    <2>. QED  BY <2>1, <2>2, AddEntryFound
  <1>3. ASSUME NEW k \in Keys, NEW v \in Values, InsertFull(k, v)
        PROVE  KeysOK' /\ PathsOK'
    <2>1. \A i \in 0 .. used - 1 : entries[i].live => entries[i].key # k
      BY <1>3, AbsentKey DEF InsertFull, LivePositions
    <2>2. /\ pc = "ready" /\ pc' = "compacting" /\ pending' = <<k, v>> /\ from' = 0 /\ to' = 0
          /\ entries' = entries /\ used' = used /\ used \in Nat
      BY <1>3 DEF InsertFull, storage, FoundInv, IInv, TypeOK
    <2>3. Kept = 0 .. used - 1 /\ Kept' = 0 .. used - 1
      BY <2>2 DEF Kept
    <2>4. PathsOK'
      BY <2>2 DEF PathsOK
    <2>. QED  BY <2>1, <2>2, <2>3, <2>4 DEF FoundInv, KeysOK
  <1>4. CASE FinishInsert
    <2>1. /\ pc = "placing" /\ pc' = "ready" /\ from = used /\ used < cap
          /\ pending[2] \in Values \cup {NoValue} /\ AddEntry(pending[1], pending[2])
      BY <1>4 DEF FinishInsert, FoundInv, IInv, TypeOK, CountOK
    <2>2. pending[1] \in Keys /\ \A i \in 0 .. used - 1 : entries[i].live => entries[i].key # pending[1]
      BY <2>1 DEF FoundInv, KeysOK, Kept
    <2>3. PICK k \in Keys, v \in Values \cup {NoValue} : k = pending[1] /\ v = pending[2]
      BY <2>1, <2>2
    <2>4. AddEntry(k, v) /\ \A i \in 0 .. used - 1 : entries[i].live => entries[i].key # k
      BY <2>1, <2>2, <2>3
    <2>. QED  BY <2>1, <2>4, AddEntryFound
  <1>5. ASSUME NEW k \in Keys, Get(k)
        PROVE  KeysOK' /\ PathsOK'
    BY <1>5, QuietFound DEF Get, storage, control
  <1>6. CASE Clear \/ Release
    <2>1. pc' = "ready" /\ used' = 0
      <3>1. CASE Clear
        BY <3>1 DEF Clear, control
      <3>2. CASE Release
        BY <3>2 DEF Release
      <3>. QED  BY <1>6, <3>1, <3>2
    <2>. QED  BY <2>1 DEF KeysOK, PathsOK, Kept, Indexed
  <1>7. CASE BeginTake \/ TakeNext
    <2>1. pc' = "taking"
      BY <1>7 DEF BeginTake, TakeNext
    <2>. QED  BY <2>1 DEF KeysOK, PathsOK
  <1>8. CASE UNCHANGED vars
    <2>1. Kept' = Kept /\ Indexed' = Indexed /\ UNCHANGED <<entries, pc, pending>>
      BY <1>8 DEF vars, Kept, Indexed
    <2>2. KeysOK'
      BY <2>1 DEF FoundInv, KeysOK
    <2>3. ASSUME pc \in {"ready", "placing"}, NEW i \in 0 .. Indexed - 1, NEW c \in Keys,
                 entries[i].live, entries[i].key = c
          PROVE  Reaches(c, i)'
      <3>1. i \in Nat
        BY <2>3
      <3>2. Reaches(c, i)
        BY <2>3 DEF FoundInv, PathsOK
      <3>. QED  BY <1>8, <3>1, <3>2, SamePaths DEF vars
    <2>4. PathsOK'
      BY <2>1, <2>3 DEF PathsOK
    <2>. QED  BY <2>2, <2>4
  <1>. QED  BY <1>1, <1>2, <1>3, <1>4, <1>5, <1>6, <1>7, <1>8,
               CompactFound, ResizeFound, PlaceEntryFound, RemoveFound DEF Next

THEOREM FoundInvariant == Spec => []FoundInv
  BY InitFound, StepFound, PTL DEF Spec

(* Every live entry is found by its key, whatever mixture of insertions,   *)
(* removals and rebuilds has disturbed the probe paths.                    *)
THEOREM EntriesAreFound == Spec => []EntriesFound
  <1>1. FoundInv => EntriesFound
    BY ReachedIsFound DEF EntriesFound
  <1>. QED  BY <1>1, FoundInvariant, PTL
-----------------------------------------------------------------------------
(* The map as an ordered one.  A listing of a set of positions: each of    *)
(* them once, from the first to the last.                                  *)
Lists(e, n, S) ==
  /\ n \in Nat /\ e \in [1 .. n -> S]
  /\ \A i \in S : \E m \in 1 .. n : e[m] = i
  /\ \A m, l \in 1 .. n : m < l => e[m] < e[l]

Content(entry) == [key |-> entry.key, value |-> entry.value]

(* The position at place m of a listing is the m-th of its set.            *)
LEMMA ListedPlaces ==
  ASSUME NEW S \in SUBSET Nat, NEW n, NEW e, Lists(e, n, S)
  PROVE  /\ Cardinality(S) = n
         /\ \A m \in 1 .. n : Nth(S, m) = e[m]
  <1>1. /\ n \in Nat /\ e \in [1 .. n -> S] /\ \A i \in S : \E m \in 1 .. n : e[m] = i
        /\ \A m, l \in 1 .. n : m < l => e[m] < e[l]
    BY DEF Lists
  <1>2. \A m \in 1 .. n : e[m] \in Nat
    BY <1>1
  <1>3. \A m, l \in 1 .. n : e[m] <= e[l] <=> m <= l
    <2>. SUFFICES ASSUME NEW m \in 1 .. n, NEW l \in 1 .. n PROVE e[m] <= e[l] <=> m <= l
      OBVIOUS
    <2>1. e[m] \in Nat /\ e[l] \in Nat /\ m \in Nat /\ l \in Nat
      BY <1>2
    <2>2. (m < l => e[m] < e[l]) /\ (l < m => e[l] < e[m])
      BY <1>1
    <2>3. CASE m = l
      BY <2>1, <2>3
    <2>. QED  BY <2>1, <2>2, <2>3
  <1>4. ASSUME NEW m \in 1 .. n
        PROVE  Cardinality({j \in S : j <= e[m]}) = m
    <2>. DEFINE T == {j \in S : j <= e[m]}
                f == [l \in 1 .. m |-> e[l]]
    <2>1. \A l \in 1 .. m : l \in 1 .. n /\ e[l] \in T
      BY <1>1, <1>3
    <2>2. f \in [1 .. m -> T]
      BY <2>1
    <2>3. \A a, b \in 1 .. m : f[a] = f[b] => a = b
      <3>. SUFFICES ASSUME NEW a \in 1 .. m, NEW b \in 1 .. m, e[a] = e[b] PROVE a = b
        OBVIOUS
      <3>1. a \in 1 .. n /\ b \in 1 .. n
        BY <2>1
      <3>2. e[a] <= e[b] /\ e[b] <= e[a]
        BY <1>2, <3>1
      <3>. QED  BY <1>3, <3>1, <3>2
    <2>4. \A i \in T : \E l \in 1 .. m : f[l] = i
      <3>. SUFFICES ASSUME NEW i \in T PROVE \E l \in 1 .. m : e[l] = i
        OBVIOUS
      <3>1. PICK l \in 1 .. n : e[l] = i
        BY <1>1
      <3>2. l <= m
        BY <1>3, <3>1
      <3>. QED  BY <3>1, <3>2
    <2>5. ExistsBijection(1 .. m, T)
      <3>. HIDE DEF f, T
      <3>1. f \in Bijection(1 .. m, T)
        BY <2>2, <2>3, <2>4 DEF Bijection, Injection, Surjection, IsInjective
      <3>. QED  BY <3>1 DEF ExistsBijection
    <2>. HIDE DEF T
    <2>. QED  BY <2>5, FS_CountingElements DEF T
  <1>5. ASSUME NEW m \in 1 .. n PROVE Nth(S, m) = e[m]
    <2>1. e[m] \in S
      BY <1>1
    <2>2. ASSUME NEW i \in S, Cardinality({j \in S : j <= i}) = m PROVE i = e[m]
      <3>1. PICK l \in 1 .. n : e[l] = i
        BY <1>1
      <3>. QED  BY <1>4, <2>2, <3>1
    <2>. QED  BY <1>4, <2>1, <2>2 DEF Nth
  <1>6. Cardinality(S) = n
    <2>1. \A a, b \in 1 .. n : e[a] = e[b] => a = b
      <3>. SUFFICES ASSUME NEW a \in 1 .. n, NEW b \in 1 .. n, e[a] = e[b] PROVE a = b
        OBVIOUS
      <3>1. e[a] <= e[b] /\ e[b] <= e[a]
        BY <1>2
      <3>. QED  BY <1>3, <3>1
    <2>2. e \in Bijection(1 .. n, S)
      BY <1>1, <2>1 DEF Bijection, Injection, Surjection, IsInjective
    <2>3. ExistsBijection(1 .. n, S)
      BY <2>2 DEF ExistsBijection
    <2>. QED  BY <1>1, <2>3, FS_CountingElements
  <1>. QED  BY <1>5, <1>6

(* So what a map holds is the sequence of the entries of a listing.        *)
LEMMA ListedContents ==
  ASSUME NEW P, Held(P) \in SUBSET Nat, NEW n, NEW e, Lists(e, n, Held(P))
  PROVE  Contents(P) = [m \in 1 .. n |-> Content(entries[e[m]])]
  <1>1. Cardinality(Held(P)) = n /\ \A m \in 1 .. n : Nth(Held(P), m) = e[m]
    BY ListedPlaces
  <1>2. Contents(P) = [m \in 1 .. n |-> [key |-> entries[Nth(Held(P), m)].key,
                                         value |-> entries[Nth(Held(P), m)].value]]
    BY <1>1 DEF Contents
  <1>. QED  BY <1>1, <1>2 DEF Content

HeldNow == Held(Kept)

(* What a loop has taken is zeroed, what it has not is as it was; an       *)
(* insertion keeps its key and value while the map is rebuilt; and there   *)
(* is a listing of what is held.                                           *)
OrderInv ==
  /\ FoundInv
  /\ pc = "taking" => \A i \in 0 .. used - 1 : entries[i].live =>
                        IF i < from THEN entries[i].key = NoValue ELSE entries[i].key \in Keys
  /\ pc \in {"compacting", "placing"} => pending \in Keys \X Values
  /\ \E n \in Nat : \E e : Lists(e, n, HeldNow)

LEMMA HeldTyped ==
  ASSUME FoundInv
  PROVE  /\ HeldNow \in SUBSET Nat
         /\ \A i \in HeldNow : i \in 0 .. used - 1 /\ entries[i].live /\ entries[i].key # NoValue
         /\ Current = Contents(Kept)
  <1>1. /\ used \in Nat /\ from \in Nat /\ to \in Nat
        /\ pc = "compacting" => to <= from /\ from <= used
    BY DEF FoundInv, IInv, TypeOK, CountOK
  <1>2. Kept \in SUBSET (0 .. used - 1)
    BY <1>1 DEF Kept
  <1>. QED  BY <1>1, <1>2 DEF HeldNow, Held, Current, Kept

LEMMA InitOrder == Init => OrderInv
  <1>. SUFFICES ASSUME Init PROVE OrderInv
    OBVIOUS
  <1>1. FoundInv
    BY InitFound
  <1>2. HeldNow = {}
    BY DEF Init, HeldNow, Held, Kept
  <1>3. Lists([m \in {} |-> 0], 0, {})
    BY DEF Lists
  <1>4. \E n \in Nat : \E e : Lists(e, n, HeldNow)
    BY <1>2, <1>3
  <1>. QED  BY <1>1, <1>4 DEF Init, OrderInv

LEMMA InitRefines == Init => Abstract!Init
  <1>. SUFFICES ASSUME Init PROVE Abstract!Init
    OBVIOUS
  <1>1. FoundInv
    BY InitFound
  <1>2. HeldNow = {} /\ HeldNow = Held(Kept)
    BY DEF Init, HeldNow, Held, Kept
  <1>3. Lists([m \in {} |-> 0], 0, {})
    BY DEF Lists
  <1>4. Current = [m \in 1 .. 0 |-> Content(entries[[m_1 \in {} |-> 0][m]])]
    BY <1>1, <1>2, <1>3, HeldTyped, ListedContents
  <1>5. Current = <<>>
    BY <1>4
  <1>. QED  BY <1>5 DEF Init, Abstract!Init

HeldOK == /\ HeldNow \in SUBSET Nat
          /\ HeldNow = Held(Kept)
          /\ Current = Contents(Kept)

LEMMA HeldIsOK == FoundInv => HeldOK
  BY HeldTyped DEF HeldOK, HeldNow

LEMMA HeldStaysOK == FoundInv' => HeldOK'
  BY HeldIsOK, PTL

(* The abstract map before and after a step, by listings.                  *)
LEMMA Views ==
  ASSUME FoundInv, FoundInv', NEW n, NEW e, Lists(e, n, HeldNow), NEW m, NEW d, Lists(d, m, HeldNow')
  PROVE  /\ Current = [i \in 1 .. n |-> Content(entries[e[i]])]
         /\ Current' = [i \in 1 .. m |-> Content(entries'[d[i]])]
  <1>1. Current = [i \in 1 .. n |-> Content(entries[e[i]])]
    BY HeldTyped, ListedContents DEF HeldNow
  <1>2. /\ HeldNow' \in SUBSET Nat /\ Current' = Contents(Kept)' /\ HeldNow' = Held(Kept)'
    BY HeldStaysOK DEF HeldOK
  <1>3. Contents(Kept)' = [i \in 1 .. m |-> Content(entries'[d[i]])]
    <2>1. /\ Cardinality(Held(Kept)') = m /\ \A i \in 1 .. m : Nth(Held(Kept)', i) = d[i]
      BY <1>2, ListedPlaces
    <2>2. Contents(Kept)' = [i \in 1 .. m |-> [key |-> entries'[Nth(Held(Kept)', i)].key,
                                               value |-> entries'[Nth(Held(Kept)', i)].value]]
      BY <2>1 DEF Contents, Nth
    <2>. QED  BY <2>1, <2>2 DEF Content
  <1>. QED  BY <1>1, <1>2, <1>3

LEMMA ListingFacts ==
  ASSUME FoundInv, NEW n, NEW e, Lists(e, n, HeldNow)
  PROVE  /\ n \in Nat
         /\ \A m \in 1 .. n : /\ e[m] \in HeldNow /\ e[m] \in 0 .. used - 1
                              /\ entries[e[m]].live /\ entries[e[m]].key # NoValue
         /\ \A i \in HeldNow : \E m \in 1 .. n : e[m] = i
         /\ \A m, l \in 1 .. n : m < l => e[m] < e[l]
         /\ \A m, l \in 1 .. n : e[m] = e[l] => m = l
  <1>1. /\ n \in Nat
        /\ \A m \in 1 .. n : e[m] \in HeldNow
        /\ \A i \in HeldNow : \E m \in 1 .. n : e[m] = i
        /\ \A m, l \in 1 .. n : m < l => e[m] < e[l]
    BY DEF Lists
  <1>2. \A i \in HeldNow : i \in 0 .. used - 1 /\ entries[i].live /\ entries[i].key # NoValue
    BY HeldTyped
  <1>3. ASSUME NEW m \in 1 .. n, NEW l \in 1 .. n, e[m] = e[l] PROVE m = l
    <2>1. used \in Nat /\ e[m] \in 0 .. used - 1
      BY <1>1, <1>2 DEF FoundInv, IInv, TypeOK
    <2>. QED  BY <1>1, <1>3, <2>1
  <1>. QED  BY <1>1, <1>2, <1>3

LEMMA SameView ==
  ASSUME FoundInv, FoundInv', HeldNow' = HeldNow,
         \A i \in HeldNow : Content(entries'[i]) = Content(entries[i]),
         NEW n, NEW e, Lists(e, n, HeldNow)
  PROVE  Lists(e, n, HeldNow') /\ Current' = Current
  <1>1. Lists(e, n, HeldNow')
    OBVIOUS
  <1>2. /\ Current = [i \in 1 .. n |-> Content(entries[e[i]])]
        /\ Current' = [i \in 1 .. n |-> Content(entries'[e[i]])]
    BY <1>1, Views
  <1>. QED  BY <1>1, <1>2, ListingFacts

(* In a map that no loop has taken, what is live is held.                  *)
LEMMA LiveIsHeld ==
  ASSUME FoundInv, pc # "taking"
  PROVE  HeldNow = {i \in Kept : entries[i].live}
  BY NoValueAssumption DEF HeldNow, Held, FoundInv, KeysOK

(* The place of a key in the abstract map.                                 *)
LEMMA PlaceOf ==
  ASSUME FoundInv, pc # "taking", NEW n, NEW e, Lists(e, n, HeldNow), NEW m \in 1 .. n
  PROVE  /\ Abstract!Holds(entries[e[m]].key)
         /\ Abstract!Place(entries[e[m]].key) = m
         /\ Current[m] = Content(entries[e[m]])
  <1>1. Current = [i \in 1 .. n |-> Content(entries[e[i]])]
    BY HeldTyped, ListedContents DEF HeldNow
  <1>2. \A i \in 1 .. n : Current[i] = Content(entries[e[i]]) /\ Current[i].key = entries[e[i]].key
    BY <1>1 DEF Content
  <1>3. DOMAIN Current = 1 .. n
    BY <1>1
  <1>4. ASSUME NEW i \in 1 .. n, Current[i].key = entries[e[m]].key PROVE i = m
    <2>1. e[i] \in Kept /\ e[m] \in Kept /\ entries[e[i]].live /\ entries[e[m]].live
      BY ListingFacts, LiveIsHeld
    <2>2. e[i] = e[m]
      BY <1>2, <1>4, <2>1 DEF FoundInv, KeysOK
    <2>. QED  BY <2>2, ListingFacts
  <1>5. Abstract!Holds(entries[e[m]].key)
    BY <1>2, <1>3 DEF Abstract!Holds
  <1>6. Abstract!Place(entries[e[m]].key) = m
    BY <1>2, <1>3, <1>4, Zenon DEF Abstract!Place
  <1>. QED  BY <1>2, <1>5, <1>6

(* A key that no live entry has is not held.                               *)
LEMMA NoPlace ==
  ASSUME FoundInv, pc # "taking", NEW n, NEW e, Lists(e, n, HeldNow), NEW k,
         \A i \in Kept : entries[i].live => entries[i].key # k
  PROVE  ~ Abstract!Holds(k)
  <1>1. Current = [i \in 1 .. n |-> Content(entries[e[i]])]
    BY HeldTyped, ListedContents DEF HeldNow
  <1>2. \A i \in 1 .. n : Current[i].key = entries[e[i]].key /\ entries[e[i]].key # k
    BY <1>1, ListingFacts, LiveIsHeld DEF Content
  <1>. QED  BY <1>1, <1>2 DEF Abstract!Holds

(* A sequence given by its places.                                         *)
LEMMA GivenByPlaces ==
  ASSUME NEW n \in Nat, NEW s, NEW S, s \in [1 .. n -> S]
  PROVE  s \in Seq(S) /\ Len(s) = n
  <1>1. s \in Seq(S)
    BY SeqDef
  <1>2. DOMAIN s = 1 .. n /\ DOMAIN s = 1 .. Len(s) /\ Len(s) \in Nat
    BY <1>1, LenProperties
  <1>. QED  BY <1>1, <1>2

LEMMA CurrentSeq ==
  ASSUME FoundInv, NEW n, NEW e, Lists(e, n, HeldNow)
  PROVE  /\ n \in Nat
         /\ Current \in Seq({Content(entries[i]) : i \in HeldNow}) /\ Len(Current) = n
         /\ \A m \in 1 .. n : Current[m] = Content(entries[e[m]])
  <1>1. Current = [i \in 1 .. n |-> Content(entries[e[i]])]
    BY HeldTyped, ListedContents DEF HeldNow
  <1>2. n \in Nat /\ \A m \in 1 .. n : e[m] \in HeldNow
    BY ListingFacts
  <1>3. Current \in [1 .. n -> {Content(entries[i]) : i \in HeldNow}]
    BY <1>1, <1>2
  <1>. QED  BY <1>1, <1>2, <1>3, GivenByPlaces

Entered(k, v) == [key |-> k, value |-> v]

LEMMA AddEntryOrder ==
  ASSUME FoundInv, FoundInv', NEW k \in Keys, NEW v \in Values, AddEntry(k, v),
         pc \in {"ready", "placing"}, pc' = "ready",
         \A i \in Kept : entries[i].live => entries[i].key # k,
         NEW n, NEW e, Lists(e, n, HeldNow)
  PROVE  /\ \E m \in Nat : \E d : Lists(d, m, HeldNow')
         /\ Abstract!Insert(k, v)
  <1>1. /\ \A i \in 0 .. used - 1 : entries'[i] = entries[i]
        /\ entries'[used] = [key |-> k, value |-> v, live |-> TRUE]
        /\ used' = used + 1 /\ used \in Nat
    BY DEF AddEntry, FoundInv, IInv, TypeOK
  <1>2. Kept = 0 .. used - 1 /\ Kept' = 0 .. used' - 1
    BY DEF Kept
  <1>3. HeldNow' = HeldNow \cup {used}
    <2>1. k # NoValue
      BY NoValueAssumption
    <2>2. Kept' = Kept \cup {used}
      BY <1>1, <1>2
    <2>3. \A i \in Kept : entries'[i] = entries[i]
      BY <1>1, <1>2
    <2>. QED  BY <1>1, <2>1, <2>2, <2>3 DEF HeldNow, Held
  <1>. DEFINE d == [m \in 1 .. n + 1 |-> IF m = n + 1 THEN used ELSE e[m]]
  <1>4. /\ n \in Nat
        /\ \A m \in 1 .. n : e[m] \in HeldNow /\ e[m] \in 0 .. used - 1
        /\ \A i \in HeldNow : \E m \in 1 .. n : e[m] = i
        /\ \A m, l \in 1 .. n : m < l => e[m] < e[l]
    BY ListingFacts
  <1>5. Lists(d, n + 1, HeldNow')
    <2>1. \A m \in 1 .. n + 1 : d[m] \in HeldNow'
      BY <1>3, <1>4
    <2>2. ASSUME NEW i \in HeldNow' PROVE \E m \in 1 .. n + 1 : d[m] = i
      <3>1. CASE i = used
        BY <1>4, <3>1
      <3>2. CASE i \in HeldNow
        <4>1. PICK m \in 1 .. n : e[m] = i
          BY <1>4, <3>2
        <4>. QED  BY <1>4, <4>1
      <3>. QED  BY <1>3, <3>1, <3>2
    <2>3. ASSUME NEW m \in 1 .. n + 1, NEW l \in 1 .. n + 1, m < l PROVE d[m] < d[l]
      <3>1. m \in 1 .. n /\ d[m] = e[m]
        BY <1>4, <2>3
      <3>2. CASE l = n + 1
        BY <1>1, <1>4, <3>1, <3>2
      <3>3. CASE l # n + 1
        BY <1>4, <2>3, <3>1, <3>3
      <3>. QED  BY <3>2, <3>3
    <2>. QED  BY <1>4, <2>1, <2>2, <2>3 DEF Lists
  <1>. HIDE DEF d
  <1>6. Current' = [m \in 1 .. n + 1 |-> Content(entries'[d[m]])]
    BY <1>5, Views
  <1>7. Current' = Append(Current, Entered(k, v))
    <2>1. /\ Current \in Seq({Content(entries[i]) : i \in HeldNow}) /\ Len(Current) = n
          /\ \A m \in 1 .. n : Current[m] = Content(entries[e[m]])
      BY CurrentSeq
    <2>2. \A m \in 1 .. n + 1 : Current'[m] = IF m = n + 1 THEN Entered(k, v) ELSE Current[m]
      <3>. SUFFICES ASSUME NEW m \in 1 .. n + 1
                    PROVE  Content(entries'[d[m]]) = IF m = n + 1 THEN Entered(k, v) ELSE Current[m]
        BY <1>6
      <3>1. CASE m = n + 1
        BY <1>1, <1>4, <3>1 DEF d, Content, Entered
      <3>2. CASE m # n + 1
        <4>1. m \in 1 .. n /\ d[m] = e[m]
          BY <1>4, <3>2 DEF d
        <4>. QED  BY <1>1, <1>4, <2>1, <3>2, <4>1
      <3>. QED  BY <3>1, <3>2
    <2>. DEFINE S == {Content(entries[i]) : i \in HeldNow} \cup {Entered(k, v)}
    <2>3. /\ Append(Current, Entered(k, v)) \in Seq(S) /\ Len(Append(Current, Entered(k, v))) = n + 1
          /\ \A m \in 1 .. n + 1 :
               Append(Current, Entered(k, v))[m] = IF m = n + 1 THEN Entered(k, v) ELSE Current[m]
      <3>1. Current \in Seq(S)
        BY <2>1, SeqMonotonic
      <3>. HIDE DEF S
      <3>2. Entered(k, v) \in S
        BY DEF S
      <3>. QED  BY <1>4, <2>1, <3>1, <3>2, AppendProperties
    <2>4. Current' \in [1 .. n + 1 -> S]
      <3>1. \A m \in 1 .. n : Current[m] \in S
        BY <1>4, <2>1
      <3>2. \A m \in 1 .. n + 1 : Current'[m] \in S
        <4>. HIDE DEF S
        <4>1. Entered(k, v) \in S
          BY DEF S
        <4>. QED  BY <1>4, <2>2, <3>1, <4>1
      <3>. HIDE DEF S
      <3>. QED  BY <1>6, <3>2
    <2>. HIDE DEF S
    <2>5. Current' \in Seq(S) /\ Len(Current') = n + 1
      BY <1>4, <2>4, GivenByPlaces
    <2>. QED  BY <2>2, <2>3, <2>5, SeqEqual
  <1>8. ~ Abstract!Holds(k)
    BY NoPlace
  <1>9. answer' = <<"insert", k, NoValue>> /\ pc # "taking" /\ pc' # "taking"
    BY DEF AddEntry
  <1>10. Abstract!Insert(k, v)
    BY <1>7, <1>8, <1>9 DEF Abstract!Insert, Entered
  <1>11. n + 1 \in Nat
    BY <1>4
  <1>. QED  BY <1>5, <1>10, <1>11

LEMMA RemoveOrder ==
  ASSUME FoundInv, FoundInv', NEW k \in Keys, Remove(k), NEW n, NEW e, Lists(e, n, HeldNow)
  PROVE  /\ \E m \in Nat : \E d : Lists(d, m, HeldNow')
         /\ Abstract!Remove(k)
  <1>1. /\ pc = "ready" /\ pc' = "ready" /\ used' = used /\ used \in Nat
        /\ Kept = 0 .. used - 1 /\ Kept' = Kept
    BY DEF Remove, control, Kept, FoundInv, IInv, TypeOK
  <1>2. CASE ~ (Find(k) >= 0)
    <2>1. entries' = entries /\ answer' = <<"remove", k, NoValue>>
      BY <1>2 DEF Remove
    <2>2. HeldNow' = HeldNow
      BY <1>1, <2>1 DEF HeldNow, Held
    <2>3. Lists(e, n, HeldNow') /\ Current' = Current /\ n \in Nat
      BY <2>1, <2>2, SameView, ListingFacts
    <2>4. \A i \in Kept : entries[i].live => entries[i].key # k
      <3>. SUFFICES ASSUME NEW i \in Kept, entries[i].live, entries[i].key = k PROVE FALSE
        OBVIOUS
      <3>1. i \in LivePositions
        BY <1>1 DEF LivePositions
      <3>2. Find(k) = i
        BY <1>1, <3>1, ReachedIsFound
      <3>. QED  BY <1>1, <1>2, <3>2
    <2>5. ~ Abstract!Holds(k)
      BY <1>1, <2>4, NoPlace
    <2>6. Abstract!Remove(k)
      BY <1>1, <2>1, <2>3, <2>5 DEF Abstract!Remove
    <2>. QED  BY <2>3, <2>6
  <1>3. CASE Find(k) >= 0
    <2>. DEFINE p == Find(k)
    <2>1. p \in LivePositions /\ entries[p].key = k
      BY <1>1, <1>3, FindSound DEF FoundInv
    <2>2. /\ answer' = <<"remove", k, entries[p].value>>
          /\ entries' = [entries EXCEPT ![p] = NoEntry]
      BY <1>3 DEF Remove
    <2>. HIDE DEF p
    <2>3. p \in HeldNow /\ p \in 0 .. used - 1
      BY <1>1, <2>1, LiveIsHeld DEF LivePositions
    <2>4. HeldNow' = HeldNow \ {p} /\ \A i \in HeldNow \ {p} : entries'[i] = entries[i]
      <3>1. \A i \in 0 .. used - 1 : entries'[i] = IF i = p THEN NoEntry ELSE entries[i]
        BY <2>2, <2>3 DEF FoundInv, IInv, TypeOK
      <3>. QED  BY <1>1, <3>1 DEF HeldNow, Held, NoEntry
    <2>5. /\ n \in Nat
          /\ \A m \in 1 .. n : e[m] \in HeldNow /\ e[m] \in 0 .. used - 1
          /\ \A i \in HeldNow : \E m \in 1 .. n : e[m] = i
          /\ \A m, l \in 1 .. n : m < l => e[m] < e[l]
          /\ \A m, l \in 1 .. n : e[m] = e[l] => m = l
      BY ListingFacts
    <2>6. PICK q \in 1 .. n : e[q] = p
      BY <2>3, <2>5
    <2>. DEFINE d == [m \in 1 .. n - 1 |-> IF m < q THEN e[m] ELSE e[m + 1]]
    <2>7. Lists(d, n - 1, HeldNow')
      <3>1. n - 1 \in Nat
        BY <2>5, <2>6
      <3>2. \A m \in 1 .. n - 1 : d[m] \in HeldNow'
        <4>. SUFFICES ASSUME NEW m \in 1 .. n - 1 PROVE d[m] \in HeldNow'
          OBVIOUS
        <4>1. m \in 1 .. n /\ m + 1 \in 1 .. n
          BY <2>5
        <4>2. CASE m < q
          BY <2>4, <2>5, <2>6, <4>1, <4>2
        <4>3. CASE ~ (m < q)
          BY <2>4, <2>5, <2>6, <4>1, <4>3
        <4>. QED  BY <4>2, <4>3
      <3>3. ASSUME NEW i \in HeldNow' PROVE \E m \in 1 .. n - 1 : d[m] = i
        <4>1. PICK l \in 1 .. n : e[l] = i
          BY <2>4, <2>5, <3>3
        <4>2. l # q
          BY <2>4, <2>6, <3>3, <4>1
        <4>3. CASE l < q
          <5>1. l \in 1 .. n - 1 /\ d[l] = i
            BY <2>5, <4>1, <4>3
          <5>. QED  BY <5>1
        <4>4. CASE l > q
          <5>1. l - 1 \in 1 .. n - 1 /\ ~ (l - 1 < q) /\ (l - 1) + 1 = l
            BY <2>5, <4>4
          <5>2. d[l - 1] = e[(l - 1) + 1]
            BY <5>1
          <5>. QED  BY <4>1, <5>1, <5>2
        <4>. QED  BY <4>2, <4>3, <4>4
      <3>4. ASSUME NEW m \in 1 .. n - 1, NEW l \in 1 .. n - 1, m < l PROVE d[m] < d[l]
        <4>1. m \in 1 .. n /\ m + 1 \in 1 .. n /\ l \in 1 .. n /\ l + 1 \in 1 .. n
          BY <2>5
        <4>2. CASE l < q
          BY <2>5, <3>4, <4>1, <4>2
        <4>3. CASE ~ (l < q)
          <5>1. (m < l + 1 => e[m] < e[l + 1]) /\ (m + 1 < l + 1 => e[m + 1] < e[l + 1])
            BY <2>5, <4>1
          <5>. QED  BY <3>4, <4>1, <4>3, <5>1
        <4>. QED  BY <4>2, <4>3
      <3>. QED  BY <3>1, <3>2, <3>3, <3>4 DEF Lists
    <2>. HIDE DEF d
    <2>8. Current' = [m \in 1 .. n - 1 |-> Content(entries'[d[m]])]
      BY <2>7, Views
    <2>9. /\ Current \in Seq({Content(entries[i]) : i \in HeldNow}) /\ Len(Current) = n
          /\ \A m \in 1 .. n : Current[m] = Content(entries[e[m]])
      BY CurrentSeq
    <2>10. \A m \in 1 .. n - 1 : Current'[m] = IF m < q THEN Current[m] ELSE Current[m + 1]
      <3>. SUFFICES ASSUME NEW m \in 1 .. n - 1
                    PROVE  Content(entries'[d[m]]) = IF m < q THEN Current[m] ELSE Current[m + 1]
        BY <2>8
      <3>1. d[m] \in HeldNow \ {p}
        BY <2>4, <2>7 DEF Lists
      <3>2. m \in 1 .. n /\ m + 1 \in 1 .. n
        BY <2>5
      <3>. QED  BY <2>4, <2>9, <3>1, <3>2 DEF d
    <2>11. Current' = SubSeq(Current, 1, q - 1) \o SubSeq(Current, q + 1, Len(Current))
      <3>. DEFINE S == {Content(entries[i]) : i \in HeldNow}
      <3>. HIDE DEF S
      <3>0. /\ Current \in Seq(S) /\ \A m \in 1 .. n : Current[m] \in S
            /\ n \in Nat /\ q \in 1 .. n
        BY <2>5, <2>6, <2>9 DEF S
      <3>. DEFINE a == SubSeq(Current, 1, q - 1)
                  b == SubSeq(Current, q + 1, n)
      <3>1. a \in Seq(S) /\ Len(a) = q - 1 /\ \A m \in 1 .. q - 1 : a[m] = Current[m]
        <4>1. 1 \in Int /\ q - 1 \in Int /\ \A m \in 1 .. q - 1 : Current[m] \in S
          BY <3>0
        <4>. QED  BY <3>0, <4>1, SubSeqProperties
      <3>2. b \in Seq(S) /\ Len(b) = n - q /\ \A m \in 1 .. n - q : b[m] = Current[m + q]
        <4>1. q + 1 \in Int /\ n \in Int /\ \A m \in q + 1 .. n : Current[m] \in S
          BY <3>0
        <4>. QED  BY <3>0, <4>1, SubSeqProperties
      <3>. HIDE DEF a, b
      <3>3. /\ a \o b \in Seq(S) /\ Len(a \o b) = n - 1
            /\ \A m \in 1 .. n - 1 : (a \o b)[m] = IF m < q THEN Current[m] ELSE Current[m + 1]
        <4>1. /\ a \o b \in Seq(S) /\ Len(a \o b) = Len(a) + Len(b)
              /\ \A m \in 1 .. Len(a) + Len(b) : (a \o b)[m] = IF m <= Len(a) THEN a[m] ELSE b[m - Len(a)]
          BY <3>1, <3>2, ConcatProperties
        <4>2. Len(a) + Len(b) = n - 1
          BY <3>0, <3>1, <3>2
        <4>3. ASSUME NEW m \in 1 .. n - 1
              PROVE  (IF m <= Len(a) THEN a[m] ELSE b[m - Len(a)]) = IF m < q THEN Current[m] ELSE Current[m + 1]
          <5>1. CASE m < q
            BY <3>0, <3>1, <5>1
          <5>2. CASE ~ (m < q)
            <6>1. m - (q - 1) \in 1 .. n - q /\ m - (q - 1) + q = m + 1 /\ ~ (m <= q - 1)
              BY <3>0, <5>2
            <6>. QED  BY <3>1, <3>2, <5>2, <6>1
          <5>. QED  BY <5>1, <5>2
        <4>. QED  BY <4>1, <4>2, <4>3
      <3>4. Current' \in Seq(S) /\ Len(Current') = n - 1
        <4>1. n - 1 \in Nat /\ \A m \in 1 .. n - 1 : m \in 1 .. n /\ m + 1 \in 1 .. n
          BY <3>0
        <4>2. \A m \in 1 .. n - 1 : Current'[m] \in S
          BY <2>10, <3>0, <4>1
        <4>3. Current' \in [1 .. n - 1 -> S]
          BY <2>8, <4>2
        <4>. QED  BY <4>1, <4>3, GivenByPlaces
      <3>5. Current' = a \o b
        BY <2>10, <3>3, <3>4, SeqEqual
      <3>. QED  BY <2>9, <3>5 DEF a, b
    <2>12. /\ Abstract!Holds(k) /\ Abstract!Place(k) = q /\ Current[q].value = entries[p].value
      <3>1. pc # "taking" /\ entries[e[q]].key = k
        BY <1>1, <2>1, <2>6
      <3>2. Abstract!Holds(entries[e[q]].key) /\ Abstract!Place(entries[e[q]].key) = q
            /\ Current[q] = Content(entries[e[q]])
        BY <3>1, PlaceOf
      <3>. QED  BY <2>6, <3>1, <3>2 DEF Content
    <2>13. Abstract!Remove(k)
      BY <1>1, <2>2, <2>11, <2>12 DEF Abstract!Remove, Abstract!Without
    <2>14. n - 1 \in Nat
      BY <2>5, <2>6
    <2>. QED  BY <2>7, <2>13, <2>14
  <1>. QED  BY <1>2, <1>3

LEMMA PresentOrder ==
  ASSUME FoundInv, FoundInv', NEW k \in Keys, NEW v \in Values, InsertPresent(k, v),
         NEW n, NEW e, Lists(e, n, HeldNow)
  PROVE  Lists(e, n, HeldNow') /\ Abstract!Insert(k, v)
  <1>. DEFINE p == Find(k)
  <1>1. /\ pc = "ready" /\ pc' = "ready" /\ used' = used /\ Kept' = Kept /\ p >= 0
        /\ answer' = <<"insert", k, entries[p].value>>
        /\ entries' = [entries EXCEPT ![p].value = v]
    BY DEF InsertPresent, control, Kept
  <1>2. p \in HeldNow /\ p \in 0 .. used - 1 /\ entries[p].key = k
    BY <1>1, FindSound, LiveIsHeld DEF LivePositions, Kept, FoundInv
  <1>. HIDE DEF p
  <1>3. \A i \in 0 .. used - 1 :
           /\ entries'[i].live = entries[i].live /\ entries'[i].key = entries[i].key
           /\ entries'[i].value = IF i = p THEN v ELSE entries[i].value
    BY <1>1, <1>2 DEF FoundInv, IInv, TypeOK, Entry
  <1>4. HeldNow' = HeldNow
    <2>1. Kept \in SUBSET (0 .. used - 1)
      BY <1>1 DEF Kept
    <2>. QED  BY <1>1, <1>3, <2>1 DEF HeldNow, Held
  <1>5. PICK q \in 1 .. n : e[q] = p
    BY <1>2, ListingFacts
  <1>6. /\ n \in Nat
        /\ \A m \in 1 .. n : e[m] \in 0 .. used - 1
        /\ \A m, l \in 1 .. n : e[m] = e[l] => m = l
    BY ListingFacts
  <1>7. /\ Current = [i \in 1 .. n |-> Content(entries[e[i]])]
        /\ Current' = [i \in 1 .. n |-> Content(entries'[e[i]])]
    BY <1>4, Views
  <1>8. Current' = [Current EXCEPT ![q].value = v]
    <2>1. \A i \in 1 .. n : Current'[i] = IF i = q THEN [Current[q] EXCEPT !.value = v] ELSE Current[i]
      <3>. SUFFICES ASSUME NEW i \in 1 .. n
                    PROVE  Content(entries'[e[i]]) = IF i = q THEN [Content(entries[e[q]]) EXCEPT !.value = v]
                                                              ELSE Content(entries[e[i]])
        BY <1>7
      <3>1. /\ entries'[e[i]].key = entries[e[i]].key
            /\ entries'[e[i]].value = IF i = q THEN v ELSE entries[e[i]].value
        BY <1>3, <1>5, <1>6
      <3>. QED  BY <3>1 DEF Content
    <2>. QED  BY <1>7, <2>1
  <1>9. Abstract!Holds(k) /\ Abstract!Place(k) = q /\ Current[q].value = entries[p].value
    <2>1. Abstract!Holds(entries[e[q]].key) /\ Abstract!Place(entries[e[q]].key) = q
          /\ Current[q] = Content(entries[e[q]])
      BY <1>1, PlaceOf
    <2>. QED  BY <1>2, <1>5, <2>1 DEF Content
  <1>10. Abstract!Insert(k, v)
    BY <1>1, <1>8, <1>9 DEF Abstract!Insert
  <1>. QED  BY <1>4, <1>10

LEMMA GetOrder ==
  ASSUME FoundInv, FoundInv', NEW k \in Keys, Get(k), NEW n, NEW e, Lists(e, n, HeldNow)
  PROVE  Lists(e, n, HeldNow') /\ Abstract!Get(k)
  <1>1. /\ pc = "ready" /\ pc' = "ready" /\ used' = used /\ entries' = entries /\ Kept = 0 .. used - 1
        /\ Kept' = Kept
        /\ answer' = <<"get", k, IF Find(k) >= 0 THEN entries[Find(k)].value ELSE NoValue>>
    BY DEF Get, control, storage, Kept
  <1>2. HeldNow' = HeldNow
    BY <1>1 DEF HeldNow, Held
  <1>3. Lists(e, n, HeldNow') /\ Current' = Current
    BY <1>1, <1>2, SameView
  <1>4. CASE Find(k) >= 0
    <2>1. Find(k) \in HeldNow /\ entries[Find(k)].key = k
      BY <1>1, <1>4, FindSound, LiveIsHeld DEF LivePositions, Kept, FoundInv
    <2>2. PICK q \in 1 .. n : e[q] = Find(k)
      BY <2>1, ListingFacts
    <2>3. Abstract!Holds(entries[e[q]].key) /\ Abstract!Place(entries[e[q]].key) = q
          /\ Current[q] = Content(entries[e[q]])
      BY <1>1, PlaceOf
    <2>4. Abstract!Holds(k) /\ Current[Abstract!Place(k)].value = entries[Find(k)].value
      BY <2>1, <2>2, <2>3 DEF Content
    <2>. QED  BY <1>1, <1>3, <1>4, <2>4 DEF Abstract!Get
  <1>5. CASE ~ (Find(k) >= 0)
    <2>1. \A i \in Kept : entries[i].live => entries[i].key # k
      <3>. SUFFICES ASSUME NEW i \in Kept, entries[i].live, entries[i].key = k PROVE FALSE
        OBVIOUS
      <3>1. i \in LivePositions
        BY <1>1 DEF LivePositions
      <3>2. Find(k) = i /\ i \in 0 .. used - 1 /\ used \in Nat
        BY <1>1, <3>1, ReachedIsFound DEF FoundInv, IInv, TypeOK
      <3>. QED  BY <1>5, <3>2
    <2>2. ~ Abstract!Holds(k)
      BY <1>1, <2>1, NoPlace
    <2>. QED  BY <1>1, <1>3, <1>5, <2>2 DEF Abstract!Get
  <1>. QED  BY <1>4, <1>5

(* Clearing or releasing the map gives back what it held, in order.        *)
LEMMA EmptyOrder ==
  ASSUME FoundInv, FoundInv', Clear \/ Release
  PROVE  /\ \E m \in Nat : \E d : Lists(d, m, HeldNow')
         /\ Abstract!Clear \/ Abstract!Release
  <1>1. /\ used' = 0 /\ pc' = "ready" /\ pc \in {"ready", "taking"}
        /\ answer' = <<"released", Contents(0 .. used - 1)>>
    <2>1. CASE Clear
      BY <2>1 DEF Clear, control
    <2>2. CASE Release
      BY <2>2 DEF Release
    <2>. QED  BY <2>1, <2>2
  <1>2. Kept = 0 .. used - 1 /\ HeldNow' = {}
    BY <1>1 DEF Kept, HeldNow, Held
  <1>. DEFINE d == [m \in {} |-> 0]
  <1>3. Lists(d, 0, HeldNow')
    BY <1>2 DEF Lists
  <1>4. Current' = <<>>
    <2>1. HeldNow' \in SUBSET Nat /\ Current' = Contents(Kept)' /\ HeldNow' = Held(Kept)'
      BY HeldStaysOK DEF HeldOK
    <2>2. Cardinality(Held(Kept)') = 0
      BY <1>2, <2>1, FS_EmptySet
    <2>3. Contents(Kept)' = [i \in 1 .. 0 |-> [key |-> entries'[Nth(Held(Kept)', i)].key,
                                               value |-> entries'[Nth(Held(Kept)', i)].value]]
      BY <2>2 DEF Contents, Nth
    <2>. QED  BY <2>1, <2>3
  <1>5. answer' = <<"released", Current>>
    BY <1>1, <1>2, HeldTyped
  <1>6. CASE Clear
    <2>1. pc = "ready"
      BY <1>6 DEF Clear
    <2>2. Abstract!Clear
      BY <1>1, <1>4, <1>5, <2>1 DEF Abstract!Clear
    <2>. QED  BY <1>3, <2>2
  <1>7. CASE Release
    <2>1. Abstract!Release
      BY <1>1, <1>4, <1>5 DEF Abstract!Release
    <2>. QED  BY <1>3, <2>1
  <1>. QED  BY <1>6, <1>7

LEMMA BeginOrder ==
  ASSUME FoundInv, FoundInv', BeginTake, NEW n, NEW e, Lists(e, n, HeldNow)
  PROVE  Lists(e, n, HeldNow') /\ Abstract!BeginTake
  <1>1. /\ pc = "ready" /\ pc' = "taking" /\ used' = used /\ entries' = entries /\ answer' = answer
        /\ Kept' = Kept
    BY DEF BeginTake, storage, Kept
  <1>2. HeldNow' = HeldNow
    BY <1>1 DEF HeldNow, Held
  <1>3. Lists(e, n, HeldNow') /\ Current' = Current
    BY <1>1, <1>2, SameView
  <1>. QED  BY <1>1, <1>3 DEF Abstract!BeginTake

(* The first entry that a loop has not taken is the first held.            *)
LEMMA TakeOrder ==
  ASSUME OrderInv, FoundInv', TakeNext, NEW n, NEW e, Lists(e, n, HeldNow)
  PROVE  /\ \E m \in Nat : \E d : Lists(d, m, HeldNow')
         /\ Abstract!TakeFirst \/ UNCHANGED Abstract!vars
  <1>0. FoundInv
    BY DEF OrderInv
  <1>1. /\ pc = "taking" /\ pc' = "taking" /\ used' = used /\ from < used
        /\ Kept = 0 .. used - 1 /\ Kept' = Kept /\ from \in Nat /\ used \in Nat
        /\ entries \in [0 .. used - 1 -> Entry]
    BY <1>0 DEF TakeNext, Kept, FoundInv, IInv, TypeOK
  <1>2. \A i \in HeldNow : i \in 0 .. used - 1 /\ from <= i
    <2>. SUFFICES ASSUME NEW i \in HeldNow PROVE i \in 0 .. used - 1 /\ from <= i
      OBVIOUS
    <2>1. i \in 0 .. used - 1 /\ entries[i].live /\ entries[i].key # NoValue
      BY <1>0, HeldTyped
    <2>. QED  BY <1>1, <2>1 DEF OrderInv
  <1>3. CASE ~ entries[from].live
    <2>1. entries' = entries /\ answer' = answer
      BY <1>3 DEF TakeNext
    <2>2. HeldNow' = HeldNow
      BY <1>1, <2>1 DEF HeldNow, Held
    <2>3. Lists(e, n, HeldNow') /\ Current' = Current /\ n \in Nat
      BY <1>0, <2>1, <2>2, SameView, ListingFacts
    <2>. QED  BY <1>1, <2>1, <2>3 DEF Abstract!vars
  <1>4. CASE entries[from].live
    <2>1. /\ answer' = <<"taken", Content(entries[from])>>
          /\ entries' = [entries EXCEPT ![from].key = NoValue, ![from].value = NoValue]
      BY <1>4 DEF TakeNext, Content
    <2>2. entries[from].key # NoValue
      <3>1. entries[from].key \in Keys
        BY <1>1, <1>4 DEF OrderInv
      <3>. QED  BY <3>1, NoValueAssumption
    <2>3. from \in HeldNow
      BY <1>1, <1>4, <2>2 DEF HeldNow, Held
    <2>4. /\ \A i \in 0 .. used - 1 : i # from => entries'[i] = entries[i]
          /\ entries'[from].key = NoValue
      BY <1>1, <2>1 DEF Entry
    <2>5. HeldNow' = HeldNow \ {from}
      BY <1>1, <2>4 DEF HeldNow, Held
    <2>6. /\ n \in Nat
          /\ \A m \in 1 .. n : e[m] \in HeldNow /\ e[m] \in 0 .. used - 1
          /\ \A i \in HeldNow : \E m \in 1 .. n : e[m] = i
          /\ \A m, l \in 1 .. n : m < l => e[m] < e[l]
          /\ \A m, l \in 1 .. n : e[m] = e[l] => m = l
      BY <1>0, ListingFacts
    <2>7. n >= 1 /\ e[1] = from
      <3>1. PICK q \in 1 .. n : e[q] = from
        BY <2>3, <2>6
      <3>2. 1 \in 1 .. n /\ (1 < q => e[1] < e[q])
        BY <2>6, <3>1
      <3>3. e[1] >= from /\ e[1] \in Int
        BY <1>2, <2>6, <3>2, <1>1
      <3>. QED  BY <1>1, <2>6, <3>1, <3>2, <3>3
    <2>. DEFINE d == [m \in 1 .. n - 1 |-> e[m + 1]]
    <2>8. Lists(d, n - 1, HeldNow')
      <3>1. n - 1 \in Nat /\ \A m \in 1 .. n - 1 : m + 1 \in 1 .. n /\ m + 1 # 1
        BY <2>6, <2>7
      <3>2. \A m \in 1 .. n - 1 : d[m] \in HeldNow'
        <4>. SUFFICES ASSUME NEW m \in 1 .. n - 1 PROVE d[m] \in HeldNow'
          OBVIOUS
        <4>1. e[m + 1] \in HeldNow /\ e[m + 1] # from
          BY <2>6, <2>7, <3>1
        <4>. QED  BY <2>5, <4>1
      <3>3. ASSUME NEW i \in HeldNow' PROVE \E m \in 1 .. n - 1 : d[m] = i
        <4>1. PICK l \in 1 .. n : e[l] = i
          BY <2>5, <2>6, <3>3
        <4>2. l # 1
          BY <2>5, <2>7, <3>3, <4>1
        <4>3. l - 1 \in 1 .. n - 1 /\ (l - 1) + 1 = l
          BY <2>6, <4>2
        <4>. QED  BY <4>1, <4>3
      <3>4. \A m, l \in 1 .. n - 1 : m < l => d[m] < d[l]
        BY <2>6, <3>1
      <3>. QED  BY <3>1, <3>2, <3>3, <3>4 DEF Lists
    <2>. HIDE DEF d
    <2>9. Current' = [m \in 1 .. n - 1 |-> Content(entries'[d[m]])]
      BY <1>0, <2>8, Views
    <2>10. /\ Current \in Seq({Content(entries[i]) : i \in HeldNow}) /\ Len(Current) = n
           /\ \A m \in 1 .. n : Current[m] = Content(entries[e[m]])
      BY <1>0, CurrentSeq
    <2>11. \A m \in 1 .. n - 1 : Current'[m] = Current[m + 1]
      <3>. SUFFICES ASSUME NEW m \in 1 .. n - 1 PROVE Content(entries'[d[m]]) = Current[m + 1]
        BY <2>9
      <3>1. m + 1 \in 1 .. n /\ d[m] = e[m + 1] /\ m + 1 # 1 /\ 1 \in 1 .. n
        BY <2>6, <2>7 DEF d
      <3>2. e[m + 1] # from /\ e[m + 1] \in 0 .. used - 1
        BY <2>6, <2>7, <3>1
      <3>. QED  BY <2>4, <2>10, <3>1, <3>2
    <2>12. Current' = Tail(Current) /\ Current # <<>> /\ Head(Current) = Content(entries[from])
      <3>. DEFINE S == {Content(entries[i]) : i \in HeldNow}
      <3>. HIDE DEF S
      <3>1. Current \in Seq(S) /\ Len(Current) = n /\ n \in Nat /\ n >= 1 /\ \A m \in 1 .. n : Current[m] \in S
        BY <2>6, <2>7, <2>10 DEF S
      <3>2. Current # <<>>
        BY <3>1
      <3>3. Tail(Current) = SubSeq(Current, 2, n)
        BY <3>1, <3>2, TailIsSubSeq
      <3>4. /\ Tail(Current) \in Seq(S) /\ Len(Tail(Current)) = n - 1
            /\ \A m \in 1 .. n - 1 : Tail(Current)[m] = Current[m + 1]
        <4>1. \A m \in 2 .. n : Current[m] \in S
          BY <3>1
        <4>. QED  BY <3>1, <3>3, <4>1, SubSeqProperties
      <3>5. Current' \in Seq(S) /\ Len(Current') = n - 1
        <4>1. \A m \in 1 .. n - 1 : Current'[m] \in S
          BY <2>11, <3>1
        <4>2. n - 1 \in Nat /\ Current' \in [1 .. n - 1 -> S]
          BY <2>9, <3>1, <4>1
        <4>. QED  BY <4>2, GivenByPlaces
      <3>6. Current' = Tail(Current)
        BY <2>11, <3>4, <3>5, SeqEqual
      <3>7. Head(Current) = Current[1]
        BY <3>1, <3>2
      <3>. QED  BY <2>7, <2>10, <3>1, <3>2, <3>6, <3>7
    <2>13. Abstract!TakeFirst
      BY <1>1, <2>1, <2>12 DEF Abstract!TakeFirst
    <2>14. n - 1 \in Nat
      BY <2>6, <2>7
    <2>. QED  BY <2>8, <2>13, <2>14
  <1>. QED  BY <1>3, <1>4

(* The loops of a rebuild change nothing that the abstract map shows.      *)
LEMMA CompactOrder ==
  ASSUME FoundInv, FoundInv', Compact, NEW n, NEW e, Lists(e, n, HeldNow)
  PROVE  /\ \E m \in Nat : \E d : Lists(d, m, HeldNow')
         /\ Current' = Current
  <1>1. /\ pc = "compacting" /\ pc' = pc /\ from < used /\ from' = from + 1
        /\ used' = used /\ used \in Nat /\ from \in Nat /\ to \in Nat /\ to <= from
        /\ entries \in [0 .. used - 1 -> Entry]
        /\ Kept = (0 .. to - 1) \cup (from .. used - 1) /\ Kept' = (0 .. to' - 1) \cup (from + 1 .. used - 1)
    BY DEF Compact, Kept, FoundInv, IInv, TypeOK, CountOK
  <1>2. CASE ~ entries[from].live
    <2>1. entries' = entries /\ to' = to
      BY <1>2 DEF Compact
    <2>2. HeldNow' = HeldNow
      BY <1>1, <1>2, <2>1 DEF HeldNow, Held
    <2>. QED  BY <2>1, <2>2, SameView, ListingFacts
  <1>3. CASE entries[from].live
    <2>1. entries' = [entries EXCEPT ![to] = entries[from]] /\ to' = to + 1
      BY <1>3 DEF Compact
    <2>2. \A i \in 0 .. used - 1 : entries'[i] = IF i = to THEN entries[from] ELSE entries[i]
      BY <1>1, <2>1
    <2>3. from \in HeldNow
      <3>1. from \in Kept /\ pc # "taking"
        BY <1>1
      <3>. QED  BY <1>3, <3>1, LiveIsHeld
    <2>4. entries[from].key # NoValue
      BY <2>3, HeldTyped
    <2>5. HeldNow' = (HeldNow \ {from}) \cup {to}
      <3>1. Kept' = (Kept \ {from}) \cup {to}
        BY <1>1, <2>1
      <3>2. \A i \in Kept \ {from} : i # to /\ i \in 0 .. used - 1
        BY <1>1
      <3>3. entries'[to] = entries[from]
        BY <1>1, <2>2
      <3>. QED  BY <1>3, <2>2, <2>4, <3>1, <3>2, <3>3 DEF HeldNow, Held
    <2>6. /\ n \in Nat
          /\ \A m \in 1 .. n : e[m] \in HeldNow /\ e[m] \in 0 .. used - 1
          /\ \A i \in HeldNow : \E m \in 1 .. n : e[m] = i
          /\ \A m, l \in 1 .. n : m < l => e[m] < e[l]
      BY ListingFacts
    <2>7. \A i \in HeldNow : i < to \/ i >= from
      BY <1>1 DEF HeldNow, Held
    <2>. DEFINE d == [m \in 1 .. n |-> IF e[m] = from THEN to ELSE e[m]]
    <2>8. Lists(d, n, HeldNow')
      <3>1. \A m \in 1 .. n : d[m] \in HeldNow'
        BY <2>5, <2>6
      <3>2. ASSUME NEW i \in HeldNow' PROVE \E m \in 1 .. n : d[m] = i
        <4>1. PICK o \in HeldNow : i = IF o = from THEN to ELSE o
          BY <2>3, <2>5, <3>2
        <4>2. PICK m \in 1 .. n : e[m] = o
          BY <2>6
        <4>. QED  BY <4>1, <4>2
      <3>3. ASSUME NEW m \in 1 .. n, NEW l \in 1 .. n, m < l PROVE d[m] < d[l]
        <4>1. e[m] < e[l] /\ (e[m] < to \/ e[m] >= from) /\ (e[l] < to \/ e[l] >= from)
              /\ e[m] \in Nat /\ e[l] \in Nat
          BY <1>1, <2>6, <2>7, <3>3
        <4>. QED  BY <1>1, <4>1
      <3>. QED  BY <2>6, <3>1, <3>2, <3>3 DEF Lists
    <2>. HIDE DEF d
    <2>9. /\ Current = [i \in 1 .. n |-> Content(entries[e[i]])]
          /\ Current' = [i \in 1 .. n |-> Content(entries'[d[i]])]
      BY <2>8, Views
    <2>10. \A i \in 1 .. n : entries'[d[i]] = entries[e[i]]
      <3>. SUFFICES ASSUME NEW i \in 1 .. n PROVE entries'[d[i]] = entries[e[i]]
        OBVIOUS
      <3>1. CASE e[i] = from
        BY <1>1, <2>2, <3>1 DEF d
      <3>2. CASE e[i] # from
        <4>1. e[i] \in HeldNow /\ e[i] \in 0 .. used - 1 /\ d[i] = e[i] /\ (e[i] < to \/ e[i] >= from)
          BY <2>6, <2>7, <3>2 DEF d
        <4>2. e[i] # to
          BY <1>1, <3>2, <4>1
        <4>. QED  BY <2>2, <4>1, <4>2
      <3>. QED  BY <3>1, <3>2
    <2>. QED  BY <2>6, <2>8, <2>9, <2>10
  <1>. QED  BY <1>2, <1>3

LEMMA QuietOrder ==
  ASSUME FoundInv, FoundInv',
         \/ \E k \in Keys, v \in Values : InsertFull(k, v)
         \/ Resize \/ PlaceEntry \/ UNCHANGED vars,
         NEW n, NEW e, Lists(e, n, HeldNow)
  PROVE  Lists(e, n, HeldNow') /\ UNCHANGED Abstract!vars
  <1>. SUFFICES /\ HeldNow' = HeldNow
                /\ \A i \in HeldNow : entries'[i] = entries[i]
                /\ (pc = "taking")' = (pc = "taking") /\ answer' = answer
    BY SameView DEF Abstract!vars
  <1>1. CASE \E k \in Keys, v \in Values : InsertFull(k, v)
    <2>1. /\ pc = "ready" /\ pc' = "compacting" /\ entries' = entries /\ used' = used /\ answer' = answer
          /\ from' = 0 /\ to' = 0 /\ used \in Nat
      BY <1>1 DEF InsertFull, storage, FoundInv, IInv, TypeOK
    <2>2. Kept' = Kept
      BY <2>1 DEF Kept
    <2>. QED  BY <2>1, <2>2 DEF HeldNow, Held
  <1>2. CASE Resize
    <2>1. /\ pc = "compacting" /\ pc' = "placing" /\ answer' = answer /\ from = used /\ used \in Nat
          /\ used' = to /\ to \in Nat /\ entries' = [i \in 0 .. to - 1 |-> entries[i]]
      BY <1>2 DEF Resize, FoundInv, IInv, TypeOK
    <2>2. Kept = 0 .. to - 1 /\ Kept' = 0 .. to - 1
      BY <2>1 DEF Kept
    <2>. QED  BY <2>1, <2>2 DEF HeldNow, Held
  <1>3. CASE PlaceEntry
    <2>1. pc = "placing" /\ pc' = pc /\ UNCHANGED <<entries, used, answer>>
      BY <1>3 DEF PlaceEntry
    <2>2. Kept' = Kept
      BY <2>1 DEF Kept
    <2>. QED  BY <2>1, <2>2 DEF HeldNow, Held
  <1>4. CASE UNCHANGED vars
    <2>1. Kept' = Kept /\ UNCHANGED <<entries, pc, answer>>
      BY <1>4 DEF vars, Kept
    <2>. QED  BY <2>1 DEF HeldNow, Held
  <1>. QED  BY <1>1, <1>2, <1>3, <1>4

Listed == \E n \in Nat : \E e : Lists(e, n, HeldNow)

(* Each step of the runtime is one of the abstract map, or shows nothing.  *)
LEMMA StepRefines ==
  ASSUME OrderInv, [Next]_vars
  PROVE  Listed' /\ [Abstract!Next]_(Abstract!vars)
  <1>1. FoundInv /\ FoundInv'
    BY StepFound DEF OrderInv
  <1>2. PICK n \in Nat : \E e : Lists(e, n, HeldNow)
    BY DEF OrderInv
  <1>3. PICK e : Lists(e, n, HeldNow)
    BY <1>2
  <1>4. ASSUME NEW k \in Keys, NEW v \in Values, InsertPresent(k, v)
        PROVE  Listed' /\ Abstract!Next
    <2>1. Lists(e, n, HeldNow') /\ Abstract!Insert(k, v)
      BY <1>1, <1>3, <1>4, PresentOrder
    <2>. QED  BY <2>1 DEF Listed, Abstract!Next
  <1>5. ASSUME NEW k \in Keys, NEW v \in Values, InsertRoom(k, v)
        PROVE  Listed' /\ Abstract!Next
    <2>1. /\ AddEntry(k, v) /\ pc = "ready" /\ pc' = "ready"
          /\ \A i \in Kept : entries[i].live => entries[i].key # k
      BY <1>1, <1>5, AbsentKey DEF InsertRoom, control, Kept, LivePositions
    <2>2. (\E m \in Nat : \E d : Lists(d, m, HeldNow')) /\ Abstract!Insert(k, v)
      BY <1>1, <1>3, <2>1, AddEntryOrder
    <2>. QED  BY <2>2 DEF Listed, Abstract!Next
  <1>6. CASE FinishInsert
    <2>1. pc = "placing" /\ pc' = "ready" /\ AddEntry(pending[1], pending[2])
      BY <1>6 DEF FinishInsert
    <2>2. PICK k \in Keys, v \in Values : k = pending[1] /\ v = pending[2]
      BY <2>1 DEF OrderInv
    <2>3. AddEntry(k, v) /\ \A i \in Kept : entries[i].live => entries[i].key # k
      BY <1>1, <2>1, <2>2 DEF FoundInv, KeysOK
    <2>4. (\E m \in Nat : \E d : Lists(d, m, HeldNow')) /\ Abstract!Insert(k, v)
      BY <1>1, <1>3, <2>1, <2>3, AddEntryOrder
    <2>. QED  BY <2>4 DEF Listed, Abstract!Next
  <1>7. ASSUME NEW k \in Keys, Remove(k)
        PROVE  Listed' /\ Abstract!Next
    <2>1. (\E m \in Nat : \E d : Lists(d, m, HeldNow')) /\ Abstract!Remove(k)
      BY <1>1, <1>3, <1>7, RemoveOrder
    <2>. QED  BY <2>1 DEF Listed, Abstract!Next
  <1>8. ASSUME NEW k \in Keys, Get(k)
        PROVE  Listed' /\ Abstract!Next
    <2>1. Lists(e, n, HeldNow') /\ Abstract!Get(k)
      BY <1>1, <1>3, <1>8, GetOrder
    <2>. QED  BY <2>1 DEF Listed, Abstract!Next
  <1>9. CASE Clear \/ Release
    <2>1. (\E m \in Nat : \E d : Lists(d, m, HeldNow')) /\ (Abstract!Clear \/ Abstract!Release)
      BY <1>1, <1>9, EmptyOrder
    <2>. QED  BY <2>1 DEF Listed, Abstract!Next
  <1>10. CASE BeginTake
    <2>1. Lists(e, n, HeldNow') /\ Abstract!BeginTake
      BY <1>1, <1>3, <1>10, BeginOrder
    <2>. QED  BY <2>1 DEF Listed, Abstract!Next
  <1>11. CASE TakeNext
    <2>1. (\E m \in Nat : \E d : Lists(d, m, HeldNow')) /\ (Abstract!TakeFirst \/ UNCHANGED Abstract!vars)
      BY <1>1, <1>3, <1>11, TakeOrder
    <2>. QED  BY <2>1 DEF Listed, Abstract!Next
  <1>12. CASE Compact
    <2>1. (\E m \in Nat : \E d : Lists(d, m, HeldNow')) /\ Current' = Current
      BY <1>1, <1>3, <1>12, CompactOrder
    <2>2. UNCHANGED Abstract!vars
      BY <1>12, <2>1 DEF Abstract!vars, Compact
    <2>. QED  BY <2>1, <2>2 DEF Listed
  <1>13. CASE \/ \E k \in Keys, v \in Values : InsertFull(k, v)
              \/ Resize \/ PlaceEntry \/ UNCHANGED vars
    <2>1. Lists(e, n, HeldNow') /\ UNCHANGED Abstract!vars
      BY <1>1, <1>3, <1>13, QuietOrder
    <2>. QED  BY <2>1 DEF Listed
  <1>. QED  BY <1>4, <1>5, <1>6, <1>7, <1>8, <1>9, <1>10, <1>11, <1>12, <1>13 DEF Next

LEMMA StepOrder ==
  ASSUME OrderInv, [Next]_vars
  PROVE  OrderInv'
  <1>1. FoundInv' /\ FoundInv /\ Listed'
    BY StepFound, StepRefines DEF OrderInv
  <1>2. (pc \in {"compacting", "placing"} => pending \in Keys \X Values)'
    <2>1. CASE \E k \in Keys, v \in Values : InsertFull(k, v)
      BY <2>1 DEF InsertFull
    <2>2. CASE Compact \/ Resize \/ PlaceEntry \/ UNCHANGED vars
      BY <2>2 DEF Compact, Resize, PlaceEntry, vars, OrderInv
    <2>3. CASE ~ (\E k \in Keys, v \in Values : InsertFull(k, v))
               /\ ~ (Compact \/ Resize \/ PlaceEntry \/ UNCHANGED vars)
      <3>1. pc' \in {"ready", "taking"}
        BY <2>3 DEF Next, InsertPresent, InsertRoom, FinishInsert, Remove, Get, Clear, Release, BeginTake,
                    TakeNext, control
      <3>. QED  BY <3>1
    <2>. QED  BY <2>1, <2>2, <2>3
  <1>3. ASSUME pc' = "taking", NEW i \in 0 .. used' - 1, entries'[i].live
        PROVE  IF i < from' THEN entries'[i].key = NoValue ELSE entries'[i].key \in Keys
    <2>1. CASE BeginTake
      <3>1. pc = "ready" /\ from' = 0 /\ used' = used /\ entries' = entries /\ used \in Nat
        BY <1>1, <2>1 DEF BeginTake, storage, FoundInv, IInv, TypeOK
      <3>2. entries[i].key \in Keys
        BY <1>1, <1>3, <3>1 DEF FoundInv, KeysOK, Kept
      <3>. QED  BY <1>3, <3>1, <3>2
    <2>2. CASE TakeNext
      <3>1. /\ pc = "taking" /\ from' = from + 1 /\ used' = used /\ from \in Nat /\ used \in Nat /\ from < used
            /\ entries \in [0 .. used - 1 -> Entry]
        BY <1>1, <2>2 DEF TakeNext, FoundInv, IInv, TypeOK
      <3>2. CASE i = from
        <4>1. entries[from].live => entries'[from].key = NoValue
          BY <2>2, <3>1 DEF TakeNext, Entry
        <4>2. ~ entries[from].live => entries' = entries
          BY <2>2 DEF TakeNext
        <4>. QED  BY <1>3, <3>1, <3>2, <4>1, <4>2
      <3>3. CASE i # from
        <4>1. entries'[i] = entries[i]
          BY <2>2, <3>1, <3>3 DEF TakeNext
        <4>2. IF i < from THEN entries[i].key = NoValue ELSE entries[i].key \in Keys
          BY <1>3, <3>1, <4>1 DEF OrderInv
        <4>. QED  BY <3>1, <3>3, <4>1, <4>2
      <3>. QED  BY <3>2, <3>3
    <2>3. CASE UNCHANGED vars
      BY <1>3, <2>3 DEF vars, OrderInv
    <2>4. CASE ~ (BeginTake \/ TakeNext \/ UNCHANGED vars)
      BY <1>3, <2>4 DEF Next, InsertPresent, InsertRoom, InsertFull, Compact, Resize, PlaceEntry, FinishInsert,
                        Remove, Get, Clear, Release, control
    <2>. QED  BY <2>1, <2>2, <2>3, <2>4
  <1>4. (pc = "taking" => \A i \in 0 .. used - 1 : entries[i].live =>
                            IF i < from THEN entries[i].key = NoValue ELSE entries[i].key \in Keys)'
    BY <1>3
  <1>. QED  BY <1>1, <1>2, <1>4 DEF OrderInv, Listed

THEOREM OrderInvariant == Spec => []OrderInv
  BY InitOrder, StepOrder, PTL DEF Spec

(* The runtime map is the map the language promises.                       *)
THEOREM Refinement == Spec => RefinesOrderedMap
  <1>1. Init => Abstract!Init
    BY InitRefines
  <1>2. OrderInv /\ [Next]_vars => [Abstract!Next]_(Abstract!vars)
    BY StepRefines
  <1>. QED  BY <1>1, <1>2, OrderInvariant, PTL DEF Spec, RefinesOrderedMap, Abstract!Spec
===============================================================================
