-------------------------------- MODULE VtMap --------------------------------
(***************************************************************************)
(* The hash map of the runtime (runtime/vorton_runtime.c, vt_map) and the  *)
(* helpers that code generation wraps around it.  Entries lie in insertion *)
(* order; a removed entry stays as a gap until the map is rebuilt; `slots` *)
(* finds entries by open addressing.  An insertion that finds the entries  *)
(* full rebuilds the map first; the loops of the rebuild are steps here,   *)
(* the probing of one key is a single step.                                *)
(***************************************************************************)
EXTENDS Integers, FiniteSets, Sequences

CONSTANTS Keys, Values,
          NoValue,        \* a zeroed key or value, and "no value" in an answer
          Hash            \* the 64-bit hash of each key

ASSUME HashAssumption == Hash \in [Keys -> Nat]
ASSUME NoValueAssumption == NoValue \notin Keys \cup Values

VARIABLES entries,  \* keys, values and live flags of the positions in use
          used,     \* how many positions are in use, gaps included
          len,      \* how many entries are live
          cap,      \* how many positions there is room for
          slots,    \* the open-addressing index
          slotCap,
          pc,       \* "ready", or the loop that is running
          pending,  \* the key and value an insertion that rebuilds will add
          from, to, \* the counters of the loops
          answer    \* what the last operation gave back

vars == <<entries, used, len, cap, slots, slotCap, pc, pending, from, to, answer>>
storage == <<entries, used, len, cap, slots, slotCap>>
control == <<pc, pending, from, to>>

EMPTY   == -1   \* a slot that was never filled since the last rebuild
RemovedAsEmpty == -1   \* a bug: a removal that cuts probe paths
REMOVED == -2          \* the slot of a removed entry

Entry   == [key: Keys \cup {NoValue}, value: Values \cup {NoValue}, live: BOOLEAN]
NoEntry == [key |-> NoValue, value |-> NoValue, live |-> FALSE]

(***************************************************************************)
(* Probing.  slotCap is a power of two, so the mask is the remainder, and  *)
(* the next slot after the last is the first.                              *)
(***************************************************************************)
Home(k) == Hash[k] % slotCap
Probe(k, j) == IF Home(k) + j < slotCap THEN Home(k) + j ELSE Home(k) + j - slotCap
Probes == 0 .. slotCap - 1

Least(S) == CHOOSE j \in S : \A i \in S : j <= i

(* Where a search for k stops: an empty slot, or a slot that names an      *)
(* entry with this key.                                                    *)
Stops(k) == {j \in Probes : \/ slots[Probe(k, j)] = EMPTY
                            \/ /\ slots[Probe(k, j)] >= 0
                               /\ entries[slots[Probe(k, j)]].key = k}
StopSlot(k) == Probe(k, Least(Stops(k)))
Find(k) == IF len = 0 THEN EMPTY ELSE slots[StopSlot(k)]

(* The first slot for k that no entry holds.                               *)
FreeSlots(k) == {j \in Probes : slots[Probe(k, j)] < 0}
PlaceSlot(k) == Probe(k, Least(FreeSlots(k)))

LivePositions == {i \in 0 .. used - 1 : entries[i].live}

-----------------------------------------------------------------------------
Init ==
  /\ entries = [i \in {} |-> NoEntry] /\ slots = [s \in {} |-> EMPTY]
  /\ used = 0 /\ len = 0 /\ cap = 0 /\ slotCap = 0
  /\ pc = "ready" /\ pending = <<NoValue, NoValue>> /\ from = 0 /\ to = 0
  /\ answer = <<"new">>

(* The tail of vt_map_insert: the entry goes to the first unused position. *)
AddEntry(k, v) ==
  /\ entries' = [i \in 0 .. used |-> IF i = used
                                     THEN [key |-> k, value |-> v, live |-> TRUE]
                                     ELSE entries[i]]
  /\ slots' = [slots EXCEPT ![PlaceSlot(k)] = used]
  /\ used' = used + 1
  /\ len' = len + 1
  /\ answer' = <<"insert", k, NoValue>>
  /\ UNCHANGED <<cap, slotCap>>

(* The key is present: only its value is replaced.                         *)
InsertPresent(k, v) ==
  /\ pc = "ready"
  /\ Find(k) >= 0
  /\ answer' = <<"insert", k, entries[Find(k)].value>>
  /\ entries' = [entries EXCEPT ![Find(k)].value = v]
  /\ UNCHANGED <<used, len, cap, slots, slotCap, control>>

InsertRoom(k, v) ==
  /\ pc = "ready"
  /\ Find(k) = EMPTY
  /\ used < cap
  /\ AddEntry(k, v)
  /\ UNCHANGED control

InsertFull(k, v) ==
  /\ pc = "ready"
  /\ Find(k) = EMPTY
  /\ used = cap
  /\ pc' = "compacting"
  /\ pending' = <<k, v>>
  /\ from' = 0 /\ to' = 0
  /\ UNCHANGED <<storage, answer>>

(* A bug: the gaps are skipped, but nothing is moved into them.            *)
CompactWithoutMoving ==
  /\ pc = "compacting"
  /\ from < used
  /\ from' = from + 1
  /\ to' = IF entries[from].live THEN to + 1 ELSE to
  /\ UNCHANGED <<entries, used, len, cap, slots, slotCap, pc, pending, answer>>

(* One turn of the loop of vt_map_rebuild that closes the gaps in place.   *)
Compact ==
  /\ pc = "compacting"
  /\ from < used
  /\ from' = from + 1
  /\ IF entries[from].live
     THEN /\ entries' = [entries EXCEPT ![to] = entries[from]]
          /\ to' = to + 1
     ELSE UNCHANGED <<entries, to>>
  /\ UNCHANGED <<used, len, cap, slots, slotCap, pc, pending, answer>>

(* The room an insertion asks for: twice what it needs, unless the entries *)
(* that remain leave at least half of the room free.                       *)
Need == IF (len + 1) * 2 > cap THEN (len + 1) * 2 ELSE len + 1

(* cap starts at 4 and doubles until it reaches the need, which two        *)
(* doublings always do, as len is at most cap.                             *)
GrownCap ==
  LET base == IF cap = 0 THEN 4 ELSE cap
  IN  IF base >= Need THEN base ELSE IF 2 * base >= Need THEN 2 * base ELSE 4 * base

(* slot_cap doubles from 8 until it is at least 2 * cap; cap doubles from  *)
(* 4, so that is exactly 2 * cap.                                          *)
TightIndex(c) == c \div 2   \* a bug: half as many slots as positions
IndexSize(c) == 2 * c

Resize ==
  /\ pc = "compacting"
  /\ from = used
  /\ used' = to
  /\ entries' = [i \in 0 .. to - 1 |-> entries[i]]
  /\ cap' = IF Need > cap THEN GrownCap ELSE cap
  /\ slotCap' = IF Need > cap THEN IndexSize(GrownCap) ELSE slotCap
  /\ slots' = [s \in 0 .. slotCap' - 1 |-> EMPTY]
  /\ pc' = "placing"
  /\ from' = 0
  /\ UNCHANGED <<len, pending, to, answer>>

(* One turn of the loop that gives every entry a slot again.               *)
PlaceEntry ==
  /\ pc = "placing"
  /\ from < used
  /\ slots' = [slots EXCEPT ![PlaceSlot(entries[from].key)] = from]
  /\ from' = from + 1
  /\ UNCHANGED <<entries, used, len, cap, slotCap, pc, pending, to, answer>>

FinishInsert ==
  /\ pc = "placing"
  /\ from = used
  /\ AddEntry(pending[1], pending[2])
  /\ pc' = "ready"
  /\ pending' = <<NoValue, NoValue>>
  /\ from' = 0 /\ to' = 0

(* vt_map_remove probes like a search and leaves a gap behind, whose stale *)
(* bytes nothing reads again.                                              *)
Remove(k) ==
  /\ pc = "ready"
  /\ IF Find(k) >= 0
     THEN /\ answer' = <<"remove", k, entries[Find(k)].value>>
          /\ slots' = [slots EXCEPT ![StopSlot(k)] = REMOVED]
          /\ entries' = [entries EXCEPT ![Find(k)] = NoEntry]
          /\ len' = len - 1
     ELSE /\ answer' = <<"remove", k, NoValue>>
          /\ UNCHANGED <<entries, slots, len>>
  /\ UNCHANGED <<used, cap, slotCap, control>>

(* vt_map_find behind `get`, `contains` and an indexed read.               *)
Get(k) ==
  /\ pc = "ready"
  /\ answer' = <<"get", k, IF Find(k) >= 0 THEN entries[Find(k)].value ELSE NoValue>>
  /\ UNCHANGED <<storage, control>>

(* What clearing or releasing the map releases, in order: its live         *)
(* entries, except those a loop has taken, which are zeroed.               *)
Held(positions) == {i \in positions : entries[i].live /\ entries[i].key # NoValue}
Nth(S, n) == CHOOSE i \in S : Cardinality({j \in S : j <= i}) = n
Contents(positions) ==
  [n \in 1 .. Cardinality(Held(positions)) |->
     LET entry == entries[Nth(Held(positions), n)]
     IN  [key |-> entry.key, value |-> entry.value]]

(* A bug: the length survives.                                             *)
ClearKeepingLength ==
  /\ pc = "ready"
  /\ answer' = <<"released", Contents(0 .. used - 1)>>
  /\ entries' = [i \in {} |-> NoEntry]
  /\ used' = 0
  /\ slots' = [s \in 0 .. slotCap - 1 |-> EMPTY]
  /\ UNCHANGED <<len, cap, slotCap, control>>

(* The generated vt_clear: release the entries, keep the storage.          *)
Clear ==
  /\ pc = "ready"
  /\ answer' = <<"released", Contents(0 .. used - 1)>>
  /\ entries' = [i \in {} |-> NoEntry]
  /\ used' = 0 /\ len' = 0
  /\ slots' = [s \in 0 .. slotCap - 1 |-> EMPTY]
  /\ UNCHANGED <<cap, slotCap, control>>

(* The generated vt_release, after which the owner is zeroed.              *)
Release ==
  /\ pc \in {"ready", "taking"}
  /\ answer' = <<"released", Contents(0 .. used - 1)>>
  /\ entries' = [i \in {} |-> NoEntry] /\ slots' = [s \in {} |-> EMPTY]
  /\ used' = 0 /\ len' = 0 /\ cap' = 0 /\ slotCap' = 0
  /\ pc' = "ready" /\ from' = 0
  /\ UNCHANGED <<pending, to>>

(* A loop takes the map and walks its positions; what it takes is zeroed   *)
(* in place, and the map is released when the loop ends or is left.        *)
BeginTake ==
  /\ pc = "ready"
  /\ pc' = "taking"
  /\ from' = 0
  /\ UNCHANGED <<storage, pending, to, answer>>

TakeNext ==
  /\ pc = "taking"
  /\ from < used
  /\ from' = from + 1
  /\ IF entries[from].live
     THEN /\ answer' = <<"taken", [key |-> entries[from].key, value |-> entries[from].value]>>
          /\ entries' = [entries EXCEPT ![from].key = NoValue, ![from].value = NoValue]
     ELSE UNCHANGED <<entries, answer>>
  /\ UNCHANGED <<used, len, cap, slots, slotCap, pc, pending, to>>

Next ==
  \/ \E k \in Keys, v \in Values :
       InsertPresent(k, v) \/ InsertRoom(k, v) \/ InsertFull(k, v)
  \/ Compact \/ Resize \/ PlaceEntry \/ FinishInsert
  \/ \E k \in Keys : Remove(k) \/ Get(k)
  \/ Clear \/ Release \/ BeginTake \/ TakeNext

Spec == Init /\ [][Next]_vars
-----------------------------------------------------------------------------
TypeOK ==
  /\ used \in Nat /\ len \in Nat /\ cap \in Nat /\ slotCap \in Nat
  /\ entries \in [0 .. used - 1 -> Entry]
  /\ slots \in [0 .. slotCap - 1 -> Int]
  /\ pc \in {"ready", "compacting", "placing", "taking"}
  /\ pending \in (Keys \cup {NoValue}) \X (Values \cup {NoValue})
  /\ from \in Nat /\ to \in Nat

(* The comment on vt_map: a search always reaches an empty slot, whatever  *)
(* insertions and removals came before, so no probing loop runs for ever;  *)
(* the same while the slots are being rebuilt.                             *)
SearchEnds == cap > 0 /\ pc # "compacting" => \E s \in 0 .. slotCap - 1 : slots[s] = EMPTY

(* A search finds every live entry, however its probe path was disturbed   *)
(* by removals and by the reuse of removed slots.                          *)
EntriesFound ==
  pc = "ready" => \A i \in LivePositions : Find(entries[i].key) = i

(* The length that `len()` reads is the number of live entries.            *)
LenExact == pc \in {"ready", "taking"} => len = Cardinality(LivePositions)

(* The map is an ordered map: insertion order survives gaps, compaction    *)
(* and growth, and each key and value leaves exactly once.  While the gaps *)
(* are being closed, what is behind `to` and what is not yet visited count.*)
Current ==
  Contents(IF pc = "compacting" THEN (0 .. to - 1) \cup (from .. used - 1)
                                ELSE 0 .. used - 1)

Abstract == INSTANCE OrderedMap WITH entries <- Current, taking <- pc = "taking"

RefinesOrderedMap == Abstract!Spec
===============================================================================
