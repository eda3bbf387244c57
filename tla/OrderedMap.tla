------------------------------ MODULE OrderedMap ------------------------------
(***************************************************************************)
(* What the language promises of a `Map`: entries in insertion order, one  *)
(* per key; replacing a value keeps the entry's place; every key and value *)
(* that enters a map leaves it exactly once, to the caller or to its       *)
(* release.  `answer` is what the last operation gave back.                *)
(***************************************************************************)
EXTENDS Sequences, Naturals

CONSTANTS Keys, Values, NoValue

VARIABLES entries,   \* the sequence of entries, as records
          taking,    \* whether a loop that took the map is emptying it
          answer     \* the result of the last operation

vars == <<entries, taking, answer>>

Entry == [key: Keys, value: Values]

Holds(k)  == \E i \in DOMAIN entries : entries[i].key = k
Place(k)  == CHOOSE i \in DOMAIN entries : entries[i].key = k
Without(i) == SubSeq(entries, 1, i - 1) \o SubSeq(entries, i + 1, Len(entries))

Init == entries = <<>> /\ taking = FALSE /\ answer = <<"new">>

Insert(k, v) ==
  /\ ~taking
  /\ IF Holds(k)
     THEN /\ answer' = <<"insert", k, entries[Place(k)].value>>
          /\ entries' = [entries EXCEPT ![Place(k)].value = v]
     ELSE /\ answer' = <<"insert", k, NoValue>>
          /\ entries' = Append(entries, [key |-> k, value |-> v])
  /\ UNCHANGED taking

Remove(k) ==
  /\ ~taking
  /\ IF Holds(k)
     THEN /\ answer' = <<"remove", k, entries[Place(k)].value>>
          /\ entries' = Without(Place(k))
     ELSE /\ answer' = <<"remove", k, NoValue>>
          /\ UNCHANGED entries
  /\ UNCHANGED taking

Get(k) ==
  /\ ~taking
  /\ answer' = <<"get", k, IF Holds(k) THEN entries[Place(k)].value ELSE NoValue>>
  /\ UNCHANGED <<entries, taking>>

Clear ==
  /\ ~taking
  /\ answer' = <<"released", entries>>
  /\ entries' = <<>>
  /\ UNCHANGED taking

(* The end of the map's owner, also of a loop that took it and left early. *)
Release ==
  /\ answer' = <<"released", entries>>
  /\ entries' = <<>>
  /\ taking' = FALSE

BeginTake ==
  /\ ~taking
  /\ taking' = TRUE
  /\ UNCHANGED <<entries, answer>>

TakeFirst ==
  /\ taking
  /\ entries # <<>>
  /\ answer' = <<"taken", Head(entries)>>
  /\ entries' = Tail(entries)
  /\ UNCHANGED taking

Next ==
  \/ \E k \in Keys, v \in Values : Insert(k, v)
  \/ \E k \in Keys : Remove(k) \/ Get(k)
  \/ Clear \/ Release \/ BeginTake \/ TakeFirst

Spec == Init /\ [][Next]_vars
===============================================================================
