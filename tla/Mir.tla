---------------------------------- MODULE Mir ----------------------------------
(***************************************************************************)
(* The IR of one function (mir.rs), as far as moves and borrows can tell:  *)
(* blocks of statements over places, each block ending in a terminator.    *)
(***************************************************************************)
EXTENDS Ir

CONSTANTS Locals, References,     \* the locals that hold a pointer
          Temporaries,            \* the locals that lowering added
          Owning,                 \* the locals that own what needs releasing
          Maps,                   \* the locals that hold, or point at, a map
          Dropping,               \* the locals of a type that implements Drop
          Parameters, Result

Return == ReturnOf(Result)
IsWholeLocal(place) == place.path = <<>> /\ place.local \notin References
Reads(s) == LocalsOf(UsedPlaces(s)) \cup (IF s.do = "assign" THEN IndexLocals(s.to) ELSE {})
Changes(s) == IF s.do = "assign" /\ ~ IsWholeLocal(s.to) THEN {s.to.local} ELSE {}
Replaces(s) ==
  CASE s.do = "assign" -> IF IsWholeLocal(s.to) THEN {s.to.local} ELSE {}
    [] s.do = "bind" -> {s.to.local}
    [] s.do = "unpack" -> {s.taken[i][1] : i \in DOMAIN s.taken}
    [] s.do = "release" -> {s.local}
    [] OTHER -> {}

(* Body::fill: the owning locals that may hold something after s.          *)
MovedFrom(s) ==   \* a bug: a move out of a part counts too
  {s.value.operands[i].place.local : i \in {j \in DOMAIN s.value.operands : s.value.operands[j].gives = "move"}}
MovedWhole(s) ==
  {s.value.operands[i].place.local :
     i \in {j \in DOMAIN s.value.operands :
              s.value.operands[j].gives = "move" /\ s.value.operands[j].place.path = <<>>}}
FillWithoutUnpack(filled, s) ==   \* a bug: what a pattern binds is not seen
  CASE s.do = "assign" -> (filled \ MovedWhole(s)) \cup ({s.to.local} \cap Owning)
    [] s.do = "bind" -> filled \ MovedWhole(s)
    [] s.do = "release" -> filled \ {s.local}
    [] OTHER -> filled
Fill(filled, s) ==
  CASE s.do = "assign" -> (filled \ MovedWhole(s)) \cup ({s.to.local} \cap Owning)
    [] s.do = "bind" -> filled \ MovedWhole(s)
    [] s.do = "release" -> filled \ {s.local}
    [] s.do = "unpack" -> filled \cup ({s.taken[i][1] : i \in DOMAIN s.taken} \cap Owning)
    [] OTHER -> filled

(* If the place is the value of a key of a map, the map: storing there may *)
(* add the key.  The maps of the model are locals.                         *)
MapEntry(place) ==
  /\ place.local \in Maps /\ Len(place.path) = 1
  /\ place.path[1][1] \in {"index", "constant"}

(* Body::insert_checks: each check goes before the statement it is for,    *)
(* the last one first, as an insertion moves what is behind it.            *)
ChecksBefore(checks, b, i) == {Distinct(c.pairs) : c \in {x \in checks : x.block = b /\ x.index = i}}
InsertedBefore(statements, i, before) ==
  SubSeq(statements, 1, i - 1) \o SetToSeq(before) \o SubSeq(statements, i, Len(statements))
Backwards(n) == [k \in 1 .. n |-> n + 1 - k]
InsertChecks(body, checks) ==
  [body EXCEPT !.statements =
     [b \in Blocks(body) |->
        After(LAMBDA statements, i : InsertedBefore(statements, i, ChecksBefore(checks, b, i)),
              body.statements[b], Backwards(Len(body.statements[b])))]]
-----------------------------------------------------------------------------
(* The solutions that the engines of dataflow.rs find (Forward, Backward), *)
(* round by round; a set holds the state at an end once one has come.      *)
ArrivingAt(body, b, entry, ends) ==
  (UNION {ends[p] : p \in Predecessors(body, b)}) \cup (IF b = 0 THEN {entry} ELSE {})
ForwardRound(body, entry, JoinAll(_), Transfer(_, _), ends) ==
  [b \in Blocks(body) |->
     IF ArrivingAt(body, b, entry, ends) = {} THEN {}
     ELSE {Transfer(b, JoinAll(ArrivingAt(body, b, entry, ends)))}]
StartOf(body, b, entry, ends, JoinAll(_)) == JoinAll(ArrivingAt(body, b, entry, ends))

LiveBefore(live, s) == (live \ Replaces(s)) \cup Reads(s) \cup Changes(s)
LiveEnds(body, starts) == [b \in Blocks(body) |-> UNION {starts[c] : c \in Successors(body, b)}]
LiveRound(body, starts) ==
  [b \in Blocks(body) |->
     After(LiveBefore, LiveEnds(body, starts)[b] \cup LocalsOf(body.terminators[b].reads),
           Reverse(body.statements[b]))]
LiveStarts(body) == Settle(LAMBDA starts : LiveRound(body, starts), [b \in Blocks(body) |-> {}])
Reachable(body) == Settle(LAMBDA reached : reached \cup UNION {Successors(body, b) : b \in reached}, {0})
===============================================================================
