--------------------------------- MODULE Moves ---------------------------------
(***************************************************************************)
(* Move checking (borrowck/moves.rs): which places may hold nothing where  *)
(* they are used, and which moves out of a place are allowed at all.       *)
(***************************************************************************)
EXTENDS Mir

(* The places that may hold nothing: whole locals, and parts of the        *)
(* temporaries that lowering takes apart.                                  *)
FillPlace(empty, place) ==
  [whole |-> IF place.path = <<>> THEN empty.whole \ {place.local} ELSE empty.whole,
   parts |-> {part \in empty.parts : ~ Covers(place, part)}]
(* Inserts places, in whichever order: a whole local forgets its parts,    *)
(* and a part of an empty local says nothing.                              *)
InsertAll(empty, places) ==
  LET wholes == {place.local : place \in {p \in places : p.path = <<>>}}
      whole == empty.whole \cup wholes
  IN  [whole |-> whole,
       parts |-> {part \in empty.parts : part.local \notin wholes}
                   \cup {place \in places : place.local \notin whole}]

(* A bug: only the places that contain the used one are looked at.         *)
OverlapsContainers(empty, place) ==
  \/ place.local \in empty.whole
  \/ \E part \in empty.parts : Covers(part, place)
Overlaps(empty, place) ==
  \/ place.local \in empty.whole
  \/ \E part \in empty.parts : Covers(part, place) \/ Covers(place, part)
LacksContainer(empty, place) ==
  \/ place.local \in empty.whole
  \/ \E part \in empty.parts : Covers(part, place) /\ part # place

JoinCommon(states) ==   \* a bug: only what every path leaves empty
  [whole |-> {l \in Locals : \A s \in states : l \in s.whole},
   parts |-> {p \in UNION {s.parts : s \in states} : \A s \in states : p \in s.parts}]
JoinEmpty(states) == [whole |-> UNION {s.whole : s \in states}, parts |-> UNION {s.parts : s \in states}]
Retain(empty, live) ==
  [whole |-> empty.whole \cap live, parts |-> {part \in empty.parts : part.local \in live}]

(* Moving a part of a variable counts as moving all of it.                 *)
MovedPlace(place) == IF place.local \in Temporaries THEN place ELSE Whole(place.local)

MovedOperands(value) ==
  {value.operands[i].place : i \in {j \in DOMAIN value.operands : value.operands[j].gives = "move"}}
AfterMoves(empty, s) == InsertAll(empty, {MovedPlace(p) : p \in MovedOperands(s.value)})

MoveStep(empty, s) ==
  CASE s.do \in {"assign", "bind"} -> FillPlace(AfterMoves(empty, s), s.to)
    [] s.do = "release" -> InsertAll(empty, {Whole(s.local)})
    [] s.do = "unpack" ->
         LET moved == InsertAll(empty, {MovedPlace(s.taken[i][2]) : i \in DOMAIN s.taken})
         IN  Retain(moved, Locals \ {s.taken[i][1] : i \in DOMAIN s.taken})
    [] OTHER -> empty

(* What a statement reports: a used place that may hold nothing, or an     *)
(* assignment into or through one.                                         *)
MoveErrors(empty, s) ==
  {place \in UsedPlaces(s) : Overlaps(empty, place)}
    \cup (IF /\ s.do = "assign" /\ ~ IsWholeLocal(s.to)
             /\ IF s.to.local \in References
                THEN s.to.local \in AfterMoves(empty, s).whole
                ELSE LacksContainer(AfterMoves(empty, s), s.to)
          THEN {s.to} ELSE {})

EntryEmpty == [whole |-> Locals \ Parameters, parts |-> {}]
MoveTransfer(body, starts, ends, b, empty) ==
  Retain(After(MoveStep, Retain(empty, starts[b]), body.statements[b]), ends[b])

(* What the engine finds, given the live locals: one round, and the end.   *)
MoveRound(body, starts, ends) ==
  LET liveEnds == LiveEnds(body, starts)
  IN  ForwardRound(body, EntryEmpty, JoinEmpty,
                   LAMBDA b, empty : MoveTransfer(body, starts, liveEnds, b, empty), ends)
MoveEnds(body, starts) ==
  Settle(LAMBDA ends : MoveRound(body, starts, ends), [b \in Blocks(body) |-> {}])

(* The errors of a block whose start is given.                             *)
BlockErrors(body, b, start) ==
  LET statements == body.statements[b]
  IN  (UNION {MoveErrors(AfterFirst(i - 1, MoveStep, start, statements), statements[i]) : i \in DOMAIN statements})
        \cup {place \in body.terminators[b].reads : Overlaps(After(MoveStep, start, statements), place)}

UseErrors(body) ==
  LET live == LiveStarts(body)
      ends == MoveEnds(body, live)
      Start(b) == Retain(StartOf(body, b, EntryEmpty, ends, JoinEmpty), live[b])
  IN  UNION {BlockErrors(body, b, Start(b)) : b \in Reachable(body)}

(* A move that no entity can make: through a borrow, out of an element, or *)
(* out of a part of a value with a `drop` of its own.                      *)
Immovable(place) ==
  \/ place.local \in References
  \/ \E i \in DOMAIN place.path : IsIndex(place.path[i])
  \/ place.path # <<>> /\ place.local \in Dropping
MovedBy(s) ==
  CASE s.do \in {"assign", "bind"} -> MovedOperands(s.value)
    [] s.do = "unpack" -> {s.taken[i][2] : i \in DOMAIN s.taken}
    [] OTHER -> {}
MovedIn(body) == UNION {UNION {MovedBy(body.statements[b][i]) : i \in DOMAIN body.statements[b]} : b \in Blocks(body)}
SourceErrors(body) == {place \in MovedIn(body) : Immovable(place)}

MovesAccepted(body) == UseErrors(body) = {} /\ SourceErrors(body) = {}
-----------------------------------------------------------------------------
(* The bodies are graphs of blocks of statements; a reference is bound as  *)
(* a whole.                                                                *)
IsPath(path) == path \in Seq(ToSet(path))
WellFormed(bod) ==
  /\ 0 \in Blocks(bod)
  /\ \A b \in Blocks(bod) :
       /\ Successors(bod, b) \subseteq Blocks(bod)
       /\ \A place \in bod.terminators[b].reads : IsPath(place.path)
       /\ bod.statements[b] \in Seq(ToSet(bod.statements[b]))
       /\ \A s \in ToSet(bod.statements[b]) :
            /\ \A place \in UsedPlaces(s) : IsPath(place.path)
            /\ s.do = "assign" => IsPath(s.to.path)
            /\ s.do = "bind" => s.to = Whole(s.to.local) /\ s.to.local \in References
(* The engines of dataflow.rs have found solutions.                        *)
Solved(bod) ==
  LET live == LiveStarts(bod)
      empty == MoveEnds(bod, live)
  IN  /\ live = LiveRound(bod, live)
      /\ empty = MoveRound(bod, live, empty)
      /\ 0 \in Reachable(bod) /\ Reachable(bod) \subseteq Blocks(bod)
      /\ \A b \in Reachable(bod) : Successors(bod, b) \subseteq Reachable(bod)
-----------------------------------------------------------------------------
(* verify.rs, released: every path to a return releases what it filled.    *)
Either(sets) == UNION sets
FilledRound(body, ends) ==
  ForwardRound(body, Parameters \cap Owning, Either, LAMBDA b, filled : After(Fill, filled, body.statements[b]), ends)
FilledEnds(body) == Settle(LAMBDA ends : FilledRound(body, ends), [b \in Blocks(body) |-> {}])
MaybeFilled(body) ==
  LET ends == FilledEnds(body)
  IN  [b \in Reachable(body) |-> StartOf(body, b, Parameters \cap Owning, ends, Either)]
Released(body) ==
  LET starts == MaybeFilled(body)
  IN  \A b \in Reachable(body) :
        body.terminators[b].go = "return" =>
          After(Fill, starts[b], body.statements[b]) \subseteq {Result}

(* The variables of a pattern hold nothing when they take their parts: the *)
(* code that binds them releases nothing.                                  *)
VariablesAreFree(body) ==
  LET starts == MaybeFilled(body)
  IN  \A b \in Reachable(body) : \A i \in DOMAIN body.statements[b] :
        LET s == body.statements[b][i]
        IN  s.do = "unpack" =>
              \A j \in DOMAIN s.taken :
                s.taken[j][1] \notin AfterFirst(i - 1, Fill, starts[b], body.statements[b])
===============================================================================
