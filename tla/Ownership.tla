------------------------------- MODULE Ownership -------------------------------
(***************************************************************************)
(* A body that move checking and verification accept, as it runs: what its *)
(* locals hold, down to the parts that can be moved apart.  A move empties *)
(* the place it takes from, an assignment releases what the place held,    *)
(* and there is no other record of what a local holds.                     *)
(***************************************************************************)
EXTENDS Moves

CONSTANTS Bodies,
          Leaves,     \* the parts of the locals that hold something or nothing
          MaxSteps    \* bounds the turns of loops

VARIABLES body, filled,      \* the body, and what MaybeFilled finds
          phase, block, index, steps,
          holds,             \* the leaves that hold something
          lost               \* something was overwritten and never released

vars == <<body, filled, phase, block, index, steps, holds, lost>>

LeavesOf(place) ==
  {leaf \in Leaves : Covers(place, leaf) \/ Covers(leaf, place)}

ASSUME BodiesAssumption == \A bod \in Bodies : WellFormed(bod)
(* A reference owns nothing, and what owns nothing is not released.        *)
ASSUME LocalsAssumption == References \cap Owning = {}
(* The leaves are at least as fine as what is moved apart.                 *)
ASSUME LeavesAssumption ==
  \A leaf \in Leaves :
    /\ leaf.local \in Locals /\ IsPath(leaf.path)
    /\ \A bod \in Bodies : \A place \in MovedIn(bod) :
         place.local \in Temporaries /\ Covers(leaf, place) => leaf = place
(* What the engines of dataflow.rs find solves its equations (Forward and  *)
(* Backward).                                                              *)
ASSUME EnginesAssumption ==
  \A bod \in Bodies : Solved(bod) /\ FilledEnds(bod) = FilledRound(bod, FilledEnds(bod))
(* Lowering releases the variables of a pattern where their arm ends.      *)
ASSUME PatternsAssumption ==
  \A bod \in Bodies : MovesAccepted(bod) /\ Released(bod) => VariablesAreFree(bod)

Init ==
  /\ body \in Bodies
  /\ filled = <<>>
  /\ phase = "check" /\ block = 0 /\ index = 1 /\ steps = 0
  /\ holds = {leaf \in Leaves : leaf.local \in Parameters}
  /\ lost = FALSE

Check ==
  /\ phase = "check"
  /\ phase' = IF MovesAccepted(body) /\ Released(body) THEN "run" ELSE "rejected"
  /\ filled' = IF phase' = "run" THEN MaybeFilled(body) ELSE <<>>
  /\ UNCHANGED <<body, block, index, steps, holds, lost>>

Running == phase = "run" /\ steps < MaxSteps
Statement == body.statements[block][index]
AtStatement == Running /\ index <= Len(body.statements[block])
Proceed == index' = index + 1 /\ steps' = steps + 1 /\ UNCHANGED <<body, filled, phase, block>>

Taken == UNION {LeavesOf(place) : place \in MovedOperands(Statement.value)}
Store(to) == LeavesOf(to)

(* Takes the moved operands, releases what the place holds, stores.        *)
AssignStep ==
  /\ AtStatement /\ Statement.do = "assign"
  /\ holds' = (holds \ Taken) \cup Store(Statement.to)
  /\ Proceed /\ UNCHANGED lost

BindStep ==
  /\ AtStatement /\ Statement.do = "bind"
  /\ holds' = (holds \ Taken) \cup Store(Statement.to)
  /\ Proceed /\ UNCHANGED lost

(* The variables of a pattern take the parts, whatever they held.          *)
UnpackStep ==
  /\ AtStatement /\ Statement.do = "unpack"
  /\ LET taken == UNION {LeavesOf(Statement.taken[i][2]) : i \in DOMAIN Statement.taken}
         given == UNION {LeavesOf(Whole(Statement.taken[i][1])) : i \in DOMAIN Statement.taken}
     IN  /\ lost' = (lost \/ \E leaf \in (given \cap holds) \ taken : leaf.local \in Owning)
         /\ holds' = (holds \ taken) \cup given
  /\ Proceed

ReleaseStep ==
  /\ AtStatement /\ Statement.do = "release"
  /\ holds' = holds \ LeavesOf(Whole(Statement.local))
  /\ Proceed /\ UNCHANGED lost

(* Steps that only look.                                                   *)
LookStep ==
  /\ AtStatement /\ Statement.do \in {"keep", "distinct"}
  /\ Proceed /\ UNCHANGED <<holds, lost>>

Terminator == body.terminators[block]
AtTerminator == Running /\ index = Len(body.statements[block]) + 1

Jump ==
  /\ AtTerminator /\ Terminator.go # "return"
  /\ \E target \in Terminator.to : block' = target
  /\ index' = 1 /\ steps' = steps + 1
  /\ UNCHANGED <<body, filled, phase, holds, lost>>

ReturnStep ==
  /\ AtTerminator /\ Terminator.go = "return"
  /\ phase' = "returned"
  /\ UNCHANGED <<body, filled, block, index, steps, holds, lost>>

Next == Check \/ AssignStep \/ BindStep \/ UnpackStep \/ ReleaseStep \/ LookStep \/ Jump \/ ReturnStep

Spec == Init /\ [][Next]_vars
-----------------------------------------------------------------------------
(* No step of an accepted body uses a place that holds nothing, or writes  *)
(* into one, on any path: there are no flags at run time to tell.          *)
NextUses ==
  IF AtStatement
  THEN UsedPlaces(Statement)
         \cup (IF Statement.do = "assign" /\ Statement.to.local \in References
               THEN {Whole(Statement.to.local)} ELSE {})
  ELSE IF AtTerminator THEN Terminator.reads ELSE {}
NothingEmptyIsUsed == \A place \in NextUses : LeavesOf(place) \subseteq holds

(* A body that returns has released everything but its result, and has     *)
(* overwritten nothing it should have released.                            *)
NothingLeaks ==
  phase = "returned" =>
    /\ ~ lost
    /\ \A leaf \in holds : leaf.local \in Owning => leaf.local = Result

(* Body::fill never misses a local that holds something.                   *)
HoldersAreTracked ==
  phase = "run" =>
    {leaf.local : leaf \in {l \in holds : l.local \in Owning}}
      \subseteq AfterFirst(index - 1, Fill, filled[block], body.statements[block])

(* The errors, found at joins of paths and forgetting the dead locals,     *)
(* are those of single paths that forget nothing.                          *)
PathStarts ==
  LET Round(paths) ==
        paths \cup UNION {{<<c, After(MoveStep, p[2], body.statements[p[1]])>> :
                             c \in Successors(body, p[1])} : p \in paths}
  IN  Settle(Round, {<<0, EntryEmpty>>})
PathErrors == UNION {BlockErrors(body, p[1], p[2]) : p \in PathStarts}
ErrorsAreOnPaths == steps = 0 /\ phase # "check" => UseErrors(body) = PathErrors
===============================================================================
