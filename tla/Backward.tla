------------------------------- MODULE Backward -------------------------------
(***************************************************************************)
(* The engine of the backward analyses of locals (dataflow.rs, backward):  *)
(* a worklist of positions in the visiting order, the last one first.  A   *)
(* visit unites the liveStarts of the successors and passes the result back*)
(* through the summary of the block.                                       *)
(***************************************************************************)
EXTENDS BlockGraph

CONSTANT Locals

(* What a block may do: the locals it uses and kills.                      *)
Summaries == [uses : SUBSET Locals, kills : SUBSET Locals]

VARIABLES summaries,           \* of each block
          liveStarts, liveEnds,  \* the live locals found so far
          visited, waiting     \* blocks, and positions to visit

backwardVars == <<successors, order, summaries, liveStarts, liveEnds, visited, waiting>>

Leaving(b) == UNION {liveStarts[c] : c \in successors[b]}
Flow(b, live) == (live \ summaries[b].kills) \cup summaries[b].uses

Start ==
  /\ liveStarts = [b \in Blocks |-> {}]
  /\ liveEnds = [b \in Blocks |-> {}]
  /\ visited = [b \in Blocks |-> FALSE]
  /\ waiting = DOMAIN order

BackwardInit ==
  /\ \E g \in Graphs : successors = g.successors /\ order = g.order
  /\ summaries \in [Blocks -> Summaries]
  /\ Start

FollowBack(b) == {i \in DOMAIN order : order[i] \in Predecessors(b)}

(* A bug: a visited block is never visited again for its sake.             *)
ChangedOnce(b, live) == ~ visited[b]
(* A bug: a visited block always asks for its predecessors again.          *)
AlwaysChanged(b, live) == TRUE
Changed(b, live) == ~ visited[b] \/ live # liveStarts[b]

(* The last waiting position; `b` is the block there.                      *)
VisitBack(i) ==
  /\ i \in waiting /\ \A j \in waiting : j <= i
  /\ LET b == order[i]
         live == Flow(b, Leaving(b))
     IN  /\ liveEnds' = [liveEnds EXCEPT ![b] = Leaving(b)]
         /\ visited' = [visited EXCEPT ![b] = TRUE]
         /\ liveStarts' = [liveStarts EXCEPT ![b] = live]
         /\ waiting' = (waiting \ {i}) \cup (IF Changed(b, live) THEN FollowBack(b) ELSE {})
  /\ UNCHANGED <<successors, order, summaries>>

BackwardNext == \E i \in DOMAIN order : VisitBack(i)

BackwardSpec == BackwardInit /\ [][BackwardNext]_backwardVars
-----------------------------------------------------------------------------
LiveTypeOK ==
  /\ WellOrdered(successors, order)
  /\ summaries \in [Blocks -> Summaries]
  /\ liveStarts \in [Blocks -> SUBSET Locals]
  /\ liveEnds \in [Blocks -> SUBSET Locals]
  /\ visited \in [Blocks -> BOOLEAN]
  /\ waiting \subseteq DOMAIN order

(* When nothing is waiting, the sets solve the equations of the analysis,  *)
(* although blocks are revisited only when a successor has changed.        *)
LiveSolved ==
  waiting = {} => \A b \in Reached : /\ liveEnds[b] = Leaving(b)
                                     /\ liveStarts[b] = Flow(b, liveEnds[b])

(* No set ever exceeds a solution, be it only one of the inequations, so   *)
(* the final ones are the least.                                           *)
Solution(f) == \A b \in Reached : Flow(b, UNION {f[c] : c \in successors[b]}) \subseteq f[b]
NeverTooMuch ==
  \A f \in [Blocks -> SUBSET Locals] : Solution(f) => \A b \in Reached : liveStarts[b] \subseteq f[b]
-----------------------------------------------------------------------------
(* What the engine is used for: the locals live at the edges of the blocks *)
(* (liveness), and the changes that nothing reads (unread.rs).  A block is *)
(* its statements in order, then its terminator; of each step only the     *)
(* locals it reads, changes in part and replaces matter.                   *)
Steps == [reads : SUBSET Locals, changes : SUBSET Locals, replaces : SUBSET Locals]

VARIABLES analysis,     \* "liveness" or "unread"
          code          \* the steps of each block

(* liveness counts a change as a use, as the rest of the local stays;      *)
(* the search for unread changes does not.                                 *)
Uses(purpose, step) == step.reads \cup (IF purpose = "liveness" THEN step.changes ELSE {})

(* A bug: what the step itself reads is killed too.                        *)
StepBeforeKilled(purpose, step, summary) ==
  [uses |-> (summary.uses \cup Uses(purpose, step)) \ step.replaces, kills |-> summary.kills \cup step.replaces]
StepBefore(purpose, step, summary) ==
  [uses |-> (summary.uses \ step.replaces) \cup Uses(purpose, step), kills |-> summary.kills \cup step.replaces]
SummaryOf(purpose, steps) ==
  LET from[k \in 1 .. Len(steps) + 1] ==
        IF k > Len(steps) THEN [uses |-> {}, kills |-> {}] ELSE StepBefore(purpose, steps[k], from[k + 1])
  IN  from[1]

Found == order # <<>> /\ waiting = {}
Statements(b) == 1 .. Len(code[b]) - 1

(* Whether a change of l by statement i of b is read: by the rest of the   *)
(* block, up to a step that replaces it, or beyond.                        *)
ReadInBlock(b, i, l) ==   \* a bug: the search stops at the end of the block
  \E j \in i + 1 .. Len(code[b]) :
    l \in code[b][j].reads /\ \A k \in i + 1 .. j - 1 : l \notin code[b][k].replaces
ReadLater(b, i, l) ==
  \/ \E j \in i + 1 .. Len(code[b]) :
       l \in code[b][j].reads /\ \A k \in i + 1 .. j - 1 : l \notin code[b][k].replaces
  \/ l \in liveEnds[b] /\ \A k \in i + 1 .. Len(code[b]) - 1 : l \notin code[b][k].replaces
-----------------------------------------------------------------------------
(* The reference: the points before a step from which some path uses l     *)
(* before anything replaces it, as the points that are in every set that   *)
(* has the steps that use l and follows the paths back.                    *)
Points == UNION {{<<b, k>> : k \in DOMAIN code[b]} : b \in Blocks}
StepAt(p) == code[p[1]][p[2]]
Following(p) == IF p[2] < Len(code[p[1]]) THEN {<<p[1], p[2] + 1>>} ELSE {<<c, 1>> : c \in successors[p[1]]}
FollowedBack(l, points) ==
  \A p \in Points :
    \/ l \in Uses(analysis, StepAt(p))
    \/ l \notin StepAt(p).replaces /\ Following(p) \cap points # {}
    => p \in points
UsedAhead(l) == LET closed == {R \in SUBSET Points : FollowedBack(l, R)}
                IN  {p \in Points : \A R \in closed : p \in R}

(* A local is live at the start or the end of a block exactly where some   *)
(* path uses it before something replaces it.                              *)
LiveIsUsed ==
  Found => \A l \in Locals :
             LET used == UsedAhead(l)
             IN  \A b \in Reached : /\ l \in liveStarts[b] <=> <<b, 1>> \in used
                                    /\ l \in liveEnds[b] <=> \E c \in successors[b] : <<c, 1>> \in used

(* "changes ... that are never read": a change is reported exactly when no *)
(* path reads the local after it, before something replaces it.            *)
UnreadIsNeverRead ==
  Found /\ analysis = "unread" =>
    \A l \in Locals :
      LET used == UsedAhead(l)
      IN  \A b \in Reached : \A i \in Statements(b) :
            l \in code[b][i].changes => (ReadLater(b, i, l) <=> <<b, i + 1>> \in used)
===============================================================================
