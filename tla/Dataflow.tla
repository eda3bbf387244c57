------------------------------ MODULE Dataflow ------------------------------
(***************************************************************************)
(* How the parts of the dataflow framework work together on one body: the  *)
(* visiting order is found first (Graph::new), then a forward analysis and *)
(* a backward one run over the same graph.                                 *)
(***************************************************************************)
EXTENDS Forward, Backward, FiniteSets, SequencesExt

(* The order in which the analyses visit the blocks of a body: reverse     *)
(* postorder of a depth-first search with an explicit stack                *)
(* (Body::reverse_postorder), and the edges between the blocks it reaches  *)
(* (Graph::new).                                                           *)
VARIABLES lists,       \* the successors of each block, in the terminator's order
          seen, stack, postorder   \* of the search

searchVars == <<lists, seen, stack, postorder>>

SearchFresh ==
  /\ seen = {First}
  /\ stack = <<<<First, 0>>>>
  /\ postorder = <<>>
  /\ order = <<>>

TopBlock == Last(stack)[1]
Taken    == Last(stack)[2]
More     == Taken < Len(lists[TopBlock])
NextBlock == lists[TopBlock][Taken + 1]
Advanced == Append(Front(stack), <<TopBlock, Taken + 1>>)

(* A bug: a block is marked when it is taken off the stack.                *)
DescendUnmarked ==
  /\ stack # <<>> /\ More /\ NextBlock \notin seen
  /\ seen' = seen \cup {TopBlock}
  /\ stack' = Append(Advanced, <<NextBlock, 0>>)
  /\ UNCHANGED <<lists, postorder, order>>

Descend ==
  /\ stack # <<>> /\ More /\ NextBlock \notin seen
  /\ seen' = seen \cup {NextBlock}
  /\ stack' = Append(Advanced, <<NextBlock, 0>>)
  /\ UNCHANGED <<lists, postorder, order>>

PassOver ==
  /\ stack # <<>> /\ More /\ NextBlock \in seen
  /\ stack' = Advanced
  /\ UNCHANGED <<lists, seen, postorder, order>>

Emit ==
  /\ stack # <<>> /\ ~ More
  /\ postorder' = Append(postorder, TopBlock)
  /\ stack' = Front(stack)
  /\ UNCHANGED <<lists, seen, order>>

(* A bug: postorder itself is taken for the order.                         *)
KeepPostorder ==
  /\ stack = <<>> /\ order = <<>>
  /\ order' = postorder
  /\ UNCHANGED searchVars

ReverseOrder ==
  /\ stack = <<>> /\ order = <<>>
  /\ order' = Reverse(postorder)
  /\ UNCHANGED searchVars

Search == Descend \/ PassOver \/ Emit

Done == order # <<>>

(* Graph::new keeps the edges without their order.                         *)
EdgesOf(b) == ToSet(lists[b])
-----------------------------------------------------------------------------
(* What some path of one or more edges reaches: what is in every set that  *)
(* has the blocks one edge away and follows the edges.                     *)
ReachedFrom(b) == {c \in Blocks : \A R \in SUBSET Blocks :
                     EdgesOf(b) \subseteq R /\ (\A d \in R : EdgesOf(d) \subseteq R) => c \in R}

(* The order is what the engines take it for: it has the entry first, each *)
(* block that some path from the entry reaches, no other block, and none   *)
(* twice, so that `position` of Graph::new is well defined.                *)
OrderIsReachable == Done => WellOrdered([b \in Blocks |-> EdgesOf(b)], order)

(* A forward analysis sees a block after all its predecessors, except      *)
(* along edges that close a cycle; the entry comes first.                  *)
OrderFollowsEdges ==
  Done => /\ order[1] = First
          /\ \A i, j \in DOMAIN order :
               order[i] \in EdgesOf(order[j]) => j < i \/ order[j] \in ReachedFrom(order[i])
-----------------------------------------------------------------------------
CONSTANT Bodies     \* a sequence of sets of [lists, effect, code, analysis]

ASSUME BodiesAssumption ==
  \A i \in DOMAIN Bodies : \A body \in Bodies[i] :
    /\ body.lists \in [Blocks -> Seq(Blocks)]
    /\ body.effect \in [Blocks -> Effects]
    /\ body.analysis \in {"liveness", "unread"}
    /\ \A b \in Blocks :
         /\ body.code[b] \in Seq(Steps) /\ body.code[b] # <<>>
         /\ Last(body.code[b]).replaces = {}

allVars == <<successors, order, searchVars, effect, starts, ends, pending,
             summaries, liveStarts, liveEnds, visited, waiting, analysis, code>>

DataflowInit ==
  /\ \E i \in DOMAIN Bodies : \E body \in Bodies[i] :
       /\ lists = body.lists
       /\ effect = body.effect
       /\ code = body.code
       /\ analysis = body.analysis
  /\ SearchFresh
  /\ successors = [b \in Blocks |-> {}]
  /\ starts = [b \in Blocks |-> None] /\ ends = [b \in Blocks |-> None] /\ pending = {}
  /\ summaries = [b \in Blocks |-> SummaryOf(analysis, code[b])]
  /\ Start

FindOrder ==
  /\ Search
  /\ UNCHANGED <<successors, effect, starts, ends, pending,
                 summaries, liveStarts, liveEnds, visited, waiting, analysis, code>>

(* With the graph complete, the forward analysis starts at the entry and   *)
(* the backward one at every block.                                        *)
BeginAnalyses ==
  /\ ReverseOrder
  /\ successors' = [b \in Blocks |-> EdgesOf(b)]
  /\ pending' = {1}
  /\ waiting' = DOMAIN order'
  /\ UNCHANGED <<effect, starts, ends, summaries, liveStarts, liveEnds, visited, analysis, code>>

RunForward ==
  /\ Next
  /\ UNCHANGED <<searchVars, summaries, liveStarts, liveEnds, visited, waiting, analysis, code>>

RunBackward ==
  /\ pending = {}
  /\ BackwardNext
  /\ UNCHANGED <<searchVars, effect, starts, ends, pending, analysis, code>>

DataflowNext == FindOrder \/ BeginAnalyses \/ RunForward \/ RunBackward

DataflowSpec == DataflowInit /\ [][DataflowNext]_allVars /\ WF_allVars(DataflowNext)
-----------------------------------------------------------------------------
(* The search and both analyses come to an end, whatever loops the graph   *)
(* has, for the monotone effects they are used with.                       *)
AnalysesEnd == <>[](Done /\ pending = {} /\ waiting = {})
===============================================================================
