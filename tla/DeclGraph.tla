------------------------------ MODULE DeclGraph ------------------------------
(***************************************************************************)
(* The search for a cycle among declarations (prepare.rs,                  *)
(* first_declaration_cycle): a depth-first search with an explicit stack   *)
(* over traits and their supertraits, or over effect aliases.  A step is   *)
(* one turn of its inner loop.                                             *)
(***************************************************************************)
EXTENDS Integers, Sequences

CONSTANTS N,            \* how many declarations; they are numbered in source order
          References,   \* the places in the source where one names another
          NoReference,  \* the incoming edge of the root of a search
          Graphs        \* the graphs the search is started on

Nodes == 1 .. N
Edge  == [target : Nodes, reference : References]

ASSUME NAssumption == N \in Nat
ASSUME GraphsAssumption == Graphs \subseteq [Nodes -> Seq(Edge)]

VARIABLES edges,     \* the edges of each declaration, in source order
          state,     \* 0: not visited, 1: on the stack, 2: finished
          position,  \* where an active declaration is on the stack, else 0
          stack,     \* the frames: a node, how many of its edges are taken,
                     \* and the reference that led to it
          result,    \* "searching", "acyclic" or "cycle"
          cycle      \* the cycle found: its nodes, and the edge leaving each

vars == <<edges, state, position, stack, result, cycle>>

Frame(n, reference) == [node |-> n, next |-> 0, incoming |-> reference]
NoCycle == [nodes |-> <<>>, edges |-> <<>>]

Fresh == /\ state = [n \in Nodes |-> 0]
         /\ position = [n \in Nodes |-> 0]
         /\ stack = <<>>
         /\ result = "searching"
         /\ cycle = NoCycle

Init == edges \in Graphs /\ Fresh

Top == stack[Len(stack)]
Exhausted == Top.next = Len(edges[Top.node])
Taken == edges[Top.node][Top.next + 1]    \* the edge of Top that is next

(* The outer loop starts at the first declaration not visited yet.         *)
StartRoot(n) ==
  /\ result = "searching"
  /\ stack = <<>>
  /\ state[n] = 0 /\ \A m \in 1 .. n - 1 : state[m] # 0
  /\ state' = [state EXCEPT ![n] = 1]
  /\ position' = [position EXCEPT ![n] = 1]
  /\ stack' = <<Frame(n, NoReference)>>
  /\ UNCHANGED <<edges, result, cycle>>

FinishSearch ==
  /\ result = "searching"
  /\ stack = <<>>
  /\ \A n \in Nodes : state[n] # 0
  /\ result' = "acyclic"
  /\ UNCHANGED <<edges, state, position, stack, cycle>>

(* A node without further edges leaves the stack for good.                 *)
Finish ==
  /\ result = "searching"
  /\ stack # <<>> /\ Exhausted
  /\ state' = [state EXCEPT ![Top.node] = 2]
  /\ position' = [position EXCEPT ![Top.node] = 0]
  /\ stack' = SubSeq(stack, 1, Len(stack) - 1)
  /\ UNCHANGED <<edges, result, cycle>>

Advanced == [stack EXCEPT ![Len(stack)].next = @ + 1]

Descend ==
  /\ result = "searching"
  /\ stack # <<>> /\ ~ Exhausted
  /\ state[Taken.target] = 0
  /\ state' = [state EXCEPT ![Taken.target] = 1]
  /\ position' = [position EXCEPT ![Taken.target] = Len(stack) + 1]
  /\ stack' = Append(Advanced, Frame(Taken.target, Taken.reference))
  /\ UNCHANGED <<edges, result, cycle>>

(* A bug: an active target is taken for a finished one.                    *)
SkipActive ==
  /\ result = "searching"
  /\ stack # <<>> /\ ~ Exhausted
  /\ state[Taken.target] # 0
  /\ stack' = Advanced
  /\ UNCHANGED <<edges, state, position, result, cycle>>

(* A bug: the edge is not consumed.                                        *)
SkipForEver ==
  /\ result = "searching"
  /\ stack # <<>> /\ ~ Exhausted
  /\ state[Taken.target] = 2
  /\ UNCHANGED vars

Skip ==
  /\ result = "searching"
  /\ stack # <<>> /\ ~ Exhausted
  /\ state[Taken.target] = 2
  /\ stack' = Advanced
  /\ UNCHANGED <<edges, state, position, result, cycle>>

(* The part of the stack from the active target on is the cycle, closed by *)
(* the edge just taken; it is turned so that its smallest node is first.   *)
Turned(s, first) == [i \in 1 .. Len(s) |->
                       s[IF first + i - 1 <= Len(s) THEN first + i - 1
                                                    ELSE first + i - 1 - Len(s)]]

CycleNodes(start) == [i \in 1 .. Len(stack) - start + 1 |-> stack[start + i - 1].node]
(* A bug: each node is paired with the edge that led to it.                *)
IncomingEdges(start) == [i \in 1 .. Len(stack) - start + 1 |->
                           IF i = 1 THEN Taken.reference ELSE stack[start + i - 1].incoming]
CycleEdges(start) == [i \in 1 .. Len(stack) - start + 1 |->
                        IF start + i <= Len(stack) THEN stack[start + i].incoming
                                                   ELSE Taken.reference]
Smallest(nodes) == CHOOSE i \in DOMAIN nodes : \A j \in DOMAIN nodes : nodes[i] <= nodes[j]

Report ==
  /\ result = "searching"
  /\ stack # <<>> /\ ~ Exhausted
  /\ state[Taken.target] = 1
  /\ LET nodes == CycleNodes(position[Taken.target])
     IN  cycle' = [nodes |-> Turned(nodes, Smallest(nodes)),
                   edges |-> Turned(CycleEdges(position[Taken.target]), Smallest(nodes))]
  /\ result' = "cycle"
  /\ stack' = Advanced
  /\ UNCHANGED <<edges, state, position>>

Next == \/ \E n \in Nodes : StartRoot(n)
        \/ FinishSearch \/ Finish \/ Descend \/ Skip \/ Report

Spec == Init /\ [][Next]_vars
-----------------------------------------------------------------------------
TypeOK ==
  /\ edges \in [Nodes -> Seq(Edge)]
  /\ state \in [Nodes -> 0 .. 2]
  /\ position \in [Nodes -> Nat]
  /\ stack \in Seq([node : Nodes, next : Nat, incoming : References \cup {NoReference}])
  /\ result \in {"searching", "acyclic", "cycle"}

(* The stack is the search path: the active nodes in order, each reached   *)
(* by the edge its predecessor took last.                                  *)
StackIsPath ==
  result = "searching" =>
    /\ \A n \in Nodes : state[n] = 1 <=> \E i \in DOMAIN stack : stack[i].node = n
    /\ \A i \in DOMAIN stack : position[stack[i].node] = i
    /\ \A i \in DOMAIN stack : i > 1 =>
         LET above == stack[i - 1]
         IN  /\ above.next \in DOMAIN edges[above.node]
             /\ edges[above.node][above.next] =
                  [target |-> stack[i].node, reference |-> stack[i].incoming]

(* A reported cycle exists: each reference leads from its node to the next *)
(* one round the cycle, no node comes twice, and the smallest comes first. *)
CycleReal ==
  result = "cycle" =>
    LET n == Len(cycle.nodes)
    IN  /\ n > 0 /\ cycle.nodes \in Seq(Nodes) /\ Len(cycle.edges) = n
        /\ \A i \in 1 .. n : \E e \in DOMAIN edges[cycle.nodes[i]] :
             edges[cycle.nodes[i]][e] =
               [target |-> cycle.nodes[IF i = n THEN 1 ELSE i + 1],
                reference |-> cycle.edges[i]]
        /\ \A i, j \in 1 .. n : cycle.nodes[i] = cycle.nodes[j] => i = j
        /\ \A i \in 1 .. n : cycle.nodes[1] <= cycle.nodes[i]

Leads(n, S) == \E e \in DOMAIN edges[n] : edges[n][e].target \in S

(* No set of nodes that all lead back into the set: the finite graph has   *)
(* no cycle.                                                               *)
Acyclic == \A S \in SUBSET Nodes : (\A n \in S : Leads(n, S)) => S = {}

(* A search that reports no cycle was run on a graph without one.          *)
AcceptsOnlyAcyclic == result = "acyclic" => Acyclic
===============================================================================
