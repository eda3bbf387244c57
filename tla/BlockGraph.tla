----------------------------- MODULE BlockGraph -----------------------------
(***************************************************************************)
(* The blocks of a body as the dataflow engines see them (dataflow.rs,     *)
(* Graph): their edges and the order in which they are visited.            *)
(***************************************************************************)
EXTENDS Integers, Sequences

CONSTANTS Blocks, First,    \* First: where the body is entered
          Graphs            \* the edges and visiting orders to analyse

VARIABLES successors, order

Reached == {order[i] : i \in DOMAIN order}
Predecessors(b) == {p \in Reached : b \in successors[p]}

(* What Dataflow establishes: the order lists exactly the blocks that the  *)
(* edges reach from the entry, the entry first.                            *)
WellOrdered(s, o) ==
  /\ s \in [Blocks -> SUBSET Blocks]
  /\ o \in Seq(Blocks) /\ o # <<>> /\ o[1] = First
  /\ \A i, j \in DOMAIN o : o[i] = o[j] => i = j
  /\ \A i \in DOMAIN o : \A b \in s[o[i]] : \E j \in DOMAIN o : o[j] = b
  /\ \A R \in SUBSET Blocks : First \in R /\ (\A b \in R : s[b] \subseteq R)
                                => \A i \in DOMAIN o : o[i] \in R

ASSUME GraphAssumption == \A g \in Graphs : WellOrdered(g.successors, g.order)
===============================================================================
