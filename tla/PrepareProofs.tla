---------------------------- MODULE PrepareProofs ----------------------------
(***************************************************************************)
(* Proofs about the cycle search for graphs of any size, and about the     *)
(* checks of a whole project that it is part of.                           *)
(***************************************************************************)
EXTENDS Prepare, SequenceTheorems, FiniteSetTheorems, WellFoundedInduction, TLAPS

FrameType == [node : Nodes, next : Nat, incoming : References \cup {NoReference}]

(* The edges a frame has taken exist.                                      *)
FramesInRange == \A i \in DOMAIN stack : stack[i].next <= Len(edges[stack[i].node])

(* What a search has finished contains no cycle, and leads only to what is *)
(* finished; what an active node has taken is no longer unvisited.         *)
Finished == {n \in Nodes : state[n] = 2}
FinishedClosed == \A n \in Finished : \A e \in DOMAIN edges[n] : edges[n][e].target \in Finished
FinishedAcyclic == \A S \in SUBSET Finished : (\A n \in S : Leads(n, S)) => S = {}

(* What an active node has taken is finished, but for the edge to the next *)
(* frame.                                                                  *)
TakenFinished ==
  \A i \in DOMAIN stack : \A e \in 1 .. stack[i].next :
    \/ edges[stack[i].node][e].target \in Finished
    \/ i < Len(stack) /\ e = stack[i].next

SearchInv ==
  result = "searching" => FramesInRange /\ TakenFinished /\ FinishedClosed /\ FinishedAcyclic

IInv == TypeOK /\ StackIsPath /\ SearchInv /\ AcceptsOnlyAcyclic
-----------------------------------------------------------------------------
LEMMA FreshIInv == edges \in [Nodes -> Seq(Edge)] /\ Fresh => IInv
  <1>. SUFFICES ASSUME edges \in [Nodes -> Seq(Edge)], Fresh PROVE IInv
    OBVIOUS
  <1>1. stack = <<>> /\ DOMAIN stack = {} /\ stack \in Seq(FrameType)
    BY DEF Fresh
  <1>2. TypeOK
    BY <1>1 DEF Fresh, TypeOK, FrameType
  <1>3. Finished = {}
    BY DEF Fresh, Finished
  <1>4. StackIsPath
    BY <1>1 DEF Fresh, StackIsPath
  <1>5. SearchInv
    BY <1>1, <1>3 DEF SearchInv, FramesInRange, TakenFinished, FinishedClosed, FinishedAcyclic
  <1>6. AcceptsOnlyAcyclic
    BY DEF Fresh, AcceptsOnlyAcyclic
  <1>. QED  BY <1>2, <1>4, <1>5, <1>6 DEF IInv

LEMMA InitIInv == Init => IInv
  <1>1. Init => edges \in [Nodes -> Seq(Edge)] /\ Fresh
    BY GraphsAssumption DEF Init
  <1>. QED  BY <1>1, FreshIInv

(* The top frame while it has edges left.                                  *)
LEMMA TopTypes ==
  ASSUME TypeOK, stack # <<>>
  PROVE  /\ Len(stack) \in Nat /\ Len(stack) >= 1 /\ DOMAIN stack = 1 .. Len(stack)
         /\ Top = stack[Len(stack)] /\ Top \in FrameType
         /\ Len(edges[Top.node]) \in Nat
         /\ DOMAIN edges[Top.node] = 1 .. Len(edges[Top.node])
         /\ \A e \in DOMAIN edges[Top.node] : edges[Top.node][e] \in Edge
  <1>1. stack \in Seq(FrameType)
    BY DEF TypeOK, FrameType
  <1>2. Len(stack) \in Nat /\ Len(stack) >= 1 /\ DOMAIN stack = 1 .. Len(stack)
    BY <1>1, EmptySeq, LenProperties
  <1>3. Top \in FrameType
    BY <1>1, <1>2, ElementOfSeq DEF Top
  <1>4. edges[Top.node] \in Seq(Edge)
    BY <1>3 DEF TypeOK, FrameType
  <1>. QED  BY <1>2, <1>3, <1>4, LenProperties, ElementOfSeq DEF Top

(* Taking an edge advances the top frame and nothing else.                 *)
LEMMA AdvancedTypes ==
  ASSUME TypeOK, SearchInv, result = "searching", stack # <<>>, ~ Exhausted
  PROVE  /\ Advanced \in Seq(FrameType) /\ Len(Advanced) = Len(stack)
         /\ DOMAIN Advanced = DOMAIN stack
         /\ \A i \in DOMAIN stack :
              /\ Advanced[i].node = stack[i].node
              /\ Advanced[i].incoming = stack[i].incoming
              /\ Advanced[i].next = IF i = Len(stack) THEN Top.next + 1 ELSE stack[i].next
         /\ Top.next + 1 \in DOMAIN edges[Top.node]
         /\ Taken \in Edge
  <1>1. Top.next + 1 \in DOMAIN edges[Top.node] /\ Taken \in Edge
    BY TopTypes DEF Exhausted, SearchInv, FramesInRange, FrameType, Taken
  <1>. DEFINE f == [stack[Len(stack)] EXCEPT !.next = @ + 1]
  <1>2. f \in FrameType /\ f.node = Top.node /\ f.incoming = Top.incoming
        /\ f.next = Top.next + 1
    BY TopTypes DEF FrameType
  <1>3. Advanced = [stack EXCEPT ![Len(stack)] = f]
    BY DEF Advanced
  <1>4. stack \in Seq(FrameType) /\ Len(stack) \in 1 .. Len(stack)
    BY TopTypes DEF TypeOK, FrameType
  <1>. HIDE DEF f
  <1>5. /\ Advanced \in Seq(FrameType) /\ Len(Advanced) = Len(stack)
        /\ \A j \in 1 .. Len(stack) : Advanced[j] = IF j = Len(stack) THEN f ELSE stack[j]
    BY <1>2, <1>3, <1>4, ExceptSeq
  <1>. QED  BY <1>1, <1>2, <1>5, TopTypes, LenProperties

(* What the invariant says of a search that goes on, one clause at a time. *)
LEMMA Searching ==
  ASSUME IInv, result = "searching", stack # <<>>
  PROVE  /\ Len(stack) \in Nat /\ Len(stack) >= 1 /\ DOMAIN stack = 1 .. Len(stack)
         /\ \A i \in 1 .. Len(stack) :
              /\ stack[i] \in FrameType /\ stack[i].node \in Nodes /\ stack[i].next \in Nat
              /\ state[stack[i].node] = 1 /\ position[stack[i].node] = i
              /\ stack[i].next <= Len(edges[stack[i].node])
         /\ \A n \in Nodes : state[n] = 1 => \E i \in 1 .. Len(stack) : stack[i].node = n
         /\ \A n \in Nodes : Len(edges[n]) \in Nat /\ DOMAIN edges[n] = 1 .. Len(edges[n])
         /\ \A i \in 2 .. Len(stack) :
              /\ stack[i - 1].next \in DOMAIN edges[stack[i - 1].node]
              /\ edges[stack[i - 1].node][stack[i - 1].next] =
                   [target |-> stack[i].node, reference |-> stack[i].incoming]
         /\ \A i \in 1 .. Len(stack) : \A e \in 1 .. stack[i].next :
              \/ edges[stack[i].node][e].target \in Finished
              \/ i < Len(stack) /\ e = stack[i].next
  <1>1. Len(stack) \in Nat /\ Len(stack) >= 1 /\ DOMAIN stack = 1 .. Len(stack)
    BY TopTypes DEF IInv
  <1>2. \A i \in 1 .. Len(stack) : stack[i] \in FrameType
    BY ElementOfSeq DEF IInv, TypeOK, FrameType
  <1>3. \A i \in 1 .. Len(stack) : stack[i].node \in Nodes /\ stack[i].next \in Nat
    BY <1>2 DEF FrameType
  <1>4. \A i \in 1 .. Len(stack) :
          /\ state[stack[i].node] = 1 /\ position[stack[i].node] = i
          /\ stack[i].next <= Len(edges[stack[i].node])
    BY <1>1, <1>3 DEF IInv, StackIsPath, SearchInv, FramesInRange
  <1>5. \A n \in Nodes : Len(edges[n]) \in Nat /\ DOMAIN edges[n] = 1 .. Len(edges[n])
    BY LenProperties DEF IInv, TypeOK
  <1>6. \A i \in 2 .. Len(stack) :
          /\ stack[i - 1].next \in DOMAIN edges[stack[i - 1].node]
          /\ edges[stack[i - 1].node][stack[i - 1].next] =
               [target |-> stack[i].node, reference |-> stack[i].incoming]
    <2>. TAKE i \in 2 .. Len(stack)
    <2>1. i \in DOMAIN stack /\ i > 1
      BY <1>1
    <2>. QED  BY <2>1 DEF IInv, StackIsPath
  <1>7. \A n \in Nodes : state[n] = 1 => \E i \in 1 .. Len(stack) : stack[i].node = n
    BY <1>1 DEF IInv, StackIsPath
  <1>8. \A i \in 1 .. Len(stack) : \A e \in 1 .. stack[i].next :
          \/ edges[stack[i].node][e].target \in Finished
          \/ i < Len(stack) /\ e = stack[i].next
    BY <1>1 DEF IInv, SearchInv, TakenFinished
  <1>. QED  BY <1>1, <1>2, <1>3, <1>4, <1>5, <1>6, <1>7, <1>8

(* Taking the next edge leaves all frames but the top one as they were.    *)
LEMMA Advancing ==
  ASSUME IInv, result = "searching", stack # <<>>, ~ Exhausted
  PROVE  /\ Advanced \in Seq(FrameType) /\ Len(Advanced) = Len(stack)
         /\ DOMAIN Advanced = 1 .. Len(stack)
         /\ \A i \in 1 .. Len(stack) :
              Advanced[i].node = stack[i].node /\ Advanced[i].incoming = stack[i].incoming
         /\ Advanced[Len(stack)].next = Top.next + 1
         /\ \A i \in 1 .. Len(stack) - 1 : Advanced[i].next = stack[i].next
         /\ Top = stack[Len(stack)] /\ Top.next \in Nat /\ Top.node \in Nodes
         /\ Top.next + 1 \in DOMAIN edges[Top.node]
         /\ Taken = edges[Top.node][Top.next + 1]
         /\ Taken = [target |-> Taken.target, reference |-> Taken.reference]
         /\ Taken.target \in Nodes /\ Taken.reference \in References
  <1>1. SearchInv /\ TypeOK
    BY DEF IInv
  <1>2. Taken \in Edge
    BY <1>1, AdvancedTypes
  <1>3. /\ Taken = [target |-> Taken.target, reference |-> Taken.reference]
        /\ Taken.target \in Nodes /\ Taken.reference \in References
    BY <1>2 DEF Edge
  <1>4. Len(stack) \in Nat /\ Len(stack) >= 1 /\ DOMAIN stack = 1 .. Len(stack)
    BY Searching
  <1>5. Top = stack[Len(stack)] /\ Top.next \in Nat /\ Top.node \in Nodes
    BY <1>4, Searching DEF Top
  <1>6. /\ Advanced \in Seq(FrameType) /\ Len(Advanced) = Len(stack)
        /\ DOMAIN Advanced = DOMAIN stack
        /\ \A i \in DOMAIN stack :
             /\ Advanced[i].node = stack[i].node
             /\ Advanced[i].incoming = stack[i].incoming
             /\ Advanced[i].next = IF i = Len(stack) THEN Top.next + 1 ELSE stack[i].next
        /\ Top.next + 1 \in DOMAIN edges[Top.node]
    BY <1>1, AdvancedTypes
  <1>7. Taken = edges[Top.node][Top.next + 1]
    BY DEF Taken
  <1>. QED  BY <1>3, <1>4, <1>5, <1>6, <1>7

LEMMA StartRootStep ==
  ASSUME IInv, NEW n \in Nodes, StartRoot(n)
  PROVE  IInv'
  <1>. DEFINE f == Frame(n, NoReference)
  <1>1. /\ stack' = <<f>> /\ stack = <<>> /\ state[n] = 0
        /\ state' = [state EXCEPT ![n] = 1] /\ position' = [position EXCEPT ![n] = 1]
        /\ result = "searching" /\ UNCHANGED <<edges, result, cycle>>
    BY DEF StartRoot
  <1>2. f \in FrameType /\ f.node = n /\ f.next = 0
    BY DEF Frame, FrameType
  <1>. HIDE DEF f
  <1>3. stack' \in Seq(FrameType) /\ Len(stack') = 1 /\ stack'[1] = f /\ DOMAIN stack' = {1}
    BY <1>1, <1>2
  <1>4. DOMAIN stack = {}
    BY <1>1
  <1>5. TypeOK'
    BY <1>1, <1>3 DEF IInv, TypeOK, FrameType
  <1>6. StackIsPath'
    BY <1>1, <1>2, <1>3, <1>4 DEF IInv, TypeOK, StackIsPath
  <1>7. Finished' = Finished
    BY <1>1 DEF IInv, TypeOK, Finished
  <1>8. Len(edges[n]) \in Nat
    BY LenProperties DEF IInv, TypeOK
  <1>9. FramesInRange' /\ TakenFinished'
    BY <1>1, <1>2, <1>3, <1>8 DEF FramesInRange, TakenFinished
  <1>10. FinishedClosed' /\ FinishedAcyclic'
    BY <1>1, <1>7 DEF IInv, SearchInv, FinishedClosed, FinishedAcyclic, Leads
  <1>11. AcceptsOnlyAcyclic'
    BY <1>1 DEF AcceptsOnlyAcyclic
  <1>. QED  BY <1>5, <1>6, <1>9, <1>10, <1>11 DEF IInv, SearchInv

(* The outer loop ends with every declaration finished, so the graph of    *)
(* finished declarations is the whole graph.                               *)
LEMMA FinishSearchStep ==
  ASSUME IInv, FinishSearch
  PROVE  IInv'
  <1>1. /\ stack = <<>> /\ result = "searching" /\ result' = "acyclic"
        /\ \A n \in Nodes : state[n] # 0
        /\ UNCHANGED <<edges, state, position, stack, cycle>>
    BY DEF FinishSearch
  <1>2. \A n \in Nodes : state[n] # 1
    BY <1>1 DEF IInv, StackIsPath
  <1>3. Finished = Nodes
    BY <1>1, <1>2 DEF Finished, IInv, TypeOK
  <1>4. Acyclic'
    BY <1>1, <1>3 DEF IInv, SearchInv, FinishedAcyclic, Acyclic, Leads
  <1>. QED  BY <1>1, <1>4 DEF IInv, TypeOK, StackIsPath, SearchInv, AcceptsOnlyAcyclic

LEMMA SkipStep ==
  ASSUME IInv, Skip
  PROVE  IInv'
  <1>1. /\ result = "searching" /\ stack # <<>> /\ ~ Exhausted
        /\ state[Taken.target] = 2 /\ stack' = Advanced
        /\ UNCHANGED <<edges, state, position, result, cycle>>
    BY DEF Skip
  <1>. DEFINE L == Len(stack)
  <1>2. /\ L \in Nat /\ L >= 1 /\ DOMAIN stack = 1 .. L
        /\ stack' \in Seq(FrameType) /\ Len(stack') = L /\ DOMAIN stack' = 1 .. L
        /\ \A i \in 1 .. L :
             stack'[i].node = stack[i].node /\ stack'[i].incoming = stack[i].incoming
        /\ stack'[L].next = Top.next + 1
        /\ \A i \in 1 .. L - 1 : stack'[i].next = stack[i].next
        /\ Top = stack[L] /\ Top.next \in Nat
        /\ Top.next + 1 \in DOMAIN edges[Top.node]
        /\ Taken = edges[Top.node][Top.next + 1] /\ Taken.target \in Nodes
    BY <1>1, Advancing, Searching
  <1>3. TypeOK' /\ Finished' = Finished
    BY <1>1, <1>2 DEF IInv, TypeOK, FrameType, Finished
  <1>4. StackIsPath'
    <2>1. \A n \in Nodes : state[n] = 1 <=> \E i \in 1 .. L : stack[i].node = n
      BY <1>1, Searching
    <2>2. \A i \in 1 .. L : position[stack[i].node] = i
      BY <1>1, Searching
    <2>3. \A i \in 2 .. L :
            /\ stack'[i - 1].next \in DOMAIN edges[stack'[i - 1].node]
            /\ edges[stack'[i - 1].node][stack'[i - 1].next] =
                 [target |-> stack'[i].node, reference |-> stack'[i].incoming]
      <3>. SUFFICES ASSUME NEW i \in 2 .. L
                    PROVE  /\ stack'[i - 1].next \in DOMAIN edges[stack'[i - 1].node]
                           /\ edges[stack'[i - 1].node][stack'[i - 1].next] =
                                [target |-> stack'[i].node, reference |-> stack'[i].incoming]
        OBVIOUS
      <3>1. i - 1 \in 1 .. L - 1 /\ i - 1 \in 1 .. L /\ i \in 1 .. L
        BY <1>2
      <3>2. /\ stack[i - 1].next \in DOMAIN edges[stack[i - 1].node]
            /\ edges[stack[i - 1].node][stack[i - 1].next] =
                 [target |-> stack[i].node, reference |-> stack[i].incoming]
        BY <1>1, Searching
      <3>. QED  BY <1>2, <3>1, <3>2
    <2>. QED  BY <1>1, <1>2, <2>1, <2>2, <2>3 DEF StackIsPath
  <1>5. Taken.target \in Finished
    BY <1>1, <1>2 DEF Finished
  <1>6. TakenFinished' /\ FramesInRange'
    <2>. SUFFICES ASSUME NEW i \in 1 .. L
                  PROVE  /\ stack'[i].next <= Len(edges[stack'[i].node])
                         /\ \A e \in 1 .. stack'[i].next :
                              \/ edges[stack'[i].node][e].target \in Finished
                              \/ i < L /\ e = stack'[i].next
      <3>. edges' = edges /\ Len(stack') = L /\ DOMAIN stack' = 1 .. L
        BY <1>1, <1>2
      <3>. QED  BY <1>3 DEF TakenFinished, FramesInRange
    <2>1. /\ stack[i].next <= Len(edges[stack[i].node]) /\ stack[i].next \in Nat
          /\ Len(edges[stack[i].node]) \in Nat
          /\ DOMAIN edges[stack[i].node] = 1 .. Len(edges[stack[i].node])
          /\ \A e \in 1 .. stack[i].next :
               \/ edges[stack[i].node][e].target \in Finished
               \/ i < L /\ e = stack[i].next
      BY <1>1, Searching
    <2>2. CASE i < L
      <3>1. stack'[i].next = stack[i].next /\ stack'[i].node = stack[i].node
        BY <1>2, <2>2
      <3>. QED  BY <2>1, <2>2, <3>1
    <2>3. CASE i = L
      <3>1. /\ stack'[i].next = stack[i].next + 1 /\ stack'[i].node = stack[i].node
            /\ stack[i].next + 1 \in DOMAIN edges[stack[i].node]
            /\ edges[stack[i].node][stack[i].next + 1].target \in Finished
        BY <1>2, <1>5, <2>3
      <3>2. \A e \in 1 .. stack[i].next : edges[stack[i].node][e].target \in Finished
        BY <2>1, <2>3
      <3>. QED  BY <2>1, <2>3, <3>1, <3>2
    <2>4. i < L \/ i = L
      <3>1. Len(stack) \in Nat
        BY <1>1, Searching
      <3>. QED  BY <3>1
    <2>. QED  BY <2>2, <2>3, <2>4
  <1>7. FinishedClosed' /\ FinishedAcyclic'
    BY <1>1, <1>3 DEF IInv, SearchInv, FinishedClosed, FinishedAcyclic, Leads
  <1>8. AcceptsOnlyAcyclic'
    BY <1>1 DEF AcceptsOnlyAcyclic
  <1>. QED  BY <1>3, <1>4, <1>6, <1>7, <1>8 DEF IInv, SearchInv

LEMMA DescendStep ==
  ASSUME IInv, Descend
  PROVE  IInv'
  <1>. DEFINE L == Len(stack)
              m == Taken.target
              f == Frame(m, Taken.reference)
  <1>1. /\ result = "searching" /\ stack # <<>> /\ ~ Exhausted
        /\ state[m] = 0 /\ stack' = Append(Advanced, f)
        /\ state' = [state EXCEPT ![m] = 1]
        /\ position' = [position EXCEPT ![m] = L + 1]
        /\ UNCHANGED <<edges, result, cycle>>
    BY DEF Descend
  <1>2. /\ m \in Nodes /\ f \in FrameType /\ f.node = m /\ f.next = 0
        /\ edges[Top.node][Top.next + 1] = [target |-> m, reference |-> f.incoming]
    BY <1>1, Advancing DEF FrameType, Frame
  <1>. HIDE DEF m, f
  <1>3. /\ L \in Nat /\ L >= 1 /\ DOMAIN stack = 1 .. L
        /\ Top = stack[L] /\ Top.next \in Nat
        /\ Top.next + 1 \in DOMAIN edges[Top.node]
        /\ \A i \in 1 .. L : stack[i].node \in Nodes /\ state[stack[i].node] = 1
      BY <1>1, Advancing, Searching
  <1>4. /\ stack' \in Seq(FrameType) /\ Len(stack') = L + 1 /\ DOMAIN stack' = 1 .. L + 1
        /\ stack'[L + 1] = f
        /\ \A i \in 1 .. L : stack'[i] = Advanced[i]
    BY <1>1, <1>2, Advancing, AppendProperties, LenProperties
  <1>5. /\ \A i \in 1 .. L : /\ stack'[i].node = stack[i].node
                             /\ stack'[i].incoming = stack[i].incoming
                             /\ stack[i].node # m
        /\ stack'[L].next = Top.next + 1
        /\ \A i \in 1 .. L - 1 : stack'[i].next = stack[i].next
    <2>1. /\ \A i \in 1 .. L :
              Advanced[i].node = stack[i].node /\ Advanced[i].incoming = stack[i].incoming
          /\ Advanced[L].next = Top.next + 1
          /\ \A i \in 1 .. L - 1 : Advanced[i].next = stack[i].next
      BY <1>1, Advancing
    <2>2. L \in 1 .. L /\ \A i \in 1 .. L - 1 : i \in 1 .. L
      BY <1>3
    <2>3. \A i \in 1 .. L : stack[i].node # m
      BY <1>1, <1>3
    <2>. QED  BY <1>4, <2>1, <2>2, <2>3
  <1>6. TypeOK'
    <2>1. state' \in [Nodes -> 0 .. 2] /\ position' \in [Nodes -> Nat]
      <3>1. L + 1 \in Nat /\ state \in [Nodes -> 0 .. 2] /\ position \in [Nodes -> Nat]
        BY <1>3 DEF IInv, TypeOK
      <3>2. [position EXCEPT ![m] = L + 1] \in [Nodes -> Nat]
        BY <3>1
      <3>3. [state EXCEPT ![m] = 1] \in [Nodes -> 0 .. 2]
        <4>. 1 \in 0 .. 2
          OBVIOUS
        <4>. QED  BY <3>1, Zenon
      <3>. QED  BY <1>1, <3>2, <3>3
    <2>. QED  BY <1>1, <1>4, <2>1 DEF IInv, TypeOK, FrameType
  <1>7. Finished' = Finished
    BY <1>1, <1>2 DEF IInv, TypeOK, Finished
  <1>8. /\ \A n \in Nodes : state'[n] = IF n = m THEN 1 ELSE state[n]
        /\ \A n \in Nodes : position'[n] = IF n = m THEN L + 1 ELSE position[n]
    BY <1>1, <1>2 DEF IInv, TypeOK
  <1>9. StackIsPath'
    <2>1. \A n \in Nodes : state'[n] = 1 <=> \E i \in 1 .. L + 1 : stack'[i].node = n
      <3>1. \A n \in Nodes : state[n] = 1 <=> \E i \in 1 .. L : stack[i].node = n
        <4>1. \A n \in Nodes : state[n] = 1 => \E i \in 1 .. L : stack[i].node = n
          BY <1>1, Searching
        <4>. QED  BY <1>3, <4>1
      <3>. SUFFICES ASSUME NEW n \in Nodes
                    PROVE  state'[n] = 1 <=> \E i \in 1 .. L + 1 : stack'[i].node = n
        OBVIOUS
      <3>2. CASE n = m
        <4>1. L + 1 \in 1 .. L + 1 /\ stack'[L + 1].node = m
          BY <1>2, <1>3, <1>4
        <4>. QED  BY <1>8, <3>2, <4>1
      <3>3. CASE n # m
        <4>1. \A i \in 1 .. L + 1 : i \in 1 .. L \/ i = L + 1
          BY <1>3
        <4>2. \A i \in 1 .. L : i \in 1 .. L + 1
          BY <1>3
        <4>3. stack'[L + 1].node # n
          BY <1>2, <1>4, <3>3
        <4>4. \A i \in 1 .. L : stack'[i].node = stack[i].node
          BY <1>5
        <4>5. (\E i \in 1 .. L + 1 : stack'[i].node = n) <=> \E i \in 1 .. L : stack[i].node = n
          BY <4>1, <4>2, <4>3, <4>4, Zenon
        <4>. QED  BY <1>8, <3>1, <3>3, <4>5, Zenon
      <3>. QED  BY <3>2, <3>3
    <2>2. \A i \in 1 .. L + 1 : position'[stack'[i].node] = i
      <3>1. \A i \in 1 .. L : position[stack[i].node] = i
        BY <1>1, Searching
      <3>2. \A i \in 1 .. L : position'[stack'[i].node] = i
        BY <1>3, <1>5, <1>8, <3>1
      <3>3. position'[stack'[L + 1].node] = L + 1
        BY <1>2, <1>4, <1>8
      <3>. QED  BY <1>3, <3>2, <3>3
    <2>3. \A i \in 2 .. L + 1 :
            /\ stack'[i - 1].next \in DOMAIN edges[stack'[i - 1].node]
            /\ edges[stack'[i - 1].node][stack'[i - 1].next] =
                 [target |-> stack'[i].node, reference |-> stack'[i].incoming]
      <3>. SUFFICES ASSUME NEW i \in 2 .. L + 1
                    PROVE  /\ stack'[i - 1].next \in DOMAIN edges[stack'[i - 1].node]
                           /\ edges[stack'[i - 1].node][stack'[i - 1].next] =
                                [target |-> stack'[i].node, reference |-> stack'[i].incoming]
        OBVIOUS
      <3>1. CASE i = L + 1
        <4>1. i - 1 = L /\ L \in 1 .. L
          BY <1>3, <3>1
        <4>. QED  BY <1>2, <1>3, <1>4, <1>5, <3>1, <4>1
      <3>2. CASE i <= L
        <4>1. i - 1 \in 1 .. L - 1 /\ i - 1 \in 1 .. L /\ i \in 1 .. L /\ i \in 2 .. L
          BY <1>3, <3>2
        <4>2. /\ stack[i - 1].next \in DOMAIN edges[stack[i - 1].node]
              /\ edges[stack[i - 1].node][stack[i - 1].next] =
                   [target |-> stack[i].node, reference |-> stack[i].incoming]
          BY <1>1, <4>1, Searching
        <4>. QED  BY <1>5, <4>1, <4>2
      <3>. QED  BY <1>3, <3>1, <3>2
    <2>4. \A i \in 1 .. L + 1 : i > 1 => i \in 2 .. L + 1
      BY <1>3
    <2>5. DOMAIN stack' = 1 .. L + 1 /\ edges' = edges
      BY <1>1, <1>4
    <2>. QED  BY <2>1, <2>2, <2>3, <2>4, <2>5 DEF StackIsPath
  <1>10. TakenFinished' /\ FramesInRange'
    <2>. SUFFICES ASSUME NEW i \in 1 .. L + 1
                  PROVE  /\ stack'[i].next <= Len(edges[stack'[i].node])
                         /\ \A e \in 1 .. stack'[i].next :
                              \/ edges[stack'[i].node][e].target \in Finished
                              \/ i < L + 1 /\ e = stack'[i].next
      BY <1>1, <1>3, <1>4, <1>7 DEF TakenFinished, FramesInRange
    <2>1. CASE i = L + 1
      <3>1. Len(edges[m]) \in Nat
        BY <1>1, <1>2, Searching
      <3>. QED  BY <1>2, <1>3, <1>4, <2>1, <3>1
    <2>2. CASE i <= L
      <3>1. i \in 1 .. L
        BY <1>3, <2>2
      <3>2. /\ stack[i].next <= Len(edges[stack[i].node]) /\ stack[i].next \in Nat
            /\ Len(edges[stack[i].node]) \in Nat
            /\ DOMAIN edges[stack[i].node] = 1 .. Len(edges[stack[i].node])
            /\ \A e \in 1 .. stack[i].next :
                 \/ edges[stack[i].node][e].target \in Finished
                 \/ i < L /\ e = stack[i].next
        BY <1>1, <3>1, Searching
      <3>3. CASE i < L
        <4>1. stack'[i].next = stack[i].next /\ stack'[i].node = stack[i].node
          BY <1>3, <1>5, <3>1, <3>3
        <4>. QED  BY <3>2, <3>3, <4>1
      <3>4. CASE i = L
        <4>1. stack'[i].next = stack[i].next + 1 /\ stack'[i].node = stack[i].node
          BY <1>3, <1>5, <3>1, <3>4
        <4>2. stack'[i].next <= Len(edges[stack[i].node])
          BY <1>3, <3>2, <3>4, <4>1
        <4>3. \A e \in 1 .. stack[i].next : edges[stack[i].node][e].target \in Finished
          BY <3>2, <3>4
        <4>. QED  BY <1>3, <3>2, <3>4, <4>1, <4>2, <4>3
      <3>. QED  BY <1>3, <3>1, <3>3, <3>4
    <2>. QED  BY <1>3, <2>1, <2>2
  <1>11. FinishedClosed' /\ FinishedAcyclic'
    BY <1>1, <1>7 DEF IInv, SearchInv, FinishedClosed, FinishedAcyclic, Leads
  <1>12. AcceptsOnlyAcyclic'
    BY <1>1 DEF AcceptsOnlyAcyclic
  <1>. QED  BY <1>6, <1>9, <1>10, <1>11, <1>12 DEF IInv, SearchInv

LEMMA FinishStep ==
  ASSUME IInv, Finish
  PROVE  IInv'
  <1>. DEFINE L == Len(stack)
              t == Top.node
  <1>1. /\ result = "searching" /\ stack # <<>> /\ Exhausted
        /\ state' = [state EXCEPT ![t] = 2] /\ position' = [position EXCEPT ![t] = 0]
        /\ stack' = SubSeq(stack, 1, L - 1)
        /\ UNCHANGED <<edges, result, cycle>>
    BY DEF Finish
  <1>2. /\ L \in Nat /\ L >= 1 /\ DOMAIN stack = 1 .. L /\ L \in 1 .. L
        /\ stack[L].node = t /\ t \in Nodes
        /\ stack[L].next = Len(edges[t]) /\ DOMAIN edges[t] = 1 .. Len(edges[t])
        /\ \A i \in 1 .. L : /\ stack[i] \in FrameType /\ stack[i].node \in Nodes
                             /\ state[stack[i].node] = 1 /\ position[stack[i].node] = i
    BY <1>1, Searching DEF Top, Exhausted
  <1>. HIDE DEF t
  <1>3. /\ stack' \in Seq(FrameType) /\ Len(stack') = L - 1 /\ DOMAIN stack' = 1 .. L - 1
        /\ \A i \in 1 .. L - 1 : stack'[i] = stack[i]
    <2>1. 1 \in Int /\ L - 1 \in Int /\ \A i \in 1 .. L - 1 : stack[i] \in FrameType
      BY <1>2
    <2>2. /\ SubSeq(stack, 1, L - 1) \in Seq(FrameType)
          /\ Len(SubSeq(stack, 1, L - 1)) = IF 1 <= L - 1 THEN L - 1 - 1 + 1 ELSE 0
          /\ \A i \in 1 .. L - 1 - 1 + 1 : SubSeq(stack, 1, L - 1)[i] = stack[1 + i - 1]
      BY <2>1, SubSeqProperties
    <2>3. L - 1 - 1 + 1 = L - 1 /\ \A i \in 1 .. L - 1 : 1 + i - 1 = i
      BY <1>2
    <2>4. Len(stack') = L - 1
      BY <1>1, <1>2, <2>2
    <2>. QED  BY <1>1, <2>2, <2>3, <2>4, LenProperties
  <1>4. \A i \in 1 .. L - 1 : i \in 1 .. L /\ stack[i].node # t
    BY <1>2
  <1>5. /\ state' \in [Nodes -> 0 .. 2] /\ position' \in [Nodes -> Nat]
        /\ \A n \in Nodes : state'[n] = IF n = t THEN 2 ELSE state[n]
        /\ \A n \in Nodes : position'[n] = IF n = t THEN 0 ELSE position[n]
    <2>1. state \in [Nodes -> 0 .. 2] /\ position \in [Nodes -> Nat] /\ 2 \in 0 .. 2 /\ 0 \in Nat
      BY DEF IInv, TypeOK
    <2>2. state' \in [Nodes -> 0 .. 2] /\ position' \in [Nodes -> Nat]
      BY <1>1, <2>1, Zenon
    <2>. QED  BY <1>1, <2>1, <2>2
  <1>6. TypeOK'
    BY <1>1, <1>3, <1>5 DEF IInv, TypeOK, FrameType
  <1>7. Finished' = Finished \cup {t}
    BY <1>2, <1>5 DEF Finished
  <1>8. t \notin Finished
    BY <1>2 DEF Finished
  <1>9. StackIsPath'
    <2>1. \A n \in Nodes : state'[n] = 1 <=> \E i \in 1 .. L - 1 : stack'[i].node = n
      <3>. SUFFICES ASSUME NEW n \in Nodes
                    PROVE  state'[n] = 1 <=> \E i \in 1 .. L - 1 : stack'[i].node = n
        OBVIOUS
      <3>1. \A i \in 1 .. L - 1 : stack'[i].node = stack[i].node /\ state[stack[i].node] = 1
        BY <1>2, <1>3, <1>4
      <3>2. CASE n = t
        <4>1. \A i \in 1 .. L - 1 : stack'[i].node # t
          BY <1>3, <1>4
        <4>2. state'[n] = 2
          BY <1>5, <3>2
        <4>. QED  BY <3>2, <4>1, <4>2
      <3>3. CASE n # t
        <4>1. state[n] = 1 => \E i \in 1 .. L : stack[i].node = n
          BY <1>1, Searching
        <4>2. \A i \in 1 .. L : stack[i].node = n => i \in 1 .. L - 1
          BY <1>2, <3>3
        <4>3. state'[n] = state[n]
          BY <1>5, <3>3
        <4>. QED  BY <3>1, <4>1, <4>2, <4>3, Zenon
      <3>. QED  BY <3>2, <3>3
    <2>2. \A i \in 1 .. L - 1 : position'[stack'[i].node] = i
      <3>. TAKE i \in 1 .. L - 1
      <3>1. stack'[i] = stack[i] /\ stack[i].node # t /\ i \in 1 .. L
        BY <1>3, <1>4
      <3>2. stack[i].node \in Nodes /\ position[stack[i].node] = i
        BY <1>2, <3>1
      <3>3. position'[stack[i].node] = position[stack[i].node]
        BY <1>5, <3>1, <3>2
      <3>. QED  BY <3>1, <3>2, <3>3
    <2>3. \A i \in 1 .. L - 1 : i > 1 =>
            /\ stack'[i - 1].next \in DOMAIN edges[stack'[i - 1].node]
            /\ edges[stack'[i - 1].node][stack'[i - 1].next] =
                 [target |-> stack'[i].node, reference |-> stack'[i].incoming]
      <3>. SUFFICES ASSUME NEW i \in 1 .. L - 1, i > 1
                    PROVE  /\ stack'[i - 1].next \in DOMAIN edges[stack'[i - 1].node]
                           /\ edges[stack'[i - 1].node][stack'[i - 1].next] =
                                [target |-> stack'[i].node, reference |-> stack'[i].incoming]
        OBVIOUS
      <3>1. i - 1 \in 1 .. L - 1 /\ i \in 2 .. L
        BY <1>2
      <3>2. /\ stack[i - 1].next \in DOMAIN edges[stack[i - 1].node]
            /\ edges[stack[i - 1].node][stack[i - 1].next] =
                 [target |-> stack[i].node, reference |-> stack[i].incoming]
        BY <1>1, <3>1, Searching
      <3>. QED  BY <1>3, <3>1, <3>2
    <2>4. DOMAIN stack' = 1 .. L - 1 /\ edges' = edges
      BY <1>1, <1>3
    <2>. QED  BY <2>1, <2>2, <2>3, <2>4 DEF StackIsPath
  <1>10. TakenFinished' /\ FramesInRange'
    <2>. SUFFICES ASSUME NEW i \in 1 .. L - 1
                  PROVE  /\ stack'[i].next <= Len(edges[stack'[i].node])
                         /\ \A e \in 1 .. stack'[i].next :
                              \/ edges[stack'[i].node][e].target \in Finished'
                              \/ i < L - 1 /\ e = stack'[i].next
      <3>. edges' = edges /\ Len(stack') = L - 1 /\ DOMAIN stack' = 1 .. L - 1
        BY <1>1, <1>3
      <3>. QED  BY DEF TakenFinished, FramesInRange
    <2>1. stack'[i] = stack[i] /\ i \in 1 .. L
      BY <1>3, <1>4
    <2>2. /\ stack[i].next <= Len(edges[stack[i].node])
          /\ \A e \in 1 .. stack[i].next :
               \/ edges[stack[i].node][e].target \in Finished
               \/ i < L /\ e = stack[i].next
      BY <1>1, <2>1, Searching
    <2>3. CASE i < L - 1
      BY <1>7, <2>1, <2>2, <2>3
    <2>4. CASE i = L - 1
      <3>1. L - 1 = i /\ L \in 2 .. L
        BY <1>2, <2>4
      <3>2. edges[stack[i].node][stack[i].next].target = t
        <4>1. edges[stack[L - 1].node][stack[L - 1].next] =
                [target |-> stack[L].node, reference |-> stack[L].incoming]
          BY <1>1, <3>1, Searching
        <4>. QED  BY <1>2, <3>1, <4>1
      <3>. QED  BY <1>7, <2>1, <2>2, <3>2
    <2>5. i < L - 1 \/ i = L - 1
      <3>1. Len(stack) \in Nat
        BY <1>1, Searching
      <3>. QED  BY <3>1
    <2>. QED  BY <2>3, <2>4, <2>5
  <1>11. \A e \in DOMAIN edges[t] : edges[t][e].target \in Finished
    <2>1. \A e \in 1 .. stack[L].next :
            \/ edges[stack[L].node][e].target \in Finished
            \/ L < L /\ e = stack[L].next
      BY <1>1, <1>2, Searching
    <2>. QED  BY <1>2, <2>1
  <1>12. FinishedClosed'
    <2>1. \A n \in Finished : \A e \in DOMAIN edges[n] : edges[n][e].target \in Finished
      BY <1>1 DEF IInv, SearchInv, FinishedClosed
    <2>2. edges' = edges
      BY <1>1
    <2>. QED  BY <1>7, <1>11, <2>1, <2>2 DEF FinishedClosed
  <1>13. FinishedAcyclic'
    <2>. SUFFICES ASSUME NEW S \in SUBSET (Finished \cup {t}), \A n \in S : Leads(n, S)
                  PROVE  S = {}
      <3>1. edges' = edges
        BY <1>1
      <3>. QED  BY <1>7, <3>1 DEF FinishedAcyclic, Leads
    <2>1. \A n \in Finished : \A e \in DOMAIN edges[n] : edges[n][e].target \in Finished
      BY <1>1 DEF IInv, SearchInv, FinishedClosed
    <2>2. \A n \in S \ {t} : Leads(n, S \ {t})
      BY <1>8, <2>1 DEF Leads
    <2>3. S \ {t} = {}
      BY <1>1, <2>2 DEF IInv, SearchInv, FinishedAcyclic
    <2>4. t \notin S
      BY <1>8, <1>11, <2>3 DEF Leads
    <2>. QED  BY <2>3, <2>4
  <1>14. AcceptsOnlyAcyclic'
    BY <1>1 DEF AcceptsOnlyAcyclic
  <1>. QED  BY <1>6, <1>9, <1>10, <1>12, <1>13, <1>14 DEF IInv, SearchInv

LEMMA ReportStep ==
  ASSUME IInv, Report
  PROVE  IInv'
  <1>1. /\ result = "searching" /\ stack # <<>> /\ ~ Exhausted /\ stack' = Advanced
        /\ result' = "cycle" /\ UNCHANGED <<edges, state, position>>
    BY DEF Report
  <1>2. TypeOK'
    BY <1>1, Advancing DEF IInv, TypeOK, FrameType
  <1>. QED  BY <1>1, <1>2 DEF IInv, StackIsPath, SearchInv, AcceptsOnlyAcyclic

LEMMA StepIInv ==
  ASSUME IInv, [Next]_vars
  PROVE  IInv'
  <1>1. CASE UNCHANGED vars
    <2>1. UNCHANGED <<edges, state, position, stack, result, cycle>>
      BY <1>1 DEF vars
    <2>2. TypeOK'
      BY <2>1 DEF IInv, TypeOK
    <2>3. StackIsPath'
      BY <2>1 DEF IInv, StackIsPath
    <2>4. Finished' = Finished
      BY <2>1 DEF Finished
    <2>5. SearchInv'
      BY <2>1, <2>4 DEF IInv, SearchInv, FramesInRange, TakenFinished, FinishedClosed,
                        FinishedAcyclic, Leads
    <2>6. AcceptsOnlyAcyclic'
      BY <2>1 DEF IInv, AcceptsOnlyAcyclic, Acyclic, Leads
    <2>. QED  BY <2>2, <2>3, <2>5, <2>6 DEF IInv
  <1>. QED  BY <1>1, StartRootStep, FinishSearchStep, FinishStep, DescendStep, SkipStep,
               ReportStep DEF Next

THEOREM Invariant == Spec => []IInv
  BY InitIInv, StepIInv, PTL DEF Spec

(* The search keeps its data well typed on every graph.                    *)
THEOREM TypeCorrect == Spec => []TypeOK
  <1>1. IInv => TypeOK
    BY DEF IInv
  <1>. QED  BY <1>1, Invariant, PTL

(* A set of declarations that the search accepts has no cycle, however     *)
(* large the project: validate_declaration_graph lets through only         *)
(* supertraits and effect aliases that later passes can expand.            *)
THEOREM Completeness == Spec => []AcceptsOnlyAcyclic
  <1>1. IInv => AcceptsOnlyAcyclic
    BY DEF IInv
  <1>. QED  BY <1>1, Invariant, PTL

-----------------------------------------------------------------------------
(* The cycle found on the stack, before it is turned: the node after the   *)
(* last is the first again.                                                *)
After(j, n) == IF j = n THEN 1 ELSE j + 1

LEMMA PlacesAbove ==
  ASSUME NEW L \in Nat, NEW s \in 1 .. L, NEW n, n = L - s + 1, NEW j \in 1 .. n, j # n
  PROVE  /\ s + j <= L /\ j + 1 \in 1 .. n /\ s + j \in 2 .. L
         /\ s + (j + 1) - 1 = s + j
  OBVIOUS

LEMMA FoundCycle ==
  ASSUME IInv, Report,
         NEW start, start = position[Taken.target],
         NEW n, n = Len(stack) - start + 1
  PROVE  /\ start \in 1 .. Len(stack) /\ n \in Nat /\ n >= 1
         /\ \A j \in 1 .. n : CycleNodes(start)[j] \in Nodes
         /\ \A i, j \in 1 .. n : CycleNodes(start)[i] = CycleNodes(start)[j] => i = j
         /\ \A j \in 1 .. n : \E e \in DOMAIN edges[CycleNodes(start)[j]] :
              edges[CycleNodes(start)[j]][e] =
                [target |-> CycleNodes(start)[After(j, n)],
                 reference |-> CycleEdges(start)[j]]
  <1>. DEFINE L == Len(stack)
  <1>1. /\ result = "searching" /\ stack # <<>> /\ ~ Exhausted
        /\ state[Taken.target] = 1
    BY DEF Report
  <1>2. L \in Nat /\ L >= 1
    BY <1>1, Searching
  <1>3. /\ Taken.target \in Nodes
        /\ Taken = [target |-> Taken.target, reference |-> Taken.reference]
        /\ Top = stack[L] /\ Top.next + 1 \in DOMAIN edges[Top.node]
        /\ Taken = edges[Top.node][Top.next + 1]
    BY <1>1, Advancing
  <1>4. PICK i \in 1 .. L : stack[i].node = Taken.target
    BY <1>1, <1>3, Searching
  <1>5. position[stack[i].node] = i
    BY <1>1, Searching
  <1>6. start \in 1 .. L /\ stack[start].node = Taken.target
    BY <1>4, <1>5
  <1>7. n \in Nat /\ n >= 1
    BY <1>2, <1>6
  <1>8. \A j \in 1 .. n : /\ start + j - 1 \in 1 .. L
                          /\ CycleNodes(start)[j] = stack[start + j - 1].node
    BY <1>2, <1>6 DEF CycleNodes
  <1>9. \A j \in 1 .. n : CycleNodes(start)[j] \in Nodes
    BY <1>1, <1>8, Searching
  <1>10. ASSUME NEW k \in 1 .. n, NEW j \in 1 .. n, CycleNodes(start)[k] = CycleNodes(start)[j]
         PROVE  k = j
    <2>1. /\ position[stack[start + k - 1].node] = start + k - 1
          /\ position[stack[start + j - 1].node] = start + j - 1
      BY <1>1, <1>8, Searching
    <2>2. start + k - 1 = start + j - 1
      BY <1>8, <1>10, <2>1
    <2>. QED  BY <1>6, <1>7, <2>2
  <1>11. ASSUME NEW j \in 1 .. n
         PROVE  \E e \in DOMAIN edges[CycleNodes(start)[j]] :
                  edges[CycleNodes(start)[j]][e] =
                    [target |-> CycleNodes(start)[After(j, n)],
                     reference |-> CycleEdges(start)[j]]
    <2>1. CASE j = n
      <3>1. start + j - 1 = L /\ ~ (start + j <= L) /\ 1 \in 1 .. n /\ start + 1 - 1 = start
        <4>1. j \in 1 .. n /\ L \in Nat /\ start \in 1 .. L
          BY <1>2, <1>6, <1>11
        <4>2. n = L - start + 1
          OBVIOUS
        <4>3. n \in Nat /\ n >= 1
          BY <1>7
        <4>. HIDE DEF L
        <4>4. start + j - 1 = L
          BY <2>1, <4>1, <4>2
        <4>5. ~ (start + j <= L)
          BY <4>1, <4>4
        <4>6. 1 \in 1 .. n /\ start + 1 - 1 = start
          BY <4>1, <4>3
        <4>. QED  BY <4>4, <4>5, <4>6
      <3>2. CycleNodes(start)[j] = Top.node
        BY <1>3, <1>8, <3>1
      <3>4. CycleNodes(start)[1] = Taken.target
        BY <1>6, <1>8, <3>1
      <3>3. CycleEdges(start)[j] = Taken.reference
        BY <3>1, <1>11 DEF CycleEdges
      <3>5. After(j, n) = 1
        BY <2>1 DEF After
      <3>. QED  BY <1>3, <3>2, <3>3, <3>4, <3>5
    <2>2. CASE j # n
      <3>1. /\ start + j <= L /\ j + 1 \in 1 .. n /\ start + j \in 2 .. L
            /\ start + (j + 1) - 1 = start + j
        <4>1. L \in Nat /\ start \in 1 .. L /\ n = L - start + 1 /\ j \in 1 .. n /\ j # n
          BY <1>2, <1>6, <1>11, <2>2
        <4>. HIDE DEF L
        <4>. QED  BY <4>1, PlacesAbove, Zenon
      <3>2. /\ CycleNodes(start)[j] = stack[start + j - 1].node
            /\ CycleNodes(start)[j + 1] = stack[start + j].node
        BY <1>8, <3>1
      <3>3. CycleEdges(start)[j] = stack[start + j].incoming
        BY <3>1, <1>11 DEF CycleEdges
      <3>4. /\ stack[start + j - 1].next \in DOMAIN edges[stack[start + j - 1].node]
            /\ edges[stack[start + j - 1].node][stack[start + j - 1].next] =
                 [target |-> stack[start + j].node, reference |-> stack[start + j].incoming]
        <4>1. \A m \in 2 .. L :
                /\ stack[m - 1].next \in DOMAIN edges[stack[m - 1].node]
                /\ edges[stack[m - 1].node][stack[m - 1].next] =
                     [target |-> stack[m].node, reference |-> stack[m].incoming]
          BY <1>1, Searching
        <4>2. PICK q \in 2 .. L : q = start + j
          BY <3>1
        <4>3. /\ stack[q - 1].next \in DOMAIN edges[stack[q - 1].node]
              /\ edges[stack[q - 1].node][stack[q - 1].next] =
                   [target |-> stack[q].node, reference |-> stack[q].incoming]
          BY <4>1
        <4>4. q - 1 = start + j - 1
          BY <1>2, <1>6, <1>7, <4>2
        <4>. QED  BY <4>2, <4>3, <4>4, Zenon
      <3>. QED  BY <2>2, <3>2, <3>3, <3>4 DEF After
    <2>. QED  BY <2>1, <2>2
  <1>. QED  BY <1>6, <1>7, <1>9, <1>10, <1>11

(* Some node of a cycle is the smallest.                                   *)
LEMMA SmallestExists ==
  ASSUME NEW n \in Nat, n >= 1, NEW f \in [1 .. n -> Nat]
  PROVE  Smallest(f) \in 1 .. n /\ \A j \in 1 .. n : f[Smallest(f)] <= f[j]
  <1>. DEFINE S == {f[i] : i \in 1 .. n}
  <1>1. S \in SUBSET Nat /\ S # {}
    <2>. 1 \in 1 .. n
      OBVIOUS
    <2>. QED  OBVIOUS
  <1>2. PICK m \in S : \A y \in S : <<y, m>> \notin OpToRel(<, Nat)
    BY <1>1, WFMin, NatLessThanWellFounded, Zenon
  <1>3. \A y \in S : ~ (y < m)
    <2>. SUFFICES ASSUME NEW y \in S, y < m PROVE FALSE
      OBVIOUS
    <2>1. y \in Nat /\ m \in Nat
      BY <1>1
    <2>2. <<y, m>> \in OpToRel(<, Nat)
      BY <2>1, Zenon DEF OpToRel
    <2>. QED  BY <1>2, <2>2
  <1>4. PICK i \in 1 .. n : f[i] = m
    BY <1>2
  <1>5. \A j \in 1 .. n : f[i] <= f[j]
    <2>. SUFFICES ASSUME NEW j \in 1 .. n PROVE f[i] <= f[j]
      OBVIOUS
    <2>1. f[j] \in S /\ ~ (f[j] < f[i])
      BY <1>3, <1>4
    <2>2. f[i] \in Nat /\ f[j] \in Nat
      OBVIOUS
    <2>. HIDE DEF S
    <2>. QED  BY <2>1, <2>2
  <1>6. DOMAIN f = 1 .. n
    OBVIOUS
  <1>. QED  BY <1>5, <1>6 DEF Smallest

LEMMA CycleRealStep ==
  ASSUME IInv, CycleReal, [Next]_vars
  PROVE  CycleReal'
  <1>1. CASE Report
    <2>. DEFINE start == position[Taken.target]
                n == Len(stack) - start + 1
                f == CycleNodes(start)
                g == CycleEdges(start)
                k == Smallest(f)
                T(i) == IF k + i - 1 <= n THEN k + i - 1 ELSE k + i - 1 - n
    <2>1. /\ n \in Nat /\ n >= 1
          /\ \A j \in 1 .. n : f[j] \in Nodes
          /\ \A i, j \in 1 .. n : f[i] = f[j] => i = j
          /\ \A j \in 1 .. n : \E e \in DOMAIN edges[f[j]] :
               edges[f[j]][e] = [target |-> f[After(j, n)], reference |-> g[j]]
      BY <1>1, FoundCycle
    <2>2. f = [i \in 1 .. n |-> stack[start + i - 1].node] /\ DOMAIN g = 1 .. n /\ DOMAIN f = 1 .. n
      BY DEF CycleNodes, CycleEdges
    <2>3. Len(f) = n /\ Len(g) = n
      BY <2>1, <2>2 DEF CycleNodes, CycleEdges
    <2>4. /\ cycle' = [nodes |-> Turned(f, k), edges |-> Turned(g, k)]
          /\ result' = "cycle" /\ edges' = edges
      BY <1>1 DEF Report
    <2>. HIDE DEF f, g, start, n, k
    <2>5. k \in 1 .. n /\ \A j \in 1 .. n : f[k] <= f[j]
      <3>1. f \in [1 .. n -> Nat]
        BY <2>1, <2>2 DEF Nodes
      <3>. QED  BY <2>1, <3>1, SmallestExists DEF k
    <2>6. /\ \A i \in 1 .. n : T(i) \in 1 .. n
          /\ \A i, j \in 1 .. n : T(i) = T(j) => i = j
          /\ \A i \in 1 .. n : After(T(i), n) = T(IF i = n THEN 1 ELSE i + 1)
          /\ T(1) = k
      BY <2>1, <2>5 DEF After
    <2>7. /\ Turned(f, k) = [i \in 1 .. n |-> f[T(i)]]
          /\ Turned(g, k) = [i \in 1 .. n |-> g[T(i)]]
      BY <2>3 DEF Turned
    <2>. HIDE DEF T
    <2>8. /\ Len(cycle'.nodes) = n /\ Len(cycle'.edges) = n
          /\ \A i \in 1 .. n : cycle'.nodes[i] = f[T(i)] /\ cycle'.edges[i] = g[T(i)]
      BY <2>1, <2>4, <2>7
    <2>9. ASSUME NEW i \in 1 .. n
          PROVE  \E e \in DOMAIN edges[cycle'.nodes[i]] :
                   edges[cycle'.nodes[i]][e] =
                     [target |-> cycle'.nodes[IF i = n THEN 1 ELSE i + 1],
                      reference |-> cycle'.edges[i]]
      <3>1. PICK e \in DOMAIN edges[f[T(i)]] :
              edges[f[T(i)]][e] = [target |-> f[After(T(i), n)], reference |-> g[T(i)]]
        BY <2>1, <2>6
      <3>2. (IF i = n THEN 1 ELSE i + 1) \in 1 .. n
        BY <2>1
      <3>. QED  BY <2>6, <2>8, <3>1, <3>2
    <2>10. \A i, j \in 1 .. n : cycle'.nodes[i] = cycle'.nodes[j] => i = j
      <3>1. \A i, j \in 1 .. n : f[i] = f[j] => i = j
        BY <2>1
      <3>. SUFFICES ASSUME NEW i \in 1 .. n, NEW j \in 1 .. n,
                           cycle'.nodes[i] = cycle'.nodes[j]
                    PROVE  i = j
        OBVIOUS
      <3>2. f[T(i)] = f[T(j)]
        BY <2>8
      <3>3. T(i) \in 1 .. n /\ T(j) \in 1 .. n
        BY <2>6
      <3>4. T(i) = T(j)
        BY <3>1, <3>2, <3>3, Zenon
      <3>. QED  BY <2>6, <3>4
    <2>11. \A i \in 1 .. n : cycle'.nodes[1] <= cycle'.nodes[i]
      <3>1. 1 \in 1 .. n
        BY <2>1
      <3>. QED  BY <2>5, <2>6, <2>8, <3>1
    <2>12. cycle'.nodes \in Seq(Nodes)
      <3>1. cycle'.nodes = [i \in 1 .. n |-> f[T(i)]]
        BY <2>4, <2>7
      <3>2. cycle'.nodes \in [1 .. n -> Nodes]
        BY <2>1, <2>6, <3>1
      <3>. QED  BY <2>1, <3>2
    <2>13. n > 0
      BY <2>1
    <2>14. n = Len(cycle'.nodes) /\ Len(cycle'.edges) = n /\ edges' = edges
      BY <2>4, <2>8
    <2>. QED  BY <2>9, <2>10, <2>11, <2>12, <2>13, <2>14 DEF CycleReal
  <1>2. CASE ~ Report /\ Next
    <2>1. result' # "cycle"
      BY <1>2 DEF Next, StartRoot, FinishSearch, Finish, Descend, Skip
    <2>. QED  BY <2>1 DEF CycleReal
  <1>3. CASE UNCHANGED vars
    BY <1>3 DEF vars, CycleReal
  <1>. QED  BY <1>1, <1>2, <1>3

(* A rejected project really has the cycle the diagnostic names: every     *)
(* reference it shows leads from the declaration before it to the one      *)
(* after it, and the cycle starts at its first declaration in the source.  *)
THEOREM Soundness == Spec => []CycleReal
  <1>1. Init => CycleReal
    BY DEF Init, Fresh, CycleReal
  <1>. QED  BY <1>1, CycleRealStep, Invariant, PTL DEF Spec
-----------------------------------------------------------------------------
(* The edges of a declaration, sorted by their places: each place is some  *)
(* edge's.  The first index up to which there are k places is the kth.     *)
LEMMA SomePlace ==
  ASSUME NEW L \in Nat, NEW P \in SUBSET (1 .. L), NEW k \in 1 .. Cardinality(P)
  PROVE  \E i \in P : UpTo(P, i) = k
  <1>. DEFINE Below(m) == {j \in P : j <= m}
              S == {m \in Nat : Cardinality(Below(m)) >= k}
  <1>1. IsFiniteSet(P) /\ Cardinality(P) \in Nat /\ k \in Nat /\ k >= 1
    <2>1. IsFiniteSet(1 .. L)
      BY FS_Interval, 1 \in Int, L \in Int
    <2>2. IsFiniteSet(P) /\ Cardinality(P) \in Nat
      BY <2>1, FS_Subset, FS_CardinalityType
    <2>. QED  BY <2>2
  <1>2. \A m \in Nat : IsFiniteSet(Below(m)) /\ Cardinality(Below(m)) \in Nat
    <2>. SUFFICES ASSUME NEW m \in Nat PROVE IsFiniteSet(Below(m)) /\ Cardinality(Below(m)) \in Nat
      OBVIOUS
    <2>1. Below(m) \in SUBSET P
      OBVIOUS
    <2>. QED  BY <1>1, <2>1, FS_Subset, FS_CardinalityType
  <1>3. L \in S
    <2>1. \A j \in P : j <= L
      OBVIOUS
    <2>2. Below(L) = P
      BY <2>1
    <2>3. Cardinality(P) >= k
      BY <1>1
    <2>4. Cardinality(Below(L)) >= k
      BY <2>2, <2>3
    <2>. QED  BY <2>4
  <1>4. PICK m \in S : \A y \in S : <<y, m>> \notin OpToRel(<, Nat)
    <2>1. S \in SUBSET Nat /\ S # {}
      BY <1>3
    <2>. QED  BY <2>1, WFMin, NatLessThanWellFounded, Zenon
  <1>5. m \in Nat /\ Cardinality(Below(m)) >= k
    BY <1>4
  <1>6. m # 0
    <2>1. \A j \in P : ~ (j <= 0)
      OBVIOUS
    <2>3. Below(0) = {}
      BY <2>1
    <2>2. Cardinality(Below(0)) = 0
      BY <2>3, FS_EmptySet
    <2>. QED  BY <1>1, <1>5, <2>2
  <1>7. m - 1 \in Nat
    BY <1>5, <1>6
  <1>8. Cardinality(Below(m - 1)) < k
    <2>1. m - 1 < m
      BY <1>5
    <2>2. <<m - 1, m>> \in OpToRel(<, Nat)
      BY <1>5, <1>7, <2>1, Zenon DEF OpToRel
    <2>3. m - 1 \notin S
      BY <1>4, <2>2
    <2>4. Cardinality(Below(m - 1)) \in Nat
      BY <1>2, <1>7
    <2>5. ~ (Cardinality(Below(m - 1)) >= k)
      BY <1>7, <2>3
    <2>. HIDE DEF Below
    <2>. QED  BY <1>1, <2>4, <2>5
  <1>9. m \in P
    <2>. SUFFICES ASSUME m \notin P PROVE FALSE
      OBVIOUS
    <2>1. \A j \in P : j \in Nat
      OBVIOUS
    <2>2. \A j \in P : j <= m <=> j <= m - 1
      <3>. TAKE j \in P
      <3>1. j \in Nat /\ j # m
        BY <2>1
      <3>. QED  BY <1>5, <3>1
    <2>4. Below(m) = Below(m - 1)
      BY <2>2
    <2>. HIDE DEF Below
    <2>3. Cardinality(Below(m)) \in Nat
      BY <1>2, <1>5
    <2>. QED  BY <1>1, <1>5, <1>8, <2>4, <2>3
  <1>10. Cardinality(Below(m)) = Cardinality(Below(m - 1)) + 1
    <2>1. \A j \in P : j \in Nat
      OBVIOUS
    <2>4. \A j \in P : j <= m <=> j <= m - 1 \/ j = m
      BY <1>5, <2>1
    <2>5. ~ (m <= m - 1)
      BY <1>5
    <2>2. Below(m) = Below(m - 1) \cup {m} /\ m \notin Below(m - 1)
      BY <1>9, <2>4, <2>5
    <2>3. IsFiniteSet(Below(m - 1))
      BY <1>2, <1>7
    <2>. HIDE DEF Below
    <2>. QED  BY <2>2, <2>3, FS_AddElement
  <1>11. Cardinality(Below(m)) = k
    <2>1. Cardinality(Below(m - 1)) \in Nat /\ Cardinality(Below(m)) \in Nat
      BY <1>2, <1>5, <1>7
    <2>. HIDE DEF Below
    <2>. QED  BY <1>1, <1>5, <1>8, <1>10, <2>1
  <1>. QED  BY <1>9, <1>11 DEF UpTo

LEMMA PlaceIsCounted ==
  ASSUME NEW L \in Nat, NEW P \in SUBSET (1 .. L), NEW i \in P
  PROVE  UpTo(P, i) \in 1 .. Cardinality(P)
  <1>. DEFINE B == {j \in P : j <= i}
  <1>1. IsFiniteSet(P)
    <2>1. IsFiniteSet(1 .. L)
      BY FS_Interval, 1 \in Int, L \in Int
    <2>. QED  BY <2>1, FS_Subset
  <1>2. B \in SUBSET P /\ i \in B
    OBVIOUS
  <1>. HIDE DEF B
  <1>3. IsFiniteSet(B) /\ Cardinality(B) <= Cardinality(P)
    BY <1>1, <1>2, FS_Subset
  <1>4. Cardinality(B) \in Nat /\ Cardinality(P) \in Nat
    BY <1>1, <1>3, FS_CardinalityType
  <1>5. Cardinality(B) # 0
    BY <1>2, <1>3, FS_EmptySet
  <1>6. Cardinality(B) \in 1 .. Cardinality(P)
    BY <1>3, <1>4, <1>5
  <1>. QED  BY <1>6 DEF UpTo, B

(* No two places count the same.                                           *)
LEMMA SamePlace ==
  ASSUME NEW L \in Nat, NEW P \in SUBSET (1 .. L), NEW i \in P, NEW j \in P,
         UpTo(P, i) = UpTo(P, j)
  PROVE  i = j
  <1>1. ASSUME NEW a \in P, NEW b \in P, a < b
        PROVE  UpTo(P, a) # UpTo(P, b)
    <2>. DEFINE A == {x \in P : x <= a}
                B == {x \in P : x <= b}
    <2>1. a \in Nat /\ b \in Nat /\ \A x \in P : x \in Nat
      OBVIOUS
    <2>2. \A x \in P : x <= a => x <= b
      BY <1>1, <2>1
    <2>3. A \in SUBSET B /\ b \in B /\ b \notin A
      <3>1. b <= b /\ ~ (b <= a)
        BY <1>1, <2>1
      <3>2. A \in SUBSET B
        BY <2>2
      <3>. QED  BY <3>1, <3>2
    <2>4. IsFiniteSet(B)
      <3>1. IsFiniteSet(1 .. L)
        BY FS_Interval, 1 \in Int, L \in Int
      <3>2. B \in SUBSET (1 .. L)
        OBVIOUS
      <3>. QED  BY <3>1, <3>2, FS_Subset
    <2>. HIDE DEF A, B
    <2>5. Cardinality(A) # Cardinality(B)
      BY <2>3, <2>4, FS_Subset
    <2>. QED  BY <2>5 DEF UpTo, A, B
  <1>2. i < j \/ j < i \/ i = j
    OBVIOUS
  <1>3. CASE i < j
    BY <1>1, <1>3, Zenon
  <1>4. CASE j < i
    BY <1>1, <1>4, Zenon
  <1>. QED  BY <1>2, <1>3, <1>4

(* Each edge leads from its declaration to one that it names, at the place *)
(* where it names it, and each name of a declaration is some edge's.       *)
AreNames(list, named, n) ==
  /\ list \in Seq(Edge)
  /\ \A e \in DOMAIN list : /\ list[e].reference[1] = n
                            /\ list[e].reference[2] \in DOMAIN named
                            /\ list[e].target = named[list[e].reference[2]]
  /\ \A i \in DOMAIN named : named[i] \in Nodes => \E e \in DOMAIN list : list[e].target = named[i]

LEMMA EdgesAreNames ==
  ASSUME NEW named \in Seq(Nodes \cup {OtherKind}), NEW n \in Nodes,
         \A i \in DOMAIN named : <<n, i>> \in References
  PROVE  AreNames(EdgeList(named, n), named, n)
  <1>. DEFINE P == Places(named)
              C == Cardinality(P)
              place(k) == CHOOSE i \in P : UpTo(P, i) = k
              edges_ == EdgeList(named, n)
  <1>1. Len(named) \in Nat /\ DOMAIN named = 1 .. Len(named) /\ P \in SUBSET (1 .. Len(named))
    BY LenProperties DEF Places
  <1>2. C \in Nat
    <2>1. IsFiniteSet(1 .. Len(named))
      BY <1>1, FS_Interval, 1 \in Int, Len(named) \in Int
    <2>. QED  BY <1>1, <2>1, FS_Subset, FS_CardinalityType
  <1>3. \A k \in 1 .. C : place(k) \in P /\ UpTo(P, place(k)) = k
    <2>. TAKE k \in 1 .. C
    <2>1. \E i \in P : UpTo(P, i) = k
      BY <1>1, SomePlace
    <2>. QED  BY <2>1
  <1>4. \A i \in P : i \in DOMAIN named /\ named[i] \in Nodes
    <2>. TAKE i \in P
    <2>1. i \in 1 .. Len(named) /\ named[i] # OtherKind
      BY <1>1 DEF Places
    <2>2. named[i] \in Nodes \cup {OtherKind}
      BY <2>1, ElementOfSeq
    <2>. QED  BY <1>1, <2>1, <2>2
  <1>5. edges_ = [k \in 1 .. C |-> [target |-> named[place(k)], reference |-> <<n, place(k)>>]]
    BY DEF EdgeList
  <1>. HIDE DEF P, C, place, edges_
  <1>6. \A k \in 1 .. C : /\ edges_[k] \in Edge
                          /\ edges_[k].target = named[place(k)]
                          /\ edges_[k].reference = <<n, place(k)>>
    <2>. TAKE k \in 1 .. C
    <2>1. edges_[k] = [target |-> named[place(k)], reference |-> <<n, place(k)>>]
      BY <1>5
    <2>2. place(k) \in DOMAIN named /\ named[place(k)] \in Nodes
      BY <1>3, <1>4
    <2>3. <<n, place(k)>> \in References
      BY <2>2
    <2>. QED  BY <2>1, <2>2, <2>3 DEF Edge
  <1>7. edges_ \in Seq(Edge) /\ DOMAIN edges_ = 1 .. C
    <2>1. edges_ \in [1 .. C -> Edge]
      BY <1>5, <1>6
    <2>. QED  BY <1>2, <2>1
  <1>8. ASSUME NEW i \in DOMAIN named, named[i] \in Nodes
        PROVE  \E e \in DOMAIN edges_ : edges_[e].target = named[i]
    <2>1. i \in P
      BY <1>8, ProjectsAssumption DEF P, Places
    <2>. DEFINE k == UpTo(P, i)
    <2>2. k \in 1 .. C
      BY <1>1, <2>1, PlaceIsCounted DEF C
    <2>3. place(k) = i
      <3>1. place(k) \in P /\ UpTo(P, place(k)) = UpTo(P, i)
        BY <1>3, <2>2
      <3>. QED  BY <1>1, <2>1, <3>1, SamePlace
    <2>. HIDE DEF k
    <2>. QED  BY <1>6, <1>7, <2>2, <2>3
  <1>. QED
    <2>1. \A e \in DOMAIN edges_ :
            /\ edges_[e].reference[1] = n
            /\ edges_[e].reference[2] \in DOMAIN named
            /\ edges_[e].target = named[edges_[e].reference[2]]
      BY <1>3, <1>4, <1>6, <1>7
    <2>. QED  BY <1>7, <1>8, <2>1 DEF AreNames, edges_

(* The graph of a list of names for each declaration.                      *)
GraphOf(named) == [n \in Nodes |-> EdgeList(named[n], n)]

NamesTyped(named) == /\ named \in [Nodes -> Seq(Nodes \cup {OtherKind})]
                     /\ \A n \in Nodes : \A i \in DOMAIN named[n] : <<n, i>> \in References

LEMMA GraphIsNames ==
  ASSUME NEW named, NamesTyped(named), NEW n \in Nodes
  PROVE  AreNames(GraphOf(named)[n], named[n], n)
  <1>1. GraphOf(named)[n] = EdgeList(named[n], n)
    BY DEF GraphOf
  <1>2. /\ named[n] \in Seq(Nodes \cup {OtherKind})
        /\ \A i \in DOMAIN named[n] : <<n, i>> \in References
    BY DEF NamesTyped
  <1>. QED  BY <1>1, <1>2, EdgesAreNames

(* A search that accepts the graph accepts the names, and the cycle of one *)
(* that does not is a cycle of the names.                                  *)
LEMMA AcyclicNames ==
  ASSUME NEW named, NamesTyped(named), edges = GraphOf(named), Acyclic
  PROVE  ~ Cyclic(named)
  <1>. SUFFICES ASSUME NEW S \in (SUBSET Nodes) \ {{}},
                       \A n \in S : \E i \in DOMAIN named[n] : named[n][i] \in S
                PROVE  FALSE
    BY DEF Cyclic
  <1>1. ASSUME NEW n \in S PROVE Leads(n, S)
    <2>1. PICK i \in DOMAIN named[n] : named[n][i] \in S
      OBVIOUS
    <2>2. n \in Nodes /\ named[n][i] \in Nodes
      BY <2>1
    <2>3. PICK e \in DOMAIN edges[n] : edges[n][e].target = named[n][i]
      BY <2>2, GraphIsNames DEF AreNames
    <2>. QED  BY <2>1, <2>3 DEF Leads
  <1>. QED  BY <1>1 DEF Acyclic

LEMMA CyclicNames ==
  ASSUME NEW named, NamesTyped(named), edges = GraphOf(named), CycleReal, result = "cycle"
  PROVE  Cyclic(named)
  <1>. DEFINE n == Len(cycle.nodes)
              S == {cycle.nodes[i] : i \in 1 .. n}
              after(i) == IF i = n THEN 1 ELSE i + 1
  <1>1. /\ n > 0 /\ cycle.nodes \in Seq(Nodes)
        /\ \A i \in 1 .. n : \E e \in DOMAIN edges[cycle.nodes[i]] :
             edges[cycle.nodes[i]][e] =
               [target |-> cycle.nodes[after(i)], reference |-> cycle.edges[i]]
    BY DEF CycleReal
  <1>2. n \in Nat /\ \A i \in 1 .. n : cycle.nodes[i] \in Nodes
    BY <1>1, LenProperties, ElementOfSeq
  <1>3. \A i \in 1 .. n : after(i) \in 1 .. n
    BY <1>1, <1>2
  <1>. HIDE DEF n, after
  <1>4. S \in (SUBSET Nodes) \ {{}}
    <2>1. 1 \in 1 .. n
      BY <1>1, <1>2
    <2>. QED  BY <1>2, <2>1
  <1>5. ASSUME NEW m \in S PROVE \E i \in DOMAIN named[m] : named[m][i] \in S
    <2>1. PICK i \in 1 .. n : cycle.nodes[i] = m
      OBVIOUS
    <2>2. PICK e \in DOMAIN edges[m] :
            edges[m][e] = [target |-> cycle.nodes[after(i)], reference |-> cycle.edges[i]]
      BY <1>1, <2>1
    <2>3. m \in Nodes
      BY <1>2, <2>1
    <2>4. /\ edges[m][e].reference[2] \in DOMAIN named[m]
          /\ edges[m][e].target = named[m][edges[m][e].reference[2]]
      BY <2>2, <2>3, GraphIsNames DEF AreNames
    <2>5. edges[m][e].target \in S
      BY <1>3, <2>2
    <2>. QED  BY <2>4, <2>5
  <1>. QED  BY <1>4, <1>5 DEF Cyclic

(* Every search is over the edges of its phase, a later phase has what the *)
(* earlier ones found, and the outcome is that of the first check to fail, *)
(* with the cycle of the search that failed.                               *)
Decided ==
  phase = "done" =>
    \/ /\ BadTargets # {}
       /\ outcome = <<"invalid supertrait", FirstOf(BadTargets)>>
    \/ /\ BadTargets = {} /\ result = "cycle" /\ edges = GraphOf(supertraits)
       /\ outcome = CycleOutcome("trait cycle")
    \/ /\ BadTargets = {} /\ ~ Cyclic(supertraits) /\ result = "cycle" /\ edges = GraphOf(effects)
       /\ outcome = CycleOutcome("alias cycle")
    \/ /\ BadTargets = {} /\ ~ Cyclic(supertraits) /\ ~ Cyclic(effects)
       /\ outcome = <<"accepted">>

PhaseInv ==
  /\ phase \in {"traits", "aliases"} => BadTargets = {}
  /\ phase = "traits" => edges = GraphOf(supertraits)
  /\ phase = "aliases" => edges = GraphOf(effects) /\ ~ Cyclic(supertraits)
  /\ Decided

PrepareInv == NamesTyped(supertraits) /\ NamesTyped(effects) /\ IInv /\ CycleReal /\ PhaseInv

LEMMA GraphOfType ==
  ASSUME NEW named, NamesTyped(named)
  PROVE  GraphOf(named) \in [Nodes -> Seq(Edge)]
  <1>1. \A n \in Nodes : GraphOf(named)[n] \in Seq(Edge)
    BY GraphIsNames DEF AreNames
  <1>. QED  BY <1>1 DEF GraphOf

LEMMA FreshSearch == edges \in [Nodes -> Seq(Edge)] /\ Fresh => IInv /\ CycleReal
  BY FreshIInv DEF Fresh, CycleReal
LEMMA FreshSearchNext == (edges \in [Nodes -> Seq(Edge)] /\ Fresh => IInv /\ CycleReal)'
  BY FreshSearch, PTL

LEMMA InitPrepareInv == PrepareInit => PrepareInv
  <1>. SUFFICES ASSUME PrepareInit PROVE PrepareInv
    OBVIOUS
  <1>1. NamesTyped(supertraits) /\ NamesTyped(effects)
    BY ProjectsAssumption DEF PrepareInit, NamesTyped
  <1>2. IInv /\ CycleReal
    <2>1. edges \in [Nodes -> Seq(Edge)]
      BY EmptySeq DEF PrepareInit
    <2>. QED  BY <2>1, FreshSearch DEF PrepareInit
  <1>3. PhaseInv
    BY DEF PrepareInit, PhaseInv, Decided
  <1>. QED  BY <1>1, <1>2, <1>3 DEF PrepareInv

(* What depends on the project alone stays.                                *)
LEMMA ProjectStays ==
  ASSUME UNCHANGED <<supertraits, effects>>
  PROVE  /\ NamesTyped(supertraits) => NamesTyped(supertraits)'
         /\ NamesTyped(effects) => NamesTyped(effects)'
         /\ BadTargets' = BadTargets /\ FirstOf(BadTargets)' = FirstOf(BadTargets)
         /\ Cyclic(supertraits)' <=> Cyclic(supertraits)
         /\ Cyclic(effects)' <=> Cyclic(effects)
         /\ GraphOf(supertraits)' = GraphOf(supertraits) /\ GraphOf(effects)' = GraphOf(effects)
  <1>1. BadTargets' = BadTargets
    BY DEF BadTargets
  <1>2. FirstOf(BadTargets)' = FirstOf(BadTargets)
    BY <1>1 DEF FirstOf
  <1>3. Cyclic(supertraits)' <=> Cyclic(supertraits)
    BY DEF Cyclic
  <1>4. Cyclic(effects)' <=> Cyclic(effects)
    BY DEF Cyclic
  <1>5. GraphOf(supertraits)' = GraphOf(supertraits) /\ GraphOf(effects)' = GraphOf(effects)
    BY DEF GraphOf
  <1>6. /\ NamesTyped(supertraits) => NamesTyped(supertraits)'
        /\ NamesTyped(effects) => NamesTyped(effects)'
    BY DEF NamesTyped
  <1>. QED  BY <1>1, <1>2, <1>3, <1>4, <1>5, <1>6

LEMMA CheckStep ==
  ASSUME PrepareInv, InvalidTarget \/ AliasesAcyclic \/ ReportCycle
  PROVE  PrepareInv'
  <1>1. UNCHANGED <<supertraits, effects, edges, state, position, stack, result, cycle>>
        /\ phase' = "done" /\ UNCHANGED vars
    BY DEF InvalidTarget, AliasesAcyclic, ReportCycle, search, vars
  <1>2. IInv' /\ CycleReal'
    BY <1>1, StepIInv, CycleRealStep DEF PrepareInv
  <1>4. CASE InvalidTarget
    <2>1. BadTargets # {} /\ outcome' = <<"invalid supertrait", FirstOf(BadTargets)>>
      BY <1>4 DEF InvalidTarget
    <2>2. Decided'
      BY <1>1, <2>1, ProjectStays DEF Decided
    <2>. QED  BY <1>1, <1>2, <2>2, ProjectStays DEF PrepareInv, PhaseInv
  <1>5. CASE AliasesAcyclic
    <2>1. phase = "aliases" /\ result = "acyclic" /\ outcome' = <<"accepted">>
      BY <1>5 DEF AliasesAcyclic
    <2>2. Acyclic /\ edges = GraphOf(effects) /\ BadTargets = {} /\ ~ Cyclic(supertraits)
      BY <2>1 DEF PrepareInv, PhaseInv, IInv, AcceptsOnlyAcyclic
    <2>3. ~ Cyclic(effects)
      BY <2>2, AcyclicNames DEF PrepareInv
    <2>4. Decided'
      BY <1>1, <2>1, <2>2, <2>3, ProjectStays DEF Decided
    <2>. QED  BY <1>1, <1>2, <2>4, ProjectStays DEF PrepareInv, PhaseInv
  <1>6. CASE ReportCycle
    <2>1. /\ phase \in {"traits", "aliases"} /\ result = "cycle"
          /\ outcome' = CycleOutcome(IF phase = "traits" THEN "trait cycle" ELSE "alias cycle")
      BY <1>6 DEF ReportCycle
    <2>2. CASE phase = "traits"
      <3>1. BadTargets = {} /\ edges = GraphOf(supertraits)
        BY <2>2 DEF PrepareInv, PhaseInv
      <3>2. outcome' = CycleOutcome("trait cycle")'
        BY <1>1, <2>1, <2>2 DEF CycleOutcome, Related
      <3>3. Decided'
        BY <1>1, <2>1, <3>1, <3>2, ProjectStays DEF Decided
      <3>. QED  BY <1>1, <1>2, <3>3, ProjectStays DEF PrepareInv, PhaseInv
    <2>3. CASE phase = "aliases"
      <3>1. BadTargets = {} /\ edges = GraphOf(effects) /\ ~ Cyclic(supertraits)
        BY <2>3 DEF PrepareInv, PhaseInv
      <3>2. outcome' = CycleOutcome("alias cycle")'
        BY <1>1, <2>1, <2>3 DEF CycleOutcome, Related
      <3>3. Decided'
        BY <1>1, <2>1, <3>1, <3>2, ProjectStays DEF Decided
      <3>. QED  BY <1>1, <1>2, <3>3, ProjectStays DEF PrepareInv, PhaseInv
    <2>. QED  BY <2>1, <2>2, <2>3
  <1>. QED  BY <1>4, <1>5, <1>6

(* A search begins over the edges of the phase that it is for.             *)
LEMMA BeginStep ==
  ASSUME PrepareInv, TargetsValid \/ TraitsAcyclic
  PROVE  PrepareInv'
  <1>1. UNCHANGED <<supertraits, effects>>
    BY DEF TargetsValid, TraitsAcyclic
  <1>2. Fresh'
    BY DEF TargetsValid, TraitsAcyclic, SearchIn, Fresh
  <1>3. CASE TargetsValid
    <2>1. phase' = "traits" /\ BadTargets = {} /\ edges' = GraphOf(supertraits)
      BY <1>3 DEF TargetsValid, SearchIn, TraitEdges, GraphOf
    <2>2. edges' \in [Nodes -> Seq(Edge)]
      BY <2>1, GraphOfType DEF PrepareInv
    <2>3. IInv' /\ CycleReal'
      BY <1>2, <2>2, FreshSearchNext
    <2>. QED  BY <1>1, <2>1, <2>3, ProjectStays DEF PrepareInv, PhaseInv, Decided
  <1>4. CASE TraitsAcyclic
    <2>1. phase' = "aliases" /\ phase = "traits" /\ result = "acyclic" /\ edges' = GraphOf(effects)
      BY <1>4 DEF TraitsAcyclic, SearchIn, AliasEdges, GraphOf
    <2>2. edges' \in [Nodes -> Seq(Edge)]
      BY <2>1, GraphOfType DEF PrepareInv
    <2>3. IInv' /\ CycleReal'
      BY <1>2, <2>2, FreshSearchNext
    <2>4. Acyclic /\ edges = GraphOf(supertraits) /\ BadTargets = {}
      BY <2>1 DEF PrepareInv, PhaseInv, IInv, AcceptsOnlyAcyclic
    <2>5. ~ Cyclic(supertraits)
      BY <2>4, AcyclicNames DEF PrepareInv
    <2>. QED  BY <1>1, <2>1, <2>3, <2>4, <2>5, ProjectStays DEF PrepareInv, PhaseInv, Decided
  <1>. QED  BY <1>3, <1>4

LEMMA SearchStep ==
  ASSUME PrepareInv, Search
  PROVE  PrepareInv'
  <1>1. phase # "done" /\ Next /\ UNCHANGED <<supertraits, effects, phase, outcome>>
    BY DEF Search
  <1>2. IInv' /\ CycleReal'
    BY <1>1, StepIInv, CycleRealStep DEF PrepareInv
  <1>3. edges' = edges
    BY <1>1 DEF Next, StartRoot, FinishSearch, Finish, Descend, Skip, Report
  <1>. QED  BY <1>1, <1>2, <1>3, ProjectStays DEF PrepareInv, PhaseInv, Decided

LEMMA StepPrepareInv ==
  ASSUME PrepareInv, [PrepareNext]_allVars
  PROVE  PrepareInv'
  <1>1. CASE UNCHANGED allVars
    <2>1. UNCHANGED <<supertraits, effects, phase, outcome, edges, result, cycle>> /\ UNCHANGED vars
      BY <1>1 DEF allVars, search, vars
    <2>2. IInv' /\ CycleReal'
      BY <2>1, StepIInv, CycleRealStep DEF PrepareInv
    <2>3. /\ CycleOutcome("trait cycle")' = CycleOutcome("trait cycle")
          /\ CycleOutcome("alias cycle")' = CycleOutcome("alias cycle")
      BY <2>1 DEF CycleOutcome, Related
    <2>4. Decided'
      BY <2>1, <2>3, ProjectStays DEF PrepareInv, PhaseInv, Decided
    <2>. QED  BY <2>1, <2>2, <2>4, ProjectStays DEF PrepareInv, PhaseInv
  <1>. QED  BY <1>1, CheckStep, BeginStep, SearchStep DEF PrepareNext

LEMMA PrepareInvariant == PrepareSpec => []PrepareInv
  BY InitPrepareInv, StepPrepareInv, PTL DEF PrepareSpec

(* The verdict on a project of any size is that of the first check that    *)
(* fails: prepare_project accepts just the projects that pass them all.    *)
THEOREM Verdict == PrepareSpec => []VerdictRight
  <1>1. PrepareInv => VerdictRight
    <2>. SUFFICES ASSUME PrepareInv, phase = "done"
                  PROVE  outcome[1] = CASE BadTargets # {} -> "invalid supertrait"
                           [] BadTargets = {} /\ Cyclic(supertraits) -> "trait cycle"
                           [] BadTargets = {} /\ ~ Cyclic(supertraits) ->
                                IF Cyclic(effects) THEN "alias cycle" ELSE "accepted"
      BY DEF VerdictRight
    <2>1. edges = GraphOf(supertraits) /\ result = "cycle" => Cyclic(supertraits)
      BY CyclicNames DEF PrepareInv
    <2>2. edges = GraphOf(effects) /\ result = "cycle" => Cyclic(effects)
      BY CyclicNames DEF PrepareInv
    <2>3. /\ CycleOutcome("trait cycle")[1] = "trait cycle"
          /\ CycleOutcome("alias cycle")[1] = "alias cycle"
      BY DEF CycleOutcome
    <2>4. Decided
      BY DEF PrepareInv, PhaseInv
    <2>5. CASE BadTargets # {} /\ outcome = <<"invalid supertrait", FirstOf(BadTargets)>>
      <3>1. outcome[1] = "invalid supertrait"
        BY <2>5
      <3>. QED  BY <2>5, <3>1
    <2>6. CASE BadTargets = {} /\ Cyclic(supertraits) /\ outcome = CycleOutcome("trait cycle")
      BY <2>3, <2>6
    <2>7. CASE BadTargets = {} /\ ~ Cyclic(supertraits) /\ Cyclic(effects)
               /\ outcome = CycleOutcome("alias cycle")
      BY <2>3, <2>7
    <2>8. CASE BadTargets = {} /\ ~ Cyclic(supertraits) /\ ~ Cyclic(effects)
               /\ outcome = <<"accepted">>
      <3>1. outcome[1] = "accepted"
        BY <2>8
      <3>. QED  BY <2>8, <3>1
    <2>. QED  BY <2>1, <2>2, <2>4, <2>5, <2>6, <2>7, <2>8, Zenon DEF Decided
  <1>. QED  BY <1>1, PrepareInvariant, PTL

(* Where the diagnostic has the declarations of a cycle and the references.*)
NodeAt(r, i) == IF i = 1 THEN r[1] ELSE r[2 * i - 2]
EdgeAt(first, r, i) == IF i = 1 THEN first ELSE r[2 * i - 1]

LEMMA RelatedPlaces ==
  ASSUME NEW c, NEW k \in Nat, k >= 1, Len(c.nodes) = k
  PROVE  /\ Len(Related(c)) = 2 * k - 1
         /\ \A i \in 1 .. k : NodeAt(Related(c), i) = c.nodes[i]
         /\ \A i \in 1 .. k : EdgeAt(c.edges[1], Related(c), i) = c.edges[i]
  <1>. DEFINE m == 2 * (k - 1)
              value(i) == IF i % 2 = 1 THEN c.nodes[(i + 3) \div 2] ELSE c.edges[i \div 2 + 1]
              rest == [i \in 1 .. m |-> value(i)]
              V == {value(i) : i \in 1 .. m} \cup {c.nodes[1]}
  <1>1. m \in Nat
    OBVIOUS
  <1>2. Related(c) = <<c.nodes[1]>> \o rest
    BY DEF Related
  <1>. HIDE DEF value
  <1>3. rest \in [1 .. m -> V]
    OBVIOUS
  <1>. HIDE DEF m
  <1>4. rest \in Seq(V) /\ Len(rest) = m
    <2>1. rest \in Seq(V)
      BY <1>1, <1>3
    <2>. QED  BY <1>1, <2>1
  <1>5. <<c.nodes[1]>> \in Seq(V) /\ Len(<<c.nodes[1]>>) = 1 /\ <<c.nodes[1]>>[1] = c.nodes[1]
    OBVIOUS
  <1>. HIDE DEF rest, V
  <1>6. /\ Len(Related(c)) = m + 1
        /\ \A i \in 1 .. m + 1 : Related(c)[i] = IF i = 1 THEN c.nodes[1] ELSE rest[i - 1]
    <2>1. /\ Len(Related(c)) = Len(<<c.nodes[1]>>) + Len(rest)
          /\ \A i \in 1 .. Len(<<c.nodes[1]>>) + Len(rest) :
               Related(c)[i] = IF i <= Len(<<c.nodes[1]>>) THEN <<c.nodes[1]>>[i]
                               ELSE rest[i - Len(<<c.nodes[1]>>)]
      BY <1>2, <1>4, <1>5, ConcatProperties
    <2>2. Len(<<c.nodes[1]>>) + Len(rest) = m + 1
      BY <1>1, <1>4, <1>5
    <2>3. Len(Related(c)) = m + 1
      BY <2>1, <2>2
    <2>4. ASSUME NEW i \in 1 .. m + 1
          PROVE  Related(c)[i] = IF i = 1 THEN c.nodes[1] ELSE rest[i - 1]
      <3>1. Related(c)[i] = IF i <= 1 THEN <<c.nodes[1]>>[i] ELSE rest[i - 1]
        BY <1>5, <2>1, <2>2
      <3>2. i <= 1 <=> i = 1
        BY <1>1
      <3>. QED  BY <1>5, <3>1, <3>2
    <2>. QED  BY <2>3, <2>4
  <1>7. Len(Related(c)) = 2 * k - 1
    BY <1>6 DEF m
  <1>8. ASSUME NEW i \in 1 .. k PROVE NodeAt(Related(c), i) = c.nodes[i]
    <2>1. CASE i = 1
      <3>1. 1 \in 1 .. m + 1
        BY <1>1
      <3>. QED  BY <1>6, <2>1, <3>1 DEF NodeAt
    <2>2. CASE i # 1
      <3>1. /\ 2 * i - 2 \in 1 .. m + 1 /\ 2 * i - 2 # 1 /\ (2 * i - 2) - 1 = 2 * i - 3
            /\ 2 * i - 3 \in 1 .. m
        BY <2>2 DEF m
      <3>2. (2 * i - 3) % 2 = 1 /\ (2 * i - 3 + 3) \div 2 = i
        OBVIOUS
      <3>3. rest[2 * i - 3] = value(2 * i - 3)
        BY <3>1 DEF rest
      <3>4. value(2 * i - 3) = c.nodes[i]
        BY <3>2 DEF value
      <3>5. Related(c)[2 * i - 2] = rest[2 * i - 3]
        BY <1>6, <3>1
      <3>. QED  BY <2>2, <3>3, <3>4, <3>5 DEF NodeAt
    <2>. QED  BY <2>1, <2>2
  <1>9. ASSUME NEW i \in 1 .. k PROVE EdgeAt(c.edges[1], Related(c), i) = c.edges[i]
    <2>1. CASE i = 1
      BY <2>1 DEF EdgeAt
    <2>2. CASE i # 1
      <3>1. /\ 2 * i - 1 \in 1 .. m + 1 /\ 2 * i - 1 # 1 /\ (2 * i - 1) - 1 = 2 * i - 2
            /\ 2 * i - 2 \in 1 .. m
        BY <2>2 DEF m
      <3>2. (2 * i - 2) % 2 # 1 /\ (2 * i - 2) \div 2 + 1 = i
        OBVIOUS
      <3>3. rest[2 * i - 2] = value(2 * i - 2)
        BY <3>1 DEF rest
      <3>4. value(2 * i - 2) = c.edges[i]
        BY <3>2 DEF value
      <3>5. Related(c)[2 * i - 1] = rest[2 * i - 2]
        BY <1>6, <3>1
      <3>. QED  BY <2>2, <3>3, <3>4, <3>5 DEF EdgeAt
    <2>. QED  BY <2>1, <2>2
  <1>. QED  BY <1>7, <1>8, <1>9

LEMMA Half == \A k \in Nat : \A l : l = 2 * k - 1 => (l + 1) \div 2 = k
  <1>. SUFFICES ASSUME NEW k \in Nat, NEW l, l = 2 * k - 1 PROVE (l + 1) \div 2 = k
    OBVIOUS
  <1>1. l + 1 = 2 * k
    OBVIOUS
  <1>. QED  BY <1>1

LEMMA CycleShown ==
  ASSUME NEW named, NamesTyped(named), edges = GraphOf(named), CycleReal, result = "cycle",
         NEW k, k = Len(cycle.nodes)
  PROVE  /\ Len(Related(cycle)) = 2 * k - 1 /\ k \in Nat /\ k >= 1
         /\ \A i \in 1 .. k :
              LET node == NodeAt(Related(cycle), i)
                  edge == EdgeAt(cycle.edges[1], Related(cycle), i)
              IN  /\ edge[1] = node
                  /\ named[node][edge[2]] = NodeAt(Related(cycle), IF i = k THEN 1 ELSE i + 1)
  <1>1. /\ k > 0 /\ cycle.nodes \in Seq(Nodes)
        /\ \A i \in 1 .. k : \E e \in DOMAIN edges[cycle.nodes[i]] :
             edges[cycle.nodes[i]][e] =
               [target |-> cycle.nodes[IF i = k THEN 1 ELSE i + 1], reference |-> cycle.edges[i]]
    BY DEF CycleReal
  <1>2. k \in Nat /\ k >= 1 /\ \A i \in 1 .. k : cycle.nodes[i] \in Nodes
    <2>1. k \in Nat
      BY <1>1, LenProperties
    <2>. QED  BY <1>1, <2>1, ElementOfSeq
  <1>3. /\ Len(Related(cycle)) = 2 * k - 1
        /\ \A i \in 1 .. k : NodeAt(Related(cycle), i) = cycle.nodes[i]
        /\ \A i \in 1 .. k : EdgeAt(cycle.edges[1], Related(cycle), i) = cycle.edges[i]
    BY <1>2, RelatedPlaces
  <1>4. ASSUME NEW i \in 1 .. k
        PROVE  /\ cycle.edges[i][1] = cycle.nodes[i]
               /\ named[cycle.nodes[i]][cycle.edges[i][2]] = cycle.nodes[IF i = k THEN 1 ELSE i + 1]
    <2>1. PICK e \in DOMAIN edges[cycle.nodes[i]] :
            edges[cycle.nodes[i]][e] =
              [target |-> cycle.nodes[IF i = k THEN 1 ELSE i + 1], reference |-> cycle.edges[i]]
      BY <1>1
    <2>2. cycle.nodes[i] \in Nodes
      BY <1>2
    <2>3. /\ edges[cycle.nodes[i]][e].reference[1] = cycle.nodes[i]
          /\ edges[cycle.nodes[i]][e].target =
               named[cycle.nodes[i]][edges[cycle.nodes[i]][e].reference[2]]
      BY <2>2, GraphIsNames DEF AreNames
    <2>. QED  BY <2>1, <2>3
  <1>5. \A i \in 1 .. k : (IF i = k THEN 1 ELSE i + 1) \in 1 .. k
    BY <1>2
  <1>. QED  BY <1>2, <1>3, <1>4, <1>5

(* Whoever follows the diagnostic of a rejected project goes once round a  *)
(* cycle of it: the places that validate_declaration_graph lists, in the   *)
(* order in which it lists them.                                           *)
THEOREM Diagnostic == PrepareSpec => []DiagnosticFollowsCycle
  <1>1. PrepareInv => DiagnosticFollowsCycle
    <2>. SUFFICES ASSUME PrepareInv, phase = "done", outcome[1] \in {"trait cycle", "alias cycle"}
                  PROVE  DiagnosticFollowsCycle
      BY DEF DiagnosticFollowsCycle
    <2>. DEFINE named == IF outcome[1] = "trait cycle" THEN supertraits ELSE effects
                k == Len(cycle.nodes)
    <2>1. /\ NamesTyped(named) /\ edges = GraphOf(named) /\ CycleReal /\ result = "cycle"
          /\ outcome[2] = cycle.edges[1] /\ outcome[3] = Related(cycle)
      <3>1. Decided /\ NamesTyped(supertraits) /\ NamesTyped(effects) /\ CycleReal
        BY DEF PrepareInv, PhaseInv
      <3>2. CASE outcome = <<"accepted">>
        <4>1. outcome[1] = "accepted"
          BY <3>2
        <4>. QED  BY <4>1
      <3>5. CASE outcome = <<"invalid supertrait", FirstOf(BadTargets)>>
        <4>1. outcome[1] = "invalid supertrait"
          BY <3>5
        <4>. QED  BY <4>1
      <3>3. CASE result = "cycle" /\ edges = GraphOf(supertraits) /\ outcome = CycleOutcome("trait cycle")
        <4>1. outcome[1] = "trait cycle" /\ outcome[2] = cycle.edges[1] /\ outcome[3] = Related(cycle)
          BY <3>3 DEF CycleOutcome
        <4>. QED  BY <3>1, <3>3, <4>1
      <3>4. CASE result = "cycle" /\ edges = GraphOf(effects) /\ outcome = CycleOutcome("alias cycle")
        <4>1. outcome[1] = "alias cycle" /\ outcome[2] = cycle.edges[1] /\ outcome[3] = Related(cycle)
          BY <3>4 DEF CycleOutcome
        <4>. QED  BY <3>1, <3>4, <4>1
      <3>. QED  BY <3>1, <3>2, <3>3, <3>4, <3>5, Zenon DEF Decided
    <2>. HIDE DEF named
    <2>2. /\ Len(Related(cycle)) = 2 * k - 1 /\ k \in Nat /\ k >= 1
          /\ \A i \in 1 .. k :
               LET node == NodeAt(Related(cycle), i)
                   edge == EdgeAt(cycle.edges[1], Related(cycle), i)
               IN  /\ edge[1] = node
                   /\ named[node][edge[2]] = NodeAt(Related(cycle), IF i = k THEN 1 ELSE i + 1)
      BY <2>1, CycleShown
    <2>. HIDE DEF k
    <2>3. (Len(outcome[3]) + 1) \div 2 = k
      <3>1. k \in Nat /\ Len(Related(cycle)) = 2 * k - 1 /\ outcome[3] = Related(cycle)
        BY <2>1, <2>2, Zenon
      <3>. QED  BY <3>1, Half, Zenon
    <2>4. \A i \in 1 .. k :
            /\ EdgeAt(outcome[2], outcome[3], i)[1] = NodeAt(outcome[3], i)
            /\ named[NodeAt(outcome[3], i)][EdgeAt(outcome[2], outcome[3], i)[2]] =
                 NodeAt(outcome[3], IF i = k THEN 1 ELSE i + 1)
      BY <2>1, <2>2
    <2>. QED  BY <2>3, <2>4, Zenon DEF DiagnosticFollowsCycle, NodeAt, EdgeAt, named
  <1>. QED  BY <1>1, PrepareInvariant, PTL
==============================================================================
