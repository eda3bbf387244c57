--------------------------- MODULE DataflowProofs ---------------------------
(***************************************************************************)
(* Proof that the visiting order is what the engines assume of it, for     *)
(* bodies with any number of blocks and edges, and that both engines,      *)
(* which start from that order, therefore solve their equations.           *)
(***************************************************************************)
EXTENDS Dataflow, EngineProofs, SequenceTheorems

Frame == Blocks \X Nat

SearchType ==
  /\ lists \in [Blocks -> Seq(Blocks)]
  /\ seen \in SUBSET Blocks
  /\ stack \in Seq(Frame)
  /\ postorder \in Seq(Blocks)

(* The blocks whose search has not ended, and those whose search has.      *)
Open   == {stack[i][1] : i \in 1 .. Len(stack)}
Closed == {postorder[i] : i \in 1 .. Len(postorder)}

(* What was seen is open or closed, and each block is that at one place.   *)
EachOnce ==
  /\ seen = Open \cup Closed /\ Open \cap Closed = {}
  /\ \A i, j \in 1 .. Len(stack) : stack[i][1] = stack[j][1] => i = j
  /\ \A i, j \in 1 .. Len(postorder) : postorder[i] = postorder[j] => i = j

(* The edges that were taken lead to what was seen: all of a closed block. *)
EdgesSeen ==
  /\ \A i \in 1 .. Len(stack) : /\ stack[i][2] <= Len(lists[stack[i][1]])
                                /\ \A e \in 1 .. stack[i][2] : lists[stack[i][1]][e] \in seen
  /\ \A b \in Closed : \A e \in 1 .. Len(lists[b]) : lists[b][e] \in seen

(* The entry is opened first and closed last.                              *)
EntryLast ==
  /\ stack # <<>> => stack[1][1] = First
  /\ stack = <<>> => postorder # <<>> /\ postorder[Len(postorder)] = First

(* What was seen is in every set that has the entry and follows the edges. *)
Follows(R) == First \in R /\ \A b \in R : EdgesOf(b) \subseteq R
SeenReached == \A R \in SUBSET Blocks : Follows(R) => seen \subseteq R

Searched == SearchType /\ EachOnce /\ EdgesSeen /\ EntryLast /\ SeenReached

SearchInv ==
  /\ lists \in [Blocks -> Seq(Blocks)]
  /\ ~ Done => Searched
  /\ Done => stack = <<>> /\ WellOrdered([b \in Blocks |-> EdgesOf(b)], order)
-----------------------------------------------------------------------------
(* The places of the sequences of the search.                              *)
LEMMA SearchPositions ==
  ASSUME SearchType
  PROVE  /\ Len(stack) \in Nat /\ Len(postorder) \in Nat
         /\ (stack # <<>>) <=> (Len(stack) >= 1)
         /\ (postorder # <<>>) <=> (Len(postorder) >= 1)
         /\ \A i \in 1 .. Len(stack) : /\ stack[i] \in Frame /\ stack[i][1] \in Blocks
                                       /\ stack[i][2] \in Nat
         /\ \A i \in 1 .. Len(postorder) : postorder[i] \in Blocks
         /\ \A b \in Blocks : /\ Len(lists[b]) \in Nat /\ DOMAIN lists[b] = 1 .. Len(lists[b])
                              /\ \A e \in 1 .. Len(lists[b]) : lists[b][e] \in Blocks
  <1>1. Len(stack) \in Nat /\ Len(postorder) \in Nat
    BY LenProperties DEF SearchType
  <1>2. (stack # <<>>) <=> (Len(stack) >= 1)
    BY <1>1, EmptySeq DEF SearchType
  <1>3. (postorder # <<>>) <=> (Len(postorder) >= 1)
    BY <1>1, EmptySeq DEF SearchType
  <1>4. \A i \in 1 .. Len(stack) : stack[i] \in Frame
    BY ElementOfSeq DEF SearchType
  <1>5. \A i \in 1 .. Len(stack) : stack[i][1] \in Blocks /\ stack[i][2] \in Nat
    BY <1>4 DEF Frame
  <1>6. \A i \in 1 .. Len(postorder) : postorder[i] \in Blocks
    BY ElementOfSeq DEF SearchType
  <1>7. ASSUME NEW b \in Blocks
        PROVE  /\ Len(lists[b]) \in Nat /\ DOMAIN lists[b] = 1 .. Len(lists[b])
               /\ \A e \in 1 .. Len(lists[b]) : lists[b][e] \in Blocks
    <2>1. lists[b] \in Seq(Blocks)
      BY DEF SearchType
    <2>. QED  BY <2>1, LenProperties, ElementOfSeq
  <1>. QED  BY <1>1, <1>2, <1>3, <1>4, <1>5, <1>6, <1>7

(* Taking an edge advances the top frame alone.                            *)
LEMMA AdvancedStack ==
  ASSUME SearchType, stack # <<>>
  PROVE  /\ Advanced \in Seq(Frame) /\ Len(Advanced) = Len(stack)
         /\ \A i \in 1 .. Len(stack) :
              Advanced[i] = IF i = Len(stack) THEN <<TopBlock, Taken + 1>> ELSE stack[i]
  <1>. DEFINE n == Len(stack)
              s == SubSeq(stack, 1, n - 1)
  <1>1. n \in Nat /\ n >= 1 /\ TopBlock = stack[n][1] /\ Taken = stack[n][2]
        /\ stack[n][1] \in Blocks /\ stack[n][2] \in Nat
    BY SearchPositions DEF TopBlock, Taken, Last
  <1>2. \A i \in 1 .. n - 1 : stack[i] \in Frame
    BY <1>1, SearchPositions
  <1>3. s \in Seq(Frame) /\ Len(s) = n - 1 /\ \A i \in 1 .. n - 1 : s[i] = stack[i]
    <2>1. /\ s \in Seq(Frame)
          /\ Len(s) = IF 1 <= n - 1 THEN n - 1 - 1 + 1 ELSE 0
          /\ \A i \in 1 .. n - 1 - 1 + 1 : s[i] = stack[1 + i - 1]
      BY <1>1, <1>2, SubSeqProperties
    <2>. HIDE DEF s, n
    <2>2. Len(s) = n - 1
      BY <1>1, <2>1
    <2>3. \A i \in 1 .. n - 1 : i \in 1 .. n - 1 - 1 + 1 /\ 1 + i - 1 = i
      BY <1>1
    <2>. QED  BY <2>1, <2>2, <2>3
  <1>4. <<TopBlock, Taken + 1>> \in Frame
    BY <1>1 DEF Frame
  <1>5. Advanced = Append(s, <<TopBlock, Taken + 1>>)
    BY DEF Advanced, Front
  <1>. HIDE DEF s
  <1>6. /\ Advanced \in Seq(Frame) /\ Len(Advanced) = Len(s) + 1
        /\ \A i \in 1 .. Len(s) : Advanced[i] = s[i]
        /\ Advanced[Len(s) + 1] = <<TopBlock, Taken + 1>>
    BY <1>3, <1>4, <1>5, AppendProperties
  <1>. QED  BY <1>1, <1>3, <1>6

(* The top frame, and the block its next edge leads to.                    *)
LEMMA TopFrame ==
  ASSUME Searched, stack # <<>>
  PROVE  /\ Len(stack) \in Nat /\ Len(stack) >= 1
         /\ TopBlock = stack[Len(stack)][1] /\ Taken = stack[Len(stack)][2]
         /\ TopBlock \in Blocks /\ TopBlock \in Open /\ TopBlock \in seen
         /\ Taken \in Nat /\ Taken <= Len(lists[TopBlock]) /\ Len(lists[TopBlock]) \in Nat
         /\ More => /\ Taken + 1 \in 1 .. Len(lists[TopBlock])
                    /\ NextBlock \in Blocks /\ NextBlock \in EdgesOf(TopBlock)
  <1>1. Len(stack) \in Nat /\ Len(stack) >= 1 /\ Len(stack) \in 1 .. Len(stack)
    BY SearchPositions DEF Searched
  <1>2. TopBlock = stack[Len(stack)][1] /\ Taken = stack[Len(stack)][2]
    BY DEF TopBlock, Taken, Last
  <1>3. TopBlock \in Blocks /\ Taken \in Nat
    BY <1>1, <1>2, SearchPositions DEF Searched
  <1>4. Len(lists[TopBlock]) \in Nat /\ DOMAIN lists[TopBlock] = 1 .. Len(lists[TopBlock])
        /\ \A e \in 1 .. Len(lists[TopBlock]) : lists[TopBlock][e] \in Blocks
    BY <1>3, SearchPositions DEF Searched
  <1>5. TopBlock \in Open /\ TopBlock \in seen
    BY <1>1, <1>2 DEF Open, Searched, EachOnce
  <1>6. Taken <= Len(lists[TopBlock])
    BY <1>1, <1>2 DEF Searched, EdgesSeen
  <1>7. ASSUME More
        PROVE  /\ Taken + 1 \in 1 .. Len(lists[TopBlock])
               /\ NextBlock \in Blocks /\ NextBlock \in EdgesOf(TopBlock)
    <2>1. Taken + 1 \in 1 .. Len(lists[TopBlock])
      BY <1>3, <1>4, <1>7 DEF More
    <2>. QED  BY <1>4, <2>1 DEF NextBlock, EdgesOf, ToSet
  <1>. QED  BY <1>1, <1>2, <1>3, <1>4, <1>5, <1>6, <1>7

(* What Descend does to the stack.                                         *)
LEMMA DescendShape ==
  ASSUME Searched, Descend
  PROVE  /\ Len(stack) \in Nat /\ Len(stack) >= 1
         /\ TopBlock = stack[Len(stack)][1] /\ Taken = stack[Len(stack)][2] /\ Taken \in Nat
         /\ TopBlock \in Blocks /\ TopBlock \in Open /\ TopBlock \in seen
         /\ Taken + 1 \in 1 .. Len(lists[TopBlock]) /\ NextBlock = lists[TopBlock][Taken + 1]
         /\ NextBlock \in Blocks /\ NextBlock \in EdgesOf(TopBlock) /\ NextBlock \notin seen
         /\ stack' \in Seq(Frame) /\ Len(stack') = Len(stack) + 1
         /\ \A i \in 1 .. Len(stack) :
              stack'[i] = IF i = Len(stack) THEN <<TopBlock, Taken + 1>> ELSE stack[i]
         /\ stack'[Len(stack) + 1] = <<NextBlock, 0>>
  <1>. DEFINE n == Len(stack)
              t == TopBlock
              k == Taken
              c == NextBlock
  <1>1. /\ n \in Nat /\ n >= 1 /\ t = stack[n][1] /\ k = stack[n][2] /\ k \in Nat
        /\ t \in Blocks /\ t \in Open /\ t \in seen
        /\ k + 1 \in 1 .. Len(lists[t]) /\ c \in Blocks /\ c \in EdgesOf(t) /\ c \notin seen
        /\ c = lists[t][k + 1]
    BY TopFrame DEF Descend, NextBlock
  <1>2. /\ stack' \in Seq(Frame) /\ Len(stack') = n + 1
        /\ \A i \in 1 .. n : stack'[i] = IF i = n THEN <<t, k + 1>> ELSE stack[i]
        /\ stack'[n + 1] = <<c, 0>>
    <2>1. <<c, 0>> \in Frame
      BY <1>1 DEF Frame
    <2>2. /\ Advanced \in Seq(Frame) /\ Len(Advanced) = n
          /\ \A i \in 1 .. n : Advanced[i] = IF i = n THEN <<t, k + 1>> ELSE stack[i]
      BY AdvancedStack DEF Searched, Descend
    <2>3. stack' = Append(Advanced, <<c, 0>>)
      BY DEF Descend
    <2>. HIDE DEF n, t, k, c
    <2>4. /\ stack' \in Seq(Frame) /\ Len(stack') = Len(Advanced) + 1
          /\ \A i \in 1 .. Len(Advanced) : stack'[i] = Advanced[i]
          /\ stack'[Len(Advanced) + 1] = <<c, 0>>
      BY <2>1, <2>2, <2>3, AppendProperties
    <2>. QED  BY <2>2, <2>4
  <1>. QED  BY <1>1, <1>2

LEMMA DescendSearched ==
  ASSUME Searched, Descend
  PROVE  Searched'
  <1>. DEFINE n == Len(stack)
              t == TopBlock
              k == Taken
              c == NextBlock
  <1>1. /\ n \in Nat /\ n >= 1 /\ t = stack[n][1] /\ k = stack[n][2] /\ k \in Nat
        /\ t \in Blocks /\ t \in Open /\ t \in seen
        /\ k + 1 \in 1 .. Len(lists[t]) /\ c \in Blocks /\ c \in EdgesOf(t) /\ c \notin seen
        /\ c = lists[t][k + 1]
    BY DescendShape
  <1>2. lists' = lists /\ postorder' = postorder /\ seen' = seen \cup {c}
    BY DEF Descend
  <1>3. /\ stack' \in Seq(Frame) /\ Len(stack') = n + 1
        /\ \A i \in 1 .. n : stack'[i] = IF i = n THEN <<t, k + 1>> ELSE stack[i]
        /\ stack'[n + 1] = <<c, 0>>
    BY DescendShape
  <1>. HIDE DEF n, t, k, c
  <1>4. /\ \A i \in 1 .. n : stack'[i][1] = stack[i][1]
        /\ \A i \in 1 .. n : i # n => stack'[i] = stack[i]
        /\ stack'[n][2] = k + 1
        /\ stack'[n + 1][1] = c /\ stack'[n + 1][2] = 0
        /\ 1 .. Len(stack') = (1 .. n) \cup {n + 1}
    BY <1>1, <1>3
  <1>5. Open' = Open \cup {c} /\ Closed' = Closed
    <2>1. Open = {stack[i][1] : i \in 1 .. n}
      BY DEF Open, n
    <2>2. Open' = {stack'[i][1] : i \in 1 .. Len(stack')}
      BY DEF Open
    <2>3. Open' = {stack'[i][1] : i \in 1 .. n} \cup {stack'[n + 1][1]}
      BY <1>4, <2>2
    <2>4. {stack'[i][1] : i \in 1 .. n} = {stack[i][1] : i \in 1 .. n}
      BY <1>4
    <2>. QED  BY <1>2, <1>4, <2>1, <2>3, <2>4 DEF Closed
  <1>6. SearchType'
    BY <1>1, <1>2, <1>3 DEF Searched, SearchType
  <1>7. EachOnce'
    <2>1. c \notin Open /\ c \notin Closed
      BY <1>1 DEF Searched, EachOnce
    <2>2. seen' = Open' \cup Closed' /\ Open' \cap Closed' = {}
      BY <1>2, <1>5, <2>1 DEF Searched, EachOnce
    <2>3. ASSUME NEW i \in 1 .. Len(stack'), NEW j \in 1 .. Len(stack'), stack'[i][1] = stack'[j][1]
          PROVE  i = j
      <3>1. \A h \in 1 .. n : stack'[h][1] # c
        BY <1>4, <2>1 DEF Open, n
      <3>2. \A g, h \in 1 .. n : stack[g][1] = stack[h][1] => g = h
        BY DEF Searched, EachOnce, n
      <3>. QED  BY <1>4, <2>3, <3>1, <3>2
    <2>. QED  BY <1>2, <2>2, <2>3 DEF Searched, EachOnce
  <1>8. EdgesSeen'
    <2>1. ASSUME NEW i \in 1 .. Len(stack')
          PROVE  /\ stack'[i][2] <= Len(lists[stack'[i][1]])
                 /\ \A e \in 1 .. stack'[i][2] : lists[stack'[i][1]][e] \in seen'
      <3>1. CASE i = n + 1
        <4>1. Len(lists[c]) \in Nat
          BY <1>1, SearchPositions DEF Searched
        <4>2. stack'[i][1] = c /\ stack'[i][2] = 0 /\ lists' = lists
          BY <1>2, <1>4, <3>1
        <4>. QED  BY <4>1, <4>2
      <3>2. CASE i = n
        <4>1. n \in 1 .. Len(stack) /\ \A e \in 1 .. k : lists[t][e] \in seen
          BY <1>1 DEF Searched, EdgesSeen, n
        <4>2. 1 .. k + 1 = (1 .. k) \cup {k + 1} /\ k + 1 <= Len(lists[t])
          BY <1>1
        <4>3. stack'[i][1] = t /\ stack'[i][2] = k + 1
          BY <1>1, <1>4, <3>2
        <4>4. \A e \in 1 .. k + 1 : lists[t][e] \in seen \cup {c}
          BY <1>1, <4>1, <4>2
        <4>. QED  BY <1>2, <4>2, <4>3, <4>4
      <3>3. CASE i \in 1 .. n /\ i # n
        BY <1>2, <1>4, <3>3 DEF Searched, EdgesSeen, n
      <3>. QED  BY <1>4, <3>1, <3>2, <3>3
    <2>. QED  BY <1>2, <1>5, <2>1 DEF Searched, EdgesSeen
  <1>9. EntryLast'
    <2>1. stack # <<>> /\ stack' # <<>>
      BY <1>1, <1>3, EmptySeq DEF Descend
    <2>2. 1 \in 1 .. n /\ stack'[1][1] = stack[1][1]
      BY <1>1, <1>4
    <2>. QED  BY <2>1, <2>2 DEF Searched, EntryLast
  <1>10. SeenReached'
    BY <1>1, <1>2 DEF Searched, SeenReached, Follows, EdgesOf
  <1>. QED  BY <1>6, <1>7, <1>8, <1>9, <1>10 DEF Searched

LEMMA PassOverSearched ==
  ASSUME Searched, PassOver
  PROVE  Searched'
  <1>. DEFINE n == Len(stack)
              t == TopBlock
              k == Taken
  <1>1. /\ n \in Nat /\ n >= 1 /\ t = stack[n][1] /\ k = stack[n][2] /\ k \in Nat
        /\ k + 1 \in 1 .. Len(lists[t]) /\ lists[t][k + 1] \in seen
    BY TopFrame DEF PassOver, NextBlock
  <1>2. lists' = lists /\ postorder' = postorder /\ seen' = seen
    BY DEF PassOver
  <1>3. /\ stack' \in Seq(Frame) /\ Len(stack') = n
        /\ \A i \in 1 .. n : stack'[i] = IF i = n THEN <<t, k + 1>> ELSE stack[i]
    BY AdvancedStack DEF Searched, PassOver
  <1>. HIDE DEF n, t, k
  <1>4. /\ \A i \in 1 .. n : stack'[i][1] = stack[i][1]
        /\ \A i \in 1 .. n : i # n => stack'[i] = stack[i]
        /\ stack'[n][2] = k + 1
    BY <1>1, <1>3
  <1>5. Open' = Open /\ Closed' = Closed
    <2>1. Open = {stack[i][1] : i \in 1 .. n}
      BY DEF Open, n
    <2>2. Open' = {stack'[i][1] : i \in 1 .. n}
      BY <1>3 DEF Open
    <2>. QED  BY <1>2, <1>4, <2>1, <2>2 DEF Closed
  <1>6. SearchType'
    BY <1>2, <1>3 DEF Searched, SearchType
  <1>7. EachOnce'
    <2>1. \A i, j \in 1 .. Len(stack') : stack'[i][1] = stack'[j][1] => i = j
      BY <1>3, <1>4 DEF Searched, EachOnce, n
    <2>. QED  BY <1>2, <1>5, <2>1 DEF Searched, EachOnce
  <1>8. EdgesSeen'
    <2>1. ASSUME NEW i \in 1 .. n
          PROVE  /\ stack'[i][2] <= Len(lists[stack'[i][1]])
                 /\ \A e \in 1 .. stack'[i][2] : lists[stack'[i][1]][e] \in seen
      <3>1. CASE i = n
        <4>1. n \in 1 .. Len(stack) /\ \A e \in 1 .. k : lists[t][e] \in seen
          BY <1>1 DEF Searched, EdgesSeen, n
        <4>2. 1 .. k + 1 = (1 .. k) \cup {k + 1} /\ k + 1 <= Len(lists[t])
          BY <1>1
        <4>3. stack'[i][1] = t /\ stack'[i][2] = k + 1
          BY <1>1, <1>4, <3>1
        <4>. QED  BY <1>1, <4>1, <4>2, <4>3
      <3>2. CASE i # n
        BY <1>4, <3>2 DEF Searched, EdgesSeen, n
      <3>. QED  BY <3>1, <3>2
    <2>. QED  BY <1>2, <1>3, <1>5, <2>1 DEF Searched, EdgesSeen
  <1>9. EntryLast'
    <2>1. stack # <<>> /\ stack' # <<>>
      BY <1>1, <1>3, EmptySeq DEF PassOver
    <2>2. 1 \in 1 .. n /\ stack'[1][1] = stack[1][1]
      BY <1>1, <1>4
    <2>. QED  BY <2>1, <2>2 DEF Searched, EntryLast
  <1>10. SeenReached'
    BY <1>2 DEF Searched, SeenReached, Follows, EdgesOf
  <1>. QED  BY <1>6, <1>7, <1>8, <1>9, <1>10 DEF Searched

(* What Emit does to the stack and the postorder.                          *)
LEMMA EmitShape ==
  ASSUME Searched, Emit
  PROVE  /\ Len(stack) \in Nat /\ Len(stack) >= 1
         /\ TopBlock = stack[Len(stack)][1] /\ stack[Len(stack)][2] \in Nat
         /\ TopBlock \in Blocks /\ TopBlock \in Open /\ TopBlock \in seen
         /\ stack[Len(stack)][2] = Len(lists[TopBlock]) /\ Len(lists[TopBlock]) \in Nat
         /\ stack' \in Seq(Frame) /\ Len(stack') = Len(stack) - 1
         /\ \A i \in 1 .. Len(stack) - 1 : stack'[i] = stack[i]
         /\ Len(postorder) \in Nat /\ postorder' \in Seq(Blocks) /\ postorder' # <<>>
         /\ Len(postorder') = Len(postorder) + 1
         /\ \A i \in 1 .. Len(postorder) : postorder'[i] = postorder[i]
         /\ postorder'[Len(postorder) + 1] = TopBlock
  <1>. DEFINE n == Len(stack)
              p == Len(postorder)
              t == TopBlock
  <1>1. /\ n \in Nat /\ n >= 1 /\ t = stack[n][1] /\ stack[n][2] \in Nat
        /\ t \in Blocks /\ t \in Open /\ t \in seen
        /\ stack[n][2] = Len(lists[t]) /\ Len(lists[t]) \in Nat
    BY TopFrame DEF Emit, More
  <1>2. lists' = lists /\ seen' = seen /\ stack' = Front(stack) /\ postorder' = Append(postorder, t)
    BY DEF Emit
  <1>3. /\ stack' \in Seq(Frame) /\ Len(stack') = n - 1
        /\ \A i \in 1 .. n - 1 : stack'[i] = stack[i]
    <2>1. \A i \in 1 .. n - 1 : stack[i] \in Frame
      BY <1>1, SearchPositions DEF Searched
    <2>2. /\ stack' \in Seq(Frame)
          /\ Len(stack') = IF 1 <= n - 1 THEN n - 1 - 1 + 1 ELSE 0
          /\ \A i \in 1 .. n - 1 - 1 + 1 : stack'[i] = stack[1 + i - 1]
      BY <1>1, <1>2, <2>1, SubSeqProperties DEF Front
    <2>. HIDE DEF n
    <2>3. Len(stack') = n - 1
      BY <1>1, <2>2
    <2>4. \A i \in 1 .. n - 1 : i \in 1 .. n - 1 - 1 + 1 /\ 1 + i - 1 = i
      BY <1>1
    <2>. QED  BY <2>2, <2>3, <2>4
  <1>4. /\ p \in Nat /\ postorder' \in Seq(Blocks) /\ postorder' # <<>> /\ Len(postorder') = p + 1
        /\ \A i \in 1 .. p : postorder'[i] = postorder[i]
        /\ postorder'[p + 1] = t
    BY <1>1, <1>2, AppendProperties, SearchPositions DEF Searched, SearchType
  <1>. QED  BY <1>1, <1>3, <1>4

LEMMA EmitSearched ==
  ASSUME Searched, Emit
  PROVE  Searched'
  <1>. DEFINE n == Len(stack)
              p == Len(postorder)
              t == TopBlock
  <1>1. /\ n \in Nat /\ n >= 1 /\ t = stack[n][1] /\ stack[n][2] \in Nat
        /\ t \in Blocks /\ t \in Open /\ t \in seen
        /\ stack[n][2] = Len(lists[t]) /\ Len(lists[t]) \in Nat
    BY EmitShape
  <1>2. lists' = lists /\ seen' = seen /\ stack' = Front(stack) /\ postorder' = Append(postorder, t)
    BY DEF Emit
  <1>3. /\ stack' \in Seq(Frame) /\ Len(stack') = n - 1
        /\ \A i \in 1 .. n - 1 : stack'[i] = stack[i]
    BY EmitShape
  <1>4. /\ p \in Nat /\ postorder' \in Seq(Blocks) /\ postorder' # <<>> /\ Len(postorder') = p + 1
        /\ \A i \in 1 .. p : postorder'[i] = postorder[i]
        /\ postorder'[p + 1] = t
    BY EmitShape
  <1>. HIDE DEF n, p, t
  <1>5. Open = Open' \cup {t} /\ t \notin Open' /\ Closed' = Closed \cup {t}
    <2>1. 1 .. n = (1 .. n - 1) \cup {n} /\ n \notin 1 .. n - 1
      BY <1>1
    <2>2. Open' = {stack[i][1] : i \in 1 .. n - 1}
      BY <1>3 DEF Open
    <2>3. Open = {stack[i][1] : i \in 1 .. n}
      BY DEF Open, n
    <2>4. Open = Open' \cup {t}
      BY <1>1, <2>1, <2>2, <2>3
    <2>5. \A i \in 1 .. n - 1 : stack[i][1] # t
      BY <1>1, <2>1 DEF Searched, EachOnce, n
    <2>6. t \notin Open'
      BY <2>2, <2>5
    <2>7. 1 .. Len(postorder') = (1 .. p) \cup {p + 1}
      BY <1>4
    <2>8. Closed' = {postorder'[i] : i \in 1 .. p} \cup {t}
      BY <1>4, <2>7 DEF Closed
    <2>9. Closed = {postorder'[i] : i \in 1 .. p}
      BY <1>4 DEF Closed, p
    <2>. QED  BY <2>4, <2>6, <2>8, <2>9
  <1>6. SearchType'
    BY <1>2, <1>3, <1>4 DEF Searched, SearchType
  <1>7. EachOnce'
    <2>1. seen' = Open' \cup Closed' /\ Open' \cap Closed' = {}
      BY <1>2, <1>5 DEF Searched, EachOnce
    <2>2. \A i, j \in 1 .. Len(stack') : stack'[i][1] = stack'[j][1] => i = j
      <3>1. \A i \in 1 .. n - 1 : i \in 1 .. n
        BY <1>1
      <3>. QED  BY <1>3, <3>1 DEF Searched, EachOnce, n
    <2>3. \A i, j \in 1 .. Len(postorder') : postorder'[i] = postorder'[j] => i = j
      <3>1. \A i \in 1 .. p : postorder[i] # t
        BY <1>1 DEF Searched, EachOnce, Closed, p
      <3>2. \A i, j \in 1 .. p : postorder[i] = postorder[j] => i = j
        BY DEF Searched, EachOnce, p
      <3>3. 1 .. Len(postorder') = (1 .. p) \cup {p + 1}
        BY <1>4
      <3>. QED  BY <1>4, <3>1, <3>2, <3>3
    <2>. QED  BY <2>1, <2>2, <2>3 DEF EachOnce
  <1>8. EdgesSeen'
    <2>1. \A i \in 1 .. n - 1 : /\ stack[i][2] <= Len(lists[stack[i][1]])
                                /\ \A e \in 1 .. stack[i][2] : lists[stack[i][1]][e] \in seen
      <3>1. \A i \in 1 .. n - 1 : i \in 1 .. n
        BY <1>1
      <3>. QED  BY <3>1 DEF Searched, EdgesSeen, n
    <2>2. \A e \in 1 .. Len(lists[t]) : lists[t][e] \in seen
      <3>1. n \in 1 .. n
        BY <1>1
      <3>. QED  BY <1>1, <3>1 DEF Searched, EdgesSeen, n
    <2>3. \A b \in Closed' : \A e \in 1 .. Len(lists[b]) : lists[b][e] \in seen
      BY <1>5, <2>2 DEF Searched, EdgesSeen
    <2>. QED  BY <1>2, <1>3, <2>1, <2>3 DEF EdgesSeen
  <1>9. EntryLast'
    <2>1. ASSUME stack' # <<>> PROVE stack'[1][1] = First
      <3>1. 1 \in 1 .. n - 1
        <4>1. Len(stack') >= 1
          BY <1>3, <2>1, EmptySeq
        <4>. QED  BY <1>1, <1>3, <4>1
      <3>2. stack # <<>>
        BY DEF Emit
      <3>. QED  BY <1>3, <3>1, <3>2 DEF Searched, EntryLast
    <2>2. ASSUME stack' = <<>> PROVE t = First
      <3>1. n = 1
        <4>1. Len(stack') = 0
          BY <2>2, EmptySeq
        <4>. QED  BY <1>1, <1>3, <4>1
      <3>2. stack # <<>>
        BY DEF Emit
      <3>. QED  BY <1>1, <3>1, <3>2 DEF Searched, EntryLast
    <2>. QED  BY <1>4, <2>1, <2>2 DEF EntryLast
  <1>10. SeenReached'
    BY <1>2 DEF Searched, SeenReached, Follows, EdgesOf
  <1>. QED  BY <1>6, <1>7, <1>8, <1>9, <1>10 DEF Searched

(* The reversed postorder lists what was closed, the entry first.          *)
LEMMA OrderFound ==
  ASSUME Searched, ReverseOrder
  PROVE  (Done /\ stack = <<>> /\ WellOrdered([b \in Blocks |-> EdgesOf(b)], order))'
  <1>. DEFINE p == Len(postorder)
              s == [b \in Blocks |-> EdgesOf(b)]
  <1>1. p \in Nat /\ p >= 1 /\ postorder[p] = First
    BY SearchPositions DEF Searched, EntryLast, ReverseOrder
  <1>2. order' = [i \in 1 .. p |-> postorder[(p - i) + 1]]
    BY DEF ReverseOrder, Reverse
  <1>3. lists' = lists /\ stack' = <<>>
    BY DEF ReverseOrder, searchVars
  <1>4. \A i \in 1 .. p : postorder[i] \in Blocks
    BY SearchPositions DEF Searched
  <1>5. Open = {} /\ Closed = seen
    <2>1. 1 .. Len(stack) = {}
      BY EmptySeq DEF ReverseOrder
    <2>. QED  BY <2>1 DEF Open, Searched, EachOnce
  <1>6. Closed = {postorder[i] : i \in 1 .. p}
    BY DEF Closed
  <1>7. \A i, j \in 1 .. p : postorder[i] = postorder[j] => i = j
    BY DEF Searched, EachOnce
  <1>. HIDE DEF p
  <1>8. \A i \in 1 .. p : (p - i) + 1 \in 1 .. p /\ (p - ((p - i) + 1)) + 1 = i
    BY <1>1
  <1>9. DOMAIN order' = 1 .. p /\ \A i \in 1 .. p : order'[i] = postorder[(p - i) + 1]
    BY <1>2
  <1>10. order' \in Seq(Blocks) /\ Len(order') = p
    <2>1. order' \in [1 .. p -> Blocks]
      BY <1>2, <1>4, <1>8
    <2>2. order' \in Seq(Blocks)
      BY <1>1, <2>1, SeqDef
    <2>. QED  BY <1>1, <1>9, <2>2, LenProperties
  <1>11. order' # <<>> /\ order'[1] = First
    <2>1. 1 \in 1 .. p /\ (p - 1) + 1 = p
      BY <1>1
    <2>2. order' # <<>>
      BY <1>1, <1>10, EmptySeq
    <2>. QED  BY <1>1, <1>9, <2>1, <2>2
  <1>12. \A i, j \in DOMAIN order' : order'[i] = order'[j] => i = j
    <2>. SUFFICES ASSUME NEW i \in 1 .. p, NEW j \in 1 .. p, order'[i] = order'[j]
                  PROVE  i = j
      BY <1>9
    <2>1. (p - i) + 1 = (p - j) + 1
      BY <1>7, <1>8, <1>9
    <2>. QED  BY <1>1, <2>1
  <1>13. \A b \in Closed : \E j \in DOMAIN order' : order'[j] = b
    <2>. SUFFICES ASSUME NEW b \in Closed PROVE \E j \in 1 .. p : order'[j] = b
      BY <1>9
    <2>1. PICK i \in 1 .. p : postorder[i] = b
      BY <1>6
    <2>2. (p - i) + 1 \in 1 .. p /\ order'[(p - i) + 1] = b
      BY <1>8, <1>9, <2>1
    <2>. QED  BY <2>2
  <1>14. \A i \in DOMAIN order' : order'[i] \in Closed /\ order'[i] \in Blocks
    BY <1>4, <1>6, <1>8, <1>9
  <1>15. s \in [Blocks -> SUBSET Blocks] /\ s' = s
    <2>1. \A b \in Blocks : EdgesOf(b) \in SUBSET Blocks
      BY SearchPositions DEF EdgesOf, ToSet, Searched
    <2>. QED  BY <1>3, <2>1 DEF EdgesOf
  <1>16. \A b \in Closed : EdgesOf(b) \subseteq seen
    <2>1. \A b \in Blocks : DOMAIN lists[b] = 1 .. Len(lists[b])
      BY SearchPositions DEF Searched
    <2>2. Closed \subseteq Blocks
      BY <1>4, <1>6
    <2>. QED  BY <2>1, <2>2 DEF Searched, EdgesSeen, EdgesOf, ToSet
  <1>17. \A i \in DOMAIN order' : \A b \in s[order'[i]] : \E j \in DOMAIN order' : order'[j] = b
    BY <1>5, <1>13, <1>14, <1>16
  <1>18. ASSUME NEW R \in SUBSET Blocks, First \in R, \A b \in R : s[b] \subseteq R
         PROVE  \A i \in DOMAIN order' : order'[i] \in R
    <2>1. Follows(R)
      BY <1>18 DEF Follows
    <2>. QED  BY <1>5, <1>14, <2>1 DEF Searched, SeenReached
  <1>19. WellOrdered(s, order')
    <2>. HIDE DEF s
    <2>. QED  BY <1>10, <1>11, <1>12, <1>15, <1>17, <1>18 DEF WellOrdered
  <1>. QED  BY <1>3, <1>11, <1>15, <1>19 DEF Done
-----------------------------------------------------------------------------
LEMMA InitSearchInv == DataflowInit => SearchInv
  <1>. SUFFICES ASSUME DataflowInit PROVE SearchInv
    OBVIOUS
  <1>1. /\ lists \in [Blocks -> Seq(Blocks)] /\ seen = {First} /\ postorder = <<>> /\ order = <<>>
        /\ stack = <<<<First, 0>>>>
    BY BodiesAssumption DEF DataflowInit, SearchFresh
  <1>2. stack \in Seq(Frame) /\ Len(stack) = 1 /\ stack[1] = <<First, 0>>
    BY <1>1, BlocksAssumption DEF Frame
  <1>3. postorder \in Seq(Blocks) /\ Len(postorder) = 0
    BY <1>1, EmptySeq
  <1>4. SearchType
    BY <1>1, <1>2, <1>3, BlocksAssumption DEF SearchType
  <1>5. Open = {First} /\ Closed = {} /\ 1 .. Len(stack) = {1} /\ 1 .. Len(postorder) = {}
    BY <1>2, <1>3 DEF Open, Closed
  <1>6. EachOnce
    BY <1>1, <1>5 DEF EachOnce
  <1>7. EdgesSeen
    <2>1. Len(lists[First]) \in Nat
      BY <1>4, BlocksAssumption, SearchPositions
    <2>2. stack[1][1] = First /\ stack[1][2] = 0 /\ 1 .. 0 = {}
      BY <1>2
    <2>. QED  BY <1>5, <2>1, <2>2 DEF EdgesSeen
  <1>8. EntryLast
    BY <1>1, <1>2 DEF EntryLast
  <1>9. SeenReached
    BY <1>1 DEF SeenReached, Follows
  <1>. QED  BY <1>1, <1>4, <1>6, <1>7, <1>8, <1>9 DEF SearchInv, Searched, Done

(* The engines leave the search alone.                                     *)
LEMMA SearchOrNot ==
  [DataflowNext]_allVars => Search \/ ReverseOrder \/ UNCHANGED <<searchVars, order>>
  <1>1. FindOrder => Search
    BY DEF FindOrder
  <1>2. BeginAnalyses => ReverseOrder
    BY DEF BeginAnalyses
  <1>3. RunForward => UNCHANGED <<searchVars, order>>
    BY DEF RunForward, Next, Visit
  <1>4. RunBackward => UNCHANGED <<searchVars, order>>
    BY DEF RunBackward, BackwardNext, VisitBack
  <1>5. UNCHANGED allVars => UNCHANGED <<searchVars, order>>
    BY DEF allVars
  <1>. QED  BY <1>1, <1>2, <1>3, <1>4, <1>5 DEF DataflowNext

LEMMA StepSearchInv == SearchInv /\ [DataflowNext]_allVars => SearchInv'
  <1>. SUFFICES ASSUME SearchInv, [DataflowNext]_allVars PROVE SearchInv'
    OBVIOUS
  <1>1. CASE Search
    <2>1. ~ Done /\ Searched /\ order' = order
      BY <1>1 DEF SearchInv, Search, Descend, PassOver, Emit
    <2>2. Searched'
      BY <1>1, <2>1, DescendSearched, PassOverSearched, EmitSearched DEF Search
    <2>. QED  BY <2>1, <2>2 DEF SearchInv, Done, Searched, SearchType
  <1>2. CASE ReverseOrder
    <2>1. ~ Done /\ Searched /\ lists' = lists
      BY <1>2 DEF SearchInv, ReverseOrder, Done, searchVars
    <2>. QED  BY <1>2, <2>1, OrderFound DEF SearchInv
  <1>3. CASE UNCHANGED <<searchVars, order>>
    <2>1. UNCHANGED <<lists, seen, stack, postorder, order>>
      BY <1>3 DEF searchVars
    <2>2. Open' = Open /\ Closed' = Closed
      BY <2>1 DEF Open, Closed
    <2>3. Searched => Searched'
      <3>1. SearchType => SearchType'
        BY <2>1 DEF SearchType
      <3>2. EachOnce => EachOnce'
        BY <2>1, <2>2 DEF EachOnce
      <3>3. EdgesSeen => EdgesSeen'
        BY <2>1, <2>2 DEF EdgesSeen
      <3>4. EntryLast => EntryLast'
        BY <2>1 DEF EntryLast
      <3>5. SeenReached => SeenReached'
        BY <2>1 DEF SeenReached, Follows, EdgesOf
      <3>. QED  BY <3>1, <3>2, <3>3, <3>4, <3>5 DEF Searched
    <2>4. Done' <=> Done
      BY <2>1 DEF Done
    <2>5. WellOrdered([b \in Blocks |-> EdgesOf(b)], order)' <=> WellOrdered([b \in Blocks |-> EdgesOf(b)], order)
      BY <2>1 DEF WellOrdered, EdgesOf
    <2>. QED  BY <2>1, <2>3, <2>4, <2>5 DEF SearchInv
  <1>. QED  BY <1>1, <1>2, <1>3, SearchOrNot

(* Whatever loops and branches a body has, the order the search finds is   *)
(* the one the proofs about both engines start from.                       *)
THEOREM OrderIsRight == DataflowSpec => []OrderIsReachable
  <1>1. SearchInv => OrderIsReachable
    BY DEF SearchInv, OrderIsReachable
  <1>2. DataflowSpec => []SearchInv
    BY InitSearchInv, StepSearchInv, PTL DEF DataflowSpec
  <1>. QED  BY <1>1, <1>2, PTL
-----------------------------------------------------------------------------
(* Each open block leads to those above it on the stack.                   *)
StackLeads == \A i, j \in 1 .. Len(stack) : i < j => stack[j][1] \in ReachedFrom(stack[i][1])

(* An edge of a closed block leads to one closed before it, or goes back.  *)
LaterLeadsBack ==
  \A q \in 1 .. Len(postorder) : \A a \in EdgesOf(postorder[q]) :
    \/ \E r \in 1 .. q - 1 : postorder[r] = a
    \/ postorder[q] \in ReachedFrom(a)

FollowsInv == /\ ~ Done => StackLeads /\ LaterLeadsBack
              /\ OrderFollowsEdges

(* One edge more.                                                          *)
LEMMA OneEdge ==
  ASSUME NEW a \in Blocks, NEW b \in EdgesOf(a), b \in Blocks
  PROVE  b \in ReachedFrom(a)
  BY DEF ReachedFrom

LEMMA EdgeMore ==
  ASSUME NEW a \in Blocks, NEW b \in ReachedFrom(a), NEW c \in EdgesOf(b), c \in Blocks
  PROVE  c \in ReachedFrom(a)
  <1>. SUFFICES ASSUME NEW R \in SUBSET Blocks, EdgesOf(a) \subseteq R,
                       \A d \in R : EdgesOf(d) \subseteq R
                PROVE  c \in R
    BY DEF ReachedFrom
  <1>1. b \in R
    BY DEF ReachedFrom
  <1>. QED  BY <1>1

LEMMA SameReach ==
  ASSUME lists' = lists
  PROVE  /\ \A b : EdgesOf(b)' = EdgesOf(b)
         /\ \A b : ReachedFrom(b)' = ReachedFrom(b)
  <1>1. \A b : EdgesOf(b)' = EdgesOf(b)
    BY DEF EdgesOf
  <1>2. \A b : ReachedFrom(b)' = ReachedFrom(b)
    BY DEF ReachedFrom, EdgesOf
  <1>. QED  BY <1>1, <1>2

LEMMA DescendFollows ==
  ASSUME Searched, StackLeads, LaterLeadsBack, Descend
  PROVE  StackLeads' /\ LaterLeadsBack'
  <1>. DEFINE n == Len(stack)
              c == NextBlock
  <1>1. lists' = lists /\ postorder' = postorder
    BY DEF Descend
  <1>2. /\ n \in Nat /\ n >= 1 /\ stack[n][1] = TopBlock /\ c \in Blocks /\ c \in EdgesOf(TopBlock)
        /\ TopBlock \in Blocks
        /\ Len(stack') = n + 1 /\ stack'[n + 1][1] = c
        /\ \A i \in 1 .. n : stack'[i][1] = stack[i][1]
    BY DescendShape
  <1>3. \A i \in 1 .. n : stack[i][1] \in Blocks
    BY SearchPositions DEF Searched
  <1>4. \A i \in 1 .. n : c \in ReachedFrom(stack[i][1])
    <2>. TAKE i \in 1 .. n
    <2>1. CASE i = n
      BY <1>2, <2>1, OneEdge
    <2>2. CASE i # n
      <3>1. i < n /\ n \in 1 .. n
        BY <1>2, <2>2
      <3>2. TopBlock \in ReachedFrom(stack[i][1])
        BY <1>2, <3>1 DEF StackLeads
      <3>. QED  BY <1>2, <1>3, <3>2, EdgeMore
    <2>. QED  BY <2>1, <2>2
  <1>. HIDE DEF n, c
  <1>5. ASSUME NEW i \in 1 .. n + 1, NEW j \in 1 .. n + 1, i < j
        PROVE  stack'[j][1] \in ReachedFrom(stack'[i][1])
    <2>1. i \in 1 .. n
      BY <1>2, <1>5
    <2>2. CASE j = n + 1
      BY <1>2, <1>4, <2>1, <2>2
    <2>3. CASE j # n + 1
      <3>1. j \in 1 .. n
        BY <1>2, <2>3
      <3>. QED  BY <1>2, <1>5, <2>1, <3>1 DEF StackLeads, n
    <2>. QED  BY <2>2, <2>3
  <1>6. StackLeads'
    BY <1>1, <1>2, <1>5, SameReach DEF StackLeads
  <1>7. LaterLeadsBack'
    BY <1>1, SameReach DEF LaterLeadsBack
  <1>. QED  BY <1>6, <1>7

LEMMA PassOverFollows ==
  ASSUME Searched, StackLeads, LaterLeadsBack, PassOver
  PROVE  StackLeads' /\ LaterLeadsBack'
  <1>1. lists' = lists /\ postorder' = postorder /\ stack' = Advanced /\ stack # <<>>
    BY DEF PassOver
  <1>2. /\ Len(stack') = Len(stack)
        /\ \A i \in 1 .. Len(stack) : stack'[i] = IF i = Len(stack) THEN <<TopBlock, Taken + 1>> ELSE stack[i]
    BY <1>1, AdvancedStack DEF Searched
  <1>3. TopBlock = stack[Len(stack)][1]
    BY <1>1, TopFrame
  <1>4. \A i \in 1 .. Len(stack) : stack'[i][1] = stack[i][1]
    BY <1>2, <1>3
  <1>5. StackLeads'
    BY <1>1, <1>2, <1>4, SameReach DEF StackLeads
  <1>6. LaterLeadsBack'
    BY <1>1, SameReach DEF LaterLeadsBack
  <1>. QED  BY <1>5, <1>6

(* All edges of a block lead to what was seen when it is closed: what is   *)
(* still open then lies below it on the stack and leads to it.             *)
LEMMA EmitFollows ==
  ASSUME Searched, StackLeads, LaterLeadsBack, Emit
  PROVE  StackLeads' /\ LaterLeadsBack'
  <1>. DEFINE n == Len(stack)
              p == Len(postorder)
              t == TopBlock
  <1>1. /\ n \in Nat /\ n >= 1 /\ t = stack[n][1] /\ t \in Blocks
        /\ stack[n][2] = Len(lists[t])
        /\ Len(stack') = n - 1 /\ \A i \in 1 .. n - 1 : stack'[i] = stack[i]
        /\ p \in Nat /\ Len(postorder') = p + 1
        /\ \A i \in 1 .. p : postorder'[i] = postorder[i]
        /\ postorder'[p + 1] = t
    BY EmitShape
  <1>2. lists' = lists
    BY DEF Emit
  <1>3. DOMAIN lists[t] = 1 .. Len(lists[t])
    BY <1>1, SearchPositions DEF Searched
  <1>4. n \in 1 .. n
    BY <1>1
  <1>5. EdgesOf(t) \subseteq seen
    BY <1>1, <1>3, <1>4 DEF Searched, EdgesSeen, EdgesOf, ToSet
  <1>6. ASSUME NEW a \in EdgesOf(t)
        PROVE  (\E r \in 1 .. p : postorder[r] = a) \/ t \in ReachedFrom(a)
    <2>1. a \in Open \/ a \in Closed
      BY <1>5 DEF Searched, EachOnce
    <2>2. CASE a \in Closed
      BY <2>2 DEF Closed
    <2>3. CASE a \in Open
      <3>1. PICK i \in 1 .. n : stack[i][1] = a
        BY <2>3 DEF Open
      <3>2. CASE i = n
        BY <1>1, <3>1, <3>2, OneEdge
      <3>3. CASE i # n
        <4>1. i < n
          BY <1>1, <3>3
        <4>. QED  BY <1>1, <1>4, <3>1, <4>1 DEF StackLeads
      <3>. QED  BY <3>2, <3>3
    <2>. QED  BY <2>1, <2>2, <2>3
  <1>. HIDE DEF n, p, t
  <1>7. StackLeads'
    <2>1. \A i \in 1 .. n - 1 : i \in 1 .. n
      BY <1>1
    <2>2. \A i, j \in 1 .. n - 1 : i < j => stack'[j][1] \in ReachedFrom(stack'[i][1])
      BY <1>1, <2>1 DEF StackLeads, n
    <2>. QED  BY <1>1, <1>2, <2>2, SameReach DEF StackLeads
  <1>8. ASSUME NEW q \in 1 .. p + 1, NEW a \in EdgesOf(postorder'[q])
        PROVE  (\E r \in 1 .. q - 1 : postorder'[r] = a) \/ postorder'[q] \in ReachedFrom(a)
    <2>1. CASE q = p + 1
      <3>1. q - 1 = p
        BY <1>1, <2>1
      <3>. QED  BY <1>1, <1>6, <2>1, <3>1
    <2>2. CASE q # p + 1
      <3>1. q \in 1 .. p /\ \A r \in 1 .. q - 1 : r \in 1 .. p
        BY <1>1, <2>2
      <3>2. postorder'[q] = postorder[q]
        BY <1>1, <3>1
      <3>3. (\E r \in 1 .. q - 1 : postorder[r] = a) \/ postorder[q] \in ReachedFrom(a)
        BY <1>8, <3>1, <3>2 DEF LaterLeadsBack, p
      <3>. QED  BY <1>1, <3>1, <3>2, <3>3
    <2>. QED  BY <2>1, <2>2
  <1>9. LaterLeadsBack'
    <2>. SUFFICES ASSUME NEW q \in 1 .. Len(postorder'), NEW a \in EdgesOf(postorder[q])'
                  PROVE  ((\E r \in 1 .. q - 1 : postorder[r] = a) \/ postorder[q] \in ReachedFrom(a))'
      BY DEF LaterLeadsBack
    <2>1. q \in 1 .. p + 1 /\ a \in EdgesOf(postorder'[q])
      BY <1>1, <1>2 DEF EdgesOf
    <2>2. ReachedFrom(a)' = ReachedFrom(a)
      BY <1>2, SameReach
    <2>. QED  BY <1>8, <2>1, <2>2
  <1>. QED  BY <1>7, <1>9

(* Turned round, the postorder has what leads to a block before it.        *)
LEMMA ReverseFollows ==
  ASSUME Searched, LaterLeadsBack, ReverseOrder
  PROVE  Done' /\ OrderFollowsEdges'
  <1>. DEFINE p == Len(postorder)
  <1>1. p \in Nat /\ order' = [i \in 1 .. p |-> postorder[(p - i) + 1]] /\ lists' = lists
    BY SearchPositions DEF Searched, ReverseOrder, Reverse, searchVars
  <1>2. Done' /\ order'[1] = First
    BY OrderFound DEF WellOrdered
  <1>3. \A i, j \in 1 .. p : postorder[i] = postorder[j] => i = j
    BY DEF Searched, EachOnce
  <1>. HIDE DEF p
  <1>4. \A i \in 1 .. p : (p - i) + 1 \in 1 .. p /\ order'[i] = postorder[(p - i) + 1]
    BY <1>1
  <1>5. ASSUME NEW i \in 1 .. p, NEW j \in 1 .. p, order'[i] \in EdgesOf(order'[j])
        PROVE  j < i \/ order'[j] \in ReachedFrom(order'[i])
    <2>1. PICK g \in 1 .. p : g = (p - i) + 1 /\ order'[i] = postorder[g]
      BY <1>4
    <2>2. PICK h \in 1 .. p : h = (p - j) + 1 /\ order'[j] = postorder[h]
      BY <1>4
    <2>3. (\E r \in 1 .. h - 1 : postorder[r] = postorder[g]) \/ postorder[h] \in ReachedFrom(postorder[g])
      BY <1>5, <2>1, <2>2 DEF LaterLeadsBack, p
    <2>4. ASSUME NEW r \in 1 .. h - 1, postorder[r] = postorder[g] PROVE j < i
      <3>1. r \in 1 .. p
        BY <1>1, <2>2
      <3>2. r = g
        BY <1>3, <2>4, <3>1
      <3>. QED  BY <1>1, <2>1, <2>2, <3>2
    <2>. QED  BY <2>1, <2>2, <2>3, <2>4
  <1>6. DOMAIN order' = 1 .. p
    BY <1>1
  <1>7. OrderFollowsEdges'
    <2>. SUFFICES ASSUME NEW i \in 1 .. p, NEW j \in 1 .. p, (order[i] \in EdgesOf(order[j]))'
                  PROVE  j < i \/ (order[j] \in ReachedFrom(order[i]))'
      BY <1>2, <1>6 DEF OrderFollowsEdges
    <2>1. order'[i] \in EdgesOf(order'[j])
      BY <1>1 DEF EdgesOf
    <2>2. j < i \/ order'[j] \in ReachedFrom(order'[i])
      BY <1>5, <2>1
    <2>. QED  BY <1>1, <2>2 DEF ReachedFrom, EdgesOf
  <1>. QED  BY <1>2, <1>7

LEMMA InitFollowsInv == DataflowInit => FollowsInv
  <1>. SUFFICES ASSUME DataflowInit PROVE FollowsInv
    OBVIOUS
  <1>1. order = <<>> /\ Len(stack) = 1 /\ Len(postorder) = 0
    BY EmptySeq DEF DataflowInit, SearchFresh
  <1>. QED  BY <1>1 DEF FollowsInv, StackLeads, LaterLeadsBack, OrderFollowsEdges, Done

LEMMA StepFollowsInv == SearchInv /\ FollowsInv /\ [DataflowNext]_allVars => FollowsInv'
  <1>. SUFFICES ASSUME SearchInv, FollowsInv, [DataflowNext]_allVars PROVE FollowsInv'
    OBVIOUS
  <1>1. CASE Search
    <2>1. ~ Done /\ Searched /\ order' = order
      BY <1>1 DEF SearchInv, Search, Descend, PassOver, Emit
    <2>2. StackLeads' /\ LaterLeadsBack'
      BY <1>1, <2>1, DescendFollows, PassOverFollows, EmitFollows DEF Search, FollowsInv
    <2>. QED  BY <2>1, <2>2 DEF FollowsInv, OrderFollowsEdges, Done
  <1>2. CASE ReverseOrder
    <2>1. ~ Done /\ Searched
      BY <1>2 DEF SearchInv, ReverseOrder, Done
    <2>. QED  BY <1>2, <2>1, ReverseFollows DEF FollowsInv
  <1>3. CASE UNCHANGED <<searchVars, order>>
    <2>1. UNCHANGED <<lists, stack, postorder, order>>
      BY <1>3 DEF searchVars
    <2>2. StackLeads => StackLeads'
      BY <2>1, SameReach DEF StackLeads
    <2>3. LaterLeadsBack => LaterLeadsBack'
      BY <2>1, SameReach DEF LaterLeadsBack
    <2>4. OrderFollowsEdges => OrderFollowsEdges'
      BY <2>1, SameReach DEF OrderFollowsEdges, Done
    <2>. QED  BY <2>1, <2>2, <2>3, <2>4 DEF FollowsInv, Done
  <1>. QED  BY <1>1, <1>2, <1>3, SearchOrNot

(* A forward analysis comes to a block when it has been to all that lead   *)
(* there, but for the edges that close a loop, in a body of any size.      *)
THEOREM OrderFollows == DataflowSpec => []OrderFollowsEdges
  <1>1. FollowsInv => OrderFollowsEdges
    BY DEF FollowsInv
  <1>. QED
    BY <1>1, InitSearchInv, StepSearchInv, InitFollowsInv, StepFollowsInv, PTL DEF DataflowSpec
-----------------------------------------------------------------------------
(* The rest of the state: untouched until there is an order, and from then *)
(* on over the edges that the search saw.                                  *)
Untouched ==
  /\ starts = [b \in Blocks |-> None] /\ ends = [b \in Blocks |-> None] /\ pending = {}
  /\ liveStarts = [b \in Blocks |-> {}] /\ liveEnds = [b \in Blocks |-> {}]
  /\ visited = [b \in Blocks |-> FALSE] /\ waiting = {}

EnginesInv ==
  /\ effect \in [Blocks -> Effects] /\ summaries \in [Blocks -> Summaries]
  /\ CodeOK
  /\ ~ Done => Untouched
  /\ Done => PreciseInv /\ LiveInv

LEMMA InitEnginesInv == DataflowInit => EnginesInv
  <1>. SUFFICES ASSUME DataflowInit PROVE EnginesInv
    OBVIOUS
  <1>0. CodeOK
    BY BodiesAssumption DEF DataflowInit, CodeOK, Last
  <1>1. effect \in [Blocks -> Effects] /\ summaries \in [Blocks -> Summaries]
    <2>1. \A b \in Blocks : SummaryOf(analysis, code[b]) \in Summaries
      BY <1>0, SummaryTyped DEF CodeOK
    <2>. QED  BY <2>1, BodiesAssumption DEF DataflowInit
  <1>2. order = <<>> /\ DOMAIN order = {}
    BY DEF DataflowInit, SearchFresh
  <1>3. Untouched
    BY <1>2 DEF DataflowInit, Start, Untouched
  <1>. QED  BY <1>0, <1>1, <1>2, <1>3 DEF EnginesInv, Done

(* The analyses begin where their proofs begin.                            *)
LEMMA UnvisitedInvNext == (WellOrdered(successors, order) /\ Unvisited => PreciseInv)'
  BY UnvisitedPrecise, PTL
LEMMA AllWaitingInvNext == (WellOrdered(successors, order) /\ AllWaiting => LiveInv)'
  BY AllWaitingInv, PTL

(* Nothing changes the code or its summaries.                              *)
LEMMA KeepsCode == CodeOK /\ UNCHANGED <<summaries, analysis, code>> => CodeOK'
  BY DEF CodeOK

LEMMA BeginEnginesInv ==
  ASSUME SearchInv, EnginesInv, BeginAnalyses
  PROVE  EnginesInv'
  <1>1. /\ ReverseOrder /\ ~ Done
        /\ successors' = [b \in Blocks |-> EdgesOf(b)] /\ lists' = lists
        /\ pending' = {1} /\ waiting' = DOMAIN order'
        /\ UNCHANGED <<effect, starts, ends, summaries, liveStarts, liveEnds, visited>>
    BY DEF BeginAnalyses, ReverseOrder, searchVars, Done
  <1>2. /\ Untouched /\ effect \in [Blocks -> Effects] /\ summaries \in [Blocks -> Summaries]
    BY <1>1 DEF EnginesInv
  <1>9. CodeOK'
    BY KeepsCode DEF EnginesInv, BeginAnalyses
  <1>3. Done' /\ WellOrdered([b \in Blocks |-> EdgesOf(b)], order)'
    BY <1>1, OrderFound DEF SearchInv
  <1>4. WellOrdered(successors, order)'
    <2>1. [b \in Blocks |-> EdgesOf(b)]' = successors'
      BY <1>1 DEF EdgesOf
    <2>. QED  BY <1>3, <2>1 DEF WellOrdered
  <1>5. Unvisited'
    BY <1>1, <1>2 DEF Unvisited, Untouched
  <1>6. AllWaiting'
    BY <1>1, <1>2 DEF AllWaiting, Untouched, Start
  <1>. QED
    BY <1>1, <1>2, <1>3, <1>4, <1>5, <1>6, <1>9, UnvisitedInvNext, AllWaitingInvNext DEF EnginesInv

(* Neither engine touches what the other keeps, and neither runs early.    *)
LEMMA RunEnginesInv ==
  ASSUME EnginesInv, RunForward \/ RunBackward
  PROVE  EnginesInv'
  <1>1. PICK i \in DOMAIN order : (RunForward /\ Visit(i)) \/ (RunBackward /\ VisitBack(i))
    BY DEF RunForward, RunBackward, Next, BackwardNext
  <1>2. Done /\ order' = order
    BY <1>1 DEF Visit, VisitBack, Done
  <1>3. /\ effect \in [Blocks -> Effects] /\ summaries \in [Blocks -> Summaries]
        /\ PreciseInv /\ LiveInv
    BY <1>2 DEF EnginesInv
  <1>4. UNCHANGED <<effect, summaries>> /\ CodeOK'
    BY <1>1, KeepsCode DEF Visit, VisitBack, RunForward, RunBackward, EnginesInv
  <1>5. [Next]_vars /\ [BackwardNext]_backwardVars
    <2>1. CASE RunForward
      BY <2>1 DEF RunForward, Next, Visit, backwardVars
    <2>2. CASE RunBackward
      BY <2>2 DEF RunBackward, BackwardNext, VisitBack, vars
    <2>. QED  BY <2>1, <2>2
  <1>6. PreciseInv' /\ LiveInv'
    BY <1>3, <1>5, StepPrecise, BackwardStepPreserves
  <1>. QED  BY <1>2, <1>3, <1>4, <1>6 DEF EnginesInv, Done

LEMMA StepEnginesInv == SearchInv /\ EnginesInv /\ [DataflowNext]_allVars => EnginesInv'
  <1>. SUFFICES ASSUME SearchInv, EnginesInv, [DataflowNext]_allVars PROVE EnginesInv'
    OBVIOUS
  <1>1. CASE FindOrder
    <2>1. ~ Done /\ order' = order
      BY <1>1 DEF FindOrder, SearchInv, Search, Descend, PassOver, Emit
    <2>2. CodeOK'
      BY <1>1, KeepsCode DEF FindOrder, EnginesInv
    <2>. QED  BY <1>1, <2>1, <2>2 DEF FindOrder, EnginesInv, Done, Untouched
  <1>2. CASE UNCHANGED allVars
    <2>1. UNCHANGED <<order, effect, summaries>> /\ UNCHANGED vars /\ UNCHANGED backwardVars
      BY <1>2 DEF allVars, vars, backwardVars
    <2>2. Done => PreciseInv' /\ LiveInv'
      BY <2>1, StepPrecise, BackwardStepPreserves DEF EnginesInv
    <2>3. CodeOK'
      BY <1>2, KeepsCode DEF allVars, EnginesInv
    <2>. QED  BY <1>2, <2>1, <2>2, <2>3 DEF EnginesInv, Done, Untouched, allVars
  <1>. QED  BY <1>1, <1>2, BeginEnginesInv, RunEnginesInv DEF DataflowNext

LEMMA EnginesRight == DataflowSpec => []EnginesInv
  BY InitSearchInv, StepSearchInv, InitEnginesInv, StepEnginesInv, PTL DEF DataflowSpec

(* Whatever graph a body has, its forward analysis ends in a solution of   *)
(* its equations, from the order that the search of the code found.        *)
THEOREM ForwardSolves == DataflowSpec => []Solved
  <1>1. EnginesInv => Solved
    <2>1. CASE Done
      BY <2>1, SettledSolves DEF EnginesInv, PreciseInv
    <2>2. CASE ~ Done
      BY <2>2 DEF Done, Solved, Reached
    <2>. QED  BY <2>1, <2>2
  <1>. QED  BY <1>1, EnginesRight, PTL

(* The solution it ends in is the most precise one.                        *)
THEOREM ForwardMostPrecise == DataflowSpec => []MostPrecise
  <1>1. EnginesInv => MostPrecise
    <2>1. CASE Done
      BY <2>1, PreciseAtTheEnd DEF EnginesInv
    <2>2. CASE ~ Done
      BY <2>2 DEF Done, MostPrecise, Reached
    <2>. QED  BY <2>1, <2>2
  <1>. QED  BY <1>1, EnginesRight, PTL

(* And its backward analysis ends in the least solution.                   *)
THEOREM BackwardSolves == DataflowSpec => [](LiveSolved /\ NeverTooMuch)
  <1>1. EnginesInv => LiveSolved /\ NeverTooMuch
    <2>1. CASE Done
      BY <2>1, LiveSettledSolves DEF EnginesInv, LiveInv
    <2>2. CASE ~ Done
      BY <2>2 DEF Done, LiveSolved, NeverTooMuch, Reached
    <2>. QED  BY <2>1, <2>2
  <1>. QED  BY <1>1, EnginesRight, PTL

(* Liveness says of every body what the paths of its code say: a local is  *)
(* live where some path uses it before anything replaces it.               *)
THEOREM LiveMeansUsed == DataflowSpec => []LiveIsUsed
  <1>1. EnginesInv => LiveIsUsed
    <2>1. CASE Done
      BY <2>1, LiveIsUsedAtTheEnd DEF EnginesInv
    <2>2. CASE ~ Done
      BY <2>2 DEF Done, LiveIsUsed, Found
    <2>. QED  BY <2>1, <2>2
  <1>. QED  BY <1>1, EnginesRight, PTL

(* The changes reported as unread are those that no path reads, in every   *)
(* body.                                                                   *)
THEOREM UnreadMeansNeverRead == DataflowSpec => []UnreadIsNeverRead
  <1>1. EnginesInv => UnreadIsNeverRead
    <2>1. CASE Done
      BY <2>1, UnreadAtTheEnd DEF EnginesInv
    <2>2. CASE ~ Done
      BY <2>2 DEF Done, UnreadIsNeverRead, Found
    <2>. QED  BY <2>1, <2>2
  <1>. QED  BY <1>1, EnginesRight, PTL
=============================================================================
