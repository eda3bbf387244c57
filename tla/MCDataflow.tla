----------------------------- MODULE MCDataflow -----------------------------
(* Four blocks.  For the order: every graph with up to two edges out of    *)
(* each block, of those that are alike but for the names of blocks mostly  *)
(* one; loops with two entries and a terminator that names one block twice *)
(* are included.  For the forward engine: every graph of three of the      *)
(* blocks with every effect of each.  A forward state says of one fact     *)
(* whether it may hold and whether it must: the analyses of the compiler   *)
(* join by union or by intersection (moves.rs; the values a local is known *)
(* to hold), and here both run at once.  For the backward engine: some     *)
(* shapes of loops with every choice of code from a pool.                  *)
EXTENDS Dataflow

Fact == {"x"}
MCStates == (SUBSET Fact) \X (SUBSET Fact)
MCNone == <<"none">>
MCEntry == <<Fact, {}>>
UnionAndCommon(S) == <<UNION {s[1] : s \in S}, {f \in Fact : \A s \in S : f \in s[2]}>>
Nothing == [add |-> {}, remove |-> {}]
Adds == [add |-> Fact, remove |-> {}]
Removes == [add |-> {}, remove |-> Fact]
MCEffects == {Nothing, Adds, Removes}
AddRemove(e, s) == [i \in {1, 2} |-> (s[i] \ e.remove) \cup e.add]
MayAndMust(s, t) == s[1] \subseteq t[1] /\ t[2] \subseteq s[2]

Step(r, c, w) == [reads |-> r, changes |-> c, replaces |-> w]
Stop == <<Step({}, {}, {})>>
Read == <<Step({"x"}, {}, {})>>
Middles == {Step({"x"}, {}, {}), Step({"x"}, {"y"}, {}), Step({"x"}, {}, {"x"}),
            Step({}, {}, {"x"}), Step({"y"}, {}, {"x"}), Step({}, {"x"}, {}), Step({}, {}, {"y"})}
Pairs == {<<Step({}, {"x"}, {}), Step({"x"}, {}, {"x"})>>, <<Step({}, {"x"}, {}), Step({"y"}, {}, {"x"})>>,
          <<Step({}, {"y"}, {}), Step({"x"}, {}, {"x"})>>}
Short == {Stop, Read} \cup {<<m>> \o Stop : m \in Middles}
Codes == Short \cup {p \o Read : p \in Pairs}

Four(s) == [b \in 0 .. 3 |-> s[b + 1]]    \* of each block, 0 first
Lists(targets) == {<<>>} \cup {<<b>> : b \in targets}
                    \cup {<<p[1], p[2]>> : p \in {q \in targets \X targets : q[1] < q[2]}}
Body(l, e, c, a) == [lists |-> l, effect |-> e, code |-> c, analysis |-> a]
SomeEffect == Four(<<Nothing, Adds, Removes, Nothing>>)
SomeCode == Four(<<Read, Stop, <<Step({}, {"x"}, {"y"})>> \o Stop, Read>>)

OrderBodies == {Body(l, SomeEffect, SomeCode, "liveness") :
                  l \in {m \in [0 .. 3 -> Lists(0 .. 3) \cup {<<1, 1>>}] : 1 \in ToSet(m[0]) /\ 3 \in ToSet(m[1]) \cup ToSet(m[2])}}
ForwardBodies == {Body(Four(l \o <<<<>>>>), Four(e \o <<Nothing>>), SomeCode, "unread") :
                    l \in Lists({1, 2}) \X Lists(0 .. 2) \X Lists(0 .. 2),
                    e \in MCEffects \X MCEffects \X MCEffects}
Shapes == {<<<<2, 1>>, <<>>, <<>>, <<>>>>, <<<<1>>, <<0, 2>>, <<>>, <<>>>>,
           <<<<1, 2>>, <<2>>, <<1>>, <<>>>>, <<<<1>>, <<1, 2>>, <<>>, <<>>>>, <<<<2>>, <<2>>, <<0, 2>>, <<>>>>}
BackwardBodies == {Body(Four(l), SomeEffect, Four(c \o <<Stop>>), "unread") :
                     l \in Shapes, c \in Codes \X Codes \X Short}
LivenessBodies == {Body(Four(l), SomeEffect, Four(c \o <<Stop>>), "liveness") :
                     l \in Shapes, c \in Codes \X Codes \X {Stop, Read}}

MCBodies == <<OrderBodies, ForwardBodies, BackwardBodies, LivenessBodies>>

(* The graphs and orders the search leaves to the engines, for the smaller *)
(* bodies.                                                                 *)
MCGraphs == {[successors |-> Four(<<{1, 2}, {3}, {1}, {}>>), order |-> o] : o \in {<<0, 2, 1, 3>>}}
===============================================================================
