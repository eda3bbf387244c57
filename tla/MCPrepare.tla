------------------------------ MODULE MCPrepare ------------------------------
(* Three traits and three aliases.  All graphs with up to two references   *)
(* out of each, which includes self references, repeated edges, diamonds   *)
(* and nested cycles; and all small mixtures of both, where 0 stands for a *)
(* name of another kind.                                                   *)
EXTENDS Prepare

Lists(names, longest) == UNION {[1 .. n -> names] : n \in 0 .. longest}
Project(s, e) == [supertraits |-> s, effects |-> e]
Small == [Nodes -> {<<>>, <<0>>, <<1>>, <<2, 0>>, <<0, 3>>}]
Plain == [n \in Nodes |-> <<>>]
MCProjects == {Project(s, Plain) : s \in [Nodes -> Lists(Nodes, 2)]}
                \cup {Project(Plain, e) : e \in [Nodes -> {<<>>, <<0, 1>>, <<2>>, <<3, 2>>, <<3, 1>>}]}
                \cup {Project(s, e) : s \in Small, e \in {Plain, <<<<2>>, <<0, 1>>, <<>>>>}}
MCReferences == Nodes \X (1 .. 2)
MCNoReference == <<0, 0>>
MCGraphs ==
  {[n \in Nodes |-> [i \in DOMAIN t[n] |-> [target |-> t[n][i], reference |-> <<n, i>>]]]
     : t \in [Nodes -> Lists(Nodes, 2)]}
===============================================================================
