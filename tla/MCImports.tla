------------------------------ MODULE MCImports ------------------------------
(* A library of a root, two file modules, one inside the other, and an     *)
(* inline module, and a library it depends on.  One of the functions is    *)
(* private, or the inner file does not parse; up to MaxUses `use`          *)
(* declarations come from a pool.                                          *)
EXTENDS Imports

CONSTANTS Pool, MaxUses

R == Root(1)   A == Child(R, "a")   B == Child(A, "b")   P == Child(R, "p")   D == Root(2)
MCModules == <<R, A, B, P, D>>
MCBefore(m, n) == \E i, j \in DOMAIN MCModules : i < j /\ MCModules[i] = m /\ MCModules[j] = n

Entity(kind, m, namespace, name) ==
  [kind |-> kind, module |-> m, namespace |-> namespace, name |-> name, owner |-> ""]
Function(m, name) == Entity("function", m, "value", name)
LanguageEntity(namespace, name) == Entity("language", <<0, <<>>>>, namespace, name)
MCLanguage == {LanguageEntity("type", "Int"), LanguageEntity("value", "print")}
Shape == Entity("enum", D, "type", "Shape")
Circle == [Entity("constructor", D, "value", "Circle") EXCEPT !.owner = "Shape"]

Use(public, m, path, alias) == [module |-> m, public |-> public, path |-> path, alias |-> alias, items |-> <<>>]
Group(public, m, path, items) == [Use(public, m, path, "") EXCEPT !.items = items]

MCPool ==
  <<Use(FALSE, R, <<"a">>, "m"), Use(TRUE, R, <<"a">>, "m"), Use(FALSE, R, <<"m", "b">>, ""),
   Use(FALSE, R, <<"a", "b", "f">>, ""), Use(TRUE, R, <<"p", "f">>, ""),
   Use(TRUE, R, <<"m", "f">>, ""), Group(TRUE, R, <<"a", "b">>, <<<<"f", "g">>, <<"h", "h">>>>),
   Use(FALSE, R, <<"Int">>, "I"), Group(TRUE, R, <<"d", "Shape">>, <<<<"Circle", "C">>>>),
   Use(TRUE, R, <<"d", "Shape">>, ""), Use(FALSE, R, <<"d", "k">>, ""),
   Use(TRUE, A, <<"b", "f">>, ""), Use(FALSE, A, <<"super", "g">>, "f"), Use(TRUE, A, <<"root", "f">>, "g"),
   Use(FALSE, A, <<"super", "super", "g">>, ""), Use(TRUE, A, <<"self", "b">>, "c"),
   Use(FALSE, B, <<"super", "g">>, "h"), Use(TRUE, B, <<"root", "m", "c">>, "h"),
   Use(FALSE, P, <<"super", "a", "c", "f">>, ""), Use(TRUE, P, <<"root", "g">>, "")>>
MCLanguagePool ==
  <<Use(FALSE, R, <<"print">>, "say"), Use(FALSE, R, <<"a", "f">>, "print"), Use(FALSE, R, <<"a", "f">>, "")>>
MCGroupPool ==
  <<Group(FALSE, R, <<"root">>, <<<<"a", "a">>>>), Group(FALSE, R, <<"self">>, <<<<"a", "m">>>>),
   Use(FALSE, R, <<"root", "a">>, "n"), Use(FALSE, R, <<"p">>, "q")>>

(* In the order of their modules, as the pool is; the declarations of one  *)
(* module come in either order.                                            *)
Arrangements(S) ==
  {s \in [1 .. Cardinality(S) -> S] :
     \A i \in DOMAIN s, j \in DOMAIN s :
       i < j => s[i] < s[j] \/ (s[i] > s[j] /\ Pool[s[i]].module = Pool[s[j]].module)}
UseLists == UNION {Arrangements(S) : S \in UNION {kSubset(k, DOMAIN Pool) : k \in 0 .. MaxUses}}

Variants == {<<Function(A, "f"), {}>>, <<Function(B, "f"), {}>>, <<Function(A, "f"), {B}>>}
MCInputs == Variants \X UseLists
MCProjectOf(choice) ==
  [files |-> {R, A, B, D}, broken |-> choice[1][2], inline |-> [m \in {P} |-> R],
   dependencies |-> {<<1, "d", 2>>},
   entities |-> {Function(A, "f"), Function(B, "f"), Function(P, "f"), Function(D, "k"), Shape, Circle},
   public |-> {Function(A, "f"), Function(B, "f"), Shape, Circle} \ {choice[1][1]},
   uses |-> [i \in DOMAIN choice[2] |-> Pool[choice[2][i]]]]
===============================================================================
