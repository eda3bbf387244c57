---------------------------- MODULE MCInstances ----------------------------
(* Four families of programs: a match over small types, with up to three   *)
(* arms; two generic functions that call each other, themselves and the    *)
(* method of a trait; hand-written drops that may print through calls,     *)
(* clones and comparisons; operations on parts.                            *)
EXTENDS Instances

IntTy == Plain("Int")  Bool == Plain("Bool")  Never == Plain("Never")  Unit == Plain("Unit")
S == Nominal(1, <<>>)           \* struct S { IntTy }
D == Nominal(2, <<>>)           \* struct D { S }, which may have a drop
Opt(ty) == Nominal(3, <<ty>>)   \* enum Opt<T> { None, Some(T) }
E == Nominal(4, <<>>)           \* enum E { A(Bool), B(Never), C }
W(ty) == Nominal(5, <<ty>>)     \* struct W<T> { List<T>, Bool }
P == Param(1)
MCDeclarations ==
  <<[enum |-> FALSE, variants |-> <<<<IntTy>>>>], [enum |-> FALSE, variants |-> <<<<S>>>>],
    [enum |-> TRUE, variants |-> <<<<>>, <<P>>>>], [enum |-> TRUE, variants |-> <<<<Bool>>, <<Never>>, <<>>>>],
    [enum |-> FALSE, variants |-> <<<<List(P), Bool>>>>]>>

Step(kind) == [kind |-> kind, callee |-> 0, args |-> <<>>, operation |-> "", ty |-> Unit, arms |-> <<>>]
PrintStep == Step("print")
Call(f, args) == [Step("call") EXCEPT !.callee = f, !.args = args]
Method(ty) == [Step("trait") EXCEPT !.ty = ty]
Operate(operation, ty) == [Step("glue") EXCEPT !.operation = operation, !.ty = ty]
Match(ty, arms) == [Step("match") EXCEPT !.ty = ty, !.arms = arms]
Function(bounds, steps) == [bounds |-> bounds, steps |-> steps]
NoWritten == [ty \in {} |-> NoImpls]
Program(functions, impls, hand) == [functions |-> functions, impls |-> impls, written |-> hand]
UpTo(n, set) == UNION {[1 .. k -> set] : k \in 0 .. n}

BoolPat(b) == Pattern("Bool", b, <<>>)
IntPat(n) == Pattern("Int", n, <<>>)
TuplePat(parts) == Pattern("Tuple", 0, parts)
VariantPat(v, fields) == Pattern("Variant", v, fields)
Or(p, q) == Pattern("Or", 0, <<p, q>>)
Bools == {Wildcard, BoolPat(1), BoolPat(2)}
Opts(inner) == {Wildcard, VariantPat(1, <<>>)} \cup {VariantPat(2, <<p>>) : p \in inner}
Pats(ty) ==
  CASE ty = Bool -> Bools \cup {Or(BoolPat(1), BoolPat(2))}
    [] ty = Tuple(<<Bool, Bool>>) ->
         {Wildcard, Or(TuplePat(<<BoolPat(1), Wildcard>>), TuplePat(<<Wildcard, BoolPat(2)>>))}
           \cup {TuplePat(<<p, q>>) : p \in Bools, q \in Bools}
    [] ty = Opt(Bool) -> Opts(Bools) \cup {Or(VariantPat(1, <<>>), VariantPat(2, <<BoolPat(2)>>))}
    [] ty = Opt(Opt(Bool)) -> Opts(Opts(Bools \ {BoolPat(1)})) \cup {VariantPat(2, [f \in {} |-> Wildcard])}
    [] ty = Opt(Never) -> Opts({Wildcard})
    [] ty = E -> {Wildcard, VariantPat(1, <<BoolPat(1)>>), VariantPat(1, <<BoolPat(2)>>),
                  VariantPat(2, <<Wildcard>>), VariantPat(3, <<>>)}
    [] ty = Tuple(<<IntTy, E>>) ->
         {TuplePat(<<p, q>>) : p \in {Wildcard, IntPat(1), IntPat(2)},
                               q \in {Wildcard, VariantPat(1, <<Wildcard>>), VariantPat(3, <<>>)}}
    [] ty = Tuple(<<Never, Bool>>) -> {Wildcard, TuplePat(<<Wildcard, BoolPat(1)>>)}
    [] ty = Never -> {Wildcard}
Arms(ty) == [pattern : Pats(ty), guard : {FALSE}]
              \cup {[pattern |-> Wildcard, guard |-> TRUE]}
Single(step) == Program(<<Function(<<>>, <<step>>)>>, <<>>, NoWritten)
MatchPrograms(ty, most) == {Single(Match(ty, arms)) : arms \in UpTo(most, Arms(ty))}

(* 1: main, 2 and 3: generic, 4: the method of Tr for S.                   *)
SImpl == [ty \in {S} |-> 4]
Second == {Call(2, <<P>>), Call(2, <<List(P)>>), Call(3, <<P>>), Call(3, <<W(P)>>), Method(P), Operate("Clone", P)}
Third == {Call(2, <<P>>), Call(2, <<S>>), Call(2, <<Opt(P)>>), Operate("Clone", W(P)), PrintStep}
CallPrograms ==
  {Program(<<Function(<<>>, <<m>>), Function(<<b>>, s), Function(<<c>>, t), Function(<<>>, u)>>, SImpl, NoWritten) :
     m \in {Call(2, <<S>>), Call(2, <<IntTy>>), Call(3, <<S>>)}, b \in {{}, {"Tr"}, {"Tr", "Clone"}}, s \in UpTo(2, Second),
     c \in {{}, {"Tr"}, {"Clone"}}, t \in UpTo(1, Third), u \in {<<>>, <<Call(3, <<List(S)>>)>>}}

(* 1: main, 2: the drop of D, 3: generic, 4: the method of Tr for S, 5:    *)
(* prints, 6 to 8: eq, partial_cmp and clone of S.                         *)
Hand(compares, clones, drops) == [ty \in {S, D} |->
  IF ty = S THEN [NoImpls EXCEPT !.eq = 6 * compares, !.partialCmp = 7 * compares, !.clone = 8 * clones]
  ELSE [NoImpls EXCEPT !.drop = 2 * drops]]
DropPrograms ==
  {Program(<<Function(<<>>, <<Operate("Clone", ty)>>), Function(<<>>, s), Function(<<b>>, t),
             Function(<<>>, <<Call(5, <<>>)>>), Function(<<>>, <<PrintStep>>),
             Function(<<>>, u), Function(<<>>, <<>>), Function(<<>>, u)>>,
           [ty2 \in {S, Bool} |-> IF ty2 = S THEN 4 ELSE 0], h) :
     ty \in {Bool, D},
     s \in UpTo(1, {PrintStep, Call(3, <<S>>), Call(3, <<Bool>>), Operate("Clone", List(S)),
                   Operate("Equal", W(S)), Operate("Contains", List(D))}),
     b \in {{"Tr", "Clone"}, {"PartialEq"}},
     t \in UpTo(1, {Method(P), Operate("Clone", Opt(P)), Operate("Equal", W(P)), Operate("Order", Opt(P))}),
     u \in {<<>>, <<PrintStep>>, <<Call(5, <<>>)>>},
     h \in {Hand(0, 0, 1), Hand(1, 0, 1), Hand(0, 1, 1), Hand(1, 1, 0)}}

(* An operation in a generic function, called with each of several types.  *)
(* 3: eq of S, 4: the drop of D, 5: its clone.                             *)
Over == {P, List(P), Opt(P), W(P), Tuple(<<P, IntTy>>), Make("Map", 0, <<IntTy, P>>)}
PartPrograms ==
  {Program(<<Function(<<>>, <<Call(2, <<a>>)>>), Function(<<{trait}>>, <<st>>),
             Function(<<>>, <<>>), Function(<<>>, <<>>), Function(<<>>, <<>>)>>, <<>>,
           [ty \in {S, D} |-> IF ty = S THEN [NoImpls EXCEPT !.eq = 3 * e] ELSE [NoImpls EXCEPT !.drop = 4, !.clone = 5 * c]]) :
     a \in {IntTy, S, D, Opt(D), W(S), Make("Map", 0, <<IntTy, D>>), Plain("Float"), Plain("Range")},
     trait \in {"Clone", "PartialEq", "PartialOrd"},
     st \in {Operate(op, over) : op \in {"Equal", "Order", "Clone"}, over \in Over} \cup {Operate("Contains", List(P))},
     e \in {0, 1}, c \in {0, 1}}
MCPrograms ==
  <<MatchPrograms(Bool, 3), MatchPrograms(Tuple(<<Bool, Bool>>), 3), MatchPrograms(Opt(Bool), 3),
    MatchPrograms(Opt(Opt(Bool)), 3), MatchPrograms(Opt(Never), 2), MatchPrograms(E, 3),
    MatchPrograms(Tuple(<<IntTy, E>>), 3), MatchPrograms(Tuple(<<Never, Bool>>), 1), MatchPrograms(Never, 1),
    CallPrograms, DropPrograms, PartPrograms>>
===============================================================================
