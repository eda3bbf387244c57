------------------------------ MODULE MCBorrowing ------------------------------
(* Bodies over a list `xs` whose elements have the parts `f`, `g` and the  *)
(* enum `h`, a map `m`, the indices `i` and `j`, and a reference parameter *)
(* `p`: with indices of every kind, and with loans of every kind, of what  *)
(* a match on a reference binds too, straight, with a branch, and with a   *)
(* loop, each scope ending as lowering ends it.                            *)
EXTENDS Borrowing

At(l, k) == Place(l, <<<<"index", k>>>>)
PartAt(l, k, f) == Place(l, <<<<"index", k>>, <<"field", f>>>>)
Payload(l, k, v, f) == Place(l, <<<<"index", k>>, <<"field", "h">>, <<"variant", v, f>>>>)
Part(l, f) == Place(l, <<<<"field", f>>>>)
Set(l, o) == Assign(Whole(l), Use(o))
Store(place) == Assign(place, [is |-> "call", operands |-> <<>>])
Look(place) == Assign(Whole("n"), Use(Copy(place)))
Of(l) == Copy(Whole(l))
Point(r, kind, place) == Bind(r, Ref(kind, place))
Invoke(arguments) == Assign(Whole("n"), Call(arguments))

MCInputs == {v \in [Numbers -> Number] : v["i"] = 0 /\ \A k \in Numbers \ {"i", "j"} : v[k] = 0}

(* Indices: how the first and the second come about, and what is between. *)
FirstIndices == {<<Set("t", Of("i"))>>, <<Set("v", Of("i")), Assign(Whole("t"), Binary(Of("v"), Constant(1)))>>,
                 <<Set("t", Constant(0))>>}
SecondIndices == {<<Set("u", Of("i"))>>, <<Set("z", Of("i")), Assign(Whole("u"), Binary(Of("z"), Constant(1)))>>,
                  <<Set("u", Constant(1))>>, <<Set("u", Of("j"))>>, <<Set("z", Of("t")), Set("u", Of("z"))>>}
Between == {<<>>, <<Set("i", Constant(1))>>,
            <<Point("w", "mutable", Whole("i")), Assign(Whole("w"), Use(Constant(1)))>>,
            <<Point("a", "argument", Whole("i")), Invoke(<<Borrowed("a")>>)>>,
            <<Point("w", "mutable", Whole("i")), Point("a", "argument", Whole("w")), Invoke(<<Borrowed("a")>>)>>,
            <<Point("w", "shared", Whole("i")), Set("t", Of("w"))>>}
Uses == {<<Store(PartAt("xs", "u", "f"))>>, <<Point("q", "shared", At("xs", "u")), Look(Part("q", "f"))>>}

(* Loans: what is lent first, what happens then, and what is used.         *)
Lending == {<<Point("r", "shared", At("xs", "t"))>>, <<Point("r", "mutable", At("xs", "t"))>>,
            <<Point("r", "mutable", Whole("xs"))>>, <<Point("r", "mutable", PartAt("xs", "t", "f"))>>,
            <<Point("r", "mutable", Whole("p"))>>, <<Point("r", "shared", At("m", "t"))>>,
            <<Point("a", "argument", At("xs", "t")), Bind("r", Call(<<Borrowed("a")>>))>>,
            <<Point("a", "argument", Whole("xs")), Point("c", "shared", Whole("p")), Bind("r", Call(<<Borrowed("a"), Borrowed("c")>>))>>}
Happening == {<<>>, <<Point("q", "shared", At("xs", "u"))>>, <<Point("q", "mutable", At("xs", "u"))>>,
              <<Point("q", "mutable", PartAt("xs", "u", "g"))>>, <<Point("q", "shared", Part("r", "f"))>>,
              <<Point("q", "mutable", Whole("r"))>>, <<Store(At("xs", "u"))>>, <<Store(Whole("xs"))>>,
              <<Set("n", Move(Whole("xs")))>>, <<Store(At("m", "u"))>>, <<Store(Part("p", "f"))>>,
              <<Point("a", "argument", Whole("r")), Point("c", "shared", At("xs", "t")), Invoke(<<Borrowed("a"), Borrowed("c")>>)>>,
              <<Point("a", "argument", At("xs", "t")), Point("c", "argument", At("xs", "u")), Invoke(<<Borrowed("a"), Borrowed("c")>>)>>,
              <<Point("a", "argument", At("xs", "u")), Point("c", "shared", At("xs", "t")), Invoke(<<Borrowed("a"), Borrowed("c")>>)>>,
              <<Point("a", "argument", At("xs", "u")), Store(At("xs", "t")), Invoke(<<Borrowed("a")>>)>>,
              <<Point("a", "argument", Whole("xs")), Assign(Whole("n"), Builtin(Whole("a"), <<Copy(Whole("i"))>>))>>}
Using == {<<>>, <<Look(Part("q", "f"))>>, <<Look(Part("r", "f"))>>, <<Store(Part("r", "f"))>>,
          <<Store(Part("q", "g")), Look(Part("r", "g"))>>}
ReturnSecond == Point("out", "shared", Part("q", "f"))   \* not behind a branch, which alone binds it
Returning == {Point("out", "mutable", Whole("p")), Point("out", "mutable", Part("r", "f")), ReturnSecond}

End == <<Release("c"), Release("a"), Release("w"), Release("q"), Release("r"), Release("xs"), Release("m")>>
EndOfTurn == <<Release("w"), Release("q"), Release("r")>>
BothIndices == <<Set("t", Of("i")), Set("u", Of("j"))>>

Straight(s1, s2, s3, last) ==
  [statements |-> [b \in 0 .. 0 |-> s1 \o s2 \o s3 \o <<last>> \o End], terminators |-> [b \in 0 .. 0 |-> Return]]
Branching(s1, s2, s3, last) ==
  [statements |-> [b \in 0 .. 3 |-> <<s1, s2, <<>>, s3 \o <<last>> \o End>>[b + 1]],
   terminators |-> [b \in 0 .. 3 |-> <<Branch(1, 2), Goto(3), Goto(3), Return>>[b + 1]]]
Looping(s1, s2, s3, last) ==
  [statements |-> [b \in 0 .. 2 |-> <<<<>>, s1 \o s2 \o s3 \o EndOfTurn, <<last>> \o End>>[b + 1]],
   terminators |-> [b \in 0 .. 2 |-> <<Goto(1), Branch(1, 2), Return>>[b + 1]]]
Shape(name, s1, s2, s3, last) ==
  CASE name = "straight" -> Straight(s1, s2, s3, last)
    [] name = "branching" -> Branching(s1, s2, s3, last)
    [] name = "looping" -> Looping(s1, s2, s3, last)
ReturnParameter == Point("out", "mutable", Whole("p"))

IndexBodies ==
  {Shape(s[1], s[2], s[3], s[4] \o <<Point("r", "mutable", At("xs", "t"))>> \o s[5] \o <<Store(Part("r", "f"))>>, ReturnParameter) :
     s \in {"straight", "branching", "looping"} \X FirstIndices \X Between \X SecondIndices \X Uses}
LoanBodies ==
  {Shape(s[1], BothIndices \o s[2], s[3], s[4], s[5]) :
     s \in ({"straight"} \X Lending \X Happening \X Using \X Returning)
             \cup ({"branching"} \X Lending \X Happening \X Using \X (Returning \ {ReturnSecond}))}
(* What matches on references bind: payloads of one variant, and of two.   *)
PayloadBodies ==
  {Shape("straight", BothIndices \o <<Point("r", "mutable", Payload("xs", "t", 1, 1))>>, <<happening>>, using, ReturnParameter) :
     happening \in {Point("q", "mutable", Payload("xs", "u", v[1], v[2])) : v \in {<<1, 1>>, <<1, 2>>, <<2, 1>>}}
                    \cup {Store(PartAt("xs", "u", "h"))},
     using \in {<<>>, <<Store(Whole("r"))>>}}
Sharing(bod) ==
  {s.to.local : s \in {x \in StatementsOf(bod) : x.do = "bind" /\ x.value.is = "ref" /\ x.value.kind = "shared"}}
MCBodies == {b \in IndexBodies \cup LoanBodies \cup PayloadBodies : Changing(b) \cap Sharing(b) = {}}
===============================================================================
