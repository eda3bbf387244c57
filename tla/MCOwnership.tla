------------------------------ MODULE MCOwnership ------------------------------
(* Bodies over a variable of two parts, another entity, a temporary of two *)
(* parts, a pattern variable, a reference and a result: straight, with a   *)
(* branch, and with a loop.                                                *)
EXTENDS Ownership

Field(l, f) == Place(l, <<<<"field", f>>>>)
MCLeaves == {Field("a", "f"), Field("a", "g"), Field("t", "f"), Field("t", "g"),
             Whole("b"), Whole("c"), Whole("d"), Whole("e"), Whole("r"), Whole("n"), Whole("out")}
New(place) == Assign(place, [is |-> "call", operands |-> <<>>])
Into(l, place) == Assign(Whole(l), Use(Move(place)))
Look(place) == Assign(Whole("n"), Use(Copy(place)))

First == {New(Whole("a")), New(Whole("t"))}
Middle == First \cup
  {New(Whole("b")), New(Field("a", "f")), Into("b", Field("a", "f")), Into("b", Field("t", "f")), Into("t", Whole("a")),
   Into("a", Whole("t")), Assign(Field("t", "f"), Use(Move(Whole("b")))),
   Unpack(<<<<"c", Field("t", "f")>>>>), Unpack(<<<<"d", Field("a", "f")>>, <<"e", Field("a", "g")>>>>),
   Release("a"), Release("b"), Bind("r", Ref("shared", Whole("a"))), New(Place("r", <<>>)), Keep("r")}
LastUse == {Look(Whole("a")), Look(Field("t", "g")), Into("out", Whole("b")), New(Whole("out"))}

ReleaseAll == <<Release("e"), Release("d"), Release("c"), Release("b"), Release("a"), Release("t")>>
Forgetful == <<Release("e"), Release("d"), Release("c"), Release("b"), Release("a")>>

Straight(s1, s2, s3, s4, ends) ==
  [statements |-> [b \in 0 .. 0 |-> <<s1, s2, s3, s4, New(Whole("out"))>> \o ends], terminators |-> [b \in 0 .. 0 |-> Return]]
Branching(s1, s2, s3, s4) ==
  [statements |-> [b \in 0 .. 3 |-> <<<<s1>>, <<s2>>, <<s3>>, <<s4, New(Whole("out"))>> \o ReleaseAll>>[b + 1]],
   terminators |-> [b \in 0 .. 3 |-> <<Branch(1, 2), Goto(3), Goto(3), Return>>[b + 1]]]
Looping(s1, s2, s3, s4) ==
  [statements |-> [b \in 0 .. 2 |-> <<<<s1>>, <<s2, s3, Release("e"), Release("d"), Release("c")>>, <<s4, New(Whole("out"))>> \o ReleaseAll>>[b + 1]],
   terminators |-> [b \in 0 .. 2 |-> <<Branch(1, 2), Branch(1, 2), Return>>[b + 1]]]

Shape(name, s1, s2, s3, s4) ==
  CASE name = "straight" -> Straight(s1, s2, s3, s4, ReleaseAll)
    [] name = "forgetful" -> Straight(s1, s2, s3, s4, Forgetful)
    [] name = "branching" -> Branching(s1, s2, s3, s4)
    [] name = "looping" -> Looping(s1, s2, s3, s4)
MCBodies ==
  {Shape(s[1], s[2], s[3], s[4], s[5]) :
     s \in {"straight", "forgetful", "branching", "looping"} \X First \X Middle \X Middle \X LastUse}
===============================================================================
