------------------------------- MODULE MCLowering -------------------------------
(* Functions of a door they own (local 1) and one they are lent (local 2): *)
(* a fragment, straight or in a loop, then an end.  Locals 3 to 16 are     *)
(* those of the fragments and the ends.                                    *)
EXTENDS Compiled

Make(ty) == CallOf("make", ty, <<>>)
UseUp(e) == Do(CallOf("use", "Unit", <<e>>))
Test == CallOf("test", "Bool", <<>>)
Var(l, ty) == Read(At(l, <<>>), ty)
Part(l, i) == Read(At(l, <<<<"field", i>>>>), "Door")
Look_(place) == Do(CallOf("look", "Unit", <<Lend(place, "Door")>>))
Only(s) == Body(<<s>>, <<>>, "Unit")
Never(s) == Body(<<s>>, <<>>, "Never")
Nothing_ == Body(<<>>, <<>>, "Unit")
If_(condition, s) == Do(When(condition, Only(s), "Unit"))
Exit_(s) == Do(When(Test, Never(s), "Unit"))
Or_(s) == IfElse(Test, Never(s), Body(<<>>, <<Make("Door")>>, "Door"), "Door")   \* leaves, or a door
ThroughPeek == ThroughCall(8, <<>>, CallOf("peek", "Door", <<Lend(At(2, <<>>), "Door")>>))
Some_(p) == VariantOf(2, <<p>>)
None_ == VariantOf(1, <<>>)

a == 3
o == 4
ds == 5
x == 6
y == 7
r == 8
n == 9
t == 10
z == 11
b == 12
g == 13
kept_ == 14
given_ == 15
rooms == 16
MCLocals == <<Owned("Door"), Pointing("Door"), Owned("Pair"), Owned("Option"), Owned("Doors"), Owned("Door"), Owned("Door"),
              Pointing("Door"), Owned("Int"), Owned("Text"), Owned("Door"), Owned("Pair"), Owned("Range"),
              Owned("Door"), Owned("Door"), Owned("Rooms")>>
RemoveKey(key) == Method("remove", Var(rooms, "Rooms"), <<Lit("Int", key)>>, "Option")

Straight ==
  "partly moved" :> <<Let(a, Make("Pair")), UseUp(Part(a, 1))>>
  @@ "stored" :> <<Let(x, Make("Door")), Store(At(x, <<>>), Make("Door")), Look_(At(x, <<>>))>>
  @@ "part stored" :> <<Let(a, Make("Pair")), Store(At(a, <<<<"field", 2>>>>), Or_(ReturnUnit))>>
  @@ "destructured" :> <<LetPattern(Parts(<<Binds(x), Wildcard>>), Make("Pair")), Look_(At(x, <<>>))>>
  @@ "updated" :> <<Let(a, Make("Pair")), Let(b, Update("Pair", Var(a, "Pair"), <<<<>>, <<Or_(ReturnUnit)>>>>)), Look_(At(1, <<>>))>>
  @@ "built" :> <<Let(a, Build("Pair", 1, <<Make("Door"), Or_(ReturnUnit)>>))>>
  @@ "left in a call" :> <<Do(CallOf("use", "Unit", <<Make("Door"), Or_(ReturnUnit)>>))>>
  @@ "chosen" :> <<Let(x, Body(<<Let(y, Make("Door")), Let(z, Make("Door"))>>,
                               <<IfElse(Test, Body(<<>>, <<Var(y, "Door")>>, "Door"), Body(<<>>, <<Make("Door")>>, "Door"), "Door")>>,
                               "Door"))>>
  @@ "pushed" :> <<Let(ds, Make("Doors")), Do(Method("push", Var(ds, "Doors"), <<Or_(ReturnUnit)>>, "Unit")),
                   Let(n, Method("count", Var(ds, "Doors"), <<>>, "Int"))>>
  @@ "logic" :> <<If_(AndAlso(Test, OrElse(Test, Compare(Make("Door"), Make("Door")))), UseUp(Make("Door")))>>
  @@ "guarded" :> <<Let(o, Make("Option")), Let(x, Make("Door")),
                    Do(Match(Var(o, "Option"), <<Arm(Some_(Binds(y)), <<CallOf("test", "Bool", <<Lend(At(y, <<>>), "Door")>>)>>, CallOf("use", "Unit", <<Var(y, "Door")>>)),
                                                Arm(Some_(Binds(z)), <<>>, CallOf("look", "Unit", <<Lend(At(z, <<>>), "Door")>>)),
                                                Arm(Wildcard, <<>>, UnitValue)>>, "Unit"))>>
  @@ "guarded value" :> <<Do(Match(Make("Option"), <<Arm(Some_(Wildcard), <<AndAlso(Test, Compare(Make("Door"), Make("Door")))>>, UnitValue),
                                                    Arm(Some_(Binds(z)), <<Test>>, CallOf("use", "Unit", <<Var(z, "Door")>>)),
                                                    Arm(Wildcard, <<>>, UnitValue)>>, "Unit"))>>
  @@ "alternatives" :> <<Let(n, CallOf("read", "Int", <<>>)),
                         Do(Match(Var(n, "Int"), <<Arm(AnyOf(<<Literal(0), Literal(2)>>), <<Test>>, CallOf("use", "Unit", <<Make("Door")>>)),
                                                   Arm(AnyOf(<<Literal(0), Literal(1)>>), <<>>, UnitValue),
                                                   Arm(Wildcard, <<>>, CallOf("stop", "Never", <<>>))>>, "Unit"))>>
  @@ "stops" :> <<Let(x, Make("Door")), Exit_(Do(CallOf("stop", "Never", <<Make("Door")>>)))>>
  @@ "cloned" :> <<Let(x, Method("clone", Var(2, "Door"), <<>>, "Door")), Look_(ThroughCall(r, <<>>, CallOf("peek", "Door", <<Lend(At(x, <<>>), "Door")>>)))>>

Looping ==
  "while" :> <<While(Test, Body(<<Let(x, Make("Door")), Exit_(Break), Exit_(Continue), UseUp(Var(x, "Door"))>>, <<>>, "Unit"))>>
  @@ "endless" :> <<Loop(Body(<<Let(x, Make("Door")), Exit_(Break), Exit_(ReturnUnit)>>, <<>>, "Unit"))>>
  @@ "nested" :> <<Loop(Body(<<Let(x, Make("Door")),
                               While(Test, Body(<<Let(y, Make("Door")), Exit_(Break), Exit_(ReturnUnit)>>, <<>>, "Unit")),
                               Break>>, <<>>, "Unit"))>>
  @@ "left in a condition" :> <<While(AndAlso(Test, Compare(Make("Door"), Or_(ReturnUnit))), Only(UseUp(Make("Door"))))>>
  @@ "range" :> <<For(Binds(n), "range", [first |-> Lit("Int", 1), end |-> Lit("Int", 3), inclusive |-> TRUE],
                      Body(<<Exit_(Continue), UseUp(Make("Door"))>>, <<>>, "Unit"))>>
  @@ "open range" :> <<For(Binds(n), "range", [first |-> Lit("Int", 0), end |-> CallOf("read", "Int", <<>>), inclusive |-> FALSE],
                           Body(<<Let(x, Make("Door")), Exit_(Break)>>, <<>>, "Unit"))>>
  @@ "range value" :> <<Let(g, Build("Range", 1, <<Lit("Int", 2), Lit("Int", 3), Test>>)),
                        For(Binds(n), "range_value", Var(g, "Range"), Body(<<Let(x, Make("Door")), Exit_(Continue)>>, <<>>, "Unit"))>>
  @@ "taken" :> <<For(Binds(x), "taken", Make("Doors"), Body(<<Exit_(Break), UseUp(Var(x, "Door"))>>, <<>>, "Unit"))>>
  @@ "taken apart" :> <<For(Wildcard, "taken", Make("Doors"), Only(Exit_(ReturnUnit)))>>
  @@ "taken map" :> <<Let(rooms, Make("Rooms")), If_(Test, Do(RemoveKey(0))), If_(Test, Do(RemoveKey(1))),
                      For(Parts(<<Binds(n), Binds(x)>>), "taken", Var(rooms, "Rooms"),
                          Body(<<If_(Compare(Var(n, "Int"), Lit("Int", 1)), UseUp(Var(x, "Door")))>>, <<>>, "Unit"))>>
  @@ "lent map" :> <<Let(rooms, Make("Rooms")), Let(o, RemoveKey(0)), If_(Test, Do(RemoveKey(0))),
                     For(Binds(r), "borrowed", Lend(At(rooms, <<>>), "Rooms"), Body(<<Look_(At(r, <<>>)), Exit_(Continue)>>, <<>>, "Unit")),
                     Let(n, Method("count", Var(rooms, "Rooms"), <<>>, "Int"))>>
  @@ "lent" :> <<Let(ds, Make("Doors")),
                 For(Binds(r), "borrowed", Lend(At(ds, <<>>), "Doors"), Body(<<Look_(At(r, <<>>)), Exit_(Break)>>, <<>>, "Unit")),
                 Look_(At(ds, <<<<"index", Lit("Int", 1)>>>>))>>

Self(first, second) == CallOf("self", "Unit", <<first, second>>)
Lent == Lend(At(2, <<>>), "Door")
Ends ==
  "nothing" :> <<>>
  @@ "tail call" :> <<Self(Var(1, "Door"), Lent)>>
  @@ "fresh" :> <<Self(Make("Door"), Lent)>>
  @@ "lends its own" :> <<IfElse(Test, Body(<<Let(given_, Make("Door"))>>, <<Self(Make("Door"), Lend(At(given_, <<>>), "Door"))>>, "Unit"), Nothing_, "Unit")>>
  @@ "past a text" :> <<Body(<<Let(t, Make("Text")), Do(When(Test, Only(UseUp(Var(1, "Door"))), "Unit"))>>,
                             <<Self(Make("Door"), Lent)>>, "Unit")>>
  @@ "in an arm" :> <<Match(Make("Option"), <<Arm(Some_(Binds(given_)), <<Test>>, Self(Var(given_, "Door"), Lend(ThroughPeek, "Door"))),
                                             Arm(Wildcard, <<>>, UnitValue)>>, "Unit")>>
  @@ "of a part" :> <<Body(<<UseUp(Var(1, "Door"))>>,
                           <<Match(Make("Option"), <<Arm(Some_(Binds(given_)), <<>>, Self(Var(given_, "Door"), Lent)),
                                                     Arm(None_, <<>>, UnitValue)>>, "Unit")>>, "Unit")>>

OfEnd(fragment, end) == Function(<<1, 2>>, MCLocals, "Unit", Body(fragment, end, "Unit"))
InLoop(fragment) == <<While(Test, Body(<<Let(kept_, Make("Door"))>> \o fragment, <<>>, "Unit"))>>
MCFunctions ==
  [f \in {s \in (DOMAIN Straight \cup DOMAIN Looping) \X (DOMAIN Ends) \X BOOLEAN :
           s[3] => s[2] \in {"nothing", "tail call"}} |->
     LET fragment == IF f[1] \in DOMAIN Straight THEN Straight[f[1]] ELSE Looping[f[1]]
     IN  OfEnd(IF f[3] THEN InLoop(fragment) ELSE fragment, Ends[f[2]])]
MCAnswers == [1 .. 4 -> 0 .. 1]
===============================================================================
