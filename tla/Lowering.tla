-------------------------------- MODULE Lowering --------------------------------
(***************************************************************************)
(* Lowering of a checked function to the IR (lower.rs).  Each operator     *)
(* takes a builder and gives the builder after it; `goes` says whether     *)
(* control continues, `out` holds what the operator produced.              *)
(***************************************************************************)
EXTENDS Typed, Ir

NoPlace == Whole(0)                               \* the destination of what is dropped
EmptyBlock == [statements |-> <<>>, terminator |-> Unreachable]
Gives(b, out) == [b EXCEPT !.out = out]
Stop(b) == [b EXCEPT !.goes = FALSE]
In(b, block) == [b EXCEPT !.current = block]
Into(place, step) == Place(place.local, Append(place.path, step))

Push(b, s) == [b EXCEPT !.blocks[b.current].statements = Append(@, s)]
IsReference(b, place) == place.path = <<>> /\ b.locals[place.local].reference
IsBorrow(v) == v.is = "ref" \/ (v.is = "call" /\ v.borrows)
AssignTo(b, place, v) ==
  Push(b, IF IsReference(b, place) /\ IsBorrow(v) THEN Bind(place.local, v) ELSE Assign(place, v))
LastBlock(b) == Cardinality(DOMAIN b.blocks) - 1
NewBlock(b) == [b EXCEPT !.blocks = @ @@ (LastBlock(b) + 1 :> EmptyBlock)]
Terminate(b, t) ==
  LET ended == NewBlock([b EXCEPT !.blocks[b.current].terminator = t])
  IN  In(ended, LastBlock(ended))
NewBlocks(b, n) == Repeat(NewBlock, b, n)
GoTo(b, block) == Terminate(b, Goto(block))
EndAt(b, block) == IF b.goes THEN GoTo(b, block) ELSE b
Onward(b, block) == [In(b, block) EXCEPT !.goes = TRUE]
Joined(b, block, reaches) == IF reaches THEN Onward(b, block) ELSE Stop(Terminate(In(b, block), Unreachable))
Enter(b, block) == In(GoTo(b, block), block)

NewLocal(b, ty, reference) ==
  [b EXCEPT !.locals = Append(@, [ty |-> ty, reference |-> reference, temporary |-> TRUE]),
            !.out = Len(b.locals) + 1]
OwnedByScope(b, depth, l) == [b EXCEPT !.scopes[depth].locals = Append(@, l)]
Temporary(b, ty) == OwnedByScope(NewLocal(b, ty, FALSE), Len(b.scopes), Len(b.locals) + 1)
Reference(b, ty) == OwnedByScope(NewLocal(b, ty, TRUE), Len(b.scopes), Len(b.locals) + 1)
Declare(b, l) == OwnedByScope(b, SelectLastInSeq(b.scopes, LAMBDA scope : scope.block), l)
DeclareAll(b, ls) == After(Declare, b, ls)
Open(b, block) == [b EXCEPT !.scopes = Append(@, [locals |-> <<>>, block |-> block])]
Pop(b) == [b EXCEPT !.scopes = Front(@)]
ReleaseInOrder(b, depth) ==                       \* a bug: the earliest first
  After(LAMBDA c, l : Push(c, Release(l)), b,
        FlattenSeq([i \in 1 .. Len(b.scopes) - depth |-> b.scopes[depth + i].locals]))
ReleaseFrom(b, depth) ==
  After(LAMBDA c, l : Push(c, Release(l)), b,
        Reverse(FlattenSeq([i \in 1 .. Len(b.scopes) - depth |-> b.scopes[depth + i].locals])))
Close(b) == Pop(ReleaseFrom(b, Len(b.scopes) - 1))
UnitInto(b, d) == IF d = NoPlace THEN b ELSE AssignTo(b, d, Use(Constant(Scalar("Unit", 0))))
ReturnFrom(b) == Stop(Terminate(ReleaseFrom(b, 0), ReturnOf(b.result)))

Taken(place, ty) == IF IsEntity(ty) THEN Move(place) ELSE Copy(place)
(* operand as a temporary, unless it is a constant.                        *)
Kept(b, operand, ty) ==
  IF \/ operand.gives \in {"constant", "borrowed"}
     \/ operand.place.path = <<>> /\ b.locals[operand.place.local].temporary
  THEN Gives(b, operand)
  ELSE LET t == Temporary(b, ty)
       IN  Gives(AssignTo(t, Whole(t.out), Use(operand)), Taken(Whole(t.out), ty))
(* The place of a local, or the part of a subject that stands for it while *)
(* a guard is lowered.                                                     *)
LocalPlace(b, l) ==
  LET i == SelectLastInSeq(b.redirects, LAMBDA r : r[1] = l)
  IN  IF i = 0 THEN Whole(l) ELSE b.redirects[i][2]
(* A change of a variable of a value type, which is the last statement.    *)
Changed(b, l) ==
  IF b.locals[l].reference \/ b.locals[l].temporary \/ l \in ToSet(b.parameters) \/ IsEntity(b.locals[l].ty)
  THEN b
  ELSE [b EXCEPT !.changes = Append(@, [block |-> b.current, local |-> l,
                                        statement |-> Len(b.blocks[b.current].statements)])]
-----------------------------------------------------------------------------
(* Lowers the elements of a sequence in turn, until control stops.         *)
Then(b, Next(_)) == IF b.goes THEN Next(b) ELSE b
InTurn(Lower(_, _), b, elements) == After(LAMBDA c, e : Then(c, LAMBDA d : Lower(d, e)), b, elements)
RECURSIVE StatementInto(_, _), BlockInto(_, _, _), ValueInto(_, _, _, _), ExprInto(_, _, _),
          RvalueOf(_, _), Operand(_, _), PlaceOf(_, _), TypedPlace(_, _), TestOf(_, _, _, _), TakenBy(_, _, _)

(* Places and operands.                                                    *)
Project(b, step) ==
  CASE step[1] # "index" -> Gives(b, Into(b.out, step))
    [] step[1] = "index" /\ step[2].is = "constant" -> Gives(b, Into(b.out, <<"constant", step[2].value>>))
    [] OTHER -> LET t == NewLocal(b, step[2].ty, FALSE)
                IN  Gives(ExprInto(Declare(t, t.out), Whole(t.out), step[2]), Into(b.out, <<"index", t.out>>))
BasedAt(b, place) == InTurn(Project, Gives(b, LocalPlace(b, place.local)), place.path)
TypedPlace(b, place) ==
  BasedAt(IF place.call = <<>> THEN b ELSE ExprInto(b, Whole(place.local), place.call[1]), place)
Held(b, e) ==                     \* the value of e in a temporary of its own
  LET t == Temporary(b, e.ty) IN Gives(ExprInto(t, Whole(t.out), e), Whole(t.out))
PlaceOf(b, e) ==
  CASE e.is = "place" -> TypedPlace(b, e.place)
    [] e.is = "field" -> Then(PlaceOf(b, e.base), LAMBDA c : Gives(c, Into(c.out, <<"field", e.field>>)))
    [] OTHER -> Held(b, e)
Operand(b, e) ==
  IF e.is = "constant" THEN Gives(b, Constant(Scalar(e.ty, e.value)))
  ELSE Then(Held(b, e), LAMBDA c : Gives(c, Taken(c.out, e.ty)))
(* Lower gives an operand for each element; out becomes the list of them.  *)
Listed(Lower(_, _), b, elements) ==
  InTurn(LAMBDA c, e : Then(Lower(c, e), LAMBDA d : Gives(d, Append(c.out, d.out))), Gives(b, <<>>), elements)
PointAt(b, ty, kind) ==           \* a reference to the place that out holds
  LET r == Reference(b, ty) IN Gives(AssignTo(r, Whole(r.out), Ref(kind, b.out)), r.out)
LentPlace(b, e) == IF e.is = "borrow" THEN TypedPlace(b, e.place) ELSE Held(b, e.value)
Argument(b, e) ==
  IF e.is \notin {"borrow", "borrow_value"} THEN Operand(b, e)
  ELSE Then(LentPlace(b, e), LAMBDA c : LET r == PointAt(c, e.ty, "shared") IN Gives(r, Borrowed(r.out)))
BorrowedOperand(b, e) ==
  LET Borrowing(c) == LET r == PointAt(c, e.ty, "shared") IN Gives(r, Inspect(Whole(r.out)))
  IN  Then(PlaceOf(b, e), LAMBDA c : IF e.is = "place" THEN Borrowing(c) ELSE Gives(c, Inspect(c.out)))

(* The fields that the base gives leave it before the given ones are       *)
(* evaluated, its entities together.  `fields` has <<>> where one is left. *)
FieldsOver(base, e) ==
  LET types == VariantTypes(e.ty)[1]
      TakeField(c, i) ==
        LET t == Temporary(c, types[i])
            part == Into(base.out, <<"field", i>>)
        IN  IF e.fields[i] # <<>> THEN Gives(c, Append(c.out, <<>>))
            ELSE Gives(IF IsEntity(types[i]) THEN t ELSE AssignTo(t, Whole(t.out), Use(Copy(part))),
                       Append(c.out, <<Taken(Whole(t.out), types[i]), t.out, part>>))
      kept == After(TakeField, Gives(base, <<>>), [i \in DOMAIN types |-> i])
      moved == SelectSeq(kept.out, LAMBDA k : k # <<>> /\ k[1].gives = "move")
      unpacked == IF moved = <<>> THEN kept
                  ELSE Push(kept, Unpack([i \in DOMAIN moved |-> <<moved[i][2], moved[i][3]>>]))
      Field(c, i) == IF e.fields[i] = <<>> THEN Gives(c, kept.out[i][1]) ELSE Operand(c, e.fields[i][1])
  IN  Listed(Field, unpacked, [i \in DOMAIN types |-> i])
UpdatedFields(b, e) == Then(PlaceOf(b, e.base), LAMBDA base : FieldsOver(base, e))

(* A method that changes its receiver borrows it before the arguments are  *)
(* evaluated, and so does clone; a value is read now.                      *)
Receiver(place, e) ==
  LET ty == e.receiver.ty
      changes == e.method \in {"push", "remove"}
      r == PointAt(place, ty, IF changes THEN "argument" ELSE "shared")
      settled == Kept(place, Copy(place.out), ty)
  IN  IF changes \/ (e.method = "clone" /\ IsEntity(ty)) THEN Gives(r, Whole(r.out))
      ELSE IF IsEntity(ty) THEN place ELSE Gives(settled, settled.out.place)
MethodOn(receiver, arguments, e) ==
  LET subject == IF IsEntity(e.receiver.ty) THEN Inspect(receiver) ELSE Copy(receiver)
  IN  IF e.method = "clone" THEN Glue("clone", <<subject>> \o arguments, e.ty)
      ELSE Builtin(receiver, arguments) @@ [method |-> e.method, ty |-> e.ty]
MethodCall(b, e) ==
  LET Called(c) == Then(Listed(Operand, c, e.arguments), LAMBDA d : Gives(d, MethodOn(c.out, d.out, e)))
  IN  Then(PlaceOf(b, e.receiver), LAMBDA place : Called(Receiver(place, e)))

Equals(e, operands) ==
  IF IsEntity(e.left.ty) THEN Glue("equal", operands, "Bool") ELSE Operation("equal", operands[1], operands[2])
RvalueOf(b, e) ==
  CASE e.is = "constant" -> Gives(b, Use(Constant(Scalar(e.ty, e.value))))
    [] e.is \in {"place", "field"} -> Then(PlaceOf(b, e), LAMBDA c : Gives(c, Use(Taken(c.out, e.ty))))
    [] e.is = "call" -> Then(Listed(Argument, b, e.arguments),
                             LAMBDA c : Gives(c, CallTo(e.callee, c.out, e.ty, e.callee = "peek")))
    [] e.is = "build" -> Then(Listed(Operand, b, e.fields), LAMBDA c : Gives(c, Combine(c.out, e.ty, e.variant)))
    [] e.is = "update" -> Then(UpdatedFields(b, e), LAMBDA c : Gives(c, Combine(c.out, e.ty, 1)))
    [] e.is = "compare" -> Then(IF IsEntity(e.left.ty) THEN Listed(BorrowedOperand, b, <<e.left, e.right>>)
                                ELSE Listed(Operand, b, <<e.left, e.right>>),
                                LAMBDA c : Gives(c, Equals(e, c.out)))
    [] e.is = "method" -> MethodCall(b, e)
    [] e.is \in {"borrow", "borrow_value"} ->
         Then(LentPlace(b, e), LAMBDA c : Gives(c, Ref("shared", c.out)))

(* Blocks and statements.                                                  *)
CloseOrPop(b) == IF b.goes THEN Close(b) ELSE Pop(b)
Statements(b, statements) == InTurn(LAMBDA c, s : CloseOrPop(StatementInto(Open(c, FALSE), s)), b, statements)
BlockValue(b, d, block) ==
  IF ~ b.goes THEN b
  ELSE IF block.tail # <<>> THEN ValueInto(b, d, block.tail[1], block.ty)
  ELSE IF block.ty = "Never" THEN Stop(b) ELSE UnitInto(b, d)
EndBlock(b, block) ==
  IF b.goes /\ block.ty = "Never" THEN Stop(Terminate(Pop(b), Unreachable)) ELSE CloseOrPop(b)
BlockInto(b, d, block) ==
  EndBlock(BlockValue(Statements(Open(b, TRUE), block.statements), d, block), block)

StoreValue(b, target, s) ==
  LET sum == Temporary(b, s.value.ty)
      added == AssignTo(sum, Whole(sum.out), Operation("add", Copy(target), b.out))
  IN  Changed(IF s.compound THEN AssignTo(added, target, Use(Copy(Whole(sum.out))))
              ELSE AssignTo(b, target, Use(b.out)), target.local)
StoreInto(b, s) ==
  Then(TypedPlace(b, s.place),
       LAMBDA target : Then(Operand(target, s.value), LAMBDA value : StoreValue(value, target.out, s)))
LeaveLoopLate(b, s) ==                            \* a bug: the scope of the loop's body is left out
  LET loop == Last(b.loops)
  IN  Stop(GoTo(ReleaseFrom(b, loop.depth + 1), IF s.do = "break" THEN loop.exit ELSE loop.next))
LeaveLoop(b, s) ==
  LET loop == Last(b.loops)
  IN  Stop(GoTo(ReleaseFrom(b, loop.depth), IF s.do = "break" THEN loop.exit ELSE loop.next))
EnterLoop(b, next, exit) ==
  [b EXCEPT !.loops = Append(@, [next |-> next, exit |-> exit, depth |-> Len(b.scopes)])]
LeaveBody(b, next) == [EndAt(b, next) EXCEPT !.loops = Front(@), !.goes = TRUE]
LoopBody(b, body, next, exit) == LeaveBody(BlockInto(EnterLoop(b, next, exit), NoPlace, body), next)
WhileLoop(b, s) ==
  LET head == LastBlock(b) + 1
      exit == head + 1
      Looped(condition) ==
        LET start == LastBlock(condition) + 1
            test == Terminate(NewBlock(condition), If(condition.out, start, exit))
        IN  In(LoopBody(In(test, start), s.body, head, exit), exit)
  IN  Then(Operand(Enter(NewBlock(NewBlock(b)), head), s.condition), Looped)
EndlessLoop(b, s) ==
  LET head == LastBlock(b) + 1
  IN  In(LoopBody(Enter(NewBlock(NewBlock(b)), head), s.body, head, head + 1), head + 1)

(* The part of a value that field i of a pattern is about.                 *)
PartOf(at, pattern, i) ==
  [place |-> Into(at.place, IF pattern.is = "tuple" THEN <<"field", i>> ELSE <<"variant", pattern.variant, i>>),
   ty |-> VariantTypes(at.ty)[IF pattern.is = "tuple" THEN 1 ELSE pattern.variant][i]]
OverParts(Do_(_, _, _), b, pattern, at) ==
  After(LAMBDA c, i : Do_(c, pattern.fields[i], PartOf(at, pattern, i)), b, [i \in DOMAIN pattern.fields |-> i])
(* A pointer or a copy is taken now, an entity with the others at the end. *)
TakenBy(b, pattern, at) ==
  CASE pattern.is = "binding" /\ b.locals[pattern.local].reference ->
         AssignTo(b, Whole(pattern.local), Ref("shared", at.place))
    [] pattern.is = "binding" /\ ~ b.locals[pattern.local].reference ->
         IF IsEntity(at.ty) THEN Gives(b, Append(b.out, <<pattern.local, at.place>>))
         ELSE AssignTo(b, Whole(pattern.local), Use(Copy(at.place)))
    [] pattern.is \in {"tuple", "variant"} -> OverParts(TakenBy, b, pattern, at)
    [] pattern.is = "or" -> TakenBy(b, pattern.alternatives[1], at)
    [] OTHER -> b
Unpacked(b, taken) == IF taken = <<>> THEN b ELSE Push(b, Unpack(taken))
UnpackOut(b) == Unpacked(b, b.out)
BindAll(b, pattern, at) == UnpackOut(TakenBy(Gives(DeclareAll(b, Bindings(pattern)), <<>>), pattern, at))
Subject(b, e) ==
  CASE e.is \in {"borrow", "borrow_value"} ->
         Then(LentPlace(b, e), LAMBDA c : LET r == PointAt(c, e.ty, "shared") IN Gives(r, Whole(r.out)))
    [] e.is = "place" -> PlaceOf(b, e)
    [] OTHER -> Held(b, e)

(* `for`: the head tests, the latch steps, and the body takes its element. *)
TestThen(b, operator, left, right, yes, no) ==
  LET t == Temporary(b, "Bool")
  IN  Terminate(AssignTo(t, Whole(t.out), Operation(operator, left, right)), If(Copy(Whole(t.out)), yes, no))
Advance(b, k) ==
  GoTo(AssignTo(b, k.position, Operation("add", Copy(k.position), Constant(Scalar("Int", 1)))), k.head)
CounterLoop(b, k, end, inclusive) ==
  LET tested == In(TestThen(Enter(b, k.head), IF inclusive THEN "at_most" ELSE "less",
                            Copy(k.position), end, k.start, k.exit), k.latch)
      step == LastBlock(tested) + 1
  IN  IF inclusive   \* it stops at its end, which may be the largest Int
      THEN Advance(In(TestThen(NewBlock(tested), "equal", Copy(k.position), end, k.exit, step), step), k)
      ELSE Advance(tested, k)
RangeValueLoop(b, k, range) ==
  LET end == Copy(Into(range, <<"field", 2>>))
      inclusive == Copy(Into(range, <<"field", 3>>))
      first == LastBlock(b) + 1
      headed == Terminate(Enter(NewBlocks(b, 2), k.head), If(inclusive, first, first + 1))
      through == TestThen(In(headed, first), "at_most", Copy(k.position), end, k.start, k.exit)
      until == TestThen(In(through, first + 1), "less", Copy(k.position), end, k.start, k.exit)
      last == Temporary(In(until, k.latch), "Bool")
      compared == AssignTo(last, Whole(last.out), Operation("equal", Copy(k.position), end))
      step == LastBlock(compared) + 1
  IN  Advance(In(TestThen(NewBlock(compared), "and", inclusive, Copy(Whole(last.out)), k.exit, step), step), k)
(* The positions of removed entries are gaps, which the loop passes over.  *)
SkipGap(b, k, container) ==
  LET t == Temporary(b, "Bool")
      read == AssignTo(t, Whole(t.out), OccupiedAt(container, k.position.local))
  IN  Terminate(read, If(Copy(Whole(t.out)), k.start, k.latch))
IndexLoop(b, k, container, ty) ==
  LET entry == IF IsMap(ty) THEN LastBlock(b) + 1 ELSE k.start
      made == IF IsMap(ty) THEN NewBlock(b) ELSE b
      headed == Enter(AssignTo(made, k.position, Use(Constant(Scalar("Int", 0)))), k.head)
      length == Temporary(headed, "Int")
      read == AssignTo(length, Whole(length.out), LengthOf(container))
      tested == TestThen(read, "less", Copy(k.position), Copy(Whole(length.out)), entry, k.exit)
  IN  Advance(In(IF IsMap(ty) THEN SkipGap(In(tested, entry), k, container) ELSE tested, k.latch), k)
(* out becomes the local that the elements come from.                      *)
ForHead(b, s, k) ==
  LET FromRange(ends) ==
        LET end == Kept(AssignTo(ends, k.position, Use(ends.out[1])), ends.out[2], "Int")
        IN  CounterLoop(end, k, end.out, s.of.inclusive)
      FromValue(given) ==
        LET range == Kept(given, given.out, "Range")
            first == Use(Copy(Into(range.out.place, <<"field", 1>>)))
        IN  RangeValueLoop(AssignTo(range, k.position, first), k, range.out.place)
      FromBorrow(place) ==
        LET r == PointAt(place, s.of.ty, "shared") IN Gives(IndexLoop(r, k, Whole(r.out), s.of.ty), r.out)
  IN  CASE s.source = "range" -> Then(Listed(Operand, b, <<s.of.first, s.of.end>>), FromRange)
        [] s.source = "range_value" -> Then(Operand(b, s.of), FromValue)
        [] s.source = "taken" ->
             Then(Held(b, s.of), LAMBDA taken : Gives(IndexLoop(taken, k, taken.out, s.of.ty), taken.out.local))
        [] s.source = "borrowed" -> Then(TypedPlace(b, s.of.place), FromBorrow)
Element(b, s, k, from) ==
  CASE s.source \in {"range", "range_value"} ->
         AssignTo(Declare(b, s.binding.local), Whole(s.binding.local), Use(Copy(k.position)))
    [] s.source = "taken" ->
         LET item == Temporary(b, TakenType(s.of.ty))
             taken == AssignTo(item, Whole(item.out), TakeOut(from, k.position.local))
         IN  BindAll(taken, s.binding, [place |-> Whole(item.out), ty |-> TakenType(s.of.ty)])
    [] s.source = "borrowed" ->
         BindAll(b, s.binding, [place |-> Into(Whole(from), <<"position", k.position.local>>), ty |-> ElementType(s.of.ty)])
ForLoop(b, s) ==
  LET counted == Temporary(b, "Int")
      exit == LastBlock(b) + 1
      k == [position |-> Whole(counted.out), exit |-> exit, head |-> exit + 1, latch |-> exit + 2, start |-> exit + 3]
      Looped(headed) ==
        LET entered == Open(EnterLoop(In(headed, k.start), k.latch, k.exit), TRUE)
            done == CloseOrPop(BlockInto(Element(entered, s, k, headed.out), NoPlace, s.body))
        IN  In(LeaveBody(done, k.latch), k.exit)
  IN  Then(ForHead(NewBlocks(counted, 4), s, k), Looped)

StatementInto(b, s) ==
  CASE s.do = "let" -> ExprInto(Declare(b, s.local), Whole(s.local), s.value)
    [] s.do = "let_pattern" ->
         Then(Subject(b, s.value), LAMBDA c : BindAll(c, s.pattern, [place |-> c.out, ty |-> s.value.ty]))
    [] s.do = "store" -> StoreInto(b, s)
    [] s.do = "expression" -> ExprInto(b, NoPlace, s.value)
    [] s.do = "return" ->
         Then(IF s.value = <<>> THEN UnitInto(b, Whole(b.result)) ELSE ExprInto(b, Whole(b.result), s.value[1]),
              ReturnFrom)
    [] s.do \in {"break", "continue"} -> LeaveLoop(b, s)
    [] s.do = "while" -> WhileLoop(b, s)
    [] s.do = "loop" -> EndlessLoop(b, s)
    [] s.do = "for" -> ForLoop(b, s)

(* Expressions that branch.                                                *)
UnitAfter(b, d) == IF b.goes THEN UnitInto(Close(b), d) ELSE Pop(b)
ValueInto(b, d, e, ty) ==
  IF e.ty \in {ty, "Never"} THEN ExprInto(b, d, e) ELSE UnitAfter(ExprInto(Open(b, FALSE), NoPlace, e), d)
JoinIf(b, join, reached) == Joined(EndAt(b, join), join, reached \/ b.goes)
ElseInto(b, d, e, otherwise, join) ==         \* b is at the end of the first branch
  LET second == Onward(EndAt(b, join), otherwise)
  IN  JoinIf(IF e.otherwise = <<>> THEN UnitInto(second, d)
             ELSE CloseOrPop(ValueInto(Open(second, FALSE), d, e.otherwise[1], e.ty)), join, b.goes)
IfInto(b, d, e) ==
  LET Branched(condition) ==
        LET then == LastBlock(condition) + 1
            branched == Terminate(NewBlocks(condition, 3), If(condition.out, then, then + 1))
        IN  ElseInto(BlockInto(In(branched, then), d, e.then), d, e, then + 1, then + 2)
  IN  Then(Operand(b, e.condition), Branched)
LogicInto(b, d, e) ==
  LET result == Temporary(b, "Bool")
      place == Whole(result.out)
      Second(left) ==
        LET evaluate == LastBlock(left) + 1
            join == evaluate + 1
            branched == Terminate(NewBlocks(AssignTo(left, place, Use(left.out)), 2),
                          IF e.is = "and" THEN If(Copy(place), evaluate, join) ELSE If(Copy(place), join, evaluate))
            right == CloseOrPop(ExprInto(Open(In(branched, evaluate), FALSE), place, e.right))
            joined == Onward(EndAt(right, join), join)
        IN  IF d = NoPlace THEN joined ELSE AssignTo(joined, d, Use(Copy(place)))
  IN  Then(Operand(result, e.left), Second)

(* The reference that keeps the subject of a guarded match borrowed, or 0. *)
Hold(b, place, ty) ==
  LET l == b.locals[place.local]
  IN  IF l.temporary /\ place.path = <<>> THEN Gives(b, IF l.reference THEN place.local ELSE 0)
      ELSE PointAt(Gives(b, place), ty, "shared")
UnlessEqual(b, operand, value, fail) ==
  LET next == LastBlock(b) + 1
  IN  In(TestThen(NewBlock(b), "equal", operand, Constant(value), next, fail), next)
TestOf(b, pattern, at, fail) ==
  LET Within(c) == OverParts(LAMBDA d, p, part : TestOf(d, p, part, fail), c, pattern, at)
      tag == Temporary(b, "Int")
  IN  CASE pattern.is = "literal" -> UnlessEqual(b, Copy(at.place), Scalar(at.ty, pattern.value), fail)
        [] pattern.is = "tuple" -> Within(b)
        [] pattern.is = "variant" ->
             Within(UnlessEqual(AssignTo(tag, Whole(tag.out), Discriminant(at.place)), Copy(Whole(tag.out)),
                               Scalar("Int", pattern.variant), fail))
        [] OTHER -> b
(* A guard reads what its arm would take where it is in the subject; an    *)
(* arm whose guard fails has taken nothing and releases the rest.          *)
Guarded(b, m, guard, next) ==
  LET Accepted(c) ==
        LET kept == IF m.hold = 0 THEN c ELSE Push(c, Keep(m.hold))
            accepted == LastBlock(kept) + 1
            branched == Terminate(NewBlocks(kept, 2), If(c.out, accepted, accepted + 1))
        IN  In(GoTo(ReleaseFrom(In(branched, accepted + 1), Len(b.scopes) - 1), next), accepted)
  IN  Then([Operand([b EXCEPT !.redirects = @ \o b.out], guard) EXCEPT !.redirects = b.redirects], Accepted)
Matched(b, m, arm, next, matched) ==
  Then(IF arm.guard = <<>> THEN b ELSE Guarded(b, m, arm.guard[1], next),
       LAMBDA c : GoTo(Unpacked(c, b.out), matched))
Try(b, m, arm, i, next, matched) ==
  LET pattern == Alternatives(arm.pattern)[i]
      last == i = Len(Alternatives(arm.pattern))
      fail == IF last THEN next ELSE LastBlock(b) + 1
      tested == TestOf(IF last THEN b ELSE NewBlock(b), pattern, m.at, fail)
  IN  Onward(Matched(TakenBy(Gives(tested, <<>>), pattern, m.at), m, arm, next, matched), fail)
(* out says whether an arm so far reaches the end of the match.            *)
EndArm(b, join, next, reached) == Gives(Onward(EndAt(b, join), next), reached \/ b.goes)
ArmInto(b, m, d, arm, ty) ==
  LET next == LastBlock(b) + 1
      opened == DeclareAll(Open(NewBlocks(b, 2), TRUE), Bindings(arm.pattern))
      tried == After(LAMBDA c, i : Try(c, m, arm, i, next, next + 1), opened,
                     [i \in DOMAIN Alternatives(arm.pattern) |-> i])
  IN  EndArm(CloseOrPop(ValueInto(In(tried, next + 1), d, arm.body, ty)), m.join, next, b.out)
EndMatch(b, join) == Joined(Terminate(b, Unreachable), join, b.out)
MatchInto(b, d, e) ==
  LET Arms(subject) ==
        LET held == IF \E i \in DOMAIN e.arms : e.arms[i].guard # <<>>
                    THEN Hold(subject, subject.out, e.subject.ty) ELSE Gives(subject, 0)
            join == LastBlock(held) + 1
            m == [at |-> [place |-> subject.out, ty |-> e.subject.ty], hold |-> held.out, join |-> join]
        IN  EndMatch(After(LAMBDA c, arm : ArmInto(c, m, d, arm, e.ty), Gives(NewBlock(held), FALSE), e.arms), join)
  IN  Then(Subject(b, e.subject), Arms)

Keeping(b, d, ty) ==                          \* the right side that out holds, in d or a local of its own
  LET sink == IF ty = "Never" THEN NewLocal(b, ty, FALSE) ELSE Temporary(b, ty)
      kept == AssignTo(sink, Whole(sink.out), b.out)
  IN  IF ty = "Never" THEN Stop(Terminate(kept, Unreachable))
      ELSE IF d # NoPlace THEN AssignTo(b, d, b.out) ELSE kept
ExprInto(b, d, e) ==
  CASE e.is = "if" -> IfInto(b, d, e)
    [] e.is = "block" -> BlockInto(b, d, e)
    [] e.is = "match" -> MatchInto(b, d, e)
    [] e.is \in {"and", "or"} -> LogicInto(b, d, e)
    [] OTHER -> Then(RvalueOf(b, e), LAMBDA c : Keeping(c, d, e.ty))

(* lower: the body of a function, with its locals.                         *)
BodyOf(b) ==
  [statements |-> [k \in DOMAIN b.blocks |-> b.blocks[k].statements],
   terminators |-> [k \in DOMAIN b.blocks |-> b.blocks[k].terminator],
   locals |-> b.locals, parameters |-> b.parameters, result |-> b.result, changes |-> b.changes]
Finished(b) == BodyOf(IF b.goes THEN ReturnFrom(b) ELSE b)
Lower(function) ==
  LET locals == [i \in DOMAIN function.locals |-> function.locals[i] @@ [temporary |-> FALSE]]
      result == Len(locals) + 1
      start == [blocks |-> 0 :> EmptyBlock, current |-> 0, parameters |-> function.parameters, result |-> result,
                locals |-> Append(locals, Owned(function.result) @@ [temporary |-> TRUE]),
                scopes |-> << [locals |-> function.parameters, block |-> TRUE] >>,
                loops |-> <<>>, redirects |-> <<>>, changes |-> <<>>, goes |-> TRUE, out |-> <<>>]
  IN  Finished(ExprInto(start, Whole(result), function.body))
===============================================================================
