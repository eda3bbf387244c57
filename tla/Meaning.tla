--------------------------------- MODULE Meaning ---------------------------------
(***************************************************************************)
(* What the language says a function does (docs/lang-spec/type-system.md), *)
(* told without blocks, jumps or temporaries: an expression is evaluated   *)
(* in a state, and everything it leaves behind belongs to the scope it is  *)
(* in, whichever way that scope is left.                                   *)
(*                                                                         *)
(* Slots hold values; `names` says where each local is, `scopes` which     *)
(* slots each open scope owns, oldest first; `goes` is "on", or how        *)
(* control leaves: "break", "continue", "return" or "stop".                *)
(***************************************************************************)
EXTENDS Typed

(* What storage holds while a program runs, and what is seen of it from    *)
(* outside.                                                                *)
Truth(b) == Scalar("Bool", IF b THEN 1 ELSE 0)
Hole == Value("hole", 0, 0, <<>>)                  \* zeroed storage

RECURSIVE PartAt(_, _), WithPart(_, _, _), Identities(_), Doors(_)
PartAt(v, path) == IF path = <<>> THEN v ELSE PartAt(v.parts[Head(path)], Tail(path))
WithPart(v, path, new) ==
  IF path = <<>> THEN new ELSE [v EXCEPT !.parts[Head(path)] = WithPart(@, Tail(path), new)]
(* All entities in v; and those whose drop runs, in the order it does: an  *)
(* entity first, then its parts from first to last.                        *)
Identities(v) ==
  (IF v.id = 0 THEN <<>> ELSE <<v.id>>) \o FlattenSeq([i \in DOMAIN v.parts |-> Identities(v.parts[i])])
Doors(v) ==
  (IF v.ty = "Door" THEN <<v.id>> ELSE <<>>) \o FlattenSeq([i \in DOMAIN v.parts |-> Doors(v.parts[i])])

(* The world: what has been seen of the program, the answers it will get   *)
(* from outside, the next identity, what has been released.  A program     *)
(* that asks for one answer more than there are stops there.               *)
World(answers) == [events |-> <<>>, answers |-> answers, fresh |-> 1, gone |-> {}, stopped |-> FALSE]
See(w, what, ids) == [w EXCEPT !.events = Append(@, <<what, ids>>)]
Gone(w, v) ==
  LET doors == Doors(v)
  IN  [w EXCEPT !.events = @ \o [i \in DOMAIN doors |-> <<"drop", <<doors[i]>> >>],
                !.gone = @ \cup ToSet(Identities(v))]
AllGone(w, vs) == FoldLeft(Gone, w, vs)
NewValue(ty, n, answer) ==
  CASE ty \in {"Door", "Text"} -> Value(ty, n, 1, <<>>)
    [] ty = "Pair" -> Value(ty, 0, 1, <<Value("Door", n, 1, <<>>), Value("Door", n + 1, 1, <<>>)>>)
    [] ty = "Option" -> IF answer = 0 THEN Value(ty, 0, 1, <<>>) ELSE Value(ty, 0, 2, <<Value("Door", n, 1, <<>>)>>)
    [] ty \in {"Doors", "Rooms"} -> Value(ty, n, 1, <<Value("Door", n + 1, 1, <<>>), Value("Door", n + 2, 1, <<>>)>>)
    [] OTHER -> Scalar(ty, answer)
(* The positions of the elements of a container, in order; those of a map  *)
(* that have been removed are none.                                        *)
Present(v) == SelectSeq([i \in DOMAIN v.parts |-> i], LAMBDA i : v.parts[i] # Hole)
MapEntry_(i, door) == Value("Entry", 0, 1, <<Scalar("Int", i - 1), door>>)
Found(door) == IF door = Hole THEN Value("Option", 0, 1, <<>>) ELSE Value("Option", 0, 2, <<door>>)
(* Another function is called: it looks at what it is lent, releases what  *)
(* it is given, latest first, and gives a new value.                       *)
Outside(w, callee, lent, given, ty) ==
  LET seen == See(w, callee, FlattenSeq([i \in DOMAIN lent |-> Identities(lent[i])] \o
                                        [i \in DOMAIN given |-> Identities(given[i])]))
      done == AllGone(seen, Reverse(given))
      asks == ty \in {"Bool", "Int", "Option"}
      value == NewValue(ty, done.fresh, IF asks THEN Head(done.answers) ELSE 0)
  IN  IF ty = "Never" \/ (asks /\ done.answers = <<>>)
      THEN [world |-> [done EXCEPT !.stopped = TRUE], value |-> Hole]
      ELSE [world |-> [done EXCEPT !.answers = IF asks THEN Tail(@) ELSE @, !.fresh = @ + Len(Identities(value))],
            value |-> value]
-----------------------------------------------------------------------------
Spot(slot, path) == [slot |-> slot, path |-> path]
Look(s, spot) == PartAt(s.slots[spot.slot], spot.path)
Put(s, spot, v) == [s EXCEPT !.slots[spot.slot] = WithPart(@, spot.path, v)]
Yield(s, v) == [s EXCEPT !.value = v]
Leave(s, how) == [s EXCEPT !.goes = how]
Name(s, l, spot) == [s EXCEPT !.names = (l :> spot) @@ @]
(* An entity leaves its place, a value is copied.                          *)
TakeFrom(s, spot, ty) ==
  LET v == Look(s, spot) IN Yield(IF IsEntity(ty) THEN Put(s, spot, Hole) ELSE s, v)
OwnAt(s, depth, v) ==
  [s EXCEPT !.slots = Append(@, v), !.scopes[depth] = Append(@, Len(s.slots) + 1)]
Own(s, v) == OwnAt(s, Len(s.scopes), v)
Newest(s) == Spot(Len(s.slots), <<>>)
Enter_(s) == [s EXCEPT !.scopes = Append(@, <<>>)]
DropSlot(s, slot) == [s EXCEPT !.world = Gone(@, s.slots[slot]), !.slots[slot] = Hole]
Exit(s, depth) ==
  [FoldLeft(DropSlot, s, Reverse(FlattenSeq(SubSeq(s.scopes, depth + 1, Len(s.scopes)))))
     EXCEPT !.scopes = SubSeq(@, 1, depth)]
Going(s, Next(_)) == IF s.goes = "on" THEN Next(s) ELSE s
ExitOne(s) == Going(s, LAMBDA t : Exit(t, Len(t.scopes) - 1))
OwnNew(s) == LET t == Own(s, s.value) IN Yield(t, Newest(t))
Follow(Op(_, _), s, elements) == FoldLeft(LAMBDA t, e : Going(t, LAMBDA u : Op(u, e)), s, elements)
Ask(s, callee, lent, given, ty) ==
  LET answer == Outside(s.world, callee, lent, given, ty)
  IN  [s EXCEPT !.world = answer.world, !.value = answer.value,
                !.goes = IF answer.world.stopped THEN "stop" ELSE @]

(* What a term means: a statement that is run, or an expression of which   *)
(* the place or the value is wanted, the value perhaps as the last thing   *)
(* the function does.                                                      *)
RECURSIVE Means(_, _, _), Iterate(_, _, _), Matches(_, _), NameParts(_, _, _)
Exec(s, st) == Means(s, st, "run")
SpotOf(s, e) == Means(s, e, "place")
Eval(s, e, tail) == Means(s, e, IF tail THEN "tail" ELSE "value")

(* Places.                                                                 *)
StepIn(s, step) ==
  LET Part(n) == Spot(s.value.slot, Append(s.value.path, n))
  IN  CASE step[1] = "field" -> Yield(s, Part(step[2]))
        [] step[1] = "index" -> Going(Eval(s, step[2], FALSE), LAMBDA t : Yield(t, Part(t.value.variant + 1)))
Placed(s, e) ==
  CASE e.is \in {"place", "borrow"} ->
         Follow(StepIn, IF e.place.call = <<>> THEN Yield(s, s.names[e.place.local]) ELSE SpotOf(s, e.place.call[1]),
                e.place.path)
    [] e.is = "borrow_value" -> SpotOf(s, e.value)
    [] e.is = "field" ->
         Going(SpotOf(s, e.base), LAMBDA t : Yield(t, Spot(t.value.slot, Append(t.value.path, e.field))))
    [] e.is = "call" /\ e.callee = "peek" ->   \* a borrow of what it was lent
         Going(SpotOf(s, e.arguments[1]),
               LAMBDA t : Yield(Ask(t, "peek", <<Look(t, t.value)>>, <<>>, "Unit"), t.value))
    [] OTHER -> Going(Eval(s, e, FALSE), OwnNew)

(* Values in order, each kept until all are there; then they are taken.    *)
Lends(e) == e.is \in {"borrow", "borrow_value"}
KeepNext(s, e) ==
  Going(IF Lends(e) THEN SpotOf(s, e) ELSE Going(Eval(s, e, FALSE), OwnNew),
        LAMBDA t : Yield(t, Append(s.value, t.value)))
KeepAll(s, elements) == Follow(KeepNext, Yield(s, <<>>), elements)
TakeAll(s, spots) == FoldLeft(LAMBDA t, spot : Put(t, spot, Hole), s, spots)
Looks(s, spots) == [i \in DOMAIN spots |-> Look(s, spots[i])]
Chosen(spots, elements, lent) ==
  LET some == SelectSeq([i \in DOMAIN spots |-> i], LAMBDA i : Lends(elements[i]) = lent)
  IN  [i \in DOMAIN some |-> spots[some[i]]]

(* A call of the function itself.  Something is left to do after it unless *)
(* it is in tail position, lends nothing of its own, and leaves nothing    *)
(* whose drop runs: no local that holds a part of such a value (`rest`),   *)
(* or, in the code, none that was not moved as a whole (`any`).  The stack *)
(* grows at the calls of `growing`, those where some run leaves something. *)
Leaves(s, spots, elements, tail, Held(_)) ==
  \/ ~ tail
  \/ \E i \in DOMAIN spots : Lends(elements[i]) /\ spots[i].slot > s.base
  \/ \E i \in DOMAIN s.scopes : \E slot \in ToSet(s.scopes[i]) : Held(s.slots[slot])
Deeper(s, depth, elements) ==
  [rest |-> depth.rest + (IF elements \in s.growing.rest THEN 1 ELSE 0),
   any |-> depth.any + (IF elements \in s.growing.any THEN 1 ELSE 0)]
Frame(s, spots, elements, tail) ==
  LET left == TakeAll(s, Chosen(spots, elements, FALSE))
      leaves == [elements |-> elements,
                 rest |-> Leaves(left, spots, elements, tail, LAMBDA v : Doors(v) # <<>>),
                 any |-> Leaves(left, spots, elements, tail, LAMBDA v : RunsDrop(v.ty))]
      Parameter(t, i) ==
        IF Lends(elements[i]) THEN Name(t, s.function.parameters[i], spots[i])
        ELSE LET owned == Own(t, Look(s, spots[i])) IN Name(owned, s.function.parameters[i], Newest(owned))
      depth == Deeper(s, s.depth, elements)
  IN  FoldLeft(Parameter, [left EXCEPT !.scopes = << <<>> >>, !.base = Len(s.slots), !.depth = depth,
                                       !.depths = Append(@, depth), !.calls = @ \cup {leaves}],
               [i \in DOMAIN spots |-> i])
Resumed(s, inner) ==
  IF inner.goes = "stop" THEN inner
  ELSE [Exit(inner, 0) EXCEPT !.scopes = s.scopes, !.names = s.names, !.base = s.base, !.depth = s.depth, !.goes = "on"]
CallSelf(s, spots, elements, tail) ==
  Going(Ask(s, "self", Looks(s, spots), <<>>, "Bool"),
        LAMBDA t : Resumed(s, Eval(Frame(t, spots, elements, tail), s.function.body, TRUE)))

EvalCall(s, e, tail) ==
  LET Outer(kept) ==
        LET given == Chosen(kept.value, e.arguments, FALSE)
        IN  Ask(TakeAll(kept, given), e.callee, Looks(kept, Chosen(kept.value, e.arguments, TRUE)),
                Looks(kept, given), e.ty)
  IN  Going(KeepAll(s, e.arguments),
            LAMBDA t : IF e.callee = "self" THEN CallSelf(t, t.value, e.arguments, tail) ELSE Outer(t))
UpdateOf(base, e) ==
  LET Part(i) == Spot(base.value.slot, Append(base.value.path, i))
      missing == SelectSeq([i \in DOMAIN e.fields |-> i], LAMBDA i : e.fields[i] = <<>>)
      given == SelectSeq([i \in DOMAIN e.fields |-> i], LAMBDA i : e.fields[i] # <<>>)
      moved == FoldLeft(LAMBDA t, i : Own(Put(t, Part(i), Hole), Look(t, Part(i))), base, missing)
      Final(kept, i) ==
        IF e.fields[i] = <<>> THEN Spot(Len(base.slots) + SelectInSeq(missing, LAMBDA m : m = i), <<>>)
        ELSE kept.value[SelectInSeq(given, LAMBDA g : g = i)]
      Made(kept) ==
        LET finals == [i \in DOMAIN e.fields |-> Final(kept, i)]
        IN  Yield(TakeAll(kept, finals), Value(e.ty, 0, 1, Looks(kept, finals)))
  IN  Going(KeepAll(moved, [i \in DOMAIN given |-> e.fields[given[i]][1]]), Made)
EvalUpdate(s, e) == Going(SpotOf(s, e.base), LAMBDA t : UpdateOf(t, e))
MethodOf(kept, receiver, e) ==
  LET held == Look(kept, receiver)
  IN  CASE e.method = "push" ->
             Yield(Put(TakeAll(kept, kept.value), receiver, [held EXCEPT !.parts = @ \o Looks(kept, kept.value)]),
                   Scalar("Unit", 0))
        [] e.method = "remove" ->
             LET part == Spot(receiver.slot, Append(receiver.path, Look(kept, kept.value[1]).variant + 1))
             IN  Yield(Put(kept, part, Hole), Found(Look(kept, part)))
        [] e.method = "count" -> Yield(kept, Scalar("Int", Len(Present(held))))
        [] e.method = "clone" -> Ask(kept, "clone", <<held>>, <<>>, e.ty)
EvalMethod(s, e) ==
  Going(SpotOf(s, e.receiver), LAMBDA t : Going(KeepAll(t, e.arguments), LAMBDA u : MethodOf(u, t.value, e)))
EvalCompare(s, e) ==
  LET Same(t, l) ==
        IF IsEntity(e.left.ty) THEN Ask(t, "equal", <<Look(t, l), Look(t, t.value)>>, <<>>, "Bool")
        ELSE Yield(t, Truth(l = t.value))
      Side(t, side) == IF IsEntity(e.left.ty) THEN SpotOf(t, side) ELSE Eval(t, side, FALSE)
  IN  Going(Side(s, e.left), LAMBDA t : Going(Side(t, e.right), LAMBDA u : Same(u, t.value)))

(* The first alternative of the first arm that matches binds its parts; if *)
(* it has a guard, the guard sees them where they are.                     *)
Matches(pattern, v) ==
  CASE pattern.is = "literal" -> v.variant = pattern.value
    [] pattern.is = "tuple" -> \A i \in DOMAIN pattern.fields : Matches(pattern.fields[i], v.parts[i])
    [] pattern.is = "variant" ->
         v.variant = pattern.variant /\ \A i \in DOMAIN pattern.fields : Matches(pattern.fields[i], v.parts[i])
    [] OTHER -> TRUE
NameParts(s, pattern, spot) ==
  CASE pattern.is = "binding" -> Name(s, pattern.local, spot)
    [] pattern.is \in {"tuple", "variant"} ->
         FoldLeft(LAMBDA t, i : NameParts(t, pattern.fields[i], Spot(spot.slot, Append(spot.path, i))), s,
                  [i \in DOMAIN pattern.fields |-> i])
    [] OTHER -> s
(* Each name that is no reference gets a slot, and what it names moves in. *)
Settled(s, locals) ==
  LET Fill(t, l) ==
        IF s.function.locals[l].reference THEN t
        ELSE LET taken == TakeFrom(t, t.names[l], s.function.locals[l].ty)
                 owned == Own(taken, taken.value)
             IN  Name(owned, l, Newest(owned))
  IN  FoldLeft(Fill, s, locals)
BindParts(s, pattern, spot) == Settled(NameParts(s, pattern, spot), Bindings(pattern))
UnitOf(s) == Yield(s, Scalar("Unit", 0))
EvalAs(s, e, ty, tail) ==
  IF e.ty \in {ty, "Never"} THEN Eval(s, e, tail) ELSE UnitOf(ExitOne(Exec(Enter_(s), Do(e))))
EvalArms(s, e, spot, tail) ==
  LET v == Look(s, spot)
      Chosen_(i) == SelectInSeq(Alternatives(e.arms[i].pattern), LAMBDA p : Matches(p, v))
      RECURSIVE From(_, _)
      From(t, i) ==
        LET arm == e.arms[i]
            pattern == Alternatives(arm.pattern)[Chosen_(i)]
            named == NameParts(Enter_(t), pattern, spot)
            Decided(u) ==
              IF u.value.variant = 0 THEN From(ExitOne(u), i + 1)
              ELSE ExitOne(EvalAs(Settled(u, Bindings(pattern)), arm.body, e.ty, tail))
        IN  IF Chosen_(i) = 0 THEN From(t, i + 1)
            ELSE Going(IF arm.guard = <<>> THEN Yield(named, Truth(TRUE)) ELSE Eval(named, arm.guard[1], FALSE), Decided)
  IN  From(s, 1)
SubjectOf(s, e) == SpotOf(s, e)
EvalBlock(s, block, tail) ==
  ExitOne(Going(Follow(LAMBDA t, st : ExitOne(Exec(Enter_(t), st)), Enter_(s), block.statements),
                LAMBDA t : IF block.tail = <<>> THEN UnitOf(t) ELSE EvalAs(t, block.tail[1], block.ty, tail)))
Evaluated(s, e, tail) ==
  CASE e.is = "constant" -> Yield(s, Scalar(e.ty, e.value))
    [] e.is \in {"place", "field"} -> Going(SpotOf(s, e), LAMBDA t : TakeFrom(t, t.value, e.ty))
    [] e.is = "call" -> EvalCall(s, e, tail)
    [] e.is = "build" ->
         Going(KeepAll(s, e.fields),
               LAMBDA t : Yield(TakeAll(t, t.value), Value(e.ty, 0, e.variant, Looks(t, t.value))))
    [] e.is = "update" -> EvalUpdate(s, e)
    [] e.is = "compare" -> EvalCompare(s, e)
    [] e.is = "method" -> EvalMethod(s, e)
    [] e.is \in {"and", "or"} ->
         Going(Eval(s, e.left, FALSE),
               LAMBDA t : IF (t.value.variant = 1) = (e.is = "or") THEN t ELSE ExitOne(Eval(Enter_(t), e.right, FALSE)))
    [] e.is = "block" -> EvalBlock(s, e, tail)
    [] e.is = "if" ->
         Going(Eval(s, e.condition, FALSE),
               LAMBDA t : IF t.value.variant = 1 THEN Eval(t, e.then, tail)
                          ELSE IF e.otherwise = <<>> THEN UnitOf(t)
                          ELSE ExitOne(EvalAs(Enter_(t), e.otherwise[1], e.ty, tail)))
    [] e.is = "match" -> Going(SubjectOf(s, e.subject), LAMBDA t : EvalArms(t, e, t.value, tail))
(* Statements.  A `let` belongs to the block, one scope out.               *)
AtDepth(s, depth) == IF s.goes \in {"on", "continue", "break"} THEN Exit(s, depth) ELSE s
Around(s, body) == AtDepth(Eval(s, body, FALSE), Len(s.scopes))
AfterLoop(s) == IF s.goes = "break" THEN Leave(s, "on") ELSE s
NextTurn(s) == IF s.goes = "continue" THEN Leave(s, "on") ELSE s
NextRound(s, e, body) ==
  IF s.goes = "break" THEN Leave(s, "on") ELSE Going(NextTurn(s), LAMBDA t : Iterate(t, e, body))
Iterate(s, e, body) ==
  LET Turn(t) == IF t.value.variant = 0 THEN t ELSE NextRound(Around(t, body), e, body)
  IN  Going(IF e = <<>> THEN Yield(s, Truth(TRUE)) ELSE Eval(s, e[1], FALSE), Turn)
ForTurns(s, st, n, BindTo(_, _)) ==                 \* n turns; BindTo names the element of a turn
  LET Turn(t, i) ==
        NextTurn(AtDepth(Eval(BindTo(Enter_(t), i), st.body, FALSE), Len(t.scopes)))
  IN  AfterLoop(Follow(Turn, s, [i \in 1 .. n |-> i]))
ForCounted(s, st, first, last) ==
  LET Count(t, i) == LET o == Own(t, Scalar("Int", first + i - 1)) IN Name(o, st.binding.local, Newest(o))
  IN  ForTurns(s, st, last - first + 1, Count)
ForRange(s, st) ==
  ForCounted(s, st, Look(s, s.value[1]).variant,
             Look(s, s.value[2]).variant - (IF st.of.inclusive THEN 0 ELSE 1))
ForContainer(s, st) ==
  LET held == Look(s, s.value)
      elements == Present(held)
      Part(i) == Spot(s.value.slot, Append(s.value.path, elements[i]))
      Taking(t, i) == IF IsMap(held.ty) THEN MapEntry_(elements[i], Look(t, Part(i))) ELSE Look(t, Part(i))
      Item(t, i) ==
        LET item == Own(Put(t, Part(i), Hole), Taking(t, i)) IN BindParts(item, st.binding, Newest(item))
      Pointed(t, i) == BindParts(t, st.binding, Part(i))
  IN  CASE st.source = "range_value" ->
             ForCounted(s, st, held.parts[1].variant, held.parts[2].variant - 1 + held.parts[3].variant)
        [] st.source = "taken" -> ForTurns(s, st, Len(elements), Item)
        [] st.source = "borrowed" -> ForTurns(s, st, Len(elements), Pointed)
ForEach(s, st) ==
  IF st.source = "range" THEN Going(KeepAll(s, <<st.of.first, st.of.end>>), LAMBDA t : ForRange(t, st))
  ELSE Going(SpotOf(s, st.of), LAMBDA t : ForContainer(t, st))
StoreIn(s, target, st) ==
  LET old == Look(s, target)
      new == IF st.compound THEN Scalar("Int", old.variant + s.value.variant) ELSE s.value
  IN  Put([s EXCEPT !.world = Gone(@, old)], target, new)
Stored(s, st) ==
  Going(SpotOf(s, [is |-> "place", place |-> st.place]),
        LAMBDA t : Going(Eval(t, st.value, FALSE), LAMBDA u : StoreIn(u, t.value, st)))
LetParts(s, pattern) ==
  LET out == BindParts([s EXCEPT !.scopes = Front(@)], pattern, s.value)
  IN  [out EXCEPT !.scopes = Append(@, Last(s.scopes))]
Executed(s, st) ==
  LET named == OwnAt(s, Len(s.scopes) - 1, Hole)
  IN  CASE st.do = "let" /\ s.function.locals[st.local].reference ->
             Going(SpotOf(s, st.value), LAMBDA t : Name(t, st.local, t.value))
        [] st.do = "let" /\ ~ s.function.locals[st.local].reference ->
             Going(Eval(Name(named, st.local, Newest(named)), st.value, FALSE),
                   LAMBDA t : Put(t, t.names[st.local], t.value))
        [] st.do = "let_pattern" -> Going(SubjectOf(s, st.value), LAMBDA t : LetParts(t, st.pattern))
        [] st.do = "store" -> Stored(s, st)
        [] st.do = "expression" -> Going(Eval(s, st.value, FALSE), LAMBDA t : Own(t, t.value))
        [] st.do = "return" -> Going(IF st.value = <<>> THEN UnitOf(s) ELSE Eval(s, st.value[1], TRUE),
                                     LAMBDA t : Leave(t, "return"))
        [] st.do \in {"break", "continue"} -> Leave(s, st.do)
        [] st.do = "while" -> Iterate(s, <<st.condition>>, st.body)
        [] st.do = "loop" -> Iterate(s, <<>>, st.body)
        [] st.do = "for" -> ForEach(s, st)

Means(s, term, how) ==
  CASE how = "run" -> Executed(s, term)
    [] how = "place" -> Placed(s, term)
    [] OTHER -> Evaluated(s, term, how = "tail")

(* What a call of the function does, given its arguments and the answers.  *)
Start(function, arguments, world, growing) ==
  LET given == [i \in DOMAIN arguments |->
                  [is |-> IF function.locals[function.parameters[i]].reference THEN "borrow" ELSE "place"]]
  IN  Frame([slots |-> arguments, scopes |-> << >>, function |-> function, names |-> <<>>, base |-> Len(arguments),
             depth |-> [rest |-> 1, any |-> 1], depths |-> <<>>, calls |-> {}, growing |-> growing,
             world |-> world, goes |-> "on", value |-> Hole],
            [i \in DOMAIN arguments |-> Spot(i, <<>>)], given, TRUE)
Ended(s) == IF s.goes = "stop" THEN s ELSE Exit(s, 0)
Does(function, arguments, world, growing) ==
  Ended(Eval(Start(function, arguments, world, growing), function.body, TRUE))
(* The calls where some run leaves something to do.                        *)
Growing(runs) ==
  LET calls == UNION {run.calls : run \in runs}
  IN  [rest |-> {c.elements : c \in {d \in calls : d.rest}}, any |-> {c.elements : c \in {d \in calls : d.any}}]
===============================================================================
