-------------------------------- MODULE Compiled --------------------------------
(***************************************************************************)
(* A function is compiled (lib.rs, instantiate_checked) and its code runs  *)
(* as codegen/body.rs writes it, beside what the language says it does.    *)
(*                                                                         *)
(* A frame has its variables, the place it is at and, while a call it made *)
(* runs, nothing else; a pointer names a frame, a variable and a path.     *)
(* Frame 1 is the caller's, which owns what the function is lent.          *)
(***************************************************************************)
EXTENDS Passes, Meaning

CONSTANTS Functions,       \* the functions to compile, by name
          Answers,         \* the answers the program may get, in order
          MaxInt           \* the largest Int, after which an addition panics

VARIABLES phase,           \* how far the compiler is, then "running" or how the run ended
          name,            \* the function that is compiled
          body,            \* its IR
          growing,         \* the calls of itself that the language lets grow the stack
          meant,          \* what the language says of this run
          frames, world,   \* of the running program
          depths           \* how many frames there were at each start of the function

vars == <<phase, name, body, growing, meant, frames, world, depths>>
Compiling == <<name, body, growing, meant>>

(* The arguments of the first call, new values of their types.             *)
NextArgument(given, l) ==
  LET v == NewValue(Functions[name].locals[l].ty, given.world.fresh, 1)
  IN  [values |-> Append(given.values, v), world |-> [given.world EXCEPT !.fresh = @ + Len(Identities(v))]]
Given(answers) ==
  FoldLeft(NextArgument, [values |-> <<>>, world |-> World(answers)], Functions[name].parameters)

MeantOf(given, grow) == Does(Functions[name], given.values, given.world, grow)
Meant(answers, grow) == MeantOf(Given(answers), grow)
Pointer(frame, l, path) == [ty |-> "pointer", frame |-> frame, local |-> l, path |-> path]
Frame_(store) == [store |-> store, block |-> 0, at |-> 1]
StartFrame(bod, passed) ==     \* the parameters hold what is passed
  Frame_([l \in DOMAIN bod.locals |->
            LET i == SelectInSeq(bod.parameters, LAMBDA p : p = l) IN IF i = 0 THEN Hole ELSE passed[i]])

Init ==
  /\ phase = "source" /\ name \in DOMAIN Functions
  /\ body = <<>> /\ growing = <<>> /\ meant = <<>> /\ frames = <<>> /\ world = World(<<>>) /\ depths = <<>>

LowerFunction ==
  /\ phase = "source"
  /\ body' = Lower(Functions[name]) /\ phase' = "lowered"
  /\ UNCHANGED <<name, growing, meant, frames, world, depths>>
CheckMoves ==
  /\ phase = "lowered"
  /\ phase' = IF MovesAreLegal(body) THEN "checked" ELSE "rejected"
  /\ UNCHANGED <<Compiling, frames, world, depths>>
MarkTailCalls ==
  /\ phase = "checked"
  /\ body' = Mark(body) /\ phase' = "compiled"
  /\ growing' = Growing({Meant(answers, [rest |-> {}, any |-> {}]) : answers \in Answers})
  /\ UNCHANGED <<name, meant, frames, world, depths>>
Seen(done) ==
  [events |-> done.world.events, gone |-> done.world.gone, depths |-> done.depths, stopped |-> done.world.stopped]
Outermost(given) ==        \* the caller's frame, which owns what the function is lent
  Frame_([l \in DOMAIN body.locals |->
            LET i == SelectInSeq(body.parameters, LAMBDA p : p = l)
            IN  IF i # 0 /\ IsPointer(body, l) THEN given.values[i] ELSE Hole])
Passed(given) ==
  [i \in DOMAIN body.parameters |->
     IF IsPointer(body, body.parameters[i]) THEN Pointer(1, body.parameters[i], <<>>) ELSE given.values[i]]
BeginWith(given) ==
  /\ frames' = <<Outermost(given), StartFrame(body, Passed(given))>>
  /\ world' = given.world
Begin ==
  /\ phase = "compiled"
  /\ \E answers \in Answers : meant' = Seen(Meant(answers, growing)) /\ BeginWith(Given(answers))
  /\ depths' = <<1>> /\ phase' = "running"
  /\ UNCHANGED <<name, body, growing>>
-----------------------------------------------------------------------------
(* Storage.  A machine m is a record of the frames and the world.          *)
Machine == [frames |-> frames, world |-> world]
Top(m) == m.frames[Len(m.frames)]
Local(m, l) == Top(m).store[l]
StepTo(m, step) ==
  CASE step[1] = "field" -> step[2]
    [] step[1] = "variant" -> step[3]
    [] step[1] = "constant" -> step[2] + 1
    [] OTHER -> Local(m, step[2]).variant + 1
Address(m, place) ==
  LET path == [i \in DOMAIN place.path |-> StepTo(m, place.path[i])]
      held == Local(m, place.local)
  IN  IF IsPointer(body, place.local) THEN [held EXCEPT !.path = @ \o path]
      ELSE Pointer(Len(m.frames), place.local, path)
Stored_(m, p) == PartAt(m.frames[p.frame].store[p.local], p.path)
StoreAt(m, p, v) == [m EXCEPT !.frames[p.frame].store[p.local] = WithPart(@, p.path, v)]
Content(m, place) == Stored_(m, Address(m, place))
SetLocal(m, l, v) == [m EXCEPT !.frames[Len(m.frames)].store[l] = v]
ReleaseLocal(m, l) ==
  IF IsPointer(body, l) \/ ~ IsEntity(body.locals[l].ty) THEN m
  ELSE SetLocal([m EXCEPT !.world = Gone(@, Local(m, l))], l, Hole)
ReleaseLocals(m, ls) == FoldLeft(ReleaseLocal, m, ls)

(* An operand as an owned value: a moved place is left empty.              *)
OwnedValue(m, o) ==
  CASE o.gives = "constant" -> Yield(m @@ [value |-> 0], o.constant)
    [] o.gives = "borrowed" -> Yield(m @@ [value |-> 0], Local(m, o.place.local))
    [] OTHER ->
         LET v == Content(m, o.place)
         IN  Yield((IF o.gives = "move" THEN StoreAt(m, Address(m, o.place), Hole) ELSE m) @@ [value |-> 0], v)
AllOwned(m, operands) ==
  FoldLeft(LAMBDA n, o : LET v == OwnedValue(n, o) IN Yield(v, Append(n.value, v.value)),
           m @@ [value |-> <<>>], operands)
ReadWhere(m, o) == IF o.gives = "constant" THEN o.constant ELSE Content(m, o.place)
Looked(m, v) == IF v.ty = "pointer" THEN Stored_(m, v) ELSE v

Computed(v, a, b) ==
  LET x == a.variant
      y == b.variant
  IN  CASE v.operator = "equal" -> Truth(x = y)
        [] v.operator = "less" -> Truth(x < y)
        [] v.operator = "at_most" -> Truth(x <= y)
        [] v.operator = "and" -> Truth(x = 1 /\ y = 1)
        [] v.operator = "add" -> IF x + y > MaxInt THEN Value("panic", 0, 0, <<>>) ELSE Scalar("Int", x + y)
AsksOutside(m, callee, passed, ty) ==
  LET looked == [i \in DOMAIN passed |-> Looked(m, passed[i])]
      lent == SelectSeq([i \in DOMAIN passed |-> i], LAMBDA i : passed[i].ty = "pointer")
      given == SelectSeq([i \in DOMAIN passed |-> i], LAMBDA i : passed[i].ty # "pointer")
      answer == Outside(m.world, callee, [i \in DOMAIN lent |-> looked[lent[i]]],
                        [i \in DOMAIN given |-> looked[given[i]]], ty)
  IN  Yield([m EXCEPT !.world = answer.world], answer.value)
(* The value of a right side, in a machine that has a value.               *)
ValueOf(m, v) ==
  LET taken == AllOwned(m, v.operands)
      receiver == Address(m, v.place)
      held == Stored_(m, receiver)
      elements == Content(m, v.place)
      position == Local(m, v.position)
  IN  CASE v.is = "use" -> OwnedValue(m, v.operands[1])
        [] v.is = "binary" -> Yield(taken, Computed(v, ReadWhere(m, v.operands[1]), ReadWhere(m, v.operands[2])))
        [] v.is = "combine" -> Yield(taken, Value(v.ty, 0, v.variant, taken.value))
        [] v.is = "discriminant" -> Yield(taken, Scalar("Int", held.variant))
        [] v.is = "length" -> Yield(taken, Scalar("Int", Len(held.parts)))
        [] v.is = "occupied" -> Yield(taken, Truth(held.parts[position.variant + 1] # Hole))
        [] v.is = "take" ->
             LET slot == [receiver EXCEPT !.path = Append(@, position.variant + 1)]
                 element == Stored_(m, slot)
             IN  Yield(StoreAt(taken, slot, Hole),
                       IF IsMap(held.ty) THEN MapEntry_(position.variant + 1, element) ELSE element)
        [] v.is = "builtin" /\ v.method = "remove" ->   \* it leaves a gap
             LET slot == [receiver EXCEPT !.path = Append(@, taken.value[1].variant + 1)]
             IN  Yield(StoreAt(taken, slot, Hole), Found(Stored_(m, slot)))
        [] v.is = "builtin" /\ v.method = "count" -> Yield(taken, Scalar("Int", Len(Present(held))))
        [] v.is = "builtin" /\ v.method = "push" ->
             Yield(StoreAt(taken, receiver, [held EXCEPT !.parts = @ \o taken.value]), Scalar("Unit", 0))
        [] v.is = "glue" ->
             LET read == [i \in DOMAIN v.operands |-> ReadWhere(m, v.operands[i])]
                 answer == Outside(m.world, v.operation, read, <<>>, v.ty)
             IN  Yield([taken EXCEPT !.world = answer.world], answer.value)
        [] v.is = "call" -> AsksOutside(taken, v.callee, taken.value, v.ty)
-----------------------------------------------------------------------------
(* The steps of the running program.                                       *)
Running == phase = "running"
Code == body.statements[Top(Machine).block]
AtStatement(do) == Running /\ Top(Machine).at \in DOMAIN Code /\ Code[Top(Machine).at].do = do
AtEnd(go) == Running /\ Top(Machine).at > Len(Code) /\ body.terminators[Top(Machine).block].go = go
This == Code[Top(Machine).at]
CallsItself(s) == s.value.is = "call" /\ s.value.callee = "self"
Becomes(m) ==
  /\ frames' = m.frames /\ world' = m.world
  /\ phase' = IF m.world.stopped THEN "stopped" ELSE "running"
Advanced(m) == [m EXCEPT !.frames[Len(m.frames)].at = @ + 1]
Jumped(m, b) == [m EXCEPT !.frames[Len(m.frames)].block = b, !.frames[Len(m.frames)].at = 1]
(* What the place held is released, and then the value is stored.          *)
Assigned(m, place, v) ==
  LET target == Address(m, place)
      old == Stored_(m, target)
  IN  StoreAt([m EXCEPT !.world = Gone(@, old)], target, v)

Assigns ==
  /\ AtStatement("assign") /\ ~ CallsItself(This)
  /\ LET done == ValueOf(Machine, This.value)
     IN  IF done.value.ty = "panic" THEN phase' = "panicked" /\ UNCHANGED <<frames, world>>
         ELSE IF done.world.stopped THEN Becomes(done)
         ELSE Becomes(Advanced(Assigned(done, This.to, done.value)))
  /\ UNCHANGED <<Compiling, depths>>
Binds_ ==
  /\ AtStatement("bind")
  /\ LET v == This.value
         done == AllOwned(Machine, v.operands)
         asked == AsksOutside(done, v.callee, done.value, "Unit")
         pointed == IF v.is = "ref" THEN SetLocal(Machine, This.to.local, Address(Machine, v.place))
                    ELSE SetLocal(asked, This.to.local, done.value[1])
     IN  Becomes(IF pointed.world.stopped THEN pointed ELSE Advanced(pointed))
  /\ UNCHANGED <<Compiling, depths>>
Unpacks ==
  /\ AtStatement("unpack")
  /\ LET TakeOne(m, pair) ==
           LET v == OwnedValue(m, Move(pair[2])) IN SetLocal(v, pair[1], v.value)
     IN  Becomes(Advanced(FoldLeft(TakeOne, Machine, This.taken)))
  /\ UNCHANGED <<Compiling, depths>>
Releases ==
  /\ AtStatement("release")
  /\ Becomes(Advanced(ReleaseLocal(Machine, This.local)))
  /\ UNCHANGED <<Compiling, depths>>
Keeps ==
  /\ AtStatement("keep")
  /\ Becomes(Advanced(Machine))
  /\ UNCHANGED <<Compiling, depths>>

(* A start of the function is seen, and uses up an answer.                 *)
Started(m, passed) ==
  LET answer == Outside(m.world, "self", [i \in DOMAIN passed |-> Looked(m, passed[i])], <<>>, "Bool")
  IN  [m EXCEPT !.world = answer.world]
CallsSelf ==
  /\ AtStatement("assign") /\ CallsItself(This)
  /\ LET called == AllOwned(Machine, This.value.operands)
         started == Started(called, called.value)
     IN  IF started.world.stopped THEN Becomes(started) /\ UNCHANGED depths
         ELSE /\ Becomes([started EXCEPT !.frames = Append(@, StartFrame(body, called.value))])
              /\ depths' = Append(depths, Len(frames))
  /\ UNCHANGED Compiling
Goes ==
  /\ AtEnd("goto")
  /\ \E b \in body.terminators[Top(Machine).block].to : Becomes(Jumped(Machine, b))
  /\ UNCHANGED <<Compiling, depths>>
Branches ==
  /\ AtEnd("if")
  /\ LET t == body.terminators[Top(Machine).block]
     IN  Becomes(Jumped(Machine, IF ReadWhere(Machine, t.condition).variant = 1 THEN t.then ELSE t.otherwise))
  /\ UNCHANGED <<Compiling, depths>>
Returns ==
  /\ AtEnd("return")
  /\ LET v == Local(Machine, body.result)
         popped == [Machine EXCEPT !.frames = Front(@)]
         waiting == body.statements[Top(popped).block][Top(popped).at]
     IN  IF Len(frames) = 2 THEN phase' = "ended" /\ UNCHANGED <<frames, world>>
         ELSE Becomes(Advanced(Assigned(popped, waiting.to, v)))
  /\ UNCHANGED <<Compiling, depths>>
(* jump_to_start: the arguments are kept, the locals released, and the     *)
(* parameters set before the function starts again in the same frame.      *)
JumpsToStart ==
  /\ AtEnd("tail_call")
  /\ LET t == body.terminators[Top(Machine).block]
         kept == AllOwned(Machine, t.arguments)
         started == Started(kept, kept.value)
         released == ReleaseLocals(started, t.releases)
         set == FoldLeft(LAMBDA m, i : SetLocal(m, body.parameters[i], kept.value[i]), released,
                         [i \in DOMAIN body.parameters |-> i])
     IN  IF started.world.stopped THEN Becomes(started) /\ UNCHANGED depths
         ELSE Becomes(Jumped(set, 0)) /\ depths' = Append(depths, Len(frames) - 1)
  /\ UNCHANGED Compiling
(* vt_unreachable: the program would stop with an internal error.          *)
NoArmApplies == AtEnd("unreachable")

Run == Assigns \/ Binds_ \/ Unpacks \/ Releases \/ Keeps \/ CallsSelf \/ Goes \/ Branches \/ Returns \/ JumpsToStart
Next == LowerFunction \/ CheckMoves \/ MarkTailCalls \/ Begin \/ Run
Spec == Init /\ [][Next]_vars
-----------------------------------------------------------------------------
(* The compiler never stops with an internal error: what lowering makes,   *)
(* and what marking the tail calls leaves of it, passes the checks of      *)
(* verify.rs.  And the variables of a pattern hold nothing when they are   *)
(* bound, which no check of the compiler says.                             *)
BodiesAreValid ==
  phase \in {"lowered", "compiled"} =>
    Valid(body) /\ Analysis(LocalsByKind(body))!VariablesAreFree(Reached(body))

(* The code does what the program says, in the same order: every call of   *)
(* another function with the same arguments, every drop when it is due.    *)
(* It ends as the program ends, having released what the program releases, *)
(* and never runs into code that it cannot reach.                          *)
SameEvents ==
  LET done == phase \in {"ended", "stopped"}
  IN  /\ phase = "running" => Len(world.events) <= Len(meant.events) /\ IsPrefix(world.events, meant.events)
      /\ done => world.events = meant.events
      /\ done => (phase = "stopped") = meant.stopped
      /\ phase = "ended" => world.gone = meant.gone
      /\ ~ NoArmApplies /\ phase # "panicked"

(* A call that has nothing left to do after it starts the function again   *)
(* in its frame, whatever it releases, if what has a drop was moved away   *)
(* as a whole before it.                                                   *)
Within(bounds) == \A i \in DOMAIN depths : i \in DOMAIN bounds => depths[i] <= bounds[i]
StackKeepsSmall == Within([i \in DOMAIN meant.depths |-> meant.depths[i].any])

(* docs/lang-spec/type-system.md: a call is a tail call if no local can    *)
(* still hold a value with a drop, values that have moved away not counted.*)
TailCallsDoNotGrow == Within([i \in DOMAIN meant.depths |-> meant.depths[i].rest])
===============================================================================
