------------------------------ MODULE Instances ------------------------------
(***************************************************************************)
(* What the compiler decides of a program between its syntax and its C:    *)
(* bodies are checked (checker.rs), growing recursion is rejected, generic *)
(* functions are copied for each list of type arguments that calls reach   *)
(* (mono.rs), and no hand-written drop may print (capabilities.rs).  Of a  *)
(* body only its matches, calls and operations that run hand-written impls *)
(* are kept, as steps in order.                                            *)
(***************************************************************************)
EXTENDS Exhaustive

CONSTANTS Programs,       \* a sequence of sets of [functions, impls, written];
                          \* function 1 is main
          MaxInstances    \* bound: instantiation is followed up to this many instances

VARIABLES program,
          phase,          \* "bodies", "recursion", "instances", "drops", "done"
          checked,        \* how many bodies are checked
          instances,      \* the functions and type arguments that calls have reached
          bodies,         \* the steps of the first of them, resolved
          written,        \* the hand-written impls, in the end by instance
          outcome

vars == <<program, phase, checked, instances, bodies, written, outcome>>

Functions == program.functions
Numbers(s) == [i \in DOMAIN s |-> i]
FirstIn(s, Test(_)) == s[First({i \in DOMAIN s : Test(s[i])})]
None(s, Test(_)) == \A i \in DOMAIN s : ~ Test(s[i])

Init ==
  /\ \E i \in DOMAIN Programs : program \in Programs[i]
  /\ phase = "bodies" /\ checked = 0
  /\ instances = <<>> /\ bodies = <<>>
  /\ written = program.written
  /\ outcome = <<"pending">>

Reject(diagnostic) ==
  /\ phase' = "done" /\ outcome' = diagnostic
  /\ UNCHANGED <<program, checked, instances, bodies, written>>
-----------------------------------------------------------------------------
(* Whether ty implements a trait inside function f: a type parameter by    *)
(* its bounds, another type by an impl or by what the compiler provides.   *)
Implements(f, ty, trait) ==
  LET bounds == Functions[f].bounds
      param == {i \in DOMAIN bounds : trait \in bounds[i]}
  IN  IF ty.kind = "Param" THEN ty.id \in param
      ELSE \/ trait = "Tr" /\ ty \in DOMAIN program.impls
           \/ trait = "Clone" /\ Clones(program.written, ty, param)
           \/ trait \in {"PartialEq", "PartialOrd"} /\ Compares(program.written, ty, trait, param)

TraitOf(operation) ==
  CASE operation = "Clone" -> "Clone" [] operation = "Order" -> "PartialOrd" [] OTHER -> "PartialEq"

(* The patterns that cover values: arms with a guard may decline.          *)
Unguarded(arms) == Each(SelectSeq(arms, LAMBDA arm : ~ arm.guard), LAMBDA arm : arm.pattern)

NotCovered(step) ==
  step.kind = "match" /\ step.ty.kind # "Never" /\ Missing(Unguarded(step.arms), step.ty) # {}
NotImplemented(f, step) ==
  \/ step.kind = "call" /\ \E i \in DOMAIN step.args : \E trait \in Functions[step.callee].bounds[i] :
                             ~ Implements(f, step.args[i], trait)
  \/ step.kind = "trait" /\ ~ Implements(f, step.ty, "Tr")
  \/ step.kind = "glue" /\ ~ Implements(f, step.ty, TraitOf(step.operation))
Wrong(f, step) == NotCovered(step) \/ NotImplemented(f, step)

(* Bodies are checked in order; the first step that is wrong is reported.  *)
CheckBody ==
  /\ phase = "bodies" /\ checked < Len(Functions)
  /\ LET f == checked + 1
         steps == Functions[f].steps
     IN  IF None(steps, LAMBDA s : Wrong(f, s))
         THEN /\ checked' = f
              /\ UNCHANGED <<program, phase, instances, bodies, written, outcome>>
         ELSE LET step == FirstIn(steps, LAMBDA s : Wrong(f, s))
              IN  Reject(IF NotCovered(step)
                         THEN <<"not exhaustive", step, CHOOSE w \in Missing(Unguarded(step.arms), step.ty) : TRUE>>
                         ELSE <<"not implemented">>)

BodiesChecked ==
  /\ phase = "bodies" /\ checked = Len(Functions)
  /\ phase' = "recursion"
  /\ UNCHANGED <<program, checked, instances, bodies, written, outcome>>
-----------------------------------------------------------------------------
NamedCalls(f) == SelectSeq(Functions[f].steps, LAMBDA step : step.kind = "call")
Edges(f) == [i \in DOMAIN NamedCalls(f) |-> NamedCalls(f)[i].callee]

(* Tarjan's algorithm.  An index is 0 until its node is visited; `next` is *)
(* the next index.                                                         *)
Lower(s, node, with) == [s EXCEPT !.low[node] = IF with < @ THEN with ELSE @]
RECURSIVE Visit(_, _)
Visit(s, node) ==
  LET entered == [s EXCEPT !.index[node] = s.next, !.low[node] = s.next, !.next = @ + 1,
                           !.stack = Append(@, node)]
      Follow(t, next) ==
        IF t.index[next] = 0 THEN LET u == Visit(t, next) IN Lower(u, node, u.low[next])
        ELSE IF next \in ToSet(t.stack) THEN Lower(t, node, t.index[next])
        ELSE t
      left == FoldLeft(Follow, entered, Edges(node))
      start == First({i \in DOMAIN left.stack : left.stack[i] = node})
      members == ToSet(SubSeq(left.stack, start, Len(left.stack)))
  IN  IF left.low[node] # left.index[node] THEN left
      ELSE [left EXCEPT !.stack = SubSeq(@, 1, start - 1),
                        !.component = [n \in DOMAIN @ |-> IF n \in members THEN left.components ELSE @[n]],
                        !.components = @ + 1]
StronglyConnected ==
  LET zero == [n \in DOMAIN Functions |-> 0]
      begin == [index |-> zero, low |-> zero, stack |-> <<>>, component |-> zero, next |-> 1, components |-> 0]
  IN  FoldLeft(LAMBDA s, n : IF s.index[n] = 0 THEN Visit(s, n) ELSE s, begin, Numbers(Functions)).component

SameFunction(component, f, g) == f = g    \* a bug: only direct recursion counts
SameGroup(component, f, g) == component[f] = component[g]

Grows(step) == \E i \in DOMAIN step.args : IsGeneric(step.args[i]) /\ step.args[i].kind # "Param"
GrowingCalls(component) ==
  {f \in DOMAIN Functions : ~ None(NamedCalls(f), LAMBDA c : SameGroup(component, f, c.callee) /\ Grows(c))}

CheckRecursion ==
  /\ phase = "recursion"
  /\ IF GrowingCalls(StronglyConnected) # {}
     THEN Reject(<<"polymorphic recursion">>)
     ELSE /\ phase' = "instances"
          /\ LET concrete == SelectSeq(Numbers(Functions), LAMBDA f : Functions[f].bounds = <<>>)
             IN  instances' = Each(concrete, LAMBDA f : <<f, <<>>>>)
          /\ UNCHANGED <<program, checked, bodies, written, outcome>>
-----------------------------------------------------------------------------
(* The instance of a function, made if there is none yet.                  *)
Get(list, key) == IF key \in ToSet(list) THEN list ELSE Append(list, key)
IndexIn(list, key) == First({i \in DOMAIN list : list[i] = key})

Resolved(kind, callee, operation, ty) == [kind |-> kind, callee |-> callee, operation |-> operation, ty |-> ty]

(* One step of a body with `arguments` for the type parameters.  A method  *)
(* of a trait becomes that of the impl, or text if the impl is the         *)
(* compiler's (0).                                                         *)
Instantiated(list, step, arguments) ==
  LET ty == Substitute(step.ty, arguments)
      key == IF step.kind = "call" THEN <<step.callee, Each(step.args, LAMBDA a : Substitute(a, arguments))>>
             ELSE <<program.impls[ty], <<>>>>
      grown == Get(list, key)
  IN  CASE step.kind = "call" \/ (step.kind = "trait" /\ ty \in DOMAIN program.impls /\ program.impls[ty] # 0) ->
             [list |-> grown, step |-> Resolved("call", IndexIn(grown, key), step.operation, ty)]
        [] step.kind = "trait" /\ ty \notin DOMAIN program.impls ->
             [list |-> list, step |-> Resolved("no impl", 0, step.operation, ty)]
        [] step.kind = "trait" /\ ty \in DOMAIN program.impls /\ program.impls[ty] = 0 ->
             [list |-> list, step |-> Resolved("text", 0, step.operation, ty)]
        [] OTHER -> [list |-> list, step |-> Resolved(step.kind, 0, step.operation, ty)]

Instantiate ==
  /\ phase = "instances"
  /\ Len(bodies) < Len(instances) /\ Len(bodies) < MaxInstances
  /\ LET f == instances[Len(bodies) + 1][1]
         arguments == instances[Len(bodies) + 1][2]
         result == FoldLeft(LAMBDA r, step : LET made == Instantiated(r.list, step, arguments)
                                             IN  [list |-> made.list, steps |-> Append(r.steps, made.step)],
                            [list |-> instances, steps |-> <<>>], Functions[f].steps)
     IN  /\ instances' = result.list
         /\ bodies' = Append(bodies, result.steps)
  /\ UNCHANGED <<program, phase, checked, written, outcome>>

(* Hand-written impls are renumbered to their instances.                   *)
RenumberWritten ==
  /\ phase = "instances" /\ Len(bodies) = Len(instances)
  /\ phase' = "drops"
  /\ LET Renumber(f) == IF f = 0 THEN 0 ELSE IndexIn(instances, <<f, <<>>>>)
     IN  written' = [ty \in DOMAIN written |->
                       [written[ty] EXCEPT !.eq = Renumber(@), !.partialCmp = Renumber(@),
                                           !.cmp = Renumber(@), !.clone = Renumber(@), !.drop = Renumber(@)]]
  /\ UNCHANGED <<program, checked, instances, bodies, outcome>>
-----------------------------------------------------------------------------
(* What a step can reach the console by: 0 for printing, or a function.    *)
ConsoleUses(step) ==
  CASE step.kind = "print" -> {0}
    [] step.kind = "call" -> {step.callee}
    [] step.kind = "glue" -> GlueFunctions(written, step.ty, step.operation)
    [] OTHER -> {}
UsesOf(i) == UNION {ConsoleUses(bodies[i][s]) : s \in DOMAIN bodies[i]}

(* From the functions that print, back along the calls.                    *)
Console == {i \in DOMAIN bodies : 0 \in ReachedFrom(i, LAMBDA f : IF f = 0 THEN {} ELSE UsesOf(f))}

CheckDrops ==
  /\ phase = "drops"
  /\ LET drops == {written[ty].drop : ty \in DOMAIN written} \ {0}
         loud == {d \in drops : UsesOf(d) \cap (Console \cup {0}) # {}}
     IN  Reject(IF loud = {} THEN <<"accepted">> ELSE <<"console in drop", First(loud)>>)

Next == \/ CheckBody \/ BodiesChecked \/ CheckRecursion \/ Instantiate
        \/ RenumberWritten \/ CheckDrops

(* Weak fairness of Next, WF_vars(Next), with what it means for Next to be  *)
(* enabled written out: until the verdict or the bound there is a step.     *)
CanStep == phase # "done" /\ (phase = "instances" => Len(bodies) = Len(instances) \/ Len(bodies) < MaxInstances)
Fairness == []<> ~ CanStep \/ []<> <<Next>>_vars

Spec == Init /\ [][Next]_vars /\ Fairness
-----------------------------------------------------------------------------
(* The reference for drops.  What an operation on a value may run is, with *)
(* the impls that traits.md:86 and 322-330 provide for the rest, the hand- *)
(* written functions of the outermost types inside it that have one,       *)
(* elements among them; whether a list contains a value is asked of its    *)
(* elements.                                                               *)
Inside(ty) == IF ty.kind = "Nominal" THEN UNION {ToSet(fields) : fields \in ToSet(Variants(ty))} ELSE ToSet(ty.parts)
HandWritten(ty, operation) ==
  LET impls == ImplsOf(program.written, ty)
  IN  CASE operation = "Order" -> impls.partialCmp
        [] operation = "Clone" -> impls.clone
        [] operation \in {"Equal", "Contains"} -> impls.eq
MayRun(ty, operation) ==
  LET Written(t) == HandWritten(t, operation)
      Outermost(t) == ReachedFrom(t, LAMBDA u : IF Written(u) = 0 THEN Inside(u) ELSE {})
      from == IF operation = "Contains" THEN Inside(ty) ELSE {ty}
  IN  {Written(t) : t \in UNION {Outermost(t) : t \in from}} \ {0}
(* What a call of a function with type arguments may call, without         *)
(* instances.                                                              *)
Callees(call) ==
  LET Of(step) ==
        LET ty == Substitute(step.ty, call[2])
        IN  CASE step.kind = "call" -> {<<step.callee, Each(step.args, LAMBDA a : Substitute(a, call[2]))>>}
              [] step.kind = "trait" -> IF program.impls[ty] = 0 THEN {} ELSE {<<program.impls[ty], <<>>>>}
              [] step.kind = "glue" -> {<<g, <<>>>> : g \in MayRun(ty, step.operation)}
              [] OTHER -> {}
      steps == Functions[call[1]].steps
  IN  UNION {Of(steps[i]) : i \in DOMAIN steps}
Prints(f) == \E i \in DOMAIN Functions[f].steps : Functions[f].steps[i].kind = "print"
DropPrints ==
  \E ty \in DOMAIN program.written :
    /\ program.written[ty].drop # 0
    /\ \E call \in ReachedFrom(<<program.written[ty].drop, <<>>>>, Callees) : Prints(call[1])

(* Growing: along a cycle of calls by name, a type argument gets larger.   *)
CallsBack(f, g) == f \in ReachedFrom(g, LAMBDA h : ToSet(Edges(h)))
GrowsForEver ==
  \E f \in DOMAIN Functions : \E c \in ToSet(NamedCalls(f)) : Grows(c) /\ CallsBack(f, c.callee)

(* Every body checked before a wrong one is right, and the verdict is that *)
(* of the first check that fails: a match fails exactly if some value is   *)
(* matched by no unguarded arm, and the reported witness stands for such a *)
(* value; recursion only if a cycle of calls grows a type; a drop exactly  *)
(* if a call that it may make, of whatever instance, prints.               *)
Leaves(step) == step.kind = "match" /\ Unmatched(Unguarded(step.arms), step.ty) # {}
Fine(f) == None(Functions[f].steps, LAMBDA s : Leaves(s) \/ NotImplemented(f, s))
VerdictIsRight ==
  /\ \A f \in 1 .. checked : Fine(f)
  /\ outcome[1] \in {"not exhaustive", "not implemented"} => ~ Fine(checked + 1)
  /\ outcome[1] = "not exhaustive" =>
       \E v \in Unmatched(Unguarded(outcome[2].arms), outcome[2].ty) : Matches(v, outcome[3])
  /\ outcome[1] = "polymorphic recursion" => GrowsForEver
  /\ outcome[1] = "console in drop" => DropPrints
  /\ outcome[1] = "accepted" => ~ DropPrints

(* Bounds are checked once in the generic function, so that every instance *)
(* of it finds its impls: each method has one, and an operation on a value *)
(* never comes to a part that it does not exist for.                       *)
Exists(impls, ty, operation) ==
  /\ ty.kind # "Param"
  /\ operation = "Equal" => impls.eq # 0 \/ ty.kind \notin {"Never", "Map", "Set", "Range"}
  /\ operation = "Order" => \/ impls.partialCmp # 0
                            \/ impls.eq = 0 /\ ty.kind \notin {"Never", "Map", "Set", "Range", "List"}
  /\ operation = "Clone" => impls.clone # 0 \/ impls.drop = 0
ImplsExist ==
  \A i \in DOMAIN bodies : \A s \in DOMAIN bodies[i] :
    LET step == bodies[i][s]
    IN  /\ step.kind # "no impl"
        /\ step.kind = "glue" => \A part \in GlueSteps(written, step.ty, step.operation) :
                                   Exists(ImplsOf(written, part[1]), part[1], part[2])

(* Every program is accepted or rejected: the worklist of instances, which *)
(* has no limit of its own, ends because recursion that grows a type       *)
(* argument was rejected before, in another pass and another file.         *)
InstantiationEnds == <>(phase = "done")
===============================================================================
