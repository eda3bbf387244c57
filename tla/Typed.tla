--------------------------------- MODULE Typed ---------------------------------
(***************************************************************************)
(* Checked functions (typed.rs), over a few types: what lowering is given, *)
(* and what the language says a function does.  A local is a number; an    *)
(* expression has its kind, `is`, and its type, `ty`.  A value has a type,  *)
(* the identity of an entity, the number it is (of a scalar) or of its     *)
(* variant, and its parts.                                                 *)
(*                                                                         *)
(* Entities are Door, which implements Drop, Text, which has no drop, the  *)
(* pairs and options of doors, lists of doors, and Rooms, maps from Int to *)
(* Door, with their entries, which are tuples.  The parts of a map are its *)
(* doors by position; a map is made with the keys 0 and 1 in this order,   *)
(* and nothing inserts, so the key of an entry is the number of its        *)
(* position.                                                               *)
(***************************************************************************)
EXTENDS Integers, Sequences, FiniteSets, SequencesExt, TLC

IsEntity(ty) == ty \in {"Door", "Text", "Pair", "Option", "Doors", "Rooms", "Entry"}
IsMap(ty) == ty = "Rooms"
RunsDrop(ty) == IsEntity(ty) /\ ty # "Text"
(* The types of the parts of each variant; a list has elements instead.    *)
VariantTypes(ty) ==
  CASE ty = "Pair" -> << <<"Door", "Door">> >>
    [] ty = "Option" -> << <<>>, <<"Door">> >>
    [] ty = "Entry" -> << <<"Int", "Door">> >>
    [] ty = "Range" -> << <<"Int", "Int", "Bool">> >>
    [] OTHER -> << <<>> >>
ElementType(ty) == "Door"
TakenType(ty) == IF IsMap(ty) THEN "Entry" ELSE ElementType(ty)   \* what a loop takes
Value(ty, id, variant, parts) == [ty |-> ty, id |-> id, variant |-> variant, parts |-> parts]
Scalar(ty, n) == Value(ty, 0, n, <<>>)

(* Places of the program; an index is an expression, `call` is empty or    *)
(* the call whose result points at the place.                              *)
At(local, path) == [local |-> local, path |-> path, call |-> <<>>]
ThroughCall(local, path, call) == [local |-> local, path |-> path, call |-> <<call>>]

Lit(ty, value) == [is |-> "constant", ty |-> ty, value |-> value]
UnitValue == Lit("Unit", 0)
Read(place, ty) == [is |-> "place", ty |-> ty, place |-> place]
FieldOf(base, field, ty) == [is |-> "field", ty |-> ty, base |-> base, field |-> field]
CallOf(callee, ty, arguments) == [is |-> "call", ty |-> ty, callee |-> callee, arguments |-> arguments]
Build(ty, variant, fields) == [is |-> "build", ty |-> ty, variant |-> variant, fields |-> fields]
Update(ty, base, fields) == [is |-> "update", ty |-> ty, base |-> base, fields |-> fields]
Compare(left, right) == [is |-> "compare", ty |-> "Bool", left |-> left, right |-> right]
AndAlso(left, right) == [is |-> "and", ty |-> "Bool", left |-> left, right |-> right]
OrElse(left, right) == [is |-> "or", ty |-> "Bool", left |-> left, right |-> right]
(* A built-in method of the receiver, which is a place or a value.         *)
Method(name, receiver, arguments, ty) ==
  [is |-> "method", ty |-> ty, method |-> name, receiver |-> receiver, arguments |-> arguments]
Lend(place, ty) == [is |-> "borrow", ty |-> ty, place |-> place]
LendValue(value) == [is |-> "borrow_value", ty |-> value.ty, value |-> value]
When(condition, then, ty) == [is |-> "if", ty |-> ty, condition |-> condition, then |-> then, otherwise |-> <<>>]
IfElse(condition, then, otherwise, ty) ==
  [is |-> "if", ty |-> ty, condition |-> condition, then |-> then, otherwise |-> <<otherwise>>]
Match(subject, arms, ty) == [is |-> "match", ty |-> ty, subject |-> subject, arms |-> arms]
Arm(pattern, guard, body) == [pattern |-> pattern, guard |-> guard, body |-> body]
Body(statements, tail, ty) == [is |-> "block", ty |-> ty, statements |-> statements, tail |-> tail]

Let(local, value) == [do |-> "let", local |-> local, value |-> value]
LetPattern(pattern, value) == [do |-> "let_pattern", pattern |-> pattern, value |-> value]
Store(place, value) == [do |-> "store", place |-> place, compound |-> FALSE, value |-> value]
AddTo(place, value) == [do |-> "store", place |-> place, compound |-> TRUE, value |-> value]
Do(value) == [do |-> "expression", value |-> value]
ReturnWith(value) == [do |-> "return", value |-> <<value>>]
ReturnUnit == [do |-> "return", value |-> <<>>]
Break == [do |-> "break"]
Continue == [do |-> "continue"]
While(condition, body) == [do |-> "while", condition |-> condition, body |-> body]
Loop(body) == [do |-> "loop", body |-> body]
(* `source` is "range", "range_value", "taken" or "borrowed".              *)
For(binding, source, of, body) == [do |-> "for", binding |-> binding, source |-> source, of |-> of, body |-> body]

Wildcard == [is |-> "wildcard"]
Binds(local) == [is |-> "binding", local |-> local]
Literal(value) == [is |-> "literal", value |-> value]
VariantOf(variant, fields) == [is |-> "variant", variant |-> variant, fields |-> fields]
Parts(fields) == [is |-> "tuple", fields |-> fields]
AnyOf(alternatives) == [is |-> "or", alternatives |-> alternatives]
Alternatives(pattern) == IF pattern.is = "or" THEN pattern.alternatives ELSE <<pattern>>
RECURSIVE Bindings(_)
Bindings(pattern) ==
  CASE pattern.is = "binding" -> <<pattern.local>>
    [] pattern.is \in {"variant", "tuple"} ->
         FlattenSeq([i \in DOMAIN pattern.fields |-> Bindings(pattern.fields[i])])
    [] pattern.is = "or" -> Bindings(pattern.alternatives[1])
    [] OTHER -> <<>>

(* A function: its locals, each a type and whether it is a reference.      *)
Function(parameters, locals, result, body) ==
  [parameters |-> parameters, locals |-> locals, result |-> result, body |-> body]
Owned(ty) == [ty |-> ty, reference |-> FALSE]
Pointing(ty) == [ty |-> ty, reference |-> TRUE]
===============================================================================
