------------------------------ MODULE TypeTable ------------------------------
(***************************************************************************)
(* The types of a checked program (types.rs), as terms: a kind, the number *)
(* of the declaration or of the type parameter, and the types it is made   *)
(* of.  `written` is, for some types, the functions of their hand-written  *)
(* impls of core traits, 0 for none.                                       *)
(***************************************************************************)
EXTENDS Integers, Sequences, SequencesExt

CONSTANT Declarations   \* of structs and enums: [enum, variants], the types of each
                        \* variant's fields in the parameters of the declaration

Each(s, Of(_)) == FoldLeft(LAMBDA made, x : Append(made, Of(x)), <<>>, s)

Make(kind, id, parts) == [kind |-> kind, id |-> id, parts |-> parts]
Plain(kind)  == Make(kind, 0, <<>>)
Param(index) == Make("Param", index, <<>>)
List(ty)     == Make("List", 0, <<ty>>)
Tuple(parts) == Make("Tuple", 0, parts)
Nominal(declaration, arguments) == Make("Nominal", declaration, arguments)

RECURSIVE IsGeneric(_)
IsGeneric(ty) == ty.kind = "Param" \/ \E i \in DOMAIN ty.parts : IsGeneric(ty.parts[i])

RECURSIVE Substitute(_, _)
Substitute(ty, arguments) ==
  IF ~ IsGeneric(ty) THEN ty
  ELSE IF ty.kind = "Param" THEN arguments[ty.id]
  ELSE [ty EXCEPT !.parts = Each(@, LAMBDA part : Substitute(part, arguments))]

(* The fields of an instance are those of its template, substituted.       *)
Variants(ty) ==
  IF ty.kind # "Nominal" THEN <<>>
  ELSE Each(Declarations[ty.id].variants,
            LAMBDA fields : Each(fields, LAMBDA field : Substitute(field, ty.parts)))
IsEnum(ty) == ty.kind = "Nominal" /\ Declarations[ty.id].enum

(* What is stored in a value of the type itself.                           *)
Components(ty) == IF ty.kind = "Tuple" THEN ty.parts ELSE FlattenSeq(Variants(ty))

(* Everything a search reaches from `start`, each thing looked at once.    *)
ReachedFrom(start, Into(_)) ==
  LET RECURSIVE Grow(_)
      Grow(seen) == LET more == seen \cup UNION {Into(step) : step \in seen}
                    IN  IF more = seen THEN seen ELSE Grow(more)
  IN  Grow({start})

ContainsByValue(ty) ==
  \E part \in ToSet(Components(ty)) : ty \in ReachedFrom(part, LAMBDA t : ToSet(Components(t)))

(* A declaration that contains itself by value is rejected.                *)
ASSUME SizeAssumption ==
  \A d \in DOMAIN Declarations : ~ ContainsByValue(Nominal(d, <<Param(1)>>))

RECURSIVE IsInhabited(_)
IsInhabited(ty) ==
  LET All(parts) == \A i \in DOMAIN parts : IsInhabited(parts[i])
  IN  /\ ty.kind # "Never"
      /\ ty.kind = "Tuple" => All(ty.parts)
      /\ ty.kind = "Nominal" => \E v \in DOMAIN Variants(ty) : All(Variants(ty)[v])
-----------------------------------------------------------------------------
(* Whether a search from ty finds a type that `Found` holds of; it does    *)
(* not look into what `Stops` holds of.                                    *)
Finds(ty, Found(_), Stops(_), Into(_)) ==
  \E t \in ReachedFrom(ty, LAMBDA s : IF Stops(s) THEN {} ELSE Into(s)) : Found(t)

NoImpls == [eq |-> 0, totalEq |-> FALSE, partialCmp |-> 0, cmp |-> 0, clone |-> 0, drop |-> 0]
ImplsOf(written, ty) == IF ty \in DOMAIN written THEN written[ty] ELSE NoImpls

(* A hand-written impl of the comparison itself, and one that it must      *)
(* agree with, which takes the place of the compiler's.                    *)
Own(impls, comparison) ==
  CASE comparison = "PartialEq" -> impls.eq # 0
    [] comparison = "Eq" -> impls.totalEq
    [] comparison = "PartialOrd" -> impls.partialCmp # 0
    [] comparison = "Ord" -> impls.cmp # 0
Overriding(impls, comparison) ==
  \/ comparison # "PartialEq" /\ impls.eq # 0
  \/ comparison = "Ord" /\ impls.partialCmp # 0

Compares(written, ty, comparison, param) ==
  LET ordered == comparison \in {"PartialOrd", "Ord"}
      Decided(t) == LET impls == ImplsOf(written, t)
                    IN  Own(impls, comparison) \/ Overriding(impls, comparison)
      Fails(t) ==
        IF Decided(t) THEN ~ Own(ImplsOf(written, t), comparison)
        ELSE \/ t.kind \in {"Never", "Map", "Set", "Range"}
             \/ t.kind = "Float" /\ comparison \in {"Eq", "Ord"}
             \/ t.kind = "Param" /\ t.id \notin param
             \/ t.kind = "List" /\ ordered
  IN  ~ Finds(ty, Fails, LAMBDA t : Decided(t) \/ Fails(t),
              LAMBDA t : IF t.kind = "List" THEN {t.parts[1]} ELSE ToSet(Components(t)))

(* How the compiler carries out an operation: the hand-written function,   *)
(* or the same or another operation on parts of the value.                 *)
Glue(written, ty, operation) ==
  LET impls == ImplsOf(written, ty)
      function == CASE operation = "Equal" -> impls.eq
                    [] operation = "Order" -> impls.partialCmp
                    [] operation = "Clone" -> impls.clone
                    [] operation = "Contains" -> 0
      parts == CASE operation = "Contains" /\ ty.kind = "List" -> {<<ty.parts[1], "Equal">>}
                 [] operation # "Contains" /\ ty.kind \in {"Tuple", "Nominal"} ->
                      {<<c, operation>> : c \in ToSet(Components(ty))}
                 [] \/ operation \in {"Equal", "Clone"} /\ ty.kind = "List"
                    \/ operation = "Clone" /\ ty.kind \in {"Set", "Map"} ->
                      {<<p, operation>> : p \in ToSet(ty.parts)}
                 [] OTHER -> {}
  IN  [function |-> function, parts |-> IF function # 0 THEN {} ELSE parts]

(* The operations on parts that an operation on a value may run, and the   *)
(* hand-written functions among them.                                      *)
GlueSteps(written, ty, operation) ==
  ReachedFrom(<<ty, operation>>, LAMBDA step : Glue(written, step[1], step[2]).parts)
GlueFunctions(written, ty, operation) ==
  {Glue(written, step[1], step[2]).function : step \in GlueSteps(written, ty, operation)} \ {0}

(* A bug: a type that must run a drop of its own is cloned part by part.   *)
ClonesAnything(written, ty, param) ==
  ~ Finds(ty, LAMBDA t : t.kind = "Param" /\ t.id \notin param,
          LAMBDA t : ImplsOf(written, t).clone # 0,
          LAMBDA t : {part[1] : part \in Glue(written, t, "Clone").parts})
Clones(written, ty, param) ==
  ~ Finds(ty, LAMBDA t : \/ ImplsOf(written, t).clone = 0 /\ ImplsOf(written, t).drop # 0
                         \/ t.kind = "Param" /\ t.id \notin param,
          LAMBDA t : ImplsOf(written, t).clone # 0,
          LAMBDA t : {part[1] : part \in Glue(written, t, "Clone").parts})
===============================================================================
