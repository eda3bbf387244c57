----------------------------- MODULE Exhaustive -----------------------------
(***************************************************************************)
(* Exhaustiveness of patterns (exhaustive.rs): Maranget's usefulness       *)
(* algorithm on rows of patterns, one column for each type.  Constructors  *)
(* are numbered from 1; a result is empty, or holds the one witness found. *)
(***************************************************************************)
EXTENDS TypeTable, FiniteSets

Pattern(kind, id, parts) == [kind |-> kind, id |-> id, parts |-> parts]
Wildcard == Pattern("Wildcard", 0, <<>>)

IsWild(pattern) == pattern.kind \in {"Wildcard", "Binding"}

IsClosed(ty) == ty.kind \in {"Bool", "Unit", "Tuple", "Never"} \/ IsEnum(ty)
Constructors(ty) ==
  CASE ty.kind = "Bool" -> 1 .. 2
    [] ty.kind \in {"Unit", "Tuple"} -> {1}
    [] OTHER -> DOMAIN Variants(ty)

FieldTypes(ty, constructor) ==
  CASE ty.kind = "Tuple" -> ty.parts
    [] ty.kind = "Nominal" -> Variants(ty)[constructor]
    [] OTHER -> <<>>

(* Only the constructors that can make a value need covering.              *)
EveryConstructor(ty) == Constructors(ty)     \* a bug: those without values too
Possible(ty) == {c \in Constructors(ty) : \A f \in DOMAIN FieldTypes(ty, c) : IsInhabited(FieldTypes(ty, c)[f])}

(* Or-patterns in the first column become rows of their own.               *)
RECURSIVE Expand(_)
Expand(row) ==
  IF row[1].kind # "Or" THEN <<row>>
  ELSE FlattenSeq(Each(row[1].parts, LAMBDA option : Expand(<<option>> \o Tail(row))))

(* The constructor that the first pattern of a row names, 0 for none.      *)
Head1(row) ==
  CASE row[1].kind = "Bool" -> row[1].id
    [] row[1].kind = "Tuple" -> 1
    [] row[1].kind = "Variant" -> row[1].id
    [] OTHER -> 0

(* A row with the fields of the constructor in place of its first pattern; *)
(* fields that a variant's pattern does not name are wildcards.            *)
Specialize(row, arity) ==
  [f \in 1 .. arity |-> IF f \in DOMAIN row[1].parts THEN row[1].parts[f] ELSE Wildcard] \o Tail(row)

Describe(ty, constructor, arguments) ==
  CASE ty.kind = "Bool" -> Pattern("Bool", constructor, <<>>)
    [] ty.kind \in {"Unit", "Tuple"} -> Pattern("Tuple", 0, arguments)
    [] ty.kind = "Nominal" -> Pattern("Variant", constructor, arguments)
    [] OTHER -> Wildcard

First(S) == CHOOSE c \in S : \A d \in S : c <= d
Wildcards(n) == [i \in 1 .. n |-> Wildcard]

(* Patterns, one for each column, of values that no row matches.           *)
RECURSIVE Useful(_, _)
Useful(rows, types) ==
  IF types = <<>> THEN (IF rows = <<>> THEN {<<>>} ELSE {})
  ELSE
    LET ty == types[1]
        expanded == FlattenSeq(Each(rows, Expand))
        present == {Head1(row) : row \in ToSet(expanded)}
        Inside(c) ==
          LET fields == FieldTypes(ty, c)
              matching == SelectSeq(expanded, LAMBDA row : IsWild(row[1]) \/ Head1(row) = c)
          IN  {<<Describe(ty, c, SubSeq(w, 1, Len(fields)))>> \o SubSeq(w, Len(fields) + 1, Len(w)) :
                 w \in Useful(Each(matching, LAMBDA row : Specialize(row, Len(fields))),
                              fields \o Tail(types))}
        Default ==
          LET wild == SelectSeq(expanded, LAMBDA row : IsWild(row[1]))
              unnamed == IF IsClosed(ty) THEN Possible(ty) \ present ELSE {}
              head == IF unnamed = {} THEN Wildcard
                      ELSE LET c == First(unnamed) IN Describe(ty, c, Wildcards(Len(FieldTypes(ty, c))))
          IN  {<<head>> \o w : w \in Useful(Each(wild, Tail), Tail(types))}
    IN  IF IsClosed(ty) /\ Possible(ty) \subseteq present
        THEN LET missed == {c \in Possible(ty) : Inside(c) # {}}
             IN  IF missed = {} THEN {} ELSE Inside(First(missed))
        ELSE Default

(* A value of the type, written as a pattern, that no pattern matches.     *)
Missing(patterns, ty) ==
  {w[1] : w \in Useful(Each(patterns, LAMBDA p : <<p>>), <<ty>>)}
-----------------------------------------------------------------------------
(* The reference: the values of a type and what patterns match.  A value   *)
(* is a constructor and its fields; of Int there are the literals 1 and 2  *)
(* and one number more for all others.                                     *)
RECURSIVE Values(_)
Values(ty) ==
  LET Built(c, fields) ==
        {[constructor |-> c, fields |-> f] :
           f \in {g \in [DOMAIN fields -> UNION {Values(fields[i]) : i \in DOMAIN fields}] :
                    \A i \in DOMAIN fields : g[i] \in Values(fields[i])}}
  IN  CASE ty.kind = "Int" -> {[constructor |-> n, fields |-> <<>>] : n \in 1 .. 3}
        [] ty.kind = "Nominal" -> UNION {Built(v, Variants(ty)[v]) : v \in DOMAIN Variants(ty)}
        [] ty.kind \in {"List", "Param"} -> {[constructor |-> 1, fields |-> <<>>]}
        [] OTHER -> UNION {Built(c, FieldTypes(ty, c)) : c \in Constructors(ty)}

RECURSIVE Matches(_, _)
Matches(value, pattern) ==
  CASE IsWild(pattern) -> TRUE
    [] pattern.kind = "Or" -> \E i \in DOMAIN pattern.parts : Matches(value, pattern.parts[i])
    [] pattern.kind \in {"Int", "Bool"} -> value.constructor = pattern.id
    [] OTHER -> /\ pattern.kind = "Variant" => value.constructor = pattern.id
                /\ \A f \in DOMAIN pattern.parts : Matches(value.fields[f], pattern.parts[f])

Unmatched(patterns, ty) == {v \in Values(ty) : \A i \in DOMAIN patterns : ~ Matches(v, patterns[i])}
===============================================================================
