--------------------------------- MODULE Passes ---------------------------------
(***************************************************************************)
(* The passes over a lowered body: what the later ones rely on in it       *)
(* (verify.rs), the move checks of Moves for it, and the tail calls of a   *)
(* function to itself, which become jumps (tail.rs).                       *)
(***************************************************************************)
EXTENDS Lowering

----------------------------------------------------------------------------
(* Verification.                                                           *)
Nothing == "nothing"
StepType(ty, step) ==
  LET fields == IF step[1] = "field" THEN VariantTypes(ty)[1] ELSE VariantTypes(ty)[step[2]]
  IN  CASE IsIndex(step) -> IF ty = "Doors" \/ IsMap(ty) THEN ElementType(ty) ELSE Nothing
        [] step[1] = "field" -> IF step[2] \in DOMAIN fields THEN fields[step[2]] ELSE Nothing
        [] step[1] = "variant" -> IF step[3] \in DOMAIN fields THEN fields[step[3]] ELSE Nothing
PlaceType(body, place) == FoldLeft(StepType, body.locals[place.local].ty, place.path)
OperandType(body, o) == IF o.gives = "constant" THEN o.constant.ty ELSE PlaceType(body, o.place)
Fits(body, place) == place.local \in DOMAIN body.locals /\ PlaceType(body, place) # Nothing
IsPointer(body, l) == l \in DOMAIN body.locals /\ body.locals[l].reference

(* `stores` says whether the step keeps what it reads.                     *)
OperandFits(body, o, stores) ==
  CASE o.gives = "constant" -> TRUE
    [] o.gives = "copy" -> Fits(body, o.place) /\ ~ IsEntity(PlaceType(body, o.place))
    [] o.gives = "inspect" -> Fits(body, o.place) /\ ~ stores
    [] o.gives = "move" -> Fits(body, o.place)
    [] o.gives = "borrowed" -> IsPointer(body, o.place.local)
RvalueFits(body, v) ==
  /\ \A i \in DOMAIN v.operands : OperandFits(body, v.operands[i], v.is # "glue")
  /\ v.is = "binary" => ~ IsEntity(OperandType(body, v.operands[1]))
  /\ "place" \in DOMAIN v => Fits(body, v.place)
StatementFits(body, s) ==
  CASE s.do = "assign" -> Fits(body, s.to) /\ ~ IsBorrow(s.value) /\ RvalueFits(body, s.value)
    [] s.do = "bind" -> IsPointer(body, s.to.local) /\ IsBorrow(s.value) /\ RvalueFits(body, s.value)
    [] s.do = "unpack" ->
         \A i \in DOMAIN s.taken :
           LET target == body.locals[s.taken[i][1]]
           IN  ~ target.reference /\ Fits(body, s.taken[i][2]) /\ PlaceType(body, s.taken[i][2]) = target.ty
    [] s.do = "release" -> s.local \in DOMAIN body.locals
    [] s.do = "keep" -> IsPointer(body, s.local)
TerminatorFits(body, t) ==
  /\ t.to \subseteq Blocks(body)
  /\ t.go = "if" => OperandType(body, t.condition) = "Bool"
  /\ t.go = "tail_call" => \A i \in DOMAIN t.arguments : OperandFits(body, t.arguments[i], TRUE)
WellFormed(body) ==
  \A b \in Blocks(body) :
    /\ \A i \in DOMAIN body.statements[b] : StatementFits(body, body.statements[b][i])
    /\ TerminatorFits(body, body.terminators[b])

(* The analyses of Moves for one body, of which they see what is reached.  *)
Reached(body) ==
  LET blocks == Settle(LAMBDA reached : reached \cup UNION {Successors(body, b) : b \in reached}, {0})
  IN  [body EXCEPT !.statements = [b \in blocks |-> @[b]], !.terminators = [b \in blocks |-> @[b]]]
(* The locals of a body, by what the analyses ask of them.                 *)
LocalsByKind(body) ==
  LET all == DOMAIN body.locals
  IN  [all |-> all,
       references |-> {l \in all : body.locals[l].reference},
       temporaries |-> {l \in all : body.locals[l].temporary},
       owning |-> {l \in all : IsEntity(body.locals[l].ty) /\ ~ body.locals[l].reference},
       maps |-> {l \in all : IsMap(body.locals[l].ty)},
       parameters |-> ToSet(body.parameters), result |-> body.result]
Analysis(kinds) == INSTANCE Moves WITH
  Locals <- kinds.all, References <- kinds.references, Temporaries <- kinds.temporaries, Owning <- kinds.owning,
  Maps <- kinds.maps, Dropping <- {}, Parameters <- kinds.parameters, Result <- kinds.result
MovesAreLegal(body) == Analysis(LocalsByKind(body))!MovesAccepted(Reached(body))
FilledAtStarts(body) == Analysis(LocalsByKind(body))!MaybeFilled(Reached(body))
(* verify, but for the panic.                                              *)
Valid(body) == WellFormed(body) /\ Analysis(LocalsByKind(body))!Released(Reached(body))

----------------------------------------------------------------------------
(* Tail calls.                                                             *)
StatementsOf(body) == UNION {ToSet(body.statements[b]) : b \in Blocks(body)}
Definitions(body, r) == {s.value : s \in {t \in StatementsOf(body) : t.do = "bind" /\ t.to.local = r}}
BorrowedArguments(v) == {v.operands[i].place.local : i \in {j \in DOMAIN v.operands : v.operands[j].gives = "borrowed"}}
(* The references that point only behind parameters: the greatest set in   *)
(* which every definition leads to a parameter or into the set.            *)
PointingOutside(body) ==
  LET pointers == {l \in DOMAIN body.locals : body.locals[l].reference}
      definitions == [r \in pointers |-> Definitions(body, r)]
      Leads(v, outside) == CASE v.is = "ref" -> v.place.local \in outside
                             [] v.is = "call" -> BorrowedArguments(v) \subseteq outside
      Round(outside) ==
        {r \in outside : r \in ToSet(body.parameters) \/ \A v \in definitions[r] : Leads(v, outside)}
  IN  Settle(Round, pointers)

(* The releases from statement i of block b to the return: << >> around    *)
(* the list, or nothing if the path there does something else.             *)
NoEffect(body, s) ==
  \/ s.do = "keep"
  \/ s.do = "assign" /\ s.value = Use(Constant(Scalar("Unit", 0))) /\ PlaceType(body, s.to) = "Unit"
ReleasedBy(statements) == LET released == SelectSeq(statements, LAMBDA s : s.do = "release")
                          IN  [i \in DOMAIN released |-> released[i].local]
RECURSIVE ReleasesToReturn(_, _, _, _)
ReleasesToReturn(body, b, from, seen) ==
  LET rest == SubSeq(body.statements[b], from, Len(body.statements[b]))
      t == body.terminators[b]
      next == CHOOSE c \in t.to : TRUE
      after == ReleasesToReturn(body, next, 1, seen \cup {next})
  IN  IF \E i \in DOMAIN rest : rest[i].do # "release" /\ ~ NoEffect(body, rest[i]) THEN <<>>
      ELSE IF t.go = "return" THEN <<ReleasedBy(rest)>>
      ELSE IF t.go # "goto" \/ next \in seen \/ after = <<>> THEN <<>>
      ELSE <<ReleasedBy(rest) \o after[1]>>

(* A bug: what the call itself takes is looked at before it is taken.      *)
LeavesNoDropBefore(body, start, b, i) ==
  LET filled == After(LAMBDA f, s : Analysis(LocalsByKind(body))!Fill(f, s), start, SubSeq(body.statements[b], 1, i - 1))
  IN  \A l \in filled \ {body.statements[b][i].to.local} : ~ RunsDrop(body.locals[l].ty)
(* Nothing whose drop runs is left to be released after the call.          *)
LeavesNoDrop(body, start, b, i) ==
  LET filled == After(LAMBDA f, s : Analysis(LocalsByKind(body))!Fill(f, s), start, SubSeq(body.statements[b], 1, i))
  IN  \A l \in filled \ {body.statements[b][i].to.local} : ~ RunsDrop(body.locals[l].ty)
IsSelfCall(s) == s.do \in {"assign", "bind"} /\ s.value.is = "call" /\ s.value.callee = "self"
(* << >> around the locals to release if statement i of b is a tail call.  *)
TailCallAt(body, starts, b, i) ==
  LET s == body.statements[b][i]
      ty == PlaceType(body, s.to)
      never == ty = "Never"
      releases ==
        IF never
        THEN IF i = Len(body.statements[b]) /\ body.terminators[b].go = "unreachable"
             THEN <<Reverse([l \in DOMAIN body.locals |-> l])>> ELSE <<>>
        ELSE IF s.to = Whole(body.result) \/ (ty = "Unit" /\ body.locals[body.result].ty = "Unit")
        THEN ReleasesToReturn(body, b, i + 1, {b}) ELSE <<>>
  IN  IF /\ IsSelfCall(s)
         /\ BorrowedArguments(s.value) \subseteq PointingOutside(body)
         /\ LeavesNoDrop(body, starts[b], b, i)
      THEN releases ELSE <<>>

(* mark: the first tail call of each block ends it.                        *)
MarkBlock(body, starts, b) ==
  LET calls == [i \in DOMAIN body.statements[b] |-> TailCallAt(body, starts, b, i)]
      i == SelectInSeq(calls, LAMBDA found : found # <<>>)
  IN  IF i = 0 THEN [statements |-> body.statements[b], terminator |-> body.terminators[b]]
      ELSE [statements |-> SubSeq(body.statements[b], 1, i - 1),
            terminator |-> TailCall(body.statements[b][i].value.operands, calls[i][1])]
Mark(body) ==
  LET starts == FilledAtStarts(body)
      marked == [b \in DOMAIN starts |-> MarkBlock(body, starts, b)]
      Has(b) == b \in DOMAIN starts
  IN  [body EXCEPT !.statements = [b \in DOMAIN @ |-> IF Has(b) THEN marked[b].statements ELSE @[b]],
                   !.terminators = [b \in DOMAIN @ |-> IF Has(b) THEN marked[b].terminator ELSE @[b]]]
===============================================================================
