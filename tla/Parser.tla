------------------------------- MODULE Parser -------------------------------
(***************************************************************************)
(* The productions of parser.rs, each named after the function it is, and  *)
(* the machine that runs them.  Rules that refer to each other do so by    *)
(* name through Rules, whose value is ParserRules.                         *)
(***************************************************************************)
EXTENDS ParseSteps

CONSTANT Rules \* the productions, by name

Expr == Do("expr")
ControlHead == Do("head")
TypeExpr == Do("type")
Pattern == Do("pattern")
Block == Do("block")

-----------------------------------------------------------------------------
(* Paths, types and effects.                                               *)
PathSegment == First(<<<<At({"super"}), Take>>>>, Name)
Path == Seq2(<<PathSegment, Loop(<<On("::", PathSegment)>>)>>)
\* The path of a use ends before the braces of its items.
MoreUsePath ==
    First(<< <<AtThen("::", {"{"}), Nothing>>,
             On("::", Seq2(<<PathSegment, Do("usePath")>>)) >>, Nothing)
UsePath == Seq2(<<PathSegment, Do("usePath")>>)

Borrow == Maybe("&", Eat("mut"))

TypeArgument ==
    If(AtThen("Ident", {"="}), Seq2(<<Name, Expect("="), TypeExpr>>), TypeExpr)
TypeArguments ==
    Maybe("<", Enter(FALSE, Seq2(<<List(">", TypeArgument, TypeArgument), Expect(">")>>)))
NamedType == Seq2(<<Path, TypeArguments>>)

Bound == Node("Bound", NamedType)
Bounds == Seq2(<<Bound, Loop(<<On("+", Bound)>>)>>)
TypeParameter == Seq2(<<Name, Maybe(":", Bounds)>>)
TypeParameters ==
    Maybe("<", Enter(FALSE, Seq2(<<List(">", TypeParameter, TypeParameter), Expect(">")>>)))

\* Once an effect parameter has been seen only effect parameters may follow.
EffectParameter == Seq2(<<Expect("effect"), Name>>)
EffectParameters == List(">", EffectParameter, EffectParameter)
MoreCallableParameters ==
    If(At({"effect"}), EffectParameters,
       Seq2(<<TypeParameter,
              Maybe(",", If(At({">"}), Nothing, Do("callableParameters")))>>))
CallableParameters ==
    Maybe("<", Enter(FALSE, Seq2(<<Do("callableParameters"), Expect(">")>>)))

EffectArgument == Seq2(<<Expect("effect"), Do("effects")>>)
MoreEffectArguments ==
    Maybe(",", First(<< <<At({">"}), Nothing>>,
                        <<At({"effect"}), List(">", EffectArgument, EffectArgument)>> >>,
                     Seq2(<<TypeExpr, Do("effectArguments")>>)))
EffectApplication ==
    Maybe("<", Enter(FALSE, Seq2(<<TypeExpr, Do("effectArguments"), Expect(">")>>)))
EffectExpr ==
    First(<<On("unsafe", Nothing)>>, Seq2(<<Path, EffectApplication>>))
EffectSet == Node("Effects", Within("{", "}", ListOrNone("}", EffectExpr)))

ReturnType == Maybe("->", Seq2(<<Borrow, TypeExpr>>))
WithEffects == Maybe("with", Do("effects"))

FunctionTypeParameter == Seq2(<<Borrow, TypeExpr>>)
FunctionType ==
    Seq2(<<Expect("fn"), Within("(", ")", ListOrNone(")", FunctionTypeParameter)),
           ReturnType, WithEffects>>)
ParenthesizedType ==
    Within("(", ")", Seq2(<<TypeExpr, Maybe(",", List(")", TypeExpr, TypeExpr))>>))
TypeLevel ==
    Nested(Node("Type",
        First(<< <<At({"("}), ParenthesizedType>>,
                 <<At({"fn"}), FunctionType>>,
                 <<At({"Ident", "super"}), NamedType>> >>, Fail)))

-----------------------------------------------------------------------------
(* Parameters.  A context says whether types are required, a receiver is   *)
(* allowed and a mode may be written.                                      *)
ParameterContexts == {"Function", "Fixed", "Closure", "Handler"}

TypedParameter(context) ==
    Seq2(<<Name,
           First(<<On(":", Seq2(<<IF context = "Handler" THEN Nothing ELSE Borrow, TypeExpr>>))>>,
                 IF context \in {"Closure", "Handler"} THEN Nothing ELSE Fail)>>)
Parameter(context) ==
    IF context \in {"Function", "Closure"}
    THEN Seq2(<<Eat("mut"), TypedParameter(context)>>) ELSE TypedParameter(context)
Receiver ==
    If(At({"&"}), Seq2(<<Borrow, Expect("self")>>),
       Seq2(<<Eat("mut"), If(At({"self"}), Take, TypedParameter("Function"))>>))
Parameters(context) ==
    Within("(", ")",
        If(At({")"}), Nothing,
           List(")", IF context = "Function" THEN Receiver ELSE Parameter(context),
                Parameter(context))))

-----------------------------------------------------------------------------
(* Patterns.                                                               *)
FieldPattern == Seq2(<<Name, Maybe(":", Pattern)>>)
FieldPatterns ==
    Seq2(<<FieldPattern,
           Maybe(",", First(<<On("..", Eat(",")), <<At({"}"}), Nothing>>>>, Do("fieldPatterns")))>>)
NamedPatternBody ==
    Seq2(<<Take,
           Enter(FALSE, Seq2(<<First(<<On("..", Eat(",")), <<At({"}"}), Nothing>>>>,
                                     Do("fieldPatterns")),
                               Expect("}")>>))>>)
PathPattern ==
    Seq2(<<Path,
           First(<< On("(", Enter(FALSE, Seq2(<<List(")", Pattern, Pattern), Expect(")")>>))),
                    <<OnThisLine({"{"}), NamedPatternBody>> >>, Nothing)>>)
TuplePattern ==
    Within("(", ")", Seq2(<<Pattern, Expect(","), List(")", Pattern, Pattern)>>))
PatternLevel ==
    Nested(Node("Pattern",
        First(<< <<At({"Integer", "Float", "String", "true", "false"}), Take>>,
                 <<At({"Ident", "super"}), PathPattern>>,
                 <<At({"("}), TuplePattern>> >>, Fail)))
OrPattern == Seq2(<<Pattern, Loop(<<On("|", Pattern)>>)>>)

-----------------------------------------------------------------------------
(* Expressions.  `named` says whether a path may start a construction,     *)
(* which it may not in the head of if, while, for and match.               *)
Arguments == Within("(", ")", ListOrNone(")", Expr))
IndexBrackets == Within("[", "]", Expr)

MatchArm == Node("Arm", Seq2(<<OrPattern, Maybe("if", Expr), Expect("=>"), Expr>>))
MatchBody == Sequence(",", MatchArm)

ExprWith(named) ==
    Seq2(<<BinaryFrom(named, 1), While(At({"catch"}), Around("Catch", Seq2(<<Take, MatchBody>>)))>>)

Unary(named) == Do(IF named THEN "unary" ELSE "headUnary")
UnaryLevel(named) ==
    Nested(First(<< <<At({"&"}), Node("Borrow", Seq2(<<Borrow, Unary(named)>>))>>,
                    <<At({"-", "!"}), Node("Unary", Seq2(<<Take, Unary(named)>>))>> >>,
                 Seq2(<<Do(IF named THEN "primary" ELSE "headPrimary"), Do("postfix")>>)))

Member ==
    Seq2(<<Take,
           If(At({"Integer"}), Around("TupleField", Take),
              Seq2(<<Name, If(OnThisLine({"("}), Around("MethodCall", Arguments),
                              Around("Field", Nothing))>>))>>)
PostfixTail ==
    Loop(<< <<OnThisLine({"("}), Around("Call", Arguments)>>,
            <<OnThisLine({"["}), Around("Index", IndexBrackets)>>,
            <<At({"."}), Member>> >>)

ConstructField == Seq2(<<Name, Maybe(":", Expr)>>)
ConstructFields == List("}", ConstructField, ConstructField)
Unless(closer, body) == If(At({closer}), Nothing, body)
ConstructBody ==
    Within("{", "}",
        If(At({".."}), Seq2(<<Take, Expr, Maybe(",", Unless("}", ConstructFields))>>),
           Unless("}", ConstructFields)))
PathOrConstruct(named) ==
    Seq2(<<Node("Path", Path),
           IF named THEN If(OnThisLine({"{"}), Become("Construct", ConstructBody), Nothing)
           ELSE Nothing>>)

Interpolated ==
    Seq2(<<Take, Enter(FALSE, Seq2(<<Expr, Loop(<<On("InterpolationMiddle", Expr)>>),
                                     Expect("InterpolationEnd")>>))>>)
ListLiteral == Within("[", "]", ListOrNone("]", Expr))
ParenthesizedOrTuple ==
    Within("(", ")", Unless(")", Seq2(<<Expr, Maybe(",", List(")", Expr, Expr))>>)))
BlockExpr == Node("BlockExpr", Block)
IfExpression ==
    Node("If", Seq2(<<Expect("if"), ControlHead, Block,
                      Maybe("else", If(At({"if"}), Do("if"), BlockExpr))>>))
MatchExpression == Node("Match", Seq2(<<Expect("match"), ControlHead, MatchBody>>))
Handler == Seq2(<<Path, Expect("."), Name, Parameters("Handler"), Expect("=>"), Expr>>)
HandleExpression ==
    Node("Handle", Seq2(<<Expect("handle"), Block, Expect("with"), Sequence(",", Handler)>>))
ClosureExpression ==
    Node("Closure", Seq2(<<Expect("fn"), Parameters("Closure"), ReturnType, WithEffects, Block>>))
UnsafeExpression == Node("Unsafe", Seq2(<<Expect("unsafe"), Block>>))

Literals == {"Integer", "Float", "String", "RawString", "true", "false"}
Primary(named) ==
    First(<< <<At({"Ident", "super"}), PathOrConstruct(named)>>,
             <<At(Literals), Node("Literal", Take)>>,
             <<At({"InterpolationStart"}), Node("Interpolated", Interpolated)>>,
             <<At({"["}), Node("List", ListLiteral)>>,
             <<At({"("}), Node("Group", ParenthesizedOrTuple)>>,
             <<At({"{"}), BlockExpr>>,
             <<At({"if"}), Do("if")>>,
             <<At({"match"}), MatchExpression>>,
             <<At({"handle"}), HandleExpression>>,
             <<At({"fn"}), ClosureExpression>>,
             <<At({"unsafe"}), UnsafeExpression>> >>, Fail)

-----------------------------------------------------------------------------
(* Statements and blocks.                                                  *)
ReturnStatement ==
    Seq2(<<Take, First(<< <<At({"}", ";", ",", "Eof"}), Nothing>>, <<OnThisLine({}), Expr>> >>,
                       Nothing)>>)
LetBinding ==
    If(At({"("}), Pattern,
       Seq2(<<Eat("mut"), Name, Maybe(":", Seq2(<<Borrow, TypeExpr>>))>>))
LetStatement == Seq2(<<Expect("let"), LetBinding, Expect("="), Expr>>)
IfLetStatement ==
    Seq2(<<Expect("if"), Expect("let"), Pattern, Expect("="), ControlHead, Block, Maybe("else", Block)>>)
ForBinding ==
    If(At({"("}), Within("(", ")", Seq2(<<Name, Expect(","), List(")", Name, Name)>>)), Name)
ForStatement == Seq2(<<Expect("for"), ForBinding, Expect("in"), ControlHead, Block>>)
KeywordStatement ==
    Node("Statement",
        First(<< <<At({"let"}), LetStatement>>,
                 <<At({"return"}), ReturnStatement>>,
                 <<At({"if"}), IfLetStatement>>,
                 <<At({"while"}), Seq2(<<Take, ControlHead, Block>>)>>,
                 <<At({"for"}), ForStatement>>,
                 <<At({"loop"}), Seq2(<<Take, Block>>)>> >>, Take))
AtKeywordStatement ==
    << At({"let", "return", "break", "continue", "while", "for", "loop"}), AtThen("if", {"let"}) >>

Assignment == Seq2(<<Take, TakePlace, Become("Statement", Expr)>>)
ExpressionStatement ==
    Seq2(<<Node("ExpressionStatement", Expr), If(At(AssignmentOperators), Assignment, Nothing)>>)
Statement ==
    First([k \in DOMAIN AtKeywordStatement |-> <<AtKeywordStatement[k], KeywordStatement>>],
          If(At({"Eof"}), Fail, ExpressionStatement))
BlockLevel == Nested(Node("Block", Seq2(<<Sequence(";", Statement), TakeTail>>)))

-----------------------------------------------------------------------------
(* Declarations.                                                           *)
Visibility == Eat("pub")
SignatureStart(context) == Seq2(<<Name, CallableParameters, Parameters(context), ReturnType>>)
Signature(context) == Seq2(<<SignatureStart(context), WithEffects>>)
FunctionDeclaration == Seq2(<<Signature("Function"), Block>>)

StructField == Seq2(<<Visibility, Name, Expect(":"), TypeExpr>>)
StructDeclaration ==
    Seq2(<<Name, TypeParameters, Within("{", "}", ListOrNone("}", StructField))>>)

NamedField == Seq2(<<Name, Expect(":"), TypeExpr>>)
VariantFields ==
    First(<< On("(", Seq2(<<List(")", TypeExpr, TypeExpr), Expect(")")>>)),
             On("{", Seq2(<<ListOrNone("}", NamedField), Expect("}")>>)) >>, Nothing)
EnumDeclaration ==
    Seq2(<<Name, TypeParameters,
           Within("{", "}", ListOrNone("}", Seq2(<<Name, VariantFields>>)))>>)

AssociatedTypeValue == Seq2(<<Name, Expect("="), TypeExpr>>)
ImplMember(inherent) ==
    Seq2(<<IF inherent THEN Visibility ELSE Nothing,
           First(<<On("fn", FunctionDeclaration), On("type", AssociatedTypeValue)>>, Fail)>>)
ImplMembers(inherent) == Sequence(";", ImplMember(inherent))
WherePredicate == Seq2(<<TypeExpr, Expect(":"), Bounds>>)
WhereClause == Maybe("where", Node("Where", List("{", WherePredicate, WherePredicate)))
ImplDeclaration ==
    Seq2(<<TypeParameters, Bound,
           First(<<On("for", Seq2(<<Bound, WhereClause, ImplMembers(FALSE)>>))>>,
                 ImplMembers(TRUE))>>)

TraitAssociatedType == Seq2(<<Name, Maybe(":", Bounds), Maybe("=", TypeExpr)>>)
TraitMember == First(<<On("fn", Signature("Function")), On("type", TraitAssociatedType)>>, Fail)
TraitDeclaration ==
    Seq2(<<Name, TypeParameters, Maybe(":", Bounds), Sequence(";", TraitMember)>>)

EffectOperation ==
    Seq2(<<Expect("fn"), Name, Parameters("Fixed"), Expect("->"), TypeExpr>>)
EffectDeclaration == Seq2(<<Name, TypeParameters, Sequence(";", EffectOperation)>>)
EffectAliasDeclaration == Seq2(<<Take, Name, TypeParameters, Expect("="), Do("effects")>>)

ExternDeclaration ==
    First(<< On("fn", Seq2(<<SignatureStart("Fixed"), Expect("with"), Do("effects")>>)),
             On("type", Seq2(<<Name, TypeParameters>>)) >>, Fail)
TypeAliasDeclaration == Seq2(<<Name, TypeParameters, Expect("="), TypeExpr>>)
ConstDeclaration == Seq2(<<Name, Maybe(":", TypeExpr), Expect("="), Expr>>)

UseItem == Seq2(<<Name, Maybe("as", Name)>>)
UseDeclaration ==
    Seq2(<<Visibility, Expect("use"), UsePath,
           First(<< On("as", Name),
                    <<AtThen("::", {"{"}),
                      Seq2(<<Take, Within("{", "}", ListOrNone("}", UseItem))>>)>> >>, Nothing)>>)
UseDeclarations(closer) ==
    LET one == Seq2(<<UseDeclaration, EndItem(closer, ";"), ItemStart>>)
    IN  Seq2(<<ItemStart, Loop(<< <<At({"use"}), one>>, <<AtThen("pub", {"use"}), one>> >>)>>)

Module(closer) == Seq2(<<UseDeclarations(closer), Items(closer, ";", Do("declaration"))>>)
ModuleDeclaration ==
    Seq2(<<Name, Maybe("requires", Do("effects")),
           Expect("{"), Enter(TRUE, Seq2(<<Module("}"), Expect("}")>>))>>)

DeclarationKinds ==
    << On("fn", FunctionDeclaration), On("struct", StructDeclaration), On("enum", EnumDeclaration),
       On("trait", TraitDeclaration),
       <<At({"effect"}),
         Seq2(<<Take, If(AtThen("alias", {"Ident"}), EffectAliasDeclaration, EffectDeclaration)>>)>>,
       On("extern", Node("Extern", ExternDeclaration)), On("const", ConstDeclaration),
       On("mod", ModuleDeclaration), On("type", TypeAliasDeclaration) >>
Declaration ==
    Node("Declaration",
        First(<<On("impl", ImplDeclaration)>>,
              Seq2(<<Visibility, First(DeclarationKinds, Fail)>>)))

FileRequires == Maybe("requires", Seq2(<<Do("effects"), EndItem("Eof", ";")>>))
Program == Seq2(<<ItemStart, FileRequires, Module("Eof"), Expect("Eof")>>)

-----------------------------------------------------------------------------
(* The machine.                                                            *)
ParserRules ==
    [ expr |-> ExprWith(TRUE), head |-> ExprWith(FALSE),
      unary |-> UnaryLevel(TRUE), headUnary |-> UnaryLevel(FALSE),
      primary |-> Primary(TRUE), headPrimary |-> Primary(FALSE), postfix |-> PostfixTail,
      if |-> IfExpression, block |-> BlockLevel, pattern |-> PatternLevel,
      fieldPatterns |-> FieldPatterns, type |-> TypeLevel, effects |-> EffectSet,
      effectArguments |-> MoreEffectArguments, callableParameters |-> MoreCallableParameters,
      usePath |-> MoreUsePath,
      declaration |-> Declaration, program |-> Program ]

Failed(s) == s.err # NoError

\* s goes on with the instructions given before those it still has.
Then(s, parts) == [s EXCEPT !.todo = parts \o @]

\* The first way that s sees, or 0.
WayTaken(ways, s) ==
    LET seen == {k \in DOMAIN ways : Sees(s, ways[k][1])}
    IN  IF seen = {} THEN 0 ELSE CHOOSE k \in seen : \A other \in seen : k <= other
TakeWay(g, s) ==
    LET k == WayTaken(g.ways, s) IN Then(s, <<IF k = 0 THEN g.else ELSE g.ways[k][2]>>)
RunLoop(g, s) ==
    LET k == WayTaken(g.ways, s) IN IF k = 0 THEN s ELSE Then(s, <<g.ways[k][2], g>>)
RunList(g, s) ==
    IF ~AtTag(s, ",") THEN s
    ELSE IF AtTag(Bump(s), g.closer) THEN Bump(s) ELSE Then(Bump(s), <<g.other, g>>)

\* parse_binary: operands of operators at least as strong as min; `&` after
\* an operand on the same line is an error of its own.
ParseBinary(g, s) ==
    Then(s, <<Unary(g.named), Climb(g.named, g.min, Len(Precedences)),
              If(OnThisLine({"&"}), Fail, Nothing)>>)
RunClimb(g, s) ==
    LET operator == TagAt(s, s.i)
        follows == /\ IsBinary(operator) /\ ~LineBreakHere(s)
                   /\ Precedence(operator) \in g.min..g.max
    IN  IF ~follows THEN s
        ELSE Then(Bump(s), <<BinaryFrom(g.named, Precedence(operator) + 1), Join,
                             Climb(g.named, g.min, MaxAfter(operator))>>)

\* Levels that are entered and never left.
RunNestedForGood(g, s) ==
    IF s.depth >= s.limit THEN FailAt(s, s.i, "too deep")
    ELSE Then([s EXCEPT !.depth = @ + 1], <<g.body>>)
\* One level of nesting; the mode a construct is entered in, restored behind it.
RunNested(g, s) ==
    IF s.depth >= s.limit THEN FailAt(s, s.i, "too deep")
    ELSE Then([s EXCEPT !.depth = @ + 1], <<g.body, [op |-> "leave", depth |-> s.depth]>>)
RunEnter(g, s) ==
    Then([s EXCEPT !.nl = g.breaks], <<g.body, [op |-> "mode", breaks |-> s.nl]>>)

\* A node around what its body builds, around the node before it too, or in
\* place of that node.
RunNode(g, s) == Then([s EXCEPT !.out = <<>>], <<g.body, Close(s.out, g.kind, s.i)>>)
RunAround(g, s) ==
    Then([s EXCEPT !.out = <<LastNode(s)>>],
         <<g.body, Close(ButLast(s.out), g.kind, LastNode(s).from)>>)
RunBecome(g, s) ==
    Then([s EXCEPT !.out = LastNode(s).sub],
         <<g.body, Close(ButLast(s.out), g.kind, LastNode(s).from)>>)

Run(g, s) ==
    CASE g.op = "first"  -> TakeWay(g, s)
      [] g.op = "seq"    -> Then(s, g.parts)
      [] g.op = "do"     -> Then(s, <<Rules[g.rule]>>)
      [] g.op = "nothing" -> s
      [] g.op = "take"   -> Bump(s)
      [] g.op = "expect" -> ExpectTag(s, g.tag)
      [] g.op = "loop"   -> RunLoop(g, s)
      [] g.op = "node"   -> RunNode(g, s)
      [] g.op = "close"  -> Closed(g, s)
      [] g.op = "nested" -> RunNested(g, s)
      [] g.op = "leave"  -> [s EXCEPT !.depth = g.depth]
      [] g.op = "binary" -> ParseBinary(g, s)
      [] g.op = "climb"  -> RunClimb(g, s)
      [] g.op = "join"   -> Joined(s)
      [] g.op = "enter"  -> RunEnter(g, s)
      [] g.op = "mode"   -> [s EXCEPT !.nl = g.breaks]
      [] g.op = "list"   -> RunList(g, s)
      [] g.op = "around" -> RunAround(g, s)
      [] g.op = "become" -> RunBecome(g, s)
      [] g.op = "start"  -> [s EXCEPT !.item = TRUE]
      [] g.op = "end"    -> EndOfItem(s, g.closer, g.sep)
      [] g.op = "tail"   -> WithTail(s)
      [] g.op = "place"  -> ExpressionPlace(s)
      [] g.op = "fail"   -> FailAt(s, s.i, "unexpected")

\* 2^n instructions, or fewer if none is left.
RECURSIVE RunAll(_, _)
RunAll(n, s) ==
    IF s.todo = <<>> \/ Failed(s) THEN s
    ELSE IF n = 0 THEN Run(Head(s.todo), [s EXCEPT !.todo = Tail(@)])
    ELSE RunAll(n - 1, RunAll(n - 1, s))
MostInstructions == 12

\* What the parse of a file comes to.  An error before the first misplaced
\* line break is reported before it; otherwise the line break is the error.
WithLayout(s) ==
    IF s.layout # 0 /\ ~(Failed(s) /\ s.err.at < s.layout)
    THEN [s EXCEPT !.err = [at |-> s.layout, why |-> "line break"]] ELSE s
ParseTokens(toks, limit) ==
    WithLayout(RunAll(MostInstructions, Then(Parser0(toks, limit), <<Do("program")>>)))
-----------------------------------------------------------------------------
(* depth.rs: how deeply a parsed file nests, and the last word of parse.   *)
(* Nodes of a kind the walk counts are one level deeper than the node      *)
(* around them, an arm is as deep as its match, and some parts are not     *)
(* walked at all: effects, the bounds of type parameters, traits and       *)
(* implementations, and extern declarations.                               *)
ExpressionKinds ==
    {"Literal", "Path", "Interpolated", "Construct", "List", "Group", "Unary", "Borrow",
     "TupleField", "Field", "Index", "Call", "MethodCall", "Binary", "BlockExpr", "Unsafe",
     "If", "Match", "Catch", "Handle", "Closure"}
StatementKinds == {"Statement", "ExpressionStatement"}
BlockKinds == {"Block"} \cup StatementKinds
TypeKinds == {"Type"}
PatternKinds == {"Pattern"}
Counted == ExpressionKinds \cup BlockKinds \cup TypeKinds \cup PatternKinds \cup {"Declaration"}
Unwalked == {"Effects", "Bound", "Where", "Extern"}

\* The first token of the first node past the limit, or 0.
RECURSIVE Walk(_, _, _), WalkAll(_, _, _, _)
Walk(node, depth, limit) ==
    IF node.kind \in Unwalked THEN 0
    ELSE IF node.kind \notin Counted THEN WalkAll(node.sub, 1, depth, limit)
    ELSE IF depth > limit THEN node.from
    ELSE WalkAll(node.sub, 1, depth + 1, limit)
WalkAll(nodes, k, depth, limit) ==
    IF k > Len(nodes) THEN 0
    ELSE LET here == Walk(nodes[k], depth, limit)
         IN  IF here # 0 THEN here ELSE WalkAll(nodes, k + 1, depth, limit)

TooDeep(program, limit) == WalkAll(program, 1, 1, limit)

\* The result of parsing a file: [out, err].
WithDepth(s, limit) ==
    LET deep == TooDeep(s.out, limit)
    IN  [out |-> s.out,
         err |-> IF ~Failed(s) /\ deep # 0 THEN [at |-> deep, why |-> "too deep"] ELSE s.err]
Parse(toks, limit) == WithDepth(ParseTokens(toks, limit), limit)
=============================================================================
