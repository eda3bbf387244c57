------------------------------ MODULE Grammar -------------------------------
(***************************************************************************)
(* What a Vorton file may be, written as the language is specified in      *)
(* docs/lang-spec/syntax.md: an ambiguous-by-nature grammar, one operator  *)
(* per level of precedence, and the rule for line breaks.  A production    *)
(* derives, from a position, every end it can reach with every set of      *)
(* nodes <<kind, from, to>> on the way: nothing here chooses, looks ahead  *)
(* or keeps a mode to restore.  It is the reference the parser is checked  *)
(* against, not a model of code.                                           *)
(*                                                                         *)
(* Nothing is added to that page for the parser's sake, also where the two  *)
(* disagree.  Of the constraints its comments put on productions the one on *)
(* heads is here; that `mut` is for parameters by value is left to the     *)
(* checker of types, as in the code (checker.rs:1525).  The page lists the *)
(* brackets inside which line breaks are blanks and mentions neither those *)
(* of type arguments nor the code in a string: they are read as such, not  *)
(* as statement sequences.                                                 *)
(***************************************************************************)
EXTENDS Integers, Sequences

CONSTANT Productions \* by name; its value is GrammarRules

T(tags)             == [op |-> "token", tags |-> tags]
Tok(tag)            == T({tag})
Id                  == Tok("Ident")
S(parts)            == [op |-> "seq", parts |-> parts]
Either(ways)           == [op |-> "any", ways |-> ways]
Empty               == S(<<>>)
Opt(g)              == Either(<<Empty, g>>)
Greedy(g)           == [op |-> "greedy", of |-> g] \* g wherever g can be
Not(g)              == [op |-> "not", of |-> g]    \* no g here
Star(g)             == [op |-> "star", of |-> g]
R(rule)             == [op |-> "rule", rule |-> rule]
N(kind, g)          == [op |-> "node", kind |-> kind, of |-> g]
Left(first, tails, many) == [op |-> "left", first |-> first, tails |-> tails, many |-> many]
Free(g)             == [op |-> "free", of |-> g]   \* line breaks are blanks in g
InHead(g)           == [op |-> "head", of |-> g]
NotInHead(g)        == [op |-> "notHead", of |-> g]
Lines(sep, kinds, once) == [op |-> "lines", sep |-> sep, kinds |-> kinds, once |-> once]

Comma(g)            == S(<<g, Star(S(<<Tok(","), g>>)), Opt(Tok(","))>>)
Pair(g)             == S(<<g, Tok(","), Comma(g)>>)
In(open, g, close)  == S(<<Tok(open), Free(S(<<g, Tok(close)>>))>>)
GItems(items)       == S(<<Tok("{"), items, Free(Tok("}"))>>)
Braced(sep, item)   == GItems(Lines(sep, <<item>>, {}))
\* A token spelled like a binary operator that is none where it stands.
Sign(tags)          == N("Sign", T(tags))
Angles(g)           == S(<<Tok("<"), Free(S(<<g, Sign({">"})>>))>>)

-----------------------------------------------------------------------------
(* Paths, types, effects, parameters.                                      *)
GPath == LET Segment == T({"Ident", "super"}) IN S(<<Segment, Star(S(<<Tok("::"), Segment>>))>>)
GBorrow == S(<<Tok("&"), Opt(Tok("mut"))>>)
GNamed == S(<<GPath, Opt(Angles(Comma(Either(<<R("type"), S(<<Id, Tok("="), R("type")>>)>>))))>>)
GBound == N("Bound", GNamed)
GBounds == S(<<GBound, Star(S(<<Tok("+"), GBound>>))>>)
GParam == S(<<Id, Opt(S(<<Tok(":"), GBounds>>))>>)
GTypeParams == Opt(Angles(Comma(GParam)))
GEffectParam == S(<<Tok("effect"), Id>>)
GCallable ==
    Opt(Angles(Either(<< Comma(GEffectParam),
        S(<<GParam, Star(S(<<Tok(","), GParam>>)), Star(S(<<Tok(","), GEffectParam>>)),
            Opt(Tok(","))>>) >>)))
GApply ==
    Opt(Angles(S(<<R("type"), Star(S(<<Tok(","), R("type")>>)),
        Star(S(<<Tok(","), Tok("effect"), R("effects")>>)), Opt(Tok(","))>>)))
GEffects == N("Effects", In("{", Opt(Comma(Either(<<Tok("unsafe"), S(<<GPath, GApply>>)>>))), "}"))
GReturnType == S(<<Tok("->"), Opt(GBorrow), R("type")>>)
GReturn == Opt(GReturnType)
GWith == Greedy(S(<<Tok("with"), R("effects")>>))
GType ==
    N("Type", Either(<< GNamed,
        S(<<Tok("fn"), In("(", Opt(Comma(S(<<Opt(GBorrow), R("type")>>))), ")"), GReturn, GWith>>),
        In("(", Either(<<R("type"), Pair(R("type"))>>), ")") >>))

GColonType == S(<<Tok(":"), Opt(GBorrow), R("type")>>)
GFnParam == S(<<Opt(Tok("mut")), Id, GColonType>>)
GReceiver == Either(<<S(<<GBorrow, Tok("self")>>), S(<<Opt(Tok("mut")), Tok("self")>>)>>)
GFnParams ==
    In("(", Opt(Either(<< Comma(GFnParam),
        S(<<GReceiver, Star(S(<<Tok(","), GFnParam>>)), Opt(Tok(","))>>) >>)), ")")
GPlainParams == In("(", Opt(Comma(GFnParam)), ")")

-----------------------------------------------------------------------------
(* Patterns, expressions, statements.                                      *)
GFieldPattern == S(<<Id, Opt(S(<<Tok(":"), R("pattern")>>))>>)
GPattern ==
    N("Pattern", Either(<< T({"Integer", "Float", "String", "true", "false"}),
        S(<<GPath, Opt(Either(<< In("(", Comma(R("pattern")), ")"),
              In("{", Opt(Either(<< S(<<Tok(".."), Opt(Tok(","))>>),
                 S(<<GFieldPattern, Star(S(<<Tok(","), GFieldPattern>>)),
                     Opt(S(<<Tok(","), Tok("..")>>)), Opt(Tok(","))>>) >>)), "}") >>))>>),
        In("(", Pair(R("pattern")), ")") >>))

\* The binary operators, the weakest first, and whether they chain.
GLevels == << <<{"||"}, TRUE>>, <<{"&&"}, TRUE>>, <<{"==", "!="}, FALSE>>,
              <<{"<", ">", "<=", ">="}, FALSE>>, <<{"..", "..="}, FALSE>>,
              <<{"+", "-"}, TRUE>>, <<{"*", "/", "%"}, TRUE>> >>
GLevel(sub, level) == Left(sub, << <<"Binary", S(<<T(level[1]), sub>>)>> >>, level[2])
GOr == [op |-> "levels"]
GMatchBody ==
    Braced(",", N("Arm", S(<<R("pattern"), Star(S(<<Tok("|"), R("pattern")>>)),
                            Opt(S(<<Tok("if"), R("expr")>>)), Tok("=>"), R("expr")>>)))
GExpr == Left(GOr, << <<"Catch", S(<<Tok("catch"), GMatchBody>>)>> >>, TRUE)
GHead == InHead(R("expr"))

GUnary == Either(<< N("Unary", S(<<Sign({"-", "!"}), R("unary")>>)),
                 N("Borrow", S(<<GBorrow, R("unary")>>)), R("postfix") >>)
GArgs == In("(", Opt(Comma(R("expr"))), ")")
GPostfix ==
    Left(R("primary"),
         << <<"Call", GArgs>>, <<"Index", In("[", R("expr"), "]")>>,
            <<"TupleField", S(<<Tok("."), Tok("Integer")>>)>>,
            <<"MethodCall", S(<<Tok("."), Id, GArgs>>)>>,
            <<"Field", S(<<Tok("."), Id, Not(Tok("("))>>)>> >>, TRUE)

GField == S(<<Id, Opt(S(<<Tok(":"), R("expr")>>))>>)
GEntries ==
    S(<<Either(<<GField, S(<<Tok(".."), R("expr")>>)>>), Star(S(<<Tok(","), GField>>)), Opt(Tok(","))>>)
GBlockExpr == N("BlockExpr", R("block"))
GIf == N("If", S(<<Tok("if"), GHead, R("block"),
                   Opt(S(<<Tok("else"), Either(<<R("if"), GBlockExpr>>)>>))>>))
GHandler ==
    S(<<GPath, Tok("."), Id, In("(", Opt(Comma(S(<<Id, Opt(S(<<Tok(":"), R("type")>>))>>))), ")"),
        Tok("=>"), R("expr")>>)
GClosureParam == S(<<Opt(Tok("mut")), Id, Opt(GColonType)>>)
GPrimary ==
    Either(<< N("Literal", T({"Integer", "Float", "String", "RawString", "true", "false"})),
           N("Path", GPath),
           NotInHead(N("Construct", S(<<GPath, In("{", Opt(GEntries), "}")>>))),
           N("Interpolated", S(<<Tok("InterpolationStart"), Free(S(<<R("expr"),
                Star(S(<<Tok("InterpolationMiddle"), R("expr")>>)), Tok("InterpolationEnd")>>))>>)),
           N("List", In("[", Opt(Comma(R("expr"))), "]")),
           N("Group", In("(", Opt(Either(<<R("expr"), Pair(R("expr"))>>)), ")")),
           GBlockExpr, R("if"), N("Match", S(<<Tok("match"), GHead, GMatchBody>>)),
           N("Handle", S(<<Tok("handle"), R("block"), Tok("with"), Braced(",", GHandler)>>)),
           N("Closure", S(<<Tok("fn"), In("(", Opt(Comma(GClosureParam)), ")"), GReturn, GWith,
                            R("block")>>)),
           N("Unsafe", S(<<Tok("unsafe"), R("block")>>)) >>)

GPlace ==
    S(<<Id, Star(Either(<<S(<<Tok("."), T({"Ident", "Integer"})>>), In("[", R("expr"), "]")>>))>>)
GForBinding == Either(<<Id, In("(", Pair(Id), ")")>>)
GStatement ==
    Either(<< R("expr"), N("Statement", Either(<<
        S(<<Tok("let"), Opt(Tok("mut")), Id, Opt(GColonType), Tok("="), R("expr")>>),
        S(<<Tok("let"), N("Pattern", In("(", Pair(R("pattern")), ")")), Tok("="), R("expr")>>),
        S(<<GPlace, T({"=", "+=", "-=", "*=", "/=", "%="}), R("expr")>>),
        S(<<Tok("return"), Opt(R("expr"))>>),
        T({"break", "continue"}),
        S(<<Tok("if"), Tok("let"), R("pattern"), Tok("="), GHead, R("block"),
            Opt(S(<<Tok("else"), R("block")>>))>>),
        S(<<Tok("while"), GHead, R("block")>>),
        S(<<Tok("for"), GForBinding, Tok("in"), GHead, R("block")>>),
        S(<<Tok("loop"), R("block")>>) >>)) >>)
GBlock == N("Block", Braced(";", GStatement))

-----------------------------------------------------------------------------
(* Declarations.                                                           *)
GPub == Opt(Tok("pub"))
GHeader == S(<<Tok("fn"), Id, GCallable, GFnParams, GReturn, GWith>>)
GFn == S(<<GHeader, R("block")>>)
GAssociated == S(<<Tok("type"), Id, Tok("="), R("type")>>)
GNamedField == S(<<Id, Tok(":"), R("type")>>)
GVariant ==
    S(<<Id, Opt(Either(<<In("(", Comma(R("type")), ")"), In("{", Opt(Comma(GNamedField)), "}")>>))>>)
GWhere ==
    Opt(S(<<Tok("where"), Comma(S(<<R("type"), Tok(":"), GBounds>>))>>))
GImpl ==
    S(<<Tok("impl"), GTypeParams, GBound,
        Either(<< Braced(";", S(<<GPub, Either(<<GFn, GAssociated>>)>>)),
               S(<<Tok("for"), GBound, GWhere, Braced(";", Either(<<GFn, GAssociated>>))>>) >>)>>)
GTrait ==
    S(<<Tok("trait"), Id, GTypeParams, Opt(S(<<Tok(":"), GBounds>>)),
        Braced(";", Either(<< GHeader, S(<<Tok("type"), Id, Opt(S(<<Tok(":"), GBounds>>)),
                                        Opt(S(<<Tok("="), R("type")>>))>>) >>))>>)
GOperation ==
    S(<<Tok("fn"), Id, GPlainParams, GReturnType>>)
GUse ==
    S(<<GPub, Tok("use"), GPath,
        Opt(Either(<< S(<<Tok("as"), Id>>),
                   S(<<Tok("::"), In("{", Opt(Comma(S(<<Id, Opt(S(<<Tok("as"), Id>>))>>))), "}")>>)
                >>))>>)
GDeclKind ==
    Either(<< GFn,
           S(<<Tok("struct"), Id, GTypeParams, In("{", Opt(Comma(S(<<GPub, GNamedField>>))), "}")>>),
           S(<<Tok("enum"), Id, GTypeParams, In("{", Opt(Comma(GVariant)), "}")>>),
           GTrait,
           S(<<Tok("effect"), Id, GTypeParams, Braced(";", GOperation)>>),
           S(<<Tok("effect"), Tok("alias"), Id, GTypeParams, Tok("="), R("effects")>>),
           S(<<Tok("extern"), Tok("fn"), Id, GCallable, GPlainParams, GReturn, Tok("with"),
               R("effects")>>),
           S(<<Tok("extern"), Tok("type"), Id, GTypeParams>>),
           S(<<Tok("type"), Id, GTypeParams, Tok("="), R("type")>>),
           S(<<Tok("const"), Id, Opt(S(<<Tok(":"), R("type")>>)), Tok("="), R("expr")>>),
           S(<<Tok("mod"), Id, Opt(S(<<Tok("requires"), R("effects")>>)),
               GItems(Lines(";", <<GUse, R("decl")>>, {}))>>) >>)
GDecl == N("Declaration", Either(<<GImpl, S(<<GPub, GDeclKind>>)>>))
GProgram == Lines(";", << S(<<Tok("requires"), R("effects")>>), GUse, R("decl") >>, {1})

GrammarRules ==
    [ type |-> GType, effects |-> GEffects, pattern |-> GPattern, expr |-> GExpr,
      unary |-> GUnary, postfix |-> GPostfix, primary |-> GPrimary, if |-> GIf,
      block |-> GBlock, decl |-> GDecl, program |-> GProgram ]

-----------------------------------------------------------------------------
(* Derivation.  The context c holds the tokens, whether line breaks count  *)
(* (`lines`), where the current item starts, and whether the derivation is *)
(* in a control head and outside every delimiter.                          *)
Words == {"type", "self", "alias"}
Operators ==
    {"+", "-", "*", "/", "%", "==", "!=", "<", ">", "<=", ">=", "&&", "||", "..", "..=",
     "=", "+=", "-=", "*=", "/=", "%="}
GoesOnAfter == Operators \cup {",", ".", "::", "->", "=>", "|"}
GoesOnBefore == {".", "else", "catch", "with"}

TagIn(c, i) == c.toks[i].tag
NewLine(c, i) == c.lines /\ c.toks[i].nl /\ i # c.start \* a line break in an item
LeftOpen(c, i) == i > 1 /\ TagIn(c, i - 1) \in GoesOnAfter
Placed(c, i) == NewLine(c, i) => TagIn(c, i) \in GoesOnBefore \/ LeftOpen(c, i)
Reads(c, i, tags) ==
    /\ TagIn(c, i) \in tags \/ (TagIn(c, i) \in Words /\ "Ident" \in tags)
    /\ Placed(c, i)
\* The node of a token read on a new line because of the token before it.
Continued(c, i) ==
    IF NewLine(c, i) /\ TagIn(c, i) \notin GoesOnBefore THEN {<<"Continued", i, i>>} ELSE {}

\* The levels from the kth on; one of which the file has no operator is its operand.
RECURSIVE LevelsFrom(_, _)
LevelsFrom(k, tags) ==
    IF k > Len(GLevels) THEN R("unary")
    ELSE IF GLevels[k][1] \cap tags = {} THEN LevelsFrom(k + 1, tags)
    ELSE GLevel(LevelsFrom(k + 1, tags), GLevels[k])

RECURSIVE Derive(_, _, _), DeriveParts(_, _, _, _), DeriveTails(_, _, _, _), DeriveLines(_, _, _, _, _)

Onto(e, ends) == {<<f[1], e[2] \cup f[2]>> : f \in ends}
DeriveParts(parts, k, ends, c) == \* the ends reached from `ends` by parts k, k + 1, ...
    IF ends = {} \/ k > Len(parts) THEN ends
    ELSE DeriveParts(parts, k + 1, UNION {Onto(e, Derive(parts[k], e[1], c)) : e \in ends}, c)

TailNode(kind, i, j) == IF kind = "" THEN {} ELSE {<<kind, i, j>>}
DeriveTails(g, i, ends, c) == \* the ends reached from `ends` by tails of a node that starts at i
    LET longer == UNION { UNION { {<<f[1], e[2] \cup f[2] \cup TailNode(g.tails[k][1], i, f[1] - 1)>>
                                    : f \in Derive(g.tails[k][2], e[1], c)}
                                  : k \in DOMAIN g.tails } : e \in ends }
    IN  IF longer = {} THEN ends
        ELSE ends \cup (IF g.many THEN DeriveTails(g, i, longer, c) ELSE longer)

\* Items of kinds k, k + 1, ... from i on.  Two items are separated by a
\* line break, or by a separator that is not at the end of its line.
DeriveLines(g, k, i, first, c) ==
    LET starts == IF first \/ c.toks[i].nl THEN {i}
                  ELSE IF TagIn(c, i) = g.sep /\ ~c.toks[i + 1].nl THEN {i + 1} ELSE {}
        After(kind, e) ==
            DeriveLines(g, IF kind \in g.once THEN kind + 1 ELSE kind, e[1], FALSE, c)
    IN  {<<i, {}>>} \cup
        UNION { UNION { UNION { {<<f[1], e[2] \cup f[2]>> : f \in After(kind, e)}
                                : e \in Derive(g.kinds[kind], i0, [c EXCEPT !.start = i0]) }
                        : kind \in k..Len(g.kinds) } : i0 \in starts }

Derive(g, i, c) ==
    CASE g.op = "token" -> IF Reads(c, i, g.tags) THEN {<<i + 1, Continued(c, i)>>} ELSE {}
      [] g.op = "seq"   -> DeriveParts(g.parts, 1, {<<i, {}>>}, c)
      [] g.op = "rule"  -> Derive(Productions[g.rule], i, c)
      [] g.op = "any"   -> UNION {Derive(g.ways[k], i, c) : k \in DOMAIN g.ways}
      [] g.op = "left"  -> LET ends == Derive(g.first, i, c)
                           IN  IF ends = {} THEN {} ELSE DeriveTails(g, i, ends, c)
      [] g.op = "levels" -> Derive(c.levels, i, c)
      [] g.op = "node"  -> {<<e[1], e[2] \cup {<<g.kind, i, e[1] - 1>>}>> : e \in Derive(g.of, i, c)}
      [] g.op = "star"  -> DeriveTails([tails |-> << <<"", g.of>> >>, many |-> TRUE], i,
                                       {<<i, {}>>}, c)
      [] g.op = "greedy" -> LET ends == Derive(g.of, i, c) IN IF ends = {} THEN {<<i, {}>>} ELSE ends
      [] g.op = "not"   -> IF Derive(g.of, i, c) = {} THEN {<<i, {}>>} ELSE {}
      [] g.op = "free"  -> Derive(g.of, i, [c EXCEPT !.lines = FALSE, !.head = FALSE])
      [] g.op = "head"  -> Derive(g.of, i, [c EXCEPT !.head = TRUE])
      [] g.op = "notHead" -> IF c.head THEN {} ELSE Derive(g.of, i, c)
      [] g.op = "lines" -> DeriveLines(g, 1, i, TRUE, [c EXCEPT !.lines = TRUE, !.head = FALSE])

\* The derivations of a whole file: the sets of nodes of all of them, but for
\* those in which a line goes on because of an operator that is none.
Helpers == {"Sign", "Continued"}
Derivations(toks) ==
    LET c == [toks |-> toks, levels |-> LevelsFrom(1, {toks[k].tag : k \in DOMAIN toks}),
              lines |-> TRUE, start |-> 1, head |-> FALSE]
        whole == {e[2] : e \in {d \in Derive(R("program"), 1, c) : TagIn(c, d[1]) = "Eof"}}
        sound == {nodes \in whole : \A k \in DOMAIN toks :
                     ~({<<"Sign", k, k>>, <<"Continued", k + 1, k + 1>>} \subseteq nodes)}
    IN  {{n \in nodes : n[1] \notin Helpers} : nodes \in sound}
=============================================================================
