----------------------------- MODULE ParseSteps -----------------------------
(***************************************************************************)
(* The parser of parser.rs as a machine.  A production is a value: a tree  *)
(* of instructions built with the operators of the first part, one for     *)
(* each thing a parse function does (expect a token, look ahead, enter a   *)
(* construct, build a node).  The second part is what an instruction does  *)
(* to the parser's state.  Module Parser writes the productions and runs   *)
(* them.                                                                   *)
(*                                                                         *)
(* A token is [tag, nl]: its tag, spelled as in the source, and whether a  *)
(* line break separates it from the token before.  Identifiers carry no    *)
(* text but the three the parser looks at, which are tags of their own and  *)
(* count as "Ident".  A node is [kind, from, to, sub]: the tokens it spans *)
(* and the nodes inside it; names and operators are the tokens themselves. *)
(***************************************************************************)
EXTENDS Integers, Sequences

ContextualWords == {"type", "self", "alias"}

-----------------------------------------------------------------------------
(* Instructions.  A condition looks at the current token, at the next one  *)
(* and at the line break before the current one.                           *)
Looking(tags, next, same, not) == [tags |-> tags, next |-> next, same |-> same, not |-> not]
At(tags)           == Looking(tags, {}, FALSE, FALSE)
NotAt(tags)        == Looking(tags, {}, FALSE, TRUE)
AtThen(tag, next)  == Looking({tag}, next, FALSE, FALSE)
OnThisLine(tags)   == Looking(tags, {}, TRUE, FALSE)

Nothing            == [op |-> "nothing"]
Fail               == [op |-> "fail"]
Take               == [op |-> "take"]
Expect(tag)        == [op |-> "expect", tag |-> tag]
Name               == Expect("Ident")
Seq2(parts)        == [op |-> "seq", parts |-> parts]
Do(rule)           == [op |-> "do", rule |-> rule]
First(ways, else)  == [op |-> "first", ways |-> ways, else |-> else]
Loop(ways)         == [op |-> "loop", ways |-> ways]
If(test, yes, no)  == First(<<<<test, yes>>>>, no)
While(test, body)  == Loop(<<<<test, body>>>>)
On(tag, rest)      == <<At({tag}), Seq2(<<Take, rest>>)>>
Maybe(tag, rest)   == First(<<On(tag, rest)>>, Nothing)
Eat(tag)           == Maybe(tag, Nothing)

Enter(breaks, body)   == [op |-> "enter", breaks |-> breaks, body |-> body]
Nested(body)          == [op |-> "nested", body |-> body]
ItemStart             == [op |-> "start"]
EndItem(closer, sep)  == [op |-> "end", closer |-> closer, sep |-> sep]
BinaryFrom(named, min)  == [op |-> "binary", named |-> named, min |-> min]
Climb(named, min, max)  == [op |-> "climb", named |-> named, min |-> min, max |-> max]
Join                  == [op |-> "join"]
Node(kind, body)      == [op |-> "node", kind |-> kind, body |-> body]
Around(kind, body)    == [op |-> "around", kind |-> kind, body |-> body]
Close(keep, kind, from) == [op |-> "close", keep |-> keep, kind |-> kind, from |-> from]
Become(kind, body)    == [op |-> "become", kind |-> kind, body |-> body]
TakeTail              == [op |-> "tail"]
TakePlace             == [op |-> "place"]

\* `item (, item)* ,?` before closer: the loop every list of parser.rs is.
List(closer, first, other) ==
    Seq2(<<first, [op |-> "list", closer |-> closer, other |-> other]>>)
ListOrNone(closer, item) == If(At({closer}), Nothing, List(closer, item, item))

\* An opening token, and a body up to the closing one in which line breaks
\* mean nothing.
Within(open, close, body) == Seq2(<<Expect(open), Enter(FALSE, Seq2(<<body, Expect(close)>>))>>)

\* The items of a statement sequence, and a braced sequence.
Items(closer, sep, item) ==
    Seq2(<<ItemStart, While(NotAt({closer}), Seq2(<<item, EndItem(closer, sep), ItemStart>>))>>)
Sequence(sep, item) ==
    Seq2(<<Expect("{"), Enter(TRUE, Seq2(<<Items("}", sep, item), Expect("}")>>))>>)

-----------------------------------------------------------------------------
(* The parser's state: the tokens, the index of the current one, whether   *)
(* line breaks end items here, whether the current token starts one, the   *)
(* first misplaced line break (0: none), the nesting and its limit, the    *)
(* nodes built in the production being parsed, the error that ended the    *)
(* parse, and the instructions that are left.                              *)
NoError == [at |-> 0, why |-> "none"]

Parser0(toks, limit) ==
    [toks |-> toks, i |-> 1, nl |-> TRUE, item |-> TRUE, layout |-> 0,
     depth |-> 0, limit |-> limit, out |-> <<>>, err |-> NoError, todo |-> <<>>]

TagAt(s, i) == IF i \in DOMAIN s.toks THEN s.toks[i].tag ELSE "Eof"
IsTag(tag, tags) == tag \in tags \/ (tag \in ContextualWords /\ "Ident" \in tags)
AtTag(s, tag) == IsTag(TagAt(s, s.i), {tag})
LineBreakHere(s) == s.nl /\ s.toks[s.i].nl

Sees(s, c) ==
    LET here == /\ c.tags = {} \/ IsTag(TagAt(s, s.i), c.tags)
                /\ c.next = {} \/ IsTag(TagAt(s, s.i + 1), c.next)
                /\ c.same => ~LineBreakHere(s)
    IN  here # c.not

FailAt(s, i, why) == [s EXCEPT !.err = [at |-> i, why |-> why]]

\* Tokens that only continue an item, and tokens after which a line cannot end.
OnlyContinue == {".", "else", "catch", "with", ")", "]", "}"}
LeaveOpen ==
    {"+", "-", "*", "/", "%", "==", "!=", "<", ">", "<=", ">=", "&&", "||", "!", "|", "&",
     "=", "+=", "-=", "*=", "/=", "%=", "..", "..=", ".", "::", "->", "=>", ",", ":", "(", "[", "{"}
ContinuesLine(previous, next) == next \in OnlyContinue \/ previous \in LeaveOpen

\* Consumes the current token.  A line break that continues an item it
\* should have ended is remembered, the first one only.
Bump(s) ==
    LET misplaced == /\ s.nl /\ s.toks[s.i].nl /\ ~s.item /\ s.layout = 0
                     /\ ~ContinuesLine(TagAt(s, s.i - 1), TagAt(s, s.i))
    IN  [s EXCEPT !.layout = IF misplaced THEN s.i ELSE @,
                  !.item = FALSE,
                  !.i = IF AtTag(s, "Eof") THEN @ ELSE @ + 1]

ExpectTag(s, tag) == IF AtTag(s, tag) THEN Bump(s) ELSE FailAt(s, s.i, "unexpected")

\* After one item: the closer or a line break, or a separator with another
\* item behind it on the same line.
ItemEnds(s, closer) == AtTag(s, closer) \/ s.toks[s.i].nl
EndOfItem(s, closer, sep) ==
    IF ItemEnds(s, closer) THEN s
    ELSE IF ~AtTag(s, sep) THEN FailAt(s, s.i, "missing separator")
    ELSE IF ItemEnds(Bump(s), closer) THEN FailAt(s, s.i, "trailing separator")
    ELSE Bump(s)

-----------------------------------------------------------------------------
(* Nodes.                                                                  *)
LastNode(s) == s.out[Len(s.out)]
ButLast(seq) == SubSeq(seq, 1, Len(seq) - 1)

\* The node of a construct that has been parsed: it holds the nodes built
\* since it began, and stands behind the nodes kept from before it.
Closed(g, s) ==
    [s EXCEPT !.out = Append(g.keep, [kind |-> g.kind, from |-> g.from, to |-> s.i - 1, sub |-> @])]

\* A final expression statement is the block's tail.
WithTail(s) ==
    IF s.out # <<>> /\ LastNode(s).kind = "ExpressionStatement"
    THEN [s EXCEPT !.out = ButLast(@) \o LastNode(s).sub] ELSE s

\* A place is a local's name with fields and indexes behind it; of the
\* target only the expressions of the indexes are left.
PlaceSteps == {"Field", "TupleField", "Index"}
RECURSIVE IsPlace(_, _)
IsPlace(s, e) == \/ e.kind = "Path" /\ e.from = e.to /\ s.toks[e.from].tag # "super"
                 \/ e.kind \in PlaceSteps /\ IsPlace(s, e.sub[1])
RECURSIVE PlaceIndexes(_)
PlaceIndexes(e) == IF e.kind = "Path" THEN <<>> ELSE PlaceIndexes(e.sub[1]) \o Tail(e.sub)

ExpressionPlace(s) ==
    LET target == LastNode(s).sub[1]
    IN  IF IsPlace(s, target)
        THEN [s EXCEPT !.out[Len(s.out)].sub = PlaceIndexes(target)]
        ELSE FailAt(s, target.from, "place")

-----------------------------------------------------------------------------
(* Binary operators.                                                       *)
Precedences == << {"||"}, {"&&"}, {"==", "!="}, {"<", ">", "<=", ">="}, {"..", "..="},
                  {"+", "-"}, {"*", "/", "%"} >>
AssignmentOperators == {"=", "+=", "-=", "*=", "/=", "%="}
IsBinary(tag) == \E p \in DOMAIN Precedences : tag \in Precedences[p]
Precedence(tag) == CHOOSE p \in DOMAIN Precedences : tag \in Precedences[p]

\* Every operator can be chained.
MaxAfterAny(tag) == Precedence(tag)
\* The strongest operator that may follow an operand of this one: an
\* equality, a comparison or a range cannot be chained.
MaxAfter(tag) == IF Precedence(tag) \in {3, 4, 5} THEN Precedence(tag) - 1 ELSE Precedence(tag)

Joined(s) ==
    LET right == LastNode(s)
        left == s.out[Len(s.out) - 1]
    IN  [s EXCEPT !.out = Append(ButLast(ButLast(@)),
             [kind |-> "Binary", from |-> left.from, to |-> right.to, sub |-> <<left, right>>])]
=============================================================================
