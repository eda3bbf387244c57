------------------------------- MODULE Lexer --------------------------------
(***************************************************************************)
(* lexer.rs.  A text is a sequence of characters; a word, a number and the *)
(* inside of a string are kept only as the span of characters they take.   *)
(* A token is [tag, from, to, nl]: nl says whether a line break was seen   *)
(* since the token before it.                                              *)
(***************************************************************************)
EXTENDS Integers, Sequences

Letters == {"a", "f", "i", "n", "r"}
Digits == {"0", "1"}
Breaks == {"\n", "\r"}
Blanks == {" ", "\t"} \cup Breaks
Escapes == {"\\", "\"", "n", "t", "r", "0"}

\* The keywords that Letters can spell stand for all of them.
Keywords == { <<"f", "n">>, <<"i", "f">>, <<"i", "n">> }
KeywordTag(word) == CASE word = <<"f", "n">> -> "fn" [] word = <<"i", "f">> -> "if"
                      [] word = <<"i", "n">> -> "in"

MultiCharacterTokens ==
    << <<<<".", ".", "=">>, "..=">>, <<<<"=", "=">>, "==">>, <<<<"!", "=">>, "!=">>,
       <<<<"<", "=">>, "<=">>, <<<<">", "=">>, ">=">>, <<<<"&", "&">>, "&&">>,
       <<<<"|", "|">>, "||">>, <<<<"+", "=">>, "+=">>, <<<<"-", "=">>, "-=">>,
       <<<<"*", "=">>, "*=">>, <<<<"/", "=">>, "/=">>, <<<<"%", "=">>, "%=">>,
       <<<<".", ".">>, "..">>, <<<<":", ":">>, "::">>, <<<<"-", ">">>, "->">>,
       <<<<"=", ">">>, "=>">> >>
SingleCharacterTokens ==
    {"+", "-", "*", "/", "%", "<", ">", "!", "|", "&", "=", ".", "(", ")", "{", "}", "[", "]",
     ",", ":", ";"}

-----------------------------------------------------------------------------
(* The lexer's state: the text, the position, the tokens so far, whether a *)
(* line break was passed since the last one, and the error.                *)
Lexer0(text) == [text |-> text, at |-> 1, toks |-> <<>>, newline |-> FALSE, err |-> "none"]

Past(L, i) == i > Len(L.text)
StartsAt(L, i, chars) ==
    /\ i + Len(chars) - 1 <= Len(L.text)
    /\ SubSeq(L.text, i, i + Len(chars) - 1) = chars
Stops(L, i, why) == [L EXCEPT !.at = i, !.err = why]

\* Appends the token that spans from..to, which takes the line break seen.
Push(L, tag, from, to) ==
    [L EXCEPT !.toks = Append(@, [tag |-> tag, from |-> from, to |-> to, nl |-> L.newline]),
              !.newline = FALSE,
              !.at = to + 1]

RECURSIVE EndOf(_, _, _)
EndOf(L, i, set) == IF Past(L, i) \/ L.text[i] \notin set THEN i ELSE EndOf(L, i + 1, set)
RECURSIVE EndOfLine(_, _)
EndOfLine(L, i) == IF Past(L, i) \/ L.text[i] \in Breaks THEN i ELSE EndOfLine(L, i + 1)

\* A comment that takes its line break with it.
RECURSIVE SkipWholeLines(_)
SkipWholeLines(L) ==
    LET i == EndOf(L, L.at, Blanks)
        B == [L EXCEPT !.at = i,
                       !.newline = @ \/ \E k \in L.at..i - 1 : L.text[k] \in Breaks]
        e == EndOfLine(B, i + 2)
    IN  IF StartsAt(B, i, <<"/", "/">>)
        THEN SkipWholeLines([B EXCEPT !.at = IF Past(B, e) THEN e ELSE e + 1]) ELSE B
\* Blanks and comments; a comment ends before its line break, which is seen
\* as a blank after it.
RECURSIVE SkipTrivia(_)
SkipTrivia(L) ==
    LET i == EndOf(L, L.at, Blanks)
        B == [L EXCEPT !.at = i,
                       !.newline = @ \/ \E k \in L.at..i - 1 : L.text[k] \in Breaks]
    IN  IF StartsAt(B, i, <<"/", "/">>)
        THEN SkipTrivia([B EXCEPT !.at = EndOfLine(B, i + 2)]) ELSE B

-----------------------------------------------------------------------------
(* One token.                                                              *)
LexWord(L) ==
    LET e == EndOf(L, L.at, Letters \cup Digits)
        word == SubSeq(L.text, L.at, e - 1)
    IN  Push(L, IF word \in Keywords THEN KeywordTag(word) ELSE "Ident", L.at, e - 1)

\* Right after a `.` a number is a tuple index: pair.0.1 is two of them.
AfterDot(L) ==
    /\ L.toks # <<>>
    /\ L.toks[Len(L.toks)].tag = "." /\ L.toks[Len(L.toks)].to + 1 = L.at
LexNumber(L) ==
    LET e == EndOf(L, L.at, Digits)
        fraction == ~AfterDot(L) /\ ~Past(L, e + 1) /\ L.text[e] = "." /\ L.text[e + 1] \in Digits
    IN  IF fraction THEN Push(L, "Float", L.at, EndOf(L, e + 1, Digits) - 1)
        ELSE Push(L, "Integer", L.at, e - 1)

RawPrefix(hash) == IF hash THEN <<"r", "#", "\"">> ELSE <<"r", "\"">>
RECURSIVE LexRaw(_, _, _)
LexRaw(L, i, end) ==
    IF Past(L, i) THEN Stops(L, i, "unterminated raw string")
    ELSE IF StartsAt(L, i, end) THEN Push(L, "RawString", L.at, i + Len(end) - 1)
    ELSE LexRaw(L, i + 1, end)
LexRawString(L, hash) ==
    LexRaw(L, L.at + Len(RawPrefix(hash)), IF hash THEN <<"\"", "#">> ELSE <<"\"">>)

\* The character of a string at i: the position behind it, or what is wrong.
CookedCharacter(L, i) ==
    IF L.text[i] \in Breaks THEN [next |-> i, err |-> "unterminated"]
    ELSE IF L.text[i] # "\\" THEN [next |-> i + 1, err |-> "none"]
    ELSE IF Past(L, i + 1) \/ L.text[i + 1] \notin Escapes THEN [next |-> i + 1, err |-> "escape"]
    ELSE [next |-> i + 2, err |-> "none"]

LexOperator(L) ==
    LET fits == {k \in DOMAIN MultiCharacterTokens : StartsAt(L, L.at, MultiCharacterTokens[k][1])}
        k == CHOOSE k \in fits : \A other \in fits : k <= other
    IN  IF fits # {}
        THEN Push(L, MultiCharacterTokens[k][2], L.at, L.at + Len(MultiCharacterTokens[k][1]) - 1)
        ELSE IF L.text[L.at] \in SingleCharacterTokens THEN Push(L, L.text[L.at], L.at, L.at)
        ELSE Stops(L, L.at + 1, "unexpected character")

\* Every } of the code inside a string ends it.
BracesIgnored(depth, char) == depth
\* How deep an opening and a closing brace of the code inside a string leave it.
BracesAfter(depth, char) == IF char = "{" THEN depth + 1 ELSE depth - 1

-----------------------------------------------------------------------------
(* Strings hold code, which holds strings.                                 *)
RECURSIVE LexToken(_), LexCookedString(_, _), LexInterpolation(_, _), LexPart(_, _),
          LexContinuation(_, _, _)

LexToken(L) ==
    IF StartsAt(L, L.at, RawPrefix(TRUE)) THEN LexRawString(L, TRUE)
    ELSE IF StartsAt(L, L.at, RawPrefix(FALSE)) THEN LexRawString(L, FALSE)
    ELSE IF L.text[L.at] \in Letters THEN LexWord(L)
    ELSE IF L.text[L.at] \in Digits THEN LexNumber(L)
    ELSE IF L.text[L.at] = "\"" THEN LexCookedString(L, L.at + 1)
    ELSE LexOperator(L)

\* The string that starts at L.at, from its character i on.
LexCookedString(L, i) ==
    IF Past(L, i) THEN Stops(L, i, "unterminated")
    ELSE IF L.text[i] = "\"" THEN Push(L, "String", L.at, i)
    ELSE IF StartsAt(L, i, <<"$", "{">>)
         THEN LexInterpolation(Push(L, "InterpolationStart", L.at, i + 1), 0)
    ELSE IF CookedCharacter(L, i).err # "none" THEN Stops(L, i, CookedCharacter(L, i).err)
    ELSE LexCookedString(L, CookedCharacter(L, i).next)

\* Code inside a string, `depth` braces deep.
LexInterpolation(L, depth) == LexPart(SkipTrivia(L), depth)
LexPart(L, depth) ==
    LET char == L.text[L.at]
        next == IF char \in {"{", "}"} THEN Push(L, char, L.at, L.at) ELSE LexToken(L)
    IN  IF Past(L, L.at) THEN Stops(L, L.at, "unterminated")
        ELSE IF char = "}" /\ depth = 0 THEN LexContinuation(L, L.at + 1, L.at)
        ELSE IF next.err # "none" THEN next
        ELSE LexInterpolation(next, IF char \in {"{", "}"} THEN BracesAfter(depth, char) ELSE depth)

\* The rest of a string after the code that the brace at `segment` ends.
LexContinuation(L, i, segment) ==
    IF Past(L, i) THEN Stops(L, i, "unterminated")
    ELSE IF L.text[i] = "\"" THEN Push(L, "InterpolationEnd", segment, i)
    ELSE IF StartsAt(L, i, <<"$", "{">>)
         THEN LexInterpolation(Push(L, "InterpolationMiddle", segment, i + 1), 0)
    ELSE IF CookedCharacter(L, i).err # "none" THEN Stops(L, i, CookedCharacter(L, i).err)
    ELSE LexContinuation(L, CookedCharacter(L, i).next, segment)

RECURSIVE LexTopLevel(_)
LexTopLevel(L) ==
    IF L.err # "none" \/ Past(L, L.at) THEN L ELSE LexTopLevel(SkipTrivia(LexToken(L)))

\* All tokens of a text, with the end of the file behind them.
WithEnd(L) ==
    IF L.err # "none" THEN L ELSE Push(L, "Eof", Len(L.text) + 1, Len(L.text))
Lex(text) == WithEnd(LexTopLevel(SkipTrivia(Lexer0(text))))
=============================================================================
