----------------------------- MODULE MCFrontEnd -----------------------------
(***************************************************************************)
(* The fragments files are written in.                                     *)
(***************************************************************************)
EXTENDS FrontEnd

Tokens(tags) == [k \in DOMAIN tags |-> [tag |-> tags[k], nl |-> FALSE]]
\* Pieces of one token, on the line of the piece before and below it.
Same(tags) == {<<[tag |-> t, nl |-> FALSE]>> : t \in tags}
Below(tags) == {<<[tag |-> t, nl |-> TRUE]>> : t \in tags}

Inside(before, pieces, after, most) ==
    [chars |-> FALSE, before |-> Tokens(before), pieces |-> pieces, after |-> Tokens(after),
     most |-> most, limit |-> NoLimit]
Limited(limit, f) == [f EXCEPT !.limit = limit]
Body(start) == <<"fn", "Ident", "(", ")", "{">> \o start

Expressions == <<
    Inside(Body(<<>>), Same({"Ident", "+", "*", "==", "<", "..", "-", "&", "||"}), <<"}">>, 5),
    Inside(Body(<<>>), Same({"Ident", "<", "==", "+"}), <<"}">>, 8),
    Inside(Body(<<>>), Same({"Ident", ".", "(", ")", "[", "]", ",", "Integer"}), <<"}">>, 4),
    Inside(Body(<<"Ident">>), Same({"Ident", "{", "}", ":", ",", ".."}), <<"}">>, 6),
    Inside(Body(<<>>), Same({"Ident", "InterpolationStart", "InterpolationMiddle",
                             "InterpolationEnd", "+"}) \cup Below({"Ident"}), <<"}">>, 6),
    Inside(Body(<<"fn", "(">>), Same({"mut", "Ident", ":", "&", ",", ")", "->", "{"}),
           <<"}", "}">>, 6),
    Inside(Body(<<>>), Same({"unsafe", "{", "}", "handle", "with", "Ident", "catch"}), <<"}">>, 6),
    Inside(Body(<<"handle", "{", "}", "with", "{">>),
           Same({"Ident", ".", "(", ")", "=>", ","}) \cup Below({"Ident"}), <<"}", "}">>, 7)
    >>

Statements == <<
    Inside(Body(<<>>), Same({"Ident", ";", "=", "("}) \cup Below({"Ident", "(", ")", "."})
                       \cup {<<[tag |-> "-", nl |-> TRUE], [tag |-> "Ident", nl |-> FALSE]>>},
           <<"}">>, 4),
    Inside(Body(<<>>), Same({"let", "mut", "Ident", "=", ":", "return"})
                       \cup Below({"Ident", "return"}), <<"}">>, 5),
    Inside(Body(<<"Ident">>), Same({"Ident", "[", "]", "=", "+=", ".", "super", "::"}), <<"}">>, 5),
    Inside(Body(<<"if">>), {Tokens(<<"(", "Ident", "{">>), Tokens(<<"Ident", "{">>),
                            Tokens(<<"else", "{">>)} \cup Same({"Ident", ")", "}"}), <<"{", "}", "}">>, 7),
    Inside(Body(<<"if", "Ident", "{", "}">>),
           Same({"else", "{", "}", "if"}) \cup Below({"else", "Ident", "{"}), <<"}">>, 5),
    Inside(Body(<<>>), Same({"while", "loop", "for", "Ident", "in", "{", "}", "break", ";"}),
           <<"}">>, 5),
    Inside(Body(<<"if", "let">>),
           Same({"Ident", "(", ")", "{", "}", ",", "..", ":"}), <<"=", "Ident", "{", "}", "}">>, 6),
    Inside(Body(<<"let", "(">>), Same({"Ident", ",", ")", "="}), <<"}">>, 8),
    Inside(Body(<<"match", "Ident", "{">>),
           Same({"Ident", "=>", ",", "|", "if"}) \cup Below({"Ident", "|"}), <<"}", "}">>, 6),
    Inside(Body(<<"Ident">>), Same({"catch", "{", "Ident", "=>", "}", ","}) \cup Below({"catch"}),
           <<"}">>, 7)
    >>

Declarations == <<
    Inside(<<"type", "Ident", "=">>,
           Same({"Ident", "fn", "(", ")", "<", ">", ",", "->", "&"}), <<>>, 5),
    Inside(<<"type", "Ident", "=", "fn", "(", ")", "->">>,
           Same({"fn", "(", ")", "->", "Ident", "with", "{", "}"}), <<>>, 7),
    Inside(<<"fn", "Ident", "(", ")", "with", "{">>,
           Same({"Ident", "unsafe", "<", ">", ",", "effect", "{", "}"}), <<"}", "{", "}">>, 7),
    Inside(<<"fn", "Ident", "(">>, Same({"self", "&", "mut", "Ident", ":", ","}),
           <<")", "{", "}">>, 6),
    Inside(<<"fn", "Ident", "<">>, Same({"Ident", "effect", ",", ":", "+"}),
           <<">", "(", ")", "{", "}">>, 7),
    Inside(<<"fn", "Ident", "(", ")">>,
           Same({"->", "Ident", "{", "with", "}"}) \cup Below({"{", "with"}), <<"}">>, 5),
    Inside(<<"fn", "Ident", "(", ")">>,
           Same({"->", "Ident", "<", ">", "{", "with", "}"}) \cup Below({"with"}), <<"}">>, 6),
    Inside(<<"struct", "Ident", "{">>, Same({"pub", "Ident", ":", ","}) \cup Below({"Ident"}),
           <<"}">>, 7),
    Inside(<<"enum", "Ident", "{">>, Same({"Ident", "(", ")", "{", "}", ":", ","}), <<"}">>, 6),
    Inside(<<"trait", "Ident", "{">>,
           {Tokens(<<"fn", "Ident", "(", ")">>)} \cup Same({"type", "Ident", ":", "+", "=", ";"}),
           <<"}">>, 6),
    Inside(<<"trait", "Ident", "{">>,
           {Tokens(<<"fn", "Ident", "(", ")">>), Tokens(<<"Ident", ":", "Ident">>)}
           \cup Same({"type", "Ident", "+", "=", ";"}) \cup Below({"type"}), <<"}">>, 6),
    Inside(<<"effect">>, {Tokens(<<"Ident", "{">>), Tokens(<<"fn", "Ident", "(">>)}
           \cup Same({"alias", "=", "{", "}", ")", "->", "Ident", ":", ";"}), <<"}">>, 9),
    Inside(<<"impl", "Ident">>,
           {Tokens(<<"fn", "Ident", "(", ")", "{", "}">>)} \cup
           Same({"for", "where", "Ident", ":", "+", ",", "{", "pub", "type", "=", ";"}), <<"}">>, 7),
    Inside(<<"extern">>, {Tokens(<<"fn", "Ident", "(">>)}
           \cup Same({"type", "Ident", ")", ":", "with", "{", "}", "<", ">"}), <<>>, 8),
    Inside(<<>>, Same({"use", "Ident", "super", "::", "{", "}", "as", ","}), <<>>, 7),
    Inside(<<"mod", "Ident", "{">>,
           {Tokens(<<"use", "Ident">>), Tokens(<<"const", "Ident", "=", "Integer">>)}
           \cup Same({";", "pub"}) \cup Below({"use", "const"}), <<"}">>, 8),
    Inside(<<>>, {Tokens(<<"requires", "{", "}">>), Tokens(<<"use", "Ident">>),
                  Tokens(<<"const", "Ident", "=", "Ident">>)}
           \cup Same({";", "{", "}", "+"}) \cup Below({"use", "const"}), <<>>, 9)
    >>

Nests == <<
    Limited(4, Inside(Body(<<>>), Same({"(", ")", "Ident", "-", "{", "}", "+"}), <<"}">>, 5)),
    Limited(3, Inside(<<"type", "Ident", "=">>, Same({"(", ")", "Ident", "<", ">", ","}), <<>>, 7)),
    Limited(2, Inside(<<"fn", "Ident", "(", ")", "with", "{", "Ident", "<">>,
                      Same({"(", ")", "Ident", "<", ">", ","}), <<">", "}", "{", "}">>, 6)),
    Limited(5, Inside(Body(<<"if", "let">>), Same({"(", ")", "Ident", ","}),
                      <<"=", "Ident", "{", "}", "}">>, 7))
    >>

Written(before, pieces, after, most) ==
    [chars |-> TRUE, before |-> before, pieces |-> pieces, after |-> after,
     most |-> most, limit |-> NoLimit]
Start == <<"f", "n", " ", "a", "(", ")", "{">>
Texts == <<
    Written(Start \o <<"\"", "$", "{">>,
            {<<"\"">>, <<"$", "{">>, <<"{">>, <<"}">>, <<"a">>, <<"\\", "n">>}, <<"\"", "}">>, 5),
    Written(Start, {<<"a">>, <<"\n">>, <<"/">>, <<"/", "/">>, <<"=">>, <<" ">>, <<"r", "\"">>},
            <<"\n", "}">>, 5),
    Written(Start, {<<"1">>, <<".">>, <<"a">>, <<"=">>, <<"i">>, <<"f">>}, <<"}">>, 4)
    >>

TheFragments == Expressions \o Statements \o Declarations \o Nests \o Texts

\* Not among these: where the parser and the page that is the grammar disagree,
\* to be taken for TheFragments to see it.
LinesFragments == <<
    Inside(<<"trait", "Ident", "{">>, Same({"type", "Ident", ":"}) \cup Below({"Ident"}), <<"}">>, 4),
    Inside(Body(<<>>), Same({"!", "-", "&", "Ident"}) \cup Below({"Ident"}), <<"}">>, 3) >>
BraceFragments == <<
    Inside(<<"fn", "Ident", "(", ")">>, Same({"->", "Ident", "<", ">"}) \cup Below({"{"}), <<"}">>, 6) >>
Operation == <<"effect", "Ident", "{", "fn", "Ident", "(">>
TypedParameters == {Tokens(<<"Ident", ":", "Ident">>), Tokens(<<"mut", "Ident", ":", "Ident">>)} \cup Same({","})
OperationFragments == <<
    Inside(Operation \o <<")", "->">>, {Tokens(<<"&", "Ident">>)} \cup Same({"Ident"}), <<"}">>, 1),
    Inside(Operation, TypedParameters, <<")", "->", "Ident", "}">>, 3),
    Inside(<<"extern", "fn", "Ident", "(">>, TypedParameters, <<")", "with", "{", "}">>, 3) >>
=============================================================================
