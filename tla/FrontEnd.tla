------------------------------ MODULE FrontEnd ------------------------------
(***************************************************************************)
(* From a file to its tree: prepare.rs hands every file to lex and the     *)
(* tokens to parse.  A file is written one piece after the other, a piece  *)
(* being some characters or tokens, inside a fragment: what stands before and *)
(* after it, which pieces there are and how long it gets.  After every     *)
(* piece the whole file is lexed and parsed.  A file in which the parser   *)
(* gave up before the end of what is written is not continued.             *)
(***************************************************************************)
EXTENDS Lexer, Parser, Grammar, FiniteSets

CONSTANT Fragments \* the sequence of fragments

VARIABLES fragment, \* its number
          written,     \* the pieces written
          lexed,    \* what the lexer made of the file
          parsed    \* what the parser made of its tokens

vars == <<fragment, written, lexed, parsed>>

NoLimit == 1000
Unlexed == [toks |-> <<>>, err |-> "none"]
EndOfFile == [tag |-> "Eof", nl |-> FALSE]

\* The tokens of a file: given by the fragment, or lexed from characters.
Outcome(L) == [toks |-> L.toks, err |-> L.err, at |-> L.at]
LexFile(f, pieces) ==
    IF f.chars THEN Outcome(Lex(f.before \o pieces \o f.after))
    ELSE [toks |-> f.before \o pieces \o f.after \o <<EndOfFile>>, err |-> "none", at |-> 0]

\* A file that does not lex is not parsed.
ParseFile(f, lex) ==
    IF lex.err # "none" THEN [out |-> <<>>, err |-> [at |-> 0, why |-> "not lexed"]]
    ELSE Parse(lex.toks, f.limit)

\* Whether more pieces can make the file a program: the parser reached the
\* end of what is written, or the lexer ended inside a string.
ReachesEnd(s, end) == ~Failed(s) \/ s.err.at >= end
CanGoOn(f, lex) ==
    IF lex.err # "none" THEN lex.err = "unterminated"
    ELSE ReachesEnd(ParseTokens(lex.toks, NoLimit), Len(lex.toks) - (IF f.chars THEN 1 ELSE 0))
GoesOn(f, pieces) == CanGoOn(f, LexFile([f EXCEPT !.after = <<>>], pieces))

Init ==
    /\ fragment \in DOMAIN Fragments
    /\ written = <<>>
    /\ lexed = LexFile(Fragments[fragment], <<>>)
    /\ parsed = ParseFile(Fragments[fragment], lexed)

Write(piece) ==
    /\ written' = written \o piece
    /\ lexed' = LexFile(Fragments[fragment], written')
    /\ parsed' = ParseFile(Fragments[fragment], lexed')
    /\ UNCHANGED fragment

Next ==
    /\ Len(written) < Fragments[fragment].most
    /\ GoesOn(Fragments[fragment], written)
    /\ \E piece \in Fragments[fragment].pieces : Write(piece)

Spec == Init /\ [][Next]_vars

-----------------------------------------------------------------------------
(* Nodes and spans.                                                        *)
RECURSIVE NodesIn(_)
NodesIn(nodes) ==
    UNION {{<<nodes[k].kind, nodes[k].from, nodes[k].to>>} \cup NodesIn(nodes[k].sub)
           : k \in DOMAIN nodes}

TypeOK ==
    /\ fragment \in DOMAIN Fragments
    /\ Len(written) < Fragments[fragment].most + 8
    /\ \A k \in DOMAIN lexed.toks : lexed.toks[k].nl \in BOOLEAN
    /\ parsed.err.at \in 0..Len(lexed.toks)
    /\ \A n \in NodesIn(parsed.out) : n[2] \in DOMAIN lexed.toks /\ n[3] <= Len(lexed.toks)

\* The text between two tokens (from..to) is blanks and comments, and holds a
\* line break exactly if the token behind it says so.  A line break that a
\* comment swallows, or that stays noted after the token it belongs to, ends
\* or joins items elsewhere in the file.
Text == Fragments[fragment].before \o written \o Fragments[fragment].after
IsTrivia(from, to) ==
    \A i \in from..to :
        \/ Text[i] \in Blanks
        \/ \E j \in from..i : /\ j < to /\ Text[j] = "/" /\ Text[j + 1] = "/"
                              /\ \A k \in j..i : Text[k] \notin Breaks
LineBreaksAreSeen ==
    Fragments[fragment].chars /\ lexed.err = "none" =>
        \A k \in DOMAIN lexed.toks :
            LET from == IF k = 1 THEN 1 ELSE lexed.toks[k - 1].to + 1
                to == lexed.toks[k].from - 1
            IN  /\ from <= to + 1 /\ IsTrivia(from, to)
                /\ lexed.toks[k].nl <=> \E i \in from..to : Text[i] \in Breaks

\* Every piece of a string behind code inside it belongs to a piece before
\* that code, and the braces and the strings of the code in between are
\* closed there.  Otherwise a brace of the code ends the code, and the rest
\* of the file is read as text.
CountIn(from, to, tags) == Cardinality({k \in from..to : lexed.toks[k].tag \in tags})
Opens == {"InterpolationStart", "InterpolationMiddle"}
Closes == {"InterpolationMiddle", "InterpolationEnd"}
Balanced(from, to, open, close) ==
    /\ CountIn(from, to, open) = CountIn(from, to, close)
    /\ \A k \in from..to : CountIn(from, k, open) >= CountIn(from, k, close)
Encloses(i, j) ==
    /\ i < j /\ lexed.toks[i].tag \in Opens /\ lexed.toks[j].tag \in Closes
    /\ Balanced(i + 1, j - 1, {"{"}, {"}"})
    /\ Balanced(i + 1, j - 1, {"InterpolationStart"}, {"InterpolationEnd"})
InterpolationsNest ==
    Fragments[fragment].chars /\ lexed.err = "none" =>
        LET pieces(tags) == {k \in DOMAIN lexed.toks : lexed.toks[k].tag \in tags}
        IN  /\ \A j \in pieces(Closes) : \E i \in pieces(Opens) : Encloses(i, j)
            /\ \A i \in pieces(Opens) : \E j \in pieces(Closes) : Encloses(i, j)

\* A file is accepted exactly if the grammar derives it, which it then does
\* in one way, and the tree has the nodes of that derivation: precedence,
\* the comparisons that do not chain, constructions in control heads, where
\* a line break ends an item and where it is a blank, trailing separators.
Ignored == {"ExpressionStatement", "Extern", "Where"}
ParsedAsTheGrammarSays ==
    parsed.err.why \notin {"not lexed", "too deep"} =>
        Derivations(lexed.toks) =
            IF parsed.err = NoError
            THEN {{n \in NodesIn(parsed.out) : n[1] \notin Ignored}} ELSE {}

\* The parser gives up on nesting before it has a tree only where the tree
\* would be past the limit too, and what it accepts is within the limit
\* everywhere the later passes walk.
LongestChain(nodes) ==
    LET chain(k) == Cardinality({n \in nodes : n[1] \in Counted /\ n[2] <= k /\ k <= n[3]})
    IN  IF nodes = {} THEN 0
        ELSE CHOOSE c \in {chain(k) : k \in DOMAIN lexed.toks} :
                \A k \in DOMAIN lexed.toks : chain(k) <= c
Walked(nodes) ==
    {n \in nodes : \A m \in nodes : m[1] \in Unwalked => ~(m[2] <= n[2] /\ n[3] <= m[3])}
AgreesUpTo(limit, free) ==
    free.err = NoError =>
        /\ parsed.err.why \in {"none", "too deep"}
        /\ parsed.err.why = "too deep" => LongestChain(NodesIn(free.out)) > limit
        /\ parsed.err = NoError =>
              /\ parsed.out = free.out
              /\ LongestChain(Walked(NodesIn(free.out))) <= limit
LimitIsNeverEarly ==
    Fragments[fragment].limit # NoLimit =>
        AgreesUpTo(Fragments[fragment].limit, Parse(lexed.toks, NoLimit))
=============================================================================
