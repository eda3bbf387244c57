SPECIFICATION Spec
CONSTANT Rules <- ParserRules
CONSTANT Productions <- GrammarRules
CONSTANT Fragments <- TheFragments
INVARIANT LineBreaksAreSeen
INVARIANT InterpolationsNest
INVARIANT ParsedAsTheGrammarSays
INVARIANT LimitIsNeverEarly
CHECK_DEADLOCK FALSE
