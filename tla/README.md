# A verification development of Vorton

Vorton is a compiler, written in Rust, for a small language without garbage
collection: `crates/vorton-compiler` turns a project of Vorton sources into C,
and `runtime/vorton_runtime.c` is linked into the result.  These modules model
the parts of it whose correctness rests on algorithms with state: from the lexer and the parser
through name resolution, the checks of patterns, calls and drops, lowering to the IR, the dataflow
engines and the checks of moves and borrows, to tail calls, what the generated program
does with the storage these are about, and the hash map of the runtime.  Paths in this file are relative to `src/`; `compiler/` stands for
`crates/vorton-compiler/src/`.

Contents: the system; its hazards; the modules; the runs; the proofs; what the
runs found and what one leaves out; what is not modelled; the plan.

## The system

### The pipeline

`compiler/lib.rs` runs the whole compiler on one thread with a large stack, stage
after stage.  A stage gets the complete result of the one before, and
either gives its own or rejects the project; nothing is shared between threads,
and nothing survives the process except the files it writes.

    sources -> lexer, parser -> resolver: discovery, modules, imports, names
            -> prepare: supertraits, trait cycles, alias cycles
            -> checker (types, exhaustive) -> lower -> verify
            -> borrowck (moves, values, loans; dataflow) -> unread
            -> insert_checks -> verify -> mono -> capabilities -> tail -> verify
            -> codegen -> C compiler, with the runtime

| Component | State it keeps | Operations | What makes it correct |
|---|---|---|---|
| Lexer (`lexer.rs`) | position, a stack of modes for interpolated strings | next token | tokens cover the text; the modes are balanced |
| Parser (`parser.rs`, `ast.rs`) | position in the tokens | one function per form | accepts the grammar; no backtracking |
| Nesting limit (`depth.rs`) | a depth | visit a node | no later recursion can exhaust the stack |
| Library graph, modules (`project.rs`, `resolver.rs` 59-250, 601-755) | libraries, files, the tree of modules | validate, index | libraries form no cycle; each module has one origin |
| Discovery (`resolver.rs` 255-583) | pending and attempted files | round of parsing | every file a `use` could mean is parsed, no other |
| Imports (`resolver.rs` 1246-2156) | tables of names per module, public names, candidates and hidden candidates per import | index declarations, resolve in rounds, report | the result depends on no order; private names stay private |
| Names in bodies (`resolver.rs` 2978-5690) | scopes | resolve paths and locals | each name means what its innermost scope says |
| Preparation (`prepare.rs`) | colours, stack and path of a search | check targets, search traits, search aliases | only acyclic declarations pass; the cycle shown is real |
| Checker, types, exhaustiveness (`checker.rs`, `types.rs`, `exhaustive.rs`) | interned types, substitutions, fixed points over recursive types | type each declaration and body; usefulness of patterns | sound typing; a match without a missing case |
| Lowering (`lower.rs`) | scopes, blocks, loop targets | statements and expressions to IR | the IR does what the program says, drop by drop; whatever an exit leaves is released, in order |
| IR and verifier (`mir.rs`, `verify.rs`) | bodies: blocks, places, locals | reverse postorder, `released` | each path to a return has released what it may hold |
| Dataflow (`dataflow.rs`) | start and end of each block, pending positions | `forward`, `backward` | the least solution of the equations |
| Moves (`borrowck/moves.rs`) | places that may be empty | check each use | no empty place is used; moves have an owner to account for |
| Borrows (`borrowck/values.rs`, `loans.rs`) | loans per reference, values of index temporaries | transfer, conflicts, checks to insert | no reference outlives what it points at or sees it change |
| Unread changes (`unread.rs`) | live locals after each change | warn | what is warned about is never read |
| Instances (`mono.rs`, `checker.rs` 1045-1134) | a worklist of instances | instantiate | the worklist ends |
| Capabilities of drop (`capabilities.rs`) | reachability along calls | check drops | a drop that prints is known to print |
| Tail calls (`tail.rs`) | calls marked as jumps | mark | a jump frees what the call would have, and points at nothing freed |
| Code generation (`codegen.rs`, `codegen/body.rs`) | text | one C statement per IR step | a move zeroes its source; an assignment releases what was there |
| Runtime map (`vorton_runtime.c` 560-780) | entries in insertion order, index, counters | insert, get, remove, clear, take | an ordered map; probing ends; counts are exact |
| Runtime strings, numbers, lists | reference counts, buffers | arithmetic, printing, parsing | checked arithmetic; exact text |
| Command line (`main.rs`, `native.rs`) | scratch directories, child processes | check, build, run | exit codes; no directory shared by two processes |

### How the components interact

Within the compiler a call hands over whole data structures.  The
interactions that matter are agreements between stages about the
meaning of that data, each of which one side relies on unchecked:

- discovery and import resolution each read the paths of `use` declarations, and
  must agree about which files a path can name;
- an import looks names up in the tables that other imports are filling;
- preparation runs the same search twice, over traits and over aliases, and the
  type checker recurses over its result without a guard;
- the three forward analyses and the two backward ones are callers of two
  engines, to which they pass joins, effects and summaries, and which visit blocks in
  the order `reverse_postorder` gives them;
- `mir::maybe_filled` is the one account of what holds something: `verify` demands
  a release for it, code generation trusts the releases;
- lowering, verification and the tail-call pass each rely on what the others do with a body: a
  guard reads what its arm will take, and a jump releases what the call would have released;
- recursion that grows a type is rejected in one file and relied upon in another, whose worklist has no limit;
- a bound is checked once in a generic body, and the impl it stands for is looked up for every instance;
- the parser's count of levels and the walk over the finished tree must agree on what is too deep;
- the borrow checker leaves some conflicts to run-time checks, which are inserted by position
  after the analysis and executed by generated code;
- generated code wraps the runtime's map (`codegen.rs` and `codegen/body.rs`), and the loop
  that takes a map apart works on its entries directly.

### What is hard about it

There is no concurrency, no network and nothing persistent, so interleavings here are those of loops over shared tables
(imports) and of program steps with the references that overlap them
(borrowing), and the failures are of three kinds: order (a round, a worklist, a
sequence of checks), staleness (a fact used after what it was about has changed)
and protocol (a sequence of operations which leaves a state no single operation
would).  `PROJECT.json` lists the hazards, each at its line, with the
properties that would catch it.  One has no property: the scratch directories of the command line
(`compiler/main.rs:91`) are named by process and counter and made with `create_dir_all`, which accepts what a killed
process of the same number left behind, while the comment above it says that only this process uses it.

## The modules

Each component has a module with its state, `Init`, an action per step and `Next`;
`MC...` modules only give constants values.  Definitions marked "a bug" are variants
that no specification uses: each is one plausible mistake in the code, and putting it in the place of the
definition it varies must break a property.  Every action is
mapped to its source lines in `PROJECT.json`.

| Module | Models | Extends |
|---|---|---|
| `OrderedMap` | what the language promises of a `Map` (abstract) | |
| `VtMap`, `VtMapProofs` | `vt_map` and the operations code generation builds on it | refines `OrderedMap` |
| `Lexer` | characters to tokens | |
| `ParseSteps`, `Parser` | what a parse function does, one instruction at a time; the productions, and the depth walk | |
| `Grammar` | which token lists are files, and with which nodes (reference) | |
| `FrontEnd` | a file that grows piece by piece, lexed and parsed each time | `Lexer`, `Parser`, `Grammar` |
| `Discovery` | a project: files, modules, `use` declarations; which files are parsed | |
| `Imports`, `ImportsProofs` | tables of names, rounds of resolution, diagnostics | `Discovery` |
| `DeclGraph` | `first_declaration_cycle`: search with an explicit stack | |
| `Prepare`, `PrepareProofs` | `prepare_project`: its checks in sequence | `DeclGraph`, run for traits and then for aliases |
| `TypeTable` | types as terms, their fields, facts about them | |
| `Exhaustive` | usefulness of pattern rows, with witnesses | `TypeTable` |
| `Instances` | bodies checked, growing recursion rejected, instances made, drops that print | `Exhaustive` |
| `Typed` | checked functions: the input of lowering | |
| `Ir` | the steps of the IR | |
| `Lowering` | `lower.rs` | `Typed`, `Ir` |
| `Passes` | `verify.rs`, the move checks of a lowered body, `tail.rs` | `Lowering`, an instance of `Moves` |
| `Meaning` | what the language says a function does (reference) | `Typed` |
| `Compiled` | a function lowered, checked, marked and run beside its meaning | `Passes`, `Meaning` |
| `BlockGraph` | edges and visiting order, and what the engines assume of them | |
| `Forward` | the forward engine over any lattice | `BlockGraph` |
| `Backward` | the backward engine over any summaries; liveness and unread changes, which it finds | `BlockGraph` |
| `EngineProofs` | theorems of both engines and of what liveness means | `Forward`, `Backward` |
| `Dataflow`, `DataflowProofs` | `reverse_postorder` and `Graph::new`, then both engines on one body | `Forward`, `Backward`; the proofs also `EngineProofs` |
| `Mir` | places and what fills them, for the analyses | `Ir` |
| `Moves` | `MaybeMoved`, `Moved`, `MaybeFilled`, `released`, errors | `Mir` |
| `Loans` | what index temporaries hold, the overlap of places; loans, conflicts, inserted checks | `Mir` |
| `BodyProofs` | lemmas about bodies: folds along statements, the analyses at each statement, where checks are inserted | `Moves`, `Loans` |
| `Ownership`, `OwnershipProofs` | an accepted body as it runs: what each part holds | `Moves`; the proofs also `BodyProofs` |
| `Borrowing`, `BorrowingProofs` | an accepted body as it runs: pointers and what spoils them | `Moves`, `Loans`; the proofs also `BodyProofs` |

### The map

The state is the C struct without the padding: `entries` with their live flags,
`used`, `len`, `cap`, `slots` with the two markers, `slotCap`.  A step is one operation,
except that a rebuild is taken apart into its loops (`Compact`, `Resize`, one `PlaceEntry` per entry), because properties must hold while the
index is being filled.  The probing loop of one key is one step; that it ends is a
property of the index (`SearchEnds`), not an assumption.  Insertion is three actions:
the key is present, there is room, there is none.  `BeginTake` and `TakeNext`
are the loop generated code runs when it consumes a map.

The refinement maps entries to the live ones in order; in the middle of a
compaction the entries moved down and those not yet visited make up the
sequence.  `answer` says what an operation gave back, releases included, so the
refinement says also that no key or value is lost or released twice.

### Declarations

`state`, `position`, the stack and the path are those of `first_declaration_cycle`;
`Descend`, `Skip`, `Finish` and `Report` are the four ways a turn of its inner loop can
go, `StartRoot` the outer loop.  `Prepare` runs it twice over the same search variables, for traits and for
aliases, after the check of the targets of supertraits; its outcome is the diagnostic.

### From text to tree

`Lexer` has the state of the code: the position, the tokens so far, whether a line break was passed since the last one.
Words and numbers are spans of characters.  The modes of strings are the recursion of the code: a string holds code, which
holds strings, and the end of the code is found by counting braces.

The parser is recursive descent without backtracking.  `ParseSteps` gives a parse function as a value,
a tree of instructions (expect a token, look ahead, enter a construct, build a node, set the newline mode until
here), and a machine that runs it over the parser's state: position, mode, depth,
error.  `Parser` has a production for every function of `parser.rs`, and the walk of `depth.rs` over the
result.  `Grammar` is the reference: an ambiguous grammar as `docs/lang-spec/syntax.md` writes it, which derives
every end and every set of nodes from a position, without choice, lookahead or mode.  It is that page and nothing else, also where
the parser disagrees: the fragments of `front_end` leave these cases out, which *What the run `front_end` leaves out* lists.
Productions refer to each other by name; the constants `Rules` and `Productions` are the two tables of names, which the configuration
sets to `ParserRules` and `GrammarRules`.

`FrontEnd` lets a file grow by pieces inside one of 42 fragments and lexes and parses it after
each, so that every prefix of every sequence of pieces is a file, right or wrong.

### Programs and instances

`Instances` keeps of a body its matches, calls, operations that run hand-written impls, and prints, in order.  Its phases
are those of the compiler: `CheckBody` one body after the other, `CheckRecursion`, then the worklist of
`mono.rs` one instance at a time, which resolves each call and each method by the instance's arguments
and makes the glue of operations on parts, then the search of `capabilities.rs`.
The verdict is compared with the meaning: the values no arm matches, enumerated; cycles of calls that grow; and
reachability of a print along calls, with type arguments rather than instances, and with what operations run read off the
types inside the value rather than from the glue.

### From functions to code

A function of `Typed` has the statements and expressions that branch, own, borrow or take apart, over a few
types: a door has a drop, a text owns memory without one, a number neither; pairs, options, lists and maps hold doors.
A map keeps the position of a removed entry, as the runtime does, and loops over a map test each position; its keys are
the numbers of its positions, since nothing in the functions inserts.
`Lowering` is `lower.rs`: builders with blocks, scopes and loop targets; each operator takes a builder and gives the
one after it.  `Passes` verifies the body, checks its moves with the analyses of `Moves`, and turns calls into jumps.
`Meaning` says the same of the function without blocks, jumps or temporaries: values live in slots, scopes own slots,
and leaving a scope, by whichever exit, drops what it owns, last first.
It is one recursive definition, `Means`, over statements, places and expressions; `Going` continues it where control does.

`Compiled` puts these in a row (`LowerFunction`, `CheckMoves`, `MarkTailCalls`), then
runs the body on frames of storage, as the C that `codegen/body.rs` writes does, one IR statement or terminator a step: a move
zeroes its source, an assignment releases what was there, a jump to the start keeps its arguments, releases
the locals and sets the parameters.  The world answers calls from outside from a list and records what is seen: calls
with their arguments, drops with what they drop.

### Analyses

The engines are parameterised as in the code: `JoinAll`, `Apply` and the effects of
blocks are constants.  `Visit(i)` is one turn of the worklist loop: it takes the first
(backward: the last) pending position, joins, applies, and marks what depends on it.
The engines assume of the order what the search for it establishes (`WellOrdered`).  `Dataflow` has that search and puts
the three in a row: the search, the forward engine, the backward one, each over the result of the one before.

`Moves` and `Loans` give the analyses as functions of a body: transfer functions,
checks and fixed points, the last computed by iteration over blocks (that the
engines compute just this is what `Forward` and `Backward` show).  `Check` is
the first step of `Ownership` and of `Borrowing`: only an accepted body runs.

### Execution

`Ownership` runs a body on what the generated C does to storage: a move zeroes its
source, an assignment evaluates, releases the old content and stores.  `holds`
is the set of parts that hold something.  `Borrowing` runs a body on the storage that
references reach.  Each reference knows the loans it descends from; an access to
storage, made other than through the reference, spoils it if the two cannot
coexist.  There the index temporaries have values, so that two places overlap in fact or
not, whatever the analysis knows.  `body` is what runs, run-time checks included, and `source` what was checked; `origin` is
the statement of the source that comes next, and `flows` what the check knew before each.
A pointer records its binding, the bindings it was made through (its lineage), and what these were lent: each loan with the storage it
was of at the time.  Both modules leave out what the C of a value looks like.

### Imports

A project is a record of sets (see `Discovery`).  `ParseStep` is one round of
`parse_reachable_sources`; `IndexEntities` fills the tables with what modules declare;
`Resolve` takes one import (`ImportTurn`), `NextRound` begins another round if
anything grew, `Conclude` collects the diagnostics.  `Lookup` walks
a path through containers, and at each segment separates what is open to the
importing module from what is hidden.

## The runs

| Run | Instance | Shows |
|---|---|---|
| `vtmap` | 3 keys, 2 values; two keys share the last slot, the third the slot the probe wraps to | ends of searches, entries found, exact length, refinement of `OrderedMap` |
| `front_end` | 42 fragments: 8 of expressions, 10 of statements, 17 of declarations, 4 near a limit of nesting, 3 of characters | line breaks are seen, interpolations nest, accepted is what the grammar derives and the tree its nodes, the limit is not early |
| `imports` | up to 3 of 20 uses, both orders in one module, 3 variants of the project | independence of order, discovery complete, privacy, findings stand, the end |
| `prepare` | all graphs of 3 traits with up to 2 supertraits; mixtures with aliases and names of other kinds | accepted graphs have no cycle, the first failing check decides, the diagnostic follows a cycle, the search ends |
| `instances` | matches of up to 3 arms over 9 types; generic functions that call each other; drops that may print; operations on parts | verdicts are right, every instance has its impls, the worklist ends |
| `lowering` | 27 fragments (two loop over maps with gaps), straight and in a loop, 7 ends, every sequence of 4 answers | bodies are valid, events are those of the meaning, tail calls do not grow the stack |
| `dataflow` | graphs of 4 blocks with at most 2 edges; effects and code on some | the order is right, both engines solve their equations best, agreement with the paths, the end |
| `ownership` | straight, branching, looping bodies over 9 locals | nothing empty is used, nothing leaks, the account is complete, errors are on paths |
| `borrowing` | bodies with every kind of index and of loan | no spoiled reference is used, arguments are apart, known values are true, panics are real |
| `imports_order` | the choices of 3 uses, one of them of a language function | finding 1 |
| `discovery_groups` | the choices of up to 3 of 4 uses, groups under `root` and `self` among them | finding 2 |
| `tail_calls` | the functions of `lowering` | finding 3 |

Bounds, and why they are enough:

- *vtmap* needs no bound on operations: three keys make a map with finitely many
  states.  Room for four entries is full after four insertions with removals in between,
  which is the first rebuild; compaction in place and growth to eight both happen, as
  do gaps, reused slots, and probe paths through removed slots and round the end.
  Hashes enter the code only as a home slot, and the three chosen collide as
  three keys in eight slots can.  Symmetry exchanges the two keys with one home,
  and the values.
- *front_end*: a fragment fixes what stands before and after, and lets 4 to 9 pieces of 5 to 12 kinds stand
  between; each construct of the language has the pieces that continue it, end it too early, stand in for another or come on the
  next line.  `most` bounds the pieces, and a file is not continued where the parser gave up before its end.  The limit on
  nesting is small in four fragments (2 to 5 rather than the code's) and out of reach in the others.
- *prepare*: three declarations suffice for a self-reference, a cycle behind a tail,
  a diamond, two cycles sharing a node, and a cycle found at each rotation; the
  theorems cover the rest.
- *instances*: a match has columns of booleans, options two deep, an enum with an empty variant, integers (never complete) and
  types without values, with or-patterns and a guarded wildcard.  Two generic functions, a method and
  the main function make cycles of one and two calls that keep, shrink or grow their argument.  `MaxInstances` (12) is above what any
  accepted program reaches: were it met, the run would stop short of `InstantiationEnds`.
- *lowering*: each fragment is one construct that owns, branches, borrows or leaves; each end one way to return or to call the
  function again; the loop around a fragment makes whatever it leaves behind show in the next turn.
  Four answers decide four tests or numbers; when they are used up the outside stops the program, which is an end too.
- *dataflow*: graphs of four blocks are taken mostly once each up to the names of blocks; they include a loop with two
  entries, a loop in a loop and unreachable blocks.  A single fact suffices for a
  lattice of sets, as every such analysis works fact by fact; the
  product of a fact joined by union and one by intersection covers both kinds the
  code uses.  The theorems hold for any lattice.
- *ownership, borrowing*: the bodies are a first statement, two in the middle and a
  last use, from pools with one member for each kind of statement and each relation of
  places that the checks tell apart (same, containing, contained, sibling, payloads of one or of two variants; whole or
  part; variable or temporary), in every combination, but for returning what a branch alone binds; the payloads, which differ
from fields in that those of two variants are apart, have a few bodies of their own.  `MaxSteps` (26 and 40) lets a loop
  turn at least twice, and two turns show what a state carried round the loop does.  The results of the engines are computed by
  rounds until nothing changes; `MaxRounds` (30) bounds them, and a body that had not settled by then would violate
  `EnginesAssumption`, which TLC evaluates.
- *imports*: three uses are what a chain needs to be delivered late, hidden first, then public; the pool
  has a renaming of a module, a renaming re-exported, a group, a path through
  `super`, through an inline module and through another library, a language name and
  a constructor.  `MaxUses` is the bound.

`MCLanguagePool` and `MCGroupPool`, which two of the violation runs use, hold the uses of each finding.

Fairness is stated where a property is about an end (`Decides`, `AnalysesEnd`,
`ResolutionEnds`, `InstantiationEnds`): weak fairness of the whole next-state relation.  It says that a
loop on a single thread keeps running, no more; nothing is assumed about which of several
enabled steps is taken.  `Instances` writes it out (always again no step is possible, or a step is taken) with
the condition of each phase in place of `ENABLED`, which TLC would evaluate by making the step.  The
loops end on their own; deadlock checking is therefore
off except in `vtmap`, where some operation is always possible.

## The proofs

The theorems below hold for every value of the constants; `tlapm` checks each proof down to
its leaves.  Each module proves first that an inductive invariant `IInv` holds, by a step for each
action, and then derives what it is for.

**VtMap** (`VtMapProofs`), from: hashes are natural numbers; the zeroed value is
no key and no value.  `IInv` is the type invariant with `RoomOK` (there are twice as many slots as
positions, and no more positions in use than exist), `CountOK` (what each loop of a rebuild has counted
so far) and `IndexOK` (a slot names a live entry, no two name the same one, and no more are filled than positions
were indexed).  The strengthening is necessary: that some slot is empty follows only from counting,
and the count survives a removal only because a removed slot keeps its marker while its
position stays in use.  From it: `TypeCorrect`; `ProbingEnds`, the claim of the comment on
`vt_map` that a search always meets an empty slot; `LengthExact`.

`FoundInv` adds `KeysOK` (live entries have different keys, also while gaps are being closed, and a pending insertion's key is not among
them) and `PathsOK` (every indexed entry lies on the probe path of its key, behind slots that were filled at some time).
Filling a free slot cuts no path (`PathsKept`), and neither does a removal, whose marker is not the empty slot.  From it:
`EntriesAreFound`, for every hash function.

`OrderInv` carries the refinement of `OrderedMap`.  The abstract map is the list of the live entries, and what a
recursive filter yields cannot be proved by induction here; but it is determined as the one increasing enumeration of the live
positions (`Listing`), and each operation builds the next listing out of the last: one at the end for an insertion, one left out
for a removal, the same list behind other positions while gaps are closed.  From it: `Refinement`, that every step of the C
code is a step of the abstract map or none.

**Preparation** (`PrepareProofs`), from: `N` is a natural number, the graphs are graphs over `1..N`, and projects name declarations
or other things at places of the source (`ProjectsAssumption`).  First, about the search of `DeclGraph`:
`IInv` says that the stack is the path of the search (`StackIsPath`), that what is finished leads only to
what is finished and contains no cycle, that the edges an active node has taken lead to finished
nodes except the one to the next frame (`SearchInv`), and that an accepted graph is acyclic.  A node that
becomes finished cannot close a cycle through finished nodes, as they lead only to finished
ones: this is why no edge to a finished node need be followed.  From it: `Completeness` (an accepted graph of
any size has no cycle) and `Soundness` (a reported cycle exists, is simple, and starts at its first declaration).
Then, about the checks in a row: the edges of a declaration are its names (`EdgesAreNames`, by a count of
places in place of an induction), so an accepted graph or a found cycle is one of the project.  `PrepareInv` adds the
phases to the invariant of the search: a search runs over the edges of its phase, and a later phase keeps what the earlier ones showed.
From it: `Verdict` and `Diagnostic`, for projects of any size and cycles of any length.

**Dataflow** (`DataflowProofs`), from: the successors of a block are blocks, and the effects and summaries of bodies are of their types
(`BodiesAssumption`).  `SearchInv` says of the search that each seen block is
open (on the stack) or closed (in the postorder), at one place; that the edges taken so far lead to seen blocks, and so
all edges of a closed one; that the entry is opened first and closed last; and that what was seen lies in every set that holds the entry and follows
the edges.  From it: `OrderIsRight`, which makes the order the one both engines assume.
`FollowsInv` adds the direction of the edges: each open block leads to those above it on the stack, so an edge of a closed
block leads to one closed before it or goes back to a block that leads here.  From it: `OrderFollows`.
`EnginesInv` says that nothing of the engines' state is touched before there is an order, and that from then on both engines' own
invariants hold, which no step of the other disturbs.  From it: `ForwardSolves` and `BackwardSolves`, so that the
whole analysis of a body, search included, ends in a solution of the equations, each in the least one
(`ForwardMostPrecise`, `NeverTooMuch`), and what the liveness found means in terms of paths is proved of the whole as well
(`LiveMeansUsed`, `UnreadMeansNeverRead`).  For this `BodiesAssumption` also says that the code of a block is not empty and that its last
step, the terminator, replaces nothing.

**Forward** (`EngineProofs`), from: the order lists the reached blocks, the entry first, without
repetition (which `OrderIsRight` proves); joins of states are states; effects map states to
states; the mark for "no state yet" is not a state.  `IInv` adds to the types that pending blocks are reached
(`VisitedIsReached`, the `expect` in the code) and that whatever is not pending is up to date (`Settled`).
From it: `NeverUnreached` and `FixedPoint`, neither of which needs monotone effects.  `LeastFixedPoint` does: `OrderAssumption`
says that joining is the least bound in an order which the effects respect, and `NeverAbove` that the engine's
states stay below every solution.

**Backward** (`EngineProofs`), from the same order and typed summaries.  `LiveInv` is the type invariant
(`LiveTypeOK`), `LiveSettled`, and that no set exceeds any solution, even of the inequations alone (`NeverTooMuch`).  From it: `LiveFixedPoint` and `Least`, which
together make the result the least solution: just the liveness that the analyses need.  What a fact means is about
paths: something is live where a path leads to a use before it is replaced.  That the least solution
says so is proved in both directions: points from which a use is reached are a set closed under
the steps of the code, so the summaries, recursive functions along a block, are followed downwards to the use that comes first; and
what the paths allow solves the inequations, so the least solution does not exceed it.

**Ownership** (`OwnershipProofs`), about the runs of any body that the move checks and the releases accept.  From it being
assumed that bodies are well formed (`BodiesAssumption`: blocks and locals that exist, edges of the terminators); that
references own nothing; that the leaves, by which the model tells parts of locals apart, are at least as fine as what the
body moves; that the results of the engines solve their equations, which `FixedPoint` and `LiveFixedPoint` prove of the engines
(`EnginesAssumption`); and that the variables of a pattern are released where their arm ends (`PatternsAssumption`), a fact about
lowering, checked of what lowering produces by the run `lowering`.  `OwnershipInv` says that
at each point of a run the analyses, continued from the start of the block to that point (`Between`), are on the safe side of what
really is held: what is held may be filled, and a leaf that is live and not held is known to be empty.  Each statement is taken
through the three analyses at once.  At a jump the round of each analysis over the next block starts at least where this one ended,
as its equations are solved.  From it: `NothingEmptyUsed`, `HoldersTracked`, `NothingLost`.

**Borrowing** (`BorrowingProofs`), about the runs of any body that the move checks and the borrow checks accept.  It is assumed that
bodies are well formed and that the engines have solved their equations, as above; that the checks they ask for compare indices, which
of a solution that is not the least one does not follow (`EnginesAssumption`); that references, numbers and the caller's storage are
different things (`LocalsAssumption`); and two facts about lowering.  `Lowered` says what it writes: what is bound is a borrow or the result
of a call, indices are numbers, what is changed through is `&mut`, and a reference lent to a call is one made for it by a borrow, through
which nothing else is borrowed and which is dead behind the call.
`Scoped` says where it ends things: what a loan indexes with does not change while the loan is in force, a loan is never
still in force where it is made again, and an argument that waits carries its own loan and those of other storage.  TLC evaluates all of this on
every body of the run `borrowing`.

`Inv` says that a body that runs has been accepted, and relates each point of its run to the statement of the source that comes next
(`Follows`): the statements of the block are those of the source with the checks woven in before those they are
for (`ChecksAreWoven`, about the insertions from the last to the first); each reference that is alive, which is to say
live and not moved from, holds a pointer to what the caller owns or to a local that a loan the check carries for it is of, a loan to
change it if the pointer may (`Rooted`); and
each index temporary holds what the expression known for it gives at this moment (`TrueAt`).  That only live references are
rooted is what makes it inductive: the check forgets the loans of the others.  For `TrueAt` one needs `Rooted`, as what is changed
through a reference or by a call it is lent to is found by the loans it carries, and `Rooted` needs the known values nowhere.  Expressions are nested to
any depth, and what they give is a recursive function; that it exists is shown from a smallest expression for which it would not.
From it: `KnownIsTrueHolds` and `ReturnedPointsOutsideHolds`.

`Safe`, which is inductive together with `Inv`, says that the references that are alive are `Sound` and that the checks
of the statement that comes next, as far as they have run, found some pair of indices to differ.  It is here that `KnownIsTrue` is needed: of a loan in force
and an access that it does not suffer the check has shown the paths to part, by fields or by constants that the indices are known to be, or has asked for a check,
so the storage they reach at run time is apart (`NotMeeting`) if they start from the same base.  Storage of different
bases is the difficulty, as a reference may point at what another one does, and the check compares places of the same local only.  `Sound` relates each two references that are alive:
`Apart`, what they were lent behind one base does not meet unless both may only look; `Derived`, what was made through a reference was lent
something of what that reference points at; `Unused`, nothing was made through a reference that is lent to a call; and
`Diverge`: of two that meet, not both only to look, the later one was made through the earlier, or they were lent meeting storage behind one
base, by different loans.  The last one is what carries an access from the storage it reaches to a base that it shares with a loan that the check
knows of: an access that would spoil a reference is a rival of it, so one of the two cases gives a loan in force, and `NotMeeting` refutes it
(`NoneIsSpoiled`).  A base is a local together with the binding and the target it had (`BaseAt`), since a reference that is bound again
is another base.  Each step that binds has a lemma for each part (`BorrowPoints`, `BorrowApart`, `BorrowRelates`; `ReturnPoints` and so on), and what does not bind keeps `Sound` (`Stays`).
From it: `NothingSpoiledIsUsedHolds` and `ArgumentsApartHolds`.

**Imports** (`ImportsProofs`), from: projects have modules with paths of names, inline modules have a parent, and a
`use` names something (`InputsAssumption`).  A lookup is a recursive function along a path, of which only the last step matters for privacy
(`FoundFits`): what is open to a module is public, or was delivered to a module around it, or is declared in one.  `PrivateInv`
says that all that is delivered or found is public or in reach of its home, and what is delivered publicly is public, *unless* some import
re-exports what is private; that exception is needed, as resolution goes on after such an import and
rejects the project only at the end, and no step takes it back, as candidates only grow.  From it: `PrivateKept`.

`FindInv` says of a round without changes that the imports taken so far mean no more in the present tables than was found, and of any moment that
what was found is still meant.  The latter needs that larger tables have more in reach (`LookupGrows`), which is true of
everything but functions of the language, hidden by values of their name.  So `FindingsHold` says `FindingsStand` as long as only declarations hide
them (`HiddenByDeclarations`); finding 1 is what happens otherwise.  `LeastInv` compares the tables with all that
hold the declarations and what imports deliver from them.  From it, under the same condition: `LeastTables`, that
the final tables are the least of these, in the definition of which no order occurs; and `OrderDecidesNothing`, which is
`OrderHasNoPriority` wherever the rounds of the opposite order have come to their end too (TLC evaluates a fixed number of them).

### What is only model-checked

- Liveness (`Decides`, `AnalysesEnd`, `ResolutionEnds`, `InstantiationEnds`): the proof
  system has no rules for fairness.
- `ErrorsAreOnPaths`: that the errors reported are no more than a run can meet quantifies over runs.
- `MeantFilesAreParsed`: that what discovery foresees and what resolution finds agree relates two fixed points over different
  paths, and fails for the groups of finding 2.
- `PanicsAreReal`: at a join the check keeps the loans of all paths.  Each reference is bound in one place, as no branch chooses a borrow
  (`docs/lang-spec/syntax.md:190`, `checker.rs:2263`), so these are the loans of the path taken; but that needs the solution to be the least one, which its
  equations do not say.
- Everything about the front end, instances and lowering, whose definitions are recursive over syntax.

Type invariants are proved where there is a proof module (`TypeCorrect` for the map, and as parts of the other inductive invariants) rather than
run beside the properties that would fail with them.

## What the runs found

1. **An import of a language function depends on the order of imports** (`imports_order`;
   `resolver.rs:1921`).  A module in which a value of the name `print` is imported loses sight of the
   language's `print`, but an import which has already looked the name up keeps both meanings.  So
   `use print as say` before `use a::f as print` is ambiguous, and behind it means `a::f` alone.
   `docs/lang-spec/modules.md:149` says that the order of declarations gives no
   priority.  `imports` shows that nothing else in the pool depends on order.
2. **A group under `root` or `self` alone is not discovered** (`discovery_groups`; `resolver.rs:545`).
   Discovery scans the path of a group without its items and takes a lone `root` or `self` for an ordinary name, so
   `use root::{a}` makes no file part of the project; import resolution flattens the group, finds the
   module by its file name, and accepts it although it was never parsed.  `docs/lang-spec/modules.md:60` says that every
   module a `use` touches is parsed first.
3. **A call whose subject was taken apart is no tail call** (`tail_calls`; `compiler/tail.rs:142`).
   `docs/lang-spec/type-system.md:379` says that what has moved away does not count when it is decided whether anything with a drop is left.  The
   pass asks for what may be filled, and a variable counts as filled after a pattern has taken its parts, even all of them.  So
   `match make() { Some(x) => f(x), None => () }` in `f` grows the stack with each call.  `lowering` shows that calls are marked
   wherever what has a drop moved away as a whole.
## What the run `front_end` leaves out

At three points the parser disagrees with `docs/lang-spec/syntax.md`.  No file of the run meets them, so that the run says nothing of
them; with `Fragments <- LinesFragments`, `BraceFragments` or `OperationFragments` in `MCFrontEnd.cfg` TLC shows
each as a file on which `ParsedAsTheGrammarSays` fails.

- `LinesFragments`: a line goes on after `:`, `!`, `&` and a sign (`parser.rs:2136`).
  `docs/lang-spec/syntax.md:13` lets a line break in a statement sequence end the item, except after the tokens that line 15 lists:
  binary and assignment operators, `,`, `.`, `::`, `->`, `=>` and `|`.  `continues_line` has more of them, and looks at how a token is
  spelled only, so that a minus in front of an operand counts.
- `BraceFragments`: a `{` may stand on its own line after a closing `>` (`parser.rs:2115`).  For the same reason
  the `>` of `fn f() -> List<Int>` counts as a comparison.  `docs/lang-spec/syntax.md:18` wants the `{` on the line of the head,
  and line 312 lists the form among those excluded.
- `OperationFragments`: operations return no borrows, and `mut` is read in functions and closures only (`parser.rs:709`, 707 and 743).
  `docs/lang-spec/syntax.md:98` and 101 give operations and extern functions the same `Param` as functions, with `mut`, and operations the same
  `ReturnType`, with a borrow.

What the page leaves open the grammar reads the way its examples do, and says so: line breaks between `<` and `>` of type arguments and in
the code inside a string are blanks, and the tokens of rule 15 are recognised as the page's list of tokens has them, so that the `=` of a `let` is one.  That
`mut` is for parameters by value is a constraint on a production which the code checks later (`checker.rs:1525`); the grammar leaves it out.
One more difference, in what counts as a level of nesting: the parser does not count the arms of an `else if` chain, the walk over the
finished tree does.

## What is not modelled

The wording and the spans of
diagnostics, the text of the generated C, formatting and parsing of numbers, strings and lists of the runtime.
Scopes of local names in bodies, the graph of libraries, the roles of the core library,
the command line.  The typing rules of
single expressions are a table rather than an algorithm.  In what is modelled:

- in the lexer: the values of literals and escapes, beyond which of them are errors;
- in types: the interning that shares them, instances that wait for their template, and the limit on instantiation depth; a
  type is a term here;
- in bodies of `Instances`: everything but matches, calls, operations and prints;
- in lowering: operators, literals and interpolation are one operation of each kind;
- C allocation and its failure (the runtime stops), machine widths of `len` and `cap`, which memory exhausts first;
- the probing of one key as separate steps, as nothing runs between them;
- in the IR: types, arithmetic other than the addition that indices need, closures' code, and the insides of
  calls, which may change whatever they were lent;
- in imports: members of traits and impls, and the names every module gets from the core library;
- file-system errors in discovery, which stop it at once.

## The plan

The modules were written in the order of what rests on them: the map, declarations,
dataflow, moves, borrows and imports, then lowering with tail calls, the front end, and instances.  What is left, in this
order:

1. **Names in bodies** (`resolver.rs` 2978-5690): scopes and paths, against the declared scopes of the language.
2. **Libraries and modules** (`resolver.rs` 59-250, 601-755), beside `DeclGraph`.
3. **Types** (`types.rs`): interning and instances that wait for their template, against the terms of `TypeTable`.
4. **Scratch directories** (`main.rs` 91): processes that are killed and whose number is used again.

Theorems to prove next: that lowering gives what `Lowered` and `Scoped` say of it.
