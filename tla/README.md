# Verification of tison

tison (`src/README.md`) is a parser generator for TypeScript: a grammar is a
plain value, `makeParser` builds LALR tables from it and returns a parser that
runs on a flat stack and forks into a graph of stack frames where the tables
hold a conflict; `makePegParser` reads the same value as a packrat PEG. Around
the engine the repository keeps a table cache and, as examples, a C
preprocessor and a compiler from TypeScript to WebAssembly with a dataflow middle end and its own
runtime library. This directory holds TLA+ models of the engine and of the parts of the
examples that keep state and have control flow worth checking, the TLC
instances that check them, and the proofs checked by TLAPS. Paths that start
with `src/` are those of the repository; `lalr.ts:304` is short for
`src/src/lalr.ts:304`, and the files of the examples are named without their
directory (`preprocessor.ts` is `src/src/examples/CPP/preprocessor.ts`,
`transform.ts` and `backend.ts` are in `src/src/examples/TS`, `vsdg.ts` is
`src/src/examples/vsdg.ts` and `TS/vsdg.ts` the dialect of it in `TS`, `promise.ts`,
`regexp.ts`, `string.ts`, `bigint.ts` in `src/src/examples/TS/lib`).

## 1. The system

### Components, state, operations

| Component | Code | State it keeps | Operations |
|---|---|---|---|
| Grammar builder: interning | `core.ts:294-420` | `rules`, `terminalsByName`, the maps from names and from rule arrays to nonterminals, the array of rule arrays still to scan | resolve a symbol, intern a terminal, intern a rule array, add a rule, add a mid-rule action |
| FIRST sets | `core.ts:417-446` | `first[sym] = {terms, nullable}`, the pass's `changed` flag | scan a rule; next pass; return |
| LR(0) automaton | `lalr.ts:91-153` | `lr0States` with their item order, `lr0Trans`, the closure queue | close an item, number a state or find it, move over a symbol |
| FOLLOW, LALR lookaheads | `lalr.ts:155-256` | `follow`, `lalrLA`, `changed`, the pass counter | scan a rule, scan an item, next pass |
| Tables | `lalr.ts:62-73, 258-364` | `action`, `goto`, `shiftRule`, `conflicts` | place shifts, `setAction`, `fillAlwaysEntries` |
| Unit-rule bypass | `lalr.ts:366-423` | `goto`, rewritten in place, the guard | redirect an entry; next pass |
| Deterministic parser | `lalr.ts:634-723` | stack, real lookahead, the stuck counter of recovery | shift, reduce, accept, hand over to the fork, recover, fail |
| GLR fork | `lalr.ts:725-899` | frames, `active`, `worklist`, `shifted`, cloned contexts, two work counters | follow a path, merge, recover, advance all paths, settle, accept, die |
| Lexer | `core.ts:461-551` | offset and position, previous token | next token among the row's terminals, callbacks |
| Table codec | `lalr.ts:425-632` | none: pure functions over rows | serialize, deserialize, digest |
| Table cache | `tableCache.ts` | a file on disk; the stamps and the digest read before a build | load, save |
| PEG analysis | `peg.ts:36-245` | edges of left corners, Tarjan's stacks | analyse, report |
| PEG matcher | `peg.ts:290-517` | `memo`, `tokens`, `active`, depth, the furthest failure | match a terminal, an alternative, a nonterminal; grow a seed |
| C preprocessor | `preprocessor.ts` | macros, the stack of conditionals with its cached flag, `#pragma once`, depth, the block gathered, the lines owed | one per directive; expand; evaluate an `#if`; include |
| Module checking | `transform.ts:673-845`, `module-loader.ts` | the memo of shapes and builds, who waits for whom, taint | check a program, build a module's scope, cut an import, forget a build; link a name |
| Resumable functions, promises | `transform.ts:153-420`, `backend.ts` (generators and async functions), `lib/promise.ts` | of an activation its state number, sent value and hoisted variables; promises, callbacks, the microtask queue | cut a body, dispatch, run a segment, yield, await, resolve, then, all, drain |
| Regular expressions, strings | `lib/regexp.ts`, `lib/string.ts` | program, registers, the backtrack stack, `lastIndex` | compile, one step per opcode, exec, test, replace, split |
| Big integers | `lib/bigint.ts` | limbs | arithmetic, shifts, bits, power, conversion, comparison |
| Dataflow middle end | `vsdg.ts`, `TS/vsdg.ts` | the graph, the scopes and the effect chain of the lowering, the blocks of the nodes | lower a statement, fold, bypass a dead branch, merge equal nodes, place early and late, print |
| Entry points | `tison.ts`, `rrule.ts` | none | re-exports, notation |
| Example grammars | `*-parser.ts`, `cg-grammar.ts` | | clients of the engine |
| Example compilers | `checker.ts`, `type-core.ts`, the rest of `backend.ts`, `transpile.ts`, `wasm-codegen.ts` | trees | sequential transformations, some 25,000 lines |
| Rest of the runtime library | `lib/array.ts`, `map.ts`, `number.ts`, `typedarray.ts`, ... | containers | |

### How they interact

`makeParser` runs the builder, then the automaton, FOLLOW, the lookaheads, the
table filling and the bypass, one after the other, each reading what the ones
before it left. After that the tables are read only. `parse` and `parsePrefix`
run `runParser`, which calls the lexer with the *row of the state it is in*:
what is lexed depends on the parser, what the parser does next on what was
lexed. At a conflict entry `runParser` hands its stack and its token to
`runGlrFork`, which shares the lexer among all derivations and hands back a
stack when one is left. User code is called back in the middle of it:
actions, merge functions, `recover`, `Terminal.lex` and `forkCtx`.

The PEG back end shares the builder and the lexer with the LR one and nothing
else: analysis orders the alternatives, and the matcher calls the lexer with
one terminal at a time. The cache wraps `makeParser` with a file that several
processes may read and write. The preprocessor reads files through callbacks
and hands its text to the C grammar. The TypeScript compiler checks modules
through one memo that overlapping checks share, can lower a program to a graph
of values and effects and print it again, cuts generator and async bodies into
segments, and links the program with a runtime library written in
TypeScript itself: its promises resume the segments, its regular expressions
and integers are compiled like the user's code.

### What is hard

There is one thread and no messages. In the engine what is hard is order and
staleness inside long sequential loops:

- fixed points that grow sets in place while reading them, with a flag that
  decides when to stop;
- decisions taken one pair at a time (`setAction`) that must be right for three
  and more alternatives, in any order;
- a loop that rewrites the rows it reads from;
- a lookahead lexed against one state's row and looked up in another's, or
  waiting while inserted tokens are shifted in front of it;
- derivations interleaved by a worklist, merged after they have acted, and
  contexts shared between them;
- a memo whose key must say everything an answer depends on, and seeds that are
  grown from answers already given;
- counters that are the only thing that ends some loops;
- a graph that is rewritten while it is walked, and statements that are moved
  although calls and assignments have an order;
- user callbacks that may answer anything.

Around it there is real interleaving: processes that write one file in place
and may die, sources edited between two readings, checks of modules that wait
for each other, bodies resumed from a queue in an order JavaScript prescribes;
and state kept from one call to the next (`lastIndex`, the conditionals of a
file that has ended). `PROJECT.json` lists each of these under `hazards`, at its
line, with the properties that would catch it going wrong.

### What makes each component correct

| Component | Correct when |
|---|---|
| Grammar builder | the rules mean the specification: each array a nonterminal of its own, its alternatives in order, symbol for symbol |
| FIRST sets | they are the least solution of the FIRST equations, and the constructor returns |
| LR(0) automaton | after any string of symbols it is in the state of exactly the items valid for it; no item set has two numbers |
| Lookaheads | an item's lookaheads are those of canonical LR(1) merged by LR(0) state, within FOLLOW; the tripwire never trips |
| Tables | a cell does only what its items call for, loses an alternative only to a reported decision, and strict precedence decides in any order |
| Bypass | a redirected goto skips renames only and every such one, and the loop ends |
| Parser | it accepts exactly the language, its trees obey precedence, no lexeme is lost or used twice, a prefix is a sentence and stops short of no longer one, internal errors are unreachable, every call ends |
| Fork | every parse of the text is returned and nothing else, derivations stay in step with the lexer they share, contexts stay apart |
| Lexer | longest match, ties in a fixed order, progress; never an ignored terminal |
| Codec and cache | what is read back is what was written, and never tables of another grammar |
| PEG | memo and growing change no answer; trees agree with precedence; what the analysis lets through ends, what it reports as unreachable is |
| Preprocessor | the text is what the C standard says, on the lines it came on |
| Module checking | no circle of waiting; a build that is kept is complete; a check binds what the linker links |
| Resumable functions | a body does what is written, with the values it is resumed with; jobs run in JavaScript's order; nobody waits for what is settled |
| Regular expressions | every call answers what the pattern means in JavaScript and leaves `lastIndex` where JavaScript does; no frame is left behind, and there is room for those that are needed |
| Big integers | exact after any operations, in whichever form |
| Middle end | what is printed makes the same calls with the same arguments in the same order and returns the same; no edge leads to a removed node; rewriting ends |

## 2. The modules

The LR modules each EXTEND the one before, so that a run of a later one goes
through the whole pipeline from a grammar to a parsed text; no stage is fed a
table made by hand. The PEG modules do the same from the specification the user
writes to the answer. The other components are chains of their own.

| Module | Models | Variables and actions against the code |
|---|---|---|
| `FirstSets` | the interned rules; the end of `GrammarBuilder`'s constructor | a rule is `[lhs, rhs, prec, identity, merge]`: `identity` says that the action is `identityAction`, `merge` that the rule has a merge function; `FirstFrom` and `NullableFrom` are the inner loop that FIRST, FOLLOW and the lookaheads share. `first`, `nullable`, `changed`; `ScanRule` is one iteration of the loop over the rules, `NextPass` and `FirstDone` the loop's test |
| `Automaton` | `lr0Closure`, `lr0Goto`, `lr0SetKey`, the worklist | `CloseItem` one iteration over the growing queue, `AddState` the look-up by item set, `MoveOver`, `SkipMoved`, `ExpandNext` the loop over the symbols a state expects |
| `Lookaheads` | FOLLOW; LALR propagation | `ScanFollow` a rule of a pass, `ScanItem` an item of a pass; `AddLA` creates the key even where it adds nothing, as the code does |
| `ActionTable` | `shiftRule`, `setAction`, `fillAlwaysEntries` | `PlaceShifts`, `PlaceReduces`; `SetReduce` with its parts `ShiftReduce` and `ReduceReduce` has every branch and report kind of `setAction` |
| `UnitGotos` | `eliminateUnitGotos` | `RedirectEntry` one goto entry, in the order the row lists them |
| `LRParser` | `runParser`, `parse`, `parsePrefix`, the lexer as the parser sees it | `Call`, `LexFirst`, then one action per way an iteration of the loop goes: `StepReal`, `StepSyntheticEnd`, `StepRecover`, `Fail`. The second half states what a text means: `Phrases`, the least set of symbol and stretch of text that lexemes and rules give |
| `GlrFork` | `runGlrFork` | `fork` holds the function's locals; `FollowPath`, `RecoverPath`, `LosePath`, `SkipSuperseded` are the ways an iteration of the worklist goes, `ForkAdvance`, `ForkSettles`, `ForkAccepts`, `ForkDies`, `ForkExhausted` the ways a sweep ends |
| `ParserMeaning` | | the trees a value stands for, and those of the grammar |
| `TableProofs`, `LRParserProofs`, `LanguageProofs`, `GlrForkProofs` | | theorems about this chain, section 4 |
| `GrammarBuilder` | the constructor up to FIRST | `built` holds the object under construction with `pending`, the list that grows while it is scanned, and `scan` the place in it; `StartBuilding` is the code before the loop, `ScanAlternative` an alternative with all the symbols `resolveSym` makes of it, `NameClash` the throw |
| `GrammarBuilderProofs` | | theorems about the constructor, section 4 |
| `PegAnalysis` | `analyse`, `leftCorners`, Tarjan's components, the reports | one turn of Tarjan's loop an action |
| `PegMatcher` | `scanTerminal`, `nextToken`, `compareCandidates`, `Manual`; `makePegParser`'s `run` | the lexer as operators: candidates with lengths, tie by source, a callback that rejects, reclassifies or takes more. The recursive functions of `run` are a stack of frames, `want` the call about to be made, `ret` the answer; `memo`, `active`, `expected` as in the code |
| `PegMeaning` | | ordered choice with precedence climbing as recursive definitions; operator grammars by themselves |
| `TableCodec` | `serializeTables`, `deserializeTables`, `grammarDigest`, the varints | operators, both directions |
| `TableCell` | | abstract: one cell with the tables of one call under that call's key |
| `TableCache` | `makeCachedParser`, `load`, `save` | a process steps through `Start`, `LoadModule`, `StampSource`, `ReadCache`, `OpenFile`, `WriteBytes` a portion at a time, `SaveFails`, `AddRulesAndCallAgain`; `Die` anywhere, `EditSource`, `Spoil`. Refines `TableCell` |
| `ModuleCheck` | `TStypeCheckAsync`, the memos of shapes and scopes | `memo` and `task`; one action per await that is passed |
| `ModuleLinks` | `collectModules`: origin of a name | recursive reference for `ModuleCheck` |
| `ModuleCheckProofs` | | theorems about `ModuleCheck`, section 4 |
| `Preprocessor` | `run`, `directive`, `include`, joining of calls | one action per directive and branch, over a stack of files; expansion and the value of an `#if` are parameters |
| `PreprocessorMeaning` | `expand`, `subst`, hide sets, `#`, `##`, `__VA_ARGS__`; `evalIf`, `evalExpr` | operators, with C's operators on `Width` bits; then what the standard says: a file as a nest of groups, macros out of use within themselves |
| `PreprocessorProofs` | | theorems about `Preprocessor`, section 4 |
| `StateMachine` | `BuildStateMachine`, `collectHoistedLocals` | operator `Compile`: a body to its segments, numbered from the end as the code does |
| `Resumable` | `promise.ts`; the step function, resumption, wrappers and drain of `backend.ts` | promises as operators over a heap: `Resolve`, `Then`, `All`, the queue; a stack of activations, one action per statement kind and per transition; calls of the host |
| `ResumableMeaning` | | the body followed statement by statement |
| `ResumableProofs` | | theorems about `Resumable`, section 4 |
| `RegExp` | `RegExpCompiler`, `runVM`, `exec`, `test`, `String.replace`, `split` | `Emit` the compiler; one action per opcode; the drivers around them; then every way a tree matches, in JavaScript's order of preference |
| `BigInt` | limbs and the class | operators per function, one action per method |
| `Vsdg` | the graph of `vsdg.ts`: nodes, edges, `foldConstants`, `foldDeadBranches`, `optimizeStructuralCSE` | a graph is a function from ids to nodes with slots and inputs; each rewriting is an operator from graph to graph |
| `Lowering` | `VSDGBuilder` and the TypeScript dialect's `lowerStatement`, `lowerExpression` | a builder with its scopes, effect chain and branch state; one operator per statement and expression kind |
| `Reconstruction` | `applyGlobalCodeMotion` (blocks, early and late placement), `Emitter` and the dialect's printing | operators: `scheduleEarly` and `scheduleLate` a node at a time, `emitNode` by node kind |
| `MiddleEnd` | `BuildVSDG`, `optimize`, `build` | `Lower` a statement, `VisitNode` a node of a round, `EndRound`, `PlaceEarly`, `PlaceLate`, `EmitProgram`; before them, what a program does by direct evaluation |
| `MC*` | | the grammars, programs and bounds of the instances |

Definitions with a comment that calls them faulty (`RelexesAlways`,
`AwaitStays`, ...) are not part of any specification. Each is a plausible
mistake in the definition that follows it; put in its place it breaks the
property named for it in `PROJECT.json` (`mutants`), which shows that the
property depends on that code.

### The refinement

`TableCache` works on bytes: a header with magic, digest and stamps, rows of
varints, writes that come in portions, a reader that may see any of it.
`TableCell` knows of a cell, its key and its contents. The mapping
(`Cell == INSTANCE TableCell WITH ...`) takes a file that was written to the
end for a full cell under the stamps and the digest of its writer, a file that is
open or was left half written for an unknown one. `CacheIsACell` is a property
of the `table_cache` run: every step over bytes is a step of the cell or leaves
it alone, so a call is answered with what one complete save put there under
its own key, or with tables it built itself.

### What is abstracted

*LR.* States and rules are numbered from 1; the code's number is one less. A
precedence entry is an associativity and a level; an entry without a level is
not in the instances. In `LRParser` the text is a sequence of lexemes, and
`CandidateOrder` gives the terminals each matches in the order `nextToken`
would try them; the row still decides which are tried and whether one is
ignored. A lexeme is never the error token, which is the engine's own
(`LexingAssumption`). Lengths, callbacks and positions are those of the lexer in
`PegMatcher`. The value of a node is the tree its action would build; spans of lexemes
and the rules reduced on the way to a frame are history that only properties
read. A context is the log of the rules whose action ran on it. A `recover`
callback may answer with any terminal of `RecoverTerms`, at any time, or with
none. Values peeked by mid-rule actions are left out; a merge hook given to a
rule is uninterpreted, the default merge is modelled with equality of trees for
`sameValue`.

*PEG.* A text is a sequence of characters, `Pattern[t]` the words a terminal's
pattern matches, the preferred first. Texts of messages are left out; which
terminals are expected, and where, is kept.

*Table cache.* The hash is injective. A stamp's time takes one byte where the
code writes eight. Each edit changes the time of the file. Reading a file is one
step, writing takes several. `disk.how`, `disk.by`, `disk.opener` and, of a
process, `of`, `read` and `stamped` are history.

*Modules.* Diagnostics, namespaces, type-only imports and local re-exports are
left out, and so are name conflicts, failures of the file system and
`NodeModules.get`'s own cache. `overlapped` is history.

*Preprocessor.* Splitting text into tokens, white space, comments, `__LINE__`,
the parsing of `#define` and the search for a path are left out; a token is its
text, its line and its hide set.

*Resumable functions.* Expressions are numbers, variables and a decrement.
Rejection, `try`, `yield*` and destructuring are left out. `given`, `log`,
`awaits`, `clock`, `since`, `settledAt` and `ran` are history.

*Middle end.* Programs have numbers, truth values, variables, calls by name,
conditionals, assignments and updates, `if`, the three loops, `switch`, blocks
and functions; a node's payload is its operator or its name. Which names are
declared outside is fixed, free names are constants of the world a program runs
in, and a callee is free, pure or declared in the program. The runs are cut after
`MaxRounds` rounds and calls. Left out: `try` and `throw`, members, objects and
arrays, classes, function expressions, destructuring, `for..of` and `for..in`,
labels, `var`, modules, statements kept verbatim, emission without schedule,
calls of local variables, statements that are only a literal, and minus zero.

*Regular expressions.* A pattern is its tree: the parser of its text is left
out. Addresses are indices of instructions. The callback of `replace` leaves
the regular expression alone. *Integers.* Limbs have two bits, and number
arithmetic on them is exact, as the code's is within 2^53.

## 3. The runs

| Run | Instance | States | What it shows |
|---|---|---|---|
| `tables` | 150 grammars over three terminals and three nonterminals, all four option combinations | 129,000 | the FIRST passes end closed under the rules; automaton, lookaheads, cells and redirects are right; the passes suffice; `makeParser` returns |
| `parser` | 8 unambiguous grammars, 6 mixes of two operators and 8 ambiguous or LR(2) grammars, raw and optimised, texts to 5, both entry points | 207,000 | what is accepted is a sentence and every sentence is accepted, prefixes are sentences and stop short of no longer one, trees obey precedence, only parses are returned and, when nobody was left waiting, all of them; derivations run in step with the lexer and, while no frame is merged into late, keep their contexts apart; no internal error |
| `lost_parse` | one ambiguous grammar in which one parse takes a reduce more, texts to 2 | | violated: the accept of the shorter derivation drops the longer one's parse (section 5) |
| `recovery` | 10 grammars, every answer `recover` may give, an ignored terminal, texts to 3, both entry points, forks included | 13,000 | no lexeme lost or repeated; every call ends |
| `peg` | some 20 specifications with memo on and off, both ways of choosing tokens, depth limits 3 and 60, whole and prefix parses, texts to 2-5 characters | 265,000 | the rules built are those specified; answers and trees are those of ordered choice and of the precedence table; what the analysis reports is borne out; matching ends |
| `table_cache` | two processes, a source with three contents, one edit, two calls each, a crash anywhere, spoiled files to begin with | 140,000 | refinement of the cell; what was saved is found; when tables are stale |
| `torn_cache` | one process, the file written a byte at a time | | violated: a truncated file is taken for whole (section 5) |
| `modules` | three modules that import and star-re-export in every circle of interest, two checks that may overlap | 213,000 | no circle of waiting; kept builds complete; checked as linked; checks end |
| `preprocessor` | all sequences of five conditional lines, five macro tables with calls over two lines, headers within headers, `#if` trees of two operators | 87,000 | text and lines as the standard says; the cached flag never drifts |
| `resumable` | some 80 generators of two statements, 8 programs of async functions, 5 bodies that are refused, 3 that are compiled to something else; 4 calls of the host | 289,000 | bodies do what is written; order of jobs; nobody waits for what is settled; calls return |
| `library` | some 150 patterns by texts of 3 or 4 characters, two calls on one object; three operations on integers to 150 | 98,000 | outside the departures below, calls as JavaScript answers them, no trap but a full stack, methods return; integers exact |
| `middle_end` | some 2,700 programs: branches, constant branches, loops, switches and functions | 126,000 | the printed program behaves as the source; the graph is whole after every rewriting; rewriting makes it smaller |

### Bounds, and why they are enough

- *Grammars.* The classes that tell algorithms apart are there: SLR, LALR(1)
  but not SLR, LR(1) but not LALR(1), LR(2), ambiguous; left, right, hidden and
  middle recursion; empty rules and chains of nullable symbols; nonterminals
  that are unproductive or unreachable; rules listed against the flow of the
  followers, so that one pass is not enough; every pair from {left, right,
  nonassoc, fork} x two levels and no precedence; three reduces for one cell;
  chains, cycles and shared targets of unit rules, with and without an action
  or a merge. 48 variations of one recursive shape fill the gaps between.
- *Texts.* A conflict over two operators, a dangling else and an LR(2) decision
  all show within five lexemes, and `parser` has them all, whole and as prefixes,
  raw and optimised. Recovery needs three: one before, one inserted over, one
  after; forks are included there too.
- *Limits of the code* are constants: `PassSlack` (1000 in the code) is 0, so
  that the tripwire is tested at its tightest; `RedirectGuard` (100) is 4, and
  `PassesSuffice` shows on the instances that the second pass never moves
  anything, so the guard does not matter to the result; `StuckLimit` (50) is 2, `MaxRecoveries`
  (200) is 1 or 2 and `MaxWork` (50000) is 10 in `recovery`, so that running
  into them happens, and 60 in `parser`, so that it does not; the PEG depth
  limit is 3 or 60 for the same reason; `MaxDepth` of includes is 2;
  `StackWords` (64) and `MaxLookaheads` (16) are the code's own.
- *PEG.* Specifications of each class the analysis knows (direct, indirect,
  hidden left recursion, through a predicate), each kind of interning, each
  associativity, and the shapes where a memo key could say too little: a level,
  a previous token, a seed under another.
- *Cache.* Two contents that differ in an action only, one that differs in
  shape: the ways the digest can tell apart and not. `VarintBase` 4 makes
  numbers take two and three digits, where 128 would need tables of hundreds
  of rows. `Portions` {12} leaves torn files of every part; two processes are
  alike and the symmetry is used (no liveness is checked there).
- *Modules.* A circle needs two modules, a circle met from outside three, and
  two overlapping checks are what `wouldDeadlock` is there for.
- *Preprocessor.* Five lines hold a conditional in another with all three
  branches. `Width` 6 has the sign bit and overflow that 32 bits have.
- *Resumable.* Two statements nest every pair of control structures; four
  calls of the host give the first call, two resumptions and one past the end.
- *Library.* Loops with bounds 0 to 2 and none, groups in and out of them,
  alternatives that are prefixes of one another, lookaheads nested twice,
  backreferences; all flags; one text fills the backtrack stack to the last word
  and one needs a frame more. Limbs of two bits put carries, guard limbs and
  sign extensions within numbers of three digits: all of +-150 are reached.
- *Middle end.* Eight arms in each branch of four tests, loops of the three kinds
  with seven ways to jump out of or on from three beginnings, `switch` with fall
  through and a default in the middle or last, functions with early returns; each
  is run in twelve worlds. Two arms by an effect before or after them are where
  statements are merged, sunk or hoisted wrongly.
- *Preconditions.* `LookaheadsAreLALR1` assumes that every symbol a rule uses
  derives some text, since FIRST of an unproductive one is empty while the canonical
  construction has nothing to compare it with. Comparisons with parse trees
  assume rules that are not empty, so that a text has finitely many trees; the
  other properties are checked with empty rules too. `AcceptsEverySentence` asks
  that no cell lost an alternative: precedence is there to reject parses.
  `AcceptsOnlySentences` asks, of recovery and of prefixes, that no cell holds a
  conflict on a terminal recovery may insert or on the end of input (`NoForksOn`):
  a fork that begins with such a token loses the real one (section 5).
  `DerivationsRunInStep` asks the same of the terminals recovery may insert.
  `ReturnsTheParses` asks for every parse only where nobody was waiting when the
  accept came, and `ContextsStayApart` for no late merge: section 5 says what
  happens otherwise.
  `ReadsOperators`, a part of `AnswersAsMeant`, asks for `PlainLevels`, `PlainRunAsWritten` for a `Plain`
  body; what each leaves out is a divergence of section 5, and each is met by most
  of its instance.
- *Regular expressions.* The meaning is JavaScript's, but for one thing: pieces of
  `split` come without the separator's captures, which `string.ts:269-270` leaves
  out on purpose. `CallsAsMeant` and `MethodsReturn` judge a call that traps as they
  judge one that answers: only a push on a full stack may trap. What they leave out
  has a name each. `Settles`: a positive lookahead that may be come back to before
  another assertion. `RefersToGroups`: a reference to a group the pattern does not
  have, which traps (`regexp.ts:722`) where JavaScript reads an octal escape. `Plain`, of `CallsAsMeant` only: rounds that take nothing,
  groups that one round sets and the next does not, and the others of section 5.
  `Progressing`, of `MethodsReturn` only: loops over bodies that may be empty.
  `ReplacesFromElsewhere`: `replace` on an object that is sticky and not global and
  stands elsewhere than at 0. `OneFurther`: `lastIndex` after an empty match, which
  may be one more than JavaScript's and nothing else. The patterns of `Odd` are run
  all the same, for the steps they take.
- *Inserted tokens in forks.* `recovery` has forks and inserted tokens but checks
  the stack; `parser`, which checks `DerivationsRunInStep`, inserts none. With
  inserted tokens it is the theorem `ForksShareOneLexer` that covers it, for
  grammars without forks on them.

### Fairness

All the engine is synchronous: a step that can be taken is taken until the
function returns or throws. The LR specifications, `PegMatcher` and
`Preprocessor` have weak fairness of their whole next-state relation and no more.
What `recover` or a lexer callback answers is not assumed fair.

`ModulesSpec` has weak fairness of each build, eviction and check under way: a
promise whose file has been read is continued by the JavaScript event loop. A
check need not be asked for. `ResumableSpec` and the run `library` have it for
the program only: a call made is executed, calls of the host need not come.
`TableCache` has none: a process may stop for ever between any two steps, and
its properties are safety; so are those of `MiddleEnd`.

Where a run stops in states that have no successor (a call has returned, a host
need not call again, a process is dead) deadlock is not checked.

## 4. What is proved

TLC checks the instances above; TLAPS proves what follows for every value of the
constants: all grammars over any finite alphabet, all options, texts of any
length, every limit.

### Assumptions

Each is an `ASSUME` of the module that declares the constant, and TLC evaluates
it on every run.

| Assumption | Says | Because |
|---|---|---|
| `SymbolsAssumption`, `GrammarsAssumption` | terminals and nonterminals are disjoint, neither has a reserved name; `Grammars` holds grammars: a first rule for the start symbol, known symbols only | the builder interns them into two lists |
| `FiniteAssumption` | finitely many terminals and nonterminals | a specification is a finite text |
| `OptionsAssumption`, `AlwaysAssumption`, `PassSlackAssumption`, `RedirectGuardAssumption`, `LimitsAssumption`, `ForkLimitsAssumption` | options are flags, the terminals that are always or never lexed are terminals, limits are numbers | their types |
| `LexingAssumption` | a lexeme's candidates are terminals and not the error token | that token is made up by the engine when nothing matches (`core.ts`) |
| `ModuleAssumption` | finitely many modules, checks and names, each with one role | a program is finite |
| `ProgramsAssumption` | in a program that is compiled, segments lead to segments there are, only generators yield, and what is resolved, attached to, awaited or called is a promise of the host or an async function of the program | `BuildStateMachine` defines every segment it reserves in the programs it accepts, and the rest is what the type checker has seen to |
| `DepthAssumption`, `ProjectsAssumption` | a project is finite texts with a `main`, the depth is a number | what the preprocessor is called with |

Two theorems about the parser have a hypothesis besides. `SkipsStandApart`: what
is meant to be skipped is used by no rule, inserted by no recovery and not the
error token. `RecoveryGoesOn`: a `recover` callback never answers with the end of
input. The instance of `parser` satisfies both, and that of `recovery` breaks the
first on purpose (its `Skipped` grammar runs into the internal error).

### The builder (`GrammarBuilderProofs`)

`RulesMeanTheSpecification` (`BuiltAsSpecified`): for every specification in
which no array is listed twice (section 5), and however its arrays, names,
terminals and mid-rule actions refer to each other, the list of rules means what
was written. The list of arrays grows while it is scanned, and symbols stand for
things that are made later; what makes an invariant possible is that the builder
only grows (`Grows`): rules, arrays and terminals are added behind, and an array
keeps its nonterminal. So what a symbol has become (`Reads`) is said in terms
that survive growth (`ReadsStay`), and `BuilderInv` says of the i-th array found
that exactly the alternatives scanned so far have a rule (`DoneOf`, `Scanned`),
the n-th of which reads as the n-th alternative. Three parts make it inductive:
every rule's head is `$accept`, a mid-rule action or an array that was found
(`Owned`), so that an array found later starts with no rules; a mid-rule action
is numbered by its rule and used in one place (`AnonRules`, `AnonUses`), which
while an alternative is being resolved needs that its own actions are newer than
every use so far (`Fresh`, `UsesUpTo`); and every array but the listed ones is used
by one at or before the place of the scan (`InTurn`).

### The generator

- **FIRST** (`TableProofs`). `FirstTypeCorrect`; `FirstIsClosed`: when the
  constructor leaves the loop the sets satisfy every rule; `FirstIsLeast`: at no
  step do they exceed any solution. Closure is not inductive alone: the flag
  being down at the end of a pass must mean that nothing grew since the pass
  began. The strengthening is `ScannedRulesClosed`: while the flag is down every
  rule scanned in this pass is closed under the current sets.
- **Automaton** (`TableProofs.AutomatonIsTheGrammars`, property
  `AutomatonIsLR0`). `LR0Inv` says of the queue of a closure that an item before
  the cursor has all its expansions in the queue, of the kernels under way that
  they are what a move over one symbol gives, of the states before the worklist's
  cursor that they have a transition over exactly the symbols their items
  expect, and of all that no two hold the same items. Stages after the automaton
  leave all of it alone.
- **Lookaheads** (`TableProofs.LookaheadsAreTheGrammars`, property
  `LookaheadsAreLALR1`). One direction is an invariant: every entry is a merged
  canonical item (`NothingInvented`), however the passes run in place. The other
  is again about the flag: while it is down every item scanned in this pass is
  closed under propagation (`Passes`), so at the end all are, and the canonical
  items are the least set closed that way. Where a symbol derives nothing FIRST
  is empty and the comparison is off: hence `Productive` inside the property.
- **Tables** (`TableProofs.TablesDecideAsReported`, property
  `ConflictsAreDecided`). A row is followed item by item (`RowOK`): after the
  first n items of a state a cell keeps only alternatives those items offer,
  everything lost is either reported or beaten by precedence, and if precedence
  is strict among them the survivor is its choice. That last part is what makes
  the order of the items irrelevant.
- **Redirects** (`TableProofs.RedirectsOnlyRename`, property
  `RedirectsSkipOnlyRenames`). A redirect reads rows that the same pass may have
  rewritten. The invariant is in terms of the raw tables alone: each goto, at any
  time, is reached from the raw one by pass-through renames (`Reaches`), and
  that relation is transitive, so what a redirect reads may be old or new.

### The parser

- `StackIsAPath` (`LRParserProofs`): the stack spells a path of the automaton,
  through shifts, reductions, redirected gotos, what recovery inserts, and
  prefix parses. It needs more than the tables: a reduce finds its right hand
  side on the stack because every path to a state that holds an item with the dot
  at d ends in the d symbols before it; and a redirected goto is a step of the
  path because the renamed symbol has a transition there too.
- `OnlySkipsCrash`, an action property: of the two internal errors of
  `runParser` the missing goto is never reached, and the ignore entry only by a
  skipped terminal the row tells it to ignore. `RunParserNeverCrashes`
  (`NeverCrashes`): under `SkipsStandApart` neither is. So the comment at
  `lalr.ts:718-719`, that ignored tokens never come back from the lexer, holds
  where the skipped terminals stand apart from the rules; where they do not it
  can fail (section 5).
- `RunParserAcceptsSentences` (`LanguageProofs`, property
  `AcceptsOnlySentences`): what is accepted is a sentence. What a sentence is
  does not mention the parser: `Phrases` is the least set of `<<symbol, i, j>>`
  that contains the lexemes, with skipped ones allowed before them, what
  recovery may insert, as phrases of no length, and is closed under the rules.
  The invariant (`ReadTo`, `Pending`) says that consecutive frames of the stack
  read consecutive stretches of the text, up to the lookahead. A bypassed unit
  rule leaves a frame in the state of a symbol that was never reduced to: since
  only renames were skipped, that symbol is a phrase of the same stretch. To
  close a stack of any depth the steps are stated for any set of readings that
  is closed under the rules (`Closed(K, P)`): `Phrases`, for what is in the text,
  and `Anything`, all symbols at one place, where only the shape counts; so one
  set of lemmas (`ReduceReads`, `ShiftReads`, `AcceptReads`, `GotoReads`) gives
  both `StackIsAPath` through forks and the language.

### The fork

`GlrInv` is the parser's invariant with three parts about `runGlrFork`:

- `Forking`: every frame hangs on its parent (`Hanging`): its state is reached
  from the parent's over a symbol, down to the bottom frame, in the graph of
  *all* frames registered so far. A merge registers a frame of the same state
  and parent in the place of the old one, and none is ever taken away or given
  another parent: the graph only grows, and dead and superseded frames need no
  clause.
- `ForkTokenStands`: the token all derivations wait for is one the lexer, or
  recovery, gave, at the offset all of them share.
- `ForkReading`: if the call's text counts (`PlainForks`), each frame reads a
  stretch of it; those still active or on the worklist up to the token, those
  shifted up to where the lexer stands; what a branch accepted is a sentence.
  Derivations that shift an inserted token stay where they are, which is why the
  places are sets (`UpTo`) rather than one number.

From it follow `StackIsAPathThroughForks` (the stack built from the survivor when
a fork settles is a path again), `ParserNeverCrashes` (`NeverCrashes`, under
`SkipsStandApart`) and `ParserAcceptsSentences` (`AcceptsOnlySentences`, under
both hypotheses: inside a fork an ignore entry is taken for the accept, section
5, so without `SkipsStandApart` the claim would be false).

### Nothing lost, nothing twice

`GlrForkProofs` proves `StackHoldsTheInput` (`NothingLostNorTwice`) and
`DerivationsRunInStep` (`ForksShareOneLexer`) for every grammar, option and text,
with no hypothesis beyond the one that is part of both properties
(`NoForksOn(RecoverTerms)`: what recovery inserts starts no fork, for such a fork
loses the lookahead, section 5).

The invariant says of each place of the program what it *holds*: a sequence of
lexemes, increasing, that is the text up to some end less what the lexer ignored
up to there (`HeldTo`). The stack holds the spans of its frames one after another;
a frame of a fork holds what its parent holds and its own span, since the frames
are a tree and no chain is ever copied. While a fork runs there are two sets of
what may be held (`Spanned`): the active frames hold the text up to the token
awaited, the shifted ones up to where the lexer stands (`Spread`). A shift
appends its token, which the lexer gave no earlier than where the stack ends; a
reduce joins the spans of what it pops, so what is held up to there stays
the same; a merge registers a frame of the same parent and span in the place of
the old one; the lexer ignores only what it passes; an inserted token has an
empty span. `Untouched` says that a call that has not read a token has dropped
none, and `Behind` that the end of input is never shifted: the two edges at which
the step lemmas would otherwise fail.

### Around the engine

- **Modules** (`ModuleCheckProofs`). `ModulesTypeCorrect`. `BuildsAreTracked`:
  every build that runs is on record as pending, every waiter waits for one of
  those. `NoCircleOfWaits` (`NoWaitCycle`): a wait begins only where
  `wouldDeadlock` found no way back over the tasks that wait at that moment, and
  a task that waits adds no edge, so a circle would have to be closed by an edge
  that was checked. `SomeoneAlwaysGoesOn`: with finitely many tasks and no circle
  one of them does not wait. `CleanBuildsStay`, an action property: a build that
  lacked nothing is neither evicted nor started over.
- **Preprocessor** (`PreprocessorProofs`), for any expansion and any `#if`:
  `IncludesAlwaysNest`, `LinesAlwaysKeepPace` (lines put out and gathered are the
  lines read, as long as nothing is included) and `FlagsAlwaysAgree`
  (`FlagsAgree`). The first two need each other and the types.

### Promises and resumable functions (`ResumableProofs`)

For every set of programs, any number of functions and promises, and the host
calling in whatever order. What a program is compiled to enters through
`ProgramsAssumption` alone: `StateMachine` is recursive, and TLC evaluates the
assumption on every program of the run.

- `ResumableCorrect`: the invariant `ResumableOK`. Its parts are that everything
  a frame, an activation, a callback or a task refers to is there (`BodiesOK`,
  `HeapTypeOK`, `CallbacksOK`); that no body is twice on the stack and one that
  called another has a suspension ahead of it (`CallsWait`); that the host is
  answered with an empty queue (`JobOK`); and `Orderly`, of which
  `InOrderAndOnce` (property `JobsInOrder`) is a consequence. Order is not
  inductive alone: that a callback of a promise settled now goes behind all that
  is queued follows since the clock is ahead of every stamp (`ClockAhead`), that
  those of one promise keep their order since they were attached in it
  (`CallbacksInOrder`), and that a callback attached to a settled promise may be
  queued at once since all before it in the queue are of settled ones
  (`JobsSettled`). That none is lost or runs twice is a count (`Counted`): every
  time a promise is settled or a callback attached the clock ticks, a promise
  counts once however often `resolve` is called, and an attachment is at an open
  promise or has become one job.
- `BodiesAccounted`: the invariant `Tracked`. An async body is in one of three
  cases: it runs, is on the stack, and no callback of its is due; it waits, and
  exactly one callback is; it has ended and settled its promise with what it
  returned. A `Promise.all` misses (`remaining`) exactly the values whose callbacks
  are due, and its promise is open just as long. `OwnPromises` keeps these apart:
  the promise of a body or of a `Promise.all` is nobody else's and not the
  host's, so nothing but its own end settles it.
- `NobodyLeftWaiting` (`NothingLeftWaiting`) joins both: when the host is
  answered the queue is empty, so a callback that is due belongs to a promise
  that is still open.

### How

Termination of a growing set is the pigeonhole of `Cardinality`: a sequence of
growing subsets of a finite set has two equal neighbours (`GrowsNoMore`), and is
then constant; with it the recursive functions in which least sets are defined
(`ClosureOf`, `LR1Items`, `Phrases`, `Standing`) are closed at their last index.
Facts about an index are proved by a least counterexample (`LeastNumber`,
`Climbing`), since the library's induction theorems cannot be instantiated.
Functions defined recursively by LET are handled by showing that a function that
satisfies the equation exists and that CHOOSE picks one.

### What stays with TLC, and why

- Liveness (`MakeParserReturns`, `CallsEnd`, `MatchEnds`, `ChecksEnd`,
  `CallsReturn`, `MethodsReturn`): needs ENABLED.
- Properties over RECURSIVE operators: `ReturnsTheParses`, everything of
  `PegMeaning`, `ModuleLinks`, `PreprocessorMeaning`, `ResumableMeaning`,
  `RegExp`, `BigInt` and the middle end: induction over data.
- `PassesSuffice`: that one pass of redirects is enough depends on the order in
  which a row lists its entries; an order in which an overridden shift comes
  first could need a second pass, so it is not a fact about all grammars as they
  are modelled.
- `AcceptsEverySentence`: completeness would follow a derivation through the
  parser, an induction over trees. `TreesObeyPrecedence` likewise.
- `ContextsStayApart`: not done (section 7).
- `CacheIsACell`, `SavedIsFound`, `StaleOnlyIfUnstamped`: the codec is a
  recursion over bytes.

## 5. Where the code and its description part

Two have a run:

- `torn_cache`: `row()` and `rows()` (`tableCache.ts:135`) stop without a trace
  when no byte is left, so a file cut between rows or values decodes to its very
  end and passes for whole, with the missing rows absent; the comment at
  `tableCache.ts:146-148` says that a truncated file is a miss.
- `lost_parse`: a sweep ends at the first accept (`lalr.ts:819`), while a derivation
  that takes one reduce more is still on the worklist. With `S -> A`, `A -> a | B`,
  `B -> a` and a fork between the two reduces of `a`, the text `a` has two parses
  and one is returned, the one whose rule is listed first in the cell;
  `src/README.md:82` promises "an array of all the surviving interpretations". Put
  a second symbol behind (`S -> A b`) and both come back, for the shorter
  derivation waits for the lexer.

Others were met while modelling. They are reproduced by the models, excepted by
name from the properties that would fail on them, or named here because they
lie in what is left out.

*LR.*
- A third fork alternative in one cell is dropped in silence (`lalr.ts:363`); so
  is a reduce on `$end` offered to a cell that holds the accept.
- The `slr` option makes sentences of LALR(1) grammars be rejected
  (`lalr.ts:286`).
- In the same grammars a derivation converges with a frame that has been followed
  already. The merged frame goes on with that frame's context (`lalr.ts:748`),
  and so did what the frame led to: the context sees actions twice, or those of a
  superseded frame, although `forkCtx` is there so that "dying branches' action
  mutations can't leak" (`lalr.ts:926`) and the comment at `lalr.ts:826` calls a
  superseded frame a dead end. A frame that shifted before it was merged leaves its
  shifted frame alive, so that a parse can come back twice. `ContextsStayApart` is
  stated for forks in which no merge comes late.
- A fork that begins with an inserted token and settles loses the lookahead
  that was waiting (`lalr.ts:683`).
- `parsePrefix` that accepts inside a fork counts the lookahead in
  (`lalr.ts:978`).
- Inside a fork an ignore entry is taken for the accept (`lalr.ts:807`).
- A skip terminal that a rule also uses can be lexed as a lookahead in one state
  and be an ignore entry in the next, the internal error of `lalr.ts:718-719`.
- `grammarDigest` (`lalr.ts:605-608`) leaves out whether a rule's action is
  `identityAction` and whether it has a merge, which the bypass reads; a table
  cached before a rule was given an action can bypass that action. In the
  cache, stamps are taken after the modules were loaded, so an edit in between
  is seen by neither: `StaleOnlyIfUnstamped` says exactly when both fail.
- The comment at `tableCache.ts:13` has the second flag bit the wrong way round.

*Builder and PEG.*
- A start array that is also in `rules` is scanned twice, and two names for one
  array leave one of them without rules (`core.ts:305-313`); `src/README.md:52`
  offers a string as start, which is not supported.
- A negated predicate saves the furthest failure by reference
  (`peg.ts:383-391`), and a memoised failure is not recorded again: the report
  depends on what was in the memo, the answer does not.
- Shadow warnings are wrong for alternatives that a level rules out; left
  corners look through one predicate only; terminals that match nothing let a
  grammar re-enter itself.
- A nonassoc operator raises the floor for what follows and not for its own
  right operand (`peg.ts:487`, `src/README.md:111-115`); a low prefix operator
  to the right of a higher one is read by the LR parser and not by the PEG one.
- A callback that turns an empty match into an ignored one makes `nextToken`
  go round for ever; `peg.ts:407` says that an empty seed does not grow.

*Modules.* `src.program.scope ??= inner` (`transform.ts:789`) keeps the scope of
the first build, also when it was cut, where the comment above it speaks of the
finished one.

*Preprocessor.* Comments are stripped before lines are spliced; `<<` has 32
bits; `#elif` and `#else` after `#else` are no error; the hide set of a closing
parenthesis is ignored; a stray `#else` or `#endif` of an included file acts on
its includer (`preprocessor.ts:431`).

*Resumable functions.*
- The value a resumption brings is kept, and written again whenever the dispatch
  comes by its segment (`backend.ts:7732`, `7550`), also when a loop comes back to
  it. In `n = await p; while (n) { log(n); n = n - 1; await q; }` each round finds
  in `n` what `q` brought; the model takes these steps when it is given the program.
  The comment at `backend.ts:7717-7718` knows that to rewrite the variable "clobbers
  it with an earlier resume's value" and rules out another way to it only.
  `PlainRunAsWritten` leaves such bodies out (`Rebinds`), so it says nothing of them.
- Two variables of one name in nested scopes share a field (`transform.ts:160`);
  `return await p` loses the value; a `for..of` with a `yield` reserves a segment
  that is never defined. The comments at `backend.ts:7775` and `promise.ts:29-34`
  describe an earlier scheme of resuming.

*Middle end.* The programs of the `middle_end` run keep clear of these; each was
seen by running the code's steps in the model on a program outside it.
- An assignment in a branch without a real effect that only another assignment
  of the branch reads is read by name and never printed.
- `let x = g(); h(1); k(x)` prints `h(1); k(g())`, against the comment near
  `vsdg.ts:1420`; `c && g();`, `!g();` and `g() + 1;` lose the call; `g(i, i++)`
  and `x += x++` are printed in another order.
- A call in the test of a nested `if` whose body is a pure assignment moves to
  the merge, after later effects.
- `let y = x;` read after `x` changed reads the new value; names captured by
  functions are merged across a call that changes them; a block's own name is
  taken for the outer one.
- A declaration, a merge of a loop body or an update before an `if` can sink into
  one branch although what follows reads it (`n = n + i; if (g(2)) {g(n);}`,
  `i++; if (g(2)) break;`, `n = 7; continue;`, an early return in one arm);
  `let x = 1; x = 2 < x; g(x); h(x)` loses its declaration.
- Merging two identical pure calls leaves a hole that `removeInputs` trips over;
  `bestBlock` may stay undefined, against the comment near `vsdg.ts:2411`.
- `if (c) { x++; }` merged as a value prints `1++`; fall through into a `default`
  or a second case that assigns reads a flag or a name that is stale or
  undeclared; a do-while that begins with an `if` reads its temporary before it is
  set; `g(i++); if (g(2)) break;` loses the order.

*Runtime library.* The first three are in states the `library` run reaches.
- What would grow the backtrack stack is commented out (`regexp.ts:651-652`) while
  the header calls it growable (`regexp.ts:14-15`); `a*` on sixteen letters traps.
- A positive lookahead that held leaves the frame it entered with
  (`regexp.ts:805`). When what follows fails, that frame runs `FAIL`, which lowers
  `laDepth` once too often (`regexp.ts:820`); in `(?:(?=a)b|(?=a)a)` it is -1 when
  the second lookahead is entered, and the program traps on `laBase[-1]`. The
  comment at `regexp.ts:461-462` says that `FAIL` is reached "only via normal
  backtracking once the body has exhausted every alternative".
- `exec` leaves `lastIndex` one past an empty match (`regexp.ts:877`), where
  JavaScript leaves it at the match: only the methods that match all move on. The
  comment at `regexp.ts:849-850` speaks of "the real JS `global`-vs-not
  `lastIndex` contract".
- Captures are not reset per iteration; `(a){0}(b)` renumbers groups; a lazy
  `{n,m}?` over a body of several lengths tries them in another order; a
  reference to an open group is not the empty match, and one to a missing group
  traps (`regexp.ts:722`); loops over bodies that may be empty run for ever or
  trap; `replace` starts from 0 on a sticky object that is not global
  (`string.ts:242`); multiline anchors know only the line feed (no text of the run
  has a carriage return).
- `>>>` on integers writes its limb every round, a division by zero answers, a
  negative shift counts on, and conversion of an infinite number never ends.
- `Array.splice` and the live iteration of `Map` and `Set` after a deletion
  differ from JavaScript's.

## 6. What is not modelled, and why

- *Entry points* (`tison.ts`, `rrule.ts`): re-exports and a notation.
- *Example grammars*: values for the engine with lexer callbacks. The engine is
  modelled for all grammars of a size; one large grammar adds no behaviour TLC
  could explore.
- *Example compilers*: the TypeScript checker, the code generators and the
  transpilers. Sequential functions from trees to trees, more than half of the
  repository's lines: a TLA+ rendering would be a transliteration, and their
  correctness is a matter of types and WebAssembly semantics, not of states. What
  in them does keep state over time (the memo of module checks, the segments of
  resumable functions, the graph that is rewritten) is modelled.
- *Rest of the runtime library*: arrays, maps, number formatting, typed arrays,
  the other `String` methods; the parser of pattern texts.
- *The map's share of the source* is small for that reason, not because the
  modelled parts are thin: the engine (`core.ts`, `lalr.ts`, `peg.ts`,
  `tableCache.ts`) is covered but for messages and positions.
- Texts of messages, the layout of conflict reports, line and column numbers.

## 7. Plan

The system that is in reach is modelled, and the generator, the parser and the
fork have their main safety theorems. What is left is proof, in this order:

1. `TableCell` and `TableCache`: that a call is answered with its own tables
   wherever keys tell tables apart, and the refinement for a codec that is given
   by its round trip alone.
2. `ContextsStayApart`, with the log each frame's context must hold in the place
   of the spans of `GlrForkProofs`, and the type invariants of `LRParser` and
   `GlrFork`.

## 8. Running it

```
tlc -workers 2 -config MCTables.cfg MCTables            # a minute
tlc -workers 2 -config MCParser.cfg MCGlrFork           # two to three minutes
tlc -workers 2 -config MCRecovery.cfg MCGlrFork         # a good minute
tlc -workers 2 -config MCPeg.cfg MCPeg                  # two minutes
tlc -workers 2 -config MCTableCache.cfg MCTableCache    # two minutes
tlc -workers 2 -config MCModules.cfg MCModules          # two minutes
tlc -workers 2 -config MCPreprocessor.cfg MCPreprocessor  # a minute
tlc -workers 2 -config MCResumable.cfg MCResumable      # a minute and a half
tlc -workers 2 -config MCLibrary.cfg MCLibrary          # two minutes
tlc -workers 2 -config MCMiddleEnd.cfg MCMiddleEnd      # a minute
tlc -workers 2 -config MCTornCache.cfg MCTableCache     # finds the violation
tlc -workers 2 -config MCLostParse.cfg MCGlrFork        # finds the violation
for m in GrammarBuilder Table LRParser Language GlrFork ModuleCheck Preprocessor Resumable
do tlapm ${m}Proofs.tla; done      # two to five minutes each, LanguageProofs and GlrForkProofs ten
```
