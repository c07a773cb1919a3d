----------------------------- MODULE PegMatcher ------------------------------
(***************************************************************************)
(* nextToken (core.ts): the next token of a text among a set of terminals, *)
(* the longest match first, ties by the source of the pattern, each asked  *)
(* of its callback; ignored terminals are passed over.                     *)
(*                                                                         *)
(* A text is a sequence of characters and a position an index into it.     *)
(* Pattern[t] lists the words a terminal's pattern matches, the one the    *)
(* regular expression engine prefers first; a word that must be `whole` is *)
(* a literal with the word boundary literalPattern adds.                   *)
(***************************************************************************)
EXTENDS Naturals, Sequences, SequencesExt, FiniteSetsExt, PegAnalysis

CONSTANTS
  Pattern,      \* terminal -> the words it matches: sequence of [word, whole]
  WordChars,    \* the characters \w matches
  SourceRank,   \* terminal -> the place of its pattern's source in string order
  Callback      \* terminal -> type of the token before -> what its callback answers

LexTerminals == DOMAIN Pattern
NoToken == [type |-> "none", at |-> 0]

(* A callback answers with a token type and how much more it has consumed,  *)
(* or rejects the match.  "none" is the type before the first token.        *)
Rejects == [type |-> "reject", extra |-> 0]
Accepts(t) == [type |-> t, extra |-> 0]

ASSUME LexerAssumption ==
  \A t \in LexTerminals :
    /\ SourceRank[t] \in Nat
    /\ \A i \in 1..Len(Pattern[t]) : Pattern[t][i].whole \in BOOLEAN

(* A callback that turns a match of nothing into an ignored terminal would  *)
(* keep the loop of nextToken at one offset for ever: only a terminal that  *)
(* is ignored itself is kept from matching nothing (core.ts:502).           *)
ASSUME CallbackAssumption ==
  \A t \in LexTerminals : \A p \in DOMAIN Callback[t] :
    /\ Callback[t][p].extra \in Nat
    /\ Callback[t][p].type \in {t, "reject"} \/ \A i \in 1..Len(Pattern[t]) : Pattern[t][i].word # <<>>

WordAt(w, text, at) ==
  /\ at + Len(w.word) <= Len(text) + 1
  /\ SubSeq(text, at, at + Len(w.word) - 1) = w.word
  /\ w.whole => \/ at + Len(w.word) > Len(text)
                \/ text[at + Len(w.word)] \notin WordChars

Fits(t, text, at) == \E i \in 1..Len(Pattern[t]) : WordAt(Pattern[t][i], text, at)
MatchLength(t, text, at) ==
  Len(Pattern[t][SelectInSeq(Pattern[t], LAMBDA w : WordAt(w, text, at))].word)

(* `allowed` maps a terminal to "ignore" or "shift".                        *)
Candidates(allowed, text, at) ==
  {t \in DOMAIN allowed : Fits(t, text, at) /\ (MatchLength(t, text, at) > 0 \/ allowed[t] # "ignore")}

Before(t, u, text, at) ==
  \/ MatchLength(t, text, at) > MatchLength(u, text, at)
  \/ MatchLength(t, text, at) = MatchLength(u, text, at) /\ SourceRank[t] >= SourceRank[u]

(* The candidates whose callback does not reject, and the first of them. *)
Standing(allowed, text, at, prev) ==
  {t \in Candidates(allowed, text, at) : Callback[t][prev.type] # Rejects}
Chosen(allowed, text, at, prev) ==
  CHOOSE t \in Standing(allowed, text, at, prev) :
    \A u \in Standing(allowed, text, at, prev) : Before(t, u, text, at)

Kind(allowed, type) == IF type \in DOMAIN allowed THEN allowed[type] ELSE "undefined"

(* The token returned, with its position past what was ignored, and where   *)
(* the lexer stands then.                                                   *)
NextToken(allowed, text, from, prev) ==
  LET end == Len(text) + 1
      token[at \in 1..end] ==
        IF at = end THEN [type |-> "$end", at |-> at, next |-> at]
        ELSE IF Standing(allowed, text, at, prev) = {} THEN [type |-> "$error", at |-> at, next |-> at]
        ELSE LET t == Chosen(allowed, text, at, prev)
                 answer == Callback[t][prev.type]
                 after == Min({end, at + MatchLength(t, text, at) + answer.extra})
             IN  IF Kind(allowed, answer.type) = "ignore" THEN token[after]
                 ELSE [type |-> answer.type, at |-> at, next |-> after]
  IN  token[from]

-----------------------------------------------------------------------------
(***************************************************************************)
(* run (peg.ts): the packrat matcher.  Its recursive functions become a    *)
(* stack of frames: one for each matchNonTerminal that has not returned,   *)
(* with the locals of matchAlts and matchAlt, and one for each predicate.  *)
(* `want` is the call of matchSym about to be made, `ret` what the last    *)
(* one returned.                                                           *)
(*                                                                         *)
(* A position is an index into the text and the token before it, which     *)
(* lexer callbacks read.  A value is the tree the actions would build.     *)
(***************************************************************************)

CONSTANTS
  TextsOf(_),   \* the texts a specification is tried on
  OptionsOf(_)  \* the options it is tried with: memo, maxMunch (options.lex),
                \* maxDepth, and whether parsePrefix is called

VARIABLES
  text,      \* the input
  options,   \* PegOptions, and whether parsePrefix was called
  frames,    \* the calls not yet returned from
  control,   \* what happens next: "idle", "call", "choose", "seq", "ret" or how the parse ended
  want,      \* the symbol to match, where, and the least level
  ret,       \* the match returned
  memo,      \* memo, keyed by nonterminal, level and position
  report,    \* failOffset, and `expected` as a place in the heap of sets
  heap,      \* the sets of names made so far
  matched    \* history: the alternatives that ever matched

matchVars == <<text, options, frames, control, want, ret, memo, report, heap, matched>>
matcherVars == <<pegVars, matchVars>>

Infinity == 1000   \* NO_PREC
Undefined == [leaf |-> "undefined", at |-> 0]
NoMatch == [ok |-> FALSE]
Match(value, pos, start) == [ok |-> TRUE, value |-> value, pos |-> pos, start |-> start]
Origin == [at |-> 1, prev |-> NoToken]
Want(sym, pos, min) == [sym |-> sym, pos |-> pos, min |-> min]
NoWant == Want(AcceptSym, Origin, 0)
Ended == {"accepted", "failed", "reentered", "too deep", "crashed"}

MatcherInit ==
  /\ text = <<>> /\ options = <<>> /\ frames = <<>> /\ control = "idle"
  /\ want = NoWant /\ ret = NoMatch /\ memo = <<>>
  /\ report = [at |-> 0, set |-> 1] /\ heap = <<{}>> /\ matched = {}
-----------------------------------------------------------------------------
(* levelOf: a rule without a usable precedence always applies. *)
LevelOf(r) == IF Rule(r).prec.assoc \in {"none", "fork"} THEN Infinity ELSE Rule(r).prec.level

(* The least level for the last symbol of a rule.  A faulty one is the same *)
(* for both associativities.                                                *)
TailMinEqual(r) == LevelOf(r)
TailMin(r) == LevelOf(r) + (IF Rule(r).prec.assoc = "right" THEN 0 ELSE 1)

MinFor(r, k) ==
  LET rhs == Rule(r).rhs
  IN  IF k = Len(rhs) /\ k > 1 /\ rhs[k] = Rule(r).lhs /\ LevelOf(r) # Infinity
      THEN TailMin(r) ELSE 0

(* Keys of memo and active.  A faulty one leaves the token before out.      *)
KeyAnyToken(nt, min, pos) == <<nt, min, pos.at>>
Key(nt, min, pos) == <<nt, min, pos>>

SkipOnly == [t \in ToSet(spec.skip) |-> "ignore"]
AllTerms == SkipOnly @@ [t \in ToSet(built.terms) |-> "shift"]
Allowed(t) == IF options.maxMunch THEN AllTerms ELSE SkipOnly @@ (t :> "shift")

After(tok, pos) ==
  [at |-> tok.next,
   prev |-> IF tok.type \in {"$end", "$error"} THEN pos.prev ELSE [type |-> tok.type, at |-> tok.at]]

(* recordFail: only the furthest failures are kept. *)
RecordFail(at, name) ==
  IF at > report.at THEN /\ report' = [at |-> at, set |-> Len(heap) + 1]
                         /\ heap' = Append(heap, {name})
  ELSE /\ heap' = IF at = report.at THEN [heap EXCEPT ![report.set] = @ \cup {name}] ELSE heap
       /\ UNCHANGED report

Fixed == UNCHANGED <<pegVars, text, options>>
KeepsReport == UNCHANGED <<report, heap>>
-----------------------------------------------------------------------------
(* parse or parsePrefix is called. *)
ParseCall ==
  /\ stage = "matching" /\ control = "idle"
  /\ text' \in TextsOf(spec)
  /\ options' \in OptionsOf(spec)
  /\ want' = Want(Rule(1).rhs[1], Origin, 0)
  /\ control' = "call"
  /\ UNCHANGED <<pegVars, frames, ret, memo, report, heap, matched>>

Calling == control = "call"

(* matchTerminal. *)
MatchTerminal ==
  /\ Calling /\ IsTerm(want.sym)
  /\ LET t == want.sym[2]
     IN  \E tok \in {NextToken(Allowed(t), text, want.pos.at, want.pos.prev)} :
           IF tok.type = t
           THEN ret' = Match([leaf |-> t, at |-> tok.at], After(tok, want.pos), tok.at) /\ KeepsReport
           ELSE ret' = NoMatch /\ RecordFail(tok.at, t)
  /\ control' = "ret"
  /\ UNCHANGED <<frames, want, memo, matched>> /\ Fixed

(* A predicate: its operand is matched from here, at any level. *)
EnterPredicate ==
  /\ Calling /\ IsPred(want.sym)
  /\ frames' = Append(frames, [of |-> "pred", sym |-> want.sym, pos |-> want.pos, report |-> report])
  /\ want' = Want(Operand(want.sym), want.pos, 0)
  /\ UNCHANGED <<control, ret, memo, matched>> /\ KeepsReport /\ Fixed

(* The values matched so far in the sequence the symbol belongs to. *)
EnclosingValues ==
  LET inSequence == SelectLastInSeq(frames, LAMBDA f : f.of = "nt")
  IN  IF inSequence = 0 THEN <<>> ELSE frames[inSequence].values

(* A mid-rule action runs at once on the values before it. *)
MidRule ==
  /\ Calling /\ want.sym[1] = "anon"
  /\ LET r == Head(RulesFor(want.sym))
         seen == EnclosingValues
     IN  ret' = Match([mid |-> r, saw |-> SubSeq(seen, Len(seen) - Rule(r).peek + 2, Len(seen))],
                      want.pos, want.pos.at)
  /\ control' = "ret"
  /\ UNCHANGED <<frames, want, memo, matched>> /\ KeepsReport /\ Fixed

(* matchNonTerminal. *)
CallsNonTerminal == Calling /\ IsNonTerminal(want.sym) /\ want.sym[1] # "anon"
Called == Key(want.sym, want.min, want.pos)
Remembered == options.memo /\ Called \in DOMAIN memo
Active == {Key(frames[i].nt, frames[i].min, frames[i].pos) :
             i \in {i \in 1..Len(frames) : frames[i].of = "nt"}}
Depth == Len(SelectSeq(frames, LAMBDA f : f.of = "nt"))

FromMemo ==
  /\ CallsNonTerminal /\ Remembered
  /\ ret' = memo[Called]
  /\ control' = "ret"
  /\ UNCHANGED <<frames, want, memo, matched>> /\ KeepsReport /\ Fixed

(* "Unsupported left recursion re-entering ...", "PEG recursion depth       *)
(* exceeded", and the TypeError of a nonterminal without alternatives.      *)
FreshCall == CallsNonTerminal /\ ~Remembered
Throws(how) ==
  /\ control' = how
  /\ UNCHANGED <<frames, want, ret, memo, matched>> /\ KeepsReport /\ Fixed

Reentered == FreshCall /\ Called \in Active /\ Throws("reentered")
TooDeep == FreshCall /\ Called \notin Active /\ Depth >= options.maxDepth /\ Throws("too deep")
WithoutRules == /\ FreshCall /\ Called \notin Active /\ Depth < options.maxDepth
                /\ want.sym \notin DOMAIN alts /\ Throws("crashed")

(* A frame: the locals of matchAlts (stage, floor, seed and the alternative *)
(* tried, 0 before the first) and of matchAlt (values, cur, start).  start  *)
(* is 0 while undefined.                                                    *)
Frame(nt, min, pos) ==
  [of |-> "nt", nt |-> nt, min |-> min, pos |-> pos, growing |-> FALSE, floor |-> min,
   seed |-> NoMatch, ix |-> 0, values |-> <<>>, cur |-> pos, start |-> 0]

EnterNonTerminal ==
  /\ FreshCall /\ Called \notin Active
  /\ Depth < options.maxDepth
  /\ want.sym \in DOMAIN alts
  /\ frames' = Append(frames, Frame(want.sym, want.min, want.pos))
  /\ control' = "choose"
  /\ UNCHANGED <<want, ret, memo, matched>> /\ KeepsReport /\ Fixed
-----------------------------------------------------------------------------
TopFrame == frames[Len(frames)]
WithTop(f) == [frames EXCEPT ![Len(frames)] = f]

(* The alternatives of the loop a frame is in, and the next to be tried:    *)
(* one whose level the floor lets through.                                  *)
Tried(f) == IF f.growing THEN Direct(f.nt) ELSE Base(f.nt)
AltOf(f) == Tried(f)[f.ix]
NextAlternative(f) ==
  {i \in (f.ix + 1)..Len(Tried(f)) : LevelOf(Tried(f)[i]) >= f.floor}

TryAlternative ==
  /\ control = "choose" /\ NextAlternative(TopFrame) # {}
  /\ LET f == [TopFrame EXCEPT !.ix = Min(NextAlternative(TopFrame))]
     IN  frames' = WithTop(IF f.growing
                           THEN [f EXCEPT !.values = <<f.seed.value>>, !.cur = f.seed.pos, !.start = f.seed.start]
                           ELSE [f EXCEPT !.values = <<>>, !.cur = f.pos, !.start = 0])
  /\ control' = "seq"
  /\ UNCHANGED <<want, ret, memo, matched>> /\ KeepsReport /\ Fixed

(* No alternative is left: matchNonTerminal returns the seed grown so far,  *)
(* or nothing, and remembers it.                                            *)
Returns(result) ==
  /\ frames' = Front(frames)
  /\ memo' = IF options.memo
             THEN (Key(TopFrame.nt, TopFrame.min, TopFrame.pos) :> result) @@ memo ELSE memo
  /\ ret' = result
  /\ control' = "ret"

OutOfAlternatives ==
  /\ control = "choose" /\ NextAlternative(TopFrame) = {}
  /\ Returns(TopFrame.seed)
  /\ UNCHANGED <<want, matched>> /\ KeepsReport /\ Fixed

(* The next symbol of the alternative. *)
NextSymbol ==
  /\ control = "seq"
  /\ LET f == TopFrame
         k == Len(f.values) + 1
     IN  /\ k <= Len(Rule(AltOf(f)).rhs)
         /\ want' = Want(Rule(AltOf(f)).rhs[k], f.cur, MinFor(AltOf(f), k))
  /\ control' = "call"
  /\ UNCHANGED <<frames, ret, memo, matched>> /\ KeepsReport /\ Fixed

(* What the action of a completed alternative gives. *)
Result(f) ==
  LET start == IF f.start = 0 THEN f.pos.at ELSE f.start
      r == AltOf(f)
  IN  Match(IF ~Rule(r).identity THEN [rule |-> r, kids |-> f.values, at |-> start]
            ELSE IF f.values = <<>> THEN Undefined ELSE f.values[1],
            f.cur, start)

Completed == control = "seq" /\ Len(TopFrame.values) = Len(Rule(AltOf(TopFrame)).rhs)

(* An alternative matched where nothing grows: it is the answer. *)
ChoiceMade ==
  /\ Completed /\ Direct(TopFrame.nt) = <<>>
  /\ Returns(Result(TopFrame))
  /\ matched' = matched \cup {AltOf(TopFrame)}
  /\ UNCHANGED want /\ KeepsReport /\ Fixed

(* The floor after a rule has grown the seed.                               *)
FloorAfter(f) ==
  IF Rule(AltOf(f)).prec.assoc = "nonassoc" THEN Max({f.floor, LevelOf(AltOf(f)) + 1}) ELSE f.floor

(* Does the match extend the seed?  A faulty test is content with any.      *)
AnyMatch(f) == TRUE
Extends(f) == f.growing => f.cur.at > f.seed.pos.at

(* The first match is the seed; one that consumed more replaces it, and the *)
(* recursive alternatives are tried afresh.                                 *)
SeedGrows ==
  /\ Completed /\ Direct(TopFrame.nt) # <<>> /\ Extends(TopFrame)
  /\ LET f == TopFrame
     IN  frames' = WithTop([f EXCEPT !.seed = Result(f), !.growing = TRUE, !.ix = 0,
                                     !.floor = IF f.growing THEN FloorAfter(f) ELSE @])
  /\ control' = "choose"
  /\ matched' = matched \cup {AltOf(TopFrame)}
  /\ UNCHANGED <<want, ret, memo>> /\ KeepsReport /\ Fixed

(* A match that went nowhere counts as none. *)
SeedStands ==
  /\ Completed /\ Direct(TopFrame.nt) # <<>> /\ ~Extends(TopFrame)
  /\ control' = "choose"
  /\ matched' = matched \cup {AltOf(TopFrame)}
  /\ UNCHANGED <<frames, want, ret, memo>> /\ KeepsReport /\ Fixed
-----------------------------------------------------------------------------
Returning == control = "ret" /\ frames # <<>>

(* Where the rule starts: at the first symbol that consumed something.      *)
StartAfter(f) == IF f.start = 0 /\ ret.pos.at > f.cur.at THEN ret.start ELSE f.start

SymbolMatched ==
  /\ Returning /\ TopFrame.of = "nt" /\ ret.ok
  /\ frames' = WithTop([TopFrame EXCEPT !.values = Append(@, ret.value), !.cur = ret.pos,
                          !.start = StartAfter(TopFrame)])
  /\ control' = "seq"
  /\ UNCHANGED <<want, ret, memo, matched>> /\ KeepsReport /\ Fixed

SymbolFailed ==
  /\ Returning /\ TopFrame.of = "nt" /\ ~ret.ok
  /\ control' = "choose"
  /\ UNCHANGED <<frames, want, ret, memo, matched>> /\ KeepsReport /\ Fixed

(* A predicate's operand returned.  Negated, the failure report is put back *)
(* as it was; the set it names may have been added to in the meantime.      *)
AndDone ==
  /\ Returning /\ TopFrame.of = "pred" /\ ~TopFrame.sym[2][1]
  /\ frames' = Front(frames)
  /\ ret' = IF ret.ok THEN Match(ret.value, TopFrame.pos, ret.start) ELSE ret
  /\ UNCHANGED <<control, want, memo, matched>> /\ KeepsReport /\ Fixed

NotSucceeds ==
  /\ Returning /\ TopFrame.of = "pred" /\ TopFrame.sym[2][1] /\ ~ret.ok
  /\ frames' = Front(frames)
  /\ ret' = Match(Undefined, TopFrame.pos, TopFrame.pos.at)
  /\ report' = TopFrame.report
  /\ UNCHANGED <<control, want, memo, heap, matched>> /\ Fixed

NotBlocks ==
  /\ Returning /\ TopFrame.of = "pred" /\ TopFrame.sym[2][1] /\ ret.ok
  /\ frames' = Front(frames)
  /\ ret' = NoMatch
  /\ LET was == TopFrame.report
     IN  IF ret.start > was.at
         THEN report' = [at |-> ret.start, set |-> Len(heap) + 1] /\ heap' = Append(heap, {"!"})
         ELSE /\ report' = was
              /\ heap' = IF ret.start = was.at THEN [heap EXCEPT ![was.set] = @ \cup {"!"}] ELSE heap
  /\ UNCHANGED <<control, want, memo, matched>> /\ Fixed

(* The start symbol returned: unless a prefix will do, only what is ignored *)
(* may follow.                                                              *)
Over == control = "ret" /\ frames = <<>>
AtEnd == NextToken(SkipOnly, text, ret.pos.at, ret.pos.prev)
Complete == options.prefix \/ AtEnd.type = "$end"

Accept ==
  /\ Over /\ ret.ok /\ Complete
  /\ control' = "accepted"
  /\ UNCHANGED <<frames, want, ret, memo, matched>> /\ KeepsReport /\ Fixed

TrailingText ==
  /\ Over /\ ret.ok /\ ~Complete
  /\ \E tok \in {AtEnd} : RecordFail(tok.at, "end of input")
  /\ control' = "failed"
  /\ UNCHANGED <<frames, want, ret, memo, matched>> /\ Fixed

Failed ==
  /\ Over /\ ~ret.ok
  /\ control' = "failed"
  /\ UNCHANGED <<frames, want, ret, memo, matched>> /\ KeepsReport /\ Fixed

MatcherNext ==
  \/ ParseCall
  \/ MatchTerminal \/ EnterPredicate \/ MidRule
  \/ FromMemo \/ Reentered \/ TooDeep \/ WithoutRules \/ EnterNonTerminal
  \/ TryAlternative \/ OutOfAlternatives \/ NextSymbol
  \/ ChoiceMade \/ SeedGrows \/ SeedStands
  \/ SymbolMatched \/ SymbolFailed \/ AndDone \/ NotSucceeds \/ NotBlocks
  \/ Accept \/ TrailingText \/ Failed

PegInit == BuilderInit /\ AnalysisInit /\ MatcherInit
Stopped == stage \in {"clash", "rejected"} \/ control \in Ended
PegNext == \/ BuilderNext /\ UNCHANGED <<analysisVars, matchVars>>
           \/ AnalysisNext /\ UNCHANGED matchVars
           \/ MatcherNext
           \/ Stopped /\ UNCHANGED matcherVars

(* makePegParser and parse are straight-line code: they run until they      *)
(* return or throw.  This is weak fairness of PegNext with the states in    *)
(* which no step is left written out (that they are these, TLC's deadlock   *)
(* check shows): ENABLED would evaluate every action again.                 *)
KeepsRunning == []<>Stopped \/ []<><<TRUE>>_matcherVars
PegSpec == PegInit /\ [][PegNext]_matcherVars /\ KeepsRunning
=============================================================================
