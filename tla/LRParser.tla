------------------------------ MODULE LRParser ------------------------------
(***************************************************************************)
(* runParser (lalr.ts): the deterministic loop over a flat stack, with the *)
(* lexer driven by the row of the state it is in, error recovery through   *)
(* the caller's callback, and prefix mode.  One action per way an          *)
(* iteration of the loop can go.  A conflict entry hands over to           *)
(* runGlrFork: mode "fork".                                                *)
(*                                                                         *)
(* The input is a sequence of lexemes.  CandidateOrder gives the terminals *)
(* a lexeme matches, in the order nextToken tries them; which are tried at *)
(* all is the row's doing.  stream.offset is the index of the next lexeme. *)
(***************************************************************************)
EXTENDS UnitGotos

CONSTANTS
  Lexemes,          \* what the input is made of
  CandidateOrder,   \* the terminals a lexeme matches, best candidate first
  MaxInput,         \* the longest input considered
  PrefixModes,      \* the entry points to consider: parse FALSE, parsePrefix TRUE
  RecoverTerms,     \* the terminals the recover callback may answer with
  StuckLimit        \* MAX_RECOVERY_AT_SAME_OFFSET, 50 in the code

(* ERROR has no pattern (core.ts), so no lexeme is one. *)
ASSUME LexingAssumption == CandidateOrder \in [Lexemes -> Seq(Terminals \ {ERROR})]
ASSUME LimitsAssumption == MaxInput \in Nat /\ StuckLimit \in Nat

VARIABLES
  mode,        \* "idle", "lex", "parse", "fork" and "forking", or how the call ended
  input,       \* the text
  offset,      \* stream.offset: the first lexeme not lexed
  prefixMode,  \* runParser's last parameter
  stack,       \* the parse stack: [state, value, span]
  realTok,     \* the real lookahead [type, at]
  forkTok,     \* the token handed to runGlrFork
  result,      \* what the call returned: [value, consumed]
  stuckAt,     \* recoveryStuckAt, 0 while undefined
  stuckCount,  \* recoveryStuckCount
  ignored      \* history: the lexemes the lexer dropped as ignored

parserVars == <<mode, input, offset, prefixMode, stack, realTok, forkTok,
                result, stuckAt, stuckCount, ignored>>

NoTok == [type |-> ERROR, at |-> 0]
Leaf(tok) == [leaf |-> tok.type, at |-> tok.at]
Undefined == [leaf |-> ERROR, at |-> 0]
NoResult == [value |-> Undefined, consumed |-> 0]
Over == {"accepted", "failed", "crashed"}

ParserInit ==
  /\ mode = "idle" /\ input = <<>> /\ offset = 1 /\ prefixMode = FALSE
  /\ stack = <<>> /\ realTok = NoTok /\ forkTok = NoTok /\ result = NoResult
  /\ stuckAt = 0 /\ stuckCount = 0 /\ ignored = {}
-----------------------------------------------------------------------------
(* row.get(t): the ERROR terminal and others a row does not have are        *)
(* undefined there.                                                         *)
Entry(row, t) == IF t \in DOMAIN row THEN row[t] ELSE NoEntry

(* nextToken against a row.  What the row has at the next lexeme: the first *)
(* candidate among its keys.  An ignored one is passed over and lexing goes *)
(* on; where nothing matches, ERROR is returned and nothing is consumed.    *)
CandidatesAt(row, i) ==
  LET candidates == CandidateOrder[input[i]]
  IN  Selected(candidates, {k \in 1..Len(candidates) : Entry(row, candidates[k]) # NoEntry})

IgnoredAt(row, i) ==
  CandidatesAt(row, i) # <<>> /\ Entry(row, CandidatesAt(row, i)[1]).kind = "ignore"

NextStop(row) ==
  CHOOSE i \in offset..(Len(input) + 1) :
    /\ \A j \in offset..(i - 1) : IgnoredAt(row, j)
    /\ i <= Len(input) => ~IgnoredAt(row, i)

Lexed(row) ==
  LET i == NextStop(row)
  IN  IF i > Len(input) THEN [tok |-> [type |-> EOF, at |-> i], next |-> i]
      ELSE IF CandidatesAt(row, i) = <<>> THEN [tok |-> [type |-> ERROR, at |-> i], next |-> i]
      ELSE [tok |-> [type |-> CandidatesAt(row, i)[1], at |-> i], next |-> i + 1]

(* realTok = stream.next(row). *)
Advances(row) ==
  /\ realTok' = Lexed(row).tok
  /\ offset' = Lexed(row).next
  /\ ignored' = ignored \cup (offset..(NextStop(row) - 1))

KeepsToken == UNCHANGED <<realTok, offset, ignored>>

(* parse and parsePrefix: a call on a text. *)
Call ==
  /\ phase = "ready"
  /\ mode = "idle"
  /\ \E n \in 0..MaxInput : input' \in [1..n -> Lexemes]
  /\ prefixMode' \in PrefixModes
  /\ mode' = "lex"
  /\ stack' = <<[state |-> 1, value |-> Undefined, span |-> <<>>]>>
  /\ UNCHANGED <<offset, realTok, forkTok, result, stuckAt, stuckCount, ignored>>

(* `let realTok = stream.next(tables.action[0])`. *)
LexFirst ==
  /\ mode = "lex"
  /\ Advances(action[1])
  /\ mode' = "parse"
  /\ UNCHANGED <<input, prefixMode, stack, forkTok, result, stuckAt, stuckCount>>
-----------------------------------------------------------------------------
Top(s) == s[Len(s)]
Row == action[Top(stack).state]
Direct == Entry(Row, realTok.type)
UsingRecovery == Direct.kind \in {"none", "error"}
SyntheticEnd == prefixMode /\ UsingRecovery /\ Entry(Row, EOF) # NoEntry

(* The value of a token, and of a reduce from those of its symbols: the     *)
(* tree its action would build; the identity action passes the first on.    *)
RuleValue(r, kids) ==
  IF ~gram[r].identity THEN [rule |-> r, kids |-> [k \in 1..Len(kids) |-> kids[k].value]]
  ELSE IF kids = <<>> THEN Undefined ELSE kids[1].value

(* span is the history of a frame: the real lexemes shifted under it; an    *)
(* ERROR took none.                                                         *)
RealSpan(tok) == IF tok.at = 0 \/ tok.type = ERROR THEN <<>> ELSE <<tok.at>>
SpanOf(kids) == FlattenSeq([k \in 1..Len(kids) |-> kids[k].span])

(* Shift: the lookahead is replaced only when it was the token shifted, or  *)
(* when it was an error to be lexed again in the new state.  A faulty one   *)
(* always moves on.                                                         *)
RelexesAlways(isReal) == TRUE
Relexes(isReal) == isReal \/ realTok.type = ERROR

ShiftTok(tok, isReal, to) ==
  /\ stack' = Append(stack, [state |-> to, value |-> Leaf(tok), span |-> RealSpan(tok)])
  /\ IF Relexes(isReal) THEN Advances(action[to]) ELSE KeepsToken
  /\ UNCHANGED <<mode, forkTok, result>>

(* The state a reduce looks its goto up in; a faulty one is read before the *)
(* symbols are spliced off.                                                 *)
GotoFromOldTop(below) == Top(stack).state
GotoFrom(below) == Top(below).state

(* Reduce: splice the symbols off, look the goto up, push the value. *)
ReduceBy(r) ==
  LET n == Len(gram[r].rhs)
      kids == SubSeq(stack, Len(stack) - n + 1, Len(stack))
      below == SubSeq(stack, 1, Len(stack) - n)
      to == goto[GotoFrom(below)][gram[r].lhs]
  IN  /\ stack' = IF to = 0 THEN below
                  ELSE Append(below, [state |-> to, value |-> RuleValue(r, kids),
                                      span |-> SpanOf(kids)])
      /\ mode' = IF to = 0 THEN "crashed" ELSE mode
      /\ KeepsToken
      /\ UNCHANGED <<forkTok, result>>

(* What accept reports as consumed; a faulty one counts the lookahead in. *)
ConsumedAll == offset - 1
Consumed == IF prefixMode /\ realTok.type # EOF THEN realTok.at - 1 ELSE offset - 1

(* Accept: parsePrefix reports where the lookahead that did not fit begins. *)
AcceptNow ==
  /\ mode' = "accepted"
  /\ result' = [value |-> Top(stack).value,
                consumed |-> Consumed]
  /\ KeepsToken
  /\ UNCHANGED <<stack, forkTok>>

EnterFork(tok) ==
  /\ mode' = "fork"
  /\ forkTok' = tok
  /\ KeepsToken
  /\ UNCHANGED <<stack, result>>

(* The entry kind the loop expects never to meet: "Internal error". *)
InternalError ==
  /\ mode' = "crashed"
  /\ KeepsToken
  /\ UNCHANGED <<stack, forkTok, result>>

(* What the loop does with the token it settled on. *)
Act(tok, isReal) ==
  LET e == Entry(Row, tok.type)
  IN  \/ e.kind = "shift"    /\ ShiftTok(tok, isReal, e.to)
      \/ e.kind = "reduce"   /\ ReduceBy(e.rule)
      \/ e.kind = "accept"   /\ AcceptNow
      \/ e.kind = "conflict" /\ EnterFork(tok)
      \/ e.kind = "ignore"   /\ InternalError

(* The lookahead fits. *)
StepReal ==
  /\ mode = "parse"
  /\ ~UsingRecovery
  /\ Act(realTok, TRUE)
  /\ UNCHANGED <<input, prefixMode, stuckAt, stuckCount>>

(* Prefix mode: the phrase may end here, so act as at the end of input. *)
StepSyntheticEnd ==
  /\ mode = "parse"
  /\ SyntheticEnd
  /\ Act([type |-> EOF, at |-> 0], FALSE)
  /\ UNCHANGED <<input, prefixMode, stuckAt, stuckCount>>

(* Recovery is stuck when it is called over and over at one offset.  A      *)
(* faulty counter starts afresh each time.                                  *)
StuckNever == 1
StuckNow == IF stuckAt = offset THEN stuckCount + 1 ELSE 1
CountsStuck == stuckAt' = offset /\ stuckCount' = StuckNow

(* recover() answers with a terminal the row has an action for ... *)
StepRecover ==
  /\ mode = "parse"
  /\ UsingRecovery /\ ~SyntheticEnd
  /\ CountsStuck
  /\ StuckNow <= StuckLimit
  /\ \E t \in RecoverTerms :
       /\ Entry(Row, t).kind \notin {"none", "error"}
       /\ Act([type |-> t, at |-> 0], FALSE)
  /\ UNCHANGED <<input, prefixMode>>

(* ... or with none, or is not asked any more: the SyntaxError. *)
Fail ==
  /\ mode = "parse"
  /\ UsingRecovery /\ ~SyntheticEnd
  /\ CountsStuck
  /\ mode' = "failed"
  /\ UNCHANGED <<input, offset, prefixMode, stack, realTok, forkTok, result, ignored>>

ParserNext == \/ Call \/ LexFirst \/ StepReal \/ StepSyntheticEnd
              \/ StepRecover \/ Fail

LRParserInit == ActionTableInit /\ ParserInit
LRParserNext == \/ UnitGotosNext /\ UNCHANGED parserVars
                \/ ParserNext /\ UNCHANGED actionTableVars
lrParserVars == <<actionTableVars, parserVars>>

(* A call runs on the caller's stack until it returns or throws. *)
LRParserSpec == LRParserInit /\ [][LRParserNext]_lrParserVars
                  /\ WF_lrParserVars(LRParserNext)
-----------------------------------------------------------------------------
(* Every variable of a call keeps to its type; the stuck counter stops one  *)
(* past its limit, and only real lexemes are ever in a span.                *)
LRParserTypeOK ==
  /\ mode \in {"idle", "lex", "parse", "fork", "forking"} \cup Over
  /\ input \in Seq(Lexemes)
  /\ offset \in 1..(Len(input) + 1)
  /\ prefixMode \in BOOLEAN
  /\ \A i \in 1..Len(stack) : /\ stack[i].state \in 1..Len(states)
                              /\ stack[i].span \in Seq(1..Len(input))
  /\ realTok.type \in TermsEOF \cup {ERROR}
  /\ realTok.at \in 0..(Len(input) + 1)
  /\ stuckCount \in 0..(StuckLimit + 1)
  /\ ignored \in SUBSET (1..Len(input))

(* Between iterations the stack holds the input lexed so far, each lexeme   *)
(* once and in order, less what the lexer ignored and the lookahead still   *)
(* pending.  README: the recover hook substitutes a token "to retry with",  *)
(* so what it inserts takes the place of nothing in the text.               *)
NoLexemeIsLost ==
  mode = "parse" =>
    LET held == SpanOf(stack)
        lexed == 1..((IF realTok.type = EOF THEN offset ELSE realTok.at) - 1)
    IN  /\ ToSet(held) = lexed \ ignored
        /\ \A i, j \in 1..Len(held) : i < j => held[i] < held[j]

(* A fork that begins with a token recovery inserted, or with an end of     *)
(* input that is none, does not take the pending lookahead up again.        *)
NoForksOn(terms) ==
  \A s \in 1..Len(action), t \in terms : Entry(action[s], t).kind # "conflict"

(* No lexeme is lost or parsed twice, whatever recovery inserts and however *)
(* a fork settles - as long as what recovery inserts starts no fork.        *)
StackHoldsTheInput == NoForksOn(RecoverTerms) => NoLexemeIsLost
-----------------------------------------------------------------------------
(* What may be read where: a terminal is one lexeme, behind others that are *)
(* skipped, or none at all where recovery may insert it; a nonterminal is   *)
(* what one of its rules is, symbol by symbol.                              *)
Places == 0..Len(input)
Gap(i, j) ==
  i <= j /\ \A k \in (i + 1)..j : \E t \in AlwaysSkip : t \in ToSet(CandidateOrder[input[k]])
Tokens ==
  {w \in TermsEOF \X Places \X Places :
     \/ w[2] < w[3] /\ Gap(w[2], w[3] - 1) /\ w[1] \in ToSet(CandidateOrder[input[w[3]]])
     \/ w[2] = w[3] /\ w[1] \in RecoverTerms \cup {ERROR}}

Ends(known, rhs, i) ==
  LET ends[k \in 0..Len(rhs)] ==
        IF k = 0 THEN {i}
        ELSE UNION {{j \in Places : <<rhs[k], m, j>> \in known} : m \in ends[k - 1]}
  IN  ends[Len(rhs)]
ByRules(known) ==
  known \cup UNION {{<<gram[r].lhs, i, j>> : j \in Ends(known, gram[r].rhs, i)} :
                     r \in 2..Len(gram), i \in Places}

(* All that is read anywhere in the text, grown until no rule adds to it:   *)
(* <<X, i, j>> says that X is lexemes i+1..j.                               *)
Phrases ==
  LET most == Cardinality(Symbols \X Places \X Places)
      grown[n \in 0..(most + 1)] == IF n = 0 THEN Tokens ELSE ByRules(grown[n - 1])
      enough == CHOOSE n \in 1..(most + 1) : grown[n] = grown[n - 1]
  IN  grown[enough]

Start == gram[1].rhs[1]
IsSentence(n) == \E j \in Places : <<Start, 0, j>> \in Phrases /\ Gap(j, n)

(* Whatever is accepted is a sentence of the grammar, once skipped lexemes  *)
(* are left out and what recovery inserts is put in, with raw or optimised  *)
(* tables; what parsePrefix reports as consumed is one: it ends where the   *)
(* lookahead that did not fit begins, not where the lexer stands.           *)
AcceptsOnlySentences ==
  mode = "accepted" /\ NoForksOn(RecoverTerms) /\ (prefixMode => NoForksOn({EOF})) =>
    IsSentence(result.consumed)

(* The tables decided nothing: where a conflict was reported, the cell      *)
(* keeps all that its items call for.                                       *)
NoLosses ==
  \A r \in conflicts : Kept(r.state, r.term) = Alternatives(r.state, r.term)

(* The input as terminals, where every lexeme is one terminal. *)
Text(n) == [i \in 1..n |-> CandidateOrder[input[i]][1]]

(* What may stand as an operand of an operator rule, by precedence alone.   *)
OperatorRules == {r \in 2..Len(gram) : gram[r].prec.assoc \in {"left", "right"}}

Binds(inner, outer, assoc) ==
  \/ gram[inner].prec.level > gram[outer].prec.level
  \/ gram[inner].prec.level = gram[outer].prec.level /\ gram[outer].prec.assoc = assoc

IsNode(value) == "rule" \in DOMAIN value

(* Where every operator rule has a precedence, each tree the parser builds  *)
(* has under an operator only operators that bind tighter, or equally on    *)
(* the side its associativity allows: the trees are those of precedence     *)
(* parsing, though the tables decide one state and one lookahead at a time. *)
TreesObeyPrecedence ==
  \A i \in 2..Len(stack) :
    LET v == stack[i].value
        Operand(k, assoc) == IsNode(v.kids[k]) /\ v.kids[k].rule \in OperatorRules =>
                               Binds(v.kids[k].rule, v.rule, assoc)
    IN  IsNode(v) /\ v.rule \in OperatorRules => Operand(1, "left") /\ Operand(3, "right")

(* The internal errors are unreachable: a goto is there for every reduce,   *)
(* and no lookahead meets an ignore entry.                                  *)
NeverCrashes == mode # "crashed"
=============================================================================
