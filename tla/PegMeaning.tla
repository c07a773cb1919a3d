---------------------------- MODULE PegMeaning ----------------------------
(***************************************************************************)
(* What the matcher's answers are measured against: ordered choice and     *)
(* precedence climbing as recursive definitions, without memo, frames or   *)
(* order of evaluation; and what an operator grammar means by itself.      *)
(***************************************************************************)
EXTENDS PegMatcher

(* What a terminal, a predicate and a completed rule come to. *)
TokenMeans(t, pos, tok) ==
  IF tok.type = t THEN Match([leaf |-> t, at |-> tok.at], After(tok, pos), tok.at) ELSE NoMatch
LookMeans(negated, pos, m) ==
  IF negated THEN IF m.ok THEN NoMatch ELSE Match(Undefined, pos, pos.at)
  ELSE IF m.ok THEN Match(m.value, pos, m.start) ELSE NoMatch
RuleMeans(f, r, start) ==
  Match(IF ~Rule(r).identity THEN [rule |-> r, kids |-> f.values, at |-> start]
        ELSE IF f.values = <<>> THEN Undefined ELSE f.values[1], f.cur, start)

(* Of a list's alternatives, the first of a level of at least min that      *)
(* matches, and reaches beyond a position.                                  *)
FirstOf(list, outcomes, min, beyond) ==
  LET wins == {i \in 1..Len(list) : LevelOf(list[i]) >= min /\ outcomes[i].ok /\ outcomes[i].pos.at >= beyond}
  IN  IF wins = {} THEN NoMatch ELSE outcomes[Min(wins)] @@ [by |-> list[Min(wins)]]

RECURSIVE Means(_, _, _, _), SequenceMeans(_, _), RestMeans(_, _, _), GrownFrom(_, _, _), GrownBy(_, _, _, _)
ChoiceMeans(list, min, f, beyond) ==
  FirstOf(list, [i \in 1..Len(list) |-> SequenceMeans(f, list[i])], min, beyond)

(* A symbol at a position. *)
Means(sym, pos, min, values) ==
  IF IsTerm(sym) THEN TokenMeans(sym[2], pos, NextToken(Allowed(sym[2]), text, pos.at, pos.prev))
  ELSE IF IsPred(sym) THEN LookMeans(sym[2][1], pos, Means(Operand(sym), pos, 0, values))
  ELSE IF sym[1] = "anon" THEN Match([mid |-> Head(RulesFor(sym)), saw |-> values], pos, pos.at)
  ELSE GrownFrom(sym, ChoiceMeans(Base(sym), min, Frame(sym, min, pos), 1), min)

(* The rest of a rule, from what a frame holds of it. *)
SequenceMeans(f, r) ==
  LET k == Len(f.values) + 1
  IN  IF k > Len(Rule(r).rhs) THEN RuleMeans(f, r, IF f.start = 0 THEN f.pos.at ELSE f.start)
      ELSE RestMeans(f, r, Means(Rule(r).rhs[k], f.cur, MinFor(r, k), f.values))
RestMeans(f, r, m) ==
  IF ~m.ok THEN NoMatch
  ELSE SequenceMeans([f EXCEPT !.values = Append(@, m.value), !.cur = m.pos,
                               !.start = IF @ = 0 /\ m.pos.at > f.cur.at THEN m.start ELSE @], r)

(* A left operand is extended for as long as a recursive alternative that   *)
(* is let through consumes something.                                       *)
GrownFrom(nt, seed, floor) ==
  IF ~seed.ok THEN NoMatch
  ELSE GrownBy(nt, seed, floor,
         ChoiceMeans(Direct(nt), floor,
           [Frame(nt, floor, seed.pos) EXCEPT !.values = <<seed.value>>, !.start = seed.start], seed.pos.at + 1))
GrownBy(nt, seed, floor, m) ==
  IF ~m.ok THEN Match(seed.value, seed.pos, seed.start)
  ELSE GrownFrom(nt, m, IF Rule(m.by).prec.assoc = "nonassoc" THEN Max({floor, LevelOf(m.by) + 1}) ELSE floor)

(* Every answer is that of ordered choice with precedence climbing: neither *)
(* the memo, keyed by level, offset and previous token, nor the order in    *)
(* which seeds grow changes what is matched, how far, or its tree.          *)
MatchesAsMeant ==
  control \in {"accepted", "failed"} =>
    \A m \in {Means(Rule(1).rhs[1], Origin, 0, <<>>)} :
      IF control = "accepted" THEN ret = m
      ELSE m.ok => ~options.prefix /\ NextToken(SkipOnly, text, m.pos.at, m.pos.prev).type # "$end"
-----------------------------------------------------------------------------
(* Operator grammars: one nonterminal, binary and prefix operators with     *)
(* levels and one terminal to stand for operands.                           *)
Binary(r) == Len(Rule(r).rhs) = 3 /\ Rule(r).rhs[1] = Rule(r).lhs /\ IsTerm(Rule(r).rhs[2])
                /\ Rule(r).rhs[3] = Rule(r).lhs /\ LevelOf(r) # Infinity
Prefix(r) == Len(Rule(r).rhs) = 2 /\ IsTerm(Rule(r).rhs[1]) /\ Rule(r).rhs[2] = Rule(r).lhs
                /\ LevelOf(r) # Infinity
Primary(r) == Len(Rule(r).rhs) = 1 /\ IsTerm(Rule(r).rhs[1])
Operators == {r \in 2..RuleCount : Binary(r) \/ Prefix(r)}
IsOperatorGrammar ==
  /\ Operators # {}
  /\ \A r \in 2..RuleCount : Rule(r).lhs = Rule(1).rhs[1] /\ (Binary(r) \/ Prefix(r) \/ Primary(r))

(* The tokens of the text, blanks left out; every lexeme is one character. *)
Lexemes == SelectSeq(text, LAMBDA c : c # " ")
OperatorAt(i, shape(_)) == {r \in 2..RuleCount : shape(r) /\ Lexemes[i] \in {Rule(r).rhs[k][2] : k \in {k \in 1..2 : k <= Len(Rule(r).rhs) /\ IsTerm(Rule(r).rhs[k])}}}
EndsOperand(i) == i >= 1 /\ OperatorAt(i, Primary) # {}

(* Prefix operators and operands where an operand may begin, binary         *)
(* operators behind an operand, an operand last; and between two            *)
(* nonassociative operators of a level one that binds less.                 *)
ReadableText ==
  /\ Lexemes # <<>> /\ EndsOperand(Len(Lexemes))
  /\ \A i \in 1..Len(Lexemes) :
       IF EndsOperand(i - 1) THEN OperatorAt(i, Binary) # {}
       ELSE OperatorAt(i, Primary) # {} \/ OperatorAt(i, Prefix) # {}
  /\ LET Infix(i) == EndsOperand(i - 1)
         By(i) == CHOOSE r \in 2..RuleCount : r \in OperatorAt(i, Binary)
     IN  \A i, j \in 1..Len(Lexemes) :
           i < j /\ Infix(i) /\ Infix(j) /\ LevelOf(By(i)) = LevelOf(By(j)) /\ Rule(By(i)).prec.assoc = "nonassoc" =>
             \E k \in (i + 1)..(j - 1) : Infix(k) /\ LevelOf(By(k)) < LevelOf(By(i))

Holds(inner, outer, assoc) ==
  inner \in Operators =>
    \/ LevelOf(inner) > LevelOf(outer)
    \/ LevelOf(inner) = LevelOf(outer) /\ Rule(outer).prec.assoc = assoc

RECURSIVE ObeysPrecedence(_), Yield(_)
(* Under an operator stand only operators that bind tighter, or equally on  *)
(* the side its associativity allows; a prefix operator ends any left side. *)
ObeysPrecedence(v) ==
  "rule" \in DOMAIN v =>
    /\ Binary(v.rule) => /\ Holds(v.kids[1].rule, v.rule, "left")
                         /\ Prefix(v.kids[3].rule) \/ Holds(v.kids[3].rule, v.rule, "right")
    /\ Prefix(v.rule) => Prefix(v.kids[2].rule) \/ Holds(v.kids[2].rule, v.rule, "right")
    /\ \A k \in 1..Len(v.kids) : ObeysPrecedence(v.kids[k])
Yield(v) == IF "leaf" \in DOMAIN v THEN <<v.leaf>>
            ELSE FlattenSeq([k \in 1..Len(v.kids) |-> Yield(v.kids[k])])

(* src/README.md: precedence drives PEG as it does LR.  A text of an        *)
(* operator grammar is accepted exactly when it is an expression, and its   *)
(* one tree is that of the precedence table.                                *)
ReadsEveryOperatorText ==
  control \in {"accepted", "failed"} /\ ~options.prefix /\ IsOperatorGrammar =>
    /\ control = "accepted" <=> ReadableText
    /\ control = "accepted" => ObeysPrecedence(ret.value) /\ Yield(ret.value) = Lexemes

(* ... where prefix operators bind tightest of all and nonassociative ones  *)
(* least.                                                                   *)
PlainLevels ==
  \A p, q \in Operators :
     /\ Prefix(p) => LevelOf(p) > LevelOf(q) \/ p = q
     /\ Rule(p).prec.assoc = "nonassoc" => LevelOf(p) <= LevelOf(q)
ReadsOperators == control \in {"accepted", "failed"} /\ PlainLevels => ReadsEveryOperatorText

(* What a parser of a PEG grammar answers is what its choices mean, and of  *)
(* an operator grammar also what its precedence table does.                 *)
AnswersAsMeant == MatchesAsMeant /\ ReadsOperators
-----------------------------------------------------------------------------
(* A negated predicate over a predicate: leftCorners looks through one.     *)
NestedPredicates == \E r \in 1..RuleCount : \E k \in 1..Len(Rule(r).rhs) :
                      IsPred(Rule(r).rhs[k]) /\ Len(Rule(r).rhs[k][2]) > 1
ConsumingTerminals == \A i \in 1..Len(built.terms) :
                        \A w \in ToSet(Pattern[built.terms[i]]) : w.word # <<>>

(* A grammar the analysis lets through never comes back to a nonterminal at *)
(* the place it entered it, so matching ends - where terminals match        *)
(* something, which leftCorners takes for granted, and no predicate is      *)
(* under another; what it refuses it finds as components that are exactly   *)
(* the classes that can be entered from each other without consuming.       *)
NeverReenters ==
  /\ ComponentsAreCycles
  /\ control = "reentered" => NestedPredicates \/ ~ConsumingTerminals

(* An alternative reported as unreachable never matches: if the shorter one *)
(* fails, so does what they share.  (The report is wrong for an alternative *)
(* that a level can rule out, and for one that extends a seed by nothing.)  *)
ShadowedNeverMatch ==
  control \in Ended => \A p \in problems.shadowed :
    LevelOf(p[1]) = Infinity /\ p[1] \in ToSet(Base(Rule(p[1]).lhs)) => p[2] \notin matched

(* The static analysis of makePegParser is borne out by every match: what   *)
(* it lets through never re-enters a nonterminal where it is, and what it   *)
(* reports as unreachable never matches.                                    *)
AnalysisBorneOut == NeverReenters /\ ShadowedNeverMatch

(* Building and matching end: growing stops, nothing is waited for. *)
MatchEnds == <>Stopped
=============================================================================
