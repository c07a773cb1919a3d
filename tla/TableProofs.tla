----------------------------- MODULE TableProofs -----------------------------
(***************************************************************************)
(* About table construction, for every grammar, stage by stage: the FIRST  *)
(* sets, the LR(0) automaton and the closures it is made of, the LALR(1)   *)
(* lookaheads, then the action and goto tables made of them.               *)
(***************************************************************************)
EXTENDS UnitGotos, FiniteSetTheorems, WellFoundedInduction, TLAPS

(***************************************************************************)
(* What the FIRST fixed point computes, for every grammar: the sets are    *)
(* within every solution of the FIRST equations at every step, and solve   *)
(* them when the constructor returns - so they are the least solution.     *)
(***************************************************************************)

(* A rule of a grammar is well formed. *)
LEMMA RuleShape ==
  ASSUME NEW G \in Grammars, NEW k \in 1..Len(G)
  PROVE  /\ G \in Seq(Rules)
         /\ G[k].lhs \in Heads
         /\ G[k].rhs \in Seq(Symbols)
         /\ G[k].lhs \notin TermsEOF
  <1>1. IsGrammar(G)
    BY GrammarsAssumption
  <1>2. G \in Seq(Rules) /\ G[k] \in Rules
    BY <1>1 DEF IsGrammar
  <1>3. G[k].lhs \in Heads /\ G[k].rhs \in Seq(Symbols)
    BY <1>2 DEF Rules
  <1>4. Heads \cap TermsEOF = {}
    BY SymbolsAssumption DEF Heads, TermsEOF, EOF, ACCEPT
  <1> QED
    BY <1>2, <1>3, <1>4

(* FirstFrom stays within the terminals, and grows with its arguments. *)
LEMMA FirstFromType ==
  ASSUME NEW F \in [Symbols -> SUBSET TermsEOF], NEW N,
         NEW rhs \in Seq(Symbols), NEW k \in Nat \ {0}
  PROVE  FirstFrom(F, N, rhs, k) \subseteq TermsEOF
  <1>1. \A m \in k..Len(rhs) : rhs[m] \in Symbols
    OBVIOUS
  <1> QED
    BY <1>1 DEF FirstFrom

LEMMA FirstFromMonotone ==
  ASSUME NEW F \in [Symbols -> SUBSET TermsEOF], NEW G \in [Symbols -> SUBSET TermsEOF],
         NEW N, NEW M, NEW rhs \in Seq(Symbols), NEW k \in Nat \ {0},
         N \subseteq M, \A s \in Symbols : F[s] \subseteq G[s]
  PROVE  /\ FirstFrom(F, N, rhs, k) \subseteq FirstFrom(G, M, rhs, k)
         /\ NullableFrom(N, rhs, k) => NullableFrom(M, rhs, k)
  <1>1. \A m \in k..Len(rhs) : rhs[m] \in Symbols
    OBVIOUS
  <1>2. {m \in k..Len(rhs) : \A j \in k..(m - 1) : rhs[j] \in N}
          \subseteq {m \in k..Len(rhs) : \A j \in k..(m - 1) : rhs[j] \in M}
    OBVIOUS
  <1>3. FirstFrom(F, N, rhs, k) \subseteq FirstFrom(G, M, rhs, k)
    BY <1>1, <1>2 DEF FirstFrom
  <1> QED
    BY <1>3 DEF NullableFrom

-----------------------------------------------------------------------------
(* A step of the constructor keeps every variable to its type. *)
LEMMA FirstTypeStep ==
  ASSUME FirstTypeOK, [FirstNext]_firstVars
  PROVE  FirstTypeOK'
  <1> USE DEF FirstTypeOK, Phases
  <1>0. Len(gram) \in Nat
    BY GrammarsAssumption DEF IsGrammar
  <1>1. CASE ScanRule
    <2> DEFINE r == gram[ruleIx]
    <2>1. ruleIx \in 1..Len(gram)
      BY <1>0, <1>1 DEF ScanRule, RuleFirst, Grew
    <2>2. r.lhs \in Heads /\ r.rhs \in Seq(Symbols)
      BY <2>1, RuleShape
    <2>3. FirstFrom(first, nullable, r.rhs, 1) \subseteq TermsEOF
      BY <2>2, FirstFromType
    <2>4. first' \in [Symbols -> SUBSET TermsEOF]
      BY <1>1, <2>2, <2>3 DEF ScanRule, RuleFirst, Grew, Symbols
    <2>5. nullable' \in SUBSET Heads
      BY <1>1, <2>2 DEF ScanRule, RuleFirst, Grew
    <2>6. changed' \in BOOLEAN
      BY <1>1 DEF ScanRule, RuleFirst, Grew
    <2> QED
      BY <1>0, <1>1, <2>1, <2>4, <2>5, <2>6 DEF ScanRule, RuleFirst, Grew
  <1>2. CASE NextPass
    <2>1. ruleIx' \in 1..(Len(gram') + 1)
      BY <1>0, <1>2 DEF NextPass
    <2> QED
      BY <1>2, <2>1 DEF NextPass
  <1>3. CASE FirstDone
    BY <1>3 DEF FirstDone
  <1>4. CASE UNCHANGED firstVars
    BY <1>4 DEF firstVars
  <1> QED
    BY <1>1, <1>2, <1>3, <1>4 DEF FirstNext

(* Every variable keeps its type through the passes of the constructor. *)
THEOREM FirstTypeCorrect == FirstSpec => []FirstTypeOK
  <1>1. FirstInit => FirstTypeOK
    <2> SUFFICES ASSUME FirstInit PROVE FirstTypeOK
      OBVIOUS
    <2>1. Len(gram) \in Nat
      BY GrammarsAssumption DEF FirstInit, IsGrammar
    <2>2. first \in [Symbols -> SUBSET TermsEOF]
      BY DEF FirstInit
    <2>3. ruleIx \in 1..(Len(gram) + 1)
      BY <2>1 DEF FirstInit
    <2> QED
      BY <2>2, <2>3 DEF FirstInit, FirstTypeOK, Phases
  <1>2. FirstTypeOK /\ [FirstNext]_firstVars => FirstTypeOK'
    BY FirstTypeStep
  <1> QED
    BY <1>1, <1>2, PTL DEF FirstSpec
-----------------------------------------------------------------------------
(* A terminal begins itself and nothing else: no rule has it as its head. *)
TerminalsBeginThemselves == \A t \in TermsEOF : first[t] = {t}

(* While the pass has changed nothing, every rule it has scanned is closed. *)
ScannedRulesClosed ==
  ~changed => \A k \in 1..(ruleIx - 1) :
    /\ FirstFrom(first, nullable, gram[k].rhs, 1) \subseteq first[gram[k].lhs]
    /\ NullableFrom(nullable, gram[k].rhs, 1) => gram[k].lhs \in nullable

(* The scan of a rule that sets no flag left every set as it was. *)
LEMMA ScanInvariants ==
  FirstTypeOK /\ TerminalsBeginThemselves /\ ScannedRulesClosed
    /\ FirstClosedWhenBuilt /\ [FirstNext]_firstVars
  => TerminalsBeginThemselves' /\ ScannedRulesClosed' /\ FirstClosedWhenBuilt'
  <1> SUFFICES ASSUME FirstTypeOK, TerminalsBeginThemselves, ScannedRulesClosed,
                      FirstClosedWhenBuilt, [FirstNext]_firstVars
               PROVE  TerminalsBeginThemselves' /\ ScannedRulesClosed'
                        /\ FirstClosedWhenBuilt'
    OBVIOUS
  <1>0. Len(gram) \in Nat
    BY GrammarsAssumption DEF IsGrammar, FirstTypeOK
  <1>1. CASE ScanRule
    <2> DEFINE r == gram[ruleIx]
    <2>1. ruleIx \in 1..Len(gram) /\ gram' = gram /\ ruleIx' = ruleIx + 1
      BY <1>0, <1>1 DEF ScanRule, RuleFirst, Grew, FirstTypeOK
    <2>2. r.lhs \in Heads /\ r.lhs \notin TermsEOF /\ r.rhs \in Seq(Symbols)
      BY <2>1, RuleShape DEF FirstTypeOK
    <2>3. first' = [first EXCEPT ![r.lhs] =
                      first[r.lhs] \cup FirstFrom(first, nullable, r.rhs, 1)]
      BY <1>1 DEF ScanRule, RuleFirst, Grew
    <2>4. TerminalsBeginThemselves'
      BY <2>2, <2>3 DEF TerminalsBeginThemselves, FirstTypeOK, Symbols
    <2>5. ScannedRulesClosed'
      <3> SUFFICES ASSUME ~changed',
                          NEW k \in 1..(ruleIx' - 1)
                   PROVE  /\ FirstFrom(first', nullable', gram'[k].rhs, 1)
                               \subseteq first'[gram'[k].lhs]
                          /\ NullableFrom(nullable', gram'[k].rhs, 1)
                               => gram'[k].lhs \in nullable'
        BY DEF ScannedRulesClosed
      <3>1. ~changed /\ first' = first /\ nullable' = nullable
        BY <1>1 DEF ScanRule, RuleFirst, Grew
      <3>2. k \in 1..(ruleIx - 1) \/ k = ruleIx
        BY <2>1
      <3>3. CASE k \in 1..(ruleIx - 1)
        BY <2>1, <3>1, <3>3 DEF ScannedRulesClosed
      <3>4. CASE k = ruleIx
        <4>1. FirstFrom(first, nullable, r.rhs, 1) \subseteq first'[r.lhs]
          BY <2>2, <2>3 DEF FirstTypeOK, Symbols
        <4>2. NullableFrom(nullable, r.rhs, 1) => r.lhs \in nullable'
          BY <1>1 DEF ScanRule, RuleFirst, Grew
        <4> QED
          BY <2>1, <3>1, <3>4, <4>1, <4>2
      <3> QED
        BY <3>2, <3>3, <3>4
    <2>6. FirstClosedWhenBuilt'
      BY <1>1 DEF ScanRule, RuleFirst, Grew, FirstClosedWhenBuilt
    <2> QED
      BY <2>4, <2>5, <2>6
  <1>2. CASE NextPass
    <2>1. ruleIx' = 1 /\ UNCHANGED <<gram, first, nullable, phase>> /\ phase = "first"
      BY <1>2 DEF NextPass
    <2>2. ScannedRulesClosed'
      BY <2>1 DEF ScannedRulesClosed
    <2> QED
      BY <2>1, <2>2 DEF TerminalsBeginThemselves, FirstClosedWhenBuilt
  <1>3. CASE FirstDone
    <2>1. UNCHANGED <<gram, first, nullable, ruleIx, changed>> /\ ~changed
            /\ ruleIx > Len(gram)
      BY <1>3 DEF FirstDone
    <2>2. \A k \in 1..Len(gram) : k \in 1..(ruleIx - 1)
      BY <1>0, <2>1 DEF FirstTypeOK
    <2>3. NullableSolution(nullable) /\ FirstSolution(first, nullable)
      BY <2>1, <2>2 DEF ScannedRulesClosed, TerminalsBeginThemselves,
                        NullableSolution, FirstSolution
    <2> QED
      BY <2>1, <2>3 DEF FirstClosedWhenBuilt, TerminalsBeginThemselves,
                        ScannedRulesClosed, NullableSolution, FirstSolution
  <1>4. CASE UNCHANGED firstVars
    BY <1>4 DEF firstVars, TerminalsBeginThemselves, ScannedRulesClosed,
                FirstClosedWhenBuilt, NullableSolution, FirstSolution
  <1> QED
    BY <1>1, <1>2, <1>3, <1>4 DEF FirstNext

(* When the constructor returns, no rule can add anything to any set. *)
THEOREM FirstIsClosed == FirstSpec => []FirstClosedWhenBuilt
  <1>1. FirstInit => TerminalsBeginThemselves /\ ScannedRulesClosed
                       /\ FirstClosedWhenBuilt
    <2> SUFFICES ASSUME FirstInit
                 PROVE  TerminalsBeginThemselves /\ ScannedRulesClosed
                          /\ FirstClosedWhenBuilt
      OBVIOUS
    <2>1. TerminalsBeginThemselves
      BY DEF FirstInit, TerminalsBeginThemselves, Symbols
    <2>2. ScannedRulesClosed
      BY DEF FirstInit, ScannedRulesClosed
    <2> QED
      BY <2>1, <2>2 DEF FirstInit, FirstClosedWhenBuilt
  <1> QED
    BY <1>1, ScanInvariants, FirstTypeCorrect, PTL DEF FirstSpec

-----------------------------------------------------------------------------
(* One scan adds to its rule's head only what every solution already holds. *)
LEMMA ScanStaysWithin ==
  ASSUME FirstTypeOK, ScanRule, NEW N \in SUBSET Heads,
         NEW F \in [Symbols -> SUBSET TermsEOF],
         NullableSolution(N), FirstSolution(F, N), nullable \subseteq N,
         \A s \in Symbols : first[s] \subseteq F[s]
  PROVE  nullable' \subseteq N /\ \A s \in Symbols : first'[s] \subseteq F[s]
  <1> DEFINE r == gram[ruleIx]
  <1>0. ruleIx \in 1..Len(gram)
    BY GrammarsAssumption DEF ScanRule, RuleFirst, Grew, FirstTypeOK, IsGrammar
  <1>1. r.lhs \in Heads /\ r.rhs \in Seq(Symbols)
    BY <1>0, RuleShape DEF FirstTypeOK
  <1>2. /\ FirstFrom(first, nullable, r.rhs, 1) \subseteq FirstFrom(F, N, r.rhs, 1)
        /\ NullableFrom(nullable, r.rhs, 1) => NullableFrom(N, r.rhs, 1)
    <2>1. first \in [Symbols -> SUBSET TermsEOF] /\ 1 \in Nat \ {0}
      BY DEF FirstTypeOK
    <2>2. \A rhs \in Seq(Symbols) :
            /\ FirstFrom(first, nullable, rhs, 1) \subseteq FirstFrom(F, N, rhs, 1)
            /\ NullableFrom(nullable, rhs, 1) => NullableFrom(N, rhs, 1)
      <3> TAKE rhs \in Seq(Symbols)
      <3> QED
        BY <2>1, FirstFromMonotone, Zenon
    <2> QED
      BY <1>1, <2>2, Zenon
  <1>3. FirstFrom(F, N, r.rhs, 1) \subseteq F[r.lhs]
    BY <1>0 DEF FirstSolution
  <1>4. NullableFrom(N, r.rhs, 1) => r.lhs \in N
    BY <1>0 DEF NullableSolution
  <1>5. nullable' \subseteq N
    BY <1>2, <1>4 DEF ScanRule, RuleFirst, Grew
  <1>6. \A s \in Symbols : first'[s] \subseteq F[s]
    BY <1>1, <1>2, <1>3 DEF ScanRule, RuleFirst, Grew, FirstTypeOK
  <1> QED
    BY <1>5, <1>6

(* The strengthening of FirstWithinEverySolution to every symbol. *)
WithinSolutions ==
  \A N \in SUBSET Heads : NullableSolution(N) =>
    /\ nullable \subseteq N
    /\ \A h \in [NonTerminals -> SUBSET TermsEOF] : FirstSolution(OnSymbols(h), N) =>
         \A s \in Symbols : first[s] \subseteq OnSymbols(h)[s]

LEMMA OnSymbolsType ==
  ASSUME NEW h \in [NonTerminals -> SUBSET TermsEOF]
  PROVE  OnSymbols(h) \in [Symbols -> SUBSET TermsEOF]
  BY DEF OnSymbols, Symbols, Heads

(* No lookahead is invented: the sets never leave any solution. *)
THEOREM FirstIsLeast == FirstSpec => []FirstWithinEverySolution
  <1>1. FirstInit => WithinSolutions
    <2> SUFFICES ASSUME FirstInit, NEW h \in [NonTerminals -> SUBSET TermsEOF],
                        NEW s \in Symbols
                 PROVE  first[s] \subseteq OnSymbols(h)[s] /\ nullable = {}
      BY DEF WithinSolutions, FirstInit
    <2> QED
      BY DEF FirstInit, OnSymbols
  <1>2. FirstTypeOK /\ WithinSolutions /\ [FirstNext]_firstVars => WithinSolutions'
    <2> SUFFICES ASSUME FirstTypeOK, WithinSolutions, [FirstNext]_firstVars,
                        NEW N \in SUBSET Heads, NullableSolution(N)'
                 PROVE  /\ nullable' \subseteq N
                        /\ \A h \in [NonTerminals -> SUBSET TermsEOF] :
                             FirstSolution(OnSymbols(h), N)' =>
                               \A s \in Symbols : first'[s] \subseteq OnSymbols(h)[s]
      BY DEF WithinSolutions, OnSymbols
    <2>0. gram' = gram
      BY DEF FirstNext, firstVars, ScanRule, NextPass, FirstDone
    <2>1. NullableSolution(N)
      BY <2>0 DEF NullableSolution
    <2>2. nullable \subseteq N
      BY <2>1 DEF WithinSolutions
    <2>3. CASE ScanRule
      <3>1. nullable' \subseteq N
        <4>1. ruleIx \in 1..Len(gram)
          BY <2>3, GrammarsAssumption DEF ScanRule, RuleFirst, Grew, FirstTypeOK, IsGrammar
        <4>2. NullableFrom(nullable, gram[ruleIx].rhs, 1)
                => NullableFrom(N, gram[ruleIx].rhs, 1)
          BY <2>2 DEF NullableFrom
        <4> QED
          BY <2>1, <2>2, <2>3, <4>1, <4>2 DEF ScanRule, RuleFirst, Grew, NullableSolution
      <3>2. ASSUME NEW h \in [NonTerminals -> SUBSET TermsEOF],
                   FirstSolution(OnSymbols(h), N)'
            PROVE  \A s \in Symbols : first'[s] \subseteq OnSymbols(h)[s]
        <4>1. FirstSolution(OnSymbols(h), N)
          BY <2>0, <3>2 DEF FirstSolution, OnSymbols
        <4>2. \A s \in Symbols : first[s] \subseteq OnSymbols(h)[s]
          BY <2>1, <4>1 DEF WithinSolutions
        <4> QED
          BY <2>1, <2>2, <2>3, <4>1, <4>2, OnSymbolsType, ScanStaysWithin
      <3> QED
        BY <3>1, <3>2
    <2>4. CASE UNCHANGED <<first, nullable>>
      BY <2>0, <2>1, <2>4 DEF WithinSolutions, FirstSolution, OnSymbols
    <2> QED
      BY <2>3, <2>4 DEF FirstNext, firstVars, NextPass, FirstDone
  <1>3. WithinSolutions => FirstWithinEverySolution
    <2>1. NonTerminals \subseteq Symbols
      BY DEF Symbols, Heads
    <2>2. \A A \in NonTerminals : A \notin TermsEOF /\ A # ACCEPT
      BY SymbolsAssumption DEF TermsEOF, EOF, ACCEPT
    <2>3. \A h \in [NonTerminals -> SUBSET TermsEOF], A \in NonTerminals :
            OnSymbols(h)[A] = h[A]
      BY <2>1, <2>2 DEF OnSymbols
    <2> QED
      BY <2>1, <2>3 DEF WithinSolutions, FirstWithinEverySolution
  <1> QED
    BY <1>1, <1>2, <1>3, FirstTypeCorrect, PTL DEF FirstSpec

-----------------------------------------------------------------------------
(***************************************************************************)
(* The LR(0) automaton, for every grammar: the worklist of states and the  *)
(* queue of each closure leave, when makeParser returns, exactly the       *)
(* automaton of the grammar, each state once.  What later stages do to     *)
(* their own tables leaves it alone.                                       *)
(***************************************************************************)

(* A set of numbers has a least one. *)
LEMMA LeastNumber ==
  ASSUME NEW S \in SUBSET Nat, S # {}
  PROVE  \E n \in S : \A m \in Nat : m < n => m \notin S
  <1> DEFINE R == {p \in Nat \X Nat : p[1] < p[2]}
  <1>1. IsWellFoundedOn(R, Nat)
    BY NatLessThanWellFounded DEF OpToRel
  <1> HIDE DEF R
  <1>2. PICK n \in S : \A m \in S : ~ (<<m, n>> \in R)
    BY <1>1, WFMin
  <1>3. \A m \in S : ~ (m < n)
    BY <1>2 DEF R
  <1> QED
    BY <1>3

(* Induction, for a property given as the set of the numbers that have it. *)
LEMMA Climbing ==
  ASSUME NEW N \in Nat, NEW H, 0 \in H, \A n \in 1..N : n - 1 \in H => n \in H
  PROVE  \A n \in 0..N : n \in H
  <1> DEFINE Lacks == {n \in 0..N : n \notin H}
  <1> SUFFICES ASSUME Lacks # {} PROVE FALSE
    OBVIOUS
  <1>1. Lacks \in SUBSET Nat
    OBVIOUS
  <1>2. PICK n \in Lacks : \A m \in Nat : m < n => m \notin Lacks
    <2> HIDE DEF Lacks
    <2> QED
      BY <1>1, LeastNumber
  <1>3. n \in 1..N /\ n \notin H
    OBVIOUS
  <1>4. n - 1 \notin Lacks
    BY <1>2, <1>3
  <1> QED
    BY <1>3, <1>4

(* A function of the numbers up to N defined by recursion exists. *)
Follows(f, N, a, next) == f[0] = a /\ \A n \in 1..N : f[n] = next[n][f[n - 1]]

LEMMA Recursion ==
  ASSUME NEW N \in Nat, NEW V, NEW a \in V, NEW next \in [1..N -> [V -> V]]
  PROVE  \E f \in [0..N -> V] : Follows(f, N, a, next)
  <1> DEFINE Solves(f, n) == /\ f \in [0..n -> V]
                             /\ f[0] = a
                             /\ \A k \in 1..n : f[k] = next[k][f[k - 1]]
             Lacks == {n \in 0..N : ~ \E f : Solves(f, n)}
  <1>1. Lacks = {}
    <2> SUFFICES ASSUME Lacks # {} PROVE FALSE
      OBVIOUS
    <2>1. PICK n \in 0..N : /\ ~ \E f : Solves(f, n)
                            /\ \A m \in 0..N : m < n => \E f : Solves(f, m)
      <3>1. Lacks \in SUBSET Nat
        OBVIOUS
      <3>2. PICK n \in Lacks : \A m \in Nat : m < n => m \notin Lacks
        <4> HIDE DEF Lacks
        <4> QED
          BY <3>1, LeastNumber
      <3> HIDE DEF Solves
      <3>3. n \in 0..N /\ ~ \E f : Solves(f, n)
        OBVIOUS
      <3>4. ASSUME NEW m \in 0..N, m < n PROVE \E f : Solves(f, m)
        <4>1. m \notin Lacks
          BY <3>2, <3>4
        <4> QED
          BY <4>1
      <3> QED
        BY <3>3, <3>4
    <2>2. Solves([k \in 0..0 |-> a], 0)
      OBVIOUS
    <2>3. n \in 1..N
      <3> HIDE DEF Solves
      <3> QED
        BY <2>1, <2>2
    <2>4. \E f : Solves(f, n - 1)
      <3> HIDE DEF Solves
      <3> QED
        BY <2>1, <2>3
    <2>5. PICK f : Solves(f, n - 1)
      BY <2>4
    <2> DEFINE g == [k \in 0..n |-> IF k = n THEN next[n][f[n - 1]] ELSE f[k]]
    <2>6. g \in [0..n -> V] /\ g[0] = a
      <3>1. f[n - 1] \in V
        BY <2>3, <2>5
      <3>2. next[n][f[n - 1]] \in V
        BY <2>3, <3>1
      <3>3. \A k \in 0..n : k # n => f[k] \in V
        BY <2>3, <2>5
      <3> QED
        BY <2>3, <2>5, <3>2, <3>3
    <2>7. ASSUME NEW k \in 1..n PROVE g[k] = next[k][g[k - 1]]
      <3>1. g[k - 1] = f[k - 1]
        BY <2>3
      <3>2. CASE k = n
        BY <3>1, <3>2
      <3>3. CASE k # n
        <4>1. k \in 1..(n - 1)
          BY <2>3, <3>3
        <4>2. g[k] = f[k]
          BY <3>3
        <4>3. f[k] = next[k][f[k - 1]]
          BY <2>5, <4>1
        <4> HIDE DEF g
        <4> QED
          BY <3>1, <4>2, <4>3
      <3> QED
        BY <3>2, <3>3
    <2>8. Solves(g, n)
      <3> HIDE DEF g
      <3> QED
        BY <2>6, <2>7
    <2> HIDE DEF Solves
    <2> QED
      BY <2>1, <2>8
  <1>2. \E f : Solves(f, N)
    <2>1. N \in 0..N
      OBVIOUS
    <2> HIDE DEF Solves
    <2> QED
      BY <1>1, <2>1
  <1> QED
    BY <1>2 DEF Follows

(* A set that grows by a step within a finite one has stopped growing after *)
(* as many steps as there are elements.                                     *)
Expands(next, U) == next \in [SUBSET U -> SUBSET U] /\ \A X \in SUBSET U : X \subseteq next[X]
Grows(f, N, a, next) == f[0] = a /\ \A n \in 1..N : f[n] = next[f[n - 1]]
GrowsNoMore(f, N, next) == next[f[N]] = f[N] /\ \E n \in 1..N : f[n] = f[n - 1]

LEMMA Growing ==
  ASSUME NEW U, IsFiniteSet(U), NEW N \in Nat, N = Cardinality(U),
         NEW a \in SUBSET U, a # {},
         NEW next, Expands(next, U)
  PROVE  \E f \in [0..N -> SUBSET U] : Grows(f, N, a, next) /\ GrowsNoMore(f, N, next)
  <1>0. next \in [SUBSET U -> SUBSET U] /\ \A X \in SUBSET U : X \subseteq next[X]
    BY DEF Expands
  <1>1. PICK f \in [0..N -> SUBSET U] : Grows(f, N, a, next)
    <2>1. PICK V : V = SUBSET U
      OBVIOUS
    <2>2. PICK b \in V : b = a
      BY <2>1
    <2>3. PICK steps : steps = [n \in 1..N |-> next]
      OBVIOUS
    <2>4. steps \in [1..N -> [V -> V]]
      BY <1>0, <2>1, <2>3
    <2>5. PICK f \in [0..N -> V] : Follows(f, N, b, steps)
      BY <2>4, Recursion
    <2>6. \A n \in 1..N : f[n] = next[f[n - 1]]
      BY <2>3, <2>5 DEF Follows
    <2> QED
      BY <2>1, <2>2, <2>5, <2>6 DEF Follows, Grows
  <1>2. \A n \in 0..N : IsFiniteSet(f[n]) /\ Cardinality(f[n]) \in Nat /\ Cardinality(f[n]) <= N
    <2> SUFFICES ASSUME NEW n \in 0..N
                 PROVE  IsFiniteSet(f[n]) /\ Cardinality(f[n]) \in Nat /\ Cardinality(f[n]) <= N
      OBVIOUS
    <2>1. f[n] \in SUBSET U
      OBVIOUS
    <2> QED
      BY <2>1, FS_Subset, FS_CardinalityType
  <1>3. \A n \in 1..N : f[n] = next[f[n - 1]] /\ f[n - 1] \subseteq f[n]
    BY <1>0, <1>1 DEF Grows
  <1> DEFINE Halts(n) == \E m \in 1..n : f[m] = f[m - 1]
             H == {n \in 0..N : Halts(n) \/ Cardinality(f[n]) >= n + 1}
             K == {n \in 0..N : Halts(n) => next[f[n]] = f[n]}
  <1>4. \A n \in 0..N : n \in H
    <2>1. 0 \in H
      <3>1. f[0] # {}
        BY <1>1 DEF Grows
      <3>2. IsFiniteSet(f[0]) /\ Cardinality(f[0]) \in Nat
        BY <1>2
      <3>3. Cardinality(f[0]) # 0
        BY <3>1, <3>2, FS_EmptySet
      <3> QED
        BY <3>2, <3>3
    <2>2. ASSUME NEW n \in 1..N, n - 1 \in H PROVE n \in H
      <3>1. CASE Halts(n - 1)
        BY <3>1
      <3>2. CASE Cardinality(f[n - 1]) >= n /\ f[n] = f[n - 1]
        <4>1. n \in 1..n
          OBVIOUS
        <4>2. Halts(n)
          BY <3>2, <4>1
        <4> QED
          BY <4>2
      <3>3. CASE Cardinality(f[n - 1]) >= n /\ f[n] # f[n - 1]
        <4>1. f[n - 1] \in SUBSET f[n] /\ IsFiniteSet(f[n])
          BY <1>2, <1>3
        <4>2. Cardinality(f[n - 1]) <= Cardinality(f[n]) /\ Cardinality(f[n - 1]) # Cardinality(f[n])
          BY <3>3, <4>1, FS_Subset
        <4>3. Cardinality(f[n]) \in Nat /\ Cardinality(f[n - 1]) \in Nat
          BY <1>2
        <4>4. Cardinality(f[n]) >= n + 1
          BY <3>3, <4>2, <4>3
        <4> QED
          BY <4>4
      <3> QED
        BY <2>2, <3>1, <3>2, <3>3
    <2> HIDE DEF H
    <2> QED
      BY <2>1, <2>2, Climbing
  <1>5. Halts(N)
    <2>1. Cardinality(f[N]) \in Nat /\ Cardinality(f[N]) <= N
      BY <1>2
    <2>2. N \in H
      <3> HIDE DEF H
      <3> QED
        BY <1>4
    <2> HIDE DEF Halts
    <2> QED
      BY <2>1, <2>2
  <1>6. \A n \in 0..N : n \in K
    <2>1. 0 \in K
      OBVIOUS
    <2>2. ASSUME NEW n \in 1..N, n - 1 \in K PROVE n \in K
      <3> SUFFICES ASSUME Halts(n) PROVE next[f[n]] = f[n]
        OBVIOUS
      <3>1. CASE f[n] = f[n - 1]
        BY <1>3, <3>1
      <3>2. CASE f[n] # f[n - 1]
        <4>1. Halts(n - 1)
          <5>1. PICK m \in 1..n : f[m] = f[m - 1]
            OBVIOUS
          <5>2. m \in 1..(n - 1)
            BY <3>2, <5>1
          <5> QED
            BY <5>1, <5>2
        <4>2. next[f[n - 1]] = f[n - 1]
          <5> HIDE DEF Halts
          <5> QED
            BY <2>2, <4>1
        <4> QED
          BY <1>3, <4>2
      <3> QED
        BY <3>1, <3>2
    <2> HIDE DEF K
    <2> QED
      BY <2>1, <2>2, Climbing
  <1>7. next[f[N]] = f[N]
    <2>1. N \in K
      <3> HIDE DEF K
      <3> QED
        BY <1>6
    <2> HIDE DEF Halts
    <2> QED
      BY <1>5, <2>1
  <1> QED
    BY <1>1, <1>5, <1>7 DEF GrowsNoMore

(* A function with the same start and the same steps is the same.           *)
StepAlike(f, g, N) == f[0] = g[0] /\ \A n \in 1..N : f[n - 1] = g[n - 1] => f[n] = g[n]
Alike(f, g, N) == \A n \in 0..N : f[n] = g[n]

LEMMA SameGrowth ==
  ASSUME NEW N \in Nat, NEW f, NEW g, StepAlike(f, g, N)
  PROVE  Alike(f, g, N)
  <1> USE DEF StepAlike, Alike
  <1> DEFINE Same == {n \in 0..N : f[n] = g[n]}
  <1>1. 0 \in Same
    OBVIOUS
  <1>2. ASSUME NEW n \in 1..N, n - 1 \in Same PROVE n \in Same
    BY <1>2
  <1>3. \A n \in 0..N : n \in Same
    <2> HIDE DEF Same
    <2> QED
      BY <1>1, <1>2, Climbing
  <1> QED
    BY <1>3

LEMMA NoneIsASequence ==
  ASSUME NEW S
  PROVE  <<>> \in Seq(S)
  OBVIOUS

(* f gives what is selected of each prefix of s. *)
Selecting(f, s, I) ==
  /\ f[0] = <<>>
  /\ \A n \in 1..Len(s) : f[n] = IF n \in I THEN Append(f[n - 1], s[n]) ELSE f[n - 1]

LEMMA SelectedSteps ==
  ASSUME NEW S, NEW s \in Seq(S), NEW I
  PROVE  \E f \in [0..Len(s) -> Seq(S)] :
           Selecting(f, s, I) /\ Selected(s, I) = f[Len(s)]
  <1>0. PICK N \in Nat : N = Len(s)
    OBVIOUS
  <1> DEFINE next == [n \in 1..N |-> [q \in Seq(S) |-> IF n \in I THEN Append(q, s[n]) ELSE q]]
             IsF(f) == f = [n \in 0..Len(s) |->
                              IF n = 0 THEN <<>>
                              ELSE IF n \in I THEN Append(f[n - 1], s[n]) ELSE f[n - 1]]
  <1>1. next \in [1..N -> [Seq(S) -> Seq(S)]]
    <2>1. \A n \in 1..N : s[n] \in S
      BY <1>0
    <2>2. \A n \in 1..N, q \in Seq(S) : Append(q, s[n]) \in Seq(S)
      BY <2>1
    <2> QED
      BY <2>2
  <1>2. \A n \in 1..N, q \in Seq(S) : next[n][q] = IF n \in I THEN Append(q, s[n]) ELSE q
    OBVIOUS
  <1> HIDE DEF next
  <1>3. PICK g \in [0..N -> Seq(S)] : /\ g[0] = <<>>
                                      /\ \A n \in 1..N : g[n] = next[n][g[n - 1]]
    <2>1. PICK V : V = Seq(S)
      OBVIOUS
    <2>2. PICK none \in V : none = <<>>
      BY <2>1, NoneIsASequence
    <2>3. next \in [1..N -> [V -> V]]
      BY <1>1, <2>1
    <2>4. \E g \in [0..N -> V] : Follows(g, N, none, next)
      BY <2>3, Recursion
    <2> QED
      BY <2>1, <2>2, <2>4 DEF Follows
  <1>4. \A n \in 1..N : g[n] = IF n \in I THEN Append(g[n - 1], s[n]) ELSE g[n - 1]
    <2>1. \A n \in 1..N : g[n - 1] \in Seq(S)
      OBVIOUS
    <2> QED
      BY <1>2, <1>3, <2>1
  <1>5. IsF(g)
    <2>1. g = [n \in 0..N |-> g[n]]
      OBVIOUS
    <2>2. \A n \in 0..N : g[n] = IF n = 0 THEN <<>>
                               ELSE IF n \in I THEN Append(g[n - 1], s[n]) ELSE g[n - 1]
      <3> SUFFICES ASSUME NEW n \in 0..N
                   PROVE g[n] = IF n = 0 THEN <<>>
                                ELSE IF n \in I THEN Append(g[n - 1], s[n]) ELSE g[n - 1]
        OBVIOUS
      <3>1. n = 0 \/ n \in 1..N
        OBVIOUS
      <3> QED
        BY <1>3, <1>4, <3>1
    <2> QED
      BY <1>0, <2>1, <2>2
  <1> DEFINE F == CHOOSE f : IsF(f)
  <1>6. IsF(F)
    BY <1>5
  <1>7. Selected(s, I) = F[Len(s)]
    BY DEF Selected
  <1> HIDE DEF F
  <1>8. /\ F = [n \in 0..N |-> F[n]]
        /\ F[0] = <<>>
        /\ \A n \in 1..N : F[n] = IF n \in I THEN Append(F[n - 1], s[n]) ELSE F[n - 1]
    <2>1. F = [n \in 0..N |-> IF n = 0 THEN <<>>
                              ELSE IF n \in I THEN Append(F[n - 1], s[n]) ELSE F[n - 1]]
      BY <1>0, <1>6
    <2>2. 0 \in 0..N /\ \A n \in 1..N : n \in 0..N /\ n # 0
      OBVIOUS
    <2> QED
      BY <2>1, <2>2
  <1> HIDE DEF IsF
  <1>9. \A n \in 0..N : F[n] = g[n]
    <2> DEFINE Same == {n \in 0..N : F[n] = g[n]}
    <2>1. 0 \in Same
      BY <1>3, <1>8
    <2>2. ASSUME NEW n \in 1..N, n - 1 \in Same PROVE n \in Same
      <3>1. F[n - 1] = g[n - 1]
        BY <2>2
      <3>2. F[n] = g[n]
        BY <1>4, <1>8, <3>1
      <3> QED
        BY <3>2
    <2>3. \A n \in 0..N : n \in Same
      <3> HIDE DEF Same
      <3> QED
        BY <2>1, <2>2, Climbing
    <2> QED
      BY <2>3
  <1>10. Selected(s, I) = g[Len(s)]
    BY <1>0, <1>7, <1>9
  <1> QED
    BY <1>0, <1>3, <1>4, <1>10 DEF Selecting

(* What a sequence holds once an element is appended. *)
LEMMA AppendedHolds ==
  ASSUME NEW S, NEW q \in Seq(S), NEW x \in S
  PROVE  ToSet(Append(q, x)) = ToSet(q) \cup {x}
  <1>1. PICK n \in Nat : n = Len(q)
    OBVIOUS
  <1>2. /\ DOMAIN Append(q, x) = 1..(n + 1)
        /\ Append(q, x)[n + 1] = x
        /\ \A i \in 1..n : Append(q, x)[i] = q[i]
    BY <1>1
  <1>3. DOMAIN q = 1..n
    BY <1>1
  <1> QED
    BY <1>2, <1>3 DEF ToSet

LEMMA SelectedIs ==
  ASSUME NEW S, NEW s \in Seq(S), NEW I
  PROVE  /\ Selected(s, I) \in Seq(S)
         /\ \A x : x \in ToSet(Selected(s, I)) <=> \E n \in 1..Len(s) : n \in I /\ x = s[n]
  <1>0. PICK N \in Nat : N = Len(s)
    OBVIOUS
  <1>1. PICK f \in [0..N -> Seq(S)] :
           /\ f[0] = <<>>
           /\ \A n \in 1..N : f[n] = IF n \in I THEN Append(f[n - 1], s[n]) ELSE f[n - 1]
           /\ Selected(s, I) = f[N]
    <2>1. PICK f \in [0..Len(s) -> Seq(S)] : Selecting(f, s, I) /\ Selected(s, I) = f[Len(s)]
      BY SelectedSteps
    <2> QED
      BY <1>0, <2>1 DEF Selecting
  <1> DEFINE Holds(n) == \A x : x \in ToSet(f[n]) <=> \E m \in 1..n : m \in I /\ x = s[m]
             H == {n \in 0..N : Holds(n)}
  <1>2. Holds(0)
    BY <1>1 DEF ToSet
  <1>3. ASSUME NEW n \in 1..N, Holds(n - 1) PROVE Holds(n)
    <2>1. f[n - 1] \in Seq(S) /\ s[n] \in S
      BY <1>0, <1>3
    <2>2. ToSet(Append(f[n - 1], s[n])) = ToSet(f[n - 1]) \cup {s[n]}
      BY <2>1, AppendedHolds
    <2>3. \A x : x \in ToSet(f[n]) <=> x \in ToSet(f[n - 1]) \/ (n \in I /\ x = s[n])
      BY <1>1, <2>2
    <2>4. \A x : (\E m \in 1..n : m \in I /\ x = s[m])
                  <=> (\E m \in 1..(n - 1) : m \in I /\ x = s[m]) \/ (n \in I /\ x = s[n])
      OBVIOUS
    <2> QED
      BY <1>3, <2>3, <2>4
  <1> HIDE DEF Holds
  <1>4. \A n \in 0..N : n \in H
    <2>1. 0 \in H /\ \A n \in 1..N : n - 1 \in H => n \in H
      BY <1>2, <1>3
    <2> HIDE DEF H
    <2> QED
      BY <2>1, Climbing
  <1>5. Holds(N)
    BY <1>4
  <1>6. f[N] \in Seq(S)
    OBVIOUS
  <1> QED
    BY <1>0, <1>1, <1>5, <1>6 DEF Holds
-----------------------------------------------------------------------------
(* The operators on items, of a grammar G: those of the model are these of  *)
(* gram, before a step and after it.                                        *)
CompleteIn(G, i) == i.dot >= Len(G[i.rule].rhs)
NextSymIn(G, i)  == G[i.rule].rhs[i.dot + 1]

ExpectedIn(G, I) == {NextSymIn(G, i) : i \in {i \in I : ~CompleteIn(G, i)}}
IntoIn(G, I) ==
  LET wanted == ExpectedIn(G, I)
  IN  I \cup {Item(r, 0) : r \in {r \in 1..Len(G) : G[r].lhs \in wanted}}

ClosureIn(G, I) ==
  LET grow[n \in 0..Len(G)] ==
        IF n = 0 THEN I ELSE IntoIn(G, grow[n - 1])
  IN  grow[Len(G)]

KernelIn(G, I, sym) == {Advance(i) : i \in {j \in I : ~CompleteIn(G, j) /\ NextSymIn(G, j) = sym}}
MoveIn(G, I, sym) == ClosureIn(G, KernelIn(G, I, sym))

ClosedIn(G, I) == IntoIn(G, I) \subseteq I

LEMMA InGram ==
  /\ \A i : Complete(i) <=> CompleteIn(gram, i)
  /\ \A i : NextSym(i) = NextSymIn(gram, i)
  /\ \A I : Expected(I) = ExpectedIn(gram, I)
  /\ \A I : ClosureOf(I) = ClosureIn(gram, I)
  /\ \A I, sym : MoveOf(I, sym) = MoveIn(gram, I, sym)
  <1>1. /\ \A i : Complete(i) <=> CompleteIn(gram, i)
        /\ \A i : NextSym(i) = NextSymIn(gram, i)
    BY DEF Complete, CompleteIn, NextSym, NextSymIn
  <1>2. \A I : Expected(I) = ExpectedIn(gram, I)
    BY DEF Expected, ExpectedIn, Complete, CompleteIn, NextSym, NextSymIn
  <1>3. \A I : ClosureOf(I) = ClosureIn(gram, I)
    BY DEF ClosureOf, ClosureIn, Into, IntoIn, Expected, ExpectedIn,
           Complete, CompleteIn, NextSym, NextSymIn
  <1>4. \A I, sym : MoveOf(I, sym) = MoveIn(gram, I, sym)
    BY <1>3 DEF MoveOf, MoveIn, KernelIn, Complete, CompleteIn, NextSym, NextSymIn
  <1> QED
    BY <1>1, <1>2, <1>3, <1>4

(* The steps of a closure. *)
GrowsIn(G, N, I, g) ==
  /\ g[0] = I
  /\ \A n \in 1..N : g[n] = IntoIn(G, g[n - 1])
  /\ \A n \in 0..N : g[n] \subseteq I \cup {Item(r, 0) : r \in 1..N}
  /\ ClosureIn(G, I) = g[N]

LEMMA ClosureSteps ==
  ASSUME NEW G, NEW N \in Nat, N = Len(G), NEW I
  PROVE  \E g : GrowsIn(G, N, I, g)
  <1> DEFINE All == I \cup {Item(r, 0) : r \in 1..N}
             next == [n \in 1..N |-> [J \in SUBSET All |-> IntoIn(G, J)]]
             IsF(f) == f = [n \in 0..Len(G) |-> IF n = 0 THEN I ELSE IntoIn(G, f[n - 1])]
  <1>1. \A J \in SUBSET All : IntoIn(G, J) \in SUBSET All
    BY DEF IntoIn
  <1>2. next \in [1..N -> [SUBSET All -> SUBSET All]]
    <2> HIDE DEF All
    <2> QED
      BY <1>1
  <1>3. I \in SUBSET All
    OBVIOUS
  <1>4. \A n \in 1..N, J \in SUBSET All : next[n][J] = IntoIn(G, J)
    <2> HIDE DEF All
    <2> QED
      OBVIOUS
  <1> HIDE DEF next, All
  <1>5. PICK g \in [0..N -> SUBSET All] : g[0] = I /\ \A n \in 1..N : g[n] = next[n][g[n - 1]]
    <2>1. PICK V : V = SUBSET All
      OBVIOUS
    <2>2. PICK a \in V : a = I
      BY <1>3, <2>1
    <2>3. next \in [1..N -> [V -> V]]
      BY <1>2, <2>1
    <2>4. \E g \in [0..N -> V] : Follows(g, N, a, next)
      BY <2>3, Recursion
    <2> QED
      BY <2>1, <2>2, <2>4 DEF Follows
  <1>6. \A n \in 1..N : g[n] = IntoIn(G, g[n - 1])
    <2>1. \A n \in 1..N : g[n - 1] \in SUBSET All
      OBVIOUS
    <2> QED
      BY <1>4, <1>5, <2>1
  <1>7. IsF(g)
    <2>1. g = [n \in 0..N |-> g[n]]
      OBVIOUS
    <2>2. \A n \in 0..N : g[n] = IF n = 0 THEN I ELSE IntoIn(G, g[n - 1])
      <3> SUFFICES ASSUME NEW n \in 0..N PROVE g[n] = IF n = 0 THEN I ELSE IntoIn(G, g[n - 1])
        OBVIOUS
      <3>1. n = 0 \/ n \in 1..N
        OBVIOUS
      <3> QED
        BY <1>5, <1>6, <3>1
    <2> QED
      BY <2>1, <2>2
  <1> DEFINE F == CHOOSE f : IsF(f)
  <1>8. IsF(F)
    BY <1>7
  <1>9. ClosureIn(G, I) = F[N]
    BY DEF ClosureIn
  <1> HIDE DEF F
  <1>10. F[0] = I /\ \A n \in 1..N : F[n] = IntoIn(G, F[n - 1])
    <2>1. F = [n \in 0..N |-> IF n = 0 THEN I ELSE IntoIn(G, F[n - 1])]
      BY <1>8
    <2>2. 0 \in 0..N /\ \A n \in 1..N : n \in 0..N /\ n # 0
      OBVIOUS
    <2> QED
      BY <2>1, <2>2
  <1> HIDE DEF IsF
  <1>11. \A n \in 0..N : F[n] = g[n]
    <2> DEFINE Same == {n \in 0..N : F[n] = g[n]}
    <2>1. 0 \in Same
      BY <1>5, <1>10
    <2>2. ASSUME NEW n \in 1..N, n - 1 \in Same PROVE n \in Same
      <3>1. F[n - 1] = g[n - 1]
        BY <2>2
      <3>2. F[n] = g[n]
        BY <1>6, <1>10, <3>1
      <3> QED
        BY <3>2
    <2>3. \A n \in 0..N : n \in Same
      <3> HIDE DEF Same
      <3> QED
        BY <2>1, <2>2, Climbing
    <2> QED
      BY <2>3
  <1>12. ClosureIn(G, I) = g[N]
    BY <1>9, <1>11
  <1>13. \A n \in 0..N : g[n] \subseteq All
    OBVIOUS
  <1> QED
    BY <1>5, <1>6, <1>12, <1>13 DEF All, GrowsIn

LEMMA IntoGrows ==
  ASSUME NEW G, NEW I, NEW J, I \subseteq J
  PROVE  I \subseteq IntoIn(G, I) /\ IntoIn(G, I) \subseteq IntoIn(G, J)
  BY DEF IntoIn, ExpectedIn

(* The closure is closed: a step that adds nothing ends the growth, and     *)
(* there are no more than Len(G) steps that add a rule.                     *)
LEMMA ClosureIsClosed ==
  ASSUME NEW G, Len(G) \in Nat, NEW I
  PROVE  ClosedIn(G, ClosureIn(G, I))
  <1>0. PICK N \in Nat : N = Len(G)
    OBVIOUS
  <1>1. PICK g : /\ g[0] = I
                 /\ \A n \in 1..N : g[n] = IntoIn(G, g[n - 1])
                 /\ \A n \in 0..N : g[n] \subseteq I \cup {Item(r, 0) : r \in 1..N}
                 /\ ClosureIn(G, I) = g[N]
    <2>1. PICK g : GrowsIn(G, N, I, g)
      BY <1>0, ClosureSteps
    <2> QED
      BY <2>1 DEF GrowsIn
  <1> DEFINE R(n) == {r \in 1..N : Item(r, 0) \in g[n]}
             H == {n \in 0..N : ClosedIn(G, g[n]) \/ Cardinality(R(n)) >= n}
  <1>2. \A n \in 0..N : IsFiniteSet(R(n)) /\ Cardinality(R(n)) \in Nat
    <2> SUFFICES ASSUME NEW n \in 0..N PROVE IsFiniteSet(R(n)) /\ Cardinality(R(n)) \in Nat
      OBVIOUS
    <2>1. IsFiniteSet(1..N)
      BY FS_Interval
    <2>2. R(n) \in SUBSET (1..N)
      OBVIOUS
    <2> HIDE DEF R
    <2> QED
      BY <2>1, <2>2, FS_Subset, FS_CardinalityType
  <1>3. 0 \in H
    <2>1. Cardinality(R(0)) >= 0
      <3>1. 0 \in 0..N
        OBVIOUS
      <3> HIDE DEF R
      <3> QED
        BY <1>2, <3>1
    <2> QED
      BY <2>1
  <1>4. ASSUME NEW n \in 1..N, n - 1 \in H PROVE n \in H
    <2>1. n - 1 \in 0..N /\ g[n] = IntoIn(G, g[n - 1]) /\ g[n - 1] \subseteq g[n]
      BY <1>1, IntoGrows
    <2>2. CASE ClosedIn(G, g[n - 1])
      <3>1. g[n] = g[n - 1]
        BY <2>1, <2>2 DEF ClosedIn
      <3> QED
        BY <2>2, <3>1
    <2>3. CASE ~ ClosedIn(G, g[n - 1])
      <3>1. PICK r \in 1..N : Item(r, 0) \notin g[n - 1] /\ Item(r, 0) \in g[n]
        BY <1>0, <2>1, <2>3 DEF ClosedIn, IntoIn
      <3>2. R(n - 1) \in SUBSET R(n) /\ R(n - 1) # R(n)
        BY <2>1, <3>1
      <3>3. Cardinality(R(n - 1)) >= n - 1
        BY <1>4, <2>3
      <3>4. n \in 0..N
        OBVIOUS
      <3> HIDE DEF R
      <3>5. Cardinality(R(n - 1)) <= Cardinality(R(n)) /\ Cardinality(R(n - 1)) # Cardinality(R(n))
        BY <1>2, <3>2, <3>4, FS_Subset
      <3>6. Cardinality(R(n)) \in Nat /\ Cardinality(R(n - 1)) \in Nat
        BY <1>2, <2>1, <3>4
      <3> QED
        BY <3>3, <3>5, <3>6
    <2> QED
      BY <2>2, <2>3
  <1>5. \A n \in 0..N : n \in H
    <2> HIDE DEF H
    <2> QED
      BY <1>3, <1>4, Climbing
  <1>6. CASE ClosedIn(G, g[N])
    BY <1>1, <1>6
  <1>7. CASE Cardinality(R(N)) >= N
    <2>1. IsFiniteSet(1..N) /\ Cardinality(1..N) = N
      BY FS_Interval
    <2>2. R(N) \in SUBSET (1..N)
      OBVIOUS
    <2>3. R(N) = 1..N
      <3>1. Cardinality(R(N)) \in Nat /\ Cardinality(R(N)) <= N
        <4> HIDE DEF R
        <4> QED
          BY <1>2, <2>1, <2>2, FS_Subset
      <3> HIDE DEF R
      <3> QED
        BY <1>7, <2>1, <2>2, <3>1, FS_Subset
    <2>4. ClosedIn(G, g[N])
      BY <1>0, <2>3 DEF ClosedIn, IntoIn
    <2> QED
      BY <1>1, <2>4
  <1> QED
    BY <1>5, <1>6, <1>7

(* It is the least closed set with what it is the closure of. *)
LEMMA ClosureIsLeast ==
  ASSUME NEW G, Len(G) \in Nat, NEW I
  PROVE  /\ I \subseteq ClosureIn(G, I)
         /\ \A D : I \subseteq D /\ ClosedIn(G, D) => ClosureIn(G, I) \subseteq D
  <1>0. PICK N \in Nat : N = Len(G)
    OBVIOUS
  <1>1. PICK g : /\ g[0] = I
                 /\ \A n \in 1..N : g[n] = IntoIn(G, g[n - 1])
                 /\ \A n \in 0..N : g[n] \subseteq I \cup {Item(r, 0) : r \in 1..N}
                 /\ ClosureIn(G, I) = g[N]
    <2>1. PICK g : GrowsIn(G, N, I, g)
      BY <1>0, ClosureSteps
    <2> QED
      BY <2>1 DEF GrowsIn
  <1>2. I \subseteq g[N]
    <2> DEFINE H == {n \in 0..N : I \subseteq g[n]}
    <2>1. 0 \in H
      BY <1>1
    <2>2. ASSUME NEW n \in 1..N, n - 1 \in H PROVE n \in H
      BY <1>1, <2>2, IntoGrows
    <2>3. \A n \in 0..N : n \in H
      <3> HIDE DEF H
      <3> QED
        BY <2>1, <2>2, Climbing
    <2> QED
      BY <2>3
  <1>3. ASSUME NEW D, I \subseteq D, ClosedIn(G, D) PROVE g[N] \subseteq D
    <2> DEFINE H == {n \in 0..N : g[n] \subseteq D}
    <2>1. 0 \in H
      BY <1>1, <1>3
    <2>2. ASSUME NEW n \in 1..N, n - 1 \in H PROVE n \in H
      <3>1. g[n] = IntoIn(G, g[n - 1]) /\ g[n - 1] \subseteq D
        BY <1>1, <2>2
      <3>2. IntoIn(G, g[n - 1]) \subseteq IntoIn(G, D)
        BY <3>1, IntoGrows
      <3> QED
        BY <1>3, <3>1, <3>2 DEF ClosedIn
    <2>3. \A n \in 0..N : n \in H
      <3> HIDE DEF H
      <3> QED
        BY <2>1, <2>2, Climbing
    <2> QED
      BY <2>3
  <1> QED
    BY <1>1, <1>2, <1>3
-----------------------------------------------------------------------------
(* The items of a grammar. *)
ItemsIn(G) == {i \in Items : i.rule \in 1..Len(G) /\ i.dot <= Len(G[i.rule].rhs)}

LR0TypeOK ==
  /\ gram \in Grammars
  /\ phase \in Phases
  /\ states \in Seq(Seq(ItemsIn(gram)))
  /\ trans \in SUBSET [from : 1..Len(states), sym : Symbols, to : 1..Len(states)]
  /\ queue \in Seq(ItemsIn(gram))
  /\ queueIx \in Nat \ {0}
  /\ via \in [from : 0..Len(states), sym : Symbols]
  /\ stateIx \in 1..(Len(states) + 1)
  /\ itemIx \in Nat \ {0}

(* The kernel of the state whose closure is being computed. *)
Kernel == IF via.from = 0 THEN {Item(1, 0)}
          ELSE KernelIn(gram, ToSet(states[via.from]), via.sym)

(* The queue holds the kernel and part of its closure: all that the items   *)
(* already read from it call for.  It is for a move not recorded yet.       *)
QueueCloses ==
  queue # <<>> =>
    /\ Kernel \subseteq ToSet(queue)
    /\ ToSet(queue) \subseteq ClosureIn(gram, Kernel)
    /\ \A k \in 1..Len(queue) : k < queueIx => IntoIn(gram, {queue[k]}) \subseteq ToSet(queue)

ViaIsOpen ==
  queue # <<>> =>
    IF via.from = 0 THEN states = <<>> /\ itemIx = 1
    ELSE /\ via.from = stateIx /\ stateIx <= Len(states)
         /\ via.sym \in ExpectedIn(gram, ToSet(states[stateIx]))
         /\ \A e \in trans : ~ (e.from = stateIx /\ e.sym = via.sym)

(* A transition is the move it stands for, and the only one.                *)
TransAreMoves ==
  /\ \A e \in trans : /\ e.sym \in ExpectedIn(gram, ToSet(states[e.from]))
                       /\ ToSet(states[e.to]) = MoveIn(gram, ToSet(states[e.from]), e.sym)
  /\ \A e, f \in trans : e.from = f.from /\ e.sym = f.sym => e = f

(* The states before stateIx have all their moves, and state stateIx has    *)
(* those of its items before itemIx.                                        *)
StatesExpanded ==
  /\ \A s \in 1..Len(states) : s < stateIx =>
       \A sym \in ExpectedIn(gram, ToSet(states[s])) : \E e \in trans : e.from = s /\ e.sym = sym
  /\ stateIx <= Len(states) =>
       \A k \in 1..Len(states[stateIx]) :
         k < itemIx /\ ~CompleteIn(gram, states[stateIx][k]) =>
           \E e \in trans : e.from = stateIx /\ e.sym = NextSymIn(gram, states[stateIx][k])

FirstState ==
  /\ queue = <<>> => states # <<>>
  /\ states # <<>> => ToSet(states[1]) = ClosureIn(gram, {Item(1, 0)})

(* After its stage the automaton is done with. *)
AutomatonDone ==
  phase \notin {"first", "lr0"} => queue = <<>> /\ stateIx = Len(states) + 1

LR0Inv ==
  /\ LR0TypeOK /\ QueueCloses /\ ViaIsOpen /\ TransAreMoves /\ StatesExpanded
  /\ FirstState /\ AutomatonDone /\ StatesDistinct
-----------------------------------------------------------------------------
LEMMA GrammarShape ==
  ASSUME NEW G \in Grammars
  PROVE  /\ Len(G) \in Nat \ {0}
         /\ \A r \in 1..Len(G) : /\ G[r].lhs \in Heads
                                  /\ G[r].rhs \in Seq(Symbols)
                                  /\ Len(G[r].rhs) \in Nat
                                  /\ \A k \in 1..Len(G[r].rhs) : G[r].rhs[k] \in Symbols
  <1>1. G \in Seq(Rules) /\ Len(G) > 0
    BY GrammarsAssumption DEF IsGrammar
  <1>2. Len(G) \in Nat \ {0}
    BY <1>1
  <1>3. \A r \in 1..Len(G) : G[r].lhs \in Heads /\ G[r].rhs \in Seq(Symbols)
    BY RuleShape
  <1> QED
    BY <1>2, <1>3

LEMMA ItemShape ==
  /\ \A r, d : Item(r, d).rule = r /\ Item(r, d).dot = d
  /\ \A r \in Nat \ {0}, d \in Nat : Item(r, d) \in Items
  /\ \A i \in Items : i.rule \in Nat \ {0} /\ i.dot \in Nat
  BY DEF Item, Items

(* The items called for are items of the grammar, and an item that is not   *)
(* complete has a next symbol and can be moved on.                          *)
LEMMA ItemsStay ==
  ASSUME NEW G \in Grammars
  PROVE  /\ Item(1, 0) \in ItemsIn(G)
         /\ \A r \in 1..Len(G) : Item(r, 0) \in ItemsIn(G)
         /\ \A i \in ItemsIn(G) : ~CompleteIn(G, i) =>
              NextSymIn(G, i) \in Symbols /\ Advance(i) \in ItemsIn(G)
  <1>1. \A r \in 1..Len(G) : Item(r, 0) \in ItemsIn(G)
    BY GrammarShape, ItemShape DEF ItemsIn
  <1>2. 1 \in 1..Len(G)
    BY GrammarShape
  <1>3. ASSUME NEW i \in ItemsIn(G), ~CompleteIn(G, i)
        PROVE  NextSymIn(G, i) \in Symbols /\ Advance(i) \in ItemsIn(G)
    <2>1. i \in Items /\ i.rule \in 1..Len(G) /\ i.dot \in Nat
      BY ItemShape DEF ItemsIn
    <2>2. PICK n \in Nat : n = Len(G[i.rule].rhs)
      BY <2>1, GrammarShape
    <2>3. i.dot + 1 \in 1..n
      BY <1>3, <2>1, <2>2 DEF CompleteIn
    <2>4. NextSymIn(G, i) \in Symbols
      BY <2>1, <2>2, <2>3, GrammarShape DEF NextSymIn
    <2>5. Advance(i).rule = i.rule /\ Advance(i).dot = i.dot + 1 /\ Advance(i) \in Items
      BY <2>1, ItemShape DEF Advance, Items
    <2>6. Advance(i) \in ItemsIn(G)
      BY <2>1, <2>2, <2>3, <2>5 DEF ItemsIn
    <2> QED
      BY <2>4, <2>6
  <1> QED
    BY <1>1, <1>2, <1>3

(* What two sequences put together hold. *)
LEMMA ConcatHolds ==
  ASSUME NEW S, NEW a \in Seq(S), NEW b \in Seq(S)
  PROVE  /\ a \o b \in Seq(S)
         /\ ToSet(a \o b) = ToSet(a) \cup ToSet(b)
         /\ Len(a) \in Nat /\ Len(a \o b) = Len(a) + Len(b)
         /\ \A k \in 1..Len(a) : (a \o b)[k] = a[k]
  <1>1. PICK m \in Nat : m = Len(a)
    OBVIOUS
  <1>2. PICK n \in Nat : n = Len(b)
    OBVIOUS
  <1>3. PICK c : c = a \o b
    OBVIOUS
  <1>4. /\ c \in Seq(S) /\ DOMAIN c = 1..(m + n) /\ Len(c) = m + n
        /\ \A k \in 1..m : c[k] = a[k]
        /\ \A k \in 1..n : c[m + k] = b[k]
    BY <1>1, <1>2, <1>3
  <1>5. DOMAIN a = 1..m /\ DOMAIN b = 1..n
    BY <1>1, <1>2
  <1>6. ASSUME NEW k \in 1..(m + n) PROVE c[k] \in ToSet(a) \cup ToSet(b)
    <2>1. CASE k <= m
      BY <1>4, <1>5, <2>1 DEF ToSet
    <2>2. CASE k > m
      <3>1. k - m \in 1..n /\ c[m + (k - m)] = b[k - m] /\ m + (k - m) = k
        BY <1>4, <2>2
      <3> QED
        BY <1>5, <3>1 DEF ToSet
    <2> QED
      BY <2>1, <2>2
  <1>7. ASSUME NEW x \in ToSet(a) \cup ToSet(b) PROVE x \in ToSet(c)
    <2>1. CASE x \in ToSet(a)
      BY <1>4, <1>5, <2>1 DEF ToSet
    <2>2. CASE x \in ToSet(b)
      <3>1. PICK k \in 1..n : x = b[k]
        BY <1>5, <2>2 DEF ToSet
      <3>2. m + k \in 1..(m + n) /\ c[m + k] = x
        BY <1>4, <3>1
      <3> QED
        BY <1>4, <3>2 DEF ToSet
    <2> QED
      BY <1>7, <2>1, <2>2
  <1>8. ToSet(c) = ToSet(a) \cup ToSet(b)
    BY <1>4, <1>6, <1>7 DEF ToSet
  <1> QED
    BY <1>1, <1>2, <1>3, <1>4, <1>8

LEMMA HoldsAt ==
  ASSUME NEW S, NEW q \in Seq(S)
  PROVE  /\ Len(q) \in Nat
         /\ \A x : x \in ToSet(q) <=> \E k \in 1..Len(q) : x = q[k]
         /\ ToSet(q) \subseteq S
         /\ q = <<>> <=> Len(q) = 0
  BY DEF ToSet

(* A set is closed when it holds what each of its items calls for. *)
LEMMA IntoByItem ==
  ASSUME NEW G, NEW I
  PROVE  \A x : x \in IntoIn(G, I) <=> x \in I \/ \E i \in I : x \in IntoIn(G, {i})
  BY DEF IntoIn, ExpectedIn

LEMMA FreshIs ==
  ASSUME NEW G \in Grammars, gram = G, NEW V, V = ItemsIn(G), queue \in Seq(V), NEW item \in V
  PROVE  /\ Fresh(item) \in Seq(V)
         /\ ToSet(Fresh(item)) \subseteq IntoIn(G, {item})
         /\ IntoIn(G, {item}) \subseteq {item} \cup ToSet(queue) \cup ToSet(Fresh(item))
  <1>1. PICK N \in Nat : N = Len(G)
    BY GrammarShape
  <1>2. CASE CompleteIn(G, item)
    <2>1. Fresh(item) = <<>>
      BY <1>2, InGram DEF Fresh
    <2>2. IntoIn(G, {item}) = {item}
      BY <1>2 DEF IntoIn, ExpectedIn
    <2>3. ToSet(<<>>) = {}
      BY DEF ToSet
    <2> QED
      BY <2>1, <2>2, <2>3, NoneIsASequence
  <1>3. CASE ~CompleteIn(G, item)
    <2> DEFINE firsts == [r \in 1..N |-> Item(r, 0)]
               wanted == {r \in 1..N : G[r].lhs = NextSymIn(G, item) /\ ~Contains(queue, Item(r, 0))}
    <2>1. firsts \in Seq(V) /\ Len(firsts) = N /\ \A r \in 1..N : firsts[r] = Item(r, 0)
      <3>1. \A r \in 1..N : Item(r, 0) \in V
        BY <1>1, ItemsStay
      <3> QED
        BY <3>1
    <2>2. Fresh(item) = Selected(firsts, wanted)
      BY <1>1, <1>3, InGram DEF Fresh
    <2>3. \A x : x \in IntoIn(G, {item}) <=>
                   x = item \/ \E r \in 1..N : x = Item(r, 0) /\ G[r].lhs = NextSymIn(G, item)
      BY <1>1, <1>3 DEF IntoIn, ExpectedIn
    <2>4. \A r : Contains(queue, Item(r, 0)) => Item(r, 0) \in ToSet(queue)
      BY DEF Contains, ToSet
    <2>5. \A r \in 1..N : r \in wanted <=> G[r].lhs = NextSymIn(G, item) /\ ~Contains(queue, Item(r, 0))
      OBVIOUS
    <2> HIDE DEF firsts, wanted
    <2>6. /\ Selected(firsts, wanted) \in Seq(V)
          /\ \A x : x \in ToSet(Selected(firsts, wanted)) <=> \E r \in 1..N : r \in wanted /\ x = Item(r, 0)
      BY <2>1, SelectedIs
    <2>7. Fresh(item) \in Seq(V)
      BY <2>2, <2>6
    <2>8. ASSUME NEW x \in ToSet(Fresh(item)) PROVE x \in IntoIn(G, {item})
      BY <2>2, <2>3, <2>5, <2>6
    <2>9. ASSUME NEW x \in IntoIn(G, {item})
          PROVE  x = item \/ x \in ToSet(queue) \/ x \in ToSet(Fresh(item))
      BY <2>2, <2>3, <2>4, <2>5, <2>6
    <2> QED
      BY <2>7, <2>8, <2>9
  <1> QED
    BY <1>2, <1>3
-----------------------------------------------------------------------------
LEMMA CloseItemStep ==
  ASSUME LR0Inv, CloseItem
  PROVE  LR0Inv'
  <1> USE DEF LR0Inv
  <1>1. PICK G \in Grammars : G = gram /\ G = gram'
    BY DEF CloseItem, firstVars, LR0TypeOK
  <1>2. PICK V : V = ItemsIn(G)
    OBVIOUS
  <1>3. /\ states' = states /\ trans' = trans /\ via' = via /\ stateIx' = stateIx
        /\ itemIx' = itemIx /\ phase' = phase /\ phase = "lr0"
        /\ queueIx' = queueIx + 1
    BY DEF CloseItem, firstVars
  <1>4. queue \in Seq(V) /\ queueIx \in 1..Len(queue) /\ Len(queue) \in Nat
    BY <1>1, <1>2 DEF LR0TypeOK, CloseItem
  <1>5. PICK item \in V : item = queue[queueIx]
    BY <1>4
  <1>6. PICK more \in Seq(V) : /\ queue' = queue \o more
                              /\ ToSet(more) \subseteq IntoIn(G, {item})
                              /\ IntoIn(G, {item}) \subseteq {item} \cup ToSet(queue) \cup ToSet(more)
    BY <1>1, <1>2, <1>4, <1>5, FreshIs DEF CloseItem
  <1>7. /\ queue' \in Seq(V) /\ ToSet(queue') = ToSet(queue) \cup ToSet(more)
        /\ Len(queue') >= Len(queue) /\ Len(queue') \in Nat
        /\ \A k \in 1..Len(queue) : queue'[k] = queue[k]
    BY <1>4, <1>6, ConcatHolds, HoldsAt
  <1>8. queue # <<>> /\ queue' # <<>>
    BY <1>4, <1>7, HoldsAt
  <1>9. LR0TypeOK'
    BY <1>1, <1>2, <1>3, <1>7 DEF LR0TypeOK
  <1>10. QueueCloses'
    <2>1. PICK C : C = ClosureIn(G, Kernel) /\ C = ClosureIn(G, Kernel')
      BY <1>1, <1>3 DEF Kernel
    <2>2. Kernel' \subseteq ToSet(queue') /\ ToSet(queue) \subseteq C
      BY <1>1, <1>3, <1>7, <1>8, <2>1 DEF QueueCloses, Kernel
    <2>3. item \in ToSet(queue)
      BY <1>4, <1>5, HoldsAt
    <2>4. IntoIn(G, {item}) \subseteq C
      <3>1. Len(G) \in Nat
        BY GrammarShape
      <3>2. IntoIn(G, C) \subseteq C
        BY <2>1, <3>1, ClosureIsClosed DEF ClosedIn
      <3>3. IntoIn(G, {item}) \subseteq IntoIn(G, C)
        BY <2>2, <2>3, IntoGrows
      <3> QED
        BY <3>2, <3>3
    <2>5. ToSet(queue') \subseteq C
      BY <1>6, <1>7, <2>2, <2>4
    <2>6. ASSUME NEW k \in 1..Len(queue'), k < queueIx + 1
          PROVE  IntoIn(G, {queue'[k]}) \subseteq ToSet(queue')
      <3>1. k \in 1..Len(queue) /\ queue'[k] = queue[k]
        BY <1>4, <1>7, <2>6
      <3>2. CASE k < queueIx
        BY <1>1, <1>7, <1>8, <3>1, <3>2 DEF QueueCloses
      <3>3. CASE k = queueIx
        <4>1. queue'[k] = item
          BY <1>5, <3>1, <3>3
        <4>2. IntoIn(G, {item}) \subseteq ToSet(queue')
          BY <1>6, <1>7, <2>3
        <4> QED
          BY <4>1, <4>2
      <3>4. k < queueIx \/ k = queueIx
        BY <1>4, <2>6, <3>1
      <3> QED
        BY <3>2, <3>3, <3>4
    <2> QED
      BY <1>1, <1>3, <2>1, <2>2, <2>5, <2>6 DEF QueueCloses
  <1>11. ViaIsOpen'
    BY <1>1, <1>3, <1>8 DEF ViaIsOpen
  <1>12. TransAreMoves' /\ StatesExpanded' /\ StatesDistinct'
    BY <1>1, <1>3 DEF TransAreMoves, StatesExpanded, StatesDistinct
  <1>13. FirstState' /\ AutomatonDone'
    BY <1>1, <1>3, <1>8 DEF FirstState, AutomatonDone
  <1> QED
    BY <1>9, <1>10, <1>11, <1>12, <1>13

LEMMA MoveOverStep ==
  ASSUME LR0Inv, MoveOver
  PROVE  LR0Inv'
  <1> USE DEF LR0Inv
  <1>1. PICK G \in Grammars : G = gram /\ G = gram'
    BY DEF MoveOver, firstVars, LR0TypeOK
  <1>2. PICK V : V = ItemsIn(G)
    OBVIOUS
  <1>3. /\ states' = states /\ trans' = trans /\ stateIx' = stateIx
        /\ itemIx' = itemIx /\ phase' = phase /\ phase = "lr0"
        /\ queueIx' = 1
    BY DEF MoveOver, firstVars, Expanding
  <1>4. PICK items \in Seq(V) : items = states[stateIx] /\ stateIx \in 1..Len(states)
    BY <1>1, <1>2 DEF LR0TypeOK, MoveOver, Expanding
  <1>5. itemIx \in 1..Len(items) /\ Len(items) \in Nat
    BY <1>4 DEF LR0TypeOK, MoveOver
  <1>6. PICK item \in V : item = items[itemIx]
    BY <1>4, <1>5
  <1>7. ~CompleteIn(G, item) /\ \A e \in trans : ~ (e.from = stateIx /\ e.sym = NextSymIn(G, item))
    BY <1>1, <1>4, <1>6, InGram DEF MoveOver, Moved, HasTrans
  <1>8. PICK sym \in Symbols : sym = NextSymIn(G, item)
    BY <1>2, <1>6, <1>7, ItemsStay
  <1>9. via' = [from |-> stateIx, sym |-> sym]
    BY <1>1, <1>4, <1>6, <1>8, InGram DEF MoveOver
  <1>10. queue' \in Seq(V) /\ ToSet(queue') = KernelIn(G, ToSet(items), sym)
    <2> DEFINE at == {k \in 1..Len(items) : ~CompleteIn(G, items[k]) /\ NextSymIn(G, items[k]) = sym}
    <2>1. PICK kernel \in Seq(V) :
            /\ queue' = [k \in 1..Len(kernel) |-> Advance(kernel[k])]
            /\ \A x : x \in ToSet(kernel) <=> \E n \in 1..Len(items) : n \in at /\ x = items[n]
      <3>1. queue' = LET kernel == Selected(items, at)
                     IN  [k \in 1..Len(kernel) |-> Advance(kernel[k])]
        BY <1>1, <1>4, <1>6, <1>8, InGram DEF MoveOver
      <3> HIDE DEF at
      <3>2. PICK kernel : kernel = Selected(items, at)
        OBVIOUS
      <3>3. /\ kernel \in Seq(V)
            /\ \A x : x \in ToSet(kernel) <=> \E n \in 1..Len(items) : n \in at /\ x = items[n]
        BY <3>2, SelectedIs
      <3> QED
        BY <3>1, <3>2, <3>3
    <2>2. \A x \in ToSet(kernel) : ~CompleteIn(G, x) /\ NextSymIn(G, x) = sym /\ x \in ToSet(items)
      BY <2>1, HoldsAt
    <2>3. ToSet(kernel) = {x \in ToSet(items) : ~CompleteIn(G, x) /\ NextSymIn(G, x) = sym}
      <3>1. ASSUME NEW x \in ToSet(items), ~CompleteIn(G, x), NextSymIn(G, x) = sym
            PROVE  x \in ToSet(kernel)
        <4>1. PICK n \in 1..Len(items) : x = items[n]
          BY HoldsAt
        <4> QED
          BY <2>1, <3>1, <4>1
      <3> QED
        BY <2>2, <3>1
    <2> HIDE DEF at
    <2>4. PICK n \in Nat : n = Len(kernel)
      OBVIOUS
    <2>5. \A k \in 1..n : kernel[k] \in ToSet(kernel) /\ kernel[k] \in V
      BY <2>4, HoldsAt
    <2>6. \A k \in 1..n : Advance(kernel[k]) \in V
      BY <1>2, <2>2, <2>5, ItemsStay
    <2>7. queue' = [k \in 1..n |-> Advance(kernel[k])] /\ queue' \in Seq(V)
      BY <2>1, <2>4, <2>6
    <2>8. \A x : x \in ToSet(queue') <=> \E k \in 1..n : x = Advance(kernel[k])
      BY <2>7 DEF ToSet
    <2>9. \A x : x \in ToSet(kernel) <=> \E k \in 1..n : x = kernel[k]
      BY <2>4, HoldsAt
    <2>10. \A x : x \in ToSet(queue') <=> \E y \in ToSet(kernel) : x = Advance(y)
      BY <2>8, <2>9
    <2> QED
      BY <2>3, <2>7, <2>10 DEF KernelIn
  <1>11. LR0TypeOK'
    BY <1>1, <1>2, <1>3, <1>4, <1>8, <1>9, <1>10 DEF LR0TypeOK
  <1>12. Kernel' = ToSet(queue')
    <2>1. Kernel' = KernelIn(G, ToSet(items), sym)
      BY <1>1, <1>3, <1>4, <1>9 DEF Kernel
    <2> QED
      BY <1>10, <2>1
  <1>13. QueueCloses'
    <2>1. Len(G) \in Nat
      BY GrammarShape
    <2>2. ToSet(queue') \subseteq ClosureIn(G, Kernel')
      BY <1>12, <2>1, ClosureIsLeast
    <2>3. \A k \in 1..Len(queue') : ~ (k < 1)
      OBVIOUS
    <2> QED
      BY <1>1, <1>3, <1>12, <2>2, <2>3 DEF QueueCloses
  <1>14. ViaIsOpen'
    <2>1. item \in ToSet(items)
      BY <1>5, <1>6, HoldsAt
    <2>2. sym \in ExpectedIn(G, ToSet(states'[stateIx']))
      BY <1>3, <1>4, <1>7, <1>8, <2>1 DEF ExpectedIn
    <2>3. via'.from = stateIx' /\ via'.sym = sym /\ stateIx' # 0 /\ stateIx' <= Len(states')
      BY <1>3, <1>4, <1>9
    <2> QED
      BY <1>1, <1>3, <1>7, <1>8, <2>2, <2>3 DEF ViaIsOpen
  <1>15. TransAreMoves' /\ StatesExpanded' /\ StatesDistinct'
    <2>1. TransAreMoves'
      BY <1>1, <1>3 DEF TransAreMoves
    <2>2. StatesExpanded'
      BY <1>1, <1>3, SMTT(30) DEF StatesExpanded
    <2>3. StatesDistinct'
      BY <1>1, <1>3 DEF StatesDistinct
    <2> QED
      BY <2>1, <2>2, <2>3
  <1>16. FirstState' /\ AutomatonDone'
    BY <1>1, <1>3, <1>4 DEF FirstState, AutomatonDone, LR0TypeOK
  <1> QED
    BY <1>11, <1>13, <1>14, <1>15, <1>16

(* A closure read to its end is complete. *)
LEMMA QueueIsClosure ==
  ASSUME LR0Inv, AddState
  PROVE  ToSet(queue) = ClosureIn(gram, Kernel)
  <1> USE DEF LR0Inv
  <1>1. PICK G \in Grammars : G = gram
    BY DEF LR0TypeOK
  <1>2. PICK V : V = ItemsIn(G)
    OBVIOUS
  <1>3. queue # <<>> /\ queueIx > Len(queue)
    BY DEF AddState
  <1>4. queue \in Seq(V)
    BY <1>1, <1>2 DEF LR0TypeOK
  <1>6. PICK Q : Q = ToSet(queue)
    OBVIOUS
  <1>7. Q = ClosureIn(G, Kernel)
    <2>1. ASSUME NEW x \in IntoIn(G, Q) PROVE x \in Q
      <3>1. x \in Q \/ \E i \in Q : x \in IntoIn(G, {i})
        BY <2>1, IntoByItem
      <3>2. ASSUME NEW i \in Q, x \in IntoIn(G, {i}) PROVE x \in Q
        <4>1. PICK k \in 1..Len(queue) : i = queue[k]
          BY <1>4, <1>6, HoldsAt
        <4>2. k < queueIx
          BY <1>3, <1>4, <4>1, HoldsAt DEF LR0TypeOK
        <4>3. IntoIn(G, {queue[k]}) \subseteq Q
          BY <1>1, <1>3, <1>6, <4>2 DEF QueueCloses
        <4> QED
          BY <3>2, <4>1, <4>3
      <3> QED
        BY <3>1, <3>2
    <2>2. ClosedIn(G, Q)
      BY <2>1 DEF ClosedIn
    <2>3. Kernel \subseteq Q /\ Q \subseteq ClosureIn(G, Kernel)
      BY <1>1, <1>3, <1>6 DEF QueueCloses
    <2>4. ClosureIn(G, Kernel) \subseteq Q
      <3>1. Len(G) \in Nat
        BY GrammarShape
      <3> QED
        BY <2>2, <2>3, <3>1, ClosureIsLeast
    <2> QED
      BY <2>3, <2>4
  <1> QED
    BY <1>1, <1>6, <1>7

LEMMA AddStateStep ==
  ASSUME LR0Inv, AddState
  PROVE  LR0Inv'
  <1> USE DEF LR0Inv
  <1>1. PICK G \in Grammars : G = gram /\ G = gram'
    BY DEF AddState, firstVars, LR0TypeOK
  <1>2. PICK V : V = ItemsIn(G)
    OBVIOUS
  <1>3. /\ queue' = <<>> /\ queueIx' = queueIx /\ via' = via /\ stateIx' = stateIx
        /\ itemIx' = itemIx /\ phase' = phase /\ phase = "lr0" /\ queue # <<>>
        /\ queueIx > Len(queue)
    BY DEF AddState, firstVars
  <1>4. queue \in Seq(V) /\ states \in Seq(Seq(V))
    BY <1>1, <1>2 DEF LR0TypeOK
  <1>5. PICK N \in Nat : N = Len(states)
    BY <1>4
  <1>6. PICK Q : Q = ToSet(queue)
    OBVIOUS
  <1>7. Q = ClosureIn(G, Kernel)
    BY <1>1, <1>6, QueueIsClosure
  <1> DEFINE known == {s \in 1..Len(states) : SameState(states[s], queue)}
  <1>8. PICK id : id = IF known = {} THEN NewId ELSE CHOOSE s \in known : TRUE
    OBVIOUS
  <1>9. /\ states' = IF known = {} THEN Append(states, queue) ELSE states
        /\ trans' = IF via.from = 0 THEN trans
                    ELSE trans \cup {[from |-> via.from, sym |-> via.sym, to |-> id]}
    BY <1>8 DEF AddState
  <1>10. PICK M \in Nat :
           /\ M = Len(states') /\ states' \in Seq(Seq(V)) /\ N <= M /\ M <= N + 1
           /\ \A s \in 1..N : states'[s] = states[s]
           /\ id \in 1..M /\ ToSet(states'[id]) = Q
           /\ \A s \in 1..M : s > N => ToSet(states'[s]) = Q
           /\ M > N => \A s \in 1..N : ToSet(states[s]) # Q
    <2>1. CASE known = {}
      <3>1. states' = Append(states, queue) /\ id = N + 1
        BY <1>5, <1>8, <1>9, <2>1 DEF NewId
      <3>2. PICK S : S = Seq(V)
        OBVIOUS
      <3>3. states \in Seq(S) /\ queue \in S
        BY <1>4, <3>2
      <3>4. /\ states' \in Seq(S) /\ Len(states') = N + 1
            /\ \A s \in 1..N : states'[s] = states[s]
            /\ states'[N + 1] = queue
        BY <1>5, <3>1, <3>3
      <3>5. \A s \in 1..N : ToSet(states[s]) # Q
        BY <1>5, <1>6, <2>1 DEF SameState
      <3>6. \A s \in 1..(N + 1) : s > N => s = N + 1
        OBVIOUS
      <3> HIDE DEF known
      <3> QED
        BY <1>6, <3>1, <3>2, <3>4, <3>5, <3>6
    <2>2. CASE known # {}
      <3>1. states' = states /\ id \in known
        BY <1>8, <1>9, <2>2
      <3>2. id \in 1..N /\ ToSet(states[id]) = Q
        BY <1>5, <1>6, <3>1 DEF SameState
      <3> HIDE DEF known
      <3>3. N = Len(states') /\ states' \in Seq(Seq(V)) /\ ToSet(states'[id]) = Q
        BY <1>4, <1>5, <3>1, <3>2
      <3>4. \A s \in 1..N : states'[s] = states[s] /\ ~ (s > N)
        BY <3>1
      <3> QED
        BY <3>2, <3>3, <3>4
    <2> QED
      BY <2>1, <2>2
  <1> HIDE DEF known
  <1>11. /\ via \in [from : 0..N, sym : Symbols]
         /\ trans \in SUBSET [from : 1..N, sym : Symbols, to : 1..N]
         /\ stateIx \in 1..(N + 1)
    BY <1>5 DEF LR0TypeOK
  <1>12. PICK new : new = [from |-> via.from, sym |-> via.sym, to |-> id]
    OBVIOUS
  <1>13. LR0TypeOK'
    <2>1. trans' \in SUBSET [from : 1..M, sym : Symbols, to : 1..M]
      <3>1. \A e \in trans : e \in [from : 1..M, sym : Symbols, to : 1..M]
        BY <1>10, <1>11
      <3>2. via.from # 0 => [from |-> via.from, sym |-> via.sym, to |-> id] \in [from : 1..M, sym : Symbols, to : 1..M]
        BY <1>10, <1>11
      <3> QED
        BY <1>9, <3>1, <3>2
    <2>2. via' \in [from : 0..M, sym : Symbols] /\ stateIx' \in 1..(M + 1)
      BY <1>3, <1>10, <1>11
    <2>3. queue' \in Seq(V)
      BY <1>3, NoneIsASequence
    <2> QED
      BY <1>1, <1>2, <1>3, <1>10, <2>1, <2>2, <2>3 DEF LR0TypeOK
  <1>14. QueueCloses' /\ ViaIsOpen'
    BY <1>3 DEF QueueCloses, ViaIsOpen
  <1>15. TransAreMoves'
    <2>1. CASE via.from = 0
      <3>1. N = 0 /\ trans' = trans
        BY <1>3, <1>5, <1>9, <2>1 DEF ViaIsOpen
      <3>2. trans' = {}
        BY <1>11, <3>1
      <3> QED
        BY <3>2 DEF TransAreMoves
    <2>2. CASE via.from # 0
      <3>1. trans' = trans \cup {new}
        BY <1>9, <1>12, <2>2
      <3>2. new.from = via.from /\ new.sym = via.sym /\ new.to = id
        BY <1>12
      <3>3. via.from = stateIx /\ stateIx \in 1..N
        BY <1>3, <1>5, <1>11, <2>2 DEF ViaIsOpen
      <3>4. new.sym \in ExpectedIn(G, ToSet(states'[new.from]))
        BY <1>1, <1>3, <1>10, <2>2, <3>2, <3>3 DEF ViaIsOpen
      <3>5. ToSet(states'[new.to]) = MoveIn(G, ToSet(states'[new.from]), new.sym)
        <4>1. Kernel = KernelIn(G, ToSet(states[via.from]), via.sym)
          BY <1>1, <2>2 DEF Kernel
        <4> QED
          BY <1>7, <1>10, <3>2, <3>3, <4>1 DEF MoveIn
      <3>6. ASSUME NEW e \in trans
            PROVE  /\ e.sym \in ExpectedIn(G, ToSet(states'[e.from]))
                   /\ ToSet(states'[e.to]) = MoveIn(G, ToSet(states'[e.from]), e.sym)
                   /\ ~ (e.from = new.from /\ e.sym = new.sym)
        <4>1. e.from \in 1..N /\ e.to \in 1..N
          BY <1>11
        <4>2. states'[e.from] = states[e.from] /\ states'[e.to] = states[e.to]
          BY <1>10, <4>1
        <4>3. ~ (e.from = new.from /\ e.sym = new.sym)
          BY <1>3, <2>2, <3>2, <3>3 DEF ViaIsOpen
        <4> QED
          BY <1>1, <4>2, <4>3 DEF TransAreMoves
      <3>7. \A e, f \in trans' : e.from = f.from /\ e.sym = f.sym => e = f
        BY <3>1, <3>6 DEF TransAreMoves
      <3> QED
        BY <1>1, <3>1, <3>4, <3>5, <3>6, <3>7 DEF TransAreMoves
    <2> QED
      BY <2>1, <2>2
  <1>16. StatesExpanded'
    <2>1. trans \subseteq trans'
      BY <1>9
    <2>2. ASSUME NEW s \in 1..M, s < stateIx, NEW sym \in ExpectedIn(G, ToSet(states'[s]))
          PROVE  \E e \in trans' : e.from = s /\ e.sym = sym
      <3>1. s \in 1..N /\ states'[s] = states[s]
        BY <1>10, <1>11, <2>2
      <3>2. \E e \in trans : e.from = s /\ e.sym = sym
        BY <1>1, <1>5, <2>2, <3>1 DEF StatesExpanded
      <3> QED
        BY <2>1, <3>2
    <2>3. ASSUME stateIx <= M, NEW k \in 1..Len(states'[stateIx]), k < itemIx,
                 ~CompleteIn(G, states'[stateIx][k])
          PROVE  \E e \in trans' : e.from = stateIx /\ e.sym = NextSymIn(G, states'[stateIx][k])
      <3>1. CASE stateIx <= N
        <4>1. states'[stateIx] = states[stateIx]
          BY <1>10, <1>11, <3>1
        <4>2. \E e \in trans : e.from = stateIx /\ e.sym = NextSymIn(G, states[stateIx][k])
          BY <1>1, <1>5, <2>3, <3>1, <4>1 DEF StatesExpanded
        <4> QED
          BY <2>1, <4>1, <4>2
      <3>2. CASE ~ (stateIx <= N)
        BY <1>3, <1>5, <2>3, <3>2 DEF ViaIsOpen
      <3> QED
        BY <3>1, <3>2
    <2> QED
      BY <1>1, <1>3, <1>10, <2>2, <2>3 DEF StatesExpanded
  <1>17. FirstState'
    <2>1. states' # <<>>
      BY <1>10
    <2>2. ToSet(states'[1]) = ClosureIn(G, {Item(1, 0)})
      <3>1. CASE via.from = 0
        <4>1. N = 0 /\ Kernel = {Item(1, 0)} /\ M = 1
          BY <1>3, <1>5, <1>10, <3>1 DEF ViaIsOpen, Kernel
        <4> QED
          BY <1>7, <1>10, <4>1
      <3>2. CASE via.from # 0
        <4>1. N >= 1 /\ states # <<>>
          BY <1>3, <1>5, <1>11, <3>2 DEF ViaIsOpen
        <4> QED
          BY <1>1, <1>10, <4>1 DEF FirstState
      <3> QED
        BY <3>1, <3>2
    <2> QED
      BY <1>1, <2>1, <2>2 DEF FirstState
  <1>18. AutomatonDone'
    BY <1>3 DEF AutomatonDone
  <1>19. StatesDistinct'
    <2> SUFFICES ASSUME NEW s \in 1..M, NEW t \in 1..M, ToSet(states'[s]) = ToSet(states'[t])
                 PROVE  s = t
      BY <1>10 DEF StatesDistinct
    <2>1. CASE s \in 1..N /\ t \in 1..N
      BY <1>5, <1>10, <2>1 DEF StatesDistinct
    <2>2. ASSUME NEW u \in 1..M, u \notin 1..N
          PROVE  u = N + 1 /\ ToSet(states'[u]) = Q /\ \A v \in 1..N : ToSet(states'[v]) # Q
      <3>1. u > N /\ u = N + 1 /\ M > N
        BY <1>10, <2>2
      <3>2. ToSet(states'[u]) = Q
        BY <1>10, <3>1
      <3>3. \A v \in 1..N : states'[v] = states[v] /\ ToSet(states[v]) # Q
        BY <1>10, <3>1
      <3> QED
        BY <3>1, <3>2, <3>3
    <2>3. CASE s \notin 1..N /\ t \notin 1..N
      BY <2>2, <2>3
    <2>4. CASE s \notin 1..N /\ t \in 1..N
      BY <2>2, <2>4
    <2>5. CASE s \in 1..N /\ t \notin 1..N
      BY <2>2, <2>5
    <2> QED
      BY <2>1, <2>3, <2>4, <2>5
  <1> QED
    BY <1>13, <1>14, <1>15, <1>16, <1>17, <1>18, <1>19

LEMMA SkipMovedStep ==
  ASSUME LR0Inv, SkipMoved
  PROVE  LR0Inv'
  <1> USE DEF LR0Inv
  <1>1. PICK G \in Grammars : G = gram /\ G = gram'
    BY DEF SkipMoved, firstVars, LR0TypeOK
  <1>2. /\ states' = states /\ trans' = trans /\ via' = via /\ stateIx' = stateIx
        /\ queue' = queue /\ queueIx' = queueIx /\ phase' = phase /\ phase = "lr0"
        /\ queue = <<>> /\ itemIx' = itemIx + 1 /\ itemIx \in Nat \ {0}
        /\ stateIx <= Len(states)
    BY DEF SkipMoved, firstVars, Expanding, LR0TypeOK
  <1>3. LR0TypeOK'
    BY <1>1, <1>2 DEF LR0TypeOK
  <1>4. QueueCloses' /\ ViaIsOpen'
    BY <1>2 DEF QueueCloses, ViaIsOpen
  <1>5. TransAreMoves' /\ StatesDistinct' /\ FirstState' /\ AutomatonDone'
    <2>1. TransAreMoves'
      BY <1>1, <1>2 DEF TransAreMoves
    <2>2. StatesDistinct' /\ FirstState' /\ AutomatonDone'
      BY <1>1, <1>2 DEF StatesDistinct, FirstState, AutomatonDone
    <2> QED
      BY <2>1, <2>2
  <1>6. ASSUME NEW k \in 1..Len(states[stateIx]), k < itemIx + 1, ~CompleteIn(G, states[stateIx][k])
        PROVE  \E e \in trans : e.from = stateIx /\ e.sym = NextSymIn(G, states[stateIx][k])
    <2>1. CASE k < itemIx
      BY <1>1, <1>2, <1>6, <2>1 DEF StatesExpanded
    <2>2. CASE k = itemIx
      BY <1>1, <1>6, <2>2, InGram DEF SkipMoved, Moved, HasTrans
    <2>3. k < itemIx \/ k = itemIx
      BY <1>2, <1>6
    <2> QED
      BY <2>1, <2>2, <2>3
  <1>7. StatesExpanded'
    BY <1>1, <1>2, <1>6 DEF StatesExpanded
  <1> QED
    BY <1>3, <1>4, <1>5, <1>7

LEMMA ExpandNextStep ==
  ASSUME LR0Inv, ExpandNext
  PROVE  LR0Inv'
  <1> USE DEF LR0Inv
  <1>1. PICK G \in Grammars : G = gram /\ G = gram'
    BY DEF ExpandNext, firstVars, LR0TypeOK
  <1>2. /\ states' = states /\ trans' = trans /\ via' = via /\ stateIx' = stateIx + 1
        /\ queue' = queue /\ queueIx' = queueIx /\ phase' = phase /\ phase = "lr0"
        /\ queue = <<>> /\ itemIx' = 1 /\ itemIx \in Nat \ {0}
        /\ stateIx <= Len(states)
    BY DEF ExpandNext, firstVars, Expanding, LR0TypeOK
  <1>3. PICK N \in Nat : N = Len(states) /\ stateIx \in 1..N
    BY <1>2 DEF LR0TypeOK
  <1>4. LR0TypeOK'
    <2>1. stateIx' \in 1..(N + 1)
      BY <1>2, <1>3
    <2> QED
      BY <1>1, <1>2, <1>3, <2>1 DEF LR0TypeOK
  <1>5. QueueCloses' /\ ViaIsOpen'
    BY <1>2 DEF QueueCloses, ViaIsOpen
  <1>6. TransAreMoves' /\ StatesDistinct' /\ FirstState' /\ AutomatonDone'
    <2>1. TransAreMoves'
      BY <1>1, <1>2 DEF TransAreMoves
    <2>2. StatesDistinct' /\ FirstState' /\ AutomatonDone'
      BY <1>1, <1>2 DEF StatesDistinct, FirstState, AutomatonDone
    <2> QED
      BY <2>1, <2>2
  <1>7. ASSUME NEW s \in 1..N, s < stateIx + 1, NEW sym \in ExpectedIn(G, ToSet(states[s]))
        PROVE  \E e \in trans : e.from = s /\ e.sym = sym
    <2>1. CASE s < stateIx
      BY <1>1, <1>3, <1>7, <2>1 DEF StatesExpanded
    <2>2. CASE s = stateIx
      <3>1. PICK i \in ToSet(states[stateIx]) : ~CompleteIn(G, i) /\ sym = NextSymIn(G, i)
        BY <1>7, <2>2 DEF ExpectedIn
      <3>2. PICK items \in Seq(ItemsIn(G)) : items = states[stateIx]
        BY <1>1, <1>3 DEF LR0TypeOK
      <3>3. PICK k \in 1..Len(items) : i = items[k]
        BY <3>1, <3>2, HoldsAt
      <3>4. k < itemIx
        BY <1>2, <3>2, <3>3, HoldsAt DEF ExpandNext
      <3> QED
        BY <1>1, <1>2, <1>3, <2>2, <3>1, <3>2, <3>3, <3>4 DEF StatesExpanded
    <2>3. s < stateIx \/ s = stateIx
      BY <1>3, <1>7
    <2> QED
      BY <2>1, <2>2, <2>3
  <1>8. StatesExpanded'
    <2>1. \A k \in 1..Len(states'[stateIx']) : ~ (k < itemIx')
      BY <1>2
    <2> QED
      BY <1>1, <1>2, <1>3, <1>7, <2>1 DEF StatesExpanded
  <1> QED
    BY <1>4, <1>5, <1>6, <1>8

(* The steps that leave the automaton as it is. *)
LR0Stays ==
  /\ gram' = gram /\ UNCHANGED lr0Vars
  /\ phase' \in Phases
  /\ phase' \notin {"first", "lr0"} =>
       phase \notin {"first", "lr0"} \/ (queue = <<>> /\ stateIx > Len(states))

LEMMA LR0StaysStep ==
  ASSUME LR0Inv, LR0Stays
  PROVE  LR0Inv'
  <1> USE DEF LR0Inv
  <1>1. PICK G \in Grammars : G = gram /\ G = gram'
    BY DEF LR0Stays, LR0TypeOK
  <1>2. /\ states' = states /\ trans' = trans /\ via' = via /\ stateIx' = stateIx
        /\ queue' = queue /\ queueIx' = queueIx /\ itemIx' = itemIx
    BY DEF LR0Stays, lr0Vars
  <1>3. LR0TypeOK'
    BY <1>1, <1>2 DEF LR0TypeOK, LR0Stays
  <1>4. QueueCloses'
    <2>1. Kernel' = Kernel
      BY <1>1, <1>2 DEF Kernel
    <2> QED
      BY <1>1, <1>2, <2>1 DEF QueueCloses
  <1>5. ViaIsOpen'
    BY <1>1, <1>2 DEF ViaIsOpen
  <1>6. TransAreMoves'
    BY <1>1, <1>2 DEF TransAreMoves
  <1>7. StatesExpanded'
    BY <1>1, <1>2, SMTT(30) DEF StatesExpanded
  <1>8. StatesDistinct' /\ FirstState'
    BY <1>1, <1>2 DEF StatesDistinct, FirstState
  <1>9. AutomatonDone'
    <2>1. stateIx \in 1..(Len(states) + 1) /\ Len(states) \in Nat
      BY DEF LR0TypeOK
    <2> QED
      BY <1>2, <2>1 DEF AutomatonDone, LR0Stays
  <1> QED
    BY <1>3, <1>4, <1>5, <1>6, <1>7, <1>8, <1>9

LEMMA LR0Start ==
  ASSUME AutomatonInit
  PROVE  LR0Inv
  <1>1. PICK G \in Grammars : G = gram
    BY DEF AutomatonInit, FirstInit
  <1>2. PICK V : V = ItemsIn(G)
    OBVIOUS
  <1>3. /\ states = <<>> /\ trans = {} /\ queue = <<Item(1, 0)>> /\ queueIx = 1
        /\ via = [from |-> 0, sym |-> ACCEPT] /\ stateIx = 1 /\ itemIx = 1
        /\ phase = "first"
    BY DEF AutomatonInit, FirstInit, LR0Init
  <1>4. PICK i \in V : i = Item(1, 0)
    BY <1>2, ItemsStay
  <1>5. queue \in Seq(V) /\ queue # <<>> /\ ToSet(queue) = {Item(1, 0)}
    <2>1. queue = <<i>>
      BY <1>3, <1>4
    <2> QED
      BY <1>4, <2>1 DEF ToSet
  <1>6. states \in Seq(Seq(V)) /\ Len(states) = 0
    BY <1>3, NoneIsASequence
  <1>7. via \in [from : 0..0, sym : Symbols]
    BY <1>3 DEF Symbols, Heads
  <1>8. LR0TypeOK
    BY <1>1, <1>2, <1>3, <1>5, <1>6, <1>7 DEF LR0TypeOK, Phases
  <1>9. Kernel = {Item(1, 0)}
    BY <1>3 DEF Kernel
  <1>10. QueueCloses
    <2>1. Len(G) \in Nat
      BY GrammarShape
    <2>2. ToSet(queue) \subseteq ClosureIn(G, Kernel)
      BY <1>5, <1>9, <2>1, ClosureIsLeast
    <2>3. \A k \in 1..Len(queue) : ~ (k < queueIx)
      BY <1>3
    <2> QED
      BY <1>1, <1>5, <1>9, <2>2, <2>3 DEF QueueCloses
  <1>11. ViaIsOpen /\ TransAreMoves /\ StatesExpanded
    BY <1>3, <1>6 DEF ViaIsOpen, TransAreMoves, StatesExpanded
  <1>12. FirstState /\ AutomatonDone /\ StatesDistinct
    BY <1>3, <1>5, <1>6 DEF FirstState, AutomatonDone, StatesDistinct
  <1> QED
    BY <1>8, <1>10, <1>11, <1>12 DEF LR0Inv

(* Every step of makeParser is one of the automaton or leaves it alone. *)
LEMMA LR0Steps ==
  ASSUME LR0Inv, [UnitGotosNext]_actionTableVars
  PROVE  CloseItem \/ AddState \/ MoveOver \/ SkipMoved \/ ExpandNext \/ LR0Stays
  <1>1. phase \in Phases
    BY DEF LR0Inv, LR0TypeOK
  <1>2. CASE FirstNext /\ UNCHANGED lr0Vars
    BY <1>1, <1>2 DEF FirstNext, ScanRule, NextPass, FirstDone, LR0Stays, Phases
  <1>3. CASE LR0Done
    BY <1>3 DEF LR0Done, LR0Stays, Phases
  <1>4. CASE LookaheadNext
    <2>1. gram' = gram /\ UNCHANGED lr0Vars
      BY <1>4 DEF LookaheadNext, ScanFollow, NextFollowPass, FollowDone, ScanItem,
                  ScanNextState, NextLookaheadPass, LookaheadDone, firstVars
    <2>2. phase \notin {"first", "lr0"} /\ phase' \in Phases
      BY <1>1, <1>4 DEF LookaheadNext, ScanFollow, NextFollowPass, FollowDone, ScanItem,
                  ScanNextState, NextLookaheadPass, LookaheadDone, firstVars, Phases
    <2> QED
      BY <2>1, <2>2 DEF LR0Stays
  <1>5. CASE TableNext
    <2>1. gram' = gram /\ UNCHANGED lr0Vars
      BY <1>5 DEF TableNext, PlaceShifts, PlaceReduces, FillNextState, FillDone,
                  lookaheadsVars, automatonVars, firstVars, lr0Vars
    <2>2. phase \notin {"first", "lr0"} /\ phase' \in Phases
      BY <1>1, <1>5 DEF TableNext, PlaceShifts, PlaceReduces, FillNextState, FillDone,
                  Filling, lookaheadsVars, automatonVars, firstVars, Phases
    <2> QED
      BY <2>1, <2>2 DEF LR0Stays
  <1>6. CASE OptimizeNext
    <2>1. gram' = gram /\ UNCHANGED lr0Vars
      BY <1>6 DEF OptimizeNext, RedirectEntry, RedirectNextRow, NextRedirectPass, OptimizeDone,
                  automatonVars, firstVars, lr0Vars
    <2>2. phase \notin {"first", "lr0"} /\ phase' \in Phases
      BY <1>1, <1>6 DEF OptimizeNext, RedirectEntry, RedirectNextRow, NextRedirectPass,
                  OptimizeDone, Optimizing, automatonVars, firstVars, Phases
    <2> QED
      BY <2>1, <2>2 DEF LR0Stays
  <1>7. CASE UNCHANGED actionTableVars
    BY <1>1, <1>7 DEF actionTableVars, lookaheadsVars, automatonVars, firstVars, LR0Stays
  <1> QED
    BY <1>2, <1>3, <1>4, <1>5, <1>6, <1>7
    DEF UnitGotosNext, ActionTableNext, LookaheadsNext, AutomatonNext, LR0Next

LEMMA LR0Step ==
  ASSUME LR0Inv, [UnitGotosNext]_actionTableVars
  PROVE  LR0Inv'
  BY LR0Steps, CloseItemStep, AddStateStep, MoveOverStep, SkipMovedStep, ExpandNextStep,
     LR0StaysStep

LEMMA LR0Always == UnitGotosSpec => []LR0Inv
  <1>1. ActionTableInit => LR0Inv
    BY LR0Start DEF ActionTableInit, LookaheadsInit
  <1>2. LR0Inv /\ [UnitGotosNext]_actionTableVars => LR0Inv'
    BY LR0Step
  <1> QED
    BY <1>1, <1>2, PTL DEF UnitGotosSpec

(* The automaton is the LR(0) automaton of the grammar, each state once,    *)
(* for every grammar: what the worklist and the closure queue leave behind  *)
(* when makeParser returns.                                                 *)
THEOREM AutomatonIsTheGrammars == UnitGotosSpec => []AutomatonIsLR0
  <1>1. ASSUME LR0Inv PROVE AutomatonIsLR0
    <2> SUFFICES ASSUME Returned PROVE TracksValidItems
      BY <1>1 DEF AutomatonIsLR0, TracksValidItems, LR0Inv
    <2>1. states # <<>> /\ stateIx = Len(states) + 1 /\ Len(states) \in Nat
      BY <1>1 DEF LR0Inv, LR0TypeOK, AutomatonDone, FirstState, Returned
    <2>2. ToSet(states[1]) = ClosureOf({Item(1, 0)})
      BY <1>1, <2>1, InGram DEF LR0Inv, FirstState
    <2>3. ASSUME NEW s \in 1..Len(states), NEW sym \in Symbols, sym \in Expected(ToSet(states[s]))
          PROVE  HasTrans(s, sym) /\ ToSet(states[Target(s, sym)]) = MoveOf(ToSet(states[s]), sym)
      <3>1. s < stateIx /\ sym \in ExpectedIn(gram, ToSet(states[s]))
        BY <2>1, <2>3, InGram
      <3>2. \E e \in trans : e.from = s /\ e.sym = sym
        BY <1>1, <3>1 DEF LR0Inv, StatesExpanded
      <3>3. PICK e \in trans : e.from = s /\ e.sym = sym /\ e.to = Target(s, sym)
        BY <3>2 DEF Target
      <3>4. ToSet(states[e.to]) = MoveIn(gram, ToSet(states[s]), sym)
        BY <1>1, <3>3 DEF LR0Inv, TransAreMoves
      <3> QED
        BY <3>2, <3>3, <3>4, InGram DEF HasTrans
    <2>4. ASSUME NEW s \in 1..Len(states), NEW sym \in Symbols, HasTrans(s, sym)
          PROVE  sym \in Expected(ToSet(states[s]))
      BY <1>1, <2>4, InGram DEF LR0Inv, TransAreMoves, HasTrans
    <2> QED
      BY <2>2, <2>3, <2>4 DEF TracksValidItems
  <1> QED
    BY <1>1, LR0Always, PTL
-----------------------------------------------------------------------------
(***************************************************************************)
(* The LALR(1) lookaheads, for every grammar: FIRST and FOLLOW are closed  *)
(* when their passes stop, and the propagation stops at exactly the        *)
(* canonical LR(1) items merged by state, within FOLLOW.                   *)
(***************************************************************************)

(* The stages before the lookaheads. *)
Early == phase \in {"first", "lr0", "follow"}

(* FIRST is the constructor's, and closed from then on. *)
FirstInv ==
  /\ gram \in Grammars
  /\ first \in [Symbols -> SUBSET TermsEOF]
  /\ nullable \in SUBSET Heads
  /\ TerminalsBeginThemselves
  /\ FirstClosedWhenBuilt
  /\ phase = "first" => FirstTypeOK /\ ScannedRulesClosed

(* The steps after the constructor has returned. *)
FirstStays == UNCHANGED <<gram, first, nullable>> /\ phase # "first" /\ phase' # "first"

(* Every step is of one stage, and leaves what it is not about alone. *)
LEMMA Stages ==
  ASSUME [UnitGotosNext]_actionTableVars
  PROVE  \/ FirstNext /\ UNCHANGED <<lr0Vars, lookaheadVars>>
         \/ LR0Next /\ FirstStays /\ UNCHANGED lookaheadVars
         \/ LookaheadNext /\ FirstStays /\ UNCHANGED lr0Vars
         \/ /\ TableNext \/ OptimizeNext
            /\ FirstStays /\ UNCHANGED <<lr0Vars, options, follow, la>>
            /\ phase \in {"fill", "optimize"} /\ phase' \in {"fill", "optimize", "ready"}
         \/ UNCHANGED <<firstVars, lr0Vars, lookaheadVars>>
  <1>1. CASE FirstNext /\ UNCHANGED <<lr0Vars, lookaheadVars>>
    BY <1>1
  <1>2. CASE LR0Next /\ UNCHANGED lookaheadVars
    BY <1>2 DEF LR0Next, CloseItem, AddState, MoveOver, SkipMoved, ExpandNext, LR0Done,
                Expanding, FirstStays, firstVars
  <1>3. CASE LookaheadNext
    BY <1>3 DEF LookaheadNext, ScanFollow, NextFollowPass, FollowDone, ScanItem, ScanNextState,
                NextLookaheadPass, LookaheadDone, FirstStays, firstVars
  <1>4. CASE TableNext
    BY <1>4 DEF TableNext, PlaceShifts, PlaceReduces, FillNextState, FillDone, Filling,
                lookaheadsVars, automatonVars, firstVars, lookaheadVars, FirstStays
  <1>5. CASE OptimizeNext
    BY <1>5 DEF OptimizeNext, RedirectEntry, RedirectNextRow, NextRedirectPass, OptimizeDone,
                Optimizing, automatonVars, firstVars, lookaheadVars, FirstStays
  <1>6. CASE UNCHANGED actionTableVars
    BY <1>6 DEF actionTableVars, lookaheadsVars, automatonVars
  <1> QED
    BY <1>1, <1>2, <1>3, <1>4, <1>5, <1>6
    DEF UnitGotosNext, ActionTableNext, LookaheadsNext, AutomatonNext, lookaheadVars

LEMMA FirstStep ==
  ASSUME FirstInv, [UnitGotosNext]_actionTableVars
  PROVE  FirstInv'
  <1>1. CASE FirstNext
    <2>1. phase = "first"
      BY <1>1 DEF FirstNext, ScanRule, NextPass, FirstDone
    <2>2. FirstTypeOK' /\ TerminalsBeginThemselves' /\ ScannedRulesClosed' /\ FirstClosedWhenBuilt'
      BY <1>1, <2>1, FirstTypeStep, ScanInvariants DEF FirstInv
    <2> QED
      BY <2>2 DEF FirstInv, FirstTypeOK
  <1>2. CASE FirstStays
    BY <1>2 DEF FirstInv, FirstStays, TerminalsBeginThemselves, FirstClosedWhenBuilt,
                NullableSolution, FirstSolution
  <1>3. CASE UNCHANGED firstVars
    BY <1>3 DEF FirstInv, firstVars, TerminalsBeginThemselves, FirstClosedWhenBuilt,
                NullableSolution, FirstSolution, FirstTypeOK, ScannedRulesClosed
  <1> QED
    BY <1>1, <1>2, <1>3, Stages

LEMMA FirstStart ==
  ASSUME FirstInit
  PROVE  FirstInv
  <1>1. Len(gram) \in Nat
    BY GrammarsAssumption DEF FirstInit, IsGrammar
  <1>2. first \in [Symbols -> SUBSET TermsEOF] /\ TerminalsBeginThemselves
    BY DEF FirstInit, TerminalsBeginThemselves, Symbols
  <1>3. ruleIx \in 1..(Len(gram) + 1)
    BY <1>1 DEF FirstInit
  <1>4. FirstTypeOK
    BY <1>2, <1>3 DEF FirstInit, FirstTypeOK, Phases
  <1>5. ScannedRulesClosed /\ FirstClosedWhenBuilt
    BY DEF FirstInit, ScannedRulesClosed, FirstClosedWhenBuilt
  <1> QED
    BY <1>2, <1>4, <1>5 DEF FirstInv, FirstTypeOK

(* Every state is closed, whatever queue it was numbered from. *)
StatesClosed == \A s \in 1..Len(states) : ClosedIn(gram, ToSet(states[s]))

LEMMA StatesClosedStep ==
  ASSUME LR0Inv, StatesClosed, [UnitGotosNext]_actionTableVars
  PROVE  StatesClosed'
  <1>1. CASE AddState
    <2>1. PICK G \in Grammars : G = gram /\ G = gram'
      BY <1>1 DEF AddState, firstVars, LR0Inv, LR0TypeOK
    <2>2. Len(G) \in Nat
      BY <2>1, GrammarShape
    <2>3. ClosedIn(G, ToSet(queue))
      BY <1>1, <2>1, <2>2, QueueIsClosure, ClosureIsClosed
    <2>4. PICK N \in Nat : N = Len(states)
      BY DEF LR0Inv, LR0TypeOK
    <2>5. PICK S : S = Seq(ItemsIn(G))
      OBVIOUS
    <2>6. states \in Seq(S) /\ queue \in S
      BY <2>1, <2>5 DEF LR0Inv, LR0TypeOK
    <2>7. states' = states \/ states' = Append(states, queue)
      BY <1>1 DEF AddState
    <2>8. ASSUME NEW s \in 1..Len(states') PROVE (s \in 1..N /\ states'[s] = states[s]) \/ states'[s] = queue
      BY <2>4, <2>6, <2>7
    <2> QED
      BY <2>1, <2>3, <2>4, <2>8 DEF StatesClosed
  <1>2. CASE UNCHANGED states /\ UNCHANGED gram
    BY <1>2 DEF StatesClosed
  <1> QED
    BY <1>1, <1>2, LR0Steps
    DEF CloseItem, MoveOver, SkipMoved, ExpandNext, LR0Stays, firstVars, lr0Vars

-----------------------------------------------------------------------------
(* FOLLOW *)

(* What a rule's symbols call for is in the sets. *)
RuleFollows(r) ==
  \A k \in 1..Len(r.rhs) :
    r.rhs[k] \in Heads => After(r.rhs, k, follow[r.lhs]) \subseteq follow[r.rhs[k]]

LEMMA AfterIs ==
  ASSUME first \in [Symbols -> SUBSET TermsEOF], NEW rhs \in Seq(Symbols),
         NEW k \in 1..Len(rhs), NEW beyond \in SUBSET TermsEOF
  PROVE  /\ After(rhs, k, beyond) \in SUBSET TermsEOF
         /\ \A more : beyond \subseteq more => After(rhs, k, beyond) \subseteq After(rhs, k, more)
  <1>1. FirstFrom(first, nullable, rhs, k + 1) \subseteq TermsEOF
    <2>1. k + 1 \in Nat \ {0}
      OBVIOUS
    <2> QED
      BY <2>1, FirstFromType
  <1> QED
    BY <1>1 DEF After

(* The scan of a rule, symbol by symbol. *)
FollowScans(f, r, N) ==
  /\ f[0] = follow
  /\ \A k \in 1..N :
       f[k] = IF r.rhs[k] \in Heads
              THEN [f[k - 1] EXCEPT ![r.rhs[k]] = @ \cup After(r.rhs, k, f[k - 1][r.lhs])]
              ELSE f[k - 1]
  /\ FollowAfterRule(r) = f[N]

LEMMA FollowSteps ==
  ASSUME first \in [Symbols -> SUBSET TermsEOF], follow \in [Heads -> SUBSET TermsEOF],
         NEW r \in Rules, NEW N \in Nat, N = Len(r.rhs)
  PROVE  \E f \in [0..N -> [Heads -> SUBSET TermsEOF]] : FollowScans(f, r, N)
  <1>1. PICK V : V = [Heads -> SUBSET TermsEOF]
    OBVIOUS
  <1>2. PICK rhs \in Seq(Symbols) : rhs = r.rhs /\ N = Len(rhs)
    BY DEF Rules
  <1>3. PICK lhs \in Heads : lhs = r.lhs
    BY DEF Rules
  <1> DEFINE Step(k, g) == IF rhs[k] \in Heads
                           THEN [g EXCEPT ![rhs[k]] = @ \cup After(rhs, k, g[lhs])] ELSE g
             next == [k \in 1..N |-> [g \in V |-> Step(k, g)]]
             IsF(f) == f = [k \in 0..Len(r.rhs) |->
                              IF k = 0 THEN follow
                              ELSE LET g == f[k - 1]
                                   IN IF r.rhs[k] \in Heads
                                      THEN [g EXCEPT ![r.rhs[k]] = @ \cup After(r.rhs, k, g[r.lhs])]
                                      ELSE g]
  <1>4. ASSUME NEW k \in 1..N, NEW g \in V PROVE Step(k, g) \in V
    <2>1. g[lhs] \in SUBSET TermsEOF
      BY <1>1
    <2>2. After(rhs, k, g[lhs]) \in SUBSET TermsEOF
      BY <1>2, <2>1, AfterIs
    <2> QED
      BY <1>1, <2>2
  <1>5. \A f, k : (IF r.rhs[k] \in Heads
                   THEN [f[k - 1] EXCEPT ![r.rhs[k]] = @ \cup After(r.rhs, k, f[k - 1][r.lhs])]
                   ELSE f[k - 1]) = Step(k, f[k - 1])
    BY <1>2, <1>3
  <1>6. \A f : IsF(f) <=> f = [k \in 0..N |-> IF k = 0 THEN follow ELSE Step(k, f[k - 1])]
    BY <1>2, <1>3
  <1> HIDE DEF Step
  <1>7. next \in [1..N -> [V -> V]]
    BY <1>4
  <1>8. \A k \in 1..N, g \in V : next[k][g] = Step(k, g)
    OBVIOUS
  <1> HIDE DEF next
  <1>9. PICK a \in V : a = follow
    BY <1>1
  <1>10. PICK f \in [0..N -> V] : Follows(f, N, a, next)
    BY <1>7, Recursion
  <1>11. f[0] = follow /\ \A k \in 1..N : f[k] = Step(k, f[k - 1])
    <2>1. \A k \in 1..N : f[k - 1] \in V
      OBVIOUS
    <2> QED
      BY <1>8, <1>9, <1>10, <2>1 DEF Follows
  <1>12. IsF(f)
    <2>1. f = [k \in 0..N |-> f[k]]
      OBVIOUS
    <2>2. \A k \in 0..N : f[k] = IF k = 0 THEN follow ELSE Step(k, f[k - 1])
      <3>1. \A k \in 0..N : k = 0 \/ k \in 1..N
        OBVIOUS
      <3> QED
        BY <1>11, <3>1
    <2>3. f = [k \in 0..N |-> IF k = 0 THEN follow ELSE Step(k, f[k - 1])]
      BY <2>1, <2>2
    <2> HIDE DEF IsF
    <2> QED
      BY <1>6, <2>3
  <1> DEFINE F == CHOOSE f_ : IsF(f_)
  <1>13. IsF(F)
    BY <1>12
  <1>14. FollowAfterRule(r) = F[N]
    BY <1>2 DEF FollowAfterRule
  <1> HIDE DEF F
  <1>15. F = [k \in 0..N |-> IF k = 0 THEN follow ELSE Step(k, F[k - 1])]
    <2> HIDE DEF IsF
    <2> QED
      BY <1>6, <1>13
  <1> HIDE DEF IsF
  <1>16. F[0] = follow /\ \A k \in 1..N : F[k] = Step(k, F[k - 1])
    <2>1. 0 \in 0..N /\ \A k \in 1..N : k \in 0..N /\ k # 0
      OBVIOUS
    <2> QED
      BY <1>15, <2>1
  <1>17. \A k \in 0..N : F[k] = f[k]
    <2>1. \A k \in 1..N : F[k - 1] = f[k - 1] => F[k] = f[k]
      BY <1>11, <1>16
    <2>2. F[0] = f[0]
      BY <1>11, <1>16
    <2>3. PICK g : g = F
      OBVIOUS
    <2>4. \A k \in 0..N : g[k] = f[k]
      <3>1. StepAlike(g, f, N)
        BY <2>1, <2>2, <2>3 DEF StepAlike
      <3> QED
        BY <3>1, SameGrowth DEF Alike
    <2> QED
      BY <2>3, <2>4
  <1>18. FollowAfterRule(r) = f[N]
    BY <1>14, <1>17
  <1>19. FollowScans(f, r, N)
    BY <1>5, <1>11, <1>18 DEF FollowScans
  <1> QED
    BY <1>1, <1>19

(* A scan only adds, and one that adds nothing finds its rule satisfied.    *)
LEMMA FollowRuleIs ==
  ASSUME first \in [Symbols -> SUBSET TermsEOF], follow \in [Heads -> SUBSET TermsEOF],
         NEW r \in Rules
  PROVE  /\ FollowAfterRule(r) \in [Heads -> SUBSET TermsEOF]
         /\ FollowAfterRule(r) = follow => RuleFollows(r)
  <1>1. PICK rhs \in Seq(Symbols) : rhs = r.rhs
    BY DEF Rules
  <1>2. PICK N \in Nat : N = Len(rhs)
    BY <1>1
  <1>3. PICK lhs \in Heads : lhs = r.lhs
    BY DEF Rules
  <1>4. PICK f \in [0..N -> [Heads -> SUBSET TermsEOF]] : FollowScans(f, r, N)
    BY <1>1, <1>2, FollowSteps
  <1>5. /\ f[0] = follow /\ FollowAfterRule(r) = f[N]
        /\ \A k \in 1..N :
             f[k] = IF rhs[k] \in Heads
                    THEN [f[k - 1] EXCEPT ![rhs[k]] = @ \cup After(rhs, k, f[k - 1][lhs])]
                    ELSE f[k - 1]
    BY <1>1, <1>3, <1>4 DEF FollowScans
  <1>6. ASSUME NEW k \in 1..N
        PROVE  /\ \A A \in Heads : f[k - 1][A] \subseteq f[k][A]
               /\ rhs[k] \in Heads => After(rhs, k, f[k - 1][lhs]) \subseteq f[k][rhs[k]]
    <2>1. PICK g \in [Heads -> SUBSET TermsEOF] : g = f[k - 1]
      OBVIOUS
    <2>2. f[k] = IF rhs[k] \in Heads THEN [g EXCEPT ![rhs[k]] = @ \cup After(rhs, k, g[lhs])] ELSE g
      BY <1>5, <2>1
    <2> QED
      BY <2>1, <2>2
  <1>7. ASSUME NEW A \in Heads
        PROVE  \A k \in 0..N : follow[A] \subseteq f[k][A]
    <2> DEFINE H == {k \in 0..N : follow[A] \subseteq f[k][A]}
    <2>1. 0 \in H
      BY <1>5
    <2>2. ASSUME NEW k \in 1..N, k - 1 \in H PROVE k \in H
      BY <1>6, <2>2
    <2>3. \A k \in 0..N : k \in H
      <3> HIDE DEF H
      <3> QED
        BY <2>1, <2>2, Climbing
    <2> QED
      BY <2>3
  <1>8. ASSUME NEW A \in Heads
        PROVE  \A k \in 0..N : f[k][A] \subseteq f[N][A]
    <2> DEFINE H == {k \in 0..N : f[N - k][A] \subseteq f[N][A]}
    <2>1. 0 \in H
      OBVIOUS
    <2>2. ASSUME NEW k \in 1..N, k - 1 \in H PROVE k \in H
      <3>1. PICK m \in 1..N : m = N - (k - 1) /\ m - 1 = N - k
        OBVIOUS
      <3>2. f[m - 1][A] \subseteq f[m][A] /\ f[m][A] \subseteq f[N][A]
        BY <1>6, <2>2, <3>1
      <3> QED
        BY <3>1, <3>2
    <2>3. \A k \in 0..N : k \in H
      <3> HIDE DEF H
      <3> QED
        BY <2>1, <2>2, Climbing
    <2> SUFFICES ASSUME NEW k \in 0..N PROVE f[k][A] \subseteq f[N][A]
      OBVIOUS
    <2>4. N - k \in H
      <3> HIDE DEF H
      <3>1. N - k \in 0..N
        OBVIOUS
      <3> QED
        BY <2>3, <3>1
    <2>5. N - (N - k) = k
      OBVIOUS
    <2> QED
      BY <2>4, <2>5
  <1>9. ASSUME f[N] = follow PROVE RuleFollows(r)
    <2>1. \A k \in 0..N, A \in Heads : f[k][A] = follow[A]
      BY <1>7, <1>8, <1>9
    <2>2. \A k \in 1..N : k - 1 \in 0..N /\ k \in 0..N
      OBVIOUS
    <2>3. ASSUME NEW k \in 1..N, rhs[k] \in Heads
          PROVE  After(rhs, k, follow[lhs]) \subseteq follow[rhs[k]]
      <3>1. f[k - 1][lhs] = follow[lhs] /\ f[k][rhs[k]] = follow[rhs[k]]
        BY <2>1, <2>2, <2>3
      <3>2. After(rhs, k, f[k - 1][lhs]) \subseteq f[k][rhs[k]]
        BY <1>6, <2>3
      <3> QED
        BY <3>1, <3>2
    <2> QED
      BY <1>1, <1>2, <1>3, <2>3 DEF RuleFollows
  <1>10. f[N] \in [Heads -> SUBSET TermsEOF]
    OBVIOUS
  <1> QED
    BY <1>5, <1>9, <1>10

(* While a pass has changed nothing, the rules it has scanned are satisfied. *)
FollowInv ==
  /\ follow \in [Heads -> SUBSET TermsEOF]
  /\ phase = "follow" =>
       /\ ruleIx \in 1..(Len(gram) + 1)
       /\ ~changed => \A k \in 1..(ruleIx - 1) : RuleFollows(gram[k])
  /\ ~Early => \A k \in 1..Len(gram) : RuleFollows(gram[k])

LEMMA RuleFollowsStays ==
  ASSUME UNCHANGED <<gram, first, nullable, follow>>
  PROVE  \A k : RuleFollows(gram[k])' <=> RuleFollows(gram[k])
  BY DEF RuleFollows, After

LEMMA FollowStep ==
  ASSUME FirstInv, FollowInv, [UnitGotosNext]_actionTableVars
  PROVE  FollowInv'
  <1>1. CASE FirstNext /\ UNCHANGED lookaheadVars
    <2>1. phase = "first" /\ phase' \in {"first", "lr0"} /\ follow' = follow
      BY <1>1 DEF FirstNext, ScanRule, NextPass, FirstDone, lookaheadVars
    <2> QED
      BY <2>1 DEF FollowInv, Early
  <1>2. CASE LR0Next /\ FirstStays /\ UNCHANGED lookaheadVars
    <2>1. phase = "lr0" /\ phase' \in {"lr0", "follow"} /\ follow' = follow
      BY <1>2 DEF LR0Next, CloseItem, AddState, MoveOver, SkipMoved, ExpandNext, LR0Done,
                  Expanding, firstVars, lookaheadVars
    <2>2. phase' = "follow" => ruleIx' = 1
      BY <1>2, <2>1 DEF LR0Next, CloseItem, AddState, MoveOver, SkipMoved, ExpandNext, LR0Done,
                  Expanding, firstVars
    <2>3. Len(gram') \in Nat
      BY <1>2, GrammarShape DEF FirstInv, FirstStays
    <2>4. phase' = "follow" => ruleIx' \in 1..(Len(gram') + 1) /\ ~ \E k \in 1..(ruleIx' - 1) : TRUE
      BY <2>2, <2>3
    <2> QED
      BY <2>1, <2>4 DEF FollowInv, Early
  <1>3. CASE ScanFollow /\ FirstStays
    <2>1. PICK G \in Grammars : G = gram /\ G = gram'
      BY <1>3 DEF FirstInv, FirstStays
    <2>2. PICK N \in Nat : N = Len(G)
      BY GrammarShape
    <2>3. phase = "follow" /\ phase' = "follow" /\ ruleIx \in 1..N /\ ruleIx' = ruleIx + 1
      BY <1>3, <2>1, <2>2 DEF ScanFollow, FollowInv
    <2>4. PICK r \in Rules : r = gram[ruleIx]
      <3>1. G \in Seq(Rules)
        BY <2>1, <2>2, <2>3, RuleShape
      <3> QED
        BY <2>1, <2>2, <2>3, <3>1
    <2>5. follow' = FollowAfterRule(r) /\ changed' = (changed \/ follow' # follow)
      BY <1>3, <2>4 DEF ScanFollow, FollowFlag
    <2>6. follow' \in [Heads -> SUBSET TermsEOF] /\ (follow' = follow => RuleFollows(r))
      BY <2>5, FollowRuleIs DEF FirstInv, FollowInv
    <2>7. ruleIx' \in 1..(Len(gram') + 1)
      BY <2>1, <2>2, <2>3
    <2>8. ASSUME ~changed', NEW k \in 1..(ruleIx' - 1) PROVE RuleFollows(gram[k])'
      <3>1. ~changed /\ follow' = follow
        BY <2>5, <2>8
      <3>2. k \in 1..(ruleIx - 1) \/ k = ruleIx
        BY <2>2, <2>3
      <3>3. RuleFollows(G[k])
        BY <2>1, <2>3, <2>4, <2>6, <3>1, <3>2 DEF FollowInv
      <3>4. \A j : RuleFollows(gram[j])' <=> RuleFollows(gram[j])
        BY <1>3, <3>1, RuleFollowsStays DEF FirstStays
      <3> QED
        BY <2>1, <3>3, <3>4
    <2> QED
      BY <2>3, <2>6, <2>7, <2>8 DEF FollowInv, Early
  <1>4. CASE FirstStays /\ follow' = follow /\ ~ ScanFollow /\ (LookaheadNext \/ (~Early /\ ~Early'))
    <2>1. PICK G \in Grammars : G = gram /\ G = gram'
      BY <1>4 DEF FirstInv, FirstStays
    <2>2. PICK N \in Nat : N = Len(G)
      BY GrammarShape
    <2>4. \A k : RuleFollows(gram[k])' <=> RuleFollows(gram[k])
      BY <1>4, RuleFollowsStays DEF FirstStays
    <2>5. CASE NextFollowPass
      <3>1. phase = "follow" /\ phase' = "follow" /\ ruleIx' = 1
        BY <2>5 DEF NextFollowPass
      <3>2. ruleIx' \in 1..(Len(gram') + 1) /\ ~ \E k \in 1..(ruleIx' - 1) : TRUE
        BY <2>1, <2>2, <3>1
      <3> QED
        BY <1>4, <3>1, <3>2 DEF FollowInv, Early
    <2>6. CASE FollowDone
      <3>1. phase = "follow" /\ ~Early' /\ phase' # "follow" /\ ~changed /\ ruleIx > N
        BY <2>1, <2>2, <2>6 DEF FollowDone, Early
      <3>2. ruleIx - 1 = N
        BY <2>1, <2>2, <3>1 DEF FollowInv
      <3>3. \A k \in 1..Len(gram) : RuleFollows(gram[k])
        BY <2>1, <2>2, <3>1, <3>2 DEF FollowInv
      <3> QED
        BY <1>4, <2>1, <2>4, <3>1, <3>3 DEF FollowInv
    <2>7. CASE ~Early /\ ~Early'
      <3>1. phase' # "follow" /\ \A k \in 1..Len(gram) : RuleFollows(gram[k])
        BY <2>7 DEF FollowInv, Early
      <3> QED
        BY <1>4, <2>1, <2>4, <3>1 DEF FollowInv
    <2>8. LookaheadNext /\ ~ NextFollowPass /\ ~ FollowDone => ~Early /\ ~Early'
      BY <1>4 DEF LookaheadNext, ScanItem, ScanNextState, NextLookaheadPass, LookaheadDone, Early,
                  firstVars
    <2> QED
      BY <1>4, <2>5, <2>6, <2>7, <2>8
  <1>5. CASE UNCHANGED <<firstVars, lookaheadVars>>
    <2>1. \A k : RuleFollows(gram[k])' <=> RuleFollows(gram[k])
      BY <1>5, RuleFollowsStays DEF firstVars, lookaheadVars
    <2> QED
      BY <1>5, <2>1 DEF FollowInv, Early, firstVars, lookaheadVars
  <1>6. LookaheadNext /\ ~ ScanFollow => follow' = follow
    BY DEF LookaheadNext, NextFollowPass, FollowDone, ScanItem, ScanNextState,
           NextLookaheadPass, LookaheadDone, lookaheadVars
  <1> QED
    BY <1>1, <1>2, <1>3, <1>4, <1>5, <1>6, Stages DEF Early

-----------------------------------------------------------------------------
(* What an item leads to *)

CalledFor(item) == {Item(r, 0) : r \in {r \in 1..Len(gram) : gram[r].lhs = NextSym(item)}}
Passed(item, on) == After(gram[item.rule].rhs, item.dot + 1, on)

(* The stages the propagation runs in, and those after it. *)
Settled == LR0Inv /\ StatesClosed /\ FirstInv /\ FollowInv /\ ~Early

InState(s, item) == s \in 1..Len(states) /\ item \in ToSet(states[s])

LEMMA SettledShape ==
  ASSUME Settled, NEW s, NEW item, InState(s, item)
  PROVE  /\ item \in Items
         /\ item.rule \in 1..Len(gram)
         /\ item.dot \in 0..Len(gram[item.rule].rhs)
         /\ gram[item.rule] \in Rules
         /\ gram[item.rule].rhs \in Seq(Symbols)
         /\ gram[item.rule].lhs \in Heads
         /\ ~Complete(item) => /\ item.dot + 1 \in 1..Len(gram[item.rule].rhs)
                               /\ NextSym(item) \in Symbols
  <1>1. PICK G \in Grammars : G = gram
    BY DEF Settled, FirstInv
  <1>2. item \in ItemsIn(G)
    <2>1. PICK V : V = ItemsIn(G)
      OBVIOUS
    <2>2. PICK items \in Seq(V) : items = states[s]
      BY <1>1, <2>1 DEF Settled, LR0Inv, LR0TypeOK, InState
    <2> QED
      BY <2>1, <2>2, HoldsAt DEF InState
  <1>3. item.rule \in 1..Len(G) /\ item.dot \in Nat /\ item.dot <= Len(G[item.rule].rhs) /\ item \in Items
    BY <1>2 DEF ItemsIn, Items
  <1>4. G[item.rule] \in Rules /\ G[item.rule].rhs \in Seq(Symbols) /\ G[item.rule].lhs \in Heads
    BY <1>3, RuleShape, GrammarShape
  <1>5. Len(G[item.rule].rhs) \in Nat
    BY <1>4
  <1>6. ASSUME ~Complete(item)
        PROVE  item.dot + 1 \in 1..Len(G[item.rule].rhs) /\ NextSym(item) \in Symbols
    <2>1. item.dot + 1 \in 1..Len(G[item.rule].rhs)
      BY <1>1, <1>3, <1>5, <1>6 DEF Complete
    <2> QED
      BY <1>1, <1>4, <2>1 DEF NextSym
  <1> QED
    BY <1>1, <1>3, <1>4, <1>5, <1>6

LEMMA SettledMoves ==
  ASSUME Settled, NEW s, NEW item, InState(s, item), ~Complete(item)
  PROVE  /\ HasTrans(s, NextSym(item))
         /\ InState(Target(s, NextSym(item)), Advance(item))
         /\ \A e \in trans : e.from = s /\ e.sym = NextSym(item) => e.to = Target(s, NextSym(item))
         /\ \A b \in CalledFor(item) : InState(s, b)
  <1>1. PICK G \in Grammars : G = gram
    BY DEF Settled, FirstInv
  <1>2. stateIx = Len(states) + 1 /\ Len(states) \in Nat
    BY DEF Settled, LR0Inv, LR0TypeOK, AutomatonDone, Early
  <1>3. s \in 1..Len(states) /\ s < stateIx
    BY <1>2 DEF InState
  <1>4. PICK sym : sym = NextSym(item)
    OBVIOUS
  <1>5. ~CompleteIn(G, item) /\ NextSymIn(G, item) = sym
    BY <1>1, <1>4, InGram
  <1>6. sym \in ExpectedIn(G, ToSet(states[s]))
    BY <1>5 DEF ExpectedIn, InState
  <1>7. \E e \in trans : e.from = s /\ e.sym = sym
    BY <1>1, <1>3, <1>6 DEF Settled, LR0Inv, StatesExpanded
  <1>8. PICK e \in trans : e.from = s /\ e.sym = sym /\ e.to = Target(s, sym)
    BY <1>7 DEF Target
  <1>9. \A f \in trans : f.from = s /\ f.sym = sym => f = e
    BY <1>8 DEF Settled, LR0Inv, TransAreMoves
  <1>10. ToSet(states[e.to]) = MoveIn(G, ToSet(states[s]), sym)
    BY <1>1, <1>8 DEF Settled, LR0Inv, TransAreMoves
  <1>11. Advance(item) \in ToSet(states[e.to])
    <2>1. Advance(item) \in KernelIn(G, ToSet(states[s]), sym)
      BY <1>5 DEF KernelIn, InState
    <2>2. Len(G) \in Nat
      BY GrammarShape
    <2>3. KernelIn(G, ToSet(states[s]), sym) \subseteq MoveIn(G, ToSet(states[s]), sym)
      BY <2>2, ClosureIsLeast DEF MoveIn
    <2> QED
      BY <1>10, <2>1, <2>3
  <1>12. e.to \in 1..Len(states)
    BY DEF Settled, LR0Inv, LR0TypeOK
  <1>13. ASSUME NEW b \in CalledFor(item) PROVE InState(s, b)
    <2>1. PICK r \in 1..Len(G) : b = Item(r, 0) /\ G[r].lhs = sym
      BY <1>1, <1>4 DEF CalledFor
    <2>2. b \in IntoIn(G, ToSet(states[s]))
      BY <1>6, <2>1 DEF IntoIn
    <2>3. b \in ToSet(states[s])
      BY <1>1, <1>3, <2>2 DEF Settled, StatesClosed, ClosedIn
    <2> QED
      BY <1>3, <2>3 DEF InState
  <1> QED
    BY <1>4, <1>7, <1>8, <1>9, <1>11, <1>12, <1>13 DEF HasTrans, InState

(* What an item passes on to the items below it. *)
LEMMA PassedIs ==
  ASSUME Settled, NEW s, NEW item, InState(s, item), ~Complete(item), NEW on \in SUBSET TermsEOF
  PROVE  /\ Passed(item, on) \in SUBSET TermsEOF
         /\ \A more : on \subseteq more => Passed(item, on) \subseteq Passed(item, more)
         /\ \A t \in Passed(item, on) : on # {} => \E u \in on : t \in Passed(item, {u})
  <1>1. PICK rhs \in Seq(Symbols) : rhs = gram[item.rule].rhs
    BY SettledShape
  <1>2. PICK k \in 1..Len(rhs) : k = item.dot + 1
    BY <1>1, SettledShape
  <1>3. first \in [Symbols -> SUBSET TermsEOF]
    BY DEF Settled, FirstInv
  <1>4. \A x : Passed(item, x) = After(rhs, k, x)
    BY <1>1, <1>2 DEF Passed
  <1>5. /\ After(rhs, k, on) \in SUBSET TermsEOF
        /\ \A more : on \subseteq more => After(rhs, k, on) \subseteq After(rhs, k, more)
    BY <1>3, AfterIs
  <1>6. ASSUME NEW t \in After(rhs, k, on), on # {}
        PROVE  \E u \in on : t \in After(rhs, k, {u})
    BY <1>6 DEF After
  <1>7. \A more : on \subseteq more => Passed(item, on) \subseteq Passed(item, more)
    <2> SUFFICES ASSUME NEW more, on \subseteq more PROVE Passed(item, on) \subseteq Passed(item, more)
      OBVIOUS
    <2> QED
      BY <1>4, <1>5
  <1>8. ASSUME NEW t \in Passed(item, on), on # {} PROVE \E u \in on : t \in Passed(item, {u})
    <2>1. t \in After(rhs, k, on)
      BY <1>4, <1>8
    <2>2. PICK u \in on : t \in After(rhs, k, {u})
      BY <1>6, <1>8, <2>1
    <2>3. Passed(item, {u}) = After(rhs, k, {u})
      BY <1>4
    <2> QED
      BY <2>2, <2>3
  <1>9. Passed(item, on) \in SUBSET TermsEOF
    BY <1>4, <1>5
  <1> QED
    BY <1>7, <1>8, <1>9

(* Every symbol of a rule begins something or may vanish. *)
Live ==
  \A k \in 1..Len(gram) : \A m \in 1..Len(gram[k].rhs) :
    gram[k].rhs[m] \in nullable \/ first[gram[k].rhs[m]] # {}

LEMMA BeginsOrVanishes ==
  ASSUME NEW rhs \in Seq(Symbols), NEW k \in Nat \ {0},
         \A m \in k..Len(rhs) : rhs[m] \in nullable \/ first[rhs[m]] # {}
  PROVE  NullableFrom(nullable, rhs, k) \/ FirstFrom(first, nullable, rhs, k) # {}
  <1> DEFINE Stops == {m \in k..Len(rhs) : rhs[m] \notin nullable}
  <1>1. CASE Stops = {}
    BY <1>1 DEF NullableFrom
  <1>2. CASE Stops # {}
    <2>1. Stops \in SUBSET Nat
      OBVIOUS
    <2>2. PICK S \in SUBSET Nat : S = Stops
      BY <2>1
    <2>3. PICK m \in S : \A j \in Nat : j < m => j \notin S
      <3> HIDE DEF Stops
      <3> QED
        BY <1>2, <2>2, LeastNumber
    <2>4. m \in k..Len(rhs) /\ rhs[m] \notin nullable
      BY <2>2
    <2>5. \A j \in k..(m - 1) : rhs[j] \in nullable
      <3> SUFFICES ASSUME NEW j \in k..(m - 1) PROVE rhs[j] \in nullable
        OBVIOUS
      <3>1. j \in Nat /\ j < m /\ j \in k..Len(rhs)
        BY <2>4
      <3> QED
        BY <2>2, <2>3, <3>1
    <2>6. first[rhs[m]] # {}
      BY <2>4
    <2> QED
      BY <2>4, <2>5, <2>6 DEF FirstFrom
  <1> QED
    BY <1>1, <1>2

LEMMA PassedLive ==
  ASSUME Settled, Live, NEW s, NEW item, InState(s, item), ~Complete(item), NEW on, on # {}
  PROVE  Passed(item, on) # {}
  <1>1. PICK rhs \in Seq(Symbols) : rhs = gram[item.rule].rhs
    BY SettledShape
  <1>2. PICK k \in 1..Len(rhs) : k = item.dot + 1
    BY <1>1, SettledShape
  <1>3. \A m \in (k + 1)..Len(rhs) : rhs[m] \in nullable \/ first[rhs[m]] # {}
    <2>1. \A m \in (k + 1)..Len(rhs) : m \in 1..Len(rhs)
      OBVIOUS
    <2> QED
      BY <1>1, <2>1, SettledShape DEF Live
  <1>4. k + 1 \in Nat \ {0}
    OBVIOUS
  <1>5. NullableFrom(nullable, rhs, k + 1) \/ FirstFrom(first, nullable, rhs, k + 1) # {}
    BY <1>3, <1>4, BeginsOrVanishes
  <1> QED
    BY <1>1, <1>2, <1>5 DEF Passed, After

(* What FOLLOW allows an item's rule to be reduced on. *)
Bound(item) == follow[gram[item.rule].lhs] \cup (IF item.rule = 1 THEN {EOF} ELSE {})

LEMMA PassedWithin ==
  ASSUME Settled, NEW s, NEW item, InState(s, item), ~Complete(item),
         NEW on \in SUBSET TermsEOF, on \subseteq Bound(item)
  PROVE  \A b \in CalledFor(item) : Passed(item, on) \subseteq Bound(b)
  <1>1. PICK rhs \in Seq(Symbols) : rhs = gram[item.rule].rhs
    BY SettledShape
  <1>2. PICK k \in 1..Len(rhs) : k = item.dot + 1 /\ rhs[k] = NextSym(item)
    BY <1>1, SettledShape DEF NextSym
  <1>3. first \in [Symbols -> SUBSET TermsEOF] /\ follow \in [Heads -> SUBSET TermsEOF]
        /\ gram[item.rule].lhs \in Heads /\ item.rule \in 1..Len(gram)
    BY SettledShape DEF Settled, FirstInv, FollowInv
  <1>4. PICK beyond \in SUBSET TermsEOF : beyond = follow[gram[item.rule].lhs]
    BY <1>3
  <1> SUFFICES ASSUME NEW b \in CalledFor(item) PROVE Passed(item, on) \subseteq Bound(b)
    OBVIOUS
  <1>5. PICK r \in 1..Len(gram) : b = Item(r, 0) /\ gram[r].lhs = rhs[k]
    BY <1>2 DEF CalledFor
  <1>6. rhs[k] \in Heads
    BY <1>5, GrammarShape DEF Settled, FirstInv
  <1>7. After(rhs, k, beyond) \subseteq follow[rhs[k]]
    BY <1>1, <1>3, <1>4, <1>6 DEF Settled, FollowInv, RuleFollows
  <1>8. After(rhs, k, on) \subseteq After(rhs, k, beyond)
    <2>1. CASE item.rule # 1
      <3>1. on \subseteq beyond
        BY <1>4, <2>1 DEF Bound
      <3> QED
        BY <1>3, <3>1, AfterIs
    <2>2. CASE item.rule = 1
      <3>1. PICK start \in NonTerminals : gram[1] = AugmentedRule(start)
        BY GrammarsAssumption DEF IsGrammar, Settled, FirstInv
      <3>2. rhs = <<start, EOF>>
        BY <1>1, <2>2, <3>1 DEF AugmentedRule
      <3>3. EOF \notin Heads
        BY SymbolsAssumption DEF Heads, EOF, ACCEPT
      <3>4. k = 1
        BY <1>6, <3>2, <3>3
      <3>5. ~ NullableFrom(nullable, rhs, k + 1)
        BY <3>2, <3>3, <3>4 DEF NullableFrom, Settled, FirstInv
      <3> QED
        BY <3>5 DEF After
    <2> QED
      BY <2>1, <2>2
  <1>9. Bound(b) = follow[rhs[k]] \cup (IF r = 1 THEN {EOF} ELSE {})
    BY <1>5 DEF Bound, Item
  <1> QED
    BY <1>1, <1>2, <1>7, <1>8, <1>9 DEF Passed

-----------------------------------------------------------------------------
(* One item's propagation *)

At(f, s, item) == Known(f, <<s, item>>)

(* f becomes g: what an item has goes below it, and then along with it.     *)
Propagation(f, g, s, item) ==
  LET on == f[<<s, item>>]
      below == {<<s, b>> : b \in CalledFor(item)}
      over == <<Target(s, NextSym(item)), Advance(item)>>
      own == on \cup (IF <<s, item>> \in below THEN Passed(item, on) ELSE {})
  IN  /\ DOMAIN g = DOMAIN f \cup below \cup {over}
      /\ \A key \in DOMAIN g :
           g[key] = Known(f, key) \cup (IF key \in below THEN Passed(item, on) ELSE {})
                      \cup (IF key = over THEN own ELSE {})

LEMMA PropagatedIs ==
  ASSUME Settled, NEW s, NEW item, InState(s, item), ~Complete(item),
         NEW f, f = la, <<s, item>> \in DOMAIN f
  PROVE  Propagation(f, Propagated(s, item), s, item)
  <1> DEFINE on == f[<<s, item>>]
             more == Passed(item, on)
             below == {<<s, b>> : b \in CalledFor(item)}
             over == <<Target(s, NextSym(item)), Advance(item)>>
             mid == AddLA(f, below, more)
             own == on \cup (IF <<s, item>> \in below THEN more ELSE {})
  <1>1. /\ DOMAIN WithClosure(f, s, item) = DOMAIN f \cup below
        /\ \A key \in DOMAIN f \cup below :
             WithClosure(f, s, item)[key] = Known(f, key) \cup (IF key \in below THEN more ELSE {})
    <2>1. CASE NextSym(item) \in Heads
      <3>1. WithClosure(f, s, item) = mid
        <4>1. below = {<<s, Item(r, 0)>> : r \in {r \in 1..Len(gram) : gram[r].lhs = NextSym(item)}}
          BY DEF CalledFor
        <4>2. WithClosure(f, s, item) =
                AddLA(f, {<<s, Item(r, 0)>> : r \in {r \in 1..Len(gram) : gram[r].lhs = NextSym(item)}}, more)
          BY <2>1 DEF WithClosure, Passed
        <4> HIDE DEF below, more
        <4> QED
          BY <4>1, <4>2
      <3> HIDE DEF below, more
      <3>2. /\ DOMAIN mid = DOMAIN f \cup below
            /\ \A key \in DOMAIN f \cup below :
                 mid[key] = Known(f, key) \cup (IF key \in below THEN more ELSE {})
        BY DEF AddLA, Known
      <3> QED
        BY <3>1, <3>2
    <2>2. CASE NextSym(item) \notin Heads
      <3>1. CalledFor(item) = {}
        BY <2>2, GrammarShape DEF CalledFor, Settled, FirstInv
      <3>2. WithClosure(f, s, item) = f
        BY <2>2 DEF WithClosure
      <3> QED
        BY <3>1, <3>2 DEF Known
    <2> QED
      BY <2>1, <2>2
  <1>2. PICK m : m = WithClosure(f, s, item)
    OBVIOUS
  <1>3. Propagated(s, item) = AddLA(m, {over}, m[<<s, item>>])
    <2>1. HasTrans(s, NextSym(item))
      BY SettledMoves
    <2> QED
      BY <1>2, <2>1 DEF Propagated, WithGoto
  <1>4. m[<<s, item>>] = own
    BY <1>1, <1>2 DEF Known
  <1>5. PICK o : o = own
    OBVIOUS
  <1>6. /\ DOMAIN Propagated(s, item) = DOMAIN m \cup {over}
        /\ \A key \in DOMAIN m \cup {over} :
             Propagated(s, item)[key] = Known(m, key) \cup (IF key \in {over} THEN o ELSE {})
    <2> HIDE DEF over, own
    <2> QED
      BY <1>3, <1>4, <1>5 DEF AddLA, Known
  <1>7. \A key : Known(m, key) = Known(f, key) \cup (IF key \in below THEN more ELSE {})
    <2> SUFFICES ASSUME NEW key
                 PROVE  Known(m, key) = Known(f, key) \cup (IF key \in below THEN more ELSE {})
      OBVIOUS
    <2> HIDE DEF below, more
    <2>1. CASE key \in DOMAIN f \cup below
      BY <1>1, <1>2, <2>1 DEF Known
    <2>2. CASE key \notin DOMAIN f \cup below
      BY <1>1, <1>2, <2>2 DEF Known
    <2> QED
      BY <2>1, <2>2
  <1>8. PICK g : g = Propagated(s, item)
    OBVIOUS
  <1>9. /\ DOMAIN g = DOMAIN f \cup below \cup {over}
        /\ \A key \in DOMAIN g :
             g[key] = Known(f, key) \cup (IF key \in below THEN more ELSE {})
                        \cup (IF key = over THEN own ELSE {})
    <2> HIDE DEF below, more, over, own
    <2> QED
      BY <1>1, <1>2, <1>5, <1>6, <1>7, <1>8
  <1>10. Propagation(f, g, s, item)
    BY <1>9 DEF Propagation
  <1> QED
    BY <1>8, <1>10

(* The entries are of items of states, within FOLLOW, and hold something    *)
(* when every symbol derives something; the seed is among them.             *)
EntryIn(key, terms) ==
  \E s \in 1..Len(states) : \E i \in ToSet(states[s]) :
    key = <<s, i>> /\ terms \in SUBSET TermsEOF /\ terms \subseteq Bound(i)

LaOK(f) ==
  /\ \A key \in DOMAIN f : EntryIn(key, f[key]) /\ (Live => f[key] # {})
  /\ EOF \in Known(f, Seed)

LEMMA PropagatedOK ==
  ASSUME Settled, NEW s, NEW item, InState(s, item), ~Complete(item),
         NEW f, NEW g, LaOK(f), <<s, item>> \in DOMAIN f, Propagation(f, g, s, item)
  PROVE  LaOK(g)
  <1>1. PICK on \in SUBSET TermsEOF : on = f[<<s, item>>] /\ on \subseteq Bound(item)
    <2>1. EntryIn(<<s, item>>, f[<<s, item>>])
      BY DEF LaOK
    <2>2. PICK t, i :
            /\ <<s, item>> = <<t, i>> /\ f[<<s, item>>] \in SUBSET TermsEOF
            /\ f[<<s, item>>] \subseteq Bound(i)
      BY <2>1 DEF EntryIn
    <2> QED
      BY <2>2
  <1>2. Live => on # {}
    BY <1>1 DEF LaOK
  <1>3. PICK more \in SUBSET TermsEOF :
           /\ more = Passed(item, on)
           /\ \A b \in CalledFor(item) : more \subseteq Bound(b)
           /\ Live => more # {}
    BY <1>1, <1>2, PassedIs, PassedWithin, PassedLive
  <1>4. PICK below : below = {<<s, b>> : b \in CalledFor(item)}
    OBVIOUS
  <1>5. PICK to : to = Target(s, NextSym(item))
    OBVIOUS
  <1>6. PICK own : own = on \cup (IF <<s, item>> \in below THEN more ELSE {})
    OBVIOUS
  <1>7. /\ DOMAIN g = DOMAIN f \cup below \cup {<<to, Advance(item)>>}
        /\ \A key \in DOMAIN g :
             g[key] = Known(f, key) \cup (IF key \in below THEN more ELSE {})
                        \cup (IF key = <<to, Advance(item)>> THEN own ELSE {})
    BY <1>1, <1>3, <1>4, <1>5, <1>6 DEF Propagation
  <1>8. own \in SUBSET TermsEOF /\ own \subseteq Bound(item) /\ on \subseteq own
    <2>1. <<s, item>> \in below => item \in CalledFor(item)
      BY <1>4
    <2> QED
      BY <1>1, <1>3, <1>6, <2>1
  <1>9. Bound(Advance(item)) = Bound(item)
    BY DEF Bound, Advance, Item
  <1>10. InState(to, Advance(item)) /\ \A b \in CalledFor(item) : InState(s, b)
    BY <1>5, SettledMoves
  <1>11. ASSUME NEW key \in DOMAIN g PROVE EntryIn(key, g[key]) /\ (Live => g[key] # {})
    <2>1. key \in DOMAIN f => EntryIn(key, Known(f, key)) /\ (Live => Known(f, key) # {})
      BY DEF LaOK, Known
    <2>2. key \in below => EntryIn(key, more)
      BY <1>3, <1>4, <1>10 DEF EntryIn, InState
    <2>3. key = <<to, Advance(item)>> => EntryIn(key, own)
      BY <1>8, <1>9, <1>10 DEF EntryIn, InState
    <2>4. key \notin DOMAIN f => Known(f, key) = {}
      BY DEF Known
    <2>5. ASSUME NEW a, NEW b, EntryIn(key, a), EntryIn(key, b) PROVE EntryIn(key, a \cup b)
      <3>1. PICK t, i :
              t \in 1..Len(states) /\ i \in ToSet(states[t]) /\ key = <<t, i>> /\ a \in SUBSET TermsEOF /\ a \subseteq Bound(i)
        BY <2>5 DEF EntryIn
      <3>2. PICK u, j :
              u \in 1..Len(states) /\ j \in ToSet(states[u]) /\ key = <<u, j>> /\ b \in SUBSET TermsEOF /\ b \subseteq Bound(j)
        BY <2>5 DEF EntryIn
      <3>3. t = u /\ i = j
        BY <3>1, <3>2
      <3>4. a \cup b \in SUBSET TermsEOF /\ a \cup b \subseteq Bound(i)
        BY <3>1, <3>2, <3>3
      <3> QED
        BY <3>1, <3>4 DEF EntryIn
    <2>6. ASSUME NEW a, EntryIn(key, a) PROVE EntryIn(key, a \cup {})
      <3>1. a \cup {} = a
        OBVIOUS
      <3> QED
        BY <2>6, <3>1
    <2>7. PICK a, b, c : /\ a = Known(f, key)
                         /\ b = (IF key \in below THEN more ELSE {})
                         /\ c = (IF key = <<to, Advance(item)>> THEN own ELSE {})
                         /\ g[key] = a \cup b \cup c
      BY <1>7
    <2>8. /\ a # {} => EntryIn(key, a)
          /\ b # {} => EntryIn(key, b)
          /\ c # {} => EntryIn(key, c)
      BY <2>1, <2>2, <2>3, <2>4, <2>7
    <2>9. EntryIn(key, {})
      <3>1. EntryIn(key, a) \/ EntryIn(key, more) \/ EntryIn(key, own)
        BY <1>7, <2>1, <2>2, <2>3, <2>7
      <3>2. \E z : EntryIn(key, z)
        BY <3>1
      <3> QED
        BY <3>2 DEF EntryIn
    <2>10. EntryIn(key, a) /\ EntryIn(key, b) /\ EntryIn(key, c)
      BY <2>8, <2>9
    <2>11. EntryIn(key, a \cup b)
      BY <2>5, <2>10
    <2>12. EntryIn(key, (a \cup b) \cup c)
      BY <2>5, <2>10, <2>11
    <2>13. Live => g[key] # {}
      BY <1>2, <1>3, <1>7, <1>8, <2>1, <2>7
    <2> QED
      BY <2>7, <2>12, <2>13
  <1>12. EOF \in Known(g, Seed)
    <2>1. Seed \in DOMAIN f /\ EOF \in Known(f, Seed)
      BY DEF LaOK, Known
    <2> QED
      BY <1>7, <2>1 DEF Known
  <1> QED
    BY <1>11, <1>12 DEF LaOK

-----------------------------------------------------------------------------
(* Against the canonical LR(1) items *)

OnItem(s, item, t) == [state |-> s, item |-> item, on |-> t]
StartOn == OnItem(1, Item(1, 0), EOF)
ClosedLR1(C) == StartOn \in C /\ \A i \in C : LR1Step(i) \subseteq C

(* A walk over a rule and one terminal more. *)
LEMMA FirstFromAppended ==
  ASSUME FirstInv, NEW rhs \in Seq(Symbols), NEW k \in 1..Len(rhs), NEW t \in TermsEOF
  PROVE  FirstFrom(first, nullable, rhs \o <<t>>, k + 1) = After(rhs, k, {t})
  <1>1. PICK N \in Nat : N = Len(rhs)
    OBVIOUS
  <1>2. PICK q : q = rhs \o <<t>>
    OBVIOUS
  <1>3. /\ Len(q) = N + 1 /\ q[N + 1] = t
        /\ \A j \in 1..N : q[j] = rhs[j]
    <2>1. t \in Symbols
      BY DEF Symbols
    <2> QED
      BY <1>1, <1>2, <2>1
  <1>4. first[t] = {t}
    BY DEF FirstInv, TerminalsBeginThemselves
  <1>5. ASSUME NEW x PROVE x \in FirstFrom(first, nullable, q, k + 1) <=> x \in After(rhs, k, {t})
    <2>1. x \in FirstFrom(first, nullable, q, k + 1)
            <=> \E m \in (k + 1)..(N + 1) :
                  x \in first[q[m]] /\ \A j \in (k + 1)..(m - 1) : q[j] \in nullable
      BY <1>3 DEF FirstFrom
    <2>2. x \in After(rhs, k, {t})
            <=> \/ \E m \in (k + 1)..N :
                     x \in first[rhs[m]] /\ \A j \in (k + 1)..(m - 1) : rhs[j] \in nullable
                \/ x = t /\ \A j \in (k + 1)..N : rhs[j] \in nullable
      BY <1>1 DEF After, FirstFrom, NullableFrom
    <2>3. ASSUME NEW m \in (k + 1)..N
          PROVE  (x \in first[q[m]] /\ \A j \in (k + 1)..(m - 1) : q[j] \in nullable)
                   <=> (x \in first[rhs[m]] /\ \A j \in (k + 1)..(m - 1) : rhs[j] \in nullable)
      <3>1. m \in 1..N /\ \A j \in (k + 1)..(m - 1) : j \in 1..N
        BY <1>1
      <3> QED
        BY <1>3, <3>1
    <2>4. (x \in first[q[N + 1]] /\ \A j \in (k + 1)..N : q[j] \in nullable)
            <=> (x = t /\ \A j \in (k + 1)..N : rhs[j] \in nullable)
      <3>1. \A j \in (k + 1)..N : j \in 1..N
        BY <1>1
      <3> QED
        BY <1>3, <1>4, <3>1
    <2>5. N + 1 \in (k + 1)..(N + 1) /\ (N + 1) - 1 = N
      BY <1>1
    <2>6. \A m \in (k + 1)..(N + 1) : m \in (k + 1)..N \/ m = N + 1
      BY <1>1
    <2>7. \A m \in (k + 1)..N : m \in (k + 1)..(N + 1)
      BY <1>1
    <2> QED
      BY <2>1, <2>2, <2>3, <2>4, <2>5, <2>6, <2>7
  <1> QED
    BY <1>2, <1>5

LEMMA LR1StepIs ==
  ASSUME Settled, NEW s, NEW item, InState(s, item), ~Complete(item), NEW t \in TermsEOF
  PROVE  \A x : x \in LR1Step(OnItem(s, item, t))
           <=> \/ \E b \in CalledFor(item), u \in Passed(item, {t}) : x = OnItem(s, b, u)
               \/ x = OnItem(Target(s, NextSym(item)), Advance(item), t)
  <1>0. PICK i : i = OnItem(s, item, t)
    OBVIOUS
  <1>1. i = OnItem(s, item, t) /\ i.state = s /\ i.item = item /\ i.on = t
    BY <1>0 DEF OnItem
  <1>2. PICK rhs \in Seq(Symbols) : rhs = gram[item.rule].rhs
    BY SettledShape
  <1>3. PICK k \in 1..Len(rhs) : k = item.dot + 1 /\ k + 1 = item.dot + 2
    BY <1>2, SettledShape
  <1>4. FirstFrom(first, nullable, rhs \o <<t>>, item.dot + 2) = Passed(item, {t})
    BY <1>2, <1>3, FirstFromAppended DEF Passed, Settled
  <1>5. ASSUME NEW x
        PROVE  x \in LR1Below(i) <=> \E b \in CalledFor(item), u \in Passed(item, {t}) : x = OnItem(s, b, u)
    <2>1. x \in LR1Below(i)
            <=> \E r \in {r \in 1..Len(gram) : gram[r].lhs = NextSym(item)}, u \in Passed(item, {t}) :
                  x = OnItem(s, Item(r, 0), u)
      BY <1>1, <1>2, <1>4 DEF LR1Below, OnItem
    <2> QED
      BY <2>1 DEF CalledFor
  <1>6. PICK to : /\ to = Target(s, NextSym(item))
                  /\ \E e \in trans : e.from = s /\ e.sym = NextSym(item)
                  /\ \A e \in trans : e.from = s /\ e.sym = NextSym(item) => e.to = to
    BY SettledMoves DEF HasTrans
  <1>7. ASSUME NEW x
        PROVE  x \in {[state |-> e.to, item |-> Advance(item), on |-> t] :
                        e \in {e \in trans : e.from = s /\ e.sym = NextSym(item)}}
                 <=> x = OnItem(to, Advance(item), t)
    BY <1>6 DEF OnItem
  <1>8. ASSUME NEW x
        PROVE  x \in LR1Step(i) <=> \/ x \in LR1Below(i)
                                    \/ x = OnItem(to, Advance(item), t)
    <2>1. x \in LR1Step(i)
            <=> \/ x \in LR1Below(i)
                \/ x \in {[state |-> e.to, item |-> Advance(item), on |-> t] :
                            e \in {e \in trans : e.from = s /\ e.sym = NextSym(item)}}
      BY <1>1 DEF LR1Step
    <2> QED
      BY <1>7, <2>1
  <1> QED
    BY <1>1, <1>5, <1>6, <1>8

(* No lookahead is invented. *)
Sound(f) ==
  \A C : ClosedLR1(C) => \A key \in DOMAIN f : \A t \in f[key] : OnItem(key[1], key[2], t) \in C

LEMMA PropagatedSound ==
  ASSUME Settled, Live, NEW s, NEW item, InState(s, item), ~Complete(item),
         NEW f, NEW g, LaOK(f), Sound(f), <<s, item>> \in DOMAIN f, Propagation(f, g, s, item)
  PROVE  Sound(g)
  <1> SUFFICES ASSUME NEW C, ClosedLR1(C), NEW key \in DOMAIN g, NEW t \in g[key]
               PROVE  OnItem(key[1], key[2], t) \in C
    BY DEF Sound
  <1>1. PICK on \in SUBSET TermsEOF : on = f[<<s, item>>] /\ on # {}
    BY DEF LaOK, EntryIn
  <1>2. PICK below : below = {<<s, b>> : b \in CalledFor(item)}
    OBVIOUS
  <1>3. PICK to : to = Target(s, NextSym(item))
    OBVIOUS
  <1>4. PICK own : own = on \cup (IF <<s, item>> \in below THEN Passed(item, on) ELSE {})
    OBVIOUS
  <1>5. \/ t \in Known(f, key)
        \/ key \in below /\ t \in Passed(item, on)
        \/ key = <<to, Advance(item)>> /\ t \in own
    BY <1>1, <1>2, <1>3, <1>4 DEF Propagation
  <1>6. \A u \in on : u \in TermsEOF /\ OnItem(s, item, u) \in C
    BY <1>1 DEF Sound
  <1>7. \A x \in C : LR1Step(x) \subseteq C
    BY DEF ClosedLR1
  <1>8. ASSUME NEW b \in CalledFor(item), NEW v \in Passed(item, on) PROVE OnItem(s, b, v) \in C
    <2>1. PICK u \in on : v \in Passed(item, {u})
      BY <1>1, PassedIs
    <2>2. OnItem(s, b, v) \in LR1Step(OnItem(s, item, u))
      BY <1>6, <2>1, LR1StepIs
    <2> QED
      BY <1>6, <1>7, <2>2
  <1>9. ASSUME NEW u \in TermsEOF, OnItem(s, item, u) \in C PROVE OnItem(to, Advance(item), u) \in C
    <2>1. OnItem(to, Advance(item), u) \in LR1Step(OnItem(s, item, u))
      BY <1>3, LR1StepIs
    <2> QED
      BY <1>7, <1>9, <2>1
  <1>10. \A v \in own : v \in TermsEOF /\ OnItem(s, item, v) \in C
    <2> SUFFICES ASSUME NEW v \in own PROVE v \in TermsEOF /\ OnItem(s, item, v) \in C
      OBVIOUS
    <2>1. CASE v \in on
      BY <1>6, <2>1
    <2>2. CASE v \in Passed(item, on) /\ <<s, item>> \in below
      <3>1. item \in CalledFor(item)
        BY <1>2, <2>2
      <3>2. v \in TermsEOF
        BY <2>2, PassedIs
      <3> QED
        BY <1>8, <2>2, <3>1, <3>2
    <2> QED
      BY <1>4, <2>1, <2>2
  <1>11. CASE t \in Known(f, key)
    BY <1>11 DEF Known, Sound
  <1>12. CASE key \in below /\ t \in Passed(item, on)
    BY <1>2, <1>8, <1>12
  <1>13. CASE key = <<to, Advance(item)>> /\ t \in own
    BY <1>9, <1>10, <1>13
  <1> QED
    BY <1>5, <1>11, <1>12, <1>13

(* No lookahead is left behind: an item's have reached the items below it,  *)
(* and the item moved on.                                                   *)
Satisfied(f, s, item) ==
  At(f, s, item) # {} /\ ~Complete(item) =>
    /\ \A b \in CalledFor(item) : Passed(item, At(f, s, item)) \subseteq At(f, s, b)
    /\ At(f, s, item) \subseteq At(f, Target(s, NextSym(item)), Advance(item))

LEMMA PropagatedGrows ==
  ASSUME NEW s, NEW item, NEW f, NEW g, <<s, item>> \in DOMAIN f, Propagation(f, g, s, item)
  PROVE  /\ \A key : Known(f, key) \subseteq Known(g, key)
         /\ (\A key \in DOMAIN g : g[key] \subseteq Known(f, key)) =>
              /\ \A key : Known(g, key) = Known(f, key)
              /\ Satisfied(g, s, item)
  <1>1. PICK on : on = f[<<s, item>>]
    OBVIOUS
  <1>2. PICK more : more = Passed(item, on)
    OBVIOUS
  <1>3. PICK below : below = {<<s, b>> : b \in CalledFor(item)}
    OBVIOUS
  <1>4. PICK over : over = <<Target(s, NextSym(item)), Advance(item)>>
    OBVIOUS
  <1>5. /\ DOMAIN g = DOMAIN f \cup below \cup {over}
        /\ \A key \in DOMAIN g : /\ Known(f, key) \subseteq g[key]
                                 /\ key \in below => more \subseteq g[key]
                                 /\ key = over => on \subseteq g[key]
    BY <1>1, <1>2, <1>3, <1>4 DEF Propagation
  <1>6. \A key : Known(f, key) \subseteq Known(g, key)
    BY <1>5 DEF Known
  <1>7. ASSUME \A key \in DOMAIN g : g[key] \subseteq Known(f, key)
        PROVE  (\A key : Known(g, key) = Known(f, key)) /\ Satisfied(g, s, item)
    <2>1. \A key : Known(g, key) = Known(f, key)
      BY <1>5, <1>7 DEF Known
    <2>2. At(g, s, item) = on
      BY <1>1, <2>1 DEF Known, At
    <2>3. \A b \in CalledFor(item) : more \subseteq At(g, s, b)
      BY <1>3, <1>5 DEF At, Known
    <2>4. on \subseteq Known(g, over)
      BY <1>5 DEF Known
    <2> QED
      BY <1>2, <1>4, <2>1, <2>2, <2>3, <2>4 DEF Satisfied, At
  <1> QED
    BY <1>6, <1>7

LEMMA SatisfiedSame ==
  ASSUME NEW f, NEW g, \A key : Known(g, key) = Known(f, key)
  PROVE  \A s, item : Satisfied(g, s, item) <=> Satisfied(f, s, item)
  BY DEF Satisfied, At

-----------------------------------------------------------------------------
(* The canonical items are the least set closed under their steps: within   *)
(* the finite universe of the items of the states they stop growing.        *)

ItemsOn(s) == {OnItem(s, i, t) : i \in ToSet(states[s]), t \in TermsEOF}

LEMMA UniverseIsFinite ==
  ASSUME Settled
  PROVE  IsFiniteSet(LR1Universe)
  <1>1. PICK N \in Nat : N = Len(states)
    BY DEF Settled, LR0Inv, LR0TypeOK
  <1>2. IsFiniteSet(TermsEOF)
    <2>1. IsFiniteSet({EOF})
      BY FS_Singleton
    <2> QED
      BY <2>1, FiniteAssumption, FS_Union DEF TermsEOF
  <1>3. ASSUME NEW s \in 1..N PROVE IsFiniteSet(ItemsOn(s))
    <2>1. PICK V : states \in Seq(Seq(V))
      BY DEF Settled, LR0Inv, LR0TypeOK
    <2>2. PICK items \in Seq(V) : items = states[s]
      BY <1>1, <2>1
    <2>3. PICK M \in Nat : M = Len(items)
      OBVIOUS
    <2>4. PICK P : P = (1..M) \X TermsEOF
      OBVIOUS
    <2>5. IsFiniteSet(P)
      <3>1. IsFiniteSet(1..M)
        BY FS_Interval
      <3> QED
        BY <1>2, <2>4, <3>1, FS_Product
    <2>6. PICK h : h = [p \in P |-> OnItem(s, items[p[1]], p[2])]
      OBVIOUS
    <2>7. PICK T : T = ItemsOn(s)
      OBVIOUS
    <2>8. \A x : x \in T <=> \E k \in 1..M, t \in TermsEOF : x = OnItem(s, items[k], t)
      <3>1. \A i : i \in ToSet(items) <=> \E k \in 1..M : i = items[k]
        BY <2>3, HoldsAt
      <3> QED
        BY <2>2, <2>7, <3>1 DEF ItemsOn, OnItem
    <2>9. \A k \in 1..M, t \in TermsEOF : <<k, t>> \in P /\ h[<<k, t>>] = OnItem(s, items[k], t)
      BY <2>4, <2>6
    <2>10. h \in [P -> T]
      <3>1. \A p \in P : p[1] \in 1..M /\ p[2] \in TermsEOF /\ p = <<p[1], p[2]>>
        BY <2>4
      <3>2. ASSUME NEW p \in P PROVE h[p] \in T
        <4>1. PICK k \in 1..M, t \in TermsEOF : p = <<k, t>>
          BY <3>1
        <4>2. h[p] = OnItem(s, items[k], t)
          BY <2>9, <4>1
        <4> QED
          BY <2>8, <4>2
      <3> QED
        BY <2>6, <3>2
    <2>11. h \in Surjection(P, T)
      <3>1. ASSUME NEW x \in T PROVE \E p \in P : h[p] = x
        <4>1. PICK k \in 1..M, t \in TermsEOF : x = OnItem(s, items[k], t)
          BY <2>8
        <4> QED
          BY <2>9, <4>1
      <3> QED
        BY <2>10, <3>1 DEF Surjection
    <2>12. IsFiniteSet(T)
      BY <2>5, <2>11, FS_Surjection
    <2> QED
      BY <2>7, <2>12
  <1>4. PICK h : h = [s \in 1..N |-> ItemsOn(s)]
    OBVIOUS
  <1>5. PICK T : T = {ItemsOn(s) : s \in 1..N}
    OBVIOUS
  <1>6. LR1Universe = UNION T
    BY <1>1, <1>5 DEF LR1Universe, ItemsOn, OnItem
  <1>7. h \in Surjection(1..N, T)
    BY <1>4, <1>5 DEF Surjection
  <1>8. IsFiniteSet(T)
    <2>1. IsFiniteSet(1..N)
      BY FS_Interval
    <2> QED
      BY <1>7, <2>1, FS_Surjection
  <1>9. \A X \in T : IsFiniteSet(X)
    BY <1>3, <1>5
  <1> QED
    BY <1>6, <1>8, <1>9, FS_UNION

LEMMA InUniverse ==
  \A x : x \in LR1Universe
    <=> \E s, item, t : InState(s, item) /\ t \in TermsEOF /\ x = OnItem(s, item, t)
  BY DEF LR1Universe, InState, OnItem

LEMMA StepsStayInUniverse ==
  ASSUME Settled, NEW x \in LR1Universe
  PROVE  LR1Step(x) \subseteq LR1Universe
  <1>1. PICK s, item, t : InState(s, item) /\ t \in TermsEOF /\ x = OnItem(s, item, t)
    BY InUniverse
  <1>2. CASE Complete(item)
    BY <1>1, <1>2 DEF LR1Step, OnItem
  <1>3. CASE ~Complete(item)
    <2> SUFFICES ASSUME NEW y \in LR1Step(x) PROVE y \in LR1Universe
      OBVIOUS
    <2>1. \/ \E b \in CalledFor(item), u \in Passed(item, {t}) : y = OnItem(s, b, u)
          \/ y = OnItem(Target(s, NextSym(item)), Advance(item), t)
      <3>1. y \in LR1Step(OnItem(s, item, t))
        BY <1>1
      <3>2. InState(s, item) /\ ~Complete(item) /\ t \in TermsEOF
        BY <1>1, <1>3
      <3> QED
        BY <3>1, <3>2, LR1StepIs
    <2>2. /\ InState(Target(s, NextSym(item)), Advance(item))
          /\ \A b \in CalledFor(item) : InState(s, b)
      BY <1>1, <1>3, SettledMoves
    <2>3. \A u \in Passed(item, {t}) : u \in TermsEOF
      <3>1. PICK on \in SUBSET TermsEOF : on = {t}
        BY <1>1
      <3> QED
        BY <1>1, <1>3, <3>1, PassedIs
    <2> QED
      BY <1>1, <2>1, <2>2, <2>3, InUniverse
  <1> QED
    BY <1>2, <1>3

LEMMA SeedIsThere ==
  ASSUME LR0Inv, phase \notin {"first", "lr0"}
  PROVE  InState(1, Item(1, 0))
  <1>1. states # <<>> /\ ToSet(states[1]) = ClosureIn(gram, {Item(1, 0)})
    BY DEF LR0Inv, FirstState, AutomatonDone
  <1>2. PICK G \in Grammars : G = gram
    BY DEF LR0Inv, LR0TypeOK
  <1>3. Item(1, 0) \in ClosureIn(G, {Item(1, 0)})
    <2>1. Len(G) \in Nat
      BY GrammarShape
    <2> QED
      BY <2>1, ClosureIsLeast
  <1>4. 1 \in 1..Len(states)
    <2>1. PICK V : states \in Seq(V)
      BY DEF LR0Inv, LR0TypeOK
    <2> QED
      BY <1>1, <2>1
  <1> QED
    BY <1>1, <1>2, <1>3, <1>4 DEF InState

LEMMA SettledSeed ==
  ASSUME Settled
  PROVE  StartOn \in LR1Universe
  <1>1. InState(1, Item(1, 0))
    BY SeedIsThere DEF Settled, Early
  <1>2. EOF \in TermsEOF
    BY DEF TermsEOF
  <1> QED
    BY <1>1, <1>2, InUniverse DEF StartOn

LEMMA CanonicalItems ==
  ASSUME Settled
  PROVE  ClosedLR1(LR1Items) /\ \A C : ClosedLR1(C) => LR1Items \subseteq C
  <1>1. PICK U : U = LR1Universe
    OBVIOUS
  <1>2. IsFiniteSet(U)
    BY <1>1, UniverseIsFinite
  <1>3. PICK N \in Nat : N = Cardinality(U)
    BY <1>2, FS_CardinalityType
  <1>4. PICK a \in SUBSET U : a = {StartOn}
    BY <1>1, SettledSeed
  <1>5. \A X \in SUBSET U : X \subseteq LR1Grow(X) /\ LR1Grow(X) \in SUBSET U
    <2>1. \A x \in U : LR1Step(x) \subseteq U
      BY <1>1, StepsStayInUniverse
    <2> QED
      BY <2>1 DEF LR1Grow
  <1>6. PICK next : next = [X \in SUBSET U |-> LR1Grow(X)]
    OBVIOUS
  <1>7. /\ next \in [SUBSET U -> SUBSET U]
        /\ \A X \in SUBSET U : X \subseteq next[X] /\ next[X] = LR1Grow(X)
    BY <1>5, <1>6
  <1>8. PICK f \in [0..N -> SUBSET U] :
          Grows(f, N, a, next) /\ \E n \in 1..N : f[n] = f[n - 1]
    <2>1. Expands(next, U) /\ a # {}
      BY <1>4, <1>7 DEF Expands
    <2>2. \E f \in [0..N -> SUBSET U] : Grows(f, N, a, next) /\ GrowsNoMore(f, N, next)
      BY <1>2, <1>3, <2>1, Growing
    <2> QED
      BY <2>2 DEF GrowsNoMore
  <1>9. f[0] = {StartOn} /\ \A n \in 1..N : f[n] = LR1Grow(f[n - 1])
    <2>1. \A n \in 1..N : f[n - 1] \in SUBSET U
      OBVIOUS
    <2> QED
      BY <1>4, <1>7, <1>8, <2>1 DEF Grows
  <1> DEFINE IsF(h) == h = [n \in 0..Cardinality(LR1Universe) |->
                              IF n = 0 THEN {[state |-> 1, item |-> Item(1, 0), on |-> EOF]}
                              ELSE LR1Grow(h[n - 1])]
             F == CHOOSE h : IsF(h)
             enough == CHOOSE n \in 1..Cardinality(LR1Universe) : F[n] = F[n - 1]
  <1>10. \A h : IsF(h) <=> h = [n \in 0..N |-> IF n = 0 THEN {StartOn} ELSE LR1Grow(h[n - 1])]
    BY <1>1, <1>3 DEF StartOn, OnItem
  <1>11. LR1Items = F[enough]
    BY DEF LR1Items
  <1>12. IsF(f)
    <2>1. f = [n \in 0..N |-> f[n]]
      OBVIOUS
    <2>2. \A n \in 0..N : f[n] = IF n = 0 THEN {StartOn} ELSE LR1Grow(f[n - 1])
      <3>1. \A n \in 0..N : n = 0 \/ n \in 1..N
        OBVIOUS
      <3> QED
        BY <1>9, <3>1
    <2>3. f = [n \in 0..N |-> IF n = 0 THEN {StartOn} ELSE LR1Grow(f[n - 1])]
      BY <2>1, <2>2
    <2> HIDE DEF IsF
    <2> QED
      BY <1>10, <2>3
  <1> HIDE DEF IsF
  <1>13. IsF(F)
    BY <1>12
  <1>14. PICK g : g = F
    OBVIOUS
  <1>15. g[0] = {StartOn} /\ \A n \in 1..N : g[n] = LR1Grow(g[n - 1])
    <2>1. g = [n \in 0..N |-> IF n = 0 THEN {StartOn} ELSE LR1Grow(g[n - 1])]
      <3> HIDE DEF F
      <3> QED
        BY <1>10, <1>13, <1>14
    <2>2. 0 \in 0..N /\ \A n \in 1..N : n \in 0..N /\ n # 0
      OBVIOUS
    <2> QED
      BY <2>1, <2>2
  <1>16. \A n \in 0..N : g[n] = f[n]
    <2>1. StepAlike(g, f, N)
      BY <1>9, <1>15 DEF StepAlike
    <2> QED
      BY <2>1, SameGrowth DEF Alike
  <1>17. PICK n \in 1..N : LR1Items = f[n] /\ f[n] = f[n - 1]
    <2>1. enough \in 1..N /\ g[enough] = g[enough - 1]
      <3>1. \E n \in 1..N : g[n] = g[n - 1]
        BY <1>8, <1>16
      <3>2. enough = CHOOSE n \in 1..N : g[n] = g[n - 1]
        BY <1>1, <1>3, <1>14
      <3> HIDE DEF enough
      <3> QED
        BY <3>1, <3>2
    <2>2. LR1Items = g[enough]
      BY <1>11, <1>14
    <2> HIDE DEF enough
    <2> QED
      BY <1>16, <2>1, <2>2
  <1>18. LR1Grow(LR1Items) = LR1Items
    BY <1>9, <1>17
  <1>19. StartOn \in LR1Items
    <2> DEFINE H == {k \in 0..N : StartOn \in f[k]}
    <2>1. 0 \in H
      BY <1>9
    <2>2. ASSUME NEW k \in 1..N, k - 1 \in H PROVE k \in H
      BY <1>9, <2>2 DEF LR1Grow
    <2>3. \A k \in 0..N : k \in H
      <3> HIDE DEF H
      <3> QED
        BY <2>1, <2>2, Climbing
    <2> QED
      BY <1>17, <2>3
  <1>20. ASSUME NEW C, ClosedLR1(C) PROVE LR1Items \subseteq C
    <2> DEFINE H == {k \in 0..N : f[k] \subseteq C}
    <2>1. 0 \in H
      BY <1>9, <1>20 DEF ClosedLR1
    <2>2. ASSUME NEW k \in 1..N, k - 1 \in H PROVE k \in H
      BY <1>9, <1>20, <2>2 DEF LR1Grow, ClosedLR1
    <2>3. \A k \in 0..N : k \in H
      <3> HIDE DEF H
      <3> QED
        BY <2>1, <2>2, Climbing
    <2> QED
      BY <1>17, <2>3
  <1> QED
    BY <1>18, <1>19, <1>20 DEF ClosedLR1, LR1Grow

-----------------------------------------------------------------------------
(* The passes over the items *)

(* What the propagation reads, and does not change. *)
Fixed == UNCHANGED <<gram, first, nullable, states, trans, follow, options>>

EntriesOK == LaOK(la)
NothingInvented == Live => Sound(la)
Passes(s, k) == Satisfied(la, s, states[s][k])

LEMMA LaAfter ==
  ASSUME Fixed, NEW g, g = la'
  PROVE  /\ EntriesOK' <=> LaOK(g)
         /\ NothingInvented' <=> (Live => Sound(g))
         /\ \A s, k : Passes(s, k)' <=> Satisfied(g, s, states[s][k])
  <1>1. Live' <=> Live
    BY DEF Fixed, Live
  <1>2. LaOK(la)' <=> LaOK(g)
    BY DEF Fixed, LaOK, EntryIn, Bound, Live, Known, Seed
  <1>3. Sound(la)' <=> Sound(g)
    BY DEF Fixed, Sound, ClosedLR1, LR1Step, LR1Below, Complete, NextSym
  <1>4. ASSUME NEW s, NEW k PROVE Satisfied(la, s, states[s][k])' <=> Satisfied(g, s, states[s][k])
    BY DEF Fixed, Satisfied, At, Known, CalledFor, Passed, After, Complete, NextSym, Target
  <1> QED
    BY <1>1, <1>2, <1>3, <1>4 DEF EntriesOK, NothingInvented, Passes

LEMMA LaSame ==
  ASSUME Fixed, la' = la
  PROVE  /\ EntriesOK' <=> EntriesOK
         /\ NothingInvented' <=> NothingInvented
         /\ \A s, k : Passes(s, k)' <=> Passes(s, k)
  <1>1. PICK g : g = la'
    OBVIOUS
  <1> QED
    BY <1>1, LaAfter DEF EntriesOK, NothingInvented, Passes

(* The entries are sound at every step.  While a pass has added nothing,    *)
(* what it has scanned is passed on in full, and so everything is when the  *)
(* propagation stops.                                                       *)
LaInv ==
  /\ Early => scanState = 1 /\ scanItem = 1
  /\ Early \/ options.slr => DOMAIN la = {}
  /\ phase = "lookahead" => ~options.slr /\ scanState \in Nat \ {0} /\ scanItem \in Nat \ {0}
  /\ ~Early /\ ~options.slr => EntriesOK /\ NothingInvented
  /\ phase = "lookahead" /\ ~changed =>
       \A s \in 1..Len(states) : \A k \in 1..Len(states[s]) :
         s < scanState \/ (s = scanState /\ k < scanItem) => Passes(s, k)
  /\ HasLookaheads /\ ~options.slr =>
       \A s \in 1..Len(states) : \A k \in 1..Len(states[s]) : Passes(s, k)

(* The scan of one item. *)
LEMMA ScannedItem ==
  ASSUME Settled, EntriesOK, NothingInvented, NEW s, NEW item, InState(s, item),
         NEW f, f = la, NEW g, g = Propagated(s, item)
  PROVE  /\ LaOK(g)
         /\ Live => Sound(g)
         /\ (\A key \in DOMAIN g : g[key] \subseteq Known(f, key)) =>
              /\ \A key : Known(g, key) = Known(f, key)
              /\ Satisfied(g, s, item)
  <1>1. LaOK(f) /\ (Live => Sound(f))
    BY DEF EntriesOK, NothingInvented
  <1>2. CASE <<s, item>> \in DOMAIN f /\ ~Complete(item)
    <2>1. Propagation(f, g, s, item)
      BY <1>2, PropagatedIs
    <2>2. LaOK(g) /\ (Live => Sound(g))
      BY <1>1, <1>2, <2>1, PropagatedOK, PropagatedSound
    <2> QED
      BY <1>2, <2>1, <2>2, PropagatedGrows
  <1>3. CASE ~ (<<s, item>> \in DOMAIN f /\ ~Complete(item))
    <2>1. g = f
      BY <1>3 DEF Propagated
    <2>2. Satisfied(g, s, item)
      BY <1>3, <2>1 DEF Satisfied, At, Known
    <2> QED
      BY <1>1, <2>1, <2>2
  <1> QED
    BY <1>2, <1>3

LEMMA StateShape ==
  ASSUME LR0Inv
  PROVE  /\ Len(states) \in Nat
         /\ \A s \in 1..Len(states) : /\ Len(states[s]) \in Nat
                                      /\ \A k \in 1..Len(states[s]) : InState(s, states[s][k])
  <1>1. PICK V : states \in Seq(Seq(V))
    BY DEF LR0Inv, LR0TypeOK
  <1>2. ASSUME NEW s \in 1..Len(states)
        PROVE  /\ Len(states[s]) \in Nat
               /\ \A k \in 1..Len(states[s]) : InState(s, states[s][k])
    <2>1. PICK items \in Seq(V) : items = states[s]
      BY <1>1
    <2> QED
      BY <2>1, HoldsAt DEF InState
  <1> QED
    BY <1>1, <1>2

LEMMA ScanItemStep ==
  ASSUME Settled, LaInv, ScanItem
  PROVE  LaInv'
  <1>1. /\ phase = "lookahead" /\ phase' = "lookahead" /\ Fixed
        /\ scanState <= Len(states) /\ scanItem <= Len(states[scanState])
        /\ scanState' = scanState /\ scanItem' = scanItem + 1
        /\ changed' = (changed \/ Added)
        /\ la' = Propagated(scanState, states[scanState][scanItem])
    BY DEF ScanItem, Fixed, AddedFlag, lr0Vars
  <1>2. PICK s \in 1..Len(states) : s = scanState
    BY <1>1, StateShape DEF LaInv, Settled
  <1>3. PICK n \in 1..Len(states[s]) : n = scanItem
    BY <1>1, <1>2, StateShape DEF LaInv, Settled
  <1>4. PICK item : item = states[s][n] /\ InState(s, item)
    BY <1>2, <1>3, StateShape DEF Settled
  <1>5. PICK f : f = la
    OBVIOUS
  <1>6. PICK g : g = la' /\ g = Propagated(s, item)
    BY <1>1, <1>2, <1>3, <1>4
  <1>7. EntriesOK /\ NothingInvented /\ ~options.slr
    BY <1>1 DEF LaInv, Settled
  <1>8. /\ LaOK(g)
        /\ Live => Sound(g)
        /\ (\A key \in DOMAIN g : g[key] \subseteq Known(f, key)) =>
             /\ \A key : Known(g, key) = Known(f, key)
             /\ Satisfied(g, s, item)
    BY <1>4, <1>5, <1>6, <1>7, ScannedItem
  <1>9. /\ EntriesOK' /\ NothingInvented'
        /\ \A t, k : Passes(t, k)' <=> Satisfied(g, t, states[t][k])
    BY <1>1, <1>6, <1>8, LaAfter
  <1>10. ASSUME ~changed', NEW t \in 1..Len(states), NEW k \in 1..Len(states[t]),
                t < s \/ (t = s /\ k < n + 1)
         PROVE  Passes(t, k)'
    <2>1. ~changed /\ ~Added
      BY <1>1, <1>10
    <2>2. \A key \in DOMAIN g : g[key] \subseteq Known(f, key)
      BY <1>5, <1>6, <2>1 DEF Added
    <2>3. (\A key : Known(g, key) = Known(f, key)) /\ Satisfied(g, s, item)
      BY <1>8, <2>2
    <2>4. CASE t = s /\ k = n
      BY <1>4, <1>9, <2>3, <2>4
    <2>5. CASE t < s \/ (t = s /\ k < n)
      <3>1. Satisfied(f, t, states[t][k])
        BY <1>1, <1>2, <1>3, <1>5, <2>1, <2>5 DEF LaInv, Passes
      <3> QED
        BY <1>9, <2>3, <3>1, SatisfiedSame
    <2>6. (t = s /\ k = n) \/ t < s \/ (t = s /\ k < n)
      BY <1>3, <1>10, StateShape DEF Settled
    <2> QED
      BY <2>4, <2>5, <2>6
  <1>11. states' = states /\ options' = options
    BY <1>1 DEF Fixed
  <1> QED
    BY <1>1, <1>2, <1>3, <1>7, <1>9, <1>10, <1>11 DEF LaInv, Early, HasLookaheads

LEMMA FollowDoneStep ==
  ASSUME LR0Inv, LaInv, FollowDone
  PROVE  LaInv'
  <1>1. /\ phase = "follow" /\ Fixed /\ Early /\ options' = options
        /\ scanState' = scanState /\ scanItem' = scanItem
        /\ options.slr => phase' = "fill" /\ la' = la
        /\ ~options.slr => phase' = "lookahead" /\ la' = [key \in {Seed} |-> {EOF}]
    BY DEF FollowDone, Fixed, Early, lr0Vars
  <1>2. scanState = 1 /\ scanItem = 1 /\ DOMAIN la = {}
    BY <1>1 DEF LaInv
  <1>3. CASE options.slr
    BY <1>1, <1>2, <1>3 DEF LaInv, Early, HasLookaheads
  <1>4. CASE ~options.slr
    <2>1. InState(1, Item(1, 0))
      BY <1>1, SeedIsThere
    <2>2. PICK g : g = la' /\ g = [key \in {Seed} |-> {EOF}]
      BY <1>1, <1>4
    <2>3. DOMAIN g = {Seed} /\ g[Seed] = {EOF}
      BY <2>2
    <2>4. EOF \in Bound(Item(1, 0)) /\ EOF \in TermsEOF
      BY DEF Bound, Item, TermsEOF
    <2>5. EntryIn(Seed, {EOF})
      BY <2>1, <2>4 DEF EntryIn, InState, Seed
    <2>6. LaOK(g)
      BY <2>3, <2>5 DEF LaOK, Known
    <2>7. Sound(g)
      BY <2>3 DEF Sound, ClosedLR1, StartOn, Seed
    <2>8. EntriesOK' /\ NothingInvented'
      BY <1>1, <2>2, <2>6, <2>7, LaAfter
    <2>9. \A s \in 1..Len(states') : \A k \in 1..Len(states'[s]) :
            ~ (s < scanState' \/ (s = scanState' /\ k < scanItem'))
      BY <1>1, <1>2
    <2> QED
      BY <1>1, <1>2, <1>4, <2>8, <2>9 DEF LaInv, Early, HasLookaheads
  <1> QED
    BY <1>3, <1>4

LEMMA PassesStep ==
  ASSUME LR0Inv, LaInv, ScanNextState \/ NextLookaheadPass \/ LookaheadDone
  PROVE  LaInv'
  <1>1. /\ phase = "lookahead" /\ Fixed /\ la' = la /\ options' = options /\ states' = states
    BY DEF ScanNextState, NextLookaheadPass, LookaheadDone, Fixed, lr0Vars, firstVars
  <1>2. PICK N \in Nat : N = Len(states)
    BY StateShape
  <1>3. PICK s \in Nat \ {0} : s = scanState
    BY <1>1 DEF LaInv
  <1>4. PICK n \in Nat \ {0} : n = scanItem
    BY <1>1 DEF LaInv
  <1>5. /\ EntriesOK' /\ NothingInvented' /\ ~options.slr
        /\ \A t, k : Passes(t, k)' <=> Passes(t, k)
    BY <1>1, LaSame DEF LaInv, Early
  <1>6. CASE ScanNextState
    <2>1. /\ phase' = "lookahead" /\ scanState' = s + 1 /\ scanItem' = 1 /\ changed' = changed
          /\ s <= N /\ n > Len(states[s])
      BY <1>1, <1>2, <1>3, <1>4, <1>6 DEF ScanNextState, firstVars
    <2>2. ASSUME ~changed', NEW t \in 1..N, NEW k \in 1..Len(states[t]),
                 t < s + 1 \/ (t = s + 1 /\ k < 1)
          PROVE  Passes(t, k)'
      <3>1. t < s \/ (t = s /\ k < n)
        BY <1>2, <1>3, <1>4, <2>1, <2>2, StateShape
      <3>2. Passes(t, k)
        BY <1>1, <1>2, <1>3, <1>4, <2>1, <2>2, <3>1 DEF LaInv
      <3> QED
        BY <1>5, <3>2
    <2>3. scanState' \in Nat \ {0} /\ scanItem' \in Nat \ {0}
      BY <2>1
    <2> QED
      BY <1>1, <1>2, <1>5, <2>1, <2>2, <2>3 DEF LaInv, Early, HasLookaheads
  <1>7. CASE NextLookaheadPass
    <2>1. phase' = "lookahead" /\ scanState' = 1 /\ scanItem' = 1
      BY <1>7 DEF NextLookaheadPass
    <2>2. \A t \in 1..Len(states') : \A k \in 1..Len(states'[t]) :
             ~ (t < 1 \/ (t = 1 /\ k < 1))
      OBVIOUS
    <2> QED
      BY <1>1, <1>5, <2>1, <2>2 DEF LaInv, Early, HasLookaheads
  <1>8. CASE LookaheadDone
    <2>1. phase' = "fill" /\ ~changed /\ s > N
      BY <1>2, <1>3, <1>8 DEF LookaheadDone
    <2>2. \A t \in 1..N : \A k \in 1..Len(states[t]) : Passes(t, k)
      BY <1>1, <1>2, <1>3, <2>1 DEF LaInv
    <2> QED
      BY <1>1, <1>2, <1>5, <2>1, <2>2 DEF LaInv, Early, HasLookaheads
  <1> QED
    BY <1>6, <1>7, <1>8

LEMMA LaStep ==
  ASSUME LR0Inv, StatesClosed, FirstInv, FollowInv, LaInv, [UnitGotosNext]_actionTableVars
  PROVE  LaInv'
  <1>1. CASE (FirstNext \/ LR0Next \/ ScanFollow \/ NextFollowPass)
               /\ UNCHANGED <<la, options, scanState, scanItem>>
    <2>1. Early /\ Early'
      BY <1>1 DEF FirstNext, ScanRule, NextPass, FirstDone, LR0Next, CloseItem, AddState, MoveOver,
                  SkipMoved, ExpandNext, LR0Done, Expanding, firstVars, ScanFollow, NextFollowPass,
                  Early
    <2> QED
      BY <1>1, <2>1 DEF LaInv, Early, HasLookaheads
  <1>2. CASE /\ TableNext \/ OptimizeNext
             /\ FirstStays /\ UNCHANGED <<lr0Vars, options, follow, la>>
             /\ phase \in {"fill", "optimize"} /\ phase' \in {"fill", "optimize", "ready"}
    <2>1. Fixed /\ la' = la /\ states' = states /\ options' = options
      BY <1>2 DEF Fixed, FirstStays, lr0Vars
    <2>2. /\ EntriesOK' <=> EntriesOK
          /\ NothingInvented' <=> NothingInvented
          /\ \A s, k : Passes(s, k)' <=> Passes(s, k)
      BY <2>1, LaSame
    <2> QED
      BY <1>2, <2>1, <2>2 DEF LaInv, Early, HasLookaheads
  <1>3. CASE UNCHANGED <<firstVars, lr0Vars, lookaheadVars>>
    <2>1. /\ Fixed /\ la' = la /\ states' = states /\ options' = options /\ phase' = phase
          /\ changed' = changed /\ scanState' = scanState /\ scanItem' = scanItem
      BY <1>3 DEF Fixed, firstVars, lr0Vars, lookaheadVars
    <2>2. /\ EntriesOK' <=> EntriesOK
          /\ NothingInvented' <=> NothingInvented
          /\ \A s, k : Passes(s, k)' <=> Passes(s, k)
      BY <2>1, LaSame
    <2> QED
      BY <2>1, <2>2 DEF LaInv, Early, HasLookaheads
  <1>4. CASE ScanItem
    <2>1. Settled
      BY <1>4 DEF Settled, Early, ScanItem
    <2> QED
      BY <1>4, <2>1, ScanItemStep
  <1>5. LookaheadNext =>
          \/ (ScanFollow \/ NextFollowPass) /\ UNCHANGED <<la, options, scanState, scanItem>>
          \/ FollowDone \/ ScanItem \/ ScanNextState \/ NextLookaheadPass \/ LookaheadDone
    BY DEF LookaheadNext, ScanFollow, NextFollowPass, lookaheadVars
  <1>6. UNCHANGED lookaheadVars => UNCHANGED <<la, options, scanState, scanItem>>
    BY DEF lookaheadVars
  <1> QED
    BY <1>1, <1>2, <1>3, <1>4, <1>5, <1>6, Stages, FollowDoneStep, PassesStep

(* Together. *)
LookaheadInv == StatesClosed /\ FirstInv /\ FollowInv /\ LaInv

LEMMA LookaheadStart ==
  ASSUME ActionTableInit
  PROVE  LookaheadInv
  <1>1. /\ FirstInit /\ states = <<>> /\ phase = "first" /\ follow = [A \in Heads |-> {}]
        /\ la = <<>> /\ scanState = 1 /\ scanItem = 1
    BY DEF ActionTableInit, LookaheadsInit, AutomatonInit, LookaheadInit, LR0Init, FirstInit
  <1>2. StatesClosed
    BY <1>1 DEF StatesClosed
  <1>3. FollowInv
    BY <1>1 DEF FollowInv, Early
  <1>4. LaInv
    BY <1>1 DEF LaInv, Early, HasLookaheads
  <1> QED
    BY <1>1, <1>2, <1>3, <1>4, FirstStart DEF LookaheadInv

LEMMA LookaheadAlways == UnitGotosSpec => []LookaheadInv
  <1>1. ActionTableInit => LookaheadInv
    BY LookaheadStart
  <1>2. LR0Inv /\ LookaheadInv /\ [UnitGotosNext]_actionTableVars => LookaheadInv'
    BY StatesClosedStep, FirstStep, FollowStep, LaStep DEF LookaheadInv
  <1> QED
    BY <1>1, <1>2, LR0Always, PTL DEF UnitGotosSpec

-----------------------------------------------------------------------------
(* What productivity brings: every symbol of a rule begins something, or    *)
(* may vanish, as FIRST and nullable are closed.                            *)
LEMMA ProductiveLive ==
  ASSUME FirstInv, phase # "first", Productive
  PROVE  Live
  <1>1. PICK G \in Grammars : G = gram
    BY DEF FirstInv
  <1>2. PICK N \in Nat : N = Cardinality(NonTerminals)
    BY FiniteAssumption, FS_CardinalityType
  <1>3. PICK L \in Nat : L = Len(G)
    BY GrammarShape
  <1>4. PICK V : V = SUBSET Symbols
    OBVIOUS
  <1> DEFINE Step(X) == X \cup {gram[r].lhs : r \in {r \in 1..Len(gram) : ToSet(gram[r].rhs) \subseteq X}}
             IsF(f) == f = [n \in 0..Cardinality(NonTerminals) |->
                              IF n = 0 THEN TermsEOF ELSE Step(f[n - 1])]
             F == CHOOSE f_ : IsF(f_)
             Begins == {x \in Symbols : x \in nullable \/ first[x] # {}}
  <1>5. \A k \in 1..Len(gram) : ToSet(gram[k].rhs) \subseteq F[Cardinality(NonTerminals)]
    BY DEF Productive
  <1>6. \A X \in V : Step(X) \in V
    BY <1>1, <1>4, GrammarShape DEF Symbols
  <1>7. TermsEOF \in V
    BY <1>4 DEF Symbols
  <1>8. \A f : IsF(f) <=> f = [n \in 0..N |-> IF n = 0 THEN TermsEOF ELSE Step(f[n - 1])]
    BY <1>2
  <1>9. \A X : \A y : y \in Step(X) => \/ y \in X
                                       \/ \E r \in 1..L : y = gram[r].lhs /\ ToSet(gram[r].rhs) \subseteq X
    BY <1>1, <1>3
  <1> HIDE DEF Step
  <1>10. PICK next \in [1..N -> [V -> V]] : \A n \in 1..N, X \in V : next[n][X] = Step(X)
    <2>1. [n \in 1..N |-> [X \in V |-> Step(X)]] \in [1..N -> [V -> V]]
      BY <1>6
    <2> QED
      BY <2>1
  <1>11. PICK f \in [0..N -> V] : f[0] = TermsEOF /\ \A n \in 1..N : f[n] = Step(f[n - 1])
    <2>1. PICK a \in V : a = TermsEOF
      BY <1>7
    <2>2. PICK f \in [0..N -> V] : Follows(f, N, a, next)
      BY Recursion
    <2>3. \A n \in 1..N : f[n - 1] \in V
      OBVIOUS
    <2> QED
      BY <1>10, <2>1, <2>2, <2>3 DEF Follows
  <1>12. IsF(f)
    <2>1. f = [n \in 0..N |-> f[n]]
      OBVIOUS
    <2>2. \A n \in 0..N : f[n] = IF n = 0 THEN TermsEOF ELSE Step(f[n - 1])
      <3>1. \A n \in 0..N : n = 0 \/ n \in 1..N
        OBVIOUS
      <3> QED
        BY <1>11, <3>1
    <2>3. f = [n \in 0..N |-> IF n = 0 THEN TermsEOF ELSE Step(f[n - 1])]
      BY <2>1, <2>2
    <2> HIDE DEF IsF
    <2> QED
      BY <1>8, <2>3
  <1> HIDE DEF IsF
  <1>13. IsF(F)
    BY <1>12
  <1>14. PICK g : g = F
    OBVIOUS
  <1>15. g[0] = TermsEOF /\ \A n \in 1..N : g[n] = Step(g[n - 1])
    <2>1. g = [n \in 0..N |-> IF n = 0 THEN TermsEOF ELSE Step(g[n - 1])]
      <3> HIDE DEF F
      <3> QED
        BY <1>8, <1>13, <1>14
    <2>2. 0 \in 0..N /\ \A n \in 1..N : n \in 0..N /\ n # 0
      OBVIOUS
    <2> QED
      BY <2>1, <2>2
  <1>16. g[N] \subseteq Begins
    <2> DEFINE H == {n \in 0..N : g[n] \subseteq Begins}
    <2>1. 0 \in H
      <3>1. \A t \in TermsEOF : t \in Symbols /\ first[t] # {}
        BY DEF FirstInv, TerminalsBeginThemselves, Symbols
      <3>2. TermsEOF \subseteq Begins
        BY <3>1
      <3> HIDE DEF Begins
      <3> QED
        BY <1>15, <3>2
    <2>2. ASSUME NEW n \in 1..N, n - 1 \in H PROVE n \in H
      <3>1. ASSUME NEW r \in 1..L, ToSet(gram[r].rhs) \subseteq g[n - 1] PROVE gram[r].lhs \in Begins
        <4>1. PICK rhs \in Seq(Symbols) : rhs = gram[r].rhs /\ gram[r].lhs \in Heads
          BY <1>1, <1>3, GrammarShape
        <4>2. ToSet(rhs) \subseteq Begins
          BY <2>2, <3>1, <4>1
        <4>3. \A m \in 1..Len(rhs) : rhs[m] \in nullable \/ first[rhs[m]] # {}
          BY <4>2, HoldsAt
        <4>4. NullableFrom(nullable, rhs, 1) \/ FirstFrom(first, nullable, rhs, 1) # {}
          <5>1. 1 \in Nat \ {0}
            OBVIOUS
          <5> QED
            BY <4>3, <5>1, BeginsOrVanishes
        <4>5. /\ NullableFrom(nullable, rhs, 1) => gram[r].lhs \in nullable
              /\ FirstFrom(first, nullable, rhs, 1) \subseteq first[gram[r].lhs]
          BY <1>1, <1>3, <4>1 DEF FirstInv, FirstClosedWhenBuilt, NullableSolution, FirstSolution
        <4> QED
          BY <4>1, <4>4, <4>5 DEF Symbols
      <3>2. g[n] = Step(g[n - 1]) /\ g[n - 1] \subseteq Begins
        BY <1>15, <2>2
      <3> HIDE DEF Begins
      <3> QED
        BY <1>9, <3>1, <3>2
    <2>3. \A n \in 0..N : n \in H
      <3> HIDE DEF H
      <3> QED
        BY <2>1, <2>2, Climbing
    <2> QED
      BY <2>3
  <1>17. ASSUME NEW k \in 1..L, NEW m \in 1..Len(gram[k].rhs)
         PROVE  gram[k].rhs[m] \in nullable \/ first[gram[k].rhs[m]] # {}
    <2>1. PICK rhs \in Seq(Symbols) : rhs = gram[k].rhs
      BY <1>1, <1>3, GrammarShape
    <2>2. ToSet(rhs) \subseteq Begins
      BY <1>1, <1>2, <1>3, <1>5, <1>14, <1>16, <2>1
    <2>3. rhs[m] \in Begins
      BY <2>1, <2>2, HoldsAt
    <2> QED
      BY <2>1, <2>3
  <1> QED
    BY <1>1, <1>3, <1>17 DEF Live

(* The entries as canonical items. *)
View(f) == UNION {{OnItem(key[1], key[2], t) : t \in f[key]} : key \in DOMAIN f}

LEMMA ViewHolds ==
  ASSUME NEW f, LaOK(f)
  PROVE  \A x : x \in View(f) <=>
           \E s, i, t : InState(s, i) /\ t \in TermsEOF /\ t \in At(f, s, i) /\ x = OnItem(s, i, t)
  <1>1. ASSUME NEW x \in View(f)
        PROVE  \E s, i, t : InState(s, i) /\ t \in TermsEOF /\ t \in At(f, s, i) /\ x = OnItem(s, i, t)
    <2>1. PICK key, t : key \in DOMAIN f /\ t \in f[key] /\ x = OnItem(key[1], key[2], t)
      BY DEF View
    <2>2. PICK s, i : InState(s, i) /\ key = <<s, i>> /\ f[key] \subseteq TermsEOF
      BY <2>1 DEF LaOK, EntryIn, InState
    <2> QED
      BY <2>1, <2>2 DEF At, Known
  <1>2. ASSUME NEW s, NEW i, NEW t \in At(f, s, i) PROVE OnItem(s, i, t) \in View(f)
    BY DEF At, Known, View
  <1> QED
    BY <1>1, <1>2

(* Once nothing more is passed on, the entries are closed as the canonical  *)
(* items are.                                                               *)
LEMMA PassedOnIsClosed ==
  ASSUME Settled, NEW f, LaOK(f), \A s, i : InState(s, i) => Satisfied(f, s, i)
  PROVE  ClosedLR1(View(f))
  <1>1. StartOn \in View(f)
    <2>1. InState(1, Item(1, 0))
      BY SeedIsThere DEF Settled, Early
    <2> QED
      BY <2>1, ViewHolds DEF LaOK, StartOn, Seed, At, TermsEOF
  <1>2. ASSUME NEW x \in View(f), NEW y \in LR1Step(x) PROVE y \in View(f)
    <2>1. PICK s, i, t : InState(s, i) /\ t \in TermsEOF /\ t \in At(f, s, i) /\ x = OnItem(s, i, t)
      BY ViewHolds
    <2>2. ~Complete(i)
      BY <1>2, <2>1 DEF LR1Step, OnItem
    <2>3. PICK on \in SUBSET TermsEOF : on = At(f, s, i) /\ {t} \subseteq on
      BY <2>1 DEF At, Known, LaOK, EntryIn
    <2>4. /\ \A b \in CalledFor(i) : Passed(i, on) \subseteq At(f, s, b)
          /\ on \subseteq At(f, Target(s, NextSym(i)), Advance(i))
      BY <2>1, <2>2, <2>3 DEF Satisfied
    <2>5. Passed(i, {t}) \subseteq Passed(i, on) /\ Passed(i, {t}) \in SUBSET TermsEOF
      <3>1. {t} \in SUBSET TermsEOF
        BY <2>1
      <3> QED
        BY <2>1, <2>2, <2>3, <3>1, PassedIs
    <2>6. /\ InState(Target(s, NextSym(i)), Advance(i))
          /\ \A b \in CalledFor(i) : InState(s, b)
      BY <2>1, <2>2, SettledMoves
    <2>7. \/ \E b \in CalledFor(i), u \in Passed(i, {t}) : y = OnItem(s, b, u)
          \/ y = OnItem(Target(s, NextSym(i)), Advance(i), t)
      BY <1>2, <2>1, <2>2, LR1StepIs
    <2>8. CASE \E b \in CalledFor(i), u \in Passed(i, {t}) : y = OnItem(s, b, u)
      BY <2>4, <2>5, <2>6, <2>8, ViewHolds
    <2>9. CASE y = OnItem(Target(s, NextSym(i)), Advance(i), t)
      BY <2>1, <2>3, <2>4, <2>6, <2>9, ViewHolds
    <2> QED
      BY <2>7, <2>8, <2>9
  <1> QED
    BY <1>1, <1>2 DEF ClosedLR1

(* The entries, when the tables are done. *)
LEMMA LookaheadsMeant ==
  ASSUME LR0Inv, LookaheadInv
  PROVE  LookaheadsAreLALR1
  <1>1. ASSUME Returned, ~options.slr, Productive
        PROVE  LR1Items = UNION {{[state |-> key[1], item |-> key[2], on |-> t] : t \in la[key]} :
                                   key \in DOMAIN la}
    <2>1. Settled /\ HasLookaheads
      BY <1>1 DEF Returned, Settled, Early, LookaheadInv, HasLookaheads
    <2>2. Live
      BY <1>1, <2>1, ProductiveLive DEF Returned, Settled
    <2>3. PICK f : f = la
      OBVIOUS
    <2>4. LaOK(f) /\ Sound(f)
      BY <1>1, <2>1, <2>2, <2>3 DEF LookaheadInv, LaInv, EntriesOK, NothingInvented, Settled
    <2>5. ASSUME NEW s, NEW i, InState(s, i) PROVE Satisfied(f, s, i)
      <3>1. PICK V : states \in Seq(Seq(V))
        BY DEF LR0Inv, LR0TypeOK
      <3>2. PICK items \in Seq(V) : items = states[s]
        BY <2>5, <3>1 DEF InState
      <3>3. PICK k \in 1..Len(items) : i = items[k]
        BY <2>5, <3>2, HoldsAt DEF InState
      <3> QED
        BY <1>1, <2>1, <2>3, <2>5, <3>2, <3>3 DEF LookaheadInv, LaInv, Passes, InState
    <2>6. ClosedLR1(View(f))
      BY <2>1, <2>4, <2>5, PassedOnIsClosed
    <2>7. ClosedLR1(LR1Items) /\ \A C : ClosedLR1(C) => LR1Items \subseteq C
      BY <2>1, CanonicalItems
    <2>8. LR1Items \subseteq View(f)
      BY <2>6, <2>7
    <2>9. View(f) \subseteq LR1Items
      <3> SUFFICES ASSUME NEW x \in View(f) PROVE x \in LR1Items
        OBVIOUS
      <3>1. PICK key, t : key \in DOMAIN f /\ t \in f[key] /\ x = OnItem(key[1], key[2], t)
        BY DEF View
      <3>2. PICK C : C = LR1Items
        OBVIOUS
      <3> QED
        BY <2>4, <2>7, <3>1, <3>2 DEF Sound
    <2> QED
      BY <2>3, <2>8, <2>9 DEF View, OnItem
  <1>2. ASSUME HasLookaheads, NEW key \in DOMAIN la
        PROVE  la[key] \subseteq follow[gram[key[2].rule].lhs]
                                   \cup (IF key[2].rule = 1 THEN {EOF} ELSE {})
    <2>1. ~Early /\ ~options.slr
      BY <1>2 DEF HasLookaheads, Early, LookaheadInv, LaInv
    <2>2. EntryIn(key, la[key])
      BY <1>2, <2>1 DEF LookaheadInv, LaInv, EntriesOK, LaOK
    <2> QED
      BY <2>2 DEF EntryIn, Bound
  <1> QED
    BY <1>1, <1>2 DEF LookaheadsAreLALR1, MergedLR1, LookaheadsWithinFollow

(* The lookaheads buildTables reduces on are, for every grammar, those of   *)
(* the canonical LR(1) automaton merged by LR(0) state, and lie in FOLLOW.  *)
THEOREM LookaheadsAreTheGrammars == UnitGotosSpec => []LookaheadsAreLALR1
  BY LookaheadAlways, LR0Always, LookaheadsMeant, PTL

-----------------------------------------------------------------------------
(***************************************************************************)
(* The tables, for every grammar, option and precedence: a cell does only  *)
(* what its state's items call for, a loss is reported, and a strict       *)
(* precedence decides alone - whatever order the items of a state come in. *)
(* The rows are followed as setAction fills them, item by item; and the    *)
(* gotos as they are redirected, which never skips more than renaming.     *)
(***************************************************************************)

(* What an entry lets the parser do. *)
KeptOf(e) == IF e.kind = "conflict" THEN ToSet(e.entries)
             ELSE IF e.kind \in {"none", "error", "ignore"} THEN {} ELSE {e}

AltsIn(G) == {Accept} \cup {Shift(n) : n \in Nat} \cup {Reduce(r) : r \in 1..Len(G)}

RulesIn(A) == {a.rule : a \in {a \in A : a.kind = "reduce"}}

(* Precedence can decide among the alternatives A, as far as they are known. *)
Decidable(G, A, sp) ==
  /\ \E a \in A : a.kind = "shift"
  /\ sp # NoPrec /\ sp.assoc # "fork"
  /\ \A r \in RulesIn(A) : G[r].prec # NoPrec /\ G[r].prec.assoc # "fork"

(* The entry e of a cell for which the items seen so far offer A, rep       *)
(* telling whether the cell has been reported.  A conflict always has been, *)
(* and always holds a reduce; A has one shift or accept at most.            *)
CellOK(G, e, A, rep, sp) ==
  /\ KeptOf(e) \subseteq A
  /\ A # KeptOf(e) /\ Accept \notin A => rep
  /\ A # {} => KeptOf(e) # {}
  /\ e.kind = "conflict" => rep /\ \E a \in KeptOf(e) : a.kind = "reduce"
  /\ \A a, b \in A : a.kind # "reduce" /\ b.kind # "reduce" => a = b
  /\ Decidable(G, A, sp) =>
       /\ (\A r \in RulesIn(A) : G[r].prec.level < sp.level) =>
            \A a \in KeptOf(e) : a.kind = "shift"
       /\ RulesIn(A) # {} /\ (\A r \in RulesIn(A) : G[r].prec.level > sp.level) =>
            \A a \in KeptOf(e) : a.kind = "reduce"

FreeKinds == {"none", "shift", "accept", "reduce", "conflict"}

LEMMA EntryShape ==
  /\ NoEntry.kind = "none" /\ Accept.kind = "accept"
  /\ \A n : Shift(n).kind = "shift"
  /\ \A r : Reduce(r).kind = "reduce" /\ Reduce(r).rule = r
  /\ \A e, f : Conflict(e, f).kind = "conflict" /\ ToSet(Conflict(e, f).entries) = {e, f}
  <1>1. \A e, f : ToSet(<<e, f>>) = {e, f}
    BY DEF ToSet
  <1> QED
    BY <1>1 DEF NoEntry, Accept, Shift, Reduce, Conflict

LEMMA KeptShape ==
  /\ \A e : e.kind \in {"shift", "accept", "reduce"} => KeptOf(e) = {e}
  /\ \A e : e.kind \in {"none", "error", "ignore"} => KeptOf(e) = {}
  /\ \A e, f : KeptOf(Conflict(e, f)) = {e, f}
  <1>1. ASSUME NEW e, e.kind \in {"shift", "accept", "reduce"} PROVE KeptOf(e) = {e}
    BY <1>1 DEF KeptOf
  <1>2. ASSUME NEW e, e.kind \in {"none", "error", "ignore"} PROVE KeptOf(e) = {}
    BY <1>2 DEF KeptOf
  <1>3. ASSUME NEW e, NEW f PROVE KeptOf(Conflict(e, f)) = {e, f}
    <2>1. PICK c : c = Conflict(e, f)
      OBVIOUS
    <2>2. c.kind = "conflict" /\ c.entries = <<e, f>>
      BY <2>1 DEF Conflict
    <2>3. ToSet(c.entries) = {e, f}
      BY <2>2 DEF ToSet
    <2> QED
      BY <2>1, <2>2, <2>3 DEF KeptOf
  <1> QED
    BY <1>1, <1>2, <1>3

LEMMA RulesShape ==
  ASSUME NEW A, NEW r
  PROVE  RulesIn(A \cup {Reduce(r)}) = RulesIn(A) \cup {r}
  BY EntryShape DEF RulesIn

LEMMA AltShape ==
  ASSUME NEW G, NEW a \in AltsIn(G)
  PROVE  /\ a.kind \in {"accept", "shift", "reduce"}
         /\ a.kind = "accept" => a = Accept
         /\ a.kind = "reduce" => a = Reduce(a.rule) /\ a.rule \in 1..Len(G)
  BY EntryShape DEF AltsIn

LEMMA PrecShape ==
  ASSUME NEW G \in Grammars
  PROVE  /\ \A r \in 1..Len(G) : G[r].prec \in Precs
         /\ \A p \in Precs : p.level \in Nat
         /\ NoPrec \in Precs
  <1>1. G \in Seq(Rules)
    BY GrammarsAssumption DEF IsGrammar
  <1>2. \A r \in 1..Len(G) : G[r] \in Rules
    BY <1>1
  <1> QED
    BY <1>2 DEF Rules, Precs, NoPrec

(* setAction's verdict on one more reduce. *)
Verdict(v, e, r) ==
  \/ v.entry = e /\ v.report # "none"
  \/ v.entry = Reduce(r) /\ v.report # "none"
  \/ v.entry = Conflict(e, Reduce(r)) /\ v.report # "none"

LEMMA ShiftReduceIs ==
  ASSUME NEW G \in Grammars, gram = G, NEW r \in 1..Len(G), NEW sp \in Precs, NEW e
  PROVE  LET v == ShiftReduce(e, r, sp)
             rp == G[r].prec
         IN  /\ Verdict(v, e, r)
             /\ ("fork" \notin {sp.assoc, rp.assoc} /\ NoPrec \notin {sp, rp}) =>
                  /\ rp.level > sp.level => v.entry = Reduce(r)
                  /\ rp.level < sp.level => v.entry = e
  <1>1. PICK rp \in Precs : rp = G[r].prec
    BY PrecShape
  <1>2. sp.level \in Nat /\ rp.level \in Nat
    BY PrecShape
  <1>3. PICK v : v = ShiftReduce(e, r, sp)
    OBVIOUS
  <1>4. \/ v = [entry |-> Conflict(e, Reduce(r)), report |-> "conflict"]
        \/ v = [entry |-> e, report |-> "auto"]
        \/ v = [entry |-> e, report |-> "shift-reduce"]
        \/ v = [entry |-> Reduce(r), report |-> "shift-reduce"]
    BY <1>3 DEF ShiftReduce
  <1>5. Verdict(v, e, r)
    BY <1>4 DEF Verdict
  <1>6. ASSUME "fork" \notin {sp.assoc, rp.assoc}, NoPrec \notin {sp, rp}, rp.level > sp.level
        PROVE  v.entry = Reduce(r)
    BY <1>1, <1>2, <1>3, <1>6 DEF ShiftReduce, ReduceWins
  <1>7. ASSUME "fork" \notin {sp.assoc, rp.assoc}, NoPrec \notin {sp, rp}, rp.level < sp.level
        PROVE  v.entry = e
    BY <1>1, <1>2, <1>3, <1>7 DEF ShiftReduce, ReduceWins, ShiftWins
  <1> QED
    BY <1>1, <1>3, <1>5, <1>6, <1>7

LEMMA ReduceReduceIs ==
  ASSUME NEW G \in Grammars, gram = G, NEW r \in 1..Len(G), NEW held \in 1..Len(G)
  PROVE  LET v == ReduceReduce(held, r)
         IN  /\ Verdict(v, Reduce(held), r)
             /\ "fork" \notin {G[held].prec.assoc, G[r].prec.assoc} =>
                  v.entry \in {Reduce(held), Reduce(r)}
  <1>1. PICK v : v = ReduceReduce(held, r)
    OBVIOUS
  <1>2. \/ v = [entry |-> Conflict(Reduce(held), Reduce(r)), report |-> "conflict"]
        \/ v = [entry |-> Reduce(held), report |-> "reduce-reduce"]
        \/ v = [entry |-> Reduce(r), report |-> "reduce-reduce"]
    BY <1>1 DEF ReduceReduce
  <1>3. Verdict(v, Reduce(held), r)
    BY <1>2 DEF Verdict
  <1>4. "fork" \notin {G[held].prec.assoc, G[r].prec.assoc} => v.entry \in {Reduce(held), Reduce(r)}
    BY <1>1 DEF ReduceReduce
  <1> QED
    BY <1>1, <1>3, <1>4

(* What one more reduce takes away from what precedence could decide. *)
LEMMA DecidableDown ==
  ASSUME NEW G, NEW A, NEW r, NEW sp, Decidable(G, A \cup {Reduce(r)}, sp)
  PROVE  /\ Decidable(G, A, sp)
         /\ r \in RulesIn(A \cup {Reduce(r)})
         /\ G[r].prec # NoPrec /\ G[r].prec.assoc # "fork"
  <1>1. RulesIn(A \cup {Reduce(r)}) = RulesIn(A) \cup {r}
    BY RulesShape
  <1>2. PICK a \in A \cup {Reduce(r)} : a.kind = "shift"
    BY DEF Decidable
  <1>3. a \in A
    BY <1>2, EntryShape
  <1> QED
    BY <1>1, <1>2, <1>3 DEF Decidable

(* setAction keeps the cell in order, whatever it holds already. *)
LEMMA SetReduceKeeps ==
  ASSUME NEW G \in Grammars, gram = G, NEW r \in 1..Len(G), NEW sp \in Precs,
         NEW A \in SUBSET AltsIn(G), NEW e, e.kind \in FreeKinds, NEW rep \in BOOLEAN,
         CellOK(G, e, A, rep, sp),
         NEW v, v = SetReduce(e, r, sp)
  PROVE  /\ v.entry.kind \in FreeKinds
         /\ CellOK(G, v.entry, A \cup {Reduce(r)}, rep \/ v.report # "none", sp)
  <1> DEFINE B == A \cup {Reduce(r)}
  <1>1. RulesIn(B) = RulesIn(A) \cup {r}
    BY RulesShape
  <1>2. /\ Reduce(r).kind = "reduce" /\ Reduce(r) # Accept /\ Reduce(r) \in B
        /\ KeptOf(Reduce(r)) = {Reduce(r)}
    BY EntryShape, KeptShape
  <1>3. \A a, b \in B : a.kind # "reduce" /\ b.kind # "reduce" => a = b
    BY <1>2 DEF CellOK
  <1>4. G[r].prec \in Precs /\ G[r].prec.level \in Nat /\ sp.level \in Nat
    BY PrecShape
  <1>5. Decidable(G, B, sp) => /\ Decidable(G, A, sp)
                               /\ G[r].prec # NoPrec /\ G[r].prec.assoc # "fork"
    BY DecidableDown
  <1>6. Decidable(G, B, sp) => sp # NoPrec /\ sp.assoc # "fork" /\ \E a \in A : a.kind = "shift"
    BY <1>5 DEF Decidable
  <1> DEFINE low == \A q \in RulesIn(B) : G[q].prec.level < sp.level
             high == \A q \in RulesIn(B) : G[q].prec.level > sp.level
  <1>7. /\ low => G[r].prec.level < sp.level /\ \A q \in RulesIn(A) : G[q].prec.level < sp.level
        /\ high => G[r].prec.level > sp.level /\ \A q \in RulesIn(A) : G[q].prec.level > sp.level
    BY <1>1
  <1> HIDE DEF B
  <1>8. A \subseteq B
    BY DEF B
  <1>9. CASE e.kind = "none"
    <2>1. v.entry = Reduce(r) /\ A = {}
      BY <1>9, KeptShape DEF SetReduce, CellOK
    <2>2. B = {Reduce(r)}
      BY <2>1 DEF B
    <2>3. ~ Decidable(G, B, sp)
      BY <2>1, <1>6
    <2>4. CellOK(G, v.entry, B, rep \/ v.report # "none", sp)
      BY <1>2, <2>1, <2>2, <2>3 DEF CellOK
    <2> QED
      BY <1>2, <2>1, <2>4 DEF FreeKinds, B
  <1>10. CASE e.kind = "shift"
    <2>1. v = ShiftReduce(e, r, sp)
      BY <1>10 DEF SetReduce
    <2>2. Verdict(v, e, r)
      BY <2>1, ShiftReduceIs
    <2>3. KeptOf(e) = {e} /\ e \in A /\ e \in B
      BY <1>8, <1>10, KeptShape DEF CellOK
    <2>4. ASSUME Decidable(G, B, sp), low PROVE v.entry = e
      <3>1. "fork" \notin {sp.assoc, G[r].prec.assoc} /\ NoPrec \notin {sp, G[r].prec}
        BY <1>5, <1>6, <2>4
      <3> QED
        BY <3>1, <1>7, <2>1, <2>4, ShiftReduceIs
    <2>5. ASSUME Decidable(G, B, sp), high PROVE v.entry = Reduce(r)
      <3>1. "fork" \notin {sp.assoc, G[r].prec.assoc} /\ NoPrec \notin {sp, G[r].prec}
        BY <1>5, <1>6, <2>5
      <3> QED
        BY <3>1, <1>7, <2>1, <2>5, ShiftReduceIs
    <2>6. Decidable(G, B, sp) /\ low => \A a \in KeptOf(v.entry) : a.kind = "shift"
      BY <1>10, <2>3, <2>4
    <2>7. Decidable(G, B, sp) /\ high => \A a \in KeptOf(v.entry) : a.kind = "reduce"
      BY <1>2, <2>5
    <2>8. v.report # "none"
      BY <2>2 DEF Verdict
    <2>9. KeptOf(v.entry) \in {{e}, {Reduce(r)}, {e, Reduce(r)}}
      BY <1>2, <2>2, <2>3, KeptShape DEF Verdict
    <2>10. v.entry.kind \in FreeKinds
      BY <1>2, <1>10, <2>2, EntryShape DEF Verdict, FreeKinds
    <2>11. v.entry.kind = "conflict" => \E a \in KeptOf(v.entry) : a.kind = "reduce"
      BY <1>2, <1>10, <2>2, KeptShape DEF Verdict
    <2>12. KeptOf(v.entry) \subseteq B /\ KeptOf(v.entry) # {}
      BY <1>2, <2>3, <2>9
    <2>13. CellOK(G, v.entry, B, rep \/ v.report # "none", sp)
      BY <1>3, <2>6, <2>7, <2>8, <2>11, <2>12 DEF CellOK
    <2> QED
      BY <2>10, <2>13 DEF B
  <1>11. CASE e.kind = "reduce"
    <2>1. KeptOf(e) = {e} /\ e \in A /\ e \in B
      BY <1>8, <1>11, KeptShape DEF CellOK
    <2>2. PICK h \in 1..Len(G) : h = e.rule /\ e = Reduce(h)
      BY <1>11, <2>1, AltShape
    <2>3. v = ReduceReduce(h, r)
      BY <1>11, <2>2 DEF SetReduce
    <2>4. Verdict(v, e, r)
      BY <2>2, <2>3, ReduceReduceIs
    <2>5. ~ (Decidable(G, B, sp) /\ low)
      BY <1>5, <1>7, <1>11, <2>1 DEF CellOK
    <2>6. KeptOf(v.entry) \in {{e}, {Reduce(r)}, {e, Reduce(r)}}
      BY <1>2, <2>1, <2>4, KeptShape DEF Verdict
    <2>7. \A a \in KeptOf(v.entry) : a.kind = "reduce"
      BY <1>2, <1>11, <2>6
    <2>8. KeptOf(v.entry) \subseteq B /\ KeptOf(v.entry) # {}
      BY <1>2, <2>1, <2>6
    <2>9. v.report # "none"
      BY <2>4 DEF Verdict
    <2>10. v.entry.kind \in FreeKinds
      BY <1>2, <1>11, <2>4, EntryShape DEF Verdict, FreeKinds
    <2>11. CellOK(G, v.entry, B, rep \/ v.report # "none", sp)
      BY <1>3, <2>5, <2>7, <2>8, <2>9 DEF CellOK
    <2> QED
      BY <2>10, <2>11 DEF B
  <1>12. CASE e.kind = "accept"
    <2>1. v.entry = e
      BY <1>12 DEF SetReduce
    <2>2. KeptOf(e) = {e} /\ e \in A /\ e \in B
      BY <1>8, <1>12, KeptShape DEF CellOK
    <2>3. e = Accept
      BY <1>12, <2>2, AltShape
    <2>4. ~ Decidable(G, B, sp)
      BY <1>6, <1>12, <2>2 DEF CellOK
    <2>5. CellOK(G, e, B, rep \/ v.report # "none", sp)
      BY <1>3, <1>12, <2>2, <2>3, <2>4 DEF CellOK
    <2> QED
      BY <1>12, <2>1, <2>5 DEF FreeKinds, B
  <1>13. CASE e.kind = "conflict"
    <2>1. v.entry = e
      BY <1>13 DEF SetReduce
    <2>2. PICK a \in KeptOf(e) : a.kind = "reduce"
      BY <1>13 DEF CellOK
    <2>3. rep /\ KeptOf(e) \subseteq A
      BY <1>13 DEF CellOK
    <2>4. a.rule \in RulesIn(A)
      BY <2>2, <2>3 DEF RulesIn
    <2>5. ~ (Decidable(G, B, sp) /\ low)
      BY <1>5, <1>7, <2>2 DEF CellOK
    <2>6. Decidable(G, B, sp) /\ high => \A b \in KeptOf(e) : b.kind = "reduce"
      BY <1>5, <1>7, <2>4 DEF CellOK
    <2>7. CellOK(G, e, B, rep \/ v.report # "none", sp)
      BY <1>3, <1>8, <2>2, <2>3, <2>5, <2>6 DEF CellOK
    <2> QED
      BY <1>13, <2>1, <2>7 DEF FreeKinds, B
  <1> QED
    BY <1>9, <1>10, <1>11, <1>12, <1>13 DEF FreeKinds
-----------------------------------------------------------------------------
(* What the transitions of state s, and the reduces of its first n items,   *)
(* call for on t.                                                           *)
Moves(s, t) ==
  {IF t = EOF THEN Accept ELSE Shift(e.to) : e \in {e \in trans : e.from = s /\ e.sym = t}}

Offers(s, k, t) == Reduces(states[s][k]) /\ t \in ReduceOn(s, states[s][k])

AltUpto(s, n, t) ==
  Moves(s, t) \cup {Reduce(states[s][k].rule) : k \in {k \in 1..n : Offers(s, k, t)}}

Reported(s, t) == \E c \in conflicts : c.state = s /\ c.term = t

RowOK(s, n) ==
  \A t \in TermsEOF :
    CellOK(gram, action[s][t], AltUpto(s, n, t), Reported(s, t), ShiftPrec(s, t))

EntriesIn(G) == {NoEntry} \cup AltsIn(G) \cup {Conflict(a, b) : a \in AltsIn(G), b \in AltsIn(G)}

(* While the rows are filled, each is in order for the items it has seen:   *)
(* all of its state's, or those before scanItem.                            *)
Seen(s) == IF s < scanState THEN Len(states[s]) ELSE scanItem - 1

FillingOK ==
  /\ scanState \in 1..(Len(states) + 1) /\ scanItem \in Nat \ {0}
  /\ action \in Seq([TermsEOF -> EntriesIn(gram)])
  /\ \/ Len(action) = scanState - 1 /\ scanItem = 1
     \/ /\ Len(action) = scanState /\ scanState <= Len(states)
        /\ scanItem <= Len(states[scanState]) + 1
  /\ \A s \in 1..Len(action) : RowOK(s, Seen(s))

TableInv ==
  /\ phase \in {"first", "lr0", "follow"} => scanState = 1 /\ scanItem = 1
  /\ phase \in {"first", "lr0", "follow", "lookahead"} => action = <<>>
  /\ phase = "fill" => FillingOK
  /\ Filled => \A s \in 1..Len(states) : RowOK(s, Len(states[s]))
-----------------------------------------------------------------------------
LEMMA EntriesShape ==
  ASSUME NEW G
  PROVE  /\ NoEntry \in EntriesIn(G) /\ AltsIn(G) \subseteq EntriesIn(G)
         /\ \A e \in EntriesIn(G) : e.kind \in FreeKinds
         /\ \A a, b \in AltsIn(G) : Conflict(a, b) \in EntriesIn(G)
         /\ Accept \in AltsIn(G) /\ \A n \in Nat : Shift(n) \in AltsIn(G)
         /\ \A r \in 1..Len(G) : Reduce(r) \in AltsIn(G)
  <1>1. \A e \in AltsIn(G) : e.kind \in FreeKinds
    BY AltShape DEF FreeKinds
  <1>2. \A a, b : Conflict(a, b).kind \in FreeKinds
    BY EntryShape DEF FreeKinds
  <1>3. NoEntry.kind \in FreeKinds
    BY EntryShape DEF FreeKinds
  <1>4. \A e \in EntriesIn(G) : e.kind \in FreeKinds
    BY <1>1, <1>2, <1>3 DEF EntriesIn
  <1> QED
    BY <1>4 DEF EntriesIn, AltsIn

LEMMA SetReduceStays ==
  ASSUME NEW G \in Grammars, gram = G, NEW r \in 1..Len(G), NEW sp \in Precs,
         NEW e \in EntriesIn(G), KeptOf(e) \subseteq AltsIn(G),
         NEW v, v = SetReduce(e, r, sp)
  PROVE  v.entry \in EntriesIn(G)
  <1>1. e.kind \in FreeKinds /\ Reduce(r) \in AltsIn(G) /\ Reduce(r) \in EntriesIn(G)
    BY EntriesShape
  <1>2. \A a \in AltsIn(G) : Conflict(a, Reduce(r)) \in EntriesIn(G)
    BY <1>1, EntriesShape
  <1>3. CASE e.kind = "none"
    BY <1>1, <1>3 DEF SetReduce
  <1>4. CASE e.kind = "shift"
    <2>1. e \in AltsIn(G)
      BY <1>4, KeptShape
    <2>2. Verdict(v, e, r)
      BY <1>4, ShiftReduceIs DEF SetReduce
    <2> QED
      BY <1>1, <1>2, <2>1, <2>2 DEF Verdict
  <1>5. CASE e.kind = "reduce"
    <2>1. e \in AltsIn(G)
      BY <1>5, KeptShape
    <2>2. PICK h \in 1..Len(G) : h = e.rule /\ e = Reduce(h)
      BY <1>5, <2>1, AltShape
    <2>3. v = ReduceReduce(h, r)
      BY <1>5, <2>2 DEF SetReduce
    <2>4. Verdict(v, e, r)
      BY <2>2, <2>3, ReduceReduceIs
    <2> QED
      BY <1>1, <1>2, <2>1, <2>4 DEF Verdict
  <1>6. CASE e.kind \notin {"none", "shift", "reduce"}
    BY <1>6 DEF SetReduce
  <1> QED
    BY <1>3, <1>4, <1>5, <1>6

(* A report on another cell, or one more on this, changes nothing for it.   *)
LEMMA ReportsGrow ==
  ASSUME NEW G, NEW e, NEW A, NEW sp, NEW rep, NEW more, rep => more, CellOK(G, e, A, rep, sp)
  PROVE  CellOK(G, e, A, more, sp)
  BY DEF CellOK

LEMMA ItemsOfState ==
  ASSUME LR0Inv, NEW s \in 1..Len(states)
  PROVE  /\ Len(states[s]) \in Nat
         /\ \A k \in 1..Len(states[s]) : states[s][k] \in ItemsIn(gram)
                                          /\ states[s][k].rule \in 1..Len(gram)
  <1>1. states \in Seq(Seq(ItemsIn(gram)))
    BY DEF LR0Inv, LR0TypeOK
  <1>2. states[s] \in Seq(ItemsIn(gram))
    BY <1>1
  <1> QED
    BY <1>2 DEF ItemsIn

LEMMA PrecIs ==
  ASSUME LR0Inv, NEW s \in 1..Len(states), NEW t
  PROVE  ShiftPrec(s, t) \in Precs
  <1>1. PICK G \in Grammars : G = gram
    BY DEF LR0Inv, LR0TypeOK
  <1> DEFINE at == {k \in 1..Len(states[s]) : ~Complete(states[s][k]) /\ NextSym(states[s][k]) = t}
  <1>2. PICK N \in Nat : N = Len(states[s])
    BY ItemsOfState
  <1>3. at \subseteq Nat
    BY <1>2
  <1>4. CASE at = {}
    BY <1>4, PrecShape, <1>1 DEF ShiftPrec
  <1>5. CASE at # {}
    <2>1. \E k \in at : \A j \in at : k <= j
      <3>1. PICK A \in SUBSET Nat : A = at
        BY <1>3
      <3>2. PICK n \in A : \A m \in Nat : m < n => m \notin A
        BY <1>5, <3>1, LeastNumber
      <3>3. \A j \in A : n <= j
        BY <3>2
      <3> QED
        BY <3>1, <3>3
    <2>2. PICK k \in at : k = CHOOSE m \in at : \A j \in at : m <= j
      BY <2>1
    <2>3. ShiftPrec(s, t) = gram[states[s][k].rule].prec
      BY <1>5, <2>2 DEF ShiftPrec
    <2>4. states[s][k].rule \in 1..Len(gram)
      BY <2>2, ItemsOfState
    <2> QED
      BY <1>1, <2>3, <2>4, PrecShape
  <1> QED
    BY <1>4, <1>5

LEMMA MovesAreOne ==
  ASSUME LR0Inv, NEW s \in 1..Len(states), NEW t,
         NEW e, e = IF ~HasTrans(s, t) THEN NoEntry
                    ELSE IF t = EOF THEN Accept ELSE Shift(Target(s, t))
  PROVE  /\ e \in EntriesIn(gram) /\ KeptOf(e) = Moves(s, t) /\ Moves(s, t) \subseteq AltsIn(gram)
         /\ e.kind \in {"none", "accept", "shift"}
         /\ \A a, b \in Moves(s, t) : a = b
  <1>1. PICK V : V = trans /\ V \subseteq [from : 1..Len(states), sym : Symbols, to : 1..Len(states)]
                 /\ \A d, f \in V : d.from = f.from /\ d.sym = f.sym => d = f
    BY DEF LR0Inv, LR0TypeOK, TransAreMoves
  <1>2. CASE ~ HasTrans(s, t)
    <2>1. e = NoEntry /\ Moves(s, t) = {}
      BY <1>2 DEF HasTrans, Moves
    <2> QED
      BY <2>1, EntriesShape, EntryShape, KeptShape
  <1>3. CASE HasTrans(s, t)
    <2>1. \E d \in V : d.from = s /\ d.sym = t
      BY <1>1, <1>3 DEF HasTrans
    <2>2. PICK d \in V : d.from = s /\ d.sym = t /\ d.to = Target(s, t)
      BY <1>1, <2>1 DEF Target
    <2>3. d.to \in Nat
      BY <1>1, <2>2
    <2>4. PICK a : a = IF t = EOF THEN Accept ELSE Shift(d.to)
      OBVIOUS
    <2>5. {f \in V : f.from = s /\ f.sym = t} = {d}
      BY <1>1, <2>2
    <2>6. Moves(s, t) = {a}
      BY <1>1, <2>4, <2>5 DEF Moves
    <2>7. e = a
      BY <1>3, <2>2, <2>4
    <2>8. a \in AltsIn(gram) /\ a.kind \in {"accept", "shift"}
      BY <2>3, <2>4, EntriesShape, EntryShape
    <2>9. a \in EntriesIn(gram) /\ KeptOf(a) = {a}
      BY <2>8, EntriesShape, KeptShape
    <2> QED
      BY <2>6, <2>7, <2>8, <2>9
  <1> QED
    BY <1>2, <1>3

LEMMA AltsTyped ==
  ASSUME LR0Inv, NEW s \in 1..Len(states), NEW n \in Nat, n <= Len(states[s]), NEW t
  PROVE  AltUpto(s, n, t) \in SUBSET AltsIn(gram)
  <1>1. Moves(s, t) \subseteq AltsIn(gram)
    BY MovesAreOne
  <1>2. \A k \in 1..n : Reduce(states[s][k].rule) \in AltsIn(gram)
    <2>1. \A k \in 1..n : k \in 1..Len(states[s])
      BY ItemsOfState
    <2> QED
      BY <2>1, ItemsOfState, EntriesShape
  <1> QED
    BY <1>1, <1>2 DEF AltUpto

(* One more item offers its reduce, or nothing. *)
LEMMA AltMore ==
  ASSUME NEW s, NEW k \in Nat \ {0}, NEW t
  PROVE  AltUpto(s, k, t) = IF Offers(s, k, t)
                            THEN AltUpto(s, k - 1, t) \cup {Reduce(states[s][k].rule)}
                            ELSE AltUpto(s, k - 1, t)
  <1>1. 1..k = (1..(k - 1)) \cup {k}
    OBVIOUS
  <1>2. PICK f : f = [j \in 1..k |-> Reduce(states[s][j].rule)]
    OBVIOUS
  <1>3. AltUpto(s, k, t) = Moves(s, t) \cup {f[j] : j \in {j \in 1..k : Offers(s, j, t)}}
    BY <1>2 DEF AltUpto
  <1>4. AltUpto(s, k - 1, t) = Moves(s, t) \cup {f[j] : j \in {j \in 1..(k - 1) : Offers(s, j, t)}}
    BY <1>1, <1>2 DEF AltUpto
  <1>5. f[k] = Reduce(states[s][k].rule)
    BY <1>2
  <1> QED
    BY <1>1, <1>3, <1>4, <1>5

(* What a cell is measured by does not change while the rows are filled.    *)
TablesStay == UNCHANGED <<gram, states, trans, options, follow, la>>

LEMMA MeasureStays ==
  ASSUME TablesStay
  PROVE  /\ \A s, n, t : AltUpto(s, n, t)' = AltUpto(s, n, t)
         /\ \A s, k, t : Offers(s, k, t)' = Offers(s, k, t)
         /\ \A s, t : ShiftPrec(s, t)' = ShiftPrec(s, t)
  <1>1. ASSUME NEW s, NEW n, NEW t PROVE AltUpto(s, n, t)' = AltUpto(s, n, t)
    BY DEF TablesStay, AltUpto, Moves, Offers, Reduces, ReduceOn, Complete
  <1>2. ASSUME NEW s, NEW k, NEW t PROVE Offers(s, k, t)' = Offers(s, k, t)
    BY DEF TablesStay, Offers, Reduces, ReduceOn, Complete
  <1>3. ASSUME NEW s, NEW t PROVE ShiftPrec(s, t)' = ShiftPrec(s, t)
    BY DEF TablesStay, ShiftPrec, Complete, NextSym
  <1> QED
    BY <1>1, <1>2, <1>3

LEMMA PlaceShiftsStep ==
  ASSUME LR0Inv, TableInv, PlaceShifts
  PROVE  TableInv'
  <1>1. /\ phase = "fill" /\ phase' = phase /\ scanState <= Len(states)
        /\ FillingOK /\ TablesStay /\ conflicts' = conflicts
        /\ scanState' = scanState /\ scanItem' = scanItem
    BY DEF PlaceShifts, Filling, TableInv, TablesStay, lookaheadsVars, lookaheadVars,
           automatonVars, firstVars, lr0Vars
  <1>2. Len(states) \in Nat /\ Len(states') = Len(states)
    BY <1>1 DEF LR0Inv, LR0TypeOK, TablesStay
  <1>3. PICK n \in Nat : n = Len(action) /\ scanState = n + 1 /\ scanItem = 1 /\ n + 1 <= Len(states)
    BY <1>1, <1>2 DEF FillingOK, PlaceShifts
  <1>4. PICK row : row = [t \in TermsEOF |->
                     IF ~HasTrans(scanState, t) THEN NoEntry
                     ELSE IF t = EOF THEN Accept ELSE Shift(Target(scanState, t))]
    OBVIOUS
  <1>5. \A t \in TermsEOF : /\ row[t] \in EntriesIn(gram)
                             /\ KeptOf(row[t]) = Moves(n + 1, t)
                             /\ row[t].kind \in {"none", "accept", "shift"}
                             /\ \A a, b \in Moves(n + 1, t) : a = b
    <2> SUFFICES ASSUME NEW t \in TermsEOF
                 PROVE  /\ row[t] \in EntriesIn(gram)
                        /\ KeptOf(row[t]) = Moves(n + 1, t)
                        /\ row[t].kind \in {"none", "accept", "shift"}
                        /\ \A a, b \in Moves(n + 1, t) : a = b
      OBVIOUS
    <2>1. row[t] = IF ~HasTrans(n + 1, t) THEN NoEntry
                   ELSE IF t = EOF THEN Accept ELSE Shift(Target(n + 1, t))
      BY <1>3, <1>4
    <2>2. n + 1 \in 1..Len(states)
      BY <1>2, <1>3
    <2> QED
      BY <2>1, <2>2, MovesAreOne
  <1>6. PICK R : R = [TermsEOF -> EntriesIn(gram)]
    OBVIOUS
  <1>7. row \in R
    BY <1>4, <1>5, <1>6
  <1>8. action \in Seq(R)
    BY <1>1, <1>6 DEF FillingOK
  <1>9. action' = Append(action, row)
    BY <1>4 DEF PlaceShifts
  <1>10. /\ action' \in Seq(R) /\ Len(action') = n + 1 /\ action'[n + 1] = row
         /\ \A s \in 1..n : action'[s] = action[s]
    BY <1>3, <1>7, <1>8, <1>9
  <1>11. \A s, m, t : /\ AltUpto(s, m, t)' = AltUpto(s, m, t)
                       /\ ShiftPrec(s, t)' = ShiftPrec(s, t)
                       /\ Reported(s, t)' = Reported(s, t)
    BY <1>1, MeasureStays DEF Reported
  <1>12. gram' = gram
    BY <1>1 DEF TablesStay
  <1>13. ASSUME NEW s \in 1..n PROVE RowOK(s, Seen(s))'
    <2>1. RowOK(s, Seen(s))
      BY <1>1, <1>3, <1>13 DEF FillingOK
    <2>2. Seen(s)' = Seen(s)
      BY <1>1 DEF Seen, TablesStay
    <2> QED
      BY <1>10, <1>11, <1>12, <2>1, <2>2 DEF RowOK
  <1>14. RowOK(n + 1, Seen(n + 1))'
    <2>1. Seen(n + 1)' = 0
      BY <1>1, <1>3 DEF Seen
    <2> SUFFICES ASSUME NEW t \in TermsEOF
                 PROVE  CellOK(gram, row[t], AltUpto(n + 1, 0, t), Reported(n + 1, t), ShiftPrec(n + 1, t))
      BY <1>10, <1>11, <1>12, <2>1 DEF RowOK
    <2>2. AltUpto(n + 1, 0, t) = Moves(n + 1, t)
      BY DEF AltUpto
    <2>3. RulesIn(Moves(n + 1, t)) = {}
      <3>1. \A a \in Moves(n + 1, t) : a.kind # "reduce"
        BY <1>5, KeptShape
      <3> QED
        BY <3>1 DEF RulesIn
    <2>4. PICK A : A = Moves(n + 1, t) /\ RulesIn(A) = {} /\ KeptOf(row[t]) = A
                   /\ \A a, b \in A : a = b
      BY <1>5, <2>3
    <2>5. Decidable(gram, A, ShiftPrec(n + 1, t)) => \A a \in A : a.kind = "shift"
      BY <2>4 DEF Decidable
    <2>6. row[t].kind # "conflict"
      BY <1>5
    <2>7. CellOK(gram, row[t], A, Reported(n + 1, t), ShiftPrec(n + 1, t))
      BY <2>4, <2>5, <2>6 DEF CellOK
    <2> QED
      BY <2>2, <2>4, <2>7
  <1>15. \A s \in 1..Len(action') : RowOK(s, Seen(s))'
    <2>1. \A s \in 1..(n + 1) : s \in 1..n \/ s = n + 1
      OBVIOUS
    <2> QED
      BY <1>10, <1>13, <1>14, <2>1
  <1>16. Len(states[n + 1]) \in Nat
    BY <1>2, <1>3, ItemsOfState
  <1>17. action' \in Seq([TermsEOF -> EntriesIn(gram')])
    BY <1>6, <1>10, <1>12
  <1>18. /\ scanState' \in 1..(Len(states') + 1) /\ scanItem' \in Nat \ {0}
         /\ Len(action') = scanState' /\ scanState' <= Len(states')
         /\ scanItem' <= Len(states[scanState]) + 1
    BY <1>1, <1>2, <1>3, <1>10, <1>16
  <1>19. states' = states
    BY <1>1 DEF TablesStay
  <1>20. FillingOK'
    BY <1>1, <1>15, <1>17, <1>18, <1>19 DEF FillingOK
  <1> QED
    BY <1>1, <1>20 DEF TableInv, Filled

LEMMA PlaceReducesStep ==
  ASSUME LR0Inv, TableInv, PlaceReduces
  PROVE  TableInv'
  <1>1. /\ phase = "fill" /\ phase' = phase /\ scanState <= Len(states)
        /\ FillingOK /\ TablesStay
        /\ scanState' = scanState /\ scanItem' = scanItem + 1
        /\ Len(action) = scanState /\ scanItem <= Len(states[scanState])
    BY DEF PlaceReduces, Filling, TableInv, TablesStay, automatonVars, firstVars, lr0Vars
  <1>2. Len(states) \in Nat /\ Len(states') = Len(states) /\ states' = states /\ gram' = gram
    BY <1>1 DEF LR0Inv, LR0TypeOK, TablesStay
  <1>3. PICK n \in 1..Len(states) : n = scanState /\ Len(action) = n
    BY <1>1, <1>2 DEF FillingOK
  <1>4. PICK k \in 1..Len(states[n]) : k = scanItem /\ k \in Nat \ {0} /\ k - 1 \in Nat
    BY <1>1, <1>3, ItemsOfState DEF FillingOK
  <1>5. PICK r \in 1..Len(gram) : r = states[n][k].rule
    BY ItemsOfState
  <1>6. PICK R : R = [TermsEOF -> EntriesIn(gram)]
    OBVIOUS
  <1>7. action \in Seq(R) /\ action[n] \in R
    BY <1>1, <1>3, <1>6 DEF FillingOK
  <1>8. PICK row \in R : row = action[n]
    BY <1>7
  <1> DEFINE verdict(t) == SetReduce(row[t], r, ShiftPrec(n, t))
             cell(t) == IF Offers(n, k, t) THEN verdict(t).entry ELSE row[t]
  <1>9. PICK on : on = IF Reduces(states[n][k]) THEN ReduceOn(n, states[n][k]) ELSE {}
    OBVIOUS
  <1>10. PICK set : set = [t \in on |-> SetReduce(row[t], r, ShiftPrec(n, t))]
    OBVIOUS
  <1>11. /\ action' = [action EXCEPT ![n] = [t \in TermsEOF |-> IF t \in on THEN set[t].entry ELSE row[t]]]
         /\ conflicts' = conflicts \cup
              {[state |-> n, term |-> t, kind |-> set[t].report] :
                 t \in {t \in on : set[t].report \notin Unreported}}
    BY <1>3, <1>4, <1>5, <1>8, <1>9, <1>10 DEF PlaceReduces
  <1>12. \A t : t \in on <=> Offers(n, k, t)
    BY <1>9 DEF Offers
  <1>13. \A t \in on : set[t] = verdict(t)
    BY <1>10
  <1> HIDE DEF verdict
  <1>14. PICK fresh : fresh = [t \in TermsEOF |-> cell(t)]
    OBVIOUS
  <1>15. action' = [action EXCEPT ![n] = fresh]
    <2>1. [t \in TermsEOF |-> IF t \in on THEN set[t].entry ELSE row[t]] = fresh
      BY <1>12, <1>13, <1>14
    <2> QED
      BY <1>11, <2>1
  <1> HIDE DEF cell
  <1>16. \A s, t : Reported(s, t) => Reported(s, t)'
    BY <1>11 DEF Reported
  <1>17. \A t : Offers(n, k, t) /\ verdict(t).report # "none" => Reported(n, t)'
    <2> SUFFICES ASSUME NEW t, Offers(n, k, t), verdict(t).report # "none"
                 PROVE  Reported(n, t)'
      OBVIOUS
    <2>1. t \in on /\ set[t].report \notin Unreported
      BY <1>12, <1>13 DEF Unreported
    <2>2. PICK c : c = [state |-> n, term |-> t, kind |-> set[t].report]
      OBVIOUS
    <2>3. c \in conflicts'
      BY <1>11, <2>1, <2>2
    <2>4. c.state = n /\ c.term = t
      BY <2>2
    <2> QED
      BY <2>3, <2>4 DEF Reported
  <1>18. ASSUME NEW t \in TermsEOF
         PROVE  /\ cell(t) \in EntriesIn(gram)
                /\ CellOK(gram, cell(t), AltUpto(n, k, t), Reported(n, t)', ShiftPrec(n, t))
    <2>1. CellOK(gram, row[t], AltUpto(n, k - 1, t), Reported(n, t), ShiftPrec(n, t))
      <3>1. RowOK(n, Seen(n))
        BY <1>1, <1>3 DEF FillingOK
      <3>2. Seen(n) = k - 1
        BY <1>3, <1>4 DEF Seen
      <3> QED
        BY <1>8, <3>1, <3>2 DEF RowOK
    <2>2. row[t] \in EntriesIn(gram) /\ row[t].kind \in FreeKinds
      BY <1>6, EntriesShape
    <2>3. AltUpto(n, k - 1, t) \in SUBSET AltsIn(gram)
      BY <1>4, AltsTyped, ItemsOfState
    <2>4. CASE ~ Offers(n, k, t)
      <3>1. cell(t) = row[t] /\ AltUpto(n, k, t) = AltUpto(n, k - 1, t)
        BY <1>4, <2>4, AltMore DEF cell
      <3> QED
        BY <1>16, <2>1, <2>2, <3>1, ReportsGrow
    <2>5. CASE Offers(n, k, t)
      <3>1. PICK G \in Grammars : G = gram
        BY DEF LR0Inv, LR0TypeOK
      <3>2. PICK sp \in Precs : sp = ShiftPrec(n, t)
        BY PrecIs
      <3>3. PICK A \in SUBSET AltsIn(G) : A = AltUpto(n, k - 1, t)
        BY <2>3, <3>1
      <3>4. PICK e \in EntriesIn(G) : e = row[t] /\ e.kind \in FreeKinds
        BY <2>2, <3>1
      <3>5. PICK rep \in BOOLEAN : rep = Reported(n, t)
        BY DEF Reported
      <3>6. PICK v : v = SetReduce(e, r, sp) /\ v = verdict(t)
        BY <3>2, <3>4 DEF verdict
      <3>7. cell(t) = v.entry /\ AltUpto(n, k, t) = A \cup {Reduce(r)}
        BY <1>4, <1>5, <2>5, <3>3, <3>6, AltMore DEF cell
      <3>8. CellOK(G, e, A, rep, sp)
        BY <2>1, <3>1, <3>2, <3>3, <3>4, <3>5
      <3>9. r \in 1..Len(G)
        BY <3>1
      <3>10. CellOK(G, v.entry, A \cup {Reduce(r)}, rep \/ v.report # "none", sp)
        BY <3>1, <3>4, <3>6, <3>8, <3>9, SetReduceKeeps
      <3>11. rep \/ v.report # "none" => Reported(n, t)'
        BY <1>16, <1>17, <2>5, <3>5, <3>6
      <3>12. CellOK(G, v.entry, A \cup {Reduce(r)}, Reported(n, t)', sp)
        BY <3>10, <3>11, ReportsGrow
      <3>13. KeptOf(e) \subseteq AltsIn(G)
        BY <3>8 DEF CellOK
      <3>14. v.entry \in EntriesIn(G)
        BY <3>1, <3>6, <3>9, <3>13, SetReduceStays
      <3> QED
        BY <3>1, <3>2, <3>7, <3>12, <3>14
    <2> QED
      BY <2>4, <2>5
  <1>19. fresh \in R
    BY <1>6, <1>14, <1>18
  <1>20. /\ action' \in Seq(R) /\ Len(action') = n /\ action'[n] = fresh
         /\ \A s \in 1..Len(states) : s # n => action'[s] = action[s]
    BY <1>3, <1>7, <1>15, <1>19
  <1>21. \A s, m, t : AltUpto(s, m, t)' = AltUpto(s, m, t) /\ ShiftPrec(s, t)' = ShiftPrec(s, t)
    BY <1>1, MeasureStays
  <1>22. ASSUME NEW s \in 1..n PROVE RowOK(s, Seen(s))'
    <2>1. CASE s = n
      <3>1. Seen(n)' = k
        BY <1>1, <1>3, <1>4 DEF Seen
      <3>2. \A t \in TermsEOF : fresh[t] = cell(t)
        BY <1>14
      <3> QED
        BY <1>2, <1>18, <1>20, <1>21, <2>1, <3>1, <3>2 DEF RowOK
    <2>2. CASE s # n
      <3>1. s < n /\ s \in 1..Len(states)
        BY <1>2, <2>2
      <3>2. RowOK(s, Seen(s))
        BY <1>1, <1>3 DEF FillingOK
      <3>3. Seen(s)' = Seen(s)
        BY <1>1, <1>2, <1>3, <3>1 DEF Seen
      <3>4. ASSUME NEW t \in TermsEOF
            PROVE  CellOK(gram, action'[s][t], AltUpto(s, Seen(s), t), Reported(s, t)', ShiftPrec(s, t))
        <4>1. CellOK(gram, action[s][t], AltUpto(s, Seen(s), t), Reported(s, t), ShiftPrec(s, t))
          BY <3>2 DEF RowOK
        <4>2. action'[s] = action[s]
          BY <1>20, <2>2, <3>1
        <4> QED
          BY <1>16, <4>1, <4>2, ReportsGrow
      <3> QED
        BY <1>2, <1>21, <3>3, <3>4 DEF RowOK
    <2> QED
      BY <2>1, <2>2
  <1>23. FillingOK'
    <2>1. action' \in Seq([TermsEOF -> EntriesIn(gram')])
      BY <1>2, <1>6, <1>20
    <2>2. /\ scanState' \in 1..(Len(states') + 1) /\ scanItem' \in Nat \ {0}
          /\ Len(action') = scanState' /\ scanState' <= Len(states')
          /\ scanItem' <= Len(states'[scanState']) + 1
      <3>1. Len(states[n]) \in Nat
        BY ItemsOfState
      <3> QED
        BY <1>1, <1>2, <1>3, <1>4, <1>20, <3>1
    <2>3. \A s \in 1..Len(action') : RowOK(s, Seen(s))'
      BY <1>20, <1>22
    <2> QED
      BY <2>1, <2>2, <2>3 DEF FillingOK
  <1> QED
    BY <1>1, <1>23 DEF TableInv, Filled

LEMMA FillNextStateStep ==
  ASSUME LR0Inv, TableInv, FillNextState
  PROVE  TableInv'
  <1>1. /\ phase = "fill" /\ phase' = phase /\ scanState <= Len(states)
        /\ FillingOK /\ TablesStay /\ action' = action /\ conflicts' = conflicts
        /\ scanState' = scanState + 1 /\ scanItem' = 1
        /\ Len(action) = scanState /\ scanItem > Len(states[scanState])
    BY DEF FillNextState, Filling, TableInv, TablesStay, automatonVars, firstVars, lr0Vars, tableVars
  <1>2. Len(states) \in Nat /\ states' = states /\ gram' = gram
    BY <1>1 DEF LR0Inv, LR0TypeOK, TablesStay
  <1>3. PICK n \in 1..Len(states) : n = scanState
    BY <1>1, <1>2 DEF FillingOK
  <1>4. Len(states[n]) \in Nat /\ scanItem = Len(states[n]) + 1
    BY <1>1, <1>3, ItemsOfState DEF FillingOK
  <1>5. \A s \in 1..n : Seen(s)' = Seen(s)
    BY <1>1, <1>2, <1>3, <1>4 DEF Seen
  <1>6. \A s, m, t : /\ AltUpto(s, m, t)' = AltUpto(s, m, t)
                      /\ ShiftPrec(s, t)' = ShiftPrec(s, t)
                      /\ Reported(s, t)' = Reported(s, t)
    BY <1>1, MeasureStays DEF Reported
  <1>7. \A s \in 1..Len(action) : RowOK(s, Seen(s))'
    BY <1>1, <1>2, <1>3, <1>5, <1>6 DEF RowOK, FillingOK
  <1>8. /\ scanState' \in 1..(Len(states') + 1) /\ scanItem' \in Nat \ {0}
        /\ Len(action') = scanState' - 1 /\ scanItem' = 1
    BY <1>1, <1>2, <1>3
  <1>9. FillingOK'
    BY <1>1, <1>2, <1>7, <1>8 DEF FillingOK
  <1> QED
    BY <1>1, <1>9 DEF TableInv, Filled

(* fillAlwaysEntries only fills cells that do nothing, with entries that do *)
(* nothing but lex.                                                         *)
LEMMA FillDoneStep ==
  ASSUME LR0Inv, TableInv, FillDone
  PROVE  TableInv'
  <1>1. /\ phase = "fill" /\ phase' \in {"optimize", "ready"} /\ scanState > Len(states)
        /\ FillingOK /\ TablesStay /\ conflicts' = conflicts
        /\ action' = [s \in 1..Len(action) |-> WithAlways(action[s])]
    BY DEF FillDone, TableInv, TablesStay, lr0Vars
  <1>2. Len(states) \in Nat /\ states' = states /\ gram' = gram
    BY <1>1 DEF LR0Inv, LR0TypeOK, TablesStay
  <1>3. scanState = Len(states) + 1 /\ Len(action) = Len(states)
    BY <1>1, <1>2 DEF FillingOK
  <1>4. \A s, m, t : /\ AltUpto(s, m, t)' = AltUpto(s, m, t)
                      /\ ShiftPrec(s, t)' = ShiftPrec(s, t)
                      /\ Reported(s, t)' = Reported(s, t)
    BY <1>1, MeasureStays DEF Reported
  <1>5. ASSUME NEW s \in 1..Len(states) PROVE RowOK(s, Len(states[s]))'
    <2>1. RowOK(s, Len(states[s]))
      <3>1. s < scanState /\ s \in 1..Len(action)
        BY <1>2, <1>3
      <3>2. RowOK(s, Seen(s)) /\ Seen(s) = Len(states[s])
        BY <1>1, <3>1 DEF FillingOK, Seen
      <3> QED
        BY <3>2
    <2>2. action'[s] = WithAlways(action[s])
      BY <1>1, <1>3
    <2>3. ASSUME NEW t \in TermsEOF
          PROVE  /\ KeptOf(action'[s][t]) = KeptOf(action[s][t])
                 /\ action'[s][t].kind = "conflict" => action[s][t].kind = "conflict"
      <3>1. PICK e : e = action[s][t]
        OBVIOUS
      <3>2. PICK f : f = IF e # NoEntry THEN e
                         ELSE IF t \in AlwaysTerminals THEN [kind |-> "error"]
                         ELSE IF t \in AlwaysSkip THEN [kind |-> "ignore"] ELSE NoEntry
        OBVIOUS
      <3>3. action'[s][t] = f
        BY <2>2, <3>1, <3>2 DEF WithAlways
      <3>4. CASE e # NoEntry
        BY <3>1, <3>2, <3>3, <3>4
      <3>5. CASE e = NoEntry
        <4>1. e.kind = "none"
          BY <3>5, EntryShape
        <4>2. f.kind \in {"none", "error", "ignore"}
          BY <3>2, <3>5, <4>1
        <4>3. KeptOf(e) = {} /\ KeptOf(f) = {}
          BY <4>1, <4>2, KeptShape
        <4>4. f.kind # "conflict"
          BY <4>2
        <4> QED
          BY <3>1, <3>3, <4>3, <4>4
      <3> QED
        BY <3>4, <3>5
    <2>4. ASSUME NEW t \in TermsEOF
          PROVE  CellOK(gram, action'[s][t], AltUpto(s, Len(states[s]), t), Reported(s, t), ShiftPrec(s, t))
      <3>1. CellOK(gram, action[s][t], AltUpto(s, Len(states[s]), t), Reported(s, t), ShiftPrec(s, t))
        BY <2>1 DEF RowOK
      <3> QED
        BY <2>3, <3>1 DEF CellOK
    <2> QED
      BY <1>2, <1>4, <2>4 DEF RowOK
  <1> QED
    BY <1>1, <1>2, <1>5 DEF TableInv, Filled

(* The steps that come before the rows are filled, or after.                *)
LEMMA OtherStagesStep ==
  ASSUME LR0Inv, TableInv, [UnitGotosNext]_actionTableVars, ~ TableNext
  PROVE  TableInv'
  <1>1. phase \in Phases
    BY DEF LR0Inv, LR0TypeOK
  <1>2. CASE AutomatonNext /\ UNCHANGED <<lookaheadVars, tableVars>>
    <2>1. phase \in {"first", "lr0"} /\ phase' \in {"first", "lr0", "follow"}
      BY <1>2 DEF AutomatonNext, FirstNext, ScanRule, NextPass, FirstDone, LR0Next, CloseItem,
                  AddState, MoveOver, SkipMoved, ExpandNext, LR0Done, Expanding, firstVars
    <2>2. UNCHANGED <<action, scanState, scanItem>>
      BY <1>2 DEF lookaheadVars, tableVars
    <2>3. scanState = 1 /\ scanItem = 1 /\ action = <<>>
      BY <2>1 DEF TableInv
    <2>4. phase' # "fill" /\ ~ Filled'
      BY <2>1 DEF Filled
    <2> QED
      BY <2>2, <2>3, <2>4 DEF TableInv
  <1>3. CASE LookaheadNext /\ UNCHANGED tableVars
    <2>1. CASE phase' # "fill"
      <3>1. /\ phase \in {"follow", "lookahead"} /\ phase' \in {"follow", "lookahead"}
            /\ phase' = "follow" => phase = "follow" /\ UNCHANGED <<scanState, scanItem>>
            /\ action' = action
        BY <1>3, <2>1 DEF LookaheadNext, ScanFollow, NextFollowPass, FollowDone, ScanItem,
             ScanNextState, NextLookaheadPass, LookaheadDone, firstVars, lookaheadVars, tableVars
      <3> QED
        BY <2>1, <3>1 DEF TableInv, Filled
    <2>2. CASE phase' = "fill"
      <3>1. FollowDone \/ LookaheadDone
        BY <1>3, <2>2 DEF LookaheadNext, ScanFollow, NextFollowPass, ScanItem,
             ScanNextState, NextLookaheadPass, firstVars
      <3>2. /\ action = <<>> /\ action' = <<>> /\ scanState' = 1 /\ scanItem' = 1
            /\ states' = states
        BY <1>3, <3>1 DEF FollowDone, LookaheadDone, TableInv, tableVars, lr0Vars
      <3>3. Len(states) \in Nat
        BY DEF LR0Inv, LR0TypeOK
      <3>4. <<>> \in Seq([TermsEOF -> EntriesIn(gram')]) /\ Len(<<>>) = 0
        BY NoneIsASequence
      <3>5. FillingOK'
        BY <3>2, <3>3, <3>4 DEF FillingOK
      <3> QED
        BY <2>2, <3>5 DEF TableInv, Filled
    <2> QED
      BY <2>1, <2>2
  <1>4. CASE OptimizeNext \/ UNCHANGED actionTableVars
    <2>1. CASE OptimizeNext
      <3>1. /\ phase = "optimize" /\ phase' \in {"optimize", "ready"}
            /\ TablesStay /\ action' = action /\ conflicts' = conflicts
        BY <2>1 DEF OptimizeNext, RedirectEntry, RedirectNextRow, NextRedirectPass, OptimizeDone,
             Optimizing, TablesStay, automatonVars, firstVars, lr0Vars, lookaheadVars, tableVars
      <3>2. \A s, m, t : /\ AltUpto(s, m, t)' = AltUpto(s, m, t)
                          /\ ShiftPrec(s, t)' = ShiftPrec(s, t)
                          /\ Reported(s, t)' = Reported(s, t)
        BY <3>1, MeasureStays DEF Reported
      <3>3. states' = states /\ gram' = gram
        BY <3>1 DEF TablesStay
      <3>4. \A s \in 1..Len(states) : RowOK(s, Len(states[s]))
        BY <3>1 DEF TableInv, Filled
      <3>5. \A s \in 1..Len(states) : RowOK(s, Len(states[s]))'
        BY <3>1, <3>2, <3>3, <3>4 DEF RowOK
      <3> QED
        BY <3>1, <3>3, <3>5 DEF TableInv
    <2>2. CASE UNCHANGED actionTableVars
      <3>1. /\ TablesStay /\ action' = action /\ conflicts' = conflicts /\ phase' = phase
            /\ UNCHANGED <<scanState, scanItem>>
        BY <2>2 DEF actionTableVars, lookaheadsVars, automatonVars, firstVars, lr0Vars,
             lookaheadVars, tableVars, TablesStay
      <3>2. \A s, m, t : /\ AltUpto(s, m, t)' = AltUpto(s, m, t)
                          /\ ShiftPrec(s, t)' = ShiftPrec(s, t)
                          /\ Reported(s, t)' = Reported(s, t)
        BY <3>1, MeasureStays DEF Reported
      <3>3. states' = states /\ gram' = gram
        BY <3>1 DEF TablesStay
      <3>4. \A s, n : RowOK(s, n)' <=> RowOK(s, n)
        BY <3>1, <3>2, <3>3 DEF RowOK
      <3>5. \A s : Seen(s)' = Seen(s)
        BY <3>1, <3>3 DEF Seen
      <3>6. FillingOK => FillingOK'
        BY <3>1, <3>3, <3>4, <3>5 DEF FillingOK
      <3>7. Filled' = Filled
        BY <3>1 DEF Filled
      <3> QED
        BY <3>1, <3>3, <3>4, <3>6, <3>7 DEF TableInv
    <2> QED
      BY <1>4, <2>1, <2>2
  <1> QED
    BY <1>2, <1>3, <1>4 DEF UnitGotosNext, ActionTableNext, LookaheadsNext

LEMMA TableStep ==
  ASSUME LR0Inv, TableInv, [UnitGotosNext]_actionTableVars
  PROVE  TableInv'
  BY PlaceShiftsStep, PlaceReducesStep, FillNextStateStep, FillDoneStep, OtherStagesStep
  DEF TableNext

LEMMA TableStart ==
  ASSUME ActionTableInit
  PROVE  TableInv
  <1>1. phase = "first" /\ action = <<>> /\ scanState = 1 /\ scanItem = 1
    BY DEF ActionTableInit, LookaheadsInit, AutomatonInit, FirstInit, LookaheadInit, TableInit
  <1> QED
    BY <1>1 DEF TableInv, Filled

LEMMA TableAlways == UnitGotosSpec => []TableInv
  <1>1. ActionTableInit => TableInv
    BY TableStart
  <1>2. LR0Inv /\ TableInv /\ [UnitGotosNext]_actionTableVars => TableInv'
    BY TableStep
  <1> QED
    BY <1>1, <1>2, LR0Always, PTL DEF UnitGotosSpec

(* All the items of a state together offer what the state calls for.        *)
LEMMA AltsAreAll ==
  ASSUME LR0Inv, NEW s \in 1..Len(states), NEW t
  PROVE  /\ AltUpto(s, Len(states[s]), t) = Alternatives(s, t)
         /\ KeptOf(action[s][t]) = Kept(s, t)
  <1>1. PICK m \in Nat : m = Len(states[s])
    BY ItemsOfState
  <1>2. ToSet(states[s]) = {states[s][k] : k \in 1..m}
    BY <1>1 DEF ToSet
  <1> DEFINE late == {Reduce(i.rule) : i \in {i \in ToSet(states[s]) : Reduces(i) /\ t \in ReduceOn(s, i)}}
             mine == {Reduce(states[s][k].rule) : k \in {k \in 1..m : Offers(s, k, t)}}
  <1>3. ASSUME NEW a \in late PROVE a \in mine
    <2>1. PICK i \in ToSet(states[s]) : Reduces(i) /\ t \in ReduceOn(s, i) /\ a = Reduce(i.rule)
      BY <1>3
    <2>2. PICK k \in 1..m : i = states[s][k]
      BY <1>2, <2>1
    <2>3. Offers(s, k, t) /\ a = Reduce(states[s][k].rule)
      BY <2>1, <2>2 DEF Offers
    <2> QED
      BY <2>3
  <1>4. ASSUME NEW a \in mine PROVE a \in late
    <2>1. PICK k \in 1..m : Offers(s, k, t) /\ a = Reduce(states[s][k].rule)
      BY <1>4
    <2>2. PICK i : i = states[s][k]
      OBVIOUS
    <2>3. i \in ToSet(states[s]) /\ Reduces(i) /\ t \in ReduceOn(s, i) /\ a = Reduce(i.rule)
      BY <1>2, <2>1, <2>2 DEF Offers
    <2> QED
      BY <2>3
  <1>5. late = mine
    BY <1>3, <1>4
  <1>6. Alternatives(s, t) = Moves(s, t) \cup late
    BY DEF Alternatives, Moves
  <1>7. AltUpto(s, m, t) = Moves(s, t) \cup mine
    BY DEF AltUpto
  <1> HIDE DEF late, mine
  <1>8. KeptOf(action[s][t]) = Kept(s, t)
    BY DEF KeptOf, Kept
  <1> QED
    BY <1>1, <1>5, <1>6, <1>7, <1>8

(* For every grammar, option and precedence: when the tables are filled a   *)
(* cell does only what its state's items call for, setAction has reported   *)
(* every loss but the accept's, and a strict precedence decides alone.      *)
THEOREM TablesDecideAsReported == UnitGotosSpec => []ConflictsAreDecided
  <1>1. ASSUME LR0Inv, TableInv PROVE ConflictsAreDecided
    <2> SUFFICES ASSUME Filled, NEW s \in 1..Len(states), NEW t \in TermsEOF
                 PROVE  LET all == Alternatives(s, t)
                            kept == Kept(s, t)
                            rules == RulesIn(all)
                            sp == ShiftPrec(s, t)
                        IN  /\ kept \subseteq all
                            /\ all # kept /\ Accept \notin all => Reported(s, t)
                            /\ all # {} => kept # {}
                            /\ rules # {} /\ Decidable(gram, all, sp) =>
                                 /\ (\A r \in rules : gram[r].prec.level < sp.level) =>
                                      \A a \in kept : a.kind = "shift"
                                 /\ (\A r \in rules : gram[r].prec.level > sp.level) =>
                                      \A a \in kept : a.kind = "reduce"
      BY DEF ConflictsAreDecided, LossesReported, StrictPrecedenceDecides, Cells, Reported,
             RulesIn, Decidable
    <2>1. CellOK(gram, action[s][t], AltUpto(s, Len(states[s]), t), Reported(s, t), ShiftPrec(s, t))
      BY <1>1 DEF TableInv, RowOK
    <2>2. PICK kept : kept = KeptOf(action[s][t]) /\ kept = Kept(s, t)
      BY <1>1, AltsAreAll
    <2>3. PICK all : all = AltUpto(s, Len(states[s]), t) /\ all = Alternatives(s, t)
      BY <1>1, AltsAreAll
    <2> QED
      BY <2>1, <2>2, <2>3 DEF CellOK
  <1> QED
    BY <1>1, LR0Always, TableAlways, PTL
-----------------------------------------------------------------------------
(* The gotos, redirected *)

LEMMA TargetIs ==
  ASSUME LR0Inv, NEW s, NEW A, HasTrans(s, A)
  PROVE  /\ s \in 1..Len(states) /\ Target(s, A) \in 1..Len(states)
         /\ ToSet(states[Target(s, A)]) = MoveIn(gram, ToSet(states[s]), A)
  <1>1. PICK e \in trans : e.from = s /\ e.sym = A /\ e.to = Target(s, A)
    BY DEF HasTrans, Target
  <1>2. e.from \in 1..Len(states) /\ e.to \in 1..Len(states)
    BY DEF LR0Inv, LR0TypeOK
  <1> QED
    BY <1>1, <1>2 DEF LR0Inv, TransAreMoves

(* A move's closure adds only items that nothing of has been seen.          *)
LEMMA ComesOver ==
  ASSUME NEW G, Len(G) \in Nat, NEW I, NEW sym, NEW i \in MoveIn(G, I, sym), i.dot # 0
  PROVE  \E x \in I : i = Advance(x) /\ NextSymIn(G, x) = sym
  <1>1. PICK K : K = KernelIn(G, I, sym)
    OBVIOUS
  <1>2. PICK D : D = K \cup {Item(r, 0) : r \in 1..Len(G)}
    OBVIOUS
  <1>3. ClosedIn(G, D)
    BY <1>2 DEF ClosedIn, IntoIn
  <1>4. i \in D
    BY <1>1, <1>2, <1>3, ClosureIsLeast DEF MoveIn
  <1>5. i \in K
    BY <1>2, <1>4 DEF Item
  <1> QED
    BY <1>1, <1>5 DEF KernelIn

(* A state bypassed on the way from s over D only renames D.                *)
LEMMA BypassRenames ==
  ASSUME LR0Inv, TableInv, Filled, NEW s, NEW D, HasTrans(s, D), NEW B,
         Forwards(Target(s, D), B)
  PROVE  OnlyRenames(Target(s, D), B, D)
  <1>1. PICK n \in 1..Len(states) : n = Target(s, D) /\ ToSet(states[n]) = MoveIn(gram, ToSet(states[s]), D)
    BY TargetIs
  <1>2. PICK r \in 1..Len(gram) : RulesOf(n) = {r} /\ Renames(r) /\ gram[r].lhs = B
    BY <1>1 DEF Forwards
  <1>3. Len(gram) \in Nat
    BY GrammarShape DEF LR0Inv, LR0TypeOK
  <1>4. ASSUME NEW t \in TermsEOF
        PROVE  /\ Kept(n, t) \subseteq {Reduce(r)}
               /\ action[n][t].kind \notin {"none", "ignore", "error"} => Kept(n, t) = {Reduce(r)}
               /\ \A a \in Kept(n, t) : a \in AltUpto(n, Len(states[n]), t)
    <2>1. PICK e : e = action[n][t]
      OBVIOUS
    <2>2. Kept(n, t) = KeptOf(e)
      BY <2>1 DEF Kept, KeptOf
    <2>3. KeptOf(e) \subseteq AltUpto(n, Len(states[n]), t)
      BY <2>1 DEF TableInv, RowOK, CellOK
    <2>4. CASE e.kind \in {"none", "ignore", "error"}
      BY <2>1, <2>2, <2>3, <2>4, KeptShape
    <2>5. CASE e.kind \notin {"none", "ignore", "error"}
      <3>1. (IF e.kind = "reduce" THEN e.rule ELSE 0) \in RulesOf(n)
        BY <2>1, <2>5 DEF RulesOf
      <3>2. e.kind = "reduce" /\ e.rule = r
        BY <1>2, <1>3, <3>1
      <3>3. KeptOf(e) = {e}
        BY <3>2, KeptShape
      <3>4. e \in AltsIn(gram)
        BY <2>3, <3>3, AltsTyped, ItemsOfState
      <3>5. e = Reduce(r)
        BY <3>2, <3>4, AltShape
      <3> QED
        BY <2>1, <2>2, <2>3, <3>3, <3>5
    <2> QED
      BY <2>4, <2>5
  <1>5. PICK t \in TermsEOF : Kept(n, t) = {Reduce(r)} /\ Reduce(r) \in AltUpto(n, Len(states[n]), t)
    <2>1. r \in RulesOf(n)
      BY <1>2
    <2>2. PICK t \in TermsEOF : action[n][t].kind \notin {"none", "ignore", "error"}
      BY <2>1 DEF RulesOf
    <2>3. Kept(n, t) = {Reduce(r)}
      BY <1>4, <2>2
    <2> QED
      BY <1>4, <2>3
  <1>6. PICK k \in 1..Len(states[n]) : states[n][k].rule = r /\ Complete(states[n][k])
    <2>1. Reduce(r) \notin Moves(n, t)
      BY EntryShape DEF Moves
    <2>2. PICK k \in 1..Len(states[n]) : Offers(n, k, t) /\ Reduce(r) = Reduce(states[n][k].rule)
      BY <1>5, <2>1 DEF AltUpto
    <2>3. states[n][k].rule = r
      BY <2>2, EntryShape
    <2> QED
      BY <2>2, <2>3 DEF Offers, Reduces
  <1>7. PICK i \in ItemsIn(gram) : i = states[n][k] /\ i \in ToSet(states[n])
    BY ItemsOfState DEF ToSet
  <1>8. i.rule = r /\ i.dot \in Nat /\ i.dot = 1
    <2>1. i.rule = r /\ i.dot >= Len(gram[r].rhs)
      BY <1>6, <1>7 DEF Complete
    <2>2. i.dot \in Nat /\ i.dot <= Len(gram[i.rule].rhs)
      BY <1>7 DEF ItemsIn, Items
    <2>3. Len(gram[r].rhs) = 1
      BY <1>2 DEF Renames
    <2> QED
      BY <2>1, <2>2, <2>3
  <1>9. PICK x \in ToSet(states[s]) : i = Advance(x) /\ NextSymIn(gram, x) = D
    BY <1>1, <1>3, <1>7, <1>8, ComesOver
  <1>10. x.rule = r /\ x.dot = 0
    <2>1. x \in ItemsIn(gram)
      <3>1. s \in 1..Len(states)
        BY TargetIs
      <3>2. PICK m \in 1..Len(states[s]) : x = states[s][m]
        BY <1>9 DEF ToSet
      <3> QED
        BY <3>1, <3>2, ItemsOfState
    <2>2. x.dot \in Nat
      BY <2>1 DEF ItemsIn, Items
    <2> QED
      BY <1>8, <1>9, <2>2 DEF Advance, Item
  <1>11. gram[r].rhs[1] = D
    BY <1>9, <1>10 DEF NextSymIn
  <1>12. gram[r].rhs = <<D>>
    <2>1. gram[r].rhs \in Seq(Symbols)
      BY GrammarShape DEF LR0Inv, LR0TypeOK
    <2> QED
      BY <1>2, <1>11, <2>1 DEF Renames
  <1> QED
    BY <1>1, <1>2, <1>4, <1>5, <1>12 DEF OnlyRenames, Renames

(* The states a goto may stand for, as the least set with the state the     *)
(* automaton goes to and closed under renaming.                             *)
Stands(s, A, C) ==
  /\ <<A, Target(s, A)>> \in C
  /\ \A p \in C : \A B \in Heads :
       HasTrans(s, B) /\ OnlyRenames(p[2], B, p[1]) => <<B, Target(s, B)>> \in C

Reaches(s, A, n) ==
  \A C : Stands(s, A, C) =>
    \E B \in Heads : <<B, n>> \in C /\ HasTrans(s, B) /\ n = Target(s, B)

(* A redirect goes on from where the redirected goto stands. *)
LEMMA RedirectReaches ==
  ASSUME LR0Inv, TableInv, Filled, NEW s, NEW A, NEW B \in Heads, NEW n, NEW to,
         Reaches(s, A, n), Forwards(n, B), HasTrans(s, B), Reaches(s, B, to)
  PROVE  Reaches(s, A, to)
  <1> SUFFICES ASSUME NEW C, Stands(s, A, C)
               PROVE  \E D \in Heads : <<D, to>> \in C /\ HasTrans(s, D) /\ to = Target(s, D)
    BY DEF Reaches
  <1>1. PICK D \in Heads : <<D, n>> \in C /\ HasTrans(s, D) /\ n = Target(s, D)
    BY DEF Reaches
  <1>2. OnlyRenames(n, B, D)
    BY <1>1, BypassRenames
  <1>3. <<B, Target(s, B)>> \in C
    <2>1. PICK p \in C : p = <<D, n>>
      BY <1>1
    <2>2. p[1] = D /\ p[2] = n
      BY <2>1
    <2> QED
      BY <1>2, <2>2 DEF Stands
  <1>4. Stands(s, B, C)
    BY <1>3 DEF Stands
  <1> QED
    BY <1>4 DEF Reaches

GotosIn == Seq([Heads -> Nat])

GotoInv ==
  /\ phase \in {"first", "lr0", "follow", "lookahead"} => goto = <<>>
  /\ phase = "fill" =>
       /\ goto \in GotosIn /\ Len(goto) = Len(action)
       /\ \A s \in 1..Len(goto), A \in Heads :
            goto[s][A] = IF HasTrans(s, A) THEN Target(s, A) ELSE 0
  /\ phase = "optimize" => scanState \in Nat \ {0} /\ scanItem \in Nat \ {0}
  /\ Filled =>
       /\ goto \in GotosIn /\ Len(goto) = Len(states)
       /\ \A s \in 1..Len(states), A \in Heads :
            IF HasTrans(s, A) THEN Reaches(s, A, goto[s][A]) ELSE goto[s][A] = 0

LEMMA ReachesStay ==
  ASSUME TablesStay, action' = action
  PROVE  \A s, A, n : Reaches(s, A, n)' <=> Reaches(s, A, n)
  <1>1. \A s, A : /\ HasTrans(s, A)' <=> HasTrans(s, A)
                  /\ Target(s, A)' = Target(s, A)
    BY DEF TablesStay, HasTrans, Target
  <1>2. \A s, A, B : OnlyRenames(s, A, B)' <=> OnlyRenames(s, A, B)
    BY DEF TablesStay, OnlyRenames, Kept
  <1>3. ASSUME NEW s, NEW A, NEW C PROVE Stands(s, A, C)' <=> Stands(s, A, C)
    BY <1>1, <1>2 DEF Stands
  <1> QED
    BY <1>1, <1>3 DEF Reaches

LEMMA GotosBefore ==
  ASSUME TableInv, GotoInv, phase \in {"first", "lr0", "follow", "lookahead"},
         phase' \in {"first", "lr0", "follow", "lookahead", "fill"},
         goto' = goto, action' = action
  PROVE  GotoInv'
  <1>1. goto' = <<>> /\ action' = <<>>
    BY DEF GotoInv, TableInv
  <1>2. goto' \in GotosIn /\ Len(goto') = 0 /\ Len(action') = 0
    BY <1>1 DEF GotosIn
  <1>3. 1..Len(goto') = {}
    BY <1>2
  <1>4. phase' \notin {"optimize", "ready"}
    OBVIOUS
  <1> QED
    BY <1>1, <1>2, <1>3, <1>4 DEF GotoInv, Filled

LEMMA GotosFilled ==
  ASSUME LR0Inv, TableInv, GotoInv, TableNext, TableInv'
  PROVE  GotoInv'
  <1>1. phase = "fill" /\ FillingOK /\ Len(states) \in Nat /\ Len(action) \in Nat
    <2>1. phase = "fill"
      BY DEF TableNext, PlaceShifts, PlaceReduces, FillNextState, FillDone, Filling
    <2>2. FillingOK
      BY <2>1 DEF TableInv
    <2>3. Len(states) \in Nat
      BY DEF LR0Inv, LR0TypeOK
    <2>4. Len(action) \in Nat
      <3>1. PICK R : R = [TermsEOF -> EntriesIn(gram)]
        OBVIOUS
      <3> QED
        BY <2>2, <3>1 DEF FillingOK
    <2> QED
      BY <2>1, <2>2, <2>3, <2>4
  <1>2. TablesStay
    BY DEF TableNext, PlaceShifts, PlaceReduces, FillNextState, FillDone, TablesStay,
           lookaheadsVars, lookaheadVars, automatonVars, firstVars, lr0Vars
  <1>3. \A s, A : /\ HasTrans(s, A)' <=> HasTrans(s, A)
                  /\ Target(s, A)' = Target(s, A)
    BY <1>2 DEF TablesStay, HasTrans, Target
  <1>4. /\ goto \in GotosIn /\ Len(goto) = Len(action)
        /\ \A s \in 1..Len(goto), A \in Heads :
             goto[s][A] = IF HasTrans(s, A) THEN Target(s, A) ELSE 0
    BY <1>1 DEF GotoInv
  <1>5. CASE PlaceShifts
    <2>1. PICK n \in Nat : n = Len(action) /\ scanState = n + 1
      BY <1>1, <1>5 DEF FillingOK, PlaceShifts
    <2>2. PICK row : row = [A \in Heads |-> IF HasTrans(n + 1, A) THEN Target(n + 1, A) ELSE 0]
      OBVIOUS
    <2>3. row \in [Heads -> Nat]
      <3>1. \A A \in Heads : HasTrans(n + 1, A) => Target(n + 1, A) \in Nat
        BY <1>1, TargetIs
      <3> QED
        BY <2>2, <3>1
    <2>4. goto' = Append(goto, row) /\ phase' = "fill"
      BY <1>1, <1>5, <2>1, <2>2 DEF PlaceShifts, lookaheadsVars, automatonVars, firstVars
    <2>5. /\ goto' \in GotosIn /\ Len(goto') = n + 1 /\ goto'[n + 1] = row
          /\ \A s \in 1..n : goto'[s] = goto[s]
      BY <1>4, <2>1, <2>3, <2>4 DEF GotosIn
    <2>6. Len(action') = n + 1
      BY <1>1, <1>5, <2>1 DEF PlaceShifts, FillingOK
    <2>7. ASSUME NEW s \in 1..(n + 1), NEW A \in Heads
          PROVE  goto'[s][A] = IF HasTrans(s, A) THEN Target(s, A) ELSE 0
      <3>1. s \in 1..n \/ s = n + 1
        OBVIOUS
      <3> QED
        BY <1>4, <2>1, <2>2, <2>5, <3>1
    <2> QED
      BY <1>3, <2>4, <2>5, <2>6, <2>7 DEF GotoInv, Filled
  <1>6. CASE PlaceReduces \/ FillNextState
    <2>1. goto' = goto /\ phase' = "fill"
      BY <1>1, <1>6 DEF PlaceReduces, FillNextState, automatonVars, firstVars, tableVars
    <2>2. Len(action') = Len(action)
      <3>1. CASE PlaceReduces
        <4>1. /\ Len(action) = scanState /\ scanState' = scanState /\ scanItem' = scanItem + 1
              /\ scanItem \in Nat \ {0}
          BY <1>1, <3>1 DEF PlaceReduces, FillingOK
        <4>2. FillingOK'
          BY <2>1 DEF TableInv
        <4> QED
          BY <4>1, <4>2 DEF FillingOK
      <3>2. CASE FillNextState
        BY <3>2 DEF FillNextState, tableVars
      <3> QED
        BY <1>6, <3>1, <3>2
    <2> QED
      BY <1>3, <1>4, <2>1, <2>2 DEF GotoInv, Filled
  <1>7. CASE FillDone
    <2>1. /\ goto' = goto /\ phase' \in {"optimize", "ready"} /\ scanState' = 1 /\ scanItem' = 1
          /\ scanState > Len(states)
      BY <1>7 DEF FillDone
    <2>2. Len(goto') = Len(states') /\ Len(goto) = Len(states)
      BY <1>1, <1>2, <1>4, <2>1 DEF FillingOK, TablesStay
    <2>3. ASSUME NEW s \in 1..Len(states), NEW A \in Heads
          PROVE  (IF HasTrans(s, A) THEN Reaches(s, A, goto[s][A]) ELSE goto[s][A] = 0)'
      <3>1. PICK n : n = goto[s][A] /\ n = goto'[s][A]
        BY <2>1
      <3>2. n = IF HasTrans(s, A)' THEN Target(s, A)' ELSE 0
        BY <1>3, <1>4, <2>2, <3>1
      <3>3. HasTrans(s, A)' /\ n = Target(s, A)' => Reaches(s, A, n)'
        BY DEF Reaches, Stands
      <3>4. Reaches(s, A, goto[s][A])' <=> Reaches(s, A, n)'
        BY <3>1 DEF Reaches
      <3> QED
        BY <3>1, <3>2, <3>3, <3>4
    <2>4. phase' # "fill" /\ phase' \notin {"first", "lr0", "follow", "lookahead"}
      BY <2>1
    <2>5. states' = states
      BY <1>2 DEF TablesStay
    <2>6. goto' \in GotosIn
      BY <1>4, <2>1
    <2>7. scanState' \in Nat \ {0} /\ scanItem' \in Nat \ {0}
      BY <2>1
    <2>8. \A s \in 1..Len(states'), A \in Heads :
            (IF HasTrans(s, A) THEN Reaches(s, A, goto[s][A]) ELSE goto[s][A] = 0)'
      BY <2>3, <2>5
    <2> QED
      BY <2>2, <2>4, <2>6, <2>7, <2>8 DEF GotoInv
  <1> QED
    BY <1>5, <1>6, <1>7 DEF TableNext

LEMMA GotosRedirected ==
  ASSUME LR0Inv, TableInv, GotoInv, OptimizeNext \/ UNCHANGED actionTableVars
  PROVE  GotoInv'
  <1>1. TablesStay /\ action' = action
    BY DEF OptimizeNext, RedirectEntry, RedirectNextRow, NextRedirectPass, OptimizeDone, Optimizing,
           TablesStay, automatonVars, firstVars, lr0Vars, lookaheadVars, tableVars,
           actionTableVars, lookaheadsVars
  <1>2. \A s, A, n : Reaches(s, A, n)' <=> Reaches(s, A, n)
    BY <1>1, ReachesStay
  <1>4. \A s, A : HasTrans(s, A)' <=> HasTrans(s, A)
    BY <1>1 DEF TablesStay, HasTrans
  <1>5. states' = states
    BY <1>1 DEF TablesStay
  <1>6. CASE RedirectEntry /\ goto' # goto
    <2>1. /\ phase = "optimize" /\ phase' = "optimize" /\ Filled
          /\ scanState <= Len(states) /\ scanItem <= Len(states[scanState])
          /\ scanState' = scanState /\ scanItem' = scanItem + 1
      BY <1>6 DEF RedirectEntry, Optimizing, Filled
    <2>2. Len(states) \in Nat
      BY DEF LR0Inv, LR0TypeOK
    <2>3. PICK s \in 1..Len(states) : s = scanState
      BY <2>1, <2>2 DEF GotoInv
    <2>4. PICK k \in 1..Len(states[s]) : k = scanItem
      BY <2>1, <2>3, ItemsOfState DEF GotoInv
    <2>5. PICK A : A = NextSym(states[s][k])
      OBVIOUS
    <2>6. PICK to : /\ KeyAt(s, k) /\ to = Redirect(s, A) /\ to # 0
                    /\ goto' = [goto EXCEPT ![s][A] = to]
      BY <1>6, <2>3, <2>4, <2>5 DEF RedirectEntry
    <2>7. A \in Heads /\ ~Complete(states[s][k])
      BY <2>5, <2>6 DEF KeyAt
    <2>8. HasTrans(s, A)
      <3>1. A \in ExpectedIn(gram, ToSet(states[s]))
        <4>1. states[s][k] \in ToSet(states[s])
          BY <2>4, ItemsOfState DEF ToSet
        <4>2. ~CompleteIn(gram, states[s][k]) /\ NextSymIn(gram, states[s][k]) = A
          BY <2>5, <2>7, InGram
        <4> QED
          BY <4>1, <4>2 DEF ExpectedIn
      <3>2. s < stateIx
        BY <2>1, <2>2 DEF LR0Inv, AutomatonDone
      <3> QED
        BY <3>1, <3>2 DEF LR0Inv, StatesExpanded, HasTrans
    <2>9. PICK B \in Heads \ {A} : Forwards(goto[s][A], B) /\ to = goto[s][B]
      <3> DEFINE onto == {goto[s][B] : B \in {B \in Heads \ {A} : Forwards(goto[s][A], B)}}
                           \ {0, goto[s][A]}
      <3>1. to = IF onto = {} THEN 0 ELSE CHOOSE t \in onto : TRUE
        BY <2>6 DEF Redirect
      <3>2. \A t \in onto : \E B \in Heads \ {A} : Forwards(goto[s][A], B) /\ t = goto[s][B]
        OBVIOUS
      <3> HIDE DEF onto
      <3>3. to \in onto
        BY <2>6, <3>1
      <3> QED
        BY <3>2, <3>3
    <2>10. HasTrans(s, B) /\ Reaches(s, B, to) /\ Reaches(s, A, goto[s][A])
      BY <2>1, <2>6, <2>7, <2>8, <2>9 DEF GotoInv
    <2>11. Reaches(s, A, to)
      <3>1. PICK n : n = goto[s][A]
        OBVIOUS
      <3> QED
        BY <2>1, <2>9, <2>10, <3>1, RedirectReaches
    <2>12. to \in Nat
      <3>1. PICK R : R = [Heads -> Nat]
        OBVIOUS
      <3>2. goto \in Seq(R) /\ Len(goto) = Len(states)
        BY <2>1, <3>1 DEF GotoInv, GotosIn
      <3>3. goto[s] \in R
        BY <3>2
      <3> QED
        BY <2>9, <3>1, <3>3
    <2>13. PICK g : g = goto'
      OBVIOUS
    <2>14. /\ g \in GotosIn /\ Len(g) = Len(states)
           /\ \A t \in 1..Len(states), B_ \in Heads :
                g[t][B_] = IF t = s /\ B_ = A THEN to ELSE goto[t][B_]
      <3>1. PICK R : R = [Heads -> Nat]
        OBVIOUS
      <3>2. goto \in Seq(R) /\ Len(goto) = Len(states)
        BY <2>1, <3>1 DEF GotoInv, GotosIn
      <3>3. PICK row \in [Heads -> Nat] : row = goto[s]
        BY <3>1, <3>2
      <3>4. PICK new : new = [row EXCEPT ![A] = to]
        OBVIOUS
      <3>5. new \in R /\ \A B_ \in Heads : new[B_] = IF B_ = A THEN to ELSE row[B_]
        BY <2>7, <2>12, <3>1, <3>4
      <3>6. g = [goto EXCEPT ![s] = new]
        BY <2>6, <2>13, <3>3, <3>4
      <3>7. /\ g \in Seq(R) /\ Len(g) = Len(goto)
            /\ \A t \in 1..Len(goto) : g[t] = IF t = s THEN new ELSE goto[t]
        BY <3>2, <3>5, <3>6
      <3> QED
        BY <3>1, <3>2, <3>3, <3>5, <3>7 DEF GotosIn
    <2>15. ASSUME NEW t \in 1..Len(states), NEW D \in Heads
           PROVE  (IF HasTrans(t, D) THEN Reaches(t, D, goto[t][D]) ELSE goto[t][D] = 0)'
      <3>1. PICK n : n = goto'[t][D]
        OBVIOUS
      <3>2. Reaches(t, D, goto[t][D])' <=> Reaches(t, D, n)
        <4>1. Reaches(t, D, goto[t][D])' <=> Reaches(t, D, n)'
          BY <3>1 DEF Reaches
        <4> QED
          BY <1>2, <4>1
      <3>3. CASE t = s /\ D = A
        <4>1. n = to
          BY <2>13, <2>14, <3>1, <3>3
        <4> QED
          BY <1>4, <2>8, <2>11, <3>2, <3>3, <4>1
      <3>4. CASE ~ (t = s /\ D = A)
        <4>1. n = goto[t][D]
          BY <2>13, <2>14, <3>1, <3>4
        <4>2. IF HasTrans(t, D) THEN Reaches(t, D, n) ELSE n = 0
          BY <2>1, <4>1 DEF GotoInv
        <4> QED
          BY <1>4, <3>1, <3>2, <4>2
      <3> QED
        BY <3>3, <3>4
    <2>16. scanState' \in Nat \ {0} /\ scanItem' \in Nat \ {0}
      BY <2>1 DEF GotoInv
    <2> QED
      BY <1>5, <2>1, <2>13, <2>14, <2>15, <2>16 DEF GotoInv
  <1>7. CASE goto' = goto
    <2>1. \/ phase' = phase
          \/ phase = "optimize" /\ phase' = "ready"
      BY DEF OptimizeNext, RedirectEntry, RedirectNextRow, NextRedirectPass, OptimizeDone, Optimizing,
             automatonVars, firstVars, actionTableVars, lookaheadsVars
    <2>2. phase' = "optimize" => scanState' \in Nat \ {0} /\ scanItem' \in Nat \ {0}
      <3>1. CASE UNCHANGED actionTableVars
        BY <3>1 DEF GotoInv, actionTableVars, lookaheadsVars, lookaheadVars, automatonVars, firstVars
      <3>2. CASE OptimizeNext
        <4>1. phase = "optimize"
          BY <3>2 DEF OptimizeNext, RedirectEntry, RedirectNextRow, NextRedirectPass, OptimizeDone,
                      Optimizing
        <4>2. scanState \in Nat \ {0} /\ scanItem \in Nat \ {0}
          BY <4>1 DEF GotoInv
        <4> QED
          BY <3>2, <4>2 DEF OptimizeNext, RedirectEntry, RedirectNextRow, NextRedirectPass,
                            OptimizeDone, lookaheadVars
      <3> QED
        BY <3>1, <3>2
    <2>3. \A s, A : (IF HasTrans(s, A) THEN Reaches(s, A, goto[s][A]) ELSE goto[s][A] = 0)'
                      <=> (IF HasTrans(s, A) THEN Reaches(s, A, goto[s][A]) ELSE goto[s][A] = 0)
      <3> SUFFICES ASSUME NEW s, NEW A
                   PROVE  (IF HasTrans(s, A) THEN Reaches(s, A, goto[s][A]) ELSE goto[s][A] = 0)'
                            <=> (IF HasTrans(s, A) THEN Reaches(s, A, goto[s][A]) ELSE goto[s][A] = 0)
        OBVIOUS
      <3>1. PICK n : n = goto[s][A] /\ n = goto'[s][A]
        BY <1>7
      <3>2. Reaches(s, A, goto[s][A])' <=> Reaches(s, A, n)
        <4>1. Reaches(s, A, goto[s][A])' <=> Reaches(s, A, n)'
          BY <3>1 DEF Reaches
        <4> QED
          BY <1>2, <4>1
      <3> QED
        BY <1>4, <3>1, <3>2
    <2>4. Filled' => Filled
      BY <2>1 DEF Filled
    <2>5. phase = "fill" /\ phase' = "fill" =>
            \A s, A : /\ HasTrans(s, A)' <=> HasTrans(s, A)
                      /\ Target(s, A)' = Target(s, A)
      BY <1>1 DEF TablesStay, HasTrans, Target
    <2> QED
      BY <1>1, <1>5, <1>7, <2>1, <2>2, <2>3, <2>4, <2>5 DEF GotoInv, Filled
  <1> QED
    BY <1>6, <1>7 DEF OptimizeNext, RedirectNextRow, NextRedirectPass, OptimizeDone, tableVars,
                      actionTableVars

LEMMA GotoStep ==
  ASSUME LR0Inv, TableInv, GotoInv, [UnitGotosNext]_actionTableVars
  PROVE  GotoInv'
  <1>1. CASE TableNext
    BY <1>1, TableStep, GotosFilled
  <1>2. CASE OptimizeNext \/ UNCHANGED actionTableVars
    BY <1>2, GotosRedirected
  <1>3. CASE AutomatonNext /\ UNCHANGED <<lookaheadVars, tableVars>>
    <2>1. phase \in {"first", "lr0"} /\ phase' \in {"first", "lr0", "follow"}
      BY <1>3 DEF AutomatonNext, FirstNext, ScanRule, NextPass, FirstDone, LR0Next, CloseItem,
                  AddState, MoveOver, SkipMoved, ExpandNext, LR0Done, Expanding, firstVars
    <2> QED
      BY <1>3, <2>1, GotosBefore DEF tableVars
  <1>4. CASE LookaheadNext /\ UNCHANGED tableVars
    <2>1. phase \in {"follow", "lookahead"} /\ phase' \in {"follow", "lookahead", "fill"}
      BY <1>4 DEF LookaheadNext, ScanFollow, NextFollowPass, FollowDone, ScanItem,
                  ScanNextState, NextLookaheadPass, LookaheadDone, firstVars
    <2> QED
      BY <1>4, <2>1, GotosBefore DEF tableVars
  <1> QED
    BY <1>1, <1>2, <1>3, <1>4 DEF UnitGotosNext, ActionTableNext, LookaheadsNext

LEMMA GotosAlways == UnitGotosSpec => []GotoInv
  <1>1. ActionTableInit => GotoInv
    BY DEF ActionTableInit, LookaheadsInit, AutomatonInit, FirstInit, TableInit, GotoInv, Filled
  <1>2. LR0Inv /\ TableInv /\ GotoInv /\ [UnitGotosNext]_actionTableVars => GotoInv'
    BY GotoStep
  <1> QED
    BY <1>1, <1>2, LR0Always, TableAlways, PTL DEF UnitGotosSpec

(* Standing is the least set of them: it stops growing within as many steps *)
(* as there are heads.                                                      *)
Skips(s, p) == {<<B, Target(s, B)>> : B \in {B \in Heads : HasTrans(s, B) /\ OnlyRenames(p[2], B, p[1])}}

LEMMA StandingIsClosed ==
  ASSUME NEW s, NEW A \in Heads
  PROVE  \E C : Stands(s, A, C) /\ Standing(s, A) = {p[2] : p \in C}
  <1>1. PICK U : U = {<<B, Target(s, B)>> : B \in Heads}
    OBVIOUS
  <1>2. IsFiniteSet(Heads)
    <2>1. IsFiniteSet({ACCEPT})
      BY FS_Singleton
    <2> QED
      BY <2>1, FiniteAssumption, FS_Union DEF Heads
  <1>3. IsFiniteSet(U) /\ Cardinality(U) = Cardinality(Heads)
    <2>1. PICK h : h = [B \in Heads |-> <<B, Target(s, B)>>]
      OBVIOUS
    <2>2. h \in Bijection(Heads, U)
      <3>1. h \in [Heads -> U]
        BY <1>1, <2>1
      <3>2. \A B, D \in Heads : h[B] = h[D] => B = D
        BY <2>1
      <3>3. \A u \in U : \E B \in Heads : h[B] = u
        BY <1>1, <2>1
      <3> QED
        BY <3>1, <3>2, <3>3 DEF Bijection, Injection, Surjection, IsInjective
    <2>3. ExistsBijection(Heads, U)
      BY <2>2 DEF ExistsBijection
    <2> QED
      BY <1>2, <2>3, FS_Bijection
  <1>4. PICK N \in Nat : N = Cardinality(Heads) /\ N = Cardinality(U)
    BY <1>2, <1>3, FS_CardinalityType
  <1>5. PICK a \in SUBSET U : a = {<<A, Target(s, A)>>}
    BY <1>1
  <1> DEFINE Step(X) == X \cup UNION {Skips(s, p) : p \in X}
  <1>6. \A X \in SUBSET U : X \subseteq Step(X) /\ Step(X) \in SUBSET U
    <2>1. \A p : Skips(s, p) \subseteq U
      BY <1>1 DEF Skips
    <2> QED
      BY <2>1
  <1>7. PICK next : next = [X \in SUBSET U |-> Step(X)]
    OBVIOUS
  <1>8. Expands(next, U) /\ \A X \in SUBSET U : next[X] = Step(X)
    <2> HIDE DEF Step
    <2>1. \A X \in SUBSET U : next[X] = Step(X)
      BY <1>7
    <2> QED
      BY <1>6, <1>7, <2>1 DEF Expands
  <1>9. PICK f \in [0..N -> SUBSET U] : Grows(f, N, a, next) /\ GrowsNoMore(f, N, next)
    <2>1. a # {}
      BY <1>5
    <2> QED
      BY <1>3, <1>4, <1>8, <2>1, Growing
  <1> HIDE DEF Step
  <1>10. f[0] = a /\ \A n \in 1..N : f[n] = Step(f[n - 1])
    <2>1. \A n \in 1..N : f[n - 1] \in SUBSET U
      OBVIOUS
    <2> QED
      BY <1>8, <1>9, <2>1 DEF Grows
  <1>11. Step(f[N]) = f[N] /\ f[N] \in SUBSET U
    <2>1. f[N] \in SUBSET U
      OBVIOUS
    <2> QED
      BY <1>8, <1>9, <2>1 DEF GrowsNoMore
  <1> DEFINE IsF(h) == h = [n \in 0..Cardinality(Heads) |->
                              IF n = 0 THEN {<<A, Target(s, A)>>}
                              ELSE h[n - 1] \cup
                                     UNION {{<<B, Target(s, B)>> : B \in {B \in Heads :
                                               HasTrans(s, B) /\ OnlyRenames(p[2], B, p[1])}} : p \in h[n - 1]}]
             F == CHOOSE h : IsF(h)
  <1>12. \A h : IsF(h) <=> h = [n \in 0..N |-> IF n = 0 THEN a ELSE Step(h[n - 1])]
    BY <1>4, <1>5 DEF Step, Skips
  <1>13. Standing(s, A) = {p[2] : p \in F[Cardinality(Heads)]}
    BY DEF Standing
  <1> HIDE DEF IsF
  <1>14. IsF(f)
    <2>1. f = [n \in 0..N |-> f[n]]
      OBVIOUS
    <2>2. \A n \in 0..N : f[n] = IF n = 0 THEN a ELSE Step(f[n - 1])
      <3>1. \A n \in 0..N : n = 0 \/ n \in 1..N
        OBVIOUS
      <3> QED
        BY <1>10, <3>1
    <2>3. f = [n \in 0..N |-> IF n = 0 THEN a ELSE Step(f[n - 1])]
      BY <2>1, <2>2
    <2> QED
      BY <1>12, <2>3
  <1>15. IsF(F)
    BY <1>14
  <1>16. PICK g : g = F
    OBVIOUS
  <1>17. g[0] = a /\ \A n \in 1..N : g[n] = Step(g[n - 1])
    <2>1. g = [n \in 0..N |-> IF n = 0 THEN a ELSE Step(g[n - 1])]
      <3> HIDE DEF F
      <3> QED
        BY <1>12, <1>15, <1>16
    <2>2. 0 \in 0..N /\ \A n \in 1..N : n \in 0..N /\ n # 0
      OBVIOUS
    <2> QED
      BY <2>1, <2>2
  <1>18. g[N] = f[N]
    <2>1. StepAlike(g, f, N)
      BY <1>10, <1>17 DEF StepAlike
    <2> QED
      BY <2>1, SameGrowth DEF Alike
  <1>19. PICK C : C = f[N]
    OBVIOUS
  <1>20. Standing(s, A) = {p[2] : p \in C}
    BY <1>4, <1>13, <1>16, <1>18, <1>19
  <1>21. <<A, Target(s, A)>> \in C
    <2> DEFINE H == {k \in 0..N : <<A, Target(s, A)>> \in f[k]}
    <2>1. 0 \in H
      BY <1>5, <1>10
    <2>2. ASSUME NEW k \in 1..N, k - 1 \in H PROVE k \in H
      BY <1>10, <2>2 DEF Step
    <2>3. \A k \in 0..N : k \in H
      <3> HIDE DEF H
      <3> QED
        BY <2>1, <2>2, Climbing
    <2> QED
      BY <1>19, <2>3
  <1>22. Stands(s, A, C)
    <2>1. ASSUME NEW p \in C, NEW B \in Heads, HasTrans(s, B), OnlyRenames(p[2], B, p[1])
          PROVE  <<B, Target(s, B)>> \in C
      <3>1. <<B, Target(s, B)>> \in Skips(s, p)
        BY <2>1 DEF Skips
      <3> QED
        BY <1>11, <1>19, <3>1 DEF Step
    <2> QED
      BY <1>21, <2>1 DEF Stands
  <1> QED
    BY <1>20, <1>22

(* For every grammar and every number of passes: a goto, redirected or not, *)
(* ends where renaming alone would have led, and there is one exactly where *)
(* the automaton has a transition.                                          *)
THEOREM RedirectsOnlyRename == UnitGotosSpec => []RedirectsSkipOnlyRenames
  <1>1. ASSUME GotoInv PROVE RedirectsSkipOnlyRenames
    <2> SUFFICES ASSUME Filled, NEW s \in 1..Len(states), NEW A \in Heads
                 PROVE  IF HasTrans(s, A) THEN goto[s][A] \in Standing(s, A) ELSE goto[s][A] = 0
      BY DEF RedirectsSkipOnlyRenames
    <2>1. IF HasTrans(s, A) THEN Reaches(s, A, goto[s][A]) ELSE goto[s][A] = 0
      BY <1>1 DEF GotoInv
    <2>2. PICK C : Stands(s, A, C) /\ Standing(s, A) = {p[2] : p \in C}
      BY StandingIsClosed
    <2>3. ASSUME HasTrans(s, A) PROVE goto[s][A] \in Standing(s, A)
      <3>1. PICK n : n = goto[s][A]
        OBVIOUS
      <3>2. PICK B \in Heads : <<B, n>> \in C
        BY <2>1, <2>2, <2>3, <3>1 DEF Reaches
      <3>3. PICK p \in C : p = <<B, n>>
        BY <3>2
      <3>4. p[2] = n
        BY <3>3
      <3> QED
        BY <2>2, <3>1, <3>3, <3>4
    <2> QED
      BY <2>1, <2>3
  <1> QED
    BY <1>1, GotosAlways, PTL
=============================================================================
