---------------------------- MODULE LanguageProofs ----------------------------
(* What the parser accepts, for every grammar, option and text: only what   *)
(* the rules of the grammar derive, whatever recovery inserts, whatever the *)
(* lexer skips on the way, wherever a unit rule was bypassed, and through   *)
(* whatever forks.                                                          *)
EXTENDS LRParserProofs, GlrFork

-----------------------------------------------------------------------------
(* A set that may start out empty has stopped growing one step later.       *)
LEMMA GrowingFromNone ==
  ASSUME NEW U, IsFiniteSet(U), NEW N \in Nat, N = Cardinality(U) + 1,
         NEW a \in SUBSET U, NEW next, Expands(next, U)
  PROVE  \E f \in [0..N -> SUBSET U] : Grows(f, N, a, next) /\ GrowsNoMore(f, N, next)
  <1>1. PICK b \in SUBSET U : b = next[a]
    BY DEF Expands
  <1>2. a \subseteq b
    BY <1>1 DEF Expands
  <1>3. CASE b = a
    <2>1. PICK f : f = [n \in 0..N |-> a]
      OBVIOUS
    <2>2. f \in [0..N -> SUBSET U] /\ \A n \in 0..N : f[n] = a
      BY <2>1
    <2>3. 1 \in 1..N /\ 0 \in 0..N /\ N \in 0..N /\ \A n \in 1..N : n \in 0..N /\ n - 1 \in 0..N
      <3>1. Cardinality(U) \in Nat
        BY FS_CardinalityType
      <3> QED
        BY <3>1
    <2>4. \A n \in 1..N : f[n] = a /\ f[n - 1] = a
      BY <2>2, <2>3
    <2>5. Grows(f, N, a, next)
      <3>1. f[0] = a
        BY <2>2, <2>3
      <3>2. \A n \in 1..N : f[n] = next[f[n - 1]]
        BY <1>1, <1>3, <2>4
      <3> QED
        BY <3>1, <3>2 DEF Grows
    <2>6. f[1] = f[1 - 1]
      BY <2>3, <2>4
    <2>7. next[f[N]] = f[N]
      <3>1. f[N] = a
        BY <2>2, <2>3
      <3> QED
        BY <1>1, <1>3, <3>1
    <2>8. GrowsNoMore(f, N, next)
      BY <2>3, <2>6, <2>7 DEF GrowsNoMore
    <2> QED
      BY <2>2, <2>5, <2>8
  <1>4. CASE b # a
    <2>1. PICK M \in Nat : M = Cardinality(U) /\ N = M + 1
      BY FS_CardinalityType
    <2>2. b # {}
      BY <1>2, <1>4
    <2>3. PICK g \in [0..M -> SUBSET U] : Grows(g, M, b, next) /\ GrowsNoMore(g, M, next)
      BY <2>1, <2>2, Growing
    <2>4. PICK f : f = [n \in 0..N |-> IF n = 0 THEN a ELSE g[n - 1]]
      OBVIOUS
    <2>5. f \in [0..N -> SUBSET U] /\ f[0] = a /\ \A n \in 1..N : f[n] = g[n - 1]
      BY <2>1, <2>4
    <2>6. \A n \in 1..N : f[n] = next[f[n - 1]]
      <3> SUFFICES ASSUME NEW n \in 1..N PROVE f[n] = next[f[n - 1]]
        OBVIOUS
      <3>1. CASE n = 1
        BY <1>1, <2>3, <2>5, <3>1 DEF Grows
      <3>2. CASE n # 1
        <4>1. n - 1 \in 1..N /\ n - 1 \in 1..M
          BY <2>1, <3>2
        <4>2. f[n] = g[n - 1] /\ f[n - 1] = g[(n - 1) - 1]
          BY <2>5, <4>1
        <4> QED
          BY <2>3, <4>1, <4>2 DEF Grows
      <3> QED
        BY <3>1, <3>2
    <2>7. PICK m \in 1..M : g[m] = g[m - 1]
      BY <2>3 DEF GrowsNoMore
    <2>8. m + 1 \in 1..N /\ f[m + 1] = f[(m + 1) - 1]
      <3>1. m + 1 \in 1..N /\ m \in 1..N /\ (m + 1) - 1 = m
        BY <2>1
      <3>2. f[m + 1] = g[m] /\ f[m] = g[m - 1]
        BY <2>5, <3>1
      <3> QED
        BY <2>7, <3>1, <3>2
    <2>9. next[f[N]] = f[N]
      <3>1. N \in 1..N /\ N - 1 = M
        BY <2>1
      <3> QED
        BY <2>3, <2>5, <3>1 DEF GrowsNoMore
    <2> QED
      BY <2>5, <2>6, <2>8, <2>9 DEF Grows, GrowsNoMore
  <1> QED
    BY <1>3, <1>4

-----------------------------------------------------------------------------
(* A way to read the symbols of a rule, one after another.                  *)
Spells(K, P, rhs, c) ==
  c \in [0..Len(rhs) -> P] /\ \A k \in 1..Len(rhs) : <<rhs[k], c[k - 1], c[k]>> \in K

Ending(f, K, rhs, i) ==
  /\ f[0] = {i}
  /\ \A k \in 1..Len(rhs) : f[k] = UNION {{j \in Places : <<rhs[k], m, j>> \in K} : m \in f[k - 1]}

LEMMA EndsSteps ==
  ASSUME NEW K, NEW rhs, Len(rhs) \in Nat, NEW i \in Places
  PROVE  \E f \in [0..Len(rhs) -> SUBSET Places] : Ending(f, K, rhs, i) /\ Ends(K, rhs, i) = f[Len(rhs)]
  <1>1. PICK N \in Nat : N = Len(rhs)
    OBVIOUS
  <1>2. PICK V : V = SUBSET Places
    OBVIOUS
  <1>3. PICK a \in V : a = {i}
    BY <1>2
  <1> DEFINE On(k, S) == UNION {{j \in Places : <<rhs[k], m, j>> \in K} : m \in S}
  <1>4. PICK next : next = [k \in 1..N |-> [S \in V |-> On(k, S)]]
    OBVIOUS
  <1>5. next \in [1..N -> [V -> V]]
    <2>1. \A k \in 1..N, S \in V : On(k, S) \in V
      BY <1>2
    <2> HIDE DEF On
    <2> QED
      BY <1>4, <2>1
  <1>6. PICK f \in [0..N -> V] : Follows(f, N, a, next)
    BY <1>5, Recursion
  <1>7. f[0] = a /\ \A k \in 1..N : f[k] = On(k, f[k - 1])
    <2> HIDE DEF On
    <2>1. \A k \in 1..N : f[k - 1] \in V
      OBVIOUS
    <2> QED
      BY <1>4, <1>6, <2>1 DEF Follows
  <1> DEFINE IsF(h) == h = [k \in 0..Len(rhs) |->
                              IF k = 0 THEN {i}
                              ELSE UNION {{j \in Places : <<rhs[k], m, j>> \in K} : m \in h[k - 1]}]
             F == CHOOSE h : IsF(h)
  <1>8. \A h : IsF(h) <=> h = [k \in 0..N |-> IF k = 0 THEN a ELSE On(k, h[k - 1])]
    BY <1>1, <1>3
  <1>9. Ends(K, rhs, i) = F[Len(rhs)]
    BY DEF Ends
  <1>10. Ending(f, K, rhs, i)
    BY <1>1, <1>3, <1>7 DEF Ending
  <1> HIDE DEF IsF, On
  <1>11. IsF(f)
    <2>1. f = [k \in 0..N |-> f[k]]
      OBVIOUS
    <2>2. \A k \in 0..N : k = 0 \/ k \in 1..N
      OBVIOUS
    <2>3. f = [k \in 0..N |-> IF k = 0 THEN a ELSE On(k, f[k - 1])]
      BY <1>7, <2>1, <2>2
    <2> QED
      BY <1>8, <2>3
  <1>12. IsF(F)
    BY <1>11
  <1>13. PICK g : g = F
    OBVIOUS
  <1>14. g[0] = a /\ \A k \in 1..N : g[k] = On(k, g[k - 1])
    <2>1. g = [k \in 0..N |-> IF k = 0 THEN a ELSE On(k, g[k - 1])]
      <3> HIDE DEF F
      <3> QED
        BY <1>8, <1>12, <1>13
    <2>2. 0 \in 0..N /\ \A k \in 1..N : k \in 0..N /\ k # 0
      OBVIOUS
    <2> QED
      BY <2>1, <2>2
  <1>15. g[N] = f[N]
    <2>1. StepAlike(g, f, N)
      BY <1>7, <1>14 DEF StepAlike
    <2> QED
      BY <2>1, SameGrowth DEF Alike
  <1> QED
    BY <1>1, <1>2, <1>6, <1>9, <1>10, <1>13, <1>15

LEMMA EndsInside ==
  ASSUME NEW K, NEW rhs, Len(rhs) \in Nat, NEW i \in Places
  PROVE  Ends(K, rhs, i) \subseteq Places
  BY EndsSteps

LEMMA EndsHold ==
  ASSUME NEW K, NEW rhs, Len(rhs) \in Nat, NEW c, Spells(K, Places, rhs, c)
  PROVE  c[Len(rhs)] \in Ends(K, rhs, c[0])
  <1>1. PICK N \in Nat : N = Len(rhs)
    OBVIOUS
  <1>2. PICK i \in Places : i = c[0]
    BY <1>1 DEF Spells
  <1>3. PICK f : Ending(f, K, rhs, i) /\ Ends(K, rhs, i) = f[N]
    BY <1>1, EndsSteps
  <1> DEFINE H == {k \in 0..N : c[k] \in f[k]}
  <1>4. 0 \in H
    BY <1>2, <1>3 DEF Ending
  <1>5. ASSUME NEW k \in 1..N, k - 1 \in H PROVE k \in H
    <2>1. c[k] \in Places /\ <<rhs[k], c[k - 1], c[k]>> \in K
      BY <1>1 DEF Spells
    <2>2. f[k] = UNION {{j \in Places : <<rhs[k], m, j>> \in K} : m \in f[k - 1]}
      BY <1>1, <1>3 DEF Ending
    <2> QED
      BY <1>5, <2>1, <2>2
  <1>6. \A k \in 0..N : k \in H
    <2> HIDE DEF H
    <2> QED
      BY <1>4, <1>5, Climbing
  <1>7. c[N] \in f[N]
    BY <1>6
  <1> QED
    BY <1>1, <1>2, <1>3, <1>7

LEMMA UniverseOfPhrases ==
  ASSUME Len(input) \in Nat
  PROVE  LET U == Symbols \X Places \X Places IN IsFiniteSet(U) /\ Cardinality(U) \in Nat
  <1>1. IsFiniteSet(Places)
    BY FS_Interval DEF Places
  <1>2. IsFiniteSet(Symbols)
    <2>1. IsFiniteSet({EOF}) /\ IsFiniteSet({ACCEPT})
      BY FS_Singleton
    <2>2. IsFiniteSet(TermsEOF) /\ IsFiniteSet(Heads)
      BY <2>1, FiniteAssumption, FS_Union DEF TermsEOF, Heads
    <2> QED
      BY <2>2, FS_Union DEF Symbols
  <1>3. PICK P : P = Places \X Places
    OBVIOUS
  <1>4. PICK Q : Q = Symbols \X P
    OBVIOUS
  <1>5. IsFiniteSet(Q)
    <2>1. IsFiniteSet(P)
      BY <1>1, <1>3, FS_Product
    <2> QED
      BY <1>2, <1>4, <2>1, FS_Product
  <1>6. PICK U : U = Symbols \X Places \X Places
    OBVIOUS
  <1>7. PICK h : h = [q \in Q |-> <<q[1], q[2][1], q[2][2]>>]
    OBVIOUS
  <1>8. h \in Surjection(Q, U)
    <2>1. h \in [Q -> U]
      BY <1>3, <1>4, <1>6, <1>7
    <2>2. ASSUME NEW u \in U PROVE \E q \in Q : h[q] = u
      <3>1. PICK X \in Symbols, i \in Places, j \in Places : u = <<X, i, j>>
        BY <1>6
      <3>2. PICK p \in P : p = <<i, j>>
        BY <1>3
      <3>3. PICK q \in Q : q = <<X, p>>
        BY <1>4
      <3> QED
        BY <1>7, <3>1, <3>2, <3>3
    <2> QED
      BY <2>1, <2>2 DEF Surjection
  <1> QED
    BY <1>5, <1>6, <1>8, FS_Surjection, FS_CardinalityType

(* Phrases is what it says: the tokens, closed under the rules.             *)
LEMMA PhrasesClosed ==
  ASSUME gram \in Grammars, Len(input) \in Nat
  PROVE  /\ Tokens \subseteq Phrases /\ ByRules(Phrases) \subseteq Phrases
         /\ Phrases \subseteq Symbols \X Places \X Places
  <1>1. PICK U : U = Symbols \X Places \X Places
    OBVIOUS
  <1>2. PICK M \in Nat : M = Cardinality(U) /\ IsFiniteSet(U)
    BY <1>1, UniverseOfPhrases
  <1>3. PICK N \in Nat : N = M + 1
    OBVIOUS
  <1>4. PICK a \in SUBSET U : a = Tokens
    BY <1>1 DEF Tokens, Symbols
  <1>5. \A X \in SUBSET U : X \subseteq ByRules(X) /\ ByRules(X) \in SUBSET U
    <2> SUFFICES ASSUME NEW X \in SUBSET U PROVE X \subseteq ByRules(X) /\ ByRules(X) \in SUBSET U
      OBVIOUS
    <2>1. \A r \in 2..Len(gram), i \in Places : \A j \in Ends(X, gram[r].rhs, i) : <<gram[r].lhs, i, j>> \in U
      <3> SUFFICES ASSUME NEW r \in 2..Len(gram), NEW i \in Places, NEW j \in Ends(X, gram[r].rhs, i)
                   PROVE  <<gram[r].lhs, i, j>> \in U
        OBVIOUS
      <3>1. PICK rhs : rhs = gram[r].rhs
        OBVIOUS
      <3>2. Len(rhs) \in Nat /\ gram[r].lhs \in Symbols
        BY <3>1, GrammarShape DEF Symbols
      <3>3. j \in Places
        BY <3>1, <3>2, EndsInside
      <3> QED
        BY <1>1, <3>2, <3>3
    <2> QED
      BY <2>1 DEF ByRules
  <1>6. PICK next : next = [X \in SUBSET U |-> ByRules(X)]
    OBVIOUS
  <1>7. Expands(next, U) /\ \A X \in SUBSET U : next[X] = ByRules(X)
    BY <1>5, <1>6 DEF Expands
  <1>8. PICK f \in [0..N -> SUBSET U] : Grows(f, N, a, next) /\ GrowsNoMore(f, N, next)
    BY <1>2, <1>3, <1>7, GrowingFromNone
  <1>9. f[0] = a /\ \A n \in 1..N : f[n] = ByRules(f[n - 1])
    <2>1. \A n \in 1..N : f[n - 1] \in SUBSET U
      OBVIOUS
    <2> QED
      BY <1>7, <1>8, <2>1 DEF Grows
  <1>10. PICK m \in 1..N : f[m] = f[m - 1]
    BY <1>8 DEF GrowsNoMore
  <1> DEFINE IsF(h) == h = [n \in 0..(Cardinality(Symbols \X Places \X Places) + 1) |->
                              IF n = 0 THEN Tokens ELSE ByRules(h[n - 1])]
             F == CHOOSE h : IsF(h)
             enough == CHOOSE n \in 1..(Cardinality(Symbols \X Places \X Places) + 1) : F[n] = F[n - 1]
  <1>11. \A h : IsF(h) <=> h = [n \in 0..N |-> IF n = 0 THEN a ELSE ByRules(h[n - 1])]
    BY <1>1, <1>2, <1>3, <1>4
  <1>12. Phrases = F[enough]
    BY DEF Phrases
  <1> HIDE DEF IsF
  <1>13. IsF(f)
    <2>1. f = [n \in 0..N |-> f[n]]
      OBVIOUS
    <2>2. \A n \in 0..N : n = 0 \/ n \in 1..N
      OBVIOUS
    <2>3. f = [n \in 0..N |-> IF n = 0 THEN a ELSE ByRules(f[n - 1])]
      BY <1>9, <2>1, <2>2
    <2> QED
      BY <1>11, <2>3
  <1>14. IsF(F)
    BY <1>13
  <1>15. PICK g : g = F
    OBVIOUS
  <1>16. g[0] = a /\ \A n \in 1..N : g[n] = ByRules(g[n - 1])
    <2>1. g = [n \in 0..N |-> IF n = 0 THEN a ELSE ByRules(g[n - 1])]
      <3> HIDE DEF F
      <3> QED
        BY <1>11, <1>14, <1>15
    <2>2. 0 \in 0..N /\ \A n \in 1..N : n \in 0..N /\ n # 0
      OBVIOUS
    <2> QED
      BY <2>1, <2>2
  <1>17. \A n \in 0..N : g[n] = f[n]
    <2>1. StepAlike(g, f, N)
      BY <1>9, <1>16 DEF StepAlike
    <2> QED
      BY <2>1, SameGrowth DEF Alike
  <1>18. PICK e \in 1..N : e = enough /\ g[e] = g[e - 1]
    <2>1. m - 1 \in 0..N /\ m \in 0..N
      OBVIOUS
    <2>2. g[m] = g[m - 1]
      BY <1>10, <1>17, <2>1
    <2>3. enough = CHOOSE n \in 1..N : g[n] = g[n - 1]
      <3> HIDE DEF F
      <3> QED
        BY <1>1, <1>2, <1>3, <1>15
    <2> HIDE DEF enough
    <2> QED
      BY <2>2, <2>3
  <1>19. Phrases = g[e]
    <2> HIDE DEF F, enough
    <2> QED
      BY <1>12, <1>15, <1>18
  <1> HIDE DEF F, enough
  <1>20. ByRules(g[e]) = g[e]
    BY <1>16, <1>18
  <1>21. g[e] \in SUBSET U
    <2>1. e \in 0..N
      OBVIOUS
    <2>2. g[e] = f[e] /\ f[e] \in SUBSET U
      BY <1>17, <2>1
    <2> QED
      BY <2>2
  <1>22. a \subseteq g[e]
    <2> DEFINE H == {k \in 0..N : a \subseteq g[k]}
    <2>1. 0 \in H
      BY <1>16
    <2>2. ASSUME NEW k \in 1..N, k - 1 \in H PROVE k \in H
      <3>1. k - 1 \in 0..N /\ k \in 0..N
        OBVIOUS
      <3>2. g[k - 1] \in SUBSET U
        <4>1. g[k - 1] = f[k - 1] /\ f[k - 1] \in SUBSET U
          BY <1>17, <3>1
        <4> QED
          BY <4>1
      <3>3. g[k - 1] \subseteq g[k]
        BY <1>5, <1>16, <3>2
      <3> QED
        BY <2>2, <3>1, <3>3
    <2>3. \A k \in 0..N : k \in H
      <3> HIDE DEF H
      <3> QED
        BY <2>1, <2>2, Climbing
    <2> QED
      BY <2>3
  <1> QED
    BY <1>1, <1>4, <1>19, <1>20, <1>21, <1>22

(* So the symbols of a rule, read one after another, are a phrase.          *)
LEMMA PhraseByRule ==
  ASSUME gram \in Grammars, Len(input) \in Nat, NEW r \in 2..Len(gram),
         NEW c, Spells(Phrases, Places, gram[r].rhs, c)
  PROVE  <<gram[r].lhs, c[0], c[Len(gram[r].rhs)]>> \in Phrases
  <1>1. PICK K : K = Phrases
    OBVIOUS
  <1>2. PICK rhs : rhs = gram[r].rhs
    OBVIOUS
  <1>3. Len(rhs) \in Nat
    BY <1>2, GrammarShape
  <1>4. c[Len(rhs)] \in Ends(K, rhs, c[0])
    BY <1>1, <1>2, <1>3, EndsHold
  <1>5. c[0] \in Places
    BY <1>2, <1>3 DEF Spells
  <1>6. <<gram[r].lhs, c[0], c[Len(rhs)]>> \in ByRules(K)
    <2>1. PICK i \in Places : i = c[0]
      BY <1>5
    <2>2. PICK S : S = {<<gram[r].lhs, i, j>> : j \in Ends(K, gram[r].rhs, i)}
      OBVIOUS
    <2>3. <<gram[r].lhs, c[0], c[Len(rhs)]>> \in S
      BY <1>2, <1>4, <2>1, <2>2
    <2>4. S \subseteq ByRules(K)
      BY <2>2 DEF ByRules
    <2> QED
      BY <2>3, <2>4
  <1> QED
    BY <1>1, <1>2, <1>6, PhrasesClosed

(* What is read, and between which places, is closed under the rules: the   *)
(* phrases are; and so are all symbols, in one place for all, when the      *)
(* text does not matter.                                                    *)
Closed(K, P) ==
  /\ K \subseteq Symbols \X P \X P /\ 0 \in P
  /\ \A r \in 2..Len(gram) : \A c :
       Spells(K, P, gram[r].rhs, c) => <<gram[r].lhs, c[0], c[Len(gram[r].rhs)]>> \in K

Anything == Symbols \X {0} \X {0}

LEMMA PhrasesAreClosed ==
  ASSUME gram \in Grammars, Len(input) \in Nat
  PROVE  Closed(Phrases, Places)
  <1>1. 0 \in Places
    BY DEF Places
  <1> QED
    BY <1>1, PhrasesClosed, PhraseByRule DEF Closed

LEMMA AnythingIsClosed ==
  ASSUME gram \in Grammars
  PROVE  Closed(Anything, {0})
  <1>1. ASSUME NEW r \in 2..Len(gram), NEW c, Spells(Anything, {0}, gram[r].rhs, c)
        PROVE  <<gram[r].lhs, c[0], c[Len(gram[r].rhs)]>> \in Anything
    <2>1. PICK n \in Nat : n = Len(gram[r].rhs)
      BY GrammarShape
    <2>2. c[0] = 0 /\ c[n] = 0
      BY <1>1, <2>1 DEF Spells
    <2>3. gram[r].lhs \in Symbols
      BY GrammarShape DEF Symbols
    <2> QED
      BY <2>1, <2>2, <2>3 DEF Anything
  <1> QED
    BY <1>1 DEF Closed, Anything

-----------------------------------------------------------------------------
(* To go from one state to another is to read a symbol.                     *)
Reads(K, p, q, i, j) ==
  \E X \in Symbols : HasTrans(p, X) /\ q = Target(p, X) /\ <<X, i, j>> \in K

LEMMA ReadsIsAStep ==
  ASSUME NEW K, NEW p, NEW q, NEW i, NEW j, Reads(K, p, q, i, j)
  PROVE  Step(p, q)
  BY DEF Reads, Step

(* An item that has moved into a state has moved over what was read.        *)
LEMMA ReadBack ==
  ASSUME LR0Inv, NEW K, NEW p, NEW q, NEW i, NEW j, Reads(K, p, q, i, j),
         NEW x \in ToSet(states[q]), x.dot # 0
  PROVE  \E y \in ToSet(states[p]) :
            /\ x = Advance(y) /\ y \in Items
            /\ <<gram[y.rule].rhs[y.dot + 1], i, j>> \in K
  <1>1. PICK X \in Symbols : HasTrans(p, X) /\ q = Target(p, X) /\ <<X, i, j>> \in K
    BY DEF Reads
  <1>2. PICK I : I = ToSet(states[p])
    OBVIOUS
  <1>3. p \in 1..Len(states) /\ ToSet(states[q]) = MoveIn(gram, I, X)
    BY <1>1, <1>2, TargetIs
  <1>4. PICK G \in Grammars : G = gram
    BY DEF LR0Inv, LR0TypeOK
  <1>5. Len(G) \in Nat
    BY <1>4, GrammarShape
  <1>6. PICK y \in I : x = Advance(y) /\ NextSymIn(G, y) = X
    BY <1>3, <1>4, <1>5, ComesOver
  <1>7. I \subseteq Items
    <2>1. states \in Seq(Seq(ItemsIn(G)))
      BY <1>4 DEF LR0Inv, LR0TypeOK
    <2>2. states[p] \in Seq(ItemsIn(G))
      BY <1>3, <2>1
    <2> QED
      BY <1>2, <2>2, HoldsAt DEF ItemsIn
  <1> QED
    BY <1>1, <1>2, <1>4, <1>6, <1>7 DEF NextSymIn

(* Frames hang on their parents, down to the bottom one: st says in which   *)
(* state each is, and at[id] up to where the text is read under it.         *)
Hanging(K, D, st, par, at) ==
  /\ 0 \notin D
  /\ \A id \in D :
       /\ par[id] \in D \cup {0}
       /\ par[id] = 0 => st[id] = 1 /\ at[id] = 0
       /\ par[id] # 0 => Reads(K, st[par[id]], st[id], at[par[id]], at[id])

(* The frames from one down. *)
Down(up, par, D, id, n) ==
  up[0] = id /\ \A k \in 1..n : up[k - 1] \in D => up[k] = par[up[k - 1]]

(* An item in the state of a frame comes up through those below it.         *)
LEMMA HangingBack ==
  ASSUME LR0Inv, phase \notin {"first", "lr0"}, NEW K, NEW P, Closed(K, P), NEW D, NEW st, NEW par, NEW at, Hanging(K, D, st, par, at),
         NEW id \in D, NEW x \in ToSet(states[st[id]]), x \in Items, NEW d \in Nat, d = x.dot,
         NEW up, Down(up, par, D, id, d)
  PROVE  /\ \A k \in 0..d : up[k] \in D /\ Item(x.rule, d - k) \in ToSet(states[st[up[k]]])
         /\ \A k \in 1..d : <<gram[x.rule].rhs[d - (k - 1)], at[up[k]], at[up[k - 1]]>> \in K
  <1> DEFINE H == {k \in 0..d : /\ up[k] \in D /\ Item(x.rule, d - k) \in ToSet(states[st[up[k]]])
                                /\ k # 0 => <<gram[x.rule].rhs[d - (k - 1)], at[up[k]], at[up[k - 1]]>> \in K}
  <1>1. 0 \in H
    <2>1. x = Item(x.rule, d)
      BY DEF Items, Item
    <2> QED
      BY <2>1 DEF Down
  <1>2. ASSUME NEW k \in 1..d, k - 1 \in H PROVE k \in H
    <2>1. PICK b \in D : b = up[k - 1]
      BY <1>2
    <2>2. PICK z : z = Item(x.rule, d - (k - 1))
      OBVIOUS
    <2>3. z \in ToSet(states[st[b]]) /\ z.dot = d - (k - 1) /\ z.rule = x.rule
      BY <1>2, <2>1, <2>2, ItemShape
    <2>4. z.dot # 0
      BY <2>3
    <2>5. par[b] # 0
      <3>1. ASSUME st[b] = 1 PROVE FALSE
        BY <2>3, <2>4, <3>1, FirstStateItems
      <3> QED
        BY <3>1 DEF Hanging
    <2>6. PICK a \in D : a = par[b] /\ Reads(K, st[a], st[b], at[a], at[b])
      BY <2>5 DEF Hanging
    <2>7. a = up[k]
      BY <2>1, <2>6 DEF Down
    <2>8. PICK y \in ToSet(states[st[a]]) :
             z = Advance(y) /\ y \in Items /\ <<gram[y.rule].rhs[y.dot + 1], at[a], at[b]>> \in K
      <3>1. PICK p, q, i, j : p = st[a] /\ q = st[b] /\ i = at[a] /\ j = at[b]
        OBVIOUS
      <3>2. Reads(K, p, q, i, j) /\ z \in ToSet(states[q])
        BY <2>3, <2>6, <3>1
      <3>3. \E y \in ToSet(states[p]) :
               z = Advance(y) /\ y \in Items /\ <<gram[y.rule].rhs[y.dot + 1], i, j>> \in K
        BY <2>4, <3>2, ReadBack
      <3> QED
        BY <3>1, <3>3
    <2>9. y.rule = x.rule /\ y.dot + 1 = d - (k - 1) /\ y = Item(x.rule, d - k)
      <3>1. y.rule = x.rule /\ y.dot + 1 = d - (k - 1)
        BY <2>3, <2>8, ItemShape DEF Advance
      <3>2. y.dot = d - k
        BY <2>8, <3>1 DEF Items
      <3>3. y = Item(y.rule, y.dot)
        BY <2>8 DEF Items, Item
      <3> QED
        BY <3>1, <3>2, <3>3
    <2> QED
      BY <2>1, <2>7, <2>8, <2>9
  <1>3. \A k \in 0..d : k \in H
    <2> HIDE DEF H
    <2> QED
      BY <1>1, <1>2, Climbing
  <1>4. \A k \in 1..d : k \in 0..d /\ k # 0
    OBVIOUS
  <1> QED
    BY <1>3, <1>4

(* A goto, redirected or not, reads what its head is: renaming alone reads  *)
(* nothing more.                                                            *)
LEMMA GotoReads ==
  ASSUME Built, phase = "ready", NEW p \in 1..Len(states), NEW B \in Heads,
         HasTrans(p, B), NEW K, NEW P, Closed(K, P), NEW i, NEW j, <<B, i, j>> \in K
  PROVE  goto[p][B] # 0 /\ Reads(K, p, goto[p][B], i, j)
  <1>1. PICK G \in Grammars : G = gram
    BY DEF Built, LR0Inv, LR0TypeOK
  <1>2. i \in P /\ j \in P
    BY DEF Closed
  <1> DEFINE C == {<<X, Target(p, X)>> : X \in {X \in Heads : <<X, i, j>> \in K}}
  <1>3. Stands(p, B, C)
    <2>1. ASSUME NEW X \in Heads, <<X, i, j>> \in K, NEW Y \in Heads,
                 OnlyRenames(Target(p, X), Y, X)
          PROVE  <<Y, i, j>> \in K
      <3>1. PICK r \in 1..Len(G) : G[r].lhs = Y /\ G[r].rhs = <<X>>
        BY <1>1, <2>1 DEF OnlyRenames
      <3>2. r # 1
        <4>1. PICK start : G[1] = AugmentedRule(start)
          BY GrammarsAssumption DEF IsGrammar
        <4>2. G[1].rhs = <<start, EOF>>
          BY <4>1 DEF AugmentedRule
        <4>3. PICK s : s = G[r].rhs
          OBVIOUS
        <4>4. Len(s) = 1
          BY <3>1, <4>3
        <4>5. ASSUME r = 1 PROVE Len(s) = 2
          <5>1. s = <<start, EOF>>
            BY <4>2, <4>3, <4>5
          <5> QED
            BY <5>1
        <4> QED
          BY <4>4, <4>5
      <3>3. PICK c : c = [k \in 0..1 |-> IF k = 0 THEN i ELSE j]
        OBVIOUS
      <3>4. c[0] = i /\ c[1] = j /\ c \in [0..1 -> P] /\ Len(G[r].rhs) = 1
        BY <1>2, <3>1, <3>3
      <3>5. Spells(K, P, G[r].rhs, c)
        BY <2>1, <3>1, <3>4 DEF Spells
      <3>6. r \in 2..Len(gram)
        BY <1>1, <3>2, GrammarShape
      <3> QED
        BY <1>1, <3>1, <3>4, <3>5, <3>6 DEF Closed
    <2>2. <<B, Target(p, B)>> \in C
      OBVIOUS
    <2>3. ASSUME NEW z \in C, NEW Y \in Heads, HasTrans(p, Y), OnlyRenames(z[2], Y, z[1])
          PROVE  <<Y, Target(p, Y)>> \in C
      <3>1. PICK X \in Heads : <<X, i, j>> \in K /\ z = <<X, Target(p, X)>>
        BY <2>3
      <3>2. <<Y, i, j>> \in K
        BY <2>1, <2>3, <3>1
      <3> QED
        BY <3>2
    <2> HIDE DEF C
    <2> QED
      BY <2>2, <2>3 DEF Stands
  <1>4. Reaches(p, B, goto[p][B])
    BY DEF Built, GotoInv, Filled
  <1>5. PICK X \in Heads : <<X, goto[p][B]>> \in C /\ HasTrans(p, X) /\ goto[p][B] = Target(p, X)
    <2> HIDE DEF C
    <2> QED
      BY <1>3, <1>4 DEF Reaches
  <1>6. <<X, i, j>> \in K
    BY <1>5
  <1>7. Target(p, X) \in 1..Len(states)
    BY <1>5, TargetIs DEF Built
  <1> QED
    BY <1>5, <1>6, <1>7 DEF Reads, Symbols
LEMMA HangingShape ==
  ASSUME Built, phase = "ready", NEW K, NEW P, Closed(K, P), NEW D, NEW st, NEW par, NEW at,
         Hanging(K, D, st, par, at), NEW id \in D
  PROVE  st[id] \in 1..Len(states) /\ at[id] \in P
  <1>1. CASE par[id] = 0
    <2>1. st[id] = 1 /\ at[id] = 0
      BY <1>1 DEF Hanging
    <2> QED
      BY <2>1, FirstStateItems DEF Built, Closed
  <1>2. CASE par[id] # 0
    <2>1. PICK p, q, i, j : p = st[par[id]] /\ q = st[id] /\ i = at[par[id]] /\ j = at[id]
      OBVIOUS
    <2>2. Reads(K, p, q, i, j)
      BY <1>2, <2>1 DEF Hanging
    <2>3. q \in 1..Len(states)
      BY <2>2, ReadsIsAStep, StepBack DEF Built
    <2>4. j \in P
      <3>1. gram \in Grammars
        BY DEF Built, LR0Inv, LR0TypeOK
      <3> QED
        BY <2>2 DEF Reads, Closed
    <2> QED
      BY <2>1, <2>3, <2>4
  <1> QED
    BY <1>1, <1>2

LEMMA StateItems ==
  ASSUME Built, NEW p \in 1..Len(states), NEW x \in ToSet(states[p])
  PROVE  x \in ItemsIn(gram)
  <1>1. states \in Seq(Seq(ItemsIn(gram)))
    BY DEF Built, LR0Inv, LR0TypeOK
  <1>2. states[p] \in Seq(ItemsIn(gram))
    BY <1>1
  <1> QED
    BY <1>2, HoldsAt

LEMMA AcceptIsFirst ==
  ASSUME NEW G \in Grammars
  PROVE  /\ G[1].lhs = ACCEPT
         /\ Len(G[1].rhs) = 2 /\ G[1].rhs[1] \in NonTerminals /\ G[1].rhs[2] = EOF
         /\ \A r \in 2..Len(G) : \A k \in 1..Len(G[r].rhs) : G[r].rhs[k] \notin {EOF, ACCEPT}
  <1>1. PICK start \in NonTerminals : G[1] = AugmentedRule(start)
    BY GrammarsAssumption DEF IsGrammar
  <1>2. G[1].lhs = ACCEPT /\ G[1].rhs = <<start, EOF>>
    BY <1>1 DEF AugmentedRule
  <1>3. PICK s : s = G[1].rhs
    OBVIOUS
  <1>4. s = <<start, EOF>>
    BY <1>2, <1>3
  <1>5. Len(s) = 2 /\ s[1] = start /\ s[2] = EOF
    BY <1>4
  <1>6. ASSUME NEW r \in 2..Len(G), NEW k \in 1..Len(G[r].rhs) PROVE G[r].rhs[k] \notin {EOF, ACCEPT}
    <2>1. PICK rhs \in Seq(Terminals \cup NonTerminals) : rhs = G[r].rhs
      BY GrammarsAssumption DEF IsGrammar
    <2>2. rhs[k] \in Terminals \cup NonTerminals
      BY <1>6, <2>1
    <2> QED
      BY <2>1, <2>2, SymbolsAssumption
  <1> QED
    BY <1>2, <1>3, <1>5, <1>6

(* The first item of the accepting rule is in no state but the first.       *)
LEMMA OnlyFirstStarts ==
  ASSUME Built, phase = "ready", NEW p, NEW q, Step(p, q)
  PROVE  Item(1, 0) \notin ToSet(states[q])
  <1>1. PICK G \in Grammars : G = gram
    BY DEF Built, LR0Inv, LR0TypeOK
  <1> SUFFICES ASSUME Item(1, 0) \in ToSet(states[q]) PROVE FALSE
    OBVIOUS
  <1>2. q \in 1..Len(states)
    BY StepBack DEF Built
  <1>3. G[1].lhs \in ExpectedIn(G, ToSet(states[q]))
    <2>1. PICK z : z = Item(1, 0)
      OBVIOUS
    <2>2. z.rule = 1 /\ z.dot = 0 /\ z \in ToSet(states[q])
      BY <2>1, ItemShape
    <2> QED
      BY <1>1, <2>2, StepBack DEF Built
  <1>4. PICK x \in ToSet(states[q]) : ~CompleteIn(G, x) /\ NextSymIn(G, x) = ACCEPT
    BY <1>1, <1>3, AcceptIsFirst DEF ExpectedIn
  <1>5. x \in ItemsIn(G)
    BY <1>1, <1>2, StateItems
  <1>6. PICK r \in 1..Len(G) : r = x.rule /\ Len(G[r].rhs) \in Nat
    BY <1>5, GrammarShape DEF ItemsIn
  <1>7. PICK k \in 1..Len(G[r].rhs) : k = x.dot + 1
    <2>1. x.dot \in Nat
      BY <1>5, ItemShape DEF ItemsIn
    <2>2. x.dot + 1 \in 1..Len(G[r].rhs)
      BY <1>4, <1>6, <2>1 DEF CompleteIn
    <2> QED
      BY <2>2
  <1>8. G[r].rhs[k] = ACCEPT
    BY <1>4, <1>6, <1>7 DEF NextSymIn
  <1>9. r = 1
    BY <1>6, <1>8, AcceptIsFirst, GrammarShape
  <1>10. k \in {1, 2}
    <2>1. Len(G[r].rhs) = 2
      BY <1>9, AcceptIsFirst
    <2> QED
      BY <2>1
  <1> QED
    BY <1>8, <1>9, <1>10, AcceptIsFirst, SymbolsAssumption DEF EOF, ACCEPT

(* A reduce finds the symbols of its rule below it, and its goto reads what *)
(* they have read.                                                          *)
LEMMA ReduceReads ==
  ASSUME Built, phase = "ready", NEW K, NEW P, Closed(K, P), NEW D, NEW st, NEW par, NEW at,
         Hanging(K, D, st, par, at), NEW id \in D,
         NEW t \in TermsEOF, NEW e \in KeptOf(action[st[id]][t]), e.kind = "reduce",
         NEW n \in Nat, n = Len(gram[e.rule].rhs), NEW up, Down(up, par, D, id, n)
  PROVE  /\ \A k \in 0..n : up[k] \in D
         /\ goto[st[up[n]]][gram[e.rule].lhs] # 0
         /\ Reads(K, st[up[n]], goto[st[up[n]]][gram[e.rule].lhs], at[up[n]], at[id])
  <1>1. PICK G \in Grammars : G = gram
    BY DEF Built, LR0Inv, LR0TypeOK
  <1>2. PICK p \in 1..Len(states) : p = st[id]
    BY HangingShape
  <1>3. PICK r \in 1..Len(G) : r = e.rule /\ G[r].lhs # ACCEPT
    BY <1>1, <1>2, ReduceIsComplete
  <1>4. PICK x \in ToSet(states[p]) : x.rule = r /\ x.dot = n
    BY <1>2, <1>3, ReduceIsComplete
  <1>5. x \in Items
    BY <1>2, <1>4, StateItems DEF ItemsIn
  <1>6. LR0Inv /\ phase \notin {"first", "lr0"} /\ x \in ToSet(states[st[id]])
    BY <1>2, <1>4 DEF Built
  <1>7. /\ \A k \in 0..n : up[k] \in D /\ Item(r, n - k) \in ToSet(states[st[up[k]]])
        /\ \A k \in 1..n : <<G[r].rhs[n - (k - 1)], at[up[k]], at[up[k - 1]]>> \in K
    BY <1>1, <1>4, <1>5, <1>6, HangingBack
  <1>8. PICK b \in D : b = up[n]
    BY <1>7
  <1>9. PICK q \in 1..Len(states) : q = st[b]
    BY <1>8, HangingShape
  <1>10. PICK B \in Heads : B = G[r].lhs
    BY GrammarShape
  <1>11. HasTrans(q, B)
    <2>1. PICK z : z = Item(r, 0)
      OBVIOUS
    <2>2. z.dot = 0 /\ z.rule = r /\ z \in ToSet(states[q])
      <3>1. n - n = 0 /\ n \in 0..n
        OBVIOUS
      <3>2. Item(r, n - n) \in ToSet(states[st[up[n]]])
        BY <1>7, <3>1
      <3>3. Item(r, 0) \in ToSet(states[q])
        BY <1>8, <1>9, <3>1, <3>2
      <3> QED
        BY <2>1, <3>3, ItemShape
    <2>3. B \in ExpectedIn(gram, ToSet(states[q]))
      <3>1. CASE par[b] = 0
        <4>1. q = 1 /\ r # 1
          BY <3>1, <1>3, <1>9, AcceptIsFirst DEF Hanging
        <4> QED
          BY <1>1, <1>10, <2>2, <4>1, FirstStateItems DEF Built
      <3>2. CASE par[b] # 0
        <4>1. PICK p0, i, j : p0 = st[par[b]] /\ i = at[par[b]] /\ j = at[b]
          OBVIOUS
        <4>2. Step(p0, q)
          BY <3>2, <1>9, <4>1, ReadsIsAStep DEF Hanging
        <4> QED
          BY <1>1, <1>10, <2>2, <4>2, StepBack DEF Built
      <3> QED
        BY <3>1, <3>2
    <2> QED
      BY <1>9, <2>3, ExpectedMoves
  <1>12. PICK c : c = [k \in 0..n |-> at[up[n - k]]]
    OBVIOUS
  <1>13. PICK rhs : rhs = G[r].rhs /\ Len(rhs) = n
    BY <1>1, <1>3
  <1>14. Spells(K, P, rhs, c)
    <2>1. c \in [0..n -> P]
      <3>1. ASSUME NEW k \in 0..n PROVE at[up[n - k]] \in P
        <4>1. n - k \in 0..n
          OBVIOUS
        <4>2. up[n - k] \in D
          BY <1>7, <4>1
        <4> QED
          BY <4>2, HangingShape
      <3> QED
        BY <1>12, <3>1
    <2>2. ASSUME NEW k \in 1..n PROVE <<rhs[k], c[k - 1], c[k]>> \in K
      <3>1. PICK m \in 1..n : m = n - (k - 1)
        <4>1. n - (k - 1) \in 1..n
          OBVIOUS
        <4> QED
          BY <4>1
      <3>2. n - (m - 1) = k /\ m = n - (k - 1) /\ m - 1 = n - k /\ k - 1 \in 0..n /\ k \in 0..n
        BY <3>1
      <3>3. c[k - 1] = at[up[m]] /\ c[k] = at[up[m - 1]]
        BY <1>12, <3>2
      <3> QED
        BY <1>7, <1>13, <3>2, <3>3
    <2> QED
      BY <1>13, <2>1, <2>2 DEF Spells
  <1>15. <<B, at[b], at[id]>> \in K
    <2>1. r \in 2..Len(gram)
      BY <1>1, <1>3, AcceptIsFirst, GrammarShape
    <2>2. <<B, c[0], c[n]>> \in K
      BY <1>1, <1>10, <1>13, <1>14, <2>1 DEF Closed
    <2>3. c[0] = at[b] /\ c[n] = at[id]
      <3>1. 0 \in 0..n /\ n \in 0..n /\ n - 0 = n /\ n - n = 0 /\ up[0] = id
        BY DEF Down
      <3> QED
        BY <1>8, <1>12, <3>1
    <2> QED
      BY <2>2, <2>3
  <1>16. PICK i, j : i = at[b] /\ j = at[id]
    OBVIOUS
  <1>17. goto[q][B] # 0 /\ Reads(K, q, goto[q][B], i, j)
    BY <1>11, <1>15, <1>16, GotoReads
  <1> QED
    BY <1>1, <1>3, <1>7, <1>8, <1>9, <1>10, <1>16, <1>17
(* At an accept entry the start symbol has been read, from the bottom up.   *)
LEMMA AcceptReads ==
  ASSUME Built, phase = "ready", NEW K, NEW P, Closed(K, P), NEW D, NEW st, NEW par, NEW at,
         Hanging(K, D, st, par, at), NEW id \in D,
         NEW t \in TermsEOF, NEW e \in KeptOf(action[st[id]][t]), e.kind = "accept"
  PROVE  t = EOF /\ <<Start, 0, at[id]>> \in K
  <1>1. PICK G \in Grammars : G = gram
    BY DEF Built, LR0Inv, LR0TypeOK
  <1>2. PICK p \in 1..Len(states) : p = st[id]
    BY HangingShape
  <1>3. e \in AltUpto(p, Len(states[p]), t)
    BY <1>2, KeptIsOffered
  <1>4. \A r : Reduce(r).kind # "accept"
    BY EntryShape
  <1>5. e \in Moves(p, t)
    BY <1>3, <1>4 DEF AltUpto
  <1>6. PICK y \in trans : y.from = p /\ y.sym = t /\ e = IF t = EOF THEN Accept ELSE Shift(y.to)
    BY <1>5 DEF Moves
  <1>7. t = EOF
    BY <1>6, EntryShape
  <1>8. EOF \in ExpectedIn(G, ToSet(states[p]))
    BY <1>1, <1>6, <1>7 DEF Built, LR0Inv, TransAreMoves
  <1>9. PICK x \in ToSet(states[p]) : ~CompleteIn(G, x) /\ NextSymIn(G, x) = EOF
    BY <1>8 DEF ExpectedIn
  <1>10. x \in ItemsIn(G)
    BY <1>1, <1>2, <1>9, StateItems
  <1>11. PICK r \in 1..Len(G) : r = x.rule /\ Len(G[r].rhs) \in Nat
    BY <1>10, GrammarShape DEF ItemsIn
  <1>12. PICK d \in Nat : d = x.dot /\ x \in Items
    BY <1>10, ItemShape DEF ItemsIn
  <1>13. d + 1 \in 1..Len(G[r].rhs) /\ G[r].rhs[d + 1] = EOF
    BY <1>9, <1>11, <1>12 DEF CompleteIn, NextSymIn
  <1>14. r = 1
    BY <1>11, <1>13, AcceptIsFirst, GrammarShape
  <1>15. d = 1
    <2>1. Len(G[r].rhs) = 2 /\ G[r].rhs[1] # EOF
      BY <1>14, AcceptIsFirst, SymbolsAssumption
    <2> QED
      BY <1>13, <2>1
  <1>16. PICK up : up = [k \in 0..1 |-> IF k = 0 THEN id ELSE par[id]]
    OBVIOUS
  <1>17. up[0] = id /\ up[1] = par[id]
    BY <1>16
  <1>18. Down(up, par, D, id, 1)
    BY <1>17 DEF Down
  <1>19. LR0Inv /\ phase \notin {"first", "lr0"} /\ x \in ToSet(states[st[id]])
    BY <1>2, <1>9 DEF Built
  <1>20. /\ \A k \in 0..1 : up[k] \in D /\ Item(1, 1 - k) \in ToSet(states[st[up[k]]])
         /\ \A k \in 1..1 : <<G[1].rhs[1 - (k - 1)], at[up[k]], at[up[k - 1]]>> \in K
    <2>1. 1 \in Nat /\ x.dot = 1 /\ x.rule = 1
      BY <1>11, <1>12, <1>14, <1>15
    <2>2. /\ \A k \in 0..1 : up[k] \in D /\ Item(x.rule, 1 - k) \in ToSet(states[st[up[k]]])
          /\ \A k \in 1..1 : <<gram[x.rule].rhs[1 - (k - 1)], at[up[k]], at[up[k - 1]]>> \in K
      BY <1>12, <1>18, <1>19, <2>1, HangingBack
    <2> QED
      BY <1>1, <2>1, <2>2
  <1>21. PICK b \in D : b = par[id] /\ Item(1, 0) \in ToSet(states[st[b]])
    BY <1>17, <1>20
  <1>22. <<G[1].rhs[1], at[b], at[id]>> \in K
    <2>1. 1 \in 1..1 /\ 1 - 1 = 0 /\ 1 - 0 = 1
      OBVIOUS
    <2>2. <<G[1].rhs[1 - (1 - 1)], at[up[1]], at[up[1 - 1]]>> \in K
      BY <1>20, <2>1
    <2> QED
      BY <1>17, <1>21, <2>1, <2>2
  <1>23. at[b] = 0
    <2>1. CASE par[b] = 0
      BY <2>1 DEF Hanging
    <2>2. CASE par[b] # 0
      <3>1. PICK p0, q, i, j : p0 = st[par[b]] /\ q = st[b] /\ i = at[par[b]] /\ j = at[b]
        OBVIOUS
      <3>2. Step(p0, q)
        BY <2>2, <3>1, ReadsIsAStep DEF Hanging
      <3> QED
        BY <1>21, <3>1, <3>2, OnlyFirstStarts
    <2> QED
      BY <2>1, <2>2
  <1> QED
    BY <1>1, <1>7, <1>22, <1>23 DEF Start
-----------------------------------------------------------------------------
(* A token the lexer handed out, at its lexeme, and where it goes on.       *)
IsLexeme(tok, next) ==
  \/ tok.type = EOF /\ tok.at = Len(input) + 1 /\ next = tok.at
  \/ tok.type = ERROR /\ tok.at \in 1..Len(input) /\ next = tok.at
  \/ /\ tok.at \in 1..Len(input) /\ next = tok.at + 1
     /\ tok.type \in ToSet(CandidateOrder[input[tok.at]])

(* A row that has the lexer drop nothing but skips.                         *)
DropsSkips(row) == \A t : Entry(row, t).kind = "ignore" => t \in AlwaysSkip

LEMMA CandidatesAre ==
  ASSUME LexerOK, NEW row, NEW k \in 1..Len(input), CandidatesAt(row, k) # <<>>
  PROVE  CandidatesAt(row, k)[1] \in ToSet(CandidateOrder[input[k]])
  <1>1. PICK S : S = Terminals \ {ERROR}
    OBVIOUS
  <1>2. PICK order \in Seq(S) : order = CandidateOrder[input[k]]
    BY <1>1, LexingAssumption DEF LexerOK
  <1>3. PICK I : I = {j \in 1..Len(order) : Entry(row, order[j]) # NoEntry}
    OBVIOUS
  <1>0. PICK found : found = Selected(order, I)
    OBVIOUS
  <1>4. found = CandidatesAt(row, k)
    BY <1>0, <1>2, <1>3 DEF CandidatesAt
  <1>5. found \in Seq(S) /\ \A x : x \in ToSet(found) <=> \E n \in 1..Len(order) : n \in I /\ x = order[n]
    <2>1. /\ Selected(order, I) \in Seq(S)
          /\ \A x : x \in ToSet(Selected(order, I)) <=> \E n \in 1..Len(order) : n \in I /\ x = order[n]
      BY SelectedIs
    <2> QED
      BY <1>0, <2>1
  <1>6. 1 \in 1..Len(found)
    BY <1>4, <1>5
  <1>7. found[1] \in ToSet(found)
    BY <1>5, <1>6, HoldsAt
  <1>8. PICK n \in 1..Len(order) : found[1] = order[n]
    BY <1>5, <1>7
  <1> QED
    BY <1>2, <1>4, <1>8, HoldsAt

LEMMA GapsJoin ==
  ASSUME Len(input) \in Nat, NEW i \in Nat, NEW j \in Nat, NEW k \in Nat, Gap(i, j), Gap(j, k)
  PROVE  Gap(i, k)
  <1>1. i <= j /\ j <= k
    BY DEF Gap
  <1>2. \A m \in (i + 1)..k : m \in (i + 1)..j \/ m \in (j + 1)..k
    BY <1>1
  <1> QED
    BY <1>1, <1>2 DEF Gap

(* The lexer passes over skips only, and hands out what stands behind them. *)
LEMMA LexedReads ==
  ASSUME LexerOK, NEW row, DropsSkips(row), NEW t, t = Lexed(row).tok, NEW o, o = Lexed(row).next
  PROVE  IsLexeme(t, o) /\ t.at \in Nat \ {0} /\ Gap(offset - 1, t.at - 1) /\ o \in 1..(Len(input) + 1)
  <1>1. PICK n \in Nat : n = Len(input)
    BY DEF LexerOK
  <1>2. PICK i \in 1..(n + 1) : i = NextStop(row) /\ i >= offset /\ (i <= n => ~IgnoredAt(row, i))
    BY <1>1, StopsSomewhere
  <1>3. \A j \in offset..(i - 1) : IgnoredAt(row, j)
    BY <1>2, StopsSomewhere
  <1>4. offset \in 1..(n + 1)
    BY <1>1 DEF LexerOK
  <1>5. Gap(offset - 1, i - 1)
    <2>1. ASSUME NEW j \in (offset - 1 + 1)..(i - 1)
          PROVE  \E s \in AlwaysSkip : s \in ToSet(CandidateOrder[input[j]])
      <3>1. j \in 1..Len(input) /\ IgnoredAt(row, j)
        BY <1>1, <1>2, <1>3, <1>4
      <3>2. PICK s : s = CandidatesAt(row, j)[1]
        OBVIOUS
      <3>3. s \in ToSet(CandidateOrder[input[j]])
        BY <3>1, <3>2, CandidatesAre DEF IgnoredAt
      <3>4. s \in AlwaysSkip
        BY <3>1, <3>2 DEF IgnoredAt, DropsSkips
      <3> QED
        BY <3>3, <3>4
    <2> QED
      BY <1>2, <1>4, <2>1 DEF Gap
  <1>6. CASE i > n
    <2>1. Lexed(row) = [tok |-> [type |-> EOF, at |-> i], next |-> i]
      BY <1>1, <1>2, <1>6 DEF Lexed
    <2>2. t.type = EOF /\ t.at = i /\ o = i /\ i = n + 1
      BY <1>6, <2>1
    <2> QED
      BY <1>1, <1>5, <2>2 DEF IsLexeme
  <1>7. CASE i <= n /\ CandidatesAt(row, i) = <<>>
    <2>1. Lexed(row) = [tok |-> [type |-> ERROR, at |-> i], next |-> i]
      BY <1>1, <1>2, <1>7 DEF Lexed
    <2>2. t.type = ERROR /\ t.at = i /\ o = i
      BY <2>1
    <2> QED
      BY <1>1, <1>5, <1>7, <2>2 DEF IsLexeme
  <1>8. CASE i <= n /\ CandidatesAt(row, i) # <<>>
    <2>1. PICK s : s = CandidatesAt(row, i)[1]
      OBVIOUS
    <2>2. Lexed(row) = [tok |-> [type |-> s, at |-> i], next |-> i + 1]
      BY <1>1, <1>2, <1>8, <2>1 DEF Lexed
    <2>3. t.type = s /\ t.at = i /\ o = i + 1
      BY <2>2
    <2>4. s \in ToSet(CandidateOrder[input[i]])
      BY <1>1, <1>8, <2>1, CandidatesAre
    <2> QED
      BY <1>1, <1>5, <1>8, <2>3, <2>4 DEF IsLexeme
  <1> QED
    BY <1>6, <1>7, <1>8

LEMMA RowsDropSkips ==
  ASSUME AlwaysInv, phase = "ready", NEW p \in 1..Len(states)
  PROVE  DropsSkips(action[p])
  BY EntryIs DEF DropsSkips, Dropped
-----------------------------------------------------------------------------
(* A stack, and up to where the text is read under each of its frames.      *)
IsRead(K, s, c) ==
  /\ (\E S : s \in Seq(S)) /\ Len(s) > 0 /\ c \in Seq(Nat) /\ Len(c) = Len(s)
  /\ s[1].state = 1 /\ c[1] = 0
  /\ \A k \in 2..Len(s) : Reads(K, s[k - 1].state, s[k].state, c[k - 1], c[k])

LEMMA ReadShape ==
  ASSUME Built, phase = "ready", NEW K, NEW s, NEW c, IsRead(K, s, c)
  PROVE  /\ Len(s) \in Nat /\ Len(s) > 0
         /\ \A k \in 1..Len(s) : s[k].state \in 1..Len(states)
  <1>1. PICK n \in Nat : n = Len(s) /\ n > 0
    BY DEF IsRead
  <1>2. ASSUME NEW k \in 1..n PROVE s[k].state \in 1..Len(states)
    <2>1. CASE k = 1
      BY <2>1, FirstStateItems DEF IsRead, Built
    <2>2. CASE k # 1
      <3>1. k \in 2..n
        BY <2>2
      <3>2. PICK p, q, i, j : p = s[k - 1].state /\ q = s[k].state /\ i = c[k - 1] /\ j = c[k]
        OBVIOUS
      <3>3. Step(p, q)
        BY <1>1, <3>1, <3>2, ReadsIsAStep DEF IsRead
      <3> QED
        BY <3>2, <3>3, StepBack DEF Built
    <2> QED
      BY <2>1, <2>2
  <1> QED
    BY <1>1, <1>2

LEMMA ReadIsAStack ==
  ASSUME Built, phase = "ready", NEW K, NEW s, NEW c, IsRead(K, s, c)
  PROVE  IsStack(s)
  <1>1. PICK S : s \in Seq(S)
    BY DEF IsRead
  <1>2. \A k \in 1..Len(s) : s[k].state \in Nat
    BY ReadShape
  <1>3. ASSUME NEW k \in 2..Len(s) PROVE Step(s[k - 1].state, s[k].state)
    <2>1. PICK p, q, i, j : p = s[k - 1].state /\ q = s[k].state /\ i = c[k - 1] /\ j = c[k]
      OBVIOUS
    <2>2. Step(p, q)
      BY <2>1, ReadsIsAStep DEF IsRead
    <2> QED
      BY <2>1, <2>2
  <1> QED
    BY <1>1, <1>2, <1>3, IsStackIf DEF IsRead

(* Without regard to the text, a stack is read in any case.                 *)
LEMMA StackIsRead ==
  ASSUME NEW s, IsStack(s)
  PROVE  \E c : IsRead(Anything, s, c) /\ \A k \in 1..Len(s) : c[k] = 0
  <1>1. PICK n \in Nat : n = Len(s) /\ n > 0
    BY StackShape
  <1>2. PICK c : c = [k \in 1..n |-> 0]
    OBVIOUS
  <1>3. c \in Seq(Nat) /\ Len(c) = n /\ \A k \in 1..n : c[k] = 0
    BY <1>1, <1>2
  <1>4. ASSUME NEW k \in 2..n PROVE Reads(Anything, s[k - 1].state, s[k].state, c[k - 1], c[k])
    <2>1. c[k - 1] = 0 /\ c[k] = 0
      BY <1>3
    <2>2. Step(s[k - 1].state, s[k].state)
      BY <1>1, StackSteps
    <2> QED
      BY <2>1, <2>2 DEF Step, Reads, Anything
  <1>5. (\E S : s \in Seq(S)) /\ s[1].state = 1
    BY StackSteps DEF IsStack
  <1> QED
    BY <1>1, <1>3, <1>4, <1>5 DEF IsRead

LEMMA ReadHangs ==
  ASSUME NEW K, NEW s, NEW c, IsRead(K, s, c)
  PROVE  Hanging(K, 1..Len(s), StatesOf(s), [k \in 1..Len(s) |-> k - 1], c)
  <1>1. PICK n \in Nat : n = Len(s) /\ n > 0
    BY DEF IsRead
  <1>0. PICK st : st = StatesOf(s)
    OBVIOUS
  <1>2. \A k \in 1..n : st[k] = s[k].state
    BY <1>0, <1>1 DEF StatesOf
  <1>3. PICK par : par = [k \in 1..n |-> k - 1]
    OBVIOUS
  <1>4. 0 \notin 1..n
    OBVIOUS
  <1>5. ASSUME NEW k \in 1..n
        PROVE  /\ par[k] \in (1..n) \cup {0}
               /\ par[k] = 0 => st[k] = 1 /\ c[k] = 0
               /\ par[k] # 0 => Reads(K, st[par[k]], st[k], c[par[k]], c[k])
    <2>1. par[k] = k - 1
      BY <1>3
    <2>2. CASE k = 1
      BY <1>1, <1>2, <2>1, <2>2 DEF IsRead
    <2>3. CASE k # 1
      <3>1. k \in 2..n /\ k - 1 \in 1..n
        BY <2>3
      <3>2. st[k - 1] = s[k - 1].state /\ st[k] = s[k].state
        BY <1>2, <3>1
      <3>3. Reads(K, s[k - 1].state, s[k].state, c[k - 1], c[k])
        BY <1>1, <3>1 DEF IsRead
      <3> QED
        BY <2>1, <3>1, <3>2, <3>3
    <2> QED
      BY <2>2, <2>3
  <1> QED
    BY <1>0, <1>1, <1>3, <1>4, <1>5 DEF Hanging

Pushed(b, s, x) == b = Append(s, x)

LEMMA ReadPushes ==
  ASSUME NEW K, NEW s, NEW c, IsRead(K, s, c), NEW f, NEW j \in Nat,
         Reads(K, s[Len(s)].state, f.state, c[Len(s)], j),
         NEW b, Pushed(b, s, f), NEW d, Pushed(d, c, j)
  PROVE  IsRead(K, b, d) /\ d[Len(b)] = j
  <1>1. PICK S : s \in Seq(S)
    BY DEF IsRead
  <1>2. PICK n \in Nat : n = Len(s) /\ n > 0
    BY DEF IsRead
  <1>12. n = Len(c) /\ c \in Seq(Nat)
    BY <1>2 DEF IsRead
  <1>3. PICK T : T = S \cup {f}
    OBVIOUS
  <1>4. s \in Seq(T) /\ f \in T
    BY <1>1, <1>3
  <1>6. b \in Seq(T) /\ Len(b) = n + 1 /\ b[n + 1] = f /\ \A k \in 1..n : b[k] = s[k]
    BY <1>2, <1>4 DEF Pushed
  <1>7. d \in Seq(Nat) /\ Len(d) = n + 1 /\ d[n + 1] = j /\ \A k \in 1..n : d[k] = c[k]
    BY <1>2, <1>12 DEF Pushed
  <1>8. ASSUME NEW k \in 2..(n + 1) PROVE Reads(K, b[k - 1].state, b[k].state, d[k - 1], d[k])
    <2>1. CASE k = n + 1
      <3>1. b[k - 1] = s[n] /\ b[k] = f /\ d[k - 1] = c[n] /\ d[k] = j
        BY <1>2, <1>12, <1>6, <1>7, <2>1
      <3> QED
        BY <1>2, <1>12, <3>1
    <2>2. CASE k \in 2..n
      <3>0. k - 1 \in 1..n /\ k \in 1..n
        BY <2>2
      <3>1. b[k - 1] = s[k - 1] /\ b[k] = s[k] /\ d[k - 1] = c[k - 1] /\ d[k] = c[k]
        BY <1>6, <1>7, <3>0
      <3> QED
        BY <1>2, <1>12, <2>2, <3>1 DEF IsRead
    <2> QED
      BY <2>1, <2>2
  <1>9. b[1].state = 1 /\ d[1] = 0
    BY <1>2, <1>12, <1>6, <1>7 DEF IsRead
  <1>10. Len(b) > 0 /\ Len(d) = Len(b)
    BY <1>2, <1>6, <1>7
  <1>11. IsRead(K, b, d)
    BY <1>6, <1>7, <1>8, <1>9, <1>10 DEF IsRead
  <1> QED
    BY <1>2, <1>6, <1>7, <1>11

LEMMA ReadPops ==
  ASSUME NEW K, NEW s, NEW c, IsRead(K, s, c), NEW m \in 1..Len(s)
  PROVE  /\ IsRead(K, SubSeq(s, 1, m), SubSeq(c, 1, m))
         /\ Len(SubSeq(s, 1, m)) = m /\ SubSeq(s, 1, m)[m] = s[m] /\ SubSeq(c, 1, m)[m] = c[m]
  <1>1. PICK S : s \in Seq(S)
    BY DEF IsRead
  <1>2. PICK n \in Nat : n = Len(s) /\ m <= n
    BY DEF IsRead
  <1>12. n = Len(c) /\ c \in Seq(Nat)
    BY <1>2 DEF IsRead
  <1>3. PICK b : b = SubSeq(s, 1, m)
    OBVIOUS
  <1>0. PICK d : d = SubSeq(c, 1, m)
    OBVIOUS
  <1>4. b \in Seq(S) /\ Len(b) = m /\ \A k \in 1..m : b[k] = s[k]
    BY <1>1, <1>2, <1>3
  <1>5. d \in Seq(Nat) /\ Len(d) = m /\ \A k \in 1..m : d[k] = c[k]
    BY <1>0, <1>2, <1>12
  <1>6. ASSUME NEW k \in 2..m PROVE Reads(K, b[k - 1].state, b[k].state, d[k - 1], d[k])
    <2>1. b[k - 1] = s[k - 1] /\ b[k] = s[k] /\ d[k - 1] = c[k - 1] /\ d[k] = c[k] /\ k \in 2..n
      BY <1>2, <1>4, <1>5
    <2> QED
      BY <1>2, <1>12, <2>1 DEF IsRead
  <1>7. b[1].state = 1 /\ d[1] = 0
    BY <1>2, <1>12, <1>4, <1>5 DEF IsRead
  <1>8. IsRead(K, b, d)
    BY <1>4, <1>5, <1>6, <1>7 DEF IsRead
  <1> QED
    BY <1>0, <1>3, <1>4, <1>5, <1>8

(* The frames below the top, one by one down.                               *)
LEMMA DownTheStack ==
  ASSUME NEW m \in Nat, NEW n \in Nat
  PROVE  Down([k \in 0..n |-> m - k], [k \in 1..m |-> k - 1], 1..m, m, n)
  <1>1. PICK up, par : up = [k \in 0..n |-> m - k] /\ par = [k \in 1..m |-> k - 1]
    OBVIOUS
  <1>2. up[0] = m
    BY <1>1
  <1>3. ASSUME NEW k \in 1..n, up[k - 1] \in 1..m PROVE up[k] = par[up[k - 1]]
    <2>1. up[k - 1] = m - (k - 1) /\ up[k] = m - k
      BY <1>1
    <2> QED
      BY <1>1, <1>3, <2>1
  <1> QED
    BY <1>1, <1>2, <1>3 DEF Down

(* What a reduce, a shift and an accept do to a stack that is read.         *)
LEMMA ReduceOnRead ==
  ASSUME Built, phase = "ready", NEW K, NEW P, Closed(K, P), NEW s, NEW c, IsRead(K, s, c),
         NEW t \in TermsEOF, NEW e \in KeptOf(action[s[Len(s)].state][t]), e.kind = "reduce"
  PROVE  \E m \in 1..Len(s) :
            /\ m = Len(s) - Len(gram[e.rule].rhs)
            /\ goto[s[m].state][gram[e.rule].lhs] # 0
            /\ Reads(K, s[m].state, goto[s[m].state][gram[e.rule].lhs], c[m], c[Len(s)])
  <1>1. PICK l \in Nat : l = Len(s) /\ l > 0
    BY DEF IsRead
  <1>2. PICK D, st, par : D = 1..l /\ st = StatesOf(s) /\ par = [k \in 1..l |-> k - 1]
    OBVIOUS
  <1>3. Hanging(K, D, st, par, c) /\ l \in D
    BY <1>1, <1>2, ReadHangs
  <1>4. \A k \in D : st[k] = s[k].state
    BY <1>1, <1>2 DEF StatesOf
  <1>5. PICK n \in Nat : n = Len(gram[e.rule].rhs)
    <2>1. s[l].state \in 1..Len(states)
      BY <1>1, ReadShape
    <2>2. e.rule \in 1..Len(gram)
      BY <1>1, <2>1, ReduceIsComplete
    <2> QED
      BY <2>2, GrammarShape DEF Built, LR0Inv, LR0TypeOK
  <1>6. PICK up : up = [k \in 0..n |-> l - k]
    OBVIOUS
  <1>7. Down(up, par, D, l, n)
    BY <1>2, <1>6, DownTheStack
  <1>8. e \in KeptOf(action[st[l]][t])
    BY <1>1, <1>3, <1>4
  <1>9. /\ \A k \in 0..n : up[k] \in D
        /\ goto[st[up[n]]][gram[e.rule].lhs] # 0
        /\ Reads(K, st[up[n]], goto[st[up[n]]][gram[e.rule].lhs], c[up[n]], c[l])
    BY <1>3, <1>5, <1>7, <1>8, ReduceReads
  <1>10. PICK m \in 1..l : m = up[n] /\ m = l - n
    <2>1. n \in 0..n
      OBVIOUS
    <2> QED
      BY <1>2, <1>6, <1>9, <2>1
  <1>11. st[m] = s[m].state
    BY <1>2, <1>4
  <1> QED
    BY <1>1, <1>5, <1>9, <1>10, <1>11

LEMMA AcceptOnRead ==
  ASSUME Built, phase = "ready", NEW K, NEW P, Closed(K, P), NEW s, NEW c, IsRead(K, s, c),
         NEW t \in TermsEOF, NEW e \in KeptOf(action[s[Len(s)].state][t]), e.kind = "accept"
  PROVE  t = EOF /\ <<Start, 0, c[Len(s)]>> \in K
  <1>1. PICK l \in Nat : l = Len(s) /\ l > 0
    BY DEF IsRead
  <1>2. PICK D, st, par : D = 1..l /\ st = StatesOf(s) /\ par = [k \in 1..l |-> k - 1]
    OBVIOUS
  <1>3. Hanging(K, D, st, par, c) /\ l \in D
    BY <1>1, <1>2, ReadHangs
  <1>4. st[l] = s[l].state
    BY <1>1, <1>2 DEF StatesOf
  <1> QED
    BY <1>1, <1>3, <1>4, AcceptReads

LEMMA ShiftReads ==
  ASSUME Built, phase = "ready", NEW K, NEW P, Closed(K, P), NEW p \in 1..Len(states), NEW t \in TermsEOF,
         NEW e \in KeptOf(action[p][t]), e.kind = "shift", NEW i, NEW j, <<t, i, j>> \in K
  PROVE  Reads(K, p, e.to, i, j) /\ t # EOF
  <1>1. HasTrans(p, t) /\ e.to = Target(p, t) /\ t # EOF
    BY ShiftIsAMove
  <1> QED
    BY <1>1 DEF Reads, Symbols
-----------------------------------------------------------------------------
(* Where a token leads: past its lexeme, or nowhere if it is the error      *)
(* token or one that recovery made up.                                      *)
LEMMA LexemeIsRead ==
  ASSUME LexerOK, NEW t, NEW o, IsLexeme(t, o), t.type \in TermsEOF \ {EOF},
         NEW i \in Nat, Gap(i, t.at - 1)
  PROVE  \E j \in Places : <<t.type, i, j>> \in Tokens /\ Gap(j, o - 1)
  <1>1. PICK n \in Nat : n = Len(input)
    BY DEF LexerOK
  <1>2. t.at \in 1..n
    BY <1>1 DEF IsLexeme
  <1>3. i \in Places /\ t.at \in Places /\ t.at - 1 \in Nat /\ i <= t.at - 1
    BY <1>1, <1>2 DEF Places, Gap
  <1>4. CASE t.type = ERROR /\ o = t.at
    <2>1. PICK w : w = <<t.type, i, i>>
      OBVIOUS
    <2>2. w \in Tokens
      BY <1>3, <1>4, <2>1 DEF Tokens
    <2> QED
      BY <1>3, <1>4, <2>1, <2>2
  <1>5. CASE o = t.at + 1 /\ t.type \in ToSet(CandidateOrder[input[t.at]])
    <2>1. PICK a \in 1..n : a = t.at /\ a \in Places /\ i < a /\ o - 1 = a
      BY <1>2, <1>3, <1>5
    <2>2. PICK w : w = <<t.type, i, a>>
      OBVIOUS
    <2>3. w \in TermsEOF \X Places \X Places /\ w[1] = t.type /\ w[2] = i /\ w[3] = a
      BY <1>3, <2>1, <2>2
    <2>4. Gap(w[2], w[3] - 1) /\ w[2] < w[3] /\ w[1] \in ToSet(CandidateOrder[input[w[3]]])
      BY <1>5, <2>1, <2>3
    <2>5. w \in Tokens
      BY <2>3, <2>4 DEF Tokens
    <2>6. Gap(a, a)
      BY <2>1 DEF Gap
    <2> QED
      BY <2>1, <2>2, <2>5, <2>6
  <1> QED
    BY <1>4, <1>5 DEF IsLexeme

LEMMA InsertedIsRead ==
  ASSUME LexerOK, NEW t \in TermsEOF, t \in RecoverTerms, NEW i \in Places
  PROVE  <<t, i, i>> \in Tokens
  BY DEF Tokens

LEMMA ErrorTakesNothing ==
  ASSUME LexerOK, NEW t, NEW o, IsLexeme(t, o), t.type = ERROR
  PROVE  o = t.at
  <1>1. ASSUME t.at \in 1..Len(input), t.type \in ToSet(CandidateOrder[input[t.at]]) PROVE FALSE
    <2>1. PICK S : S = Terminals \ {ERROR}
      OBVIOUS
    <2>2. PICK order \in Seq(S) : order = CandidateOrder[input[t.at]]
      BY <1>1, <2>1, LexingAssumption DEF LexerOK
    <2>3. PICK n \in 1..Len(order) : t.type = order[n]
      BY <1>1, <2>2, HoldsAt
    <2> QED
      BY <2>1, <2>2, <2>3
  <1> QED
    BY <1>1 DEF IsLexeme
-----------------------------------------------------------------------------
(* What makes the text count: no fork begins on a token that is not in it,  *)
(* and recovery never answers that the input ends.                          *)
RecoveryGoesOn == EOF \notin RecoverTerms
PlainForks == NoForksOn(RecoverTerms) /\ (prefixMode => NoForksOn({EOF}))

(* The stack spells the text up to the lookahead, which is a token of it.   *)
ReadTo(j) == \E c : IsRead(Phrases, stack, c) /\ Gap(c[Len(stack)], j)
Pending == IsLexeme(realTok, offset) /\ realTok.at \in Nat \ {0} /\ ReadTo(realTok.at - 1)

InText ==
  /\ mode = "lex" => ReadTo(offset - 1)
  /\ mode \in {"parse", "fork"} => Pending
  /\ mode = "fork" => forkTok = realTok
  /\ mode = "accepted" => IsSentence(result.consumed)

Reading == RecoveryGoesOn /\ PlainForks => InText

LEMMA TextStands ==
  ASSUME UNCHANGED <<actionTableVars, input>>
  PROVE  /\ Phrases' = Phrases
         /\ \A i, j : Gap(i, j)' <=> Gap(i, j)
         /\ \A t, o : IsLexeme(t, o)' <=> IsLexeme(t, o)
         /\ \A n : IsSentence(n)' <=> IsSentence(n)
         /\ \A T : NoForksOn(T)' <=> NoForksOn(T)
         /\ \A s, c : IsRead(Phrases, s, c)' <=> IsRead(Phrases, s, c)
         /\ \A K, s, c : IsRead(K, s, c)' <=> IsRead(K, s, c)
  <1>1. gram' = gram /\ input' = input /\ action' = action /\ trans' = trans
    BY DEF actionTableVars, lookaheadsVars, automatonVars, lr0Vars, firstVars, tableVars
  <1>2. Phrases' = Phrases
    BY <1>1 DEF Phrases, ByRules, Ends, Tokens, Gap, Places
  <1>3. \A i, j : Gap(i, j)' <=> Gap(i, j)
    BY <1>1 DEF Gap
  <1>4. \A t, o : IsLexeme(t, o)' <=> IsLexeme(t, o)
    BY <1>1 DEF IsLexeme
  <1>5. \A n : IsSentence(n)' <=> IsSentence(n)
    BY <1>1, <1>2, <1>3 DEF IsSentence, Start, Places
  <1>6. \A T : NoForksOn(T)' <=> NoForksOn(T)
    BY <1>1 DEF NoForksOn, Entry
  <1>7. \A K, p, q, i, j : Reads(K, p, q, i, j)' <=> Reads(K, p, q, i, j)
    BY <1>1 DEF Reads, HasTrans, Target
  <1>8. \A K, s, c : IsRead(K, s, c)' <=> IsRead(K, s, c)
    BY <1>7 DEF IsRead
  <1>9. \A s, c : IsRead(Phrases, s, c)' <=> IsRead(Phrases, s, c)
    BY <1>2, <1>7 DEF IsRead
  <1> QED
    BY <1>2, <1>3, <1>4, <1>5, <1>6, <1>8, <1>9

LEMMA ReadsOn ==
  ASSUME Built, AlwaysInv, phase = "ready", LexerOK, NEW p \in 1..Len(states), Advances(action[p]),
         NEW t, t = realTok', NEW o, o = offset', NEW j \in Nat, Gap(j, offset - 1)
  PROVE  IsLexeme(t, o) /\ t.at \in Nat \ {0} /\ Gap(j, t.at - 1)
  <1>1. PICK row : row = action[p]
    OBVIOUS
  <1>2. DropsSkips(row)
    BY <1>1, RowsDropSkips
  <1>3. t = Lexed(row).tok /\ o = Lexed(row).next
    BY <1>1 DEF Advances
  <1>4. IsLexeme(t, o) /\ t.at \in Nat \ {0} /\ Gap(offset - 1, t.at - 1)
    BY <1>2, <1>3, LexedReads
  <1>5. offset - 1 \in Nat /\ t.at - 1 \in Nat /\ Len(input) \in Nat
    BY <1>4 DEF LexerOK
  <1> QED
    BY <1>4, <1>5, GapsJoin

LEMMA PendingNext ==
  ASSUME UNCHANGED <<actionTableVars, input>>, NEW s, s = stack', NEW c, IsRead(Phrases, s, c),
         NEW t, t = realTok', NEW o, o = offset', IsLexeme(t, o), t.at \in Nat \ {0},
         Gap(c[Len(s)], t.at - 1)
  PROVE  Pending'
  BY TextStands DEF Pending, ReadTo

(* The step that Act takes on the token settled on.                         *)
ActsOn(tok, isReal) ==
  \/ tok = realTok /\ isReal = TRUE
  \/ tok.type \in RecoverTerms /\ isReal = FALSE
  \/ tok.type = EOF /\ prefixMode /\ isReal = FALSE

LEMMA ActReads ==
  ASSUME Parsing, RecoveryGoesOn, PlainForks, InText, mode = "parse",
         UNCHANGED <<actionTableVars, input, prefixMode>>,
         NEW tok, NEW isReal, Act(tok, isReal), ActsOn(tok, isReal)
  PROVE  InText'
  <1>1. phase = "ready" /\ Built /\ AlwaysInv /\ LexerOK /\ IsStack(stack)
    BY DEF Parsing, ParserInv, Driving
  <1>2. PICK p \in 1..Len(states) : p = Top(stack).state /\ Row = action[p]
    BY <1>1, StackTop DEF Row
  <1>3. PICK t : t = tok.type
    OBVIOUS
  <1>4. PICK e : e = Entry(action[p], t) /\ e = Entry(Row, tok.type)
    BY <1>2, <1>3
  <1>5. e.kind \in {"shift", "reduce", "accept"} => t \in TermsEOF /\ e \in KeptOf(action[p][t])
    <2> SUFFICES ASSUME e.kind \in {"shift", "reduce", "accept"}
                 PROVE  t \in TermsEOF /\ e \in KeptOf(action[p][t])
      OBVIOUS
    <2>1. t \in TermsEOF /\ e = action[p][t]
      BY <1>1, <1>2, <1>4, EntryIs
    <2>2. KeptOf(e) = {e}
      BY KeptShape
    <2> QED
      BY <2>1, <2>2
  <1>6. PICK s : s = stack
    OBVIOUS
  <1>7. PICK K : K = Phrases
    OBVIOUS
  <1>8. PICK c : IsRead(K, s, c) /\ Gap(c[Len(s)], realTok.at - 1)
    BY <1>6, <1>7 DEF InText, Pending, ReadTo
  <1>9. PICK l \in Nat : l = Len(s) /\ l > 0 /\ p = s[l].state
    BY <1>2, <1>6, <1>8 DEF IsRead, Top
  <1>10. PICK now : now = realTok /\ IsLexeme(now, offset) /\ now.at \in Nat \ {0}
    BY DEF InText, Pending
  <1>11. gram \in Grammars /\ Closed(K, Places) /\ Len(input) \in Nat
    BY <1>1, <1>7, PhrasesAreClosed DEF Built, LR0Inv, LR0TypeOK, LexerOK
  <1>12. PICK i \in Places : i = c[l] /\ Gap(i, now.at - 1)
    <2>1. PICK d \in Seq(Nat) : d = c /\ Len(d) = l
      BY <1>8, <1>9 DEF IsRead
    <2>2. c[l] \in Nat
      BY <1>9, <2>1
    <2>3. Gap(c[l], now.at - 1)
      BY <1>8, <1>9, <1>10
    <2>4. now.at - 1 \in Nat /\ now.at - 1 <= Len(input)
      BY <1>10, <1>11 DEF IsLexeme
    <2> QED
      BY <1>11, <2>2, <2>3, <2>4 DEF Places, Gap
  <1>13. CASE e.kind = "shift" /\ ShiftTok(tok, isReal, e.to)
    <2>1. t # EOF
      BY <1>1, <1>5, <1>13, ShiftIsAMove
    <2>2. PICK j \in Places :
             /\ <<t, i, j>> \in K
             /\ \/ KeepsToken /\ Gap(j, now.at - 1)
                \/ Advances(action[e.to]) /\ Gap(j, offset - 1)
      <3>1. CASE tok = realTok /\ isReal = TRUE
        <4>1. PICK j \in Places : <<t, i, j>> \in Tokens /\ Gap(j, offset - 1)
          <5>1. now.type \in TermsEOF \ {EOF} /\ t = now.type
            BY <1>3, <1>5, <1>10, <1>13, <2>1, <3>1
          <5>2. i \in Nat
            BY <1>11 DEF Places
          <5> QED
            BY <1>1, <1>10, <1>12, <5>1, <5>2, LexemeIsRead
        <4>2. Advances(action[e.to])
          BY <1>13, <3>1 DEF ShiftTok, Relexes
        <4> QED
          BY <1>7, <1>11, <4>1, <4>2, PhrasesClosed
      <3>2. CASE tok.type \in RecoverTerms /\ isReal = FALSE
        <4>1. <<t, i, i>> \in Tokens
          BY <1>1, <1>3, <1>5, <1>13, <3>2, InsertedIsRead
        <4>2. CASE realTok.type = ERROR
          <5>1. offset = now.at
            BY <1>1, <1>10, <4>2, ErrorTakesNothing
          <5>2. Advances(action[e.to])
            BY <1>13, <4>2 DEF ShiftTok, Relexes
          <5> QED
            BY <1>7, <1>11, <1>12, <4>1, <5>1, <5>2, PhrasesClosed
        <4>3. CASE realTok.type # ERROR
          <5>1. KeepsToken
            BY <1>13, <3>2, <4>3 DEF ShiftTok, Relexes
          <5> QED
            BY <1>7, <1>11, <1>12, <4>1, <5>1, PhrasesClosed
        <4> QED
          BY <4>2, <4>3
      <3> QED
        BY <1>3, <2>1, <3>1, <3>2 DEF ActsOn
    <2>3. PICK to : to = e.to
      OBVIOUS
    <2>4. Reads(K, p, to, i, j)
      BY <1>1, <1>5, <1>11, <1>13, <2>2, <2>3, ShiftReads
    <2>5. PICK f : f.state = to /\ stack' = Append(stack, f)
      <3>1. PICK f : f = [state |-> e.to, value |-> Leaf(tok), span |-> RealSpan(tok)]
        OBVIOUS
      <3> QED
        BY <1>13, <2>3, <3>1 DEF ShiftTok
    <2>6. mode' = "parse"
      BY <1>13 DEF ShiftTok
    <2>13. PICK s2 : s2 = Append(s, f)
      OBVIOUS
    <2>7. Pushed(s2, s, f)
      BY <2>13 DEF Pushed
    <2>8. PICK c2 : Pushed(c2, c, j)
      BY DEF Pushed
    <2>9. IsRead(K, s2, c2) /\ c2[Len(s2)] = j
      <3>1. j \in Nat
        BY <1>11 DEF Places
      <3>2. Reads(K, s[Len(s)].state, f.state, c[Len(s)], j)
        BY <1>9, <1>12, <2>4, <2>5
      <3> QED
        BY <1>8, <2>7, <2>8, <3>1, <3>2, ReadPushes
    <2>10. PICK t2, o2 : t2 = realTok' /\ o2 = offset'
      OBVIOUS
    <2>11. IsLexeme(t2, o2) /\ t2.at \in Nat \ {0} /\ Gap(j, t2.at - 1)
      <3>1. CASE KeepsToken /\ Gap(j, now.at - 1)
        BY <1>10, <2>10, <3>1 DEF KeepsToken
      <3>2. CASE Advances(action[to]) /\ Gap(j, offset - 1)
        <4>1. to \in 1..Len(states)
          <5>1. Step(p, to)
            BY <2>4, ReadsIsAStep
          <5> QED
            BY <1>1, <5>1, StepBack DEF Built
        <4>2. j \in Nat
          BY <1>11 DEF Places
        <4> QED
          BY <1>1, <2>10, <3>2, <4>1, <4>2, ReadsOn
      <3> QED
        BY <2>2, <2>3, <3>1, <3>2
    <2>12. Pending'
      <3>1. s2 = stack'
        BY <1>6, <2>5, <2>13
      <3>2. Gap(c2[Len(s2)], t2.at - 1)
        BY <2>9, <2>11
      <3> QED
        BY <1>7, <2>9, <2>10, <2>11, <3>1, <3>2, PendingNext
    <2> QED
      BY <2>6, <2>12 DEF InText
  <1>14. CASE e.kind = "reduce" /\ ReduceBy(e.rule)
    <2>1. PICK n : n = Len(gram[e.rule].rhs)
      OBVIOUS
    <2>2. PICK m \in 1..l :
            /\ m = l - n
            /\ goto[s[m].state][gram[e.rule].lhs] # 0
            /\ Reads(K, s[m].state, goto[s[m].state][gram[e.rule].lhs], c[m], c[l])
      BY <1>1, <1>5, <1>8, <1>9, <1>11, <1>14, <2>1, ReduceOnRead
    <2>3. PICK b : b = SubSeq(s, 1, m)
      OBVIOUS
    <2>4. PICK d : d = SubSeq(c, 1, m)
      OBVIOUS
    <2>5. IsRead(K, b, d) /\ Len(b) = m /\ b[m] = s[m] /\ d[m] = c[m]
      BY <1>8, <1>9, <2>3, <2>4, ReadPops
    <2>6. PICK to : to = goto[s[m].state][gram[e.rule].lhs]
      OBVIOUS
    <2>7. /\ mode' = mode /\ KeepsToken
          /\ \E f : f.state = to /\ stack' = Append(b, f)
      <3>1. PICK kids : kids = SubSeq(stack, Len(stack) - n + 1, Len(stack))
        OBVIOUS
      <3>2. PICK f : f = [state |-> to, value |-> RuleValue(e.rule, kids), span |-> SpanOf(kids)]
        OBVIOUS
      <3>3. b = SubSeq(stack, 1, Len(stack) - n) /\ to = goto[Top(b).state][gram[e.rule].lhs] /\ to # 0
        BY <1>6, <1>9, <2>2, <2>3, <2>5, <2>6 DEF Top
      <3>4. stack' = Append(b, f) /\ mode' = mode /\ KeepsToken
        BY <1>14, <2>1, <3>1, <3>2, <3>3 DEF ReduceBy, GotoFrom
      <3> QED
        BY <3>2, <3>4
    <2>8. PICK f : f.state = to /\ stack' = Append(b, f)
      BY <2>7
    <2>15. PICK s2 : s2 = Append(b, f)
      OBVIOUS
    <2>9. Pushed(s2, b, f)
      BY <2>15 DEF Pushed
    <2>10. PICK c2 : Pushed(c2, d, i)
      BY DEF Pushed
    <2>11. IsRead(K, s2, c2) /\ c2[Len(s2)] = i
      <3>1. i \in Nat
        BY <1>11 DEF Places
      <3>2. Reads(K, b[Len(b)].state, f.state, d[Len(b)], i)
        BY <1>12, <2>2, <2>5, <2>6, <2>8
      <3> QED
        BY <2>5, <2>9, <2>10, <3>1, <3>2, ReadPushes
    <2>12. now = realTok' /\ offset = offset'
      BY <1>10, <2>7 DEF KeepsToken
    <2>13. PICK o2 : o2 = offset' /\ o2 = offset
      BY <2>12
    <2>14. Pending'
      <3>1. s2 = stack' /\ Gap(c2[Len(s2)], now.at - 1)
        BY <1>12, <2>8, <2>11, <2>15
      <3> QED
        BY <1>7, <1>10, <2>11, <2>12, <2>13, <3>1, PendingNext
    <2> QED
      BY <2>7, <2>14 DEF InText
  <1>15. CASE e.kind = "accept" /\ AcceptNow
    <2>1. t = EOF /\ <<Start, 0, i>> \in K
      BY <1>1, <1>5, <1>8, <1>9, <1>11, <1>12, <1>15, AcceptOnRead
    <2>2. realTok.type = EOF => now.at = offset
      <3>1. ASSUME now.type = EOF, ~(now.at = Len(input) + 1 /\ offset = now.at) PROVE FALSE
        <4>1. now.at \in 1..Len(input) /\ now.type \in ToSet(CandidateOrder[input[now.at]])
          BY <1>10, <3>1 DEF IsLexeme, EOF, ERROR
        <4>2. PICK S : S = Terminals \ {ERROR}
          OBVIOUS
        <4>3. PICK order \in Seq(S) : order = CandidateOrder[input[now.at]]
          BY <1>1, <4>1, <4>2, LexingAssumption DEF LexerOK
        <4>4. now.type \in Terminals
          BY <4>1, <4>2, <4>3, HoldsAt
        <4> QED
          BY <3>1, <4>4, SymbolsAssumption
      <3> QED
        BY <1>10, <3>1
    <2>3. Consumed = now.at - 1
      <3>1. CASE prefixMode /\ realTok.type # EOF
        BY <1>10, <3>1 DEF Consumed
      <3>2. CASE ~(prefixMode /\ realTok.type # EOF)
        <4>1. realTok.type = EOF
          BY <1>3, <2>1, <3>2 DEF ActsOn, RecoveryGoesOn
        <4> QED
          BY <2>2, <3>2, <4>1 DEF Consumed
      <3> QED
        BY <3>1, <3>2
    <2>4. IsSentence(now.at - 1)
      BY <1>7, <1>12, <2>1 DEF IsSentence
    <2>5. PICK n : n = result'.consumed
      OBVIOUS
    <2>6. mode' = "accepted" /\ n = now.at - 1
      BY <1>15, <2>3, <2>5 DEF AcceptNow
    <2>7. IsSentence(n)'
      BY <2>4, <2>6, TextStands
    <2> QED
      BY <2>5, <2>6, <2>7 DEF InText
  <1>16. CASE e.kind = "conflict" /\ EnterFork(tok)
    <2>1. p \in 1..Len(action)
      BY <1>1 DEF AlwaysInv, Filled
    <2>2. tok = realTok
      BY <1>3, <1>4, <1>16, <2>1 DEF ActsOn, PlainForks, NoForksOn
    <2>3. PICK o2 : o2 = offset' /\ o2 = offset
      BY <1>16 DEF EnterFork, KeepsToken
    <2>4. mode' = "fork" /\ forkTok' = realTok /\ now = realTok' /\ s = stack'
      BY <1>6, <1>10, <1>16, <2>2 DEF EnterFork, KeepsToken
    <2>5. Gap(c[Len(s)], now.at - 1)
      BY <1>8, <1>10
    <2>6. Pending'
      BY <1>7, <1>8, <1>10, <2>3, <2>4, <2>5, PendingNext
    <2> QED
      BY <1>10, <2>4, <2>6 DEF InText
  <1>17. CASE e.kind = "ignore" /\ InternalError
    BY <1>17 DEF InternalError, InText
  <1> QED
    BY <1>4, <1>13, <1>14, <1>15, <1>16, <1>17 DEF Act

LEMMA InTextStands ==
  ASSUME UNCHANGED <<actionTableVars, input, prefixMode>>
  PROVE  /\ PlainForks' <=> PlainForks
         /\ UNCHANGED <<mode, offset, stack, realTok, forkTok, result>> => (InText => InText')
  <1>1. PlainForks' <=> PlainForks
    BY TextStands DEF PlainForks
  <1>2. ASSUME UNCHANGED <<mode, offset, stack, realTok, forkTok, result>>, InText PROVE InText'
    <2>1. \A j : ReadTo(j)' <=> ReadTo(j)
      BY <1>2, TextStands DEF ReadTo
    <2>2. PICK n, t, o : n = result.consumed /\ t = realTok /\ o = offset
      OBVIOUS
    <2>3. mode = "accepted" => IsSentence(n)'
      BY <1>2, <2>2, TextStands DEF InText
    <2>4. IsLexeme(t, o)' <=> IsLexeme(t, o)
      BY TextStands
    <2>5. Pending => Pending'
      BY <1>2, <2>1, <2>2, <2>4 DEF Pending
    <2> QED
      BY <1>2, <2>1, <2>2, <2>3, <2>5 DEF InText
  <1> QED
    BY <1>1, <1>2

LEMMA CallReads ==
  ASSUME Parsing, Call, UNCHANGED actionTableVars
  PROVE  InText'
  <1>1. mode' = "lex" /\ offset' = 1
    BY DEF Call, Parsing, ParserInv, Unread
  <1>2. PICK frame : frame = [state |-> 1, value |-> Undefined, span |-> <<>>]
    OBVIOUS
  <1>3. PICK st : st = stack'
    OBVIOUS
  <1>4. st = <<frame>>
    BY <1>2, <1>3 DEF Call
  <1>5. PICK c : c = <<0>>
    OBVIOUS
  <1>6. st \in Seq({frame}) /\ Len(st) = 1 /\ st[1].state = 1
    BY <1>2, <1>4
  <1>7. c \in Seq(Nat) /\ Len(c) = 1 /\ c[1] = 0
    BY <1>5
  <1>8. IsRead(Phrases, st, c)'
    BY <1>6, <1>7 DEF IsRead
  <1>9. Gap(c[Len(st)], offset - 1)'
    BY <1>1, <1>6, <1>7 DEF Gap
  <1>10. ReadTo(offset - 1)'
    BY <1>3, <1>8, <1>9 DEF ReadTo
  <1> QED
    BY <1>1, <1>10 DEF InText

LEMMA ReadingStep ==
  ASSUME Parsing, Reading, [LRParserNext]_lrParserVars
  PROVE  Reading'
  <1>1. ASSUME UNCHANGED parserVars PROVE Reading'
    <2>1. [UnitGotosNext]_actionTableVars
      BY DEF LRParserNext, lrParserVars
    <2>2. CASE mode = "idle"
      BY <1>1, <2>2 DEF parserVars, Reading, InText
    <2>3. CASE mode # "idle"
      <3>1. phase = "ready"
        BY <2>3 DEF Parsing, ParserInv, Driving
      <3>2. UNCHANGED actionTableVars
        BY <2>1, <3>1, ReadyStays DEF Parsing
      <3> QED
        BY <1>1, <3>2, InTextStands DEF parserVars, Reading
    <2> QED
      BY <2>2, <2>3
  <1>2. ASSUME ParserNext, UNCHANGED actionTableVars PROVE Reading'
    <2> SUFFICES ASSUME RecoveryGoesOn, PlainForks' PROVE InText'
      BY DEF Reading
    <2>1. CASE Call
      BY <1>2, <2>1, CallReads
    <2>2. ASSUME UNCHANGED <<input, prefixMode>> PROVE PlainForks /\ InText
      BY <1>2, <2>2, InTextStands DEF Reading
    <2>3. CASE LexFirst
      <3>1. PlainForks /\ InText
        BY <2>2, <2>3 DEF LexFirst
      <3>2. phase = "ready" /\ Built /\ AlwaysInv /\ LexerOK
        BY <2>3 DEF LexFirst, Parsing, ParserInv, Driving
      <3>3. 1 \in 1..Len(states)
        BY <3>2, FirstStateItems DEF Built
      <3>4. PICK s : s = stack' /\ s = stack
        BY <2>3 DEF LexFirst
      <3>5. PICK c : IsRead(Phrases, s, c) /\ Gap(c[Len(s)], offset - 1)
        BY <2>3, <3>1, <3>4 DEF LexFirst, InText, ReadTo
      <3>6. PICK t, o : t = realTok' /\ o = offset'
        OBVIOUS
      <3>7. PICK j \in Nat : j = c[Len(s)]
        BY <3>5 DEF IsRead
      <3>8. IsLexeme(t, o) /\ t.at \in Nat \ {0} /\ Gap(j, t.at - 1)
        BY <2>3, <3>2, <3>3, <3>5, <3>6, <3>7, ReadsOn DEF LexFirst
      <3>9. Pending'
        BY <1>2, <2>3, <3>4, <3>5, <3>6, <3>7, <3>8, PendingNext DEF LexFirst
      <3> QED
        BY <2>3, <3>9 DEF LexFirst, InText
    <2>4. CASE StepReal
      <3>1. PICK tok, isReal : tok = realTok /\ isReal = TRUE
        OBVIOUS
      <3>2. mode = "parse" /\ Act(tok, isReal) /\ ActsOn(tok, isReal) /\ UNCHANGED <<input, prefixMode>>
        BY <2>4, <3>1 DEF StepReal, ActsOn
      <3> QED
        BY <1>2, <2>2, <3>2, ActReads
    <2>5. CASE StepSyntheticEnd
      <3>1. PICK tok, isReal : tok = [type |-> EOF, at |-> 0] /\ isReal = FALSE
        OBVIOUS
      <3>2. mode = "parse" /\ Act(tok, isReal) /\ UNCHANGED <<input, prefixMode>> /\ prefixMode
        BY <2>5, <3>1 DEF StepSyntheticEnd, SyntheticEnd
      <3>3. ActsOn(tok, isReal)
        BY <3>1, <3>2 DEF ActsOn
      <3> QED
        BY <1>2, <2>2, <3>2, <3>3, ActReads
    <2>6. CASE StepRecover
      <3>1. PICK t \in RecoverTerms : Act([type |-> t, at |-> 0], FALSE)
        BY <2>6 DEF StepRecover
      <3>2. PICK tok, isReal : tok = [type |-> t, at |-> 0] /\ isReal = FALSE
        OBVIOUS
      <3>3. mode = "parse" /\ Act(tok, isReal) /\ UNCHANGED <<input, prefixMode>>
        BY <2>6, <3>1, <3>2 DEF StepRecover
      <3>4. ActsOn(tok, isReal)
        BY <3>2 DEF ActsOn
      <3> QED
        BY <1>2, <2>2, <3>3, <3>4, ActReads
    <2>7. CASE Fail
      BY <2>7 DEF Fail, InText
    <2> QED
      BY <1>2, <2>1, <2>3, <2>4, <2>5, <2>6, <2>7 DEF ParserNext
  <1> QED
    BY <1>1, <1>2 DEF LRParserNext, lrParserVars
-----------------------------------------------------------------------------
LEMMA ReadingAlways == LRParserSpec => [](Parsing /\ Reading)
  <1>1. LRParserInit => Parsing /\ Reading
    <2>1. LRParserInit => mode = "idle"
      BY DEF LRParserInit, ParserInit
    <2> QED
      BY <2>1, ParsingStart DEF Reading, InText
  <1>2. Parsing /\ Reading /\ [LRParserNext]_lrParserVars => (Parsing /\ Reading)'
    <2> SUFFICES ASSUME Parsing, Reading, [LRParserNext]_lrParserVars PROVE Parsing' /\ Reading'
      OBVIOUS
    <2> QED
      BY ParsingStep, ReadingStep
  <1> QED
    BY <1>1, <1>2, PTL DEF LRParserSpec

(* runParser accepts only sentences of the grammar: for every grammar,      *)
(* option and text, and whatever recovery answers short of the end of the   *)
(* input, what it accepts can be read as the start symbol by the rules.     *)
THEOREM RunParserAcceptsSentences ==
  ASSUME RecoveryGoesOn
  PROVE  LRParserSpec => []AcceptsOnlySentences
  <1>1. Reading => AcceptsOnlySentences
    BY DEF Reading, InText, AcceptsOnlySentences, PlainForks
  <1> QED
    BY <1>1, ReadingAlways, PTL
-----------------------------------------------------------------------------
(* runGlrFork keeps its derivations as frames that hang on their parents.   *)
(* A record with certain fields, and a sequence that goes on another.       *)
IsRec(r, fields) == r = [x \in fields |-> r[x]]
ForkFields == {"frames", "active", "worklist", "shifted", "contexts", "accepted", "work", "recoveries", "late"}
FrameFields == {"parent", "state", "value", "ctx", "span", "ran"}
Extends(t, s) == Len(s) <= Len(t) /\ \A k \in 1..Len(s) : t[k] = s[k]

(* A frame on those below it, and up to where the text is read under each.  *)
FitsOn(fs, K, at, f, j, n) ==
  /\ f.parent \in 0..n
  /\ f.parent = 0 => f.state = 1 /\ j = 0
  /\ f.parent # 0 => Reads(K, fs[f.parent].state, f.state, at[f.parent], j)

FramesOK(fs, K, at) ==
  /\ (\E S : fs \in Seq(S)) /\ at \in Seq(Nat) /\ Len(at) = Len(fs)
  /\ \A id \in 1..Len(fs) : IsRec(fs[id], FrameFields) /\ FitsOn(fs, K, at, fs[id], at[id], id - 1)

(* A list of frames that have all read up to one of certain places.         *)
AllAt(q, n, at, L) == q \in Seq(1..n) /\ \A k \in 1..Len(q) : at[q[k]] \in L

(* Frames to be looked at are at the pending token, those that have shifted *)
(* it are behind it.                                                        *)
Forked(fk, K, at, L, M) ==
  /\ IsRec(fk, ForkFields)
  /\ FramesOK(fk.frames, K, at)
  /\ AllAt(fk.active, Len(fk.frames), at, L)
  /\ AllAt(fk.worklist, Len(fk.frames), at, L)
  /\ AllAt(fk.shifted, Len(fk.frames), at, M)

LEMMA FramesShape ==
  ASSUME NEW fs, NEW K, NEW at, FramesOK(fs, K, at)
  PROVE  /\ Len(fs) \in Nat /\ Len(at) = Len(fs) /\ \A id \in 1..Len(fs) : at[id] \in Nat
  <1>1. PICK n \in Nat : n = Len(fs)
    BY DEF FramesOK
  <1>2. at \in Seq(Nat) /\ Len(at) = n
    BY <1>1 DEF FramesOK
  <1>3. \A id \in 1..n : at[id] \in Nat
    BY <1>2
  <1> QED
    BY <1>1, <1>2, <1>3

LEMMA PushExtends ==
  ASSUME NEW S, NEW s \in Seq(S), NEW x, NEW t, Pushed(t, s, x)
  PROVE  /\ t \in Seq(S \cup {x}) /\ Len(t) = Len(s) + 1 /\ t[Len(s) + 1] = x
         /\ Extends(t, s)
  <1>1. PICK T : T = S \cup {x}
    OBVIOUS
  <1>2. s \in Seq(T) /\ x \in T
    BY <1>1
  <1>3. PICK n \in Nat : n = Len(s)
    OBVIOUS
  <1>4. t \in Seq(T) /\ Len(t) = n + 1 /\ t[n + 1] = x /\ \A k \in 1..n : t[k] = s[k]
    BY <1>2, <1>3 DEF Pushed
  <1> QED
    BY <1>1, <1>3, <1>4 DEF Extends

LEMMA FitsStill ==
  ASSUME NEW fs, NEW K, NEW at, NEW f, NEW j, NEW n \in Nat, NEW m \in Nat, n <= m, n <= Len(fs), Len(fs) \in Nat,
         Len(at) = Len(fs), FitsOn(fs, K, at, f, j, n),
         NEW gs, Extends(gs, fs), NEW bt, Extends(bt, at)
  PROVE  FitsOn(gs, K, bt, f, j, m)
  <1>1. f.parent \in 0..n /\ f.parent \in 0..m
    BY DEF FitsOn
  <1>2. ASSUME f.parent # 0 PROVE Reads(K, gs[f.parent].state, f.state, bt[f.parent], j)
    <2>1. f.parent \in 1..Len(fs)
      BY <1>1, <1>2
    <2>2. gs[f.parent] = fs[f.parent] /\ bt[f.parent] = at[f.parent]
      BY <2>1 DEF Extends
    <2> QED
      BY <1>2, <2>2 DEF FitsOn
  <1> QED
    BY <1>1, <1>2 DEF FitsOn

LEMMA FramesGrow ==
  ASSUME NEW fs, NEW K, NEW at, FramesOK(fs, K, at), NEW f, IsRec(f, FrameFields), NEW j \in Nat,
         FitsOn(fs, K, at, f, j, Len(fs)), NEW gs, Pushed(gs, fs, f), NEW bt, Pushed(bt, at, j)
  PROVE  /\ FramesOK(gs, K, bt) /\ Extends(gs, fs) /\ Extends(bt, at)
         /\ Len(gs) = Len(fs) + 1 /\ bt[Len(gs)] = j
  <1>1. PICK S : fs \in Seq(S)
    BY DEF FramesOK
  <1>2. PICK n \in Nat : n = Len(fs)
    BY FramesShape
  <1>8. Len(at) = n
    BY <1>2, FramesShape
  <1>3. gs \in Seq(S \cup {f}) /\ Len(gs) = n + 1 /\ gs[n + 1] = f /\ Extends(gs, fs)
    BY <1>1, <1>2, PushExtends
  <1>4. /\ bt \in Seq(Nat \cup {j}) /\ Len(bt) = n + 1 /\ bt[n + 1] = j /\ Extends(bt, at)
    <2>1. at \in Seq(Nat)
      BY DEF FramesOK
    <2> QED
      BY <1>8, <2>1, PushExtends
  <1>5. bt \in Seq(Nat)
    <2>1. Nat \cup {j} = Nat
      OBVIOUS
    <2> QED
      BY <1>4, <2>1
  <1>9. Extends(gs, fs) /\ Extends(bt, at)
    BY <1>3, <1>4
  <1>6. ASSUME NEW id \in 1..(n + 1)
        PROVE  IsRec(gs[id], FrameFields) /\ FitsOn(gs, K, bt, gs[id], bt[id], id - 1)
    <2>1. CASE id = n + 1
      <3>1. gs[id] = f /\ bt[id] = j /\ id - 1 = n
        BY <1>3, <1>4, <2>1
      <3>2. FitsOn(gs, K, bt, f, j, n)
        BY <1>2, <1>8, <1>9, FitsStill
      <3> QED
        BY <3>1, <3>2
    <2>2. CASE id \in 1..n
      <3>1. gs[id] = fs[id] /\ bt[id] = at[id] /\ id - 1 \in Nat /\ id - 1 <= n
        BY <1>2, <1>8, <1>9, <2>2 DEF Extends
      <3>2. IsRec(fs[id], FrameFields) /\ FitsOn(fs, K, at, fs[id], at[id], id - 1)
        BY <1>2, <2>2 DEF FramesOK
      <3>3. PICK g, i : g = fs[id] /\ i = at[id]
        OBVIOUS
      <3>4. FitsOn(gs, K, bt, g, i, id - 1)
        BY <1>2, <1>8, <1>9, <3>1, <3>2, <3>3, FitsStill
      <3> QED
        BY <3>1, <3>2, <3>3, <3>4
    <2> QED
      BY <2>1, <2>2
  <1>7. FramesOK(gs, K, bt)
    BY <1>3, <1>4, <1>5, <1>6 DEF FramesOK
  <1>10. Len(gs) = n + 1 /\ bt[n + 1] = j
    BY <1>3, <1>4
  <1> QED
    BY <1>2, <1>7, <1>9, <1>10

LEMMA ListStays ==
  ASSUME NEW q, NEW n \in Nat, NEW m \in Nat, n <= m, NEW at, Len(at) = n, NEW L, AllAt(q, n, at, L),
         NEW bt, Extends(bt, at)
  PROVE  AllAt(q, m, bt, L)
  <1>1. PICK l \in Nat : l = Len(q)
    BY DEF AllAt
  <1>2. q \in Seq(1..n) /\ \A k \in 1..l : at[q[k]] \in L /\ q[k] \in 1..n
    BY <1>1 DEF AllAt
  <1>3. q \in Seq(1..m)
    BY <1>2
  <1>4. \A k \in 1..l : bt[q[k]] = at[q[k]]
    BY <1>2 DEF Extends
  <1> QED
    BY <1>1, <1>2, <1>3, <1>4 DEF AllAt

LEMMA ListGrows ==
  ASSUME NEW q, NEW n \in Nat, NEW at, NEW L, AllAt(q, n, at, L),
         NEW id \in 1..n, at[id] \in L, NEW p, Pushed(p, q, id)
  PROVE  AllAt(p, n, at, L)
  <1>1. PICK l \in Nat : l = Len(q)
    BY DEF AllAt
  <1>2. q \in Seq(1..n) /\ \A k \in 1..l : at[q[k]] \in L
    BY <1>1 DEF AllAt
  <1>3. p \in Seq((1..n) \cup {id}) /\ Len(p) = l + 1 /\ p[l + 1] = id /\ Extends(p, q)
    BY <1>1, <1>2, PushExtends
  <1>4. (1..n) \cup {id} = 1..n
    OBVIOUS
  <1>5. ASSUME NEW k \in 1..(l + 1) PROVE at[p[k]] \in L
    <2>1. CASE k = l + 1
      BY <1>3, <2>1
    <2>2. CASE k \in 1..l
      BY <1>1, <1>2, <1>3, <2>2 DEF Extends
    <2> QED
      BY <2>1, <2>2
  <1>6. p \in Seq(1..n)
    BY <1>3, <1>4
  <1> QED
    BY <1>3, <1>5, <1>6 DEF AllAt

LEMMA ListReplaces ==
  ASSUME NEW q, NEW n \in Nat, NEW at, NEW L, AllAt(q, n, at, L),
         NEW id \in 1..n, at[id] \in L, NEW k \in 1..Len(q)
  PROVE  AllAt([q EXCEPT ![k] = id], n, at, L)
  <1>1. PICK l \in Nat : l = Len(q)
    BY DEF AllAt
  <1>2. q \in Seq(1..n) /\ \A i \in 1..l : at[q[i]] \in L
    BY <1>1 DEF AllAt
  <1>3. PICK p : p = [q EXCEPT ![k] = id]
    OBVIOUS
  <1>4. p \in Seq(1..n) /\ Len(p) = l /\ \A i \in 1..l : p[i] = IF i = k THEN id ELSE q[i]
    BY <1>1, <1>2, <1>3
  <1>5. \A i \in 1..l : at[p[i]] \in L
    BY <1>2, <1>4
  <1> QED
    BY <1>3, <1>4, <1>5 DEF AllAt

(* A frame more, wherever it is listed.                                     *)
LEMMA OneMore ==
  ASSUME NEW fk, NEW K, NEW at, NEW L, NEW M, Forked(fk, K, at, L, M),
         NEW f, IsRec(f, FrameFields), NEW j \in Nat, FitsOn(fk.frames, K, at, f, j, Len(fk.frames)),
         NEW gs, Pushed(gs, fk.frames, f), NEW bt, Pushed(bt, at, j)
  PROVE  /\ FramesOK(gs, K, bt) /\ Extends(gs, fk.frames) /\ Extends(bt, at)
         /\ Len(gs) = Len(fk.frames) + 1 /\ bt[Len(gs)] = j /\ Len(gs) \in Nat \ {0}
         /\ AllAt(fk.active, Len(gs), bt, L) /\ AllAt(fk.worklist, Len(gs), bt, L)
         /\ AllAt(fk.shifted, Len(gs), bt, M)
  <1>1. PICK fs : fs = fk.frames /\ FramesOK(fs, K, at)
    BY DEF Forked
  <1>2. /\ FramesOK(gs, K, bt) /\ Extends(gs, fs) /\ Extends(bt, at)
        /\ Len(gs) = Len(fs) + 1 /\ bt[Len(gs)] = j
    BY <1>1, FramesGrow
  <1>3. PICK n \in Nat : n = Len(fs) /\ Len(gs) = n + 1
    BY <1>1, <1>2, FramesShape
  <1>4. Len(at) = n
    BY <1>1, <1>3, FramesShape
  <1>5. \A q, X : AllAt(q, n, at, X) => AllAt(q, n + 1, bt, X)
    BY <1>2, <1>3, <1>4, ListStays
  <1> QED
    BY <1>1, <1>2, <1>3, <1>5 DEF Forked

LEMMA MergeKeeps ==
  ASSUME NEW f, IsRec(f, FrameFields), NEW g, NEW r
  PROVE  LET h == MergeInto(f, g, r)
         IN  IsRec(h, FrameFields) /\ h.state = f.state /\ h.parent = f.parent
  BY DEF IsRec, FrameFields, MergeInto

LEMMA Activated ==
  ASSUME NEW fk, NEW K, NEW at, NEW L, NEW M, Forked(fk, K, at, L, M),
         NEW f, IsRec(f, FrameFields), NEW j \in Nat, j \in L, FitsOn(fk.frames, K, at, f, j, Len(fk.frames)),
         NEW r, NEW bt, Pushed(bt, at, j), NEW gk, gk = Activate(fk, f, r)
  PROVE  /\ Forked(gk, K, bt, L, M) /\ Extends(gk.frames, fk.frames) /\ Extends(bt, at)
         /\ Len(gk.frames) = Len(fk.frames) + 1 /\ bt[Len(gk.frames)] = j
         /\ gk.accepted = fk.accepted /\ gk.worklist = fk.worklist /\ gk.shifted = fk.shifted
  <1>1. PICK id \in Nat : id = Len(fk.frames) + 1
    BY FramesShape DEF Forked
  <1> DEFINE there == {k \in 1..Len(fk.active) : SameKey(fk.frames[fk.active[k]], f)}
  <1>2. CASE there = {}
    <2>1. gk = [fk EXCEPT !.frames = Append(@, f), !.active = Append(@, id)]
      BY <1>1, <1>2 DEF Activate
    <2>2. /\ IsRec(gk, ForkFields) /\ gk.frames = Append(fk.frames, f) /\ gk.active = Append(fk.active, id)
          /\ gk.worklist = fk.worklist /\ gk.shifted = fk.shifted /\ gk.accepted = fk.accepted
      BY <2>1 DEF Forked, IsRec, ForkFields
    <2>3. Pushed(gk.frames, fk.frames, f) /\ Pushed(gk.active, fk.active, id)
      BY <2>2 DEF Pushed
    <2>4. PICK gs, p : gs = gk.frames /\ p = gk.active
      OBVIOUS
    <2>5. /\ FramesOK(gs, K, bt) /\ Extends(gs, fk.frames) /\ Extends(bt, at)
          /\ Len(gs) = Len(fk.frames) + 1 /\ bt[Len(gs)] = j
          /\ AllAt(fk.active, Len(gs), bt, L) /\ AllAt(fk.worklist, Len(gs), bt, L)
          /\ AllAt(fk.shifted, Len(gs), bt, M)
      BY <2>3, <2>4, OneMore
    <2>6. PICK q : q = fk.active
      OBVIOUS
    <2>7. AllAt(p, id, bt, L)
      <3>1. AllAt(q, id, bt, L) /\ bt[id] \in L /\ id \in 1..id
        BY <1>1, <2>5, <2>6
      <3> QED
        BY <2>3, <2>4, <2>6, <3>1, ListGrows
    <2> QED
      BY <1>1, <2>2, <2>4, <2>5, <2>7 DEF Forked
  <1>3. CASE there # {}
    <2>1. PICK k \in there : gk = [fk EXCEPT !.frames = Append(@, MergeInto(@[fk.active[k]], f, r)),
                                             !.active[k] = id]
      <3>1. PICK k \in there : k = CHOOSE m \in there : TRUE
        BY <1>3
      <3>2. gk = [fk EXCEPT !.frames = Append(@, MergeInto(@[fk.active[k]], f, r)),
                            !.active[k] = id]
        BY <1>1, <1>3, <3>1 DEF Activate
      <3> QED
        BY <3>2
    <2>2. PICK g : g = MergeInto(fk.frames[fk.active[k]], f, r)
      OBVIOUS
    <2>3. /\ IsRec(gk, ForkFields) /\ gk.frames = Append(fk.frames, g) /\ gk.active = [fk.active EXCEPT ![k] = id]
          /\ gk.worklist = fk.worklist /\ gk.shifted = fk.shifted /\ gk.accepted = fk.accepted
      BY <2>1, <2>2 DEF Forked, IsRec, ForkFields
    <2>4. IsRec(g, FrameFields) /\ g.state = f.state /\ g.parent = f.parent
      <3>1. PICK a \in 1..Len(fk.frames) : a = fk.active[k]
        BY DEF Forked, AllAt
      <3>2. PICK h : h = fk.frames[a] /\ IsRec(h, FrameFields)
        BY DEF Forked, FramesOK
      <3>3. h.state = f.state /\ h.parent = f.parent
        BY <3>1, <3>2 DEF SameKey
      <3> QED
        BY <2>2, <3>1, <3>2, <3>3, MergeKeeps
    <2>5. FitsOn(fk.frames, K, at, g, j, Len(fk.frames))
      BY <2>4 DEF FitsOn
    <2>6. Pushed(gk.frames, fk.frames, g)
      BY <2>3 DEF Pushed
    <2>7. PICK gs : gs = gk.frames
      OBVIOUS
    <2>8. /\ FramesOK(gs, K, bt) /\ Extends(gs, fk.frames) /\ Extends(bt, at)
          /\ Len(gs) = Len(fk.frames) + 1 /\ bt[Len(gs)] = j
          /\ AllAt(fk.active, Len(gs), bt, L) /\ AllAt(fk.worklist, Len(gs), bt, L)
          /\ AllAt(fk.shifted, Len(gs), bt, M)
      BY <2>4, <2>5, <2>6, <2>7, OneMore
    <2>9. PICK q : q = fk.active
      OBVIOUS
    <2>10. AllAt([q EXCEPT ![k] = id], id, bt, L)
      <3>1. AllAt(q, id, bt, L) /\ bt[id] \in L /\ id \in 1..id
        BY <1>1, <2>8, <2>9
      <3> QED
        BY <2>9, <3>1, ListReplaces
    <2> QED
      BY <1>1, <2>3, <2>7, <2>8, <2>9, <2>10 DEF Forked
  <1> QED
    BY <1>2, <1>3

(* So much for a fork after one of its actions.                             *)
LEMMA Registered ==
  ASSUME NEW fk, NEW K, NEW at, NEW L, NEW M, Forked(fk, K, at, L, M),
         NEW f, IsRec(f, FrameFields), NEW j \in Nat, j \in L, FitsOn(fk.frames, K, at, f, j, Len(fk.frames)),
         NEW r, NEW bt, Pushed(bt, at, j), NEW gk, gk = Register(fk, f, r)
  PROVE  /\ Forked(gk, K, bt, L, M) /\ Extends(gk.frames, fk.frames) /\ Extends(bt, at)
         /\ gk.accepted = fk.accepted
  <1>1. PICK hk : hk = Activate(fk, f, r)
    OBVIOUS
  <1>2. /\ Forked(hk, K, bt, L, M) /\ Extends(hk.frames, fk.frames) /\ Extends(bt, at)
        /\ Len(hk.frames) = Len(fk.frames) + 1 /\ bt[Len(hk.frames)] = j /\ hk.accepted = fk.accepted
    BY <1>1, Activated
  <1>3. PICK id \in Nat \ {0} : id = Len(hk.frames)
    BY <1>2, FramesShape DEF Forked
  <1>0. PICK l : l = (hk.late \/ MergesLate(fk, f))
    OBVIOUS
  <1>4. gk = [hk EXCEPT !.worklist = Append(@, id), !.late = l]
    BY <1>0, <1>1, <1>3 DEF Register
  <1>5. /\ IsRec(gk, ForkFields) /\ gk.frames = hk.frames /\ gk.active = hk.active
        /\ gk.worklist = Append(hk.worklist, id) /\ gk.shifted = hk.shifted /\ gk.accepted = hk.accepted
    BY <1>2, <1>4 DEF Forked, IsRec, ForkFields
  <1>6. Pushed(gk.worklist, hk.worklist, id)
    BY <1>5 DEF Pushed
  <1>7. PICK p, q : p = gk.worklist /\ q = hk.worklist
    OBVIOUS
  <1>8. AllAt(p, id, bt, L)
    <2>1. AllAt(q, id, bt, L) /\ bt[id] \in L /\ id \in 1..id
      BY <1>2, <1>3, <1>7 DEF Forked
    <2> QED
      BY <1>6, <1>7, <2>1, ListGrows
  <1> QED
    BY <1>2, <1>3, <1>5, <1>7, <1>8 DEF Forked


(* The frames below one, as the fork follows them down.                     *)
GoesDown(fk, path, N, up) ==
  /\ up[0] = path
  /\ \A k \in 1..N : up[k] = fk.frames[up[k - 1]].parent
  /\ \A k \in 0..N : Below(fk, path, k) = up[k]

LEMMA BelowIs ==
  ASSUME NEW fk, NEW path, NEW N \in Nat
  PROVE  \E up : GoesDown(fk, path, N, up)
  <1> DEFINE IsUp(h, m) == h = [k \in 0..m |-> IF k = 0 THEN path ELSE fk.frames[h[k - 1]].parent]
             H == {m \in 0..N : \E h : IsUp(h, m)}
  <1>1. \A m \in 0..N : m \in H
    <2>1. 0 \in H
      <3>1. PICK h : h = [k \in 0..0 |-> path]
        OBVIOUS
      <3>2. h = [k \in 0..0 |-> IF k = 0 THEN path ELSE fk.frames[h[k - 1]].parent]
        BY <3>1
      <3> QED
        BY <3>2
    <2>2. ASSUME NEW m \in 1..N, m - 1 \in H PROVE m \in H
      <3>1. PICK g : IsUp(g, m - 1)
        BY <2>2
      <3>2. PICK h : h = [k \in 0..m |-> IF k = m THEN fk.frames[g[m - 1]].parent ELSE g[k]]
        OBVIOUS
      <3>3. ASSUME NEW k \in 0..m PROVE h[k] = IF k = 0 THEN path ELSE fk.frames[h[k - 1]].parent
        <4>1. CASE k = m
          <5>1. h[k] = fk.frames[g[m - 1]].parent /\ m # 0 /\ m - 1 \in 0..m /\ m - 1 # m
            BY <3>2, <4>1
          <5>2. h[m - 1] = g[m - 1]
            BY <3>2, <5>1
          <5> QED
            BY <4>1, <5>1, <5>2
        <4>2. CASE k # m
          <5>1. k \in 0..(m - 1) /\ h[k] = g[k]
            BY <3>2, <4>2
          <5>2. g[k] = IF k = 0 THEN path ELSE fk.frames[g[k - 1]].parent
            BY <3>1, <5>1
          <5>3. k # 0 => h[k - 1] = g[k - 1]
            BY <3>2, <5>1
          <5> QED
            BY <5>1, <5>2, <5>3
        <4> QED
          BY <4>1, <4>2
      <3>4. h = [k \in 0..m |-> h[k]]
        BY <3>2
      <3>5. h = [k \in 0..m |-> IF k = 0 THEN path ELSE fk.frames[h[k - 1]].parent]
        BY <3>3, <3>4
      <3>6. m \in 0..N
        OBVIOUS
      <3> QED
        BY <3>5, <3>6
    <2> HIDE DEF H
    <2> QED
      BY <2>1, <2>2, Climbing
  <1>2. PICK up : IsUp(up, N)
    <2>1. N \in 0..N
      OBVIOUS
    <2> QED
      BY <1>1, <2>1
  <1>3. up[0] = path /\ \A k \in 1..N : up[k] = fk.frames[up[k - 1]].parent
    <2>1. 0 \in 0..N /\ \A k \in 1..N : k \in 0..N /\ k # 0
      OBVIOUS
    <2> QED
      BY <1>2, <2>1
  <1>4. ASSUME NEW m \in 0..N PROVE Below(fk, path, m) = up[m]
    <2> DEFINE F == CHOOSE h : IsUp(h, m)
    <2>1. Below(fk, path, m) = F[m]
      BY DEF Below
    <2>2. \E h : IsUp(h, m)
      BY <1>1
    <2> HIDE DEF IsUp
    <2>3. IsUp(F, m)
      BY <2>2
    <2>4. PICK g : g = F
      OBVIOUS
    <2> HIDE DEF F
    <2>5. g[0] = path /\ \A k \in 1..m : g[k] = fk.frames[g[k - 1]].parent
      <3>1. 0 \in 0..m /\ \A k \in 1..m : k \in 0..m /\ k # 0
        OBVIOUS
      <3>2. IsUp(g, m)
        BY <2>3, <2>4
      <3> QED
        BY <3>1, <3>2 DEF IsUp
    <2>6. g[m] = up[m]
      <3> DEFINE A == {k \in 0..m : g[k] = up[k]}
      <3>1. 0 \in A
        BY <1>3, <2>5
      <3>2. ASSUME NEW k \in 1..m, k - 1 \in A PROVE k \in A
        BY <1>3, <2>5, <3>2
      <3>3. \A k \in 0..m : k \in A
        <4> HIDE DEF A
        <4> QED
          BY <3>1, <3>2, Climbing
      <3> QED
        BY <3>3
    <2> QED
      BY <2>1, <2>4, <2>6
  <1> QED
    BY <1>3, <1>4 DEF GoesDown

LEMMA FramesHang ==
  ASSUME NEW fs, NEW K, NEW at, FramesOK(fs, K, at)
  PROVE  Hanging(K, 1..Len(fs), [id \in 1..Len(fs) |-> fs[id].state], [id \in 1..Len(fs) |-> fs[id].parent], at)
  <1>1. PICK n \in Nat : n = Len(fs)
    BY FramesShape
  <1>2. PICK st, par : st = [id \in 1..n |-> fs[id].state] /\ par = [id \in 1..n |-> fs[id].parent]
    OBVIOUS
  <1>3. ASSUME NEW id \in 1..n
        PROVE  /\ par[id] \in (1..n) \cup {0}
               /\ par[id] = 0 => st[id] = 1 /\ at[id] = 0
               /\ par[id] # 0 => Reads(K, st[par[id]], st[id], at[par[id]], at[id])
    <2>1. FitsOn(fs, K, at, fs[id], at[id], id - 1) /\ par[id] = fs[id].parent /\ st[id] = fs[id].state
      BY <1>1, <1>2 DEF FramesOK
    <2>2. par[id] \in 0..(id - 1)
      BY <2>1 DEF FitsOn
    <2>3. par[id] # 0 => st[par[id]] = fs[par[id]].state
      BY <1>2, <2>2
    <2> QED
      BY <2>1, <2>2, <2>3 DEF FitsOn
  <1>4. 0 \notin 1..n
    OBVIOUS
  <1> QED
    BY <1>1, <1>2, <1>3, <1>4 DEF Hanging

(* What runs on a path leaves the frames as they are: it adds to them.      *)
Goes(gk, fk, K, bt, at, L, M) ==
  Forked(gk, K, bt, L, M) /\ Extends(gk.frames, fk.frames) /\ Extends(bt, at)

OnPath(fk, K, at, L, M, path, t, e) ==
  /\ Forked(fk, K, at, L, M)
  /\ path \in 1..Len(fk.frames) /\ at[path] \in L
  /\ t \in TermsEOF /\ e \in KeptOf(action[fk.frames[path].state][t])

(* The token can be read from there to where the fork then stands.          *)
Moving(K, t, i, stays, L, M) ==
  \E j \in Nat : <<t, i, j>> \in K /\ (stays = TRUE => j \in L) /\ (stays = FALSE => j \in M)

LEMMA ReducedForks ==
  ASSUME Built, phase = "ready", NEW K, NEW P, Closed(K, P),
         NEW fk, NEW at, NEW L, NEW M, NEW path, NEW t, NEW e, OnPath(fk, K, at, L, M, path, t, e),
         e.kind = "reduce", NEW ctx, NEW gk, gk = ForkReduce(fk, path, e.rule, ctx)
  PROVE  \E bt : Goes(gk, fk, K, bt, at, L, M) /\ gk.accepted = fk.accepted
  <1>0. /\ Forked(fk, K, at, L, M) /\ path \in 1..Len(fk.frames) /\ at[path] \in L
        /\ t \in TermsEOF /\ e \in KeptOf(action[fk.frames[path].state][t])
    BY DEF OnPath
  <1>1. PICK fs : fs = fk.frames /\ FramesOK(fs, K, at)
    BY <1>0 DEF Forked
  <1>2. PICK m \in Nat : m = Len(fs) /\ path \in 1..m
    BY <1>0, <1>1, FramesShape
  <1>3. PICK D, st, par : /\ D = 1..m
                          /\ st = [id \in 1..m |-> fs[id].state] /\ par = [id \in 1..m |-> fs[id].parent]
    OBVIOUS
  <1>4. Hanging(K, D, st, par, at) /\ path \in D
    BY <1>1, <1>2, <1>3, FramesHang
  <1>5. st[path] = fs[path].state /\ e \in KeptOf(action[st[path]][t])
    BY <1>0, <1>1, <1>2, <1>3
  <1>6. PICK n \in Nat : n = Len(gram[e.rule].rhs)
    <2>1. PICK p \in 1..Len(states) : p = st[path]
      BY <1>4, HangingShape
    <2>2. e.rule \in 1..Len(gram)
      BY <1>0, <1>5, <2>1, ReduceIsComplete
    <2> QED
      BY <2>2, GrammarShape DEF Built, LR0Inv, LR0TypeOK
  <1>7. PICK up : /\ up[0] = path /\ \A k \in 1..n : up[k] = fs[up[k - 1]].parent
                  /\ \A k \in 0..n : Below(fk, path, k) = up[k]
    <2>1. PICK up : GoesDown(fk, path, n, up)
      BY BelowIs
    <2> QED
      BY <1>1, <2>1 DEF GoesDown
  <1>8. Down(up, par, D, path, n)
    BY <1>3, <1>7 DEF Down
  <1>9. /\ \A k \in 0..n : up[k] \in D
        /\ goto[st[up[n]]][gram[e.rule].lhs] # 0
        /\ Reads(K, st[up[n]], goto[st[up[n]]][gram[e.rule].lhs], at[up[n]], at[path])
    BY <1>0, <1>4, <1>5, <1>6, <1>8, ReduceReads
  <1>10. PICK b \in 1..m : b = up[n] /\ b = Below(fk, path, n) /\ st[b] = fs[b].state
    <2>1. n \in 0..n
      OBVIOUS
    <2> QED
      BY <1>3, <1>7, <1>9, <2>1
  <1>11. PICK to : to = goto[fs[b].state][gram[e.rule].lhs] /\ to # 0
    BY <1>9, <1>10
  <1>12. PICK kids : kids = Popped(fk, path, n)
    OBVIOUS
  <1>13. PICK hk : hk = [fk EXCEPT !.contexts[ctx] = Append(@, e.rule)]
    OBVIOUS
  <1>14. PICK f : f = [parent |-> b, state |-> to, value |-> RuleValue(e.rule, kids), ctx |-> ctx,
                       span |-> SpanOf(kids), ran |-> Append(fk.frames[path].ran, e.rule)]
    OBVIOUS
  <1>15. gk = Register(hk, f, e.rule)
    BY <1>1, <1>6, <1>10, <1>11, <1>12, <1>13, <1>14 DEF ForkReduce
  <1>16. /\ IsRec(hk, ForkFields) /\ hk.frames = fk.frames /\ hk.active = fk.active
         /\ hk.worklist = fk.worklist /\ hk.shifted = fk.shifted /\ hk.accepted = fk.accepted
    BY <1>0, <1>13 DEF Forked, IsRec, ForkFields
  <1>17. Forked(hk, K, at, L, M)
    BY <1>0, <1>16 DEF Forked
  <1>18. IsRec(f, FrameFields) /\ f.parent = b /\ f.state = to
    BY <1>14 DEF IsRec, FrameFields
  <1>19. PICK j \in Nat : j = at[path] /\ j \in L
    BY <1>0, <1>1, <1>2, FramesShape
  <1>20. FitsOn(hk.frames, K, at, f, j, Len(hk.frames))
    <2>1. Reads(K, fs[b].state, to, at[b], j)
      BY <1>9, <1>10, <1>11, <1>19
    <2>2. hk.frames = fs /\ b # 0 /\ b \in 0..Len(fs)
      BY <1>1, <1>2, <1>16
    <2> QED
      BY <1>18, <2>1, <2>2 DEF FitsOn
  <1>21. PICK bt : Pushed(bt, at, j)
    BY DEF Pushed
  <1>22. /\ Forked(gk, K, bt, L, M) /\ Extends(gk.frames, hk.frames) /\ Extends(bt, at)
         /\ gk.accepted = hk.accepted
    <2>1. PICK r : r = e.rule
      OBVIOUS
    <2>2. gk = Register(hk, f, r) /\ IsRec(f, FrameFields)
      BY <1>15, <1>18, <2>1
    <2> QED
      BY <1>17, <1>19, <1>20, <1>21, <2>2, Registered
  <1> QED
    BY <1>16, <1>22 DEF Goes

Shifting(gk, fk, K, at, L, M, path, t, e, tok, stays, ctx) ==
  /\ OnPath(fk, K, at, L, M, path, t, e)
  /\ e.kind = "shift" /\ stays \in BOOLEAN /\ Moving(K, t, at[path], stays, L, M)
  /\ gk = ForkShift(fk, path, e.to, tok, stays, ctx)

LEMMA ShiftedForks ==
  ASSUME Built, phase = "ready", NEW K, NEW P, Closed(K, P),
         NEW gk, NEW fk, NEW at, NEW L, NEW M, NEW path, NEW t, NEW e, NEW tok, NEW stays, NEW ctx,
         Shifting(gk, fk, K, at, L, M, path, t, e, tok, stays, ctx)
  PROVE  \E bt : Goes(gk, fk, K, bt, at, L, M) /\ gk.accepted = fk.accepted
  <1>0. /\ Forked(fk, K, at, L, M) /\ path \in 1..Len(fk.frames)
        /\ t \in TermsEOF /\ e \in KeptOf(action[fk.frames[path].state][t]) /\ e.kind = "shift"
        /\ stays \in BOOLEAN
    BY DEF OnPath, Shifting
  <1>13. PICK i, to : /\ i = at[path] /\ to = e.to /\ gk = ForkShift(fk, path, to, tok, stays, ctx)
                      /\ Moving(K, t, i, stays, L, M)
    BY DEF Shifting
  <1>12. PICK j \in Nat : <<t, i, j>> \in K /\ (stays = TRUE => j \in L) /\ (stays = FALSE => j \in M)
    BY <1>13 DEF Moving
  <1>1. PICK fs : fs = fk.frames /\ FramesOK(fs, K, at)
    BY <1>0 DEF Forked
  <1>2. PICK m \in Nat : m = Len(fs) /\ path \in 1..m
    BY <1>0, <1>1, FramesShape
  <1>3. PICK p : p = fs[path].state
    OBVIOUS
  <1>4. p \in 1..Len(states)
    <2>1. PICK D, st, par : /\ D = 1..m
                            /\ st = [id \in 1..m |-> fs[id].state] /\ par = [id \in 1..m |-> fs[id].parent]
      OBVIOUS
    <2>2. Hanging(K, D, st, par, at) /\ path \in D /\ st[path] = p
      BY <1>1, <1>2, <1>3, <2>1, FramesHang
    <2> QED
      BY <2>2, HangingShape
  <1>5. Reads(K, p, to, i, j)
    BY <1>0, <1>1, <1>3, <1>4, <1>12, <1>13, ShiftReads
  <1>6. PICK f : f = [parent |-> path, state |-> to, value |-> Leaf(tok), ctx |-> ctx,
                      span |-> RealSpan(tok), ran |-> fk.frames[path].ran]
    OBVIOUS
  <1>7. IsRec(f, FrameFields) /\ f.parent = path /\ f.state = to
    BY <1>6 DEF IsRec, FrameFields
  <1>8. FitsOn(fk.frames, K, at, f, j, Len(fk.frames))
    <2>1. path # 0 /\ path \in 0..Len(fs)
      BY <1>2
    <2> QED
      BY <1>1, <1>3, <1>5, <1>7, <1>13, <2>1 DEF FitsOn
  <1>9. PICK bt : Pushed(bt, at, j)
    BY DEF Pushed
  <1>10. CASE stays = TRUE
    <2>1. gk = Register(fk, f, 0) /\ j \in L
      BY <1>3, <1>6, <1>10, <1>12, <1>13 DEF ForkShift
    <2>2. PICK r : r = 0
      OBVIOUS
    <2>3. gk = Register(fk, f, r) /\ IsRec(f, FrameFields) /\ j \in L
      BY <1>7, <2>1, <2>2
    <2>4. /\ Forked(gk, K, bt, L, M) /\ Extends(gk.frames, fk.frames) /\ Extends(bt, at)
          /\ gk.accepted = fk.accepted
      BY <1>0, <1>8, <1>9, <2>3, Registered
    <2> QED
      BY <2>4 DEF Goes
  <1>11. CASE stays = FALSE
    <2>1. PICK id \in Nat : id = Len(fk.frames) + 1
      BY <1>1, <1>2
    <2>2. gk = [fk EXCEPT !.frames = Append(@, f), !.shifted = Append(@, id)]
      BY <1>3, <1>6, <1>11, <1>13, <2>1 DEF ForkShift
    <2>3. /\ IsRec(gk, ForkFields) /\ gk.frames = Append(fk.frames, f) /\ gk.active = fk.active
          /\ gk.worklist = fk.worklist /\ gk.shifted = Append(fk.shifted, id) /\ gk.accepted = fk.accepted
      BY <1>0, <2>2 DEF Forked, IsRec, ForkFields
    <2>4. Pushed(gk.frames, fk.frames, f) /\ Pushed(gk.shifted, fk.shifted, id)
      BY <2>3 DEF Pushed
    <2>5. PICK gs, s, q : gs = gk.frames /\ s = gk.shifted /\ q = fk.shifted
      OBVIOUS
    <2>6. /\ FramesOK(gs, K, bt) /\ Extends(gs, fk.frames) /\ Extends(bt, at)
          /\ Len(gs) = Len(fk.frames) + 1 /\ bt[Len(gs)] = j
          /\ AllAt(fk.active, Len(gs), bt, L) /\ AllAt(fk.worklist, Len(gs), bt, L)
          /\ AllAt(fk.shifted, Len(gs), bt, M)
      <3>1. Forked(fk, K, at, L, M)
        BY <1>0
      <3>2. IsRec(f, FrameFields) /\ FitsOn(fk.frames, K, at, f, j, Len(fk.frames))
        BY <1>7, <1>8
      <3>3. Pushed(gs, fk.frames, f) /\ Pushed(bt, at, j)
        BY <1>9, <2>4, <2>5
      <3> QED
        BY <3>1, <3>2, <3>3, OneMore
    <2>7. AllAt(s, id, bt, M)
      <3>1. AllAt(q, id, bt, M) /\ bt[id] \in M /\ id \in 1..id
        BY <1>1, <1>2, <1>11, <1>12, <2>1, <2>5, <2>6
      <3> QED
        BY <2>4, <2>5, <3>1, ListGrows
    <2> QED
      BY <2>1, <2>3, <2>5, <2>6, <2>7 DEF Forked, Goes
  <1> QED
    BY <1>0, <1>10, <1>11

(* A path at one of the places of L that has certain entries to follow on   *)
(* a token, and a fork in which they have been followed.                    *)
Fits(fk, K, at, L, M, path, t, stays, E) ==
  /\ Forked(fk, K, at, L, M)
  /\ path \in 1..Len(fk.frames) /\ at[path] \in L
  /\ t \in TermsEOF /\ stays \in BOOLEAN /\ (t # EOF => Moving(K, t, at[path], stays, L, M))
  /\ \A e \in E : e.kind \in {"shift", "reduce"} => e \in KeptOf(action[fk.frames[path].state][t])

Followed(gk, fk, K, at, L, M, E) ==
  \E bt : /\ Goes(gk, fk, K, bt, at, L, M)
          /\ gk.accepted = fk.accepted \/ \E e \in E : e.kind \notin {"shift", "reduce"}

LEMMA Applied ==
  ASSUME Built, phase = "ready", NEW K, NEW P, Closed(K, P),
         NEW fk, NEW at, NEW L, NEW M, NEW path, NEW t, NEW stays, NEW E,
         Fits(fk, K, at, L, M, path, t, stays, E), NEW e \in E, NEW tok, t = tok.type,
         NEW ctx, NEW gk, gk = ApplyAction(fk, path, e, tok, stays, ctx)
  PROVE  Followed(gk, fk, K, at, L, M, E)
  <1>0. /\ Forked(fk, K, at, L, M)
        /\ path \in 1..Len(fk.frames) /\ at[path] \in L
        /\ t \in TermsEOF /\ stays \in BOOLEAN /\ (t # EOF => Moving(K, t, at[path], stays, L, M))
        /\ e.kind \in {"shift", "reduce"} => e \in KeptOf(action[fk.frames[path].state][t])
    BY DEF Fits
  <1>1. CASE e.kind = "shift"
    <2>1. PICK p : p = fk.frames[path].state /\ p \in 1..Len(states)
      <3>1. PICK fs : fs = fk.frames /\ FramesOK(fs, K, at)
        BY <1>0 DEF Forked
      <3>2. PICK m \in Nat : m = Len(fs) /\ path \in 1..m
        BY <1>0, <3>1, FramesShape
      <3>3. PICK D, st, par : /\ D = 1..m
                              /\ st = [id \in 1..m |-> fs[id].state] /\ par = [id \in 1..m |-> fs[id].parent]
        OBVIOUS
      <3>4. Hanging(K, D, st, par, at) /\ path \in D /\ st[path] = fs[path].state
        BY <3>1, <3>2, <3>3, FramesHang
      <3> QED
        BY <3>1, <3>4, HangingShape
    <2>2. t # EOF
      BY <1>0, <1>1, <2>1, ShiftIsAMove
    <2>3. gk = ForkShift(fk, path, e.to, tok, stays, ctx)
      BY <1>1 DEF ApplyAction
    <2>4. OnPath(fk, K, at, L, M, path, t, e)
      BY <1>0, <1>1 DEF OnPath
    <2>5. Shifting(gk, fk, K, at, L, M, path, t, e, tok, stays, ctx)
      BY <1>0, <1>1, <2>2, <2>3, <2>4 DEF Shifting
    <2>6. \E bt : Goes(gk, fk, K, bt, at, L, M) /\ gk.accepted = fk.accepted
      BY <2>5, ShiftedForks
    <2> QED
      BY <2>6 DEF Followed
  <1>2. CASE e.kind = "reduce"
    <2>1. gk = ForkReduce(fk, path, e.rule, ctx)
      BY <1>2 DEF ApplyAction
    <2>2. OnPath(fk, K, at, L, M, path, t, e)
      BY <1>0, <1>2 DEF OnPath
    <2>3. \E bt : Goes(gk, fk, K, bt, at, L, M) /\ gk.accepted = fk.accepted
      BY <1>2, <2>1, <2>2, ReducedForks
    <2> QED
      BY <2>3 DEF Followed
  <1>3. CASE e.kind \notin {"shift", "reduce"}
    <2>1. PICK v : v = <<fk.frames[path].value>>
      OBVIOUS
    <2>2. gk = [fk EXCEPT !.accepted = v]
      BY <1>3, <2>1 DEF ApplyAction
    <2>3. /\ IsRec(gk, ForkFields) /\ gk.frames = fk.frames /\ gk.active = fk.active
          /\ gk.worklist = fk.worklist /\ gk.shifted = fk.shifted
      BY <1>0, <2>2 DEF Forked, IsRec, ForkFields
    <2>4. Forked(gk, K, at, L, M)
      BY <1>0, <2>3 DEF Forked
    <2>5. Extends(gk.frames, fk.frames) /\ Extends(at, at)
      BY <1>0, <2>3, FramesShape DEF Extends, Forked
    <2> QED
      BY <1>3, <2>4, <2>5 DEF Goes, Followed
  <1>4. e.kind = "shift" \/ e.kind = "reduce" \/ e.kind \notin {"shift", "reduce"}
    OBVIOUS
  <1> QED
    BY <1>1, <1>2, <1>3, <1>4

LEMMA ExtendsFurther ==
  ASSUME NEW s, NEW t, NEW u, Len(s) \in Nat, Len(t) \in Nat, Len(u) \in Nat, Extends(t, s), Extends(u, t)
  PROVE  Extends(u, s)
  BY DEF Extends

LEMMA GoesOn ==
  ASSUME NEW fk, NEW gk, NEW hk, NEW K, NEW at, NEW bt, NEW ct, NEW L, NEW M, Forked(fk, K, at, L, M),
         Goes(gk, fk, K, bt, at, L, M), Goes(hk, gk, K, ct, bt, L, M)
  PROVE  Goes(hk, fk, K, ct, at, L, M)
  <1>1. PICK f, g, h : f = fk.frames /\ g = gk.frames /\ h = hk.frames
    OBVIOUS
  <1>2. FramesOK(f, K, at) /\ FramesOK(g, K, bt) /\ FramesOK(h, K, ct)
    BY <1>1 DEF Goes, Forked
  <1>3. Len(f) \in Nat /\ Len(g) \in Nat /\ Len(h) \in Nat /\ Len(at) \in Nat /\ Len(bt) \in Nat /\ Len(ct) \in Nat
    BY <1>2, FramesShape
  <1>4. Extends(h, f) /\ Extends(ct, at)
    BY <1>1, <1>3, ExtendsFurther DEF Goes
  <1> QED
    BY <1>1, <1>4 DEF Goes

(* One branch of a conflict.                                                *)
Branched(fk, g, path, e, tok, stays) ==
  LET cloned == CloneContext(g, fk.frames[path].ctx)
  IN  ApplyAction(cloned.fk, path, e, tok, stays, cloned.ctx)

BranchesUpTo(h, n, fk, path, entries, tok, stays) ==
  h[0] = fk /\ \A k \in 1..n : h[k] = Branched(fk, h[k - 1], path, entries[k], tok, stays)

LEMMA BranchSteps ==
  ASSUME NEW fk, NEW path, NEW entries, NEW n \in Nat, n = Len(entries), NEW tok, NEW stays
  PROVE  \E h : BranchesUpTo(h, n, fk, path, entries, tok, stays) /\ Branch(fk, path, entries, tok, stays) = h[n]
  <1> DEFINE B(k, g) == Branched(fk, g, path, entries[k], tok, stays)
             IsF(h, m) == h = [k \in 0..m |-> IF k = 0 THEN fk ELSE B(k, h[k - 1])]
             H == {m \in 0..n : \E h : IsF(h, m)}
             F == CHOOSE h : IsF(h, n)
  <1>1. Branch(fk, path, entries, tok, stays) = F[n]
    BY DEF Branch, Branched
  <1> HIDE DEF B
  <1>2. \A m \in 0..n : m \in H
    <2>1. 0 \in H
      <3>1. PICK h : h = [k \in 0..0 |-> fk]
        OBVIOUS
      <3>2. h = [k \in 0..0 |-> IF k = 0 THEN fk ELSE B(k, h[k - 1])]
        BY <3>1
      <3> QED
        BY <3>2
    <2>2. ASSUME NEW m \in 1..n, m - 1 \in H PROVE m \in H
      <3>1. PICK g : IsF(g, m - 1)
        BY <2>2
      <3>2. PICK h : h = [k \in 0..m |-> IF k = m THEN B(m, g[m - 1]) ELSE g[k]]
        OBVIOUS
      <3>3. ASSUME NEW k \in 0..m PROVE h[k] = IF k = 0 THEN fk ELSE B(k, h[k - 1])
        <4>1. CASE k = m
          <5>1. h[k] = B(k, g[m - 1]) /\ m # 0 /\ m - 1 \in 0..m /\ m - 1 # m
            BY <3>2, <4>1
          <5>2. h[m - 1] = g[m - 1]
            BY <3>2, <5>1
          <5> QED
            BY <4>1, <5>1, <5>2
        <4>2. CASE k # m
          <5>1. k \in 0..(m - 1) /\ h[k] = g[k]
            BY <3>2, <4>2
          <5>2. g[k] = IF k = 0 THEN fk ELSE B(k, g[k - 1])
            BY <3>1, <5>1
          <5>3. k # 0 => h[k - 1] = g[k - 1]
            BY <3>2, <5>1
          <5> QED
            BY <5>1, <5>2, <5>3
        <4> QED
          BY <4>1, <4>2
      <3>4. h = [k \in 0..m |-> h[k]]
        BY <3>2
      <3>5. h = [k \in 0..m |-> IF k = 0 THEN fk ELSE B(k, h[k - 1])]
        BY <3>3, <3>4
      <3>6. m \in 0..n
        OBVIOUS
      <3> QED
        BY <3>5, <3>6
    <2> HIDE DEF H
    <2> QED
      BY <2>1, <2>2, Climbing
  <1>3. \E h : IsF(h, n)
    <2>1. n \in 0..n
      OBVIOUS
    <2> QED
      BY <1>2, <2>1
  <1> HIDE DEF IsF
  <1>4. IsF(F, n)
    BY <1>3
  <1>5. PICK h : h = F
    OBVIOUS
  <1> HIDE DEF F
  <1>6. h = [k \in 0..n |-> IF k = 0 THEN fk ELSE B(k, h[k - 1])]
    BY <1>4, <1>5 DEF IsF
  <1>7. h[0] = fk /\ \A k \in 1..n : h[k] = B(k, h[k - 1])
    <2>1. 0 \in 0..n /\ \A k \in 1..n : k \in 0..n /\ k # 0
      OBVIOUS
    <2> QED
      BY <1>6, <2>1
  <1> QED
    BY <1>1, <1>5, <1>7 DEF BranchesUpTo, B

LEMMA BranchForks ==
  ASSUME Built, phase = "ready", NEW K, NEW P, Closed(K, P),
         NEW fk, NEW at, NEW L, NEW M, NEW path, NEW t, NEW stays, NEW entries, NEW n \in Nat, n = Len(entries),
         NEW E, \A k \in 1..n : entries[k] \in E,
         Fits(fk, K, at, L, M, path, t, stays, E), NEW tok, t = tok.type,
         NEW gk, gk = Branch(fk, path, entries, tok, stays)
  PROVE  Followed(gk, fk, K, at, L, M, E)
  <1>1. PICK h : BranchesUpTo(h, n, fk, path, entries, tok, stays) /\ gk = h[n]
    BY BranchSteps
  <1> DEFINE H == {k \in 0..n : Followed(h[k], fk, K, at, L, M, E)}
  <1>2. Forked(fk, K, at, L, M) /\ path \in 1..Len(fk.frames) /\ at[path] \in L
    BY DEF Fits
  <1>3. Len(fk.frames) \in Nat /\ Len(at) = Len(fk.frames)
    BY <1>2, FramesShape DEF Forked
  <1>4. 0 \in H
    <2>1. Extends(fk.frames, fk.frames) /\ Extends(at, at)
      BY <1>3 DEF Extends
    <2>2. Goes(fk, fk, K, at, at, L, M)
      BY <1>2, <2>1 DEF Goes
    <2>3. Followed(fk, fk, K, at, L, M, E)
      BY <2>2 DEF Followed
    <2> QED
      BY <1>1, <2>3 DEF BranchesUpTo
  <1>5. ASSUME NEW k \in 1..n, k - 1 \in H PROVE k \in H
    <2>1. PICK g : g = h[k - 1] /\ Followed(g, fk, K, at, L, M, E)
      BY <1>5
    <2>2. PICK bt : /\ Goes(g, fk, K, bt, at, L, M)
                    /\ g.accepted = fk.accepted \/ \E e \in E : e.kind \notin {"shift", "reduce"}
      BY <2>1 DEF Followed
    <2>3. PICK x : x = fk.frames[path].ctx
      OBVIOUS
    <2>4. PICK c, ctx : c = CloneContext(g, x).fk /\ ctx = CloneContext(g, x).ctx
      OBVIOUS
    <2>5. PICK hk : hk = h[k]
      OBVIOUS
    <2>6. PICK e \in E : e = entries[k]
      OBVIOUS
    <2>7. hk = ApplyAction(c, path, e, tok, stays, ctx)
      BY <1>1, <2>1, <2>3, <2>4, <2>5, <2>6 DEF BranchesUpTo, Branched
    <2>8. Forked(g, K, bt, L, M)
      BY <2>2 DEF Goes
    <2>9. /\ IsRec(c, ForkFields) /\ c.frames = g.frames /\ c.active = g.active
          /\ c.worklist = g.worklist /\ c.shifted = g.shifted /\ c.accepted = g.accepted
      BY <2>4, <2>8 DEF Forked, IsRec, ForkFields, CloneContext
    <2>10. Forked(c, K, bt, L, M)
      BY <2>8, <2>9 DEF Forked
    <2>11. Goes(c, fk, K, bt, at, L, M)
      BY <2>2, <2>9, <2>10 DEF Goes
    <2>12. path \in 1..Len(c.frames) /\ c.frames[path] = fk.frames[path] /\ bt[path] = at[path]
      <3>1. Len(c.frames) \in Nat
        BY <2>10, FramesShape DEF Forked
      <3> QED
        BY <1>2, <1>3, <2>11, <3>1 DEF Goes, Extends
    <2>13. Fits(c, K, bt, L, M, path, t, stays, E)
      BY <2>10, <2>12 DEF Fits
    <2>14. Followed(hk, c, K, bt, L, M, E)
      BY <2>7, <2>13, Applied
    <2>15. PICK ct : /\ Goes(hk, c, K, ct, bt, L, M)
                     /\ hk.accepted = c.accepted \/ \E f \in E : f.kind \notin {"shift", "reduce"}
      BY <2>14 DEF Followed
    <2>16. Goes(hk, fk, K, ct, at, L, M)
      BY <1>2, <2>11, <2>15, GoesOn
    <2>17. Followed(hk, fk, K, at, L, M, E)
      BY <2>2, <2>9, <2>15, <2>16 DEF Followed
    <2>18. k \in 0..n
      OBVIOUS
    <2> QED
      BY <2>5, <2>17, <2>18
  <1>6. \A k \in 0..n : k \in H
    <2> HIDE DEF H
    <2> QED
      BY <1>4, <1>5, Climbing
  <1>7. n \in 0..n
    OBVIOUS
  <1> QED
    BY <1>1, <1>6, <1>7

(* A path's entry on a token, one alternative or all of a conflict's.       *)
LEMMA EntryFollowed ==
  ASSUME Built, AlwaysInv, phase = "ready", NEW K, NEW P, Closed(K, P),
         NEW fk, NEW at, NEW L, NEW M, Forked(fk, K, at, L, M),
         NEW path \in 1..Len(fk.frames), at[path] \in L, NEW p, p = fk.frames[path].state,
         NEW tok, NEW t, t = tok.type, NEW e, e = Entry(action[p], t), e.kind \notin {"none", "error"},
         NEW stays, stays \in BOOLEAN, t # EOF /\ t \in TermsEOF => Moving(K, t, at[path], stays, L, M),
         NEW gk, gk = FollowEntry(fk, path, tok, stays)
  PROVE  /\ p \in 1..Len(states) /\ t \in TermsEOF
         /\ \E bt : /\ Goes(gk, fk, K, bt, at, L, M)
                    /\ \/ gk.accepted = fk.accepted
                       \/ e.kind = "ignore"
                       \/ \E a \in KeptOf(action[p][t]) : a.kind = "accept"
  <1>1. p \in 1..Len(states)
    <2>1. PICK fs : fs = fk.frames /\ FramesOK(fs, K, at)
      BY DEF Forked
    <2>2. PICK m \in Nat : m = Len(fs) /\ path \in 1..m
      BY <2>1, FramesShape
    <2>3. PICK D, st, par : /\ D = 1..m
                            /\ st = [id \in 1..m |-> fs[id].state] /\ par = [id \in 1..m |-> fs[id].parent]
      OBVIOUS
    <2>4. Hanging(K, D, st, par, at) /\ path \in D /\ st[path] = fs[path].state
      BY <2>1, <2>2, <2>3, FramesHang
    <2> QED
      BY <2>1, <2>4, HangingShape
  <1>2. t \in TermsEOF /\ e = action[p][t]
    BY <1>1, EntryIs
  <1>3. PICK kept : kept = KeptOf(action[p][t])
    OBVIOUS
  <1>4. \A a \in kept : a.kind \in {"shift", "reduce", "accept"}
    <2> SUFFICES ASSUME NEW a \in kept PROVE a.kind \in {"shift", "reduce", "accept"}
      OBVIOUS
    <2>1. a \in AltUpto(p, Len(states[p]), t)
      BY <1>1, <1>2, <1>3, KeptIsOffered
    <2> QED
      BY <2>1, EntryShape DEF AltUpto, Moves
  <1>5. CASE e.kind = "conflict"
    <2>1. PICK entries : entries = e.entries
      OBVIOUS
    <2>2. PICK a, b : entries = <<a, b>>
      BY <1>1, <1>2, <1>5, <2>1 DEF AlwaysInv, Filled
    <2>3. PICK n \in Nat : n = 2 /\ n = Len(entries)
      BY <2>2
    <2>4. ASSUME NEW k \in 1..n PROVE entries[k] \in kept
      <3>1. kept = ToSet(entries)
        BY <1>2, <1>3, <1>5, <2>1 DEF KeptOf
      <3>2. entries \in Seq({a, b})
        BY <2>2
      <3> QED
        BY <2>3, <3>1, <3>2, HoldsAt
    <2>5. Fits(fk, K, at, L, M, path, t, stays, kept)
      BY <1>2, <1>3 DEF Fits
    <2>6. gk = Branch(fk, path, entries, tok, stays)
      BY <1>5, <2>1 DEF FollowEntry
    <2>7. Followed(gk, fk, K, at, L, M, kept)
      BY <2>3, <2>4, <2>5, <2>6, BranchForks
    <2> QED
      BY <1>1, <1>2, <1>3, <1>4, <2>7 DEF Followed
  <1>6. CASE e.kind # "conflict"
    <2>1. PICK E : E = {e}
      OBVIOUS
    <2>2. e.kind # "ignore" => e \in kept
      BY <1>2, <1>3, <1>6 DEF KeptOf
    <2>3. Fits(fk, K, at, L, M, path, t, stays, E)
      BY <1>2, <1>3, <2>1, <2>2 DEF Fits
    <2>4. PICK ctx : gk = ApplyAction(fk, path, e, tok, stays, ctx)
      BY <1>6 DEF FollowEntry
    <2>5. Followed(gk, fk, K, at, L, M, E)
      BY <2>1, <2>3, <2>4, Applied
    <2>6. PICK bt : /\ Goes(gk, fk, K, bt, at, L, M)
                    /\ gk.accepted = fk.accepted \/ \E f \in E : f.kind \notin {"shift", "reduce"}
      BY <2>5 DEF Followed
    <2> QED
      BY <1>1, <1>2, <1>3, <1>4, <2>1, <2>2, <2>6
  <1> QED
    BY <1>5, <1>6

(* The next path is taken off the list.                                     *)
LEMMA ListTail ==
  ASSUME NEW q, NEW n \in Nat, NEW at, NEW L, AllAt(q, n, at, L), q # <<>>
  PROVE  /\ AllAt(Tail(q), n, at, L) /\ Head(q) \in 1..n /\ at[Head(q)] \in L
  <1>1. PICK l \in Nat : l = Len(q) /\ l > 0
    BY DEF AllAt
  <1>2. q \in Seq(1..n) /\ \A k \in 1..l : at[q[k]] \in L
    BY <1>1 DEF AllAt
  <1>3. PICK p : p = Tail(q)
    OBVIOUS
  <1>4. p \in Seq(1..n) /\ Len(p) = l - 1 /\ \A k \in 1..(l - 1) : p[k] = q[k + 1]
    BY <1>1, <1>2, <1>3
  <1>5. ASSUME NEW k \in 1..(l - 1) PROVE at[p[k]] \in L
    <2>1. k + 1 \in 1..l
      OBVIOUS
    <2>2. PICK i : i = q[k + 1]
      OBVIOUS
    <2>3. at[i] \in L
      BY <1>2, <2>1, <2>2
    <2> QED
      BY <1>4, <2>2, <2>3
  <1>6. Head(q) = q[1] /\ 1 \in 1..l
    BY <1>1, <1>2
  <1> QED
    BY <1>1, <1>2, <1>3, <1>4, <1>5, <1>6 DEF AllAt

LEMMA TakenOff ==
  ASSUME NEW K, NEW at, NEW L, NEW M, Forked(fork, K, at, L, M), Sweeping,
         NEW n, NEW fk, fk = Taken \/ fk = [Taken EXCEPT !.recoveries = n]
  PROVE  /\ Forked(fk, K, at, L, M) /\ fk.frames = fork.frames /\ fk.accepted = fork.accepted
         /\ Path \in 1..Len(fk.frames) /\ at[Path] \in L
  <1>1. PICK q : q = fork.worklist /\ q # <<>>
    BY DEF Sweeping
  <1>2. PICK m \in Nat : m = Len(fork.frames) /\ AllAt(q, m, at, L)
    BY <1>1, FramesShape DEF Forked
  <1>3. PICK rest : rest = Tail(q) /\ AllAt(rest, m, at, L) /\ Path \in 1..m /\ at[Path] \in L
    BY <1>1, <1>2, ListTail DEF Path
  <1>4. PICK w : w = fork.work + 1
    OBVIOUS
  <1>5. fk = [fork EXCEPT !.worklist = rest, !.work = w]
        \/ fk = [fork EXCEPT !.worklist = rest, !.work = w, !.recoveries = n]
    BY <1>1, <1>3, <1>4 DEF Taken
  <1>6. /\ IsRec(fk, ForkFields) /\ fk.frames = fork.frames /\ fk.active = fork.active
        /\ fk.worklist = rest /\ fk.shifted = fork.shifted /\ fk.accepted = fork.accepted
    BY <1>5 DEF Forked, IsRec, ForkFields
  <1> QED
    BY <1>2, <1>3, <1>6 DEF Forked

(* The stack becomes the first chain of frames.                             *)
LEMMA StartForks ==
  ASSUME NEW K, NEW s, NEW c, IsRead(K, s, c), NEW L, NEW M, c[Len(s)] \in L,
         NEW gk, gk = [NoFork EXCEPT
           !.frames = [k \in 1..Len(s) |->
                         [parent |-> k - 1, state |-> s[k].state, value |-> s[k].value,
                          ctx |-> 1, span |-> s[k].span, ran |-> <<>>]],
           !.active = <<Len(s)>>, !.worklist = <<Len(s)>>, !.contexts = <<(<<>>)>>]
  PROVE  Forked(gk, K, c, L, M) /\ gk.accepted = <<>>
  <1>1. PICK n \in Nat : n = Len(s) /\ n > 0
    BY DEF IsRead
  <1>2. Len(c) = n /\ c \in Seq(Nat) /\ c[1] = 0 /\ s[1].state = 1
    BY <1>1 DEF IsRead
  <1> DEFINE Frame(k) == [parent |-> k - 1, state |-> s[k].state, value |-> s[k].value,
                          ctx |-> 1, span |-> s[k].span, ran |-> <<>>]
  <1>3. \A k : /\ IsRec(Frame(k), FrameFields) /\ Frame(k).parent = k - 1 /\ Frame(k).state = s[k].state
    BY DEF IsRec, FrameFields
  <1>4. PICK fs : fs = [k \in 1..n |-> Frame(k)]
    OBVIOUS
  <1>5. PICK one : one = <<n>>
    OBVIOUS
  <1>6. PICK ctxs : ctxs = <<(<<>>)>>
    OBVIOUS
  <1>7. gk = [NoFork EXCEPT !.frames = fs, !.active = one, !.worklist = one, !.contexts = ctxs]
    BY <1>1, <1>4, <1>5, <1>6
  <1>8. IsRec(NoFork, ForkFields) /\ NoFork.accepted = <<>> /\ NoFork.shifted = <<>>
    BY DEF NoFork, IsRec, ForkFields
  <1>9. /\ IsRec(gk, ForkFields) /\ gk.frames = fs /\ gk.active = one /\ gk.worklist = one
        /\ gk.shifted = <<>> /\ gk.accepted = <<>>
    BY <1>7, <1>8 DEF IsRec, ForkFields
  <1>10. fs \in [1..n -> {Frame(k) : k \in 1..n}]
    BY <1>4
  <1> HIDE DEF Frame
  <1>11. Len(fs) = n /\ fs \in Seq({Frame(k) : k \in 1..n}) /\ \A k \in 1..n : fs[k] = Frame(k)
    BY <1>4, <1>10
  <1>12. ASSUME NEW k \in 1..n PROVE IsRec(fs[k], FrameFields) /\ FitsOn(fs, K, c, fs[k], c[k], k - 1)
    <2>1. IsRec(fs[k], FrameFields) /\ fs[k].parent = k - 1 /\ fs[k].state = s[k].state
      BY <1>3, <1>11
    <2>2. k - 1 \in 0..(k - 1)
      OBVIOUS
    <2>3. CASE k = 1
      BY <1>2, <2>1, <2>2, <2>3 DEF FitsOn
    <2>4. CASE k # 1
      <3>1. k \in 2..n /\ k - 1 \in 1..n /\ k - 1 # 0
        BY <2>4
      <3>2. Reads(K, s[k - 1].state, s[k].state, c[k - 1], c[k])
        BY <1>1, <3>1 DEF IsRead
      <3>3. fs[k - 1].state = s[k - 1].state
        BY <1>3, <1>11, <3>1
      <3> QED
        BY <2>1, <2>2, <3>1, <3>2, <3>3 DEF FitsOn
    <2> QED
      BY <2>3, <2>4
  <1>13. FramesOK(fs, K, c)
    BY <1>2, <1>11, <1>12 DEF FramesOK
  <1>14. AllAt(one, n, c, L)
    <2>1. one \in Seq(1..n) /\ Len(one) = 1 /\ one[1] = n
      BY <1>1, <1>5
    <2>2. \A k \in 1..1 : k = 1
      OBVIOUS
    <2> QED
      BY <1>1, <2>1, <2>2 DEF AllAt
  <1>15. PICK none : none = <<>>
    OBVIOUS
  <1>16. AllAt(none, n, c, M)
    <2>1. none \in Seq(1..n) /\ Len(none) = 0
      BY <1>15
    <2> QED
      BY <2>1 DEF AllAt
  <1> QED
    BY <1>9, <1>11, <1>13, <1>14, <1>15, <1>16 DEF Forked

(* Past a token: the frames that shifted it, made active one by one.        *)
Afresh == [fork EXCEPT !.active = <<>>, !.shifted = <<>>, !.recoveries = 0]
SurvivorsUpTo(h, n) ==
  h[0] = Afresh /\ \A k \in 1..n : h[k] = Activate(h[k - 1], fork.frames[fork.shifted[k]], 0)

LEMMA SurvivorSteps ==
  ASSUME NEW n \in Nat, n = Len(fork.shifted)
  PROVE  \E h : SurvivorsUpTo(h, n) /\ Survivors = h[n]
  <1> DEFINE B(k, g) == Activate(g, fork.frames[fork.shifted[k]], 0)
             IsF(h, m) == h = [k \in 0..m |-> IF k = 0 THEN Afresh ELSE B(k, h[k - 1])]
             H == {m \in 0..n : \E h : IsF(h, m)}
             F == CHOOSE h : IsF(h, n)
  <1>1. Survivors = F[n]
    BY DEF Survivors, Afresh
  <1> HIDE DEF B
  <1>2. \A m \in 0..n : m \in H
    <2>1. 0 \in H
      <3>1. PICK h : h = [k \in 0..0 |-> Afresh]
        OBVIOUS
      <3>2. h = [k \in 0..0 |-> IF k = 0 THEN Afresh ELSE B(k, h[k - 1])]
        BY <3>1
      <3> QED
        BY <3>2
    <2>2. ASSUME NEW m \in 1..n, m - 1 \in H PROVE m \in H
      <3>1. PICK g : IsF(g, m - 1)
        BY <2>2
      <3>2. PICK h : h = [k \in 0..m |-> IF k = m THEN B(m, g[m - 1]) ELSE g[k]]
        OBVIOUS
      <3>3. ASSUME NEW k \in 0..m PROVE h[k] = IF k = 0 THEN Afresh ELSE B(k, h[k - 1])
        <4>1. CASE k = m
          <5>1. h[k] = B(k, g[m - 1]) /\ m # 0 /\ m - 1 \in 0..m /\ m - 1 # m
            BY <3>2, <4>1
          <5>2. h[m - 1] = g[m - 1]
            BY <3>2, <5>1
          <5> QED
            BY <4>1, <5>1, <5>2
        <4>2. CASE k # m
          <5>1. k \in 0..(m - 1) /\ h[k] = g[k]
            BY <3>2, <4>2
          <5>2. g[k] = IF k = 0 THEN Afresh ELSE B(k, g[k - 1])
            BY <3>1, <5>1
          <5>3. k # 0 => h[k - 1] = g[k - 1]
            BY <3>2, <5>1
          <5> QED
            BY <5>1, <5>2, <5>3
        <4> QED
          BY <4>1, <4>2
      <3>4. h = [k \in 0..m |-> h[k]]
        BY <3>2
      <3>5. h = [k \in 0..m |-> IF k = 0 THEN Afresh ELSE B(k, h[k - 1])]
        BY <3>3, <3>4
      <3>6. m \in 0..n
        OBVIOUS
      <3> QED
        BY <3>5, <3>6
    <2> HIDE DEF H
    <2> QED
      BY <2>1, <2>2, Climbing
  <1>3. \E h : IsF(h, n)
    <2>1. n \in 0..n
      OBVIOUS
    <2> QED
      BY <1>2, <2>1
  <1> HIDE DEF IsF
  <1>4. IsF(F, n)
    BY <1>3
  <1>5. PICK h : h = F
    OBVIOUS
  <1> HIDE DEF F
  <1>6. h = [k \in 0..n |-> IF k = 0 THEN Afresh ELSE B(k, h[k - 1])]
    BY <1>4, <1>5 DEF IsF
  <1>7. h[0] = Afresh /\ \A k \in 1..n : h[k] = B(k, h[k - 1])
    <2>1. 0 \in 0..n /\ \A k \in 1..n : k \in 0..n /\ k # 0
      OBVIOUS
    <2> QED
      BY <1>6, <2>1
  <1> QED
    BY <1>1, <1>5, <1>7 DEF SurvivorsUpTo, B

LEMMA SurvivorsForked ==
  ASSUME NEW K, NEW at, NEW L, NEW M, M \subseteq Nat, Forked(fork, K, at, L, M), Swept
  PROVE  /\ \E bt : Forked(Survivors, K, bt, M, M)
         /\ Survivors.shifted = <<>> /\ Survivors.accepted = <<>> /\ Survivors.worklist = <<>>
  <1>1. PICK q : q = fork.shifted
    OBVIOUS
  <1>2. PICK fs : fs = fork.frames /\ FramesOK(fs, K, at)
    BY DEF Forked
  <1>3. PICK m \in Nat : m = Len(fs) /\ Len(at) = m
    BY <1>2, FramesShape
  <1>4. PICK n \in Nat : n = Len(q)
    BY <1>1 DEF Forked, AllAt
  <1>5. q \in Seq(1..m) /\ \A k \in 1..n : at[q[k]] \in M
    BY <1>1, <1>2, <1>3, <1>4 DEF Forked, AllAt
  <1>6. PICK h : SurvivorsUpTo(h, n) /\ Survivors = h[n]
    BY <1>1, <1>4, SurvivorSteps
  <1>7. PICK none : none = <<>>
    OBVIOUS
  <1>8. none \in Seq(1..m) /\ Len(none) = 0
    BY <1>7
  <1>9. AllAt(none, m, at, M)
    BY <1>8 DEF AllAt
  <1>10. PICK start : start = h[0] /\ start = [fork EXCEPT !.active = none, !.shifted = none, !.recoveries = 0]
    BY <1>6, <1>7 DEF SurvivorsUpTo, Afresh
  <1>11. fork.worklist = none /\ fork.accepted = none
    BY <1>7 DEF Swept
  <1>12. /\ IsRec(start, ForkFields) /\ start.frames = fs /\ start.active = none
         /\ start.worklist = none /\ start.shifted = none /\ start.accepted = none
    BY <1>2, <1>10, <1>11 DEF Forked, IsRec, ForkFields
  <1>13. Forked(start, K, at, M, M)
    BY <1>2, <1>3, <1>9, <1>12 DEF Forked
  <1> DEFINE H == {k \in 0..n : /\ \E bt : Goes(h[k], start, K, bt, at, M, M)
                                /\ h[k].shifted = none /\ h[k].accepted = none /\ h[k].worklist = none}
  <1>14. 0 \in H
    <2>1. Extends(start.frames, start.frames) /\ Extends(at, at)
      BY <1>3, <1>12 DEF Extends
    <2>2. Goes(start, start, K, at, at, M, M)
      BY <1>13, <2>1 DEF Goes
    <2>3. 0 \in 0..n /\ h[0] = start
      BY <1>10
    <2>4. \E bt : Goes(h[0], start, K, bt, at, M, M)
      BY <2>2, <2>3
    <2> QED
      BY <1>12, <2>3, <2>4
  <1>15. ASSUME NEW k \in 1..n, k - 1 \in H PROVE k \in H
    <2>1. PICK g, bt : /\ g = h[k - 1] /\ Goes(g, start, K, bt, at, M, M)
                       /\ g.shifted = none /\ g.accepted = none /\ g.worklist = none
      BY <1>15
    <2>2. PICK id \in 1..m : id = q[k] /\ at[id] \in M
      BY <1>4, <1>5
    <2>3. PICK f : f = fs[id] /\ IsRec(f, FrameFields)
      BY <1>2, <1>3 DEF FramesOK
    <2>4. PICK j \in Nat : j = at[id] /\ j \in M
      BY <2>2
    <2>5. FitsOn(fs, K, at, f, j, id - 1)
      BY <1>2, <1>3, <2>3, <2>4 DEF FramesOK
    <2>6. PICK gs : gs = g.frames /\ Extends(gs, fs) /\ Extends(bt, at) /\ FramesOK(gs, K, bt)
      BY <1>12, <2>1 DEF Goes, Forked
    <2>7. FitsOn(gs, K, bt, f, j, Len(gs))
      <3>1. Len(gs) \in Nat /\ m <= Len(gs)
        BY <1>3, <2>6, FramesShape DEF Extends
      <3>2. id - 1 \in Nat /\ id - 1 <= m /\ id - 1 <= Len(gs)
        BY <3>1
      <3> QED
        BY <1>3, <2>5, <2>6, <3>1, <3>2, FitsStill
    <2>8. PICK r : r = 0
      OBVIOUS
    <2>9. PICK hk : hk = h[k] /\ hk = Activate(g, f, r)
      BY <1>1, <1>2, <1>6, <2>1, <2>2, <2>3, <2>8 DEF SurvivorsUpTo
    <2>10. PICK ct : Pushed(ct, bt, j)
      BY DEF Pushed
    <2>11. Forked(g, K, bt, M, M) /\ FitsOn(g.frames, K, bt, f, j, Len(g.frames))
      BY <2>1, <2>6, <2>7 DEF Goes
    <2>16. PICK N : N = M
      OBVIOUS
    <2>17. Forked(g, K, bt, N, M) /\ j \in N
      BY <2>4, <2>11, <2>16
    <2>18. j \in Nat /\ IsRec(f, FrameFields) /\ hk = Activate(g, f, r) /\ Pushed(ct, bt, j)
      BY <2>3, <2>9, <2>10
    <2>19. /\ Forked(hk, K, ct, N, M) /\ Extends(hk.frames, g.frames) /\ Extends(ct, bt)
           /\ hk.accepted = g.accepted /\ hk.worklist = g.worklist /\ hk.shifted = g.shifted
      BY <2>11, <2>17, <2>18, Activated
    <2>12. /\ Forked(hk, K, ct, M, M) /\ Extends(hk.frames, g.frames) /\ Extends(ct, bt)
           /\ hk.accepted = g.accepted /\ hk.worklist = g.worklist /\ hk.shifted = g.shifted
      BY <2>16, <2>19
    <2>13. Goes(hk, g, K, ct, bt, M, M)
      BY <2>12 DEF Goes
    <2>14. Goes(hk, start, K, ct, at, M, M)
      BY <1>13, <2>1, <2>13, GoesOn
    <2>15. k \in 0..n
      OBVIOUS
    <2> QED
      BY <2>1, <2>9, <2>12, <2>14, <2>15
  <1>16. \A k \in 0..n : k \in H
    <2> HIDE DEF H
    <2> QED
      BY <1>14, <1>15, Climbing
  <1>17. n \in 0..n
    OBVIOUS
  <1> QED
    BY <1>6, <1>7, <1>16, <1>17 DEF Goes

(* The frames made active are all looked at before the next token.          *)
LEMMA Relisted ==
  ASSUME NEW fk, NEW K, NEW at, NEW M, Forked(fk, K, at, M, M), fk.shifted = <<>>, NEW L, M \subseteq L,
         NEW N, NEW gk, gk = [fk EXCEPT !.worklist = fk.active]
  PROVE  Forked(gk, K, at, L, N) /\ gk.accepted = fk.accepted
  <1>1. PICK q, none : q = fk.active /\ none = <<>>
    OBVIOUS
  <1>2. gk = [fk EXCEPT !.worklist = q]
    BY <1>1
  <1>3. /\ IsRec(gk, ForkFields) /\ gk.frames = fk.frames /\ gk.active = q /\ gk.worklist = q
        /\ gk.shifted = none /\ gk.accepted = fk.accepted
    BY <1>1, <1>2 DEF Forked, IsRec, ForkFields
  <1>4. PICK m : m = Len(fk.frames)
    OBVIOUS
  <1>5. AllAt(q, m, at, L)
    BY <1>1, <1>4 DEF Forked, AllAt
  <1>6. AllAt(none, m, at, N)
    <2>1. none \in Seq(1..m) /\ Len(none) = 0
      BY <1>1
    <2> QED
      BY <2>1 DEF AllAt
  <1> QED
    BY <1>3, <1>4, <1>5, <1>6 DEF Forked

(* How many frames there are from each one down to the bottom.              *)
IsDepth(d, fs, m) == d = [id \in 0..m |-> IF id = 0 THEN 0 ELSE 1 + d[fs[id].parent]]

LEMMA DepthExists ==
  ASSUME NEW fs, NEW n \in Nat, \A id \in 1..n : fs[id].parent \in 0..(id - 1)
  PROVE  \E d : IsDepth(d, fs, n)
  <1> DEFINE H == {m \in 0..n : \E d : IsDepth(d, fs, m)}
  <1>1. 0 \in H
    <2>1. PICK d : d = [id \in 0..0 |-> 0]
      OBVIOUS
    <2>2. d = [id \in 0..0 |-> IF id = 0 THEN 0 ELSE 1 + d[fs[id].parent]]
      BY <2>1
    <2> QED
      BY <2>2 DEF IsDepth
  <1>2. ASSUME NEW m \in 1..n, m - 1 \in H PROVE m \in H
    <2>1. PICK g : g = [id \in 0..(m - 1) |-> IF id = 0 THEN 0 ELSE 1 + g[fs[id].parent]]
      BY <1>2 DEF IsDepth
    <2>2. PICK d : d = [id \in 0..m |-> IF id = m THEN 1 + g[fs[m].parent] ELSE g[id]]
      OBVIOUS
    <2>3. ASSUME NEW id \in 0..m PROVE d[id] = IF id = 0 THEN 0 ELSE 1 + d[fs[id].parent]
      <3>1. CASE id = m
        <4>1. d[id] = 1 + g[fs[m].parent] /\ m # 0
          BY <2>2, <3>1
        <4>2. fs[m].parent \in 0..m /\ fs[m].parent # m
          OBVIOUS
        <4>3. d[fs[m].parent] = g[fs[m].parent]
          BY <2>2, <4>2
        <4> QED
          BY <3>1, <4>1, <4>3
      <3>2. CASE id # m
        <4>1. id \in 0..(m - 1) /\ d[id] = g[id]
          BY <2>2, <3>2
        <4>2. g[id] = IF id = 0 THEN 0 ELSE 1 + g[fs[id].parent]
          BY <2>1, <4>1
        <4>3. id # 0 => d[fs[id].parent] = g[fs[id].parent]
          <5>1. SUFFICES ASSUME id # 0 PROVE d[fs[id].parent] = g[fs[id].parent]
            OBVIOUS
          <5>2. fs[id].parent \in 0..m /\ fs[id].parent # m
            BY <4>1, <5>1
          <5> QED
            BY <2>2, <5>2
        <4> QED
          BY <4>1, <4>2, <4>3
      <3> QED
        BY <3>1, <3>2
    <2>4. d = [id \in 0..m |-> d[id]]
      BY <2>2
    <2>5. d = [id \in 0..m |-> IF id = 0 THEN 0 ELSE 1 + d[fs[id].parent]]
      BY <2>3, <2>4
    <2>6. m \in 0..n
      OBVIOUS
    <2> QED
      BY <2>5, <2>6 DEF IsDepth
  <1>3. n \in 0..n
    OBVIOUS
  <1>4. n \in H
    <2> HIDE DEF H
    <2> QED
      BY <1>1, <1>2, <1>3, Climbing
  <1> QED
    BY <1>4

LEMMA DepthIs ==
  ASSUME NEW fs, NEW n \in Nat, \A id \in 1..n : fs[id].parent \in 0..(id - 1), NEW d, IsDepth(d, fs, n)
  PROVE  /\ d[0] = 0
         /\ \A id \in 1..n : d[id] = 1 + d[fs[id].parent] /\ d[id] \in Nat \ {0}
  <1>1. 0 \in 0..n /\ \A id \in 1..n : id \in 0..n /\ id # 0
    OBVIOUS
  <1>2. d[0] = 0 /\ \A id \in 1..n : d[id] = 1 + d[fs[id].parent]
    BY <1>1 DEF IsDepth
  <1> DEFINE H == {m \in 0..n : \A id \in 0..m : d[id] \in Nat}
  <1>3. 0 \in H
    BY <1>2
  <1>4. ASSUME NEW m \in 1..n, m - 1 \in H PROVE m \in H
    <2>1. d[m] \in Nat
      BY <1>2, <1>4
    <2>2. \A id \in 0..m : id = m \/ id \in 0..(m - 1)
      OBVIOUS
    <2> QED
      BY <1>4, <2>1, <2>2
  <1>5. n \in 0..n
    OBVIOUS
  <1>6. n \in H
    <2> HIDE DEF H
    <2> QED
      BY <1>3, <1>4, <1>5, Climbing
  <1>7. ASSUME NEW id \in 1..n PROVE d[id] \in Nat \ {0}
    <2>1. d[fs[id].parent] \in Nat /\ d[id] = 1 + d[fs[id].parent]
      BY <1>2, <1>6
    <2> QED
      BY <2>1
  <1> QED
    BY <1>2, <1>7

(* So the frames from one down are a chain that ends below the bottom one.  *)
ReachesBottom(fk, path, N, up) ==
  /\ GoesDown(fk, path, N, up) /\ up[N] = 0
  /\ \A k \in 0..(N - 1) : up[k] \in 1..Len(fk.frames)
  /\ Chain(fk, path) = Popped(fk, path, N)

LEMMA ChainIs ==
  ASSUME NEW fk, NEW K, NEW at, FramesOK(fk.frames, K, at), NEW path \in 1..Len(fk.frames)
  PROVE  \E N \in Nat \ {0} : \E up : ReachesBottom(fk, path, N, up)
  <1>1. PICK fs : fs = fk.frames /\ FramesOK(fs, K, at)
    OBVIOUS
  <1>2. PICK n \in Nat : n = Len(fs) /\ path \in 1..n
    BY <1>1, FramesShape
  <1>3. \A id \in 1..n : fs[id].parent \in 0..(id - 1)
    BY <1>1, <1>2 DEF FramesOK, FitsOn
  <1> DEFINE F == CHOOSE d : IsDepth(d, fs, n)
  <1>4. Chain(fk, path) = Popped(fk, path, F[path])
    BY <1>1, <1>2 DEF Chain, IsDepth
  <1>5. IsDepth(F, fs, n)
    BY <1>3, DepthExists
  <1>6. PICK d : d = F
    OBVIOUS
  <1> HIDE DEF F
  <1>7. d[0] = 0 /\ \A id \in 1..n : d[id] = 1 + d[fs[id].parent] /\ d[id] \in Nat \ {0}
    <2>1. IsDepth(d, fs, n)
      BY <1>5, <1>6
    <2> QED
      BY <1>3, <2>1, DepthIs
  <1>8. PICK N \in Nat \ {0} : N = d[path]
    BY <1>2, <1>7
  <1>9. PICK up : GoesDown(fk, path, N, up)
    BY BelowIs
  <1>10. up[0] = path /\ \A k \in 1..N : up[k] = fs[up[k - 1]].parent
    BY <1>1, <1>9 DEF GoesDown
  <1> DEFINE H == {k \in 0..N : up[k] \in 0..n /\ d[up[k]] = N - k}
  <1>11. 0 \in H
    BY <1>2, <1>8, <1>10
  <1>12. ASSUME NEW k \in 1..N, k - 1 \in H PROVE k \in H
    <2>1. PICK id \in 0..n : id = up[k - 1] /\ d[id] = N - (k - 1)
      BY <1>12
    <2>2. id # 0
      BY <1>7, <2>1
    <2>3. id \in 1..n /\ up[k] = fs[id].parent
      BY <1>10, <2>1, <2>2
    <2>4. PICK j \in 0..n : j = up[k]
      <3>1. fs[id].parent \in 0..(id - 1)
        BY <1>3, <2>3
      <3> QED
        BY <2>3, <3>1
    <2>5. d[id] = 1 + d[j] /\ d[j] \in Nat
      BY <1>7, <2>3, <2>4
    <2>6. d[j] = N - k /\ k \in 0..N
      BY <2>1, <2>5
    <2> QED
      BY <2>4, <2>6
  <1>13. \A k \in 0..N : up[k] \in 0..n /\ d[up[k]] = N - k
    <2> HIDE DEF H
    <2>1. \A k \in 0..N : k \in H
      BY <1>11, <1>12, Climbing
    <2> QED
      BY <2>1 DEF H
  <1>14. up[N] = 0
    <2>0. N \in 0..N /\ N - N = 0
      OBVIOUS
    <2>1. PICK j \in 0..n : j = up[N] /\ d[j] = 0
      BY <1>13, <2>0
    <2> QED
      BY <1>7, <2>1
  <1>15. ASSUME NEW k \in 0..(N - 1) PROVE up[k] \in 1..n
    <2>0. k \in 0..N /\ N - k # 0
      OBVIOUS
    <2>1. PICK j \in 0..n : j = up[k] /\ d[j] = N - k
      BY <1>13, <2>0
    <2>2. j # 0
      BY <1>7, <2>0, <2>1
    <2> QED
      BY <2>1, <2>2
  <1> QED
    BY <1>1, <1>2, <1>4, <1>6, <1>8, <1>9, <1>14, <1>15 DEF ReachesBottom

(* And make a stack that reads the text as they do.                         *)
Unwinds(s, chain, fk, K, at, path) ==
  /\ FramesOK(fk.frames, K, at) /\ path \in 1..Len(fk.frames) /\ chain = Chain(fk, path)
  /\ s = [k \in 1..Len(chain) |-> [state |-> chain[k].state, value |-> chain[k].value, span |-> chain[k].span]]

LEMMA ChainReads ==
  ASSUME NEW s, NEW chain, NEW fk, NEW K, NEW at, NEW path, Unwinds(s, chain, fk, K, at, path)
  PROVE  \E c : IsRead(K, s, c) /\ c[Len(s)] = at[path] /\ Top(chain).state = Top(s).state
  <1>1. PICK fs : fs = fk.frames /\ FramesOK(fs, K, at)
    BY DEF Unwinds
  <1>2. PICK n \in Nat : n = Len(fs) /\ path \in 1..n
    BY <1>1, FramesShape DEF Unwinds
  <1>3. PICK N \in Nat \ {0} : \E up : ReachesBottom(fk, path, N, up)
    BY ChainIs DEF Unwinds
  <1>0. PICK up : ReachesBottom(fk, path, N, up)
    BY <1>3
  <1>4. /\ up[0] = path /\ \A k \in 1..N : up[k] = fs[up[k - 1]].parent
        /\ up[N] = 0 /\ \A k \in 0..(N - 1) : up[k] \in 1..n
    BY <1>0, <1>1, <1>2 DEF ReachesBottom, GoesDown
  <1>5. chain = [k \in 1..N |-> fs[up[N - k]]]
    <2>1. chain = [k \in 1..N |-> fs[Below(fk, path, N - k)]]
      BY <1>0, <1>1 DEF ReachesBottom, Popped, Unwinds
    <2>2. \A k \in 1..N : Below(fk, path, N - k) = up[N - k]
      <3>1. \A k \in 1..N : N - k \in 0..N
        OBVIOUS
      <3> QED
        BY <1>0, <3>1 DEF ReachesBottom, GoesDown
    <2> QED
      BY <2>1, <2>2
  <1>6. (\E S : chain \in Seq(S)) /\ Len(chain) = N
    <2>1. PICK S : S = {fs[up[N - k]] : k \in 1..N}
      OBVIOUS
    <2>2. chain \in [1..N -> S]
      BY <1>5, <2>1
    <2>3. chain \in Seq(S) /\ Len(chain) = N
      BY <2>2
    <2> QED
      BY <2>3
  <1> DEFINE Frame(k) == [state |-> chain[k].state, value |-> chain[k].value, span |-> chain[k].span]
  <1>7. s = [k \in 1..N |-> Frame(k)]
    BY <1>6 DEF Unwinds
  <1>8. \A k : Frame(k).state = chain[k].state
    OBVIOUS
  <1> HIDE DEF Frame
  <1>9. (\E S : s \in Seq(S)) /\ Len(s) = N /\ \A k \in 1..N : s[k] = Frame(k)
    <2>1. PICK S : S = {Frame(k) : k \in 1..N}
      OBVIOUS
    <2>2. s \in [1..N -> S] /\ \A k \in 1..N : s[k] = Frame(k)
      BY <1>7, <2>1
    <2>3. s \in Seq(S) /\ Len(s) = N
      BY <2>2
    <2> QED
      BY <2>2, <2>3
  <1>10. \A k \in 1..N : s[k].state = fs[up[N - k]].state
    BY <1>5, <1>8, <1>9
  <1>11. PICK c : c = [k \in 1..N |-> at[up[N - k]]]
    OBVIOUS
  <1>12. c \in Seq(Nat) /\ Len(c) = N /\ \A k \in 1..N : c[k] = at[up[N - k]]
    <2>1. \A k \in 1..N : at[up[N - k]] \in Nat
      <3>1. \A k \in 1..N : N - k \in 0..(N - 1)
        OBVIOUS
      <3>2. \A id \in 1..n : at[id] \in Nat
        BY <1>1, <1>2, FramesShape
      <3> QED
        BY <1>4, <3>1, <3>2
    <2>2. c \in [1..N -> Nat]
      BY <1>11, <2>1
    <2> QED
      BY <1>11, <2>2
  <1>13. ASSUME NEW k \in 1..N
         PROVE  LET id == up[N - k] IN id \in 1..n /\ FitsOn(fs, K, at, fs[id], at[id], id - 1)
    <2>1. N - k \in 0..(N - 1)
      OBVIOUS
    <2> QED
      BY <1>1, <1>2, <1>4, <2>1 DEF FramesOK
  <1>14. s[1].state = 1 /\ c[1] = 0
    <2>1. 1 \in 1..N /\ N \in 1..N
      OBVIOUS
    <2>2. PICK id \in 1..n : id = up[N - 1] /\ FitsOn(fs, K, at, fs[id], at[id], id - 1)
      BY <1>13, <2>1
    <2>3. fs[id].parent = 0
      BY <1>4, <2>1, <2>2
    <2>4. s[1].state = fs[id].state /\ c[1] = at[id]
      BY <1>10, <1>12, <2>1, <2>2
    <2> QED
      BY <2>2, <2>3, <2>4 DEF FitsOn
  <1>15. ASSUME NEW k \in 2..N PROVE Reads(K, s[k - 1].state, s[k].state, c[k - 1], c[k])
    <2>1. k \in 1..N /\ k - 1 \in 1..N /\ N - (k - 1) \in 1..N /\ N - (k - 1) - 1 = N - k /\ N - (k - 1) \in 0..(N - 1)
      OBVIOUS
    <2>2. PICK id \in 1..n : id = up[N - k] /\ FitsOn(fs, K, at, fs[id], at[id], id - 1)
      BY <1>13, <2>1
    <2>3. PICK b \in 1..n : b = up[N - (k - 1)] /\ b = fs[id].parent
      BY <1>4, <2>1, <2>2
    <2>4. /\ s[k].state = fs[id].state /\ c[k] = at[id]
          /\ s[k - 1].state = fs[b].state /\ c[k - 1] = at[b]
      <3>1. s[k].state = fs[id].state /\ s[k - 1].state = fs[b].state
        BY <1>10, <2>1, <2>2, <2>3
      <3>2. c[k] = at[id] /\ c[k - 1] = at[b]
        BY <1>12, <2>1, <2>2, <2>3
      <3> QED
        BY <3>1, <3>2
    <2>5. Reads(K, fs[b].state, fs[id].state, at[b], at[id])
      BY <2>2, <2>3 DEF FitsOn
    <2> QED
      BY <2>4, <2>5
  <1>16. IsRead(K, s, c)
    <2>1. Len(s) > 0 /\ Len(c) = Len(s)
      BY <1>9, <1>12
    <2> QED
      BY <2>1, <1>9, <1>12, <1>14, <1>15 DEF IsRead
  <1>17. c[Len(s)] = at[path]
    <2>1. N \in 1..N /\ N - N = 0
      OBVIOUS
    <2> QED
      BY <1>4, <1>9, <1>12, <2>1
  <1>18. Top(chain).state = Top(s).state
    <2>1. N \in 1..N
      OBVIOUS
    <2>2. Top(chain) = chain[N] /\ Top(s) = s[N]
      BY <1>6, <1>9 DEF Top
    <2> QED
      BY <1>8, <1>9, <2>1, <2>2
  <1> QED
    BY <1>16, <1>17, <1>18
-----------------------------------------------------------------------------
(* The pending token, and whatever recovery may insert, can be read by the  *)
(* frames to be looked at: the one leads to where those that shifted it     *)
(* are, the other nowhere.                                                  *)
Steers(K, P, L, M, tok) ==
  /\ Closed(K, P)
  /\ \A i \in L : tok.type \in TermsEOF \ {EOF} => \E j \in M \cap Nat : <<tok.type, i, j>> \in K
  /\ \A i \in L : i \in Nat /\ \A t \in RecoverTerms \cap (TermsEOF \ {EOF}) : <<t, i, i>> \in K

(* What a path comes to that is followed on a certain token: it accepts     *)
(* nothing, or what it has read as the start symbol at the end of the text, *)
(* or the token is one to be dropped.                                       *)
Comes(gk, K, L, t) ==
  \/ gk.accepted = <<>>
  \/ t \in Dropped
  \/ t = EOF /\ \E i \in L : <<Start, 0, i>> \in K

CanFollow(fk, K, at, L, M, tok, stays) ==
  /\ Forked(fk, K, at, L, M) /\ fk.accepted = <<>>
  /\ Path \in 1..Len(fk.frames) /\ at[Path] \in L
  /\ stays \in BOOLEAN
  /\ tok.type \in TermsEOF /\ tok.type # EOF => Moving(K, tok.type, at[Path], stays, L, M)

LEMMA PathFollowed ==
  ASSUME Built, AlwaysInv, phase = "ready", NEW K, NEW P, Closed(K, P),
         NEW fk, NEW at, NEW L, NEW M, NEW tok, NEW stays, CanFollow(fk, K, at, L, M, tok, stays),
         NEW e, e = Entry(action[fk.frames[Path].state], tok.type), e.kind \notin {"none", "error"},
         NEW gk, gk = FollowEntry(fk, Path, tok, stays)
  PROVE  (\E bt : Forked(gk, K, bt, L, M)) /\ Comes(gk, K, L, tok.type)
  <1>1. PICK path \in 1..Len(fk.frames) : path = Path /\ at[path] \in L
    BY DEF CanFollow
  <1>2. PICK p, t : p = fk.frames[path].state /\ t = tok.type
    OBVIOUS
  <1>3. /\ Forked(fk, K, at, L, M) /\ stays \in BOOLEAN /\ fk.accepted = <<>>
        /\ t # EOF /\ t \in TermsEOF => Moving(K, t, at[path], stays, L, M)
    BY <1>1, <1>2 DEF CanFollow
  <1>4. e = Entry(action[p], t) /\ gk = FollowEntry(fk, path, tok, stays)
    BY <1>1, <1>2
  <1>5. /\ p \in 1..Len(states) /\ t \in TermsEOF
        /\ \E bt : /\ Goes(gk, fk, K, bt, at, L, M)
                   /\ \/ gk.accepted = fk.accepted
                      \/ e.kind = "ignore"
                      \/ \E a \in KeptOf(action[p][t]) : a.kind = "accept"
    BY <1>1, <1>2, <1>3, <1>4, EntryFollowed
  <1>6. \E bt : Forked(gk, K, bt, L, M)
    BY <1>5 DEF Goes
  <1>7. e.kind = "ignore" => t \in Dropped
    BY <1>4, <1>5, EntryIs
  <1>8. ASSUME NEW a \in KeptOf(action[p][t]), a.kind = "accept"
        PROVE  t = EOF /\ <<Start, 0, at[path]>> \in K
    <2>1. PICK fs : fs = fk.frames /\ FramesOK(fs, K, at)
      BY <1>3 DEF Forked
    <2>2. PICK m \in Nat : m = Len(fs) /\ path \in 1..m
      BY <1>1, <2>1, FramesShape
    <2>3. PICK D, st, par : /\ D = 1..m
                            /\ st = [id \in 1..m |-> fs[id].state] /\ par = [id \in 1..m |-> fs[id].parent]
      OBVIOUS
    <2>4. Hanging(K, D, st, par, at) /\ path \in D /\ st[path] = p
      BY <1>2, <2>1, <2>2, <2>3, FramesHang
    <2>5. a \in KeptOf(action[st[path]][t])
      BY <1>8, <2>4
    <2> QED
      BY <1>5, <1>8, <2>4, <2>5, AcceptReads
  <1> QED
    BY <1>1, <1>2, <1>3, <1>5, <1>6, <1>7, <1>8 DEF Comes

(* One turn of the worklist.                                                *)
LEMMA SweepForks ==
  ASSUME Built, AlwaysInv, phase = "ready", NEW K, NEW P, NEW at, NEW L, NEW M,
         NEW tok, tok = forkTok, Steers(K, P, L, M, tok), Forked(fork, K, at, L, M),
         SkipSuperseded \/ FollowPath \/ RecoverPath \/ LosePath, NEW gk, gk = fork'
  PROVE  /\ \E bt : Forked(gk, K, bt, L, M)
         /\ \E t \in {tok.type} \cup RecoverTerms : Comes(gk, K, L, t)
  <1>1. Sweeping /\ Working
    BY DEF SkipSuperseded, FollowPath, RecoverPath, LosePath, Working
  <1>2. PICK n : n = fork.recoveries + 1
    OBVIOUS
  <1>3. PICK lk : lk = [Taken EXCEPT !.recoveries = n]
    OBVIOUS
  <1>4. PICK fk : fk = Taken
    OBVIOUS
  <1>0. Taken.recoveries = fork.recoveries
    BY DEF Taken, Forked, IsRec, ForkFields
  <1>5. lk = [Taken EXCEPT !.recoveries = @ + 1]
    BY <1>0, <1>2, <1>3
  <1>6. /\ Forked(fk, K, at, L, M) /\ fk.frames = fork.frames /\ fk.accepted = fork.accepted
        /\ Path \in 1..Len(fk.frames) /\ at[Path] \in L
    BY <1>1, <1>4, TakenOff
  <1>7. /\ Forked(lk, K, at, L, M) /\ lk.frames = fork.frames /\ lk.accepted = fork.accepted
        /\ Path \in 1..Len(lk.frames) /\ at[Path] \in L
    BY <1>1, <1>3, TakenOff
  <1>8. fork.accepted = <<>>
    BY <1>1 DEF Sweeping
  <1>9. PICK i \in Nat : i = at[Path] /\ i \in L
    BY <1>6 DEF Steers
  <1>10. Closed(K, P)
    BY DEF Steers
  <1>11. CASE SkipSuperseded
    <2>1. gk = fk
      BY <1>4, <1>11 DEF SkipSuperseded
    <2> QED
      BY <1>6, <1>8, <2>1 DEF Comes
  <1>12. CASE FollowPath
    <2>1. PICK stays : stays = FALSE
      OBVIOUS
    <2>2. gk = FollowEntry(fk, Path, tok, stays)
      BY <1>4, <1>12, <2>1 DEF FollowPath
    <2>3. PICK e : e = Entry(action[fk.frames[Path].state], tok.type)
      OBVIOUS
    <2>4. e.kind \notin {"none", "error"}
      BY <1>6, <1>12, <2>3 DEF FollowPath, PathFits, PathRow
    <2>5. tok.type \in TermsEOF /\ tok.type # EOF => Moving(K, tok.type, at[Path], stays, L, M)
      BY <1>9, <2>1 DEF Steers, Moving
    <2>6. CanFollow(fk, K, at, L, M, tok, stays)
      BY <1>6, <1>8, <2>1, <2>5 DEF CanFollow
    <2> QED
      BY <1>10, <2>2, <2>3, <2>4, <2>6, PathFollowed
  <1>13. CASE RecoverPath
    <2>1. PICK t \in RecoverTerms :
            /\ Entry(PathRow, t).kind \notin {"none", "error"}
            /\ gk = FollowEntry(lk, Path, [type |-> t, at |-> 0], TRUE)
      BY <1>5, <1>13 DEF RecoverPath
    <2>2. PICK made, stays : made = [type |-> t, at |-> 0] /\ stays = TRUE
      OBVIOUS
    <2>3. gk = FollowEntry(lk, Path, made, stays) /\ made.type = t
      BY <2>1, <2>2
    <2>4. PICK e : e = Entry(action[lk.frames[Path].state], made.type)
      OBVIOUS
    <2>5. e.kind \notin {"none", "error"}
      BY <1>7, <2>1, <2>3, <2>4 DEF PathRow
    <2>6. t \in TermsEOF /\ t # EOF => Moving(K, t, at[Path], stays, L, M)
      <3>1. SUFFICES ASSUME t \in TermsEOF, t # EOF PROVE Moving(K, t, i, stays, L, M)
        BY <1>9
      <3>2. <<t, i, i>> \in K
        BY <1>9, <3>1 DEF Steers
      <3> QED
        BY <1>9, <2>2, <3>2 DEF Moving
    <2>7. CanFollow(lk, K, at, L, M, made, stays)
      BY <1>7, <1>8, <2>2, <2>3, <2>6 DEF CanFollow
    <2>8. (\E bt : Forked(gk, K, bt, L, M)) /\ Comes(gk, K, L, made.type)
      BY <1>10, <2>3, <2>4, <2>5, <2>7, PathFollowed
    <2> QED
      BY <2>3, <2>8
  <1>14. CASE LosePath
    <2>1. gk = lk
      BY <1>5, <1>14 DEF LosePath
    <2> QED
      BY <1>7, <1>8, <2>1 DEF Comes
  <1> QED
    BY <1>11, <1>12, <1>13, <1>14
-----------------------------------------------------------------------------
(* The places from which only skips are left up to a certain one.           *)
UpTo(n) == {i \in Places : Gap(i, n)}

LEMMA TextSteers ==
  ASSUME gram \in Grammars, LexerOK, NEW tok, NEW o, IsLexeme(tok, o)
  PROVE  Steers(Phrases, Places, UpTo(tok.at - 1), UpTo(o - 1), tok)
  <1>1. PICK K : K = Phrases
    OBVIOUS
  <1>2. Len(input) \in Nat
    BY DEF LexerOK
  <1>3. Closed(K, Places) /\ Tokens \subseteq K
    BY <1>1, <1>2, PhrasesAreClosed, PhrasesClosed
  <1>4. ASSUME NEW i \in UpTo(tok.at - 1), tok.type \in TermsEOF \ {EOF}
        PROVE  \E j \in UpTo(o - 1) \cap Nat : <<tok.type, i, j>> \in K
    <2>1. i \in Nat /\ Gap(i, tok.at - 1)
      BY DEF UpTo, Places
    <2>2. PICK j \in Places : <<tok.type, i, j>> \in Tokens /\ Gap(j, o - 1)
      BY <1>4, <2>1, LexemeIsRead
    <2>3. j \in UpTo(o - 1) /\ j \in Nat
      BY <2>2 DEF UpTo, Places
    <2> QED
      BY <1>3, <2>2, <2>3
  <1>5. ASSUME NEW i \in UpTo(tok.at - 1)
        PROVE  i \in Nat /\ \A t \in RecoverTerms \cap (TermsEOF \ {EOF}) : <<t, i, i>> \in K
    <2>1. i \in Places /\ i \in Nat
      BY DEF UpTo, Places
    <2> QED
      BY <1>3, <2>1, InsertedIsRead
  <1> QED
    BY <1>1, <1>3, <1>4, <1>5 DEF Steers

LEMMA AnythingSteers ==
  ASSUME gram \in Grammars, NEW tok
  PROVE  Steers(Anything, {0}, {0}, {0}, tok)
  <1>1. PICK K : K = Anything
    OBVIOUS
  <1>2. Closed(K, {0})
    BY <1>1, AnythingIsClosed
  <1>3. \A t \in TermsEOF \ {EOF} : <<t, 0, 0>> \in K
    BY <1>1 DEF Anything, TermsEOF, Symbols
  <1> QED
    BY <1>1, <1>2, <1>3 DEF Steers

LEMMA ForkStands ==
  ASSUME UNCHANGED actionTableVars
  PROVE  \A fk, K, at, L, M : Forked(fk, K, at, L, M)' <=> Forked(fk, K, at, L, M)
  <1>1. gram' = gram /\ trans' = trans
    BY DEF actionTableVars, lookaheadsVars, automatonVars, lr0Vars, firstVars
  <1>2. \A K, p, q, i, j : Reads(K, p, q, i, j)' <=> Reads(K, p, q, i, j)
    BY <1>1 DEF Reads, HasTrans, Target
  <1>3. \A fs, K, at, f, j, n : FitsOn(fs, K, at, f, j, n)' <=> FitsOn(fs, K, at, f, j, n)
    BY <1>2 DEF FitsOn
  <1>4. \A fs, K, at : FramesOK(fs, K, at)' <=> FramesOK(fs, K, at)
    BY <1>3 DEF FramesOK
  <1> QED
    BY <1>4 DEF Forked

(* The frames alive are in states of the automaton, so what the lexer is    *)
(* given for all of them has it drop the skips, and nothing else.           *)
LEMMA ActiveStates ==
  ASSUME Built, phase = "ready", NEW K, NEW P, Closed(K, P),
         NEW fk, NEW at, NEW L, NEW M, Forked(fk, K, at, L, M)
  PROVE  /\ Len(fk.active) \in Nat
         /\ \A k \in 1..Len(fk.active) :
              /\ fk.active[k] \in 1..Len(fk.frames) /\ at[fk.active[k]] \in L
              /\ fk.frames[fk.active[k]].state \in 1..Len(states)
  <1>1. PICK fs : fs = fk.frames /\ FramesOK(fs, K, at)
    BY DEF Forked
  <1>2. PICK m \in Nat : m = Len(fs)
    BY <1>1, FramesShape
  <1>3. PICK D, st, par : /\ D = 1..m
                          /\ st = [id \in 1..m |-> fs[id].state] /\ par = [id \in 1..m |-> fs[id].parent]
    OBVIOUS
  <1>4. Hanging(K, D, st, par, at)
    BY <1>1, <1>2, <1>3, FramesHang
  <1>5. \A id \in 1..m : fs[id].state \in 1..Len(states)
    <2> SUFFICES ASSUME NEW id \in 1..m PROVE fs[id].state \in 1..Len(states)
      OBVIOUS
    <2>1. id \in D /\ st[id] = fs[id].state
      BY <1>3
    <2>2. st[id] \in 1..Len(states)
      BY <1>4, <2>1, HangingShape
    <2> QED
      BY <2>1, <2>2
  <1>6. PICK q : q = fk.active /\ q \in Seq(1..m) /\ \A k \in 1..Len(q) : at[q[k]] \in L
    BY <1>1, <1>2 DEF Forked, AllAt
  <1>7. Len(q) \in Nat /\ \A k \in 1..Len(q) : q[k] \in 1..m
    BY <1>6
  <1> QED
    BY <1>1, <1>2, <1>5, <1>6, <1>7

LEMMA GreatestNumber ==
  ASSUME NEW n \in Nat, NEW H \in SUBSET (1..n), H # {}
  PROVE  \E k \in H : \A j \in H : j <= k
  <1>1. PICK S : S = {n - k : k \in H}
    OBVIOUS
  <1>2. S \in SUBSET Nat /\ S # {}
    <2>1. \A k \in H : n - k \in Nat
      OBVIOUS
    <2> QED
      BY <1>1, <2>1
  <1>3. PICK d \in S : \A m \in Nat : m < d => m \notin S
    BY <1>2, LeastNumber
  <1>4. PICK k \in H : d = n - k
    BY <1>1, <1>3
  <1>5. ASSUME NEW j \in H PROVE j <= k
    <2>1. n - j \in S /\ n - j \in Nat /\ j \in 1..n /\ k \in 1..n
      BY <1>1
    <2>2. ~(n - j < d)
      BY <1>3, <2>1
    <2> QED
      BY <1>4, <2>1, <2>2
  <1> QED
    BY <1>5

LEMMA UnionRowAt ==
  ASSUME NEW fk, NEW n \in Nat, n = Len(fk.active), NEW t \in TermsEOF
  PROVE  \/ /\ UnionRow(fk)[t] = NoEntry
            /\ \A k \in 1..n : action[fk.frames[fk.active[k]].state][t] = NoEntry
         \/ \E k \in 1..n : UnionRow(fk)[t] = action[fk.frames[fk.active[k]].state][t]
  <1> DEFINE H == {k \in 1..Len(fk.active) : action[fk.frames[fk.active[k]].state][t] # NoEntry}
             last == CHOOSE k \in H : \A j \in H : j <= k
  <1>1. UnionRow(fk)[t] = IF H = {} THEN NoEntry ELSE action[fk.frames[fk.active[last]].state][t]
    BY DEF UnionRow
  <1>2. H \subseteq 1..n /\ (H = {} => \A k \in 1..n : action[fk.frames[fk.active[k]].state][t] = NoEntry)
    OBVIOUS
  <1> HIDE DEF H
  <1>3. H # {} => \E k \in H : \A j \in H : j <= k
    BY <1>2, GreatestNumber
  <1>4. H # {} => last \in H
    BY <1>3
  <1> HIDE DEF last
  <1> QED
    BY <1>1, <1>2, <1>4

LEMMA UnionRowIs ==
  ASSUME Built, UsedInv, AlwaysInv, phase = "ready", NEW fk, Len(fk.active) \in Nat,
         \A k \in 1..Len(fk.active) : fk.frames[fk.active[k]].state \in 1..Len(states),
         NEW row, row = UnionRow(fk)
  PROVE  /\ DropsSkips(row)
         /\ SkipsStandApart /\ Len(fk.active) > 0 => \A t \in Dropped : Entry(row, t).kind = "ignore"
  <1>1. PICK n \in Nat : n = Len(fk.active)
    OBVIOUS
  <1>2. DOMAIN row = TermsEOF
    BY DEF UnionRow
  <1>3. NoEntry.kind = "none"
    BY EntryShape
  <1>4. ASSUME NEW t, Entry(row, t).kind = "ignore" PROVE t \in AlwaysSkip
    <2>1. t \in TermsEOF /\ row[t].kind = "ignore"
      BY <1>2, <1>3, <1>4 DEF Entry
    <2>2. PICK k \in 1..n : row[t] = action[fk.frames[fk.active[k]].state][t]
      BY <1>1, <1>3, <2>1, UnionRowAt
    <2>3. PICK p \in 1..Len(states) : p = fk.frames[fk.active[k]].state
      BY <1>1
    <2>4. Entry(action[p], t).kind = "ignore"
      BY <2>1, <2>2, <2>3, EntryIs
    <2> QED
      BY <2>4, EntryIs DEF Dropped
  <1>5. ASSUME SkipsStandApart, n > 0, NEW t \in Dropped PROVE Entry(row, t).kind = "ignore"
    <2>1. t \in TermsEOF
      BY AlwaysAssumption DEF Dropped, TermsEOF
    <2>2. ASSUME NEW k \in 1..n PROVE action[fk.frames[fk.active[k]].state][t].kind = "ignore"
      <3>1. PICK p \in 1..Len(states) : p = fk.frames[fk.active[k]].state
        BY <1>1
      <3>2. Entry(action[p], t).kind = "ignore"
        BY <1>5, DroppedIsIgnored
      <3>3. Entry(action[p], t) = action[p][t]
        BY <2>1, EntryIs
      <3> QED
        BY <3>1, <3>2, <3>3
    <2>3. 1 \in 1..n
      BY <1>5
    <2>4. row[t].kind = "ignore"
      BY <1>1, <1>3, <2>1, <2>2, <2>3, UnionRowAt
    <2> QED
      BY <1>2, <2>1, <2>4 DEF Entry
  <1> QED
    BY <1>1, <1>4, <1>5 DEF DropsSkips

(* A row that drops what it should hands out none of it.                    *)
LEMMA LexedStands ==
  ASSUME LexerOK, SkipsStandApart, NEW row, \A t \in Dropped : Entry(row, t).kind = "ignore"
  PROVE  Lexed(row).tok.type \notin Dropped
  <1>1. PICK n \in Nat : n = Len(input)
    BY DEF LexerOK
  <1>2. PICK i \in 1..(n + 1) : i = NextStop(row) /\ (i <= n => ~IgnoredAt(row, i))
    BY <1>1, StopsSomewhere
  <1>3. EOF \notin Dropped /\ ERROR \notin Dropped
    BY AlwaysAssumption, SymbolsAssumption DEF Dropped, SkipsStandApart
  <1>4. CASE i > n
    <2>1. Lexed(row) = [tok |-> [type |-> EOF, at |-> i], next |-> i]
      BY <1>1, <1>2, <1>4 DEF Lexed
    <2> QED
      BY <1>3, <2>1
  <1>5. CASE i <= n /\ CandidatesAt(row, i) = <<>>
    <2>1. Lexed(row) = [tok |-> [type |-> ERROR, at |-> i], next |-> i]
      BY <1>1, <1>2, <1>5 DEF Lexed
    <2> QED
      BY <1>3, <2>1
  <1>6. CASE i <= n /\ CandidatesAt(row, i) # <<>>
    <2>1. PICK t : t = CandidatesAt(row, i)[1]
      OBVIOUS
    <2>2. Lexed(row) = [tok |-> [type |-> t, at |-> i], next |-> i + 1]
      BY <1>1, <1>2, <1>6, <2>1 DEF Lexed
    <2>3. Entry(row, t).kind # "ignore"
      BY <1>2, <1>6, <2>1 DEF IgnoredAt
    <2> QED
      BY <2>2, <2>3
  <1> QED
    BY <1>4, <1>5, <1>6
-----------------------------------------------------------------------------
(* Wherever the fork is: its frames hang on paths of the automaton, and the *)
(* token it goes by is none that is dropped.                                *)
Forks(K, L, M) == \E at : Forked(fork, K, at, L, M)
Forking == mode = "forking" => Forks(Anything, {0}, {0})
ForkTokenStands == SkipsStandApart /\ mode \in {"fork", "forking"} => forkTok.type \notin Dropped

(* And what lies under each frame is the text up to the pending token, or   *)
(* past it if the frame has shifted it.                                     *)
ForkReads ==
  /\ IsLexeme(forkTok, offset) /\ forkTok.at \in Nat \ {0}
  /\ Forks(Phrases, UpTo(forkTok.at - 1), UpTo(offset - 1))
  /\ fork.accepted # <<>> => IsSentence(offset - 1)
ForkReading ==
  SkipsStandApart /\ RecoveryGoesOn /\ PlainForks => InText /\ (mode = "forking" => ForkReads)

GlrInv == Parsing /\ Forking /\ ForkTokenStands /\ ForkReading

(* While a fork is on, runParser waits for it.                              *)
LEMMA ParserWaits ==
  ASSUME Parsing, [LRParserNext]_lrParserVars, mode \in {"fork", "forking"}
  PROVE  UNCHANGED lrParserVars
  <1>1. phase = "ready"
    BY DEF Parsing, ParserInv, Driving
  <1>2. ~ParserNext
    BY DEF ParserNext, Call, LexFirst, StepReal, StepSyntheticEnd, StepRecover, Fail
  <1>3. [UnitGotosNext]_actionTableVars /\ UNCHANGED parserVars
    BY <1>2 DEF LRParserNext, lrParserVars
  <1>4. UNCHANGED actionTableVars
    BY <1>1, <1>3, ReadyStays
  <1> QED
    BY <1>3, <1>4 DEF lrParserVars

(* A fork never begins on a token that is to be dropped.                    *)
LEMMA ForkEntered ==
  ASSUME Parsing, SkipsStandApart, ParserNext, mode' = "fork"
  PROVE  forkTok'.type \notin Dropped
  <1>1. StepReal \/ StepSyntheticEnd \/ StepRecover
    BY DEF ParserNext, Call, LexFirst, Fail
  <1>2. mode = "parse"
    BY <1>1 DEF StepReal, StepSyntheticEnd, StepRecover
  <1>3. PICK tok, isReal : Act(tok, isReal) /\ tok.type \notin Dropped
    <2>1. CASE StepReal
      <3>1. PICK tok, isReal : tok = realTok /\ isReal = TRUE
        OBVIOUS
      <3>2. Act(tok, isReal)
        BY <2>1, <3>1 DEF StepReal
      <3>3. tok.type \notin Dropped
        BY <1>2, <3>1 DEF Parsing, ParserInv, TokenStands
      <3> QED
        BY <3>2, <3>3
    <2>2. CASE StepSyntheticEnd
      <3>1. PICK tok, isReal : tok = [type |-> EOF, at |-> 0] /\ isReal = FALSE
        OBVIOUS
      <3>2. Act(tok, isReal)
        BY <2>2, <3>1 DEF StepSyntheticEnd
      <3>3. tok.type \notin Dropped
        BY <3>1, AlwaysAssumption, SymbolsAssumption DEF Dropped
      <3> QED
        BY <3>2, <3>3
    <2>3. CASE StepRecover
      <3>1. PICK t \in RecoverTerms : Act([type |-> t, at |-> 0], FALSE)
        BY <2>3 DEF StepRecover
      <3>2. PICK tok, isReal : tok = [type |-> t, at |-> 0] /\ isReal = FALSE
        OBVIOUS
      <3>3. Act(tok, isReal) /\ tok.type \notin Dropped
        BY <3>1, <3>2 DEF SkipsStandApart, Dropped
      <3> QED
        BY <3>3
    <2> QED
      BY <1>1, <2>1, <2>2, <2>3
  <1>4. EnterFork(tok)
    BY <1>2, <1>3 DEF Act, ShiftTok, ReduceBy, AcceptNow, EnterFork, InternalError
  <1> QED
    BY <1>3, <1>4 DEF EnterFork

LEMMA ForkReadsStands ==
  ASSUME UNCHANGED <<actionTableVars, input, forkTok, offset, fork>>, ForkReads
  PROVE  ForkReads'
  <1>1. PICK t, o, n, fk : t = forkTok /\ o = offset /\ n = offset - 1 /\ fk = fork
    OBVIOUS
  <1>2. IsLexeme(t, o)'
    BY <1>1, TextStands DEF ForkReads
  <1>3. UpTo(t.at - 1)' = UpTo(t.at - 1) /\ UpTo(o - 1)' = UpTo(o - 1)
    BY TextStands DEF UpTo, Places
  <1>4. PICK K, L, M : K = Phrases /\ L = UpTo(t.at - 1) /\ M = UpTo(o - 1)
    OBVIOUS
  <1>5. PICK at : Forked(fk, K, at, L, M)
    BY <1>1, <1>4 DEF ForkReads, Forks
  <1>6. Forked(fk, K, at, L, M)'
    BY <1>5, ForkStands
  <1>7. K = Phrases' /\ L = UpTo(t.at - 1)' /\ M = UpTo(o - 1)'
    BY <1>3, <1>4, TextStands
  <1>8. Forks(Phrases, UpTo(forkTok.at - 1), UpTo(offset - 1))'
    BY <1>1, <1>6, <1>7 DEF Forks
  <1>9. fork.accepted # <<>> => IsSentence(n)'
    BY <1>1, TextStands DEF ForkReads
  <1> QED
    BY <1>1, <1>2, <1>8, <1>9 DEF ForkReads

(* A step of runParser, which leaves the fork alone.                        *)
LEMMA ParserOverFork ==
  ASSUME GlrInv, [LRParserNext]_lrParserVars, UNCHANGED fork
  PROVE  GlrInv'
  <1>1. Parsing'
    BY ParsingStep DEF GlrInv
  <1>2. SkipsStandApart => Reading'
    BY ReadingStep DEF GlrInv, ForkReading, Reading
  <1>3. mode \in {"fork", "forking"} => UNCHANGED lrParserVars
    BY ParserWaits DEF GlrInv
  <1>4. mode' = "forking" => mode = "forking"
    <2>1. ASSUME LRParserNext PROVE mode' # "forking" \/ mode' = mode
      BY <2>1 DEF LRParserNext, parserVars, ParserNext, Call, LexFirst, StepReal, StepSyntheticEnd, StepRecover,
                  Fail, Act, ShiftTok, ReduceBy, AcceptNow, EnterFork, InternalError
    <2> QED
      BY <2>1 DEF lrParserVars, parserVars
  <1>5. Forking'
    <2> SUFFICES ASSUME mode' = "forking" PROVE Forks(Anything, {0}, {0})'
      BY DEF Forking
    <2>1. UNCHANGED actionTableVars
      BY <1>3, <1>4 DEF lrParserVars
    <2>2. PICK fk, at : fk = fork /\ Forked(fk, Anything, at, {0}, {0})
      BY <1>4 DEF GlrInv, Forking, Forks
    <2>3. PICK K, L : K = Anything /\ L = {0}
      OBVIOUS
    <2>4. Forked(fk, K, at, L, L)'
      BY <2>1, <2>2, <2>3, ForkStands
    <2> QED
      BY <2>2, <2>3, <2>4 DEF Forks, Anything
  <1>6. ForkTokenStands'
    <2> SUFFICES ASSUME SkipsStandApart, mode' \in {"fork", "forking"} PROVE forkTok'.type \notin Dropped
      BY DEF ForkTokenStands
    <2>1. CASE mode \in {"fork", "forking"}
      BY <1>3, <2>1 DEF GlrInv, ForkTokenStands, lrParserVars, parserVars
    <2>2. CASE mode \notin {"fork", "forking"}
      <3>1. mode' = "fork"
        BY <1>4, <2>2
      <3>2. ParserNext
        BY <2>2, <3>1 DEF LRParserNext, lrParserVars, parserVars
      <3> QED
        BY <3>1, <3>2, ForkEntered DEF GlrInv
    <2> QED
      BY <2>1, <2>2
  <1>7. ForkReading'
    <2> SUFFICES ASSUME SkipsStandApart, RecoveryGoesOn, PlainForks' PROVE InText' /\ (mode' = "forking" => ForkReads')
      BY DEF ForkReading
    <2>1. InText'
      BY <1>2 DEF Reading
    <2>2. ASSUME mode' = "forking" PROVE ForkReads'
      <3>1. UNCHANGED <<actionTableVars, input, prefixMode, forkTok, offset, fork>> /\ mode = "forking"
        BY <1>3, <1>4, <2>2 DEF lrParserVars, parserVars
      <3>2. PlainForks
        BY <3>1, InTextStands
      <3> QED
        BY <3>1, <3>2, ForkReadsStands DEF GlrInv, ForkReading
    <2> QED
      BY <2>1, <2>2
  <1> QED
    BY <1>1, <1>5, <1>6, <1>7 DEF GlrInv
-----------------------------------------------------------------------------
LEMMA InFork ==
  ASSUME GlrInv, ForkNext
  PROVE  /\ mode \in {"fork", "forking"} /\ phase = "ready" /\ phase' = "ready"
         /\ Built /\ UsedInv /\ AlwaysInv /\ LexerOK /\ IsStack(stack) /\ gram \in Grammars
         /\ UNCHANGED <<actionTableVars, input, prefixMode>>
         /\ Built' /\ UsedInv' /\ AlwaysInv'
  <1>1. mode \in {"fork", "forking"} /\ UNCHANGED <<actionTableVars, input, prefixMode>>
    BY DEF ForkNext, ForkStart, SkipSuperseded, FollowPath, RecoverPath, LosePath, ForkExhausted, ForkAccepts,
           ForkDies, ForkAdvance, ForkSettles, Working, Sweeping, Swept, StaysInFork, outsideFork
  <1>2. Built /\ UsedInv /\ AlwaysInv /\ LexerOK /\ IsStack(stack) /\ phase = "ready"
    BY <1>1 DEF GlrInv, Parsing, ParserInv, Driving
  <1>3. Built' /\ UsedInv' /\ AlwaysInv'
    BY <1>1, <1>2, BuiltStep, UsedStep, AlwaysStep
  <1>4. phase' = phase
    BY <1>1 DEF actionTableVars, lookaheadsVars, automatonVars, firstVars
  <1> QED
    BY <1>1, <1>2, <1>3, <1>4 DEF Built, LR0Inv, LR0TypeOK

(* The steps of a fork that keep to its token, and to runParser's stack.    *)
KeepsFork ==
  \/ ForkStart \/ SkipSuperseded \/ FollowPath \/ RecoverPath \/ LosePath
  \/ ForkExhausted \/ ForkAccepts \/ ForkDies

LEMMA ForkKeeps ==
  ASSUME GlrInv, ForkNext, KeepsFork
  PROVE  /\ UNCHANGED <<stack, realTok, offset, ignored, forkTok>> /\ Parsing' /\ ForkTokenStands'
         /\ mode' \in {"forking", "failed", "accepted"}
  <1>1. UNCHANGED <<stack, realTok, offset, ignored, forkTok>> /\ mode' \in {"forking", "failed", "accepted"}
    BY DEF KeepsFork, ForkStart, SkipSuperseded, FollowPath, RecoverPath, LosePath, ForkExhausted, ForkAccepts,
           ForkDies, StaysInFork, KeepsToken, Working, Sweeping
  <1>2. IsStack(stack')
    <2>1. PICK st : st = stack' /\ st = stack
      BY <1>1
    <2>2. IsStack(st)
      BY <2>1, InFork
    <2> QED
      BY <2>1, <2>2
  <1>3. Driving'
    <2>1. PICK st : st = stack' /\ IsStack(st)
      BY <1>2
    <2>2. IsStack(st)'
      BY <2>1, InFork, TablesStand
    <2> QED
      BY <2>1, <2>2, InFork DEF Driving
  <1>4. ParserInv'
    BY <1>1, <1>3, InFork DEF ParserInv, Unread, LexerOK, TokenStands, Unharmed, NeverCrashes
  <1>5. ForkTokenStands'
    BY <1>1, InFork DEF GlrInv, ForkTokenStands
  <1> QED
    BY <1>1, <1>4, <1>5, InFork DEF Parsing

(* Frames of a fork that hang without regard to the text.                   *)
LEMMA Hanged ==
  ASSUME UNCHANGED actionTableVars, NEW gk, gk = fork', \E at : Forked(gk, Anything, at, {0}, {0})
  PROVE  Forks(Anything, {0}, {0})'
  <1>1. PICK K, L : K = Anything /\ L = {0}
    OBVIOUS
  <1>2. PICK at : Forked(gk, K, at, L, L)
    BY <1>1
  <1>3. Forked(gk, K, at, L, L)'
    BY <1>2, ForkStands
  <1> QED
    BY <1>1, <1>3 DEF Forks, Anything

LEMMA ForkKeepsHanging ==
  ASSUME GlrInv, ForkNext, KeepsFork
  PROVE  Forking'
  <1> SUFFICES ASSUME mode' = "forking" PROVE Forks(Anything, {0}, {0})'
    BY DEF Forking
  <1>1. PICK K, L : K = Anything /\ L = {0}
    OBVIOUS
  <1>2. PICK gk : gk = fork'
    OBVIOUS
  <1>3. CASE ForkStart
    <2>1. PICK s, c : s = stack /\ IsRead(K, s, c) /\ \A k \in 1..Len(s) : c[k] = 0
      BY <1>1, InFork, StackIsRead
    <2>2. c[Len(s)] \in L
      <3>1. Len(s) \in 1..Len(s)
        BY <2>1 DEF IsRead
      <3> QED
        BY <1>1, <2>1, <3>1
    <2>3. gk = [NoFork EXCEPT
                  !.frames = [k \in 1..Len(s) |->
                                [parent |-> k - 1, state |-> s[k].state, value |-> s[k].value,
                                 ctx |-> 1, span |-> s[k].span, ran |-> <<>>]],
                  !.active = <<Len(s)>>, !.worklist = <<Len(s)>>, !.contexts = <<(<<>>)>>]
      BY <1>2, <1>3, <2>1 DEF ForkStart
    <2>4. Forked(gk, K, c, L, L)
      BY <2>1, <2>2, <2>3, StartForks
    <2> QED
      BY <1>1, <1>2, <2>4, Hanged, InFork
  <1>4. CASE SkipSuperseded \/ FollowPath \/ RecoverPath \/ LosePath
    <2>1. mode = "forking"
      BY <1>4 DEF SkipSuperseded, FollowPath, RecoverPath, LosePath, Working, Sweeping
    <2>2. PICK at : Forked(fork, K, at, L, L)
      BY <1>1, <2>1 DEF GlrInv, Forking, Forks
    <2>3. PICK tok : tok = forkTok
      OBVIOUS
    <2>4. Steers(K, L, L, L, tok)
      BY <1>1, InFork, AnythingSteers
    <2>5. \E bt : Forked(gk, K, bt, L, L)
      BY <1>2, <1>4, <2>2, <2>3, <2>4, InFork, SweepForks
    <2> QED
      BY <1>1, <1>2, <2>5, Hanged, InFork
  <1>5. CASE ForkExhausted \/ ForkAccepts \/ ForkDies
    BY <1>5 DEF ForkExhausted, ForkAccepts, ForkDies
  <1> QED
    BY <1>3, <1>4, <1>5 DEF KeepsFork

(* Past a token, with several derivations left.                             *)
LEMMA AdvanceReads ==
  ASSUME GlrInv, ForkNext, ForkAdvance
  PROVE  /\ Parsing' /\ Forking' /\ ForkTokenStands'
         /\ \E fk, row : /\ fk = Survivors /\ DropsSkips(row)
                         /\ forkTok' = Lexed(row).tok /\ offset' = Lexed(row).next
  <1>1. Swept /\ mode = "forking" /\ mode' = "forking" /\ UNCHANGED <<stack, realTok>>
    BY DEF ForkAdvance, Swept
  <1>2. PICK K, L : K = Anything /\ L = {0}
    OBVIOUS
  <1>3. PICK at : Forked(fork, K, at, L, L)
    BY <1>1, <1>2 DEF GlrInv, Forking, Forks
  <1>4. L \subseteq Nat /\ Closed(K, L)
    BY <1>2, InFork, AnythingIsClosed
  <1>5. PICK fk, bt : fk = Survivors /\ Forked(fk, K, bt, L, L) /\ fk.shifted = <<>>
    BY <1>1, <1>3, <1>4, SurvivorsForked
  <1>6. /\ Len(fk.active) \in Nat
        /\ \A k \in 1..Len(fk.active) : fk.frames[fk.active[k]].state \in 1..Len(states)
    BY <1>4, <1>5, ActiveStates, InFork
  <1>7. PICK row : row = UnionRow(fk)
    OBVIOUS
  <1>8. /\ DropsSkips(row)
        /\ SkipsStandApart /\ Len(fk.active) > 0 => \A t \in Dropped : Entry(row, t).kind = "ignore"
    BY <1>6, <1>7, UnionRowIs, InFork
  <1>9. forkTok' = Lexed(row).tok /\ offset' = Lexed(row).next /\ Len(fk.active) > 1
    BY <1>5, <1>7 DEF ForkAdvance
  <1>10. PICK t, o : t = Lexed(row).tok /\ o = Lexed(row).next
    OBVIOUS
  <1>11. o \in 1..(Len(input) + 1)
    BY <1>8, <1>10, LexedReads, InFork
  <1>12. ForkTokenStands'
    <2>1. SkipsStandApart => Lexed(row).tok.type \notin Dropped
      BY <1>6, <1>8, <1>9, LexedStands, InFork
    <2> QED
      BY <1>9, <2>1 DEF ForkTokenStands
  <1>13. Forking'
    <2>1. PICK gk : gk = fork' /\ gk = [fk EXCEPT !.worklist = fk.active]
      BY <1>5 DEF ForkAdvance
    <2>2. Forked(gk, K, bt, L, L)
      BY <1>5, <2>1, Relisted
    <2>3. Forks(Anything, {0}, {0})'
      BY <1>2, <2>1, <2>2, Hanged, InFork
    <2> QED
      BY <2>3 DEF Forking
  <1>14. Parsing'
    <2>1. PICK st : st = stack' /\ st = stack
      BY <1>1
    <2>2. IsStack(st)'
      BY <2>1, InFork, TablesStand
    <2>3. Driving'
      BY <2>1, <2>2, InFork DEF Driving
    <2>4. LexerOK'
      BY <1>9, <1>10, <1>11, InFork DEF LexerOK
    <2> QED
      BY <1>1, <2>3, <2>4, InFork DEF Parsing, ParserInv, Unread, TokenStands, Unharmed, NeverCrashes
  <1> QED
    BY <1>5, <1>8, <1>9, <1>12, <1>13, <1>14
-----------------------------------------------------------------------------
(* With one derivation left, its frames are a stack again.                  *)
LEMMA StackAgain ==
  ASSUME GlrInv, ForkNext, ForkSettles, NEW K, NEW P, Closed(K, P),
         NEW at, NEW L, NEW M, M \subseteq Nat, Forked(fork, K, at, L, M), NEW s, s = stack'
  PROVE  \E c : /\ IsRead(K, s, c) /\ c[Len(s)] \in M
                /\ \E p \in 1..Len(states) : p = s[Len(s)].state /\ Advances(action[p])
  <1>1. Swept
    BY DEF ForkSettles
  <1>2. PICK fk, bt : fk = Survivors /\ Forked(fk, K, bt, M, M)
    BY <1>1, SurvivorsForked
  <1>3. Len(fk.active) = 1
    BY <1>2 DEF ForkSettles
  <1>4. PICK path : path = fk.active[1]
    OBVIOUS
  <1>5. path \in 1..Len(fk.frames) /\ bt[path] \in M
    <2>1. 1 \in 1..Len(fk.active)
      BY <1>3
    <2> QED
      BY <1>2, <1>4, <2>1, ActiveStates, InFork
  <1>6. FramesOK(fk.frames, K, bt)
    BY <1>2 DEF Forked
  <1>7. PICK chain : chain = Chain(fk, path)
    OBVIOUS
  <1>8. Unwinds(s, chain, fk, K, bt, path) /\ Advances(action[Top(chain).state])
    BY <1>2, <1>4, <1>5, <1>6, <1>7 DEF ForkSettles, Unwinds
  <1>9. PICK c : IsRead(K, s, c) /\ c[Len(s)] = bt[path] /\ Top(chain).state = Top(s).state
    BY <1>8, ChainReads
  <1>10. PICK l \in Nat : l = Len(s) /\ l \in 1..l
    BY <1>9 DEF IsRead
  <1>11. s[l].state \in 1..Len(states)
    BY <1>9, <1>10, ReadShape, InFork
  <1>12. Advances(action[s[l].state])
    BY <1>8, <1>9, <1>10 DEF Top
  <1> QED
    BY <1>5, <1>9, <1>10, <1>11, <1>12

LEMMA SettledStands ==
  ASSUME GlrInv, ForkNext, ForkSettles
  PROVE  Parsing' /\ Forking' /\ ForkTokenStands'
  <1>1. mode = "forking" /\ mode' = "parse"
    BY DEF ForkSettles, Swept
  <1>2. PICK K, L : K = Anything /\ L = {0}
    OBVIOUS
  <1>3. PICK at : Forked(fork, K, at, L, L)
    BY <1>1, <1>2 DEF GlrInv, Forking, Forks
  <1>4. L \subseteq Nat /\ Closed(K, L)
    BY <1>2, InFork, AnythingIsClosed
  <1>5. PICK s : s = stack'
    OBVIOUS
  <1>6. PICK c : /\ IsRead(K, s, c)
                 /\ \E p \in 1..Len(states) : p = s[Len(s)].state /\ Advances(action[p])
    BY <1>3, <1>4, <1>5, StackAgain
  <1>7. IsStack(s)
    BY <1>6, ReadIsAStack, InFork
  <1>8. Driving'
    <2>1. IsStack(s)'
      BY <1>7, InFork, TablesStand
    <2> QED
      BY <1>5, <2>1, InFork DEF Driving
  <1>9. PICK p \in 1..Len(states) : Advances(action[p])
    BY <1>6
  <1>10. /\ Lexed(action[p]).next \in 1..(Len(input) + 1)
         /\ SkipsStandApart => Lexed(action[p]).tok.type \notin Dropped
    BY LexedIs, InFork
  <1>11. LexerOK' /\ TokenStands'
    BY <1>9, <1>10, InFork DEF LexerOK, TokenStands, Advances
  <1> QED
    BY <1>1, <1>8, <1>11, InFork DEF Parsing, ParserInv, Unread, Unharmed, NeverCrashes, Forking, ForkTokenStands
-----------------------------------------------------------------------------
(* The same steps with regard to the text.                                  *)
LEMMA TextHanged ==
  ASSUME UNCHANGED <<actionTableVars, input>>, NEW gk, gk = fork', NEW t, t = forkTok', NEW o, o = offset',
         IsLexeme(t, o), t.at \in Nat \ {0},
         \E at : Forked(gk, Phrases, at, UpTo(t.at - 1), UpTo(o - 1)),
         gk.accepted # <<>> => IsSentence(o - 1)
  PROVE  ForkReads'
  <1>1. IsLexeme(t, o)'
    BY TextStands
  <1>2. UpTo(t.at - 1)' = UpTo(t.at - 1) /\ UpTo(o - 1)' = UpTo(o - 1)
    BY TextStands DEF UpTo, Places
  <1>3. PICK K, L, M : K = Phrases /\ L = UpTo(t.at - 1) /\ M = UpTo(o - 1)
    OBVIOUS
  <1>4. PICK at : Forked(gk, K, at, L, M)
    BY <1>3
  <1>5. Forked(gk, K, at, L, M)'
    BY <1>4, ForkStands
  <1>6. K = Phrases' /\ L = UpTo(t.at - 1)' /\ M = UpTo(o - 1)'
    BY <1>2, <1>3, TextStands
  <1>7. Forks(Phrases, UpTo(forkTok.at - 1), UpTo(offset - 1))'
    BY <1>5, <1>6 DEF Forks
  <1>8. PICK n : n = o - 1
    OBVIOUS
  <1>9. fork'.accepted # <<>> => IsSentence(n)'
    BY <1>8, TextStands
  <1> QED
    BY <1>1, <1>7, <1>8, <1>9 DEF ForkReads

LEMMA ForkStartReads ==
  ASSUME GlrInv, ForkNext, ForkStart, InText
  PROVE  ForkReads'
  <1>1. mode = "fork" /\ UNCHANGED <<offset, forkTok>>
    BY DEF ForkStart, KeepsToken
  <1>2. Pending /\ forkTok = realTok
    BY <1>1 DEF InText
  <1>3. PICK t, o : t = forkTok /\ o = offset
    OBVIOUS
  <1>4. PICK K, L, M : K = Phrases /\ L = UpTo(t.at - 1) /\ M = UpTo(o - 1)
    OBVIOUS
  <1>5. IsLexeme(t, o) /\ t.at \in Nat \ {0}
    BY <1>2, <1>3 DEF Pending
  <1>6. PICK s, c : s = stack /\ IsRead(K, s, c) /\ Gap(c[Len(s)], t.at - 1)
    BY <1>2, <1>3, <1>4 DEF Pending, ReadTo
  <1>7. c[Len(s)] \in L
    <2>1. PICK l \in Nat : l = Len(s) /\ l > 0
      BY <1>6 DEF IsRead
    <2>2. PICK d \in Seq(Nat) : d = c /\ Len(d) = l
      BY <1>6, <2>1 DEF IsRead
    <2>3. c[l] \in Nat
      BY <2>1, <2>2
    <2>4. t.at - 1 \in Nat /\ t.at - 1 <= Len(input) /\ Len(input) \in Nat
      BY <1>5, InFork DEF IsLexeme, LexerOK
    <2>5. c[l] \in Places
      BY <1>6, <2>1, <2>3, <2>4 DEF Gap, Places
    <2> QED
      BY <1>4, <1>6, <2>1, <2>5 DEF UpTo
  <1>8. PICK gk : gk = fork'
    OBVIOUS
  <1>9. gk = [NoFork EXCEPT
                !.frames = [k \in 1..Len(s) |->
                              [parent |-> k - 1, state |-> s[k].state, value |-> s[k].value,
                               ctx |-> 1, span |-> s[k].span, ran |-> <<>>]],
                !.active = <<Len(s)>>, !.worklist = <<Len(s)>>, !.contexts = <<(<<>>)>>]
    BY <1>6, <1>8 DEF ForkStart
  <1>10. Forked(gk, K, c, L, M) /\ gk.accepted = <<>>
    BY <1>6, <1>7, <1>9, StartForks
  <1>11. t = forkTok' /\ o = offset'
    BY <1>1, <1>3
  <1> QED
    BY <1>4, <1>5, <1>8, <1>10, <1>11, InFork, TextHanged

LEMMA EndTakesNothing ==
  ASSUME LexerOK, NEW t, NEW o, IsLexeme(t, o), t.type = EOF
  PROVE  o = t.at
  <1>1. ASSUME t.at \in 1..Len(input), t.type \in ToSet(CandidateOrder[input[t.at]]) PROVE FALSE
    <2>1. PICK S : S = Terminals \ {ERROR}
      OBVIOUS
    <2>2. PICK order \in Seq(S) : order = CandidateOrder[input[t.at]]
      BY <1>1, <2>1, LexingAssumption DEF LexerOK
    <2>3. t.type \in Terminals
      BY <1>1, <2>1, <2>2, HoldsAt
    <2> QED
      BY <2>3, SymbolsAssumption
  <1> QED
    BY <1>1 DEF IsLexeme

LEMMA SweepReads ==
  ASSUME GlrInv, ForkNext, SkipSuperseded \/ FollowPath \/ RecoverPath \/ LosePath,
         SkipsStandApart, RecoveryGoesOn, ForkReads
  PROVE  ForkReads'
  <1>1. mode = "forking" /\ UNCHANGED <<offset, forkTok>>
    BY DEF SkipSuperseded, FollowPath, RecoverPath, LosePath, Working, Sweeping, StaysInFork, KeepsToken
  <1>2. PICK t, o : t = forkTok /\ o = offset /\ t = forkTok' /\ o = offset'
    BY <1>1
  <1>3. PICK K, L, M : K = Phrases /\ L = UpTo(t.at - 1) /\ M = UpTo(o - 1)
    OBVIOUS
  <1>4. IsLexeme(t, o) /\ t.at \in Nat \ {0} /\ \E at : Forked(fork, K, at, L, M)
    BY <1>2, <1>3 DEF ForkReads, Forks
  <1>5. PICK at : Forked(fork, K, at, L, M)
    BY <1>4
  <1>6. PICK P : P = Places
    OBVIOUS
  <1>7. Steers(K, P, L, M, t)
    BY <1>3, <1>4, <1>6, InFork, TextSteers
  <1>8. PICK gk : gk = fork'
    OBVIOUS
  <1>9. /\ \E bt : Forked(gk, K, bt, L, M)
        /\ \E x \in {t.type} \cup RecoverTerms : Comes(gk, K, L, x)
    BY <1>2, <1>5, <1>7, <1>8, InFork, SweepForks
  <1>10. PICK x \in {t.type} \cup RecoverTerms : Comes(gk, K, L, x)
    BY <1>9
  <1>11. x \notin Dropped
    BY <1>1, <1>2 DEF GlrInv, ForkTokenStands, SkipsStandApart, Dropped
  <1>12. ASSUME gk.accepted # <<>> PROVE IsSentence(o - 1)
    <2>1. x = EOF /\ \E i \in L : <<Start, 0, i>> \in K
      BY <1>10, <1>11, <1>12 DEF Comes
    <2>2. PICK i \in L : <<Start, 0, i>> \in K
      BY <2>1
    <2>3. t.type = EOF
      BY <2>1 DEF RecoveryGoesOn
    <2>4. o = t.at
      BY <1>4, <2>3, EndTakesNothing, InFork
    <2> QED
      BY <1>3, <2>2, <2>4 DEF IsSentence, UpTo
  <1> QED
    BY <1>2, <1>3, <1>4, <1>8, <1>9, <1>12, InFork, TextHanged

LEMMA AdvancedReads ==
  ASSUME GlrInv, ForkNext, ForkAdvance, ForkReads
  PROVE  ForkReads'
  <1>1. PICK fk, row : /\ fk = Survivors /\ DropsSkips(row)
                       /\ forkTok' = Lexed(row).tok /\ offset' = Lexed(row).next
    BY AdvanceReads
  <1>2. PICK t, o : t = Lexed(row).tok /\ o = Lexed(row).next
    OBVIOUS
  <1>3. IsLexeme(t, o) /\ t.at \in Nat \ {0} /\ Gap(offset - 1, t.at - 1) /\ o \in 1..(Len(input) + 1)
    BY <1>1, <1>2, LexedReads, InFork
  <1>4. PICK K, M, L, N : /\ K = Phrases /\ M = UpTo(offset - 1)
                          /\ L = UpTo(t.at - 1) /\ N = UpTo(o - 1)
    OBVIOUS
  <1>5. M \subseteq Nat /\ M \subseteq L
    <2>1. Len(input) \in Nat /\ offset - 1 \in Nat /\ t.at - 1 \in Nat
      BY <1>3, InFork DEF LexerOK
    <2> SUFFICES ASSUME NEW i \in M PROVE i \in Nat /\ i \in L
      OBVIOUS
    <2>2. i \in Places /\ i \in Nat /\ Gap(i, offset - 1)
      BY <1>4 DEF UpTo, Places
    <2>3. Gap(i, t.at - 1)
      BY <1>3, <2>1, <2>2, GapsJoin
    <2> QED
      BY <1>4, <2>2, <2>3 DEF UpTo
  <1>6. PICK A : A = UpTo(forkTok.at - 1)
    OBVIOUS
  <1>7. PICK at : Forked(fork, K, at, A, M)
    BY <1>4, <1>6 DEF ForkReads, Forks
  <1>8. Swept
    BY DEF ForkAdvance
  <1>9. PICK bt : Forked(fk, K, bt, M, M) /\ fk.shifted = <<>> /\ fk.accepted = <<>>
    BY <1>1, <1>5, <1>7, <1>8, SurvivorsForked
  <1>10. PICK gk : gk = fork' /\ gk = [fk EXCEPT !.worklist = fk.active]
    BY <1>1 DEF ForkAdvance
  <1>11. Forked(gk, K, bt, L, N) /\ gk.accepted = <<>>
    BY <1>5, <1>9, <1>10, Relisted
  <1> QED
    BY <1>1, <1>2, <1>3, <1>4, <1>10, <1>11, InFork, TextHanged

LEMMA SettledReads ==
  ASSUME GlrInv, ForkNext, ForkSettles, ForkReads
  PROVE  InText'
  <1>1. mode' = "parse"
    BY DEF ForkSettles
  <1>2. PICK K, P, M : K = Phrases /\ P = Places /\ M = UpTo(offset - 1)
    OBVIOUS
  <1>3. Closed(K, P) /\ M \subseteq Nat
    BY <1>2, InFork, PhrasesAreClosed DEF LexerOK, UpTo, Places
  <1>4. PICK A : A = UpTo(forkTok.at - 1)
    OBVIOUS
  <1>5. PICK at : Forked(fork, K, at, A, M)
    BY <1>2, <1>4 DEF ForkReads, Forks
  <1>6. PICK s : s = stack'
    OBVIOUS
  <1>7. PICK c : /\ IsRead(K, s, c) /\ c[Len(s)] \in M
                 /\ \E p \in 1..Len(states) : p = s[Len(s)].state /\ Advances(action[p])
    BY <1>3, <1>5, <1>6, StackAgain
  <1>8. PICK p \in 1..Len(states) : Advances(action[p])
    BY <1>7
  <1>9. PICK j \in Nat : j = c[Len(s)] /\ Gap(j, offset - 1)
    BY <1>2, <1>3, <1>7 DEF UpTo
  <1>10. PICK t, o : t = realTok' /\ o = offset'
    OBVIOUS
  <1>11. IsLexeme(t, o) /\ t.at \in Nat \ {0} /\ Gap(j, t.at - 1)
    BY <1>8, <1>9, <1>10, InFork, ReadsOn
  <1>12. IsRead(Phrases, s, c) /\ Gap(c[Len(s)], t.at - 1)
    BY <1>2, <1>7, <1>9, <1>11
  <1>13. Pending'
    BY <1>6, <1>10, <1>11, <1>12, InFork, PendingNext
  <1> QED
    BY <1>1, <1>13 DEF InText

LEMMA ForkReadingStep ==
  ASSUME GlrInv, ForkNext
  PROVE  ForkReading'
  <1> SUFFICES ASSUME SkipsStandApart, RecoveryGoesOn, PlainForks'
               PROVE  InText' /\ (mode' = "forking" => ForkReads')
    BY DEF ForkReading
  <1>1. InText /\ (mode = "forking" => ForkReads)
    <2>1. PlainForks
      BY InFork, InTextStands
    <2> QED
      BY <2>1 DEF GlrInv, ForkReading
  <1>2. CASE ForkStart
    BY <1>1, <1>2, ForkStartReads DEF ForkStart, InText
  <1>3. CASE SkipSuperseded \/ FollowPath \/ RecoverPath \/ LosePath
    <2>1. mode = "forking" /\ mode' = "forking"
      BY <1>3 DEF SkipSuperseded, FollowPath, RecoverPath, LosePath, Working, Sweeping, StaysInFork
    <2> QED
      BY <1>1, <1>3, <2>1, SweepReads DEF InText
  <1>4. CASE ForkExhausted \/ ForkDies
    BY <1>4 DEF ForkExhausted, ForkDies, InText
  <1>5. CASE ForkAccepts
    <2>1. mode = "forking" /\ mode' = "accepted" /\ fork.accepted # <<>>
      BY <1>5 DEF ForkAccepts
    <2>2. PICK n : n = result'.consumed /\ n = offset - 1
      BY <1>5 DEF ForkAccepts
    <2>3. IsSentence(n)
      BY <1>1, <2>1, <2>2 DEF ForkReads
    <2>4. IsSentence(n)'
      BY <2>3, InFork, TextStands
    <2> QED
      BY <2>1, <2>2, <2>4 DEF InText
  <1>6. CASE ForkAdvance
    <2>1. mode = "forking" /\ mode' = "forking"
      BY <1>6 DEF ForkAdvance, Swept
    <2> QED
      BY <1>1, <1>6, <2>1, AdvancedReads DEF InText
  <1>7. CASE ForkSettles
    <2>1. mode = "forking" /\ mode' = "parse"
      BY <1>7 DEF ForkSettles, Swept
    <2> QED
      BY <1>1, <1>7, <2>1, SettledReads
  <1> QED
    BY <1>2, <1>3, <1>4, <1>5, <1>6, <1>7 DEF ForkNext

LEMMA GlrStep ==
  ASSUME GlrInv, [GlrForkNext]_glrForkVars
  PROVE  GlrInv'
  <1>1. CASE [LRParserNext]_lrParserVars /\ UNCHANGED fork
    BY <1>1, ParserOverFork
  <1>2. CASE ForkNext /\ KeepsFork
    BY <1>2, ForkKeeps, ForkKeepsHanging, ForkReadingStep DEF GlrInv
  <1>3. CASE ForkNext /\ ForkAdvance
    BY <1>3, AdvanceReads, ForkReadingStep DEF GlrInv
  <1>4. CASE ForkNext /\ ForkSettles
    BY <1>4, SettledStands, ForkReadingStep DEF GlrInv
  <1>5. ForkNext => KeepsFork \/ ForkAdvance \/ ForkSettles
    BY DEF ForkNext, KeepsFork
  <1>6. (LRParserNext /\ UNCHANGED fork) \/ ForkNext \/ UNCHANGED glrForkVars
    BY DEF GlrForkNext
  <1>7. UNCHANGED glrForkVars => UNCHANGED lrParserVars /\ UNCHANGED fork
    BY DEF glrForkVars
  <1> QED
    BY <1>1, <1>2, <1>3, <1>4, <1>5, <1>6, <1>7

LEMMA GlrAlways == GlrForkSpec => []GlrInv
  <1>1. GlrForkInit => GlrInv
    <2>1. GlrForkInit => LRParserInit /\ mode = "idle"
      BY DEF GlrForkInit, LRParserInit, ParserInit
    <2> QED
      BY <2>1, ParsingStart DEF GlrInv, Forking, ForkTokenStands, ForkReading, InText
  <1>2. GlrInv /\ [GlrForkNext]_glrForkVars => GlrInv'
    BY GlrStep
  <1> QED
    BY <1>1, <1>2, PTL DEF GlrForkSpec

(* However derivations fork, merge and die, the stack runParser goes on     *)
(* with when one is left spells a path of the automaton.                    *)
THEOREM StackIsAPathThroughForks == GlrForkSpec => [](mode # "idle" => IsStack(stack))
  <1>1. GlrInv => (mode # "idle" => IsStack(stack))
    BY DEF GlrInv, Parsing, ParserInv, Driving
  <1> QED
    BY <1>1, GlrAlways, PTL

(* And where the skipped terminals are used by no rule, no call ends in an  *)
(* internal error.                                                          *)
THEOREM ParserNeverCrashes ==
  ASSUME SkipsStandApart
  PROVE  GlrForkSpec => []NeverCrashes
  <1>1. GlrInv => NeverCrashes
    BY DEF GlrInv, Parsing, ParserInv, Unharmed
  <1> QED
    BY <1>1, GlrAlways, PTL

(* The whole parser, forks included, accepts only sentences of the grammar. *)
THEOREM ParserAcceptsSentences ==
  ASSUME SkipsStandApart, RecoveryGoesOn
  PROVE  GlrForkSpec => []AcceptsOnlySentences
  <1>1. GlrInv => AcceptsOnlySentences
    BY DEF GlrInv, ForkReading, InText, AcceptsOnlySentences, PlainForks
  <1> QED
    BY <1>1, GlrAlways, PTL
=============================================================================
