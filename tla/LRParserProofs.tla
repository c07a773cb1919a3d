----------------------------- MODULE LRParserProofs --------------------------
(* The driver of LRParser on the tables the generator builds, for every     *)
(* grammar, option, text and number of prefix parses: its stack spells a    *)
(* path of the automaton, and the one internal error runParser throws, a    *)
(* table entry that tells it to ignore a token, is reached only by a skip   *)
(* token that a grammar also uses.                                          *)
EXTENDS LRParser, TableProofs

(* What the tables are by the time a parser is handed out, and on the way.  *)
Built == LR0Inv /\ LookaheadInv /\ TableInv /\ GotoInv

LEMMA BuiltStep ==
  ASSUME Built, [UnitGotosNext]_actionTableVars
  PROVE  Built'
  BY LR0Step, StatesClosedStep, FirstStep, FollowStep, LaStep, TableStep, GotoStep
     DEF Built, LookaheadInv

LEMMA BuiltStart ==
  ASSUME ActionTableInit
  PROVE  Built
  <1>1. LR0Inv /\ TableInv
    BY LR0Start, TableStart DEF ActionTableInit, LookaheadsInit
  <1>2. GotoInv
    BY DEF ActionTableInit, LookaheadsInit, AutomatonInit, FirstInit, TableInit, GotoInv, Filled
  <1>3. LookaheadInv
    BY LookaheadStart
  <1> QED
    BY <1>1, <1>2, <1>3 DEF Built

(* The tables of a parser in use are no longer touched.                     *)
LEMMA ReadyStays ==
  ASSUME phase = "ready", [UnitGotosNext]_actionTableVars
  PROVE  UNCHANGED actionTableVars
  BY DEF UnitGotosNext, ActionTableNext, LookaheadsNext, AutomatonNext, FirstNext, ScanRule, NextPass,
         FirstDone, LR0Next, CloseItem, AddState, MoveOver, SkipMoved, ExpandNext, Expanding, LR0Done,
         LookaheadNext, ScanFollow, NextFollowPass, FollowDone, ScanItem, ScanNextState,
         NextLookaheadPass, LookaheadDone, TableNext, PlaceShifts, PlaceReduces, FillNextState,
         FillDone, Filling, OptimizeNext, RedirectEntry, RedirectNextRow, NextRedirectPass,
         OptimizeDone, Optimizing

-----------------------------------------------------------------------------
(* An item of a closure is one of its kernel, or a rule's first item whose  *)
(* head some item of the closure expects.                                   *)
LEMMA InClosure ==
  ASSUME NEW G, Len(G) \in Nat, NEW I, NEW i \in ClosureIn(G, I), i \notin I
  PROVE  i.dot = 0 /\ G[i.rule].lhs \in ExpectedIn(G, ClosureIn(G, I))
  <1>1. PICK C : C = ClosureIn(G, I)
    OBVIOUS
  <1>2. PICK D : D = I \cup {Item(r, 0) : r \in {r \in 1..Len(G) : G[r].lhs \in ExpectedIn(G, C)}}
    OBVIOUS
  <1>3. I \subseteq C /\ ClosedIn(G, C)
    BY <1>1, ClosureIsLeast, ClosureIsClosed
  <1>4. D \subseteq C
    BY <1>2, <1>3 DEF ClosedIn, IntoIn
  <1>5. ExpectedIn(G, D) \subseteq ExpectedIn(G, C)
    BY <1>4 DEF ExpectedIn
  <1>6. ClosedIn(G, D)
    BY <1>2, <1>5 DEF ClosedIn, IntoIn
  <1>7. i \in D
    BY <1>1, <1>2, <1>6, ClosureIsLeast
  <1> QED
    BY <1>1, <1>2, <1>7 DEF Item

(* The states of a stack, from the first one up.                            *)
Step(p, q) == \E X \in Symbols : HasTrans(p, X) /\ q = Target(p, X)

IsPath(s) ==
  /\ s \in Seq(Nat) /\ Len(s) > 0 /\ s[1] = 1
  /\ \A i \in 2..Len(s) : Step(s[i - 1], s[i])

LEMMA FirstStateItems ==
  ASSUME LR0Inv, phase \notin {"first", "lr0"}
  PROVE  /\ 1 \in 1..Len(states)
         /\ \A i \in ToSet(states[1]) :
              i.dot = 0 /\ (i.rule = 1 \/ gram[i.rule].lhs \in ExpectedIn(gram, ToSet(states[1])))
  <1>1. states # <<>> /\ ToSet(states[1]) = ClosureIn(gram, {Item(1, 0)})
    BY DEF LR0Inv, FirstState, AutomatonDone
  <1>2. Len(states) \in Nat /\ 1 \in 1..Len(states)
    BY <1>1 DEF LR0Inv, LR0TypeOK
  <1>3. Len(gram) \in Nat
    BY GrammarShape DEF LR0Inv, LR0TypeOK
  <1> QED
    BY <1>1, <1>2, <1>3, InClosure, ItemShape

(* An item in front of which the dot has moved was in the state below, one  *)
(* place back; one at its beginning is called for there.                    *)
LEMMA StepBack ==
  ASSUME LR0Inv, phase \notin {"first", "lr0"}, NEW p, NEW q, Step(p, q)
  PROVE  /\ p \in 1..Len(states) /\ q \in 1..Len(states)
         /\ \A i \in ToSet(states[q]) :
              /\ i.dot # 0 => \E x \in ToSet(states[p]) : i = Advance(x)
              /\ i.dot = 0 => gram[i.rule].lhs \in ExpectedIn(gram, ToSet(states[q]))
  <1>1. PICK X \in Symbols : HasTrans(p, X) /\ q = Target(p, X)
    BY DEF Step
  <1>2. PICK I : I = ToSet(states[p])
    OBVIOUS
  <1>3. p \in 1..Len(states) /\ q \in 1..Len(states) /\ ToSet(states[q]) = MoveIn(gram, I, X)
    BY <1>1, <1>2, TargetIs
  <1>4. PICK G \in Grammars : G = gram
    BY DEF LR0Inv, LR0TypeOK
  <1>5. Len(G) \in Nat
    BY GrammarShape
  <1>6. PICK K : K = KernelIn(G, I, X)
    OBVIOUS
  <1>7. I \subseteq Items
    <2>1. states \in Seq(Seq(ItemsIn(G)))
      BY <1>4 DEF LR0Inv, LR0TypeOK
    <2>2. states[p] \in Seq(ItemsIn(G))
      BY <1>3, <2>1
    <2> QED
      BY <1>2, <2>2, HoldsAt DEF ItemsIn
  <1>8. \A k \in K : k.dot # 0
    BY <1>6, <1>7, ItemShape DEF KernelIn, Advance
  <1> SUFFICES ASSUME NEW i \in MoveIn(G, I, X)
               PROVE  /\ i.dot # 0 => \E x \in I : i = Advance(x)
                      /\ i.dot = 0 => G[i.rule].lhs \in ExpectedIn(G, MoveIn(G, I, X))
    BY <1>2, <1>3, <1>4
  <1>9. CASE i.dot # 0
    BY <1>5, <1>9, ComesOver
  <1>10. CASE i.dot = 0
    BY <1>5, <1>6, <1>8, <1>10, InClosure DEF MoveIn
  <1> QED
    BY <1>9, <1>10

LEMMA PathStates ==
  ASSUME LR0Inv, phase \notin {"first", "lr0"}, NEW s, IsPath(s)
  PROVE  \A k \in 1..Len(s) : s[k] \in 1..Len(states)
  <1> SUFFICES ASSUME NEW k \in 1..Len(s) PROVE s[k] \in 1..Len(states)
    OBVIOUS
  <1>1. CASE k = 1
    BY <1>1, FirstStateItems DEF IsPath
  <1>2. CASE k # 1
    <2>1. Step(s[k - 1], s[k])
      BY <1>2 DEF IsPath
    <2> QED
      BY <2>1, StepBack
  <1> QED
    BY <1>1, <1>2

(* So the states under a state hold what its items have come through.       *)
LEMMA PathBack ==
  ASSUME LR0Inv, phase \notin {"first", "lr0"}, NEW s, IsPath(s), NEW n, n = Len(s),
         NEW i \in ToSet(states[s[n]]), NEW d \in Nat, d = i.dot
  PROVE  n > d /\ Item(i.rule, 0) \in ToSet(states[s[n - d]])
  <1>1. n \in Nat /\ n > 0
    BY DEF IsPath
  <1> DEFINE H == {k \in 0..d : n > k /\ Item(i.rule, d - k) \in ToSet(states[s[n - k]])}
  <1>2. \A k \in 1..n : s[k] \in 1..Len(states)
    BY PathStates
  <1>3. \A k \in 1..Len(states) : ToSet(states[k]) \subseteq Items
    <2>1. states \in Seq(Seq(ItemsIn(gram)))
      BY DEF LR0Inv, LR0TypeOK
    <2> SUFFICES ASSUME NEW k \in 1..Len(states) PROVE ToSet(states[k]) \subseteq Items
      OBVIOUS
    <2>2. states[k] \in Seq(ItemsIn(gram))
      BY <2>1
    <2> QED
      BY <2>2, HoldsAt DEF ItemsIn
  <1>4. i \in Items /\ i = Item(i.rule, d)
    <2>1. i \in Items
      BY <1>1, <1>2, <1>3
    <2> QED
      BY <2>1 DEF Items, Item
  <1>5. 0 \in H
    BY <1>1, <1>4
  <1>6. ASSUME NEW k \in 1..d, k - 1 \in H PROVE k \in H
    <2>1. PICK m \in 1..n : m = n - (k - 1)
      BY <1>1, <1>6
    <2>2. PICK j : j = Item(i.rule, d - (k - 1))
      OBVIOUS
    <2>3. j \in ToSet(states[s[m]]) /\ j.dot = d - (k - 1) /\ j.rule = i.rule
      BY <1>6, <2>1, <2>2, ItemShape
    <2>4. j.dot # 0
      BY <2>3
    <2>5. m # 1
      BY <2>3, <2>4, FirstStateItems DEF IsPath
    <2>6. Step(s[m - 1], s[m])
      BY <2>5 DEF IsPath
    <2>7. PICK x \in ToSet(states[s[m - 1]]) : j = Advance(x)
      BY <2>3, <2>4, <2>6, StepBack
    <2>8. x \in Items
      BY <1>2, <1>3, <2>5, <2>7
    <2>9. x = Item(i.rule, d - k)
      <3>1. x.rule = i.rule /\ x.dot + 1 = d - (k - 1)
        BY <2>2, <2>7, ItemShape DEF Advance
      <3>2. x.dot = d - k
        BY <2>8, <3>1 DEF Items
      <3>3. x = Item(x.rule, x.dot)
        BY <2>8 DEF Items, Item
      <3> QED
        BY <3>1, <3>2, <3>3
    <2>10. m - 1 = n - k
      BY <1>1, <2>1
    <2> QED
      BY <2>1, <2>5, <2>7, <2>9, <2>10, <1>1
  <1>7. \A k \in 0..d : k \in H
    <2> HIDE DEF H
    <2> QED
      BY <1>5, <1>6, Climbing
  <1>8. d \in H
    BY <1>7
  <1>9. d - d = 0
    OBVIOUS
  <1> QED
    BY <1>8, <1>9

-----------------------------------------------------------------------------
(* What a row of the finished tables calls for.                             *)
LEMMA KeptIsOffered ==
  ASSUME Built, phase = "ready", NEW p \in 1..Len(states), NEW t \in TermsEOF, NEW e \in KeptOf(action[p][t])
  PROVE  e \in AltUpto(p, Len(states[p]), t)
  <1>1. RowOK(p, Len(states[p]))
    BY DEF Built, TableInv, Filled
  <1> QED
    BY <1>1 DEF RowOK, CellOK

LEMMA ShiftIsAMove ==
  ASSUME Built, phase = "ready", NEW p \in 1..Len(states), NEW t \in TermsEOF,
         NEW e \in KeptOf(action[p][t]), e.kind = "shift"
  PROVE  HasTrans(p, t) /\ e.to = Target(p, t) /\ Step(p, e.to) /\ t # EOF
  <1>1. e \in AltUpto(p, Len(states[p]), t)
    BY KeptIsOffered
  <1>2. \A r : Reduce(r).kind # "shift"
    BY EntryShape
  <1>3. e \in Moves(p, t)
    BY <1>1, <1>2 DEF AltUpto
  <1>4. PICK x \in trans : x.from = p /\ x.sym = t /\ e = IF t = EOF THEN Accept ELSE Shift(x.to)
    BY <1>3 DEF Moves
  <1>5. Accept.kind # "shift" /\ \A q : Shift(q).to = q
    BY DEF Accept, Shift
  <1>6. e.to = x.to /\ t # EOF
    BY <1>4, <1>5
  <1>7. \A y \in trans : y.from = p /\ y.sym = t => y = x
    BY <1>4 DEF Built, LR0Inv, TransAreMoves
  <1>8. HasTrans(p, t) /\ Target(p, t) = x.to
    BY <1>4, <1>7 DEF HasTrans, Target
  <1> QED
    BY <1>6, <1>8 DEF Step, Symbols

LEMMA ReduceIsComplete ==
  ASSUME Built, phase = "ready", NEW p \in 1..Len(states), NEW t \in TermsEOF,
         NEW e \in KeptOf(action[p][t]), e.kind = "reduce"
  PROVE  /\ e.rule \in 1..Len(gram) /\ gram[e.rule].lhs # ACCEPT
         /\ \E i \in ToSet(states[p]) : i.rule = e.rule /\ i.dot = Len(gram[e.rule].rhs)
  <1>1. e \in AltUpto(p, Len(states[p]), t)
    BY KeptIsOffered
  <1>2. \A x : Accept.kind # "reduce" /\ Shift(x).kind # "reduce"
    BY EntryShape
  <1>3. e \notin Moves(p, t)
    BY <1>2 DEF Moves
  <1>4. PICK k \in 1..Len(states[p]) : Offers(p, k, t) /\ e = Reduce(states[p][k].rule)
    BY <1>1, <1>3 DEF AltUpto
  <1>5. PICK i : i = states[p][k]
    OBVIOUS
  <1>6. i \in ItemsIn(gram) /\ i.rule \in 1..Len(gram)
    BY <1>5, ItemsOfState DEF Built
  <1>7. e.rule = i.rule
    BY <1>4, <1>5, EntryShape
  <1>8. Complete(i) /\ gram[i.rule].lhs # ACCEPT
    BY <1>4, <1>5 DEF Offers, Reduces
  <1>9. Len(gram[i.rule].rhs) \in Nat
    BY <1>6, GrammarShape DEF Built, LR0Inv, LR0TypeOK
  <1>10. i.dot = Len(gram[i.rule].rhs)
    BY <1>6, <1>8, <1>9, ItemShape DEF ItemsIn, Complete
  <1>11. i \in ToSet(states[p])
    BY <1>5, StateShape DEF Built, InState
  <1> QED
    BY <1>6, <1>7, <1>8, <1>10, <1>11

LEMMA ExpectedMoves ==
  ASSUME Built, phase = "ready", NEW p \in 1..Len(states), NEW B,
         B \in ExpectedIn(gram, ToSet(states[p]))
  PROVE  HasTrans(p, B)
  <1>1. Len(states) \in Nat /\ stateIx = Len(states) + 1
    BY DEF Built, LR0Inv, AutomatonDone, LR0TypeOK
  <1>2. PICK x \in trans : x.from = p /\ x.sym = B
    <2>1. StatesExpanded /\ p < stateIx
      BY <1>1 DEF Built, LR0Inv
    <2> QED
      BY <2>1 DEF StatesExpanded
  <1> QED
    BY <1>2 DEF HasTrans

(* The goto of a head its state expects is there, and leads on from it.     *)
LEMMA GotoIsThere ==
  ASSUME Built, phase = "ready", NEW p \in 1..Len(states), NEW B \in Heads,
         B \in ExpectedIn(gram, ToSet(states[p]))
  PROVE  Step(p, goto[p][B]) /\ goto[p][B] # 0
  <1>1. HasTrans(p, B)
    BY ExpectedMoves
  <1>2. Reaches(p, B, goto[p][B])
    BY <1>1 DEF Built, GotoInv, Filled
  <1>3. PICK C : Stands(p, B, C)
    BY StandingIsClosed
  <1>4. PICK D \in Heads : HasTrans(p, D) /\ goto[p][B] = Target(p, D)
    BY <1>2, <1>3 DEF Reaches
  <1>5. Target(p, D) \in 1..Len(states)
    BY <1>4, TargetIs DEF Built
  <1> QED
    BY <1>4, <1>5 DEF Step, Symbols

(* So a reduce finds its symbols on the stack, and its goto below them.     *)
LEMMA ReduceGoesOn ==
  ASSUME Built, phase = "ready", NEW s, IsPath(s), NEW m \in Nat, m = Len(s), NEW t \in TermsEOF,
         NEW e \in KeptOf(action[s[m]][t]), e.kind = "reduce"
  PROVE  LET n == Len(gram[e.rule].rhs)
         IN  /\ n \in Nat /\ n < m
             /\ Step(s[m - n], goto[s[m - n]][gram[e.rule].lhs])
             /\ goto[s[m - n]][gram[e.rule].lhs] # 0
  <1>1. \A k \in 1..m : s[k] \in 1..Len(states)
    BY PathStates DEF Built
  <1>2. m > 0
    BY DEF IsPath
  <1>3. PICK r \in 1..Len(gram) : r = e.rule /\ gram[r].lhs # ACCEPT
    BY <1>1, <1>2, ReduceIsComplete
  <1>4. PICK i \in ToSet(states[s[m]]) : i.rule = r /\ i.dot = Len(gram[r].rhs)
    BY <1>1, <1>2, <1>3, ReduceIsComplete
  <1>5. PICK n \in Nat : n = Len(gram[r].rhs)
    BY GrammarShape DEF Built, LR0Inv, LR0TypeOK
  <1>6. n < m /\ Item(r, 0) \in ToSet(states[s[m - n]])
    BY <1>4, <1>5, PathBack DEF Built
  <1>7. PICK k \in 1..m : k = m - n
    BY <1>5, <1>6
  <1>8. PICK B \in Heads : B = gram[r].lhs
    BY <1>3, GrammarShape DEF Built, LR0Inv, LR0TypeOK
  <1>9. gram[1].lhs = ACCEPT
    <2>1. PICK G \in Grammars : G = gram
      BY DEF Built, LR0Inv, LR0TypeOK
    <2>2. PICK start : G[1] = AugmentedRule(start)
      BY GrammarsAssumption DEF IsGrammar
    <2> QED
      BY <2>1, <2>2 DEF AugmentedRule
  <1>10. B \in ExpectedIn(gram, ToSet(states[s[k]]))
    <2>1. PICK b : b = Item(r, 0)
      OBVIOUS
    <2>2. b.dot = 0 /\ b.rule = r /\ b \in ToSet(states[s[k]])
      BY <2>1, <1>6, <1>7, ItemShape
    <2>3. CASE k = 1
      <3>1. s[k] = 1 /\ r # 1
        BY <2>3, <1>3, <1>9 DEF IsPath
      <3> QED
        BY <2>2, <3>1, <1>8, FirstStateItems DEF Built
    <2>4. CASE k # 1
      <3>1. Step(s[k - 1], s[k])
        <4>1. k \in 2..Len(s)
          BY <2>4, <1>7
        <4> QED
          BY <4>1 DEF IsPath
      <3> QED
        BY <2>2, <3>1, <1>8, StepBack DEF Built
    <2> QED
      BY <2>3, <2>4
  <1>11. Step(s[k], goto[s[k]][B]) /\ goto[s[k]][B] # 0
    BY <1>1, <1>7, <1>10, GotoIsThere
  <1> QED
    BY <1>3, <1>5, <1>6, <1>7, <1>8, <1>11

-----------------------------------------------------------------------------
(* The symbols the rules of a grammar use; EOF ends every text.             *)
UsedIn(G) == {EOF} \cup UNION {ToSet(G[k].rhs) : k \in 1..Len(G)}

(* Nothing begins or follows a phrase but what some rule uses.              *)
UsedInv ==
  \A A \in Heads : first[A] \subseteq UsedIn(gram) /\ follow[A] \subseteq UsedIn(gram)

LEMMA UsedSymbols ==
  ASSUME NEW G \in Grammars, NEW k \in 1..Len(G), NEW m \in 1..Len(G[k].rhs)
  PROVE  G[k].rhs[m] \in UsedIn(G)
  <1>1. G[k].rhs \in Seq(Symbols)
    BY GrammarShape
  <1> QED
    BY <1>1, HoldsAt DEF UsedIn

LEMMA FirstIsUsed ==
  ASSUME FirstInv, UsedInv, NEW k \in 1..Len(gram), NEW j \in Nat \ {0}
  PROVE  FirstFrom(first, nullable, gram[k].rhs, j) \subseteq UsedIn(gram)
  <1>1. PICK G \in Grammars : G = gram
    BY DEF FirstInv
  <1>2. PICK rhs \in Seq(Symbols) : rhs = G[k].rhs
    BY <1>1, GrammarShape
  <1> SUFFICES ASSUME NEW m \in j..Len(rhs), NEW t \in first[rhs[m]]
               PROVE  t \in UsedIn(G)
    BY <1>1, <1>2 DEF FirstFrom
  <1>3. m \in 1..Len(rhs) /\ rhs[m] \in Symbols
    BY <1>2
  <1>4. CASE rhs[m] \in TermsEOF
    BY <1>1, <1>2, <1>3, <1>4, UsedSymbols DEF FirstInv, TerminalsBeginThemselves
  <1>5. CASE rhs[m] \in Heads
    BY <1>1, <1>5 DEF UsedInv
  <1> QED
    BY <1>3, <1>4, <1>5 DEF Symbols

LEMMA FollowIsUsed ==
  ASSUME FirstInv, FollowInv, UsedInv, NEW j \in 1..Len(gram), NEW A \in Heads
  PROVE  FollowAfterRule(gram[j])[A] \subseteq UsedIn(gram)
  <1>1. PICK G \in Grammars : G = gram
    BY DEF FirstInv
  <1>2. PICK r \in Rules : r = gram[j]
    BY <1>1, RuleShape
  <1>3. PICK rhs \in Seq(Symbols) : rhs = r.rhs
    BY DEF Rules
  <1>4. PICK N \in Nat : N = Len(rhs)
    BY <1>3
  <1>5. PICK lhs \in Heads : lhs = r.lhs
    BY DEF Rules
  <1>6. PICK f \in [0..N -> [Heads -> SUBSET TermsEOF]] : FollowScans(f, r, N)
    BY <1>3, <1>4, FollowSteps DEF FirstInv, FollowInv
  <1>7. /\ f[0] = follow /\ FollowAfterRule(r) = f[N]
        /\ \A k \in 1..N :
             f[k] = IF rhs[k] \in Heads
                    THEN [f[k - 1] EXCEPT ![rhs[k]] = @ \cup After(rhs, k, f[k - 1][lhs])]
                    ELSE f[k - 1]
    BY <1>3, <1>5, <1>6 DEF FollowScans
  <1>8. PICK U : U = UsedIn(gram)
    OBVIOUS
  <1> DEFINE H == {k \in 0..N : \A B \in Heads : f[k][B] \subseteq U}
  <1>9. 0 \in H
    BY <1>7, <1>8 DEF UsedInv
  <1>10. ASSUME NEW k \in 1..N, k - 1 \in H PROVE k \in H
    <2>1. PICK g \in [Heads -> SUBSET TermsEOF] : g = f[k - 1]
      OBVIOUS
    <2>2. f[k] = IF rhs[k] \in Heads THEN [g EXCEPT ![rhs[k]] = @ \cup After(rhs, k, g[lhs])] ELSE g
      BY <1>7, <2>1
    <2>3. \A B \in Heads : g[B] \subseteq U
      BY <1>10, <2>1
    <2>4. FirstFrom(first, nullable, rhs, k + 1) \subseteq U
      BY <1>2, <1>3, <1>8, FirstIsUsed
    <2>5. After(rhs, k, g[lhs]) \subseteq U
      BY <2>3, <2>4 DEF After
    <2> QED
      BY <2>1, <2>2, <2>3, <2>5
  <1>11. \A k \in 0..N : k \in H
    <2> HIDE DEF H
    <2> QED
      BY <1>9, <1>10, Climbing
  <1> QED
    BY <1>2, <1>7, <1>8, <1>11

LEMMA UsedStep ==
  ASSUME Built, UsedInv, [UnitGotosNext]_actionTableVars
  PROVE  UsedInv'
  <1>0. FirstInv /\ FollowInv
    BY DEF Built, LookaheadInv
  <1>1. PICK G \in Grammars : G = gram
    BY <1>0 DEF FirstInv
  <1>2. CASE FirstNext /\ UNCHANGED lookaheadVars
    <2>1. gram' = gram /\ follow' = follow
      BY <1>2 DEF FirstNext, ScanRule, NextPass, FirstDone, lookaheadVars
    <2>2. CASE ScanRule
      <3>1. PICK k \in 1..Len(G) : k = ruleIx
        BY <1>0, <1>1, <2>2 DEF ScanRule, FirstInv, FirstTypeOK
      <3>2. G[k].lhs \in Heads /\ G[k].lhs \in Symbols
        BY <3>1, GrammarShape DEF Symbols
      <3>3. first' = [first EXCEPT ![G[k].lhs] = first[G[k].lhs] \cup FirstFrom(first, nullable, G[k].rhs, 1)]
        BY <1>1, <2>2, <3>1 DEF ScanRule, RuleFirst
      <3>4. FirstFrom(first, nullable, G[k].rhs, 1) \subseteq UsedIn(G)
        BY <1>0, <1>1, <3>1, FirstIsUsed
      <3>5. \A A \in Heads : first'[A] \subseteq first[A] \cup UsedIn(G)
        BY <1>0, <3>2, <3>3, <3>4 DEF FirstInv, Symbols
      <3> QED
        BY <1>1, <2>1, <3>5 DEF UsedInv
    <2>3. CASE ~ScanRule
      BY <1>2, <2>1, <2>3 DEF FirstNext, NextPass, FirstDone, UsedInv
    <2> QED
      BY <2>2, <2>3
  <1>3. CASE ScanFollow
    <2>1. gram' = gram /\ first' = first /\ follow' = FollowAfterRule(gram[ruleIx])
      BY <1>3 DEF ScanFollow
    <2>2. ruleIx \in 1..Len(gram)
      BY <1>0, <1>1, <1>3, GrammarShape DEF ScanFollow, FollowInv
    <2>3. \A A \in Heads : FollowAfterRule(gram[ruleIx])[A] \subseteq UsedIn(gram)
      BY <1>0, <2>2, FollowIsUsed
    <2> QED
      BY <2>1, <2>3 DEF UsedInv
  <1>4. CASE UNCHANGED <<gram, first, follow>>
    BY <1>4 DEF UsedInv
  <1> QED
    BY <1>2, <1>3, <1>4, Stages
       DEF FirstStays, lookaheadVars, firstVars, LookaheadNext, NextFollowPass, FollowDone, ScanItem,
           ScanNextState, NextLookaheadPass, LookaheadDone, TableNext, PlaceShifts, PlaceReduces,
           FillNextState, FillDone, OptimizeNext, RedirectEntry, RedirectNextRow, NextRedirectPass,
           OptimizeDone, lookaheadsVars

LEMMA UsedStart ==
  ASSUME ActionTableInit
  PROVE  UsedInv
  <1>1. /\ first = [s \in Symbols |-> IF s \in TermsEOF THEN {s} ELSE {}]
        /\ follow = [A \in Heads |-> {}]
    BY DEF ActionTableInit, LookaheadsInit, AutomatonInit, FirstInit, LookaheadInit
  <1>2. Heads \cap TermsEOF = {} /\ Heads \subseteq Symbols
    BY SymbolsAssumption DEF Heads, TermsEOF, Symbols, EOF, ACCEPT
  <1> QED
    BY <1>1, <1>2 DEF UsedInv

-----------------------------------------------------------------------------
(* What fillAlwaysEntries leaves in a free cell is a matter of the terminal *)
(* alone, and not of the state.                                             *)
FreeCell(t) == IF t \in AlwaysTerminals THEN "error" ELSE IF t \in AlwaysSkip THEN "ignore" ELSE "none"

AlwaysInv ==
  Filled => Len(action) = Len(states) /\ \A s \in 1..Len(states) :
    /\ DOMAIN action[s] = TermsEOF
    /\ \A t \in TermsEOF :
         /\ action[s][t].kind \in {"none", "error", "ignore"} => action[s][t].kind = FreeCell(t)
         /\ action[s][t].kind = "conflict" => \E a, b : action[s][t].entries = <<a, b>>

LEMMA AlwaysStep ==
  ASSUME Built, AlwaysInv, [UnitGotosNext]_actionTableVars
  PROVE  AlwaysInv'
  <1>1. CASE FillDone
    <2>1. /\ action' = [s \in 1..Len(action) |-> WithAlways(action[s])] /\ states' = states
          /\ FillingOK /\ scanState > Len(states)
      BY <1>1 DEF FillDone, lr0Vars, Built, TableInv
    <2>2. Len(states) \in Nat
      BY DEF Built, LR0Inv, LR0TypeOK
    <2>3. action \in Seq([TermsEOF -> EntriesIn(gram)]) /\ Len(action) = Len(states)
      BY <2>1, <2>2 DEF FillingOK
    <2>0. \A s \in 1..Len(states) : DOMAIN action'[s] = TermsEOF
      BY <2>1, <2>3 DEF WithAlways
    <2>9. Len(action') = Len(states)
      <3>1. PICK n \in Nat : n = Len(states) /\ n = Len(action)
        BY <2>2, <2>3
      <3>2. PICK a : a = action'
        OBVIOUS
      <3>3. a = [s \in 1..n |-> WithAlways(action[s])]
        BY <2>1, <3>1, <3>2
      <3>4. a \in [1..n -> {WithAlways(action[s]) : s \in 1..n}]
        BY <3>3
      <3>5. Len(a) = n
        BY <3>4
      <3> QED
        BY <3>1, <3>2, <3>5
    <2> SUFFICES ASSUME NEW s \in 1..Len(states), NEW t \in TermsEOF
                 PROVE  /\ action'[s][t].kind \in {"none", "error", "ignore"} => action'[s][t].kind = FreeCell(t)
                        /\ action'[s][t].kind = "conflict" => \E a, b : action'[s][t].entries = <<a, b>>
      BY <2>0, <2>1, <2>9 DEF AlwaysInv
    <2>4. PICK row \in [TermsEOF -> EntriesIn(gram)] : row = action[s]
      BY <2>3
    <2>5. action'[s][t] = WithAlways(row)[t]
      BY <2>1, <2>3, <2>4
    <2>6. row[t].kind \in FreeKinds
      BY EntriesShape
    <2>7. CASE row[t] # NoEntry
      <3>1. action'[s][t] = row[t]
        BY <2>5, <2>7 DEF WithAlways
      <3>2. row[t].kind # "none"
        BY <2>7, EntryShape DEF EntriesIn, AltsIn
      <3>3. row[t].kind = "conflict" => \E a, b : row[t].entries = <<a, b>>
        <4>1. row[t] = NoEntry \/ row[t] \in AltsIn(gram) \/ \E a, b : row[t] = Conflict(a, b)
          BY DEF EntriesIn
        <4>2. row[t] \in AltsIn(gram) => row[t].kind # "conflict"
          BY AltShape
        <4> QED
          BY <3>2, <4>1, <4>2, EntryShape DEF Conflict
      <3> QED
        BY <2>6, <3>1, <3>2, <3>3 DEF FreeKinds
    <2>8. CASE row[t] = NoEntry
      <3>1. action'[s][t].kind = FreeCell(t)
        BY <2>5, <2>8, EntryShape DEF WithAlways, FreeCell
      <3> QED
        BY <3>1 DEF FreeCell
    <2> QED
      BY <2>7, <2>8
  <1>2. CASE Filled /\ UNCHANGED <<action, states>>
    BY <1>2 DEF AlwaysInv
  <1>3. CASE ~Filled'
    BY <1>3 DEF AlwaysInv
  <1> QED
    <2>1. CASE LookaheadsNext
      <3>1. ~Filled'
        BY <2>1 DEF LookaheadsNext, AutomatonNext, Filled, FirstNext, ScanRule, NextPass, FirstDone,
             LR0Next, CloseItem, AddState, MoveOver, SkipMoved, ExpandNext, Expanding, LR0Done,
             LookaheadNext, ScanFollow, NextFollowPass, FollowDone, ScanItem, ScanNextState,
             NextLookaheadPass, LookaheadDone, firstVars
      <3> QED
        BY <3>1, <1>3
    <2>2. CASE TableNext
      <3>1. FillDone \/ ~Filled'
        BY <2>2 DEF TableNext, Filling, PlaceShifts, PlaceReduces, FillNextState, Filled,
             lookaheadsVars, automatonVars, firstVars
      <3> QED
        BY <3>1, <1>1, <1>3
    <2>3. CASE OptimizeNext
      <3>1. Filled /\ UNCHANGED <<action, states>>
        BY <2>3 DEF OptimizeNext, RedirectEntry, RedirectNextRow, NextRedirectPass, OptimizeDone,
             Optimizing, Filled, lr0Vars, automatonVars, tableVars
      <3> QED
        BY <3>1, <1>2
    <2>4. CASE UNCHANGED actionTableVars
      <3>1. (Filled /\ UNCHANGED <<action, states>>) \/ ~Filled'
        BY <2>4 DEF actionTableVars, lookaheadsVars, automatonVars, firstVars, lr0Vars, tableVars, Filled
      <3> QED
        BY <3>1, <1>2, <1>3
    <2> QED
      BY <2>1, <2>2, <2>3, <2>4 DEF UnitGotosNext, ActionTableNext

(* A terminal no rule uses finds only free cells.                           *)
LEMMA UnusedIsFree ==
  ASSUME Built, UsedInv, AlwaysInv, phase = "ready", NEW p \in 1..Len(states),
         NEW t \in TermsEOF, t \notin UsedIn(gram)
  PROVE  action[p][t].kind = FreeCell(t)
  <1>1. PICK G \in Grammars : G = gram
    BY DEF Built, LR0Inv, LR0TypeOK
  <1>2. PICK e : e = action[p][t]
    OBVIOUS
  <1>3. \A i \in ToSet(states[p]) : i.rule \in 1..Len(G) /\ (~CompleteIn(G, i) => NextSymIn(G, i) # t)
    <2> SUFFICES ASSUME NEW k \in 1..Len(states[p]), NEW i, i = states[p][k]
                 PROVE  i.rule \in 1..Len(G) /\ (~CompleteIn(G, i) => NextSymIn(G, i) # t)
      <3>1. states[p] \in Seq(ItemsIn(G))
        BY <1>1 DEF Built, LR0Inv, LR0TypeOK
      <3> QED
        BY <3>1, HoldsAt
    <2>1. i \in ItemsIn(G) /\ i.rule \in 1..Len(G)
      BY <1>1, ItemsOfState DEF Built
    <2>2. ASSUME ~CompleteIn(G, i) PROVE i.dot + 1 \in 1..Len(G[i.rule].rhs)
      <3>1. Len(G[i.rule].rhs) \in Nat /\ i.dot \in Nat
        BY <2>1, GrammarShape, ItemShape DEF ItemsIn
      <3> QED
        BY <2>2, <3>1 DEF CompleteIn
    <2> QED
      BY <1>1, <2>1, <2>2, UsedSymbols DEF NextSymIn
  <1>4. Moves(p, t) = {}
    <2> SUFFICES ASSUME NEW x \in trans, x.from = p, x.sym = t PROVE FALSE
      BY DEF Moves
    <2>1. t \in ExpectedIn(G, ToSet(states[p]))
      BY <1>1 DEF Built, LR0Inv, TransAreMoves
    <2> QED
      BY <1>3, <2>1 DEF ExpectedIn
  <1>5. ASSUME NEW k \in 1..Len(states[p]) PROVE ~Offers(p, k, t)
    <2>1. PICK i : i = states[p][k]
      OBVIOUS
    <2>2. i \in ToSet(states[p]) /\ InState(p, i)
      BY <2>1, StateShape DEF Built, InState
    <2>3. i.rule \in 1..Len(G) /\ gram[i.rule].lhs \in Heads
      BY <1>1, <1>3, <2>2, GrammarShape
    <2>4. follow[gram[i.rule].lhs] \subseteq UsedIn(gram)
      BY <2>3 DEF UsedInv
    <2>5. CASE options.slr
      BY <2>1, <2>4, <2>5 DEF Offers, ReduceOn
    <2>6. CASE ~options.slr
      <3>1. EntriesOK
        BY <2>6 DEF Built, LookaheadInv, LaInv, Early
      <3>2. ASSUME <<p, i>> \in DOMAIN la PROVE la[<<p, i>>] \subseteq Bound(i)
        BY <3>1, <3>2 DEF EntriesOK, LaOK, EntryIn
      <3>3. EOF \in UsedIn(gram)
        BY DEF UsedIn
      <3>4. Known(la, <<p, i>>) \subseteq UsedIn(gram)
        BY <2>4, <3>2, <3>3 DEF Known, Bound
      <3> QED
        BY <2>1, <2>6, <3>4 DEF Offers, ReduceOn
    <2> QED
      BY <2>5, <2>6
  <1>6. AltUpto(p, Len(states[p]), t) = {}
    BY <1>4, <1>5 DEF AltUpto
  <1>7. RowOK(p, Len(states[p]))
    BY DEF Built, TableInv, Filled
  <1>8. KeptOf(e) = {} /\ e.kind # "conflict"
    BY <1>2, <1>6, <1>7 DEF RowOK, CellOK
  <1>9. e.kind \in {"none", "error", "ignore"}
    BY <1>8 DEF KeptOf
  <1> QED
    BY <1>2, <1>9 DEF AlwaysInv, Filled

-----------------------------------------------------------------------------
(* The stack, read as a path of the automaton from its first state.         *)
StatesOf(st) == [i \in 1..Len(st) |-> st[i].state]
IsStack(st) == (\E S : st \in Seq(S)) /\ IsPath(StatesOf(st))

LEMMA StackShape ==
  ASSUME NEW st, IsStack(st)
  PROVE  /\ Len(st) \in Nat /\ Len(st) > 0 /\ Len(StatesOf(st)) = Len(st)
         /\ \A k \in 1..Len(st) : StatesOf(st)[k] = st[k].state /\ st[k].state \in Nat
  <1>1. PICK S : st \in Seq(S)
    BY DEF IsStack
  <1>2. PICK n \in Nat : n = Len(st)
    BY <1>1
  <1>3. PICK s \in Seq(Nat) : s = StatesOf(st) /\ Len(s) > 0
    BY DEF IsStack, IsPath
  <1>4. s = [i \in 1..n |-> st[i].state]
    BY <1>2, <1>3 DEF StatesOf
  <1>5. DOMAIN s = 1..n /\ DOMAIN s = 1..Len(s) /\ Len(s) \in Nat
    BY <1>3, <1>4
  <1>6. Len(s) = n
    BY <1>2, <1>5
  <1>7. \A k \in 1..n : s[k] = st[k].state /\ s[k] \in Nat
    BY <1>3, <1>4, <1>6
  <1> QED
    BY <1>2, <1>3, <1>6, <1>7

LEMMA IsStackIf ==
  ASSUME NEW S, NEW st \in Seq(S), Len(st) > 0, st[1].state = 1,
         \A k \in 1..Len(st) : st[k].state \in Nat,
         \A k \in 2..Len(st) : Step(st[k - 1].state, st[k].state)
  PROVE  IsStack(st)
  <1>1. PICK n \in Nat : n = Len(st)
    OBVIOUS
  <1>2. PICK s : s = [i \in 1..n |-> st[i].state]
    OBVIOUS
  <1>3. s \in [1..n -> Nat]
    BY <1>1, <1>2
  <1>4. s \in Seq(Nat) /\ Len(s) = n
    BY <1>3
  <1>5. \A i \in 2..n : Step(s[i - 1], s[i])
    <2> SUFFICES ASSUME NEW i \in 2..n PROVE Step(s[i - 1], s[i])
      OBVIOUS
    <2>1. s[i - 1] = st[i - 1].state /\ s[i] = st[i].state
      BY <1>2
    <2> QED
      BY <1>1, <2>1
  <1>6. s[1] = 1 /\ n > 0
    BY <1>1, <1>2
  <1>7. IsPath(s)
    BY <1>4, <1>5, <1>6 DEF IsPath
  <1> QED
    BY <1>1, <1>2, <1>7 DEF IsStack, StatesOf

LEMMA StackSteps ==
  ASSUME NEW st, IsStack(st)
  PROVE  st[1].state = 1 /\ \A k \in 2..Len(st) : Step(st[k - 1].state, st[k].state)
  <1>1. PICK s : s = StatesOf(st)
    OBVIOUS
  <1>2. PICK n \in Nat : n = Len(st) /\ n = Len(s) /\ n > 0
    BY <1>1, StackShape
  <1>3. \A k \in 1..n : s[k] = st[k].state
    BY <1>1, <1>2, StackShape
  <1>4. s[1] = 1 /\ \A k \in 2..n : Step(s[k - 1], s[k])
    BY <1>1, <1>2 DEF IsStack, IsPath
  <1> SUFFICES ASSUME NEW k \in 2..n PROVE st[1].state = 1 /\ Step(st[k - 1].state, st[k].state)
    <2>1. st[1].state = 1
      BY <1>2, <1>3, <1>4
    <2> QED
      BY <1>2, <2>1
  <1>5. k - 1 \in 1..n /\ k \in 1..n /\ 1 \in 1..n
    OBVIOUS
  <1> QED
    BY <1>3, <1>4, <1>5

(* A stack is still one when symbols are spliced off, and a frame is pushed *)
(* that its state has a transition to.                                      *)
LEMMA StackPops ==
  ASSUME NEW st, IsStack(st), NEW m \in 1..Len(st)
  PROVE  IsStack(SubSeq(st, 1, m)) /\ Len(SubSeq(st, 1, m)) = m /\ SubSeq(st, 1, m)[m] = st[m]
  <1>1. PICK S : st \in Seq(S)
    BY DEF IsStack
  <1>2. PICK n \in Nat : n = Len(st) /\ m <= n
    BY <1>1
  <1>3. PICK b : b = SubSeq(st, 1, m)
    OBVIOUS
  <1>4. b \in Seq(S) /\ Len(b) = m /\ \A k \in 1..m : b[k] = st[k]
    BY <1>1, <1>2, <1>3
  <1>5. \A k \in 1..m : b[k].state \in Nat
    BY <1>2, <1>4, StackShape
  <1>6. \A k \in 2..m : Step(b[k - 1].state, b[k].state)
    <2> SUFFICES ASSUME NEW k \in 2..m PROVE Step(b[k - 1].state, b[k].state)
      OBVIOUS
    <2>1. b[k - 1] = st[k - 1] /\ b[k] = st[k] /\ k \in 2..n
      BY <1>2, <1>4
    <2> QED
      BY <1>2, <2>1, StackSteps
  <1>7. b[1].state = 1
    BY <1>4, StackSteps
  <1>8. IsStack(b)
    BY <1>4, <1>5, <1>6, <1>7, IsStackIf
  <1> QED
    BY <1>3, <1>4, <1>8

LEMMA StackPushes ==
  ASSUME NEW st, IsStack(st), NEW f, f.state \in Nat, Step(Top(st).state, f.state)
  PROVE  IsStack(Append(st, f))
  <1>1. PICK S : st \in Seq(S)
    BY DEF IsStack
  <1>2. PICK n \in Nat : n = Len(st) /\ n > 0
    BY StackShape
  <1>3. PICK T : T = S \cup {f}
    OBVIOUS
  <1>4. st \in Seq(T) /\ f \in T
    BY <1>1, <1>3
  <1>5. PICK b : b = Append(st, f)
    OBVIOUS
  <1>6. b \in Seq(T) /\ Len(b) = n + 1 /\ b[n + 1] = f /\ \A k \in 1..n : b[k] = st[k]
    BY <1>2, <1>4, <1>5
  <1>7. \A k \in 1..(n + 1) : b[k].state \in Nat
    <2> SUFFICES ASSUME NEW k \in 1..(n + 1) PROVE b[k].state \in Nat
      OBVIOUS
    <2>1. CASE k = n + 1
      BY <1>6, <2>1
    <2>2. CASE k \in 1..n
      BY <1>2, <1>6, <2>2, StackShape
    <2> QED
      BY <2>1, <2>2
  <1>8. ASSUME NEW k \in 2..(n + 1) PROVE Step(b[k - 1].state, b[k].state)
    <2>1. CASE k = n + 1
      <3>1. b[k - 1] = st[n] /\ b[k] = f
        BY <1>2, <1>6, <2>1
      <3> QED
        BY <1>2, <3>1 DEF Top
    <2>2. CASE k \in 2..n
      <3>1. b[k - 1] = st[k - 1] /\ b[k] = st[k]
        BY <1>6, <2>2
      <3> QED
        BY <1>2, <2>2, <3>1, StackSteps
    <2> QED
      BY <2>1, <2>2
  <1>9. b[1].state = 1 /\ Len(b) > 0
    BY <1>2, <1>6, StackSteps
  <1>10. IsStack(b)
    BY <1>6, <1>7, <1>8, <1>9, IsStackIf
  <1> QED
    BY <1>5, <1>10

(* The top of a stack is a state of the automaton, and one there is.        *)
LEMMA StackTop ==
  ASSUME Built, phase = "ready", NEW st, IsStack(st)
  PROVE  Top(st).state \in 1..Len(states)
  <1>1. PICK s : s = StatesOf(st)
    OBVIOUS
  <1>2. PICK n \in Nat : n = Len(st) /\ n = Len(s) /\ n > 0 /\ s[n] = st[n].state
    BY <1>1, StackShape
  <1>3. s[n] \in 1..Len(states)
    BY <1>1, <1>2, PathStates DEF IsStack, Built
  <1> QED
    BY <1>2, <1>3 DEF Top

(* The splice of a reduce leaves a stack, and the goto pushes a frame onto  *)
(* it: the missing goto the code throws for is never missing.               *)
LEMMA ReduceOnStack ==
  ASSUME Built, phase = "ready", NEW st, IsStack(st), NEW t \in TermsEOF,
         NEW e \in KeptOf(action[Top(st).state][t]), e.kind = "reduce"
  PROVE  LET n == Len(gram[e.rule].rhs)
             below == SubSeq(st, 1, Len(st) - n)
             to == goto[Top(below).state][gram[e.rule].lhs]
         IN  to # 0 /\ \A f : f.state = to => IsStack(Append(below, f))
  <1>1. PICK s : s = StatesOf(st)
    OBVIOUS
  <1>2. PICK m \in Nat : m = Len(st) /\ m = Len(s) /\ m > 0
    BY <1>1, StackShape
  <1>3. \A k \in 1..m : s[k] = st[k].state
    BY <1>1, <1>2, StackShape
  <1>4. e \in KeptOf(action[s[m]][t])
    BY <1>2, <1>3 DEF Top
  <1>5. PICK n \in Nat : n = Len(gram[e.rule].rhs) /\ n < m
    BY <1>1, <1>2, <1>4, ReduceGoesOn DEF IsStack
  <1>6. PICK to : to = goto[s[m - n]][gram[e.rule].lhs] /\ Step(s[m - n], to) /\ to # 0
    BY <1>1, <1>2, <1>4, <1>5, ReduceGoesOn DEF IsStack
  <1>7. PICK k \in 1..m : k = m - n
    <2>1. m - n \in 1..m
      BY <1>5
    <2> QED
      BY <2>1
  <1>8. PICK below : below = SubSeq(st, 1, k)
    OBVIOUS
  <1>9. IsStack(below) /\ Top(below).state = s[k]
    <2>1. IsStack(below) /\ Len(below) = k /\ below[k] = st[k]
      BY <1>2, <1>7, <1>8, StackPops
    <2> QED
      BY <1>3, <2>1 DEF Top
  <1>10. to \in 1..Len(states)
    BY <1>6, StepBack DEF Built
  <1>11. \A f : f.state = to => IsStack(Append(below, f))
    <2> SUFFICES ASSUME NEW f, f.state = to PROVE IsStack(Append(below, f))
      OBVIOUS
    <2>1. f.state \in Nat
      BY <1>10
    <2>2. Step(Top(below).state, f.state)
      BY <1>6, <1>7, <1>9
    <2> QED
      BY <1>9, <2>1, <2>2, StackPushes
  <1> QED
    BY <1>2, <1>5, <1>6, <1>7, <1>8, <1>9, <1>11

-----------------------------------------------------------------------------
(* The terminals the lexer drops: nothing is to be done on them, anywhere.  *)
Dropped == AlwaysSkip \ AlwaysTerminals

(* What a specification is meant to skip is skipped everywhere: no rule     *)
(* uses it, no recovery inserts it, and it is not the error token.          *)
SkipsStandApart ==
  /\ \A G \in Grammars : AlwaysSkip \cap UsedIn(G) = {}
  /\ AlwaysSkip \cap RecoverTerms = {} /\ ERROR \notin AlwaysSkip

LEMMA EntryIs ==
  ASSUME AlwaysInv, phase = "ready", NEW p \in 1..Len(states), NEW t
  PROVE  /\ t \in TermsEOF => Entry(action[p], t) = action[p][t]
         /\ t \notin TermsEOF => Entry(action[p], t).kind = "none"
         /\ Entry(action[p], t).kind = "ignore" => t \in Dropped
  <1>1. DOMAIN action[p] = TermsEOF
    BY DEF AlwaysInv, Filled
  <1>2. t \notin TermsEOF => Entry(action[p], t).kind = "none"
    BY <1>1, EntryShape DEF Entry
  <1>3. t \in TermsEOF => Entry(action[p], t) = action[p][t]
    BY <1>1 DEF Entry
  <1>4. t \in TermsEOF /\ action[p][t].kind = "ignore" => t \in Dropped
    BY DEF AlwaysInv, Filled, FreeCell, Dropped
  <1> QED
    BY <1>2, <1>3, <1>4

LEMMA DroppedIsIgnored ==
  ASSUME Built, UsedInv, AlwaysInv, phase = "ready", SkipsStandApart,
         NEW p \in 1..Len(states), NEW t \in Dropped
  PROVE  Entry(action[p], t).kind = "ignore"
  <1>1. t \in TermsEOF
    BY AlwaysAssumption DEF Dropped, TermsEOF
  <1>2. t \notin UsedIn(gram)
    BY DEF SkipsStandApart, Dropped, Built, LR0Inv, LR0TypeOK
  <1>3. action[p][t].kind = FreeCell(t)
    BY <1>1, <1>2, UnusedIsFree
  <1> QED
    BY <1>1, <1>3, EntryIs DEF FreeCell, Dropped

LexerOK == input \in Seq(Lexemes) /\ offset \in 1..(Len(input) + 1)

(* The lexer stops at a lexeme it does not drop, or at the end.             *)
LEMMA StopsSomewhere ==
  ASSUME LexerOK, NEW row
  PROVE  /\ NextStop(row) \in 1..(Len(input) + 1) /\ NextStop(row) >= offset
         /\ NextStop(row) <= Len(input) => ~IgnoredAt(row, NextStop(row))
         /\ \A j \in offset..(NextStop(row) - 1) : IgnoredAt(row, j)
  <1>1. PICK n \in Nat : n = Len(input)
    BY DEF LexerOK
  <1>2. PICK o \in 1..(n + 1) : o = offset
    BY <1>1 DEF LexerOK
  <1> DEFINE S == {i \in o..(n + 1) : i <= n => ~IgnoredAt(row, i)}
  <1>3. n + 1 \in S /\ S \in SUBSET Nat
    OBVIOUS
  <1>4. PICK i \in S : \A m \in Nat : m < i => m \notin S
    <2> HIDE DEF S
    <2> QED
      BY <1>3, LeastNumber
  <1>5. \A j \in o..(i - 1) : IgnoredAt(row, j)
    BY <1>4
  <1>6. \E x \in offset..(Len(input) + 1) :
           /\ \A j \in offset..(x - 1) : IgnoredAt(row, j)
           /\ x <= Len(input) => ~IgnoredAt(row, x)
    BY <1>1, <1>2, <1>4, <1>5
  <1>7. /\ NextStop(row) \in offset..(Len(input) + 1)
        /\ NextStop(row) <= Len(input) => ~IgnoredAt(row, NextStop(row))
        /\ \A j \in offset..(NextStop(row) - 1) : IgnoredAt(row, j)
    BY <1>6 DEF NextStop
  <1> QED
    BY <1>1, <1>2, <1>7

LEMMA LexedIs ==
  ASSUME Built, UsedInv, AlwaysInv, phase = "ready", LexerOK, NEW p \in 1..Len(states)
  PROVE  /\ Lexed(action[p]).next \in 1..(Len(input) + 1)
         /\ SkipsStandApart => Lexed(action[p]).tok.type \notin Dropped
  <1>1. PICK row : row = action[p]
    OBVIOUS
  <1>2. PICK n \in Nat : n = Len(input)
    BY DEF LexerOK
  <1>3. PICK i \in 1..(n + 1) : i = NextStop(row) /\ (i <= n => ~IgnoredAt(row, i))
    BY <1>2, StopsSomewhere
  <1>4. EOF \notin Dropped /\ (SkipsStandApart => ERROR \notin Dropped)
    BY AlwaysAssumption, SymbolsAssumption DEF Dropped, SkipsStandApart
  <1>5. CASE i > n
    <2>1. Lexed(row) = [tok |-> [type |-> EOF, at |-> i], next |-> i]
      BY <1>2, <1>3, <1>5 DEF Lexed
    <2> QED
      BY <1>1, <1>2, <1>3, <1>4, <2>1
  <1>6. CASE i <= n /\ CandidatesAt(row, i) = <<>>
    <2>1. Lexed(row) = [tok |-> [type |-> ERROR, at |-> i], next |-> i]
      BY <1>2, <1>3, <1>6 DEF Lexed
    <2> QED
      BY <1>1, <1>2, <1>3, <1>4, <2>1
  <1>7. CASE i <= n /\ CandidatesAt(row, i) # <<>>
    <2>1. PICK t : t = CandidatesAt(row, i)[1]
      OBVIOUS
    <2>2. Lexed(row) = [tok |-> [type |-> t, at |-> i], next |-> i + 1]
      BY <1>2, <1>3, <1>7, <2>1 DEF Lexed
    <2>3. Entry(row, t).kind # "ignore"
      BY <1>3, <1>7, <2>1 DEF IgnoredAt
    <2>4. SkipsStandApart => t \notin Dropped
      BY <1>1, <2>3, DroppedIsIgnored
    <2> QED
      BY <1>1, <1>2, <1>3, <1>7, <2>2, <2>4
  <1> QED
    BY <1>2, <1>3, <1>5, <1>6, <1>7

-----------------------------------------------------------------------------
(* Wherever the driver is, the tables are those of a finished construction  *)
(* and the stack is a path of the automaton; and with the skips apart the   *)
(* token in hand is none that is dropped, so that it meets no ignore entry. *)
Driving == mode # "idle" => phase = "ready" /\ IsStack(stack)
TokenStands == SkipsStandApart /\ mode = "parse" => realTok.type \notin Dropped
Unharmed == SkipsStandApart => NeverCrashes
Unread == mode = "idle" => offset = 1

ParserInv == Unread /\ Driving /\ LexerOK /\ TokenStands /\ Unharmed
Parsing == Built /\ UsedInv /\ AlwaysInv /\ ParserInv

LEMMA TablesStand ==
  ASSUME UNCHANGED actionTableVars
  PROVE  \A st : IsStack(st)' <=> IsStack(st)
  <1>1. trans' = trans
    BY DEF actionTableVars, lookaheadsVars, automatonVars, lr0Vars
  <1>2. \A p, q : Step(p, q)' <=> Step(p, q)
    BY <1>1 DEF Step, HasTrans, Target
  <1>3. \A s : IsPath(s)' <=> IsPath(s)
    BY <1>2 DEF IsPath
  <1> QED
    BY <1>3 DEF IsStack, StatesOf

(* What Act does on the token the loop settled on.                          *)
LEMMA ActIs ==
  ASSUME Parsing, mode = "parse", NEW tok, NEW isReal, Act(tok, isReal)
  PROVE  /\ IsStack(stack')
         /\ mode' \in {"parse", "fork", "accepted", "crashed"}
         /\ mode' = "crashed" => stack' = stack /\ Entry(Row, tok.type).kind = "ignore"
         /\ KeepsToken \/ \E p \in 1..Len(states) : Advances(action[p])
  <1>1. phase = "ready" /\ IsStack(stack) /\ Built /\ AlwaysInv
    BY DEF Parsing, ParserInv, Driving
  <1>2. PICK p \in 1..Len(states) : p = Top(stack).state /\ Row = action[p]
    BY <1>1, StackTop DEF Row
  <1>3. PICK t : t = tok.type
    OBVIOUS
  <1>4. PICK e : e = Entry(action[p], t) /\ e = Entry(Row, tok.type)
    BY <1>2, <1>3
  <1>5. e.kind \in {"shift", "reduce"} => t \in TermsEOF /\ e \in KeptOf(action[p][t])
    <2> SUFFICES ASSUME e.kind \in {"shift", "reduce"} PROVE t \in TermsEOF /\ e \in KeptOf(action[p][t])
      OBVIOUS
    <2>1. t \in TermsEOF /\ e = action[p][t]
      BY <1>1, <1>2, <1>4, EntryIs
    <2>2. KeptOf(e) = {e}
      BY KeptShape
    <2> QED
      BY <2>1, <2>2
  <1>6. CASE e.kind = "shift" /\ ShiftTok(tok, isReal, e.to)
    <2>1. Step(p, e.to)
      BY <1>1, <1>2, <1>5, <1>6, ShiftIsAMove
    <2>2. e.to \in 1..Len(states)
      BY <1>1, <2>1, StepBack DEF Built
    <2>3. PICK f : f.state = e.to /\ stack' = Append(stack, f)
      <3>1. PICK f : f = [state |-> e.to, value |-> Leaf(tok), span |-> RealSpan(tok)]
        OBVIOUS
      <3> QED
        BY <1>6, <3>1 DEF ShiftTok
    <2>4. IsStack(stack')
      BY <1>1, <1>2, <2>1, <2>2, <2>3, StackPushes
    <2>5. mode' = "parse" /\ (KeepsToken \/ Advances(action[e.to]))
      BY <1>6 DEF ShiftTok
    <2> QED
      BY <2>2, <2>4, <2>5
  <1>7. CASE e.kind = "reduce" /\ ReduceBy(e.rule)
    <2>1. PICK n : n = Len(gram[e.rule].rhs)
      OBVIOUS
    <2>2. PICK below : below = SubSeq(stack, 1, Len(stack) - n)
      OBVIOUS
    <2>3. PICK to : to = goto[Top(below).state][gram[e.rule].lhs]
      OBVIOUS
    <2>4. to # 0 /\ \A f : f.state = to => IsStack(Append(below, f))
      <3>1. PICK st : st = stack
        OBVIOUS
      <3> QED
        BY <1>1, <1>2, <1>5, <1>7, <2>1, <2>2, <2>3, <3>1, ReduceOnStack
    <2>5. /\ mode' = mode /\ KeepsToken
          /\ \E f : f.state = to /\ stack' = Append(below, f)
      <3>1. PICK kids : kids = SubSeq(stack, Len(stack) - n + 1, Len(stack))
        OBVIOUS
      <3>2. PICK f : f = [state |-> to, value |-> RuleValue(e.rule, kids), span |-> SpanOf(kids)]
        OBVIOUS
      <3>3. stack' = Append(below, f) /\ mode' = mode /\ KeepsToken
        BY <1>7, <2>1, <2>2, <2>3, <2>4, <3>1, <3>2 DEF ReduceBy, GotoFrom
      <3> QED
        BY <3>2, <3>3
    <2> QED
      BY <2>4, <2>5
  <1>8. CASE e.kind = "accept" /\ AcceptNow
    BY <1>1, <1>8 DEF AcceptNow
  <1>9. CASE e.kind = "conflict" /\ EnterFork(tok)
    BY <1>1, <1>9 DEF EnterFork
  <1>10. CASE e.kind = "ignore" /\ InternalError
    BY <1>1, <1>4, <1>10 DEF InternalError
  <1> QED
    BY <1>4, <1>6, <1>7, <1>8, <1>9, <1>10 DEF Act

LEMMA CallStep ==
  ASSUME Parsing, Call, UNCHANGED actionTableVars
  PROVE  ParserInv'
  <1>1. /\ phase = "ready" /\ phase' = "ready" /\ mode' = "lex" /\ offset' = offset
        /\ mode = "idle"
    BY DEF Call, actionTableVars, lookaheadsVars, automatonVars, firstVars
  <1>2. PICK n \in Nat : input' \in [1..n -> Lexemes]
    BY DEF Call
  <1>3. PICK text \in Seq(Lexemes) : text = input' /\ Len(text) \in Nat
    BY <1>2
  <1>4. PICK st : st = stack'
    OBVIOUS
  <1>5. PICK frame : frame = [state |-> 1, value |-> Undefined, span |-> <<>>]
    OBVIOUS
  <1>6. st = <<frame>>
    BY <1>4, <1>5 DEF Call
  <1>7. IsStack(st)
    <2>1. st \in Seq({frame}) /\ Len(st) = 1 /\ st[1].state = 1
      BY <1>5, <1>6
    <2> QED
      BY <2>1, IsStackIf
  <1>8. Driving'
    BY <1>1, <1>4, <1>7, TablesStand DEF Driving
  <1>9. LexerOK'
    <2>1. offset = 1
      BY <1>1 DEF Parsing, ParserInv, LexerOK, Unread
    <2> QED
      BY <1>1, <1>3, <2>1 DEF LexerOK
  <1>10. Unread'
    BY <1>1 DEF Unread
  <1> QED
    BY <1>1, <1>8, <1>9, <1>10 DEF ParserInv, TokenStands, Unharmed, NeverCrashes

(* Any step that leaves the tables, the text and the stack's being one.     *)
LEMMA ActStep ==
  ASSUME Parsing, mode = "parse", UNCHANGED actionTableVars, input' = input,
         NEW tok, NEW isReal, Act(tok, isReal),
         SkipsStandApart => tok.type \notin Dropped
  PROVE  ParserInv'
  <1>1. /\ phase = "ready" /\ phase' = "ready" /\ action' = action /\ states' = states
        /\ Built /\ UsedInv /\ AlwaysInv /\ LexerOK /\ IsStack(stack)
    BY DEF Parsing, ParserInv, Driving, actionTableVars, lookaheadsVars, automatonVars, firstVars,
           lr0Vars, tableVars
  <1>2. /\ IsStack(stack')
        /\ mode' \in {"parse", "fork", "accepted", "crashed"}
        /\ mode' = "crashed" => stack' = stack /\ Entry(Row, tok.type).kind = "ignore"
        /\ KeepsToken \/ \E p \in 1..Len(states) : Advances(action[p])
    BY ActIs
  <1>3. Driving'
    <2>1. PICK st : st = stack'
      OBVIOUS
    <2> QED
      BY <1>1, <1>2, <2>1, TablesStand DEF Driving
  <1>4. LexerOK' /\ (SkipsStandApart => realTok'.type \notin Dropped)
    <2>1. CASE KeepsToken
      BY <1>1, <2>1 DEF KeepsToken, LexerOK, Parsing, ParserInv, TokenStands
    <2>2. ASSUME NEW p \in 1..Len(states), Advances(action[p])
          PROVE  LexerOK' /\ (SkipsStandApart => realTok'.type \notin Dropped)
      <3>1. /\ Lexed(action[p]).next \in 1..(Len(input) + 1)
            /\ SkipsStandApart => Lexed(action[p]).tok.type \notin Dropped
        BY <1>1, LexedIs
      <3> QED
        BY <1>1, <2>2, <3>1 DEF Advances, LexerOK
    <2> QED
      BY <1>2, <2>1, <2>2
  <1>5. Unharmed'
    <2> SUFFICES ASSUME mode' = "crashed" PROVE ~SkipsStandApart
      BY DEF Unharmed, NeverCrashes
    <2>1. PICK t : t = tok.type
      OBVIOUS
    <2>2. t \in Dropped
      BY <1>1, <1>2, <2>1, EntryIs, StackTop DEF Row
    <2> QED
      BY <2>1, <2>2
  <1>6. Unread'
    BY <1>2 DEF Unread
  <1> QED
    BY <1>3, <1>4, <1>5, <1>6 DEF ParserInv, TokenStands

LEMMA ParserStep ==
  ASSUME Parsing, ParserNext, UNCHANGED actionTableVars
  PROVE  ParserInv'
  <1>1. /\ mode # "idle" => phase = "ready" /\ phase' = "ready" /\ IsStack(stack)
        /\ Built /\ UsedInv /\ AlwaysInv /\ LexerOK
    BY DEF Parsing, ParserInv, Driving, actionTableVars, lookaheadsVars, automatonVars, firstVars
  <1>2. CASE Call
    BY <1>2, CallStep
  <1>3. CASE LexFirst
    <2>1. /\ mode = "lex" /\ mode' = "parse" /\ stack' = stack /\ input' = input
          /\ Advances(action[1])
      BY <1>3 DEF LexFirst
    <2>2. 1 \in 1..Len(states)
      BY <1>1, <2>1, FirstStateItems DEF Built
    <2>3. /\ Lexed(action[1]).next \in 1..(Len(input) + 1)
          /\ SkipsStandApart => Lexed(action[1]).tok.type \notin Dropped
      BY <1>1, <2>1, <2>2, LexedIs
    <2>4. LexerOK' /\ TokenStands'
      BY <1>1, <2>1, <2>3 DEF Advances, LexerOK, TokenStands
    <2>5. Driving'
      <3>1. PICK st : st = stack'
        OBVIOUS
      <3> QED
        BY <1>1, <2>1, <3>1, TablesStand DEF Driving
    <2> QED
      BY <2>1, <2>4, <2>5 DEF ParserInv, Unharmed, NeverCrashes, Unread
  <1>4. CASE StepReal
    <2>1. PICK tok : tok = realTok
      OBVIOUS
    <2>2. mode = "parse" /\ input' = input /\ Act(tok, TRUE)
      BY <1>4, <2>1 DEF StepReal
    <2>3. SkipsStandApart => tok.type \notin Dropped
      BY <2>1, <2>2 DEF Parsing, ParserInv, TokenStands
    <2> QED
      BY <2>2, <2>3, ActStep
  <1>5. CASE StepSyntheticEnd
    <2>1. PICK tok : tok = [type |-> EOF, at |-> 0]
      OBVIOUS
    <2>2. mode = "parse" /\ input' = input /\ Act(tok, FALSE)
      BY <1>5, <2>1 DEF StepSyntheticEnd
    <2>3. tok.type \notin Dropped
      BY <2>1, AlwaysAssumption, SymbolsAssumption DEF Dropped
    <2> QED
      BY <2>2, <2>3, ActStep
  <1>6. CASE StepRecover
    <2>1. PICK t \in RecoverTerms : Act([type |-> t, at |-> 0], FALSE)
      BY <1>6 DEF StepRecover
    <2>2. PICK tok : tok = [type |-> t, at |-> 0]
      OBVIOUS
    <2>3. mode = "parse" /\ input' = input /\ Act(tok, FALSE)
      BY <1>6, <2>1, <2>2 DEF StepRecover
    <2>4. SkipsStandApart => tok.type \notin Dropped
      BY <2>2 DEF SkipsStandApart, Dropped
    <2> QED
      BY <2>3, <2>4, ActStep
  <1>7. CASE Fail
    <2>1. /\ mode = "parse" /\ mode' = "failed" /\ stack' = stack /\ input' = input
          /\ offset' = offset
      BY <1>7 DEF Fail
    <2>2. Driving'
      <3>1. PICK st : st = stack'
        OBVIOUS
      <3> QED
        BY <1>1, <2>1, <3>1, TablesStand DEF Driving
    <2> QED
      BY <1>1, <2>1, <2>2 DEF ParserInv, TokenStands, Unharmed, NeverCrashes,
                              LexerOK, Unread
  <1> QED
    BY <1>2, <1>3, <1>4, <1>5, <1>6, <1>7 DEF ParserNext

LEMMA ParsingStep ==
  ASSUME Parsing, [LRParserNext]_lrParserVars
  PROVE  Parsing'
  <1>1. [UnitGotosNext]_actionTableVars
    BY DEF LRParserNext, lrParserVars
  <1>2. Built' /\ UsedInv' /\ AlwaysInv'
    BY <1>1, BuiltStep, UsedStep, AlwaysStep DEF Parsing
  <1>3. CASE ParserNext /\ UNCHANGED actionTableVars
    BY <1>2, <1>3, ParserStep DEF Parsing
  <1>4. CASE UNCHANGED parserVars
    <2> SUFFICES ParserInv'
      BY <1>2 DEF Parsing
    <2>1. /\ mode' = mode /\ stack' = stack /\ input' = input /\ offset' = offset
          /\ realTok' = realTok
      BY <1>4 DEF parserVars
    <2>2. CASE mode = "idle"
      BY <2>1, <2>2 DEF Parsing, ParserInv, Driving, LexerOK, TokenStands, Unharmed,
                        NeverCrashes, Unread
    <2>3. CASE mode # "idle"
      <3>1. phase = "ready" /\ IsStack(stack)
        BY <2>3 DEF Parsing, ParserInv, Driving
      <3>2. UNCHANGED actionTableVars
        BY <1>1, <3>1, ReadyStays
      <3>3. phase' = phase /\ action' = action
        BY <3>2 DEF actionTableVars, lookaheadsVars, automatonVars, firstVars, tableVars
      <3>4. Driving'
        <4>1. PICK st : st = stack'
          OBVIOUS
        <4> QED
          BY <2>1, <3>1, <3>2, <3>3, <4>1, TablesStand DEF Driving
      <3> QED
        BY <2>1, <3>4 DEF Parsing, ParserInv, LexerOK, TokenStands, Unharmed, NeverCrashes, Unread
    <2> QED
      BY <2>2, <2>3
  <1> QED
    BY <1>3, <1>4 DEF LRParserNext, lrParserVars

LEMMA ParsingStart ==
  ASSUME LRParserInit
  PROVE  Parsing
  <1>1. ActionTableInit /\ mode = "idle" /\ input = <<>> /\ offset = 1
    BY DEF LRParserInit, ParserInit
  <1>2. <<>> \in Seq(Lexemes) /\ Len(<<>>) = 0
    OBVIOUS
  <1>3. LexerOK
    BY <1>1, <1>2 DEF LexerOK
  <1>4. AlwaysInv
    BY <1>1 DEF AlwaysInv, Filled, ActionTableInit, LookaheadsInit, AutomatonInit, FirstInit
  <1>5. ParserInv
    BY <1>1, <1>3 DEF ParserInv, Driving, TokenStands, Unharmed, NeverCrashes, Unread
  <1> QED
    BY <1>1, <1>4, <1>5, BuiltStart, UsedStart DEF Parsing

LEMMA ParsingAlways == LRParserSpec => []Parsing
  <1>1. LRParserInit => Parsing
    BY ParsingStart
  <1>2. Parsing /\ [LRParserNext]_lrParserVars => Parsing'
    BY ParsingStep
  <1> QED
    BY <1>1, <1>2, PTL DEF LRParserSpec

(* From the call to its end, whatever recovery inserts and however deep a   *)
(* reduce splices, runParser's stack spells a path of the automaton: every  *)
(* frame's state is one its predecessor has a transition to, bypassed unit  *)
(* reduces included.                                                        *)
THEOREM StackIsAPath == LRParserSpec => [](mode # "idle" => IsStack(stack))
  <1>1. Parsing => (mode # "idle" => IsStack(stack))
    BY DEF Parsing, ParserInv, Driving
  <1> QED
    BY <1>1, ParsingAlways, PTL

(* runParser throws an internal error only on an ignore entry, of the       *)
(* lookahead or of what recovery answered: the other one it has a message   *)
(* for, a reduce whose goto is missing, never happens.                      *)
CrashIsASkip ==
  mode # "crashed" /\ mode' = "crashed" =>
    \E t \in AlwaysSkip \cap ({realTok.type} \cup RecoverTerms) : Entry(Row, t).kind = "ignore"

(* For every grammar and text, the driver stops with an internal error only *)
(* by a skip token its tables say to ignore.                                *)
THEOREM OnlySkipsCrash == LRParserSpec => [][CrashIsASkip]_lrParserVars
  <1>1. ASSUME Parsing, [LRParserNext]_lrParserVars PROVE CrashIsASkip
    <2> SUFFICES ASSUME mode # "crashed", mode' = "crashed"
                 PROVE  \E t \in AlwaysSkip \cap ({realTok.type} \cup RecoverTerms) :
                          Entry(Row, t).kind = "ignore"
      BY DEF CrashIsASkip
    <2>1. StepReal \/ StepSyntheticEnd \/ StepRecover
      BY <1>1 DEF LRParserNext, lrParserVars, parserVars, ParserNext, Call, LexFirst, Fail
    <2>2. /\ mode = "parse" /\ AlwaysInv /\ phase = "ready"
          /\ \E p \in 1..Len(states) : Row = action[p]
      <3>1. mode = "parse"
        BY <2>1 DEF StepReal, StepSyntheticEnd, StepRecover
      <3> QED
        BY <1>1, <3>1, StackTop DEF Parsing, ParserInv, Driving, Row
    <2>3. PICK tok, isReal : /\ Act(tok, isReal)
                             /\ tok.type \in {EOF, realTok.type} \cup RecoverTerms
      <3>1. CASE StepReal
        <4>1. PICK tok : tok = realTok
          OBVIOUS
        <4>2. Act(tok, TRUE)
          BY <3>1, <4>1 DEF StepReal
        <4> QED
          BY <4>1, <4>2
      <3>2. CASE StepSyntheticEnd
        <4>1. PICK tok : tok = [type |-> EOF, at |-> 0]
          OBVIOUS
        <4>2. PICK isReal : isReal = FALSE
          OBVIOUS
        <4>3. Act(tok, isReal) /\ tok.type = EOF
          BY <3>2, <4>1, <4>2 DEF StepSyntheticEnd
        <4> QED
          BY <4>3
      <3>3. CASE StepRecover
        <4>1. PICK t \in RecoverTerms : Act([type |-> t, at |-> 0], FALSE)
          BY <3>3 DEF StepRecover
        <4>2. PICK tok : tok = [type |-> t, at |-> 0]
          OBVIOUS
        <4>3. PICK isReal : isReal = FALSE
          OBVIOUS
        <4>4. Act(tok, isReal) /\ tok.type = t
          BY <4>1, <4>2, <4>3
        <4> QED
          BY <4>4
      <3> QED
        BY <2>1, <3>1, <3>2, <3>3
    <2>4. PICK t : t = tok.type
      OBVIOUS
    <2>5. Entry(Row, t).kind = "ignore"
      BY <1>1, <2>2, <2>3, <2>4, ActIs
    <2>6. t \in Dropped
      BY <2>2, <2>5, EntryIs
    <2>7. t # EOF
      BY <2>6, AlwaysAssumption, SymbolsAssumption DEF Dropped
    <2> QED
      BY <2>3, <2>4, <2>5, <2>6, <2>7 DEF Dropped
  <1> QED
    BY <1>1, ParsingAlways, PTL DEF LRParserSpec

(* And where the skipped terminals are used by no rule, it meets none: the  *)
(* internal errors of runParser are unreachable, as the comment at          *)
(* lalr.ts:718 has it.                                                      *)
THEOREM RunParserNeverCrashes ==
  ASSUME SkipsStandApart
  PROVE  LRParserSpec => []NeverCrashes
  <1>1. Parsing => NeverCrashes
    BY DEF Parsing, ParserInv, Unharmed
  <1> QED
    BY <1>1, ParsingAlways, PTL
=============================================================================
