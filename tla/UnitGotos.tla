----------------------------- MODULE UnitGotos -----------------------------
(***************************************************************************)
(* The unit-rule GOTO bypass of eliminateUnitGotos (lalr.ts): a goto that  *)
(* lands on a state which can only reduce a pass-through unit rule goes    *)
(* where that reduce would lead, row by row in place until nothing moves   *)
(* or the guard runs out.  Shift targets are never rewritten.              *)
(***************************************************************************)
EXTENDS ActionTable

CONSTANT RedirectGuard   \* the passes the loop may make, 100 in the code

ASSUME RedirectGuardAssumption == RedirectGuard \in Nat \ {0}

(* Faulty scans of a row: one passes over whatever is not a reduce, one is  *)
(* put off by the entries that are only there for the lexer.                *)
ReducesOf(s) == {action[s][t].rule : t \in {t \in TermsEOF : action[s][t].kind = "reduce"}}
EverythingIn(s) ==
  {IF action[s][t].kind = "reduce" THEN action[s][t].rule ELSE 0 :
     t \in {t \in TermsEOF : action[s][t] # NoEntry}}

(* The rules a state's actions reduce by; 0 stands for anything else they   *)
(* do.  Entries that are only lexed do not count.                           *)
RulesOf(s) ==
  {IF action[s][t].kind = "reduce" THEN action[s][t].rule ELSE 0 :
     t \in {t \in TermsEOF : action[s][t].kind \notin {"none", "ignore", "error"}}}

(* A rule whose reduce does nothing but rename.                             *)
Renames(r) == /\ gram[r].identity /\ ~gram[r].merge
              /\ Len(gram[r].rhs) = 1 /\ gram[r].rhs[1] \in Heads

(* bypass.get(s): the nonterminal a pass-through state forwards to. *)
Forwards(s, A) ==
  /\ \A B \in Heads : goto[s][B] = 0
  /\ \E r \in 1..Len(gram) : RulesOf(s) = {r} /\ Renames(r) /\ gram[r].lhs = A

(* The first item of the row's state that has its next nonterminal: the     *)
(* goto row lists its keys in that order.                                   *)
KeyAt(s, k) ==
  /\ ~Complete(states[s][k])
  /\ NextSym(states[s][k]) \in Heads
  /\ \A j \in 1..(k - 1) : Complete(states[s][j]) \/ NextSym(states[s][j]) # NextSym(states[s][k])

(* Where goto[s][A] is redirected, or 0. *)
Redirect(s, A) ==
  LET onto == {goto[s][B] : B \in {B \in Heads \ {A} : Forwards(goto[s][A], B)}}
              \ {0, goto[s][A]}
  IN  IF onto = {} THEN 0 ELSE CHOOSE t \in onto : TRUE

Optimizing == phase = "optimize" /\ scanState <= Len(states)

(* One `for (const [nt, target] of gotoRow)`. *)
RedirectEntry ==
  /\ Optimizing
  /\ scanItem <= Len(states[scanState])
  /\ LET A == NextSym(states[scanState][scanItem])
         to == IF KeyAt(scanState, scanItem) THEN Redirect(scanState, A) ELSE 0
     IN  IF to = 0 THEN UNCHANGED <<goto, changed>>
         ELSE /\ goto' = [goto EXCEPT ![scanState][A] = to]
              /\ changed' = TRUE
  /\ scanItem' = scanItem + 1
  /\ UNCHANGED <<gram, first, nullable, ruleIx, phase, lr0Vars>>
  /\ UNCHANGED <<options, follow, la, scanState, pass, action, conflicts>>

RedirectNextRow ==
  /\ Optimizing
  /\ scanItem > Len(states[scanState])
  /\ scanState' = scanState + 1
  /\ scanItem' = 1
  /\ UNCHANGED <<options, follow, la, pass>>
  /\ UNCHANGED <<automatonVars, tableVars>>

(* A faulty loop with neither the guard nor the reset. *)
NextRedirectPassForever ==
  /\ phase = "optimize"
  /\ scanState > Len(states)
  /\ changed
  /\ scanState' = 1
  /\ scanItem' = 1
  /\ UNCHANGED <<options, follow, la, pass>>
  /\ UNCHANGED <<automatonVars, tableVars>>

(* `changed && guard--`: another pass. *)
NextRedirectPass ==
  /\ phase = "optimize"
  /\ scanState > Len(states)
  /\ changed
  /\ pass < RedirectGuard
  /\ changed' = FALSE
  /\ scanState' = 1
  /\ scanItem' = 1
  /\ pass' = pass + 1
  /\ UNCHANGED <<gram, first, nullable, ruleIx, phase, lr0Vars>>
  /\ UNCHANGED <<options, follow, la, tableVars>>

OptimizeDone ==
  /\ phase = "optimize"
  /\ scanState > Len(states)
  /\ ~changed \/ pass >= RedirectGuard
  /\ phase' = "ready"
  /\ UNCHANGED <<gram, first, nullable, ruleIx, changed, lr0Vars>>
  /\ UNCHANGED <<lookaheadVars, tableVars>>

OptimizeNext == RedirectEntry \/ RedirectNextRow \/ NextRedirectPass \/ OptimizeDone

UnitGotosNext == ActionTableNext \/ OptimizeNext

(* makeParser is straight-line code: it runs until it returns. *)
UnitGotosSpec == ActionTableInit /\ [][UnitGotosNext]_actionTableVars
                   /\ WF_actionTableVars(UnitGotosNext)
-----------------------------------------------------------------------------
(* A state that does one thing whatever comes: reduce the rule A -> B, and  *)
(* hand on B's value as it is.                                              *)
OnlyRenames(s, A, B) ==
  \E r \in 1..Len(gram) :
    /\ gram[r].lhs = A /\ gram[r].rhs = <<B>>
    /\ gram[r].identity /\ ~gram[r].merge
    /\ \A t \in TermsEOF : Kept(s, t) \subseteq {Reduce(r)}
    /\ \E t \in TermsEOF : Kept(s, t) # {}

(* The states a goto may stand for: where the automaton goes on B, and      *)
(* where it goes on A from a state that only renames B to A.                *)
Standing(s, A) ==
  LET grow[n \in 0..Cardinality(Heads)] ==
        IF n = 0 THEN {<<A, Target(s, A)>>}
        ELSE grow[n - 1] \cup
               UNION {{<<B, Target(s, B)>> : B \in {B \in Heads :
                         HasTrans(s, B) /\ OnlyRenames(p[2], B, p[1])}} : p \in grow[n - 1]}
  IN  {p[2] : p \in grow[Cardinality(Heads)]}

(* A redirected goto skips nothing but renaming: it ends where the raw      *)
(* tables end after reducing pass-through unit rules only, so no action, no *)
(* merge hook and no other alternative is bypassed, however the redirects   *)
(* of a pass feed on one another.                                           *)
RedirectsSkipOnlyRenames ==
  Filled => \A s \in 1..Len(states), A \in Heads :
    IF HasTrans(s, A) THEN goto[s][A] \in Standing(s, A) ELSE goto[s][A] = 0

(* Nothing is left to skip: no goto still lands on a state that can only    *)
(* rename when there is another place the renaming leads to - and the first *)
(* pass found them all, the others are there to see that nothing moves.     *)
NothingLeftToSkip ==
  /\ phase = "optimize" /\ pass > 1 => ~changed
  /\ phase = "ready" /\ options.optimize =>
       \A s \in 1..Len(states), A, B \in Heads :
         A # B /\ goto[s][A] # 0 /\ OnlyRenames(goto[s][A], B, A) =>
           goto[s][B] \in {0, goto[s][A]}

(* The passes over the states suffice: those of the propagation stay under  *)
(* its limit, and one over the gotos leaves nothing to skip.                *)
PassesSuffice == PassesWithinLimit /\ NothingLeftToSkip

(* Chained, mutual or cyclic unit rules do not keep makeParser busy. *)
MakeParserReturns == <>(phase = "ready")
=============================================================================
