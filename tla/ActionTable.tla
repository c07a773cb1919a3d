---------------------------- MODULE ActionTable ----------------------------
(***************************************************************************)
(* The tables of buildLALR (lalr.ts): a row of actions and a row of gotos  *)
(* per state.  Shifts and the accept are placed first, then each complete  *)
(* item offers its reduce on every one of its lookaheads, and setAction    *)
(* decides what a cell that is already taken keeps.                        *)
(***************************************************************************)
EXTENDS Lookaheads

CONSTANTS
  AlwaysTerminals,   \* spec.terminals: lexed in every state
  AlwaysSkip         \* spec.skip: lexed and dropped in every state

ASSUME AlwaysAssumption == AlwaysTerminals \cup AlwaysSkip \subseteq Terminals

VARIABLES
  action,     \* action[state][terminal]; the "none" entry where the row has no key
  goto,       \* goto[state][nonterminal]; 0 where the row has no key
  conflicts   \* the conflict reports

tableVars == <<action, goto, conflicts>>

NoEntry == [kind |-> "none"]
Accept == [kind |-> "accept"]
Shift(s) == [kind |-> "shift", to |-> s]
Reduce(r) == [kind |-> "reduce", rule |-> r]
Conflict(e, f) == [kind |-> "conflict", entries |-> <<e, f>>]

TableInit == action = <<>> /\ goto = <<>> /\ conflicts = {}

(* shiftRule[s].get(t)?.prec: the precedence of the first item, in the      *)
(* closure's order, that shifts t; NoPrec when there is none.               *)
ShiftPrec(s, t) ==
  LET Shifts(k) == ~Complete(states[s][k]) /\ NextSym(states[s][k]) = t
      at == {k \in 1..Len(states[s]) : Shifts(k)}
      foremost == CHOOSE k \in at : \A j \in at : k <= j
  IN  IF at = {} THEN NoPrec ELSE gram[states[s][foremost].rule].prec
-----------------------------------------------------------------------------
(* setAction, shift against reduce.  A faulty one reduces under an equal    *)
(* right-associative precedence too.                                        *)
ReduceWinsTies(sp, rp) == rp.level >= sp.level
ReduceWins(sp, rp) == rp.level > sp.level \/ (rp.level = sp.level /\ sp.assoc = "left")
ShiftWins(sp, rp)  == rp.level < sp.level \/ (rp.level = sp.level /\ sp.assoc = "right")

ShiftReduce(shift, r, sp) ==
  LET rp == gram[r].prec
      forks == [entry |-> Conflict(shift, Reduce(r)), report |-> "conflict"]
  IN  IF "fork" \in {sp.assoc, rp.assoc} THEN forks
      ELSE IF NoPrec \in {sp, rp} THEN [entry |-> shift, report |-> "auto"]
      ELSE IF ReduceWins(sp, rp) THEN [entry |-> Reduce(r), report |-> "shift-reduce"]
      ELSE IF ShiftWins(sp, rp) THEN [entry |-> shift, report |-> "shift-reduce"]
      ELSE forks

(* setAction, reduce against reduce. *)
ReduceReduce(held, r) ==
  IF "fork" \in {gram[held].prec.assoc, gram[r].prec.assoc}
  THEN [entry |-> Conflict(Reduce(held), Reduce(r)), report |-> "conflict"]
  ELSE [entry |-> Reduce(IF held < r THEN held ELSE r), report |-> "reduce-reduce"]

(* setAction for an incoming reduce: the cell's entry and the report, "none" *)
(* when nothing is reported.  An accept and a conflict keep the cell.       *)
SetReduce(existing, r, sp) ==
  CASE existing.kind = "none"   -> [entry |-> Reduce(r), report |-> "none"]
    [] existing.kind = "shift"  -> ShiftReduce(existing, r, sp)
    [] existing.kind = "reduce" -> ReduceReduce(existing.rule, r)
    [] OTHER                    -> [entry |-> existing, report |-> "none"]

(* The outcomes no report is pushed for; a faulty setAction is silent about *)
(* its default shifts.                                                      *)
SilentDefaults == {"none", "auto"}
Unreported == {"none"}
Filling == phase = "fill" /\ scanState <= Len(states)

(* The loop over lr0Trans[s]: no two transitions share a cell. *)
PlaceShifts ==
  /\ Filling
  /\ Len(action) < scanState
  /\ action' = Append(action, [t \in TermsEOF |->
       IF ~HasTrans(scanState, t) THEN NoEntry
       ELSE IF t = EOF THEN Accept ELSE Shift(Target(scanState, t))])
  /\ goto' = Append(goto, [A \in Heads |->
       IF HasTrans(scanState, A) THEN Target(scanState, A) ELSE 0])
  /\ UNCHANGED conflicts
  /\ UNCHANGED lookaheadsVars

(* The items that offer a reduce. *)
Reduces(item) == Complete(item) /\ gram[item.rule].lhs # ACCEPT

(* One complete item: setAction on each of its lookaheads. *)
PlaceReduces ==
  /\ Filling
  /\ Len(action) = scanState
  /\ scanItem <= Len(states[scanState])
  /\ LET item == states[scanState][scanItem]
         on == IF Reduces(item) THEN ReduceOn(scanState, item) ELSE {}
         row == action[scanState]
         set == [t \in on |-> SetReduce(row[t], item.rule, ShiftPrec(scanState, t))]
     IN  /\ action' = [action EXCEPT ![scanState] =
                         [t \in TermsEOF |-> IF t \in on THEN set[t].entry ELSE row[t]]]
         /\ conflicts' = conflicts \cup
              {[state |-> scanState, term |-> t, kind |-> set[t].report] :
                 t \in {t \in on : set[t].report \notin Unreported}}
  /\ scanItem' = scanItem + 1
  /\ UNCHANGED <<goto, options, follow, la, scanState, pass>>
  /\ UNCHANGED automatonVars

FillNextState ==
  /\ Filling
  /\ Len(action) = scanState
  /\ scanItem > Len(states[scanState])
  /\ scanState' = scanState + 1
  /\ scanItem' = 1
  /\ UNCHANGED <<options, follow, la, pass>>
  /\ UNCHANGED <<automatonVars, tableVars>>

(* fillAlwaysEntries: terminals first, then skips, into the free cells. *)
WithAlways(row) ==
  [t \in TermsEOF |->
     IF row[t] # NoEntry THEN row[t]
     ELSE IF t \in AlwaysTerminals THEN [kind |-> "error"]
     ELSE IF t \in AlwaysSkip THEN [kind |-> "ignore"] ELSE NoEntry]

FillDone ==
  /\ phase = "fill"
  /\ scanState > Len(states)
  /\ action' = [s \in 1..Len(action) |-> WithAlways(action[s])]
  /\ phase' = IF options.optimize THEN "optimize" ELSE "ready"
  /\ scanState' = 1      \* the next loop over the states starts afresh
  /\ scanItem' = 1
  /\ pass' = 1
  /\ changed' = FALSE
  /\ UNCHANGED <<goto, conflicts, gram, first, nullable, ruleIx, lr0Vars>>
  /\ UNCHANGED <<options, follow, la>>

TableNext == PlaceShifts \/ PlaceReduces \/ FillNextState \/ FillDone

ActionTableInit == LookaheadsInit /\ TableInit
ActionTableNext == (LookaheadsNext /\ UNCHANGED tableVars) \/ TableNext
actionTableVars == <<lookaheadsVars, tableVars>>

(* buildTables is straight-line code: it runs until it returns. *)
ActionTableSpec == ActionTableInit /\ [][ActionTableNext]_actionTableVars
                     /\ WF_actionTableVars(ActionTableNext)
-----------------------------------------------------------------------------
Entries ==
  {NoEntry, Accept, [kind |-> "error"], [kind |-> "ignore"]}
    \cup {Shift(s) : s \in 1..Len(states)} \cup {Reduce(r) : r \in 2..Len(gram)}

IsEntry(e) == e \in Entries \/ (e.kind = "conflict" /\ ToSet(e.entries) \subseteq Entries)

(* Rows hold entries that point at states and rules there are, and reports  *)
(* name cells there are.                                                    *)
ActionTableTypeOK ==
  /\ Len(action) <= Len(states) /\ Len(goto) = Len(action)
  /\ \A s \in 1..Len(action) : \A t \in TermsEOF : IsEntry(action[s][t])
  /\ \A s \in 1..Len(goto) : \A A \in Heads : goto[s][A] \in 0..Len(states)
  /\ \A c \in conflicts : c \in [state : 1..Len(states), term : TermsEOF,
                                 kind : {"auto", "shift-reduce", "reduce-reduce", "conflict"}]

Filled == phase \in {"optimize", "ready"}

(* What the items of state s call for on terminal t, and what the cell does. *)
Alternatives(s, t) ==
  {IF t = EOF THEN Accept ELSE Shift(e.to) : e \in {e \in trans : e.from = s /\ e.sym = t}}
    \cup {Reduce(i.rule) : i \in {i \in ToSet(states[s]) : Reduces(i) /\ t \in ReduceOn(s, i)}}

Kept(s, t) ==
  LET e == action[s][t]
  IN  IF e.kind = "conflict" THEN ToSet(e.entries)
      ELSE IF e.kind \in {"none", "error", "ignore"} THEN {} ELSE {e}

Cells == {<<s, t>> : s \in 1..Len(states), t \in TermsEOF}

(* A cell does only what its state's items call for, and wherever it does   *)
(* less, setAction has reported a decision on that very cell - but for the  *)
(* accept, which wins in silence.                                           *)
LossesReported ==
  Filled => \A c \in Cells :
    LET all == Alternatives(c[1], c[2])
        kept == Kept(c[1], c[2])
    IN  /\ kept \subseteq all
        /\ all # kept /\ Accept \notin all =>
             \E r \in conflicts : r.state = c[1] /\ r.term = c[2]
        /\ all # {} => kept # {}

(* Precedence decides by rule, not by chance: where a shift competes with   *)
(* reduces that all have a precedence strictly above it, or strictly below, *)
(* that side has the cell to itself whatever order the items came in.       *)
StrictPrecedenceDecides ==
  Filled => \A c \in Cells :
    LET all == Alternatives(c[1], c[2])
        rules == {a.rule : a \in {a \in all : a.kind = "reduce"}}
        sp == ShiftPrec(c[1], c[2])
    IN  (/\ \E a \in all : a.kind = "shift"
         /\ sp # NoPrec /\ sp.assoc # "fork"
         /\ rules # {}
         /\ \A r \in rules : gram[r].prec # NoPrec /\ gram[r].prec.assoc # "fork") =>
          /\ (\A r \in rules : gram[r].prec.level < sp.level) =>
               \A a \in Kept(c[1], c[2]) : a.kind = "shift"
          /\ (\A r \in rules : gram[r].prec.level > sp.level) =>
               \A a \in Kept(c[1], c[2]) : a.kind = "reduce"

(* Both: a conflict is decided by precedence, or forked, or reported.       *)
ConflictsAreDecided == LossesReported /\ StrictPrecedenceDecides
=============================================================================
