----------------------------- MODULE Lookaheads -----------------------------
(***************************************************************************)
(* The reduce lookaheads of buildLALR (lalr.ts): the FOLLOW sets, and, when *)
(* the slr option is off, the LALR(1) sets propagated over the LR(0)       *)
(* automaton.  Both are in-place fixed points: FOLLOW scans a rule at a    *)
(* time, the propagation an item of a state at a time.  A pass that        *)
(* changed nothing is the last one.                                        *)
(***************************************************************************)
EXTENDS Automaton

CONSTANTS
  Options,      \* the makeParser options to consider: [slr, optimize] records
  PassSlack     \* the fixed part of LALR_MAX_PASSES, 1000 in the code

ASSUME OptionsAssumption == Options \subseteq [slr : BOOLEAN, optimize : BOOLEAN]
ASSUME PassSlackAssumption == PassSlack \in Nat

(* A specification is a finite text. *)
ASSUME FiniteAssumption == IsFiniteSet(Terminals) /\ IsFiniteSet(NonTerminals)

VARIABLES
  options,    \* the options makeParser was called with
  follow,     \* FOLLOW of each nonterminal
  la,         \* lalrLA: the lookaheads of <<state, item>>, where there are any
  scanState,  \* the state ...
  scanItem,   \* ... and the item the propagation comes to next
  pass        \* the passes begun

lookaheadVars == <<options, follow, la, scanState, scanItem, pass>>

LookaheadInit ==
  /\ options \in Options
  /\ follow = [A \in Heads |-> {}]
  /\ la = <<>>
  /\ scanState = 1
  /\ scanItem = 1
  /\ pass = 0
-----------------------------------------------------------------------------
(* What may follow the symbol at position k of a rule whose own followers   *)
(* are given.                                                               *)
After(rhs, k, beyond) ==
  FirstFrom(first, nullable, rhs, k + 1)
    \cup (IF NullableFrom(nullable, rhs, k + 1) THEN beyond ELSE {})

(* One rule of a FOLLOW pass: its symbols from left to right, in place. *)
FollowAfterRule(r) ==
  LET scan[k \in 0..Len(r.rhs)] ==
        IF k = 0 THEN follow
        ELSE LET f == scan[k - 1]
             IN IF r.rhs[k] \in Heads
                THEN [f EXCEPT ![r.rhs[k]] = @ \cup After(r.rhs, k, f[r.lhs])]
                ELSE f
  IN  scan[Len(r.rhs)]

(* The pass's flag. *)
FollowFlag == changed \/ follow' # follow

ScanFollow ==
  /\ phase = "follow"
  /\ ruleIx <= Len(gram)
  /\ follow' = FollowAfterRule(gram[ruleIx])
  /\ changed' = FollowFlag
  /\ ruleIx' = ruleIx + 1
  /\ UNCHANGED <<gram, first, nullable, phase, options, la, scanState, scanItem, pass>>
  /\ UNCHANGED lr0Vars

NextFollowPass ==
  /\ phase = "follow"
  /\ ruleIx > Len(gram)
  /\ changed
  /\ ruleIx' = 1
  /\ changed' = FALSE
  /\ UNCHANGED <<gram, first, nullable, phase>>
  /\ UNCHANGED <<lr0Vars, lookaheadVars>>

(* Where the propagation starts. *)
Seed == <<1, Item(1, 0)>>

(* FOLLOW is complete: on to `addLA(0, {rule: 0, dot: 0}, [EOF])`, unless   *)
(* the tables are to be SLR.                                                *)
FollowDone ==
  /\ phase = "follow"
  /\ ruleIx > Len(gram)
  /\ ~changed
  /\ IF options.slr
     THEN phase' = "fill" /\ UNCHANGED <<la, pass>>
     ELSE /\ phase' = "lookahead"
          /\ la' = [key \in {Seed} |-> {EOF}]
          /\ pass' = 1
  /\ UNCHANGED <<gram, first, nullable, ruleIx, changed>>
  /\ UNCHANGED <<options, follow, scanState, scanItem>>
  /\ UNCHANGED lr0Vars
-----------------------------------------------------------------------------
Known(f, key) == IF key \in DOMAIN f THEN f[key] ELSE {}

(* addLA, for each of a set of keys: the entry exists from then on, even    *)
(* when there is nothing to put in it.                                      *)
AddLA(f, keys, terms) ==
  [key \in DOMAIN f \cup keys |->
     IF key \in keys THEN Known(f, key) \cup terms ELSE f[key]]

(* The lookaheads of the closure items below an item of state s ... *)
WithClosure(f, s, item) ==
  LET rhs == gram[item.rule].rhs
      below == {<<s, Item(r, 0)>> : r \in {r \in 1..Len(gram) : gram[r].lhs = NextSym(item)}}
  IN  IF NextSym(item) \in Heads
      THEN AddLA(f, below, After(rhs, item.dot + 1, f[<<s, item>>]))
      ELSE f

(* ... and then, read after the closure's may have grown them, its own over *)
(* the transition.                                                          *)
WithGoto(f, s, item) ==
  IF HasTrans(s, NextSym(item))
  THEN AddLA(f, {<<Target(s, NextSym(item)), Advance(item)>>}, f[<<s, item>>])
  ELSE f

Propagated(s, item) ==
  IF <<s, item>> \in DOMAIN la /\ ~Complete(item)
  THEN WithGoto(WithClosure(la, s, item), s, item)
  ELSE la

(* addLA's verdict: a terminal was added somewhere. *)
Added == \E key \in DOMAIN la' : ~(la'[key] \subseteq Known(la, key))

(* The pass's flag; a faulty one is set by the last item scanned alone. *)
AddedFlagOverwritten == Added
AddedFlag == changed \/ Added

(* One iteration of `for (const item of lr0States[s])`. *)
ScanItem ==
  /\ phase = "lookahead"
  /\ scanState <= Len(states)
  /\ scanItem <= Len(states[scanState])
  /\ la' = Propagated(scanState, states[scanState][scanItem])
  /\ changed' = AddedFlag
  /\ scanItem' = scanItem + 1
  /\ UNCHANGED <<gram, first, nullable, ruleIx, phase, options, follow, scanState, pass>>
  /\ UNCHANGED lr0Vars

ScanNextState ==
  /\ phase = "lookahead"
  /\ scanState <= Len(states)
  /\ scanItem > Len(states[scanState])
  /\ scanState' = scanState + 1
  /\ scanItem' = 1
  /\ UNCHANGED firstVars
  /\ UNCHANGED <<options, follow, la, pass>>
  /\ UNCHANGED lr0Vars

(* Another pass.  The throw past LALR_MAX_PASSES is no action of its own:   *)
(* PassesWithinLimit says that no pass ever reaches it.                     *)
NextLookaheadPass ==
  /\ phase = "lookahead"
  /\ scanState > Len(states)
  /\ changed
  /\ changed' = FALSE
  /\ scanState' = 1
  /\ scanItem' = 1
  /\ pass' = pass + 1
  /\ UNCHANGED <<gram, first, nullable, ruleIx, phase, options, follow, la>>
  /\ UNCHANGED lr0Vars

LookaheadDone ==
  /\ phase = "lookahead"
  /\ scanState > Len(states)
  /\ ~changed
  /\ phase' = "fill"
  /\ scanState' = 1
  /\ scanItem' = 1
  /\ UNCHANGED <<gram, first, nullable, ruleIx, changed>>
  /\ UNCHANGED <<options, follow, la, pass>>
  /\ UNCHANGED lr0Vars

LookaheadNext == \/ ScanFollow \/ NextFollowPass \/ FollowDone
                 \/ ScanItem \/ ScanNextState \/ NextLookaheadPass \/ LookaheadDone

LookaheadsInit == AutomatonInit /\ LookaheadInit
LookaheadsNext == (AutomatonNext /\ UNCHANGED lookaheadVars) \/ LookaheadNext
lookaheadsVars == <<automatonVars, lookaheadVars>>

(* buildTables is straight-line code: it runs until it returns. *)
LookaheadsSpec == LookaheadsInit /\ [][LookaheadsNext]_lookaheadsVars
                    /\ WF_lookaheadsVars(LookaheadsNext)

(* What a complete item may reduce on. *)
ReduceOn(s, item) == IF options.slr THEN follow[gram[item.rule].lhs] ELSE Known(la, <<s, item>>)
-----------------------------------------------------------------------------
HasLookaheads == phase \notin {"first", "lr0", "follow", "lookahead"}

(* Every variable keeps to its type; lookaheads are only recorded for       *)
(* states that exist.                                                       *)
LookaheadsTypeOK ==
  /\ AutomatonTypeOK
  /\ options \in Options
  /\ follow \in [Heads -> SUBSET TermsEOF]
  /\ DOMAIN la \subseteq (1..Len(states)) \X Items
  /\ \A key \in DOMAIN la : la[key] \in SUBSET TermsEOF
  /\ scanState \in 1..(Len(states) + 1)
  /\ scanItem \in Nat \ {0}
  /\ pass \in Nat

(* Every symbol a rule uses derives some string of terminals. *)
Productive ==
  LET grow[n \in 0..Cardinality(NonTerminals)] ==
        IF n = 0 THEN TermsEOF
        ELSE grow[n - 1] \cup {gram[r].lhs : r \in {r \in 1..Len(gram) :
                                  ToSet(gram[r].rhs) \subseteq grow[n - 1]}}
  IN  \A k \in 1..Len(gram) : ToSet(gram[k].rhs) \subseteq grow[Cardinality(NonTerminals)]

(* The canonical LR(1) items, merged by their LR(0) state: the least set    *)
(* with the start item that holds, below an item, each rule of its next     *)
(* symbol with whatever can come after it, and the item moved on.           *)
LR1Below(i) ==
  LET rhs == gram[i.item.rule].rhs
  IN  {[state |-> i.state, item |-> Item(r, 0), on |-> t] :
         r \in {r \in 1..Len(gram) : gram[r].lhs = NextSym(i.item)},
         t \in FirstFrom(first, nullable, rhs \o <<i.on>>, i.item.dot + 2)}

LR1Step(i) ==
  IF Complete(i.item) THEN {}
  ELSE LR1Below(i) \cup
         {[state |-> e.to, item |-> Advance(i.item), on |-> i.on] :
            e \in {e \in trans : e.from = i.state /\ e.sym = NextSym(i.item)}}

LR1Grow(I) == I \cup UNION {LR1Step(i) : i \in I}

(* Every item of every state, on every terminal. *)
LR1Universe ==
  UNION {{[state |-> s, item |-> i, on |-> t] : i \in ToSet(states[s]), t \in TermsEOF} :
           s \in 1..Len(states)}

LR1Items ==
  LET most == Cardinality(LR1Universe)
      grow[n \in 0..most] ==
        IF n = 0 THEN {[state |-> 1, item |-> Item(1, 0), on |-> EOF]}
        ELSE LR1Grow(grow[n - 1])
      enough == CHOOSE n \in 1..most : grow[n] = grow[n - 1]
  IN  grow[enough]

(* When the propagation stops, an item's lookaheads are exactly those of    *)
(* the canonical LR(1) items merged into its state: none was left behind    *)
(* when the last pass ended, and no reduce is offered that canonical LR(1)  *)
(* would not offer somewhere.                                               *)
MergedLR1 ==
  Returned /\ ~options.slr /\ Productive =>
    LR1Items = UNION {{[state |-> key[1], item |-> key[2], on |-> t] : t \in la[key]} :
                        key \in DOMAIN la}

(* LALR only narrows SLR: every lookahead of an item is in FOLLOW of its    *)
(* rule's head, so turning slr on only adds alternatives to the cells.      *)
LookaheadsWithinFollow ==
  HasLookaheads =>
    \A key \in DOMAIN la : la[key] \subseteq follow[gram[key[2].rule].lhs]
                             \cup (IF key[2].rule = 1 THEN {EOF} ELSE {})

(* The tripwire of LALR_MAX_PASSES never trips on a converging propagation. *)
PassesWithinLimit == pass <= Len(states) * 8 + PassSlack

(* Both: the lookaheads are those of LALR(1).                               *)
LookaheadsAreLALR1 == MergedLR1 /\ LookaheadsWithinFollow
=============================================================================
