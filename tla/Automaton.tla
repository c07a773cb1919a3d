----------------------------- MODULE Automaton -----------------------------
(***************************************************************************)
(* The LR(0) automaton of buildLALR (lalr.ts): states are discovered in a  *)
(* worklist, each as the closure of a moved kernel, and looked up by item  *)
(* set before a new one is numbered.  A state keeps its items in the order *)
(* the closure queue produced them: setAction later reads that order.      *)
(* The code numbers states from 0; here state k+1 is the code's state k.   *)
(***************************************************************************)
EXTENDS FirstSets, SequencesExt

VARIABLES
  states,    \* lr0States
  trans,     \* lr0Trans: the set of transitions [from, sym, to]
  queue,     \* the closure being computed; empty when there is none
  queueIx,   \* the queue element the closure loop reads next
  via,       \* the transition the closure is computed for
  stateIx,   \* si: the state being expanded
  itemIx     \* the item of states[stateIx] the expansion has come to

lr0Vars == <<states, trans, queue, queueIx, via, stateIx, itemIx>>

Items == [rule : Nat \ {0}, dot : Nat]
Item(rule, dot) == [rule |-> rule, dot |-> dot]

Complete(item) == item.dot >= Len(gram[item.rule].rhs)
NextSym(item)  == gram[item.rule].rhs[item.dot + 1]
Advance(item)  == Item(item.rule, item.dot + 1)

(* The transition out of state s on sym, if it has been computed. *)
HasTrans(s, sym) == \E e \in trans : e.from = s /\ e.sym = sym
Target(s, sym)   == (CHOOSE e \in trans : e.from = s /\ e.sym = sym).to

LR0Init ==
  /\ states = <<>>
  /\ trans = {}
  /\ queue = <<Item(1, 0)>>
  /\ queueIx = 1
  /\ via = [from |-> 0, sym |-> ACCEPT]
  /\ stateIx = 1
  /\ itemIx = 1

(* The elements of s at the places I, in order: SelectSeq, by place.        *)
Selected(s, I) ==
  LET upTo[n \in 0..Len(s)] ==
        IF n = 0 THEN <<>>
        ELSE IF n \in I THEN Append(upTo[n - 1], s[n]) ELSE upTo[n - 1]
  IN  upTo[Len(s)]

(* The rules whose first item the queued item adds to the closure.  A       *)
(* faulty closure stops at the first of them.                               *)
FreshFirstOnly(item) ==
  IF Complete(item) THEN <<>>
  ELSE LET mine == {r \in 1..Len(gram) : gram[r].lhs = NextSym(item)}
           r == CHOOSE r \in mine : \A q \in mine : r <= q
       IN IF mine = {} \/ Contains(queue, Item(r, 0)) THEN <<>> ELSE <<Item(r, 0)>>

Fresh(item) ==
  IF Complete(item) THEN <<>>
  ELSE Selected([r \in 1..Len(gram) |-> Item(r, 0)],
                {r \in 1..Len(gram) : /\ gram[r].lhs = NextSym(item)
                                      /\ ~Contains(queue, Item(r, 0))})

(* lr0Closure: one iteration of `for (const {rule, dot} of queue)`. *)
CloseItem ==
  /\ phase = "lr0"
  /\ queueIx <= Len(queue)
  /\ queue' = queue \o Fresh(queue[queueIx])
  /\ queueIx' = queueIx + 1
  /\ UNCHANGED <<states, trans, via, stateIx, itemIx>>
  /\ UNCHANGED firstVars

(* lr0SetKey: states are the same when their item sets are.                 *)
SameState(items, others) == ToSet(items) = ToSet(others)

(* The number of a new state. *)
NewId == Len(states) + 1

(* addLR0State, and the caller's `lr0Trans[si].set(sym, ...)`. *)
AddState ==
  /\ phase = "lr0"
  /\ queue # <<>>
  /\ queueIx > Len(queue)
  /\ LET known == {s \in 1..Len(states) : SameState(states[s], queue)}
         id == IF known = {} THEN NewId ELSE CHOOSE s \in known : TRUE
     IN  /\ states' = IF known = {} THEN Append(states, queue) ELSE states
         /\ trans' = IF via.from = 0 THEN trans
                     ELSE trans \cup {[from |-> via.from, sym |-> via.sym, to |-> id]}
  /\ queue' = <<>>
  /\ UNCHANGED <<queueIx, via, stateIx, itemIx>>
  /\ UNCHANGED firstVars

Expanding == phase = "lr0" /\ queue = <<>> /\ stateIx <= Len(states)

(* The symbols already moved over: `new Set` keeps each one once. *)
Moved(item) == ~Complete(item) => HasTrans(stateIx, NextSym(item))

(* lr0Goto over the next symbol not moved over yet: start its closure. *)
MoveOver ==
  /\ Expanding
  /\ itemIx <= Len(states[stateIx])
  /\ ~Moved(states[stateIx][itemIx])
  /\ LET items == states[stateIx]
         sym == NextSym(items[itemIx])
         kernel == Selected(items, {k \in 1..Len(items) :
                                      ~Complete(items[k]) /\ NextSym(items[k]) = sym})
     IN  /\ queue' = [k \in 1..Len(kernel) |-> Advance(kernel[k])]
         /\ via' = [from |-> stateIx, sym |-> sym]
  /\ queueIx' = 1
  /\ UNCHANGED <<states, trans, stateIx, itemIx>>
  /\ UNCHANGED firstVars

SkipMoved ==
  /\ Expanding
  /\ itemIx <= Len(states[stateIx])
  /\ Moved(states[stateIx][itemIx])
  /\ itemIx' = itemIx + 1
  /\ UNCHANGED <<states, trans, queue, queueIx, via, stateIx>>
  /\ UNCHANGED firstVars

ExpandNext ==
  /\ Expanding
  /\ itemIx > Len(states[stateIx])
  /\ stateIx' = stateIx + 1
  /\ itemIx' = 1
  /\ UNCHANGED <<states, trans, queue, queueIx, via>>
  /\ UNCHANGED firstVars

LR0Done ==
  /\ phase = "lr0"
  /\ queue = <<>>
  /\ stateIx > Len(states)
  /\ phase' = "follow"
  /\ ruleIx' = 1          \* the next fixed point counts afresh
  /\ UNCHANGED <<gram, first, nullable, changed>>
  /\ UNCHANGED lr0Vars

LR0Next == CloseItem \/ AddState \/ MoveOver \/ SkipMoved \/ ExpandNext \/ LR0Done

AutomatonInit == FirstInit /\ LR0Init
AutomatonNext == (FirstNext /\ UNCHANGED lr0Vars) \/ LR0Next
automatonVars == <<firstVars, lr0Vars>>

(* buildTables is straight-line code: it runs until it returns. *)
AutomatonSpec == AutomatonInit /\ [][AutomatonNext]_automatonVars
                   /\ WF_automatonVars(AutomatonNext)
-----------------------------------------------------------------------------
(* Every variable keeps to its type; in particular a transition, and the    *)
(* one under construction, joins states that have been numbered.            *)
AutomatonTypeOK ==
  /\ FirstTypeOK
  /\ states \in Seq(Seq(Items))
  /\ trans \in SUBSET [from : 1..Len(states), sym : Symbols, to : 1..Len(states)]
  /\ queue \in Seq(Items)
  /\ queueIx \in Nat \ {0}
  /\ via \in [from : 0..Len(states), sym : Symbols]
  /\ stateIx \in 1..(Len(states) + 1)
  /\ itemIx \in Nat \ {0}

(* makeParser has returned, with whatever the stages before have built. *)
Returned == phase = "ready"

(* The definition of the LR(0) closure and of a move over a symbol. *)
Expected(I) == {NextSym(i) : i \in {i \in I : ~Complete(i)}}
Into(I) == LET wanted == Expected(I)
           IN  I \cup {Item(r, 0) : r \in {r \in 1..Len(gram) : gram[r].lhs \in wanted}}

ClosureOf(I) ==
  LET grow[n \in 0..Len(gram)] ==
        IF n = 0 THEN I ELSE Into(grow[n - 1])
  IN  grow[Len(gram)]

MoveOf(I, sym) ==
  ClosureOf({Advance(i) : i \in {j \in I : ~Complete(j) /\ NextSym(j) = sym}})

(* State 1 holds the closure of the start item, and each state has a move   *)
(* over exactly the symbols its items expect, to the state of exactly the   *)
(* items that follow.  So after any string of symbols the automaton is in   *)
(* the state of exactly the items valid for it: none is lost to an early    *)
(* merge of two states or to a closure cut short, none is gained.           *)
TracksValidItems ==
  Returned =>
    /\ ToSet(states[1]) = ClosureOf({Item(1, 0)})
    /\ \A s \in 1..Len(states), sym \in Symbols :
         IF sym \in Expected(ToSet(states[s]))
         THEN /\ HasTrans(s, sym)
              /\ ToSet(states[Target(s, sym)]) = MoveOf(ToSet(states[s]), sym)
         ELSE ~HasTrans(s, sym)

(* Two numbers never stand for one item set, whatever order the closures    *)
(* listed it in: the automaton is minimal, so the search for it is finite.  *)
StatesDistinct ==
  \A s, t \in 1..Len(states) : ToSet(states[s]) = ToSet(states[t]) => s = t

(* The automaton is the LR(0) automaton of the grammar, each state once.    *)
AutomatonIsLR0 == TracksValidItems /\ StatesDistinct
=============================================================================
