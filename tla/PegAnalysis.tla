---------------------------- MODULE PegAnalysis ----------------------------
(***************************************************************************)
(* analyse (peg.ts): what makePegParser settles about a grammar before it  *)
(* matches anything - the order of alternatives, which of them are left    *)
(* recursive, and the left recursion it cannot express.  Left corners that *)
(* reach each other are found by an iterative Tarjan, one turn of its loop *)
(* an action.  A rule is named by its index in built.rules.                *)
(***************************************************************************)
EXTENDS GrammarBuilder, FiniteSetsExt

VARIABLES
  empties,   \* nullableSyms: the nonterminals found nullable
  alts,      \* nonterminal -> its rules, as ordered choice tries them
  tarjan,    \* the locals of stronglyConnected
  problems   \* the errors: [kind, of]; and the pairs of rules warned about

analysisVars == <<empties, alts, tarjan, problems>>
pegVars == <<builderVars, analysisVars>>

RuleCount == Len(built.rules)
Rule(r) == built.rules[r]
IsNonTerminal(sym) == sym[1] \in {"name", "array", "start", "anon"}
EmptiesNow(known, sym) == IsPred(sym) \/ sym \in known
IsNullable(sym) == EmptiesNow(empties, sym)

(* A predicate's operand, which may be a predicate again. *)
Operand(sym) == IF Len(sym[2]) = 1 THEN sym[3] ELSE [sym EXCEPT ![2] = Tail(@)]
Inner(sym) == IF IsPred(sym) THEN Operand(sym) ELSE sym

NoTarjan == [index |-> <<>>, low |-> <<>>, stack |-> <<>>, work |-> <<>>,
             components |-> <<>>, counter |-> 0]

AnalysisInit ==
  /\ empties = {} /\ alts = <<>> /\ tarjan = NoTarjan
  /\ problems = [errors |-> {}, shadowed |-> {}]
-----------------------------------------------------------------------------
(* One pass of nullableSyms over the rules, adding in place. *)
Pass(known) ==
  FoldLeft(LAMBDA acc, r : IF \A k \in 1..Len(r.rhs) : EmptiesNow(acc, r.rhs[k])
                           THEN acc \cup {r.lhs} ELSE acc,
           known, built.rules)

(* `alts`, keyed in the order of first rules; rules[0] is left out.  A      *)
(* nonterminal without a rule has no entry.                                 *)
RulesFor(nt) == SelectSeq([r \in 1..RuleCount |-> r], LAMBDA r : r > 1 /\ Rule(r).lhs = nt)
Keys == LET firsts == {Head(RulesFor(Rule(r).lhs)) : r \in 2..RuleCount}
            order == SelectSeq([r \in 1..RuleCount |-> r], LAMBDA r : r \in firsts)
        IN  [i \in 1..Len(order) |-> Rule(order[i]).lhs]

(* Alternatives that match nothing are moved behind the others, unless the  *)
(* last alternative is empty already.  A faulty analysis keeps the order.   *)
AsWritten(list) == list
EmptyLast(list) ==
  LET Empty(r) == Rule(r).rhs = <<>> /\ Rule(r).peek = 0
  IN  IF Rule(Last(list)).rhs = <<>> THEN list
      ELSE SelectSeq(list, LAMBDA r : ~Empty(r)) \o SelectSeq(list, Empty)

OrderAlternatives ==
  /\ stage = "built"
  /\ alts' = [nt \in ToSet(Keys) |-> EmptyLast(RulesFor(nt))]
  /\ stage' = "nullable"
  /\ UNCHANGED <<spec, built, scan, empties, tarjan, problems>>

NullablePass ==
  /\ stage = "nullable"
  /\ empties' = Pass(empties)
  /\ stage' = IF empties' = empties THEN "corners" ELSE "nullable"
  /\ UNCHANGED <<spec, built, scan, alts, tarjan, problems>>
-----------------------------------------------------------------------------
(* The places of r at its left corner: up to the first that consumes.  A   *)
(* faulty walk stops at the first symbol.                                   *)
FirstCorner(r) == 1..(IF Rule(r).rhs = <<>> THEN 0 ELSE 1)
Corners(r) == {k \in 1..Len(Rule(r).rhs) : \A j \in 1..(k - 1) : IsNullable(Rule(r).rhs[j])}
CornerOf(r, k) == Inner(Rule(r).rhs[k])

Edges(nt) == {CornerOf(x[1], x[2]) : x \in
                {x \in (1..RuleCount) \X (1..8) : Rule(x[1]).lhs = nt /\ x[2] \in Corners(x[1])
                                                    /\ IsNonTerminal(CornerOf(x[1], x[2]))}}

(* `indirect`: a rule comes back to its head past a nullable prefix. *)
Indirect(r) ==
  \E k \in Corners(r) : /\ CornerOf(r, k) = Rule(r).lhs
                        /\ ~(k = 1 /\ Rule(r).rhs[1] = Rule(r).lhs)

FrameFor(node) == [node |-> node, succ |-> SetToSeq(Edges(node))]
Reached(t, node) ==
  [t EXCEPT !.index = (node :> t.counter) @@ @, !.low = (node :> t.counter) @@ @,
            !.stack = Append(@, node), !.work = Append(@, FrameFor(node)), !.counter = @ + 1]

Searching == stage = "corners"
Work == tarjan.work[Len(tarjan.work)]
Unreached == SelectSeq(Keys, LAMBDA nt : nt \notin DOMAIN tarjan.index)

(* `for (const root of nodes)`. *)
TarjanRoot ==
  /\ Searching /\ tarjan.work = <<>> /\ Unreached # <<>>
  /\ tarjan' = Reached(tarjan, Head(Unreached))
  /\ UNCHANGED <<builderVars, empties, alts, problems>>

(* The edge examined: a node on the stack lowers the mark.                  *)
Lowers(t, next) == Contains(t.stack, next)

TarjanEdge ==
  /\ Searching /\ tarjan.work # <<>> /\ Work.succ # <<>>
  /\ LET next == Head(Work.succ)
         t == [tarjan EXCEPT !.work[Len(tarjan.work)].succ = Tail(@)]
     IN  tarjan' = IF next \notin DOMAIN t.index THEN Reached(t, next)
                   ELSE IF Lowers(t, next)
                   THEN [t EXCEPT !.low[Work.node] = Min({@, t.index[next]})]
                   ELSE t
  /\ UNCHANGED <<builderVars, empties, alts, problems>>

(* A node is finished: its mark is passed down, and where the node is the   *)
(* first of its component the component leaves the stack.                   *)
TarjanPop ==
  /\ Searching /\ tarjan.work # <<>> /\ Work.succ = <<>>
  /\ LET n == Work.node
         rest == Front(tarjan.work)
         below == IF rest = <<>> THEN n ELSE Last(rest).node
         at == SelectInSeq(tarjan.stack, LAMBDA x : x = n)
         whole == tarjan.low[n] = tarjan.index[n]
     IN  tarjan' = [tarjan EXCEPT
           !.work = rest,
           !.low[below] = Min({@, tarjan.low[n]}),
           !.stack = IF whole THEN SubSeq(@, 1, at - 1) ELSE @,
           !.components = IF whole THEN Append(@, ToSet(SubSeq(tarjan.stack, at, Len(tarjan.stack)))) ELSE @]
  /\ UNCHANGED <<builderVars, empties, alts, problems>>
-----------------------------------------------------------------------------
Errors == {[kind |-> "cycle", of |-> c] : c \in {c \in ToSet(tarjan.components) : Cardinality(c) > 1}}
            \cup {[kind |-> "past nullable", of |-> c] :
                    c \in {c \in ToSet(tarjan.components) : Cardinality(c) = 1 /\
                             \E r \in 2..RuleCount : Rule(r).lhs \in c /\ Indirect(r)}}

(* An alternative that is a prefix of a later one: `<<i, j>>` says that     *)
(* alternative j is reported as unreachable.  A faulty test is the other    *)
(* way round.                                                               *)
IsExtension(i, j) == IsPrefix(Rule(j).rhs, Rule(i).rhs)
Hides(i, j) == IsPrefix(Rule(i).rhs, Rule(j).rhs)
Shadows ==
  {p \in (2..RuleCount) \X (2..RuleCount) :
     /\ Rule(p[1]).lhs = Rule(p[2]).lhs
     /\ LET list == alts[Rule(p[1]).lhs]
            Place(r) == SelectInSeq(list, LAMBDA x : x = r)
        IN  Place(p[1]) < Place(p[2])
     /\ Hides(p[1], p[2])}

(* makePegParser throws on an error; a warning still builds. *)
Report ==
  /\ Searching /\ tarjan.work = <<>> /\ Unreached = <<>>
  /\ problems' = [errors |-> Errors, shadowed |-> Shadows]
  /\ stage' = IF Errors = {} THEN "matching" ELSE "rejected"
  /\ UNCHANGED <<spec, built, scan, empties, alts, tarjan>>

AnalysisNext == OrderAlternatives \/ NullablePass \/ TarjanRoot \/ TarjanEdge \/ TarjanPop \/ Report

(* `direct` and `base`: the alternatives that begin with their own head,    *)
(* and the others.                                                          *)
Direct(nt) == SelectSeq(alts[nt], LAMBDA r : Rule(r).rhs # <<>> /\ Rule(r).rhs[1] = nt)
Base(nt) == SelectSeq(alts[nt], LAMBDA r : ~(Rule(r).rhs # <<>> /\ Rule(r).rhs[1] = nt))
-----------------------------------------------------------------------------
AllNonTerminals == {Rule(r).lhs : r \in 2..RuleCount}
(* What can be entered from nt without consuming anything. *)
ReachableFrom(nt) ==
  LET grow[n \in 0..Cardinality(AllNonTerminals)] ==
        IF n = 0 THEN Edges(nt) ELSE grow[n - 1] \cup UNION {Edges(x) : x \in grow[n - 1]}
  IN  grow[Cardinality(AllNonTerminals)]

(* The search ends with exactly the classes of nonterminals that can be     *)
(* entered from each other without consuming, each once: a component split  *)
(* or joined would let indirect left recursion through or refuse a sound    *)
(* grammar.                                                                 *)
ComponentsAreCycles ==
  Searching /\ tarjan.work = <<>> /\ Unreached = <<>> =>
    /\ AllNonTerminals \subseteq UNION ToSet(tarjan.components)
    /\ \A i, j \in 1..Len(tarjan.components) :
         i # j => tarjan.components[i] \cap tarjan.components[j] = {}
    /\ \A c \in ToSet(tarjan.components) : \A a \in c, b \in AllNonTerminals :
         a # b => (b \in c <=> a \in ReachableFrom(b) /\ b \in ReachableFrom(a))
=============================================================================
