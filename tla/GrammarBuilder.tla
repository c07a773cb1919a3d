--------------------------- MODULE GrammarBuilder ---------------------------
(***************************************************************************)
(* GrammarBuilder's constructor (core.ts) up to the FIRST sets: from a     *)
(* GrammarSpec, a value full of references to arrays, names and terminals, *)
(* to the flat list of rules both back ends read.  Arrays of alternatives  *)
(* are found while the list of those still to scan is being scanned.       *)
(*                                                                         *)
(* A symbol is a pair <<"term", name>>, <<"name", name>> (a nonterminal    *)
(* with a name), <<"array", a>> (one without), <<"anon", k>> (a mid-rule   *)
(* action) or a predicate <<"pred", negations, symbol, its place>>: two    *)
(* predicates are different objects even when they say the same.           *)
(***************************************************************************)
EXTENDS Naturals, Sequences, SequencesExt, FiniteSets

CONSTANT Specs   \* the grammar specifications the builder may be given

(* A specification: the named arrays of alternatives in order, the start   *)
(* array ("none": the first named one), the contents of every array, the   *)
(* precedence table and the names of the terminals always lexed.  An       *)
(* alternative is an array by itself or a rule; a symbol of a rule is      *)
(* written as text, a pattern, an array, a reference or a mid-rule action, *)
(* under the predicates `negs`.  A reference is to a name of `rules`.       *)
SymbolForms == {"text", "pattern", "array", "ref", "mid"}
NamesOf(s) == {s.rules[i].name : i \in 1..Len(s.rules)}
IsList(x) == x \in Seq(ToSet(x))
IsSymbol(s, x) ==
  /\ x.is \in SymbolForms
  /\ x.is = "array" => x.of \in DOMAIN s.arrays
  /\ x.is = "ref" => x.of \in NamesOf(s)
IsSpec(s) ==
  /\ s.rules # <<>> \/ s.start # "none"
  /\ s.start = "none" \/ s.start \in DOMAIN s.arrays
  /\ IsList(s.rules) /\ IsList(s.terminals) /\ IsList(s.skip)
  /\ \A i \in 1..Len(s.rules) : s.rules[i].of \in DOMAIN s.arrays
  /\ \A i, j \in 1..Len(s.rules) : s.rules[i].name = s.rules[j].name => i = j
  /\ \A a \in DOMAIN s.arrays : IsList(s.arrays[a]) /\ \A i \in 1..Len(s.arrays[a]) :
       LET rhs == s.arrays[a][i].rhs
       IN  IsList(rhs) /\ \A k \in 1..Len(rhs) : IsSymbol(s, rhs[k])

ASSUME SpecsAssumption == \A s \in Specs : IsSpec(s)

VARIABLES
  spec,    \* the GrammarSpec
  built,   \* what the constructor has made so far, see Blank
  scan,    \* the array being scanned and the alternative within it
  stage    \* "start", "build", then what the back end makes of it

builderVars == <<spec, built, scan, stage>>

AcceptSym == <<"accept", "$accept">>
EndSym    == <<"term", "$end">>
Term(name) == <<"term", name>>
IsTerm(sym) == sym[1] = "term"
IsPred(sym) == sym[1] = "pred"
Nameless == [assoc |-> "none", level |-> 0]
(* A rule of `this.rules`.  peek is one more than in the code: 0 stands for *)
(* undefined, every rule but a mid-rule action.                             *)
NewRule(lhs, rhs) == [lhs |-> lhs, rhs |-> rhs, prec |-> Nameless, identity |-> TRUE, peek |-> 0]

(* nonTerminalsByRules before the scan: with two names for one array, the   *)
(* last one stays.                                                          *)
NamedArrays(s) ==
  [a \in {s.rules[i].of : i \in 1..Len(s.rules)} |->
     <<"name", s.rules[SelectLastInSeq(s.rules, LAMBDA r : r.of = a)].name>>]

(* The arrays to scan, the start first, and again where it has a name.      *)
Listed(s) == (IF s.start = "none" THEN <<>> ELSE <<s.start>>)
               \o [i \in 1..Len(s.rules) |-> s.rules[i].of]
-----------------------------------------------------------------------------
With(map, key, value) == [k \in DOMAIN map \cup {key} |-> IF k = key THEN value ELSE map[k]]

(* `internByRules`: the nonterminal of an array, by identity; a new array   *)
(* is put at the end of the list being scanned.  A faulty one is never put  *)
(* there.                                                                   *)
InternUnseen(b, a) ==
  IF a \in DOMAIN b.ntOf THEN b
  ELSE [b EXCEPT !.ntOf = With(@, a, <<"array", a>>)]
InternByRules(b, a) ==
  IF a \in DOMAIN b.ntOf THEN b
  ELSE [b EXCEPT !.ntOf = With(@, a, <<"array", a>>),
                 !.pending = Append(@, a)]

(* `internTerminal` and `addTerminal`: by name, and never the name of a     *)
(* nonterminal.                                                             *)
InternTerminal(b, name) ==
  IF Contains(b.terms, name) THEN b
  ELSE [b EXCEPT !.terms = Append(@, name),
                 !.thrown = (@ \/ name \in NamesOf(spec))]
InternAll(b, names) ==
  LET upTo[n \in 0..Len(names)] ==
        IF n = 0 THEN b ELSE InternTerminal(upTo[n - 1], names[n])
  IN  upTo[Len(names)]

(* `anon`: a mid-rule action becomes an empty rule of a nonterminal of its  *)
(* own, which may look back at the `seen` values before it.                 *)
Anon(b, seen) ==
  [b EXCEPT !.rules = Append(@, [NewRule(<<"anon", Len(@)>>, <<>>) EXCEPT
                                   !.identity = FALSE, !.peek = seen + 1])]

(* `resolveSym`, less the predicates around a symbol: what it does to the   *)
(* builder, and what it returns.                                            *)
ResolveBare(b, s, seen) ==
  CASE s.is = "text" -> IF s.of \in NamesOf(spec) THEN [b |-> b, sym |-> <<"name", s.of>>]
                        ELSE [b |-> InternTerminal(b, s.of), sym |-> Term(s.of)]
    [] s.is = "pattern" -> [b |-> InternTerminal(b, s.of), sym |-> Term(s.of)]
    [] s.is = "ref" -> [b |-> b, sym |-> <<"name", s.of>>]
    [] s.is = "mid" -> [b |-> Anon(b, seen), sym |-> <<"anon", Len(b.rules)>>]
    [] s.is = "array" -> LET c == InternByRules(b, s.of) IN [b |-> c, sym |-> c.ntOf[s.of]]

Resolve(b, s, seen) ==
  LET r == ResolveBare(b, s, seen)
  IN  IF s.negs = <<>> THEN r
      ELSE [r EXCEPT !.sym = <<"pred", s.negs, @, <<Len(b.rules), seen>>>>]

(* `alt.rhs.map(resolveSym)`. *)
ResolveAll(b, rhs) ==
  LET upTo[n \in 0..Len(rhs)] ==
        IF n = 0 THEN [b |-> b, syms |-> <<>>]
        ELSE LET acc == upTo[n - 1]
                 r == Resolve(acc.b, rhs[n], n - 1)
             IN  [b |-> r.b, syms |-> Append(acc.syms, r.sym)]
  IN  upTo[Len(rhs)]
-----------------------------------------------------------------------------
(* The levels of spec.precedence: one more than the entry before, or the    *)
(* one the entry asks for.                                                  *)
Levels(table) ==
  LET at[i \in 1..Len(table)] == IF table[i].level > 0 THEN table[i].level
                                 ELSE IF i = 1 THEN 0 ELSE at[i - 1] + 1
  IN  at

(* `r.prec`: found by name, or by the identity of the object the table was  *)
(* declared with; an object of its own stands for itself.                   *)
PrecOf(p) ==
  LET table == spec.precedence
      At(i) == [assoc |-> table[i].assoc, level |-> Levels(table)[i]]
  IN  CASE p.by = "none" -> Nameless
        [] p.by = "name" -> IF \E i \in 1..Len(table) : table[i].name = p.of
                            THEN At(SelectInSeq(table, LAMBDA e : e.name = p.of)) ELSE Nameless
        [] p.by = "entry" -> At(SelectLastInSeq(table, LAMBDA e : e.object = p.of))
        [] p.by = "own" -> p.of

Blank == [rules |-> <<>>, terms |-> <<>>, ntOf |-> <<>>, pending |-> <<>>, thrown |-> FALSE]
-----------------------------------------------------------------------------
BuilderInit ==
  /\ spec \in Specs
  /\ built = Blank
  /\ scan = [array |-> 1, alt |-> 1]
  /\ stage = "start"

(* The constructor up to the loop over `rules`: names, terminals, the       *)
(* augmented rule.                                                          *)
StartBuilding ==
  /\ stage = "start"
  /\ LET named == NamedArrays(spec)
         pending == Listed(spec)
         roots == IF spec.start = "none" \/ spec.start \in DOMAIN named THEN named
                  ELSE With(named, spec.start, <<"start", "start">>)
         b == [Blank EXCEPT !.ntOf = roots, !.pending = pending]
         terms == InternAll(b, spec.terminals \o spec.skip)
     IN  built' = [terms EXCEPT !.rules = <<NewRule(AcceptSym, <<roots[pending[1]], EndSym>>)>>]
  /\ stage' = "build"
  /\ UNCHANGED <<spec, scan>>

Array == built.pending[scan.array]
Scanning == stage = "build" /\ ~built.thrown /\ scan.array <= Len(built.pending)

(* One alternative: an array or a thunk of one is a rule of one symbol.     *)
ScanAlternative ==
  /\ Scanning
  /\ scan.alt <= Len(spec.arrays[Array])
  /\ LET alt == spec.arrays[Array][scan.alt]
         r == ResolveAll(built, alt.rhs)
         rule == [NewRule(built.ntOf[Array], r.syms) EXCEPT
                    !.prec = PrecOf(alt.prec), !.identity = alt.identity]
     IN  built' = [r.b EXCEPT !.rules = Append(@, rule)]
  /\ scan' = [scan EXCEPT !.alt = @ + 1]
  /\ UNCHANGED <<spec, stage>>

ScanNextArray ==
  /\ Scanning
  /\ scan.alt > Len(spec.arrays[Array])
  /\ scan' = [array |-> scan.array + 1, alt |-> 1]
  /\ UNCHANGED <<spec, built, stage>>

(* "... used as terminal and nonterminal" is thrown. *)
NameClash ==
  /\ stage = "build" /\ built.thrown
  /\ stage' = "clash"
  /\ UNCHANGED <<spec, built, scan>>

BuilderDone ==
  /\ stage = "build" /\ ~built.thrown
  /\ scan.array > Len(built.pending)
  /\ stage' = "built"
  /\ UNCHANGED <<spec, built, scan>>

BuilderNext == \/ StartBuilding \/ ScanAlternative \/ ScanNextArray
               \/ NameClash \/ BuilderDone
-----------------------------------------------------------------------------
(* No array has two names, and the start is not listed again by name. *)
ListedOnce(s) == \A i, j \in 1..Len(Listed(s)) : Listed(s)[i] = Listed(s)[j] => i = j

RulesOf(nt) == {r \in 1..Len(built.rules) : built.rules[r].lhs = nt}
(* Which alternative of its nonterminal a rule is. *)
Rank(r) == Cardinality({q \in RulesOf(built.rules[r].lhs) : q <= r})

Bare(sym) == IF IsPred(sym) THEN sym[3] ELSE sym
UsedOnce(sym) ==
  \A r, q \in 1..Len(built.rules) :
    \A k \in 1..Len(built.rules[r].rhs), l \in 1..Len(built.rules[q].rhs) :
      Bare(built.rules[r].rhs[k]) = sym /\ Bare(built.rules[q].rhs[l]) = sym => r = q /\ k = l

(* What a written symbol stands for, whatever order it was found in: text   *)
(* is a name first, an array its own nonterminal, and a mid-rule action an  *)
(* empty rule that sees every value before it and belongs to it alone.      *)
StandsFor(s, place, sym) ==
  /\ IF s.negs = <<>> THEN ~IsPred(sym) ELSE IsPred(sym) /\ sym[2] = s.negs
  /\ CASE s.is \in {"text", "ref"} /\ s.of \in NamesOf(spec) ->
            \E i \in 1..Len(spec.rules) :
              spec.rules[i].name = s.of /\ Bare(sym) = built.ntOf[spec.rules[i].of]
       [] s.is = "array" -> s.of \in DOMAIN built.ntOf /\ Bare(sym) = built.ntOf[s.of]
       [] s.is = "mid" ->
            /\ \E r \in 1..Len(built.rules) :
                 /\ RulesOf(Bare(sym)) = {r}
                 /\ built.rules[r].rhs = <<>> /\ built.rules[r].peek = place
            /\ UsedOnce(Bare(sym))
       [] OTHER -> Bare(sym) = Term(s.of) /\ Contains(built.terms, s.of)

(* Arrays are found from the start and the names on: each is scanned once,  *)
(* and is listed, or used by one that was scanned before it.                *)
UsesArray(c, a) ==
  \E i \in 1..Len(spec.arrays[c]) : \E k \in 1..Len(spec.arrays[c][i].rhs) :
    spec.arrays[c][i].rhs[k].is = "array" /\ spec.arrays[c][i].rhs[k].of = a
FoundInTurn ==
  /\ \A i, j \in 1..Len(built.pending) : built.pending[i] = built.pending[j] => i = j
  /\ ToSet(built.pending) = DOMAIN built.ntOf
  /\ \A i \in 1..Len(built.pending) :
       \/ Contains(Listed(spec), built.pending[i])
       \/ \E j \in 1..(i - 1) : UsesArray(built.pending[j], built.pending[i])

(* The rules mean the specification: every array reachable from it, and no  *)
(* other, has a nonterminal of its own, whose rules are the array's         *)
(* alternatives, each once and in order (which PEG reads as their           *)
(* priority), symbol for symbol.                                            *)
BuiltAsSpecified ==
  stage = "built" /\ ListedOnce(spec) =>
    /\ FoundInTurn
    /\ \A a, c \in DOMAIN built.ntOf : built.ntOf[a] = built.ntOf[c] => a = c
    /\ \A a \in DOMAIN built.ntOf :
         /\ Cardinality(RulesOf(built.ntOf[a])) = Len(spec.arrays[a])
         /\ \A r \in RulesOf(built.ntOf[a]) :
              LET written == spec.arrays[a][Rank(r)].rhs
                  rule == built.rules[r]
              IN  /\ Len(rule.rhs) = Len(written)
                  /\ \A k \in 1..Len(written) : StandsFor(written[k], k, rule.rhs[k])
=============================================================================
