------------------------------ MODULE FirstSets ------------------------------
(***************************************************************************)
(* The grammar both back ends work from: what GrammarBuilder (core.ts)     *)
(* leaves in `rules` once every symbol of the specification is interned.   *)
(* A rule keeps what table construction and the drivers read: its left     *)
(* hand side, its symbols, its precedence entry, whether its action is     *)
(* identityAction and whether it carries a merge function.  The code       *)
(* numbers rules from 0; here rule k+1 is the code's rule k.               *)
(***************************************************************************)
EXTENDS Naturals, Sequences

CONSTANTS
  Terminals,     \* the interned terminals, EOF excepted (ERROR when a rule uses it)
  NonTerminals   \* the interned nonterminals, ACCEPT excepted

EOF    == "$end"
ERROR  == "$error"
ACCEPT == "$accept"

TermsEOF == Terminals \cup {EOF}
Heads    == NonTerminals \cup {ACCEPT}
Symbols  == TermsEOF \cup Heads

ASSUME SymbolsAssumption ==
  /\ Terminals \cap NonTerminals = {}
  /\ {EOF, ACCEPT} \cap (Terminals \cup NonTerminals) = {}

NoPrec == [assoc |-> "none", level |-> 0]
Prec(assoc, level) == [assoc |-> assoc, level |-> level]
Precs == [assoc : {"none", "left", "right", "nonassoc", "fork"}, level : Nat]

Rules == [lhs : Heads, rhs : Seq(Symbols), prec : Precs,
          identity : BOOLEAN, merge : BOOLEAN]

(* The augmented rule `$accept -> start $end` every grammar begins with. *)
AugmentedRule(start) ==
  [lhs |-> ACCEPT, rhs |-> <<start, EOF>>, prec |-> NoPrec,
   identity |-> TRUE, merge |-> FALSE]

IsGrammar(G) ==
  /\ G \in Seq(Rules)
  /\ Len(G) > 0
  /\ \E start \in NonTerminals : G[1] = AugmentedRule(start)
  /\ \A r \in 2..Len(G) : /\ G[r].lhs \in NonTerminals
                          /\ G[r].rhs \in Seq(Terminals \cup NonTerminals)

(***************************************************************************)
(* The inner loop the FIRST, FOLLOW and LALR passes share: walk rhs from   *)
(* position k, collecting FIRST of each symbol, up to and including the    *)
(* first symbol that is not nullable.                                      *)
(***************************************************************************)
NullableFrom(nullable, rhs, k) == \A j \in k..Len(rhs) : rhs[j] \in nullable

FirstFrom(first, nullable, rhs, k) ==
  UNION {first[rhs[m]] : m \in {m \in k..Len(rhs) :
                                  \A j \in k..(m - 1) : rhs[j] \in nullable}}

-----------------------------------------------------------------------------
(***************************************************************************)
(* The FIRST / nullable fixed point of GrammarBuilder's constructor        *)
(* (core.ts): pass over the rules, one rule at a time, adding to the       *)
(* accumulated sets in place, until a whole pass changes nothing.  Every   *)
(* lookahead the table builder computes is read from these sets.           *)
(***************************************************************************)

CONSTANT Grammars   \* the grammars the builder may be given

ASSUME GrammarsAssumption == \A G \in Grammars : IsGrammar(G)

VARIABLES
  gram,       \* g.rules
  first,      \* first[sym].terms
  nullable,   \* the symbols whose first[sym].nullable is set
  ruleIx,     \* the rule the current pass scans next
  changed,    \* the pass's `changed` flag
  phase       \* the stage makeParser has reached

Phases == {"first", "lr0", "follow", "lookahead", "fill", "optimize", "ready"}

firstVars == <<gram, first, nullable, ruleIx, changed, phase>>

FirstInit ==
  /\ gram \in Grammars
  /\ first = [s \in Symbols |-> IF s \in TermsEOF THEN {s} ELSE {}]
  /\ nullable = {}
  /\ ruleIx = 1
  /\ changed = FALSE
  /\ phase = "first"

(* What a rule adds to its head. *)
RuleFirst(r) == FirstFrom(first, nullable, r.rhs, 1)

(* Did the scan add anything?  A faulty one forgets to flag nullability. *)
GrewTermsOnly == first' # first
Grew == first' # first \/ nullable' # nullable

(* One iteration of `for (const rule of this.rules)`. *)
ScanRule ==
  /\ phase = "first"
  /\ ruleIx <= Len(gram)
  /\ LET r == gram[ruleIx]
         terms == first[r.lhs] \cup RuleFirst(r)
         derivesEps == NullableFrom(nullable, r.rhs, 1)
     IN  /\ first' = [first EXCEPT ![r.lhs] = terms]
         /\ nullable' = IF derivesEps THEN nullable \cup {r.lhs} ELSE nullable
         /\ changed' = (changed \/ Grew)
  /\ ruleIx' = ruleIx + 1
  /\ UNCHANGED <<gram, phase>>

(* The test of `for (let changed = true; changed;)`: another pass ... *)
NextPass ==
  /\ phase = "first"
  /\ ruleIx > Len(gram)
  /\ changed
  /\ ruleIx' = 1
  /\ changed' = FALSE
  /\ UNCHANGED <<gram, first, nullable, phase>>

(* ... or the constructor returns. *)
FirstDone ==
  /\ phase = "first"
  /\ ruleIx > Len(gram)
  /\ ~changed
  /\ phase' = "lr0"
  /\ UNCHANGED <<gram, first, nullable, ruleIx, changed>>

FirstNext == ScanRule \/ NextPass \/ FirstDone

(* The constructor is straight-line code: it runs until it returns. *)
FirstSpec == FirstInit /\ [][FirstNext]_firstVars /\ WF_firstVars(FirstNext)
-----------------------------------------------------------------------------
(* Every variable of the constructor keeps to its type: only nonterminals   *)
(* become nullable, and the rule index never runs past the scan.            *)
FirstTypeOK ==
  /\ gram \in Grammars
  /\ first \in [Symbols -> SUBSET TermsEOF]
  /\ nullable \in SUBSET Heads
  /\ ruleIx \in 1..(Len(gram) + 1)
  /\ changed \in BOOLEAN
  /\ phase \in Phases

(* What FIRST means: a family F and a set N that satisfy every rule. *)
NullableSolution(N) ==
  \A k \in 1..Len(gram) : NullableFrom(N, gram[k].rhs, 1) => gram[k].lhs \in N

FirstSolution(F, N) ==
  /\ \A t \in TermsEOF : t \in F[t]
  /\ \A k \in 1..Len(gram) : FirstFrom(F, N, gram[k].rhs, 1) \subseteq F[gram[k].lhs]

(* A family given on the nonterminals: a terminal begins only itself, and   *)
(* ACCEPT, which no rule mentions, may begin with anything.                 *)
OnSymbols(h) == [s \in Symbols |-> IF s \in TermsEOF THEN {s}
                                   ELSE IF s = ACCEPT THEN TermsEOF ELSE h[s]]

(* The sets never grow past any solution of the FIRST equations, so no      *)
(* lookahead is invented: what is reported first really can begin a phrase. *)
FirstWithinEverySolution ==
  \A N \in SUBSET Heads : NullableSolution(N) =>
    /\ nullable \subseteq N
    /\ \A h \in [NonTerminals -> SUBSET TermsEOF] : FirstSolution(OnSymbols(h), N) =>
         \A A \in NonTerminals : first[A] \subseteq h[A]

(* A pass that ends with the flag down really scanned every rule against    *)
(* the final sets: when the constructor returns, no rule can add anything.  *)
FirstClosedWhenBuilt == phase # "first" => NullableSolution(nullable) /\ FirstSolution(first, nullable)
=============================================================================
