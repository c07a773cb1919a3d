--------------------------- MODULE ParserMeaning ---------------------------
(* What the value of a call means: the parse trees of its text.             *)
EXTENDS GlrFork

(* The trees a value stands for, its alternatives taken one at a time. *)
RECURSIVE Trees(_)
Trees(v) ==
  IF "alts" \in DOMAIN v THEN UNION {Trees(v.alts[k]) : k \in 1..Len(v.alts)}
  ELSE IF IsNode(v)
       THEN LET n == Len(v.kids)
                kids == {ks \in [1..n -> UNION {Trees(v.kids[k]) : k \in 1..n}] :
                           \A k \in 1..n : ks[k] \in Trees(v.kids[k])}
            IN  {[rule |-> v.rule, kids |-> ks] : ks \in kids}
  ELSE {v}

(* The trees of the grammar itself for the terminals i+1..j of a text, for  *)
(* a grammar without empty rules and unit cycles.                           *)
RECURSIVE ParseTrees(_, _, _)
ParseTrees(sym, i, j) ==
  IF sym \notin Heads
  THEN IF j = i + 1 /\ Text(j)[j] = sym THEN {Leaf([type |-> sym, at |-> j])} ELSE {}
  ELSE UNION {
    LET n == Len(gram[r].rhs)
        cuts == {c \in [0..n -> i..j] : /\ c[0] = i /\ c[n] = j
                                        /\ \A k \in 1..n : c[k - 1] < c[k]}
        Kids(c) == {ks \in [1..n -> UNION {ParseTrees(gram[r].rhs[k], c[k - 1], c[k]) : k \in 1..n}] :
                      \A k \in 1..n : ks[k] \in ParseTrees(gram[r].rhs[k], c[k - 1], c[k])}
        Value(ks) == RuleValue(r, [k \in 1..n |-> [value |-> ks[k]]])
    IN  {Value(ks) : ks \in UNION {Kids(c) : c \in cuts}} :
      r \in {r \in 2..Len(gram) : gram[r].lhs = sym}}

EpsilonFree == \A r \in 2..Len(gram) : gram[r].rhs # <<>>

(* Whatever was forked, merged and abandoned on the way, every              *)
(* interpretation a call returns is a tree of the grammar for the text.     *)
EveryInterpretationIsAParse ==
  mode = "accepted" /\ EpsilonFree =>
    Trees(result.value) \subseteq ParseTrees(Start, 0, result.consumed)

(* README: where paths converge their values are combined, "by default,    *)
(* into an array of all the surviving interpretations": no tree of an       *)
(* accepted text is missing where the tables keep every alternative.        *)
EveryParseIsReturned ==
  mode = "accepted" /\ EpsilonFree /\ NoLosses =>
    ParseTrees(Start, 0, Len(input)) \subseteq Trees(result.value)

(* Nobody was waiting to be followed when an accept ended the sweep.        *)
NobodyWaits == fork.worklist = <<>>

(* A call returns parses of the text, and all of them, whatever order its   *)
(* derivations are stepped and merged in - unless an accept came before one *)
(* of them.                                                                 *)
ReturnsTheParses == EveryInterpretationIsAParse /\ (NobodyWaits => EveryParseIsReturned)
=============================================================================
