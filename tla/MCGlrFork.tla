---------------------------- MODULE MCGlrFork ----------------------------
(* Instances of the parser and the fork explorer: every text of up to       *)
(* MaxInput lexemes, on unambiguous grammars, operator grammars with a      *)
(* precedence for each operator, and grammars that fork.                    *)
EXTENDS ParserMeaning, MCTables

OneEach == [l \in Terminals |-> <<l>>]

PostfixOps == Rooted(<<Unit("S", "A"), R("A", <<"A", "b">>), R("A", <<"a">>)>>)
LanguageGrammars == {PostfixOps, Pointers, NotLALR, Lists, RightNested, UnitList, Optional, Backwards}

MCPrecs == {Prec("left", 1), Prec("left", 2), Prec("right", 1), Prec("right", 2)}
OperatorGrammars ==
  {Operators(p, q) : <<p, q>> \in {x \in MCPrecs \X MCPrecs :
                        x[1].level = x[2].level => x[1] = x[2]}}

F(lhs, rhs) == RP(lhs, rhs, Fork)

(* An operator with no associativity, alone and before a terminator. *)
Additive == Rooted(<<F("S", <<"S", "a", "S">>), R("S", <<"c">>)>>)
Terminated == Rooted(<<R("S", <<"A", "b">>), F("A", <<"A", "a", "A">>), R("A", <<"c">>)>>)
DanglingElse == Rooted(<<F("S", <<"a", "S">>), R("S", <<"a", "S", "b", "S">>), R("S", <<"c">>)>>)
(* LR(2): which of A and B it was shows one token later. *)
LR2 == Rooted(<<R("S", <<"A", "b", "a">>), R("S", <<"B", "b", "b">>),
                F("A", <<"c">>), F("B", <<"c">>)>>)
Palindromes == Rooted(<<F("S", <<"a", "S", "a">>), F("S", <<"b", "S", "b">>),
                        F("S", <<"a">>), F("S", <<"b">>)>>)
(* Two ways to the same nonterminal, over the same text. *)
TwoWays == Rooted(<<R("S", <<"A", "b">>), R("S", <<"a", "B", "b">>), F("A", <<"a", "c">>), F("B", <<"c">>),
                    R("A", <<"B", "c">>), F("B", <<"a">>)>>)

(* Two ways to a nonterminal of which one is a rule longer: the short one   *)
(* has been followed when the other comes to it.                            *)
Longer(use) == Rooted(<<R("S", use), F("A", <<"a">>), F("B", <<"a">>), R("A", <<"B">>)>>)

GlrGrammars == {Additive, Terminated, DanglingElse, LR2, Palindromes, TwoWays,
                Longer(<<"A", "b">>), Longer(<<"A">>)}
LongerGrammars == {Longer(<<"A">>)}
ParserGrammars == LanguageGrammars \cup OperatorGrammars \cup GlrGrammars

(* A hidden left recursion, and derivations that recovery keeps alive. *)
Hidden == Rooted(<<R("S", <<"A", "S", "b">>), R("S", <<"c">>), F("A", <<>>), F("S", <<"b">>)>>)
Virtual == Rooted(<<R("S", <<"A", "b">>), R("S", <<"B", "c">>), F("A", <<"a">>), F("B", <<"a">>),
                    R("A", <<"A", "c">>)>>)

(* Lists whose trees do not grow, so that a recovery that is never stuck    *)
(* comes back to where it was.                                              *)
Flat(rules) == Rooted([k \in 1..Len(rules) |-> [rules[k] EXCEPT !.identity = TRUE]])
Endless == {Flat(<<R("S", <<"S", "a">>), R("S", <<>>)>>),
            Flat(<<R("S", <<"S", "A">>), R("S", <<>>), R("A", <<"a", "B", "b">>), R("B", <<>>)>>)}
(* An ignored terminal that one rule also uses. *)
Skipped == Rooted(<<R("S", <<"b", "A", "a">>), R("S", <<"c", "A", "b">>), R("A", <<"c">>)>>)
RecoveryGrammars == Endless \cup {Hidden, Virtual, Skipped, Lists, UnitList, Optional,
                                  Dangling, Operators(Fork, Prec("nonassoc", 1))}

Raw == [slr : {FALSE}, optimize : {FALSE}]
Either == [slr : {FALSE}, optimize : BOOLEAN]
=============================================================================
