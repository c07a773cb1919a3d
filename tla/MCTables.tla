------------------------------ MODULE MCTables ------------------------------
(* Instances of the table construction: grammars that between them exercise *)
(* recursion on both sides, epsilon rules, nonterminals that derive nothing *)
(* or are never reached, the classes SLR, LALR(1) and LR(1), every pair of  *)
(* precedences for two operators, rules that compete for one lookahead, and *)
(* chains and cycles of unit rules, with actions and merges of their own.   *)
EXTENDS UnitGotos

RP(lhs, rhs, prec) == [lhs |-> lhs, rhs |-> rhs, prec |-> prec,
                       identity |-> FALSE, merge |-> FALSE]
R(lhs, rhs) == RP(lhs, rhs, NoPrec)
(* A rule written as a bare symbol or array: its action is identityAction. *)
Unit(lhs, sym) == [R(lhs, <<sym>>) EXCEPT !.identity = TRUE]
Rooted(rules) == <<AugmentedRule("S")>> \o rules

(* Assignments: `S -> L = R | R; L -> * R | a; R -> L`, LALR but not SLR.   *)
Pointers == Rooted(<<R("S", <<"A", "b", "B">>), R("S", <<"B">>), R("A", <<"c", "B">>),
                     R("A", <<"a">>), R("B", <<"A">>)>>)
(* LR(1) but not LALR(1): merging two states joins their lookaheads. *)
NotLALR == Rooted(<<R("S", <<"a", "A", "a">>), R("S", <<"b", "A", "b">>),
                    R("S", <<"a", "B", "b">>), R("S", <<"b", "B", "a">>),
                    R("A", <<"c">>), R("B", <<"c">>)>>)
Lists == Rooted(<<R("S", <<"S", "A">>), R("S", <<>>), R("A", <<"a", "B", "b">>),
                  R("B", <<>>), R("B", <<"B", "c">>)>>)
RightNested == Rooted(<<R("S", <<"A", "B", "S">>), R("S", <<"c">>), R("A", <<>>),
                        R("A", <<"a">>), R("B", <<"A">>), R("B", <<"b", "B">>)>>)
UnitCycle == Rooted(<<R("S", <<"A">>), R("A", <<"B">>), R("B", <<"A">>),
                      R("A", <<"a", "A">>), R("B", <<"b">>)>>)
LeftUnit == Rooted(<<R("S", <<"S">>), R("S", <<"A", "S", "a">>), R("A", <<"A">>),
                     R("A", <<>>), R("S", <<"b">>)>>)
Barren == Rooted(<<R("S", <<"A", "B">>), R("S", <<"a">>), R("A", <<"S", "c">>),
                   R("B", <<"B", "b">>)>>)
Nested == Rooted(<<R("S", <<"a", "S", "A">>), R("S", <<>>), R("A", <<"b", "S">>),
                   R("A", <<"B">>), R("B", <<"S", "c">>)>>)
(* Rules listed against the flow of the followers: one pass is not enough. *)
Backwards == Rooted(<<R("A", <<"B">>), R("S", <<"A", "c">>), R("B", <<"b">>)>>)
(* Found to be empty only after the rule that uses it was scanned. *)
Vanishing == Rooted(<<R("S", <<"A">>), R("A", <<>>)>>)

UnitList == Rooted(<<Unit("S", "A"), R("S", <<"S", "a", "A">>), Unit("A", "B"),
                     R("B", <<"b">>), R("B", <<"c", "S", "c">>)>>)
Optional == Rooted(<<R("S", <<"A", "b", "B">>), R("A", <<>>), R("A", <<"a", "A">>),
                     R("B", <<>>), Unit("B", "S")>>)

(* Two operators over one operand, with the given precedences. *)
Operators(p, q) == Rooted(<<RP("S", <<"S", "a", "S">>, p), RP("S", <<"S", "b", "S">>, q),
                            R("S", <<"c">>)>>)
(* Three rules that reduce on the same lookahead. *)
ThreeWays(p, q, r) == Rooted(<<R("S", <<"A">>), R("S", <<"B">>), R("A", <<"B">>),
                               RP("A", <<"a">>, p), RP("B", <<"a">>, q), RP("S", <<"a">>, r)>>)
(* After S, the end of input is both accepted and the cue to reduce A. *)
EmptyTail == Rooted(<<R("S", <<"S", "A">>), R("S", <<"b">>), R("A", <<>>), R("A", <<"a">>)>>)
(* The dangling else. *)
Dangling == Rooted(<<R("S", <<"a", "S">>), R("S", <<"a", "S", "b", "S">>), R("S", <<"c">>)>>)

-----------------------------------------------------------------------------
(* Variations of three rules of S and A. *)
Recursions ==
  {Rooted(<<R("S", x), R("S", y), R("A", z), R("A", <<"b">>)>>) :
     x \in {<<"A">>, <<"S", "A">>, <<"A", "b", "A">>, <<"S", "a", "A">>},
     y \in {<<"a">>, <<"b", "S", "A">>}, z \in {<<>>, <<"S">>, <<"b", "A">>, <<"A", "a">>}}
Classes == {Pointers, NotLALR, Lists, RightNested, UnitCycle, LeftUnit, Barren, Nested, Backwards,
            Vanishing}

AnyPrecs == {NoPrec} \cup {Prec(a, l) : a \in {"left", "right", "nonassoc", "fork"}, l \in {1, 2}}
Fork == Prec("fork", 0)
Conflicts == {Operators(p, q) : p, q \in AnyPrecs}
               \cup {ThreeWays(p, q, r) : p, q, r \in {NoPrec, Fork}} \cup {EmptyTail, Dangling}

Plain(lhs, sym) == R(lhs, <<sym>>)
Merging(lhs, sym) == [Unit(lhs, sym) EXCEPT !.merge = TRUE]

(* S -> A, A -> B, B -> x, in each strength, and against the order of use. *)
Chains == {Rooted(<<x, y, R("B", <<"a">>), R("B", <<"b", "S", "c">>)>>) :
             x \in {Unit("S", "A"), Plain("S", "A"), Merging("S", "A")},
             y \in {Unit("A", "B"), Plain("A", "B"), Merging("A", "B")}}
ChainsBack == {Rooted(<<R("B", <<"a">>), R("B", <<"S", "b">>), Unit("A", "B"), x>>) :
                 x \in {Unit("S", "A"), R("S", <<"a", "A">>)}}
(* A unit rule that shares its state with another use of the same symbol. *)
Shared == {Rooted(<<Unit("S", "A"), R("S", <<"A", "b">>), x, R("B", <<"c">>)>>) :
             x \in {Unit("A", "B"), R("A", <<"a", "B">>)}}
Cycles == {Rooted(<<Unit("S", "A"), Unit("A", "B"), x, R("B", <<"a">>), R("S", <<"b", "S">>)>>) :
             x \in {Unit("B", "A"), Unit("B", "S"), Unit("A", "A")}}
Fan == {Rooted(<<Unit("S", "A"), Unit("S", "B"), R("A", <<"a", "S">>), R("A", <<"b">>),
                 R("B", <<"c">>), x>>) : x \in {Unit("A", "B"), R("B", <<"S", "a">>)}}
UnitRules == Chains \cup ChainsBack \cup Shared \cup Cycles \cup Fan

AllGrammars == Recursions \cup Classes \cup Conflicts \cup UnitRules
MCOptions == [slr : BOOLEAN, optimize : BOOLEAN]
=============================================================================
