---------------------------- MODULE MCTableCache ----------------------------
(* Instances of the table cache: one source with three contents, whose      *)
(* grammars differ in an action, in a precedence or in shape.               *)
EXTENDS TableCache

Rule(lhs, rhs) == [lhs |-> lhs, rhs |-> rhs, prec |-> "", default |-> FALSE]
Pass(lhs, rhs) == [Rule(lhs, rhs) EXCEPT !.default = TRUE]
Prec(lhs, rhs, prec) == [Rule(lhs, rhs) EXCEPT !.prec = prec]
Augmented == Rule("$accept", <<"S", "$end">>)

(* S -> B, B -> x, with or without an action of its own on S -> B.          *)
Chain(pass) ==
  [terms |-> <<" ", "x">>, always |-> <<>>, skip |-> <<" ">>,
   rules |-> <<Augmented, IF pass THEN Pass("S", <<"B">>) ELSE Rule("S", <<"B">>), Rule("B", <<"x">>)>>]
(* ... to which S -> - is added. *)
ChainAdded(pass) ==
  [terms |-> <<" ", "-", "x">>, always |-> <<>>, skip |-> <<" ">>,
   rules |-> <<Augmented, IF pass THEN Pass("S", <<"B">>) ELSE Rule("S", <<"B">>), Rule("S", <<"-">>), Rule("B", <<"x">>)>>]
(* S -> S + S, S -> x with a precedence; x is lexed everywhere. *)
Sum(prec) ==
  [terms |-> <<"x", " ", "+">>, always |-> <<"x">>, skip |-> <<" ">>,
   rules |-> <<Augmented, Prec("S", <<"S", "+", "S">>, prec), Rule("S", <<"x">>)>>]

MCGrammarOf(loaded, added) ==
  CASE loaded[1] = "pass" -> IF added THEN ChainAdded(TRUE) ELSE Chain(TRUE)
    [] loaded[1] = "act" -> IF added THEN ChainAdded(FALSE) ELSE Chain(FALSE)
    [] loaded[1] = "fork" -> Sum(IF added THEN "left0" ELSE "fork0")

(* What buildLALR and eliminateUnitGotos make of them (flag 2: the latter   *)
(* is left out); states are counted from 0.                                 *)
Filled(g, rows) == [i \in 1..Len(rows) |-> FillAlways(g, rows[i])]
MCTables(g, setup) ==
  LET skips == g.rules[2].default /\ setup.flags = 0
      Goto(state) == IF skips THEN 1 ELSE state
  IN  CASE g.rules[2].rhs = <<"B">> /\ Len(g.rules) = 3 ->
             [action |-> Filled(g, << <<<<"x", Shift(3)>>>>, <<<<"$end", AcceptEntry>>>>,
                                      <<<<"$end", Reduce(1)>>>>, <<<<"$end", Reduce(2)>>>> >>),
              goto |-> << <<<<"S", 1>>, <<"B", Goto(2)>>>>, <<>>, <<>>, <<>> >>]
        [] g.rules[2].rhs = <<"B">> /\ Len(g.rules) = 4 ->
             [action |-> Filled(g, << <<<<"-", Shift(3)>>, <<"x", Shift(4)>>>>, <<<<"$end", AcceptEntry>>>>,
                                      <<<<"$end", Reduce(1)>>>>, <<<<"$end", Reduce(2)>>>>, <<<<"$end", Reduce(3)>>>> >>),
              goto |-> << <<<<"S", 1>>, <<"B", Goto(2)>>>>, <<>>, <<>>, <<>>, <<>> >>]
        [] OTHER ->
             [action |-> Filled(g, << <<<<"x", Shift(2)>>>>, <<<<"$end", AcceptEntry>>, <<"+", Shift(3)>>>>,
                                      <<<<"$end", Reduce(2)>>, <<"+", Reduce(2)>>>>, <<<<"x", Shift(2)>>>>,
                                      <<<<"+", IF g.rules[2].prec = "fork0" THEN Conflict(<<Shift(3), Reduce(1)>>) ELSE Reduce(1)>>,
                                        <<"$end", Reduce(1)>>>> >>),
              goto |-> << <<<<"S", 1>>>>, <<>>, <<>>, <<<<"S", 4>>>>, <<>> >>]

(* Two contents of one size. *)
MCSizeOf(content) == IF content = "fork" THEN 5 ELSE 4
MCEditedTo(content) ==
  CASE content = "pass" -> {"act"} [] content = "act" -> {"fork"} [] OTHER -> {"pass"}
(* The digest as a number: no two of these texts collide. *)
Digested == SetToSeq({<<g.terms, g.always, g.skip, [r \in 1..Len(g.rules) |-> g.rules[r].prec]>> :
                        g \in {MCGrammarOf(<<c>>, a) : c \in Contents, a \in BOOLEAN}})
MCHash(text) == Position(Digested, <<text[1], text[2], text[3], [r \in 1..Len(text[4]) |-> text[4][r][3]]>>)

MCMagic == <<6, 5>>
MCSpoiled(bytes) == {Append(bytes, 0), <<6, 5, 4>>}
Alike == Permutations(Processes)
MCUnedited(content) == {}
One == [engine |-> 4, flags |-> 0]
MCSetups == {One, [One EXCEPT !.flags = 2]}
=============================================================================
