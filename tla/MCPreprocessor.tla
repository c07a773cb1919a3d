--------------------------- MODULE MCPreprocessor ---------------------------
(* Projects for the preprocessor: conditionals, includes and calls.         *)
EXTENDS PreprocessorMeaning

MCNumberOf(text) == CASE text = "0" -> 0 [] text = "1" -> 1 [] text = "2" -> 2 [] text = "3" -> 3 [] OTHER -> -1

Like(kind) == [kind |-> kind, phys |-> 1]
Text(toks) == [kind |-> "text", phys |-> 1, toks |-> toks]
Spliced(line) == [line EXCEPT !.phys = 2]
Object(body) == [object |-> TRUE, params |-> <<>>, variadic |-> FALSE, body |-> body]
Function(params, body) == [object |-> FALSE, params |-> params, variadic |-> FALSE, body |-> body]
Variadic(params, body) == [Function(params, body) EXCEPT !.variadic = TRUE]
Defines(name, macro) == Like("define") @@ [name |-> name, macro |-> macro]
On(kind, name) == Like(kind) @@ [name |-> name]
Leaf(text) == [leaf |-> text]
Tests(kind, toks, tree) == Like(kind) @@ [expr |-> toks, tree |-> tree]
Value(kind, text) == Tests(kind, <<text>>, Leaf(text))
None == [n \in {} |-> n]

(* Every sequence of conditional lines, of a macro that comes and goes. *)
CondLines == {Value("if", "M"), On("ifdef", "M"), On("ifndef", "M"), Value("elif", "1"), Like("else"), Like("endif"),
              Defines("M", Object(<<"1">>)), Text(<<"q", "M">>), On("undef", "M")}
Conditionals ==
  {[files |-> "main" :> lines, defines |-> None] : lines \in {l \in [1..5 -> CondLines] : Balanced(l) /\ Opens(l[1])}}
(* Some that do not pair up, and expressions that make no sense: their tree *)
(* has no value.                                                            *)
NoSense(kind) == Tests(kind, <<"1", "+">>, [op |-> "/", args |-> <<Leaf("1"), Leaf("0")>>])
Wrong ==
  {[files |-> "main" :> lines, defines |-> None] :
     lines \in {l \in [1..3 -> CondLines] : ~Balanced(l)}
              \cup {<<NoSense("if"), Like("endif")>>, <<Value("if", "0"), NoSense("elif"), Like("endif")>>}}

(* Calls over two lines, what they expand to and what follows them. *)
MacroTables == {
  "F" :> Function(<<"x">>, <<"x", "F", "(", "x", ")">>) @@ "O" :> Object(<<"F", "O">>),
  "F" :> Function(<<"x">>, <<"G", "(", "x", ")">>) @@ "G" :> Function(<<"x">>, <<"x", "O", "F", "(", "O", ")">>)
    @@ "O" :> Object(<<"G", "(", "O", ")">>),
  "F" :> Function(<<"x", "y">>, <<"y", "x", "##", "y", "O">>) @@ "OO" :> Object(<<"O", "+">>) @@ "O" :> Object(<<"OO">>)
    @@ "Ox" :> Object(<<"F", "(", "O", ",", "x", ")">>),
  "F" :> Variadic(<<"x">>, <<"f", "(", "x", ",", "##", "__VA_ARGS__", ")", "#", "x">>) @@ "O" :> Object(<<"F", "(", "F", ")">>),
  "F" :> Variadic(<<>>, <<"O", "__VA_ARGS__", "x", "##", "__VA_ARGS__">>) @@ "O" :> Function(<<>>, <<"O", "(", ")">>)}
Calls == {<<"F", "(">> \o t : t \in UNION {[1..n -> {"O", "x", ",", "(", ")"}] : n \in {2, 4}}}
TextProjects ==
  {[files |-> "main" :> <<Text(SubSeq(t, 1, 3)), Text(SubSeq(t, 4, Len(t)) \o <<")">>), Spliced(Like("other")), Text(<<"q", "O">>)>>,
    defines |-> table] : t \in Calls, table \in MacroTables}

(* A header that may say #pragma once, guard itself, include itself or      *)
(* another, and what its includer tests.                                    *)
Headers == {<<Like("once"), Text(<<"h", "q">>)>>,
            <<On("ifndef", "H"), Defines("H", Object(<<"1">>)), Text(<<"h">>), Like("endif")>>,
            <<Text(<<"h">>), On("include", "h")>>,
            <<Like("once"), On("include", "k"), Text(<<"h">>)>>,
            <<On("ifdef", "H"), On("undef", "H"), Like("else"), Defines("H", Object(<<"h", "H">>)), Like("endif")>>,
            <<On("ifdef", "H"), Text(<<"h">>), Like("error"), Like("endif")>>,
            <<On("ifndef", "H"), On("include", "k"), Like("endif")>>}
Inner == {<<Text(<<"k">>), On("include", "h")>>, <<Like("once"), Defines("H", Object(<<"1">>)), On("include", "h")>>,
          <<Like("once"), On("include", "h"), Text(<<"k">>)>>}
MainLines == {On("include", "h"), On("include", "k"), On("ifdef", "H"), Like("else"), Like("endif"), Text(<<"q", "H">>)}
IncludeProjects ==
  {[files |-> "main" :> lines @@ "h" :> h @@ "k" :> k, defines |-> None] :
     lines \in {l \in UNION {[1..n -> MainLines] : n \in 1..4} : Balanced(l)}, h \in Headers, k \in Inner}

(* #if of the trees of two operators, without a parenthesis more than       *)
(* needed.                                                                  *)
Binaries == DOMAIN Precedence
Strength(tree) == IF "leaf" \in DOMAIN tree \/ tree.op \in {"!", "neg", "defined"} THEN 20
                  ELSE IF tree.op = "?" THEN 0 ELSE Precedence[tree.op]
RECURSIVE Written(_)
Within(tree, min) == IF Strength(tree) >= min THEN Written(tree) ELSE <<"(">> \o Written(tree) \o <<")">>
Written(tree) ==
  IF "leaf" \in DOMAIN tree THEN <<tree.leaf>>
  ELSE CASE tree.op = "!" -> <<"!">> \o Within(tree.args[1], 20)
         [] tree.op = "neg" -> <<"-">> \o Within(tree.args[1], 20)
         [] tree.op = "defined" -> <<"defined">> \o Within(tree.args[1], 20)
         [] tree.op = "?" -> Within(tree.args[1], 1) \o <<"?">> \o Written(tree.args[2]) \o <<":">> \o Written(tree.args[3])
         [] OTHER -> Within(tree.args[1], Precedence[tree.op]) \o <<tree.op>> \o Within(tree.args[2], Precedence[tree.op] + 1)
Leaves == {Leaf("0"), Leaf("2"), Leaf("3")}
Small == Leaves \cup {[op |-> o, args |-> <<a>>] : o \in {"!", "neg"}, a \in {Leaf("2")}} \cup
         {[op |-> "defined", args |-> <<Leaf(n)>>] : n \in {"M", "x"}} \cup
         {[op |-> o, args |-> <<a, Leaf("2")>>] : o \in Binaries, a \in {Leaf("3"), Leaf("M")}} \cup
         {[op |-> "?", args |-> <<Leaf("0"), Leaf("2"), Leaf("M")>>]}
Trees == Small \cup {[op |-> o, args |-> <<a, b>>] : o \in Binaries, a \in Small, b \in {Leaf("3")}} \cup
         {[op |-> o, args |-> <<b, a>>] : o \in Binaries, a \in Small, b \in {Leaf("3")}} \cup
         {[op |-> "?", args |-> <<b, a, Leaf("x")>>] : a \in Small, b \in Leaves}
ExprProjects ==
  {[files |-> "main" :> <<Tests("if", Written(t), t), Text(<<"q">>), Like("endif")>>,
    defines |-> "M" :> Object(<<"1">>)] : t \in Trees}

MCProjects == Conditionals \cup Wrong \cup TextProjects \cup IncludeProjects \cup ExprProjects
=============================================================================
