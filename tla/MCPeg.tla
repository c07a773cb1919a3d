------------------------------- MODULE MCPeg -------------------------------
(* Instances of the PEG back end: specifications as a user writes them,     *)
(* from operator grammars to those the analysis refuses, each with the      *)
(* texts and options it is tried on.                                        *)
EXTENDS PegMeaning

(* Symbols, rules and arrays of a specification. *)
T(name) == [is |-> "text", of |-> name, negs |-> <<>>]
P(name) == [is |-> "pattern", of |-> name, negs |-> <<>>]
A(array) == [is |-> "array", of |-> array, negs |-> <<>>]
N(name) == [is |-> "ref", of |-> name, negs |-> <<>>]
Mid == [is |-> "mid", of |-> "", negs |-> <<>>]
Not(s) == [s EXCEPT !.negs = <<TRUE>> \o @]
And(s) == [s EXCEPT !.negs = <<FALSE>> \o @]
NoneGiven == [by |-> "none", of |-> ""]
R(rhs) == [rhs |-> rhs, prec |-> NoneGiven, identity |-> FALSE]
RP(rhs, by, of) == [R(rhs) EXCEPT !.prec = [by |-> by, of |-> of]]
Default(rhs) == [R(rhs) EXCEPT !.identity = TRUE]
Just(array) == Default(<<A(array)>>)
Named(name, array) == [name |-> name, of |-> array]
Level(name, assoc, level) == [name |-> name, assoc |-> assoc, level |-> level, object |-> name]

Modes(modes, prefixes, depths) == [modes |-> modes, prefixes |-> prefixes, depths |-> depths]
Plain == Modes({TRUE}, {FALSE}, {60})
Spec(start, rules, arrays, precedence, skip, chars, longest, how) ==
  [start |-> start, rules |-> rules, arrays |-> arrays, precedence |-> precedence, skip |-> skip,
   terminals |-> <<>>, chars |-> chars, longest |-> longest, how |-> how]

MCTextsOf(s) == UNION {[1..n -> s.chars] : n \in 0..s.longest}
MCOptionsOf(s) == [memo : BOOLEAN, maxMunch : s.how.modes, maxDepth : s.how.depths, prefix : s.how.prefixes]

(* E -> E + E | E * E | - E | x, levels by name. *)
Arithmetic ==
  Spec("E", <<>>, [E |-> <<RP(<<A("E"), T("+"), A("E")>>, "name", "sum"), RP(<<A("E"), T("*"), A("E")>>, "name", "product"),
                           RP(<<T("-"), A("E")>>, "name", "unary"), R(<<T("x")>>)>>],
       <<Level("sum", "left", 0), Level("product", "left", 0), Level("unary", "right", 0)>>, <<>>,
       {"x", "+", "*", "-"}, 5, Plain)
(* A right associative operator under a left one, a level asked for by      *)
(* number, both referred to by the table's own objects; blanks.             *)
Powers ==
  Spec("none", <<Named("E", "E")>>,
       [E |-> <<RP(<<T("E"), T("^"), T("E")>>, "entry", "power"), RP(<<T("E"), T("+"), T("E")>>, "entry", "sum"), R(<<T("x")>>)>>],
       <<Level("low", "nonassoc", 3), Level("sum", "left", 2), Level("power", "right", 0)>>, <<" ">>,
       {"x", "^", "+", " "}, 5, Modes({TRUE}, {FALSE, TRUE}, {60}))
(* A nonassociative operator that binds least, with blanks in between. *)
Comparison ==
  Spec("E", <<>>, [E |-> <<RP(<<A("E"), T("="), A("E")>>, "name", "compare"), RP(<<A("E"), T("+"), A("E")>>, "name", "sum"), R(<<T("x")>>)>>],
       <<Level("compare", "nonassoc", 0), Level("sum", "left", 0)>>, <<>>, {"x", "=", "+"}, 5, Plain)

(* Lists in brackets: MaybeList(value, ',') with its arrays found on the way. *)
Nested ==
  Spec("none", <<Named("value", "V")>>,
       [V |-> <<R(<<T("["), A("M"), T("]")>>), R(<<P("x")>>)>>,
        L |-> <<R(<<N("value")>>), R(<<A("L"), T(","), N("value")>>)>>,
        M |-> <<Just("L"), R(<<>>)>>],
       <<>>, <<>>, {"[", "]", ",", "x"}, 4, Modes({TRUE}, {FALSE}, {3, 60}))
(* An optional sign (Maybe, its empty alternative first), a mid-rule action *)
(* that looks back past it, a lookahead and a blank.                        *)
Signed ==
  Spec("S", <<Named("sign", "O")>>,
       [S |-> <<R(<<And(A("O")), T("sign"), Mid, P("x"), A("K")>>), R(<<T("sign"), P("x")>>)>>,
        O |-> <<R(<<>>), R(<<T("-")>>)>>,
        K |-> <<R(<<Not(P("x")), And(T("+")), T("+"), A("S")>>), R(<<T("+")>>)>>],
       <<>>, <<" ">>, {"x", "-", "+", " "}, 4, Modes({TRUE}, {FALSE, TRUE}, {60}))
(* Keywords: an identifier that is not the keyword, and the keyword. *)
Keywords ==
  Spec("none", <<Named("stmt", "S"), Named("word", "W")>>,
       [S |-> <<R(<<N("word")>>), R(<<T("if"), N("word")>>), R(<<T("if")>>)>>,
        W |-> <<R(<<Not(T("if")), P("ident")>>)>>],
       <<>>, <<" ">>, {"i", "f", " "}, 4, Modes(BOOLEAN, {FALSE}, {60}))
(* A terminal whose callback looks at the token before, reached at one      *)
(* offset behind different tokens.                                          *)
LooksBack ==
  Spec("S", <<>>, [S |-> <<R(<<P("p"), A("B"), T("x")>>), R(<<P("q"), A("B")>>)>>,
                   B |-> <<R(<<P("after q")>>)>>],
       <<>>, <<>>, {"i", "x"}, 3, Modes(BOOLEAN, {FALSE, TRUE}, {60}))
(* Left recursion over a seed that may be empty, and a tail that may be. *)
EmptySeed ==
  Spec("S", <<>>, [S |-> <<R(<<A("S"), T("x")>>), Default(<<A("S"), A("O")>>), R(<<>>)>>, O |-> <<R(<<>>), R(<<T("-")>>)>>],
       <<>>, <<" ">>, {"x", "-", " "}, 3, Plain)
EmptyTail ==
  Spec("S", <<>>, [S |-> <<Default(<<A("S"), A("O")>>), R(<<A("S"), T("+")>>), R(<<T("x")>>)>>, O |-> <<R(<<>>), R(<<T("-")>>)>>],
       <<>>, <<>>, {"x", "-", "+"}, 4, Plain)
(* Alternatives that hide others: a prefix, a duplicate, an empty one. *)
Shadowing ==
  Spec("S", <<>>, [S |-> <<R(<<T("x"), A("D")>>), R(<<T("x"), A("D"), T("+")>>), R(<<T("x")>>), R(<<T("x"), A("D")>>)>>,
                   D |-> <<R(<<>>), R(<<T("-")>>), R(<<>>)>>],
       <<>>, <<>>, {"x", "-", "+"}, 3, Plain)
(* An alternative reported as hidden that its level brings back. *)
LevelledShadow ==
  Spec("S", <<>>, [S |-> <<RP(<<T("-"), A("S")>>, "name", "low"), RP(<<T("-"), A("S"), T("+")>>, "name", "high"),
                           RP(<<A("S"), T("*"), A("S")>>, "name", "middle"), R(<<T("x")>>)>>],
       <<Level("low", "left", 0), Level("middle", "left", 0), Level("high", "left", 0)>>, <<>>,
       {"x", "-", "+", "*"}, 4, Plain)

(* Refused: a cycle of two and of three, one through a nullable symbol and  *)
(* a predicate, recursion past a nullable prefix; and cycles side by side.  *)
Refused == {
  Spec("S", <<>>, [S |-> <<R(<<A("B"), T("x")>>), R(<<T("x")>>)>>, B |-> <<R(<<A("S"), T("+")>>), R(<<A("B"), T("-")>>)>>],
       <<>>, <<>>, {"x"}, 1, Plain),
  Spec("S", <<>>, [S |-> <<R(<<A("O"), A("B")>>), R(<<A("C")>>)>>, O |-> <<R(<<>>), R(<<T("-")>>)>>,
                   B |-> <<R(<<And(A("C")), T("x")>>)>>, C |-> <<R(<<Not(T("x")), A("D")>>)>>,
                   D |-> <<R(<<A("O"), A("B")>>), R(<<A("F")>>)>>, F |-> <<R(<<A("F"), T("x")>>), R(<<A("O")>>)>>],
       <<>>, <<>>, {"x"}, 1, Plain),
  Spec("S", <<>>, [S |-> <<R(<<A("O"), A("S"), T("x")>>), R(<<T("x")>>)>>, O |-> <<R(<<>>), R(<<T("-")>>)>>],
       <<>>, <<>>, {"x"}, 1, Plain),
  Spec("S", <<>>, [S |-> <<R(<<A("B")>>), R(<<A("C"), A("D")>>)>>, B |-> <<R(<<A("C")>>), R(<<T("x")>>)>>,
                   C |-> <<R(<<A("B"), T("x")>>)>>, D |-> <<R(<<A("F")>>)>>, F |-> <<R(<<A("D")>>), R(<<A("B")>>)>>],
       <<>>, <<>>, {"x"}, 1, Plain)}
(* A name used for a terminal, an array without alternatives, a predicate   *)
(* under another around the head, a terminal that matches nothing.          *)
Odd == {
  Spec("none", <<Named("S", "S")>>, [S |-> <<R(<<P("S")>>)>>], <<>>, <<>>, {"x"}, 1, Plain),
  Spec("S", <<>>, [S |-> <<R(<<T("x"), A("none")>>), R(<<T("x")>>)>>, none |-> <<>>], <<>>, <<>>, {"x"}, 2, Plain),
  Spec("S", <<>>, [S |-> <<R(<<Not(Not(A("S"))), T("x")>>)>>], <<>>, <<>>, {"x"}, 1, Plain),
  Spec("S", <<>>, [S |-> <<R(<<P("maybe -"), A("S")>>), R(<<T("x")>>)>>], <<>>, <<>>, {"x", "-"}, 2, Plain)}

MCSpecs == {Arithmetic, Powers, Comparison, Nested, Signed, Keywords, LooksBack,
            EmptySeed, EmptyTail, Shadowing, LevelledShadow} \cup Refused \cup Odd

(* Terminals: one character each, but for the words of an identifier, the   *)
(* keyword, a blank of any length and a pattern that may match nothing.     *)
Word(w) == [word |-> w, whole |-> FALSE]
Whole(w) == [word |-> w, whole |-> TRUE]
Letter == <<"i", "f">>
WordsOf(n) == [k \in 1..(2 ^ n) |-> [j \in 1..n |-> Letter[(((k - 1) \div (2 ^ (n - j))) % 2) + 1]]]
Words == FlattenSeq([n \in 1..4 |-> WordsOf(5 - n)])
MCPattern == [
  x |-> <<Whole(<<"x">>)>>, if |-> <<Whole(<<"i", "f">>)>>,
  p |-> <<Word(<<"i">>)>>, q |-> <<Word(<<"i">>)>>, ident |-> [k \in 1..Len(Words) |-> Word(Words[k])], S |-> <<Word(<<"x">>)>>]
  @@ ("after q" :> <<Word(<<"x">>)>>)
  @@ ("maybe -" :> <<Word(<<"-">>), Word(<<>>)>>)
  @@ (" " :> <<Word(<<" ", " ">>), Word(<<" ">>)>>)
  @@ [c \in {"+", "*", "-", "^", "=", "|", "[", "]", ","} |-> <<Word(<<c>>)>>]
MCSourceRank == [t \in DOMAIN MCPattern |-> CASE t = "ident" -> 1 [] t = "q" -> 2 [] t = "x" -> 3 [] OTHER -> 4]
PrevTypes == DOMAIN MCPattern \cup {"none"}
MCCallback == [t \in DOMAIN MCPattern |-> [p \in PrevTypes |->
                 IF t = "after q" /\ p # "q" THEN Rejects ELSE Accepts(t)]]
=============================================================================
