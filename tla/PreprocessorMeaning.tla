------------------------- MODULE PreprocessorMeaning -------------------------
(***************************************************************************)
(* Preprocessor.expand and subst (examples/CPP/preprocessor.ts): tokens    *)
(* are replaced from left to right, the replacement is scanned again, and  *)
(* a token carries the macros it came out of, which it no longer names.    *)
(* And evalIf and evalExpr: the value of a #if expression, by precedence   *)
(* climbing over its tokens.                                               *)
(***************************************************************************)
EXTENDS Integers, Sequences, SequencesExt, FiniteSetsExt, Bitwise, TLC, Preprocessor

CONSTANTS
  Width,         \* the bits of JavaScript's bitwise operators, 32 there
  NumberOf(_)    \* intValue, charValue: of the numerals in use, else -1

ASSUME WidthAssumption == Width \in Nat \ {0}

(* A token is [text, line, hide]; a macro [object, params, variadic, body], *)
(* its body a sequence of texts.  An expansion that fails ends in Bad.      *)
Bad == [text |-> "(bad call)", line |-> 0, hide |-> {}]
Fails(toks) == \E i \in DOMAIN toks : toks[i].text = Bad.text
Texts(toks) == [i \in DOMAIN toks |-> toks[i].text]
Tokens(texts, line) == [i \in DOMAIN texts |-> [text |-> texts[i], line |-> line, hide |-> {}]]

Stringized(toks) == FlattenSeq(<<"<">> \o Texts(toks) \o <<">">>)

(* The arguments of the call whose parenthesis opens `toks`: up to the      *)
(* parenthesis that closes it, apart at the commas on its level; those past *)
(* the named parameters stay within __VA_ARGS__.  close = 0: none closes.   *)
Level(toks, j) ==
  Cardinality({k \in 2..(j - 1) : toks[k].text = "("}) - Cardinality({k \in 2..(j - 1) : toks[k].text = ")"})
Params(m) == m.params \o (IF m.variadic THEN <<"__VA_ARGS__">> ELSE <<>>)
CloseOf(toks) ==
  LET closing == {j \in 2..Len(toks) : toks[j].text = ")" /\ Level(toks, j) = 0}
  IN  IF closing = {} THEN 0 ELSE Min(closing)
Nth(S, n) == CHOOSE x \in S : Cardinality({y \in S : y <= x}) = n
AsMany(m, args) == IF args = << <<>> >> /\ Params(m) = <<>> THEN <<>> ELSE args
ArgsOf(m, toks, close) ==
  LET commas == {j \in 2..(close - 1) : toks[j].text = "," /\ Level(toks, j) = 0}
      cuts == IF m.variadic THEN Min({Cardinality(commas), Len(Params(m)) - 1}) ELSE Cardinality(commas)
      Cut(k) == IF k = 0 THEN 1 ELSE IF k > cuts THEN close ELSE Nth(commas, k)
  IN  AsMany(m, [k \in 1..(cuts + 1) |-> SubSeq(toks, Cut(k - 1) + 1, Cut(k) - 1)])
Call(m, toks) == [close |-> CloseOf(toks), args |-> ArgsOf(m, toks, CloseOf(toks))]
RightArity(m, args) ==
  IF m.variadic THEN Len(args) >= Len(m.params) ELSE Len(args) = Len(m.params)

(* What a token that comes of a call hides: a faulty one forgets what the   *)
(* argument itself came out of.                                             *)
HideCallOnly(tok, hide) == [tok EXCEPT !.hide = hide]
Rehide(tok, hide) == [tok EXCEPT !.hide = @ \cup hide]
RehideAll(toks, hide) == [i \in DOMAIN toks |-> Rehide(toks[i], hide)]

(* The next operand of `##` is pasted on: last and first token become one,  *)
(* an empty variadic one takes the comma before it along.                   *)
PasteOn(acc, operand, name, line, hide) ==
  IF operand = <<>>
  THEN IF name = "__VA_ARGS__" /\ acc # <<>> /\ Last(acc).text = "," THEN Front(acc) ELSE acc
  ELSE IF acc = <<>> THEN operand
  ELSE Front(acc) \o << [text |-> Last(acc).text \o Head(operand).text, line |-> line, hide |-> hide] >>
                  \o Tail(operand)

(* The body with the arguments put in: as a string after `#`, as they are   *)
(* beside `##`, in full elsewhere.                                          *)
IsParam(m, name) == Contains(Params(m), name)
Position(m, name) == CHOOSE k \in DOMAIN Params(m) : Params(m)[k] = name
ArgOf(m, args, name) == IF Position(m, name) <= Len(args) THEN args[Position(m, name)] ELSE <<>>
Operand(m, args, name, line, hide) ==
  IF IsParam(m, name) THEN RehideAll(ArgOf(m, args, name), hide)
  ELSE << [text |-> name, line |-> line, hide |-> hide] >>

(* The operands pasted to the i-th, and where the body goes on after them. *)
AfterPaste(m, i) ==
  Min({j \in i..Len(m.body) : (j - i) % 2 = 0 /\ ~(j + 2 <= Len(m.body) /\ m.body[j + 1] = "##")})
PasteChain(m, args, hide, line, i) ==
  FoldLeft(LAMBDA acc, k : PasteOn(acc, Operand(m, args, m.body[i + 2 * k], line, hide), m.body[i + 2 * k], line, hide),
           Operand(m, args, m.body[i], line, hide), [k \in 1..((AfterPaste(m, i) - i) \div 2) |-> k])

Subst(m, args, full, hide, line) ==
  LET Put[i \in Nat] ==
        IF i > Len(m.body) THEN <<>>
        ELSE LET b == m.body[i]
                 next == IF i < Len(m.body) THEN m.body[i + 1] ELSE ""
                 piece == CASE b = "#" /\ IsParam(m, next) ->
                                 << [text |-> Stringized(ArgOf(m, args, next)), line |-> line, hide |-> hide] >>
                            [] next = "##" -> PasteChain(m, args, hide, line, i)
                            [] OTHER -> Operand(m, full, b, line, hide)
                 last == CASE b = "#" /\ IsParam(m, next) -> i + 1
                           [] next = "##" -> AfterPaste(m, i)
                           [] OTHER -> i
             IN  piece \o Put[last + 1]
  IN  Put[1]

(* The first token of a text stays, or the macro it names is put in for it, *)
(* and for the call that follows; an error ends it all.                     *)
GoOn(new, after) == IF Fails(new) THEN <<Bad>> ELSE new \o after
Token == [text : STRING, line : Nat, hide : SUBSET STRING]
Expand(defined, toks) ==
  LET E[ts \in Seq(Token)] ==
        IF ts = <<>> THEN <<>>
        ELSE LET t == Head(ts)
                 rest == Tail(ts)
                 m == defined[t.text]
                 hide == t.hide \cup {t.text}
                 call == Call(m, rest)
                 named == t.text \in DOMAIN defined /\ t.text \notin t.hide
                 called == named /\ ~m.object /\ rest # <<>> /\ Head(rest).text = "(" /\ call.close # 0
                 new == CASE named /\ m.object ->
                               [i \in DOMAIN m.body |-> [text |-> m.body[i], line |-> t.line, hide |-> hide]]
                          [] called /\ ~RightArity(m, call.args) -> <<Bad>>
                          [] called -> Subst(m, call.args, [k \in DOMAIN call.args |-> E[call.args[k]]], hide, t.line)
                          [] OTHER -> <<>>
                 after == IF called THEN SubSeq(rest, call.close + 1, Len(rest)) ELSE rest
             IN  IF named /\ (m.object \/ called) THEN E[GoOn(new, after)] ELSE <<t>> \o E[rest]
  IN  E[toks]

-----------------------------------------------------------------------------
(* The value of a condition.  A position is carried along; an answer is     *)
(* [ok, v, i], not ok when an error is thrown.                              *)

(* ToInt32, and what is done on its bits. *)
Wrap(v) == LET r == v % 2^Width IN IF r >= 2^(Width - 1) THEN r - 2^Width ELSE r
Bits(v) == v % 2^Width
Truth(b) == IF b THEN 1 ELSE 0
Quotient(a, b) == LET q == (IF a < 0 THEN -a ELSE a) \div (IF b < 0 THEN -b ELSE b)
                  IN  IF (a < 0) = (b < 0) THEN q ELSE -q

Precedence ==
  [op \in {"||"} |-> 1] @@ [op \in {"&&"} |-> 2] @@ [op \in {"|"} |-> 3] @@ [op \in {"^"} |-> 4] @@
  [op \in {"&"} |-> 5] @@ [op \in {"==", "!="} |-> 6] @@ [op \in {"<", ">", "<=", ">="} |-> 7] @@
  [op \in {"<<", ">>"} |-> 8] @@ [op \in {"+", "-"} |-> 9] @@ [op \in {"*", "/", "%"} |-> 10]

Apply(op, a, b) ==
  CASE op = "||" -> Truth(a # 0 \/ b # 0)
    [] op = "&&" -> Truth(a # 0 /\ b # 0)
    [] op = "|" -> Wrap(Bits(a) | Bits(b))
    [] op = "^" -> Wrap(Bits(a) ^^ Bits(b))
    [] op = "&" -> Wrap(Bits(a) & Bits(b))
    [] op = "==" -> Truth(a = b)
    [] op = "!=" -> Truth(a # b)
    [] op = "<" -> Truth(a < b)
    [] op = ">" -> Truth(a > b)
    [] op = "<=" -> Truth(a <= b)
    [] op = ">=" -> Truth(a >= b)
    [] op = "<<" -> Wrap(Wrap(a) * 2^(b % Width))
    [] op = ">>" -> Wrap(a) \div 2^(b % Width)
    [] op = "+" -> a + b
    [] op = "-" -> a - b
    [] op = "*" -> a * b
    [] op = "/" -> IF b = 0 THEN 0 ELSE Quotient(a, b)
    [] op = "%" -> IF b = 0 THEN 0 ELSE a - b * Quotient(a, b)

Failed == [ok |-> FALSE, v |-> 0, i |-> 0]
At(toks, i) == IF i <= Len(toks) THEN toks[i] ELSE "(end)"

(* Operators of one level group to the left: the right operand is of a      *)
(* higher one.                                                              *)
NextLevel(p) == p + 1

RECURSIVE Primary(_, _), Binary(_, _, _), Climb(_, _, _), Ternary(_, _)
Primary(toks, i) ==
  LET t == At(toks, i)
      of == Primary(toks, i + 1)
      inner == Ternary(toks, i + 1)
  IN  CASE t = "(end)" -> Failed
        [] t = "(" -> IF inner.ok /\ At(toks, inner.i) = ")" THEN [inner EXCEPT !.i = @ + 1] ELSE Failed
        [] t = "!" -> [of EXCEPT !.v = Truth(@ = 0)]
        [] t = "~" -> [of EXCEPT !.v = -Wrap(@) - 1]
        [] t = "-" -> [of EXCEPT !.v = -@]
        [] t = "+" -> of
        [] t \in DOMAIN Precedence \cup {"?", ":", ")", ","} -> Failed
        [] t = "true" -> [ok |-> TRUE, v |-> 1, i |-> i + 1]
        [] OTHER -> [ok |-> TRUE, v |-> IF NumberOf(t) = -1 THEN 0 ELSE NumberOf(t), i |-> i + 1]

Climb(toks, a, min) ==
  LET op == At(toks, a.i)
      b == Binary(toks, a.i + 1, NextLevel(Precedence[op]))
  IN  IF ~a.ok \/ op \notin DOMAIN Precedence THEN a
      ELSE IF Precedence[op] < min THEN a
      ELSE IF ~b.ok THEN Failed
      ELSE Climb(toks, [b EXCEPT !.v = Apply(op, a.v, b.v)], min)
Binary(toks, i, min) == Climb(toks, Primary(toks, i), min)

Ternary(toks, i) ==
  LET c == Binary(toks, i, 1)
      a == Ternary(toks, c.i + 1)
      b == Ternary(toks, a.i + 1)
  IN  IF ~c.ok \/ At(toks, c.i) # "?" THEN c
      ELSE IF a.ok /\ At(toks, a.i) = ":" /\ b.ok
      THEN [b EXCEPT !.v = IF c.v # 0 THEN a.v ELSE b.v] ELSE Failed

EvalExpr(toks) ==
  LET e == Ternary(toks, 1) IN IF e.ok /\ e.i = Len(toks) + 1 THEN e ELSE Failed

(* evalIf: `defined` is answered before anything is expanded. *)
RECURSIVE AnswerDefined(_, _)
AnswerDefined(defined, toks) ==
  IF toks = <<>> THEN <<>>
  ELSE IF Head(toks) # "defined" THEN <<Head(toks)>> \o AnswerDefined(defined, Tail(toks))
  ELSE LET paren == At(toks, 2) = "("
           name == At(toks, IF paren THEN 3 ELSE 2)
           last == IF ~paren THEN 2 ELSE IF At(toks, 4) = ")" THEN 4 ELSE 3
       IN  <<IF name \in DOMAIN defined THEN "1" ELSE "0">>
             \o AnswerDefined(defined, SubSeq(toks, last + 1, Len(toks)))

Verdict(e) == [ok |-> e.ok, v |-> e.ok /\ e.v # 0]
EvalTokens(new) == IF Fails(new) THEN Verdict(Failed) ELSE Verdict(EvalExpr(Texts(new)))
EvalIf(defined, toks) == EvalTokens(Expand(defined, Tokens(AnswerDefined(defined, toks), 1)))

-----------------------------------------------------------------------------
(***************************************************************************)
(* What preprocessing means, told without the code's stacks and hide sets: *)
(* a file is a nest of groups, of which one branch is taken; a macro is    *)
(* out of use while what it stands for is gone through, and a name that    *)
(* came up while it was stays as it is.  Only model checking uses it.      *)
(***************************************************************************)

CONSTANT Markers   \* texts of source lines that no macro touches

(* Tokens here are [text, fixed]; `sure` is whether no call was made with   *)
(* what follows a replacement, where the C standard leaves the answer open. *)
Plain(texts) == [i \in DOMAIN texts |-> [text |-> texts[i], fixed |-> FALSE]]

(* A body with the arguments in their places, `raw` beside `##`. *)
Place(m, raw, full, i) ==
  LET beside == (i > 1 /\ m.body[i - 1] = "##") \/ (i < Len(m.body) /\ m.body[i + 1] = "##")
  IN  IF ~IsParam(m, m.body[i]) THEN Plain(<<m.body[i]>>)
      ELSE IF beside THEN raw[Position(m, m.body[i])] ELSE full[Position(m, m.body[i])]
Filled(m, raw, full) ==
  LET To[i \in 0..Len(m.body)] ==
        IF i = 0 THEN [toks |-> <<>>, glue |-> FALSE, left |-> FALSE, string |-> FALSE]
        ELSE
        LET at == To[i - 1]
            b == m.body[i]
            piece == Place(m, raw, full, i)
            comma == at.left /\ Last(at.toks).text = "," /\ b = "__VA_ARGS__"
        IN  CASE b = "#" /\ i < Len(m.body) /\ IsParam(m, m.body[i + 1]) -> [at EXCEPT !.string = TRUE]
              [] at.string -> [at EXCEPT !.string = FALSE, !.toks = @ \o Plain(<<Stringized(raw[Position(m, b)])>>)]
              [] b = "##" /\ i \in 2..(Len(m.body) - 1) -> [at EXCEPT !.glue = TRUE]
              [] at.glue /\ piece # <<>> /\ at.left ->
                   [at EXCEPT !.glue = FALSE,
                              !.toks = Front(@) \o Plain(<<Last(@).text \o Head(piece).text>>) \o Tail(piece)]
              [] at.glue /\ piece = <<>> -> [at EXCEPT !.glue = FALSE, !.toks = IF comma THEN Front(@) ELSE @]
              [] OTHER -> [at EXCEPT !.glue = FALSE, !.toks = @ \o piece, !.left = piece # <<>>]
  IN  To[Len(m.body)].toks

(* A missing variadic argument is empty. *)
Supplied(m, args) == args \o IF Len(args) < Len(Params(m)) THEN << <<>> >> ELSE <<>>
(* What a macro stands for, then what follows it. *)
Called(m, args, full) ==
  IF ~RightArity(m, args) THEN Plain(<<Bad.text>>)
  ELSE Filled(m, Supplied(m, args), Supplied(m, [k \in DOMAIN full |-> full[k].toks]))
Joint(ms, new, r, after) ==
  [toks |-> new.toks \o r.toks,
   sure |-> /\ new.sure /\ r.sure
            /\ ~(/\ new.toks # <<>> /\ after # <<>> /\ Head(after).text = "("
                 /\ Last(new.toks).text \in DOMAIN ms /\ ~ms[Last(new.toks).text].object)]
AllSure(r, parts) == [r EXCEPT !.sure = @ /\ \A k \in DOMAIN parts : parts[k].sure]
Led(tok, r) == [r EXCEPT !.toks = <<tok>> \o @]
Meant(ms, tokens, within) ==
  LET M[ts \in Seq([text : STRING, fixed : BOOLEAN]), off \in SUBSET STRING] ==
        IF ts = <<>> THEN [toks |-> <<>>, sure |-> TRUE]
        ELSE LET t == Head(ts)
                 rest == Tail(ts)
                 m == ms[t.text]
                 close == CloseOf(rest)
                 named == t.text \in DOMAIN ms /\ ~t.fixed /\ t.text \notin off
                 called == named /\ ~m.object /\ rest # <<>> /\ Head(rest).text = "(" /\ close # 0
                 args == ArgsOf(m, rest, close)
                 full == [k \in DOMAIN args |-> M[args[k], off]]
                 after == SubSeq(rest, close + 1, Len(rest))
             IN  CASE named /\ m.object -> Joint(ms, M[Plain(m.body), off \cup {t.text}], M[rest, off], rest)
                   [] called -> AllSure(Joint(ms, M[Called(m, args, full), off \cup {t.text}], M[after, off], after), full)
                   [] ~called /\ ~(named /\ m.object) ->
                        Led([t EXCEPT !.fixed = @ \/ t.text \in off \cap DOMAIN ms], M[rest, off])
  IN  M[tokens, within]
-----------------------------------------------------------------------------
(* A file's lines as nested groups. *)
Opens(line) == line.kind \in {"if", "ifdef", "ifndef"}
Nesting(lines, i, j) ==
  Cardinality({k \in i..j : Opens(lines[k])}) - Cardinality({k \in i..j : lines[k].kind = "endif"})
EndOf(lines, i) == Min({j \in i..Len(lines) : Nesting(lines, i, j) = 0})
Branches(lines, i) ==
  {i} \cup {j \in i..EndOf(lines, i) : lines[j].kind \in {"elif", "else"} /\ Nesting(lines, i, j) = 1}
Balanced(lines) ==
  /\ \A j \in DOMAIN lines : Nesting(lines, 1, j) >= IF lines[j].kind \in {"elif", "else"} THEN 1 ELSE 0
  /\ Nesting(lines, 1, Len(lines)) = 0
  /\ \A i \in DOMAIN lines : Opens(lines[i]) =>
       \A j \in Branches(lines, i) : lines[j].kind = "else" => j = Max(Branches(lines, i))

(* The value of an expression's tree: [op, args], a numeral, a name or      *)
(* [defined].  It has none when something is divided by zero.               *)
NoValue == -1000
Combined(op, v) ==
  CASE op \in {"!", "neg", "?", "&&", "||"} /\ v[1] = NoValue -> NoValue
    [] op = "!" -> Truth(v[1] = 0)
    [] op = "neg" /\ v[1] # NoValue -> -v[1]
    [] op = "?" /\ v[1] # NoValue -> IF v[1] # 0 THEN v[2] ELSE v[3]
    [] op = "&&" /\ v[1] = 0 -> 0
    [] op = "||" /\ v[1] \notin {0, NoValue} -> 1
    [] op \in {"/", "%"} /\ v[2] = 0 -> NoValue
    [] OTHER -> IF NoValue \in {v[1], v[2]} THEN NoValue ELSE Apply(op, v[1], v[2])

RECURSIVE ValueOf(_, _)
ValueOf(ms, tree) ==
  IF "leaf" \in DOMAIN tree
  THEN LET name == Meant(ms, Plain(<<tree.leaf>>), {}).toks[1].text
       IN  IF NumberOf(name) = -1 THEN 0 ELSE NumberOf(name)
  ELSE IF tree.op = "defined" THEN Truth(tree.args[1].leaf \in DOMAIN ms)
  ELSE Combined(tree.op, [k \in DOMAIN tree.args |-> ValueOf(ms, tree.args[k])])

(* What has come of the lines so far: the macros, the files included once,  *)
(* the texts, and for each line put out the markers that belong on it.      *)
Outcome == [ok |-> TRUE, sure |-> TRUE, macros |-> project.defines, once |-> {}, texts |-> <<>>, places |-> <<>>]
Blank(r, n) == [r EXCEPT !.places = @ \o [k \in 1..n |-> {}]]
MarkersOf(line) == {line.toks[k] : k \in DOMAIN line.toks} \cap Markers
TextRun(lines, i, to) == Max({j \in i..to : \A k \in i..j : lines[k].kind = "text"})

(* What is still to be read: lines i to `to` of a file, `deep` includes     *)
(* down, or, with no file, as many blank lines.                             *)
Part(file, i, to, deep) == [file |-> file, i |-> i, to |-> to, deep |-> deep]
Skipped(n) == Part("", 1, n, 0)
Whole(file, deep) == Part(file, 1, Len(project.files[file]), deep)

(* Of the branches of the #if at line i, the first whose condition holds is *)
(* read; blank lines are left for the others.                               *)
Answer(r, line) ==
  CASE line.kind = "ifdef" -> Truth(line.name \in DOMAIN r.macros)
    [] line.kind = "ifndef" -> Truth(line.name \notin DOMAIN r.macros)
    [] line.kind = "else" -> 1
    [] OTHER -> ValueOf(r.macros, line.tree)
Branch(r, part) ==
  LET lines == project.files[part.file]
      end == EndOf(lines, part.i)
      Physical(from, to) == Cardinality(UNION {{k} \X (1..lines[k].phys) : k \in from..to})
      from == Min({end} \cup {j \in Branches(lines, part.i) : Answer(r, lines[j]) # 0})
      to == Min({end} \cup {j \in Branches(lines, part.i) : j > from})
  IN  [ok |-> from < end => Answer(r, lines[from]) # NoValue,
       todo |-> IF from = end THEN <<Skipped(Physical(part.i, end))>>
                ELSE <<Skipped(Physical(part.i, from)), Part(part.file, from + 1, to - 1, part.deep),
                       Skipped(Physical(to, end))>>]

(* The next line, or text up to a directive, is read. *)
WithText(r, text, lines) ==
  [r EXCEPT !.texts = @ \o Texts(text.toks), !.sure = @ /\ text.sure, !.ok = Bad.text \notin Range(Texts(text.toks)),
            !.places = @ \o FlattenSeq([k \in DOMAIN lines |->
                             [x \in 1..lines[k].phys |-> IF x = 1 THEN MarkersOf(lines[k]) ELSE {}]])]
TextOf(r, lines) == WithText(r, Meant(r.macros, Plain(FlattenSeq([k \in DOMAIN lines |-> lines[k].toks])), {}), lines)
Branching(r, branch, rest) ==
  [r |-> [r EXCEPT !.ok = branch.ok, !.sure = @ /\ branch.ok], todo |-> branch.todo \o rest]
ReadNext(r, part, rest) ==
  LET line == project.files[part.file][part.i]
      Past(q, to) == [r |-> q, todo |-> <<[part EXCEPT !.i = to + 1]>> \o rest]
      Done(q) == Past(Blank(q, line.phys), part.i)
      Wrong == [r |-> [r EXCEPT !.ok = FALSE], todo |-> <<>>]
  IN  CASE part.file = "" -> [r |-> Blank(r, part.to), todo |-> rest]
        [] part.file # "" /\ part.i > part.to -> [r |-> r, todo |-> rest]
        [] OTHER ->
           CASE line.kind = "text" ->
                  LET to == TextRun(project.files[part.file], part.i, part.to) IN Past(TextOf(r, SubSeq(project.files[part.file], part.i, to)), to)
             [] Opens(line) ->
                  Branching(r, Branch(r, part), <<[part EXCEPT !.i = EndOf(project.files[part.file], part.i) + 1]>> \o rest)
             [] line.kind = "define" ->
                  Done([r EXCEPT !.macros = [n \in DOMAIN @ \cup {line.name} |-> IF n = line.name THEN line.macro ELSE @[n]]])
             [] line.kind = "undef" -> Done([r EXCEPT !.macros = [n \in DOMAIN @ \ {line.name} |-> @[n]]])
             [] line.kind = "once" -> Done([r EXCEPT !.once = @ \cup {part.file}])
             [] line.kind = "error" -> Wrong
             [] line.kind = "other" -> Done(r)
             [] line.kind = "include" ->
                  IF line.name \notin DOMAIN project.files \/ line.name \in r.once THEN Done(r)
                  ELSE IF part.deep = MaxDepth \/ ~Balanced(project.files[line.name]) THEN Wrong
                  ELSE [r |-> r, todo |-> <<Whole(line.name, part.deep + 1), Skipped(line.phys),
                                            [part EXCEPT !.i = @ + 1]>> \o rest]

RECURSIVE Reads(_)
Reads(at) ==
  IF ~at.r.ok \/ at.todo = <<>> THEN at.r ELSE Reads(ReadNext(at.r, Head(at.todo), Tail(at.todo)))

Meaning ==
  IF Balanced(project.files["main"]) THEN Reads([r |-> Outcome, todo |-> <<Whole("main", 0)>>]) ELSE [Outcome EXCEPT !.ok = FALSE]
-----------------------------------------------------------------------------
(* Where the C standard says what comes of a project, that is what comes of *)
(* it: the branches taken, with the macros of their place, expanded as if   *)
(* each macro were out of use within itself; or an error, if it is one.     *)
(* (An unbalanced file that is included is the exception: conditionals of   *)
(* all files share one stack, and it goes on in its includer.)              *)
TextAsMeant ==
  status # "running" =>
    \A meant \in {Meaning} : meant.sure =>
      /\ meant.ok => status = "done" /\ FlattenSeq(out) = meant.texts
      /\ status = "done" /\ (\A f \in DOMAIN project.files : Balanced(project.files[f])) => meant.ok

(* "Physical line numbers are preserved (blank lines are emitted for        *)
(* directives and skipped regions) except across #include"                  *)
(* (preprocessor.ts:4-5): what no macro touches is put out on its own line, *)
(* also after calls over several lines; an include puts its lines between.  *)
LinesKept ==
  status = "done" =>
    \A meant \in {Meaning} : meant.ok =>
      /\ Len(out) = Len(meant.places)
      /\ \A k \in DOMAIN out : {out[k][x] : x \in DOMAIN out[k]} \cap Markers = meant.places[k]
=============================================================================
