---------------------------- MODULE MCResumable -----------------------------
(* Instances: generators of two statements out of a list, driven by next(); *)
(* and programs of a few async functions over promises of the host.         *)
EXTENDS ResumableMeaning

MCNameOf(x) == IF x = "v'" THEN "v" ELSE x

N(n) == [is |-> "num", n |-> n]
V(x) == [is |-> "var", var |-> x]
Less(x) == [is |-> "less", var |-> x]
P(p) == [is |-> "promise", promise |-> p]
Call(f) == [is |-> "call", fn |-> f]
AllOf(ps) == [is |-> "all", promises |-> ps]

Log(e) == [type |-> "log", value |-> e]
Let(x, e) == [type |-> "var", var |-> x, value |-> e]
Assign(x, e) == [type |-> "set", var |-> x, value |-> e]
ReturnOf(e) == [type |-> "return", value |-> e]
Break == [type |-> "break"]
Yield(e, x) == Suspends("yield", e, x, "plain")
Await(e, x) == Suspends("await", e, x, "plain")
ReturnAwait(e) == Suspends("await", e, "", "return")
Block(b) == [type |-> "block", body |-> b]
IfElse(t, a, b) == [type |-> "if", test |-> t, consequent |-> a, alternate |-> b]
While(t, b) == [type |-> "while", test |-> t, body |-> b]
Do(b, t) == [type |-> "do_while", test |-> t, body |-> b]
For(init, t, update, b) == [type |-> "for", init |-> init, test |-> t, update |-> update, body |-> b]
ForOf(b) == [type |-> "for_of", body |-> b]
ResolveIt(p, e) == [type |-> "resolve", promise |-> p, value |-> e]
ThenNote(p) == [type |-> "then", promise |-> p]
Start(f) == [type |-> "start", fn |-> f]

Generator(body) == [g |-> [kind |-> "generator", body |-> body]]

(* n counts down, v is what next() sends.                                   *)
Down == Assign("n", Less("n"))
Inner == {<<Yield(V("n"), "")>>, <<Yield(N(7), "v"), Log(V("v"))>>, <<Log(V("n")), Yield(V("n"), "v")>>,
          <<Log(V("v"))>>, <<IfElse(V("v"), <<Yield(V("v"), "")>>, <<>>)>>}
Counting(b) == For(<<Assign("n", N(2))>>, V("n"), <<Down>>, b)
Items ==
  {<<Yield(V("n"), "v")>>, <<ReturnOf(V("v"))>>, <<For(<<>>, NoTest, <<>>, <<Yield(V("v"), "v")>>)>>}
  \cup {<<While(V("n"), b \o <<Down>>)>> : b \in Inner}
  \cup {<<Do(b \o <<Down>>, V("n"))>> : b \in Inner}
  \cup {<<Counting(b)>> : b \in Inner}
  \cup {<<IfElse(V("v"), b, c)>> : b \in Inner, c \in {<<>>, <<Log(N(5)), Yield(N(6), "v")>>}}
  \cup {<<Block(b)>> : b \in Inner}
Endings == {<<Log(V("v"))>>, <<ReturnOf(V("n"))>>, <<While(V("v"), <<Yield(V("v"), ""), Assign("v", Less("v"))>>)>>,
         <<Do(<<IfElse(V("n"), <<Yield(N(8), "v")>>, <<>>), Down>>, V("n"))>>,
         <<Counting(<<Block(<<Yield(V("n"), "v"), Log(V("v"))>>)>>)>>}
Generators ==
  {Generator(<<Let("n", N(2)), Let("v", N(1))>> \o a \o b) : a \in Items, b \in Endings}
MCGenPrograms == Generators

(* The promise a loop waits for again, bodies that share a promise, calls   *)
(* within calls, callbacks between them.                                    *)
Async(body) == [kind |-> "async", body |-> body]
MCAsyncPrograms == {
  [f |-> Async(<<Await(P(1), "v"), Log(V("v")), Await(P(2), "w"), Log(V("w")), ReturnOf(V("v"))>>),
   g |-> Async(<<Await(Call("f"), "r"), Log(V("r"))>>)],
  [f |-> Async(<<Await(P(1), "v"), ThenNote(1), Log(V("v"))>>),
   g |-> Async(<<Start("f"), ThenNote(1), Await(P(1), "v"), Await(N(3), "n"), Log(V("n")), Log(V("v"))>>)],
  [f |-> Async(<<Await(P(1), "v"), ResolveIt(2, V("v")), Log(V("v"))>>),
   g |-> Async(<<Await(P(2), "v"), ResolveIt(1, V("v")), Log(V("v"))>>)],
  [f |-> Async(<<Await(AllOf(<<1, 2>>), "all"), Log(V("all")), Await(AllOf(<<2, 2, 1>>), ""), Log(N(1))>>)],
  [f |-> Async(<<Let("n", N(2)), While(V("n"), <<Await(P(1), "v"), Log(V("v")), Down>>), ReturnOf(V("n"))>>),
   g |-> Async(<<Await(N(3), "n"), While(V("n"), <<Await(P(2), ""), Log(V("n")), Down>>)>>)],
  [f |-> Async(<<Await(AllOf(<<>>), "all"), IfElse(V("all"), <<Await(Call("g"), "v")>>, <<Log(N(0))>>), Log(N(2))>>),
   g |-> Async(<<IfElse(N(1), <<ReturnOf(N(4))>>, <<Await(P(1), "")>>)>>)],
  [f |-> Async(<<Do(<<Await(Call("g"), "v"), Log(V("v"))>>, V("v"))>>),
   g |-> Async(<<Await(P(1), "w"), ReturnOf(N(0))>>)],
  [f |-> Async(<<Await(P(1), "v"), Await(AllOf(<<1, 2>>), "all"), Start("g"), ReturnOf(V("v"))>>),
   g |-> Async(<<Await(P(2), "v"), ResolveIt(2, N(9)), ThenNote(2), Await(P(2), "w"), Log(V("w"))>>)]}

(* What BuildStateMachine refuses.                                          *)
Refused == {
  Generator(<<While(N(1), <<Yield(N(1), ""), IfElse(N(1), <<Break>>, <<>>)>>)>>),
  Generator(<<ForOf(<<Yield(N(1), "")>>)>>),
  Generator(<<[type |-> "switch", body |-> <<Yield(N(1), "")>>]>>),
  Generator(<<Suspends("yield", N(1), "", "nested")>>),
  Generator(<<Suspends("yield", N(1), "", "return")>>)}

(* Compiled, but not to what is written: a loop entered at a resume point,  *)
(* two variables of one name, and `return await`.                           *)
Strange == {
  Generator(<<Yield(N(1), "n"), While(V("n"), <<Log(V("n")), Down, Yield(N(0), "")>>)>>),
  Generator(<<Let("v", N(1)), IfElse(V("v"), <<Yield(N(7), "v'")>>, <<>>), Log(V("v"))>>),
  [f |-> Async(<<ReturnAwait(P(1))>>)]}

(* A body's statements, those of their bodies, and what a loop becomes once *)
(* it is entered.                                                           *)
Becomes(s) ==
  CASE s.type = "do_while" -> <<[s EXCEPT !.type = "while"]>>
    [] s.type = "for" -> s.update \o (IF s.init = <<>> THEN <<>> ELSE <<[s EXCEPT !.init = <<>>]>>)
    [] OTHER -> <<>>
RECURSIVE StatementsIn(_)
StatementsIn(stmts) ==
  IF stmts = <<>> THEN {}
  ELSE {stmts[1]} \cup StatementsIn(Parts(stmts[1]) \o Becomes(stmts[1]) \o Tail(stmts))
MCStatementsOf(p) == {s \in UNION {StatementsIn(p[f].body) : f \in DOMAIN p} : ~ContainsSuspend(s)}

MCPrograms == Strange \cup MCGenPrograms \cup MCAsyncPrograms \cup Refused
=============================================================================
