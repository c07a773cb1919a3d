------------------------------ MODULE MCMiddleEnd ------------------------------
(* Programs that are compiled: branches, loops, switches and functions with *)
(* assignments, calls and jumps in every place of a few patterns.           *)
EXTENDS MiddleEnd

Num(i)        == Lit(Number(i))
Call(f, args) == [t |-> "call", callee |-> Identifier(f), args |-> args]
Do(f, args)   == ExprStmt(Call(f, args))
Let(x, e)     == VarDecl(x, <<e>>)
Set(x, e)     == ExprStmt(Assign(Identifier(x), e))
Plus(a, b)    == Binary("+", a, b)
Post(x)       == [t |-> "unary_post", op |-> "++", operand |-> Identifier(x)]
IfElse(test, cons, alt) == If(test, Block(cons), <<Block(alt)>>)
When(test, cons)        == If(test, Block(cons), <<>>)
For(init, test, update, body) ==
  [t |-> "for", init |-> <<init>>, test |-> <<test>>, update |-> <<update>>, body |-> Block(body)]
Function(f, params, body) ==
  [t |-> "function_decl", name |-> f, params |-> params, body |-> body]
Case(i, body) == [test |-> <<Num(i)>>, body |-> body]
Default(body) == [test |-> <<>>, body |-> body]

Vx == Identifier("x")
Vn == Identifier("n")
Vi == Identifier("i")
Vc == Identifier("c")

-----------------------------------------------------------------------------
(* let x = 1; if (...) {...} else {...} h(x); k(x);                          *)
Tests == {Vc, Call("f", <<Num(3)>>), Binary("<", Vx, Num(1)), Unary("!", Vc)}
Arms ==
  {<<>>, <<Set("x", Num(2))>>, <<Do("f", <<Vx>>)>>, <<Set("x", Num(2)), Do("f", <<Vx>>)>>,
   <<Do("f", <<Vx>>), Set("x", Vc)>>, <<Let("y", Plus(Vx, Num(1))), Do("g", <<Identifier("y")>>)>>,
   <<IfElse(Identifier("a"), <<Set("x", Num(5))>>, <<Do("f", <<Num(7)>>)>>)>>,
   <<When(Identifier("a"), <<Do("f", <<Num(2)>>)>>), Set("x", Num(4))>>}
Branches ==
  {<<Let("x", Num(1)), IfElse(t, a, b), Do("h", <<Vx>>)>> \o after :
     t \in Tests, a \in Arms, b \in Arms, after \in {<<>>, <<Do("k", <<Vx>>)>>}}

(* A branch on a constant, also one that another round finds.               *)
Constants ==
  {Binary("<", Num(1), Num(2)), Unary("!", Binary("<", Num(1), Num(2))),
   Conditional(Unary("!", Num(0)), Lit(Boolean(FALSE)), Vc),
   Binary("===", Plus(Num(1), Num(1)), Num(3))}
ConstantBranches ==
  {<<Let("x", Num(1)), IfElse(t, a, b)>> \o after :
     t \in Constants, a \in Arms, b \in Arms, after \in {<<>>, <<Do("h", <<Vx>>)>>}}

(* let n = 0; let i = 0; while (i < 3) {... if (...) {...} i = i + 1;}       *)
Step   == ExprStmt(Assign(Vi, Plus(Vi, Num(1))))
Starts == {<<>>, <<Do("g", <<Vi>>)>>, <<When(Vc, <<Do("g", <<Num(1)>>)>>)>>}
Jumps  ==
  {<<Do("g", <<Vi>>), Jump("break")>>, <<Step, Jump("continue")>>, <<Do("g", <<Vn>>)>>,
   <<Set("n", Num(5)), Jump("break")>>, <<Jump("break")>>,
   <<Do("g", <<Vn>>), Step, Jump("continue")>>,
   <<Set("n", Num(5)), Do("g", <<Num(1)>>), Jump("break")>>}
JumpTests == {Binary("===", Vi, Num(1)), Call("g", <<Num(2)>>)}
WhileOf(first, test, jump) ==
  While(Binary("<", Vi, Num(3)), Block(first \o <<When(test, jump)>> \o <<Step>>))
Whiles ==
  {WhileOf(b, t, j) : b \in Starts, t \in JumpTests, j \in Jumps}
    \cup {WhileOf(<<Do("g", <<Post("i")>>)>>, Binary("===", Vi, Num(1)), j) : j \in Jumps}
Fors ==
  {For(ExprStmt(Assign(Vi, Num(0))), Binary("<", Vi, Num(3)), Post("i"), b \o <<When(t, j)>>) :
     b \in Starts, t \in JumpTests, j \in Jumps}
DoWhiles ==
  {[t |-> "do_while", test |-> Binary("<", Vi, Num(3)),
    body |-> Block(<<Do("g", <<Vi>>), When(t, j)>> \o <<Step>>)] : t \in JumpTests, j \in Jumps}
Loops ==
  {<<Let("n", Num(0)), Let("i", Num(0)), loop, Do("h", <<Vi, Vn>>)>> :
     loop \in Whiles \cup Fors \cup DoWhiles}

(* let n = 0; switch (c) {case 1: ... case 2: ... default: ...} h(n);        *)
Seconds ==
  {<<Set("n", Num(1)), Jump("break")>>, <<Do("g", <<Num(2)>>)>>, <<Set("n", Num(3)), Do("g", <<Vn>>)>>,
   <<Jump("break")>>}
Firsts == Seconds \cup {<<Set("n", Plus(Vn, Num(1)))>>}
Cases ==
  {<<Case(1, x), Case(2, y)>> : x \in Firsts, y \in Seconds}
    \cup {<<Case(1, x), Default(<<Do("g", <<Num(9)>>)>>), Case(2, y)>> : x \in Firsts, y \in Seconds}
    \cup {<<Case(1, x), Case(2, y), Default(<<Do("g", <<Num(9)>>)>>)>> : x \in Firsts, y \in Seconds}
Switches ==
  {<<Let("n", Num(0)), [t |-> "switch", disc |-> Vc, cases |-> cases], Do("h", <<Vn>>)>> :
     cases \in Cases}

(* function f(x) {let n = 0; if (...) {...} else {...} h(n); return n;} k(f(c)); *)
Parts ==
  {<<>>, <<Set("n", Num(2))>>, <<Return(<<Num(4)>>)>>, <<Do("g", <<Vn>>)>>,
   <<Set("n", Vx), Do("g", <<Vn>>)>>, <<Do("g", <<Vn>>), Return(<<Vx>>)>>,
   <<When(Vx, <<Return(<<Num(7)>>)>>), Do("g", <<Num(1)>>)>>,
   <<When(Call("g", <<Num(1)>>), <<Set("n", Num(3))>>)>>, <<Set("x", Num(5))>>}
Functions ==
  {<<Function("f", <<"x">>, <<Let("n", Num(0)), IfElse(t, p, q), Do("h", <<Vn>>), Return(<<Vn>>)>>),
     Do("k", <<Call("f", <<Vc>>)>>)>> :
     t \in {Vx, Call("g", <<Num(2)>>), Binary("<", Vx, Num(1))}, p \in Parts, q \in Parts}

MCPrograms == Branches \cup ConstantBranches \cup Loops \cup Switches \cup Functions
Answers    == {<<TRUE, FALSE>>, <<FALSE, TRUE, TRUE>>, <<TRUE, TRUE, FALSE>>}
MCWorlds   == {[env |-> [a |-> Number(e), c |-> Number(d)], pure |-> {"pure"}, answers |-> s] :
                 e, d \in {0, 1}, s \in Answers}
=============================================================================
