------------------------------ MODULE MiddleEnd ------------------------------
EXTENDS Vsdg, Lowering, Reconstruction

(* What a program does, apart from how it is compiled: a direct evaluation  *)
(* with block scoping.  What the outside sees of a run is its log: the      *)
(* calls of functions it does not declare, with their arguments, in order;  *)
(* then each function it declares is called once and its result is logged.  *)
(* A run m is [frames, log, left, ctl, v]: the scopes, the log, how many    *)
(* loop rounds and calls are left before the run is cut, how control        *)
(* stands, and the last value.  w, [env, answers], is what the world        *)
(* outside holds and answers.                                               *)

Unset == <<"unset", 0>>
Opaque(what) == <<"opaque", what>>
(* home is the function's own scope, where `var` declares.                   *)
Frame(parent, home, names) == [parent |-> parent, home |-> home, vals |-> [x \in names |-> Unset]]
Go(m)        == m.ctl = "go"
Stop(m, ctl) == [m EXCEPT !.ctl = ctl]
Value(m, v)  == [m EXCEPT !.v = v]
Push(m, parent, names) ==
  [m EXCEPT !.frames = Append(@, Frame(parent, m.frames[parent].home, names))]
Log(m, what) == [m EXCEPT !.log = Append(@, what)]
Spend(m)     == IF m.left = 0 THEN Stop(m, "cut") ELSE [m EXCEPT !.left = @ - 1]

DeclaredIn(body) == {body[i].name : i \in {j \in DOMAIN body : body[j].t = "var_decl"}}
FunctionsOf(program) == SelectSeq(program, LAMBDA s : s.t = "function_decl")

RECURSIVE FrameOf(_, _, _)
FrameOf(m, f, name) ==
  IF f = 0 \/ name \in DOMAIN m.frames[f].vals THEN f ELSE FrameOf(m, m.frames[f].parent, name)

Read(m, w, f, name) ==
  LET at == FrameOf(m, f, name)
      v  == IF at # 0 THEN m.frames[at].vals[name]
            ELSE IF name \in DOMAIN w.env THEN w.env[name] ELSE Unset
  IN IF v = Unset THEN Stop(m, "error") ELSE Value(m, v)
Declare(m, f, name) == [m EXCEPT !.frames[f].vals = (name :> m.v) @@ @]
(* Assigning a name nobody declared makes a global: scripts are not strict.  *)
Write(m, f, name) ==
  LET at == FrameOf(m, f, name)
  IN IF at = 0 THEN Declare(m, 1, name)
     ELSE IF m.frames[at].vals[name] = Unset THEN Stop(m, "error")
     ELSE [m EXCEPT !.frames[at].vals[name] = m.v]

IsTrue(v) == v[1] = "opaque" \/ truthy(v)
Operate(op, a, b) ==
  IF op = "===" \/ (a[1] = "n" /\ b[1] = "n") THEN calcBinary(op, a, b)
  ELSE IF op = "<" THEN Boolean({a[1], b[1]} \subseteq {"n", "b"} /\ ToNumber(a) < ToNumber(b))
  ELSE Opaque(<<op, a, b>>)
OperateUnary(op, a) ==
  IF op = "!" THEN Boolean(~IsTrue(a))
  ELSE IF a[1] \notin {"n", "b"} THEN Opaque(<<op, a>>)
  ELSE Number(CASE op = "-" -> -ToNumber(a) [] op = "++" -> ToNumber(a) + 1
                [] op = "--" -> ToNumber(a) - 1)

-----------------------------------------------------------------------------
RECURSIVE Eval(_, _, _, _)
RECURSIVE EvalAll(_, _, _, _, _)
RECURSIVE Exec(_, _, _, _)
RECURSIVE ExecAll(_, _, _, _)

(* Left to right; r is [m, vs].                                             *)
EvalRest(first, w, f, es, vs) == EvalAll(first, w, f, Tail(es), Append(vs, first.v))
EvalAll(m, w, f, es, vs) ==
  IF es = <<>> \/ ~Go(m) THEN [m |-> m, vs |-> vs]
  ELSE EvalRest(Eval(m, w, f, Head(es)), w, f, es, vs)

(* An outside call is logged and answered: nothing, or a number that no     *)
(* other call gives.                                                        *)
Outside(m, w, name, args) ==
  LET n == Len(m.log)
      answer == w.answers[1 + (n % Len(w.answers))]
  IN IF name \in w.pure THEN Value(m, Opaque(<<name, args>>))
     ELSE Value(Log(m, <<name, args>>), IF answer THEN Number(10 + n) ELSE Number(0))

Passed(decl, args) ==
  [x \in Range(decl.params) |->
     LET i == SelectInSeq(decl.params, LAMBDA p : p = x)
     IN IF i \in DOMAIN args THEN args[i] ELSE Undefined]
Inside(m, top, decl, args) ==
  [Push(m, 1, DeclaredIn(decl.body)) EXCEPT !.frames[top].home = top,
                                            !.frames[top].vals = Passed(decl, args) @@ @]
Returned(m) == IF m.ctl = "return" THEN Stop(m, "go") ELSE IF Go(m) THEN Value(m, Undefined) ELSE m
Invoke(m, w, decl, args) ==
  LET top == Len(m.frames) + 1
  IN IF m.left = 0 THEN Stop(m, "cut")
     ELSE Returned(ExecAll(Inside(Spend(m), top, decl, args), w, top, decl.body))

Answered(r, w, name) ==
  LET own == SelectSeq(w.functions, LAMBDA d : d.name = name)
  IN IF ~Go(r.m) THEN r.m
     ELSE IF own # <<>> THEN Invoke(r.m, w, own[1], r.vs) ELSE Outside(r.m, w, name, r.vs)

Chosen(m, w, f, go, e) == IF Go(m) /\ go THEN Eval(m, w, f, e) ELSE m
EvalLogical(l, w, f, e) == Chosen(l, w, f, IsTrue(l.v) = (e.op = "&&"), e.right)
EvalConditional(c, w, f, e) == Chosen(c, w, f, TRUE, IF IsTrue(c.v) THEN e.cons ELSE e.alt)

Operated(r, op) == IF Go(r.m) THEN Value(r.m, Operate(op, r.vs[1], r.vs[2])) ELSE r.m
OperatedUnary(m, op) == IF Go(m) THEN Value(m, OperateUnary(op, m.v)) ELSE m
Written(m, f, target) ==
  IF ~Go(m) THEN m ELSE IF target.t # "identifier" THEN Stop(m, "error") ELSE Write(m, f, target.name)
Postfixed(new, old) == IF Go(new) THEN Value(new, old.v) ELSE new
EvalUpdate(old, f, e) ==
  LET new == Written(OperatedUnary(old, e.op), f, e.operand)
  IN IF e.t = "unary" THEN new ELSE Postfixed(new, old)

Eval(m, w, f, e) ==
  CASE e.t = "literal"     -> Value(m, e.v)
    [] e.t = "identifier"  -> Read(m, w, f, e.name)
    [] e.t = "binary"      -> IF e.op \in {"&&", "||"} THEN EvalLogical(Eval(m, w, f, e.left), w, f, e)
                              ELSE Operated(EvalAll(m, w, f, <<e.left, e.right>>, <<>>), e.op)
    [] e.t \in {"unary", "unary_post"} ->
         IF e.op \in {"++", "--"} THEN EvalUpdate(Eval(m, w, f, e.operand), f, e)
         ELSE OperatedUnary(Eval(m, w, f, e.operand), e.op)
    [] e.t = "conditional" -> EvalConditional(Eval(m, w, f, e.test), w, f, e)
    [] e.t = "assign"      ->
         IF e.target.t # "identifier" THEN Stop(m, "error")
         ELSE Written(IF e.op = "" THEN Eval(m, w, f, e.value)
                      ELSE Operated(EvalAll(m, w, f, <<e.target, e.value>>, <<>>), e.op), f, e.target)
    [] e.t = "call"        -> Answered(EvalAll(m, w, f, e.args, <<>>), w, e.callee.name)
    [] e.t = "missing"     -> Stop(m, "error")

-----------------------------------------------------------------------------
Optionally(m, w, f, es) == IF es = <<>> THEN Value(m, Undefined) ELSE Eval(m, w, f, es[1])
DeclaredAs(m, f, name) == IF Go(m) THEN Declare(m, f, name) ELSE m

ExecAll(m, w, f, body) ==
  IF body = <<>> \/ ~Go(m) THEN m ELSE ExecAll(Exec(m, w, f, Head(body)), w, f, Tail(body))
ExecBlock(m, w, f, body) ==
  ExecAll(Push(m, f, DeclaredIn(body)), w, Len(m.frames) + 1, body)
ExecIf(c, w, f, s) ==
  IF ~Go(c) THEN c ELSE ExecAll(c, w, f, IF IsTrue(c.v) THEN <<s.cons>> ELSE s.alt)

(* The update runs after the body, also after a continue.                   *)
RECURSIVE Loop(_, _, _, _)
AfterBreak(m)    == IF m.ctl = "break" THEN Stop(m, "go") ELSE m
AfterContinue(m) == IF m.ctl = "continue" THEN Stop(m, "go") ELSE m
Again(m, w, f, s) == IF Go(m) THEN Loop(m, w, f, s) ELSE AfterBreak(m)
Update(m, w, f, s) == IF Go(m) THEN Optionally(m, w, f, s.update) ELSE m
Round(tested, w, f, s) ==
  IF ~Go(tested) \/ (s.test # <<>> /\ ~IsTrue(tested.v)) THEN tested
  ELSE IF tested.left = 0 THEN Stop(tested, "cut")
  ELSE Again(Update(AfterContinue(Exec(Spend(tested), w, f, s.body)), w, f, s), w, f, s)
Loop(m, w, f, s) == Round(Optionally(m, w, f, s.test), w, f, s)

LoopOf(test, update, body) == [test |-> test, update |-> update, body |-> body]
ExecWhile(m, w, f, s) ==
  Again(IF s.t = "while" THEN m ELSE AfterContinue(Exec(m, w, f, s.body)), w, f,
        LoopOf(<<s.test>>, <<>>, s.body))
ExecFor(m, w, f, s) ==
  LET at == Len(m.frames) + 1
  IN Again(ExecAll(Push(m, f, DeclaredIn(s.init)), w, at, s.init), w, at,
           LoopOf(s.test, s.update, s.body))

(* The tests in order until one matches; the rest of the cases from there,  *)
(* or from the default.  c is [at, f, disc, cases].                         *)
RECURSIVE FirstMatch(_, _, _)
RunFrom(m, w, c, at) ==
  ExecAll(m, w, c.f, FlattenSeq([i \in 1 .. Len(c.cases) - at + 1 |-> c.cases[i + at - 1].body]))
OtherCase(c) ==
  LET other == SelectInSeq(c.cases, LAMBDA x : x.test = <<>>)
  IN IF other = 0 THEN Len(c.cases) + 1 ELSE other
Matched(t, w, c) ==
  IF ~Go(t) THEN t
  ELSE IF t.v = c.disc THEN RunFrom(t, w, c, c.at)
  ELSE FirstMatch(t, w, [c EXCEPT !.at = @ + 1])
FirstMatch(m, w, c) ==
  IF c.at > Len(c.cases) THEN RunFrom(m, w, c, OtherCase(c))
  ELSE IF c.cases[c.at].test = <<>> THEN FirstMatch(m, w, [c EXCEPT !.at = @ + 1])
  ELSE Matched(Eval(m, w, c.f, c.cases[c.at].test[1]), w, c)
ExecSwitch(m, w, f, s) ==
  LET all == FlattenSeq([i \in DOMAIN s.cases |-> s.cases[i].body])
  IN IF ~Go(m) THEN m
     ELSE AfterBreak(FirstMatch(Push(m, f, DeclaredIn(all)), w,
            [at |-> 1, f |-> Len(m.frames) + 1, disc |-> m.v, cases |-> s.cases]))

Exec(m, w, f, s) ==
  CASE s.t = "var_decl"      -> DeclaredAs(Optionally(m, w, f, s.init), f, s.name)
    [] s.t = "temp_decl"     -> DeclaredAs(Optionally(m, w, f, s.init), m.frames[f].home, s.name)
    [] s.t = "expression"    -> Eval(m, w, f, s.e)
    [] s.t = "block"         -> ExecBlock(m, w, f, s.body)
    [] s.t = "if"            -> ExecIf(Eval(m, w, f, s.test), w, f, s)
    [] s.t \in {"while", "do_while"} -> ExecWhile(m, w, f, s)
    [] s.t = "for"           -> ExecFor(m, w, f, s)
    [] s.t = "switch"        -> ExecSwitch(Eval(m, w, f, s.disc), w, f, s)
    [] s.t = "return"        -> LET v == Optionally(m, w, f, s.value)
                                IN IF Go(v) THEN Stop(v, "return") ELSE v
    [] s.t \in {"break", "continue"} -> Stop(m, s.t)
    [] s.t = "function_decl" -> m

-----------------------------------------------------------------------------
(* The program, then each of its functions.                                 *)
RECURSIVE CallEach(_, _, _)
Reported(m, w, functions) ==
  CallEach(Log(m, <<"return", <<m.v>>>>), w, Tail(functions))
CallEach(m, w, functions) ==
  IF functions = <<>> \/ ~Go(m) THEN m
  ELSE Reported(Invoke(m, w, Head(functions), [i \in DOMAIN Head(functions).params |-> Number(i)]),
                w, functions)

Run(program, world, steps) ==
  LET w == [functions |-> FunctionsOf(program)] @@ world
      m == [frames |-> <<Frame(0, 1, DeclaredIn(program))>>, log |-> <<>>, left |-> steps,
            ctl |-> "go", v |-> Undefined]
  IN CallEach(ExecAll(m, w, 1, program), w, FunctionsOf(program))

(* The second does what the first does, as far as both were followed.       *)
Agrees(first, second) ==
  IF first.ctl = "cut" \/ second.ctl = "cut"
  THEN second.ctl # "error" /\ (IsPrefix(first.log, second.log) \/ IsPrefix(second.log, first.log))
  ELSE second.ctl = first.ctl /\ second.log = first.log

-----------------------------------------------------------------------------
(* The compile pipeline of a program: it is lowered to a graph statement by *)
(* statement, the graph is rewritten in place until a whole round changes   *)
(* nothing, its nodes are placed and it is printed again.                   *)

CONSTANTS
  Programs,   \* the programs that are compiled
  Worlds,     \* what their free names hold and their calls are answered
  MaxRounds   \* loop rounds and calls after which a run is cut

ASSUME MaxRoundsIsNat == MaxRounds \in Nat

VARIABLES
  program,       \* the source
  phase,         \* the pass in hand, "done", or "fault" for an error thrown
  builder,       \* the lowering in hand
  graph,         \* [g, root], once lowered
  left,          \* what the pass has still to visit: statements, then node ids
  protectedIds,  \* the ids that were side references when the optimiser started
  changed,       \* whether this round has changed the graph
  at,            \* the blocks of the nodes placed so far
  seen,          \* the nodes that were visited for their latest block
  output         \* the statements printed

vars == <<program, phase, builder, graph, left, protectedIds, changed, at, seen, output>>

Init ==
  /\ program \in Programs /\ left = program
  /\ phase = "lower"
  /\ builder = NewBuilder
  /\ graph = [g |-> <<>>, root |-> NoNode]
  /\ protectedIds = {} /\ changed = FALSE
  /\ at = <<>> /\ seen = {} /\ output = <<>>

Lower ==
  /\ phase = "lower" /\ left # <<>>
  /\ builder' = LowerStatement(builder, Head(left))
  /\ left' = Tail(left)
  /\ UNCHANGED <<program, phase, graph, protectedIds, changed, at, seen, output>>

StartRound(g) == left' = InOrder(DOMAIN g) /\ changed' = FALSE

(* The end of the chain becomes the root.  The side references are looked   *)
(* up once, for all the rounds.                                             *)
Finish ==
  /\ phase = "lower" /\ left = <<>>
  /\ graph' = [g |-> builder.g, root |-> builder.end]
  /\ protectedIds' = SideReferences(builder.g, builder.end)
  /\ phase' = "optimize" /\ builder' = NewBuilder
  /\ StartRound(builder.g)
  /\ UNCHANGED <<program, at, seen, output>>

(* One node of a round; a node removed before its turn is passed over.      *)
Folded(n) ==
  LET folded == [graph EXCEPT !.g = foldConstants(@, n)]
  IN IF n \in DOMAIN graph.g THEN foldDeadBranches(folded, n, protectedIds) ELSE graph

VisitNode ==
  /\ phase = "optimize" /\ left # <<>>
  /\ graph' = Folded(Head(left))
  /\ changed' = (changed \/ graph' # graph)
  /\ left' = Tail(left)
  /\ UNCHANGED <<program, phase, builder, protectedIds, at, seen, output>>

(* Every round ends with the merging of equal computations.                 *)
EndRound ==
  /\ phase = "optimize" /\ left = <<>>
  /\ LET merged == optimizeStructuralCSE(graph.g, protectedIds)
         again  == changed \/ merged.changed
     IN /\ graph' = [graph EXCEPT !.g = merged.g]
        /\ IF merged.fault THEN phase' = "fault" /\ UNCHANGED <<left, changed>>
           ELSE IF again THEN phase' = phase /\ StartRound(merged.g)
           ELSE phase' = "early" /\ StartRound(merged.g)
  /\ UNCHANGED <<program, builder, protectedIds, at, seen, output>>

(* Every node is placed as early as it can be, then as late as it should be. *)
PlaceEarly ==
  /\ phase = "early"
  /\ IF left = <<>> THEN phase' = "late" /\ left' = InOrder(DOMAIN graph.g) /\ at' = at
     ELSE /\ at' = scheduleEarly(graph.g, at, Head(left))
          /\ left' = Tail(left) /\ phase' = phase
  /\ UNCHANGED <<program, builder, graph, protectedIds, changed, seen, output>>

PlaceLate ==
  /\ phase = "late" /\ left # <<>>
  /\ LET placed == scheduleLate(graph.g, [at |-> at, seen |-> seen], Head(left))
     IN at' = placed.at /\ seen' = placed.seen
  /\ left' = Tail(left)
  /\ UNCHANGED <<program, phase, builder, graph, protectedIds, changed, output>>

EmitProgram ==
  /\ phase = "late" /\ left = <<>>
  /\ output' = build([g |-> graph.g, root |-> graph.root, at |-> at])
  /\ phase' = "done"
  /\ UNCHANGED <<program, builder, graph, left, protectedIds, changed, at, seen>>

Next == Lower \/ Finish \/ VisitNode \/ EndRound \/ PlaceEarly \/ PlaceLate \/ EmitProgram

Spec == Init /\ [][Next]_vars

-----------------------------------------------------------------------------
(* While the optimiser runs - optimize removes nodes and rewires slots one  *)
(* at a time - every edge is known at both of its ends and none leads to a  *)
(* node that was removed, so that nothing printed is read from a hole.      *)
GraphHoldsTogether ==
  phase \in {"optimize", "early"} => EdgesAgree(graph.g, graph.root)

(* What is printed (build) does what was written: lowering threads state    *)
(* through branches and loops, the optimiser folds and merges, code motion  *)
(* moves statements, and the calls the program makes, their arguments, their *)
(* order and its results stay those of the source, whatever the free names  *)
(* hold and the calls answer.                                               *)
SameBehaviour ==
  phase = "done" =>
    \A w \in Worlds :
      LET source == Run(program, w, MaxRounds)
      IN source.ctl # "error" => Agrees(source, Run(output, w, MaxRounds))

Edges(g) == UNION {{<<n, p>> : p \in DOMAIN g[n].ins} : n \in DOMAIN g}
Size(g)  == Cardinality(DOMAIN g) + Cardinality(Edges(g))

(* optimize repeats its passes until a round changes nothing: it ends       *)
(* because every change - a fold, a dead branch, a merge - takes nodes or   *)
(* edges away and none gives any back.                                      *)
RewritingShrinks ==
  [][phase = "optimize" /\ graph' # graph => Size(graph'.g) < Size(graph.g)]_vars
=============================================================================
