------------------------------ MODULE Lowering ------------------------------
(* From statements to the graph: every name is resolved to the node that    *)
(* holds its value at that point, every effect is chained to the one before *)
(* it, and branches and loops become merges.                                *)
(* A builder b is [g, heap, scope, end, exited, brokeOut, externalNodes, fn,*)
(* updates]: the graph, all scopes ever made, the scope, chain end and exit *)
(* flags of the statement in hand, the nodes of undeclared names, the entry *)
(* of the function in hand and the updates of the loops around it.          *)
EXTENDS Vsdg

-----------------------------------------------------------------------------
(* Scopes: the bindings in the order they were made, and the names that     *)
(* were declared here.  A loop's scope has merges of its own for the names  *)
(* that are looked up through it.                                           *)
Scope(parent) == [parent |-> parent, bindings |-> <<>>, local |-> {}, isFunctionBoundary |-> FALSE,
                  stateAnchor |-> NoNode, muNodes |-> <<>>]
IsMu(sc) == sc.stateAnchor # NoNode

Names(bindings) == {bindings[i][1] : i \in DOMAIN bindings}
BoundTo(bindings, name) == bindings[CHOOSE i \in DOMAIN bindings : bindings[i][1] = name][2]
Bind(bindings, name, n) ==
  IF name \notin Names(bindings) THEN Append(bindings, <<name, n>>)
  ELSE [i \in DOMAIN bindings |-> IF bindings[i][1] = name THEN <<name, n>> ELSE bindings[i]]

SetIn(b, s, name, n) == [b EXCEPT !.heap[s].bindings = Bind(b.heap[s].bindings, name, n)]
SetName(b, name, n)  == SetIn(b, b.scope, name, n)
Create(b, name, n)   == [SetName(b, name, n) EXCEPT !.heap[b.scope].local = @ \cup {name}]

Enter(b) == [b EXCEPT !.heap = Append(@, Scope(b.scope)), !.scope = Len(b.heap) + 1]

RECURSIVE Flush(_, _, _)
Flush(b, parent, bindings) ==
  IF bindings = <<>> THEN b
  ELSE Flush(SetIn(b, parent, Head(bindings)[1], Head(bindings)[2]), parent, Tail(bindings))
(* Closing a scope hands what it bound but did not declare to its parent.   *)
closeAndFlush(b, s) ==
  LET sc == b.heap[s]
      outer(x) == x[1] \notin sc.local
  IN Flush(b, sc.parent, SelectSeq(sc.bindings, outer))

RECURSIVE isLocalToCurrentFunction(_, _, _)
isLocalToCurrentFunction(b, s, name) ==
  IF s = 0 \/ name \in b.heap[s].local THEN TRUE
  ELSE IF b.heap[s].isFunctionBoundary THEN FALSE
  ELSE isLocalToCurrentFunction(b, b.heap[s].parent, name)

RECURSIVE isLoopCarried(_, _, _)
isLoopCarried(b, s, name) ==
  s # 0 /\ (name \in Names(b.heap[s].muNodes) \/ isLoopCarried(b, b.heap[s].parent, name))

-----------------------------------------------------------------------------
(* Nodes.  What makes one returns the builder and the node, [b, n].         *)
NextId(b) == Cardinality(DOMAIN b.g)
makeNode(b, type, name, e) ==
  [b |-> [b EXCEPT !.g = (NextId(b) :> MakeNode(type, name, e)) @@ b.g], n |-> NextId(b)]
makeMarker(b, name) == makeNode(b, "marker", name, NoExpr)

Connect(b, from, port, to, at) == [b EXCEPT !.g = connectValue(b.g, from, port, to, at)]
MarkNode(b, n, mark) == [b EXCEPT !.g = Mark(b.g, n, mark)]
connectEnd(b, n) == [Connect(b, b.end, 0, n, 0) EXCEPT !.end = n]

(* A name looked up through a loop gets a merge in the loop's scope.        *)
RECURSIVE LookUp(_, _, _)
MergeFor(mu, s, name, old) ==
  LET b == SetIn([mu.b EXCEPT !.g[mu.n].anchor = mu.b.fn, !.heap[s].muNodes = Bind(@, name, mu.n)],
                 s, name, mu.n)
  IN [b |-> Connect(Connect(b, old, 0, mu.n, 0), mu.b.heap[s].stateAnchor, 0, mu.n, 2), n |-> mu.n]
ThroughLoop(old, s, name) ==
  IF old.n = NoNode \/ ~IsMu(old.b.heap[s]) THEN old
  ELSE MergeFor(makeNode(old.b, "muValue", name, NoExpr), s, name, old.n)
LookUp(b, s, name) ==
  IF s = 0 THEN [b |-> b, n |-> NoNode]
  ELSE IF name \in Names(b.heap[s].bindings)
       THEN [b |-> b, n |-> BoundTo(b.heap[s].bindings, name)]
  ELSE ThroughLoop(LookUp(b, b.heap[s].parent, name), s, name)

External(b, name) ==
  IF name \in DOMAIN b.externalNodes THEN [b |-> b, n |-> b.externalNodes[name]]
  ELSE [makeNode(b, "var", name, NoExpr) EXCEPT !.b.externalNodes = (name :> NextId(b)) @@ @]

(* The node of an expression that has been walked to n; a name is looked up *)
(* only now.                                                                *)
Captured(found, name) ==
  found.b.g[found.n].type = "var" /\ ~isLocalToCurrentFunction(found.b, found.b.scope, name)
Found(found, name) ==
  IF found.n = NoNode THEN External(found.b, name)
  ELSE IF Captured(found, name) THEN [found EXCEPT !.b = MarkNode(@, found.n, "capturedRead")]
  ELSE found
getExprNode(b, e, n) ==
  IF e.t # "identifier" THEN [b |-> b, n |-> n] ELSE Found(LookUp(b, b.scope, e.name), e.name)

(* Feeds the value of e, walked to n, into a port of node to.               *)
Feed(r, to, at) == Connect(r.b, r.n, 0, to, at)
ConnectExpr(b, e, n, to, at) == Feed(getExprNode(b, e, n), to, at)

RECURSIVE ConnectAll(_, _, _, _, _)
ConnectAll(b, es, ns, to, at) ==
  IF es = <<>> THEN b
  ELSE ConnectAll(ConnectExpr(b, Head(es), Head(ns), to, at), Tail(es), Tail(ns), to, at + 1)

MarkedBy(marker, n) == connectEnd(Connect(marker.b, marker.n, 0, n, 2), marker.n)
threadMutation(b, n) == MarkedBy(makeMarker(b, "MUTATION_MARKER"), n)
bindVar(b, n) == threadMutation(Create(MarkNode(b, n, "bound"), b.g[n].name, n), n)
rebindVar(b, name, n) ==
  threadMutation(SetName([MarkNode(b, n, "bound") EXCEPT !.g[n].name = name], name, n), n)

-----------------------------------------------------------------------------
(* Expressions.  Walk gives the builder and the node of e, NoNode for a     *)
(* name.                                                                    *)
IsUpdate(op) == op \in {"++", "--"}
IsPureCallee(name) == name \in {"pure", "pureFoo"}

RECURSIVE Walk(_, _)
RECURSIVE WalkAll(_, _, _)
WalkRest(w, es, ns) == WalkAll(w.b, Tail(es), Append(ns, w.n))
WalkAll(b, es, ns) ==
  IF es = <<>> THEN [b |-> b, ns |-> ns] ELSE WalkRest(Walk(b, Head(es)), es, ns)

(* A value node over its operands, from port at on.                         *)
Over(node, operands, ns, at) == [node EXCEPT !.b = ConnectAll(@, operands, ns, node.n, at)]
ValueOver(w, e, type, operands) == Over(makeNode(w.b, type, "", e), operands, w.ns, 0)
WalkValue(b, e, type, operands) == ValueOver(WalkAll(b, operands, <<>>), e, type, operands)

Rebound(r, name) == [r EXCEPT !.b = rebindVar(@, name, r.n)]
WalkUnary(b, e) ==
  IF IsUpdate(e.op) THEN Rebound(WalkValue(b, e, "mutation", <<e.operand>>), e.operand.name)
  ELSE WalkValue(b, e, "floating", <<e.operand>>)

(* A postfix update has the value from before it: a snapshot, ordered ahead *)
(* of the update.                                                           *)
Increment(node, operand, old, e) ==
  [b |-> rebindVar(Connect(Connect(node.b, operand, 0, node.n, 0), old, 0, node.n, 1),
                   e.operand.name, node.n),
   n |-> old]
Snapshot(old, operand, e) ==
  Increment(makeNode(threadMutation(Connect(old.b, operand, 0, old.n, 0), old.n), "unary_post", "", e),
            operand, old.n, e)
PostfixOf(operand, e) == Snapshot(makeNode(operand.b, "unary_post_old", "", e), operand.n, e)
WalkPostfix(b, e) == PostfixOf(getExprNode(b, e.operand, NoNode), e)

(* An assignment to a variable of an enclosing function must print.         *)
AssignMarks(b, e) ==
  (IF e.op = "" THEN {"plainAssign"} ELSE {})
    \cup (IF isLocalToCurrentFunction(b, b.scope, e.target.name) THEN {} ELSE {"forcedPrint"})
Assigned(r, e) ==
  Rebound([r EXCEPT !.b.g[r.n].marks = @ \cup AssignMarks(r.b, e)], e.target.name)
WalkAssign(b, e) == Assigned(WalkValue(b, e, "mutation", <<e.target, e.value>>), e)

(* A call is chained unless its callee's name says it is pure.              *)
Chained(node) == [node EXCEPT !.b = connectEnd(@, node.n)]
CallOver(w, e) ==
  Over(IF IsPureCallee(e.callee.name) THEN makeNode(w.b, "floating", "", e)
       ELSE Chained(makeNode(w.b, "effect", "", e)),
       Append(e.args, e.callee), Append(w.ns, NoNode), 1)
WalkCall(b, e) == CallOver(WalkAll(b, e.args, <<>>), e)

Walk(b, e) ==
  CASE e.t = "identifier"  -> [b |-> b, n |-> NoNode]
    [] e.t = "literal"     -> makeNode(b, "floating", "", e)
    [] e.t = "unary"       -> WalkUnary(b, e)
    [] e.t = "unary_post"  -> WalkPostfix(b, e)
    [] e.t = "assign"      -> WalkAssign(b, e)
    [] e.t = "binary"      -> WalkValue(b, e, "floating", <<e.left, e.right>>)
    [] e.t = "conditional" -> WalkValue(b, e, "floating", <<e.test, e.cons, e.alt>>)
    [] e.t = "call"        -> WalkCall(b, e)

(* Walks e and gives the node that its consumer reads.                      *)
NodeOf(w, e) == getExprNode(w.b, e, w.n)
WalkTo(b, e) == NodeOf(Walk(b, e), e)

-----------------------------------------------------------------------------
(* Branches.                                                                *)
State(b) == [scope |-> b.scope, end |-> b.end, exited |-> b.exited, brokeOut |-> b.brokeOut]
BranchFrom(b, parent) ==
  Enter([b EXCEPT !.scope = parent.scope, !.end = parent.end, !.exited = FALSE, !.brokeOut = FALSE])

(* Only the last link of the branch's chain is looked at.                   *)
EndsInEffect(g, tail, boundary) == tail # boundary /\ ~IsMarker(g, tail, "MUTATION_MARKER")
RECURSIVE hasRealEffect(_, _, _)
hasRealEffect(g, tail, boundary) ==
  tail # boundary /\ (\/ ~IsMarker(g, tail, "MUTATION_MARKER") \/ ~HasInput(g, tail, 0)
                      \/ hasRealEffect(g, Input(g, tail, 0), boundary))

(* Whether the two branches need a merge of the chain, and how the          *)
(* statement as a whole is left.                                            *)
NeedsMerge(b, parent, T, F) ==
  \/ T.exited \/ F.exited
  \/ hasRealEffect(b.g, T.end, parent.end) \/ hasRealEffect(b.g, F.end, parent.end)
Left(b, end, T, F) ==
  [b EXCEPT !.end = end, !.exited = T.exited /\ F.exited,
            !.brokeOut = T.exited /\ F.exited /\ T.brokeOut /\ F.brokeOut]
Joined(gamma, ends, T, F) ==
  [b |-> Left(Connect(Connect(Connect(Connect(gamma.b, ends[1], 0, gamma.n, 0),
                                      ends[2], 0, gamma.n, 1), T.end, 0, gamma.n, 2),
                      F.end, 0, gamma.n, 3), gamma.n, T, F),
   n |-> gamma.n]
mergeState(b, parent, test, T, F) ==
  IF NeedsMerge(b, parent, T, F)
  THEN Joined(makeNode(b, "gamma", "", NoExpr), <<parent.end, test>>, T, F)
  ELSE [b |-> Left(b, parent.end, T, F), n |-> NoNode]

(* The assignment of a branch that was left, or that its merge supersedes.  *)
Supersede(b, n, name, viaBreak) ==
  LET named == slotName(b.g, n) = name
      kept  == \/ b.g[n].type = "gammaValue"
               \/ b.g[n].type = "var" /\ Marked(b.g, n, "declKind")
  IN IF viaBreak /\ named /\ (Marked(b.g, n, "switchInternal") \/ isLoopCarried(b, b.scope, name))
     THEN MarkNode(b, n, "forcedPrint")
     ELSE IF named /\ ~kept THEN [b EXCEPT !.g = Unmark(b.g, n, "bound")] ELSE b

(* One variable that the two branches left different: t and f are what they *)
(* have it bound to, test the condition's node.                             *)
ViaBreak(X, Y) == X.exited /\ ~Y.exited /\ X.brokeOut
Stays(b, name, gone, staying) ==
  SetName(IF slotName(b.g, gone) = name THEN MarkNode(b, gone, "forcedPrint") ELSE b, name, staying)
ValueMerge(gamma, name, test, t, f, never) ==
  SetName(Connect(Connect(Connect(IF never THEN MarkNode(gamma.b, gamma.n, "neverMaterialize") ELSE gamma.b,
                                  test, 0, gamma.n, 0), t, 0, gamma.n, 1), f, 0, gamma.n, 2),
          name, gamma.n)
MergeValues(b, name, test, t, f, T, F) ==
  IF t = f THEN b
  ELSE IF T.exited # F.exited /\ ~(IF T.exited THEN T.brokeOut ELSE F.brokeOut)
  THEN Stays(b, name, IF T.exited THEN t ELSE f, IF T.exited THEN f ELSE t)
  ELSE ValueMerge(makeNode(Supersede(Supersede(b, t, name, ViaBreak(T, F)), f, name, ViaBreak(F, T)),
                           "gammaValue", name, NoExpr),
                  name, test, t, f, ViaBreak(T, F) \/ ViaBreak(F, T))
OtherSide(f, t, name, test, T, F) == MergeValues(f.b, name, test, t, f.n, T, F)
OneSide(t, name, test, T, F) == OtherSide(LookUp(t.b, F.scope, name), t.n, name, test, T, F)
reconcileVariable(b, name, test, T, F) == OneSide(LookUp(b, T.scope, name), name, test, T, F)

RECURSIVE reconcileVariables(_, _, _, _, _)
reconcileVariables(b, names, test, T, F) ==
  IF names = <<>> THEN b
  ELSE reconcileVariables(reconcileVariable(b, Head(names), test, T, F), Tail(names), test, T, F)

DivergedVariables(b, T, F) ==
  LET mine   == b.heap[T.scope].bindings
      theirs == SelectSeq(b.heap[F.scope].bindings, LAMBDA x : x[1] \notin Names(mine))
      all    == mine \o theirs
  IN [i \in DOMAIN all |-> all[i][1]]

Reconcile(b, parent, test, T, F) ==
  reconcileVariables([b EXCEPT !.scope = parent.scope], DivergedVariables(b, T, F), test, T, F)

-----------------------------------------------------------------------------
(* Statements.                                                              *)
RECURSIVE LowerStatement(_, _)
RECURSIVE LowerEach(_)
(* r is [b, left], the builder and the statements it has still to take.     *)
LowerEach(r) ==
  IF r.left = <<>> THEN r.b
  ELSE LowerEach([b |-> LowerStatement(r.b, Head(r.left)), left |-> Tail(r.left)])
LowerAll(b, body) == LowerEach([b |-> b, left |-> body])

Closed(inner, scope) == [closeAndFlush(inner, inner.scope) EXCEPT !.scope = scope]
LowerScope(b, body) == Closed(LowerAll(Enter(b), body), b.scope)

(* An optional expression, walked, with the builder: [b, n].                *)
WalkOption(b, e) == IF e = <<>> THEN [b |-> b, n |-> NoNode] ELSE Walk(b, e[1])
FeedOption(b, e, n, to, at) == IF e = <<>> THEN b ELSE ConnectExpr(b, e[1], n, to, at)

(* A declared variable has a node of its own around its value.              *)
DeclareVar(b, n) == bindVar(MarkNode(b, n, "declKind"), n)
DeclareOver(node, init, value) == DeclareVar(FeedOption(node.b, init, value, node.n, 0), node.n)
DeclareAs(w, name, init) == DeclareOver(makeNode(w.b, "var", name, NoExpr), init, w.n)
Declared(b, name, init) == DeclareAs(WalkOption(b, init), name, init)

ExitWith(marker, value, n) ==
  [FeedOption(connectEnd(marker.b, marker.n), value, n, marker.n, 1) EXCEPT !.exited = TRUE]
ReturnOf(w, value) == ExitWith(makeMarker(w.b, "EARLY_RETURN_MARKER"), value, w.n)
LowerReturn(b, s) == ReturnOf(WalkOption(b, s.value), s.value)

LowerJump(b, name) == ExitWith(makeMarker(b, name), <<>>, NoNode)

(* A continue in a for loop runs a copy of the loop's update first.         *)
LowerContinue(b) ==
  LowerJump(WalkOption(b, IF b.updates = <<>> THEN <<>> ELSE Last(b.updates)).b, "CONTINUE_MARKER")

Branch(b, parent, body) == LowerAll(BranchFrom(b, parent), body)

(* Both sides of a branch are lowered from the same state.                   *)
Merged(b, parent, test, T, F) ==
  Reconcile(mergeState(b, parent, test, T, F).b, parent, test, T, F)
AfterElse(b, parent, test, T) == Merged(b, parent, test, T, State(b))
AfterThen(b, parent, test, alt) == AfterElse(Branch(b, parent, alt), parent, test, State(b))
LowerIfOn(test, s) ==
  AfterThen(Branch(test.b, State(test.b), <<s.cons>>), State(test.b), test.n, s.alt)
LowerIf(b, s) == LowerIfOn(WalkTo(b, s.test), s)

RECURSIVE CloseMerges(_, _, _, _, _)
CloseMerge(theta, name, mu, test, stateTheta) ==
  SetName(Connect(Connect(Connect(theta.b, test, 0, theta.n, 0), mu, 0, theta.n, 1),
                  stateTheta, 0, theta.n, 2), name, theta.n)
CloseMerges(b, loop, muNodes, test, stateTheta) ==
  IF muNodes = <<>> THEN b
  ELSE LET name == Head(muNodes)[1]
           mu   == Head(muNodes)[2]
           fed  == Connect(b, BoundTo(b.heap[loop].bindings, name), 0, mu, 1)
       IN CloseMerges(CloseMerge(makeNode(fed, "thetaValue", name, NoExpr), name, mu, test, stateTheta),
                      loop, Tail(muNodes), test, stateTheta)

(* loop is [mu, scope, outer]: the loop's node and scope, and the builder   *)
(* from before it.                                                          *)
Fresh(b) == [b EXCEPT !.exited = FALSE, !.brokeOut = FALSE]
LoopClosed(theta, loop, test) ==
  CloseMerges([Fresh(Connect(Connect(theta.b, loop.mu, 0, theta.n, 0), test, 0, theta.n, 1))
                 EXCEPT !.end = theta.n, !.scope = loop.outer.scope, !.updates = loop.outer.updates],
              loop.scope, theta.b.heap[loop.scope].muNodes, test, theta.n)
LoopEnd(b, loop, test) ==
  LoopClosed(makeNode(Connect(b, b.end, 0, loop.mu, 1), "theta", "", NoExpr), loop, test)
(* The test comes first, or, in a do loop, last.                            *)
BodyAfter(test, body, loop) == LoopEnd(LowerStatement(Fresh(test.b), body), loop, test.n)
TestAfter(test, loop) == LoopEnd(test.b, loop, test.n)
LoopBody(b, test, body, isDoWhile, loop) ==
  IF isDoWhile
  THEN TestAfter(WalkTo(LowerStatement(Fresh(MarkNode(b, loop.mu, "do")), body), test), loop)
  ELSE BodyAfter(WalkTo(b, test), body, loop)
LoopStart(mu, forUpdate) ==
  connectEnd([Enter(mu.b) EXCEPT !.heap[Len(mu.b.heap) + 1].stateAnchor = mu.n,
                                 !.updates = Append(@, forUpdate)], mu.n)
LoopFrom(mu, b, test, body, isDoWhile, forUpdate) ==
  LoopBody(LoopStart(mu, forUpdate), test, body, isDoWhile,
           [mu |-> mu.n, scope |-> Len(mu.b.heap) + 1, outer |-> b])
buildLoop(b, test, body, isDoWhile, forUpdate) ==
  LoopFrom(makeNode(b, "mu", "", NoExpr), b, test, body, isDoWhile, forUpdate)

LowerFor(b, s) ==
  LET test == IF s.test = <<>> THEN Lit(Boolean(TRUE)) ELSE s.test[1]
      body == IF s.update = <<>> THEN s.body ELSE Block(<<s.body, ExprStmt(s.update[1])>>)
  IN buildLoop(LowerAll(b, s.init), test, body, FALSE, s.update)

-----------------------------------------------------------------------------
(* A switch is a cascade of branches over a flag "some case was entered",   *)
(* each case tested against a copy of the discriminant.                     *)
Helper(b, name) == name \o ToString(NextId(b))

(* One flag per case that has a test; r is [b, matches, tests].             *)
RECURSIVE TestCases(_, _, _)
Flag(b, name, value) == DeclareOver([makeNode(b, "var", name, NoExpr) EXCEPT
                                       !.b = Connect(@, value, 0, NextId(b), 0)], <<>>, NoNode)
TestCase(w, r, match) ==
  LET name == Helper(w.b, "__match" \o ToString(Len(r.matches)) \o "_")
  IN [b |-> Flag(w.b, name, w.n), matches |-> Append(r.matches, <<name>>),
      tests |-> Append(r.tests, Input(w.b.g, w.n, 1))]
TestCases(r, disc, cases) ==
  IF Len(r.matches) = Len(cases) THEN r
  ELSE LET test  == cases[Len(r.matches) + 1].test
           match == Binary("===", Identifier(disc), test[1])
       IN TestCases(
            IF test = <<>> THEN [r EXCEPT !.matches = Append(@, <<>>), !.tests = Append(@, NoNode)]
            ELSE TestCase(Walk(r.b, match), r, match), disc, cases)

(* This case runs: one was entered, or this one matches, or, for default,   *)
(* no other does.                                                           *)
CaseCondition(hit, match, matches) ==
  LET names  == FlattenSeq(matches)
      either == FoldLeft(LAMBDA acc, x : Binary("||", acc, Identifier(x)), Identifier(Head(names)), Tail(names))
      others == IF names = <<>> THEN Lit(Boolean(TRUE))
                ELSE Unary("!", either)
  IN Binary("||", Identifier(hit), IF match = <<>> THEN others ELSE Identifier(match[1]))

(* Lowers the cases; r is [b, cases], with those lowered so far.            *)
RECURSIVE LowerCases(_, _, _, _)
Tagged(merged) ==
  IF merged.n = NoNode THEN merged.b ELSE MarkNode(merged.b, merged.n, "switchInternal")
CaseMerged(b, parent, test, T, F) ==
  Reconcile(Tagged(mergeState(b, parent, test, T, F)), parent, test, T, F)
CaseSkipped(b, parent, test, T) == CaseMerged(b, parent, test, T, State(b))
CaseDone(T, parent, test, boundary) ==
  [b    |-> CaseSkipped(BranchFrom(T, parent), parent, test, State(T)),
   case |-> [boundary |-> boundary, tail |-> T.end]]
CaseBody(flag, body, parent, test) ==
  CaseDone(LowerScope(MarkNode(flag.b, flag.n, "switchInternal"), body), parent, test, flag.b.end)
CaseEntered(b, hit, body, parent, test) == CaseBody(LookUp(b, b.scope, hit), body, parent, test)
CaseFrom(test, hit, body) ==
  CaseEntered(Walk(BranchFrom(test.b, State(test.b)), Assign(Identifier(hit), Lit(Boolean(TRUE)))).b,
              hit, body, State(test.b), test.n)
CaseAdded(done, cases, test) ==
  [b |-> done.b, cases |-> Append(cases, [test |-> test] @@ done.case)]
LowerCases(r, hit, matched, cases) ==
  IF Len(r.cases) = Len(cases) THEN r
  ELSE LET i    == Len(r.cases) + 1
           test == WalkTo(r.b, CaseCondition(hit, matched.matches[i], matched.matches))
       IN LowerCases(CaseAdded(CaseFrom(test, hit, cases[i].body), r.cases, matched.tests[i]),
                     hit, matched, cases)

(* The discriminant is named, every test is made, then the flag starts low. *)
SwitchClosed(scope, disc, cases, from) ==
  [Fresh(Connect(Connect([scope.b EXCEPT !.g[scope.n].disc = disc, !.g[scope.n].cases = cases],
                         from, 0, scope.n, 0), scope.b.end, 0, scope.n, 1)) EXCEPT !.end = scope.n]
SwitchLowered(r, disc, from) ==
  SwitchClosed(makeNode(r.b, "break_scope", "", NoExpr), disc, r.cases, from)
SwitchCases(b, start, hit, matched, cases, disc) ==
  SwitchLowered(LowerCases([b |-> Fresh(connectEnd(start.b, start.n)), cases |-> <<>>],
                           hit, matched, cases), disc, b.end)
SwitchFlagged(b, hit, matched, cases, disc) ==
  SwitchCases(b, makeMarker(b, "BREAK_SCOPE_START"), hit, matched, cases, disc)
SwitchFlag(low, matched, cases, disc) ==
  SwitchFlagged(Flag(low.b, Helper(low.b, "__hit_"), low.n), Helper(low.b, "__hit_"), matched, cases, disc)
SwitchTested(matched, cases, disc) ==
  SwitchFlag(Walk(matched.b, Lit(Boolean(FALSE))), matched, cases, disc)
SwitchOn(node, w, s) ==
  SwitchTested(TestCases([b |-> DeclareOver(node, <<s.disc>>, w.n), matches |-> <<>>, tests |-> <<>>],
                         node.b.g[node.n].name, s.cases), s.cases, node.n)
SwitchNamed(w, s) == SwitchOn(makeNode(w.b, "var", Helper(w.b, "__disc_"), NoExpr), w, s)
LowerSwitch(b, s) == SwitchNamed(Walk(b, s.disc), s)

-----------------------------------------------------------------------------
(* A function is a chain of its own, from its entry to its return anchor.   *)
RECURSIVE BindParams(_, _, _, _)
BindParams(b, entry, params, port) ==
  IF params = <<>> THEN b
  ELSE LET node == makeNode(b, "var", Head(params), NoExpr)
       IN BindParams(Create(Connect(node.b, entry, port, node.n, 0), Head(params), node.n),
                     entry, Tail(params), port + 1)

FunctionClosed(body, outer, scope) ==
  [closeAndFlush(body, scope) EXCEPT !.scope = outer.scope, !.end = body.fn, !.exited = outer.exited,
                                     !.brokeOut = outer.brokeOut, !.fn = outer.fn]
FunctionEnd(body, outer, scope) ==
  FunctionClosed(Connect(body, body.end, 0, body.g[body.fn].returns, 0), outer, scope)
FunctionScope(b, entry, params) ==
  BindParams([b EXCEPT !.heap[b.scope].isFunctionBoundary = TRUE], entry, params, 1)
FunctionFrom(start, entry, outer, s) ==
  FunctionEnd(LowerAll([FunctionScope(Enter(Connect(start.b, entry, 0, start.n, 0)), entry, s.params)
                          EXCEPT !.end = start.n, !.exited = FALSE, !.brokeOut = FALSE, !.fn = entry],
                       s.body),
              outer, Len(outer.heap) + 1)
FunctionEntry(entry, anchor, outer, s) ==
  FunctionFrom(makeMarker(Connect([entry.b EXCEPT !.g[entry.n].returns = anchor],
                                  outer.end, 0, entry.n, 0), "FUNCTION_BODY_START"), entry.n, outer, s)
FunctionOver(anchor, outer, s) ==
  FunctionEntry(makeNode(anchor.b, "function", "", s), anchor.n, outer, s)
buildFunctionBody(b, s) == FunctionOver(makeMarker(b, "RETURN_ANCHOR"), b, s)

(* A literal on its own is a directive and prints as it is: left out here.  *)
LowerStatement(b, s) ==
  CASE s.t = "var_decl"      -> Declared(b, s.name, s.init)
    [] s.t = "expression"    -> Walk(b, s.e).b
    [] s.t = "block"         -> LowerScope(b, s.body)
    [] s.t = "if"            -> LowerIf(b, s)
    [] s.t = "while"         -> buildLoop(b, s.test, s.body, FALSE, <<>>)
    [] s.t = "do_while"      -> buildLoop(b, s.test, s.body, TRUE, <<>>)
    [] s.t = "for"           -> LowerFor(b, s)
    [] s.t = "break"         -> [LowerJump(b, "BREAK_MARKER") EXCEPT !.brokeOut = TRUE]
    [] s.t = "continue"      -> LowerContinue(b)
    [] s.t = "return"        -> LowerReturn(b, s)
    [] s.t = "switch"        -> LowerSwitch(b, s)
    [] s.t = "function_decl" -> buildFunctionBody(b, s)

NewBuilder ==
  [g |-> (0 :> MakeNode("marker", "PROGRAM_START", NoExpr)), heap |-> <<Scope(0)>>, scope |-> 1,
   end |-> 0, exited |-> FALSE, brokeOut |-> FALSE, externalNodes |-> <<>>, fn |-> NoNode,
   updates |-> <<>>]
ProgramStart == 0
=============================================================================
