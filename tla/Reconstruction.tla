--------------------------- MODULE Reconstruction ----------------------------
(* Where each node of the graph is computed.  A block is named after the    *)
(* node of the effect chain that it hangs on; the blocks form a tree along  *)
(* the chain's predecessors.  Each node is first placed as early and then   *)
(* as late as it can be.                                                    *)
EXTENDS Vsdg

Anchors == {"marker", "effect", "function", "gamma", "mu", "theta", "break_scope"}
IsRoot(g, n) == g[n].type \in Anchors
Entry(g) == CHOOSE n \in DOMAIN g : IsMarker(g, n, "PROGRAM_START")

getParent(g, b) == IF HasInput(g, b, 0) THEN Input(g, b, 0) ELSE NoNode
RECURSIVE Ancestry(_, _)
Ancestry(g, b) == IF b = NoNode THEN <<>> ELSE <<b>> \o Ancestry(g, getParent(g, b))

RECURSIVE getLoopDepth(_, _)
getLoopDepth(g, b) ==
  IF b = NoNode THEN 0
  ELSE IF g[b].type = "mu" THEN getLoopDepth(g, getParent(g, b)) + 1
  ELSE IF g[b].type = "theta" THEN getLoopDepth(g, getParent(g, Input(g, b, 0)))
  ELSE getLoopDepth(g, getParent(g, b))

isDeeperThan(g, a, b) == Len(Ancestry(g, a)) > Len(Ancestry(g, b))
findLeastCommonAncestor(g, a, b) ==
  LET above == Range(Ancestry(g, a))
      shared(x) == x \in above
  IN Head(SelectSeq(Ancestry(g, b), shared))

(* The function whose code a block belongs to: the start of its body.  A    *)
(* node may have ended up with no block, NoNode.                            *)
regionRootOf(g, b) ==
  LET starts(x) == x = Entry(g) \/ IsMarker(g, x, "FUNCTION_BODY_START")
  IN IF b = NoNode THEN NoNode ELSE Head(SelectSeq(Ancestry(g, b), starts))

functionBodyBlockOf(g, f) ==
  LET starts(e) == e.port = 0 /\ IsMarker(g, e.to, "FUNCTION_BODY_START")
  IN Head(SelectSeq(g[f].outs, starts)).to

-----------------------------------------------------------------------------
(* Early: below every input.  at maps the nodes visited so far to their     *)
(* blocks.                                                                  *)
IsFeedback(g, n, port) == g[n].type \in {"mu", "muValue"} /\ port = 1
(* A loop variable that its loop never changes is free of the loop.         *)
IsInvariantAnchor(g, n, port) ==
  g[n].type = "muValue" /\ port = 2 /\ HasInput(g, n, 1) /\ Input(g, n, 1) = n

BlockOfEdge(g, at, edge) ==
  IF g[edge[1]].type = "function" /\ edge[2] # 0 THEN functionBodyBlockOf(g, edge[1])
  ELSE at[edge[1]]

(* r is [at, left, earliest]: the input ports still to look at and the      *)
(* deepest block so far.                                                    *)
RECURSIVE scheduleEarly(_, _, _)
RECURSIVE EarlyInputs(_, _, _)
EarlyInputs(g, r, n) ==
  IF r.left = <<>> THEN (n :> r.earliest) @@ r.at
  ELSE LET port  == Head(r.left)
           below == scheduleEarly(g, r.at, Input(g, n, port))
           block == BlockOfEdge(g, below, g[n].ins[port])
       IN EarlyInputs(g,
            IF IsFeedback(g, n, port) \/ IsInvariantAnchor(g, n, port) THEN [r EXCEPT !.left = Tail(@)]
            ELSE [at |-> below, left |-> Tail(r.left),
                  earliest |-> IF isDeeperThan(g, block, r.earliest) THEN block ELSE r.earliest], n)
scheduleEarly(g, at, n) ==
  IF n \in DOMAIN at THEN at
  ELSE IF IsRoot(g, n) THEN (n :> n) @@ at
  ELSE EarlyInputs(g, [at |-> at, left |-> InOrder(DOMAIN g[n].ins),
         earliest |-> IF g[n].anchor = NoNode THEN Entry(g) ELSE functionBodyBlockOf(g, g[n].anchor)], n)

-----------------------------------------------------------------------------
(* Late: the consumers first, then the shallowest block in loops between    *)
(* the consumers' common ancestor and the early block, the lowest of them.  *)
(* p is [at, seen].                                                         *)
isSchedulingIrrelevant(g, n, port) ==
  CASE g[n].type \in {"mu", "muValue"} -> port = 1
    [] g[n].type = "gammaValue"        -> port # 0
    [] g[n].type = "theta"             -> port = 1
    [] g[n].type = "unary_post"        -> FALSE
    [] OTHER                           -> isVestigialEdge(g, n, port)

(* The block in which a consumer wants the value: ahead of a loop for its   *)
(* initial value.                                                           *)
ConsumerBlock(g, at, e) ==
  LET block == at[e.to] IN
  IF ~(g[e.to].type \in {"mu", "muValue"} /\ e.at = 0) THEN block
  ELSE IF block = NoNode THEN Entry(g)
  ELSE IF getParent(g, block) = NoNode THEN Entry(g) ELSE getParent(g, block)

RECURSIVE LatestBlock(_, _, _, _, _)
LatestBlock(g, at, n, edges, latest) ==
  IF edges = <<>> THEN latest
  ELSE LET block == ConsumerBlock(g, at, Head(edges))
       IN LatestBlock(g, at, n, Tail(edges),
            IF \/ isSchedulingIrrelevant(g, Head(edges).to, Head(edges).at)
               \/ regionRootOf(g, block) # regionRootOf(g, at[n]) THEN latest
            ELSE IF latest = NoNode THEN block
            ELSE findLeastCommonAncestor(g, latest, block))

BestBlock(g, earliest, latest) ==
  LET path   == Ancestry(g, IF latest = NoNode THEN earliest ELSE latest)
      cut    == IF earliest \in Range(path)
                THEN SubSeq(path, 1, SelectInSeq(path, LAMBDA x : x = earliest)) ELSE path
      deep(x)  == getLoopDepth(g, x) >= getLoopDepth(g, earliest)
      valid  == SelectSeq(cut, deep)
      least(x) == \A y \in Range(valid) : getLoopDepth(g, x) <= getLoopDepth(g, y)
  IN IF valid = <<>> THEN NoNode ELSE Head(SelectSeq(valid, least))

RECURSIVE scheduleLate(_, _, _)
RECURSIVE LateConsumers(_, _)
LateConsumers(g, r) ==
  IF r.left = <<>> THEN r.p
  ELSE LateConsumers(g, [p |-> scheduleLate(g, r.p, Head(r.left).to), left |-> Tail(r.left)])
scheduleLate(g, p, n) ==
  LET visited == [p EXCEPT !.seen = @ \cup {n}]
      below   == LateConsumers(g, [p |-> visited, left |-> g[n].outs])
      latest  == LatestBlock(g, below.at, n, g[n].outs, NoNode)
  IN IF n \in p.seen THEN p
     ELSE IF IsRoot(g, n) THEN visited
     ELSE [below EXCEPT !.at[n] = BestBlock(g, below.at[n], latest)]

-----------------------------------------------------------------------------
(* From the placed graph back to statements.  c is [g, root, at]: the graph,*)
(* the end of its chain and the block of each node.  What is emitted is     *)
(* threaded through e, [names, temps, count]: the names printed so far, one *)
(* set for each function being printed, the names of the nodes that were    *)
(* given a variable of their own, and how many of those there are.  An      *)
(* emission is [e, out], out the statements.                                *)

(* The code throws: a value is asked for that nothing feeds.                *)
Missing == [t |-> "missing"]

Printed(e, name) == \E i \in DOMAIN e.names : name \in e.names[i]
AddName(e, name) == [e EXCEPT !.names[Len(e.names)] = @ \cup {name}]
makeTempVar(e, n) ==
  [e EXCEPT !.temps = (n :> ("t" \o ToString(e.count))) @@ @, !.count = @ + 1]

hasForcedSibling(g, name, n) ==
  \E m \in DOMAIN g \ {n} : slotName(g, m) = name /\ Marked(g, m, "forcedPrint")

-----------------------------------------------------------------------------
(* Which values need a name.                                                *)

(* The condition of a merge of a switch's own flag, which prints as a name. *)
isCollapsingGammaValueCondition(g, edge) ==
  /\ edge.at = 0 /\ g[edge.to].type = "gammaValue"
  /\ \E p \in {1, 2} : HasInput(g, edge.to, p) /\ Marked(g, Input(g, edge.to, p), "switchInternal")

Control == Anchors \cup {"gammaValue", "muValue", "thetaValue"}
valueConsumers(g, n) ==
  SelectSeq(ReadersOf(g, n), LAMBDA e :
    /\ ~(g[e.to].type \in Control \ {"gammaValue"} /\ e.at = 0)
    /\ ~IsFeedback(g, e.to, e.at)
    /\ ~isVestigialEdge(g, e.to, e.at)
    /\ ~isCollapsingGammaValueCondition(g, e)
    /\ (g[e.to].type = "var" => hasRealConsumer(g, e.to)))

(* The consumer reads the variable itself, not its value.                   *)
mustNameOwnValue(g, e) ==
  g[e.to].type \in {"mu", "muValue"} \/ (e.at = 0 /\ g[e.to].type \in {"unary_post", "mutation"})

needsTemp(c, n, allowReuse) ==
  LET g == c.g
      consumers == SelectSeq(ReadersOf(g, n), LAMBDA e :
        ~isVestigialEdge(g, e.to, e.at) /\ ~isCollapsingGammaValueCondition(g, e))
      some(P(_)) == \E i \in DOMAIN consumers : P(consumers[i])
  IN IF some(LAMBDA e : mustNameOwnValue(g, e)) THEN TRUE
     ELSE IF g[n].type = "unary_post_old" THEN consumers # <<>>
     ELSE \/ some(LAMBDA e : getLoopDepth(g, c.at[e.to]) > getLoopDepth(g, c.at[n]))
          \/ ~allowReuse /\ Len(consumers) > 1

isInlinableSlot(c, n) ==
  LET g == c.g IN
  /\ ~Marked(g, n, "forcedPrint")
  /\ g[n].type = "gammaValue" \/ (g[n].type = "mutation" /\ Marked(g, n, "plainAssign"))
  /\ (g[n].type = "gammaValue" /\ Marked(g, n, "neverMaterialize")) \/ ~needsTemp(c, n, FALSE)

(* Some statement that prints reads the value in the end.                   *)
RECURSIVE surfacesValue(_, _, _)
surfacesValue(c, n, visiting) ==
  \/ ~isInlinableSlot(c, n)
  \/ /\ n \notin visiting
     /\ \E i \in DOMAIN valueConsumers(c.g, n) :
          surfacesValue(c, valueConsumers(c.g, n)[i].to, visiting \cup {n})

isInlinableVarDecl(c, n) ==
  /\ c.g[n].type = "var" /\ HasInput(c.g, n, 0) /\ Marked(c.g, n, "declKind")
  /\ ~Marked(c.g, n, "capturedRead")
  /\ ~needsTemp(c, n, isLiteral(c.g, Input(c.g, n, 0)))

-----------------------------------------------------------------------------
(* Values: a name that was printed, a temporary, or the expression itself.  *)
RECURSIVE resolveNode(_, _, _)
resolveOperand(c, e, n, port) ==
  IF HasInput(c.g, n, port) THEN resolveNode(c, e, Input(c.g, n, port)) ELSE Missing

(* Two sides of one name need no condition, unless the condition acts.      *)
ConditionalOf(c, n, test, cons, alt) ==
  IF cons.t = "identifier" /\ cons = alt /\ isPureSubgraph(c.g, Input(c.g, n, 0)) THEN cons
  ELSE Conditional(test, cons, alt)
buildConditional(c, e, n) ==
  ConditionalOf(c, n, resolveOperand(c, e, n, 0), resolveOperand(c, e, n, 1), resolveOperand(c, e, n, 2))

rebuildCallee(c, e, n, callee) ==
  IF c.g[n].type # "effect" THEN c.g[n].expr.callee
  ELSE IF callee \in DOMAIN e.temps THEN Identifier(e.temps[callee])
  ELSE IF isPureSubgraph(c.g, callee) THEN c.g[n].expr.callee
  ELSE resolveNode(c, e, callee)
rebuildCall(c, e, n) ==
  [c.g[n].expr EXCEPT !.args = [i \in DOMAIN @ |-> resolveOperand(c, e, n, i)],
                      !.callee = rebuildCallee(c, e, n, Input(c.g, n, Len(c.g[n].expr.args) + 1))]

(* The value of an assignment is its right hand side, combined with the old *)
(* value when it has an operator.                                           *)
PayloadOf(c, e, n, x, first, second) ==
  CASE x.t = "literal"     -> x
    [] x.t = "unary_post"  -> IF c.g[n].type = "unary_post_old" THEN first
                              ELSE [x EXCEPT !.operand = first]
    [] x.t = "unary"       -> [x EXCEPT !.operand = first]
    [] x.t = "binary"      -> [x EXCEPT !.left = first, !.right = second]
    [] x.t = "conditional" -> buildConditional(c, e, n)
    [] x.t = "call"        -> rebuildCall(c, e, n)
    [] x.t = "assign"      -> IF x.op = "" THEN second ELSE Binary(x.op, first, second)
rebuildPayload(c, e, n) ==
  PayloadOf(c, e, n, c.g[n].expr, resolveOperand(c, e, n, 0), resolveOperand(c, e, n, 1))

buildExpr(c, e, n) ==
  IF c.g[n].type = "gammaValue" THEN buildConditional(c, e, n)
  ELSE IF c.g[n].expr = NoExpr \/ c.g[n].type = "function" THEN Lit(Undefined)
  ELSE rebuildPayload(c, e, n)

resolveVar(c, e, n) ==
  LET name == c.g[n].name IN
  IF isInlinableVarDecl(c, n) /\ ~hasForcedSibling(c.g, name, n) THEN resolveOperand(c, e, n, 0)
  ELSE IF ~Marked(c.g, n, "declKind") \/ Printed(e, name) THEN Identifier(name)
  ELSE resolveOperand(c, e, n, 0)

resolveNode(c, e, n) ==
  LET g == c.g
      name == slotName(g, n)
  IN IF Marked(g, n, "switchInternal") /\ name # "" THEN Identifier(name)
     ELSE IF g[n].type = "var" THEN resolveVar(c, e, n)
     ELSE IF g[n].type = "muValue" THEN Identifier(g[n].name)
     ELSE IF g[n].type = "thetaValue" THEN resolveOperand(c, e, n, 1)
     ELSE IF name # "" /\ ~isInlinableSlot(c, n) /\ Printed(e, name) THEN Identifier(name)
     ELSE IF n \in DOMAIN e.temps THEN Identifier(e.temps[n])
     ELSE buildExpr(c, e, n)

-----------------------------------------------------------------------------
(* The nodes of one block in an order in which each follows what it needs.  *)
(* v is [sorted, visited, through].                                         *)
hasOrderedInputs(g, n) ==
  /\ g[n].type \notin {"mu", "muValue", "theta", "thetaValue"} /\ ~isLiteral(g, n)
  /\ g[n].type = "var" => Marked(g, n, "declKind")
OrderedPorts(g, n) == IF hasOrderedInputs(g, n) THEN InOrder(DOMAIN g[n].ins) ELSE <<>>

RECURSIVE Visit(_, _, _, _)
RECURSIVE VisitDeps(_, _, _, _, _)
VisitDeps(g, nodes, v, n, ports) ==
  IF ports = <<>> THEN v
  ELSE LET m == Input(g, n, Head(ports))
           walked == [v EXCEPT !.through = @ \cup {m}]
           next == IF m \in nodes THEN Visit(g, nodes, v, m)
                   ELSE IF m \in v.through THEN v
                   ELSE VisitDeps(g, nodes, walked, m, OrderedPorts(g, m))
       IN VisitDeps(g, nodes, next, n, Tail(ports))
Visit(g, nodes, v, n) ==
  LET below == VisitDeps(g, nodes, [v EXCEPT !.visited = @ \cup {n}], n, OrderedPorts(g, n))
  IN IF n \in v.visited THEN v ELSE [below EXCEPT !.sorted = Append(@, n)]

localTopologicalSort(g, ids) ==
  FoldLeft(LAMBDA v, n : Visit(g, Range(ids), v, n),
           [sorted |-> <<>>, visited |-> {}, through |-> {}], ids).sorted

-----------------------------------------------------------------------------
(* The statements of a block's own nodes.                                   *)
Emission(e, out) == [e |-> e, out |-> out]
ExprEmission(e, x) == Emission(e, <<ExprStmt(x)>>)
TempDecl(c, e, n, value) ==
  LET named == makeTempVar(e, n)
  IN Emission(named, <<[t |-> "temp_decl", name |-> named.temps[n], init |-> <<value>>]>>)

(* A declaration prints its value only when some reader takes it by name;   *)
(* a bare one stays when a later assignment needs it.                       *)
DeclarationOf(c, e, n, first, forced, value) ==
  LET name == c.g[n].name
  IN IF ~HasInput(c.g, n, 0) THEN Emission(e, <<VarDecl(name, <<>>)>>)
     ELSE IF ~hasRealConsumer(c.g, n) \/ (isInlinableVarDecl(c, n) /\ ~forced)
     THEN Emission(e, IF forced THEN <<VarDecl(name, <<>>)>> ELSE <<>>)
     ELSE IF first THEN Emission(e, <<VarDecl(name, <<value>>)>>)
     ELSE ExprEmission(e, Assign(Identifier(name), value))
emitDeclaration(c, e, n, first) ==
  DeclarationOf(c, e, n, first, hasForcedSibling(c.g, c.g[n].name, n), resolveOperand(c, e, n, 0))

(* An increment prints as itself, any other slot as an assignment.          *)
AssignmentOf(c, n, name, value) ==
  IF c.g[n].type = "unary_post" \/ (c.g[n].type = "mutation" /\ c.g[n].expr.t = "unary")
  THEN value ELSE Assign(Identifier(name), value)
SlotEmission(c, e, n, name, first) ==
  IF c.g[n].type = "var" THEN emitDeclaration(c, e, n, first)
  ELSE ExprEmission(e, AssignmentOf(c, n, name, buildExpr(c, e, n)))
emitNamedSlot(c, e, n) ==
  LET name == slotName(c.g, n)
  IN SlotEmission(c, AddName(e, name), n, name, ~Printed(e, name))

(* An effect prints where it stands unless exactly one statement will print *)
(* its value, and that statement prints it instead.                         *)
EffectEmission(c, e, n, value, live) ==
  IF Len(live) = 1 THEN Emission(e, <<>>)
  ELSE IF live = <<>> THEN ExprEmission(e, value) ELSE TempDecl(c, e, n, value)
emitEffect(c, e, n) ==
  EffectEmission(c, e, n, buildExpr(c, e, n),
                 SelectSeq(valueConsumers(c.g, n), LAMBDA r : surfacesValue(c, r.to, {})))

emitMarker(c, e, n) ==
  LET name  == c.g[n].name
      value == IF HasInput(c.g, n, 1) THEN <<resolveOperand(c, e, n, 1)>> ELSE <<>>
  IN Emission(e, CASE name = "BREAK_MARKER"        -> <<Jump("break")>>
                   [] name = "CONTINUE_MARKER"     -> <<Jump("continue")>>
                   [] name = "EARLY_RETURN_MARKER" -> <<Return(value)>>
                   [] OTHER                        -> <<>>)

rebuildMutationStatement(c, e, n, value) ==
  IF c.g[n].type = "mutation" /\ Marked(c.g, n, "plainAssign")
  THEN Assign(resolveOperand(c, e, n, 0), value) ELSE value

ValueEmission(c, e, n, value) ==
  IF Marked(c.g, n, "forcedPrint") THEN ExprEmission(e, rebuildMutationStatement(c, e, n, value))
  ELSE IF needsTemp(c, n, FALSE) THEN TempDecl(c, e, n, value)
  ELSE Emission(e, <<>>)
emitValue(c, e, n) == ValueEmission(c, e, n, buildExpr(c, e, n))

Silent == {"var", "mu", "muValue", "theta", "thetaValue", "function"}
emitNode(c, e, n) ==
  LET g == c.g IN
  IF g[n].type = "marker" THEN emitMarker(c, e, n)
  ELSE IF g[n].type = "effect" THEN emitEffect(c, e, n)
  ELSE IF slotName(g, n) # ""
       THEN IF isInlinableSlot(c, n) THEN Emission(e, <<>>) ELSE emitNamedSlot(c, e, n)
  ELSE IF isLiteral(g, n) \/ g[n].type \in Silent THEN Emission(e, <<>>)
  ELSE emitValue(c, e, n)

Then(before, r) == Emission(r.e, before.out \o r.out)
emitLocalStatements(c, e, ids) ==
  FoldLeft(LAMBDA acc, n : Then(acc, emitNode(c, acc.e, n)), Emission(e, <<>>), localTopologicalSort(c.g, ids))

nodesAt(c, anchor) == InOrder({n \in DOMAIN c.g : c.at[n] = anchor})

-----------------------------------------------------------------------------
(* The statements of a span of the chain, each anchor printing the          *)
(* structure it stands for.                                                 *)
RECURSIVE emitChain(_, _, _, _)
RECURSIVE emitControlNode(_, _, _)

Without(seq, x) == SelectSeq(seq, LAMBDA y : y # x)

(* What stands in the anchor's block prints around it.                      *)
Before(ids, n) == SubSeq(ids, 1, SelectInSeq(ids, LAMBDA m : m = n) - 1)
After(ids, n)  == SubSeq(ids, SelectInSeq(ids, LAMBDA m : m = n) + 1, Len(ids))

(* A branch whose arms print nothing is dropped, unless its condition acts  *)
(* and would print nowhere else.                                            *)
(* test is the condition's node, T and F what the arms emitted.             *)
BranchOf(c, n, test, T, F, alt) ==
  Emission(F.e,
    IF T.out \o F.out = <<>> /\ (test \in DOMAIN F.e.temps \/ isPureSubgraph(c.g, test)) THEN <<>>
    ELSE <<If(resolveNode(c, F.e, test), Block(T.out), IF alt THEN <<Block(F.out)>> ELSE <<>>)>>)
ElseOf(c, T, n, pred, alt) ==
  BranchOf(c, n, Input(c.g, n, 1), T,
           IF alt THEN emitChain(c, T.e, Input(c.g, n, 3), pred) ELSE Emission(T.e, <<>>), alt)
emitBranch(c, e, n) ==
  LET pred == Input(c.g, n, 0)
  IN ElseOf(c, emitChain(c, e, Input(c.g, n, 2), pred), n, pred, Input(c.g, n, 3) # pred)

forceDeclare(c, e, n) ==
  IF n # NoNode /\ c.g[n].type = "var" /\ ~Printed(e, c.g[n].name)
  THEN emitLocalStatements(c, e, <<n>>) ELSE Emission(e, <<>>)

(* A case's test is resolved before its body is printed. *)
TestOf(c, e, cs) == IF cs.test = NoNode THEN <<>> ELSE <<resolveNode(c, e, cs.test)>>
CaseOf(test, r, cases) == Emission(r.e, Append(cases, [test |-> test, body |-> r.out]))
emitCases(c, e, cases) ==
  FoldLeft(LAMBDA acc, cs : CaseOf(TestOf(c, acc.e, cs), emitChain(c, acc.e, cs.tail, cs.boundary), acc.out),
           Emission(e, <<>>), cases)
declareAll(c, e, ns) == FoldLeft(LAMBDA acc, m : Then(acc, forceDeclare(c, acc.e, m)), Emission(e, <<>>), ns)
SwitchOf(c, declared, disc, cases) ==
  Emission(declared.e, declared.out \o
    (IF \A i \in DOMAIN cases : cases[i].body \in {<<>>, <<Jump("break")>>} THEN <<>>
     ELSE <<Switch(resolveNode(c, declared.e, disc), cases)>>))
SwitchAfter(c, cases, disc, tests) ==
  SwitchOf(c, declareAll(c, cases.e, <<disc>> \o tests), disc, cases.out)
emitSwitch(c, e, n) ==
  SwitchAfter(c, emitCases(c, e, c.g[n].cases), c.g[n].disc,
              [i \in DOMAIN c.g[n].cases |-> c.g[n].cases[i].test])

(* A loop tests its condition inside: the condition may need values that    *)
(* only exist there.                                                        *)
(* ids are the nodes of the loop's own block, tested and rest what the       *)
(* condition and the others of them emitted.                                *)
PrintedLoop(c, n, cond, tested, rest, body) ==
  IF Marked(c.g, n, "do") THEN DoWhile(cond, Block(body.out \o rest.out \o tested.out))
  ELSE While(Lit(Boolean(TRUE)),
             Block(tested.out \o (IF cond = Lit(Boolean(TRUE)) THEN <<>>
                                  ELSE <<If(Unary("!", cond), Block(<<Jump("break")>>), <<>>)>>)
                              \o rest.out \o body.out))
AfterLoop(c, n, theta, tested, rest, body) ==
  Then(Emission(body.e, <<PrintedLoop(c, n, resolveOperand(c, body.e, theta, 1), tested, rest, body)>>),
       emitLocalStatements(c, body.e, Without(nodesAt(c, theta), theta)))
BodyEmission(c, n, theta, tested, rest) ==
  AfterLoop(c, n, theta, tested, rest, emitChain(c, rest.e, Input(c.g, n, 1), n))
RestEmission(c, n, theta, tested, ids) ==
  BodyEmission(c, n, theta, tested, emitLocalStatements(c, tested.e, ids))
TestEmission(c, e, n, theta, test) ==
  LET outside(r) == ~isVestigialEdge(c.g, r.to, r.at) /\ r.to # theta
      alone == SelectSeq(ReadersOf(c.g, test), outside) = <<>>
  IN RestEmission(c, n, theta, emitLocalStatements(c, e, IF alone THEN <<>> ELSE <<test>>),
              Without(Without(nodesAt(c, n), n), test))
emitLoop(c, e, n) ==
  LET isExit(r) == c.g[r.to].type = "theta"
      theta == Head(SelectSeq(ReadersOf(c.g, n), isExit)).to
  IN TestEmission(c, e, n, theta, Input(c.g, theta, 1))

(* A function's own names are forgotten when its body has printed.          *)
FunctionOf(c, n, body) ==
  Emission([body.e EXCEPT !.names = Front(@)], <<[c.g[n].expr EXCEPT !.body = body.out]>>)
emitFunction(c, e, n) ==
  FunctionOf(c, n, emitChain(c, [e EXCEPT !.names = Append(@, {})], Input(c.g, c.g[n].returns, 0), n))

Structured == {"gamma", "break_scope", "function"}
emitStructure(c, e, n) ==
  CASE c.g[n].type = "gamma"       -> emitBranch(c, e, n)
    [] c.g[n].type = "break_scope" -> emitSwitch(c, e, n)
    [] c.g[n].type = "function"    -> emitFunction(c, e, n)
withAfter(c, emitted, ids) == Then(emitted, emitLocalStatements(c, emitted.e, ids))
withCoScheduled(c, before, n, ids) ==
  withAfter(c, Then(before, emitStructure(c, before.e, n)), After(ids, n))
Around(c, e, n, ids) == withCoScheduled(c, emitLocalStatements(c, e, Before(ids, n)), n, ids)
emitControlNode(c, e, n) ==
  IF c.g[n].type \in Structured THEN Around(c, e, n, localTopologicalSort(c.g, nodesAt(c, n)))
  ELSE IF c.g[n].type = "mu" THEN emitLoop(c, e, n)
  ELSE emitLocalStatements(c, e, nodesAt(c, n))

emitLink(c, earlier, from) ==
  IF c.g[from].type = "theta" THEN earlier ELSE Then(earlier, emitControlNode(c, earlier.e, from))
emitChain(c, e, from, boundary) ==
  IF from = NoNode \/ from = boundary THEN Emission(e, <<>>)
  ELSE emitLink(c, emitChain(c, e, getParent(c.g, from), boundary), from)

(* From the start of the program's chain to its end.                        *)
build(c) == emitChain(c, [names |-> <<{}>>, temps |-> <<>>, count |-> 0], c.root, NoNode).out
=============================================================================
