-------------------------------- MODULE Vsdg --------------------------------
(* The value and state dependence graph of the compilers' middle end, and   *)
(* the optimiser that rewrites it in place: constant folding, dead branches *)
(* and the merging of structurally equal computations.  A graph is a        *)
(* function from node ids to nodes; ids are the creation counter, so the    *)
(* order of the ids is the order in which the code walks the graph's map.   *)
EXTENDS Integers, Sequences, FiniteSets, TLC, SequencesExt

NoNode == -1

(* Expressions and statements, as the parser gives them and as they print.  *)
NoExpr == [t |-> "none"]
Lit(v) == [t |-> "literal", v |-> v]
Identifier(name) == [t |-> "identifier", name |-> name]
Unary(op, operand) == [t |-> "unary", op |-> op, operand |-> operand]
Binary(op, left, right) == [t |-> "binary", op |-> op, left |-> left, right |-> right]
Conditional(test, cons, alt) == [t |-> "conditional", test |-> test, cons |-> cons, alt |-> alt]
Assign(target, value) == [t |-> "assign", op |-> "", target |-> target, value |-> value]
ExprStmt(e) == [t |-> "expression", e |-> e]
VarDecl(name, init) == [t |-> "var_decl", name |-> name, init |-> init]
Block(body) == [t |-> "block", body |-> body]
If(test, cons, alt) == [t |-> "if", test |-> test, cons |-> cons, alt |-> alt]
While(test, body) == [t |-> "while", test |-> test, body |-> body]
DoWhile(test, body) == [t |-> "do_while", test |-> test, body |-> body]
Jump(t) == [t |-> t]
Return(value) == [t |-> "return", value |-> value]
Switch(disc, cases) == [t |-> "switch", disc |-> disc, cases |-> cases]

(* ins: from an input port to the edge that feeds it, <<producer, port>>.   *)
(* outs: the edges of the output ports, in the order they were connected.   *)
(* marks: the annotations that are set.  anchor, returns, disc and cases    *)
(* name nodes without an edge.                                              *)
MakeNode(type, name, expr) ==
  [type |-> type, name |-> name, expr |-> expr, ins |-> <<>>, outs |-> <<>>, marks |-> {},
   anchor |-> NoNode, returns |-> NoNode, disc |-> NoNode, cases |-> <<>>]

connectValue(g, from, fport, to, tport) ==
  [g EXCEPT ![to].ins = (tport :> <<from, fport>>) @@ @,
            ![from].outs = Append(@, [port |-> fport, to |-> to, at |-> tport])]

Marked(g, n, mark) == mark \in g[n].marks
Mark(g, n, mark)   == [g EXCEPT ![n].marks = @ \cup {mark}]
Unmark(g, n, mark) == [g EXCEPT ![n].marks = @ \ {mark}]

HasInput(g, n, port) == port \in DOMAIN g[n].ins
Input(g, n, port)    == g[n].ins[port][1]
ReadersOf(g, n)      == SelectSeq(g[n].outs, LAMBDA e : e.port = 0)
IsMarker(g, n, name) == g[n].type = "marker" /\ g[n].name = name

(* An edge that is wired up but whose value the emitter never reads.        *)
isVestigialEdge(g, n, port) ==
  CASE g[n].type = "mutation"    -> port = 2 \/ (port = 0 /\ Marked(g, n, "plainAssign"))
    [] g[n].type = "thetaValue"  -> port = 0
    [] g[n].type = "unary_post"  -> port = 1
    [] g[n].type = "var"         -> port = 2
    [] g[n].type = "gamma"       -> port \in {2, 3} \/ (port = 1 /\ Marked(g, n, "switchInternal"))
    [] g[n].type = "break_scope" -> port = 1
    [] OTHER                     -> FALSE

(* The variable whose current binding the node is, "" for none.             *)
slotName(g, n) ==
  IF \/ g[n].type = "gammaValue"
     \/ g[n].type \in {"var", "mutation", "unary_post"} /\ Marked(g, n, "bound")
  THEN g[n].name ELSE ""

hasRealConsumer(g, n) ==
  \E i \in DOMAIN ReadersOf(g, n) :
    LET e == ReadersOf(g, n)[i] IN ~isVestigialEdge(g, e.to, e.at)

isParam(g, n) ==
  /\ g[n].type = "var" /\ HasInput(g, n, 0)
  /\ g[n].ins[0][2] >= 1 /\ g[Input(g, n, 0)].type = "function"

(* The nodes whose values go into the values of ns, the parameters' own     *)
(* producers apart.                                                         *)
RECURSIVE Producers(_, _)
Producers(g, ns) ==
  LET more == UNION {{Input(g, n, p) : p \in {q \in DOMAIN g[n].ins : ~isVestigialEdge(g, n, q)}} :
                       n \in {m \in ns : ~isParam(g, m)}}
  IN IF more \subseteq ns THEN ns ELSE Producers(g, ns \cup more)

isPureSubgraph(g, n) ==
  \A m \in Producers(g, {n}) : g[m].type \notin {"effect", "marker", "function"}

removeInputs(g, n) ==
  LET cut == {Input(g, n, p) : p \in DOMAIN g[n].ins}
      keeps(e) == e.to # n
  IN [m \in DOMAIN g |->
        IF m = n THEN [g[m] EXCEPT !.ins = <<>>]
        ELSE IF m \in cut THEN [g[m] EXCEPT !.outs = SelectSeq(@, keeps)] ELSE g[m]]

(* The edges into the node stay at their other ends.                        *)
DropsNode(g, n) == [m \in DOMAIN g \ {n} |-> g[m]]
removeNode(g, n) == LET h == removeInputs(g, n) IN [m \in DOMAIN h \ {n} |-> h[m]]

(* removeInputs walks the inputs as a dense array: a port that was never    *)
(* connected stops it with an error.                                        *)
HasHole(g, n) == DOMAIN g[n].ins # 0 .. Cardinality(DOMAIN g[n].ins) - 1

-----------------------------------------------------------------------------
(* Constants: numbers, booleans and undefined, each with its tag.           *)

Number(i)  == <<"n", i>>
Boolean(b) == <<"b", b>>
Undefined  == <<"u", 0>>
truthy(v)  == IF v[1] = "n" THEN v[2] # 0 ELSE v[1] = "b" /\ v[2]

isLiteral(g, n)    == g[n].type = "floating" /\ g[n].expr.t = "literal"
literalValue(g, n) == g[n].expr.v

(* What an operator gives on constants; arithmetic only on numbers.         *)
Arithmetic == {"+", "-", "*"}
ToNumber(v) == IF v[1] = "b" THEN IF v[2] THEN 1 ELSE 0 ELSE v[2]
calcBinary(op, a, b) ==
  CASE op = "&&"  -> IF truthy(a) THEN b ELSE a
    [] op = "||"  -> IF truthy(a) THEN a ELSE b
    [] op = "===" -> Boolean(a[1] = b[1] /\ a[2] = b[2])
    [] op = "<"   -> Boolean(ToNumber(a) < ToNumber(b))
    [] op = "+"   -> Number(a[2] + b[2])
    [] op = "-"   -> Number(a[2] - b[2])
    [] op = "*"   -> Number(a[2] * b[2])
calcUnary(op, a) == IF op = "!" THEN Boolean(~truthy(a)) ELSE Number(-ToNumber(a))

foldable(g, n) ==
  IF g[n].type # "floating" THEN 0
  ELSE IF g[n].expr.t = "binary" THEN 2 ELSE IF g[n].expr.t = "unary" THEN 1 ELSE 0

CanFold(g, n) ==
  LET arity == foldable(g, n)
      operand(i) == Input(g, n, i)
      numbers == arity = 2 => \A i \in 0 .. arity - 1 : literalValue(g, operand(i))[1] = "n"
  IN /\ arity > 0
     /\ \A i \in 0 .. arity - 1 : HasInput(g, n, i) /\ isLiteral(g, operand(i))
     /\ g[n].expr.op \in Arithmetic => numbers

FoldedValue(g, n) ==
  LET operand(i) == literalValue(g, Input(g, n, i)) IN
  IF foldable(g, n) = 2 THEN calcBinary(g[n].expr.op, operand(0), operand(1))
                        ELSE calcUnary(g[n].expr.op, operand(0))

(* The folded node still reads its operands.                                *)
FoldsInPlace(g, n) == IF CanFold(g, n) THEN [g EXCEPT ![n].expr = Lit(FoldedValue(g, n))] ELSE g
foldConstants(g, n) ==
  IF CanFold(g, n) THEN removeInputs([g EXCEPT ![n].expr = Lit(FoldedValue(g, n))], n) ELSE g

-----------------------------------------------------------------------------
(* Every edge of edges now comes from to = <<node, port>>, or from the same  *)
(* port of that node.                                                       *)
RECURSIVE Rewire(_, _, _, _)
Rewire(g, edges, to, keepPort) ==
  IF edges = <<>> THEN g
  ELSE LET e    == Head(edges)
           port == IF keepPort THEN e.port ELSE to[2]
       IN Rewire(connectValue(g, to[1], port, e.to, e.at), Tail(edges), to, keepPort)

(* The nodes that are named by something other than an edge.                *)
SideReferences(g, root) ==
  {root} \cup UNION {({g[n].returns, g[n].disc} \ {NoNode})
                       \cup UNION {({c.test, c.boundary, c.tail} \ {NoNode}) :
                                     c \in {g[n].cases[i] : i \in DOMAIN g[n].cases}} : n \in DOMAIN g}

(* A branch on a constant is bypassed: whoever read the merge reads the     *)
(* winning side instead.  s is [g, root].                                   *)
foldDeadBranches(s, n, protectedIds) ==
  LET g        == s.g
      port     == IF g[n].type = "gammaValue" THEN 0 ELSE 1
      constant == HasInput(g, n, port) /\ isLiteral(g, Input(g, n, port))
      winning  == g[n].ins[IF truthy(literalValue(g, Input(g, n, port))) THEN port + 1 ELSE port + 2]
      moved    == Rewire(g, g[n].outs, winning, FALSE)
  IN IF /\ g[n].type \in {"gamma", "gammaValue"}
        /\ (n = s.root \/ n \notin protectedIds)
        /\ constant
     THEN [g    |-> removeNode(moved, n),
           root |-> IF n = s.root THEN winning[1] ELSE s.root]
     ELSE s

SequenceDependent == {"mu", "muValue", "theta", "thetaValue", "gamma", "gammaValue", "effect",
                      "marker", "function", "mutation"}

(* What two nodes must share to compute the same value: assignments and     *)
(* operators by their operator, other payloads whole.                       *)
StructuralKey(g, n) ==
  LET e == g[n].expr
      byOperator == e.t \in {"assign", "binary", "unary"}
  IN [type |-> g[n].type,
      op   |-> IF byOperator THEN e.op ELSE "",
      expr |-> IF byOperator THEN NoExpr ELSE e,
      name |-> IF e = NoExpr THEN g[n].name ELSE "",
      ins  |-> g[n].ins]

(* One pass over the graph; w is [g, table, changed, fault, left].          *)
RECURSIVE MergeEqual(_, _)
MergeEqual(w, protectedIds) ==
  IF w.left = <<>> \/ w.fault THEN w
  ELSE LET n    == Head(w.left)
           key  == StructuralKey(w.g, n)
           seen == key \in DOMAIN w.table
           next == [w EXCEPT !.left = Tail(w.left)]
       IN MergeEqual(
            IF w.g[n].type \in SequenceDependent \/ (seen /\ n \in protectedIds) THEN next
            ELSE IF ~seen THEN [next EXCEPT !.table = (key :> n) @@ w.table]
            ELSE IF HasHole(w.g, n) THEN [next EXCEPT !.fault = TRUE]
            ELSE [next EXCEPT
                    !.g = removeNode(Rewire(w.g, w.g[n].outs, <<w.table[key], 0>>, TRUE), n),
                    !.changed = TRUE],
            protectedIds)

InOrder(ids) ==
  LET upTo(k) == [i \in 1 .. k + 1 |-> i - 1]
      chosen(i) == i \in ids
  IN IF ids = {} THEN <<>> ELSE SelectSeq(upTo(Max(ids)), chosen)

optimizeStructuralCSE(g, protectedIds) ==
  MergeEqual([g |-> g, table |-> <<>>, changed |-> FALSE, fault |-> FALSE,
              left |-> InOrder(DOMAIN g)], protectedIds)

-----------------------------------------------------------------------------
(* Each edge is held at both of its ends, and no edge and no side reference *)
(* leads to a node that has been removed.                                   *)
EdgesAgree(g, root) ==
  /\ \A n \in DOMAIN g :
       /\ \A p \in DOMAIN g[n].ins :
            /\ Input(g, n, p) \in DOMAIN g
            /\ [port |-> g[n].ins[p][2], to |-> n, at |-> p] \in Range(g[Input(g, n, p)].outs)
       /\ \A e \in Range(g[n].outs) :
            /\ e.to \in DOMAIN g
            /\ HasInput(g, e.to, e.at) /\ g[e.to].ins[e.at] = <<n, e.port>>
  /\ SideReferences(g, root) \subseteq DOMAIN g
=============================================================================
