---------------------------- MODULE StateMachine ----------------------------
(* Bodies of generators and async functions cut into segments:              *)
(* BuildStateMachine and collectHoistedLocals of transform.ts.              *)
(*                                                                          *)
(* A body is a sequence of statements, a statement a record with a type.    *)
(* A yield or await is a statement of type "suspend" with its kind, its     *)
(* operand and the variable it binds ("" for none); form tells `return      *)
(* await p` from the others, and "nested" stands for one inside a larger    *)
(* expression.  Blocks and single statements are sequences.                 *)
(* Variables are resolved: two variables the source declares are two names  *)
(* here, and NameOf gives back what the text calls them.                    *)
EXTENDS Naturals, Sequences, SequencesExt

CONSTANT NameOf(_)

Suspends(kind, operand, var, form) ==
  [type |-> "suspend", kind |-> kind, operand |-> operand, var |-> var, form |-> form]

Bodies(s) ==
  CASE s.type \in {"block", "while", "do_while", "for", "for_of", "switch"} -> {s.body}
    [] s.type = "if" -> {s.consequent, s.alternate}
    [] OTHER -> {}
RECURSIVE ContainsSuspend(_)
ContainsSuspend(s) ==
  \/ s.type = "suspend"
  \/ \E b \in Bodies(s) : \E i \in 1..Len(b) : ContainsSuspend(b[i])

RECURSIVE ContainsOwnBreak(_)
ContainsOwnBreak(s) ==
  \/ s.type = "break"
  \/ /\ s.type \notin {"while", "do_while", "for", "for_of", "switch"}
     /\ \E b \in Bodies(s) : \E i \in 1..Len(b) : ContainsOwnBreak(b[i])

(* The variables declared, in the order of the text, and the field of the   *)
(* frame each is kept in: one for each name, whatever it is declared for.   *)
Parts(s) ==
  CASE s.type = "if" -> s.consequent \o s.alternate
    [] s.type = "for" -> s.init \o s.body
    [] s.type \in {"block", "while", "do_while", "for_of", "switch"} -> s.body
    [] OTHER -> <<>>
Declares(s) == IF s.type \in {"var", "suspend"} /\ s.var # "" THEN <<s.var>> ELSE <<>>
RECURSIVE Declared(_)
Declared(stmts) ==
  IF stmts = <<>> THEN <<>>
  ELSE Declares(stmts[1]) \o Declared(Parts(stmts[1]) \o Tail(stmts))
FieldPerName(body) == [x \in ToSet(Declared(body)) |-> NameOf(x)]
-----------------------------------------------------------------------------
(* A machine under construction: the segments reserved so far, where        *)
(* control goes next, the ordinary statements met since, and what was       *)
(* thrown ("" for nothing).                                                 *)
Goto(id) == [type |-> "goto", target |-> id]
Branch(test, then, else) == [type |-> "branch", test |-> test, then |-> then, else |-> else]
Suspend(s, id) == [type |-> "suspend", kind |-> s.kind, operand |-> s.operand, var |-> s.var, resume |-> id]
Complete == [type |-> "complete"]
Segment(stmts, next) == [stmts |-> stmts, next |-> next]
Undefined == Segment(<<>>, [type |-> "undefined"])

Reserve(m) == [m EXCEPT !.segments = Append(@, Undefined)]
Latest(m) == Len(m.segments)
Define(m, id, stmts, next) == [m EXCEPT !.segments[id] = Segment(stmts, next)]
Throw(m, what) == IF m.thrown = "" THEN [m EXCEPT !.thrown = what] ELSE m
At(m, id) == [m EXCEPT !.cont = id]
(* A segment of its own, and control goes to it. *)
InNew(m, stmts, next) ==
  LET id == Latest(m) + 1 IN At(Define(Reserve(m), id, stmts, next), id)

Flush(m) ==
  IF m.trailing = <<>> THEN m ELSE [InNew(m, m.trailing, Goto(m.cont)) EXCEPT !.trailing = <<>>]

(* The suspend boundaries statements may be; `return await p` binds         *)
(* nothing, and goes on with what comes after it.                           *)
IsBoundary(s) ==
  /\ s.type = "suspend"
  /\ s.form # "nested"
  /\ s.form = "return" => s.kind = "await"

(* The segment that suspends is reserved before what is gathered is put     *)
(* away.                                                                    *)
Boundary(after, s, id) == At(Define(after, id, <<>>, Suspend(s, after.cont)), id)
AddBoundary(m, s) == Boundary(Flush(Reserve(m)), s, Latest(m) + 1)

(* m has been flushed, and reserves the segment of the test.                *)
RECURSIVE Recurse(_, _, _)
Joined(m, id, s, then, else) == At(Define(m, id, <<>>, Branch(s.test, then, else)), id)
Alternate(m, id, s, cont) ==
  IF s.alternate = <<>> THEN Joined(m, id, s, m.cont, cont)
  ELSE LET built == Recurse(m, s.alternate, cont) IN Joined(built, id, s, m.cont, built.cont)
AddIf(m, s) == Alternate(Recurse(Reserve(m), s.consequent, m.cont), Latest(m) + 1, s, m.cont)

Looped(m, id, s, cont) == Joined(m, id, s, m.cont, cont)
AddWhile(m, s) == Looped(Recurse(Reserve(m), s.body, Latest(m) + 1), Latest(m) + 1, s, m.cont)

(* The faulty EntersAtTest tests before the first round. *)
EntersAtBody(m, test, s, cont) == At(Looped(m, test, s, cont), m.cont)
EntersAtTest(m, s) == AddWhile(m, s)
AddDoWhile(m, s) == EntersAtBody(Recurse(Reserve(m), s.body, Latest(m) + 1), Latest(m) + 1, s, m.cont)

(* for..of reserves its segments and defines none of them.                  *)
NoTest == [is |-> "none"]
LoopHead(m, head, s, cont) ==
  IF s.test = NoTest THEN At(Define(m, head, <<>>, Goto(m.cont)), head) ELSE Looped(m, head, s, cont)
WithInit(m, s) == IF s.init = <<>> THEN m ELSE InNew(m, s.init, Goto(m.cont))
AddFor(m, s) ==
  LET head == Latest(m) + 1
      body == Recurse(Reserve(Reserve(m)), s.body, head + 1)
  IN  IF s.type = "for_of" THEN At(body, head)
      ELSE WithInit(LoopHead(Define(body, head + 1, s.update, Goto(head)), head, s, m.cont), s)

AddControl(m, s) ==
  CASE s.type \in {"while", "do_while", "for", "for_of"} /\ (\E i \in 1..Len(s.body) : ContainsOwnBreak(s.body[i])) ->
         Throw(m, "'break' inside a yield-containing loop is not yet supported")
    [] s.type = "block" -> Recurse(m, s.body, m.cont)
    [] s.type = "if" -> AddIf(m, s)
    [] s.type = "while" -> AddWhile(m, s)
    [] s.type = "do_while" -> AddDoWhile(m, s)
    [] s.type \in {"for", "for_of"} -> AddFor(m, s)
    [] OTHER -> Throw(m, "a yield/await here is not yet supported")
AddStatement(m, s) ==
  CASE m.thrown # "" -> m
    [] m.thrown = "" /\ IsBoundary(s) -> AddBoundary(m, s)
    [] m.thrown = "" /\ ~ContainsSuspend(s) -> [m EXCEPT !.trailing = <<s>> \o @]
    [] OTHER -> AddControl(Flush(m), s)

(* From the last statement to the first: what comes after is always built.  *)
Recurse(m, stmts, cont) ==
  Flush(FoldRight(LAMBDA s, acc : AddStatement(acc, s), stmts, [m EXCEPT !.cont = cont, !.trailing = <<>>]))

CompleteId == 1
Checked(m) ==
  IF m.thrown = "" /\ \E id \in DOMAIN m.segments : m.segments[id] = Undefined
  THEN Throw(m, "internal: reserved but never defined") ELSE m
BuildStateMachine(body) ==
  Checked(Define(Recurse(Reserve([segments |-> <<>>, cont |-> CompleteId, trailing |-> <<>>, thrown |-> ""]),
                         body, CompleteId), CompleteId, <<>>, Complete))

(* What is compiled of a function: its segments, its entry, what BuildState-*)
(* Machine threw and the fields of its frame.                               *)
Compile(body) ==
  LET m == BuildStateMachine(body)
  IN  [segments |-> m.segments, entry |-> m.cont, thrown |-> m.thrown, fields |-> FieldPerName(body)]
=============================================================================
