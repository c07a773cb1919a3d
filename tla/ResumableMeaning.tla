-------------------------- MODULE ResumableMeaning --------------------------
(* What the bodies mean: the text is followed statement by statement, a     *)
(* suspension takes the next value the body is resumed with.                *)
EXTENDS Resumable, StateMachine

EvalIn(vars, e) ==
  CASE e.is = "num" -> Num(e.n)
    [] e.is = "var" -> vars[e.var]
    [] e.is = "less" -> Num(Max({vars[e.var][2] - 1, 0}))
    [] OTHER -> Default

Bind(vars, x, v) == IF x = "" THEN vars ELSE [vars EXCEPT ![x] = v]
Holds(vars, test) == test = NoCondition \/ EvalIn(vars, test) # Default

(* A generator that is done answers done to whatever comes.                 *)
Ended(log, value, given) == log \o <<<<"done", value>>>> \o [i \in 1..Len(given) |-> <<"done", Default>>]

(* What is left to do, the variables, the values still to be received and   *)
(* what was done so far; left is <<Over>> when the body has ended or waits. *)
Over == [type |-> "over"]
Does(at, rest, what) == [at EXCEPT !.code = rest, !.log = Append(@, what)]
Goes(at, code) == [at EXCEPT !.code = code]
Stops(at) == [at EXCEPT !.code = <<Over>>]
Ends(at, value) == Stops([at EXCEPT !.log = Ended(at.log, value, at.given)])
Receives(at, s, rest, value, left) ==
  IF s.form = "return" THEN Ends([at EXCEPT !.given = left], value)
  ELSE [at EXCEPT !.code = rest, !.vars = Bind(@, s.var, value), !.given = left]
Waits(at, s, rest) == IF at.given = <<>> THEN Stops(at) ELSE Receives(at, s, rest, Head(at.given), Tail(at.given))
Suspending(at, s, rest) ==
  CASE s.kind = "yield" -> Waits(Does(at, rest, <<"yield", EvalIn(at.vars, s.operand)>>), s, rest)
    [] s.kind = "await" /\ IsPromise(s.operand) -> Waits(Does(at, rest, <<"await", s.operand>>), s, rest)
    [] OTHER -> Receives(at, s, rest, EvalIn(at.vars, s.operand), at.given)

(* One statement. *)
Step(at, s, rest) ==
  CASE s.type = "log" -> Does(at, rest, <<"log", EvalIn(at.vars, s.value)>>)
    [] s.type \in {"var", "set"} -> [Goes(at, rest) EXCEPT !.vars = Bind(@, s.var, EvalIn(at.vars, s.value))]
    [] s.type \in {"resolve", "then"} -> Does(at, rest, <<s.type, s.promise>>)
    [] s.type = "start" -> Does(at, rest, <<"start", s.fn>>)
    [] s.type = "return" -> Ends(at, EvalIn(at.vars, s.value))
    [] s.type = "suspend" -> Suspending(at, s, rest)
    [] s.type = "block" -> Goes(at, s.body \o rest)
    [] s.type = "if" -> Goes(at, (IF Holds(at.vars, s.test) THEN s.consequent ELSE s.alternate) \o rest)
    [] s.type = "while" -> Goes(at, IF Holds(at.vars, s.test) THEN s.body \o <<s>> \o rest ELSE rest)
    [] s.type = "do_while" -> Goes(at, s.body \o <<[s EXCEPT !.type = "while"]>> \o rest)
    [] s.type = "for" -> Goes(at, s.init \o <<[s EXCEPT !.type = "while", !.body = @ \o s.update]>> \o rest)

RECURSIVE Follow(_)
Follow(at) ==
  IF at.code = <<>> THEN Ends(at, Default).log
  ELSE IF at.code[1] = Over THEN at.log
  ELSE Follow(Step(at, at.code[1], Tail(at.code)))

(* A generator's first next() only starts it. *)
Given(i) == IF Kind(i) = "async" THEN frames[i].given ELSE Tail(frames[i].given)
Meaning(i) ==
  IF Kind(i) = "generator" /\ frames[i].given = <<>> THEN <<>>
  ELSE Follow([code |-> program[frames[i].fn].body, given |-> Given(i), log |-> <<>>,
               vars |-> [x \in DOMAIN Machine(i).fields |-> Default]])

(* The body that runs has done the beginning of it, any other all.          *)
Resumed(i) == \E k \in DOMAIN stack : stack[k].frame = i
Agrees(log, meant, running) == IF running THEN IsPrefix(log, meant) ELSE log = meant
AsWritten(i) == Agrees(frames[i].log, Meaning(i), Resumed(i))
-----------------------------------------------------------------------------
(* Bodies with what the machine does not keep apart: a resume point that    *)
(* binds and is also reached another way, two variables of one name, and    *)
(* `return await`.                                                          *)
Follows(segment, id) ==
  CASE segment.next.type = "goto" -> segment.next.target = id
    [] segment.next.type = "branch" -> id \in {segment.next.then, segment.next.else}
    [] segment.next.type = "suspend" -> segment.next.resume = id
    [] OTHER -> FALSE
Rebinds(machine) ==
  \E id \in DOMAIN machine.segments :
    machine.sent[id] # "" /\ Cardinality({k \in DOMAIN machine.segments : Follows(machine.segments[k], id)}) > 1
Shadows(machine) == \E x, y \in DOMAIN machine.fields : x # y /\ machine.fields[x] = machine.fields[y]

RECURSIVE ReturnsAwait(_)
ReturnsAwait(stmts) ==
  /\ stmts # <<>>
  /\ \/ stmts[1].type = "suspend" /\ stmts[1].form = "return"
     \/ ReturnsAwait(Parts(stmts[1]) \o Tail(stmts))
Plain(fn) == ~Rebinds(Machines[program][fn]) /\ ~Shadows(Machines[program][fn]) /\ ~ReturnsAwait(program[fn].body)

(* A body cut into segments does what is written, with the values it is     *)
(* resumed with, however calls, resumptions and other bodies interleave.    *)
PlainRunAsWritten == \A i \in DOMAIN frames : Plain(frames[i].fn) => AsWritten(i)

(* Every call of the host comes back, the queue drained.                    *)
CallsReturn == job # "idle" ~> job = "idle"
=============================================================================
