------------------------------ MODULE Resumable ------------------------------
(* Generators and async functions as backend.ts compiles them: a frame with *)
(* the number of the segment to run next, a step function that dispatches   *)
(* on it, and, for an async function, a promise its end resolves.  The host *)
(* calls exports; the microtask queue is drained when a call returns.       *)
EXTENDS Naturals, Sequences, SequencesExt

(* Promises and the microtask queue of lib/promise.ts.                      *)
(*                                                                          *)
(* A heap holds the promises, the calls of Promise.all under way and the    *)
(* queue.  A callback is what a client gives then(); a task is a callback   *)
(* with its promise, whose value is read when the task runs, which is the   *)
(* value it was settled with since settled is one-way.                      *)
(* clock, settledAt, since and ran are history: when a promise was settled  *)
(* and a callback attached, and the tasks run so far.                       *)

Pending(initial) == [settled |-> FALSE, value |-> initial, callbacks |-> <<>>, settledAt |-> 0]
EmptyHeap == [promises |-> <<>>, alls |-> <<>>, microtasks |-> <<>>, clock |-> 0, ran |-> <<>>]

NewPromise(h, initial) == [h EXCEPT !.promises = Append(@, Pending(initial))]
Newest(h) == Len(h.promises)

Task(callback, promise, since) == [callback |-> callback, promise |-> promise, since |-> since]

(* A second resolve is ignored; the callbacks are queued, never run.        *)
(* (The faulty SettleAgain does not look.)                                  *)
Queued(h, p) ==
  [i \in 1..Len(h.promises[p].callbacks) |->
    Task(h.promises[p].callbacks[i].run, p, h.promises[p].callbacks[i].since)]
SettleAgain(h, p, value) ==
  [h EXCEPT !.promises[p] = [@ EXCEPT !.settled = TRUE, !.value = value, !.settledAt = h.clock],
            !.clock = @ + 1, !.microtasks = @ \o Queued(h, p)]
Resolve(h, p, value) == IF h.promises[p].settled THEN h ELSE SettleAgain(h, p, value)

Then(h, p, callback) ==
  IF h.promises[p].settled
  THEN [h EXCEPT !.microtasks = Append(@, Task(callback, p, h.clock)), !.clock = @ + 1]
  ELSE [h EXCEPT !.promises[p].callbacks = Append(@, [run |-> callback, since |-> h.clock]), !.clock = @ + 1]

(* Promise.all: one promise, settled by the callback that finds none of     *)
(* the others missing.                                                      *)
Store(a, i) == [is |-> "store", all |-> a, index |-> i]
Unset == <<"none">>
Gathering(h, ps) ==
  LET values == [i \in 1..Len(ps) |-> Unset]
      made == NewPromise(h, <<"list", values>>)
  IN  [made EXCEPT !.alls = Append(@, [of |-> ps, values |-> values, remaining |-> Len(ps), result |-> Newest(made)])]
Attached(h, ps) ==
  LET after[i \in 0..Len(ps)] ==
        IF i = 0 THEN h ELSE Then(after[i - 1], ps[i], Store(Len(h.alls), i))
  IN  after[Len(ps)]
All(h, ps) ==
  LET kept == Gathering(h, ps)
  IN  IF ps = <<>> THEN Resolve(kept, Newest(kept), <<"list", <<>>>>) ELSE Attached(kept, ps)

Stored(h, callback, value) ==
  LET all == h.alls[callback.all]
  IN  [h EXCEPT !.alls[callback.all] = [all EXCEPT !.values[callback.index] = value, !.remaining = @ - 1]]
ResolveAt(h, a, remaining) ==
  IF h.alls[a].remaining = remaining THEN Resolve(h, h.alls[a].result, <<"list", h.alls[a].values>>) ELSE h
(* A faulty count: one is still missing. *)
StoreAllButOne(h, callback, value) == ResolveAt(Stored(h, callback, value), callback.all, 1)
RunStore(h, callback, value) == ResolveAt(Stored(h, callback, value), callback.all, 0)

(* drainMicrotasks takes the oldest task off the queue before it runs it.   *)
NextTask(h) == h.microtasks[1]
Taken(h) == [h EXCEPT !.microtasks = Tail(@), !.ran = Append(@, NextTask(h))]
ValueOf(h, task) == h.promises[task.promise].value
-----------------------------------------------------------------------------
(* promise.ts promises the order of real JavaScript: callbacks run in the   *)
(* order in which both they were attached and their promise was settled,    *)
(* those of one promise in the order attached; none is lost or runs twice.  *)
Jobs(h) == h.ran \o h.microtasks
ReadyAt(h, job) == LET at == h.promises[job.promise].settledAt IN IF at > job.since THEN at ELSE job.since
Before(h, j, k) ==
  \/ ReadyAt(h, j) < ReadyAt(h, k)
  \/ ReadyAt(h, j) = ReadyAt(h, k) /\ j.since < k.since
Waiting(h) == {p \in DOMAIN h.promises : ~h.promises[p].settled}
InOrder(h) ==
  \A i, j \in 1..Len(Jobs(h)) : i < j => Before(h, Jobs(h)[i], Jobs(h)[j])
EachOnce(h) ==
  LET jobs == Jobs(h)
      waits == UNION {{<<p, i>> : i \in DOMAIN h.promises[p].callbacks} : p \in Waiting(h)}
      settles == {p \in DOMAIN h.promises : h.promises[p].settled}
  IN  /\ \A i \in 1..Len(jobs) : jobs[i].promise \in settles
      /\ Len(jobs) + Cardinality(waits) + Cardinality(settles) = h.clock

-----------------------------------------------------------------------------
CONSTANTS
  Programs,        \* of a program: its functions, each with kind and body
  Compiled(_),     \* a body's segments, entry and fields, see StateMachine
  StatementsOf(_), \* the statements a program's bodies come down to
  HostPromises,    \* how many promises the program declares at its top
  Sent,            \* numbers the host passes to next() and resolve()
  MaxCalls         \* calls the host makes

VARIABLES program, frames, heap, stack, job, calls
resumableVars == <<program, frames, heap, stack, job, calls>>

Num(n) == <<"num", n>>
Default == Num(0)
NoCondition == [is |-> "none"]

CompleteState == 1
IsPromise(operand) == operand.is \in {"promise", "call", "all"}

(* The variable a segment is entered with: the segments are gone through in *)
(* the order of their numbers, the last to bind a resume point stands.      *)
Binders(kind, segments, id) ==
  {k \in DOMAIN segments :
     /\ segments[k].next.type = "suspend"
     /\ segments[k].next.resume = id /\ segments[k].next.var # ""
     /\ kind = "async" => IsPromise(segments[k].next.operand)}
LastVar(segments, ks) == IF ks = {} THEN "" ELSE segments[Max(ks)].next.var
Bindings(kind, segments) == [id \in DOMAIN segments |-> LastVar(segments, Binders(kind, segments, id))]

(* A function as it is run. *)
Linked(kind, machine) == machine @@ [kind |-> kind, sent |-> Bindings(kind, machine.segments)]
Machines == [p \in Programs |-> [f \in DOMAIN p |-> Linked(p[f].kind, Compiled(p[f].body))]]

Accepted == {p \in Programs : \A f \in DOMAIN p : Machines[p][f].thrown = ""}

(* What is compiled of a program it is compiled from: control goes to       *)
(* segments there are, only generators yield, and what is resolved, waited  *)
(* for or called is a promise or a function of the program.                 *)
Structured == {"block", "if", "while", "do_while", "for"}
Simple == {"log", "var", "set", "return"}
StatementOK(p, s) ==
  /\ s.type \in Structured \cup Simple \cup {"resolve", "then", "start"}
  /\ s.type \in {"resolve", "then"} => s.promise \in 1..HostPromises
  /\ s.type = "start" => s.fn \in DOMAIN p /\ p[s.fn].kind = "async"
  /\ s.type \in {"block", "while", "do_while", "for"} => s.body \in Seq(StatementsOf(p))
  /\ s.type = "if" => s.consequent \in Seq(StatementsOf(p)) /\ s.alternate \in Seq(StatementsOf(p))
  /\ s.type = "do_while" => [s EXCEPT !.type = "while"] \in StatementsOf(p)
  /\ s.type = "for" => /\ s.init \in Seq(StatementsOf(p)) /\ s.update \in Seq(StatementsOf(p))
                       /\ [s EXCEPT !.init = <<>>] \in StatementsOf(p)
OperandOK(p, operand) ==
  /\ operand.is = "promise" => operand.promise \in 1..HostPromises
  /\ operand.is = "all" => operand.promises \in Seq(1..HostPromises)
  /\ operand.is = "call" => operand.fn \in DOMAIN p /\ p[operand.fn].kind = "async"
Targets(next) ==
  CASE next.type = "goto" -> {next.target}
    [] next.type = "branch" -> {next.then, next.else}
    [] next.type = "suspend" -> {next.resume}
    [] next.type = "complete" -> {}
SegmentOK(p, machine, segment) ==
  /\ segment.stmts \in Seq(StatementsOf(p))
  /\ segment.next.type \in {"goto", "branch", "suspend", "complete"}
  /\ Targets(segment.next) \subseteq DOMAIN machine.segments
  /\ segment.next.type = "suspend" =>
       CASE segment.next.kind = "await" -> OperandOK(p, segment.next.operand)
         [] segment.next.kind = "yield" -> machine.kind = "generator"
MachineOK(p, machine) ==
  /\ {machine.entry, CompleteState} \subseteq DOMAIN machine.segments
  /\ \A id \in DOMAIN machine.segments : SegmentOK(p, machine, machine.segments[id])

ASSUME ProgramsAssumption ==
  /\ HostPromises \in Nat
  /\ \A p \in Accepted :
       /\ \A s \in StatementsOf(p) : StatementOK(p, s)
       /\ \A f \in DOMAIN p : Machines[p][f].kind = p[f].kind /\ MachineOK(p, Machines[p][f])

Machine(i) == Machines[program][frames[i].fn]
Kind(i) == Machine(i).kind
SegmentOf(i) == Machine(i).segments[frames[i].state]

(* given and log are history: the values the body was resumed with, and     *)
(* what it did.                                                             *)
NewFrame(fn, result) ==
  [fn |-> fn, state |-> Machines[program][fn].entry, result |-> result,
   vars |-> [field \in Range(Machines[program][fn].fields) |-> Default],
   given |-> <<>>, log |-> <<>>, awaits |-> 0]
Activation(i, sent) == [frame |-> i, sent |-> sent, at |-> "dispatch", todo |-> <<>>]

Top == stack[Len(stack)]
Current == Top.frame
Here == frames[Current]
Field(x) == Machine(Current).fields[x]
Advance(s) == stack' = [stack EXCEPT ![Len(stack)] = s]
Leave == stack' = Front(stack)
Did(frame, what) == [frame EXCEPT !.log = Append(@, what)]

(* Expressions: numbers, variables and sums of the two.                     *)
Lowered(v) == Num(IF v[2] > 0 THEN v[2] - 1 ELSE 0)
Value(e) ==
  CASE e.is = "num" -> Num(e.n)
    [] e.is = "var" -> Here.vars[Field(e.var)]
    [] e.is = "less" -> Lowered(Here.vars[Field(e.var)])
    [] OTHER -> Default
Truthy(e) == Value(e) # Default

ResumableInit ==
  /\ program \in Accepted
  /\ frames = <<>>
  /\ heap = [EmptyHeap EXCEPT !.promises = [i \in 1..HostPromises |-> Pending(Default)]]
  /\ stack = <<>>
  /\ job = "idle"
  /\ calls = 0
-----------------------------------------------------------------------------
(* An async function is called: its promise and frame are made, and its     *)
(* body starts at once.                                                     *)
Called(h, fn) == NewPromise(h, Default)
Started(fn, h) == Append(frames, NewFrame(fn, Newest(h)))
Starting == Activation(Len(frames) + 1, Default)

HostCall(newJob) == job = "idle" /\ calls < MaxCalls /\ calls' = calls + 1 /\ job' = newJob

HostStarts(fn) ==
  /\ HostCall("call")
  /\ program[fn].kind = "async"
  /\ heap' = Called(heap, fn)
  /\ frames' = Started(fn, heap')
  /\ stack' = <<Starting>>
  /\ UNCHANGED program

(* Calling a generator runs nothing of it.                                  *)
HostMakes(fn) ==
  /\ HostCall("drain")
  /\ program[fn].kind = "generator"
  /\ frames' = Append(frames, NewFrame(fn, 0))
  /\ UNCHANGED <<program, heap, stack>>

HostNext(i) ==
  /\ HostCall("call")
  /\ Kind(i) = "generator"
  /\ \E v \in Sent :
       /\ stack' = <<Activation(i, Num(v))>>
       /\ frames' = [frames EXCEPT ![i].given = Append(@, Num(v))]
  /\ UNCHANGED <<program, heap>>

HostResolves(p) ==
  /\ HostCall("drain")
  /\ \E v \in Sent : heap' = Resolve(heap, p, Num(v))
  /\ UNCHANGED <<program, frames, stack>>
-----------------------------------------------------------------------------
(* The step function: br_table on the frame's state, then the sent value,   *)
(* then the segment's statements.                                           *)
Received(x) == IF x = "" THEN frames ELSE [frames EXCEPT ![Current].vars[Field(x)] = Top.sent]
Dispatch ==
  /\ stack # <<>> /\ Top.at = "dispatch"
  /\ frames' = Received(Machine(Current).sent[Here.state])
  /\ Advance([Top EXCEPT !.at = "run", !.todo = SegmentOf(Current).stmts])
  /\ UNCHANGED <<program, heap, job, calls>>

Running(type) == stack # <<>> /\ Top.at = "run" /\ Top.todo # <<>> /\ Top.todo[1].type = type
Next1 == Top.todo[1]
Continue == Advance([Top EXCEPT !.todo = Tail(@)])

RunLog ==
  /\ Running("log")
  /\ frames' = [frames EXCEPT ![Current] = Did(@, <<"log", Value(Next1.value)>>)]
  /\ Continue
  /\ UNCHANGED <<program, heap, job, calls>>

RunAssignment ==
  /\ Running("var") \/ Running("set")
  /\ frames' = [frames EXCEPT ![Current].vars[Field(Next1.var)] = Value(Next1.value)]
  /\ Continue
  /\ UNCHANGED <<program, heap, job, calls>>

(* Control flow with no suspension in it stays as it is written.            *)
Unfolded(s) ==
  CASE s.type = "block" -> s.body
    [] s.type = "if" -> IF Truthy(s.test) THEN s.consequent ELSE s.alternate
    [] s.type = "while" -> IF Truthy(s.test) THEN s.body \o <<s>> ELSE <<>>
    [] s.type = "do_while" -> s.body \o <<[s EXCEPT !.type = "while"]>>
    [] s.type = "for" -> IF s.init # <<>> THEN s.init \o <<[s EXCEPT !.init = <<>>]>>
                         ELSE IF s.test = NoCondition \/ Truthy(s.test) THEN s.body \o s.update \o <<s>> ELSE <<>>
RunStructured ==
  /\ \E type \in Structured : Running(type)
  /\ Advance([Top EXCEPT !.todo = Unfolded(Next1) \o Tail(@)])
  /\ UNCHANGED <<program, frames, heap, job, calls>>

RunResolve ==
  /\ Running("resolve")
  /\ heap' = Resolve(heap, Next1.promise, Value(Next1.value))
  /\ frames' = [frames EXCEPT ![Current] = Did(@, <<"resolve", Next1.promise>>)]
  /\ Continue
  /\ UNCHANGED <<program, job, calls>>

RunThen ==
  /\ Running("then")
  /\ heap' = Then(heap, Next1.promise, [is |-> "note"])
  /\ frames' = [frames EXCEPT ![Current] = Did(@, <<"then", Next1.promise>>)]
  /\ Continue
  /\ UNCHANGED <<program, job, calls>>

(* Calling an async function without waiting for it: its body runs now, up  *)
(* to its first suspension.                                                 *)
RunStart ==
  /\ Running("start")
  /\ heap' = Called(heap, Next1.fn)
  /\ frames' = [Started(Next1.fn, heap') EXCEPT ![Current] = Did(@, <<"start", Next1.fn>>)]
  /\ stack' = Append(Front(stack), [Top EXCEPT !.todo = Tail(@)]) \o <<Starting>>
  /\ UNCHANGED <<program, job, calls>>

(* The end of a body: an async function resolves its promise, a generator   *)
(* answers done and stays at its last segment.                              *)
Finished(value) ==
  /\ frames' = [frames EXCEPT ![Current] =
                  [Did(@, <<"done", value>>) EXCEPT !.state = IF Kind(Current) = "async" THEN Here.state ELSE CompleteState]]
  /\ heap' = IF Kind(Current) = "async" THEN Resolve(heap, Here.result, value) ELSE heap
  /\ Leave
  /\ UNCHANGED <<program, job, calls>>
RunReturn ==
  /\ Running("return")
  /\ Finished(Value(Next1.value))
-----------------------------------------------------------------------------
(* The transition at the end of a segment.                                  *)
Transition(type) == stack # <<>> /\ Top.at = "run" /\ Top.todo = <<>> /\ SegmentOf(Current).next.type = type
NextOf == SegmentOf(Current).next
Redispatch(id) ==
  /\ Advance([Top EXCEPT !.at = "dispatch"])
  /\ frames' = [frames EXCEPT ![Current].state = id]
  /\ UNCHANGED <<program, heap, job, calls>>

TakeGoto == Transition("goto") /\ Redispatch(NextOf.target)
TakeBranch ==
  /\ Transition("branch")
  /\ Redispatch(IF Truthy(NextOf.test) THEN NextOf.then ELSE NextOf.else)

TakeYield ==
  /\ Transition("suspend") /\ NextOf.kind = "yield"
  /\ frames' = [frames EXCEPT ![Current] = [Did(@, <<"yield", Value(NextOf.operand)>>) EXCEPT !.state = NextOf.resume]]
  /\ Leave
  /\ UNCHANGED <<program, heap, job, calls>>

Awaiting == Transition("suspend") /\ NextOf.kind = "await"

(* What is no promise is not waited for.  The faulty AwaitStays forgets     *)
(* where to go on.                                                          *)
Unwrapped == IF NextOf.var = "" THEN Here.vars ELSE [Here.vars EXCEPT ![Field(NextOf.var)] = Value(NextOf.operand)]
AwaitOfValue(state) ==
  /\ Awaiting /\ ~IsPromise(NextOf.operand)
  /\ frames' = [frames EXCEPT ![Current].vars = Unwrapped, ![Current].state = state]
  /\ Advance([Top EXCEPT !.at = "dispatch"])
  /\ UNCHANGED <<program, heap, job, calls>>
AwaitStays == AwaitOfValue(Here.state)
TakeAwaitOfValue == AwaitOfValue(NextOf.resume)

Resume(i) == [is |-> "resume", frame |-> i]
SuspendOn(h, p, fs) ==
  /\ heap' = Then(h, p, Resume(Current))
  /\ frames' = [fs EXCEPT ![Current] = [Did(@, <<"await", NextOf.operand>>) EXCEPT !.state = NextOf.resume, !.awaits = p]]
  /\ Leave

TakeAwait ==
  /\ Awaiting
  /\ \/ NextOf.operand.is = "promise" /\ SuspendOn(heap, NextOf.operand.promise, frames)
     \/ /\ NextOf.operand.is = "all"
        /\ LET made == All(heap, NextOf.operand.promises)
           IN  SuspendOn(made, made.alls[Len(made.alls)].result, frames)
  /\ UNCHANGED <<program, job, calls>>

(* await f(): f's body runs first, up to its suspension or end.             *)
TakeAwaitOfCall ==
  /\ Awaiting /\ NextOf.operand.is = "call"
  /\ heap' = Called(heap, NextOf.operand.fn)
  /\ frames' = Started(NextOf.operand.fn, heap')
  /\ stack' = Append(Front(stack), [Top EXCEPT !.at = "called", !.sent = Num(Newest(heap'))]) \o <<Starting>>
  /\ UNCHANGED <<program, job, calls>>
CallReturned ==
  /\ stack # <<>> /\ Top.at = "called"
  /\ SuspendOn(heap, Top.sent[2], frames)
  /\ UNCHANGED <<program, job, calls>>

TakeComplete == Transition("complete") /\ Finished(Default)
-----------------------------------------------------------------------------
(* The export returns; its wrapper drains the queue.                        *)
CallReturns ==
  /\ job = "call" /\ stack = <<>>
  /\ job' = "drain"
  /\ UNCHANGED <<program, frames, heap, stack, calls>>

RunCallback(c, value) ==
  CASE c.is = "resume" -> /\ stack' = <<Activation(c.frame, value)>>
                          /\ frames' = [frames EXCEPT ![c.frame].given = Append(@, value), ![c.frame].awaits = 0]
                          /\ heap' = Taken(heap)
    [] c.is = "store" -> heap' = RunStore(Taken(heap), c, value) /\ UNCHANGED <<frames, stack>>
    [] c.is = "note" -> heap' = Taken(heap) /\ UNCHANGED <<frames, stack>>
RunTask ==
  /\ job = "drain" /\ stack = <<>> /\ heap.microtasks # <<>>
  /\ RunCallback(NextTask(heap).callback, ValueOf(heap, NextTask(heap)))
  /\ UNCHANGED <<program, job, calls>>

Drained ==
  /\ job = "drain" /\ stack = <<>> /\ heap.microtasks = <<>>
  /\ job' = "idle"
  /\ UNCHANGED <<program, frames, heap, stack, calls>>

HostNextCall ==
  \/ \E fn \in DOMAIN program : HostStarts(fn) \/ HostMakes(fn)
  \/ \E i \in DOMAIN frames : HostNext(i)
  \/ \E p \in 1..HostPromises : HostResolves(p)
RuntimeNext ==
  \/ Dispatch
  \/ RunLog \/ RunAssignment \/ RunStructured \/ RunResolve \/ RunThen \/ RunStart \/ RunReturn
  \/ TakeGoto \/ TakeBranch \/ TakeYield \/ TakeAwaitOfValue \/ TakeAwait \/ TakeAwaitOfCall \/ TakeComplete
  \/ CallReturned
  \/ CallReturns \/ RunTask \/ Drained
ResumableNext == HostNextCall \/ RuntimeNext
ResumableSpec == ResumableInit /\ [][ResumableNext]_resumableVars /\ WF_resumableVars(RuntimeNext)
-----------------------------------------------------------------------------
(* Callbacks run in the order of real JavaScript, each once.                *)
JobsInOrder == InOrder(heap) /\ EachOnce(heap)

(* Between two calls of the host nobody waits for a promise that is         *)
(* settled; an async function that is done has settled its own; and a       *)
(* Promise.all is settled when the last of its own is, values in order.     *)
Settled(p) == heap.promises[p].settled
ValueNow(p) == heap.promises[p].value
NothingLeftWaiting ==
  job = "idle" =>
    /\ \A i \in DOMAIN frames :
         /\ frames[i].awaits # 0 => ~Settled(frames[i].awaits)
         /\ Kind(i) = "async" =>
              IF frames[i].awaits # 0 THEN ~Settled(frames[i].result)
              ELSE Settled(frames[i].result) /\ <<"done", ValueNow(frames[i].result)>> = Last(frames[i].log)
    /\ \A a \in DOMAIN heap.alls :
         LET all == heap.alls[a]
         IN  /\ Settled(all.result) <=> \A k \in DOMAIN all.of : Settled(all.of[k])
             /\ Settled(all.result) =>
                  ValueNow(all.result) = <<"list", [k \in DOMAIN all.of |-> ValueNow(all.of[k])]>>
=============================================================================
