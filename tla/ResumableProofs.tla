--------------------------- MODULE ResumableProofs ---------------------------
(***************************************************************************)
(* What the promises and the bodies compiled over them keep to for every   *)
(* set of programs: callbacks run in the order of real JavaScript, each    *)
(* once, and between two calls of the host nobody waits for what is        *)
(* settled.                                                                *)
(***************************************************************************)
EXTENDS Resumable, FiniteSetTheorems, WellFoundedInduction, TLAPS

IsSequence(s) == s \in Seq({s[i] : i \in DOMAIN s})
-----------------------------------------------------------------------------
(* The heap.  Promises, calls of Promise.all, tasks and callbacks are       *)
(* records of their fields; what they refer to is there.                    *)
PromiseOK(q) ==
  /\ q = [settled |-> q.settled, value |-> q.value, callbacks |-> q.callbacks, settledAt |-> q.settledAt]
  /\ q.settled \in BOOLEAN /\ q.settledAt \in Nat
  /\ IsSequence(q.callbacks)
  /\ \A k \in 1..Len(q.callbacks) :
       /\ q.callbacks[k] = [run |-> q.callbacks[k].run, since |-> q.callbacks[k].since]
       /\ q.callbacks[k].since \in Nat
TaskOK(h, t) ==
  /\ t = [callback |-> t.callback, promise |-> t.promise, since |-> t.since]
  /\ t.promise \in 1..Len(h.promises)
  /\ t.since \in Nat
AllOK(h, all) ==
  /\ all = [of |-> all.of, values |-> all.values, remaining |-> all.remaining, result |-> all.result]
  /\ all.of \in Seq(1..Len(h.promises))
  /\ all.values = [k \in 1..Len(all.of) |-> all.values[k]]
  /\ all.result \in 1..Len(h.promises)
HeapTypeOK(h) ==
  /\ h = [promises |-> h.promises, alls |-> h.alls, microtasks |-> h.microtasks, clock |-> h.clock, ran |-> h.ran]
  /\ IsSequence(h.promises) /\ \A p \in 1..Len(h.promises) : PromiseOK(h.promises[p])
  /\ IsSequence(h.alls) /\ \A a \in 1..Len(h.alls) : AllOK(h, h.alls[a])
  /\ IsSequence(h.microtasks) /\ \A k \in 1..Len(h.microtasks) : TaskOK(h, h.microtasks[k])
  /\ IsSequence(h.ran) /\ \A k \in 1..Len(h.ran) : TaskOK(h, h.ran[k])
  /\ h.clock \in Nat

(* The clock is ahead of all that was settled or attached, the callbacks of *)
(* a promise are kept in the order attached, and what is queued or was run  *)
(* belongs to a settled promise.                                            *)
ClockAhead(h) ==
  /\ \A p \in 1..Len(h.promises) : h.promises[p].settled => h.promises[p].settledAt < h.clock
  /\ \A p \in 1..Len(h.promises) : \A k \in 1..Len(h.promises[p].callbacks) :
       h.promises[p].callbacks[k].since < h.clock
  /\ \A i \in 1..Len(Jobs(h)) : Jobs(h)[i].since < h.clock
CallbacksInOrder(h) ==
  \A p \in 1..Len(h.promises) : \A k, l \in 1..Len(h.promises[p].callbacks) :
    k < l => h.promises[p].callbacks[k].since < h.promises[p].callbacks[l].since
JobsSettled(h) == \A i \in 1..Len(Jobs(h)) : h.promises[Jobs(h)[i].promise].settled

HeapOK(h) == HeapTypeOK(h) /\ ClockAhead(h) /\ CallbacksInOrder(h) /\ JobsSettled(h) /\ InOrder(h)

(* What is yet to run: the callbacks of promises that are not settled, and  *)
(* the queue.                                                               *)
Due(h) == (UNION {ToSet(Queued(h, p)) : p \in Waiting(h)}) \cup ToSet(h.microtasks)

(* A callback goes on with a frame there is, stores into a Promise.all      *)
(* there is, or is one of the program's own.                                *)
Note == [is |-> "note"]
Callbacks(h, count) ==
  {Note} \cup {Resume(i) : i \in 1..count}
         \cup {Store(a, k) : a \in 1..Len(h.alls), k \in UNION {1..Len(h.alls[b].of) : b \in 1..Len(h.alls)}}
CallbackOK(h, count, t) ==
  /\ t.callback \in Callbacks(h, count)
  /\ t.callback.is = "store" => /\ t.callback.index \in 1..Len(h.alls[t.callback.all].of)
                                /\ t.promise = h.alls[t.callback.all].of[t.callback.index]
CallbacksOK(h, count) == \A t \in Due(h) : CallbackOK(h, count, t)
-----------------------------------------------------------------------------
(* The bodies.  A frame is at a segment there is, an async one has its own  *)
(* promise; an activation is of a frame there is, with statements of its    *)
(* program left.                                                            *)
ProgramOK == program \in Accepted
FrameOK(p, promises, f) ==
  /\ f = [fn |-> f.fn, state |-> f.state, result |-> f.result, vars |-> f.vars, given |-> f.given, log |-> f.log,
          awaits |-> f.awaits]
  /\ f.fn \in DOMAIN p
  /\ f.state \in DOMAIN Machines[p][f.fn].segments
  /\ IsSequence(f.log)
  /\ Machines[p][f.fn].kind = "async" => f.result \in (HostPromises + 1)..promises
  /\ f.awaits \in 0..promises
ActivationOK(p, bodies, promises, s) ==
  /\ s = [frame |-> s.frame, sent |-> s.sent, at |-> s.at, todo |-> s.todo]
  /\ s.frame \in 1..bodies
  /\ s.at \in {"dispatch", "run", "called"}
  /\ s.todo \in Seq(StatementsOf(p))
  /\ s.at = "called" => s.sent[2] \in 1..promises
FramesOK(p, promises, fs) == IsSequence(fs) /\ \A i \in 1..Len(fs) : FrameOK(p, promises, fs[i])
StackOK(p, bodies, promises, st) ==
  IsSequence(st) /\ \A k \in 1..Len(st) : ActivationOK(p, bodies, promises, st[k])
BodiesOK ==
  /\ ProgramOK
  /\ FramesOK(program, Len(heap.promises), frames)
  /\ StackOK(program, Len(frames), Len(heap.promises), stack)
  /\ Len(heap.promises) >= HostPromises
(* No body is twice under way, and one that called another is about to wait *)
(* for it.                                                                  *)
Apart(st) == \A k, l \in 1..Len(st) : st[k].frame = st[l].frame => k = l
Suspends(p, f) == Machines[p][f.fn].segments[f.state].next.type = "suspend"
CalledWait(p, fs, st) == \A k \in 1..Len(st) : st[k].at = "called" => Suspends(p, fs[st[k].frame])
CallsWait == Apart(stack) /\ CalledWait(program, frames, stack)
JobOK ==
  /\ job \in {"idle", "call", "drain"}
  /\ job = "idle" => stack = <<>> /\ heap.microtasks = <<>>

-----------------------------------------------------------------------------
(* An async body runs, waits for one promise, to which one callback of its  *)
(* is attached, or is done and has settled its own.                         *)
Async(i) == Kind(i) = "async"
AsyncFrame(p, f) == Machines[p][f.fn].kind = "async"
OnStack(st, i) == \E k \in 1..Len(st) : st[k].frame = i
DueWith(h, c) == {t \in Due(h) : t.callback = c}
DueTo(h, i) == DueWith(h, Resume(i))
Open(h, p) == ~h.promises[p].settled
Runs(h, f, i, st) == OnStack(st, i) /\ f.awaits = 0 /\ Open(h, f.result) /\ DueTo(h, i) = {}
Waits(h, f, i, st) ==
  /\ ~OnStack(st, i) /\ f.awaits # 0 /\ Open(h, f.result)
  /\ \E t \in DueTo(h, i) : DueTo(h, i) = {t}
Ended(h, f, i, st) ==
  /\ ~OnStack(st, i) /\ f.awaits = 0 /\ ~Open(h, f.result) /\ DueTo(h, i) = {}
  /\ f.log # <<>> /\ Last(f.log) = <<"done", h.promises[f.result].value>>
AwaitsDue(h, f, i) == f.awaits # 0 => \E t \in DueTo(h, i) : t.promise = f.awaits
BodyTracked(p, h, f, i, st) ==
  /\ AwaitsDue(h, f, i)
  /\ AsyncFrame(p, f) => Runs(h, f, i, st) \/ Waits(h, f, i, st) \/ Ended(h, f, i, st)
BodiesTracked(p, h, fs, st) == \A i \in 1..Len(fs) : BodyTracked(p, h, fs[i], i, st)

(* A Promise.all misses those of its promises whose callback is still due,  *)
(* has the values of the others, and is settled when it misses none.        *)
DueFor(h, a, k) == DueWith(h, Store(a, k))
Missing(h, a) == {k \in 1..Len(h.alls[a].of) : DueFor(h, a, k) # {}}
Gathered(h, all, k) == ~Open(h, all.of[k]) /\ all.values[k] = h.promises[all.of[k]].value
AllTracked(h, a) ==
  /\ h.alls[a].remaining = Cardinality(Missing(h, a))
  /\ \A k \in Missing(h, a) : \E t \in DueFor(h, a, k) : DueFor(h, a, k) = {t}
  /\ \A k \in 1..Len(h.alls[a].of) : k \notin Missing(h, a) => Gathered(h, h.alls[a], k)
  /\ Open(h, h.alls[a].result) <=> Missing(h, a) # {}
  /\ ~Open(h, h.alls[a].result) => h.promises[h.alls[a].result].value = <<"list", h.alls[a].values>>
AllsTracked(h) == \A a \in 1..Len(h.alls) : AllTracked(h, a)

(* The promise of a body and that of a Promise.all are nobody else's.       *)
FrameOwn(p, fs, h, i) ==
  AsyncFrame(p, fs[i]) =>
    /\ \A j \in 1..Len(fs) : AsyncFrame(p, fs[j]) /\ fs[j].result = fs[i].result => j = i
    /\ \A a \in 1..Len(h.alls) : h.alls[a].result # fs[i].result
AllOwn(h, a) ==
  /\ h.alls[a].result > HostPromises
  /\ \A b \in 1..Len(h.alls) : h.alls[b].result = h.alls[a].result => b = a
OwnPromises(p, fs, h) ==
  /\ \A i \in 1..Len(fs) : FrameOwn(p, fs, h, i)
  /\ \A a \in 1..Len(h.alls) : AllOwn(h, a)

Tracked == BodiesTracked(program, heap, frames, stack) /\ AllsTracked(heap) /\ OwnPromises(program, frames, heap)
-----------------------------------------------------------------------------
(* Sequences of whatever. *)
LEMMA SomeSequence ==
  ASSUME NEW S, NEW s \in Seq(S)
  PROVE  IsSequence(s) /\ Len(s) \in Nat /\ DOMAIN s = 1..Len(s)
  <1>1. Len(s) \in Nat /\ DOMAIN s = 1..Len(s) /\ s \in [1..Len(s) -> S]
    OBVIOUS
  <1>2. s \in [1..Len(s) -> {s[i] : i \in DOMAIN s}]
    BY <1>1
  <1>3. s \in Seq({s[i] : i \in DOMAIN s})
    BY <1>1, <1>2
  <1> QED
    BY <1>1, <1>3 DEF IsSequence

LEMMA SequenceFacts ==
  ASSUME NEW s, IsSequence(s)
  PROVE  Len(s) \in Nat /\ DOMAIN s = 1..Len(s)
  BY SomeSequence DEF IsSequence

LEMMA AppendFacts ==
  ASSUME NEW s, IsSequence(s), NEW x
  PROVE  /\ IsSequence(Append(s, x)) /\ Len(Append(s, x)) = Len(s) + 1 /\ Len(s) \in Nat
         /\ \A i \in 1..Len(s) : Append(s, x)[i] = s[i]
         /\ Append(s, x)[Len(s) + 1] = x
  <1>1. PICK S : S = {s[i] : i \in DOMAIN s} \cup {x}
    OBVIOUS
  <1>2. s \in Seq(S) /\ x \in S
    BY <1>1, SequenceFacts DEF IsSequence
  <1>3. Append(s, x) \in Seq(S)
    BY <1>2
  <1>4. IsSequence(Append(s, x))
    BY <1>3, SomeSequence
  <1> QED
    BY <1>2, <1>4

LEMMA ConcatFacts ==
  ASSUME NEW s, IsSequence(s), NEW t, IsSequence(t)
  PROVE  /\ IsSequence(s \o t) /\ Len(s \o t) = Len(s) + Len(t) /\ Len(s) \in Nat /\ Len(t) \in Nat
         /\ \A i \in 1..Len(s) : (s \o t)[i] = s[i]
         /\ \A i \in 1..Len(t) : (s \o t)[Len(s) + i] = t[i]
  <1>1. PICK S : S = {s[i] : i \in DOMAIN s} \cup {t[i] : i \in DOMAIN t}
    OBVIOUS
  <1>2. s \in Seq(S) /\ t \in Seq(S)
    BY <1>1, SequenceFacts DEF IsSequence
  <1>3. s \o t \in Seq(S)
    BY <1>2
  <1>4. IsSequence(s \o t)
    BY <1>3, SomeSequence
  <1> QED
    BY <1>2, <1>4

LEMMA ExceptFacts ==
  ASSUME NEW s, IsSequence(s), NEW i \in 1..Len(s), NEW x
  PROVE  /\ IsSequence([s EXCEPT ![i] = x]) /\ Len([s EXCEPT ![i] = x]) = Len(s) /\ Len(s) \in Nat
         /\ [s EXCEPT ![i] = x][i] = x
         /\ \A k \in 1..Len(s) : k # i => [s EXCEPT ![i] = x][k] = s[k]
  <1>1. PICK S : S = {s[k] : k \in DOMAIN s} \cup {x}
    OBVIOUS
  <1>2. s \in Seq(S) /\ x \in S /\ DOMAIN s = 1..Len(s)
    BY <1>1, SequenceFacts DEF IsSequence
  <1>3. [s EXCEPT ![i] = x] \in Seq(S)
    BY <1>2
  <1>4. IsSequence([s EXCEPT ![i] = x])
    BY <1>3, SomeSequence
  <1> QED
    BY <1>2, <1>4

LEMMA TailFacts ==
  ASSUME NEW s, IsSequence(s), s # <<>>
  PROVE  /\ IsSequence(Tail(s)) /\ Len(Tail(s)) = Len(s) - 1 /\ Len(s) \in Nat /\ Len(s) > 0
         /\ \A i \in 1..Len(s) - 1 : Tail(s)[i] = s[i + 1]
  <1>1. PICK S : s \in Seq(S)
    BY DEF IsSequence
  <1>2. Tail(s) \in Seq(S)
    BY <1>1
  <1>3. IsSequence(Tail(s))
    BY <1>2, SomeSequence
  <1> QED
    BY <1>1, <1>3

LEMMA FrontFacts ==
  ASSUME NEW s, IsSequence(s), s # <<>>
  PROVE  /\ IsSequence(Front(s)) /\ Len(Front(s)) = Len(s) - 1 /\ Len(s) \in Nat /\ Len(s) > 0
         /\ \A i \in 1..Len(s) - 1 : Front(s)[i] = s[i]
  <1>1. PICK S : s \in Seq(S)
    BY DEF IsSequence
  <1>2. Len(s) \in Nat /\ Len(s) > 0
    BY <1>1
  <1>3. Front(s) = [i \in 1..Len(s) - 1 |-> s[i]]
    BY <1>1, <1>2 DEF Front
  <1>4. Front(s) \in Seq(S) /\ Len(Front(s)) = Len(s) - 1
    BY <1>1, <1>2, <1>3
  <1>5. IsSequence(Front(s))
    BY <1>4, SomeSequence
  <1> QED
    BY <1>2, <1>3, <1>4, <1>5
-----------------------------------------------------------------------------
(* What the operations make of the parts of a heap. *)
Parts(h, promises, alls, microtasks, clock, ran) ==
  h = [promises |-> promises, alls |-> alls, microtasks |-> microtasks, clock |-> clock, ran |-> ran]
PromiseParts(q, settled, value, callbacks, settledAt) ==
  q = [settled |-> settled, value |-> value, callbacks |-> callbacks, settledAt |-> settledAt]

LEMMA HeapRecord ==
  ASSUME NEW h, HeapTypeOK(h)
  PROVE  /\ Parts(h, h.promises, h.alls, h.microtasks, h.clock, h.ran)
         /\ DOMAIN h.promises = 1..Len(h.promises)
         /\ \A p \in 1..Len(h.promises) :
              PromiseParts(h.promises[p], h.promises[p].settled, h.promises[p].value, h.promises[p].callbacks,
                           h.promises[p].settledAt)
  BY SequenceFacts DEF HeapTypeOK, Parts, PromiseOK, PromiseParts

LEMMA PartsOf ==
  ASSUME NEW h, NEW promises, NEW alls, NEW microtasks, NEW clock, NEW ran,
         Parts(h, promises, alls, microtasks, clock, ran)
  PROVE  /\ h.promises = promises /\ h.alls = alls /\ h.microtasks = microtasks /\ h.clock = clock /\ h.ran = ran
         /\ Parts(h, h.promises, h.alls, h.microtasks, h.clock, h.ran)
  BY DEF Parts

LEMMA PartsExcept ==
  ASSUME NEW h, NEW promises, NEW alls, NEW microtasks, NEW clock, NEW ran, NEW x,
         Parts(h, promises, alls, microtasks, clock, ran)
  PROVE  /\ Parts([h EXCEPT !.promises = x], x, alls, microtasks, clock, ran)
         /\ Parts([h EXCEPT !.alls = x], promises, x, microtasks, clock, ran)
         /\ Parts([h EXCEPT !.microtasks = x], promises, alls, x, clock, ran)
         /\ Parts([h EXCEPT !.clock = x], promises, alls, microtasks, x, ran)
         /\ Parts([h EXCEPT !.ran = x], promises, alls, microtasks, clock, x)
  BY DEF Parts

LEMMA PromisePartsExcept ==
  ASSUME NEW q, NEW s, NEW v, NEW c, NEW at, NEW x, PromiseParts(q, s, v, c, at)
  PROVE  /\ PromiseParts([q EXCEPT !.settled = x], x, v, c, at)
         /\ PromiseParts([q EXCEPT !.value = x], s, x, c, at)
         /\ PromiseParts([q EXCEPT !.callbacks = x], s, v, x, at)
         /\ PromiseParts([q EXCEPT !.settledAt = x], s, v, c, x)
  BY DEF PromiseParts

LEMMA NewPromiseParts ==
  ASSUME NEW h, HeapTypeOK(h), NEW v
  PROVE  Parts(NewPromise(h, v), Append(h.promises, Pending(v)), h.alls, h.microtasks, h.clock, h.ran)
  <1>1. PICK s : s = Append(h.promises, Pending(v))
    OBVIOUS
  <1>2. NewPromise(h, v) = [h EXCEPT !.promises = s]
    BY <1>1 DEF NewPromise
  <1>3. Parts(h, h.promises, h.alls, h.microtasks, h.clock, h.ran)
    BY HeapRecord
  <1>4. Parts([h EXCEPT !.promises = s], s, h.alls, h.microtasks, h.clock, h.ran)
    BY <1>3, PartsExcept
  <1> QED
    BY <1>1, <1>2, <1>4

LEMMA TakenParts ==
  ASSUME NEW h, HeapTypeOK(h)
  PROVE  Parts(Taken(h), h.promises, h.alls, Tail(h.microtasks), h.clock, Append(h.ran, NextTask(h)))
  <1>1. PICK m : m = Tail(h.microtasks)
    OBVIOUS
  <1>2. PICK r : r = Append(h.ran, NextTask(h))
    OBVIOUS
  <1>3. Parts(h, h.promises, h.alls, h.microtasks, h.clock, h.ran)
    BY HeapRecord
  <1>4. PICK g : g = [h EXCEPT !.microtasks = m]
    OBVIOUS
  <1>5. Parts(g, h.promises, h.alls, m, h.clock, h.ran)
    BY <1>3, <1>4, PartsExcept
  <1>6. Parts([g EXCEPT !.ran = r], h.promises, h.alls, m, h.clock, r)
    BY <1>5, PartsExcept
  <1>7. [h EXCEPT !.microtasks = m, !.ran = r] = [g EXCEPT !.ran = r]
    BY <1>4
  <1> QED
    BY <1>1, <1>2, <1>6, <1>7 DEF Taken

LEMMA SettledParts ==
  ASSUME NEW h, HeapTypeOK(h), NEW p \in 1..Len(h.promises), NEW v
  PROVE  Parts(SettleAgain(h, p, v),
               [h.promises EXCEPT ![p] = [settled |-> TRUE, value |-> v, callbacks |-> h.promises[p].callbacks,
                                          settledAt |-> h.clock]],
               h.alls, h.microtasks \o Queued(h, p), h.clock + 1, h.ran)
  <1>1. PICK m : m = h.microtasks \o Queued(h, p)
    OBVIOUS
  <1>2. PICK clock : clock = h.clock
    OBVIOUS
  <1>3. PICK q : q = h.promises[p]
    OBVIOUS
  <1>4. PICK q1 : q1 = [q EXCEPT !.settled = TRUE]
    OBVIOUS
  <1>5. PICK q2 : q2 = [q1 EXCEPT !.value = v]
    OBVIOUS
  <1>6. PICK q3 : q3 = [q2 EXCEPT !.settledAt = clock]
    OBVIOUS
  <1>7. PromiseParts(q3, TRUE, v, q.callbacks, clock)
    <2>1. PromiseParts(q, q.settled, q.value, q.callbacks, q.settledAt)
      BY <1>3, HeapRecord
    <2>2. PromiseParts(q1, TRUE, q.value, q.callbacks, q.settledAt)
      BY <2>1, <1>4, PromisePartsExcept
    <2>3. PromiseParts(q2, TRUE, v, q.callbacks, q.settledAt)
      BY <2>2, <1>5, PromisePartsExcept
    <2> QED
      BY <2>3, <1>6, PromisePartsExcept
  <1>8. [q EXCEPT !.settled = TRUE, !.value = v, !.settledAt = clock] = q3
    BY <1>4, <1>5, <1>6
  <1>9. PICK s : s = [h.promises EXCEPT ![p] = q3]
    OBVIOUS
  <1>10. PICK g1 : g1 = [h EXCEPT !.promises = s]
    OBVIOUS
  <1>11. PICK g2 : g2 = [g1 EXCEPT !.clock = clock + 1]
    OBVIOUS
  <1>12. Parts(h, h.promises, h.alls, h.microtasks, clock, h.ran)
    BY <1>2, HeapRecord
  <1>13. Parts(g1, s, h.alls, h.microtasks, clock, h.ran)
    BY <1>12, <1>10, PartsExcept
  <1>14. Parts(g2, s, h.alls, h.microtasks, clock + 1, h.ran)
    BY <1>13, <1>11, PartsExcept
  <1>15. Parts([g2 EXCEPT !.microtasks = m], s, h.alls, m, clock + 1, h.ran)
    BY <1>14, PartsExcept
  <1>16. SettleAgain(h, p, v) = [g2 EXCEPT !.microtasks = m]
    <2>1. SettleAgain(h, p, v) =
            [h EXCEPT !.promises[p] = [@ EXCEPT !.settled = TRUE, !.value = v, !.settledAt = clock],
                      !.clock = clock + 1, !.microtasks = m]
      BY <1>1, <1>2 DEF SettleAgain
    <2>2. h.promises = h.promises /\ h.promises[p] = q
      BY <1>3
    <2>3. [h EXCEPT !.promises[p] = [@ EXCEPT !.settled = TRUE, !.value = v, !.settledAt = clock]]
            = [h EXCEPT !.promises = s]
      BY <1>3, <1>8, <1>9
    <2>4. [h EXCEPT !.promises[p] = [@ EXCEPT !.settled = TRUE, !.value = v, !.settledAt = clock],
                    !.clock = clock + 1, !.microtasks = m]
            = [[[h EXCEPT !.promises[p] = [@ EXCEPT !.settled = TRUE, !.value = v, !.settledAt = clock]]
                  EXCEPT !.clock = clock + 1] EXCEPT !.microtasks = m]
      OBVIOUS
    <2> QED
      BY <2>1, <2>3, <2>4, <1>10, <1>11
  <1>17. q3 = [settled |-> TRUE, value |-> v, callbacks |-> h.promises[p].callbacks, settledAt |-> h.clock]
    BY <1>2, <1>3, <1>7 DEF PromiseParts
  <1> QED
    BY <1>1, <1>2, <1>9, <1>15, <1>16, <1>17

LEMMA ThenQueuedParts ==
  ASSUME NEW h, HeapTypeOK(h), NEW p \in 1..Len(h.promises), NEW c, h.promises[p].settled
  PROVE  Parts(Then(h, p, c), h.promises, h.alls, Append(h.microtasks, Task(c, p, h.clock)), h.clock + 1, h.ran)
  <1>1. PICK m : m = Append(h.microtasks, Task(c, p, h.clock))
    OBVIOUS
  <1>2. PICK g : g = [h EXCEPT !.microtasks = m]
    OBVIOUS
  <1>3. PICK clock : clock = h.clock
    OBVIOUS
  <1>4. Parts(h, h.promises, h.alls, h.microtasks, clock, h.ran)
    BY <1>3, HeapRecord
  <1>5. Parts(g, h.promises, h.alls, m, clock, h.ran)
    BY <1>2, <1>4, PartsExcept
  <1>6. Parts([g EXCEPT !.clock = clock + 1], h.promises, h.alls, m, clock + 1, h.ran)
    BY <1>5, PartsExcept
  <1>7. Then(h, p, c) = [h EXCEPT !.microtasks = m, !.clock = clock + 1]
    BY <1>1, <1>3 DEF Then
  <1>8. [h EXCEPT !.microtasks = m, !.clock = clock + 1] = [g EXCEPT !.clock = clock + 1]
    BY <1>2
  <1> QED
    BY <1>1, <1>3, <1>6, <1>7, <1>8

LEMMA ThenKeptParts ==
  ASSUME NEW h, HeapTypeOK(h), NEW p \in 1..Len(h.promises), NEW c, ~h.promises[p].settled
  PROVE  Parts(Then(h, p, c),
               [h.promises EXCEPT ![p] = [settled |-> h.promises[p].settled, value |-> h.promises[p].value,
                  callbacks |-> Append(h.promises[p].callbacks, [run |-> c, since |-> h.clock]),
                  settledAt |-> h.promises[p].settledAt]],
               h.alls, h.microtasks, h.clock + 1, h.ran)
  <1>1. PICK q : q = h.promises[p]
    OBVIOUS
  <1>2. PICK cs : cs = Append(q.callbacks, [run |-> c, since |-> h.clock])
    OBVIOUS
  <1>3. PICK q1 : q1 = [q EXCEPT !.callbacks = cs]
    OBVIOUS
  <1>4. PICK s : s = [h.promises EXCEPT ![p] = q1]
    OBVIOUS
  <1>5. PICK clock : clock = h.clock
    OBVIOUS
  <1>6. PICK g : g = [h EXCEPT !.promises = s]
    OBVIOUS
  <1>7. PromiseParts(q, q.settled, q.value, q.callbacks, q.settledAt)
    BY <1>1, HeapRecord
  <1>8. PromiseParts(q1, q.settled, q.value, cs, q.settledAt)
    BY <1>3, <1>7, PromisePartsExcept
  <1>9. Parts(h, h.promises, h.alls, h.microtasks, clock, h.ran)
    BY <1>5, HeapRecord
  <1>10. Parts(g, s, h.alls, h.microtasks, clock, h.ran)
    BY <1>6, <1>9, PartsExcept
  <1>11. Parts([g EXCEPT !.clock = clock + 1], s, h.alls, h.microtasks, clock + 1, h.ran)
    BY <1>10, PartsExcept
  <1>12. Then(h, p, c) = [g EXCEPT !.clock = clock + 1]
    <2>1. Then(h, p, c) = [h EXCEPT !.promises[p].callbacks = Append(@, [run |-> c, since |-> h.clock]),
                                    !.clock = clock + 1]
      BY <1>5 DEF Then
    <2>2. h.promises[p].callbacks = q.callbacks
      BY <1>1
    <2>3. [h EXCEPT !.promises[p].callbacks = Append(@, [run |-> c, since |-> h.clock]), !.clock = clock + 1]
            = [h EXCEPT !.promises[p].callbacks = cs, !.clock = clock + 1]
      BY <1>2, <2>2
    <2>4. [h EXCEPT !.promises[p].callbacks = cs, !.clock = clock + 1]
            = [[h EXCEPT !.promises[p].callbacks = cs] EXCEPT !.clock = clock + 1]
      OBVIOUS
    <2>5. [h EXCEPT !.promises[p].callbacks = cs] = [h EXCEPT !.promises[p] = q1]
      BY <1>1, <1>3
    <2>6. [h EXCEPT !.promises[p] = q1] = g
      BY <1>4, <1>6
    <2> QED
      BY <2>1, <2>3, <2>4, <2>5, <2>6
  <1>13. q1 = [settled |-> h.promises[p].settled, value |-> h.promises[p].value,
               callbacks |-> Append(h.promises[p].callbacks, [run |-> c, since |-> h.clock]),
               settledAt |-> h.promises[p].settledAt]
    BY <1>1, <1>2, <1>8 DEF PromiseParts
  <1> QED
    BY <1>4, <1>5, <1>11, <1>12, <1>13

NewAll(h, ps) ==
  [of |-> ps, values |-> [i \in 1..Len(ps) |-> Unset], remaining |-> Len(ps), result |-> Len(h.promises) + 1]
LEMMA GatheringParts ==
  ASSUME NEW h, HeapTypeOK(h), NEW ps
  PROVE  Parts(Gathering(h, ps), Append(h.promises, Pending(<<"list", [i \in 1..Len(ps) |-> Unset]>>)),
               Append(h.alls, NewAll(h, ps)), h.microtasks, h.clock, h.ran)
  <1>1. PICK v : v = [i \in 1..Len(ps) |-> Unset]
    OBVIOUS
  <1>2. PICK made : made = NewPromise(h, <<"list", v>>)
    OBVIOUS
  <1>3. PICK s : s = Append(h.promises, Pending(<<"list", v>>))
    OBVIOUS
  <1>4. Parts(made, s, h.alls, h.microtasks, h.clock, h.ran)
    BY <1>2, <1>3, NewPromiseParts
  <1>5. made.promises = s /\ made.alls = h.alls
    BY <1>4, PartsOf
  <1>6. Newest(made) = Len(h.promises) + 1
    BY <1>3, <1>5, AppendFacts DEF Newest, HeapTypeOK
  <1>7. PICK x : x = Append(h.alls, NewAll(h, ps))
    OBVIOUS
  <1>8. x = Append(made.alls, [of |-> ps, values |-> v, remaining |-> Len(ps), result |-> Newest(made)])
    BY <1>1, <1>5, <1>6, <1>7 DEF NewAll
  <1>9. Gathering(h, ps) = [made EXCEPT !.alls = x]
    BY <1>1, <1>2, <1>8 DEF Gathering
  <1>10. Parts([made EXCEPT !.alls = x], s, x, h.microtasks, h.clock, h.ran)
    BY <1>4, PartsExcept
  <1> QED
    BY <1>1, <1>3, <1>7, <1>9, <1>10
-----------------------------------------------------------------------------
(* The types of a heap. *)
IsConcat(c, s, t) ==
  /\ IsSequence(c) /\ Len(c) = Len(s) + Len(t) /\ Len(s) \in Nat /\ Len(t) \in Nat
  /\ \A k \in 1..Len(c) : \/ k \in 1..Len(s) /\ c[k] = s[k]
                          \/ k - Len(s) \in 1..Len(t) /\ c[k] = t[k - Len(s)]
  /\ \A k \in 1..Len(s) : c[k] = s[k]
  /\ \A k \in 1..Len(t) : c[Len(s) + k] = t[k]
LEMMA ConcatElements ==
  ASSUME NEW s, IsSequence(s), NEW t, IsSequence(t)
  PROVE  IsConcat(s \o t, s, t)
  <1>1. PICK c : c = s \o t
    OBVIOUS
  <1>2. PICK m \in Nat : m = Len(s)
    BY SequenceFacts
  <1>3. PICK n \in Nat : n = Len(t)
    BY SequenceFacts
  <1>4. /\ IsSequence(c) /\ Len(c) = m + n
        /\ \A i \in 1..m : c[i] = s[i]
        /\ \A i \in 1..n : c[m + i] = t[i]
    BY <1>1, <1>2, <1>3, ConcatFacts
  <1>5. ASSUME NEW k \in 1..(m + n)
        PROVE  \/ k \in 1..m /\ c[k] = s[k]
               \/ k - m \in 1..n /\ c[k] = t[k - m]
    <2>1. CASE k <= m
      BY <1>4, <2>1
    <2>2. CASE k > m
      <3>1. PICK i \in 1..n : k = m + i
        <4>1. k - m \in 1..n /\ k = m + (k - m)
          BY <2>2
        <4> QED
          BY <4>1
      <3>2. c[k] = t[i] /\ k - m = i
        BY <1>4, <3>1
      <3> QED
        BY <3>2
    <2> QED
      BY <2>1, <2>2
  <1>6. IsConcat(c, s, t)
    BY <1>2, <1>3, <1>4, <1>5 DEF IsConcat
  <1> QED
    BY <1>1, <1>6

LEMMA StillOK ==
  ASSUME NEW h, NEW g, Len(h.promises) \in Nat, Len(g.promises) \in Nat, Len(g.promises) >= Len(h.promises)
  PROVE  /\ \A t : TaskOK(h, t) => TaskOK(g, t)
         /\ \A all : AllOK(h, all) => AllOK(g, all)
  <1>1. 1..Len(h.promises) \subseteq 1..Len(g.promises)
    OBVIOUS
  <1>2. ASSUME NEW all, AllOK(h, all)
        PROVE  AllOK(g, all)
    <2>1. all.of \in Seq(1..Len(h.promises))
      BY <1>2 DEF AllOK
    <2>2. all.of \in Seq(1..Len(g.promises))
      BY <1>1, <2>1
    <2> QED
      BY <1>1, <1>2, <2>2 DEF AllOK
  <1> QED
    BY <1>1, <1>2 DEF TaskOK

LEMMA HeapLengths ==
  ASSUME NEW h, HeapTypeOK(h)
  PROVE  /\ Len(h.promises) \in Nat /\ Len(h.alls) \in Nat /\ Len(h.microtasks) \in Nat /\ Len(h.ran) \in Nat
         /\ DOMAIN h.promises = 1..Len(h.promises) /\ DOMAIN h.alls = 1..Len(h.alls)
         /\ DOMAIN h.microtasks = 1..Len(h.microtasks)
         /\ IsSequence(h.promises) /\ IsSequence(h.alls) /\ IsSequence(h.microtasks) /\ IsSequence(h.ran)
         /\ h.clock \in Nat
  BY SequenceFacts DEF HeapTypeOK

LEMMA PendingOK ==
  ASSUME NEW v
  PROVE  PromiseOK(Pending(v))
  <1>1. IsSequence(<<>>) /\ Len(<<>>) = 0
    BY DEF IsSequence
  <1> QED
    BY <1>1 DEF PromiseOK, Pending

LEMMA NewPromiseType ==
  ASSUME NEW h, HeapTypeOK(h), NEW v
  PROVE  HeapTypeOK(NewPromise(h, v))
  <1>1. PICK g : g = NewPromise(h, v)
    OBVIOUS
  <1>2. PICK s : s = Append(h.promises, Pending(v))
    OBVIOUS
  <1>3. Parts(g, s, h.alls, h.microtasks, h.clock, h.ran)
    BY <1>1, <1>2, NewPromiseParts
  <1>4. g.promises = s /\ g.alls = h.alls /\ g.microtasks = h.microtasks /\ g.clock = h.clock /\ g.ran = h.ran
    BY <1>3, PartsOf
  <1>5. /\ IsSequence(s) /\ Len(s) = Len(h.promises) + 1 /\ Len(h.promises) \in Nat
        /\ \A i \in 1..Len(h.promises) : s[i] = h.promises[i]
        /\ s[Len(h.promises) + 1] = Pending(v)
    BY <1>2, AppendFacts DEF HeapTypeOK
  <1>6. \A p \in 1..Len(s) : PromiseOK(s[p])
    <2> SUFFICES ASSUME NEW p \in 1..Len(s)
                 PROVE  PromiseOK(s[p])
      OBVIOUS
    <2>1. CASE p \in 1..Len(h.promises)
      BY <1>5, <2>1 DEF HeapTypeOK
    <2>2. CASE p = Len(h.promises) + 1
      BY <1>5, <2>2, PendingOK
    <2> QED
      BY <1>5, <2>1, <2>2
  <1>7. \A t : TaskOK(h, t) => TaskOK(g, t)
    BY <1>4, <1>5, StillOK
  <1>8. \A all : AllOK(h, all) => AllOK(g, all)
    BY <1>4, <1>5, StillOK
  <1>9. g = [promises |-> g.promises, alls |-> g.alls, microtasks |-> g.microtasks, clock |-> g.clock, ran |-> g.ran]
    BY <1>3, PartsOf DEF Parts
  <1> QED
    BY <1>1, <1>4, <1>5, <1>6, <1>7, <1>8, <1>9 DEF HeapTypeOK

LEMMA QueuedFacts ==
  ASSUME NEW h, HeapTypeOK(h), NEW p \in 1..Len(h.promises)
  PROVE  /\ IsSequence(Queued(h, p)) /\ Len(Queued(h, p)) = Len(h.promises[p].callbacks)
         /\ Len(h.promises[p].callbacks) \in Nat
         /\ \A k \in 1..Len(h.promises[p].callbacks) :
              /\ Queued(h, p)[k] = Task(h.promises[p].callbacks[k].run, p, h.promises[p].callbacks[k].since)
              /\ TaskOK(h, Queued(h, p)[k])
  <1>1. PICK cs : cs = h.promises[p].callbacks
    OBVIOUS
  <1>2. PICK q : q = Queued(h, p)
    OBVIOUS
  <1>3. IsSequence(cs) /\ \A k \in 1..Len(cs) : cs[k].since \in Nat
    BY <1>1 DEF HeapTypeOK, PromiseOK
  <1>4. Len(cs) \in Nat
    BY <1>3, SequenceFacts
  <1>5. q = [k \in 1..Len(cs) |-> Task(cs[k].run, p, cs[k].since)]
    BY <1>1, <1>2 DEF Queued
  <1>6. PICK S : S = {Task(cs[k].run, p, cs[k].since) : k \in 1..Len(cs)}
    OBVIOUS
  <1>7. q \in Seq(S) /\ Len(q) = Len(cs)
    BY <1>4, <1>5, <1>6
  <1>8. IsSequence(q)
    BY <1>7, SomeSequence
  <1>9. \A k \in 1..Len(cs) : q[k] = Task(cs[k].run, p, cs[k].since)
    BY <1>5
  <1>10. \A k \in 1..Len(cs) : TaskOK(h, q[k])
    <2> SUFFICES ASSUME NEW k \in 1..Len(cs)
                 PROVE  TaskOK(h, q[k])
      OBVIOUS
    <2>1. PICK since : since = cs[k].since
      OBVIOUS
    <2>2. PICK run : run = cs[k].run
      OBVIOUS
    <2>3. q[k] = [callback |-> run, promise |-> p, since |-> since] /\ since \in Nat
      BY <1>3, <1>9, <2>1, <2>2 DEF Task
    <2> QED
      BY <2>3 DEF TaskOK
  <1> QED
    BY <1>1, <1>2, <1>4, <1>7, <1>8, <1>9, <1>10

LEMMA SettledType ==
  ASSUME NEW h, HeapTypeOK(h), NEW p \in 1..Len(h.promises), NEW v
  PROVE  HeapTypeOK(SettleAgain(h, p, v))
  <1>1. PICK g : g = SettleAgain(h, p, v)
    OBVIOUS
  <1>2. PICK q : q = [settled |-> TRUE, value |-> v, callbacks |-> h.promises[p].callbacks, settledAt |-> h.clock]
    OBVIOUS
  <1>3. PICK s : s = [h.promises EXCEPT ![p] = q]
    OBVIOUS
  <1>4. PICK m : m = h.microtasks \o Queued(h, p)
    OBVIOUS
  <1>5. Parts(g, s, h.alls, m, h.clock + 1, h.ran)
    BY <1>1, <1>2, <1>3, <1>4, SettledParts
  <1>6. g.promises = s /\ g.alls = h.alls /\ g.microtasks = m /\ g.clock = h.clock + 1 /\ g.ran = h.ran
    BY <1>5, PartsOf
  <1>7. /\ IsSequence(s) /\ Len(s) = Len(h.promises) /\ Len(h.promises) \in Nat /\ s[p] = q
        /\ \A k \in 1..Len(h.promises) : k # p => s[k] = h.promises[k]
    BY <1>3, HeapLengths, ExceptFacts
  <1>8. PromiseOK(q)
    <2>1. PromiseOK(h.promises[p]) /\ h.clock \in Nat
      BY DEF HeapTypeOK
    <2> QED
      BY <1>2, <2>1 DEF PromiseOK
  <1>9. \A k \in 1..Len(s) : PromiseOK(s[k])
    BY <1>7, <1>8 DEF HeapTypeOK
  <1>10. \A t : TaskOK(h, t) => TaskOK(g, t)
    BY <1>6, <1>7, StillOK
  <1>11. \A all : AllOK(h, all) => AllOK(g, all)
    BY <1>6, <1>7, StillOK
  <1>12. IsSequence(m) /\ \A k \in 1..Len(m) : TaskOK(h, m[k])
    <2>1. IsSequence(h.microtasks) /\ \A k \in 1..Len(h.microtasks) : TaskOK(h, h.microtasks[k])
      BY DEF HeapTypeOK
    <2>2. PICK w : w = Queued(h, p)
      OBVIOUS
    <2>3. IsSequence(w) /\ \A k \in 1..Len(w) : TaskOK(h, w[k])
      BY <2>2, QueuedFacts
    <2>4. PICK old : old = h.microtasks
      OBVIOUS
    <2>5. IsSequence(old) /\ m = old \o w
      BY <1>4, <2>1, <2>2, <2>4
    <2>6. IsConcat(m, old, w)
      BY <2>3, <2>5, ConcatElements
    <2> QED
      BY <2>1, <2>3, <2>4, <2>6 DEF IsConcat
  <1>13. g = [promises |-> g.promises, alls |-> g.alls, microtasks |-> g.microtasks, clock |-> g.clock, ran |-> g.ran]
    BY <1>5, PartsOf DEF Parts
  <1> QED
    BY <1>1, <1>6, <1>7, <1>9, <1>10, <1>11, <1>12, <1>13 DEF HeapTypeOK

LEMMA ThenQueuedType ==
  ASSUME NEW h, HeapTypeOK(h), NEW p \in 1..Len(h.promises), NEW c, h.promises[p].settled
  PROVE  HeapTypeOK(Then(h, p, c))
  <1>1. PICK g : g = Then(h, p, c)
    OBVIOUS
  <1>2. PICK t : t = Task(c, p, h.clock)
    OBVIOUS
  <1>3. PICK m : m = Append(h.microtasks, t)
    OBVIOUS
  <1>4. Parts(g, h.promises, h.alls, m, h.clock + 1, h.ran)
    BY <1>1, <1>2, <1>3, ThenQueuedParts
  <1>5. g.promises = h.promises /\ g.alls = h.alls /\ g.microtasks = m /\ g.clock = h.clock + 1 /\ g.ran = h.ran
    BY <1>4, PartsOf
  <1>6. /\ IsSequence(m) /\ Len(m) = Len(h.microtasks) + 1 /\ Len(h.microtasks) \in Nat
        /\ \A i \in 1..Len(h.microtasks) : m[i] = h.microtasks[i]
        /\ m[Len(h.microtasks) + 1] = t
    BY <1>3, AppendFacts DEF HeapTypeOK
  <1>7. TaskOK(h, t)
    BY <1>2 DEF TaskOK, Task, HeapTypeOK
  <1>8. \A k \in 1..Len(m) : TaskOK(h, m[k])
    <2> SUFFICES ASSUME NEW k \in 1..Len(m)
                 PROVE  TaskOK(h, m[k])
      OBVIOUS
    <2>1. k \in 1..Len(h.microtasks) \/ k = Len(h.microtasks) + 1
      BY <1>6
    <2> QED
      BY <1>6, <1>7, <2>1 DEF HeapTypeOK
  <1>9. Len(h.promises) \in Nat
    BY HeapLengths
  <1>10. (\A u : TaskOK(h, u) => TaskOK(g, u)) /\ \A all : AllOK(h, all) => AllOK(g, all)
    BY <1>5, <1>9, StillOK
  <1>11. g = [promises |-> g.promises, alls |-> g.alls, microtasks |-> g.microtasks, clock |-> g.clock, ran |-> g.ran]
    BY <1>4, PartsOf DEF Parts
  <1> QED
    BY <1>1, <1>5, <1>6, <1>8, <1>10, <1>11 DEF HeapTypeOK

LEMMA ThenKeptType ==
  ASSUME NEW h, HeapTypeOK(h), NEW p \in 1..Len(h.promises), NEW c, ~h.promises[p].settled
  PROVE  HeapTypeOK(Then(h, p, c))
  <1>1. PICK g : g = Then(h, p, c)
    OBVIOUS
  <1>2. PICK o : o = h.promises[p]
    OBVIOUS
  <1>3. PICK cs : cs = Append(o.callbacks, [run |-> c, since |-> h.clock])
    OBVIOUS
  <1>4. PICK q : q = [settled |-> o.settled, value |-> o.value, callbacks |-> cs, settledAt |-> o.settledAt]
    OBVIOUS
  <1>5. PICK s : s = [h.promises EXCEPT ![p] = q]
    OBVIOUS
  <1>6. Parts(g, s, h.alls, h.microtasks, h.clock + 1, h.ran)
    BY <1>1, <1>2, <1>3, <1>4, <1>5, ThenKeptParts
  <1>7. g.promises = s /\ g.alls = h.alls /\ g.microtasks = h.microtasks /\ g.clock = h.clock + 1 /\ g.ran = h.ran
    BY <1>6, PartsOf
  <1>8. /\ IsSequence(s) /\ Len(s) = Len(h.promises) /\ Len(h.promises) \in Nat /\ s[p] = q
        /\ \A k \in 1..Len(h.promises) : k # p => s[k] = h.promises[k]
    <2>1. IsSequence(h.promises) /\ Len(h.promises) \in Nat
      BY HeapLengths
    <2>2. PICK t : t = h.promises
      OBVIOUS
    <2>3. IsSequence(t) /\ p \in 1..Len(t)
      BY <2>1, <2>2
    <2>4. /\ IsSequence([t EXCEPT ![p] = q]) /\ Len([t EXCEPT ![p] = q]) = Len(t) /\ [t EXCEPT ![p] = q][p] = q
          /\ \A k \in 1..Len(t) : k # p => [t EXCEPT ![p] = q][k] = t[k]
      BY <2>3, ExceptFacts
    <2> QED
      BY <1>5, <2>1, <2>2, <2>4
  <1>9. PromiseOK(o) /\ h.clock \in Nat
    BY <1>2 DEF HeapTypeOK
  <1>10. /\ IsSequence(cs) /\ Len(cs) = Len(o.callbacks) + 1 /\ Len(o.callbacks) \in Nat
         /\ \A i \in 1..Len(o.callbacks) : cs[i] = o.callbacks[i]
         /\ cs[Len(o.callbacks) + 1] = [run |-> c, since |-> h.clock]
    BY <1>3, <1>9, AppendFacts DEF PromiseOK
  <1>11. \A k \in 1..Len(cs) : cs[k] = [run |-> cs[k].run, since |-> cs[k].since] /\ cs[k].since \in Nat
    <2> SUFFICES ASSUME NEW k \in 1..Len(cs)
                 PROVE  cs[k] = [run |-> cs[k].run, since |-> cs[k].since] /\ cs[k].since \in Nat
      OBVIOUS
    <2>1. k \in 1..Len(o.callbacks) \/ k = Len(o.callbacks) + 1
      BY <1>10
    <2> QED
      <3>1. CASE k \in 1..Len(o.callbacks)
        BY <1>9, <1>10, <3>1 DEF PromiseOK
      <3>2. CASE k = Len(o.callbacks) + 1
        BY <1>9, <1>10, <3>2
      <3> QED
        BY <2>1, <3>1, <3>2
  <1>12. PromiseOK(q)
    BY <1>4, <1>9, <1>10, <1>11 DEF PromiseOK
  <1>13. \A k \in 1..Len(s) : PromiseOK(s[k])
    BY <1>8, <1>12 DEF HeapTypeOK
  <1>14. (\A u : TaskOK(h, u) => TaskOK(g, u)) /\ \A all : AllOK(h, all) => AllOK(g, all)
    BY <1>7, <1>8, StillOK
  <1>15. g = [promises |-> g.promises, alls |-> g.alls, microtasks |-> g.microtasks, clock |-> g.clock, ran |-> g.ran]
    BY <1>6, PartsOf DEF Parts
  <1> QED
    BY <1>1, <1>7, <1>8, <1>13, <1>14, <1>15 DEF HeapTypeOK
-----------------------------------------------------------------------------
(* The order of the jobs. *)
LEMMA JobsOf ==
  ASSUME NEW h, HeapTypeOK(h)
  PROVE  /\ IsSequence(Jobs(h)) /\ IsConcat(Jobs(h), h.ran, h.microtasks)
         /\ \A i \in 1..Len(Jobs(h)) : TaskOK(h, Jobs(h)[i])
  <1>1. PICK jobs : jobs = Jobs(h)
    OBVIOUS
  <1>2. PICK ran : ran = h.ran
    OBVIOUS
  <1>3. PICK queue : queue = h.microtasks
    OBVIOUS
  <1>4. IsSequence(ran) /\ IsSequence(queue)
    BY <1>2, <1>3, HeapLengths
  <1>5. jobs = ran \o queue
    BY <1>1, <1>2, <1>3 DEF Jobs
  <1>6. IsConcat(jobs, ran, queue)
    BY <1>4, <1>5, ConcatElements
  <1>7. (\A k \in 1..Len(ran) : TaskOK(h, ran[k])) /\ \A k \in 1..Len(queue) : TaskOK(h, queue[k])
    BY <1>2, <1>3 DEF HeapTypeOK
  <1>8. IsSequence(jobs) /\ \A i \in 1..Len(jobs) : TaskOK(h, jobs[i])
    BY <1>6, <1>7 DEF IsConcat
  <1> QED
    BY <1>1, <1>2, <1>3, <1>6, <1>8

(* g follows h: promises settled stay as they were, and the new jobs are    *)
(* those of one tick, in the order attached.                                *)
Follows(h, g, new) ==
  /\ Len(g.promises) >= Len(h.promises) /\ g.clock >= h.clock
  /\ \A p \in 1..Len(h.promises) :
       h.promises[p].settled => g.promises[p].settled /\ g.promises[p].settledAt = h.promises[p].settledAt
  /\ \A k \in 1..Len(new) :
       /\ TaskOK(g, new[k]) /\ g.promises[new[k].promise].settled
       /\ new[k].since < g.clock /\ ReadyAt(g, new[k]) = h.clock
  /\ \A k, l \in 1..Len(new) : k < l => new[k].since < new[l].since

LEMMA OrderKept ==
  ASSUME NEW h, NEW g, NEW new, HeapOK(h), HeapTypeOK(g), IsConcat(Jobs(g), Jobs(h), new), Follows(h, g, new)
  PROVE  /\ JobsSettled(g) /\ InOrder(g)
         /\ \A i \in 1..Len(Jobs(g)) : Jobs(g)[i].since < g.clock
  <1>1. PICK old : old = Jobs(h)
    OBVIOUS
  <1>2. PICK jobs : jobs = Jobs(g)
    OBVIOUS
  <1>3. PICK clock \in Nat : clock = h.clock
    BY HeapLengths DEF HeapOK
  <1>4. PICK m \in Nat : m = Len(old)
    BY <1>1, JobsOf, SequenceFacts DEF HeapOK
  <1>5. g.clock \in Nat /\ g.clock >= clock
    BY <1>3, HeapLengths DEF Follows
  <1>6. ASSUME NEW i \in 1..m
        PROVE  /\ old[i].promise \in 1..Len(h.promises) /\ old[i].since \in Nat /\ old[i].since < clock
               /\ g.promises[old[i].promise].settled
               /\ ReadyAt(g, old[i]) = ReadyAt(h, old[i]) /\ ReadyAt(h, old[i]) \in Nat /\ ReadyAt(h, old[i]) < clock
    <2>1. PICK t : t = old[i]
      OBVIOUS
    <2>2. TaskOK(h, t)
      BY <1>1, <1>4, <2>1, JobsOf DEF HeapOK
    <2>3. t.promise \in 1..Len(h.promises) /\ t.since \in Nat
      BY <2>2 DEF TaskOK
    <2>4. t.since < clock /\ h.promises[t.promise].settled
      BY <1>1, <1>3, <1>4, <2>1 DEF HeapOK, ClockAhead, JobsSettled
    <2>5. h.promises[t.promise].settledAt < clock
      BY <1>3, <2>3, <2>4 DEF HeapOK, ClockAhead
    <2>6. h.promises[t.promise].settledAt \in Nat
      BY <2>3 DEF HeapOK, HeapTypeOK, PromiseOK
    <2>7. g.promises[t.promise].settled /\ g.promises[t.promise].settledAt = h.promises[t.promise].settledAt
      BY <2>3, <2>4 DEF Follows
    <2>8. ReadyAt(g, t) = ReadyAt(h, t)
      BY <2>7 DEF ReadyAt
    <2>9. ReadyAt(h, t) \in Nat /\ ReadyAt(h, t) < clock
      BY <2>3, <2>4, <2>5, <2>6 DEF ReadyAt
    <2> QED
      BY <2>1, <2>3, <2>4, <2>7, <2>8, <2>9
  <1>7. ASSUME NEW i \in 1..Len(jobs)
        PROVE  \/ i \in 1..m /\ jobs[i] = old[i]
               \/ i - m \in 1..Len(new) /\ jobs[i] = new[i - m] /\ ReadyAt(g, jobs[i]) = clock
    BY <1>1, <1>2, <1>3, <1>4 DEF IsConcat, Follows
  <1>8. \A i \in 1..Len(jobs) : g.promises[jobs[i].promise].settled /\ jobs[i].since < g.clock
    <2> SUFFICES ASSUME NEW i \in 1..Len(jobs)
                 PROVE  g.promises[jobs[i].promise].settled /\ jobs[i].since < g.clock
      OBVIOUS
    <2>1. CASE i \in 1..m /\ jobs[i] = old[i]
      BY <1>5, <1>6, <2>1
    <2>2. CASE i - m \in 1..Len(new) /\ jobs[i] = new[i - m]
      BY <2>2 DEF Follows
    <2> QED
      BY <1>7, <2>1, <2>2
  <1>9. \A i, k \in 1..Len(jobs) : i < k => Before(g, jobs[i], jobs[k])
    <2> SUFFICES ASSUME NEW i \in 1..Len(jobs), NEW k \in 1..Len(jobs), i < k
                 PROVE  Before(g, jobs[i], jobs[k])
      OBVIOUS
    <2>1. Len(jobs) \in Nat
      BY <1>2, JobsOf, SequenceFacts
    <2>2. CASE i \in 1..m /\ jobs[i] = old[i] /\ k \in 1..m /\ jobs[k] = old[k]
      <3>1. Before(h, old[i], old[k])
        BY <1>1, <1>4, <2>2 DEF HeapOK, InOrder
      <3>2. ReadyAt(g, old[i]) = ReadyAt(h, old[i]) /\ ReadyAt(g, old[k]) = ReadyAt(h, old[k])
        BY <1>6, <2>2
      <3> QED
        BY <2>2, <3>1, <3>2 DEF Before
    <2>3. CASE i \in 1..m /\ jobs[i] = old[i] /\ ReadyAt(g, jobs[k]) = clock
      <3>1. ReadyAt(g, jobs[i]) < clock
        BY <1>6, <2>3
      <3> QED
        BY <2>3, <3>1 DEF Before
    <2>4. CASE /\ i - m \in 1..Len(new) /\ jobs[i] = new[i - m] /\ ReadyAt(g, jobs[i]) = clock
               /\ k - m \in 1..Len(new) /\ jobs[k] = new[k - m] /\ ReadyAt(g, jobs[k]) = clock
      <3>1. i - m < k - m
        BY <2>1
      <3>2. new[i - m].since < new[k - m].since
        BY <2>4, <3>1 DEF Follows
      <3> QED
        BY <2>4, <3>2 DEF Before
    <2>5. CASE i - m \in 1..Len(new) /\ k \in 1..m
      <3>1. Len(new) \in Nat
        BY DEF IsConcat
      <3> QED
        BY <2>1, <2>5, <3>1
    <2>6. \/ i \in 1..m /\ jobs[i] = old[i]
          \/ i - m \in 1..Len(new) /\ jobs[i] = new[i - m] /\ ReadyAt(g, jobs[i]) = clock
      BY <1>7
    <2>7. \/ k \in 1..m /\ jobs[k] = old[k]
          \/ k - m \in 1..Len(new) /\ jobs[k] = new[k - m] /\ ReadyAt(g, jobs[k]) = clock
      BY <1>7
    <2> QED
      BY <2>2, <2>3, <2>4, <2>5, <2>6, <2>7
  <1> QED
    BY <1>2, <1>8, <1>9 DEF JobsSettled, InOrder

LEMMA JobsConcat ==
  ASSUME NEW h, NEW g, NEW new, HeapTypeOK(h), HeapTypeOK(g), IsSequence(new),
         g.ran = h.ran, g.microtasks = h.microtasks \o new
  PROVE  IsConcat(Jobs(g), Jobs(h), new)
  <1>1. PICK ran : ran = h.ran
    OBVIOUS
  <1>2. PICK queue : queue = h.microtasks
    OBVIOUS
  <1>3. PICK S : S = {ran[i] : i \in DOMAIN ran} \cup {queue[i] : i \in DOMAIN queue} \cup {new[i] : i \in DOMAIN new}
    OBVIOUS
  <1>4. ran \in Seq(S) /\ queue \in Seq(S) /\ new \in Seq(S)
    <2>1. IsSequence(ran) /\ IsSequence(queue) /\ IsSequence(new)
      BY <1>1, <1>2, HeapLengths
    <2> QED
      BY <1>3, <2>1 DEF IsSequence
  <1>5. (ran \o queue) \o new = ran \o (queue \o new)
    BY <1>4
  <1>6. Jobs(g) = (ran \o queue) \o new /\ Jobs(h) = ran \o queue
    BY <1>1, <1>2, <1>5 DEF Jobs
  <1>7. PICK old : old = ran \o queue
    OBVIOUS
  <1>8. IsSequence(old)
    BY <1>6, <1>7, JobsOf
  <1>9. IsConcat(old \o new, old, new)
    BY <1>8, ConcatElements
  <1> QED
    BY <1>6, <1>7, <1>9

LEMMA NoneQueued ==
  ASSUME NEW h, NEW g, HeapTypeOK(h), HeapTypeOK(g), g.ran = h.ran, g.microtasks = h.microtasks
  PROVE  IsConcat(Jobs(g), Jobs(h), <<>>)
  <1>1. IsSequence(<<>>)
    BY DEF IsSequence
  <1>2. PICK queue : queue = h.microtasks
    OBVIOUS
  <1>3. queue \o <<>> = queue
    <2>1. IsSequence(queue)
      BY <1>2, HeapLengths
    <2>2. PICK S : queue \in Seq(S)
      BY <2>1 DEF IsSequence
    <2> QED
      BY <2>2
  <1> QED
    BY <1>1, <1>2, <1>3, JobsConcat

LEMMA NewPromiseHeap ==
  ASSUME NEW h, HeapOK(h), NEW v
  PROVE  HeapOK(NewPromise(h, v))
  <1>1. PICK g : g = NewPromise(h, v)
    OBVIOUS
  <1>2. PICK s : s = Append(h.promises, Pending(v))
    OBVIOUS
  <1>3. HeapTypeOK(h) /\ HeapTypeOK(g)
    BY <1>1, NewPromiseType DEF HeapOK
  <1>4. Parts(g, s, h.alls, h.microtasks, h.clock, h.ran)
    BY <1>1, <1>2, <1>3, NewPromiseParts
  <1>5. g.promises = s /\ g.alls = h.alls /\ g.microtasks = h.microtasks /\ g.clock = h.clock /\ g.ran = h.ran
    BY <1>4, PartsOf
  <1>6. PICK n \in Nat : n = Len(h.promises)
    BY <1>3, HeapLengths
  <1>7. /\ IsSequence(s) /\ Len(s) = n + 1
        /\ \A i \in 1..n : s[i] = h.promises[i]
        /\ s[n + 1] = Pending(v)
    BY <1>2, <1>3, <1>6, HeapLengths, AppendFacts
  <1>8. IsConcat(Jobs(g), Jobs(h), <<>>)
    BY <1>3, <1>5, NoneQueued
  <1>9. h.clock \in Nat
    BY <1>3, HeapLengths
  <1>10. Follows(h, g, <<>>)
    BY <1>5, <1>6, <1>7, <1>9 DEF Follows
  <1>11. JobsSettled(g) /\ InOrder(g) /\ \A i \in 1..Len(Jobs(g)) : Jobs(g)[i].since < g.clock
    BY <1>3, <1>8, <1>10, OrderKept
  <1>12. ~s[n + 1].settled /\ s[n + 1].callbacks = <<>>
    BY <1>7 DEF Pending
  <1>13. \A p \in 1..(n + 1) : p \in 1..n \/ p = n + 1
    OBVIOUS
  <1>14. /\ \A p \in 1..n : h.promises[p].settled => h.promises[p].settledAt < h.clock
         /\ \A p \in 1..n : \A k \in 1..Len(h.promises[p].callbacks) : h.promises[p].callbacks[k].since < h.clock
         /\ \A p \in 1..n : \A k, l \in 1..Len(h.promises[p].callbacks) :
              k < l => h.promises[p].callbacks[k].since < h.promises[p].callbacks[l].since
    BY <1>6 DEF HeapOK, ClockAhead, CallbacksInOrder
  <1>15. ClockAhead(g)
    BY <1>5, <1>7, <1>11, <1>12, <1>13, <1>14 DEF ClockAhead
  <1>16. CallbacksInOrder(g)
    BY <1>5, <1>7, <1>12, <1>13, <1>14 DEF CallbacksInOrder
  <1> QED
    BY <1>1, <1>3, <1>11, <1>15, <1>16 DEF HeapOK

(* What a promise settled makes of a heap. *)
SettledEffect(h, g, p, v) ==
  /\ g.alls = h.alls /\ g.ran = h.ran /\ g.clock = h.clock + 1
  /\ IsConcat(g.microtasks, h.microtasks, Queued(h, p)) /\ g.microtasks = h.microtasks \o Queued(h, p)
  /\ Len(g.promises) = Len(h.promises)
  /\ g.promises[p].settled /\ g.promises[p].value = v /\ g.promises[p].settledAt = h.clock
  /\ \A k \in 1..Len(h.promises) : g.promises[k].callbacks = h.promises[k].callbacks
  /\ \A k \in 1..Len(h.promises) : k # p => g.promises[k] = h.promises[k]
LEMMA SettledMakes ==
  ASSUME NEW h, HeapTypeOK(h), NEW p \in 1..Len(h.promises), NEW v
  PROVE  SettledEffect(h, SettleAgain(h, p, v), p, v)
  <1>1. PICK g : g = SettleAgain(h, p, v)
    OBVIOUS
  <1>2. PICK q : q = [settled |-> TRUE, value |-> v, callbacks |-> h.promises[p].callbacks, settledAt |-> h.clock]
    OBVIOUS
  <1>3. PICK s : s = [h.promises EXCEPT ![p] = q]
    OBVIOUS
  <1>4. PICK m : m = h.microtasks \o Queued(h, p)
    OBVIOUS
  <1>5. PICK clock : clock = h.clock + 1
    OBVIOUS
  <1>6. Parts(g, s, h.alls, m, clock, h.ran)
    BY <1>1, <1>2, <1>3, <1>4, <1>5, SettledParts
  <1>7. g.promises = s /\ g.alls = h.alls /\ g.microtasks = m /\ g.clock = clock /\ g.ran = h.ran
    BY <1>6, PartsOf
  <1>8. IsSequence(h.promises) /\ IsSequence(h.microtasks)
    BY HeapLengths
  <1>9. PICK old : old = h.promises
    OBVIOUS
  <1>10. /\ Len(s) = Len(old) /\ s[p] = q
         /\ \A k \in 1..Len(old) : k # p => s[k] = old[k]
    BY <1>3, <1>8, <1>9, ExceptFacts
  <1>11. IsConcat(m, h.microtasks, Queued(h, p))
    BY <1>4, <1>8, QueuedFacts, ConcatElements
  <1>12. q.settled /\ q.value = v /\ q.settledAt = h.clock /\ q.callbacks = old[p].callbacks
    BY <1>2, <1>9
  <1>13. \A k \in 1..Len(old) : s[k].callbacks = old[k].callbacks
    BY <1>10, <1>12
  <1> QED
    BY <1>1, <1>4, <1>5, <1>7, <1>9, <1>10, <1>11, <1>12, <1>13 DEF SettledEffect

LEMMA TaskParts ==
  ASSUME NEW c, NEW p, NEW since
  PROVE  /\ Task(c, p, since).callback = c /\ Task(c, p, since).promise = p /\ Task(c, p, since).since = since
  BY DEF Task

LEMMA SettledHeap ==
  ASSUME NEW h, HeapOK(h), NEW p \in 1..Len(h.promises), NEW v, ~h.promises[p].settled
  PROVE  HeapOK(SettleAgain(h, p, v))
  <1>1. PICK g : g = SettleAgain(h, p, v)
    OBVIOUS
  <1>2. PICK cs : cs = h.promises[p].callbacks
    OBVIOUS
  <1>3. PICK w : w = Queued(h, p)
    OBVIOUS
  <1>4. HeapTypeOK(h) /\ HeapTypeOK(g)
    BY <1>1, SettledType DEF HeapOK
  <1>5. SettledEffect(h, g, p, v)
    BY <1>1, <1>4, SettledMakes
  <1>6. PICK n \in Nat : n = Len(h.promises)
    BY <1>4, HeapLengths
  <1>7. PICK clock \in Nat : clock = h.clock
    BY <1>4, HeapLengths
  <1>8. /\ Len(g.promises) = n /\ g.clock = clock + 1
        /\ g.promises[p].settled /\ g.promises[p].settledAt = clock
        /\ \A k \in 1..n : g.promises[k].callbacks = h.promises[k].callbacks
        /\ \A k \in 1..n : k # p => g.promises[k] = h.promises[k]
        /\ g.ran = h.ran /\ g.microtasks = h.microtasks \o w
    BY <1>3, <1>5, <1>6, <1>7 DEF SettledEffect
  <1>9. /\ IsSequence(w) /\ Len(w) = Len(cs) /\ Len(cs) \in Nat
        /\ \A k \in 1..Len(cs) : w[k] = Task(cs[k].run, p, cs[k].since) /\ TaskOK(h, w[k])
    BY <1>2, <1>3, <1>4, QueuedFacts
  <1>10. IsConcat(Jobs(g), Jobs(h), w)
    BY <1>4, <1>8, <1>9, JobsConcat
  <1>11. \A k \in 1..Len(cs) : cs[k].since < clock /\ cs[k].since \in Nat
    <2>1. PromiseOK(h.promises[p])
      BY <1>4 DEF HeapTypeOK
    <2> QED
      BY <1>2, <1>7, <2>1 DEF PromiseOK, HeapOK, ClockAhead
  <1>12. \A k, l \in 1..Len(cs) : k < l => cs[k].since < cs[l].since
    BY <1>2 DEF HeapOK, CallbacksInOrder
  <1>13. ASSUME NEW k \in 1..Len(cs)
         PROVE  w[k].promise = p /\ w[k].since = cs[k].since
    BY <1>9, TaskParts
  <1>14. Follows(h, g, w)
    <2>1. ASSUME NEW k \in 1..n, h.promises[k].settled
          PROVE  g.promises[k].settled /\ g.promises[k].settledAt = h.promises[k].settledAt
      BY <1>8, <2>1
    <2>2. \A t : TaskOK(h, t) => TaskOK(g, t)
      BY <1>6, <1>8, StillOK
    <2>3. ASSUME NEW k \in 1..Len(w)
          PROVE  /\ TaskOK(g, w[k]) /\ g.promises[w[k].promise].settled
                 /\ w[k].since < g.clock /\ ReadyAt(g, w[k]) = h.clock
      <3>1. w[k].promise = p /\ w[k].since = cs[k].since /\ TaskOK(g, w[k])
        BY <1>9, <1>13, <2>2
      <3>2. w[k].since < clock /\ w[k].since \in Nat
        BY <1>9, <1>11, <3>1
      <3>3. ReadyAt(g, w[k]) = clock
        BY <1>8, <3>1, <3>2 DEF ReadyAt
      <3> QED
        BY <1>7, <1>8, <3>1, <3>2, <3>3
    <2>4. ASSUME NEW k \in 1..Len(w), NEW l \in 1..Len(w), k < l
          PROVE  w[k].since < w[l].since
      BY <1>9, <1>12, <1>13, <2>4
    <2>5. g.clock >= h.clock /\ Len(g.promises) >= Len(h.promises)
      BY <1>6, <1>7, <1>8
    <2> QED
      BY <1>6, <2>1, <2>3, <2>4, <2>5 DEF Follows
  <1>15. JobsSettled(g) /\ InOrder(g) /\ \A i \in 1..Len(Jobs(g)) : Jobs(g)[i].since < g.clock
    BY <1>4, <1>10, <1>14, OrderKept
  <1>16. ASSUME NEW k \in 1..n
         PROVE  g.promises[k].settled => g.promises[k].settledAt < g.clock
    <2>1. CASE k = p
      BY <1>8, <2>1
    <2>2. CASE k # p
      <3>1. h.promises[k].settledAt \in Nat
        BY <1>4, <1>6 DEF HeapTypeOK, PromiseOK
      <3>2. h.promises[k].settled => h.promises[k].settledAt < clock
        BY <1>6, <1>7 DEF HeapOK, ClockAhead
      <3> QED
        BY <1>8, <2>2, <3>1, <3>2
    <2> QED
      BY <2>1, <2>2
  <1>17. ASSUME NEW k \in 1..n, NEW l \in 1..Len(g.promises[k].callbacks)
         PROVE  g.promises[k].callbacks[l].since < g.clock
    <2>1. l \in 1..Len(h.promises[k].callbacks) /\ g.promises[k].callbacks = h.promises[k].callbacks
      BY <1>8
    <2>2. PICK since \in Nat : since = h.promises[k].callbacks[l].since
      BY <1>4, <1>6, <2>1 DEF HeapTypeOK, PromiseOK
    <2>3. since < clock
      BY <1>6, <1>7, <2>1, <2>2 DEF HeapOK, ClockAhead
    <2>4. since < clock + 1
      BY <2>3
    <2>5. g.promises[k].callbacks[l].since = since
      BY <2>1, <2>2
    <2> QED
      BY <1>8, <2>4, <2>5
  <1>18. ClockAhead(g)
    BY <1>8, <1>15, <1>16, <1>17 DEF ClockAhead
  <1>19. CallbacksInOrder(g)
    BY <1>6, <1>8 DEF HeapOK, CallbacksInOrder
  <1> QED
    BY <1>1, <1>4, <1>15, <1>18, <1>19 DEF HeapOK

(* What a new promise makes of a heap. *)
NewEffect(h, g, v) ==
  /\ g.alls = h.alls /\ g.ran = h.ran /\ g.clock = h.clock /\ g.microtasks = h.microtasks
  /\ Len(g.promises) = Len(h.promises) + 1
  /\ \A k \in 1..Len(h.promises) : g.promises[k] = h.promises[k]
  /\ ~g.promises[Len(h.promises) + 1].settled
  /\ g.promises[Len(h.promises) + 1].callbacks = <<>>
  /\ g.promises[Len(h.promises) + 1].value = v
LEMMA NewMakes ==
  ASSUME NEW h, HeapTypeOK(h), NEW v
  PROVE  NewEffect(h, NewPromise(h, v), v)
  <1>1. PICK g : g = NewPromise(h, v)
    OBVIOUS
  <1>2. PICK s : s = Append(h.promises, Pending(v))
    OBVIOUS
  <1>3. Parts(g, s, h.alls, h.microtasks, h.clock, h.ran)
    BY <1>1, <1>2, NewPromiseParts
  <1>4. g.promises = s /\ g.alls = h.alls /\ g.microtasks = h.microtasks /\ g.clock = h.clock /\ g.ran = h.ran
    BY <1>3, PartsOf
  <1>5. IsSequence(h.promises)
    BY HeapLengths
  <1>6. /\ Len(s) = Len(h.promises) + 1 /\ \A i \in 1..Len(h.promises) : s[i] = h.promises[i]
        /\ s[Len(h.promises) + 1] = Pending(v)
    BY <1>2, <1>5, AppendFacts
  <1>7. ~Pending(v).settled /\ Pending(v).callbacks = <<>> /\ Pending(v).value = v
    BY DEF Pending
  <1> QED
    BY <1>1, <1>4, <1>6, <1>7 DEF NewEffect

(* What a callback makes of a heap, when its promise is settled and when it *)
(* is not.                                                                  *)
QueuedEffect(h, g, p, c) ==
  /\ g.promises = h.promises /\ g.alls = h.alls /\ g.ran = h.ran /\ g.clock = h.clock + 1
  /\ g.microtasks = h.microtasks \o <<Task(c, p, h.clock)>>
  /\ IsConcat(g.microtasks, h.microtasks, <<Task(c, p, h.clock)>>)
KeptEffect(h, g, p, c) ==
  /\ g.alls = h.alls /\ g.ran = h.ran /\ g.clock = h.clock + 1 /\ g.microtasks = h.microtasks
  /\ Len(g.promises) = Len(h.promises)
  /\ \A k \in 1..Len(h.promises) :
       /\ g.promises[k].settled = h.promises[k].settled /\ g.promises[k].settledAt = h.promises[k].settledAt
       /\ g.promises[k].value = h.promises[k].value
  /\ \A k \in 1..Len(h.promises) : k # p => g.promises[k] = h.promises[k]
  /\ Len(g.promises[p].callbacks) = Len(h.promises[p].callbacks) + 1
  /\ \A k \in 1..Len(h.promises[p].callbacks) : g.promises[p].callbacks[k] = h.promises[p].callbacks[k]
  /\ g.promises[p].callbacks[Len(h.promises[p].callbacks) + 1] = [run |-> c, since |-> h.clock]

LEMMA Singleton ==
  ASSUME NEW x
  PROVE  IsSequence(<<x>>) /\ Len(<<x>>) = 1 /\ <<x>>[1] = x
  <1>1. <<x>> \in Seq({x})
    OBVIOUS
  <1> QED
    BY <1>1, SomeSequence

LEMMA QueuedMakes ==
  ASSUME NEW h, HeapTypeOK(h), NEW p \in 1..Len(h.promises), NEW c, h.promises[p].settled
  PROVE  QueuedEffect(h, Then(h, p, c), p, c)
  <1>1. PICK g : g = Then(h, p, c)
    OBVIOUS
  <1>2. PICK t : t = Task(c, p, h.clock)
    OBVIOUS
  <1>3. PICK old : old = h.microtasks
    OBVIOUS
  <1>4. PICK m : m = Append(old, t)
    OBVIOUS
  <1>5. PICK clock : clock = h.clock + 1
    OBVIOUS
  <1>6. Parts(g, h.promises, h.alls, m, clock, h.ran)
    BY <1>1, <1>2, <1>3, <1>4, <1>5, ThenQueuedParts
  <1>7. g.promises = h.promises /\ g.alls = h.alls /\ g.microtasks = m /\ g.clock = clock /\ g.ran = h.ran
    BY <1>6, PartsOf
  <1>8. IsSequence(old)
    BY <1>3, HeapLengths
  <1>9. m = old \o <<t>>
    <2>1. PICK S : S = {old[i] : i \in DOMAIN old} \cup {t}
      OBVIOUS
    <2>2. old \in Seq(S) /\ t \in S
      BY <1>8, <2>1, SequenceFacts DEF IsSequence
    <2> QED
      BY <1>4, <2>2
  <1>10. IsConcat(old \o <<t>>, old, <<t>>)
    BY <1>8, Singleton, ConcatElements
  <1> QED
    BY <1>1, <1>2, <1>3, <1>5, <1>7, <1>9, <1>10 DEF QueuedEffect

LEMMA KeptMakes ==
  ASSUME NEW h, HeapTypeOK(h), NEW p \in 1..Len(h.promises), NEW c, ~h.promises[p].settled
  PROVE  KeptEffect(h, Then(h, p, c), p, c)
  <1>1. PICK g : g = Then(h, p, c)
    OBVIOUS
  <1>2. PICK old : old = h.promises
    OBVIOUS
  <1>3. PICK cs : cs = Append(old[p].callbacks, [run |-> c, since |-> h.clock])
    OBVIOUS
  <1>4. PICK q : q = [settled |-> old[p].settled, value |-> old[p].value, callbacks |-> cs,
                      settledAt |-> old[p].settledAt]
    OBVIOUS
  <1>5. PICK s : s = [old EXCEPT ![p] = q]
    OBVIOUS
  <1>6. PICK clock : clock = h.clock + 1
    OBVIOUS
  <1>7. Parts(g, s, h.alls, h.microtasks, clock, h.ran)
    BY <1>1, <1>2, <1>3, <1>4, <1>5, <1>6, ThenKeptParts
  <1>8. g.promises = s /\ g.alls = h.alls /\ g.microtasks = h.microtasks /\ g.clock = clock /\ g.ran = h.ran
    BY <1>7, PartsOf
  <1>9. IsSequence(old) /\ p \in 1..Len(old)
    BY <1>2, HeapLengths
  <1>10. /\ Len(s) = Len(old) /\ s[p] = q
         /\ \A k \in 1..Len(old) : k # p => s[k] = old[k]
    BY <1>5, <1>9, ExceptFacts
  <1>11. IsSequence(old[p].callbacks)
    BY <1>2 DEF HeapTypeOK, PromiseOK
  <1>12. /\ Len(cs) = Len(old[p].callbacks) + 1
         /\ \A k \in 1..Len(old[p].callbacks) : cs[k] = old[p].callbacks[k]
         /\ cs[Len(old[p].callbacks) + 1] = [run |-> c, since |-> h.clock]
    BY <1>3, <1>11, AppendFacts
  <1>13. q.settled = old[p].settled /\ q.value = old[p].value /\ q.callbacks = cs /\ q.settledAt = old[p].settledAt
    BY <1>4
  <1>14. \A k \in 1..Len(old) : /\ s[k].settled = old[k].settled /\ s[k].settledAt = old[k].settledAt
                                /\ s[k].value = old[k].value
    BY <1>10, <1>13
  <1> QED
    BY <1>1, <1>2, <1>6, <1>8, <1>10, <1>12, <1>13, <1>14 DEF KeptEffect

LEMMA QueuedHeap ==
  ASSUME NEW h, HeapOK(h), NEW p \in 1..Len(h.promises), NEW c, h.promises[p].settled
  PROVE  HeapOK(Then(h, p, c))
  <1>1. PICK g : g = Then(h, p, c)
    OBVIOUS
  <1>2. PICK t : t = Task(c, p, h.clock)
    OBVIOUS
  <1>3. HeapTypeOK(h) /\ HeapTypeOK(g)
    BY <1>1, ThenQueuedType DEF HeapOK
  <1>4. QueuedEffect(h, g, p, c)
    BY <1>1, <1>3, QueuedMakes
  <1>5. PICK clock \in Nat : clock = h.clock
    BY <1>3, HeapLengths
  <1>6. /\ g.promises = h.promises /\ g.clock = clock + 1 /\ g.ran = h.ran
        /\ g.microtasks = h.microtasks \o <<t>>
    BY <1>2, <1>4, <1>5 DEF QueuedEffect
  <1>7. IsSequence(<<t>>) /\ Len(<<t>>) = 1 /\ <<t>>[1] = t
    BY Singleton
  <1>8. IsConcat(Jobs(g), Jobs(h), <<t>>)
    BY <1>3, <1>6, <1>7, JobsConcat
  <1>9. PICK n \in Nat : n = Len(h.promises)
    BY <1>3, HeapLengths
  <1>10. t.promise = p /\ t.since = clock
    BY <1>2, <1>5, TaskParts
  <1>11. TaskOK(g, t)
    BY <1>2, <1>5, <1>6 DEF TaskOK, Task
  <1>12. g.promises[p].settledAt < clock /\ g.promises[p].settledAt \in Nat
    <2>1. PromiseOK(h.promises[p])
      BY <1>3 DEF HeapTypeOK
    <2> QED
      BY <1>5, <1>6, <2>1 DEF HeapOK, ClockAhead, PromiseOK
  <1>13. ReadyAt(g, t) = clock
    BY <1>10, <1>12 DEF ReadyAt
  <1>14. Follows(h, g, <<t>>)
    <2>1. g.clock >= h.clock /\ Len(g.promises) >= Len(h.promises)
      BY <1>5, <1>6, <1>9
    <2>2. \A k \in 1..Len(<<t>>) : k = 1 /\ <<t>>[k] = t
      BY <1>7
    <2>3. t.since < g.clock
      BY <1>6, <1>10
    <2>4. \A k \in 1..Len(<<t>>) : /\ TaskOK(g, <<t>>[k]) /\ g.promises[<<t>>[k].promise].settled
                                  /\ <<t>>[k].since < g.clock /\ ReadyAt(g, <<t>>[k]) = h.clock
      BY <1>5, <1>6, <1>10, <1>11, <1>13, <2>2, <2>3
    <2>5. \A k, l \in 1..Len(<<t>>) : k < l => <<t>>[k].since < <<t>>[l].since
      BY <2>2
    <2> QED
      BY <1>6, <2>1, <2>4, <2>5 DEF Follows
  <1>15. JobsSettled(g) /\ InOrder(g) /\ \A i \in 1..Len(Jobs(g)) : Jobs(g)[i].since < g.clock
    BY <1>3, <1>8, <1>14, OrderKept
  <1>16. ASSUME NEW k \in 1..n
         PROVE  /\ h.promises[k].settled => h.promises[k].settledAt < clock + 1
                /\ \A l \in 1..Len(h.promises[k].callbacks) : h.promises[k].callbacks[l].since < clock + 1
    <2>1. PICK at \in Nat : at = h.promises[k].settledAt
      BY <1>3, <1>9 DEF HeapTypeOK, PromiseOK
    <2>2. h.promises[k].settled => at < clock
      BY <1>5, <1>9, <2>1 DEF HeapOK, ClockAhead
    <2>3. ASSUME NEW l \in 1..Len(h.promises[k].callbacks)
          PROVE  h.promises[k].callbacks[l].since < clock + 1
      <3>1. PICK since \in Nat : since = h.promises[k].callbacks[l].since
        BY <1>3, <1>9 DEF HeapTypeOK, PromiseOK
      <3>2. since < clock
        BY <1>5, <1>9, <3>1 DEF HeapOK, ClockAhead
      <3>3. since < clock + 1
        BY <3>2
      <3> QED
        BY <3>1, <3>3
    <2> QED
      BY <2>1, <2>2, <2>3
  <1>17. ClockAhead(g)
    BY <1>6, <1>9, <1>15, <1>16 DEF ClockAhead
  <1>18. CallbacksInOrder(g)
    BY <1>6 DEF HeapOK, CallbacksInOrder
  <1> QED
    BY <1>1, <1>3, <1>15, <1>17, <1>18 DEF HeapOK

LEMMA KeptHeap ==
  ASSUME NEW h, HeapOK(h), NEW p \in 1..Len(h.promises), NEW c, ~h.promises[p].settled
  PROVE  HeapOK(Then(h, p, c))
  <1>1. PICK g : g = Then(h, p, c)
    OBVIOUS
  <1>2. HeapTypeOK(h) /\ HeapTypeOK(g)
    BY <1>1, ThenKeptType DEF HeapOK
  <1>3. KeptEffect(h, g, p, c)
    BY <1>1, <1>2, KeptMakes
  <1>4. PICK clock \in Nat : clock = h.clock
    BY <1>2, HeapLengths
  <1>5. PICK n \in Nat : n = Len(h.promises)
    BY <1>2, HeapLengths
  <1>6. PICK cs : cs = h.promises[p].callbacks
    OBVIOUS
  <1>7. PICK m \in Nat : m = Len(cs)
    BY <1>2, <1>6, SequenceFacts DEF HeapTypeOK, PromiseOK
  <1>8. /\ g.clock = clock + 1 /\ g.ran = h.ran /\ g.microtasks = h.microtasks /\ Len(g.promises) = n
        /\ \A k \in 1..n : g.promises[k].settled = h.promises[k].settled
        /\ \A k \in 1..n : g.promises[k].settledAt = h.promises[k].settledAt
        /\ \A k \in 1..n : k # p => g.promises[k] = h.promises[k]
        /\ Len(g.promises[p].callbacks) = m + 1
        /\ \A k \in 1..m : g.promises[p].callbacks[k] = cs[k]
        /\ g.promises[p].callbacks[m + 1].since = clock
    BY <1>3, <1>4, <1>5, <1>6, <1>7 DEF KeptEffect
  <1>9. IsConcat(Jobs(g), Jobs(h), <<>>)
    BY <1>2, <1>8, NoneQueued
  <1>10. Follows(h, g, <<>>)
    BY <1>4, <1>5, <1>8 DEF Follows
  <1>11. JobsSettled(g) /\ InOrder(g) /\ \A i \in 1..Len(Jobs(g)) : Jobs(g)[i].since < g.clock
    BY <1>2, <1>9, <1>10, OrderKept
  <1>12. ASSUME NEW k \in 1..n
         PROVE  g.promises[k].settled => g.promises[k].settledAt < clock + 1
    <2>1. PICK at \in Nat : at = h.promises[k].settledAt
      BY <1>2, <1>5 DEF HeapTypeOK, PromiseOK
    <2>2. h.promises[k].settled => at < clock
      BY <1>4, <1>5, <2>1 DEF HeapOK, ClockAhead
    <2> QED
      BY <1>8, <2>1, <2>2
  <1>13. \A k \in 1..n : \A l \in 1..Len(h.promises[k].callbacks) :
           h.promises[k].callbacks[l].since \in Nat /\ h.promises[k].callbacks[l].since < clock
    BY <1>2, <1>4, <1>5 DEF HeapTypeOK, PromiseOK, HeapOK, ClockAhead
  <1>14. \A k \in 1..n : \A l, j \in 1..Len(h.promises[k].callbacks) :
           l < j => h.promises[k].callbacks[l].since < h.promises[k].callbacks[j].since
    BY <1>5 DEF HeapOK, CallbacksInOrder
  <1>15. \A l \in 1..m : cs[l].since \in Nat /\ cs[l].since < clock
    BY <1>5, <1>6, <1>7, <1>13
  <1>16. ASSUME NEW k \in 1..n, NEW l \in 1..Len(g.promises[k].callbacks)
         PROVE  g.promises[k].callbacks[l].since < clock + 1
    <2>1. CASE k # p
      <3>1. g.promises[k] = h.promises[k]
        BY <1>8, <2>1
      <3>2. PICK since \in Nat : since = h.promises[k].callbacks[l].since /\ since < clock
        BY <1>13, <3>1
      <3>3. since < clock + 1
        BY <3>2
      <3> QED
        BY <3>1, <3>2, <3>3
    <2>2. CASE k = p /\ l \in 1..m
      <3>1. g.promises[k].callbacks[l] = cs[l]
        BY <1>8, <2>2
      <3>2. PICK since \in Nat : since = cs[l].since /\ since < clock
        BY <1>15, <2>2
      <3>3. since < clock + 1
        BY <3>2
      <3> QED
        BY <3>1, <3>2, <3>3
    <2>3. CASE k = p /\ l = m + 1
      BY <1>8, <2>3
    <2>4. k = p => l \in 1..m \/ l = m + 1
      BY <1>8
    <2> QED
      BY <2>1, <2>2, <2>3, <2>4
  <1>17. ASSUME NEW k \in 1..n, NEW l \in 1..Len(g.promises[k].callbacks), NEW j \in 1..Len(g.promises[k].callbacks),
                l < j
         PROVE  g.promises[k].callbacks[l].since < g.promises[k].callbacks[j].since
    <2>1. CASE k # p
      BY <1>8, <1>14, <1>17, <2>1
    <2>2. CASE k = p
      <3>1. l \in 1..m /\ (j \in 1..m \/ j = m + 1)
        BY <1>8, <1>17, <2>2
      <3>2. g.promises[k].callbacks[l].since = cs[l].since
        BY <1>8, <2>2, <3>1
      <3>3. CASE j \in 1..m
        <4>1. g.promises[k].callbacks[j].since = cs[j].since
          BY <1>8, <2>2, <3>3
        <4>2. cs[l].since < cs[j].since
          BY <1>5, <1>6, <1>7, <1>14, <1>17, <3>1, <3>3
        <4> QED
          BY <3>2, <4>1, <4>2
      <3>4. CASE j = m + 1
        BY <1>8, <1>15, <2>2, <3>1, <3>2, <3>4
      <3> QED
        BY <3>1, <3>3, <3>4
    <2> QED
      BY <2>1, <2>2
  <1>18. ClockAhead(g)
    BY <1>8, <1>11, <1>12, <1>16 DEF ClockAhead
  <1>19. CallbacksInOrder(g)
    BY <1>8, <1>17 DEF CallbacksInOrder
  <1> QED
    BY <1>1, <1>2, <1>11, <1>18, <1>19 DEF HeapOK

LEMMA ThenHeap ==
  ASSUME NEW h, HeapOK(h), NEW p \in 1..Len(h.promises), NEW c
  PROVE  HeapOK(Then(h, p, c))
  BY QueuedHeap, KeptHeap

LEMMA ResolveHeap ==
  ASSUME NEW h, HeapOK(h), NEW p \in 1..Len(h.promises), NEW v
  PROVE  HeapOK(Resolve(h, p, v))
  BY SettledHeap DEF Resolve
-----------------------------------------------------------------------------
(* Every step of the clock settled a promise or attached a callback, and    *)
(* that callback waits at its promise or is a job.                          *)
Attachments(h) == UNION {{<<p, i>> : i \in DOMAIN h.promises[p].callbacks} : p \in Waiting(h)}
Settles(h) == {p \in DOMAIN h.promises : h.promises[p].settled}
Counted(h) ==
  /\ IsFiniteSet(Attachments(h)) /\ IsFiniteSet(Settles(h))
  /\ Len(Jobs(h)) + Cardinality(Attachments(h)) + Cardinality(Settles(h)) = h.clock

LEMMA CountedEach ==
  ASSUME NEW h, HeapTypeOK(h), JobsSettled(h), Counted(h)
  PROVE  EachOnce(h)
  <1>1. \A i \in 1..Len(Jobs(h)) : Jobs(h)[i].promise \in Settles(h)
    <2> SUFFICES ASSUME NEW i \in 1..Len(Jobs(h))
                 PROVE  Jobs(h)[i].promise \in Settles(h)
      OBVIOUS
    <2>1. TaskOK(h, Jobs(h)[i])
      BY JobsOf
    <2> QED
      BY <2>1, HeapLengths DEF TaskOK, JobsSettled, Settles
  <1> QED
    BY <1>1 DEF EachOnce, Counted, Attachments, Settles

AttachedIn(promises, n, x) ==
  \E p \in 1..n : \E i \in 1..Len(promises[p].callbacks) : ~promises[p].settled /\ x = <<p, i>>
LEMMA AttachmentsAre ==
  ASSUME NEW h, HeapTypeOK(h)
  PROVE  /\ \A x : x \in Attachments(h) <=> AttachedIn(h.promises, Len(h.promises), x)
         /\ \A p : p \in Settles(h) <=> p \in 1..Len(h.promises) /\ h.promises[p].settled
  <1>1. DOMAIN h.promises = 1..Len(h.promises)
    BY HeapLengths
  <1>2. \A p \in 1..Len(h.promises) : DOMAIN h.promises[p].callbacks = 1..Len(h.promises[p].callbacks)
    BY SequenceFacts DEF HeapTypeOK, PromiseOK
  <1> QED
    BY <1>1, <1>2 DEF Attachments, AttachedIn, Waiting, Settles

LEMMA CountPairs ==
  ASSUME NEW p, NEW n \in Nat
  PROVE  IsFiniteSet({<<p, i>> : i \in 1..n}) /\ Cardinality({<<p, i>> : i \in 1..n}) = n
  <1>1. PICK T : T = {<<p, i>> : i \in 1..n}
    OBVIOUS
  <1>2. PICK f : f = [i \in 1..n |-> <<p, i>>]
    OBVIOUS
  <1>3. f \in Bijection(1..n, T)
    BY <1>1, <1>2 DEF Bijection, Injection, Surjection, IsInjective
  <1>4. ExistsBijection(1..n, T)
    BY <1>3 DEF ExistsBijection
  <1>5. IsFiniteSet(1..n) /\ Cardinality(1..n) = n
    BY FS_Interval
  <1> QED
    BY <1>1, <1>4, <1>5, FS_Bijection

LEMMA NewCounted ==
  ASSUME NEW h, HeapTypeOK(h), Counted(h), NEW v
  PROVE  Counted(NewPromise(h, v))
  <1>1. PICK g : g = NewPromise(h, v)
    OBVIOUS
  <1>2. HeapTypeOK(g)
    BY <1>1, NewPromiseType
  <1>3. NewEffect(h, g, v)
    BY <1>1, NewMakes
  <1>4. PICK n \in Nat : n = Len(h.promises)
    BY HeapLengths
  <1>5. /\ Len(g.promises) = n + 1 /\ \A k \in 1..n : g.promises[k] = h.promises[k]
        /\ ~g.promises[n + 1].settled /\ Len(g.promises[n + 1].callbacks) = 0
        /\ g.clock = h.clock /\ g.ran = h.ran /\ g.microtasks = h.microtasks
    BY <1>3, <1>4 DEF NewEffect
  <1>6. \A p \in 1..(n + 1) : p \in 1..n \/ p = n + 1
    OBVIOUS
  <1>7. 1..n \subseteq 1..(n + 1)
    OBVIOUS
  <1>8. Attachments(g) = Attachments(h)
    <2>1. ASSUME NEW x
          PROVE  x \in Attachments(g) <=> x \in Attachments(h)
      <3>1. x \in Attachments(g) <=> AttachedIn(g.promises, n + 1, x)
        BY <1>2, <1>5, AttachmentsAre
      <3>2. x \in Attachments(h) <=> AttachedIn(h.promises, n, x)
        BY <1>4, AttachmentsAre
      <3> QED
        BY <1>5, <1>6, <1>7, <3>1, <3>2 DEF AttachedIn
    <2> QED
      BY <2>1
  <1>9. Settles(g) = Settles(h)
    <2>1. ASSUME NEW p
          PROVE  p \in Settles(g) <=> p \in Settles(h)
      <3>1. p \in Settles(g) <=> p \in 1..(n + 1) /\ g.promises[p].settled
        BY <1>2, <1>5, AttachmentsAre
      <3>2. p \in Settles(h) <=> p \in 1..n /\ h.promises[p].settled
        BY <1>4, AttachmentsAre
      <3> QED
        BY <1>5, <1>6, <1>7, <3>1, <3>2
    <2> QED
      BY <2>1
  <1>10. Jobs(g) = Jobs(h)
    BY <1>5 DEF Jobs
  <1> QED
    BY <1>1, <1>5, <1>8, <1>9, <1>10 DEF Counted

LEMMA SettledCounted ==
  ASSUME NEW h, HeapTypeOK(h), Counted(h), NEW p \in 1..Len(h.promises), NEW v, ~h.promises[p].settled
  PROVE  Counted(SettleAgain(h, p, v))
  <1>1. PICK g : g = SettleAgain(h, p, v)
    OBVIOUS
  <1>2. HeapTypeOK(g)
    BY <1>1, SettledType
  <1>3. SettledEffect(h, g, p, v)
    BY <1>1, SettledMakes
  <1>4. PICK n \in Nat : n = Len(h.promises)
    BY HeapLengths
  <1>5. PICK w : w = Queued(h, p)
    OBVIOUS
  <1>6. PICK m \in Nat : m = Len(h.promises[p].callbacks)
    BY QueuedFacts
  <1>7. IsSequence(w) /\ Len(w) = m
    BY <1>5, <1>6, QueuedFacts
  <1>8. /\ Len(g.promises) = n /\ g.promises[p].settled
        /\ \A k \in 1..n : g.promises[k].callbacks = h.promises[k].callbacks
        /\ \A k \in 1..n : k # p => g.promises[k] = h.promises[k]
        /\ g.clock = h.clock + 1 /\ g.ran = h.ran /\ g.microtasks = h.microtasks \o w
    BY <1>3, <1>4, <1>5 DEF SettledEffect
  <1>9. IsConcat(Jobs(g), Jobs(h), w)
    BY <1>2, <1>7, <1>8, JobsConcat
  <1>10. PICK P : P = {<<p, i>> : i \in 1..m}
    OBVIOUS
  <1>11. IsFiniteSet(P) /\ Cardinality(P) = m
    BY <1>10, CountPairs
  <1>12. Attachments(h) = Attachments(g) \cup P /\ Attachments(g) \cap P = {}
    <2>1. ASSUME NEW x
          PROVE  /\ x \in Attachments(h) <=> x \in Attachments(g) \/ x \in P
                 /\ ~(x \in Attachments(g) /\ x \in P)
      <3>1. x \in Attachments(g) <=>
              \E k \in 1..n : \E i \in 1..Len(h.promises[k].callbacks) : k # p /\ ~h.promises[k].settled /\ x = <<k, i>>
        <4>1. x \in Attachments(g) <=> AttachedIn(g.promises, n, x)
          BY <1>2, <1>8, AttachmentsAre
        <4>2. \A k \in 1..n : ~g.promises[k].settled <=> k # p /\ ~h.promises[k].settled
          BY <1>8
        <4> QED
          BY <1>8, <4>1, <4>2 DEF AttachedIn
      <3>2. x \in Attachments(h) <=> AttachedIn(h.promises, n, x)
        BY <1>4, AttachmentsAre
      <3>3. x \in P <=> \E i \in 1..Len(h.promises[p].callbacks) : x = <<p, i>>
        BY <1>6, <1>10
      <3> QED
        BY <1>4, <3>1, <3>2, <3>3 DEF AttachedIn
    <2> QED
      BY <2>1
  <1>13. Settles(g) = Settles(h) \cup {p} /\ p \notin Settles(h)
    <2>1. ASSUME NEW k
          PROVE  k \in Settles(g) <=> k \in Settles(h) \/ k = p
      <3>1. k \in Settles(g) <=> k \in 1..n /\ g.promises[k].settled
        BY <1>2, <1>8, AttachmentsAre
      <3>2. k \in Settles(h) <=> k \in 1..n /\ h.promises[k].settled
        BY <1>4, AttachmentsAre
      <3> QED
        BY <1>4, <1>8, <3>1, <3>2
    <2>2. p \notin Settles(h)
      BY AttachmentsAre
    <2> QED
      BY <2>1, <2>2
  <1>14. PICK a \in Nat : a = Cardinality(Attachments(g)) /\ IsFiniteSet(Attachments(g))
    <2>1. IsFiniteSet(Attachments(h)) /\ Attachments(g) \in SUBSET Attachments(h)
      BY <1>12 DEF Counted
    <2>2. IsFiniteSet(Attachments(g))
      BY <2>1, FS_Subset
    <2> QED
      BY <2>2, FS_CardinalityType
  <1>15. Cardinality(Attachments(h)) = a + m
    <2>1. Cardinality(Attachments(g) \cup P)
            = Cardinality(Attachments(g)) + Cardinality(P) - Cardinality(Attachments(g) \cap P)
      BY <1>11, <1>14, FS_Union
    <2>2. Cardinality(Attachments(g) \cap P) = 0
      BY <1>12, FS_EmptySet
    <2> QED
      BY <1>11, <1>12, <1>14, <2>1, <2>2
  <1>16. PICK c \in Nat : c = Cardinality(Settles(h)) /\ IsFiniteSet(Settles(h))
    BY FS_CardinalityType DEF Counted
  <1>17. Cardinality(Settles(g)) = c + 1 /\ IsFiniteSet(Settles(g))
    BY <1>13, <1>16, FS_AddElement
  <1>18. PICK j \in Nat : j = Len(Jobs(h)) /\ Len(Jobs(g)) = j + m
    BY <1>7, <1>9 DEF IsConcat
  <1>19. h.clock = j + (a + m) + c
    BY <1>15, <1>16, <1>18 DEF Counted
  <1>20. g.clock = (j + m) + a + (c + 1)
    BY <1>8, <1>19
  <1> QED
    BY <1>1, <1>14, <1>17, <1>18, <1>20 DEF Counted

LEMMA QueuedCounted ==
  ASSUME NEW h, HeapTypeOK(h), Counted(h), NEW p \in 1..Len(h.promises), NEW c, h.promises[p].settled
  PROVE  Counted(Then(h, p, c))
  <1>1. PICK g : g = Then(h, p, c)
    OBVIOUS
  <1>2. HeapTypeOK(g)
    BY <1>1, ThenQueuedType
  <1>3. QueuedEffect(h, g, p, c)
    BY <1>1, QueuedMakes
  <1>4. PICK t : t = Task(c, p, h.clock)
    OBVIOUS
  <1>5. /\ g.promises = h.promises /\ g.clock = h.clock + 1 /\ g.ran = h.ran
        /\ g.microtasks = h.microtasks \o <<t>>
    BY <1>3, <1>4 DEF QueuedEffect
  <1>6. IsSequence(<<t>>) /\ Len(<<t>>) = 1
    BY Singleton
  <1>7. IsConcat(Jobs(g), Jobs(h), <<t>>)
    BY <1>2, <1>5, <1>6, JobsConcat
  <1>8. Attachments(g) = Attachments(h) /\ Settles(g) = Settles(h)
    BY <1>5 DEF Attachments, Settles, Waiting
  <1>9. PICK a \in Nat, b \in Nat : a = Cardinality(Attachments(h)) /\ b = Cardinality(Settles(h))
    BY FS_CardinalityType DEF Counted
  <1>10. PICK j \in Nat : j = Len(Jobs(h)) /\ Len(Jobs(g)) = j + 1
    BY <1>6, <1>7 DEF IsConcat
  <1>11. h.clock = j + a + b
    BY <1>9, <1>10 DEF Counted
  <1>12. g.clock = (j + 1) + a + b
    BY <1>5, <1>11
  <1> QED
    BY <1>1, <1>8, <1>9, <1>10, <1>12 DEF Counted

LEMMA KeptCounted ==
  ASSUME NEW h, HeapTypeOK(h), Counted(h), NEW p \in 1..Len(h.promises), NEW c, ~h.promises[p].settled
  PROVE  Counted(Then(h, p, c))
  <1>1. PICK g : g = Then(h, p, c)
    OBVIOUS
  <1>2. HeapTypeOK(g)
    BY <1>1, ThenKeptType
  <1>3. KeptEffect(h, g, p, c)
    BY <1>1, KeptMakes
  <1>4. PICK n \in Nat : n = Len(h.promises)
    BY HeapLengths
  <1>5. PICK m \in Nat : m = Len(h.promises[p].callbacks)
    BY QueuedFacts
  <1>6. /\ g.clock = h.clock + 1 /\ g.ran = h.ran /\ g.microtasks = h.microtasks /\ Len(g.promises) = n
        /\ \A k \in 1..n : g.promises[k].settled = h.promises[k].settled
        /\ \A k \in 1..n : k # p => g.promises[k] = h.promises[k]
        /\ Len(g.promises[p].callbacks) = m + 1
    BY <1>3, <1>4, <1>5 DEF KeptEffect
  <1>7. Attachments(g) = Attachments(h) \cup {<<p, m + 1>>} /\ <<p, m + 1>> \notin Attachments(h)
    <2>1. ASSUME NEW x
          PROVE  /\ x \in Attachments(g) <=> x \in Attachments(h) \/ x = <<p, m + 1>>
                 /\ ~(x \in Attachments(h) /\ x = <<p, m + 1>>)
      <3>1. x \in Attachments(g) <=>
              \E k \in 1..n : \E i \in 1..Len(g.promises[k].callbacks) : ~h.promises[k].settled /\ x = <<k, i>>
        <4>1. x \in Attachments(g) <=> AttachedIn(g.promises, n, x)
          BY <1>2, <1>6, AttachmentsAre
        <4> QED
          BY <1>6, <4>1 DEF AttachedIn
      <3>2. x \in Attachments(h) <=> AttachedIn(h.promises, n, x)
        BY <1>4, AttachmentsAre
      <3>3. 1..Len(g.promises[p].callbacks) = 1..m \cup {m + 1} /\ 1..Len(h.promises[p].callbacks) = 1..m
        <4>1. 1..(m + 1) = 1..m \cup {m + 1}
          OBVIOUS
        <4> QED
          BY <1>5, <1>6, <4>1
      <3>4. \A k \in 1..n : k # p => 1..Len(g.promises[k].callbacks) = 1..Len(h.promises[k].callbacks)
        BY <1>6
      <3>5. m + 1 \notin 1..m
        OBVIOUS
      <3>6. p \in 1..n
        BY <1>4
      <3>7. x \in Attachments(h) => x \in Attachments(g)
        <4> SUFFICES ASSUME x \in Attachments(h)
                     PROVE  x \in Attachments(g)
          OBVIOUS
        <4>1. PICK k \in 1..n : \E i \in 1..Len(h.promises[k].callbacks) : ~h.promises[k].settled /\ x = <<k, i>>
          BY <3>2 DEF AttachedIn
        <4>2. PICK i \in 1..Len(h.promises[k].callbacks) : ~h.promises[k].settled /\ x = <<k, i>>
          BY <4>1
        <4>3. i \in 1..Len(g.promises[k].callbacks)
          BY <3>3, <3>4
        <4> QED
          BY <3>1, <4>2, <4>3
      <3>8. x = <<p, m + 1>> => x \in Attachments(g)
        BY <3>1, <3>3, <3>6
      <3>9. x \in Attachments(g) => x \in Attachments(h) \/ x = <<p, m + 1>>
        <4> SUFFICES ASSUME x \in Attachments(g)
                     PROVE  x \in Attachments(h) \/ x = <<p, m + 1>>
          OBVIOUS
        <4>1. PICK k \in 1..n : \E i \in 1..Len(g.promises[k].callbacks) : ~h.promises[k].settled /\ x = <<k, i>>
          BY <3>1
        <4>2. PICK i \in 1..Len(g.promises[k].callbacks) : ~h.promises[k].settled /\ x = <<k, i>>
          BY <4>1
        <4>3. i \in 1..Len(h.promises[k].callbacks) \/ (k = p /\ i = m + 1)
          BY <3>3, <3>4
        <4> QED
          BY <3>2, <4>2, <4>3 DEF AttachedIn
      <3>10. ~(x \in Attachments(h) /\ x = <<p, m + 1>>)
        BY <3>2, <3>3, <3>5 DEF AttachedIn
      <3> QED
        BY <3>7, <3>8, <3>9, <3>10
    <2> QED
      BY <2>1
  <1>8. Settles(g) = Settles(h)
    <2>1. ASSUME NEW k
          PROVE  k \in Settles(g) <=> k \in Settles(h)
      <3>1. k \in Settles(g) <=> k \in 1..n /\ g.promises[k].settled
        BY <1>2, <1>6, AttachmentsAre
      <3>2. k \in Settles(h) <=> k \in 1..n /\ h.promises[k].settled
        BY <1>4, AttachmentsAre
      <3> QED
        BY <1>6, <3>1, <3>2
    <2> QED
      BY <2>1
  <1>9. Jobs(g) = Jobs(h)
    BY <1>6 DEF Jobs
  <1>10. PICK a \in Nat, b \in Nat : a = Cardinality(Attachments(h)) /\ b = Cardinality(Settles(h))
    BY FS_CardinalityType DEF Counted
  <1>11. IsFiniteSet(Attachments(g)) /\ Cardinality(Attachments(g)) = a + 1
    <2>1. PICK A : A = Attachments(h)
      OBVIOUS
    <2>2. PICK x : x = <<p, m + 1>>
      OBVIOUS
    <2>3. IsFiniteSet(A) /\ x \notin A /\ Attachments(g) = A \cup {x}
      BY <1>7, <2>1, <2>2 DEF Counted
    <2>4. IsFiniteSet(A \cup {x}) /\ Cardinality(A \cup {x}) = Cardinality(A) + 1
      BY <2>3, FS_AddElement
    <2> QED
      BY <1>10, <2>1, <2>3, <2>4
  <1>12. PICK j \in Nat : j = Len(Jobs(h))
    BY JobsOf, SequenceFacts
  <1>13. h.clock = j + a + b
    BY <1>10, <1>12 DEF Counted
  <1>14. g.clock = j + (a + 1) + b
    BY <1>6, <1>13
  <1> QED
    BY <1>1, <1>8, <1>9, <1>10, <1>11, <1>12, <1>14 DEF Counted

LEMMA ThenCounted ==
  ASSUME NEW h, HeapTypeOK(h), Counted(h), NEW p \in 1..Len(h.promises), NEW c
  PROVE  Counted(Then(h, p, c))
  BY QueuedCounted, KeptCounted

LEMMA ResolveCounted ==
  ASSUME NEW h, HeapTypeOK(h), Counted(h), NEW p \in 1..Len(h.promises), NEW v
  PROVE  Counted(Resolve(h, p, v))
  BY SettledCounted DEF Resolve
-----------------------------------------------------------------------------
(* What is due: what an operation adds to it and takes from it. *)
Has(s, t) == \E k \in 1..Len(s) : t = s[k]
CalledBack(promises, p, t) ==
  \E k \in 1..Len(promises[p].callbacks) : t = Task(promises[p].callbacks[k].run, p, promises[p].callbacks[k].since)
DueIn(promises, n, queue, t) ==
  Has(queue, t) \/ \E p \in 1..n : ~promises[p].settled /\ CalledBack(promises, p, t)
LEMMA DueAre ==
  ASSUME NEW h, HeapTypeOK(h), NEW t
  PROVE  t \in Due(h) <=> DueIn(h.promises, Len(h.promises), h.microtasks, t)
  <1>1. DOMAIN h.promises = 1..Len(h.promises) /\ DOMAIN h.microtasks = 1..Len(h.microtasks)
    BY HeapLengths
  <1>2. t \in ToSet(h.microtasks) <=> Has(h.microtasks, t)
    BY <1>1 DEF ToSet, Has
  <1>3. ASSUME NEW p \in 1..Len(h.promises)
        PROVE  t \in ToSet(Queued(h, p)) <=> CalledBack(h.promises, p, t)
    <2>1. PICK w : w = Queued(h, p)
      OBVIOUS
    <2>2. PICK cs : cs = h.promises[p].callbacks
      OBVIOUS
    <2>3. DOMAIN w = 1..Len(cs) /\ \A k \in 1..Len(cs) : w[k] = Task(cs[k].run, p, cs[k].since)
      BY <2>1, <2>2 DEF Queued
    <2>4. t \in ToSet(w) <=> \E k \in 1..Len(cs) : t = Task(cs[k].run, p, cs[k].since)
      BY <2>3 DEF ToSet
    <2> QED
      BY <2>1, <2>2, <2>4 DEF CalledBack
  <1>4. Waiting(h) = {p \in 1..Len(h.promises) : ~h.promises[p].settled}
    BY <1>1 DEF Waiting
  <1>5. t \in UNION {ToSet(Queued(h, p)) : p \in Waiting(h)}
          <=> \E p \in 1..Len(h.promises) : ~h.promises[p].settled /\ t \in ToSet(Queued(h, p))
    BY <1>4
  <1>6. t \in UNION {ToSet(Queued(h, p)) : p \in Waiting(h)}
          <=> \E p \in 1..Len(h.promises) : ~h.promises[p].settled /\ CalledBack(h.promises, p, t)
    BY <1>3, <1>5
  <1>7. t \in Due(h) <=> t \in UNION {ToSet(Queued(h, p)) : p \in Waiting(h)} \/ t \in ToSet(h.microtasks)
    BY DEF Due
  <1> QED
    BY <1>2, <1>6, <1>7 DEF DueIn

LEMMA DueTasks ==
  ASSUME NEW h, HeapOK(h), NEW t \in Due(h)
  PROVE  /\ TaskOK(h, t) /\ t.since < h.clock
         /\ h.promises[t.promise].settled => Has(h.microtasks, t)
         /\ ~h.promises[t.promise].settled => CalledBack(h.promises, t.promise, t)
  <1>1. HeapTypeOK(h)
    BY DEF HeapOK
  <1>2. DueIn(h.promises, Len(h.promises), h.microtasks, t)
    BY <1>1, DueAre
  <1>3. PICK r \in Nat, m \in Nat : r = Len(h.ran) /\ m = Len(h.microtasks)
    BY <1>1, HeapLengths
  <1>4. ASSUME NEW k \in 1..m
        PROVE  /\ TaskOK(h, h.microtasks[k]) /\ h.microtasks[k].since < h.clock
               /\ h.promises[h.microtasks[k].promise].settled
    <2>1. /\ IsConcat(Jobs(h), h.ran, h.microtasks)
          /\ \A i \in 1..Len(Jobs(h)) : TaskOK(h, Jobs(h)[i])
      BY <1>1, JobsOf
    <2>2. Jobs(h)[r + k] = h.microtasks[k] /\ Len(Jobs(h)) = r + m
      BY <1>3, <2>1 DEF IsConcat
    <2>3. r + k \in 1..(r + m)
      OBVIOUS
    <2>4. PICK i \in 1..Len(Jobs(h)) : Jobs(h)[i] = h.microtasks[k]
      BY <2>2, <2>3
    <2> QED
      BY <2>1, <2>4 DEF HeapOK, ClockAhead, JobsSettled
  <1>5. CASE Has(h.microtasks, t)
    <2>1. PICK k \in 1..m : t = h.microtasks[k]
      BY <1>3, <1>5 DEF Has
    <2> QED
      BY <1>4, <1>5, <2>1
  <1>6. CASE \E p \in 1..Len(h.promises) : ~h.promises[p].settled /\ CalledBack(h.promises, p, t)
    <2>1. PICK p \in 1..Len(h.promises) : ~h.promises[p].settled /\ CalledBack(h.promises, p, t)
      BY <1>6
    <2>2. PICK k \in 1..Len(h.promises[p].callbacks) :
               t = Task(h.promises[p].callbacks[k].run, p, h.promises[p].callbacks[k].since)
      BY <2>1 DEF CalledBack
    <2>3. PICK c : c = h.promises[p].callbacks[k].run
      OBVIOUS
    <2>4. PICK since : since = h.promises[p].callbacks[k].since
      OBVIOUS
    <2>5. since \in Nat
      BY <1>1, <2>4 DEF HeapTypeOK, PromiseOK
    <2>6. since < h.clock
      BY <2>4 DEF HeapOK, ClockAhead
    <2>7. t = Task(c, p, since)
      BY <2>2, <2>3, <2>4
    <2>8. t.promise = p /\ t.since = since
      BY <2>7, TaskParts
    <2>9. TaskOK(h, t)
      BY <2>5, <2>7 DEF TaskOK, Task
    <2> QED
      BY <2>1, <2>6, <2>8, <2>9
  <1> QED
    BY <1>2, <1>5, <1>6 DEF DueIn

LEMMA NewDue ==
  ASSUME NEW h, HeapTypeOK(h), NEW v
  PROVE  Due(NewPromise(h, v)) = Due(h)
  <1>1. PICK g : g = NewPromise(h, v)
    OBVIOUS
  <1>2. HeapTypeOK(g) /\ NewEffect(h, g, v)
    BY <1>1, NewPromiseType, NewMakes
  <1>3. PICK n \in Nat : n = Len(h.promises)
    BY HeapLengths
  <1>4. /\ Len(g.promises) = n + 1 /\ \A k \in 1..n : g.promises[k] = h.promises[k]
        /\ Len(g.promises[n + 1].callbacks) = 0 /\ g.microtasks = h.microtasks
    BY <1>2, <1>3 DEF NewEffect
  <1>5. 1..(n + 1) = 1..n \cup {n + 1}
    OBVIOUS
  <1>6. ASSUME NEW t
        PROVE  t \in Due(g) <=> t \in Due(h)
    <2>1. t \in Due(g) <=> DueIn(g.promises, n + 1, h.microtasks, t)
      BY <1>2, <1>4, DueAre
    <2>2. t \in Due(h) <=> DueIn(h.promises, n, h.microtasks, t)
      BY <1>3, DueAre
    <2>3. ~CalledBack(g.promises, n + 1, t)
      BY <1>4 DEF CalledBack
    <2>4. \A p \in 1..n : CalledBack(g.promises, p, t) <=> CalledBack(h.promises, p, t)
      BY <1>4 DEF CalledBack
    <2> QED
      BY <1>4, <1>5, <2>1, <2>2, <2>3, <2>4 DEF DueIn
  <1> QED
    BY <1>1, <1>6

LEMMA ConcatHas ==
  ASSUME NEW c, NEW s, NEW w, IsConcat(c, s, w), NEW t
  PROVE  Has(c, t) <=> Has(s, t) \/ Has(w, t)
  <1>1. PICK m \in Nat, n \in Nat : m = Len(s) /\ n = Len(w)
    BY DEF IsConcat
  <1>2. Len(c) = m + n
    BY <1>1 DEF IsConcat
  <1>3. \A k \in 1..(m + n) : \/ k \in 1..m /\ c[k] = s[k]
                              \/ k - m \in 1..n /\ c[k] = w[k - m]
    BY <1>1, <1>2 DEF IsConcat
  <1>4. /\ \A k \in 1..m : c[k] = s[k]
        /\ \A k \in 1..n : c[m + k] = w[k]
    BY <1>1 DEF IsConcat
  <1>5. (\A k \in 1..m : k \in 1..(m + n)) /\ \A k \in 1..n : m + k \in 1..(m + n)
    OBVIOUS
  <1>6. Has(c, t) => Has(s, t) \/ Has(w, t)
    BY <1>1, <1>2, <1>3 DEF Has
  <1>7. Has(s, t) => Has(c, t)
    BY <1>1, <1>2, <1>4, <1>5 DEF Has
  <1>8. Has(w, t) => Has(c, t)
    BY <1>1, <1>2, <1>4, <1>5 DEF Has
  <1> QED
    BY <1>6, <1>7, <1>8

LEMMA SettledDue ==
  ASSUME NEW h, HeapTypeOK(h), NEW p \in 1..Len(h.promises), NEW v, ~h.promises[p].settled
  PROVE  Due(SettleAgain(h, p, v)) = Due(h)
  <1>1. PICK g : g = SettleAgain(h, p, v)
    OBVIOUS
  <1>2. HeapTypeOK(g) /\ SettledEffect(h, g, p, v)
    BY <1>1, SettledType, SettledMakes
  <1>3. PICK n : n = Len(h.promises)
    OBVIOUS
  <1>4. PICK w : w = Queued(h, p)
    OBVIOUS
  <1>5. /\ Len(g.promises) = n /\ g.promises[p].settled
        /\ \A k \in 1..n : g.promises[k].callbacks = h.promises[k].callbacks
        /\ \A k \in 1..n : k # p => g.promises[k] = h.promises[k]
        /\ IsConcat(g.microtasks, h.microtasks, w)
    BY <1>2, <1>3, <1>4 DEF SettledEffect
  <1>6. /\ Len(w) = Len(h.promises[p].callbacks)
        /\ \A k \in 1..Len(w) : w[k] = Task(h.promises[p].callbacks[k].run, p, h.promises[p].callbacks[k].since)
    BY <1>4, QueuedFacts
  <1>7. ASSUME NEW t
        PROVE  t \in Due(g) <=> t \in Due(h)
    <2>1. t \in Due(g) <=> DueIn(g.promises, n, g.microtasks, t)
      BY <1>2, <1>5, DueAre
    <2>2. t \in Due(h) <=> DueIn(h.promises, n, h.microtasks, t)
      BY <1>3, DueAre
    <2>3. Has(g.microtasks, t) <=> Has(h.microtasks, t) \/ Has(w, t)
      <3>1. PICK c : c = g.microtasks
        OBVIOUS
      <3>2. PICK s : s = h.microtasks
        OBVIOUS
      <3>3. IsConcat(c, s, w)
        BY <1>5, <3>1, <3>2
      <3>4. Has(c, t) <=> Has(s, t) \/ Has(w, t)
        BY <3>3, ConcatHas
      <3> QED
        BY <3>1, <3>2, <3>4
    <2>4. Has(w, t) <=> CalledBack(h.promises, p, t)
      BY <1>6 DEF Has, CalledBack
    <2>5. \A q \in 1..n : CalledBack(g.promises, q, t) <=> CalledBack(h.promises, q, t)
      BY <1>5 DEF CalledBack
    <2>6. \A q \in 1..n : ~g.promises[q].settled <=> q # p /\ ~h.promises[q].settled
      BY <1>5
    <2>7. p \in 1..n
      BY <1>3
    <2> QED
      BY <2>1, <2>2, <2>3, <2>4, <2>5, <2>6, <2>7 DEF DueIn
  <1> QED
    BY <1>1, <1>7

LEMMA ThenDue ==
  ASSUME NEW h, HeapOK(h), NEW p \in 1..Len(h.promises), NEW c
  PROVE  /\ Due(Then(h, p, c)) = Due(h) \cup {Task(c, p, h.clock)}
         /\ Task(c, p, h.clock) \notin Due(h)
  <1>1. PICK g : g = Then(h, p, c)
    OBVIOUS
  <1>2. PICK u : u = Task(c, p, h.clock)
    OBVIOUS
  <1>3. HeapTypeOK(h)
    BY DEF HeapOK
  <1>4. HeapTypeOK(g)
    BY <1>1, ThenHeap DEF HeapOK
  <1>5. ASSUME h.promises[p].settled
        PROVE  Due(g) = Due(h) \cup {u}
    <2>1. QueuedEffect(h, g, p, c)
      BY <1>1, <1>3, <1>5, QueuedMakes
    <2>2. g.promises = h.promises /\ IsConcat(g.microtasks, h.microtasks, <<u>>)
      BY <1>2, <2>1 DEF QueuedEffect
    <2>3. ASSUME NEW t
          PROVE  t \in Due(g) <=> t \in Due(h) \/ t = u
      <3>1. t \in Due(g) <=> DueIn(h.promises, Len(h.promises), g.microtasks, t)
        BY <1>4, <2>2, DueAre
      <3>2. t \in Due(h) <=> DueIn(h.promises, Len(h.promises), h.microtasks, t)
        BY <1>3, DueAre
      <3>3. PICK w : w = <<u>>
        OBVIOUS
      <3>4. PICK q : q = g.microtasks
        OBVIOUS
      <3>5. PICK s : s = h.microtasks
        OBVIOUS
      <3>6. IsConcat(q, s, w)
        BY <2>2, <3>3, <3>4, <3>5
      <3>7. Has(q, t) <=> Has(s, t) \/ Has(w, t)
        BY <3>6, ConcatHas
      <3>8. Len(w) = 1 /\ w[1] = u
        BY <3>3, Singleton
      <3>9. Has(w, t) <=> t = u
        BY <3>8 DEF Has
      <3> QED
        BY <3>1, <3>2, <3>4, <3>5, <3>7, <3>9 DEF DueIn
    <2>4. Due(g) = Due(h) \cup {u}
      BY <2>3
    <2> QED
      BY <2>4
  <1>6. ASSUME ~h.promises[p].settled
        PROVE  Due(g) = Due(h) \cup {u}
    <2>1. KeptEffect(h, g, p, c)
      BY <1>1, <1>3, <1>6, KeptMakes
    <2>2. PICK m \in Nat : m = Len(h.promises[p].callbacks)
      BY <1>3, QueuedFacts
    <2>3. PICK n : n = Len(h.promises)
      OBVIOUS
    <2>4. PICK clock : clock = h.clock
      OBVIOUS
    <2>5. /\ Len(g.promises) = n /\ g.microtasks = h.microtasks
          /\ \A k \in 1..n : g.promises[k].settled = h.promises[k].settled
          /\ \A k \in 1..n : k # p => g.promises[k] = h.promises[k]
          /\ Len(g.promises[p].callbacks) = m + 1
          /\ \A k \in 1..m : g.promises[p].callbacks[k] = h.promises[p].callbacks[k]
          /\ g.promises[p].callbacks[m + 1] = [run |-> c, since |-> clock]
      BY <2>1, <2>2, <2>3, <2>4 DEF KeptEffect
    <2>6. ASSUME NEW t
          PROVE  t \in Due(g) <=> t \in Due(h) \/ t = u
      <3>1. t \in Due(g) <=> DueIn(g.promises, n, h.microtasks, t)
        BY <1>4, <2>5, DueAre
      <3>2. t \in Due(h) <=> DueIn(h.promises, n, h.microtasks, t)
        BY <1>3, <2>3, DueAre
      <3>3. 1..(m + 1) = 1..m \cup {m + 1}
        OBVIOUS
      <3>4. g.promises[p].callbacks[m + 1].run = c /\ g.promises[p].callbacks[m + 1].since = clock
        BY <2>5
      <3>5. CalledBack(g.promises, p, t) <=> CalledBack(h.promises, p, t) \/ t = u
        BY <1>2, <2>2, <2>4, <2>5, <3>3, <3>4 DEF CalledBack
      <3>6. \A q \in 1..n : q # p => (CalledBack(g.promises, q, t) <=> CalledBack(h.promises, q, t))
        BY <2>5 DEF CalledBack
      <3>7. p \in 1..n /\ ~g.promises[p].settled
        BY <1>6, <2>3, <2>5
      <3> QED
        BY <1>6, <2>5, <3>1, <3>2, <3>5, <3>6, <3>7 DEF DueIn
    <2>7. Due(g) = Due(h) \cup {u}
      BY <2>6
    <2> QED
      BY <2>7
  <1>7. u \notin Due(h)
    <2> SUFFICES ASSUME u \in Due(h)
                 PROVE  FALSE
      OBVIOUS
    <2>1. u.since < h.clock
      BY DueTasks
    <2>2. u.since = h.clock /\ h.clock \in Nat
      BY <1>2, <1>3, TaskParts, HeapLengths
    <2> QED
      BY <2>1, <2>2
  <1>8. Due(g) = Due(h) \cup {u}
    BY <1>5, <1>6
  <1> QED
    BY <1>1, <1>2, <1>7, <1>8
-----------------------------------------------------------------------------
Orderly(h) == HeapOK(h) /\ Counted(h)

LEMMA ThenOrderly ==
  ASSUME NEW h, Orderly(h), NEW p \in 1..Len(h.promises), NEW c
  PROVE  Orderly(Then(h, p, c))
  BY ThenHeap, ThenCounted DEF Orderly, HeapOK

LEMMA ResolveOrderly ==
  ASSUME NEW h, Orderly(h), NEW p \in 1..Len(h.promises), NEW v
  PROVE  Orderly(Resolve(h, p, v)) /\ Due(Resolve(h, p, v)) = Due(h)
  <1>1. HeapTypeOK(h) /\ HeapOK(h) /\ Counted(h)
    BY DEF Orderly, HeapOK
  <1>2. Orderly(Resolve(h, p, v))
    BY <1>1, ResolveHeap, ResolveCounted DEF Orderly
  <1>3. Due(Resolve(h, p, v)) = Due(h)
    BY <1>1, SettledDue DEF Resolve
  <1> QED
    BY <1>2, <1>3

LEMMA NewOrderly ==
  ASSUME NEW h, Orderly(h), NEW v
  PROVE  Orderly(NewPromise(h, v)) /\ Due(NewPromise(h, v)) = Due(h)
  BY NewPromiseHeap, NewCounted, NewDue DEF Orderly, HeapOK

(* Taking a task off the queue. *)
LEMMA TakenSame ==
  ASSUME NEW h, HeapTypeOK(h), h.microtasks # <<>>
  PROVE  /\ Taken(h).promises = h.promises /\ Taken(h).alls = h.alls /\ Taken(h).clock = h.clock
         /\ Taken(h).microtasks = Tail(h.microtasks)
         /\ Jobs(Taken(h)) = Jobs(h) /\ HeapTypeOK(Taken(h))
  <1>1. PICK g : g = Taken(h)
    OBVIOUS
  <1>2. PICK queue : queue = h.microtasks
    OBVIOUS
  <1>3. PICK ran : ran = h.ran
    OBVIOUS
  <1>4. PICK t : t = queue[1]
    OBVIOUS
  <1>5. PICK q : q = Tail(queue)
    OBVIOUS
  <1>6. PICK r : r = Append(ran, t)
    OBVIOUS
  <1>7. Parts(g, h.promises, h.alls, q, h.clock, r)
    BY <1>1, <1>2, <1>3, <1>4, <1>5, <1>6, TakenParts DEF NextTask
  <1>8. /\ g.promises = h.promises /\ g.alls = h.alls /\ g.microtasks = q /\ g.clock = h.clock /\ g.ran = r
        /\ Parts(g, g.promises, g.alls, g.microtasks, g.clock, g.ran)
    BY <1>7, PartsOf
  <1>9. IsSequence(queue) /\ IsSequence(ran) /\ queue # <<>>
    BY <1>2, <1>3, HeapLengths
  <1>10. r \o q = ran \o queue
    <2>1. PICK S : S = {queue[i] : i \in DOMAIN queue} \cup {ran[i] : i \in DOMAIN ran}
      OBVIOUS
    <2>2. queue \in Seq(S) /\ ran \in Seq(S)
      BY <1>9, <2>1, SequenceFacts DEF IsSequence
    <2> QED
      BY <1>4, <1>5, <1>6, <1>9, <2>2
  <1>11. Jobs(g) = Jobs(h)
    BY <1>2, <1>3, <1>8, <1>10 DEF Jobs
  <1>12. /\ IsSequence(q) /\ Len(q) = Len(queue) - 1 /\ Len(queue) \in Nat /\ Len(queue) > 0
         /\ \A i \in 1..Len(queue) - 1 : q[i] = queue[i + 1]
    BY <1>5, <1>9, TailFacts
  <1>13. /\ IsSequence(r) /\ Len(r) = Len(ran) + 1 /\ Len(ran) \in Nat
         /\ \A i \in 1..Len(ran) : r[i] = ran[i]
         /\ r[Len(ran) + 1] = t
    BY <1>6, <1>9, AppendFacts
  <1>14. (\A k \in 1..Len(queue) : TaskOK(h, queue[k])) /\ \A k \in 1..Len(ran) : TaskOK(h, ran[k])
    BY <1>2, <1>3 DEF HeapTypeOK
  <1>15. \A u : TaskOK(h, u) => TaskOK(g, u)
    BY <1>8 DEF TaskOK
  <1>16. \A k \in 1..Len(q) : TaskOK(g, q[k])
    <2> SUFFICES ASSUME NEW k \in 1..Len(q)
                 PROVE  TaskOK(g, q[k])
      OBVIOUS
    <2>1. k \in 1..Len(queue) - 1 /\ k + 1 \in 1..Len(queue)
      BY <1>12
    <2> QED
      BY <1>12, <1>14, <1>15, <2>1
  <1>17. \A k \in 1..Len(r) : TaskOK(g, r[k])
    <2> SUFFICES ASSUME NEW k \in 1..Len(r)
                 PROVE  TaskOK(g, r[k])
      OBVIOUS
    <2>1. k \in 1..Len(ran) \/ k = Len(ran) + 1
      BY <1>13
    <2>2. TaskOK(h, t)
      BY <1>4, <1>12, <1>14
    <2> QED
      BY <1>13, <1>14, <1>15, <2>1, <2>2
  <1>18. \A all : AllOK(h, all) => AllOK(g, all)
    BY <1>8 DEF AllOK
  <1>19. HeapTypeOK(g)
    <2>1. /\ IsSequence(g.promises) /\ \A p \in 1..Len(g.promises) : PromiseOK(g.promises[p])
          /\ IsSequence(g.alls) /\ \A a \in 1..Len(g.alls) : AllOK(g, g.alls[a])
          /\ g.clock \in Nat
      BY <1>8, <1>18 DEF HeapTypeOK
    <2>2. g = [promises |-> g.promises, alls |-> g.alls, microtasks |-> g.microtasks, clock |-> g.clock, ran |-> g.ran]
      BY <1>8 DEF Parts
    <2> QED
      BY <1>8, <1>12, <1>13, <1>16, <1>17, <2>1, <2>2 DEF HeapTypeOK
  <1> QED
    BY <1>1, <1>2, <1>5, <1>8, <1>11, <1>19

LEMMA TakenOrderly ==
  ASSUME NEW h, Orderly(h), h.microtasks # <<>>
  PROVE  /\ Orderly(Taken(h))
         /\ NextTask(h) \in Due(h) /\ Due(Taken(h)) = Due(h) \ {NextTask(h)}
         /\ TaskOK(h, NextTask(h)) /\ h.promises[NextTask(h).promise].settled
  <1>1. PICK g : g = Taken(h)
    OBVIOUS
  <1>2. PICK t : t = NextTask(h)
    OBVIOUS
  <1>3. HeapTypeOK(h) /\ HeapOK(h) /\ Counted(h)
    BY DEF Orderly, HeapOK
  <1>4. PICK queue : queue = h.microtasks
    OBVIOUS
  <1>5. PICK q : q = Tail(queue)
    OBVIOUS
  <1>6. /\ g.promises = h.promises /\ g.alls = h.alls /\ g.clock = h.clock /\ g.microtasks = q
        /\ Jobs(g) = Jobs(h) /\ HeapTypeOK(g)
    BY <1>1, <1>3, <1>4, <1>5, TakenSame
  <1>7. Orderly(g)
    <2>1. ClockAhead(g)
      BY <1>3, <1>6 DEF HeapOK, ClockAhead
    <2>2. CallbacksInOrder(g)
      BY <1>3, <1>6 DEF HeapOK, CallbacksInOrder
    <2>3. JobsSettled(g)
      BY <1>3, <1>6 DEF HeapOK, JobsSettled
    <2>4. InOrder(g)
      BY <1>3, <1>6 DEF HeapOK, InOrder, Before, ReadyAt
    <2>5. Counted(g)
      BY <1>3, <1>6 DEF Counted, Attachments, Settles, Waiting
    <2> QED
      BY <1>6, <2>1, <2>2, <2>3, <2>4, <2>5 DEF Orderly, HeapOK
  <1>8. PICK m \in Nat : m = Len(queue)
    BY <1>3, <1>4, HeapLengths
  <1>9. m > 0 /\ Len(q) = m - 1 /\ \A i \in 1..m - 1 : q[i] = queue[i + 1]
    <2>1. IsSequence(queue) /\ queue # <<>>
      BY <1>3, <1>4, HeapLengths
    <2> QED
      BY <1>5, <1>8, <2>1, TailFacts
  <1>10. t = queue[1] /\ 1 \in 1..m
    BY <1>2, <1>4, <1>8, <1>9 DEF NextTask
  <1>11. TaskOK(h, t)
    BY <1>3, <1>4, <1>8, <1>10 DEF HeapTypeOK
  <1>12. Has(queue, t)
    BY <1>8, <1>10 DEF Has
  <1>13. t \in Due(h)
    BY <1>3, <1>4, <1>12, DueAre DEF DueIn
  <1>14. /\ IsConcat(Jobs(h), h.ran, queue) /\ \A i \in 1..Len(Jobs(h)) : TaskOK(h, Jobs(h)[i])
    BY <1>3, <1>4, JobsOf
  <1>15. PICK r \in Nat : r = Len(h.ran)
    BY <1>3, HeapLengths
  <1>16. Len(Jobs(h)) = r + m /\ \A k \in 1..m : Jobs(h)[r + k] = queue[k]
    BY <1>8, <1>14, <1>15 DEF IsConcat
  <1>17. h.promises[t.promise].settled
    <2>1. r + 1 \in 1..(r + m)
      BY <1>9
    <2> QED
      BY <1>3, <1>10, <1>16, <2>1 DEF HeapOK, JobsSettled
  <1>18. ~Has(q, t)
    <2> SUFFICES ASSUME Has(q, t)
                 PROVE  FALSE
      OBVIOUS
    <2>1. PICK k \in 1..m - 1 : t = q[k]
      BY <1>9 DEF Has
    <2>2. t = queue[k + 1] /\ k + 1 \in 1..m
      BY <1>8, <1>9, <2>1
    <2>3. Jobs(h)[r + 1] = t /\ Jobs(h)[r + (k + 1)] = t
      BY <1>10, <1>16, <2>2
    <2>4. r + 1 \in 1..(r + m) /\ r + (k + 1) \in 1..(r + m) /\ r + 1 < r + (k + 1)
      BY <1>9, <2>2
    <2>5. Before(h, t, t)
      BY <1>3, <1>16, <2>3, <2>4 DEF HeapOK, InOrder
    <2>6. t.since \in Nat /\ h.promises[t.promise].settledAt \in Nat
      BY <1>3, <1>11 DEF TaskOK, HeapTypeOK, PromiseOK
    <2>7. ReadyAt(h, t) \in Nat
      BY <2>6 DEF ReadyAt
    <2> QED
      BY <2>5, <2>6, <2>7 DEF Before
  <1>19. ASSUME NEW u
         PROVE  u \in Due(g) <=> u \in Due(h) /\ u # t
    <2>1. u \in Due(g) <=> DueIn(h.promises, Len(h.promises), q, u)
      BY <1>6, DueAre
    <2>2. u \in Due(h) <=> DueIn(h.promises, Len(h.promises), queue, u)
      BY <1>3, <1>4, DueAre
    <2>3. Has(queue, u) <=> u = t \/ Has(q, u)
      <3>1. \A k \in 1..m : k = 1 \/ (k - 1 \in 1..m - 1 /\ queue[k] = q[k - 1])
        BY <1>9
      <3>2. \A k \in 1..m - 1 : k + 1 \in 1..m
        BY <1>9
      <3>3. ASSUME Has(queue, u) PROVE u = t \/ Has(q, u)
        <4>1. PICK k \in 1..m : u = queue[k]
          BY <1>8, <3>3 DEF Has
        <4>2. CASE k = 1
          BY <1>10, <4>1, <4>2
        <4>3. CASE k - 1 \in 1..m - 1 /\ queue[k] = q[k - 1]
          BY <1>9, <4>1, <4>3 DEF Has
        <4> QED
          BY <3>1, <4>2, <4>3
      <3>4. ASSUME Has(q, u) PROVE Has(queue, u)
        <4>1. PICK k \in 1..m - 1 : u = q[k]
          BY <1>9, <3>4 DEF Has
        <4>2. u = queue[k + 1] /\ k + 1 \in 1..m
          BY <1>9, <3>2, <4>1
        <4> QED
          BY <1>8, <4>2 DEF Has
      <3> QED
        BY <1>12, <3>3, <3>4
    <2>4. \A p \in 1..Len(h.promises) : ~h.promises[p].settled => ~CalledBack(h.promises, p, t)
      <3>1. ASSUME NEW p \in 1..Len(h.promises), ~h.promises[p].settled, CalledBack(h.promises, p, t)
            PROVE  FALSE
        <4>1. t.promise = p
          BY <3>1, TaskParts DEF CalledBack
        <4> QED
          BY <1>17, <3>1, <4>1
      <3> QED
        BY <3>1
    <2> QED
      BY <1>18, <2>1, <2>2, <2>3, <2>4 DEF DueIn
  <1>20. Due(g) = Due(h) \ {t}
    BY <1>19
  <1> QED
    BY <1>1, <1>2, <1>7, <1>11, <1>13, <1>17, <1>20

(* The calls of Promise.all do not matter to the queue. *)
LEMMA OtherAlls ==
  ASSUME NEW h, Orderly(h), NEW g, NEW alls, Parts(g, h.promises, alls, h.microtasks, h.clock, h.ran),
         IsSequence(alls), \A a \in 1..Len(alls) : AllOK(h, alls[a])
  PROVE  Orderly(g) /\ Due(g) = Due(h)
  <1>1. g.promises = h.promises /\ g.alls = alls /\ g.microtasks = h.microtasks /\ g.clock = h.clock /\ g.ran = h.ran
        /\ Parts(g, g.promises, g.alls, g.microtasks, g.clock, g.ran)
    BY PartsOf
  <1>2. HeapTypeOK(h) /\ HeapOK(h) /\ Counted(h)
    BY DEF Orderly, HeapOK
  <1>3. (\A t : TaskOK(h, t) => TaskOK(g, t)) /\ \A all : AllOK(h, all) => AllOK(g, all)
    BY <1>1 DEF TaskOK, AllOK
  <1>4. HeapTypeOK(g)
    <2>1. /\ IsSequence(g.promises) /\ \A p \in 1..Len(g.promises) : PromiseOK(g.promises[p])
          /\ IsSequence(g.microtasks) /\ \A k \in 1..Len(g.microtasks) : TaskOK(g, g.microtasks[k])
          /\ IsSequence(g.ran) /\ \A k \in 1..Len(g.ran) : TaskOK(g, g.ran[k])
          /\ g.clock \in Nat
      BY <1>1, <1>2, <1>3 DEF HeapTypeOK
    <2>2. g = [promises |-> g.promises, alls |-> g.alls, microtasks |-> g.microtasks, clock |-> g.clock, ran |-> g.ran]
      BY <1>1 DEF Parts
    <2>3. IsSequence(g.alls) /\ \A a \in 1..Len(g.alls) : AllOK(g, g.alls[a])
      BY <1>1, <1>3
    <2> QED
      BY <2>1, <2>2, <2>3 DEF HeapTypeOK
  <1>5. Jobs(g) = Jobs(h)
    BY <1>1 DEF Jobs
  <1>6. ClockAhead(g)
    BY <1>1, <1>2, <1>5 DEF HeapOK, ClockAhead
  <1>7. CallbacksInOrder(g)
    BY <1>1, <1>2, <1>5 DEF HeapOK, CallbacksInOrder
  <1>8. JobsSettled(g)
    BY <1>1, <1>2, <1>5 DEF HeapOK, JobsSettled
  <1>9. InOrder(g)
    BY <1>1, <1>2, <1>5 DEF HeapOK, InOrder, Before, ReadyAt
  <1>10. Counted(g)
    BY <1>1, <1>2, <1>5 DEF Counted, Attachments, Settles, Waiting
  <1>11. Due(g) = Due(h)
    BY <1>1 DEF Due, Queued, Waiting
  <1> QED
    BY <1>4, <1>6, <1>7, <1>8, <1>9, <1>10, <1>11 DEF Orderly, HeapOK
-----------------------------------------------------------------------------
(* Waiting for many. *)
SamePromises(h, g) ==
  /\ Len(g.promises) = Len(h.promises)
  /\ \A p \in 1..Len(h.promises) :
       g.promises[p].settled = h.promises[p].settled /\ g.promises[p].value = h.promises[p].value

LEMMA ThenSame ==
  ASSUME NEW h, HeapTypeOK(h), NEW p \in 1..Len(h.promises), NEW c
  PROVE  SamePromises(h, Then(h, p, c)) /\ Then(h, p, c).alls = h.alls /\ Then(h, p, c).clock = h.clock + 1
  <1>1. CASE h.promises[p].settled
    BY <1>1, QueuedMakes DEF QueuedEffect, SamePromises
  <1>2. CASE ~h.promises[p].settled
    <2>1. PICK g : g = Then(h, p, c)
      OBVIOUS
    <2>2. KeptEffect(h, g, p, c)
      BY <1>2, <2>1, KeptMakes
    <2>3. /\ Len(g.promises) = Len(h.promises) /\ g.alls = h.alls /\ g.clock = h.clock + 1
          /\ \A k \in 1..Len(h.promises) :
               g.promises[k].settled = h.promises[k].settled /\ g.promises[k].value = h.promises[k].value
      BY <2>2 DEF KeptEffect
    <2> QED
      BY <2>1, <2>3 DEF SamePromises
  <1> QED
    BY <1>1, <1>2

GatheredEffect(h, g, ps) ==
  /\ Len(g.promises) = Len(h.promises) + 1
  /\ \A p \in 1..Len(h.promises) : g.promises[p] = h.promises[p]
  /\ ~g.promises[Len(h.promises) + 1].settled
  /\ Len(g.alls) = Len(h.alls) + 1
  /\ \A a \in 1..Len(h.alls) : g.alls[a] = h.alls[a]
  /\ g.alls[Len(h.alls) + 1] = NewAll(h, ps)
  /\ g.clock = h.clock
LEMMA GatheringOrderly ==
  ASSUME NEW h, Orderly(h), NEW ps \in Seq(1..Len(h.promises))
  PROVE  Orderly(Gathering(h, ps)) /\ Due(Gathering(h, ps)) = Due(h) /\ GatheredEffect(h, Gathering(h, ps), ps)
  <1>1. PICK g : g = Gathering(h, ps)
    OBVIOUS
  <1>2. PICK v : v = <<"list", [i \in 1..Len(ps) |-> Unset]>>
    OBVIOUS
  <1>3. PICK made : made = NewPromise(h, v)
    OBVIOUS
  <1>4. PICK all : all = NewAll(h, ps)
    OBVIOUS
  <1>5. PICK alls : alls = Append(h.alls, all)
    OBVIOUS
  <1>6. PICK s : s = Append(h.promises, Pending(v))
    OBVIOUS
  <1>7. HeapTypeOK(h)
    BY DEF Orderly, HeapOK
  <1>8. Orderly(made) /\ Due(made) = Due(h)
    BY <1>3, NewOrderly
  <1>9. Parts(g, s, alls, h.microtasks, h.clock, h.ran)
    BY <1>1, <1>2, <1>4, <1>5, <1>6, <1>7, GatheringParts
  <1>10. Parts(made, s, h.alls, h.microtasks, h.clock, h.ran)
    BY <1>3, <1>6, <1>7, NewPromiseParts
  <1>11. made.promises = s /\ made.microtasks = h.microtasks /\ made.clock = h.clock /\ made.ran = h.ran
    BY <1>10, PartsOf
  <1>12. /\ Len(s) = Len(h.promises) + 1 /\ \A p \in 1..Len(h.promises) : s[p] = h.promises[p]
         /\ ~s[Len(h.promises) + 1].settled
    <2>1. NewEffect(h, made, v)
      BY <1>3, <1>7, NewMakes
    <2> QED
      BY <1>11, <2>1 DEF NewEffect
  <1>13. PICK n \in Nat : n = Len(h.promises)
    BY <1>7, HeapLengths
  <1>14. AllOK(made, all)
    <2>1. all = [of |-> ps, values |-> [i \in 1..Len(ps) |-> Unset], remaining |-> Len(ps), result |-> n + 1]
      BY <1>4, <1>13 DEF NewAll
    <2>2. ps \in Seq(1..(n + 1))
      BY <1>13
    <2>3. Len(made.promises) = n + 1
      BY <1>11, <1>12, <1>13
    <2>4. n + 1 \in 1..(n + 1)
      OBVIOUS
    <2>5. PICK values : values = [i \in 1..Len(ps) |-> Unset]
      OBVIOUS
    <2>6. values = [i \in 1..Len(ps) |-> values[i]]
      BY <2>5
    <2> QED
      BY <2>1, <2>2, <2>3, <2>4, <2>5, <2>6 DEF AllOK
  <1>15. /\ IsSequence(alls) /\ Len(alls) = Len(h.alls) + 1 /\ Len(h.alls) \in Nat
         /\ \A a \in 1..Len(h.alls) : alls[a] = h.alls[a]
         /\ alls[Len(h.alls) + 1] = all
    BY <1>5, <1>7, HeapLengths, AppendFacts
  <1>16. \A a \in 1..Len(alls) : AllOK(made, alls[a])
    <2> SUFFICES ASSUME NEW a \in 1..Len(alls)
                 PROVE  AllOK(made, alls[a])
      OBVIOUS
    <2>1. a \in 1..Len(h.alls) \/ a = Len(h.alls) + 1
      BY <1>15
    <2>2. Len(made.promises) \in Nat /\ Len(made.promises) >= Len(h.promises) /\ Len(h.promises) \in Nat
      BY <1>11, <1>12, <1>13
    <2>3. \A x : AllOK(h, x) => AllOK(made, x)
      BY <2>2, StillOK
    <2>4. CASE a \in 1..Len(h.alls)
      BY <1>7, <1>15, <2>3, <2>4 DEF HeapTypeOK
    <2>5. CASE a = Len(h.alls) + 1
      BY <1>14, <1>15, <2>5
    <2> QED
      BY <2>1, <2>4, <2>5
  <1>17. Parts(g, made.promises, alls, made.microtasks, made.clock, made.ran)
    BY <1>9, <1>11
  <1>18. Orderly(g) /\ Due(g) = Due(made)
    BY <1>8, <1>15, <1>16, <1>17, OtherAlls
  <1>19. g.promises = s /\ g.alls = alls /\ g.clock = h.clock
    BY <1>9, PartsOf
  <1>20. GatheredEffect(h, g, ps)
    BY <1>4, <1>12, <1>15, <1>19 DEF GatheredEffect
  <1> QED
    BY <1>1, <1>8, <1>18, <1>20

LEMMA LeastNumber ==
  ASSUME NEW S \in SUBSET Nat, S # {}
  PROVE  \E n \in S : \A m \in Nat : m < n => m \notin S
  <1> DEFINE R == {p \in Nat \X Nat : p[1] < p[2]}
  <1>1. IsWellFoundedOn(R, Nat)
    BY NatLessThanWellFounded DEF OpToRel
  <1> HIDE DEF R
  <1>2. PICK n \in S : \A m \in S : ~ (<<m, n>> \in R)
    BY <1>1, WFMin
  <1>3. \A m \in S : ~ (m < n)
    BY <1>2 DEF R
  <1> QED
    BY <1>3

LEMMA Climbing ==
  ASSUME NEW N \in Nat, NEW H, 0 \in H, \A n \in 1..N : n - 1 \in H => n \in H
  PROVE  \A n \in 0..N : n \in H
  <1> DEFINE Lacks == {n \in 0..N : n \notin H}
  <1> SUFFICES ASSUME Lacks # {} PROVE FALSE
    OBVIOUS
  <1>1. Lacks \in SUBSET Nat
    OBVIOUS
  <1>2. PICK n \in Lacks : \A m \in Nat : m < n => m \notin Lacks
    <2> HIDE DEF Lacks
    <2> QED
      BY <1>1, LeastNumber
  <1>3. n \in 1..N /\ n \notin H
    OBVIOUS
  <1>4. n - 1 \notin Lacks
    BY <1>2, <1>3
  <1> QED
    BY <1>3, <1>4

(* The heaps between the calls of then(). *)
AttachSteps(f, h, ps) ==
  f[0] = h /\ \A k \in 1..Len(ps) : f[k] = Then(f[k - 1], ps[k], Store(Len(h.alls), k))

LEMMA AttachedSteps ==
  ASSUME NEW h, NEW ps, NEW n \in Nat, n = Len(ps)
  PROVE  \E f : AttachSteps(f, h, ps) /\ Attached(h, ps) = f[n]
  <1> DEFINE B(k, g) == Then(g, ps[k], Store(Len(h.alls), k))
             IsF(f, m) == f = [i \in 0..m |-> IF i = 0 THEN h ELSE B(i, f[i - 1])]
             H == {m \in 0..n : \E f : IsF(f, m)}
             F == CHOOSE f : IsF(f, n)
  <1>1. Attached(h, ps) = F[n]
    BY DEF Attached
  <1> HIDE DEF B
  <1>2. \A m \in 0..n : m \in H
    <2>1. 0 \in H
      <3>1. PICK f : f = [k \in 0..0 |-> h]
        OBVIOUS
      <3>2. f = [k \in 0..0 |-> IF k = 0 THEN h ELSE B(k, f[k - 1])]
        BY <3>1
      <3> QED
        BY <3>2
    <2>2. ASSUME NEW m \in 1..n, m - 1 \in H PROVE m \in H
      <3>1. PICK g : IsF(g, m - 1)
        BY <2>2
      <3>2. PICK f : f = [k \in 0..m |-> IF k = m THEN B(m, g[m - 1]) ELSE g[k]]
        OBVIOUS
      <3>3. ASSUME NEW k \in 0..m PROVE f[k] = IF k = 0 THEN h ELSE B(k, f[k - 1])
        <4>1. CASE k = m
          <5>1. f[k] = B(k, g[m - 1]) /\ m # 0 /\ m - 1 \in 0..m /\ m - 1 # m
            BY <3>2, <4>1
          <5>2. f[m - 1] = g[m - 1]
            BY <3>2, <5>1
          <5> QED
            BY <4>1, <5>1, <5>2
        <4>2. CASE k # m
          <5>1. k \in 0..(m - 1) /\ f[k] = g[k]
            BY <3>2, <4>2
          <5>2. g[k] = IF k = 0 THEN h ELSE B(k, g[k - 1])
            BY <3>1, <5>1
          <5>3. k # 0 => f[k - 1] = g[k - 1]
            BY <3>2, <5>1
          <5> QED
            BY <5>1, <5>2, <5>3
        <4> QED
          BY <4>1, <4>2
      <3>4. f = [k \in 0..m |-> f[k]]
        BY <3>2
      <3>5. f = [k \in 0..m |-> IF k = 0 THEN h ELSE B(k, f[k - 1])]
        BY <3>3, <3>4
      <3>6. m \in 0..n
        OBVIOUS
      <3> QED
        BY <3>5, <3>6
    <2> HIDE DEF H
    <2> QED
      BY <2>1, <2>2, Climbing
  <1>3. \E f : IsF(f, n)
    <2>1. n \in 0..n
      OBVIOUS
    <2> QED
      BY <1>2, <2>1
  <1> HIDE DEF IsF
  <1>4. IsF(F, n)
    BY <1>3
  <1>5. PICK f : f = F
    OBVIOUS
  <1> HIDE DEF F
  <1>6. f = [k \in 0..n |-> IF k = 0 THEN h ELSE B(k, f[k - 1])]
    BY <1>4, <1>5 DEF IsF
  <1>7. f[0] = h /\ \A k \in 1..n : f[k] = B(k, f[k - 1])
    <2>1. 0 \in 0..n /\ \A k \in 1..n : k \in 0..n /\ k # 0
      OBVIOUS
    <2> QED
      BY <1>6, <2>1
  <1> QED
    BY <1>1, <1>5, <1>7 DEF AttachSteps, B

StoreTask(h, ps, k) == Task(Store(Len(h.alls), k), ps[k], h.clock + (k - 1))
LEMMA AttachedOrderly ==
  ASSUME NEW h, Orderly(h), NEW ps \in Seq(1..Len(h.promises))
  PROVE  /\ Orderly(Attached(h, ps)) /\ SamePromises(h, Attached(h, ps)) /\ Attached(h, ps).alls = h.alls
         /\ Due(Attached(h, ps)) = Due(h) \cup {StoreTask(h, ps, k) : k \in 1..Len(ps)}
  <1>1. PICK n \in Nat : n = Len(ps)
    OBVIOUS
  <1>2. PICK f : AttachSteps(f, h, ps) /\ Attached(h, ps) = f[n]
    BY <1>1, AttachedSteps
  <1>3. PICK clock \in Nat : clock = h.clock
    BY HeapLengths DEF Orderly, HeapOK
  <1> DEFINE H == {m \in 0..n : /\ Orderly(f[m]) /\ SamePromises(h, f[m]) /\ f[m].alls = h.alls
                                /\ f[m].clock = clock + m
                                /\ Due(f[m]) = Due(h) \cup {StoreTask(h, ps, k) : k \in 1..m}}
  <1>4. 0 \in H
    <2>1. f[0] = h /\ 1..0 = {} /\ clock + 0 = clock /\ 0 \in 0..n
      BY <1>2 DEF AttachSteps
    <2> QED
      BY <1>3, <2>1 DEF SamePromises
  <1>5. ASSUME NEW m \in 1..n, m - 1 \in H
        PROVE  m \in H
    <2>1. PICK g : g = f[m - 1]
      OBVIOUS
    <2>2. /\ Orderly(g) /\ SamePromises(h, g) /\ g.alls = h.alls /\ g.clock = clock + (m - 1)
          /\ Due(g) = Due(h) \cup {StoreTask(h, ps, k) : k \in 1..(m - 1)}
      BY <1>5, <2>1
    <2>3. PICK c : c = Store(Len(h.alls), m)
      OBVIOUS
    <2>4. PICK p : p = ps[m]
      OBVIOUS
    <2>5. p \in 1..Len(h.promises)
      BY <1>1, <2>4
    <2>6. p \in 1..Len(g.promises)
      BY <2>2, <2>5 DEF SamePromises
    <2>7. f[m] = Then(g, p, c)
      BY <1>1, <1>2, <2>1, <2>3, <2>4 DEF AttachSteps
    <2>8. Orderly(f[m])
      BY <2>2, <2>6, <2>7, ThenOrderly
    <2>9. HeapOK(g) /\ HeapTypeOK(g)
      BY <2>2 DEF Orderly, HeapOK
    <2>10. SamePromises(g, f[m]) /\ f[m].alls = g.alls /\ f[m].clock = g.clock + 1
      BY <2>6, <2>7, <2>9, ThenSame
    <2>11. Due(f[m]) = Due(g) \cup {Task(c, p, g.clock)}
      BY <2>6, <2>7, <2>9, ThenDue
    <2>12. SamePromises(h, f[m])
      BY <2>2, <2>10 DEF SamePromises
    <2>13. f[m].clock = clock + m
      BY <2>2, <2>10
    <2>14. Task(c, p, g.clock) = StoreTask(h, ps, m)
      BY <1>3, <2>2, <2>3, <2>4 DEF StoreTask
    <2>15. 1..m = 1..(m - 1) \cup {m}
      OBVIOUS
    <2>16. {StoreTask(h, ps, k) : k \in 1..m} = {StoreTask(h, ps, k) : k \in 1..(m - 1)} \cup {StoreTask(h, ps, m)}
      BY <2>15
    <2>17. Due(f[m]) = Due(h) \cup {StoreTask(h, ps, k) : k \in 1..m}
      BY <2>2, <2>11, <2>14, <2>16
    <2>18. m \in 0..n
      OBVIOUS
    <2> QED
      BY <2>2, <2>8, <2>10, <2>12, <2>13, <2>17, <2>18
  <1>6. n \in H
    <2> HIDE DEF H
    <2>1. \A m \in 0..n : m \in H
      BY <1>4, <1>5, Climbing
    <2> QED
      BY <2>1
  <1> QED
    BY <1>1, <1>2, <1>6

LEMMA ResolveSame ==
  ASSUME NEW h, HeapTypeOK(h), NEW p \in 1..Len(h.promises), NEW v
  PROVE  /\ Resolve(h, p, v).alls = h.alls /\ Len(Resolve(h, p, v).promises) = Len(h.promises)
         /\ Resolve(h, p, v).promises[p].settled
         /\ Resolve(h, p, v).promises[p].value = IF h.promises[p].settled THEN h.promises[p].value ELSE v
         /\ \A k \in 1..Len(h.promises) : k # p => Resolve(h, p, v).promises[k] = h.promises[k]
  <1>1. CASE h.promises[p].settled
    BY <1>1 DEF Resolve
  <1>2. CASE ~h.promises[p].settled
    <2>1. PICK g : g = Resolve(h, p, v)
      OBVIOUS
    <2>2. g = SettleAgain(h, p, v)
      BY <1>2, <2>1 DEF Resolve
    <2>3. SettledEffect(h, g, p, v)
      BY <2>2, SettledMakes
    <2>4. /\ g.alls = h.alls /\ Len(g.promises) = Len(h.promises)
          /\ g.promises[p].settled /\ g.promises[p].value = v
          /\ \A k \in 1..Len(h.promises) : k # p => g.promises[k] = h.promises[k]
      BY <2>3 DEF SettledEffect
    <2> QED
      BY <1>2, <2>1, <2>4
  <1> QED
    BY <1>1, <1>2

AllTask(h, ps, k) == Task(Store(Len(h.alls) + 1, k), ps[k], h.clock + (k - 1))
AllEffect(h, g, ps) ==
  /\ Orderly(g)
  /\ Len(g.promises) = Len(h.promises) + 1
  /\ \A p \in 1..Len(h.promises) :
       g.promises[p].settled = h.promises[p].settled /\ g.promises[p].value = h.promises[p].value
  /\ g.promises[Len(h.promises) + 1].settled <=> ps = <<>>
  /\ ps = <<>> => g.promises[Len(h.promises) + 1].value = <<"list", <<>>>>
  /\ Len(g.alls) = Len(h.alls) + 1
  /\ \A a \in 1..Len(h.alls) : g.alls[a] = h.alls[a]
  /\ g.alls[Len(h.alls) + 1] = NewAll(h, ps)
  /\ Due(g) = Due(h) \cup {AllTask(h, ps, k) : k \in 1..Len(ps)}
LEMMA AllMakes ==
  ASSUME NEW h, Orderly(h), NEW ps \in Seq(1..Len(h.promises))
  PROVE  AllEffect(h, All(h, ps), ps)
  <1>1. PICK g : g = All(h, ps)
    OBVIOUS
  <1>2. PICK kept : kept = Gathering(h, ps)
    OBVIOUS
  <1>3. Orderly(kept) /\ Due(kept) = Due(h) /\ GatheredEffect(h, kept, ps)
    BY <1>2, GatheringOrderly
  <1>4. PICK n \in Nat : n = Len(h.promises)
    BY HeapLengths DEF Orderly, HeapOK
  <1>5. PICK m \in Nat : m = Len(h.alls)
    BY HeapLengths DEF Orderly, HeapOK
  <1>6. /\ Len(kept.promises) = n + 1 /\ \A p \in 1..n : kept.promises[p] = h.promises[p]
        /\ ~kept.promises[n + 1].settled
        /\ Len(kept.alls) = m + 1 /\ \A a \in 1..m : kept.alls[a] = h.alls[a]
        /\ kept.alls[m + 1] = NewAll(h, ps) /\ kept.clock = h.clock
    BY <1>3, <1>4, <1>5 DEF GatheredEffect
  <1>7. HeapTypeOK(kept)
    BY <1>3 DEF Orderly, HeapOK
  <1>8. n + 1 \in 1..(n + 1) /\ \A p \in 1..n : p # n + 1 /\ p \in 1..(n + 1)
    OBVIOUS
  <1>9. CASE ps = <<>>
    <2>1. PICK v : v = <<"list", <<>>>>
      OBVIOUS
    <2>2. PICK q : q = n + 1
      OBVIOUS
    <2>3. g = Resolve(kept, q, v)
      BY <1>1, <1>2, <1>6, <1>9, <2>1, <2>2 DEF All, Newest
    <2>4. q \in 1..Len(kept.promises)
      BY <1>6, <1>8, <2>2
    <2>5. Orderly(g) /\ Due(g) = Due(h)
      BY <1>3, <2>3, <2>4, ResolveOrderly
    <2>6. /\ g.alls = kept.alls /\ Len(g.promises) = Len(kept.promises)
          /\ g.promises[q].settled
          /\ g.promises[q].value = IF kept.promises[q].settled THEN kept.promises[q].value ELSE v
          /\ \A k \in 1..Len(kept.promises) : k # q => g.promises[k] = kept.promises[k]
      BY <1>7, <2>3, <2>4, ResolveSame
    <2>7. g.promises[n + 1].settled /\ g.promises[n + 1].value = <<"list", <<>>>>
      BY <1>6, <2>1, <2>2, <2>6
    <2>8. \A p \in 1..n : g.promises[p] = h.promises[p]
      BY <1>6, <1>8, <2>2, <2>6
    <2>9. {AllTask(h, ps, k) : k \in 1..Len(ps)} = {}
      <3>1. Len(ps) = 0 /\ 1..0 = {}
        BY <1>9
      <3> QED
        BY <3>1
    <2>10. /\ Len(g.promises) = n + 1 /\ Len(g.alls) = m + 1 /\ g.alls[m + 1] = NewAll(h, ps)
           /\ \A a \in 1..m : g.alls[a] = h.alls[a]
      BY <1>6, <2>6
    <2>11. Due(g) = Due(h) \cup {AllTask(h, ps, k) : k \in 1..Len(ps)}
      BY <2>5, <2>9
    <2>12. AllEffect(h, g, ps)
      BY <1>4, <1>5, <1>9, <2>5, <2>7, <2>8, <2>10, <2>11 DEF AllEffect
    <2> QED
      BY <1>1, <2>12
  <1>10. CASE ps # <<>>
    <2>1. g = Attached(kept, ps)
      BY <1>1, <1>2, <1>10 DEF All
    <2>2. ps \in Seq(1..Len(kept.promises))
      BY <1>4, <1>6, <1>8
    <2>3. /\ Orderly(g) /\ SamePromises(kept, g) /\ g.alls = kept.alls
          /\ Due(g) = Due(kept) \cup {StoreTask(kept, ps, k) : k \in 1..Len(ps)}
      BY <1>3, <2>1, <2>2, AttachedOrderly
    <2>4. \A k : StoreTask(kept, ps, k) = AllTask(h, ps, k)
      BY <1>5, <1>6 DEF StoreTask, AllTask
    <2>5. Due(g) = Due(h) \cup {AllTask(h, ps, k) : k \in 1..Len(ps)}
      BY <1>3, <2>3, <2>4
    <2>6. /\ Len(g.promises) = n + 1 /\ ~g.promises[n + 1].settled
          /\ \A p \in 1..n : g.promises[p].settled = h.promises[p].settled /\ g.promises[p].value = h.promises[p].value
      BY <1>6, <1>8, <2>3 DEF SamePromises
    <2>7. /\ Len(g.alls) = m + 1 /\ g.alls[m + 1] = NewAll(h, ps)
          /\ \A a \in 1..m : g.alls[a] = h.alls[a]
      BY <1>6, <2>3
    <2>8. AllEffect(h, g, ps)
      BY <1>4, <1>5, <1>10, <2>3, <2>5, <2>6, <2>7 DEF AllEffect
    <2> QED
      BY <1>1, <2>8
  <1> QED
    BY <1>9, <1>10

(* A value is stored. *)
IsExcept(c, s, i, x) ==
  /\ IsSequence(c) /\ Len(c) = Len(s) /\ c[i] = x
  /\ \A k \in 1..Len(s) : k # i => c[k] = s[k]
LEMMA ExceptElements ==
  ASSUME NEW s, IsSequence(s), NEW i \in 1..Len(s), NEW x
  PROVE  IsExcept([s EXCEPT ![i] = x], s, i, x)
  BY ExceptFacts DEF IsExcept

StoredEffect(h, g, c, v) ==
  /\ Len(g.alls) = Len(h.alls)
  /\ \A a \in 1..Len(h.alls) : a # c.all => g.alls[a] = h.alls[a]
  /\ g.alls[c.all].of = h.alls[c.all].of /\ g.alls[c.all].result = h.alls[c.all].result
  /\ g.alls[c.all].remaining = h.alls[c.all].remaining - 1
  /\ g.alls[c.all].values = [h.alls[c.all].values EXCEPT ![c.index] = v]
LEMMA StoredMakes ==
  ASSUME NEW h, Orderly(h), NEW c, c.all \in 1..Len(h.alls), c.index \in 1..Len(h.alls[c.all].of), NEW v
  PROVE  /\ Orderly(Stored(h, c, v)) /\ Due(Stored(h, c, v)) = Due(h) /\ StoredEffect(h, Stored(h, c, v), c, v)
         /\ Stored(h, c, v).promises = h.promises
  <1>1. PICK g : g = Stored(h, c, v)
    OBVIOUS
  <1>2. PICK a : a = c.all
    OBVIOUS
  <1>3. PICK i : i = c.index
    OBVIOUS
  <1>4. PICK all : all = h.alls[a]
    OBVIOUS
  <1>5. a \in 1..Len(h.alls) /\ i \in 1..Len(all.of)
    BY <1>2, <1>3, <1>4
  <1>6. HeapTypeOK(h)
    BY DEF Orderly, HeapOK
  <1>7. AllOK(h, all)
    BY <1>4, <1>5, <1>6 DEF HeapTypeOK
  <1>8. PICK values : values = [all.values EXCEPT ![i] = v]
    OBVIOUS
  <1>9. PICK r : r = all.remaining - 1
    OBVIOUS
  <1>10. PICK x : x = [all EXCEPT !.values[i] = v, !.remaining = r]
    OBVIOUS
  <1>11. x = [of |-> all.of, values |-> values, remaining |-> r, result |-> all.result]
    <2>1. all = [of |-> all.of, values |-> all.values, remaining |-> all.remaining, result |-> all.result]
      BY <1>7 DEF AllOK
    <2>2. PICK y : y = [all EXCEPT !.values = values]
      OBVIOUS
    <2>3. y = [of |-> all.of, values |-> values, remaining |-> all.remaining, result |-> all.result]
      BY <2>1, <2>2
    <2>4. [all EXCEPT !.values[i] = v] = y
      BY <1>8, <2>2
    <2>5. x = [y EXCEPT !.remaining = r]
      BY <1>10, <2>4
    <2> QED
      BY <2>3, <2>5
  <1>12. AllOK(h, x)
    <2>1. values = [k \in 1..Len(all.of) |-> values[k]]
      BY <1>7, <1>8 DEF AllOK
    <2> QED
      BY <1>7, <1>11, <2>1 DEF AllOK
  <1>13. PICK alls : alls = [h.alls EXCEPT ![a] = x]
    OBVIOUS
  <1>14. /\ IsSequence(alls) /\ Len(alls) = Len(h.alls) /\ alls[a] = x
         /\ \A k \in 1..Len(h.alls) : k # a => alls[k] = h.alls[k]
    <2>1. PICK old : old = h.alls
      OBVIOUS
    <2>2. IsSequence(old) /\ a \in 1..Len(old) /\ alls = [old EXCEPT ![a] = x]
      BY <1>5, <1>6, <1>13, <2>1, HeapLengths
    <2>3. IsExcept([old EXCEPT ![a] = x], old, a, x)
      BY <2>2, ExceptElements
    <2> QED
      BY <2>1, <2>2, <2>3 DEF IsExcept
  <1>15. g = [h EXCEPT !.alls = alls]
    <2>1. g = [h EXCEPT !.alls[a] = [h.alls[a] EXCEPT !.values[i] = v, !.remaining = h.alls[a].remaining - 1]]
      BY <1>1, <1>2, <1>3 DEF Stored
    <2>2. [h.alls[a] EXCEPT !.values[i] = v, !.remaining = h.alls[a].remaining - 1] = x
      BY <1>4, <1>9, <1>10
    <2>3. g = [h EXCEPT !.alls[a] = x]
      BY <2>1, <2>2
    <2> QED
      BY <1>13, <2>3
  <1>16. Parts(g, h.promises, alls, h.microtasks, h.clock, h.ran)
    BY <1>6, <1>15, HeapRecord, PartsExcept
  <1>17. \A k \in 1..Len(alls) : AllOK(h, alls[k])
    BY <1>6, <1>12, <1>14 DEF HeapTypeOK
  <1>18. Orderly(g) /\ Due(g) = Due(h)
    BY <1>14, <1>16, <1>17, OtherAlls
  <1>19. g.alls = alls /\ g.promises = h.promises
    BY <1>16, PartsOf
  <1>20. x.of = all.of /\ x.result = all.result /\ x.remaining = all.remaining - 1
         /\ x.values = [all.values EXCEPT ![i] = v]
    BY <1>8, <1>9, <1>11
  <1>21. StoredEffect(h, g, c, v)
    BY <1>2, <1>3, <1>4, <1>14, <1>19, <1>20 DEF StoredEffect
  <1> QED
    BY <1>1, <1>18, <1>19, <1>21

LEMMA RunStoreOrderly ==
  ASSUME NEW h, Orderly(h), NEW c, c.all \in 1..Len(h.alls), c.index \in 1..Len(h.alls[c.all].of), NEW v
  PROVE  /\ Orderly(RunStore(h, c, v)) /\ Due(RunStore(h, c, v)) = Due(h)
         /\ StoredEffect(h, RunStore(h, c, v), c, v)
         /\ Len(RunStore(h, c, v).promises) = Len(h.promises)
         /\ RunStore(h, c, v) = ResolveAt(Stored(h, c, v), c.all, 0)
  <1>1. PICK s : s = Stored(h, c, v)
    OBVIOUS
  <1>2. PICK g : g = RunStore(h, c, v)
    OBVIOUS
  <1>3. Orderly(s) /\ Due(s) = Due(h) /\ StoredEffect(h, s, c, v) /\ s.promises = h.promises
    BY <1>1, StoredMakes
  <1>4. g = ResolveAt(s, c.all, 0)
    BY <1>1, <1>2 DEF RunStore
  <1>5. HeapTypeOK(s)
    BY <1>3 DEF Orderly, HeapOK
  <1>6. s.alls[c.all].result \in 1..Len(s.promises)
    <2>1. c.all \in 1..Len(s.alls)
      BY <1>3 DEF StoredEffect
    <2>2. AllOK(s, s.alls[c.all])
      BY <1>5, <2>1 DEF HeapTypeOK
    <2> QED
      BY <2>2 DEF AllOK
  <1>7. CASE s.alls[c.all].remaining = 0
    <2>1. PICK p : p = s.alls[c.all].result
      OBVIOUS
    <2>2. PICK w : w = <<"list", s.alls[c.all].values>>
      OBVIOUS
    <2>3. g = Resolve(s, p, w)
      BY <1>4, <1>7, <2>1, <2>2 DEF ResolveAt
    <2>4. p \in 1..Len(s.promises)
      BY <1>6, <2>1
    <2>5. Orderly(g) /\ Due(g) = Due(s)
      BY <1>3, <2>3, <2>4, ResolveOrderly
    <2>6. g.alls = s.alls /\ Len(g.promises) = Len(s.promises)
      BY <1>5, <2>3, <2>4, ResolveSame
    <2>7. StoredEffect(h, g, c, v)
      BY <1>3, <2>6 DEF StoredEffect
    <2> QED
      BY <1>1, <1>2, <1>3, <1>4, <2>5, <2>6, <2>7
  <1>8. CASE s.alls[c.all].remaining # 0
    <2>1. g = s
      BY <1>4, <1>8 DEF ResolveAt
    <2> QED
      BY <1>1, <1>2, <1>3, <1>4, <2>1
  <1> QED
    BY <1>7, <1>8
-----------------------------------------------------------------------------
(* Bodies and the stack, as the steps change them. *)
LEMMA FramesStill ==
  ASSUME NEW p, NEW m \in Nat, NEW n \in Nat, m <= n, NEW fs, FramesOK(p, m, fs)
  PROVE  FramesOK(p, n, fs)
  <1>1. \A f : FrameOK(p, m, f) => FrameOK(p, n, f)
    <2> SUFFICES ASSUME NEW f, FrameOK(p, m, f)
                 PROVE  FrameOK(p, n, f)
      OBVIOUS
    <2>1. 0..m \subseteq 0..n /\ (HostPromises + 1)..m \subseteq (HostPromises + 1)..n
      BY ProgramsAssumption
    <2> QED
      BY <2>1 DEF FrameOK
  <1> QED
    BY <1>1 DEF FramesOK

LEMMA FramesWith ==
  ASSUME NEW p, NEW n, NEW fs, FramesOK(p, n, fs), NEW i \in 1..Len(fs), NEW f, FrameOK(p, n, f),
         NEW gs, IsExcept(gs, fs, i, f)
  PROVE  FramesOK(p, n, gs) /\ Len(gs) = Len(fs)
  BY DEF IsExcept, FramesOK

LEMMA FramesMore ==
  ASSUME NEW p, NEW n, NEW fs, FramesOK(p, n, fs), NEW f, FrameOK(p, n, f)
  PROVE  FramesOK(p, n, Append(fs, f)) /\ Len(Append(fs, f)) = Len(fs) + 1
  <1>1. PICK gs : gs = Append(fs, f)
    OBVIOUS
  <1>2. IsSequence(fs)
    BY DEF FramesOK
  <1>3. /\ IsSequence(gs) /\ Len(gs) = Len(fs) + 1 /\ Len(fs) \in Nat
        /\ \A i \in 1..Len(fs) : gs[i] = fs[i]
        /\ gs[Len(fs) + 1] = f
    BY <1>1, <1>2, AppendFacts
  <1>4. \A i \in 1..Len(gs) : FrameOK(p, n, gs[i])
    <2> SUFFICES ASSUME NEW i \in 1..Len(gs)
                 PROVE  FrameOK(p, n, gs[i])
      OBVIOUS
    <2>1. i \in 1..Len(fs) \/ i = Len(fs) + 1
      BY <1>3
    <2> QED
      BY <1>3, <2>1 DEF FramesOK
  <1> QED
    BY <1>1, <1>3, <1>4 DEF FramesOK

LEMMA StackStill ==
  ASSUME NEW p, NEW m \in Nat, NEW n \in Nat, m <= n, NEW b \in Nat, NEW c \in Nat, b <= c,
         NEW st, StackOK(p, b, m, st)
  PROVE  StackOK(p, c, n, st)
  <1>1. \A s : ActivationOK(p, b, m, s) => ActivationOK(p, c, n, s)
    <2> SUFFICES ASSUME NEW s, ActivationOK(p, b, m, s)
                 PROVE  ActivationOK(p, c, n, s)
      OBVIOUS
    <2>1. 1..b \subseteq 1..c /\ 1..m \subseteq 1..n
      OBVIOUS
    <2> QED
      BY <2>1 DEF ActivationOK
  <1> QED
    BY <1>1 DEF StackOK

LEMMA StackWith ==
  ASSUME NEW p, NEW b, NEW n, NEW st, StackOK(p, b, n, st), NEW s, ActivationOK(p, b, n, s),
         NEW ts, IsExcept(ts, st, Len(st), s)
  PROVE  StackOK(p, b, n, ts) /\ Len(ts) = Len(st)
  BY DEF IsExcept, StackOK

LEMMA StackFront ==
  ASSUME NEW p, NEW b, NEW n, NEW st, StackOK(p, b, n, st), st # <<>>
  PROVE  StackOK(p, b, n, Front(st)) /\ Len(Front(st)) = Len(st) - 1
  <1>1. PICK gs : gs = Front(st)
    OBVIOUS
  <1>2. /\ IsSequence(gs) /\ Len(gs) = Len(st) - 1 /\ Len(st) \in Nat /\ Len(st) > 0
        /\ \A i \in 1..Len(st) - 1 : gs[i] = st[i]
    BY <1>1, FrontFacts DEF StackOK
  <1>3. \A k \in 1..Len(gs) : ActivationOK(p, b, n, gs[k])
    <2> SUFFICES ASSUME NEW k \in 1..Len(gs)
                 PROVE  ActivationOK(p, b, n, gs[k])
      OBVIOUS
    <2>1. k \in 1..Len(st) /\ gs[k] = st[k]
      BY <1>2
    <2> QED
      BY <2>1 DEF StackOK
  <1> QED
    BY <1>1, <1>2, <1>3 DEF StackOK

LEMMA StackOne ==
  ASSUME NEW p, NEW b, NEW n, NEW s, ActivationOK(p, b, n, s)
  PROVE  StackOK(p, b, n, <<s>>) /\ Len(<<s>>) = 1
  <1>1. PICK gs : gs = <<s>>
    OBVIOUS
  <1>2. IsSequence(gs) /\ Len(gs) = 1 /\ gs[1] = s
    BY <1>1, Singleton
  <1>3. StackOK(p, b, n, gs)
    BY <1>2 DEF StackOK
  <1> QED
    BY <1>1, <1>2, <1>3

LEMMA StackJoined ==
  ASSUME NEW p, NEW b, NEW n, NEW st, StackOK(p, b, n, st), NEW ts, StackOK(p, b, n, ts)
  PROVE  StackOK(p, b, n, st \o ts)
  <1>1. PICK gs : gs = st \o ts
    OBVIOUS
  <1>2. IsConcat(gs, st, ts)
    BY <1>1, ConcatElements DEF StackOK
  <1>3. \A k \in 1..Len(gs) : ActivationOK(p, b, n, gs[k])
    BY <1>2 DEF IsConcat, StackOK
  <1>4. StackOK(p, b, n, gs)
    BY <1>2, <1>3 DEF IsConcat, StackOK
  <1> QED
    BY <1>1, <1>4

LEMMA StackMore ==
  ASSUME NEW p, NEW b, NEW n, NEW st, StackOK(p, b, n, st), NEW s, ActivationOK(p, b, n, s)
  PROVE  StackOK(p, b, n, Append(st, s)) /\ Len(Append(st, s)) = Len(st) + 1
  <1>1. PICK gs : gs = Append(st, s)
    OBVIOUS
  <1>2. /\ IsSequence(gs) /\ Len(gs) = Len(st) + 1 /\ Len(st) \in Nat
        /\ \A i \in 1..Len(st) : gs[i] = st[i]
        /\ gs[Len(st) + 1] = s
    BY <1>1, AppendFacts DEF StackOK
  <1>3. \A k \in 1..Len(gs) : ActivationOK(p, b, n, gs[k])
    <2> SUFFICES ASSUME NEW k \in 1..Len(gs)
                 PROVE  ActivationOK(p, b, n, gs[k])
      OBVIOUS
    <2>1. k \in 1..Len(st) \/ k = Len(st) + 1
      BY <1>2
    <2> QED
      BY <1>2, <2>1 DEF StackOK
  <1> QED
    BY <1>1, <1>2, <1>3 DEF StackOK

(* A frame with one of its fields changed. *)
FrameParts(f, fn, state, result, vars, given, log, awaits) ==
  f = [fn |-> fn, state |-> state, result |-> result, vars |-> vars, given |-> given, log |-> log, awaits |-> awaits]
LEMMA FrameRecord ==
  ASSUME NEW p, NEW n, NEW f, FrameOK(p, n, f)
  PROVE  FrameParts(f, f.fn, f.state, f.result, f.vars, f.given, f.log, f.awaits)
  BY DEF FrameOK, FrameParts

LEMMA FrameExcept ==
  ASSUME NEW f, NEW fn, NEW state, NEW result, NEW vars, NEW given, NEW log, NEW awaits, NEW x,
         FrameParts(f, fn, state, result, vars, given, log, awaits)
  PROVE  /\ FrameParts([f EXCEPT !.state = x], fn, x, result, vars, given, log, awaits)
         /\ FrameParts([f EXCEPT !.vars = x], fn, state, result, x, given, log, awaits)
         /\ FrameParts([f EXCEPT !.given = x], fn, state, result, vars, x, log, awaits)
         /\ FrameParts([f EXCEPT !.log = x], fn, state, result, vars, given, x, awaits)
         /\ FrameParts([f EXCEPT !.awaits = x], fn, state, result, vars, given, log, x)
  BY DEF FrameParts

LEMMA FrameFields ==
  ASSUME NEW f, NEW fn, NEW state, NEW result, NEW vars, NEW given, NEW log, NEW awaits,
         FrameParts(f, fn, state, result, vars, given, log, awaits)
  PROVE  /\ f.fn = fn /\ f.state = state /\ f.result = result /\ f.vars = vars /\ f.given = given /\ f.log = log
         /\ f.awaits = awaits
         /\ FrameParts(f, f.fn, f.state, f.result, f.vars, f.given, f.log, f.awaits)
  BY DEF FrameParts

(* g is the frame f further on.                                             *)
FurtherOn(p, n, f, g) == FrameOK(p, n, g) /\ g.fn = f.fn /\ g.result = f.result
LEMMA FrameFurther ==
  ASSUME NEW p, NEW n, NEW f, FrameOK(p, n, f), NEW g,
         NEW state \in DOMAIN Machines[p][f.fn].segments, NEW vars, NEW given, NEW log, IsSequence(log),
         NEW awaits \in 0..n,
         FrameParts(g, f.fn, state, f.result, vars, given, log, awaits)
  PROVE  FurtherOn(p, n, f, g) /\ g.log = log /\ g.awaits = awaits /\ g.state = state
  <1>1. /\ g.fn = f.fn /\ g.state = state /\ g.result = f.result /\ g.log = log /\ g.awaits = awaits
        /\ FrameParts(g, g.fn, g.state, g.result, g.vars, g.given, g.log, g.awaits)
    BY FrameFields
  <1>2. FrameOK(p, n, g)
    BY <1>1 DEF FrameOK, FrameParts
  <1> QED
    BY <1>1, <1>2 DEF FurtherOn
-----------------------------------------------------------------------------
(* What runs now. *)
LEMMA Lengths ==
  ASSUME BodiesOK, HeapTypeOK(heap)
  PROVE  /\ Len(frames) \in Nat /\ Len(stack) \in Nat /\ Len(heap.promises) \in Nat
         /\ DOMAIN frames = 1..Len(frames) /\ DOMAIN stack = 1..Len(stack) /\ HostPromises \in Nat
         /\ HostPromises <= Len(heap.promises) /\ 1..HostPromises \subseteq 1..Len(heap.promises)
  <1>1. IsSequence(frames) /\ IsSequence(stack)
    BY DEF BodiesOK, FramesOK, StackOK
  <1>2. Len(heap.promises) \in Nat
    BY HeapLengths
  <1>3. HostPromises \in Nat /\ HostPromises <= Len(heap.promises)
    BY <1>2, ProgramsAssumption DEF BodiesOK
  <1>4. 1..HostPromises \subseteq 1..Len(heap.promises)
    BY <1>2, <1>3
  <1> QED
    BY <1>1, <1>2, <1>3, <1>4, SequenceFacts

LEMMA WellFormed ==
  ASSUME ProgramOK
  PROVE  /\ \A s \in StatementsOf(program) : StatementOK(program, s)
         /\ \A f \in DOMAIN program :
              Machines[program][f].kind = program[f].kind /\ MachineOK(program, Machines[program][f])
  BY ProgramsAssumption DEF ProgramOK

LEMMA TopOK ==
  ASSUME BodiesOK, stack # <<>>
  PROVE  /\ ActivationOK(program, Len(frames), Len(heap.promises), Top)
         /\ Len(stack) \in 1..Len(stack) /\ Current \in 1..Len(frames)
         /\ FrameOK(program, Len(heap.promises), Here)
         /\ Here.fn \in DOMAIN program /\ MachineOK(program, Machine(Current))
         /\ Here.state \in DOMAIN Machine(Current).segments
         /\ SegmentOK(program, Machine(Current), SegmentOf(Current))
         /\ Kind(Current) = program[Here.fn].kind
  <1>1. IsSequence(stack) /\ IsSequence(frames)
    BY DEF BodiesOK, StackOK, FramesOK
  <1>2. Len(stack) \in 1..Len(stack)
    BY <1>1, FrontFacts
  <1>3. ActivationOK(program, Len(frames), Len(heap.promises), Top)
    BY <1>2 DEF BodiesOK, StackOK, Top
  <1>4. Current \in 1..Len(frames)
    BY <1>3 DEF ActivationOK, Current
  <1>5. FrameOK(program, Len(heap.promises), Here)
    BY <1>4 DEF BodiesOK, FramesOK, Here
  <1>6. Here.fn \in DOMAIN program /\ Here.state \in DOMAIN Machines[program][Here.fn].segments
    BY <1>5 DEF FrameOK
  <1>7. Machine(Current) = Machines[program][Here.fn]
    BY DEF Machine, Here
  <1>8. MachineOK(program, Machine(Current)) /\ Kind(Current) = program[Here.fn].kind
    BY <1>6, <1>7, WellFormed DEF BodiesOK, Kind
  <1>9. SegmentOK(program, Machine(Current), SegmentOf(Current))
    BY <1>6, <1>7, <1>8 DEF MachineOK, SegmentOf, Here
  <1> QED
    BY <1>2, <1>3, <1>4, <1>5, <1>6, <1>7, <1>8, <1>9

(* The statement to run is one of the program.                              *)
LEMMA StatementToRun ==
  ASSUME BodiesOK, NEW type, Running(type)
  PROVE  /\ stack # <<>> /\ Top.todo # <<>> /\ Top.todo \in Seq(StatementsOf(program))
         /\ Next1 \in StatementsOf(program) /\ StatementOK(program, Next1) /\ Next1.type = type
         /\ Tail(Top.todo) \in Seq(StatementsOf(program))
  <1>1. stack # <<>> /\ Top.todo # <<>> /\ Next1.type = type
    BY DEF Running, Next1
  <1>2. Top.todo \in Seq(StatementsOf(program))
    BY <1>1, TopOK DEF ActivationOK
  <1>3. PICK S : S = StatementsOf(program)
    OBVIOUS
  <1>4. PICK todo : todo = Top.todo
    OBVIOUS
  <1>5. todo \in Seq(S) /\ todo # <<>>
    BY <1>1, <1>2, <1>3, <1>4
  <1>6. todo[1] \in S /\ Tail(todo) \in Seq(S)
    BY <1>5
  <1>7. Next1 \in StatementsOf(program)
    BY <1>3, <1>4, <1>6 DEF Next1
  <1> QED
    BY <1>1, <1>2, <1>3, <1>4, <1>6, <1>7, WellFormed DEF BodiesOK

ActivationParts(s, frame, sent, at, todo) == s = [frame |-> frame, sent |-> sent, at |-> at, todo |-> todo]
LEMMA ActivationExcept ==
  ASSUME NEW s, NEW frame, NEW sent, NEW at, NEW todo, NEW x, ActivationParts(s, frame, sent, at, todo)
  PROVE  /\ ActivationParts([s EXCEPT !.at = x], frame, sent, x, todo)
         /\ ActivationParts([s EXCEPT !.todo = x], frame, sent, at, x)
         /\ ActivationParts([s EXCEPT !.sent = x], frame, x, at, todo)
  BY DEF ActivationParts

LEMMA ActivationOf ==
  ASSUME NEW p, NEW b, NEW n, NEW s, NEW frame \in 1..b, NEW sent, NEW at \in {"dispatch", "run", "called"},
         NEW todo \in Seq(StatementsOf(p)), ActivationParts(s, frame, sent, at, todo),
         at = "called" => sent[2] \in 1..n
  PROVE  ActivationOK(p, b, n, s) /\ s.frame = frame /\ s.at = at
  <1>1. s.frame = frame /\ s.sent = sent /\ s.at = at /\ s.todo = todo
    BY DEF ActivationParts
  <1>2. s = [frame |-> s.frame, sent |-> s.sent, at |-> s.at, todo |-> s.todo]
    BY <1>1 DEF ActivationParts
  <1> QED
    BY <1>1, <1>2 DEF ActivationOK

LEMMA TopParts ==
  ASSUME BodiesOK, stack # <<>>
  PROVE  ActivationParts(Top, Current, Top.sent, Top.at, Top.todo) /\ Top.todo \in Seq(StatementsOf(program))
  BY TopOK DEF ActivationOK, ActivationParts, Current

(* The activation goes on at the same frame: with what is left to run, or   *)
(* with the next segment.                                                   *)
LEMMA TopGoesOn ==
  ASSUME BodiesOK, stack # <<>>
  PROVE  /\ \A todo \in Seq(StatementsOf(program)) :
              LET s == [Top EXCEPT !.at = "run", !.todo = todo]
              IN  ActivationOK(program, Len(frames), Len(heap.promises), s) /\ s.frame = Current /\ s.at = "run"
         /\ Top.at = "run" =>
              \A todo \in Seq(StatementsOf(program)) :
                LET s == [Top EXCEPT !.todo = todo]
                IN  ActivationOK(program, Len(frames), Len(heap.promises), s) /\ s.frame = Current /\ s.at = "run"
         /\ LET s == [Top EXCEPT !.at = "dispatch"]
            IN  ActivationOK(program, Len(frames), Len(heap.promises), s) /\ s.frame = Current /\ s.at = "dispatch"
  <1>1. PICK top : top = Top
    OBVIOUS
  <1>2. PICK c \in 1..Len(frames) : c = Current
    BY TopOK
  <1>3. ActivationParts(top, c, top.sent, top.at, top.todo) /\ top.todo \in Seq(StatementsOf(program))
    BY <1>1, <1>2, TopParts
  <1>4. ASSUME NEW todo \in Seq(StatementsOf(program))
        PROVE  LET s == [top EXCEPT !.at = "run", !.todo = todo]
               IN  ActivationOK(program, Len(frames), Len(heap.promises), s) /\ s.frame = c /\ s.at = "run"
    <2>1. PICK s1 : s1 = [top EXCEPT !.at = "run"]
      OBVIOUS
    <2>2. PICK s2 : s2 = [s1 EXCEPT !.todo = todo]
      OBVIOUS
    <2>3. ActivationParts(s1, c, top.sent, "run", top.todo)
      BY <1>3, <2>1, ActivationExcept
    <2>4. ActivationParts(s2, c, top.sent, "run", todo)
      BY <2>2, <2>3, ActivationExcept
    <2>5. ActivationOK(program, Len(frames), Len(heap.promises), s2) /\ s2.frame = c /\ s2.at = "run"
      BY <2>4, ActivationOf
    <2>6. [top EXCEPT !.at = "run", !.todo = todo] = s2
      BY <2>1, <2>2
    <2> QED
      BY <2>5, <2>6
  <1>5. ASSUME NEW todo \in Seq(StatementsOf(program)), top.at = "run"
        PROVE  LET s == [top EXCEPT !.todo = todo]
               IN  ActivationOK(program, Len(frames), Len(heap.promises), s) /\ s.frame = c /\ s.at = "run"
    <2>1. PICK s : s = [top EXCEPT !.todo = todo]
      OBVIOUS
    <2>2. ActivationParts(s, c, top.sent, "run", todo)
      <3>1. ActivationParts(top, c, top.sent, "run", top.todo)
        BY <1>3, <1>5
      <3> QED
        BY <3>1, <2>1, ActivationExcept
    <2>3. ActivationOK(program, Len(frames), Len(heap.promises), s) /\ s.frame = c /\ s.at = "run"
      BY <2>2, ActivationOf
    <2> QED
      BY <2>1, <2>3
  <1>6. LET s == [top EXCEPT !.at = "dispatch"]
        IN  ActivationOK(program, Len(frames), Len(heap.promises), s) /\ s.frame = c /\ s.at = "dispatch"
    <2>1. PICK s : s = [top EXCEPT !.at = "dispatch"]
      OBVIOUS
    <2>2. ActivationParts(s, c, top.sent, "dispatch", top.todo)
      BY <1>3, <2>1, ActivationExcept
    <2>3. ActivationOK(program, Len(frames), Len(heap.promises), s) /\ s.frame = c /\ s.at = "dispatch"
      BY <1>3, <2>2, ActivationOf
    <2> QED
      BY <2>1, <2>3
  <1> QED
    BY <1>1, <1>2, <1>4, <1>5, <1>6

(* A frame with a field changed is the frame further on. *)
LEMMA FrameVars ==
  ASSUME NEW p, NEW n, NEW f, FrameOK(p, n, f), NEW x, NEW g, g = [f EXCEPT !.vars = x]
  PROVE  FurtherOn(p, n, f, g) /\ g.awaits = f.awaits /\ g.log = f.log
  <1>1. FrameParts(f, f.fn, f.state, f.result, f.vars, f.given, f.log, f.awaits)
    BY FrameRecord
  <1>2. FrameParts(g, f.fn, f.state, f.result, x, f.given, f.log, f.awaits)
    BY <1>1, FrameExcept
  <1>3. /\ g.fn = f.fn /\ g.state = f.state /\ g.result = f.result /\ g.vars = x
        /\ g.given = f.given /\ g.log = f.log /\ g.awaits = f.awaits
        /\ FrameParts(g, g.fn, g.state, g.result, g.vars, g.given, g.log, g.awaits)
    BY <1>2, FrameFields
  <1>4. FrameOK(p, n, g)
    BY <1>3 DEF FrameOK, FrameParts
  <1> QED
    BY <1>3, <1>4 DEF FurtherOn

LEMMA FrameGiven ==
  ASSUME NEW p, NEW n, NEW f, FrameOK(p, n, f), NEW x, NEW g, g = [f EXCEPT !.given = x]
  PROVE  FurtherOn(p, n, f, g) /\ g.awaits = f.awaits /\ g.log = f.log
  <1>1. FrameParts(f, f.fn, f.state, f.result, f.vars, f.given, f.log, f.awaits)
    BY FrameRecord
  <1>2. FrameParts(g, f.fn, f.state, f.result, f.vars, x, f.log, f.awaits)
    BY <1>1, FrameExcept
  <1>3. /\ g.fn = f.fn /\ g.state = f.state /\ g.result = f.result /\ g.vars = f.vars
        /\ g.given = x /\ g.log = f.log /\ g.awaits = f.awaits
        /\ FrameParts(g, g.fn, g.state, g.result, g.vars, g.given, g.log, g.awaits)
    BY <1>2, FrameFields
  <1>4. FrameOK(p, n, g)
    BY <1>3 DEF FrameOK, FrameParts
  <1> QED
    BY <1>3, <1>4 DEF FurtherOn

AtState(g, f, x) == g = [f EXCEPT !.state = x]
LEMMA FrameState ==
  ASSUME NEW p, NEW n, NEW f, FrameOK(p, n, f), NEW x, x \in DOMAIN Machines[p][f.fn].segments,
         NEW g, AtState(g, f, x)
  PROVE  FurtherOn(p, n, f, g) /\ g.awaits = f.awaits /\ g.log = f.log
  <1>1. FrameParts(f, f.fn, f.state, f.result, f.vars, f.given, f.log, f.awaits)
    BY FrameRecord
  <1>2. FrameParts(g, f.fn, x, f.result, f.vars, f.given, f.log, f.awaits)
    BY <1>1, FrameExcept DEF AtState
  <1>3. /\ g.fn = f.fn /\ g.state = x /\ g.result = f.result /\ g.vars = f.vars
        /\ g.given = f.given /\ g.log = f.log /\ g.awaits = f.awaits
        /\ FrameParts(g, g.fn, g.state, g.result, g.vars, g.given, g.log, g.awaits)
    BY <1>2, FrameFields
  <1>4. FrameOK(p, n, g)
    BY <1>3 DEF FrameOK, FrameParts
  <1> QED
    BY <1>3, <1>4 DEF FurtherOn

WithAwaits(g, f, x) == g = [f EXCEPT !.awaits = x]
LEMMA FrameAwaits ==
  ASSUME NEW p, NEW n, NEW f, FrameOK(p, n, f), NEW x \in 0..n, NEW g, WithAwaits(g, f, x)
  PROVE  FurtherOn(p, n, f, g) /\ g.awaits = x /\ g.log = f.log
  <1>1. FrameParts(f, f.fn, f.state, f.result, f.vars, f.given, f.log, f.awaits)
    BY FrameRecord
  <1>2. FrameParts(g, f.fn, f.state, f.result, f.vars, f.given, f.log, x)
    BY <1>1, FrameExcept DEF WithAwaits
  <1>3. /\ g.fn = f.fn /\ g.state = f.state /\ g.result = f.result /\ g.vars = f.vars
        /\ g.given = f.given /\ g.log = f.log /\ g.awaits = x
        /\ FrameParts(g, g.fn, g.state, g.result, g.vars, g.given, g.log, g.awaits)
    BY <1>2, FrameFields
  <1>4. FrameOK(p, n, g)
    BY <1>3 DEF FrameOK, FrameParts
  <1> QED
    BY <1>3, <1>4 DEF FurtherOn

LEMMA FrameLog ==
  ASSUME NEW p, NEW n, NEW f, FrameOK(p, n, f), NEW x, IsSequence(x), NEW g, g = [f EXCEPT !.log = x]
  PROVE  FurtherOn(p, n, f, g) /\ g.awaits = f.awaits /\ g.log = x
  <1>1. FrameParts(f, f.fn, f.state, f.result, f.vars, f.given, f.log, f.awaits)
    BY FrameRecord
  <1>2. FrameParts(g, f.fn, f.state, f.result, f.vars, f.given, x, f.awaits)
    BY <1>1, FrameExcept
  <1>3. /\ g.fn = f.fn /\ g.state = f.state /\ g.result = f.result /\ g.vars = f.vars
        /\ g.given = f.given /\ g.log = x /\ g.awaits = f.awaits
        /\ FrameParts(g, g.fn, g.state, g.result, g.vars, g.given, g.log, g.awaits)
    BY <1>2, FrameFields
  <1>4. FrameOK(p, n, g)
    BY <1>3 DEF FrameOK, FrameParts
  <1> QED
    BY <1>3, <1>4 DEF FurtherOn

LEMMA FrameDid ==
  ASSUME NEW p, NEW n, NEW f, FrameOK(p, n, f), NEW w, NEW g, g = Did(f, w)
  PROVE  FurtherOn(p, n, f, g) /\ g.awaits = f.awaits /\ g.log # <<>> /\ Last(g.log) = w
  <1>1. PICK log : log = Append(f.log, w)
    OBVIOUS
  <1>2. g = [f EXCEPT !.log = log]
    BY <1>1 DEF Did
  <1>3. IsSequence(log) /\ Len(log) = Len(f.log) + 1 /\ Len(f.log) \in Nat /\ log[Len(f.log) + 1] = w
    BY <1>1, AppendFacts DEF FrameOK
  <1>4. FurtherOn(p, n, f, g) /\ g.awaits = f.awaits /\ g.log = log
    BY <1>2, <1>3, FrameLog
  <1>5. log # <<>> /\ Last(log) = w
    BY <1>3 DEF Last
  <1> QED
    BY <1>4, <1>5

LEMMA FurtherAgain ==
  ASSUME NEW p, NEW n, NEW f, NEW g, NEW h, FurtherOn(p, n, f, g), FurtherOn(p, n, g, h)
  PROVE  FurtherOn(p, n, f, h)
  BY DEF FurtherOn
-----------------------------------------------------------------------------
(* Most steps go on with the activation at the top of the stack.            *)
GoesOn(g, s) ==
  /\ stack # <<>>
  /\ FurtherOn(program, Len(heap.promises), Here, g) /\ g.awaits = Here.awaits
  /\ ActivationOK(program, Len(frames), Len(heap.promises), s) /\ s.frame = Current /\ s.at # "called"
Going ==
  /\ \E g, s : GoesOn(g, s) /\ frames' = [frames EXCEPT ![Current] = g] /\ stack' = [stack EXCEPT ![Len(stack)] = s]
  /\ UNCHANGED <<program, job, calls>>

LEMMA HereStays ==
  ASSUME BodiesOK, stack # <<>>
  PROVE  /\ FurtherOn(program, Len(heap.promises), Here, Here) /\ frames = [frames EXCEPT ![Current] = Here]
         /\ Current \in 1..Len(frames) /\ DOMAIN frames = 1..Len(frames)
  <1>1. FrameOK(program, Len(heap.promises), Here)
    BY TopOK
  <1>2. IsSequence(frames) /\ Current \in 1..Len(frames)
    BY TopOK DEF BodiesOK, FramesOK
  <1>3. DOMAIN frames = 1..Len(frames)
    BY <1>2, SequenceFacts
  <1>4. frames = [frames EXCEPT ![Current] = frames[Current]]
    <2>1. PICK S : frames \in Seq(S)
      BY <1>2 DEF IsSequence
    <2> QED
      BY <1>2, <2>1
  <1> QED
    BY <1>1, <1>2, <1>3, <1>4 DEF FurtherOn, Here

LEMMA DispatchGoes ==
  ASSUME BodiesOK, Dispatch
  PROVE  Going /\ heap' = heap
  <1>1. stack # <<>> /\ Top.at = "dispatch" /\ heap' = heap /\ UNCHANGED <<program, job, calls>>
    BY DEF Dispatch
  <1>2. PICK x : x = Machine(Current).sent[Here.state]
    OBVIOUS
  <1>3. PICK c \in 1..Len(frames) : c = Current
    BY <1>1, TopOK
  <1>4. PICK f : f = Here
    OBVIOUS
  <1>5. PICK n : n = Len(heap.promises)
    OBVIOUS
  <1>6. FrameOK(program, n, f) /\ f = frames[c]
    BY <1>1, <1>3, <1>4, <1>5, TopOK DEF Here
  <1>7. PICK g : FurtherOn(program, n, f, g) /\ g.awaits = f.awaits /\ frames' = [frames EXCEPT ![c] = g]
    <2>1. CASE x = ""
      <3>1. frames' = frames
        BY <1>2, <2>1 DEF Dispatch, Received
      <3>2. FurtherOn(program, n, f, f) /\ frames = [frames EXCEPT ![c] = f]
        BY <1>1, <1>3, <1>4, <1>5, HereStays
      <3> QED
        BY <3>1, <3>2
    <2>2. CASE x # ""
      <3>1. PICK v : v = Top.sent
        OBVIOUS
      <3>2. PICK F : F = Field(x)
        OBVIOUS
      <3>3. frames' = [frames EXCEPT ![c].vars[F] = v]
        BY <1>2, <1>3, <2>2, <3>1, <3>2 DEF Dispatch, Received
      <3>4. PICK vars : vars = [f.vars EXCEPT ![F] = v]
        OBVIOUS
      <3>5. PICK g : g = [f EXCEPT !.vars = vars]
        OBVIOUS
      <3>6. FurtherOn(program, n, f, g) /\ g.awaits = f.awaits
        BY <1>6, <3>5, FrameVars
      <3>7. frames' = [frames EXCEPT ![c] = g]
        BY <1>6, <3>3, <3>4, <3>5
      <3> QED
        BY <3>6, <3>7
    <2> QED
      BY <2>1, <2>2
  <1>8. PICK todo : todo = SegmentOf(Current).stmts
    OBVIOUS
  <1>9. todo \in Seq(StatementsOf(program))
    BY <1>1, <1>8, TopOK DEF SegmentOK
  <1>10. PICK s : s = [Top EXCEPT !.at = "run", !.todo = todo]
    OBVIOUS
  <1>11. ActivationOK(program, Len(frames), Len(heap.promises), s) /\ s.frame = Current /\ s.at = "run"
    BY <1>1, <1>9, <1>10, TopGoesOn
  <1>12. stack' = [stack EXCEPT ![Len(stack)] = s]
    BY <1>8, <1>10 DEF Dispatch, Advance
  <1>13. GoesOn(g, s)
    BY <1>1, <1>4, <1>5, <1>7, <1>11 DEF GoesOn
  <1> QED
    BY <1>1, <1>3, <1>7, <1>12, <1>13 DEF Going

(* A statement that does something to its own frame. *)
LEMMA RunsOn ==
  ASSUME BodiesOK, NEW type, Running(type), NEW todo \in Seq(StatementsOf(program)), NEW g,
         FurtherOn(program, Len(heap.promises), Here, g), g.awaits = Here.awaits,
         frames' = [frames EXCEPT ![Current] = g], Advance([Top EXCEPT !.todo = todo]),
         UNCHANGED <<program, job, calls>>
  PROVE  Going
  <1>1. stack # <<>> /\ Top.at = "run"
    BY DEF Running
  <1>2. PICK s : s = [Top EXCEPT !.todo = todo]
    OBVIOUS
  <1>3. ActivationOK(program, Len(frames), Len(heap.promises), s) /\ s.frame = Current /\ s.at = "run"
    BY <1>1, <1>2, TopGoesOn
  <1>4. stack' = [stack EXCEPT ![Len(stack)] = s]
    BY <1>2 DEF Advance
  <1>5. GoesOn(g, s)
    BY <1>1, <1>3 DEF GoesOn
  <1> QED
    BY <1>4, <1>5 DEF Going

LEMMA ContinuesWith ==
  ASSUME BodiesOK, NEW type, Running(type), NEW what, frames' = [frames EXCEPT ![Current] = Did(@, what)], Continue,
         UNCHANGED <<program, job, calls>>
  PROVE  Going
  <1>1. stack # <<>> /\ Top.todo # <<>> /\ Top.todo[1] \in StatementsOf(program)
    BY StatementToRun DEF Next1
  <1>2. PICK todo \in Seq(StatementsOf(program)) : todo = Tail(Top.todo)
    BY StatementToRun
  <1>3. PICK g : g = Did(Here, what)
    OBVIOUS
  <1>4. FurtherOn(program, Len(heap.promises), Here, g) /\ g.awaits = Here.awaits
    BY <1>1, <1>3, TopOK, FrameDid
  <1>5. frames' = [frames EXCEPT ![Current] = g]
    BY <1>3 DEF Here
  <1>6. Advance([Top EXCEPT !.todo = todo])
    BY <1>2 DEF Continue
  <1> QED
    BY <1>4, <1>5, <1>6, RunsOn

LEMMA LogGoes ==
  ASSUME BodiesOK, RunLog
  PROVE  Going /\ heap' = heap
  <1>1. PICK what : what = <<"log", Value(Next1.value)>>
    OBVIOUS
  <1>2. /\ Running("log") /\ frames' = [frames EXCEPT ![Current] = Did(@, what)] /\ Continue
        /\ UNCHANGED <<program, job, calls>> /\ heap' = heap
    BY <1>1 DEF RunLog
  <1> QED
    BY <1>2, ContinuesWith

LEMMA ResolveGoes ==
  ASSUME BodiesOK, RunResolve
  PROVE  Going /\ \E p \in 1..HostPromises : \E v : heap' = Resolve(heap, p, v)
  <1>1. PICK what : what = <<"resolve", Next1.promise>>
    OBVIOUS
  <1>2. PICK v : v = Value(Next1.value)
    OBVIOUS
  <1>3. PICK p : p = Next1.promise
    OBVIOUS
  <1>4. /\ Running("resolve") /\ frames' = [frames EXCEPT ![Current] = Did(@, what)] /\ Continue
        /\ UNCHANGED <<program, job, calls>> /\ heap' = Resolve(heap, p, v)
    BY <1>1, <1>2, <1>3 DEF RunResolve
  <1>5. p \in 1..HostPromises
    BY <1>3, <1>4, StatementToRun DEF StatementOK
  <1> QED
    BY <1>4, <1>5, ContinuesWith

LEMMA ThenGoes ==
  ASSUME BodiesOK, RunThen
  PROVE  Going /\ \E p \in 1..HostPromises : heap' = Then(heap, p, Note)
  <1>1. PICK what : what = <<"then", Next1.promise>>
    OBVIOUS
  <1>2. PICK p : p = Next1.promise
    OBVIOUS
  <1>3. /\ Running("then") /\ frames' = [frames EXCEPT ![Current] = Did(@, what)] /\ Continue
        /\ UNCHANGED <<program, job, calls>> /\ heap' = Then(heap, p, Note)
    BY <1>1, <1>2 DEF RunThen, Note
  <1>4. p \in 1..HostPromises
    BY <1>2, <1>3, StatementToRun DEF StatementOK
  <1> QED
    BY <1>3, <1>4, ContinuesWith

LEMMA AssignmentGoes ==
  ASSUME BodiesOK, RunAssignment
  PROVE  Going /\ heap' = heap
  <1>1. PICK type : Running(type)
    BY DEF RunAssignment
  <1>2. stack # <<>>
    BY <1>1 DEF Running
  <1>3. PICK todo \in Seq(StatementsOf(program)) : todo = Tail(Top.todo)
    BY <1>1, StatementToRun
  <1>4. PICK F : F = Field(Next1.var)
    OBVIOUS
  <1>5. PICK v : v = Value(Next1.value)
    OBVIOUS
  <1>6. PICK f : f = Here
    OBVIOUS
  <1>7. PICK vars : vars = [f.vars EXCEPT ![F] = v]
    OBVIOUS
  <1>8. PICK g : g = [f EXCEPT !.vars = vars]
    OBVIOUS
  <1>9. FurtherOn(program, Len(heap.promises), f, g) /\ g.awaits = f.awaits
    <2>1. PICK n : n = Len(heap.promises)
      OBVIOUS
    <2>2. FrameOK(program, n, f)
      BY <1>2, <1>6, <2>1, TopOK
    <2>3. FurtherOn(program, n, f, g) /\ g.awaits = f.awaits
      <3>1. \A x, w : FrameOK(program, n, w) /\ g = [w EXCEPT !.vars = x] => FurtherOn(program, n, w, g) /\ g.awaits = w.awaits
        BY FrameVars
      <3> QED
        BY <1>8, <2>2, <3>1
    <2> QED
      BY <2>1, <2>3
  <1>10. frames' = [frames EXCEPT ![Current].vars[F] = v]
    BY <1>4, <1>5 DEF RunAssignment
  <1>11. frames' = [frames EXCEPT ![Current] = g]
    BY <1>6, <1>7, <1>8, <1>10 DEF Here
  <1>12. Advance([Top EXCEPT !.todo = todo]) /\ UNCHANGED <<program, job, calls>> /\ heap' = heap
    BY <1>3 DEF RunAssignment, Continue
  <1> QED
    BY <1>1, <1>3, <1>6, <1>9, <1>11, <1>12, RunsOn

LEMMA UnfoldedOK ==
  ASSUME NEW s \in StatementsOf(program), StatementOK(program, s), s.type \in Structured
  PROVE  Unfolded(s) \in Seq(StatementsOf(program))
  <1>1. PICK S : S = StatementsOf(program)
    OBVIOUS
  <1>2. s \in S /\ <<s>> \in Seq(S) /\ <<>> \in Seq(S)
    BY <1>1
  <1>3. CASE s.type = "block"
    BY <1>1, <1>3 DEF StatementOK, Unfolded
  <1>4. CASE s.type = "if"
    BY <1>1, <1>4 DEF StatementOK, Unfolded
  <1>5. CASE s.type = "while"
    <2>1. PICK body : body = s.body
      OBVIOUS
    <2>2. body \in Seq(S)
      BY <1>1, <1>5, <2>1 DEF StatementOK
    <2>3. body \o <<s>> \in Seq(S)
      BY <1>2, <2>2
    <2> QED
      BY <1>1, <1>2, <1>5, <2>1, <2>3 DEF Unfolded
  <1>6. CASE s.type = "do_while"
    <2>1. PICK body : body = s.body
      OBVIOUS
    <2>2. PICK again : again = [s EXCEPT !.type = "while"]
      OBVIOUS
    <2>3. body \in Seq(S) /\ again \in S
      BY <1>1, <1>6, <2>1, <2>2 DEF StatementOK
    <2>4. body \o <<again>> \in Seq(S)
      BY <2>3
    <2> QED
      BY <1>1, <1>6, <2>1, <2>2, <2>4 DEF Unfolded
  <1>7. CASE s.type = "for"
    <2>1. PICK body : body = s.body
      OBVIOUS
    <2>2. PICK init : init = s.init
      OBVIOUS
    <2>3. PICK update : update = s.update
      OBVIOUS
    <2>4. PICK again : again = [s EXCEPT !.init = <<>>]
      OBVIOUS
    <2>5. body \in Seq(S) /\ init \in Seq(S) /\ update \in Seq(S) /\ again \in S
      BY <1>1, <1>7, <2>1, <2>2, <2>3, <2>4 DEF StatementOK
    <2>6. init \o <<again>> \in Seq(S) /\ body \o update \o <<s>> \in Seq(S)
      BY <1>2, <2>5
    <2>7. Unfolded(s) = IF init # <<>> THEN init \o <<again>>
                        ELSE IF s.test = NoCondition \/ Truthy(s.test) THEN body \o update \o <<s>> ELSE <<>>
      BY <1>7, <2>1, <2>2, <2>3, <2>4 DEF Unfolded
    <2> QED
      BY <1>1, <1>2, <2>6, <2>7
  <1> QED
    BY <1>3, <1>4, <1>5, <1>6, <1>7 DEF Structured

LEMMA StructuredGoes ==
  ASSUME BodiesOK, RunStructured
  PROVE  Going /\ heap' = heap
  <1>1. PICK type \in Structured : Running(type)
    BY DEF RunStructured
  <1>2. PICK S : S = StatementsOf(program)
    OBVIOUS
  <1>3. PICK rest : rest = Tail(Top.todo)
    OBVIOUS
  <1>4. PICK unfolded : unfolded = Unfolded(Next1)
    OBVIOUS
  <1>5. rest \in Seq(S) /\ Next1 \in StatementsOf(program) /\ StatementOK(program, Next1) /\ Next1.type \in Structured
    BY <1>1, <1>2, <1>3, StatementToRun
  <1>6. unfolded \in Seq(S)
    BY <1>2, <1>4, <1>5, UnfoldedOK
  <1>7. PICK todo \in Seq(S) : todo = unfolded \o rest
    <2>1. rest \in Seq(S) /\ unfolded \in Seq(S)
      BY <1>5, <1>6
    <2>2. unfolded \o rest \in Seq(S)
      BY <2>1
    <2> QED
      BY <2>2
  <1>8. stack # <<>>
    BY <1>1 DEF Running
  <1>9. PICK g : g = Here
    OBVIOUS
  <1>10. FurtherOn(program, Len(heap.promises), Here, g) /\ g.awaits = Here.awaits /\ frames = [frames EXCEPT ![Current] = g]
    BY <1>8, <1>9, HereStays
  <1>11. /\ Advance([Top EXCEPT !.todo = todo]) /\ UNCHANGED <<program, job, calls>> /\ heap' = heap
         /\ frames' = frames
    BY <1>3, <1>4, <1>7 DEF RunStructured
  <1>12. frames' = [frames EXCEPT ![Current] = g] /\ todo \in Seq(StatementsOf(program))
    BY <1>2, <1>7, <1>10, <1>11
  <1> QED
    BY <1>1, <1>10, <1>11, <1>12, RunsOn

(* A transition within the body. *)
LEMMA DispatchesAgain ==
  ASSUME BodiesOK, stack # <<>>, NEW g, FurtherOn(program, Len(heap.promises), Here, g), g.awaits = Here.awaits,
         frames' = [frames EXCEPT ![Current] = g], Advance([Top EXCEPT !.at = "dispatch"]),
         UNCHANGED <<program, job, calls>>
  PROVE  Going
  <1>1. PICK s : s = [Top EXCEPT !.at = "dispatch"]
    OBVIOUS
  <1>2. ActivationOK(program, Len(frames), Len(heap.promises), s) /\ s.frame = Current /\ s.at = "dispatch"
    BY <1>1, TopGoesOn
  <1>3. stack' = [stack EXCEPT ![Len(stack)] = s]
    BY <1>1 DEF Advance
  <1>4. GoesOn(g, s)
    BY <1>2 DEF GoesOn
  <1> QED
    BY <1>3, <1>4 DEF Going

LEMMA HereState ==
  ASSUME BodiesOK, stack # <<>>, NEW id \in DOMAIN Machine(Current).segments, NEW g, AtState(g, Here, id)
  PROVE  FurtherOn(program, Len(heap.promises), Here, g) /\ g.awaits = Here.awaits /\ g.log = Here.log
  <1>1. PICK f : f = Here
    OBVIOUS
  <1>2. PICK n : n = Len(heap.promises)
    OBVIOUS
  <1>3. FrameOK(program, n, f)
    BY <1>1, <1>2, TopOK
  <1>4. id \in DOMAIN Machines[program][f.fn].segments /\ AtState(g, f, id)
    BY <1>1 DEF Machine, Here
  <1>5. FurtherOn(program, n, f, g) /\ g.awaits = f.awaits /\ g.log = f.log
    BY <1>3, <1>4, FrameState
  <1> QED
    BY <1>1, <1>2, <1>5

LEMMA RedispatchGoes ==
  ASSUME BodiesOK, stack # <<>>, NEW id \in DOMAIN Machine(Current).segments, Redispatch(id)
  PROVE  Going /\ heap' = heap
  <1>1. PICK g : g = [Here EXCEPT !.state = id]
    OBVIOUS
  <1>2. FurtherOn(program, Len(heap.promises), Here, g) /\ g.awaits = Here.awaits
    <2>1. AtState(g, Here, id)
      BY <1>1 DEF AtState
    <2> QED
      BY <2>1, HereState
  <1>3. frames' = [frames EXCEPT ![Current] = g]
    BY <1>1 DEF Redispatch, Here
  <1>4. Advance([Top EXCEPT !.at = "dispatch"]) /\ UNCHANGED <<program, job, calls>> /\ heap' = heap
    BY DEF Redispatch
  <1> QED
    BY <1>2, <1>3, <1>4, DispatchesAgain

(* The segments a transition leads to. *)
LEMMA TransitionOK ==
  ASSUME BodiesOK, NEW type, Transition(type)
  PROVE  /\ stack # <<>> /\ NextOf.type = type /\ SegmentOK(program, Machine(Current), SegmentOf(Current))
         /\ Targets(NextOf) \subseteq DOMAIN Machine(Current).segments
         /\ type = "suspend" => NextOf.resume \in DOMAIN Machine(Current).segments
  <1>1. stack # <<>> /\ NextOf.type = type
    BY DEF Transition, NextOf
  <1>2. SegmentOK(program, Machine(Current), SegmentOf(Current))
    BY <1>1, TopOK
  <1>3. Targets(NextOf) \subseteq DOMAIN Machine(Current).segments
    BY <1>2 DEF SegmentOK, NextOf
  <1> QED
    BY <1>1, <1>2, <1>3 DEF Targets

LEMMA GotoGoes ==
  ASSUME BodiesOK, TakeGoto \/ TakeBranch
  PROVE  Going /\ heap' = heap
  <1>1. CASE TakeGoto
    <2>1. Transition("goto") /\ Redispatch(NextOf.target)
      BY <1>1 DEF TakeGoto
    <2>2. stack # <<>> /\ NextOf.target \in DOMAIN Machine(Current).segments
      BY <2>1, TransitionOK DEF Targets
    <2> QED
      BY <2>1, <2>2, RedispatchGoes
  <1>2. CASE TakeBranch
    <2>1. PICK id \in {NextOf.then, NextOf.else} : Transition("branch") /\ Redispatch(id)
      BY <1>2 DEF TakeBranch
    <2>2. stack # <<>> /\ id \in DOMAIN Machine(Current).segments
      BY <2>1, TransitionOK DEF Targets
    <2> QED
      BY <2>1, <2>2, RedispatchGoes
  <1> QED
    BY <1>1, <1>2

LEMMA AwaitOfValueGoes ==
  ASSUME BodiesOK, TakeAwaitOfValue
  PROVE  Going /\ heap' = heap
  <1>1. Transition("suspend")
    BY DEF TakeAwaitOfValue, AwaitOfValue, Awaiting
  <1>2. PICK id \in DOMAIN Machine(Current).segments : id = NextOf.resume
    BY <1>1, TransitionOK
  <1>3. stack # <<>>
    BY <1>1, TransitionOK
  <1>4. PICK vars : vars = Unwrapped
    OBVIOUS
  <1>5. PICK f : f = Here
    OBVIOUS
  <1>6. PICK n : n = Len(heap.promises)
    OBVIOUS
  <1>7. FrameOK(program, n, f) /\ id \in DOMAIN Machines[program][f.fn].segments
    BY <1>2, <1>3, <1>5, <1>6, TopOK DEF Machine, Here
  <1>8. PICK e : e = [f EXCEPT !.vars = vars]
    OBVIOUS
  <1>9. PICK g : g = [e EXCEPT !.state = id]
    OBVIOUS
  <1>10. FurtherOn(program, n, f, e) /\ e.awaits = f.awaits
    <2>1. \A x, w : FrameOK(program, n, w) /\ e = [w EXCEPT !.vars = x]
                      => FurtherOn(program, n, w, e) /\ e.awaits = w.awaits
      BY FrameVars
    <2> QED
      BY <1>7, <1>8, <2>1
  <1>11. FrameOK(program, n, e) /\ id \in DOMAIN Machines[program][e.fn].segments
    BY <1>7, <1>10 DEF FurtherOn
  <1>12. FurtherOn(program, n, e, g) /\ g.awaits = e.awaits
    <2>1. AtState(g, e, id)
      BY <1>9 DEF AtState
    <2> QED
      BY <1>11, <2>1, FrameState
  <1>13. FurtherOn(program, n, f, g) /\ g.awaits = f.awaits
    BY <1>10, <1>12, FurtherAgain
  <1>14. frames' = [frames EXCEPT ![Current].vars = vars, ![Current].state = id]
    BY <1>2, <1>4 DEF TakeAwaitOfValue, AwaitOfValue
  <1>15. frames' = [frames EXCEPT ![Current] = g]
    <2>1. PICK c \in 1..Len(frames) : c = Current
      BY <1>3, TopOK
    <2>2. frames' = [frames EXCEPT ![c].vars = vars, ![c].state = id] /\ f = frames[c]
      BY <1>5, <1>14, <2>1 DEF Here
    <2>3. DOMAIN frames = 1..Len(frames)
      BY <1>3, HereStays
    <2>4. frames' = [frames EXCEPT ![c] = g]
      BY <1>8, <1>9, <2>2, <2>3
    <2> QED
      BY <2>1, <2>4
  <1>16. Advance([Top EXCEPT !.at = "dispatch"]) /\ UNCHANGED <<program, job, calls>> /\ heap' = heap
    BY DEF TakeAwaitOfValue, AwaitOfValue
  <1> QED
    BY <1>3, <1>5, <1>6, <1>13, <1>15, <1>16, DispatchesAgain
-----------------------------------------------------------------------------
(* A call: a promise is made, and a frame that runs at once.                *)
NewBody(fn) == NewFrame(fn, Len(heap.promises) + 1)
CallsFrom(g, s, fn) ==
  /\ stack # <<>> /\ fn \in DOMAIN program /\ Machines[program][fn].kind = "async"
  /\ FurtherOn(program, Len(heap.promises), Here, g) /\ g.awaits = Here.awaits
  /\ ActivationOK(program, Len(frames), Len(heap.promises) + 1, s) /\ s.frame = Current
  /\ s.at = "called" => NextOf.type = "suspend" /\ g.state = Here.state
Calling ==
  /\ \E g, s, fn : /\ CallsFrom(g, s, fn)
                   /\ frames' = [Append(frames, NewBody(fn)) EXCEPT ![Current] = g]
                   /\ stack' = Append(Front(stack), s) \o <<Starting>>
  /\ heap' = NewPromise(heap, Default)
  /\ UNCHANGED <<program, job, calls>>

LEMMA NewFrameOK ==
  ASSUME ProgramOK, NEW fn \in DOMAIN program, NEW n \in Nat, NEW r,
         Machines[program][fn].kind = "async" => r \in (HostPromises + 1)..n
  PROVE  /\ FrameOK(program, n, NewFrame(fn, r))
         /\ NewFrame(fn, r).fn = fn /\ NewFrame(fn, r).result = r /\ NewFrame(fn, r).awaits = 0
  <1>1. PICK vars : vars = [field \in Range(Machines[program][fn].fields) |-> Default]
    OBVIOUS
  <1>2. PICK entry : entry = Machines[program][fn].entry
    OBVIOUS
  <1>3. PICK g : g = NewFrame(fn, r)
    OBVIOUS
  <1>4. FrameParts(g, fn, entry, r, vars, <<>>, <<>>, 0)
    BY <1>1, <1>2, <1>3 DEF NewFrame, FrameParts
  <1>5. /\ g.fn = fn /\ g.state = entry /\ g.result = r /\ g.log = <<>> /\ g.awaits = 0
        /\ FrameParts(g, g.fn, g.state, g.result, g.vars, g.given, g.log, g.awaits)
    BY <1>4, FrameFields
  <1>6. entry \in DOMAIN Machines[program][fn].segments
    BY <1>2, WellFormed DEF MachineOK
  <1>7. IsSequence(<<>>) /\ 0 \in 0..n
    BY DEF IsSequence
  <1>8. FrameOK(program, n, g)
    BY <1>5, <1>6, <1>7 DEF FrameOK, FrameParts
  <1> QED
    BY <1>3, <1>5, <1>8

LEMMA StartCalls ==
  ASSUME BodiesOK, HeapTypeOK(heap), RunStart
  PROVE  Calling
  <1>1. Running("start")
    BY DEF RunStart
  <1>2. PICK fn : fn = Next1.fn
    OBVIOUS
  <1>3. stack # <<>> /\ fn \in DOMAIN program /\ Machines[program][fn].kind = "async"
    BY <1>1, <1>2, StatementToRun, WellFormed DEF StatementOK, BodiesOK
  <1>4. PICK n \in Nat : n = Len(heap.promises)
    BY HeapLengths
  <1>5. PICK f : f = Here
    OBVIOUS
  <1>6. PICK what : what = <<"start", fn>>
    OBVIOUS
  <1>7. PICK g : g = Did(f, what)
    OBVIOUS
  <1>8. FurtherOn(program, n, f, g) /\ g.awaits = f.awaits
    <2>1. FrameOK(program, n, f)
      BY <1>3, <1>4, <1>5, TopOK
    <2> QED
      BY <1>7, <2>1, FrameDid
  <1>9. PICK todo \in Seq(StatementsOf(program)) : todo = Tail(Top.todo)
    BY <1>1, StatementToRun
  <1>10. PICK s : s = [Top EXCEPT !.todo = todo]
    OBVIOUS
  <1>11. ActivationOK(program, Len(frames), n, s) /\ s.frame = Current /\ s.at = "run"
    <2>1. Top.at = "run"
      BY <1>1 DEF Running
    <2> QED
      BY <1>3, <1>4, <1>10, <2>1, TopGoesOn
  <1>12. ActivationOK(program, Len(frames), n + 1, s)
    <2>1. 1..n \subseteq 1..(n + 1)
      BY <1>4
    <2> QED
      BY <1>11, <2>1 DEF ActivationOK
  <1>13. heap' = NewPromise(heap, Default)
    BY DEF RunStart, Called
  <1>14. Newest(heap') = n + 1
    BY <1>4, <1>13, NewMakes DEF NewEffect, Newest
  <1>15. frames' = [Append(frames, NewBody(fn)) EXCEPT ![Current] = g]
    <2>1. PICK new : new = NewBody(fn)
      OBVIOUS
    <2>2. PICK c \in 1..Len(frames) : c = Current
      BY <1>3, TopOK
    <2>3. frames' = [Append(frames, new) EXCEPT ![c] = Did(@, what)]
      BY <1>2, <1>4, <1>6, <1>14, <2>1, <2>2 DEF RunStart, Started, NewBody
    <2>4. PICK more : more = Append(frames, new)
      OBVIOUS
    <2>5. more[c] = f
      BY <1>5, <2>2, <2>4, AppendFacts DEF BodiesOK, FramesOK, Here
    <2>6. frames' = [more EXCEPT ![c] = g]
      BY <1>7, <2>3, <2>4, <2>5
    <2> QED
      BY <2>1, <2>2, <2>4, <2>6
  <1>16. stack' = Append(Front(stack), s) \o <<Starting>>
    BY <1>9, <1>10 DEF RunStart
  <1>17. CallsFrom(g, s, fn)
    BY <1>3, <1>4, <1>5, <1>8, <1>11, <1>12 DEF CallsFrom
  <1>18. UNCHANGED <<program, job, calls>>
    BY DEF RunStart
  <1> QED
    BY <1>13, <1>15, <1>16, <1>17, <1>18 DEF Calling

LEMMA AwaitCalls ==
  ASSUME BodiesOK, HeapTypeOK(heap), TakeAwaitOfCall
  PROVE  Calling
  <1>1. Transition("suspend") /\ NextOf.kind = "await"
    BY DEF TakeAwaitOfCall, Awaiting
  <1>2. PICK fn : fn = NextOf.operand.fn
    OBVIOUS
  <1>3. OperandOK(program, NextOf.operand)
    BY <1>1, TransitionOK DEF SegmentOK, NextOf
  <1>4. stack # <<>> /\ fn \in DOMAIN program /\ Machines[program][fn].kind = "async"
    BY <1>1, <1>2, <1>3, TransitionOK, WellFormed DEF OperandOK, BodiesOK, TakeAwaitOfCall
  <1>5. PICK n \in Nat : n = Len(heap.promises)
    BY HeapLengths
  <1>6. PICK g : g = Here
    OBVIOUS
  <1>7. FurtherOn(program, n, Here, g) /\ g.awaits = Here.awaits
    BY <1>4, <1>5, <1>6, HereStays
  <1>8. heap' = NewPromise(heap, Default)
    BY DEF TakeAwaitOfCall, Called
  <1>9. Newest(heap') = n + 1
    BY <1>5, <1>8, NewMakes DEF NewEffect, Newest
  <1>10. PICK top : top = Top
    OBVIOUS
  <1>11. PICK s1 : s1 = [top EXCEPT !.at = "called"]
    OBVIOUS
  <1>12. PICK v : v = Num(n + 1)
    OBVIOUS
  <1>13. PICK s : s = [s1 EXCEPT !.sent = v]
    OBVIOUS
  <1>14. PICK c \in 1..Len(frames) : c = Current
    BY <1>4, TopOK
  <1>15. ActivationOK(program, Len(frames), n + 1, s) /\ s.frame = c
    <2>1. ActivationParts(top, c, top.sent, top.at, top.todo) /\ top.todo \in Seq(StatementsOf(program))
      BY <1>4, <1>10, <1>14, TopParts
    <2>2. ActivationParts(s1, c, top.sent, "called", top.todo)
      BY <1>11, <2>1, ActivationExcept
    <2>3. ActivationParts(s, c, v, "called", top.todo)
      BY <1>13, <2>2, ActivationExcept
    <2>4. PICK m : m = n + 1
      OBVIOUS
    <2>5. v[2] \in 1..m
      BY <1>5, <1>12, <2>4 DEF Num
    <2>6. PICK todo \in Seq(StatementsOf(program)) : todo = top.todo
      BY <2>1
    <2>7. ActivationParts(s, c, v, "called", todo)
      BY <2>3, <2>6
    <2>8. ActivationOK(program, Len(frames), m, s) /\ s.frame = c
      BY <2>5, <2>7, ActivationOf
    <2> QED
      BY <2>4, <2>8
  <1>16. frames' = [Append(frames, NewBody(fn)) EXCEPT ![Current] = g]
    <2>1. PICK more : more = Append(frames, NewBody(fn))
      OBVIOUS
    <2>2. frames' = more
      BY <1>2, <1>5, <1>9, <2>1 DEF TakeAwaitOfCall, Started, NewBody
    <2>3. IsSequence(more) /\ c \in 1..Len(more) /\ more[c] = g
      BY <1>6, <1>14, <2>1, AppendFacts DEF BodiesOK, FramesOK, Here
    <2>4. [more EXCEPT ![c] = g] = more
      <3>1. PICK S : more \in Seq(S)
        BY <2>3 DEF IsSequence
      <3> QED
        BY <2>3, <3>1
    <2> QED
      BY <1>14, <2>1, <2>2, <2>4
  <1>17. stack' = Append(Front(stack), s) \o <<Starting>>
    BY <1>9, <1>10, <1>11, <1>12, <1>13 DEF TakeAwaitOfCall
  <1>18. CallsFrom(g, s, fn)
    <2>1. NextOf.type = "suspend"
      BY <1>1, TransitionOK
    <2> QED
      BY <1>4, <1>5, <1>6, <1>7, <1>14, <1>15, <2>1 DEF CallsFrom
  <1>19. UNCHANGED <<program, job, calls>>
    BY DEF TakeAwaitOfCall
  <1> QED
    BY <1>8, <1>16, <1>17, <1>18, <1>19 DEF Calling
-----------------------------------------------------------------------------
(* An activation ends: its body yields, waits or is done.                   *)
LeavesWith(n, g) ==
  /\ stack # <<>> /\ FurtherOn(program, n, Here, g)
  /\ frames' = [frames EXCEPT ![Current] = g] /\ stack' = Front(stack)
  /\ UNCHANGED <<program, job, calls>>

LEMMA HereFurther ==
  ASSUME BodiesOK, HeapTypeOK(heap), stack # <<>>, NEW n \in Nat, Len(heap.promises) <= n, NEW f, f = Here
  PROVE  FrameOK(program, n, f) /\ Machine(Current) = Machines[program][f.fn]
  <1>1. FramesOK(program, n, frames)
    BY HeapLengths, FramesStill DEF BodiesOK
  <1>2. FrameOK(program, n, f)
    BY <1>1, TopOK DEF FramesOK, Here
  <1> QED
    BY <1>2 DEF Machine, Here

LEMMA YieldLeaves ==
  ASSUME BodiesOK, HeapTypeOK(heap), TakeYield
  PROVE  /\ \E g : LeavesWith(Len(heap.promises), g) /\ g.awaits = Here.awaits
         /\ heap' = heap /\ ~Async(Current)
  <1>1. Transition("suspend") /\ NextOf.kind = "yield"
    BY DEF TakeYield
  <1>2. PICK id : id = NextOf.resume
    OBVIOUS
  <1>3. stack # <<>> /\ id \in DOMAIN Machine(Current).segments /\ Kind(Current) = "generator"
    <2>1. stack # <<>> /\ id \in DOMAIN Machine(Current).segments
      BY <1>1, <1>2, TransitionOK
    <2>2. NextOf.type = "suspend" /\ SegmentOK(program, Machine(Current), SegmentOf(Current))
      BY <1>1, TransitionOK
    <2>3. Machine(Current).kind = "generator"
      BY <1>1, <2>2 DEF SegmentOK, NextOf
    <2> QED
      BY <2>1, <2>3 DEF Kind
  <1>4. PICK n \in Nat : n = Len(heap.promises)
    BY HeapLengths
  <1>5. PICK f : f = Here
    OBVIOUS
  <1>6. FrameOK(program, n, f) /\ id \in DOMAIN Machines[program][f.fn].segments
    <2>1. FrameOK(program, n, f) /\ Machine(Current) = Machines[program][f.fn]
      BY <1>3, <1>4, <1>5, HereFurther
    <2> QED
      BY <1>3, <2>1
  <1>7. PICK what : what = <<"yield", Value(NextOf.operand)>>
    OBVIOUS
  <1>8. PICK e : e = Did(f, what)
    OBVIOUS
  <1>9. FurtherOn(program, n, f, e) /\ e.awaits = f.awaits
    BY <1>6, <1>8, FrameDid
  <1>10. PICK g : AtState(g, e, id)
    BY DEF AtState
  <1>11. FrameOK(program, n, e) /\ id \in DOMAIN Machines[program][e.fn].segments
    BY <1>6, <1>9 DEF FurtherOn
  <1>12. FurtherOn(program, n, e, g) /\ g.awaits = e.awaits
    BY <1>10, <1>11, FrameState
  <1>13. FurtherOn(program, n, f, g) /\ g.awaits = f.awaits
    BY <1>9, <1>12, FurtherAgain
  <1>14. frames' = [frames EXCEPT ![Current] = g]
    <2>1. g = [e EXCEPT !.state = id]
      BY <1>10 DEF AtState
    <2>2. frames' = [frames EXCEPT ![Current] = [Did(@, what) EXCEPT !.state = id]]
      BY <1>2, <1>7 DEF TakeYield
    <2> QED
      BY <1>5, <1>8, <2>1, <2>2 DEF Here
  <1>15. stack' = Front(stack) /\ UNCHANGED <<program, job, calls>> /\ heap' = heap
    BY DEF TakeYield, Leave
  <1>16. LeavesWith(n, g)
    BY <1>3, <1>5, <1>13, <1>14, <1>15 DEF LeavesWith
  <1> QED
    BY <1>3, <1>4, <1>5, <1>13, <1>15, <1>16 DEF Async

LEMMA FinishedLeaves ==
  ASSUME BodiesOK, HeapTypeOK(heap), stack # <<>>, NEW v, Finished(v)
  PROVE  /\ \E g : /\ LeavesWith(Len(heap.promises), g) /\ g.awaits = Here.awaits
                   /\ g.log # <<>> /\ Last(g.log) = <<"done", v>>
         /\ heap' = IF Async(Current) THEN Resolve(heap, Here.result, v) ELSE heap
  <1>1. PICK n \in Nat : n = Len(heap.promises)
    BY HeapLengths
  <1>2. PICK f : f = Here
    OBVIOUS
  <1>3. FrameOK(program, n, f) /\ Machine(Current) = Machines[program][f.fn]
    BY <1>1, <1>2, HereFurther
  <1>4. PICK what : what = <<"done", v>>
    OBVIOUS
  <1>5. PICK e : e = Did(f, what)
    OBVIOUS
  <1>6. FurtherOn(program, n, f, e) /\ e.awaits = f.awaits /\ e.log # <<>> /\ Last(e.log) = what
    BY <1>3, <1>5, FrameDid
  <1>7. PICK id : id = IF Kind(Current) = "async" THEN f.state ELSE CompleteState
    OBVIOUS
  <1>8. FrameOK(program, n, e) /\ e.fn = f.fn
    BY <1>6 DEF FurtherOn
  <1>9. f.state \in DOMAIN Machines[program][f.fn].segments
    BY <1>3 DEF FrameOK
  <1>10. CompleteState \in DOMAIN Machines[program][f.fn].segments
    BY <1>3, TopOK DEF MachineOK
  <1>11. id \in DOMAIN Machines[program][e.fn].segments
    BY <1>7, <1>8, <1>9, <1>10
  <1>12. PICK g : AtState(g, e, id)
    BY DEF AtState
  <1>13. FurtherOn(program, n, e, g) /\ g.awaits = e.awaits /\ g.log = e.log
    <2>1. FrameOK(program, n, e)
      BY <1>8
    <2> QED
      BY <1>11, <1>12, <2>1, FrameState
  <1>14. FurtherOn(program, n, f, g) /\ g.awaits = f.awaits
    BY <1>6, <1>13, FurtherAgain
  <1>15. frames' = [frames EXCEPT ![Current] = g]
    <2>1. g = [e EXCEPT !.state = id]
      BY <1>12 DEF AtState
    <2>2. PICK c : c = Current
      OBVIOUS
    <2>3. f = frames[c]
      BY <1>2, <2>2 DEF Here
    <2>4. frames' = [frames EXCEPT ![c] = [Did(@, what) EXCEPT !.state = id]]
      BY <1>2, <1>4, <1>7, <2>2 DEF Finished
    <2> QED
      BY <1>5, <2>1, <2>2, <2>3, <2>4
  <1>16. /\ stack' = Front(stack) /\ UNCHANGED <<program, job, calls>>
         /\ heap' = IF Async(Current) THEN Resolve(heap, Here.result, v) ELSE heap
    BY DEF Finished, Leave, Async
  <1>17. LeavesWith(n, g)
    BY <1>2, <1>14, <1>15, <1>16 DEF LeavesWith
  <1> QED
    BY <1>1, <1>2, <1>4, <1>6, <1>13, <1>14, <1>16, <1>17

LEMMA DoneLeaves ==
  ASSUME BodiesOK, RunReturn \/ TakeComplete
  PROVE  stack # <<>> /\ \E v : Finished(v)
  BY DEF RunReturn, TakeComplete, Running, Transition

(* Waiting for p in the heap h. *)
SuspendsOn(h, p) == heap' = Then(h, p, Resume(Current)) /\ \E g : LeavesWith(Len(h.promises), g) /\ g.awaits = p

LEMMA SuspendLeaves ==
  ASSUME BodiesOK, HeapTypeOK(heap), stack # <<>>, NEW h, Len(h.promises) \in Nat, Len(heap.promises) <= Len(h.promises),
         NEW p \in 1..Len(h.promises), SuspendOn(h, p, frames), NextOf.resume \in DOMAIN Machine(Current).segments,
         UNCHANGED <<program, job, calls>>
  PROVE  SuspendsOn(h, p)
  <1>1. PICK n \in Nat : n = Len(h.promises)
    OBVIOUS
  <1>2. PICK f : f = Here
    OBVIOUS
  <1>3. PICK id : id = NextOf.resume
    OBVIOUS
  <1>4. FrameOK(program, n, f) /\ id \in DOMAIN Machines[program][f.fn].segments
    <2>1. FrameOK(program, n, f) /\ Machine(Current) = Machines[program][f.fn]
      BY <1>1, <1>2, HereFurther
    <2> QED
      BY <1>3, <2>1
  <1>5. PICK what : what = <<"await", NextOf.operand>>
    OBVIOUS
  <1>6. PICK e : e = Did(f, what)
    OBVIOUS
  <1>7. FurtherOn(program, n, f, e)
    BY <1>4, <1>6, FrameDid
  <1>8. PICK a : AtState(a, e, id)
    BY DEF AtState
  <1>9. FrameOK(program, n, e) /\ id \in DOMAIN Machines[program][e.fn].segments
    BY <1>4, <1>7 DEF FurtherOn
  <1>10. FurtherOn(program, n, e, a)
    BY <1>8, <1>9, FrameState
  <1>11. PICK g : WithAwaits(g, a, p)
    BY DEF WithAwaits
  <1>12. FurtherOn(program, n, a, g) /\ g.awaits = p
    <2>1. p \in 0..n /\ FrameOK(program, n, a)
      BY <1>1, <1>10 DEF FurtherOn
    <2> QED
      BY <1>11, <2>1, FrameAwaits
  <1>13. FurtherOn(program, n, f, g)
    <2>1. FurtherOn(program, n, f, a)
      BY <1>7, <1>10, FurtherAgain
    <2> QED
      BY <1>12, <2>1, FurtherAgain
  <1>14. frames' = [frames EXCEPT ![Current] = g]
    <2>1. a = [e EXCEPT !.state = id] /\ g = [a EXCEPT !.awaits = p]
      BY <1>8, <1>11 DEF AtState, WithAwaits
    <2>2. g = [e EXCEPT !.state = id, !.awaits = p]
      BY <2>1
    <2>3. frames' = [frames EXCEPT ![Current] = [Did(@, what) EXCEPT !.state = id, !.awaits = p]]
      BY <1>3, <1>5 DEF SuspendOn
    <2> QED
      BY <1>2, <1>6, <2>2, <2>3 DEF Here
  <1>15. stack' = Front(stack) /\ heap' = Then(h, p, Resume(Current))
    BY DEF SuspendOn, Leave
  <1>16. LeavesWith(n, g)
    BY <1>2, <1>13, <1>14, <1>15 DEF LeavesWith
  <1> QED
    BY <1>1, <1>12, <1>15, <1>16 DEF SuspendsOn

(* Of a promise there is, or of that of a Promise.all just made. *)
LEMMA AwaitLeaves ==
  ASSUME BodiesOK, CallsWait, Orderly(heap), TakeAwait \/ CallReturned
  PROVE  \/ \E p \in 1..Len(heap.promises) : SuspendsOn(heap, p)
         \/ \E ps \in Seq(1..Len(heap.promises)) : SuspendsOn(All(heap, ps), Len(heap.promises) + 1)
  <1>1. HeapTypeOK(heap)
    BY DEF Orderly, HeapOK
  <1>2. Len(heap.promises) \in Nat
    BY <1>1, HeapLengths
  <1>3. CASE CallReturned
    <2>1. stack # <<>> /\ Top.at = "called" /\ SuspendOn(heap, Top.sent[2], frames) /\ UNCHANGED <<program, job, calls>>
      BY <1>3 DEF CallReturned
    <2>2. PICK p \in 1..Len(heap.promises) : p = Top.sent[2]
      BY <2>1, TopOK DEF ActivationOK
    <2>3. Len(stack) \in 1..Len(stack)
      BY <2>1, TopOK
    <2>4. NextOf.type = "suspend"
      BY <2>1, <2>3 DEF CallsWait, CalledWait, Suspends, NextOf, SegmentOf, Machine, Current, Top
    <2>5. SegmentOK(program, Machine(Current), SegmentOf(Current))
      BY <2>1, TopOK
    <2>6. NextOf.resume \in DOMAIN Machine(Current).segments
      BY <2>4, <2>5 DEF SegmentOK, NextOf, Targets
    <2>7. SuspendOn(heap, p, frames)
      BY <2>1, <2>2
    <2>8. SuspendsOn(heap, p)
      BY <1>1, <1>2, <2>1, <2>6, <2>7, SuspendLeaves
    <2> QED
      BY <2>8
  <1>4. CASE TakeAwait
    <2>1. Transition("suspend") /\ NextOf.kind = "await" /\ UNCHANGED <<program, job, calls>>
      BY <1>4 DEF TakeAwait, Awaiting
    <2>2. stack # <<>> /\ NextOf.resume \in DOMAIN Machine(Current).segments
      BY <2>1, TransitionOK
    <2>3. OperandOK(program, NextOf.operand)
      BY <2>1, TransitionOK DEF SegmentOK, NextOf
    <2>4. CASE NextOf.operand.is = "promise"
      <3>1. PICK p : p = NextOf.operand.promise
        OBVIOUS
      <3>2. p \in 1..Len(heap.promises)
        BY <1>1, <2>3, <2>4, <3>1, Lengths DEF OperandOK
      <3>3. SuspendOn(heap, p, frames)
        BY <1>4, <2>4, <3>1 DEF TakeAwait
      <3>4. SuspendsOn(heap, p)
        BY <1>1, <1>2, <2>1, <2>2, <3>2, <3>3, SuspendLeaves
      <3> QED
        BY <3>2, <3>4
    <2>5. CASE NextOf.operand.is = "all"
      <3>1. PICK ps : ps = NextOf.operand.promises
        OBVIOUS
      <3>2. ps \in Seq(1..Len(heap.promises))
        <4>1. PICK A : A = 1..HostPromises
          OBVIOUS
        <4>2. PICK B : B = 1..Len(heap.promises)
          OBVIOUS
        <4>3. ps \in Seq(A) /\ A \subseteq B
          BY <1>1, <2>3, <2>5, <3>1, <4>1, <4>2, Lengths DEF OperandOK
        <4>4. ps \in Seq(B)
          BY <4>3
        <4> QED
          BY <4>2, <4>4
      <3>3. PICK h : h = All(heap, ps)
        OBVIOUS
      <3>4. AllEffect(heap, h, ps)
        BY <3>2, <3>3, AllMakes
      <3>5. PICK n \in Nat : n = Len(heap.promises)
        BY <1>2
      <3>6. PICK p : p = n + 1
        OBVIOUS
      <3>7. Len(h.promises) = p /\ Len(h.alls) = Len(heap.alls) + 1 /\ h.alls[Len(heap.alls) + 1] = NewAll(heap, ps)
        BY <3>4, <3>5, <3>6 DEF AllEffect
      <3>8. NewAll(heap, ps).result = p
        BY <3>5, <3>6 DEF NewAll
      <3>9. SuspendOn(h, p, frames)
        BY <1>4, <2>5, <3>1, <3>3, <3>7, <3>8 DEF TakeAwait
      <3>10. Len(h.promises) \in Nat /\ Len(heap.promises) <= Len(h.promises) /\ p \in 1..Len(h.promises)
        BY <3>5, <3>6, <3>7
      <3>11. SuspendsOn(h, p)
        BY <1>1, <2>1, <2>2, <3>9, <3>10, SuspendLeaves
      <3> QED
        BY <3>2, <3>3, <3>5, <3>6, <3>11
    <2> QED
      BY <1>4, <2>4, <2>5 DEF TakeAwait
  <1> QED
    BY <1>3, <1>4
-----------------------------------------------------------------------------
(* The bodies after each kind of step.                                      *)
FewerCalls(st, ts) ==
  /\ Len(ts) \in Nat /\ Len(ts) <= Len(st)
  /\ \A k \in 1..Len(ts) : ts[k].frame = st[k].frame /\ (ts[k].at = "called" => k < Len(st) /\ st[k].at = "called")
OneMoreCall(st, ts) ==
  /\ Len(ts) = Len(st) + 1
  /\ \A k \in 1..Len(st) : ts[k].frame = st[k].frame /\ (k < Len(st) => ts[k].at = st[k].at)
  /\ \A k \in 1..Len(st) : st[k].frame # ts[Len(st) + 1].frame
  /\ ts[Len(st) + 1].at = "dispatch"
OthersStill(fs, gs, st) == \A k \in 1..Len(st) : st[k].frame # st[Len(st)].frame => gs[st[k].frame] = fs[st[k].frame]

LEMMA NotTheTop ==
  ASSUME NEW st, IsSequence(st), st # <<>>, Apart(st), NEW k \in 1..Len(st), k < Len(st)
  PROVE  st[k].frame # st[Len(st)].frame
  <1>1. Len(st) \in Nat /\ Len(st) \in 1..Len(st)
    BY FrontFacts
  <1> QED
    BY <1>1 DEF Apart

LEMMA CallsFewer ==
  ASSUME NEW p, NEW fs, NEW st, IsSequence(st), st # <<>>, Apart(st), CalledWait(p, fs, st), NEW gs, NEW ts,
         FewerCalls(st, ts), OthersStill(fs, gs, st)
  PROVE  Apart(ts) /\ CalledWait(p, gs, ts)
  <1>1. Len(st) \in Nat
    BY FrontFacts
  <1>2. 1..Len(ts) \subseteq 1..Len(st)
    BY <1>1 DEF FewerCalls
  <1>3. Apart(ts)
    BY <1>2 DEF FewerCalls, Apart
  <1>4. ASSUME NEW k \in 1..Len(ts), ts[k].at = "called"
        PROVE  Suspends(p, gs[ts[k].frame])
    <2>1. k \in 1..Len(st) /\ k < Len(st) /\ st[k].at = "called" /\ ts[k].frame = st[k].frame
      BY <1>2, <1>4 DEF FewerCalls
    <2>2. st[k].frame # st[Len(st)].frame
      BY <2>1, NotTheTop
    <2>3. gs[ts[k].frame] = fs[st[k].frame]
      BY <2>1, <2>2 DEF OthersStill
    <2> QED
      BY <2>1, <2>3 DEF CalledWait
  <1> QED
    BY <1>3, <1>4 DEF CalledWait

LEMMA CallsMore ==
  ASSUME NEW p, NEW fs, NEW st, IsSequence(st), st # <<>>, Apart(st), CalledWait(p, fs, st), NEW gs, NEW ts,
         OneMoreCall(st, ts), OthersStill(fs, gs, st),
         ts[Len(st)].at = "called" => Suspends(p, gs[st[Len(st)].frame])
  PROVE  Apart(ts) /\ CalledWait(p, gs, ts)
  <1>1. PICK n \in Nat : n = Len(st)
    BY FrontFacts
  <1>2. n \in 1..n
    BY <1>1, FrontFacts
  <1>3. \A k \in 1..(n + 1) : k \in 1..n \/ k = n + 1
    OBVIOUS
  <1>4. Len(ts) = n + 1
    BY <1>1 DEF OneMoreCall
  <1>5. \A k \in 1..n : ts[k].frame = st[k].frame /\ st[k].frame # ts[n + 1].frame
    BY <1>1 DEF OneMoreCall
  <1>6. \A k, l \in 1..n : st[k].frame = st[l].frame => k = l
    BY <1>1 DEF Apart
  <1>7. \A k, l \in 1..(n + 1) : ts[k].frame = ts[l].frame => k = l
    BY <1>3, <1>5, <1>6
  <1>8. Apart(ts)
    BY <1>4, <1>7 DEF Apart
  <1>9. ASSUME NEW k \in 1..(n + 1), ts[k].at = "called"
        PROVE  Suspends(p, gs[ts[k].frame])
    <2>1. k \in 1..n
      BY <1>1, <1>3, <1>9 DEF OneMoreCall
    <2>2. CASE k = n
      <3>1. ts[k].frame = st[n].frame
        BY <1>5, <2>1, <2>2
      <3> QED
        BY <1>1, <1>9, <2>2, <3>1
    <2>3. CASE k # n
      <3>1. k < n
        BY <2>1, <2>3
      <3>2. st[k].at = "called" /\ ts[k].frame = st[k].frame
        BY <1>1, <1>9, <2>1, <3>1 DEF OneMoreCall
      <3>3. st[k].frame # st[n].frame
        BY <1>1, <2>1, <3>1, NotTheTop
      <3>4. gs[ts[k].frame] = fs[st[k].frame]
        BY <1>1, <2>1, <3>2, <3>3 DEF OthersStill
      <3> QED
        BY <1>1, <2>1, <3>2, <3>4 DEF CalledWait
    <2> QED
      BY <2>2, <2>3
  <1> QED
    BY <1>4, <1>8, <1>9 DEF CalledWait

(* One frame goes on, and it is the one at the top of the stack.            *)
LEMMA OneGoesOn ==
  ASSUME BodiesOK, stack # <<>>, NEW gs, NEW g, IsExcept(gs, frames, Current, g)
  PROVE  OthersStill(frames, gs, stack)
  <1> SUFFICES ASSUME NEW k \in 1..Len(stack), stack[k].frame # stack[Len(stack)].frame
               PROVE  gs[stack[k].frame] = frames[stack[k].frame]
    BY DEF OthersStill
  <1>1. stack[k].frame \in 1..Len(frames)
    BY DEF BodiesOK, StackOK, ActivationOK
  <1>2. stack[k].frame # Current
    BY DEF Current, Top
  <1> QED
    BY <1>1, <1>2 DEF IsExcept

LEMMA GoingOK ==
  ASSUME BodiesOK, CallsWait, HeapTypeOK(heap), Going,
         Len(heap'.promises) \in Nat, Len(heap.promises) <= Len(heap'.promises)
  PROVE  (BodiesOK /\ CallsWait)' /\ Len(frames') = Len(frames)
  <1>1. PICK g, s : GoesOn(g, s) /\ frames' = [frames EXCEPT ![Current] = g] /\ stack' = [stack EXCEPT ![Len(stack)] = s]
    BY DEF Going
  <1>2. program' = program
    BY DEF Going
  <1>3. PICK n \in Nat : n = Len(heap.promises)
    BY HeapLengths
  <1>4. PICK m \in Nat : m = Len(heap'.promises)
    OBVIOUS
  <1>5. PICK b \in Nat : b = Len(frames)
    BY Lengths
  <1>6. stack # <<>> /\ FurtherOn(program, n, Here, g) /\ ActivationOK(program, b, n, s) /\ s.frame = Current /\ s.at # "called"
    BY <1>1, <1>3, <1>5 DEF GoesOn
  <1>7. PICK c \in 1..b : c = Current
    BY <1>5, <1>6, TopOK
  <1>8. FramesOK(program, n, frames) /\ StackOK(program, b, n, stack) /\ IsSequence(frames) /\ IsSequence(stack)
    BY <1>3, <1>5 DEF BodiesOK, FramesOK, StackOK
  <1>9. Len(stack) \in Nat /\ Len(stack) \in 1..Len(stack)
    BY <1>6, <1>8, FrontFacts
  <1>10. IsExcept(frames', frames, c, g)
    BY <1>1, <1>5, <1>7, <1>8, ExceptElements
  <1>11. IsExcept(stack', stack, Len(stack), s)
    BY <1>1, <1>8, <1>9, ExceptElements
  <1>12. FramesOK(program, n, frames') /\ Len(frames') = b
    <2>1. FrameOK(program, n, g)
      BY <1>6 DEF FurtherOn
    <2> QED
      BY <1>5, <1>7, <1>8, <1>10, <2>1, FramesWith
  <1>13. StackOK(program, b, n, stack') /\ Len(stack') = Len(stack)
    BY <1>6, <1>8, <1>11, StackWith
  <1>14. FramesOK(program, m, frames')
    BY <1>3, <1>4, <1>12, FramesStill
  <1>15. StackOK(program, b, m, stack')
    BY <1>3, <1>4, <1>13, StackStill
  <1>16. ProgramOK' /\ m >= HostPromises
    BY <1>2, <1>3, <1>4, ProgramsAssumption DEF ProgramOK, BodiesOK
  <1>17. Apart(stack') /\ CalledWait(program, frames', stack')
    <2>1. Current = stack[Len(stack)].frame
      BY DEF Current, Top
    <2>2. FewerCalls(stack, stack')
      BY <1>6, <1>9, <1>11, <1>13, <2>1 DEF IsExcept, FewerCalls
    <2>3. OthersStill(frames, frames', stack)
      BY <1>6, <1>7, <1>10, OneGoesOn
    <2>4. Apart(stack) /\ CalledWait(program, frames, stack)
      BY DEF CallsWait
    <2> QED
      BY <1>6, <1>8, <2>2, <2>3, <2>4, CallsFewer
  <1>18. BodiesOK'
    BY <1>2, <1>4, <1>12, <1>14, <1>15, <1>16 DEF BodiesOK
  <1> QED
    BY <1>2, <1>5, <1>12, <1>17, <1>18 DEF CallsWait

LEMMA LeavingOK ==
  ASSUME BodiesOK, CallsWait, HeapTypeOK(heap), NEW m \in Nat, NEW g, LeavesWith(m, g),
         m = Len(heap'.promises), Len(heap.promises) <= m
  PROVE  (BodiesOK /\ CallsWait)' /\ Len(frames') = Len(frames)
  <1>1. /\ stack # <<>> /\ FurtherOn(program, m, Here, g) /\ frames' = [frames EXCEPT ![Current] = g]
        /\ stack' = Front(stack) /\ program' = program
    BY DEF LeavesWith
  <1>2. PICK n \in Nat : n = Len(heap.promises)
    BY HeapLengths
  <1>3. PICK b \in Nat : b = Len(frames)
    BY Lengths
  <1>4. PICK c \in 1..b : c = Current
    BY <1>1, <1>3, TopOK
  <1>5. FramesOK(program, n, frames) /\ StackOK(program, b, n, stack) /\ IsSequence(frames) /\ IsSequence(stack)
    BY <1>2, <1>3 DEF BodiesOK, FramesOK, StackOK
  <1>6. IsExcept(frames', frames, c, g)
    BY <1>1, <1>3, <1>4, <1>5, ExceptElements
  <1>7. FramesOK(program, m, frames') /\ Len(frames') = b
    <2>1. FrameOK(program, m, g)
      BY <1>1 DEF FurtherOn
    <2>2. FramesOK(program, m, frames)
      BY <1>2, <1>5, FramesStill
    <2> QED
      BY <1>3, <1>4, <1>6, <2>1, <2>2, FramesWith
  <1>8. PICK ts : ts = Front(stack)
    OBVIOUS
  <1>9. StackOK(program, b, n, ts)
    BY <1>1, <1>5, <1>8, StackFront
  <1>10. StackOK(program, b, m, ts)
    BY <1>2, <1>9, StackStill
  <1>11. ProgramOK' /\ m >= HostPromises
    BY <1>1, <1>2, ProgramsAssumption DEF ProgramOK, BodiesOK
  <1>12. Apart(ts) /\ CalledWait(program, frames', ts)
    <2>1. Len(stack) \in Nat /\ Len(ts) = Len(stack) - 1 /\ Len(stack) > 0 /\ \A k \in 1..Len(stack) - 1 : ts[k] = stack[k]
      BY <1>1, <1>5, <1>8, FrontFacts
    <2>2. FewerCalls(stack, ts)
      BY <2>1 DEF FewerCalls
    <2>3. OthersStill(frames, frames', stack)
      BY <1>1, <1>4, <1>6, OneGoesOn
    <2>4. Apart(stack) /\ CalledWait(program, frames, stack)
      BY DEF CallsWait
    <2> QED
      BY <1>1, <1>5, <2>2, <2>3, <2>4, CallsFewer
  <1>13. stack' = ts
    BY <1>1, <1>8
  <1>14. BodiesOK'
    BY <1>1, <1>7, <1>10, <1>11, <1>13 DEF BodiesOK
  <1> QED
    BY <1>1, <1>3, <1>7, <1>12, <1>13, <1>14 DEF CallsWait

LEMMA FrameStill ==
  ASSUME NEW p, NEW m \in Nat, NEW n \in Nat, m <= n, NEW f, FrameOK(p, m, f)
  PROVE  FrameOK(p, n, f)
  <1>1. 0..m \subseteq 0..n /\ (HostPromises + 1)..m \subseteq (HostPromises + 1)..n
    BY ProgramsAssumption
  <1> QED
    BY <1>1 DEF FrameOK

LEMMA ActivationStill ==
  ASSUME NEW p, NEW n, NEW b \in Nat, NEW c \in Nat, b <= c, NEW s, ActivationOK(p, b, n, s)
  PROVE  ActivationOK(p, c, n, s)
  <1>1. 1..b \subseteq 1..c
    OBVIOUS
  <1> QED
    BY <1>1 DEF ActivationOK

LEMMA NewActivation ==
  ASSUME NEW p, NEW b, NEW n, NEW i \in 1..b, NEW v
  PROVE  ActivationOK(p, b, n, Activation(i, v)) /\ Activation(i, v).frame = i /\ Activation(i, v).at = "dispatch"
  <1>1. PICK s : s = Activation(i, v)
    OBVIOUS
  <1>2. ActivationParts(s, i, v, "dispatch", <<>>)
    BY <1>1 DEF Activation, ActivationParts
  <1>3. PICK todo \in Seq(StatementsOf(p)) : todo = <<>>
    <2>1. <<>> \in Seq(StatementsOf(p))
      OBVIOUS
    <2> QED
      BY <2>1
  <1>4. ActivationParts(s, i, v, "dispatch", todo)
    BY <1>2, <1>3
  <1>5. ActivationOK(p, b, n, s) /\ s.frame = i /\ s.at = "dispatch"
    BY <1>4, ActivationOf
  <1> QED
    BY <1>1, <1>5

(* The stack after a call. *)
Fresh(st, new) == \A k \in 1..Len(st) : st[k].frame # new.frame
Pushed(ts, st, s, new) == ts = Append(Front(st), s) \o <<new>>
LEMMA StackCalls ==
  ASSUME NEW st, IsSequence(st), st # <<>>, NEW s, s.frame = st[Len(st)].frame, NEW new, new.at = "dispatch",
         Fresh(st, new), NEW ts, Pushed(ts, st, s, new)
  PROVE  OneMoreCall(st, ts) /\ ts[Len(st)] = s /\ ts[Len(st) + 1] = new
  <1>1. PICK n \in Nat : n = Len(st)
    BY FrontFacts
  <1>2. PICK front : front = Front(st)
    OBVIOUS
  <1>3. IsSequence(front) /\ Len(front) = n - 1 /\ n > 0 /\ \A k \in 1..(n - 1) : front[k] = st[k]
    BY <1>1, <1>2, FrontFacts
  <1>4. PICK mid : mid = Append(front, s)
    OBVIOUS
  <1>5. IsSequence(mid) /\ Len(mid) = n /\ mid[n] = s /\ \A k \in 1..(n - 1) : mid[k] = front[k]
    <2>1. n - 1 + 1 = n
      BY <1>1
    <2> QED
      BY <1>3, <1>4, <2>1, AppendFacts
  <1>6. IsSequence(<<new>>) /\ Len(<<new>>) = 1 /\ <<new>>[1] = new
    BY Singleton
  <1>7. PICK one : one = <<new>>
    OBVIOUS
  <1>8. ts = mid \o one
    BY <1>2, <1>4, <1>7 DEF Pushed
  <1>9. IsConcat(ts, mid, one)
    BY <1>5, <1>6, <1>7, <1>8, ConcatElements
  <1>10. Len(ts) = n + 1 /\ ts[n + 1] = new /\ \A k \in 1..n : ts[k] = mid[k]
    BY <1>5, <1>6, <1>7, <1>9 DEF IsConcat
  <1>11. ts[n] = s
    BY <1>3, <1>5, <1>10
  <1>12. \A k \in 1..n : k < n => ts[k] = st[k]
    BY <1>3, <1>5, <1>10
  <1>13. \A k \in 1..n : k < n \/ k = n
    BY <1>1
  <1>14. \A k \in 1..n : ts[k].frame = st[k].frame /\ (k < n => ts[k].at = st[k].at)
    BY <1>1, <1>11, <1>12, <1>13
  <1> QED
    BY <1>1, <1>10, <1>11, <1>14 DEF OneMoreCall, Fresh

LEMMA CallingOK ==
  ASSUME BodiesOK, CallsWait, HeapTypeOK(heap), Calling
  PROVE  (BodiesOK /\ CallsWait)' /\ Len(frames') = Len(frames) + 1
  <1>1. PICK g, s, fn : /\ CallsFrom(g, s, fn)
                        /\ frames' = [Append(frames, NewBody(fn)) EXCEPT ![Current] = g]
                        /\ stack' = Append(Front(stack), s) \o <<Starting>>
    BY DEF Calling
  <1>2. program' = program /\ heap' = NewPromise(heap, Default)
    BY DEF Calling
  <1>3. PICK n \in Nat : n = Len(heap.promises)
    BY HeapLengths
  <1>4. PICK m \in Nat : m = n + 1
    OBVIOUS
  <1>5. PICK b \in Nat : b = Len(frames)
    BY Lengths
  <1>6. /\ stack # <<>> /\ fn \in DOMAIN program /\ Machines[program][fn].kind = "async"
        /\ FurtherOn(program, n, Here, g) /\ ActivationOK(program, b, m, s) /\ s.frame = Current
        /\ s.at = "called" => NextOf.type = "suspend" /\ g.state = Here.state
    BY <1>1, <1>3, <1>4, <1>5 DEF CallsFrom
  <1>7. PICK c \in 1..b : c = Current
    BY <1>5, <1>6, TopOK
  <1>8. FramesOK(program, n, frames) /\ StackOK(program, b, n, stack) /\ IsSequence(frames) /\ IsSequence(stack)
    BY <1>3, <1>5 DEF BodiesOK, FramesOK, StackOK
  <1>9. Len(heap'.promises) = m
    BY <1>2, <1>3, <1>4, NewMakes DEF NewEffect
  <1>10. PICK new : new = NewBody(fn)
    OBVIOUS
  <1>11. FrameOK(program, m, new)
    <2>1. ProgramOK /\ HostPromises <= n /\ HostPromises \in Nat
      BY <1>3, ProgramsAssumption DEF BodiesOK
    <2>2. m \in (HostPromises + 1)..m
      BY <1>4, <2>1
    <2>3. FrameOK(program, m, NewFrame(fn, m))
      BY <1>6, <2>1, <2>2, NewFrameOK
    <2> QED
      BY <1>3, <1>4, <1>10, <2>3 DEF NewBody
  <1>12. PICK more : more = Append(frames, new)
    OBVIOUS
  <1>13. FramesOK(program, m, more) /\ Len(more) = b + 1
    <2>1. FramesOK(program, m, frames)
      BY <1>3, <1>4, <1>8, FramesStill
    <2> QED
      BY <1>5, <1>11, <1>12, <2>1, FramesMore
  <1>14. IsSequence(more) /\ c \in 1..Len(more) /\ \A k \in 1..b : more[k] = frames[k]
    BY <1>5, <1>8, <1>12, <1>13, AppendFacts DEF FramesOK
  <1>15. IsExcept(frames', more, c, g)
    BY <1>1, <1>7, <1>10, <1>12, <1>14, ExceptElements
  <1>16. FramesOK(program, m, frames') /\ Len(frames') = b + 1
    <2>1. FrameOK(program, m, g)
      BY <1>3, <1>4, <1>6, FrameStill DEF FurtherOn
    <2> QED
      BY <1>13, <1>14, <1>15, <2>1, FramesWith
  <1>17. PICK start : start = Starting
    OBVIOUS
  <1>18. ActivationOK(program, b + 1, m, start) /\ start.frame = b + 1 /\ start.at = "dispatch"
    <2>1. PICK d \in 1..(b + 1) : d = b + 1
      OBVIOUS
    <2>2. start = Activation(d, Default)
      BY <1>5, <1>17, <2>1 DEF Starting
    <2> QED
      BY <2>1, <2>2, NewActivation
  <1>19. PICK front : front = Front(stack)
    OBVIOUS
  <1>20. StackOK(program, b + 1, m, front)
    <2>1. StackOK(program, b, n, front)
      BY <1>6, <1>8, <1>19, StackFront
    <2> QED
      BY <1>3, <1>4, <2>1, StackStill
  <1>21. StackOK(program, b + 1, m, stack')
    <2>1. ActivationOK(program, b + 1, m, s)
      BY <1>6, ActivationStill
    <2>2. PICK mid : mid = Append(front, s)
      OBVIOUS
    <2>3. StackOK(program, b + 1, m, mid)
      BY <1>20, <2>1, <2>2, StackMore
    <2>4. PICK one : one = <<start>>
      OBVIOUS
    <2>5. StackOK(program, b + 1, m, one)
      BY <1>18, <2>4, StackOne
    <2>6. stack' = mid \o one
      BY <1>1, <1>17, <1>19, <2>2, <2>4
    <2> QED
      BY <2>3, <2>5, <2>6, StackJoined
  <1>22. \A k \in 1..Len(stack) : stack[k].frame \in 1..b
    BY <1>8 DEF StackOK, ActivationOK
  <1>23. OneMoreCall(stack, stack') /\ stack'[Len(stack)] = s
    <2>1. Fresh(stack, start)
      BY <1>18, <1>22 DEF Fresh
    <2>2. s.frame = stack[Len(stack)].frame
      BY <1>6 DEF Current, Top
    <2>3. Pushed(stack', stack, s, start)
      BY <1>1, <1>17 DEF Pushed
    <2>4. start.at = "dispatch" /\ IsSequence(stack) /\ stack # <<>>
      BY <1>6, <1>8, <1>18
    <2> QED
      BY <2>1, <2>2, <2>3, <2>4, StackCalls
  <1>24. OthersStill(frames, frames', stack)
    <2> SUFFICES ASSUME NEW k \in 1..Len(stack), stack[k].frame # stack[Len(stack)].frame
                 PROVE  frames'[stack[k].frame] = frames[stack[k].frame]
      BY DEF OthersStill
    <2>1. stack[k].frame # c
      BY <1>7 DEF Current, Top
    <2>2. stack[k].frame \in 1..b /\ stack[k].frame \in 1..(b + 1)
      BY <1>22
    <2> QED
      BY <1>13, <1>14, <1>15, <2>1, <2>2 DEF IsExcept
  <1>25. Apart(stack') /\ CalledWait(program, frames', stack')
    <2>1. stack'[Len(stack)].at = "called" => Suspends(program, frames'[stack[Len(stack)].frame])
      <3>1. HAVE stack'[Len(stack)].at = "called"
      <3>2. NextOf.type = "suspend" /\ g.state = Here.state /\ g.fn = Here.fn
        BY <1>6, <1>23, <3>1 DEF FurtherOn
      <3>3. Suspends(program, g)
        BY <3>2 DEF Suspends, NextOf, SegmentOf, Machine, Here
      <3>4. stack[Len(stack)].frame = c /\ frames'[c] = g
        BY <1>7, <1>15 DEF IsExcept, Current, Top
      <3> QED
        BY <3>3, <3>4
    <2>2. Apart(stack) /\ CalledWait(program, frames, stack)
      BY DEF CallsWait
    <2> QED
      BY <1>6, <1>8, <1>23, <1>24, <2>1, <2>2, CallsMore
  <1>26. ProgramOK' /\ m >= HostPromises
    BY <1>2, <1>3, <1>4, ProgramsAssumption DEF ProgramOK, BodiesOK
  <1>27. BodiesOK'
    BY <1>2, <1>9, <1>16, <1>21, <1>26 DEF BodiesOK
  <1> QED
    BY <1>2, <1>5, <1>16, <1>25, <1>27 DEF CallsWait

(* Steps at whose end nothing runs, or one activation from its start.       *)
LEMMA StartsOver ==
  ASSUME ProgramOK, program' = program, NEW m \in Nat, m = Len(heap'.promises), HostPromises <= m,
         FramesOK(program, m, frames'),
         stack' = <<>> \/ \E i \in 1..Len(frames') : \E v : stack' = <<Activation(i, v)>>
  PROVE  (BodiesOK /\ CallsWait)'
  <1>1. StackOK(program, Len(frames'), m, stack') /\ Apart(stack') /\ CalledWait(program, frames', stack')
    <2>1. CASE stack' = <<>>
      <3>1. IsSequence(<<>>) /\ Len(<<>>) = 0
        BY DEF IsSequence
      <3> QED
        BY <2>1, <3>1 DEF StackOK, Apart, CalledWait
    <2>2. ASSUME NEW i \in 1..Len(frames'), NEW v, stack' = <<Activation(i, v)>>
          PROVE  StackOK(program, Len(frames'), m, stack') /\ Apart(stack') /\ CalledWait(program, frames', stack')
      <3>1. PICK s : s = Activation(i, v)
        OBVIOUS
      <3>2. ActivationOK(program, Len(frames'), m, s) /\ s.at = "dispatch"
        BY <3>1, NewActivation
      <3>3. PICK st : st = <<s>>
        OBVIOUS
      <3>4. StackOK(program, Len(frames'), m, st) /\ Len(st) = 1 /\ st[1] = s
        BY <3>2, <3>3, StackOne, Singleton
      <3>5. Apart(st) /\ CalledWait(program, frames', st)
        BY <3>2, <3>4 DEF Apart, CalledWait
      <3> QED
        BY <2>2, <3>1, <3>3, <3>4, <3>5
    <2> QED
      BY <2>1, <2>2
  <1>2. ProgramOK' /\ m >= HostPromises
    BY ProgramsAssumption DEF ProgramOK
  <1>3. BodiesOK'
    BY <1>1, <1>2 DEF BodiesOK
  <1> QED
    BY <1>1, <1>3 DEF CallsWait

LEMMA HostStartsOK ==
  ASSUME BodiesOK, HeapTypeOK(heap), NEW fn \in DOMAIN program, HostStarts(fn)
  PROVE  /\ (BodiesOK /\ CallsWait)' /\ Len(frames') = Len(frames) + 1
         /\ heap' = NewPromise(heap, Default) /\ frames' = Append(frames, NewBody(fn)) /\ stack' = <<Starting>>
         /\ program' = program /\ Machines[program][fn].kind = "async" /\ job' = "call"
  <1>1. heap' = NewPromise(heap, Default) /\ program' = program /\ Machines[program][fn].kind = "async"
    BY WellFormed DEF HostStarts, Called, BodiesOK
  <1>2. PICK n \in Nat : n = Len(heap.promises)
    BY HeapLengths
  <1>3. PICK m \in Nat : m = n + 1
    OBVIOUS
  <1>4. PICK b \in Nat : b = Len(frames)
    BY Lengths
  <1>5. Len(heap'.promises) = m
    BY <1>1, <1>2, <1>3, NewMakes DEF NewEffect
  <1>6. PICK new : new = NewBody(fn)
    OBVIOUS
  <1>7. ProgramOK /\ HostPromises <= n /\ HostPromises \in Nat
    BY <1>2, ProgramsAssumption DEF BodiesOK
  <1>8. FrameOK(program, m, new)
    <2>1. m \in (HostPromises + 1)..m
      BY <1>3, <1>7
    <2>2. FrameOK(program, m, NewFrame(fn, m))
      BY <1>1, <1>7, <2>1, NewFrameOK
    <2> QED
      BY <1>2, <1>3, <1>6, <2>2 DEF NewBody
  <1>9. PICK more : more = Append(frames, new)
    OBVIOUS
  <1>10. FramesOK(program, m, more) /\ Len(more) = b + 1
    <2>1. FramesOK(program, m, frames)
      BY <1>2, <1>3, FramesStill DEF BodiesOK
    <2> QED
      BY <1>4, <1>8, <1>9, <2>1, FramesMore
  <1>11. frames' = more
    BY <1>2, <1>3, <1>5, <1>6, <1>9 DEF HostStarts, Started, Newest, NewBody
  <1>12. stack' = <<Starting>> /\ job' = "call"
    BY DEF HostStarts, HostCall
  <1>13. PICK d \in 1..(b + 1) : d = b + 1
    BY <1>4
  <1>14. stack' = <<Activation(d, Default)>>
    BY <1>4, <1>12, <1>13 DEF Starting
  <1>15. FramesOK(program, m, frames') /\ Len(frames') = b + 1
    BY <1>10, <1>11
  <1>16. \E i \in 1..Len(frames') : \E v : stack' = <<Activation(i, v)>>
    BY <1>13, <1>14, <1>15
  <1>17. HostPromises <= m
    BY <1>3, <1>7
  <1>18. (BodiesOK /\ CallsWait)'
    BY <1>1, <1>5, <1>7, <1>15, <1>16, <1>17, StartsOver
  <1> QED
    BY <1>1, <1>4, <1>6, <1>9, <1>11, <1>12, <1>15, <1>18

LEMMA HostMakesOK ==
  ASSUME BodiesOK, HeapTypeOK(heap), stack = <<>>, NEW fn \in DOMAIN program, HostMakes(fn)
  PROVE  /\ (BodiesOK /\ CallsWait)' /\ Len(frames') = Len(frames) + 1
         /\ heap' = heap /\ frames' = Append(frames, NewFrame(fn, 0)) /\ stack' = <<>>
         /\ program' = program /\ Machines[program][fn].kind = "generator" /\ job' = "drain"
  <1>1. /\ heap' = heap /\ program' = program /\ Machines[program][fn].kind = "generator" /\ stack' = <<>>
        /\ frames' = Append(frames, NewFrame(fn, 0)) /\ job' = "drain"
    BY WellFormed DEF HostMakes, HostCall, BodiesOK
  <1>2. PICK n \in Nat : n = Len(heap.promises)
    BY HeapLengths
  <1>3. PICK new : new = NewFrame(fn, 0)
    OBVIOUS
  <1>4. ProgramOK /\ HostPromises <= n
    BY <1>2, ProgramsAssumption DEF BodiesOK
  <1>5. FrameOK(program, n, new)
    BY <1>1, <1>3, <1>4, NewFrameOK
  <1>6. PICK more : more = Append(frames, new)
    OBVIOUS
  <1>7. FramesOK(program, n, more) /\ Len(more) = Len(frames) + 1
    BY <1>2, <1>5, <1>6, FramesMore DEF BodiesOK
  <1>8. FramesOK(program, n, frames') /\ Len(frames') = Len(frames) + 1
    BY <1>1, <1>3, <1>6, <1>7
  <1>9. Len(heap'.promises) = n
    BY <1>1, <1>2
  <1>10. (BodiesOK /\ CallsWait)'
    BY <1>1, <1>4, <1>8, <1>9, StartsOver
  <1> QED
    BY <1>1, <1>8, <1>10

(* A frame is given a value: by next(), or by the promise it waited for.    *)
Awakes(i, awaits) ==
  /\ i \in 1..Len(frames)
  /\ \E g : /\ IsExcept(frames', frames, i, g) /\ FurtherOn(program, Len(heap.promises), frames[i], g)
            /\ g.awaits = awaits /\ g.log = frames[i].log
  /\ \E v : stack' = <<Activation(i, v)>>
  /\ program' = program

LEMMA AwakesOK ==
  ASSUME BodiesOK, HeapTypeOK(heap), NEW i, NEW awaits, Awakes(i, awaits), Len(heap'.promises) = Len(heap.promises)
  PROVE  (BodiesOK /\ CallsWait)' /\ Len(frames') = Len(frames)
  <1>1. PICK g : IsExcept(frames', frames, i, g) /\ FurtherOn(program, Len(heap.promises), frames[i], g)
    BY DEF Awakes
  <1>2. i \in 1..Len(frames) /\ program' = program /\ \E v : stack' = <<Activation(i, v)>>
    BY DEF Awakes
  <1>3. PICK n \in Nat : n = Len(heap.promises)
    BY HeapLengths
  <1>4. FrameOK(program, n, g)
    BY <1>1, <1>3 DEF FurtherOn
  <1>5. FramesOK(program, n, frames)
    BY <1>3 DEF BodiesOK
  <1>6. FramesOK(program, n, frames') /\ Len(frames') = Len(frames)
    BY <1>1, <1>2, <1>4, <1>5, FramesWith
  <1>7. ProgramOK /\ HostPromises <= n
    BY <1>3, ProgramsAssumption DEF BodiesOK
  <1>8. \E k \in 1..Len(frames') : \E v : stack' = <<Activation(k, v)>>
    BY <1>2, <1>6
  <1>9. (BodiesOK /\ CallsWait)'
    BY <1>2, <1>3, <1>6, <1>7, <1>8, StartsOver
  <1> QED
    BY <1>6, <1>9

LEMMA NextAwakes ==
  ASSUME BodiesOK, HeapTypeOK(heap), NEW i \in DOMAIN frames, HostNext(i)
  PROVE  Awakes(i, frames[i].awaits) /\ heap' = heap /\ ~Async(i) /\ job' = "call"
  <1>1. PICK v \in Sent : /\ stack' = <<Activation(i, Num(v))>>
                          /\ frames' = [frames EXCEPT ![i].given = Append(@, Num(v))]
    BY DEF HostNext
  <1>2. PICK n \in Nat : n = Len(heap.promises)
    BY HeapLengths
  <1>3. IsSequence(frames) /\ i \in 1..Len(frames)
    BY Lengths DEF BodiesOK, FramesOK
  <1>4. PICK f : f = frames[i]
    OBVIOUS
  <1>5. FrameOK(program, n, f)
    BY <1>2, <1>3, <1>4 DEF BodiesOK, FramesOK
  <1>6. PICK given : given = Append(f.given, Num(v))
    OBVIOUS
  <1>7. PICK g : g = [f EXCEPT !.given = given]
    OBVIOUS
  <1>8. FurtherOn(program, n, f, g) /\ g.awaits = f.awaits /\ g.log = f.log
    BY <1>5, <1>7, FrameGiven
  <1>9. frames' = [frames EXCEPT ![i] = g]
    BY <1>1, <1>4, <1>6, <1>7
  <1>10. IsExcept(frames', frames, i, g)
    BY <1>3, <1>9, ExceptElements
  <1>11. program' = program /\ heap' = heap /\ ~Async(i) /\ job' = "call"
    BY DEF HostNext, HostCall, Async
  <1> QED
    BY <1>1, <1>2, <1>3, <1>4, <1>8, <1>10, <1>11 DEF Awakes

ResumedWith(i, v) ==
  /\ stack' = <<Activation(i, v)>>
  /\ frames' = [frames EXCEPT ![i].given = Append(@, v), ![i].awaits = 0]
  /\ program' = program
LEMMA ResumeAwakes ==
  ASSUME BodiesOK, HeapTypeOK(heap), NEW i \in 1..Len(frames), NEW v, ResumedWith(i, v)
  PROVE  Awakes(i, 0)
  <1>1. PICK n \in Nat : n = Len(heap.promises)
    BY HeapLengths
  <1>2. IsSequence(frames) /\ DOMAIN frames = 1..Len(frames)
    BY Lengths DEF BodiesOK, FramesOK
  <1>3. PICK f : f = frames[i]
    OBVIOUS
  <1>4. FrameOK(program, n, f)
    BY <1>1, <1>3 DEF BodiesOK, FramesOK
  <1>5. PICK given : given = Append(f.given, v)
    OBVIOUS
  <1>6. PICK e : e = [f EXCEPT !.given = given]
    OBVIOUS
  <1>7. FurtherOn(program, n, f, e) /\ e.log = f.log
    BY <1>4, <1>6, FrameGiven
  <1>8. PICK g : WithAwaits(g, e, 0)
    BY DEF WithAwaits
  <1>9. FurtherOn(program, n, e, g) /\ g.awaits = 0 /\ g.log = e.log
    <2>1. FrameOK(program, n, e) /\ 0 \in 0..n
      BY <1>7 DEF FurtherOn
    <2> QED
      BY <1>8, <2>1, FrameAwaits
  <1>10. FurtherOn(program, n, f, g)
    BY <1>7, <1>9, FurtherAgain
  <1>11. frames' = [frames EXCEPT ![i] = g]
    <2>1. g = [e EXCEPT !.awaits = 0]
      BY <1>8 DEF WithAwaits
    <2> QED
      BY <1>2, <1>3, <1>5, <1>6, <2>1 DEF ResumedWith
  <1>12. IsExcept(frames', frames, i, g)
    BY <1>2, <1>11, ExceptElements
  <1> QED
    BY <1>1, <1>3, <1>7, <1>9, <1>10, <1>12 DEF Awakes, ResumedWith
-----------------------------------------------------------------------------
(* The callbacks after each kind of step.                                   *)
LEMMA KindsOf ==
  ASSUME NEW h, NEW b, NEW t, CallbackOK(h, b, t)
  PROVE  \/ t.callback = Note
         \/ \E i \in 1..b : t.callback = Resume(i)
         \/ \E a \in 1..Len(h.alls) : \E k \in 1..Len(h.alls[a].of) :
              t.callback = Store(a, k) /\ t.promise = h.alls[a].of[k]
  <1>1. CASE t.callback.is = "store"
    <2>1. t.callback # Note /\ \A i : t.callback # Resume(i)
      BY <1>1 DEF Note, Resume
    <2>2. PICK a \in 1..Len(h.alls) : \E k : t.callback = Store(a, k)
      BY <2>1 DEF CallbackOK, Callbacks
    <2>3. PICK k : t.callback = Store(a, k)
      BY <2>2
    <2>4. t.callback.all = a /\ t.callback.index = k
      BY <2>3 DEF Store
    <2>5. k \in 1..Len(h.alls[a].of) /\ t.promise = h.alls[a].of[k]
      BY <1>1, <2>4 DEF CallbackOK
    <2> QED
      BY <2>2, <2>3, <2>5
  <1>2. CASE t.callback.is # "store"
    <2>1. \A a, k : t.callback # Store(a, k)
      BY <1>2 DEF Store
    <2> QED
      BY <2>1 DEF CallbackOK, Callbacks
  <1> QED
    BY <1>1, <1>2

LEMMA IsCallback ==
  ASSUME NEW h, NEW b, NEW t,
         \/ t.callback = Note
         \/ \E i \in 1..b : t.callback = Resume(i)
         \/ \E a \in 1..Len(h.alls) : \E k \in 1..Len(h.alls[a].of) :
              t.callback = Store(a, k) /\ t.promise = h.alls[a].of[k]
  PROVE  CallbackOK(h, b, t)
  <1>1. CASE t.callback = Note
    BY <1>1 DEF CallbackOK, Callbacks, Note
  <1>2. ASSUME NEW i \in 1..b, t.callback = Resume(i)
        PROVE  CallbackOK(h, b, t)
    BY <1>2 DEF CallbackOK, Callbacks, Resume
  <1>3. ASSUME NEW a \in 1..Len(h.alls), NEW k \in 1..Len(h.alls[a].of),
               t.callback = Store(a, k), t.promise = h.alls[a].of[k]
        PROVE  CallbackOK(h, b, t)
    <2>1. k \in UNION {1..Len(h.alls[x].of) : x \in 1..Len(h.alls)}
      OBVIOUS
    <2>2. t.callback \in Callbacks(h, b)
      BY <1>3, <2>1 DEF Callbacks
    <2>3. t.callback.all = a /\ t.callback.index = k
      BY <1>3 DEF Store
    <2> QED
      BY <1>3, <2>2, <2>3 DEF CallbackOK
  <1> QED
    BY <1>1, <1>2, <1>3

StillCalls(h, g) ==
  /\ Len(h.alls) \in Nat /\ Len(g.alls) \in Nat /\ Len(h.alls) <= Len(g.alls)
  /\ \A a \in 1..Len(h.alls) : g.alls[a].of = h.alls[a].of

LEMMA CallbackStill ==
  ASSUME NEW h, NEW g, StillCalls(h, g), NEW b \in Nat, NEW c \in Nat, b <= c, NEW t, CallbackOK(h, b, t)
  PROVE  CallbackOK(g, c, t)
  <1>1. 1..b \subseteq 1..c
    OBVIOUS
  <1>2. 1..Len(h.alls) \subseteq 1..Len(g.alls)
    BY DEF StillCalls
  <1>3. CASE t.callback = Note
    BY <1>3, IsCallback
  <1>4. ASSUME NEW i \in 1..b, t.callback = Resume(i)
        PROVE  CallbackOK(g, c, t)
    <2>1. \E k \in 1..c : t.callback = Resume(k)
      BY <1>1, <1>4
    <2> QED
      BY <2>1, IsCallback
  <1>5. ASSUME NEW a \in 1..Len(h.alls), NEW k \in 1..Len(h.alls[a].of),
               t.callback = Store(a, k) /\ t.promise = h.alls[a].of[k]
        PROVE  CallbackOK(g, c, t)
    <2>1. a \in 1..Len(g.alls) /\ g.alls[a].of = h.alls[a].of
      BY <1>2 DEF StillCalls
    <2>2. \E x \in 1..Len(g.alls) : \E y \in 1..Len(g.alls[x].of) :
            t.callback = Store(x, y) /\ t.promise = g.alls[x].of[y]
      BY <1>5, <2>1
    <2> QED
      BY <2>2, IsCallback
  <1> QED
    BY <1>3, <1>4, <1>5, KindsOf

(* Nothing becomes due but what is of the right kind. *)
LEMMA CallbacksStill ==
  ASSUME NEW h, NEW g, StillCalls(h, g), NEW b \in Nat, NEW c \in Nat, b <= c, CallbacksOK(h, b),
         \A t \in Due(g) : t \in Due(h) \/ CallbackOK(g, c, t)
  PROVE  CallbacksOK(g, c)
  <1> SUFFICES ASSUME NEW t \in Due(g)
               PROVE  CallbackOK(g, c, t)
    BY DEF CallbacksOK
  <1>1. ASSUME t \in Due(h)
        PROVE  CallbackOK(g, c, t)
    BY <1>1, CallbackStill DEF CallbacksOK
  <1> QED
    BY <1>1

LEMMA SameCalls ==
  ASSUME NEW h, HeapTypeOK(h), NEW g, g.alls = h.alls
  PROVE  StillCalls(h, g)
  BY HeapLengths DEF StillCalls

(* What the operations of the heap keep to. *)
Keeps(h, g, c) == Orderly(g) /\ CallbacksOK(g, c) /\ Len(h.promises) <= Len(g.promises)

LEMMA HeapStays ==
  ASSUME NEW h, Orderly(h), NEW b \in Nat, NEW c \in Nat, b <= c, CallbacksOK(h, b)
  PROVE  Keeps(h, h, c)
  <1>1. HeapTypeOK(h)
    BY DEF Orderly, HeapOK
  <1>2. StillCalls(h, h)
    BY <1>1, SameCalls
  <1>3. CallbacksOK(h, c)
    BY <1>2, CallbacksStill
  <1> QED
    BY <1>1, <1>3, HeapLengths DEF Keeps

LEMMA ResolveKeeps ==
  ASSUME NEW h, Orderly(h), NEW b \in Nat, CallbacksOK(h, b), NEW p \in 1..Len(h.promises), NEW v
  PROVE  Keeps(h, Resolve(h, p, v), b)
  <1>1. HeapTypeOK(h)
    BY DEF Orderly, HeapOK
  <1>2. PICK g : g = Resolve(h, p, v)
    OBVIOUS
  <1>3. Orderly(g) /\ Due(g) = Due(h)
    BY <1>2, ResolveOrderly
  <1>4. g.alls = h.alls /\ Len(g.promises) = Len(h.promises)
    BY <1>1, <1>2, ResolveSame
  <1>5. StillCalls(h, g)
    BY <1>1, <1>4, SameCalls
  <1>6. CallbacksOK(g, b)
    BY <1>3, <1>5, CallbacksStill
  <1> QED
    BY <1>1, <1>2, <1>3, <1>4, <1>6, HeapLengths DEF Keeps

LEMMA NewKeeps ==
  ASSUME NEW h, Orderly(h), NEW b \in Nat, NEW c \in Nat, b <= c, CallbacksOK(h, b), NEW v
  PROVE  Keeps(h, NewPromise(h, v), c)
  <1>1. HeapTypeOK(h)
    BY DEF Orderly, HeapOK
  <1>2. PICK g : g = NewPromise(h, v)
    OBVIOUS
  <1>3. Orderly(g) /\ Due(g) = Due(h)
    BY <1>2, NewOrderly
  <1>4. g.alls = h.alls /\ Len(g.promises) = Len(h.promises) + 1
    BY <1>1, <1>2, NewMakes DEF NewEffect
  <1>5. StillCalls(h, g)
    BY <1>1, <1>4, SameCalls
  <1>6. CallbacksOK(g, c)
    BY <1>3, <1>5, CallbacksStill
  <1>7. Len(h.promises) <= Len(g.promises)
    BY <1>1, <1>4, HeapLengths
  <1> QED
    BY <1>2, <1>3, <1>6, <1>7 DEF Keeps

LEMMA ThenKeeps ==
  ASSUME NEW h, Orderly(h), NEW b \in Nat, CallbacksOK(h, b), NEW p \in 1..Len(h.promises), NEW cb,
         cb = Note \/ \E i \in 1..b : cb = Resume(i)
  PROVE  Keeps(h, Then(h, p, cb), b)
  <1>1. HeapOK(h) /\ HeapTypeOK(h)
    BY DEF Orderly, HeapOK
  <1>2. PICK g : g = Then(h, p, cb)
    OBVIOUS
  <1>3. PICK task : task = Task(cb, p, h.clock)
    OBVIOUS
  <1>4. Due(g) = Due(h) \cup {task}
    BY <1>1, <1>2, <1>3, ThenDue
  <1>5. Orderly(g)
    BY <1>2, ThenOrderly
  <1>6. g.alls = h.alls /\ Len(g.promises) = Len(h.promises)
    BY <1>1, <1>2, ThenSame DEF SamePromises
  <1>7. StillCalls(h, g)
    BY <1>1, <1>6, SameCalls
  <1>8. CallbackOK(g, b, task)
    <2>1. task.callback = cb
      BY <1>3, TaskParts
    <2> QED
      BY <2>1, IsCallback
  <1>9. CallbacksOK(g, b)
    <2>1. \A t \in Due(g) : t \in Due(h) \/ CallbackOK(g, b, t)
      BY <1>4, <1>8
    <2> QED
      BY <1>7, <2>1, CallbacksStill
  <1> QED
    BY <1>1, <1>2, <1>5, <1>6, <1>9, HeapLengths DEF Keeps

LEMMA AllKeeps ==
  ASSUME NEW h, Orderly(h), NEW b \in Nat, CallbacksOK(h, b), NEW ps \in Seq(1..Len(h.promises))
  PROVE  Keeps(h, All(h, ps), b) /\ Len(All(h, ps).promises) = Len(h.promises) + 1
  <1>1. HeapTypeOK(h)
    BY DEF Orderly, HeapOK
  <1>2. PICK g : g = All(h, ps)
    OBVIOUS
  <1>3. AllEffect(h, g, ps)
    BY <1>2, AllMakes
  <1>4. PICK n \in Nat : n = Len(h.alls)
    BY <1>1, HeapLengths
  <1>5. Len(g.alls) = n + 1 /\ (\A a \in 1..n : g.alls[a] = h.alls[a]) /\ g.alls[n + 1] = NewAll(h, ps)
    BY <1>3, <1>4 DEF AllEffect
  <1>6. StillCalls(h, g)
    BY <1>4, <1>5 DEF StillCalls
  <1>7. g.alls[n + 1].of = ps
    BY <1>5 DEF NewAll
  <1>8. ASSUME NEW k \in 1..Len(ps)
        PROVE  CallbackOK(g, b, AllTask(h, ps, k))
    <2>1. PICK t : t = AllTask(h, ps, k)
      OBVIOUS
    <2>2. t.callback = Store(n + 1, k) /\ t.promise = ps[k]
      BY <1>4, <2>1, TaskParts DEF AllTask
    <2>3. n + 1 \in 1..Len(g.alls) /\ k \in 1..Len(g.alls[n + 1].of) /\ t.promise = g.alls[n + 1].of[k]
      BY <1>4, <1>5, <1>7, <2>2
    <2>4. \E a \in 1..Len(g.alls) : \E x \in 1..Len(g.alls[a].of) : t.callback = Store(a, x) /\ t.promise = g.alls[a].of[x]
      BY <2>2, <2>3
    <2>5. CallbackOK(g, b, t)
      BY <2>4, IsCallback
    <2> QED
      BY <2>1, <2>5
  <1>9. CallbacksOK(g, b)
    <2>1. Due(g) = Due(h) \cup {AllTask(h, ps, k) : k \in 1..Len(ps)}
      BY <1>3 DEF AllEffect
    <2>2. \A t \in Due(g) : t \in Due(h) \/ CallbackOK(g, b, t)
      BY <1>8, <2>1
    <2> QED
      BY <1>6, <2>2, CallbacksStill
  <1>10. Orderly(g) /\ Len(g.promises) = Len(h.promises) + 1
    BY <1>3 DEF AllEffect
  <1>11. Len(h.promises) <= Len(g.promises)
    BY <1>1, <1>10, HeapLengths
  <1> QED
    BY <1>2, <1>9, <1>10, <1>11 DEF Keeps

LEMMA TakenKeeps ==
  ASSUME NEW h, Orderly(h), h.microtasks # <<>>, NEW b \in Nat, CallbacksOK(h, b)
  PROVE  Keeps(h, Taken(h), b) /\ CallbackOK(h, b, NextTask(h)) /\ Taken(h).alls = h.alls
  <1>1. HeapTypeOK(h)
    BY DEF Orderly, HeapOK
  <1>2. PICK g : g = Taken(h)
    OBVIOUS
  <1>3. g.promises = h.promises /\ g.alls = h.alls
    BY <1>1, <1>2, TakenSame
  <1>4. Orderly(g) /\ NextTask(h) \in Due(h) /\ Due(g) = Due(h) \ {NextTask(h)}
    BY <1>2, TakenOrderly
  <1>5. StillCalls(h, g)
    BY <1>1, <1>3, SameCalls
  <1>6. CallbacksOK(g, b)
    BY <1>4, <1>5, CallbacksStill
  <1>7. CallbackOK(h, b, NextTask(h))
    BY <1>4 DEF CallbacksOK
  <1> QED
    BY <1>1, <1>2, <1>3, <1>4, <1>6, <1>7, HeapLengths DEF Keeps

LEMMA StoreKeeps ==
  ASSUME NEW h, Orderly(h), NEW b \in Nat, CallbacksOK(h, b),
         NEW c, c.all \in 1..Len(h.alls), c.index \in 1..Len(h.alls[c.all].of), NEW v
  PROVE  Keeps(h, RunStore(h, c, v), b) /\ Len(RunStore(h, c, v).promises) = Len(h.promises)
  <1>1. HeapTypeOK(h)
    BY DEF Orderly, HeapOK
  <1>2. PICK g : g = RunStore(h, c, v)
    OBVIOUS
  <1>3. Orderly(g) /\ Due(g) = Due(h) /\ StoredEffect(h, g, c, v) /\ Len(g.promises) = Len(h.promises)
    BY <1>2, RunStoreOrderly
  <1>4. StillCalls(h, g)
    <2>1. Len(g.alls) = Len(h.alls) /\ Len(h.alls) \in Nat
      BY <1>1, <1>3, HeapLengths DEF StoredEffect
    <2>2. \A a \in 1..Len(h.alls) : g.alls[a].of = h.alls[a].of
      BY <1>3 DEF StoredEffect
    <2> QED
      BY <2>1, <2>2 DEF StillCalls
  <1>5. CallbacksOK(g, b)
    BY <1>3, <1>4, CallbacksStill
  <1> QED
    BY <1>1, <1>2, <1>3, <1>5, HeapLengths DEF Keeps
-----------------------------------------------------------------------------
(* What holds of every state, and the shapes of the steps between them.     *)
ResumableOK == BodiesOK /\ CallsWait /\ JobOK /\ Orderly(heap) /\ CallbacksOK(heap, Len(frames))

Computes == Going /\ heap' = heap
Resolves == Going /\ \E p \in 1..HostPromises : \E v : heap' = Resolve(heap, p, v)
Notes == Going /\ \E p \in 1..HostPromises : heap' = Then(heap, p, Note)
Yields == (\E g : LeavesWith(Len(heap.promises), g) /\ g.awaits = Here.awaits) /\ heap' = heap /\ ~Async(Current)
FinishesWith(v) ==
  /\ \E g : /\ LeavesWith(Len(heap.promises), g) /\ g.awaits = Here.awaits
            /\ g.log # <<>> /\ Last(g.log) = <<"done", v>>
  /\ heap' = IF Async(Current) THEN Resolve(heap, Here.result, v) ELSE heap
Waits1 == \E p \in 1..Len(heap.promises) : SuspendsOn(heap, p)
WaitsForAll == \E ps \in Seq(1..Len(heap.promises)) : SuspendsOn(All(heap, ps), Len(heap.promises) + 1)
BodySteps == Computes \/ Resolves \/ Notes \/ Calling \/ Yields \/ (\E v : FinishesWith(v)) \/ Waits1 \/ WaitsForAll

BodyActions ==
  \/ Dispatch
  \/ RunLog \/ RunAssignment \/ RunStructured \/ RunResolve \/ RunThen \/ RunStart \/ RunReturn
  \/ TakeGoto \/ TakeBranch \/ TakeYield \/ TakeAwaitOfValue \/ TakeAwait \/ TakeAwaitOfCall \/ TakeComplete
  \/ CallReturned

LEMMA BodiesStep ==
  ASSUME ResumableOK, BodyActions
  PROVE  BodySteps
  <1>1. BodiesOK /\ CallsWait /\ Orderly(heap) /\ HeapTypeOK(heap)
    BY DEF ResumableOK, Orderly, HeapOK
  <1>2. CASE Dispatch
    BY <1>1, <1>2, DispatchGoes DEF Computes, BodySteps
  <1>3. CASE RunLog \/ RunAssignment
    BY <1>1, <1>3, LogGoes, AssignmentGoes DEF Computes, BodySteps
  <1>4. CASE RunStructured
    BY <1>1, <1>4, StructuredGoes DEF Computes, BodySteps
  <1>5. CASE RunResolve
    BY <1>1, <1>5, ResolveGoes DEF Resolves, BodySteps
  <1>6. CASE RunThen
    BY <1>1, <1>6, ThenGoes DEF Notes, BodySteps
  <1>7. CASE RunStart
    BY <1>1, <1>7, StartCalls DEF BodySteps
  <1>8. CASE RunReturn \/ TakeComplete
    <2>1. PICK v : stack # <<>> /\ Finished(v)
      BY <1>1, <1>8, DoneLeaves
    <2>2. FinishesWith(v)
      BY <1>1, <2>1, FinishedLeaves DEF FinishesWith
    <2> QED
      BY <2>2 DEF BodySteps
  <1>9. CASE TakeGoto \/ TakeBranch
    BY <1>1, <1>9, GotoGoes DEF Computes, BodySteps
  <1>10. CASE TakeYield
    BY <1>1, <1>10, YieldLeaves DEF Yields, BodySteps
  <1>11. CASE TakeAwaitOfValue
    BY <1>1, <1>11, AwaitOfValueGoes DEF Computes, BodySteps
  <1>12. CASE TakeAwait \/ CallReturned
    BY <1>1, <1>12, AwaitLeaves DEF Waits1, WaitsForAll, BodySteps
  <1>13. CASE TakeAwaitOfCall
    BY <1>1, <1>13, AwaitCalls DEF BodySteps
  <1> QED
    BY <1>2, <1>3, <1>4, <1>5, <1>6, <1>7, <1>8, <1>9, <1>10, <1>11, <1>12, <1>13 DEF BodyActions

(* A body runs, so the host is not between two calls. *)
LEMMA BodyUnderWay ==
  ASSUME BodySteps
  PROVE  stack # <<>> /\ program' = program /\ job' = job
  BY DEF BodySteps, Computes, Resolves, Notes, Calling, Yields, FinishesWith, Waits1, WaitsForAll, Going, GoesOn, CallsFrom,
         SuspendsOn, LeavesWith

LEMMA BodyStepsKeep ==
  ASSUME ResumableOK, BodySteps
  PROVE  (BodiesOK /\ CallsWait)' /\ Keeps(heap, heap', Len(frames'))
  <1>1. /\ BodiesOK /\ CallsWait /\ Orderly(heap) /\ HeapTypeOK(heap) /\ CallbacksOK(heap, Len(frames))
    BY DEF ResumableOK, Orderly, HeapOK
  <1>2. PICK n \in Nat : n = Len(heap.promises)
    BY <1>1, HeapLengths
  <1>3. PICK b \in Nat : b = Len(frames)
    BY <1>1, Lengths
  <1>4. 1..HostPromises \subseteq 1..n
    BY <1>1, <1>2, Lengths
  <1>5. ASSUME Going, NEW h, heap' = h, Keeps(heap, h, b)
        PROVE  (BodiesOK /\ CallsWait)' /\ Keeps(heap, heap', Len(frames'))
    <2>1. Len(h.promises) \in Nat /\ Len(heap.promises) <= Len(h.promises)
      BY <1>5, HeapLengths DEF Keeps, Orderly, HeapOK
    <2>2. (BodiesOK /\ CallsWait)' /\ Len(frames') = b
      BY <1>1, <1>3, <1>5, <2>1, GoingOK
    <2> QED
      BY <1>5, <2>2
  <1>6. ASSUME NEW m, NEW g, LeavesWith(m, g), NEW h, heap' = h, Keeps(heap, h, b), m = Len(h.promises)
        PROVE  (BodiesOK /\ CallsWait)' /\ Keeps(heap, heap', Len(frames'))
    <2>1. Len(h.promises) \in Nat /\ Len(heap.promises) <= Len(h.promises)
      BY <1>6, HeapLengths DEF Keeps, Orderly, HeapOK
    <2>2. (BodiesOK /\ CallsWait)' /\ Len(frames') = b
      BY <1>1, <1>3, <1>6, <2>1, LeavingOK
    <2> QED
      BY <1>6, <2>2
  <1>7. Keeps(heap, heap, b)
    BY <1>1, <1>3, HeapStays
  <1>8. CASE Computes
    BY <1>5, <1>7, <1>8 DEF Computes
  <1>9. CASE Resolves
    <2>1. PICK p \in 1..HostPromises : \E v : Going /\ heap' = Resolve(heap, p, v)
      BY <1>9 DEF Resolves
    <2>2. PICK v : Going /\ heap' = Resolve(heap, p, v)
      BY <2>1
    <2>3. Keeps(heap, Resolve(heap, p, v), b)
      BY <1>1, <1>2, <1>3, <1>4, ResolveKeeps
    <2> QED
      BY <1>5, <2>2, <2>3
  <1>10. CASE Notes
    <2>1. PICK p \in 1..HostPromises : Going /\ heap' = Then(heap, p, Note)
      BY <1>10 DEF Notes
    <2>2. Keeps(heap, Then(heap, p, Note), b)
      BY <1>1, <1>2, <1>3, <1>4, ThenKeeps
    <2> QED
      BY <1>5, <2>1, <2>2
  <1>11. CASE Calling
    <2>1. (BodiesOK /\ CallsWait)' /\ Len(frames') = b + 1
      BY <1>1, <1>3, <1>11, CallingOK
    <2>2. heap' = NewPromise(heap, Default)
      BY <1>11 DEF Calling
    <2>3. PICK c \in Nat : c = b + 1
      OBVIOUS
    <2>4. Keeps(heap, NewPromise(heap, Default), c)
      BY <1>1, <1>3, <2>3, NewKeeps
    <2> QED
      BY <2>1, <2>2, <2>3, <2>4
  <1>12. CASE Yields
    <2>1. PICK g : LeavesWith(n, g) /\ heap' = heap
      BY <1>2, <1>12 DEF Yields
    <2> QED
      BY <1>2, <1>6, <1>7, <2>1
  <1>13. ASSUME NEW v, FinishesWith(v)
         PROVE  (BodiesOK /\ CallsWait)' /\ Keeps(heap, heap', Len(frames'))
    <2>1. PICK g : LeavesWith(n, g)
      BY <1>2, <1>13 DEF FinishesWith
    <2>2. PICK h : h = IF Async(Current) THEN Resolve(heap, Here.result, v) ELSE heap
      OBVIOUS
    <2>3. heap' = h
      BY <1>13, <2>2 DEF FinishesWith
    <2>4. Keeps(heap, h, b) /\ Len(h.promises) = n
      <3>1. CASE Async(Current)
        <4>1. PICK p : p = Here.result
          OBVIOUS
        <4>2. stack # <<>> /\ FrameOK(program, n, Here) /\ Machine(Current) = Machines[program][Here.fn]
          BY <1>1, <1>2, <2>1, HereFurther DEF LeavesWith
        <4>3. p \in 1..n
          BY <1>2, <3>1, <4>1, <4>2, ProgramsAssumption DEF Async, Kind, FrameOK
        <4>4. h = Resolve(heap, p, v)
          BY <2>2, <3>1, <4>1
        <4> QED
          BY <1>1, <1>2, <1>3, <4>3, <4>4, ResolveKeeps, ResolveSame
      <3>2. CASE ~Async(Current)
        BY <1>2, <1>7, <2>2, <3>2
      <3> QED
        BY <3>1, <3>2
    <2> QED
      BY <1>6, <2>1, <2>3, <2>4
  <1>14. ASSUME NEW h, Keeps(heap, h, b), NEW p \in 1..Len(h.promises), SuspendsOn(h, p)
         PROVE  (BodiesOK /\ CallsWait)' /\ Keeps(heap, heap', Len(frames'))
    <2>1. PICK g : LeavesWith(Len(h.promises), g)
      BY <1>14 DEF SuspendsOn
    <2>2. PICK c \in 1..b : c = Current
      BY <1>1, <1>3, <2>1, TopOK DEF LeavesWith
    <2>3. PICK k : k = Then(h, p, Resume(c))
      OBVIOUS
    <2>4. heap' = k
      BY <1>14, <2>2, <2>3 DEF SuspendsOn
    <2>5. Orderly(h) /\ CallbacksOK(h, b) /\ HeapTypeOK(h) /\ Len(heap.promises) <= Len(h.promises)
      BY <1>14 DEF Keeps, Orderly, HeapOK
    <2>6. PICK cb : cb = Resume(c)
      OBVIOUS
    <2>7. Keeps(h, k, b) /\ Len(k.promises) = Len(h.promises)
      <3>1. \E i \in 1..b : cb = Resume(i)
        BY <2>6
      <3>2. k = Then(h, p, cb)
        BY <2>3, <2>6
      <3> QED
        BY <1>3, <2>5, <3>1, <3>2, ThenKeeps, ThenSame DEF SamePromises
    <2>8. Keeps(heap, k, b)
      BY <2>5, <2>7 DEF Keeps
    <2> QED
      BY <1>6, <2>1, <2>4, <2>7, <2>8
  <1>15. CASE Waits1
    <2>1. PICK p \in 1..Len(heap.promises) : SuspendsOn(heap, p)
      BY <1>15 DEF Waits1
    <2> QED
      BY <1>7, <1>14, <2>1
  <1>16. CASE WaitsForAll
    <2>1. PICK ps \in Seq(1..Len(heap.promises)) : SuspendsOn(All(heap, ps), n + 1)
      BY <1>2, <1>16 DEF WaitsForAll
    <2>2. PICK h : h = All(heap, ps)
      OBVIOUS
    <2>3. Keeps(heap, h, b) /\ Len(h.promises) = n + 1
      BY <1>1, <1>2, <1>3, <2>2, AllKeeps
    <2>4. n + 1 \in 1..Len(h.promises)
      BY <2>3
    <2> QED
      BY <1>14, <2>1, <2>2, <2>3, <2>4
  <1> QED
    BY <1>8, <1>9, <1>10, <1>11, <1>12, <1>13, <1>15, <1>16 DEF BodySteps

(* The task at the head of the queue. *)
ResumesTask(i) == NextTask(heap).callback = Resume(i) /\ Awakes(i, 0) /\ heap' = Taken(heap)
StoresTask(a, k) ==
  /\ NextTask(heap).callback = Store(a, k) /\ NextTask(heap).promise = heap.alls[a].of[k]
  /\ heap' = RunStore(Taken(heap), Store(a, k), ValueOf(heap, NextTask(heap)))
  /\ UNCHANGED <<frames, stack, program>>
NotesTask == NextTask(heap).callback = Note /\ heap' = Taken(heap) /\ UNCHANGED <<frames, stack, program>>

LEMMA TaskRuns ==
  ASSUME ResumableOK, RunTask
  PROVE  /\ job = "drain" /\ job' = job /\ stack = <<>> /\ heap.microtasks # <<>>
         /\ \/ \E i \in 1..Len(frames) : ResumesTask(i)
            \/ \E a \in 1..Len(heap.alls) : \E k \in 1..Len(heap.alls[a].of) : StoresTask(a, k)
            \/ NotesTask
  <1>1. BodiesOK /\ HeapTypeOK(heap) /\ Orderly(heap) /\ CallbacksOK(heap, Len(frames))
    BY DEF ResumableOK, Orderly, HeapOK
  <1>2. job = "drain" /\ job' = job /\ stack = <<>> /\ heap.microtasks # <<>> /\ program' = program
    BY DEF RunTask
  <1>3. PICK t : t = NextTask(heap)
    OBVIOUS
  <1>4. PICK b \in Nat : b = Len(frames)
    BY <1>1, Lengths
  <1>5. PICK v : v = ValueOf(heap, t)
    OBVIOUS
  <1>6. RunCallback(t.callback, v)
    BY <1>3, <1>5 DEF RunTask
  <1>7. CallbackOK(heap, b, t)
    BY <1>1, <1>2, <1>3, <1>4, TakenKeeps
  <1>8. CASE t.callback = Note
    <2>1. t.callback.is = "note"
      BY <1>8 DEF Note
    <2>2. heap' = Taken(heap) /\ UNCHANGED <<frames, stack>>
      BY <1>6, <2>1 DEF RunCallback
    <2> QED
      BY <1>2, <1>3, <1>8, <2>2 DEF NotesTask
  <1>9. ASSUME NEW i \in 1..b, t.callback = Resume(i)
        PROVE  ResumesTask(i)
    <2>1. t.callback.is = "resume" /\ t.callback.frame = i
      BY <1>9 DEF Resume
    <2>2. ResumedWith(i, v) /\ heap' = Taken(heap)
      BY <1>2, <1>6, <2>1 DEF RunCallback, ResumedWith
    <2>3. Awakes(i, 0)
      BY <1>1, <1>4, <2>2, ResumeAwakes
    <2> QED
      BY <1>3, <1>9, <2>2, <2>3 DEF ResumesTask
  <1>10. ASSUME NEW a \in 1..Len(heap.alls), NEW k \in 1..Len(heap.alls[a].of),
                t.callback = Store(a, k), t.promise = heap.alls[a].of[k]
         PROVE  StoresTask(a, k)
    <2>1. t.callback.is = "store"
      BY <1>10 DEF Store
    <2>2. heap' = RunStore(Taken(heap), t.callback, v) /\ UNCHANGED <<frames, stack>>
      BY <1>6, <2>1 DEF RunCallback
    <2> QED
      BY <1>2, <1>3, <1>5, <1>10, <2>2 DEF StoresTask
  <1> QED
    BY <1>2, <1>4, <1>7, <1>8, <1>9, <1>10, KindsOf

LEMMA TaskKeeps ==
  ASSUME ResumableOK, RunTask
  PROVE  (BodiesOK /\ CallsWait)' /\ Keeps(heap, heap', Len(frames'))
  <1>1. BodiesOK /\ CallsWait /\ HeapTypeOK(heap) /\ Orderly(heap) /\ CallbacksOK(heap, Len(frames))
    BY DEF ResumableOK, Orderly, HeapOK
  <1>2. stack = <<>> /\ heap.microtasks # <<>>
    BY TaskRuns
  <1>3. PICK b \in Nat : b = Len(frames)
    BY <1>1, Lengths
  <1>4. PICK g : g = Taken(heap)
    OBVIOUS
  <1>5. Keeps(heap, g, b) /\ g.alls = heap.alls
    BY <1>1, <1>2, <1>3, <1>4, TakenKeeps
  <1>6. PICK n \in Nat : n = Len(heap.promises)
    BY <1>1, HeapLengths
  <1>7. Len(g.promises) = n
    BY <1>1, <1>2, <1>4, <1>6, TakenSame
  <1>8. ASSUME UNCHANGED <<frames, stack, program>>, Len(heap'.promises) = n
        PROVE  (BodiesOK /\ CallsWait)' /\ Len(frames') = b
    <2>1. FramesOK(program, n, frames') /\ Len(frames') = b /\ stack' = <<>>
      BY <1>1, <1>2, <1>3, <1>6, <1>8 DEF BodiesOK
    <2>2. ProgramOK /\ HostPromises <= n /\ program' = program
      BY <1>1, <1>6, <1>8, ProgramsAssumption DEF BodiesOK
    <2> QED
      BY <1>8, <2>1, <2>2, StartsOver
  <1>9. ASSUME NEW i \in 1..Len(frames), ResumesTask(i)
        PROVE  (BodiesOK /\ CallsWait)' /\ Keeps(heap, heap', Len(frames'))
    <2>1. Awakes(i, 0) /\ heap' = g
      BY <1>4, <1>9 DEF ResumesTask
    <2>2. (BodiesOK /\ CallsWait)' /\ Len(frames') = b
      BY <1>1, <1>3, <1>6, <1>7, <2>1, AwakesOK
    <2> QED
      BY <1>5, <2>1, <2>2
  <1>10. ASSUME NEW a \in 1..Len(heap.alls), NEW k \in 1..Len(heap.alls[a].of), StoresTask(a, k)
         PROVE  (BodiesOK /\ CallsWait)' /\ Keeps(heap, heap', Len(frames'))
    <2>1. PICK v : v = ValueOf(heap, NextTask(heap))
      OBVIOUS
    <2>2. PICK c : c = Store(a, k)
      OBVIOUS
    <2>3. c.all = a /\ c.index = k
      BY <2>2 DEF Store
    <2>4. PICK h : h = RunStore(g, c, v)
      OBVIOUS
    <2>5. heap' = h /\ UNCHANGED <<frames, stack, program>>
      BY <1>4, <1>10, <2>1, <2>2, <2>4 DEF StoresTask
    <2>6. Orderly(g) /\ CallbacksOK(g, b)
      BY <1>5 DEF Keeps
    <2>7. c.all \in 1..Len(g.alls) /\ c.index \in 1..Len(g.alls[c.all].of)
      BY <1>5, <2>3
    <2>8. Keeps(g, h, b) /\ Len(h.promises) = n
      BY <1>3, <1>7, <2>4, <2>6, <2>7, StoreKeeps
    <2>9. Keeps(heap, h, b)
      BY <1>6, <2>8 DEF Keeps
    <2>10. (BodiesOK /\ CallsWait)' /\ Len(frames') = b
      BY <1>8, <2>5, <2>8
    <2> QED
      BY <2>5, <2>9, <2>10
  <1>11. CASE NotesTask
    <2>1. heap' = g /\ UNCHANGED <<frames, stack, program>>
      BY <1>4, <1>11 DEF NotesTask
    <2>2. (BodiesOK /\ CallsWait)' /\ Len(frames') = b
      BY <1>7, <1>8, <2>1
    <2> QED
      BY <1>5, <2>1, <2>2
  <1> QED
    BY <1>9, <1>10, <1>11, TaskRuns

LEMMA QuietKeeps ==
  ASSUME ResumableOK, CallReturns \/ Drained
  PROVE  ResumableOK'
  <1>1. UNCHANGED <<program, frames, heap, stack>>
    BY DEF CallReturns, Drained
  <1>2. JobOK'
    BY DEF CallReturns, Drained, JobOK
  <1>3. (BodiesOK /\ CallsWait)'
    BY <1>1 DEF ResumableOK, BodiesOK, CallsWait, ProgramOK
  <1> QED
    BY <1>1, <1>2, <1>3 DEF ResumableOK

LEMMA HostKeeps ==
  ASSUME ResumableOK, HostNextCall
  PROVE  (BodiesOK /\ CallsWait)' /\ Keeps(heap, heap', Len(frames')) /\ job' \in {"call", "drain"}
  <1>1. BodiesOK /\ HeapTypeOK(heap) /\ Orderly(heap) /\ CallbacksOK(heap, Len(frames))
    BY DEF ResumableOK, Orderly, HeapOK
  <1>2. job = "idle" /\ stack = <<>>
    BY DEF ResumableOK, JobOK, HostNextCall, HostStarts, HostMakes, HostNext, HostResolves, HostCall
  <1>3. PICK b \in Nat : b = Len(frames)
    BY <1>1, Lengths
  <1>4. Keeps(heap, heap, b) /\ Keeps(heap, heap, b + 1)
    BY <1>1, <1>3, HeapStays
  <1>5. ASSUME NEW fn \in DOMAIN program, HostStarts(fn)
        PROVE  (BodiesOK /\ CallsWait)' /\ Keeps(heap, heap', Len(frames')) /\ job' \in {"call", "drain"}
    <2>1. (BodiesOK /\ CallsWait)' /\ Len(frames') = b + 1 /\ heap' = NewPromise(heap, Default) /\ job' = "call"
      BY <1>1, <1>3, <1>5, HostStartsOK
    <2>2. PICK c \in Nat : c = b + 1
      OBVIOUS
    <2>3. Keeps(heap, NewPromise(heap, Default), c)
      BY <1>1, <1>3, <2>2, NewKeeps
    <2> QED
      BY <2>1, <2>2, <2>3
  <1>6. ASSUME NEW fn \in DOMAIN program, HostMakes(fn)
        PROVE  (BodiesOK /\ CallsWait)' /\ Keeps(heap, heap', Len(frames')) /\ job' \in {"call", "drain"}
    <2>1. (BodiesOK /\ CallsWait)' /\ Len(frames') = b + 1 /\ heap' = heap /\ job' = "drain"
      BY <1>1, <1>2, <1>3, <1>6, HostMakesOK
    <2> QED
      BY <1>4, <2>1
  <1>7. ASSUME NEW i \in DOMAIN frames, HostNext(i)
        PROVE  (BodiesOK /\ CallsWait)' /\ Keeps(heap, heap', Len(frames')) /\ job' \in {"call", "drain"}
    <2>1. Awakes(i, frames[i].awaits) /\ heap' = heap /\ job' = "call"
      BY <1>1, <1>7, NextAwakes
    <2>2. (BodiesOK /\ CallsWait)' /\ Len(frames') = b
      BY <1>1, <1>3, <2>1, AwakesOK
    <2> QED
      BY <1>4, <2>1, <2>2
  <1>8. ASSUME NEW p \in 1..HostPromises, HostResolves(p)
        PROVE  (BodiesOK /\ CallsWait)' /\ Keeps(heap, heap', Len(frames')) /\ job' \in {"call", "drain"}
    <2>1. PICK v \in Sent : heap' = Resolve(heap, p, Num(v))
      BY <1>8 DEF HostResolves
    <2>2. UNCHANGED <<program, frames, stack>> /\ job' = "drain"
      BY <1>8 DEF HostResolves, HostCall
    <2>3. PICK h : h = Resolve(heap, p, Num(v))
      OBVIOUS
    <2>4. p \in 1..Len(heap.promises)
      BY <1>1, Lengths
    <2>5. Keeps(heap, h, b) /\ Len(h.promises) = Len(heap.promises)
      BY <1>1, <1>3, <2>3, <2>4, ResolveKeeps, ResolveSame
    <2>6. PICK n \in Nat : n = Len(heap.promises)
      BY <1>1, HeapLengths
    <2>7. FramesOK(program, n, frames') /\ Len(frames') = b /\ stack' = <<>>
      BY <1>1, <1>2, <1>3, <2>2, <2>6 DEF BodiesOK
    <2>8. ProgramOK /\ HostPromises <= n /\ program' = program /\ n = Len(heap'.promises)
      BY <1>1, <2>1, <2>2, <2>3, <2>5, <2>6, ProgramsAssumption DEF BodiesOK
    <2>9. (BodiesOK /\ CallsWait)'
      BY <2>7, <2>8, StartsOver
    <2> QED
      BY <2>1, <2>2, <2>3, <2>5, <2>7, <2>9
  <1> QED
    BY <1>5, <1>6, <1>7, <1>8 DEF HostNextCall

LEMMA EmptyOrderly ==
  ASSUME NEW h, NEW n \in Nat, Parts(h, [i \in 1..n |-> Pending(Default)], <<>>, <<>>, 0, <<>>)
  PROVE  Orderly(h) /\ Due(h) = {} /\ Len(h.promises) = n
  <1>1. PICK promises : promises = [i \in 1..n |-> Pending(Default)]
    OBVIOUS
  <1>2. /\ h.promises = promises /\ h.alls = <<>> /\ h.microtasks = <<>> /\ h.clock = 0 /\ h.ran = <<>>
        /\ Parts(h, h.promises, h.alls, h.microtasks, h.clock, h.ran)
    BY <1>1, PartsOf
  <1>3. IsSequence(promises) /\ Len(promises) = n /\ \A i \in 1..n : promises[i] = Pending(Default)
    <2>1. promises \in Seq({Pending(Default)})
      BY <1>1
    <2>2. IsSequence(promises)
      BY <2>1, SomeSequence
    <2> QED
      BY <1>1, <2>2
  <1>4. IsSequence(<<>>) /\ Len(<<>>) = 0
    BY DEF IsSequence
  <1>5. \A i \in 1..n : PromiseOK(promises[i]) /\ ~promises[i].settled /\ promises[i].callbacks = <<>>
    BY <1>3, PendingOK DEF Pending
  <1>6. HeapTypeOK(h)
    <2>1. \A p \in 1..Len(h.promises) : PromiseOK(h.promises[p])
      BY <1>2, <1>3, <1>5
    <2> QED
      BY <1>2, <1>3, <1>4, <2>1 DEF HeapTypeOK, Parts
  <1>7. Len(Jobs(h)) = 0
    <2>1. Jobs(h) = <<>> \o <<>>
      BY <1>2 DEF Jobs
    <2> QED
      BY <1>4, <2>1, ConcatFacts
  <1>8. ClockAhead(h) /\ CallbacksInOrder(h) /\ JobsSettled(h) /\ InOrder(h)
    <2>1. \A p \in 1..Len(h.promises) : ~h.promises[p].settled /\ Len(h.promises[p].callbacks) = 0
      BY <1>2, <1>3, <1>4, <1>5
    <2>2. ClockAhead(h)
      BY <1>7, <2>1 DEF ClockAhead
    <2>3. CallbacksInOrder(h)
      BY <2>1 DEF CallbacksInOrder
    <2> QED
      BY <1>7, <2>2, <2>3 DEF JobsSettled, InOrder
  <1>9. HeapOK(h)
    BY <1>6, <1>8 DEF HeapOK
  <1>10. Attachments(h) = {} /\ Settles(h) = {}
    <2>1. \A x : ~AttachedIn(h.promises, Len(h.promises), x)
      BY <1>2, <1>3, <1>4, <1>5 DEF AttachedIn
    <2>2. \A p : ~(p \in 1..Len(h.promises) /\ h.promises[p].settled)
      BY <1>2, <1>3, <1>5
    <2> QED
      BY <1>6, <2>1, <2>2, AttachmentsAre
  <1>11. Counted(h)
    BY <1>2, <1>7, <1>10, FS_EmptySet DEF Counted
  <1>12. Due(h) = {}
    <2>1. \A t : ~Has(h.microtasks, t)
      BY <1>2, <1>4 DEF Has
    <2>2. \A t : \A p \in 1..n : ~CalledBack(h.promises, p, t)
      BY <1>2, <1>4, <1>5 DEF CalledBack
    <2>3. \A t : ~DueIn(h.promises, Len(h.promises), h.microtasks, t)
      BY <1>2, <1>3, <2>1, <2>2 DEF DueIn
    <2> QED
      BY <1>6, <2>3, DueAre
  <1> QED
    BY <1>2, <1>3, <1>9, <1>11, <1>12 DEF Orderly

LEMMA InitOK ==
  ASSUME ResumableInit
  PROVE  ResumableOK /\ Due(heap) = {} /\ heap.alls = <<>> /\ frames = <<>>
  <1>1. program \in Accepted /\ frames = <<>> /\ stack = <<>> /\ job = "idle"
    BY DEF ResumableInit
  <1>2. PICK n \in Nat : n = HostPromises
    BY ProgramsAssumption
  <1>3. PICK promises : promises = [i \in 1..n |-> Pending(Default)]
    OBVIOUS
  <1>4. PICK h : h = EmptyHeap
    OBVIOUS
  <1>5. Parts(h, <<>>, <<>>, <<>>, 0, <<>>)
    BY <1>4 DEF EmptyHeap, Parts
  <1>6. Parts([h EXCEPT !.promises = promises], promises, <<>>, <<>>, 0, <<>>)
    BY <1>5, PartsExcept
  <1>7. heap = [h EXCEPT !.promises = promises]
    BY <1>2, <1>3, <1>4 DEF ResumableInit
  <1>8. Parts(heap, promises, <<>>, <<>>, 0, <<>>)
    BY <1>6, <1>7
  <1>9. Orderly(heap) /\ Due(heap) = {} /\ Len(heap.promises) = n
    BY <1>3, <1>8, EmptyOrderly
  <1>10. heap.microtasks = <<>> /\ heap.alls = <<>>
    BY <1>8, PartsOf
  <1>11. IsSequence(<<>>) /\ Len(<<>>) = 0
    BY DEF IsSequence
  <1>12. BodiesOK
    BY <1>1, <1>2, <1>9, <1>11 DEF BodiesOK, ProgramOK, FramesOK, StackOK
  <1>13. CallsWait
    BY <1>1, <1>11 DEF CallsWait, Apart, CalledWait
  <1>14. JobOK
    BY <1>1, <1>10 DEF JobOK
  <1>15. CallbacksOK(heap, Len(frames))
    BY <1>9 DEF CallbacksOK
  <1> QED
    BY <1>1, <1>9, <1>10, <1>12, <1>13, <1>14, <1>15 DEF ResumableOK

LEMMA StepKeeps ==
  ASSUME ResumableOK, [ResumableNext]_resumableVars
  PROVE  ResumableOK'
  <1>1. ASSUME (BodiesOK /\ CallsWait)', Keeps(heap, heap', Len(frames')), JobOK'
        PROVE  ResumableOK'
    BY <1>1 DEF ResumableOK, Keeps
  <1>2. CASE UNCHANGED resumableVars
    BY <1>2 DEF resumableVars, ResumableOK, BodiesOK, CallsWait, ProgramOK, JobOK
  <1>3. CASE HostNextCall
    <2>1. JobOK'
      BY <1>3, HostKeeps DEF JobOK
    <2> QED
      BY <1>1, <1>3, <2>1, HostKeeps
  <1>4. CASE BodyActions
    <2>1. BodySteps
      BY <1>4, BodiesStep
    <2>2. JobOK'
      BY <2>1, BodyUnderWay DEF ResumableOK, JobOK
    <2> QED
      BY <1>1, <2>1, <2>2, BodyStepsKeep
  <1>5. CASE RunTask
    <2>1. JobOK'
      BY <1>5, TaskRuns DEF JobOK
    <2> QED
      BY <1>1, <1>5, <2>1, TaskKeeps
  <1>6. CASE CallReturns \/ Drained
    BY <1>6, QuietKeeps
  <1> QED
    BY <1>2, <1>3, <1>4, <1>5, <1>6 DEF ResumableNext, RuntimeNext, BodyActions

(* Whatever the programs are: frames, activations, promises and callbacks   *)
(* refer to what there is, a body is under way once, and what is queued     *)
(* belongs to a settled promise.                                            *)
THEOREM ResumableCorrect == ResumableSpec => []ResumableOK
  <1>1. ResumableInit => ResumableOK
    BY InitOK
  <1>2. ResumableOK /\ [ResumableNext]_resumableVars => ResumableOK'
    BY StepKeeps
  <1> QED
    BY <1>1, <1>2, PTL DEF ResumableSpec

(* Callbacks run in the order in which both they were attached and their    *)
(* promise was settled, those of one promise in the order attached, and     *)
(* none is lost or runs twice: promise.ts's microtask queue.                *)
THEOREM InOrderAndOnce == ResumableSpec => []JobsInOrder
  <1>1. ResumableOK => JobsInOrder
    <2>1. ASSUME ResumableOK
          PROVE  JobsInOrder
      <3>1. Orderly(heap)
        BY <2>1 DEF ResumableOK
      <3>2. HeapTypeOK(heap) /\ JobsSettled(heap) /\ Counted(heap) /\ InOrder(heap)
        BY <3>1 DEF Orderly, HeapOK
      <3> QED
        BY <3>2, CountedEach DEF JobsInOrder
    <2> QED
      BY <2>1
  <1> QED
    BY <1>1, ResumableCorrect, PTL
-----------------------------------------------------------------------------
(* What a step leaves as it was. *)
Alike(h, g, p) == g.promises[p].settled = h.promises[p].settled /\ g.promises[p].value = h.promises[p].value
Untouched(h, g, st, ts, f, i) ==
  DueTo(g, i) = DueTo(h, i) /\ (OnStack(ts, i) <=> OnStack(st, i)) /\ Alike(h, g, f.result)

LEMMA BodyStill ==
  ASSUME NEW p, NEW h, NEW g, NEW st, NEW ts, NEW f, NEW i, DueTo(g, i) = DueTo(h, i),
         AsyncFrame(p, f) => Untouched(h, g, st, ts, f, i), BodyTracked(p, h, f, i, st)
  PROVE  BodyTracked(p, g, f, i, ts)
  <1>1. AwaitsDue(g, f, i)
    BY DEF BodyTracked, AwaitsDue
  <1>2. ASSUME AsyncFrame(p, f)
        PROVE  Runs(g, f, i, ts) \/ Waits(g, f, i, ts) \/ Ended(g, f, i, ts)
    <2>1. (OnStack(ts, i) <=> OnStack(st, i)) /\ (Open(g, f.result) <=> Open(h, f.result))
          /\ g.promises[f.result].value = h.promises[f.result].value
      BY <1>2 DEF Untouched, Alike, Open
    <2>2. CASE Runs(h, f, i, st)
      BY <2>1, <2>2 DEF Runs
    <2>3. CASE Waits(h, f, i, st)
      BY <2>1, <2>3 DEF Waits
    <2>4. CASE Ended(h, f, i, st)
      BY <2>1, <2>4 DEF Ended
    <2> QED
      BY <1>2, <2>2, <2>3, <2>4 DEF BodyTracked
  <1> QED
    BY <1>1, <1>2 DEF BodyTracked

(* The bodies but c are as they were. *)
OthersAsWere(p, h, g, st, ts, fs, gs, c) ==
  \A i \in 1..Len(fs) : i # c =>
    /\ gs[i] = fs[i] /\ DueTo(g, i) = DueTo(h, i)
    /\ AsyncFrame(p, fs[i]) => Untouched(h, g, st, ts, fs[i], i)
LEMMA OthersTracked ==
  ASSUME NEW p, NEW h, NEW g, NEW st, NEW ts, NEW fs, NEW gs, NEW c, OthersAsWere(p, h, g, st, ts, fs, gs, c),
         BodiesTracked(p, h, fs, st), NEW i \in 1..Len(fs), i # c
  PROVE  BodyTracked(p, g, gs[i], i, ts)
  <1>1. gs[i] = fs[i] /\ DueTo(g, i) = DueTo(h, i) /\ (AsyncFrame(p, fs[i]) => Untouched(h, g, st, ts, fs[i], i))
    BY DEF OthersAsWere
  <1>2. BodyTracked(p, h, fs[i], i, st)
    BY DEF BodiesTracked
  <1>3. BodyTracked(p, g, fs[i], i, ts)
    BY <1>1, <1>2, BodyStill
  <1> QED
    BY <1>1, <1>3

(* Who is on the stack. *)
LEMMA UpGoing ==
  ASSUME NEW st, IsSequence(st), st # <<>>, NEW s, s.frame = st[Len(st)].frame, NEW ts,
         ts = [st EXCEPT ![Len(st)] = s], NEW i
  PROVE  OnStack(ts, i) <=> OnStack(st, i)
  <1>1. Len(st) \in 1..Len(st)
    BY FrontFacts
  <1>2. PICK n : n = Len(st)
    OBVIOUS
  <1>3. IsExcept(ts, st, n, s)
    BY <1>1, <1>2, ExceptElements
  <1>4. Len(ts) = n /\ \A k \in 1..n : ts[k].frame = st[k].frame
    BY <1>1, <1>2, <1>3 DEF IsExcept
  <1> QED
    BY <1>2, <1>4 DEF OnStack

LEMMA UpLeaving ==
  ASSUME NEW st, IsSequence(st), st # <<>>, Apart(st), NEW i
  PROVE  OnStack(Front(st), i) <=> OnStack(st, i) /\ i # st[Len(st)].frame
  <1>1. PICK n \in Nat : n = Len(st)
    BY FrontFacts
  <1>2. PICK front : front = Front(st)
    OBVIOUS
  <1>3. n > 0 /\ Len(front) = n - 1 /\ \A k \in 1..(n - 1) : front[k] = st[k]
    BY <1>1, <1>2, FrontFacts
  <1>4. \A k \in 1..(n - 1) : st[k].frame # st[n].frame
    BY <1>1, NotTheTop
  <1>5. OnStack(front, i) <=> \E k \in 1..(n - 1) : st[k].frame = i
    BY <1>3 DEF OnStack
  <1>6. \A k \in 1..n : k \in 1..(n - 1) \/ k = n
    BY <1>1
  <1>7. 1..(n - 1) \subseteq 1..n
    BY <1>1
  <1>8. OnStack(st, i) <=> \E k \in 1..n : st[k].frame = i
    BY <1>1 DEF OnStack
  <1> QED
    BY <1>1, <1>2, <1>4, <1>5, <1>6, <1>7, <1>8

LEMMA UpCalling ==
  ASSUME NEW st, IsSequence(st), st # <<>>, NEW ts, OneMoreCall(st, ts), NEW i
  PROVE  OnStack(ts, i) <=> OnStack(st, i) \/ i = ts[Len(st) + 1].frame
  <1>1. PICK n \in Nat : n = Len(st)
    BY FrontFacts
  <1>2. Len(ts) = n + 1 /\ \A k \in 1..n : ts[k].frame = st[k].frame
    BY <1>1 DEF OneMoreCall
  <1>3. 1..(n + 1) = 1..n \cup {n + 1}
    BY <1>1
  <1>4. OnStack(ts, i) <=> \E k \in 1..(n + 1) : ts[k].frame = i
    BY <1>2 DEF OnStack
  <1>5. OnStack(st, i) <=> \E k \in 1..n : st[k].frame = i
    BY <1>1 DEF OnStack
  <1> QED
    BY <1>1, <1>2, <1>3, <1>4, <1>5

LEMMA UpOne ==
  ASSUME NEW c, NEW v, NEW i
  PROVE  /\ OnStack(<<Activation(c, v)>>, i) <=> i = c
         /\ ~OnStack(<<>>, i)
  <1>1. PICK s : s = Activation(c, v)
    OBVIOUS
  <1>2. s.frame = c
    BY <1>1 DEF Activation
  <1>3. Len(<<s>>) = 1 /\ <<s>>[1] = s /\ 1..1 = {1}
    BY Singleton
  <1>4. OnStack(<<s>>, i) <=> i = c
    BY <1>2, <1>3 DEF OnStack
  <1> QED
    BY <1>1, <1>4 DEF OnStack
-----------------------------------------------------------------------------
(* What is due with a callback. *)
LEMMA DueWithStill ==
  ASSUME NEW h, NEW g, Due(g) = Due(h)
  PROVE  /\ \A c : DueWith(g, c) = DueWith(h, c)
         /\ \A i : DueTo(g, i) = DueTo(h, i)
         /\ \A a, k : DueFor(g, a, k) = DueFor(h, a, k)
  BY DEF DueWith, DueTo, DueFor
LEMMA DueWithMore ==
  ASSUME NEW h, NEW g, NEW u, Due(g) = Due(h) \cup {u}, NEW c
  PROVE  DueWith(g, c) = IF u.callback = c THEN DueWith(h, c) \cup {u} ELSE DueWith(h, c)
  BY DEF DueWith
LEMMA DueWithLess ==
  ASSUME NEW h, NEW g, NEW u, Due(g) = Due(h) \ {u}, NEW c
  PROVE  DueWith(g, c) = IF u.callback = c THEN DueWith(h, c) \ {u} ELSE DueWith(h, c)
  BY DEF DueWith
LEMMA Callback ==
  /\ \A i, a, k : Resume(i) # Store(a, k) /\ Resume(i) # Note /\ Note # Store(a, k)
  /\ \A i, j : Resume(i) = Resume(j) => i = j
  /\ \A a, k, b, l : Store(a, k) = Store(b, l) => a = b /\ k = l
  BY DEF Resume, Store, Note

(* What is settled stays as it is settled. *)
Steady(h, g) == \A p \in 1..Len(h.promises) : ~Open(h, p) => Alike(h, g, p)
AllAsWas(h, g, a) ==
  /\ g.alls[a] = h.alls[a] /\ Alike(h, g, h.alls[a].result)
  /\ \A k : DueFor(g, a, k) = DueFor(h, a, k)
LEMMA AllStill ==
  ASSUME NEW h, HeapTypeOK(h), NEW g, Steady(h, g), NEW a \in 1..Len(h.alls), AllAsWas(h, g, a), AllTracked(h, a)
  PROVE  AllTracked(g, a)
  <1>1. PICK all : all = h.alls[a]
    OBVIOUS
  <1>2. g.alls[a] = all /\ all.of \in Seq(1..Len(h.promises)) /\ Alike(h, g, all.result)
    BY <1>1 DEF HeapTypeOK, AllOK, AllAsWas
  <1>3. Missing(g, a) = Missing(h, a)
    BY <1>1, <1>2 DEF Missing, AllAsWas
  <1>4. all.remaining = Cardinality(Missing(g, a)) /\ \A k \in Missing(g, a) : \E t \in DueFor(g, a, k) : DueFor(g, a, k) = {t}
    BY <1>1, <1>3 DEF AllTracked, AllAsWas
  <1>5. ASSUME NEW k \in 1..Len(all.of), k \notin Missing(g, a)
        PROVE  Gathered(g, all, k)
    <2>1. all.of[k] \in 1..Len(h.promises)
      BY <1>2
    <2>2. Gathered(h, all, k)
      BY <1>1, <1>3, <1>5 DEF AllTracked
    <2>3. Alike(h, g, all.of[k])
      BY <2>1, <2>2 DEF Steady, Gathered
    <2> QED
      BY <2>2, <2>3 DEF Gathered, Alike, Open
  <1>6. /\ Open(h, all.result) <=> Missing(h, a) # {}
        /\ ~Open(h, all.result) => h.promises[all.result].value = <<"list", all.values>>
    BY <1>1 DEF AllTracked
  <1>7. /\ Open(g, all.result) <=> Missing(g, a) # {}
        /\ ~Open(g, all.result) => g.promises[all.result].value = <<"list", all.values>>
    BY <1>2, <1>3, <1>6 DEF Alike, Open
  <1> QED
    BY <1>2, <1>4, <1>5, <1>7 DEF AllTracked

LEMMA AllsStill ==
  ASSUME NEW h, HeapTypeOK(h), NEW g, Steady(h, g), Len(g.alls) = Len(h.alls), AllsTracked(h),
         \A a \in 1..Len(h.alls) : AllAsWas(h, g, a)
  PROVE  AllsTracked(g)
  BY AllStill DEF AllsTracked

LEMMA AllResults ==
  ASSUME NEW h, HeapTypeOK(h), NEW a \in 1..Len(h.alls)
  PROVE  h.alls[a].result \in 1..Len(h.promises) /\ h.alls[a].of \in Seq(1..Len(h.promises))
  BY DEF HeapTypeOK, AllOK

LEMMA AllsResolve ==
  ASSUME NEW h, Orderly(h), AllsTracked(h), NEW p \in 1..Len(h.promises), NEW v,
         \A a \in 1..Len(h.alls) : h.alls[a].result # p
  PROVE  AllsTracked(Resolve(h, p, v))
  <1>1. HeapTypeOK(h)
    BY DEF Orderly, HeapOK
  <1>2. PICK g : g = Resolve(h, p, v)
    OBVIOUS
  <1>3. /\ g.alls = h.alls /\ Len(g.promises) = Len(h.promises)
        /\ g.promises[p].value = (IF h.promises[p].settled THEN h.promises[p].value ELSE v) /\ g.promises[p].settled
        /\ \A k \in 1..Len(h.promises) : k # p => g.promises[k] = h.promises[k]
    BY <1>1, <1>2, ResolveSame
  <1>4. Due(g) = Due(h)
    BY <1>2, ResolveOrderly
  <1>5. \A k \in 1..Len(h.promises) : k # p => Alike(h, g, k)
    BY <1>3 DEF Alike
  <1>6. ~Open(h, p) => Alike(h, g, p)
    <2> SUFFICES ASSUME ~Open(h, p)
                 PROVE  Alike(h, g, p)
      OBVIOUS
    <2>1. g = h
      BY <1>2 DEF Open, Resolve
    <2> QED
      BY <2>1 DEF Alike
  <1>7. Steady(h, g)
    BY <1>5, <1>6 DEF Steady
  <1>8. \A a, k : DueFor(g, a, k) = DueFor(h, a, k)
    BY <1>4, DueWithStill
  <1>9. \A a \in 1..Len(h.alls) : AllAsWas(h, g, a)
    BY <1>1, <1>3, <1>5, <1>8, AllResults DEF AllAsWas
  <1>10. AllsTracked(g)
    BY <1>1, <1>3, <1>7, <1>9, AllsStill
  <1> QED
    BY <1>2, <1>10

LEMMA AllsNew ==
  ASSUME NEW h, Orderly(h), AllsTracked(h), NEW v
  PROVE  AllsTracked(NewPromise(h, v)) /\ \A p \in 1..Len(h.promises) : Alike(h, NewPromise(h, v), p)
  <1>1. HeapTypeOK(h)
    BY DEF Orderly, HeapOK
  <1>2. PICK g : g = NewPromise(h, v)
    OBVIOUS
  <1>3. Due(g) = Due(h)
    BY <1>2, NewOrderly
  <1>4. g.alls = h.alls /\ \A p \in 1..Len(h.promises) : g.promises[p] = h.promises[p]
    BY <1>1, <1>2, NewMakes DEF NewEffect
  <1>5. \A p \in 1..Len(h.promises) : Alike(h, g, p)
    BY <1>4 DEF Alike
  <1>6. Steady(h, g)
    BY <1>5 DEF Steady
  <1>7. \A a, k : DueFor(g, a, k) = DueFor(h, a, k)
    BY <1>3, DueWithStill
  <1>8. \A a \in 1..Len(h.alls) : AllAsWas(h, g, a)
    BY <1>1, <1>4, <1>5, <1>7, AllResults DEF AllAsWas
  <1>9. AllsTracked(g)
    BY <1>1, <1>4, <1>6, <1>8, AllsStill
  <1> QED
    BY <1>2, <1>5, <1>9

LEMMA SameAlike ==
  ASSUME NEW h, NEW g, SamePromises(h, g)
  PROVE  Steady(h, g) /\ \A p \in 1..Len(h.promises) : Alike(h, g, p)
  BY DEF SamePromises, Steady, Alike

LEMMA AllsThen ==
  ASSUME NEW h, Orderly(h), AllsTracked(h), NEW p \in 1..Len(h.promises), NEW cb, \A a, k : cb # Store(a, k)
  PROVE  AllsTracked(Then(h, p, cb))
  <1>1. HeapTypeOK(h) /\ HeapOK(h)
    BY DEF Orderly, HeapOK
  <1>2. PICK g : g = Then(h, p, cb)
    OBVIOUS
  <1>3. PICK u : u = Task(cb, p, h.clock)
    OBVIOUS
  <1>4. Due(g) = Due(h) \cup {u}
    BY <1>1, <1>2, <1>3, ThenDue
  <1>5. u.callback = cb
    BY <1>3, TaskParts
  <1>6. ASSUME NEW a, NEW k
        PROVE  DueFor(g, a, k) = DueFor(h, a, k)
    <2>1. PICK c : c = Store(a, k)
      OBVIOUS
    <2>2. DueWith(g, c) = DueWith(h, c)
      BY <1>4, <1>5, <2>1, DueWithMore
    <2> QED
      BY <2>1, <2>2 DEF DueFor
  <1>7. SamePromises(h, g) /\ g.alls = h.alls
    BY <1>1, <1>2, ThenSame
  <1>8. Steady(h, g) /\ \A k \in 1..Len(h.promises) : Alike(h, g, k)
    BY <1>7, SameAlike
  <1>9. \A a \in 1..Len(h.alls) : AllAsWas(h, g, a)
    BY <1>1, <1>6, <1>7, <1>8, AllResults DEF AllAsWas
  <1>10. AllsTracked(g)
    BY <1>1, <1>7, <1>8, <1>9, AllsStill
  <1> QED
    BY <1>2, <1>10

LEMMA AllsTaken ==
  ASSUME NEW h, Orderly(h), AllsTracked(h), h.microtasks # <<>>, \A a, k : NextTask(h).callback # Store(a, k)
  PROVE  AllsTracked(Taken(h))
  <1>1. HeapTypeOK(h)
    BY DEF Orderly, HeapOK
  <1>2. PICK g : g = Taken(h)
    OBVIOUS
  <1>3. PICK u : u = NextTask(h)
    OBVIOUS
  <1>4. Due(g) = Due(h) \ {u}
    BY <1>2, <1>3, TakenOrderly
  <1>5. g.promises = h.promises /\ g.alls = h.alls
    BY <1>1, <1>2, TakenSame
  <1>6. ASSUME NEW a, NEW k
        PROVE  DueFor(g, a, k) = DueFor(h, a, k)
    <2>1. PICK c : c = Store(a, k)
      OBVIOUS
    <2>2. u.callback # c
      BY <1>3, <2>1
    <2>3. DueWith(g, c) = DueWith(h, c)
      BY <1>4, <2>2, DueWithLess
    <2> QED
      BY <2>1, <2>3 DEF DueFor
  <1>7. SamePromises(h, g)
    BY <1>5 DEF SamePromises
  <1>8. Steady(h, g) /\ \A k \in 1..Len(h.promises) : Alike(h, g, k)
    BY <1>7, SameAlike
  <1>9. \A a \in 1..Len(h.alls) : AllAsWas(h, g, a)
    BY <1>1, <1>5, <1>6, <1>8, AllResults DEF AllAsWas
  <1>10. AllsTracked(g)
    BY <1>1, <1>5, <1>8, <1>9, AllsStill
  <1> QED
    BY <1>2, <1>10

LEMMA SomeDueFor ==
  ASSUME NEW h, NEW t \in Due(h), NEW c, t.callback = c
  PROVE  t \in DueWith(h, c)
  BY DEF DueWith

LEMMA AllsMore ==
  ASSUME NEW h, Orderly(h), AllsTracked(h), NEW b, CallbacksOK(h, b), NEW ps \in Seq(1..Len(h.promises))
  PROVE  /\ AllsTracked(All(h, ps)) /\ \A p \in 1..Len(h.promises) : Alike(h, All(h, ps), p)
         /\ \A i : DueTo(All(h, ps), i) = DueTo(h, i)
  <1>1. HeapTypeOK(h)
    BY DEF Orderly, HeapOK
  <1>2. PICK g : g = All(h, ps)
    OBVIOUS
  <1>3. AllEffect(h, g, ps)
    BY <1>2, AllMakes
  <1>4. PICK n \in Nat, m \in Nat, l \in Nat : n = Len(h.promises) /\ m = Len(h.alls) /\ l = Len(ps)
    BY <1>1, HeapLengths
  <1>5. /\ Len(g.promises) = n + 1
        /\ \A p \in 1..n : g.promises[p].settled = h.promises[p].settled /\ g.promises[p].value = h.promises[p].value
        /\ g.promises[n + 1].settled <=> ps = <<>>
        /\ ps = <<>> => g.promises[n + 1].value = <<"list", <<>>>>
    BY <1>3, <1>4 DEF AllEffect
  <1>6. /\ Len(g.alls) = m + 1 /\ \A a \in 1..m : g.alls[a] = h.alls[a]
        /\ g.alls[m + 1] = NewAll(h, ps)
    BY <1>3, <1>4 DEF AllEffect
  <1>7. Due(g) = Due(h) \cup {AllTask(h, ps, k) : k \in 1..l}
    BY <1>3, <1>4 DEF AllEffect
  <1>8. \A k : AllTask(h, ps, k).callback = Store(m + 1, k)
    BY <1>4, TaskParts DEF AllTask
  <1>9. \A p \in 1..n : Alike(h, g, p)
    BY <1>5 DEF Alike
  <1>10. Steady(h, g)
    BY <1>4, <1>9 DEF Steady
  <1>11. \A a \in 1..m : a # m + 1
    BY <1>4
  <1>12. ASSUME NEW a \in 1..m, NEW k
         PROVE  DueFor(g, a, k) = DueFor(h, a, k)
    <2>1. PICK c : c = Store(a, k)
      OBVIOUS
    <2>2. \A x \in 1..l : AllTask(h, ps, x).callback # c
      BY <1>8, <1>11, <2>1, Callback
    <2>3. DueWith(g, c) = DueWith(h, c)
      BY <1>7, <2>2 DEF DueWith
    <2> QED
      BY <2>1, <2>3 DEF DueFor
  <1>13. ASSUME NEW i
         PROVE  DueTo(g, i) = DueTo(h, i)
    <2>1. PICK c : c = Resume(i)
      OBVIOUS
    <2>2. \A x \in 1..l : AllTask(h, ps, x).callback # c
      BY <1>8, <2>1, Callback
    <2>3. DueWith(g, c) = DueWith(h, c)
      BY <1>7, <2>2 DEF DueWith
    <2> QED
      BY <2>1, <2>3 DEF DueTo
  <1>14. ASSUME NEW a \in 1..m
         PROVE  AllTracked(g, a)
    <2>1. AllAsWas(h, g, a)
      BY <1>1, <1>4, <1>6, <1>9, <1>12, AllResults DEF AllAsWas
    <2>2. AllTracked(h, a)
      BY <1>4 DEF AllsTracked
    <2> QED
      BY <1>1, <1>4, <1>10, <2>1, <2>2, AllStill
  <1>15. ASSUME NEW k \in 1..l
         PROVE  DueFor(g, m + 1, k) = {AllTask(h, ps, k)}
    <2>1. PICK c : c = Store(m + 1, k)
      OBVIOUS
    <2>2. \A t \in Due(h) : t.callback # c
      <3> SUFFICES ASSUME NEW t \in Due(h), t.callback = c
                   PROVE  FALSE
        OBVIOUS
      <3>1. CallbackOK(h, b, t)
        BY DEF CallbacksOK
      <3>2. /\ \A i : c # Resume(i)
            /\ c # Note
            /\ \A a \in 1..m : \A x : c # Store(a, x)
        BY <1>11, <2>1, Callback
      <3> QED
        BY <1>4, <3>1, <3>2, KindsOf
    <2>3. \A x \in 1..l : AllTask(h, ps, x).callback = c => x = k
      BY <1>8, <2>1, Callback
    <2>4. AllTask(h, ps, k).callback = c
      BY <1>8, <2>1
    <2>5. DueWith(g, c) = {AllTask(h, ps, k)}
      BY <1>7, <2>2, <2>3, <2>4 DEF DueWith
    <2> QED
      BY <2>1, <2>5 DEF DueFor
  <1>16. AllTracked(g, m + 1)
    <2>1. PICK all : all = g.alls[m + 1]
      OBVIOUS
    <2>2. all.of = ps /\ all.values = [i \in 1..l |-> Unset] /\ all.remaining = l /\ all.result = n + 1
      BY <1>4, <1>6, <2>1 DEF NewAll
    <2>3. Missing(g, m + 1) = 1..l
      <3>1. \A k \in 1..l : DueFor(g, m + 1, k) # {}
        BY <1>15
      <3> QED
        BY <1>4, <2>1, <2>2, <3>1 DEF Missing
    <2>4. all.remaining = Cardinality(Missing(g, m + 1))
      <3>1. 1 \in Int /\ l \in Int /\ (1 > l => l = 0) /\ l - 1 + 1 = l
        BY <1>4
      <3>2. Cardinality(1..l) = IF 1 > l THEN 0 ELSE l - 1 + 1
        BY <3>1, FS_Interval
      <3>3. Cardinality(1..l) = l
        BY <3>1, <3>2
      <3> QED
        BY <2>2, <2>3, <3>3
    <2>5. ASSUME NEW k \in Missing(g, m + 1)
          PROVE  \E t \in DueFor(g, m + 1, k) : DueFor(g, m + 1, k) = {t}
      BY <1>15, <2>3
    <2>6. \A k \in 1..Len(all.of) : k \notin Missing(g, m + 1) => Gathered(g, all, k)
      BY <1>4, <2>2, <2>3
    <2>7. ps = <<>> <=> l = 0
      BY <1>4
    <2>8. 1..l = {} <=> l = 0
      <3>1. l # 0 => 1 \in 1..l
        BY <1>4
      <3>2. l = 0 => \A x \in Int : ~(1 <= x /\ x <= l)
        BY <1>4
      <3> QED
        BY <1>4, <3>1, <3>2
    <2>9. Open(g, all.result) <=> Missing(g, m + 1) # {}
      BY <1>5, <2>2, <2>3, <2>7, <2>8 DEF Open
    <2>10. ~Open(g, all.result) => g.promises[all.result].value = <<"list", all.values>>
      <3> SUFFICES ASSUME ~Open(g, all.result)
                   PROVE  g.promises[all.result].value = <<"list", all.values>>
        OBVIOUS
      <3>1. l = 0 /\ ps = <<>>
        BY <2>3, <2>7, <2>8, <2>9
      <3>2. all.values = <<>>
        BY <2>2, <3>1
      <3> QED
        BY <1>5, <2>2, <3>1, <3>2
    <2> QED
      BY <2>1, <2>4, <2>5, <2>6, <2>9, <2>10 DEF AllTracked
  <1>17. 1..(m + 1) = 1..m \cup {m + 1}
    BY <1>4
  <1>18. AllsTracked(g)
    BY <1>6, <1>14, <1>16, <1>17 DEF AllsTracked
  <1> QED
    BY <1>2, <1>4, <1>9, <1>13, <1>18

StoredPromises(h, g, r, left, values) ==
  /\ r \in 1..Len(h.promises)
  /\ \A p \in 1..Len(h.promises) : p # r => g.promises[p] = h.promises[p]
  /\ h.promises[r].settled => g.promises[r] = h.promises[r]
  /\ left # 0 => g.promises[r] = h.promises[r]
  /\ left = 0 /\ ~h.promises[r].settled => g.promises[r].settled /\ g.promises[r].value = <<"list", values>>
LEMMA StorePromises ==
  ASSUME NEW h, Orderly(h), NEW c, c.all \in 1..Len(h.alls), c.index \in 1..Len(h.alls[c.all].of), NEW v
  PROVE  StoredPromises(h, RunStore(h, c, v), h.alls[c.all].result, h.alls[c.all].remaining - 1,
                        RunStore(h, c, v).alls[c.all].values)
  <1>9. PICK r : r = h.alls[c.all].result
    OBVIOUS
  <1>10. PICK g : g = RunStore(h, c, v)
    OBVIOUS
  <1>11. PICK left : left = h.alls[c.all].remaining - 1
    OBVIOUS
  <1>1. HeapTypeOK(h)
    BY DEF Orderly, HeapOK
  <1>2. r \in 1..Len(h.promises)
    BY <1>1, <1>9, AllResults
  <1>3. PICK s : s = Stored(h, c, v)
    OBVIOUS
  <1>4. Orderly(s) /\ Due(s) = Due(h) /\ StoredEffect(h, s, c, v) /\ s.promises = h.promises
    BY <1>3, StoredMakes
  <1>5. g = ResolveAt(s, c.all, 0)
    BY <1>3, <1>10, RunStoreOrderly
  <1>6. HeapTypeOK(s) /\ s.alls[c.all].result = r /\ s.alls[c.all].remaining = left
    BY <1>4, <1>9, <1>11 DEF Orderly, HeapOK, StoredEffect
  <1>7. ASSUME left # 0
        PROVE  StoredPromises(h, g, r, left, g.alls[c.all].values)
    <2>1. g = s
      BY <1>5, <1>6, <1>7 DEF ResolveAt
    <2> QED
      BY <1>2, <1>4, <1>7, <2>1 DEF StoredPromises
  <1>8. ASSUME left = 0
        PROVE  StoredPromises(h, g, r, left, g.alls[c.all].values)
    <2>1. PICK w : w = <<"list", s.alls[c.all].values>>
      OBVIOUS
    <2>2. g = Resolve(s, r, w)
      BY <1>5, <1>6, <1>8, <2>1 DEF ResolveAt
    <2>3. r \in 1..Len(s.promises) /\ Len(s.promises) = Len(h.promises)
      BY <1>2, <1>4
    <2>4. PICK q : q = Resolve(s, r, w)
      OBVIOUS
    <2>6. /\ q.alls = s.alls /\ q.promises[r].settled
          /\ q.promises[r].value = (IF s.promises[r].settled THEN s.promises[r].value ELSE w)
          /\ \A k \in 1..Len(s.promises) : k # r => q.promises[k] = s.promises[k]
      BY <1>6, <2>3, <2>4, ResolveSame
    <2>7. g = q
      BY <2>2, <2>4
    <2>5. h.promises[r].settled => g = s
      BY <1>4, <2>2 DEF Resolve
    <2> QED
      BY <1>2, <1>4, <1>8, <2>1, <2>3, <2>5, <2>6, <2>7 DEF StoredPromises
  <1> QED
    BY <1>7, <1>8, <1>9, <1>10, <1>11

(* The value is kept, and the last one settles. *)
StoringIn(h, a, k, t, v, r) ==
  /\ h.microtasks # <<>> /\ t = NextTask(h) /\ t.callback = Store(a, k) /\ t.promise = h.alls[a].of[k]
  /\ v = ValueOf(h, t) /\ r = h.alls[a].result
  /\ \A b \in 1..Len(h.alls) : h.alls[b].result = r => b = a
StoredIn(h, g, r) ==
  /\ AllsTracked(g) /\ (\A p \in 1..Len(h.promises) : p # r => Alike(h, g, p))
  /\ \A i : DueTo(g, i) = DueTo(h, i)
  /\ Len(g.alls) = Len(h.alls) /\ \A b \in 1..Len(h.alls) : g.alls[b].result = h.alls[b].result
LEMMA AllsStore ==
  ASSUME NEW h, Orderly(h), AllsTracked(h), NEW a \in 1..Len(h.alls), NEW k \in 1..Len(h.alls[a].of),
         NEW t, NEW v, NEW r, StoringIn(h, a, k, t, v, r), NEW g, g = RunStore(Taken(h), Store(a, k), v)
  PROVE  StoredIn(h, g, r)
  <1> /\ h.microtasks # <<>> /\ t = NextTask(h) /\ t.callback = Store(a, k) /\ t.promise = h.alls[a].of[k]
      /\ v = ValueOf(h, t) /\ r = h.alls[a].result
      /\ \A b \in 1..Len(h.alls) : h.alls[b].result = r => b = a
    BY DEF StoringIn
  <1>1. HeapTypeOK(h)
    BY DEF Orderly, HeapOK
  <1>2. PICK e : e = Taken(h)
    OBVIOUS
  <1>3. PICK c : c = Store(a, k)
    OBVIOUS
  <1>4. c.all = a /\ c.index = k
    BY <1>3 DEF Store
  <1>5. Orderly(e) /\ Due(e) = Due(h) \ {t} /\ t \in Due(h) /\ h.promises[t.promise].settled
    BY <1>2, TakenOrderly
  <1>6. e.promises = h.promises /\ e.alls = h.alls
    BY <1>1, <1>2, TakenSame
  <1>7. g = RunStore(e, c, v) /\ c.all \in 1..Len(e.alls) /\ c.index \in 1..Len(e.alls[c.all].of)
    BY <1>2, <1>3, <1>4, <1>6
  <1>8. Due(g) = Due(e) /\ StoredEffect(e, g, c, v) /\ Len(g.promises) = Len(e.promises)
    BY <1>5, <1>7, RunStoreOrderly
  <1>9. PICK all : all = h.alls[a]
    OBVIOUS
  <1>10. PICK now : now = g.alls[a]
    OBVIOUS
  <1>11. PICK left : left = all.remaining - 1
    OBVIOUS
  <1>12. /\ Len(g.alls) = Len(h.alls) /\ \A b \in 1..Len(h.alls) : b # a => g.alls[b] = h.alls[b]
         /\ now.of = all.of /\ now.result = r /\ now.remaining = left /\ now.values = [all.values EXCEPT ![k] = v]
    BY <1>4, <1>6, <1>8, <1>9, <1>10, <1>11 DEF StoredEffect
  <1>13. /\ r \in 1..Len(h.promises)
         /\ \A p \in 1..Len(h.promises) : p # r => g.promises[p] = h.promises[p]
         /\ h.promises[r].settled => g.promises[r] = h.promises[r]
         /\ left # 0 => g.promises[r] = h.promises[r]
         /\ left = 0 /\ ~h.promises[r].settled =>
              g.promises[r].settled /\ g.promises[r].value = <<"list", now.values>>
    <2>1. r = e.alls[c.all].result /\ left = e.alls[c.all].remaining - 1 /\ now = g.alls[c.all]
      BY <1>4, <1>6, <1>9, <1>10, <1>11
    <2>2. StoredPromises(e, g, r, left, now.values)
      BY <1>5, <1>7, <2>1, StorePromises
    <2> QED
      BY <1>6, <2>2 DEF StoredPromises
  <1>14. \A p \in 1..Len(h.promises) : p # r => Alike(h, g, p)
    BY <1>13 DEF Alike
  <1>15. Steady(h, g)
    BY <1>13 DEF Steady, Alike, Open
  <1>16. \A i : DueTo(g, i) = DueTo(h, i)
    <2> SUFFICES ASSUME NEW i
                 PROVE  DueTo(g, i) = DueTo(h, i)
      OBVIOUS
    <2>1. PICK d : d = Resume(i)
      OBVIOUS
    <2>2. t.callback # d
      BY <2>1, Callback
    <2>3. DueWith(g, d) = DueWith(h, d)
      BY <1>5, <1>8, <2>2, DueWithLess
    <2> QED
      BY <2>1, <2>3 DEF DueTo
  <1>17. \A b, l : ~(b = a /\ l = k) => DueFor(g, b, l) = DueFor(h, b, l)
    <2> SUFFICES ASSUME NEW b, NEW l, ~(b = a /\ l = k)
                 PROVE  DueFor(g, b, l) = DueFor(h, b, l)
      OBVIOUS
    <2>1. PICK d : d = Store(b, l)
      OBVIOUS
    <2>2. t.callback # d
      BY <2>1, Callback
    <2>3. DueWith(g, d) = DueWith(h, d)
      BY <1>5, <1>8, <2>2, DueWithLess
    <2> QED
      BY <2>1, <2>3 DEF DueFor
  <1>18. AllTracked(h, a)
    BY DEF AllsTracked
  <1>19. k \in Missing(h, a) /\ DueFor(g, a, k) = {}
    <2>1. t \in DueWith(h, c)
      BY <1>3, <1>5, SomeDueFor
    <2>2. t \in DueFor(h, a, k)
      BY <1>3, <2>1 DEF DueFor
    <2>3. k \in Missing(h, a)
      BY <2>2 DEF Missing
    <2>4. DueFor(h, a, k) = {t}
      BY <1>18, <2>2, <2>3 DEF AllTracked
    <2>5. DueWith(g, c) = DueWith(h, c) \ {t}
      BY <1>3, <1>5, <1>8, DueWithLess
    <2>6. DueFor(g, a, k) = DueFor(h, a, k) \ {t}
      BY <1>3, <2>5 DEF DueFor
    <2> QED
      BY <2>3, <2>4, <2>6
  <1>20. PICK m : m = Missing(h, a)
    OBVIOUS
  <1>21. PICK l \in Nat : l = Len(all.of)
    BY <1>1, <1>9, AllResults
  <1>22. m \subseteq 1..l /\ k \in m
    BY <1>9, <1>19, <1>20, <1>21 DEF Missing
  <1>23. Missing(g, a) = m \ {k}
    BY <1>9, <1>10, <1>12, <1>17, <1>19, <1>20, <1>21 DEF Missing
  <1>24. left = Cardinality(m \ {k}) /\ IsFiniteSet(m \ {k})
    <2>1. IsFiniteSet(1..l)
      BY FS_Interval
    <2>2. IsFiniteSet(m)
      BY <1>22, <2>1, FS_Subset
    <2>3. Cardinality(m \ {k}) = Cardinality(m) - 1 /\ IsFiniteSet(m \ {k})
      BY <1>22, <2>2, FS_RemoveElement
    <2>4. all.remaining = Cardinality(m)
      BY <1>9, <1>18, <1>20 DEF AllTracked
    <2> QED
      BY <1>11, <2>3, <2>4
  <1>25. left = 0 <=> m \ {k} = {}
    BY <1>24, FS_EmptySet
  <1>26. Open(h, r)
    BY <1>18, <1>19 DEF AllTracked
  <1>27. \A x \in m \ {k} : \E u \in DueFor(g, a, x) : DueFor(g, a, x) = {u}
    <2> SUFFICES ASSUME NEW x \in m \ {k}
                 PROVE  \E u \in DueFor(g, a, x) : DueFor(g, a, x) = {u}
      OBVIOUS
    <2>1. DueFor(g, a, x) = DueFor(h, a, x)
      BY <1>17
    <2>2. \E u \in DueFor(h, a, x) : DueFor(h, a, x) = {u}
      BY <1>18, <1>20 DEF AllTracked
    <2> QED
      BY <2>1, <2>2
  <1>28. ASSUME NEW x \in 1..l, x \notin m \ {k}
         PROVE  Gathered(g, now, x)
    <2>1. all.values = [y \in 1..l |-> all.values[y]] /\ all.of \in Seq(1..Len(h.promises))
      BY <1>1, <1>9, <1>21 DEF HeapTypeOK, AllOK
    <2>2. PICK p \in 1..Len(h.promises) : p = all.of[x]
      BY <1>21, <2>1
    <2>3. ASSUME x = k
          PROVE  ~Open(h, p) /\ now.values[x] = h.promises[p].value
      <3>1. p = t.promise
        BY <1>9, <2>2, <2>3
      <3>2. now.values[x] = v
        BY <1>12, <2>1, <2>3
      <3> QED
        BY <1>5, <3>1, <3>2 DEF Open, ValueOf
    <2>4. ASSUME x # k
          PROVE  ~Open(h, p) /\ now.values[x] = h.promises[p].value
      <3>1. x \notin m
        BY <1>28, <2>4
      <3>2. Gathered(h, all, x)
        BY <1>9, <1>18, <1>20, <1>21, <3>1 DEF AllTracked
      <3>3. now.values[x] = all.values[x]
        BY <1>12, <2>1, <2>4
      <3> QED
        BY <2>2, <3>2, <3>3 DEF Gathered
    <2>5. Alike(h, g, p)
      BY <1>15, <2>3, <2>4 DEF Steady
    <2> QED
      BY <1>12, <2>2, <2>3, <2>4, <2>5 DEF Gathered, Open, Alike
  <1>29. /\ Open(g, r) <=> m \ {k} # {}
         /\ ~Open(g, r) => g.promises[r].value = <<"list", now.values>>
    BY <1>13, <1>25, <1>26 DEF Open
  <1>30. AllTracked(g, a)
    BY <1>10, <1>12, <1>21, <1>23, <1>24, <1>27, <1>28, <1>29 DEF AllTracked
  <1>31. ASSUME NEW b \in 1..Len(h.alls), b # a
         PROVE  AllTracked(g, b)
    <2>1. h.alls[b].result # r /\ h.alls[b].result \in 1..Len(h.promises)
      BY <1>1, <1>31, AllResults
    <2>2. Alike(h, g, h.alls[b].result)
      BY <1>14, <2>1
    <2>3. AllAsWas(h, g, b)
      BY <1>12, <1>17, <1>31, <2>2 DEF AllAsWas
    <2>4. AllTracked(h, b)
      BY DEF AllsTracked
    <2> QED
      BY <1>1, <1>15, <2>3, <2>4, AllStill
  <1>32. AllsTracked(g)
    BY <1>12, <1>30, <1>31 DEF AllsTracked
  <1>33. \A b \in 1..Len(h.alls) : g.alls[b].result = h.alls[b].result
    BY <1>10, <1>12
  <1> QED
    BY <1>6, <1>8, <1>12, <1>14, <1>16, <1>32, <1>33 DEF StoredIn
-----------------------------------------------------------------------------
(* Whose promise is whose. *)
SameFrames(fs, gs) == \A i \in 1..Len(fs) : gs[i].fn = fs[i].fn /\ gs[i].result = fs[i].result
SameResults(h, g) == \A a \in 1..Len(h.alls) : g.alls[a].result = h.alls[a].result
LEMMA OwnStill ==
  ASSUME NEW p, NEW fs, NEW gs, NEW h, NEW g, OwnPromises(p, fs, h), SameFrames(fs, gs), SameResults(h, g),
         Len(gs) = Len(fs), Len(g.alls) = Len(h.alls)
  PROVE  OwnPromises(p, gs, g)
  <1>1. \A i \in 1..Len(fs) : AsyncFrame(p, gs[i]) <=> AsyncFrame(p, fs[i])
    BY DEF SameFrames, AsyncFrame
  <1>2. ASSUME NEW i \in 1..Len(gs)
        PROVE  FrameOwn(p, gs, g, i)
    <2>1. FrameOwn(p, fs, h, i)
      BY DEF OwnPromises
    <2> QED
      BY <1>1, <2>1 DEF FrameOwn, SameFrames, SameResults
  <1>3. ASSUME NEW a \in 1..Len(g.alls)
        PROVE  AllOwn(g, a)
    <2>1. AllOwn(h, a)
      BY DEF OwnPromises
    <2> QED
      BY <2>1 DEF AllOwn, SameResults
  <1> QED
    BY <1>2, <1>3 DEF OwnPromises

(* The results there are are among the promises there are. *)
Among(p, fs, h, n) ==
  /\ \A i \in 1..Len(fs) : AsyncFrame(p, fs[i]) => fs[i].result \in (HostPromises + 1)..n
  /\ \A a \in 1..Len(h.alls) : h.alls[a].result \in 1..n
LEMMA ResultsAmong ==
  ASSUME NEW p, NEW h, HeapTypeOK(h), NEW fs, FramesOK(p, Len(h.promises), fs)
  PROVE  Among(p, fs, h, Len(h.promises))
  <1>1. \A a \in 1..Len(h.alls) : h.alls[a].result \in 1..Len(h.promises)
    BY AllResults
  <1>2. ASSUME NEW i \in 1..Len(fs), AsyncFrame(p, fs[i])
        PROVE  fs[i].result \in (HostPromises + 1)..Len(h.promises)
    <2>1. FrameOK(p, Len(h.promises), fs[i])
      BY DEF FramesOK
    <2> QED
      BY <1>2, <2>1 DEF FrameOK, AsyncFrame
  <1> QED
    BY <1>1, <1>2 DEF Among

LEMMA OwnFrame ==
  ASSUME NEW p, NEW fs, NEW gs, NEW h, NEW g, OwnPromises(p, fs, h), SameFrames(fs, gs), SameResults(h, g),
         Len(fs) \in Nat, Len(gs) = Len(fs) + 1, Len(g.alls) = Len(h.alls), NEW n \in Nat, Among(p, fs, h, n),
         AsyncFrame(p, gs[Len(fs) + 1]) => gs[Len(fs) + 1].result = n + 1
  PROVE  OwnPromises(p, gs, g)
  <1>1. PICK b \in Nat : b = Len(fs)
    OBVIOUS
  <1>2. 1..Len(gs) = 1..b \cup {b + 1}
    BY <1>1
  <1>3. \A i \in 1..b : (AsyncFrame(p, gs[i]) <=> AsyncFrame(p, fs[i])) /\ gs[i].result = fs[i].result
    BY <1>1 DEF SameFrames, AsyncFrame
  <1>4. \A i \in 1..b : AsyncFrame(p, gs[i]) => gs[i].result # n + 1
    <2>1. n + 1 \notin (HostPromises + 1)..n
      BY ProgramsAssumption
    <2> QED
      BY <1>1, <1>3, <2>1 DEF Among
  <1>5. n + 1 \notin 1..n
    OBVIOUS
  <1>6. \A a \in 1..Len(h.alls) : g.alls[a].result = h.alls[a].result /\ g.alls[a].result # n + 1
    BY <1>5 DEF SameResults, Among
  <1>7. AsyncFrame(p, gs[b + 1]) => gs[b + 1].result = n + 1
    BY <1>1
  <1>8. ASSUME NEW i \in 1..b
        PROVE  FrameOwn(p, gs, g, i)
    <2>1. FrameOwn(p, fs, h, i)
      BY <1>1 DEF OwnPromises
    <2>2. ASSUME AsyncFrame(p, gs[i])
          PROVE  /\ \A j \in 1..Len(gs) : AsyncFrame(p, gs[j]) /\ gs[j].result = gs[i].result => j = i
                 /\ \A a \in 1..Len(g.alls) : g.alls[a].result # gs[i].result
      <3>1. /\ \A j \in 1..b : AsyncFrame(p, fs[j]) /\ fs[j].result = fs[i].result => j = i
            /\ \A a \in 1..Len(h.alls) : h.alls[a].result # fs[i].result
        BY <1>1, <1>3, <2>1, <2>2 DEF FrameOwn
      <3>2. \A j \in 1..b : AsyncFrame(p, gs[j]) /\ gs[j].result = gs[i].result => j = i
        BY <1>3, <3>1
      <3>3. ~(AsyncFrame(p, gs[b + 1]) /\ gs[b + 1].result = gs[i].result)
        BY <1>4, <1>7, <2>2
      <3> QED
        BY <1>2, <1>3, <1>6, <3>1, <3>2, <3>3
    <2> QED
      BY <2>2 DEF FrameOwn
  <1>9. FrameOwn(p, gs, g, b + 1)
    <2>1. ASSUME AsyncFrame(p, gs[b + 1])
          PROVE  /\ \A j \in 1..Len(gs) : AsyncFrame(p, gs[j]) /\ gs[j].result = gs[b + 1].result => j = b + 1
                 /\ \A a \in 1..Len(g.alls) : g.alls[a].result # gs[b + 1].result
      BY <1>2, <1>4, <1>6, <1>7, <2>1
    <2> QED
      BY <2>1 DEF FrameOwn
  <1>10. ASSUME NEW a \in 1..Len(g.alls)
         PROVE  AllOwn(g, a)
    <2>1. AllOwn(h, a)
      BY DEF OwnPromises
    <2> QED
      BY <2>1 DEF AllOwn, SameResults
  <1> QED
    BY <1>2, <1>8, <1>9, <1>10 DEF OwnPromises

LEMMA OwnAll ==
  ASSUME NEW p, NEW fs, NEW gs, NEW h, NEW g, OwnPromises(p, fs, h), SameFrames(fs, gs), SameResults(h, g),
         Len(gs) = Len(fs), Len(h.alls) \in Nat, Len(g.alls) = Len(h.alls) + 1, NEW n \in Nat, Among(p, fs, h, n),
         HostPromises <= n, g.alls[Len(h.alls) + 1].result = n + 1
  PROVE  OwnPromises(p, gs, g)
  <1>1. PICK m \in Nat : m = Len(h.alls)
    OBVIOUS
  <1>2. 1..Len(g.alls) = 1..m \cup {m + 1}
    BY <1>1
  <1>3. g.alls[m + 1].result = n + 1
    BY <1>1
  <1>4. n + 1 \notin 1..n /\ n + 1 \notin (HostPromises + 1)..n /\ n + 1 > HostPromises
    BY ProgramsAssumption
  <1>5. \A a \in 1..m : g.alls[a].result = h.alls[a].result /\ g.alls[a].result # n + 1
    BY <1>1, <1>4 DEF SameResults, Among
  <1>6. \A i \in 1..Len(fs) : (AsyncFrame(p, gs[i]) <=> AsyncFrame(p, fs[i])) /\ gs[i].result = fs[i].result
    BY DEF SameFrames, AsyncFrame
  <1>7. \A i \in 1..Len(fs) : AsyncFrame(p, fs[i]) => fs[i].result # n + 1
    BY <1>4 DEF Among
  <1>8. ASSUME NEW i \in 1..Len(gs)
        PROVE  FrameOwn(p, gs, g, i)
    <2>1. FrameOwn(p, fs, h, i)
      BY DEF OwnPromises
    <2>2. ASSUME AsyncFrame(p, gs[i])
          PROVE  /\ \A j \in 1..Len(gs) : AsyncFrame(p, gs[j]) /\ gs[j].result = gs[i].result => j = i
                 /\ \A a \in 1..Len(g.alls) : g.alls[a].result # gs[i].result
      <3>1. /\ \A j \in 1..Len(fs) : AsyncFrame(p, fs[j]) /\ fs[j].result = fs[i].result => j = i
            /\ \A a \in 1..m : h.alls[a].result # fs[i].result
        BY <1>1, <1>6, <2>1, <2>2 DEF FrameOwn
      <3>2. \A a \in 1..m : g.alls[a].result # gs[i].result
        BY <1>5, <1>6, <3>1
      <3>3. g.alls[m + 1].result # gs[i].result
        BY <1>3, <1>6, <1>7, <2>2
      <3>4. \A j \in 1..Len(gs) : AsyncFrame(p, gs[j]) /\ gs[j].result = gs[i].result => j = i
        BY <1>6, <3>1
      <3> QED
        BY <1>2, <3>2, <3>3, <3>4
    <2> QED
      BY <2>2 DEF FrameOwn
  <1>9. ASSUME NEW a \in 1..m
        PROVE  AllOwn(g, a)
    <2>1. AllOwn(h, a)
      BY <1>1 DEF OwnPromises
    <2>2. h.alls[a].result > HostPromises /\ \A b \in 1..m : h.alls[b].result = h.alls[a].result => b = a
      BY <1>1, <2>1 DEF AllOwn
    <2>3. \A b \in 1..m : g.alls[b].result = g.alls[a].result => b = a
      BY <1>5, <2>2
    <2>4. g.alls[m + 1].result # g.alls[a].result
      BY <1>3, <1>5
    <2> QED
      BY <1>2, <1>5, <2>2, <2>3, <2>4 DEF AllOwn
  <1>10. AllOwn(g, m + 1)
    <2>1. \A b \in 1..m : g.alls[b].result # g.alls[m + 1].result
      BY <1>3, <1>5
    <2> QED
      BY <1>2, <1>3, <1>4, <2>1 DEF AllOwn
  <1> QED
    BY <1>2, <1>8, <1>9, <1>10 DEF OwnPromises
-----------------------------------------------------------------------------
(* The steps of the bodies. *)
OthersAlike(g, ts, c) ==
  \A i \in 1..Len(frames) : i # c =>
    /\ DueTo(g, i) = DueTo(heap, i)
    /\ AsyncFrame(program, frames[i]) => Untouched(heap, g, stack, ts, frames[i], i)
LEMMA OneTracked ==
  ASSUME Tracked, NEW c \in 1..Len(frames), NEW f, f.fn = frames[c].fn, f.result = frames[c].result,
         NEW gs, IsExcept(gs, frames, c, f), NEW g, NEW ts, OthersAlike(g, ts, c), BodyTracked(program, g, f, c, ts)
  PROVE  BodiesTracked(program, g, gs, ts) /\ SameFrames(frames, gs) /\ Len(gs) = Len(frames)
  <1>1. Len(gs) = Len(frames) /\ gs[c] = f /\ \A i \in 1..Len(frames) : i # c => gs[i] = frames[i]
    BY DEF IsExcept
  <1>2. OthersAsWere(program, heap, g, stack, ts, frames, gs, c)
    BY <1>1 DEF OthersAlike, OthersAsWere
  <1>3. BodiesTracked(program, heap, frames, stack)
    BY DEF Tracked
  <1>4. \A i \in 1..Len(frames) : i # c => BodyTracked(program, g, gs[i], i, ts)
    BY <1>2, <1>3, OthersTracked
  <1>5. BodiesTracked(program, g, gs, ts)
    BY <1>1, <1>4 DEF BodiesTracked
  <1>6. SameFrames(frames, gs)
    BY <1>1 DEF SameFrames
  <1> QED
    BY <1>1, <1>5, <1>6

LEMMA NoneTracked ==
  ASSUME Tracked, NEW g, NEW ts, OthersAlike(g, ts, 0)
  PROVE  BodiesTracked(program, g, frames, ts)
  <1>1. OthersAsWere(program, heap, g, stack, ts, frames, frames, 0)
    BY DEF OthersAlike, OthersAsWere
  <1>2. BodiesTracked(program, heap, frames, stack)
    BY DEF Tracked
  <1>3. \A i \in 1..Len(frames) : i # 0
    OBVIOUS
  <1>4. \A i \in 1..Len(frames) : BodyTracked(program, g, frames[i], i, ts)
    BY <1>1, <1>2, <1>3, OthersTracked
  <1> QED
    BY <1>4 DEF BodiesTracked

LEMMA HereTracked ==
  ASSUME ResumableOK, Tracked, stack # <<>>
  PROVE  /\ Current \in 1..Len(frames) /\ OnStack(stack, Current) /\ BodyTracked(program, heap, Here, Current, stack)
         /\ AsyncFrame(program, Here) => Runs(heap, Here, Current, stack)
         /\ Async(Current) <=> AsyncFrame(program, Here)
         /\ Current = stack[Len(stack)].frame
  <1>1. BodiesOK /\ HeapTypeOK(heap)
    BY DEF ResumableOK, Orderly, HeapOK
  <1>2. Current \in 1..Len(frames) /\ Len(stack) \in 1..Len(stack)
    BY <1>1, TopOK, FrontFacts DEF BodiesOK, StackOK
  <1>3. Current = stack[Len(stack)].frame
    BY DEF Current, Top
  <1>4. OnStack(stack, Current)
    BY <1>2, <1>3 DEF OnStack
  <1>5. BodyTracked(program, heap, Here, Current, stack)
    BY <1>2 DEF Tracked, BodiesTracked, Here
  <1>6. AsyncFrame(program, Here) => Runs(heap, Here, Current, stack)
    BY <1>4, <1>5 DEF BodyTracked, Waits, Ended
  <1>7. Async(Current) <=> AsyncFrame(program, Here)
    BY DEF Async, Kind, Machine, AsyncFrame, Here
  <1> QED
    BY <1>2, <1>3, <1>4, <1>5, <1>6, <1>7

(* Heaps in which nothing is due to a body that was not. *)
LikeResults(g, p) ==
  \A i \in 1..Len(frames) : AsyncFrame(program, frames[i]) /\ frames[i].result # p => Alike(heap, g, frames[i].result)
Inert(g, p) ==
  /\ AllsTracked(g) /\ (\A i : DueTo(g, i) = DueTo(heap, i)) /\ LikeResults(g, p)
  /\ SameResults(heap, g) /\ Len(g.alls) = Len(heap.alls)

LEMMA InertStays ==
  ASSUME Tracked
  PROVE  Inert(heap, 0)
  BY DEF Tracked, Inert, LikeResults, Alike, SameResults

LEMMA ResultsHere ==
  ASSUME ResumableOK
  PROVE  Among(program, frames, heap, Len(heap.promises)) /\ HostPromises \in Nat /\ Len(heap.promises) \in Nat
         /\ HostPromises <= Len(heap.promises) /\ Len(frames) \in Nat /\ Len(heap.alls) \in Nat
  <1>1. BodiesOK /\ HeapTypeOK(heap)
    BY DEF ResumableOK, Orderly, HeapOK
  <1>2. Among(program, frames, heap, Len(heap.promises))
    BY <1>1, ResultsAmong DEF BodiesOK
  <1> QED
    BY <1>1, <1>2, Lengths, HeapLengths, ProgramsAssumption DEF BodiesOK

LEMMA ResolveInert ==
  ASSUME ResumableOK, Tracked, NEW p \in 1..Len(heap.promises), \A a \in 1..Len(heap.alls) : heap.alls[a].result # p,
         NEW v
  PROVE  Inert(Resolve(heap, p, v), p)
  <1>1. HeapTypeOK(heap) /\ Orderly(heap) /\ AllsTracked(heap)
    BY DEF ResumableOK, Orderly, HeapOK, Tracked
  <1>2. PICK g : g = Resolve(heap, p, v)
    OBVIOUS
  <1>3. AllsTracked(g)
    BY <1>1, <1>2, AllsResolve
  <1>4. \A i : DueTo(g, i) = DueTo(heap, i)
    <2>1. Due(g) = Due(heap)
      BY <1>1, <1>2, ResolveOrderly
    <2> QED
      BY <2>1, DueWithStill
  <1>5. g.alls = heap.alls /\ \A k \in 1..Len(heap.promises) : k # p => g.promises[k] = heap.promises[k]
    BY <1>1, <1>2, ResolveSame
  <1>6. LikeResults(g, p)
    <2> SUFFICES ASSUME NEW i \in 1..Len(frames), AsyncFrame(program, frames[i]), frames[i].result # p
                 PROVE  Alike(heap, g, frames[i].result)
      BY DEF LikeResults
    <2>1. frames[i].result \in (HostPromises + 1)..Len(heap.promises)
      BY ResultsHere DEF Among
    <2>2. frames[i].result \in 1..Len(heap.promises)
      BY <2>1, ResultsHere
    <2> QED
      BY <1>5, <2>2 DEF Alike
  <1> QED
    BY <1>2, <1>3, <1>4, <1>5, <1>6 DEF Inert, SameResults

LEMMA InertResolve ==
  ASSUME ResumableOK, Tracked, NEW p \in 1..HostPromises, NEW v
  PROVE  Inert(Resolve(heap, p, v), 0)
  <1>1. p \in 1..Len(heap.promises)
    BY ResultsHere
  <1>2. \A a \in 1..Len(heap.alls) : heap.alls[a].result # p
    <2>1. \A a \in 1..Len(heap.alls) : heap.alls[a].result > HostPromises /\ heap.alls[a].result \in 1..Len(heap.promises)
      BY ResultsHere DEF Tracked, OwnPromises, AllOwn, Among
    <2> QED
      BY <2>1, ResultsHere
  <1>3. Inert(Resolve(heap, p, v), p)
    BY <1>1, <1>2, ResolveInert
  <1>4. p \notin (HostPromises + 1)..Len(heap.promises) /\ 0 \notin (HostPromises + 1)..Len(heap.promises)
    BY ResultsHere
  <1>5. \A i \in 1..Len(frames) : AsyncFrame(program, frames[i]) => frames[i].result # p
    BY <1>4, ResultsHere DEF Among
  <1> QED
    BY <1>3, <1>5 DEF Inert, LikeResults

LEMMA InertNote ==
  ASSUME ResumableOK, Tracked, NEW p \in 1..Len(heap.promises)
  PROVE  Inert(Then(heap, p, Note), 0)
  <1>1. HeapTypeOK(heap) /\ HeapOK(heap) /\ Orderly(heap) /\ AllsTracked(heap)
    BY DEF ResumableOK, Orderly, HeapOK, Tracked
  <1>2. PICK g : g = Then(heap, p, Note)
    OBVIOUS
  <1>3. AllsTracked(g)
    BY <1>1, <1>2, AllsThen, Callback
  <1>4. \A i : DueTo(g, i) = DueTo(heap, i)
    <2>1. PICK u : u = Task(Note, p, heap.clock)
      OBVIOUS
    <2>2. Due(g) = Due(heap) \cup {u} /\ u.callback = Note
      BY <1>1, <1>2, <2>1, ThenDue, TaskParts
    <2> SUFFICES ASSUME NEW i
                 PROVE  DueTo(g, i) = DueTo(heap, i)
      OBVIOUS
    <2>3. PICK c : c = Resume(i)
      OBVIOUS
    <2>4. u.callback # c
      BY <2>2, <2>3, Callback
    <2>5. DueWith(g, c) = DueWith(heap, c)
      BY <2>2, <2>4, DueWithMore
    <2> QED
      BY <2>3, <2>5 DEF DueTo
  <1>5. g.alls = heap.alls /\ SamePromises(heap, g)
    BY <1>1, <1>2, ThenSame
  <1>6. \A k \in 1..Len(heap.promises) : Alike(heap, g, k)
    BY <1>5, SameAlike
  <1>7. \A i \in 1..Len(frames) : AsyncFrame(program, frames[i]) => frames[i].result \in 1..Len(heap.promises)
    BY ResultsHere DEF Among
  <1>8. LikeResults(g, 0)
    BY <1>6, <1>7 DEF LikeResults
  <1> QED
    BY <1>2, <1>3, <1>4, <1>5, <1>8 DEF Inert, SameResults

LEMMA OthersInert ==
  ASSUME NEW g, Inert(g, 0), NEW ts, NEW c, \A i : i # c => (OnStack(ts, i) <=> OnStack(stack, i)),
         \A i \in 1..Len(frames) : AsyncFrame(program, frames[i]) => frames[i].result # 0
  PROVE  OthersAlike(g, ts, c)
  BY DEF Inert, LikeResults, OthersAlike, Untouched

LEMMA NoResultZero ==
  ASSUME ResumableOK
  PROVE  \A i \in 1..Len(frames) : AsyncFrame(program, frames[i]) => frames[i].result # 0
  <1>1. 0 \notin (HostPromises + 1)..Len(heap.promises)
    BY ResultsHere
  <1> QED
    BY <1>1, ResultsHere DEF Among

LEMMA InertTracked ==
  ASSUME Tracked, NEW g, Inert(g, 0), NEW gs, SameFrames(frames, gs), Len(gs) = Len(frames)
  PROVE  AllsTracked(g) /\ OwnPromises(program, gs, g)
  BY OwnStill DEF Tracked, Inert

LEMMA TrackedNext ==
  ASSUME program' = program, BodiesTracked(program, heap', frames', stack'), AllsTracked(heap'),
         OwnPromises(program, frames', heap')
  PROVE  Tracked'
  BY DEF Tracked

LEMMA FrameExceptHere ==
  ASSUME ResumableOK, stack # <<>>, NEW f, frames' = [frames EXCEPT ![Current] = f]
  PROVE  IsExcept(frames', frames, Current, f)
  <1>1. BodiesOK /\ Current \in 1..Len(frames)
    BY TopOK DEF ResumableOK
  <1>2. IsSequence(frames)
    BY <1>1 DEF BodiesOK, FramesOK
  <1>3. PICK fs : fs = [frames EXCEPT ![Current] = f]
    OBVIOUS
  <1>4. PICK c : c = Current
    OBVIOUS
  <1>5. IsExcept(fs, frames, c, f)
    BY <1>1, <1>2, <1>3, <1>4, ExceptElements
  <1> QED
    BY <1>3, <1>4, <1>5

LEMMA GoingTracked ==
  ASSUME ResumableOK, Tracked, Going, NEW h, heap' = h, Inert(h, 0)
  PROVE  Tracked'
  <1>1. PICK f, s : GoesOn(f, s) /\ frames' = [frames EXCEPT ![Current] = f] /\ stack' = [stack EXCEPT ![Len(stack)] = s]
    BY DEF Going
  <1>2. /\ stack # <<>> /\ f.fn = Here.fn /\ f.result = Here.result /\ f.awaits = Here.awaits /\ s.frame = Current
        /\ program' = program
    BY <1>1 DEF GoesOn, FurtherOn, Going
  <1>3. PICK c : c = Current
    OBVIOUS
  <1>4. c \in 1..Len(frames) /\ OnStack(stack, c) /\ BodyTracked(program, heap, Here, c, stack) /\ c = stack[Len(stack)].frame
        /\ (AsyncFrame(program, Here) => Runs(heap, Here, c, stack))
    BY <1>2, <1>3, HereTracked
  <1>5. IsSequence(stack)
    BY DEF ResumableOK, BodiesOK, StackOK
  <1>6. PICK ts : ts = stack'
    OBVIOUS
  <1>7. \A i : OnStack(ts, i) <=> OnStack(stack, i)
    BY <1>1, <1>2, <1>3, <1>4, <1>5, <1>6, UpGoing
  <1>8. OthersAlike(h, ts, c)
    BY <1>7, OthersInert, NoResultZero
  <1>9. DueTo(h, c) = DueTo(heap, c) /\ (AsyncFrame(program, Here) => Alike(heap, h, Here.result))
    BY <1>3, <1>4, NoResultZero DEF Inert, LikeResults, Here
  <1>10. BodyTracked(program, h, f, c, ts)
    <2>1. AwaitsDue(h, f, c)
      BY <1>2, <1>4, <1>9 DEF BodyTracked, AwaitsDue
    <2>2. AsyncFrame(program, f) <=> AsyncFrame(program, Here)
      BY <1>2 DEF AsyncFrame
    <2>3. ASSUME AsyncFrame(program, f)
          PROVE  Runs(h, f, c, ts)
      <3>1. Runs(heap, Here, c, stack) /\ Alike(heap, h, Here.result)
        BY <1>4, <1>9, <2>2, <2>3
      <3> QED
        BY <1>2, <1>7, <1>9, <3>1 DEF Runs, Alike, Open
    <2> QED
      BY <2>1, <2>3 DEF BodyTracked
  <1>11. IsExcept(frames', frames, c, f)
    BY <1>1, <1>2, <1>3, FrameExceptHere
  <1>12. f.fn = frames[c].fn /\ f.result = frames[c].result
    BY <1>2, <1>3 DEF Here
  <1>13. PICK gs : gs = frames'
    OBVIOUS
  <1>14. BodiesTracked(program, h, gs, ts) /\ SameFrames(frames, gs) /\ Len(gs) = Len(frames)
    BY <1>4, <1>8, <1>10, <1>11, <1>12, <1>13, OneTracked
  <1>15. AllsTracked(h) /\ OwnPromises(program, gs, h)
    BY <1>14, InertTracked
  <1> QED
    BY <1>2, <1>6, <1>13, <1>14, <1>15, TrackedNext

(* A body leaves the stack. *)
LEMMA LeavingOthers ==
  ASSUME ResumableOK, stack # <<>>, NEW i
  PROVE  OnStack(Front(stack), i) <=> OnStack(stack, i) /\ i # Current
  <1>1. IsSequence(stack) /\ Apart(stack) /\ Current = stack[Len(stack)].frame
    BY DEF ResumableOK, BodiesOK, StackOK, CallsWait, Current, Top
  <1> QED
    BY <1>1, UpLeaving

LEMMA LeftTracked ==
  ASSUME ResumableOK, Tracked, NEW m, NEW f, LeavesWith(m, f), NEW h, heap' = h, OthersAlike(h, stack', Current),
         BodyTracked(program, h, f, Current, stack'), AllsTracked(h),
         \A gs : SameFrames(frames, gs) /\ Len(gs) = Len(frames) => OwnPromises(program, gs, h)
  PROVE  Tracked'
  <1>1. /\ stack # <<>> /\ f.fn = Here.fn /\ f.result = Here.result /\ program' = program
        /\ frames' = [frames EXCEPT ![Current] = f]
    BY DEF LeavesWith, FurtherOn
  <1>2. PICK c : c = Current
    OBVIOUS
  <1>3. PICK ts : ts = stack'
    OBVIOUS
  <1>4. PICK gs : gs = frames'
    OBVIOUS
  <1>5. c \in 1..Len(frames)
    BY <1>1, <1>2, HereTracked
  <1>6. IsExcept(gs, frames, c, f) /\ f.fn = frames[c].fn /\ f.result = frames[c].result
    BY <1>1, <1>2, <1>4, FrameExceptHere DEF Here
  <1>7. OthersAlike(h, ts, c) /\ BodyTracked(program, h, f, c, ts)
    BY <1>2, <1>3
  <1>8. BodiesTracked(program, h, gs, ts) /\ SameFrames(frames, gs) /\ Len(gs) = Len(frames)
    BY <1>5, <1>6, <1>7, OneTracked
  <1>9. OwnPromises(program, gs, h)
    BY <1>8
  <1> QED
    BY <1>1, <1>3, <1>4, <1>8, <1>9, TrackedNext

LEMMA YieldsTracked ==
  ASSUME ResumableOK, Tracked, Yields
  PROVE  Tracked'
  <1>1. PICK f : LeavesWith(Len(heap.promises), f) /\ f.awaits = Here.awaits
    BY DEF Yields
  <1>2. heap' = heap /\ ~Async(Current) /\ stack # <<>> /\ stack' = Front(stack) /\ f.fn = Here.fn
    BY <1>1 DEF Yields, LeavesWith, FurtherOn
  <1>3. Inert(heap, 0)
    BY InertStays
  <1>4. \A i : i # Current => (OnStack(stack', i) <=> OnStack(stack, i))
    BY <1>2, LeavingOthers
  <1>5. PICK c : c = Current
    OBVIOUS
  <1>6. PICK ts : ts = stack'
    OBVIOUS
  <1>7. OthersAlike(heap, ts, c)
    BY <1>3, <1>4, <1>5, <1>6, OthersInert, NoResultZero
  <1>8. BodyTracked(program, heap, Here, c, stack) /\ ~AsyncFrame(program, Here)
    BY <1>2, <1>5, HereTracked
  <1>9. BodyTracked(program, heap, f, c, ts)
    BY <1>1, <1>2, <1>8 DEF BodyTracked, AwaitsDue, AsyncFrame
  <1>10. \A gs : SameFrames(frames, gs) /\ Len(gs) = Len(frames) => OwnPromises(program, gs, heap)
    BY <1>3, InertTracked
  <1>11. AllsTracked(heap)
    BY DEF Tracked
  <1> QED
    BY <1>1, <1>2, <1>5, <1>6, <1>7, <1>9, <1>10, <1>11, LeftTracked

LEMMA InertOwn ==
  ASSUME Tracked, NEW g, NEW p, Inert(g, p), NEW gs, SameFrames(frames, gs), Len(gs) = Len(frames)
  PROVE  OwnPromises(program, gs, g)
  BY OwnStill DEF Tracked, Inert

(* A body that ends settles its own promise. *)
LEMMA EndsTracked ==
  ASSUME ResumableOK, Tracked, NEW v, FinishesWith(v)
  PROVE  Tracked'
  <1>1. PICK f : /\ LeavesWith(Len(heap.promises), f) /\ f.awaits = Here.awaits
                 /\ f.log # <<>> /\ Last(f.log) = <<"done", v>>
    BY DEF FinishesWith
  <1>2. /\ stack # <<>> /\ stack' = Front(stack) /\ f.fn = Here.fn /\ f.result = Here.result
        /\ heap' = IF Async(Current) THEN Resolve(heap, Here.result, v) ELSE heap
    BY <1>1 DEF FinishesWith, LeavesWith, FurtherOn
  <1>3. PICK c : c = Current
    OBVIOUS
  <1>4. PICK ts : ts = stack'
    OBVIOUS
  <1>5. /\ \A i : i # c => (OnStack(ts, i) <=> OnStack(stack, i))
        /\ ~OnStack(ts, c)
    BY <1>2, <1>3, <1>4, LeavingOthers
  <1>6. /\ c \in 1..Len(frames) /\ BodyTracked(program, heap, Here, c, stack) /\ (Async(c) <=> AsyncFrame(program, Here))
        /\ AsyncFrame(program, Here) => Runs(heap, Here, c, stack)
    BY <1>2, <1>3, HereTracked
  <1>7. AsyncFrame(program, f) <=> AsyncFrame(program, Here)
    BY <1>2 DEF AsyncFrame
  <1>8. CASE ~Async(c)
    <2>1. heap' = heap
      BY <1>2, <1>3, <1>8
    <2>2. Inert(heap, 0)
      BY InertStays
    <2>3. OthersAlike(heap, ts, c)
      BY <1>5, <2>2, OthersInert, NoResultZero
    <2>4. BodyTracked(program, heap, f, c, ts)
      BY <1>1, <1>6, <1>7, <1>8 DEF BodyTracked, AwaitsDue
    <2>5. \A gs : SameFrames(frames, gs) /\ Len(gs) = Len(frames) => OwnPromises(program, gs, heap)
      BY <2>2, InertOwn
    <2>6. AllsTracked(heap)
      BY DEF Tracked
    <2> QED
      BY <1>1, <1>3, <1>4, <2>1, <2>3, <2>4, <2>5, <2>6, LeftTracked
  <1>9. CASE Async(c)
    <2>1. PICK r : r = Here.result
      OBVIOUS
    <2>2. PICK h : h = Resolve(heap, r, v)
      OBVIOUS
    <2>3. heap' = h
      BY <1>2, <1>3, <1>9, <2>1, <2>2
    <2>4. frames[c] = Here /\ AsyncFrame(program, frames[c])
      BY <1>3, <1>6, <1>9 DEF Here
    <2>5. r \in 1..Len(heap.promises)
      <3>1. r \in (HostPromises + 1)..Len(heap.promises)
        BY <1>6, <2>1, <2>4, ResultsHere DEF Among
      <3> QED
        BY <3>1, ResultsHere
    <2>6. FrameOwn(program, frames, heap, c)
      BY <1>6 DEF Tracked, OwnPromises
    <2>7. /\ \A a \in 1..Len(heap.alls) : heap.alls[a].result # r
          /\ \A i \in 1..Len(frames) : i # c /\ AsyncFrame(program, frames[i]) => frames[i].result # r
      BY <2>1, <2>4, <2>6 DEF FrameOwn
    <2>8. Inert(h, r)
      BY <2>2, <2>5, <2>7, ResolveInert
    <2>9. OthersAlike(h, ts, c)
      BY <1>5, <2>7, <2>8 DEF OthersAlike, Inert, LikeResults, Untouched
    <2>10. Runs(heap, Here, c, stack)
      BY <1>6, <1>9
    <2>11. f.awaits = 0 /\ f.result = r /\ Open(heap, r) /\ DueTo(heap, c) = {}
      BY <1>1, <1>2, <2>1, <2>10 DEF Runs
    <2>12. HeapTypeOK(heap)
      BY DEF ResumableOK, Orderly, HeapOK
    <2>13. h.promises[r].settled /\ h.promises[r].value = v
      BY <2>2, <2>5, <2>11, <2>12, ResolveSame DEF Open
    <2>14. DueTo(h, c) = {}
      BY <2>8, <2>11 DEF Inert
    <2>15. Ended(h, f, c, ts)
      BY <1>1, <1>5, <2>11, <2>13, <2>14 DEF Ended, Open
    <2>16. BodyTracked(program, h, f, c, ts)
      BY <2>11, <2>15 DEF BodyTracked, AwaitsDue
    <2>17. \A gs : SameFrames(frames, gs) /\ Len(gs) = Len(frames) => OwnPromises(program, gs, h)
      BY <2>8, InertOwn
    <2>18. AllsTracked(h)
      BY <2>8 DEF Inert
    <2> QED
      BY <1>1, <1>3, <1>4, <2>3, <2>9, <2>16, <2>17, <2>18, LeftTracked
  <1> QED
    BY <1>8, <1>9

(* A body that waits: for a promise of h, which has what the heap has. *)
WaitingIn(h, p) ==
  /\ Orderly(h) /\ AllsTracked(h) /\ (\A i : DueTo(h, i) = DueTo(heap, i)) /\ LikeResults(h, 0)
  /\ p \in 1..Len(h.promises)
  /\ \A i \in 1..Len(frames) : AsyncFrame(program, frames[i]) => frames[i].result \in 1..Len(h.promises)
  /\ \A gs : SameFrames(frames, gs) /\ Len(gs) = Len(frames) => OwnPromises(program, gs, h)
LEMMA SuspendTracked ==
  ASSUME ResumableOK, Tracked, NEW h, NEW p, WaitingIn(h, p), SuspendsOn(h, p)
  PROVE  Tracked'
  <1>1. PICK f : LeavesWith(Len(h.promises), f) /\ f.awaits = p
    BY DEF SuspendsOn
  <1>2. /\ stack # <<>> /\ stack' = Front(stack) /\ f.fn = Here.fn /\ f.result = Here.result
        /\ heap' = Then(h, p, Resume(Current))
    BY <1>1 DEF SuspendsOn, LeavesWith, FurtherOn
  <1>3. PICK c : c = Current
    OBVIOUS
  <1>4. PICK ts : ts = stack'
    OBVIOUS
  <1>5. PICK cb : cb = Resume(c)
    OBVIOUS
  <1>6. PICK g : g = Then(h, p, cb)
    OBVIOUS
  <1>7. heap' = g
    BY <1>2, <1>3, <1>5, <1>6
  <1>8. Orderly(h) /\ AllsTracked(h) /\ HeapTypeOK(h) /\ HeapOK(h) /\ p \in 1..Len(h.promises)
    BY DEF WaitingIn, Orderly, HeapOK
  <1>9. PICK u : u = Task(cb, p, h.clock)
    OBVIOUS
  <1>10. Due(g) = Due(h) \cup {u} /\ u.callback = cb /\ u.promise = p
    BY <1>6, <1>8, <1>9, ThenDue, TaskParts
  <1>11. g.alls = h.alls /\ SamePromises(h, g)
    BY <1>6, <1>8, ThenSame
  <1>12. AllsTracked(g)
    BY <1>5, <1>6, <1>8, AllsThen, Callback
  <1>13. ASSUME NEW i, i # c
         PROVE  DueTo(g, i) = DueTo(heap, i)
    <2>1. PICK d : d = Resume(i)
      OBVIOUS
    <2>2. u.callback # d
      BY <1>5, <1>10, <1>13, <2>1, Callback
    <2>3. DueWith(g, d) = DueWith(h, d)
      BY <1>10, <2>2, DueWithMore
    <2>4. DueTo(g, i) = DueTo(h, i)
      BY <2>1, <2>3 DEF DueTo
    <2> QED
      BY <2>4 DEF WaitingIn
  <1>14. DueTo(g, c) = DueTo(heap, c) \cup {u}
    <2>1. DueWith(g, cb) = DueWith(h, cb) \cup {u}
      BY <1>10, DueWithMore
    <2>2. DueTo(g, c) = DueTo(h, c) \cup {u}
      BY <1>5, <2>1 DEF DueTo
    <2> QED
      BY <2>2 DEF WaitingIn
  <1>15. /\ \A i : i # c => (OnStack(ts, i) <=> OnStack(stack, i))
         /\ ~OnStack(ts, c)
    BY <1>2, <1>3, <1>4, LeavingOthers
  <1>16. ASSUME NEW i \in 1..Len(frames), AsyncFrame(program, frames[i])
         PROVE  Alike(heap, g, frames[i].result)
    <2>1. frames[i].result \in 1..Len(h.promises) /\ Alike(heap, h, frames[i].result)
      BY <1>16, NoResultZero DEF WaitingIn, LikeResults
    <2>2. Alike(h, g, frames[i].result)
      BY <1>11, <2>1, SameAlike
    <2> QED
      BY <2>1, <2>2 DEF Alike
  <1>17. OthersAlike(g, ts, c)
    BY <1>13, <1>15, <1>16 DEF OthersAlike, Untouched
  <1>18. /\ c \in 1..Len(frames)
         /\ AsyncFrame(program, Here) => Runs(heap, Here, c, stack)
    BY <1>2, <1>3, HereTracked
  <1>19. BodyTracked(program, g, f, c, ts)
    <2>1. AwaitsDue(g, f, c)
      BY <1>1, <1>10, <1>14 DEF AwaitsDue
    <2>2. ASSUME AsyncFrame(program, f)
          PROVE  Waits(g, f, c, ts)
      <3>1. AsyncFrame(program, Here) /\ frames[c] = Here
        BY <1>2, <1>3, <2>2 DEF AsyncFrame, Here
      <3>2. DueTo(heap, c) = {} /\ Open(heap, f.result)
        BY <1>2, <1>18, <3>1 DEF Runs
      <3>3. DueTo(g, c) = {u}
        BY <1>14, <3>2
      <3>4. Alike(heap, g, f.result)
        BY <1>2, <1>16, <1>18, <3>1
      <3>5. Open(g, f.result)
        BY <3>2, <3>4 DEF Open, Alike
      <3>6. f.awaits # 0
        <4>1. p # 0
          BY <1>8, HeapLengths
        <4> QED
          BY <1>1, <4>1
      <3> QED
        BY <1>15, <3>3, <3>5, <3>6 DEF Waits
    <2> QED
      BY <2>1, <2>2 DEF BodyTracked
  <1>20. \A gs : SameFrames(frames, gs) /\ Len(gs) = Len(frames) => OwnPromises(program, gs, g)
    BY <1>11 DEF WaitingIn, OwnPromises, FrameOwn, AllOwn
  <1> QED
    BY <1>1, <1>3, <1>4, <1>7, <1>12, <1>17, <1>19, <1>20, LeftTracked

(* Waiting for one promise, or for many. *)
LEMMA WaitsTracked ==
  ASSUME ResumableOK, Tracked, Waits1 \/ WaitsForAll
  PROVE  Tracked'
  <1>1. HeapTypeOK(heap) /\ Orderly(heap) /\ AllsTracked(heap) /\ CallbacksOK(heap, Len(frames))
    BY DEF ResumableOK, Orderly, HeapOK, Tracked
  <1>2. PICK n \in Nat : n = Len(heap.promises)
    BY ResultsHere
  <1>3. \A i \in 1..Len(frames) : AsyncFrame(program, frames[i]) => frames[i].result \in 1..n
    <2>1. (HostPromises + 1)..n \subseteq 1..n
      BY ProgramsAssumption
    <2> QED
      BY <1>2, <2>1, ResultsHere DEF Among
  <1>4. CASE Waits1
    <2>1. PICK p \in 1..n : SuspendsOn(heap, p)
      BY <1>2, <1>4 DEF Waits1
    <2>2. Inert(heap, 0)
      BY InertStays
    <2>3. \A gs : SameFrames(frames, gs) /\ Len(gs) = Len(frames) => OwnPromises(program, gs, heap)
      BY <2>2, InertOwn
    <2>4. WaitingIn(heap, p)
      BY <1>1, <1>2, <1>3, <2>2, <2>3 DEF WaitingIn, Inert
    <2> QED
      BY <2>1, <2>4, SuspendTracked
  <1>5. CASE WaitsForAll
    <2>1. PICK ps \in Seq(1..Len(heap.promises)) : SuspendsOn(All(heap, ps), n + 1)
      BY <1>2, <1>5 DEF WaitsForAll
    <2>2. PICK h : h = All(heap, ps)
      OBVIOUS
    <2>3. /\ AllsTracked(h) /\ \A p \in 1..n : Alike(heap, h, p)
          /\ \A i : DueTo(h, i) = DueTo(heap, i)
      BY <1>1, <1>2, <2>2, AllsMore
    <2>4. AllEffect(heap, h, ps)
      BY <1>1, <2>2, AllMakes
    <2>5. PICK m \in Nat : m = Len(heap.alls)
      BY ResultsHere
    <2>6. /\ Orderly(h) /\ Len(h.promises) = n + 1 /\ Len(h.alls) = m + 1
          /\ (\A a \in 1..m : h.alls[a] = heap.alls[a]) /\ h.alls[m + 1] = NewAll(heap, ps)
      BY <1>2, <2>4, <2>5 DEF AllEffect
    <2>7. LikeResults(h, 0)
      BY <1>3, <2>3 DEF LikeResults
    <2>8. 1..n \subseteq 1..(n + 1) /\ n + 1 \in 1..(n + 1)
      OBVIOUS
    <2>9. SameResults(heap, h) /\ h.alls[m + 1].result = n + 1
      BY <1>2, <2>5, <2>6 DEF SameResults, NewAll
    <2>10. ASSUME NEW gs, SameFrames(frames, gs), Len(gs) = Len(frames)
           PROVE  OwnPromises(program, gs, h)
      <3>1. OwnPromises(program, frames, heap) /\ Among(program, frames, heap, n) /\ HostPromises <= n
        BY <1>2, ResultsHere DEF Tracked
      <3> QED
        BY <2>5, <2>6, <2>9, <2>10, <3>1, OwnAll
    <2>11. WaitingIn(h, n + 1)
      BY <1>3, <2>3, <2>6, <2>7, <2>8, <2>10 DEF WaitingIn
    <2> QED
      BY <2>1, <2>2, <2>11, SuspendTracked
  <1> QED
    BY <1>4, <1>5

(* A body begins. *)
LEMMA NewHeap ==
  ASSUME ResumableOK, Tracked, NEW g, g = NewPromise(heap, Default)
  PROVE  /\ Inert(g, 0) /\ Len(g.promises) = Len(heap.promises) + 1 /\ Open(g, Len(heap.promises) + 1)
         /\ DueTo(g, Len(frames) + 1) = {}
  <1>1. HeapTypeOK(heap) /\ Orderly(heap) /\ AllsTracked(heap) /\ CallbacksOK(heap, Len(frames))
    BY DEF ResumableOK, Orderly, HeapOK, Tracked
  <1>2. AllsTracked(g) /\ \A p \in 1..Len(heap.promises) : Alike(heap, g, p)
    BY <1>1, AllsNew
  <1>3. \A i : DueTo(g, i) = DueTo(heap, i)
    <2>1. Due(g) = Due(heap)
      BY <1>1, NewOrderly
    <2> QED
      BY <2>1, DueWithStill
  <1>4. \A i \in 1..Len(frames) : AsyncFrame(program, frames[i]) => frames[i].result \in 1..Len(heap.promises)
    <2>1. (HostPromises + 1)..Len(heap.promises) \subseteq 1..Len(heap.promises)
      BY ResultsHere
    <2> QED
      BY <2>1, ResultsHere DEF Among
  <1>5. LikeResults(g, 0)
    BY <1>2, <1>4 DEF LikeResults
  <1>6. NewEffect(heap, g, Default)
    BY <1>1, NewMakes
  <1>7. g.alls = heap.alls /\ Len(g.promises) = Len(heap.promises) + 1 /\ ~g.promises[Len(heap.promises) + 1].settled
    BY <1>6 DEF NewEffect
  <1>8. DueTo(heap, Len(frames) + 1) = {}
    <2>1. PICK b \in Nat : b = Len(frames)
      BY ResultsHere
    <2>2. PICK c : c = Resume(b + 1)
      OBVIOUS
    <2>3. ASSUME NEW t \in Due(heap), t.callback = c
          PROVE  FALSE
      <3>1. CallbackOK(heap, b, t)
        BY <1>1, <2>1 DEF CallbacksOK
      <3>2. /\ \A i \in 1..b : c # Resume(i)
            /\ c # Note
            /\ \A a, x : c # Store(a, x)
        BY <2>2, Callback
      <3> QED
        BY <2>3, <3>1, <3>2, KindsOf
    <2>4. DueWith(heap, c) = {}
      BY <2>3 DEF DueWith
    <2> QED
      BY <2>1, <2>2, <2>4 DEF DueTo
  <1> QED
    BY <1>2, <1>3, <1>5, <1>7, <1>8 DEF Inert, SameResults, Open

LEMMA NewBodyTracked ==
  ASSUME NEW fn, NEW g, Open(g, Len(heap.promises) + 1), NEW i, DueTo(g, i) = {}, NEW ts, OnStack(ts, i)
  PROVE  BodyTracked(program, g, NewBody(fn), i, ts) /\ NewBody(fn).result = Len(heap.promises) + 1
  <1>1. PICK f : f = NewBody(fn)
    OBVIOUS
  <1>2. f.awaits = 0 /\ f.result = Len(heap.promises) + 1
    BY <1>1 DEF NewBody, NewFrame
  <1> QED
    BY <1>1, <1>2 DEF BodyTracked, AwaitsDue, Runs

CallsShape(c, f, fn) ==
  /\ Len(frames') = Len(frames) + 1
  /\ frames'[c] = f /\ frames'[Len(frames) + 1] = NewBody(fn)
  /\ \A i \in 1..Len(frames) : i # c => frames'[i] = frames[i]
  /\ \A i : OnStack(stack', i) <=> OnStack(stack, i) \/ i = Len(frames) + 1
LEMMA CallingShape ==
  ASSUME ResumableOK, Tracked, NEW f, NEW s, NEW fn, CallsFrom(f, s, fn),
         frames' = [Append(frames, NewBody(fn)) EXCEPT ![Current] = f],
         stack' = Append(Front(stack), s) \o <<Starting>>
  PROVE  CallsShape(Current, f, fn)
  <1>1. stack # <<>> /\ s.frame = Current
    BY DEF CallsFrom
  <1>2. PICK b \in Nat : b = Len(frames)
    BY ResultsHere
  <1>3. PICK c : c = Current
    OBVIOUS
  <1>4. c \in 1..b /\ c = stack[Len(stack)].frame
    BY <1>1, <1>2, <1>3, HereTracked
  <1>5. IsSequence(frames) /\ IsSequence(stack) /\ \A k \in 1..Len(stack) : stack[k].frame \in 1..b
    BY <1>2 DEF ResumableOK, BodiesOK, FramesOK, StackOK, ActivationOK
  <1>6. PICK new : new = NewBody(fn)
    OBVIOUS
  <1>7. PICK more : more = Append(frames, new)
    OBVIOUS
  <1>8. /\ IsSequence(more) /\ Len(more) = b + 1 /\ more[b + 1] = new
        /\ \A k \in 1..b : more[k] = frames[k]
    BY <1>2, <1>5, <1>7, AppendFacts
  <1>9. c \in 1..Len(more) /\ c # b + 1
    BY <1>4, <1>8
  <1>10. IsExcept(frames', more, c, f)
    BY <1>3, <1>6, <1>7, <1>8, <1>9, ExceptElements
  <1>11. 1..b \subseteq 1..(b + 1) /\ b + 1 \in 1..(b + 1)
    OBVIOUS
  <1>12. /\ Len(frames') = b + 1 /\ frames'[c] = f /\ frames'[b + 1] = new
         /\ \A i \in 1..b : i # c => frames'[i] = frames[i]
    BY <1>8, <1>9, <1>10, <1>11 DEF IsExcept
  <1>13. PICK start : start = Starting
    OBVIOUS
  <1>14. start.frame = b + 1 /\ start.at = "dispatch"
    BY <1>2, <1>13 DEF Starting, Activation
  <1>15. PICK ts : ts = stack'
    OBVIOUS
  <1>16. Fresh(stack, start) /\ Pushed(ts, stack, s, start)
    <2>1. b + 1 \notin 1..b
      OBVIOUS
    <2> QED
      BY <1>5, <1>13, <1>14, <1>15, <2>1 DEF Fresh, Pushed
  <1>17. OneMoreCall(stack, ts) /\ ts[Len(stack) + 1] = start
    BY <1>1, <1>3, <1>4, <1>5, <1>14, <1>16, StackCalls
  <1>18. \A i : OnStack(ts, i) <=> OnStack(stack, i) \/ i = b + 1
    BY <1>1, <1>5, <1>14, <1>17, UpCalling
  <1> QED
    BY <1>2, <1>3, <1>6, <1>12, <1>15, <1>18 DEF CallsShape

LEMMA CallingTracked ==
  ASSUME ResumableOK, Tracked, Calling
  PROVE  Tracked'
  <1>1. PICK f, s, fn : /\ CallsFrom(f, s, fn)
                        /\ frames' = [Append(frames, NewBody(fn)) EXCEPT ![Current] = f]
                        /\ stack' = Append(Front(stack), s) \o <<Starting>>
    BY DEF Calling
  <1>2. /\ program' = program /\ heap' = NewPromise(heap, Default)
        /\ stack # <<>> /\ f.fn = Here.fn /\ f.result = Here.result /\ f.awaits = Here.awaits
    BY <1>1 DEF Calling, CallsFrom, FurtherOn
  <1>3. PICK c : c = Current
    OBVIOUS
  <1>4. PICK b \in Nat, n \in Nat : b = Len(frames) /\ n = Len(heap.promises)
    BY ResultsHere
  <1>5. PICK gs : gs = frames'
    OBVIOUS
  <1>6. PICK ts : ts = stack'
    OBVIOUS
  <1>7. PICK h : h = NewPromise(heap, Default)
    OBVIOUS
  <1>8. /\ c \in 1..b /\ OnStack(stack, c) /\ BodyTracked(program, heap, Here, c, stack)
        /\ AsyncFrame(program, Here) => Runs(heap, Here, c, stack)
    BY <1>2, <1>3, <1>4, HereTracked
  <1>9. CallsShape(c, f, fn)
    BY <1>1, <1>3, CallingShape
  <1>10. /\ Len(gs) = b + 1 /\ gs[c] = f /\ gs[b + 1] = NewBody(fn) /\ \A i \in 1..b : i # c => gs[i] = frames[i]
         /\ \A i : OnStack(ts, i) <=> OnStack(stack, i) \/ i = b + 1
    BY <1>4, <1>5, <1>6, <1>9 DEF CallsShape
  <1>11. Inert(h, 0) /\ Len(h.promises) = n + 1 /\ Open(h, n + 1) /\ DueTo(h, b + 1) = {}
    BY <1>4, <1>7, NewHeap
  <1>12. \A i \in 1..b : i # b + 1
    BY <1>4
  <1>13. \A i \in 1..b : OnStack(ts, i) <=> OnStack(stack, i)
    BY <1>10, <1>12
  <1>14. OthersAsWere(program, heap, h, stack, ts, frames, gs, c)
    BY <1>4, <1>10, <1>11, <1>13, NoResultZero DEF OthersAsWere, Inert, LikeResults, Untouched
  <1>15. \A i \in 1..b : i # c => BodyTracked(program, h, gs[i], i, ts)
    BY <1>4, <1>14, OthersTracked DEF Tracked
  <1>16. BodyTracked(program, h, f, c, ts)
    <2>1. DueTo(h, c) = DueTo(heap, c)
      BY <1>11 DEF Inert
    <2>2. AwaitsDue(h, f, c)
      BY <1>2, <1>8, <2>1 DEF BodyTracked, AwaitsDue
    <2>3. ASSUME AsyncFrame(program, f)
          PROVE  Runs(h, f, c, ts)
      <3>1. AsyncFrame(program, Here) /\ frames[c] = Here
        BY <1>2, <1>3, <2>3 DEF AsyncFrame, Here
      <3>2. Alike(heap, h, f.result)
        BY <1>2, <1>4, <1>8, <1>11, <3>1, NoResultZero DEF Inert, LikeResults
      <3>3. Runs(heap, Here, c, stack)
        BY <1>8, <3>1
      <3> QED
        BY <1>2, <1>8, <1>13, <2>1, <3>2, <3>3 DEF Runs, Open, Alike
    <2> QED
      BY <2>2, <2>3 DEF BodyTracked
  <1>17. BodyTracked(program, h, NewBody(fn), b + 1, ts) /\ NewBody(fn).result = n + 1
    BY <1>4, <1>10, <1>11, NewBodyTracked
  <1>18. 1..(b + 1) = 1..b \cup {b + 1}
    OBVIOUS
  <1>19. BodiesTracked(program, h, gs, ts)
    BY <1>10, <1>15, <1>16, <1>17, <1>18 DEF BodiesTracked
  <1>20. SameFrames(frames, gs)
    BY <1>2, <1>3, <1>4, <1>10 DEF SameFrames, Here
  <1>21. AllsTracked(h) /\ SameResults(heap, h) /\ Len(h.alls) = Len(heap.alls)
    BY <1>11 DEF Inert
  <1>22. OwnPromises(program, gs, h)
    <2>1. OwnPromises(program, frames, heap) /\ Among(program, frames, heap, n)
      BY <1>4, ResultsHere DEF Tracked
    <2> QED
      BY <1>4, <1>10, <1>17, <1>20, <1>21, <2>1, OwnFrame
  <1> QED
    BY <1>2, <1>5, <1>6, <1>7, <1>19, <1>21, <1>22, TrackedNext

(* The host makes a body: one that starts at once, or a generator's.        *)
LEMMA AppendTracked ==
  ASSUME ResumableOK, Tracked, NEW h, Inert(h, 0), NEW new, NEW gs, gs = Append(frames, new), NEW ts,
         \A i \in 1..Len(frames) : OnStack(ts, i) <=> OnStack(stack, i),
         BodyTracked(program, h, new, Len(frames) + 1, ts),
         AsyncFrame(program, new) => new.result = Len(heap.promises) + 1
  PROVE  BodiesTracked(program, h, gs, ts) /\ AllsTracked(h) /\ OwnPromises(program, gs, h)
  <1>1. PICK b \in Nat, n \in Nat : b = Len(frames) /\ n = Len(heap.promises)
    BY ResultsHere
  <1>2. IsSequence(frames)
    BY DEF ResumableOK, BodiesOK, FramesOK
  <1>3. Len(gs) = b + 1 /\ gs[b + 1] = new /\ \A i \in 1..b : gs[i] = frames[i]
    BY <1>1, <1>2, AppendFacts
  <1>4. OthersAsWere(program, heap, h, stack, ts, frames, gs, 0)
    BY <1>1, <1>3, NoResultZero DEF OthersAsWere, Inert, LikeResults, Untouched
  <1>5. \A i \in 1..b : i # 0
    OBVIOUS
  <1>6. \A i \in 1..b : BodyTracked(program, h, gs[i], i, ts)
    <2>1. BodiesTracked(program, heap, frames, stack)
      BY DEF Tracked
    <2> SUFFICES ASSUME NEW i \in 1..Len(frames)
                 PROVE  BodyTracked(program, h, gs[i], i, ts)
      BY <1>1
    <2>2. i # 0
      BY <1>1, <1>5
    <2> QED
      BY <1>4, <2>1, <2>2, OthersTracked
  <1>7. 1..(b + 1) = 1..b \cup {b + 1}
    OBVIOUS
  <1>8. BodiesTracked(program, h, gs, ts)
    BY <1>1, <1>3, <1>6, <1>7 DEF BodiesTracked
  <1>9. SameFrames(frames, gs)
    BY <1>1, <1>3 DEF SameFrames
  <1>10. AllsTracked(h) /\ SameResults(heap, h) /\ Len(h.alls) = Len(heap.alls)
    BY DEF Inert
  <1>11. OwnPromises(program, gs, h)
    <2>1. OwnPromises(program, frames, heap) /\ Among(program, frames, heap, n)
      BY <1>1, ResultsHere DEF Tracked
    <2> QED
      BY <1>1, <1>3, <1>9, <1>10, <2>1, OwnFrame
  <1> QED
    BY <1>8, <1>10, <1>11

LEMMA HostTracked ==
  ASSUME ResumableOK, Tracked, HostNextCall
  PROVE  Tracked'
  <1>1. BodiesOK /\ HeapTypeOK(heap) /\ Orderly(heap) /\ CallbacksOK(heap, Len(frames))
    BY DEF ResumableOK, Orderly, HeapOK
  <1>2. job = "idle" /\ stack = <<>>
    BY DEF ResumableOK, JobOK, HostNextCall, HostStarts, HostMakes, HostNext, HostResolves, HostCall
  <1>3. \A i : ~OnStack(stack, i)
    BY <1>2, UpOne
  <1>4. PICK b \in Nat, n \in Nat : b = Len(frames) /\ n = Len(heap.promises)
    BY ResultsHere
  <1>5. PICK gs : gs = frames'
    OBVIOUS
  <1>6. PICK ts : ts = stack'
    OBVIOUS
  <1>7. Inert(heap, 0)
    BY InertStays
  <1>8. \A i \in 1..b : i # b + 1
    BY <1>4
  <1>9. ASSUME NEW fn \in DOMAIN program, HostStarts(fn)
        PROVE  Tracked'
    <2>1. /\ heap' = NewPromise(heap, Default) /\ gs = Append(frames, NewBody(fn)) /\ stack' = <<Starting>>
          /\ program' = program
      BY <1>1, <1>5, <1>9, HostStartsOK
    <2>2. PICK h : h = NewPromise(heap, Default)
      OBVIOUS
    <2>3. Inert(h, 0) /\ Len(h.promises) = n + 1 /\ Open(h, n + 1) /\ DueTo(h, b + 1) = {}
      BY <1>4, <2>2, NewHeap
    <2>4. ts = <<Activation(b + 1, Default)>>
      BY <1>4, <1>6, <2>1 DEF Starting
    <2>5. \A i : OnStack(ts, i) <=> i = b + 1
      BY <2>4, UpOne
    <2>6. \A i \in 1..b : OnStack(ts, i) <=> OnStack(stack, i)
      BY <1>3, <1>8, <2>5
    <2>7. BodyTracked(program, h, NewBody(fn), b + 1, ts) /\ NewBody(fn).result = n + 1
      BY <1>4, <2>3, <2>5, NewBodyTracked
    <2>8. BodiesTracked(program, h, gs, ts) /\ AllsTracked(h) /\ OwnPromises(program, gs, h)
      BY <1>4, <2>1, <2>3, <2>6, <2>7, AppendTracked
    <2> QED
      BY <1>5, <1>6, <2>1, <2>2, <2>8, TrackedNext
  <1>10. ASSUME NEW fn \in DOMAIN program, HostMakes(fn)
         PROVE  Tracked'
    <2>1. PICK new : new = NewFrame(fn, 0)
      OBVIOUS
    <2>2. /\ heap' = heap /\ gs = Append(frames, new) /\ stack' = <<>>
          /\ program' = program /\ Machines[program][fn].kind = "generator"
      BY <1>1, <1>2, <1>5, <1>10, <2>1, HostMakesOK
    <2>3. new.awaits = 0 /\ ~AsyncFrame(program, new)
      BY <2>1, <2>2 DEF NewFrame, AsyncFrame
    <2>4. BodyTracked(program, heap, new, b + 1, ts)
      BY <2>3 DEF BodyTracked, AwaitsDue
    <2>5. ts = stack
      BY <1>2, <1>6, <2>2
    <2>6. BodiesTracked(program, heap, gs, ts) /\ AllsTracked(heap) /\ OwnPromises(program, gs, heap)
      BY <1>4, <1>7, <2>2, <2>3, <2>4, <2>5, AppendTracked
    <2> QED
      BY <1>5, <1>6, <2>2, <2>6, TrackedNext
  <1>11. ASSUME NEW i \in DOMAIN frames, HostNext(i)
         PROVE  Tracked'
    <2>1. Awakes(i, frames[i].awaits) /\ heap' = heap /\ ~Async(i)
      BY <1>1, <1>11, NextAwakes
    <2>2. PICK f : IsExcept(gs, frames, i, f) /\ FurtherOn(program, n, frames[i], f) /\ f.awaits = frames[i].awaits
      BY <1>4, <1>5, <2>1 DEF Awakes
    <2>3. i \in 1..b /\ program' = program /\ \E v : ts = <<Activation(i, v)>>
      BY <1>4, <1>6, <2>1 DEF Awakes
    <2>4. \A j : j # i => (OnStack(ts, j) <=> OnStack(stack, j))
      BY <1>3, <2>3, UpOne
    <2>5. OthersAlike(heap, ts, i)
      BY <1>7, <2>4, OthersInert, NoResultZero
    <2>6. f.fn = frames[i].fn /\ f.result = frames[i].result
      BY <2>2 DEF FurtherOn
    <2>7. ~AsyncFrame(program, frames[i])
      BY <2>1 DEF Async, Kind, Machine, AsyncFrame
    <2>8. BodyTracked(program, heap, frames[i], i, stack)
      BY <1>4, <2>3 DEF Tracked, BodiesTracked
    <2>9. BodyTracked(program, heap, f, i, ts)
      BY <2>2, <2>6, <2>7, <2>8 DEF BodyTracked, AwaitsDue, AsyncFrame
    <2>10. BodiesTracked(program, heap, gs, ts) /\ SameFrames(frames, gs) /\ Len(gs) = Len(frames)
      BY <1>4, <2>2, <2>3, <2>5, <2>6, <2>9, OneTracked
    <2>11. AllsTracked(heap) /\ OwnPromises(program, gs, heap)
      BY <1>7, <2>10, InertTracked
    <2> QED
      BY <1>5, <1>6, <2>1, <2>3, <2>10, <2>11, TrackedNext
  <1>12. ASSUME NEW p \in 1..HostPromises, HostResolves(p)
         PROVE  Tracked'
    <2>1. PICK v : heap' = Resolve(heap, p, v)
      BY <1>12 DEF HostResolves
    <2>2. UNCHANGED <<program, frames, stack>>
      BY <1>12 DEF HostResolves
    <2>3. PICK h : h = Resolve(heap, p, v)
      OBVIOUS
    <2>4. Inert(h, 0)
      BY <2>3, InertResolve
    <2>5. OthersAlike(h, stack, 0)
      BY <2>4, OthersInert, NoResultZero
    <2>6. BodiesTracked(program, h, frames, stack)
      BY <2>5, NoneTracked
    <2>7. SameFrames(frames, frames)
      BY DEF SameFrames
    <2>8. AllsTracked(h) /\ OwnPromises(program, frames, h)
      BY <2>4, <2>7, InertTracked
    <2> QED
      BY <2>1, <2>2, <2>3, <2>6, <2>8, TrackedNext
  <1> QED
    BY <1>9, <1>10, <1>11, <1>12 DEF HostNextCall

LEMMA TakenLike ==
  ASSUME ResumableOK, heap.microtasks # <<>>, NEW g, g = Taken(heap)
  PROVE  /\ LikeResults(g, 0) /\ SameResults(heap, g) /\ Len(g.alls) = Len(heap.alls)
         /\ Due(g) = Due(heap) \ {NextTask(heap)} /\ NextTask(heap) \in Due(heap)
  <1>1. HeapTypeOK(heap) /\ Orderly(heap)
    BY DEF ResumableOK, Orderly, HeapOK
  <1>2. g.promises = heap.promises /\ g.alls = heap.alls
    BY <1>1, TakenSame
  <1>3. Due(g) = Due(heap) \ {NextTask(heap)} /\ NextTask(heap) \in Due(heap)
    BY <1>1, TakenOrderly
  <1> QED
    BY <1>2, <1>3 DEF LikeResults, SameResults, Alike

LEMMA NoteTracked ==
  ASSUME ResumableOK, Tracked, heap.microtasks # <<>>, NotesTask
  PROVE  Tracked'
  <1>1. PICK g : g = Taken(heap)
    OBVIOUS
  <1>2. heap' = g /\ UNCHANGED <<frames, stack, program>> /\ NextTask(heap).callback = Note
    BY <1>1 DEF NotesTask
  <1>3. /\ LikeResults(g, 0) /\ SameResults(heap, g) /\ Len(g.alls) = Len(heap.alls)
        /\ Due(g) = Due(heap) \ {NextTask(heap)}
    BY <1>1, TakenLike
  <1>4. AllsTracked(g)
    BY <1>1, <1>2, AllsTaken, Callback DEF ResumableOK, Tracked
  <1>5. ASSUME NEW i
        PROVE  DueTo(g, i) = DueTo(heap, i)
    <2>1. PICK u : u = NextTask(heap)
      OBVIOUS
    <2>2. PICK c : c = Resume(i)
      OBVIOUS
    <2>3. u.callback # c /\ Due(g) = Due(heap) \ {u}
      BY <1>2, <1>3, <2>1, <2>2, Callback
    <2>4. DueWith(g, c) = DueWith(heap, c)
      BY <2>3, DueWithLess
    <2> QED
      BY <2>2, <2>4 DEF DueTo
  <1>6. Inert(g, 0)
    BY <1>3, <1>4, <1>5 DEF Inert
  <1>7. OthersAlike(g, stack, 0)
    BY <1>6, OthersInert, NoResultZero
  <1>8. BodiesTracked(program, g, frames, stack)
    BY <1>7, NoneTracked
  <1>9. SameFrames(frames, frames)
    BY DEF SameFrames
  <1>10. AllsTracked(g) /\ OwnPromises(program, frames, g)
    BY <1>6, <1>9, InertTracked
  <1> QED
    BY <1>2, <1>8, <1>10, TrackedNext

(* The task that resumes a body is the one due to it. *)
LEMMA ResumeTracked ==
  ASSUME ResumableOK, Tracked, stack = <<>>, heap.microtasks # <<>>, NEW i \in 1..Len(frames), ResumesTask(i)
  PROVE  Tracked'
  <1>1. PICK g : g = Taken(heap)
    OBVIOUS
  <1>2. PICK u : u = NextTask(heap)
    OBVIOUS
  <1>3. heap' = g /\ u.callback = Resume(i) /\ Awakes(i, 0)
    BY <1>1, <1>2 DEF ResumesTask
  <1>4. PICK gs : gs = frames'
    OBVIOUS
  <1>5. PICK ts : ts = stack'
    OBVIOUS
  <1>6. PICK f : IsExcept(gs, frames, i, f) /\ FurtherOn(program, Len(heap.promises), frames[i], f) /\ f.awaits = 0
    BY <1>3, <1>4 DEF Awakes
  <1>7. program' = program /\ \E v : ts = <<Activation(i, v)>>
    BY <1>3, <1>5 DEF Awakes
  <1>8. f.fn = frames[i].fn /\ f.result = frames[i].result
    BY <1>6 DEF FurtherOn
  <1>9. /\ LikeResults(g, 0) /\ SameResults(heap, g) /\ Len(g.alls) = Len(heap.alls)
        /\ Due(g) = Due(heap) \ {u} /\ u \in Due(heap)
    BY <1>1, <1>2, TakenLike
  <1>10. AllsTracked(g)
    BY <1>1, <1>2, <1>3, AllsTaken, Callback DEF ResumableOK, Tracked
  <1>11. ASSUME NEW j, j # i
         PROVE  DueTo(g, j) = DueTo(heap, j)
    <2>1. PICK c : c = Resume(j)
      OBVIOUS
    <2>2. u.callback # c
      BY <1>3, <1>11, <2>1, Callback
    <2>3. DueWith(g, c) = DueWith(heap, c)
      BY <1>9, <2>2, DueWithLess
    <2> QED
      BY <2>1, <2>3 DEF DueTo
  <1>12. /\ \A j : j # i => (OnStack(ts, j) <=> OnStack(stack, j))
         /\ OnStack(ts, i) /\ ~OnStack(stack, i)
    BY <1>7, UpOne
  <1>13. OthersAlike(g, ts, i)
    BY <1>9, <1>11, <1>12, NoResultZero DEF OthersAlike, LikeResults, Untouched
  <1>14. BodyTracked(program, g, f, i, ts)
    <2>1. AwaitsDue(g, f, i)
      BY <1>6 DEF AwaitsDue
    <2>2. ASSUME AsyncFrame(program, f)
          PROVE  Runs(g, f, i, ts)
      <3>1. AsyncFrame(program, frames[i])
        BY <1>8, <2>2 DEF AsyncFrame
      <3>2. BodyTracked(program, heap, frames[i], i, stack)
        BY DEF Tracked, BodiesTracked
      <3>3. PICK c : c = Resume(i)
        OBVIOUS
      <3>4. u \in DueWith(heap, c)
        BY <1>3, <1>9, <3>3, SomeDueFor
      <3>5. u \in DueTo(heap, i)
        BY <3>3, <3>4 DEF DueTo
      <3>6. Waits(heap, frames[i], i, stack)
        BY <3>1, <3>2, <3>5 DEF BodyTracked, Runs, Ended
      <3>7. DueTo(heap, i) = {u} /\ Open(heap, f.result)
        BY <1>8, <3>5, <3>6 DEF Waits
      <3>8. DueWith(g, c) = DueWith(heap, c) \ {u}
        BY <1>3, <1>9, <3>3, DueWithLess
      <3>9. DueTo(g, i) = DueTo(heap, i) \ {u}
        BY <3>3, <3>8 DEF DueTo
      <3>10. DueTo(g, i) = {}
        BY <3>7, <3>9
      <3>11. Alike(heap, g, f.result)
        BY <1>8, <1>9, <3>1, NoResultZero DEF LikeResults
      <3> QED
        BY <1>6, <1>12, <3>7, <3>10, <3>11 DEF Runs, Open, Alike
    <2> QED
      BY <2>1, <2>2 DEF BodyTracked
  <1>15. BodiesTracked(program, g, gs, ts) /\ SameFrames(frames, gs) /\ Len(gs) = Len(frames)
    BY <1>6, <1>8, <1>13, <1>14, OneTracked
  <1>16. OwnPromises(program, gs, g)
    BY <1>9, <1>15, OwnStill DEF Tracked
  <1> QED
    BY <1>3, <1>4, <1>5, <1>7, <1>10, <1>15, <1>16, TrackedNext

LEMMA StoreTracked ==
  ASSUME ResumableOK, Tracked, heap.microtasks # <<>>,
         NEW a \in 1..Len(heap.alls), NEW k \in 1..Len(heap.alls[a].of), StoresTask(a, k)
  PROVE  Tracked'
  <1>1. PICK t : t = NextTask(heap)
    OBVIOUS
  <1>2. PICK v : v = ValueOf(heap, t)
    OBVIOUS
  <1>3. PICK g : g = RunStore(Taken(heap), Store(a, k), v)
    OBVIOUS
  <1>4. /\ heap' = g /\ t.callback = Store(a, k) /\ t.promise = heap.alls[a].of[k]
        /\ UNCHANGED <<frames, stack, program>>
    BY <1>1, <1>2, <1>3 DEF StoresTask
  <1>5. PICK r : r = heap.alls[a].result
    OBVIOUS
  <1>6. \A b \in 1..Len(heap.alls) : heap.alls[b].result = r => b = a
    BY <1>5 DEF Tracked, OwnPromises, AllOwn
  <1>7. Orderly(heap) /\ AllsTracked(heap)
    BY DEF ResumableOK, Tracked
  <1>8. /\ AllsTracked(g) /\ (\A p \in 1..Len(heap.promises) : p # r => Alike(heap, g, p))
        /\ \A i : DueTo(g, i) = DueTo(heap, i)
        /\ Len(g.alls) = Len(heap.alls) /\ \A b \in 1..Len(heap.alls) : g.alls[b].result = heap.alls[b].result
    <2>1. StoringIn(heap, a, k, t, v, r)
      BY <1>1, <1>2, <1>4, <1>5, <1>6 DEF StoringIn
    <2>2. StoredIn(heap, g, r)
      BY <1>3, <1>7, <2>1, AllsStore
    <2> QED
      BY <2>2 DEF StoredIn
  <1>9. ASSUME NEW i \in 1..Len(frames), AsyncFrame(program, frames[i])
        PROVE  Alike(heap, g, frames[i].result)
    <2>1. frames[i].result # r
      BY <1>5, <1>9 DEF Tracked, OwnPromises, FrameOwn
    <2>2. frames[i].result \in (HostPromises + 1)..Len(heap.promises)
      BY <1>9, ResultsHere DEF Among
    <2>3. frames[i].result \in 1..Len(heap.promises)
      BY <2>2, ResultsHere
    <2> QED
      BY <1>8, <2>1, <2>3
  <1>10. Inert(g, 0)
    BY <1>8, <1>9 DEF Inert, LikeResults, SameResults
  <1>11. OthersAlike(g, stack, 0)
    BY <1>10, OthersInert, NoResultZero
  <1>12. BodiesTracked(program, g, frames, stack)
    BY <1>11, NoneTracked
  <1>13. SameFrames(frames, frames)
    BY DEF SameFrames
  <1>14. AllsTracked(g) /\ OwnPromises(program, frames, g)
    BY <1>10, <1>13, InertTracked
  <1> QED
    BY <1>4, <1>12, <1>14, TrackedNext

LEMMA InitTracked ==
  ASSUME ResumableInit
  PROVE  ResumableOK /\ Tracked
  <1>1. ResumableOK /\ Due(heap) = {} /\ heap.alls = <<>> /\ frames = <<>>
    BY InitOK
  <1>2. Len(heap.alls) = 0 /\ Len(frames) = 0
    BY <1>1
  <1> QED
    BY <1>1, <1>2 DEF Tracked, BodiesTracked, AllsTracked, OwnPromises

LEMMA StepTracked ==
  ASSUME ResumableOK, Tracked, [ResumableNext]_resumableVars
  PROVE  Tracked'
  <1>1. CASE UNCHANGED <<program, frames, heap, stack>>
    BY <1>1 DEF Tracked
  <1>2. CASE UNCHANGED resumableVars
    BY <1>1, <1>2 DEF resumableVars
  <1>3. CASE CallReturns \/ Drained
    BY <1>1, <1>3 DEF CallReturns, Drained
  <1>4. CASE HostNextCall
    BY <1>4, HostTracked
  <1>5. CASE BodyActions
    <2>1. BodySteps
      BY <1>5, BodiesStep
    <2>2. CASE Computes
      BY <2>2, InertStays, GoingTracked DEF Computes
    <2>3. CASE Resolves
      <3>1. PICK p \in 1..HostPromises : \E v : heap' = Resolve(heap, p, v)
        BY <2>3 DEF Resolves
      <3>2. PICK v : heap' = Resolve(heap, p, v)
        BY <3>1
      <3>3. PICK h : h = Resolve(heap, p, v)
        OBVIOUS
      <3>4. Inert(h, 0)
        BY <3>3, InertResolve
      <3> QED
        BY <2>3, <3>2, <3>3, <3>4, GoingTracked DEF Resolves
    <2>4. CASE Notes
      <3>1. PICK p \in 1..HostPromises : heap' = Then(heap, p, Note)
        BY <2>4 DEF Notes
      <3>2. PICK h : h = Then(heap, p, Note)
        OBVIOUS
      <3>3. p \in 1..Len(heap.promises)
        BY ResultsHere
      <3>4. Inert(h, 0)
        BY <3>2, <3>3, InertNote
      <3> QED
        BY <2>4, <3>1, <3>2, <3>4, GoingTracked DEF Notes
    <2>5. CASE Calling
      BY <2>5, CallingTracked
    <2>6. CASE Yields
      BY <2>6, YieldsTracked
    <2>7. CASE \E v : FinishesWith(v)
      BY <2>7, EndsTracked
    <2>8. CASE Waits1 \/ WaitsForAll
      BY <2>8, WaitsTracked
    <2> QED
      BY <2>1, <2>2, <2>3, <2>4, <2>5, <2>6, <2>7, <2>8 DEF BodySteps
  <1>6. CASE RunTask
    <2>1. /\ stack = <<>> /\ heap.microtasks # <<>>
          /\ \/ \E i \in 1..Len(frames) : ResumesTask(i)
             \/ \E a \in 1..Len(heap.alls) : \E k \in 1..Len(heap.alls[a].of) : StoresTask(a, k)
             \/ NotesTask
      BY <1>6, TaskRuns
    <2>2. CASE \E i \in 1..Len(frames) : ResumesTask(i)
      BY <2>1, <2>2, ResumeTracked
    <2>3. CASE \E a \in 1..Len(heap.alls) : \E k \in 1..Len(heap.alls[a].of) : StoresTask(a, k)
      BY <2>1, <2>3, StoreTracked
    <2>4. CASE NotesTask
      BY <2>1, <2>4, NoteTracked
    <2> QED
      BY <2>1, <2>2, <2>3, <2>4
  <1> QED
    BY <1>2, <1>3, <1>4, <1>5, <1>6 DEF ResumableNext, RuntimeNext, BodyActions

(* An async body runs, waits for a promise one callback of its is attached  *)
(* to, or is done and has settled its own; a Promise.all misses exactly the *)
(* values still due; and no promise settles for two.                        *)
THEOREM BodiesAccounted == ResumableSpec => []Tracked
  <1>1. ResumableInit => ResumableOK /\ Tracked
    BY InitTracked
  <1>2. (ResumableOK /\ Tracked) /\ [ResumableNext]_resumableVars => (ResumableOK /\ Tracked)'
    BY StepKeeps, StepTracked
  <1>3. ResumableSpec => [](ResumableOK /\ Tracked)
    BY <1>1, <1>2, PTL DEF ResumableSpec
  <1> QED
    BY <1>3, PTL
-----------------------------------------------------------------------------
(* When nothing is queued, what is due is attached to an open promise. *)
LEMMA DueIsOpen ==
  ASSUME ResumableOK, heap.microtasks = <<>>, NEW t \in Due(heap)
  PROVE  Open(heap, t.promise)
  <1>1. HeapOK(heap)
    BY DEF ResumableOK, Orderly
  <1>2. heap.promises[t.promise].settled => Has(heap.microtasks, t)
    BY <1>1, DueTasks
  <1>3. Len(heap.microtasks) = 0
    OBVIOUS
  <1> QED
    BY <1>2, <1>3 DEF Has, Open

LEMMA AllSettledLast ==
  ASSUME ResumableOK, Tracked, heap.microtasks = <<>>, NEW a \in 1..Len(heap.alls), NEW all, all = heap.alls[a]
  PROVE  /\ ~Open(heap, all.result) <=> \A k \in 1..Len(all.of) : ~Open(heap, all.of[k])
         /\ ~Open(heap, all.result) =>
              heap.promises[all.result].value = <<"list", [k \in 1..Len(all.of) |-> heap.promises[all.of[k]].value]>>
  <1>1. HeapTypeOK(heap) /\ CallbacksOK(heap, Len(frames)) /\ AllTracked(heap, a)
    BY DEF ResumableOK, Orderly, HeapOK, Tracked, AllsTracked
  <1>2. \A k \in Missing(heap, a) : Open(heap, all.of[k])
    <2> SUFFICES ASSUME NEW k \in Missing(heap, a)
                 PROVE  Open(heap, all.of[k])
      OBVIOUS
    <2>1. k \in 1..Len(all.of) /\ DueFor(heap, a, k) # {}
      BY DEF Missing
    <2>2. PICK t : t \in DueFor(heap, a, k)
      BY <2>1
    <2>3. t \in Due(heap) /\ t.callback = Store(a, k)
      BY <2>2 DEF DueFor, DueWith
    <2>4. CallbackOK(heap, Len(frames), t)
      BY <1>1, <2>3 DEF CallbacksOK
    <2>5. t.promise = all.of[k]
      <3>1. PICK b \in 1..Len(heap.alls) : \E l \in 1..Len(heap.alls[b].of) :
              t.callback = Store(b, l) /\ t.promise = heap.alls[b].of[l]
        BY <2>3, <2>4, KindsOf, Callback
      <3>2. PICK l \in 1..Len(heap.alls[b].of) : t.callback = Store(b, l) /\ t.promise = heap.alls[b].of[l]
        BY <3>1
      <3>3. Store(a, k) = Store(b, l)
        BY <2>3, <3>2
      <3>4. a = b
        BY <3>3 DEF Store
      <3>5. k = l
        BY <3>3 DEF Store
      <3> QED
        BY <3>2, <3>4, <3>5
    <2>6. Open(heap, t.promise)
      BY <2>3, DueIsOpen
    <2> QED
      BY <2>5, <2>6
  <1>3. \A k \in 1..Len(all.of) : k \notin Missing(heap, a) => Gathered(heap, all, k)
    BY <1>1 DEF AllTracked
  <1>4. Missing(heap, a) \subseteq 1..Len(all.of)
    BY DEF Missing
  <1>5. Open(heap, all.result) <=> Missing(heap, a) # {}
    BY <1>1 DEF AllTracked
  <1>6. ~Open(heap, all.result) <=> \A k \in 1..Len(all.of) : ~Open(heap, all.of[k])
    <2>1. ASSUME Missing(heap, a) = {}, NEW k \in 1..Len(all.of)
          PROVE  ~Open(heap, all.of[k])
      BY <1>3, <2>1 DEF Gathered
    <2>2. ASSUME NEW k \in Missing(heap, a)
          PROVE  ~\A l \in 1..Len(all.of) : ~Open(heap, all.of[l])
      BY <1>2, <1>4, <2>2
    <2> QED
      BY <1>5, <2>1, <2>2
  <1>7. ASSUME ~Open(heap, all.result)
        PROVE  heap.promises[all.result].value = <<"list", [k \in 1..Len(all.of) |-> heap.promises[all.of[k]].value]>>
    <2>1. heap.promises[all.result].value = <<"list", all.values>>
      BY <1>1, <1>7 DEF AllTracked
    <2>2. all.values = [k \in 1..Len(all.of) |-> all.values[k]]
      BY <1>1 DEF HeapTypeOK, AllOK
    <2>3. \A k \in 1..Len(all.of) : all.values[k] = heap.promises[all.of[k]].value
      BY <1>3, <1>5, <1>7 DEF Gathered
    <2>4. all.values = [k \in 1..Len(all.of) |-> heap.promises[all.of[k]].value]
      BY <2>2, <2>3
    <2> QED
      BY <2>1, <2>4
  <1> QED
    BY <1>6, <1>7

LEMMA BodiesSettledLast ==
  ASSUME ResumableOK, Tracked, stack = <<>>, heap.microtasks = <<>>, NEW i \in 1..Len(frames)
  PROVE  /\ frames[i].awaits # 0 => Open(heap, frames[i].awaits)
         /\ Kind(i) = "async" =>
              IF frames[i].awaits # 0 THEN Open(heap, frames[i].result)
              ELSE /\ ~Open(heap, frames[i].result)
                   /\ <<"done", heap.promises[frames[i].result].value>> = Last(frames[i].log)
  <1>1. BodyTracked(program, heap, frames[i], i, stack)
    BY DEF Tracked, BodiesTracked
  <1>2. ~OnStack(stack, i)
    BY UpOne
  <1>3. ASSUME frames[i].awaits # 0
        PROVE  Open(heap, frames[i].awaits)
    <2>1. PICK t \in DueTo(heap, i) : t.promise = frames[i].awaits
      BY <1>1, <1>3 DEF BodyTracked, AwaitsDue
    <2>2. t \in Due(heap)
      BY DEF DueTo, DueWith
    <2> QED
      BY <2>1, <2>2, DueIsOpen
  <1>4. ASSUME Kind(i) = "async"
        PROVE  Waits(heap, frames[i], i, stack) \/ Ended(heap, frames[i], i, stack)
    <2>1. AsyncFrame(program, frames[i])
      BY <1>4 DEF Kind, Machine, AsyncFrame
    <2> QED
      BY <1>1, <1>2, <2>1 DEF BodyTracked, Runs
  <1> QED
    BY <1>3, <1>4 DEF Waits, Ended

(* Between two calls of the host nobody waits for a promise that is         *)
(* settled, an async function that is done has settled its own, and a       *)
(* Promise.all is settled with the last of its promises, values in order.   *)
THEOREM NobodyLeftWaiting == ResumableSpec => []NothingLeftWaiting
  <1>1. ResumableOK /\ Tracked => NothingLeftWaiting
    <2>1. ASSUME ResumableOK, Tracked, job = "idle"
          PROVE  /\ \A i \in DOMAIN frames :
                      /\ frames[i].awaits # 0 => ~Settled(frames[i].awaits)
                      /\ Kind(i) = "async" =>
                           IF frames[i].awaits # 0 THEN ~Settled(frames[i].result)
                           ELSE /\ Settled(frames[i].result)
                                /\ <<"done", ValueNow(frames[i].result)>> = Last(frames[i].log)
                 /\ \A a \in DOMAIN heap.alls :
                      LET all == heap.alls[a]
                      IN  /\ Settled(all.result) <=> \A k \in DOMAIN all.of : Settled(all.of[k])
                          /\ Settled(all.result) =>
                               ValueNow(all.result) = <<"list", [k \in DOMAIN all.of |-> ValueNow(all.of[k])]>>
      <3>1. stack = <<>> /\ heap.microtasks = <<>> /\ BodiesOK /\ HeapTypeOK(heap)
        BY <2>1 DEF ResumableOK, JobOK, Orderly, HeapOK
      <3>2. DOMAIN frames = 1..Len(frames) /\ DOMAIN heap.alls = 1..Len(heap.alls)
        BY <3>1, SequenceFacts DEF BodiesOK, FramesOK, HeapTypeOK
      <3>3. ASSUME NEW i \in 1..Len(frames)
            PROVE  /\ frames[i].awaits # 0 => ~Settled(frames[i].awaits)
                   /\ Kind(i) = "async" =>
                        IF frames[i].awaits # 0 THEN ~Settled(frames[i].result)
                        ELSE /\ Settled(frames[i].result)
                             /\ <<"done", ValueNow(frames[i].result)>> = Last(frames[i].log)
        BY <2>1, <3>1, BodiesSettledLast DEF Open, Settled, ValueNow
      <3>4. ASSUME NEW a \in 1..Len(heap.alls), NEW all, all = heap.alls[a]
            PROVE  /\ Settled(all.result) <=> \A k \in DOMAIN all.of : Settled(all.of[k])
                   /\ Settled(all.result) =>
                        ValueNow(all.result) = <<"list", [k \in DOMAIN all.of |-> ValueNow(all.of[k])]>>
        <4>1. all.of \in Seq(1..Len(heap.promises))
          BY <3>1, <3>4, AllResults
        <4>2. DOMAIN all.of = 1..Len(all.of)
          BY <4>1
        <4>3. /\ ~Open(heap, all.result) <=> \A k \in 1..Len(all.of) : ~Open(heap, all.of[k])
              /\ ~Open(heap, all.result) =>
                   heap.promises[all.result].value = <<"list", [k \in 1..Len(all.of) |-> heap.promises[all.of[k]].value]>>
          BY <2>1, <3>1, <3>4, AllSettledLast
        <4> QED
          BY <4>2, <4>3 DEF Open, Settled, ValueNow
      <3> QED
        BY <3>2, <3>3, <3>4
    <2> QED
      BY <2>1 DEF NothingLeftWaiting
  <1> QED
    BY <1>1, ResumableCorrect, BodiesAccounted, PTL
=============================================================================
