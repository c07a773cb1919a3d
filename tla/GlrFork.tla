------------------------------ MODULE GlrFork ------------------------------
(***************************************************************************)
(* runGlrFork (lalr.ts): from a conflict entry on, every derivation is     *)
(* followed on a graph of frames until one is left, which goes back to     *)
(* runParser, one is accepted, or none survives.  One action per way an    *)
(* iteration of the worklist loop can go.                                  *)
(*                                                                         *)
(* The lexer is shared: one token at a time, lexed for the union of the    *)
(* rows of the frames alive.  A context is the log of the actions run on   *)
(* it; forkCtx clones it.                                                  *)
(***************************************************************************)
EXTENDS LRParser

CONSTANTS
  MaxWork,        \* MAX_TOTAL_WORK, 50000 in the code
  MaxRecoveries   \* MAX_RECOVERY_PER_POSITION, 200 in the code

ASSUME ForkLimitsAssumption == MaxWork \in Nat /\ MaxRecoveries \in Nat

VARIABLE
  fork    \* the locals of runGlrFork:
          \*   frames      all frames made, by id: [parent, state, value, ctx, span, ran]
          \*   active      the live frame of each (state, parent), in the Map's order
          \*   worklist    the frames to look at before the next token
          \*   shifted     the frames that have shifted the token
          \*   contexts    the contexts made, each the log of the rules whose action it saw
          \*   accepted    acceptedValue, in a sequence of at most one
          \*   work, recoveries   totalWork, recoveryUsedCount
          \* (span and ran are history: the lexemes under a frame, and the rules
          \* reduced on the way to it; and so is
          \*   late            a frame has been merged into after it was followed)

NoFork == [frames |-> <<>>, active |-> <<>>, worklist |-> <<>>, shifted |-> <<>>,
           contexts |-> <<>>, accepted |-> <<>>, work |-> 0, recoveries |-> 0, late |-> FALSE]

GlrForkInit == LRParserInit /\ fork = NoFork
-----------------------------------------------------------------------------
(* The value of two derivations that converged: the rule's own merge or the *)
(* default one, which collects alternatives that differ.                    *)
MergeValues(left, right, r) ==
  IF r # 0 /\ gram[r].merge THEN [hook |-> r, of |-> <<left, right>>]
  ELSE IF "alts" \in DOMAIN left
       THEN IF Contains(left.alts, right) THEN left ELSE [alts |-> Append(left.alts, right)]
  ELSE IF left = right THEN left ELSE [alts |-> <<left, right>>]

(* mergeInto: the frame registered first lends its context. *)
MergeInto(into, incoming, r) ==
  [into EXCEPT !.value = MergeValues(into.value, incoming.value, r)]

(* convergeKey.  A faulty one forgets what is below the frame. *)
SameKeyAnyParent(f, g) == f.state = g.state
SameKey(f, g) == f.state = g.state /\ f.parent = g.parent

(* active.set(convergeKey(frame), ...): merged with the frame that is there. *)
Activate(fk, frame, r) ==
  LET there == {k \in 1..Len(fk.active) : SameKey(fk.frames[fk.active[k]], frame)}
      id == Len(fk.frames) + 1
  IN  IF there = {}
      THEN [fk EXCEPT !.frames = Append(@, frame), !.active = Append(@, id)]
      ELSE LET k == CHOOSE k \in there : TRUE
           IN  [fk EXCEPT !.frames = Append(@, MergeInto(@[fk.active[k]], frame, r)),
                          !.active[k] = id]

(* The frame that is there is looked at no more: what it led to stays.      *)
MergesLate(fk, frame) ==
  \E id \in ToSet(fk.active) \ ToSet(fk.worklist) : SameKey(fk.frames[id], frame)

(* registerAtPosition: the frame is looked at before the next token, again  *)
(* when it was merged.                                                      *)
Register(fk, frame, r) ==
  LET new == Activate(fk, frame, r)
  IN  [new EXCEPT !.worklist = Append(@, Len(new.frames)), !.late = @ \/ MergesLate(fk, frame)]

(* The n frames from path down, bottom first, and the one below them. *)
Below(fk, path, n) ==
  LET up[k \in 0..n] == IF k = 0 THEN path ELSE fk.frames[up[k - 1]].parent
  IN  up[n]
Popped(fk, path, n) == [k \in 1..n |-> fk.frames[Below(fk, path, n - k)]]

(* A shift of the pending token waits for the next position; one of a       *)
(* recovered token does not.  A faulty one never waits.                     *)
ForkShiftInPlace(fk, path, to, tok, stays, ctx) ==
  Register(fk, [parent |-> path, state |-> to, value |-> Leaf(tok), ctx |-> ctx,
                span |-> RealSpan(tok), ran |-> fk.frames[path].ran], 0)
ForkShift(fk, path, to, tok, stays, ctx) ==
  LET frame == [parent |-> path, state |-> to, value |-> Leaf(tok), ctx |-> ctx,
                span |-> RealSpan(tok), ran |-> fk.frames[path].ran]
  IN  IF stays THEN Register(fk, frame, 0)
      ELSE [fk EXCEPT !.frames = Append(@, frame), !.shifted = Append(@, Len(fk.frames) + 1)]

(* The action runs before the goto is looked up. *)
ForkReduce(fk, path, r, ctx) ==
  LET n == Len(gram[r].rhs)
      kids == Popped(fk, path, n)
      below == Below(fk, path, n)
      to == goto[fk.frames[below].state][gram[r].lhs]
      acted == [fk EXCEPT !.contexts[ctx] = Append(@, r)]
      frame == [parent |-> below, state |-> to, value |-> RuleValue(r, kids), ctx |-> ctx,
                span |-> SpanOf(kids), ran |-> Append(fk.frames[path].ran, r)]
  IN  IF to = 0 THEN acted ELSE Register(acted, frame, r)

(* applyAction: what is neither a shift nor a reduce is taken for an accept. *)
ApplyAction(fk, path, e, tok, stays, ctx) ==
  CASE e.kind = "shift"  -> ForkShift(fk, path, e.to, tok, stays, ctx)
    [] e.kind = "reduce" -> ForkReduce(fk, path, e.rule, ctx)
    [] OTHER             -> [fk EXCEPT !.accepted = <<fk.frames[path].value>>]

(* forkCtx(path.ctx).  A faulty fork leaves the branches the path's own.    *)
KeepContext(fk, ctx) == [fk |-> fk, ctx |-> ctx]
CloneContext(fk, ctx) ==
  [fk |-> [fk EXCEPT !.contexts = Append(@, fk.contexts[ctx])], ctx |-> Len(fk.contexts) + 1]

(* Every branch of a conflict gets its own clone of the path's context. *)
Branch(fk, path, entries, tok, stays) ==
  LET after[k \in 0..Len(entries)] ==
        IF k = 0 THEN fk
        ELSE LET cloned == CloneContext(after[k - 1], fk.frames[path].ctx)
             IN  ApplyAction(cloned.fk, path, entries[k], tok, stays, cloned.ctx)
  IN  after[Len(entries)]

FollowEntry(fk, path, tok, stays) ==
  LET e == Entry(action[fk.frames[path].state], tok.type)
  IN  IF e.kind = "conflict" THEN Branch(fk, path, e.entries, tok, stays)
      ELSE ApplyAction(fk, path, e, tok, stays, fk.frames[path].ctx)
-----------------------------------------------------------------------------
outsideFork == <<actionTableVars, input, prefixMode, stuckAt, stuckCount>>

(* The flat stack becomes the first chain of frames. *)
ForkStart ==
  /\ mode = "fork"
  /\ mode' = "forking"
  /\ fork' = [NoFork EXCEPT
       !.frames = [k \in 1..Len(stack) |->
                     [parent |-> k - 1, state |-> stack[k].state, value |-> stack[k].value,
                      ctx |-> 1, span |-> stack[k].span, ran |-> <<>>]],
       !.active = <<Len(stack)>>,
       !.worklist = <<Len(stack)>>,
       !.contexts = <<(<<>>)>>]
  /\ KeepsToken
  /\ UNCHANGED <<stack, forkTok, result, outsideFork>>

Sweeping == mode = "forking" /\ fork.worklist # <<>> /\ fork.accepted = <<>>
Working == Sweeping /\ fork.work < MaxWork

(* The path whose turn it is. *)
Path == Head(fork.worklist)
Taken == [fork EXCEPT !.worklist = Tail(@), !.work = @ + 1]
Superseded == ~Contains(fork.active, Path)
PathRow == action[fork.frames[Path].state]
PathFits == Entry(PathRow, forkTok.type).kind \notin {"none", "error"}

StaysInFork == KeepsToken /\ UNCHANGED <<mode, stack, forkTok, result, outsideFork>>

(* Merged into another frame since it was listed: that one has its value.   *)
SkipSuperseded ==
  /\ Working /\ Superseded
  /\ fork' = Taken
  /\ StaysInFork

FollowPath ==
  /\ Working /\ ~Superseded /\ PathFits
  /\ fork' = FollowEntry(Taken, Path, forkTok, FALSE)
  /\ StaysInFork

(* The path needs another token; what it shifts then does not take it past  *)
(* the one that is pending ...                                              *)
RecoverPath ==
  /\ Working /\ ~Superseded /\ ~PathFits
  /\ fork.recoveries < MaxRecoveries
  /\ \E t \in RecoverTerms :
       /\ Entry(PathRow, t).kind \notin {"none", "error"}
       /\ fork' = FollowEntry([Taken EXCEPT !.recoveries = @ + 1], Path,
                              [type |-> t, at |-> 0], TRUE)
  /\ StaysInFork

(* ... or there is none, or no more recovery at this position: it dies out. *)
LosePath ==
  /\ Working /\ ~Superseded /\ ~PathFits
  /\ fork' = [Taken EXCEPT !.recoveries = @ + 1]
  /\ StaysInFork

(* "GLR fork exceeded ... total steps". *)
ForkExhausted ==
  /\ Sweeping /\ fork.work >= MaxWork
  /\ mode' = "failed"
  /\ KeepsToken
  /\ UNCHANGED <<fork, stack, forkTok, result, outsideFork>>

(* An accept ends the sweep, and runParser returns its value. *)
ForkAccepts ==
  /\ mode = "forking" /\ fork.accepted # <<>>
  /\ mode' = "accepted"
  /\ result' = [value |-> fork.accepted[1], consumed |-> offset - 1]
  /\ KeepsToken
  /\ UNCHANGED <<fork, stack, forkTok, outsideFork>>

Swept == mode = "forking" /\ fork.worklist = <<>> /\ fork.accepted = <<>>
NoneLeft == forkTok.type = EOF \/ fork.shifted = <<>>

(* No derivation got past the token: the SyntaxErrors. *)
ForkDies ==
  /\ Swept /\ NoneLeft
  /\ mode' = "failed"
  /\ KeepsToken
  /\ UNCHANGED <<fork, stack, forkTok, result, outsideFork>>

(* The frames that shifted become the active ones. *)
Survivors ==
  LET after[k \in 0..Len(fork.shifted)] ==
        IF k = 0 THEN [fork EXCEPT !.active = <<>>, !.shifted = <<>>, !.recoveries = 0]
        ELSE Activate(after[k - 1], fork.frames[fork.shifted[k]], 0)
  IN  after[Len(fork.shifted)]

(* The rows of several derivations joined: the last to have a terminal says *)
(* what it is to the lexer.                                                 *)
UnionRow(fk) ==
  [t \in TermsEOF |->
     LET having == {k \in 1..Len(fk.active) :
                      action[fk.frames[fk.active[k]].state][t] # NoEntry}
     IN  IF having = {} THEN NoEntry
         ELSE action[fk.frames[fk.active[CHOOSE k \in having : \A j \in having : j <= k]].state][t]]

(* Several derivations left: the next token may be one for any of them. *)
ForkAdvance ==
  /\ Swept /\ ~NoneLeft
  /\ Len(Survivors.active) > 1
  /\ fork' = [Survivors EXCEPT !.worklist = Survivors.active]
  /\ LET row == UnionRow(Survivors)
     IN  /\ forkTok' = Lexed(row).tok
         /\ offset' = Lexed(row).next
         /\ ignored' = ignored \cup (offset..(NextStop(row) - 1))
  /\ UNCHANGED <<mode, stack, realTok, result, outsideFork>>

(* The chain of frames down from one, bottom first. *)
Chain(fk, path) ==
  LET Depth[id \in 0..Len(fk.frames)] == IF id = 0 THEN 0 ELSE 1 + Depth[fk.frames[id].parent]
  IN  Popped(fk, path, Depth[path])

(* One derivation left: its frames become the stack again, and runParser    *)
(* lexes its next lookahead.                                                *)
ForkSettles ==
  /\ Swept /\ ~NoneLeft
  /\ Len(Survivors.active) = 1
  /\ LET chain == Chain(Survivors, Survivors.active[1])
     IN  /\ stack' = [k \in 1..Len(chain) |->
              [state |-> chain[k].state, value |-> chain[k].value, span |-> chain[k].span]]
         /\ Advances(action[Top(chain).state])
  /\ mode' = "parse"
  /\ fork' = NoFork
  /\ forkTok' = NoTok
  /\ UNCHANGED <<result, outsideFork>>

ForkNext == \/ ForkStart \/ SkipSuperseded \/ FollowPath \/ RecoverPath \/ LosePath
            \/ ForkExhausted \/ ForkAccepts \/ ForkDies \/ ForkAdvance \/ ForkSettles

GlrForkNext == (LRParserNext /\ UNCHANGED fork) \/ ForkNext
glrForkVars == <<lrParserVars, fork>>

(* A call runs on the caller's stack until it returns or throws. *)
GlrForkSpec == GlrForkInit /\ [][GlrForkNext]_glrForkVars /\ WF_glrForkVars(GlrForkNext)
-----------------------------------------------------------------------------
FrameOK(id) ==
  LET f == fork.frames[id]
  IN  /\ f.parent \in 0..(id - 1)
      /\ f.state \in 1..Len(states)
      /\ f.ctx \in 1..Len(fork.contexts)

(* The frames form chains that end in the bottom frame, and the lists and   *)
(* contexts refer to frames and contexts that were made.                    *)
GlrForkTypeOK ==
  /\ \A id \in 1..Len(fork.frames) : FrameOK(id)
  /\ ToSet(fork.active) \cup ToSet(fork.worklist) \cup ToSet(fork.shifted)
       \subseteq 1..Len(fork.frames)
  /\ Len(fork.accepted) <= 1
  /\ fork.work \in 0..MaxWork

SpanBelow(id) == SpanOf(Chain(fork, id))
Awaited == IF forkTok.at = 0 THEN realTok ELSE forkTok

(* One live frame for a (state, parent), so the derivations are really      *)
(* shared; the lexemes below each frame alive are those up to the pending   *)
(* token, and below each that has shifted it those the lexer has passed:    *)
(* derivations run in step, none is ahead of or behind the lexer they share *)
(* - as long as what recovery inserts starts no fork.                       *)
DerivationsRunInStep ==
  mode = "forking" /\ NoForksOn(RecoverTerms) =>
    /\ \A j, k \in 1..Len(fork.active) :
         j # k => ~SameKey(fork.frames[fork.active[j]], fork.frames[fork.active[k]])
    /\ \A j \in 1..Len(fork.active) :
         ToSet(SpanBelow(fork.active[j])) = (1..(Awaited.at - 1)) \ ignored
    /\ \A j \in 1..Len(fork.shifted) :
         ToSet(SpanBelow(fork.shifted[j])) = (1..(offset - 1)) \ ignored

(* The sentences the text begins with that end behind what was consumed.    *)
LongerSentences == {p \in Phrases : p[1] = Start /\ p[2] = 0 /\ p[3] > result.consumed}

(* Where every lexeme is one terminal and no cell has lost an alternative,  *)
(* parse refuses no sentence of the grammar, and parsePrefix, which stops   *)
(* at a lookahead that does not fit, stops at none that a longer sentence   *)
(* would go on with.  (Recovery could turn any text into a sentence:        *)
(* RecoverTerms is empty where this is checked.)                            *)
AcceptsEverySentence ==
  /\ mode \in Over \ {"accepted"} /\ ~prefixMode /\ NoLosses => ~IsSentence(Len(input))
  /\ mode = "accepted" /\ prefixMode /\ result.consumed < Len(input) /\ NoLosses => LongerSentences = {}

(* forkCtx: "clone ctx per GLR fork branch so dying branches' action        *)
(* mutations can't leak": the context of a live derivation has seen the     *)
(* actions of that derivation, each once, and no other's - as long as no    *)
(* frame is merged into after it was followed: what it led to goes on with  *)
(* the context that the merged frame goes on with too.                      *)
ContextsStayApart ==
  mode = "forking" /\ ~fork.late =>
    \A id \in (ToSet(fork.active) \cap ToSet(fork.worklist)) \cup ToSet(fork.shifted) :
      LET f == fork.frames[id] IN fork.contexts[f.ctx] = f.ran

(* Every call returns or throws, however derivations multiply and whatever  *)
(* the recover callback answers.                                            *)
CallsEnd == mode = "lex" ~> mode \in Over
=============================================================================
