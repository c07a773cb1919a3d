------------------------------- MODULE RegExp --------------------------------
(***************************************************************************)
(* The regular expressions of the runtime library a compiled TypeScript    *)
(* program carries with it (examples/TS/lib/regexp.ts), and the String     *)
(* methods that drive them (lib/string.ts).                                *)
(*                                                                         *)
(* A pattern is its syntax tree.  RegExpCompiler is the operator Emit: the *)
(* tree to a flat program, group numbers handed out as groups are emitted, *)
(* a quantified atom emitted once per copy.  The matcher is a machine of   *)
(* one action per opcode over a backtrack stack of whole register files.   *)
(* A host calls exec, replace and split on one object; exec leaves its     *)
(* position in lastIndex.                                                  *)
(*                                                                         *)
(* An address is an index of an instruction, not of a word.  A character   *)
(* is a one-letter string, a class the set of the characters of its        *)
(* ranges, a text a sequence of characters.                                *)
(***************************************************************************)
EXTENDS Integers, Sequences, SequencesExt, FiniteSets

CONSTANTS
    Patterns,       \* the syntax trees compiled
    StackWords,     \* words of the backtrack stack: 64
    MaxLookaheads,  \* entries of laBase and laSp: 16
    MaxCalls        \* calls a host makes on one object

ASSUME RegExpAssumption ==
    /\ StackWords \in Nat /\ MaxLookaheads \in Nat \ {0} /\ MaxCalls \in Nat

VARIABLES
    re,     \* the object: source, global, sticky, icase, multiline, lastIndex
    vm,     \* the matcher: status, pc, sp, groups, stack, la, depth
    job     \* the String or RegExp method being run

rvars == <<re, vm, job>>

-----------------------------------------------------------------------------
(* Characters.                                                             *)

Upper == "a" :> "A" @@ "b" :> "B"
Lower == "A" :> "a" @@ "B" :> "b"

isWordChar(c) == c \in {"a", "b", "A", "B", "1", "_"}
IsSpace(c) == c \in {" ", "\n", "\r", "\t"}

swapCase(c) ==
    IF c \in DOMAIN Upper THEN Upper[c] ELSE IF c \in DOMAIN Lower THEN Lower[c] ELSE c

\* charEq and classMatch, for a flag ignoreCase.
charEq(a, b, icase) == a = b \/ (icase /\ swapCase(a) = b)
classMatch(c, i, icase) ==
    (c \in i.set \/ (icase /\ swapCase(c) \in i.set)) # i.negate

-----------------------------------------------------------------------------
(* The compiler.  Emit returns the code of a tree placed at address `at`   *)
(* when `g` is the next group number, and the number after it.             *)

Instr(op, x, y) == [op |-> op, x |-> x, y |-> y]
Split(first, second) == Instr("SPLIT", first, second)
Emitted(code, next) == [code |-> code, next |-> next]

\* The branch tried first is the loop's body, or its exit when lazy.
Choice(enter, exit, lazy) == IF lazy THEN Split(exit, enter) ELSE Split(enter, exit)

emitOptional(e, at, lazy) ==
    <<Choice(at + 1, at + 1 + Len(e.code), lazy)>> \o e.code
emitPlusLoop(e, at, lazy) ==
    Append(e.code, Choice(at, at + Len(e.code) + 1, lazy))
emitStarLoop(e, at, lazy) ==
    <<Choice(at + 1, at + 2 + Len(e.code), lazy)>> \o e.code \o <<Instr("JMP", at, 0)>>

\* A lookahead: ENTER, the body, EXIT, FAIL.  With the body's code at + 1, EXIT
\* follows it, FAIL is next, and both continue after FAIL.
Lookahead(e, at, negate) ==
    LET exit == at + 1 + Len(e.code)
    IN  <<Instr("LA_ENTER", exit + 1, 0)>> \o e.code
            \o <<Instr("LA_EXIT", negate, exit + 2), Instr("LA_FAIL", negate, exit + 2)>>

RECURSIVE Emit(_, _, _), Copies(_, _, _, _), Optionals(_, _, _, _)

\* parseTerm's {n,m}: `count` copies of an atom in a row, each numbering its groups
\* from the same base.
Copies(n, at, g, count) ==
    IF count = 0 THEN Emitted(<<>>, g)
    ELSE LET first == Emit(n.body, at, g)
             rest == Copies(n, at + Len(first.code), g, count - 1)
         IN  Emitted(first.code \o rest.code, first.next)
Optionals(n, at, g, count) ==
    IF count = 0 THEN Emitted(<<>>, g)
    ELSE LET e == Emit(n.body, at + 1, g)
             first == emitOptional(e, at, n.lazy)
             rest == Optionals(n, at + Len(first), g, count - 1)
         IN  Emitted(first \o rest.code, e.next)

Then(a, b) == Emitted(a.code \o b.code, b.next)

parseTerm(n, at, g) ==
    LET fixed == Copies(n, at, g, n.min)
        here  == at + Len(fixed.code)
    IN  CASE n.quant = "?" -> Optionals(n, at, g, 1)
          [] n.quant = "+" ->
                LET e == Emit(n.body, at, g) IN Emitted(emitPlusLoop(e, at, n.lazy), e.next)
          [] n.quant \in {"*", "{"} /\ n.max = -1 ->
                LET e == Emit(n.body, here + 1, g)
                IN  Emitted(fixed.code \o emitStarLoop(e, here, n.lazy), e.next)
          [] OTHER ->
                LET rest == Optionals(n, here, g, n.max - n.min)
                IN  Emitted(fixed.code \o rest.code,
                            IF n.max > n.min THEN rest.next ELSE fixed.next)

Emit(n, at, g) ==
    CASE n.kind = "empty" -> Emitted(<<>>, g)
      [] n.kind = "atom" -> Emitted(<<n.instr>>, g)
      [] n.kind = "cat" ->
            LET a == Emit(n.left, at, g) IN Then(a, Emit(n.right, at + Len(a.code), a.next))
      [] n.kind = "alt" ->
            LET a == Emit(n.left, at + 1, g)
                second == at + 2 + Len(a.code)
                b == Emit(n.right, second, a.next)
            IN  Emitted(<<Split(at + 1, second)>> \o a.code
                            \o <<Instr("JMP", second + Len(b.code), 0)>> \o b.code, b.next)
      [] n.kind = "group" ->
            LET e == Emit(n.body, at + 1, g + 1)
            IN  Emitted(<<Instr("SAVE", 2 * g, 0)>> \o e.code \o <<Instr("SAVE", 2 * g + 1, 0)>>, e.next)
      [] n.kind = "look" ->
            LET e == Emit(n.body, at + 1, g) IN Emitted(Lookahead(e, at, n.negate), e.next)
      [] n.kind = "quant" -> parseTerm(n, at, g)

\* run: the whole match is group 0; a pattern the compiler rejects becomes a
\* program that only fails.
Compile(n) ==
    IF n.kind = "rejected"
    THEN [code |-> <<Instr("FAIL", 0, 0)>>, groupCount |-> 0]
    ELSE LET e == Emit(n, 2, 1)
         IN  [code |-> <<Instr("SAVE", 0, 0)>> \o e.code
                           \o <<Instr("SAVE", 1, 0), Instr("MATCH", 0, 0)>>,
              groupCount |-> e.next - 1]

Compiled == [p \in Patterns |-> Compile(p)]

-----------------------------------------------------------------------------
(* The matcher.  A frame is a position in the program and in the text and  *)
(* every register; registers 2g and 2g + 1 delimit group g, -1 when unset. *)

Program == Compiled[re.source].code
groupCount == Compiled[re.source].groupCount
Registers == 0 .. 2 * groupCount + 1
frameWidth == 2 + Cardinality(Registers)

Frame(pc, sp) == [pc |-> pc, sp |-> sp, groups |-> vm.groups]
Fits == (Len(vm.stack) + 1) * frameWidth <= StackWords

\* A new run of runVM at one position of the text.
StartVM(start) ==
    [status |-> "run", pc |-> 1, sp |-> start, groups |-> [r \in Registers |-> -1],
     stack |-> <<>>, la |-> [d \in 0 .. MaxLookaheads - 1 |-> [base |-> 0, sp |-> 0]], depth |-> 0]

Here == Program[vm.pc]
Text == job.text
At(sp) == Text[sp + 1]
Trap == vm' = [vm EXCEPT !.status = "trap"]
Goes(pc, sp) == vm' = [vm EXCEPT !.pc = pc, !.sp = sp]

\* What an opcode that did not hold comes to, with `stack` the frames left: popFrame
\* and resume there, or give up.
BackTo(stack, depth) ==
    vm' = IF stack = <<>>
          THEN [vm EXCEPT !.status = "no", !.stack = <<>>, !.depth = depth]
          ELSE [vm EXCEPT !.pc = Last(stack).pc, !.sp = Last(stack).sp,
                          !.groups = Last(stack).groups, !.stack = Front(stack), !.depth = depth]
Backtrack == BackTo(vm.stack, vm.depth)

\* An opcode that consumes one character, or none, when its condition holds.
Consumes(holds) == IF holds THEN Goes(vm.pc + 1, vm.sp + 1) ELSE Backtrack
Holds(condition) == IF condition THEN Goes(vm.pc + 1, vm.sp) ELSE Backtrack

Runs(ops) == job.at = "scan" /\ vm.status = "run" /\ Here.op \in ops /\ UNCHANGED <<re, job>>
HasNext == vm.sp < Len(Text)

Match == Runs({"MATCH"}) /\ vm' = [vm EXCEPT !.status = "yes"]
Fail == Runs({"FAIL"}) /\ Backtrack
Char == Runs({"CHAR"}) /\ Consumes(HasNext /\ charEq(At(vm.sp), Here.char, re.icase))
AnyChar == Runs({"ANY"}) /\ Consumes(HasNext /\ At(vm.sp) \notin {"\n", "\r"})
Class == Runs({"CLASS"}) /\ Consumes(HasNext /\ classMatch(At(vm.sp), Here, re.icase))
Space ==
    /\ Runs({"SPACE", "NSPACE"})
    /\ Consumes(HasNext /\ (IsSpace(At(vm.sp)) <=> Here.op = "SPACE"))
Save ==
    /\ Runs({"SAVE"})
    /\ vm' = [vm EXCEPT !.groups[Here.x] = vm.sp, !.pc = vm.pc + 1]
Jump == Runs({"JMP"}) /\ Goes(Here.x, vm.sp)
TakeSplit ==
    /\ Runs({"SPLIT"})
    /\ IF Fits
       THEN vm' = [vm EXCEPT !.stack = Append(@, Frame(Here.y, vm.sp)), !.pc = Here.x]
       ELSE Trap
BOL ==
    /\ Runs({"BOL"})
    /\ Holds(vm.sp = 0 \/ (re.multiline /\ At(vm.sp - 1) = "\n"))
EOL ==
    /\ Runs({"EOL"})
    /\ Holds(vm.sp = Len(Text) \/ (re.multiline /\ At(vm.sp) = "\n"))
WordBoundary ==
    /\ Runs({"WORDB", "NWORDB"})
    /\ LET before == vm.sp > 0 /\ isWordChar(At(vm.sp - 1))
           after == HasNext /\ isWordChar(At(vm.sp))
       IN  Holds((Here.op = "WORDB") <=> (before # after))

\* The text of a group again.  Only the register of its start is looked at to see
\* whether the group has one.
BackRef ==
    /\ Runs({"BACKREF"})
    /\ IF Here.x > groupCount THEN Trap
       ELSE LET gs == vm.groups[2 * Here.x]
                len == vm.groups[2 * Here.x + 1] - gs
            IN  IF gs = -1 THEN Goes(vm.pc + 1, vm.sp)
                ELSE IF \A j \in 0 .. len - 1 :
                            vm.sp + j < Len(Text) /\ charEq(At(vm.sp + j), At(gs + j), re.icase)
                THEN Goes(vm.pc + 1, vm.sp + len)
                ELSE Backtrack

\* A lookahead pushes a frame that lands on its FAIL when the body has no way left,
\* and notes the depth of the stack and the position.
EnterLookahead ==
    /\ Runs({"LA_ENTER"})
    /\ IF Fits /\ vm.depth \in 0 .. MaxLookaheads - 1
       THEN vm' = [vm EXCEPT !.stack = Append(@, Frame(Here.x, vm.sp)),
                             !.la[vm.depth] = [base |-> Len(vm.stack) + 1, sp |-> vm.sp],
                             !.depth = vm.depth + 1,
                             !.pc = vm.pc + 1]
       ELSE Trap

\* A mutation: what the body could still try is left to later backtracking.
KeepsChoices ==
    /\ Runs({"LA_EXIT"})
    /\ IF Here.x THEN Backtrack
       ELSE vm' = [vm EXCEPT !.sp = vm.la[vm.depth - 1].sp, !.pc = Here.y, !.depth = vm.depth - 1]

\* The body matched.  A positive assertion drops what the body left on the stack and
\* goes on, its own frame still below; a negative one drops that too and fails.
ExitLookahead ==
    /\ Runs({"LA_EXIT"})
    /\ IF vm.depth - 1 \notin 0 .. MaxLookaheads - 1 THEN Trap
       ELSE LET saved == vm.la[vm.depth - 1]
            IN  IF Here.x
                THEN BackTo(SubSeq(vm.stack, 1, saved.base - 1), vm.depth - 1)
                ELSE vm' = [vm EXCEPT !.stack = SubSeq(vm.stack, 1, saved.base),
                                      !.sp = saved.sp, !.pc = Here.y, !.depth = vm.depth - 1]

\* The frame of ENTER was popped.
FailLookahead ==
    /\ Runs({"LA_FAIL"})
    /\ IF Here.x
       THEN vm' = [vm EXCEPT !.pc = Here.y, !.depth = vm.depth - 1]
       ELSE BackTo(vm.stack, vm.depth - 1)

VMStep ==
    \/ Match \/ Fail \/ Char \/ AnyChar \/ Class \/ Space \/ Save \/ Jump \/ TakeSplit
    \/ BOL \/ EOL \/ WordBoundary \/ BackRef
    \/ EnterLookahead \/ ExitLookahead \/ FailLookahead

-----------------------------------------------------------------------------
(* The methods.  job.at is "idle" before the first call, "scan" while the  *)
(* matcher runs at job.pos, "done" when the call has returned job.result.  *)

None == <<>>
tracks == re.global \/ re.sticky

\* buildMatch: the position of every group, copied out of the registers.
buildMatch(groups) == [g \in 0 .. groupCount |-> <<groups[2 * g], groups[2 * g + 1]>>]
index(m) == m[0][1]
groupEnd(m, g) == m[g][2]
Slice(text, from, to) == SubSeq(text, from + 1, to)
group(m, g) == IF m[g][1] = -1 THEN <<>> ELSE Slice(Text, m[g][1], m[g][2])

\* expandReplacement: a template is a sequence of characters and $ escapes; a group
\* the pattern does not have is left as it was written.
expandReplacement(template, m) ==
    LET Piece(t) == CASE t.kind = "text" -> <<t.char>>
                      [] t.kind = "whole" -> group(m, 0)
                      [] t.kind = "group" /\ t.g \in DOMAIN m -> group(m, t.g)
                      [] OTHER -> <<"$", ToString(t.g)>>
    IN  FlattenSeq([i \in DOMAIN template |-> Piece(template[i])])

\* What a function is called with: the match, the groups, undefined where one took no
\* part, and where it starts.  Its answer is what it was called with.
replacement(m) ==
    LET Arg(g) == <<",">> \o (IF m[g][1] = -1 THEN <<"undefined">> ELSE group(m, g))
    IN  <<"(">> \o group(m, 0) \o FlattenSeq([g \in 1 .. groupCount |-> Arg(g)])
            \o <<",", ToString(index(m)), ")">>

Piece(call, m) ==
    IF call.by = "template" THEN expandReplacement(call.template, m) ELSE replacement(m)

\* exec from lastIndex: past the end it only resets lastIndex.
Start(i) == IF tracks THEN i ELSE 0

\* One call.  `from` is lastIndex when it was made; replace then sets it to 0.
Calls(call) ==
    /\ job.at \in {"idle", "done"} /\ job.made < MaxCalls
    /\ LET here == IF call.by \in {"exec", "split"} THEN re.lastIndex ELSE 0
           start == IF call.by = "split" THEN 0 ELSE Start(here)
           new == [at |-> "scan", call |-> call, text |-> call.text, from |-> re.lastIndex, pos |-> start,
                   last |-> 0, q |-> 0, result |-> <<>>, made |-> job.made + 1]
           size == Len(call.text)
       IN  IF start > size
           THEN /\ job' = [new EXCEPT !.at = "done", !.result = None]
                /\ re' = [re EXCEPT !.lastIndex = 0]
                /\ UNCHANGED vm
           ELSE IF call.by = "split" /\ call.limit = 0
           THEN job' = [new EXCEPT !.at = "done"] /\ UNCHANGED <<re, vm>>
           ELSE /\ job' = new
                /\ re' = [re EXCEPT !.lastIndex = here]
                /\ vm' = StartVM(start)

\* execFrom tries the next position; a sticky exec does not.
NextPosition ==
    /\ job.at = "scan" /\ vm.status = "no"
    /\ job.pos < Len(Text) /\ (job.call.by = "split" \/ ~re.sticky)
    /\ job' = [job EXCEPT !.pos = @ + 1]
    /\ vm' = StartVM(job.pos + 1)
    /\ UNCHANGED re

Exhausted == job.at = "scan" /\ vm.status = "no" /\ (job.pos = Len(Text) \/ (job.call.by # "split" /\ re.sticky))
Found == job.at = "scan" /\ vm.status = "yes"
TheMatch == buildMatch(vm.groups)

\* lastIndex after an exec: one past an empty match.
Bumped(m) == IF groupEnd(m, 0) > index(m) THEN groupEnd(m, 0) ELSE groupEnd(m, 0) + 1
Tracked(i) == re' = IF tracks THEN [re EXCEPT !.lastIndex = i] ELSE re
Returns(result) == job' = [job EXCEPT !.at = "done", !.result = result]

ExecFinds ==
    /\ Found /\ job.call.by = "exec"
    /\ Tracked(Bumped(TheMatch)) /\ Returns(TheMatch) /\ UNCHANGED vm
ExecFails ==
    /\ Exhausted /\ job.call.by = "exec"
    /\ Tracked(0) /\ Returns(None) /\ UNCHANGED vm

\* replace appends the text before the match and the replacement, and execs again
\* while the object is global.  The exec that starts past the end answers null.
Replaces == job.call.by \in {"template", "function"}
ReplaceFinds ==
    /\ Found /\ Replaces
    /\ LET m == TheMatch
           built == job.result \o Slice(Text, job.last, index(m)) \o Piece(job.call, m)
           after == [job EXCEPT !.result = built, !.last = groupEnd(m, 0), !.pos = Bumped(m)]
           ended == [after EXCEPT !.at = "done", !.result = built \o Slice(Text, groupEnd(m, 0), Len(Text))]
       IN  IF ~re.global
           THEN job' = ended /\ Tracked(Bumped(m)) /\ UNCHANGED vm
           ELSE IF Bumped(m) > Len(Text)
           THEN job' = ended /\ Tracked(0) /\ UNCHANGED vm
           ELSE job' = after /\ Tracked(Bumped(m)) /\ vm' = StartVM(Bumped(m))
ReplaceFails ==
    /\ Exhausted /\ Replaces
    /\ Tracked(0) /\ Returns(job.result \o Slice(Text, job.last, Len(Text))) /\ UNCHANGED vm

\* split asks execFrom for the next match but accepts it only at its cursor q, and not
\* when it is empty where the last piece ended.
SplitAt(q, p, pieces) ==
    IF q < Len(Text)
    THEN /\ job' = [job EXCEPT !.q = q, !.pos = q, !.last = p, !.result = pieces]
         /\ vm' = StartVM(q)
    ELSE Returns(Append(pieces, Slice(Text, p, Len(Text)))) /\ UNCHANGED vm
SplitFinds ==
    /\ Found /\ job.call.by = "split" /\ UNCHANGED re
    /\ LET m == TheMatch
           e == groupEnd(m, 0)
           pieces == Append(job.result, Slice(Text, job.last, job.q))
       IN  IF Text = <<>> THEN Returns(<<>>) /\ UNCHANGED vm
           ELSE IF index(m) # job.q \/ e = job.last THEN SplitAt(job.q + 1, job.last, job.result)
           ELSE IF Len(pieces) >= job.call.limit THEN Returns(pieces) /\ UNCHANGED vm
           ELSE SplitAt(e, e, pieces)
\* A mutation: the cursor stays where nothing was found.
SplitStays ==
    /\ Exhausted /\ job.call.by = "split" /\ UNCHANGED re
    /\ SplitAt(job.q, job.last, job.result)
SplitFails ==
    /\ Exhausted /\ job.call.by = "split" /\ UNCHANGED re
    /\ SplitAt(job.q + 1, job.last, job.result)

MethodStep ==
    \/ NextPosition \/ ExecFinds \/ ExecFails \/ ReplaceFinds \/ ReplaceFails
    \/ SplitFinds \/ SplitFails

RegExpInit(source, flags) ==
    /\ re = [source |-> source, global |-> "g" \in flags, sticky |-> "y" \in flags,
             icase |-> "i" \in flags, multiline |-> "m" \in flags, lastIndex |-> 0]
    /\ vm = [status |-> "no"]
    /\ job = [at |-> "idle", made |-> 0]

-----------------------------------------------------------------------------
(***************************************************************************)
(* What a regular expression and the String methods mean in JavaScript,    *)
(* from the tree of the pattern alone: every way it can match from a       *)
(* position, in the order of preference, and from that what exec, replace  *)
(* and split answer.  Nothing here knows of a program, a stack or a        *)
(* register.  One thing is the library's own word and not JavaScript's:    *)
(* the pieces of split come without the captures of the separator between  *)
(* them (string.ts:269-270).                                               *)
(***************************************************************************)

-----------------------------------------------------------------------------
(* The ways a tree matches, the preferred first.                           *)

Canonical(c) == IF re.icase /\ c \in DOMAIN Lower THEN Lower[c] ELSE c
SameChar(c, d) == Canonical(c) = Canonical(d)
LineTerminators == {"\n", "\r"}
Unset == <<-1, -1>>
Way(sp, caps) == [sp |-> sp, caps |-> caps]
If(condition, way) == IF condition THEN <<way>> ELSE <<>>
Boundary(sp) ==
    (sp > 0 /\ isWordChar(At(sp - 1))) # (sp < Len(Text) /\ isWordChar(At(sp)))
Taking(holds(_), w) == If(w.sp < Len(Text) /\ holds(At(w.sp)), Way(w.sp + 1, w.caps))

AtomWays(i, w) ==
    CASE i.op = "CHAR" -> Taking(LAMBDA c : SameChar(c, i.char), w)
      [] i.op = "ANY" -> Taking(LAMBDA c : c \notin LineTerminators, w)
      [] i.op = "CLASS" -> Taking(LAMBDA c : (\E d \in i.set : SameChar(c, d)) # i.negate, w)
      [] i.op = "SPACE" -> Taking(LAMBDA c : IsSpace(c), w)
      [] i.op = "NSPACE" -> Taking(LAMBDA c : ~IsSpace(c), w)
      [] i.op = "BOL" -> If(w.sp = 0 \/ (re.multiline /\ At(w.sp - 1) \in LineTerminators), w)
      [] i.op = "EOL" -> If(w.sp = Len(Text) \/ (re.multiline /\ At(w.sp) \in LineTerminators), w)
      [] i.op = "WORDB" -> If(Boundary(w.sp), w)
      [] i.op = "NWORDB" -> If(~Boundary(w.sp), w)
      [] i.op = "BACKREF" ->
            IF w.caps[i.x] = Unset THEN <<w>>
            ELSE LET again == Slice(Text, w.caps[i.x][1], w.caps[i.x][2])
                     here == Slice(Text, w.sp, w.sp + Len(again))
                 IN  If(/\ w.sp + Len(again) <= Len(Text)
                        /\ \A j \in DOMAIN again : SameChar(here[j], again[j]),
                        Way(w.sp + Len(again), w.caps))

RECURSIVE GroupsIn(_)
GroupsIn(n) ==
    CASE n.kind \in {"empty", "atom", "rejected"} -> {}
      [] n.kind \in {"cat", "alt"} -> GroupsIn(n.left) \cup GroupsIn(n.right)
      [] n.kind = "group" -> {n.g} \cup GroupsIn(n.body)
      [] n.kind \in {"look", "quant"} -> GroupsIn(n.body)

\* A further round forgets what its groups held; an optional round that takes nothing
\* of the text is no round.
RECURSIVE Ways(_, _), Rounds(_, _, _)
Rounds(n, done, w) ==
    LET fresh == Way(w.sp, [g \in DOMAIN w.caps |-> IF g \in GroupsIn(n.body) THEN Unset ELSE w.caps[g]])
        rounds == SelectSeq(Ways(n.body, fresh), LAMBDA v : done < n.min \/ v.sp > w.sp)
        more == IF done = n.max THEN <<>>
                ELSE FlattenSeq([i \in DOMAIN rounds |-> Rounds(n, done + 1, rounds[i])])
    IN  IF done < n.min THEN more ELSE IF n.lazy THEN <<w>> \o more ELSE more \o <<w>>
Ways(n, w) ==
    CASE n.kind = "empty" -> <<w>>
      [] n.kind = "rejected" -> <<>>
      [] n.kind = "atom" -> AtomWays(n.instr, w)
      [] n.kind = "cat" ->
            LET firsts == Ways(n.left, w)
            IN  FlattenSeq([i \in DOMAIN firsts |-> Ways(n.right, firsts[i])])
      [] n.kind = "alt" -> Ways(n.left, w) \o Ways(n.right, w)
      [] n.kind = "group" ->
            LET bodies == Ways(n.body, w)
            IN  [i \in DOMAIN bodies |->
                    Way(bodies[i].sp, [bodies[i].caps EXCEPT ![n.g] = <<w.sp, bodies[i].sp>>])]
      [] n.kind = "look" ->
            LET bodies == Ways(n.body, w)
            IN  IF n.negate THEN If(bodies = <<>>, w)
                ELSE IF bodies = <<>> THEN <<>> ELSE <<Way(w.sp, bodies[1].caps)>>
      [] n.kind = "quant" -> Rounds(n, 0, w)

-----------------------------------------------------------------------------
(* What the methods answer.                                                *)

groupTotal == Cardinality(GroupsIn(re.source))
WaysAt(p) == Ways(re.source, Way(p, [g \in 1 .. groupTotal |-> Unset]))

\* The match at position p or None, and the first from p on.
MatchAt(p) ==
    LET ways == WaysAt(p)
    IN  IF ways = <<>> THEN None
        ELSE [g \in 0 .. groupTotal |-> IF g = 0 THEN <<p, ways[1].sp>> ELSE ways[1].caps[g]]
FirstFrom(p) ==
    LET found == {i \in p .. Len(Text) : WaysAt(i) # <<>>}
    IN  IF found = {} THEN None ELSE MatchAt(CHOOSE i \in found : \A j \in found : i <= j)
FindFrom(p) == IF p > Len(Text) THEN None ELSE IF re.sticky THEN MatchAt(p) ELSE FirstFrom(p)

\* The matches a global object finds one after another: after an empty one the search
\* goes on one character further.
NextAfter(m) == IF m[0][2] = m[0][1] THEN m[0][2] + 1 ELSE m[0][2]
RECURSIVE MatchesFrom(_)
MatchesFrom(p) ==
    LET m == FindFrom(p) IN IF m = None THEN <<>> ELSE <<m>> \o MatchesFrom(NextAfter(m))

Replaced(matches) ==
    LET Ended(i) == IF i = 0 THEN 0 ELSE matches[i][0][2]
    IN  FlattenSeq([i \in DOMAIN matches |->
            Slice(Text, Ended(i - 1), matches[i][0][1]) \o Piece(job.call, matches[i])])
            \o Slice(Text, Ended(Len(matches)), Len(Text))

\* The cuts of split: the first place from q on where the separator matches and does not
\* end where the last piece ended.  What its groups captured is not put in between.
RECURSIVE Pieces(_)
Pieces(p) ==
    LET Cuts(q) == MatchAt(q) # None /\ MatchAt(q)[0][2] # p
        cuts == {q \in p .. Len(Text) - 1 : Cuts(q)}
        q == CHOOSE i \in cuts : \A j \in cuts : i <= j
    IN  IF cuts = {} THEN <<Slice(Text, p, Len(Text))>>
        ELSE <<Slice(Text, p, q)>> \o Pieces(MatchAt(q)[0][2])
SplitMeant ==
    LET all == IF Text = <<>> /\ MatchAt(0) # None THEN <<>> ELSE Pieces(0)
    IN  IF job.call.limit < Len(all) THEN SubSeq(all, 1, job.call.limit) ELSE all

\* A global replace starts from 0, any other where the object stands.
Meant ==
    CASE job.call.by = "exec" -> FindFrom(Start(job.from))
      [] job.call.by = "split" -> SplitMeant
      [] Replaces ->
            LET first == FindFrom(Start(job.from))
            IN  Replaced(IF re.global THEN MatchesFrom(0) ELSE IF first = None THEN <<>> ELSE <<first>>)

\* Where the object is left: after what was found, and at 0 when nothing was.
LastIndexMeant ==
    LET m == FindFrom(Start(job.from))
    IN  IF ~tracks \/ job.call.by = "split" THEN job.from
        ELSE IF m = None \/ (Replaces /\ re.global) THEN 0
        ELSE m[0][2]

-----------------------------------------------------------------------------
(* The patterns the library answers for as JavaScript does.                *)

RECURSIVE Nullable(_), AlwaysSets(_), Single(_)
Nullable(n) ==
    CASE n.kind = "empty" \/ n.kind = "look" -> TRUE
      [] n.kind = "atom" -> n.instr.op \in {"BOL", "EOL", "WORDB", "NWORDB", "BACKREF"}
      [] n.kind = "cat" -> Nullable(n.left) /\ Nullable(n.right)
      [] n.kind = "alt" -> Nullable(n.left) \/ Nullable(n.right)
      [] n.kind = "group" -> Nullable(n.body)
      [] n.kind = "quant" -> n.min = 0 \/ Nullable(n.body)
\* Every match of n sets every group in it; n can match in one way only.
AlwaysSets(n) ==
    CASE n.kind \in {"empty", "atom"} -> TRUE
      [] n.kind = "cat" -> AlwaysSets(n.left) /\ AlwaysSets(n.right)
      [] n.kind \in {"alt", "look"} -> GroupsIn(n) = {}
      [] n.kind = "group" -> AlwaysSets(n.body)
      [] n.kind = "quant" -> GroupsIn(n.body) = {} \/ (n.min > 0 /\ AlwaysSets(n.body))
Single(n) ==
    CASE n.kind \in {"empty", "atom", "look"} -> TRUE
      [] n.kind \in {"alt", "quant"} -> FALSE
      [] n.kind = "cat" -> Single(n.left) /\ Single(n.right)
      [] n.kind = "group" -> Single(n.body)

\* A loop whose round may take nothing is run for ever or until the stack is full.
RECURSIVE Progressing(_)
Progressing(n) ==
    CASE n.kind \in {"empty", "atom", "rejected"} -> TRUE
      [] n.kind \in {"cat", "alt"} -> Progressing(n.left) /\ Progressing(n.right)
      [] n.kind \in {"group", "look"} -> Progressing(n.body)
      [] n.kind = "quant" -> Progressing(n.body) /\ (n.max = -1 => ~Nullable(n.body))

\* A positive lookahead that has held is taken for failed when what follows it fails, and
\* the count of open ones is then wrong.  That does not matter where it ends the pattern
\* or body (more: something follows it), or where no choice made before it can lead to
\* an assertion again (open: there is one).
RECURSIVE Settles(_, _, _)
Settles(n, open, more) ==
    CASE n.kind \in {"empty", "atom", "rejected"} -> TRUE
      [] n.kind = "cat" ->
            Settles(n.left, open, TRUE) /\ Settles(n.right, open \/ ~Single(n.left), more)
      [] n.kind = "alt" -> Settles(n.left, TRUE, more) /\ Settles(n.right, open, more)
      [] n.kind = "group" -> Settles(n.body, open, more)
      [] n.kind = "look" ->
            (open /\ more => n.negate) /\ Settles(n.body, open \/ n.negate, FALSE)
      [] n.kind = "quant" -> Settles(n.body, TRUE, TRUE)

\* Every group referred to is one of the pattern's.
RefersToGroups == \A i \in DOMAIN Program : Program[i].op = "BACKREF" => Program[i].x <= groupCount
Sound == Settles(re.source, FALSE, FALSE) /\ RefersToGroups

\* What is left out of the rest: a round that takes nothing, a group that one round sets
\* and the next does not, a lazy {n,m} of an atom with several ways, {0} around a group,
\* and a reference inside its own group (open is the set of those).
RECURSIVE Plain(_, _)
Plain(n, open) ==
    CASE n.kind \in {"empty", "rejected"} -> TRUE
      [] n.kind = "atom" -> n.instr.op = "BACKREF" => n.instr.x \notin open
      [] n.kind \in {"cat", "alt"} -> Plain(n.left, open) /\ Plain(n.right, open)
      [] n.kind = "group" -> Plain(n.body, open \cup {n.g})
      [] n.kind = "look" -> Plain(n.body, open)
      [] n.kind = "quant" ->
            /\ Plain(n.body, open)
            /\ n.max # n.min => ~Nullable(n.body)
            /\ GroupsIn(n.body) # {} => n.max # 0
            /\ (GroupsIn(n.body) # {} /\ n.max # 1) => AlwaysSets(n.body)
            /\ (n.lazy /\ n.max > n.min + 1) => Single(n.body)
Judged == Sound /\ Plain(re.source, {})

\* What is left out of the calls: replace on a sticky object that is not global starts
\* at 0 wherever the object stands.
ReplacesFromElsewhere == Replaces /\ re.sticky /\ ~re.global /\ job.from # 0

\* exec, and replace by one match, leave the object one further after an empty match.
OneFurther ==
    LET m == FindFrom(Start(job.from))
    IN  /\ tracks /\ job.call.by # "split" /\ ~(Replaces /\ re.global)
        /\ m # None /\ m[0][1] = m[0][2]
        /\ re.lastIndex = m[0][2] + 1

\* A push of a frame trapped: it had no room.
StackIsFull == vm.status = "trap" /\ Here.op \in {"SPLIT", "LA_ENTER"} /\ ~Fits

-----------------------------------------------------------------------------
\* Every exec, replace and split on one object, whatever calls came before and whatever
\* flags it has, answers what JavaScript answers (split without the captures between its
\* pieces) with every group where it should be, and leaves lastIndex where JavaScript does
\* or, after an empty match, one further; and none runs into a trap but that of a full
\* stack.  Patterns that are not Judged and the replace named above are left out.
CallsAsMeant ==
    /\ (job.at = "done" /\ Judged /\ ~ReplacesFromElsewhere) =>
            job.result = Meant /\ (re.lastIndex = LastIndexMeant \/ OneFurther)
    /\ (vm.status = "trap" /\ Judged) => StackIsFull

\* A method returns, or the program traps on a full stack and on nothing else, unless a
\* loop of the pattern may go round without taking a character or the pattern is not Sound.
MethodsReturn ==
    (job.at = "scan" /\ Progressing(re.source) /\ Sound) ~> (job.at = "done" \/ StackIsFull)
=============================================================================
