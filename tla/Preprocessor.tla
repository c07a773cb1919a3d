---------------------------- MODULE Preprocessor ----------------------------
(***************************************************************************)
(* Preprocessor.run, directive and include (examples/CPP/preprocessor.ts): *)
(* files are read line by line, conditionals kept on one stack for all of  *)
(* them, text between directives gathered in a block that is expanded as a *)
(* whole and put out on as many lines as it came on.                       *)
(***************************************************************************)
EXTENDS Naturals, Sequences, SequencesExt, FiniteSetsExt

CONSTANTS
  Projects,        \* the files to preprocess: see Project
  ExpandBlock(_, _), \* macros and tokens to tokens, see PreprocessorMeaning
  Throws(_),       \* whether an expansion threw
  Condition(_, _), \* macros and an expression to [ok, v]
  MaxDepth         \* how deep includes may go, 50 there

ASSUME DepthAssumption == MaxDepth \in Nat

(* A line is [kind, phys, ...], `phys` the physical lines spliced into it;  *)
(* a project has `files`, by name, and starts with its file "main".  A file *)
(* included that is not there is skipped.                                   *)
Kinds == {"text", "if", "ifdef", "ifndef", "elif", "else", "endif", "define", "undef",
          "include", "once", "error", "other"}
IsLine(line) ==
  /\ line.kind \in Kinds /\ line.phys \in Nat \ {0}
  /\ line.kind = "text" => line.toks \in Seq(STRING)
ASSUME ProjectsAssumption ==
  \A p \in Projects :
    /\ "main" \in DOMAIN p.files
    /\ \A f \in DOMAIN p.files : p.files[f] \in Seq(ToSet(p.files[f])) /\ \A line \in ToSet(p.files[f]) : IsLine(line)

VARIABLES
  project,
  frames,    \* the files being read, the innermost last
  macros,    \* name -> macro
  cond,      \* the conditionals' stack: [active, taken]
  active,    \* whether all of them are
  depth, once,
  out,       \* the lines put out, each a sequence of texts
  status     \* "running", "done" or what was thrown

ppVars == <<project, frames, macros, cond, active, depth, once, out, status>>

(* A file is begun: `saved` is how many conditionals are open.              *)
Frame(file, saved) ==
  [file |-> file, i |-> 1, line |-> 1, saved |-> saved, block |-> <<>>, start |-> 0, total |-> 0]

PpInit ==
  /\ project \in Projects
  /\ macros = project.defines
  /\ cond = <<>> /\ active = TRUE
  /\ depth = 0 /\ once = {}
  /\ out = <<>> /\ status = "running"
  /\ frames = <<Frame("main", 0)>>

Top == Last(frames)
Lines == project.files[Top.file]
Reading == status = "running" /\ Top.i <= Len(Lines)
Line == Lines[Top.i]
Is(kinds) == Reading /\ Line.kind \in kinds

NextLine(f) == [f EXCEPT !.i = @ + 1, !.line = @ + Line.phys]
(* Blank lines; a faulty one leaves one for all that were spliced. *)
OneBlank(n) == << <<>> >>
Blanks(n) == [k \in 1..n |-> <<>>]

(* emit: a token goes to its own line, but never before one that came       *)
(* before it, nor past the block.                                           *)
LineAt(toks, k, start, total) ==
  Min({total - 1, Max({0} \cup {toks[j].line - start : j \in {x \in 1..k : toks[x].line >= start}})})
Emit(toks, start, total) ==
  [c \in 1..total |->
     LET on == SelectSeq([k \in DOMAIN toks |-> k], LAMBDA k : LineAt(toks, k, start, total) = c - 1)
     IN  [x \in DOMAIN on |-> toks[on[x]].text]]

(* flush: what is gathered is put out before a directive and at the end.    *)
Expanded == ExpandBlock(macros, Top.block)
Flushable == Top.total = 0 \/ ~Throws(Expanded)
Flushed == IF Top.total = 0 THEN out ELSE out \o Emit(Expanded, Top.start, Top.total)
AtDirective(kinds) == Is(kinds) /\ Flushable
Emptied(f) == [f EXCEPT !.block = <<>>, !.total = 0]

(* A directive is done with: its own lines are left blank.                  *)
Passed == /\ frames' = [frames EXCEPT ![Len(frames)] = NextLine(Emptied(@))]
          /\ out' = Flushed \o Blanks(Line.phys)
Throw(what) == status' = what /\ UNCHANGED <<project, frames, macros, cond, active, depth, once, out>>

AllActive(c) == \A i \in DOMAIN c : c[i].active
(* setActive after each change; a faulty directive leaves it out. *)
OnlyCond(c) == cond' = c /\ UNCHANGED active
SetCond(c) == cond' = c /\ active' = AllActive(c)
TopCond == Last(cond)
WithTop(c) == Front(cond) \o <<c>>
-----------------------------------------------------------------------------
(* Text is gathered, or blanked where a conditional is not active. *)
Gathered(f) ==
  LET new == [i \in DOMAIN Line.toks |-> [text |-> Line.toks[i], line |-> f.line, hide |-> {}]]
  IN  [f EXCEPT !.start = IF f.total = 0 THEN f.line ELSE f.start,
                !.block = f.block \o new, !.total = f.total + Line.phys]
GatherText ==
  /\ Is({"text"}) /\ active
  /\ frames' = [frames EXCEPT ![Len(frames)] = NextLine(Gathered(@))]
  /\ UNCHANGED <<project, macros, cond, active, depth, once, out, status>>

SkipText ==
  /\ Is({"text"}) /\ ~active
  /\ frames' = [frames EXCEPT ![Len(frames)] = NextLine(@)]
  /\ out' = out \o Blanks(Line.phys)
  /\ UNCHANGED <<project, macros, cond, active, depth, once, status>>

(* What is gathered has a call of the wrong arity. *)
FlushFails ==
  /\ status = "running" /\ ~Flushable
  /\ Top.i <= Len(Lines) => Line.kind # "text"
  /\ Throw("bad call")

(* #if, #ifdef, #ifndef: within what is not active, never to be. *)
Holds == CASE Line.kind = "if" -> Condition(macros, Line.expr)
           [] Line.kind = "ifdef" -> [ok |-> TRUE, v |-> Line.name \in DOMAIN macros]
           [] Line.kind = "ifndef" -> [ok |-> TRUE, v |-> Line.name \notin DOMAIN macros]
Open ==
  /\ AtDirective({"if", "ifdef", "ifndef"}) /\ (active => Holds.ok)
  /\ SetCond(Append(cond, IF active THEN [active |-> Holds.v, taken |-> Holds.v]
                          ELSE [active |-> FALSE, taken |-> TRUE]))
  /\ Passed
  /\ UNCHANGED <<project, macros, depth, once, status>>

(* #elif is evaluated while none was taken. *)
ElifValue == Condition(macros, Line.expr)
Elif ==
  /\ AtDirective({"elif"}) /\ cond # <<>> /\ (~TopCond.taken => ElifValue.ok)
  /\ SetCond(WithTop(IF TopCond.taken THEN [TopCond EXCEPT !.active = FALSE]
                     ELSE [active |-> ElifValue.v, taken |-> ElifValue.v]))
  /\ Passed
  /\ UNCHANGED <<project, macros, depth, once, status>>

Else ==
  /\ AtDirective({"else"}) /\ cond # <<>>
  /\ SetCond(WithTop([active |-> ~TopCond.taken, taken |-> TRUE]))
  /\ Passed
  /\ UNCHANGED <<project, macros, depth, once, status>>

Endif ==
  /\ AtDirective({"endif"}) /\ cond # <<>>
  /\ SetCond(Front(cond))
  /\ Passed
  /\ UNCHANGED <<project, macros, depth, once, status>>

(* An expression that makes no sense, or nothing to go on with. *)
ConditionFails ==
  \/ /\ AtDirective({"if"}) /\ active /\ ~Holds.ok
     /\ Throw("bad expression")
  \/ /\ AtDirective({"elif"}) /\ cond # <<>> /\ ~TopCond.taken /\ ~ElifValue.ok
     /\ Throw("bad expression")
  \/ /\ AtDirective({"elif", "else", "endif"}) /\ cond = <<>>
     /\ Throw("without #if")

(* The rest is left alone where a conditional is not active. *)
IgnoreDirective ==
  /\ AtDirective({"define", "undef", "include", "once", "error", "other"})
  /\ active => Line.kind = "other"
  /\ Passed
  /\ UNCHANGED <<project, macros, cond, active, depth, once, status>>

Define ==
  /\ AtDirective({"define"}) /\ active
  /\ macros' = [n \in DOMAIN macros \cup {Line.name} |-> IF n = Line.name THEN Line.macro ELSE macros[n]]
  /\ Passed
  /\ UNCHANGED <<project, cond, active, depth, once, status>>

Undef ==
  /\ AtDirective({"undef"}) /\ active
  /\ macros' = [n \in (DOMAIN macros) \ {Line.name} |-> macros[n]]
  /\ Passed
  /\ UNCHANGED <<project, cond, active, depth, once, status>>

PragmaOnce ==
  /\ AtDirective({"once"}) /\ active
  /\ once' = once \cup {Top.file}
  /\ Passed
  /\ UNCHANGED <<project, macros, cond, active, depth, status>>

ErrorDirective ==
  /\ AtDirective({"error"}) /\ active
  /\ Throw("#error")

(* #include: a file that is not there, or that said #pragma once, is        *)
(* skipped; any other is read before the line is done with.                 *)
Skips(file) == file \notin DOMAIN project.files \/ file \in once
SkipInclude ==
  /\ AtDirective({"include"}) /\ active /\ Skips(Line.name)
  /\ Passed
  /\ UNCHANGED <<project, macros, cond, active, depth, once, status>>

Include ==
  /\ AtDirective({"include"}) /\ active /\ ~Skips(Line.name) /\ depth < MaxDepth
  /\ depth' = depth + 1
  /\ out' = Flushed
  /\ frames' = Append([frames EXCEPT ![Len(frames)] = Emptied(@)], Frame(Line.name, Len(cond)))
  /\ UNCHANGED <<project, macros, cond, active, once, status>>

TooDeep ==
  /\ AtDirective({"include"}) /\ active /\ ~Skips(Line.name) /\ depth >= MaxDepth
  /\ Throw("too deep")

(* The end of a file: back to the line that included it. *)
Including == frames[Len(frames) - 1]
EndFile ==
  /\ status = "running" /\ Top.i > Len(Lines) /\ Flushable /\ Len(cond) = Top.saved
  /\ IF Len(frames) = 1
     THEN /\ status' = "done" /\ out' = Flushed
          /\ frames' = [frames EXCEPT ![1] = Emptied(@)] /\ UNCHANGED depth
     ELSE LET phys == project.files[Including.file][Including.i].phys
          IN  /\ out' = Flushed \o Blanks(phys)
              /\ frames' = [Front(frames) EXCEPT ![Len(frames) - 1].i = @ + 1, ![Len(frames) - 1].line = @ + phys]
              /\ depth' = depth - 1 /\ UNCHANGED status
  /\ UNCHANGED <<project, macros, cond, active, once>>

Unterminated ==
  /\ status = "running" /\ Top.i > Len(Lines) /\ Flushable /\ Len(cond) # Top.saved
  /\ Throw("unterminated #if")

PpNext ==
  \/ GatherText \/ SkipText \/ FlushFails
  \/ Open \/ Elif \/ Else \/ Endif \/ ConditionFails
  \/ IgnoreDirective \/ Define \/ Undef \/ PragmaOnce \/ ErrorDirective
  \/ SkipInclude \/ Include \/ TooDeep \/ EndFile \/ Unterminated

PpSpec == PpInit /\ [][PpNext]_ppVars /\ WF_ppVars(PpNext)
-----------------------------------------------------------------------------
(* The `active` that text and directives go by is that of the conditionals  *)
(* open, whatever files opened and changed them; depth counts the files     *)
(* being read within others.                                                *)
FlagsAgree == (active <=> ~\E i \in DOMAIN cond : ~cond[i].active) /\ depth = Len(frames) - 1
=============================================================================
