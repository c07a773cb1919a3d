------------------------- MODULE PreprocessorProofs -------------------------
(***************************************************************************)
(* What holds of the preprocessor for every project, whatever its macros   *)
(* expand to and its conditions say: its flags agree with its stacks, the  *)
(* files being read form a chain of includes no deeper than allowed, and   *)
(* without includes a line comes out for every line that was read.         *)
(***************************************************************************)
EXTENDS Preprocessor, SequenceTheorems, TLAPS

IsSequence(s) == s \in Seq(ToSet(s))

FileNames == UNION {DOMAIN p.files : p \in Projects}
Frames == [file : FileNames, i : Nat \ {0}, line : Nat \ {0}, saved : Nat,
           block : Seq([text : STRING, line : Nat, hide : {{}}]), start : Nat, total : Nat]

(* Every frame reads a file of the project; all but the last stand at the   *)
(* #include of the next, with nothing left to put out.                      *)
LinesOf(f) == project.files[f.file]
ReadsAFile(f) == f.file \in DOMAIN project.files /\ f.i <= Len(LinesOf(f)) + 1
IncludesNext(k) ==
  LET f == frames[k]
  IN  /\ f.i <= Len(LinesOf(f)) /\ f.total = 0
      /\ LinesOf(f)[f.i].kind = "include" /\ LinesOf(f)[f.i].name = frames[k + 1].file

PpTypeOK ==
  /\ project \in Projects
  /\ frames \in Seq(Frames) /\ Len(frames) > 0
  /\ \A k \in 1..Len(frames) : ReadsAFile(frames[k])
  /\ IsSequence(cond) /\ IsSequence(out)
  /\ depth \in Nat

(* The files being read were included one from the other, and never deeper  *)
(* than MaxDepth: #include cannot run away, and the end of a file always    *)
(* finds the line to go back to.                                            *)
IncludesNest ==
  /\ frames[1].file = "main"
  /\ \A k \in 1..(Len(frames) - 1) : IncludesNext(k)
  /\ depth = Len(frames) - 1 /\ depth <= MaxDepth

(* Where nothing is included, what is put out or gathered is a line for     *)
(* each line read.                                                          *)
NoIncludes == \A f \in DOMAIN project.files : \A line \in ToSet(project.files[f]) : line.kind # "include"
LinesKeepPace == NoIncludes => Len(frames) = 1 /\ Len(out) + Top.total = Top.line - 1
-----------------------------------------------------------------------------
LEMMA Narrowed ==
  ASSUME NEW S, NEW T, NEW s \in Seq(S), \A k \in 1..Len(s) : s[k] \in T
  PROVE  s \in Seq(T)
  OBVIOUS

LEMMA Mapped ==
  ASSUME NEW S, NEW n \in Nat, NEW s, s = [k \in 1..n |-> s[k]], \A k \in 1..n : s[k] \in S
  PROVE  s \in Seq(S)
  OBVIOUS

LEMMA LastReplaced ==
  ASSUME NEW S, NEW s \in Seq(S), NEW m \in Nat \ {0}, Len(s) = m, NEW x \in S, NEW t, t = [s EXCEPT ![m] = x]
  PROVE  t \in Seq(S) /\ Len(t) = m /\ t[m] = x /\ \A k \in 1..(m - 1) : t[k] = s[k]
  OBVIOUS

LEMMA EmptyIsASequence ==
  ASSUME NEW S
  PROVE  <<>> \in Seq(S)
  OBVIOUS

LEMMA Length ==
  ASSUME NEW s, IsSequence(s)
  PROVE  Len(s) \in Nat
  BY DEF IsSequence

(* Sequences put one behind the other, and what is put out of a block. *)
LEMMA Concatenation ==
  ASSUME NEW s, NEW t, IsSequence(s), IsSequence(t)
  PROVE  IsSequence(s \o t) /\ Len(s \o t) = Len(s) + Len(t)
  <1> DEFINE all == ToSet(s) \cup ToSet(t)
  <1>1. s \in Seq(all) /\ t \in Seq(all)
    BY DEF IsSequence
  <1> HIDE DEF all
  <1>2. s \o t \in Seq(all) /\ Len(s \o t) = Len(s) + Len(t)
    BY <1>1
  <1>3. \A k \in 1..Len(s \o t) : (s \o t)[k] \in ToSet(s \o t)
    BY <1>2 DEF ToSet
  <1> QED
    BY <1>2, <1>3, Narrowed DEF IsSequence

LEMMA Listed ==
  ASSUME NEW n \in Nat, NEW s, s = [k \in 1..n |-> s[k]]
  PROVE  IsSequence(s) /\ Len(s) = n
  BY DEF IsSequence, ToSet

LEMMA Appended ==
  ASSUME NEW s, IsSequence(s), NEW c
  PROVE  IsSequence(Append(s, c)) /\ IsSequence(Front(s) \o <<c>>) /\ IsSequence(Front(s))
  <1>1. IsSequence(<<c>>) /\ Append(s, c) = s \o <<c>>
    BY DEF IsSequence, ToSet
  <1>2. IsSequence(Front(s))
    <2>1. PICK n \in Nat : 1..(Len(s) - 1) = 1..n
      <3>1. Len(s) \in Nat
        BY DEF IsSequence
      <3>2. CASE Len(s) = 0
        BY <3>2
      <3>3. CASE Len(s) # 0
        BY <3>1, <3>3
      <3> QED
        BY <3>2, <3>3
    <2>2. Front(s) = [k \in 1..n |-> Front(s)[k]]
      BY <2>1 DEF Front
    <2> QED
      BY <2>2, Listed
  <1> QED
    BY <1>1, <1>2, Concatenation

LEMMA BlanksListed ==
  ASSUME NEW n \in Nat
  PROVE  IsSequence(Blanks(n)) /\ Len(Blanks(n)) = n
  BY Listed DEF Blanks

LEMMA EmitListed ==
  ASSUME NEW toks, NEW start, NEW total \in Nat
  PROVE  IsSequence(Emit(toks, start, total)) /\ Len(Emit(toks, start, total)) = total
  <1> DEFINE e == Emit(toks, start, total)
  <1>1. e = [k \in 1..total |-> e[k]]
    BY DEF Emit
  <1> HIDE DEF e
  <1> QED
    BY <1>1, Listed DEF e

(* The line a file has come to is one of its lines. *)
LEMMA ProjectShape ==
  ASSUME NEW p \in Projects, NEW f \in DOMAIN p.files
  PROVE  /\ Len(p.files[f]) \in Nat /\ f \in FileNames
         /\ \A i \in 1..Len(p.files[f]) : p.files[f][i] \in ToSet(p.files[f]) /\ IsLine(p.files[f][i])
  <1>1. p.files[f] \in Seq(ToSet(p.files[f])) /\ \A line \in ToSet(p.files[f]) : IsLine(line)
    BY ProjectsAssumption
  <1>2. \A i \in 1..Len(p.files[f]) : p.files[f][i] \in ToSet(p.files[f])
    BY <1>1
  <1> QED
    BY <1>1, <1>2 DEF FileNames

LEMMA TopFrame ==
  ASSUME PpTypeOK
  PROVE  /\ Len(frames) \in Nat \ {0} /\ Top = frames[Len(frames)] /\ Top \in Frames /\ ReadsAFile(Top)
         /\ Lines = LinesOf(Top) /\ Len(Lines) \in Nat
         /\ Top.i <= Len(Lines) => Line \in ToSet(Lines) /\ IsLine(Line)
  <1>1. Len(frames) \in Nat \ {0} /\ Top = frames[Len(frames)]
    BY DEF PpTypeOK, Top, Last
  <1>2. Top \in Frames /\ ReadsAFile(Top)
    BY <1>1 DEF PpTypeOK
  <1>3. project \in Projects /\ Top.file \in DOMAIN project.files /\ Top.i \in Nat \ {0}
    BY <1>2 DEF PpTypeOK, ReadsAFile, Frames
  <1>4. Lines = LinesOf(Top)
    BY DEF Lines, LinesOf
  <1>5. Len(Lines) \in Nat /\ \A i \in 1..Len(Lines) : Lines[i] \in ToSet(Lines) /\ IsLine(Lines[i])
    BY <1>3, ProjectShape DEF Lines
  <1> QED
    BY <1>1, <1>2, <1>3, <1>4, <1>5 DEF Line

(* Only the innermost frame moves. *)
LEMMA TopStep ==
  ASSUME PpTypeOK, NEW f \in Frames, frames' = [frames EXCEPT ![Len(frames)] = f]
  PROVE  /\ frames' \in Seq(Frames) /\ Len(frames') = Len(frames) /\ frames'[Len(frames)] = f /\ Top' = f
         /\ \A k \in 1..(Len(frames) - 1) : frames'[k] = frames[k]
  <1>1. frames \in Seq(Frames) /\ Len(frames) \in Nat \ {0}
    BY DEF PpTypeOK
  <1>2. /\ frames' \in Seq(Frames) /\ Len(frames') = Len(frames) /\ frames'[Len(frames)] = f
        /\ \A k \in 1..(Len(frames) - 1) : frames'[k] = frames[k]
    BY <1>1
  <1> QED
    BY <1>2 DEF Top, Last

NextBy(f, n) == [f EXCEPT !.i = @ + 1, !.line = @ + n]

LEMMA FrameSteps ==
  ASSUME NEW f \in Frames, NEW n \in Nat
  PROVE  /\ Emptied(f) \in Frames /\ Emptied(f).total = 0
         /\ Emptied(f).file = f.file /\ Emptied(f).i = f.i /\ Emptied(f).line = f.line
         /\ NextBy(f, n) \in Frames
         /\ NextBy(f, n).file = f.file
         /\ NextBy(f, n).i = f.i + 1
         /\ NextBy(f, n).line = f.line + n
         /\ NextBy(f, n).total = f.total
  <1>1. f.i + 1 \in Nat \ {0} /\ f.line + n \in Nat \ {0}
    BY DEF Frames
  <1>2. PICK z \in Nat : z = 0
    OBVIOUS
  <1>3. PICK b \in Seq([text : STRING, line : Nat, hide : {{}}]) : b = <<>>
    BY EmptyIsASequence
  <1>4. Emptied(f) = [f EXCEPT !.block = b, !.total = z] /\ Emptied(f) \in Frames
    BY <1>2, <1>3 DEF Emptied, Frames
  <1>5. Emptied(f).total = 0 /\ Emptied(f).file = f.file /\ Emptied(f).i = f.i /\ Emptied(f).line = f.line
    BY <1>2, <1>4 DEF Frames
  <1>6. PICK i, l : i = f.i + 1 /\ l = f.line + n
    OBVIOUS
  <1>7. [f EXCEPT !.i = i, !.line = l] \in Frames
    BY <1>1, <1>6 DEF Frames
  <1>8. NextBy(f, n) = [f EXCEPT !.i = i, !.line = l]
    BY <1>6 DEF Frames, NextBy
  <1> QED
    BY <1>4, <1>5, <1>6, <1>7, <1>8 DEF Frames
(* What holds of the whole state, and what a line done with leaves. *)
PpInv == PpTypeOK /\ IncludesNest /\ LinesKeepPace

LEMMA FlushedListed ==
  ASSUME PpTypeOK
  PROVE  IsSequence(Flushed) /\ Len(Flushed) = Len(out) + Top.total
  <1>1. Top.total \in Nat /\ IsSequence(out)
    BY TopFrame DEF PpTypeOK, Frames
  <1>0. Len(out) \in Nat
    BY <1>1, Length
  <1>2. CASE Top.total = 0
    BY <1>0, <1>1, <1>2 DEF Flushed
  <1>3. CASE Top.total # 0
    <2> DEFINE e == Emit(Expanded, Top.start, Top.total)
    <2>1. IsSequence(e) /\ Len(e) = Top.total
      BY <1>1, EmitListed
    <2>2. Flushed = out \o e
      BY <1>3 DEF Flushed
    <2> HIDE DEF e
    <2> QED
      BY <1>1, <2>1, <2>2, Concatenation
  <1> QED
    BY <1>2, <1>3

LEMMA LineDone ==
  ASSUME PpInv, Reading, NEW f \in Frames, frames' = [frames EXCEPT ![Len(frames)] = f],
         f.file = Top.file, f.i = Top.i + 1, f.line = Top.line + Line.phys,
         IsSequence(cond)', IsSequence(out)', Len(out') + f.total = Len(out) + Top.total + Line.phys,
         project' = project, depth' = depth
  PROVE  PpInv'
  <1>0. PpTypeOK /\ IncludesNest /\ LinesKeepPace
    BY DEF PpInv
  <1>1. /\ frames' \in Seq(Frames) /\ Len(frames') = Len(frames) /\ frames'[Len(frames)] = f /\ Top' = f
        /\ \A k \in 1..(Len(frames) - 1) : frames'[k] = frames[k]
    BY <1>0, TopStep
  <1>2. Len(frames) \in Nat \ {0} /\ Top = frames[Len(frames)] /\ ReadsAFile(Top) /\ Top \in Frames
        /\ Lines = LinesOf(Top) /\ Len(Lines) \in Nat /\ Line.phys \in Nat
    BY <1>0, TopFrame DEF Reading, IsLine
  <1>3. ReadsAFile(f)'
    <2>1. Top.i <= Len(LinesOf(Top)) /\ Top.i \in Nat
      BY <1>2 DEF Reading, Frames
    <2>2. LinesOf(f)' = LinesOf(Top)
      BY DEF LinesOf
    <2> QED
      BY <1>2, <2>1, <2>2 DEF ReadsAFile
  <1>4. ASSUME NEW k \in 1..Len(frames') PROVE ReadsAFile(frames[k])'
    <2>1. CASE k = Len(frames)
      BY <1>1, <1>3, <2>1
    <2>2. CASE k \in 1..(Len(frames) - 1)
      BY <1>0, <1>1, <2>2 DEF PpTypeOK, ReadsAFile, LinesOf
    <2> QED
      BY <1>1, <1>2, <2>1, <2>2
  <1>5. PpTypeOK'
    BY <1>0, <1>1, <1>2, <1>4 DEF PpTypeOK
  <1>6. IncludesNest'
    <2>1. \A k \in 1..Len(frames) : frames'[k].file = frames[k].file
      <3>1. \A k \in 1..Len(frames) : k = Len(frames) \/ k \in 1..(Len(frames) - 1)
        BY <1>2
      <3> QED
        BY <1>1, <1>2, <3>1
    <2>2. ASSUME NEW k \in 1..(Len(frames) - 1) PROVE IncludesNext(k)'
      <3>1. IncludesNext(k) /\ frames'[k] = frames[k] /\ frames'[k + 1].file = frames[k + 1].file
        BY <1>0, <1>1, <1>2, <2>1 DEF IncludesNest
      <3> QED
        BY <3>1 DEF IncludesNext, LinesOf
    <2> QED
      BY <1>0, <1>1, <1>2, <2>1, <2>2 DEF IncludesNest
  <1>7. LinesKeepPace'
    <2> SUFFICES ASSUME NoIncludes' PROVE Len(frames') = 1 /\ Len(out') + Top'.total = Top'.line - 1
      BY DEF LinesKeepPace
    <2>1. NoIncludes
      BY DEF NoIncludes
    <2>2. Len(frames) = 1 /\ Len(out) + Top.total = Top.line - 1
      BY <1>0, <2>1 DEF LinesKeepPace
    <2>3. Top.line \in Nat /\ Top.total \in Nat /\ f.total \in Nat /\ Len(out) \in Nat /\ Len(out') \in Nat
      <3>1. IsSequence(out) /\ IsSequence(out')
        BY <1>0 DEF PpTypeOK
      <3>2. Len(out) \in Nat /\ Len(out') \in Nat
        BY <3>1, Length
      <3> QED
        BY <1>2, <3>2 DEF Frames
    <2> QED
      BY <1>1, <1>2, <2>2, <2>3
  <1> QED
    BY <1>5, <1>6, <1>7 DEF PpInv

LEMMA PassedKeeps ==
  ASSUME PpInv, Reading, Passed, IsSequence(cond)', project' = project, depth' = depth
  PROVE  PpInv'
  <1> DEFINE e == Emptied(Top)
             f == NextBy(e, Line.phys)
             blanks == Blanks(Line.phys)
  <1>0. PpTypeOK
    BY DEF PpInv
  <1>1. Top \in Frames /\ Line.phys \in Nat /\ Top = frames[Len(frames)] /\ Len(frames) \in 1..Len(frames)
    BY <1>0, TopFrame DEF Reading, IsLine
  <1>2. e \in Frames /\ e.total = 0 /\ e.file = Top.file /\ e.i = Top.i /\ e.line = Top.line
    BY <1>1, FrameSteps
  <1>3. f \in Frames /\ f.total = e.total /\ f.file = e.file /\ f.i = e.i + 1 /\ f.line = e.line + Line.phys
    <2> HIDE DEF e
    <2> QED
      BY <1>1, <1>2, FrameSteps
  <1>4. frames' = [frames EXCEPT ![Len(frames)] = f]
    BY <1>0, <1>1 DEF Passed, NextLine, NextBy, PpTypeOK
  <1>5. IsSequence(Flushed) /\ Len(Flushed) = Len(out) + Top.total
    BY <1>0, FlushedListed
  <1>6. IsSequence(blanks) /\ Len(blanks) = Line.phys
    BY <1>1, BlanksListed
  <1>7. out' = Flushed \o blanks
    BY DEF Passed
  <1> HIDE DEF blanks, f, e
  <1>8. IsSequence(out') /\ Len(out') = Len(out) + Top.total + Line.phys
    BY <1>5, <1>6, <1>7, Concatenation
  <1>9. Len(out') + f.total = Len(out) + Top.total + Line.phys
    <2>1. Len(out') \in Nat
      BY <1>8 DEF IsSequence
    <2> QED
      BY <1>2, <1>3, <1>8, <2>1
  <1> QED
    BY <1>2, <1>3, <1>4, <1>8, <1>9, LineDone

(* Nothing but the status and macros moves. *)
LEMMA Unmoved ==
  ASSUME PpInv, UNCHANGED <<project, frames, cond, depth, out>>
  PROVE  PpInv'
  BY DEF PpInv, PpTypeOK, IncludesNest, LinesKeepPace, ReadsAFile, IncludesNext, LinesOf, NoIncludes, Top, Frames

LEMMA TextKeeps ==
  ASSUME PpInv, GatherText \/ SkipText
  PROVE  PpInv'
  <1>0. PpTypeOK /\ Reading
    BY DEF PpInv, GatherText, SkipText, Is
  <1>1. Top \in Frames /\ Line.phys \in Nat /\ Line.kind = "text" /\ Line.toks \in Seq(STRING)
    BY <1>0, TopFrame DEF Reading, IsLine, GatherText, SkipText, Is
  <1>2. IsSequence(cond) /\ IsSequence(out) /\ Len(out) \in Nat /\ Top.total \in Nat
    <2>1. IsSequence(cond) /\ IsSequence(out)
      BY <1>0 DEF PpTypeOK
    <2> QED
      BY <1>1, <2>1, Length DEF Frames
  <1>3. Top = frames[Len(frames)] /\ Len(frames) \in 1..Len(frames)
    BY <1>0, TopFrame
  <1>4. CASE GatherText
    <2> DEFINE new == [i \in DOMAIN Line.toks |-> [text |-> Line.toks[i], line |-> Top.line, hide |-> {}]]
               start == IF Top.total = 0 THEN Top.line ELSE Top.start
               e == Gathered(Top)
               f == NextBy(e, Line.phys)
    <2>1. new \in Seq([text : STRING, line : Nat, hide : {{}}])
      <3>1. Len(Line.toks) \in Nat /\ DOMAIN Line.toks = 1..Len(Line.toks) /\ \A k \in DOMAIN Line.toks : Line.toks[k] \in STRING
        BY <1>1
      <3>2. Top.line \in Nat
        BY <1>1 DEF Frames
      <3>3. new = [k \in 1..Len(Line.toks) |-> new[k]]
            /\ \A k \in 1..Len(Line.toks) : new[k] \in [text : STRING, line : Nat, hide : {{}}]
        BY <3>1, <3>2
      <3> HIDE DEF new
      <3> QED
        BY <3>1, <3>3, Mapped
    <2>2. e \in Frames /\ e.total = Top.total + Line.phys /\ e.file = Top.file /\ e.i = Top.i /\ e.line = Top.line
      <3>1. start \in Nat /\ Top.total + Line.phys \in Nat
        BY <1>1, <1>2 DEF Frames
      <3> HIDE DEF start, new
      <3>2. Top.block \o new \in Seq([text : STRING, line : Nat, hide : {{}}])
        <4>1. Top.block \in Seq([text : STRING, line : Nat, hide : {{}}])
          BY <1>1 DEF Frames
        <4> QED
          BY <2>1, <4>1, ConcatProperties
      <3>3. PICK b, t : b = Top.block \o new /\ t = Top.total + Line.phys
        OBVIOUS
      <3>4. e = [Top EXCEPT !.start = start, !.block = b, !.total = t]
        BY <1>1, <3>3 DEF Frames, Gathered, start, new
      <3>5. b \in Seq([text : STRING, line : Nat, hide : {{}}]) /\ t \in Nat
        BY <3>1, <3>2, <3>3
      <3> HIDE DEF e
      <3> QED
        BY <1>1, <3>1, <3>3, <3>4, <3>5 DEF Frames
    <2>3. f \in Frames /\ f.total = e.total /\ f.file = e.file /\ f.i = e.i + 1 /\ f.line = e.line + Line.phys
      <3> HIDE DEF e
      <3> QED
        BY <1>1, <2>2, FrameSteps
    <2>4. frames' = [frames EXCEPT ![Len(frames)] = f]
      BY <1>3, <1>4 DEF GatherText, NextLine, NextBy, Gathered
    <2>5. cond' = cond /\ out' = out /\ project' = project /\ depth' = depth
      BY <1>4 DEF GatherText
    <2> HIDE DEF e, f
    <2>6. IsSequence(cond') /\ IsSequence(out') /\ Len(out') + f.total = Len(out) + Top.total + Line.phys
      BY <1>1, <1>2, <2>2, <2>3, <2>5
    <2> QED
      BY <1>0, <2>2, <2>3, <2>4, <2>5, <2>6, LineDone
  <1>5. CASE SkipText
    <2> DEFINE f == NextBy(Top, Line.phys)
               blanks == Blanks(Line.phys)
    <2>1. f \in Frames /\ f.total = Top.total /\ f.file = Top.file /\ f.i = Top.i + 1 /\ f.line = Top.line + Line.phys
      BY <1>1, FrameSteps
    <2>2. frames' = [frames EXCEPT ![Len(frames)] = f]
      BY <1>3, <1>5, Zenon DEF SkipText, NextLine, NextBy
    <2>3. cond' = cond /\ out' = out \o blanks /\ project' = project /\ depth' = depth
      BY <1>5 DEF SkipText
    <2>4. IsSequence(blanks) /\ Len(blanks) = Line.phys
      BY <1>1, BlanksListed
    <2> HIDE DEF blanks, f
    <2>5. IsSequence(out') /\ Len(out') = Len(out) + Line.phys
      BY <1>2, <2>3, <2>4, Concatenation
    <2>6. IsSequence(cond') /\ Len(out') + f.total = Len(out) + Top.total + Line.phys
      BY <1>1, <1>2, <2>1, <2>3, <2>5
    <2> QED
      BY <1>0, <2>1, <2>2, <2>3, <2>5, <2>6, LineDone
  <1> QED
    BY <1>4, <1>5

(* A directive other than #include is done with in one step. *)
LEMMA DirectivesKeep ==
  ASSUME PpInv, Open \/ Elif \/ Else \/ Endif \/ IgnoreDirective \/ Define \/ Undef \/ PragmaOnce \/ SkipInclude
  PROVE  PpInv'
  <1>0. IsSequence(cond)
    BY DEF PpInv, PpTypeOK
  <1>1. Reading /\ Passed /\ project' = project /\ depth' = depth
    BY DEF Open, Elif, Else, Endif, IgnoreDirective, Define, Undef, PragmaOnce, SkipInclude, AtDirective, Is
  <1>2. cond' = cond \/ (\E c : cond' = Append(cond, c)) \/ (\E c : cond' = Front(cond) \o <<c>>) \/ cond' = Front(cond)
    BY DEF Open, Elif, Else, Endif, IgnoreDirective, Define, Undef, PragmaOnce, SkipInclude, SetCond, WithTop
  <1>3. IsSequence(cond')
    BY <1>0, <1>2, Appended
  <1> QED
    BY <1>1, <1>3, PassedKeeps

LEMMA IncludeKeeps ==
  ASSUME PpInv, Include
  PROVE  PpInv'
  <1>n. PICK n : n = Len(frames)
    OBVIOUS
  <1>0. PpTypeOK /\ IncludesNest /\ Reading /\ Line.kind = "include"
    BY DEF PpInv, Include, AtDirective, Is
  <1>1. /\ Top \in Frames /\ Top = frames[n] /\ n \in Nat \ {0} /\ ReadsAFile(Top)
        /\ Lines = LinesOf(Top) /\ Line \in ToSet(Lines) /\ Top.i <= Len(Lines)
    BY <1>0, <1>n, TopFrame DEF Reading
  <1>2. PICK e \in Frames : e = Emptied(Top) /\ e.total = 0 /\ e.file = Top.file /\ e.i = Top.i
    BY <1>1, FrameSteps
  <1>3. PICK f \in Frames : /\ f = Frame(Line.name, Len(cond))
                            /\ f.file = Line.name /\ f.i = 1 /\ Line.name \in DOMAIN project.files
    <2>1. Line.name \in DOMAIN project.files
      BY DEF Include, Skips
    <2>2. Line.name \in FileNames
      BY <1>0, <1>n, <2>1, ProjectShape DEF PpTypeOK
    <2>3. Len(cond) \in Nat
      BY <1>0, <1>n, Length DEF PpTypeOK
    <2>4. PICK z \in Nat, one \in Nat \ {0} : z = 0 /\ one = 1
      OBVIOUS
    <2>5. PICK b \in Seq([text : STRING, line : Nat, hide : {{}}]) : b = <<>>
      BY EmptyIsASequence
    <2> DEFINE f == [file |-> Line.name, i |-> one, line |-> one, saved |-> Len(cond), block |-> b, start |-> z, total |-> z]
    <2>6. f = Frame(Line.name, Len(cond)) /\ f.file = Line.name /\ f.i = 1
      BY <2>4, <2>5 DEF Frame
    <2>7. f \in Frames
      BY <2>2, <2>3, <2>4, <2>5 DEF Frames
    <2> HIDE DEF f
    <2> QED
      BY <2>1, <2>6, <2>7
  <1>4. /\ frames' = Append([frames EXCEPT ![n] = e], f) /\ depth' = depth + 1 /\ depth < MaxDepth
        /\ out' = Flushed /\ project' = project /\ cond' = cond
    <2>1. [frames EXCEPT ![Len(frames)] = Emptied(@)] = [frames EXCEPT ![n] = e]
      BY <1>0, <1>1, <1>2, <1>n DEF PpTypeOK
    <2> QED
      BY <1>3, <2>1 DEF Include
  <1>5. /\ frames' \in Seq(Frames) /\ Len(frames') = n + 1 /\ frames'[n + 1] = f /\ frames'[n] = e
        /\ \A k \in 1..(n - 1) : frames'[k] = frames[k]
    BY <1>0, <1>n, <1>1, <1>2, <1>3, <1>4 DEF PpTypeOK
  <1>6. PpTypeOK'
    <2>1. IsSequence(out') /\ IsSequence(cond') /\ depth' \in Nat
      BY <1>0, <1>n, <1>4, FlushedListed DEF PpTypeOK
    <2>2. \A k \in 1..(n - 1) : ReadsAFile(frames[k])'
      BY <1>0, <1>n, <1>1, <1>4, <1>5 DEF PpTypeOK, ReadsAFile, LinesOf
    <2>3. ReadsAFile(frames[n])'
      BY <1>1, <1>2, <1>4, <1>5 DEF ReadsAFile, LinesOf
    <2>4. ReadsAFile(frames[n + 1])'
      <3>1. Len(project.files[f.file]) \in Nat
        BY <1>0, <1>n, <1>3, ProjectShape DEF PpTypeOK
      <3> QED
        BY <1>3, <1>4, <1>5, <3>1 DEF ReadsAFile, LinesOf
    <2>5. \A k \in 1..(n + 1) : k \in 1..(n - 1) \/ k = n \/ k = n + 1
      BY <1>1
    <2> QED
      BY <1>0, <1>n, <1>1, <1>4, <1>5, <2>1, <2>2, <2>3, <2>4, <2>5 DEF PpTypeOK
  <1>7. IncludesNest'
    <2>1. ASSUME NEW k \in 1..(n - 1) PROVE IncludesNext(k)'
      <3>1. IncludesNext(k) /\ frames'[k] = frames[k] /\ frames'[k + 1].file = frames[k + 1].file
        BY <1>0, <1>n, <1>1, <1>2, <1>5 DEF IncludesNest
      <3> QED
        BY <1>4, <3>1 DEF IncludesNext, LinesOf
    <2>2. IncludesNext(n)'
      <3>1. LinesOf(e)' = Lines /\ Lines[e.i] = Line
        BY <1>1, <1>2, <1>4 DEF LinesOf, Line
      <3> QED
        BY <1>0, <1>n, <1>1, <1>2, <1>3, <1>5, <3>1 DEF IncludesNext
    <2>3. frames'[1].file = "main"
      BY <1>0, <1>n, <1>1, <1>2, <1>5 DEF IncludesNest
    <2>4. depth' = Len(frames') - 1 /\ depth' <= MaxDepth
      BY <1>0, <1>n, <1>1, <1>4, <1>5, DepthAssumption DEF IncludesNest, PpTypeOK
    <2>5. \A k \in 1..(Len(frames') - 1) : k \in 1..(n - 1) \/ k = n
      BY <1>1, <1>5
    <2> QED
      BY <2>1, <2>2, <2>3, <2>4, <2>5 DEF IncludesNest
  <1>8. ~NoIncludes'
    BY <1>0, <1>n, <1>1, <1>4 DEF NoIncludes, Lines, ReadsAFile
  <1> QED
    BY <1>6, <1>7, <1>8 DEF PpInv, LinesKeepPace

LEMMA EndFileKeeps ==
  ASSUME PpInv, EndFile
  PROVE  PpInv'
  <1>n. PICK n : n = Len(frames)
    OBVIOUS
  <1>0. PpTypeOK /\ IncludesNest /\ LinesKeepPace /\ project' = project /\ cond' = cond
    BY DEF PpInv, EndFile
  <1>1. Top \in Frames /\ Top = frames[n] /\ n \in Nat \ {0} /\ ReadsAFile(Top)
    BY <1>0, <1>n, TopFrame
  <1>2. IsSequence(Flushed) /\ Len(Flushed) = Len(out) + Top.total
    BY <1>0, FlushedListed
  <1>3. CASE n = 1
    <2>1. PICK e \in Frames : e = Emptied(Top) /\ e.total = 0 /\ e.file = Top.file /\ e.i = Top.i /\ e.line = Top.line
      BY <1>1, FrameSteps
    <2>2. frames' = [frames EXCEPT ![Len(frames)] = e] /\ depth' = depth /\ out' = Flushed
      BY <1>0, <1>1, <1>3, <1>n, <2>1 DEF EndFile, PpTypeOK
    <2>3. /\ frames' \in Seq(Frames) /\ Len(frames') = 1 /\ frames'[1] = e /\ Top' = e
      BY <1>0, <1>3, <1>n, <2>1, <2>2, TopStep
    <2>4. PpTypeOK'
      <3>1. ReadsAFile(e)'
        BY <1>0, <1>n, <1>1, <2>1 DEF ReadsAFile, LinesOf
      <3>2. \A k \in 1..Len(frames') : ReadsAFile(frames[k])'
        <4>1. \A k \in 1..Len(frames') : k = 1
          BY <2>3
        <4> QED
          BY <2>3, <3>1, <4>1
      <3>3. IsSequence(out') /\ IsSequence(cond') /\ depth' \in Nat /\ project' \in Projects
        BY <1>0, <1>2, <2>2 DEF PpTypeOK
      <3> QED
        BY <2>3, <3>2, <3>3 DEF PpTypeOK
    <2>5. IncludesNest'
      <3>1. frames'[1].file = "main" /\ 1..(Len(frames') - 1) = {}
        BY <1>0, <1>1, <1>3, <2>1, <2>3 DEF IncludesNest
      <3>2. depth' = Len(frames') - 1 /\ depth' <= MaxDepth
        BY <1>0, <1>3, <1>n, <2>2, <2>3 DEF IncludesNest
      <3> QED
        BY <3>1, <3>2 DEF IncludesNest
    <2>6. LinesKeepPace'
      <3>1. IsSequence(out')
        BY <1>2, <2>2
      <3>2. Len(out') \in Nat
        BY <3>1, Length
      <3> QED
        BY <1>0, <1>n, <1>2, <2>1, <2>2, <2>3, <3>2 DEF LinesKeepPace, NoIncludes
    <2> QED
      BY <2>4, <2>5, <2>6 DEF PpInv
  <1>4. CASE n # 1
    <2>1. PICK g \in Frames : g = frames[n - 1] /\ ReadsAFile(g) /\ n - 1 \in 1..n
      BY <1>0, <1>1, <1>4, <1>n DEF PpTypeOK
    <2>p. PICK phys : phys = project.files[g.file][g.i].phys
      OBVIOUS
    <2> DEFINE blanks == Blanks(phys)
    <2>2. g.i <= Len(LinesOf(g)) /\ LinesOf(g)[g.i].kind = "include" /\ g.total = 0
      BY <1>0, <1>1, <1>4, <1>n, <2>1 DEF IncludesNest, IncludesNext
    <2>3. phys \in Nat /\ LinesOf(g)[g.i] \in ToSet(LinesOf(g)) /\ Len(LinesOf(g)) \in Nat
      <3>1. project \in Projects /\ g.file \in DOMAIN project.files /\ g.i \in Nat \ {0}
        BY <1>0, <1>n, <2>1 DEF PpTypeOK, ReadsAFile, Frames
      <3>2. g.i \in 1..Len(project.files[g.file])
        BY <2>2, <3>1, ProjectShape DEF LinesOf
      <3> QED
        BY <2>p, <3>1, <3>2, ProjectShape DEF LinesOf, IsLine
    <2>4. PICK f \in Frames : f = NextBy(g, phys) /\ f.file = g.file /\ f.i = g.i + 1 /\ f.total = g.total
      <3> DEFINE f == NextBy(g, phys)
      <3>1. f \in Frames /\ f.file = g.file /\ f.i = g.i + 1 /\ f.total = g.total
        BY <2>1, <2>3, FrameSteps
      <3> HIDE DEF f
      <3> QED
        BY <3>1 DEF f
    <2>5. depth' = depth - 1 /\ out' = Flushed \o blanks
      BY <1>4, <1>n, <2>1, <2>p DEF EndFile, Including
    <2>6. frames' = [Front(frames) EXCEPT ![n - 1] = f]
      <3>1. frames' = [Front(frames) EXCEPT ![n - 1].i = @ + 1, ![n - 1].line = @ + phys]
        BY <1>4, <1>n, <2>1, <2>p DEF EndFile, Including
      <3>2. Front(frames) \in Seq(Frames) /\ Len(Front(frames)) = n - 1 /\ Front(frames)[n - 1] = g
        BY <1>0, <1>1, <1>4, <1>n, <2>1 DEF Front, PpTypeOK
      <3>3. [Front(frames) EXCEPT ![n - 1].i = @ + 1, ![n - 1].line = @ + phys] = [Front(frames) EXCEPT ![n - 1] = f]
        BY <1>1, <1>4, <2>1, <2>4, <3>2 DEF Frames, NextBy
      <3> QED
        BY <3>1, <3>3
    <2>7. /\ frames' \in Seq(Frames) /\ Len(frames') = n - 1 /\ frames'[n - 1] = f
          /\ \A k \in 1..(n - 2) : frames'[k] = frames[k]
      <3>1. PICK before \in Seq(Frames) : /\ before = Front(frames) /\ Len(before) = n - 1
                                          /\ \A k \in 1..(n - 1) : before[k] = frames[k]
        <4>1. frames \in Seq(Frames) /\ n - 1 \in 0..Len(frames)
          BY <1>0, <1>1, <1>n DEF PpTypeOK
        <4> HIDE DEF Frames
        <4>2. Front(frames) \in Seq(Frames) /\ Len(Front(frames)) = n - 1 /\ \A k \in 1..(n - 1) : Front(frames)[k] = frames[k]
          BY <1>n, <4>1 DEF Front
        <4> QED
          BY <4>2
      <3>2. frames' = [before EXCEPT ![n - 1] = f] /\ n - 1 \in Nat \ {0}
        BY <1>1, <1>4, <2>6, <3>1
      <3> QED
        <4>1. /\ frames' \in Seq(Frames) /\ Len(frames') = n - 1 /\ frames'[n - 1] = f
              /\ \A k \in 1..((n - 1) - 1) : frames'[k] = before[k]
          <5>1. PICK m \in Nat \ {0} : m = n - 1
            BY <3>2
          <5>2. frames' = [before EXCEPT ![m] = f] /\ Len(before) = m
            BY <3>1, <3>2, <5>1
          <5> HIDE DEF Frames
          <5>3. /\ frames' \in Seq(Frames) /\ Len(frames') = m /\ frames'[m] = f
                /\ \A k \in 1..(m - 1) : frames'[k] = before[k]
            BY <5>2, LastReplaced
          <5> QED
            BY <5>1, <5>3
        <4>2. 1..((n - 1) - 1) = 1..(n - 2) /\ 1..(n - 2) \subseteq 1..(n - 1)
          BY <1>1
        <4> QED
          BY <3>1, <4>1, <4>2
    <2>8. PpTypeOK'
      <3>1. IsSequence(blanks)
        BY <2>3, BlanksListed
      <3> HIDE DEF blanks
      <3>2. IsSequence(out')
        BY <1>2, <2>5, <3>1, Concatenation
      <3>3. ReadsAFile(frames[n - 1])'
        <4>1. frames'[n - 1] = f /\ project' = project /\ f.file = g.file /\ f.i = g.i + 1 /\ g.i \in Nat
          BY <1>0, <2>1, <2>4, <2>7 DEF Frames
        <4>2. f.i <= Len(LinesOf(g)) + 1 /\ f.file \in DOMAIN project.files
          BY <2>1, <2>2, <2>3, <4>1 DEF ReadsAFile
        <4> QED
          BY <4>1, <4>2 DEF ReadsAFile, LinesOf
      <3>4. \A k \in 1..(n - 2) : ReadsAFile(frames[k])'
        BY <1>0, <1>n, <1>1, <2>7 DEF PpTypeOK, ReadsAFile, LinesOf
      <3>5. \A k \in 1..(n - 1) : k = n - 1 \/ k \in 1..(n - 2)
        BY <1>1
      <3>6. depth' \in Nat
        BY <1>0, <1>n, <1>1, <1>4, <2>5 DEF IncludesNest, PpTypeOK
      <3> QED
        BY <1>0, <1>n, <1>1, <1>4, <2>7, <3>2, <3>3, <3>4, <3>5, <3>6 DEF PpTypeOK
    <2>9. IncludesNest'
      <3>1. \A k \in 1..(n - 1) : frames'[k].file = frames[k].file
        <4>1. \A k \in 1..(n - 1) : k = n - 1 \/ k \in 1..(n - 2)
          BY <1>1
        <4> QED
          BY <2>1, <2>4, <2>7, <4>1
      <3>2. ASSUME NEW k \in 1..(n - 2) PROVE IncludesNext(k)'
        <4>1. IncludesNext(k) /\ frames'[k] = frames[k] /\ frames'[k + 1].file = frames[k + 1].file
          BY <1>0, <1>n, <1>1, <2>7, <3>1 DEF IncludesNest
        <4> QED
          BY <1>0, <1>n, <4>1 DEF IncludesNext, LinesOf
      <3> QED
        BY <1>0, <1>n, <1>1, <1>4, <2>5, <2>7, <3>1, <3>2, DepthAssumption DEF IncludesNest, PpTypeOK
    <2>10. ~NoIncludes'
      BY <1>0, <1>n, <2>1, <2>2, <2>3 DEF NoIncludes, LinesOf, ReadsAFile
    <2> QED
      BY <2>8, <2>9, <2>10 DEF PpInv, LinesKeepPace
  <1> QED
    BY <1>3, <1>4

LEMMA PpStep ==
  PpInv /\ [PpNext]_ppVars => PpInv'
  <1> SUFFICES ASSUME PpInv, [PpNext]_ppVars PROVE PpInv'
    OBVIOUS
  <1>1. CASE GatherText \/ SkipText
    BY <1>1, TextKeeps
  <1>2. CASE Open \/ Elif \/ Else \/ Endif \/ IgnoreDirective \/ Define \/ Undef \/ PragmaOnce \/ SkipInclude
    BY <1>2, DirectivesKeep
  <1>3. CASE Include
    BY <1>3, IncludeKeeps
  <1>4. CASE EndFile
    BY <1>4, EndFileKeeps
  <1>5. CASE FlushFails \/ ConditionFails \/ ErrorDirective \/ TooDeep \/ Unterminated
    BY <1>5, Unmoved DEF FlushFails, ConditionFails, ErrorDirective, TooDeep, Unterminated, Throw
  <1>6. CASE UNCHANGED ppVars
    BY <1>6, Unmoved DEF ppVars
  <1> QED
    BY <1>1, <1>2, <1>3, <1>4, <1>5, <1>6 DEF PpNext

LEMMA PpStart == PpInit => PpInv
  <1> SUFFICES ASSUME PpInit PROVE PpInv
    OBVIOUS
  <1>1. project \in Projects /\ "main" \in DOMAIN project.files /\ "main" \in FileNames
    BY ProjectsAssumption DEF PpInit, FileNames
  <1>2. PICK z \in Nat, one \in Nat \ {0} : z = 0 /\ one = 1
    OBVIOUS
  <1>3. PICK b \in Seq([text : STRING, line : Nat, hide : {{}}]) : b = <<>>
    BY EmptyIsASequence
  <1>4. PICK f \in Frames : f = Frame("main", 0) /\ f.file = "main" /\ f.i = 1 /\ f.line = 1 /\ f.total = 0
    <2> DEFINE f == [file |-> "main", i |-> one, line |-> one, saved |-> z, block |-> b, start |-> z, total |-> z]
    <2>1. f \in Frames
      BY <1>1, <1>2, <1>3 DEF Frames
    <2>2. f = Frame("main", 0) /\ f.file = "main" /\ f.i = 1 /\ f.line = 1 /\ f.total = 0
      BY <1>2, <1>3 DEF Frame
    <2> HIDE DEF f
    <2> QED
      BY <2>1, <2>2
  <1>5. frames = <<f>> /\ Len(frames) = 1 /\ frames[1] = f /\ frames \in Seq(Frames) /\ Top = f
    BY <1>4 DEF PpInit, Top, Last
  <1>6. ReadsAFile(f)
    BY <1>1, <1>4, ProjectShape DEF ReadsAFile, LinesOf
  <1>7. IsSequence(cond) /\ IsSequence(out) /\ Len(out) = 0
    BY EmptyIsASequence DEF PpInit, IsSequence
  <1>8. PpTypeOK
    BY <1>1, <1>5, <1>6, <1>7 DEF PpTypeOK, PpInit
  <1>9. IncludesNest
    BY <1>4, <1>5, DepthAssumption DEF IncludesNest, PpInit
  <1> QED
    BY <1>4, <1>5, <1>7, <1>8, <1>9 DEF PpInv, LinesKeepPace

(* #include cannot run away, and the end of a file always finds the line it *)
(* was included from: the chain of frames is one of includes.               *)
THEOREM IncludesAlwaysNest == PpSpec => []IncludesNest
  <1>1. PpInv => IncludesNest
    BY DEF PpInv
  <1> QED
    BY <1>1, PpStart, PpStep, PTL DEF PpSpec

(* Whatever text expands to, a line is put out for each line read, as long  *)
(* as nothing is included: line numbers are those of the source.            *)
THEOREM LinesAlwaysKeepPace == PpSpec => []LinesKeepPace
  <1>1. PpInv => LinesKeepPace
    BY DEF PpInv
  <1> QED
    BY <1>1, PpStart, PpStep, PTL DEF PpSpec

(* The flag text and directives go by is that of the conditionals' stack,   *)
(* whatever files opened and changed them, and depth that of the files.     *)
THEOREM FlagsAlwaysAgree == PpSpec => []FlagsAgree
  <1> DEFINE Agrees == active <=> AllActive(cond)
  <1>1. PpInit => Agrees
    BY DEF PpInit, AllActive
  <1>2. Agrees /\ [PpNext]_ppVars => Agrees'
    <2> SUFFICES ASSUME Agrees, [PpNext]_ppVars PROVE Agrees'
      OBVIOUS
    <2>1. CASE Open \/ Elif \/ Else \/ Endif
      BY <2>1 DEF Open, Elif, Else, Endif, SetCond
    <2>2. CASE UNCHANGED <<cond, active>>
      BY <2>2 DEF AllActive
    <2> QED
      BY <2>1, <2>2
      DEF PpNext, ppVars, GatherText, SkipText, FlushFails, ConditionFails, ErrorDirective, TooDeep, Unterminated, Throw,
          IgnoreDirective, Define, Undef, PragmaOnce, SkipInclude, Include, EndFile
  <1>3. Agrees /\ PpInv => FlagsAgree
    BY DEF FlagsAgree, AllActive, PpInv, IncludesNest
  <1> QED
    BY <1>1, <1>2, <1>3, PpStart, PpStep, PTL DEF PpSpec
=============================================================================
