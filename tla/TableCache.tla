---------------------------- MODULE TableCache ----------------------------
(***************************************************************************)
(* makeCachedParser (tableCache.ts): processes that share a cache file,    *)
(* while the grammar's sources are edited, processes die and the disk      *)
(* fills up.  A process loads the source modules, may add rules to them in *)
(* memory, stamps the sources, reads the file and, on a miss, builds and   *)
(* writes the file in place, a portion at a time.                          *)
(***************************************************************************)
EXTENDS TableCodec

CONSTANTS
  Processes,
  SourceCount,          \* how many source modules the grammar is spread over
  Contents,             \* what a source may hold
  SizeOf(_),            \* the size of a content
  GrammarOf(_, _),      \* the grammar of loaded contents, rules added or not
  Setups,               \* engines and options in use: [engine, flags]
  Tables(_, _),         \* what an engine and options build of a grammar
  Spoiled(_),           \* what others may make of the file's bytes
  Portions,             \* how many bytes of the file may be written at a time
  EditedTo(_),          \* what a source with a content may be edited to
  MaxEdits, MaxCalls    \* bounds: edits of sources, calls in all

ASSUME CacheAssumption ==
  /\ SourceCount \in Nat \ {0} /\ MaxEdits \in Nat /\ MaxCalls \in Nat
  /\ \A c \in Contents : SizeOf(c) \in Nat /\ EditedTo(c) \subseteq Contents
  /\ \A s \in Setups : s.engine \in Nat /\ s.flags \in Nat

VARIABLES
  sources,   \* source -> [content, mtime]
  disk,      \* the cache file: [bytes], and history: how it came about, whose it is
  proc,      \* process -> the locals of its call
  calls      \* how many there were, for the bound

cacheVars == <<sources, disk, proc, calls>>
SourceNames == 1..SourceCount

Dead == [at |-> "idle", setup |-> [engine |-> 0, flags |-> 0], added |-> FALSE, loaded |-> <<>>,
         stamps |-> <<>>, stamped |-> <<>>, hit |-> FALSE, read |-> "nothing", of |-> <<>>,
         tables |-> <<>>, bytes |-> <<>>, written |-> 0]

CacheInit ==
  /\ sources \in [SourceNames -> [content : Contents, mtime : {1}]]
  /\ disk = [bytes |-> <<>>, how |-> "absent", opener |-> "none", by |-> <<>>]
  /\ proc = [p \in Processes |-> Dead]
  /\ calls = 0

(* What a call is about: what was loaded, rules added or not, the setup.    *)
Subjects == [SourceNames -> Contents] \X BOOLEAN \X Setups
Subject(c) == <<c.loaded, c.added, c.setup>>
GrammarOfSubject(s) == GrammarOf(s[1], s[2])
DigestOf == [s \in Subjects |-> Digest(GrammarOfSubject(s))]
BuiltOf == [s \in Subjects |-> Tables(GrammarOfSubject(s), s[3])]
RowsOf == [s \in Subjects |-> Serialize(GrammarOfSubject(s), BuiltOf[s])]
TablesOf == [s \in Subjects |-> Canonical(BuiltOf[s])]

SubjectKey(s) == [engine |-> s[3].engine, flags |-> s[3].flags, digest |-> DigestOf[s]]
Key(c) == SubjectKey(Subject(c)) @@ [stamps |-> c.stamps]
Stamp(s) == [mtime |-> sources[s].mtime, size |-> SizeOf(sources[s].content)]
-----------------------------------------------------------------------------
(* A process starts, and its modules are loaded one after the other. *)
Start(p) ==
  /\ proc[p].at = "idle" /\ calls < MaxCalls
  /\ \E s \in Setups : proc' = [proc EXCEPT ![p].at = "called", ![p].setup = s]
  /\ calls' = calls + 1
  /\ UNCHANGED <<sources, disk>>

LoadModule(p) ==
  /\ proc[p].at = "called" /\ Len(proc[p].loaded) < SourceCount
  /\ proc' = [proc EXCEPT ![p].loaded = Append(@, sources[Len(@) + 1].content)]
  /\ UNCHANGED <<sources, disk, calls>>

(* `cache.sources.map(stampOf)`. *)
StampSource(p) ==
  /\ proc[p].at = "called" /\ Len(proc[p].loaded) = SourceCount
  /\ Len(proc[p].stamps) < SourceCount
  /\ LET s == Len(proc[p].stamps) + 1
     IN  proc' = [proc EXCEPT ![p].stamps = Append(@, Stamp(s)),
                              ![p].stamped = Append(@, sources[s].content)]
  /\ UNCHANGED <<sources, disk, calls>>

(* loadTables: deserialized when found, built and about to be saved when    *)
(* not.  An absent file is read as an empty one would be.                   *)
ReadCache(p) ==
  /\ proc[p].at = "called" /\ Len(proc[p].stamps) = SourceCount
  /\ LET c == proc[p]
         found == LoadTables(disk.bytes, Key(c))
         tables == IF found.found THEN Canonical(Deserialize(GrammarOfSubject(Subject(c)), found))
                   ELSE TablesOf[Subject(c)]
     IN  proc' = [proc EXCEPT ![p] =
           [c EXCEPT !.at = IF found.found THEN "served" ELSE "saving",
                     !.hit = found.found, !.read = disk.how, !.of = disk.by,
                     !.tables = tables,
                     !.bytes = IF found.found THEN <<>> ELSE FileBytes(Key(c), RowsOf[Subject(c)])]]
  /\ UNCHANGED <<sources, disk, calls>>

(* writeFileSync opens the file, which empties it.  A faulty one writes     *)
(* over what is there.                                                      *)
Overwritten(bytes) == bytes
Emptied(bytes) == <<>>
OpenFile(p) ==
  /\ proc[p].at = "saving"
  /\ disk' = [bytes |-> Emptied(disk.bytes), how |-> "cut", opener |-> p,
              by |-> [loaded |-> proc[p].loaded, stamped |-> proc[p].stamped, stamps |-> proc[p].stamps,
                      setup |-> proc[p].setup, added |-> proc[p].added]]
  /\ proc' = [proc EXCEPT ![p].at = "writing", ![p].written = 0]
  /\ UNCHANGED <<sources, calls>>

(* Bytes from..to at the process's own place; a file cut shorter by another *)
(* is filled up with zeros.                                                 *)
Put(bytes, from, to, new) ==
  [i \in 1..Max({Len(bytes), to}) |->
     IF i \in from..to THEN new[i] ELSE IF i <= Len(bytes) THEN bytes[i] ELSE 0]

WriteBytes(p) ==
  /\ proc[p].at = "writing"
  /\ \E n \in Portions :
       LET c == proc[p]
           to == Min({c.written + n, Len(c.bytes)})
           done == to = Len(c.bytes)
       IN  /\ disk' = [disk EXCEPT !.bytes = Put(@, c.written + 1, to, c.bytes),
                                   !.how = IF disk.opener # p THEN "mixed"
                                           ELSE IF done /\ @ = "cut" THEN "whole" ELSE @]
           /\ proc' = [proc EXCEPT ![p] = IF done THEN [c EXCEPT !.at = "served", !.bytes = <<>>, !.written = 0]
                                          ELSE [c EXCEPT !.written = to]]
  /\ UNCHANGED <<sources, calls>>

(* Opening or writing throws, which is caught: the caller never knows, and  *)
(* what was written stays.                                                  *)
SaveFails(p) ==
  /\ proc[p].at \in {"saving", "writing"}
  /\ proc' = [proc EXCEPT ![p].at = "served", ![p].bytes = <<>>, ![p].written = 0]
  /\ UNCHANGED <<sources, disk, calls>>

(* The same process asks again, after rules were added to what it loaded    *)
(* (jsx-parser's add()).                                                    *)
AddRulesAndCallAgain(p) ==
  /\ proc[p].at = "served" /\ ~proc[p].added /\ calls < MaxCalls
  /\ proc' = [proc EXCEPT ![p] = [Dead EXCEPT !.at = "called", !.setup = proc[p].setup, !.added = TRUE,
                                              !.loaded = proc[p].loaded]]
  /\ calls' = calls + 1
  /\ UNCHANGED <<sources, disk>>

(* The process ends, or is killed wherever it is.                           *)
Die(p) ==
  /\ proc[p].at # "idle"
  /\ proc' = [proc EXCEPT ![p] = Dead]
  /\ UNCHANGED <<sources, disk, calls>>

Edits == MapThenSumSet(LAMBDA s : sources[s].mtime - 1, SourceNames)
EditSource(s) ==
  /\ Edits < MaxEdits
  /\ \E c \in EditedTo(sources[s].content) :
       sources' = [sources EXCEPT ![s] = [content |-> c, mtime |-> @.mtime + 1]]
  /\ UNCHANGED <<disk, proc, calls>>

(* Somebody else appends to the file, or replaces it.                       *)
Spoil ==
  /\ disk.how = "whole"
  /\ \E bytes \in Spoiled(disk.bytes) : disk' = [disk EXCEPT !.bytes = bytes, !.how = "foreign"]
  /\ UNCHANGED <<sources, proc, calls>>

CacheNext ==
  \/ \E p \in Processes : \/ Start(p) \/ LoadModule(p) \/ StampSource(p) \/ ReadCache(p)
                          \/ OpenFile(p) \/ WriteBytes(p) \/ SaveFails(p)
                          \/ AddRulesAndCallAgain(p) \/ Die(p)
  \/ \E s \in SourceNames : EditSource(s)
  \/ Spoil

CacheSpec == CacheInit /\ [][CacheNext]_cacheVars
-----------------------------------------------------------------------------
(* The abstract cell: what a complete save put there.                       *)
Complete(c) == c.at # "idle" /\ Len(c.stamps) = SourceCount
Answered(c) == c.at \in {"saving", "writing", "served"}
BuiltFor(s) == TablesOf[s]
AllStamps == [SourceNames -> [mtime : 1..(MaxEdits + 1), size : {SizeOf(c) : c \in Contents}]]

Cell == INSTANCE TableCell WITH
  Callers <- Processes,
  KeyOf <- SubjectKey,
  Stamps <- AllStamps,
  Built <- BuiltFor,
  cell <- CASE disk.how = "absent" -> [is |-> "none"]
            [] disk.how = "whole" -> [is |-> "kept", key |-> SubjectKey(Subject(disk.by)), stamps |-> disk.by.stamps,
                                      tables |-> TablesOf[Subject(disk.by)]]
            [] OTHER -> [is |-> "damaged"],
  asked <- [p \in Processes |-> IF Complete(proc[p])
              THEN [is |-> "call", subject |-> Subject(proc[p]), stamps |-> proc[p].stamps] ELSE [is |-> "nothing"]],
  answer <- [p \in Processes |->
              IF ~Answered(proc[p]) THEN [is |-> "nothing"]
              ELSE IF proc[p].hit /\ proc[p].read # "whole" THEN [is |-> "garbage"]
              ELSE [is |-> "tables", tables |-> proc[p].tables]]

(* The bytes behave as one cell: a call is answered with what one complete  *)
(* save put there under the same key, or with its own tables; the codec     *)
(* gives back what it was given, and no other header passes for this one.   *)
CacheIsACell == Cell!CellSpec

(* What was saved to the end is found again under the same key: it is not   *)
(* built and written a second time.                                         *)
SavedIsFound == disk.how = "whole" => LoadTables(disk.bytes, Key(disk.by)).found

(* Grammars the digest is blind to: they differ in what rules do only.      *)
SameShape(g, h) ==
  /\ g.terms = h.terms /\ g.always = h.always /\ g.skip = h.skip
  /\ Len(g.rules) = Len(h.rules)
  /\ \A r \in 1..Len(g.rules) : \A field \in {"lhs", "rhs", "prec"} : g.rules[r][field] = h.rules[r][field]
Unedited(c) == c.loaded = c.stamped

(* Tables from the cache are those the process would have built: the stamps *)
(* see every edit, the digest every rule added or changed.  They part only  *)
(* where both fail: a source was edited after one of the two had loaded it  *)
(* and before it was stamped, by no more than an action or its absence.     *)
StaleOnlyIfUnstamped ==
  \A p \in Processes :
    LET c == proc[p]
    IN  c.hit /\ c.read = "whole" =>
          \/ c.tables = TablesOf[Subject(c)]
          \/ /\ ~Unedited(c) \/ ~Unedited(c.of)
             /\ SameShape(GrammarOfSubject(Subject(c)), GrammarOfSubject(Subject(c.of)))

(* tableCache.ts:146: "a truncated one (an interrupted write) [...] is a    *)
(* miss rather than a parse of garbage".                                    *)
TruncatedIsAMiss == \A p \in Processes : proc[p].hit => proc[p].read # "cut"
=============================================================================
