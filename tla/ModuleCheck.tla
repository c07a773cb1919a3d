---------------------------- MODULE ModuleCheck ----------------------------
(***************************************************************************)
(* TStypeCheckAsync (examples/TS/transform.ts): checks of entry programs   *)
(* that build the scopes of the modules they import.  A build is memoised  *)
(* on its module, joined by whoever asks meanwhile, and asks for other     *)
(* modules itself, one at a time; an import that would wait for itself is  *)
(* cut, and what was built short of it is tainted and not kept.            *)
(***************************************************************************)
EXTENDS Naturals, Sequences, FiniteSets

CONSTANTS
  Modules,     \* the modules' records
  Entries,     \* the entry programs, whose checks may overlap
  Names,       \* what may be declared and imported
  Programs     \* the programs to check: see Program

Tasks == Modules \cup Entries

(* A name in a scope: the module that declares it, and whether its type     *)
(* could be worked out (one left open is as good as `any`).                 *)
Bindings == [decl : Modules, typed : BOOLEAN]
Scopes == UNION {[names -> Bindings] : names \in SUBSET Names}
Renamings == UNION {[names -> Names] : names \in SUBSET Names}  \* new name -> name there
(* Import and re-export statements in source order; one whose `from` is no  *)
(* module cannot be resolved; `all` is `export *`.                          *)
Statements == [from : Modules \cup {"missing"}, all : BOOLEAN, as : Renamings]
Program == [checks : SUBSET Entries, declares : [Modules -> SUBSET Names],
            imports : [Tasks -> Seq(Statements)], exports : [Modules -> Seq(Statements)]]

ASSUME ModuleAssumption ==
  /\ Modules \cap Entries = {} /\ "missing" \notin Tasks
  /\ IsFiniteSet(Modules) /\ IsFiniteSet(Entries) /\ IsFiniteSet(Names)
  /\ \A p \in Programs : p \in Program

VARIABLES
  code,    \* the program
  memo,    \* module -> its memo: [shape, built, own], see Memos
  inner,   \* module -> `program.scope`, or Unset
  task,    \* a build or a check -> its locals, see Locals
  overlapped  \* history: the checks that ran while another did

moduleVars == <<code, memo, inner, task, overlapped>>

Unset == [unset |-> TRUE]
EmptyScope == [n \in {} |-> Unset]
Shapes == [scope : Scopes, tainted : BOOLEAN]
(* `built` is the settled promise's value, `own` the own exports.           *)
Memos == [shape : {"none", "pending", "settled"}, built : Shapes \cup {Unset}, own : Scopes \cup {Unset}]
(* at: "next" while the loader is asked for statement i, "cut" or "waiting" *)
(* for module `on`, "answered" once that has settled.                       *)
Locals == [phase : {"off", "imports", "exports", "done"}, i : Nat \ {0},
           at : {"next", "cut", "waiting", "answered"}, on : Tasks \cup {"none"}, reply : Shapes \cup {Unset},
           binds : Scopes, scope : Scopes, tainted : BOOLEAN]

Idle == [phase |-> "off", i |-> 1, at |-> "next", on |-> "none", reply |-> Unset,
         binds |-> EmptyScope, scope |-> EmptyScope, tainted |-> FALSE]

ModulesInit ==
  /\ code \in Programs
  /\ memo = [m \in Modules |-> [shape |-> "none", built |-> Unset, own |-> Unset]]
  /\ inner = [m \in Modules |-> Unset]
  /\ task = [t \in Tasks |-> Idle]
  /\ overlapped = {}
-----------------------------------------------------------------------------
(* `waiting`: an await of a module's scope ends when the awaiter resumes. *)
WaitsOn(t) == IF task[t].at \in {"waiting", "answered"} THEN {task[t].on} ELSE {}

(* wouldDeadlock: the waiter is reached from the target over `waiting`.     *)
(* A faulty one looks one step far.                                         *)
Closed(ts) == \A t \in ts : WaitsOn(t) \subseteq ts
WaitsDirectly(waiter, target) == waiter = target \/ waiter \in WaitsOn(target)
WouldDeadlock(waiter, target) ==
  \A ts \in SUBSET Tasks : target \in ts /\ Closed(ts) => waiter \in ts

Statement(t) ==
  IF task[t].phase = "imports" THEN code.imports[t][task[t].i] ELSE code.exports[t][task[t].i]
StatementsLeft(t) ==
  CASE task[t].phase = "imports" -> task[t].i <= Len(code.imports[t])
    [] task[t].phase = "exports" -> task[t].i <= Len(code.exports[t])
    [] OTHER -> FALSE

(* Scope.copy of every new name `as` maps, and of everything (copyAll).     *)
CopyInto(to, from, as) ==
  LET found == {n \in DOMAIN as : as[n] \in DOMAIN from}
  IN  [n \in DOMAIN to \cup found |-> IF n \in found THEN from[as[n]] ELSE to[n]]
Everything(scope) == [n \in DOMAIN scope |-> n]

(* A scope that has come is put where it belongs, and the next statement is *)
(* due.  A faulty one forgets the taint of re-exports, or of imports.       *)
TaintOfImports(l, tainted) == l.tainted \/ (l.phase = "imports" /\ tainted)
TaintOfBoth(l, tainted) == l.tainted \/ tainted
Advanced(l, stmt, scope, tainted) ==
  [l EXCEPT !.at = "next", !.on = "none", !.reply = Unset, !.i = @ + 1,
            !.tainted = TaintOfBoth(l, tainted),
            !.binds = IF l.phase = "imports" THEN CopyInto(@, scope, stmt.as) ELSE @,
            !.scope = IF l.phase = "exports"
                      THEN CopyInto(@, scope, IF stmt.all THEN Everything(scope) ELSE stmt.as) ELSE @]

(* What was built short of something is not kept.  A faulty memo keeps it.  *)
NeverEvictable(m) == FALSE
Evictable(m) == memo[m].shape = "settled" /\ memo[m].built.tainted
-----------------------------------------------------------------------------
(* TStypeCheckAsync is called. *)
Running == {e \in Entries : task[e].phase = "imports"}
StartCheck(e) ==
  /\ e \in code.checks /\ task[e].phase = "off"
  /\ task' = [task EXCEPT ![e].phase = "imports"]
  /\ overlapped' = IF Running = {} THEN overlapped ELSE overlapped \cup Running \cup {e}
  /\ UNCHANGED <<code, memo, inner>>

(* The loader has no such module. *)
SkipUnresolved(t) ==
  /\ StatementsLeft(t) /\ task[t].at = "next" /\ Statement(t).from \notin Modules
  /\ task' = [task EXCEPT ![t].i = @ + 1]
  /\ UNCHANGED <<code, memo, inner, overlapped>>

(* safely: the loader has answered and the module can only be waited for by *)
(* waiting for oneself.                                                     *)
Cut(t) ==
  /\ StatementsLeft(t) /\ task[t].at = "next" /\ Statement(t).from \in Modules
  /\ WouldDeadlock(t, Statement(t).from)
  /\ task' = [task EXCEPT ![t].at = "cut", ![t].on = Statement(t).from]
  /\ UNCHANGED <<code, memo, inner, overlapped>>

(* safely and makeScope: the memoised build is joined, or one is started. *)
Await(t) ==
  /\ StatementsLeft(t) /\ task[t].at = "next" /\ Statement(t).from \in Modules
  /\ ~WouldDeadlock(t, Statement(t).from)
  /\ LET m == Statement(t).from
         l == [task[t] EXCEPT !.at = IF memo[m].shape = "settled" THEN "answered" ELSE "waiting",
                              !.on = m, !.reply = memo[m].built]
     IN  IF memo[m].shape = "none"
         THEN /\ task' = [task EXCEPT ![t] = l, ![m] = [Idle EXCEPT !.phase = "imports"]]
              /\ memo' = [memo EXCEPT ![m].shape = "pending"]
         ELSE task' = [task EXCEPT ![t] = l] /\ UNCHANGED memo
  /\ UNCHANGED <<code, inner, overlapped>>

(* After a cut an import makes do with the own exports known by now; a      *)
(* re-export goes without.                                                  *)
GoOnWithout(t) ==
  /\ task[t].at = "cut"
  /\ LET own == memo[task[t].on].own
         fallback == task[t].phase = "imports" /\ own # Unset
     IN  task' = [task EXCEPT ![t] = Advanced(@, Statement(t), IF fallback THEN own ELSE EmptyScope, TRUE)]
  /\ UNCHANGED <<code, memo, inner, overlapped>>

(* A tainted build has been evicted by the time its awaiters resume: its    *)
(* eviction was the first to be told.                                       *)
Resume(t) ==
  /\ task[t].at = "answered"
  /\ ~Evictable(task[t].on)
  /\ task' = [task EXCEPT ![t] = Advanced(@, Statement(t), @.reply.scope, @.reply.tainted)]
  /\ UNCHANGED <<code, memo, inner, overlapped>>

(* exportScope: the own declarations, whose types are as good as what the   *)
(* imports brought.  Their scope is kept on the record unless one is there. *)
OwnScope(m) ==
  LET imported == UNION {DOMAIN s.as : s \in {code.imports[m][i] : i \in DOMAIN code.imports[m]}}
      typed == \A n \in imported : n \in DOMAIN task[m].binds /\ task[m].binds[n].typed
  IN  [n \in code.declares[m] |-> [decl |-> m, typed |-> typed]]

ExportOwn(m) ==
  /\ task[m].phase = "imports" /\ task[m].at = "next" /\ ~StatementsLeft(m)
  /\ task' = [task EXCEPT ![m].phase = "exports", ![m].i = 1, ![m].scope = OwnScope(m)]
  /\ memo' = [memo EXCEPT ![m].own = OwnScope(m)]
  /\ inner' = [inner EXCEPT ![m] = IF @ = Unset THEN task[m].binds ELSE @]
  /\ UNCHANGED <<code, overlapped>>

(* The build's promise settles, for whoever waits for it.  A faulty one     *)
(* has room for one continuation.                                           *)
OneAwaiter(m) == {CHOOSE t \in Tasks : task[t].at = "waiting" /\ task[t].on = m}
Awaiters(m) == {t \in Tasks : task[t].at = "waiting" /\ task[t].on = m}
Settle(m) ==
  /\ task[m].phase = "exports" /\ task[m].at = "next" /\ ~StatementsLeft(m)
  /\ LET built == [scope |-> task[m].scope, tainted |-> task[m].tainted]
     IN  /\ memo' = [memo EXCEPT ![m].shape = "settled", ![m].built = built]
         /\ task' = [t \in Tasks |->
                       IF t = m THEN Idle
                       ELSE IF t \in Awaiters(m)
                       THEN [task[t] EXCEPT !.at = "answered", !.reply = built]
                       ELSE task[t]]
  /\ UNCHANGED <<code, inner, overlapped>>

(* The settled promise's own continuation. *)
Evict(m) ==
  /\ Evictable(m)
  /\ memo' = [memo EXCEPT ![m].shape = "none", ![m].built = Unset]
  /\ UNCHANGED <<code, inner, task, overlapped>>

(* The program is checked under what its imports brought. *)
EndCheck(e) ==
  /\ task[e].phase = "imports" /\ task[e].at = "next" /\ ~StatementsLeft(e)
  /\ task' = [task EXCEPT ![e].phase = "done"]
  /\ UNCHANGED <<code, memo, inner, overlapped>>

Go(t) == SkipUnresolved(t) \/ Cut(t) \/ Await(t) \/ GoOnWithout(t) \/ Resume(t)
Build(m) == Go(m) \/ ExportOwn(m) \/ Settle(m)
CheckOf(e) == Go(e) \/ EndCheck(e)

ModulesNext ==
  \/ \E e \in Entries : StartCheck(e) \/ CheckOf(e)
  \/ \E m \in Modules : Build(m) \/ Evict(m)

(* Files are read and continuations run; a check need not be asked for. *)
ModulesSpec ==
  /\ ModulesInit /\ [][ModulesNext]_moduleVars
  /\ \A m \in Modules : WF_moduleVars(Build(m)) /\ WF_moduleVars(Evict(m))
  /\ \A e \in Entries : WF_moduleVars(CheckOf(e))
-----------------------------------------------------------------------------
(* Whatever the order files come in and checks overlap, no builds and       *)
(* checks wait for one another in a circle: none would ever settle.         *)
NoWaitCycle ==
  \A ts \in (SUBSET Tasks) \ {{}} : \E t \in ts : WaitsOn(t) \cap ts = {}

(* Every check that is started comes to its end: a cut import, an eviction  *)
(* or a build started over never leaves one waiting for ever.               *)
ChecksEnd == \A e \in Entries : task[e].phase = "imports" ~> task[e].phase = "done"
=============================================================================
