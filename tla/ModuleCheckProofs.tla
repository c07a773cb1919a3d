-------------------------- MODULE ModuleCheckProofs --------------------------
(***************************************************************************)
(* What TStypeCheckAsync keeps to for every set of modules and programs:   *)
(* its locals and memos have their types, a module's memo says whether its *)
(* build is under way, and builds and checks never wait in a circle, so    *)
(* that one of them can always go on.                                      *)
(***************************************************************************)
EXTENDS ModuleCheck, TLAPS

(* A task is busy with a statement while it is not between two of them;     *)
(* what an answered one resumes with is there.                              *)
TaskOK(t) ==
  /\ task[t] \in Locals
  /\ task[t].phase = "exports" => t \in Modules
  /\ task[t].at # "next" => task[t].on \in Modules /\ StatementsLeft(t)
  /\ task[t].at = "answered" => task[t].reply \in Shapes

MemoOK(m) ==
  /\ memo[m] \in Memos
  /\ memo[m].shape = "settled" => memo[m].built \in Shapes

(* Every variable has its type, and what is read of a local or a memo is    *)
(* there when it is read.                                                   *)
ModulesTypeOK ==
  /\ code \in Programs
  /\ DOMAIN memo = Modules /\ \A m \in Modules : MemoOK(m)
  /\ inner \in [Modules -> Scopes \cup {Unset}]
  /\ task = [t \in Tasks |-> task[t]] /\ \A t \in Tasks : TaskOK(t)
  /\ overlapped \subseteq Entries

(* A module's memo is pending exactly while its build runs, and whoever     *)
(* waits for a module waits for a pending one: no build is lost or run      *)
(* twice at a time, and no promise waited for was dropped.                  *)
BuildsTracked ==
  /\ \A m \in Modules : memo[m].shape = "pending" <=> task[m].phase \in {"imports", "exports"}
  /\ \A t \in Tasks : /\ task[t].at = "waiting" => memo[task[t].on].shape = "pending"
                      /\ task[t].phase \in {"off", "done"} => task[t].at = "next"

(* While a check is unfinished, somebody has something to do other than     *)
(* wait.                                                                    *)
Unfinished(t) == task[t].phase \in {"imports", "exports"}
SomeoneGoesOn ==
  (\E t \in Tasks : Unfinished(t)) => \E t \in Tasks : Unfinished(t) /\ task[t].at # "waiting"

(* A build that lacked nothing is kept as it is for good.                   *)
CleanKept(m) == memo[m].shape = "settled" /\ ~memo[m].built.tainted => memo'[m] = memo[m]
-----------------------------------------------------------------------------
(* What the scopes' operators make of scopes and renamings. *)
LEMMA EmptyScopeType == EmptyScope \in Scopes
  <1>1. EmptyScope \in [{} -> Bindings]
    BY DEF EmptyScope
  <1> QED
    BY <1>1 DEF Scopes

LEMMA CopyType ==
  ASSUME NEW to \in Scopes, NEW from \in Scopes, NEW as \in Renamings
  PROVE  CopyInto(to, from, as) \in Scopes
  <1> DEFINE found == {n \in DOMAIN as : as[n] \in DOMAIN from}
  <1>1. PICK here \in SUBSET Names : to \in [here -> Bindings]
    BY DEF Scopes
  <1>2. PICK there \in SUBSET Names : from \in [there -> Bindings]
    BY DEF Scopes
  <1>3. PICK new \in SUBSET Names : as \in [new -> Names]
    BY DEF Renamings
  <1>4. CopyInto(to, from, as) \in [here \cup found -> Bindings]
    BY <1>1, <1>2, <1>3 DEF CopyInto
  <1>5. here \cup found \in SUBSET Names
    BY <1>3
  <1> QED
    BY <1>4, <1>5 DEF Scopes

LEMMA EverythingType ==
  ASSUME NEW scope \in Scopes
  PROVE  Everything(scope) \in Renamings
  <1>1. PICK here \in SUBSET Names : scope \in [here -> Bindings]
    BY DEF Scopes
  <1>2. Everything(scope) \in [here -> Names]
    BY <1>1 DEF Everything
  <1> QED
    BY <1>2 DEF Renamings

LEMMA OwnScopeType ==
  ASSUME code \in Programs, NEW m \in Modules
  PROVE  OwnScope(m) \in Scopes
  <1>1. code.declares[m] \in SUBSET Names
    BY ModuleAssumption DEF Program
  <1>2. OwnScope(m) \in [code.declares[m] -> Bindings]
    BY DEF OwnScope, Bindings
  <1> QED
    BY <1>1, <1>2 DEF Scopes

(* The statement a task has come to is one of its program's. *)
LEMMA StatementType ==
  ASSUME code \in Programs, NEW t \in Tasks, TaskOK(t), StatementsLeft(t)
  PROVE  Statement(t) \in Statements
  <1>1. code \in Program
    BY ModuleAssumption
  <1>2. task[t].i \in Nat \ {0}
    BY DEF TaskOK, Locals
  <1>3. CASE task[t].phase = "imports"
    <2>1. code.imports[t] \in Seq(Statements)
      BY <1>1 DEF Program
    <2> QED
      BY <1>2, <1>3, <2>1 DEF StatementsLeft, Statement
  <1>4. CASE task[t].phase = "exports"
    <2>1. code.exports[t] \in Seq(Statements)
      BY <1>1, <1>4 DEF Program, TaskOK
    <2> QED
      BY <1>2, <1>4, <2>1 DEF StatementsLeft, Statement
  <1> QED
    BY <1>3, <1>4 DEF StatementsLeft

LEMMA AdvancedType ==
  ASSUME NEW l \in Locals, NEW stmt \in Statements, NEW scope \in Scopes, NEW tainted \in BOOLEAN
  PROVE  /\ Advanced(l, stmt, scope, tainted) \in Locals
         /\ Advanced(l, stmt, scope, tainted).phase = l.phase
         /\ Advanced(l, stmt, scope, tainted).at = "next"
  <1>1. stmt.as \in Renamings /\ Everything(scope) \in Renamings
    BY EverythingType DEF Statements
  <1>2. l.binds \in Scopes /\ l.scope \in Scopes /\ l.i \in Nat /\ l.tainted \in BOOLEAN
    BY DEF Locals
  <1>3. CopyInto(l.binds, scope, stmt.as) \in Scopes
    BY <1>1, <1>2, CopyType
  <1>4. CopyInto(l.scope, scope, IF stmt.all THEN Everything(scope) ELSE stmt.as) \in Scopes
    <2>1. (IF stmt.all THEN Everything(scope) ELSE stmt.as) \in Renamings
      BY <1>1
    <2> QED
      BY <1>2, <2>1, CopyType
  <1>5. TaintOfBoth(l, tainted) \in BOOLEAN
    BY DEF TaintOfBoth
  <1> DEFINE taint == TaintOfBoth(l, tainted)
             binds == CopyInto(l.binds, scope, stmt.as)
             exported == CopyInto(l.scope, scope, IF stmt.all THEN Everything(scope) ELSE stmt.as)
             new == [phase |-> l.phase, i |-> l.i + 1, at |-> "next", on |-> "none", reply |-> Unset,
                     binds |-> IF l.phase = "imports" THEN binds ELSE l.binds,
                     scope |-> IF l.phase = "exports" THEN exported ELSE l.scope,
                     tainted |-> taint]
  <1>6. Advanced(l, stmt, scope, tainted) = new
    <2>1. l = [phase |-> l.phase, i |-> l.i, at |-> l.at, on |-> l.on, reply |-> l.reply,
               binds |-> l.binds, scope |-> l.scope, tainted |-> l.tainted]
      BY DEF Locals
    <2>2. Advanced(l, stmt, scope, tainted) =
            [l EXCEPT !.at = "next", !.on = "none", !.reply = Unset, !.i = l.i + 1, !.tainted = taint,
                      !.binds = IF l.phase = "imports" THEN binds ELSE l.binds,
                      !.scope = IF l.phase = "exports" THEN exported ELSE l.scope]
      BY DEF Advanced
    <2> HIDE DEF taint, binds, exported
    <2> QED
      BY <2>1, <2>2
  <1>7. l.phase \in {"off", "imports", "exports", "done"} /\ l.i + 1 \in Nat \ {0}
    BY DEF Locals
  <1> HIDE DEF taint, binds, exported
  <1>8. new \in Locals
    BY <1>2, <1>3, <1>4, <1>5, <1>7 DEF Locals, taint, binds, exported
  <1> QED
    BY <1>6, <1>8
-----------------------------------------------------------------------------
(* A task that is left alone is as it was. *)
LEMMA TaskFrame ==
  ASSUME NEW t \in Tasks, TaskOK(t), task'[t] = task[t], code' = code
  PROVE  TaskOK(t)'
  BY DEF TaskOK, StatementsLeft

(* Where a task has come to is said by its phase and its counter. *)
LEMMA SameStatement ==
  ASSUME NEW t \in Tasks, code' = code,
         task'[t].phase = task[t].phase, task'[t].i = task[t].i
  PROVE  StatementsLeft(t)' = StatementsLeft(t)
  BY DEF StatementsLeft

(* Whoever asks for itself would wait in a circle. *)
LEMMA NeverForOneself ==
  ASSUME NEW t
  PROVE  WouldDeadlock(t, t)
  BY DEF WouldDeadlock

(* One task goes on: the others keep their locals. *)
LEMMA TaskStep ==
  ASSUME ModulesTypeOK, code' = code, NEW t \in Tasks, NEW l,
         task' = [task EXCEPT ![t] = l], TaskOK(t)'
  PROVE  task' = [u \in Tasks |-> task'[u]] /\ \A u \in Tasks : TaskOK(u)'
  <1>1. task' = [u \in Tasks |-> task'[u]]
    BY DEF ModulesTypeOK
  <1>2. ASSUME NEW u \in Tasks PROVE TaskOK(u)'
    <2>1. CASE u = t
      BY <2>1
    <2>2. CASE u # t
      BY <2>2, TaskFrame DEF ModulesTypeOK
    <2> QED
      BY <2>1, <2>2
  <1> QED
    BY <1>1, <1>2

LEMMA IdleType == Idle \in Locals
  BY EmptyScopeType DEF Idle, Locals

(* A task between two statements has nothing more to keep to. *)
LEMMA BetweenStatements ==
  ASSUME NEW t \in Tasks, task'[t] \in Locals, task'[t].at = "next",
         task'[t].phase = "exports" => t \in Modules
  PROVE  TaskOK(t)'
  BY DEF TaskOK

(* Every variable keeps its type, through overlapping checks, cuts,         *)
(* evictions and builds started over.                                       *)
THEOREM ModulesTypeCorrect == ModulesSpec => []ModulesTypeOK
  <1>1. ModulesInit => ModulesTypeOK
    <2> SUFFICES ASSUME ModulesInit PROVE ModulesTypeOK
      OBVIOUS
    <2>1. \A m \in Modules : MemoOK(m)
      BY DEF ModulesInit, MemoOK, Memos
    <2>2. ASSUME NEW t \in Tasks PROVE TaskOK(t)
      BY IdleType DEF ModulesInit, TaskOK, Idle
    <2> QED
      BY <2>1, <2>2 DEF ModulesInit, ModulesTypeOK
  <1>2. ModulesTypeOK /\ [ModulesNext]_moduleVars => ModulesTypeOK'
    <2> SUFFICES ASSUME ModulesTypeOK, [ModulesNext]_moduleVars PROVE ModulesTypeOK'
      OBVIOUS
    <2>0. (\A m \in Modules : MemoOK(m)) /\ (\A t \in Tasks : TaskOK(t))
      BY DEF ModulesTypeOK
    <2>1. ASSUME NEW e \in Entries, StartCheck(e) PROVE ModulesTypeOK'
      <3>1. e \in Tasks /\ task[e] \in Locals /\ task[e].at = "next"
        BY <2>0, <2>1 DEF TaskOK, Tasks, StartCheck, StatementsLeft
      <3>2. TaskOK(e)'
        BY <3>1, <2>1 DEF StartCheck, TaskOK, Locals, ModulesTypeOK
      <3>3. overlapped' \subseteq Entries
        BY <2>1 DEF StartCheck, Running, ModulesTypeOK
      <3> QED
        BY <2>1, <3>1, <3>2, <3>3, TaskStep DEF StartCheck, ModulesTypeOK, MemoOK
    <2>2. ASSUME NEW t \in Tasks, SkipUnresolved(t) PROVE ModulesTypeOK'
      <3>1. task[t] \in Locals /\ task[t].at = "next"
        BY <2>0, <2>2 DEF TaskOK, SkipUnresolved
      <3>2. task'[t] = [task[t] EXCEPT !.i = @ + 1]
        BY <2>2 DEF SkipUnresolved, ModulesTypeOK
      <3>3. TaskOK(t)'
        BY <2>0, <3>1, <3>2, BetweenStatements DEF TaskOK, Locals
      <3> QED
        BY <2>2, <3>3, TaskStep DEF SkipUnresolved, ModulesTypeOK, MemoOK
    <2>3. ASSUME NEW t \in Tasks, Cut(t) PROVE ModulesTypeOK'
      <3> DEFINE l == [task[t] EXCEPT !.at = "cut", !.on = Statement(t).from]
      <3>1. task' = [task EXCEPT ![t] = l] /\ code' = code /\ task'[t] = l
        BY <2>3 DEF Cut, ModulesTypeOK
      <3>2. task[t] \in Locals /\ Statement(t).from \in Modules /\ StatementsLeft(t)
        BY <2>0, <2>3 DEF TaskOK, Cut
      <3>3. l \in Locals /\ l.phase = task[t].phase /\ l.i = task[t].i /\ l.at = "cut" /\ l.on \in Modules
        BY <3>2 DEF Locals, Tasks
      <3>4. TaskOK(t)'
        BY <2>0, <3>1, <3>2, <3>3, SameStatement DEF TaskOK
      <3> QED
        BY <2>3, <3>1, <3>4, TaskStep DEF Cut, ModulesTypeOK, MemoOK
    <2>4. ASSUME NEW t \in Tasks, Await(t) PROVE ModulesTypeOK'
      <3>0. PICK m \in Modules : m = Statement(t).from
        BY <2>4 DEF Await
      <3> DEFINE l == [task[t] EXCEPT !.at = IF memo[m].shape = "settled" THEN "answered" ELSE "waiting",
                                      !.on = m, !.reply = memo[m].built]
                 fresh == [Idle EXCEPT !.phase = "imports"]
      <3>1. task[t] \in Locals /\ m \in Modules /\ StatementsLeft(t) /\ m # t /\ code' = code
        <4>1. ~WouldDeadlock(t, m) /\ StatementsLeft(t) /\ code' = code
          BY <2>4, <3>0 DEF Await
        <4> QED
          BY <2>0, <4>1, NeverForOneself DEF TaskOK
      <3>2. MemoOK(m) /\ memo[m].built \in Shapes \cup {Unset}
        BY <2>0, <3>1 DEF MemoOK, Memos
      <3>3. l \in Locals /\ l.phase = task[t].phase /\ l.i = task[t].i /\ l.on \in Modules
            /\ (l.at = "answered" => l.reply \in Shapes)
        BY <3>1, <3>2 DEF Locals, Tasks, MemoOK
      <3>4. fresh \in Locals /\ fresh.at = "next" /\ fresh.phase = "imports"
        BY IdleType DEF Idle, Locals
      <3>5. CASE memo[m].shape = "none"
        <4>1. task' = [task EXCEPT ![t] = l, ![m] = fresh] /\ memo' = [memo EXCEPT ![m].shape = "pending"]
          BY <2>4, <3>0, <3>5 DEF Await
        <4>2. task'[t] = l /\ task'[m] = fresh /\ \A u \in Tasks \ {t, m} : task'[u] = task[u]
          BY <3>1, <4>1 DEF ModulesTypeOK, Tasks
        <4> HIDE DEF l, fresh
        <4>3. TaskOK(t)'
          BY <2>0, <3>1, <3>3, <4>2, SameStatement DEF TaskOK
        <4>4. TaskOK(m)'
          BY <3>1, <3>4, <4>2, BetweenStatements DEF Tasks
        <4>5. ASSUME NEW u \in Tasks PROVE TaskOK(u)'
          <5>1. CASE u \in {t, m}
            BY <4>3, <4>4, <5>1
          <5>2. CASE u \notin {t, m}
            BY <2>0, <3>1, <4>2, <5>2, TaskFrame
          <5> QED
            BY <5>1, <5>2
        <4>6. task' = [u \in Tasks |-> task'[u]]
          BY <4>1 DEF ModulesTypeOK
        <4>7. ASSUME NEW n \in Modules PROVE MemoOK(n)'
          BY <2>0, <4>1 DEF MemoOK, Memos, ModulesTypeOK
        <4> QED
          BY <2>4, <4>1, <4>5, <4>6, <4>7 DEF Await, ModulesTypeOK
      <3>6. CASE memo[m].shape # "none"
        <4>1. task' = [task EXCEPT ![t] = l] /\ memo' = memo /\ task'[t] = l
          BY <2>4, <3>0, <3>6 DEF Await, ModulesTypeOK
        <4>2. TaskOK(t)'
          BY <2>0, <3>1, <3>3, <4>1, SameStatement DEF TaskOK
        <4> QED
          BY <2>4, <3>1, <4>1, <4>2, TaskStep DEF Await, ModulesTypeOK, MemoOK
      <3> QED
        BY <3>5, <3>6
    <2>5. ASSUME NEW t \in Tasks, GoOnWithout(t) PROVE ModulesTypeOK'
      <3> DEFINE own == memo[task[t].on].own
                 fallback == task[t].phase = "imports" /\ own # Unset
                 l == Advanced(task[t], Statement(t), IF fallback THEN own ELSE EmptyScope, TRUE)
      <3>1. task[t] \in Locals /\ task[t].on \in Modules /\ StatementsLeft(t)
        BY <2>0, <2>5 DEF TaskOK, GoOnWithout
      <3>2. Statement(t) \in Statements
        BY <2>0, <3>1, StatementType DEF ModulesTypeOK
      <3>3. (IF fallback THEN own ELSE EmptyScope) \in Scopes
        BY <2>0, <3>1, EmptyScopeType DEF MemoOK, Memos
      <3>4. l \in Locals /\ l.phase = task[t].phase /\ l.at = "next"
        BY <3>1, <3>2, <3>3, AdvancedType
      <3>5. task' = [task EXCEPT ![t] = l] /\ task'[t] = l /\ code' = code /\ memo' = memo
        BY <2>5 DEF GoOnWithout, ModulesTypeOK
      <3>6. TaskOK(t)'
        BY <2>0, <3>4, <3>5, BetweenStatements DEF TaskOK
      <3> QED
        BY <2>5, <3>5, <3>6, TaskStep DEF GoOnWithout, ModulesTypeOK, MemoOK
    <2>6. ASSUME NEW t \in Tasks, Resume(t) PROVE ModulesTypeOK'
      <3> DEFINE l == Advanced(task[t], Statement(t), task[t].reply.scope, task[t].reply.tainted)
      <3>1. task[t] \in Locals /\ StatementsLeft(t) /\ task[t].reply \in Shapes
        BY <2>0, <2>6 DEF TaskOK, Resume
      <3>2. Statement(t) \in Statements
        BY <2>0, <3>1, StatementType DEF ModulesTypeOK
      <3>3. l \in Locals /\ l.phase = task[t].phase /\ l.at = "next"
        BY <3>1, <3>2, AdvancedType DEF Shapes
      <3>4. task' = [task EXCEPT ![t] = l] /\ task'[t] = l /\ code' = code /\ memo' = memo
        BY <2>6 DEF Resume, ModulesTypeOK
      <3>5. TaskOK(t)'
        BY <2>0, <3>3, <3>4, BetweenStatements DEF TaskOK
      <3> QED
        BY <2>6, <3>4, <3>5, TaskStep DEF Resume, ModulesTypeOK, MemoOK
    <2>7. ASSUME NEW m \in Modules, ExportOwn(m) PROVE ModulesTypeOK'
      <3> DEFINE l == [task[m] EXCEPT !.phase = "exports", !.i = 1, !.scope = OwnScope(m)]
      <3>1. m \in Tasks /\ task[m] \in Locals /\ OwnScope(m) \in Scopes /\ task[m].binds \in Scopes
        BY <2>0, OwnScopeType DEF TaskOK, Tasks, ModulesTypeOK, Locals
      <3>2. task' = [task EXCEPT ![m] = l] /\ task'[m] = l /\ code' = code
        BY <2>7, <3>1 DEF ExportOwn, ModulesTypeOK
      <3>3. l \in Locals /\ l.at = "next"
        <4>1. task[m].at = "next"
          BY <2>7 DEF ExportOwn
        <4>2. PICK n \in Nat \ {0} : n = 1
          OBVIOUS
        <4>3. [task[m] EXCEPT !.phase = "exports", !.i = n, !.scope = OwnScope(m)] \in Locals
          BY <3>1 DEF Locals
        <4>4. l.at = "next"
          BY <3>1, <4>1 DEF Locals
        <4> QED
          BY <4>2, <4>3, <4>4
      <3>4. TaskOK(m)'
        BY <3>1, <3>2, <3>3, BetweenStatements
      <3>5. inner' \in [Modules -> Scopes \cup {Unset}]
        BY <2>7, <3>1 DEF ExportOwn, ModulesTypeOK
      <3>6. DOMAIN memo' = Modules /\ \A n \in Modules : MemoOK(n)'
        BY <2>0, <2>7, <3>1 DEF ExportOwn, MemoOK, Memos, ModulesTypeOK
      <3> QED
        BY <2>7, <3>1, <3>2, <3>4, <3>5, <3>6, TaskStep DEF ExportOwn, ModulesTypeOK
    <2>8. ASSUME NEW m \in Modules, Settle(m) PROVE ModulesTypeOK'
      <3> DEFINE built == [scope |-> task[m].scope, tainted |-> task[m].tainted]
      <3>1. built \in Shapes
        BY <2>0 DEF TaskOK, Tasks, Locals, Shapes
      <3>2. DOMAIN memo' = Modules /\ \A n \in Modules : MemoOK(n)'
        BY <2>0, <2>8, <3>1 DEF Settle, MemoOK, Memos, ModulesTypeOK
      <3>3. task' = [u \in Tasks |-> task'[u]] /\ code' = code
        BY <2>8 DEF Settle
      <3>4. ASSUME NEW u \in Tasks PROVE TaskOK(u)'
        <4>1. CASE u = m
          <5>1. task'[u] = Idle
            BY <2>8, <4>1 DEF Settle
          <5> QED
            BY <5>1, IdleType, BetweenStatements DEF Idle
        <4>2. CASE u # m /\ u \in Awaiters(m)
          <5> DEFINE l == [task[u] EXCEPT !.at = "answered", !.reply = built]
          <5>1. task'[u] = l
            BY <2>8, <4>2 DEF Settle
          <5>2. task[u] \in Locals /\ task[u].on \in Modules /\ StatementsLeft(u)
            BY <2>0, <4>2 DEF TaskOK, Awaiters
          <5>3. l \in Locals /\ l.phase = task[u].phase /\ l.i = task[u].i /\ l.on \in Modules /\ l.reply = built
            BY <3>1, <5>2 DEF Locals
          <5> QED
            BY <2>0, <3>1, <3>3, <5>1, <5>2, <5>3, SameStatement DEF TaskOK
        <4>3. CASE u # m /\ u \notin Awaiters(m)
          <5>1. task'[u] = task[u]
            BY <2>8, <4>3 DEF Settle
          <5> QED
            BY <2>0, <3>3, <5>1, TaskFrame
        <4> QED
          BY <4>1, <4>2, <4>3
      <3> QED
        BY <2>8, <3>2, <3>3, <3>4 DEF Settle, ModulesTypeOK
    <2>9. ASSUME NEW m \in Modules, Evict(m) PROVE ModulesTypeOK'
      <3>1. DOMAIN memo' = Modules /\ \A n \in Modules : MemoOK(n)'
        BY <2>0, <2>9 DEF Evict, MemoOK, Memos, ModulesTypeOK
      <3> QED
        BY <2>9, <3>1 DEF Evict, ModulesTypeOK, TaskOK, StatementsLeft
    <2>10. ASSUME NEW e \in Entries, EndCheck(e) PROVE ModulesTypeOK'
      <3> DEFINE l == [task[e] EXCEPT !.phase = "done"]
      <3>1. e \in Tasks /\ task[e] \in Locals /\ task[e].at = "next"
        BY <2>0, <2>10 DEF TaskOK, Tasks, EndCheck
      <3>2. task' = [task EXCEPT ![e] = l] /\ task'[e] = l /\ code' = code /\ memo' = memo
        BY <2>10, <3>1 DEF EndCheck, ModulesTypeOK
      <3>3. l \in Locals /\ l.at = "next" /\ l.phase = "done"
        BY <3>1 DEF Locals
      <3>4. TaskOK(e)'
        BY <3>1, <3>2, <3>3, BetweenStatements
      <3> QED
        BY <2>10, <3>1, <3>2, <3>4, TaskStep DEF EndCheck, ModulesTypeOK, MemoOK
    <2>11. CASE UNCHANGED moduleVars
      BY <2>11 DEF moduleVars, ModulesTypeOK, MemoOK, TaskOK, StatementsLeft
    <2> QED
      BY <2>1, <2>2, <2>3, <2>4, <2>5, <2>6, <2>7, <2>8, <2>9, <2>10, <2>11
      DEF ModulesNext, CheckOf, Build, Go, Tasks
  <1> QED
    BY <1>1, <1>2, PTL DEF ModulesSpec
-----------------------------------------------------------------------------
(* A task goes on without starting a build, ending one or waiting. *)
LEMMA TrackedStep ==
  ASSUME ModulesTypeOK, BuildsTracked, NEW t \in Tasks, NEW l,
         task' = [task EXCEPT ![t] = l],
         \A m \in Modules : memo'[m].shape = memo[m].shape,
         l.at # "waiting", l.phase \in {"off", "done"} => l.at = "next",
         t \in Modules => (l.phase \in {"imports", "exports"} <=> Unfinished(t))
  PROVE  BuildsTracked'
  <1>1. task'[t] = l /\ \A u \in Tasks \ {t} : task'[u] = task[u]
    BY DEF ModulesTypeOK
  <1>2. ASSUME NEW m \in Modules
        PROVE  memo'[m].shape = "pending" <=> task'[m].phase \in {"imports", "exports"}
    BY <1>1, <1>2 DEF BuildsTracked, Unfinished, Tasks
  <1>3. ASSUME NEW u \in Tasks
        PROVE  /\ task'[u].at = "waiting" => memo'[task'[u].on].shape = "pending"
               /\ task'[u].phase \in {"off", "done"} => task'[u].at = "next"
    <2>1. CASE u = t
      BY <1>1, <2>1
    <2>2. CASE u # t
      BY <1>1, <2>2 DEF BuildsTracked, ModulesTypeOK, TaskOK
    <2> QED
      BY <2>1, <2>2
  <1> QED
    BY <1>2, <1>3 DEF BuildsTracked

(* Memos and builds go together through every step. *)
LEMMA TrackingKept ==
  ModulesTypeOK /\ BuildsTracked /\ [ModulesNext]_moduleVars => BuildsTracked'
  <1> SUFFICES ASSUME ModulesTypeOK, BuildsTracked, [ModulesNext]_moduleVars PROVE BuildsTracked'
    OBVIOUS
  <1>0. (\A m \in Modules : MemoOK(m)) /\ (\A t \in Tasks : TaskOK(t))
    BY DEF ModulesTypeOK
  <1>1. ASSUME NEW e \in Entries, StartCheck(e) PROVE BuildsTracked'
    <2> DEFINE l == [task[e] EXCEPT !.phase = "imports"]
    <2>1. e \in Tasks /\ e \notin Modules /\ task[e] \in Locals /\ task[e].at = "next"
      BY <1>0, <1>1, ModuleAssumption DEF TaskOK, Tasks, StartCheck, BuildsTracked
    <2>2. l.phase = "imports" /\ l.at = "next"
      BY <2>1 DEF Locals
    <2>3. task' = [task EXCEPT ![e] = l] /\ memo' = memo
      BY <1>1 DEF StartCheck
    <2> QED
      BY <2>1, <2>2, <2>3, TrackedStep
  <1>2. ASSUME NEW t \in Tasks, SkipUnresolved(t) PROVE BuildsTracked'
    <2> DEFINE l == [task[t] EXCEPT !.i = @ + 1]
    <2>1. l.phase = task[t].phase /\ l.at = "next"
      BY <1>0, <1>2 DEF SkipUnresolved, TaskOK, Locals
    <2>2. task' = [task EXCEPT ![t] = l] /\ memo' = memo
      BY <1>2 DEF SkipUnresolved
    <2> QED
      BY <2>1, <2>2, TrackedStep DEF Unfinished
  <1>3. ASSUME NEW t \in Tasks, Cut(t) PROVE BuildsTracked'
    <2> DEFINE l == [task[t] EXCEPT !.at = "cut", !.on = Statement(t).from]
    <2>1. l.phase = task[t].phase /\ l.at = "cut" /\ l.phase \in {"imports", "exports"}
      BY <1>0, <1>3 DEF Cut, TaskOK, Locals, StatementsLeft
    <2>2. task' = [task EXCEPT ![t] = l] /\ memo' = memo
      BY <1>3 DEF Cut
    <2> QED
      BY <2>1, <2>2, TrackedStep DEF Unfinished
  <1>4. ASSUME NEW t \in Tasks, Await(t) PROVE BuildsTracked'
    <2>0. PICK m \in Modules : m = Statement(t).from
      BY <1>4 DEF Await
    <2> DEFINE l == [task[t] EXCEPT !.at = IF memo[m].shape = "settled" THEN "answered" ELSE "waiting",
                                    !.on = m, !.reply = memo[m].built]
               fresh == [Idle EXCEPT !.phase = "imports"]
    <2>1. m # t /\ StatementsLeft(t) /\ task[t] \in Locals
      <3>1. ~WouldDeadlock(t, m) /\ StatementsLeft(t)
        BY <1>4, <2>0 DEF Await
      <3> QED
        BY <1>0, <3>1, NeverForOneself DEF TaskOK
    <2>2. l.phase = task[t].phase /\ l.phase \in {"imports", "exports"} /\ l.on = m
          /\ l.at = (IF memo[m].shape = "settled" THEN "answered" ELSE "waiting")
      BY <2>1 DEF Locals, StatementsLeft
    <2>3. fresh.phase = "imports" /\ fresh.at = "next"
      BY DEF Idle
    <2>4. CASE memo[m].shape = "none"
      <3>1. task' = [task EXCEPT ![t] = l, ![m] = fresh] /\ memo' = [memo EXCEPT ![m].shape = "pending"]
        BY <1>4, <2>0, <2>4 DEF Await
      <3>2. task'[t] = l /\ task'[m] = fresh /\ \A u \in Tasks \ {t, m} : task'[u] = task[u]
        BY <2>1, <3>1 DEF ModulesTypeOK, Tasks
      <3>3. memo'[m].shape = "pending" /\ \A n \in Modules \ {m} : memo'[n] = memo[n]
        BY <1>0, <3>1 DEF ModulesTypeOK, MemoOK, Memos
      <3> HIDE DEF l, fresh
      <3>4. ASSUME NEW n \in Modules
            PROVE  memo'[n].shape = "pending" <=> task'[n].phase \in {"imports", "exports"}
        BY <2>1, <2>2, <2>3, <3>2, <3>3 DEF BuildsTracked, Tasks
      <3>5. ASSUME NEW u \in Tasks
            PROVE  /\ task'[u].at = "waiting" => memo'[task'[u].on].shape = "pending"
                   /\ task'[u].phase \in {"off", "done"} => task'[u].at = "next"
        <4>1. CASE u = t
          BY <2>2, <3>2, <3>3, <4>1
        <4>2. CASE u = m
          BY <2>3, <3>2, <4>2
        <4>3. CASE u \notin {t, m}
          BY <1>0, <3>2, <3>3, <4>3 DEF BuildsTracked, TaskOK
        <4> QED
          BY <4>1, <4>2, <4>3
      <3> QED
        BY <3>4, <3>5 DEF BuildsTracked
    <2>5. CASE memo[m].shape # "none"
      <3>1. task' = [task EXCEPT ![t] = l] /\ memo' = memo
        BY <1>4, <2>0, <2>5 DEF Await
      <3>2. task'[t] = l /\ \A u \in Tasks \ {t} : task'[u] = task[u]
        BY <3>1 DEF ModulesTypeOK
      <3>3. memo[m].shape \in {"pending", "settled"}
        BY <1>0, <2>5 DEF MemoOK, Memos
      <3> HIDE DEF l
      <3>4. ASSUME NEW n \in Modules
            PROVE  memo'[n].shape = "pending" <=> task'[n].phase \in {"imports", "exports"}
        BY <2>2, <3>1, <3>2 DEF BuildsTracked, Tasks
      <3>5. ASSUME NEW u \in Tasks
            PROVE  /\ task'[u].at = "waiting" => memo'[task'[u].on].shape = "pending"
                   /\ task'[u].phase \in {"off", "done"} => task'[u].at = "next"
        BY <2>2, <3>1, <3>2, <3>3 DEF BuildsTracked
      <3> QED
        BY <3>4, <3>5 DEF BuildsTracked
    <2> QED
      BY <2>4, <2>5
  <1>5. ASSUME NEW t \in Tasks, GoOnWithout(t) PROVE BuildsTracked'
    <2>1. PICK l : /\ task' = [task EXCEPT ![t] = l] /\ memo' = memo
                   /\ l.phase = task[t].phase /\ l.at = "next"
      <3> DEFINE own == memo[task[t].on].own
                 fallback == task[t].phase = "imports" /\ own # Unset
                 now == Advanced(task[t], Statement(t), IF fallback THEN own ELSE EmptyScope, TRUE)
      <3>1. task[t] \in Locals /\ task[t].on \in Modules /\ StatementsLeft(t)
        BY <1>0, <1>5 DEF TaskOK, GoOnWithout
      <3>2. Statement(t) \in Statements
        BY <1>0, <3>1, StatementType DEF ModulesTypeOK
      <3>3. (IF fallback THEN own ELSE EmptyScope) \in Scopes
        BY <1>0, <3>1, EmptyScopeType DEF MemoOK, Memos
      <3>4. now.phase = task[t].phase /\ now.at = "next"
        BY <3>1, <3>2, <3>3, AdvancedType
      <3>5. task' = [task EXCEPT ![t] = now] /\ memo' = memo
        BY <1>5 DEF GoOnWithout
      <3> HIDE DEF now
      <3> QED
        BY <3>4, <3>5
    <2> QED
      BY <2>1, TrackedStep DEF Unfinished
  <1>6. ASSUME NEW t \in Tasks, Resume(t) PROVE BuildsTracked'
    <2>1. PICK l : /\ task' = [task EXCEPT ![t] = l] /\ memo' = memo
                   /\ l.phase = task[t].phase /\ l.at = "next"
      <3> DEFINE now == Advanced(task[t], Statement(t), task[t].reply.scope, task[t].reply.tainted)
      <3>1. task[t] \in Locals /\ StatementsLeft(t) /\ task[t].reply \in Shapes
        BY <1>0, <1>6 DEF TaskOK, Resume
      <3>2. Statement(t) \in Statements
        BY <1>0, <3>1, StatementType DEF ModulesTypeOK
      <3>3. now.phase = task[t].phase /\ now.at = "next"
        BY <3>1, <3>2, AdvancedType DEF Shapes
      <3>4. task' = [task EXCEPT ![t] = now] /\ memo' = memo
        BY <1>6 DEF Resume
      <3> HIDE DEF now
      <3> QED
        BY <3>3, <3>4
    <2> QED
      BY <2>1, TrackedStep DEF Unfinished
  <1>7. ASSUME NEW m \in Modules, ExportOwn(m) PROVE BuildsTracked'
    <2> DEFINE l == [task[m] EXCEPT !.phase = "exports", !.i = 1, !.scope = OwnScope(m)]
    <2>1. m \in Tasks /\ task[m] \in Locals /\ task[m].at = "next" /\ task[m].phase = "imports"
      BY <1>0, <1>7 DEF TaskOK, Tasks, ExportOwn
    <2>2. l.phase = "exports" /\ l.at = "next"
      BY <2>1 DEF Locals
    <2>3. task' = [task EXCEPT ![m] = l] /\ \A n \in Modules : memo'[n].shape = memo[n].shape
      BY <1>0, <1>7 DEF ExportOwn, ModulesTypeOK, MemoOK, Memos
    <2> QED
      BY <2>1, <2>2, <2>3, TrackedStep DEF Unfinished
  <1>8. ASSUME NEW m \in Modules, Settle(m) PROVE BuildsTracked'
    <2> DEFINE built == [scope |-> task[m].scope, tainted |-> task[m].tainted]
    <2>1. memo'[m].shape = "settled" /\ \A n \in Modules \ {m} : memo'[n] = memo[n]
      BY <1>0, <1>8 DEF Settle, ModulesTypeOK, MemoOK, Memos
    <2>2. task'[m] = Idle /\ m \in Tasks
      BY <1>8 DEF Settle, Tasks
    <2>3. ASSUME NEW u \in Tasks, u # m, task[u].at = "waiting", task[u].on = m
          PROVE  task'[u].at = "answered" /\ task'[u].phase = task[u].phase
      <3>1. u \in Awaiters(m)
        BY <2>3 DEF Awaiters
      <3>2. task'[u] = [task[u] EXCEPT !.at = "answered", !.reply = built]
        BY <1>8, <2>3, <3>1 DEF Settle
      <3> QED
        BY <1>0, <3>2 DEF TaskOK, Locals
    <2>4. ASSUME NEW u \in Tasks, u # m, ~(task[u].at = "waiting" /\ task[u].on = m)
          PROVE  task'[u] = task[u]
      BY <1>8, <2>4 DEF Settle, Awaiters
    <2>5. ASSUME NEW n \in Modules
          PROVE  memo'[n].shape = "pending" <=> task'[n].phase \in {"imports", "exports"}
      <3>1. CASE n = m
        BY <2>1, <2>2, <3>1 DEF Idle
      <3>2. CASE n # m
        BY <2>1, <2>3, <2>4, <3>2 DEF BuildsTracked, Tasks
      <3> QED
        BY <3>1, <3>2
    <2>6. ASSUME NEW u \in Tasks
          PROVE  /\ task'[u].at = "waiting" => memo'[task'[u].on].shape = "pending"
                 /\ task'[u].phase \in {"off", "done"} => task'[u].at = "next"
      <3>1. CASE u = m
        BY <2>2, <3>1 DEF Idle
      <3>2. CASE u # m /\ task[u].at = "waiting" /\ task[u].on = m
        BY <2>3, <3>2 DEF BuildsTracked
      <3>3. CASE u # m /\ ~(task[u].at = "waiting" /\ task[u].on = m)
        BY <1>0, <2>1, <2>4, <3>3 DEF BuildsTracked, TaskOK
      <3> QED
        BY <3>1, <3>2, <3>3
    <2> QED
      BY <2>5, <2>6 DEF BuildsTracked
  <1>9. ASSUME NEW m \in Modules, Evict(m) PROVE BuildsTracked'
    <2>1. memo[m].shape = "settled" /\ memo'[m].shape = "none"
          /\ (\A n \in Modules \ {m} : memo'[n] = memo[n]) /\ task' = task
      BY <1>0, <1>9 DEF Evict, Evictable, ModulesTypeOK, MemoOK, Memos
    <2> QED
      BY <1>0, <2>1 DEF BuildsTracked, TaskOK
  <1>10. ASSUME NEW e \in Entries, EndCheck(e) PROVE BuildsTracked'
    <2> DEFINE l == [task[e] EXCEPT !.phase = "done"]
    <2>1. e \in Tasks /\ e \notin Modules /\ task[e] \in Locals /\ task[e].at = "next"
      BY <1>0, <1>10, ModuleAssumption DEF TaskOK, Tasks, EndCheck
    <2>2. l.phase = "done" /\ l.at = "next"
      BY <2>1 DEF Locals
    <2>3. task' = [task EXCEPT ![e] = l] /\ memo' = memo
      BY <1>10 DEF EndCheck
    <2> QED
      BY <2>1, <2>2, <2>3, TrackedStep
  <1>11. CASE UNCHANGED moduleVars
    BY <1>11 DEF moduleVars, BuildsTracked
  <1> QED
    BY <1>1, <1>2, <1>3, <1>4, <1>5, <1>6, <1>7, <1>8, <1>9, <1>10, <1>11
    DEF ModulesNext, CheckOf, Build, Go, Tasks

(* Every build that runs is on record as pending and every waiter waits for *)
(* one of those, whatever was evicted and started over.                     *)
THEOREM BuildsAreTracked == ModulesSpec => []BuildsTracked
  <1>1. ModulesInit => BuildsTracked
    BY DEF ModulesInit, BuildsTracked, Idle, Tasks
  <1> QED
    BY <1>1, TrackingKept, ModulesTypeCorrect, PTL DEF ModulesSpec
-----------------------------------------------------------------------------
(* Ending a wait, or leaving it as it is, closes no circle. *)
LEMMA FewerWaits ==
  ASSUME NoWaitCycle, \A t \in Tasks : WaitsOn(t)' \subseteq WaitsOn(t)
  PROVE  NoWaitCycle'
  BY DEF NoWaitCycle

(* What one task waits for when the others are left alone. *)
LEMMA OneTaskWaits ==
  ASSUME ModulesTypeOK, NEW t \in Tasks, NEW l, task' = [task EXCEPT ![t] = l], l.at \in {"next", "cut"}
  PROVE  \A u \in Tasks : WaitsOn(u)' \subseteq WaitsOn(u)
  <1>1. task'[t] = l /\ \A u \in Tasks \ {t} : task'[u] = task[u]
    BY DEF ModulesTypeOK
  <1> QED
    BY <1>1 DEF WaitsOn

(* A wait is only begun for a module from which one is not reached: what is *)
(* reached from it is a set closed under waiting that leaves one out, and a *)
(* circle through the new wait would have been one within that set before.  *)
LEMMA WaitClosesNoCircle ==
  ASSUME NoWaitCycle, NEW t \in Tasks, NEW m \in Tasks, ~WouldDeadlock(t, m),
         WaitsOn(t)' = {m}, \A u \in Tasks \ {t} : WaitsOn(u)' \subseteq WaitsOn(u)
  PROVE  NoWaitCycle'
  <1> SUFFICES ASSUME NEW ts \in SUBSET Tasks, ts # {}, \A u \in ts : WaitsOn(u)' \cap ts # {}
               PROVE  FALSE
    BY DEF NoWaitCycle
  <1>1. PICK reached \in SUBSET Tasks : m \in reached /\ Closed(reached) /\ t \notin reached
    BY DEF WouldDeadlock
  <1>2. CASE t \notin ts
    <2>1. \A u \in ts : WaitsOn(u) \cap ts # {}
      BY <1>2
    <2> QED
      BY <2>1 DEF NoWaitCycle
  <1>3. CASE t \in ts
    <2>1. m \in ts
      BY <1>3
    <2>2. \A u \in ts \cap reached : WaitsOn(u) \cap (ts \cap reached) # {}
      BY <1>1 DEF Closed
    <2>3. ts \cap reached \in (SUBSET Tasks) \ {{}}
      BY <1>1, <2>1
    <2> QED
      BY <2>2, <2>3 DEF NoWaitCycle
  <1> QED
    BY <1>2, <1>3

(* Builds and checks never wait for one another in a circle, so that every  *)
(* promise awaited can settle: wouldDeadlock finds every circle about to be *)
(* closed, though waits begin and end in any order.                         *)
THEOREM NoCircleOfWaits == ModulesSpec => []NoWaitCycle
  <1>1. ModulesInit => NoWaitCycle
    <2> SUFFICES ASSUME ModulesInit PROVE NoWaitCycle
      OBVIOUS
    <2>1. \A t \in Tasks : WaitsOn(t) = {}
      BY DEF ModulesInit, WaitsOn, Idle
    <2> QED
      BY <2>1 DEF NoWaitCycle
  <1>2. ModulesTypeOK /\ NoWaitCycle /\ [ModulesNext]_moduleVars => NoWaitCycle'
    <2> SUFFICES ASSUME ModulesTypeOK, NoWaitCycle, [ModulesNext]_moduleVars PROVE NoWaitCycle'
      OBVIOUS
    <2>0. \A t \in Tasks : task[t] \in Locals
      BY DEF ModulesTypeOK, TaskOK
    <2>1. ASSUME NEW e \in Entries, StartCheck(e) PROVE NoWaitCycle'
      <3>1. \A u \in Tasks : task'[u].at = task[u].at /\ task'[u].on = task[u].on
        BY <2>0, <2>1 DEF StartCheck, ModulesTypeOK, Locals
      <3> QED
        BY <3>1, FewerWaits DEF WaitsOn
    <2>2. ASSUME NEW t \in Tasks, SkipUnresolved(t) PROVE NoWaitCycle'
      <3>1. \A u \in Tasks : task'[u].at = task[u].at /\ task'[u].on = task[u].on
        BY <2>0, <2>2 DEF SkipUnresolved, ModulesTypeOK, Locals
      <3> QED
        BY <3>1, FewerWaits DEF WaitsOn
    <2>3. ASSUME NEW t \in Tasks, Cut(t) PROVE NoWaitCycle'
      <3> DEFINE l == [task[t] EXCEPT !.at = "cut", !.on = Statement(t).from]
      <3>1. task' = [task EXCEPT ![t] = l] /\ l.at = "cut"
        BY <2>0, <2>3 DEF Cut, Locals
      <3> QED
        BY <3>1, OneTaskWaits, FewerWaits
    <2>4. ASSUME NEW t \in Tasks, Await(t) PROVE NoWaitCycle'
      <3>0. PICK m \in Modules : m = Statement(t).from
        BY <2>4 DEF Await
      <3> DEFINE l == [task[t] EXCEPT !.at = IF memo[m].shape = "settled" THEN "answered" ELSE "waiting",
                                      !.on = m, !.reply = memo[m].built]
                 fresh == [Idle EXCEPT !.phase = "imports"]
      <3>1. ~WouldDeadlock(t, m) /\ m # t /\ m \in Tasks
        BY <2>4, <3>0, NeverForOneself DEF Await, Tasks
      <3>2. l.at \in {"answered", "waiting"} /\ l.on = m /\ fresh.at = "next"
        BY <2>0 DEF Locals, Idle
      <3>3. \/ task' = [task EXCEPT ![t] = l]
            \/ task' = [task EXCEPT ![t] = l, ![m] = fresh]
        BY <2>4, <3>0 DEF Await
      <3>4. task'[t] = l /\ \A u \in Tasks \ {t} : task'[u] = task[u] \/ task'[u] = fresh
        BY <3>1, <3>3 DEF ModulesTypeOK
      <3> HIDE DEF l, fresh
      <3>5. WaitsOn(t)' = {m} /\ \A u \in Tasks \ {t} : WaitsOn(u)' \subseteq WaitsOn(u)
        BY <3>2, <3>4 DEF WaitsOn
      <3> QED
        BY <3>1, <3>5, WaitClosesNoCircle
    <2>5. ASSUME NEW t \in Tasks, GoOnWithout(t) PROVE NoWaitCycle'
      <3>1. PICK stmt, scope, tainted : task' = [task EXCEPT ![t] = Advanced(task[t], stmt, scope, tainted)]
        BY <2>5 DEF GoOnWithout
      <3>2. Advanced(task[t], stmt, scope, tainted).at = "next"
        BY <2>0 DEF Advanced, Locals
      <3> QED
        BY <3>1, <3>2, OneTaskWaits, FewerWaits
    <2>6. ASSUME NEW t \in Tasks, Resume(t) PROVE NoWaitCycle'
      <3>1. PICK stmt, scope, tainted : task' = [task EXCEPT ![t] = Advanced(task[t], stmt, scope, tainted)]
        BY <2>6 DEF Resume
      <3>2. Advanced(task[t], stmt, scope, tainted).at = "next"
        BY <2>0 DEF Advanced, Locals
      <3> QED
        BY <3>1, <3>2, OneTaskWaits, FewerWaits
    <2>7. ASSUME NEW m \in Modules, ExportOwn(m) PROVE NoWaitCycle'
      <3>1. \A u \in Tasks : task'[u].at = task[u].at /\ task'[u].on = task[u].on
        BY <2>0, <2>7 DEF ExportOwn, ModulesTypeOK, Locals
      <3> QED
        BY <3>1, FewerWaits DEF WaitsOn
    <2>8. ASSUME NEW m \in Modules, Settle(m) PROVE NoWaitCycle'
      <3>1. ASSUME NEW u \in Tasks PROVE WaitsOn(u)' \subseteq WaitsOn(u)
        <4>1. CASE u = m
          BY <2>8, <4>1 DEF Settle, WaitsOn, Idle
        <4>2. CASE u # m /\ u \in Awaiters(m)
          <5> DEFINE built == [scope |-> task[m].scope, tainted |-> task[m].tainted]
                     l == [task[u] EXCEPT !.at = "answered", !.reply = built]
          <5>1. task'[u] = l /\ l.on = task[u].on
            BY <2>0, <2>8, <4>2 DEF Settle, Locals
          <5> QED
            BY <4>2, <5>1 DEF WaitsOn, Awaiters
        <4>3. CASE u # m /\ u \notin Awaiters(m)
          BY <2>8, <4>3 DEF Settle, WaitsOn
        <4> QED
          BY <4>1, <4>2, <4>3
      <3> QED
        BY <3>1, FewerWaits
    <2>9. ASSUME NEW m \in Modules, Evict(m) PROVE NoWaitCycle'
      BY <2>9, FewerWaits DEF Evict, WaitsOn
    <2>10. ASSUME NEW e \in Entries, EndCheck(e) PROVE NoWaitCycle'
      <3>1. \A u \in Tasks : task'[u].at = task[u].at /\ task'[u].on = task[u].on
        BY <2>0, <2>10 DEF EndCheck, ModulesTypeOK, Locals
      <3> QED
        BY <3>1, FewerWaits DEF WaitsOn
    <2>11. CASE UNCHANGED moduleVars
      BY <2>11, FewerWaits DEF moduleVars, WaitsOn
    <2> QED
      BY <2>1, <2>2, <2>3, <2>4, <2>5, <2>6, <2>7, <2>8, <2>9, <2>10, <2>11
      DEF ModulesNext, CheckOf, Build, Go, Tasks
  <1> QED
    BY <1>1, <1>2, ModulesTypeCorrect, PTL DEF ModulesSpec

(* While a check or a build is unfinished there is one that does not wait:  *)
(* were all of them waiting, each would wait for another of them.           *)
THEOREM SomeoneAlwaysGoesOn == ModulesSpec => []SomeoneGoesOn
  <1>1. ModulesTypeOK /\ BuildsTracked /\ NoWaitCycle => SomeoneGoesOn
    <2> SUFFICES ASSUME ModulesTypeOK, BuildsTracked, NoWaitCycle,
                        NEW s \in Tasks, Unfinished(s),
                        \A t \in Tasks : Unfinished(t) => task[t].at = "waiting"
                 PROVE  FALSE
      BY DEF SomeoneGoesOn
    <2> DEFINE ts == {t \in Tasks : Unfinished(t)}
    <2>1. ts \in (SUBSET Tasks) \ {{}}
      OBVIOUS
    <2>2. ASSUME NEW t \in ts PROVE WaitsOn(t) \cap ts # {}
      <3>1. task[t].at = "waiting" /\ task[t].on \in Modules /\ memo[task[t].on].shape = "pending"
        BY DEF BuildsTracked, ModulesTypeOK, TaskOK
      <3>2. task[t].on \in ts
        BY <3>1 DEF BuildsTracked, Unfinished, Tasks
      <3> QED
        BY <3>1, <3>2 DEF WaitsOn
    <2> QED
      BY <2>1, <2>2 DEF NoWaitCycle
  <1> QED
    BY <1>1, ModulesTypeCorrect, BuildsAreTracked, NoCircleOfWaits, PTL

(* A build that lacked nothing answers every later import of its module: it *)
(* is neither evicted nor started over.                                     *)
THEOREM CleanBuildsStay == ModulesSpec => [][\A m \in Modules : CleanKept(m)]_moduleVars
  <1>1. ModulesTypeOK /\ BuildsTracked /\ [ModulesNext]_moduleVars => [\A m \in Modules : CleanKept(m)]_moduleVars
    <2> SUFFICES ASSUME ModulesTypeOK, BuildsTracked, [ModulesNext]_moduleVars, NEW m \in Modules,
                        memo[m].shape = "settled", ~memo[m].built.tainted
                 PROVE  memo'[m] = memo[m]
      BY DEF CleanKept
    <2>1. ASSUME NEW t \in Tasks, Await(t) PROVE memo'[m] = memo[m]
      BY <2>1 DEF Await, ModulesTypeOK
    <2>2. ASSUME NEW n \in Modules, ExportOwn(n) PROVE memo'[m] = memo[m]
      BY <2>2 DEF ExportOwn, ModulesTypeOK, BuildsTracked
    <2>3. ASSUME NEW n \in Modules, Settle(n) PROVE memo'[m] = memo[m]
      BY <2>3 DEF Settle, ModulesTypeOK, BuildsTracked
    <2>4. ASSUME NEW n \in Modules, Evict(n) PROVE memo'[m] = memo[m]
      BY <2>4 DEF Evict, Evictable, ModulesTypeOK
    <2>5. ASSUME memo' = memo PROVE memo'[m] = memo[m]
      BY <2>5
    <2> QED
      BY <2>1, <2>2, <2>3, <2>4, <2>5
      DEF ModulesNext, CheckOf, Build, Go, Tasks, moduleVars, StartCheck, EndCheck,
          SkipUnresolved, Cut, GoOnWithout, Resume
  <1> QED
    BY <1>1, ModulesTypeCorrect, BuildsAreTracked, PTL DEF ModulesSpec
=============================================================================
