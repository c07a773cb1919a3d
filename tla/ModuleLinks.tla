---------------------------- MODULE ModuleLinks ----------------------------
(***************************************************************************)
(* collectModules (examples/TS/module-loader.ts): where the compiler finds *)
(* the declaration an imported name stands for, and what a module's scope  *)
(* holds when no import is cut.  Only model checking uses this module.     *)
(***************************************************************************)
EXTENDS ModuleCheck

(* `origin`: in the module itself, or through its re-exports, the first     *)
(* that leads somewhere.  `visiting` is shared by all the ways tried; an    *)
(* answer is [at, seen], `at` the declaring module and the name there.      *)
RECURSIVE Origin(_, _, _, _), OriginThrough(_, _, _, _, _)
Origin(p, m, n, seen) ==
  IF <<m, n>> \in seen THEN [at |-> <<>>, seen |-> seen]
  ELSE IF n \in p.declares[m] THEN [at |-> <<m, n>>, seen |-> seen \cup {<<m, n>>}]
  ELSE OriginThrough(p, m, n, 1, seen \cup {<<m, n>>})
OriginThrough(p, m, n, i, seen) ==
  IF i > Len(p.exports[m]) THEN [at |-> <<>>, seen |-> seen]
  ELSE LET s == p.exports[m][i]
           leads == s.from \in Modules /\ (s.all \/ n \in DOMAIN s.as)
           found == Origin(p, s.from, IF s.all THEN n ELSE s.as[n], seen)
       IN  IF ~leads THEN OriginThrough(p, m, n, i + 1, seen)
           ELSE IF found.at # <<>> THEN found
           ELSE OriginThrough(p, m, n, i + 1, found.seen)

Links(p) == [m \in Modules |-> [n \in Names |-> Origin(p, m, n, {}).at]]

(* The modules whose every import is linked to a module of that kind: what  *)
(* they declare has a type whatever is built first.                         *)
ImportsOf(p, t) == UNION {{<<s, n>> : n \in DOMAIN s.as} : s \in {p.imports[t][i] : i \in DOMAIN p.imports[t]}}
WellTyped(p) ==
  LET links == Links(p)
      Grown(ms) == {m \in Modules : \A <<s, n>> \in ImportsOf(p, m) :
                      s.from \in Modules /\ links[s.from][s.as[n]] # <<>> /\ links[s.from][s.as[n]][1] \in ms}
      after[k \in 0..Cardinality(Modules)] == IF k = 0 THEN {} ELSE Grown(after[k - 1])
  IN  after[Cardinality(Modules)]

(* A build that is kept has every name the module exports, itself or        *)
(* through others, from where it is declared, and no type left open that    *)
(* another order of building would have worked out.                         *)
CleanIsComplete ==
  \A m \in Modules :
    memo[m].shape = "settled" /\ ~memo[m].built.tainted =>
      LET scope == memo[m].built.scope
          linked == Links(code)
          typed == WellTyped(code)
      IN  /\ DOMAIN scope = {n \in Names : linked[m][n] # <<>>}
          /\ \A n \in DOMAIN scope : scope[n].decl = linked[m][n][1]
          /\ \A n \in DOMAIN scope : scope[n].typed <=> scope[n].decl \in typed

(* A program checked while no other is binds each of its imports to what    *)
(* the compiler will link it to, and leaves unbound only what it will not   *)
(* find: import cycles, cuts and builds started over do not show.           *)
CheckedAsLinked ==
  \A e \in Entries \ overlapped : task[e].phase = "done" =>
    \A <<s, n>> \in ImportsOf(code, e) : s.from \in Modules =>
      LET link == Origin(code, s.from, s.as[n], {}).at
      IN  IF link = <<>> THEN n \notin DOMAIN task[e].binds
          ELSE n \in DOMAIN task[e].binds /\ task[e].binds[n].decl = link[1]

=============================================================================
