---------------------------- MODULE MCModules ----------------------------
(* Instances of module checking: programs of up to three modules, each of   *)
(* which declares a name of its own.                                        *)
EXTENDS ModuleLinks, TLC

Declared(m) == CASE m = "a" -> "A" [] m = "b" -> "B" [] m = "c" -> "C"

Others(m) == Modules \ {m}
Third(m, o) == CHOOSE q \in Modules : q \notin {m, o}
As(new, old) == [x \in {new} |-> old]
From(m, as) == [from |-> m, all |-> FALSE, as |-> as]
Star(m) == [from |-> m, all |-> TRUE, as |-> EmptyScope]

(* What a module may import and re-export.  *)
Imports(m) == {<<>>} \cup {<<From(o, As(Declared(o), Declared(o)))>> : o \in Others(m)}
Stars(m) == {<<>>} \cup {<<Star(o)>> : o \in Others(m)}
TwoStars(m) == Stars(m) \cup {<<Star(o), Star(Third(m, o))>> : o \in Others(m)}
Lists(OfModule(_)) ==
  {f \in [Modules -> UNION {OfModule(m) : m \in Modules}] : \A m \in Modules : f[m] \in OfModule(m)}

(* A check imports every name from one module, then from another, under     *)
(* names of its own.                                                        *)
FirstOf(m) == From(m, [x \in {"A", "B", "C"} |-> x])
ThenOf(m) == From(m, "A2" :> "A" @@ "B2" :> "B" @@ "C2" :> "C")

Write(entries, imports, exports) ==
  [checks |-> DOMAIN entries, declares |-> [m \in Modules |-> {Declared(m)}],
   imports |-> [t \in Tasks |-> IF t \in Modules THEN imports[t] ELSE IF t \in DOMAIN entries THEN entries[t] ELSE <<>>],
   exports |-> exports]

(* `c` keeps to one statement, or to none. *)
OneCheck == {Write("e" :> <<FirstOf("a"), ThenOf("b")>>, i, x) :
               i \in Lists(Imports), x \in {l \in Lists(TwoStars) : Len(l["c"]) < 2}}
TwoChecks == {Write("e" :> <<FirstOf("a")>> @@ "f" :> <<ThenOf("missing"), FirstOf("b")>>, i, x) :
                i \in {l \in Lists(Imports) : l["c"] = <<>>}, x \in Lists(Stars)}
MCPrograms == OneCheck \cup TwoChecks
=============================================================================
