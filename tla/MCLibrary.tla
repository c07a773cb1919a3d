----------------------------- MODULE MCLibrary -----------------------------
(***************************************************************************)
(* The runtime library on small instances: regular expressions against     *)
(* their meaning, over patterns of two kinds, and integers under sequences *)
(* of operations.  A program here uses one part or the other.              *)
(***************************************************************************)
EXTENDS RegExp, BigInt

-----------------------------------------------------------------------------
(* Patterns.                                                               *)

Empty == [kind |-> "empty"]
Atom(i) == [kind |-> "atom", instr |-> i]
C(x) == Atom([op |-> "CHAR", char |-> x])
Op(op) == Atom(Instr(op, 0, 0))
Ref(g) == Atom(Instr("BACKREF", g, 0))
Set(set, negate) == Atom([op |-> "CLASS", set |-> set, negate |-> negate])
Cat(l, r) == [kind |-> "cat", left |-> l, right |-> r]
Cat3(x, y, z) == Cat(x, Cat(y, z))
Alt(l, r) == [kind |-> "alt", left |-> l, right |-> r]
Grp(g, b) == [kind |-> "group", g |-> g, body |-> b]
Look(negate, b) == [kind |-> "look", negate |-> negate, body |-> b]
Quant(q, min, max, lazy, b) ==
    [kind |-> "quant", quant |-> q, min |-> min, max |-> max, lazy |-> lazy, body |-> b]
Star(b) == Quant("*", 0, -1, FALSE, b)
Plus(b) == Quant("+", 1, -1, FALSE, b)
Maybe(b) == Quant("?", 0, 1, FALSE, b)
a == C("a")
b == C("b")

Quantified(n) ==
    {Quant(q[1], q[2], q[3], lazy, n) :
        q \in {<<"?", 0, 1>>, <<"*", 0, -1>>, <<"+", 1, -1>>, <<"{", 1, 2>>, <<"{", 0, 2>>,
               <<"{", 2, 2>>, <<"{", 1, -1>>}, lazy \in BOOLEAN}

\* Every quantifier over a few atoms, followed by a few others.
Loops ==
    {Cat(q, tail) :
        q \in UNION {Quantified(n) : n \in {a, Alt(a, Cat(a, b)), Alt(Cat(b, a), b)}},
        tail \in {Empty, b, Cat(a, Op("EOL"))}}
    \cup {Cat(q, tail) : q \in UNION {Quantified(Grp(1, n)) : n \in {a, Alt(b, a)}},
                         tail \in {Empty, Ref(1)}}

\* Groups, assertions, classes and nested loops.
Shapes ==
    {Cat3(Grp(1, Alt(a, Cat(a, b))), Grp(2, Alt(b, Empty)), Grp(3, Star(a))),
     Cat(Star(Grp(1, Cat(a, Maybe(b)))), b),
     Cat(Plus(Alt(Plus(a), Cat(b, a))), Op("EOL")),
     Cat(Alt(Cat(Grp(1, a), b), Cat(b, Grp(2, a))), Alt(Ref(1), Ref(2))),
     Grp(1, Cat(a, Grp(2, Star(b)))),
     Quant("{", 2, 3, TRUE, Grp(1, Set({"a", "b"}, FALSE))),
     Cat3(Grp(1, Star(a)), b, Ref(1)),
     Cat(Look(FALSE, Cat(Grp(1, Star(a)), b)), Plus(Set({"a"}, FALSE))),
     Cat3(Look(FALSE, Grp(1, Plus(a))), a, Cat(Ref(1), b)),
     Cat(Plus(Cat(Look(TRUE, b), Op("ANY"))), b),
     Cat(Look(TRUE, Cat(a, Look(FALSE, a))), a),
     Cat3(Look(FALSE, a), Set({"a", "b"}, FALSE), Cat(Look(FALSE, b), b)),
     Cat(Look(FALSE, Cat(Look(TRUE, b), Alt(a, Empty))), Star(a)),
     Cat(Star(a), Look(FALSE, Cat(b, Op("EOL")))),
     Plus(Set({"a"}, TRUE)), Star(Cat(b, Maybe(a)))}

\* A choice between two assertions, of which the first is come back to after it held.
Undecided == Alt(Cat(Look(FALSE, a), b), Cat(Look(FALSE, a), a))

\* What Judged leaves out: rounds that take nothing, groups a round leaves unset, lazy
\* copies, {0} around a group, a reference inside its group or to none, and lookaheads
\* come back to.  A pattern the compiler rejects is judged.
Odd ==
    {Star(Maybe(a)), Cat(Quant("*", 0, -1, TRUE, Maybe(a)), b), Plus(Alt(Grp(1, a), b)),
     Cat(Quant("{", 0, 2, TRUE, Alt(a, Cat3(a, a, b))), b),
     Cat(Quant("{", 0, 0, FALSE, Grp(1, a)), Grp(2, b)), Grp(1, Cat(a, Ref(1))), Cat(a, Ref(1)),
     Undecided, Cat(Look(TRUE, Cat(Look(FALSE, a), Cat(a, a))), a), [kind |-> "rejected"]}

\* What depends on the characters and the flags.
Texty ==
    {Cat(Op("BOL"), Plus(Op("ANY"))), Cat(Op("ANY"), Op("EOL")), Cat(Op("WORDB"), Op("ANY")),
     Cat(Op("NWORDB"), Set({"a"}, TRUE)), Cat(Grp(1, C("A")), Ref(1)), Set({"B"}, TRUE),
     Cat(Op("SPACE"), Star(Op("NSPACE")))}

\* Objects on which several calls are made.
Reused == {Star(a), Alt(Grp(1, a), b), Cat(Maybe(Grp(1, b)), Look(TRUE, a)), Cat(Op("BOL"), Maybe(a))}

\* A round of this one leaves a frame of four words: 16 frames fill the stack.
Filling == Star(Set({"a"}, FALSE))

MCPatterns == Loops \cup Shapes \cup Odd \cup Texty \cup Reused \cup {Filling}

FlagsOf(p) ==
    IF p \in Reused THEN SUBSET {"g", "y"}
    ELSE IF p \in Texty THEN SUBSET {"i", "m"} ELSE {{}}

-----------------------------------------------------------------------------
(* Calls.                                                                  *)

Over(chars, n) == UNION {[1 .. k -> chars] : k \in 0 .. n}
Exec(text) == [by |-> "exec", text |-> text]
Template == <<[kind |-> "group", g |-> 1], [kind |-> "text", char |-> "-"], [kind |-> "whole"],
              [kind |-> "group", g |-> 2]>>
Long == <<"a", "b", "a">>
Texts == {<<>>, <<"b">>, Long}
ReusedCalls ==
    {Exec(text) : text \in Texts}
        \cup {[by |-> "template", text |-> text, template |-> Template] : text \in Texts}
        \cup {[by |-> "function", text |-> Long]}
        \cup {[by |-> "split", text |-> text, limit |-> 9] : text \in Texts}
        \cup {[by |-> "split", text |-> Long, limit |-> limit] : limit \in {0, 1, 2}}
HostCalls ==
    IF re.source \in Reused THEN ReusedCalls
    ELSE IF job.made > 0 THEN {}
    ELSE IF re.source = Filling THEN {Exec([i \in 1 .. n |-> "a"]) : n \in {15, 16}}
    ELSE IF re.source \in Texty THEN {Exec(text) : text \in Over({"a", "B", " ", "\n"}, 3)}
    ELSE {Exec(text) : text \in Over({"a", "b"}, IF re.source \in Loops THEN 3 ELSE 4)}

MCLiterals == {-40, -17, -8, -3, -1, 0, 1, 2, 5, 7, 8, 9, 10, 31, 64}

-----------------------------------------------------------------------------
(* One program or the other.                                               *)

Init ==
    \/ /\ \E p \in MCPatterns : \E flags \in FlagsOf(p) : RegExpInit(p, flags)
       /\ BigIntInit(0)
    \/ /\ re = [source |-> a] /\ vm = [status |-> "no"] /\ job = [at |-> "none"]
       /\ BigIntInit(1)

HostCall == job.at \in {"idle", "done"} /\ \E call \in HostCalls : Calls(call)

Next ==
    \/ HostCall /\ UNCHANGED ivars
    \/ VMStep /\ UNCHANGED ivars
    \/ MethodStep /\ UNCHANGED ivars
    \/ job.at = "none" /\ BigIntStep /\ UNCHANGED rvars

\* A method that runs goes on; a host need not call.
Spec == Init /\ [][Next]_<<rvars, ivars>> /\ WF_rvars((VMStep \/ MethodStep) /\ UNCHANGED ivars)
=============================================================================
