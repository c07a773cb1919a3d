------------------------ MODULE GrammarBuilderProofs ------------------------
(* GrammarBuilder's constructor, for every specification: the flat list of  *)
(* rules means what was written, however its arrays, names, terminals and   *)
(* mid-rule actions refer to each other.                                    *)
(*                                                                          *)
(* The builder only grows: what it has made of a symbol stays what it is    *)
(* when arrays, terminals and rules are added behind.  So the invariant     *)
(* says of each rule, in terms that survive growth, that it reads as its    *)
(* alternative; of each array found, how many of its alternatives have      *)
(* been scanned; and of each mid-rule action, where its rule is.            *)
EXTENDS PegMatcher, FiniteSetTheorems, WellFoundedInduction, TLAPS

(* A set of numbers has a least one. *)
LEMMA LeastNumber ==
  ASSUME NEW S \in SUBSET Nat, S # {}
  PROVE  \E n \in S : \A m \in Nat : m < n => m \notin S
  <1> DEFINE R == {p \in Nat \X Nat : p[1] < p[2]}
  <1>1. IsWellFoundedOn(R, Nat)
    BY NatLessThanWellFounded DEF OpToRel
  <1> HIDE DEF R
  <1>2. PICK n \in S : \A m \in S : ~ (<<m, n>> \in R)
    BY <1>1, WFMin
  <1>3. \A m \in S : ~ (m < n)
    BY <1>2 DEF R
  <1> QED
    BY <1>3

(* Induction, for a property given as the set of the numbers that have it. *)
LEMMA Climbing ==
  ASSUME NEW N \in Nat, NEW H, 0 \in H, \A n \in 1..N : n - 1 \in H => n \in H
  PROVE  \A n \in 0..N : n \in H
  <1> DEFINE Lacks == {n \in 0..N : n \notin H}
  <1> SUFFICES ASSUME Lacks # {} PROVE FALSE
    OBVIOUS
  <1>1. Lacks \in SUBSET Nat
    OBVIOUS
  <1>2. PICK n \in Lacks : \A m \in Nat : m < n => m \notin Lacks
    <2> HIDE DEF Lacks
    <2> QED
      BY <1>1, LeastNumber
  <1>3. n \in 1..N /\ n \notin H
    OBVIOUS
  <1>4. n - 1 \notin Lacks
    BY <1>2, <1>3
  <1> QED
    BY <1>3, <1>4

-----------------------------------------------------------------------------
(* Sequences of whatever. *)
LEMMA ListFacts ==
  ASSUME NEW s, IsList(s)
  PROVE  Len(s) \in Nat /\ DOMAIN s = 1..Len(s)
  BY DEF IsList

LEMMA SomeList ==
  ASSUME NEW S, NEW s \in Seq(S)
  PROVE  IsList(s)
  <1>1. Len(s) \in Nat /\ DOMAIN s = 1..Len(s) /\ s \in [1..Len(s) -> S]
    OBVIOUS
  <1>2. s \in [1..Len(s) -> {s[i] : i \in DOMAIN s}]
    BY <1>1
  <1> QED
    BY <1>1, <1>2 DEF IsList, ToSet

LEMMA NoList ==
  ASSUME NEW s, s = <<>>
  PROVE  IsList(s) /\ Len(s) = 0
  <1>1. s \in Seq(Nat)
    OBVIOUS
  <1> QED
    BY <1>1, SomeList

LEMMA AppendIs ==
  ASSUME NEW s, IsList(s), NEW x
  PROVE  /\ IsList(Append(s, x)) /\ Len(Append(s, x)) = Len(s) + 1 /\ Len(s) \in Nat
         /\ \A i \in 1..Len(s) : Append(s, x)[i] = s[i]
         /\ Append(s, x)[Len(s) + 1] = x
  <1>1. PICK S : S = {s[i] : i \in DOMAIN s} \cup {x}
    OBVIOUS
  <1>2. s \in Seq(S) /\ x \in S
    BY <1>1, ListFacts DEF IsList, ToSet
  <1>3. Append(s, x) \in Seq(S)
    BY <1>2
  <1>4. IsList(Append(s, x))
    BY <1>3, SomeList
  <1> QED
    BY <1>2, <1>4

IsJoined(u, s, t) ==
  /\ IsList(u) /\ Len(u) = Len(s) + Len(t) /\ Len(s) \in Nat /\ Len(t) \in Nat
  /\ \A i \in 1..Len(s) : u[i] = s[i]
  /\ \A i \in 1..Len(t) : u[Len(s) + i] = t[i]
LEMMA ConcatIs ==
  ASSUME NEW s, IsList(s), NEW t, IsList(t), NEW u, u = s \o t
  PROVE  IsJoined(u, s, t)
  <1>1. PICK S : S = {s[i] : i \in DOMAIN s} \cup {t[i] : i \in DOMAIN t}
    OBVIOUS
  <1>2. s \in Seq(S) /\ t \in Seq(S)
    BY <1>1, ListFacts DEF IsList, ToSet
  <1>3. u \in Seq(S)
    BY <1>2
  <1>4. IsList(u)
    BY <1>3, SomeList
  <1> QED
    BY <1>2, <1>4 DEF IsJoined

(* A list goes on another.                                                  *)
GoesOn(t, s) == Len(s) <= Len(t) /\ \A k \in 1..Len(s) : t[k] = s[k]

LEMMA GoesOnFurther ==
  ASSUME NEW s, IsList(s), NEW t, IsList(t), NEW u, IsList(u), GoesOn(t, s), GoesOn(u, t)
  PROVE  GoesOn(u, s)
  <1>1. PICK l \in Nat, m \in Nat, n \in Nat : l = Len(s) /\ m = Len(t) /\ n = Len(u)
    BY ListFacts
  <1>2. l <= m /\ m <= n /\ \A k \in 1..l : t[k] = s[k] /\ k \in 1..m
    BY <1>1 DEF GoesOn
  <1>3. \A k \in 1..m : u[k] = t[k]
    BY <1>1 DEF GoesOn
  <1> QED
    BY <1>1, <1>2, <1>3 DEF GoesOn
-----------------------------------------------------------------------------
(* What a builder is, whatever it was given.                                *)
BuilderFields == {"rules", "terms", "ntOf", "pending", "thrown"}
IsRec(r, fields) == r = [x \in fields |-> r[x]]
IsBuilder(b) == /\ IsRec(b, BuilderFields)
                /\ IsList(b.rules) /\ IsList(b.terms) /\ IsList(b.pending)

(* The nonterminal an array has, or would have if it were found.            *)
NtFor(s, a) == IF a \in DOMAIN NamedArrays(s) THEN NamedArrays(s)[a]
               ELSE IF s.start # "none" /\ a = s.start THEN <<"start", "start">>
               ELSE <<"array", a>>

(* The arrays found are those on the list, each once, each with its own     *)
(* nonterminal.                                                             *)
Finds(s, b) ==
  /\ DOMAIN b.ntOf \subseteq DOMAIN s.arrays
  /\ \A a \in DOMAIN b.ntOf : b.ntOf[a] = NtFor(s, a)
  /\ ToSet(b.pending) = DOMAIN b.ntOf
  /\ \A i, j \in 1..Len(b.pending) : b.pending[i] = b.pending[j] => i = j
  /\ ToSet(Listed(s)) \subseteq DOMAIN b.ntOf

(* The rule of a mid-rule action is the one its nonterminal counts, and is  *)
(* used in one place.                                                       *)
IsAnon(sym) == sym[1] = "anon"
AnonRules(rules) ==
  \A r \in 1..Len(rules) : IsAnon(rules[r].lhs) => rules[r].lhs = <<"anon", r - 1>> /\ rules[r].rhs = <<>>
Used(rules, r, k) == r \in 1..Len(rules) /\ k \in 1..Len(rules[r].rhs)
AnonUses(rules) ==
  /\ \A r, k : Used(rules, r, k) /\ IsAnon(Bare(rules[r].rhs[k])) =>
       \E n \in Nat : n < Len(rules) /\ Bare(rules[r].rhs[k]) = <<"anon", n>>
  /\ \A r, k, q, l : /\ Used(rules, r, k) /\ Used(rules, q, l)
                     /\ IsAnon(Bare(rules[r].rhs[k])) /\ Bare(rules[r].rhs[k]) = Bare(rules[q].rhs[l])
                     => r = q /\ k = l
RulesAreLists(rules) == \A r \in 1..Len(rules) : IsList(rules[r].rhs)

Sound(s, b) == IsBuilder(b) /\ Finds(s, b) /\ AnonRules(b.rules) /\ AnonUses(b.rules) /\ RulesAreLists(b.rules)

(* What a builder has made stays when it grows.                             *)
Grows(b, c) ==
  /\ GoesOn(c.rules, b.rules) /\ GoesOn(c.pending, b.pending)
  /\ \A t : Contains(b.terms, t) => Contains(c.terms, t)
  /\ \A a \in DOMAIN b.ntOf : a \in DOMAIN c.ntOf /\ c.ntOf[a] = b.ntOf[a]

(* What a written symbol has become, said of one builder.                   *)
MidRuleOf(b, sym, place) ==
  \E n \in Nat : /\ sym = <<"anon", n>> /\ n < Len(b.rules)
                 /\ b.rules[n + 1].lhs = sym /\ b.rules[n + 1].rhs = <<>> /\ b.rules[n + 1].peek = place
Wrapped(x, sym) == IF x.negs = <<>> THEN ~IsPred(sym) ELSE IsPred(sym) /\ sym[2] = x.negs
Reads(s, b, x, place, sym) ==
  /\ Wrapped(x, sym)
  /\ x.is \in {"text", "ref"} /\ x.of \in NamesOf(s) =>
       \E i \in 1..Len(s.rules) : /\ s.rules[i].name = x.of /\ s.rules[i].of \in DOMAIN b.ntOf
                                  /\ Bare(sym) = b.ntOf[s.rules[i].of]
  /\ x.is = "array" => x.of \in DOMAIN b.ntOf /\ Bare(sym) = b.ntOf[x.of]
  /\ x.is = "mid" => MidRuleOf(b, Bare(sym), place)
  /\ x.is \in {"text", "pattern"} /\ ~(x.is = "text" /\ x.of \in NamesOf(s)) =>
       Bare(sym) = Term(x.of) /\ Contains(b.terms, x.of)
  /\ IsAnon(Bare(sym)) => x.is = "mid"

LEMMA GrowsOn ==
  ASSUME NEW b, IsBuilder(b), NEW c, IsBuilder(c), NEW d, IsBuilder(d), Grows(b, c), Grows(c, d)
  PROVE  Grows(b, d)
  <1>1. GoesOn(d.rules, b.rules) /\ GoesOn(d.pending, b.pending)
    BY GoesOnFurther DEF Grows, IsBuilder
  <1>2. \A t : Contains(b.terms, t) => Contains(d.terms, t)
    BY DEF Grows
  <1>3. \A a \in DOMAIN b.ntOf : a \in DOMAIN d.ntOf /\ d.ntOf[a] = b.ntOf[a]
    BY DEF Grows
  <1> QED
    BY <1>1, <1>2, <1>3 DEF Grows

LEMMA GrowsNone ==
  ASSUME NEW b, IsBuilder(b)
  PROVE  Grows(b, b)
  <1>1. Len(b.rules) \in Nat /\ Len(b.pending) \in Nat
    BY ListFacts DEF IsBuilder
  <1> QED
    BY <1>1 DEF Grows, GoesOn

LEMMA ReadsStay ==
  ASSUME NEW s, NEW b, IsBuilder(b), NEW c, IsBuilder(c), Grows(b, c),
         NEW x, NEW place, NEW sym, Reads(s, b, x, place, sym)
  PROVE  Reads(s, c, x, place, sym)
  <1>1. \A a \in DOMAIN b.ntOf : a \in DOMAIN c.ntOf /\ c.ntOf[a] = b.ntOf[a]
    BY DEF Grows
  <1>2. MidRuleOf(b, Bare(sym), place) => MidRuleOf(c, Bare(sym), place)
    <2> SUFFICES ASSUME MidRuleOf(b, Bare(sym), place) PROVE MidRuleOf(c, Bare(sym), place)
      OBVIOUS
    <2>1. PICK n \in Nat : /\ Bare(sym) = <<"anon", n>> /\ n < Len(b.rules)
                           /\ b.rules[n + 1].lhs = Bare(sym) /\ b.rules[n + 1].rhs = <<>>
                           /\ b.rules[n + 1].peek = place
      BY DEF MidRuleOf
    <2>2. PICK l \in Nat, m \in Nat : l = Len(b.rules) /\ m = Len(c.rules)
      BY ListFacts DEF IsBuilder
    <2>3. n + 1 \in 1..l /\ n < m
      BY <2>1, <2>2 DEF Grows, GoesOn
    <2>4. c.rules[n + 1] = b.rules[n + 1]
      BY <2>2, <2>3 DEF Grows, GoesOn
    <2> QED
      BY <2>1, <2>2, <2>3, <2>4 DEF MidRuleOf
  <1>3. \A t : Contains(b.terms, t) => Contains(c.terms, t)
    BY DEF Grows
  <1> QED
    BY <1>1, <1>2, <1>3 DEF Reads
-----------------------------------------------------------------------------
LEMMA ListedOne ==
  ASSUME NEW n \in Nat, NEW f, DOMAIN f = 1..n, f = [i \in 1..n |-> f[i]]
  PROVE  IsList(f) /\ Len(f) = n
  <1>1. PICK S : S = {f[i] : i \in 1..n}
    OBVIOUS
  <1>2. f \in [1..n -> S]
    BY <1>1
  <1>3. f \in Seq(S)
    BY <1>2
  <1>4. PICK l \in Nat : l = Len(f) /\ 1..l = 1..n
    BY <1>3
  <1>5. l = n
    <2>1. l \in 1..l => l <= n
      BY <1>4
    <2>2. n \in 1..n => n <= l
      BY <1>4
    <2> QED
      BY <2>1, <2>2
  <1> QED
    BY <1>3, <1>4, <1>5, SomeList

LEMMA EmptyList ==
  ASSUME NEW s, IsList(s), Len(s) = 0
  PROVE  s = <<>>
  <1>1. PICK S : s \in Seq(S)
    BY DEF IsList
  <1> QED
    BY <1>1

(* The start, unless there is none, and then what is named.                 *)
LEMMA ListedIs ==
  ASSUME NEW s, IsSpec(s)
  PROVE  \E m \in Nat, n \in Nat :
           /\ n = Len(s.rules) /\ IsList(Listed(s)) /\ Len(Listed(s)) = m + n /\ m + n # 0
           /\ \A i \in 1..n : Listed(s)[m + i] = s.rules[i].of
           /\ s.start = "none" => m = 0
           /\ s.start # "none" => m = 1 /\ Listed(s)[1] = s.start
  <1>1. PICK n \in Nat : n = Len(s.rules)
    BY ListFacts DEF IsSpec
  <1>2. PICK ofs : ofs = [i \in 1..n |-> s.rules[i].of]
    OBVIOUS
  <1>3. PICK none, one : none = <<>> /\ one = <<s.start>>
    OBVIOUS
  <1>4. IsList(ofs) /\ Len(ofs) = n /\ \A i \in 1..n : ofs[i] = s.rules[i].of
    <2>1. DOMAIN ofs = 1..n /\ ofs = [i \in 1..n |-> ofs[i]] /\ \A i \in 1..n : ofs[i] = s.rules[i].of
      BY <1>2
    <2> QED
      BY <2>1, ListedOne
  <1>5. IsList(none) /\ Len(none) = 0 /\ IsList(one) /\ Len(one) = 1 /\ one[1] = s.start
    <2>1. none \in Seq({s.start}) /\ one \in Seq({s.start})
      BY <1>3
    <2>2. Len(none) = 0 /\ Len(one) = 1 /\ one[1] = s.start
      BY <1>3
    <2> QED
      BY <2>1, <2>2, SomeList
  <1>6. CASE s.start = "none"
    <2>1. PICK L : L = none \o ofs
      OBVIOUS
    <2>2. L = Listed(s)
      BY <1>1, <1>2, <1>3, <1>6, <2>1 DEF Listed
    <2>3. /\ IsList(L) /\ Len(L) = Len(none) + Len(ofs)
          /\ \A i \in 1..Len(ofs) : L[Len(none) + i] = ofs[i]
      <3>1. IsList(none) /\ IsList(ofs)
        BY <1>4, <1>5
      <3>2. IsJoined(L, none, ofs)
        BY <2>1, <3>1, ConcatIs
      <3> QED
        BY <3>2 DEF IsJoined
    <2>4. Len(L) = 0 + n /\ \A i \in 1..n : L[0 + i] = s.rules[i].of
      BY <1>4, <1>5, <2>3
    <2>5. 0 + n # 0
      <3>1. n = 0 => s.rules = <<>>
        BY <1>1, EmptyList DEF IsSpec
      <3>2. s.rules # <<>>
        BY <1>6 DEF IsSpec
      <3> QED
        BY <3>1, <3>2
    <2> QED
      BY <1>1, <1>6, <2>2, <2>3, <2>4, <2>5
  <1>7. CASE s.start # "none"
    <2>1. PICK L : L = one \o ofs
      OBVIOUS
    <2>2. L = Listed(s)
      BY <1>1, <1>2, <1>3, <1>7, <2>1 DEF Listed
    <2>3. /\ IsList(L) /\ Len(L) = Len(one) + Len(ofs)
          /\ \A i \in 1..Len(one) : L[i] = one[i]
          /\ \A i \in 1..Len(ofs) : L[Len(one) + i] = ofs[i]
      <3>1. IsList(one) /\ IsList(ofs)
        BY <1>4, <1>5
      <3>2. IsJoined(L, one, ofs)
        BY <2>1, <3>1, ConcatIs
      <3> QED
        BY <3>2 DEF IsJoined
    <2>4. Len(L) = 1 + n /\ L[1] = s.start /\ \A i \in 1..n : L[1 + i] = s.rules[i].of
      <3>1. 1 \in 1..Len(one)
        BY <1>5
      <3> QED
        BY <1>4, <1>5, <2>3, <3>1
    <2>5. 1 + n # 0
      OBVIOUS
    <2> QED
      BY <1>1, <1>7, <2>2, <2>3, <2>4, <2>5
  <1> QED
    BY <1>6, <1>7

(* What is named, or the start, is listed.                                  *)
LEMMA ListedFacts ==
  ASSUME NEW s, IsSpec(s)
  PROVE  /\ IsList(Listed(s)) /\ Len(Listed(s)) \in Nat \ {0}
         /\ ToSet(Listed(s)) \subseteq DOMAIN s.arrays
         /\ DOMAIN NamedArrays(s) \subseteq ToSet(Listed(s))
         /\ s.start # "none" => s.start \in ToSet(Listed(s))
         /\ ToSet(Listed(s)) = DOMAIN NamedArrays(s) \cup (IF s.start = "none" THEN {} ELSE {s.start})
         /\ \A i \in 1..Len(s.rules) : s.rules[i].of \in DOMAIN NamedArrays(s)
  <1>0. PICK L : L = Listed(s)
    OBVIOUS
  <1>a. PICK m \in Nat, n \in Nat :
           /\ n = Len(s.rules) /\ IsList(L) /\ Len(L) = m + n /\ m + n # 0
           /\ \A i \in 1..n : L[m + i] = s.rules[i].of
           /\ s.start = "none" => m = 0
           /\ s.start # "none" => m = 1 /\ L[1] = s.start
    BY <1>0, ListedIs
  <1>1. /\ L = Listed(s) /\ n = Len(s.rules) /\ IsList(L) /\ Len(L) = m + n /\ m + n # 0
        /\ \A i \in 1..n : L[m + i] = s.rules[i].of
        /\ s.start = "none" => m = 0
        /\ s.start # "none" => m = 1 /\ L[1] = s.start
    BY <1>0, <1>a
  <1>2. PICK named : named = {s.rules[i].of : i \in 1..n}
    OBVIOUS
  <1>3. DOMAIN NamedArrays(s) = named
    BY <1>1, <1>2 DEF NamedArrays
  <1>4. ToSet(L) = {L[i] : i \in 1..(m + n)}
    BY <1>1, ListFacts DEF ToSet
  <1>5. named \subseteq {L[i] : i \in 1..(m + n)}
    <2> SUFFICES ASSUME NEW i \in 1..n PROVE s.rules[i].of \in {L[j] : j \in 1..(m + n)}
      BY <1>2
    <2>1. m + i \in 1..(m + n) /\ L[m + i] = s.rules[i].of
      BY <1>1
    <2> QED
      BY <2>1
  <1>6. ToSet(L) = named \cup (IF s.start = "none" THEN {} ELSE {s.start})
    <2>1. CASE s.start = "none"
      <3>1. {L[i] : i \in 1..(m + n)} \subseteq named
        BY <1>1, <1>2, <2>1
      <3> QED
        BY <1>4, <1>5, <2>1, <3>1
    <2>2. CASE s.start # "none"
      <3>1. ASSUME NEW i \in 1..(m + n) PROVE L[i] \in named \/ L[i] = s.start
        <4>1. CASE i = 1
          BY <1>1, <2>2, <4>1
        <4>2. CASE i # 1
          <5>1. i - 1 \in 1..n /\ m + (i - 1) = i
            BY <1>1, <2>2, <4>2
          <5>2. L[i] = s.rules[i - 1].of
            BY <1>1, <5>1
          <5> QED
            BY <1>2, <5>1, <5>2
        <4> QED
          BY <4>1, <4>2
      <3>2. 1 \in 1..(m + n) /\ L[1] = s.start
        BY <1>1, <2>2
      <3> QED
        BY <1>4, <1>5, <2>2, <3>1, <3>2
    <2> QED
      BY <2>1, <2>2
  <1>7. named \subseteq DOMAIN s.arrays /\ (s.start # "none" => s.start \in DOMAIN s.arrays)
    BY <1>1, <1>2 DEF IsSpec
  <1>8. \A i \in 1..Len(s.rules) : s.rules[i].of \in named
    BY <1>1, <1>2
  <1>9. Len(L) \in Nat \ {0}
    BY <1>1
  <1> QED
    BY <1>1, <1>3, <1>6, <1>7, <1>8, <1>9

(* Where no array is listed twice, each name has its own, and the start has *)
(* none: no two arrays share a nonterminal.                                 *)
LEMMA NamesStand ==
  ASSUME NEW s, IsSpec(s), ListedOnce(s), NEW i \in 1..Len(s.rules)
  PROVE  /\ NamedArrays(s)[s.rules[i].of] = <<"name", s.rules[i].name>>
         /\ \A j \in 1..Len(s.rules) : s.rules[j].of = s.rules[i].of => j = i
         /\ s.start # "none" => s.start # s.rules[i].of
  <1>0. PICK L : L = Listed(s)
    OBVIOUS
  <1>a. PICK m \in Nat, n \in Nat :
           /\ n = Len(s.rules) /\ IsList(L) /\ Len(L) = m + n /\ m + n # 0
           /\ \A k \in 1..n : L[m + k] = s.rules[k].of
           /\ s.start = "none" => m = 0
           /\ s.start # "none" => m = 1 /\ L[1] = s.start
    BY <1>0, ListedIs
  <1>1. /\ L = Listed(s) /\ n = Len(s.rules) /\ IsList(L) /\ Len(L) = m + n /\ m + n # 0
        /\ \A k \in 1..n : L[m + k] = s.rules[k].of
        /\ s.start = "none" => m = 0
        /\ s.start # "none" => m = 1 /\ L[1] = s.start
    BY <1>0, <1>a
  <1>2. \A k, l \in 1..(m + n) : L[k] = L[l] => k = l
    BY <1>1 DEF ListedOnce
  <1>3. i \in 1..n /\ m + i \in 1..(m + n)
    BY <1>1
  <1>4. \A j \in 1..n : s.rules[j].of = s.rules[i].of => j = i
    <2> SUFFICES ASSUME NEW j \in 1..n, s.rules[j].of = s.rules[i].of PROVE j = i
      OBVIOUS
    <2>1. m + j \in 1..(m + n)
      OBVIOUS
    <2>2. L[m + j] = L[m + i]
      BY <1>1, <1>3
    <2>3. m + j = m + i
      BY <1>2, <1>3, <2>1, <2>2
    <2> QED
      BY <1>3, <2>3
  <1>5. s.start # "none" => s.start # s.rules[i].of
    <2> SUFFICES ASSUME s.start # "none", s.start = s.rules[i].of PROVE FALSE
      OBVIOUS
    <2>1. m = 1 /\ 1 \in 1..(m + n) /\ L[1] = L[m + i]
      BY <1>1, <1>3
    <2>2. m + i = 1
      BY <1>2, <1>3, <2>1
    <2> QED
      BY <1>3, <2>1, <2>2
  <1>6. NamedArrays(s)[s.rules[i].of] = <<"name", s.rules[i].name>>
    <2>1. PICK a : a = s.rules[i].of
      OBVIOUS
    <2>2. {k \in 1..Len(s.rules) : s.rules[k].of = a} = {i}
      BY <1>1, <1>3, <1>4, <2>1
    <2>3. SelectLastInSeq(s.rules, LAMBDA r : r.of = a) = i
      <3>1. SelectLastInSeq(s.rules, LAMBDA r : r.of = a) = Max({i})
        BY <2>2 DEF SelectLastInSeq
      <3>2. Max({i}) = i
        BY DEF Max
      <3> QED
        BY <3>1, <3>2
    <2>4. NamedArrays(s)[a] = <<"name", s.rules[SelectLastInSeq(s.rules, LAMBDA r : r.of = a)].name>>
      BY <2>1 DEF NamedArrays
    <2> QED
      BY <2>1, <2>3, <2>4
  <1> QED
    BY <1>1, <1>4, <1>5, <1>6

LEMMA OwnNonterminals ==
  ASSUME NEW s, IsSpec(s), ListedOnce(s), NEW a, NEW c, NtFor(s, a) = NtFor(s, c)
  PROVE  a = c
  <1> DEFINE named == DOMAIN NamedArrays(s)
  <1>1. \A x \in named : \E i \in 1..Len(s.rules) : x = s.rules[i].of /\ NamedArrays(s)[x] = <<"name", s.rules[i].name>>
    <2> SUFFICES ASSUME NEW x \in named
                 PROVE  \E i \in 1..Len(s.rules) : x = s.rules[i].of /\ NamedArrays(s)[x] = <<"name", s.rules[i].name>>
      OBVIOUS
    <2>1. PICK i \in 1..Len(s.rules) : x = s.rules[i].of
      BY DEF NamedArrays
    <2> QED
      BY <2>1, NamesStand
  <1>2. CASE a \in named /\ c \in named
    <2>1. PICK i \in 1..Len(s.rules) : a = s.rules[i].of /\ NamedArrays(s)[a] = <<"name", s.rules[i].name>>
      BY <1>1, <1>2
    <2>2. PICK j \in 1..Len(s.rules) : c = s.rules[j].of /\ NamedArrays(s)[c] = <<"name", s.rules[j].name>>
      BY <1>1, <1>2
    <2>3. s.rules[i].name = s.rules[j].name
      BY <1>2, <2>1, <2>2 DEF NtFor
    <2> QED
      BY <2>1, <2>2, <2>3 DEF IsSpec
  <1>3. CASE a \in named /\ c \notin named
    <2>1. NtFor(s, a)[1] = "name" /\ NtFor(s, c)[1] \in {"start", "array"}
      BY <1>1, <1>3 DEF NtFor
    <2> QED
      BY <2>1
  <1>4. CASE a \notin named /\ c \in named
    <2>1. NtFor(s, c)[1] = "name" /\ NtFor(s, a)[1] \in {"start", "array"}
      BY <1>1, <1>4 DEF NtFor
    <2> QED
      BY <2>1
  <1>5. CASE a \notin named /\ c \notin named
    BY <1>5 DEF NtFor
  <1> QED
    BY <1>2, <1>3, <1>4, <1>5
-----------------------------------------------------------------------------
(* What one call does to the builder: it grows, and stays sound.            *)
LEMMA AppendHolds ==
  ASSUME NEW s, IsList(s), NEW x
  PROVE  /\ ToSet(Append(s, x)) = ToSet(s) \cup {x}
         /\ \A y : Contains(s, y) => Contains(Append(s, x), y)
         /\ Contains(Append(s, x), x)
         /\ GoesOn(Append(s, x), s)
  <1>a. PICK n \in Nat : n = Len(s)
    BY ListFacts
  <1>b. PICK t : t = Append(s, x)
    OBVIOUS
  <1>1. t = Append(s, x) /\ n = Len(s)
    BY <1>a, <1>b
  <1>2. /\ IsList(t) /\ Len(t) = n + 1 /\ t[n + 1] = x
        /\ \A i \in 1..n : t[i] = s[i]
    BY <1>1, AppendIs
  <1>3. DOMAIN t = 1..(n + 1) /\ DOMAIN s = 1..n
    BY <1>1, <1>2, ListFacts
  <1>4. ToSet(t) = ToSet(s) \cup {x}
    BY <1>2, <1>3 DEF ToSet
  <1>5. \A i \in 1..n : i \in 1..(n + 1)
    OBVIOUS
  <1>6. n + 1 \in 1..(n + 1)
    OBVIOUS
  <1>7. \A y : Contains(s, y) => Contains(t, y)
    BY <1>1, <1>2, <1>5 DEF Contains
  <1>8. Contains(t, x)
    BY <1>2, <1>6 DEF Contains
  <1>9. GoesOn(t, s)
    BY <1>1, <1>2 DEF GoesOn
  <1> QED
    BY <1>1, <1>4, <1>7, <1>8, <1>9

LEMMA InternFinds ==
  ASSUME NEW s, IsSpec(s), NEW b, Sound(s, b), NEW a \in DOMAIN s.arrays,
         NEW c, c = InternByRules(b, a)
  PROVE  /\ Sound(s, c) /\ Grows(b, c) /\ a \in DOMAIN c.ntOf
         /\ c.rules = b.rules
         /\ \A i \in 1..Len(c.pending) : i <= Len(b.pending) \/ c.pending[i] = a
  <1>1. IsBuilder(b) /\ Finds(s, b)
    BY DEF Sound
  <1>2. PICK n \in Nat : n = Len(b.pending)
    BY <1>1, ListFacts DEF IsBuilder
  <1>3. CASE a \in DOMAIN b.ntOf
    <2>1. c = b
      BY <1>3 DEF InternByRules
    <2>2. \A i \in 1..Len(c.pending) : i <= Len(b.pending)
      BY <1>2, <2>1
    <2> QED
      BY <1>1, <1>3, <2>1, <2>2, GrowsNone
  <1>4. CASE a \notin DOMAIN b.ntOf
    <2>1. PICK nts : nts = With(b.ntOf, a, <<"array", a>>)
      OBVIOUS
    <2>2. c = [b EXCEPT !.ntOf = nts, !.pending = Append(b.pending, a)]
      BY <1>4, <2>1 DEF InternByRules
    <2>3. /\ IsRec(c, BuilderFields) /\ c.rules = b.rules /\ c.terms = b.terms
          /\ c.ntOf = nts /\ c.pending = Append(b.pending, a)
      BY <1>1, <2>2 DEF IsBuilder, IsRec, BuilderFields
    <2>4. /\ DOMAIN nts = DOMAIN b.ntOf \cup {a} /\ nts[a] = <<"array", a>>
          /\ \A x \in DOMAIN b.ntOf : nts[x] = b.ntOf[x]
      BY <1>4, <2>1 DEF With
    <2>5. /\ IsList(c.pending) /\ Len(c.pending) = n + 1 /\ c.pending[n + 1] = a
          /\ \A i \in 1..n : c.pending[i] = b.pending[i]
      BY <1>1, <1>2, <2>3, AppendIs DEF IsBuilder
    <2>6. ToSet(c.pending) = ToSet(b.pending) \cup {a} /\ GoesOn(c.pending, b.pending)
      BY <1>1, <2>3, AppendHolds DEF IsBuilder
    <2>7. IsBuilder(c)
      BY <1>1, <2>3, <2>5 DEF IsBuilder
    <2>8. Finds(s, c)
      <3>1. NtFor(s, a) = <<"array", a>>
        <4>1. a \notin ToSet(Listed(s))
          BY <1>1, <1>4 DEF Finds
        <4>2. a \notin DOMAIN NamedArrays(s) /\ ~(s.start # "none" /\ a = s.start)
          BY <4>1, ListedFacts
        <4> QED
          BY <4>2 DEF NtFor
      <3>2. \A x \in DOMAIN c.ntOf : c.ntOf[x] = NtFor(s, x)
        <4> SUFFICES ASSUME NEW x \in DOMAIN c.ntOf PROVE c.ntOf[x] = NtFor(s, x)
          OBVIOUS
        <4>1. CASE x = a
          BY <2>3, <2>4, <3>1, <4>1
        <4>2. CASE x # a
          BY <1>1, <2>3, <2>4, <4>2 DEF Finds
        <4> QED
          BY <4>1, <4>2
      <3>3. \A i, j \in 1..Len(c.pending) : c.pending[i] = c.pending[j] => i = j
        <4>1. \A i \in 1..n : b.pending[i] # a
          <5> SUFFICES ASSUME NEW i \in 1..n, b.pending[i] = a PROVE FALSE
            OBVIOUS
          <5>1. i \in DOMAIN b.pending
            BY <1>1, <1>2, ListFacts DEF IsBuilder
          <5>2. a \in ToSet(b.pending)
            BY <5>1 DEF ToSet
          <5> QED
            BY <1>1, <1>4, <5>2 DEF Finds
        <4> SUFFICES ASSUME NEW i \in 1..(n + 1), NEW j \in 1..(n + 1), c.pending[i] = c.pending[j] PROVE i = j
          BY <2>5
        <4>2. CASE i \in 1..n /\ j \in 1..n
          <5>1. b.pending[i] = b.pending[j]
            BY <2>5, <4>2
          <5> QED
            BY <1>1, <1>2, <4>2, <5>1 DEF Finds
        <4>3. CASE i = n + 1 /\ j \in 1..n
          BY <2>5, <4>1, <4>3
        <4>4. CASE i \in 1..n /\ j = n + 1
          BY <2>5, <4>1, <4>4
        <4> QED
          BY <4>2, <4>3, <4>4
      <3>4. /\ DOMAIN c.ntOf \subseteq DOMAIN s.arrays
            /\ ToSet(c.pending) = DOMAIN c.ntOf
            /\ ToSet(Listed(s)) \subseteq DOMAIN c.ntOf
        BY <1>1, <2>3, <2>4, <2>6 DEF Finds
      <3> QED
        BY <3>2, <3>3, <3>4 DEF Finds
    <2>9. Grows(b, c)
      <3>1. GoesOn(c.rules, b.rules)
        BY <1>1, <2>3, GrowsNone DEF Grows
      <3> QED
        BY <2>3, <2>4, <2>6, <3>1 DEF Grows
    <2>10. Sound(s, c)
      BY <2>3, <2>7, <2>8 DEF Sound
    <2>11. \A i \in 1..Len(c.pending) : i <= Len(b.pending) \/ c.pending[i] = a
      <3> SUFFICES ASSUME NEW i \in 1..(n + 1) PROVE i <= n \/ c.pending[i] = a
        BY <1>2, <2>5
      <3>1. i <= n \/ i = n + 1
        OBVIOUS
      <3> QED
        BY <2>5, <3>1
    <2> QED
      BY <2>3, <2>4, <2>9, <2>10, <2>11
  <1> QED
    BY <1>3, <1>4

LEMMA TerminalStands ==
  ASSUME NEW s, NEW b, Sound(s, b), NEW name, NEW c, c = InternTerminal(b, name)
  PROVE  /\ Sound(s, c) /\ Grows(b, c) /\ Contains(c.terms, name)
         /\ c.rules = b.rules /\ c.pending = b.pending /\ c.ntOf = b.ntOf
  <1>1. IsBuilder(b) /\ Finds(s, b)
    BY DEF Sound
  <1>2. CASE Contains(b.terms, name)
    <2>1. c = b
      BY <1>2 DEF InternTerminal
    <2> QED
      BY <1>1, <1>2, <2>1, GrowsNone
  <1>3. CASE ~Contains(b.terms, name)
    <2>1. c = [b EXCEPT !.terms = Append(b.terms, name), !.thrown = (b.thrown \/ name \in NamesOf(spec))]
      BY <1>3 DEF InternTerminal
    <2>2. /\ IsRec(c, BuilderFields) /\ c.rules = b.rules /\ c.terms = Append(b.terms, name)
          /\ c.ntOf = b.ntOf /\ c.pending = b.pending
      BY <1>1, <2>1 DEF IsBuilder, IsRec, BuilderFields
    <2>3. IsList(c.terms)
      BY <1>1, <2>2, AppendIs DEF IsBuilder
    <2>4. /\ \A y : Contains(b.terms, y) => Contains(c.terms, y)
          /\ Contains(c.terms, name)
      BY <1>1, <2>2, AppendHolds DEF IsBuilder
    <2>5. IsBuilder(c)
      BY <1>1, <2>2, <2>3 DEF IsBuilder
    <2>6. Finds(s, c)
      BY <1>1, <2>2 DEF Finds
    <2>7. Grows(b, c)
      <3>1. GoesOn(b.rules, b.rules) /\ GoesOn(b.pending, b.pending)
        BY <1>1, GrowsNone DEF Grows
      <3> QED
        BY <2>2, <2>4, <3>1 DEF Grows
    <2> QED
      BY <2>2, <2>4, <2>5, <2>6, <2>7 DEF Sound
  <1> QED
    BY <1>2, <1>3

(* A rule behind the others, that uses no mid-rule action but ones that     *)
(* were made since and are used nowhere else.                               *)
Fresh(rules, rhs, from) ==
  /\ \A k \in 1..Len(rhs) : IsAnon(Bare(rhs[k])) =>
       \E n \in Nat : from <= n /\ n < Len(rules) /\ Bare(rhs[k]) = <<"anon", n>>
  /\ \A k, l \in 1..Len(rhs) : IsAnon(Bare(rhs[k])) /\ Bare(rhs[k]) = Bare(rhs[l]) => k = l
UsesUpTo(rules, from) ==
  \A r, k : Used(rules, r, k) /\ IsAnon(Bare(rules[r].rhs[k])) =>
     \E n \in Nat : n < from /\ Bare(rules[r].rhs[k]) = <<"anon", n>>

LEMMA RuleAdded ==
  ASSUME NEW s, NEW b, Sound(s, b), NEW rule, IsList(rule.rhs), NEW from \in Nat,
         IsAnon(rule.lhs) => rule.lhs = <<"anon", Len(b.rules)>> /\ rule.rhs = <<>>,
         UsesUpTo(b.rules, from), Fresh(b.rules, rule.rhs, from),
         NEW c, c = [b EXCEPT !.rules = Append(b.rules, rule)]
  PROVE  /\ Sound(s, c) /\ Grows(b, c) /\ c.pending = b.pending /\ c.ntOf = b.ntOf /\ c.terms = b.terms
         /\ Len(c.rules) = Len(b.rules) + 1 /\ c.rules[Len(b.rules) + 1] = rule
  <1>1. IsBuilder(b) /\ Finds(s, b) /\ AnonRules(b.rules) /\ AnonUses(b.rules) /\ RulesAreLists(b.rules)
    BY DEF Sound
  <1>2. PICK n \in Nat : n = Len(b.rules)
    BY <1>1, ListFacts DEF IsBuilder
  <1>3. /\ IsRec(c, BuilderFields) /\ c.rules = Append(b.rules, rule) /\ c.terms = b.terms
        /\ c.ntOf = b.ntOf /\ c.pending = b.pending
    BY <1>1 DEF IsBuilder, IsRec, BuilderFields
  <1>4. /\ IsList(c.rules) /\ Len(c.rules) = n + 1 /\ c.rules[n + 1] = rule
        /\ \A i \in 1..n : c.rules[i] = b.rules[i]
    BY <1>1, <1>2, <1>3, AppendIs DEF IsBuilder
  <1>5. IsBuilder(c) /\ Finds(s, c)
    BY <1>1, <1>3, <1>4 DEF IsBuilder, Finds
  <1>6. AnonRules(c.rules)
    <2> SUFFICES ASSUME NEW r \in 1..(n + 1), IsAnon(c.rules[r].lhs)
                 PROVE  c.rules[r].lhs = <<"anon", r - 1>> /\ c.rules[r].rhs = <<>>
      BY <1>4 DEF AnonRules
    <2>1. CASE r \in 1..n
      BY <1>1, <1>2, <1>4, <2>1 DEF AnonRules
    <2>2. CASE r = n + 1
      BY <1>2, <1>4, <2>2
    <2>3. r \in 1..n \/ r = n + 1
      OBVIOUS
    <2> QED
      BY <2>1, <2>2, <2>3
  <1>7. RulesAreLists(c.rules)
    <2> SUFFICES ASSUME NEW r \in 1..(n + 1) PROVE IsList(c.rules[r].rhs)
      BY <1>4 DEF RulesAreLists
    <2>1. CASE r \in 1..n
      BY <1>1, <1>2, <1>4, <2>1 DEF RulesAreLists
    <2>2. CASE r = n + 1
      BY <1>4, <2>2
    <2>3. r \in 1..n \/ r = n + 1
      OBVIOUS
    <2> QED
      BY <2>1, <2>2, <2>3
  <1> DEFINE Sits(r, k, m) == /\ m < n /\ Bare(c.rules[r].rhs[k]) = <<"anon", m>>
                              /\ m < from <=> r # n + 1
                              /\ r # n + 1 => Used(b.rules, r, k) /\ c.rules[r] = b.rules[r]
                              /\ r = n + 1 => k \in 1..Len(rule.rhs) /\ c.rules[r] = rule
  <1>8. ASSUME NEW r, NEW k, Used(c.rules, r, k), IsAnon(Bare(c.rules[r].rhs[k]))
        PROVE  \E m \in Nat : Sits(r, k, m)
    <2>1. r \in 1..(n + 1) /\ k \in 1..Len(c.rules[r].rhs)
      BY <1>4, <1>8 DEF Used
    <2>2. CASE r = n + 1
      <3>1. k \in 1..Len(rule.rhs) /\ IsAnon(Bare(rule.rhs[k])) /\ c.rules[r] = rule
        BY <1>4, <1>8, <2>1, <2>2
      <3>2. PICK m \in Nat : from <= m /\ m < n /\ Bare(rule.rhs[k]) = <<"anon", m>>
        BY <1>2, <3>1 DEF Fresh
      <3>3. ~(m < from)
        BY <3>2
      <3> QED
        BY <2>2, <3>1, <3>2, <3>3
    <2>3. CASE r # n + 1
      <3>1. r \in 1..n
        BY <2>1, <2>3
      <3>2. c.rules[r] = b.rules[r] /\ Used(b.rules, r, k) /\ IsAnon(Bare(b.rules[r].rhs[k]))
        BY <1>2, <1>4, <1>8, <2>1, <3>1 DEF Used
      <3>3. PICK m \in Nat : m < n /\ Bare(b.rules[r].rhs[k]) = <<"anon", m>>
        BY <1>1, <1>2, <3>2 DEF AnonUses
      <3>4. PICK l \in Nat : l < from /\ Bare(b.rules[r].rhs[k]) = <<"anon", l>>
        BY <3>2 DEF UsesUpTo
      <3>5. m = l
        <4>1. <<"anon", m>> = <<"anon", l>>
          BY <3>3, <3>4
        <4>2. <<"anon", m>>[2] = <<"anon", l>>[2]
          BY <4>1
        <4> QED
          BY <4>2
      <3> QED
        BY <2>3, <3>2, <3>3, <3>4, <3>5
    <2> QED
      BY <2>2, <2>3
  <1> HIDE DEF Sits
  <1>9. AnonUses(c.rules)
    <2>1. ASSUME NEW r, NEW k, Used(c.rules, r, k), IsAnon(Bare(c.rules[r].rhs[k]))
          PROVE  \E m \in Nat : m < Len(c.rules) /\ Bare(c.rules[r].rhs[k]) = <<"anon", m>>
      <3>1. PICK m \in Nat : Sits(r, k, m)
        BY <1>8, <2>1
      <3>2. m < n /\ Bare(c.rules[r].rhs[k]) = <<"anon", m>>
        BY <3>1, Zenon DEF Sits
      <3>3. m < n + 1
        BY <3>2
      <3> QED
        BY <1>4, <3>2, <3>3
    <2>2. ASSUME NEW r, NEW k, NEW q, NEW l, Used(c.rules, r, k), Used(c.rules, q, l),
                 IsAnon(Bare(c.rules[r].rhs[k])), Bare(c.rules[r].rhs[k]) = Bare(c.rules[q].rhs[l])
          PROVE  r = q /\ k = l
      <3>a. PICK m \in Nat : Sits(r, k, m)
        BY <1>8, <2>2
      <3>b. IsAnon(Bare(c.rules[q].rhs[l]))
        BY <2>2
      <3>c. PICK p \in Nat : Sits(q, l, p)
        BY <1>8, <2>2, <3>b
      <3>1. /\ Bare(c.rules[r].rhs[k]) = <<"anon", m>>
            /\ m < from <=> r # n + 1
            /\ r # n + 1 => Used(b.rules, r, k) /\ c.rules[r] = b.rules[r]
            /\ r = n + 1 => k \in 1..Len(rule.rhs) /\ c.rules[r] = rule
        BY <3>a DEF Sits
      <3>2. /\ Bare(c.rules[q].rhs[l]) = <<"anon", p>>
            /\ p < from <=> q # n + 1
            /\ q # n + 1 => Used(b.rules, q, l) /\ c.rules[q] = b.rules[q]
            /\ q = n + 1 => l \in 1..Len(rule.rhs) /\ c.rules[q] = rule
        BY <3>c DEF Sits
      <3>3. m = p
        <4>1. <<"anon", m>>[2] = <<"anon", p>>[2]
          BY <2>2, <3>1, <3>2
        <4> QED
          BY <4>1
      <3>4. CASE r = n + 1
        <4>1. q = n + 1
          BY <3>1, <3>2, <3>3, <3>4
        <4>2. k = l
          BY <2>2, <3>1, <3>2, <3>4, <4>1 DEF Fresh
        <4> QED
          BY <3>4, <4>1, <4>2
      <3>5. CASE r # n + 1
        <4>1. q # n + 1
          BY <3>1, <3>2, <3>3, <3>5
        <4> QED
          BY <1>1, <2>2, <3>1, <3>2, <3>5, <4>1 DEF AnonUses
      <3> QED
        BY <3>4, <3>5
    <2>3. PICK cr : cr = c.rules
      OBVIOUS
    <2>4. \A r, k : Used(cr, r, k) /\ IsAnon(Bare(cr[r].rhs[k])) =>
            \E m \in Nat : m < Len(cr) /\ Bare(cr[r].rhs[k]) = <<"anon", m>>
      BY <2>1, <2>3
    <2>5. \A r, k, q, l : /\ Used(cr, r, k) /\ Used(cr, q, l)
                          /\ IsAnon(Bare(cr[r].rhs[k])) /\ Bare(cr[r].rhs[k]) = Bare(cr[q].rhs[l])
                          => r = q /\ k = l
      BY <2>2, <2>3
    <2>6. AnonUses(cr)
      BY <2>4, <2>5 DEF AnonUses
    <2> QED
      BY <2>3, <2>6
  <1>10. Grows(b, c)
    <2>1. GoesOn(b.pending, b.pending)
      BY <1>1, GrowsNone DEF Grows
    <2>2. GoesOn(c.rules, b.rules)
      BY <1>2, <1>4 DEF GoesOn
    <2> QED
      BY <1>3, <2>1, <2>2 DEF Grows
  <1> QED
    BY <1>2, <1>3, <1>4, <1>5, <1>6, <1>7, <1>9, <1>10 DEF Sound

(* `anon`. *)
LEMMA AnonMade ==
  ASSUME NEW s, NEW b, Sound(s, b), NEW seen \in Nat, NEW c, c = Anon(b, seen)
  PROVE  /\ Sound(s, c) /\ Grows(b, c) /\ c.pending = b.pending /\ c.ntOf = b.ntOf
         /\ Len(b.rules) \in Nat /\ Len(c.rules) = Len(b.rules) + 1
         /\ c.rules[Len(b.rules) + 1].lhs = <<"anon", Len(b.rules)>>
         /\ c.rules[Len(b.rules) + 1].rhs = <<>>
         /\ c.rules[Len(b.rules) + 1].peek = seen + 1
  <1>1. PICK n \in Nat : n = Len(b.rules)
    BY ListFacts DEF Sound, IsBuilder
  <1>2. PICK rule : rule = [NewRule(<<"anon", n>>, <<>>) EXCEPT !.identity = FALSE, !.peek = seen + 1]
    OBVIOUS
  <1>3. rule.lhs = <<"anon", n>> /\ rule.rhs = <<>> /\ rule.peek = seen + 1
    BY <1>2 DEF NewRule
  <1>4. c = [b EXCEPT !.rules = Append(b.rules, rule)]
    BY <1>1, <1>2 DEF Anon
  <1>5. IsList(rule.rhs) /\ Len(rule.rhs) = 0
    BY <1>3, NoList
  <1>6. IsAnon(rule.lhs) => rule.lhs = <<"anon", Len(b.rules)>> /\ rule.rhs = <<>>
    BY <1>1, <1>3
  <1>7. UsesUpTo(b.rules, n)
    BY <1>1 DEF Sound, AnonUses, UsesUpTo
  <1>8. Fresh(b.rules, rule.rhs, n)
    BY <1>5 DEF Fresh
  <1>9. /\ Sound(s, c) /\ Grows(b, c) /\ c.pending = b.pending /\ c.ntOf = b.ntOf
        /\ Len(c.rules) = Len(b.rules) + 1 /\ c.rules[Len(b.rules) + 1] = rule
    BY <1>4, <1>5, <1>6, <1>7, <1>8, RuleAdded
  <1> QED
    BY <1>1, <1>3, <1>9

(* Rules made in passing are those of mid-rule actions.                     *)
AnonOnly(b, c) == \A i \in 1..Len(c.rules) :
                    i <= Len(b.rules) \/ (IsAnon(c.rules[i].lhs) /\ c.rules[i].rhs = <<>>)

(* What `resolveSym` has done for the symbol x.                             *)
Resolved(b, x, place, c, sym) ==
  /\ Sound(spec, c) /\ Grows(b, c) /\ AnonOnly(b, c) /\ Reads(spec, c, x, place, sym)
  /\ IsAnon(Bare(sym)) => Bare(sym) = <<"anon", Len(b.rules)>> /\ Len(c.rules) = Len(b.rules) + 1
  /\ \A i \in 1..Len(c.pending) : i <= Len(b.pending) \/ (x.is = "array" /\ c.pending[i] = x.of)

LEMMA NotAPredicate ==
  ASSUME NEW s, IsSpec(s), ListedOnce(s), NEW a
  PROVE  NtFor(s, a)[1] \in {"name", "start", "array"}
  <1>1. CASE a \in DOMAIN NamedArrays(s)
    <2>1. PICK i \in 1..Len(s.rules) : a = s.rules[i].of
      BY <1>1 DEF NamedArrays
    <2>2. NtFor(s, a) = <<"name", s.rules[i].name>>
      BY <1>1, <2>1, NamesStand DEF NtFor
    <2> QED
      BY <2>2
  <1>2. CASE a \notin DOMAIN NamedArrays(s)
    BY <1>2 DEF NtFor
  <1> QED
    BY <1>1, <1>2

NameFound(s, b, name) ==
  \E i \in 1..Len(s.rules) : /\ s.rules[i].name = name /\ s.rules[i].of \in DOMAIN b.ntOf
                             /\ <<"name", name>> = b.ntOf[s.rules[i].of]
LEMMA NameStands ==
  ASSUME NEW s, IsSpec(s), ListedOnce(s), NEW b, Sound(s, b), NEW name \in NamesOf(s)
  PROVE  NameFound(s, b, name)
  <1>1. PICK i \in 1..Len(s.rules) : s.rules[i].name = name
    BY DEF NamesOf
  <1>2. s.rules[i].of \in DOMAIN NamedArrays(s)
    BY ListedFacts
  <1>3. s.rules[i].of \in DOMAIN b.ntOf
    BY <1>2, ListedFacts DEF Sound, Finds
  <1>4. b.ntOf[s.rules[i].of] = NamedArrays(s)[s.rules[i].of]
    BY <1>2, <1>3 DEF Sound, Finds, NtFor
  <1> QED
    BY <1>1, <1>3, <1>4, NamesStand DEF NameFound

LEMMA BareResolved ==
  ASSUME IsSpec(spec), ListedOnce(spec), NEW b, Sound(spec, b), NEW x, IsSymbol(spec, x),
         NEW seen \in Nat, NEW r, r = ResolveBare(b, x, seen), NEW sym,
         ~IsPred(r.sym) => Wrapped(x, sym) /\ Bare(sym) = r.sym
  PROVE  Resolved(b, x, seen + 1, r.b, sym) /\ ~IsPred(r.sym)
  <1>1. IsBuilder(b) /\ Grows(b, b)
    BY GrowsNone DEF Sound
  <1>2. Len(b.rules) \in Nat /\ Len(b.pending) \in Nat
    BY <1>1, ListFacts DEF IsBuilder
  <1>3. CASE x.is \in {"text", "ref"} /\ x.of \in NamesOf(spec)
    <2>1. r.b = b /\ r.sym = <<"name", x.of>>
      BY <1>3 DEF ResolveBare
    <2>2. ~IsAnon(r.sym) /\ ~IsPred(r.sym)
      BY <2>1 DEF IsAnon, IsPred
    <2>3. Reads(spec, b, x, seen + 1, sym)
      <3>1. \E i \in 1..Len(spec.rules) : /\ spec.rules[i].name = x.of /\ spec.rules[i].of \in DOMAIN b.ntOf
                                          /\ Bare(sym) = b.ntOf[spec.rules[i].of]
        <4>1. PICK i \in 1..Len(spec.rules) : /\ spec.rules[i].name = x.of /\ spec.rules[i].of \in DOMAIN b.ntOf
                                               /\ <<"name", x.of>> = b.ntOf[spec.rules[i].of]
          <5>1. x.of \in NamesOf(spec)
            BY <1>3
          <5>2. NameFound(spec, b, x.of)
            BY <5>1, NameStands
          <5> QED
            BY <5>2, Zenon DEF NameFound
        <4>2. Bare(sym) = <<"name", x.of>>
          BY <2>1, <2>2
        <4> QED
          BY <4>1, <4>2
      <3>2. Wrapped(x, sym) /\ Bare(sym) = r.sym
        BY <2>2
      <3> QED
        BY <1>3, <2>2, <3>1, <3>2 DEF Reads
    <2>4. AnonOnly(b, b) /\ \A i \in 1..Len(b.pending) : i <= Len(b.pending)
      BY <1>2 DEF AnonOnly
    <2> QED
      BY <1>1, <2>1, <2>2, <2>3, <2>4 DEF Resolved
  <1>4. CASE x.is \in {"text", "pattern"} /\ ~(x.is = "text" /\ x.of \in NamesOf(spec))
    <2>1. r.b = InternTerminal(b, x.of) /\ r.sym = Term(x.of)
      BY <1>4 DEF ResolveBare
    <2>2. ~IsAnon(r.sym) /\ ~IsPred(r.sym)
      BY <2>1 DEF IsAnon, IsPred, Term
    <2>3. PICK c : c = r.b
      OBVIOUS
    <2>4. /\ Sound(spec, c) /\ Grows(b, c) /\ Contains(c.terms, x.of)
          /\ c.rules = b.rules /\ c.pending = b.pending
      BY <2>1, <2>3, TerminalStands
    <2>5. Reads(spec, c, x, seen + 1, sym)
      BY <1>4, <2>1, <2>2, <2>4 DEF Reads
    <2>6. AnonOnly(b, c) /\ \A i \in 1..Len(c.pending) : i <= Len(b.pending)
      BY <1>2, <2>4 DEF AnonOnly
    <2> QED
      BY <2>2, <2>3, <2>4, <2>5, <2>6 DEF Resolved
  <1>5. CASE x.is = "mid"
    <2>1. r.b = Anon(b, seen) /\ r.sym = <<"anon", Len(b.rules)>>
      BY <1>5 DEF ResolveBare
    <2>2. PICK n \in Nat : n = Len(b.rules)
      BY <1>2
    <2>3. PICK c : c = r.b
      OBVIOUS
    <2>4. /\ Sound(spec, c) /\ Grows(b, c) /\ c.pending = b.pending /\ Len(c.rules) = n + 1
          /\ c.rules[n + 1].lhs = <<"anon", n>> /\ c.rules[n + 1].rhs = <<>> /\ c.rules[n + 1].peek = seen + 1
      BY <2>1, <2>2, <2>3, AnonMade
    <2>a. ~IsPred(r.sym)
      BY <2>1 DEF IsPred
    <2>b. Wrapped(x, sym) /\ Bare(sym) = <<"anon", n>>
      BY <2>1, <2>2, <2>a
    <2>5. MidRuleOf(c, Bare(sym), seen + 1)
      <3>1. n < Len(c.rules) /\ n \in Nat
        BY <2>4
      <3> QED
        BY <2>4, <2>b, <3>1 DEF MidRuleOf
    <2>6. Reads(spec, c, x, seen + 1, sym)
      BY <1>5, <2>5, <2>b DEF Reads
    <2>7. AnonOnly(b, c)
      <3> SUFFICES ASSUME NEW i \in 1..(n + 1), ~(i <= n)
                   PROVE  IsAnon(c.rules[i].lhs) /\ c.rules[i].rhs = <<>>
        BY <2>2, <2>4 DEF AnonOnly
      <3>1. i = n + 1
        OBVIOUS
      <3> QED
        BY <2>4, <3>1 DEF IsAnon
    <2>8. ~IsPred(r.sym) /\ Bare(sym) = <<"anon", Len(b.rules)>> /\ Len(c.rules) = Len(b.rules) + 1
      BY <2>1, <2>2, <2>4 DEF IsPred
    <2>9. \A i \in 1..Len(c.pending) : i <= Len(b.pending)
      BY <1>2, <2>4
    <2> QED
      BY <2>3, <2>4, <2>6, <2>7, <2>8, <2>9 DEF Resolved
  <1>6. CASE x.is = "array"
    <2>1. PICK c : c = InternByRules(b, x.of)
      OBVIOUS
    <2>2. r.b = c /\ r.sym = c.ntOf[x.of]
      BY <1>6, <2>1 DEF ResolveBare
    <2>3. x.of \in DOMAIN spec.arrays
      BY <1>6 DEF IsSymbol
    <2>4. /\ Sound(spec, c) /\ Grows(b, c) /\ x.of \in DOMAIN c.ntOf
          /\ c.rules = b.rules
          /\ \A i \in 1..Len(c.pending) : i <= Len(b.pending) \/ c.pending[i] = x.of
      BY <2>1, <2>3, InternFinds
    <2>5. r.sym = NtFor(spec, x.of)
      BY <2>2, <2>4 DEF Sound, Finds
    <2>6. ~IsAnon(r.sym) /\ ~IsPred(r.sym)
      BY <2>5, NotAPredicate DEF IsAnon, IsPred
    <2>7. Reads(spec, c, x, seen + 1, sym)
      BY <1>6, <2>2, <2>4, <2>6 DEF Reads
    <2>8. AnonOnly(b, c)
      BY <1>2, <2>4 DEF AnonOnly
    <2> QED
      BY <1>6, <2>2, <2>4, <2>6, <2>7, <2>8 DEF Resolved
  <1> QED
    BY <1>3, <1>4, <1>5, <1>6 DEF IsSymbol, SymbolForms

LEMMA SymbolResolved ==
  ASSUME IsSpec(spec), ListedOnce(spec), NEW b, Sound(spec, b), NEW x, IsSymbol(spec, x),
         NEW seen \in Nat, NEW r, r = Resolve(b, x, seen)
  PROVE  Resolved(b, x, seen + 1, r.b, r.sym)
  <1>1. PICK q : q = ResolveBare(b, x, seen)
    OBVIOUS
  <1>2. \E c, sym : q = [b |-> c, sym |-> sym]
    BY <1>1 DEF IsSymbol, SymbolForms, ResolveBare
  <1>3. CASE x.negs = <<>>
    <2>1. r = q
      BY <1>1, <1>3 DEF Resolve
    <2>2. ~IsPred(q.sym) => Wrapped(x, r.sym) /\ Bare(r.sym) = q.sym
      BY <1>3, <2>1 DEF Wrapped, Bare
    <2> QED
      BY <1>1, <2>1, <2>2, BareResolved
  <1>4. CASE x.negs # <<>>
    <2>1. r = [q EXCEPT !.sym = <<"pred", x.negs, q.sym, <<Len(b.rules), seen>>>>]
      BY <1>1, <1>4 DEF Resolve
    <2>2. r.b = q.b /\ r.sym = <<"pred", x.negs, q.sym, <<Len(b.rules), seen>>>>
      BY <1>2, <2>1
    <2>3. Wrapped(x, r.sym) /\ Bare(r.sym) = q.sym
      BY <1>4, <2>2 DEF Wrapped, Bare, IsPred
    <2>4. Resolved(b, x, seen + 1, q.b, r.sym)
      BY <1>1, <2>3, BareResolved
    <2> QED
      BY <2>2, <2>4
  <1> QED
    BY <1>3, <1>4
-----------------------------------------------------------------------------
(* `alt.rhs.map(resolveSym)`, symbol by symbol.                             *)
AllResolved(b, rhs, n, c, syms) ==
  /\ Sound(spec, c) /\ Grows(b, c) /\ AnonOnly(b, c)
  /\ IsList(syms) /\ Len(syms) = n
  /\ \A k \in 1..n : Reads(spec, c, rhs[k], k, syms[k])
  /\ Fresh(c.rules, syms, Len(b.rules))
  /\ \A i \in 1..Len(c.pending) :
       i <= Len(b.pending) \/ \E k \in 1..n : rhs[k].is = "array" /\ c.pending[i] = rhs[k].of

LEMMA NoneResolved ==
  ASSUME NEW b, Sound(spec, b), NEW rhs, NEW none, none = <<>>
  PROVE  AllResolved(b, rhs, 0, b, none)
  <1>1. IsBuilder(b) /\ Grows(b, b)
    BY GrowsNone DEF Sound
  <1>2. Len(b.rules) \in Nat /\ Len(b.pending) \in Nat
    BY <1>1, ListFacts DEF IsBuilder
  <1>3. IsList(none) /\ Len(none) = 0
    BY NoList
  <1>4. AnonOnly(b, b) /\ \A i \in 1..Len(b.pending) : i <= Len(b.pending)
    BY <1>2 DEF AnonOnly
  <1>5. \A k \in 1..0 : FALSE
    OBVIOUS
  <1>6. Fresh(b.rules, none, Len(b.rules))
    BY <1>3, <1>5 DEF Fresh
  <1> QED
    BY <1>1, <1>3, <1>4, <1>5, <1>6 DEF AllResolved

LEMMA OneMoreResolved ==
  ASSUME IsSpec(spec), ListedOnce(spec), NEW b, Sound(spec, b), NEW rhs, NEW n \in Nat,
         NEW c, NEW syms, AllResolved(b, rhs, n, c, syms), IsSymbol(spec, rhs[n + 1]),
         NEW r, r = Resolve(c, rhs[n + 1], n), NEW more, more = Append(syms, r.sym)
  PROVE  AllResolved(b, rhs, n + 1, r.b, more)
  <1> DEFINE x == rhs[n + 1]
  <1>1. PICK d : d = r.b
    OBVIOUS
  <1>2. PICK sym : sym = r.sym
    OBVIOUS
  <1>3. Resolved(c, x, n + 1, d, sym)
    BY <1>1, <1>2, SymbolResolved DEF AllResolved
  <1>4. /\ Sound(spec, c) /\ Grows(b, c) /\ AnonOnly(b, c)
        /\ IsList(syms) /\ Len(syms) = n
        /\ \A k \in 1..n : Reads(spec, c, rhs[k], k, syms[k])
        /\ Fresh(c.rules, syms, Len(b.rules))
        /\ \A i \in 1..Len(c.pending) :
             i <= Len(b.pending) \/ \E k \in 1..n : rhs[k].is = "array" /\ c.pending[i] = rhs[k].of
    BY DEF AllResolved
  <1>5. /\ Sound(spec, d) /\ Grows(c, d) /\ AnonOnly(c, d) /\ Reads(spec, d, x, n + 1, sym)
        /\ IsAnon(Bare(sym)) => Bare(sym) = <<"anon", Len(c.rules)>> /\ Len(d.rules) = Len(c.rules) + 1
        /\ \A i \in 1..Len(d.pending) : i <= Len(c.pending) \/ (x.is = "array" /\ d.pending[i] = x.of)
    BY <1>3 DEF Resolved
  <1> HIDE DEF x
  <1>6. IsBuilder(b) /\ IsBuilder(c) /\ IsBuilder(d)
    BY <1>4, <1>5 DEF Sound
  <1>7. PICK lb \in Nat, lc \in Nat, ld \in Nat : lb = Len(b.rules) /\ lc = Len(c.rules) /\ ld = Len(d.rules)
    BY <1>6, ListFacts DEF IsBuilder
  <1>8. lb <= lc /\ lc <= ld
    BY <1>4, <1>5, <1>7 DEF Grows, GoesOn
  <1>9. /\ IsList(more) /\ Len(more) = n + 1 /\ more[n + 1] = sym
        /\ \A k \in 1..n : more[k] = syms[k]
    BY <1>2, <1>4, AppendIs
  <1>10. Grows(b, d)
    BY <1>4, <1>5, <1>6, GrowsOn
  <1>11. AnonOnly(b, d)
    <2> SUFFICES ASSUME NEW i \in 1..ld, ~(i <= lb)
                 PROVE  IsAnon(d.rules[i].lhs) /\ d.rules[i].rhs = <<>>
      BY <1>7 DEF AnonOnly
    <2>1. CASE i <= lc
      <3>1. d.rules[i] = c.rules[i] /\ i \in 1..lc
        BY <1>5, <1>7, <2>1 DEF Grows, GoesOn
      <3> QED
        BY <1>4, <1>7, <3>1 DEF AnonOnly
    <2>2. CASE ~(i <= lc)
      BY <1>5, <1>7, <2>2 DEF AnonOnly
    <2> QED
      BY <2>1, <2>2
  <1>12. ASSUME NEW k \in 1..(n + 1) PROVE Reads(spec, d, rhs[k], k, more[k])
    <2>1. CASE k \in 1..n
      <3>1. Reads(spec, c, rhs[k], k, syms[k])
        BY <1>4, <2>1
      <3>2. Reads(spec, d, rhs[k], k, syms[k])
        BY <1>5, <1>6, <3>1, ReadsStay
      <3> QED
        BY <1>9, <2>1, <3>2
    <2>2. CASE k = n + 1
      BY <1>5, <1>9, <2>2 DEF x
    <2>3. k \in 1..n \/ k = n + 1
      OBVIOUS
    <2> QED
      BY <2>1, <2>2, <2>3
  <1>13. Fresh(d.rules, more, lb)
    <2>1. ASSUME NEW k \in 1..(n + 1), IsAnon(Bare(more[k]))
          PROVE  \E q \in Nat : /\ lb <= q /\ q < ld /\ Bare(more[k]) = <<"anon", q>>
                                /\ q < lc <=> k # n + 1
      <3>1. CASE k \in 1..n
        <4>1. more[k] = syms[k]
          BY <1>9, <3>1
        <4>2. PICK q \in Nat : lb <= q /\ q < lc /\ Bare(syms[k]) = <<"anon", q>>
          BY <1>4, <1>7, <2>1, <3>1, <4>1 DEF Fresh
        <4>3. q < ld /\ k # n + 1
          BY <1>8, <3>1, <4>2
        <4> QED
          BY <4>1, <4>2, <4>3
      <3>2. CASE k = n + 1
        <4>1. Bare(more[k]) = <<"anon", lc>> /\ ld = lc + 1
          BY <1>5, <1>7, <1>9, <2>1, <3>2
        <4>2. lb <= lc /\ lc < ld /\ ~(lc < lc)
          BY <1>8, <4>1
        <4> QED
          BY <3>2, <4>1, <4>2
      <3>3. k \in 1..n \/ k = n + 1
        OBVIOUS
      <3> QED
        BY <3>1, <3>2, <3>3
    <2>2. ASSUME NEW k \in 1..(n + 1), NEW l \in 1..(n + 1), IsAnon(Bare(more[k])), Bare(more[k]) = Bare(more[l])
          PROVE  k = l
      <3>1. PICK q \in Nat : Bare(more[k]) = <<"anon", q>> /\ (q < lc <=> k # n + 1)
        BY <2>1, <2>2
      <3>a. IsAnon(Bare(more[l]))
        BY <2>2
      <3>2. PICK p \in Nat : Bare(more[l]) = <<"anon", p>> /\ (p < lc <=> l # n + 1)
        BY <2>1, <3>a
      <3>3. q = p
        <4>1. <<"anon", q>>[2] = <<"anon", p>>[2]
          BY <2>2, <3>1, <3>2
        <4> QED
          BY <4>1
      <3>4. CASE k = n + 1
        BY <3>1, <3>2, <3>3, <3>4
      <3>5. CASE k # n + 1
        <4>1. k \in 1..n /\ l \in 1..n
          BY <3>1, <3>2, <3>3, <3>5
        <4>2. more[k] = syms[k] /\ more[l] = syms[l]
          BY <1>9, <4>1
        <4> QED
          BY <1>4, <2>2, <4>1, <4>2 DEF Fresh
      <3> QED
        BY <3>4, <3>5
    <2>3. \A k \in 1..(n + 1) : IsAnon(Bare(more[k])) =>
             \E q \in Nat : lb <= q /\ q < ld /\ Bare(more[k]) = <<"anon", q>>
      BY <2>1
    <2> QED
      BY <1>7, <1>9, <2>2, <2>3 DEF Fresh
  <1>14. ASSUME NEW i \in 1..Len(d.pending)
         PROVE  i <= Len(b.pending) \/ \E k \in 1..(n + 1) : rhs[k].is = "array" /\ d.pending[i] = rhs[k].of
    <2>1. CASE i <= Len(c.pending)
      <3>1. i \in 1..Len(c.pending) /\ d.pending[i] = c.pending[i]
        <4>1. Len(c.pending) \in Nat /\ Len(d.pending) \in Nat
          BY <1>6, ListFacts DEF IsBuilder
        <4>2. i \in 1..Len(c.pending)
          BY <2>1, <4>1
        <4> QED
          BY <1>5, <4>2 DEF Grows, GoesOn
      <3>2. i <= Len(b.pending) \/ \E k \in 1..n : rhs[k].is = "array" /\ c.pending[i] = rhs[k].of
        BY <1>4, <3>1
      <3>3. \A k \in 1..n : k \in 1..(n + 1)
        OBVIOUS
      <3> QED
        BY <3>1, <3>2, <3>3
    <2>2. CASE ~(i <= Len(c.pending))
      <3>1. n + 1 \in 1..(n + 1)
        OBVIOUS
      <3> QED
        BY <1>5, <2>2, <3>1 DEF x
    <2> QED
      BY <2>1, <2>2
  <1>15. Fresh(d.rules, more, Len(b.rules))
    BY <1>7, <1>13
  <1> QED
    BY <1>1, <1>5, <1>9, <1>10, <1>11, <1>12, <1>14, <1>15 DEF AllResolved

ResolveStep(acc, rhs, n) ==
  LET r == Resolve(acc.b, rhs[n], n - 1) IN [b |-> r.b, syms |-> Append(acc.syms, r.sym)]
ResolveSteps(g, m, b, rhs) ==
  /\ g = [n \in 0..m |-> g[n]] /\ g[0] = [b |-> b, syms |-> <<>>]
  /\ \A n \in 1..m : g[n] = ResolveStep(g[n - 1], rhs, n)

LEMMA ResolveStepsExist ==
  ASSUME NEW N \in Nat, NEW b, NEW rhs
  PROVE  \E g : ResolveSteps(g, N, b, rhs)
  <1> DEFINE H == {m \in 0..N : \E g : ResolveSteps(g, m, b, rhs)}
  <1>1. 0 \in H
    <2>1. PICK base : base = [b |-> b, syms |-> <<>>]
      OBVIOUS
    <2>2. PICK g : g = [n \in 0..0 |-> base]
      OBVIOUS
    <2>3. g = [n \in 0..0 |-> g[n]] /\ g[0] = base
      BY <2>2
    <2>4. \A n \in 1..0 : FALSE
      OBVIOUS
    <2>5. ResolveSteps(g, 0, b, rhs)
      BY <2>1, <2>3, <2>4 DEF ResolveSteps
    <2>6. 0 \in 0..N
      OBVIOUS
    <2> QED
      BY <2>5, <2>6
  <1>2. ASSUME NEW m \in 1..N, m - 1 \in H PROVE m \in H
    <2>1. PICK g : ResolveSteps(g, m - 1, b, rhs)
      BY <1>2
    <2>a. PICK more : more = ResolveStep(g[m - 1], rhs, m)
      OBVIOUS
    <2>2. PICK h : h = [n \in 0..m |-> IF n = m THEN more ELSE g[n]]
      OBVIOUS
    <2>3. h = [n \in 0..m |-> h[n]] /\ h[m] = more /\ \A n \in 0..(m - 1) : h[n] = g[n]
      BY <2>2
    <2>4. ASSUME NEW n \in 1..m PROVE h[n] = ResolveStep(h[n - 1], rhs, n)
      <3>1. CASE n = m
        BY <2>3, <2>a, <3>1
      <3>2. CASE n # m
        <4>1. n \in 1..(m - 1) /\ n \in 0..(m - 1) /\ n - 1 \in 0..(m - 1)
          BY <3>2
        <4>2. g[n] = ResolveStep(g[n - 1], rhs, n)
          BY <2>1, <4>1 DEF ResolveSteps
        <4>3. h[n] = g[n] /\ h[n - 1] = g[n - 1]
          BY <2>3, <4>1
        <4> QED
          BY <4>2, <4>3
      <3> QED
        BY <3>1, <3>2
    <2>5. h[0] = [b |-> b, syms |-> <<>>]
      <3>1. 0 \in 0..(m - 1)
        OBVIOUS
      <3> QED
        BY <2>1, <2>3, <3>1 DEF ResolveSteps
    <2>6. ResolveSteps(h, m, b, rhs)
      BY <2>3, <2>4, <2>5 DEF ResolveSteps
    <2>7. m \in 0..N
      OBVIOUS
    <2> QED
      BY <2>6, <2>7
  <1>3. N \in 0..N
    OBVIOUS
  <1>4. N \in H
    <2> HIDE DEF H
    <2> QED
      BY <1>1, <1>2, <1>3, Climbing
  <1> QED
    BY <1>4

LEMMA ResolveAllIs ==
  ASSUME NEW b, NEW rhs, NEW N \in Nat, N = Len(rhs)
  PROVE  \E g : ResolveSteps(g, N, b, rhs) /\ ResolveAll(b, rhs) = g[N]
  <1> DEFINE IsF(h) == h = [n \in 0..N |-> IF n = 0 THEN [b |-> b, syms |-> <<>>]
                                           ELSE LET acc == h[n - 1]
                                                    r == Resolve(acc.b, rhs[n], n - 1)
                                                IN  [b |-> r.b, syms |-> Append(acc.syms, r.sym)]]
             F == CHOOSE h : IsF(h)
  <1>1. ResolveAll(b, rhs) = F[N]
    BY DEF ResolveAll
  <1>2. PICK g : ResolveSteps(g, N, b, rhs)
    BY ResolveStepsExist
  <1>3. IsF(g)
    <2>1. ASSUME NEW n \in 0..N
          PROVE  g[n] = IF n = 0 THEN [b |-> b, syms |-> <<>>]
                        ELSE LET acc == g[n - 1]
                                 r == Resolve(acc.b, rhs[n], n - 1)
                             IN  [b |-> r.b, syms |-> Append(acc.syms, r.sym)]
      <3>1. CASE n = 0
        BY <1>2, <3>1 DEF ResolveSteps
      <3>2. CASE n # 0
        <4>1. n \in 1..N
          BY <3>2
        <4>2. g[n] = ResolveStep(g[n - 1], rhs, n)
          BY <1>2, <4>1 DEF ResolveSteps
        <4> QED
          BY <3>2, <4>2 DEF ResolveStep
      <3> QED
        BY <3>1, <3>2
    <2>2. g = [n \in 0..N |-> g[n]]
      BY <1>2 DEF ResolveSteps
    <2> QED
      BY <2>1, <2>2
  <1>4. PICK f : f = F
    OBVIOUS
  <1>5. IsF(f)
    <2>1. IsF(F)
      <3> HIDE DEF IsF
      <3> QED
        BY <1>3
    <2> HIDE DEF F, IsF
    <2> QED
      BY <1>4, <2>1
  <1>6. ResolveAll(b, rhs) = f[N]
    <2> HIDE DEF F
    <2> QED
      BY <1>1, <1>4
  <1> HIDE DEF F
  <1>7. ResolveSteps(f, N, b, rhs)
    <2>1. f[0] = [b |-> b, syms |-> <<>>]
      <3>1. 0 \in 0..N
        OBVIOUS
      <3> QED
        BY <1>5, <3>1
    <2>2. ASSUME NEW n \in 1..N PROVE f[n] = ResolveStep(f[n - 1], rhs, n)
      <3>1. n \in 0..N /\ n # 0
        OBVIOUS
      <3> QED
        BY <1>5, <3>1 DEF ResolveStep
    <2>3. f = [n \in 0..N |-> f[n]]
      <3>1. DOMAIN f = 0..N /\ f = [n \in DOMAIN f |-> f[n]]
        BY <1>5
      <3> QED
        BY <3>1
    <2> QED
      BY <2>1, <2>2, <2>3 DEF ResolveSteps
  <1> QED
    BY <1>6, <1>7

LEMMA AlternativeResolved ==
  ASSUME IsSpec(spec), ListedOnce(spec), NEW b, Sound(spec, b), NEW rhs, IsList(rhs),
         \A k \in 1..Len(rhs) : IsSymbol(spec, rhs[k]), NEW r, r = ResolveAll(b, rhs)
  PROVE  AllResolved(b, rhs, Len(rhs), r.b, r.syms)
  <1>1. PICK N \in Nat : N = Len(rhs)
    BY ListFacts
  <1>2. PICK g : ResolveSteps(g, N, b, rhs) /\ r = g[N]
    BY <1>1, ResolveAllIs
  <1> DEFINE H == {m \in 0..N : AllResolved(b, rhs, m, g[m].b, g[m].syms)}
  <1>3. 0 \in H
    <2>1. g[0].b = b /\ g[0].syms = <<>>
      BY <1>2 DEF ResolveSteps
    <2>2. AllResolved(b, rhs, 0, g[0].b, g[0].syms)
      BY <2>1, NoneResolved
    <2> QED
      BY <2>2
  <1>4. ASSUME NEW m \in 1..N, m - 1 \in H PROVE m \in H
    <2>1. PICK acc : acc = g[m - 1]
      OBVIOUS
    <2>2. PICK p \in Nat : p = m - 1 /\ p + 1 = m
      OBVIOUS
    <2>3. AllResolved(b, rhs, p, acc.b, acc.syms)
      BY <1>4, <2>1, <2>2
    <2>4. PICK q : q = Resolve(acc.b, rhs[p + 1], p)
      OBVIOUS
    <2>5. g[m] = [b |-> q.b, syms |-> Append(acc.syms, q.sym)]
      BY <1>2, <2>1, <2>2, <2>4 DEF ResolveSteps, ResolveStep
    <2>6. IsSymbol(spec, rhs[p + 1])
      BY <1>1, <2>2
    <2>7. AllResolved(b, rhs, p + 1, q.b, g[m].syms)
      <3>1. g[m].syms = Append(acc.syms, q.sym)
        BY <2>5
      <3> HIDE DEF H
      <3> QED
        BY <2>3, <2>4, <2>6, <3>1, OneMoreResolved
    <2>8. g[m].b = q.b /\ m \in 0..N
      BY <2>5
    <2> QED
      BY <2>2, <2>7, <2>8
  <1>5. N \in 0..N
    OBVIOUS
  <1>6. N \in H
    <2> HIDE DEF H
    <2> QED
      BY <1>3, <1>4, <1>5, Climbing
  <1> QED
    BY <1>1, <1>2, <1>6
-----------------------------------------------------------------------------
(* The terminals always lexed.                                              *)
InternSteps(g, m, b, names) ==
  /\ g = [n \in 0..m |-> g[n]] /\ g[0] = b
  /\ \A n \in 1..m : g[n] = InternTerminal(g[n - 1], names[n])

LEMMA InternStepsExist ==
  ASSUME NEW N \in Nat, NEW b, NEW names
  PROVE  \E g : InternSteps(g, N, b, names)
  <1> DEFINE H == {m \in 0..N : \E g : InternSteps(g, m, b, names)}
  <1>1. 0 \in H
    <2>1. PICK g : g = [n \in 0..0 |-> b]
      OBVIOUS
    <2>2. g = [n \in 0..0 |-> g[n]] /\ g[0] = b
      BY <2>1
    <2>3. \A n \in 1..0 : FALSE
      OBVIOUS
    <2>4. InternSteps(g, 0, b, names)
      BY <2>2, <2>3 DEF InternSteps
    <2>5. 0 \in 0..N
      OBVIOUS
    <2> QED
      BY <2>4, <2>5
  <1>2. ASSUME NEW m \in 1..N, m - 1 \in H PROVE m \in H
    <2>1. PICK g : InternSteps(g, m - 1, b, names)
      BY <1>2
    <2>a. PICK more : more = InternTerminal(g[m - 1], names[m])
      OBVIOUS
    <2>2. PICK h : h = [n \in 0..m |-> IF n = m THEN more ELSE g[n]]
      OBVIOUS
    <2>3. h = [n \in 0..m |-> h[n]] /\ h[m] = more /\ \A n \in 0..(m - 1) : h[n] = g[n]
      BY <2>2
    <2>4. ASSUME NEW n \in 1..m PROVE h[n] = InternTerminal(h[n - 1], names[n])
      <3>1. CASE n = m
        <4>1. m - 1 \in 0..(m - 1) /\ n - 1 = m - 1
          BY <3>1
        <4>2. h[m - 1] = g[m - 1]
          BY <2>3, <4>1
        <4> QED
          BY <2>3, <2>a, <3>1, <4>1, <4>2
      <3>2. CASE n # m
        <4>1. n \in 1..(m - 1) /\ n \in 0..(m - 1) /\ n - 1 \in 0..(m - 1)
          BY <3>2
        <4>2. g[n] = InternTerminal(g[n - 1], names[n])
          BY <2>1, <4>1 DEF InternSteps
        <4>3. h[n] = g[n] /\ h[n - 1] = g[n - 1]
          BY <2>3, <4>1
        <4> QED
          BY <4>2, <4>3
      <3> QED
        BY <3>1, <3>2
    <2>5. h[0] = b
      <3>1. 0 \in 0..(m - 1)
        OBVIOUS
      <3> QED
        BY <2>1, <2>3, <3>1 DEF InternSteps
    <2>6. InternSteps(h, m, b, names)
      BY <2>3, <2>4, <2>5 DEF InternSteps
    <2>7. m \in 0..N
      OBVIOUS
    <2> QED
      BY <2>6, <2>7
  <1>3. N \in 0..N
    OBVIOUS
  <1>4. N \in H
    <2> HIDE DEF H
    <2> QED
      BY <1>1, <1>2, <1>3, Climbing
  <1> QED
    BY <1>4

LEMMA InternAllIs ==
  ASSUME NEW b, NEW names, NEW N \in Nat, N = Len(names)
  PROVE  \E g : InternSteps(g, N, b, names) /\ InternAll(b, names) = g[N]
  <1> DEFINE IsF(h) == h = [n \in 0..N |-> IF n = 0 THEN b ELSE InternTerminal(h[n - 1], names[n])]
             F == CHOOSE h : IsF(h)
  <1>1. InternAll(b, names) = F[N]
    BY DEF InternAll
  <1>2. PICK g : InternSteps(g, N, b, names)
    BY InternStepsExist
  <1>3. IsF(g)
    <2>1. ASSUME NEW n \in 0..N
          PROVE  g[n] = IF n = 0 THEN b ELSE InternTerminal(g[n - 1], names[n])
      <3>1. CASE n = 0
        BY <1>2, <3>1 DEF InternSteps
      <3>2. CASE n # 0
        <4>1. n \in 1..N
          BY <3>2
        <4>2. g[n] = InternTerminal(g[n - 1], names[n])
          BY <1>2, <4>1 DEF InternSteps
        <4> QED
          BY <3>2, <4>2
      <3> QED
        BY <3>1, <3>2
    <2>2. g = [n \in 0..N |-> g[n]]
      BY <1>2 DEF InternSteps
    <2> QED
      BY <2>1, <2>2
  <1>4. PICK f : f = F
    OBVIOUS
  <1>5. IsF(f)
    <2>1. IsF(F)
      <3> HIDE DEF IsF
      <3> QED
        BY <1>3
    <2> HIDE DEF F, IsF
    <2> QED
      BY <1>4, <2>1
  <1>6. InternAll(b, names) = f[N]
    <2> HIDE DEF F
    <2> QED
      BY <1>1, <1>4
  <1> HIDE DEF F
  <1>7. InternSteps(f, N, b, names)
    <2>1. f[0] = b
      <3>1. 0 \in 0..N
        OBVIOUS
      <3> QED
        BY <1>5, <3>1
    <2>2. ASSUME NEW n \in 1..N PROVE f[n] = InternTerminal(f[n - 1], names[n])
      <3>1. n \in 0..N /\ n # 0
        OBVIOUS
      <3> QED
        BY <1>5, <3>1
    <2>3. f = [n \in 0..N |-> f[n]]
      <3>1. DOMAIN f = 0..N /\ f = [n \in DOMAIN f |-> f[n]]
        BY <1>5
      <3> QED
        BY <3>1
    <2> QED
      BY <2>1, <2>2, <2>3 DEF InternSteps
  <1> QED
    BY <1>6, <1>7

LEMMA TerminalsStand ==
  ASSUME NEW s, NEW b, Sound(s, b), NEW names, IsList(names), NEW c, c = InternAll(b, names)
  PROVE  Sound(s, c) /\ c.rules = b.rules /\ c.pending = b.pending /\ c.ntOf = b.ntOf
  <1>1. PICK N \in Nat : N = Len(names)
    BY ListFacts
  <1>2. PICK g : InternSteps(g, N, b, names) /\ c = g[N]
    BY <1>1, InternAllIs
  <1> DEFINE Same(d) == Sound(s, d) /\ d.rules = b.rules /\ d.pending = b.pending /\ d.ntOf = b.ntOf
             H == {m \in 0..N : Same(g[m])}
  <1>3. 0 \in H
    BY <1>2 DEF InternSteps
  <1>4. ASSUME NEW m \in 1..N, m - 1 \in H PROVE m \in H
    <2>1. PICK d : d = g[m - 1] /\ Same(d)
      BY <1>4
    <2>2. g[m] = InternTerminal(d, names[m])
      BY <1>2, <2>1 DEF InternSteps
    <2>3. Same(g[m])
      BY <2>1, <2>2, TerminalStands
    <2>4. m \in 0..N
      OBVIOUS
    <2> QED
      BY <2>3, <2>4
  <1>5. N \in 0..N
    OBVIOUS
  <1>6. N \in H
    <2> HIDE DEF H
    <2> QED
      BY <1>3, <1>4, <1>5, Climbing
  <1> QED
    BY <1>2, <1>6

(* The constructor's start.                                                 *)
LEMMA RootsSound ==
  ASSUME IsSpec(spec), ListedOnce(spec), NEW roots, NEW b,
         roots = IF spec.start = "none" \/ spec.start \in DOMAIN NamedArrays(spec) THEN NamedArrays(spec)
                 ELSE With(NamedArrays(spec), spec.start, <<"start", "start">>),
         b = [Blank EXCEPT !.ntOf = roots, !.pending = Listed(spec)]
  PROVE  /\ Sound(spec, b) /\ b.rules = <<>> /\ b.pending = Listed(spec) /\ b.ntOf = roots
         /\ DOMAIN roots = ToSet(Listed(spec))
  <1>1. /\ IsRec(b, BuilderFields) /\ b.rules = <<>> /\ b.terms = <<>> /\ b.ntOf = roots
        /\ b.pending = Listed(spec)
    BY DEF Blank, IsRec, BuilderFields
  <1>2. IsList(b.rules) /\ Len(b.rules) = 0 /\ IsList(b.terms) /\ IsList(b.pending)
    BY <1>1, NoList, ListedFacts
  <1>3. IsBuilder(b)
    BY <1>1, <1>2 DEF IsBuilder
  <1>4. DOMAIN roots = ToSet(Listed(spec)) /\ \A a \in DOMAIN roots : roots[a] = NtFor(spec, a)
    <2>0. ToSet(Listed(spec)) = DOMAIN NamedArrays(spec) \cup (IF spec.start = "none" THEN {} ELSE {spec.start})
      BY ListedFacts
    <2>1. CASE spec.start = "none" \/ spec.start \in DOMAIN NamedArrays(spec)
      <3>1. roots = NamedArrays(spec)
        BY <2>1
      <3> QED
        BY <2>0, <2>1, <3>1 DEF NtFor
    <2>2. CASE ~(spec.start = "none" \/ spec.start \in DOMAIN NamedArrays(spec))
      <3>1. roots = With(NamedArrays(spec), spec.start, <<"start", "start">>)
        BY <2>2
      <3>2. /\ DOMAIN roots = DOMAIN NamedArrays(spec) \cup {spec.start}
            /\ roots[spec.start] = <<"start", "start">>
            /\ \A a \in DOMAIN NamedArrays(spec) : roots[a] = NamedArrays(spec)[a]
        BY <2>2, <3>1 DEF With
      <3> QED
        BY <2>0, <2>2, <3>2 DEF NtFor
    <2> QED
      BY <2>1, <2>2
  <1>5. Finds(spec, b)
    <2>1. DOMAIN b.ntOf \subseteq DOMAIN spec.arrays
      BY <1>1, <1>4, ListedFacts
    <2>2. \A i, j \in 1..Len(b.pending) : b.pending[i] = b.pending[j] => i = j
      BY <1>1 DEF ListedOnce
    <2> QED
      BY <1>1, <1>4, <2>1, <2>2 DEF Finds
  <1>6. \A r \in 1..0 : FALSE
    OBVIOUS
  <1>7. AnonRules(b.rules) /\ RulesAreLists(b.rules) /\ AnonUses(b.rules)
    <2>1. \A r, k : ~Used(b.rules, r, k)
      BY <1>2, <1>6 DEF Used
    <2> QED
      BY <1>2, <1>6, <2>1 DEF AnonRules, RulesAreLists, AnonUses
  <1> QED
    BY <1>1, <1>3, <1>4, <1>5, <1>7 DEF Sound
-----------------------------------------------------------------------------
(* The rules of an array so far: as many as its alternatives scanned, each  *)
(* reading as the one whose place it has among them.                        *)
RulesIn(rules, nt) == {r \in 1..Len(rules) : rules[r].lhs = nt}
RankIn(rules, r) == Cardinality({q \in RulesIn(rules, rules[r].lhs) : q <= r})
RuleReads(b, written, rhs) ==
  Len(rhs) = Len(written) /\ \A k \in 1..Len(written) : Reads(spec, b, written[k], k, rhs[k])
Scanned(b, a, n) ==
  /\ Cardinality(RulesIn(b.rules, NtFor(spec, a))) = n
  /\ \A r \in RulesIn(b.rules, NtFor(spec, a)) :
       RuleReads(b, spec.arrays[a][RankIn(b.rules, r)].rhs, b.rules[r].rhs)

(* Every rule is $accept's, a mid-rule action's or an array's.              *)
Owned(b) ==
  \A r \in 1..Len(b.rules) : \/ b.rules[r].lhs = AcceptSym
                             \/ IsAnon(b.rules[r].lhs)
                             \/ \E a \in DOMAIN b.ntOf : b.rules[r].lhs = NtFor(spec, a)

LEMMA FiniteRules ==
  ASSUME NEW rules, Len(rules) \in Nat, NEW nt
  PROVE  IsFiniteSet(RulesIn(rules, nt)) /\ Cardinality(RulesIn(rules, nt)) \in Nat
  <1>1. IsFiniteSet(1..Len(rules))
    BY FS_Interval
  <1>2. RulesIn(rules, nt) \subseteq 1..Len(rules)
    BY DEF RulesIn
  <1>3. IsFiniteSet(RulesIn(rules, nt))
    BY <1>1, <1>2, FS_Subset
  <1> QED
    BY <1>3, FS_CardinalityType

LEMMA RulesInSame ==
  ASSUME NEW b, IsBuilder(b), NEW c, IsBuilder(c), Grows(b, c), NEW nt,
         \A i \in 1..Len(c.rules) : i <= Len(b.rules) \/ c.rules[i].lhs # nt
  PROVE  /\ RulesIn(c.rules, nt) = RulesIn(b.rules, nt)
         /\ \A r \in RulesIn(b.rules, nt) : /\ c.rules[r] = b.rules[r] /\ r \in 1..Len(b.rules)
                                            /\ RankIn(c.rules, r) = RankIn(b.rules, r)
  <1>1. PICK l \in Nat, m \in Nat : l = Len(b.rules) /\ m = Len(c.rules)
    BY ListFacts DEF IsBuilder
  <1>2. l <= m /\ \A i \in 1..l : c.rules[i] = b.rules[i]
    BY <1>1 DEF Grows, GoesOn
  <1>3. \A i \in 1..m : i <= l \/ c.rules[i].lhs # nt
    BY <1>1
  <1>4. RulesIn(c.rules, nt) = RulesIn(b.rules, nt)
    <2>1. \A i \in 1..m : i <= l => i \in 1..l
      OBVIOUS
    <2>2. \A i \in 1..l : i \in 1..m
      BY <1>2
    <2> QED
      BY <1>1, <1>2, <1>3, <2>1, <2>2 DEF RulesIn
  <1>5. ASSUME NEW r \in RulesIn(b.rules, nt)
        PROVE  /\ c.rules[r] = b.rules[r] /\ r \in 1..Len(b.rules)
               /\ RankIn(c.rules, r) = RankIn(b.rules, r)
    <2>1. r \in 1..l /\ b.rules[r].lhs = nt
      BY <1>1 DEF RulesIn
    <2>2. c.rules[r] = b.rules[r]
      BY <1>2, <2>1
    <2> QED
      BY <1>1, <1>4, <2>1, <2>2 DEF RankIn
  <1> QED
    BY <1>4, <1>5

LEMMA ScannedStays ==
  ASSUME NEW b, IsBuilder(b), NEW c, IsBuilder(c), Grows(b, c), NEW a, NEW n, Scanned(b, a, n),
         \A i \in 1..Len(c.rules) : i <= Len(b.rules) \/ c.rules[i].lhs # NtFor(spec, a)
  PROVE  Scanned(c, a, n)
  <1> DEFINE nt == NtFor(spec, a)
  <1>1. /\ RulesIn(c.rules, nt) = RulesIn(b.rules, nt)
        /\ \A r \in RulesIn(b.rules, nt) : c.rules[r] = b.rules[r] /\ RankIn(c.rules, r) = RankIn(b.rules, r)
    BY RulesInSame
  <1>2. ASSUME NEW r \in RulesIn(c.rules, nt)
        PROVE  RuleReads(c, spec.arrays[a][RankIn(c.rules, r)].rhs, c.rules[r].rhs)
    <2>1. PICK written : written = spec.arrays[a][RankIn(b.rules, r)].rhs
      OBVIOUS
    <2>2. RuleReads(b, written, b.rules[r].rhs)
      BY <1>1, <2>1 DEF Scanned
    <2>3. RuleReads(c, written, b.rules[r].rhs)
      BY <2>2, ReadsStay DEF RuleReads
    <2> QED
      BY <1>1, <2>1, <2>3
  <1> QED
    BY <1>1, <1>2 DEF Scanned

LEMMA NoneScanned ==
  ASSUME IsSpec(spec), ListedOnce(spec), NEW b, Sound(spec, b), Owned(b), NEW a, a \notin DOMAIN b.ntOf
  PROVE  Scanned(b, a, 0)
  <1>1. RulesIn(b.rules, NtFor(spec, a)) = {}
    <2> SUFFICES ASSUME NEW r \in 1..Len(b.rules), b.rules[r].lhs = NtFor(spec, a) PROVE FALSE
      BY DEF RulesIn
    <2>1. NtFor(spec, a)[1] \in {"name", "start", "array"}
      BY NotAPredicate
    <2>2. PICK c \in DOMAIN b.ntOf : b.rules[r].lhs = NtFor(spec, c)
      BY <2>1 DEF Owned, AcceptSym, IsAnon
    <2>3. a = c
      BY <2>2, OwnNonterminals
    <2> QED
      BY <2>2, <2>3
  <1> QED
    BY <1>1, FS_EmptySet DEF Scanned

LEMMA OneMoreScanned ==
  ASSUME NEW b, IsBuilder(b), NEW c, IsBuilder(c), Grows(b, c), Len(c.rules) = Len(b.rules) + 1,
         NEW a, NEW n \in Nat, Scanned(b, a, n), c.rules[Len(b.rules) + 1].lhs = NtFor(spec, a),
         RuleReads(c, spec.arrays[a][n + 1].rhs, c.rules[Len(b.rules) + 1].rhs)
  PROVE  Scanned(c, a, n + 1)
  <1> DEFINE nt == NtFor(spec, a)
  <1>1. PICK l \in Nat : l = Len(b.rules)
    BY ListFacts DEF IsBuilder
  <1>2. Len(c.rules) = l + 1 /\ \A i \in 1..l : c.rules[i] = b.rules[i]
    BY <1>1 DEF Grows, GoesOn
  <1>3. PICK new : new = l + 1
    OBVIOUS
  <1>4. c.rules[new].lhs = nt /\ RuleReads(c, spec.arrays[a][n + 1].rhs, c.rules[new].rhs)
    BY <1>1, <1>3
  <1>5. RulesIn(c.rules, nt) = RulesIn(b.rules, nt) \cup {new}
    <2>1. 1..(l + 1) = 1..l \cup {new} /\ new \notin 1..l
      BY <1>3
    <2> QED
      BY <1>1, <1>2, <1>4, <2>1 DEF RulesIn
  <1>6. IsFiniteSet(RulesIn(b.rules, nt)) /\ new \notin RulesIn(b.rules, nt)
    <2>1. new \notin 1..Len(b.rules)
      BY <1>1, <1>3
    <2> QED
      BY <1>1, <2>1, FiniteRules DEF RulesIn
  <1>7. Cardinality(RulesIn(b.rules, nt)) = n
    BY DEF Scanned
  <1>8. Cardinality(RulesIn(c.rules, nt)) = n + 1
    BY <1>5, <1>6, <1>7, FS_AddElement
  <1>9. RankIn(c.rules, new) = n + 1
    <2>1. {q \in RulesIn(c.rules, nt) : q <= new} = RulesIn(c.rules, nt)
      <3>1. \A q \in RulesIn(c.rules, nt) : q <= new
        BY <1>2, <1>3 DEF RulesIn
      <3> QED
        BY <3>1
    <2> QED
      BY <1>4, <1>8, <2>1 DEF RankIn
  <1>10. ASSUME NEW r \in RulesIn(b.rules, nt)
         PROVE  c.rules[r] = b.rules[r] /\ RankIn(c.rules, r) = RankIn(b.rules, r)
    <2>1. r \in 1..l /\ b.rules[r].lhs = nt
      BY <1>1 DEF RulesIn
    <2>2. c.rules[r] = b.rules[r]
      BY <1>2, <2>1
    <2>3. {q \in RulesIn(c.rules, nt) : q <= r} = {q \in RulesIn(b.rules, nt) : q <= r}
      <3>1. ~(new <= r)
        BY <1>3, <2>1
      <3> QED
        BY <1>5, <3>1
    <2> QED
      BY <2>1, <2>2, <2>3 DEF RankIn
  <1>11. ASSUME NEW r \in RulesIn(c.rules, nt)
         PROVE  RuleReads(c, spec.arrays[a][RankIn(c.rules, r)].rhs, c.rules[r].rhs)
    <2>1. CASE r = new
      BY <1>4, <1>9, <2>1
    <2>2. CASE r # new
      <3>0. r \in RulesIn(b.rules, nt)
        BY <1>5, <2>2
      <3>1. PICK written : written = spec.arrays[a][RankIn(b.rules, r)].rhs
        OBVIOUS
      <3>2. RuleReads(b, written, b.rules[r].rhs)
        BY <3>0, <3>1 DEF Scanned
      <3>3. RuleReads(c, written, b.rules[r].rhs)
        BY <3>2, ReadsStay DEF RuleReads
      <3> QED
        BY <1>10, <3>0, <3>1, <3>3
    <2> QED
      BY <2>1, <2>2
  <1> QED
    BY <1>8, <1>11 DEF Scanned
-----------------------------------------------------------------------------
(* How many alternatives of the i-th array found have been scanned.         *)
DoneOf(b, at, i) == IF i < at.array THEN Len(spec.arrays[b.pending[i]])
                    ELSE IF i = at.array THEN at.alt - 1 ELSE 0

InTurn(b, upTo) ==
  \A i \in 1..Len(b.pending) :
    i <= Len(Listed(spec)) \/ \E j \in 1..(i - 1) : j <= upTo /\ UsesArray(b.pending[j], b.pending[i])

(* The builder while it scans.                                              *)
ScanPlace(b, at) ==
  /\ at = [array |-> at.array, alt |-> at.alt]
  /\ at.array \in Nat \ {0} /\ at.alt \in Nat \ {0}
  /\ at.array <= Len(b.pending) => at.alt <= Len(spec.arrays[b.pending[at.array]]) + 1
BuilderInv(b, at) ==
  /\ Sound(spec, b) /\ Owned(b)
  /\ GoesOn(b.pending, Listed(spec)) /\ InTurn(b, at.array)
  /\ ScanPlace(b, at)
  /\ \A i \in 1..Len(b.pending) : Scanned(b, b.pending[i], DoneOf(b, at, i))

LEMMA ArrayFacts ==
  ASSUME IsSpec(spec), NEW b, Sound(spec, b), NEW i \in 1..Len(b.pending)
  PROVE  /\ b.pending[i] \in DOMAIN b.ntOf /\ b.pending[i] \in DOMAIN spec.arrays
         /\ IsList(spec.arrays[b.pending[i]]) /\ Len(spec.arrays[b.pending[i]]) \in Nat
         /\ \A k \in 1..Len(spec.arrays[b.pending[i]]) :
              /\ IsList(spec.arrays[b.pending[i]][k].rhs)
              /\ \A l \in 1..Len(spec.arrays[b.pending[i]][k].rhs) :
                   IsSymbol(spec, spec.arrays[b.pending[i]][k].rhs[l])
  <1>1. PICK a : a = b.pending[i]
    OBVIOUS
  <1>2. i \in DOMAIN b.pending
    BY ListFacts DEF Sound, IsBuilder
  <1>3. a \in DOMAIN b.ntOf /\ a \in DOMAIN spec.arrays
    BY <1>1, <1>2 DEF Sound, Finds, ToSet
  <1>4. IsList(spec.arrays[a])
    BY <1>3 DEF IsSpec
  <1>5. Len(spec.arrays[a]) \in Nat
    BY <1>4, ListFacts
  <1>6. \A k \in 1..Len(spec.arrays[a]) :
          /\ IsList(spec.arrays[a][k].rhs)
          /\ \A l \in 1..Len(spec.arrays[a][k].rhs) : IsSymbol(spec, spec.arrays[a][k].rhs[l])
    BY <1>3 DEF IsSpec
  <1> QED
    BY <1>1, <1>3, <1>4, <1>5, <1>6

LEMMA OneAppended ==
  ASSUME NEW none, none = <<>>, NEW x
  PROVE  Append(none, x) = <<x>>
  <1>1. PICK t : t = <<x>>
    OBVIOUS
  <1>2. t \in Seq({x}) /\ Len(t) = 1 /\ t[1] = x /\ DOMAIN t = 1..1
    BY <1>1
  <1>3. none \in Seq({x}) /\ Len(none) = 0
    OBVIOUS
  <1>4. Append(none, x) \in Seq({x}) /\ Len(Append(none, x)) = 1 /\ Append(none, x)[1] = x
    BY <1>3
  <1>5. DOMAIN Append(none, x) = 1..1
    BY <1>4
  <1>6. PICK u : u = Append(none, x)
    OBVIOUS
  <1>7. u = [i \in 1..1 |-> u[i]] /\ t = [i \in 1..1 |-> t[i]]
    BY <1>2, <1>4, <1>5, <1>6
  <1>8. u = t
    BY <1>2, <1>4, <1>6, <1>7
  <1> QED
    BY <1>1, <1>6, <1>8

(* The start: nothing is scanned.                                           *)
LEMMA StartHolds ==
  ASSUME IsSpec(spec), ListedOnce(spec), stage = "start", scan = [array |-> 1, alt |-> 1], StartBuilding
  PROVE  BuilderInv(built', scan)
  <1>1. PICK roots : roots = IF spec.start = "none" \/ spec.start \in DOMAIN NamedArrays(spec)
                             THEN NamedArrays(spec)
                             ELSE With(NamedArrays(spec), spec.start, <<"start", "start">>)
    OBVIOUS
  <1>2. PICK b : b = [Blank EXCEPT !.ntOf = roots, !.pending = Listed(spec)]
    OBVIOUS
  <1>3. PICK d : d = InternAll(b, spec.terminals \o spec.skip)
    OBVIOUS
  <1>4. PICK rule : rule = NewRule(AcceptSym, <<roots[Listed(spec)[1]], EndSym>>)
    OBVIOUS
  <1>5. PICK c : c = [d EXCEPT !.rules = <<rule>>]
    OBVIOUS
  <1>6. built' = c
    BY <1>1, <1>2, <1>3, <1>4, <1>5 DEF StartBuilding
  <1>7. /\ Sound(spec, b) /\ b.rules = <<>> /\ b.pending = Listed(spec) /\ b.ntOf = roots
        /\ DOMAIN roots = ToSet(Listed(spec))
    BY <1>1, <1>2, RootsSound
  <1>8. Sound(spec, d) /\ d.rules = <<>> /\ d.pending = Listed(spec) /\ d.ntOf = roots
    <2>1. IsList(spec.terminals \o spec.skip)
      BY ConcatIs DEF IsSpec, IsJoined
    <2> QED
      BY <1>3, <1>7, <2>1, TerminalsStand
  <1>9. /\ Sound(spec, c) /\ c.pending = Listed(spec) /\ c.ntOf = roots
        /\ Len(c.rules) = 1 /\ c.rules[1] = rule
    <2>1. PICK none, first, second : none = <<>> /\ first = roots[Listed(spec)[1]] /\ second = EndSym
      OBVIOUS
    <2>2. rule.lhs = AcceptSym /\ rule.rhs = <<first, second>>
      BY <1>4, <2>1 DEF NewRule
    <2>3. IsList(rule.rhs) /\ Len(rule.rhs) = 2 /\ rule.rhs[1] = first /\ rule.rhs[2] = second
      <3>1. PICK two : two = <<first, second>>
        OBVIOUS
      <3>2. two \in Seq({first, second}) /\ Len(two) = 2 /\ two[1] = first /\ two[2] = second
        BY <3>1
      <3>3. IsList(two)
        BY <3>2, SomeList
      <3> QED
        BY <2>2, <3>1, <3>2, <3>3
    <2>4. ~IsAnon(rule.lhs)
      BY <2>2 DEF IsAnon, AcceptSym
    <2>5. ~IsAnon(Bare(first)) /\ ~IsAnon(Bare(second))
      <3>1. Listed(spec)[1] \in DOMAIN b.ntOf
        <4>1. 1 \in 1..Len(b.pending)
          BY <1>7, ListedFacts
        <4> QED
          BY <1>7, <4>1, ArrayFacts
      <3>2. first = NtFor(spec, Listed(spec)[1])
        BY <1>7, <2>1, <3>1 DEF Sound, Finds
      <3>3. first[1] \in {"name", "start", "array"}
        BY <3>2, NotAPredicate
      <3> QED
        BY <2>1, <3>3 DEF Bare, IsPred, IsAnon, EndSym
    <2>6. Len(d.rules) = 0
      BY <1>8, NoList
    <2>7. Fresh(d.rules, rule.rhs, 0)
      <3>1. \A k \in 1..2 : k = 1 \/ k = 2
        OBVIOUS
      <3>2. \A k \in 1..2 : ~IsAnon(Bare(rule.rhs[k]))
        BY <2>3, <2>5, <3>1
      <3> QED
        BY <2>3, <3>2 DEF Fresh
    <2>8. UsesUpTo(d.rules, 0)
      <3>1. \A r \in 1..0 : FALSE
        OBVIOUS
      <3> QED
        BY <2>6, <3>1 DEF UsesUpTo, Used
    <2>9. c = [d EXCEPT !.rules = Append(d.rules, rule)]
      <3>1. Append(none, rule) = <<rule>>
        BY <2>1, OneAppended
      <3> QED
        BY <1>5, <1>8, <2>1, <3>1
    <2>10. PICK zero \in Nat : zero = 0
      OBVIOUS
    <2>11. /\ Sound(spec, c) /\ c.pending = d.pending /\ c.ntOf = d.ntOf
           /\ Len(c.rules) = Len(d.rules) + 1 /\ c.rules[Len(d.rules) + 1] = rule
      <3>1. UsesUpTo(d.rules, zero) /\ Fresh(d.rules, rule.rhs, zero)
        BY <2>7, <2>8, <2>10
      <3>2. IsAnon(rule.lhs) => rule.lhs = <<"anon", Len(d.rules)>> /\ rule.rhs = <<>>
        BY <2>4
      <3>3. Sound(spec, d) /\ IsList(rule.rhs)
        BY <1>8, <2>3
      <3> QED
        BY <2>9, <3>1, <3>2, <3>3, RuleAdded
    <2> QED
      BY <1>8, <2>6, <2>11
  <1>10. c.rules[1].lhs = AcceptSym
    BY <1>4, <1>9 DEF NewRule
  <1>11. Owned(c)
    <2>1. \A r \in 1..1 : r = 1
      OBVIOUS
    <2> QED
      BY <1>9, <1>10, <2>1 DEF Owned
  <1>12. PICK l \in Nat \ {0} : l = Len(Listed(spec))
    BY ListedFacts
  <1>13. GoesOn(c.pending, Listed(spec)) /\ InTurn(c, scan.array)
    BY <1>9, <1>12 DEF GoesOn, InTurn
  <1>14. ScanPlace(c, scan)
    <2>1. scan.array = 1 /\ scan.alt = 1
      OBVIOUS
    <2>2. 1 \in 1..Len(c.pending)
      BY <1>9, <1>12
    <2>3. Len(spec.arrays[c.pending[1]]) \in Nat
      BY <1>9, <2>2, ArrayFacts
    <2> QED
      BY <2>1, <2>3 DEF ScanPlace
  <1>15. ASSUME NEW i \in 1..Len(c.pending) PROVE Scanned(c, c.pending[i], DoneOf(c, scan, i))
    <2>1. DoneOf(c, scan, i) = 0
      <3>1. i \in Nat \ {0}
        BY <1>9, <1>12
      <3> QED
        BY <3>1 DEF DoneOf
    <2>2. RulesIn(c.rules, NtFor(spec, c.pending[i])) = {}
      <3>1. NtFor(spec, c.pending[i])[1] \in {"name", "start", "array"}
        BY NotAPredicate
      <3>2. \A r \in 1..1 : r = 1
        OBVIOUS
      <3> QED
        BY <1>9, <1>10, <3>1, <3>2 DEF RulesIn, AcceptSym
    <2> QED
      BY <2>1, <2>2, FS_EmptySet DEF Scanned
  <1> QED
    BY <1>6, <1>9, <1>11, <1>13, <1>14, <1>15 DEF BuilderInv

(* One alternative more.                                                    *)
LEMMA AlternativeHolds ==
  ASSUME IsSpec(spec), ListedOnce(spec), BuilderInv(built, scan), ScanAlternative
  PROVE  BuilderInv(built', scan')
  <1>1. PICK b, at : b = built /\ at = scan
    OBVIOUS
  <1>2. BuilderInv(b, at)
    BY <1>1
  <1>3. PICK p \in Nat \ {0} : p = at.array
    BY <1>2 DEF BuilderInv, ScanPlace
  <1>4. PICK a : a = b.pending[p]
    OBVIOUS
  <1>5. PICK n \in Nat : n = at.alt - 1 /\ at.alt = n + 1
    <2>1. at.alt \in Nat \ {0}
      BY <1>2 DEF BuilderInv, ScanPlace
    <2> QED
      BY <2>1
  <1>6. PICK alt : alt = spec.arrays[a][n + 1]
    OBVIOUS
  <1>7. PICK r : r = ResolveAll(b, alt.rhs)
    OBVIOUS
  <1>8. PICK rule : rule = [NewRule(b.ntOf[a], r.syms) EXCEPT !.prec = PrecOf(alt.prec), !.identity = alt.identity]
    OBVIOUS
  <1>9. PICK c : c = [r.b EXCEPT !.rules = Append(r.b.rules, rule)]
    OBVIOUS
  <1>10. PICK d, syms : d = r.b /\ syms = r.syms
    OBVIOUS
  <1>11. Array = a
    BY <1>1, <1>3, <1>4 DEF Array
  <1>12. /\ p <= Len(b.pending) /\ n + 1 <= Len(spec.arrays[a])
         /\ built' = c /\ scan' = [at EXCEPT !.alt = at.alt + 1]
    BY <1>1, <1>3, <1>5, <1>6, <1>7, <1>8, <1>9, <1>11 DEF ScanAlternative, Scanning
  <1>13. /\ Sound(spec, b) /\ Owned(b)
         /\ GoesOn(b.pending, Listed(spec)) /\ InTurn(b, p)
         /\ at = [array |-> at.array, alt |-> at.alt]
         /\ \A i \in 1..Len(b.pending) : Scanned(b, b.pending[i], DoneOf(b, at, i))
    BY <1>2, <1>3 DEF BuilderInv, ScanPlace
  <1>14. PICK lp \in Nat, lb \in Nat : lp = Len(b.pending) /\ lb = Len(b.rules)
    BY <1>13, ListFacts DEF Sound, IsBuilder
  <1>15. p \in 1..lp
    BY <1>12, <1>14
  <1>16. /\ a \in DOMAIN b.ntOf
         /\ Len(spec.arrays[a]) \in Nat
         /\ \A k \in 1..Len(spec.arrays[a]) :
              /\ IsList(spec.arrays[a][k].rhs)
              /\ \A l \in 1..Len(spec.arrays[a][k].rhs) : IsSymbol(spec, spec.arrays[a][k].rhs[l])
    BY <1>4, <1>13, <1>14, <1>15, ArrayFacts
  <1>17. n + 1 \in 1..Len(spec.arrays[a])
    BY <1>12, <1>16
  <1>18. PICK rhs : rhs = alt.rhs
    OBVIOUS
  <1>19. IsList(rhs) /\ \A l \in 1..Len(rhs) : IsSymbol(spec, rhs[l])
    BY <1>6, <1>16, <1>17, <1>18
  <1>20. AllResolved(b, rhs, Len(rhs), d, syms)
    BY <1>7, <1>10, <1>13, <1>18, <1>19, AlternativeResolved
  <1>21. PICK N \in Nat : N = Len(rhs)
    BY <1>19, ListFacts
  <1>22. /\ Sound(spec, d) /\ Grows(b, d) /\ AnonOnly(b, d)
         /\ IsList(syms) /\ Len(syms) = N
         /\ \A k \in 1..N : Reads(spec, d, rhs[k], k, syms[k])
         /\ Fresh(d.rules, syms, lb)
         /\ \A i \in 1..Len(d.pending) :
              i <= lp \/ \E k \in 1..N : rhs[k].is = "array" /\ d.pending[i] = rhs[k].of
    BY <1>14, <1>20, <1>21 DEF AllResolved
  <1>23. IsBuilder(b) /\ IsBuilder(d)
    BY <1>13, <1>22 DEF Sound
  <1>24. PICK ld \in Nat : ld = Len(d.rules)
    BY <1>23, ListFacts DEF IsBuilder
  <1>25. lb <= ld
    BY <1>14, <1>22, <1>24 DEF Grows, GoesOn
  <1>26. rule.lhs = NtFor(spec, a) /\ rule.rhs = syms
    <2>1. rule.lhs = b.ntOf[a] /\ rule.rhs = syms
      BY <1>8, <1>10 DEF NewRule
    <2> QED
      BY <1>13, <1>16, <2>1 DEF Sound, Finds
  <1>27. \A x : NtFor(spec, x)[1] \in {"name", "start", "array"}
    BY NotAPredicate
  <1>28. ~IsAnon(rule.lhs)
    <2>1. NtFor(spec, a)[1] \in {"name", "start", "array"}
      BY <1>27
    <2> QED
      BY <1>26, <2>1 DEF IsAnon
  <1>29. UsesUpTo(d.rules, lb)
    <2> SUFFICES ASSUME NEW q, NEW k, Used(d.rules, q, k), IsAnon(Bare(d.rules[q].rhs[k]))
                 PROVE  \E m \in Nat : m < lb /\ Bare(d.rules[q].rhs[k]) = <<"anon", m>>
      BY DEF UsesUpTo
    <2>1. q \in 1..ld /\ k \in 1..Len(d.rules[q].rhs)
      BY <1>24 DEF Used
    <2>2. q <= lb
      <3> SUFFICES ASSUME ~(q <= lb) PROVE FALSE
        OBVIOUS
      <3>1. d.rules[q].rhs = <<>>
        BY <1>14, <1>22, <1>24, <2>1 DEF AnonOnly
      <3>2. Len(d.rules[q].rhs) = 0
        BY <3>1, NoList
      <3> QED
        BY <2>1, <3>2
    <2>3. q \in 1..lb
      BY <2>1, <2>2
    <2>4. d.rules[q] = b.rules[q]
      BY <1>14, <1>22, <2>3 DEF Grows, GoesOn
    <2>5. Used(b.rules, q, k) /\ IsAnon(Bare(b.rules[q].rhs[k]))
      BY <1>14, <2>1, <2>3, <2>4 DEF Used
    <2> QED
      BY <1>13, <1>14, <2>4, <2>5 DEF Sound, AnonUses
  <1>30. /\ Sound(spec, c) /\ Grows(d, c) /\ c.pending = d.pending /\ c.ntOf = d.ntOf
         /\ Len(c.rules) = ld + 1 /\ c.rules[ld + 1] = rule
    <2>1. c = [d EXCEPT !.rules = Append(d.rules, rule)]
      BY <1>9, <1>10
    <2>2. IsList(rule.rhs) /\ Fresh(d.rules, rule.rhs, lb)
      BY <1>22, <1>26
    <2>3. /\ Sound(spec, c) /\ Grows(d, c) /\ c.pending = d.pending /\ c.ntOf = d.ntOf
          /\ Len(c.rules) = Len(d.rules) + 1 /\ c.rules[Len(d.rules) + 1] = rule
      BY <1>22, <1>28, <1>29, <2>1, <2>2, RuleAdded
    <2> QED
      BY <1>24, <2>3
  <1>31. IsBuilder(c)
    BY <1>30 DEF Sound
  <1>32. Grows(b, c)
    BY <1>22, <1>23, <1>30, <1>31, GrowsOn
  <1>33. Owned(c)
    <2> SUFFICES ASSUME NEW q \in 1..(ld + 1)
                 PROVE  \/ c.rules[q].lhs = AcceptSym \/ IsAnon(c.rules[q].lhs)
                        \/ \E x \in DOMAIN c.ntOf : c.rules[q].lhs = NtFor(spec, x)
      BY <1>30 DEF Owned
    <2>1. \A x \in DOMAIN b.ntOf : x \in DOMAIN c.ntOf
      BY <1>32 DEF Grows
    <2>2. CASE q = ld + 1
      BY <1>16, <1>26, <1>30, <2>1, <2>2
    <2>3. CASE q \in 1..lb
      <3>1. c.rules[q] = b.rules[q]
        BY <1>14, <1>32, <2>3 DEF Grows, GoesOn
      <3> QED
        BY <1>13, <1>14, <2>1, <2>3, <3>1 DEF Owned
    <2>4. CASE q \in 1..ld /\ ~(q <= lb)
      <3>1. c.rules[q] = d.rules[q]
        BY <1>24, <1>30, <2>4 DEF Grows, GoesOn
      <3> QED
        BY <1>14, <1>22, <1>24, <2>4, <3>1 DEF AnonOnly
    <2>5. q = ld + 1 \/ q \in 1..lb \/ (q \in 1..ld /\ ~(q <= lb))
      OBVIOUS
    <2> QED
      BY <2>2, <2>3, <2>4, <2>5
  <1>34. PICK lq \in Nat : lq = Len(c.pending)
    BY <1>31, ListFacts DEF IsBuilder
  <1>35. lp <= lq /\ \A i \in 1..lp : c.pending[i] = b.pending[i]
    BY <1>14, <1>32, <1>34 DEF Grows, GoesOn
  <1>36. GoesOn(c.pending, Listed(spec))
    <2>1. IsList(Listed(spec)) /\ IsList(b.pending) /\ IsList(c.pending)
      BY <1>23, <1>31, ListedFacts DEF IsBuilder
    <2> QED
      BY <1>13, <1>32, <2>1, GoesOnFurther DEF Grows
  <1>37. InTurn(c, p)
    <2> SUFFICES ASSUME NEW i \in 1..lq, ~(i <= Len(Listed(spec)))
                 PROVE  \E j \in 1..(i - 1) : j <= p /\ UsesArray(c.pending[j], c.pending[i])
      BY <1>34 DEF InTurn
    <2>1. CASE i <= lp
      <3>1. i \in 1..lp
        BY <2>1
      <3>2. PICK j \in 1..(i - 1) : j <= p /\ UsesArray(b.pending[j], b.pending[i])
        BY <1>13, <1>14, <3>1 DEF InTurn
      <3>3. j \in 1..lp
        BY <3>1
      <3> QED
        BY <1>35, <3>1, <3>2, <3>3
    <2>2. CASE ~(i <= lp)
      <3>1. PICK k \in 1..N : rhs[k].is = "array" /\ d.pending[i] = rhs[k].of
        BY <1>22, <1>30, <1>34, <2>2
      <3>2. UsesArray(a, c.pending[i])
        BY <1>6, <1>17, <1>18, <1>21, <1>30, <3>1 DEF UsesArray
      <3>3. p \in 1..(i - 1) /\ p <= p
        BY <1>15, <2>2
      <3>4. c.pending[p] = a
        BY <1>4, <1>15, <1>35
      <3> QED
        BY <3>2, <3>3, <3>4
    <2> QED
      BY <2>1, <2>2
  <1>38. PICK now : now = [at EXCEPT !.alt = at.alt + 1]
    OBVIOUS
  <1>39. now = [array |-> now.array, alt |-> now.alt] /\ now.array = p /\ now.alt = n + 2
    BY <1>3, <1>5, <1>13, <1>38
  <1>40. c.pending[p] = a
    BY <1>4, <1>15, <1>35
  <1>41. ScanPlace(c, now)
    <2>1. n + 2 <= Len(spec.arrays[a]) + 1
      BY <1>17
    <2> QED
      BY <1>39, <1>40, <2>1 DEF ScanPlace
  <1>42. \A x : x # a => NtFor(spec, x) # NtFor(spec, a)
    BY OwnNonterminals
  <1>43. ASSUME NEW x, NEW m, Scanned(b, x, m) PROVE Scanned(d, x, m)
    <2>1. \A i \in 1..Len(d.rules) : i <= Len(b.rules) \/ d.rules[i].lhs # NtFor(spec, x)
      <3> SUFFICES ASSUME NEW i \in 1..Len(d.rules), ~(i <= Len(b.rules)), d.rules[i].lhs = NtFor(spec, x)
                   PROVE  FALSE
        OBVIOUS
      <3>1. IsAnon(d.rules[i].lhs)
        BY <1>22 DEF AnonOnly
      <3>2. NtFor(spec, x)[1] \in {"name", "start", "array"}
        BY <1>27
      <3> QED
        BY <3>1, <3>2 DEF IsAnon
    <2> QED
      BY <1>22, <1>23, <1>43, <2>1, ScannedStays
  <1>44. ASSUME NEW x, NEW m, Scanned(b, x, m), x # a PROVE Scanned(c, x, m)
    <2>1. Scanned(d, x, m)
      BY <1>43, <1>44
    <2>2. \A i \in 1..Len(c.rules) : i <= Len(d.rules) \/ c.rules[i].lhs # NtFor(spec, x)
      <3> SUFFICES ASSUME NEW i \in 1..(ld + 1), ~(i <= ld) PROVE c.rules[i].lhs # NtFor(spec, x)
        BY <1>24, <1>30
      <3>1. i = ld + 1
        OBVIOUS
      <3>2. c.rules[i].lhs = NtFor(spec, a)
        BY <1>26, <1>30, <3>1
      <3> QED
        BY <1>42, <1>44, <3>2
    <2> QED
      BY <1>23, <1>30, <1>31, <2>1, <2>2, ScannedStays
  <1>45. Scanned(c, a, n + 1)
    <2>1. Scanned(b, a, n)
      <3>1. DoneOf(b, at, p) = n
        BY <1>3, <1>5 DEF DoneOf
      <3> QED
        BY <1>4, <1>13, <1>14, <1>15, <3>1
    <2>2. Scanned(d, a, n)
      BY <1>43, <2>1
    <2>3. RuleReads(c, rhs, syms)
      <3>1. \A k \in 1..N : Reads(spec, c, rhs[k], k, syms[k])
        BY <1>22, <1>23, <1>30, <1>31, ReadsStay
      <3> QED
        BY <1>21, <1>22, <3>1 DEF RuleReads
    <2>4. Len(c.rules) = Len(d.rules) + 1 /\ c.rules[Len(d.rules) + 1] = rule
      BY <1>24, <1>30
    <2>5. c.rules[Len(d.rules) + 1].lhs = NtFor(spec, a)
      BY <1>26, <2>4
    <2>6. RuleReads(c, spec.arrays[a][n + 1].rhs, c.rules[Len(d.rules) + 1].rhs)
      BY <1>6, <1>18, <1>26, <2>3, <2>4
    <2>7. Grows(d, c)
      BY <1>30
    <2> QED
      BY <1>23, <1>31, <2>2, <2>4, <2>5, <2>6, <2>7, OneMoreScanned
  <1>46. ASSUME NEW i \in 1..lq PROVE Scanned(c, c.pending[i], DoneOf(c, now, i))
    <2>1. CASE i = p
      <3>1. DoneOf(c, now, i) = n + 1
        BY <1>39, <2>1 DEF DoneOf
      <3> QED
        BY <1>40, <1>45, <2>1, <3>1
    <2>2. CASE i # p
      <3>1. c.pending[i] # a
        <4>1. p \in 1..lq
          BY <1>15, <1>35
        <4> QED
          BY <1>30, <1>34, <1>40, <2>2, <4>1 DEF Sound, Finds
      <3>2. CASE i \in 1..lp
        <4>1. c.pending[i] = b.pending[i]
          BY <1>35, <3>2
        <4>2. DoneOf(c, now, i) = DoneOf(b, at, i)
          BY <1>3, <1>39, <2>2, <4>1 DEF DoneOf
        <4>3. Scanned(b, b.pending[i], DoneOf(b, at, i))
          BY <1>13, <1>14, <3>2
        <4> QED
          BY <1>44, <3>1, <4>1, <4>2, <4>3
      <3>3. CASE i \notin 1..lp
        <4>1. ~(i <= lp) /\ p < i
          BY <1>15, <3>3
        <4>2. DoneOf(c, now, i) = 0
          BY <1>39, <4>1 DEF DoneOf
        <4>3. c.pending[i] \notin DOMAIN b.ntOf
          <5> SUFFICES ASSUME c.pending[i] \in DOMAIN b.ntOf PROVE FALSE
            OBVIOUS
          <5>1. c.pending[i] \in ToSet(b.pending)
            BY <1>13 DEF Sound, Finds
          <5>2. PICK j \in 1..lp : c.pending[i] = b.pending[j]
            BY <1>14, <1>23, <5>1, ListFacts DEF ToSet, IsBuilder
          <5>3. c.pending[j] = c.pending[i] /\ j \in 1..lq
            BY <1>35, <5>2
          <5>4. j = i
            BY <1>30, <1>34, <5>3 DEF Sound, Finds
          <5> QED
            BY <3>3, <5>4
        <4>4. Scanned(b, c.pending[i], 0)
          BY <1>13, <4>3, NoneScanned
        <4> QED
          BY <1>44, <3>1, <4>2, <4>4
      <3> QED
        BY <3>2, <3>3
    <2> QED
      BY <2>1, <2>2
  <1>47. BuilderInv(c, now)
    BY <1>30, <1>33, <1>34, <1>36, <1>37, <1>39, <1>41, <1>46 DEF BuilderInv
  <1> QED
    BY <1>12, <1>38, <1>47

(* On to the next array: all alternatives of this one are scanned.          *)
LEMMA NextArrayHolds ==
  ASSUME IsSpec(spec), ListedOnce(spec), BuilderInv(built, scan), ScanNextArray
  PROVE  BuilderInv(built, scan')
  <1>1. PICK b, at, now : b = built /\ at = scan /\ now = scan'
    OBVIOUS
  <1>2. BuilderInv(b, at)
    BY <1>1
  <1>3. PICK p \in Nat \ {0} : p = at.array
    BY <1>2 DEF BuilderInv, ScanPlace
  <1>4. /\ now = [array |-> p + 1, alt |-> 1] /\ p <= Len(b.pending)
        /\ at.alt > Len(spec.arrays[b.pending[p]])
    BY <1>1, <1>3 DEF ScanNextArray, Scanning, Array
  <1>5. /\ Sound(spec, b) /\ Owned(b)
        /\ GoesOn(b.pending, Listed(spec)) /\ InTurn(b, p)
        /\ \A i \in 1..Len(b.pending) : Scanned(b, b.pending[i], DoneOf(b, at, i))
        /\ at.alt \in Nat \ {0} /\ (p <= Len(b.pending) => at.alt <= Len(spec.arrays[b.pending[p]]) + 1)
    BY <1>2, <1>3 DEF BuilderInv, ScanPlace
  <1>6. PICK lp \in Nat : lp = Len(b.pending)
    BY <1>5, ListFacts DEF Sound, IsBuilder
  <1>7. p \in 1..lp
    BY <1>4, <1>6
  <1>8. \A i \in 1..lp : Len(spec.arrays[b.pending[i]]) \in Nat
    BY <1>5, <1>6, ArrayFacts
  <1>9. at.alt - 1 = Len(spec.arrays[b.pending[p]])
    <2>1. PICK m \in Nat : m = Len(spec.arrays[b.pending[p]])
      BY <1>7, <1>8
    <2> QED
      BY <1>4, <1>5, <1>6, <1>7, <2>1
  <1>10. now.array = p + 1 /\ now.alt = 1 /\ now = [array |-> now.array, alt |-> now.alt]
    BY <1>4
  <1>11. ScanPlace(b, now)
    <2>1. p + 1 <= lp => 1 <= Len(spec.arrays[b.pending[p + 1]]) + 1
      <3> SUFFICES ASSUME p + 1 <= lp PROVE 1 <= Len(spec.arrays[b.pending[p + 1]]) + 1
        OBVIOUS
      <3>1. p + 1 \in 1..lp
        OBVIOUS
      <3>2. Len(spec.arrays[b.pending[p + 1]]) \in Nat
        BY <1>8, <3>1
      <3> QED
        BY <3>2
    <2> QED
      BY <1>6, <1>10, <2>1 DEF ScanPlace
  <1>12. InTurn(b, p + 1)
    <2> SUFFICES ASSUME NEW i \in 1..lp, ~(i <= Len(Listed(spec)))
                 PROVE  \E j \in 1..(i - 1) : j <= p + 1 /\ UsesArray(b.pending[j], b.pending[i])
      BY <1>6 DEF InTurn
    <2>1. PICK j \in 1..(i - 1) : j <= p /\ UsesArray(b.pending[j], b.pending[i])
      BY <1>5, <1>6 DEF InTurn
    <2>2. j <= p + 1
      BY <2>1
    <2> QED
      BY <2>1, <2>2
  <1>13. ASSUME NEW i \in 1..lp PROVE DoneOf(b, now, i) = DoneOf(b, at, i)
    <2>1. CASE i < p
      BY <1>3, <1>10, <2>1 DEF DoneOf
    <2>2. CASE i = p
      BY <1>3, <1>9, <1>10, <2>2 DEF DoneOf
    <2>3. CASE i > p
      BY <1>3, <1>10, <2>3 DEF DoneOf
    <2> QED
      BY <2>1, <2>2, <2>3
  <1>14. BuilderInv(b, now)
    <2>1. InTurn(b, now.array)
      BY <1>10, <1>12
    <2>2. \A i \in 1..lp : Scanned(b, b.pending[i], DoneOf(b, now, i))
      BY <1>5, <1>6, <1>13
    <2> QED
      BY <1>5, <1>6, <1>11, <2>1, <2>2 DEF BuilderInv
  <1> QED
    BY <1>1, <1>14

(* The inductive invariant of the builder and of what is made from it.      *)
BuilderHolds ==
  /\ spec \in Specs
  /\ stage = "start" => scan = [array |-> 1, alt |-> 1]
  /\ stage # "start" /\ ListedOnce(spec) => BuilderInv(built, scan)
  /\ stage = "built" => scan.array > Len(built.pending)

LEMMA HeldNext ==
  ASSUME spec' = spec, BuilderInv(built', scan')
  PROVE  BuilderInv(built, scan)'
  <1>1. /\ Sound(spec, built)' /\ GoesOn(built.pending, Listed(spec))'
        /\ Owned(built)' /\ InTurn(built, scan.array)' /\ ScanPlace(built, scan)'
    BY DEF BuilderInv, Owned, InTurn, UsesArray, ScanPlace
  <1>2. (\A i \in 1..Len(built.pending) : Scanned(built, built.pending[i], DoneOf(built, scan, i)))'
    BY DEF BuilderInv, DoneOf, Scanned, RuleReads
  <1> QED
    BY <1>1, <1>2 DEF BuilderInv

LEMMA BuilderStep ==
  ASSUME BuilderHolds, BuilderNext
  PROVE  BuilderHolds'
  <1>1. spec \in Specs /\ IsSpec(spec)
    BY SpecsAssumption DEF BuilderHolds
  <1>2. spec' = spec
    BY DEF BuilderNext, StartBuilding, ScanAlternative, ScanNextArray, NameClash, BuilderDone
  <1>3. CASE StartBuilding
    <2>1. stage = "start" /\ scan = [array |-> 1, alt |-> 1] /\ stage' = "build" /\ scan' = scan
      BY <1>3 DEF StartBuilding, BuilderHolds
    <2>2. ListedOnce(spec) => BuilderInv(built', scan')
      BY <1>1, <1>3, <2>1, StartHolds
    <2> QED
      BY <1>1, <1>2, <2>1, <2>2, HeldNext DEF BuilderHolds
  <1>4. CASE ScanAlternative
    <2>1. stage = "build" /\ stage' = stage
      BY <1>4 DEF ScanAlternative, Scanning
    <2>2. ListedOnce(spec) => BuilderInv(built', scan')
      BY <1>1, <1>4, <2>1, AlternativeHolds DEF BuilderHolds
    <2> QED
      BY <1>1, <1>2, <2>1, <2>2, HeldNext DEF BuilderHolds
  <1>5. CASE ScanNextArray
    <2>1. stage = "build" /\ stage' = stage /\ built' = built
      BY <1>5 DEF ScanNextArray, Scanning
    <2>2. ListedOnce(spec) => BuilderInv(built', scan')
      BY <1>1, <1>5, <2>1, NextArrayHolds DEF BuilderHolds
    <2> QED
      BY <1>1, <1>2, <2>1, <2>2, HeldNext DEF BuilderHolds
  <1>6. CASE NameClash \/ BuilderDone
    <2>1. /\ stage = "build" /\ stage' \in {"clash", "built"} /\ built' = built /\ scan' = scan
          /\ stage' = "built" => scan.array > Len(built.pending)
      BY <1>6 DEF NameClash, BuilderDone
    <2>2. ListedOnce(spec) => BuilderInv(built', scan')
      BY <2>1 DEF BuilderHolds
    <2> QED
      BY <1>1, <1>2, <2>1, <2>2, HeldNext DEF BuilderHolds
  <1> QED
    BY <1>3, <1>4, <1>5, <1>6 DEF BuilderNext

(* What is made of the rules leaves them alone.                             *)
LEMMA LeftAlone ==
  ASSUME BuilderHolds, spec' = spec, built' = built, scan' = scan,
         stage' = stage \/ (stage # "start" /\ stage' \notin {"start", "built"})
  PROVE  BuilderHolds'
  <1>1. stage # "start" /\ ListedOnce(spec) => BuilderInv(built', scan')
    BY DEF BuilderHolds
  <1> QED
    BY <1>1, HeldNext DEF BuilderHolds

LEMMA AnalysisLeaves ==
  ASSUME AnalysisNext
  PROVE  /\ spec' = spec /\ built' = built /\ scan' = scan
         /\ stage' = stage \/ (stage # "start" /\ stage' \notin {"start", "built"})
  <1>1. CASE OrderAlternatives
    BY <1>1 DEF OrderAlternatives
  <1>2. CASE NullablePass
    BY <1>2 DEF NullablePass
  <1>3. CASE TarjanRoot \/ TarjanEdge \/ TarjanPop
    BY <1>3 DEF TarjanRoot, TarjanEdge, TarjanPop, builderVars
  <1>4. CASE Report
    BY <1>4 DEF Report, Searching
  <1> QED
    BY <1>1, <1>2, <1>3, <1>4 DEF AnalysisNext

LEMMA MatcherLeaves ==
  ASSUME MatcherNext
  PROVE  spec' = spec /\ built' = built /\ scan' = scan /\ stage' = stage
  <1>1. UNCHANGED pegVars
    BY DEF MatcherNext, ParseCall, MatchTerminal, EnterPredicate, MidRule, FromMemo, Throws, Reentered, TooDeep,
           WithoutRules, EnterNonTerminal, TryAlternative, OutOfAlternatives, NextSymbol, ChoiceMade, SeedGrows,
           SeedStands, SymbolMatched, SymbolFailed, AndDone, NotSucceeds, NotBlocks, Accept, TrailingText, Failed,
           Fixed
  <1> QED
    BY <1>1 DEF pegVars, builderVars

(* BuilderHolds is inductive. *)
THEOREM BuilderSound == PegSpec => []BuilderHolds
  <1>1. PegInit => BuilderHolds
    BY DEF PegInit, BuilderInit, BuilderHolds
  <1>2. BuilderHolds /\ [PegNext]_matcherVars => BuilderHolds'
    <2> SUFFICES ASSUME BuilderHolds, [PegNext]_matcherVars PROVE BuilderHolds'
      OBVIOUS
    <2>1. CASE BuilderNext
      BY <2>1, BuilderStep
    <2>2. CASE AnalysisNext
      BY <2>2, AnalysisLeaves, LeftAlone
    <2>3. CASE MatcherNext
      BY <2>3, MatcherLeaves, LeftAlone
    <2>4. CASE UNCHANGED matcherVars
      <3>1. spec' = spec /\ built' = built /\ scan' = scan /\ stage' = stage
        BY <2>4 DEF matcherVars, pegVars, builderVars
      <3> QED
        BY <3>1, LeftAlone
    <2> QED
      BY <2>1, <2>2, <2>3, <2>4 DEF PegNext
  <1> QED
    BY <1>1, <1>2, PTL DEF PegSpec
-----------------------------------------------------------------------------
(* What reads as a symbol stands for it, once every rule is there.          *)
LEMMA ReadsStands ==
  ASSUME IsSpec(spec), Sound(spec, built), NEW x, IsSymbol(spec, x), NEW place, NEW sym,
         Reads(spec, built, x, place, sym)
  PROVE  StandsFor(x, place, sym)
  <1>1. IF x.negs = <<>> THEN ~IsPred(sym) ELSE IsPred(sym) /\ sym[2] = x.negs
    BY DEF Reads, Wrapped
  <1>2. CASE x.is \in {"text", "ref"} /\ x.of \in NamesOf(spec)
    <2>1. \E i \in 1..Len(spec.rules) :
            spec.rules[i].name = x.of /\ Bare(sym) = built.ntOf[spec.rules[i].of]
      BY <1>2 DEF Reads
    <2> QED
      BY <1>1, <1>2, <2>1 DEF StandsFor
  <1>3. CASE x.is = "array"
    BY <1>1, <1>3 DEF StandsFor, Reads
  <1>4. CASE x.is = "mid"
    <2>1. PICK y : y = Bare(sym)
      OBVIOUS
    <2>2. PICK n \in Nat : /\ y = <<"anon", n>> /\ n < Len(built.rules)
                           /\ built.rules[n + 1].lhs = y /\ built.rules[n + 1].rhs = <<>>
                           /\ built.rules[n + 1].peek = place
      BY <1>4, <2>1 DEF Reads, MidRuleOf
    <2>3. Len(built.rules) \in Nat
      BY ListFacts DEF Sound, IsBuilder
    <2>4. n + 1 \in 1..Len(built.rules)
      BY <2>2, <2>3
    <2>5. RulesOf(y) = {n + 1}
      <3> SUFFICES ASSUME NEW r \in 1..Len(built.rules), built.rules[r].lhs = y PROVE r = n + 1
        BY <2>2, <2>4 DEF RulesOf
      <3>1. IsAnon(built.rules[r].lhs)
        BY <2>2 DEF IsAnon
      <3>2. built.rules[r].lhs = <<"anon", r - 1>>
        BY <3>1 DEF Sound, AnonRules
      <3>3. <<"anon", r - 1>>[2] = <<"anon", n>>[2]
        BY <2>2, <3>2
      <3>4. r - 1 = n
        BY <3>3
      <3> QED
        BY <2>3, <3>4
    <2>6. UsedOnce(y)
      <3> SUFFICES ASSUME NEW r \in 1..Len(built.rules), NEW q \in 1..Len(built.rules),
                          NEW k \in 1..Len(built.rules[r].rhs), NEW l \in 1..Len(built.rules[q].rhs),
                          Bare(built.rules[r].rhs[k]) = y, Bare(built.rules[q].rhs[l]) = y
                   PROVE  r = q /\ k = l
        BY DEF UsedOnce
      <3>1. IsAnon(y)
        BY <2>2 DEF IsAnon
      <3>2. Used(built.rules, r, k) /\ Used(built.rules, q, l)
        BY DEF Used
      <3> QED
        BY <3>1, <3>2 DEF Sound, AnonUses
    <2>7. /\ \E r \in 1..Len(built.rules) :
               RulesOf(Bare(sym)) = {r} /\ built.rules[r].rhs = <<>> /\ built.rules[r].peek = place
          /\ UsedOnce(Bare(sym))
      BY <2>1, <2>2, <2>4, <2>5, <2>6
    <2> QED
      BY <1>1, <1>4, <2>7 DEF StandsFor
  <1>5. CASE x.is \in {"text", "pattern"} /\ ~(x.is = "text" /\ x.of \in NamesOf(spec))
    <2>1. Bare(sym) = Term(x.of) /\ Contains(built.terms, x.of)
      BY <1>5 DEF Reads
    <2> QED
      BY <1>1, <1>5, <2>1 DEF StandsFor
  <1> QED
    BY <1>2, <1>3, <1>4, <1>5 DEF IsSymbol, SymbolForms

LEMMA BuilderMeans ==
  ASSUME BuilderHolds
  PROVE  BuiltAsSpecified
  <1> SUFFICES ASSUME stage = "built", ListedOnce(spec)
               PROVE  /\ FoundInTurn
                      /\ \A a, c \in DOMAIN built.ntOf : built.ntOf[a] = built.ntOf[c] => a = c
                      /\ \A a \in DOMAIN built.ntOf :
                           /\ Cardinality(RulesOf(built.ntOf[a])) = Len(spec.arrays[a])
                           /\ \A r \in RulesOf(built.ntOf[a]) :
                                LET written == spec.arrays[a][Rank(r)].rhs
                                    rule == built.rules[r]
                                IN  /\ Len(rule.rhs) = Len(written)
                                    /\ \A k \in 1..Len(written) : StandsFor(written[k], k, rule.rhs[k])
    BY DEF BuiltAsSpecified
  <1>1. IsSpec(spec)
    BY SpecsAssumption DEF BuilderHolds
  <1>2. BuilderInv(built, scan) /\ scan.array > Len(built.pending)
    BY DEF BuilderHolds
  <1>3. Sound(spec, built) /\ Finds(spec, built) /\ IsBuilder(built)
    BY <1>2 DEF BuilderInv, Sound
  <1>4. PICK lp \in Nat : lp = Len(built.pending)
    BY <1>3, ListFacts DEF IsBuilder
  <1>5. \A a \in DOMAIN built.ntOf : built.ntOf[a] = NtFor(spec, a)
    BY <1>3 DEF Finds
  <1>6. FoundInTurn
    <2>1. ASSUME NEW i \in 1..lp
          PROVE  \/ Contains(Listed(spec), built.pending[i])
                 \/ \E j \in 1..(i - 1) : UsesArray(built.pending[j], built.pending[i])
      <3>1. CASE i <= Len(Listed(spec))
        <4>1. Len(Listed(spec)) \in Nat
          BY <1>1, ListedFacts
        <4>2. i \in 1..Len(Listed(spec))
          BY <3>1, <4>1
        <4>3. built.pending[i] = Listed(spec)[i]
          BY <1>2, <4>2 DEF BuilderInv, GoesOn
        <4> QED
          BY <4>2, <4>3 DEF Contains
      <3>2. CASE ~(i <= Len(Listed(spec)))
        BY <1>2, <1>4, <3>2 DEF BuilderInv, InTurn
      <3> QED
        BY <3>1, <3>2
    <2> QED
      BY <1>3, <1>4, <2>1 DEF FoundInTurn, Finds
  <1>7. \A a, c \in DOMAIN built.ntOf : built.ntOf[a] = built.ntOf[c] => a = c
    BY <1>1, <1>5, OwnNonterminals
  <1>8. ASSUME NEW a \in DOMAIN built.ntOf
        PROVE  /\ Cardinality(RulesOf(built.ntOf[a])) = Len(spec.arrays[a])
               /\ \A r \in RulesOf(built.ntOf[a]) :
                    LET written == spec.arrays[a][Rank(r)].rhs
                        rule == built.rules[r]
                    IN  /\ Len(rule.rhs) = Len(written)
                        /\ \A k \in 1..Len(written) : StandsFor(written[k], k, rule.rhs[k])
    <2>1. PICK i \in 1..lp : built.pending[i] = a
      <3>1. a \in ToSet(built.pending)
        BY <1>3 DEF Finds
      <3> QED
        BY <1>3, <1>4, <3>1, ListFacts DEF ToSet, IsBuilder
    <2>2. DoneOf(built, scan, i) = Len(spec.arrays[a])
      <3>1. scan.array \in Nat
        BY <1>2 DEF BuilderInv, ScanPlace
      <3>2. i < scan.array
        BY <1>2, <1>4, <3>1
      <3> QED
        BY <2>1, <3>2 DEF DoneOf
    <2>3. Scanned(built, a, Len(spec.arrays[a]))
      BY <1>2, <1>4, <2>1, <2>2 DEF BuilderInv
    <2>4. RulesOf(built.ntOf[a]) = RulesIn(built.rules, NtFor(spec, a))
      BY <1>5 DEF RulesOf, RulesIn
    <2>5. ASSUME NEW r \in RulesOf(built.ntOf[a])
          PROVE  LET written == spec.arrays[a][Rank(r)].rhs
                     rule == built.rules[r]
                 IN  /\ Len(rule.rhs) = Len(written)
                     /\ \A k \in 1..Len(written) : StandsFor(written[k], k, rule.rhs[k])
      <3>1. Rank(r) = RankIn(built.rules, r)
        BY DEF Rank, RankIn, RulesOf, RulesIn
      <3>2. PICK written, rhs : written = spec.arrays[a][Rank(r)].rhs /\ rhs = built.rules[r].rhs
        OBVIOUS
      <3>3. RuleReads(built, written, rhs)
        BY <2>3, <2>4, <3>1, <3>2 DEF Scanned
      <3>4. \A k \in 1..Len(written) : IsSymbol(spec, written[k])
        <4>1. Rank(r) \in 1..Len(spec.arrays[a])
          <5>1. r \in 1..Len(built.rules) /\ r \in RulesIn(built.rules, NtFor(spec, a))
                /\ built.rules[r].lhs = NtFor(spec, a)
            BY <2>4 DEF RulesIn
          <5>2. PICK all, some : /\ all = RulesIn(built.rules, NtFor(spec, a))
                                 /\ some = {q \in all : q <= r}
            OBVIOUS
          <5>3. Len(built.rules) \in Nat
            BY <1>3, ListFacts DEF IsBuilder
          <5>4. IsFiniteSet(all) /\ Cardinality(all) = Len(spec.arrays[a]) /\ Cardinality(all) \in Nat
            BY <2>3, <5>2, <5>3, FiniteRules DEF Scanned
          <5>5. some \in SUBSET all /\ r \in some
            BY <5>1, <5>2, <5>3
          <5>6. IsFiniteSet(some) /\ Cardinality(some) <= Cardinality(all)
            BY <5>4, <5>5, FS_Subset
          <5>7. Cardinality(some) \in Nat /\ Cardinality(some) # 0
            BY <5>5, <5>6, FS_CardinalityType, FS_EmptySet
          <5>8. Rank(r) = Cardinality(some)
            BY <3>1, <5>1, <5>2 DEF RankIn
          <5> QED
            BY <5>4, <5>6, <5>7, <5>8
        <4>2. \A n \in 1..Len(spec.arrays[a]) : \A k \in 1..Len(spec.arrays[a][n].rhs) :
                 IsSymbol(spec, spec.arrays[a][n].rhs[k])
          BY <1>1, <1>3, <1>4, <2>1, ArrayFacts
        <4> QED
          BY <3>2, <4>1, <4>2
      <3>5. \A k \in 1..Len(written) : StandsFor(written[k], k, rhs[k])
        BY <1>1, <1>3, <3>3, <3>4, ReadsStands DEF RuleReads
      <3>6. Len(rhs) = Len(written)
        BY <3>3 DEF RuleReads
      <3> QED
        BY <3>2, <3>5, <3>6
    <2> QED
      BY <2>3, <2>4, <2>5 DEF Scanned
  <1> QED
    BY <1>6, <1>7, <1>8

(* The rules mean the specification, for every specification: each array    *)
(* found once and in turn, its rules its alternatives, symbol for symbol.   *)
THEOREM RulesMeanTheSpecification == PegSpec => []BuiltAsSpecified
  <1>1. BuilderHolds => BuiltAsSpecified
    BY BuilderMeans
  <1> QED
    BY <1>1, BuilderSound, PTL
=============================================================================
