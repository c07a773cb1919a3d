---------------------------- MODULE GlrForkProofs ----------------------------
(* Where the text is while the parser works on it, for every grammar,       *)
(* option and text: no lexeme is lost or parsed twice, whatever the lexer   *)
(* drops, whatever recovery inserts, and however the derivations of a fork  *)
(* multiply, merge, die and settle; and those derivations stay in step with *)
(* the one lexer they share.                                                *)
(*                                                                          *)
(* A stack holds a sequence of lexemes: the spans of its frames, one after  *)
(* another.  So does a frame of a fork, by the chain down from it: what its *)
(* parent holds and its own span.  A shift adds its token, a reduce joins   *)
(* the spans of what it pops, a merge keeps the span of the frame that was  *)
(* there, and the lexer drops no more than it passes over.                  *)
EXTENDS LanguageProofs

-----------------------------------------------------------------------------
(* Sums of the spans of a list of frames, from the front.                   *)
Sums(g, n, s) ==
  /\ g \in [0..n -> Seq(Nat)]
  /\ \A k \in 1..n : s[k].span \in Seq(Nat) /\ g[k] = g[k - 1] \o s[k].span

LEMMA ConcatAssociates ==
  ASSUME NEW a \in Seq(Nat), NEW b \in Seq(Nat), NEW c \in Seq(Nat)
  PROVE  (a \o b) \o c = a \o (b \o c)
  OBVIOUS

LEMMA EmptyAdds ==
  ASSUME NEW a \in Seq(Nat), NEW b, b = <<>>
  PROVE  a \o b = a /\ b \o a = a /\ b \in Seq(Nat)
  OBVIOUS

LEMMA SumsGrow ==
  ASSUME NEW m \in Nat \ {0}, NEW s, NEW g, Sums(g, m - 1, s), s[m].span \in Seq(Nat)
  PROVE  \E h : Sums(h, m, s) /\ h[0] = g[0] /\ h[m] = g[m - 1] \o s[m].span
  <1>1. PICK new : new = g[m - 1] \o s[m].span
    OBVIOUS
  <1>2. g[m - 1] \in Seq(Nat)
    <2>1. m - 1 \in 0..(m - 1)
      OBVIOUS
    <2> QED
      BY <2>1 DEF Sums
  <1>3. new \in Seq(Nat)
    BY <1>1, <1>2
  <1>4. PICK h : h = [k \in 0..m |-> IF k = m THEN new ELSE g[k]]
    OBVIOUS
  <1>5. h \in [0..m -> Seq(Nat)]
    <2>1. \A k \in 0..m : k # m => g[k] \in Seq(Nat)
      BY DEF Sums
    <2> QED
      BY <1>3, <1>4, <2>1
  <1>6. h[0] = g[0]
    BY <1>4
  <1>7. ASSUME NEW k \in 1..m PROVE s[k].span \in Seq(Nat) /\ h[k] = h[k - 1] \o s[k].span
    <2>1. CASE k = m
      <3>1. h[k] = new /\ h[k - 1] = g[k - 1]
        BY <1>4, <2>1
      <3> QED
        BY <1>1, <2>1, <3>1
    <2>2. CASE k # m
      <3>1. k \in 1..(m - 1) /\ h[k] = g[k] /\ h[k - 1] = g[k - 1]
        BY <1>4, <2>2
      <3> QED
        BY <3>1 DEF Sums
    <2> QED
      BY <2>1, <2>2
  <1>8. Sums(h, m, s)
    BY <1>5, <1>7 DEF Sums
  <1>9. h[m] = new
    BY <1>4
  <1> QED
    BY <1>1, <1>6, <1>8, <1>9

LEMMA SumsExist ==
  ASSUME NEW n \in Nat, NEW s, \A k \in 1..n : s[k].span \in Seq(Nat)
  PROVE  \E g : Sums(g, n, s) /\ g[0] = <<>>
  <1> DEFINE H == {m \in 0..n : \E g : Sums(g, m, s) /\ g[0] = <<>>}
  <1>1. 0 \in H
    <2>1. PICK none : none = <<>>
      OBVIOUS
    <2>2. PICK g : g = [k \in 0..0 |-> none]
      OBVIOUS
    <2>3. g \in [0..0 -> Seq(Nat)] /\ g[0] = <<>>
      <3>1. none \in Seq(Nat)
        BY <2>1
      <3> QED
        BY <2>1, <2>2, <3>1
    <2>4. \A k \in 1..0 : FALSE
      OBVIOUS
    <2>5. Sums(g, 0, s)
      BY <2>3, <2>4 DEF Sums
    <2>6. 0 \in 0..n
      OBVIOUS
    <2> QED
      BY <2>3, <2>5, <2>6
  <1>2. ASSUME NEW m \in 1..n, m - 1 \in H PROVE m \in H
    <2>1. PICK g : Sums(g, m - 1, s) /\ g[0] = <<>>
      BY <1>2
    <2>2. \E h : Sums(h, m, s) /\ h[0] = g[0]
      <3> HIDE DEF H
      <3>1. m \in Nat \ {0} /\ s[m].span \in Seq(Nat)
        OBVIOUS
      <3>2. PICK h : Sums(h, m, s) /\ h[0] = g[0] /\ h[m] = g[m - 1] \o s[m].span
        BY <2>1, <3>1, SumsGrow
      <3> QED
        BY <3>2
    <2>3. m \in 0..n
      OBVIOUS
    <2> QED
      BY <2>1, <2>2, <2>3
  <1>3. n \in 0..n
    OBVIOUS
  <1>4. n \in H
    <2> HIDE DEF H
    <2> QED
      BY <1>1, <1>2, <1>3, Climbing
  <1> QED
    BY <1>4

Joins(g, n, s) == Len(s) = n /\ g[1] = s[1] /\ \A k \in 2..n : g[k] = g[k - 1] \o s[k]

LEMMA FlattenIs ==
  ASSUME NEW n \in Nat \ {0}, NEW s, NEW g, Joins(g, n, s)
  PROVE  FlattenSeq(s) = g[n]
  <1>0. Len(s) = n /\ g[1] = s[1] /\ \A k \in 2..n : g[k] = g[k - 1] \o s[k]
    BY DEF Joins
  <1> DEFINE IsF(h) == h = [i \in 1..n |-> IF i = 1 THEN s[i] ELSE h[i - 1] \o s[i]]
             F == CHOOSE h : IsF(h)
  <1>1. FlattenSeq(s) = F[n]
    BY <1>0 DEF FlattenSeq
  <1>2. PICK h : h = [i \in 1..n |-> g[i]]
    OBVIOUS
  <1>3. IsF(h)
    <2>1. ASSUME NEW i \in 1..n PROVE h[i] = IF i = 1 THEN s[i] ELSE h[i - 1] \o s[i]
      <3>1. CASE i = 1
        BY <1>0, <1>2, <3>1
      <3>2. CASE i # 1
        <4>1. i \in 2..n /\ i - 1 \in 1..n
          BY <3>2
        <4> QED
          BY <1>0, <1>2, <3>2, <4>1
      <3> QED
        BY <3>1, <3>2
    <2>2. h = [i \in 1..n |-> h[i]]
      BY <1>2
    <2> QED
      BY <2>1, <2>2
  <1> HIDE DEF IsF
  <1>4. IsF(F)
    BY <1>3
  <1>5. PICK f : f = F /\ IsF(f)
    BY <1>4
  <1> HIDE DEF F
  <1>6. f[1] = s[1] /\ \A i \in 2..n : f[i] = f[i - 1] \o s[i]
    <2>1. 1 \in 1..n /\ \A i \in 2..n : i \in 1..n /\ i # 1
      OBVIOUS
    <2> QED
      BY <1>5, <2>1 DEF IsF
  <1> DEFINE H == {m \in 0..n : m # 0 => f[m] = g[m]}
  <1>7. 0 \in H
    OBVIOUS
  <1>8. ASSUME NEW m \in 1..n, m - 1 \in H PROVE m \in H
    <2>1. f[m] = g[m]
      <3>1. CASE m = 1
        BY <1>0, <1>6, <3>1
      <3>2. CASE m # 1
        <4>1. m \in 2..n /\ m - 1 # 0
          BY <3>2
        <4>2. f[m - 1] = g[m - 1]
          BY <1>8, <4>1
        <4> HIDE DEF H
        <4>3. f[m] = f[m - 1] \o s[m] /\ g[m] = g[m - 1] \o s[m]
          BY <1>0, <1>6, <4>1
        <4> QED
          BY <4>2, <4>3
      <3> QED
        BY <3>1, <3>2
    <2>2. m \in 0..n
      OBVIOUS
    <2> QED
      BY <2>1, <2>2
  <1>9. n \in 0..n /\ n # 0
    OBVIOUS
  <1>10. n \in H
    <2> HIDE DEF H
    <2> QED
      BY <1>7, <1>8, <1>9, Climbing
  <1> QED
    BY <1>1, <1>5, <1>9, <1>10

(* The span of some frames is what they add to any sum they go on.          *)
LEMMA SpanAdds ==
  ASSUME NEW n \in Nat, NEW kids, Len(kids) = n, NEW w, Sums(w, n, kids)
  PROVE  SpanOf(kids) \in Seq(Nat) /\ w[n] = w[0] \o SpanOf(kids)
  <1>1. \A k \in 1..n : kids[k].span \in Seq(Nat)
    BY DEF Sums
  <1>2. PICK g : Sums(g, n, kids) /\ g[0] = <<>>
    BY <1>1, SumsExist
  <1>3. \A k \in 0..n : g[k] \in Seq(Nat) /\ w[k] \in Seq(Nat)
    BY <1>2 DEF Sums
  <1>4. SpanOf(kids) = g[n]
    <2>1. PICK s : s = [k \in 1..n |-> kids[k].span]
      OBVIOUS
    <2>2. s \in Seq(Seq(Nat)) /\ Len(s) = n /\ \A k \in 1..n : s[k] = kids[k].span
      <3>1. s \in [1..n -> Seq(Nat)]
        BY <1>1, <2>1
      <3> QED
        BY <2>1, <3>1
    <2>3. SpanOf(kids) = FlattenSeq(s)
      BY <2>1 DEF SpanOf
    <2>4. CASE n = 0
      <3>1. FlattenSeq(s) = s /\ s = <<>>
        BY <2>2, <2>4 DEF FlattenSeq
      <3> QED
        BY <1>2, <2>3, <2>4, <3>1
    <2>5. CASE n # 0
      <3>1. 1 \in 1..n /\ 0 \in 0..n
        BY <2>5
      <3>2. g[1] = g[0] \o kids[1].span
        <4>1. g[1] = g[1 - 1] \o kids[1].span
          BY <1>2, <3>1 DEF Sums
        <4> QED
          BY <4>1
      <3>3. g[1] = s[1]
        BY <1>1, <1>2, <2>2, <3>1, <3>2, EmptyAdds
      <3>4. ASSUME NEW k \in 2..n PROVE g[k] = g[k - 1] \o s[k]
        <4>1. k \in 1..n
          OBVIOUS
        <4>2. g[k] = g[k - 1] \o kids[k].span /\ s[k] = kids[k].span
          BY <1>2, <2>2, <4>1 DEF Sums
        <4> QED
          BY <4>2
      <3>5. n \in Nat \ {0} /\ Len(s) = n
        BY <2>2, <2>5
      <3>6. FlattenSeq(s) = g[n]
        <4>1. Joins(g, n, s)
          BY <3>3, <3>4, <3>5 DEF Joins
        <4> QED
          BY <3>5, <4>1, FlattenIs
      <3> QED
        BY <2>3, <3>6
    <2> QED
      BY <2>4, <2>5
  <1> DEFINE H == {k \in 0..n : w[k] = w[0] \o g[k]}
  <1>5. 0 \in H
    <2>1. 0 \in 0..n
      OBVIOUS
    <2>2. w[0] \in Seq(Nat)
      BY <1>3, <2>1
    <2>3. w[0] \o g[0] = w[0]
      BY <1>2, <2>2, EmptyAdds
    <2> QED
      BY <2>1, <2>3
  <1>6. ASSUME NEW k \in 1..n, k - 1 \in H PROVE k \in H
    <2>1. k \in 0..n /\ k - 1 \in 0..n /\ 0 \in 0..n
      OBVIOUS
    <2>2. PICK a, b, c : a = w[0] /\ b = g[k - 1] /\ c = kids[k].span
      OBVIOUS
    <2>3. a \in Seq(Nat) /\ b \in Seq(Nat) /\ c \in Seq(Nat)
      BY <1>1, <1>3, <2>1, <2>2
    <2>4. w[k - 1] = a \o b
      BY <1>6, <2>2
    <2> HIDE DEF H
    <2>5. w[k] = w[k - 1] \o c /\ g[k] = b \o c
      BY <1>2, <2>2 DEF Sums
    <2>6. (a \o b) \o c = a \o (b \o c)
      BY <2>3, ConcatAssociates
    <2>7. w[k] = w[0] \o g[k]
      BY <2>2, <2>4, <2>5, <2>6
    <2> QED
      BY <2>1, <2>7 DEF H
  <1>7. n \in 0..n
    OBVIOUS
  <1>8. n \in H
    <2> HIDE DEF H
    <2> QED
      BY <1>5, <1>6, <1>7, Climbing
  <1> QED
    BY <1>3, <1>4, <1>7, <1>8
-----------------------------------------------------------------------------
(* The lexemes up to a place, in order, less those that were dropped.       *)
HeldTo(dropped, e) ==
  {s \in Seq(Nat) : /\ ToSet(s) = (1..e) \ dropped
                    /\ \A i, j \in 1..Len(s) : i < j => s[i] < s[j]}

LEMMA HeldFromNone ==
  ASSUME NEW s, s = <<>>
  PROVE  s \in HeldTo({}, 0)
  <1>1. PICK n \in Nat : n = 0
    OBVIOUS
  <1>2. s \in Seq(Nat) /\ Len(s) = n
    BY <1>1
  <1>3. ToSet(s) = {}
    BY <1>1, <1>2 DEF ToSet
  <1>4. (1..0) \ {} = {}
    OBVIOUS
  <1> QED
    BY <1>1, <1>2, <1>3, <1>4 DEF HeldTo

LEMMA HeldGrows ==
  ASSUME NEW dropped, NEW o \in Nat \ {0}, NEW i \in Nat, o <= i, NEW s \in HeldTo(dropped, o - 1)
  PROVE  s \in HeldTo(dropped \cup (o..(i - 1)), i - 1)
  <1>1. (1..(i - 1)) \ (dropped \cup (o..(i - 1))) = (1..(o - 1)) \ dropped
    OBVIOUS
  <1> QED
    BY <1>1 DEF HeldTo

LEMMA HeldTakes ==
  ASSUME NEW dropped, NEW e \in Nat \ {0}, e \notin dropped, NEW s \in HeldTo(dropped, e - 1)
  PROVE  s \o <<e>> \in HeldTo(dropped, e)
  <1>1. s \in Seq(Nat) /\ ToSet(s) = (1..(e - 1)) \ dropped /\ \A i, j \in 1..Len(s) : i < j => s[i] < s[j]
    BY DEF HeldTo
  <1>2. PICK n \in Nat : n = Len(s)
    BY <1>1
  <1>3. PICK t : t = s \o <<e>>
    OBVIOUS
  <1>4. t \in Seq(Nat) /\ Len(t) = n + 1 /\ t[n + 1] = e /\ \A k \in 1..n : t[k] = s[k]
    BY <1>1, <1>2, <1>3
  <1>5. \A k \in 1..n : s[k] \in 1..(e - 1)
    BY <1>1, <1>2, HoldsAt
  <1>6. ToSet(t) = (1..e) \ dropped
    <2>1. \A x : x \in ToSet(t) <=> \E k \in 1..(n + 1) : x = t[k]
      BY <1>4, HoldsAt
    <2>2. \A x : x \in ToSet(s) <=> \E k \in 1..n : x = s[k]
      BY <1>1, <1>2, HoldsAt
    <2>3. \A x : x \in ToSet(t) <=> x \in ToSet(s) \/ x = e
      BY <1>2, <1>4, <2>1, <2>2
    <2>4. \A x : x \in (1..e) \ dropped <=> x \in (1..(e - 1)) \ dropped \/ x = e
      OBVIOUS
    <2> QED
      BY <1>1, <2>3, <2>4
  <1>7. ASSUME NEW i \in 1..(n + 1), NEW j \in 1..(n + 1), i < j PROVE t[i] < t[j]
    <2>1. i \in 1..n /\ t[i] = s[i]
      BY <1>2, <1>4, <1>7
    <2>2. CASE j = n + 1
      <3>1. s[i] \in 1..(e - 1)
        BY <1>5, <2>1
      <3> QED
        BY <1>4, <2>1, <2>2, <3>1
    <2>3. CASE j # n + 1
      <3>1. j \in 1..n /\ t[j] = s[j]
        BY <1>4, <2>3
      <3> QED
        BY <1>1, <1>2, <1>7, <2>1, <3>1
    <2> QED
      BY <2>2, <2>3
  <1> QED
    BY <1>3, <1>4, <1>6, <1>7 DEF HeldTo

(* A token from the text: where it stands, where the lexer goes on behind   *)
(* it, and what was dropped before it.                                      *)
StandsAt(tok, o, dropped) ==
  /\ tok.at \in Nat \ {0} /\ \A i \in dropped : i \in Nat /\ i < tok.at
  /\ o = IF tok.type \in {EOF, ERROR} THEN tok.at ELSE tok.at + 1

(* What is held when a token has been shifted; no end of input ever is.     *)
Behind(tok, o, dropped) == IF tok.type = EOF THEN {} ELSE HeldTo(dropped, o - 1)

LEMMA TokenTakes ==
  ASSUME NEW tok, NEW o, NEW dropped, StandsAt(tok, o, dropped), tok.type # EOF,
         NEW s \in HeldTo(dropped, tok.at - 1)
  PROVE  s \o RealSpan(tok) \in HeldTo(dropped, o - 1) /\ RealSpan(tok) \in Seq(Nat)
  <1>1. PICK e \in Nat \ {0} : e = tok.at /\ e \notin dropped
    BY DEF StandsAt
  <1>2. s \in Seq(Nat)
    BY DEF HeldTo
  <1>3. CASE tok.type = ERROR
    <2>1. PICK none : none = RealSpan(tok) /\ none = <<>>
      BY <1>3 DEF RealSpan
    <2>2. s \o none = s /\ none \in Seq(Nat)
      BY <1>2, <2>1, EmptyAdds
    <2>3. o = e
      BY <1>1, <1>3 DEF StandsAt
    <2> QED
      BY <1>1, <2>1, <2>2, <2>3
  <1>4. CASE tok.type # ERROR
    <2>1. RealSpan(tok) = <<e>> /\ <<e>> \in Seq(Nat)
      BY <1>1, <1>4 DEF RealSpan
    <2>2. o - 1 = e
      BY <1>1, <1>4 DEF StandsAt
    <2>3. s \o <<e>> \in HeldTo(dropped, e)
      BY <1>1, HeldTakes
    <2> QED
      BY <2>1, <2>2, <2>3
  <1> QED
    BY <1>3, <1>4

LEMMA InsertedTakes ==
  ASSUME NEW tok, tok.at = 0, NEW s \in Seq(Nat)
  PROVE  s \o RealSpan(tok) = s /\ RealSpan(tok) \in Seq(Nat)
  <1>1. PICK none : none = RealSpan(tok) /\ none = <<>>
    BY DEF RealSpan
  <1> QED
    BY <1>1, EmptyAdds

(* The lexer goes on from where it stood.                                   *)
Dropping(row) == ignored \cup (offset..(NextStop(row) - 1))

LEMMA LexedOn ==
  ASSUME LexerOK, NEW row, \A i \in ignored : i \in Nat /\ i < offset
  PROVE  /\ StandsAt(Lexed(row).tok, Lexed(row).next, Dropping(row))
         /\ \A s \in HeldTo(ignored, offset - 1) : s \in HeldTo(Dropping(row), Lexed(row).tok.at - 1)
  <1>1. PICK n \in Nat : n = Len(input)
    BY DEF LexerOK
  <1>2. PICK o \in Nat \ {0} : o = offset
    BY DEF LexerOK
  <1>3. PICK i \in Nat \ {0} : i = NextStop(row) /\ o <= i
    BY <1>1, <1>2, StopsSomewhere
  <1>4. i \in 1..(n + 1)
    BY <1>1, <1>3, StopsSomewhere
  <1>5. PICK dropped : dropped = Dropping(row) /\ dropped = ignored \cup (o..(i - 1))
    BY <1>2, <1>3 DEF Dropping
  <1>6. \A k \in dropped : k \in Nat /\ k < i
    BY <1>2, <1>3, <1>5
  <1>7. PICK t, next : t = Lexed(row).tok /\ next = Lexed(row).next
    OBVIOUS
  <1>8. t.at = i /\ next = IF t.type \in {EOF, ERROR} THEN i ELSE i + 1
    <2>1. CASE i > n
      <3>1. Lexed(row) = [tok |-> [type |-> EOF, at |-> i], next |-> i]
        BY <1>1, <1>3, <2>1 DEF Lexed
      <3>2. t.type = EOF /\ t.at = i /\ next = i
        BY <1>7, <3>1
      <3> QED
        BY <3>2
    <2>2. CASE i <= n /\ CandidatesAt(row, i) = <<>>
      <3>1. Lexed(row) = [tok |-> [type |-> ERROR, at |-> i], next |-> i]
        BY <1>1, <1>3, <2>2 DEF Lexed
      <3>2. t.type = ERROR /\ t.at = i /\ next = i
        BY <1>7, <3>1
      <3> QED
        BY <3>2
    <2>3. CASE i <= n /\ CandidatesAt(row, i) # <<>>
      <3>1. PICK c : c = CandidatesAt(row, i)[1]
        OBVIOUS
      <3>2. Lexed(row) = [tok |-> [type |-> c, at |-> i], next |-> i + 1]
        BY <1>1, <1>3, <2>3, <3>1 DEF Lexed
      <3>3. t.type = c /\ t.at = i /\ next = i + 1
        BY <1>7, <3>2
      <3>4. c \in Terminals \ {ERROR}
        <4>1. PICK S : S = Terminals \ {ERROR}
          OBVIOUS
        <4>2. i \in 1..Len(input)
          BY <1>1, <1>4, <2>3
        <4>3. PICK order \in Seq(S) : order = CandidateOrder[input[i]]
          BY <4>1, <4>2, LexingAssumption DEF LexerOK
        <4>4. c \in ToSet(order)
          BY <2>3, <3>1, <4>2, <4>3, CandidatesAre
        <4> QED
          BY <4>1, <4>3, <4>4, HoldsAt
      <3>5. c # EOF
        BY <3>4, SymbolsAssumption
      <3> QED
        BY <3>3, <3>4, <3>5
    <2> QED
      BY <1>4, <2>1, <2>2, <2>3
  <1>9. StandsAt(t, next, dropped)
    BY <1>3, <1>6, <1>8 DEF StandsAt
  <1>10. ASSUME NEW s \in HeldTo(ignored, o - 1) PROVE s \in HeldTo(dropped, i - 1)
    BY <1>3, <1>5, <1>10, HeldGrows
  <1> QED
    BY <1>2, <1>5, <1>7, <1>8, <1>9, <1>10
-----------------------------------------------------------------------------
(* A stack whose frames hold, from the bottom up, one of certain sequences. *)
StackHolds(s, S) ==
  /\ \E X : s \in Seq(X)
  /\ \E g : Sums(g, Len(s), s) /\ g[0] = <<>> /\ g[Len(s)] \in S

LEMMA StackHoldsMore ==
  ASSUME NEW s, NEW S, NEW T, StackHolds(s, S), \A x \in S : x \in T
  PROVE  StackHolds(s, T)
  BY DEF StackHolds

LEMMA StackBegins ==
  ASSUME NEW f, f.span = <<>>, NEW s, s = <<f>>, NEW none, none = <<>>
  PROVE  StackHolds(s, {none})
  <1>1. PICK l \in Nat : l = 1
    OBVIOUS
  <1>2. s \in Seq({f}) /\ Len(s) = l /\ s[1] = f
    BY <1>1
  <1>3. none \in Seq(Nat) /\ none \o none = none
    <2>1. none \in Seq(Nat)
      OBVIOUS
    <2> QED
      BY <2>1, EmptyAdds
  <1>4. PICK g : g = [k \in 0..l |-> none]
    OBVIOUS
  <1>5. g \in [0..l -> Seq(Nat)] /\ g[0] = none /\ g[l] = none
    BY <1>3, <1>4
  <1>6. \A k \in 1..l : k = 1 /\ g[k] = none /\ g[k - 1] = none
    BY <1>1, <1>4
  <1>7. Sums(g, l, s)
    BY <1>2, <1>3, <1>5, <1>6 DEF Sums
  <1> QED
    BY <1>2, <1>5, <1>7 DEF StackHolds

LEMMA HeldPushes ==
  ASSUME NEW s, NEW S, StackHolds(s, S), NEW f, f.span \in Seq(Nat), NEW b, Pushed(b, s, f),
         NEW T, \A x \in S : x \o f.span \in T
  PROVE  StackHolds(b, T)
  <1>1. PICK X : s \in Seq(X)
    BY DEF StackHolds
  <1>2. PICK g : Sums(g, Len(s), s) /\ g[0] = <<>> /\ g[Len(s)] \in S
    BY DEF StackHolds
  <1>3. PICK n \in Nat : n = Len(s)
    BY <1>1
  <1>4. b \in Seq(X \cup {f}) /\ Len(b) = n + 1 /\ b[n + 1] = f /\ \A k \in 1..n : b[k] = s[k]
    <2>1. b \in Seq(X \cup {f}) /\ Len(b) = Len(s) + 1 /\ b[Len(s) + 1] = f /\ Extends(b, s)
      BY <1>1, PushExtends
    <2> QED
      BY <1>3, <2>1 DEF Extends
  <1>5. Sums(g, n, b)
    BY <1>2, <1>3, <1>4 DEF Sums
  <1>6. PICK m \in Nat \ {0} : m = n + 1 /\ m - 1 = n
    OBVIOUS
  <1>7. Sums(g, m - 1, b) /\ b[m].span \in Seq(Nat)
    BY <1>4, <1>5, <1>6
  <1>8. PICK h : Sums(h, m, b) /\ h[0] = g[0] /\ h[m] = g[m - 1] \o b[m].span
    BY <1>7, SumsGrow
  <1>9. h[m] \in T
    BY <1>2, <1>3, <1>4, <1>6, <1>8
  <1>10. Len(b) = m /\ h[0] = <<>>
    BY <1>2, <1>4, <1>6, <1>8
  <1> QED
    BY <1>4, <1>8, <1>9, <1>10 DEF StackHolds

Splices(b, s, f, n) ==
  /\ n < Len(s) /\ f.span = SpanOf(SubSeq(s, Len(s) - n + 1, Len(s)))
  /\ b = Append(SubSeq(s, 1, Len(s) - n), f)

LEMMA HeldReduces ==
  ASSUME NEW s, NEW S, StackHolds(s, S), NEW n \in Nat, NEW b, NEW f, Splices(b, s, f, n)
  PROVE  StackHolds(b, S)
  <1>1. PICK X : s \in Seq(X)
    BY DEF StackHolds
  <1>2. PICK l \in Nat : l = Len(s) /\ n < l
    BY <1>1 DEF Splices
  <1>3. PICK g : Sums(g, l, s) /\ g[0] = <<>> /\ g[l] \in S
    BY <1>2 DEF StackHolds
  <1>4. g \in [0..l -> Seq(Nat)] /\ \A k \in 1..l : s[k].span \in Seq(Nat) /\ g[k] = g[k - 1] \o s[k].span
    BY <1>3 DEF Sums
  <1>5. PICK m \in Nat \ {0} : m = l - n
    <2>1. l - n \in Nat \ {0}
      BY <1>2
    <2> QED
      BY <2>1
  <1>6. PICK kids : kids = SubSeq(s, l - n + 1, l)
    OBVIOUS
  <1>7. Len(kids) = n /\ \A k \in 1..n : kids[k] = s[m + k]
    <2>1. l - n + 1 \in Nat /\ l - n + 1 = m + 1
      BY <1>5
    <2> QED
      BY <1>1, <1>2, <1>5, <1>6, <2>1
  <1>8. PICK w : w = [k \in 0..n |-> g[m + k]]
    OBVIOUS
  <1>9. Sums(w, n, kids)
    <2>1. w \in [0..n -> Seq(Nat)]
      <3>1. \A k \in 0..n : m + k \in 0..l
        BY <1>2, <1>5
      <3> QED
        BY <1>4, <1>8, <3>1
    <2>2. ASSUME NEW k \in 1..n PROVE kids[k].span \in Seq(Nat) /\ w[k] = w[k - 1] \o kids[k].span
      <3>1. m + k \in 1..l /\ k \in 0..n /\ k - 1 \in 0..n /\ m + (k - 1) = (m + k) - 1
        BY <1>2, <1>5
      <3>2. w[k] = g[m + k] /\ w[k - 1] = g[(m + k) - 1]
        BY <1>8, <3>1
      <3>3. PICK j \in 1..l : j = m + k
        BY <3>1
      <3>4. s[j].span \in Seq(Nat) /\ g[j] = g[j - 1] \o s[j].span
        BY <1>4
      <3> QED
        BY <1>7, <3>2, <3>3, <3>4
    <2> QED
      BY <2>1, <2>2 DEF Sums
  <1>10. SpanOf(kids) \in Seq(Nat) /\ w[n] = w[0] \o SpanOf(kids)
    BY <1>7, <1>9, SpanAdds
  <1>11. w[n] = g[l] /\ w[0] = g[m]
    <2>1. n \in 0..n /\ 0 \in 0..n /\ m + n = l /\ m + 0 = m
      BY <1>2, <1>5
    <2> QED
      BY <1>8, <2>1
  <1>12. PICK below : below = SubSeq(s, 1, m)
    OBVIOUS
  <1>13. below \in Seq(X) /\ Len(below) = m /\ \A k \in 1..m : below[k] = s[k]
    BY <1>1, <1>2, <1>5, <1>12
  <1>14. StackHolds(below, {g[m]})
    <2>1. PICK h : h = [k \in 0..m |-> g[k]]
      OBVIOUS
    <2>2. \A k \in 0..m : k \in 0..l
      BY <1>2, <1>5
    <2>3. h \in [0..m -> Seq(Nat)]
      BY <1>4, <2>1, <2>2
    <2>4. ASSUME NEW k \in 1..m PROVE below[k].span \in Seq(Nat) /\ h[k] = h[k - 1] \o below[k].span
      <3>1. k \in 1..l /\ h[k] = g[k] /\ h[k - 1] = g[k - 1]
        BY <1>2, <1>5, <2>1
      <3> QED
        BY <1>4, <1>13, <3>1
    <2>5. Sums(h, m, below)
      BY <2>3, <2>4 DEF Sums
    <2>6. h[0] = <<>> /\ h[m] = g[m]
      <3>1. 0 \in 0..m /\ m \in 0..m
        OBVIOUS
      <3> QED
        BY <1>3, <2>1, <3>1
    <2> QED
      BY <1>13, <2>5, <2>6 DEF StackHolds
  <1>15. f.span = SpanOf(kids) /\ Pushed(b, below, f)
    BY <1>2, <1>5, <1>6, <1>12 DEF Pushed, Splices
  <1>16. \A x \in {g[m]} : x \o f.span \in S
    BY <1>3, <1>10, <1>11, <1>15
  <1>17. f.span \in Seq(Nat)
    BY <1>10, <1>15
  <1> QED
    BY <1>14, <1>15, <1>16, <1>17, HeldPushes

(* What a stack holds is what its frames' spans spell.                      *)
LEMMA StackSpells ==
  ASSUME NEW s, NEW S, StackHolds(s, S)
  PROVE  SpanOf(s) \in S
  <1>1. PICK X : s \in Seq(X)
    BY DEF StackHolds
  <1>2. PICK n \in Nat : n = Len(s)
    BY <1>1
  <1>3. PICK g : Sums(g, n, s) /\ g[0] = <<>> /\ g[n] \in S
    BY <1>2 DEF StackHolds
  <1>4. SpanOf(s) \in Seq(Nat) /\ g[n] = g[0] \o SpanOf(s)
    BY <1>2, <1>3, SpanAdds
  <1>5. g[0] \o SpanOf(s) = SpanOf(s)
    BY <1>3, <1>4, EmptyAdds
  <1> QED
    BY <1>3, <1>4, <1>5
-----------------------------------------------------------------------------
(* What lies under a frame: what lies under its parent, and its own span.   *)
Under(u, i) == IF i = 0 THEN <<>> ELSE u[i]
SpanOn(u, f, v, n) == f.parent \in 0..n /\ f.span \in Seq(Nat) /\ v = Under(u, f.parent) \o f.span

SpansOK(fs, u) ==
  /\ (\E S : fs \in Seq(S)) /\ u \in Seq(Seq(Nat)) /\ Len(u) = Len(fs)
  /\ \A id \in 1..Len(fs) : IsRec(fs[id], FrameFields) /\ SpanOn(u, fs[id], u[id], id - 1)

(* No two of the frames listed are one (state, parent).                     *)
KeysApart(fs, q) == \A j, k \in 1..Len(q) : j # k => ~SameKey(fs[q[j]], fs[q[k]])

(* Under the frames to be looked at lies one of certain sequences, under    *)
(* those that have shifted the token another.                               *)
Spanned(fk, u, S, T) ==
  /\ IsRec(fk, ForkFields)
  /\ SpansOK(fk.frames, u)
  /\ AllAt(fk.active, Len(fk.frames), u, S)
  /\ AllAt(fk.worklist, Len(fk.frames), u, S)
  /\ AllAt(fk.shifted, Len(fk.frames), u, T)
  /\ KeysApart(fk.frames, fk.active)

LEMMA SpansShape ==
  ASSUME NEW fs, NEW u, SpansOK(fs, u)
  PROVE  /\ Len(fs) \in Nat /\ Len(u) = Len(fs) /\ \A id \in 1..Len(fs) : u[id] \in Seq(Nat)
  <1>1. PICK n \in Nat : n = Len(fs)
    BY DEF SpansOK
  <1>2. u \in Seq(Seq(Nat)) /\ Len(u) = n
    BY <1>1 DEF SpansOK
  <1>3. \A id \in 1..n : u[id] \in Seq(Nat)
    BY <1>2
  <1> QED
    BY <1>1, <1>2, <1>3

LEMMA UnderIs ==
  ASSUME NEW fs, NEW u, SpansOK(fs, u), NEW i \in 0..Len(fs)
  PROVE  Under(u, i) \in Seq(Nat)
  <1>1. i = 0 \/ i \in 1..Len(fs)
    BY SpansShape
  <1>2. CASE i = 0
    <2>1. PICK none : none = <<>>
      OBVIOUS
    <2>2. none \in Seq(Nat)
      BY <2>1
    <2> QED
      BY <1>2, <2>1, <2>2 DEF Under
  <1>3. CASE i \in 1..Len(fs)
    <2>1. i # 0 /\ u[i] \in Seq(Nat)
      BY <1>3, SpansShape
    <2> QED
      BY <2>1 DEF Under
  <1> QED
    BY <1>1, <1>2, <1>3

LEMMA SpanOnStill ==
  ASSUME NEW u, NEW f, NEW v, NEW n \in Nat, NEW m \in Nat, n <= m, n <= Len(u), SpanOn(u, f, v, n),
         NEW w, Extends(w, u)
  PROVE  SpanOn(w, f, v, m)
  <1>1. f.parent \in 0..n /\ f.parent \in 0..m
    BY DEF SpanOn
  <1>2. Under(w, f.parent) = Under(u, f.parent)
    BY <1>1 DEF Under, Extends
  <1> QED
    BY <1>1, <1>2 DEF SpanOn

LEMMA SpansGrow ==
  ASSUME NEW fs, NEW u, SpansOK(fs, u), NEW f, IsRec(f, FrameFields), NEW v \in Seq(Nat),
         SpanOn(u, f, v, Len(fs)), NEW gs, Pushed(gs, fs, f), NEW w, Pushed(w, u, v)
  PROVE  /\ SpansOK(gs, w) /\ Extends(gs, fs) /\ Extends(w, u)
         /\ Len(gs) = Len(fs) + 1 /\ w[Len(gs)] = v /\ gs[Len(gs)] = f
  <1>1. PICK S : fs \in Seq(S)
    BY DEF SpansOK
  <1>2. PICK n \in Nat : n = Len(fs)
    BY SpansShape
  <1>3. Len(u) = n
    BY <1>2, SpansShape
  <1>4. gs \in Seq(S \cup {f}) /\ Len(gs) = n + 1 /\ gs[n + 1] = f /\ Extends(gs, fs)
    BY <1>1, <1>2, PushExtends
  <1>5. PICK Q : Q = Seq(Nat)
    OBVIOUS
  <1>6. u \in Seq(Q) /\ Q \cup {v} = Q
    BY <1>5 DEF SpansOK
  <1>7. w \in Seq(Q \cup {v}) /\ Len(w) = n + 1 /\ w[n + 1] = v /\ Extends(w, u)
    BY <1>3, <1>6, PushExtends
  <1>8. Extends(gs, fs) /\ Extends(w, u)
    BY <1>4, <1>7
  <1>9. ASSUME NEW id \in 1..(n + 1)
        PROVE  IsRec(gs[id], FrameFields) /\ SpanOn(w, gs[id], w[id], id - 1)
    <2>1. CASE id = n + 1
      <3>1. gs[id] = f /\ w[id] = v /\ id - 1 = n
        BY <1>4, <1>7, <2>1
      <3>2. SpanOn(w, f, v, n)
        BY <1>2, <1>3, <1>8, SpanOnStill
      <3> QED
        BY <3>1, <3>2
    <2>2. CASE id \in 1..n
      <3>1. gs[id] = fs[id] /\ w[id] = u[id] /\ id - 1 \in Nat /\ id - 1 <= n
        BY <1>2, <1>3, <1>8, <2>2 DEF Extends
      <3>2. IsRec(fs[id], FrameFields) /\ SpanOn(u, fs[id], u[id], id - 1)
        BY <1>2, <2>2 DEF SpansOK
      <3>3. PICK g, x : g = fs[id] /\ x = u[id]
        OBVIOUS
      <3>4. SpanOn(w, g, x, id - 1)
        BY <1>3, <1>8, <3>1, <3>2, <3>3, SpanOnStill
      <3> QED
        BY <3>1, <3>2, <3>3, <3>4
    <2> QED
      BY <2>1, <2>2
  <1>10. w \in Seq(Seq(Nat)) /\ Len(w) = n + 1 /\ Len(gs) = n + 1
    BY <1>4, <1>5, <1>6, <1>7
  <1>11. SpansOK(gs, w)
    BY <1>4, <1>9, <1>10 DEF SpansOK
  <1> QED
    BY <1>2, <1>4, <1>7, <1>8, <1>10, <1>11

LEMMA KeysStay ==
  ASSUME NEW fs, NEW n \in Nat, Len(fs) = n, NEW q \in Seq(1..n), KeysApart(fs, q), NEW gs, Extends(gs, fs)
  PROVE  KeysApart(gs, q)
  <1>1. PICK l \in Nat : l = Len(q)
    OBVIOUS
  <1>2. \A k \in 1..l : q[k] \in 1..n
    BY <1>1
  <1>3. \A k \in 1..l : gs[q[k]] = fs[q[k]]
    BY <1>2 DEF Extends
  <1> QED
    BY <1>1, <1>3 DEF KeysApart

LEMMA KeysGrow ==
  ASSUME NEW fs, NEW S, NEW q \in Seq(S), KeysApart(fs, q), NEW id,
         \A k \in 1..Len(q) : ~SameKey(fs[q[k]], fs[id]), NEW p, Pushed(p, q, id)
  PROVE  KeysApart(fs, p)
  <1>1. PICK l \in Nat : l = Len(q)
    OBVIOUS
  <1>2. Len(p) = l + 1 /\ p[l + 1] = id /\ \A k \in 1..l : p[k] = q[k]
    <2>1. Len(p) = Len(q) + 1 /\ p[Len(q) + 1] = id /\ Extends(p, q)
      BY PushExtends
    <2> QED
      BY <1>1, <2>1 DEF Extends
  <1>3. ASSUME NEW j \in 1..(l + 1), NEW k \in 1..(l + 1), j # k PROVE ~SameKey(fs[p[j]], fs[p[k]])
    <2>1. CASE j \in 1..l /\ k \in 1..l
      BY <1>1, <1>2, <1>3, <2>1 DEF KeysApart
    <2>2. CASE j = l + 1
      <3>1. k \in 1..l
        BY <1>3, <2>2
      <3>2. ~SameKey(fs[q[k]], fs[id])
        BY <1>1, <3>1
      <3> QED
        BY <1>2, <2>2, <3>1, <3>2 DEF SameKey
    <2>3. CASE k = l + 1
      <3>1. j \in 1..l
        BY <1>3, <2>3
      <3> QED
        BY <1>1, <1>2, <2>3, <3>1
    <2> QED
      BY <2>1, <2>2, <2>3
  <1> QED
    BY <1>2, <1>3 DEF KeysApart

LEMMA KeysReplace ==
  ASSUME NEW fs, NEW n \in Nat, NEW q \in Seq(1..n), KeysApart(fs, q), NEW k \in 1..Len(q), NEW id \in 1..n,
         SameKey(fs[q[k]], fs[id])
  PROVE  KeysApart(fs, [q EXCEPT ![k] = id])
  <1>1. PICK l \in Nat : l = Len(q)
    OBVIOUS
  <1>2. PICK p : p = [q EXCEPT ![k] = id]
    OBVIOUS
  <1>3. Len(p) = l /\ \A i \in 1..l : p[i] = IF i = k THEN id ELSE q[i]
    BY <1>1, <1>2
  <1>4. PICK same : same = [i \in 1..l |-> fs[q[i]]]
    OBVIOUS
  <1>5. ASSUME NEW i \in 1..l PROVE fs[p[i]].state = fs[q[i]].state /\ fs[p[i]].parent = fs[q[i]].parent
    <2>1. CASE i = k
      BY <1>3, <2>1 DEF SameKey
    <2>2. CASE i # k
      BY <1>3, <2>2
    <2> QED
      BY <2>1, <2>2
  <1>6. ASSUME NEW i \in 1..l, NEW j \in 1..l, i # j PROVE ~SameKey(fs[p[i]], fs[p[j]])
    <2>1. ~SameKey(fs[q[i]], fs[q[j]])
      BY <1>1, <1>6 DEF KeysApart
    <2> QED
      BY <1>5, <2>1 DEF SameKey
  <1>7. KeysApart(fs, p)
    BY <1>3, <1>6 DEF KeysApart
  <1> QED
    BY <1>2, <1>7

LEMMA OneMoreSpan ==
  ASSUME NEW fk, NEW u, NEW S, NEW T, Spanned(fk, u, S, T),
         NEW f, IsRec(f, FrameFields), NEW v \in Seq(Nat), SpanOn(u, f, v, Len(fk.frames)),
         NEW gs, Pushed(gs, fk.frames, f), NEW w, Pushed(w, u, v)
  PROVE  /\ SpansOK(gs, w) /\ Extends(gs, fk.frames) /\ Extends(w, u)
         /\ Len(gs) = Len(fk.frames) + 1 /\ w[Len(gs)] = v /\ gs[Len(gs)] = f /\ Len(gs) \in Nat \ {0}
         /\ AllAt(fk.active, Len(gs), w, S) /\ AllAt(fk.worklist, Len(gs), w, S)
         /\ AllAt(fk.shifted, Len(gs), w, T) /\ KeysApart(gs, fk.active)
  <1>1. PICK fs : fs = fk.frames /\ SpansOK(fs, u)
    BY DEF Spanned
  <1>2. /\ SpansOK(gs, w) /\ Extends(gs, fs) /\ Extends(w, u)
        /\ Len(gs) = Len(fs) + 1 /\ w[Len(gs)] = v /\ gs[Len(gs)] = f
    BY <1>1, SpansGrow
  <1>3. PICK n \in Nat : n = Len(fs) /\ Len(gs) = n + 1
    BY <1>1, <1>2, SpansShape
  <1>4. Len(u) = n
    BY <1>1, <1>3, SpansShape
  <1>5. \A q, X : AllAt(q, n, u, X) => AllAt(q, n + 1, w, X)
    BY <1>2, <1>3, <1>4, ListStays
  <1>6. KeysApart(gs, fk.active)
    <2>1. PICK q : q = fk.active /\ q \in Seq(1..n) /\ KeysApart(fs, q)
      BY <1>1, <1>3 DEF Spanned, AllAt
    <2> QED
      BY <1>2, <1>3, <2>1, KeysStay
  <1> QED
    BY <1>1, <1>2, <1>3, <1>5, <1>6 DEF Spanned

LEMMA MergeKeepsSpan ==
  ASSUME NEW f, IsRec(f, FrameFields), NEW g, NEW r
  PROVE  MergeInto(f, g, r).span = f.span
  BY DEF IsRec, FrameFields, MergeInto

(* A frame registered or merged: what lies under it is as good.             *)
LEMMA ActivatedSpan ==
  ASSUME NEW fk, NEW u, NEW S, NEW T, Spanned(fk, u, S, T),
         NEW f, IsRec(f, FrameFields), NEW v \in Seq(Nat), v \in S, SpanOn(u, f, v, Len(fk.frames)),
         NEW r, NEW gk, gk = Activate(fk, f, r)
  PROVE  \E w : /\ Spanned(gk, w, S, T) /\ Extends(w, u)
                /\ Len(gk.frames) = Len(fk.frames) + 1 /\ w[Len(gk.frames)] \in S
                /\ gk.worklist = fk.worklist /\ gk.shifted = fk.shifted
  <1>1. PICK id \in Nat : id = Len(fk.frames) + 1
    BY SpansShape DEF Spanned
  <1> DEFINE there == {k \in 1..Len(fk.active) : SameKey(fk.frames[fk.active[k]], f)}
  <1>2. CASE there = {}
    <2>1. gk = [fk EXCEPT !.frames = Append(@, f), !.active = Append(@, id)]
      BY <1>1, <1>2 DEF Activate
    <2>2. /\ IsRec(gk, ForkFields) /\ gk.frames = Append(fk.frames, f) /\ gk.active = Append(fk.active, id)
          /\ gk.worklist = fk.worklist /\ gk.shifted = fk.shifted
      BY <2>1 DEF Spanned, IsRec, ForkFields
    <2>3. Pushed(gk.frames, fk.frames, f) /\ Pushed(gk.active, fk.active, id)
      BY <2>2 DEF Pushed
    <2>4. PICK gs, p, q : gs = gk.frames /\ p = gk.active /\ q = fk.active
      OBVIOUS
    <2>5. PICK w : Pushed(w, u, v)
      BY DEF Pushed
    <2>6. /\ SpansOK(gs, w) /\ Extends(gs, fk.frames) /\ Extends(w, u)
          /\ Len(gs) = Len(fk.frames) + 1 /\ w[Len(gs)] = v /\ gs[Len(gs)] = f /\ Len(gs) \in Nat \ {0}
          /\ AllAt(fk.active, Len(gs), w, S) /\ AllAt(fk.worklist, Len(gs), w, S)
          /\ AllAt(fk.shifted, Len(gs), w, T) /\ KeysApart(gs, fk.active)
      BY <2>3, <2>4, <2>5, OneMoreSpan
    <2>7. Pushed(p, q, id) /\ AllAt(q, id, w, S) /\ w[id] \in S /\ id \in 1..id /\ id \in Nat
          /\ KeysApart(gs, q) /\ gs[id] = f
      BY <1>1, <2>3, <2>4, <2>6
    <2>8. AllAt(p, id, w, S)
      BY <2>7, ListGrows
    <2>9. KeysApart(gs, p)
      <3>1. q \in Seq(1..id)
        BY <2>7 DEF AllAt
      <3>2. \A k \in 1..Len(q) : ~SameKey(gs[q[k]], gs[id])
        <4> SUFFICES ASSUME NEW k \in 1..Len(q) PROVE ~SameKey(gs[q[k]], gs[id])
          OBVIOUS
        <4>1. ~SameKey(fk.frames[q[k]], f)
          BY <1>2, <2>4
        <4>2. PICK n \in Nat : n = Len(fk.frames) /\ q \in Seq(1..n)
          BY <2>4, SpansShape DEF Spanned, AllAt
        <4>3. q[k] \in 1..n
          BY <4>2
        <4>4. gs[q[k]] = fk.frames[q[k]]
          BY <2>6, <4>2, <4>3 DEF Extends
        <4> QED
          BY <2>7, <4>1, <4>4
      <3> QED
        BY <2>7, <3>1, <3>2, KeysGrow
    <2>10. Len(gs) = id /\ gk.frames = gs /\ gk.active = p
      BY <1>1, <2>4, <2>6
    <2>11. Spanned(gk, w, S, T)
      BY <2>2, <2>6, <2>8, <2>9, <2>10 DEF Spanned
    <2> QED
      BY <1>1, <2>2, <2>6, <2>7, <2>10, <2>11
  <1>3. CASE there # {}
    <2>1. PICK k \in there : gk = [fk EXCEPT !.frames = Append(@, MergeInto(@[fk.active[k]], f, r)),
                                             !.active[k] = id]
      <3>1. PICK k \in there : k = CHOOSE m \in there : TRUE
        BY <1>3
      <3>2. gk = [fk EXCEPT !.frames = Append(@, MergeInto(@[fk.active[k]], f, r)),
                            !.active[k] = id]
        BY <1>1, <1>3, <3>1 DEF Activate
      <3> QED
        BY <3>2
    <2>2. PICK g : g = MergeInto(fk.frames[fk.active[k]], f, r)
      OBVIOUS
    <2>3. /\ IsRec(gk, ForkFields) /\ gk.frames = Append(fk.frames, g) /\ gk.active = [fk.active EXCEPT ![k] = id]
          /\ gk.worklist = fk.worklist /\ gk.shifted = fk.shifted
      BY <2>1, <2>2 DEF Spanned, IsRec, ForkFields
    <2>4. PICK q, n : q = fk.active /\ n = Len(fk.frames) /\ n \in Nat /\ q \in Seq(1..n) /\ k \in 1..Len(q)
                      /\ \A j \in 1..Len(q) : u[q[j]] \in S
      BY SpansShape DEF Spanned, AllAt
    <2>5. PICK a \in 1..n : a = q[k] /\ u[a] \in S
      BY <2>4
    <2>6. PICK h, x : /\ h = fk.frames[a] /\ x = u[a] /\ x \in S /\ x \in Seq(Nat)
                      /\ IsRec(h, FrameFields) /\ SpanOn(u, h, x, a - 1) /\ SameKey(h, f)
      <3>1. SpansOK(fk.frames, u)
        BY DEF Spanned
      <3>2. IsRec(fk.frames[a], FrameFields) /\ SpanOn(u, fk.frames[a], u[a], a - 1)
        BY <2>4, <3>1 DEF SpansOK
      <3>3. u[a] \in Seq(Nat)
        BY <2>4, <3>1, SpansShape
      <3>4. SameKey(fk.frames[a], f)
        BY <2>4, <2>5
      <3> QED
        BY <2>5, <3>2, <3>3, <3>4
    <2>7. g = MergeInto(h, f, r)
      BY <2>2, <2>4, <2>5, <2>6
    <2>8. IsRec(g, FrameFields) /\ g.state = h.state /\ g.parent = h.parent /\ g.span = h.span
      BY <2>6, <2>7, MergeKeeps, MergeKeepsSpan
    <2>9. SpanOn(u, g, x, Len(fk.frames))
      <3>1. h.parent \in 0..(a - 1) /\ h.span \in Seq(Nat) /\ x = Under(u, h.parent) \o h.span
        BY <2>6 DEF SpanOn
      <3>2. h.parent \in 0..n
        BY <2>4, <3>1
      <3> QED
        BY <2>4, <2>8, <3>1, <3>2 DEF SpanOn
    <2>10. PICK gs, p : gs = gk.frames /\ p = gk.active /\ Pushed(gs, fk.frames, g)
      BY <2>3 DEF Pushed
    <2>11. PICK w : Pushed(w, u, x)
      BY DEF Pushed
    <2>12. /\ SpansOK(gs, w) /\ Extends(gs, fk.frames) /\ Extends(w, u)
           /\ Len(gs) = Len(fk.frames) + 1 /\ w[Len(gs)] = x /\ gs[Len(gs)] = g /\ Len(gs) \in Nat \ {0}
           /\ AllAt(fk.active, Len(gs), w, S) /\ AllAt(fk.worklist, Len(gs), w, S)
           /\ AllAt(fk.shifted, Len(gs), w, T) /\ KeysApart(gs, fk.active)
      <3>1. IsRec(g, FrameFields) /\ x \in Seq(Nat)
        BY <2>6, <2>8
      <3>2. Pushed(gs, fk.frames, g)
        BY <2>10
      <3> QED
        BY <2>9, <2>11, <3>1, <3>2, OneMoreSpan
    <2>13. /\ AllAt(q, id, w, S) /\ w[id] \in S /\ id \in 1..id /\ id \in Nat
           /\ KeysApart(gs, q) /\ gs[id] = g /\ p = [q EXCEPT ![k] = id]
      BY <1>1, <2>3, <2>4, <2>6, <2>10, <2>12
    <2>14. AllAt(p, id, w, S)
      BY <2>4, <2>13, ListReplaces
    <2>15. KeysApart(gs, p)
      <3>1. gs[q[k]] = h
        BY <2>4, <2>5, <2>6, <2>12 DEF Extends
      <3>2. SameKey(gs[q[k]], gs[id])
        BY <2>8, <2>13, <3>1 DEF SameKey
      <3>3. q \in Seq(1..id) /\ k \in 1..Len(q)
        BY <2>4, <2>13 DEF AllAt
      <3> QED
        BY <2>13, <3>2, <3>3, KeysReplace
    <2>16. Len(gs) = id /\ gk.frames = gs /\ gk.active = p
      BY <1>1, <2>10, <2>12
    <2>17. Spanned(gk, w, S, T)
      BY <2>3, <2>12, <2>14, <2>15, <2>16 DEF Spanned
    <2> QED
      BY <1>1, <2>3, <2>12, <2>13, <2>16, <2>17
  <1> QED
    BY <1>2, <1>3

LEMMA RegisteredSpan ==
  ASSUME NEW fk, NEW u, NEW S, NEW T, Spanned(fk, u, S, T),
         NEW f, IsRec(f, FrameFields), NEW v \in Seq(Nat), v \in S, SpanOn(u, f, v, Len(fk.frames)),
         NEW r, NEW gk, gk = Register(fk, f, r)
  PROVE  \E w : Spanned(gk, w, S, T) /\ Extends(w, u)
  <1>1. PICK hk : hk = Activate(fk, f, r)
    OBVIOUS
  <1>2. PICK w : /\ Spanned(hk, w, S, T) /\ Extends(w, u)
                 /\ Len(hk.frames) = Len(fk.frames) + 1 /\ w[Len(hk.frames)] \in S
    BY <1>1, ActivatedSpan
  <1>3. PICK id \in Nat \ {0} : id = Len(hk.frames)
    <2>1. Len(fk.frames) \in Nat
      BY SpansShape DEF Spanned
    <2> QED
      BY <1>2, <2>1
  <1>0. PICK l : l = (hk.late \/ MergesLate(fk, f))
    OBVIOUS
  <1>4. gk = [hk EXCEPT !.worklist = Append(@, id), !.late = l]
    BY <1>0, <1>1, <1>3 DEF Register
  <1>5. /\ IsRec(gk, ForkFields) /\ gk.frames = hk.frames /\ gk.active = hk.active
        /\ gk.worklist = Append(hk.worklist, id) /\ gk.shifted = hk.shifted
    BY <1>2, <1>4 DEF Spanned, IsRec, ForkFields
  <1>6. PICK p, q : p = gk.worklist /\ q = hk.worklist /\ Pushed(p, q, id)
    BY <1>5 DEF Pushed
  <1>7. AllAt(q, id, w, S) /\ w[id] \in S /\ id \in 1..id
    BY <1>2, <1>3, <1>6 DEF Spanned
  <1>8. AllAt(p, id, w, S)
    BY <1>6, <1>7, ListGrows
  <1>9. Spanned(gk, w, S, T)
    BY <1>2, <1>3, <1>5, <1>6, <1>8 DEF Spanned
  <1> QED
    BY <1>2, <1>9
(* A reduce in the fork: the frames it goes down, all of them there, and    *)
(* the frame it comes to.                                                   *)
Reduction(gk, fk, path, n, up, f, hk, r, ctx) ==
  /\ up[0] = path /\ \A k \in 0..n : up[k] \in 1..Len(fk.frames)
  /\ \A k \in 1..n : up[k] = fk.frames[up[k - 1]].parent
  /\ hk = [fk EXCEPT !.contexts[ctx] = Append(@, r)]
  /\ IsRec(f, FrameFields) /\ f.parent = up[n] /\ f.ctx = ctx
  /\ f.span = SpanOf([k \in 1..n |-> fk.frames[up[n - k]]])
  /\ f.ran = Append(fk.frames[path].ran, r)
  /\ gk = Register(hk, f, r)

LEMMA ReduceGoesDown ==
  ASSUME Built, phase = "ready", NEW K, NEW P, Closed(K, P),
         NEW fk, NEW at, NEW L, NEW M, NEW path, NEW t, NEW e, OnPath(fk, K, at, L, M, path, t, e),
         e.kind = "reduce", NEW ctx, NEW gk, gk = ForkReduce(fk, path, e.rule, ctx)
  PROVE  \E n \in Nat : \E up, f, hk : Reduction(gk, fk, path, n, up, f, hk, e.rule, ctx)
  <1>0. /\ Forked(fk, K, at, L, M) /\ path \in 1..Len(fk.frames) /\ at[path] \in L
        /\ t \in TermsEOF /\ e \in KeptOf(action[fk.frames[path].state][t])
    BY DEF OnPath
  <1>1. PICK fs : fs = fk.frames /\ FramesOK(fs, K, at)
    BY <1>0 DEF Forked
  <1>2. PICK m \in Nat : m = Len(fs) /\ path \in 1..m
    BY <1>0, <1>1, FramesShape
  <1>3. PICK D, st, par : /\ D = 1..m
                          /\ st = [id \in 1..m |-> fs[id].state] /\ par = [id \in 1..m |-> fs[id].parent]
    OBVIOUS
  <1>4. Hanging(K, D, st, par, at) /\ path \in D
    BY <1>1, <1>2, <1>3, FramesHang
  <1>5. st[path] = fs[path].state /\ e \in KeptOf(action[st[path]][t])
    BY <1>0, <1>1, <1>2, <1>3
  <1>6. PICK n \in Nat : n = Len(gram[e.rule].rhs)
    <2>1. PICK p \in 1..Len(states) : p = st[path]
      BY <1>4, HangingShape
    <2>2. e.rule \in 1..Len(gram)
      BY <1>0, <1>5, <2>1, ReduceIsComplete
    <2> QED
      BY <2>2, GrammarShape DEF Built, LR0Inv, LR0TypeOK
  <1>7. PICK up : /\ up[0] = path /\ \A k \in 1..n : up[k] = fs[up[k - 1]].parent
                  /\ \A k \in 0..n : Below(fk, path, k) = up[k]
    <2>1. PICK up : GoesDown(fk, path, n, up)
      BY BelowIs
    <2> QED
      BY <1>1, <2>1 DEF GoesDown
  <1>8. Down(up, par, D, path, n)
    BY <1>3, <1>7 DEF Down
  <1>9. /\ \A k \in 0..n : up[k] \in D
        /\ goto[st[up[n]]][gram[e.rule].lhs] # 0
    BY <1>0, <1>4, <1>5, <1>6, <1>8, ReduceReads
  <1>10. PICK b \in 1..m : b = up[n] /\ b = Below(fk, path, n) /\ st[b] = fs[b].state
    <2>1. n \in 0..n
      OBVIOUS
    <2> QED
      BY <1>3, <1>7, <1>9, <2>1
  <1>11. PICK to : to = goto[fs[b].state][gram[e.rule].lhs] /\ to # 0
    BY <1>9, <1>10
  <1>12. PICK kids : kids = Popped(fk, path, n)
    OBVIOUS
  <1>16. kids = [k \in 1..n |-> fs[up[n - k]]]
    <2>1. kids = [k \in 1..n |-> fs[Below(fk, path, n - k)]]
      BY <1>1, <1>12 DEF Popped
    <2>2. \A k \in 1..n : Below(fk, path, n - k) = up[n - k]
      <3>1. \A k \in 1..n : n - k \in 0..n
        OBVIOUS
      <3> QED
        BY <1>7, <3>1
    <2> QED
      BY <2>1, <2>2
  <1>13. PICK hk : hk = [fk EXCEPT !.contexts[ctx] = Append(@, e.rule)]
    OBVIOUS
  <1>14. PICK f : f = [parent |-> b, state |-> to, value |-> RuleValue(e.rule, kids), ctx |-> ctx,
                       span |-> SpanOf(kids), ran |-> Append(fk.frames[path].ran, e.rule)]
    OBVIOUS
  <1>15. gk = Register(hk, f, e.rule)
    BY <1>1, <1>6, <1>10, <1>11, <1>12, <1>13, <1>14 DEF ForkReduce
  <1>18. /\ IsRec(f, FrameFields) /\ f.parent = b /\ f.ctx = ctx /\ f.span = SpanOf(kids)
         /\ f.ran = Append(fk.frames[path].ran, e.rule)
    BY <1>14 DEF IsRec, FrameFields
  <1>19. /\ \A k \in 0..n : up[k] \in 1..Len(fk.frames)
         /\ \A k \in 1..n : up[k] = fk.frames[up[k - 1]].parent
         /\ f.span = SpanOf([k \in 1..n |-> fk.frames[up[n - k]]])
    BY <1>1, <1>2, <1>3, <1>7, <1>9, <1>16, <1>18
  <1>20. Reduction(gk, fk, path, n, up, f, hk, e.rule, ctx)
    BY <1>7, <1>10, <1>13, <1>15, <1>18, <1>19 DEF Reduction
  <1> QED
    BY <1>20

(* What lies under a frame is what lies under one further down, and the     *)
(* spans of the frames between.                                             *)
Descends(fs, up, n, kids) ==
  /\ \A k \in 0..n : up[k] \in 1..Len(fs)
  /\ \A k \in 1..n : up[k] = fs[up[k - 1]].parent
  /\ kids = [k \in 1..n |-> fs[up[n - k]]]

LEMMA SpanGoesDown ==
  ASSUME NEW fs, NEW u, SpansOK(fs, u), NEW n \in Nat, NEW up, NEW kids, Descends(fs, up, n, kids)
  PROVE  SpanOf(kids) \in Seq(Nat) /\ u[up[0]] = u[up[n]] \o SpanOf(kids)
  <1>0. /\ \A k \in 0..n : up[k] \in 1..Len(fs)
        /\ \A k \in 1..n : up[k] = fs[up[k - 1]].parent
    BY DEF Descends
  <1>1. kids = [k \in 1..n |-> fs[up[n - k]]]
    BY DEF Descends
  <1>2. Len(kids) = n
    <2>1. PICK X : X = {kids[k] : k \in 1..n}
      OBVIOUS
    <2>2. kids \in [1..n -> X]
      BY <1>1, <2>1
    <2> QED
      BY <2>2
  <1>3. PICK w : w = [k \in 0..n |-> u[up[n - k]]]
    OBVIOUS
  <1>4. \A k \in 0..n : n - k \in 0..n
    OBVIOUS
  <1>5. \A id \in 1..Len(fs) : u[id] \in Seq(Nat)
    BY SpansShape
  <1>6. w \in [0..n -> Seq(Nat)]
    BY <1>0, <1>3, <1>4, <1>5
  <1>7. ASSUME NEW k \in 1..n
        PROVE  kids[k].span \in Seq(Nat) /\ w[k] = w[k - 1] \o kids[k].span
    <2>1. n - k \in 0..n /\ n - k + 1 \in 1..n /\ n - k + 1 \in 0..n /\ (n - k + 1) - 1 = n - k /\ n - (k - 1) = n - k + 1
          /\ k - 1 \in 0..n /\ k \in 0..n
      OBVIOUS
    <2>2. PICK id \in 1..Len(fs) : id = up[n - k]
      BY <1>0, <2>1
    <2>3. PICK b \in 1..Len(fs) : b = up[n - k + 1]
      BY <1>0, <2>1
    <2>4. b = fs[id].parent
      BY <1>0, <2>1, <2>2, <2>3
    <2>5. SpanOn(u, fs[id], u[id], id - 1)
      BY DEF SpansOK
    <2>6. fs[id].span \in Seq(Nat) /\ u[id] = Under(u, b) \o fs[id].span
      BY <2>4, <2>5 DEF SpanOn
    <2>7. b # 0
      BY SpansShape
    <2>8. u[id] = u[b] \o fs[id].span
      BY <2>6, <2>7 DEF Under
    <2>9. kids[k] = fs[id] /\ w[k] = u[id]
      BY <1>1, <1>3, <2>1, <2>2
    <2>10. w[k - 1] = u[b]
      BY <1>3, <2>1, <2>3
    <2> QED
      BY <2>6, <2>8, <2>9, <2>10
  <1>8. Sums(w, n, kids)
    BY <1>6, <1>7 DEF Sums
  <1>9. SpanOf(kids) \in Seq(Nat) /\ w[n] = w[0] \o SpanOf(kids)
    BY <1>2, <1>8, SpanAdds
  <1>10. w[n] = u[up[0]] /\ w[0] = u[up[n]]
    <2>1. 0 \in 0..n /\ n \in 0..n /\ n - n = 0 /\ n - 0 = n
      OBVIOUS
    <2> QED
      BY <1>3, <2>1
  <1> QED
    BY <1>9, <1>10

(* What runs on a path leaves what lies under the frames as it is.          *)
SpansOn(gk, fk, w, u, S, T) == Spanned(gk, w, S, T) /\ Extends(w, u)

LEMMA ReducedSpan ==
  ASSUME Built, phase = "ready", NEW K, NEW P, Closed(K, P),
         NEW fk, NEW at, NEW L, NEW M, NEW path, NEW t, NEW e, OnPath(fk, K, at, L, M, path, t, e),
         e.kind = "reduce", NEW u, NEW S, NEW T, Spanned(fk, u, S, T), u[path] \in S,
         NEW ctx, NEW gk, gk = ForkReduce(fk, path, e.rule, ctx)
  PROVE  \E w : SpansOn(gk, fk, w, u, S, T)
  <1>1. PICK r : r = e.rule
    OBVIOUS
  <1>2. PICK n \in Nat : \E up, f, hk : Reduction(gk, fk, path, n, up, f, hk, r, ctx)
    BY <1>1, ReduceGoesDown
  <1>3. PICK up, f, hk : Reduction(gk, fk, path, n, up, f, hk, r, ctx)
    BY <1>2
  <1>4. PICK fs : fs = fk.frames /\ SpansOK(fs, u)
    BY DEF Spanned
  <1>5. PICK span : span = SpanOf([k \in 1..n |-> fs[up[n - k]]])
    OBVIOUS
  <1>6. span \in Seq(Nat) /\ u[up[0]] = u[up[n]] \o span
    <2>1. PICK kids : kids = [k \in 1..n |-> fs[up[n - k]]]
      OBVIOUS
    <2>2. Descends(fs, up, n, kids)
      BY <1>3, <1>4, <2>1 DEF Reduction, Descends
    <2>3. SpanOf(kids) \in Seq(Nat) /\ u[up[0]] = u[up[n]] \o SpanOf(kids)
      BY <1>4, <2>2, SpanGoesDown
    <2> QED
      BY <1>5, <2>1, <2>3
  <1>7. PICK b \in 1..Len(fs) : b = up[n] /\ path \in 1..Len(fs)
    <2>1. n \in 0..n /\ 0 \in 0..n
      OBVIOUS
    <2> QED
      BY <1>3, <1>4, <2>1 DEF Reduction
  <1>8. IsRec(f, FrameFields) /\ f.parent = b /\ f.span = span /\ u[path] = u[b] \o span
    BY <1>3, <1>4, <1>5, <1>6, <1>7 DEF Reduction
  <1>9. /\ IsRec(hk, ForkFields) /\ hk.frames = fk.frames /\ hk.active = fk.active
        /\ hk.worklist = fk.worklist /\ hk.shifted = fk.shifted
    BY <1>3 DEF Reduction, Spanned, IsRec, ForkFields
  <1>10. Spanned(hk, u, S, T)
    BY <1>9 DEF Spanned
  <1>11. PICK v \in Seq(Nat) : v = u[path] /\ v \in S
    BY <1>4, <1>7, SpansShape
  <1>12. SpanOn(u, f, v, Len(hk.frames))
    <2>1. b # 0 /\ b \in 0..Len(fs)
      BY <1>4, SpansShape
    <2> QED
      BY <1>4, <1>6, <1>8, <1>9, <1>11, <2>1 DEF SpanOn, Under
  <1>13. gk = Register(hk, f, r)
    BY <1>3 DEF Reduction
  <1>14. \E w : Spanned(gk, w, S, T) /\ Extends(w, u)
    BY <1>8, <1>10, <1>11, <1>12, <1>13, RegisteredSpan
  <1> QED
    BY <1>14 DEF SpansOn
-----------------------------------------------------------------------------
(* What lies under a path followed on a token, and what will lie under the  *)
(* frame that has shifted it.                                               *)
Takes(u, S, T, path, tok, stays) ==
  /\ u[path] \in S
  /\ tok.type # EOF =>
       /\ RealSpan(tok) \in Seq(Nat)
       /\ stays = TRUE => u[path] \o RealSpan(tok) \in S
       /\ stays = FALSE => u[path] \o RealSpan(tok) \in T

LEMMA ShiftedSpan ==
  ASSUME NEW fk, NEW u, NEW S, NEW T, Spanned(fk, u, S, T), NEW path \in 1..Len(fk.frames),
         NEW tok, NEW stays \in BOOLEAN, Takes(u, S, T, path, tok, stays), tok.type # EOF,
         NEW to, NEW ctx, NEW gk, gk = ForkShift(fk, path, to, tok, stays, ctx)
  PROVE  \E w : SpansOn(gk, fk, w, u, S, T)
  <1>1. PICK fs : fs = fk.frames /\ SpansOK(fs, u)
    BY DEF Spanned
  <1>2. PICK m \in Nat : m = Len(fs) /\ path \in 1..m
    BY <1>1, SpansShape
  <1>3. PICK x \in Seq(Nat) : x = RealSpan(tok)
    BY DEF Takes
  <1>4. PICK y \in Seq(Nat) : y = u[path]
    BY <1>1, <1>2, SpansShape
  <1>5. PICK v \in Seq(Nat) : v = y \o x
    <2>1. y \o x \in Seq(Nat)
      OBVIOUS
    <2> QED
      BY <2>1
  <1>6. (stays = TRUE => v \in S) /\ (stays = FALSE => v \in T)
    BY <1>3, <1>4, <1>5 DEF Takes
  <1>7. PICK f : f = [parent |-> path, state |-> to, value |-> Leaf(tok), ctx |-> ctx,
                      span |-> RealSpan(tok), ran |-> fk.frames[path].ran]
    OBVIOUS
  <1>8. IsRec(f, FrameFields) /\ f.parent = path /\ f.span = x
    BY <1>3, <1>7 DEF IsRec, FrameFields
  <1>9. SpanOn(u, f, v, Len(fk.frames))
    <2>1. path # 0 /\ path \in 0..m
      BY <1>2
    <2> QED
      BY <1>1, <1>2, <1>3, <1>4, <1>5, <1>8, <2>1 DEF SpanOn, Under
  <1>10. CASE stays = TRUE
    <2>1. PICK r : r = 0
      OBVIOUS
    <2>2. gk = Register(fk, f, r) /\ v \in S
      BY <1>6, <1>7, <1>10, <2>1 DEF ForkShift
    <2>3. \E w : Spanned(gk, w, S, T) /\ Extends(w, u)
      BY <1>8, <1>9, <2>2, RegisteredSpan
    <2> QED
      BY <2>3 DEF SpansOn
  <1>11. CASE stays = FALSE
    <2>1. PICK id \in Nat : id = m + 1
      OBVIOUS
    <2>2. gk = [fk EXCEPT !.frames = Append(@, f), !.shifted = Append(@, id)]
      BY <1>1, <1>2, <1>7, <1>11, <2>1 DEF ForkShift
    <2>3. /\ IsRec(gk, ForkFields) /\ gk.frames = Append(fk.frames, f) /\ gk.active = fk.active
          /\ gk.worklist = fk.worklist /\ gk.shifted = Append(fk.shifted, id)
      BY <2>2 DEF Spanned, IsRec, ForkFields
    <2>4. Pushed(gk.frames, fk.frames, f) /\ Pushed(gk.shifted, fk.shifted, id)
      BY <2>3 DEF Pushed
    <2>5. PICK gs, s, q : gs = gk.frames /\ s = gk.shifted /\ q = fk.shifted
      OBVIOUS
    <2>6. PICK w : Pushed(w, u, v)
      BY DEF Pushed
    <2>7. /\ SpansOK(gs, w) /\ Extends(gs, fk.frames) /\ Extends(w, u)
          /\ Len(gs) = Len(fk.frames) + 1 /\ w[Len(gs)] = v /\ gs[Len(gs)] = f /\ Len(gs) \in Nat \ {0}
          /\ AllAt(fk.active, Len(gs), w, S) /\ AllAt(fk.worklist, Len(gs), w, S)
          /\ AllAt(fk.shifted, Len(gs), w, T) /\ KeysApart(gs, fk.active)
      <3>1. IsRec(f, FrameFields)
        BY <1>8
      <3>2. Pushed(gs, fk.frames, f)
        BY <2>4, <2>5
      <3> QED
        BY <1>9, <2>6, <3>1, <3>2, OneMoreSpan
    <2>8. AllAt(s, id, w, T)
      <3>1. AllAt(q, id, w, T) /\ w[id] \in T /\ id \in 1..id /\ Pushed(s, q, id)
        BY <1>1, <1>2, <1>6, <1>11, <2>1, <2>4, <2>5, <2>7
      <3> QED
        BY <3>1, ListGrows
    <2>9. Spanned(gk, w, S, T)
      BY <1>1, <1>2, <2>1, <2>3, <2>5, <2>7, <2>8 DEF Spanned
    <2> QED
      BY <2>7, <2>9 DEF SpansOn
  <1> QED
    BY <1>10, <1>11

LEMMA AppliedSpan ==
  ASSUME Built, phase = "ready", NEW K, NEW P, Closed(K, P),
         NEW fk, NEW at, NEW L, NEW M, NEW path, NEW t, NEW stays, NEW E,
         Fits(fk, K, at, L, M, path, t, stays, E), NEW e \in E, NEW tok, t = tok.type,
         NEW u, NEW S, NEW T, Spanned(fk, u, S, T), Takes(u, S, T, path, tok, stays),
         NEW ctx, NEW gk, gk = ApplyAction(fk, path, e, tok, stays, ctx)
  PROVE  \E w : SpansOn(gk, fk, w, u, S, T)
  <1>0. /\ Forked(fk, K, at, L, M)
        /\ path \in 1..Len(fk.frames) /\ at[path] \in L
        /\ t \in TermsEOF /\ stays \in BOOLEAN
        /\ e.kind \in {"shift", "reduce"} => e \in KeptOf(action[fk.frames[path].state][t])
    BY DEF Fits
  <1>1. CASE e.kind = "shift"
    <2>1. PICK p : p = fk.frames[path].state /\ p \in 1..Len(states)
      <3>1. PICK fs : fs = fk.frames /\ FramesOK(fs, K, at)
        BY <1>0 DEF Forked
      <3>2. PICK m \in Nat : m = Len(fs) /\ path \in 1..m
        BY <1>0, <3>1, FramesShape
      <3>3. PICK D, st, par : /\ D = 1..m
                              /\ st = [id \in 1..m |-> fs[id].state] /\ par = [id \in 1..m |-> fs[id].parent]
        OBVIOUS
      <3>4. Hanging(K, D, st, par, at) /\ path \in D /\ st[path] = fs[path].state
        BY <3>1, <3>2, <3>3, FramesHang
      <3> QED
        BY <3>1, <3>4, HangingShape
    <2>2. tok.type # EOF
      BY <1>0, <1>1, <2>1, ShiftIsAMove
    <2>3. PICK to : gk = ForkShift(fk, path, to, tok, stays, ctx)
      BY <1>1 DEF ApplyAction
    <2> QED
      BY <1>0, <2>2, <2>3, ShiftedSpan
  <1>2. CASE e.kind = "reduce"
    <2>1. gk = ForkReduce(fk, path, e.rule, ctx)
      BY <1>2 DEF ApplyAction
    <2>2. OnPath(fk, K, at, L, M, path, t, e)
      BY <1>0, <1>2 DEF OnPath
    <2>3. u[path] \in S
      BY DEF Takes
    <2> QED
      BY <1>2, <2>1, <2>2, <2>3, ReducedSpan
  <1>3. CASE e.kind \notin {"shift", "reduce"}
    <2>1. PICK v : v = <<fk.frames[path].value>>
      OBVIOUS
    <2>2. gk = [fk EXCEPT !.accepted = v]
      BY <1>3, <2>1 DEF ApplyAction
    <2>3. /\ IsRec(gk, ForkFields) /\ gk.frames = fk.frames /\ gk.active = fk.active
          /\ gk.worklist = fk.worklist /\ gk.shifted = fk.shifted
      BY <2>2 DEF Spanned, IsRec, ForkFields
    <2>4. Spanned(gk, u, S, T)
      BY <2>3 DEF Spanned
    <2>5. Extends(u, u)
      <3>1. Len(u) \in Nat
        BY SpansShape DEF Spanned
      <3> QED
        BY <3>1 DEF Extends
    <2> QED
      BY <2>4, <2>5 DEF SpansOn
  <1>4. e.kind = "shift" \/ e.kind = "reduce" \/ e.kind \notin {"shift", "reduce"}
    OBVIOUS
  <1> QED
    BY <1>1, <1>2, <1>3, <1>4

LEMMA SpansGoOn ==
  ASSUME NEW fk, NEW gk, NEW hk, NEW u, NEW v, NEW w, NEW S, NEW T, Spanned(fk, u, S, T),
         SpansOn(gk, fk, v, u, S, T), SpansOn(hk, gk, w, v, S, T)
  PROVE  SpansOn(hk, fk, w, u, S, T)
  <1>1. Len(u) \in Nat /\ Len(v) \in Nat /\ Len(w) \in Nat
    <2>1. Len(u) \in Nat
      BY SpansShape DEF Spanned
    <2>2. Len(v) \in Nat
      BY SpansShape DEF SpansOn, Spanned
    <2>3. Len(w) \in Nat
      BY SpansShape DEF SpansOn, Spanned
    <2> QED
      BY <2>1, <2>2, <2>3
  <1>2. Extends(w, u)
    BY <1>1, ExtendsFurther DEF SpansOn
  <1> QED
    BY <1>2 DEF SpansOn

LEMMA BranchSpan ==
  ASSUME Built, phase = "ready", NEW K, NEW P, Closed(K, P),
         NEW fk, NEW at, NEW L, NEW M, NEW path, NEW t, NEW stays, NEW entries, NEW n \in Nat, n = Len(entries),
         NEW E, \A k \in 1..n : entries[k] \in E,
         Fits(fk, K, at, L, M, path, t, stays, E), NEW tok, t = tok.type,
         NEW u, NEW S, NEW T, Spanned(fk, u, S, T), Takes(u, S, T, path, tok, stays),
         NEW gk, gk = Branch(fk, path, entries, tok, stays)
  PROVE  \E w : SpansOn(gk, fk, w, u, S, T)
  <1>1. PICK h : BranchesUpTo(h, n, fk, path, entries, tok, stays) /\ gk = h[n]
    BY BranchSteps
  <1> DEFINE H == {k \in 0..n : /\ \E bt : Goes(h[k], fk, K, bt, at, L, M)
                                /\ \E w : SpansOn(h[k], fk, w, u, S, T)}
  <1>2. Forked(fk, K, at, L, M) /\ path \in 1..Len(fk.frames) /\ at[path] \in L
    BY DEF Fits
  <1>3. Len(fk.frames) \in Nat /\ Len(at) = Len(fk.frames) /\ Len(u) = Len(fk.frames)
    BY <1>2, FramesShape, SpansShape DEF Forked, Spanned
  <1>4. 0 \in H
    <2>1. Extends(fk.frames, fk.frames) /\ Extends(at, at) /\ Extends(u, u)
      BY <1>3 DEF Extends
    <2>2. Goes(fk, fk, K, at, at, L, M)
      BY <1>2, <2>1 DEF Goes
    <2>3. SpansOn(fk, fk, u, u, S, T)
      BY <2>1 DEF SpansOn
    <2>4. h[0] = fk
      BY <1>1 DEF BranchesUpTo
    <2>5. 0 \in 0..n
      OBVIOUS
    <2> QED
      BY <2>2, <2>3, <2>4, <2>5
  <1>5. ASSUME NEW k \in 1..n, k - 1 \in H PROVE k \in H
    <2>1. PICK g, bt, v : g = h[k - 1] /\ Goes(g, fk, K, bt, at, L, M) /\ SpansOn(g, fk, v, u, S, T)
      BY <1>5
    <2>3. PICK x : x = fk.frames[path].ctx
      OBVIOUS
    <2>4. PICK c, ctx : c = CloneContext(g, x).fk /\ ctx = CloneContext(g, x).ctx
      OBVIOUS
    <2>5. PICK hk : hk = h[k]
      OBVIOUS
    <2>6. PICK e \in E : e = entries[k]
      OBVIOUS
    <2>7. hk = ApplyAction(c, path, e, tok, stays, ctx)
      BY <1>1, <2>1, <2>3, <2>4, <2>5, <2>6 DEF BranchesUpTo, Branched
    <2>8. Forked(g, K, bt, L, M) /\ Spanned(g, v, S, T)
      BY <2>1 DEF Goes, SpansOn
    <2>9. /\ IsRec(c, ForkFields) /\ c.frames = g.frames /\ c.active = g.active
          /\ c.worklist = g.worklist /\ c.shifted = g.shifted
      BY <2>4, <2>8 DEF Forked, IsRec, ForkFields, CloneContext
    <2>10. Forked(c, K, bt, L, M)
      BY <2>8, <2>9 DEF Forked
    <2>11. Goes(c, fk, K, bt, at, L, M)
      BY <2>1, <2>9, <2>10 DEF Goes
    <2>20. Spanned(c, v, S, T)
      BY <2>8, <2>9 DEF Spanned
    <2>21. SpansOn(c, fk, v, u, S, T)
      BY <2>1, <2>20 DEF SpansOn
    <2>12. /\ path \in 1..Len(c.frames) /\ c.frames[path] = fk.frames[path] /\ bt[path] = at[path]
           /\ v[path] = u[path]
      <3>1. Len(c.frames) \in Nat
        BY <2>10, FramesShape DEF Forked
      <3> QED
        BY <1>2, <1>3, <2>11, <2>21, <3>1 DEF Goes, Extends, SpansOn
    <2>13. Fits(c, K, bt, L, M, path, t, stays, E)
      BY <2>10, <2>12 DEF Fits
    <2>22. Takes(v, S, T, path, tok, stays)
      BY <2>12 DEF Takes
    <2>14. Followed(hk, c, K, bt, L, M, E)
      BY <2>7, <2>13, Applied
    <2>15. PICK ct : Goes(hk, c, K, ct, bt, L, M)
      BY <2>14 DEF Followed
    <2>16. Goes(hk, fk, K, ct, at, L, M)
      BY <1>2, <2>11, <2>15, GoesOn
    <2>23. PICK w : SpansOn(hk, c, w, v, S, T)
      BY <2>7, <2>13, <2>20, <2>22, AppliedSpan
    <2>24. SpansOn(hk, fk, w, u, S, T)
      BY <2>21, <2>23, SpansGoOn
    <2>18. k \in 0..n
      OBVIOUS
    <2> QED
      BY <2>5, <2>16, <2>18, <2>24
  <1>6. \A k \in 0..n : k \in H
    <2> HIDE DEF H
    <2> QED
      BY <1>4, <1>5, Climbing
  <1>7. n \in 0..n
    OBVIOUS
  <1> QED
    BY <1>1, <1>6, <1>7

LEMMA EntrySpan ==
  ASSUME Built, AlwaysInv, phase = "ready", NEW K, NEW P, Closed(K, P),
         NEW fk, NEW at, NEW L, NEW M, NEW tok, NEW stays, CanFollow(fk, K, at, L, M, tok, stays),
         NEW e, e = Entry(action[fk.frames[Path].state], tok.type), e.kind \notin {"none", "error"},
         NEW u, NEW S, NEW T, Spanned(fk, u, S, T), Takes(u, S, T, Path, tok, stays),
         NEW gk, gk = FollowEntry(fk, Path, tok, stays)
  PROVE  \E w : SpansOn(gk, fk, w, u, S, T)
  <1>0. PICK path \in 1..Len(fk.frames) : path = Path /\ at[path] \in L
    BY DEF CanFollow
  <1>1. PICK p, t : p = fk.frames[path].state /\ t = tok.type /\ p \in 1..Len(states)
    <2>1. PICK fs : fs = fk.frames /\ FramesOK(fs, K, at)
      BY DEF CanFollow, Forked
    <2>2. PICK m \in Nat : m = Len(fs) /\ path \in 1..m
      BY <2>1, FramesShape
    <2>3. PICK D, st, par : /\ D = 1..m
                            /\ st = [id \in 1..m |-> fs[id].state] /\ par = [id \in 1..m |-> fs[id].parent]
      OBVIOUS
    <2>4. Hanging(K, D, st, par, at) /\ path \in D /\ st[path] = fs[path].state
      BY <2>1, <2>2, <2>3, FramesHang
    <2> QED
      BY <2>1, <2>4, HangingShape
  <1>2. t \in TermsEOF /\ e = action[p][t]
    BY <1>0, <1>1, EntryIs
  <1>3. PICK kept : kept = KeptOf(action[p][t])
    OBVIOUS
  <1>4. /\ Forked(fk, K, at, L, M) /\ stays \in BOOLEAN
        /\ t # EOF => Moving(K, t, at[path], stays, L, M)
        /\ gk = FollowEntry(fk, path, tok, stays) /\ Takes(u, S, T, path, tok, stays)
    BY <1>0, <1>1, <1>2 DEF CanFollow
  <1>5. CASE e.kind = "conflict"
    <2>1. PICK entries : entries = e.entries
      OBVIOUS
    <2>2. PICK a, b : entries = <<a, b>>
      BY <1>1, <1>2, <1>5, <2>1 DEF AlwaysInv, Filled
    <2>3. PICK n \in Nat : n = 2 /\ n = Len(entries)
      BY <2>2
    <2>4. ASSUME NEW k \in 1..n PROVE entries[k] \in kept
      <3>1. kept = ToSet(entries)
        BY <1>2, <1>3, <1>5, <2>1 DEF KeptOf
      <3>2. entries \in Seq({a, b})
        BY <2>2
      <3> QED
        BY <2>3, <3>1, <3>2, HoldsAt
    <2>5. Fits(fk, K, at, L, M, path, t, stays, kept)
      BY <1>0, <1>1, <1>2, <1>3, <1>4 DEF Fits
    <2>6. gk = Branch(fk, path, entries, tok, stays)
      BY <1>0, <1>1, <1>4, <1>5, <2>1 DEF FollowEntry
    <2> QED
      BY <1>1, <1>4, <2>3, <2>4, <2>5, <2>6, BranchSpan
  <1>6. CASE e.kind # "conflict"
    <2>1. PICK E : E = {e}
      OBVIOUS
    <2>2. e.kind # "ignore" => e \in kept
      BY <1>2, <1>3, <1>6 DEF KeptOf
    <2>3. Fits(fk, K, at, L, M, path, t, stays, E)
      BY <1>0, <1>1, <1>2, <1>3, <1>4, <2>1, <2>2 DEF Fits
    <2>4. PICK ctx : gk = ApplyAction(fk, path, e, tok, stays, ctx)
      BY <1>0, <1>1, <1>4, <1>6 DEF FollowEntry
    <2> QED
      BY <1>1, <1>4, <2>1, <2>3, <2>4, AppliedSpan
  <1> QED
    BY <1>5, <1>6

LEMMA TakenOffSpan ==
  ASSUME NEW u, NEW S, NEW T, Spanned(fork, u, S, T), Sweeping,
         NEW n, NEW fk, fk = Taken \/ fk = [Taken EXCEPT !.recoveries = n]
  PROVE  Spanned(fk, u, S, T) /\ u[Path] \in S
  <1>1. PICK q : q = fork.worklist /\ q # <<>>
    BY DEF Sweeping
  <1>2. PICK m \in Nat : m = Len(fork.frames) /\ AllAt(q, m, u, S)
    BY <1>1, SpansShape DEF Spanned
  <1>3. PICK rest : rest = Tail(q) /\ AllAt(rest, m, u, S) /\ u[Path] \in S
    BY <1>1, <1>2, ListTail DEF Path
  <1>4. PICK w : w = fork.work + 1
    OBVIOUS
  <1>5. fk = [fork EXCEPT !.worklist = rest, !.work = w]
        \/ fk = [fork EXCEPT !.worklist = rest, !.work = w, !.recoveries = n]
    BY <1>1, <1>3, <1>4 DEF Taken
  <1>6. /\ IsRec(fk, ForkFields) /\ fk.frames = fork.frames /\ fk.active = fork.active
        /\ fk.worklist = rest /\ fk.shifted = fork.shifted
    BY <1>5 DEF Spanned, IsRec, ForkFields
  <1> QED
    BY <1>2, <1>3, <1>6 DEF Spanned

(* What the pending token, or an inserted one, makes of what is held.       *)
TokenMoves(S, T, tok) ==
  /\ S \subseteq Seq(Nat)
  /\ \A s \in S : tok.type # EOF => RealSpan(tok) \in Seq(Nat) /\ s \o RealSpan(tok) \in T

LEMMA MadeTakes ==
  ASSUME NEW S, S \subseteq Seq(Nat), NEW T, NEW u, NEW path, u[path] \in S,
         NEW made, made.at = 0, NEW stays, stays = TRUE
  PROVE  Takes(u, S, T, path, made, stays)
  <1>1. PICK none : none = RealSpan(made) /\ none = <<>>
    BY DEF RealSpan
  <1>2. none \in Seq(Nat)
    BY <1>1
  <1>3. PICK s \in Seq(Nat) : s = u[path] /\ s \in S
    OBVIOUS
  <1>4. s \o none = s
    BY <1>1
  <1> QED
    BY <1>1, <1>2, <1>3, <1>4 DEF Takes

(* One turn of the worklist.                                                *)
LEMMA SweepSpan ==
  ASSUME Built, AlwaysInv, phase = "ready", NEW K, NEW P, NEW at, NEW L, NEW M,
         NEW tok, tok = forkTok, Steers(K, P, L, M, tok), Forked(fork, K, at, L, M),
         NEW u, NEW S, NEW T, Spanned(fork, u, S, T), TokenMoves(S, T, tok),
         SkipSuperseded \/ FollowPath \/ RecoverPath \/ LosePath, NEW gk, gk = fork'
  PROVE  \E w : Spanned(gk, w, S, T)
  <1>1. Sweeping /\ Working
    BY DEF SkipSuperseded, FollowPath, RecoverPath, LosePath, Working
  <1>2. PICK n : n = fork.recoveries + 1
    OBVIOUS
  <1>3. PICK lk : lk = [Taken EXCEPT !.recoveries = n]
    OBVIOUS
  <1>4. PICK fk : fk = Taken
    OBVIOUS
  <1>0. Taken.recoveries = fork.recoveries
    BY DEF Taken, Forked, IsRec, ForkFields
  <1>5. lk = [Taken EXCEPT !.recoveries = @ + 1]
    BY <1>0, <1>2, <1>3
  <1>6. /\ Forked(fk, K, at, L, M) /\ fk.frames = fork.frames /\ fk.accepted = fork.accepted
        /\ Path \in 1..Len(fk.frames) /\ at[Path] \in L
    BY <1>1, <1>4, TakenOff
  <1>7. /\ Forked(lk, K, at, L, M) /\ lk.frames = fork.frames /\ lk.accepted = fork.accepted
        /\ Path \in 1..Len(lk.frames) /\ at[Path] \in L
    BY <1>1, <1>3, TakenOff
  <1>8. fork.accepted = <<>>
    BY <1>1 DEF Sweeping
  <1>9. PICK i \in Nat : i = at[Path] /\ i \in L
    BY <1>6 DEF Steers
  <1>10. Closed(K, P)
    BY DEF Steers
  <1>15. Spanned(fk, u, S, T) /\ u[Path] \in S
    BY <1>1, <1>4, TakenOffSpan
  <1>16. Spanned(lk, u, S, T)
    BY <1>1, <1>3, TakenOffSpan
  <1>11. CASE SkipSuperseded
    <2>1. gk = fk
      BY <1>4, <1>11 DEF SkipSuperseded
    <2> QED
      BY <1>15, <2>1
  <1>12. CASE FollowPath
    <2>1. PICK stays : stays = FALSE
      OBVIOUS
    <2>2. gk = FollowEntry(fk, Path, tok, stays)
      BY <1>4, <1>12, <2>1 DEF FollowPath
    <2>3. PICK e : e = Entry(action[fk.frames[Path].state], tok.type)
      OBVIOUS
    <2>4. e.kind \notin {"none", "error"}
      BY <1>6, <1>12, <2>3 DEF FollowPath, PathFits, PathRow
    <2>5. tok.type \in TermsEOF /\ tok.type # EOF => Moving(K, tok.type, at[Path], stays, L, M)
      BY <1>9, <2>1 DEF Steers, Moving
    <2>6. CanFollow(fk, K, at, L, M, tok, stays)
      BY <1>6, <1>8, <2>1, <2>5 DEF CanFollow
    <2>7. PICK s \in S : s = u[Path]
      BY <1>15
    <2>8. Takes(u, S, T, Path, tok, stays)
      BY <2>1, <2>7 DEF Takes, TokenMoves
    <2>9. PICK w : SpansOn(gk, fk, w, u, S, T)
      BY <1>10, <1>15, <2>2, <2>3, <2>4, <2>6, <2>8, EntrySpan
    <2> QED
      BY <2>9 DEF SpansOn
  <1>13. CASE RecoverPath
    <2>1. PICK t \in RecoverTerms :
            /\ Entry(PathRow, t).kind \notin {"none", "error"}
            /\ gk = FollowEntry(lk, Path, [type |-> t, at |-> 0], TRUE)
      BY <1>5, <1>13 DEF RecoverPath
    <2>2. PICK made, stays : made = [type |-> t, at |-> 0] /\ stays = TRUE
      OBVIOUS
    <2>3. gk = FollowEntry(lk, Path, made, stays) /\ made.type = t /\ made.at = 0
      BY <2>1, <2>2
    <2>4. PICK e : e = Entry(action[lk.frames[Path].state], made.type)
      OBVIOUS
    <2>5. e.kind \notin {"none", "error"}
      BY <1>7, <2>1, <2>3, <2>4 DEF PathRow
    <2>6. t \in TermsEOF /\ t # EOF => Moving(K, t, at[Path], stays, L, M)
      <3>1. SUFFICES ASSUME t \in TermsEOF, t # EOF PROVE Moving(K, t, i, stays, L, M)
        BY <1>9
      <3>2. <<t, i, i>> \in K
        BY <1>9, <3>1 DEF Steers
      <3> QED
        BY <1>9, <2>2, <3>2 DEF Moving
    <2>7. CanFollow(lk, K, at, L, M, made, stays)
      BY <1>7, <1>8, <2>2, <2>3, <2>6 DEF CanFollow
    <2>8. Takes(u, S, T, Path, made, stays)
      BY <1>15, <2>2, <2>3, MadeTakes DEF TokenMoves
    <2>9. PICK w : SpansOn(gk, lk, w, u, S, T)
      BY <1>10, <1>16, <2>3, <2>4, <2>5, <2>7, <2>8, EntrySpan
    <2> QED
      BY <2>9 DEF SpansOn
  <1>14. CASE LosePath
    <2>1. gk = lk
      BY <1>5, <1>14 DEF LosePath
    <2> QED
      BY <1>16, <2>1
  <1> QED
    BY <1>11, <1>12, <1>13, <1>14
-----------------------------------------------------------------------------
(* The stack of runParser becomes the first frames.                         *)
StartSpans(gk, s) ==
  gk = [NoFork EXCEPT
          !.frames = [k \in 1..Len(s) |->
                        [parent |-> k - 1, state |-> s[k].state, value |-> s[k].value,
                         ctx |-> 1, span |-> s[k].span, ran |-> <<>>]],
          !.active = <<Len(s)>>, !.worklist = <<Len(s)>>, !.contexts = <<(<<>>)>>]

LEMMA StartSpanned ==
  ASSUME NEW s, NEW S, StackHolds(s, S), Len(s) \in Nat \ {0}, NEW T, NEW gk, StartSpans(gk, s)
  PROVE  \E u : Spanned(gk, u, S, T)
  <1>2. PICK n \in Nat \ {0} : n = Len(s)
    OBVIOUS
  <1>1. PICK g :
          /\ g \in [0..n -> Seq(Nat)] /\ g[0] = <<>> /\ g[n] \in S
          /\ \A k \in 1..n : s[k].span \in Seq(Nat) /\ g[k] = g[k - 1] \o s[k].span
    BY <1>2 DEF StackHolds, Sums
  <1> DEFINE Frame(k) == [parent |-> k - 1, state |-> s[k].state, value |-> s[k].value,
                          ctx |-> 1, span |-> s[k].span, ran |-> <<>>]
  <1>3. \A k : /\ IsRec(Frame(k), FrameFields) /\ Frame(k).parent = k - 1 /\ Frame(k).span = s[k].span
    BY DEF IsRec, FrameFields
  <1>4. PICK fs : fs = [k \in 1..n |-> Frame(k)]
    OBVIOUS
  <1>5. PICK one : one = <<n>>
    OBVIOUS
  <1>6. PICK ctxs : ctxs = <<(<<>>)>>
    OBVIOUS
  <1>7. gk = [NoFork EXCEPT !.frames = fs, !.active = one, !.worklist = one, !.contexts = ctxs]
    BY <1>2, <1>4, <1>5, <1>6 DEF StartSpans, Frame
  <1>8. IsRec(NoFork, ForkFields) /\ NoFork.shifted = <<>>
    BY DEF NoFork, IsRec, ForkFields
  <1>9. /\ IsRec(gk, ForkFields) /\ gk.frames = fs /\ gk.active = one /\ gk.worklist = one
        /\ gk.shifted = <<>>
    BY <1>7, <1>8 DEF IsRec, ForkFields
  <1>10. fs \in [1..n -> {Frame(k) : k \in 1..n}]
    BY <1>4
  <1> HIDE DEF Frame
  <1>11. Len(fs) = n /\ fs \in Seq({Frame(k) : k \in 1..n}) /\ \A k \in 1..n : fs[k] = Frame(k)
    BY <1>4, <1>10
  <1>12. PICK u : u = [k \in 1..n |-> g[k]]
    OBVIOUS
  <1>13. u \in Seq(Seq(Nat)) /\ Len(u) = n /\ \A k \in 1..n : u[k] = g[k]
    <2>1. \A k \in 1..n : g[k] \in Seq(Nat)
      <3>1. \A k \in 1..n : k \in 0..n
        OBVIOUS
      <3> QED
        BY <1>1, <3>1
    <2>2. u \in [1..n -> Seq(Nat)]
      BY <1>12, <2>1
    <2> QED
      BY <1>12, <2>2
  <1>14. ASSUME NEW k \in 1..n PROVE IsRec(fs[k], FrameFields) /\ SpanOn(u, fs[k], u[k], k - 1)
    <2>1. IsRec(fs[k], FrameFields) /\ fs[k].parent = k - 1 /\ fs[k].span = s[k].span
      BY <1>3, <1>11
    <2>2. k - 1 \in 0..(k - 1)
      OBVIOUS
    <2>3. Under(u, k - 1) = g[k - 1]
      <3>1. CASE k = 1
        BY <1>1, <3>1 DEF Under
      <3>2. CASE k # 1
        <4>1. k - 1 \in 1..n /\ k - 1 # 0
          BY <3>2
        <4> QED
          BY <1>13, <4>1 DEF Under
      <3> QED
        BY <3>1, <3>2
    <2> QED
      BY <1>1, <1>13, <2>1, <2>2, <2>3 DEF SpanOn
  <1>15. SpansOK(fs, u)
    BY <1>11, <1>13, <1>14 DEF SpansOK
  <1>16. one \in Seq(1..n) /\ Len(one) = 1 /\ one[1] = n
    BY <1>5
  <1>17. \A k \in 1..1 : k = 1
    OBVIOUS
  <1>18. AllAt(one, n, u, S)
    <2>1. u[n] \in S
      BY <1>1, <1>13
    <2> QED
      BY <1>16, <1>17, <2>1 DEF AllAt
  <1>19. PICK none : none = <<>>
    OBVIOUS
  <1>20. AllAt(none, n, u, T)
    <2>1. none \in Seq(1..n) /\ Len(none) = 0
      BY <1>19
    <2> QED
      BY <2>1 DEF AllAt
  <1>21. KeysApart(fs, one)
    BY <1>16, <1>17 DEF KeysApart
  <1> QED
    BY <1>9, <1>11, <1>15, <1>18, <1>19, <1>20, <1>21 DEF Spanned

LEMMA SurvivorsSpanned ==
  ASSUME NEW u, NEW S, NEW T, Spanned(fork, u, S, T), Swept
  PROVE  \E w : Spanned(Survivors, w, T, T)
  <1>1. PICK q : q = fork.shifted
    OBVIOUS
  <1>2. PICK fs : fs = fork.frames /\ SpansOK(fs, u)
    BY DEF Spanned
  <1>3. PICK m \in Nat : m = Len(fs) /\ Len(u) = m
    BY <1>2, SpansShape
  <1>4. PICK n \in Nat : n = Len(q)
    BY <1>1 DEF Spanned, AllAt
  <1>5. q \in Seq(1..m) /\ \A k \in 1..n : u[q[k]] \in T
    BY <1>1, <1>2, <1>3, <1>4 DEF Spanned, AllAt
  <1>6. PICK h : SurvivorsUpTo(h, n) /\ Survivors = h[n]
    BY <1>1, <1>4, SurvivorSteps
  <1>7. PICK none : none = <<>>
    OBVIOUS
  <1>8. none \in Seq(1..m) /\ Len(none) = 0
    BY <1>7
  <1>9. AllAt(none, m, u, T) /\ KeysApart(fs, none)
    BY <1>8 DEF AllAt, KeysApart
  <1>10. PICK start : start = h[0] /\ start = [fork EXCEPT !.active = none, !.shifted = none, !.recoveries = 0]
    BY <1>6, <1>7 DEF SurvivorsUpTo, Afresh
  <1>11. fork.worklist = none
    BY <1>7 DEF Swept
  <1>12. /\ IsRec(start, ForkFields) /\ start.frames = fs /\ start.active = none
         /\ start.worklist = none /\ start.shifted = none
    BY <1>2, <1>10, <1>11 DEF Spanned, IsRec, ForkFields
  <1>13. PICK R : R = T
    OBVIOUS
  <1>14. Spanned(start, u, R, T)
    BY <1>2, <1>3, <1>9, <1>12, <1>13 DEF Spanned
  <1> DEFINE H == {k \in 0..n : \E w : Spanned(h[k], w, R, T) /\ Extends(w, u)}
  <1>15. 0 \in H
    <2>1. Extends(u, u)
      BY <1>3 DEF Extends
    <2>2. 0 \in 0..n
      OBVIOUS
    <2> QED
      BY <1>10, <1>12, <1>14, <2>1, <2>2
  <1>16. ASSUME NEW k \in 1..n, k - 1 \in H PROVE k \in H
    <2>1. PICK g, w : g = h[k - 1] /\ Spanned(g, w, R, T) /\ Extends(w, u)
      BY <1>16
    <2>2. PICK id \in 1..m : id = q[k] /\ u[id] \in T
      BY <1>4, <1>5
    <2>3. PICK f : f = fs[id] /\ IsRec(f, FrameFields)
      BY <1>2, <1>3 DEF SpansOK
    <2>4. PICK v \in Seq(Nat) : v = u[id] /\ v \in R
      BY <1>2, <1>3, <1>13, <2>2, SpansShape
    <2>5. SpanOn(u, f, v, id - 1)
      BY <1>2, <1>3, <2>3, <2>4 DEF SpansOK
    <2>6. PICK gs : gs = g.frames /\ SpansOK(gs, w)
      BY <2>1 DEF Spanned
    <2>7. SpanOn(w, f, v, Len(gs))
      <3>1. Len(gs) \in Nat /\ m <= Len(gs)
        <4>1. Len(gs) \in Nat /\ Len(w) = Len(gs)
          BY <2>6, SpansShape
        <4> QED
          BY <1>3, <2>1, <4>1 DEF Extends
      <3>2. id - 1 \in Nat /\ id - 1 <= Len(gs) /\ id - 1 <= Len(u)
        BY <1>3, <3>1
      <3> QED
        BY <2>1, <2>5, <3>1, <3>2, SpanOnStill
    <2>8. PICK r : r = 0
      OBVIOUS
    <2>9. PICK hk : hk = h[k] /\ hk = Activate(g, f, r)
      BY <1>1, <1>2, <1>6, <2>1, <2>2, <2>3, <2>8 DEF SurvivorsUpTo
    <2>10. Spanned(g, w, R, T) /\ SpanOn(w, f, v, Len(g.frames)) /\ v \in R /\ IsRec(f, FrameFields)
           /\ hk = Activate(g, f, r)
      BY <2>1, <2>3, <2>4, <2>6, <2>7, <2>9
    <2>11. PICK x : Spanned(hk, x, R, T) /\ Extends(x, w)
      BY <2>10, ActivatedSpan
    <2>12. Extends(x, u)
      <3>1. Len(w) \in Nat /\ Len(x) \in Nat
        BY <2>1, <2>11, SpansShape DEF Spanned
      <3> QED
        BY <1>3, <2>1, <2>11, <3>1, ExtendsFurther
    <2>13. k \in 0..n
      OBVIOUS
    <2> QED
      BY <2>9, <2>11, <2>12, <2>13
  <1>17. \A k \in 0..n : k \in H
    <2> HIDE DEF H
    <2> QED
      BY <1>15, <1>16, Climbing
  <1>18. n \in 0..n
    OBVIOUS
  <1> QED
    BY <1>6, <1>13, <1>17, <1>18

(* The frames made active are all looked at before the next token.          *)
LEMMA RelistedSpan ==
  ASSUME NEW fk, NEW u, NEW R, Spanned(fk, u, R, R), fk.shifted = <<>>, NEW S, \A s \in R : s \in S,
         NEW T, NEW gk, gk = [fk EXCEPT !.worklist = fk.active]
  PROVE  Spanned(gk, u, S, T)
  <1>1. PICK q, none : q = fk.active /\ none = <<>>
    OBVIOUS
  <1>2. gk = [fk EXCEPT !.worklist = q]
    BY <1>1
  <1>3. /\ IsRec(gk, ForkFields) /\ gk.frames = fk.frames /\ gk.active = q /\ gk.worklist = q
        /\ gk.shifted = none
    BY <1>1, <1>2 DEF Spanned, IsRec, ForkFields
  <1>4. PICK m : m = Len(fk.frames)
    OBVIOUS
  <1>5. AllAt(q, m, u, S)
    BY <1>1, <1>4 DEF Spanned, AllAt
  <1>6. AllAt(none, m, u, T)
    <2>1. none \in Seq(1..m) /\ Len(none) = 0
      BY <1>1
    <2> QED
      BY <2>1 DEF AllAt
  <1>7. SpansOK(gk.frames, u) /\ KeysApart(gk.frames, q)
    BY <1>1, <1>3 DEF Spanned
  <1> QED
    BY <1>3, <1>4, <1>5, <1>6, <1>7 DEF Spanned

(* The chain down from a frame is a stack that holds what lies under it.    *)
LEMMA ChainHolds ==
  ASSUME NEW fk, NEW K, NEW at, FramesOK(fk.frames, K, at), NEW path \in 1..Len(fk.frames),
         NEW u, SpansOK(fk.frames, u), NEW S, u[path] \in S, NEW chain, chain = Chain(fk, path)
  PROVE  StackHolds(chain, S)
  <1>1. PICK fs : fs = fk.frames /\ SpansOK(fs, u)
    OBVIOUS
  <1>2. PICK n \in Nat : n = Len(fs) /\ path \in 1..n
    BY <1>1, SpansShape
  <1>3. PICK N \in Nat \ {0} : \E up : ReachesBottom(fk, path, N, up)
    BY ChainIs
  <1>0. PICK up : ReachesBottom(fk, path, N, up)
    BY <1>3
  <1>4. /\ up[0] = path /\ \A k \in 1..N : up[k] = fs[up[k - 1]].parent
        /\ up[N] = 0 /\ \A k \in 0..(N - 1) : up[k] \in 1..n
    BY <1>0, <1>1, <1>2 DEF ReachesBottom, GoesDown
  <1>5. chain = [k \in 1..N |-> fs[up[N - k]]]
    <2>1. chain = [k \in 1..N |-> fs[Below(fk, path, N - k)]]
      BY <1>0, <1>1 DEF ReachesBottom, Popped
    <2>2. \A k \in 1..N : Below(fk, path, N - k) = up[N - k]
      <3>1. \A k \in 1..N : N - k \in 0..N
        OBVIOUS
      <3> QED
        BY <1>0, <3>1 DEF ReachesBottom, GoesDown
    <2> QED
      BY <2>1, <2>2
  <1>6. (\E X : chain \in Seq(X)) /\ Len(chain) = N
    <2>1. PICK X : X = {fs[up[N - k]] : k \in 1..N}
      OBVIOUS
    <2>2. chain \in [1..N -> X]
      BY <1>5, <2>1
    <2>3. chain \in Seq(X) /\ Len(chain) = N
      BY <2>2
    <2> QED
      BY <2>3
  <1>7. PICK g : g = [k \in 0..N |-> Under(u, up[N - k])]
    OBVIOUS
  <1>8. \A k \in 0..N : up[k] \in 0..n
    <2>1. \A k \in 0..N : k = N \/ k \in 0..(N - 1)
      OBVIOUS
    <2> QED
      BY <1>4, <2>1
  <1>9. \A k \in 0..N : N - k \in 0..N
    OBVIOUS
  <1>10. \A k \in 0..N : Under(u, up[N - k]) \in Seq(Nat)
    <2>1. \A i \in 0..n : Under(u, i) \in Seq(Nat)
      BY <1>1, <1>2, UnderIs
    <2> QED
      BY <1>8, <1>9, <2>1
  <1>11. g \in [0..N -> Seq(Nat)]
    BY <1>7, <1>10
  <1>12. ASSUME NEW k \in 1..N PROVE chain[k].span \in Seq(Nat) /\ g[k] = g[k - 1] \o chain[k].span
    <2>1. k \in 0..N /\ k - 1 \in 0..N /\ N - (k - 1) \in 1..N /\ N - (k - 1) - 1 = N - k /\ N - k \in 0..(N - 1)
      OBVIOUS
    <2>2. PICK id \in 1..n : id = up[N - k]
      BY <1>4, <2>1
    <2>3. PICK b : b = up[N - (k - 1)]
      OBVIOUS
    <2>4. b = fs[id].parent
      BY <1>4, <2>1, <2>2, <2>3
    <2>5. SpanOn(u, fs[id], u[id], id - 1)
      BY <1>1, <1>2 DEF SpansOK
    <2>6. fs[id].span \in Seq(Nat) /\ u[id] = Under(u, b) \o fs[id].span
      BY <2>4, <2>5 DEF SpanOn
    <2>7. id # 0
      BY <1>2
    <2>8. Under(u, id) = u[id]
      BY <2>7 DEF Under
    <2>9. chain[k] = fs[id] /\ g[k] = u[id] /\ g[k - 1] = Under(u, b)
      BY <1>5, <1>7, <2>1, <2>2, <2>3, <2>8
    <2> QED
      BY <2>6, <2>9
  <1>13. Sums(g, N, chain)
    BY <1>11, <1>12 DEF Sums
  <1>14. g[0] = <<>> /\ g[N] = u[path]
    <2>1. 0 \in 0..N /\ N \in 0..N /\ N - 0 = N /\ N - N = 0
      OBVIOUS
    <2>2. g[0] = Under(u, 0) /\ g[N] = Under(u, path)
      BY <1>4, <1>7, <2>1
    <2>3. path # 0
      BY <1>2
    <2> QED
      BY <2>2, <2>3 DEF Under
  <1> QED
    BY <1>6, <1>13, <1>14 DEF StackHolds

(* And so is the stack that is made of it.                                  *)
LEMMA UnwoundHolds ==
  ASSUME NEW s, NEW chain, NEW fk, NEW K, NEW at, NEW path, Unwinds(s, chain, fk, K, at, path),
         NEW S, StackHolds(chain, S)
  PROVE  StackHolds(s, S)
  <1>1. PICK N \in Nat : N = Len(chain)
    <2>1. PICK X : chain \in Seq(X)
      BY DEF StackHolds
    <2> QED
      BY <2>1
  <1>2. PICK g : Sums(g, N, chain) /\ g[0] = <<>> /\ g[N] \in S
    BY <1>1 DEF StackHolds
  <1> DEFINE Frame(k) == [state |-> chain[k].state, value |-> chain[k].value, span |-> chain[k].span]
  <1>3. s = [k \in 1..N |-> Frame(k)]
    BY <1>1 DEF Unwinds
  <1>4. \A k : Frame(k).span = chain[k].span
    OBVIOUS
  <1> HIDE DEF Frame
  <1>5. (\E X : s \in Seq(X)) /\ Len(s) = N /\ \A k \in 1..N : s[k] = Frame(k)
    <2>1. PICK X : X = {Frame(k) : k \in 1..N}
      OBVIOUS
    <2>2. s \in [1..N -> X] /\ \A k \in 1..N : s[k] = Frame(k)
      BY <1>3, <2>1
    <2>3. s \in Seq(X) /\ Len(s) = N
      BY <2>2
    <2> QED
      BY <2>2, <2>3
  <1>6. \A k \in 1..N : s[k].span = chain[k].span
    BY <1>4, <1>5
  <1>7. Sums(g, N, s)
    BY <1>2, <1>6 DEF Sums
  <1> QED
    BY <1>2, <1>5, <1>7 DEF StackHolds
-----------------------------------------------------------------------------
(* Where recovery starts no fork, the stack holds what was lexed before the *)
(* lookahead, and a fork keeps under each of its frames what was lexed      *)
(* before the token awaited, or that token too once it is shifted.          *)
Spread == \E u : Spanned(fork, u, HeldTo(ignored, Awaited.at - 1), Behind(forkTok, offset, ignored))
Held ==
  /\ mode = "lex" => StackHolds(stack, HeldTo(ignored, offset - 1))
  /\ mode = "parse" => /\ StandsAt(realTok, offset, ignored)
                       /\ StackHolds(stack, HeldTo(ignored, realTok.at - 1))
  /\ mode \in {"fork", "forking"} => /\ forkTok.at = 0 => forkTok.type = EOF
                                     /\ StandsAt(Awaited, offset, ignored)
  /\ mode = "fork" => StackHolds(stack, HeldTo(ignored, Awaited.at - 1))
  /\ mode = "forking" => Spread
Untouched == mode \in {"idle", "lex"} => offset = 1 /\ ignored = {}
Holding == Untouched /\ (NoForksOn(RecoverTerms) => Held)

LEMMA HeldIsSeqs ==
  ASSUME NEW dropped, NEW e
  PROVE  HeldTo(dropped, e) \subseteq Seq(Nat)
  BY DEF HeldTo

LEMMA StandsBefore ==
  ASSUME NEW tok, NEW o, NEW dropped, StandsAt(tok, o, dropped)
  PROVE  tok.at \in Nat \ {0} /\ \A i \in dropped : i \in Nat /\ i < o
  BY DEF StandsAt

(* The lexer goes on, and what is held stays all there was before.          *)
LEMMA LexedHolds ==
  ASSUME LexerOK, \A i \in ignored : i \in Nat /\ i < offset,
         NEW row, NEW t, t = Lexed(row).tok, NEW o, o = Lexed(row).next, NEW d, d = Dropping(row),
         NEW s, StackHolds(s, HeldTo(ignored, offset - 1))
  PROVE  StandsAt(t, o, d) /\ StackHolds(s, HeldTo(d, t.at - 1))
  <1>1. /\ StandsAt(t, o, d)
        /\ \A x \in HeldTo(ignored, offset - 1) : x \in HeldTo(d, t.at - 1)
    BY LexedOn
  <1>2. PICK S, T : S = HeldTo(ignored, offset - 1) /\ T = HeldTo(d, t.at - 1)
    OBVIOUS
  <1>3. StackHolds(s, S) /\ \A x \in S : x \in T
    BY <1>1, <1>2
  <1>4. StackHolds(s, T)
    BY <1>3, StackHoldsMore
  <1> QED
    BY <1>1, <1>2, <1>4

LEMMA HeldNext ==
  ASSUME mode' = "parse", NEW t, t = realTok', NEW o, o = offset', NEW d, d = ignored', NEW s, s = stack',
         StandsAt(t, o, d), StackHolds(s, HeldTo(d, t.at - 1))
  PROVE  Held'
  BY DEF Held

LEMMA AdvancesHolds ==
  ASSUME LexerOK, \A i \in ignored : i \in Nat /\ i < offset, NEW row, Advances(row), mode' = "parse",
         NEW s, s = stack', StackHolds(s, HeldTo(ignored, offset - 1))
  PROVE  Held'
  <1>1. PICK t, o, d : t = realTok' /\ o = offset' /\ d = ignored'
    OBVIOUS
  <1>2. t = Lexed(row).tok /\ o = Lexed(row).next /\ d = Dropping(row)
    BY <1>1 DEF Advances, Dropping
  <1>3. StandsAt(t, o, d) /\ StackHolds(s, HeldTo(d, t.at - 1))
    BY <1>2, LexedHolds
  <1> QED
    BY <1>1, <1>3, HeldNext

(* What Act does, on the lookahead or on a token that is not in the text.   *)
ActsAside(tok, isReal) == ActsOn(tok, isReal) /\ (isReal = FALSE => tok.at = 0)

LEMMA ActHolds ==
  ASSUME Parsing, NoForksOn(RecoverTerms), Held, mode = "parse",
         NEW tok, NEW isReal, Act(tok, isReal), ActsAside(tok, isReal)
  PROVE  Held'
  <1>1. phase = "ready" /\ Built /\ AlwaysInv /\ LexerOK /\ IsStack(stack)
    BY DEF Parsing, ParserInv, Driving
  <1>2. PICK p \in 1..Len(states) : p = Top(stack).state /\ Row = action[p]
    BY <1>1, StackTop DEF Row
  <1>3. PICK t : t = tok.type
    OBVIOUS
  <1>4. PICK e : e = Entry(action[p], t) /\ e = Entry(Row, tok.type)
    BY <1>2, <1>3
  <1>5. e.kind \in {"shift", "reduce", "accept"} => t \in TermsEOF /\ e \in KeptOf(action[p][t])
    <2> SUFFICES ASSUME e.kind \in {"shift", "reduce", "accept"}
                 PROVE  t \in TermsEOF /\ e \in KeptOf(action[p][t])
      OBVIOUS
    <2>1. t \in TermsEOF /\ e = action[p][t]
      BY <1>1, <1>2, <1>4, EntryIs
    <2>2. KeptOf(e) = {e}
      BY KeptShape
    <2> QED
      BY <2>1, <2>2
  <1>6. PICK s, now : s = stack /\ now = realTok
    OBVIOUS
  <1>7. PICK S, T : S = HeldTo(ignored, now.at - 1) /\ T = HeldTo(ignored, offset - 1)
    OBVIOUS
  <1>8. StandsAt(now, offset, ignored) /\ StackHolds(s, S)
    BY <1>6, <1>7 DEF Held
  <1>9. now.at \in Nat \ {0} /\ \A i \in ignored : i \in Nat /\ i < offset
    BY <1>8, StandsBefore
  <1>10. S \subseteq Seq(Nat)
    BY <1>7, HeldIsSeqs
  <1>13. CASE e.kind = "shift" /\ ShiftTok(tok, isReal, e.to)
    <2>1. t # EOF
      BY <1>1, <1>5, <1>13, ShiftIsAMove
    <2>2. PICK f : f = [state |-> e.to, value |-> Leaf(tok), span |-> RealSpan(tok)]
      OBVIOUS
    <2>3. PICK s2 : s2 = stack' /\ Pushed(s2, s, f)
      BY <1>6, <1>13, <2>2 DEF ShiftTok, Pushed
    <2>4. mode' = "parse"
      BY <1>13 DEF ShiftTok
    <2>5. PICK x : x = RealSpan(tok) /\ f.span = x
      BY <2>2
    <2>6. CASE tok = realTok /\ isReal = TRUE
      <3>1. tok = now /\ tok.type # EOF
        BY <1>3, <1>6, <2>1, <2>6
      <3>2. \A y \in S : y \o x \in T
        BY <1>7, <1>8, <2>5, <3>1, TokenTakes
      <3>3. x \in Seq(Nat)
        <4>1. PICK y : y \in S
          BY <1>8 DEF StackHolds
        <4> QED
          BY <1>7, <1>8, <2>5, <3>1, <4>1, TokenTakes
      <3>4. StackHolds(s2, T)
        BY <1>8, <2>3, <2>5, <3>2, <3>3, HeldPushes
      <3>5. PICK row : Advances(row)
        BY <1>13, <2>6 DEF ShiftTok, Relexes
      <3> QED
        BY <1>1, <1>7, <1>9, <2>3, <2>4, <3>4, <3>5, AdvancesHolds
    <2>7. CASE isReal = FALSE
      <3>1. tok.at = 0
        BY <2>7 DEF ActsAside
      <3>2. \A y \in S : y \o x \in S
        <4> SUFFICES ASSUME NEW y \in S PROVE y \o x \in S
          OBVIOUS
        <4>1. y \in Seq(Nat)
          BY <1>10
        <4>2. y \o x = y
          BY <2>5, <3>1, <4>1, InsertedTakes
        <4> QED
          BY <4>2
      <3>3. x \in Seq(Nat)
        <4>1. PICK none \in Seq(Nat) : none = <<>>
          <5>1. PICK none : none = <<>>
            OBVIOUS
          <5>2. none \in Seq(Nat)
            BY <5>1
          <5> QED
            BY <5>1, <5>2
        <4> QED
          BY <2>5, <3>1, InsertedTakes
      <3>4. StackHolds(s2, S)
        BY <1>8, <2>3, <2>5, <3>2, <3>3, HeldPushes
      <3>5. CASE now.type = ERROR
        <4>1. S = T
          BY <1>7, <1>8, <3>5 DEF StandsAt
        <4>2. PICK row : Advances(row)
          BY <1>6, <1>13, <3>5 DEF ShiftTok, Relexes
        <4>3. StackHolds(s2, T)
          BY <3>4, <4>1
        <4> QED
          BY <1>1, <1>7, <1>9, <2>3, <2>4, <4>2, <4>3, AdvancesHolds
      <3>6. CASE now.type # ERROR
        <4>1. now = realTok' /\ offset = offset' /\ ignored = ignored'
          BY <1>6, <1>13, <2>7, <3>6 DEF ShiftTok, Relexes, KeepsToken
        <4>2. PICK o, d : o = offset /\ d = ignored
          OBVIOUS
        <4>3. StandsAt(now, o, d) /\ StackHolds(s2, HeldTo(d, now.at - 1)) /\ o = offset' /\ d = ignored'
          BY <1>7, <1>8, <3>4, <4>1, <4>2
        <4> QED
          BY <2>3, <2>4, <4>1, <4>3, HeldNext
      <3> QED
        BY <3>5, <3>6
    <2> QED
      BY <2>6, <2>7 DEF ActsAside, ActsOn
  <1>14. CASE e.kind = "reduce" /\ ReduceBy(e.rule)
    <2>1. PICK n : n = Len(gram[e.rule].rhs)
      OBVIOUS
    <2>2. PICK K, c : IsRead(K, s, c) /\ K = Anything
      BY <1>1, <1>6, StackIsRead
    <2>3. PICK l \in Nat : l = Len(s) /\ l > 0 /\ p = s[l].state
      BY <1>2, <1>6, <2>2 DEF IsRead, Top
    <2>4. gram \in Grammars /\ Closed(K, {0})
      BY <1>1, <2>2, AnythingIsClosed DEF Built, LR0Inv, LR0TypeOK
    <2>5. PICK m \in 1..l :
            /\ m = l - n
            /\ goto[s[m].state][gram[e.rule].lhs] # 0
      BY <1>1, <1>5, <2>2, <2>3, <2>4, <1>14, <2>1, ReduceOnRead
    <2>6. PICK b : b = SubSeq(s, 1, m)
      OBVIOUS
    <2>7. PICK d : d = SubSeq(c, 1, m)
      OBVIOUS
    <2>8. Len(b) = m /\ b[m] = s[m]
      BY <2>2, <2>3, <2>6, <2>7, ReadPops
    <2>9. n \in Nat
      <3>1. e.rule \in 1..Len(gram)
        BY <1>1, <1>5, <1>14, ReduceIsComplete
      <3> QED
        BY <2>1, <3>1, GrammarShape DEF Built, LR0Inv, LR0TypeOK
    <2>10. PICK to : to = goto[s[m].state][gram[e.rule].lhs]
      OBVIOUS
    <2>11. PICK kids : kids = SubSeq(s, Len(s) - n + 1, Len(s))
      OBVIOUS
    <2>12. PICK f : f = [state |-> to, value |-> RuleValue(e.rule, kids), span |-> SpanOf(kids)]
      OBVIOUS
    <2>13. b = SubSeq(s, 1, Len(s) - n) /\ to = goto[Top(b).state][gram[e.rule].lhs] /\ to # 0
      BY <2>3, <2>5, <2>6, <2>8, <2>10 DEF Top
    <2>14. stack' = Append(b, f) /\ mode' = "parse" /\ KeepsToken
      BY <1>6, <1>14, <2>1, <2>11, <2>12, <2>13 DEF ReduceBy, GotoFrom
    <2>15. PICK s2 : s2 = stack' /\ s2 = Append(b, f)
      BY <2>14
    <2>16. f.span = SpanOf(kids)
      BY <2>12
    <2>17. n < Len(s)
      BY <2>3, <2>5, <2>9
    <2>18. Splices(s2, s, f, n)
      BY <2>11, <2>13, <2>15, <2>16, <2>17 DEF Splices
    <2>19. StackHolds(s2, S)
      BY <1>8, <2>9, <2>18, HeldReduces
    <2>20. PICK o, g : o = offset /\ g = ignored
      OBVIOUS
    <2>21. now = realTok' /\ o = offset' /\ g = ignored'
      BY <1>6, <2>14, <2>20 DEF KeepsToken
    <2>22. StandsAt(now, o, g) /\ StackHolds(s2, HeldTo(g, now.at - 1))
      BY <1>7, <1>8, <2>19, <2>20
    <2> QED
      BY <2>14, <2>15, <2>21, <2>22, HeldNext
  <1>15. CASE e.kind = "accept" /\ AcceptNow
    BY <1>15 DEF AcceptNow, Held
  <1>16. CASE e.kind = "conflict" /\ EnterFork(tok)
    <2>1. p \in 1..Len(action)
      BY <1>1 DEF AlwaysInv, Filled
    <2>2. tok = now \/ (tok.at = 0 /\ tok.type = EOF)
      BY <1>3, <1>4, <1>6, <1>16, <2>1 DEF ActsAside, ActsOn, NoForksOn
    <2>3. PICK o, g : o = offset /\ g = ignored
      OBVIOUS
    <2>4. mode' = "fork" /\ forkTok' = tok /\ now = realTok' /\ s = stack' /\ o = offset' /\ g = ignored'
      BY <1>6, <1>16, <2>3 DEF EnterFork, KeepsToken
    <2>5. now.at # 0
      BY <1>9
    <2>6. Awaited' = now
      BY <2>2, <2>4, <2>5 DEF Awaited
    <2>7. StandsAt(now, o, g) /\ StackHolds(s, HeldTo(g, now.at - 1)) /\ (tok.at = 0 => tok.type = EOF)
      BY <1>7, <1>8, <2>2, <2>3, <2>5
    <2> QED
      BY <2>4, <2>6, <2>7 DEF Held
  <1>17. CASE e.kind = "ignore" /\ InternalError
    BY <1>17 DEF InternalError, Held
  <1> QED
    BY <1>4, <1>13, <1>14, <1>15, <1>16, <1>17 DEF Act

LEMMA CallHolds ==
  ASSUME Untouched, Call
  PROVE  Held'
  <1>1. mode' = "lex" /\ offset' = 1 /\ ignored' = {}
    BY DEF Call, Untouched
  <1>2. PICK f : f = [state |-> 1, value |-> Undefined, span |-> <<>>]
    OBVIOUS
  <1>3. PICK s, none : s = stack' /\ s = <<f>> /\ none = <<>>
    BY <1>2 DEF Call
  <1>4. StackHolds(s, {none})
    <2>1. f.span = <<>>
      BY <1>2
    <2> QED
      BY <1>3, <2>1, StackBegins
  <1>5. \A x \in {none} : x \in HeldTo({}, 0)
    BY <1>3, HeldFromNone
  <1>6. PICK d : d = ignored' /\ d = {}
    BY <1>1
  <1>7. StackHolds(s, HeldTo(d, 0))
    BY <1>4, <1>5, <1>6, StackHoldsMore
  <1>8. PICK o \in Nat : o = offset' /\ o - 1 = 0
    BY <1>1
  <1> QED
    BY <1>1, <1>3, <1>6, <1>7, <1>8 DEF Held

LEMMA HoldingStep ==
  ASSUME Parsing, Holding, [LRParserNext]_lrParserVars, mode \notin {"fork", "forking"}
  PROVE  Untouched' /\ (NoForksOn(RecoverTerms)' => Held')
  <1>1. ASSUME UNCHANGED parserVars
        PROVE  Untouched' /\ (NoForksOn(RecoverTerms)' => Held')
    <2>1. [UnitGotosNext]_actionTableVars
      BY DEF LRParserNext, lrParserVars
    <2>2. CASE mode = "idle"
      BY <1>1, <2>2 DEF parserVars, Holding, Untouched, Held
    <2>3. CASE mode # "idle"
      <3>1. phase = "ready"
        BY <2>3 DEF Parsing, ParserInv, Driving
      <3>2. UNCHANGED actionTableVars
        BY <2>1, <3>1, ReadyStays DEF Parsing
      <3>3. UNCHANGED input
        BY <1>1 DEF parserVars
      <3>4. NoForksOn(RecoverTerms)' <=> NoForksOn(RecoverTerms)
        BY <3>2, <3>3, TextStands
      <3>5. UNCHANGED <<mode, offset, ignored, stack, realTok>>
        BY <1>1 DEF parserVars
      <3>6. Held => Held'
        BY <3>5 DEF Held
      <3> QED
        BY <3>4, <3>5, <3>6 DEF Holding, Untouched
    <2> QED
      BY <2>2, <2>3
  <1>2. ASSUME ParserNext, UNCHANGED actionTableVars
        PROVE  Untouched' /\ (NoForksOn(RecoverTerms)' => Held')
    <2>1. CASE Call
      <3>1. Untouched
        BY DEF Holding
      <3>2. Held'
        BY <2>1, <3>1, CallHolds
      <3>3. Untouched'
        BY <2>1, <3>1 DEF Call, Untouched
      <3> QED
        BY <3>2, <3>3
    <2>2. CASE ~Call
      <3>1. mode' \notin {"idle", "lex"} /\ UNCHANGED input
        BY <1>2, <2>2 DEF ParserNext, LexFirst, StepReal, StepSyntheticEnd, StepRecover, Fail, Act, ShiftTok,
                          ReduceBy, AcceptNow, EnterFork, InternalError
      <3>2. NoForksOn(RecoverTerms)' <=> NoForksOn(RecoverTerms)
        BY <1>2, <3>1, TextStands
      <3>3. ASSUME NoForksOn(RecoverTerms) PROVE Held'
        <4>0. Held /\ LexerOK
          BY <3>3 DEF Holding, Parsing, ParserInv
        <4>1. CASE LexFirst
          <5>1. mode = "lex" /\ mode' = "parse" /\ Advances(action[1])
            BY <4>1 DEF LexFirst
          <5>2. PICK s, row : s = stack /\ s = stack' /\ row = action[1]
            BY <4>1 DEF LexFirst
          <5>3. \A i \in ignored : i \in Nat /\ i < offset
            BY <5>1 DEF Holding, Untouched
          <5>4. StackHolds(s, HeldTo(ignored, offset - 1))
            BY <4>0, <5>1, <5>2 DEF Held
          <5> QED
            BY <4>0, <5>1, <5>2, <5>3, <5>4, AdvancesHolds
        <4>2. CASE StepReal
          <5>1. PICK tok, isReal : tok = realTok /\ isReal = TRUE
            OBVIOUS
          <5>2. mode = "parse" /\ Act(tok, isReal) /\ ActsAside(tok, isReal)
            BY <4>2, <5>1 DEF StepReal, ActsAside, ActsOn
          <5> QED
            BY <3>3, <4>0, <5>2, ActHolds
        <4>3. CASE StepSyntheticEnd
          <5>1. PICK tok, isReal : tok = [type |-> EOF, at |-> 0] /\ isReal = FALSE
            OBVIOUS
          <5>2. mode = "parse" /\ Act(tok, isReal) /\ prefixMode
            BY <4>3, <5>1 DEF StepSyntheticEnd, SyntheticEnd
          <5>3. ActsAside(tok, isReal)
            BY <5>1, <5>2 DEF ActsAside, ActsOn
          <5> QED
            BY <3>3, <4>0, <5>2, <5>3, ActHolds
        <4>4. CASE StepRecover
          <5>1. PICK t \in RecoverTerms : Act([type |-> t, at |-> 0], FALSE)
            BY <4>4 DEF StepRecover
          <5>2. PICK tok, isReal : tok = [type |-> t, at |-> 0] /\ isReal = FALSE
            OBVIOUS
          <5>3. mode = "parse" /\ Act(tok, isReal)
            BY <4>4, <5>1, <5>2 DEF StepRecover
          <5>4. ActsAside(tok, isReal)
            BY <5>2 DEF ActsAside, ActsOn
          <5> QED
            BY <3>3, <4>0, <5>3, <5>4, ActHolds
        <4>5. CASE Fail
          BY <4>5 DEF Fail, Held
        <4> QED
          BY <1>2, <2>2, <4>1, <4>2, <4>3, <4>4, <4>5 DEF ParserNext
      <3> QED
        BY <3>1, <3>2, <3>3 DEF Untouched
    <2> QED
      BY <2>1, <2>2
  <1> QED
    BY <1>1, <1>2 DEF LRParserNext, lrParserVars

(* A step of runParser leaves a fork that is on as it is.                   *)
LEMMA ParserHolds ==
  ASSUME Parsing, Holding, [LRParserNext]_lrParserVars, UNCHANGED fork
  PROVE  Holding'
  <1>1. CASE mode \in {"fork", "forking"}
    <2>1. UNCHANGED lrParserVars
      BY <1>1, ParserWaits
    <2>2. UNCHANGED <<actionTableVars, input, mode, offset, ignored, stack, realTok, forkTok, fork>>
      BY <2>1 DEF lrParserVars, parserVars
    <2>3. NoForksOn(RecoverTerms)' <=> NoForksOn(RecoverTerms)
      BY <2>2, TextStands
    <2>4. Spread => Spread'
      BY <2>2 DEF Spread, Awaited
    <2>5. Held => Held'
      BY <2>2, <2>4 DEF Held, Awaited
    <2> QED
      BY <2>2, <2>3, <2>5 DEF Holding, Untouched
  <1>2. CASE mode \notin {"fork", "forking"}
    BY <1>2, HoldingStep DEF Holding
  <1> QED
    BY <1>1, <1>2
-----------------------------------------------------------------------------
LEMMA SpreadNext ==
  ASSUME mode' = "forking", NEW gk, gk = fork', NEW t, t = forkTok', NEW r, r = realTok',
         NEW o, o = offset', NEW d, d = ignored', NEW a, a = IF t.at = 0 THEN r ELSE t,
         t.at = 0 => t.type = EOF, StandsAt(a, o, d),
         NEW u, Spanned(gk, u, HeldTo(d, a.at - 1), Behind(t, o, d))
  PROVE  Held'
  <1>1. Awaited' = a
    BY DEF Awaited
  <1>2. Spread'
    BY <1>1 DEF Spread
  <1> QED
    BY <1>1, <1>2 DEF Held

(* Past the pending token once, with what each frame held and that token.   *)
LEMMA AwaitedMoves ==
  ASSUME mode = "forking", Held, NEW S, S = HeldTo(ignored, Awaited.at - 1),
         NEW tok, tok = forkTok, NEW T, T = Behind(tok, offset, ignored)
  PROVE  TokenMoves(S, T, tok)
  <1>1. S \subseteq Seq(Nat)
    BY HeldIsSeqs
  <1>2. ASSUME NEW s \in S, tok.type # EOF PROVE RealSpan(tok) \in Seq(Nat) /\ s \o RealSpan(tok) \in T
    <2>1. Awaited = tok /\ StandsAt(tok, offset, ignored)
      BY <1>2 DEF Held, Awaited
    <2>2. s \in HeldTo(ignored, tok.at - 1) /\ T = HeldTo(ignored, offset - 1)
      BY <1>2, <2>1 DEF Behind
    <2> QED
      BY <1>2, <2>1, <2>2, TokenTakes
  <1> QED
    BY <1>1, <1>2 DEF TokenMoves

LEMMA StartHolds ==
  ASSUME GlrInv, ForkNext, ForkStart, Held
  PROVE  Held'
  <1>1. PICK t, r, o, d : t = forkTok /\ r = realTok /\ o = offset /\ d = ignored
    OBVIOUS
  <1>2. mode = "fork" /\ mode' = "forking" /\ t = forkTok' /\ r = realTok' /\ o = offset' /\ d = ignored'
    BY <1>1 DEF ForkStart, KeepsToken
  <1>3. PICK a : a = IF t.at = 0 THEN r ELSE t
    OBVIOUS
  <1>4. Awaited = a
    BY <1>1, <1>3 DEF Awaited
  <1>5. PICK s, S, T : s = stack /\ S = HeldTo(d, a.at - 1) /\ T = Behind(t, o, d)
    OBVIOUS
  <1>6. /\ t.at = 0 => t.type = EOF
        /\ StandsAt(a, o, d) /\ StackHolds(s, S)
    BY <1>1, <1>2, <1>4, <1>5 DEF Held
  <1>7. Len(s) \in Nat \ {0}
    <2>1. IsStack(s)
      BY <1>5, InFork
    <2> QED
      BY <2>1, StackShape
  <1>8. PICK gk : gk = fork'
    OBVIOUS
  <1>9. StartSpans(gk, s)
    BY <1>5, <1>8 DEF ForkStart, StartSpans
  <1>10. PICK u : Spanned(gk, u, S, T)
    BY <1>6, <1>7, <1>9, StartSpanned
  <1> QED
    BY <1>2, <1>3, <1>5, <1>6, <1>8, <1>10, SpreadNext

LEMMA SweepHolds ==
  ASSUME GlrInv, ForkNext, SkipSuperseded \/ FollowPath \/ RecoverPath \/ LosePath, Held
  PROVE  Held'
  <1>1. PICK t, r, o, d : t = forkTok /\ r = realTok /\ o = offset /\ d = ignored
    OBVIOUS
  <1>2. mode = "forking" /\ mode' = "forking" /\ t = forkTok' /\ r = realTok' /\ o = offset' /\ d = ignored'
    BY <1>1 DEF SkipSuperseded, FollowPath, RecoverPath, LosePath, Working, Sweeping, StaysInFork, KeepsToken
  <1>3. PICK a : a = IF t.at = 0 THEN r ELSE t
    OBVIOUS
  <1>4. Awaited = a
    BY <1>1, <1>3 DEF Awaited
  <1>5. PICK S, T : S = HeldTo(d, a.at - 1) /\ T = Behind(t, o, d)
    OBVIOUS
  <1>6. /\ t.at = 0 => t.type = EOF
        /\ StandsAt(a, o, d) /\ \E u : Spanned(fork, u, S, T)
    BY <1>1, <1>2, <1>4, <1>5 DEF Held, Spread
  <1>7. PICK u : Spanned(fork, u, S, T)
    BY <1>6
  <1>8. PICK K, L : K = Anything /\ L = {0}
    OBVIOUS
  <1>9. PICK at : Forked(fork, K, at, L, L)
    BY <1>2, <1>8 DEF GlrInv, Forking, Forks
  <1>10. Steers(K, L, L, L, t)
    BY <1>8, InFork, AnythingSteers
  <1>11. TokenMoves(S, T, t)
    BY <1>1, <1>2, <1>4, <1>5, AwaitedMoves
  <1>12. PICK gk : gk = fork'
    OBVIOUS
  <1>13. PICK w : Spanned(gk, w, S, T)
    BY <1>1, <1>7, <1>9, <1>10, <1>11, <1>12, InFork, SweepSpan
  <1> QED
    BY <1>2, <1>3, <1>5, <1>6, <1>12, <1>13, SpreadNext

(* When all have shifted the token, what is left holds it.                  *)
LEMMA LeftHolds ==
  ASSUME GlrInv, ForkNext, Swept, ~NoneLeft, Held
  PROVE  /\ \A i \in ignored : i \in Nat /\ i < offset
         /\ \E R, w : R = HeldTo(ignored, offset - 1) /\ Spanned(Survivors, w, R, R)
  <1>1. mode = "forking" /\ forkTok.type # EOF
    BY DEF Swept, NoneLeft
  <1>2. PICK S, T : S = HeldTo(ignored, Awaited.at - 1) /\ T = Behind(forkTok, offset, ignored)
    OBVIOUS
  <1>3. PICK u : Spanned(fork, u, S, T)
    BY <1>1, <1>2 DEF Held, Spread
  <1>4. \E w : Spanned(Survivors, w, T, T)
    BY <1>3, SurvivorsSpanned
  <1>5. T = HeldTo(ignored, offset - 1)
    BY <1>1, <1>2 DEF Behind
  <1>6. StandsAt(Awaited, offset, ignored)
    BY <1>1 DEF Held
  <1> QED
    BY <1>4, <1>5, <1>6, StandsBefore

LEMMA AdvanceHolds ==
  ASSUME GlrInv, ForkNext, ForkAdvance, Held
  PROVE  Held'
  <1>1. mode = "forking" /\ mode' = "forking" /\ Swept /\ ~NoneLeft
    BY DEF ForkAdvance, Swept
  <1>2. PICK R, w : /\ R = HeldTo(ignored, offset - 1) /\ Spanned(Survivors, w, R, R)
                    /\ \A i \in ignored : i \in Nat /\ i < offset
    BY <1>1, LeftHolds
  <1>3. PICK row : row = UnionRow(Survivors)
    OBVIOUS
  <1>4. PICK t, r, o, d : t = forkTok' /\ r = realTok' /\ o = offset' /\ d = ignored'
    OBVIOUS
  <1>5. t = Lexed(row).tok /\ o = Lexed(row).next /\ d = Dropping(row)
    BY <1>3, <1>4 DEF ForkAdvance, Dropping
  <1>6. StandsAt(t, o, d) /\ \A s \in R : s \in HeldTo(d, t.at - 1)
    BY <1>2, <1>5, LexedOn, InFork
  <1>7. t.at # 0
    BY <1>6 DEF StandsAt
  <1>8. PICK fk : fk = Survivors /\ fk.shifted = <<>>
    <2>1. PICK K, L : K = Anything /\ L = {0}
      OBVIOUS
    <2>2. PICK at : Forked(fork, K, at, L, L)
      BY <1>1, <2>1 DEF GlrInv, Forking, Forks
    <2>3. L \subseteq Nat
      BY <2>1
    <2> QED
      BY <1>1, <2>2, <2>3, SurvivorsForked
  <1>9. PICK gk : gk = fork' /\ gk = [fk EXCEPT !.worklist = fk.active]
    BY <1>8 DEF ForkAdvance
  <1>10. PICK S, T : S = HeldTo(d, t.at - 1) /\ T = Behind(t, o, d)
    OBVIOUS
  <1>11. Spanned(fk, w, R, R) /\ \A s \in R : s \in S
    BY <1>2, <1>6, <1>8, <1>10
  <1>12. Spanned(gk, w, S, T)
    BY <1>8, <1>9, <1>11, RelistedSpan
  <1>13. PICK a : a = IF t.at = 0 THEN r ELSE t
    OBVIOUS
  <1>14. a = t
    BY <1>7, <1>13
  <1> QED
    BY <1>1, <1>4, <1>6, <1>7, <1>9, <1>10, <1>12, <1>13, <1>14, SpreadNext

LEMMA SettleHolds ==
  ASSUME GlrInv, ForkNext, ForkSettles, Held
  PROVE  Held'
  <1>1. mode = "forking" /\ mode' = "parse" /\ Swept /\ ~NoneLeft
    BY DEF ForkSettles, Swept
  <1>2. PICK R, w : /\ R = HeldTo(ignored, offset - 1) /\ Spanned(Survivors, w, R, R)
                    /\ \A i \in ignored : i \in Nat /\ i < offset
    BY <1>1, LeftHolds
  <1>3. PICK K, L : K = Anything /\ L = {0}
    OBVIOUS
  <1>4. PICK at : Forked(fork, K, at, L, L)
    BY <1>1, <1>3 DEF GlrInv, Forking, Forks
  <1>5. PICK fk, bt : fk = Survivors /\ Forked(fk, K, bt, L, L)
    <2>1. L \subseteq Nat
      BY <1>3
    <2> QED
      BY <1>1, <1>4, <2>1, SurvivorsForked
  <1>6. Len(fk.active) = 1
    BY <1>5 DEF ForkSettles
  <1>7. PICK path : path = fk.active[1]
    OBVIOUS
  <1>8. path \in 1..Len(fk.frames) /\ w[path] \in R
    <2>1. PICK q : q = fk.active /\ AllAt(q, Len(fk.frames), w, R)
      BY <1>2, <1>5 DEF Spanned
    <2>2. PICK n \in Nat : n = Len(fk.frames)
      <3>1. SpansOK(fk.frames, w)
        BY <1>2, <1>5 DEF Spanned
      <3>2. Len(fk.frames) \in Nat
        BY <3>1, SpansShape
      <3> QED
        BY <3>2
    <2>3. q \in Seq(1..n) /\ \A k \in 1..Len(q) : w[q[k]] \in R
      BY <2>1, <2>2 DEF AllAt
    <2>4. PICK l : l = Len(q) /\ l = 1
      BY <1>6, <2>1
    <2>5. 1 \in 1..l
      BY <2>4
    <2>6. w[q[1]] \in R
      BY <2>3, <2>4, <2>5
    <2>7. q[1] \in 1..n
      <3>1. Closed(K, {0}) /\ 1 \in 1..Len(fk.active)
        BY <1>3, <1>6, InFork, AnythingIsClosed
      <3>2. fk.active[1] \in 1..Len(fk.frames)
        BY <1>5, <3>1, ActiveStates, InFork
      <3> QED
        BY <2>1, <2>2, <3>2
    <2> QED
      BY <1>7, <2>1, <2>2, <2>6, <2>7
  <1>9. FramesOK(fk.frames, K, bt) /\ SpansOK(fk.frames, w)
    BY <1>2, <1>5 DEF Forked, Spanned
  <1>10. PICK chain : chain = Chain(fk, path)
    OBVIOUS
  <1>11. StackHolds(chain, R)
    BY <1>8, <1>9, <1>10, ChainHolds
  <1>12. PICK s, row : s = stack' /\ row = action[Top(chain).state]
    OBVIOUS
  <1>13. Unwinds(s, chain, fk, K, bt, path) /\ Advances(row)
    BY <1>5, <1>7, <1>8, <1>9, <1>10, <1>12 DEF ForkSettles, Unwinds
  <1>14. StackHolds(s, R)
    BY <1>11, <1>13, UnwoundHolds
  <1>15. StackHolds(s, HeldTo(ignored, offset - 1))
    BY <1>2, <1>14
  <1> QED
    BY <1>1, <1>2, <1>12, <1>13, <1>15, InFork, AdvancesHolds

LEMMA ForkHolds ==
  ASSUME GlrInv, ForkNext, Holding
  PROVE  Holding'
  <1>1. UNCHANGED <<actionTableVars, input>> /\ mode \in {"fork", "forking"}
    BY InFork
  <1>2. NoForksOn(RecoverTerms)' <=> NoForksOn(RecoverTerms)
    BY <1>1, TextStands
  <1>3. mode' \notin {"idle", "lex"}
    BY <1>1 DEF ForkNext, ForkStart, SkipSuperseded, FollowPath, RecoverPath, LosePath, ForkExhausted, ForkAccepts,
                ForkDies, ForkAdvance, ForkSettles, StaysInFork
  <1>4. ASSUME Held PROVE Held'
    <2>1. CASE ForkExhausted \/ ForkAccepts \/ ForkDies
      BY <2>1 DEF ForkExhausted, ForkAccepts, ForkDies, Held
    <2> QED
      BY <1>4, <2>1, StartHolds, SweepHolds, AdvanceHolds, SettleHolds DEF ForkNext
  <1> QED
    BY <1>2, <1>3, <1>4 DEF Holding, Untouched

LEMMA HoldingAlways == GlrForkSpec => [](GlrInv /\ Holding)
  <1>1. GlrForkInit => Holding
    BY DEF GlrForkInit, LRParserInit, ParserInit, Holding, Untouched, Held
  <1>2. GlrInv /\ Holding /\ [GlrForkNext]_glrForkVars => Holding'
    <2> SUFFICES ASSUME GlrInv, Holding, [GlrForkNext]_glrForkVars PROVE Holding'
      OBVIOUS
    <2>1. CASE [LRParserNext]_lrParserVars /\ UNCHANGED fork
      BY <2>1, ParserHolds DEF GlrInv
    <2>2. CASE ForkNext
      BY <2>2, ForkHolds
    <2>3. (LRParserNext /\ UNCHANGED fork) \/ ForkNext \/ UNCHANGED glrForkVars
      BY DEF GlrForkNext
    <2>4. UNCHANGED glrForkVars => UNCHANGED lrParserVars /\ UNCHANGED fork
      BY DEF glrForkVars
    <2> QED
      BY <2>1, <2>2, <2>3, <2>4
  <1> QED
    BY <1>1, <1>2, GlrAlways, PTL DEF GlrForkSpec
-----------------------------------------------------------------------------
LEMMA HoldingTheInput ==
  ASSUME Held
  PROVE  NoLexemeIsLost
  <1> SUFFICES ASSUME mode = "parse" PROVE NoLexemeIsLost
    BY DEF NoLexemeIsLost
  <1>1. StandsAt(realTok, offset, ignored) /\ StackHolds(stack, HeldTo(ignored, realTok.at - 1))
    BY DEF Held
  <1>2. SpanOf(stack) \in HeldTo(ignored, realTok.at - 1)
    BY <1>1, StackSpells
  <1>3. PICK n : n = (IF realTok.type = EOF THEN offset ELSE realTok.at) - 1
    OBVIOUS
  <1>4. n = realTok.at - 1
    BY <1>1, <1>3 DEF StandsAt
  <1>5. PICK held : held = SpanOf(stack)
    OBVIOUS
  <1>6. held \in HeldTo(ignored, n)
    BY <1>2, <1>4, <1>5
  <1>7. /\ ToSet(held) = (1..n) \ ignored
        /\ \A i, j \in 1..Len(held) : i < j => held[i] < held[j]
    BY <1>6 DEF HeldTo
  <1> QED
    BY <1>3, <1>5, <1>7 DEF NoLexemeIsLost

(* What a list of frames holds, by the chains down from them.               *)
LEMMA ListHolds ==
  ASSUME NEW fk, NEW K, NEW at, NEW L, NEW M, Forked(fk, K, at, L, M),
         NEW u, NEW S, NEW T, Spanned(fk, u, S, T), NEW q, NEW dropped, NEW e,
         AllAt(q, Len(fk.frames), u, HeldTo(dropped, e)), NEW j \in 1..Len(q), NEW id, id = q[j]
  PROVE  ToSet(SpanOf(Chain(fk, id))) = (1..e) \ dropped
  <1>1. SpansOK(fk.frames, u) /\ FramesOK(fk.frames, K, at)
    BY DEF Spanned, Forked
  <1>0. PICK R : R = HeldTo(dropped, e)
    OBVIOUS
  <1>2. PICK m \in Nat : m = Len(fk.frames)
    <2>1. Len(fk.frames) \in Nat
      BY <1>1, SpansShape
    <2> QED
      BY <2>1
  <1>3. q \in Seq(1..m) /\ u[q[j]] \in R
    BY <1>0, <1>2 DEF AllAt
  <1>4. PICK path : path = id /\ u[path] \in R
    BY <1>3
  <1>5. path \in 1..m
    <2>1. \A k \in 1..Len(q) : q[k] \in 1..m
      BY <1>3
    <2> QED
      BY <1>4, <2>1
  <1>6. path \in 1..Len(fk.frames)
    BY <1>2, <1>5
  <1>7. PICK chain : chain = Chain(fk, path)
    OBVIOUS
  <1>8. StackHolds(chain, R)
    BY <1>1, <1>4, <1>6, <1>7, ChainHolds
  <1>9. SpanOf(chain) \in R
    BY <1>8, StackSpells
  <1>10. PICK held : held = SpanOf(chain) /\ held \in HeldTo(dropped, e)
    BY <1>0, <1>9
  <1>11. ToSet(held) = (1..e) \ dropped
    BY <1>10 DEF HeldTo
  <1> QED
    BY <1>4, <1>7, <1>10, <1>11

LEMMA HoldingInStep ==
  ASSUME Forking, Held
  PROVE  DerivationsRunInStep
  <1> SUFFICES ASSUME mode = "forking" PROVE DerivationsRunInStep
    BY DEF DerivationsRunInStep
  <1>1. PICK S, T : S = HeldTo(ignored, Awaited.at - 1) /\ T = Behind(forkTok, offset, ignored)
    OBVIOUS
  <1>2. PICK u : Spanned(fork, u, S, T)
    BY <1>1 DEF Held, Spread
  <1>3. PICK K, L : K = Anything /\ L = {0}
    OBVIOUS
  <1>4. PICK at : Forked(fork, K, at, L, L)
    BY <1>3 DEF Forking, Forks
  <1>5. PICK q, p : q = fork.active /\ p = fork.shifted
    OBVIOUS
  <1>6. AllAt(q, Len(fork.frames), u, S) /\ AllAt(p, Len(fork.frames), u, T) /\ KeysApart(fork.frames, q)
    BY <1>2, <1>5 DEF Spanned
  <1>7. \A j, k \in 1..Len(q) : j # k => ~SameKey(fork.frames[q[j]], fork.frames[q[k]])
    BY <1>6 DEF KeysApart
  <1>8. ASSUME NEW j \in 1..Len(q) PROVE ToSet(SpanBelow(q[j])) = (1..(Awaited.at - 1)) \ ignored
    <2>1. PICK fk, e, d, id : fk = fork /\ e = Awaited.at - 1 /\ d = ignored /\ id = q[j]
      OBVIOUS
    <2>2. Forked(fk, K, at, L, L) /\ Spanned(fk, u, S, T) /\ AllAt(q, Len(fk.frames), u, HeldTo(d, e))
      BY <1>1, <1>2, <1>4, <1>6, <2>1
    <2>3. ToSet(SpanOf(Chain(fk, id))) = (1..e) \ d
      BY <2>1, <2>2, ListHolds
    <2> QED
      BY <2>1, <2>3 DEF SpanBelow
  <1>9. ASSUME NEW j \in 1..Len(p) PROVE ToSet(SpanBelow(p[j])) = (1..(offset - 1)) \ ignored
    <2>1. PICK fk, e, d, id : fk = fork /\ e = offset - 1 /\ d = ignored /\ id = p[j]
      OBVIOUS
    <2>2. \A s \in T : s \in HeldTo(d, e)
      BY <1>1, <2>1 DEF Behind
    <2>3. AllAt(p, Len(fk.frames), u, HeldTo(d, e))
      BY <1>6, <2>1, <2>2 DEF AllAt
    <2>4. Forked(fk, K, at, L, L) /\ Spanned(fk, u, S, T)
      BY <1>2, <1>4, <2>1
    <2>5. ToSet(SpanOf(Chain(fk, id))) = (1..e) \ d
      BY <2>1, <2>3, <2>4, ListHolds
    <2> QED
      BY <2>1, <2>5 DEF SpanBelow
  <1> QED
    BY <1>5, <1>7, <1>8, <1>9 DEF DerivationsRunInStep

(* No lexeme is lost, and none is parsed twice: for every grammar, option   *)
(* and text, whatever recovery inserts, short of what starts a fork, and    *)
(* however forks multiply, merge and settle, the stack runParser goes on    *)
(* with holds what was lexed before the lookahead, each lexeme once and in  *)
(* order, less what the lexer ignored.                                      *)
THEOREM NothingLostNorTwice == GlrForkSpec => []StackHoldsTheInput
  <1>1. Holding => StackHoldsTheInput
    BY HoldingTheInput DEF Holding, StackHoldsTheInput
  <1> QED
    BY <1>1, HoldingAlways, PTL

(* The derivations of runGlrFork share one lexer and stay in step with it:  *)
(* in the middle of any sweep, all frames alive hold the text up to the     *)
(* token awaited, all that have shifted it hold it too, and no two alive    *)
(* are one (state, parent).                                                 *)
THEOREM ForksShareOneLexer == GlrForkSpec => []DerivationsRunInStep
  <1>1. GlrInv /\ Holding => DerivationsRunInStep
    <2> SUFFICES ASSUME GlrInv, Holding PROVE DerivationsRunInStep
      OBVIOUS
    <2>1. CASE NoForksOn(RecoverTerms)
      BY <2>1, HoldingInStep DEF GlrInv, Holding
    <2>2. CASE ~NoForksOn(RecoverTerms)
      BY <2>2 DEF DerivationsRunInStep
    <2> QED
      BY <2>1, <2>2
  <1> QED
    BY <1>1, HoldingAlways, PTL
=============================================================================
