------------------------------- MODULE BigInt -------------------------------
(***************************************************************************)
(* The arbitrary-precision integers of the runtime library                 *)
(* (examples/TS/lib/bigint.ts): sequences of limbs, the lowest first, read *)
(* as two's complement of as many bits as there are limbs.  A program      *)
(* keeps one integer and applies one operation after another to it; want   *)
(* is the integer it should be.                                            *)
(*                                                                         *)
(* A limb has LimbBits bits where the code's have 32, and a number in the  *)
(* code's arithmetic on limbs is exact, as its header asks of it.          *)
(***************************************************************************)
EXTENDS Integers, Sequences, SequencesExt, Bitwise

CONSTANTS
    LimbBits,       \* bits of a limb: 32
    Literals,       \* integers a program names
    MaxMagnitude,   \* a bound of the model: operations past it are not made
    MaxShift,       \* the largest shift and exponent
    MaxOperations   \* operations one after another

ASSUME BigIntAssumption ==
    /\ LimbBits \in Nat \ {0, 1} /\ MaxMagnitude \in Nat \ {0}
    /\ Literals \subseteq -MaxMagnitude .. MaxMagnitude /\ MaxShift \in Nat /\ MaxOperations \in Nat

VARIABLES
    acc,    \* the limbs of the program's integer
    want,   \* the integer they should stand for
    made    \* operations made

ivars == <<acc, want, made>>

Base == 2^LimbBits
Half == Base \div 2
Ones == Base - 1
Zeros(n) == [i \in 1 .. n |-> 0]
Larger(m, n) == IF m > n THEN m ELSE n
UpTo(n) == [i \in 1 .. n |-> i]
DownFrom(n) == [i \in 1 .. n |-> n + 1 - i]

-----------------------------------------------------------------------------
(* Limbs.                                                                  *)

bigSign(a) == a[Len(a)] >= Half
Extension(negative) == IF negative THEN Ones ELSE 0
Limb(a, i) == IF i <= Len(a) THEN a[i] ELSE Extension(bigSign(a))
Magnitude(a, i) == IF i <= Len(a) THEN a[i] ELSE 0

\* Limbs off the top that only repeat the sign of the one below.
bigTrim(a) ==
    LET Kept(n) == \A j \in n + 1 .. Len(a) : a[j] = Extension(a[j - 1] >= Half)
        shortest == CHOOSE n \in 1 .. Len(a) : Kept(n) /\ \A m \in 1 .. n - 1 : ~Kept(m)
    IN  [i \in 1 .. shortest |-> a[i]]

bigAdd(a, b, negb) ==
    LET Other(i) == IF negb THEN Ones - Limb(b, i) ELSE Limb(b, i)
        Step(r, i) ==
            LET sum == Limb(a, i) + Other(i) + r.carry
            IN  [carry |-> sum \div Base, limbs |-> Append(r.limbs, sum % Base)]
    IN  FoldLeft(Step, [carry |-> IF negb THEN 1 ELSE 0, limbs |-> <<>>],
                 UpTo(Larger(Len(a), Len(b)) + 1)).limbs

bigNeg(a) == bigAdd(<<0>>, a, TRUE)
bigApplySign(a, neg) == IF neg THEN bigNeg(a) ELSE a

\* A mutation: the sum of a column wraps without a carry.
AddWrapping(r, a, b, i) ==
    LET Column(row, j) ==
            LET prod == a[i] * b[j]
            IN  [limbs |-> [row.limbs EXCEPT ![i + j - 1] = (@ + (prod % Base) + row.carry) % Base],
                 carry |-> prod \div Base]
        row == FoldLeft(Column, [limbs |-> r, carry |-> 0], UpTo(Len(b)))
    IN  [row.limbs EXCEPT ![i + Len(b)] = (@ + row.carry) % Base]

\* One row of the schoolbook product, then the ripple of its last carry.
AddProduct(r, a, b, i) ==
    LET Column(row, j) ==
            LET prod == a[i] * b[j]
                t == row.limbs[i + j - 1] + (prod % Base) + row.carry
            IN  [limbs |-> [row.limbs EXCEPT ![i + j - 1] = t % Base],
                 carry |-> (prod \div Base) + (t \div Base)]
        Ripple(row, k) ==
            LET t == row.limbs[k] + row.carry
            IN  [limbs |-> [row.limbs EXCEPT ![k] = t % Base], carry |-> t \div Base]
        row == FoldLeft(Column, [limbs |-> r, carry |-> 0], UpTo(Len(b)))
    IN  FoldLeft(Ripple, row, [k \in 1 .. Len(r) - (i + Len(b) - 1) |-> i + Len(b) - 1 + k]).limbs
bigMulMag(a, b) ==
    FoldLeft(LAMBDA r, i : AddProduct(r, a, b, i), Zeros(Len(a) + Len(b) + 1), UpTo(Len(a)))

\* a >= b by magnitude, where a is the longer: the highest limb they differ in decides.
bigGeMag(a, b) ==
    LET differ == {i \in 1 .. Len(a) : a[i] # Magnitude(b, i)}
    IN  differ = {} \/ LET i == CHOOSE i \in differ : \A j \in differ : j <= i
                       IN  a[i] > Magnitude(b, i)
bigSubMag(a, b) ==
    LET Step(r, i) ==
            LET t == a[i] - Magnitude(b, i) - r.borrow
            IN  [borrow |-> IF t < 0 THEN 1 ELSE 0,
                 limbs |-> Append(r.limbs, IF t < 0 THEN t + Base ELSE t)]
    IN  FoldLeft(Step, [borrow |-> 0, limbs |-> <<>>], UpTo(Len(a))).limbs
bigShl1(a, bit) ==
    LET Step(r, i) == [carry |-> a[i] \div Half, limbs |-> Append(r.limbs, ((2 * a[i]) % Base) + r.carry)]
    IN  FoldLeft(Step, [carry |-> bit, limbs |-> <<>>], UpTo(Len(a))).limbs
bigPow2(k) == [Zeros((k \div LimbBits) + 2) EXCEPT ![(k \div LimbBits) + 1] = 2^(k % LimbBits)]

\* Restoring division, one bit of the dividend after another.
bigDivModMag(a, b, mod) ==
    LET Step(s, n) ==
            LET bit  == n - 1
                limb == (bit \div LimbBits) + 1
                off  == bit % LimbBits
                r    == bigShl1(s.r, (a[limb] \div 2^off) % 2)
            IN  IF bigGeMag(r, b)
                THEN [r |-> bigSubMag(r, b), q |-> [s.q EXCEPT ![limb] = @ + 2^off]]
                ELSE [r |-> r, q |-> s.q]
        end == FoldLeft(Step, [r |-> Zeros(Len(b) + 1), q |-> Zeros(Len(a))],
                        DownFrom(Len(a) * LimbBits))
    IN  IF mod THEN end.r ELSE end.q

-----------------------------------------------------------------------------
(* The operations.                                                         *)

RECURSIVE LimbsOfMagnitude(_)
LimbsOfMagnitude(n) == IF n < Base THEN <<n>> ELSE <<n % Base>> \o LimbsOfMagnitude(n \div Base)
bigFromNumber(n) ==
    LET Trimmed(m) == bigTrim(Append(LimbsOfMagnitude(m), 0))
    IN  IF n < 0 THEN bigTrim(bigNeg(Trimmed(-n))) ELSE Trimmed(n)
bigToNumber(a) ==
    LET limbs == bigApplySign(a, bigSign(a))
        result == FoldLeft(LAMBDA sum, i : sum + limbs[i] * Base^(i - 1), 0, UpTo(Len(limbs)))
    IN  IF bigSign(a) THEN -result ELSE result

Neg(a) == bigTrim(bigNeg(a))
Add(a, b) == bigTrim(bigAdd(a, b, FALSE))
Sub(a, b) == bigTrim(bigAdd(a, b, TRUE))
Mul(a, b) ==
    bigTrim(bigApplySign(bigMulMag(bigApplySign(a, bigSign(a)), bigApplySign(b, bigSign(b))),
                         bigSign(a) # bigSign(b)))
DivMod(a, b, mod) == bigDivModMag(bigApplySign(a, bigSign(a)), bigApplySign(b, bigSign(b)), mod)
Div(a, b) == bigTrim(bigApplySign(DivMod(a, b, FALSE), bigSign(a) # bigSign(b)))
Mod(a, b) == bigTrim(bigApplySign(DivMod(a, b, TRUE), bigSign(a)))

shl(a, b) == Mul(a, bigTrim(bigPow2(bigToNumber(b))))
shr_s(a, b) ==
    LET k     == bigToNumber(b)
        limbs == k \div LimbBits
        bits  == k % LimbBits
        Low(i) == Limb(a, i + limbs)
        Next(i) == Limb(a, i + limbs + 1)
    IN  bigTrim([i \in DOMAIN a |->
            IF bits = 0 THEN Low(i)
            ELSE (Low(i) \div 2^bits) + ((Next(i) * 2^(LimbBits - bits)) % Base)])

bitwise(a, b, Op(_, _)) ==
    bigTrim([i \in 1 .. Larger(Len(a), Len(b)) + 1 |-> Op(Limb(a, i), Limb(b, i))])
not(a) == bigTrim([i \in 1 .. Len(a) + 1 |-> Ones - Limb(a, i)])

\* asIntN and asUintN: the top limb is shifted up and back, and a limb above it holds
\* the sign of a signed result.
bigTruncate(a, bits, signed) ==
    LET n == (bits + LimbBits - 1) \div LimbBits
        shift == n * LimbBits - bits
        up == (Limb(a, n) * 2^shift) % Base
        top == (up \div 2^shift)
                 + (IF signed /\ up >= Half THEN Base - (Base \div 2^shift) ELSE 0)
        guard == Extension(signed /\ top >= Half)
    IN  IF n = 0 THEN <<0>>
        ELSE bigTrim([i \in 1 .. n + 1 |->
                 IF i < n THEN Limb(a, i) ELSE IF i = n THEN top ELSE guard])

\* By squaring, on the bits of the exponent.
RECURSIVE Power(_, _, _)
Power(base, e, result) ==
    IF e = 0 THEN result
    ELSE Power(Mul(base, base), e \div 2, IF e % 2 = 1 THEN Mul(result, base) ELSE result)
pow(a, b) ==
    IF bigToNumber(b) < 0 THEN bigFromNumber(0) ELSE Power(a, bigToNumber(b), bigFromNumber(1))

\* By sign, then by the highest limb in which the two, extended, differ.
bigCompare(a, b) ==
    LET differ == {i \in 1 .. Larger(Len(a), Len(b)) : Limb(a, i) # Limb(b, i)}
        i == CHOOSE i \in differ : \A j \in differ : j <= i
    IN  IF bigSign(a) # bigSign(b) THEN IF bigSign(a) THEN -1 ELSE 1
        ELSE IF differ = {} THEN 0 ELSE IF Limb(a, i) < Limb(b, i) THEN -1 ELSE 1

\* toString, as the sign and the digits of a radix; bigFromString reads decimal ones.
RECURSIVE Digits(_, _)
Digits(a, radix) ==
    IF bigCompare(a, <<0>>) <= 0 THEN <<>>
    ELSE Append(Digits(Div(a, radix), radix), bigToNumber(Mod(a, radix)))
toString(a, radix) ==
    CASE bigCompare(a, <<0>>) = 0 -> [neg |-> FALSE, digits |-> <<0>>]
      [] bigCompare(a, <<0>>) < 0 -> [neg |-> TRUE, digits |-> Digits(Neg(a), bigFromNumber(radix))]
      [] OTHER -> [neg |-> FALSE, digits |-> Digits(a, bigFromNumber(radix))]
bigFromString(text) ==
    LET Accumulate(sum, d) == Add(Mul(sum, bigFromNumber(10)), bigFromNumber(d))
        result == FoldLeft(Accumulate, bigFromNumber(0), text.digits)
    IN  IF text.neg THEN Neg(result) ELSE result

-----------------------------------------------------------------------------
(* A program.  Each step applies one operation to its integer and another, *)
(* which comes as the shortest limbs or, written as a literal, as two      *)
(* limbs of the machine's word.                                            *)

Meaning(n) ==
    LET limbs == CHOOSE k \in 1 .. 64 : /\ -(Base^k) <= 2 * n /\ 2 * n < Base^k
                                        /\ \A j \in 1 .. k - 1 : ~(-(Base^j) <= 2 * n /\ 2 * n < Base^j)
    IN  [i \in 1 .. limbs |-> (n \div Base^(i - 1)) % Base]
Word(n) == [i \in 1 .. 2 |-> (n \div Base^(i - 1)) % Base]
Operands == {[value |-> n, limbs |-> Meaning(n)] : n \in Literals}
            \cup {[value |-> n, limbs |-> Word(n)] : n \in {m \in Literals : Len(Meaning(m)) <= 2}}
Counts == {o \in Operands : o.value \in 0 .. MaxShift}

Bounded(n) == n \in -MaxMagnitude .. MaxMagnitude
Becomes(limbs, n) ==
    /\ made < MaxOperations /\ Bounded(n)
    /\ acc' = limbs /\ want' = n /\ made' = made + 1

\* JavaScript's division goes towards zero, its shift right downwards.
Abs(n) == IF n < 0 THEN -n ELSE n
Sign(n) == IF n < 0 THEN -1 ELSE IF n = 0 THEN 0 ELSE 1
Quotient(m, n) == Sign(m) * Sign(n) * (Abs(m) \div Abs(n))
Wrapped(n, bits, signed) ==
    LET low == n % 2^bits
    IN  IF signed /\ bits > 0 /\ low >= 2^(bits - 1) THEN low - 2^bits ELSE low
\* An integer's infinite two's complement, cut where all of it is sign.
Cut == 4 * 2^(CHOOSE k \in 0 .. 28 : 2^k >= MaxMagnitude /\ 2^k < 2 * MaxMagnitude)
Bits(n) == n % Cut
FromBits(n) == IF 2 * n >= Cut THEN n - Cut ELSE n

DoNeg == Becomes(Neg(acc), -want)
DoNot == Becomes(not(acc), -want - 1)
DoAdd == \E o \in Operands : Becomes(Add(acc, o.limbs), want + o.value)
DoSub == \E o \in Operands : Becomes(Sub(acc, o.limbs), want - o.value)
DoMul == \E o \in Operands : Becomes(Mul(acc, o.limbs), want * o.value)
DoDiv == \E o \in Operands : o.value # 0 /\ Becomes(Div(acc, o.limbs), Quotient(want, o.value))
DoMod ==
    \E o \in Operands :
        o.value # 0 /\ Becomes(Mod(acc, o.limbs), want - o.value * Quotient(want, o.value))
DoShl == \E o \in Counts : Becomes(shl(acc, o.limbs), want * 2^o.value)
DoShr == \E o \in Counts : Becomes(shr_s(acc, o.limbs), want \div 2^o.value)
DoAnd ==
    \E o \in Operands :
        Becomes(bitwise(acc, o.limbs, LAMBDA x, y : x & y), FromBits(Bits(want) & Bits(o.value)))
DoOr ==
    \E o \in Operands :
        Becomes(bitwise(acc, o.limbs, LAMBDA x, y : x | y), FromBits(Bits(want) | Bits(o.value)))
DoXor ==
    \E o \in Operands :
        Becomes(bitwise(acc, o.limbs, LAMBDA x, y : x ^^ y), FromBits(Bits(want) ^^ Bits(o.value)))
DoPow ==
    \E o \in Counts : Bounded(want^2) /\ Becomes(pow(acc, o.limbs), IF o.value = 0 THEN 1 ELSE want^o.value)
DoTruncate ==
    \E bits \in 0 .. 3 * LimbBits, signed \in BOOLEAN :
        Becomes(bigTruncate(acc, bits, signed), Wrapped(want, bits, signed))

BigIntStep ==
    \/ DoNeg \/ DoNot \/ DoAdd \/ DoSub \/ DoMul \/ DoDiv \/ DoMod \/ DoShl \/ DoShr
    \/ DoAnd \/ DoOr \/ DoXor \/ DoPow \/ DoTruncate

BigIntInit(n) == acc = bigFromNumber(n) /\ want = n /\ made = 0

-----------------------------------------------------------------------------
RECURSIVE DigitsOf(_, _)
DigitsOf(n, radix) ==
    IF n < radix THEN <<n>> ELSE Append(DigitsOf(n \div radix, radix), n % radix)
Printed(n, radix) == [neg |-> n < 0, digits |-> DigitsOf(Abs(n), radix)]

\* After any operations the limbs are those of the integer they should be, with none to
\* spare; a comparison with any other integer, in either form, tells which is larger;
\* and the integer printed in any radix and read back is itself.
IntegersExact ==
    /\ acc = Meaning(want) /\ bigToNumber(acc) = want
    /\ \A o \in Operands : bigCompare(acc, o.limbs) = Sign(want - o.value)
    /\ \A radix \in {2, 10} : toString(acc, radix) = Printed(want, radix)
    /\ bigFromString(toString(acc, 10)) = acc
=============================================================================
