--------------------------- MODULE ProtobufProofs ---------------------------
(***************************************************************************)
(* The generated code reads back what it wrote, for every width of a word, *)
(* every type of message and every message of the type.                    *)
(*                                                                         *)
(* The argument: a varint is read back from its groups of seven bits.  What*)
(* Marshal writes for a field is a number of items, a key each and what    *)
(* belongs to it; the buffer is as long as Size says, so it fills up just  *)
(* at its front.  The loop of Unmarshal takes one turn per item, and after *)
(* the items of the first k fields it has a message that agrees with the   *)
(* written one on these and holds zeros elsewhere.  Messages that contain  *)
(* messages follow level by level: there are three.                        *)
(***************************************************************************)
EXTENDS Protobuf, SequenceTheorems, WellFoundedInduction, TLAPS

(* Induction: a set of numbers with 0 and the successor of each of its members
   holds every number. *)
LEMMA Induction ==
    ASSUME NEW T \in SUBSET Nat, 0 \in T, \A n \in T : n + 1 \in T
    PROVE  T = Nat
<1> DEFINE R == OpToRel(<, Nat)
           B == Nat \ T
<1> SUFFICES ASSUME B # {} PROVE FALSE
  OBVIOUS
<1>1. IsWellFoundedOn(R, Nat)
  BY NatLessThanWellFounded
<1>2. B \subseteq Nat
  OBVIOUS
<1> HIDE DEF R, B
<1>3. PICK x \in B : \A y \in B : ~ (<<y, x>> \in R)
  BY <1>1, <1>2, WFMin
<1>4. \A y \in B : ~ (y < x)
  BY <1>2, <1>3 DEF R, OpToRel
<1>5. x \in Nat /\ x # 0 /\ x - 1 \in Nat /\ x - 1 < x
  BY <1>3 DEF B
<1>6. x - 1 \in T
  BY <1>4, <1>5 DEF B
<1> QED BY <1>3, <1>5, <1>6 DEF B

(* Complete induction: a number is in the set when all smaller ones are. *)
LEMMA CompleteInduction ==
    ASSUME NEW T \in SUBSET Nat, \A n \in Nat : (\A k \in 0 .. n - 1 : k \in T) => n \in T
    PROVE  T = Nat
<1> DEFINE U == {n \in Nat : \A k \in 0 .. n - 1 : k \in T}
<1>1. 0 \in U
  OBVIOUS
<1>2. ASSUME NEW n \in U PROVE n + 1 \in U
  <2>1. n \in T
    OBVIOUS
  <2>2. \A k \in 0 .. (n + 1) - 1 : k \in 0 .. n - 1 \/ k = n
    OBVIOUS
  <2> QED BY <2>1, <2>2
<1>3. U = Nat
  <2>1. U \in SUBSET Nat
    OBVIOUS
  <2> HIDE DEF U
  <2> QED BY <1>1, <1>2, <2>1, Induction
<1> QED BY <1>3

-----------------------------------------------------------------------------
(* Powers of two. *)

Powers(g, D) == g = [n \in D |-> IF n = 0 THEN 1 ELSE 2 * g[n - 1]]

(* The recursion of pow2 has a solution up to any n. *)
LEMMA PowersExist == ASSUME NEW n \in Nat PROVE \E g : Powers(g, 0 .. n)
<1> DEFINE T == {k \in Nat : \E g : Powers(g, 0 .. k)}
<1>1. 0 \in T
  <2>1. Powers([i \in 0 .. 0 |-> 1], 0 .. 0)
    BY DEF Powers
  <2> QED BY <2>1
<1>2. ASSUME NEW k \in T PROVE k + 1 \in T
  <2>1. PICK g : Powers(g, 0 .. k)
    OBVIOUS
  <2>2. PICK h : h = [i \in 0 .. k + 1 |-> IF i = 0 THEN 1 ELSE 2 * g[i - 1]]
    OBVIOUS
  <2>3. \A i \in 0 .. k : h[i] = g[i]
    BY <2>1, <2>2 DEF Powers
  <2>4. \A i \in 0 .. k + 1 : i # 0 => h[i - 1] = g[i - 1]
    BY <2>3
  <2>5. Powers(h, 0 .. k + 1)
    BY <2>2, <2>4 DEF Powers
  <2> QED BY <2>5
<1>3. T = Nat
  <2>1. T \in SUBSET Nat
    OBVIOUS
  <2> HIDE DEF T
  <2> QED BY <1>1, <1>2, <2>1, Induction
<1> QED BY <1>3

(* Two such solutions agree where both are defined. *)
LEMMA PowersAgree ==
    ASSUME NEW m \in Nat, NEW n \in Nat, NEW g, NEW h, Powers(g, 0 .. m), Powers(h, 0 .. n)
    PROVE  \A k \in Nat : k <= m /\ k <= n => g[k] = h[k]
<1> DEFINE T == {k \in Nat : k <= m /\ k <= n => g[k] = h[k]}
<1>1. 0 \in T
  BY DEF Powers
<1>2. ASSUME NEW k \in T PROVE k + 1 \in T
  <2> SUFFICES ASSUME k + 1 <= m, k + 1 <= n PROVE g[k + 1] = h[k + 1]
    OBVIOUS
  <2>1. g[k + 1] = 2 * g[k] /\ h[k + 1] = 2 * h[k]
    BY DEF Powers
  <2> QED BY <2>1
<1>3. T = Nat
  <2>1. T \in SUBSET Nat
    OBVIOUS
  <2> HIDE DEF T
  <2> QED BY <1>1, <1>2, <2>1, Induction
<1> QED BY <1>3

(* pow2 satisfies its recursive definition. *)
LEMMA PowStep ==
    /\ pow2[0] = 1
    /\ \A n \in Nat : pow2[n + 1] = 2 * pow2[n]
<1> DEFINE upTo(n) == CHOOSE g : Powers(g, 0 .. n)
           p == [n \in Nat |-> upTo(n)[n]]
<1>1. \A n \in Nat : Powers(upTo(n), 0 .. n)
  BY PowersExist
<1>2. p[0] = 1
  <2>1. Powers(upTo(0), 0 .. 0)
    BY <1>1
  <2> QED BY <2>1 DEF Powers
<1>3. ASSUME NEW n \in Nat PROVE p[n + 1] = 2 * p[n]
  <2>1. Powers(upTo(n), 0 .. n) /\ Powers(upTo(n + 1), 0 .. n + 1)
    BY <1>1
  <2>2. upTo(n + 1)[n] = upTo(n)[n]
    <3> HIDE DEF upTo
    <3> QED BY <2>1, PowersAgree
  <2>3. upTo(n + 1)[n + 1] = 2 * upTo(n + 1)[n]
    <3> HIDE DEF upTo
    <3> QED BY <2>1 DEF Powers
  <2> QED BY <2>2, <2>3
<1>4. Powers(p, Nat)
  <2>1. ASSUME NEW n \in Nat, n # 0 PROVE p[n] = 2 * p[n - 1]
    <3>1. n - 1 \in Nat /\ (n - 1) + 1 = n
      BY <2>1
    <3>2. p[(n - 1) + 1] = 2 * p[n - 1]
      BY <1>3, <3>1
    <3> QED BY <3>1, <3>2
  <2>2. p = [n \in Nat |-> p[n]]
    OBVIOUS
  <2> HIDE DEF p
  <2> QED BY <1>2, <2>1, <2>2 DEF Powers
<1>5. \E g : Powers(g, Nat)
  BY <1>4
<1>6. Powers(pow2, Nat)
  BY <1>5 DEF pow2, Powers
<1>7. ASSUME NEW n \in Nat PROVE pow2[n + 1] = 2 * pow2[n]
  BY <1>6 DEF Powers
<1> QED BY <1>6, <1>7 DEF Powers

(* A power of two is a natural number above 0. *)
LEMMA PowNat == \A n \in Nat : pow2[n] \in Nat /\ pow2[n] >= 1
<1> DEFINE T == {n \in Nat : pow2[n] \in Nat /\ pow2[n] >= 1}
<1>1. 0 \in T
  BY PowStep
<1>2. ASSUME NEW n \in T PROVE n + 1 \in T
  <2>1. pow2[n + 1] = 2 * pow2[n]
    BY PowStep
  <2> QED BY <2>1
<1>3. T = Nat
  <2>1. T \in SUBSET Nat
    OBVIOUS
  <2> HIDE DEF T
  <2> QED BY <1>1, <1>2, <2>1, Induction
<1> QED BY <1>3

(* 2^(m+n) = 2^m 2^n *)
LEMMA PowSum == ASSUME NEW m \in Nat PROVE \A n \in Nat : pow2[m + n] = pow2[m] * pow2[n]
<1> DEFINE T == {n \in Nat : pow2[m + n] = pow2[m] * pow2[n]}
<1>0. pow2[m] \in Nat
  BY PowNat
<1>1. 0 \in T
  BY <1>0, PowStep
<1>2. ASSUME NEW n \in T PROVE n + 1 \in T
  <2>1. pow2[n + 1] = 2 * pow2[n] /\ pow2[(m + n) + 1] = 2 * pow2[m + n]
    BY PowStep
  <2>2. PICK a, b, c \in Nat : a = pow2[m] /\ b = pow2[n] /\ c = pow2[m + n]
    BY PowNat
  <2>3. c = a * b /\ 2 * (a * b) = a * (2 * b)
    BY <2>2
  <2>4. m + (n + 1) = (m + n) + 1
    OBVIOUS
  <2> QED BY <2>1, <2>2, <2>3, <2>4
<1>3. T = Nat
  <2>1. T \in SUBSET Nat
    OBVIOUS
  <2> HIDE DEF T
  <2> QED BY <1>1, <1>2, <2>1, Induction
<1> QED BY <1>3

(* The powers of two grow with the exponent. *)
LEMMA PowMono == ASSUME NEW m \in Nat, NEW n \in Nat, m <= n PROVE pow2[m] <= pow2[n]
<1>1. PICK k \in Nat : n = m + k
  <2>1. n - m \in Nat /\ n = m + (n - m)
    OBVIOUS
  <2> QED BY <2>1
<1>2. pow2[n] = pow2[m] * pow2[k]
  BY <1>1, PowSum
<1>3. PICK a, b \in Nat : a = pow2[m] /\ b = pow2[k] /\ b >= 1
  BY PowNat
<1>4. a <= a * b
  BY <1>3
<1> QED BY <1>2, <1>3, <1>4

-----------------------------------------------------------------------------
(* Division. *)

(* A number is its quotient times the divisor and the remainder. *)
LEMMA DivMod ==
    ASSUME NEW x \in Int, NEW d \in Nat, d >= 1
    PROVE  /\ x \div d \in Int /\ x % d \in Nat /\ x % d < d
           /\ x = d * (x \div d) + (x % d)
OBVIOUS

(* The quotient of a natural number is one. *)
LEMMA DivNat == ASSUME NEW x \in Nat, NEW d \in Nat, d >= 1 PROVE x \div d \in Nat
OBVIOUS

(* Quotient and remainder are the only ones. *)
LEMMA DivUnique ==
    ASSUME NEW x \in Int, NEW d \in Nat, d >= 1, NEW q \in Int, NEW r \in Nat, r < d,
           x = d * q + r
    PROVE  x \div d = q /\ x % d = r
<1>1. PICK p \in Int, s \in Nat : p = x \div d /\ s = x % d /\ s < d /\ x = d * p + s
  BY DivMod
<1>2. PICK k \in Int : k = p - q
  OBVIOUS
<1>3. d * k = r - s
  <2>1. d * (p - q) = d * p - d * q
    OBVIOUS
  <2>2. d * p \in Int /\ d * q \in Int
    OBVIOUS
  <2> QED BY <1>1, <1>2, <2>1, <2>2
<1>4. k = 0
  <2>1. ASSUME k >= 1 PROVE d * k >= d
    BY <2>1
  <2>2. ASSUME k <= -1 PROVE d * k <= -d
    BY <2>2
  <2>3. d * k < d /\ d * k > -d
    BY <1>1, <1>3
  <2> QED BY <2>1, <2>2, <2>3
<1>5. r = s
  BY <1>3, <1>4
<1> QED BY <1>1, <1>2, <1>4, <1>5

(* Dividing twice is dividing by the product. *)
LEMMA DivTwice ==
    ASSUME NEW n \in Nat, NEW d \in Nat, d >= 1, NEW e \in Nat, e >= 1
    PROVE  (n \div d) \div e = n \div (d * e)
<1>1. PICK q \in Nat, r \in Nat : q = n \div d /\ r < d /\ n = d * q + r
  BY DivMod, DivNat
<1>2. PICK p \in Nat, s \in Nat : p = q \div e /\ s < e /\ q = e * p + s
  BY DivMod, DivNat
<1>3. d * e \in Nat /\ d * e >= 1
  OBVIOUS
<1>4. n = (d * e) * p + (d * s + r)
  <2>1. d * (e * p + s) = d * (e * p) + d * s
    OBVIOUS
  <2>2. d * (e * p) = (d * e) * p
    OBVIOUS
  <2>3. n = d * (e * p + s) + r
    BY <1>1, <1>2
  <2>4. PICK a \in Nat, b \in Nat : a = (d * e) * p /\ b = d * s
    BY <1>3
  <2>5. n = (a + b) + r
    BY <2>1, <2>2, <2>3, <2>4
  <2> QED BY <2>4, <2>5
<1>5. d * s + r \in Nat /\ d * s + r < d * e
  <2>1. PICK k \in Nat : e = s + 1 + k
    <3>1. e - (s + 1) \in Nat /\ e = s + 1 + (e - (s + 1))
      BY <1>2
    <3> QED BY <3>1
  <2>2. d * e = d * s + d + d * k /\ d * k \in Nat /\ d * s \in Nat
    BY <2>1
  <2> QED BY <1>1, <2>2
<1>6. PICK a \in Nat, b \in Nat : a = d * e /\ b = d * s + r /\ a >= 1 /\ b < a /\ n = a * p + b
  BY <1>3, <1>4, <1>5
<1>7. n \div a = p
  BY <1>6, DivUnique
<1> QED BY <1>1, <1>2, <1>6, <1>7

(* The number of two's complement that a remainder stands for. *)
LEMMA Complement ==
    ASSUME NEW x \in Int, NEW h \in Nat, h >= 1, NEW m, m = 2 * h
    PROVE  /\ twosComplement(x, m) \in Int /\ -h <= twosComplement(x, m) /\ twosComplement(x, m) < h
           /\ x % m < h => twosComplement(x, m) = x % m
           /\ x % m >= h => twosComplement(x, m) = (x % m) - m
<1>1. m \in Nat /\ m >= 1 /\ m \div 2 = h
  OBVIOUS
<1>2. PICK r \in Nat : r = x % m /\ r < m
  BY <1>1, DivMod
<1> QED BY <1>1, <1>2 DEF twosComplement

-----------------------------------------------------------------------------
(* Widths. *)

(* What the assumptions on the widths of a word and a half say in numbers. *)
LEMMA Widths ==
    /\ WordBits \in Nat /\ HalfBits \in Nat /\ WordBits - 1 \in Nat /\ HalfBits - 1 \in Nat
    /\ HalfBits >= 16 /\ WordBits >= HalfBits + 8
    /\ WordBits \div 8 \in Nat /\ HalfBits \div 8 \in Nat /\ WordBits = 8 * (WordBits \div 8)
    /\ WordBits \div 8 >= 3
BY ProtobufAssumption

(* The two powers that the bytes of a varint are about. *)
LEMMA Pow8 == pow2[7] = 128 /\ pow2[8] = 256
<1>1. /\ pow2[0+1] = 2 /\ pow2[1+1] = 4 /\ pow2[2+1] = 8 /\ pow2[3+1] = 16 /\ pow2[4+1] = 32
      /\ pow2[5+1] = 64 /\ pow2[6+1] = 128 /\ pow2[7+1] = 256
  BY PowStep
<1> QED BY <1>1

(* A word is twice the range of an int. *)
LEMMA WordFacts ==
    /\ IntRange \in Nat /\ Word \in Nat /\ Word = 2 * IntRange /\ IntRange >= 256
<1>1. pow2[(WordBits - 1) + 1] = 2 * pow2[WordBits - 1]
  BY Widths, PowStep
<1>2. (WordBits - 1) + 1 = WordBits
  BY Widths
<1>3. pow2[8] <= pow2[WordBits - 1]
  <2>1. 8 \in Nat /\ 8 <= WordBits - 1
    BY Widths
  <2> QED BY <2>1, Widths, PowMono
<1>4. IntRange \in Nat /\ Word \in Nat
  BY Widths, PowNat DEF IntRange, Word
<1> QED BY <1>1, <1>2, <1>3, <1>4, Pow8 DEF IntRange, Word

(* A half is twice the range of an int32, which is within that of an int. *)
LEMMA HalfFacts ==
    /\ Int32Range \in Nat /\ Half \in Nat /\ Half = 2 * Int32Range /\ Int32Range >= 128
    /\ Int32Range <= IntRange
<1>1. pow2[(HalfBits - 1) + 1] = 2 * pow2[HalfBits - 1]
  BY Widths, PowStep
<1>2. (HalfBits - 1) + 1 = HalfBits
  BY Widths
<1>3. pow2[7] <= pow2[HalfBits - 1]
  <2>1. 7 \in Nat /\ 7 <= HalfBits - 1
    BY Widths
  <2> QED BY <2>1, Widths, PowMono
<1>4. Int32Range \in Nat /\ Half \in Nat
  BY Widths, PowNat DEF Int32Range, Half
<1>5. Int32Range <= IntRange
  <2>1. HalfBits - 1 <= WordBits - 1
    BY Widths
  <2> QED BY <2>1, Widths, PowMono DEF Int32Range, IntRange
<1> QED BY <1>1, <1>2, <1>3, <1>4, <1>5, Pow8 DEF Int32Range, Half

(* A word is a multiple of a half, so narrowing keeps the low bits. *)
LEMMA HalfDivides == \E q \in Nat : Word = Half * q
<1>1. PICK k \in Nat : WordBits = HalfBits + k
  <2>1. WordBits - HalfBits \in Nat /\ WordBits = HalfBits + (WordBits - HalfBits)
    BY Widths
  <2> QED BY <2>1
<1>2. pow2[WordBits] = pow2[HalfBits] * pow2[k]
  BY <1>1, Widths, PowSum
<1> QED BY <1>2, PowNat DEF Word, Half

(* The conversions of Go give what their type can hold. *)
LEMMA ConversionTypes ==
    ASSUME NEW x \in Int
    PROVE  /\ uint64(x) \in Nat /\ uint64(x) < Word
           /\ int64(x) \in Int64s /\ int32(x) \in Int32s
<1>1. uint64(x) \in Nat /\ uint64(x) < Word
  BY WordFacts, DivMod DEF uint64
<1>2. int64(x) \in Int64s
  <2>1. PICK h \in Nat, m \in Nat : h = IntRange /\ m = Word /\ m = 2 * h /\ h >= 1
    BY WordFacts
  <2>2. twosComplement(x, m) \in Int /\ -h <= twosComplement(x, m) /\ twosComplement(x, m) < h
    BY <2>1, Complement
  <2> QED BY <2>1, <2>2 DEF Int64s, int64
<1>3. int32(x) \in Int32s
  <2>1. PICK h \in Nat, m \in Nat : h = Int32Range /\ m = Half /\ m = 2 * h /\ h >= 1
    BY HalfFacts
  <2>2. twosComplement(x, m) \in Int /\ -h <= twosComplement(x, m) /\ twosComplement(x, m) < h
    BY <2>1, Complement
  <2> QED BY <2>1, <2>2 DEF Int32s, int32
<1> QED BY <1>1, <1>2, <1>3

(* A small number stays itself. *)
LEMMA SmallIsItself ==
    ASSUME NEW x \in Nat
    PROVE  /\ x < Word => uint64(x) = x
           /\ x < IntRange => int64(x) = x
           /\ IntRange <= x /\ x < Word => int64(x) = x - Word
           /\ x < Int32Range => int32(x) = x
<1>1. ASSUME NEW d \in Nat, x < d PROVE x % d = x
  <2>1. x = d * 0 + x
    OBVIOUS
  <2> QED BY <1>1, <2>1, DivUnique
<1>2. x < Word => x % Word = x
  BY <1>1, WordFacts
<1>3. x < Half => x % Half = x
  BY <1>1, HalfFacts
<1>4. x < Word => uint64(x) = x
  BY <1>2 DEF uint64
<1>0. x \in Int
  OBVIOUS
<1>5. (x < IntRange => int64(x) = x) /\ (IntRange <= x /\ x < Word => int64(x) = x - Word)
  <2>1. PICK h \in Nat, m \in Nat : h = IntRange /\ m = Word /\ m = 2 * h /\ h >= 1
    BY WordFacts
  <2>2. /\ x % m < h => twosComplement(x, m) = x % m
        /\ x % m >= h => twosComplement(x, m) = (x % m) - m
    BY <1>0, <2>1, Complement
  <2> QED BY <1>2, <2>1, <2>2 DEF int64
<1>6. x < Int32Range => int32(x) = x
  <2>1. PICK h \in Nat, m \in Nat : h = Int32Range /\ m = Half /\ m = 2 * h /\ h >= 1
    BY HalfFacts
  <2>2. x % m < h => twosComplement(x, m) = x % m
    BY <1>0, <2>1, Complement
  <2> QED BY <1>3, <2>1, <2>2 DEF int32
<1> QED BY <1>4, <1>5, <1>6

(* The conversion to uint64 and back. *)
LEMMA Int64Back == ASSUME NEW x \in Int64s PROVE int64(uint64(x)) = x
<1>1. x \in Int /\ -IntRange <= x /\ x < IntRange
  BY WordFacts DEF Int64s
<1>2. CASE x >= 0
  <2>1. x \in Nat /\ x < Word
    BY <1>1, <1>2, WordFacts
  <2> QED BY <1>1, <2>1, SmallIsItself
<1>3. CASE x < 0
  <2>1. PICK r \in Nat : r = x + Word /\ r < Word /\ r >= IntRange
    BY <1>1, <1>3, WordFacts
  <2>2. x = Word * (-1) + r
    BY <1>1, <2>1, WordFacts
  <2>3. uint64(x) = r
    BY <1>1, <2>1, <2>2, WordFacts, DivUnique DEF uint64
  <2> QED BY <1>1, <2>1, <2>3, SmallIsItself, WordFacts
<1> QED BY <1>1, <1>2, <1>3

(* An int32 survives the way through uint64, negative ones sign extended. *)
LEMMA Int32Back == ASSUME NEW x \in Int32s PROVE int32(uint64(x)) = x
<1>1. x \in Int /\ -Int32Range <= x /\ x < Int32Range
  BY HalfFacts DEF Int32s
<1>2. PICK q \in Nat : Word = Half * q
  BY HalfDivides
<1>3. PICK p \in Int, u \in Nat : u = uint64(x) /\ x = Word * p + u
  <2>1. PICK m \in Nat : m = Word /\ m >= 1
    BY WordFacts
  <2>2. PICK p \in Int, u \in Nat : p = x \div m /\ u = x % m /\ x = m * p + u
    BY <1>1, <2>1, DivMod
  <2> QED BY <2>1, <2>2 DEF uint64
<1>4. PICK m \in Nat, h \in Nat : m = Half /\ h = Int32Range /\ m = 2 * h /\ h >= 1
  BY HalfFacts
<1>5. PICK k \in Int : k = -(q * p)
  OBVIOUS
<1>6. u = m * k + x
  <2>1. m * k = -(m * (q * p))
    BY <1>5
  <2>2. m * (q * p) = (m * q) * p
    OBVIOUS
  <2>3. (m * q) * p \in Int
    OBVIOUS
  <2> QED BY <1>1, <1>2, <1>3, <1>4, <2>1, <2>2, <2>3
<1>7. CASE x >= 0
  <2>1. u % m = x
    <3>1. u \in Int /\ m >= 1 /\ x \in Nat /\ x < m
      BY <1>1, <1>4, <1>7
    <3> QED BY <1>6, <3>1, DivUnique
  <2> QED BY <1>1, <1>3, <1>4, <2>1, Complement DEF int32
<1>8. CASE x < 0
  <2>1. PICK r \in Nat : r = x + m /\ r < m /\ r >= h
    BY <1>1, <1>4, <1>8
  <2>2. u = m * (k - 1) + r /\ k - 1 \in Int
    <3>1. m * (k - 1) = m * k - m
      OBVIOUS
    <3>2. m * k \in Int
      OBVIOUS
    <3> QED BY <1>1, <1>6, <2>1, <3>1, <3>2
  <2>3. u % m = r
    <3>1. u \in Int /\ m >= 1
      BY <1>4
    <3>2. PICK j \in Int : j = k - 1
      OBVIOUS
    <3>3. u = m * j + r
      BY <2>2, <3>2
    <3> QED BY <2>1, <3>1, <3>3, DivUnique
  <2> QED BY <1>1, <1>3, <1>4, <2>1, <2>3, Complement DEF int32
<1> QED BY <1>1, <1>7, <1>8

-----------------------------------------------------------------------------
(* Loops: n steps from z, each a function on S. *)

Iterates(g, z, F, n) == g = [k \in 0 .. n |-> IF k = 0 THEN z ELSE F[k][g[k - 1]]]

(* A state changed N times runs through a function of the turn. *)
LEMMA Iteration ==
    ASSUME NEW S, NEW z \in S, NEW N \in Nat, NEW F \in [1 .. N -> [S -> S]]
    PROVE  \E g \in [0 .. N -> S] : Iterates(g, z, F, N)
<1> DEFINE T == {n \in Nat : n <= N => \E g \in [0 .. n -> S] : Iterates(g, z, F, n)}
<1>1. 0 \in T
  <2>1. PICK g : g = [k \in 0 .. 0 |-> z]
    OBVIOUS
  <2>2. g \in [0 .. 0 -> S] /\ Iterates(g, z, F, 0)
    BY <2>1 DEF Iterates
  <2> QED BY <2>2
<1>2. ASSUME NEW n \in T PROVE n + 1 \in T
  <2> SUFFICES ASSUME n + 1 <= N PROVE \E g \in [0 .. n + 1 -> S] : Iterates(g, z, F, n + 1)
    OBVIOUS
  <2>1. PICK g \in [0 .. n -> S] : Iterates(g, z, F, n)
    OBVIOUS
  <2>2. PICK h : h = [k \in 0 .. n + 1 |-> IF k = 0 THEN z ELSE F[k][g[k - 1]]]
    OBVIOUS
  <2>3. \A k \in 0 .. n : h[k] = g[k]
    BY <2>1, <2>2 DEF Iterates
  <2>4. \A k \in 0 .. n + 1 : k # 0 => k - 1 \in 0 .. n /\ h[k - 1] = g[k - 1]
    BY <2>3
  <2>5. Iterates(h, z, F, n + 1)
    BY <2>2, <2>4 DEF Iterates
  <2>6. \A k \in 0 .. n + 1 : k # 0 => F[k] \in [S -> S] /\ g[k - 1] \in S
    BY <2>4
  <2>7. h \in [0 .. n + 1 -> S]
    BY <2>2, <2>6
  <2> QED BY <2>5, <2>7
<1>3. T = Nat
  <2>1. T \in SUBSET Nat
    OBVIOUS
  <2> HIDE DEF T
  <2> QED BY <1>1, <1>2, <2>1, Induction
<1> QED BY <1>3

-----------------------------------------------------------------------------
(* Sums. *)

Sums(g, s, n) == g = [k \in 0 .. n |-> IF k = 0 THEN 0 ELSE g[k - 1] + s[k]]

(* The partial sums of n numbers, the last of which is their total. *)
LEMMA SumsOf ==
    ASSUME NEW n \in Nat, NEW s, \A k \in 1 .. n : s[k] \in Nat
    PROVE  \E g \in [0 .. n -> Nat] : Sums(g, s, n) /\ total(s, n) = g[n]
<1>1. PICK F : F = [k \in 1 .. n |-> [x \in Nat |-> x + s[k]]]
  OBVIOUS
<1>2. F \in [1 .. n -> [Nat -> Nat]]
  <2>1. ASSUME NEW k \in 1 .. n PROVE [x \in Nat |-> x + s[k]] \in [Nat -> Nat]
    <3>1. s[k] \in Nat
      OBVIOUS
    <3> QED BY <3>1
  <2> QED BY <1>1, <2>1
<1>3. PICK g \in [0 .. n -> Nat] : Iterates(g, 0, F, n)
  BY <1>2, Iteration
<1>4. \A k \in 0 .. n : k # 0 => k - 1 \in 0 .. n /\ k \in 1 .. n
  OBVIOUS
<1>5. \A k \in 0 .. n : k # 0 => F[k][g[k - 1]] = g[k - 1] + s[k]
  BY <1>1, <1>4
<1>6. Sums(g, s, n)
  BY <1>3, <1>5 DEF Iterates, Sums
<1> DEFINE u == CHOOSE f : f = [k \in 0 .. n |-> IF k = 0 THEN 0 ELSE f[k - 1] + s[k]]
<1>7. Sums(u, s, n)
  BY <1>6 DEF Sums
<1>8. total(s, n) = u[n]
  BY DEF total
<1>9. \A k \in Nat : k <= n => u[k] = g[k]
  <2> HIDE DEF u
  <2> DEFINE T == {k \in Nat : k <= n => u[k] = g[k]}
  <2>1. 0 \in T
    BY <1>6, <1>7 DEF Sums
  <2>2. ASSUME NEW k \in T PROVE k + 1 \in T
    <3> SUFFICES ASSUME k + 1 <= n PROVE u[k + 1] = g[k + 1]
      OBVIOUS
    <3>1. u[k + 1] = u[k] + s[k + 1] /\ g[k + 1] = g[k] + s[k + 1]
      BY <1>6, <1>7 DEF Sums
    <3> QED BY <3>1
  <2>3. T = Nat
    <3>1. T \in SUBSET Nat
      OBVIOUS
    <3> HIDE DEF T
    <3> QED BY <2>1, <2>2, <3>1, Induction
  <2> QED BY <2>3
<1>10. u[n] = g[n]
  BY <1>9
<1> QED BY <1>6, <1>8, <1>10

(* Partial sums of sequences that agree are the same. *)
LEMMA SumsAgree ==
    ASSUME NEW m \in Nat, NEW n \in Nat, NEW s, NEW t, NEW g, NEW h,
           Sums(g, s, m), Sums(h, t, n), \A k \in 1 .. m : s[k] = t[k]
    PROVE  \A k \in Nat : k <= m /\ k <= n => g[k] = h[k]
<1> DEFINE T == {k \in Nat : k <= m /\ k <= n => g[k] = h[k]}
<1>1. 0 \in T
  BY DEF Sums
<1>2. ASSUME NEW k \in T PROVE k + 1 \in T
  <2> SUFFICES ASSUME k + 1 <= m, k + 1 <= n PROVE g[k + 1] = h[k + 1]
    OBVIOUS
  <2>1. g[k + 1] = g[k] + s[k + 1] /\ h[k + 1] = h[k] + t[k + 1] /\ s[k + 1] = t[k + 1]
    BY DEF Sums
  <2> QED BY <2>1
<1>3. T = Nat
  <2>1. T \in SUBSET Nat
    OBVIOUS
  <2> HIDE DEF T
  <2> QED BY <1>1, <1>2, <2>1, Induction
<1> QED BY <1>3

(* No numbers add up to 0. *)
LEMMA TotalZero == ASSUME NEW s PROVE total(s, 0) = 0
<1>1. 0 \in Nat /\ \A k \in 1 .. 0 : s[k] \in Nat
  OBVIOUS
<1>2. PICK g \in [0 .. 0 -> Nat] : Sums(g, s, 0) /\ total(s, 0) = g[0]
  BY <1>1, SumsOf
<1> QED BY <1>2 DEF Sums

(* Natural numbers add up to one. *)
LEMMA TotalNat ==
    ASSUME NEW n \in Nat, NEW s, \A k \in 1 .. n : s[k] \in Nat
    PROVE  total(s, n) \in Nat
BY SumsOf

(* The total of n + 1 numbers is that of n and the last one. *)
LEMMA TotalStep ==
    ASSUME NEW n \in Nat, NEW s, \A k \in 1 .. n + 1 : s[k] \in Nat
    PROVE  total(s, n + 1) = total(s, n) + s[n + 1]
<1>1. PICK m \in Nat : m = n + 1
  OBVIOUS
<1>2. (\A k \in 1 .. n : s[k] \in Nat) /\ (\A k \in 1 .. m : s[k] \in Nat)
  BY <1>1
<1>3. PICK g \in [0 .. n -> Nat] : Sums(g, s, n) /\ total(s, n) = g[n]
  BY <1>2, SumsOf
<1>4. PICK h \in [0 .. m -> Nat] : Sums(h, s, m) /\ total(s, m) = h[m]
  BY <1>2, SumsOf
<1>5. g[n] = h[n]
  BY <1>1, <1>3, <1>4, SumsAgree
<1>6. h[m] = h[n] + s[m]
  BY <1>1, <1>4 DEF Sums
<1> QED BY <1>1, <1>3, <1>4, <1>5, <1>6

(* Equal numbers have equal totals. *)
LEMMA TotalSame ==
    ASSUME NEW n \in Nat, NEW s, NEW t, \A k \in 1 .. n : s[k] \in Nat /\ s[k] = t[k]
    PROVE  total(s, n) = total(t, n)
<1>0. (\A k \in 1 .. n : s[k] \in Nat) /\ (\A k \in 1 .. n : t[k] \in Nat)
  OBVIOUS
<1>1. PICK g \in [0 .. n -> Nat] : Sums(g, s, n) /\ total(s, n) = g[n]
  BY <1>0, SumsOf
<1>2. PICK h \in [0 .. n -> Nat] : Sums(h, t, n) /\ total(t, n) = h[n]
  BY <1>0, SumsOf
<1>3. g[n] = h[n]
  BY <1>1, <1>2, SumsAgree
<1> QED BY <1>1, <1>2, <1>3

-----------------------------------------------------------------------------
(* The lengths of numbers. *)

(* Every number is below some power of two. *)
LEMMA GrowsPast == \A n \in Nat : n < pow2[n]
<1> DEFINE T == {n \in Nat : n < pow2[n]}
<1>1. 0 \in T
  BY PowStep
<1>2. ASSUME NEW n \in T PROVE n + 1 \in T
  <2>1. pow2[n + 1] = 2 * pow2[n] /\ pow2[n] \in Nat
    BY PowStep, PowNat
  <2> QED BY <2>1
<1>3. T = Nat
  <2>1. T \in SUBSET Nat
    OBVIOUS
  <2> HIDE DEF T
  <2> QED BY <1>1, <1>2, <2>1, Induction
<1> QED BY <1>3

(* The smaller power has the smaller exponent. *)
LEMMA PowStrict == ASSUME NEW m \in Nat, NEW n \in Nat, pow2[m] < pow2[n] PROVE m < n
BY PowMono, PowNat

(* A set of naturals that is not empty has a least member. *)
LEMMA LeastOf ==
    ASSUME NEW T \in SUBSET Nat, NEW t \in T
    PROVE  \E m \in T : \A k \in T : m <= k
<1> SUFFICES ASSUME \A m \in T : \E k \in T : k < m PROVE FALSE
  OBVIOUS
<1> DEFINE U == Nat \ T
<1>1. ASSUME NEW n \in Nat, \A k \in 0 .. n - 1 : k \in U PROVE n \in U
  <2>1. \A k \in T : k < n => k \in 0 .. n - 1
    OBVIOUS
  <2> QED BY <1>1, <2>1
<1>2. U = Nat
  <2>1. U \in SUBSET Nat
    OBVIOUS
  <2> HIDE DEF U
  <2> QED BY <1>1, <2>1, CompleteInduction
<1> QED BY <1>2

(* y has n bits. *)
Bits(y, n) == n \in Nat /\ y < pow2[n] /\ \A k \in Nat : k < n => pow2[k] <= y

(* Every number has a length in bits. *)
LEMMA BitsExist == ASSUME NEW y \in Nat PROVE \E n : Bits(y, n)
<1> DEFINE T == {n \in Nat : y < pow2[n]}
<1>1. y \in T
  BY GrowsPast
<1>2. PICK m \in T : \A k \in T : m <= k
  <2>1. T \in SUBSET Nat
    OBVIOUS
  <2> HIDE DEF T
  <2> QED BY <1>1, <2>1, LeastOf
<1>3. ASSUME NEW k \in Nat, k < m PROVE pow2[k] <= y
  BY <1>2, <1>3, PowNat
<1> QED BY <1>2, <1>3 DEF Bits

(* A number has one length in bits. *)
LEMMA BitsUnique == ASSUME NEW y \in Nat, NEW m, NEW n, Bits(y, m), Bits(y, n) PROVE m = n
<1>1. m \in Nat /\ n \in Nat
  BY DEF Bits
<1>2. ASSUME NEW a \in Nat, NEW b \in Nat, Bits(y, a), Bits(y, b), a < b PROVE FALSE
  BY <1>2, PowNat DEF Bits
<1> QED BY <1>1, <1>2

(* A number is one bit longer than its half. *)
LEMMA BitsHalf ==
    ASSUME NEW y \in Nat, y # 0, NEW m, Bits(y \div 2, m)
    PROVE  Bits(y, 1 + m)
<1>1. m \in Nat
  BY DEF Bits
<1>2. PICK q \in Nat, r \in Nat : q = y \div 2 /\ r < 2 /\ y = 2 * q + r
  BY DivMod, DivNat
<1>3. y < pow2[1 + m]
  <2>1. q < pow2[m] /\ pow2[m] \in Nat /\ pow2[m + 1] = 2 * pow2[m] /\ m + 1 = 1 + m
    BY <1>1, <1>2, PowNat, PowStep DEF Bits
  <2>2. y < 2 * pow2[m]
    BY <1>2, <2>1
  <2> QED BY <2>1, <2>2
<1>4. ASSUME NEW k \in Nat, k < 1 + m PROVE pow2[k] <= y
  <2>1. CASE k = 0
    BY <2>1, PowStep
  <2>2. CASE k # 0
    <3>1. PICK j \in Nat : k = j + 1 /\ j < m
      <4>1. k - 1 \in Nat /\ k = (k - 1) + 1 /\ k - 1 < m
        BY <1>1, <1>4, <2>2
      <4> QED BY <4>1
    <3>2. pow2[j] <= q /\ pow2[j] \in Nat /\ pow2[k] = 2 * pow2[j]
      BY <1>2, <3>1, PowNat, PowStep DEF Bits
    <3> QED BY <1>2, <3>2
  <2> QED BY <2>1, <2>2
<1>5. 1 + m \in Nat
  BY <1>1
<1> QED BY <1>3, <1>4, <1>5 DEF Bits

(* The number 0 has no bits. *)
LEMMA Bits0 == ASSUME NEW n, Bits(0, n) PROVE n = 0
<1>1. n \in Nat /\ (0 < n => pow2[0] <= 0)
  BY DEF Bits
<1> QED BY <1>1, PowStep

Lens(g, x) == g = [y \in 0 .. x |-> IF y = 0 THEN 0 ELSE 1 + g[y \div 2]]

(* Halving a number makes it smaller. *)
LEMMA HalfOf == ASSUME NEW y \in Nat, y # 0 PROVE y \div 2 \in 0 .. y - 1
OBVIOUS

(* bits.Len64 computes the length in bits. *)
LEMMA Len64Is == ASSUME NEW x \in Nat PROVE Bits(x, Len64(x))
<1>1. PICK h : h = [y \in 0 .. x |-> CHOOSE n : Bits(y, n)]
  OBVIOUS
<1>2. \A y \in 0 .. x : Bits(y, h[y])
  BY <1>1, BitsExist
<1>3. Lens(h, x)
  <2>1. h = [y \in 0 .. x |-> h[y]]
    BY <1>1
  <2>2. 0 \in 0 .. x => h[0] = 0
    BY <1>2, Bits0
  <2>3. ASSUME NEW y \in 0 .. x, y # 0 PROVE h[y] = 1 + h[y \div 2]
    <3>1. y \in Nat /\ y \div 2 \in 0 .. x
      BY <2>3, HalfOf
    <3>2. Bits(y, 1 + h[y \div 2])
      BY <1>2, <2>3, <3>1, BitsHalf
    <3> QED BY <1>2, <3>1, <3>2, BitsUnique
  <2> QED BY <2>1, <2>2, <2>3 DEF Lens
<1> DEFINE g == CHOOSE f : f = [y \in 0 .. x |-> IF y = 0 THEN 0 ELSE 1 + f[y \div 2]]
<1>4. Lens(g, x)
  BY <1>3 DEF Lens
<1>5. Len64(x) = g[x]
  BY DEF Len64
<1> HIDE DEF g
<1> DEFINE T == {y \in Nat : y <= x => Bits(y, g[y])}
<1>6. ASSUME NEW y \in Nat, \A k \in 0 .. y - 1 : k \in T PROVE y \in T
  <2> SUFFICES ASSUME y <= x PROVE Bits(y, g[y])
    OBVIOUS
  <2>1. CASE y = 0
    <3>1. g[0] = 0
      BY <1>4 DEF Lens
    <3>2. Bits(0, 0)
      BY PowStep DEF Bits
    <3> QED BY <2>1, <3>1, <3>2
  <2>2. CASE y # 0
    <3>1. y \div 2 \in 0 .. y - 1 /\ y \div 2 <= x
      BY <2>2, HalfOf
    <3>2. Bits(y \div 2, g[y \div 2])
      BY <1>6, <3>1
    <3>3. g[y] = 1 + g[y \div 2]
      BY <1>4, <2>2 DEF Lens
    <3> QED BY <2>2, <3>2, <3>3, BitsHalf
  <2> QED BY <2>1, <2>2
<1>7. T = Nat
  <2>1. T \in SUBSET Nat
    OBVIOUS
  <2> HIDE DEF T
  <2> QED BY <1>6, <2>1, CompleteInduction
<1> QED BY <1>5, <1>7

(* v has n groups of seven bits. *)
Sevens(v, n) ==
    /\ n \in Nat /\ n >= 1 /\ v < pow2[7 * n]
    /\ \A k \in Nat : 1 <= k /\ k < n => pow2[7 * k] <= v

(* sov is the number of groups of seven bits, which is at most MaxGroups for
   a word. *)
LEMMA SovIs ==
    ASSUME NEW v \in Nat
    PROVE  Sevens(v, sov(v)) /\ (v < Word => sov(v) <= MaxGroups)
<1>1. PICK y \in Nat : y = (IF v = 0 THEN 1 ELSE v) /\ v <= y /\ y >= 1
  OBVIOUS
<1>2. PICK l \in Nat : l = Len64(y) /\ Bits(y, l)
  BY Len64Is DEF Bits
<1>3. l >= 1
  <2>1. l = 0 => y < pow2[0]
    BY <1>2 DEF Bits
  <2> QED BY <1>1, <2>1, PowStep
<1>4. PICK n \in Nat : n = (l + 6) \div 7 /\ n >= 1 /\ 7 * n >= l /\ 7 * n <= l + 6
  BY <1>3
<1>5. sov(v) = n
  BY <1>1, <1>2, <1>4 DEF sov
<1>6. v < pow2[7 * n]
  <2>1. pow2[l] <= pow2[7 * n]
    BY <1>4, PowMono
  <2>2. y < pow2[l] /\ pow2[l] \in Nat /\ pow2[7 * n] \in Nat
    BY <1>2, <1>4, PowNat DEF Bits
  <2> QED BY <1>1, <2>1, <2>2
<1>7. ASSUME NEW k \in Nat, 1 <= k, k < n PROVE pow2[7 * k] <= v
  <2>1. 7 * k < l /\ 7 * k \in Nat
    BY <1>4, <1>7
  <2>2. pow2[7 * k] <= y
    BY <1>2, <2>1 DEF Bits
  <2>3. v # 0
    <3>1. v = 0 => y = 1
      BY <1>1
    <3>2. pow2[1] = 2 /\ 1 \in Nat /\ 1 <= 7 * k
      <4>1. pow2[0 + 1] = 2 * pow2[0]
        BY PowStep
      <4> QED BY <1>7, <4>1, PowStep
    <3>3. pow2[1] <= pow2[7 * k] /\ pow2[7 * k] \in Nat
      BY <2>1, <3>2, PowMono, PowNat
    <3> QED BY <2>2, <3>1, <3>2, <3>3
  <2> QED BY <1>1, <2>2, <2>3
<1>8. ASSUME v < Word PROVE n <= MaxGroups
  <2>1. y < pow2[WordBits]
    BY <1>1, <1>8, WordFacts DEF Word
  <2>2. l - 1 \in Nat /\ pow2[l - 1] <= y
    BY <1>2, <1>3 DEF Bits
  <2>3. l - 1 < WordBits
    <3>1. pow2[l - 1] < pow2[WordBits]
      BY <2>1, <2>2, PowNat, Widths
    <3> QED BY <2>2, <3>1, PowStrict, Widths
  <2> QED BY <1>4, <2>3, Widths DEF MaxGroups
<1> QED BY <1>4, <1>5, <1>6, <1>7, <1>8 DEF Sevens

(* A number needs one number of groups. *)
LEMMA SevensUnique == ASSUME NEW v \in Nat, NEW m, NEW n, Sevens(v, m), Sevens(v, n) PROVE m = n
<1>1. m \in Nat /\ n \in Nat /\ m >= 1 /\ n >= 1
  BY DEF Sevens
<1>2. ASSUME NEW a \in Nat, NEW b \in Nat, Sevens(v, a), Sevens(v, b), a < b PROVE FALSE
  <2>1. a >= 1 /\ v < pow2[7 * a] /\ pow2[7 * a] <= v
    BY <1>2 DEF Sevens
  <2>2. pow2[7 * a] \in Nat
    BY PowNat
  <2> QED BY <2>1, <2>2
<1> QED BY <1>1, <1>2

-----------------------------------------------------------------------------
(* Varints. *)

(* What is left of a number after k groups of seven bits. *)
LEMMA ShiftedFacts ==
    ASSUME NEW v \in Nat, NEW k \in Nat
    PROVE  /\ shifted(v, k) \in Nat
           /\ shifted(v, k) < 128 <=> v < pow2[7 * (k + 1)]
           /\ shifted(v, k + 1) = shifted(v, k) \div 128
           /\ pow2[7 * (k + 1)] = 128 * pow2[7 * k]
<1>1. PICK p \in Nat : p = pow2[7 * k] /\ p >= 1
  BY PowNat
<1>2. pow2[7 * (k + 1)] = p * 128
  <2>1. 7 * k \in Nat /\ 7 * (k + 1) = 7 * k + 7
    OBVIOUS
  <2>2. pow2[7 * k + 7] = pow2[7 * k] * pow2[7]
    BY <2>1, PowSum
  <2> QED BY <1>1, <2>1, <2>2, Pow8
<1>3. PICK q \in Nat, r \in Nat : q = v \div p /\ r < p /\ v = p * q + r
  <2>1. v \in Int /\ v \div p \in Nat
    BY <1>1, DivNat
  <2>2. v % p \in Nat /\ v % p < p /\ v = p * (v \div p) + (v % p)
    BY <1>1, <2>1, DivMod
  <2> QED BY <2>1, <2>2
<1>4. q < 128 => v < p * 128
  <2> SUFFICES ASSUME q < 128 PROVE v < p * 128
    OBVIOUS
  <2>1. PICK j \in Nat : 128 = q + 1 + j
    <3>1. 127 - q \in Nat /\ 128 = q + 1 + (127 - q)
      OBVIOUS
    <3> QED BY <3>1
  <2>2. p * 128 = p * q + p + p * j /\ p * j \in Nat /\ p * q \in Nat
    BY <2>1
  <2> QED BY <1>3, <2>2
<1>5. q >= 128 => v >= p * 128
  <2> SUFFICES ASSUME q >= 128 PROVE v >= p * 128
    OBVIOUS
  <2>1. PICK j \in Nat : q = 128 + j
    <3>1. q - 128 \in Nat /\ q = 128 + (q - 128)
      OBVIOUS
    <3> QED BY <3>1
  <2>2. p * q = p * 128 + p * j /\ p * j \in Nat /\ p * q \in Nat
    BY <2>1
  <2> QED BY <1>3, <2>2
<1>6. (v \div p) \div 128 = v \div (p * 128)
  BY <1>1, DivTwice
<1>7. shifted(v, k) = q /\ shifted(v, k + 1) = v \div (p * 128)
  BY <1>1, <1>2, <1>3 DEF shifted
<1>8. p * 128 = 128 * p
  OBVIOUS
<1> QED BY <1>1, <1>2, <1>3, <1>4, <1>5, <1>6, <1>7, <1>8

(* A varint of a word has at least four groups at most. *)
LEMMA MaxGroupsNat == MaxGroups \in Nat /\ MaxGroups >= 4
BY Widths DEF MaxGroups

(* The loop of encodeVarint writes as many groups as sov has counted. *)
LEMMA LastGroupIs == ASSUME NEW v \in Nat, v < Word PROVE lastGroup(v) = sov(v)
<1> DEFINE P(n) == /\ shifted(v, n - 1) < 128
                   /\ \A k \in 1 .. n - 1 : shifted(v, k - 1) >= 128
<1>1. ASSUME NEW n \in 1 .. MaxGroups PROVE P(n) <=> Sevens(v, n)
  <2>1. n \in Nat /\ n >= 1 /\ n - 1 \in Nat /\ (n - 1) + 1 = n
    BY MaxGroupsNat
  <2>2. shifted(v, n - 1) < 128 <=> v < pow2[7 * n]
    BY <2>1, ShiftedFacts
  <2>3. ASSUME NEW k \in Nat, k >= 1 PROVE shifted(v, k - 1) >= 128 <=> pow2[7 * k] <= v
    <3>1. k - 1 \in Nat /\ (k - 1) + 1 = k
      BY <2>3
    <3>2. shifted(v, k - 1) \in Nat /\ (shifted(v, k - 1) < 128 <=> v < pow2[7 * k])
      BY <3>1, ShiftedFacts
    <3>3. pow2[7 * k] \in Nat
      BY PowNat
    <3> QED BY <3>2, <3>3
  <2>4. \A k : k \in 1 .. n - 1 <=> k \in Nat /\ 1 <= k /\ k < n
    BY <2>1
  <2> QED BY <2>1, <2>2, <2>3, <2>4 DEF Sevens
<1>2. Sevens(v, sov(v)) /\ sov(v) \in 1 .. MaxGroups
  <2>1. Sevens(v, sov(v)) /\ sov(v) <= MaxGroups
    BY SovIs
  <2> QED BY <2>1, MaxGroupsNat DEF Sevens
<1>3. lastGroup(v) = CHOOSE n \in 1 .. MaxGroups : P(n)
  BY DEF lastGroup
<1> HIDE DEF P
<1>4. lastGroup(v) \in 1 .. MaxGroups /\ P(lastGroup(v))
  BY <1>1, <1>2, <1>3
<1> QED BY <1>1, <1>2, <1>4, SevensUnique

(* The bytes that encodeVarint writes: all but the last have the top bit
   set. *)
LEMMA GroupsFacts ==
    ASSUME NEW v \in Nat, v < Word
    PROVE  /\ groups(v) \in Seq(Byte) /\ Len(groups(v)) = sov(v)
           /\ sov(v) \in Nat /\ sov(v) >= 1 /\ sov(v) <= MaxGroups
           /\ \A k \in 1 .. sov(v) - 1 : groups(v)[k] = 128 + (shifted(v, k - 1) % 128)
           /\ \A k \in 1 .. sov(v) - 1 : groups(v)[k] >= 128
           /\ groups(v)[sov(v)] = shifted(v, sov(v) - 1) /\ shifted(v, sov(v) - 1) < 128
<1>1. PICK n \in Nat : n = sov(v) /\ n >= 1 /\ Sevens(v, n) /\ n <= MaxGroups
  BY SovIs DEF Sevens
<1>2. groups(v) = [k \in 1 .. n |->
                      IF k < n THEN 128 + (shifted(v, k - 1) % 128) ELSE shifted(v, k - 1)]
  BY <1>1, LastGroupIs DEF groups
<1>3. shifted(v, n - 1) < 128 /\ shifted(v, n - 1) \in Nat
  <2>1. n - 1 \in Nat /\ (n - 1) + 1 = n
    BY <1>1
  <2> QED BY <1>1, <2>1, ShiftedFacts DEF Sevens
<1>4. ASSUME NEW k \in 1 .. n PROVE k - 1 \in Nat /\ shifted(v, k - 1) \in Nat
  <2>1. k - 1 \in Nat
    OBVIOUS
  <2> QED BY <2>1, ShiftedFacts
<1>5. \A k \in 1 .. n : groups(v)[k] \in Byte /\ (k < n => groups(v)[k] >= 128)
  <2>1. ASSUME NEW x \in Nat PROVE 128 + (x % 128) \in Byte /\ 128 + (x % 128) >= 128
    BY <2>1 DEF Byte
  <2>2. ASSUME NEW x \in Nat, x < 128 PROVE x \in Byte
    BY <2>2 DEF Byte
  <2>3. ASSUME NEW k \in 1 .. n, k < n PROVE groups(v)[k] = 128 + (shifted(v, k - 1) % 128)
    BY <1>2, <2>3
  <2>4. groups(v)[n] = shifted(v, n - 1)
    BY <1>1, <1>2
  <2>5. \A k \in 1 .. n : k < n \/ k = n
    OBVIOUS
  <2> QED BY <1>3, <1>4, <2>1, <2>2, <2>3, <2>4, <2>5
<1>6. groups(v) \in [1 .. n -> Byte]
  BY <1>2, <1>5
<1>7. groups(v) \in Seq(Byte) /\ Len(groups(v)) = n
  BY <1>6, SeqDef, LenProperties
<1>8. \A k \in 1 .. n - 1 : k \in 1 .. n /\ k < n
  OBVIOUS
<1> QED BY <1>1, <1>2, <1>3, <1>5, <1>7, <1>8

(* The room is filled. *)
LEMMA EncodeVarint ==
    ASSUME NEW v \in Nat, v < Word, NEW d \in Seq(Byte)
    PROVE  encodeVarint(d, v) = groups(v) \o d
<1>1. PICK n \in Nat, s \in Seq(Byte) : n = sov(v) /\ s = groups(v) /\ Len(s) = n /\ DOMAIN s = 1 .. n
  BY GroupsFacts, LenProperties
<1>2. encodeVarint(d, v) = [k \in 1 .. n + Len(d) |-> IF k \in 1 .. n THEN s[k] ELSE IF k <= n THEN 0 ELSE d[k - n]]
  BY <1>1 DEF encodeVarint
<1>3. PICK e : e = [k \in 1 .. n + Len(d) |-> IF k \in 1 .. n THEN s[k] ELSE IF k <= n THEN 0 ELSE d[k - n]]
  OBVIOUS
<1>4. /\ s \o d \in Seq(Byte) /\ Len(s \o d) = n + Len(d)
      /\ \A k \in 1 .. n + Len(d) : (s \o d)[k] = IF k <= n THEN s[k] ELSE d[k - n]
  <2>1. /\ s \o d \in Seq(Byte) /\ Len(s \o d) = Len(s) + Len(d)
        /\ \A k \in 1 .. Len(s) + Len(d) : (s \o d)[k] = IF k <= Len(s) THEN s[k] ELSE d[k - Len(s)]
    BY ConcatProperties
  <2> QED BY <1>1, <2>1
<1>5. Len(d) \in Nat
  BY LenProperties
<1>6. \A k \in 1 .. n + Len(d) : e[k] = (s \o d)[k]
  BY <1>3, <1>4, <1>5
<1>7. DOMAIN e = 1 .. n + Len(d) /\ DOMAIN (s \o d) = 1 .. n + Len(d)
  BY <1>3, <1>4, LenProperties
<1>8. e = [k \in 1 .. n + Len(d) |-> e[k]] /\ s \o d = [k \in 1 .. n + Len(d) |-> (s \o d)[k]]
  <2>1. PICK m : m = s \o d
    OBVIOUS
  <2>2. m \in [1 .. Len(m) -> Byte]
    BY <1>4, <2>1, LenProperties
  <2> QED BY <1>3, <1>4, <2>1, <2>2
<1> QED BY <1>1, <1>2, <1>3, <1>6, <1>8

(* Whatever the number, encodeVarint makes room for sov bytes. *)
LEMMA EncodeVarintLen ==
    ASSUME NEW v \in Nat, NEW d, Len(d) \in Nat
    PROVE  Len(encodeVarint(d, v)) = sov(v) + Len(d) /\ sov(v) \in Nat
<1>1. PICK n \in Nat : n = sov(v)
  BY SovIs DEF Sevens
<1>2. PICK s : s = groups(v)
  OBVIOUS
<1>3. encodeVarint(d, v) = [k \in 1 .. n + Len(d) |-> IF k \in DOMAIN s THEN s[k] ELSE IF k <= n THEN 0 ELSE d[k - n]]
  BY <1>1, <1>2 DEF encodeVarint
<1> QED BY <1>1, <1>3

(* The bytes s stand in b behind the first i. *)
Has(b, i, s) == i + Len(s) <= Len(b) /\ \A k \in 1 .. Len(s) : b[i + k] = s[k]

weights(b, i, n) == [k \in 1 .. n |-> (b[i + k] % 128) * pow2[7 * (k - 1)]]

(* What each group adds to the value is a natural number. *)
LEMMA WeightsNat ==
    ASSUME NEW b \in Seq(Byte), NEW i \in Nat, NEW n \in Nat, i + n <= Len(b)
    PROVE  \A k \in 1 .. n : weights(b, i, n)[k] \in Nat
<1> SUFFICES ASSUME NEW k \in 1 .. n PROVE weights(b, i, n)[k] \in Nat
  OBVIOUS
<1>1. b[i + k] \in Byte
  <2>1. i + k \in 1 .. Len(b)
    BY LenProperties
  <2> QED BY <2>1, ElementOfSeq
<1>2. PICK x \in Nat : x = b[i + k] % 128
  <2>1. PICK y \in Byte : y = b[i + k]
    BY <1>1
  <2>2. y % 128 \in Nat
    BY DEF Byte
  <2> QED BY <2>1, <2>2
<1>3. PICK p \in Nat : p = pow2[7 * (k - 1)]
  BY PowNat
<1>4. x * p \in Nat
  OBVIOUS
<1> QED BY <1>2, <1>3, <1>4 DEF weights

(* Min is the least member. *)
LEMMA MinIs ==
    ASSUME NEW S \in SUBSET Nat, NEW n \in S, \A k \in S : n <= k
    PROVE  Min(S) = n
<1>1. Min(S) \in S /\ \A k \in S : Min(S) <= k
  BY DEF Min
<1>2. PICK m \in S : m = Min(S)
  BY <1>1
<1>3. m <= n /\ n <= m /\ m \in Nat /\ n \in Nat
  BY <1>1, <1>2
<1> QED BY <1>2, <1>3

(* A varint is read up to the first byte without the top bit. *)
LEMMA ReadVarintAt ==
    ASSUME NEW b, NEW i, NEW n \in varintEnds(b, i), \A k \in varintEnds(b, i) : n <= k
    PROVE  readVarint(b, i) = read(uint64(total(weights(b, i, n), n)), i + n)
<1>1. varintEnds(b, i) \in SUBSET Nat
  BY MaxGroupsNat DEF varintEnds
<1>2. Min(varintEnds(b, i)) = n
  BY <1>1, MinIs
<1>3. readVarint(b, i) = read(varint(b, i, n), i + n)
  BY <1>2 DEF readVarint
<1> QED BY <1>3 DEF varint, weights

(* A varint takes a byte at least and stays within the bytes. *)
LEMMA ReadVarint ==
    ASSUME NEW b \in Seq(Byte), NEW i \in Nat
    PROVE  \/ \E n \in Nat, v \in Nat :
                 n >= 1 /\ i + n <= Len(b) /\ v < Word /\ readVarint(b, i) = read(v, i + n)
           \/ readVarint(b, i) = fail("IntOverflow")
           \/ readVarint(b, i) = fail("UnexpectedEOF")
<1>1. CASE varintEnds(b, i) # {}
  <2>1. varintEnds(b, i) \in SUBSET Nat
    BY MaxGroupsNat DEF varintEnds
  <2>2. PICK n \in varintEnds(b, i) : \A k \in varintEnds(b, i) : n <= k
    BY <1>1, <2>1, LeastOf
  <2>3. n \in Nat /\ n >= 1 /\ i + n <= Len(b)
    BY <2>2, MaxGroupsNat DEF varintEnds
  <2>4. total(weights(b, i, n), n) \in Nat
    BY <2>3, WeightsNat, TotalNat
  <2>5. PICK v \in Nat : v = uint64(total(weights(b, i, n), n)) /\ v < Word
    BY <2>4, ConversionTypes
  <2>6. readVarint(b, i) = read(v, i + n)
    BY <2>2, <2>5, ReadVarintAt
  <2> QED BY <2>3, <2>5, <2>6
<1>2. CASE varintEnds(b, i) = {}
  BY <1>2 DEF readVarint, varintEnds
<1> QED BY <1>1, <1>2

(* The groups below j and what is left after j shifts. *)
Telescopes(v, w, j, p, x, q, r, t) ==
    /\ p = pow2[7 * j] /\ pow2[7 * (j + 1)] = 128 * p
    /\ x = shifted(v, j) /\ q = shifted(v, j + 1) /\ r = x % 128 /\ x = 128 * q + r
    /\ t = total(w, j) /\ total(w, j + 1) = t + r * p

(* What encodeVarint wrote is read back. *)
LEMMA ReadBack ==
    ASSUME NEW b \in Seq(Byte), NEW i \in Nat, NEW v \in Nat, v < Word, Has(b, i, groups(v))
    PROVE  readVarint(b, i) = read(v, i + sov(v))
<1>1. PICK n \in Nat, s \in Seq(Byte) : /\ n = sov(v) /\ n >= 1 /\ n <= MaxGroups
                                        /\ s = groups(v) /\ Len(s) = n
  BY GroupsFacts
<1>2. /\ i + n <= Len(b)
      /\ \A k \in 1 .. n : b[i + k] = s[k]
  BY <1>1 DEF Has
<1>3. /\ \A k \in 1 .. n - 1 : s[k] = 128 + (shifted(v, k - 1) % 128)
      /\ \A k \in 1 .. n - 1 : s[k] >= 128
      /\ s[n] = shifted(v, n - 1) /\ shifted(v, n - 1) < 128
  BY <1>1, GroupsFacts
<1>4. n \in varintEnds(b, i)
  BY <1>1, <1>2, <1>3, MaxGroupsNat DEF varintEnds
<1>5. ASSUME NEW k \in varintEnds(b, i) PROVE n <= k
  <2>1. k \in Nat /\ k >= 1 /\ b[i + k] < 128
    BY <1>5, MaxGroupsNat DEF varintEnds
  <2>2. ASSUME k < n PROVE FALSE
    <3>1. k \in 1 .. n - 1 /\ k \in 1 .. n
      BY <2>1, <2>2
    <3>2. PICK x \in Byte : x = b[i + k] /\ x >= 128
      BY <1>1, <1>2, <1>3, <3>1, ElementOfSeq
    <3> QED BY <2>1, <3>2 DEF Byte
  <2> QED BY <2>1, <2>2
<1>6. PICK w : w = weights(b, i, n)
  OBVIOUS
<1>7. \A k \in 1 .. n : w[k] \in Nat
  BY <1>2, <1>6, WeightsNat
<1>8. ASSUME NEW k \in 1 .. n PROVE w[k] = (shifted(v, k - 1) % 128) * pow2[7 * (k - 1)]
  <2>1. w[k] = (s[k] % 128) * pow2[7 * (k - 1)]
    BY <1>2, <1>6 DEF weights
  <2>2. PICK x \in Nat : x = shifted(v, k - 1)
    <3>1. k - 1 \in Nat
      OBVIOUS
    <3> QED BY <3>1, ShiftedFacts
  <2>3. CASE k < n
    <3>1. s[k] = 128 + (x % 128)
      BY <1>3, <2>2, <2>3
    <3>2. (128 + (x % 128)) % 128 = x % 128
      OBVIOUS
    <3> QED BY <2>1, <2>2, <3>1, <3>2
  <2>4. CASE k = n
    <3>1. s[k] = x
      BY <1>3, <2>2, <2>4
    <3> QED BY <2>1, <2>2, <3>1
  <2> QED BY <2>3, <2>4
<1> DEFINE T == {j \in Nat : j < n => total(w, j) + shifted(v, j) * pow2[7 * j] = v}
<1>9. 0 \in T
  <2>1. total(w, 0) = 0
    BY TotalZero
  <2>2. 7 * 0 = 0 /\ v \div 1 = v
    OBVIOUS
  <2>3. pow2[7 * 0] = 1 /\ shifted(v, 0) = v
    BY <2>2, PowStep DEF shifted
  <2> QED BY <2>1, <2>3
<1>10. ASSUME NEW j \in Nat, j + 1 <= n
       PROVE  \E p \in Nat, x \in Nat, q \in Nat, r \in Nat, t \in Nat :
                 Telescopes(v, w, j, p, x, q, r, t)
  <2>0. /\ shifted(v, j) \in Nat /\ shifted(v, j + 1) = shifted(v, j) \div 128
        /\ pow2[7 * (j + 1)] = 128 * pow2[7 * j]
    BY ShiftedFacts
  <2>1. PICK p \in Nat : p = pow2[7 * j] /\ pow2[7 * (j + 1)] = 128 * p
    <3>1. 7 * j \in Nat
      OBVIOUS
    <3> QED BY <2>0, <3>1, PowNat
  <2>2. PICK x \in Nat : x = shifted(v, j) /\ shifted(v, j + 1) = x \div 128
    BY <2>0
  <2>3. PICK q \in Nat, r \in Nat : q = x \div 128 /\ r = x % 128 /\ x = 128 * q + r
    OBVIOUS
  <2>4. \A k \in 1 .. j + 1 : w[k] \in Nat
    BY <1>7, <1>10
  <2>5. total(w, j + 1) = total(w, j) + w[j + 1] /\ total(w, j) \in Nat
    BY <2>4, TotalStep, TotalNat
  <2>6. j + 1 \in 1 .. n /\ (j + 1) - 1 = j
    BY <1>10
  <2>7. w[j + 1] = r * p
    BY <1>8, <2>1, <2>2, <2>3, <2>6
  <2>8. PICK t \in Nat : t = total(w, j) /\ total(w, j + 1) = t + r * p
    BY <2>5, <2>7
  <2>9. q = shifted(v, j + 1)
    BY <2>2, <2>3
  <2>10. Telescopes(v, w, j, p, x, q, r, t)
    BY <2>1, <2>2, <2>3, <2>8, <2>9 DEF Telescopes
  <2> QED BY <2>10
<1>11. ASSUME NEW j \in T PROVE j + 1 \in T
  <2> SUFFICES ASSUME j + 1 < n
               PROVE  total(w, j + 1) + shifted(v, j + 1) * pow2[7 * (j + 1)] = v
    OBVIOUS
  <2>1. PICK p \in Nat, x \in Nat, q \in Nat, r \in Nat, t \in Nat :
                 Telescopes(v, w, j, p, x, q, r, t)
    <3>1. j + 1 <= n
      OBVIOUS
    <3> QED BY Zenon, <1>10, <3>1
  <2>2. t + x * p = v
    <3>1. total(w, j) + shifted(v, j) * pow2[7 * j] = v
      OBVIOUS
    <3> QED BY <2>1, <3>1 DEF Telescopes
  <2>3. (128 * q + r) * p = q * (128 * p) + r * p /\ q * (128 * p) \in Nat /\ r * p \in Nat
    OBVIOUS
  <2>4. t + ((128 * q + r) * p) = v
    BY <2>1, <2>2 DEF Telescopes
  <2>5. (t + r * p) + q * (128 * p) = v
    BY <2>3, <2>4
  <2> QED BY <2>1, <2>5 DEF Telescopes
<1>12. T = Nat
  <2>1. T \in SUBSET Nat
    OBVIOUS
  <2> HIDE DEF T
  <2> QED BY <1>9, <1>11, <2>1, Induction
<1>13. total(w, n) = v
  <2>1. PICK j \in Nat : n = j + 1
    <3>1. n - 1 \in Nat /\ n = (n - 1) + 1
      BY <1>1
    <3> QED BY <3>1
  <2>2. PICK p \in Nat, x \in Nat, q \in Nat, r \in Nat, t \in Nat :
           Telescopes(v, w, j, p, x, q, r, t)
    <3>1. j + 1 <= n
      BY <2>1
    <3> QED BY Zenon, <1>10, <3>1
  <2>3. x < 128 /\ r = x
    <3>1. n - 1 = j
      BY <2>1
    <3>2. x < 128
      BY <1>3, <2>2, <3>1 DEF Telescopes
    <3>3. r = x % 128
      BY <2>2 DEF Telescopes
    <3> QED BY <3>2, <3>3
  <2>4. t + x * p = v
    <3>1. j < n
      BY <2>1
    <3>2. total(w, j) + shifted(v, j) * pow2[7 * j] = v
      BY <1>12, <3>1
    <3> QED BY <2>2, <3>2 DEF Telescopes
  <2> QED BY <2>1, <2>2, <2>3, <2>4 DEF Telescopes
<1>14. uint64(total(w, n)) = v
  BY <1>13, SmallIsItself
<1> QED BY <1>1, <1>4, <1>5, <1>6, <1>14, ReadVarintAt

(* A varint that is cut off is not read. *)
LEMMA ReadCut ==
    ASSUME NEW b \in Seq(Byte), NEW i \in Nat, i <= Len(b), NEW v \in Nat, v < Word,
           Len(b) < i + sov(v), \A k \in 1 .. Len(b) - i : b[i + k] = groups(v)[k]
    PROVE  readVarint(b, i) = fail("UnexpectedEOF")
<1>1. PICK n \in Nat, l \in Nat : n = sov(v) /\ n <= MaxGroups /\ l = Len(b)
  BY GroupsFacts, LenProperties
<1>2. varintEnds(b, i) = {}
  <2> SUFFICES ASSUME NEW k \in varintEnds(b, i) PROVE FALSE
    OBVIOUS
  <2>1. k \in Nat /\ k >= 1 /\ i + k <= l /\ b[i + k] < 128
    BY <1>1, MaxGroupsNat DEF varintEnds
  <2>2. k \in 1 .. l - i /\ k \in 1 .. n - 1
    BY <1>1, <2>1
  <2>3. groups(v)[k] >= 128 /\ groups(v)[k] = b[i + k]
    BY <1>1, <2>2, GroupsFacts
  <2>4. PICK x \in Byte : x = b[i + k]
    <3>1. i + k \in 1 .. Len(b)
      BY <1>1, <2>1
    <3> QED BY <3>1, ElementOfSeq
  <2> QED BY <2>1, <2>3, <2>4 DEF Byte
<1>3. ~ (Len(b) - i >= MaxGroups)
  BY <1>1, MaxGroupsNat
<1> QED BY <1>2, <1>3 DEF readVarint, varintEnds

-----------------------------------------------------------------------------
(* Eight bytes. *)

bytesOf(u, k) == u \div pow2[8 * k]

ByteStep(u, k, p, x, q, r) ==
    /\ p = pow2[8 * k] /\ pow2[8 * (k + 1)] = 256 * p
    /\ x = bytesOf(u, k) /\ q = bytesOf(u, k + 1) /\ r = x % 256 /\ x = 256 * q + r
    /\ r \in Byte

(* One byte of a fixed width number, as quotient and remainder. *)
LEMMA BytesOfStep ==
    ASSUME NEW u \in Nat, NEW k \in Nat
    PROVE  \E p \in Nat, x \in Nat, q \in Nat, r \in Nat : ByteStep(u, k, p, x, q, r)
<1>1. PICK p \in Nat : p = pow2[8 * k] /\ p >= 1
  BY PowNat
<1>2. pow2[8 * (k + 1)] = p * 256
  <2>1. 8 * k \in Nat /\ 8 * (k + 1) = 8 * k + 8
    OBVIOUS
  <2>2. pow2[8 * k + 8] = pow2[8 * k] * pow2[8]
    BY <2>1, PowSum
  <2> QED BY <1>1, <2>1, <2>2, Pow8
<1>3. PICK x \in Nat : x = u \div p
  BY <1>1, DivNat
<1>4. PICK q \in Nat, r \in Nat : q = x \div 256 /\ r = x % 256 /\ r < 256 /\ x = 256 * q + r
  OBVIOUS
<1>5. (u \div p) \div 256 = u \div (p * 256)
  BY <1>1, DivTwice
<1>6. x = bytesOf(u, k) /\ q = bytesOf(u, k + 1)
  BY <1>1, <1>2, <1>3, <1>4, <1>5 DEF bytesOf
<1>7. p * 256 = 256 * p
  OBVIOUS
<1>8. r \in Byte
  BY <1>4 DEF Byte
<1>9. ByteStep(u, k, p, x, q, r)
  BY <1>1, <1>2, <1>4, <1>6, <1>7, <1>8 DEF ByteStep
<1> QED BY <1>9

WordBytes == WordBits \div 8

(* The number of bytes in a word. *)
LEMMA WordBytesNat == WordBytes \in Nat /\ WordBytes >= 3 /\ 8 * WordBytes = WordBits
BY Widths DEF WordBytes

(* The bytes that a fixed64 is written as. *)
LEMMA Fixed64Facts ==
    ASSUME NEW x \in Int
    PROVE  /\ fixed64(x) \in Seq(Byte) /\ Len(fixed64(x)) = WordBytes
           /\ \A k \in 1 .. WordBytes : fixed64(x)[k] = bytesOf(uint64(x), k - 1) % 256
<1>1. PICK n \in Nat : n = WordBytes
  BY WordBytesNat
<1>2. PICK u \in Nat : u = uint64(x)
  BY ConversionTypes
<1>3. fixed64(x) = [k \in 1 .. n |-> bytesOf(u, k - 1) % 256]
  BY <1>1, <1>2 DEF fixed64, bytesOf, WordBytes
<1>4. ASSUME NEW k \in 1 .. n PROVE bytesOf(u, k - 1) % 256 \in Byte
  <2>1. k - 1 \in Nat
    OBVIOUS
  <2>2. PICK p \in Nat, y \in Nat, q \in Nat, r \in Nat : ByteStep(u, k - 1, p, y, q, r)
    BY <2>1, BytesOfStep
  <2> QED BY <2>2 DEF ByteStep
<1>5. fixed64(x) \in [1 .. n -> Byte]
  BY <1>3, <1>4
<1>6. fixed64(x) \in Seq(Byte) /\ Len(fixed64(x)) = n
  BY <1>5, SeqDef, LenProperties
<1> QED BY <1>1, <1>2, <1>3, <1>6

eights(b, i) == [n \in 1 .. WordBytes |-> b[i + n] * pow2[8 * (n - 1)]]

(* What each byte of a fixed64 adds to the value is a natural number. *)
LEMMA EightsNat ==
    ASSUME NEW b \in Seq(Byte), NEW i \in Nat, i + WordBytes <= Len(b)
    PROVE  \A k \in 1 .. WordBytes : eights(b, i)[k] \in Nat
<1> SUFFICES ASSUME NEW k \in 1 .. WordBytes PROVE eights(b, i)[k] \in Nat
  OBVIOUS
<1>1. PICK y \in Byte : y = b[i + k]
  <2>1. i + k \in 1 .. Len(b)
    BY WordBytesNat, LenProperties
  <2> QED BY <2>1, ElementOfSeq
<1>2. PICK p \in Nat : p = pow2[8 * (k - 1)]
  <2>1. 8 * (k - 1) \in Nat
    BY WordBytesNat
  <2> QED BY <2>1, PowNat
<1>3. y \in Nat
  BY DEF Byte
<1>4. y * p \in Nat
  BY <1>3
<1> QED BY <1>1, <1>2, <1>4 DEF eights

(* A fixed64 is read if the buffer holds enough bytes. *)
LEMMA ReadFixed64 ==
    ASSUME NEW b \in Seq(Byte), NEW i \in Nat
    PROVE  \/ \E v \in Nat : /\ i + WordBytes <= Len(b)
                             /\ readFixed64(b, i) = read(v, i + WordBytes)
           \/ readFixed64(b, i) = fail("UnexpectedEOF")
<1>1. CASE i + WordBytes <= Len(b)
  <2>1. PICK v \in Nat : v = total(eights(b, i), WordBytes)
    BY <1>1, EightsNat, TotalNat, WordBytesNat
  <2>2. readFixed64(b, i) = read(v, i + WordBytes)
    BY <1>1, <2>1, WordBytesNat, LenProperties DEF readFixed64, eights, WordBytes
  <2> QED BY <1>1, <2>2
<1>2. CASE i + WordBytes > Len(b)
  BY <1>2 DEF readFixed64, WordBytes
<1> QED BY <1>1, <1>2, WordBytesNat, LenProperties

(* A fixed64 that was written is read back. *)
LEMMA ReadFixed64Back ==
    ASSUME NEW b \in Seq(Byte), NEW i \in Nat, NEW x \in Int, Has(b, i, fixed64(x))
    PROVE  readFixed64(b, i) = read(uint64(x), i + WordBytes)
<1>1. PICK n \in Nat, s \in Seq(Byte) : n = WordBytes /\ s = fixed64(x) /\ Len(s) = n /\ n >= 3
  BY Fixed64Facts, WordBytesNat
<1>2. PICK u \in Nat : u = uint64(x) /\ u < Word
  BY ConversionTypes
<1>3. i + n <= Len(b) /\ \A k \in 1 .. n : b[i + k] = s[k]
  BY <1>1 DEF Has
<1>4. PICK w : w = eights(b, i)
  OBVIOUS
<1>5. \A k \in 1 .. n : w[k] \in Nat
  BY <1>1, <1>3, <1>4, EightsNat
<1>6. ASSUME NEW k \in 1 .. n PROVE w[k] = (bytesOf(u, k - 1) % 256) * pow2[8 * (k - 1)]
  <2>1. w[k] = b[i + k] * pow2[8 * (k - 1)]
    BY <1>1, <1>4 DEF eights
  <2>2. b[i + k] = bytesOf(u, k - 1) % 256
    BY <1>1, <1>2, <1>3, Fixed64Facts
  <2> QED BY <2>1, <2>2
<1> DEFINE T == {j \in Nat : j <= n => total(w, j) + bytesOf(u, j) * pow2[8 * j] = u}
<1>7. 0 \in T
  <2>1. total(w, 0) = 0
    BY TotalZero
  <2>2. 8 * 0 = 0 /\ u \div 1 = u
    OBVIOUS
  <2>3. pow2[8 * 0] = 1 /\ bytesOf(u, 0) = u
    BY <2>2, PowStep DEF bytesOf
  <2> QED BY <2>1, <2>3
<1>8. ASSUME NEW j \in T PROVE j + 1 \in T
  <2> SUFFICES ASSUME j + 1 <= n
               PROVE  total(w, j + 1) + bytesOf(u, j + 1) * pow2[8 * (j + 1)] = u
    OBVIOUS
  <2>1. PICK p \in Nat, y \in Nat, q \in Nat, r \in Nat : ByteStep(u, j, p, y, q, r)
    BY BytesOfStep
  <2>2. \A k \in 1 .. j + 1 : w[k] \in Nat
    BY <1>5
  <2>3. total(w, j + 1) = total(w, j) + w[j + 1] /\ total(w, j) \in Nat
    BY <2>2, TotalStep, TotalNat
  <2>4. j + 1 \in 1 .. n /\ (j + 1) - 1 = j
    OBVIOUS
  <2>5. w[j + 1] = r * p
    <3>1. w[j + 1] = (bytesOf(u, j) % 256) * pow2[8 * j]
      BY <1>6, <2>4
    <3>2. bytesOf(u, j) % 256 = r /\ pow2[8 * j] = p
      BY <2>1 DEF ByteStep
    <3> QED BY <3>1, <3>2
  <2>6. PICK t \in Nat : t = total(w, j) /\ total(w, j + 1) = t + r * p
    BY <2>3, <2>5
  <2>7. t + y * p = u
    <3>1. total(w, j) + bytesOf(u, j) * pow2[8 * j] = u
      OBVIOUS
    <3> QED BY <2>1, <2>6, <3>1 DEF ByteStep
  <2>8. (256 * q + r) * p = q * (256 * p) + r * p /\ q * (256 * p) \in Nat /\ r * p \in Nat
    OBVIOUS
  <2>9. y = 256 * q + r
    BY <2>1 DEF ByteStep
  <2>10. t + ((256 * q + r) * p) = u
    BY <2>7, <2>9
  <2>11. (t + r * p) + q * (256 * p) = u
    BY <2>8, <2>10
  <2> QED BY <2>1, <2>6, <2>11 DEF ByteStep
<1>9. T = Nat
  <2>1. T \in SUBSET Nat
    OBVIOUS
  <2> HIDE DEF T
  <2> QED BY <1>7, <1>8, <2>1, Induction
<1>10. total(w, n) + bytesOf(u, n) * pow2[8 * n] = u
  BY <1>9
<1>11. bytesOf(u, n) = 0
  <2>1. PICK m \in Nat : m = pow2[8 * n] /\ u < m
    BY <1>1, <1>2, WordBytesNat, WordFacts DEF Word
  <2>2. u \div m = 0
    <3>1. u = m * 0 + u
      OBVIOUS
    <3> QED BY <2>1, <3>1, DivUnique
  <2> QED BY <2>1, <2>2 DEF bytesOf
<1>12. total(w, n) = u
  <2>1. PICK m \in Nat, t \in Nat : m = pow2[8 * n] /\ t = total(w, n)
    <3>1. 8 * n \in Nat
      OBVIOUS
    <3> QED BY <1>5, <3>1, PowNat, TotalNat
  <2>2. t + 0 * m = u
    BY <1>10, <1>11, <2>1
  <2> QED BY <2>1, <2>2
<1>13. readFixed64(b, i) = read(total(w, n), i + n)
  BY <1>1, <1>3, <1>4, LenProperties DEF readFixed64, eights, WordBytes
<1> QED BY <1>1, <1>2, <1>12, <1>13

-----------------------------------------------------------------------------
(* The lists of fields.  Messages with nothing but numbers and bytes, messages
   with such messages in them, and messages with those. *)

Types0 == {"DataHash", "CanonicalDataHash", "PublicKey", "Timestamp"}
Types1 == {"Vote", "CommitSig", "Proposal", "CanonicalProposal", "CanonicalVote", "Validator",
           "SimpleValidator"}
Types2 == {"Commit", "ValidatorSet"}
Types == Types0 \cup Types1 \cup Types2
Cases == {"Message_Proposal", "Message_Vote"}

(* The types of the messages that a message of type T has in it. *)
Below(T) == IF T \in Types0 THEN {} ELSE IF T \in Types1 THEN Types0 ELSE Types0 \cup Types1

Numbers == {"int32", "int64", "sfixed64"}
Messages1 == {"stdtime", "message", "pointer"}
Kinds == Numbers \cup {"bytes", "repeated"} \cup Messages1

Alike(f, g) == f.kind = g.kind /\ f.name = g.name /\ f.of = g.of

(* Size counts what Marshal writes, in the opposite order. *)
Agree(W, C) ==
    /\ Len(W) \in Nat /\ Len(C) = Len(W) /\ DOMAIN C = 1 .. Len(W) /\ DOMAIN W = 1 .. Len(W)
    /\ \A k \in 1 .. Len(W) : /\ Alike(W[k], C[Len(W) + 1 - k])
                              /\ W[k].key \in 1 .. 127
                              /\ C[k].key = 1
                              /\ W[k].kind \in Kinds

(* Unmarshal expects it under the keys that Marshal writes, and no name twice. *)
Matches(E, W) ==
    /\ Len(E) = Len(W) /\ DOMAIN E = 1 .. Len(W)
    /\ \A k \in 1 .. Len(W) : /\ Alike(E[k], W[Len(W) + 1 - k])
                              /\ E[k].key = k
                              /\ W[Len(W) + 1 - k].key = 8 * k + WireType(E[k])
                              /\ \A j \in 1 .. Len(W) : E[j].name = E[k].name => j = k

(* What the messages in a message are. *)
Nests(E, S) ==
    \A k \in DOMAIN E :
        /\ E[k].kind \notin Numbers \cup {"bytes"} => E[k].of \in S
        /\ E[k].kind = "stdtime" => E[k].of = "Timestamp"
        /\ E[k].kind = "message" => E[k].of \in Types0

(* Each Marshal and Size method treat the same fields, in the same order. *)
LEMMA Tables == ASSUME NEW T \in Types \cup Cases PROVE Agree(Written[T], Counted[T])
<1>1. Agree(MarshalDataHash, SizeDataHash)
  BY DEF Agree, Alike, Kinds, Numbers, Messages1, MarshalDataHash, SizeDataHash, field,
    Int32, Int64, Fixed64, Bytes, Time, Value, Pointer, Each
<1>2. Agree(MarshalVote, SizeVote)
  BY DEF Agree, Alike, Kinds, Numbers, Messages1, MarshalVote, SizeVote, field, Int32,
    Int64, Fixed64, Bytes, Time, Value, Pointer, Each
<1>3. Agree(MarshalCommit, SizeCommit)
  BY DEF Agree, Alike, Kinds, Numbers, Messages1, MarshalCommit, SizeCommit, field, Int32,
    Int64, Fixed64, Bytes, Time, Value, Pointer, Each
<1>4. Agree(MarshalCommitSig, SizeCommitSig)
  BY DEF Agree, Alike, Kinds, Numbers, Messages1, MarshalCommitSig, SizeCommitSig, field,
    Int32, Int64, Fixed64, Bytes, Time, Value, Pointer, Each
<1>5. Agree(MarshalProposal, SizeProposal)
  BY DEF Agree, Alike, Kinds, Numbers, Messages1, MarshalProposal, SizeProposal, field,
    Int32, Int64, Fixed64, Bytes, Time, Value, Pointer, Each
<1>6. Agree(MarshalCanonicalDataHash, SizeCanonicalDataHash)
  BY DEF Agree, Alike, Kinds, Numbers, Messages1, MarshalCanonicalDataHash,
    SizeCanonicalDataHash, field, Int32, Int64, Fixed64, Bytes, Time, Value, Pointer, Each
<1>7. Agree(MarshalCanonicalProposal, SizeCanonicalProposal)
  BY DEF Agree, Alike, Kinds, Numbers, Messages1, MarshalCanonicalProposal,
    SizeCanonicalProposal, field, Int32, Int64, Fixed64, Bytes, Time, Value, Pointer, Each
<1>8. Agree(MarshalCanonicalVote, SizeCanonicalVote)
  BY DEF Agree, Alike, Kinds, Numbers, Messages1, MarshalCanonicalVote, SizeCanonicalVote,
    field, Int32, Int64, Fixed64, Bytes, Time, Value, Pointer, Each
<1>9. Agree(MarshalValidatorSet, SizeValidatorSet)
  BY DEF Agree, Alike, Kinds, Numbers, Messages1, MarshalValidatorSet, SizeValidatorSet,
    field, Int32, Int64, Fixed64, Bytes, Time, Value, Pointer, Each
<1>10. Agree(MarshalValidator, SizeValidator)
  BY DEF Agree, Alike, Kinds, Numbers, Messages1, MarshalValidator, SizeValidator, field,
    Int32, Int64, Fixed64, Bytes, Time, Value, Pointer, Each
<1>11. Agree(MarshalSimpleValidator, SizeSimpleValidator)
  BY DEF Agree, Alike, Kinds, Numbers, Messages1, MarshalSimpleValidator,
    SizeSimpleValidator, field, Int32, Int64, Fixed64, Bytes, Time, Value, Pointer, Each
<1>12. Agree(MarshalPublicKey, SizePublicKey)
  BY DEF Agree, Alike, Kinds, Numbers, Messages1, MarshalPublicKey, SizePublicKey, field,
    Int32, Int64, Fixed64, Bytes, Time, Value, Pointer, Each
<1>13. Agree(MarshalTimestamp, SizeTimestamp)
  BY DEF Agree, Alike, Kinds, Numbers, Messages1, MarshalTimestamp, SizeTimestamp, field,
    Int32, Int64, Fixed64, Bytes, Time, Value, Pointer, Each
<1>14. Agree(MarshalMessage_Proposal, SizeMessage_Proposal)
  BY DEF Agree, Alike, Kinds, Numbers, Messages1, MarshalMessage_Proposal,
    SizeMessage_Proposal, field, Int32, Int64, Fixed64, Bytes, Time, Value, Pointer, Each
<1>15. Agree(MarshalMessage_Vote, SizeMessage_Vote)
  BY DEF Agree, Alike, Kinds, Numbers, Messages1, MarshalMessage_Vote, SizeMessage_Vote,
    field, Int32, Int64, Fixed64, Bytes, Time, Value, Pointer, Each
<1> QED BY <1>1, <1>2, <1>3, <1>4, <1>5, <1>6, <1>7, <1>8, <1>9, <1>10, <1>11, <1>12,
    <1>13, <1>14, <1>15 DEF Types, Types0, Types1, Types2, Cases, Written, Counted

(* Each Unmarshal method expects the fields that Marshal writes, with the
   key of the field number and wire type, the last number first. *)
LEMMA Keys == ASSUME NEW T \in Types PROVE Matches(Expected[T], Written[T])
<1>1. Matches(UnmarshalDataHash, MarshalDataHash)
  BY DEF Matches, Alike, WireType, UnmarshalDataHash, MarshalDataHash, field, Int32,
    Int64, Fixed64, Bytes, Time, Value, Pointer, Each
<1>2. Matches(UnmarshalVote, MarshalVote)
  <2>1. /\ Len(UnmarshalVote) = 8 /\ DOMAIN UnmarshalVote = 1 .. 8 /\ Len(MarshalVote) = 8
        /\ \A k \in 1 .. 8 : /\ Alike(UnmarshalVote[k], MarshalVote[9 - k])
                            /\ UnmarshalVote[k].key = k
                            /\ MarshalVote[9 - k].key = 8 * k + WireType(UnmarshalVote[k])
    BY DEF Alike, WireType, UnmarshalVote, MarshalVote, field, Int32, Int64, Fixed64,
      Bytes, Time, Value, Pointer, Each
  <2>2. \A j, k \in 1 .. 8 : UnmarshalVote[j].name = UnmarshalVote[k].name => j = k
    BY DEF UnmarshalVote, field, Int32, Int64, Fixed64, Bytes, Time, Value, Pointer, Each
  <2> QED BY <2>1, <2>2 DEF Matches
<1>3. Matches(UnmarshalCommit, MarshalCommit)
  BY DEF Matches, Alike, WireType, UnmarshalCommit, MarshalCommit, field, Int32, Int64,
    Fixed64, Bytes, Time, Value, Pointer, Each
<1>4. Matches(UnmarshalCommitSig, MarshalCommitSig)
  BY DEF Matches, Alike, WireType, UnmarshalCommitSig, MarshalCommitSig, field, Int32,
    Int64, Fixed64, Bytes, Time, Value, Pointer, Each
<1>5. Matches(UnmarshalProposal, MarshalProposal)
  BY DEF Matches, Alike, WireType, UnmarshalProposal, MarshalProposal, field, Int32,
    Int64, Fixed64, Bytes, Time, Value, Pointer, Each
<1>6. Matches(UnmarshalCanonicalDataHash, MarshalCanonicalDataHash)
  BY DEF Matches, Alike, WireType, UnmarshalCanonicalDataHash, MarshalCanonicalDataHash,
    field, Int32, Int64, Fixed64, Bytes, Time, Value, Pointer, Each
<1>7. Matches(UnmarshalCanonicalProposal, MarshalCanonicalProposal)
  BY DEF Matches, Alike, WireType, UnmarshalCanonicalProposal, MarshalCanonicalProposal,
    field, Int32, Int64, Fixed64, Bytes, Time, Value, Pointer, Each
<1>8. Matches(UnmarshalCanonicalVote, MarshalCanonicalVote)
  BY DEF Matches, Alike, WireType, UnmarshalCanonicalVote, MarshalCanonicalVote, field,
    Int32, Int64, Fixed64, Bytes, Time, Value, Pointer, Each
<1>9. Matches(UnmarshalValidatorSet, MarshalValidatorSet)
  BY DEF Matches, Alike, WireType, UnmarshalValidatorSet, MarshalValidatorSet, field,
    Int32, Int64, Fixed64, Bytes, Time, Value, Pointer, Each
<1>10. Matches(UnmarshalValidator, MarshalValidator)
  BY DEF Matches, Alike, WireType, UnmarshalValidator, MarshalValidator, field, Int32,
    Int64, Fixed64, Bytes, Time, Value, Pointer, Each
<1>11. Matches(UnmarshalSimpleValidator, MarshalSimpleValidator)
  BY DEF Matches, Alike, WireType, UnmarshalSimpleValidator, MarshalSimpleValidator,
    field, Int32, Int64, Fixed64, Bytes, Time, Value, Pointer, Each
<1>12. Matches(UnmarshalPublicKey, MarshalPublicKey)
  BY DEF Matches, Alike, WireType, UnmarshalPublicKey, MarshalPublicKey, field, Int32,
    Int64, Fixed64, Bytes, Time, Value, Pointer, Each
<1>13. Matches(UnmarshalTimestamp, MarshalTimestamp)
  BY DEF Matches, Alike, WireType, UnmarshalTimestamp, MarshalTimestamp, field, Int32,
    Int64, Fixed64, Bytes, Time, Value, Pointer, Each
<1> QED BY <1>1, <1>2, <1>3, <1>4, <1>5, <1>6, <1>7, <1>8, <1>9, <1>10, <1>11, <1>12,
    <1>13 DEF Types, Types0, Types1, Types2, Written, Expected

(* The fields of a message hold messages of a lower level only. *)
LEMMA Nesting == ASSUME NEW T \in Types \cup {"Message"} PROVE Nests(Expected[T], Below(T))
<1>1. Nests(UnmarshalDataHash, {})
  BY DEF Nests, Numbers, Types0, Types1, UnmarshalDataHash, field, Int32, Int64, Fixed64,
    Bytes, Time, Value, Pointer, Each, Case
<1>2. Nests(UnmarshalVote, Types0)
  BY DEF Nests, Numbers, Types0, Types1, UnmarshalVote, field, Int32, Int64, Fixed64,
    Bytes, Time, Value, Pointer, Each, Case
<1>3. Nests(UnmarshalCommit, Types0 \cup Types1)
  BY DEF Nests, Numbers, Types0, Types1, UnmarshalCommit, field, Int32, Int64, Fixed64,
    Bytes, Time, Value, Pointer, Each, Case
<1>4. Nests(UnmarshalCommitSig, Types0)
  BY DEF Nests, Numbers, Types0, Types1, UnmarshalCommitSig, field, Int32, Int64, Fixed64,
    Bytes, Time, Value, Pointer, Each, Case
<1>5. Nests(UnmarshalProposal, Types0)
  BY DEF Nests, Numbers, Types0, Types1, UnmarshalProposal, field, Int32, Int64, Fixed64,
    Bytes, Time, Value, Pointer, Each, Case
<1>6. Nests(UnmarshalCanonicalDataHash, {})
  BY DEF Nests, Numbers, Types0, Types1, UnmarshalCanonicalDataHash, field, Int32, Int64,
    Fixed64, Bytes, Time, Value, Pointer, Each, Case
<1>7. Nests(UnmarshalCanonicalProposal, Types0)
  BY DEF Nests, Numbers, Types0, Types1, UnmarshalCanonicalProposal, field, Int32, Int64,
    Fixed64, Bytes, Time, Value, Pointer, Each, Case
<1>8. Nests(UnmarshalCanonicalVote, Types0)
  BY DEF Nests, Numbers, Types0, Types1, UnmarshalCanonicalVote, field, Int32, Int64,
    Fixed64, Bytes, Time, Value, Pointer, Each, Case
<1>9. Nests(UnmarshalValidatorSet, Types0 \cup Types1)
  BY DEF Nests, Numbers, Types0, Types1, UnmarshalValidatorSet, field, Int32, Int64,
    Fixed64, Bytes, Time, Value, Pointer, Each, Case
<1>10. Nests(UnmarshalValidator, Types0)
  BY DEF Nests, Numbers, Types0, Types1, UnmarshalValidator, field, Int32, Int64, Fixed64,
    Bytes, Time, Value, Pointer, Each, Case
<1>11. Nests(UnmarshalSimpleValidator, Types0)
  BY DEF Nests, Numbers, Types0, Types1, UnmarshalSimpleValidator, field, Int32, Int64,
    Fixed64, Bytes, Time, Value, Pointer, Each, Case
<1>12. Nests(UnmarshalPublicKey, {})
  BY DEF Nests, Numbers, Types0, Types1, UnmarshalPublicKey, field, Int32, Int64, Fixed64,
    Bytes, Time, Value, Pointer, Each, Case
<1>13. Nests(UnmarshalTimestamp, {})
  BY DEF Nests, Numbers, Types0, Types1, UnmarshalTimestamp, field, Int32, Int64, Fixed64,
    Bytes, Time, Value, Pointer, Each, Case
<1>14. Nests(UnmarshalMessage, Types0 \cup Types1)
  BY DEF Nests, Numbers, Types0, Types1, UnmarshalMessage, field, Int32, Int64, Fixed64,
    Bytes, Time, Value, Pointer, Each, Case
<1> QED BY <1>1, <1>2, <1>3, <1>4, <1>5, <1>6, <1>7, <1>8, <1>9, <1>10, <1>11, <1>12,
    <1>13, <1>14 DEF Types, Types0, Types1, Types2, Below, Expected

-----------------------------------------------------------------------------
(* What a field may hold. *)

Holds(f, x) ==
    /\ f.kind = "int32" => x \in Int32s
    /\ f.kind \in {"int64", "sfixed64"} => x \in Int64s
    /\ f.kind = "bytes" => x \in Seq(Byte)
    /\ f.kind = "stdtime" => x \in Times
    /\ f.kind = "message" => x \in Struct[f.of]
    /\ f.kind = "pointer" => x \in Struct[f.of] \cup {Nil}
    /\ f.kind = "repeated" => x \in Seq(Struct[f.of])

(* Every field of m holds what it may. *)
FieldsHold(C, m) == \A k \in DOMAIN C : Holds(C[k], m[C[k].name])

(* The fields of a message have values of their types. *)
LEMMA StructHolds ==
    ASSUME NEW T \in Types \cup Cases, NEW m \in Struct[T]
    PROVE  FieldsHold(Counted[T], m)
<1>1. CASE T = "DataHash"
  <2>1. m \in DataHashStruct
    BY <1>1 DEF Struct
  <2>2. FieldsHold(SizeDataHash, m)
    BY <2>1 DEF FieldsHold, Holds, DataHashStruct, Struct, SizeDataHash, field, Int32,
      Int64, Fixed64, Bytes, Time, Value, Pointer, Each
  <2> QED BY <1>1, <2>2 DEF Counted
<1>2. CASE T = "Vote"
  <2>1. m \in VoteStruct
    BY <1>2 DEF Struct
  <2>2. FieldsHold(SizeVote, m)
    BY <2>1 DEF FieldsHold, Holds, VoteStruct, Struct, SizeVote, field, Int32, Int64,
      Fixed64, Bytes, Time, Value, Pointer, Each
  <2> QED BY <1>2, <2>2 DEF Counted
<1>3. CASE T = "Commit"
  <2>1. m \in CommitStruct
    BY <1>3 DEF Struct
  <2>2. FieldsHold(SizeCommit, m)
    BY <2>1 DEF FieldsHold, Holds, CommitStruct, Struct, SizeCommit, field, Int32, Int64,
      Fixed64, Bytes, Time, Value, Pointer, Each
  <2> QED BY <1>3, <2>2 DEF Counted
<1>4. CASE T = "CommitSig"
  <2>1. m \in CommitSigStruct
    BY <1>4 DEF Struct
  <2>2. FieldsHold(SizeCommitSig, m)
    BY <2>1 DEF FieldsHold, Holds, CommitSigStruct, Struct, SizeCommitSig, field, Int32,
      Int64, Fixed64, Bytes, Time, Value, Pointer, Each
  <2> QED BY <1>4, <2>2 DEF Counted
<1>5. CASE T = "Proposal"
  <2>1. m \in ProposalStruct
    BY <1>5 DEF Struct
  <2>2. FieldsHold(SizeProposal, m)
    BY <2>1 DEF FieldsHold, Holds, ProposalStruct, Struct, SizeProposal, field, Int32,
      Int64, Fixed64, Bytes, Time, Value, Pointer, Each
  <2> QED BY <1>5, <2>2 DEF Counted
<1>6. CASE T = "CanonicalDataHash"
  <2>1. m \in CanonicalDataHashStruct
    BY <1>6 DEF Struct
  <2>2. FieldsHold(SizeCanonicalDataHash, m)
    BY <2>1 DEF FieldsHold, Holds, CanonicalDataHashStruct, Struct, SizeCanonicalDataHash,
      field, Int32, Int64, Fixed64, Bytes, Time, Value, Pointer, Each
  <2> QED BY <1>6, <2>2 DEF Counted
<1>7. CASE T = "CanonicalProposal"
  <2>1. m \in CanonicalProposalStruct
    BY <1>7 DEF Struct
  <2>2. FieldsHold(SizeCanonicalProposal, m)
    BY <2>1 DEF FieldsHold, Holds, CanonicalProposalStruct, Struct, SizeCanonicalProposal,
      field, Int32, Int64, Fixed64, Bytes, Time, Value, Pointer, Each
  <2> QED BY <1>7, <2>2 DEF Counted
<1>8. CASE T = "CanonicalVote"
  <2>1. m \in CanonicalVoteStruct
    BY <1>8 DEF Struct
  <2>2. FieldsHold(SizeCanonicalVote, m)
    BY <2>1 DEF FieldsHold, Holds, CanonicalVoteStruct, Struct, SizeCanonicalVote, field,
      Int32, Int64, Fixed64, Bytes, Time, Value, Pointer, Each
  <2> QED BY <1>8, <2>2 DEF Counted
<1>9. CASE T = "ValidatorSet"
  <2>1. m \in ValidatorSetStruct
    BY <1>9 DEF Struct
  <2>2. FieldsHold(SizeValidatorSet, m)
    BY <2>1 DEF FieldsHold, Holds, ValidatorSetStruct, Struct, SizeValidatorSet, field,
      Int32, Int64, Fixed64, Bytes, Time, Value, Pointer, Each
  <2> QED BY <1>9, <2>2 DEF Counted
<1>10. CASE T = "Validator"
  <2>1. m \in ValidatorStruct
    BY <1>10 DEF Struct
  <2>2. FieldsHold(SizeValidator, m)
    BY <2>1 DEF FieldsHold, Holds, ValidatorStruct, Struct, SizeValidator, field, Int32,
      Int64, Fixed64, Bytes, Time, Value, Pointer, Each
  <2> QED BY <1>10, <2>2 DEF Counted
<1>11. CASE T = "SimpleValidator"
  <2>1. m \in SimpleValidatorStruct
    BY <1>11 DEF Struct
  <2>2. FieldsHold(SizeSimpleValidator, m)
    BY <2>1 DEF FieldsHold, Holds, SimpleValidatorStruct, Struct, SizeSimpleValidator,
      field, Int32, Int64, Fixed64, Bytes, Time, Value, Pointer, Each
  <2> QED BY <1>11, <2>2 DEF Counted
<1>12. CASE T = "PublicKey"
  <2>1. m \in PublicKeyStruct
    BY <1>12 DEF Struct
  <2>2. FieldsHold(SizePublicKey, m)
    BY <2>1 DEF FieldsHold, Holds, PublicKeyStruct, Struct, SizePublicKey, field, Int32,
      Int64, Fixed64, Bytes, Time, Value, Pointer, Each
  <2> QED BY <1>12, <2>2 DEF Counted
<1>13. CASE T = "Timestamp"
  <2>1. m \in TimestampStruct
    BY <1>13 DEF Struct
  <2>2. FieldsHold(SizeTimestamp, m)
    BY <2>1 DEF FieldsHold, Holds, TimestampStruct, Struct, SizeTimestamp, field, Int32,
      Int64, Fixed64, Bytes, Time, Value, Pointer, Each
  <2> QED BY <1>13, <2>2 DEF Counted
<1>14. CASE T = "Message_Proposal"
  <2>1. m \in Message_ProposalStruct
    BY <1>14 DEF Struct
  <2>2. FieldsHold(SizeMessage_Proposal, m)
    BY <2>1 DEF FieldsHold, Holds, Message_ProposalStruct, Struct, SizeMessage_Proposal,
      field, Int32, Int64, Fixed64, Bytes, Time, Value, Pointer, Each
  <2> QED BY <1>14, <2>2 DEF Counted
<1>15. CASE T = "Message_Vote"
  <2>1. m \in Message_VoteStruct
    BY <1>15 DEF Struct
  <2>2. FieldsHold(SizeMessage_Vote, m)
    BY <2>1 DEF FieldsHold, Holds, Message_VoteStruct, Struct, SizeMessage_Vote, field,
      Int32, Int64, Fixed64, Bytes, Time, Value, Pointer, Each
  <2> QED BY <1>15, <2>2 DEF Counted
<1> QED BY <1>1, <1>2, <1>3, <1>4, <1>5, <1>6, <1>7, <1>8, <1>9, <1>10, <1>11, <1>12,
    <1>13, <1>14, <1>15 DEF Types, Types0, Types1, Types2, Cases

-----------------------------------------------------------------------------
(* Concatenation. *)

(* Length and members of a concatenation of bytes. *)
LEMMA Concat ==
    ASSUME NEW s \in Seq(Byte), NEW t \in Seq(Byte)
    PROVE  /\ s \o t \in Seq(Byte) /\ Len(s \o t) = Len(s) + Len(t)
           /\ Len(s) \in Nat /\ Len(t) \in Nat
           /\ \A k \in 1 .. Len(s) : (s \o t)[k] = s[k]
           /\ \A k \in 1 .. Len(t) : (s \o t)[Len(s) + k] = t[k]
<1>1. /\ s \o t \in Seq(Byte) /\ Len(s \o t) = Len(s) + Len(t)
      /\ \A i \in 1 .. Len(s) + Len(t) : (s \o t)[i] = IF i <= Len(s) THEN s[i] ELSE t[i - Len(s)]
  BY ConcatProperties
<1>2. PICK a \in Nat, b \in Nat : a = Len(s) /\ b = Len(t)
  BY LenProperties
<1>3. \A k \in 1 .. a : k \in 1 .. a + b /\ k <= a
  OBVIOUS
<1>4. \A k \in 1 .. b : a + k \in 1 .. a + b /\ ~ (a + k <= a) /\ (a + k) - a = k
  OBVIOUS
<1> QED BY <1>1, <1>2, <1>3, <1>4

(* A single byte as a sequence. *)
LEMMA One == ASSUME NEW c \in Byte PROVE <<c>> \in Seq(Byte) /\ Len(<<c>>) = 1 /\ <<c>>[1] = c
OBVIOUS

(* A field that is delimited by its length. *)
item(key, e) == <<key>> \o (groups(uint64(Len(e))) \o e)

(* An item is one byte of key, the varint of a length, and that many bytes. *)
LEMMA ItemFacts ==
    ASSUME NEW key \in Byte, NEW e \in Seq(Byte)
    PROVE  item(key, e) \in Seq(Byte) /\ Len(item(key, e)) = delimited(1, Len(e))
<1>1. Len(e) \in Nat /\ uint64(Len(e)) \in Nat /\ uint64(Len(e)) < Word
  BY LenProperties, ConversionTypes
<1>2. PICK g \in Seq(Byte) : g = groups(uint64(Len(e))) /\ Len(g) = sov(uint64(Len(e))) /\ Len(g) \in Nat
  BY <1>1, GroupsFacts
<1>3. g \o e \in Seq(Byte) /\ Len(g \o e) = Len(g) + Len(e)
  BY Concat
<1>4. <<key>> \o (g \o e) \in Seq(Byte) /\ Len(<<key>> \o (g \o e)) = 1 + Len(g \o e)
  BY <1>3, Concat, One
<1>5. 1 + (Len(g) + Len(e)) = 1 + Len(e) + Len(g)
  BY <1>1, <1>2
<1> QED BY <1>2, <1>3, <1>4, <1>5 DEF item, delimited

(* Writing a length and a key before a message puts an item there. *)
LEMMA PutItem ==
    ASSUME NEW key \in Byte, NEW e \in Seq(Byte), NEW d \in Seq(Byte)
    PROVE  <<key>> \o encodeVarint(e \o d, uint64(Len(e))) = item(key, e) \o d
<1>1. uint64(Len(e)) \in Nat /\ uint64(Len(e)) < Word
  BY LenProperties, ConversionTypes
<1>2. PICK g \in Seq(Byte) : g = groups(uint64(Len(e)))
  BY <1>1, GroupsFacts
<1>3. e \o d \in Seq(Byte) /\ g \o e \in Seq(Byte) /\ <<key>> \in Seq(Byte)
  BY Concat, One
<1>4. encodeVarint(e \o d, uint64(Len(e))) = g \o (e \o d)
  BY <1>1, <1>2, <1>3, EncodeVarint
<1>5. g \o (e \o d) = (g \o e) \o d
  BY ConcatAssociative
<1>6. <<key>> \o ((g \o e) \o d) = (<<key>> \o (g \o e)) \o d
  BY <1>3, ConcatAssociative
<1> QED BY <1>2, <1>4, <1>5, <1>6 DEF item

(* Lengths that are added from the last one on add up to the total. *)
LEMMA BackwardsTotal ==
    ASSUME NEW n \in Nat, NEW s, \A k \in 1 .. n : s[k] \in Nat, NEW L \in [0 .. n -> Nat],
           \A j \in 1 .. n : L[j] = L[j - 1] + s[n + 1 - j]
    PROVE  L[n] = L[0] + total(s, n)
<1> DEFINE T == {j \in Nat : j <= n => L[j] + total(s, n - j) = L[0] + total(s, n)}
<1>1. 0 \in T
  <2>1. n - 0 = n
    OBVIOUS
  <2> QED BY <2>1
<1>2. ASSUME NEW j \in T PROVE j + 1 \in T
  <2> SUFFICES ASSUME j + 1 <= n
               PROVE  L[j + 1] + total(s, n - (j + 1)) = L[0] + total(s, n)
    OBVIOUS
  <2>1. PICK k \in Nat : k = n - (j + 1) /\ n - j = k + 1 /\ k + 1 <= n
    OBVIOUS
  <2>2. \A i \in 1 .. k + 1 : s[i] \in Nat
    BY <2>1
  <2>3. PICK t \in Nat, u \in Nat, v \in Nat :
           t = total(s, k) /\ u = s[k + 1] /\ total(s, k + 1) = t + u /\ v = total(s, n)
    <3>1. total(s, k + 1) = total(s, k) + s[k + 1]
      BY <2>2, TotalStep
    <3>2. total(s, k) \in Nat /\ total(s, n) \in Nat
      <4>1. \A i \in 1 .. k : s[i] \in Nat
        BY <2>1
      <4> QED BY <4>1, TotalNat
    <3>3. k + 1 \in 1 .. k + 1
      OBVIOUS
    <3> QED BY <2>2, <3>1, <3>2, <3>3
  <2>4. L[j + 1] = L[j] + s[k + 1]
    <3>1. j + 1 \in 1 .. n /\ (j + 1) - 1 = j /\ n + 1 - (j + 1) = k + 1
      BY <2>1
    <3> QED BY <3>1
  <2>5. L[j] + total(s, k + 1) = L[0] + total(s, n)
    BY <2>1
  <2>6. PICK x \in Nat, y \in Nat : x = L[j] /\ y = L[0]
    <3>1. j \in 0 .. n /\ 0 \in 0 .. n
      BY <2>1
    <3> QED BY <3>1
  <2>7. x + (t + u) = y + v /\ L[j + 1] = x + u
    BY <2>3, <2>4, <2>5, <2>6
  <2>8. total(s, n - (j + 1)) = t
    BY <2>1, <2>3
  <2>9. (x + u) + t = y + v
    BY <2>7
  <2> QED BY <2>3, <2>6, <2>7, <2>8, <2>9
<1>3. T = Nat
  <2>1. T \in SUBSET Nat
    OBVIOUS
  <2> HIDE DEF T
  <2> QED BY <1>1, <1>2, <2>1, Induction
<1>4. L[n] + total(s, 0) = L[0] + total(s, n)
  <2>1. n - n = 0 /\ n <= n
    OBVIOUS
  <2> QED BY <1>3, <2>1
<1>5. L[n] \in Nat
  OBVIOUS
<1> QED BY <1>4, <1>5, TotalZero

Puts(p, d, key, inner, n) ==
    p = [j \in 0 .. n |->
            IF j = 0 THEN d
            ELSE <<key>> \o encodeVarint(inner[n + 1 - j] \o p[j - 1], uint64(Len(inner[n + 1 - j])))]

(* The messages of a repeated field are written one before the other. *)
LEMMA PutsExist ==
    ASSUME NEW d \in Seq(Byte), NEW key \in Byte, NEW n \in Nat, NEW inner,
           \A j \in 1 .. n : inner[j] \in Seq(Byte)
    PROVE  \E p : Puts(p, d, key, inner, n)
<1>1. PICK F : F = [j \in 1 .. n |-> [y \in Seq(Byte) |-> item(key, inner[n + 1 - j]) \o y]]
  OBVIOUS
<1>2. ASSUME NEW j \in 1 .. n PROVE n + 1 - j \in 1 .. n /\ inner[n + 1 - j] \in Seq(Byte)
  <2>1. n + 1 - j \in 1 .. n
    OBVIOUS
  <2> QED BY <2>1
<1>3. ASSUME NEW j \in 1 .. n, NEW y \in Seq(Byte)
      PROVE  /\ item(key, inner[n + 1 - j]) \o y \in Seq(Byte)
             /\ item(key, inner[n + 1 - j]) \o y =
                <<key>> \o encodeVarint(inner[n + 1 - j] \o y, uint64(Len(inner[n + 1 - j])))
  <2>1. PICK e \in Seq(Byte) : e = inner[n + 1 - j]
    BY <1>2
  <2>2. item(key, e) \in Seq(Byte)
    BY ItemFacts
  <2>3. item(key, e) \o y \in Seq(Byte)
    BY <2>2, Concat
  <2>4. <<key>> \o encodeVarint(e \o y, uint64(Len(e))) = item(key, e) \o y
    BY PutItem
  <2> QED BY <2>1, <2>3, <2>4
<1>4. F \in [1 .. n -> [Seq(Byte) -> Seq(Byte)]]
  BY <1>1, <1>3
<1>5. PICK p \in [0 .. n -> Seq(Byte)] : Iterates(p, d, F, n)
  BY <1>4, Iteration
<1>6. ASSUME NEW j \in 0 .. n, j # 0
      PROVE F[j][p[j - 1]] = <<key>> \o encodeVarint(inner[n + 1 - j] \o p[j - 1], uint64(Len(inner[n + 1 - j])))
  <2>1. j \in 1 .. n /\ j - 1 \in 0 .. n
    BY <1>6
  <2> QED BY <1>1, <1>3, <2>1
<1>7. Puts(p, d, key, inner, n)
  BY <1>5, <1>6 DEF Iterates, Puts
<1> QED BY <1>7

Laid(p, d, key, inner, n) ==
    /\ p \in [0 .. n -> Seq(Byte)]
    /\ p[0] = d /\ p[n] = putMessages(d, key, inner, n)
    /\ \A j \in 1 .. n : p[j] = item(key, inner[n + 1 - j]) \o p[j - 1]

ByteStrings(inner, n) == \A j \in 1 .. n : inner[j] \in Seq(Byte)

(* Each of them becomes an item. *)
LEMMA PutMessages ==
    ASSUME NEW d \in Seq(Byte), NEW key \in Byte, NEW n \in Nat, NEW inner, ByteStrings(inner, n)
    PROVE  \E p : Laid(p, d, key, inner, n)
<1> DEFINE p == CHOOSE q :
              q = [j \in 0 .. n |->
                     IF j = 0 THEN d
                     ELSE <<key>> \o encodeVarint(inner[n + 1 - j] \o q[j - 1], uint64(Len(inner[n + 1 - j])))]
<1>a. \A j \in 1 .. n : inner[j] \in Seq(Byte)
  BY DEF ByteStrings
<1>0. \E q : Puts(q, d, key, inner, n)
  BY <1>a, PutsExist
<1>1. Puts(p, d, key, inner, n)
  BY <1>0 DEF Puts
<1>2. putMessages(d, key, inner, n) = p[n]
  BY DEF putMessages
<1> HIDE DEF p
<1>3. p[0] = d
  BY <1>1 DEF Puts
<1> DEFINE T == {j \in Nat : j <= n => p[j] \in Seq(Byte)}
<1>4. ASSUME NEW j \in Nat, j + 1 <= n, p[j] \in Seq(Byte)
      PROVE  p[j + 1] = item(key, inner[n + 1 - (j + 1)]) \o p[j] /\ p[j + 1] \in Seq(Byte)
  <2>1. PICK e \in Seq(Byte) : e = inner[n + 1 - (j + 1)]
    <3>1. n + 1 - (j + 1) \in 1 .. n
      BY <1>4
    <3> QED BY <1>a, <3>1
  <2>2. p[j + 1] = <<key>> \o encodeVarint(e \o p[j], uint64(Len(e)))
    <3>1. j + 1 \in 0 .. n /\ j + 1 # 0 /\ (j + 1) - 1 = j
      BY <1>4
    <3> QED BY <1>1, <2>1, <3>1 DEF Puts
  <2>3. p[j + 1] = item(key, e) \o p[j]
    BY <1>4, <2>2, PutItem
  <2>4. item(key, e) \in Seq(Byte)
    BY ItemFacts
  <2> QED BY <1>4, <2>1, <2>3, <2>4, Concat
<1>5. 0 \in T
  BY <1>3
<1>6. ASSUME NEW j \in T PROVE j + 1 \in T
  <2> SUFFICES ASSUME j + 1 <= n PROVE p[j + 1] \in Seq(Byte)
    OBVIOUS
  <2>1. j \in Nat /\ j <= n
    OBVIOUS
  <2>2. p[j] \in Seq(Byte)
    BY <2>1
  <2> QED BY <1>4, <2>1, <2>2
<1>7. T = Nat
  <2>1. T \in SUBSET Nat
    OBVIOUS
  <2> HIDE DEF T
  <2> QED BY <1>5, <1>6, <2>1, Induction
<1>8. \A j \in 0 .. n : p[j] \in Seq(Byte)
  BY <1>7
<1>9. p \in [0 .. n -> Seq(Byte)]
  BY <1>1, <1>8 DEF Puts
<1>10. ASSUME NEW j \in 1 .. n PROVE p[j] = item(key, inner[n + 1 - j]) \o p[j - 1]
  <2>1. PICK i \in Nat : i = j - 1 /\ j = i + 1 /\ i + 1 <= n
    OBVIOUS
  <2>2. p[i] \in Seq(Byte)
    BY <1>8, <2>1
  <2> QED BY <1>4, <2>1, <2>2
<1> QED BY <1>2, <1>3, <1>9, <1>10 DEF Laid

-----------------------------------------------------------------------------
(* A field in the buffer: its items, one after another. *)

count(f, x) ==
    IF f.kind \in Numbers THEN (IF x = 0 THEN 0 ELSE 1)
    ELSE IF f.kind = "bytes" THEN (IF Len(x) = 0 THEN 0 ELSE 1)
    ELSE Len(parts(f, x))

itemOf(f, x, inner, j) ==
    IF f.kind \in {"int32", "int64"} THEN <<f.key>> \o groups(uint64(x))
    ELSE IF f.kind = "sfixed64" THEN <<f.key>> \o fixed64(x)
    ELSE IF f.kind = "bytes" THEN item(f.key, x)
    ELSE item(f.key, inner[j])

(* r[j] is what is left in the buffer behind the first j items of the field. *)
Chain(r, f, x, inner, d) ==
    /\ r \in [0 .. count(f, x) -> Seq(Byte)] /\ r[count(f, x)] = d
    /\ \A j \in 0 .. count(f, x) - 1 : r[j] = itemOf(f, x, inner, j + 1) \o r[j + 1]

(* c is the items of the field and d. *)
Items(f, x, inner, d, c) == \E r : Chain(r, f, x, inner, d) /\ r[0] = c

Only(f, x, inner, d, c) ==
    IF count(f, x) = 0 THEN c = d ELSE count(f, x) = 1 /\ c = itemOf(f, x, inner, 1) \o d

(* What is to be put for field f. *)
Putting(f, x, inner) ==
    /\ f.kind \in Kinds /\ f.key \in 1 .. 127 /\ Holds(f, x)
    /\ \A j \in 1 .. Len(parts(f, x)) : inner[j] \in Seq(Byte)

(* A time has a Timestamp message. *)
LEMMA TimesAreStructs == Times \in SUBSET TimestampStruct
<1>1. EpochSeconds \in 1 .. IntRange - 1 /\ MaxSeconds \in 1 .. IntRange - 1
  BY ProtobufAssumption DEF IntRange
<1>2. NanosPerSecond \in 1 .. Int32Range - 1
  BY ProtobufAssumption DEF Int32Range
<1>3. IntRange \in Nat /\ Int32Range \in Nat
  BY WordFacts, HalfFacts
<1>4. -EpochSeconds .. MaxSeconds \in SUBSET (-IntRange .. IntRange - 1)
  BY <1>1, <1>3
<1>5. 0 .. NanosPerSecond - 1 \in SUBSET (-Int32Range .. Int32Range - 1)
  BY <1>2, <1>3
<1> QED BY <1>4, <1>5 DEF Times, TimestampStruct, Int64s, Int32s

(* The nested messages of a field have the type of the field. *)
LEMMA PartsFacts ==
    ASSUME NEW f, NEW x, f.kind \in Kinds, Holds(f, x), f.kind = "stdtime" => f.of = "Timestamp"
    PROVE  /\ Len(parts(f, x)) \in Nat /\ DOMAIN parts(f, x) = 1 .. Len(parts(f, x))
           /\ \A j \in 1 .. Len(parts(f, x)) : parts(f, x)[j] \in Struct[f.of]
           /\ f.kind \in Numbers \cup {"bytes"} => parts(f, x) = <<>>
<1>1. CASE f.kind \in Numbers \cup {"bytes"}
  <2>1. parts(f, x) = <<>>
    BY <1>1 DEF parts, Numbers
  <2> QED BY <2>1
<1>2. CASE f.kind \in {"stdtime", "message"}
  <2>1. parts(f, x) = <<x>>
    BY <1>2 DEF parts
  <2>2. x \in Struct[f.of]
    <3>1. CASE f.kind = "stdtime"
      <4>1. x \in Times /\ f.of = "Timestamp"
        BY <3>1 DEF Holds
      <4> QED BY <4>1, TimesAreStructs DEF Struct
    <3>2. CASE f.kind = "message"
      BY <3>2 DEF Holds
    <3> QED BY <1>2, <3>1, <3>2
  <2> QED BY <1>2, <2>1, <2>2 DEF Numbers
<1>3. CASE f.kind = "pointer"
  <2>1. parts(f, x) = IF x = Nil THEN <<>> ELSE <<x>>
    BY <1>3 DEF parts
  <2>2. x \in Struct[f.of] \cup {Nil}
    BY <1>3 DEF Holds
  <2>3. CASE x = Nil
    BY <1>3, <2>1, <2>3 DEF Numbers
  <2>4. CASE x # Nil
    BY <1>3, <2>1, <2>2, <2>4 DEF Numbers
  <2> QED BY <2>3, <2>4
<1>4. CASE f.kind = "repeated"
  <2>1. parts(f, x) = x
    BY <1>4 DEF parts
  <2>2. x \in Seq(Struct[f.of])
    BY <1>4 DEF Holds
  <2>3. Len(x) \in Nat /\ DOMAIN x = 1 .. Len(x) /\ \A j \in 1 .. Len(x) : x[j] \in Struct[f.of]
    BY <2>2, ElementOfSeq, LenProperties
  <2> QED BY <1>4, <2>1, <2>3 DEF Numbers
<1> QED BY <1>1, <1>2, <1>3, <1>4 DEF Kinds, Messages1

(* Each item of a field is a sequence of bytes that is not empty. *)
LEMMA ItemOfBytes ==
    ASSUME NEW f, NEW x, NEW inner, Putting(f, x, inner), NEW j \in 1 .. count(f, x)
    PROVE  itemOf(f, x, inner, j) \in Seq(Byte) /\ Len(itemOf(f, x, inner, j)) >= 1
<1>1. f.key \in Byte
  BY DEF Putting, Byte
<1>2. ASSUME NEW s \in Seq(Byte)
      PROVE <<f.key>> \o s \in Seq(Byte) /\ Len(<<f.key>> \o s) >= 1
  BY <1>1, Concat, One
<1>3. CASE f.kind \in {"int32", "int64"}
  <2>1. x \in Int
    BY <1>3 DEF Putting, Holds, Int32s, Int64s
  <2>2. groups(uint64(x)) \in Seq(Byte)
    BY <2>1, ConversionTypes, GroupsFacts
  <2> QED BY <1>2, <1>3, <2>2 DEF itemOf
<1>4. CASE f.kind = "sfixed64"
  <2>1. x \in Int
    BY <1>4 DEF Putting, Holds, Int32s, Int64s
  <2>2. fixed64(x) \in Seq(Byte)
    BY <2>1, Fixed64Facts
  <2> QED BY <1>2, <1>4, <2>2 DEF itemOf
<1>5. ASSUME NEW e \in Seq(Byte) PROVE item(f.key, e) \in Seq(Byte) /\ Len(item(f.key, e)) >= 1
  <2>1. uint64(Len(e)) \in Nat /\ uint64(Len(e)) < Word
    BY LenProperties, ConversionTypes
  <2>2. groups(uint64(Len(e))) \o e \in Seq(Byte)
    BY <2>1, GroupsFacts, Concat
  <2> QED BY <1>2, <2>2 DEF item
<1>6. CASE f.kind = "bytes"
  <2>1. x \in Seq(Byte)
    BY <1>6 DEF Putting, Holds
  <2> QED BY <1>5, <1>6, <2>1 DEF itemOf
<1>7. CASE f.kind \notin Numbers \cup {"bytes"}
  <2>1. inner[j] \in Seq(Byte)
    BY <1>7 DEF Putting, count
  <2> QED BY <1>5, <1>7, <2>1 DEF itemOf, Numbers
<1> QED BY <1>3, <1>4, <1>6, <1>7 DEF Numbers

(* A field of one item at most. *)
LEMMA ChainOfOne ==
    ASSUME NEW f, NEW x, NEW inner, NEW d \in Seq(Byte), NEW c \in Seq(Byte),
           Only(f, x, inner, d, c)
    PROVE  Items(f, x, inner, d, c)
<1>1. CASE count(f, x) = 0
  <2>1. PICK r : r = [j \in 0 .. 0 |-> d]
    OBVIOUS
  <2> QED BY <1>1, <2>1 DEF Chain, Items, Only
<1>2. CASE count(f, x) = 1
  <2>1. PICK r : r = [j \in 0 .. 1 |-> IF j = 0 THEN c ELSE d]
    OBVIOUS
  <2>2. r \in [0 .. 1 -> Seq(Byte)] /\ r[1] = d /\ r[0] = c
    BY <2>1
  <2>3. \A j \in 0 .. 1 - 1 : j = 0 /\ j + 1 = 1
    OBVIOUS
  <2> QED BY <1>2, <2>2, <2>3 DEF Chain, Items, Only
<1> QED BY <1>1, <1>2 DEF Only

(* What a field writes is its items, one before the other. *)
LEMMA PutField ==
    ASSUME NEW d \in Seq(Byte), NEW f, NEW x, NEW inner, Putting(f, x, inner)
    PROVE  Items(f, x, inner, d, putField(d, f, x, inner))
<1>1. f.key \in Byte /\ f.kind \in Kinds /\ <<f.key>> \in Seq(Byte)
  BY One DEF Putting, Byte
<1>2. CASE f.kind \in {"int32", "int64"}
  <2>1. x \in Int
    BY <1>2 DEF Putting, Holds, Int32s, Int64s
  <2>2. count(f, x) = IF x = 0 THEN 0 ELSE 1
    BY <1>2 DEF count, Numbers
  <2>3. uint64(x) \in Nat /\ uint64(x) < Word
    BY <2>1, ConversionTypes
  <2>4. PICK g \in Seq(Byte) : g = groups(uint64(x))
    BY <2>3, GroupsFacts
  <2>5. <<f.key>> \o encodeVarint(d, uint64(x)) = (<<f.key>> \o g) \o d
    <3>1. encodeVarint(d, uint64(x)) = g \o d
      BY <2>3, <2>4, EncodeVarint
    <3>2. (<<f.key>> \o g) \o d = <<f.key>> \o (g \o d)
      BY <1>1, ConcatAssociative
    <3> QED BY <3>1, <3>2
  <2>6. (<<f.key>> \o g) \o d \in Seq(Byte)
    BY <1>1, Concat
  <2>7. putField(d, f, x, inner) = IF x = 0 THEN d ELSE (<<f.key>> \o g) \o d
    BY <1>2, <2>5 DEF putField
  <2>8. itemOf(f, x, inner, 1) = <<f.key>> \o g
    BY <1>2, <2>4 DEF itemOf
  <2>20. PICK c \in Seq(Byte) : c = putField(d, f, x, inner)
    BY <2>6, <2>7
  <2>21. count(f, x) = 0 => c = d
    BY <2>2, <2>20, <2>7
  <2>22. count(f, x) # 0 => count(f, x) = 1 /\ c = itemOf(f, x, inner, 1) \o d
    BY <2>2, <2>20, <2>7, <2>8
  <2>23. Only(f, x, inner, d, c)
    BY <2>21, <2>22 DEF Only
  <2>24. Items(f, x, inner, d, c)
    BY <2>23, ChainOfOne
  <2> QED BY <2>20, <2>24
<1>3. CASE f.kind = "sfixed64"
  <2>1. x \in Int
    BY <1>3 DEF Putting, Holds, Int32s, Int64s
  <2>2. count(f, x) = IF x = 0 THEN 0 ELSE 1
    BY <1>3 DEF count, Numbers
  <2>3. PICK g \in Seq(Byte) : g = fixed64(x)
    BY <2>1, Fixed64Facts
  <2>4. (<<f.key>> \o g) \o d \in Seq(Byte)
    BY <1>1, Concat
  <2>5. putField(d, f, x, inner) = IF x = 0 THEN d ELSE (<<f.key>> \o g) \o d
    <3>1. (<<f.key>> \o g) \o d = <<f.key>> \o (g \o d)
      BY <1>1, ConcatAssociative
    <3>2. putField(d, f, x, inner) = IF x = 0 THEN d ELSE <<f.key>> \o g \o d
      BY <1>3, <2>3 DEF putField
    <3> QED BY <3>1, <3>2
  <2>6. itemOf(f, x, inner, 1) = <<f.key>> \o g
    BY <1>3, <2>3 DEF itemOf
  <2>20. PICK c \in Seq(Byte) : c = putField(d, f, x, inner)
    BY <2>4, <2>5
  <2>21. count(f, x) = 0 => c = d
    BY <2>2, <2>20, <2>5
  <2>22. count(f, x) # 0 => count(f, x) = 1 /\ c = itemOf(f, x, inner, 1) \o d
    BY <2>2, <2>20, <2>5, <2>6
  <2>23. Only(f, x, inner, d, c)
    BY <2>21, <2>22 DEF Only
  <2>24. Items(f, x, inner, d, c)
    BY <2>23, ChainOfOne
  <2> QED BY <2>20, <2>24
<1>4. CASE f.kind = "bytes"
  <2>1. x \in Seq(Byte)
    BY <1>4 DEF Putting, Holds
  <2>2. count(f, x) = IF Len(x) = 0 THEN 0 ELSE 1
    BY <1>4 DEF count, Numbers
  <2>3. item(f.key, x) \o d \in Seq(Byte)
    BY <1>1, <2>1, ItemFacts, Concat
  <2>4. putField(d, f, x, inner) = IF Len(x) = 0 THEN d ELSE item(f.key, x) \o d
    BY <1>1, <1>4, <2>1, PutItem DEF putField
  <2>5. itemOf(f, x, inner, 1) = item(f.key, x)
    BY <1>4 DEF itemOf
  <2>20. PICK c \in Seq(Byte) : c = putField(d, f, x, inner)
    BY <2>3, <2>4
  <2>21. count(f, x) = 0 => c = d
    BY <2>2, <2>20, <2>4
  <2>22. count(f, x) # 0 => count(f, x) = 1 /\ c = itemOf(f, x, inner, 1) \o d
    BY <2>2, <2>20, <2>4, <2>5
  <2>23. Only(f, x, inner, d, c)
    BY <2>21, <2>22 DEF Only
  <2>24. Items(f, x, inner, d, c)
    BY <2>23, ChainOfOne
  <2> QED BY <2>20, <2>24
<1>5. CASE f.kind \notin Numbers \cup {"bytes"}
  <2>1. count(f, x) = Len(parts(f, x)) /\ \A j : itemOf(f, x, inner, j) = item(f.key, inner[j])
    BY <1>5 DEF count, itemOf, Numbers
  <2>2. PICK n \in Nat : n = Len(parts(f, x)) /\ \A j \in 1 .. n : inner[j] \in Seq(Byte)
    <3>1. Len(parts(f, x)) \in Nat
      <4>1. CASE f.kind \in {"stdtime", "message", "pointer"}
        BY <4>1 DEF parts
      <4>2. CASE f.kind = "repeated"
        BY <4>2, LenProperties DEF parts, Putting, Holds
      <4> QED BY <1>1, <1>5, <4>1, <4>2 DEF Kinds, Messages1
    <3> QED BY <3>1 DEF Putting
  <2>3. putField(d, f, x, inner) = putMessages(d, f.key, inner, n)
    BY <1>5, <2>2 DEF putField, Numbers
  <2>p. ByteStrings(inner, n)
    BY <2>2 DEF ByteStrings
  <2>q. PICK p : Laid(p, d, f.key, inner, n)
    BY <1>1, <2>p, PutMessages
  <2>4. /\ p \in [0 .. n -> Seq(Byte)]
        /\ p[0] = d /\ p[n] = putMessages(d, f.key, inner, n)
        /\ \A j \in 1 .. n : p[j] = item(f.key, inner[n + 1 - j]) \o p[j - 1]
    BY <2>q DEF Laid
  <2>5. PICK r : r = [j \in 0 .. n |-> p[n - j]]
    OBVIOUS
  <2>6. r \in [0 .. n -> Seq(Byte)] /\ r[0] = p[n] /\ r[n] = p[0]
    <3>1. \A j \in 0 .. n : n - j \in 0 .. n
      OBVIOUS
    <3>2. n - 0 = n /\ n - n = 0 /\ 0 \in 0 .. n /\ n \in 0 .. n
      OBVIOUS
    <3>3. \A j \in 0 .. n : p[n - j] \in Seq(Byte)
      BY <2>4, <3>1
    <3>4. r \in [0 .. n -> Seq(Byte)]
      BY <2>5, <3>3
    <3>5. r[0] = p[n - 0] /\ r[n] = p[n - n]
      BY <2>5, <3>2
    <3> QED BY <3>2, <3>4, <3>5
  <2>7. ASSUME NEW j \in 0 .. n - 1 PROVE r[j] = item(f.key, inner[j + 1]) \o r[j + 1]
    <3>1. n - j \in 1 .. n /\ n + 1 - (n - j) = j + 1 /\ (n - j) - 1 = n - (j + 1)
      OBVIOUS
    <3>2. j \in 0 .. n /\ j + 1 \in 0 .. n
      OBVIOUS
    <3>3. r[j] = p[n - j] /\ r[j + 1] = p[n - (j + 1)]
      BY <2>5, <3>2
    <3> QED BY <2>4, <3>1, <3>3
  <2> QED BY <2>1, <2>2, <2>3, <2>4, <2>6, <2>7 DEF Chain, Items
<1> QED BY <1>1, <1>2, <1>3, <1>4, <1>5 DEF Numbers

(* Size counts what is put. *)
LEMMA PutFieldLen ==
    ASSUME NEW d \in Seq(Byte), NEW f, NEW x, NEW inner, Putting(f, x, inner),
           NEW g, g.kind = f.kind, g.key = 1, NEW sizes,
           DOMAIN sizes = 1 .. Len(parts(f, x)),
           \A j \in 1 .. Len(parts(f, x)) : sizes[j] = Len(inner[j])
    PROVE  /\ putField(d, f, x, inner) \in Seq(Byte)
           /\ sizeOf(g, x, sizes) \in Nat
           /\ Len(putField(d, f, x, inner)) = Len(d) + sizeOf(g, x, sizes)
<1>1. f.key \in Byte /\ f.kind \in Kinds /\ <<f.key>> \in Seq(Byte) /\ Len(<<f.key>>) = 1 /\ Len(d) \in Nat
  BY One, LenProperties DEF Putting, Byte
<1>2. CASE f.kind \in {"int32", "int64"}
  <2>1. x \in Int
    BY <1>2 DEF Putting, Holds, Int32s, Int64s
  <2>2. uint64(x) \in Nat /\ uint64(x) < Word
    BY <2>1, ConversionTypes
  <2>3. PICK e \in Seq(Byte) : e = groups(uint64(x)) /\ Len(e) = sov(uint64(x)) /\ Len(e) \in Nat
    BY <2>2, GroupsFacts
  <2>4. encodeVarint(d, uint64(x)) = e \o d
    BY <2>2, <2>3, EncodeVarint
  <2>5. e \o d \in Seq(Byte) /\ Len(e \o d) = Len(e) + Len(d)
    BY Concat
  <2>6. <<f.key>> \o (e \o d) \in Seq(Byte) /\ Len(<<f.key>> \o (e \o d)) = 1 + Len(e \o d)
    BY <1>1, <2>5, Concat
  <2>7. putField(d, f, x, inner) = IF x = 0 THEN d ELSE <<f.key>> \o (e \o d)
    BY <1>2, <2>4 DEF putField
  <2>8. sizeOf(g, x, sizes) = IF x = 0 THEN 0 ELSE 1 + sov(uint64(x))
    BY <1>2 DEF sizeOf
  <2>9. CASE x = 0
    BY <1>1, <2>7, <2>8, <2>9
  <2>10. CASE x # 0
    BY <1>1, <2>3, <2>5, <2>6, <2>7, <2>8, <2>10
  <2> QED BY <2>9, <2>10
<1>3. CASE f.kind = "sfixed64"
  <2>1. x \in Int
    BY <1>3 DEF Putting, Holds, Int32s, Int64s
  <2>3. PICK e \in Seq(Byte) : e = fixed64(x) /\ Len(e) = WordBytes /\ Len(e) \in Nat
    BY <2>1, Fixed64Facts, WordBytesNat
  <2>5. e \o d \in Seq(Byte) /\ Len(e \o d) = Len(e) + Len(d)
    BY Concat
  <2>6. <<f.key>> \o (e \o d) \in Seq(Byte) /\ Len(<<f.key>> \o (e \o d)) = 1 + Len(e \o d)
    BY <1>1, <2>5, Concat
  <2>7. putField(d, f, x, inner) = IF x = 0 THEN d ELSE <<f.key>> \o (e \o d)
    <3>1. (<<f.key>> \o e) \o d = <<f.key>> \o (e \o d)
      BY <1>1, ConcatAssociative
    <3>2. putField(d, f, x, inner) = IF x = 0 THEN d ELSE <<f.key>> \o e \o d
      BY <1>3, <2>3 DEF putField
    <3> QED BY <3>1, <3>2
  <2>8. sizeOf(g, x, sizes) = IF x = 0 THEN 0 ELSE 1 + WordBytes
    BY <1>3 DEF sizeOf, WordBytes
  <2> QED BY <1>1, <2>3, <2>5, <2>6, <2>7, <2>8
<1>4. CASE f.kind = "bytes"
  <2>1. x \in Seq(Byte)
    BY <1>4 DEF Putting, Holds
  <2>2. item(f.key, x) \in Seq(Byte) /\ Len(item(f.key, x)) = delimited(1, Len(x))
    BY <1>1, <2>1, ItemFacts
  <2>3. item(f.key, x) \o d \in Seq(Byte) /\ Len(item(f.key, x) \o d) = Len(item(f.key, x)) + Len(d)
        /\ Len(item(f.key, x)) \in Nat
    BY <2>2, Concat
  <2>4. putField(d, f, x, inner) = IF Len(x) = 0 THEN d ELSE item(f.key, x) \o d
    BY <1>1, <1>4, <2>1, PutItem DEF putField
  <2>5. sizeOf(g, x, sizes) = IF Len(x) = 0 THEN 0 ELSE delimited(1, Len(x))
    BY <1>4 DEF sizeOf
  <2> QED BY <1>1, <2>2, <2>3, <2>4, <2>5
<1>5. CASE f.kind \notin Numbers \cup {"bytes"}
  <2>2. PICK n \in Nat : n = Len(parts(f, x)) /\ \A j \in 1 .. n : inner[j] \in Seq(Byte)
    <3>1. Len(parts(f, x)) \in Nat
      <4>1. CASE f.kind \in {"stdtime", "message", "pointer"}
        BY <4>1 DEF parts
      <4>2. CASE f.kind = "repeated"
        BY <4>2, LenProperties DEF parts, Putting, Holds
      <4> QED BY <1>1, <1>5, <4>1, <4>2 DEF Kinds, Messages1
    <3> QED BY <3>1 DEF Putting
  <2>3. putField(d, f, x, inner) = putMessages(d, f.key, inner, n)
    BY <1>5, <2>2 DEF putField, Numbers
  <2>p. ByteStrings(inner, n)
    BY <2>2 DEF ByteStrings
  <2>q. PICK p : Laid(p, d, f.key, inner, n)
    BY <1>1, <2>p, PutMessages
  <2>4. /\ p \in [0 .. n -> Seq(Byte)]
        /\ p[0] = d /\ p[n] = putMessages(d, f.key, inner, n)
        /\ \A j \in 1 .. n : p[j] = item(f.key, inner[n + 1 - j]) \o p[j - 1]
    BY <2>q DEF Laid
  <2>5. PICK s : s = [j \in DOMAIN sizes |-> delimited(1, sizes[j])]
    OBVIOUS
  <2>6. sizeOf(g, x, sizes) = total(s, n)
    <3>1. parts(g, x) = parts(f, x)
      BY DEF parts
    <3> QED BY <1>5, <2>2, <2>5, <3>1 DEF sizeOf, Numbers
  <2>7. ASSUME NEW j \in 1 .. n
        PROVE /\ s[j] = delimited(1, Len(inner[j])) /\ s[j] \in Nat
              /\ s[j] = Len(item(f.key, inner[j])) /\ item(f.key, inner[j]) \in Seq(Byte)
    <3>1. s[j] = delimited(1, Len(inner[j]))
      BY <2>2, <2>5
    <3>2. item(f.key, inner[j]) \in Seq(Byte) /\ Len(item(f.key, inner[j])) = delimited(1, Len(inner[j]))
      BY <1>1, <2>2, ItemFacts
    <3> QED BY <3>1, <3>2, LenProperties
  <2>8. PICK L : L = [j \in 0 .. n |-> Len(p[j])]
    OBVIOUS
  <2>9. L \in [0 .. n -> Nat]
    BY <2>8, LenProperties
  <2>10. ASSUME NEW j \in 1 .. n PROVE L[j] = L[j - 1] + s[n + 1 - j]
    <3>1. n + 1 - j \in 1 .. n /\ j - 1 \in 0 .. n /\ j \in 0 .. n
      OBVIOUS
    <3>2. PICK e \in Seq(Byte) : e = item(f.key, inner[n + 1 - j]) /\ Len(e) = s[n + 1 - j]
      BY <2>7, <3>1
    <3>3. p[j - 1] \in Seq(Byte) /\ p[j] = e \o p[j - 1]
      BY <2>4, <3>1, <3>2
    <3>4. Len(p[j]) = Len(e) + Len(p[j - 1]) /\ Len(e) \in Nat /\ Len(p[j - 1]) \in Nat
      BY <3>3, Concat
    <3>5. L[j] = Len(p[j]) /\ L[j - 1] = Len(p[j - 1])
      BY <2>8, <3>1
    <3> QED BY <3>2, <3>4, <3>5
  <2>11. L[n] = L[0] + total(s, n)
    <3>1. \A k \in 1 .. n : s[k] \in Nat
      BY <2>7
    <3> QED BY <2>9, <2>10, <3>1, BackwardsTotal
  <2>12. L[n] = Len(p[n]) /\ L[0] = Len(d) /\ p[n] \in Seq(Byte)
    BY <2>4, <2>8
  <2>13. total(s, n) \in Nat
    BY <2>7, TotalNat
  <2> QED BY <2>3, <2>4, <2>6, <2>11, <2>12, <2>13
<1> QED BY <1>1, <1>2, <1>3, <1>4, <1>5 DEF Numbers

-----------------------------------------------------------------------------
(* The loop over the fields.  J is what the messages in a message are
   marshalled to. *)

Inners(T) == UNION {{<<U, x>> : x \in Struct[U]} : U \in Below(T)}

Encodes(J, T) == J \in [Inners(T) -> Seq(Byte)]

innerOf(f, x, J) == [j \in DOMAIN parts(f, x) |-> J[<<f.of, parts(f, x)[j]>>]]

lengths(f, x, J) == [j \in DOMAIN parts(f, x) |-> Len(J[<<f.of, parts(f, x)[j]>>])]

(* What is known of a field f that Marshal writes and the field g that Size
   counts for it. *)
Field(T, f, g, m) ==
    /\ f.kind \in Kinds /\ f.key \in 1 .. 127 /\ Holds(f, m[f.name])
    /\ f.kind = "stdtime" => f.of = "Timestamp"
    /\ f.kind \notin Numbers \cup {"bytes"} => f.of \in Below(T)
    /\ Alike(f, g) /\ g.key = 1

(* The cases of a Message hold messages of a lower level only. *)
LEMMA CaseNesting == ASSUME NEW T \in Cases PROVE Nests(Counted[T], Below(T))
<1>1. Below(T) = Types0 \cup Types1
  BY DEF Cases, Below, Types0, Types1
<1>2. Nests(SizeMessage_Proposal, Types0 \cup Types1) /\ Nests(SizeMessage_Vote, Types0 \cup Types1)
  BY DEF Nests, Numbers, Types0, Types1, SizeMessage_Proposal, SizeMessage_Vote, field,
    Pointer
<1> QED BY <1>1, <1>2 DEF Cases, Counted

(* A field of Marshal and the one of Size that counts it belong together. *)
LEMMA FieldFacts ==
    ASSUME NEW T \in Types \cup Cases, NEW m \in Struct[T], NEW n, n = Len(Written[T]), NEW k \in 1 .. n
    PROVE  n \in Nat /\ n + 1 - k \in 1 .. n /\ Field(T, Written[T][k], Counted[T][n + 1 - k], m)
<1>1. n \in Nat /\ DOMAIN Counted[T] = 1 .. n /\ Len(Counted[T]) = n
  BY Tables DEF Agree
<1>2. n + 1 - k \in 1 .. n
  BY <1>1
<1>3. PICK f, g : f = Written[T][k] /\ g = Counted[T][n + 1 - k]
  OBVIOUS
<1>4. Alike(f, g) /\ f.key \in 1 .. 127 /\ g.key = 1 /\ f.kind \in Kinds
  BY <1>2, <1>3, Tables DEF Agree
<1>5. Holds(g, m[g.name])
  BY <1>1, <1>2, <1>3, StructHolds DEF FieldsHold
<1>6. Holds(f, m[f.name])
  BY <1>4, <1>5 DEF Holds, Alike
<1>7. /\ g.kind \notin Numbers \cup {"bytes"} => g.of \in Below(T)
      /\ g.kind = "stdtime" => g.of = "Timestamp"
  <2>1. CASE T \in Cases
    BY <1>1, <1>2, <1>3, <2>1, CaseNesting DEF Nests
  <2>2. CASE T \in Types
    <3>1. Matches(Expected[T], Written[T]) /\ Nests(Expected[T], Below(T))
      BY <2>2, Keys, Nesting
    <3>2. n + 1 - (n + 1 - k) = k
      BY <1>1
    <3>3. Alike(Expected[T][n + 1 - k], f) /\ n + 1 - k \in DOMAIN Expected[T]
      BY <1>2, <1>3, <3>1, <3>2 DEF Matches
    <3> QED BY <1>4, <3>1, <3>3 DEF Nests, Alike
  <2> QED BY <2>1, <2>2
<1>8. /\ f.kind \notin Numbers \cup {"bytes"} => f.of \in Below(T)
      /\ f.kind = "stdtime" => f.of = "Timestamp"
  BY <1>4, <1>7 DEF Alike
<1>9. Field(T, f, g, m)
  BY <1>4, <1>6, <1>8 DEF Field
<1> QED BY <1>1, <1>2, <1>3, <1>9

InnersAre(T, f, x, J) ==
    /\ Putting(f, x, innerOf(f, x, J))
    /\ DOMAIN lengths(f, x, J) = 1 .. Len(parts(f, x))
    /\ DOMAIN parts(f, x) = 1 .. Len(parts(f, x))
    /\ \A j \in 1 .. Len(parts(f, x)) :
          /\ <<f.of, parts(f, x)[j]>> \in Inners(T)
          /\ innerOf(f, x, J)[j] = J[<<f.of, parts(f, x)[j]>>]
          /\ lengths(f, x, J)[j] = Len(innerOf(f, x, J)[j])

(* A nested message has a lower level and the type it says. *)
LEMMA InnerPair ==
    ASSUME NEW T, NEW U, NEW x, <<U, x>> \in Inners(T)
    PROVE  U \in Below(T) /\ x \in Struct[U]
<1>1. PICK V \in Below(T) : <<U, x>> \in {<<V, y>> : y \in Struct[V]}
  BY DEF Inners
<1>2. PICK y \in Struct[V] : <<U, x>> = <<V, y>>
  BY <1>1
<1> QED BY <1>2

(* Every argument of a nested Marshal is a type and a message of it. *)
LEMMA InnerPairs ==
    ASSUME NEW T, NEW q \in Inners(T)
    PROVE  \E U \in Below(T) : \E x \in Struct[U] : q = <<U, x>>
BY DEF Inners

(* The nested messages of a field are encoded to bytes. *)
LEMMA InnerFacts ==
    ASSUME NEW T, NEW m, NEW f, NEW g, Field(T, f, g, m), NEW J, Encodes(J, T)
    PROVE  InnersAre(T, f, m[f.name], J)
<1>1. PICK x : x = m[f.name]
  OBVIOUS
<1>2. /\ Len(parts(f, x)) \in Nat /\ DOMAIN parts(f, x) = 1 .. Len(parts(f, x))
      /\ \A j \in 1 .. Len(parts(f, x)) : parts(f, x)[j] \in Struct[f.of]
      /\ f.kind \in Numbers \cup {"bytes"} => parts(f, x) = <<>>
  <2>1. f.kind \in Kinds /\ Holds(f, x) /\ (f.kind = "stdtime" => f.of = "Timestamp")
    BY <1>1 DEF Field
  <2> QED BY <2>1, PartsFacts
<1>3. ASSUME NEW j \in 1 .. Len(parts(f, x))
      PROVE /\ <<f.of, parts(f, x)[j]>> \in Inners(T)
            /\ innerOf(f, x, J)[j] = J[<<f.of, parts(f, x)[j]>>]
            /\ innerOf(f, x, J)[j] \in Seq(Byte)
            /\ lengths(f, x, J)[j] = Len(innerOf(f, x, J)[j])
  <2>1. f.kind \notin Numbers \cup {"bytes"}
    <3>1. parts(f, x) # <<>>
      BY <1>2
    <3> QED BY <1>2, <3>1
  <2>2. f.of \in Below(T)
    BY <2>1 DEF Field
  <2>3. <<f.of, parts(f, x)[j]>> \in Inners(T)
    BY <1>2, <2>2 DEF Inners
  <2>4. J[<<f.of, parts(f, x)[j]>>] \in Seq(Byte)
    BY <2>3 DEF Encodes
  <2> QED BY <1>2, <2>3, <2>4 DEF innerOf, lengths
<1>4. Putting(f, x, innerOf(f, x, J))
  BY <1>1, <1>3 DEF Putting, Field
<1>5. DOMAIN lengths(f, x, J) = 1 .. Len(parts(f, x))
  BY <1>2 DEF lengths
<1> QED BY <1>1, <1>2, <1>3, <1>4, <1>5 DEF InnersAre

(* a[k] is the buffer after k fields. *)
Buffers(a, T, m, J) ==
    a = [k \in 0 .. Len(Written[T]) |->
            IF k = 0 THEN <<>>
            ELSE putField(a[k - 1], Written[T][k], m[Written[T][k].name],
                          innerOf(Written[T][k], m[Written[T][k].name], J))]

sizesOf(T, m, J) ==
    [k \in DOMAIN Counted[T] |->
        sizeOf(Counted[T][k], m[Counted[T][k].name],
               lengths(Counted[T][k], m[Counted[T][k].name], J))]

(* Field k adds to the buffer y as many bytes as Size counts for it. *)
Grows(T, m, J, n, k, y) ==
    /\ putField(y, Written[T][k], m[Written[T][k].name],
                innerOf(Written[T][k], m[Written[T][k].name], J)) \in Seq(Byte)
    /\ sizesOf(T, m, J)[n + 1 - k] \in Nat
    /\ Len(putField(y, Written[T][k], m[Written[T][k].name],
                    innerOf(Written[T][k], m[Written[T][k].name], J)))
       = Len(y) + sizesOf(T, m, J)[n + 1 - k]

(* Every field of a struct does. *)
LEMMA OneBuffer ==
    ASSUME NEW T \in Types \cup Cases, NEW m \in Struct[T], NEW J, Encodes(J, T),
           NEW n, n = Len(Written[T]), NEW k \in 1 .. n, NEW y \in Seq(Byte)
    PROVE  Grows(T, m, J, n, k, y)
<1>1. PICK f, g : f = Written[T][k] /\ g = Counted[T][n + 1 - k]
  OBVIOUS
<1>2. n \in Nat /\ n + 1 - k \in 1 .. n /\ Field(T, f, g, m)
  BY <1>1, FieldFacts
<1>3. f.kind = g.kind /\ f.name = g.name /\ f.of = g.of /\ g.key = 1
  BY <1>2 DEF Field, Alike
<1>4. PICK x : x = m[f.name]
  OBVIOUS
<1>5. /\ Putting(f, x, innerOf(f, x, J))
      /\ DOMAIN lengths(f, x, J) = 1 .. Len(parts(f, x))
      /\ \A j \in 1 .. Len(parts(f, x)) : lengths(f, x, J)[j] = Len(innerOf(f, x, J)[j])
  <2>1. InnersAre(T, f, x, J)
    BY <1>2, <1>4, InnerFacts
  <2> QED BY <2>1 DEF InnersAre
<1>6. /\ putField(y, f, x, innerOf(f, x, J)) \in Seq(Byte)
      /\ sizeOf(g, x, lengths(f, x, J)) \in Nat
      /\ Len(putField(y, f, x, innerOf(f, x, J))) = Len(y) + sizeOf(g, x, lengths(f, x, J))
  BY <1>3, <1>5, PutFieldLen
<1>7. sizesOf(T, m, J)[n + 1 - k] = sizeOf(g, x, lengths(f, x, J))
  <2>1. DOMAIN Counted[T] = 1 .. n
    BY Tables DEF Agree
  <2>2. lengths(g, x, J) = lengths(f, x, J)
    BY <1>3 DEF lengths, parts
  <2>3. n + 1 - k \in DOMAIN Counted[T] /\ m[g.name] = x
    BY <1>2, <1>3, <1>4, <2>1
  <2> QED BY <1>1, <2>2, <2>3 DEF sizesOf
<1> QED BY <1>1, <1>4, <1>6, <1>7 DEF Grows

(* The fields are written one after the other, towards the front of the
   buffer. *)
LEMMA BuffersExist ==
    ASSUME NEW T \in Types \cup Cases, NEW m \in Struct[T], NEW J, Encodes(J, T)
    PROVE  \E a : Buffers(a, T, m, J)
<1>1. PICK n \in Nat : n = Len(Written[T])
  BY Tables DEF Agree
<1>2. PICK F : F = [k \in 1 .. n |-> [y \in Seq(Byte) |->
                       putField(y, Written[T][k], m[Written[T][k].name],
                                innerOf(Written[T][k], m[Written[T][k].name], J))]]
  OBVIOUS
<1>3. F \in [1 .. n -> [Seq(Byte) -> Seq(Byte)]]
  <2>1. ASSUME NEW k \in 1 .. n, NEW y \in Seq(Byte) PROVE Grows(T, m, J, n, k, y)
    BY <1>1, OneBuffer
  <2> QED BY <1>2, <2>1 DEF Grows
<1>4. <<>> \in Seq(Byte)
  OBVIOUS
<1>5. PICK a \in [0 .. n -> Seq(Byte)] : Iterates(a, <<>>, F, n)
  BY <1>3, <1>4, Iteration
<1>6. ASSUME NEW k \in 0 .. n, k # 0
      PROVE F[k][a[k - 1]] = putField(a[k - 1], Written[T][k], m[Written[T][k].name],
                                      innerOf(Written[T][k], m[Written[T][k].name], J))
  <2>1. k \in 1 .. n /\ k - 1 \in 0 .. n
    BY <1>6
  <2> QED BY <1>2, <2>1
<1>7. Buffers(a, T, m, J)
  BY <1>1, <1>5, <1>6 DEF Iterates, Buffers
<1> QED BY <1>7

BuffersAre(a, T, m, J, n) ==
    /\ n \in Nat /\ a \in [0 .. n -> Seq(Byte)] /\ a[0] = <<>>
    /\ \A k \in 1 .. n :
          a[k] = putField(a[k - 1], Written[T][k], m[Written[T][k].name],
                          innerOf(Written[T][k], m[Written[T][k].name], J))
    /\ Len(a[n]) = total(sizesOf(T, m, J), n)

(* After k fields the buffer holds as many bytes as Size counts for them. *)
LEMMA BuffersFacts ==
    ASSUME NEW T \in Types \cup Cases, NEW m \in Struct[T], NEW J, Encodes(J, T),
           NEW n, n = Len(Written[T]), NEW a, Buffers(a, T, m, J)
    PROVE  BuffersAre(a, T, m, J, n)
<1>1. n \in Nat
  BY Tables DEF Agree
<1>2. a[0] = <<>> /\ a[0] \in Seq(Byte)
  BY <1>1 DEF Buffers
<1>3. ASSUME NEW k \in 1 .. n
      PROVE  a[k] = putField(a[k - 1], Written[T][k], m[Written[T][k].name],
                             innerOf(Written[T][k], m[Written[T][k].name], J))
  BY <1>1, <1>3 DEF Buffers
<1> DEFINE S == {k \in Nat : k <= n => a[k] \in Seq(Byte)}
<1>4. 0 \in S
  BY <1>2
<1>5. ASSUME NEW k \in S PROVE k + 1 \in S
  <2> SUFFICES ASSUME k + 1 <= n PROVE a[k + 1] \in Seq(Byte)
    OBVIOUS
  <2>1. k \in Nat /\ k <= n /\ a[k] \in Seq(Byte) /\ k + 1 \in 1 .. n /\ (k + 1) - 1 = k
    BY <1>1
  <2>2. a[k + 1] = putField(a[k], Written[T][k + 1], m[Written[T][k + 1].name],
                            innerOf(Written[T][k + 1], m[Written[T][k + 1].name], J))
    BY <1>3, <2>1
  <2>3. putField(a[k], Written[T][k + 1], m[Written[T][k + 1].name],
                 innerOf(Written[T][k + 1], m[Written[T][k + 1].name], J)) \in Seq(Byte)
    <3>1. Grows(T, m, J, n, k + 1, a[k])
      BY <2>1, OneBuffer
    <3> QED BY <3>1 DEF Grows
  <2> QED BY <2>2, <2>3
<1>6. S = Nat
  <2>1. S \in SUBSET Nat
    OBVIOUS
  <2> HIDE DEF S
  <2> QED BY <1>4, <1>5, <2>1, Induction
<1>7. \A k \in 0 .. n : a[k] \in Seq(Byte)
  BY <1>6
<1>8. a \in [0 .. n -> Seq(Byte)]
  BY <1>7 DEF Buffers
<1>9. PICK L : L = [k \in 0 .. n |-> Len(a[k])]
  OBVIOUS
<1>10. L \in [0 .. n -> Nat]
  BY <1>7, <1>9, LenProperties
<1>11. PICK s : s = sizesOf(T, m, J)
  OBVIOUS
<1>12. ASSUME NEW k \in 1 .. n PROVE L[k] = L[k - 1] + s[n + 1 - k] /\ s[n + 1 - k] \in Nat
  <2>1. k - 1 \in 0 .. n /\ k \in 0 .. n
    BY <1>1
  <2>2. a[k - 1] \in Seq(Byte)
    BY <1>7, <2>1
  <2>3. Len(a[k]) = Len(a[k - 1]) + s[n + 1 - k] /\ s[n + 1 - k] \in Nat
    <3>1. PICK y \in Seq(Byte) : y = a[k - 1]
      BY <2>2
    <3>2. a[k] = putField(y, Written[T][k], m[Written[T][k].name],
                          innerOf(Written[T][k], m[Written[T][k].name], J))
      BY <1>3, <3>1
    <3>3. /\ sizesOf(T, m, J)[n + 1 - k] \in Nat
          /\ Len(putField(y, Written[T][k], m[Written[T][k].name],
                          innerOf(Written[T][k], m[Written[T][k].name], J)))
             = Len(y) + sizesOf(T, m, J)[n + 1 - k]
      <4>1. Grows(T, m, J, n, k, y)
        BY OneBuffer
      <4> QED BY <4>1 DEF Grows
    <3>4. PICK w : w = sizesOf(T, m, J)[n + 1 - k]
      OBVIOUS
    <3>5. s[n + 1 - k] = w
      BY <1>11, <3>4
    <3>6. PICK z : z = putField(y, Written[T][k], m[Written[T][k].name],
                                innerOf(Written[T][k], m[Written[T][k].name], J))
      OBVIOUS
    <3>7. w \in Nat /\ Len(z) = Len(y) + w
      BY <3>3, <3>4, <3>6
    <3>8. a[k] = z
      BY <3>2, <3>6
    <3> QED BY <3>1, <3>5, <3>7, <3>8
  <2> QED BY <1>9, <2>1, <2>3
<1>13. \A k \in 1 .. n : s[k] \in Nat
  <2>1. ASSUME NEW k \in 1 .. n PROVE s[k] \in Nat
    <3>1. n + 1 - k \in 1 .. n /\ n + 1 - (n + 1 - k) = k
      BY <1>1
    <3> QED BY <1>12, <3>1
  <2> QED BY <2>1
<1>14. L[n] = L[0] + total(s, n)
  BY <1>1, <1>10, <1>12, <1>13, BackwardsTotal
<1>15. total(s, n) \in Nat
  BY <1>1, <1>13, TotalNat
<1>16. L[n] = Len(a[n]) /\ L[0] = 0
  BY <1>1, <1>2, <1>9
<1> QED BY <1>1, <1>2, <1>3, <1>8, <1>11, <1>14, <1>15, <1>16 DEF BuffersAre

-----------------------------------------------------------------------------
(* The three levels. *)

(* c is m marshalled, with J for the messages in it, and s is its size. *)
Coded(T, m, J, c, s) ==
    /\ Encodes(J, T) /\ \E a : Buffers(a, T, m, J) /\ c = a[Len(Written[T])]
    /\ c \in Seq(Byte) /\ s = Len(c)

Inner0(T) == [p \in Inners(T) |-> <<>>]
Inner1(T) == [p \in Inners(T) |-> Marshal0(p[1], p[2])]
Inner2(T) == [p \in Inners(T) |-> Marshal1(p[1], p[2])]

(* Marshal of a message without nested ones fills exactly Size bytes. *)
LEMMA Coding0 ==
    ASSUME NEW T \in Types0, NEW m \in Struct[T]
    PROVE  Coded(T, m, Inner0(T), Marshal0(T, m), Size0(T, m))
<1>0. T \in Types \cup Cases
  BY DEF Types
<1> DEFINE J == Inner0(T)
           sizes(f, x) == [j \in DOMAIN parts(f, x) |-> 0]
           put(f, x) == [j \in DOMAIN parts(f, x) |-> <<>>]
           A(a) == a = [k \in 0 .. Len(Written[T]) |->
                          IF k = 0 THEN <<>>
                          ELSE putField(a[k - 1], Written[T][k], m[Written[T][k].name],
                                        put(Written[T][k], m[Written[T][k].name]))]
           p == CHOOSE a : A(a)
           s == [k \in DOMAIN Counted[T] |->
                   sizeOf(Counted[T][k], m[Counted[T][k].name],
                          sizes(Counted[T][k], m[Counted[T][k].name]))]
<1>1. Marshal0(T, m) = p[Len(Written[T])]
  BY DEF Marshal0, marshalWith
<1>2. Size0(T, m) = total(s, Len(Counted[T]))
  BY DEF Size0, sizeWith
<1> HIDE DEF p
<1>3. ASSUME NEW U, NEW x, <<U, x>> \in Inners(T)
      PROVE  J[<<U, x>>] \in Seq(Byte) /\ FALSE
  BY <1>3, InnerPair DEF Below
<1>4. Encodes(J, T)
  <2>1. ASSUME NEW q \in Inners(T) PROVE J[q] \in Seq(Byte)
    <3>1. PICK U \in Below(T) : \E x \in Struct[U] : q = <<U, x>>
      BY InnerPairs
    <3>2. PICK x \in Struct[U] : q = <<U, x>>
      BY <3>1
    <3> QED BY <1>3, <3>2
  <2> QED BY <2>1 DEF Encodes, Inner0
<1> HIDE DEF J
<1>5. PICK n \in Nat : n = Len(Written[T]) /\ n = Len(Counted[T]) /\ DOMAIN Counted[T] = 1 .. n
  BY <1>0, Tables DEF Agree
<1>6. ASSUME NEW k \in 1 .. n
      PROVE  put(Written[T][k], m[Written[T][k].name]) = innerOf(Written[T][k], m[Written[T][k].name], J)
  <2>1. PICK f : f = Written[T][k]
    OBVIOUS
  <2>2. /\ \A j \in 1 .. Len(parts(f, m[f.name])) : <<f.of, parts(f, m[f.name])[j]>> \in Inners(T)
        /\ DOMAIN parts(f, m[f.name]) = 1 .. Len(parts(f, m[f.name]))
    <3>1. PICK g : g = Counted[T][n + 1 - k]
      OBVIOUS
    <3>2. Field(T, f, g, m)
      BY <1>0, <1>5, <2>1, <3>1, FieldFacts
    <3>3. InnersAre(T, f, m[f.name], J)
      BY <1>4, <3>2, InnerFacts
    <3> QED BY <3>3 DEF InnersAre
  <2>3. ASSUME NEW j \in DOMAIN parts(f, m[f.name])
        PROVE <<>> = J[<<f.of, parts(f, m[f.name])[j]>>]
    <3>1. <<f.of, parts(f, m[f.name])[j]>> \in Inners(T)
      BY <2>2
    <3> QED BY <1>3, <3>1
  <2> QED BY <2>1, <2>3 DEF innerOf
<1>7. ASSUME NEW a PROVE A(a) <=> Buffers(a, T, m, J)
  <2>1. ASSUME NEW k \in 0 .. n, k # 0
        PROVE  put(Written[T][k], m[Written[T][k].name]) = innerOf(Written[T][k], m[Written[T][k].name], J)
    <3>1. k \in 1 .. n
      BY <2>1
    <3> QED BY <1>6, <3>1
  <2> HIDE DEF put
  <2> QED BY <1>5, <2>1 DEF Buffers
<1> HIDE DEF A
<1>8. \E a : A(a)
  BY <1>0, <1>4, <1>7, BuffersExist
<1>9. Buffers(p, T, m, J)
  <2>1. A(p)
    BY <1>8 DEF p
  <2> QED BY <1>7, <2>1
<1>10. p \in [0 .. n -> Seq(Byte)] /\ Len(p[n]) = total(sizesOf(T, m, J), n)
  <2>1. BuffersAre(p, T, m, J, n)
    BY <1>0, <1>4, <1>5, <1>9, BuffersFacts
  <2> QED BY <2>1 DEF BuffersAre
<1>11. s = sizesOf(T, m, J)
  <2>1. ASSUME NEW k \in DOMAIN Counted[T]
        PROVE sizes(Counted[T][k], m[Counted[T][k].name]) = lengths(Counted[T][k], m[Counted[T][k].name], J)
    <3>1. PICK i \in 1 .. n : i = n + 1 - k /\ n + 1 - i = k
      BY <1>5
    <3>2. PICK f, g : f = Written[T][i] /\ g = Counted[T][k]
      OBVIOUS
    <3>3. Field(T, f, g, m)
      BY <1>0, <1>5, <3>1, <3>2, FieldFacts
    <3>4. /\ \A j \in 1 .. Len(parts(f, m[f.name])) : <<f.of, parts(f, m[f.name])[j]>> \in Inners(T)
          /\ DOMAIN parts(f, m[f.name]) = 1 .. Len(parts(f, m[f.name]))
      <4>1. InnersAre(T, f, m[f.name], J)
        BY <1>4, <3>3, InnerFacts
      <4> QED BY <4>1 DEF InnersAre
    <3>5. parts(g, m[g.name]) = parts(f, m[f.name]) /\ f.of = g.of
      BY <3>3 DEF Field, Alike, parts
    <3>6. ASSUME NEW j \in DOMAIN parts(g, m[g.name])
          PROVE 0 = Len(J[<<g.of, parts(g, m[g.name])[j]>>])
      <4>1. <<g.of, parts(g, m[g.name])[j]>> \in Inners(T)
        BY <3>4, <3>5
      <4> QED BY <1>3, <4>1
    <3> QED BY <3>2, <3>6 DEF lengths
  <2> HIDE DEF sizes
  <2> QED BY <2>1 DEF sizesOf
<1> HIDE DEF s
<1>12. Size0(T, m) = Len(p[n]) /\ p[n] \in Seq(Byte)
  BY <1>2, <1>5, <1>10, <1>11
<1> QED BY <1>1, <1>4, <1>5, <1>9, <1>12 DEF Coded, J

(* Marshal of a message one level up fills exactly Size bytes. *)
LEMMA Coding1 ==
    ASSUME NEW T \in Types0 \cup Types1, NEW m \in Struct[T]
    PROVE  Coded(T, m, Inner1(T), Marshal1(T, m), Size1(T, m))
<1>0. T \in Types \cup Cases
  BY DEF Types
<1> DEFINE J == Inner1(T)
           sizes(f, x) == [j \in DOMAIN parts(f, x) |-> Size0(f.of, parts(f, x)[j])]
           put(f, x) == [j \in DOMAIN parts(f, x) |-> Marshal0(f.of, parts(f, x)[j])]
           A(a) == a = [k \in 0 .. Len(Written[T]) |->
                          IF k = 0 THEN <<>>
                          ELSE putField(a[k - 1], Written[T][k], m[Written[T][k].name],
                                        put(Written[T][k], m[Written[T][k].name]))]
           p == CHOOSE a : A(a)
           s == [k \in DOMAIN Counted[T] |->
                   sizeOf(Counted[T][k], m[Counted[T][k].name],
                          sizes(Counted[T][k], m[Counted[T][k].name]))]
<1>1. Marshal1(T, m) = p[Len(Written[T])]
  BY DEF Marshal1, marshalWith
<1>2. Size1(T, m) = total(s, Len(Counted[T]))
  BY DEF Size1, sizeWith
<1> HIDE DEF p
<1>3. ASSUME NEW U, NEW x, <<U, x>> \in Inners(T)
      PROVE  J[<<U, x>>] \in Seq(Byte) /\ J[<<U, x>>] = Marshal0(U, x) /\ Len(J[<<U, x>>]) = Size0(U, x)
  <2>1. U \in Below(T) /\ x \in Struct[U]
    BY <1>3, InnerPair
  <2>2. U \in Types0
    BY <2>1 DEF Below, Types0, Types1
  <2>3. Coded(U, x, Inner0(U), Marshal0(U, x), Size0(U, x))
    BY <2>1, <2>2, Coding0
  <2>4. J[<<U, x>>] = Marshal0(U, x)
    BY <1>3 DEF Inner1
  <2> QED BY <2>3, <2>4 DEF Coded
<1>4. Encodes(J, T)
  <2>1. ASSUME NEW q \in Inners(T) PROVE J[q] \in Seq(Byte)
    <3>1. PICK U \in Below(T) : \E x \in Struct[U] : q = <<U, x>>
      BY InnerPairs
    <3>2. PICK x \in Struct[U] : q = <<U, x>>
      BY <3>1
    <3> QED BY <1>3, <3>2
  <2> QED BY <2>1 DEF Encodes, Inner1
<1> HIDE DEF J
<1>5. PICK n \in Nat : n = Len(Written[T]) /\ n = Len(Counted[T]) /\ DOMAIN Counted[T] = 1 .. n
  BY <1>0, Tables DEF Agree
<1>6. ASSUME NEW k \in 1 .. n
      PROVE  put(Written[T][k], m[Written[T][k].name]) = innerOf(Written[T][k], m[Written[T][k].name], J)
  <2>1. PICK f : f = Written[T][k]
    OBVIOUS
  <2>2. /\ \A j \in 1 .. Len(parts(f, m[f.name])) : <<f.of, parts(f, m[f.name])[j]>> \in Inners(T)
        /\ DOMAIN parts(f, m[f.name]) = 1 .. Len(parts(f, m[f.name]))
    <3>1. PICK g : g = Counted[T][n + 1 - k]
      OBVIOUS
    <3>2. Field(T, f, g, m)
      BY <1>0, <1>5, <2>1, <3>1, FieldFacts
    <3>3. InnersAre(T, f, m[f.name], J)
      BY <1>4, <3>2, InnerFacts
    <3> QED BY <3>3 DEF InnersAre
  <2>3. ASSUME NEW j \in DOMAIN parts(f, m[f.name])
        PROVE Marshal0(f.of, parts(f, m[f.name])[j]) = J[<<f.of, parts(f, m[f.name])[j]>>]
    <3>1. <<f.of, parts(f, m[f.name])[j]>> \in Inners(T)
      BY <2>2
    <3> QED BY <1>3, <3>1
  <2> QED BY <2>1, <2>3 DEF innerOf
<1>7. ASSUME NEW a PROVE A(a) <=> Buffers(a, T, m, J)
  <2>1. ASSUME NEW k \in 0 .. n, k # 0
        PROVE  put(Written[T][k], m[Written[T][k].name]) = innerOf(Written[T][k], m[Written[T][k].name], J)
    <3>1. k \in 1 .. n
      BY <2>1
    <3> QED BY <1>6, <3>1
  <2> HIDE DEF put
  <2> QED BY <1>5, <2>1 DEF Buffers
<1> HIDE DEF A
<1>8. \E a : A(a)
  BY <1>0, <1>4, <1>7, BuffersExist
<1>9. Buffers(p, T, m, J)
  <2>1. A(p)
    BY <1>8 DEF p
  <2> QED BY <1>7, <2>1
<1>10. p \in [0 .. n -> Seq(Byte)] /\ Len(p[n]) = total(sizesOf(T, m, J), n)
  <2>1. BuffersAre(p, T, m, J, n)
    BY <1>0, <1>4, <1>5, <1>9, BuffersFacts
  <2> QED BY <2>1 DEF BuffersAre
<1>11. s = sizesOf(T, m, J)
  <2>1. ASSUME NEW k \in DOMAIN Counted[T]
        PROVE sizes(Counted[T][k], m[Counted[T][k].name]) = lengths(Counted[T][k], m[Counted[T][k].name], J)
    <3>1. PICK i \in 1 .. n : i = n + 1 - k /\ n + 1 - i = k
      BY <1>5
    <3>2. PICK f, g : f = Written[T][i] /\ g = Counted[T][k]
      OBVIOUS
    <3>3. Field(T, f, g, m)
      BY <1>0, <1>5, <3>1, <3>2, FieldFacts
    <3>4. /\ \A j \in 1 .. Len(parts(f, m[f.name])) : <<f.of, parts(f, m[f.name])[j]>> \in Inners(T)
          /\ DOMAIN parts(f, m[f.name]) = 1 .. Len(parts(f, m[f.name]))
      <4>1. InnersAre(T, f, m[f.name], J)
        BY <1>4, <3>3, InnerFacts
      <4> QED BY <4>1 DEF InnersAre
    <3>5. parts(g, m[g.name]) = parts(f, m[f.name]) /\ f.of = g.of
      BY <3>3 DEF Field, Alike, parts
    <3>6. ASSUME NEW j \in DOMAIN parts(g, m[g.name])
          PROVE Size0(g.of, parts(g, m[g.name])[j]) = Len(J[<<g.of, parts(g, m[g.name])[j]>>])
      <4>1. <<g.of, parts(g, m[g.name])[j]>> \in Inners(T)
        BY <3>4, <3>5
      <4> QED BY <1>3, <4>1
    <3> QED BY <3>2, <3>6 DEF lengths
  <2> HIDE DEF sizes
  <2> QED BY <2>1 DEF sizesOf
<1> HIDE DEF s
<1>12. Size1(T, m) = Len(p[n]) /\ p[n] \in Seq(Byte)
  BY <1>2, <1>5, <1>10, <1>11
<1> QED BY <1>1, <1>4, <1>5, <1>9, <1>12 DEF Coded, J

(* Marshal of any message fills exactly Size bytes. *)
LEMMA Coding2 ==
    ASSUME NEW T \in Types \cup Cases, NEW m \in Struct[T]
    PROVE  Coded(T, m, Inner2(T), MarshalToSizedBuffer(T, m), Size2(T, m))
<1>0. T \in Types \cup Cases
  BY DEF Types
<1> DEFINE J == Inner2(T)
           sizes(f, x) == [j \in DOMAIN parts(f, x) |-> Size1(f.of, parts(f, x)[j])]
           put(f, x) == [j \in DOMAIN parts(f, x) |-> Marshal1(f.of, parts(f, x)[j])]
           A(a) == a = [k \in 0 .. Len(Written[T]) |->
                          IF k = 0 THEN <<>>
                          ELSE putField(a[k - 1], Written[T][k], m[Written[T][k].name],
                                        put(Written[T][k], m[Written[T][k].name]))]
           p == CHOOSE a : A(a)
           s == [k \in DOMAIN Counted[T] |->
                   sizeOf(Counted[T][k], m[Counted[T][k].name],
                          sizes(Counted[T][k], m[Counted[T][k].name]))]
<1>1. MarshalToSizedBuffer(T, m) = p[Len(Written[T])]
  BY DEF MarshalToSizedBuffer, marshalWith
<1>2. Size2(T, m) = total(s, Len(Counted[T]))
  BY DEF Size2, sizeWith
<1> HIDE DEF p
<1>3. ASSUME NEW U, NEW x, <<U, x>> \in Inners(T)
      PROVE  J[<<U, x>>] \in Seq(Byte) /\ J[<<U, x>>] = Marshal1(U, x) /\ Len(J[<<U, x>>]) = Size1(U, x)
  <2>1. U \in Below(T) /\ x \in Struct[U]
    BY <1>3, InnerPair
  <2>2. U \in Types0 \cup Types1
    BY <2>1 DEF Below, Types0, Types1
  <2>3. Coded(U, x, Inner1(U), Marshal1(U, x), Size1(U, x))
    BY <2>1, <2>2, Coding1
  <2>4. J[<<U, x>>] = Marshal1(U, x)
    BY <1>3 DEF Inner2
  <2> QED BY <2>3, <2>4 DEF Coded
<1>4. Encodes(J, T)
  <2>1. ASSUME NEW q \in Inners(T) PROVE J[q] \in Seq(Byte)
    <3>1. PICK U \in Below(T) : \E x \in Struct[U] : q = <<U, x>>
      BY InnerPairs
    <3>2. PICK x \in Struct[U] : q = <<U, x>>
      BY <3>1
    <3> QED BY <1>3, <3>2
  <2> QED BY <2>1 DEF Encodes, Inner2
<1> HIDE DEF J
<1>5. PICK n \in Nat : n = Len(Written[T]) /\ n = Len(Counted[T]) /\ DOMAIN Counted[T] = 1 .. n
  BY <1>0, Tables DEF Agree
<1>6. ASSUME NEW k \in 1 .. n
      PROVE  put(Written[T][k], m[Written[T][k].name]) = innerOf(Written[T][k], m[Written[T][k].name], J)
  <2>1. PICK f : f = Written[T][k]
    OBVIOUS
  <2>2. /\ \A j \in 1 .. Len(parts(f, m[f.name])) : <<f.of, parts(f, m[f.name])[j]>> \in Inners(T)
        /\ DOMAIN parts(f, m[f.name]) = 1 .. Len(parts(f, m[f.name]))
    <3>1. PICK g : g = Counted[T][n + 1 - k]
      OBVIOUS
    <3>2. Field(T, f, g, m)
      BY <1>0, <1>5, <2>1, <3>1, FieldFacts
    <3>3. InnersAre(T, f, m[f.name], J)
      BY <1>4, <3>2, InnerFacts
    <3> QED BY <3>3 DEF InnersAre
  <2>3. ASSUME NEW j \in DOMAIN parts(f, m[f.name])
        PROVE Marshal1(f.of, parts(f, m[f.name])[j]) = J[<<f.of, parts(f, m[f.name])[j]>>]
    <3>1. <<f.of, parts(f, m[f.name])[j]>> \in Inners(T)
      BY <2>2
    <3> QED BY <1>3, <3>1
  <2> QED BY <2>1, <2>3 DEF innerOf
<1>7. ASSUME NEW a PROVE A(a) <=> Buffers(a, T, m, J)
  <2>1. ASSUME NEW k \in 0 .. n, k # 0
        PROVE  put(Written[T][k], m[Written[T][k].name]) = innerOf(Written[T][k], m[Written[T][k].name], J)
    <3>1. k \in 1 .. n
      BY <2>1
    <3> QED BY <1>6, <3>1
  <2> HIDE DEF put
  <2> QED BY <1>5, <2>1 DEF Buffers
<1> HIDE DEF A
<1>8. \E a : A(a)
  BY <1>0, <1>4, <1>7, BuffersExist
<1>9. Buffers(p, T, m, J)
  <2>1. A(p)
    BY <1>8 DEF p
  <2> QED BY <1>7, <2>1
<1>10. p \in [0 .. n -> Seq(Byte)] /\ Len(p[n]) = total(sizesOf(T, m, J), n)
  <2>1. BuffersAre(p, T, m, J, n)
    BY <1>0, <1>4, <1>5, <1>9, BuffersFacts
  <2> QED BY <2>1 DEF BuffersAre
<1>11. s = sizesOf(T, m, J)
  <2>1. ASSUME NEW k \in DOMAIN Counted[T]
        PROVE sizes(Counted[T][k], m[Counted[T][k].name]) = lengths(Counted[T][k], m[Counted[T][k].name], J)
    <3>1. PICK i \in 1 .. n : i = n + 1 - k /\ n + 1 - i = k
      BY <1>5
    <3>2. PICK f, g : f = Written[T][i] /\ g = Counted[T][k]
      OBVIOUS
    <3>3. Field(T, f, g, m)
      BY <1>0, <1>5, <3>1, <3>2, FieldFacts
    <3>4. /\ \A j \in 1 .. Len(parts(f, m[f.name])) : <<f.of, parts(f, m[f.name])[j]>> \in Inners(T)
          /\ DOMAIN parts(f, m[f.name]) = 1 .. Len(parts(f, m[f.name]))
      <4>1. InnersAre(T, f, m[f.name], J)
        BY <1>4, <3>3, InnerFacts
      <4> QED BY <4>1 DEF InnersAre
    <3>5. parts(g, m[g.name]) = parts(f, m[f.name]) /\ f.of = g.of
      BY <3>3 DEF Field, Alike, parts
    <3>6. ASSUME NEW j \in DOMAIN parts(g, m[g.name])
          PROVE Size1(g.of, parts(g, m[g.name])[j]) = Len(J[<<g.of, parts(g, m[g.name])[j]>>])
      <4>1. <<g.of, parts(g, m[g.name])[j]>> \in Inners(T)
        BY <3>4, <3>5
      <4> QED BY <1>3, <4>1
    <3> QED BY <3>2, <3>6 DEF lengths
  <2> HIDE DEF sizes
  <2> QED BY <2>1 DEF sizesOf
<1> HIDE DEF s
<1>12. Size2(T, m) = Len(p[n]) /\ p[n] \in Seq(Byte)
  BY <1>2, <1>5, <1>10, <1>11
<1> QED BY <1>1, <1>4, <1>5, <1>9, <1>12 DEF Coded, J

-----------------------------------------------------------------------------
(* What reading yields: a value and an index within the bytes, or an error
   that is no panic. *)

Errors == {"IntOverflow", "UnexpectedEOF", "InvalidLength", "illegal tag", "wrong wireType",
           "timestamp", "UnexpectedEndOfGroup", "illegal wireType", "no message"}

Failed == [err : Errors, v : {Nil}, i : Nat]

Results(V, l) == [err : {"none"}, v : V, i : 0 .. l] \cup Failed

(* The bytes a slice can have. *)
Data == {b \in Seq(Byte) : Len(b) < IntRange}

(* A slice is a sequence of bytes whose length is an int. *)
LEMMA DataFacts == ASSUME NEW b \in Data PROVE b \in Seq(Byte) /\ Len(b) \in Nat /\ Len(b) < IntRange
BY LenProperties DEF Data

(* A failure has its error and is not a success. *)
LEMMA FailFacts == \A e \in Errors : fail(e) \in Failed /\ fail(e).err = e /\ e # "none"
BY DEF fail, Failed, Errors

(* What a reader gives is a value and an index in the buffer, or an error;
   never a panic. *)
LEMMA ResultFacts ==
    ASSUME NEW V, NEW l, NEW r \in Results(V, l)
    PROVE  /\ r.err # "panic"
           /\ r.err = "none" => r.v \in V /\ r.i \in 0 .. l /\ r = read(r.v, r.i)
           /\ r.err # "none" => r \in Failed
<1>1. CASE r \in Failed
  BY <1>1 DEF Failed, Errors
<1>2. CASE r \in [err : {"none"}, v : V, i : 0 .. l]
  BY <1>2 DEF read
<1> QED BY <1>1, <1>2 DEF Results

(* A value at an index of the buffer is a result of a reader. *)
LEMMA ReadIsResult == ASSUME NEW V, NEW l, NEW v \in V, NEW i \in 0 .. l PROVE read(v, i) \in Results(V, l)
BY DEF read, Results

(* An error is a result of a reader. *)
LEMMA FailIsResult == ASSUME NEW V, NEW l, NEW e \in Errors PROVE fail(e) \in Results(V, l)
BY FailFacts DEF Results

(* Reading a varint anywhere gives a word or an error. *)
LEMMA ReadVarintTyped ==
    ASSUME NEW b \in Seq(Byte), NEW i \in Nat
    PROVE  readVarint(b, i) \in Results(0 .. Word - 1, Len(b))
<1>0. Word \in Nat /\ Len(b) \in Nat
  BY WordFacts, LenProperties
<1>1. CASE \E n \in Nat, v \in Nat :
              n >= 1 /\ i + n <= Len(b) /\ v < Word /\ readVarint(b, i) = read(v, i + n)
  <2>1. PICK n \in Nat, v \in Nat :
              n >= 1 /\ i + n <= Len(b) /\ v < Word /\ readVarint(b, i) = read(v, i + n)
    BY <1>1
  <2>2. v \in 0 .. Word - 1 /\ i + n \in 0 .. Len(b)
    BY <1>0, <2>1
  <2> QED BY <2>1, <2>2, ReadIsResult
<1>2. CASE readVarint(b, i) = fail("IntOverflow")
  BY <1>2, FailIsResult DEF Errors
<1>3. CASE readVarint(b, i) = fail("UnexpectedEOF")
  BY <1>3, FailIsResult DEF Errors
<1> QED BY <1>1, <1>2, <1>3, ReadVarint

(* The bytes of a part of a buffer. *)
LEMMA SubSeqBytes ==
    ASSUME NEW b \in Seq(Byte), NEW i \in Nat, NEW n \in Nat, i + n <= Len(b)
    PROVE  /\ SubSeq(b, i + 1, i + n) \in Seq(Byte) /\ Len(SubSeq(b, i + 1, i + n)) = n
           /\ \A k \in 1 .. n : SubSeq(b, i + 1, i + n)[k] = b[i + k]
<1>1. i + 1 \in 1 .. Len(b) + 1 /\ i + n \in i + 1 - 1 .. Len(b) /\ Len(b) \in Nat
  BY LenProperties
<1>2. SubSeq(b, i + 1, i + n) = [k \in 1 .. n |-> b[i + k]]
  <2>1. \A k \in i + 1 .. i + n : b[k] \in Byte
    <3>1. \A k \in i + 1 .. i + n : k \in 1 .. Len(b)
      BY <1>1
    <3> QED BY <3>1, ElementOfSeq
  <2>2. i + 1 \in Int /\ i + n \in Int
    OBVIOUS
  <2>3. /\ SubSeq(b, i + 1, i + n) \in Seq(Byte)
        /\ Len(SubSeq(b, i + 1, i + n)) = IF i + 1 <= i + n THEN (i + n) - (i + 1) + 1 ELSE 0
        /\ \A k \in 1 .. (i + n) - (i + 1) + 1 : SubSeq(b, i + 1, i + n)[k] = b[(i + 1) + k - 1]
    BY <2>1, <2>2, SubSeqProperties
  <2>4. (i + n) - (i + 1) + 1 = n /\ (\A k \in 1 .. n : (i + 1) + k - 1 = i + k)
        /\ (i + 1 <= i + n <=> n >= 1)
    OBVIOUS
  <2>5. Len(SubSeq(b, i + 1, i + n)) = n
    BY <2>3, <2>4
  <2>6. \A k \in 1 .. n : SubSeq(b, i + 1, i + n)[k] = b[i + k]
    BY <2>3, <2>4
  <2> QED BY <2>3, <2>5, <2>6
<1>3. \A k \in 1 .. n : b[i + k] \in Byte
  <2>1. \A k \in 1 .. n : i + k \in 1 .. Len(b)
    BY <1>1
  <2> QED BY <2>1, ElementOfSeq
<1> QED BY <1>2, <1>3

(* A slice is as long as its length says, or there is an error. *)
LEMMA SliceOf ==
    ASSUME NEW b \in Data, NEW i \in 0 .. Len(b), NEW v \in 0 .. Word - 1
    PROVE  /\ v < IntRange /\ i + v <= Len(b) =>
                 sliceOf(b, read(v, i)) = read(SubSeq(b, i + 1, i + v), i + v)
           /\ ~ (v < IntRange /\ i + v <= Len(b)) =>
                 sliceOf(b, read(v, i)) \in {fail("InvalidLength"), fail("UnexpectedEOF")}
<1>1. PICK h \in Nat, w \in Nat, l \in Nat :
         h = IntRange /\ w = Word /\ l = Len(b) /\ w = 2 * h /\ l < h /\ i \in Nat /\ i <= l /\ v \in Nat /\ v < w
  <2>1. IntRange \in Nat /\ Word \in Nat /\ Word = 2 * IntRange
    BY WordFacts
  <2>2. Len(b) \in Nat /\ Len(b) < IntRange
    BY DataFacts
  <2>3. i \in Nat /\ i <= Len(b) /\ v \in Nat /\ v < Word
    BY <2>1, <2>2
  <2> QED BY <2>1, <2>2, <2>3
<1>2. PICK len : len = read(v, i)
  OBVIOUS
<1>3. len.err = "none" /\ len.v = v /\ len.i = i
  BY <1>2 DEF read
<1>4. CASE v >= h
  <2>1. int64(v) = v - Word
    BY <1>1, <1>4, SmallIsItself
  <2>a. v - w < 0 /\ v - Word = v - w
    BY <1>1
  <2>2. int64(v) < 0
    BY <2>1, <2>a
  <2> QED BY <1>1, <1>2, <1>3, <1>4, <2>2 DEF sliceOf
<1>5. CASE v < h
  <2>1. int64(v) = v
    BY <1>1, <1>5, SmallIsItself
  <2>2. PICK e \in Nat : e = i + v /\ e < Word /\ e < w
    BY <1>1, <1>5
  <2>3. uint64(e) = e
    BY <2>2, SmallIsItself
  <2>4. endOf(len) = int64(e)
    BY <1>3, <2>1, <2>2, <2>3 DEF endOf
  <2>5. CASE e >= h
    <3>1. int64(e) = e - Word
      BY <1>1, <2>2, <2>5, SmallIsItself
    <3>2. endOf(len) < 0
      BY <1>1, <2>2, <2>4, <3>1
    <3>3. ~ (i + v <= Len(b))
      BY <1>1, <2>2, <2>5
    <3> QED BY <1>2, <1>3, <2>1, <3>2, <3>3 DEF sliceOf
  <2>6. CASE e < h
    <3>1. endOf(len) = e
      BY <1>1, <2>2, <2>4, <2>6, SmallIsItself
    <3>2. ~ (int64(len.v) < 0 \/ endOf(len) < 0)
      BY <1>3, <2>1, <3>1
    <3>3. sliceOf(b, len) = IF e > Len(b) THEN fail("UnexpectedEOF") ELSE slice(b, i, e)
      BY <1>3, <3>1, <3>2 DEF sliceOf
    <3>4. i <= e /\ (e > Len(b) <=> ~ (e <= Len(b)))
      BY <1>1, <2>2
    <3>5. e <= Len(b) => slice(b, i, e) = read(SubSeq(b, i + 1, e), e)
      BY <3>4 DEF slice
    <3> QED BY <1>1, <1>2, <1>5, <2>2, <3>3, <3>4, <3>5
  <2> QED BY <1>1, <2>2, <2>5, <2>6
<1> QED BY <1>1, <1>4, <1>5

(* Reading a delimited field anywhere gives a slice or an error. *)
LEMMA ReadDelimitedTyped ==
    ASSUME NEW b \in Data, NEW i \in Nat
    PROVE  readDelimited(b, i) \in Results(Data, Len(b))
<1>1. b \in Seq(Byte) /\ Len(b) \in Nat /\ Len(b) < IntRange /\ IntRange \in Nat
  BY DataFacts, WordFacts
<1>2. PICK len \in Results(0 .. Word - 1, Len(b)) : len = readVarint(b, i)
  BY <1>1, ReadVarintTyped
<1>3. CASE len.err # "none"
  <2>1. len \in Failed
    BY <1>3, ResultFacts
  <2> QED BY <1>2, <1>3, <2>1 DEF readDelimited, sliceOf, Results
<1>4. CASE len.err = "none"
  <2>a. len.v \in 0 .. Word - 1 /\ len.i \in 0 .. Len(b) /\ len = read(len.v, len.i)
    BY <1>4, ResultFacts
  <2>1. PICK v \in 0 .. Word - 1, j \in 0 .. Len(b) : len = read(v, j)
    BY <2>a
  <2>2. readDelimited(b, i) = sliceOf(b, read(v, j))
    BY <1>2, <2>1 DEF readDelimited
  <2>3. CASE v < IntRange /\ j + v <= Len(b)
    <3>1. v \in Nat /\ j \in Nat
      OBVIOUS
    <3>2. SubSeq(b, j + 1, j + v) \in Seq(Byte) /\ Len(SubSeq(b, j + 1, j + v)) = v
      BY <1>1, <2>3, <3>1, SubSeqBytes
    <3>3. SubSeq(b, j + 1, j + v) \in Data
      BY <2>3, <3>2 DEF Data
    <3>4. j + v \in 0 .. Len(b)
      BY <1>1, <2>3, <3>1
    <3>5. sliceOf(b, read(v, j)) = read(SubSeq(b, j + 1, j + v), j + v)
      BY <2>3, SliceOf
    <3> QED BY <2>2, <3>3, <3>4, <3>5, ReadIsResult
  <2>4. CASE ~ (v < IntRange /\ j + v <= Len(b))
    <3>1. sliceOf(b, read(v, j)) \in {fail("InvalidLength"), fail("UnexpectedEOF")}
      BY <2>4, SliceOf
    <3> QED BY <2>2, <3>1, FailIsResult DEF Errors
  <2> QED BY <2>3, <2>4
<1> QED BY <1>3, <1>4

(* Reading a fixed64 anywhere gives a number or an error. *)
LEMMA ReadFixed64Typed ==
    ASSUME NEW b \in Seq(Byte), NEW i \in Nat
    PROVE  readFixed64(b, i) \in Results(Nat, Len(b))
<1>1. Len(b) \in Nat /\ WordBytes \in Nat
  BY LenProperties, WordBytesNat
<1>2. CASE \E v \in Nat : i + WordBytes <= Len(b) /\ readFixed64(b, i) = read(v, i + WordBytes)
  <2>1. PICK v \in Nat : i + WordBytes <= Len(b) /\ readFixed64(b, i) = read(v, i + WordBytes)
    BY <1>2
  <2>2. i + WordBytes \in 0 .. Len(b)
    BY <1>1, <2>1
  <2> QED BY <2>1, <2>2, ReadIsResult
<1>3. CASE readFixed64(b, i) = fail("UnexpectedEOF")
  BY <1>3, FailIsResult DEF Errors
<1> QED BY <1>2, <1>3, ReadFixed64

-----------------------------------------------------------------------------
(* skip. *)

SkipStates == [err : {"none", "done"}, v : Int, i : Nat] \cup Failed

(* One turn of the loop that skips a field gives a state of that loop. *)
LEMMA SkipTurnTyped ==
    ASSUME NEW b \in Data, NEW s \in SkipStates, s.err = "none", NEW key, key = readVarint(b, s.i)
    PROVE  skipTurn(b, s, key, skipValue(key.i, key.v % 8, readVarint(b, key.i))) \in SkipStates
<1>1. b \in Seq(Byte) /\ Len(b) \in Nat /\ s.v \in Int /\ s.i \in Nat
  BY DataFacts DEF SkipStates, Failed, Errors
<1>2. key \in Results(0 .. Word - 1, Len(b))
  BY <1>1, ReadVarintTyped
<1>3. CASE key.err # "none"
  <2>1. key \in Failed
    BY <1>2, <1>3, ResultFacts
  <2> QED BY <1>3, <2>1 DEF skipTurn, SkipStates
<1>4. CASE key.err = "none"
  <2>1. key.i \in Nat /\ key.v \in Nat
    <3>1. key.v \in 0 .. Word - 1 /\ key.i \in 0 .. Len(b)
      BY <1>2, <1>4, ResultFacts
    <3> QED BY <3>1
  <2>2. PICK len \in Results(0 .. Word - 1, Len(b)) : len = readVarint(b, key.i)
    BY <1>1, <2>1, ReadVarintTyped
  <2>3. PICK w : w = key.v % 8
    OBVIOUS
  <2>4. PICK value : value = skipValue(key.i, w, len)
    OBVIOUS
  <2>5. value \in Failed \/ (value.err = "none" /\ value.i \in Int)
    <3>1. CASE w = 0
      <4>1. value = len
        BY <2>4, <3>1 DEF skipValue
      <4>2. len.err = "none" => len.i \in 0 .. Len(b)
        BY ResultFacts
      <4> QED BY <4>1, <4>2, ResultFacts
    <3>2. CASE w = 1
      <4>1. value = read(Nil, key.i + WordBits \div 8)
        BY <2>4, <3>2 DEF skipValue
      <4>2. key.i + WordBits \div 8 \in Int
        BY <2>1, Widths
      <4> QED BY <4>1, <4>2 DEF read
    <3>3. CASE w = 2
      <4>1. CASE len.err # "none"
        BY <2>4, <3>3, <4>1, ResultFacts DEF skipValue
      <4>2. CASE len.err = "none"
        <5>1. PICK v \in 0 .. Word - 1, j \in 0 .. Len(b) : len.v = v /\ len.i = j
          BY <4>2, ResultFacts
        <5>2. int64(v) \in Int /\ j + int64(v) \in Int
          <6>1. v \in Int /\ j \in Int
            OBVIOUS
          <6>2. int64(v) \in Int64s
            BY <6>1, ConversionTypes
          <6>3. int64(v) \in Int
            BY <6>2, WordFacts DEF Int64s
          <6> QED BY <6>1, <6>3
        <5>3. endOf(len) \in Int
          <6>1. PICK y \in Int : y = j + int64(v)
            BY <5>2
          <6>2. PICK u \in Int : u = uint64(y)
            BY ConversionTypes
          <6>3. int64(u) \in Int64s
            BY ConversionTypes
          <6>4. int64(u) \in Int
            BY <6>3, WordFacts DEF Int64s
          <6> QED BY <5>1, <6>1, <6>2, <6>4 DEF endOf
        <5>4. value = IF int64(v) < 0 THEN fail("InvalidLength") ELSE read(Nil, endOf(len))
          BY <2>4, <3>3, <4>2, <5>1 DEF skipValue
        <5>5. fail("InvalidLength") \in Failed
          BY FailFacts DEF Errors
        <5>6. CASE int64(v) < 0
          BY <5>4, <5>5, <5>6
        <5>7. CASE ~ (int64(v) < 0)
          BY <5>3, <5>4, <5>7 DEF read
        <5> QED BY <5>6, <5>7
      <4> QED BY <4>1, <4>2
    <3>4. CASE w \in {3, 4}
      <4>1. value = read(Nil, key.i)
        <5>1. CASE w = 3
          BY <2>4, <5>1 DEF skipValue
        <5>2. CASE w = 4
          BY <2>4, <5>2 DEF skipValue
        <5> QED BY <3>4, <5>1, <5>2
      <4>2. key.i \in Int
        BY <2>1
      <4> QED BY <4>1, <4>2 DEF read
    <3>5. CASE w = 5
      <4>1. value = read(Nil, key.i + HalfBits \div 8)
        BY <2>4, <3>5 DEF skipValue
      <4>2. key.i + HalfBits \div 8 \in Int
        BY <2>1, Widths
      <4> QED BY <4>1, <4>2 DEF read
    <3>6. CASE w \notin {0, 1, 2, 3, 4, 5}
      <4>1. value = fail("illegal wireType")
        BY <2>4, <3>6 DEF skipValue
      <4> QED BY <4>1, FailFacts DEF Errors
    <3> QED BY <3>1, <3>2, <3>3, <3>4, <3>5, <3>6
  <2>6. depthAfter(s.v, w) \in Int
    BY <1>1 DEF depthAfter
  <2>7. PICK t : t = skipTurn(b, s, key, value)
    OBVIOUS
  <2>8. CASE w = 4 /\ s.v = 0
    <3>1. t = fail("UnexpectedEndOfGroup")
      BY <1>4, <2>3, <2>7, <2>8 DEF skipTurn
    <3> QED BY <2>2, <2>3, <2>4, <2>7, <3>1, FailFacts DEF Errors, SkipStates
  <2>9. CASE ~ (w = 4 /\ s.v = 0) /\ value.err # "none"
    <3>1. t = value
      BY <1>4, <2>3, <2>7, <2>9 DEF skipTurn
    <3> QED BY <2>2, <2>3, <2>4, <2>5, <2>7, <2>9, <3>1 DEF SkipStates
  <2>10. CASE ~ (w = 4 /\ s.v = 0) /\ value.err = "none" /\ value.i < 0
    <3>1. t = fail("InvalidLength")
      BY <1>4, <2>3, <2>7, <2>10 DEF skipTurn
    <3> QED BY <2>2, <2>3, <2>4, <2>7, <3>1, FailFacts DEF Errors, SkipStates
  <2>11. CASE ~ (w = 4 /\ s.v = 0) /\ value.err = "none" /\ ~ (value.i < 0)
    <3>1. value.i \in Nat
      <4>1. value.i \in Int
        BY <2>5, <2>11 DEF Failed, Errors
      <4> QED BY <2>11, <4>1
    <3>2. t = [err |-> IF depthAfter(s.v, w) = 0 THEN "done" ELSE "none", v |-> depthAfter(s.v, w), i |-> value.i]
      BY <1>4, <2>3, <2>7, <2>11 DEF skipTurn
    <3>3. t \in SkipStates
      BY <2>6, <3>1, <3>2 DEF SkipStates
    <3> QED BY <2>2, <2>3, <2>4, <2>7, <3>3
  <2> QED BY <2>8, <2>9, <2>10, <2>11
<1> QED BY <1>3, <1>4

(* What a loop over b ends with, the first turns looked at first. *)
endOfLoop(a, b) == IF stopped(a[fewTurns(b)], b) THEN a[fewTurns(b)] ELSE a[Len(b)]

(* A loop that has stopped early is still there after its last turn. *)
LEMMA StopsForGood ==
    ASSUME NEW b, Len(b) \in Nat, NEW a,
           \A n \in 1 .. Len(b) : stopped(a[n - 1], b) => a[n] = a[n - 1]
    PROVE  endOfLoop(a, b) = a[Len(b)]
<1>1. PICK l \in Nat : l = Len(b)
  OBVIOUS
<1>2. PICK k \in Nat : k = fewTurns(b) /\ k <= l
  BY <1>1 DEF fewTurns
<1>3. CASE ~ stopped(a[k], b)
  BY <1>2, <1>3 DEF endOfLoop
<1>4. CASE stopped(a[k], b)
  <2> DEFINE T == {n \in Nat : k <= n /\ n <= l => a[n] = a[k]}
  <2>1. 0 \in T
    <3>1. k <= 0 => k = 0
      BY <1>2
    <3> QED BY <3>1
  <2>2. ASSUME NEW n \in T PROVE n + 1 \in T
    <3> SUFFICES ASSUME k <= n + 1, n + 1 <= l PROVE a[n + 1] = a[k]
      OBVIOUS
    <3>1. CASE k = n + 1
      BY <3>1
    <3>2. CASE k # n + 1
      <4>1. k <= n /\ n <= l /\ n + 1 \in 1 .. l /\ (n + 1) - 1 = n
        BY <1>1, <1>2, <3>2
      <4>2. a[n] = a[k]
        BY <4>1
      <4>3. stopped(a[(n + 1) - 1], b)
        BY <1>4, <4>1, <4>2
      <4>4. a[n + 1] = a[(n + 1) - 1]
        BY <1>1, <4>1, <4>3
      <4> QED BY <4>1, <4>2, <4>4
    <3> QED BY <3>1, <3>2
  <2>3. T = Nat
    <3>1. T \in SUBSET Nat
      OBVIOUS
    <3> HIDE DEF T
    <3> QED BY <2>1, <2>2, <3>1, Induction
  <2>4. a[l] = a[k]
    BY <1>2, <2>3
  <2> QED BY <1>1, <1>2, <1>4, <2>4 DEF endOfLoop
<1> QED BY <1>3, <1>4

skipStep(b, s) ==
    LET key == readVarint(b, s.i)
    IN  IF s.err # "none" \/ s.i >= Len(b) THEN s
        ELSE skipTurn(b, s, key, skipValue(key.i, key.v % 8, readVarint(b, key.i)))

Skips(a, b) == a = [n \in 0 .. Len(b) |-> IF n = 0 THEN read(0, 0) ELSE skipStep(b, a[n - 1])]

(* The loop that skips a field ends, with an index or an error. *)
LEMMA SkipFromTyped ==
    ASSUME NEW b \in Data
    PROVE  skipFrom(b) \in SkipStates /\ skipFrom(b).err # "none"
<1>1. PICK l \in Nat : l = Len(b)
  BY DataFacts
<1>2. PICK F : F = [n \in 1 .. l |-> [s \in SkipStates |-> skipStep(b, s)]]
  OBVIOUS
<1>3. ASSUME NEW s \in SkipStates PROVE skipStep(b, s) \in SkipStates
  BY SkipTurnTyped DEF skipStep
<1>4. F \in [1 .. l -> [SkipStates -> SkipStates]]
  BY <1>2, <1>3
<1>5. read(0, 0) \in SkipStates
  BY DEF read, SkipStates
<1>6. PICK g \in [0 .. l -> SkipStates] : Iterates(g, read(0, 0), F, l)
  BY <1>4, <1>5, Iteration
<1>7. ASSUME NEW n \in 0 .. l, n # 0 PROVE F[n][g[n - 1]] = skipStep(b, g[n - 1])
  <2>1. n \in 1 .. l /\ n - 1 \in 0 .. l
    BY <1>7
  <2> QED BY <1>2, <2>1
<1>8. Skips(g, b)
  BY <1>1, <1>6, <1>7 DEF Iterates, Skips
<1> DEFINE a == CHOOSE f :
              f = [n \in 0 .. Len(b) |->
                     IF n = 0 THEN read(0, 0)
                     ELSE IF f[n - 1].err # "none" \/ f[n - 1].i >= Len(b) THEN f[n - 1]
                     ELSE skipTurn(b, f[n - 1], readVarint(b, f[n - 1].i),
                             skipValue(readVarint(b, f[n - 1].i).i, readVarint(b, f[n - 1].i).v % 8,
                                       readVarint(b, readVarint(b, f[n - 1].i).i)))]
<1>17. skipFrom(b) = IF endOfLoop(a, b).err = "none" THEN fail("UnexpectedEOF") ELSE endOfLoop(a, b)
  BY DEF skipFrom, stopped, endOfLoop
<1>10. Skips(a, b)
  BY <1>8 DEF Skips, skipStep
<1> HIDE DEF a
<1>18. ASSUME NEW n \in 1 .. Len(b), stopped(a[n - 1], b) PROVE a[n] = a[n - 1]
  <2>1. a[n] = skipStep(b, a[n - 1])
    BY <1>1, <1>10 DEF Skips
  <2> QED BY <1>18, <2>1 DEF skipStep, stopped
<1>19. Len(b) \in Nat
  BY <1>1
<1>9. skipFrom(b) = IF a[Len(b)].err = "none" THEN fail("UnexpectedEOF") ELSE a[Len(b)]
  <2>1. endOfLoop(a, b) = a[Len(b)]
    BY <1>18, <1>19, StopsForGood
  <2> QED BY <1>17, <2>1
<1> DEFINE T == {n \in Nat : n <= l => a[n] \in SkipStates}
<1>11. 0 \in T
  BY <1>1, <1>5, <1>10 DEF Skips
<1>12. ASSUME NEW n \in T PROVE n + 1 \in T
  <2> SUFFICES ASSUME n + 1 <= l PROVE a[n + 1] \in SkipStates
    OBVIOUS
  <2>1. n \in Nat /\ n <= l /\ a[n] \in SkipStates /\ n + 1 \in 0 .. l /\ n + 1 # 0 /\ (n + 1) - 1 = n
    OBVIOUS
  <2>2. a[n + 1] = skipStep(b, a[n])
    BY <1>1, <1>10, <2>1 DEF Skips
  <2> QED BY <1>3, <2>1, <2>2
<1>13. T = Nat
  <2>1. T \in SUBSET Nat
    OBVIOUS
  <2> HIDE DEF T
  <2> QED BY <1>11, <1>12, <2>1, Induction
<1>14. a[l] \in SkipStates
  BY <1>13
<1>15. CASE a[l].err = "none"
  <2>1. skipFrom(b) = fail("UnexpectedEOF")
    BY <1>1, <1>9, <1>15
  <2> QED BY <2>1, FailFacts DEF Errors, SkipStates
<1>16. CASE a[l].err # "none"
  BY <1>1, <1>9, <1>14, <1>16
<1> QED BY <1>15, <1>16

(* Skipping an unknown field gives an index in the buffer or an error. *)
LEMMA SkipTyped ==
    ASSUME NEW V, NEW m \in V, NEW b \in Data, NEW i \in 0 .. Len(b)
    PROVE  skip(m, b, i) \in Results(V, Len(b))
<1>1. b \in Seq(Byte) /\ Len(b) \in Nat /\ Len(b) < IntRange /\ i \in Nat /\ i <= Len(b)
  BY DataFacts
<1>2. PICK rest \in Data : rest = SubSeq(b, i + 1, Len(b))
  <2>1. PICK n \in Nat : n = Len(b) - i /\ i + n = Len(b)
    BY <1>1
  <2>2. SubSeq(b, i + 1, i + n) \in Seq(Byte) /\ Len(SubSeq(b, i + 1, i + n)) = n
    BY <1>1, <2>1, SubSeqBytes
  <2>3. n < IntRange
    BY <1>1, <2>1, WordFacts
  <2> QED BY <2>1, <2>2, <2>3 DEF Data
<1>3. PICK n \in SkipStates : n = skipFrom(rest) /\ n.err # "none"
  BY SkipFromTyped
<1>4. skip(m, b, i) = passOver(m, b, i, n)
  BY <1>2, <1>3 DEF skip
<1>5. CASE n.err # "done"
  <2>1. n \in Failed
    BY <1>3, <1>5 DEF SkipStates
  <2> QED BY <1>4, <1>5, <2>1 DEF passOver, Results
<1>6. CASE n.err = "done"
  <2>1. n.i \in Nat
    BY <1>6 DEF SkipStates, Failed, Errors
  <2>2. CASE int64(uint64(i + n.i)) < 0
    <3>1. skip(m, b, i) = fail("InvalidLength")
      BY <1>4, <1>6, <2>2 DEF passOver
    <3> QED BY <3>1, FailIsResult DEF Errors
  <2>3. CASE ~ (int64(uint64(i + n.i)) < 0) /\ i + n.i > Len(b)
    <3>1. skip(m, b, i) = fail("UnexpectedEOF")
      BY <1>4, <1>6, <2>3 DEF passOver
    <3> QED BY <3>1, FailIsResult DEF Errors
  <2>4. CASE ~ (int64(uint64(i + n.i)) < 0) /\ ~ (i + n.i > Len(b))
    <3>1. skip(m, b, i) = read(m, i + n.i)
      BY <1>4, <1>6, <2>4 DEF passOver
    <3>2. i + n.i \in 0 .. Len(b)
      BY <1>1, <2>1, <2>4
    <3> QED BY <3>1, <3>2, ReadIsResult
  <2> QED BY <2>2, <2>3, <2>4
<1> QED BY <1>5, <1>6

-----------------------------------------------------------------------------
(* A struct is a function on the names of its fields. *)

Fill(f, x) ==
    /\ Holds(f, x)
    /\ f.kind = "case" => x \in Message_ProposalStruct \cup Message_VoteStruct \cup {Nil}

Filled(E, m) == \A k \in DOMAIN E : Fill(E[k], m[E[k].name])

Names(E) == {E[k].name : k \in DOMAIN E}

(* A message is a record with a value for each field that Unmarshal expects. *)
LEMMA StructIs ==
    ASSUME NEW T \in Types \cup {"Message"}, NEW m
    PROVE  m \in Struct[T] <=> m = [x \in Names(Expected[T]) |-> m[x]] /\ Filled(Expected[T], m)
<1>1. CASE T = "DataHash"
  <2>1. Names(UnmarshalDataHash) = {"Hash"}
    BY DEF Names, UnmarshalDataHash, field, Int32, Int64, Fixed64, Bytes, Time, Value,
      Pointer, Each, Case
  <2>2. ASSUME m \in DataHashStruct PROVE m = [x \in {"Hash"} |-> m[x]]
    BY <2>2 DEF DataHashStruct
  <2>3. ASSUME m \in DataHashStruct PROVE Filled(UnmarshalDataHash, m)
    BY <2>3 DEF DataHashStruct, Filled, Fill, Holds, Struct, UnmarshalDataHash, field,
      Int32, Int64, Fixed64, Bytes, Time, Value, Pointer, Each, Case
  <2>4. ASSUME m = [x \in {"Hash"} |-> m[x]], Filled(UnmarshalDataHash, m) PROVE m \in DataHashStruct
    <3>1. m = [Hash |-> m.Hash]
      BY <2>4
    <3>2. /\ Fill(UnmarshalDataHash[1], m.Hash)
      BY <2>4 DEF Filled, UnmarshalDataHash, field, Int32, Int64, Fixed64, Bytes, Time,
        Value, Pointer, Each, Case
    <3> QED BY <3>1, <3>2 DEF DataHashStruct, Fill, Holds, Struct, UnmarshalDataHash,
        field, Int32, Int64, Fixed64, Bytes, Time, Value, Pointer, Each, Case
  <2>5. Expected[T] = UnmarshalDataHash /\ Struct[T] = DataHashStruct
    BY <1>1 DEF Expected, Struct
  <2> QED BY <2>1, <2>2, <2>3, <2>4, <2>5
<1>2. CASE T = "Vote"
  <2>1. Names(UnmarshalVote) = {"Type", "Height", "Round", "DataHash", "Timestamp", "ValidatorAddress", "ValidatorIndex", "Signature"}
    BY DEF Names, UnmarshalVote, field, Int32, Int64, Fixed64, Bytes, Time, Value,
      Pointer, Each, Case
  <2>2. ASSUME m \in VoteStruct PROVE m = [x \in {"Type", "Height", "Round", "DataHash", "Timestamp", "ValidatorAddress", "ValidatorIndex", "Signature"} |-> m[x]]
    BY <2>2 DEF VoteStruct
  <2>3. ASSUME m \in VoteStruct PROVE Filled(UnmarshalVote, m)
    BY <2>3 DEF VoteStruct, Filled, Fill, Holds, Struct, UnmarshalVote, field, Int32,
      Int64, Fixed64, Bytes, Time, Value, Pointer, Each, Case
  <2>4. ASSUME m = [x \in {"Type", "Height", "Round", "DataHash", "Timestamp", "ValidatorAddress", "ValidatorIndex", "Signature"} |-> m[x]], Filled(UnmarshalVote, m) PROVE m \in VoteStruct
    <3>1. m = [Type |-> m.Type, Height |-> m.Height, Round |-> m.Round, DataHash |-> m.DataHash, Timestamp |-> m.Timestamp, ValidatorAddress |-> m.ValidatorAddress, ValidatorIndex |-> m.ValidatorIndex, Signature |-> m.Signature]
      BY <2>4
    <3>2. /\ Fill(UnmarshalVote[1], m.Type)
          /\ Fill(UnmarshalVote[2], m.Height)
          /\ Fill(UnmarshalVote[3], m.Round)
          /\ Fill(UnmarshalVote[4], m.DataHash)
          /\ Fill(UnmarshalVote[5], m.Timestamp)
          /\ Fill(UnmarshalVote[6], m.ValidatorAddress)
          /\ Fill(UnmarshalVote[7], m.ValidatorIndex)
          /\ Fill(UnmarshalVote[8], m.Signature)
      BY <2>4 DEF Filled, UnmarshalVote, field, Int32, Int64, Fixed64, Bytes, Time, Value,
        Pointer, Each, Case
    <3> QED BY <3>1, <3>2 DEF VoteStruct, Fill, Holds, Struct, UnmarshalVote, field,
        Int32, Int64, Fixed64, Bytes, Time, Value, Pointer, Each, Case
  <2>5. Expected[T] = UnmarshalVote /\ Struct[T] = VoteStruct
    BY <1>2 DEF Expected, Struct
  <2> QED BY <2>1, <2>2, <2>3, <2>4, <2>5
<1>3. CASE T = "Commit"
  <2>1. Names(UnmarshalCommit) = {"Height", "Round", "DataHash", "Signatures"}
    BY DEF Names, UnmarshalCommit, field, Int32, Int64, Fixed64, Bytes, Time, Value,
      Pointer, Each, Case
  <2>2. ASSUME m \in CommitStruct PROVE m = [x \in {"Height", "Round", "DataHash", "Signatures"} |-> m[x]]
    BY <2>2 DEF CommitStruct
  <2>3. ASSUME m \in CommitStruct PROVE Filled(UnmarshalCommit, m)
    BY <2>3 DEF CommitStruct, Filled, Fill, Holds, Struct, UnmarshalCommit, field, Int32,
      Int64, Fixed64, Bytes, Time, Value, Pointer, Each, Case
  <2>4. ASSUME m = [x \in {"Height", "Round", "DataHash", "Signatures"} |-> m[x]], Filled(UnmarshalCommit, m) PROVE m \in CommitStruct
    <3>1. m = [Height |-> m.Height, Round |-> m.Round, DataHash |-> m.DataHash, Signatures |-> m.Signatures]
      BY <2>4
    <3>2. /\ Fill(UnmarshalCommit[1], m.Height)
          /\ Fill(UnmarshalCommit[2], m.Round)
          /\ Fill(UnmarshalCommit[3], m.DataHash)
          /\ Fill(UnmarshalCommit[4], m.Signatures)
      BY <2>4 DEF Filled, UnmarshalCommit, field, Int32, Int64, Fixed64, Bytes, Time,
        Value, Pointer, Each, Case
    <3> QED BY <3>1, <3>2 DEF CommitStruct, Fill, Holds, Struct, UnmarshalCommit, field,
        Int32, Int64, Fixed64, Bytes, Time, Value, Pointer, Each, Case
  <2>5. Expected[T] = UnmarshalCommit /\ Struct[T] = CommitStruct
    BY <1>3 DEF Expected, Struct
  <2> QED BY <2>1, <2>2, <2>3, <2>4, <2>5
<1>4. CASE T = "CommitSig"
  <2>1. Names(UnmarshalCommitSig) = {"DataHashFlag", "ValidatorAddress", "Timestamp", "Signature"}
    BY DEF Names, UnmarshalCommitSig, field, Int32, Int64, Fixed64, Bytes, Time, Value,
      Pointer, Each, Case
  <2>2. ASSUME m \in CommitSigStruct PROVE m = [x \in {"DataHashFlag", "ValidatorAddress", "Timestamp", "Signature"} |-> m[x]]
    BY <2>2 DEF CommitSigStruct
  <2>3. ASSUME m \in CommitSigStruct PROVE Filled(UnmarshalCommitSig, m)
    BY <2>3 DEF CommitSigStruct, Filled, Fill, Holds, Struct, UnmarshalCommitSig, field,
      Int32, Int64, Fixed64, Bytes, Time, Value, Pointer, Each, Case
  <2>4. ASSUME m = [x \in {"DataHashFlag", "ValidatorAddress", "Timestamp", "Signature"} |-> m[x]], Filled(UnmarshalCommitSig, m) PROVE m \in CommitSigStruct
    <3>1. m = [DataHashFlag |-> m.DataHashFlag, ValidatorAddress |-> m.ValidatorAddress, Timestamp |-> m.Timestamp, Signature |-> m.Signature]
      BY <2>4
    <3>2. /\ Fill(UnmarshalCommitSig[1], m.DataHashFlag)
          /\ Fill(UnmarshalCommitSig[2], m.ValidatorAddress)
          /\ Fill(UnmarshalCommitSig[3], m.Timestamp)
          /\ Fill(UnmarshalCommitSig[4], m.Signature)
      BY <2>4 DEF Filled, UnmarshalCommitSig, field, Int32, Int64, Fixed64, Bytes, Time,
        Value, Pointer, Each, Case
    <3> QED BY <3>1, <3>2 DEF CommitSigStruct, Fill, Holds, Struct, UnmarshalCommitSig,
        field, Int32, Int64, Fixed64, Bytes, Time, Value, Pointer, Each, Case
  <2>5. Expected[T] = UnmarshalCommitSig /\ Struct[T] = CommitSigStruct
    BY <1>4 DEF Expected, Struct
  <2> QED BY <2>1, <2>2, <2>3, <2>4, <2>5
<1>5. CASE T = "Proposal"
  <2>1. Names(UnmarshalProposal) = {"Type", "Round", "PolRound", "Data", "Timestamp", "Signature"}
    BY DEF Names, UnmarshalProposal, field, Int32, Int64, Fixed64, Bytes, Time, Value,
      Pointer, Each, Case
  <2>2. ASSUME m \in ProposalStruct PROVE m = [x \in {"Type", "Round", "PolRound", "Data", "Timestamp", "Signature"} |-> m[x]]
    BY <2>2 DEF ProposalStruct
  <2>3. ASSUME m \in ProposalStruct PROVE Filled(UnmarshalProposal, m)
    BY <2>3 DEF ProposalStruct, Filled, Fill, Holds, Struct, UnmarshalProposal, field,
      Int32, Int64, Fixed64, Bytes, Time, Value, Pointer, Each, Case
  <2>4. ASSUME m = [x \in {"Type", "Round", "PolRound", "Data", "Timestamp", "Signature"} |-> m[x]], Filled(UnmarshalProposal, m) PROVE m \in ProposalStruct
    <3>1. m = [Type |-> m.Type, Round |-> m.Round, PolRound |-> m.PolRound, Data |-> m.Data, Timestamp |-> m.Timestamp, Signature |-> m.Signature]
      BY <2>4
    <3>2. /\ Fill(UnmarshalProposal[1], m.Type)
          /\ Fill(UnmarshalProposal[2], m.Round)
          /\ Fill(UnmarshalProposal[3], m.PolRound)
          /\ Fill(UnmarshalProposal[4], m.Data)
          /\ Fill(UnmarshalProposal[5], m.Timestamp)
          /\ Fill(UnmarshalProposal[6], m.Signature)
      BY <2>4 DEF Filled, UnmarshalProposal, field, Int32, Int64, Fixed64, Bytes, Time,
        Value, Pointer, Each, Case
    <3> QED BY <3>1, <3>2 DEF ProposalStruct, Fill, Holds, Struct, UnmarshalProposal,
        field, Int32, Int64, Fixed64, Bytes, Time, Value, Pointer, Each, Case
  <2>5. Expected[T] = UnmarshalProposal /\ Struct[T] = ProposalStruct
    BY <1>5 DEF Expected, Struct
  <2> QED BY <2>1, <2>2, <2>3, <2>4, <2>5
<1>6. CASE T = "Message"
  <2>1. Names(UnmarshalMessage) = {"Sum"}
    BY DEF Names, UnmarshalMessage, field, Int32, Int64, Fixed64, Bytes, Time, Value,
      Pointer, Each, Case
  <2>2. ASSUME m \in MessageStruct PROVE m = [x \in {"Sum"} |-> m[x]]
    BY <2>2 DEF MessageStruct
  <2>3. ASSUME m \in MessageStruct PROVE Filled(UnmarshalMessage, m)
    BY <2>3 DEF MessageStruct, Filled, Fill, Holds, Struct, UnmarshalMessage, field,
      Int32, Int64, Fixed64, Bytes, Time, Value, Pointer, Each, Case
  <2>4. ASSUME m = [x \in {"Sum"} |-> m[x]], Filled(UnmarshalMessage, m) PROVE m \in MessageStruct
    <3>1. m = [Sum |-> m.Sum]
      BY <2>4
    <3>2. /\ Fill(UnmarshalMessage[1], m.Sum)
      BY <2>4 DEF Filled, UnmarshalMessage, field, Int32, Int64, Fixed64, Bytes, Time,
        Value, Pointer, Each, Case
    <3> QED BY <3>1, <3>2 DEF MessageStruct, Fill, Holds, Struct, UnmarshalMessage, field,
        Int32, Int64, Fixed64, Bytes, Time, Value, Pointer, Each, Case
  <2>5. Expected[T] = UnmarshalMessage /\ Struct[T] = MessageStruct
    BY <1>6 DEF Expected, Struct
  <2> QED BY <2>1, <2>2, <2>3, <2>4, <2>5
<1>7. CASE T = "CanonicalDataHash"
  <2>1. Names(UnmarshalCanonicalDataHash) = {"Hash"}
    BY DEF Names, UnmarshalCanonicalDataHash, field, Int32, Int64, Fixed64, Bytes, Time,
      Value, Pointer, Each, Case
  <2>2. ASSUME m \in CanonicalDataHashStruct PROVE m = [x \in {"Hash"} |-> m[x]]
    BY <2>2 DEF CanonicalDataHashStruct
  <2>3. ASSUME m \in CanonicalDataHashStruct PROVE Filled(UnmarshalCanonicalDataHash, m)
    BY <2>3 DEF CanonicalDataHashStruct, Filled, Fill, Holds, Struct,
      UnmarshalCanonicalDataHash, field, Int32, Int64, Fixed64, Bytes, Time, Value, Pointer,
      Each, Case
  <2>4. ASSUME m = [x \in {"Hash"} |-> m[x]], Filled(UnmarshalCanonicalDataHash, m) PROVE m \in CanonicalDataHashStruct
    <3>1. m = [Hash |-> m.Hash]
      BY <2>4
    <3>2. /\ Fill(UnmarshalCanonicalDataHash[1], m.Hash)
      BY <2>4 DEF Filled, UnmarshalCanonicalDataHash, field, Int32, Int64, Fixed64, Bytes,
        Time, Value, Pointer, Each, Case
    <3> QED BY <3>1, <3>2 DEF CanonicalDataHashStruct, Fill, Holds, Struct,
        UnmarshalCanonicalDataHash, field, Int32, Int64, Fixed64, Bytes, Time, Value, Pointer,
        Each, Case
  <2>5. Expected[T] = UnmarshalCanonicalDataHash /\ Struct[T] = CanonicalDataHashStruct
    BY <1>7 DEF Expected, Struct
  <2> QED BY <2>1, <2>2, <2>3, <2>4, <2>5
<1>8. CASE T = "CanonicalProposal"
  <2>1. Names(UnmarshalCanonicalProposal) = {"Type", "Height", "Round", "POLRound", "DataHash", "Timestamp", "ChainID"}
    BY DEF Names, UnmarshalCanonicalProposal, field, Int32, Int64, Fixed64, Bytes, Time,
      Value, Pointer, Each, Case
  <2>2. ASSUME m \in CanonicalProposalStruct PROVE m = [x \in {"Type", "Height", "Round", "POLRound", "DataHash", "Timestamp", "ChainID"} |-> m[x]]
    BY <2>2 DEF CanonicalProposalStruct
  <2>3. ASSUME m \in CanonicalProposalStruct PROVE Filled(UnmarshalCanonicalProposal, m)
    BY <2>3 DEF CanonicalProposalStruct, Filled, Fill, Holds, Struct,
      UnmarshalCanonicalProposal, field, Int32, Int64, Fixed64, Bytes, Time, Value, Pointer,
      Each, Case
  <2>4. ASSUME m = [x \in {"Type", "Height", "Round", "POLRound", "DataHash", "Timestamp", "ChainID"} |-> m[x]], Filled(UnmarshalCanonicalProposal, m) PROVE m \in CanonicalProposalStruct
    <3>1. m = [Type |-> m.Type, Height |-> m.Height, Round |-> m.Round, POLRound |-> m.POLRound, DataHash |-> m.DataHash, Timestamp |-> m.Timestamp, ChainID |-> m.ChainID]
      BY <2>4
    <3>2. /\ Fill(UnmarshalCanonicalProposal[1], m.Type)
          /\ Fill(UnmarshalCanonicalProposal[2], m.Height)
          /\ Fill(UnmarshalCanonicalProposal[3], m.Round)
          /\ Fill(UnmarshalCanonicalProposal[4], m.POLRound)
          /\ Fill(UnmarshalCanonicalProposal[5], m.DataHash)
          /\ Fill(UnmarshalCanonicalProposal[6], m.Timestamp)
          /\ Fill(UnmarshalCanonicalProposal[7], m.ChainID)
      BY <2>4 DEF Filled, UnmarshalCanonicalProposal, field, Int32, Int64, Fixed64, Bytes,
        Time, Value, Pointer, Each, Case
    <3> QED BY <3>1, <3>2 DEF CanonicalProposalStruct, Fill, Holds, Struct,
        UnmarshalCanonicalProposal, field, Int32, Int64, Fixed64, Bytes, Time, Value, Pointer,
        Each, Case
  <2>5. Expected[T] = UnmarshalCanonicalProposal /\ Struct[T] = CanonicalProposalStruct
    BY <1>8 DEF Expected, Struct
  <2> QED BY <2>1, <2>2, <2>3, <2>4, <2>5
<1>9. CASE T = "CanonicalVote"
  <2>1. Names(UnmarshalCanonicalVote) = {"Type", "Height", "Round", "DataHash", "Timestamp", "ChainID"}
    BY DEF Names, UnmarshalCanonicalVote, field, Int32, Int64, Fixed64, Bytes, Time,
      Value, Pointer, Each, Case
  <2>2. ASSUME m \in CanonicalVoteStruct PROVE m = [x \in {"Type", "Height", "Round", "DataHash", "Timestamp", "ChainID"} |-> m[x]]
    BY <2>2 DEF CanonicalVoteStruct
  <2>3. ASSUME m \in CanonicalVoteStruct PROVE Filled(UnmarshalCanonicalVote, m)
    BY <2>3 DEF CanonicalVoteStruct, Filled, Fill, Holds, Struct, UnmarshalCanonicalVote,
      field, Int32, Int64, Fixed64, Bytes, Time, Value, Pointer, Each, Case
  <2>4. ASSUME m = [x \in {"Type", "Height", "Round", "DataHash", "Timestamp", "ChainID"} |-> m[x]], Filled(UnmarshalCanonicalVote, m) PROVE m \in CanonicalVoteStruct
    <3>1. m = [Type |-> m.Type, Height |-> m.Height, Round |-> m.Round, DataHash |-> m.DataHash, Timestamp |-> m.Timestamp, ChainID |-> m.ChainID]
      BY <2>4
    <3>2. /\ Fill(UnmarshalCanonicalVote[1], m.Type)
          /\ Fill(UnmarshalCanonicalVote[2], m.Height)
          /\ Fill(UnmarshalCanonicalVote[3], m.Round)
          /\ Fill(UnmarshalCanonicalVote[4], m.DataHash)
          /\ Fill(UnmarshalCanonicalVote[5], m.Timestamp)
          /\ Fill(UnmarshalCanonicalVote[6], m.ChainID)
      BY <2>4 DEF Filled, UnmarshalCanonicalVote, field, Int32, Int64, Fixed64, Bytes,
        Time, Value, Pointer, Each, Case
    <3> QED BY <3>1, <3>2 DEF CanonicalVoteStruct, Fill, Holds, Struct,
        UnmarshalCanonicalVote, field, Int32, Int64, Fixed64, Bytes, Time, Value, Pointer,
        Each, Case
  <2>5. Expected[T] = UnmarshalCanonicalVote /\ Struct[T] = CanonicalVoteStruct
    BY <1>9 DEF Expected, Struct
  <2> QED BY <2>1, <2>2, <2>3, <2>4, <2>5
<1>10. CASE T = "ValidatorSet"
  <2>1. Names(UnmarshalValidatorSet) = {"Validators", "Proposer", "TotalVotingPower"}
    BY DEF Names, UnmarshalValidatorSet, field, Int32, Int64, Fixed64, Bytes, Time, Value,
      Pointer, Each, Case
  <2>2. ASSUME m \in ValidatorSetStruct PROVE m = [x \in {"Validators", "Proposer", "TotalVotingPower"} |-> m[x]]
    BY <2>2 DEF ValidatorSetStruct
  <2>3. ASSUME m \in ValidatorSetStruct PROVE Filled(UnmarshalValidatorSet, m)
    BY <2>3 DEF ValidatorSetStruct, Filled, Fill, Holds, Struct, UnmarshalValidatorSet,
      field, Int32, Int64, Fixed64, Bytes, Time, Value, Pointer, Each, Case
  <2>4. ASSUME m = [x \in {"Validators", "Proposer", "TotalVotingPower"} |-> m[x]], Filled(UnmarshalValidatorSet, m) PROVE m \in ValidatorSetStruct
    <3>1. m = [Validators |-> m.Validators, Proposer |-> m.Proposer, TotalVotingPower |-> m.TotalVotingPower]
      BY <2>4
    <3>2. /\ Fill(UnmarshalValidatorSet[1], m.Validators)
          /\ Fill(UnmarshalValidatorSet[2], m.Proposer)
          /\ Fill(UnmarshalValidatorSet[3], m.TotalVotingPower)
      BY <2>4 DEF Filled, UnmarshalValidatorSet, field, Int32, Int64, Fixed64, Bytes,
        Time, Value, Pointer, Each, Case
    <3> QED BY <3>1, <3>2 DEF ValidatorSetStruct, Fill, Holds, Struct,
        UnmarshalValidatorSet, field, Int32, Int64, Fixed64, Bytes, Time, Value, Pointer,
        Each, Case
  <2>5. Expected[T] = UnmarshalValidatorSet /\ Struct[T] = ValidatorSetStruct
    BY <1>10 DEF Expected, Struct
  <2> QED BY <2>1, <2>2, <2>3, <2>4, <2>5
<1>11. CASE T = "Validator"
  <2>1. Names(UnmarshalValidator) = {"Address", "PubKey", "VotingPower", "ProposerPriority"}
    BY DEF Names, UnmarshalValidator, field, Int32, Int64, Fixed64, Bytes, Time, Value,
      Pointer, Each, Case
  <2>2. ASSUME m \in ValidatorStruct PROVE m = [x \in {"Address", "PubKey", "VotingPower", "ProposerPriority"} |-> m[x]]
    BY <2>2 DEF ValidatorStruct
  <2>3. ASSUME m \in ValidatorStruct PROVE Filled(UnmarshalValidator, m)
    BY <2>3 DEF ValidatorStruct, Filled, Fill, Holds, Struct, UnmarshalValidator, field,
      Int32, Int64, Fixed64, Bytes, Time, Value, Pointer, Each, Case
  <2>4. ASSUME m = [x \in {"Address", "PubKey", "VotingPower", "ProposerPriority"} |-> m[x]], Filled(UnmarshalValidator, m) PROVE m \in ValidatorStruct
    <3>1. m = [Address |-> m.Address, PubKey |-> m.PubKey, VotingPower |-> m.VotingPower, ProposerPriority |-> m.ProposerPriority]
      BY <2>4
    <3>2. /\ Fill(UnmarshalValidator[1], m.Address)
          /\ Fill(UnmarshalValidator[2], m.PubKey)
          /\ Fill(UnmarshalValidator[3], m.VotingPower)
          /\ Fill(UnmarshalValidator[4], m.ProposerPriority)
      BY <2>4 DEF Filled, UnmarshalValidator, field, Int32, Int64, Fixed64, Bytes, Time,
        Value, Pointer, Each, Case
    <3> QED BY <3>1, <3>2 DEF ValidatorStruct, Fill, Holds, Struct, UnmarshalValidator,
        field, Int32, Int64, Fixed64, Bytes, Time, Value, Pointer, Each, Case
  <2>5. Expected[T] = UnmarshalValidator /\ Struct[T] = ValidatorStruct
    BY <1>11 DEF Expected, Struct
  <2> QED BY <2>1, <2>2, <2>3, <2>4, <2>5
<1>12. CASE T = "SimpleValidator"
  <2>1. Names(UnmarshalSimpleValidator) = {"PubKey", "VotingPower"}
    BY DEF Names, UnmarshalSimpleValidator, field, Int32, Int64, Fixed64, Bytes, Time,
      Value, Pointer, Each, Case
  <2>2. ASSUME m \in SimpleValidatorStruct PROVE m = [x \in {"PubKey", "VotingPower"} |-> m[x]]
    BY <2>2 DEF SimpleValidatorStruct
  <2>3. ASSUME m \in SimpleValidatorStruct PROVE Filled(UnmarshalSimpleValidator, m)
    BY <2>3 DEF SimpleValidatorStruct, Filled, Fill, Holds, Struct,
      UnmarshalSimpleValidator, field, Int32, Int64, Fixed64, Bytes, Time, Value, Pointer,
      Each, Case
  <2>4. ASSUME m = [x \in {"PubKey", "VotingPower"} |-> m[x]], Filled(UnmarshalSimpleValidator, m) PROVE m \in SimpleValidatorStruct
    <3>1. m = [PubKey |-> m.PubKey, VotingPower |-> m.VotingPower]
      BY <2>4
    <3>2. /\ Fill(UnmarshalSimpleValidator[1], m.PubKey)
          /\ Fill(UnmarshalSimpleValidator[2], m.VotingPower)
      BY <2>4 DEF Filled, UnmarshalSimpleValidator, field, Int32, Int64, Fixed64, Bytes,
        Time, Value, Pointer, Each, Case
    <3> QED BY <3>1, <3>2 DEF SimpleValidatorStruct, Fill, Holds, Struct,
        UnmarshalSimpleValidator, field, Int32, Int64, Fixed64, Bytes, Time, Value, Pointer,
        Each, Case
  <2>5. Expected[T] = UnmarshalSimpleValidator /\ Struct[T] = SimpleValidatorStruct
    BY <1>12 DEF Expected, Struct
  <2> QED BY <2>1, <2>2, <2>3, <2>4, <2>5
<1>13. CASE T = "PublicKey"
  <2>1. Names(UnmarshalPublicKey) = {"Ed25519"}
    BY DEF Names, UnmarshalPublicKey, field, Int32, Int64, Fixed64, Bytes, Time, Value,
      Pointer, Each, Case
  <2>2. ASSUME m \in PublicKeyStruct PROVE m = [x \in {"Ed25519"} |-> m[x]]
    BY <2>2 DEF PublicKeyStruct
  <2>3. ASSUME m \in PublicKeyStruct PROVE Filled(UnmarshalPublicKey, m)
    BY <2>3 DEF PublicKeyStruct, Filled, Fill, Holds, Struct, UnmarshalPublicKey, field,
      Int32, Int64, Fixed64, Bytes, Time, Value, Pointer, Each, Case
  <2>4. ASSUME m = [x \in {"Ed25519"} |-> m[x]], Filled(UnmarshalPublicKey, m) PROVE m \in PublicKeyStruct
    <3>1. m = [Ed25519 |-> m.Ed25519]
      BY <2>4
    <3>2. /\ Fill(UnmarshalPublicKey[1], m.Ed25519)
      BY <2>4 DEF Filled, UnmarshalPublicKey, field, Int32, Int64, Fixed64, Bytes, Time,
        Value, Pointer, Each, Case
    <3> QED BY <3>1, <3>2 DEF PublicKeyStruct, Fill, Holds, Struct, UnmarshalPublicKey,
        field, Int32, Int64, Fixed64, Bytes, Time, Value, Pointer, Each, Case
  <2>5. Expected[T] = UnmarshalPublicKey /\ Struct[T] = PublicKeyStruct
    BY <1>13 DEF Expected, Struct
  <2> QED BY <2>1, <2>2, <2>3, <2>4, <2>5
<1>14. CASE T = "Timestamp"
  <2>1. Names(UnmarshalTimestamp) = {"Seconds", "Nanos"}
    BY DEF Names, UnmarshalTimestamp, field, Int32, Int64, Fixed64, Bytes, Time, Value,
      Pointer, Each, Case
  <2>2. ASSUME m \in TimestampStruct PROVE m = [x \in {"Seconds", "Nanos"} |-> m[x]]
    BY <2>2 DEF TimestampStruct
  <2>3. ASSUME m \in TimestampStruct PROVE Filled(UnmarshalTimestamp, m)
    BY <2>3 DEF TimestampStruct, Filled, Fill, Holds, Struct, UnmarshalTimestamp, field,
      Int32, Int64, Fixed64, Bytes, Time, Value, Pointer, Each, Case
  <2>4. ASSUME m = [x \in {"Seconds", "Nanos"} |-> m[x]], Filled(UnmarshalTimestamp, m) PROVE m \in TimestampStruct
    <3>1. m = [Seconds |-> m.Seconds, Nanos |-> m.Nanos]
      BY <2>4
    <3>2. /\ Fill(UnmarshalTimestamp[1], m.Seconds)
          /\ Fill(UnmarshalTimestamp[2], m.Nanos)
      BY <2>4 DEF Filled, UnmarshalTimestamp, field, Int32, Int64, Fixed64, Bytes, Time,
        Value, Pointer, Each, Case
    <3> QED BY <3>1, <3>2 DEF TimestampStruct, Fill, Holds, Struct, UnmarshalTimestamp,
        field, Int32, Int64, Fixed64, Bytes, Time, Value, Pointer, Each, Case
  <2>5. Expected[T] = UnmarshalTimestamp /\ Struct[T] = TimestampStruct
    BY <1>14 DEF Expected, Struct
  <2> QED BY <2>1, <2>2, <2>3, <2>4, <2>5
<1> QED BY <1>1, <1>2, <1>3, <1>4, <1>5, <1>6, <1>7, <1>8, <1>9, <1>10, <1>11, <1>12,
    <1>13, <1>14 DEF Types, Types0, Types1, Types2

-----------------------------------------------------------------------------
(* The fields that Unmarshal expects. *)

Readable == Types \cup {"Message"}

Expecting(T, k) ==
    /\ Expected[T][k].key = k /\ k \in 1 .. 8 /\ k \in 1 .. Len(Expected[T])
    /\ Expected[T][k].kind \in Kinds \cup {"case"}
    /\ Expected[T][k].kind \notin Numbers \cup {"bytes"} => Expected[T][k].of \in Below(T)
    /\ Expected[T][k].kind = "stdtime" => Expected[T][k].of = "Timestamp"
    /\ Expected[T][k].kind = "message" => Expected[T][k].of \in Types0
    /\ Expected[T][k].kind = "case" => T = "Message" /\ Expected[T][k].of \in {"Proposal", "Vote"}
    /\ \A j \in DOMAIN Expected[T] :
          Expected[T][j].name = Expected[T][k].name =>
             j = k \/ (Expected[T][j].kind = "case" /\ Expected[T][k].kind = "case")

(* A message has between one and eight fields. *)
LEMMA Lengths ==
    ASSUME NEW T \in Readable
    PROVE  Len(Expected[T]) \in 1 .. 8 /\ DOMAIN Expected[T] = 1 .. Len(Expected[T])
<1>1. CASE T \in {"DataHash", "CanonicalDataHash", "PublicKey", "Timestamp", "Message", "SimpleValidator"}
  BY <1>1 DEF Expected, UnmarshalDataHash, UnmarshalCanonicalDataHash, UnmarshalPublicKey,
        UnmarshalTimestamp, UnmarshalMessage, UnmarshalSimpleValidator
<1>2. CASE T \in {"Vote", "Commit", "CommitSig", "Proposal"}
  BY <1>2 DEF Expected, UnmarshalVote, UnmarshalCommit, UnmarshalCommitSig,
    UnmarshalProposal
<1>3. CASE T \in {"CanonicalProposal", "CanonicalVote", "ValidatorSet", "Validator"}
  BY <1>3 DEF Expected, UnmarshalCanonicalProposal, UnmarshalCanonicalVote,
    UnmarshalValidatorSet,
        UnmarshalValidator
<1> QED BY <1>1, <1>2, <1>3 DEF Readable, Types, Types0, Types1, Types2

(* The facts about a field of Unmarshal. *)
LEMMA ExpectedFields ==
    ASSUME NEW T \in Readable, NEW k \in DOMAIN Expected[T]
    PROVE  Expecting(T, k)
<1>1. k \in 1 .. 8 /\ k \in 1 .. Len(Expected[T])
  BY Lengths
<1>2. Nests(Expected[T], Below(T))
  BY Nesting DEF Readable
<1>3. /\ Expected[T][k].kind \notin Numbers \cup {"bytes"} => Expected[T][k].of \in Below(T)
      /\ Expected[T][k].kind = "stdtime" => Expected[T][k].of = "Timestamp"
      /\ Expected[T][k].kind = "message" => Expected[T][k].of \in Types0
  BY <1>2 DEF Nests
<1>4. CASE T \in Types
  <2>1. PICK n \in Nat : n = Len(Written[T])
    BY <1>4, Tables DEF Agree
  <2>2. Matches(Expected[T], Written[T])
    BY <1>4, Keys
  <2>3. /\ k \in 1 .. n /\ DOMAIN Expected[T] = 1 .. n
        /\ Alike(Expected[T][k], Written[T][n + 1 - k]) /\ Expected[T][k].key = k
        /\ \A j \in 1 .. n : Expected[T][j].name = Expected[T][k].name => j = k
    BY <2>1, <2>2 DEF Matches
  <2>4. n + 1 - k \in 1 .. n
    BY <2>1, <2>3
  <2>5. Written[T][n + 1 - k].kind \in Kinds
    BY <1>4, <2>1, <2>4, Tables DEF Agree
  <2>6. Expected[T][k].kind \in Kinds
    BY <2>3, <2>5 DEF Alike
  <2> QED BY <1>1, <1>3, <2>3, <2>6 DEF Expecting, Kinds, Numbers, Messages1
<1>5. CASE T = "Message"
  <2>1. /\ Expected[T][k].key = k /\ Expected[T][k].kind = "case"
        /\ Expected[T][k].of \in {"Proposal", "Vote"}
        /\ \A j \in DOMAIN Expected[T] : Expected[T][j].kind = "case"
    BY <1>5 DEF Expected, UnmarshalMessage, Case, field
  <2> QED BY <1>1, <1>3, <1>5, <2>1 DEF Expecting
<1> QED BY <1>4, <1>5 DEF Readable

(* The switch of Unmarshal knows the numbers of its fields. *)
LEMMA KnownFields ==
    ASSUME NEW T \in Readable, NEW num \in Int
    PROVE  /\ known(T, num) <=> num \in DOMAIN Expected[T]
           /\ num \in DOMAIN Expected[T] => fieldOf(T, num) = Expected[T][num]
<1>1. \A k \in DOMAIN Expected[T] : Expected[T][k].key = k
  BY ExpectedFields DEF Expecting
<1>2. known(T, num) <=> num \in DOMAIN Expected[T]
  BY <1>1 DEF known
<1>3. ASSUME num \in DOMAIN Expected[T] PROVE fieldOf(T, num) = Expected[T][num]
  <2>1. ToSet(Expected[T]) = {Expected[T][k] : k \in DOMAIN Expected[T]}
    BY DEF ToSet
  <2>2. \E f \in ToSet(Expected[T]) : f.key = num
    BY <1>1, <1>3, <2>1
  <2>3. fieldOf(T, num) \in ToSet(Expected[T]) /\ fieldOf(T, num).key = num
    BY <2>2 DEF fieldOf
  <2>4. PICK k \in DOMAIN Expected[T] : fieldOf(T, num) = Expected[T][k]
    BY <2>1, <2>3
  <2> QED BY <1>1, <2>3, <2>4
<1> QED BY <1>2, <1>3

(* Fields of one name, the cases of a Message, take the same values. *)
LEMMA SameFill ==
    ASSUME NEW T \in Readable, NEW j \in DOMAIN Expected[T], NEW k \in DOMAIN Expected[T],
           Expected[T][j].name = Expected[T][k].name, NEW x, Fill(Expected[T][k], x)
    PROVE  Fill(Expected[T][j], x)
<1>1. j = k \/ (Expected[T][j].kind = "case" /\ Expected[T][k].kind = "case")
  BY ExpectedFields DEF Expecting
<1>2. CASE Expected[T][j].kind = "case" /\ Expected[T][k].kind = "case"
  BY <1>2 DEF Fill, Holds
<1> QED BY <1>1, <1>2

(* A message with one field set is a message. *)
LEMMA Updated ==
    ASSUME NEW T \in Readable, NEW m \in Struct[T], NEW k \in DOMAIN Expected[T],
           NEW x, Fill(Expected[T][k], x)
    PROVE  [m EXCEPT ![Expected[T][k].name] = x] \in Struct[T]
<1>1. PICK E : E = Expected[T]
  OBVIOUS
<1>2. m = [y \in Names(E) |-> m[y]] /\ Filled(E, m)
  BY <1>1, StructIs DEF Readable
<1>3. PICK n : n = [m EXCEPT ![E[k].name] = x]
  OBVIOUS
<1>4. \A y \in Names(E) : n[y] = IF y = E[k].name THEN x ELSE m[y]
  BY <1>2, <1>3
<1>5. n = [y \in Names(E) |-> n[y]]
  BY <1>2, <1>3
<1>6. ASSUME NEW j \in DOMAIN E PROVE Fill(E[j], n[E[j].name])
  <2>1. E[j].name \in Names(E)
    BY DEF Names
  <2>2. CASE E[j].name = E[k].name
    <3>1. n[E[j].name] = x
      BY <1>4, <2>1, <2>2
    <3> QED BY <1>1, <2>2, <3>1, SameFill
  <2>3. CASE E[j].name # E[k].name
    <3>1. n[E[j].name] = m[E[j].name]
      BY <1>4, <2>1, <2>3
    <3> QED BY <1>2, <3>1 DEF Filled
  <2> QED BY <2>2, <2>3
<1>7. Filled(E, n)
  BY <1>6 DEF Filled
<1> QED BY <1>1, <1>3, <1>5, <1>7, StructIs DEF Readable

-----------------------------------------------------------------------------
(* A new message. *)

zeroOf(f) ==
    IF WireType(f) < 2 THEN 0
    ELSE IF f.kind \in {"bytes", "repeated"} THEN <<>>
    ELSE IF f.kind = "stdtime" THEN ZeroTime
    ELSE IF f.kind = "message" THEN New0(f.of) ELSE Nil

(* The wire type of each kind of field. *)
LEMMA WireTypes ==
    ASSUME NEW f
    PROVE  /\ f.kind \in {"int32", "int64"} => WireType(f) = 0
           /\ f.kind = "sfixed64" => WireType(f) = 1
           /\ f.kind \notin Numbers => WireType(f) = 2
           /\ WireType(f) \in 0 .. 2
BY DEF WireType, Numbers

(* m is made of the zeros of its fields. *)
Zeros(m, T) ==
    /\ m = [x \in Names(Expected[T]) |-> m[x]]
    /\ \A k \in DOMAIN Expected[T] : m[Expected[T][k].name] = zeroOf(Expected[T][k])

(* Fields of one name have one zero. *)
LEMMA SameZeros ==
    ASSUME NEW T \in Readable, NEW j \in DOMAIN Expected[T], NEW k \in DOMAIN Expected[T],
           Expected[T][j].name = Expected[T][k].name
    PROVE  zeroOf(Expected[T][j]) = zeroOf(Expected[T][k])
<1>1. j = k \/ (Expected[T][j].kind = "case" /\ Expected[T][k].kind = "case")
  BY ExpectedFields DEF Expecting
<1>2. CASE Expected[T][j].kind = "case" /\ Expected[T][k].kind = "case"
  BY <1>2 DEF zeroOf, WireType
<1> QED BY <1>1, <1>2

(* The field chosen by a name is one of Unmarshal's. *)
LEMMA ChosenField ==
    ASSUME NEW T \in Readable, NEW k \in DOMAIN Expected[T],
           NEW c, c = CHOOSE f \in ToSet(Expected[T]) : f.name = Expected[T][k].name
    PROVE  \E j \in DOMAIN Expected[T] : c = Expected[T][j] /\ Expected[T][j].name = Expected[T][k].name
<1>1. ToSet(Expected[T]) = {Expected[T][j] : j \in DOMAIN Expected[T]}
  BY DEF ToSet
<1>2. \E f \in ToSet(Expected[T]) : f.name = Expected[T][k].name
  BY <1>1
<1>3. c \in ToSet(Expected[T]) /\ c.name = Expected[T][k].name
  BY <1>2
<1> QED BY <1>1, <1>3

(* The names of the fields. *)
LEMMA NamesIs == ASSUME NEW T PROVE {f.name : f \in ToSet(Expected[T])} = Names(Expected[T])
BY DEF ToSet, Names

(* A new message without nested ones has zeros in all fields. *)
LEMMA New0Zeros == ASSUME NEW T \in Types0 PROVE Zeros(New0(T), T)
<1> DEFINE z(f) == CASE WireType(f) < 2 -> 0
                     [] f.kind \in {"bytes", "repeated"} -> <<>>
                     [] f.kind = "stdtime" -> ZeroTime
                     [] f.kind = "message" -> Nil
                     [] OTHER -> Nil
           c(x) == CHOOSE f \in ToSet(Expected[T]) : f.name = x
<1>0. T \in Readable
  BY DEF Readable, Types
<1>1. New0(T) = [x \in Names(Expected[T]) |-> z(c(x))]
  BY NamesIs DEF New0, newWith
<1>2. ASSUME NEW k \in DOMAIN Expected[T]
      PROVE  Expected[T][k].kind \in Numbers \cup {"bytes"}
  BY <1>0, ExpectedFields DEF Expecting, Below
<1>3. ASSUME NEW k \in DOMAIN Expected[T] PROVE z(Expected[T][k]) = zeroOf(Expected[T][k])
  <2>1. PICK f : f = Expected[T][k] /\ f.kind \in Numbers \cup {"bytes"}
    BY <1>2
  <2>2. CASE f.kind = "bytes"
    <3>1. WireType(f) = 2
      BY <2>2, WireTypes DEF Numbers
    <3> QED BY <2>1, <2>2, <3>1 DEF zeroOf
  <2>3. CASE f.kind \in Numbers
    <3>1. WireType(f) < 2
      BY <2>3, WireTypes DEF Numbers
    <3>2. f.kind \notin {"bytes", "repeated"} /\ f.kind # "stdtime" /\ f.kind # "message"
      BY <2>3 DEF Numbers
    <3>3. z(f) = 0
      BY <2>1, <3>1, <3>2
    <3>4. zeroOf(f) = 0
      BY <3>1 DEF zeroOf
    <3> QED BY <2>1, <3>3, <3>4
  <2> QED BY <2>1, <2>2, <2>3
<1> HIDE DEF z
<1>4. ASSUME NEW k \in DOMAIN Expected[T] PROVE z(c(Expected[T][k].name)) = zeroOf(Expected[T][k])
  <2>1. PICK j \in DOMAIN Expected[T] : c(Expected[T][k].name) = Expected[T][j] /\ Expected[T][j].name = Expected[T][k].name
    BY <1>0, ChosenField
  <2> QED BY <1>0, <1>3, <2>1, SameZeros
<1> HIDE DEF c
<1>5. ASSUME NEW k \in DOMAIN Expected[T] PROVE New0(T)[Expected[T][k].name] = zeroOf(Expected[T][k])
  <2>1. Expected[T][k].name \in Names(Expected[T])
    BY DEF Names
  <2> QED BY <1>1, <1>4, <2>1
<1> QED BY <1>1, <1>5 DEF Zeros

(* Every new message has zeros in all fields. *)
LEMMA NewZeros == ASSUME NEW T \in Readable PROVE Zeros(New(T), T)
<1> DEFINE z(f) == CASE WireType(f) < 2 -> 0
                     [] f.kind \in {"bytes", "repeated"} -> <<>>
                     [] f.kind = "stdtime" -> ZeroTime
                     [] f.kind = "message" -> New0(f.of)
                     [] OTHER -> Nil
           c(x) == CHOOSE f \in ToSet(Expected[T]) : f.name = x
<1>1. New(T) = [x \in Names(Expected[T]) |-> z(c(x))]
  BY NamesIs DEF New, newWith
<1>3. ASSUME NEW f PROVE z(f) = zeroOf(f)
  <2>1. CASE WireType(f) < 2
    <3>1. f.kind \in Numbers
      BY <2>1, WireTypes
    <3> QED BY <2>1, <3>1 DEF zeroOf, Numbers
  <2>2. CASE ~ (WireType(f) < 2)
    BY <2>2 DEF zeroOf
  <2> QED BY <2>1, <2>2
<1> HIDE DEF z
<1>4. ASSUME NEW k \in DOMAIN Expected[T] PROVE z(c(Expected[T][k].name)) = zeroOf(Expected[T][k])
  <2>1. PICK j \in DOMAIN Expected[T] : c(Expected[T][k].name) = Expected[T][j] /\ Expected[T][j].name = Expected[T][k].name
    BY ChosenField
  <2> QED BY <1>3, <2>1, SameZeros
<1> HIDE DEF c
<1>5. ASSUME NEW k \in DOMAIN Expected[T] PROVE New(T)[Expected[T][k].name] = zeroOf(Expected[T][k])
  <2>1. Expected[T][k].name \in Names(Expected[T])
    BY DEF Names
  <2> QED BY <1>1, <1>4, <2>1
<1> QED BY <1>1, <1>5 DEF Zeros

(* Each type has one message of zeros. *)
LEMMA ZerosUnique == ASSUME NEW T, NEW m, NEW n, Zeros(m, T), Zeros(n, T) PROVE m = n
<1>1. ASSUME NEW x \in Names(Expected[T]) PROVE m[x] = n[x]
  <2>1. PICK k \in DOMAIN Expected[T] : x = Expected[T][k].name
    BY DEF Names
  <2> QED BY <2>1 DEF Zeros
<1> QED BY <1>1 DEF Zeros

(* The new messages of the lowest level are those of every level. *)
LEMMA NewIsNew0 == ASSUME NEW T \in Types0 PROVE New0(T) = New(T)
<1>1. T \in Readable
  BY DEF Readable, Types
<1> QED BY <1>1, New0Zeros, NewZeros, ZerosUnique

(* Zeros have the types of their fields. *)
LEMMA ZeroFacts ==
    /\ 0 \in Int32s /\ 0 \in Int64s /\ ZeroTime \in Times /\ <<>> \in Seq(Byte)
    /\ \A S : <<>> \in Seq(S)
<1>1. 0 \in Int32s /\ 0 \in Int64s
  BY WordFacts, HalfFacts DEF Int32s, Int64s
<1>2. EpochSeconds \in 1 .. IntRange - 1 /\ MaxSeconds \in 1 .. IntRange - 1
  BY ProtobufAssumption DEF IntRange
<1>3. NanosPerSecond \in 1 .. Int32Range - 1
  BY ProtobufAssumption DEF Int32Range
<1>4. -EpochSeconds \in -EpochSeconds .. MaxSeconds /\ 0 \in 0 .. NanosPerSecond - 1
  BY <1>2, <1>3, WordFacts, HalfFacts
<1> QED BY <1>1, <1>4 DEF ZeroTime, Times

(* A message of zeros is a message if those in it are. *)
LEMMA ZerosTyped == ASSUME NEW T \in Readable, NEW m, Zeros(m, T),
                    \A k \in DOMAIN Expected[T] : Expected[T][k].kind = "message" =>
                        New0(Expected[T][k].of) \in Struct[Expected[T][k].of]
                    PROVE m \in Struct[T]
<1>1. ASSUME NEW k \in DOMAIN Expected[T] PROVE Fill(Expected[T][k], m[Expected[T][k].name])
  <2>1. PICK f : f = Expected[T][k] /\ f.kind \in Kinds \cup {"case"}
    BY ExpectedFields DEF Expecting
  <2>2. m[f.name] = zeroOf(f)
    BY <2>1 DEF Zeros
  <2>3. CASE f.kind \in Numbers
    <3>1. zeroOf(f) = 0
      BY <2>3, WireTypes DEF Numbers, zeroOf
    <3> QED BY <2>1, <2>2, <2>3, <3>1, ZeroFacts DEF Fill, Holds, Numbers
  <2>4. CASE f.kind \notin Numbers
    <3>1. WireType(f) = 2
      BY <2>4, WireTypes
    <3>2. CASE f.kind \in {"bytes", "repeated"}
      <4>1. zeroOf(f) = <<>>
        BY <3>1, <3>2 DEF zeroOf
      <4> QED BY <2>1, <2>2, <3>2, <4>1, ZeroFacts DEF Fill, Holds
    <3>3. CASE f.kind = "stdtime"
      <4>1. zeroOf(f) = ZeroTime
        BY <3>1, <3>3 DEF zeroOf
      <4> QED BY <2>1, <2>2, <3>3, <4>1, ZeroFacts DEF Fill, Holds
    <3>4. CASE f.kind = "message"
      <4>1. zeroOf(f) = New0(f.of)
        BY <3>1, <3>4 DEF zeroOf
      <4> QED BY <2>1, <2>2, <3>4, <4>1 DEF Fill, Holds
    <3>5. CASE f.kind \in {"pointer", "case"}
      <4>1. zeroOf(f) = Nil
        BY <3>1, <3>5 DEF zeroOf
      <4> QED BY <2>1, <2>2, <3>5, <4>1 DEF Fill, Holds
    <3> QED BY <2>1, <2>4, <3>2, <3>3, <3>4, <3>5 DEF Kinds, Messages1
  <2> QED BY <2>3, <2>4
<1>2. Filled(Expected[T], m)
  BY <1>1 DEF Filled
<1> QED BY <1>2, StructIs DEF Zeros, Readable

(* A new message without nested ones is a message of its type. *)
LEMMA New0Typed == ASSUME NEW T \in Types0 PROVE New0(T) \in Struct[T]
<1>1. T \in Readable
  BY DEF Readable, Types
<1>2. \A k \in DOMAIN Expected[T] : Expected[T][k].kind # "message"
  <2>1. Below(T) = {}
    BY DEF Below
  <2> QED BY <1>1, <2>1, ExpectedFields DEF Expecting, Numbers
<1> QED BY <1>1, <1>2, New0Zeros, ZerosTyped

(* Every new message is a message of its type. *)
LEMMA NewTyped == ASSUME NEW T \in Readable PROVE New(T) \in Struct[T]
<1>1. \A k \in DOMAIN Expected[T] : Expected[T][k].kind = "message" =>
         New0(Expected[T][k].of) \in Struct[Expected[T][k].of]
  BY ExpectedFields, New0Typed DEF Expecting
<1> QED BY <1>1, NewZeros, ZerosTyped

-----------------------------------------------------------------------------
(* One turn of the loop of Unmarshal.  I is what the messages in a message
   are unmarshalled to. *)

Args(T) == UNION {UNION {{<<U, x, d>> : d \in Data} : x \in Struct[U]} : U \in Below(T)}

(* The arguments of a nested Unmarshal: a type, a message to fill, a slice. *)
LEMMA ArgsAre ==
    ASSUME NEW T
    PROVE  \A U, x, d : <<U, x, d>> \in Args(T) <=> U \in Below(T) /\ x \in Struct[U] /\ d \in Data
<1>1. ASSUME NEW U, NEW x, NEW d, U \in Below(T), x \in Struct[U], d \in Data
      PROVE  <<U, x, d>> \in Args(T)
  BY <1>1 DEF Args
<1>2. ASSUME NEW U, NEW x, NEW d, <<U, x, d>> \in Args(T)
      PROVE  U \in Below(T) /\ x \in Struct[U] /\ d \in Data
  <2>1. PICK V \in Below(T) : <<U, x, d>> \in UNION {{<<V, y, e>> : e \in Data} : y \in Struct[V]}
    BY <1>2 DEF Args
  <2>2. PICK y \in Struct[V] : <<U, x, d>> \in {<<V, y, e>> : e \in Data}
    BY <2>1
  <2>3. PICK e \in Data : <<U, x, d>> = <<V, y, e>>
    BY <2>2
  <2> QED BY <2>3
<1> QED BY <1>1, <1>2

Decodes(I, T) ==
    \A U, x, d : <<U, x, d>> \in Args(T) => I[<<U, x, d>>] \in Results(Struct[U], Len(d))

Outcomes(V) == [err : {"none"}, v : V, i : Nat] \cup Failed

(* An outcome is a value or an error. *)
LEMMA OutcomeFacts ==
    ASSUME NEW V, NEW r \in Outcomes(V)
    PROVE  /\ r.err = "none" => r.v \in V
           /\ r.err # "none" => r \in Failed
<1>1. CASE r \in Failed
  BY <1>1 DEF Failed, Errors
<1>2. CASE r \in [err : {"none"}, v : V, i : Nat]
  BY <1>2
<1> QED BY <1>1, <1>2 DEF Outcomes

(* A result is an outcome. *)
LEMMA ResultIsOutcome == ASSUME NEW V, NEW l, l \in Nat, NEW r \in Results(V, l) PROVE r \in Outcomes(V)
BY DEF Results, Outcomes

(* Messages of a lower level are read by the Unmarshal of that level. *)
LEMMA BelowReadable == ASSUME NEW T, NEW U \in Below(T) PROVE U \in Types0 \cup Types1 /\ U \in Readable
BY DEF Below, Readable, Types

(* What setField is given. *)
Raw(f, data) == (WireType(f) < 2 => data \in Nat) /\ (WireType(f) = 2 => data \in Data)
Into(f, inner) == f.kind \notin Numbers \cup {"bytes"} => inner \in Outcomes(Struct[f.of])

(* Setting a field from what was read gives a message or an error. *)
LEMMA SetFieldTyped ==
    ASSUME NEW T \in Readable, NEW m \in Struct[T], NEW k \in DOMAIN Expected[T],
           NEW f, f = Expected[T][k], NEW data, Raw(f, data), NEW inner, Into(f, inner)
    PROVE  setField(m, f, data, inner) \in Outcomes(Struct[T])
<1>0. Expecting(T, k)
  BY ExpectedFields
<1>1. f.kind \in Kinds \cup {"case"}
  BY <1>0 DEF Expecting
<1>2. ASSUME NEW x, Fill(f, x) PROVE read([m EXCEPT ![f.name] = x], 0) \in Outcomes(Struct[T])
  <2>1. [m EXCEPT ![f.name] = x] \in Struct[T]
    BY <1>2, Updated
  <2> QED BY <2>1 DEF read, Outcomes
<1>3. CASE f.kind \in {"int64", "sfixed64"}
  <2>1. data \in Nat
    BY <1>3, WireTypes DEF Raw
  <2>2. int64(data) \in Int64s
    BY <2>1, ConversionTypes
  <2>3. Fill(f, int64(data))
    BY <1>3, <2>2 DEF Fill, Holds
  <2>4. setField(m, f, data, inner) = read([m EXCEPT ![f.name] = int64(data)], 0)
    BY <1>3 DEF setField
  <2> QED BY <1>2, <2>3, <2>4
<1>4. CASE f.kind = "int32"
  <2>1. data \in Nat
    BY <1>4, WireTypes DEF Raw
  <2>2. int32(data) \in Int32s
    BY <2>1, ConversionTypes
  <2>3. Fill(f, int32(data))
    BY <1>4, <2>2 DEF Fill, Holds
  <2>4. setField(m, f, data, inner) = read([m EXCEPT ![f.name] = int32(data)], 0)
    BY <1>4 DEF setField
  <2> QED BY <1>2, <2>3, <2>4
<1>5. CASE f.kind = "bytes"
  <2>1. data \in Seq(Byte)
    BY <1>5, WireTypes DEF Raw, Data, Numbers
  <2>2. Fill(f, data)
    BY <1>5, <2>1 DEF Fill, Holds
  <2>3. setField(m, f, data, inner) = read([m EXCEPT ![f.name] = data], 0)
    BY <1>5 DEF setField
  <2> QED BY <1>2, <2>2, <2>3
<1>6. CASE f.kind \notin Numbers \cup {"bytes"}
  <2>1. setField(m, f, data, inner) = setMessage(m, f, inner)
    BY <1>6 DEF setField, Numbers
  <2>2. inner \in Outcomes(Struct[f.of])
    BY <1>6 DEF Into
  <2>3. CASE inner.err # "none"
    BY <2>1, <2>2, <2>3, OutcomeFacts DEF setMessage, Outcomes
  <2>4. CASE inner.err = "none"
    <3>1. inner.v \in Struct[f.of]
      BY <2>2, <2>4, OutcomeFacts
    <3>2. CASE f.kind = "stdtime"
      <4>1. CASE ~ validTimestamp(inner.v)
        <5>1. setMessage(m, f, inner) = fail("timestamp")
          BY <2>4, <3>2, <4>1 DEF setMessage
        <5> QED BY <2>1, <5>1, FailFacts DEF Errors, Outcomes
      <4>2. CASE validTimestamp(inner.v)
        <5>1. setMessage(m, f, inner) = read([m EXCEPT ![f.name] = inner.v], 0)
          BY <2>4, <3>2, <4>2 DEF setMessage
        <5>2. Fill(f, inner.v)
          BY <3>2, <4>2 DEF Fill, Holds, validTimestamp
        <5> QED BY <1>2, <2>1, <5>1, <5>2
      <4> QED BY <4>1, <4>2
    <3>3. CASE f.kind \in {"message", "pointer"}
      <4>1. setMessage(m, f, inner) = read([m EXCEPT ![f.name] = inner.v], 0)
        BY <2>4, <3>3 DEF setMessage
      <4>2. Fill(f, inner.v)
        BY <3>1, <3>3 DEF Fill, Holds
      <4> QED BY <1>2, <2>1, <4>1, <4>2
    <3>4. CASE f.kind = "repeated"
      <4>1. setMessage(m, f, inner) = read([m EXCEPT ![f.name] = Append(m[f.name], inner.v)], 0)
        BY <2>4, <3>4 DEF setMessage
      <4>2. m[f.name] \in Seq(Struct[f.of])
        <5>1. Filled(Expected[T], m)
          BY StructIs DEF Readable
        <5> QED BY <3>4, <5>1 DEF Filled, Fill, Holds
      <4>3. Append(m[f.name], inner.v) \in Seq(Struct[f.of])
        BY <3>1, <4>2, AppendProperties
      <4>4. Fill(f, Append(m[f.name], inner.v))
        BY <3>4, <4>3 DEF Fill, Holds
      <4> QED BY <1>2, <2>1, <4>1, <4>4
    <3>5. CASE f.kind = "case"
      <4>1. f.of \in {"Proposal", "Vote"}
        BY <1>0, <3>5 DEF Expecting
      <4>2. CASE f.of = "Proposal"
        <5>1. setMessage(m, f, inner) = read([m EXCEPT ![f.name] = Message_Proposal(inner.v)], 0)
          BY <2>4, <3>5, <4>2 DEF setMessage
        <5>2. Message_Proposal(inner.v) \in Message_ProposalStruct
          BY <3>1, <4>2 DEF Message_Proposal, Message_ProposalStruct, Struct
        <5>3. Fill(f, Message_Proposal(inner.v))
          BY <3>5, <5>2 DEF Fill, Holds
        <5> QED BY <1>2, <2>1, <5>1, <5>3
      <4>3. CASE f.of = "Vote"
        <5>1. setMessage(m, f, inner) = read([m EXCEPT ![f.name] = Message_Vote(inner.v)], 0)
          BY <2>4, <3>5, <4>3 DEF setMessage
        <5>2. Message_Vote(inner.v) \in Message_VoteStruct
          BY <3>1, <4>3 DEF Message_Vote, Message_VoteStruct, Struct
        <5>3. Fill(f, Message_Vote(inner.v))
          BY <3>5, <5>2 DEF Fill, Holds
        <5> QED BY <1>2, <2>1, <5>1, <5>3
      <4> QED BY <4>1, <4>2, <4>3
    <3> QED BY <1>1, <1>6, <3>2, <3>3, <3>4, <3>5 DEF Kinds, Messages1
  <2> QED BY <2>3, <2>4
<1> QED BY <1>1, <1>3, <1>4, <1>5, <1>6 DEF Numbers

(* A nested message is read into one of its type. *)
LEMMA TargetTyped ==
    ASSUME NEW T \in Readable, NEW m \in Struct[T], NEW k \in DOMAIN Expected[T],
           NEW f, f = Expected[T][k], f.kind \notin Numbers \cup {"bytes"}
    PROVE  target(m, f) \in Struct[f.of] /\ f.of \in Below(T)
<1>1. Expecting(T, k)
  BY ExpectedFields
<1>2. f.of \in Below(T)
  BY <1>1 DEF Expecting
<1>3. Holds(f, m[f.name])
  <2>1. Filled(Expected[T], m)
    BY StructIs DEF Readable
  <2> QED BY <2>1 DEF Filled, Fill
<1>4. CASE f.kind = "message" \/ (f.kind = "pointer" /\ m[f.name] # Nil)
  BY <1>2, <1>3, <1>4 DEF target, Holds
<1>5. CASE ~ (f.kind = "message" \/ (f.kind = "pointer" /\ m[f.name] # Nil))
  <2>1. target(m, f) = New(f.of)
    BY <1>5 DEF target
  <2> QED BY <1>2, <2>1, BelowReadable, NewTyped
<1> QED BY <1>4, <1>5

(* The parts of a turn with the field at r.i. *)
keyAt(b, r) == readVarint(b, r.i)
fieldAt(T, b, r) == fieldOf(T, fieldNum(keyAt(b, r)))
rawAt(T, b, r) == rawOf(fieldAt(T, b, r), b, keyAt(b, r).i)

turnWith(T, b, r, inner) == turn(T, b, r, keyAt(b, r), rawAt(T, b, r), inner)

turnAt(T, b, r, I) ==
    turnWith(T, b, r, I[<<fieldAt(T, b, r).of, target(r.v, fieldAt(T, b, r)), rawAt(T, b, r).v>>])

(* The message in the field at r.i is looked at. *)
Inside(T, b, r) ==
    /\ keyAt(b, r).err = "none" /\ known(T, fieldNum(keyAt(b, r)))
    /\ rawAt(T, b, r).err = "none"
    /\ fieldAt(T, b, r).kind \notin Numbers \cup {"bytes"}

(* A turn that reads no nested message does not depend on one. *)
LEMMA TurnIgnores ==
    ASSUME NEW T, NEW b, NEW r, NEW x, NEW y, Inside(T, b, r) => x = y
    PROVE  turnWith(T, b, r, x) = turnWith(T, b, r, y)
<1>1. PICK key, f, raw : key = keyAt(b, r) /\ f = fieldAt(T, b, r) /\ raw = rawAt(T, b, r)
  OBVIOUS
<1>2. CASE x = y
  BY <1>2
<1>3. CASE ~ Inside(T, b, r)
  <2>1. CASE f.kind \in Numbers \cup {"bytes"}
    <3>1. setField(r.v, f, raw.v, x) = setField(r.v, f, raw.v, y)
      BY <2>1 DEF setField, Numbers
    <3> QED BY <1>1, <3>1 DEF turnWith, turn, fieldAt
  <2>2. CASE key.err # "none" \/ ~ known(T, fieldNum(key)) \/ raw.err # "none"
    BY <1>1, <2>2 DEF turnWith, turn, fieldAt
  <2> QED BY <1>1, <1>3, <2>1, <2>2 DEF Inside
<1> QED BY <1>2, <1>3

(* What is read after a key is a number or a slice, by the wire type. *)
LEMMA RawTyped ==
    ASSUME NEW f, NEW b \in Data, NEW i \in Nat
    PROVE  /\ rawOf(f, b, i) \in Results(IF WireType(f) < 2 THEN Nat ELSE Data, Len(b))
<1>0. b \in Seq(Byte)
  BY DataFacts
<1>1. CASE WireType(f) = 0
  <2>1. rawOf(f, b, i) = readVarint(b, i)
    BY <1>1 DEF rawOf
  <2>2. readVarint(b, i) \in Results(0 .. Word - 1, Len(b))
    BY <1>0, ReadVarintTyped
  <2>3. 0 .. Word - 1 \in SUBSET Nat
    BY WordFacts
  <2>4. Results(0 .. Word - 1, Len(b)) \in SUBSET Results(Nat, Len(b))
    BY <2>3 DEF Results
  <2> QED BY <1>1, <2>1, <2>2, <2>4
<1>2. CASE WireType(f) = 1
  <2>1. rawOf(f, b, i) = readFixed64(b, i)
    BY <1>2 DEF rawOf
  <2> QED BY <1>0, <1>2, <2>1, ReadFixed64Typed
<1>3. CASE WireType(f) = 2
  <2>1. rawOf(f, b, i) = readDelimited(b, i)
    BY <1>3 DEF rawOf
  <2> QED BY <1>3, <2>1, ReadDelimitedTyped
<1> QED BY <1>1, <1>2, <1>3, WireTypes

(* A key is a word, its field number an integer. *)
LEMMA KeyTyped ==
    ASSUME NEW b \in Data, NEW r, r.i \in Nat
    PROVE  /\ keyAt(b, r) \in Results(0 .. Word - 1, Len(b)) /\ keyAt(b, r).i \in Nat
           /\ keyAt(b, r).err = "none" => fieldNum(keyAt(b, r)) \in Int
<1>1. keyAt(b, r) \in Results(0 .. Word - 1, Len(b))
  BY DataFacts, ReadVarintTyped DEF keyAt
<1>2. CASE keyAt(b, r).err # "none"
  BY <1>1, <1>2, ResultFacts DEF Failed
<1>3. CASE keyAt(b, r).err = "none"
  <2>1. keyAt(b, r).v \in 0 .. Word - 1 /\ keyAt(b, r).i \in 0 .. Len(b)
    BY <1>1, <1>3, ResultFacts
  <2>2. PICK v \in Nat : v = keyAt(b, r).v
    BY <2>1, WordFacts
  <2>3. v \div 8 \in Int
    OBVIOUS
  <2>4. int32(v \div 8) \in Int32s
    BY <2>3, ConversionTypes
  <2>5. int32(v \div 8) \in Int
    BY <2>4, HalfFacts DEF Int32s
  <2> QED BY <1>1, <2>1, <2>2, <2>5 DEF fieldNum
<1> QED BY <1>2, <1>3

(* A turn that reads a nested message passes it arguments of its type. *)
LEMMA InsideArgs ==
    ASSUME NEW T \in Readable, NEW b \in Data, NEW r, r.i \in Nat, r.v \in Struct[T], Inside(T, b, r)
    PROVE  <<fieldAt(T, b, r).of, target(r.v, fieldAt(T, b, r)), rawAt(T, b, r).v>> \in Args(T)
<1>1. PICK num \in DOMAIN Expected[T] : num = fieldNum(keyAt(b, r)) /\ fieldAt(T, b, r) = Expected[T][num]
  BY KeyTyped, KnownFields DEF Inside, fieldAt
<1>2. PICK f : f = fieldAt(T, b, r) /\ f = Expected[T][num]
  BY <1>1
<1>3. f.kind \notin Numbers \cup {"bytes"} /\ WireType(f) = 2
  BY <1>2, WireTypes DEF Inside
<1>4. target(r.v, f) \in Struct[f.of] /\ f.of \in Below(T)
  BY <1>2, <1>3, TargetTyped
<1>5. rawAt(T, b, r).v \in Data
  <2>1. rawAt(T, b, r) \in Results(Data, Len(b))
    <3>1. rawOf(f, b, keyAt(b, r).i) \in Results(IF WireType(f) < 2 THEN Nat ELSE Data, Len(b))
      BY KeyTyped, RawTyped
    <3> QED BY <1>2, <1>3, <3>1 DEF rawAt
  <2> QED BY <2>1, ResultFacts DEF Inside
<1> QED BY <1>2, <1>4, <1>5, ArgsAre

(* A turn stays within the bytes and within the struct. *)
LEMMA TurnTyped ==
    ASSUME NEW T \in Readable, NEW b \in Data, NEW I, Decodes(I, T),
           NEW r \in Results(Struct[T], Len(b)), r.err = "none"
    PROVE  turnAt(T, b, r, I) \in Results(Struct[T], Len(b))
<1>1. r.v \in Struct[T] /\ r.i \in 0 .. Len(b) /\ r.i \in Nat
  <2>1. r.v \in Struct[T] /\ r.i \in 0 .. Len(b)
    BY ResultFacts
  <2> QED BY <2>1, DataFacts
<1>2. PICK key, f, raw : key = keyAt(b, r) /\ f = fieldAt(T, b, r) /\ raw = rawAt(T, b, r)
  OBVIOUS
<1>3. PICK inner : inner = I[<<f.of, target(r.v, f), raw.v>>]
  OBVIOUS
<1>4. PICK t : t = turnAt(T, b, r, I) /\ t = turn(T, b, r, key, raw, inner)
  BY <1>2, <1>3 DEF turnAt, turnWith
<1>5. key \in Results(0 .. Word - 1, Len(b)) /\ key.i \in Nat /\ (key.err = "none" => fieldNum(key) \in Int)
  BY <1>1, <1>2, KeyTyped
<1>6. raw \in Results(IF WireType(f) < 2 THEN Nat ELSE Data, Len(b))
  BY <1>2, <1>5, RawTyped DEF rawAt
<1>7. CASE key.err # "none"
  <2>1. t = key
    BY <1>4, <1>7 DEF turn
  <2>2. key \in Failed
    BY <1>5, <1>7, ResultFacts
  <2> QED BY <1>4, <2>1, <2>2 DEF Results
<1>8. CASE key.err = "none" /\ (key.v % 8 = 4 \/ fieldNum(key) <= 0)
  <2>1. t = fail("illegal tag")
    BY <1>4, <1>8 DEF turn
  <2> QED BY <1>4, <2>1, FailIsResult DEF Errors
<1>9. CASE key.err = "none" /\ ~ (key.v % 8 = 4 \/ fieldNum(key) <= 0) /\ ~ known(T, fieldNum(key))
  <2>1. t = skip(r.v, b, r.i)
    BY <1>4, <1>9 DEF turn
  <2> QED BY <1>1, <1>4, <2>1, SkipTyped
<1>10. CASE key.err = "none" /\ ~ (key.v % 8 = 4 \/ fieldNum(key) <= 0) /\ known(T, fieldNum(key))
  <2>1. CASE key.v % 8 # WireType(f)
    <3>1. t = fail("wrong wireType")
      BY <1>2, <1>4, <1>10, <2>1 DEF turn, fieldAt
    <3> QED BY <1>4, <3>1, FailIsResult DEF Errors
  <2>2. CASE key.v % 8 = WireType(f) /\ raw.err # "none"
    <3>1. t = raw
      BY <1>2, <1>4, <1>10, <2>2 DEF turn, fieldAt
    <3>2. raw \in Failed
      BY <1>6, <2>2, ResultFacts
    <3> QED BY <1>4, <3>1, <3>2 DEF Results
  <2>3. CASE key.v % 8 = WireType(f) /\ raw.err = "none"
    <3>1. t = [setField(r.v, f, raw.v, inner) EXCEPT !.i = raw.i]
      BY <1>2, <1>4, <1>10, <2>3 DEF turn, fieldAt
    <3>2. PICK num \in DOMAIN Expected[T] : num = fieldNum(key) /\ f = Expected[T][num]
      BY <1>2, <1>5, <1>10, KnownFields DEF fieldAt
    <3>3. raw.v \in (IF WireType(f) < 2 THEN Nat ELSE Data) /\ raw.i \in 0 .. Len(b)
      BY <1>6, <2>3, ResultFacts
    <3>4. Raw(f, raw.v)
      BY <3>3, WireTypes DEF Raw
    <3>5. Into(f, inner)
      <4>1. CASE f.kind \in Numbers \cup {"bytes"}
        BY <4>1 DEF Into
      <4>2. CASE f.kind \notin Numbers \cup {"bytes"}
        <5>1. Inside(T, b, r)
          BY <1>2, <1>10, <2>3, <4>2 DEF Inside
        <5>2. <<f.of, target(r.v, f), raw.v>> \in Args(T)
          BY <1>1, <1>2, <5>1, InsideArgs
        <5>3. inner \in Results(Struct[f.of], Len(raw.v)) /\ raw.v \in Data
          BY <1>3, <5>2, ArgsAre DEF Decodes
        <5>4. inner \in Outcomes(Struct[f.of])
          BY <5>3, DataFacts, ResultIsOutcome
        <5> QED BY <5>4 DEF Into
      <4> QED BY <4>1, <4>2
    <3>6. PICK s \in Outcomes(Struct[T]) : s = setField(r.v, f, raw.v, inner)
      BY <1>1, <3>2, <3>4, <3>5, SetFieldTyped
    <3>7. raw.i \in Nat
      BY <3>3, DataFacts
    <3>8. CASE s \in Failed
      BY <1>4, <3>1, <3>6, <3>7, <3>8 DEF Failed, Results
    <3>9. CASE s \in [err : {"none"}, v : Struct[T], i : Nat]
      BY <1>4, <3>1, <3>3, <3>6, <3>9 DEF Results
    <3> QED BY <3>6, <3>8, <3>9 DEF Outcomes
  <2> QED BY <2>1, <2>2, <2>3
<1> QED BY <1>7, <1>8, <1>9, <1>10

-----------------------------------------------------------------------------
(* The loop of Unmarshal. *)

stepAt(T, b, r, I) == IF r.err # "none" \/ r.i >= Len(b) THEN r ELSE turnAt(T, b, r, I)

Runs(a, T, m, b, I) ==
    a = [n \in 0 .. Len(b) |-> IF n = 0 THEN read(m, 0) ELSE stepAt(T, b, a[n - 1], I)]

outcome(a, b) == IF a[Len(b)].err = "none" /\ a[Len(b)].i > Len(b) THEN fail("UnexpectedEOF") ELSE a[Len(b)]

(* What Unmarshal makes of the end of its loop. *)
result(a, b) ==
    IF endOfLoop(a, b).err = "none" /\ endOfLoop(a, b).i > Len(b) THEN fail("UnexpectedEOF")
    ELSE endOfLoop(a, b)

(* That is what its last turn leaves. *)
LEMMA EndIsOutcome ==
    ASSUME NEW T, NEW m, NEW b \in Data, NEW I, NEW a, Runs(a, T, m, b, I)
    PROVE  result(a, b) = outcome(a, b)
<1>1. Len(b) \in Nat
  BY DataFacts
<1>2. ASSUME NEW n \in 1 .. Len(b), stopped(a[n - 1], b) PROVE a[n] = a[n - 1]
  <2>1. a[n] = stepAt(T, b, a[n - 1], I)
    BY <1>1 DEF Runs
  <2> QED BY <1>2, <2>1 DEF stepAt, stopped
<1>3. endOfLoop(a, b) = a[Len(b)]
  BY <1>1, <1>2, StopsForGood
<1> QED BY <1>3 DEF result, outcome

(* The loop of Unmarshal runs through the buffer as a function of the turn. *)
LEMMA RunsExist ==
    ASSUME NEW T \in Readable, NEW m \in Struct[T], NEW b \in Data, NEW I, Decodes(I, T)
    PROVE  \E a : Runs(a, T, m, b, I)
<1>1. PICK l \in Nat : l = Len(b)
  BY DataFacts
<1>2. PICK S : S = Results(Struct[T], Len(b))
  OBVIOUS
<1>3. ASSUME NEW r \in S PROVE stepAt(T, b, r, I) \in S
  BY <1>2, TurnTyped DEF stepAt
<1>4. PICK F : F = [n \in 1 .. l |-> [r \in S |-> stepAt(T, b, r, I)]]
  OBVIOUS
<1>5. F \in [1 .. l -> [S -> S]]
  BY <1>3, <1>4
<1>6. read(m, 0) \in S
  <2>1. 0 \in 0 .. Len(b)
    BY <1>1
  <2> QED BY <1>2, <2>1, ReadIsResult
<1>7. PICK a \in [0 .. l -> S] : Iterates(a, read(m, 0), F, l)
  BY <1>5, <1>6, Iteration
<1>8. ASSUME NEW n \in 0 .. l, n # 0 PROVE F[n][a[n - 1]] = stepAt(T, b, a[n - 1], I)
  <2>1. n \in 1 .. l /\ n - 1 \in 0 .. l
    BY <1>8
  <2> QED BY <1>4, <2>1
<1>9. Runs(a, T, m, b, I)
  BY <1>1, <1>7, <1>8 DEF Iterates, Runs
<1> QED BY <1>9

(* After every turn the loop is at a message and an index of the buffer, or
   has failed. *)
LEMMA RunsTyped ==
    ASSUME NEW T \in Readable, NEW m \in Struct[T], NEW b \in Data, NEW I, Decodes(I, T),
           NEW a, Runs(a, T, m, b, I)
    PROVE  /\ a[0] = read(m, 0)
           /\ \A n \in 0 .. Len(b) : a[n] \in Results(Struct[T], Len(b))
           /\ \A n \in 1 .. Len(b) : a[n] = stepAt(T, b, a[n - 1], I)
           /\ outcome(a, b) = a[Len(b)]
<1>1. PICK l \in Nat : l = Len(b)
  BY DataFacts
<1>2. PICK S : S = Results(Struct[T], Len(b))
  OBVIOUS
<1>3. ASSUME NEW r \in S PROVE stepAt(T, b, r, I) \in S
  BY <1>2, TurnTyped DEF stepAt
<1>4. a[0] = read(m, 0)
  BY <1>1 DEF Runs
<1>5. ASSUME NEW n \in 1 .. l PROVE a[n] = stepAt(T, b, a[n - 1], I)
  BY <1>1 DEF Runs
<1> DEFINE N == {n \in Nat : n <= l => a[n] \in S}
<1>6. 0 \in N
  <2>1. 0 \in 0 .. Len(b)
    BY <1>1
  <2> QED BY <1>2, <1>4, <2>1, ReadIsResult
<1>7. ASSUME NEW n \in N PROVE n + 1 \in N
  <2> SUFFICES ASSUME n + 1 <= l PROVE a[n + 1] \in S
    OBVIOUS
  <2>1. n \in Nat /\ n <= l /\ a[n] \in S /\ n + 1 \in 1 .. l /\ (n + 1) - 1 = n
    OBVIOUS
  <2>2. a[n + 1] = stepAt(T, b, a[n], I)
    BY <1>5, <2>1
  <2> QED BY <1>3, <2>1, <2>2
<1>8. N = Nat
  <2>1. N \in SUBSET Nat
    OBVIOUS
  <2> HIDE DEF N
  <2> QED BY <1>6, <1>7, <2>1, Induction
<1>9. \A n \in 0 .. l : a[n] \in S
  BY <1>8
<1>10. outcome(a, b) = a[Len(b)]
  <2>1. a[l] \in S
    BY <1>9
  <2>2. a[l].err = "none" => a[l].i \in 0 .. Len(b)
    BY <1>2, <2>1, ResultFacts
  <2>3. a[l].err = "none" => ~ (a[l].i > Len(b))
    BY <1>1, <2>2
  <2> QED BY <1>1, <2>3 DEF outcome
<1> QED BY <1>1, <1>2, <1>4, <1>5, <1>9, <1>10

(* o is what m and b are unmarshalled to, with I for the messages in them. *)
Decoded(T, m, b, I, o) ==
    /\ Decodes(I, T) /\ \E a : Runs(a, T, m, b, I) /\ o = outcome(a, b)
    /\ o \in Results(Struct[T], Len(b))

Into0(T) == [p \in Args(T) |-> fail("no message")]
Into1(T) == [p \in Args(T) |-> Unmarshal0(p[1], p[2], p[3])]
Into2(T) == [p \in Args(T) |-> Unmarshal1(p[1], p[2], p[3])]

(* Unmarshal of a message without nested ones is such a loop. *)
LEMMA Decoding0 ==
    ASSUME NEW T \in Types0, NEW m \in Struct[T], NEW b \in Data
    PROVE  Decoded(T, m, b, Into0(T), Unmarshal0(T, m, b))
<1>0. T \in Readable
  BY DEF Readable, Types
<1> DEFINE I == Into0(T)
           inner(r) == fail("no message")
           A(a) == a = [n \in 0 .. Len(b) |->
                          IF n = 0 THEN read(m, 0)
                          ELSE IF a[n - 1].err # "none" \/ a[n - 1].i >= Len(b) THEN a[n - 1]
                          ELSE turn(T, b, a[n - 1], readVarint(b, a[n - 1].i),
                                    rawOf(fieldOf(T, fieldNum(readVarint(b, a[n - 1].i))), b, readVarint(b, a[n - 1].i).i),
                                    inner(a[n - 1]))]
           p == CHOOSE a : A(a)
<1>1. Unmarshal0(T, m, b) = result(p, b)
  BY DEF Unmarshal0, unmarshalWith, stopped, endOfLoop, result, fieldAt, rawAt, keyAt
<1> HIDE DEF p
<1>3. ASSUME NEW U, NEW x, NEW d, <<U, x, d>> \in Args(T)
      PROVE  I[<<U, x, d>>] \in Results(Struct[U], Len(d)) /\ I[<<U, x, d>>] = fail("no message")
  <2>1. U \in Below(T)
    BY <1>3, ArgsAre
  <2> QED BY <2>1 DEF Below
<1>4. Decodes(I, T)
  BY <1>3 DEF Decodes
<1> HIDE DEF I
<1>5. ASSUME NEW r \in Results(Struct[T], Len(b)), r.err = "none"
      PROVE  turnWith(T, b, r, inner(r)) = turnAt(T, b, r, I)
  <2>1. r.v \in Struct[T] /\ r.i \in Nat
    <3>1. r.v \in Struct[T] /\ r.i \in 0 .. Len(b)
      BY <1>5, ResultFacts
    <3> QED BY <3>1, DataFacts
  <2>2. Inside(T, b, r) =>
           inner(r) = I[<<fieldAt(T, b, r).of, target(r.v, fieldAt(T, b, r)), rawAt(T, b, r).v>>]
    BY <1>0, <1>3, <2>1, InsideArgs
  <2> QED BY <2>2, TurnIgnores DEF turnAt
<1>6. ASSUME NEW r PROVE turnWith(T, b, r, inner(r)) =
                turn(T, b, r, readVarint(b, r.i), rawOf(fieldOf(T, fieldNum(readVarint(b, r.i))), b, readVarint(b, r.i).i), inner(r))
  BY DEF turnWith, keyAt, rawAt, fieldAt
<1> HIDE DEF inner
<1>7. PICK l \in Nat : l = Len(b)
  BY DataFacts
<1>8. ASSUME NEW r \in Results(Struct[T], Len(b))
      PROVE  stepAt(T, b, r, I) =
                IF r.err # "none" \/ r.i >= Len(b) THEN r ELSE turnWith(T, b, r, inner(r))
  BY <1>5 DEF stepAt
<1>9. ASSUME NEW a, Runs(a, T, m, b, I) PROVE A(a)
  <2>1. \A n \in 0 .. Len(b) : a[n] \in Results(Struct[T], Len(b))
    BY <1>0, <1>4, <1>9, RunsTyped
  <2>2. ASSUME NEW n \in 0 .. Len(b), n # 0
        PROVE stepAt(T, b, a[n - 1], I) =
                IF a[n - 1].err # "none" \/ a[n - 1].i >= Len(b) THEN a[n - 1]
                ELSE turn(T, b, a[n - 1], readVarint(b, a[n - 1].i),
                          rawOf(fieldOf(T, fieldNum(readVarint(b, a[n - 1].i))), b, readVarint(b, a[n - 1].i).i),
                          inner(a[n - 1]))
    <3>1. n - 1 \in 0 .. Len(b)
      BY <1>7, <2>2
    <3> QED BY <1>6, <1>8, <2>1, <3>1
  <2> QED BY <1>9, <2>2 DEF Runs
<1>10. A(p)
  <2>1. PICK a : Runs(a, T, m, b, I)
    BY <1>0, <1>4, RunsExist
  <2>2. A(a)
    BY <1>9, <2>1
  <2> QED BY <2>2 DEF p
<1>11. p[0] = read(m, 0)
  BY <1>7, <1>10
<1>12. ASSUME NEW n \in 1 .. l
       PROVE p[n] = IF p[n - 1].err # "none" \/ p[n - 1].i >= Len(b) THEN p[n - 1]
                    ELSE turnWith(T, b, p[n - 1], inner(p[n - 1]))
  <2>1. n \in 0 .. Len(b) /\ n # 0
    BY <1>7
  <2>2. p[n] = IF p[n - 1].err # "none" \/ p[n - 1].i >= Len(b) THEN p[n - 1]
                ELSE turn(T, b, p[n - 1], readVarint(b, p[n - 1].i),
                          rawOf(fieldOf(T, fieldNum(readVarint(b, p[n - 1].i))), b, readVarint(b, p[n - 1].i).i),
                          inner(p[n - 1]))
    BY <1>10, <2>1
  <2> QED BY <1>6, <2>2
<1>13. DOMAIN p = 0 .. Len(b)
  BY <1>10
<1>14. p = [n \in 0 .. Len(b) |-> p[n]]
  BY <1>10
<1> HIDE DEF A
<1>15. ASSUME NEW r \in Results(Struct[T], Len(b)) PROVE stepAt(T, b, r, I) \in Results(Struct[T], Len(b))
  BY <1>0, <1>4, TurnTyped DEF stepAt
<1> DEFINE N == {n \in Nat : n <= l => p[n] \in Results(Struct[T], Len(b))}
<1>16. 0 \in N
  <2>1. 0 \in 0 .. Len(b)
    BY <1>7
  <2> QED BY <1>11, <2>1, ReadIsResult
<1>17. ASSUME NEW n \in N PROVE n + 1 \in N
  <2> SUFFICES ASSUME n + 1 <= l PROVE p[n + 1] \in Results(Struct[T], Len(b))
    OBVIOUS
  <2>1. n \in Nat /\ n <= l /\ p[n] \in Results(Struct[T], Len(b)) /\ n + 1 \in 1 .. l /\ (n + 1) - 1 = n
    OBVIOUS
  <2>2. p[n + 1] = stepAt(T, b, p[n], I)
    BY <1>8, <1>12, <2>1
  <2> QED BY <1>15, <2>1, <2>2
<1>18. N = Nat
  <2>1. N \in SUBSET Nat
    OBVIOUS
  <2> HIDE DEF N
  <2> QED BY <1>16, <1>17, <2>1, Induction
<1>19. ASSUME NEW n \in 0 .. l PROVE p[n] \in Results(Struct[T], Len(b))
  BY <1>18
<1>20. ASSUME NEW n \in 0 .. Len(b)
       PROVE  p[n] = IF n = 0 THEN read(m, 0) ELSE stepAt(T, b, p[n - 1], I)
  <2>1. CASE n = 0
    BY <1>11, <2>1
  <2>2. CASE n # 0
    <3>1. n \in 1 .. l /\ n - 1 \in 0 .. l
      BY <1>7, <2>2
    <3> QED BY <1>8, <1>12, <1>19, <2>2, <3>1
  <2> QED BY <2>1, <2>2
<1>21. Runs(p, T, m, b, I)
  BY <1>14, <1>20 DEF Runs
<1>22. outcome(p, b) \in Results(Struct[T], Len(b))
  <2>1. outcome(p, b) = p[Len(b)]
    BY <1>0, <1>4, <1>21, RunsTyped
  <2> QED BY <1>7, <1>19, <2>1
<1>23. result(p, b) = outcome(p, b)
  BY <1>21, EndIsOutcome
<1> QED BY <1>1, <1>4, <1>21, <1>22, <1>23 DEF Decoded, I

(* Unmarshal of a message one level up is such a loop. *)
LEMMA Decoding1 ==
    ASSUME NEW T \in Types0 \cup Types1, NEW m \in Struct[T], NEW b \in Data
    PROVE  Decoded(T, m, b, Into1(T), Unmarshal1(T, m, b))
<1>0. T \in Readable
  BY DEF Readable, Types
<1> DEFINE I == Into1(T)
           inner(r) == Unmarshal0(fieldAt(T, b, r).of, target(r.v, fieldAt(T, b, r)), rawAt(T, b, r).v)
           A(a) == a = [n \in 0 .. Len(b) |->
                          IF n = 0 THEN read(m, 0)
                          ELSE IF a[n - 1].err # "none" \/ a[n - 1].i >= Len(b) THEN a[n - 1]
                          ELSE turn(T, b, a[n - 1], readVarint(b, a[n - 1].i),
                                    rawOf(fieldOf(T, fieldNum(readVarint(b, a[n - 1].i))), b, readVarint(b, a[n - 1].i).i),
                                    inner(a[n - 1]))]
           p == CHOOSE a : A(a)
<1>1. Unmarshal1(T, m, b) = result(p, b)
  BY DEF Unmarshal1, unmarshalWith, stopped, endOfLoop, result, fieldAt, rawAt, keyAt
<1> HIDE DEF p
<1>3. ASSUME NEW U, NEW x, NEW d, <<U, x, d>> \in Args(T)
      PROVE  I[<<U, x, d>>] \in Results(Struct[U], Len(d)) /\ I[<<U, x, d>>] = Unmarshal0(U, x, d)
  <2>1. U \in Types0 /\ x \in Struct[U] /\ d \in Data
    BY <1>3, ArgsAre DEF Below, Types0, Types1
  <2>2. Decoded(U, x, d, Into0(U), Unmarshal0(U, x, d))
    BY <2>1, Decoding0
  <2>3. I[<<U, x, d>>] = Unmarshal0(U, x, d)
    BY <1>3 DEF Into1
  <2> QED BY <2>2, <2>3 DEF Decoded
<1>4. Decodes(I, T)
  BY <1>3 DEF Decodes
<1> HIDE DEF I
<1>5. ASSUME NEW r \in Results(Struct[T], Len(b)), r.err = "none"
      PROVE  turnWith(T, b, r, inner(r)) = turnAt(T, b, r, I)
  <2>1. r.v \in Struct[T] /\ r.i \in Nat
    <3>1. r.v \in Struct[T] /\ r.i \in 0 .. Len(b)
      BY <1>5, ResultFacts
    <3> QED BY <3>1, DataFacts
  <2>2. Inside(T, b, r) =>
           inner(r) = I[<<fieldAt(T, b, r).of, target(r.v, fieldAt(T, b, r)), rawAt(T, b, r).v>>]
    BY <1>0, <1>3, <2>1, InsideArgs
  <2> QED BY <2>2, TurnIgnores DEF turnAt
<1>6. ASSUME NEW r PROVE turnWith(T, b, r, inner(r)) =
                turn(T, b, r, readVarint(b, r.i), rawOf(fieldOf(T, fieldNum(readVarint(b, r.i))), b, readVarint(b, r.i).i), inner(r))
  BY DEF turnWith, keyAt, rawAt, fieldAt
<1> HIDE DEF inner
<1>7. PICK l \in Nat : l = Len(b)
  BY DataFacts
<1>8. ASSUME NEW r \in Results(Struct[T], Len(b))
      PROVE  stepAt(T, b, r, I) =
                IF r.err # "none" \/ r.i >= Len(b) THEN r ELSE turnWith(T, b, r, inner(r))
  BY <1>5 DEF stepAt
<1>9. ASSUME NEW a, Runs(a, T, m, b, I) PROVE A(a)
  <2>1. \A n \in 0 .. Len(b) : a[n] \in Results(Struct[T], Len(b))
    BY <1>0, <1>4, <1>9, RunsTyped
  <2>2. ASSUME NEW n \in 0 .. Len(b), n # 0
        PROVE stepAt(T, b, a[n - 1], I) =
                IF a[n - 1].err # "none" \/ a[n - 1].i >= Len(b) THEN a[n - 1]
                ELSE turn(T, b, a[n - 1], readVarint(b, a[n - 1].i),
                          rawOf(fieldOf(T, fieldNum(readVarint(b, a[n - 1].i))), b, readVarint(b, a[n - 1].i).i),
                          inner(a[n - 1]))
    <3>1. n - 1 \in 0 .. Len(b)
      BY <1>7, <2>2
    <3> QED BY <1>6, <1>8, <2>1, <3>1
  <2> QED BY <1>9, <2>2 DEF Runs
<1>10. A(p)
  <2>1. PICK a : Runs(a, T, m, b, I)
    BY <1>0, <1>4, RunsExist
  <2>2. A(a)
    BY <1>9, <2>1
  <2> QED BY <2>2 DEF p
<1>11. p[0] = read(m, 0)
  BY <1>7, <1>10
<1>12. ASSUME NEW n \in 1 .. l
       PROVE p[n] = IF p[n - 1].err # "none" \/ p[n - 1].i >= Len(b) THEN p[n - 1]
                    ELSE turnWith(T, b, p[n - 1], inner(p[n - 1]))
  <2>1. n \in 0 .. Len(b) /\ n # 0
    BY <1>7
  <2>2. p[n] = IF p[n - 1].err # "none" \/ p[n - 1].i >= Len(b) THEN p[n - 1]
                ELSE turn(T, b, p[n - 1], readVarint(b, p[n - 1].i),
                          rawOf(fieldOf(T, fieldNum(readVarint(b, p[n - 1].i))), b, readVarint(b, p[n - 1].i).i),
                          inner(p[n - 1]))
    BY <1>10, <2>1
  <2> QED BY <1>6, <2>2
<1>13. DOMAIN p = 0 .. Len(b)
  BY <1>10
<1>14. p = [n \in 0 .. Len(b) |-> p[n]]
  BY <1>10
<1> HIDE DEF A
<1>15. ASSUME NEW r \in Results(Struct[T], Len(b)) PROVE stepAt(T, b, r, I) \in Results(Struct[T], Len(b))
  BY <1>0, <1>4, TurnTyped DEF stepAt
<1> DEFINE N == {n \in Nat : n <= l => p[n] \in Results(Struct[T], Len(b))}
<1>16. 0 \in N
  <2>1. 0 \in 0 .. Len(b)
    BY <1>7
  <2> QED BY <1>11, <2>1, ReadIsResult
<1>17. ASSUME NEW n \in N PROVE n + 1 \in N
  <2> SUFFICES ASSUME n + 1 <= l PROVE p[n + 1] \in Results(Struct[T], Len(b))
    OBVIOUS
  <2>1. n \in Nat /\ n <= l /\ p[n] \in Results(Struct[T], Len(b)) /\ n + 1 \in 1 .. l /\ (n + 1) - 1 = n
    OBVIOUS
  <2>2. p[n + 1] = stepAt(T, b, p[n], I)
    BY <1>8, <1>12, <2>1
  <2> QED BY <1>15, <2>1, <2>2
<1>18. N = Nat
  <2>1. N \in SUBSET Nat
    OBVIOUS
  <2> HIDE DEF N
  <2> QED BY <1>16, <1>17, <2>1, Induction
<1>19. ASSUME NEW n \in 0 .. l PROVE p[n] \in Results(Struct[T], Len(b))
  BY <1>18
<1>20. ASSUME NEW n \in 0 .. Len(b)
       PROVE  p[n] = IF n = 0 THEN read(m, 0) ELSE stepAt(T, b, p[n - 1], I)
  <2>1. CASE n = 0
    BY <1>11, <2>1
  <2>2. CASE n # 0
    <3>1. n \in 1 .. l /\ n - 1 \in 0 .. l
      BY <1>7, <2>2
    <3> QED BY <1>8, <1>12, <1>19, <2>2, <3>1
  <2> QED BY <2>1, <2>2
<1>21. Runs(p, T, m, b, I)
  BY <1>14, <1>20 DEF Runs
<1>22. outcome(p, b) \in Results(Struct[T], Len(b))
  <2>1. outcome(p, b) = p[Len(b)]
    BY <1>0, <1>4, <1>21, RunsTyped
  <2> QED BY <1>7, <1>19, <2>1
<1>23. result(p, b) = outcome(p, b)
  BY <1>21, EndIsOutcome
<1> QED BY <1>1, <1>4, <1>21, <1>22, <1>23 DEF Decoded, I

(* Unmarshal of any message is such a loop. *)
LEMMA Decoding2 ==
    ASSUME NEW T \in Readable, NEW m \in Struct[T], NEW b \in Data
    PROVE  Decoded(T, m, b, Into2(T), Unmarshal2(T, m, b))
<1>0. T \in Readable
  BY DEF Readable, Types
<1> DEFINE I == Into2(T)
           inner(r) == Unmarshal1(fieldAt(T, b, r).of, target(r.v, fieldAt(T, b, r)), rawAt(T, b, r).v)
           A(a) == a = [n \in 0 .. Len(b) |->
                          IF n = 0 THEN read(m, 0)
                          ELSE IF a[n - 1].err # "none" \/ a[n - 1].i >= Len(b) THEN a[n - 1]
                          ELSE turn(T, b, a[n - 1], readVarint(b, a[n - 1].i),
                                    rawOf(fieldOf(T, fieldNum(readVarint(b, a[n - 1].i))), b, readVarint(b, a[n - 1].i).i),
                                    inner(a[n - 1]))]
           p == CHOOSE a : A(a)
<1>1. Unmarshal2(T, m, b) = result(p, b)
  BY DEF Unmarshal2, unmarshalWith, stopped, endOfLoop, result, fieldAt, rawAt, keyAt
<1> HIDE DEF p
<1>3. ASSUME NEW U, NEW x, NEW d, <<U, x, d>> \in Args(T)
      PROVE  I[<<U, x, d>>] \in Results(Struct[U], Len(d)) /\ I[<<U, x, d>>] = Unmarshal1(U, x, d)
  <2>1. U \in Types0 \cup Types1 /\ x \in Struct[U] /\ d \in Data
    BY <1>3, ArgsAre, BelowReadable
  <2>2. Decoded(U, x, d, Into1(U), Unmarshal1(U, x, d))
    BY <2>1, Decoding1
  <2>3. I[<<U, x, d>>] = Unmarshal1(U, x, d)
    BY <1>3 DEF Into2
  <2> QED BY <2>2, <2>3 DEF Decoded
<1>4. Decodes(I, T)
  BY <1>3 DEF Decodes
<1> HIDE DEF I
<1>5. ASSUME NEW r \in Results(Struct[T], Len(b)), r.err = "none"
      PROVE  turnWith(T, b, r, inner(r)) = turnAt(T, b, r, I)
  <2>1. r.v \in Struct[T] /\ r.i \in Nat
    <3>1. r.v \in Struct[T] /\ r.i \in 0 .. Len(b)
      BY <1>5, ResultFacts
    <3> QED BY <3>1, DataFacts
  <2>2. Inside(T, b, r) =>
           inner(r) = I[<<fieldAt(T, b, r).of, target(r.v, fieldAt(T, b, r)), rawAt(T, b, r).v>>]
    BY <1>0, <1>3, <2>1, InsideArgs
  <2> QED BY <2>2, TurnIgnores DEF turnAt
<1>6. ASSUME NEW r PROVE turnWith(T, b, r, inner(r)) =
                turn(T, b, r, readVarint(b, r.i), rawOf(fieldOf(T, fieldNum(readVarint(b, r.i))), b, readVarint(b, r.i).i), inner(r))
  BY DEF turnWith, keyAt, rawAt, fieldAt
<1> HIDE DEF inner
<1>7. PICK l \in Nat : l = Len(b)
  BY DataFacts
<1>8. ASSUME NEW r \in Results(Struct[T], Len(b))
      PROVE  stepAt(T, b, r, I) =
                IF r.err # "none" \/ r.i >= Len(b) THEN r ELSE turnWith(T, b, r, inner(r))
  BY <1>5 DEF stepAt
<1>9. ASSUME NEW a, Runs(a, T, m, b, I) PROVE A(a)
  <2>1. \A n \in 0 .. Len(b) : a[n] \in Results(Struct[T], Len(b))
    BY <1>0, <1>4, <1>9, RunsTyped
  <2>2. ASSUME NEW n \in 0 .. Len(b), n # 0
        PROVE stepAt(T, b, a[n - 1], I) =
                IF a[n - 1].err # "none" \/ a[n - 1].i >= Len(b) THEN a[n - 1]
                ELSE turn(T, b, a[n - 1], readVarint(b, a[n - 1].i),
                          rawOf(fieldOf(T, fieldNum(readVarint(b, a[n - 1].i))), b, readVarint(b, a[n - 1].i).i),
                          inner(a[n - 1]))
    <3>1. n - 1 \in 0 .. Len(b)
      BY <1>7, <2>2
    <3> QED BY <1>6, <1>8, <2>1, <3>1
  <2> QED BY <1>9, <2>2 DEF Runs
<1>10. A(p)
  <2>1. PICK a : Runs(a, T, m, b, I)
    BY <1>0, <1>4, RunsExist
  <2>2. A(a)
    BY <1>9, <2>1
  <2> QED BY <2>2 DEF p
<1>11. p[0] = read(m, 0)
  BY <1>7, <1>10
<1>12. ASSUME NEW n \in 1 .. l
       PROVE p[n] = IF p[n - 1].err # "none" \/ p[n - 1].i >= Len(b) THEN p[n - 1]
                    ELSE turnWith(T, b, p[n - 1], inner(p[n - 1]))
  <2>1. n \in 0 .. Len(b) /\ n # 0
    BY <1>7
  <2>2. p[n] = IF p[n - 1].err # "none" \/ p[n - 1].i >= Len(b) THEN p[n - 1]
                ELSE turn(T, b, p[n - 1], readVarint(b, p[n - 1].i),
                          rawOf(fieldOf(T, fieldNum(readVarint(b, p[n - 1].i))), b, readVarint(b, p[n - 1].i).i),
                          inner(p[n - 1]))
    BY <1>10, <2>1
  <2> QED BY <1>6, <2>2
<1>13. DOMAIN p = 0 .. Len(b)
  BY <1>10
<1>14. p = [n \in 0 .. Len(b) |-> p[n]]
  BY <1>10
<1> HIDE DEF A
<1>15. ASSUME NEW r \in Results(Struct[T], Len(b)) PROVE stepAt(T, b, r, I) \in Results(Struct[T], Len(b))
  BY <1>0, <1>4, TurnTyped DEF stepAt
<1> DEFINE N == {n \in Nat : n <= l => p[n] \in Results(Struct[T], Len(b))}
<1>16. 0 \in N
  <2>1. 0 \in 0 .. Len(b)
    BY <1>7
  <2> QED BY <1>11, <2>1, ReadIsResult
<1>17. ASSUME NEW n \in N PROVE n + 1 \in N
  <2> SUFFICES ASSUME n + 1 <= l PROVE p[n + 1] \in Results(Struct[T], Len(b))
    OBVIOUS
  <2>1. n \in Nat /\ n <= l /\ p[n] \in Results(Struct[T], Len(b)) /\ n + 1 \in 1 .. l /\ (n + 1) - 1 = n
    OBVIOUS
  <2>2. p[n + 1] = stepAt(T, b, p[n], I)
    BY <1>8, <1>12, <2>1
  <2> QED BY <1>15, <2>1, <2>2
<1>18. N = Nat
  <2>1. N \in SUBSET Nat
    OBVIOUS
  <2> HIDE DEF N
  <2> QED BY <1>16, <1>17, <2>1, Induction
<1>19. ASSUME NEW n \in 0 .. l PROVE p[n] \in Results(Struct[T], Len(b))
  BY <1>18
<1>20. ASSUME NEW n \in 0 .. Len(b)
       PROVE  p[n] = IF n = 0 THEN read(m, 0) ELSE stepAt(T, b, p[n - 1], I)
  <2>1. CASE n = 0
    BY <1>11, <2>1
  <2>2. CASE n # 0
    <3>1. n \in 1 .. l /\ n - 1 \in 0 .. l
      BY <1>7, <2>2
    <3> QED BY <1>8, <1>12, <1>19, <2>2, <3>1
  <2> QED BY <2>1, <2>2
<1>21. Runs(p, T, m, b, I)
  BY <1>14, <1>20 DEF Runs
<1>22. outcome(p, b) \in Results(Struct[T], Len(b))
  <2>1. outcome(p, b) = p[Len(b)]
    BY <1>0, <1>4, <1>21, RunsTyped
  <2> QED BY <1>7, <1>19, <2>1
<1>23. result(p, b) = outcome(p, b)
  BY <1>21, EndIsOutcome
<1> QED BY <1>1, <1>4, <1>21, <1>22, <1>23 DEF Decoded, I

-----------------------------------------------------------------------------
(* Marshal and Unmarshal of whole messages. *)

(* A buffer of the size that was counted is filled, and nothing of it is left. *)
LEMMA MarshalOf ==
    ASSUME NEW d \in Seq(Byte), NEW n, n = Len(d)
    PROVE  filled(n, d) = d /\ SubSeq(d, 1, n) = d /\ d # Nil
<1>1. n \in Nat /\ DOMAIN d = 1 .. n
  BY LenProperties
<1>2. [k \in 1 .. n - Len(d) |-> 0] = <<>>
  BY <1>1
<1>3. <<>> \o d = d
  BY ConcatEmptySeq
<1>4. filled(n, d) = d
  BY <1>1, <1>2, <1>3 DEF filled
<1>5. SubSeq(d, 1, n) = d
  BY <1>1, SubSeqFull
<1>6. d # Nil
  BY NilAssumption
<1> QED BY <1>4, <1>5, <1>6

(* Marshal makes room for Size bytes, MarshalToSizedBuffer writes exactly that
   many of them from the end, and the result is not the nil of a failure. *)
THEOREM MarshalFillsSize ==
    ASSUME NEW T \in Types, NEW m \in Struct[T]
    PROVE  /\ Marshal(T, m) = MarshalToSizedBuffer(T, m)
           /\ MarshalToSizedBuffer(T, m) \in Seq(Byte)
           /\ Size(T, m) = Len(MarshalToSizedBuffer(T, m))
           /\ Marshal(T, m) # Nil
<1>1. T # "Message"
  BY DEF Types, Types0, Types1, Types2
<1>2. PICK d : d = MarshalToSizedBuffer(T, m)
  OBVIOUS
<1>3. d \in Seq(Byte) /\ Size2(T, m) = Len(d)
  BY <1>2, Coding2 DEF Coded
<1>4. Size(T, m) = Len(d)
  BY <1>1, <1>3 DEF Size
<1>5. filled(Len(d), d) = d /\ SubSeq(d, 1, Len(d)) = d /\ d # Nil
  BY <1>3, MarshalOf
<1>6. ~ (Len(d) > Len(d))
  BY <1>3, LenProperties
<1>7. Marshal(T, m) = d
  BY <1>1, <1>2, <1>4, <1>5, <1>6 DEF Marshal
<1> QED BY <1>2, <1>3, <1>4, <1>5, <1>7

(* The type and the message in a case of Message. *)
inCase(T) == IF T = "Message_Proposal" THEN "Proposal" ELSE "Vote"
caseKey(T) == IF T = "Message_Proposal" THEN 10 ELSE 18

(* A case is its key, its length and the message in it. *)
LEMMA CaseBytes ==
    ASSUME NEW T \in Cases, NEW m \in Struct[T], NEW U, U = inCase(T)
    PROVE  /\ U \in Types1 /\ m[U] \in Struct[U]
           /\ MarshalToSizedBuffer(T, m) = item(caseKey(T), Marshal1(U, m[U]))
           /\ Marshal1(U, m[U]) \in Seq(Byte)
<1>1. U \in Types1 /\ m[U] \in Struct[U] /\ m[U] # Nil
  <2>1. CASE T = "Message_Proposal"
    BY <2>1, NilAssumption DEF inCase, Struct, Message_ProposalStruct, Types1
  <2>2. CASE T = "Message_Vote"
    BY <2>2, NilAssumption DEF inCase, Struct, Message_VoteStruct, Types1
  <2> QED BY <2>1, <2>2 DEF Cases
<1>2. PICK f : f = Written[T][1]
  OBVIOUS
<1>3. /\ f.kind = "pointer" /\ f.key = caseKey(T) /\ f.name = U /\ f.of = U
      /\ Len(Written[T]) = 1
  <2>1. CASE T = "Message_Proposal"
    BY <1>2, <2>1 DEF inCase, caseKey, Written, MarshalMessage_Proposal, Pointer, field
  <2>2. CASE T = "Message_Vote"
    BY <1>2, <2>2 DEF inCase, caseKey, Written, MarshalMessage_Vote, Pointer, field
  <2> QED BY <2>1, <2>2 DEF Cases
<1>4. PICK a : Buffers(a, T, m, Inner2(T)) /\ MarshalToSizedBuffer(T, m) = a[1]
  BY <1>3, Coding2 DEF Coded
<1>5. Encodes(Inner2(T), T)
  BY Coding2 DEF Coded
<1>6. BuffersAre(a, T, m, Inner2(T), 1)
  BY <1>3, <1>4, <1>5, BuffersFacts
<1>7. PICK x : x = m[U]
  OBVIOUS
<1>8. a[1] = putField(<<>>, f, x, innerOf(f, x, Inner2(T)))
  <2>1. a[0] = <<>> /\ \A k \in 1 .. 1 :
          a[k] = putField(a[k - 1], Written[T][k], m[Written[T][k].name],
                          innerOf(Written[T][k], m[Written[T][k].name], Inner2(T)))
    BY <1>6 DEF BuffersAre
  <2>2. a[1] = putField(a[1 - 1], Written[T][1], m[Written[T][1].name],
                          innerOf(Written[T][1], m[Written[T][1].name], Inner2(T)))
    BY <2>1
  <2> QED BY <1>2, <1>3, <1>7, <2>1, <2>2
<1>9. parts(f, x) = <<x>>
  BY <1>1, <1>3, <1>7 DEF parts
<1>10. <<U, x>> \in Inners(T)
  BY <1>1, <1>7 DEF Inners, Below, Cases, Types0, Types1
<1>11. innerOf(f, x, Inner2(T)) = <<Marshal1(U, x)>>
  <2>1. Inner2(T)[<<U, x>>] = Marshal1(U, x)
    BY <1>10 DEF Inner2
  <2> QED BY <1>3, <1>9, <2>1 DEF innerOf
<1>12. PICK e : e = Marshal1(U, x)
  OBVIOUS
<1>13. e \in Seq(Byte)
  <2>1. Inner2(T)[<<U, x>>] \in Seq(Byte)
    BY <1>5, <1>10 DEF Encodes
  <2> QED BY <1>10, <1>12, <2>1 DEF Inner2
<1>14. caseKey(T) \in Byte
  BY DEF caseKey, Byte
<1>15. a[1] = putMessages(<<>>, caseKey(T), <<e>>, 1)
  <2>1. Len(parts(f, x)) = 1
    BY <1>9
  <2> QED BY <1>3, <1>8, <1>11, <1>12, <2>1 DEF putField
<1>16. <<>> \in Seq(Byte) /\ ByteStrings(<<e>>, 1)
  BY <1>13 DEF ByteStrings
<1>17. PICK p : Laid(p, <<>>, caseKey(T), <<e>>, 1)
  BY <1>14, <1>16, PutMessages
<1>18. a[1] = item(caseKey(T), e) \o <<>>
  <2>1. p[0] = <<>> /\ p[1] = putMessages(<<>>, caseKey(T), <<e>>, 1)
        /\ \A j \in 1 .. 1 : p[j] = item(caseKey(T), <<e>>[1 + 1 - j]) \o p[j - 1]
    BY <1>17 DEF Laid
  <2>2. p[1] = item(caseKey(T), <<e>>[1 + 1 - 1]) \o p[1 - 1]
    BY <2>1
  <2>3. <<e>>[1 + 1 - 1] = e /\ p[1 - 1] = <<>>
    BY <2>1
  <2> QED BY <1>15, <2>1, <2>2, <2>3
<1>19. item(caseKey(T), e) \in Seq(Byte)
  BY <1>13, <1>14, ItemFacts
<1>20. item(caseKey(T), e) \o <<>> = item(caseKey(T), e)
  BY <1>19, ConcatEmptySeq
<1> QED BY <1>1, <1>4, <1>7, <1>12, <1>13, <1>18, <1>20

(* And so is a Message. *)
LEMMA MessageBytes ==
    ASSUME NEW T \in Cases, NEW s \in Struct[T], NEW m \in MessageStruct, m.Sum = s, s.case = T,
           s # Nil
    PROVE  Marshal("Message", m) = item(caseKey(T), Marshal1(inCase(T), s[inCase(T)]))
<1>1. PICK d : d = MarshalToSizedBuffer(T, s)
  OBVIOUS
<1>2. d \in Seq(Byte) /\ Size2(T, s) = Len(d)
  BY <1>1, Coding2 DEF Coded
<1>3. filled(Len(d), d) = d /\ SubSeq(d, 1, Len(d)) = d /\ d # Nil
  BY <1>2, MarshalOf
<1>4. ~ (Len(d) > Len(d))
  BY <1>2, LenProperties
<1>5. MarshalMessage(m) = d /\ SizeMessage(m) = Len(d)
  BY <1>1, <1>2, <1>3 DEF MarshalMessage, SizeMessage
<1>6. Marshal("Message", m) = d
  BY <1>3, <1>4, <1>5 DEF Marshal, Size
<1> QED BY <1>1, <1>6, CaseBytes

(* Sequences with the same elements are the same. *)
LEMMA SameSeq ==
    ASSUME NEW s \in Seq(Byte), NEW t \in Seq(Byte), Len(s) = Len(t),
           \A k \in 1 .. Len(s) : s[k] = t[k]
    PROVE  s = t
<1>1. s = [k \in 1 .. Len(s) |-> s[k]] /\ t = [k \in 1 .. Len(s) |-> t[k]]
  BY LenProperties
<1> QED BY <1>1

(* What is in b at i is what a slice of b has there. *)
LEMMA HasSlice ==
    ASSUME NEW b \in Seq(Byte), NEW i \in Nat, NEW s \in Seq(Byte), Has(b, i, s)
    PROVE  SubSeq(b, i + 1, i + Len(s)) = s
<1>1. PICK n \in Nat : n = Len(s)
  BY LenProperties
<1>2. i + n <= Len(b) /\ (\A k \in 1 .. n : b[i + k] = s[k]) /\ Len(b) \in Nat
  BY <1>1, LenProperties DEF Has
<1>3. \A k \in i + 1 .. i + n : b[k] \in Byte
  <2>1. DOMAIN b = 1 .. Len(b) /\ \A k \in 1 .. Len(b) : b[k] \in Byte
    BY LenProperties
  <2> QED BY <1>1, <1>2, <2>1
<1>4. PICK t : t = SubSeq(b, i + 1, i + n)
  OBVIOUS
<1>5. /\ t \in Seq(Byte)
      /\ Len(t) = IF i + 1 <= i + n THEN (i + n) - (i + 1) + 1 ELSE 0
      /\ \A k \in 1 .. (i + n) - (i + 1) + 1 : t[k] = b[i + 1 + k - 1]
  BY <1>1, <1>3, <1>4, SubSeqProperties
<1>6. Len(t) = n
  BY <1>1, <1>5
<1>7. \A k \in 1 .. n : t[k] = s[k]
  <2>1. ASSUME NEW k \in 1 .. n PROVE t[k] = s[k]
    <3>1. k \in 1 .. (i + n) - (i + 1) + 1 /\ i + 1 + k - 1 = i + k
      BY <1>1
    <3>2. t[k] = b[i + 1 + k - 1]
      BY <1>5, <3>1
    <3> QED BY <1>2, <3>1, <3>2
  <2> QED BY <2>1
<1>8. t = s
  BY <1>1, <1>5, <1>6, <1>7, SameSeq
<1> QED BY <1>1, <1>4, <1>8

(* What is in b in two parts. *)
LEMMA HasConcat ==
    ASSUME NEW b \in Seq(Byte), NEW i \in Nat, NEW s \in Seq(Byte), NEW t \in Seq(Byte)
    PROVE  Has(b, i, s \o t) <=> Has(b, i, s) /\ Has(b, i + Len(s), t)
<1>1. PICK m \in Nat, n \in Nat, l \in Nat : m = Len(s) /\ n = Len(t) /\ l = Len(b)
  BY LenProperties
<1>2. PICK u : u = s \o t
  OBVIOUS
<1>3. /\ Len(u) = m + n
      /\ \A k \in 1 .. m : u[k] = s[k]
      /\ \A k \in 1 .. n : u[m + k] = t[k]
  BY <1>1, <1>2, Concat
<1>4. ASSUME Has(b, i, u) PROVE Has(b, i, s) /\ Has(b, i + m, t)
  <2>1. i + (m + n) <= l /\ \A k \in 1 .. m + n : b[i + k] = u[k]
    BY <1>1, <1>3, <1>4 DEF Has
  <2>2. \A k \in 1 .. m : b[i + k] = s[k]
    <3>1. ASSUME NEW k \in 1 .. m PROVE b[i + k] = s[k]
      <4>1. k \in 1 .. m + n
        BY <1>1
      <4> QED BY <1>3, <2>1, <4>1
    <3> QED BY <3>1
  <2>3. \A k \in 1 .. n : b[(i + m) + k] = t[k]
    <3>1. ASSUME NEW k \in 1 .. n PROVE b[(i + m) + k] = t[k]
      <4>1. m + k \in 1 .. m + n /\ (i + m) + k = i + (m + k)
        BY <1>1
      <4>2. b[i + (m + k)] = u[m + k] /\ u[m + k] = t[k]
        BY <1>3, <2>1, <4>1
      <4> QED BY <4>1, <4>2
    <3> QED BY <3>1
  <2>4. i + m <= l /\ (i + m) + n <= l
    BY <1>1, <2>1
  <2> QED BY <1>1, <2>2, <2>3, <2>4 DEF Has
<1>5. ASSUME Has(b, i, s), Has(b, i + m, t) PROVE Has(b, i, u)
  <2>1. i + m <= l /\ \A k \in 1 .. m : b[i + k] = s[k]
    BY <1>1, <1>5 DEF Has
  <2>2. (i + m) + n <= l /\ \A k \in 1 .. n : b[(i + m) + k] = t[k]
    BY <1>1, <1>5 DEF Has
  <2>3. i + (m + n) <= l
    BY <1>1, <2>2
  <2>4. ASSUME NEW k \in 1 .. m + n PROVE b[i + k] = u[k]
    <3>1. CASE k <= m
      <4>1. k \in 1 .. m
        BY <3>1
      <4> QED BY <1>3, <2>1, <4>1
    <3>2. CASE k > m
      <4>0. k - m \in 1 .. n /\ k = m + (k - m)
        BY <1>1, <3>2
      <4>1. PICK j \in 1 .. n : k = m + j
        BY <4>0
      <4>2. i + k = (i + m) + j
        BY <1>1, <4>1
      <4>3. b[(i + m) + j] = t[j] /\ u[m + j] = t[j]
        BY <1>3, <2>2, <4>1
      <4> QED BY <4>1, <4>2, <4>3
    <3> QED BY <1>1, <3>1, <3>2
  <2> QED BY <1>1, <1>3, <2>3, <2>4 DEF Has
<1> QED BY <1>1, <1>2, <1>4, <1>5

(* The parts of a byte string are in it. *)
LEMMA HasParts ==
    ASSUME NEW s \in Seq(Byte), NEW t \in Seq(Byte)
    PROVE  Has(s \o t, 0, s) /\ Has(s \o t, Len(s), t)
<1>1. Len(s) \in Nat /\ Len(t) \in Nat
  BY LenProperties
<1>2. PICK u : u = s \o t
  OBVIOUS
<1>3. u \in Seq(Byte) /\ Len(u) = Len(s) + Len(t)
  BY <1>2, Concat
<1>4. Has(u, 0, u)
  BY <1>1, <1>3 DEF Has
<1>5. Has(u, 0, s) /\ Has(u, 0 + Len(s), t)
  BY <1>2, <1>3, <1>4, HasConcat
<1> QED BY <1>1, <1>2, <1>5

(* The message in its field is found where it was put. *)
LEMMA ReadItem ==
    ASSUME NEW b \in Data, NEW i \in Nat, NEW key \in Byte, NEW e \in Seq(Byte),
           Has(b, i, item(key, e))
    PROVE  /\ b[i + 1] = key
           /\ readDelimited(b, i + 1) = read(e, i + Len(item(key, e)))
<1>1. PICK n : n = Len(e)
  OBVIOUS
<1>2. PICK g : g = groups(uint64(n))
  OBVIOUS
<1>3. n \in Nat /\ uint64(n) \in Nat /\ uint64(n) < Word
  BY <1>1, LenProperties, ConversionTypes
<1>4. g \in Seq(Byte) /\ Len(g) = sov(uint64(n)) /\ Len(g) \in Nat
  BY <1>2, <1>3, GroupsFacts
<1>5. <<key>> \in Seq(Byte) /\ Len(<<key>>) = 1 /\ <<key>>[1] = key
      /\ g \o e \in Seq(Byte) /\ Len(g \o e) = Len(g) + n
  BY <1>1, <1>4, One, Concat
<1>6. item(key, e) = <<key>> \o (g \o e)
  BY <1>1, <1>2 DEF item
<1>7. Len(item(key, e)) = 1 + (Len(g) + n)
  BY <1>5, <1>6, Concat
<1>8. b \in Seq(Byte) /\ Len(b) \in Nat /\ Len(b) < IntRange
  BY DataFacts
<1>9. Has(b, i, <<key>>) /\ Has(b, i + 1, g \o e)
  <2>1. PICK one \in Seq(Byte), rest \in Seq(Byte) : one = <<key>> /\ rest = g \o e
    BY <1>5
  <2>2. Has(b, i, one \o rest)
    BY <1>6, <2>1
  <2>3. Has(b, i, one) /\ Has(b, i + Len(one), rest)
    BY <1>8, <2>2, HasConcat
  <2> QED BY <1>5, <2>1, <2>3
<1>10. Has(b, i + 1, g) /\ Has(b, (i + 1) + Len(g), e)
  <2>1. PICK i1 \in Nat : i1 = i + 1
    OBVIOUS
  <2>2. Has(b, i1, g) /\ Has(b, i1 + Len(g), e)
    BY <1>4, <1>8, <1>9, <2>1, HasConcat
  <2> QED BY <2>1, <2>2
<1>11. b[i + 1] = key
  BY <1>5, <1>9 DEF Has
<1>12. PICK j \in Nat : j = (i + 1) + Len(g)
  BY <1>4
<1>13. j + n <= Len(b)
  BY <1>1, <1>10, <1>12 DEF Has
<1>14. n < IntRange /\ IntRange \in Nat /\ Word = 2 * IntRange
  BY <1>3, <1>8, <1>13, WordFacts
<1>15. uint64(n) = n /\ n < Word
  <2>1. n < Word
    BY <1>3, <1>14
  <2> QED BY <1>3, <2>1, SmallIsItself
<1>16. readVarint(b, i + 1) = read(n, j)
  BY <1>2, <1>3, <1>4, <1>8, <1>10, <1>12, <1>15, ReadBack
<1>17. j \in 0 .. Len(b) /\ n \in 0 .. Word - 1
  BY <1>3, <1>8, <1>13, <1>15, <1>14
<1>18. sliceOf(b, read(n, j)) = read(SubSeq(b, j + 1, j + n), j + n)
  BY <1>13, <1>14, <1>17, SliceOf
<1>19. SubSeq(b, j + 1, j + n) = e
  BY <1>1, <1>8, <1>10, <1>12, HasSlice
<1>20. j + n = i + Len(item(key, e))
  BY <1>3, <1>4, <1>7, <1>12
<1> QED BY <1>11, <1>16, <1>18, <1>19, <1>20 DEF readDelimited

(* Unmarshal of any slice gives a message of its type or an error, and does
   not panic. *)
THEOREM UnmarshalTyped ==
    ASSUME NEW T \in Readable, NEW b \in Data
    PROVE  Unmarshal(T, b) \in Results(Struct[T], Len(b))
<1>1. New(T) \in Struct[T]
  BY NewTyped
<1> QED BY <1>1, Decoding2 DEF Decoded, Unmarshal

-----------------------------------------------------------------------------
(* Reading back what was written. *)

(* A key below 128 is one byte. *)
LEMMA ReadKey ==
    ASSUME NEW b \in Seq(Byte), NEW i \in Nat, i + 1 <= Len(b), NEW key, key = b[i + 1], key < 128
    PROVE  readVarint(b, i) = read(key, i + 1)
<1>1. Len(b) \in Nat /\ key \in Nat /\ key < Word
  <2>1. Len(b) \in Nat /\ i + 1 \in 1 .. Len(b)
    BY LenProperties
  <2>2. b[i + 1] \in Byte
    BY <2>1, LenProperties
  <2>3. key \in 0 .. 255
    BY <2>2 DEF Byte
  <2>4. Word \in Nat /\ Word >= 256
    BY WordFacts
  <2>5. PICK w : w = Word
    OBVIOUS
  <2>6. key \in Nat
    <3>1. \A x \in 0 .. 255 : x \in Nat
      OBVIOUS
    <3> QED BY <2>3, <3>1
  <2>7. key < w
    BY <2>4, <2>5, <2>6
  <2>8. Len(b) \in Nat
    BY <2>1
  <2> QED BY <2>5, <2>6, <2>7, <2>8
<1>2. 1 \in varintEnds(b, i)
  <2>1. 1 \in 1 .. MaxGroups
    BY MaxGroupsNat
  <2> QED BY <2>1 DEF varintEnds
<1>3. \A k \in varintEnds(b, i) : 1 <= k
  BY MaxGroupsNat DEF varintEnds
<1>4. readVarint(b, i) = read(uint64(total(weights(b, i, 1), 1)), i + 1)
  BY <1>2, <1>3, ReadVarintAt
<1>5. PICK s : s = weights(b, i, 1)
  OBVIOUS
<1>6. s[1] = key
  <2>1. s[1] = (b[i + 1] % 128) * pow2[7 * (1 - 1)]
    BY <1>5 DEF weights
  <2>2. 7 * (1 - 1) = 0 /\ pow2[0] = 1
    BY PowStep
  <2>3. key % 128 = key
    BY <1>1
  <2> QED BY <1>1, <2>1, <2>2, <2>3
<1>7. total(s, 1) = key
  <2>1. \A k \in 1 .. 0 + 1 : s[k] \in Nat
    BY <1>1, <1>6
  <2>2. total(s, 0 + 1) = total(s, 0) + s[0 + 1]
    BY <2>1, TotalStep
  <2>3. total(s, 0) = 0
    BY TotalZero
  <2> QED BY <1>1, <1>6, <2>2, <2>3
<1>8. uint64(key) = key
  BY <1>1, SmallIsItself
<1> QED BY <1>4, <1>5, <1>7, <1>8

(* The key of field k of a type is the one Unmarshal looks for. *)
LEMMA KeyOfField ==
    ASSUME NEW k \in 1 .. 8, NEW w \in 0 .. 2, NEW i, NEW key, key = read(8 * k + w, i)
    PROVE  key.err = "none" /\ fieldNum(key) = k /\ key.v % 8 = w /\ key.i = i
<1>1. key.v = 8 * k + w /\ key.err = "none" /\ key.i = i
  BY DEF read
<1>2. (8 * k + w) \div 8 = k /\ (8 * k + w) % 8 = w
  BY DivUnique
<1>3. int32(k) = k
  BY HalfFacts, SmallIsItself
<1> QED BY <1>1, <1>2, <1>3 DEF fieldNum

(* A turn with a known field whose value can be read. *)
LEMMA TurnOfField ==
    ASSUME NEW T \in Readable, NEW k \in DOMAIN Expected[T], NEW f, f = Expected[T][k],
           NEW b \in Data, NEW x, NEW i \in Nat, i + 1 <= Len(b), b[i + 1] = 8 * k + WireType(f),
           NEW raw, raw = rawOf(f, b, i + 1), raw.err = "none", NEW I
    PROVE  turnAt(T, b, read(x, i), I) =
               [setField(x, f, raw.v, I[<<f.of, target(x, f), raw.v>>]) EXCEPT !.i = raw.i]
<1>1. k \in 1 .. 8
  BY Lengths
<1>2. WireType(f) \in 0 .. 2
  BY WireTypes
<1>3. PICK r : r = read(x, i)
  OBVIOUS
<1>4. r.i = i /\ r.v = x
  BY <1>3 DEF read
<1>5. PICK key : key = keyAt(b, r)
  OBVIOUS
<1>6. key = read(8 * k + WireType(f), i + 1)
  <2>1. b \in Seq(Byte) /\ 8 * k + WireType(f) < 128
    BY <1>1, <1>2, DataFacts
  <2> QED BY <1>4, <1>5, <2>1, ReadKey DEF keyAt
<1>7. key.err = "none" /\ fieldNum(key) = k /\ key.v % 8 = WireType(f) /\ key.i = i + 1
  BY <1>1, <1>2, <1>6, KeyOfField
<1>8. known(T, k) /\ fieldOf(T, k) = f
  BY <1>1, KnownFields
<1>9. fieldAt(T, b, r) = f /\ rawAt(T, b, r) = raw
  BY <1>5, <1>7, <1>8 DEF fieldAt, rawAt
<1>10. PICK inner : inner = I[<<f.of, target(x, f), raw.v>>]
  OBVIOUS
<1>11. turnAt(T, b, r, I) = turn(T, b, r, key, raw, inner)
  BY <1>4, <1>5, <1>9, <1>10 DEF turnAt, turnWith
<1>12. ~ (key.v % 8 = 4 \/ fieldNum(key) <= 0)
  BY <1>1, <1>2, <1>7
<1>13. turn(T, b, r, key, raw, inner) = [setField(x, f, raw.v, inner) EXCEPT !.i = raw.i]
  BY <1>4, <1>7, <1>8, <1>12 DEF turn
<1> QED BY <1>3, <1>10, <1>11, <1>13

(* What a field has in it is found again: J is what the messages in a message
   are marshalled to and I what their bytes are unmarshalled to. *)
RoundTrips(I, J, T) ==
    \A U, y : <<U, y>> \in Inners(T) /\ J[<<U, y>>] \in Data =>
        I[<<U, New(U), J[<<U, y>>]>>] = read(y, Len(J[<<U, y>>]))

(* The value of the field after j of the items of x. *)
after(f, x, j) == IF f.kind = "repeated" THEN SubSeq(x, 1, j) ELSE IF j = 0 THEN zeroOf(f) ELSE x

(* The field that Marshal writes and Unmarshal expects as number k. *)
Wire(T, k, f, g, x) ==
    /\ k \in DOMAIN Expected[T] /\ f = Expected[T][k]
    /\ g.kind = f.kind /\ g.name = f.name /\ g.of = f.of /\ g.key = 8 * k + WireType(f)
    /\ f.kind \in Kinds /\ Holds(f, x)

(* The item j + 1 of field k, read into a message with the first j items. *)
Turns(T, b, p, f, x, j, i, l, I) ==
    turnAt(T, b, read([p EXCEPT ![f.name] = after(f, x, j)], i), I) =
        read([p EXCEPT ![f.name] = after(f, x, j + 1)], i + l)

(* Setting a field twice is setting it to the second value. *)
LEMMA SetOnce ==
    ASSUME NEW p, NEW n, n \in DOMAIN p, NEW u, NEW v, p = [y \in DOMAIN p |-> p[y]]
    PROVE  [[p EXCEPT ![n] = u] EXCEPT ![n] = v] = [p EXCEPT ![n] = v]
           /\ [p EXCEPT ![n] = u][n] = u
OBVIOUS

(* What a turn with the item j + 1 of field k has to set. *)
Sets(p, f, x, j, data, inner) ==
    setField([p EXCEPT ![f.name] = after(f, x, j)], f, data, inner) =
        read([p EXCEPT ![f.name] = after(f, x, j + 1)], 0)

(* A result moved to another index. *)
LEMMA ReadWith ==
    ASSUME NEW v, NEW i, NEW r, r = read(v, 0)
    PROVE  [r EXCEPT !.i = i] = read(v, i)
BY DEF read

(* A turn whose raw value can be read sets the field to it. *)
LEMMA TurnSets ==
    ASSUME NEW T \in Types, NEW k, NEW f, NEW g, NEW x, Wire(T, k, f, g, x),
           NEW b \in Data, NEW p, NEW j, NEW i \in Nat, i + 1 <= Len(b), b[i + 1] = g.key,
           NEW raw, raw = rawOf(f, b, i + 1), raw.err = "none", NEW l, raw.i = i + l, NEW I,
           Sets(p, f, x, j, raw.v,
                I[<<f.of, target([p EXCEPT ![f.name] = after(f, x, j)], f), raw.v>>])
    PROVE  Turns(T, b, p, f, x, j, i, l, I)
<1>1. T \in Readable /\ k \in DOMAIN Expected[T] /\ f = Expected[T][k] /\ b[i + 1] = 8 * k + WireType(f)
  BY DEF Wire, Readable
<1>2. PICK q : q = [p EXCEPT ![f.name] = after(f, x, j)]
  OBVIOUS
<1>3. turnAt(T, b, read(q, i), I) =
         [setField(q, f, raw.v, I[<<f.of, target(q, f), raw.v>>]) EXCEPT !.i = raw.i]
  BY <1>1, TurnOfField
<1>4. PICK s : s = setField(q, f, raw.v, I[<<f.of, target(q, f), raw.v>>])
  OBVIOUS
<1>5. s = read([p EXCEPT ![f.name] = after(f, x, j + 1)], 0)
  BY <1>2, <1>4 DEF Sets
<1>6. [s EXCEPT !.i = raw.i] = read([p EXCEPT ![f.name] = after(f, x, j + 1)], raw.i)
  <2>1. PICK v : v = [p EXCEPT ![f.name] = after(f, x, j + 1)]
    OBVIOUS
  <2>2. s = read(v, 0)
    BY <1>5, <2>1
  <2>3. PICK e : e = raw.i
    OBVIOUS
  <2>4. [s EXCEPT !.i = e] = read(v, e)
    BY <2>2, ReadWith
  <2> QED BY <2>1, <2>3, <2>4
<1> QED BY <1>2, <1>3, <1>4, <1>6 DEF Turns

(* The first byte of an item is its key. *)
LEMMA KeyFirst ==
    ASSUME NEW b \in Seq(Byte), NEW i \in Nat, NEW key \in Byte, NEW s \in Seq(Byte),
           Has(b, i, <<key>> \o s)
    PROVE  i + 1 <= Len(b) /\ b[i + 1] = key /\ Has(b, i + 1, s) /\ Len(<<key>> \o s) = 1 + Len(s)
<1>1. <<key>> \in Seq(Byte) /\ Len(<<key>>) = 1 /\ <<key>>[1] = key
  BY One
<1>2. Has(b, i, <<key>>) /\ Has(b, i + Len(<<key>>), s)
  BY <1>1, HasConcat
<1>3. Has(b, i + 1, s)
  BY <1>1, <1>2
<1>4. i + 1 <= Len(b) /\ b[i + 1] = key
  BY <1>1, <1>2 DEF Has
<1>5. Len(<<key>> \o s) = 1 + Len(s)
  BY <1>1, Concat
<1> QED BY <1>3, <1>4, <1>5

(* A message that is being filled: a function on the names of its fields. *)
Frame(p, f) == f.name \in DOMAIN p /\ p = [y \in DOMAIN p |-> p[y]]

(* Setting the field of a message again forgets what it held. *)
LEMMA SetAgain ==
    ASSUME NEW p, NEW f, Frame(p, f), NEW u, NEW q, q = [p EXCEPT ![f.name] = u]
    PROVE  /\ q[f.name] = u
           /\ \A v : [q EXCEPT ![f.name] = v] = [p EXCEPT ![f.name] = v]
BY DEF Frame

(* A field of a number or of bytes is set to what was read. *)
LEMMA SetsScalar ==
    ASSUME NEW p, NEW f, Frame(p, f), NEW x, f.kind \in Numbers \cup {"bytes"}, NEW data, NEW inner,
           f.kind = "int32" => int32(data) = x,
           f.kind \in {"int64", "sfixed64"} => int64(data) = x,
           f.kind = "bytes" => data = x
    PROVE  Sets(p, f, x, 0, data, inner)
<1>1. after(f, x, 0 + 1) = x
  BY DEF after, Numbers
<1>2. PICK q : q = [p EXCEPT ![f.name] = after(f, x, 0)]
  OBVIOUS
<1>3. [q EXCEPT ![f.name] = x] = [p EXCEPT ![f.name] = x]
  BY <1>2, SetAgain
<1>4. CASE f.kind = "int32"
  BY <1>1, <1>2, <1>3, <1>4 DEF Sets, setField
<1>5. CASE f.kind = "int64"
  BY <1>1, <1>2, <1>3, <1>5 DEF Sets, setField
<1>6. CASE f.kind = "sfixed64"
  BY <1>1, <1>2, <1>3, <1>6 DEF Sets, setField
<1>7. CASE f.kind = "bytes"
  BY <1>1, <1>2, <1>3, <1>7 DEF Sets, setField
<1> QED BY <1>4, <1>5, <1>6, <1>7 DEF Numbers

(* What an item of field k is read to. *)
Item(T, b, p, f, g, x, inner, j, i, I) ==
    Has(b, i, itemOf(g, x, inner, j + 1)) =>
        Turns(T, b, p, f, x, j, i, Len(itemOf(g, x, inner, j + 1)), I)

(* A turn reads the item of an int32 or int64 field. *)
LEMMA ItemOfVarint ==
    ASSUME NEW T \in Types, NEW k, NEW f, NEW g, NEW x, Wire(T, k, f, g, x),
           f.kind \in {"int32", "int64"}, g.key \in Byte,
           NEW b \in Data, NEW p, Frame(p, f), NEW inner, NEW i \in Nat, NEW I
    PROVE  Item(T, b, p, f, g, x, inner, 0, i, I)
<1> SUFFICES ASSUME Has(b, i, itemOf(g, x, inner, 0 + 1))
             PROVE  Turns(T, b, p, f, x, 0, i, Len(itemOf(g, x, inner, 0 + 1)), I)
  BY DEF Item
<1>1. itemOf(g, x, inner, 0 + 1) = <<g.key>> \o groups(uint64(x))
  BY DEF itemOf, Wire
<1>2. x \in Int64s /\ (f.kind = "int32" => x \in Int32s) /\ x \in Int
  BY HalfFacts, WordFacts DEF Wire, Holds, Int32s, Int64s
<1>3. PICK v : v = uint64(x)
  OBVIOUS
<1>4. v \in Nat /\ v < Word
  BY <1>2, <1>3, ConversionTypes
<1>5. groups(v) \in Seq(Byte) /\ Len(groups(v)) = sov(v)
  BY <1>4, GroupsFacts
<1>6. b \in Seq(Byte)
  BY DataFacts
<1>7. i + 1 <= Len(b) /\ b[i + 1] = g.key /\ Has(b, i + 1, groups(v))
      /\ Len(<<g.key>> \o groups(v)) = 1 + sov(v)
  <2>1. PICK s : s = groups(v)
    OBVIOUS
  <2>2. s \in Seq(Byte) /\ Len(s) = sov(v)
    BY <1>5, <2>1
  <2>3. Has(b, i, <<g.key>> \o s)
    BY <1>1, <1>3, <2>1
  <2>4. PICK key : key = g.key
    OBVIOUS
  <2>5. i + 1 <= Len(b) /\ b[i + 1] = key /\ Has(b, i + 1, s) /\ Len(<<key>> \o s) = 1 + Len(s)
    BY <1>6, <2>2, <2>3, <2>4, KeyFirst
  <2> QED BY <2>1, <2>2, <2>4, <2>5
<1>8. readVarint(b, i + 1) = read(v, (i + 1) + sov(v))
  BY <1>4, <1>6, <1>7, ReadBack
<1>9. rawOf(f, b, i + 1) = read(v, (i + 1) + sov(v))
  <2>1. WireType(f) = 0
    BY WireTypes
  <2> QED BY <1>8, <2>1 DEF rawOf
<1>10. PICK raw : raw = rawOf(f, b, i + 1)
  OBVIOUS
<1>11. raw.err = "none" /\ raw.v = v /\ raw.i = (i + 1) + sov(v)
  BY <1>9, <1>10 DEF read
<1>12. PICK l : l = Len(itemOf(g, x, inner, 0 + 1))
  OBVIOUS
<1>13. raw.i = i + l
  <2>1. sov(v) \in Nat
    BY <1>4, GroupsFacts
  <2>2. l = 1 + sov(v)
    BY <1>1, <1>3, <1>7, <1>12
  <2> QED BY <1>11, <2>1, <2>2
<1>14. \A in : Sets(p, f, x, 0, raw.v, in)
  <2>1. f.kind = "int32" => int32(raw.v) = x
    BY <1>2, <1>3, <1>11, Int32Back
  <2>2. int64(raw.v) = x
    BY <1>2, <1>3, <1>11, Int64Back
  <2>3. f.kind \in Numbers \cup {"bytes"}
    BY DEF Numbers
  <2> QED BY <2>1, <2>2, <2>3, SetsScalar
<1> QED BY <1>7, <1>10, <1>11, <1>12, <1>13, <1>14, TurnSets

(* A turn reads the item of a sfixed64 field. *)
LEMMA ItemOfFixed ==
    ASSUME NEW T \in Types, NEW k, NEW f, NEW g, NEW x, Wire(T, k, f, g, x),
           f.kind = "sfixed64", g.key \in Byte,
           NEW b \in Data, NEW p, Frame(p, f), NEW inner, NEW i \in Nat, NEW I
    PROVE  Item(T, b, p, f, g, x, inner, 0, i, I)
<1> SUFFICES ASSUME Has(b, i, itemOf(g, x, inner, 0 + 1))
             PROVE  Turns(T, b, p, f, x, 0, i, Len(itemOf(g, x, inner, 0 + 1)), I)
  BY DEF Item
<1>1. itemOf(g, x, inner, 0 + 1) = <<g.key>> \o fixed64(x)
  BY DEF itemOf, Wire
<1>2. x \in Int64s /\ x \in Int
  BY HalfFacts, WordFacts DEF Wire, Holds, Int64s
<1>3. PICK s : s = fixed64(x)
  OBVIOUS
<1>4. s \in Seq(Byte) /\ Len(s) = WordBytes /\ WordBytes \in Nat
  BY <1>2, <1>3, Fixed64Facts, WordBytesNat
<1>5. b \in Seq(Byte)
  BY DataFacts
<1>6. PICK key : key = g.key
  OBVIOUS
<1>7. Has(b, i, <<key>> \o s)
  BY <1>1, <1>3, <1>6
<1>8. i + 1 <= Len(b) /\ b[i + 1] = key /\ Has(b, i + 1, s) /\ Len(<<key>> \o s) = 1 + WordBytes
  BY <1>4, <1>5, <1>6, <1>7, KeyFirst
<1>9. readFixed64(b, i + 1) = read(uint64(x), (i + 1) + WordBytes)
  BY <1>2, <1>3, <1>5, <1>8, ReadFixed64Back
<1>10. PICK raw : raw = rawOf(f, b, i + 1)
  OBVIOUS
<1>11. raw = read(uint64(x), (i + 1) + WordBytes)
  <2>1. WireType(f) = 1
    BY WireTypes
  <2> QED BY <1>9, <1>10, <2>1 DEF rawOf
<1>12. raw.err = "none" /\ raw.v = uint64(x) /\ raw.i = (i + 1) + WordBytes
  BY <1>11 DEF read
<1>13. PICK l : l = Len(itemOf(g, x, inner, 0 + 1))
  OBVIOUS
<1>14. raw.i = i + l
  <2>1. l = 1 + WordBytes
    BY <1>1, <1>3, <1>6, <1>8, <1>13
  <2> QED BY <1>4, <1>12, <2>1
<1>15. \A in : Sets(p, f, x, 0, raw.v, in)
  <2>1. int64(raw.v) = x
    BY <1>2, <1>12, Int64Back
  <2>2. f.kind \in Numbers \cup {"bytes"}
    BY DEF Numbers
  <2> QED BY <2>1, <2>2, SetsScalar
<1> QED BY <1>6, <1>8, <1>10, <1>12, <1>13, <1>14, <1>15, TurnSets

(* The bytes of an item with a length are read as a slice. *)
LEMMA DelimitedAt ==
    ASSUME NEW b \in Data, NEW i \in Nat, NEW key \in Byte, NEW e \in Seq(Byte), NEW l,
           Has(b, i, item(key, e)), l = Len(item(key, e)),
           NEW f, f.kind \notin Numbers
    PROVE  /\ i + 1 <= Len(b) /\ b[i + 1] = key
           /\ rawOf(f, b, i + 1) = read(e, i + l)
           /\ e \in Data
<1>1. b[i + 1] = key /\ readDelimited(b, i + 1) = read(e, i + l)
  BY ReadItem
<1>2. rawOf(f, b, i + 1) = readDelimited(b, i + 1)
  BY WireTypes DEF rawOf
<1>3. Len(b) \in Nat /\ Len(b) < IntRange /\ b \in Seq(Byte)
  BY DataFacts
<1>4. item(key, e) \in Seq(Byte) /\ l = delimited(1, Len(e))
  BY ItemFacts
<1>5. Len(e) \in Nat
  BY LenProperties
<1>6. uint64(Len(e)) \in Nat
  <2>1. Len(e) \in Int
    BY <1>5
  <2> QED BY <2>1, ConversionTypes
<1>7. sov(uint64(Len(e))) \in Nat
  BY <1>6, SovIs DEF Sevens
<1>8. l = 1 + Len(e) + sov(uint64(Len(e)))
  BY <1>4 DEF delimited
<1>9. i + l <= Len(b)
  BY DEF Has
<1>10. i + 1 <= Len(b) /\ Len(e) < IntRange
  <2>1. PICK n : n = sov(uint64(Len(e)))
    OBVIOUS
  <2>2. PICK h : h = Len(e)
    OBVIOUS
  <2>3. PICK w : w = IntRange
    OBVIOUS
  <2>4. w \in Nat
    BY <2>3, WordFacts
  <2>5. n \in Nat /\ h \in Nat /\ l = 1 + h + n
    BY <1>5, <1>7, <1>8, <2>1, <2>2
  <2>6. Len(b) < w
    BY <1>3, <2>3
  <2>7. i + 1 <= Len(b) /\ h < w
    BY <1>3, <1>9, <2>4, <2>5, <2>6
  <2> QED BY <2>2, <2>3, <2>7
<1> QED BY <1>1, <1>2, <1>10 DEF Data

(* A turn reads the item of a bytes field. *)
LEMMA ItemOfBytesField ==
    ASSUME NEW T \in Types, NEW k, NEW f, NEW g, NEW x, Wire(T, k, f, g, x),
           f.kind = "bytes", g.key \in Byte,
           NEW b \in Data, NEW p, Frame(p, f), NEW inner, NEW i \in Nat, NEW I
    PROVE  Item(T, b, p, f, g, x, inner, 0, i, I)
<1> SUFFICES ASSUME Has(b, i, itemOf(g, x, inner, 0 + 1))
             PROVE  Turns(T, b, p, f, x, 0, i, Len(itemOf(g, x, inner, 0 + 1)), I)
  BY DEF Item
<1>1. itemOf(g, x, inner, 0 + 1) = item(g.key, x)
  BY DEF itemOf, Wire, Numbers
<1>2. x \in Seq(Byte) /\ f.kind \notin Numbers
  BY DEF Wire, Holds, Numbers
<1>3. PICK l : l = Len(itemOf(g, x, inner, 0 + 1))
  OBVIOUS
<1>4. PICK key : key = g.key
  OBVIOUS
<1>5. Has(b, i, item(key, x)) /\ l = Len(item(key, x))
  BY <1>1, <1>3, <1>4
<1>6. i + 1 <= Len(b) /\ b[i + 1] = key /\ rawOf(f, b, i + 1) = read(x, i + l)
  BY <1>2, <1>4, <1>5, DelimitedAt
<1>7. PICK raw : raw = rawOf(f, b, i + 1)
  OBVIOUS
<1>8. raw.err = "none" /\ raw.v = x /\ raw.i = i + l
  BY <1>6, <1>7 DEF read
<1>9. \A in : Sets(p, f, x, 0, raw.v, in)
  <2>1. f.kind \in Numbers \cup {"bytes"} /\ f.kind # "int32" /\ f.kind \notin {"int64", "sfixed64"}
    OBVIOUS
  <2> QED BY <1>8, <2>1, SetsScalar
<1> QED BY <1>3, <1>4, <1>6, <1>7, <1>8, <1>9, TurnSets

(* A message in a field is added to those before it, or takes the place of the
   one that was not there. *)
LEMMA SetsMessage ==
    ASSUME NEW p, NEW f, Frame(p, f), NEW x, f.kind \in {"repeated"} \cup Messages1,
           Holds(f, x), NEW j \in 0 .. Len(parts(f, x)) - 1, NEW y, y = parts(f, x)[j + 1],
           NEW data, NEW l
    PROVE  Sets(p, f, x, j, data, read(y, l))
<1>1. PICK q : q = [p EXCEPT ![f.name] = after(f, x, j)]
  OBVIOUS
<1>2. q[f.name] = after(f, x, j) /\ \A v : [q EXCEPT ![f.name] = v] = [p EXCEPT ![f.name] = v]
  <2>1. PICK u : u = after(f, x, j)
    OBVIOUS
  <2>2. q = [p EXCEPT ![f.name] = u]
    BY <1>1, <2>1
  <2> QED BY <2>1, <2>2 DEF Frame
<1>3. PICK inner : inner = read(y, l)
  OBVIOUS
<1>4. inner.err = "none" /\ inner.v = y
  BY <1>3 DEF read
<1>5. setField(q, f, data, inner) = setMessage(q, f, inner)
  BY DEF setField, Messages1
<1>6. CASE f.kind = "repeated"
  <2>1. parts(f, x) = x /\ x \in Seq(Struct[f.of])
    BY <1>6 DEF parts, Holds
  <2>2. j + 1 \in 1 .. Len(x) /\ j \in Nat
    BY <2>1, LenProperties
  <2>3. Append(SubSeq(x, 1, j), y) = SubSeq(x, 1, j + 1)
    <3>1. PICK S : S = Struct[f.of]
      OBVIOUS
    <3>2. x \in Seq(S) /\ y = x[j + 1]
      BY <2>1, <3>1
    <3>3. DOMAIN x = 1 .. Len(x) /\ Len(x) \in Nat
      BY <3>2, LenProperties
    <3>4. SubSeq(x, 1, j) = [n \in 1 .. j |-> x[n]] /\ Len(SubSeq(x, 1, j)) = j
      BY <2>2, <3>2, <3>3, SubSeqProperties
    <3>5. SubSeq(x, 1, j + 1) = [n \in 1 .. j + 1 |-> x[n]] /\ Len(SubSeq(x, 1, j + 1)) = j + 1
      BY <2>2, <3>2, <3>3, SubSeqProperties
    <3> QED BY <2>2, <3>2, <3>3, <3>4, <3>5
  <2>4. setMessage(q, f, inner) = read([q EXCEPT ![f.name] = Append(q[f.name], y)], 0)
    BY <1>4, <1>6 DEF setMessage
  <2>5. after(f, x, j) = SubSeq(x, 1, j) /\ after(f, x, j + 1) = SubSeq(x, 1, j + 1)
    BY <1>6 DEF after
  <2> QED BY <1>1, <1>2, <1>3, <1>5, <2>3, <2>4, <2>5 DEF Sets
<1>7. CASE f.kind # "repeated"
  <2>1. j = 0 /\ y = x
    BY <1>7 DEF parts, Messages1
  <2>2. after(f, x, j + 1) = x
    BY <1>7, <2>1 DEF after
  <2>3. f.kind = "stdtime" => validTimestamp(y)
    BY <2>1 DEF validTimestamp, Holds
  <2>4. setMessage(q, f, inner) = read([q EXCEPT ![f.name] = y], 0)
    BY <1>4, <1>7, <2>3 DEF setMessage, Messages1
  <2> QED BY <1>1, <1>2, <1>3, <1>5, <2>1, <2>2, <2>4 DEF Sets
<1> QED BY <1>6, <1>7

(* A nested message is read into a new one, unless the field is written
   twice. *)
LEMMA TargetIsNew ==
    ASSUME NEW T \in Types, NEW k, NEW f, NEW g, NEW x, Wire(T, k, f, g, x),
           f.kind \in {"repeated"} \cup Messages1, NEW p, Frame(p, f),
           NEW j \in 0 .. Len(parts(f, x)) - 1, NEW q, q = [p EXCEPT ![f.name] = after(f, x, j)]
    PROVE  target(q, f) = New(f.of)
<1>1. q[f.name] = after(f, x, j)
  <2>1. PICK u : u = after(f, x, j)
    OBVIOUS
  <2>2. q = [p EXCEPT ![f.name] = u]
    BY <2>1
  <2> QED BY <2>1, <2>2 DEF Frame
<1>2. CASE f.kind = "message"
  <2>1. j = 0
    BY <1>2 DEF parts
  <2>2. WireType(f) = 2
    BY <1>2, WireTypes DEF Numbers
  <2>3. after(f, x, j) = New0(f.of)
    BY <1>2, <2>1, <2>2 DEF after, zeroOf
  <2>4. f.of \in Types0
    <3>1. T \in Readable
      BY DEF Readable
    <3>2. k \in DOMAIN Expected[T] /\ f = Expected[T][k]
      BY DEF Wire
    <3> QED BY <1>2, <3>1, <3>2, ExpectedFields DEF Expecting
  <2> QED BY <1>1, <1>2, <2>3, <2>4, NewIsNew0 DEF target
<1>3. CASE f.kind = "pointer"
  <2>1. j = 0
    BY <1>3 DEF parts
  <2>2. WireType(f) = 2
    BY <1>3, WireTypes DEF Numbers
  <2>3. after(f, x, j) = Nil
    BY <1>3, <2>1, <2>2 DEF after, zeroOf
  <2> QED BY <1>1, <1>3, <2>3 DEF target
<1>4. CASE f.kind \in {"repeated", "stdtime"}
  BY <1>4 DEF target
<1> QED BY <1>2, <1>3, <1>4 DEF Messages1

(* A turn reads the item of a field of messages. *)
LEMMA ItemOfMessage ==
    ASSUME NEW T \in Types, NEW k, NEW f, NEW g, NEW x, Wire(T, k, f, g, x),
           f.kind \in {"repeated"} \cup Messages1, g.key \in Byte,
           NEW b \in Data, NEW p, Frame(p, f), NEW I, NEW J, RoundTrips(I, J, T),
           NEW inner, InnersAre(T, g, x, J), inner = innerOf(g, x, J),
           NEW i \in Nat, NEW j \in 0 .. Len(parts(f, x)) - 1
    PROVE  Item(T, b, p, f, g, x, inner, j, i, I)
<1> SUFFICES ASSUME Has(b, i, itemOf(g, x, inner, j + 1))
             PROVE  Turns(T, b, p, f, x, j, i, Len(itemOf(g, x, inner, j + 1)), I)
  BY DEF Item
<1>1. f.kind \notin Numbers /\ f.kind # "bytes" /\ g.kind = f.kind /\ g.of = f.of
  BY DEF Messages1, Numbers, Wire
<1>2. PICK e : e = inner[j + 1]
  OBVIOUS
<1>3. itemOf(g, x, inner, j + 1) = item(g.key, e)
  BY <1>1, <1>2 DEF itemOf, Numbers
<1>4. parts(g, x) = parts(f, x)
  BY <1>1 DEF parts
<1>5. Len(parts(f, x)) \in Nat
  <2>1. f.kind = "stdtime" => f.of = "Timestamp"
    <3>1. T \in Readable /\ k \in DOMAIN Expected[T] /\ f = Expected[T][k]
      BY DEF Readable, Wire
    <3> QED BY <3>1, ExpectedFields DEF Expecting
  <2>2. f.kind \in Kinds /\ Holds(f, x)
    BY DEF Wire
  <2> QED BY <2>1, <2>2, PartsFacts
<1>6. j + 1 \in 1 .. Len(parts(g, x))
  BY <1>4, <1>5
<1>7. PICK y : y = parts(f, x)[j + 1]
  OBVIOUS
<1>8. <<f.of, y>> \in Inners(T) /\ e = J[<<f.of, y>>]
  BY <1>1, <1>2, <1>4, <1>6, <1>7 DEF InnersAre
<1>9. e \in Seq(Byte)
  BY <1>2, <1>6 DEF InnersAre, Putting
<1>10. PICK l : l = Len(itemOf(g, x, inner, j + 1))
  OBVIOUS
<1>11. PICK key : key = g.key
  OBVIOUS
<1>12. Has(b, i, item(key, e)) /\ l = Len(item(key, e))
  BY <1>3, <1>10, <1>11
<1>13. i + 1 <= Len(b) /\ b[i + 1] = key /\ rawOf(f, b, i + 1) = read(e, i + l) /\ e \in Data
  BY <1>1, <1>9, <1>11, <1>12, DelimitedAt
<1>14. PICK raw : raw = rawOf(f, b, i + 1)
  OBVIOUS
<1>15. raw.err = "none" /\ raw.v = e /\ raw.i = i + l
  BY <1>13, <1>14 DEF read
<1>16. PICK q : q = [p EXCEPT ![f.name] = after(f, x, j)]
  OBVIOUS
<1>17. target(q, f) = New(f.of)
  BY <1>16, TargetIsNew
<1>18. I[<<f.of, New(f.of), e>>] = read(y, Len(e))
  BY <1>8, <1>13 DEF RoundTrips
<1>19. Sets(p, f, x, j, raw.v, read(y, Len(e)))
  <2>1. Holds(f, x)
    BY DEF Wire
  <2> QED BY <1>7, <2>1, SetsMessage
<1>20. Sets(p, f, x, j, raw.v, I[<<f.of, target([p EXCEPT ![f.name] = after(f, x, j)], f), raw.v>>])
  BY <1>15, <1>16, <1>17, <1>18, <1>19
<1> QED BY <1>10, <1>11, <1>13, <1>14, <1>15, <1>20, TurnSets

-----------------------------------------------------------------------------
(* The loop of Unmarshal on bytes that were written. *)

(* What is known of the states of the loop. *)
Loop(a, T, b, I) == \A n \in 1 .. Len(b) : a[n] = stepAt(T, b, a[n - 1], I)

(* The loop gets to index i with p. *)
Reached(a, p, i) == \E t \in 0 .. i : a[t] = read(p, i)

(* A turn that reads an item moves the loop past it. *)
LEMMA Advance ==
    ASSUME NEW T, NEW b, Len(b) \in Nat, NEW a, NEW I, Loop(a, T, b, I), NEW p, NEW i \in Nat,
           Reached(a, p, i), NEW l \in Nat, l >= 1, i + l <= Len(b), NEW q,
           turnAt(T, b, read(p, i), I) = read(q, i + l)
    PROVE  Reached(a, q, i + l)
<1>1. PICK t \in 0 .. i : a[t] = read(p, i)
  BY DEF Reached
<1>2. t + 1 \in 1 .. Len(b) /\ (t + 1) - 1 = t /\ t + 1 \in 0 .. i + l
  OBVIOUS
<1>3. a[t + 1] = stepAt(T, b, a[t], I)
  <2>1. PICK n : n = t + 1
    OBVIOUS
  <2>2. n \in 1 .. Len(b) /\ n - 1 = t
    BY <1>2, <2>1
  <2> QED BY <2>1, <2>2 DEF Loop
<1>4. read(p, i).err = "none" /\ read(p, i).i = i /\ ~ (i >= Len(b))
  BY DEF read
<1>5. stepAt(T, b, a[t], I) = turnAt(T, b, read(p, i), I)
  BY <1>1, <1>4 DEF stepAt
<1> QED BY <1>2, <1>3, <1>5 DEF Reached

Ended(b, r) == r.err # "none" \/ r.i >= Len(b)

(* A loop that has ended stays as it is. *)
LEMMA Stays ==
    ASSUME NEW T, NEW b, Len(b) \in Nat, NEW a, NEW I, Loop(a, T, b, I), NEW t \in 0 .. Len(b),
           NEW r, a[t] = r, Ended(b, r)
    PROVE  a[Len(b)] = r
<1> DEFINE S == {n \in Nat : t <= n /\ n <= Len(b) => a[n] = r}
<1>1. 0 \in S
  <2>1. t <= 0 => t = 0
    OBVIOUS
  <2> QED BY <2>1
<1>2. \A n \in S : n + 1 \in S
  <2> SUFFICES ASSUME NEW n \in S, t <= n + 1, n + 1 <= Len(b) PROVE a[n + 1] = r
    OBVIOUS
  <2>1. CASE t = n + 1
    BY <2>1
  <2>2. CASE t # n + 1
    <3>1. t <= n /\ n <= Len(b) /\ n \in Nat
      BY <2>2
    <3>2. a[n] = r
      BY <3>1
    <3>3. PICK h : h = n + 1
      OBVIOUS
    <3>4. h \in 1 .. Len(b) /\ h - 1 = n
      BY <3>1, <3>3
    <3>5. a[h] = stepAt(T, b, a[n], I)
      BY <3>4 DEF Loop
    <3> QED BY <3>2, <3>3, <3>5 DEF stepAt, Ended
  <2> QED BY <2>1, <2>2
<1>3. S \in SUBSET Nat
  OBVIOUS
<1> HIDE DEF S
<1>4. S = Nat
  BY <1>1, <1>2, <1>3, Induction
<1>5. Len(b) \in S
  BY <1>4
<1> QED BY <1>5 DEF S

(* A loop at the end of the buffer is done. *)
LEMMA Finish ==
    ASSUME NEW T, NEW b, Len(b) \in Nat, NEW a, NEW I, Loop(a, T, b, I), NEW p,
           Reached(a, p, Len(b))
    PROVE  a[Len(b)] = read(p, Len(b)) /\ outcome(a, b) = read(p, Len(b))
<1>1. PICK r : r = read(p, Len(b))
  OBVIOUS
<1>2. PICK t \in 0 .. Len(b) : a[t] = r
  BY <1>1 DEF Reached
<1>3. r.i = Len(b) /\ r.err = "none"
  BY <1>1 DEF read
<1>4. a[Len(b)] = r
  <2>1. Len(b) >= Len(b)
    OBVIOUS
  <2>2. Ended(b, r)
    BY <1>3, <2>1 DEF Ended
  <2>3. t \in 0 .. Len(b) /\ a[t] = r
    BY <1>2
  <2> QED BY <2>2, <2>3, Stays
<1> QED BY <1>1, <1>3, <1>4 DEF outcome

(* A turn that fails is the last one. *)
LEMMA Fails ==
    ASSUME NEW T, NEW b, Len(b) \in Nat, NEW a, NEW I, Loop(a, T, b, I), NEW p, NEW i \in Nat,
           Reached(a, p, i), i < Len(b), NEW r, turnAt(T, b, read(p, i), I) = r, r.err # "none"
    PROVE  outcome(a, b) = r
<1>1. PICK t \in 0 .. i : a[t] = read(p, i)
  BY DEF Reached
<1>2. PICK n : n = t + 1
  OBVIOUS
<1>3. n \in 1 .. Len(b) /\ n - 1 = t /\ n \in 0 .. Len(b)
  BY <1>2
<1>4. a[n] = stepAt(T, b, a[t], I)
  BY <1>3 DEF Loop
<1>5. read(p, i).err = "none" /\ read(p, i).i = i /\ ~ (i >= Len(b))
  BY DEF read
<1>6. a[n] = r
  BY <1>1, <1>4, <1>5 DEF stepAt
<1>7. a[Len(b)] = r
  <2>1. Ended(b, r)
    BY DEF Ended
  <2>2. n \in 0 .. Len(b)
    BY <1>3
  <2> QED BY <1>6, <2>1, <2>2, Stays
<1> QED BY <1>7 DEF outcome

(* What is known of a field that is being read: J is what the messages in it
   were marshalled to. *)
Reading(T, k, f, g, x, p, I, J, inner) ==
    /\ Wire(T, k, f, g, x) /\ g.key \in 1 .. 127 /\ Frame(p, f) /\ RoundTrips(I, J, T)
    /\ InnersAre(T, g, x, J) /\ inner = innerOf(g, x, J)

(* A turn reads any item of a field. *)
LEMMA ItemsRead ==
    ASSUME NEW T \in Types, NEW k, NEW f, NEW g, NEW x, NEW p, NEW I, NEW J, NEW inner,
           Reading(T, k, f, g, x, p, I, J, inner), NEW b \in Data, NEW i \in Nat,
           NEW j \in 0 .. count(g, x) - 1
    PROVE  Item(T, b, p, f, g, x, inner, j, i, I)
<1>1. Wire(T, k, f, g, x) /\ Frame(p, f) /\ RoundTrips(I, J, T) /\ InnersAre(T, g, x, J)
      /\ inner = innerOf(g, x, J)
  BY DEF Reading
<1>2. g.key \in Byte
  BY DEF Reading, Byte
<1>3. f.kind \in Kinds /\ g.kind = f.kind
  BY <1>1 DEF Wire
<1>4. CASE f.kind \in {"int32", "int64"}
  <2>1. j = 0
    BY <1>3, <1>4 DEF count, Numbers
  <2> QED BY <1>1, <1>2, <1>4, <2>1, ItemOfVarint
<1>5. CASE f.kind = "sfixed64"
  <2>1. j = 0
    BY <1>3, <1>5 DEF count, Numbers
  <2> QED BY <1>1, <1>2, <1>5, <2>1, ItemOfFixed
<1>6. CASE f.kind = "bytes"
  <2>1. j = 0
    BY <1>3, <1>6 DEF count, Numbers
  <2> QED BY <1>1, <1>2, <1>6, <2>1, ItemOfBytesField
<1>7. CASE f.kind \in {"repeated"} \cup Messages1
  <2>1. count(g, x) = Len(parts(f, x))
    BY <1>3, <1>7 DEF count, Numbers, Messages1, parts
  <2> QED BY <1>1, <1>2, <1>7, <2>1, ItemOfMessage
<1> QED BY <1>3, <1>4, <1>5, <1>6, <1>7 DEF Kinds, Numbers

(* The loop stands before the last bytes c of the first n of b. *)
Before(a, b, n, p, c) == Len(c) <= n /\ Has(b, n - Len(c), c) /\ Reached(a, p, n - Len(c))

(* Before the first item of a field it holds its zero. *)
LEMMA AfterNone ==
    ASSUME NEW T, NEW k, NEW f, NEW g, NEW x, Wire(T, k, f, g, x)
    PROVE  after(f, x, 0) = zeroOf(f)
<1>1. CASE f.kind = "repeated"
  <2>1. x \in Seq(Struct[f.of])
    BY <1>1 DEF Wire, Holds
  <2>2. SubSeq(x, 1, 0) = <<>>
    BY <2>1, EmptySeq, SubSeqProperties
  <2>3. WireType(f) = 2
    BY <1>1, WireTypes DEF Numbers
  <2> QED BY <1>1, <2>2, <2>3 DEF after, zeroOf
<1>2. CASE f.kind # "repeated"
  BY <1>2 DEF after
<1> QED BY <1>1, <1>2

(* With all its items read, a field has its value. *)
LEMMA AfterAll ==
    ASSUME NEW T, NEW k, NEW f, NEW g, NEW x, Wire(T, k, f, g, x)
    PROVE  after(f, x, count(g, x)) = x
<1>1. g.kind = f.kind /\ f.kind \in Kinds /\ Holds(f, x)
  BY DEF Wire
<1>2. CASE f.kind = "repeated"
  <2>1. x \in Seq(Struct[f.of])
    BY <1>1, <1>2 DEF Holds
  <2>2. count(g, x) = Len(x)
    BY <1>1, <1>2 DEF count, Numbers, parts
  <2>3. SubSeq(x, 1, Len(x)) = x
    <3>1. PICK S : S = Struct[f.of]
      OBVIOUS
    <3>2. x \in Seq(S)
      BY <2>1, <3>1
    <3>3. Len(x) \in Nat /\ DOMAIN x = 1 .. Len(x)
      BY <3>2, LenProperties
    <3>4. x = [n \in 1 .. Len(x) |-> x[n]]
      BY <3>2, <3>3
    <3>5. SubSeq(x, 1, Len(x)) = [n \in 1 .. Len(x) |-> x[n]]
      BY <3>2, <3>3, SubSeqProperties
    <3> QED BY <3>4, <3>5
  <2> QED BY <1>2, <2>2, <2>3 DEF after
<1>3. CASE f.kind \in Numbers
  <2>1. WireType(f) < 2 /\ count(g, x) = IF x = 0 THEN 0 ELSE 1
    BY <1>1, <1>3, WireTypes DEF count, Numbers
  <2>2. f.kind # "repeated"
    BY <1>3 DEF Numbers
  <2> QED BY <2>1, <2>2 DEF after, zeroOf
<1>4. CASE f.kind = "bytes"
  <2>1. WireType(f) = 2 /\ count(g, x) = IF Len(x) = 0 THEN 0 ELSE 1
    BY <1>1, <1>4, WireTypes DEF count, Numbers
  <2>2. Len(x) = 0 => x = <<>>
    BY <1>1, <1>4, EmptySeq DEF Holds
  <2> QED BY <1>4, <2>1, <2>2 DEF after, zeroOf
<1>5. CASE f.kind = "pointer"
  <2>1. WireType(f) = 2 /\ count(g, x) = IF x = Nil THEN 0 ELSE 1
    BY <1>1, <1>5, WireTypes DEF count, Numbers, parts
  <2> QED BY <1>5, <2>1 DEF after, zeroOf
<1>6. CASE f.kind \in {"stdtime", "message"}
  <2>1. count(g, x) = 1
    BY <1>1, <1>6 DEF count, Numbers, parts
  <2> QED BY <1>6, <2>1 DEF after
<1> QED BY <1>1, <1>2, <1>3, <1>4, <1>5, <1>6 DEF Kinds, Messages1

(* One more item is read. *)
LEMMA NextItem ==
    ASSUME NEW T \in Types, NEW k, NEW f, NEW g, NEW x, NEW p, NEW I, NEW J, NEW inner,
           Reading(T, k, f, g, x, p, I, J, inner), NEW b \in Data, NEW a, Loop(a, T, b, I),
           NEW d, NEW r, Chain(r, g, x, inner, d), NEW n \in Nat, n <= Len(b),
           NEW j \in Nat, j < count(g, x), count(g, x) \in Nat,
           Before(a, b, n, [p EXCEPT ![f.name] = after(f, x, j)], r[j])
    PROVE  Before(a, b, n, [p EXCEPT ![f.name] = after(f, x, j + 1)], r[j + 1])
<1>1. j \in 0 .. count(g, x) - 1 /\ j + 1 \in 0 .. count(g, x) /\ j + 1 \in 1 .. count(g, x)
      /\ j \in 0 .. count(g, x)
  OBVIOUS
<1>2. PICK s : s = itemOf(g, x, inner, j + 1)
  OBVIOUS
<1>3. PICK c : c = r[j + 1]
  OBVIOUS
<1>4. r[j] = s \o c /\ c \in Seq(Byte)
  BY <1>1, <1>2, <1>3 DEF Chain
<1>5. s \in Seq(Byte) /\ Len(s) >= 1
  <2>1. Putting(g, x, inner)
    BY DEF Reading, InnersAre
  <2> QED BY <1>1, <1>2, <2>1, ItemOfBytes
<1>6. Len(s \o c) = Len(s) + Len(c) /\ Len(s) \in Nat /\ Len(c) \in Nat
  BY <1>4, <1>5, Concat
<1>7. b \in Seq(Byte) /\ Len(b) \in Nat
  BY DataFacts
<1>8. PICK i : i = n - Len(s \o c)
  OBVIOUS
<1>9. PICK l : l = Len(s)
  OBVIOUS
<1>10. Len(s \o c) <= n /\ Has(b, i, s \o c)
       /\ Reached(a, [p EXCEPT ![f.name] = after(f, x, j)], i)
  BY <1>4, <1>8 DEF Before
<1>11. i \in Nat /\ l \in Nat /\ l >= 1 /\ i + l = n - Len(c) /\ Len(c) <= n /\ i + l <= Len(b)
  BY <1>5, <1>6, <1>7, <1>8, <1>9, <1>10
<1>12. Has(b, i, s) /\ Has(b, i + l, c)
  BY <1>4, <1>5, <1>7, <1>9, <1>10, <1>11, HasConcat
<1>13. Item(T, b, p, f, g, x, inner, j, i, I)
  BY <1>1, <1>11, ItemsRead
<1>14. Turns(T, b, p, f, x, j, i, l, I)
  BY <1>2, <1>9, <1>12, <1>13 DEF Item
<1>15. PICK q : q = [p EXCEPT ![f.name] = after(f, x, j)]
  OBVIOUS
<1>16. PICK h : h = [p EXCEPT ![f.name] = after(f, x, j + 1)]
  OBVIOUS
<1>17. turnAt(T, b, read(q, i), I) = read(h, i + l)
  BY <1>14, <1>15, <1>16 DEF Turns
<1>18. Reached(a, h, i + l)
  <2>1. Reached(a, q, i)
    BY <1>10, <1>15
  <2> QED BY <1>7, <1>11, <1>17, <2>1, Advance
<1>19. Before(a, b, n, h, c)
  BY <1>11, <1>12, <1>18 DEF Before
<1> QED BY <1>3, <1>16, <1>19

(* All of them are. *)
LEMMA FieldRead ==
    ASSUME NEW T \in Types, NEW k, NEW f, NEW g, NEW x, NEW p, NEW I, NEW J, NEW inner,
           Reading(T, k, f, g, x, p, I, J, inner), NEW b \in Data, NEW a, Loop(a, T, b, I),
           NEW d, NEW c, Items(g, x, inner, d, c), NEW n \in Nat, n <= Len(b),
           count(g, x) \in Nat, p[f.name] = zeroOf(f), Before(a, b, n, p, c)
    PROVE  Before(a, b, n, [p EXCEPT ![f.name] = x], d)
<1>1. PICK r : Chain(r, g, x, inner, d) /\ r[0] = c
  BY DEF Items
<1> DEFINE At(j) == Before(a, b, n, [p EXCEPT ![f.name] = after(f, x, j)], r[j])
           S == {j \in Nat : j <= count(g, x) => At(j)}
<1>2. 0 \in S
  <2>1. after(f, x, 0) = zeroOf(f)
    BY AfterNone DEF Reading
  <2>2. [p EXCEPT ![f.name] = after(f, x, 0)] = p
    <3>1. Frame(p, f)
      BY DEF Reading
    <3> QED BY <2>1, <3>1 DEF Frame
  <2>3. At(0)
    BY <1>1, <2>2
  <2> QED BY <2>3
<1>3. \A j \in S : j + 1 \in S
  <2> SUFFICES ASSUME NEW j \in S PROVE j + 1 \in S
    OBVIOUS
  <2> HIDE DEF At
  <2>1. j \in Nat /\ j + 1 \in Nat /\ (j <= count(g, x) => At(j))
    OBVIOUS
  <2>2. ASSUME j + 1 <= count(g, x) PROVE At(j + 1)
    <3>1. j < count(g, x) /\ j <= count(g, x)
      BY <2>1, <2>2
    <3>2. At(j)
      BY <2>1, <3>1
    <3> QED BY <1>1, <2>1, <3>1, <3>2, NextItem DEF At
  <2> QED BY <2>1, <2>2
<1>4. S \in SUBSET Nat
  OBVIOUS
<1> HIDE DEF S
<1>5. S = Nat
  BY <1>2, <1>3, <1>4, Induction
<1>6. At(count(g, x))
  <2>1. count(g, x) \in S
    BY <1>5
  <2> QED BY <2>1 DEF S
<1>7. r[count(g, x)] = d
  BY <1>1 DEF Chain
<1>8. after(f, x, count(g, x)) = x
  BY AfterAll DEF Reading
<1> QED BY <1>6, <1>7, <1>8

(* The first k fields of q are those of m, the others are still zero. *)
Partial(q, T, m, k) ==
    /\ q = [y \in Names(Expected[T]) |-> q[y]]
    /\ \A j \in DOMAIN Expected[T] :
          q[Expected[T][j].name] =
              IF j <= k THEN m[Expected[T][j].name] ELSE zeroOf(Expected[T][j])

(* A new message agrees with any message on no fields. *)
LEMMA PartialNone == ASSUME NEW T \in Types, NEW m PROVE Partial(New(T), T, m, 0)
<1>1. T \in Readable
  BY DEF Readable
<1>2. Zeros(New(T), T)
  BY <1>1, NewZeros
<1>3. \A j \in DOMAIN Expected[T] : ~ (j <= 0)
  <2>1. DOMAIN Expected[T] = 1 .. Len(Expected[T]) /\ Len(Expected[T]) \in 1 .. 8
    BY <1>1, Lengths
  <2> QED BY <2>1
<1> QED BY <1>2, <1>3 DEF Partial, Zeros

(* A message that agrees with another on all fields is the other. *)
LEMMA PartialAll ==
    ASSUME NEW T \in Types, NEW m \in Struct[T], NEW q, Partial(q, T, m, Len(Written[T]))
    PROVE  q = m
<1>1. DOMAIN Expected[T] = 1 .. Len(Written[T])
  BY Keys DEF Matches
<1>2. Len(Written[T]) \in Nat
  BY Tables DEF Agree
<1>3. \A j \in DOMAIN Expected[T] : q[Expected[T][j].name] = m[Expected[T][j].name]
  <2> SUFFICES ASSUME NEW j \in DOMAIN Expected[T]
               PROVE  q[Expected[T][j].name] = m[Expected[T][j].name]
    OBVIOUS
  <2>1. j <= Len(Written[T])
    BY <1>1, <1>2
  <2> QED BY <2>1 DEF Partial
<1>4. \A y \in Names(Expected[T]) : q[y] = m[y]
  BY <1>3 DEF Names
<1>5. m = [y \in Names(Expected[T]) |-> m[y]]
  <2>1. T \in Types \cup {"Message"}
    OBVIOUS
  <2> QED BY <2>1, StructIs
<1> QED BY <1>4, <1>5 DEF Partial

(* With the next field set, a message agrees on one field more. *)
LEMMA PartialNext ==
    ASSUME NEW T \in Types, NEW m, NEW q, NEW k \in Nat, Partial(q, T, m, k),
           k + 1 \in DOMAIN Expected[T], NEW f, f = Expected[T][k + 1]
    PROVE  /\ q[f.name] = zeroOf(f) /\ Frame(q, f)
           /\ Partial([q EXCEPT ![f.name] = m[f.name]], T, m, k + 1)
<1>1. \A j \in DOMAIN Expected[T] : Expected[T][j].name = f.name => j = k + 1
  <2>1. Matches(Expected[T], Written[T])
    BY Keys
  <2> QED BY <2>1 DEF Matches
<1>2. DOMAIN Expected[T] \subseteq Nat
  <2>1. T \in Readable
    BY DEF Readable
  <2>2. DOMAIN Expected[T] = 1 .. Len(Expected[T]) /\ Len(Expected[T]) \in 1 .. 8
    BY <2>1, Lengths
  <2> QED BY <2>2
<1>3. DOMAIN q = Names(Expected[T]) /\ f.name \in Names(Expected[T])
  BY DEF Partial, Names
<1>4. q[f.name] = zeroOf(f)
  <2>1. ~ (k + 1 <= k)
    OBVIOUS
  <2> QED BY <2>1 DEF Partial
<1>5. Frame(q, f)
  BY <1>3 DEF Frame, Partial
<1>6. PICK h : h = [q EXCEPT ![f.name] = m[f.name]]
  OBVIOUS
<1>7. h = [y \in Names(Expected[T]) |-> h[y]]
  BY <1>3, <1>6
<1>8. ASSUME NEW j \in DOMAIN Expected[T]
      PROVE  h[Expected[T][j].name] =
                IF j <= k + 1 THEN m[Expected[T][j].name] ELSE zeroOf(Expected[T][j])
  <2>1. CASE j = k + 1
    BY <1>3, <1>6, <2>1
  <2>2. CASE j # k + 1
    <3>1. Expected[T][j].name # f.name /\ Expected[T][j].name \in Names(Expected[T])
      BY <1>1, <2>2 DEF Names
    <3>2. h[Expected[T][j].name] = q[Expected[T][j].name]
      BY <1>3, <1>6, <3>1
    <3>3. j <= k + 1 <=> j <= k
      BY <1>2, <2>2
    <3> QED BY <3>2, <3>3 DEF Partial
  <2> QED BY <2>1, <2>2
<1> QED BY <1>4, <1>5, <1>6, <1>7, <1>8 DEF Partial

(* A field has a number of items. *)
LEMMA CountNat ==
    ASSUME NEW f, NEW x, f.kind \in Kinds, Holds(f, x), f.kind = "stdtime" => f.of = "Timestamp"
    PROVE  count(f, x) \in Nat
BY PartsFacts DEF count

(* What is known of field k of a message. *)
FieldIs(T, k, f, g, m, p, I, J) ==
    /\ Reading(T, k, f, g, m[f.name], p, I, J, innerOf(g, m[f.name], J))
    /\ count(g, m[f.name]) \in Nat /\ g.name = f.name

(* The facts about the k-th field of a message that is read back. *)
LEMMA FieldOfMessage ==
    ASSUME NEW T \in Types, NEW m \in Struct[T], NEW k \in 1 .. Len(Written[T]),
           NEW J, Encodes(J, T), NEW I, RoundTrips(I, J, T),
           NEW f, f = Expected[T][k], NEW w, w = Len(Written[T]) + 1 - k, NEW g, g = Written[T][w],
           NEW p, Frame(p, f)
    PROVE  FieldIs(T, k, f, g, m, p, I, J)
<1>1. PICK N : N = Len(Written[T])
  OBVIOUS
<1>2. Matches(Expected[T], Written[T])
  BY Keys
<1>3. k \in DOMAIN Expected[T] /\ Alike(f, g) /\ g.key = 8 * k + WireType(f)
  BY <1>1, <1>2 DEF Matches
<1>4. N \in Nat
  BY <1>1, Tables DEF Agree
<1>6. w \in 1 .. N /\ N + 1 - w = k /\ g = Written[T][w]
  BY <1>1, <1>4
<1>7. Field(T, g, Counted[T][k], m)
  <2>1. T \in Types \cup Cases
    OBVIOUS
  <2>2. Field(T, Written[T][w], Counted[T][N + 1 - w], m)
    BY <1>1, <1>6, <2>1, FieldFacts
  <2> QED BY <1>6, <2>2
<1>8. InnersAre(T, g, m[g.name], J)
  BY <1>7, InnerFacts
<1>9. g.name = f.name /\ g.kind = f.kind /\ g.of = f.of
  BY <1>3 DEF Alike
<1>10. Holds(g, m[g.name]) /\ g.kind \in Kinds /\ g.key \in 1 .. 127
       /\ (g.kind = "stdtime" => g.of = "Timestamp")
  BY <1>7 DEF Field
<1>11. Holds(f, m[f.name])
  BY <1>9, <1>10 DEF Holds
<1>12. Wire(T, k, f, g, m[f.name])
  BY <1>3, <1>9, <1>10, <1>11 DEF Wire
<1>13. count(g, m[f.name]) \in Nat
  BY <1>9, <1>10, CountNat
<1> QED BY <1>8, <1>9, <1>10, <1>12, <1>13 DEF Reading, FieldIs

(* Unmarshal reads the fields of m back from the bytes c that they were put to. *)
LEMMA MessageRead ==
    ASSUME NEW T \in Types, NEW m \in Struct[T], NEW J, Encodes(J, T), NEW I, RoundTrips(I, J, T),
           NEW bufs, Buffers(bufs, T, m, J), NEW c, c = bufs[Len(Written[T])],
           NEW b \in Data, Has(b, 0, c), NEW a, Loop(a, T, b, I), a[0] = read(New(T), 0)
    PROVE  Reached(a, m, Len(c))
<1>1. PICK N : N = Len(Written[T])
  OBVIOUS
<1>2. N \in Nat
  BY <1>1, Tables DEF Agree
<1>3. BuffersAre(bufs, T, m, J, N)
  <2>1. T \in Types \cup Cases
    OBVIOUS
  <2> QED BY <1>1, <2>1, BuffersFacts
<1>4. c = bufs[N] /\ c \in Seq(Byte) /\ Len(c) \in Nat
  <2>1. N \in 0 .. N
    BY <1>2
  <2>2. c = bufs[N] /\ c \in Seq(Byte)
    BY <1>1, <1>3, <2>1 DEF BuffersAre
  <2> QED BY <2>2, LenProperties
<1>5. PICK n : n = Len(c)
  OBVIOUS
<1>6. b \in Seq(Byte) /\ Len(b) \in Nat /\ n \in Nat /\ n <= Len(b)
  <2>1. 0 + Len(c) <= Len(b)
    BY DEF Has
  <2> QED BY <1>4, <1>5, <2>1, DataFacts
<1> DEFINE At(k) == \E q : Partial(q, T, m, k) /\ Before(a, b, n, q, bufs[N - k])
           S == {k \in Nat : k <= N => At(k)}
<1>7. 0 \in S
  <2>1. Partial(New(T), T, m, 0)
    BY PartialNone
  <2>2. N - 0 = N /\ n - Len(c) = 0 /\ Len(c) <= n /\ 0 \in 0 .. 0
    BY <1>2, <1>4, <1>5
  <2>3. Reached(a, New(T), 0)
    BY <2>2 DEF Reached
  <2>4. Before(a, b, n, New(T), c)
    BY <2>2, <2>3 DEF Before
  <2>5. At(0)
    BY <1>4, <2>1, <2>2, <2>4
  <2> QED BY <2>5
<1>8. \A k \in S : k + 1 \in S
  <2> SUFFICES ASSUME NEW k \in S PROVE k + 1 \in S
    OBVIOUS
  <2> HIDE DEF At
  <2>1. k \in Nat /\ k + 1 \in Nat /\ (k <= N => At(k))
    OBVIOUS
  <2>2. ASSUME k + 1 <= N PROVE At(k + 1)
    <3>1. k <= N /\ k + 1 \in 1 .. N /\ N - k \in 1 .. N /\ (N + 1) - (k + 1) = N - k
          /\ (N - k) - 1 = N - (k + 1)
      BY <1>2, <2>1, <2>2
    <3>2. PICK q : Partial(q, T, m, k) /\ Before(a, b, n, q, bufs[N - k])
      BY <2>1, <3>1 DEF At
    <3>3. PICK i : i = k + 1
      OBVIOUS
    <3>4. PICK w : w = N - k
      OBVIOUS
    <3>5. i \in 1 .. N /\ w \in 1 .. N /\ w = N + 1 - i /\ w - 1 = N - i
      BY <1>2, <2>1, <3>1, <3>3, <3>4
    <3>6. PICK f : f = Expected[T][i]
      OBVIOUS
    <3>7. PICK g : g = Written[T][w]
      OBVIOUS
    <3>8. i \in DOMAIN Expected[T]
      <4>1. Matches(Expected[T], Written[T])
        BY Keys
      <4> QED BY <1>1, <3>5, <4>1 DEF Matches
    <3>9. q[f.name] = zeroOf(f) /\ Frame(q, f) /\ Partial([q EXCEPT ![f.name] = m[f.name]], T, m, i)
      BY <2>1, <3>2, <3>3, <3>6, <3>8, PartialNext
    <3>10. PICK x : x = m[f.name]
      OBVIOUS
    <3>11. PICK inner : inner = innerOf(g, x, J)
      OBVIOUS
    <3>12. Reading(T, i, f, g, x, q, I, J, inner) /\ count(g, x) \in Nat /\ g.name = f.name
      <4>1. i \in 1 .. Len(Written[T]) /\ w = Len(Written[T]) + 1 - i
        BY <1>1, <3>5
      <4>2. FieldIs(T, i, f, g, m, q, I, J)
        BY <3>6, <3>7, <3>9, <4>1, FieldOfMessage
      <4> QED BY <3>10, <3>11, <4>2 DEF FieldIs
    <3>13. PICK d : d = bufs[w - 1]
      OBVIOUS
    <3>14. d \in Seq(Byte) /\ bufs[w] = putField(d, g, x, inner)
      <4>1. w - 1 \in 0 .. N
        BY <1>2, <3>5
      <4> QED BY <1>3, <3>5, <3>7, <3>10, <3>11, <3>12, <3>13, <4>1 DEF BuffersAre
    <3>15. Items(g, x, inner, d, bufs[w])
      <4>1. Putting(g, x, inner)
        BY <3>12 DEF Reading, InnersAre
      <4> QED BY <3>14, <4>1, PutField
    <3>16. Before(a, b, n, [q EXCEPT ![f.name] = x], d)
      <4>1. Before(a, b, n, q, bufs[w])
        BY <3>2, <3>4
      <4> QED BY <1>6, <3>9, <3>12, <3>15, <4>1, FieldRead
    <3>17. d = bufs[N - i]
      BY <3>5, <3>13
    <3>18. At(i)
      BY <3>9, <3>10, <3>16, <3>17 DEF At
    <3> QED BY <3>3, <3>18
  <2> QED BY <2>1, <2>2
<1>9. S \in SUBSET Nat
  OBVIOUS
<1> HIDE DEF S
<1>10. S = Nat
  BY <1>7, <1>8, <1>9, Induction
<1>11. At(N)
  <2>1. N \in S /\ N <= N
    BY <1>2, <1>10
  <2> QED BY <2>1 DEF S
<1>12. PICK q : Partial(q, T, m, N) /\ Before(a, b, n, q, bufs[N - N])
  BY <1>11
<1>13. q = m
  BY <1>1, <1>12, PartialAll
<1>14. N - N = 0 /\ bufs[0] = <<>> /\ Len(<<>>) = 0
  BY <1>2, <1>3 DEF BuffersAre
<1>15. n - Len(bufs[N - N]) = n
  BY <1>6, <1>14
<1> QED BY <1>5, <1>12, <1>13, <1>15 DEF Before

(* The run of Unmarshal on bytes that begin with those of m. *)
Begun(a, T, m, c, b, I, o) ==
    Loop(a, T, b, I) /\ Reached(a, m, Len(c)) /\ o = outcome(a, b)

(* The loop of Unmarshal reads what Marshal wrote at the front of a buffer. *)
LEMMA WholeRead ==
    ASSUME NEW T \in Types, NEW m \in Struct[T], NEW J, NEW c, NEW s, Coded(T, m, J, c, s),
           NEW b \in Data, Has(b, 0, c), NEW I, NEW o, Decoded(T, New(T), b, I, o),
           RoundTrips(I, J, T)
    PROVE  \E a : Begun(a, T, m, c, b, I, o)
<1>1. T \in Readable
  BY DEF Readable
<1>2. PICK bufs : Buffers(bufs, T, m, J) /\ c = bufs[Len(Written[T])]
  BY DEF Coded
<1>3. Encodes(J, T) /\ Decodes(I, T)
  BY DEF Coded, Decoded
<1>4. PICK a : Runs(a, T, New(T), b, I) /\ o = outcome(a, b)
  BY DEF Decoded
<1>5. New(T) \in Struct[T]
  BY <1>1, NewTyped
<1>6. a[0] = read(New(T), 0) /\ \A n \in 1 .. Len(b) : a[n] = stepAt(T, b, a[n - 1], I)
  BY <1>1, <1>3, <1>4, <1>5, RunsTyped
<1>7. Loop(a, T, b, I)
  BY <1>6 DEF Loop
<1>8. Reached(a, m, Len(c))
  BY <1>2, <1>3, <1>6, <1>7, MessageRead
<1> QED BY <1>4, <1>7, <1>8 DEF Begun

(* Nothing follows. *)
LEMMA ExactRead ==
    ASSUME NEW T \in Types, NEW m \in Struct[T], NEW J, NEW c \in Data, NEW s, Coded(T, m, J, c, s),
           NEW I, NEW o, Decoded(T, New(T), c, I, o), RoundTrips(I, J, T)
    PROVE  o = read(m, Len(c))
<1>1. c \in Seq(Byte) /\ Len(c) \in Nat
  BY DataFacts
<1>2. Has(c, 0, c)
  BY <1>1 DEF Has
<1>3. PICK a : Begun(a, T, m, c, c, I, o)
  BY <1>2, WholeRead
<1> QED BY <1>1, <1>3, Finish DEF Begun

(* A message without nested ones has none to read back. *)
LEMMA RoundTrips0 == ASSUME NEW T \in Types0, NEW I, NEW J PROVE RoundTrips(I, J, T)
<1>1. Below(T) = {}
  BY DEF Below
<1>2. \A U, y : <<U, y>> \notin Inners(T)
  BY <1>1, InnerPair
<1> QED BY <1>2 DEF RoundTrips

(* A message without nested ones is read back. *)
LEMMA RoundTrip0 ==
    ASSUME NEW T \in Types0, NEW m \in Struct[T], Marshal0(T, m) \in Data
    PROVE  Unmarshal0(T, New(T), Marshal0(T, m)) = read(m, Len(Marshal0(T, m)))
<1>1. T \in Types /\ T \in Readable
  BY DEF Types, Readable
<1>2. New(T) \in Struct[T]
  BY <1>1, NewTyped
<1>3. PICK c : c = Marshal0(T, m)
  OBVIOUS
<1>4. Coded(T, m, Inner0(T), c, Size0(T, m))
  BY <1>3, Coding0
<1>5. Decoded(T, New(T), c, Into0(T), Unmarshal0(T, New(T), c))
  BY <1>2, <1>3, Decoding0
<1>6. RoundTrips(Into0(T), Inner0(T), T)
  BY RoundTrips0
<1> QED BY <1>1, <1>3, <1>4, <1>5, <1>6, ExactRead

(* The nested messages of a message one level up are read back. *)
LEMMA RoundTrips1 ==
    ASSUME NEW T \in Types0 \cup Types1
    PROVE  RoundTrips(Into1(T), Inner1(T), T)
<1> SUFFICES ASSUME NEW U, NEW y, <<U, y>> \in Inners(T), Inner1(T)[<<U, y>>] \in Data
             PROVE  Into1(T)[<<U, New(U), Inner1(T)[<<U, y>>]>>] = read(y, Len(Inner1(T)[<<U, y>>]))
  BY DEF RoundTrips
<1>1. U \in Below(T) /\ y \in Struct[U]
  BY InnerPair
<1>2. U \in Types0 /\ U \in Readable
  BY <1>1, BelowReadable DEF Below
<1>3. PICK c : c = Marshal0(U, y)
  OBVIOUS
<1>4. Inner1(T)[<<U, y>>] = c
  <2>1. PICK q : q = <<U, y>>
    OBVIOUS
  <2>2. q \in Inners(T) /\ q[1] = U /\ q[2] = y
    BY <2>1
  <2>3. Inner1(T)[q] = Marshal0(q[1], q[2])
    BY <2>2 DEF Inner1
  <2> QED BY <1>3, <2>1, <2>2, <2>3
<1>5. c \in Data /\ New(U) \in Struct[U]
  BY <1>2, <1>4, NewTyped
<1>6. Into1(T)[<<U, New(U), c>>] = Unmarshal0(U, New(U), c)
  <2>1. <<U, New(U), c>> \in Args(T)
    BY <1>1, <1>5, ArgsAre
  <2>2. PICK q : q = <<U, New(U), c>>
    OBVIOUS
  <2>3. q \in Args(T) /\ q[1] = U /\ q[2] = New(U) /\ q[3] = c
    BY <2>1, <2>2
  <2>4. Into1(T)[q] = Unmarshal0(q[1], q[2], q[3])
    BY <2>3 DEF Into1
  <2> QED BY <2>2, <2>3, <2>4
<1>7. Unmarshal0(U, New(U), c) = read(y, Len(c))
  BY <1>1, <1>2, <1>3, <1>5, RoundTrip0
<1> QED BY <1>4, <1>6, <1>7

(* Messages of the second level, on bytes that begin with theirs. *)
LEMMA Begin1 ==
    ASSUME NEW T \in Types0 \cup Types1, NEW m \in Struct[T], NEW b \in Data, Has(b, 0, Marshal1(T, m))
    PROVE  \E a : Begun(a, T, m, Marshal1(T, m), b, Into1(T), Unmarshal1(T, New(T), b))
<1>1. T \in Types /\ T \in Readable
  BY DEF Types, Readable
<1>2. New(T) \in Struct[T]
  BY <1>1, NewTyped
<1>3. PICK c : c = Marshal1(T, m)
  OBVIOUS
<1>4. Coded(T, m, Inner1(T), c, Size1(T, m))
  BY <1>3, Coding1
<1>5. Decoded(T, New(T), b, Into1(T), Unmarshal1(T, New(T), b))
  BY <1>2, Decoding1
<1>6. RoundTrips(Into1(T), Inner1(T), T)
  BY RoundTrips1
<1> QED BY <1>1, <1>3, <1>4, <1>5, <1>6, WholeRead

(* A message one level up is read back. *)
LEMMA RoundTrip1 ==
    ASSUME NEW T \in Types0 \cup Types1, NEW m \in Struct[T], Marshal1(T, m) \in Data
    PROVE  Unmarshal1(T, New(T), Marshal1(T, m)) = read(m, Len(Marshal1(T, m)))
<1>1. PICK c : c = Marshal1(T, m)
  OBVIOUS
<1>2. c \in Data /\ Len(c) \in Nat
  BY <1>1, DataFacts
<1>3. Has(c, 0, c)
  BY <1>2 DEF Has
<1>4. PICK a : Begun(a, T, m, c, c, Into1(T), Unmarshal1(T, New(T), c))
  BY <1>1, <1>2, <1>3, Begin1
<1> QED BY <1>1, <1>2, <1>4, Finish DEF Begun

(* The nested messages of any message are read back. *)
LEMMA RoundTrips2 == ASSUME NEW T \in Types PROVE RoundTrips(Into2(T), Inner2(T), T)
<1> SUFFICES ASSUME NEW U, NEW y, <<U, y>> \in Inners(T), Inner2(T)[<<U, y>>] \in Data
             PROVE  Into2(T)[<<U, New(U), Inner2(T)[<<U, y>>]>>] = read(y, Len(Inner2(T)[<<U, y>>]))
  BY DEF RoundTrips
<1>1. U \in Below(T) /\ y \in Struct[U]
  BY InnerPair
<1>2. U \in Types0 \cup Types1 /\ U \in Readable
  BY <1>1, BelowReadable
<1>3. PICK c : c = Marshal1(U, y)
  OBVIOUS
<1>4. Inner2(T)[<<U, y>>] = c
  <2>1. PICK q : q = <<U, y>>
    OBVIOUS
  <2>2. q \in Inners(T) /\ q[1] = U /\ q[2] = y
    BY <2>1
  <2>3. Inner2(T)[q] = Marshal1(q[1], q[2])
    BY <2>2 DEF Inner2
  <2> QED BY <1>3, <2>1, <2>2, <2>3
<1>5. c \in Data /\ New(U) \in Struct[U]
  BY <1>2, <1>4, NewTyped
<1>6. Into2(T)[<<U, New(U), c>>] = Unmarshal1(U, New(U), c)
  <2>1. <<U, New(U), c>> \in Args(T)
    BY <1>1, <1>5, ArgsAre
  <2>2. PICK q : q = <<U, New(U), c>>
    OBVIOUS
  <2>3. q \in Args(T) /\ q[1] = U /\ q[2] = New(U) /\ q[3] = c
    BY <2>1, <2>2
  <2>4. Into2(T)[q] = Unmarshal1(q[1], q[2], q[3])
    BY <2>3 DEF Into2
  <2> QED BY <2>2, <2>3, <2>4
<1>7. Unmarshal1(U, New(U), c) = read(y, Len(c))
  BY <1>1, <1>2, <1>3, <1>5, RoundTrip1
<1> QED BY <1>4, <1>6, <1>7

(* Any message at the front of a buffer is read, whatever follows. *)
LEMMA Begin2 ==
    ASSUME NEW T \in Types, NEW m \in Struct[T], NEW b \in Data, Has(b, 0, MarshalToSizedBuffer(T, m))
    PROVE  \E a : Begun(a, T, m, MarshalToSizedBuffer(T, m), b, Into2(T), Unmarshal(T, b))
<1>1. T \in Types \cup Cases /\ T \in Readable
  BY DEF Readable
<1>2. New(T) \in Struct[T]
  BY <1>1, NewTyped
<1>3. PICK c : c = MarshalToSizedBuffer(T, m)
  OBVIOUS
<1>4. Coded(T, m, Inner2(T), c, Size2(T, m))
  BY <1>1, <1>3, Coding2
<1>5. Decoded(T, New(T), b, Into2(T), Unmarshal2(T, New(T), b))
  BY <1>1, <1>2, Decoding2
<1>6. RoundTrips(Into2(T), Inner2(T), T)
  BY RoundTrips2
<1> QED BY <1>3, <1>4, <1>5, <1>6, WholeRead DEF Unmarshal

(* What Marshal writes of a message, Unmarshal reads back. *)
THEOREM RoundTrip ==
    ASSUME NEW T \in Types, NEW m \in Struct[T], Marshal(T, m) \in Data
    PROVE  Unmarshal(T, Marshal(T, m)) = read(m, Len(Marshal(T, m)))
<1>1. PICK c : c = Marshal(T, m)
  OBVIOUS
<1>2. c = MarshalToSizedBuffer(T, m)
  BY <1>1, MarshalFillsSize
<1>3. c \in Data /\ Len(c) \in Nat
  BY <1>1, DataFacts
<1>4. Has(c, 0, c)
  BY <1>3 DEF Has
<1>5. PICK a : Begun(a, T, m, c, c, Into2(T), Unmarshal(T, c))
  BY <1>2, <1>3, <1>4, Begin2
<1> QED BY <1>1, <1>3, <1>5, Finish DEF Begun

(* A varint is the same wherever it stands. *)
LEMMA ReadShifted ==
    ASSUME NEW u \in Seq(Byte), NEW b \in Seq(Byte), NEW i \in Nat, Has(b, i, u),
           Len(b) = i + Len(u), readVarint(u, 0).err = "none"
    PROVE  readVarint(b, i) = read(readVarint(u, 0).v, i + readVarint(u, 0).i)
<1>1. Len(u) \in Nat /\ Len(b) \in Nat /\ MaxGroups \in Nat
  BY LenProperties, MaxGroupsNat
<1>2. varintEnds(u, 0) = varintEnds(b, i)
  <2>1. \A n \in 1 .. MaxGroups : 0 + n <= Len(u) <=> i + n <= Len(b)
    BY <1>1
  <2>2. \A n \in 1 .. MaxGroups : n <= Len(u) => u[0 + n] = b[i + n]
    <3> SUFFICES ASSUME NEW n \in 1 .. MaxGroups, n <= Len(u) PROVE u[0 + n] = b[i + n]
      OBVIOUS
    <3>1. n \in 1 .. Len(u) /\ 0 + n = n
      BY <1>1
    <3> QED BY <3>1 DEF Has
  <2>3. \A n \in 1 .. MaxGroups : 0 + n <= Len(u) <=> n <= Len(u)
    BY <1>1
  <2> QED BY <2>1, <2>2, <2>3 DEF varintEnds
<1>3. varintEnds(u, 0) # {}
  <2>1. CASE varintEnds(u, 0) = {}
    <3>1. \E e \in {"IntOverflow", "UnexpectedEOF"} : readVarint(u, 0) = fail(e)
      BY <2>1 DEF readVarint
    <3> QED BY <3>1 DEF fail
  <2> QED BY <2>1
<1>4. varintEnds(u, 0) \in SUBSET Nat
  BY <1>1 DEF varintEnds
<1>5. PICK n \in varintEnds(u, 0) : \A k \in varintEnds(u, 0) : n <= k
  BY <1>3, <1>4, LeastOf
<1>6. n \in 1 .. MaxGroups /\ n \in Nat /\ 0 + n <= Len(u)
  BY <1>1, <1>5 DEF varintEnds
<1>7. readVarint(u, 0) = read(uint64(total(weights(u, 0, n), n)), 0 + n)
  BY <1>5, ReadVarintAt
<1>8. readVarint(b, i) = read(uint64(total(weights(b, i, n), n)), i + n)
  <2>1. n \in varintEnds(b, i) /\ \A k \in varintEnds(b, i) : n <= k
    BY <1>2, <1>5
  <2> QED BY <2>1, ReadVarintAt
<1>9. weights(u, 0, n) = weights(b, i, n)
  <2>1. \A k \in 1 .. n : u[0 + k] = b[i + k]
    <3> SUFFICES ASSUME NEW k \in 1 .. n PROVE u[0 + k] = b[i + k]
      OBVIOUS
    <3>1. k \in 1 .. Len(u) /\ 0 + k = k
      BY <1>1, <1>6
    <3> QED BY <3>1 DEF Has
  <2> QED BY <2>1 DEF weights
<1>10. 0 + n = n
  BY <1>6
<1> QED BY <1>7, <1>8, <1>9, <1>10 DEF read

(* The message is read, and an unknown field behind it, if there is one, is
   passed over. *)
LEMMA ExtendedRead ==
    ASSUME NEW T \in Readable, NEW m, NEW c \in Seq(Byte), NEW u \in Seq(Byte),
           u = <<>> \/ unknownField(u), NEW b \in Data, b = c \o u, NEW I, NEW a, NEW o,
           Begun(a, T, m, c, b, I, o)
    PROVE  o = read(m, Len(b))
<1>1. b \in Seq(Byte) /\ Len(b) \in Nat /\ Len(b) < IntRange
  BY DataFacts
<1>2. Len(b) = Len(c) + Len(u) /\ Len(c) \in Nat /\ Len(u) \in Nat
  BY Concat
<1>3. Loop(a, T, b, I) /\ Reached(a, m, Len(c)) /\ o = outcome(a, b)
  BY DEF Begun
<1>4. CASE u = <<>>
  <2>1. Len(c) = Len(b)
    BY <1>2, <1>4
  <2>2. Reached(a, m, Len(b))
    BY <1>3, <2>1
  <2> QED BY <1>1, <1>3, <2>2, Finish
<1>5. CASE unknownField(u)
  <2>1. PICK i : i = Len(c)
    OBVIOUS
  <2>2. PICK l : l = Len(u)
    OBVIOUS
  <2>3. i \in Nat /\ l \in Nat /\ Len(b) = i + l
    BY <1>2, <2>1, <2>2
  <2>4. Has(b, i, u)
    BY <2>1, HasParts
  <2>5. PICK key : key = readVarint(u, 0)
    OBVIOUS
  <2>6. key.err = "none" /\ key.v % 8 # 4 /\ fieldNum(key) > 8
        /\ skipFrom(u).err = "done" /\ skipFrom(u).i = l
    BY <1>5, <2>2, <2>5 DEF unknownField
  <2>7. key \in Results(0 .. Word - 1, l)
    BY <2>2, <2>5, ReadVarintTyped
  <2>8. l >= 1
    <3>1. \E n \in Nat, v \in Nat :
              n >= 1 /\ 0 + n <= Len(u) /\ v < Word /\ readVarint(u, 0) = read(v, 0 + n)
      <4>1. readVarint(u, 0) # fail("IntOverflow") /\ readVarint(u, 0) # fail("UnexpectedEOF")
        BY <2>5, <2>6 DEF fail
      <4> QED BY <4>1, ReadVarint
    <3> QED BY <2>2, <2>3, <3>1
  <2>9. PICK r : r = read(m, i)
    OBVIOUS
  <2>10. r.v = m /\ r.i = i
    BY <2>9 DEF read
  <2>11. keyAt(b, r) = read(key.v, i + key.i)
    <3>1. Len(b) = i + Len(u) /\ readVarint(u, 0).err = "none"
      BY <2>2, <2>3, <2>5, <2>6
    <3>2. readVarint(b, i) = read(readVarint(u, 0).v, i + readVarint(u, 0).i)
      BY <1>1, <2>3, <2>4, <3>1, ReadShifted
    <3> QED BY <2>5, <2>10, <3>2 DEF keyAt
  <2>12. PICK h : h = keyAt(b, r)
    OBVIOUS
  <2>13. h.err = "none" /\ h.v = key.v /\ fieldNum(h) = fieldNum(key)
    BY <2>11, <2>12 DEF read, fieldNum
  <2>14. fieldNum(h) \in Int /\ fieldNum(h) > 8
    <3>1. r.i \in Nat
      BY <2>3, <2>10
    <3>2. fieldNum(h) \in Int
      BY <2>12, <2>13, <3>1, KeyTyped
    <3> QED BY <2>6, <2>13, <3>2
  <2>15. ~ known(T, fieldNum(h))
    <3>1. DOMAIN Expected[T] = 1 .. Len(Expected[T]) /\ Len(Expected[T]) \in 1 .. 8
      BY Lengths
    <3>2. fieldNum(h) \notin DOMAIN Expected[T]
      <4>1. PICK n : n = fieldNum(h)
        OBVIOUS
      <4>2. PICK w : w = Len(Expected[T])
        OBVIOUS
      <4>3. n \in Int /\ n > 8
        BY <2>14, <4>1
      <4>4. w \in 1 .. 8
        BY <3>1, <4>2
      <4>5. n \notin 1 .. w
        BY <4>3, <4>4
      <4> QED BY <3>1, <4>1, <4>2, <4>5
    <3> QED BY <2>14, <3>2, KnownFields
  <2>16. \A raw, inner : turn(T, b, r, h, raw, inner) = skip(m, b, i)
    <3>1. ~ (h.v % 8 = 4 \/ fieldNum(h) <= 0)
      BY <2>6, <2>13, <2>14
    <3> QED BY <2>10, <2>13, <2>15, <3>1 DEF turn
  <2>17. turnAt(T, b, r, I) = skip(m, b, i)
    BY <2>12, <2>16 DEF turnAt, turnWith
  <2>18. SubSeq(b, i + 1, Len(b)) = u
    <3>1. SubSeq(b, i + 1, i + Len(u)) = u
      BY <1>1, <2>3, <2>4, HasSlice
    <3> QED BY <2>2, <2>3, <3>1
  <2>19. skip(m, b, i) = passOver(m, b, i, skipFrom(u))
    BY <2>18 DEF skip
  <2>20. PICK n : n = skipFrom(u)
    OBVIOUS
  <2>21. n.err = "done" /\ n.i = l
    BY <2>6, <2>20
  <2>22. int64(uint64(i + l)) = i + l
    <3>1. PICK e : e = i + l
      OBVIOUS
    <3>2. e \in Nat /\ e < IntRange
      BY <1>1, <2>3, <3>1
    <3>3. IntRange \in Nat
      BY WordFacts
    <3>4. e \in Int64s
      BY <3>2, <3>3 DEF Int64s
    <3> QED BY <3>1, <3>4, Int64Back
  <2>23. passOver(m, b, i, n) = read(m, i + l)
    <3>1. ~ (int64(uint64(i + l)) < 0) /\ ~ (i + l > Len(b))
      BY <1>1, <2>3, <2>22
    <3> QED BY <2>21, <3>1 DEF passOver
  <2>24. turnAt(T, b, read(m, i), I) = read(m, i + l)
    BY <2>9, <2>17, <2>19, <2>20, <2>23
  <2>25. Reached(a, m, i + l)
    <3>1. Reached(a, m, i)
      BY <1>3, <2>1
    <3>2. i + l <= Len(b)
      BY <1>1, <2>3
    <3> QED BY <1>1, <1>3, <2>3, <2>8, <2>24, <3>1, <3>2, Advance
  <2>26. Reached(a, m, Len(b))
    BY <2>3, <2>25
  <2> QED BY <1>1, <1>3, <2>26, Finish
<1> QED BY <1>4, <1>5

(* A Message is read back, with what a newer version has put behind it and
   behind the message in it. *)
inMessage(U, p) == [Sum |-> IF U = "Proposal" THEN Message_Proposal(p) ELSE Message_Vote(p)]

(* A vote or a proposal with an unknown field after it is read. *)
LEMMA BodyRead ==
    ASSUME NEW U \in {"Proposal", "Vote"}, NEW p \in Struct[U], NEW v \in Seq(Byte),
           v = <<>> \/ unknownField(v), NEW e \in Data, e = Marshal1(U, p) \o v,
           Marshal1(U, p) \in Seq(Byte)
    PROVE  Unmarshal1(U, New(U), e) = read(p, Len(e))
<1>1. U \in Types0 \cup Types1 /\ U \in Readable
  BY DEF Types1, Readable, Types
<1>2. PICK c : c = Marshal1(U, p)
  OBVIOUS
<1>3. Has(e, 0, c)
  BY <1>2, HasParts
<1>4. PICK a : Begun(a, U, p, c, e, Into1(U), Unmarshal1(U, New(U), e))
  BY <1>1, <1>2, <1>3, Begin1
<1> QED BY <1>1, <1>2, <1>4, ExtendedRead

(* The turn of Message that reads its case. *)
LEMMA CaseTurn ==
    ASSUME NEW U \in {"Proposal", "Vote"}, NEW p, NEW key, key = IF U = "Proposal" THEN 10 ELSE 18,
           NEW e \in Seq(Byte), NEW b \in Data, Has(b, 0, item(key, e)), NEW m, m = New("Message"),
           NEW I, I[<<U, New(U), e>>] = read(p, Len(e))
    PROVE  turnAt("Message", b, read(m, 0), I) = read(inMessage(U, p), Len(item(key, e)))
<1>1. PICK k : k = IF U = "Proposal" THEN 1 ELSE 2
  OBVIOUS
<1>2. PICK f : f = Expected["Message"][k]
  OBVIOUS
<1>3. f.kind = "case" /\ f.of = U /\ f.name = "Sum" /\ k \in DOMAIN Expected["Message"]
      /\ "Message" \in Readable
  BY <1>1, <1>2 DEF Expected, UnmarshalMessage, Case, field, Readable
<1>4. WireType(f) = 2 /\ f.kind \notin Numbers
  BY <1>3, WireTypes DEF Numbers
<1>5. key = 8 * k + WireType(f) /\ key \in Byte
  BY <1>1, <1>4 DEF Byte
<1>6. PICK l : l = Len(item(key, e))
  OBVIOUS
<1>7. 0 + 1 <= Len(b) /\ b[0 + 1] = key /\ rawOf(f, b, 0 + 1) = read(e, 0 + l)
  BY <1>4, <1>5, <1>6, DelimitedAt
<1>8. PICK raw : raw = rawOf(f, b, 0 + 1)
  OBVIOUS
<1>9. raw.err = "none" /\ raw.v = e /\ raw.i = 0 + l
  BY <1>7, <1>8 DEF read
<1>10. turnAt("Message", b, read(m, 0), I) =
           [setField(m, f, raw.v, I[<<f.of, target(m, f), raw.v>>]) EXCEPT !.i = raw.i]
  <2>1. PICK i \in Nat : i = 0
    OBVIOUS
  <2>2. i + 1 <= Len(b) /\ b[i + 1] = 8 * k + WireType(f) /\ raw = rawOf(f, b, i + 1)
    BY <1>5, <1>7, <1>8, <2>1
  <2>3. PICK T \in Readable : T = "Message"
    BY <1>3
  <2>4. k \in DOMAIN Expected[T] /\ f = Expected[T][k]
    BY <1>2, <1>3, <2>3
  <2>5. turnAt(T, b, read(m, i), I) =
            [setField(m, f, raw.v, I[<<f.of, target(m, f), raw.v>>]) EXCEPT !.i = raw.i]
    BY <1>9, <2>2, <2>4, TurnOfField
  <2> QED BY <2>1, <2>3, <2>5
<1>11. target(m, f) = New(U)
  BY <1>3 DEF target
<1>12. PICK inner : inner = read(p, Len(e))
  OBVIOUS
<1>13. inner.err = "none" /\ inner.v = p
  BY <1>12 DEF read
<1>14. m = [x \in {"Sum"} |-> m[x]]
  <2>1. Zeros(m, "Message")
    BY <1>3, NewZeros
  <2>2. Names(Expected["Message"]) = {"Sum"}
    <3>1. \A j \in DOMAIN Expected["Message"] : Expected["Message"][j].name = "Sum"
      BY DEF Expected, UnmarshalMessage, Case, field
    <3> QED BY <1>3, <3>1 DEF Names
  <2> QED BY <2>1, <2>2 DEF Zeros
<1>15. setField(m, f, raw.v, inner) = read(inMessage(U, p), 0)
  <2>1. setField(m, f, raw.v, inner) = setMessage(m, f, inner)
    BY <1>3 DEF setField
  <2>2. CASE U = "Proposal"
    <3>1. setMessage(m, f, inner) = read([m EXCEPT !["Sum"] = Message_Proposal(p)], 0)
      BY <1>3, <1>13, <2>2 DEF setMessage
    <3>2. [m EXCEPT !["Sum"] = Message_Proposal(p)] = inMessage(U, p)
      BY <1>14, <2>2 DEF inMessage
    <3> QED BY <2>1, <3>1, <3>2
  <2>3. CASE U = "Vote"
    <3>1. setMessage(m, f, inner) = read([m EXCEPT !["Sum"] = Message_Vote(p)], 0)
      BY <1>3, <1>13, <2>3 DEF setMessage
    <3>2. [m EXCEPT !["Sum"] = Message_Vote(p)] = inMessage(U, p)
      BY <1>14, <2>3 DEF inMessage
    <3> QED BY <2>1, <3>1, <3>2
  <2> QED BY <2>2, <2>3
<1>16. turnAt("Message", b, read(m, 0), I) = [read(inMessage(U, p), 0) EXCEPT !.i = 0 + l]
  BY <1>3, <1>9, <1>10, <1>11, <1>12, <1>15
<1>17. 0 + l = l
  <2>1. item(key, e) \in Seq(Byte)
    BY <1>5, ItemFacts
  <2>2. l \in Nat
    BY <1>6, <2>1, LenProperties
  <2> QED BY <2>2
<1>18. [read(inMessage(U, p), 0) EXCEPT !.i = l] = read(inMessage(U, p), l)
  <2>1. PICK w : w = inMessage(U, p)
    OBVIOUS
  <2>2. PICK r : r = read(w, 0)
    OBVIOUS
  <2>3. [r EXCEPT !.i = l] = read(w, l)
    BY <2>2, ReadWith
  <2> QED BY <2>1, <2>2, <2>3
<1> QED BY <1>6, <1>16, <1>17, <1>18

(* An item has at least one byte. *)
LEMMA ItemNotEmpty ==
    ASSUME NEW key \in Byte, NEW e \in Seq(Byte), NEW c, c = item(key, e)
    PROVE  c \in Seq(Byte) /\ Len(c) \in Nat /\ Len(c) >= 1
<1>1. c \in Seq(Byte) /\ Len(c) = 1 + Len(e) + sov(uint64(Len(e)))
  BY ItemFacts DEF delimited
<1>2. Len(e) \in Nat
  BY LenProperties
<1>3. sov(uint64(Len(e))) \in Nat
  <2>1. Len(e) \in Int
    BY <1>2
  <2>2. uint64(Len(e)) \in Nat
    BY <2>1, ConversionTypes
  <2> QED BY <2>2, SovIs DEF Sevens
<1>4. PICK n : n = Len(e)
  OBVIOUS
<1>5. PICK h : h = sov(uint64(Len(e)))
  OBVIOUS
<1>6. n \in Nat /\ h \in Nat /\ Len(c) = 1 + n + h
  BY <1>1, <1>2, <1>3, <1>4, <1>5
<1> QED BY <1>1, <1>6

(* The loop of Unmarshal begins with the message it fills, at index 0. *)
LEMMA RunStarts ==
    ASSUME NEW T \in Readable, NEW m \in Struct[T], NEW b \in Data, NEW I, NEW o, Decoded(T, m, b, I, o)
    PROVE  \E a : Loop(a, T, b, I) /\ a[0] = read(m, 0) /\ o = outcome(a, b)
<1>1. PICK a : Runs(a, T, m, b, I) /\ o = outcome(a, b)
  BY DEF Decoded
<1>2. Decodes(I, T)
  BY DEF Decoded
<1>3. a[0] = read(m, 0) /\ \A n \in 1 .. Len(b) : a[n] = stepAt(T, b, a[n - 1], I)
  BY <1>1, <1>2, RunsTyped
<1> QED BY <1>1, <1>3 DEF Loop

(* Message's Unmarshal reads the case at the front of a buffer. *)
LEMMA MessageBegun ==
    ASSUME NEW U \in {"Proposal", "Vote"}, NEW p, NEW key, key = IF U = "Proposal" THEN 10 ELSE 18,
           NEW e \in Data, NEW b \in Data, NEW c, c = item(key, e), Has(b, 0, c),
           Unmarshal1(U, New(U), e) = read(p, Len(e))
    PROVE  \E a : Begun(a, "Message", inMessage(U, p), c, b, Into2("Message"), Unmarshal("Message", b))
<1>1. e \in Seq(Byte) /\ key \in Byte /\ "Message" \in Readable /\ Len(b) \in Nat
  BY DataFacts DEF Byte, Readable
<1>2. PICK m : m = New("Message")
  OBVIOUS
<1>3. PICK I : I = Into2("Message")
  OBVIOUS
<1>4. I[<<U, New(U), e>>] = read(p, Len(e))
  <2>1. U \in Below("Message") /\ U \in Readable
    BY DEF Below, Types0, Types1, Readable, Types
  <2>2. New(U) \in Struct[U]
    BY <2>1, NewTyped
  <2>3. <<U, New(U), e>> \in Args("Message")
    BY <2>1, <2>2, ArgsAre
  <2>4. PICK q : q = <<U, New(U), e>>
    OBVIOUS
  <2>5. q \in Args("Message") /\ q[1] = U /\ q[2] = New(U) /\ q[3] = e
    BY <2>3, <2>4
  <2>6. I[q] = Unmarshal1(q[1], q[2], q[3])
    BY <1>3, <2>5 DEF Into2
  <2> QED BY <2>4, <2>5, <2>6
<1>5. PICK o : o = Unmarshal("Message", b)
  OBVIOUS
<1>6. m \in Struct["Message"]
  BY <1>1, <1>2, NewTyped
<1>7. Decoded("Message", m, b, I, o)
  BY <1>1, <1>2, <1>3, <1>5, <1>6, Decoding2 DEF Unmarshal
<1>8. PICK a : Loop(a, "Message", b, I) /\ a[0] = read(m, 0) /\ o = outcome(a, b)
  BY <1>1, <1>6, <1>7, RunStarts
<1>9. PICK w : w = inMessage(U, p)
  OBVIOUS
<1>10. turnAt("Message", b, read(m, 0), I) = read(w, Len(c))
  <2>1. Has(b, 0, item(key, e))
    OBVIOUS
  <2>2. turnAt("Message", b, read(m, 0), I) = read(inMessage(U, p), Len(item(key, e)))
    BY <1>1, <1>2, <1>4, <2>1, CaseTurn
  <2> QED BY <1>9, <2>2
<1>11. PICK l : l = Len(c)
  OBVIOUS
<1>12. l \in Nat /\ l >= 1 /\ 0 + l = l /\ 0 + l <= Len(b)
  <2>1. Len(c) \in Nat /\ Len(c) >= 1
    BY <1>1, ItemNotEmpty
  <2> QED BY <1>11, <2>1 DEF Has
<1>13. Reached(a, w, l)
  <2>1. Reached(a, m, 0)
    BY <1>8 DEF Reached
  <2>2. turnAt("Message", b, read(m, 0), I) = read(w, 0 + l)
    BY <1>10, <1>11, <1>12
  <2>3. Reached(a, w, 0 + l)
    BY <1>1, <1>8, <1>12, <2>1, <2>2, Advance
  <2> QED BY <1>12, <2>3
<1> QED BY <1>3, <1>5, <1>8, <1>9, <1>11, <1>13 DEF Begun

(* What a newer version may have put behind a message. *)
Extra(u) == u \in Seq(Byte) /\ (u = <<>> \/ unknownField(u))

(* A message on its way, with what may have been put behind it and into it. *)
Carries(b, U, p, key, u, v) ==
    /\ b \in Data /\ U \in {"Proposal", "Vote"} /\ p \in Struct[U] /\ Marshal1(U, p) \in Seq(Byte)
    /\ key = IF U = "Proposal" THEN 10 ELSE 18
    /\ Extra(u) /\ Extra(v) /\ b = item(key, Marshal1(U, p) \o v) \o u

(* A message on the topic, unknown fields added or not, is read as what was
   put in it. *)
LEMMA Carried ==
    ASSUME NEW b, NEW U, NEW p, NEW key, NEW u, NEW v, Carries(b, U, p, key, u, v)
    PROVE  Unmarshal("Message", b) = read(inMessage(U, p), Len(b))
<1>1. b \in Data /\ U \in {"Proposal", "Vote"} /\ p \in Struct[U] /\ Marshal1(U, p) \in Seq(Byte)
      /\ key = IF U = "Proposal" THEN 10 ELSE 18
  BY DEF Carries
<1>2. u \in Seq(Byte) /\ (u = <<>> \/ unknownField(u))
  BY DEF Carries, Extra
<1>3. v \in Seq(Byte) /\ (v = <<>> \/ unknownField(v))
  BY DEF Carries, Extra
<1>4. PICK e : e = Marshal1(U, p) \o v
  OBVIOUS
<1>5. PICK c : c = item(key, e)
  OBVIOUS
<1>6. b = c \o u
  BY <1>4, <1>5 DEF Carries
<1>7. e \in Seq(Byte) /\ key \in Byte /\ "Message" \in Readable
  BY <1>1, <1>3, <1>4, Concat DEF Byte, Readable
<1>8. c \in Seq(Byte) /\ Len(c) \in Nat /\ b \in Seq(Byte) /\ Len(b) \in Nat
  BY <1>1, <1>5, <1>7, ItemFacts, LenProperties, DataFacts
<1>9. Has(b, 0, c)
  BY <1>2, <1>6, <1>8, HasParts
<1>10. e \in Data
  <2>1. Has(b, 0, item(key, e))
    BY <1>5, <1>9
  <2>2. \A f : f.kind \notin Numbers => e \in Data
    BY <1>1, <1>7, <2>1, DelimitedAt
  <2>3. [kind |-> "bytes"].kind \notin Numbers
    BY DEF Numbers
  <2> QED BY <2>2, <2>3
<1>11. Unmarshal1(U, New(U), e) = read(p, Len(e))
  BY <1>1, <1>3, <1>4, <1>10, BodyRead
<1>12. PICK a : Begun(a, "Message", inMessage(U, p), c, b, Into2("Message"), Unmarshal("Message", b))
  BY <1>1, <1>5, <1>9, <1>10, <1>11, MessageBegun
<1>13. PICK T : T = "Message"
  OBVIOUS
<1>14. T \in Readable /\ Begun(a, T, inMessage(U, p), c, b, Into2(T), Unmarshal(T, b))
  BY <1>7, <1>12, <1>13
<1>15. Unmarshal(T, b) = read(inMessage(U, p), Len(b))
  BY <1>1, <1>2, <1>6, <1>8, <1>14, ExtendedRead
<1> QED BY <1>13, <1>15

(* The other messages, with what a newer version has put behind them. *)
LEMMA StructIsRead ==
    ASSUME NEW T \in Types, NEW m \in Struct[T], NEW u \in Seq(Byte), u = <<>> \/ unknownField(u),
           NEW b \in Data, b = Marshal(T, m) \o u
    PROVE  Unmarshal(T, b) = read(m, Len(b))
<1>1. PICK c : c = MarshalToSizedBuffer(T, m)
  OBVIOUS
<1>2. c \in Seq(Byte) /\ b = c \o u
  BY <1>1, MarshalFillsSize
<1>3. Has(b, 0, c)
  BY <1>2, HasParts
<1>4. PICK a : Begun(a, T, m, c, b, Into2(T), Unmarshal(T, b))
  BY <1>1, <1>3, Begin2
<1>5. T \in Readable
  BY DEF Readable
<1> QED BY <1>2, <1>4, <1>5, ExtendedRead

(* Bytes behind their length. *)
LEMMA DelimitedRead ==
    ASSUME NEW x \in Seq(Byte), NEW b \in Data, b = groups(uint64(Len(x))) \o x
    PROVE  /\ x \in Data
           /\ \E n \in Nat : readVarint(b, 0) = read(Len(x), n) /\ SubSeq(b, n + 1, n + Len(x)) = x
<1>1. PICK l : l = Len(x)
  OBVIOUS
<1>2. l \in Nat /\ b \in Seq(Byte) /\ Len(b) \in Nat /\ Len(b) < IntRange
  BY <1>1, LenProperties, DataFacts
<1>3. PICK v : v = uint64(l)
  OBVIOUS
<1>4. v \in Nat /\ v < Word
  <2>1. l \in Int
    BY <1>2
  <2> QED BY <1>3, <2>1, ConversionTypes
<1>5. PICK g : g = groups(v)
  OBVIOUS
<1>6. g \in Seq(Byte) /\ Len(g) = sov(v) /\ sov(v) \in Nat
  BY <1>4, <1>5, GroupsFacts
<1>7. b = g \o x
  BY <1>1, <1>3, <1>5
<1>8. Len(b) = Len(g) + l /\ Has(b, 0, g) /\ Has(b, Len(g), x)
  BY <1>1, <1>6, <1>7, Concat, HasParts
<1>9. PICK n : n = Len(g)
  OBVIOUS
<1>10. n \in Nat /\ Len(b) = n + l
  BY <1>6, <1>8, <1>9
<1>11. l < IntRange /\ l < Word
  <2>1. PICK w : w = IntRange
    OBVIOUS
  <2>2. w \in Nat /\ Word = 2 * w
    BY <2>1, WordFacts
  <2>3. l < w
    BY <1>2, <1>10, <2>1, <2>2
  <2> QED BY <1>2, <2>1, <2>2, <2>3
<1>12. v = l
  BY <1>2, <1>3, <1>11, SmallIsItself
<1>13. readVarint(b, 0) = read(l, n)
  <2>1. readVarint(b, 0) = read(v, 0 + sov(v))
    <3>1. Has(b, 0, groups(v))
      BY <1>5, <1>8
    <3> QED BY <1>2, <1>4, <3>1, ReadBack
  <2>2. 0 + sov(v) = n
    BY <1>6, <1>9
  <2> QED BY <1>12, <2>1, <2>2
<1>14. SubSeq(b, n + 1, n + Len(x)) = x
  <2>1. Has(b, n, x)
    BY <1>8, <1>9
  <2> QED BY <1>2, <1>10, <2>1, HasSlice
<1>15. x \in Data
  BY <1>1, <1>11 DEF Data
<1> QED BY <1>1, <1>10, <1>13, <1>14, <1>15

(* What has its length before it has one reading. *)
LEMMA DelimitedOnce ==
    ASSUME NEW x \in Seq(Byte), NEW y \in Seq(Byte), NEW b \in Data,
           b = groups(uint64(Len(x))) \o x, b = groups(uint64(Len(y))) \o y
    PROVE  x = y
<1>1. PICK n \in Nat : readVarint(b, 0) = read(Len(x), n) /\ SubSeq(b, n + 1, n + Len(x)) = x
  BY DelimitedRead
<1>2. PICK k \in Nat : readVarint(b, 0) = read(Len(y), k) /\ SubSeq(b, k + 1, k + Len(y)) = y
  BY DelimitedRead
<1>3. Len(x) = Len(y) /\ n = k
  BY <1>1, <1>2 DEF read
<1> QED BY <1>1, <1>2, <1>3

(* A field of no item leaves the buffer, one of a single item puts it there. *)
LEMMA ItemsOfOne ==
    ASSUME NEW f, NEW x, NEW inner, NEW d, NEW c, Items(f, x, inner, d, c)
    PROVE  /\ count(f, x) = 0 => c = d
           /\ count(f, x) = 1 => c = itemOf(f, x, inner, 1) \o d
<1>1. PICK r : Chain(r, f, x, inner, d) /\ r[0] = c
  BY DEF Items
<1>2. CASE count(f, x) = 0
  BY <1>1, <1>2 DEF Chain
<1>3. CASE count(f, x) = 1
  <2>1. 0 \in 0 .. count(f, x) - 1
    BY <1>3
  <2>2. r[0] = itemOf(f, x, inner, 0 + 1) \o r[0 + 1]
    BY <1>1, <2>1 DEF Chain
  <2>3. 0 + 1 = 1 /\ r[1] = d
    BY <1>1, <1>3 DEF Chain
  <2> QED BY <1>1, <1>3, <2>2, <2>3
<1> QED BY <1>2, <1>3

(* The buffer after field k, which Marshal writes. *)
Layered(a, T, m, J) ==
    /\ a[0] = <<>>
    /\ \A k \in 0 .. Len(Written[T]) : a[k] \in Seq(Byte)
    /\ \A k \in 1 .. Len(Written[T]) :
          LET f == Written[T][k]
              x == m[f.name]
          IN  /\ count(f, x) = 0 => a[k] = a[k - 1]
              /\ count(f, x) = 1 => a[k] = itemOf(f, x, innerOf(f, x, J), 1) \o a[k - 1]
              /\ f.kind \notin Numbers \cup {"bytes"} =>
                    \A j \in 1 .. Len(parts(f, x)) :
                        /\ innerOf(f, x, J)[j] = J[<<f.of, parts(f, x)[j]>>]
                        /\ <<f.of, parts(f, x)[j]>> \in Inners(T)

(* What Marshal writes grows field by field, each in front of the rest. *)
LEMMA Layers ==
    ASSUME NEW T \in Types, NEW m \in Struct[T], NEW J, NEW c, NEW s, Coded(T, m, J, c, s)
    PROVE  \E a : Layered(a, T, m, J) /\ c = a[Len(Written[T])]
<1>1. PICK a : Buffers(a, T, m, J) /\ c = a[Len(Written[T])]
  BY DEF Coded
<1>2. Encodes(J, T)
  BY DEF Coded
<1>3. PICK n : n = Len(Written[T])
  OBVIOUS
<1>4. T \in Types \cup Cases
  OBVIOUS
<1>5. BuffersAre(a, T, m, J, n)
  BY <1>1, <1>2, <1>3, <1>4, BuffersFacts
<1>6. n \in Nat /\ a[0] = <<>> /\ \A k \in 0 .. n : a[k] \in Seq(Byte)
  BY <1>5 DEF BuffersAre
<1>7. ASSUME NEW k \in 1 .. n, NEW f, f = Written[T][k], NEW x, x = m[f.name]
      PROVE  /\ count(f, x) = 0 => a[k] = a[k - 1]
             /\ count(f, x) = 1 => a[k] = itemOf(f, x, innerOf(f, x, J), 1) \o a[k - 1]
             /\ f.kind \notin Numbers \cup {"bytes"} =>
                   \A j \in 1 .. Len(parts(f, x)) :
                       /\ innerOf(f, x, J)[j] = J[<<f.of, parts(f, x)[j]>>]
                       /\ <<f.of, parts(f, x)[j]>> \in Inners(T)
  <2>1. PICK g : g = Counted[T][n + 1 - k]
    OBVIOUS
  <2>2. Field(T, f, g, m)
    BY <1>3, <1>4, <1>7, <2>1, FieldFacts
  <2>3. InnersAre(T, f, x, J)
    BY <1>2, <1>7, <2>2, InnerFacts
  <2>4. PICK inner : inner = innerOf(f, x, J)
    OBVIOUS
  <2>5. Putting(f, x, inner)
    BY <2>3, <2>4 DEF InnersAre
  <2>6. PICK d : d = a[k - 1]
    OBVIOUS
  <2>7. d \in Seq(Byte) /\ a[k] = putField(d, f, x, inner)
    <3>1. k - 1 \in 0 .. n
      BY <1>6
    <3> QED BY <1>5, <1>6, <1>7, <2>4, <2>6, <3>1 DEF BuffersAre
  <2>8. Items(f, x, inner, d, a[k])
    BY <2>5, <2>7, PutField
  <2>9. (count(f, x) = 0 => a[k] = d) /\ (count(f, x) = 1 => a[k] = itemOf(f, x, inner, 1) \o d)
    BY <2>8, ItemsOfOne
  <2> QED BY <2>3, <2>4, <2>6, <2>9 DEF InnersAre
<1>8. Layered(a, T, m, J)
  BY <1>3, <1>6, <1>7 DEF Layered
<1> QED BY <1>1, <1>8

-----------------------------------------------------------------------------
(* The bytes of single fields. *)

(* A number, or bytes: nothing when zero or empty, and otherwise behind the key. *)
NumberLayer(a, k, f, x) ==
    /\ f.kind \in Numbers /\ x = 0 => a[k] = a[k - 1]
    /\ f.kind \in {"int32", "int64"} /\ x # 0 =>
          a[k] = (<<f.key>> \o groups(uint64(x))) \o a[k - 1]
    /\ f.kind = "bytes" /\ Len(x) # 0 => a[k] = item(f.key, x) \o a[k - 1]

(* What a number adds in front: its key and digits, or nothing if it is 0. *)
LEMMA LayerOfNumber ==
    ASSUME NEW T, NEW m, NEW J, NEW a, Layered(a, T, m, J), NEW k \in 1 .. Len(Written[T]),
           NEW f, f = Written[T][k], NEW x, x = m[f.name]
    PROVE  NumberLayer(a, k, f, x)
<1>1. PICK inner : inner = innerOf(f, x, J)
  OBVIOUS
<1>2. /\ count(f, x) = 0 => a[k] = a[k - 1]
      /\ count(f, x) = 1 => a[k] = itemOf(f, x, inner, 1) \o a[k - 1]
  BY <1>1 DEF Layered
<1>3. f.kind \in Numbers /\ x = 0 => count(f, x) = 0
  BY DEF count
<1>4. f.kind \in {"int32", "int64"} /\ x # 0 =>
          count(f, x) = 1 /\ itemOf(f, x, inner, 1) = <<f.key>> \o groups(uint64(x))
  BY DEF count, itemOf, Numbers
<1>5. f.kind = "bytes" /\ Len(x) # 0 => count(f, x) = 1 /\ itemOf(f, x, inner, 1) = item(f.key, x)
  BY DEF count, itemOf, Numbers
<1> QED BY <1>2, <1>3, <1>4, <1>5 DEF NumberLayer

(* A message in a field: nothing when there is none. *)
MessageLayer(a, k, f, x) ==
    /\ f.kind = "pointer" /\ x = Nil => a[k] = a[k - 1]
    /\ f.kind = "stdtime" \/ x # Nil =>
          /\ Marshal1(f.of, x) \in Seq(Byte)
          /\ a[k] = item(f.key, Marshal1(f.of, x)) \o a[k - 1]

(* What a nested message adds in front: its key, length and bytes. *)
LEMMA LayerOfMessage ==
    ASSUME NEW T, NEW m, NEW a, Layered(a, T, m, Inner2(T)),
           NEW k \in 1 .. Len(Written[T]), NEW f, f = Written[T][k], NEW x, x = m[f.name],
           f.kind \in {"stdtime", "pointer"}
    PROVE  MessageLayer(a, k, f, x)
<1>1. PICK inner : inner = innerOf(f, x, Inner2(T))
  OBVIOUS
<1>2. /\ count(f, x) = 0 => a[k] = a[k - 1]
      /\ count(f, x) = 1 => a[k] = itemOf(f, x, inner, 1) \o a[k - 1]
  BY <1>1 DEF Layered
<1>3. f.kind \notin Numbers \cup {"bytes"}
  BY DEF Numbers
<1>4. \A j \in 1 .. Len(parts(f, x)) :
          /\ inner[j] = Inner2(T)[<<f.of, parts(f, x)[j]>>]
          /\ <<f.of, parts(f, x)[j]>> \in Inners(T)
  BY <1>1, <1>3 DEF Layered
<1>5. f.kind = "pointer" /\ x = Nil => parts(f, x) = <<>>
  BY DEF parts
<1>6. f.kind = "stdtime" \/ x # Nil => parts(f, x) = <<x>>
  BY DEF parts
<1>7. count(f, x) = Len(parts(f, x))
  BY <1>3 DEF count
<1>8. CASE f.kind = "pointer" /\ x = Nil
  BY <1>2, <1>5, <1>7, <1>8 DEF MessageLayer
<1>9. CASE f.kind = "stdtime" \/ x # Nil
  <2>1. count(f, x) = 1 /\ Len(parts(f, x)) = 1 /\ parts(f, x)[1] = x
    BY <1>6, <1>7, <1>9
  <2>2. inner[1] = Inner2(T)[<<f.of, x>>] /\ <<f.of, x>> \in Inners(T)
    BY <1>4, <2>1
  <2>3. inner[1] = Marshal1(f.of, x)
    BY <2>2 DEF Inner2
  <2>4. f.of \in Below(T) /\ x \in Struct[f.of]
    BY <2>2, InnerPair
  <2>5. f.of \in Types0 \cup Types1
    BY <2>4 DEF Below
  <2>6. Marshal1(f.of, x) \in Seq(Byte)
    BY <2>4, <2>5, Coding1 DEF Coded
  <2>7. itemOf(f, x, inner, 1) = item(f.key, Marshal1(f.of, x))
    BY <1>3, <2>3 DEF itemOf, Numbers
  <2>8. ~ (f.kind = "pointer" /\ x = Nil)
    BY <1>9
  <2> QED BY <1>2, <2>1, <2>6, <2>7, <2>8 DEF MessageLayer
<1> QED BY <1>8, <1>9

(* The first byte of what begins with an item is its key. *)
Leads(key, s, d, c) == key \in Byte /\ s \in Seq(Byte) /\ d \in Seq(Byte) /\ c = (<<key>> \o s) \o d

Led(key, s, d, c) == c \in Seq(Byte) /\ Len(c) >= 1 /\ c[1] = key /\ c = <<key>> \o (s \o d)

(* What an item leads begins with its key. *)
LEMMA FirstIsKey ==
    ASSUME NEW key, NEW s, NEW d, NEW c, Leads(key, s, d, c)
    PROVE  Led(key, s, d, c)
<1>0. key \in Byte /\ s \in Seq(Byte) /\ d \in Seq(Byte)
  BY DEF Leads
<1>1. <<key>> \in Seq(Byte) /\ Len(<<key>>) = 1 /\ <<key>>[1] = key
  BY <1>0, One
<1>2. s \o d \in Seq(Byte) /\ Len(s \o d) \in Nat
  BY <1>0, Concat
<1>3. /\ <<key>> \o (s \o d) \in Seq(Byte) /\ Len(<<key>> \o (s \o d)) = 1 + Len(s \o d)
      /\ (<<key>> \o (s \o d))[1] = key
  BY <1>1, <1>2, Concat
<1>4. (<<key>> \o s) \o d = <<key>> \o (s \o d)
  BY <1>0, <1>1, ConcatAssociative
<1> QED BY <1>2, <1>3, <1>4 DEF Leads, Led

(* A time begins with the key of its seconds or of its nanoseconds. *)
LEMMA TimeBytes ==
    ASSUME NEW t \in TimestampStruct, NEW c, c = Marshal1("Timestamp", t)
    PROVE  c \in Seq(Byte) /\ (c = <<>> \/ c[1] \in {8, 16})
<1>1. PICK T : T = "Timestamp"
  OBVIOUS
<1>2. T \in Types /\ T \in Types0 \cup Types1 /\ t \in Struct[T]
  BY <1>1 DEF Types, Types0, Struct
<1>3. Coded(T, t, Inner1(T), Marshal1(T, t), Size1(T, t))
  BY <1>2, Coding1
<1>4. PICK J : J = Inner1(T)
  OBVIOUS
<1>5. PICK s : s = Size1(T, t)
  OBVIOUS
<1>6. Coded(T, t, J, c, s)
  BY <1>1, <1>3, <1>4, <1>5
<1>7. PICK a : Layered(a, T, t, J) /\ c = a[Len(Written[T])]
  BY <1>2, <1>6, Layers
<1>8. /\ Len(Written[T]) = 2 /\ Written[T][1] = Int32(16, "Nanos") /\ Written[T][2] = Int64(8, "Seconds")
  BY <1>1 DEF Written, MarshalTimestamp
<1>9. t.Nanos \in Int /\ t.Seconds \in Int
  BY HalfFacts, WordFacts DEF TimestampStruct, Int32s, Int64s
<1>10. a[0] = <<>> /\ a[1] \in Seq(Byte) /\ a[2] \in Seq(Byte) /\ c = a[2]
  BY <1>7, <1>8 DEF Layered
<1>11. /\ t.Nanos = 0 => a[1] = a[0]
       /\ t.Nanos # 0 => a[1] = (<<16>> \o groups(uint64(t.Nanos))) \o a[0]
  <2>1. PICK f : f = Written[T][1]
    OBVIOUS
  <2>2. f.kind = "int32" /\ f.key = 16 /\ f.name = "Nanos"
    BY <1>8, <2>1 DEF Int32, field
  <2>3. 1 \in 1 .. Len(Written[T])
    BY <1>8
  <2>4. PICK x : x = t[f.name] /\ x = t.Nanos
    BY <2>2
  <2>5. f.kind \in Numbers /\ f.kind \in {"int32", "int64"}
    BY <2>2 DEF Numbers
  <2>6. NumberLayer(a, 1, f, x)
    BY <1>7, <2>1, <2>3, <2>4, LayerOfNumber
  <2>7. /\ x = 0 => a[1] = a[1 - 1]
        /\ x # 0 => a[1] = (<<f.key>> \o groups(uint64(x))) \o a[1 - 1]
    BY <2>5, <2>6 DEF NumberLayer
  <2>8. a[1 - 1] = a[0] /\ f.key = 16 /\ x = t.Nanos
    BY <2>2, <2>4
  <2>9. /\ x = 0 => a[1] = a[0]
        /\ x # 0 => a[1] = (<<16>> \o groups(uint64(x))) \o a[0]
    BY <2>7, <2>8
  <2> QED BY <2>8, <2>9
<1>12. /\ t.Seconds = 0 => a[2] = a[1]
       /\ t.Seconds # 0 => a[2] = (<<8>> \o groups(uint64(t.Seconds))) \o a[1]
  <2>1. PICK f : f = Written[T][2]
    OBVIOUS
  <2>2. f.kind = "int64" /\ f.key = 8 /\ f.name = "Seconds"
    BY <1>8, <2>1 DEF Int64, field
  <2>3. 2 \in 1 .. Len(Written[T])
    BY <1>8
  <2>4. PICK x : x = t[f.name] /\ x = t.Seconds
    BY <2>2
  <2>5. f.kind \in Numbers /\ f.kind \in {"int32", "int64"}
    BY <2>2 DEF Numbers
  <2>6. NumberLayer(a, 2, f, x)
    BY <1>7, <2>1, <2>3, <2>4, LayerOfNumber
  <2>7. /\ x = 0 => a[2] = a[2 - 1]
        /\ x # 0 => a[2] = (<<f.key>> \o groups(uint64(x))) \o a[2 - 1]
    BY <2>5, <2>6 DEF NumberLayer
  <2>8. a[2 - 1] = a[1] /\ f.key = 8 /\ x = t.Seconds
    BY <2>2, <2>4
  <2>9. /\ x = 0 => a[2] = a[1]
        /\ x # 0 => a[2] = (<<8>> \o groups(uint64(x))) \o a[1]
    BY <2>7, <2>8
  <2> QED BY <2>8, <2>9
<1>13. groups(uint64(t.Nanos)) \in Seq(Byte) /\ groups(uint64(t.Seconds)) \in Seq(Byte)
  BY <1>9, ConversionTypes, GroupsFacts
<1>14. 8 \in Byte /\ 16 \in Byte /\ <<>> \in Seq(Byte)
  BY DEF Byte
<1>15. a[1] = <<>> \/ a[1][1] = 16
  <2>1. PICK g : g = groups(uint64(t.Nanos))
    OBVIOUS
  <2>2. t.Nanos # 0 => Leads(16, g, <<>>, a[1])
    BY <1>10, <1>11, <1>13, <1>14, <2>1 DEF Leads
  <2>3. t.Nanos # 0 => Led(16, g, <<>>, a[1])
    BY <2>2, FirstIsKey
  <2> QED BY <1>10, <1>11, <2>3 DEF Led
<1>16. a[2] = a[1] \/ a[2][1] = 8
  <2>1. PICK g : g = groups(uint64(t.Seconds))
    OBVIOUS
  <2>2. t.Seconds # 0 => Leads(8, g, a[1], a[2])
    BY <1>10, <1>12, <1>13, <1>14, <2>1 DEF Leads
  <2>3. t.Seconds # 0 => Led(8, g, a[1], a[2])
    BY <2>2, FirstIsKey
  <2> QED BY <1>12, <2>3 DEF Led
<1> QED BY <1>10, <1>15, <1>16

(* A hash begins with its key. *)
LEMMA HashBytes ==
    ASSUME NEW h \in Seq(Byte), Len(h) # 0, NEW c, c = Marshal1("CanonicalDataHash", [Hash |-> h])
    PROVE  c \in Seq(Byte) /\ c # <<>> /\ c[1] = 10
<1>1. PICK T : T = "CanonicalDataHash"
  OBVIOUS
<1>2. PICK t : t = [Hash |-> h]
  OBVIOUS
<1>3. T \in Types /\ T \in Types0 \cup Types1 /\ t \in Struct[T] /\ t.Hash = h
  BY <1>1, <1>2 DEF Types, Types0, Struct, CanonicalDataHashStruct
<1>4. Coded(T, t, Inner1(T), Marshal1(T, t), Size1(T, t))
  BY <1>3, Coding1
<1>5. PICK J : J = Inner1(T)
  OBVIOUS
<1>6. PICK s : s = Size1(T, t)
  OBVIOUS
<1>7. Coded(T, t, J, c, s)
  BY <1>1, <1>2, <1>4, <1>5, <1>6
<1>8. PICK a : Layered(a, T, t, J) /\ c = a[Len(Written[T])]
  BY <1>3, <1>7, Layers
<1>9. Len(Written[T]) = 1 /\ Written[T][1] = Bytes(10, "Hash")
  BY <1>1 DEF Written, MarshalCanonicalDataHash
<1>10. a[0] = <<>> /\ c = a[1]
  BY <1>8, <1>9 DEF Layered
<1>11. a[1] = item(10, h) \o a[0]
  <2>1. PICK f : f = Written[T][1]
    OBVIOUS
  <2>2. f.kind = "bytes" /\ f.key = 10 /\ f.name = "Hash"
    BY <1>9, <2>1 DEF Bytes, field
  <2>3. 1 \in 1 .. Len(Written[T])
    BY <1>9
  <2>4. h = t[f.name]
    BY <1>3, <2>2
  <2>6. NumberLayer(a, 1, f, h)
    BY <1>8, <2>1, <2>3, <2>4, LayerOfNumber
  <2> QED BY <2>2, <2>6 DEF NumberLayer
<1>12. groups(uint64(Len(h))) \o h \in Seq(Byte)
  <2>1. uint64(Len(h)) \in Nat /\ uint64(Len(h)) < Word
    BY LenProperties, ConversionTypes
  <2> QED BY <2>1, GroupsFacts, Concat
<1>13. 10 \in Byte /\ <<>> \in Seq(Byte)
  BY DEF Byte
<1>14. PICK e : e = groups(uint64(Len(h))) \o h
  OBVIOUS
<1>15. Leads(10, e, <<>>, c)
  BY <1>10, <1>11, <1>12, <1>13, <1>14 DEF item, Leads
<1>16. Led(10, e, <<>>, c)
  BY <1>15, FirstIsKey
<1>17. c \in Seq(Byte) /\ Len(c) >= 1 /\ c[1] = 10
  BY <1>16 DEF Led
<1> QED BY <1>17

(* x is a number under a key, and r. *)
Numbered(x, key, v, r) ==
    /\ key \in Byte /\ v \in Nat /\ v < Word /\ r \in Seq(Byte)
    /\ x = <<key>> \o (groups(v) \o r)

(* Bytes that begin with a numbered field: the number is read from them. *)
LEMMA NumberedFacts ==
    ASSUME NEW x \in Seq(Byte), NEW key, NEW v, NEW r, Numbered(x, key, v, r)
    PROVE  /\ Len(x) = 1 + sov(v) + Len(r) /\ sov(v) \in Nat /\ Len(r) \in Nat
           /\ Has(x, 1 + sov(v), r)
           /\ readVarint(x, 1) = read(v, 1 + sov(v))
<1>1. key \in Byte /\ v \in Nat /\ v < Word /\ r \in Seq(Byte)
  BY DEF Numbered
<1>2. groups(v) \in Seq(Byte) /\ Len(groups(v)) = sov(v) /\ sov(v) \in Nat
  BY <1>1, GroupsFacts
<1>3. PICK g \in Seq(Byte) : g = groups(v)
  BY <1>2
<1>4. PICK y \in Seq(Byte) : y = g \o r
  BY <1>1, Concat
<1>5. <<key>> \in Seq(Byte) /\ Len(<<key>>) = 1
  BY <1>1, One
<1>6. PICK o \in Seq(Byte) : o = <<key>>
  BY <1>5
<1>7. x = o \o y
  BY <1>3, <1>4, <1>6 DEF Numbered
<1>8. Len(x) = Len(o) + Len(y) /\ Len(y) = Len(g) + Len(r) /\ Len(r) \in Nat
  BY <1>1, <1>4, <1>7, Concat
<1>9. Has(x, Len(o), y)
  BY <1>7, HasParts
<1>10. Len(o) = 1
  BY <1>5, <1>6
<1>11. Has(x, 1, g \o r)
  BY <1>4, <1>9, <1>10
<1>12. Has(x, 1, g) /\ Has(x, 1 + Len(g), r)
  BY <1>1, <1>11, HasConcat
<1>13. readVarint(x, 1) = read(v, 1 + sov(v))
  BY <1>1, <1>3, <1>12, ReadBack
<1>14. Has(x, 1 + sov(v), r)
  BY <1>2, <1>3, <1>12
<1> QED BY <1>2, <1>3, <1>8, <1>10, <1>13, <1>14

(* What follows the number is told by the bytes. *)
LEMMA NumberedOnce ==
    ASSUME NEW x \in Seq(Byte), NEW key, NEW v, NEW w, NEW q, NEW r,
           Numbered(x, key, v, q), Numbered(x, key, w, r)
    PROVE  q = r
<1>1. q \in Seq(Byte) /\ r \in Seq(Byte)
  BY DEF Numbered
<1>2. /\ Len(x) = 1 + sov(v) + Len(q) /\ sov(v) \in Nat /\ Len(q) \in Nat
      /\ Has(x, 1 + sov(v), q) /\ readVarint(x, 1) = read(v, 1 + sov(v))
  BY NumberedFacts
<1>3. /\ Len(x) = 1 + sov(w) + Len(r) /\ sov(w) \in Nat /\ Len(r) \in Nat
      /\ Has(x, 1 + sov(w), r) /\ readVarint(x, 1) = read(w, 1 + sov(w))
  BY NumberedFacts
<1>4. v = w
  BY <1>2, <1>3 DEF read
<1>5. Len(q) = Len(r)
  BY <1>2, <1>3, <1>4
<1>6. PICK i \in Nat : i = 1 + sov(v)
  BY <1>2
<1>7. Has(x, i, q) /\ Has(x, i, r)
  BY <1>2, <1>3, <1>4, <1>6
<1>8. \A k \in 1 .. Len(q) : q[k] = r[k]
  BY <1>5, <1>7 DEF Has
<1> QED BY <1>1, <1>5, <1>8, SameSeq

(* r begins with the hash h, if there is one, and then the time t. *)
HashAndTime(r, hk, tk, h, t) ==
    \E e \in Seq(Byte), d \in Seq(Byte) :
        /\ e = Marshal1("Timestamp", t)
        /\ h = Nil => r = item(tk, e) \o d
        /\ h # Nil => \E g \in Seq(Byte) :
              g = Marshal1("CanonicalDataHash", h) /\ r = item(hk, g) \o (item(tk, e) \o d)

(* The hash and the time of canonical messages, as bytes. *)
LEMMA HashAndTimePut ==
    ASSUME NEW T, NEW m, NEW a, Layered(a, T, m, Inner2(T)), Len(Written[T]) \in Nat,
           Len(Written[T]) >= 3, NEW hk, NEW tk, Written[T][2] = Time(tk, "Timestamp"),
           Written[T][3] = Pointer(hk, "DataHash", "CanonicalDataHash")
    PROVE  HashAndTime(a[3], hk, tk, m.DataHash, m.Timestamp)
<1>1. PICK f : f = Written[T][2]
  OBVIOUS
<1>2. PICK g : g = Written[T][3]
  OBVIOUS
<1>3. f.kind = "stdtime" /\ f.key = tk /\ f.name = "Timestamp" /\ f.of = "Timestamp"
  BY <1>1 DEF Time, field
<1>4. g.kind = "pointer" /\ g.key = hk /\ g.name = "DataHash" /\ g.of = "CanonicalDataHash"
  BY <1>2 DEF Pointer, field
<1>5. 1 \in 0 .. Len(Written[T]) /\ 2 \in 1 .. Len(Written[T]) /\ 3 \in 1 .. Len(Written[T])
  OBVIOUS
<1>6. PICK t : t = m[f.name] /\ t = m.Timestamp
  BY <1>3
<1>7. PICK h : h = m[g.name] /\ h = m.DataHash
  BY <1>4
<1>8. MessageLayer(a, 2, f, t)
  BY <1>1, <1>3, <1>5, <1>6, LayerOfMessage
<1>9. MessageLayer(a, 3, g, h)
  BY <1>2, <1>4, <1>5, <1>7, LayerOfMessage
<1>10. PICK e : e = Marshal1("Timestamp", t)
  OBVIOUS
<1>11. e \in Seq(Byte) /\ a[2] = item(tk, e) \o a[2 - 1]
  BY <1>3, <1>8, <1>10 DEF MessageLayer
<1>12. PICK d \in Seq(Byte) : d = a[1]
  BY <1>5 DEF Layered
<1>13. a[2] = item(tk, e) \o d
  <2>1. 2 - 1 = 1
    OBVIOUS
  <2> QED BY <1>11, <1>12, <2>1
<1>14. 3 - 1 = 2
  OBVIOUS
<1>15. CASE h = Nil
  <2>1. a[3] = a[2]
    BY <1>4, <1>9, <1>14, <1>15 DEF MessageLayer
  <2> QED BY <1>6, <1>7, <1>10, <1>11, <1>13, <1>15, <2>1 DEF HashAndTime
<1>16. CASE h # Nil
  <2>1. PICK y : y = Marshal1("CanonicalDataHash", h)
    OBVIOUS
  <2>2. y \in Seq(Byte) /\ a[3] = item(hk, y) \o a[2]
    BY <1>4, <1>9, <1>14, <1>16, <2>1 DEF MessageLayer
  <2> QED BY <1>6, <1>7, <1>10, <1>11, <1>13, <1>16, <2>1, <2>2 DEF HashAndTime
<1> QED BY <1>15, <1>16

(* A number that is zero is not put. *)
LEMMA ZeroNotPut ==
    ASSUME NEW T, NEW m, NEW J, NEW a, Layered(a, T, m, J), NEW k \in 1 .. Len(Written[T]),
           NEW f, f = Written[T][k], f.kind \in Numbers, m[f.name] = 0
    PROVE  a[k] = a[k - 1]
<1>1. PICK x : x = m[f.name]
  OBVIOUS
<1>2. NumberLayer(a, k, f, x)
  BY <1>1, LayerOfNumber
<1> QED BY <1>1, <1>2 DEF NumberLayer

(* What is signed of a vote, as bytes. *)
LEMMA CanonicalVoteBytes ==
    ASSUME NEW m \in CanonicalVoteStruct, m.Height = 0, m.Round = 0,
           NEW x, x = MarshalToSizedBuffer("CanonicalVote", m)
    PROVE  \E r \in Seq(Byte) :
              /\ HashAndTime(r, 34, 42, m.DataHash, m.Timestamp)
              /\ m.Type = 0 => x = r
              /\ m.Type # 0 => Numbered(x, 8, uint64(m.Type), r)
<1>1. PICK T : T = "CanonicalVote"
  OBVIOUS
<1>2. T \in Types /\ m \in Struct[T]
  BY <1>1 DEF Types, Types1, Struct
<1>3. PICK s : s = Size2(T, m)
  OBVIOUS
<1>4. Coded(T, m, Inner2(T), x, s)
  BY <1>1, <1>2, <1>3, Coding2
<1>5. PICK a : Layered(a, T, m, Inner2(T)) /\ x = a[Len(Written[T])]
  BY <1>2, <1>4, Layers
<1>6. /\ Len(Written[T]) = 6
      /\ Written[T][2] = Time(42, "Timestamp")
      /\ Written[T][3] = Pointer(34, "DataHash", "CanonicalDataHash")
      /\ Written[T][4] = Fixed64(25, "Round") /\ Written[T][5] = Fixed64(17, "Height")
      /\ Written[T][6] = Int32(8, "Type")
  BY <1>1 DEF Written, MarshalCanonicalVote
<1>7. Len(Written[T]) \in Nat /\ Len(Written[T]) >= 3
  BY <1>6
<1>8. HashAndTime(a[3], 34, 42, m.DataHash, m.Timestamp)
  BY <1>5, <1>6, <1>7, HashAndTimePut
<1>9. a[4] = a[3]
  <2>1. PICK f : f = Written[T][4]
    OBVIOUS
  <2>2. f.kind \in Numbers /\ m[f.name] = 0 /\ 4 \in 1 .. Len(Written[T])
    BY <1>6, <2>1 DEF Fixed64, field, Numbers
  <2>3. a[4] = a[4 - 1]
    BY <1>5, <2>1, <2>2, ZeroNotPut
  <2> QED BY <2>3
<1>10. a[5] = a[4]
  <2>1. PICK f : f = Written[T][5]
    OBVIOUS
  <2>2. f.kind \in Numbers /\ m[f.name] = 0 /\ 5 \in 1 .. Len(Written[T])
    BY <1>6, <2>1 DEF Fixed64, field, Numbers
  <2>3. a[5] = a[5 - 1]
    BY <1>5, <2>1, <2>2, ZeroNotPut
  <2> QED BY <2>3
<1>11. PICK f : f = Written[T][6]
  OBVIOUS
<1>12. f.kind = "int32" /\ f.key = 8 /\ f.name = "Type" /\ 6 \in 1 .. Len(Written[T])
  BY <1>6, <1>11 DEF Int32, field
<1>13. PICK v : v = m[f.name] /\ v = m.Type
  BY <1>12
<1>14. NumberLayer(a, 6, f, v)
  BY <1>5, <1>11, <1>12, <1>13, LayerOfNumber
<1>15. f.kind \in Numbers /\ f.kind \in {"int32", "int64"}
  BY <1>12 DEF Numbers
<1>16. v = 0 => a[6] = a[6 - 1]
  BY <1>14, <1>15 DEF NumberLayer
<1>17. v # 0 => a[6] = (<<8>> \o groups(uint64(v))) \o a[6 - 1]
  BY <1>12, <1>14, <1>15 DEF NumberLayer
<1>18. PICK r \in Seq(Byte) : r = a[3]
  <2>1. 3 \in 0 .. Len(Written[T])
    BY <1>6
  <2> QED BY <1>5, <2>1 DEF Layered
<1>19. a[6 - 1] = r /\ x = a[6]
  BY <1>5, <1>6, <1>9, <1>10, <1>18
<1>20. v \in Int
  BY <1>13, HalfFacts DEF CanonicalVoteStruct, Int32s
<1>21. uint64(v) \in Nat /\ uint64(v) < Word
  BY <1>20, ConversionTypes
<1>22. 8 \in Byte
  BY DEF Byte
<1>23. groups(uint64(v)) \in Seq(Byte) /\ <<8>> \in Seq(Byte)
  BY <1>21, <1>22, GroupsFacts, One
<1>24. PICK g : g = groups(uint64(v))
  OBVIOUS
<1>25. v # 0 => Leads(8, g, r, x)
  BY <1>17, <1>18, <1>19, <1>22, <1>23, <1>24 DEF Leads
<1>26. v # 0 => Numbered(x, 8, uint64(v), r)
  <2>1. v # 0 => Led(8, g, r, x)
    BY <1>25, FirstIsKey
  <2> QED BY <1>18, <1>21, <1>22, <1>24, <2>1 DEF Numbered, Led
<1>27. v = 0 => x = r
  BY <1>16, <1>19
<1> QED BY <1>8, <1>13, <1>18, <1>26, <1>27

(* And of a proposal, whose type is not zero. *)
LEMMA CanonicalProposalBytes ==
    ASSUME NEW m \in CanonicalProposalStruct, m.Height = 0, m.Round = 0, m.POLRound = 0, m.Type # 0,
           NEW x, x = MarshalToSizedBuffer("CanonicalProposal", m)
    PROVE  \E r \in Seq(Byte) :
              /\ HashAndTime(r, 42, 50, m.DataHash, m.Timestamp)
              /\ Numbered(x, 8, uint64(m.Type), r)
<1>1. PICK T : T = "CanonicalProposal"
  OBVIOUS
<1>2. T \in Types /\ m \in Struct[T]
  BY <1>1 DEF Types, Types1, Struct
<1>3. PICK s : s = Size2(T, m)
  OBVIOUS
<1>4. Coded(T, m, Inner2(T), x, s)
  BY <1>1, <1>2, <1>3, Coding2
<1>5. PICK a : Layered(a, T, m, Inner2(T)) /\ x = a[Len(Written[T])]
  BY <1>2, <1>4, Layers
<1>6. /\ Len(Written[T]) = 7
      /\ Written[T][2] = Time(50, "Timestamp")
      /\ Written[T][3] = Pointer(42, "DataHash", "CanonicalDataHash")
      /\ Written[T][4] = Int64(32, "POLRound")
      /\ Written[T][5] = Fixed64(25, "Round") /\ Written[T][6] = Fixed64(17, "Height")
      /\ Written[T][7] = Int32(8, "Type")
  BY <1>1 DEF Written, MarshalCanonicalProposal
<1>7. Len(Written[T]) \in Nat /\ Len(Written[T]) >= 3
  BY <1>6
<1>8. HashAndTime(a[3], 42, 50, m.DataHash, m.Timestamp)
  BY <1>5, <1>6, <1>7, HashAndTimePut
<1>9. a[4] = a[3]
  <2>1. PICK f : f = Written[T][4]
    OBVIOUS
  <2>2. f.kind \in Numbers /\ m[f.name] = 0 /\ 4 \in 1 .. Len(Written[T])
    BY <1>6, <2>1 DEF Int64, field, Numbers
  <2>3. a[4] = a[4 - 1]
    BY <1>5, <2>1, <2>2, ZeroNotPut
  <2> QED BY <2>3
<1>10. a[5] = a[4]
  <2>1. PICK f : f = Written[T][5]
    OBVIOUS
  <2>2. f.kind \in Numbers /\ m[f.name] = 0 /\ 5 \in 1 .. Len(Written[T])
    BY <1>6, <2>1 DEF Fixed64, field, Numbers
  <2>3. a[5] = a[5 - 1]
    BY <1>5, <2>1, <2>2, ZeroNotPut
  <2> QED BY <2>3
<1>11. a[6] = a[5]
  <2>1. PICK f : f = Written[T][6]
    OBVIOUS
  <2>2. f.kind \in Numbers /\ m[f.name] = 0 /\ 6 \in 1 .. Len(Written[T])
    BY <1>6, <2>1 DEF Fixed64, field, Numbers
  <2>3. a[6] = a[6 - 1]
    BY <1>5, <2>1, <2>2, ZeroNotPut
  <2> QED BY <2>3
<1>12. PICK f : f = Written[T][7]
  OBVIOUS
<1>13. f.kind = "int32" /\ f.key = 8 /\ f.name = "Type" /\ 7 \in 1 .. Len(Written[T])
  BY <1>6, <1>12 DEF Int32, field
<1>14. PICK v : v = m[f.name] /\ v = m.Type
  BY <1>13
<1>15. NumberLayer(a, 7, f, v)
  BY <1>5, <1>12, <1>13, <1>14, LayerOfNumber
<1>16. f.kind \in {"int32", "int64"}
  BY <1>13
<1>17. a[7] = (<<8>> \o groups(uint64(v))) \o a[7 - 1]
  BY <1>13, <1>14, <1>15, <1>16 DEF NumberLayer
<1>18. PICK r \in Seq(Byte) : r = a[3]
  <2>1. 3 \in 0 .. Len(Written[T])
    BY <1>6
  <2> QED BY <1>5, <2>1 DEF Layered
<1>19. a[7 - 1] = r /\ x = a[7]
  BY <1>5, <1>6, <1>9, <1>10, <1>11, <1>18
<1>20. v \in Int
  BY <1>14, HalfFacts DEF CanonicalProposalStruct, Int32s
<1>21. uint64(v) \in Nat /\ uint64(v) < Word
  BY <1>20, ConversionTypes
<1>22. 8 \in Byte
  BY DEF Byte
<1>23. groups(uint64(v)) \in Seq(Byte) /\ <<8>> \in Seq(Byte)
  BY <1>21, <1>22, GroupsFacts, One
<1>24. PICK g : g = groups(uint64(v))
  OBVIOUS
<1>25. Leads(8, g, r, x)
  BY <1>17, <1>18, <1>19, <1>22, <1>23, <1>24 DEF Leads
<1>26. Numbered(x, 8, uint64(v), r)
  <2>1. Led(8, g, r, x)
    BY <1>25, FirstIsKey
  <2> QED BY <1>18, <1>21, <1>22, <1>24, <2>1 DEF Numbered, Led
<1> QED BY <1>8, <1>14, <1>18, <1>26

(* What begins with an item begins with its key, and the item can be read. *)
LEMMA LedByItem ==
    ASSUME NEW key \in Byte, NEW e \in Seq(Byte), NEW d \in Seq(Byte), NEW r, r = item(key, e) \o d
    PROVE  /\ r \in Seq(Byte) /\ Len(r) >= 1 /\ r[1] = key
           /\ r \in Data => readDelimited(r, 1) = read(e, Len(item(key, e)))
<1>1. PICK c : c = item(key, e)
  OBVIOUS
<1>2. c \in Seq(Byte) /\ Len(c) \in Nat /\ Len(c) >= 1
  BY <1>1, ItemNotEmpty
<1>3. r = c \o d
  BY <1>1
<1>4. r \in Seq(Byte) /\ Len(r) = Len(c) + Len(d) /\ Len(d) \in Nat /\ r[1] = c[1]
  BY <1>2, <1>3, Concat
<1>5. PICK g : g = groups(uint64(Len(e))) \o e
  OBVIOUS
<1>6. g \in Seq(Byte)
  <2>1. uint64(Len(e)) \in Nat /\ uint64(Len(e)) < Word
    BY LenProperties, ConversionTypes
  <2> QED BY <1>5, <2>1, GroupsFacts, Concat
<1>7. c = <<key>> \o g
  BY <1>1, <1>5 DEF item
<1>8. <<key>> \in Seq(Byte) /\ Len(<<key>>) = 1 /\ <<key>>[1] = key
  BY One
<1>9. c[1] = key
  BY <1>6, <1>7, <1>8, Concat
<1>10. Has(r, 0, c)
  BY <1>2, <1>3, HasParts
<1>11. Has(r, 0, item(key, e))
  BY <1>1, <1>10
<1>12. ASSUME r \in Data PROVE readDelimited(r, 1) = read(e, Len(item(key, e)))
  <2>1. PICK b \in Data : b = r
    BY <1>12
  <2>2. Has(b, 0, item(key, e))
    BY <1>11, <2>1
  <2>3. readDelimited(b, 0 + 1) = read(e, 0 + Len(item(key, e)))
    BY <2>2, ReadItem
  <2>4. 0 + 1 = 1 /\ 0 + Len(item(key, e)) = Len(item(key, e))
    BY <1>1, <1>2
  <2> QED BY <2>1, <2>3, <2>4
<1> QED BY <1>2, <1>4, <1>9, <1>12

(* Whether there is a hash shows in the first byte. *)
LEMMA HashLeads ==
    ASSUME NEW r, NEW g, NEW t, NEW hk \in Byte, NEW tk \in Byte, HashAndTime(r, hk, tk, g, t)
    PROVE  /\ g = Nil => r[1] = tk
           /\ g # Nil => r[1] = hk
<1>1. PICK e \in Seq(Byte), d \in Seq(Byte) :
          /\ g = Nil => r = item(tk, e) \o d
          /\ g # Nil => \E y \in Seq(Byte) : r = item(hk, y) \o (item(tk, e) \o d)
  BY DEF HashAndTime
<1>2. g = Nil => r[1] = tk
  BY <1>1, LedByItem
<1>3. ASSUME g # Nil PROVE r[1] = hk
  <2>1. PICK y \in Seq(Byte) : r = item(hk, y) \o (item(tk, e) \o d)
    BY <1>1, <1>3
  <2>2. PICK z : z = item(tk, e)
    OBVIOUS
  <2>3. z \in Seq(Byte)
    BY <2>2, ItemNotEmpty
  <2>4. PICK x \in Seq(Byte) : x = z \o d
    BY <2>3, Concat
  <2>5. r = item(hk, y) \o x
    BY <2>1, <2>2, <2>4
  <2> QED BY <2>5, LedByItem
<1> QED BY <1>2, <1>3

(* What begins with a hash and a time under the keys of a vote, and under those
   of a proposal. *)
LEMMA HashesDiffer ==
    ASSUME NEW r \in Data, NEW g, NEW h, NEW t \in TimestampStruct, NEW u,
           NEW j \in Byte, NEW k \in Byte, NEW l \in Byte, j # k, j # l, k # l,
           HashAndTime(r, j, k, g, t), HashAndTime(r, k, l, h, u),
           h # Nil => \E y \in Seq(Byte) : Len(y) # 0 /\ h = [Hash |-> y]
    PROVE  FALSE
<1>1. PICK e \in Seq(Byte), d \in Seq(Byte) :
          /\ e = Marshal1("Timestamp", t)
          /\ g = Nil => r = item(k, e) \o d
          /\ g # Nil => \E y \in Seq(Byte) :
                y = Marshal1("CanonicalDataHash", g) /\ r = item(j, y) \o (item(k, e) \o d)
  BY DEF HashAndTime
<1>2. PICK f \in Seq(Byte), c \in Seq(Byte) :
          /\ h = Nil => r = item(l, f) \o c
          /\ h # Nil => \E y \in Seq(Byte) :
                y = Marshal1("CanonicalDataHash", h) /\ r = item(k, y) \o (item(l, f) \o c)
  BY DEF HashAndTime
<1>4. g = Nil => r[1] = k /\ readDelimited(r, 1) = read(e, Len(item(k, e)))
  <2>1. SUFFICES ASSUME g = Nil
                 PROVE  r[1] = k /\ readDelimited(r, 1) = read(e, Len(item(k, e)))
    OBVIOUS
  <2>2. r = item(k, e) \o d
    BY <1>1, <2>1
  <2>3. PICK x : x = item(k, e) \o d /\ x = r
    BY <2>2
  <2>4. x[1] = k /\ (x \in Data => readDelimited(x, 1) = read(e, Len(item(k, e))))
    BY <2>3, LedByItem
  <2> QED BY <2>3, <2>4
<1>5. g # Nil => r[1] = j
  <2>1. SUFFICES ASSUME g # Nil PROVE r[1] = j
    OBVIOUS
  <2>2. PICK y \in Seq(Byte) : r = item(j, y) \o (item(k, e) \o d)
    BY <1>1, <2>1
  <2>3. PICK z : z = item(k, e)
    OBVIOUS
  <2>4. z \in Seq(Byte)
    BY <2>3, ItemNotEmpty
  <2>5. PICK x \in Seq(Byte) : x = z \o d
    BY <2>4, Concat
  <2>6. r = item(j, y) \o x
    BY <2>2, <2>3, <2>5
  <2> QED BY <2>6, LedByItem
<1>6. h = Nil => r[1] = l
  BY <1>2, LedByItem
<1>7. h # Nil => \E y \in Seq(Byte) : y = Marshal1("CanonicalDataHash", h) /\ r[1] = k
                   /\ readDelimited(r, 1) = read(y, Len(item(k, y)))
  <2>1. SUFFICES ASSUME h # Nil
                 PROVE  \E y \in Seq(Byte) : y = Marshal1("CanonicalDataHash", h) /\ r[1] = k
                            /\ readDelimited(r, 1) = read(y, Len(item(k, y)))
    OBVIOUS
  <2>2. PICK y \in Seq(Byte) : y = Marshal1("CanonicalDataHash", h) /\ r = item(k, y) \o (item(l, f) \o c)
    BY <1>2, <2>1
  <2>3. PICK z : z = item(l, f)
    OBVIOUS
  <2>4. z \in Seq(Byte)
    BY <2>3, ItemNotEmpty
  <2>5. PICK x \in Seq(Byte) : x = z \o c
    BY <2>4, Concat
  <2>6. r = item(k, y) \o x
    BY <2>2, <2>3, <2>5
  <2>7. r[1] = k /\ readDelimited(r, 1) = read(y, Len(item(k, y)))
    BY <2>6, LedByItem
  <2> QED BY <2>2, <2>7
<1>8. g = Nil /\ h # Nil /\ readDelimited(r, 1) = read(e, Len(item(k, e)))
  BY <1>4, <1>5, <1>6, <1>7
<1>9. PICK y \in Seq(Byte) : y = Marshal1("CanonicalDataHash", h)
                             /\ readDelimited(r, 1) = read(y, Len(item(k, y)))
  BY <1>7, <1>8
<1>10. e = y
  BY <1>8, <1>9 DEF read
<1>11. e = <<>> \/ e[1] \in {8, 16}
  BY <1>1, TimeBytes
<1>12. PICK o \in Seq(Byte) : Len(o) # 0 /\ h = [Hash |-> o]
  BY <1>8
<1>13. y = Marshal1("CanonicalDataHash", [Hash |-> o])
  BY <1>9, <1>12
<1>14. y # <<>> /\ y[1] = 10
  BY <1>12, <1>13, HashBytes
<1> QED BY <1>10, <1>11, <1>14

(* What is signed of a vote is never what is signed of a proposal, whatever the
   type of the vote. *)
LEMMA CanonicalsDiffer ==
    ASSUME NEW m \in CanonicalVoteStruct, m.Height = 0, m.Round = 0,
           NEW n \in CanonicalProposalStruct, n.Height = 0, n.Round = 0, n.POLRound = 0, n.Type # 0,
           n.DataHash # Nil => \E y \in Seq(Byte) : Len(y) # 0 /\ n.DataHash = [Hash |-> y],
           NEW x \in Data, x = MarshalToSizedBuffer("CanonicalVote", m),
           x = MarshalToSizedBuffer("CanonicalProposal", n)
    PROVE  FALSE
<1>1. PICK g : g = m.DataHash
  OBVIOUS
<1>2. PICK t \in TimestampStruct : t = m.Timestamp
  BY TimesAreStructs DEF CanonicalVoteStruct
<1>3. PICK h : h = n.DataHash
  OBVIOUS
<1>4. PICK u : u = n.Timestamp
  OBVIOUS
<1>5. PICK q \in Seq(Byte) : /\ HashAndTime(q, 34, 42, m.DataHash, m.Timestamp)
                             /\ m.Type = 0 => x = q
                             /\ m.Type # 0 => Numbered(x, 8, uint64(m.Type), q)
  BY CanonicalVoteBytes
<1>6. PICK r \in Seq(Byte) : /\ HashAndTime(r, 42, 50, n.DataHash, n.Timestamp)
                             /\ Numbered(x, 8, uint64(n.Type), r)
  BY CanonicalProposalBytes
<1>7. x \in Seq(Byte) /\ Len(x) \in Nat /\ Len(x) < IntRange
  BY DataFacts
<1>8. x[1] = 8
  <2>1. PICK v : v = uint64(n.Type)
    OBVIOUS
  <2>2. v \in Nat /\ v < Word /\ x = <<8>> \o (groups(v) \o r) /\ 8 \in Byte
    BY <1>6, <2>1 DEF Numbered
  <2>3. PICK y : y = groups(v) \o r
    OBVIOUS
  <2>4. y \in Seq(Byte)
    BY <1>6, <2>2, <2>3, GroupsFacts, Concat
  <2>5. <<8>> \in Seq(Byte) /\ Len(<<8>>) = 1 /\ <<8>>[1] = 8
    BY <2>2, One
  <2>6. x = <<8>> \o y
    BY <2>2, <2>3
  <2> QED BY <2>4, <2>5, <2>6, Concat
<1>9. q = r /\ r \in Data
  <2>1. m.Type # 0
    <3>1. SUFFICES ASSUME m.Type = 0 PROVE FALSE
      OBVIOUS
    <3>2. x = q
      BY <1>5, <3>1
    <3>3. PICK j, k \in Byte : j = 34 /\ k = 42
      BY DEF Byte
    <3>4. HashAndTime(q, j, k, g, t)
      BY <1>1, <1>2, <1>5, <3>3
    <3>5. q[1] = j \/ q[1] = k
      BY <3>4, HashLeads
    <3> QED BY <1>8, <3>2, <3>3, <3>5
  <2>2. PICK v : v = uint64(m.Type)
    OBVIOUS
  <2>3. PICK w : w = uint64(n.Type)
    OBVIOUS
  <2>4. Numbered(x, 8, v, q) /\ Numbered(x, 8, w, r)
    BY <1>5, <1>6, <2>1, <2>2, <2>3
  <2>5. q = r
    BY <1>7, <2>4, NumberedOnce
  <2>6. Len(x) = 1 + sov(w) + Len(r) /\ sov(w) \in Nat /\ Len(r) \in Nat
    BY <1>7, <2>4, NumberedFacts
  <2>7. Len(r) < IntRange
    <3>1. IntRange \in Nat
      BY WordFacts
    <3> QED BY <1>7, <2>6, <3>1
  <2> QED BY <1>6, <2>5, <2>7 DEF Data
<1>10. PICK j, k, l \in Byte : j = 34 /\ k = 42 /\ l = 50
  BY DEF Byte
<1>12. HashAndTime(r, j, k, g, t) /\ HashAndTime(r, k, l, h, u)
  BY <1>1, <1>2, <1>3, <1>4, <1>5, <1>6, <1>9, <1>10
<1>13. j # k /\ j # l /\ k # l
  BY <1>10
<1>11. h # Nil => \E y \in Seq(Byte) : Len(y) # 0 /\ h = [Hash |-> y]
  BY <1>3
<1> QED BY <1>9, <1>11, <1>12, <1>13, HashesDiffer

-----------------------------------------------------------------------------
(* A Message that is cut off. *)

(* A turn with a known field whose value cannot be read. *)
LEMMA TurnFails ==
    ASSUME NEW T \in Readable, NEW k \in DOMAIN Expected[T], NEW f, f = Expected[T][k],
           NEW b \in Data, NEW x, NEW i \in Nat, i + 1 <= Len(b), b[i + 1] = 8 * k + WireType(f),
           NEW raw, raw = rawOf(f, b, i + 1), raw.err # "none", NEW I
    PROVE  turnAt(T, b, read(x, i), I) = raw
<1>1. k \in 1 .. 8
  BY Lengths
<1>2. WireType(f) \in 0 .. 2
  BY WireTypes
<1>3. PICK r : r = read(x, i)
  OBVIOUS
<1>4. r.i = i /\ r.v = x
  BY <1>3 DEF read
<1>5. PICK key : key = keyAt(b, r)
  OBVIOUS
<1>6. key = read(8 * k + WireType(f), i + 1)
  <2>1. b \in Seq(Byte) /\ 8 * k + WireType(f) < 128
    BY <1>1, <1>2, DataFacts
  <2> QED BY <1>4, <1>5, <2>1, ReadKey DEF keyAt
<1>7. key.err = "none" /\ fieldNum(key) = k /\ key.v % 8 = WireType(f) /\ key.i = i + 1
  BY <1>1, <1>2, <1>6, KeyOfField
<1>8. known(T, k) /\ fieldOf(T, k) = f
  BY <1>1, KnownFields
<1>9. fieldAt(T, b, r) = f /\ rawAt(T, b, r) = raw
  BY <1>5, <1>7, <1>8 DEF fieldAt, rawAt
<1>10. PICK inner : inner = I[<<f.of, target(x, f), raw.v>>]
  OBVIOUS
<1>11. turnAt(T, b, r, I) = turn(T, b, r, key, raw, inner)
  BY <1>4, <1>5, <1>9, <1>10 DEF turnAt, turnWith
<1>12. ~ (key.v % 8 = 4 \/ fieldNum(key) <= 0)
  BY <1>1, <1>2, <1>7
<1>13. turn(T, b, r, key, raw, inner) = raw
  BY <1>4, <1>7, <1>8, <1>12 DEF turn
<1> QED BY <1>3, <1>11, <1>13

(* b is the first bytes of a field that is delimited by its length. *)
CutItem(b, key, e) ==
    /\ b \in Data /\ key \in Byte /\ e \in Seq(Byte) /\ item(key, e) \in Data
    /\ Len(b) < Len(item(key, e)) /\ \A k \in 1 .. Len(b) : b[k] = item(key, e)[k]

(* Where the parts of the field are. *)
LEMMA ItemParts ==
    ASSUME NEW key \in Byte, NEW e \in Seq(Byte), NEW c \in Data, c = item(key, e)
    PROVE  /\ Len(e) \in Nat /\ Len(e) < Word /\ Len(e) < IntRange /\ sov(Len(e)) \in Nat
           /\ groups(Len(e)) \in Seq(Byte) /\ Len(groups(Len(e))) = sov(Len(e))
           /\ Len(c) = 1 + sov(Len(e)) + Len(e)
           /\ Has(c, 1, groups(Len(e))) /\ c[1] = key
<1>1. PICK l \in Nat : l = Len(e)
  BY LenProperties
<1>2. PICK v \in Nat : v = uint64(l) /\ v < Word
  BY ConversionTypes
<1>3. groups(v) \in Seq(Byte) /\ Len(groups(v)) = sov(v) /\ sov(v) \in Nat
  BY <1>2, GroupsFacts
<1>4. PICK g \in Seq(Byte) : g = groups(v)
  BY <1>3
<1>5. PICK y \in Seq(Byte) : y = g \o e
  BY Concat
<1>6. PICK o \in Seq(Byte) : o = <<key>> /\ Len(o) = 1 /\ o[1] = key
  BY One
<1>7. c = o \o y
  BY <1>1, <1>2, <1>4, <1>5, <1>6 DEF item
<1>8. Len(c) = Len(o) + Len(y) /\ Len(y) = Len(g) + Len(e)
  BY <1>5, <1>7, Concat
<1>9. Has(c, Len(o), y) /\ c \in Seq(Byte) /\ Len(c) < IntRange
  BY <1>7, HasParts, DataFacts
<1>10. c[1] = o[1]
  BY <1>6, <1>7, Concat
<1>11. Has(c, 1, g \o e)
  BY <1>5, <1>6, <1>9
<1>12. Has(c, 1, g)
  BY <1>9, <1>11, HasConcat
<1>13. Len(c) = 1 + sov(v) + l
  BY <1>1, <1>3, <1>4, <1>6, <1>8
<1>14. l < IntRange /\ l < Word
  BY <1>3, <1>9, <1>13, WordFacts
<1>15. v = l
  BY <1>2, <1>14, SmallIsItself
<1> QED BY <1>1, <1>3, <1>4, <1>6, <1>10, <1>12, <1>13, <1>14, <1>15

(* The field cannot be read. *)
LEMMA CutNotRead ==
    ASSUME NEW b, NEW key, NEW e, CutItem(b, key, e), Len(b) >= 1
    PROVE  b[1] = key /\ readDelimited(b, 1).err # "none"
<1>1. b \in Data /\ b \in Seq(Byte) /\ Len(b) \in Nat /\ key \in Byte /\ e \in Seq(Byte)
  BY DataFacts DEF CutItem
<1>2. PICK c \in Data : c = item(key, e)
  BY DEF CutItem
<1>3. Len(b) < Len(c) /\ \A k \in 1 .. Len(b) : b[k] = c[k]
  BY <1>2 DEF CutItem
<1>4. PICK v \in Nat : v = Len(e)
  BY <1>1, LenProperties
<1>5. /\ v < Word /\ v < IntRange /\ sov(v) \in Nat
      /\ groups(v) \in Seq(Byte) /\ Len(groups(v)) = sov(v)
      /\ Len(c) = 1 + sov(v) + v
      /\ Has(c, 1, groups(v)) /\ c[1] = key
  BY <1>1, <1>2, <1>4, ItemParts
<1>6. PICK n \in Nat : n = sov(v)
  BY <1>5
<1>7. PICK g \in Seq(Byte) : g = groups(v) /\ Len(g) = n
  BY <1>5, <1>6
<1>8. \A k \in 1 .. n : c[1 + k] = g[k]
  BY <1>5, <1>7 DEF Has
<1>9. b[1] = key
  BY <1>1, <1>3, <1>5
<1>10. CASE Len(b) < 1 + n
  <2>1. \A k \in 1 .. Len(b) - 1 : b[1 + k] = g[k]
    BY <1>1, <1>3, <1>8, <1>10
  <2>2. readVarint(b, 1) = fail("UnexpectedEOF")
    BY <1>1, <1>5, <1>6, <1>7, <1>10, <2>1, ReadCut
  <2>3. readDelimited(b, 1) = fail("UnexpectedEOF")
    BY <2>2 DEF readDelimited, sliceOf, fail
  <2> QED BY <1>9, <2>3 DEF fail
<1>11. CASE 1 + n <= Len(b)
  <2>1. \A k \in 1 .. n : b[1 + k] = g[k]
    <3>1. SUFFICES ASSUME NEW k \in 1 .. n PROVE b[1 + k] = g[k]
      OBVIOUS
    <3>2. 1 + k \in 1 .. Len(b)
      BY <1>1, <1>11
    <3>3. b[1 + k] = c[1 + k]
      BY <1>3, <3>2
    <3> QED BY <1>8, <3>3
  <2>2. Has(b, 1, groups(v))
    BY <1>7, <1>11, <2>1 DEF Has
  <2>3. readVarint(b, 1) = read(v, 1 + n)
    BY <1>1, <1>5, <1>6, <2>2, ReadBack
  <2>4. PICK i \in 0 .. Len(b) : i = 1 + n
    BY <1>1, <1>11
  <2>5. v \in 0 .. Word - 1
    BY <1>5, WordFacts
  <2>6. ~ (v < IntRange /\ i + v <= Len(b))
    BY <1>1, <1>3, <1>5, <1>6, <2>4
  <2>7. sliceOf(b, read(v, i)) \in {fail("InvalidLength"), fail("UnexpectedEOF")}
    BY <1>1, <2>4, <2>5, <2>6, SliceOf
  <2>8. readDelimited(b, 1) = sliceOf(b, read(v, i))
    BY <2>3, <2>4 DEF readDelimited
  <2> QED BY <1>9, <2>7, <2>8 DEF fail
<1> QED BY <1>1, <1>6, <1>10, <1>11

(* Of nothing, Unmarshal makes a Message with no case; of a Message that is cut
   off it makes nothing. *)
LEMMA CutMessage ==
    ASSUME NEW b, NEW key \in {10, 18}, NEW e, CutItem(b, key, e), NEW o, o = Unmarshal("Message", b)
    PROVE  (o.err = "none" /\ o.v.Sum = Nil) \/ (o.err # "none" /\ o.err # "panic")
<1>1. PICK T : T = "Message"
  OBVIOUS
<1>2. PICK m : m = New(T)
  OBVIOUS
<1>3. T \in Readable /\ m \in Struct[T]
  BY <1>1, <1>2, NewTyped DEF Readable
<1>4. b \in Data /\ Len(b) \in Nat
  BY DataFacts DEF CutItem
<1>5. PICK I : I = Into2(T)
  OBVIOUS
<1>6. Decoded(T, m, b, I, o)
  BY <1>1, <1>2, <1>3, <1>4, <1>5, Decoding2 DEF Unmarshal
<1>7. PICK a : Loop(a, T, b, I) /\ a[0] = read(m, 0) /\ o = outcome(a, b)
  BY <1>3, <1>4, <1>6, RunStarts
<1>8. CASE Len(b) = 0
  <2>1. o = read(m, 0)
    BY <1>7, <1>8 DEF outcome, read
  <2>2. Zeros(m, T)
    BY <1>2, <1>3, NewZeros
  <2>3. Expected[T][1] = Case(1, "Sum", "Proposal") /\ 1 \in DOMAIN Expected[T]
    BY <1>1 DEF Expected, UnmarshalMessage
  <2>4. PICK f : f = Expected[T][1]
    OBVIOUS
  <2>5. f.kind = "case" /\ f.name = "Sum"
    BY <2>3, <2>4 DEF Case, field
  <2>6. m[f.name] = zeroOf(f)
    BY <2>2, <2>3, <2>4 DEF Zeros
  <2>7. zeroOf(f) = Nil
    BY <2>5 DEF zeroOf, WireType
  <2> QED BY <2>1, <2>5, <2>6, <2>7 DEF read
<1>9. CASE Len(b) >= 1
  <2>1. b[1] = key /\ readDelimited(b, 1).err # "none"
    BY <1>9, CutNotRead
  <2>2. PICK k \in {1, 2} : key = 8 * k + 2
    OBVIOUS
  <2>3. PICK f : f = Expected[T][k]
    OBVIOUS
  <2>4. f.kind = "case" /\ k \in DOMAIN Expected[T]
    BY <1>1, <2>3 DEF Expected, UnmarshalMessage, Case, field
  <2>5. WireType(f) = 2
    BY <2>4, WireTypes DEF Numbers
  <2>6. PICK raw : raw = rawOf(f, b, 0 + 1)
    OBVIOUS
  <2>7. raw = readDelimited(b, 1)
    BY <2>5, <2>6 DEF rawOf
  <2>8. raw.err # "none" /\ b[0 + 1] = 8 * k + WireType(f) /\ 0 + 1 <= Len(b)
    BY <1>9, <2>1, <2>2, <2>5, <2>7
  <2>9. turnAt(T, b, read(m, 0), I) = raw
    BY <1>3, <1>4, <2>3, <2>4, <2>6, <2>8, TurnFails
  <2>10. Reached(a, m, 0)
    BY <1>7 DEF Reached
  <2>11. o = raw
    BY <1>4, <1>7, <1>9, <2>8, <2>9, <2>10, Fails
  <2>12. raw \in Results(Data, Len(b))
    BY <1>4, <2>7, ReadDelimitedTyped
  <2>13. raw.err # "panic"
    BY <2>12, ResultFacts
  <2> QED BY <2>8, <2>11, <2>13
<1> QED BY <1>4, <1>8, <1>9
=============================================================================
