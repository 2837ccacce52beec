-------------------------- MODULE MemoryOpsProofs --------------------------
(***************************************************************************)
(* Facts that the proofs of several components need: of numbers; of the    *)
(* casts of Words.tla, for every number of bits in a byte; and of the      *)
(* loads and stores of MemoryOps.tla, for every stack window too: values   *)
(* of the type their width says, and maps that stay inside the window.     *)
(***************************************************************************)
EXTENDS MemoryOps, WellFoundedInduction, TLAPS

-----------------------------------------------------------------------------
(* Numbers. *)

\* Of the numbers of a set one is the least.
LEMMA LeastNumber ==
    ASSUME NEW S \in SUBSET Nat, S # {}
    PROVE  \E x \in S : \A y \in S : x <= y
<1> DEFINE R == OpToRel(<, Nat)
<1>1. IsWellFoundedOn(R, Nat)
    BY NatLessThanWellFounded
<1>2. PICK x \in S : \A y \in S : ~(<<y, x>> \in R)
    <2> HIDE DEF R
    <2> QED BY <1>1, WFMin
<1>3. \A y \in S : ~(y < x)
    BY <1>2 DEF OpToRel
<1> QED BY <1>3

\* A set with zero and the successors of its numbers has all of them.
LEMMA EveryNumber ==
    ASSUME NEW S, 0 \in S, \A n \in Nat : n \in S => n + 1 \in S
    PROVE  Nat \subseteq S
<1> DEFINE T == Nat \ S
<1> SUFFICES ASSUME T # {} PROVE FALSE
    OBVIOUS
<1>1. PICK t \in T : \A z \in T : t <= z
    <2> T \in SUBSET Nat
        OBVIOUS
    <2> HIDE DEF T
    <2> QED BY LeastNumber
<1>2. t - 1 \in Nat /\ ~(t <= t - 1) /\ (t - 1) + 1 = t
    BY <1>1
<1> QED BY <1>1, <1>2

\* Of finitely many indices one is the last.
LEMMA LastIndex ==
    ASSUME NEW u \in Nat, NEW S \in SUBSET (1 .. u), S # {}
    PROVE  \E x \in S : \A y \in S : y <= x
<1> DEFINE T == {u - x : x \in S}
<1>1. T \in SUBSET Nat /\ T # {}
    <2>1. \A y \in 1 .. u : u - y \in Nat
        OBVIOUS
    <2> QED BY <2>1
<1>2. PICK t \in T : \A z \in T : t <= z
    <2> HIDE DEF T
    <2> QED BY <1>1, LeastNumber
<1>3. PICK x \in S : t = u - x
    BY <1>2
<1>4. ASSUME NEW y \in S PROVE y <= x
    <2>1. u - x <= u - y
        BY <1>2, <1>3
    <2> QED BY <2>1
<1> QED BY <1>4

-----------------------------------------------------------------------------
(* Words. *)

\* The index of Pow2 that a width or a byte number stands for.
LEMMA BitCount ==
    ASSUME NEW k \in 0 .. 8
    PROVE  ByteBits * k \in 0 .. RegBits
<1>1. ByteBits \in Nat
    BY WordsAssumption
<1>2. 0 <= ByteBits * k /\ ByteBits * k <= 8 * ByteBits /\ ByteBits * k \in Int
    BY <1>1
<1> QED BY <1>1, <1>2 DEF RegBits

LEMMA ModulusPositive ==
    ASSUME NEW w \in 0 .. 8
    PROVE  /\ Modulus(w) \in Nat \ {0}
           /\ Pow2[ByteBits * w] \in Nat \ {0}
BY BitCount, WordsAssumption DEF Modulus

\* Twice as many bytes have the square of the number of values.
LEMMA ModulusSum ==
    ASSUME NEW v \in 0 .. 8, NEW w \in 0 .. 8, v + w <= 8
    PROVE  Modulus(v + w) = Modulus(v) * Modulus(w)
<1>1. ByteBits * v \in 0 .. RegBits /\ ByteBits * w \in 0 .. RegBits
    BY BitCount
<1>2. v + w \in 0 .. 8
    OBVIOUS
<1>3. ByteBits * (v + w) \in 0 .. RegBits
    BY <1>2, BitCount
<1>4. ByteBits * (v + w) = ByteBits * v + ByteBits * w
    BY WordsAssumption
<1>5. \A m, n \in 0 .. RegBits :
          m + n <= RegBits => Pow2[m + n] = Pow2[m] * Pow2[n]
    BY WordsAssumption
<1>6. ByteBits * v + ByteBits * w <= RegBits
    BY <1>3, <1>4
<1>7. Pow2[ByteBits * v + ByteBits * w] = Pow2[ByteBits * v] * Pow2[ByteBits * w]
    BY <1>1, <1>5, <1>6
<1> QED BY <1>4, <1>7 DEF Modulus

LEMMA ByteHasTwoValues == Modulus(1) >= 2
<1>1. ByteBits - 1 \in 0 .. RegBits /\ 1 \in 0 .. RegBits /\ ByteBits \in 0 .. RegBits
    BY WordsAssumption DEF RegBits
<1>2. Pow2[1 + (ByteBits - 1)] = Pow2[1] * Pow2[ByteBits - 1]
    BY <1>1, WordsAssumption DEF RegBits
<1>3. Pow2[ByteBits - 1] \in Nat \ {0}
    BY <1>1, WordsAssumption
<1>4. 1 + (ByteBits - 1) = ByteBits /\ ByteBits * 1 = ByteBits
    BY WordsAssumption
<1> QED BY <1>2, <1>3, <1>4, WordsAssumption DEF Modulus

\* A product of positive numbers is at least each of them.
LEMMA ProductGrows ==
    ASSUME NEW a \in Nat \ {0}, NEW b \in Nat \ {0}
    PROVE  a <= a * b
OBVIOUS

\* A narrower integer has fewer values, and at least two fewer bits twice that.
LEMMA ModulusGrows ==
    ASSUME NEW v \in 0 .. 8, NEW w \in 0 .. 8, v <= w
    PROVE  /\ Modulus(v) <= Modulus(w)
           /\ v < w => 2 * Modulus(v) <= Modulus(w)
<1>1. w - v \in 0 .. 8 /\ v + (w - v) = w
    OBVIOUS
<1>2. Modulus(w) = Modulus(v) * Modulus(w - v)
    BY <1>1, ModulusSum
<1>3. Modulus(v) \in Nat \ {0} /\ Modulus(w - v) \in Nat \ {0}
    BY <1>1, ModulusPositive
<1>4. Modulus(v) <= Modulus(w)
    BY <1>2, <1>3, ProductGrows
<1>5. ASSUME v < w PROVE 2 * Modulus(v) <= Modulus(w)
    <2>1. w - v - 1 \in 0 .. 8 /\ 1 + (w - v - 1) = w - v /\ 1 \in 0 .. 8
        BY <1>5
    <2>2. Modulus(w - v) = Modulus(1) * Modulus(w - v - 1)
        BY <2>1, ModulusSum
    <2>3. Modulus(w - v - 1) \in Nat \ {0} /\ Modulus(1) \in Nat \ {0}
        BY <2>1, ModulusPositive
    <2>4. Modulus(w - v) >= 2
        BY <2>2, <2>3, ProductGrows, ByteHasTwoValues
    <2> DEFINE a == Modulus(v)
               b == Modulus(w - v)
    <2>5. a \in Nat /\ b \in Nat /\ b >= 2
        BY <1>3, <2>4
    <2>6. a * b >= a * 2
        <3> HIDE DEF a, b
        <3> QED BY <2>5
    <2> QED BY <1>2, <2>5, <2>6
<1> QED BY <1>4, <1>5

-----------------------------------------------------------------------------
\* Casts return what their type says.
LEMMA WidthsAreByteCounts == ASSUME NEW w \in Widths PROVE w \in 0 .. 8
BY DEF Widths

LEMMA AsUnsignedType ==
    ASSUME NEW x \in Int, NEW w \in Widths
    PROVE  AsUnsigned(x, w) \in Unsigned(w)
<1> DEFINE m == Modulus(w)
<1>1. m \in Nat \ {0}
    BY WidthsAreByteCounts, ModulusPositive
<1>2. x % m \in 0 .. m - 1
    <2> HIDE DEF m
    <2> QED BY <1>1
<1> QED BY <1>2 DEF AsUnsigned, Unsigned

LEMMA AsSignedType ==
    ASSUME NEW x \in Int, NEW w \in Widths
    PROVE  AsSigned(x, w) \in Signed(w)
<1> DEFINE m == Modulus(w)
           u == AsUnsigned(x, w)
<1>1. m \in Nat \ {0}
    BY WidthsAreByteCounts, ModulusPositive
<1>2. u \in 0 .. m - 1
    BY AsUnsignedType DEF Unsigned
<1>3. AsSigned(x, w) = IF 2 * u < m THEN u ELSE u - m
    BY DEF AsSigned
<1>4. Signed(w) = {y \in Int : -m <= 2 * y /\ 2 * y < m}
    BY DEF Signed
<1> HIDE DEF m, u
<1> QED BY <1>1, <1>2, <1>3, <1>4

LEMMA ByteOfType ==
    ASSUME NEW x \in Int, NEW k \in 0 .. 8
    PROVE  ByteOf(x, k) \in Unsigned(1)
<1> DEFINE p == Pow2[ByteBits * k]
           m == Modulus(1)
<1>1. p \in Nat \ {0} /\ m \in Nat \ {0}
    BY ModulusPositive
<1>2. (x \div p) % m \in 0 .. m - 1
    <2> HIDE DEF p, m
    <2>1. x \div p \in Int
        BY <1>1
    <2> QED BY <1>1, <2>1
<1> QED BY <1>2 DEF ByteOf, Unsigned

\* The wider types hold the narrower ones.
LEMMA WiderTypes ==
    ASSUME NEW v \in Widths, NEW w \in Widths, v <= w
    PROVE  /\ Unsigned(v) \subseteq Unsigned(w)
           /\ Signed(v) \subseteq Signed(w)
           /\ v < w => Unsigned(v) \subseteq Signed(w)
<1> DEFINE m == Modulus(v)
           n == Modulus(w)
<1>1. m \in Nat \ {0} /\ n \in Nat \ {0} /\ m <= n /\ (v < w => 2 * m <= n)
    BY WidthsAreByteCounts, ModulusPositive, ModulusGrows
<1>2. /\ Unsigned(v) = 0 .. m - 1 /\ Unsigned(w) = 0 .. n - 1
      /\ Signed(v) = {y \in Int : -m <= 2 * y /\ 2 * y < m}
      /\ Signed(w) = {y \in Int : -n <= 2 * y /\ 2 * y < n}
    BY DEF Unsigned, Signed
<1> HIDE DEF m, n
<1> QED BY <1>1, <1>2

-----------------------------------------------------------------------------
\* Division, as bytes are cut out of words.
LEMMA DivisionSplits ==
    ASSUME NEW x \in Int, NEW m \in Nat \ {0}
    PROVE  x \div m \in Int /\ x % m = x - m * (x \div m)
OBVIOUS

LEMMA DivOfSum ==
    ASSUME NEW m \in Nat \ {0}, NEW x \in Int, NEW y \in Int
    PROVE  (x + y * m) \div m = (x \div m) + y
OBVIOUS

LEMMA ModOfSum ==
    ASSUME NEW m \in Nat \ {0}, NEW x \in Int, NEW y \in Int
    PROVE  (x + y * m) % m = x % m
<1>1. /\ x \div m \in Int /\ x + y * m \in Int
      /\ m * ((x \div m) + y) = m * (x \div m) + y * m
    BY DivisionSplits
<1>2. (x + y * m) \div m = (x \div m) + y
    BY DivOfSum
<1>3. (x + y * m) % m = (x + y * m) - m * ((x \div m) + y)
    BY <1>1, <1>2, DivisionSplits
<1>4. x % m = x - m * (x \div m)
    BY DivisionSplits
<1>5. y * m \in Int /\ m * (x \div m) \in Int
    BY <1>1
<1> QED BY <1>1, <1>3, <1>4, <1>5

LEMMA DivOfProduct ==
    ASSUME NEW m \in Nat \ {0}, NEW n \in Nat \ {0}, NEW x \in Int
    PROVE  x \div (m * n) = (x \div m) \div n
OBVIOUS

LEMMA DivOfSmall ==
    ASSUME NEW m \in Nat \ {0}, NEW x \in 0 .. m - 1
    PROVE  x \div m = 0 /\ x % m = x
OBVIOUS

-----------------------------------------------------------------------------
(* The bytes of a number that is put together from two halves are those of *)
(* the low half, then those of the high half.                              *)
LEMMA BytesOfLowHalf ==
    ASSUME NEW w \in {1, 2, 4}, NEW x \in Int, NEW y \in Int, NEW k \in 0 .. w - 1
    PROVE  ByteOf(x + y * Modulus(w), k) = ByteOf(x, k)
<1> DEFINE p == Modulus(k)
           b == Modulus(1)
           r == Modulus(w - k - 1)
<1>1. p \in Nat \ {0} /\ b \in Nat \ {0} /\ r \in Nat \ {0}
    BY ModulusPositive
<1>2. Modulus(w) = (r * b) * p
    <2>1. Modulus((w - k - 1) + 1) = r * b
        BY ModulusSum
    <2>2. Modulus((w - k) + k) = Modulus(w - k) * p
        BY ModulusSum
    <2>3. (w - k - 1) + 1 = w - k /\ (w - k) + k = w
        OBVIOUS
    <2> QED BY <2>1, <2>2, <2>3
<1>3. /\ ByteOf(x + y * Modulus(w), k) = ((x + y * Modulus(w)) \div p) % b
      /\ ByteOf(x, k) = (x \div p) % b
    BY DEF ByteOf, Modulus
<1> HIDE DEF p, b, r
<1>4. y * Modulus(w) = (y * r * b) * p
    BY <1>1, <1>2
<1>5. (x + (y * r * b) * p) \div p = (x \div p) + (y * r) * b
    <2>1. y * r * b \in Int /\ y * r * b = (y * r) * b
        BY <1>1
    <2> QED BY <1>1, <2>1, DivOfSum
<1>6. x \div p \in Int /\ y * r \in Int
    BY <1>1, DivisionSplits
<1>7. ((x \div p) + (y * r) * b) % b = (x \div p) % b
    BY <1>1, <1>6, ModOfSum
<1> QED BY <1>3, <1>4, <1>5, <1>7

LEMMA BytesOfHighHalf ==
    ASSUME NEW w \in {1, 2, 4}, NEW x \in Unsigned(w), NEW y \in Int,
           NEW k \in 0 .. w - 1
    PROVE  ByteOf(x + y * Modulus(w), w + k) = ByteOf(y, k)
<1> DEFINE m == Modulus(w)
           p == Modulus(k)
           b == Modulus(1)
<1>1. m \in Nat \ {0} /\ p \in Nat \ {0} /\ b \in Nat \ {0}
    BY ModulusPositive
<1>2. Modulus(w + k) = m * p
    BY ModulusSum
<1>3. x \in 0 .. m - 1
    BY DEF Unsigned
<1>4. /\ ByteOf(x + y * m, w + k) = ((x + y * m) \div Modulus(w + k)) % b
      /\ ByteOf(y, k) = (y \div p) % b
    BY DEF ByteOf, Modulus
<1> HIDE DEF m, p, b
<1>5. (x + y * m) \div m = y
    BY <1>1, <1>3, DivOfSum, DivOfSmall
<1>6. x + y * m \in Int
    BY <1>1, <1>3
<1>7. (x + y * m) \div (m * p) = ((x + y * m) \div m) \div p
    BY <1>1, <1>6, DivOfProduct
<1>8. ByteOf(x + y * m, w + k) = ByteOf(y, k)
    BY <1>2, <1>4, <1>5, <1>7
<1> QED BY <1>8 DEF m

LEMMA ByteOfByte ==
    ASSUME NEW x \in Unsigned(1)
    PROVE  ByteOf(x, 0) = x
<1>1. ByteBits * 0 = 0 /\ Pow2[0] = 1
    BY WordsAssumption
<1>2. Modulus(1) \in Nat \ {0} /\ x \in 0 .. Modulus(1) - 1
    BY ModulusPositive DEF Unsigned
<1>3. x \div 1 = x /\ x % Modulus(1) = x
    BY <1>2, DivOfSmall
<1> QED BY <1>1, <1>3 DEF ByteOf

\* Sign extension keeps the bits.
LEMMA UnsignedOfSigned ==
    ASSUME NEW w \in Widths, NEW u \in Unsigned(w)
    PROVE  AsUnsigned(AsSigned(u, w), w) = u
<1> DEFINE m == Modulus(w)
<1>1. m \in Nat \ {0} /\ u \in 0 .. m - 1 /\ u \in Int
    BY ModulusPositive, WidthsAreByteCounts DEF Unsigned
<1>2. AsSigned(u, w) = IF 2 * (u % m) < m THEN u % m ELSE (u % m) - m
    BY DEF AsSigned, AsUnsigned
<1>3. AsUnsigned(AsSigned(u, w), w) = AsSigned(u, w) % m
    BY DEF AsUnsigned
<1> HIDE DEF m
<1>4. u % m = u
    BY <1>1, DivOfSmall
<1>5. (u - m) % m = u
    BY <1>1
<1> QED BY <1>2, <1>3, <1>4, <1>5

-----------------------------------------------------------------------------
(* A cast changes a value by a multiple of the number of values of its     *)
(* type, and not at all when the value has that type already.              *)
LEMMA MultipleMod ==
    ASSUME NEW m \in Nat \ {0}, NEW n \in Int
    PROVE  (n * m) % m = 0 /\ (-(n * m)) % m = 0
<1>1. 0 % m = 0
    BY DivOfSmall
<1>2. (0 + n * m) % m = 0 /\ (0 + (-n) * m) % m = 0
    BY <1>1, ModOfSum
<1>3. 0 + n * m = n * m /\ 0 + (-n) * m = -(n * m)
    OBVIOUS
<1> QED BY <1>2, <1>3

LEMMA CastsAreCongruent ==
    ASSUME NEW x \in Int, NEW w \in Widths
    PROVE  /\ \E n \in Int : AsUnsigned(x, w) = x + n * Modulus(w)
           /\ \E n \in Int : AsSigned(x, w) = x + n * Modulus(w)
<1> DEFINE m == Modulus(w)
           n == -(x \div m)
<1>1. m \in Nat \ {0}
    BY WidthsAreByteCounts, ModulusPositive
<1>2. AsUnsigned(x, w) = x % m /\ AsSigned(x, w) \in {x % m, (x % m) - m}
    BY DEF AsSigned, AsUnsigned
<1> HIDE DEF m
<1>3. x \div m \in Int /\ x % m = x - m * (x \div m)
    BY <1>1, DivisionSplits
<1>4. n \in Int /\ n - 1 \in Int
    BY <1>3
<1>5. x % m = x + n * m
    BY <1>1, <1>3
<1>6. (x % m) - m = x + (n - 1) * m
    BY <1>1, <1>3, <1>5
<1> HIDE DEF n
<1>7. AsUnsigned(x, w) = x + n * m
    BY <1>2, <1>5
<1>8. AsSigned(x, w) = x + n * m \/ AsSigned(x, w) = x + (n - 1) * m
    BY <1>2, <1>5, <1>6
<1> QED BY <1>4, <1>7, <1>8 DEF m

LEMMA UnsignedOfI64 ==
    ASSUME NEW x \in I64
    PROVE  AsUnsigned(x, 8) = IF x < 0 THEN x + Modulus(8) ELSE x
<1> DEFINE m == Modulus(8)
<1>1. m \in Nat \ {0}
    BY ModulusPositive
<1>2. x \in Int /\ -m <= 2 * x /\ 2 * x < m
    BY DEF I64, Signed
<1>3. AsUnsigned(x, 8) = x % m
    BY DEF AsUnsigned
<1> HIDE DEF m
<1>4. CASE x < 0
    <2>1. (x + m) % m = x + m
        BY <1>1, <1>2, <1>4, DivOfSmall
    <2>2. \A y \in Int : (x + y * m) % m = x % m
        BY <1>1, <1>2, ModOfSum
    <2>3. 1 \in Int /\ x + 1 * m = x + m
        BY <1>1, <1>2
    <2> QED BY <1>3, <1>4, <2>1, <2>2, <2>3 DEF m
<1>5. CASE x >= 0
    <2>1. x % m = x /\ ~(x < 0)
        BY <1>1, <1>2, <1>5, DivOfSmall
    <2> QED BY <1>3, <2>1
<1> QED BY <1>2, <1>4, <1>5

\* A width divides the number of values of the widest integer.
LEMMA WidthDividesModulus ==
    ASSUME NEW w \in Widths
    PROVE  \E k \in Nat : Modulus(8) = k * w
<1> DEFINE p == Pow2[ByteBits - 1]
<1>1. ByteBits - 1 \in 0 .. RegBits /\ 1 \in 0 .. RegBits /\ ByteBits \in 0 .. RegBits
    BY WordsAssumption DEF RegBits
<1>2. Pow2[1 + (ByteBits - 1)] = Pow2[1] * Pow2[ByteBits - 1]
    BY <1>1, WordsAssumption DEF RegBits
<1>3. p \in Nat
    BY <1>1, WordsAssumption
<1>4. 1 + (ByteBits - 1) = ByteBits /\ ByteBits * 1 = ByteBits
    BY WordsAssumption
<1>5. Modulus(1) = 2 * p
    BY <1>2, <1>4, WordsAssumption DEF Modulus
<1>6. /\ Modulus(1 + 1) = Modulus(1) * Modulus(1)
      /\ Modulus(2 + 2) = Modulus(2) * Modulus(2)
      /\ Modulus(4 + 4) = Modulus(4) * Modulus(4)
    BY ModulusSum
<1> HIDE DEF p
<1>7. PICK a \in Nat : Modulus(2) = 2 * a
    <2>1. Modulus(2) = 2 * (2 * (p * p)) /\ 2 * (p * p) \in Nat
        BY <1>3, <1>5, <1>6
    <2> QED BY <2>1
<1>8. PICK b \in Nat : Modulus(4) = 4 * b
    <2>1. Modulus(4) = 4 * (a * a) /\ a * a \in Nat
        BY <1>6, <1>7
    <2> QED BY <2>1
<1>9. PICK c \in Nat : Modulus(8) = 8 * c
    <2>1. Modulus(8) = 8 * (2 * (b * b)) /\ 2 * (b * b) \in Nat
        BY <1>6, <1>8
    <2> QED BY <2>1
<1>10. /\ 8 * c \in Nat /\ 4 * c \in Nat /\ 2 * c \in Nat
       /\ 8 * c = (8 * c) * 1 /\ 8 * c = (4 * c) * 2 /\ 8 * c = (2 * c) * 4 /\ 8 * c = c * 8
    OBVIOUS
<1> QED BY <1>9, <1>10 DEF Widths

\* So a cast to 64 bits does not change the alignment of an address.
LEMMA CastKeepsAlignment ==
    ASSUME NEW w \in Widths, NEW x \in Int, NEW n \in Int
    PROVE  (x + n * Modulus(8)) % w = x % w
<1>1. PICK k \in Nat : Modulus(8) = k * w
    BY WidthDividesModulus
<1>2. w \in Nat \ {0}
    BY DEF Widths
<1>3. n * k \in Int /\ n * (k * w) = (n * k) * w
    BY <1>2
<1>4. (x + (n * k) * w) % w = x % w
    BY <1>2, <1>3, ModOfSum
<1> QED BY <1>1, <1>3, <1>4

\* A cast to the width of the bytes ignores a cast before it.
LEMMA UnsignedOfCast ==
    ASSUME NEW x \in Int, NEW w \in Widths
    PROVE  AsUnsigned(AsSigned(x, w), w) = AsUnsigned(x, w)
<1> DEFINE m == Modulus(w)
<1>1. m \in Nat \ {0}
    BY WidthsAreByteCounts, ModulusPositive
<1>2. PICK n \in Int : AsSigned(x, w) = x + n * m
    BY CastsAreCongruent
<1>3. /\ AsUnsigned(x, w) = x % m
      /\ AsUnsigned(AsSigned(x, w), w) = (x + n * m) % m
    BY <1>2 DEF AsUnsigned
<1> HIDE DEF m
<1> QED BY <1>1, <1>3, ModOfSum

LEMMA UnsignedOfUnsigned ==
    ASSUME NEW w \in Widths, NEW u \in Unsigned(w)
    PROVE  AsUnsigned(u, w) = u
<1> DEFINE m == Modulus(w)
<1>1. m \in Nat \ {0} /\ u \in 0 .. m - 1
    BY WidthsAreByteCounts, ModulusPositive DEF Unsigned
<1>2. AsUnsigned(u, w) = u % m
    BY DEF AsUnsigned
<1> HIDE DEF m
<1> QED BY <1>1, <1>2, DivOfSmall

\* What a multiple of the number of values leaves of a difference.
LEMMA DifferenceMod ==
    ASSUME NEW w \in Widths, NEW x \in Int, NEW y, NEW n \in Int, y = x + n * Modulus(w)
    PROVE  (y - x) % Modulus(w) = 0 /\ (x - y) % Modulus(w) = 0
<1> DEFINE m == Modulus(w)
<1>1. m \in Nat \ {0}
    BY WidthsAreByteCounts, ModulusPositive
<1>2. y = x + n * m
    OBVIOUS
<1> HIDE DEF m
<1>3. n * m \in Int
    BY <1>1
<1>4. (n * m) % m = 0 /\ (-(n * m)) % m = 0
    BY <1>1, MultipleMod
<1>5. y - x = n * m /\ x - y = -(n * m)
    BY <1>2, <1>3
<1> QED BY <1>4, <1>5 DEF m

-----------------------------------------------------------------------------
(* Memory. *)

\* Two halves make a number of their joint size.
LEMMA JoinedHalves ==
    ASSUME NEW a \in Nat \ {0}, NEW b \in Nat \ {0},
           NEW x \in 0 .. a - 1, NEW y \in 0 .. b - 1
    PROVE  x + y * a \in 0 .. a * b - 1
<1>1. y * a <= (b - 1) * a /\ y * a >= 0
    OBVIOUS
<1>2. (b - 1) * a = a * b - a
    OBVIOUS
<1> QED BY <1>1, <1>2

LEMMA JoinedWords ==
    ASSUME NEW w \in {1, 2, 4}, NEW x \in Unsigned(w), NEW y \in Unsigned(w)
    PROVE  x + y * Modulus(w) \in Unsigned(2 * w)
<1>1. w \in 0 .. 8 /\ w + w <= 8 /\ 2 * w = w + w
    OBVIOUS
<1>2. Modulus(2 * w) = Modulus(w) * Modulus(w)
    BY <1>1, ModulusSum
<1>3. Modulus(w) \in Nat \ {0}
    BY <1>1, ModulusPositive
<1> QED BY <1>2, <1>3, JoinedHalves DEF Unsigned

\* A load returns an unsigned number of its width.
LEMMA LoadRawType ==
    ASSUME NEW m, IsSparseMap(m), NEW addr \in Int, NEW w \in Widths
    PROVE  LoadRaw(m, addr, w) \in Unsigned(w)
<1>1. \A a : Load8(m, a) \in Unsigned(1)
    <2>1. 0 \in Unsigned(1)
        BY ModulusPositive DEF Unsigned
    <2> QED BY <2>1 DEF Load8, IsSparseMap
<1>2. \A a \in Int : Load16(m, a) \in Unsigned(2)
    BY <1>1, JoinedWords DEF Load16
<1>3. \A a \in Int : Load32(m, a) \in Unsigned(4)
    <2> TAKE a \in Int
    <2>1. Load16(m, a) \in Unsigned(2) /\ Load16(m, a + 2) \in Unsigned(2)
        BY <1>2
    <2> QED BY <2>1, JoinedWords DEF Load32
<1>4. \A a \in Int : Load64(m, a) \in Unsigned(8)
    <2> TAKE a \in Int
    <2>1. Load32(m, a) \in Unsigned(4) /\ Load32(m, a + 4) \in Unsigned(4)
        BY <1>3
    <2> QED BY <2>1, JoinedWords DEF Load64
<1> QED BY <1>1, <1>2, <1>3, <1>4 DEF LoadRaw, Widths

LEMMA PreviousValueType ==
    ASSUME NEW m, IsSparseMap(m), NEW addr \in Int, NEW w \in Widths
    PROVE  PreviousValue(m, addr, w) \in Signed(w)
<1>1. LoadRaw(m, addr, w) \in Int
    BY LoadRawType, ModulusPositive, WidthsAreByteCounts DEF Unsigned
<1> QED BY <1>1, AsSignedType DEF PreviousValue

\* An access that has no fault lies in the window.
LEMMA NoFaultInWindow ==
    ASSUME NEW addr \in Int, NEW w \in Widths, Fault(addr, w) = {}
    PROVE  Span(addr, w) \subseteq Window
<1>1. ~OutsideWindow(addr, w)
    BY DEF Fault
<1> QED BY <1>1, MemoryAssumption, WidthsAreByteCounts
        DEF OutsideWindow, Span, Window, StackTop

\* A store that has no fault makes a map of bytes of the window.
LEMMA StoreRawType ==
    ASSUME NEW m, IsSparseMap(m), NEW addr \in Int, NEW w \in Widths,
           NEW value \in Int, Fault(addr, w) = {}
    PROVE  IsSparseMap(StoreRaw(m, addr, w, value))
<1> DEFINE s == StoreRaw(m, addr, w, value)
<1>1. DOMAIN s = DOMAIN m \cup Span(addr, w)
    BY DEF StoreRaw
<1>2. ASSUME NEW a \in DOMAIN s PROVE s[a] \in Unsigned(1)
    <2>1. CASE a \in Span(addr, w)
        <3>1. a - addr \in 0 .. 8
            BY <2>1, WidthsAreByteCounts DEF Span
        <3>2. s[a] = ByteOf(value, a - addr)
            BY <1>1, <1>2, <2>1 DEF StoreRaw
        <3> QED BY <3>1, <3>2, ByteOfType
    <2>2. CASE a \notin Span(addr, w)
        <3>1. a \in DOMAIN m /\ s[a] = m[a]
            BY <1>1, <1>2, <2>2 DEF StoreRaw
        <3> QED BY <3>1 DEF IsSparseMap
    <2> QED BY <2>1, <2>2
<1>3. s = [a \in DOMAIN s |-> s[a]]
    BY DEF StoreRaw
<1>4. DOMAIN s \subseteq Window
    BY <1>1, NoFaultInWindow DEF IsSparseMap
<1>5. s \in [DOMAIN s -> Unsigned(1)]
    <2> HIDE DEF s
    <2> QED BY <1>2, <1>3
<1> QED BY <1>4, <1>5 DEF IsSparseMap

-----------------------------------------------------------------------------
\* v is the little-endian number of the w bytes of m at a.
IsWordAt(v, m, a, w) ==
    v \in Unsigned(w) /\ \A k \in 0 .. w - 1 : ByteOf(v, k) = Load8(m, a + k)

LEMMA JoinedWordsAt ==
    ASSUME NEW w \in {1, 2, 4}, NEW m, NEW a \in Int, NEW x, NEW y,
           IsWordAt(x, m, a, w), IsWordAt(y, m, a + w, w)
    PROVE  IsWordAt(x + y * Modulus(w), m, a, 2 * w)
<1>1. x \in Unsigned(w) /\ y \in Unsigned(w) /\ x \in Int /\ y \in Int
    BY ModulusPositive DEF IsWordAt, Unsigned
<1>2. x + y * Modulus(w) \in Unsigned(2 * w)
    BY <1>1, JoinedWords
<1>3. ASSUME NEW k \in 0 .. 2 * w - 1
      PROVE  ByteOf(x + y * Modulus(w), k) = Load8(m, a + k)
    <2>1. CASE k < w
        <3>1. k \in 0 .. w - 1
            BY <2>1
        <3> QED BY <1>1, <3>1, BytesOfLowHalf DEF IsWordAt
    <2>2. CASE k >= w
        <3> DEFINE n == k - w
        <3>1. n \in 0 .. w - 1 /\ w + n = k /\ (a + w) + n = a + k
            BY <2>2
        <3>2. ByteOf(x + y * Modulus(w), w + n) = ByteOf(y, n)
            BY <1>1, <3>1, BytesOfHighHalf
        <3>3. ByteOf(y, n) = Load8(m, (a + w) + n)
            BY <3>1 DEF IsWordAt
        <3> QED BY <3>1, <3>2, <3>3
    <2> QED BY <2>1, <2>2
<1> QED BY <1>2, <1>3 DEF IsWordAt

\* A load returns the number whose bytes are stored at its addresses.
LEMMA LoadRawReads ==
    ASSUME NEW m, IsSparseMap(m), NEW addr \in Int, NEW w \in Widths
    PROVE  IsWordAt(LoadRaw(m, addr, w), m, addr, w)
<1>1. \A a \in Int : IsWordAt(Load8(m, a), m, a, 1)
    <2> TAKE a \in Int
    <2>1. Load8(m, a) \in Unsigned(1)
        BY ModulusPositive DEF Load8, IsSparseMap, Unsigned
    <2>2. \A k \in 0 .. 0 : k = 0 /\ a + k = a
        OBVIOUS
    <2> QED BY <2>1, <2>2, ByteOfByte DEF IsWordAt
<1>2. \A a \in Int : IsWordAt(Load16(m, a), m, a, 2)
    <2> TAKE a \in Int
    <2>1. IsWordAt(Load8(m, a), m, a, 1) /\ IsWordAt(Load8(m, a + 1), m, a + 1, 1)
        BY <1>1
    <2> QED BY <2>1, JoinedWordsAt DEF Load16
<1>3. \A a \in Int : IsWordAt(Load32(m, a), m, a, 4)
    <2> TAKE a \in Int
    <2>1. IsWordAt(Load16(m, a), m, a, 2) /\ IsWordAt(Load16(m, a + 2), m, a + 2, 2)
        BY <1>2
    <2> QED BY <2>1, JoinedWordsAt DEF Load32
<1>4. \A a \in Int : IsWordAt(Load64(m, a), m, a, 8)
    <2> TAKE a \in Int
    <2>1. IsWordAt(Load32(m, a), m, a, 4) /\ IsWordAt(Load32(m, a + 4), m, a + 4, 4)
        BY <1>3
    <2> QED BY <2>1, JoinedWordsAt DEF Load64
<1> QED BY <1>1, <1>2, <1>3, <1>4 DEF LoadRaw, Widths

\* An access that is refused for its range has a byte outside the window.
LEMMA OutsideLeavesWindow ==
    ASSUME NEW addr \in Nat, NEW w \in 1 .. 8, OutsideWindow(addr, w)
    PROVE  ~(Span(addr, w) \subseteq Window)
<1> SUFFICES ASSUME Span(addr, w) \subseteq Window PROVE FALSE
    OBVIOUS
<1>1. addr \in Span(addr, w) /\ addr + w - 1 \in Span(addr, w)
    BY DEF Span
<1>2. StackTop <= Modulus(8) /\ Modulus(8) \in Nat /\ StackTop \in Nat
    BY MemoryAssumption, ModulusPositive DEF StackTop
<1>3. StackBase <= addr /\ addr + w - 1 <= StackTop - 1
    BY <1>1, <1>2, MemoryAssumption DEF Window
<1> QED BY <1>2, <1>3, MemoryAssumption DEF OutsideWindow
=============================================================================
