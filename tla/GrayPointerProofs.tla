-------------------------- MODULE GrayPointerProofs --------------------------
(***************************************************************************)
(* GrayPointer at every depth the wrappers allow: the registers stand for  *)
(* the position AsyncFifo counts with, and a pointer caught while it       *)
(* changes is read as its old or its new value.                            *)
(*                                                                         *)
(* The argument: adding one to a number changes its bit i when all lower   *)
(* bits are ones, so neighbouring Gray words differ in the one bit where   *)
(* the run of ones ends; the last word of the range is the first with all  *)
(* bits inverted, so their Gray words differ in the top bit alone.         *)
(***************************************************************************)
EXTENDS GrayPointer, FiniteSetTheorems, WellFoundedInduction, TLAPS

----------------------------------------------------------------------------
(* Powers of two and the ranges of the code.                                *)

LEMMA Powers ==
  /\ 2 ^ 0 = 1 /\ 2 ^ 1 = 2 /\ 2 ^ 2 = 4 /\ 2 ^ 3 = 8 /\ 2 ^ 4 = 16
  /\ 2 ^ 5 = 32 /\ 2 ^ 6 = 64 /\ 2 ^ 7 = 128 /\ 2 ^ 8 = 256 /\ 2 ^ 9 = 512
BY SMT

LEMMA PowerSteps ==
  ASSUME NEW i \in 0 .. 8
  PROVE  2 ^ i \in Nat \ {0} /\ 2 ^ (i + 1) = 2 * 2 ^ i
<1>1. CASE i = 0
  BY <1>1, Powers
<1>2. CASE i = 1
  BY <1>2, Powers
<1>3. CASE i = 2
  BY <1>3, Powers
<1>4. CASE i = 3
  BY <1>4, Powers
<1>5. CASE i = 4
  BY <1>5, Powers
<1>6. CASE i = 5
  BY <1>6, Powers
<1>7. CASE i = 6
  BY <1>7, Powers
<1>8. CASE i = 7
  BY <1>8, Powers
<1>9. CASE i = 8
  BY <1>9, Powers
<1> QED
  BY <1>1, <1>2, <1>3, <1>4, <1>5, <1>6, <1>7, <1>8, <1>9

\* Every set of naturals has a least element: induction without a parameter.
LEMMA LeastNatural ==
  ASSUME NEW T, T \subseteq Nat, T # {}
  PROVE  \E m \in T : \A k \in T : m <= k
<1> DEFINE R == {p \in Nat \X Nat : p[1] < p[2]}
<1>1. IsWellFoundedOn(R, Nat)
  BY NatLessThanWellFounded DEF OpToRel
<1>2. PICK m \in T : \A k \in T : ~(<<k, m>> \in R)
  <2> HIDE DEF R
  <2> QED
    BY <1>1, WFMin
<1>3. \A k \in T : m <= k
  <2> SUFFICES ASSUME NEW k \in T, ~(m <= k) PROVE FALSE
    OBVIOUS
  <2>1. k \in Nat /\ m \in Nat /\ k < m
    OBVIOUS
  <2>2. <<k, m>> \in R
    BY <2>1
  <2> QED
    BY <1>2, <2>2
<1> QED
  BY <1>3

\* A quotient and a remainder are unique.
LEMMA RemainderUnique ==
  ASSUME NEW q \in Int, NEW r \in Int, NEW s \in Int, NEW t \in Int, NEW M \in Nat,
         0 <= r, r < M, 0 <= t, t < M, M * q + r = M * s + t
  PROVE  r = t /\ q = s
OBVIOUS

LEMMA Division ==
  ASSUME NEW n \in Nat, NEW M \in Nat \ {0}
  PROVE  /\ n % M \in 0 .. M - 1
         /\ n \div M \in Int
         /\ n = M * (n \div M) + (n % M)
OBVIOUS

LEMMA WidthOfDepth ==
  ASSUME NEW d \in 1 .. 256
  PROVE  LET w == CountWidth(d) IN
         w \in 2 .. 9 /\ d <= 2 ^ (w - 1) /\ (w = 2 \/ d > 2 ^ (w - 2))
<1> DEFINE Fits(w) == d <= 2 ^ (w - 1) /\ (w = 2 \/ d > 2 ^ (w - 2))
<1>1. \E w \in 2 .. 9 : Fits(w)
  <2>1. CASE d <= 2
    <3>1. Fits(2)
      BY <2>1, Powers
    <3> QED
      BY <3>1
  <2>2. CASE d \in 3 .. 4
    <3>1. Fits(3)
      BY <2>2, Powers
    <3> QED
      BY <3>1
  <2>3. CASE d \in 5 .. 8
    <3>1. Fits(4)
      BY <2>3, Powers
    <3> QED
      BY <3>1
  <2>4. CASE d \in 9 .. 16
    <3>1. Fits(5)
      BY <2>4, Powers
    <3> QED
      BY <3>1
  <2>5. CASE d \in 17 .. 32
    <3>1. Fits(6)
      BY <2>5, Powers
    <3> QED
      BY <3>1
  <2>6. CASE d \in 33 .. 64
    <3>1. Fits(7)
      BY <2>6, Powers
    <3> QED
      BY <3>1
  <2>7. CASE d \in 65 .. 128
    <3>1. Fits(8)
      BY <2>7, Powers
    <3> QED
      BY <3>1
  <2>8. CASE d \in 129 .. 256
    <3>1. Fits(9)
      BY <2>8, Powers
    <3> QED
      BY <3>1
  <2> QED
    BY <2>1, <2>2, <2>3, <2>4, <2>5, <2>6, <2>7, <2>8
<1>2. CountWidth(d) = CHOOSE w \in 2 .. 9 : Fits(w)
  BY DEF CountWidth
<1>3. CountWidth(d) \in 2 .. 9 /\ Fits(CountWidth(d))
  <2> HIDE DEF Fits
  <2> QED
    BY <1>1, <1>2
<1> QED
  BY <1>3

\* The count range is centred: as many words below it as above.
LEMMA RangeOfDepth ==
  ASSUME NEW d \in 1 .. 256
  PROVE  LET w == CountWidth(d) IN
         /\ w \in 2 .. 9 /\ 2 ^ w \in Nat /\ 2 ^ w = 2 * 2 ^ (w - 1)
         /\ Modulus(d) \in Nat \ {0} /\ StartValue(d) \in Nat
         /\ 2 * StartValue(d) + Modulus(d) = 2 ^ w
         /\ PowerOfTwo(d) => /\ d = 2 ^ (w - 1) /\ Modulus(d) = 2 * d
                             /\ StartValue(d) = 0 /\ EffectiveDepth(d) = d
         /\ ~PowerOfTwo(d) => /\ Modulus(d) <= 2 ^ (w - 1)
                              /\ EffectiveDepth(d) = Modulus(d)
<1> DEFINE w == CountWidth(d)
<1>1. w \in 2 .. 9 /\ d <= 2 ^ (w - 1) /\ (w = 2 \/ d > 2 ^ (w - 2))
  BY WidthOfDepth
<1>2. /\ 2 ^ (w - 1) \in Nat /\ 2 ^ w = 2 * 2 ^ (w - 1)
      /\ 2 ^ (w - 2) \in Nat /\ 2 ^ (w - 1) = 2 * 2 ^ (w - 2)
  <2>1. w - 1 \in 0 .. 8 /\ w - 2 \in 0 .. 8 /\ (w - 1) + 1 = w /\ (w - 2) + 1 = w - 1
    BY <1>1
  <2> HIDE DEF w
  <2> QED
    BY <2>1, PowerSteps
<1>3. PowerOfTwo(d) <=> d = 2 ^ (w - 1)
  BY DEF PowerOfTwo
<1>4. StartValue(d) = (2 ^ w - Modulus(d)) \div 2
  BY DEF StartValue
<1>5. Modulus(d) = IF d = 2 ^ (w - 1) THEN 2 * d ELSE d + 2 - (d % 2)
  BY <1>3 DEF Modulus
<1>6. EffectiveDepth(d) = IF d = 2 ^ (w - 1) THEN d ELSE d + (IF d % 2 = 1 THEN 1 ELSE 2)
  BY <1>3 DEF EffectiveDepth
<1>7. (d % 2 = 0 \/ d % 2 = 1) /\ d \in Nat
  OBVIOUS
<1> HIDE DEF w
<1>8. d # 2 ^ (w - 1) => Modulus(d) <= 2 ^ (w - 1) /\ Modulus(d) % 2 = 0
  BY <1>1, <1>2, <1>5, <1>7
<1>9. 2 ^ w - Modulus(d) \in Nat /\ (2 ^ w - Modulus(d)) % 2 = 0 /\ Modulus(d) \in Nat \ {0}
  BY <1>1, <1>2, <1>5, <1>7, <1>8
<1>10. StartValue(d) \in Nat /\ 2 * StartValue(d) + Modulus(d) = 2 ^ w
  BY <1>2, <1>4, <1>9
<1>11. d = 2 ^ (w - 1) => Modulus(d) = 2 * d /\ StartValue(d) = 0 /\ EffectiveDepth(d) = d
  <2> SUFFICES ASSUME d = 2 ^ (w - 1)
               PROVE  Modulus(d) = 2 * d /\ StartValue(d) = 0 /\ EffectiveDepth(d) = d
    OBVIOUS
  <2>1. Modulus(d) = 2 * d /\ EffectiveDepth(d) = d
    BY <1>5, <1>6
  <2>2. 2 ^ w = 2 * d
    BY <1>2
  <2> DEFINE e == StartValue(d)
  <2>3. e \in Int /\ 2 ^ w \in Int /\ 2 * e + 2 ^ w = 2 ^ w
    BY <1>2, <1>10, <2>1, <2>2
  <2> HIDE DEF e
  <2>4. e = 0
    BY <2>3
  <2> QED
    BY <2>1, <2>4 DEF e
<1>12. d # 2 ^ (w - 1) => EffectiveDepth(d) = Modulus(d)
  BY <1>5, <1>6, <1>7
<1>13. 2 ^ w \in Nat
  BY <1>2
<1> QED
  BY <1>1, <1>2, <1>3, <1>8, <1>9, <1>10, <1>11, <1>12, <1>13 DEF w

----------------------------------------------------------------------------
(* Bits.                                                                    *)

Bit(n, i) == (n \div 2 ^ i) % 2

\* All bits of n below i are ones.
Ones(n, i) == n % 2 ^ i = 2 ^ i - 1

LEMMA BitType ==
  ASSUME NEW n \in Nat, NEW i \in 0 .. 8
  PROVE  Bit(n, i) \in 0 .. 1
<1>1. 2 ^ i \in Nat \ {0}
  BY PowerSteps
<1>2. n \div 2 ^ i \in Nat
  BY <1>1
<1> QED
  BY <1>2 DEF Bit

\* Bit i is the digit that the remainder by the next power adds.
LEMMA BitIsDigit ==
  ASSUME NEW n \in Nat, NEW i \in 0 .. 8
  PROVE  n % 2 ^ (i + 1) = (n % 2 ^ i) + 2 ^ i * Bit(n, i)
<1> DEFINE P == 2 ^ i  q == n \div P  r == n % P  h == q \div 2  b == q % 2
<1>1. P \in Nat \ {0} /\ 2 ^ (i + 1) = 2 * P
  BY PowerSteps
<1> HIDE DEF P
<1>2. q \in Nat /\ r \in 0 .. P - 1 /\ n = P * q + r
  BY <1>1
<1>3. h \in Nat /\ b \in 0 .. 1 /\ q = 2 * h + b
  BY <1>2
<1> HIDE DEF q, r
<1>4. P * q = P * (2 * h + b)
  BY <1>3
<1> HIDE DEF h, b
<1>5. n = (2 * P) * h + (P * b + r)
  BY <1>1, <1>2, <1>3, <1>4
<1>6. P * b \in 0 .. P /\ P * b + r \in 0 .. 2 * P - 1
  BY <1>1, <1>2, <1>3
<1> DEFINE M == 2 * P  t == P * b + r
<1>7. M \in Nat \ {0} /\ t \in 0 .. M - 1 /\ n = M * h + t
  BY <1>1, <1>5, <1>6
<1> HIDE DEF M, t
<1>8. n % M = t
  <2>1. n % M \in 0 .. M - 1 /\ n \div M \in Int /\ n = M * (n \div M) + (n % M)
    BY <1>7, Division
  <2> QED
    BY <1>3, <1>7, <2>1, RemainderUnique
<1>9. n % (2 * P) = P * b + r
  BY <1>8 DEF M, t
<1>10. b = Bit(n, i) /\ r = n % 2 ^ i
  BY DEF Bit, P, q, r, b
<1>11. 2 ^ i = P
  BY DEF P
<1> HIDE DEF Bit
<1>12. P * b \in Int /\ r \in Int /\ P * b + r = r + P * b
  BY <1>2, <1>6
<1> QED
  BY <1>1, <1>9, <1>10, <1>11, <1>12

LEMMA OnesGrow ==
  ASSUME NEW n \in Nat, NEW i \in 0 .. 8
  PROVE  Ones(n, i + 1) <=> Ones(n, i) /\ Bit(n, i) = 1
<1>1. /\ 2 ^ i \in Nat \ {0} /\ 2 ^ (i + 1) = 2 * 2 ^ i
      /\ Bit(n, i) \in 0 .. 1
      /\ n % 2 ^ (i + 1) = (n % 2 ^ i) + 2 ^ i * Bit(n, i)
  BY PowerSteps, BitType, BitIsDigit
<1>2. n % 2 ^ i \in 0 .. 2 ^ i - 1
  BY <1>1, Division
<1>3. CASE Bit(n, i) = 0
  BY <1>1, <1>2, <1>3 DEF Ones
<1>4. CASE Bit(n, i) = 1
  BY <1>1, <1>2, <1>4 DEF Ones
<1> QED
  BY <1>1, <1>3, <1>4

LEMMA OnesBelow ==
  ASSUME NEW n \in Nat, NEW i \in 0 .. 9, NEW j \in 0 .. 9, i <= j, Ones(n, j)
  PROVE  Ones(n, i)
<1> SUFFICES ASSUME ~Ones(n, i) PROVE FALSE
  OBVIOUS
<1> DEFINE T == {k \in i .. 9 : Ones(n, k)}
<1>1. j \in T /\ T \subseteq Nat
  OBVIOUS
<1>2. PICK m \in T : \A k \in T : m <= k
  <2> HIDE DEF T
  <2> QED
    BY <1>1, LeastNatural
<1>3. m # i
  OBVIOUS
<1>4. m - 1 \in 0 .. 8 /\ m - 1 \in i .. 9 /\ (m - 1) + 1 = m /\ Ones(n, m)
  BY <1>3
<1>5. Ones(n, m - 1)
  BY <1>4, OnesGrow
<1>6. m - 1 \in T
  BY <1>4, <1>5
<1> QED
  BY <1>2, <1>4, <1>6

\* The carry of an increment runs through the low bits that are ones.
LEMMA BitOfNext ==
  ASSUME NEW n \in Nat, NEW i \in 0 .. 8
  PROVE  Bit(n + 1, i) = IF Ones(n, i) THEN 1 - Bit(n, i) ELSE Bit(n, i)
<1> DEFINE P == 2 ^ i  q == n \div P  r == n % P
<1>1. P \in Nat \ {0}
  BY PowerSteps
<1> HIDE DEF P
<1>2. q \in Int /\ r \in 0 .. P - 1 /\ n = P * q + r
  BY <1>1, Division
<1>3. /\ (n + 1) \div P \in Int /\ (n + 1) % P \in 0 .. P - 1
      /\ n + 1 = P * ((n + 1) \div P) + ((n + 1) % P)
  BY <1>1, Division
<1>4. Bit(n, i) = q % 2 /\ Bit(n + 1, i) = ((n + 1) \div P) % 2 /\ (Ones(n, i) <=> r = P - 1)
  BY DEF Bit, Ones, P, q, r
<1> HIDE DEF q, r
<1>5. CASE r = P - 1
  <2>1. P * (q + 1) = P * q + P
    BY <1>1, <1>2
  <2>2. n + 1 = P * (q + 1) + 0 /\ q + 1 \in Int
    BY <1>1, <1>2, <1>5, <2>1
  <2>3. (n + 1) \div P = q + 1
    BY <1>1, <1>3, <2>2, RemainderUnique
  <2>4. (q + 1) % 2 = 1 - (q % 2)
    BY <1>2
  <2> QED
    BY <1>4, <1>5, <2>3, <2>4
<1>6. CASE r # P - 1
  <2>1. n + 1 = P * q + (r + 1) /\ r + 1 \in 0 .. P - 1
    BY <1>1, <1>2, <1>6
  <2>2. (n + 1) \div P = q
    BY <1>1, <1>2, <1>3, <2>1, RemainderUnique
  <2> QED
    BY <1>4, <1>6, <2>2
<1> QED
  BY <1>5, <1>6

\* Half of 2^w is a multiple of every power below it.
LEMMA PowerMultiple ==
  ASSUME NEW w \in 2 .. 9, NEW i \in 0 .. w - 1
  PROVE  \E h \in Nat : 2 ^ w = 2 ^ i * (2 * h)
<1> DEFINE Multiple(j) == \E h \in Nat : 2 ^ w = 2 ^ j * (2 * h)
<1> SUFFICES ASSUME ~Multiple(i) PROVE FALSE
  OBVIOUS
<1> DEFINE T == {k \in 0 .. w - 1 : ~Multiple(w - 1 - k)}
<1>1. w - 1 - i \in T /\ T \subseteq Nat
  <2>1. w - 1 - i \in 0 .. w - 1 /\ w - 1 - (w - 1 - i) = i
    OBVIOUS
  <2> HIDE DEF Multiple
  <2> QED
    BY <2>1
<1>2. PICK k \in T : \A l \in T : k <= l
  <2> HIDE DEF T
  <2> QED
    BY <1>1, LeastNatural
<1> DEFINE j == w - 1 - k
<1>3. k \in 0 .. w - 1 /\ j \in 0 .. w - 1 /\ ~Multiple(j)
  <2> HIDE DEF Multiple
  <2> QED
    BY <1>2
<1>4. j # w - 1
  <2> SUFFICES ASSUME j = w - 1 PROVE FALSE
    OBVIOUS
  <2>1. w - 1 \in 0 .. 8 /\ (w - 1) + 1 = w
    OBVIOUS
  <2>2. 2 ^ (w - 1) \in Nat /\ 2 ^ w = 2 * 2 ^ (w - 1)
    BY <2>1, PowerSteps
  <2>3. 2 ^ w = 2 ^ (w - 1) * (2 * 1)
    BY <2>2
  <2>4. Multiple(w - 1)
    BY <2>3
  <2> HIDE DEF Multiple
  <2> QED
    BY <1>3, <2>4
<1>5. Multiple(j + 1)
  <2>1. k - 1 \in 0 .. w - 1 /\ w - 1 - (k - 1) = j + 1 /\ k \in Nat
    BY <1>3, <1>4
  <2>2. ~(k - 1 \in T)
    <3> HIDE DEF T
    <3> QED
      BY <1>2, <2>1
  <2> HIDE DEF Multiple, j
  <2> QED
    BY <2>1, <2>2
<1>6. PICK h \in Nat : 2 ^ w = 2 ^ (j + 1) * (2 * h)
  BY <1>5
<1>7. 2 ^ j \in Nat /\ 2 ^ (j + 1) = 2 * 2 ^ j
  <2>1. j \in 0 .. 8
    BY <1>3, <1>4
  <2> HIDE DEF j
  <2> QED
    BY <2>1, PowerSteps
<1>8. Multiple(j)
  <2> HIDE DEF j
  <2> DEFINE P == 2 ^ j
  <2>1. P \in Nat /\ 2 ^ w = (2 * P) * (2 * h)
    BY <1>6, <1>7
  <2> HIDE DEF P
  <2>2. 2 ^ w = P * (2 * (2 * h)) /\ 2 * h \in Nat
    BY <2>1
  <2> QED
    BY <2>2 DEF P
<1> HIDE DEF Multiple
<1> QED
  BY <1>3, <1>8

\* Numbers that add up to a word of ones have opposite bits.
LEMMA BitOfComplement ==
  ASSUME NEW n \in Nat, NEW s \in Nat, NEW i \in 0 .. 8, NEW h \in Nat,
         n + s + 1 = 2 ^ i * (2 * h)
  PROVE  Bit(s, i) = 1 - Bit(n, i)
<1> DEFINE P == 2 ^ i  q == n \div P  r == n % P
<1>1. P \in Nat \ {0}
  BY PowerSteps
<1> HIDE DEF P
<1>2. q \in Int /\ r \in 0 .. P - 1 /\ n = P * q + r
  BY <1>1, Division
<1>3. s \div P \in Int /\ s % P \in 0 .. P - 1 /\ s = P * (s \div P) + (s % P)
  BY <1>1, Division
<1>4. Bit(n, i) = q % 2 /\ Bit(s, i) = (s \div P) % 2 /\ n + s + 1 = P * (2 * h)
  BY DEF Bit, P, q
<1> HIDE DEF q, r
<1> DEFINE k == 2 * h - q - 1
<1>5. k \in Int /\ P * k = P * (2 * h) - P * q - P
  BY <1>1, <1>2
<1> HIDE DEF k
<1> DEFINE t == P - 1 - r
<1>6. s = P * k + t /\ t \in 0 .. P - 1
  BY <1>1, <1>2, <1>4, <1>5
<1> HIDE DEF t
<1>7. s \div P = k
  BY <1>1, <1>3, <1>5, <1>6, RemainderUnique
<1>8. k % 2 = 1 - (q % 2)
  BY <1>2 DEF k
<1> QED
  BY <1>4, <1>7, <1>8

----------------------------------------------------------------------------
(* Words.                                                                   *)

\* A number of the width's range is the only one with its bits.
LEMMA BitsInjective ==
  ASSUME Width \in 2 .. 9, NEW n \in 0 .. 2 ^ Width - 1, NEW m \in 0 .. 2 ^ Width - 1,
         Bits(n) = Bits(m)
  PROVE  n = m
<1> SUFFICES ASSUME n # m PROVE FALSE
  OBVIOUS
<1>1. \A i \in 0 .. Width - 1 : Bit(n, i) = Bit(m, i)
  BY DEF Bits, Bit
<1>2. Width - 1 \in 0 .. 8 /\ (Width - 1) + 1 = Width
  OBVIOUS
<1>3. 2 ^ Width \in Nat \ {0}
  BY <1>2, PowerSteps
<1>4. n \in Nat /\ m \in Nat /\ n % 2 ^ Width = n /\ m % 2 ^ Width = m
  BY <1>3
<1> DEFINE T == {i \in 0 .. Width : n % 2 ^ i # m % 2 ^ i}
<1>5. Width \in T /\ T \subseteq Nat
  BY <1>4
<1>6. PICK i \in T : \A j \in T : i <= j
  <2> HIDE DEF T
  <2> QED
    BY <1>5, LeastNatural
<1>7. i # 0
  <2>1. n % 2 ^ 0 = 0 /\ m % 2 ^ 0 = 0
    BY <1>4, Powers
  <2> QED
    BY <2>1
<1>8. i - 1 \in 0 .. 8 /\ i - 1 \in 0 .. Width - 1 /\ (i - 1) + 1 = i /\ ~(i - 1 \in T)
  BY <1>6, <1>7
<1>9. n % 2 ^ (i - 1) = m % 2 ^ (i - 1)
  BY <1>8
<1>10. n % 2 ^ i = m % 2 ^ i
  <2>1. /\ n % 2 ^ ((i - 1) + 1) = (n % 2 ^ (i - 1)) + 2 ^ (i - 1) * Bit(n, i - 1)
        /\ m % 2 ^ ((i - 1) + 1) = (m % 2 ^ (i - 1)) + 2 ^ (i - 1) * Bit(m, i - 1)
    BY <1>4, <1>8, BitIsDigit
  <2> QED
    BY <1>1, <1>8, <1>9, <2>1
<1> QED
  BY <1>10

LEMMA BitsAreWords ==
  ASSUME Width \in 2 .. 9, NEW n \in Nat
  PROVE  Bits(n) \in Words
<1> SUFFICES ASSUME NEW i \in 0 .. Width - 1 PROVE Bit(n, i) \in 0 .. 1
  BY DEF Bits, Bit, Words
<1>1. i \in 0 .. 8
  OBVIOUS
<1> QED
  BY <1>1, BitType

LEMMA NumberOfBits ==
  ASSUME Width \in 2 .. 9, NEW n \in 0 .. 2 ^ Width - 1
  PROVE  Number(Bits(n)) = n
<1> DEFINE m == Number(Bits(n))
<1>1. m = CHOOSE k \in 0 .. 2 ^ Width - 1 : Bits(k) = Bits(n)
  BY DEF Number
<1>2. m \in 0 .. 2 ^ Width - 1 /\ Bits(m) = Bits(n)
  <2> HIDE DEF m
  <2> QED
    BY <1>1
<1> HIDE DEF m
<1>3. m = n
  BY <1>2, BitsInjective
<1> QED
  BY <1>3 DEF m

LEMMA XorTwice ==
  ASSUME Width \in 2 .. 9, NEW v \in Words, NEW w \in Words
  PROVE  Xor(v, w) \in Words /\ Xor(Xor(v, w), w) = v
<1>1. \A a \in 0 .. 1, b \in 0 .. 1 : (a + b) % 2 \in 0 .. 1 /\ (((a + b) % 2) + b) % 2 = a
  OBVIOUS
<1>2. \A i \in 0 .. Width - 1 : v[i] \in 0 .. 1 /\ w[i] \in 0 .. 1
  BY DEF Words
<1>3. v = [i \in 0 .. Width - 1 |-> v[i]]
  BY DEF Words
<1> QED
  BY <1>1, <1>2, <1>3, Zenon DEF Xor, Words

LEMMA GrayWords ==
  ASSUME Width \in 2 .. 9, NEW b \in Words
  PROVE  Bin2Gray(b) \in Words
<1> SUFFICES ASSUME NEW i \in 0 .. Width - 1
             PROVE  (IF i = Width - 1 THEN b[i] ELSE (b[i] + b[i + 1]) % 2) \in 0 .. 1
  BY DEF Bin2Gray, Words
<1>1. b[i] \in 0 .. 1 /\ (i # Width - 1 => i + 1 \in 0 .. Width - 1)
  BY DEF Words
<1>2. i # Width - 1 => b[i + 1] \in 0 .. 1
  BY <1>1 DEF Words
<1> QED
  BY <1>1, <1>2

----------------------------------------------------------------------------
(* Gray code.                                                               *)

\* func_gray2bin undoes func_bin2gray.
LEMMA GrayDecodes ==
  ASSUME Width \in 2 .. 9, NEW b \in Words
  PROVE  Gray2Bin(Bin2Gray(b)) = b
<1> DEFINE g == Bin2Gray(b)
           Set(i) == {j \in i .. Width - 1 : g[j] = 1}
           bit(i) == Cardinality(Set(i)) % 2
<1>1. \A i \in 0 .. Width - 1 :
        /\ b[i] \in 0 .. 1 /\ g[i] \in 0 .. 1
        /\ g[i] = IF i = Width - 1 THEN b[i] ELSE (b[i] + b[i + 1]) % 2
  BY GrayWords DEF Bin2Gray, Words
<1> HIDE DEF g
<1>2. \A i \in 0 .. Width : IsFiniteSet(Set(i)) /\ Cardinality(Set(i)) \in Nat
  <2> SUFFICES ASSUME NEW i \in 0 .. Width
               PROVE  IsFiniteSet(Set(i)) /\ Cardinality(Set(i)) \in Nat
    OBVIOUS
  <2>1. IsFiniteSet(i .. Width - 1)
    BY FS_Interval
  <2>2. Set(i) \subseteq i .. Width - 1
    OBVIOUS
  <2> QED
    BY <2>1, <2>2, FS_Subset, FS_CardinalityType
<1>3. Cardinality(Set(Width)) = 0
  <2>1. Set(Width) = {}
    OBVIOUS
  <2> HIDE DEF Set
  <2> QED
    BY <2>1, FS_EmptySet
<1>4. \A i \in 0 .. Width - 1 : Cardinality(Set(i)) = Cardinality(Set(i + 1)) + g[i]
  <2> SUFFICES ASSUME NEW i \in 0 .. Width - 1
               PROVE  Cardinality(Set(i)) = Cardinality(Set(i + 1)) + g[i]
    OBVIOUS
  <2>1. IsFiniteSet(Set(i + 1)) /\ Cardinality(Set(i + 1)) \in Nat
    <3>1. i + 1 \in 0 .. Width
      OBVIOUS
    <3> QED
      BY <1>2, <3>1
  <2>2. CASE g[i] = 0
    <3>1. Set(i) = Set(i + 1)
      BY <2>2
    <3> HIDE DEF Set
    <3> QED
      BY <2>1, <2>2, <3>1
  <2>3. CASE g[i] = 1
    <3>1. Set(i) = Set(i + 1) \cup {i} /\ ~(i \in Set(i + 1))
      BY <2>3
    <3> HIDE DEF Set
    <3>2. Cardinality(Set(i)) = Cardinality(Set(i + 1)) + 1
      BY <2>1, <3>1, FS_AddElement
    <3> QED
      BY <2>3, <3>2
  <2> QED
    BY <1>1, <2>2, <2>3
<1>5. \A i \in 0 .. Width - 1 : bit(i) = b[i]
  <2> SUFFICES ASSUME NEW x \in 0 .. Width - 1, bit(x) # b[x] PROVE FALSE
    OBVIOUS
  <2> DEFINE T == {k \in 0 .. Width - 1 : bit(Width - 1 - k) # b[Width - 1 - k]}
  <2>1. Width - 1 - x \in T /\ T \subseteq Nat
    <3>1. Width - 1 - x \in 0 .. Width - 1 /\ Width - 1 - (Width - 1 - x) = x
      OBVIOUS
    <3> HIDE DEF bit
    <3> QED
      BY <3>1
  <2>2. PICK k \in T : \A l \in T : k <= l
    <3> HIDE DEF T
    <3> QED
      BY <2>1, LeastNatural
  <2> DEFINE i == Width - 1 - k
  <2>3. i \in 0 .. Width - 1 /\ bit(i) # b[i]
    <3> HIDE DEF bit
    <3> QED
      BY <2>2
  <2>4. i # Width - 1 => bit(i + 1) = b[i + 1]
    <3> SUFFICES ASSUME i # Width - 1 PROVE bit(i + 1) = b[i + 1]
      OBVIOUS
    <3>1. k - 1 \in 0 .. Width - 1 /\ Width - 1 - (k - 1) = i + 1 /\ ~(k - 1 \in T)
      <4> HIDE DEF bit
      <4>1. k \in 0 .. Width - 1 /\ k # 0
        BY <2>2
      <4> HIDE DEF T
      <4> QED
        BY <2>2, <4>1
    <3> HIDE DEF bit, i
    <3> QED
      BY <3>1
  <2> HIDE DEF i, T
  <2>5. bit(i) = (bit(i + 1) + g[i]) % 2
    <3>1. Cardinality(Set(i)) = Cardinality(Set(i + 1)) + g[i] /\ Cardinality(Set(i + 1)) \in Nat
      <4>1. i + 1 \in 0 .. Width
        BY <2>3
      <4> HIDE DEF Set
      <4> QED
        BY <1>2, <1>4, <2>3, <4>1
    <3> HIDE DEF Set
    <3>2. g[i] \in 0 .. 1
      BY <1>1, <2>3
    <3> QED
      BY <3>1, <3>2
  <2>6. i = Width - 1 => bit(i + 1) = 0
    <3> SUFFICES ASSUME i = Width - 1 PROVE bit(i + 1) = 0
      OBVIOUS
    <3>1. i + 1 = Width
      BY <2>3
    <3> HIDE DEF Set
    <3>2. Cardinality(Set(i + 1)) = 0
      BY <1>3, <3>1
    <3> QED
      BY <3>2
  <2> HIDE DEF bit
  <2>7. b[i] \in 0 .. 1 /\ (i # Width - 1 => b[i + 1] \in 0 .. 1)
    <3>1. i # Width - 1 => i + 1 \in 0 .. Width - 1
      BY <2>3
    <3> QED
      BY <1>1, <2>3, <3>1
  <2>8. CASE i = Width - 1
    <3>1. g[i] = b[i]
      BY <1>1, <2>3, <2>8
    <3> QED
      BY <2>3, <2>5, <2>6, <2>7, <2>8, <3>1
  <2>9. CASE i # Width - 1
    <3>1. g[i] = (b[i] + b[i + 1]) % 2
      BY <1>1, <2>3, <2>9
    <3> QED
      BY <2>3, <2>4, <2>5, <2>7, <2>9, <3>1
  <2> QED
    BY <2>8, <2>9
<1>6. Gray2Bin(g) = [i \in 0 .. Width - 1 |-> bit(i)]
  BY DEF Gray2Bin
<1>7. b = [i \in 0 .. Width - 1 |-> b[i]]
  BY DEF Words
<1> HIDE DEF bit
<1> QED
  BY <1>5, <1>6, <1>7 DEF g

\* v and w differ in one bit at most.
OneBitApart(v, w) ==
  \E k \in 0 .. Width - 1 : \A i \in 0 .. Width - 1 : i # k => v[i] = w[i]

\* The words of neighbouring numbers differ where the run of low ones ends.
LEMMA GrayStep ==
  ASSUME Width \in 2 .. 9, NEW n \in Nat, n + 1 < 2 ^ Width
  PROVE  OneBitApart(Bin2Gray(Bits(n)), Bin2Gray(Bits(n + 1)))
<1> DEFINE v == Bin2Gray(Bits(n))  w == Bin2Gray(Bits(n + 1))
<1>1. ASSUME NEW i \in 0 .. Width - 1, v[i] # w[i]
      PROVE  Ones(n, i) /\ ~Ones(n, i + 1)
  <2>1. i \in 0 .. 8 /\ 2 ^ Width \in Nat /\ n + 1 \in Nat
    <3>1. Width - 1 \in 0 .. 8 /\ (Width - 1) + 1 = Width /\ i \in 0 .. 8
      OBVIOUS
    <3>2. 2 ^ (Width - 1) \in Nat /\ 2 ^ Width = 2 * 2 ^ (Width - 1)
      BY <3>1, PowerSteps
    <3> QED
      BY <3>1, <3>2
  <2>2. Bit(n, i) \in 0 .. 1 /\ Bit(n + 1, i) = IF Ones(n, i) THEN 1 - Bit(n, i) ELSE Bit(n, i)
    BY <2>1, BitType, BitOfNext
  <2>3. Ones(n, i + 1) <=> Ones(n, i) /\ Bit(n, i) = 1
    BY <2>1, OnesGrow
  <2>4. CASE i = Width - 1
    <3>1. v[i] = Bit(n, i) /\ w[i] = Bit(n + 1, i)
      BY <2>4 DEF Bin2Gray, Bits, Bit
    <3>2. Ones(n, i)
      BY <1>1, <2>2, <3>1
    <3>3. ~Ones(n, Width)
      BY <2>1 DEF Ones
    <3>4. i + 1 = Width
      BY <2>4
    <3> QED
      BY <3>2, <3>3, <3>4
  <2>5. CASE i # Width - 1
    <3>1. i + 1 \in 0 .. Width - 1 /\ i + 1 \in 0 .. 8
      BY <2>5
    <3>2. /\ v[i] = (Bit(n, i) + Bit(n, i + 1)) % 2
          /\ w[i] = (Bit(n + 1, i) + Bit(n + 1, i + 1)) % 2
      BY <2>5, <3>1 DEF Bin2Gray, Bits, Bit
    <3>3. /\ Bit(n, i + 1) \in 0 .. 1
          /\ Bit(n + 1, i + 1) = IF Ones(n, i + 1) THEN 1 - Bit(n, i + 1) ELSE Bit(n, i + 1)
      BY <2>1, <3>1, BitType, BitOfNext
    <3>4. \A a \in 0 .. 1, c \in 0 .. 1 : ((1 - a) + (1 - c)) % 2 = (a + c) % 2
      OBVIOUS
    <3> HIDE DEF v, w
    <3> QED
      BY <1>1, <2>2, <2>3, <3>2, <3>3, <3>4
  <2> QED
    BY <2>4, <2>5
<1> HIDE DEF v, w
<1>2. ASSUME NEW i \in 0 .. Width - 1, NEW j \in 0 .. Width - 1, v[i] # w[i], v[j] # w[j], i < j
      PROVE  FALSE
  <2>1. Ones(n, j) /\ ~Ones(n, i + 1)
    BY <1>1, <1>2
  <2>2. i + 1 \in 0 .. 9 /\ j \in 0 .. 9 /\ i + 1 <= j
    BY <1>2
  <2> QED
    BY <2>1, <2>2, OnesBelow
<1>3. OneBitApart(v, w)
  <2>1. CASE \A i \in 0 .. Width - 1 : v[i] = w[i]
    <3>1. 0 \in 0 .. Width - 1
      OBVIOUS
    <3> QED
      BY <2>1, <3>1 DEF OneBitApart
  <2>2. CASE \E k \in 0 .. Width - 1 : v[k] # w[k]
    <3>1. PICK k \in 0 .. Width - 1 : v[k] # w[k]
      BY <2>2
    <3>2. ASSUME NEW i \in 0 .. Width - 1, i # k, v[i] # w[i] PROVE FALSE
      <4>1. i < k \/ k < i
        BY <3>2
      <4> QED
        BY <1>2, <3>1, <3>2, <4>1
    <3> QED
      BY <3>1, <3>2 DEF OneBitApart
  <2> QED
    BY <2>1, <2>2
<1> QED
  BY <1>3 DEF v, w

\* The range is centred: its last word is its first with every bit inverted.
LEMMA GrayWrap ==
  ASSUME Width \in 2 .. 9, NEW n \in Nat, NEW s \in Nat, n + s + 1 = 2 ^ Width
  PROVE  OneBitApart(Bin2Gray(Bits(n)), Bin2Gray(Bits(s)))
<1> DEFINE v == Bin2Gray(Bits(n))  w == Bin2Gray(Bits(s))
<1>1. ASSUME NEW i \in 0 .. Width - 1
      PROVE  Bit(n, i) \in 0 .. 1 /\ Bit(s, i) = 1 - Bit(n, i)
  <2>1. i \in 0 .. 8
    OBVIOUS
  <2>2. PICK h \in Nat : 2 ^ Width = 2 ^ i * (2 * h)
    BY PowerMultiple
  <2>3. n + s + 1 = 2 ^ i * (2 * h)
    BY <2>2
  <2>4. Bit(s, i) = 1 - Bit(n, i)
    BY <2>1, <2>3, BitOfComplement
  <2> QED
    BY <2>1, <2>4, BitType
<1>2. ASSUME NEW i \in 0 .. Width - 1, i # Width - 1
      PROVE  v[i] = w[i]
  <2>1. i + 1 \in 0 .. Width - 1
    BY <1>2
  <2>2. /\ v[i] = (Bit(n, i) + Bit(n, i + 1)) % 2
        /\ w[i] = (Bit(s, i) + Bit(s, i + 1)) % 2
    BY <1>2, <2>1 DEF Bin2Gray, Bits, Bit
  <2>3. \A a \in 0 .. 1, c \in 0 .. 1 : ((1 - a) + (1 - c)) % 2 = (a + c) % 2
    OBVIOUS
  <2> HIDE DEF v, w
  <2> QED
    BY <1>1, <2>1, <2>2, <2>3
<1> HIDE DEF v, w
<1>3. Width - 1 \in 0 .. Width - 1
  OBVIOUS
<1>4. OneBitApart(v, w)
  BY <1>2, <1>3 DEF OneBitApart
<1> QED
  BY <1>4 DEF v, w

----------------------------------------------------------------------------
(* The registers.                                                           *)

\* What the registers hold at position p, and the value a flop may still mix in:
\* the inductive invariant behind both theorems.
At(p) == Bits(StartValue(depth) + p)

GrayInv ==
  /\ depth \in 1 .. MaxDepth
  /\ position \in 0 .. Modulus(depth) - 1
  /\ positionBefore \in 0 .. Modulus(depth) - 1
  /\ positionBefore = position \/ position = (positionBefore + 1) % Modulus(depth)
  /\ countInt = Xor(At(position), Start)
  /\ grayInt = Xor(Bin2Gray(At(position)), StartGray)
  /\ grayBefore = Xor(Bin2Gray(At(positionBefore)), StartGray)
  /\ addrInt \in Nat
  /\ ~PowerOfTwo(depth) => addrInt = position

\* A position as a number of the width's range, and the next one's.
LEMMA PositionInRange ==
  ASSUME NEW p \in 0 .. Modulus(depth) - 1, depth \in 1 .. MaxDepth
  PROVE  /\ Width \in 2 .. 9
         /\ StartValue(depth) \in 0 .. 2 ^ Width - 1
         /\ StartValue(depth) + p \in 0 .. 2 ^ Width - 1
         /\ (p + 1) % Modulus(depth) \in 0 .. Modulus(depth) - 1
         /\ (p + 1) % Modulus(depth) = IF p = Modulus(depth) - 1 THEN 0 ELSE p + 1
<1> DEFINE M == Modulus(depth)  s == StartValue(depth)  N == 2 ^ Width
<1>1. /\ Width \in 2 .. 9 /\ N \in Nat /\ M \in Nat \ {0} /\ s \in Nat
      /\ 2 * s + M = N
  BY RangeOfDepth DEF MaxDepth, Width
<1> HIDE DEF M, s, N
<1>2. p \in 0 .. M - 1
  BY DEF M
<1>3. s \in 0 .. N - 1 /\ s + p \in 0 .. N - 1
  BY <1>1, <1>2
<1>4. (p + 1) % M \in 0 .. M - 1 /\ (p + 1) % M = IF p = M - 1 THEN 0 ELSE p + 1
  <2>1. CASE p = M - 1
    <3>1. p + 1 = M
      BY <1>1, <1>2, <2>1
    <3>2. M % M = 0
      BY <1>1
    <3> QED
      BY <1>1, <2>1, <3>1, <3>2
  <2>2. CASE p # M - 1
    <3>1. p + 1 \in 0 .. M - 1
      BY <1>1, <1>2, <2>2
    <3> QED
      BY <1>1, <2>2, <3>1
  <2> QED
    BY <2>1, <2>2
<1> QED
  BY <1>1, <1>3, <1>4 DEF M, s, N

\* What a register relative to the start value decodes to.
LEMMA DecodesToPosition ==
  ASSUME depth \in 1 .. MaxDepth, NEW p \in 0 .. Modulus(depth) - 1
  PROVE  /\ Number(Xor(Xor(At(p), Start), Start)) = StartValue(depth) + p
         /\ Xor(Bin2Gray(At(p)), StartGray) \in Words
         /\ Decoded(Xor(Bin2Gray(At(p)), StartGray)) = StartValue(depth) + p
<1> DEFINE n == StartValue(depth) + p
<1>1. Width \in 2 .. 9 /\ n \in 0 .. 2 ^ Width - 1 /\ StartValue(depth) \in 0 .. 2 ^ Width - 1
  BY PositionInRange
<1>2. At(p) = Bits(n) /\ Number(Bits(n)) = n
  <2> HIDE DEF n
  <2>1. Number(Bits(n)) = n
    BY <1>1, NumberOfBits
  <2> QED
    BY <2>1 DEF At, n
<1> HIDE DEF n
<1>3. 2 ^ Width \in Nat
  <2>1. Width - 1 \in 0 .. 8 /\ (Width - 1) + 1 = Width
    BY <1>1
  <2>2. 2 ^ (Width - 1) \in Nat /\ 2 ^ Width = 2 * 2 ^ (Width - 1)
    BY <2>1, PowerSteps
  <2> QED
    BY <2>2
<1>4. n \in Nat /\ StartValue(depth) \in Nat
  BY <1>1, <1>3
<1>5. At(p) \in Words /\ Start \in Words /\ StartGray \in Words /\ Bin2Gray(At(p)) \in Words
  BY <1>1, <1>2, <1>4, BitsAreWords, GrayWords DEF Start, StartGray
<1>6. /\ Xor(Xor(At(p), Start), Start) = At(p)
      /\ Xor(Xor(Bin2Gray(At(p)), StartGray), StartGray) = Bin2Gray(At(p))
      /\ Xor(Bin2Gray(At(p)), StartGray) \in Words
  BY <1>1, <1>5, XorTwice
<1>7. Gray2Bin(Bin2Gray(At(p))) = At(p)
  BY <1>1, <1>5, GrayDecodes
<1>8. Number(At(p)) = StartValue(depth) + p
  BY <1>2 DEF n
<1> QED
  BY <1>6, <1>7, <1>8 DEF Decoded

\* The Gray words of neighbouring positions, the wrap-around included.
LEMMA PositionsOneBitApart ==
  ASSUME depth \in 1 .. MaxDepth, NEW p \in 0 .. Modulus(depth) - 1
  PROVE  OneBitApart(Bin2Gray(At(p)), Bin2Gray(At((p + 1) % Modulus(depth))))
<1> DEFINE M == Modulus(depth)  s == StartValue(depth)
<1>1. /\ Width \in 2 .. 9 /\ M \in Nat \ {0} /\ s \in Nat /\ 2 ^ Width \in Nat
      /\ 2 * s + M = 2 ^ Width
  BY RangeOfDepth DEF MaxDepth, Width
<1>2. (p + 1) % M = IF p = M - 1 THEN 0 ELSE p + 1
  BY PositionInRange
<1>3. p \in 0 .. M - 1
  OBVIOUS
<1> HIDE DEF M, s
<1>4. CASE p = M - 1
  <2>1. s + p \in Nat /\ s + 0 \in Nat /\ (s + p) + (s + 0) + 1 = 2 ^ Width
    BY <1>1, <1>4
  <2>2. OneBitApart(Bin2Gray(Bits(s + p)), Bin2Gray(Bits(s + 0)))
    BY <1>1, <2>1, GrayWrap
  <2> QED
    BY <1>2, <1>4, <2>2 DEF At, M, s
<1>5. CASE p # M - 1
  <2>1. s + p \in Nat /\ (s + p) + 1 = s + (p + 1) /\ (s + p) + 1 < 2 ^ Width
    BY <1>1, <1>3, <1>5
  <2>2. OneBitApart(Bin2Gray(Bits(s + p)), Bin2Gray(Bits((s + p) + 1)))
    BY <1>1, <2>1, GrayStep
  <2> QED
    BY <1>2, <1>5, <2>1, <2>2 DEF At, M, s
<1> QED
  BY <1>4, <1>5

\* Of two words one bit apart, however their bits are mixed, one comes out.
LEMMA CaughtIsOneOfBoth ==
  ASSUME Width \in 2 .. 9, NEW v \in Words, NEW w \in Words, NEW g \in Words,
         grayBefore = Xor(v, g), grayInt = Xor(w, g), OneBitApart(v, w) \/ v = w,
         NEW select \in Words
  PROVE  Caught(select) \in {grayBefore, grayInt}
<1>1. PICK k \in 0 .. Width - 1 : \A i \in 0 .. Width - 1 : i # k => v[i] = w[i]
  <2>1. 0 \in 0 .. Width - 1
    OBVIOUS
  <2> QED
    BY <2>1 DEF OneBitApart
<1>2. \A i \in 0 .. Width - 1 : i # k => grayBefore[i] = grayInt[i]
  BY <1>1 DEF Xor
<1>3. /\ grayBefore = [i \in 0 .. Width - 1 |-> grayBefore[i]]
      /\ grayInt = [i \in 0 .. Width - 1 |-> grayInt[i]]
  BY DEF Xor
<1>4. CASE select[k] = 1
  <2>1. \A i \in 0 .. Width - 1 : (IF select[i] = 1 THEN grayBefore[i] ELSE grayInt[i]) = grayBefore[i]
    BY <1>2, <1>4
  <2>2. Caught(select) = grayBefore
    BY <1>3, <2>1, Zenon DEF Caught
  <2> QED
    BY <2>2
<1>5. CASE select[k] # 1
  <2>1. \A i \in 0 .. Width - 1 : (IF select[i] = 1 THEN grayBefore[i] ELSE grayInt[i]) = grayInt[i]
    BY <1>2, <1>5
  <2>2. Caught(select) = grayInt
    BY <1>3, <2>1, Zenon DEF Caught
  <2> QED
    BY <2>2
<1> QED
  BY <1>4, <1>5

\* The successor the code computes is the next position.
LEMMA SuccessorIsNextPosition ==
  ASSUME GrayInv
  PROVE  LET next == (position + 1) % Modulus(depth) IN
         /\ SuccessiveCount = StartValue(depth) + next
         /\ SuccessiveAddr \in Nat
         /\ ~PowerOfTwo(depth) => SuccessiveAddr = next
<1> DEFINE M == Modulus(depth)  s == StartValue(depth)  N == 2 ^ Width  H == 2 ^ (Width - 1)
           p == position  next == (p + 1) % M
<1>1. /\ M \in Nat \ {0} /\ s \in Nat /\ N \in Nat /\ 2 * s + M = N /\ N = 2 * H
      /\ PowerOfTwo(depth) => s = 0
      /\ ~PowerOfTwo(depth) => M <= H
      /\ Width \in 2 .. 9
  BY RangeOfDepth DEF GrayInv, MaxDepth, Width
<1>2. H \in Nat \ {0}
  <2>1. Width - 1 \in 0 .. 8
    BY <1>1
  <2> QED
    BY <2>1, PowerSteps
<1>3. p \in 0 .. M - 1 /\ next = IF p = M - 1 THEN 0 ELSE p + 1
  BY PositionInRange DEF GrayInv
<1>4. Count = s + p
  BY DecodesToPosition DEF GrayInv, Count
<1>5. addrInt \in Nat /\ (~PowerOfTwo(depth) => addrInt = p)
  BY DEF GrayInv
<1>6. SuccessiveCount = IF ~PowerOfTwo(depth) /\ addrInt = M - 1 THEN s ELSE (Count + 1) % N
  BY DEF SuccessiveCount
<1>7. SuccessiveAddr = IF ~PowerOfTwo(depth) /\ addrInt = M - 1 THEN 0 ELSE (addrInt + 1) % H
  BY DEF SuccessiveAddr
<1> HIDE DEF M, s, N, H, p, next
<1>8. CASE PowerOfTwo(depth)
  <2>1. s = 0 /\ M = N /\ SuccessiveCount = (p + 1) % N
    BY <1>1, <1>3, <1>4, <1>6, <1>8
  <2>2. (p + 1) % N = s + next
    BY <1>3, <2>1, <1>1 DEF next
  <2>3. SuccessiveAddr \in Nat
    BY <1>2, <1>5, <1>7, <1>8
  <2> QED
    BY <1>8, <2>1, <2>2, <2>3 DEF M, s, p, next
<1>9. CASE ~PowerOfTwo(depth)
  <2>1. CASE p = M - 1
    <3>1. SuccessiveCount = s + next /\ SuccessiveAddr = next /\ next = 0
      BY <1>1, <1>3, <1>5, <1>6, <1>7, <1>9, <2>1
    <3> QED
      BY <1>9, <3>1 DEF M, s, p, next
  <2>2. CASE p # M - 1
    <3>1. p + 1 \in 0 .. H - 1 /\ s + p + 1 \in 0 .. N - 1
      BY <1>1, <1>2, <1>3, <1>9, <2>2
    <3>2. (p + 1) % H = p + 1 /\ (s + p + 1) % N = s + p + 1
      BY <1>1, <1>2, <3>1
    <3>3. SuccessiveCount = s + next /\ SuccessiveAddr = next /\ next = p + 1
      BY <1>1, <1>3, <1>4, <1>5, <1>6, <1>7, <1>9, <2>2, <3>2
    <3>4. next \in Nat
      BY <3>1, <3>3
    <3> QED
      BY <1>9, <3>3, <3>4 DEF M, s, p, next
  <2> QED
    BY <2>1, <2>2
<1> QED
  BY <1>8, <1>9

----------------------------------------------------------------------------
(* The invariant.                                                           *)

LEMMA GrayInvInit ==
  ASSUME Init
  PROVE  GrayInv
<1>1. depth \in 1 .. MaxDepth
  BY DepthsAssumption DEF Init
<1>2. 0 \in 0 .. Modulus(depth) - 1
  <2>1. Modulus(depth) \in Nat \ {0}
    BY <1>1, RangeOfDepth DEF MaxDepth
  <2> QED
    BY <2>1
<1>3. Width \in 2 .. 9 /\ StartValue(depth) \in Nat
  BY <1>1, RangeOfDepth DEF MaxDepth, Width
<1>4. At(0) = Start
  <2>1. StartValue(depth) + 0 = StartValue(depth)
    BY <1>3
  <2> QED
    BY <2>1 DEF At, Start
<1>5. \A w \in Words : Xor(w, w) = Bits(0)
  <2> SUFFICES ASSUME NEW w \in Words, NEW i \in 0 .. Width - 1
               PROVE  (w[i] + w[i]) % 2 = (0 \div 2 ^ i) % 2
    BY Zenon DEF Xor, Bits
  <2>1. w[i] \in 0 .. 1
    BY DEF Words
  <2>2. (w[i] + w[i]) % 2 = 0
    BY <2>1
  <2>3. i \in 0 .. 8
    BY <1>3
  <2>4. 2 ^ i \in Nat \ {0}
    BY <2>3, PowerSteps
  <2>5. 0 \div 2 ^ i = 0
    BY <2>4
  <2> DEFINE q == 0 \div 2 ^ i
  <2>6. q % 2 = 0
    <3>1. q = 0
      BY <2>5
    <3> HIDE DEF q
    <3> QED
      BY <3>1
  <2> HIDE DEF Init
  <2> QED
    BY <2>2, <2>6
<1>6. Start \in Words /\ StartGray \in Words
  BY <1>3, BitsAreWords, GrayWords DEF Start, StartGray
<1>7. Bits(0) = Xor(At(0), Start) /\ Bits(0) = Xor(Bin2Gray(At(0)), StartGray)
  BY <1>4, <1>5, <1>6 DEF StartGray
<1> QED
  BY <1>1, <1>2, <1>7 DEF Init, GrayInv

\* With the depth the operators on words stay what they are.
LEMMA GrayInvNext ==
  ASSUME GrayInv, [Next]_vars
  PROVE  GrayInv'
<1> DEFINE next == (position + 1) % Modulus(depth)
<1>1. CASE Advance
  <2>1. depth' = depth
    BY <1>1 DEF Advance
  <2>2. /\ SuccessiveCount = StartValue(depth) + next
        /\ SuccessiveAddr \in Nat
        /\ ~PowerOfTwo(depth) => SuccessiveAddr = next
    BY SuccessorIsNextPosition
  <2>3. next \in 0 .. Modulus(depth) - 1
    BY PositionInRange DEF GrayInv
  <2>4. /\ countInt' = Xor(At(next), Start)
        /\ grayInt' = Xor(Bin2Gray(At(next)), StartGray)
    BY <1>1, <2>2 DEF Advance, At
  <2>5. position' = next /\ positionBefore' = position /\ grayBefore' = grayInt
        /\ addrInt' = SuccessiveAddr
    BY <1>1 DEF Advance
  <2>7. At(position)' = At(next) /\ Start' = Start /\ StartGray' = StartGray
    BY <2>1, <2>5 DEF At, Start, StartGray, Bin2Gray, Bits, Width
  <2>8. Xor(At(position), Start)' = Xor(At(next), Start)
    BY <2>1, <2>7 DEF Xor, Width
  <2>9. Xor(Bin2Gray(At(position)), StartGray)' = Xor(Bin2Gray(At(next)), StartGray)
    BY <2>1, <2>7 DEF Xor, Bin2Gray, Width
  <2>10. At(positionBefore)' = At(position)
    BY <2>1, <2>5 DEF At, Bits, Width
  <2>11. Xor(Bin2Gray(At(positionBefore)), StartGray)' = Xor(Bin2Gray(At(position)), StartGray)
    BY <2>1, <2>7, <2>10 DEF Xor, Bin2Gray, Width
  <2> HIDE DEF next
  <2> QED
    BY <2>1, <2>2, <2>3, <2>4, <2>5, <2>8, <2>9, <2>11 DEF GrayInv, next
<1>2. CASE Sample
  <2>1. /\ depth' = depth /\ position' = position /\ positionBefore' = position
        /\ countInt' = countInt /\ grayInt' = grayInt /\ grayBefore' = grayInt /\ addrInt' = addrInt
    BY <1>2 DEF Sample
  <2>2. /\ At(position)' = At(position) /\ At(positionBefore)' = At(position)
        /\ Start' = Start /\ StartGray' = StartGray
    BY <2>1 DEF At, Start, StartGray, Bin2Gray, Bits, Width
  <2>3. /\ Xor(At(position), Start)' = Xor(At(position), Start)
        /\ Xor(Bin2Gray(At(position)), StartGray)' = Xor(Bin2Gray(At(position)), StartGray)
        /\ Xor(Bin2Gray(At(positionBefore)), StartGray)' = Xor(Bin2Gray(At(position)), StartGray)
    BY <2>1, <2>2 DEF Xor, Bin2Gray, Width
  <2> QED
    BY <2>1, <2>3 DEF GrayInv
<1>3. CASE UNCHANGED vars
  <2>1. /\ depth' = depth /\ position' = position /\ positionBefore' = positionBefore
        /\ countInt' = countInt /\ grayInt' = grayInt /\ grayBefore' = grayBefore /\ addrInt' = addrInt
    BY <1>3 DEF vars
  <2>2. /\ At(position)' = At(position) /\ At(positionBefore)' = At(positionBefore)
        /\ Start' = Start /\ StartGray' = StartGray
    BY <2>1 DEF At, Start, StartGray, Bin2Gray, Bits, Width
  <2>3. /\ Xor(At(position), Start)' = Xor(At(position), Start)
        /\ Xor(Bin2Gray(At(position)), StartGray)' = Xor(Bin2Gray(At(position)), StartGray)
        /\ Xor(Bin2Gray(At(positionBefore)), StartGray)' = Xor(Bin2Gray(At(positionBefore)), StartGray)
    BY <2>1, <2>2 DEF Xor, Bin2Gray, Width
  <2> QED
    BY <2>1, <2>3 DEF GrayInv
<1> QED
  BY <1>1, <1>2, <1>3 DEF Next

LEMMA GrayInvariance == Spec => []GrayInv
<1>1. Init => GrayInv
  BY GrayInvInit
<1>2. GrayInv /\ [Next]_vars => GrayInv'
  BY GrayInvNext
<1> QED
  BY <1>1, <1>2, PTL DEF Spec

\* At every depth the registers stand for the position and address a RAM word that exists.
THEOREM RegistersCountPosition == Spec => []CountsPosition
<1>1. ASSUME GrayInv PROVE CountsPosition
  <2> DEFINE s == StartValue(depth)  H == 2 ^ (Width - 1)  p == position
  <2>1. /\ Modulus(depth) \in Nat \ {0} /\ s \in Nat
        /\ PowerOfTwo(depth) => /\ depth = H /\ Modulus(depth) = 2 * depth
                                 /\ s = 0 /\ EffectiveDepth(depth) = depth
        /\ ~PowerOfTwo(depth) => EffectiveDepth(depth) = Modulus(depth)
    BY <1>1, RangeOfDepth DEF GrayInv, MaxDepth, Width
  <2>2. Count = s + p /\ Decoded(grayInt) = s + p
    BY <1>1, DecodesToPosition DEF GrayInv, Count
  <2>3. RamAddress = IF PowerOfTwo(depth) THEN Count % H ELSE addrInt
    BY DEF RamAddress
  <2>4. depth \in Nat \ {0} /\ p \in 0 .. Modulus(depth) - 1 /\ (~PowerOfTwo(depth) => addrInt = p)
    BY <1>1 DEF GrayInv, MaxDepth
  <2> HIDE DEF s, H, p
  <2>5. CASE PowerOfTwo(depth)
    <3>1. RamAddress = p % depth /\ p \in Nat
      BY <2>1, <2>2, <2>3, <2>4, <2>5
    <3>2. p % depth \in 0 .. depth - 1
      BY <2>4, <3>1, Division
    <3>3. RamAddress < EffectiveDepth(depth)
      BY <2>1, <2>4, <2>5, <3>1, <3>2
    <3> QED
      BY <2>2, <2>5, <3>1, <3>3 DEF CountsPosition, s, p
  <2>6. CASE ~PowerOfTwo(depth)
    <3>1. RamAddress = p /\ RamAddress < EffectiveDepth(depth)
      BY <2>1, <2>3, <2>4, <2>6
    <3> QED
      BY <2>2, <2>6, <3>1 DEF CountsPosition, s, p
  <2> QED
    BY <2>5, <2>6
<1> QED
  BY <1>1, GrayInvariance, PTL

\* At every depth, across the wrap-around too, the other clock reads the pointer
\* before or after its last step, however its bits are caught while they change.
THEOREM SampledPointerIsAPosition == Spec => FlopIsAPosition
<1>1. ASSUME GrayInv, [Next]_vars, ~(UNCHANGED flop)
      PROVE  Decoded(flop') - StartValue(depth) \in {position, positionBefore}
  <2>1. PICK select \in Words : flop' = Caught(select)
    BY <1>1 DEF Next, Advance, Sample, vars
  <2>2. /\ depth \in 1 .. MaxDepth
        /\ position \in 0 .. Modulus(depth) - 1 /\ positionBefore \in 0 .. Modulus(depth) - 1
        /\ positionBefore = position \/ position = (positionBefore + 1) % Modulus(depth)
        /\ grayInt = Xor(Bin2Gray(At(position)), StartGray)
        /\ grayBefore = Xor(Bin2Gray(At(positionBefore)), StartGray)
    BY <1>1 DEF GrayInv
  <2>3. /\ Width \in 2 .. 9 /\ StartValue(depth) \in Nat /\ Modulus(depth) \in Nat
        /\ Modulus(depth) \in Nat /\ 2 ^ Width \in Nat
    BY <2>2, RangeOfDepth DEF MaxDepth, Width
  <2>4. Bin2Gray(At(position)) \in Words /\ Bin2Gray(At(positionBefore)) \in Words /\ StartGray \in Words
    <3>1. StartValue(depth) + position \in Nat /\ StartValue(depth) + positionBefore \in Nat
      BY <2>2, <2>3
    <3> QED
      BY <2>3, <3>1, BitsAreWords, GrayWords DEF At, StartGray, Start
  <2>5. \/ OneBitApart(Bin2Gray(At(positionBefore)), Bin2Gray(At(position)))
        \/ Bin2Gray(At(positionBefore)) = Bin2Gray(At(position))
    BY <2>2, PositionsOneBitApart
  <2>6. Caught(select) \in {grayBefore, grayInt}
    BY <2>2, <2>3, <2>4, <2>5, CaughtIsOneOfBoth
  <2>7. /\ Decoded(grayInt) = StartValue(depth) + position
        /\ Decoded(grayBefore) = StartValue(depth) + positionBefore
    BY <2>2, DecodesToPosition
  <2>8. /\ Decoded(grayInt) - StartValue(depth) = position
        /\ Decoded(grayBefore) - StartValue(depth) = positionBefore
    BY <2>2, <2>3, <2>7
  <2> QED
    BY <2>1, <2>6, <2>8
<1> QED
  BY <1>1, GrayInvariance, PTL DEF Spec, FlopIsAPosition

=============================================================================
