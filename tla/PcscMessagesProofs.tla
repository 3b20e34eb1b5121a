-------------------------- MODULE PcscMessagesProofs --------------------------
(***************************************************************************)
(* What holds of the conversions of Driver/hexString.cpp and of the        *)
(* messages of Driver/persoSimConnect.cpp for arrays, strings and payloads *)
(* of any length and ints of any width: what is written is read back, in   *)
(* digits of either case, a string of odd length means the same as with a  *)
(* '0' in front, both ways to read a string agree, and the buffers hold    *)
(* the messages.                                                           *)
(***************************************************************************)
EXTENDS MCPcscMessages, SequenceTheorems, WellFoundedInduction, TLAPS

-----------------------------------------------------------------------------
(* Induction.  The principle is obtained for a set instead of a predicate, *)
(* from the least element that the order of the naturals gives to every    *)
(* set of them.                                                            *)

(* A set of naturals has a least element.                                  *)
LEMMA LeastElement ==
  ASSUME NEW T \in SUBSET Nat, T # {}
  PROVE  \E n \in T : \A m \in T : n <= m
<1> DEFINE R == OpToRel(<, Nat)
<1>1. IsWellFoundedOn(R, Nat)
  BY NatLessThanWellFounded
<1>2. \A m, n \in Nat : m < n => <<m, n>> \in R
  BY DEF OpToRel
<1> HIDE DEF R
<1>3. PICK x \in T : \A y \in T : ~ (<<y, x>> \in R)
  BY <1>1, WFMin, T \subseteq Nat
<1>4. ASSUME NEW y \in T PROVE x <= y
  <2>1. x \in Nat /\ y \in Nat
    BY T \subseteq Nat
  <2>2. ~(y < x)
    BY <1>2, <1>3, <2>1, Zenon
  <2> QED
    BY <2>1, <2>2
<1> QED
  BY <1>4

(* A set that holds 0 and with a number the next one holds them all.       *)
LEMMA SetInduction ==
  ASSUME NEW S, 0 \in S, \A n \in Nat : n \in S => n + 1 \in S
  PROVE  Nat \subseteq S
<1> DEFINE T == Nat \ S
<1> SUFFICES ASSUME T # {} PROVE FALSE
  OBVIOUS
<1>1. PICK n \in T : \A m \in T : n <= m
  BY LeastElement
<1>2. n # 0 /\ n - 1 \in Nat /\ n - 1 + 1 = n
  BY <1>1
<1>3. n - 1 \in S
  BY <1>1, <1>2
<1> QED
  BY <1>1, <1>2, <1>3

(* The same up to n.                                                       *)
LEMMA IntervalInduction ==
  ASSUME NEW n \in Nat, NEW S, 0 \in S,
         \A i \in 0 .. n - 1 : i \in S => i + 1 \in S
  PROVE  0 .. n \subseteq S
<1> DEFINE T == {i \in Nat : i <= n => i \in S}
<1>1. 0 \in T
  OBVIOUS
<1>2. \A i \in Nat : i \in T => i + 1 \in T
  OBVIOUS
<1>3. Nat \subseteq T
  <2> HIDE DEF T
  <2> QED
    BY <1>1, <1>2, SetInduction
<1> QED
  BY <1>3

(* A function that is given by its value at 0 and by what makes each value *)
(* of the one before does exist.                                           *)
IsRecursive(f, n, a, step) ==
  /\ f[0] = a
  /\ \A i \in 1 .. n : f[i] = step[<<i, f[i - 1]>>]

LEMMA Recursion ==
  ASSUME NEW V, NEW a \in V, NEW n \in Nat, NEW step \in [(1 .. n) \X V -> V]
  PROVE  \E f \in [0 .. n -> V] : IsRecursive(f, n, a, step)
<1> USE DEF IsRecursive
<1> DEFINE Solves(f, m) == IsRecursive(f, m, a, step)
<1> DEFINE S == {m \in Nat : m <= n =>
                      \E f \in [0 .. m -> V] : Solves(f, m)}
<1>1. 0 \in S
  <2>1. [i \in 0 .. 0 |-> a] \in [0 .. 0 -> V]
    OBVIOUS
  <2>2. Solves([i \in 0 .. 0 |-> a], 0)
    OBVIOUS
  <2> QED
    BY <2>1, <2>2
<1>2. ASSUME NEW m \in Nat, m \in S
      PROVE  m + 1 \in S
  <2> SUFFICES ASSUME m + 1 <= n
               PROVE  \E f \in [0 .. m + 1 -> V] : Solves(f, m + 1)
    OBVIOUS
  <2>1. PICK f \in [0 .. m -> V] : Solves(f, m)
    BY <1>2
  <2> DEFINE g == [i \in 0 .. m + 1 |->
                     IF i = m + 1 THEN step[<<m + 1, f[m]>>] ELSE f[i]]
  <2>2. f[m] \in V /\ step[<<m + 1, f[m]>>] \in V
    OBVIOUS
  <2>3. \A i \in 0 .. m : i \in 0 .. m + 1 /\ i # m + 1 /\ g[i] = f[i]
    OBVIOUS
  <2>4. m + 1 \in 0 .. m + 1 /\ g[m + 1] = step[<<m + 1, f[m]>>]
    OBVIOUS
  <2>5. g \in [0 .. m + 1 -> V]
    BY <2>2
  <2> HIDE DEF g
  <2>6. g[0] = a
    BY <2>1, <2>3
  <2>7. ASSUME NEW i \in 1 .. m + 1
        PROVE  g[i] = step[<<i, g[i - 1]>>]
    <3>1. CASE i = m + 1
      <4>1. i - 1 = m /\ m \in 0 .. m
        BY <3>1
      <4> QED
        BY <3>1, <4>1, <2>3, <2>4
    <3>2. CASE i # m + 1
      <4>1. i \in 1 .. m /\ i \in 0 .. m /\ i - 1 \in 0 .. m
        BY <3>2
      <4> QED
        BY <4>1, <2>1, <2>3
    <3> QED
      BY <3>1, <3>2
  <2> QED
    BY <2>5, <2>6, <2>7
<1> HIDE DEF S
<1>3. n \in S
  BY <1>1, <1>2, SetInduction
<1> QED
  BY <1>3 DEF S

-----------------------------------------------------------------------------
(* Division.                                                               *)

(* Quotient and remainder.                                                 *)
LEMMA Division ==
  ASSUME NEW a \in Nat, NEW m \in Nat \ {0}
  PROVE  /\ a \div m \in Nat
         /\ a % m \in 0 .. m - 1
         /\ a = ((a \div m) * m) + (a % m)
OBVIOUS

(* There is only one way to write a number as q * m + r.                   *)
LEMMA DivisionUnique ==
  ASSUME NEW m \in Nat \ {0}, NEW q \in Nat, NEW r \in 0 .. m - 1
  PROVE  /\ (q * m + r) \div m = q
         /\ (q * m + r) % m = r
<1> DEFINE a == q * m + r
           p == a \div m
           s == a % m
<1>1. a \in Nat
  OBVIOUS
<1>2. p \in Nat /\ s \in 0 .. m - 1 /\ a = p * m + s
  BY <1>1, Division
<1> HIDE DEF p, s
<1>3. ~(p < q)
  <2> SUFFICES ASSUME p < q PROVE FALSE
    OBVIOUS
  <2>1. p + 1 <= q
    BY <1>2
  <2>2. (p + 1) * m <= q * m
    BY <2>1, <1>2
  <2> QED
    BY <2>2, <1>2
<1>4. ~(q < p)
  <2> SUFFICES ASSUME q < p PROVE FALSE
    OBVIOUS
  <2>1. q + 1 <= p
    BY <1>2
  <2>2. (q + 1) * m <= p * m
    BY <2>1, <1>2
  <2> QED
    BY <2>2, <1>2
<1>5. p = q
  BY <1>2, <1>3, <1>4
<1>6. s = r
  BY <1>2, <1>5
<1> QED
  BY <1>5, <1>6 DEF p, s

(* What fits is left alone.                                                *)
LEMMA SmallRemainder ==
  ASSUME NEW m \in Nat \ {0}, NEW r \in Nat, r < m
  PROVE  r % m = r
OBVIOUS

(* The last byte of a quotient, and what is before it.                     *)
DividedTwice(w, d) ==
  w \div d = ((w \div (256 * d)) * 256) + ((w \div d) % 256)

LEMMA DivisionTwice ==
  ASSUME NEW w \in Nat, NEW d \in Nat \ {0}
  PROVE  DividedTwice(w, d)
<1> DEFINE x == w \div d
           r == w % d
           q == x \div 256
           b == x % 256
<1>1. x \in Nat /\ r \in 0 .. d - 1 /\ w = x * d + r
  BY Division
<1> HIDE DEF x, r
<1>2. q \in Nat /\ b \in 0 .. 255 /\ x = q * 256 + b
  BY <1>1
<1> HIDE DEF q, b
<1>3. 256 * d \in Nat \ {0}
  OBVIOUS
<1>4. b * d + r \in 0 .. 256 * d - 1
  <2>1. b * d \in Nat /\ b * d <= 255 * d
    BY <1>2
  <2> QED
    BY <2>1, <1>1
<1>5. w = q * (256 * d) + (b * d + r)
  <2>1. w = (q * 256 + b) * d + r
    BY <1>1, <1>2
  <2>2. (q * 256 + b) * d = q * (256 * d) + b * d
    BY <1>2
  <2> QED
    BY <2>1, <2>2, <1>1, <1>2
<1>6. w \div (256 * d) = q
  BY <1>2, <1>3, <1>4, <1>5, DivisionUnique
<1> QED
  BY <1>2, <1>6 DEF x, q, b, DividedTwice

(* A digit appended to what is left of a number after an overflow is one   *)
(* appended to the number (hexString.cpp:111-125).                         *)
LEMMA DigitOfRemainder ==
  ASSUME NEW x \in Nat, NEW m \in Nat \ {0}, NEW d \in Nat
  PROVE  ((x % m) * 16 + d) % m = (x * 16 + d) % m
<1> DEFINE q == x \div m
           r == x % m
           y == r * 16 + d
           p == y \div m
           s == y % m
<1>1. q \in Nat /\ r \in 0 .. m - 1 /\ x = q * m + r
  BY Division
<1> HIDE DEF q, r
<1>2. y \in Nat
  BY <1>1
<1>3. p \in Nat /\ s \in 0 .. m - 1 /\ y = p * m + s
  <2> HIDE DEF y
  <2> QED
    BY <1>2, Division
<1> HIDE DEF p, s
<1>4. x * 16 + d = (16 * q + p) * m + s
  <2>1. x * 16 + d = (q * m) * 16 + y
    BY <1>1
  <2>2. (16 * q + p) * m = (q * m) * 16 + p * m
    BY <1>1, <1>3
  <2> QED
    BY <2>1, <2>2, <1>1, <1>3
<1>5. (x * 16 + d) % m = s
  <2>1. 16 * q + p \in Nat
    BY <1>1, <1>3
  <2>2. ((16 * q + p) * m + s) % m = s
    <3> DEFINE k == 16 * q + p
    <3> HIDE DEF k
    <3> QED
      BY <2>1, <1>3, DivisionUnique DEF k
  <2> QED
    BY <1>4, <2>2
<1> QED
  BY <1>5 DEF s, r

(* A quotient is not larger than what is divided.                          *)
LEMMA DivisionMonotone ==
  ASSUME NEW w \in Nat, NEW d \in Nat \ {0}
  PROVE  w \div d <= w
OBVIOUS

-----------------------------------------------------------------------------
(* Digits and byte arrays.                                                 *)

(* What HexChar2Int returns for decimal digits                             *)
(* (hexString.cpp:11-21).                                                  *)
LEMMA DecimalDigit ==
  ASSUME NEW c \in 48 .. 57
  PROVE  HexChar2Int(c) = c - 48
BY DEF HexChar2Int, Zero, UpperA, LowerA

(* The upper-case letters (hexString.cpp:15-16).                           *)
LEMMA LetterDigit ==
  ASSUME NEW c \in 65 .. 70
  PROVE  HexChar2Int(c) = c - 55
BY DEF HexChar2Int, Zero, UpperA, LowerA

(* Any character (hexString.cpp:11-21).                                    *)
LEMMA DigitType ==
  ASSUME NEW c \in Int
  PROVE  HexChar2Int(c) \in Int
BY DEF HexChar2Int, Zero, UpperA, LowerA

(* A nibble (hexString.cpp:11-21).                                         *)
LEMMA DigitRange ==
  ASSUME NEW c \in Int
  PROVE  HexChar2Int(c) \in Nibble
BY DEF HexChar2Int, Zero, UpperA, LowerA, Nibble

(* A digit that HexNibble2Char writes, HexChar2Int reads                   *)
(* (hexString.cpp:11-33).                                                  *)
LEMMA NibbleRoundTrip ==
  ASSUME NEW nibble \in Nibble
  PROVE  HexChar2Int(HexNibble2Char(nibble)) = nibble
<1>1. CASE nibble < 10
  <2>1. HexNibble2Char(nibble) = nibble + 48
    BY <1>1 DEF HexNibble2Char, Zero
  <2>2. nibble + 48 \in 48 .. 57 /\ nibble + 48 - 48 = nibble
    BY <1>1 DEF Nibble
  <2>3. HexChar2Int(nibble + 48) = nibble
    BY <2>2, DecimalDigit DEF Nibble
  <2> QED
    BY <2>1, <2>3, Zenon
<1>2. CASE ~(nibble < 10)
  <2>1. HexNibble2Char(nibble) = nibble - 10 + 65
    BY <1>2 DEF HexNibble2Char, UpperA
  <2>2. nibble - 10 + 65 \in 65 .. 70 /\ nibble - 10 + 65 - 55 = nibble
    BY <1>2 DEF Nibble
  <2>3. HexChar2Int(nibble - 10 + 65) = nibble
    BY <2>2, LetterDigit DEF Nibble
  <2> QED
    BY <2>1, <2>3, Zenon
<1> QED
  BY <1>1, <1>2

(* A byte is its two nibbles.                                              *)
LEMMA ByteOfNibbles ==
  ASSUME NEW b \in Byte
  PROVE  /\ b \div 16 \in Nibble
         /\ b % 16 \in Nibble
         /\ ((b \div 16) * 16) + (b % 16) = b
BY DEF Byte, Nibble

(* The places of the two digits of a byte.                                 *)
LEMMA Halves ==
  ASSUME NEW n \in Nat
  PROVE  /\ (2 * n) % 2 = 0
         /\ (2 * n) \div 2 = n
         /\ (2 * n + 1) \div 2 = n
         /\ n > 0 => (2 * n - 1) % 2 = 1
OBVIOUS

(* The else branch of HexString2CharArray (hexString.cpp:95-106).          *)
LEMMA EvenLength ==
  ASSUME NEW s, Len(s) \in Nat, Len(s) % 2 = 0
  PROVE  HexString2CharArray(s) =
           [i \in 1 .. Len(s) \div 2 |->
              HexChar2Int(s[2 * i - 1]) * 16 + HexChar2Int(s[2 * i])]
<1> DEFINE n == Len(s)
<1>1. n + 0 = n /\ 0 # 1 /\ n \div 2 \in Nat
  OBVIOUS
<1>2. \A i \in 1 .. n \div 2 : 2 * i - 1 - 0 = 2 * i - 1 /\ 2 * i - 0 = 2 * i
  BY <1>1
<1> QED
  BY <1>1, <1>2 DEF HexString2CharArray

(* What an array is written as: two digits for each byte                   *)
(* (hexString.cpp:68-77).                                                  *)
LEMMA ArrayDigits ==
  ASSUME NEW array \in Seq(Byte), NEW i \in 1 .. Len(array)
  PROVE  LET str == HexByteArray2String(array) IN
           /\ HexChar2Int(str[2 * i - 1]) = array[i] \div 16
           /\ HexChar2Int(str[2 * i]) = array[i] % 16
<1> DEFINE str == HexByteArray2String(array)
<1>1. Len(array) \in Nat /\ array[i] \in Byte
  OBVIOUS
<1>2. /\ 2 * i - 1 \in 1 .. 2 * Len(array)
      /\ (2 * i - 1) % 2 = 1 /\ (2 * i - 1 + 1) \div 2 = i
      /\ 2 * i \in 1 .. 2 * Len(array)
      /\ (2 * i) % 2 # 1 /\ (2 * i + 1) \div 2 = i
  <2>1. i \in Nat /\ i > 0 /\ i <= Len(array) /\ 2 * i - 1 + 1 = 2 * i
    BY <1>1
  <2>2. 2 * i - 1 \in 1 .. 2 * Len(array) /\ 2 * i \in 1 .. 2 * Len(array)
    BY <1>1, <2>1
  <2> QED
    BY <2>1, <2>2, Halves
<1>3. str[2 * i - 1] = HexNibble2Char(array[i] \div 16)
  BY <1>2 DEF HexByteArray2String, HexByte2Chars
<1>4. str[2 * i] = HexNibble2Char(array[i] % 16)
  BY <1>2 DEF HexByteArray2String, HexByte2Chars
<1> QED
  BY <1>1, <1>3, <1>4, ByteOfNibbles, NibbleRoundTrip, Zenon

(* HexString2CharArray is the inverse of HexByteArray2String: an APDU or   *)
(* an ATR of any length and content crosses the connection unchanged       *)
(* (hexString.cpp:68-109).                                                 *)
THEOREM ArrayReadBack ==
  ASSUME NEW array \in Seq(Byte)
  PROVE  HexString2CharArray(HexByteArray2String(array)) = array
<1> DEFINE str == HexByteArray2String(array)
<1>1. Len(array) \in Nat /\ array = [i \in 1 .. Len(array) |-> array[i]]
  OBVIOUS
<1>2. Len(str) = 2 * Len(array)
  BY <1>1 DEF HexByteArray2String
<1>3. Len(str) % 2 = 0 /\ Len(str) \div 2 = Len(array)
  <2>1. (2 * Len(array)) % 2 = 0 /\ (2 * Len(array)) \div 2 = Len(array)
    BY <1>1, Halves
  <2> QED
    BY <2>1, <1>2
<1>4. ASSUME NEW i \in 1 .. Len(array)
      PROVE  HexChar2Int(str[2 * i - 1]) * 16 + HexChar2Int(str[2 * i])
               = array[i]
  <2>1. array[i] \in Byte
    OBVIOUS
  <2>2. /\ HexChar2Int(str[2 * i - 1]) = array[i] \div 16
        /\ HexChar2Int(str[2 * i]) = array[i] % 16
    BY ArrayDigits
  <2> HIDE DEF str
  <2> QED
    BY <2>1, <2>2, ByteOfNibbles
<1>5. HexString2CharArray(str) =
        [i \in 1 .. Len(array) |->
           HexChar2Int(str[2 * i - 1]) * 16 + HexChar2Int(str[2 * i])]
  <2> HIDE DEF str
  <2>1. HexString2CharArray(str) =
          [i \in 1 .. Len(str) \div 2 |->
             HexChar2Int(str[2 * i - 1]) * 16 + HexChar2Int(str[2 * i])]
    BY <1>1, <1>2, <1>3, EvenLength
  <2> QED
    BY <1>3, <2>1
<1>6. [i \in 1 .. Len(array) |->
         HexChar2Int(str[2 * i - 1]) * 16 + HexChar2Int(str[2 * i])]
        = [i \in 1 .. Len(array) |-> array[i]]
  BY <1>4, Zenon
<1>7. HexString2CharArray(str) = [i \in 1 .. Len(array) |-> array[i]]
  BY <1>5, <1>6, Zenon
<1> QED
  BY <1>1, <1>7, Zenon

(* A string of odd length is read as if it had a '0' in front              *)
(* (hexString.cpp:85-94).                                                  *)
THEOREM OddLengthPadded ==
  ASSUME NEW chars \in Seq(Char), Len(chars) % 2 = 1
  PROVE  HexString2CharArray(chars) = HexString2CharArray(<<Zero>> \o chars)
<1> DEFINE padded == <<Zero>> \o chars
<1>1. Len(chars) \in Nat /\ Len(padded) = Len(chars) + 1
  OBVIOUS
<1>2. Len(padded) % 2 = 0 /\ Len(padded) \div 2 = (Len(chars) + 1) \div 2
  BY <1>1
<1>3. padded[1] = Zero /\ \A i \in 1 .. Len(chars) : padded[i + 1] = chars[i]
  BY <1>1
<1>4. HexChar2Int(Zero) = 0
  BY DEF HexChar2Int, Zero, UpperA, LowerA
<1>5. \A n \in 1 .. Len(chars) : chars[n] \in Int
  <2>1. \A n \in 1 .. Len(chars) : chars[n] \in Char
    OBVIOUS
  <2>2. Char \subseteq Int
    BY DEF Char
  <2> QED
    BY <2>1, <2>2, Zenon
<1>6. ASSUME NEW i \in 1 .. (Len(chars) + 1) \div 2
      PROVE  (IF i = 1 THEN HexChar2Int(chars[1])
              ELSE HexChar2Int(chars[2 * i - 1 - 1]) * 16
                     + HexChar2Int(chars[2 * i - 1]))
             = HexChar2Int(padded[2 * i - 1]) * 16
                 + HexChar2Int(padded[2 * i])
  <2>1. CASE i = 1
    <3>1. 1 \in 1 .. Len(chars) /\ padded[2] = chars[1] /\ padded[1] = Zero
      BY <1>1, <1>3
    <3>2. 2 * i - 1 = 1 /\ 2 * i = 2
      BY <2>1
    <3>3. HexChar2Int(chars[1]) \in Int
      BY <3>1, <1>5, DigitType
    <3> QED
      BY <2>1, <3>1, <3>2, <3>3, <1>4
  <2>2. CASE i # 1
    <3>1. /\ 2 * i - 2 \in 1 .. Len(chars) /\ 2 * i - 1 \in 1 .. Len(chars)
          /\ 2 * i - 1 - 1 = 2 * i - 2
          /\ 2 * i - 1 = (2 * i - 2) + 1 /\ 2 * i = (2 * i - 1) + 1
      BY <2>2, <1>1
    <3>2. /\ padded[2 * i - 1] = chars[2 * i - 1 - 1]
          /\ padded[2 * i] = chars[2 * i - 1]
      BY <3>1, <1>3
    <3> QED
      BY <2>2, <3>2
  <2> QED
    BY <2>1, <2>2
<1> HIDE DEF padded
<1>7. HexString2CharArray(chars) =
        [i \in 1 .. (Len(chars) + 1) \div 2 |->
           IF i = 1 THEN HexChar2Int(chars[1])
           ELSE HexChar2Int(chars[2 * i - 1 - 1]) * 16
                  + HexChar2Int(chars[2 * i - 1])]
  BY DEF HexString2CharArray
<1>8. HexString2CharArray(padded) =
        [i \in 1 .. (Len(chars) + 1) \div 2 |->
           HexChar2Int(padded[2 * i - 1]) * 16 + HexChar2Int(padded[2 * i])]
  BY <1>1, <1>2, EvenLength
<1> QED
  BY <1>6, <1>7, <1>8 DEF padded


(* The digits of an array, two for each byte (hexString.cpp:68-77).        *)
LEMMA ArrayText ==
  ASSUME NEW array \in Seq(Byte)
  PROVE  /\ HexByteArray2String(array) \in Seq(Char)
         /\ Len(HexByteArray2String(array)) = 2 * Len(array)
<1>1. ASSUME NEW n \in Nibble
      PROVE  HexNibble2Char(n) \in Char
  BY DEF HexNibble2Char, Nibble, Char, Zero, UpperA
<1>2. ASSUME NEW i \in 1 .. 2 * Len(array)
      PROVE  HexByte2Chars(array[(i + 1) \div 2])[IF i % 2 = 1 THEN 1 ELSE 2]
               \in Char
  <2>1. (i + 1) \div 2 \in 1 .. Len(array)
    OBVIOUS
  <2>2. array[(i + 1) \div 2] \in Byte
    BY <2>1
  <2> QED
    BY <1>1, <2>2, ByteOfNibbles DEF HexByte2Chars
<1>3. HexByteArray2String(array) \in [1 .. 2 * Len(array) -> Char]
  BY <1>2 DEF HexByteArray2String
<1>4. 2 * Len(array) \in Nat
  OBVIOUS
<1> QED
  BY <1>3, <1>4, LenProperties

-----------------------------------------------------------------------------
(* Ints.                                                                   *)

(* How the weights follow each other.                                      *)
LEMMA WeightSteps ==
  /\ Weight \in [0 .. WordBytes -> Nat \ {0}]
  /\ Weight[0] = 1
  /\ \A i \in 1 .. WordBytes : Weight[i] = 256 * Weight[i - 1]
<1> DEFINE V == Nat \ {0}
           step == [p \in (1 .. WordBytes) \X V |-> 256 * p[2]]
           Is(f) == f = [i \in 0 .. WordBytes |->
                           IF i = 0 THEN 1 ELSE 256 * f[i - 1]]
<1>1. 1 \in V /\ WordBytes \in Nat /\ step \in [(1 .. WordBytes) \X V -> V]
  BY WordBytesAssumption
<1>2. PICK f \in [0 .. WordBytes -> V] : IsRecursive(f, WordBytes, 1, step)
  <2> HIDE DEF step, V
  <2> QED
    BY <1>1, Recursion
<1>3. Is(f)
  <2>1. ASSUME NEW i \in 0 .. WordBytes
        PROVE  f[i] = IF i = 0 THEN 1 ELSE 256 * f[i - 1]
    <3>1. CASE i = 0
      BY <3>1, <1>2 DEF IsRecursive
    <3>2. CASE i # 0
      <4>1. i \in 1 .. WordBytes /\ i - 1 \in 0 .. WordBytes
        BY <3>2, <1>1
      <4>2. <<i, f[i - 1]>> \in (1 .. WordBytes) \X V
        BY <4>1
      <4> QED
        BY <3>2, <4>1, <4>2, <1>2 DEF IsRecursive
    <3> QED
      BY <3>1, <3>2
  <2> QED
    BY <2>1
<1>4. Weight = CHOOSE f_ : Is(f_)
  BY DEF Weight
<1>5. Is(Weight)
  <2> HIDE DEF Is
  <2> QED
    BY <1>3, <1>4, Zenon
<1> HIDE DEF step, V
<1>6. Weight = [i \in 0 .. WordBytes |->
                  IF i = 0 THEN 1 ELSE 256 * Weight[i - 1]]
  BY <1>5, Zenon
<1>7. Weight[0] = 1 /\ \A i \in 1 .. WordBytes : Weight[i] = 256 * Weight[i - 1]
  <2>1. 0 \in 0 .. WordBytes
    BY <1>1
  <2>2. Weight[0] = 1
    BY <1>6, <2>1
  <2>3. ASSUME NEW i \in 1 .. WordBytes
        PROVE  Weight[i] = 256 * Weight[i - 1]
    <3>1. i \in 0 .. WordBytes /\ i # 0
      BY <1>1
    <3> QED
      BY <1>6, <3>1
  <2> QED
    BY <2>2, <2>3
<1> DEFINE S == {i \in 0 .. WordBytes : Weight[i] \in Nat \ {0}}
<1>8. 0 \in S
  BY <1>1, <1>7
<1>9. ASSUME NEW i \in 0 .. WordBytes - 1, i \in S
      PROVE  i + 1 \in S
  <2>1. i + 1 \in 1 .. WordBytes /\ i + 1 - 1 = i /\ i + 1 \in 0 .. WordBytes
    BY <1>1
  <2> QED
    BY <1>7, <1>9, <2>1
<1>10. 0 .. WordBytes \subseteq S
  <2> HIDE DEF S
  <2> QED
    BY <1>1, <1>8, <1>9, IntervalInduction
<1>11. Weight \in [0 .. WordBytes -> Nat \ {0}]
  BY <1>6, <1>10
<1> QED
  BY <1>7, <1>11

(* HexString2Int, digit by digit (hexString.cpp:111-125).                  *)
LEMMA IntSteps ==
  ASSUME NEW s, Len(s) \in Nat, \A i \in 1 .. Len(s) : s[i] \in Int
  PROVE  \E f \in [0 .. Len(s) -> Nat] :
           /\ f[0] = 0
           /\ \A i \in 1 .. Len(s) :
                f[i] = (f[i - 1] * 16 + HexChar2Int(s[i])) % Weight[WordBytes]
           /\ HexString2Int(s) = f[Len(s)]
<1> DEFINE n == Len(s)
           m == Weight[WordBytes]
           digit(i) == HexChar2Int(s[i])
           step == [p \in (1 .. n) \X Nat |-> (p[2] * 16 + digit(p[1])) % m]
           Is(f) == f = [i \in 0 .. n |->
                           IF i = 0 THEN 0 ELSE (f[i - 1] * 16 + digit(i)) % m]
<1>1. m \in Nat \ {0}
  BY WeightSteps, WordBytesAssumption
<1>2. ASSUME NEW i \in 1 .. n
      PROVE  digit(i) \in Nat
  <2>1. HexChar2Int(s[i]) \in Nibble
    BY DigitRange, Zenon
  <2>2. \A d \in Nibble : d \in Nat
    BY DEF Nibble
  <2> QED
    BY <2>1, <2>2, Zenon
<1> HIDE DEF n, m, digit
<1>3. step \in [(1 .. n) \X Nat -> Nat]
  BY <1>1, <1>2
<1>4. n \in Nat
  BY DEF n
<1>5. PICK f \in [0 .. n -> Nat] : IsRecursive(f, n, 0, step)
  <2> HIDE DEF step
  <2> QED
    BY <1>3, <1>4, Recursion
<1>6. Is(f)
  <2>1. ASSUME NEW i \in 0 .. n
        PROVE  f[i] = IF i = 0 THEN 0 ELSE (f[i - 1] * 16 + digit(i)) % m
    <3>1. CASE i = 0
      BY <3>1, <1>5 DEF IsRecursive
    <3>2. CASE i # 0
      <4>1. i \in 1 .. n /\ i - 1 \in 0 .. n
        BY <3>2, <1>4
      <4>2. <<i, f[i - 1]>> \in (1 .. n) \X Nat
        BY <4>1
      <4> QED
        BY <3>2, <4>1, <4>2, <1>5 DEF IsRecursive
    <3> QED
      BY <3>1, <3>2
  <2> QED
    BY <2>1
<1> DEFINE g == CHOOSE f_ : Is(f_)
<1>7. Is(g)
  <2> HIDE DEF Is
  <2> QED
    BY <1>6, Zenon
<1>8. HexString2Int(s) = g[n]
  BY DEF HexString2Int, n, m, digit
<1> HIDE DEF g, step
<1>9. g = [i \in 0 .. n |-> IF i = 0 THEN 0 ELSE (g[i - 1] * 16 + digit(i)) % m]
  BY <1>7, Zenon
<1>10. g[0] = 0 /\ \A i \in 1 .. n : g[i] = (g[i - 1] * 16 + digit(i)) % m
  BY <1>4, <1>9
<1> DEFINE S == {i \in 0 .. n : g[i] \in Nat}
<1>11. 0 \in S
  BY <1>4, <1>10
<1>12. ASSUME NEW i \in 0 .. n - 1, i \in S
       PROVE  i + 1 \in S
  <2>1. i + 1 \in 1 .. n /\ i + 1 - 1 = i /\ i + 1 \in 0 .. n
    BY <1>4
  <2>2. g[i] * 16 + digit(i + 1) \in Nat
    BY <1>2, <1>12, <2>1
  <2>3. g[i + 1] = (g[i] * 16 + digit(i + 1)) % m
    BY <1>10, <2>1
  <2>4. g[i + 1] \in Nat
    <3> DEFINE x == g[i] * 16 + digit(i + 1)
    <3> HIDE DEF x
    <3>1. x % m \in 0 .. m - 1
      BY <1>1, <2>2, Division DEF x
    <3> QED
      BY <1>1, <2>3, <3>1 DEF x
  <2> QED
    BY <2>1, <2>4
<1>13. 0 .. n \subseteq S
  <2> HIDE DEF S
  <2> QED
    BY <1>4, <1>11, <1>12, IntervalInduction
<1>14. g \in [0 .. n -> Nat]
  BY <1>9, <1>13
<1> QED
  BY <1>8, <1>10, <1>14 DEF n, m, digit

(* The bytes of an int (hexString.cpp:56-66).                              *)
LEMMA WordBytesType ==
  ASSUME NEW w \in Nat
  PROVE  WordBytesOf(w) \in Seq(Byte) /\ Len(WordBytesOf(w)) = WordBytes
<1>1. WordBytes \in Nat
  BY WordBytesAssumption
<1>2. ASSUME NEW i \in 1 .. WordBytes
      PROVE  (w \div Weight[WordBytes - i]) % 256 \in Byte
  <2>1. WordBytes - i \in 0 .. WordBytes
    BY <1>1
  <2> DEFINE d == Weight[WordBytes - i]
             x == w \div d
  <2>2. d \in Nat \ {0}
    BY <2>1, WeightSteps
  <2> HIDE DEF d
  <2>3. x \in Nat
    BY <2>2, Division
  <2> HIDE DEF x
  <2>4. x % 256 \in 0 .. 255
    BY <2>3
  <2> QED
    BY <2>4 DEF Byte, x, d
<1>3. WordBytesOf(w) \in [1 .. WordBytes -> Byte]
  BY <1>2 DEF WordBytesOf
<1> QED
  BY <1>1, <1>3, LenProperties

(* An int that is written is read back: a code, a lun or a length crosses  *)
(* the connection unchanged, however many bytes an int has                 *)
(* (hexString.cpp:56-66, 111-125).                                         *)
THEOREM IntReadBack ==
  ASSUME NEW w \in Words
  PROVE  HexString2Int(HexInt2String(w)) = w
<1> DEFINE n == WordBytes
           m == Weight[n]
           array == WordBytesOf(w)
           str == HexInt2String(w)
<1>1. n \in Nat /\ m \in Nat \ {0} /\ w \in Nat /\ w < m
  <2>1. n \in Nat
    BY WordBytesAssumption
  <2>2. m \in Nat \ {0}
    BY <2>1, WeightSteps
  <2> QED
    BY <2>1, <2>2 DEF Words
<1>2. array \in Seq(Byte) /\ Len(array) = n
  BY <1>1, WordBytesType
<1>3. str \in Seq(Char) /\ Len(str) = 2 * n
  BY <1>2, ArrayText DEF HexInt2String
<1>4. \A i \in 1 .. n : /\ HexChar2Int(str[2 * i - 1]) = array[i] \div 16
                        /\ HexChar2Int(str[2 * i]) = array[i] % 16
  <2> HIDE DEF array
  <2> QED
    BY <1>2, ArrayDigits DEF HexInt2String, array
<1>5. PICK f \in [0 .. Len(str) -> Nat] :
        /\ f[0] = 0
        /\ \A i \in 1 .. Len(str) :
             f[i] = (f[i - 1] * 16 + HexChar2Int(str[i])) % m
        /\ HexString2Int(str) = f[Len(str)]
  <2>1. \A i \in 1 .. Len(str) : str[i] \in Int
    <3> HIDE DEF str
    <3>1. \A i \in 1 .. Len(str) : str[i] \in Char
      BY <1>3
    <3>2. Char \subseteq Int
      BY DEF Char
    <3> QED
      BY <3>1, <3>2, Zenon
  <2> HIDE DEF str
  <2>2. Len(str) \in Nat
    BY <1>1, <1>3
  <2> QED
    BY <2>1, <2>2, IntSteps, Zenon
<1>6. \A i \in 1 .. n : array[i] = (w \div Weight[n - i]) % 256
  BY Zenon DEF WordBytesOf
<1> HIDE DEF str, array
<1> DEFINE S == {j \in 0 .. n : f[2 * j] = w \div Weight[n - j]}
<1>7. 0 \in S
  <2>1. w \div m = 0
    BY <1>1
  <2> QED
    BY <1>1, <1>5, <2>1
<1>8. ASSUME NEW j \in 0 .. n - 1, j \in S
      PROVE  j + 1 \in S
  <2> DEFINE d == Weight[n - (j + 1)]
             q == f[2 * j]
             b == (w \div d) % 256
  <2>1. d \in Nat \ {0} /\ Weight[n - j] = 256 * d
    <3>1. n - (j + 1) \in 0 .. n /\ n - j \in 1 .. n /\ n - j - 1 = n - (j + 1)
      BY <1>1
    <3> QED
      BY <3>1, WeightSteps
  <2>2. q \in Nat /\ b \in Byte /\ w \div d = q * 256 + b /\ w \div d < m
    <3>1. q = w \div (256 * d)
      BY <1>8, <2>1
    <3> HIDE DEF d, q
    <3>2. w \div d \in Nat /\ w \div d <= w
      <4>1. w \in Nat /\ d \in Nat \ {0}
        BY <1>1, <2>1
      <4> QED
        BY <4>1, Division, DivisionMonotone
    <3>3. w \div (256 * d) \in Nat
      BY <1>1, <2>1, Division
    <3>4. b \in Byte
      <4> DEFINE x == w \div d
      <4>1. x \in Nat
        BY <3>2
      <4> HIDE DEF x
      <4>2. x % 256 \in 0 .. 255
        BY <4>1
      <4> QED
        BY <4>2 DEF x, Byte
    <3>5. w \div d = q * 256 + b
      <4>1. w \in Nat /\ d \in Nat \ {0}
        BY <1>1, <2>1
      <4>2. w \div d = ((w \div (256 * d)) * 256) + ((w \div d) % 256)
        <5>1. DividedTwice(w, d)
          BY <4>1, DivisionTwice, Zenon
        <5> QED
          BY <5>1, Zenon DEF DividedTwice
      <4>3. ((w \div (256 * d)) * 256) + ((w \div d) % 256) = q * 256 + b
        BY <3>1
      <4> QED
        BY <4>2, <4>3
    <3> QED
      BY <1>1, <3>1, <3>2, <3>3, <3>4, <3>5
  <2>3. array[j + 1] = b
    BY <1>1, <1>6
  <2>4. /\ 2 * j + 1 \in 1 .. Len(str) /\ 2 * j + 1 - 1 = 2 * j
        /\ 2 * j + 2 \in 1 .. Len(str) /\ 2 * j + 2 - 1 = 2 * j + 1
        /\ 2 * (j + 1) - 1 = 2 * j + 1 /\ 2 * (j + 1) = 2 * j + 2
        /\ j + 1 \in 1 .. n
    BY <1>1, <1>3
  <2>5. /\ HexChar2Int(str[2 * j + 1]) = b \div 16
        /\ HexChar2Int(str[2 * j + 2]) = b % 16
    <3>1. /\ HexChar2Int(str[2 * (j + 1) - 1]) = array[j + 1] \div 16
          /\ HexChar2Int(str[2 * (j + 1)]) = array[j + 1] % 16
      BY <1>4, <2>4, Zenon
    <3> HIDE DEF b
    <3> QED
      BY <2>3, <2>4, <3>1, Zenon
  <2>6. /\ f[2 * j + 1] = (q * 16 + (b \div 16)) % m
        /\ f[2 * j + 2] = (f[2 * j + 1] * 16 + (b % 16)) % m
    <3> HIDE DEF m, b
    <3>1. \A i, k : i \in 1 .. Len(str) /\ i - 1 = k =>
            f[i] = (f[k] * 16 + HexChar2Int(str[i])) % m
      BY <1>5, Zenon
    <3>2. f[2 * j + 1] = (f[2 * j] * 16 + HexChar2Int(str[2 * j + 1])) % m
      BY <2>4, <3>1
    <3>3. f[2 * j + 2] = (f[2 * j + 1] * 16 + HexChar2Int(str[2 * j + 2])) % m
      BY <2>4, <3>1
    <3> QED
      BY <2>5, <3>2, <3>3
  <2> HIDE DEF d, q, b
  <2>7. b \div 16 \in Nibble /\ b % 16 \in Nibble
        /\ ((b \div 16) * 16) + (b % 16) = b
    BY <2>2, ByteOfNibbles
  <2>8. f[2 * j + 1] = q * 16 + (b \div 16)
    <3>1. q * 16 + (b \div 16) \in Nat /\ q * 16 + (b \div 16) < m
      BY <1>1, <2>2, <2>7 DEF Nibble, Byte
    <3> QED
      BY <1>1, <2>6, <3>1, SmallRemainder
  <2>9. f[2 * j + 2] = q * 256 + b
    <3>1. (q * 16 + (b \div 16)) * 16 + (b % 16) = q * 256 + b
      BY <2>2, <2>7 DEF Nibble, Byte
    <3>2. q * 256 + b \in Nat /\ q * 256 + b < m
      BY <1>1, <2>2 DEF Byte
    <3> QED
      BY <1>1, <2>6, <2>8, <3>1, <3>2, SmallRemainder
  <2>10. j + 1 \in 0 .. n /\ f[2 * (j + 1)] = w \div d
    BY <1>1, <2>2, <2>4, <2>9
  <2> QED
    BY <2>10 DEF d
<1>9. n \in S
  <2> HIDE DEF S
  <2>1. 0 .. n \subseteq S
    BY <1>1, <1>7, <1>8, IntervalInduction
  <2> QED
    BY <1>1, <2>1
<1>10. Weight[n - n] = 1 /\ w \div 1 = w
  BY <1>1, WeightSteps
<1> QED
  BY <1>3, <1>5, <1>9, <1>10 DEF str

(* BigEndian, byte by byte.                                                *)
LEMMA BigEndianSteps ==
  ASSUME NEW array, Len(array) \in Nat, \A i \in 1 .. Len(array) : array[i] \in Nat
  PROVE  \E f \in [0 .. Len(array) -> Nat] :
           /\ f[0] = 0
           /\ \A i \in 1 .. Len(array) : f[i] = f[i - 1] * 256 + array[i]
           /\ BigEndian(array) = f[Len(array)]
<1> DEFINE n == Len(array)
           step == [p \in (1 .. n) \X Nat |-> p[2] * 256 + array[p[1]]]
           Is(f) == f = [i \in 0 .. n |->
                           IF i = 0 THEN 0 ELSE f[i - 1] * 256 + array[i]]
<1> HIDE DEF n
<1>1. n \in Nat /\ \A i \in 1 .. n : array[i] \in Nat
  BY DEF n
<1>2. step \in [(1 .. n) \X Nat -> Nat]
  BY <1>1
<1>3. PICK f \in [0 .. n -> Nat] : IsRecursive(f, n, 0, step)
  <2> HIDE DEF step
  <2> QED
    BY <1>1, <1>2, Recursion
<1>4. Is(f)
  <2>1. ASSUME NEW i \in 0 .. n
        PROVE  f[i] = IF i = 0 THEN 0 ELSE f[i - 1] * 256 + array[i]
    <3>1. CASE i = 0
      BY <3>1, <1>3 DEF IsRecursive
    <3>2. CASE i # 0
      <4>1. i \in 1 .. n /\ i - 1 \in 0 .. n
        BY <3>2, <1>1
      <4>2. <<i, f[i - 1]>> \in (1 .. n) \X Nat
        BY <4>1
      <4> QED
        BY <3>2, <4>1, <4>2, <1>3 DEF IsRecursive
    <3> QED
      BY <3>1, <3>2
  <2> QED
    BY <2>1
<1> DEFINE g == CHOOSE f_ : Is(f_)
<1>5. Is(g)
  <2> HIDE DEF Is
  <2> QED
    BY <1>4, Zenon
<1>6. BigEndian(array) = g[n]
  BY DEF BigEndian, n
<1> HIDE DEF g, step
<1>7. g = [i \in 0 .. n |-> IF i = 0 THEN 0 ELSE g[i - 1] * 256 + array[i]]
  BY <1>5, Zenon
<1>8. g[0] = 0 /\ \A i \in 1 .. n : g[i] = g[i - 1] * 256 + array[i]
  BY <1>1, <1>7
<1> DEFINE S == {i \in 0 .. n : g[i] \in Nat}
<1>9. 0 \in S
  BY <1>1, <1>8
<1>10. ASSUME NEW i \in 0 .. n - 1, i \in S
       PROVE  i + 1 \in S
  <2>1. i + 1 \in 1 .. n /\ i + 1 - 1 = i /\ i + 1 \in 0 .. n
    BY <1>1
  <2>2. g[i + 1] = g[i] * 256 + array[i + 1] /\ array[i + 1] \in Nat
    BY <1>1, <1>8, <2>1
  <2> QED
    BY <1>10, <2>1, <2>2
<1>11. 0 .. n \subseteq S
  <2> HIDE DEF S
  <2> QED
    BY <1>1, <1>9, <1>10, IntervalInduction
<1>12. g \in [0 .. n -> Nat]
  BY <1>7, <1>11
<1> QED
  BY <1>6, <1>8, <1>12 DEF n

(* A string of any length and content is the same number as the bytes of   *)
(* its array, up to the bits that do not fit an int                        *)
(* (hexString.cpp:79-125).                                                 *)
THEOREM ReadingsAgree ==
  ASSUME NEW chars \in Seq(Char)
  PROVE  HexString2Int(chars) =
           BigEndian(HexString2CharArray(chars)) % Weight[WordBytes]
<1> DEFINE odd == Len(chars) % 2
           n == (Len(chars) + odd) \div 2
           m == Weight[WordBytes]
           digit(i) == HexChar2Int(chars[i])
           array == HexString2CharArray(chars)
<1>1. /\ Len(chars) \in Nat /\ odd \in {0, 1} /\ n \in Nat
      /\ Len(chars) = 2 * n - odd
  OBVIOUS
<1>2. m \in Nat \ {0}
  BY WeightSteps, WordBytesAssumption
<1>3. \A i \in 1 .. Len(chars) : chars[i] \in Int
  <2>1. \A i \in 1 .. Len(chars) : chars[i] \in Char
    OBVIOUS
  <2>2. Char \subseteq Int
    BY DEF Char
  <2> QED
    BY <2>1, <2>2, Zenon
<1>4. ASSUME NEW i \in 1 .. Len(chars)
      PROVE  digit(i) \in Nat
  <2>1. HexChar2Int(chars[i]) \in Nibble
    BY <1>3, DigitRange, Zenon
  <2>2. \A d \in Nibble : d \in Nat
    BY DEF Nibble
  <2> QED
    BY <2>1, <2>2, Zenon
<1>5. PICK f \in [0 .. Len(chars) -> Nat] :
        /\ f[0] = 0
        /\ \A i \in 1 .. Len(chars) : f[i] = (f[i - 1] * 16 + digit(i)) % m
        /\ HexString2Int(chars) = f[Len(chars)]
  BY <1>1, <1>3, IntSteps
<1>6. /\ Len(array) = n
      /\ \A i \in 1 .. n :
           array[i] = IF odd = 1 /\ i = 1 THEN digit(1)
                      ELSE digit(2 * i - 1 - odd) * 16 + digit(2 * i - odd)
  BY <1>1 DEF HexString2CharArray
<1> HIDE DEF odd, n, m, digit, array
<1>7. ASSUME NEW i \in 1 .. n
      PROVE  array[i] \in Nat
  <2>1. CASE odd = 1 /\ i = 1
    <3>1. 1 \in 1 .. Len(chars)
      BY <1>1, <2>1
    <3> QED
      BY <1>4, <1>6, <2>1, <3>1
  <2>2. CASE ~(odd = 1 /\ i = 1)
    <3>1. /\ 2 * i - 1 - odd \in 1 .. Len(chars)
          /\ 2 * i - odd \in 1 .. Len(chars)
      BY <1>1, <2>2
    <3> QED
      BY <1>4, <1>6, <2>2, <3>1
  <2> QED
    BY <2>1, <2>2
<1>8. PICK v \in [0 .. n -> Nat] :
        /\ v[0] = 0
        /\ \A i \in 1 .. n : v[i] = v[i - 1] * 256 + array[i]
        /\ BigEndian(array) = v[n]
  BY <1>1, <1>6, <1>7, BigEndianSteps
<1>9. ASSUME NEW k \in Int, NEW i \in 1 .. Len(chars), i = k + 1
      PROVE  f[i] = (f[k] * 16 + digit(i)) % m
  <2>1. i - 1 = k
    BY <1>9
  <2> QED
    BY <1>5, <2>1, Zenon
<1> DEFINE S == {j \in 0 .. n : odd <= j => f[2 * j - odd] = v[j] % m}
<1>10. 0 \in S
  <2>1. ASSUME odd <= 0 PROVE f[2 * 0 - odd] = v[0] % m
    <3>1. 2 * 0 - odd = 0
      BY <1>1, <2>1
    <3>2. 0 % m = 0
      BY <1>2, SmallRemainder
    <3> QED
      BY <1>5, <1>8, <3>1, <3>2
  <2> QED
    BY <1>1, <2>1
<1>11. ASSUME NEW j \in 0 .. n - 1, j \in S
       PROVE  j + 1 \in S
  <2>1. j + 1 \in 1 .. n /\ j + 1 \in 0 .. n /\ j + 1 - 1 = j /\ j \in 0 .. n
    BY <1>1
  <2>2. v[j + 1] = v[j] * 256 + array[j + 1] /\ v[j] \in Nat
    BY <1>8, <2>1
  <2>3. CASE odd = 1 /\ j = 0
    <3>1. /\ 2 * (j + 1) - odd = 1 /\ 1 \in 1 .. Len(chars) /\ 1 - 1 = 0
          /\ 2 * (j + 1) - odd - 1 = 0
      BY <1>1, <2>1, <2>3
    <3>2. digit(1) \in Nat /\ 0 * 16 + digit(1) = digit(1)
          /\ 0 * 256 + digit(1) = digit(1)
      BY <1>4, <3>1
    <3>3. f[1] = (f[0] * 16 + digit(1)) % m
      BY <1>5, <3>1
    <3>4. f[1] = digit(1) % m
      BY <1>5, <3>2, <3>3
    <3>5. array[j + 1] = digit(1) /\ v[j + 1] = digit(1)
      BY <1>6, <1>8, <2>1, <2>2, <2>3, <3>2
    <3> QED
      BY <2>1, <3>1, <3>4, <3>5
  <2>4. CASE ~(odd = 1 /\ j = 0)
    <3> DEFINE k == 2 * j - odd
               a == digit(k + 1)
               b == digit(k + 2)
               x == v[j]
    <3>1. /\ odd <= j /\ k + 1 \in 1 .. Len(chars) /\ k + 2 \in 1 .. Len(chars)
          /\ k + 1 - 1 = k /\ k + 2 - 1 = k + 1
          /\ 2 * (j + 1) - 1 - odd = k + 1 /\ 2 * (j + 1) - odd = k + 2
          /\ ~(odd = 1 /\ j + 1 = 1)
      BY <1>1, <2>1, <2>4
    <3>2. array[j + 1] = a * 16 + b
      <4> HIDE DEF k
      <4> QED
        BY <1>6, <2>1, <3>1
    <3>3. f[k] = x % m
      BY <1>11, <3>1
    <3>4. a \in Nat /\ b \in Nat
      <4> HIDE DEF k
      <4> QED
        BY <1>4, <3>1
    <3>5. f[k + 1] = (f[k] * 16 + a) % m /\ f[k + 2] = (f[k + 1] * 16 + b) % m
      <4>1. k \in Int /\ k + 1 \in Int /\ k + 2 = (k + 1) + 1
        BY <1>1
      <4> HIDE DEF k
      <4>2. f[k + 1] = (f[k] * 16 + digit(k + 1)) % m
        BY <1>9, <3>1, <4>1, Zenon
      <4>3. f[k + 2] = (f[k + 1] * 16 + digit(k + 2)) % m
        BY <1>9, <3>1, <4>1, Zenon
      <4> QED
        BY <4>2, <4>3, Zenon
    <3> HIDE DEF a, b, k, x
    <3>6. x \in Nat
      BY <2>2 DEF x
    <3>7. f[k + 1] = (x * 16 + a) % m
      <4>1. m \in Nat \ {0}
        BY <1>2
      <4>2. ((x % m) * 16 + a) % m = (x * 16 + a) % m
        BY <3>4, <3>6, <4>1, DigitOfRemainder, Zenon
      <4> QED
        BY <3>3, <3>5, <4>2, Zenon
    <3>8. x * 16 + a \in Nat
      BY <3>4, <3>6
    <3>9. f[k + 2] = ((x * 16 + a) * 16 + b) % m
      <4> DEFINE y == x * 16 + a
      <4> HIDE DEF y
      <4>1. f[k + 2] = ((y % m) * 16 + b) % m /\ y \in Nat
        BY <3>5, <3>7, <3>8 DEF y
      <4>2. f[k + 2] = (y * 16 + b) % m
        BY <1>2, <3>4, <4>1, DigitOfRemainder
      <4> QED
        BY <4>2 DEF y
    <3>10. (x * 16 + a) * 16 + b = v[j + 1]
      <4>1. v[j + 1] = x * 256 + (a * 16 + b)
        BY <2>2, <3>2 DEF x
      <4> QED
        BY <3>4, <3>6, <4>1
    <3> QED
      BY <2>1, <3>1, <3>9, <3>10
  <2> QED
    BY <2>3, <2>4
<1>12. n \in S
  <2> HIDE DEF S
  <2>1. 0 .. n \subseteq S
    BY <1>1, <1>10, <1>11, IntervalInduction
  <2> QED
    BY <1>1, <2>1
<1>13. odd <= n
  BY <1>1
<1> QED
  BY <1>1, <1>5, <1>8, <1>12, <1>13 DEF m, array

-----------------------------------------------------------------------------
(* Messages and their lengths.                                             *)

IsSequence(s) == \E S : s \in Seq(S)

(* A function on 1 .. n is a sequence of length n.                         *)
LEMMA FunctionIsSequence ==
  ASSUME NEW n \in Nat, NEW S, NEW f \in [1 .. n -> S]
  PROVE  IsSequence(f) /\ Len(f) = n
<1>1. f \in Seq(S)
  OBVIOUS
<1> QED
  BY <1>1, LenProperties DEF IsSequence

(* strcat: the lengths add up.                                             *)
LEMMA ConcatLength ==
  ASSUME NEW s, NEW t, IsSequence(s), IsSequence(t)
  PROVE  /\ IsSequence(s \o t)
         /\ Len(s) \in Nat /\ Len(t) \in Nat
         /\ Len(s \o t) = Len(s) + Len(t)
<1>1. PICK S : s \in Seq(S)
  BY DEF IsSequence
<1>2. PICK T : t \in Seq(T)
  BY DEF IsSequence
<1>3. s \in Seq(S \cup T) /\ t \in Seq(S \cup T)
  BY <1>1, <1>2, SeqMonotonic
<1>4. s \o t \in Seq(S \cup T) /\ Len(s \o t) = Len(s) + Len(t)
  BY <1>3, ConcatProperties
<1> QED
  BY <1>3, <1>4, LenProperties DEF IsSequence

(* An int has two digits for each of its bytes (hexString.cpp:56-66).      *)
LEMMA IntLength ==
  ASSUME NEW n
  PROVE  IsSequence(HexInt2String(n)) /\ Len(HexInt2String(n)) = Digits
<1> DEFINE word_ == WordBytesOf(n)
<1>1. WordBytes \in Nat /\ Digits \in Nat
  BY WordBytesAssumption DEF Digits
<1>2. Len(word_) = WordBytes
  <2>1. word_ \in [1 .. WordBytes -> {word_[i] : i \in 1 .. WordBytes}]
    BY DEF WordBytesOf
  <2> QED
    BY <1>1, <2>1, FunctionIsSequence
<1> HIDE DEF word_
<1> DEFINE digits == HexByteArray2String(word_)
<1>3. digits \in [1 .. Digits -> {digits[i] : i \in 1 .. Digits}]
  BY <1>2 DEF HexByteArray2String, Digits
<1>4. HexInt2String(n) = digits
  BY DEF HexInt2String, word_
<1> QED
  BY <1>1, <1>3, <1>4, FunctionIsSequence

(* The divider and the lun field.                                          *)
LEMMA FieldLength ==
  /\ IsSequence(<<Divider>>) /\ Len(<<Divider>>) = 1
  /\ IsSequence(LunField) /\ Len(LunField) = Digits
  /\ Digits \in Nat
<1>1. Digits \in Nat
  BY WordBytesAssumption DEF Digits
<1>2. <<Divider>> \in Seq({Divider}) /\ Len(<<Divider>>) = 1
  OBVIOUS
<1>3. LunField \in [1 .. Digits -> {Zero}]
  BY DEF LunField
<1> QED
  BY <1>1, <1>2, <1>3, FunctionIsSequence DEF IsSequence

(* The parameters' buffers (persoSimConnect.cpp:263-267, 318-321,          *)
(* device.cpp:303-310).                                                    *)
LEMMA ParamsLength ==
  ASSUME NEW array \in Seq(Byte), NEW n, NEW m
  PROVE  /\ IsSequence(TransmitParams(array, n))
         /\ Len(TransmitParams(array, n)) = 2 * Len(array) + 1 + Digits
         /\ Len(PowerParams(n, m)) = 2 * Digits + 1
         /\ IsSequence(ControlParams(n, array, m))
         /\ Len(ControlParams(n, array, m)) =
              Digits + 1 + 2 * Len(array) + 1 + Digits
<1> DEFINE t == HexByteArray2String(array)
           d == <<Divider>>
           a == HexInt2String(n)
           b == HexInt2String(m)
<1>1. /\ IsSequence(t) /\ Len(t) = 2 * Len(array)
      /\ Len(array) \in Nat
  BY ArrayText, LenProperties DEF IsSequence
<1>2. IsSequence(d) /\ Len(d) = 1 /\ Digits \in Nat
  BY FieldLength
<1>3. /\ IsSequence(a) /\ Len(a) = Digits
      /\ IsSequence(b) /\ Len(b) = Digits
  BY IntLength
<1>4. /\ TransmitParams(array, n) = (t \o d) \o a
      /\ PowerParams(n, m) = (a \o d) \o b
      /\ ControlParams(n, array, m) = (((a \o d) \o t) \o d) \o b
  BY DEF TransmitParams, PowerParams, ControlParams
<1> HIDE DEF t, d, a, b
<1>5. IsSequence(t \o d) /\ Len(t \o d) = 2 * Len(array) + 1
  BY <1>1, <1>2, ConcatLength
<1>6. /\ IsSequence((t \o d) \o a)
      /\ Len((t \o d) \o a) = 2 * Len(array) + 1 + Digits
  BY <1>3, <1>5, ConcatLength
<1>7. IsSequence(a \o d) /\ Len(a \o d) = Digits + 1
  BY <1>2, <1>3, ConcatLength
<1>8. Len((a \o d) \o b) = Digits + 1 + Digits
  BY <1>3, <1>7, ConcatLength
<1>9. /\ IsSequence((a \o d) \o t)
      /\ Len((a \o d) \o t) = Digits + 1 + 2 * Len(array)
  BY <1>1, <1>7, ConcatLength
<1>10. /\ IsSequence(((a \o d) \o t) \o d)
       /\ Len(((a \o d) \o t) \o d) = Digits + 1 + 2 * Len(array) + 1
  BY <1>2, <1>9, ConcatLength
<1>11. /\ IsSequence((((a \o d) \o t) \o d) \o b)
       /\ Len((((a \o d) \o t) \o d) \o b) =
            Digits + 1 + 2 * Len(array) + 1 + Digits
  BY <1>3, <1>10, ConcatLength
<1>12. Digits + 1 + Digits = 2 * Digits + 1
  BY <1>2
<1> QED
  BY <1>4, <1>6, <1>8, <1>11, <1>12

(* A request of a function of two digits and any parameters fits its       *)
(* buffer with its '\0', and so does the '\0' that is written early        *)
(* (persoSimConnect.cpp:202-216).                                          *)
LEMMA MessageFits ==
  ASSUME NEW function, IsSequence(function), Len(function) = 2,
         NEW params, IsSequence(params)
  PROVE  /\ Len(RequestMessage(function, params)) + 1
              <= MsgBufferSize(function, params)
         /\ TerminatedAt(params) < MsgBufferSize(function, params)
<1> DEFINE d == <<Divider>>
           tail == IF params = <<>> THEN <<>> ELSE d \o params
           head == (function \o d) \o LunField
<1>1. /\ IsSequence(d) /\ Len(d) = 1 /\ IsSequence(LunField)
      /\ Len(LunField) = Digits /\ Digits \in Nat
  BY FieldLength
<1>2. Len(params) \in Nat
  BY LenProperties DEF IsSequence
<1>3. RequestMessage(function, params) = head \o tail
  BY DEF RequestMessage
<1> HIDE DEF d
<1>4. IsSequence(function \o d) /\ Len(function \o d) = 3
  <2>1. /\ IsSequence(function \o d)
        /\ Len(function \o d) = Len(function) + Len(d)
    BY <1>1, ConcatLength, Zenon
  <2>2. Len(function) = 2 /\ Len(d) = 1 /\ 2 + 1 = 3
    BY <1>1
  <2> QED
    BY <2>1, <2>2
<1>5. IsSequence(head) /\ Len(head) = 3 + Digits
  BY <1>1, <1>4, ConcatLength
<1>6. /\ IsSequence(tail)
      /\ Len(tail) = IF params = <<>> THEN 0 ELSE 1 + Len(params)
  <2>1. CASE params = <<>>
    <3>1. <<>> \in Seq({0}) /\ Len(<<>>) = 0
      OBVIOUS
    <3> QED
      BY <2>1, <3>1 DEF IsSequence
  <2>2. CASE params # <<>>
    BY <1>1, <2>2, ConcatLength
  <2> QED
    BY <2>1, <2>2
<1> HIDE DEF head, tail
<1>7. Len(head \o tail) = Len(head) + Len(tail)
  BY <1>5, <1>6, ConcatLength
<1>8. Len(head \o tail) + 1 <= 2 + 1 + 2 + Digits + Len(params)
  <2> DEFINE h == Len(head)
             l == Len(tail)
             p == Len(params)
  <2>1. l \in Nat /\ l <= 1 + p
    BY <1>2, <1>6
  <2>2. h = 3 + Digits /\ Len(head \o tail) = h + l
    BY <1>5, <1>7
  <2>3. p \in Nat /\ Digits \in Nat
    BY <1>1, <1>2
  <2> HIDE DEF h, l, p
  <2>4. h + l + 1 <= 2 + 1 + 2 + Digits + p
    BY <2>1, <2>2, <2>3
  <2> QED
    BY <2>2, <2>4 DEF p
<1>9. MsgBufferSize(function, params) = 2 + 1 + 2 + Digits + Len(params)
  BY DEF MsgBufferSize
<1>10. TerminatedAt(params) < 2 + 1 + 2 + Digits + Len(params)
  BY <1>1, <1>2 DEF TerminatedAt
<1> QED
  BY <1>3, <1>8, <1>9, <1>10


(* Every request of the driver has a function of two digits                *)
(* (persoSimConnect.h): all its buffers hold what is put into them, for a  *)
(* command APDU or control data of any length.                             *)
LEMMA BuffersAreEnough ==
  ASSUME bytes \in Seq(Byte)
  PROVE  RequestFits
<1> DEFINE function == <<Zero + 1, Zero + 5>>
           transmit_ == TransmitParams(bytes, word)
           control == ControlParams(word, bytes, word)
<1>1. IsSequence(function) /\ Len(function) = 2
  <2>1. function \in Seq({Zero + 1, Zero + 5}) /\ Len(function) = 2
    OBVIOUS
  <2> QED
    BY <2>1 DEF IsSequence
<1>2. /\ IsSequence(transmit_) /\ IsSequence(control)
      /\ Len(transmit_) = 2 * Len(bytes) + 1 + Digits
      /\ Len(PowerParams(word, word)) = 2 * Digits + 1
      /\ Len(control) = Digits + 1 + 2 * Len(bytes) + 1 + Digits
  BY ParamsLength
<1>3. IsSequence(<<>>)
  <2>1. <<>> \in Seq({0})
    OBVIOUS
  <2> QED
    BY <2>1 DEF IsSequence
<1>4. Len(bytes) \in Nat /\ Digits \in Nat
  BY LenProperties, FieldLength
<1> HIDE DEF function, transmit_, control
<1>5. /\ Len(transmit_) + 1 <= TransmitParamsSize(bytes)
      /\ Len(PowerParams(word, word)) + 1 <= PowerParamsSize
      /\ Len(control) + 1 <= ControlParamsSize(bytes)
  BY <1>2, <1>4 DEF TransmitParamsSize, PowerParamsSize, ControlParamsSize
<1>6. ASSUME NEW params, IsSequence(params)
      PROVE  /\ Len(RequestMessage(function, params)) + 1
                   <= MsgBufferSize(function, params)
             /\ TerminatedAt(params) < MsgBufferSize(function, params)
  BY <1>1, <1>6, MessageFits
<1> QED
  BY <1>2, <1>3, <1>5, <1>6 DEF RequestFits, function, transmit_, control

(* What is left of two strings put together when the first is skipped.     *)
LEMMA SkipFirst ==
  ASSUME NEW s, NEW t, IsSequence(s), IsSequence(t)
  PROVE  SubSeq(s \o t, Len(s) + 1, Len(s \o t)) = t
<1>1. PICK S : s \in Seq(S)
  BY DEF IsSequence
<1>2. PICK T : t \in Seq(T)
  BY DEF IsSequence
<1> DEFINE U == S \cup T
<1>3. s \in Seq(U) /\ t \in Seq(U)
  BY <1>1, <1>2, SeqMonotonic
<1>4. s \o t \in Seq(U) /\ Len(s \o t) = Len(s) + Len(t)
  BY <1>3, ConcatProperties
<1>5. Len(s) \in Nat /\ Len(t) \in Nat
  BY <1>3, LenProperties
<1> HIDE DEF U
<1> QED
  BY <1>3, <1>4, <1>5

(* PSIMTransmitICC and PSIMPowerICC: an answer APDU, or an ATR, of any     *)
(* length is read from the reply as the simulator meant it, whatever its   *)
(* code; a reply without a payload gives none (persoSimConnect.cpp         *)
(* 281-290, 334-341).                                                      *)
THEOREM PayloadIsUnderstood ==
  ASSUME NEW code, NEW payload \in Seq(Byte)
  PROVE  Payload(Reply(code, payload)) = payload
<1> DEFINE c == HexInt2String(code)
           d == <<Divider>>
           t == HexByteArray2String(payload)
<1>1. /\ IsSequence(c) /\ Len(c) = Digits
      /\ IsSequence(d) /\ Len(d) = 1 /\ Digits \in Nat
      /\ IsSequence(t) /\ Len(t) = 2 * Len(payload)
      /\ Len(payload) \in Nat
  BY IntLength, FieldLength, ArrayText, LenProperties DEF IsSequence
<1>2. HexString2CharArray(t) = payload
  BY ArrayReadBack
<1>3. CASE payload = <<>>
  <2>1. Reply(code, payload) = c \o <<>>
    BY <1>3 DEF Reply
  <2>2. c \o <<>> = c
    BY <1>1, ConcatEmptySeq DEF IsSequence
  <2> HIDE DEF c
  <2>3. ~(Len(c) > Digits + 1)
    BY <1>1
  <2> QED
    BY <1>3, <2>1, <2>2, <2>3 DEF Payload
<1>4. CASE payload # <<>>
  <2>1. Reply(code, payload) = c \o (d \o t)
    BY <1>4 DEF Reply
  <2> HIDE DEF c, d, t
  <2>2. c \o (d \o t) = (c \o d) \o t
    <3>1. PICK C : c \in Seq(C)
      BY <1>1 DEF IsSequence
    <3>2. PICK D : d \in Seq(D)
      BY <1>1 DEF IsSequence
    <3>3. PICK T : t \in Seq(T)
      BY <1>1 DEF IsSequence
    <3>4. /\ c \in Seq(C \cup D \cup T)
          /\ d \in Seq(C \cup D \cup T)
          /\ t \in Seq(C \cup D \cup T)
      BY <3>1, <3>2, <3>3, SeqMonotonic
    <3> QED
      BY <3>4, ConcatAssociative
  <2>3. IsSequence(c \o d) /\ Len(c \o d) = Len(c) + Len(d)
    BY <1>1, ConcatLength
  <2>4. Len((c \o d) \o t) = Len(c \o d) + Len(t)
    BY <1>1, <2>3, ConcatLength
  <2>5. Len(payload) > 0
    BY <1>4
  <2>6. Len((c \o d) \o t) > Digits + 1 /\ Len(c \o d) + 1 = Digits + 2
    BY <1>1, <2>3, <2>4, <2>5
  <2>7. SubSeq((c \o d) \o t, Digits + 2, Len((c \o d) \o t)) = t
    BY <1>1, <2>3, <2>6, SkipFirst
  <2> QED
    BY <1>2, <2>1, <2>2, <2>6, <2>7 DEF Payload
<1> QED
  BY <1>3, <1>4

(* What comes first of two strings put together.                           *)
LEMMA TakeFirst ==
  ASSUME NEW s, NEW t, IsSequence(s), IsSequence(t)
  PROVE  SubSeq(s \o t, 1, Len(s)) = s
<1>1. PICK S : s \in Seq(S)
  BY DEF IsSequence
<1>2. PICK T : t \in Seq(T)
  BY DEF IsSequence
<1> DEFINE U == S \cup T
<1>3. s \in Seq(U) /\ t \in Seq(U)
  BY <1>1, <1>2, SeqMonotonic
<1>4. s \o t \in Seq(U) /\ Len(s \o t) = Len(s) + Len(t)
  BY <1>3, ConcatProperties
<1>5. Len(s) \in Nat /\ Len(t) \in Nat
  BY <1>3, LenProperties
<1> HIDE DEF U
<1> QED
  BY <1>3, <1>4, <1>5

(* extractPcscResponseCode: the code is read from its own digits, whether  *)
(* or not a payload follows (persoSimConnect.cpp:252-258).                 *)
THEOREM CodeIsExtracted ==
  ASSUME NEW code, NEW payload \in Seq(Byte)
  PROVE  extractPcscResponseCode(Reply(code, payload)) =
           HexString2Int(HexInt2String(code))
<1> DEFINE c == HexInt2String(code)
           t == HexByteArray2String(payload)
           rest == IF payload = <<>> THEN <<>> ELSE <<Divider>> \o t
<1>1. IsSequence(c) /\ Len(c) = Digits /\ Digits \in Nat
  BY IntLength, FieldLength
<1>2. IsSequence(rest)
  <2>1. IsSequence(t)
    BY ArrayText DEF IsSequence
  <2>2. <<>> \in Seq({0})
    OBVIOUS
  <2> QED
    BY <2>1, <2>2, FieldLength, ConcatLength DEF IsSequence
<1>3. Reply(code, payload) = c \o rest
  BY DEF Reply
<1> HIDE DEF c, rest
<1>4. Len(c \o rest) = Digits + Len(rest) /\ Len(rest) \in Nat
  BY <1>1, <1>2, ConcatLength
<1>5. (IF Len(c \o rest) < Digits THEN Len(c \o rest) ELSE Digits) = Len(c)
  BY <1>1, <1>4
<1>6. SubSeq(c \o rest, 1, Len(c)) = c
  BY <1>1, <1>2, TakeFirst
<1> QED
  BY <1>3, <1>5, <1>6 DEF extractPcscResponseCode, c

-----------------------------------------------------------------------------
(* The runs' inputs are byte arrays, strings and ints, so that what holds  *)
(* of these holds of every state, for any samples and any bounds.          *)

Inputs == bytes \in Seq(Byte) /\ text \in Seq(Char) /\ word \in Words

LEMMA InputsHold == Spec => []Inputs
<1>1. Init => Inputs
  <2>1. 0 \in Words
    BY WeightSteps, WordBytesAssumption DEF Words
  <2> QED
    BY <2>1 DEF Init, Inputs
<1>2. Inputs /\ [Next]_vars => Inputs'
  <2> SUFFICES ASSUME Inputs, [Next]_vars PROVE Inputs'
    OBVIOUS
  <2>1. CASE LongerArray
    BY <2>1, SamplesAssumption DEF Inputs, LongerArray
  <2>2. CASE LongerString
    BY <2>2, SamplesAssumption DEF Inputs, LongerString
  <2>3. CASE NextWord \/ UNCHANGED vars
    BY <2>3 DEF Inputs, NextWord, vars
  <2> QED
    BY <2>1, <2>2, <2>3 DEF Next
<1> QED
  BY <1>1, <1>2, PTL DEF Spec

(* What HexByteArray2String writes, HexString2CharArray reads back         *)
(* (hexString.cpp:68-109).                                                 *)
THEOREM ArrayRoundTripHolds == Spec => []ArrayRoundTrip
<1>1. Inputs => ArrayRoundTrip
  BY ArrayReadBack DEF Inputs, ArrayRoundTrip
<1> QED
  BY <1>1, InputsHold, PTL

(* A string of odd length means the same as with a '0' in front            *)
(* (hexString.cpp:85-94).                                                  *)
THEOREM OddLengthIsPaddedHolds == Spec => []OddLengthIsPadded
<1>1. Inputs => OddLengthIsPadded
  BY OddLengthPadded DEF Inputs, OddLengthIsPadded
<1> QED
  BY <1>1, InputsHold, PTL

(* An int that is written is read back (hexString.cpp:56-66, 111-125).     *)
THEOREM IntRoundTripHolds == Spec => []IntRoundTrip
<1>1. Inputs => IntRoundTrip
  BY IntReadBack DEF Inputs, IntRoundTrip
<1> QED
  BY <1>1, InputsHold, PTL

(* The two ways to read a string agree (hexString.cpp:79-125).             *)
THEOREM IntAgreesWithArrayHolds == Spec => []IntAgreesWithArray
<1>1. Inputs => IntAgreesWithArray
  BY ReadingsAgree DEF Inputs, IntAgreesWithArray
<1> QED
  BY <1>1, InputsHold, PTL

(* A reply is taken apart into the code and the payload it was made of     *)
(* (persoSimConnect.cpp:252-258, 281-290, 334-341).                        *)
THEOREM ReplyIsUnderstoodHolds == Spec => []ReplyIsUnderstood
<1>1. ASSUME Inputs PROVE ReplyIsUnderstood
  <2>1. ASSUME NEW code \in SampleCodes
        PROVE  /\ extractPcscResponseCode(Reply(code, bytes)) = code
               /\ Payload(Reply(code, bytes)) = bytes
    <3>1. code \in Words
      BY SamplesAssumption
    <3> QED
      BY <1>1, <3>1, IntReadBack, CodeIsExtracted, PayloadIsUnderstood DEF Inputs
  <2> QED
    BY <2>1 DEF ReplyIsUnderstood
<1> QED
  BY <1>1, InputsHold, PTL

(* The buffers of a request hold it and its '\0'                           *)
(* (persoSimConnect.cpp:202-216, 263-267, 318-321, device.cpp:303-310).    *)
THEOREM RequestFitsHolds == Spec => []RequestFits
<1>1. Inputs => RequestFits
  BY BuffersAreEnough DEF Inputs
<1> QED
  BY <1>1, InputsHold, PTL

=============================================================================
