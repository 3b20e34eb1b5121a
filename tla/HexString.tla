------------------------------ MODULE HexString ------------------------------
(***************************************************************************)
(* The conversions of Driver/hexString.cpp.  A character is its ASCII      *)
(* code, a string the sequence of its characters without the closing '\0', *)
(* a byte a number below 256, an unsigned int a number that WordBytes      *)
(* bytes can hold.                                                         *)
(***************************************************************************)
EXTENDS Integers, Sequences

CONSTANT WordBytes  \* sizeof(int), 4 in the code

ASSUME WordBytesAssumption == WordBytes \in Nat \ {0}

Byte == 0 .. 255
Nibble == 0 .. 15
Char == 0 .. 127

(* What a byte of an int counts with i less significant ones below it;     *)
(* Weight[WordBytes] is how many ints there are.                           *)
Weight[i \in 0 .. WordBytes] == IF i = 0 THEN 1 ELSE 256 * Weight[i - 1]

Zero == 48    \* '0'
UpperA == 65  \* 'A'
LowerA == 97  \* 'a'

(* Anything but a hexadecimal digit counts as 0.                           *)
HexChar2Int(input) ==
  CASE input \in Zero .. Zero + 9 -> input - Zero
    [] input \in UpperA .. UpperA + 5 -> input - UpperA + 10
    [] input \in LowerA .. LowerA + 5 -> input - LowerA + 10
    [] OTHER -> 0

HexNibble2Char(nibble) ==
  IF nibble < 10 THEN nibble + Zero ELSE nibble - 10 + UpperA

(* Mutant: the low nibble comes first.                                     *)
HexByte2CharsSwapped(byte) ==
  <<HexNibble2Char(byte % 16), HexNibble2Char(byte \div 16)>>

HexByte2Chars(byte) ==
  <<HexNibble2Char(byte \div 16), HexNibble2Char(byte % 16)>>

HexByteArray2String(bytes) ==
  [i \in 1 .. 2 * Len(bytes) |->
     HexByte2Chars(bytes[(i + 1) \div 2])[IF i % 2 = 1 THEN 1 ELSE 2]]

(* Mutant: the bytes as they lie in memory.                                *)
LittleEndian(input) ==
  [i \in 1 .. WordBytes |-> (input \div Weight[i - 1]) % 256]

(* The bytes of a word, the most significant first.                        *)
WordBytesOf(input) ==
  [i \in 1 .. WordBytes |-> (input \div Weight[WordBytes - i]) % 256]

HexInt2String(input) == HexByteArray2String(WordBytesOf(input))

(* Mutant: a string of odd length is padded at its end.                    *)
PadsAtTheEnd(hexString) ==
  LET digit(i) == IF i > Len(hexString) THEN 0 ELSE HexChar2Int(hexString[i])
  IN [i \in 1 .. (Len(hexString) + 1) \div 2 |->
        digit(2 * i - 1) * 16 + digit(2 * i)]

(* The first digit of a string of odd length is a byte of its own.         *)
HexString2CharArray(hexString) ==
  LET odd == Len(hexString) % 2
      digit(i) == HexChar2Int(hexString[i])
  IN [i \in 1 .. (Len(hexString) + odd) \div 2 |->
        IF odd = 1 /\ i = 1
        THEN digit(1)
        ELSE digit(2 * i - 1 - odd) * 16 + digit(2 * i - odd)]

(* Mutant: only the first digits, as many as an int has, are read.         *)
FirstDigitsOnly(hexString) ==
  LET retVal[i \in 0 .. Len(hexString)] ==
        IF i = 0 THEN 0
        ELSE IF i > 2 * WordBytes THEN retVal[i - 1]
        ELSE (retVal[i - 1] * 16 + HexChar2Int(hexString[i])) % Weight[WordBytes]
  IN retVal[Len(hexString)]

(* The bits of the int; those shifted out are lost.                        *)
HexString2Int(hexString) ==
  LET retVal[i \in 0 .. Len(hexString)] ==
        IF i = 0 THEN 0
        ELSE (retVal[i - 1] * 16 + HexChar2Int(hexString[i])) % Weight[WordBytes]
  IN retVal[Len(hexString)]
=============================================================================
