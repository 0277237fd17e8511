---------------------------- MODULE FormatProofs ----------------------------
(* The table of date.c and its leap years are the Gregorian calendar's, and *)
(* utf8_seq_len answers as RFC 3629 says, for every text and every window;  *)
(* the date, time, date-time, ipv4, ipv6, hostname and pointer formats      *)
(* accept what their RFCs say, for every text.                              *)
EXTENDS FormatPromises, FiniteSetTheorems, WellFoundedInduction, TLAPS

(***************************************************************************)
(* The days of a month (date.c).                                           *)
(***************************************************************************)

(***************************************************************************)
(* How much a quotient grows from one number to the next.                  *)
(***************************************************************************)
LEMMA Quotients ==
  ASSUME NEW y \in Nat
  PROVE  /\ (y \div 4) - ((y - 1) \div 4) = IF y % 4 = 0 THEN 1 ELSE 0
         /\ (y \div 100) - ((y - 1) \div 100) = IF y % 100 = 0 THEN 1 ELSE 0
         /\ (y \div 400) - ((y - 1) \div 400) = IF y % 400 = 0 THEN 1 ELSE 0
  OBVIOUS

(***************************************************************************)
(* Whether three remainders are zero, one divisor being a multiple of the  *)
(* next.                                                                   *)
(***************************************************************************)
LEMMA Multiples ==
  ASSUME NEW y \in Nat
  PROVE  (y % 400 = 0 => y % 100 = 0) /\ (y % 100 = 0 => y % 4 = 0)
  OBVIOUS

(***************************************************************************)
(* A day of a month date.c accepts exists, and no day that exists is       *)
(* refused: days_in_month (date.c) is the distance between the first days  *)
(* of two months, in every year.                                           *)
(***************************************************************************)
THEOREM CalendarExact ==
  ASSUME NEW year \in Nat, NEW month \in 1..12
  PROVE  days_in_month(year, month) = MonthLength(year, month)
<1>1. CASE month = 2
  <2>1. MonthLength(year, 2) =
          28 + ((year \div 4) - ((year - 1) \div 4))
             - ((year \div 100) - ((year - 1) \div 100))
             + ((year \div 400) - ((year - 1) \div 400))
    BY DEF MonthLength, DayNumber
  <2>2. MonthLength(year, 2) = 28 + (IF year % 4 = 0 THEN 1 ELSE 0)
                                  - (IF year % 100 = 0 THEN 1 ELSE 0)
                                  + (IF year % 400 = 0 THEN 1 ELSE 0)
    BY <2>1, Quotients
  <2>3. MonthLength(year, 2) = IF is_leap_year(year) THEN 29 ELSE 28
    BY <2>2, Multiples DEF is_leap_year
  <2> QED
    BY <1>1, <2>3 DEF days_in_month, days
<1>2. CASE month \in {1} \cup (3..12)
  BY <1>2 DEF days_in_month, days, MonthLength, DayNumber
<1> QED
  BY <1>1, <1>2
-----------------------------------------------------------------------------
(***************************************************************************)
(* The length of a UTF-8 sequence (utf8.c).                                *)
(***************************************************************************)

(***************************************************************************)
(* A position inside the text holds a byte.                                *)
(***************************************************************************)
LEMMA BytesAt ==
  ASSUME NEW s \in Seq(Byte), NEW i \in Nat, i < Len(s)
  PROVE  At(s, i) \in 0..255
<1>1. Len(s) \in Nat /\ DOMAIN s = 1..Len(s) /\ s \in [1..Len(s) -> Byte]
  OBVIOUS
<1>2. i + 1 \in 1..Len(s)
  BY <1>1
<1>3. s[i + 1] \in Byte
  BY <1>1, <1>2
<1> QED
  BY <1>3 DEF At, Byte

(***************************************************************************)
(* What the lead byte announces, and the second bytes it allows.           *)
(***************************************************************************)
LEMMA AnnouncedIs ==
  ASSUME NEW a \in 0..255
  PROVE  /\ Announced(a) \in 0..4
         /\ (Announced(a) = 1) <=> a \in 0..127
         /\ (Announced(a) = 2) <=> a \in 194..223
         /\ (Announced(a) = 3) <=> a \in 224..239
         /\ (Announced(a) = 4) <=> a \in 240..244
BY DEF Announced

LEMMA SecondIsContinuation ==
  ASSUME NEW a \in 0..255
  PROVE  /\ SecondByte(a) \subseteq 128..191
         /\ a \in 194..223 => SecondByte(a) = 128..191
BY DEF SecondByte, Continuation

(***************************************************************************)
(* The scalar values that need exactly one, two, three and four bytes,     *)
(* seen from the bytes.                                                    *)
(***************************************************************************)
LEMMA OneByte ==
  ASSUME NEW a \in 0..127
  PROVE  Scalar(a, 1)
BY SMTT(30) DEF Scalar, Smallest

LEMMA TwoBytes ==
  ASSUME NEW a \in 192..223, NEW b \in 128..191
  PROVE  Scalar(Bits2(a, b), 2) <=> 194 <= a
BY DEF Bits2, Scalar, Smallest

LEMMA ThreeBytes ==
  ASSUME NEW a \in 224..239, NEW b \in 128..191, NEW c \in 128..191
  PROVE  Scalar(Bits3(a, b, c), 3) <=> b \in SecondByte(a)
BY SMTT(60) DEF Bits3, Scalar, Smallest, SecondByte, Continuation

LEMMA FourBytes ==
  ASSUME NEW a \in 240..247, NEW b \in 128..191, NEW c \in 128..191,
         NEW d \in 128..191
  PROVE  Scalar(Bits4(a, b, c, d), 4) <=> (a \in 240..244 /\ b \in SecondByte(a))
BY SMTT(60) DEF Bits4, Scalar, Smallest, SecondByte, Continuation

(***************************************************************************)
(* The same two facts for a text: what Encodes says of n bytes is what the *)
(* tests of utf8_seq_len say of them.                                      *)
(***************************************************************************)
LEMMA EncodesOne ==
  ASSUME NEW s, NEW pos \in Nat, NEW e \in Nat
  PROVE  Encodes(s, pos, e, 1) <=> (pos + 1 <= e /\ At(s, pos) \in 0..127)
<1>1. Encodes(s, pos, e, 1) <=>
        /\ pos + 1 <= e
        /\ At(s, pos) \in 0..127
        /\ Scalar(At(s, pos), 1)
  BY DEF Encodes, LeadBytes, CodePoint
<1> QED
  BY <1>1, OneByte

LEMMA EncodesTwo ==
  ASSUME NEW s, NEW pos \in Nat, NEW e \in Nat
  PROVE  Encodes(s, pos, e, 2) <=>
           /\ pos + 2 <= e
           /\ At(s, pos) \in 194..223
           /\ At(s, pos + 1) \in 128..191
<1> DEFINE a == At(s, pos)
           b == At(s, pos + 1)
<1>1. Encodes(s, pos, e, 2) <=>
        /\ pos + 2 <= e
        /\ a \in 192..223
        /\ b \in 128..191
        /\ Scalar(Bits2(a, b), 2)
  BY DEF Encodes, LeadBytes, Continuation, CodePoint
<1>2. a \in 194..223 <=> a \in 192..223 /\ 194 <= a
  OBVIOUS
<1> HIDE DEF a, b
<1>3. Encodes(s, pos, e, 2) <=>
        /\ pos + 2 <= e
        /\ a \in 194..223
        /\ b \in 128..191
  <2>1. ASSUME a \in 192..223, b \in 128..191
        PROVE  Scalar(Bits2(a, b), 2) <=> 194 <= a
    BY <2>1, TwoBytes
  <2> QED
    BY <1>1, <1>2, <2>1
<1> QED
  BY <1>3 DEF a, b

LEMMA EncodesThree ==
  ASSUME NEW s, NEW pos \in Nat, NEW e \in Nat
  PROVE  Encodes(s, pos, e, 3) <=>
           /\ pos + 3 <= e
           /\ At(s, pos) \in 224..239
           /\ At(s, pos + 1) \in SecondByte(At(s, pos))
           /\ At(s, pos + 2) \in 128..191
<1> DEFINE a == At(s, pos)
           b == At(s, pos + 1)
           c == At(s, pos + 2)
<1>1. Encodes(s, pos, e, 3) <=>
        /\ pos + 3 <= e
        /\ a \in 224..239
        /\ b \in 128..191
        /\ c \in 128..191
        /\ Scalar(Bits3(a, b, c), 3)
  BY DEF Encodes, LeadBytes, Continuation, CodePoint
<1>2. a \in 224..239 /\ b \in SecondByte(a) => a \in 224..239 /\ b \in 128..191
  BY SecondIsContinuation, SMTT(30)
<1> HIDE DEF a, b, c
<1>3. Encodes(s, pos, e, 3) <=>
        /\ pos + 3 <= e
        /\ a \in 224..239
        /\ b \in SecondByte(a)
        /\ c \in 128..191
  BY <1>1, <1>2, ThreeBytes, ZenonT(40)
<1> QED
  BY <1>3 DEF a, b, c

LEMMA EncodesFour ==
  ASSUME NEW s, NEW pos \in Nat, NEW e \in Nat
  PROVE  Encodes(s, pos, e, 4) <=>
           /\ pos + 4 <= e
           /\ At(s, pos) \in 240..244
           /\ At(s, pos + 1) \in SecondByte(At(s, pos))
           /\ At(s, pos + 2) \in 128..191
           /\ At(s, pos + 3) \in 128..191
<1> DEFINE a == At(s, pos)
           b == At(s, pos + 1)
           c == At(s, pos + 2)
           d == At(s, pos + 3)
<1>1. Encodes(s, pos, e, 4) <=>
        /\ pos + 4 <= e
        /\ a \in 240..247
        /\ b \in 128..191
        /\ c \in 128..191
        /\ d \in 128..191
        /\ Scalar(Bits4(a, b, c, d), 4)
  BY DEF Encodes, LeadBytes, Continuation, CodePoint
<1>2. a \in 240..244 /\ b \in SecondByte(a) => a \in 240..247 /\ b \in 128..191
  BY SecondIsContinuation, SMTT(30)
<1> HIDE DEF a, b, c, d
<1>3. Encodes(s, pos, e, 4) <=>
        /\ pos + 4 <= e
        /\ a \in 240..244
        /\ b \in SecondByte(a)
        /\ c \in 128..191
        /\ d \in 128..191
  <2>1. ASSUME a \in 240..247, b \in 128..191, c \in 128..191, d \in 128..191
        PROVE  Scalar(Bits4(a, b, c, d), 4)
                 <=> (a \in 240..244 /\ b \in SecondByte(a))
    BY <2>1, FourBytes
  <2> QED
    BY <1>1, <1>2, <2>1
<1> QED
  BY <1>3 DEF a, b, c, d

(***************************************************************************)
(* A window that begins with a byte.                                       *)
(***************************************************************************)
LEMMA ExactOnBytes ==
  ASSUME NEW s, NEW pos \in Nat, NEW e \in Nat, pos < e, At(s, pos) \in 0..255
  PROVE  ExactAt(s, pos, e)
<1> DEFINE a     == At(s, pos)
           n     == Announced(a)
           Fits  == /\ pos + n <= e
                    /\ n >= 2 => At(s, pos + 1) \in SecondByte(a)
                    /\ n >= 3 => At(s, pos + 2) \in Continuation
                    /\ n >= 4 => At(s, pos + 3) \in Continuation
           len   == utf8_seq_len(s, pos, e)
<1>1. len = IF Fits THEN n ELSE 0
  BY DEF utf8_seq_len
<1>2. a \in 0..255
  OBVIOUS
<1> HIDE DEF a
<1>3. /\ n \in 0..4
      /\ (n = 1) <=> a \in 0..127
      /\ (n = 2) <=> a \in 194..223
      /\ (n = 3) <=> a \in 224..239
      /\ (n = 4) <=> a \in 240..244
  BY <1>2, AnnouncedIs
<1>4. (n = 2) => SecondByte(a) = 128..191
  BY <1>2, <1>3, SecondIsContinuation
<1> HIDE DEF n
<1>5. (n = 1 /\ Fits) <=> Encodes(s, pos, e, 1)
  BY <1>3, EncodesOne DEF a
<1>6. (n = 2 /\ Fits) <=> Encodes(s, pos, e, 2)
  <2>1. n = 2 => (Fits <=> pos + 2 <= e /\ At(s, pos + 1) \in 128..191)
    BY <1>4
  <2> HIDE DEF Fits
  <2> QED
    BY <1>3, <2>1, EncodesTwo DEF a
<1>7. (n = 3 /\ Fits) <=> Encodes(s, pos, e, 3)
  <2>1. n = 3 => (Fits <=> /\ pos + 3 <= e
                           /\ At(s, pos + 1) \in SecondByte(a)
                           /\ At(s, pos + 2) \in 128..191)
    BY DEF Continuation
  <2> HIDE DEF Fits
  <2> QED
    BY <1>3, <2>1, EncodesThree DEF a
<1>8. (n = 4 /\ Fits) <=> Encodes(s, pos, e, 4)
  <2>1. n = 4 => (Fits <=> /\ pos + 4 <= e
                           /\ At(s, pos + 1) \in SecondByte(a)
                           /\ At(s, pos + 2) \in 128..191
                           /\ At(s, pos + 3) \in 128..191)
    BY DEF Continuation
  <2> HIDE DEF Fits
  <2> QED
    BY <1>3, <2>1, EncodesFour DEF a
<1> HIDE DEF Fits, len
<1>9. \A k \in 1..4 : k = 1 \/ k = 2 \/ k = 3 \/ k = 4
  OBVIOUS
<1>10. \A k \in 1..4 : (n = k /\ Fits) <=> Encodes(s, pos, e, k)
  BY <1>5, <1>6, <1>7, <1>8, <1>9
<1>11. len \in 0..4 /\ \A k \in 1..4 : (len = k) <=> (n = k /\ Fits)
  BY <1>1, <1>3
<1>12. len \in 0..4 /\ \A k \in 1..4 : (len = k) <=> Encodes(s, pos, e, k)
  BY <1>10, <1>11
<1> QED
  BY <1>12 DEF ExactAt, len

(***************************************************************************)
(* utf8_seq_len (formats/utils/utf8.c) returns n > 0 exactly when the      *)
(* window begins with the n bytes RFC 3629 gives to a Unicode scalar       *)
(* value: no overlong form, no surrogate, nothing above U+10FFFF, nothing  *)
(* that runs past the end of the window.                                   *)
(***************************************************************************)
THEOREM Utf8Exact ==
  ASSUME NEW s \in Seq(Byte), NEW e \in 0..Len(s), NEW pos \in 0..e
  PROVE  ExactAt(s, pos, e)
<1>1. Len(s) \in Nat /\ e \in Nat /\ pos \in Nat
  OBVIOUS
<1>2. CASE pos = e
  <2>1. utf8_seq_len(s, pos, e) = 0
    BY <1>1, <1>2 DEF utf8_seq_len
  <2>2. \A k \in 1..4 : ~Encodes(s, pos, e, k)
    BY <1>1, <1>2 DEF Encodes
  <2> QED
    BY <2>1, <2>2 DEF ExactAt
<1>3. CASE pos < e
  <2>1. pos < Len(s)
    BY <1>1, <1>3
  <2>2. At(s, pos) \in 0..255
    BY <1>1, <2>1, BytesAt
  <2> QED
    BY <1>1, <1>3, <2>2, ExactOnBytes
<1> QED
  BY <1>1, <1>2, <1>3

(***************************************************************************)
(* Whatever the caller's string, it is a string of bytes.                  *)
(***************************************************************************)
LEMMA TextsOK == TextsSpec => []TextOK
<1>1. TextsInit => TextOK
  <2> SUFFICES ASSUME TextsInit
               PROVE  TextOK
    OBVIOUS
  <2>1. kind \in DOMAIN Slots /\ text = <<>> /\ words = 0
    BY DEF TextsInit
  <2>2. Len(Slots[kind]) \in Nat
    BY <2>1, SlotsAssumption
  <2> QED
    BY <2>1, <2>2 DEF TextOK
<1>2. TextOK /\ [NextWord]_textVars => TextOK'
  <2> SUFFICES ASSUME TextOK, [NextWord]_textVars
               PROVE  TextOK'
    OBVIOUS
  <2>1. CASE NextWord
    <3> DEFINE slots == Slots[kind]
    <3>1. slots \in Seq(SUBSET Seq(Byte))
      BY SlotsAssumption DEF TextOK
    <3>2. words \in 0..Len(slots) /\ words < Len(slots)
      BY <2>1 DEF NextWord, TextOK
    <3>3. PICK w \in slots[words + 1] : text' = text \o w
      BY <2>1 DEF NextWord
    <3> HIDE DEF slots
    <3>4. slots[words + 1] \in SUBSET Seq(Byte) /\ words + 1 \in 0..Len(slots)
      BY <3>1, <3>2
    <3>5. text' \in Seq(Byte)
      BY <3>3, <3>4 DEF TextOK
    <3>6. words' \in 0..Len(slots) /\ kind' = kind /\ kind \in DOMAIN Slots
      BY <2>1, <3>4 DEF NextWord, TextOK
    <3> QED
      BY <3>5, <3>6 DEF TextOK, slots
  <2>2. CASE UNCHANGED textVars
    BY <2>2 DEF textVars, TextOK
  <2> QED
    BY <2>1, <2>2
<1> QED
  BY <1>1, <1>2, PTL DEF TextsSpec

(***************************************************************************)
(* What the run checks on the bytes around every limit holds of every      *)
(* text: utf8_seq_len (utf8.c) takes exactly the sequences of RFC 3629.    *)
(***************************************************************************)
THEOREM Utf8AlwaysDecoded == TextsSpec => []Utf8Decoded
<1>1. TextOK => Utf8Decoded
  BY Utf8Exact DEF TextOK, Utf8Decoded
<1> QED
  BY <1>1, TextsOK, PTL

(***************************************************************************)
(* The dates (date.c).                                                     *)
(***************************************************************************)

(***************************************************************************)
(* Two digits say ten times the first and the second.                      *)
(***************************************************************************)
LEMMA NumberTwo ==
  ASSUME NEW s, Len(s) = 2, s[1] \in Digit, s[2] \in Digit
  PROVE  Number(s) = (s[1] - Zero) * 10 + (s[2] - Zero)
<1> DEFINE a == s[1] - Zero
           w == [i \in 0..2 |-> IF i = 0 THEN 0 ELSE IF i = 1 THEN a ELSE a * 10 + (s[2] - Zero)]
           value == CHOOSE v : v = [i \in 0..2 |-> IF i = 0 THEN 0 ELSE v[i - 1] * 10 + (s[i] - Zero)]
<1>1. s[1] \in Int /\ s[2] \in Int /\ Zero = 48
  BY DEF Digit, Zero, Nine
<1>2. w = [i \in 0..2 |-> IF i = 0 THEN 0 ELSE w[i - 1] * 10 + (s[i] - Zero)]
  BY <1>1
<1>3. value = [i \in 0..2 |-> IF i = 0 THEN 0 ELSE value[i - 1] * 10 + (s[i] - Zero)]
  BY <1>2
<1> HIDE DEF value
<1>4. value[0] = 0 /\ value[1] = value[0] * 10 + (s[1] - Zero)
        /\ value[2] = value[1] * 10 + (s[2] - Zero)
  BY <1>3
<1>5. Number(s) = value[2]
  BY DEF Number, value
<1> QED BY <1>1, <1>4, <1>5

(***************************************************************************)
(* The two steps of the recursion that reads two digits.                   *)
(***************************************************************************)
LEMMA DigitsTwo ==
  ASSUME NEW R, NEW I
  PROVE  Digits(2, R, I) = {j \in Char(Digit, Char(Digit, I)) : Number(Window(text, j - 2, j)) \in R}
<1> DEFINE w == [k \in 0..2 |-> IF k = 0 THEN I ELSE IF k = 1 THEN Char(Digit, I) ELSE Char(Digit, Char(Digit, I))]
           after == CHOOSE a : a = [k \in 0..2 |-> IF k = 0 THEN I ELSE Char(Digit, a[k - 1])]
<1>1. w = [k \in 0..2 |-> IF k = 0 THEN I ELSE Char(Digit, w[k - 1])]
  OBVIOUS
<1>2. after = [k \in 0..2 |-> IF k = 0 THEN I ELSE Char(Digit, after[k - 1])]
  BY <1>1
<1> HIDE DEF after
<1>3. after[2] = Char(Digit, Char(Digit, I))
  BY <1>2
<1>4. Digits(2, R, I) = {j \in after[2] : Number(Window(text, j - 2, j)) \in R}
  BY DEF Digits, Times, after
<1> QED BY <1>3, <1>4

(***************************************************************************)
(* Four digits say a year.                                                 *)
(***************************************************************************)
LEMMA NumberFour ==
  ASSUME NEW s, Len(s) = 4, \A i \in 1..4 : s[i] \in Digit
  PROVE  Number(s) \in Years
<1> DEFINE next(n, i) == n * 10 + (s[i] - Zero)
           a == next(0, 1)
           b == next(a, 2)
           c == next(b, 3)
           w == [i \in 0..4 |-> IF i = 0 THEN 0 ELSE IF i = 1 THEN a ELSE IF i = 2 THEN b
                                ELSE IF i = 3 THEN c ELSE next(c, 4)]
           value == CHOOSE v : v = [i \in 0..4 |-> IF i = 0 THEN 0 ELSE v[i - 1] * 10 + (s[i] - Zero)]
<1>1. w = [i \in 0..4 |-> IF i = 0 THEN 0 ELSE w[i - 1] * 10 + (s[i] - Zero)]
  OBVIOUS
<1>2. value = [i \in 0..4 |-> IF i = 0 THEN 0 ELSE value[i - 1] * 10 + (s[i] - Zero)]
  BY <1>1
<1> HIDE DEF value
<1>3. /\ value[0] = 0 /\ value[1] = value[0] * 10 + (s[1] - Zero)
      /\ value[2] = value[1] * 10 + (s[2] - Zero)
      /\ value[3] = value[2] * 10 + (s[3] - Zero)
      /\ value[4] = value[3] * 10 + (s[4] - Zero)
  BY <1>2
<1>4. \A i \in 1..4 : s[i] - Zero \in 0..9
  BY DEF Digit, Zero, Nine
<1>5. value[1] \in 0..9
  BY <1>3, <1>4
<1>6. value[2] \in 0..99
  BY <1>3, <1>4, <1>5
<1>7. value[3] \in 0..999
  BY <1>3, <1>4, <1>6
<1>8. value[4] \in Years
  <2>1. value[4] = value[3] * 10 + (s[4] - Zero) /\ s[4] - Zero \in 0..9
    BY <1>3, <1>4
  <2>2. PICK m \in 0..999 : m = value[3]
    BY <1>7
  <2>3. PICK d \in 0..9 : d = s[4] - Zero
    BY <2>1
  <2>4. m * 10 + d \in Years
    <3>1. PICK x \in Int : x = m * 10 + d /\ 0 <= x /\ x <= 9999
      OBVIOUS
    <3> QED BY <3>1 DEF Years
  <2>5. value[4] = m * 10 + d
    BY <2>1, <2>2, <2>3
  <2> QED BY <2>4, <2>5
<1>9. Number(s) = value[4]
  BY DEF Number, value
<1> HIDE DEF next
<1> QED BY <1>8, <1>9

(***************************************************************************)
(* The four steps of the recursion that reads four digits.                 *)
(***************************************************************************)
LEMMA DigitsFour ==
  ASSUME NEW R, NEW I
  PROVE  Digits(4, R, I) = {j \in Char(Digit, Char(Digit, Char(Digit, Char(Digit, I)))) :
                              Number(Window(text, j - 4, j)) \in R}
<1> DEFINE A(J) == Char(Digit, J)
           w == [k \in 0..4 |-> IF k = 0 THEN I ELSE IF k = 1 THEN A(I) ELSE IF k = 2 THEN A(A(I))
                                ELSE IF k = 3 THEN A(A(A(I))) ELSE A(A(A(A(I))))]
           after == CHOOSE a : a = [k \in 0..4 |-> IF k = 0 THEN I ELSE Char(Digit, a[k - 1])]
<1>1. w = [k \in 0..4 |-> IF k = 0 THEN I ELSE Char(Digit, w[k - 1])]
  OBVIOUS
<1>2. after = [k \in 0..4 |-> IF k = 0 THEN I ELSE Char(Digit, after[k - 1])]
  BY <1>1
<1> HIDE DEF after
<1>3. after[4] = A(A(A(A(I))))
  BY <1>2
<1>4. Digits(4, R, I) = {j \in after[4] : Number(Window(text, j - 4, j)) \in R}
  BY DEF Digits, Times, after
<1> QED BY <1>3, <1>4

(***************************************************************************)
(* The ends of a character of C that starts at an end in I.                *)
(***************************************************************************)
LEMMA CharAt ==
  ASSUME NEW C, NEW I \in SUBSET Nat, NEW j, text \in Seq(Byte)
  PROVE  /\ j \in Char(C, I) <=> j \in Nat /\ j - 1 \in I /\ j <= Len(text) /\ At(text, j - 1) \in C
         /\ Char(C, I) \in SUBSET Nat
  BY DEF Char

(***************************************************************************)
(* The ends of two digits whose number is in R.                            *)
(***************************************************************************)
LEMMA TwoDigits ==
  ASSUME NEW R, NEW I \in SUBSET Nat, NEW j, text \in Seq(Byte)
  PROVE  /\ j \in Digits(2, R, I) <=>
              /\ j \in Nat /\ j - 2 \in I /\ j <= Len(text)
              /\ At(text, j - 2) \in Digit /\ At(text, j - 1) \in Digit
              /\ Number(Window(text, j - 2, j)) \in R
         /\ Digits(2, R, I) \in SUBSET Nat
<1> DEFINE J == Char(Digit, I)
<1>1. J \in SUBSET Nat /\ Char(Digit, J) \in SUBSET Nat
  BY CharAt
<1>2. j \in Char(Digit, J) <=> j \in Nat /\ j - 1 \in J /\ j <= Len(text) /\ At(text, j - 1) \in Digit
  BY <1>1, CharAt
<1>3. ASSUME j \in Nat
      PROVE  j - 1 \in J <=> j - 1 \in Nat /\ j - 2 \in I /\ j - 1 <= Len(text) /\ At(text, j - 2) \in Digit
  <2>1. (j - 1) - 1 = j - 2
    BY <1>3
  <2>2. j - 1 \in J <=> j - 1 \in Nat /\ (j - 1) - 1 \in I /\ j - 1 <= Len(text)
                           /\ At(text, (j - 1) - 1) \in Digit
    BY CharAt
  <2> QED BY <2>1, <2>2
<1> HIDE DEF J
<1>4. Len(text) \in Nat /\ (j \in Nat /\ j - 2 \in I => j - 1 \in Nat)
  BY <1>1
<1>5. j \in Digits(2, R, I) <=> j \in Char(Digit, J) /\ Number(Window(text, j - 2, j)) \in R
  BY DigitsTwo DEF J
<1>6. Digits(2, R, I) \in SUBSET Nat
  BY <1>1, DigitsTwo DEF J
<1> QED BY <1>2, <1>3, <1>4, <1>5, <1>6

(***************************************************************************)
(* The ends of a character of C and two digits whose number is in R.       *)
(***************************************************************************)
LEMMA AfterOne ==
  ASSUME NEW R, NEW C, NEW I \in SUBSET Nat, NEW j, text \in Seq(Byte)
  PROVE  /\ j \in Digits(2, R, Char(C, I)) <=>
              /\ j \in Nat /\ j - 3 \in I /\ j <= Len(text)
              /\ At(text, j - 3) \in C /\ At(text, j - 2) \in Digit /\ At(text, j - 1) \in Digit
              /\ Number(Window(text, j - 2, j)) \in R
         /\ Digits(2, R, Char(C, I)) \in SUBSET Nat
<1> DEFINE J == Char(C, I)
<1>1. J \in SUBSET Nat
  BY CharAt
<1>2. Digits(2, R, J) \in SUBSET Nat
  BY <1>1, TwoDigits
<1>3. j \in Digits(2, R, J) <=>
        /\ j \in Nat /\ j - 2 \in J /\ j <= Len(text)
        /\ At(text, j - 2) \in Digit /\ At(text, j - 1) \in Digit
        /\ Number(Window(text, j - 2, j)) \in R
  BY <1>1, TwoDigits
<1>4. ASSUME j \in Nat, j <= Len(text)
      PROVE  j - 2 \in J <=> j - 3 \in I /\ At(text, j - 3) \in C
  <2>1. j - 2 \in J <=> j - 2 \in Nat /\ (j - 2) - 1 \in I /\ j - 2 <= Len(text)
                           /\ At(text, (j - 2) - 1) \in C
    BY CharAt
  <2>2. (j - 2) - 1 = j - 3 /\ j - 2 <= Len(text) /\ (j - 3 \in I => j - 2 \in Nat)
    BY <1>4
  <2> QED BY <2>1, <2>2
<1> HIDE DEF J
<1>5. j \in Digits(2, R, J) <=>
        /\ j \in Nat /\ j - 3 \in I /\ j <= Len(text)
        /\ At(text, j - 3) \in C /\ At(text, j - 2) \in Digit /\ At(text, j - 1) \in Digit
        /\ Number(Window(text, j - 2, j)) \in R
  BY <1>3, <1>4
<1> QED BY <1>2, <1>5 DEF J

(***************************************************************************)
(* The characters of a window.                                             *)
(***************************************************************************)
LEMMA WindowHas ==
  ASSUME NEW s \in Seq(Byte), NEW pos \in Nat, NEW e \in Nat, pos <= e, e <= Len(s)
  PROVE  /\ Len(Window(s, pos, e)) = e - pos
         /\ \A i \in 1..(e - pos) : Window(s, pos, e)[i] = At(s, pos + i - 1)
  BY DEF Window, At

(***************************************************************************)
(* Two digits are a natural number.                                        *)
(***************************************************************************)
LEMMA TwoDigitNumber ==
  ASSUME NEW p \in Nat, NEW e \in Nat, e = p + 2, text \in Seq(Byte), e <= Len(text),
         At(text, p) \in Digit, At(text, p + 1) \in Digit
  PROVE  Number(Window(text, p, e)) \in Nat
<1> PICK s : s = Window(text, p, e)
  OBVIOUS
<1>1. p <= e /\ e <= Len(text)
  OBVIOUS
<1>2. Len(s) = e - p /\ \A i \in 1..(e - p) : s[i] = At(text, p + i - 1)
  BY <1>1, WindowHas
<1>3. Len(s) = 2 /\ s[1] = At(text, p) /\ s[2] = At(text, p + 1)
  BY <1>2
<1>4. Number(s) = (s[1] - Zero) * 10 + (s[2] - Zero)
  BY <1>3, NumberTwo
<1>5. PICK a \in 0..9, b \in 0..9 : a = s[1] - Zero /\ b = s[2] - Zero
  BY <1>3 DEF Digit, Zero, Nine
<1>6. Number(s) = a * 10 + b
  BY <1>4, <1>5
<1>7. a * 10 + b \in Nat
  OBVIOUS
<1> QED BY <1>6, <1>7

(***************************************************************************)
(* A year is the first four characters, all digits: every number of four   *)
(* digits is one.                                                          *)
(***************************************************************************)
LEMMA Year ==
  ASSUME NEW y, text \in Seq(Byte)
  PROVE  y \in Digits(4, Years, {0}) <=>
           /\ y = 4 /\ 4 <= Len(text)
           /\ \A i \in 0..3 : At(text, i) \in Digit
<1> DEFINE A(J) == Char(Digit, J)
           n == Len(text)
<1>1. n \in Nat
  OBVIOUS
<1>2. /\ A({0}) \in SUBSET Nat /\ A(A({0})) \in SUBSET Nat
      /\ A(A(A({0}))) \in SUBSET Nat
  BY CharAt
<1>3. \A j : j \in A({0}) <=> j = 1 /\ 1 <= n /\ At(text, 0) \in Digit
  BY CharAt
<1>4. \A j : j \in A(A({0})) <=> j = 2 /\ 2 <= n /\ At(text, 0) \in Digit /\ At(text, 1) \in Digit
  <2> TAKE j
  <2>1. j \in A(A({0})) <=> j \in Nat /\ j - 1 \in A({0}) /\ j <= n /\ At(text, j - 1) \in Digit
    BY <1>2, CharAt
  <2> HIDE DEF A
  <2> QED BY <1>1, <1>3, <2>1
<1>5. \A j : j \in A(A(A({0}))) <=> j = 3 /\ 3 <= n /\ At(text, 0) \in Digit
                                     /\ At(text, 1) \in Digit /\ At(text, 2) \in Digit
  <2> TAKE j
  <2>1. j \in A(A(A({0}))) <=> j \in Nat /\ j - 1 \in A(A({0})) /\ j <= n /\ At(text, j - 1) \in Digit
    BY <1>2, CharAt
  <2> HIDE DEF A
  <2> QED BY <1>1, <1>4, <2>1
<1>6. y \in A(A(A(A({0})))) <=> y = 4 /\ 4 <= n /\ At(text, 0) \in Digit /\ At(text, 1) \in Digit
                                  /\ At(text, 2) \in Digit /\ At(text, 3) \in Digit
  <2>1. y \in A(A(A(A({0})))) <=> y \in Nat /\ y - 1 \in A(A(A({0}))) /\ y <= n /\ At(text, y - 1) \in Digit
    BY <1>2, CharAt
  <2> HIDE DEF A
  <2> QED BY <1>1, <1>5, <2>1
<1>7. ASSUME 4 <= n, At(text, 0) \in Digit, At(text, 1) \in Digit,
             At(text, 2) \in Digit, At(text, 3) \in Digit
      PROVE  Number(Window(text, 4 - 4, 4)) \in Years
  <2> PICK p \in Nat, e \in Nat : p = 0 /\ e = 4
    OBVIOUS
  <2> PICK s : s = Window(text, p, e)
    OBVIOUS
  <2>0. p <= e /\ e <= Len(text)
    BY <1>7
  <2>1. Len(Window(text, p, e)) = e - p /\ \A i \in 1..(e - p) : Window(text, p, e)[i] = At(text, p + i - 1)
    BY <2>0, WindowHas, ZenonT(60)
  <2>2. \A i \in 1..4 : s[i] \in Digit
    <3> TAKE i \in 1..4
    <3>1. i - 1 \in 0..3 /\ p + i - 1 = i - 1 /\ s[i] = At(text, p + i - 1)
      BY <2>1
    <3>2. i - 1 = 0 \/ i - 1 = 1 \/ i - 1 = 2 \/ i - 1 = 3
      BY <3>1
    <3> QED BY <1>7, <3>1, <3>2
  <2>3. Len(s) = 4
    BY <2>1
  <2>4. Number(s) \in Years
    BY <2>2, <2>3, NumberFour
  <2>5. s = Window(text, 4 - 4, 4)
    OBVIOUS
  <2> QED BY <2>4, <2>5
<1>8. y \in Digits(4, Years, {0}) <=>
        y \in A(A(A(A({0})))) /\ Number(Window(text, y - 4, y)) \in Years
  BY DigitsFour
<1>9. (\A i \in 0..3 : At(text, i) \in Digit) <=>
        /\ At(text, 0) \in Digit /\ At(text, 1) \in Digit
        /\ At(text, 2) \in Digit /\ At(text, 3) \in Digit
  OBVIOUS
<1> HIDE DEF A
<1>10. CASE y = 4
  <2>1. Number(Window(text, y - 4, y)) = Number(Window(text, 4 - 4, 4))
    BY <1>10
  <2>2. y \in Digits(4, Years, {0}) <=>
          /\ 4 <= n /\ At(text, 0) \in Digit /\ At(text, 1) \in Digit
          /\ At(text, 2) \in Digit /\ At(text, 3) \in Digit
    <3>1. ASSUME 4 <= n, At(text, 0) \in Digit, At(text, 1) \in Digit,
                 At(text, 2) \in Digit, At(text, 3) \in Digit
          PROVE  Number(Window(text, y - 4, y)) \in Years
      BY <1>7, <2>1, <3>1
    <3>2. y \in A(A(A(A({0})))) <=> /\ 4 <= n /\ At(text, 0) \in Digit /\ At(text, 1) \in Digit
                                     /\ At(text, 2) \in Digit /\ At(text, 3) \in Digit
      BY <1>6, <1>10
    <3> HIDE DEF n
    <3> QED BY <1>8, <3>1, <3>2, Zenon
  <2> HIDE DEF n
  <2>3. n = Len(text)
    BY DEF n
  <2> QED BY <1>9, <1>10, <2>2, <2>3
<1> QED BY <1>6, <1>8, <1>10

(***************************************************************************)
(* parse_full_date and full-date of RFC 3339 agree on every window that    *)
(* starts the text.                                                        *)
(***************************************************************************)
LEMMA DateIs ==
  ASSUME NEW e, text \in Seq(Byte)
  PROVE  e \in fullDate({0}) <=> e \in 0..Len(text) /\ parse_full_date(text, 0, e)
<1> DEFINE n == Len(text)
           year == Number(Window(text, 0, 4))
           month == Number(Window(text, 5, 7))
           day == Number(Window(text, 8, 10))
           Y == \A i \in 0..3 : At(text, i) \in Digit
           M == At(text, 4) = Hyphen /\ At(text, 5) \in Digit /\ At(text, 6) \in Digit
           D == At(text, 7) = Hyphen /\ At(text, 8) \in Digit /\ At(text, 9) \in Digit
<1>1. n \in Nat
  OBVIOUS
<1>2. \A y : y \in Digits(4, Years, {0}) <=> y = 4 /\ 4 <= n /\ Y
  BY Year
<1>3. \A j : j \in Digits(2, 1..12, hyphen({4})) <=> j = 7 /\ 7 <= n /\ M /\ month \in 1..12
  <2> TAKE j
  <2> PICK I, C : I = {4} /\ C = {Hyphen}
    OBVIOUS
  <2>1. I \in SUBSET Nat
    OBVIOUS
  <2>2. j \in Digits(2, 1..12, Char(C, I)) <=>
          /\ j \in Nat /\ j - 3 \in I /\ j <= Len(text)
          /\ At(text, j - 3) \in C /\ At(text, j - 2) \in Digit /\ At(text, j - 1) \in Digit
          /\ Number(Window(text, j - 2, j)) \in 1..12
    BY <2>1, AfterOne
  <2>3. CASE j = 7
    BY <1>1, <2>2, <2>3 DEF hyphen
  <2>4. j \in Nat /\ j - 3 \in {4} => j = 7
    OBVIOUS
  <2> QED BY <2>2, <2>3, <2>4 DEF hyphen
<1>4. ASSUME NEW R
      PROVE  \A j : j \in Digits(2, R, hyphen({7})) <=> j = 10 /\ 10 <= n /\ D /\ day \in R
  <2> TAKE j
  <2> PICK I, C : I = {7} /\ C = {Hyphen}
    OBVIOUS
  <2>1. I \in SUBSET Nat
    OBVIOUS
  <2>2. j \in Digits(2, R, Char(C, I)) <=>
          /\ j \in Nat /\ j - 3 \in I /\ j <= Len(text)
          /\ At(text, j - 3) \in C /\ At(text, j - 2) \in Digit /\ At(text, j - 1) \in Digit
          /\ Number(Window(text, j - 2, j)) \in R
    BY <2>1, AfterOne
  <2>3. CASE j = 10
    BY <1>1, <2>2, <2>3 DEF hyphen
  <2>4. j \in Nat /\ j - 3 \in {7} => j = 10
    OBVIOUS
  <2> QED BY <2>2, <2>3, <2>4 DEF hyphen
<1>5. e \in fullDate({0}) <=>
        \E y \in Digits(4, Years, {0}) : \E m \in Digits(2, 1..12, hyphen({y})) :
          e \in Digits(2, 1..MonthLength(Number(Window(text, y - 4, y)), Number(Window(text, m - 2, m))),
                      hyphen({m}))
  <2> DEFINE last(y, m) ==
               Digits(2, 1..MonthLength(Number(Window(text, y - 4, y)), Number(Window(text, m - 2, m))),
                      hyphen({m}))
             rest(y) == UNION {last(y, m) : m \in Digits(2, 1..12, hyphen({y}))}
  <2>1. fullDate({0}) = UNION {rest(y) : y \in Digits(4, Years, {0})}
    BY DEF fullDate
  <2>2. \A y : e \in rest(y) <=> \E m \in Digits(2, 1..12, hyphen({y})) : e \in last(y, m)
    <3> HIDE DEF last
    <3> QED OBVIOUS
  <2>3. e \in fullDate({0}) <=> \E y \in Digits(4, Years, {0}) : e \in rest(y)
    <3> HIDE DEF rest, last
    <3> QED BY <2>1
  <2>4. e \in fullDate({0}) <=>
          \E y \in Digits(4, Years, {0}) : \E m \in Digits(2, 1..12, hyphen({y})) : e \in last(y, m)
    <3> HIDE DEF rest, last
    <3> QED BY <2>2, <2>3
  <2> QED BY <2>4
<1>6. e \in fullDate({0}) <=>
        4 <= n /\ Y /\ \E m \in Digits(2, 1..12, hyphen({4})) :
          e \in Digits(2, 1..MonthLength(year, Number(Window(text, m - 2, m))), hyphen({m}))
  <2>1. 4 - 4 = 0
    OBVIOUS
  <2> HIDE DEF n, Y
  <2> QED BY <1>2, <1>5, <2>1
<1>7. e \in fullDate({0}) <=>
        4 <= n /\ Y /\ 7 <= n /\ M /\ month \in 1..12 /\ e = 10 /\ 10 <= n /\ D
          /\ day \in 1..MonthLength(year, month)
  <2>1. 7 - 2 = 5
    OBVIOUS
  <2> HIDE DEF n, Y, M, D, year, day
  <2> QED BY <1>3, <1>4, <1>6, <2>1
<1>8. ASSUME 4 <= n, Y
      PROVE  year \in Nat
  <2>1. 4 \in Digits(4, Years, {0})
    BY <1>2, <1>8
  <2>2. \A j \in Digits(4, Years, {0}) : Number(Window(text, j - 4, j)) \in Years
    BY DigitsFour
  <2> PICK j : j = 4
    OBVIOUS
  <2>3. Number(Window(text, j - 4, j)) \in Years /\ j - 4 = 0
    BY <2>1, <2>2
  <2>4. year \in Years
    BY <2>3
  <2>5. Years \in SUBSET Nat
    BY DEF Years
  <2> HIDE DEF year
  <2> QED BY <2>4, <2>5
<1>9. ASSUME 10 <= n, D
      PROVE  day \in Int
  <2> PICK p \in Nat, j \in Nat : p = 8 /\ j = 10
    OBVIOUS
  <2>1. /\ j = p + 2 /\ j <= Len(text)
        /\ At(text, p) \in Digit /\ At(text, p + 1) \in Digit
    BY <1>9
  <2>2. Number(Window(text, p, j)) \in Nat
    BY <2>1, TwoDigitNumber
  <2>3. day \in Nat
    BY <2>2
  <2> HIDE DEF day
  <2> QED BY <2>3
<1>10. ASSUME 10 <= n
       PROVE parse_full_date(text, 0, e) <=>
         /\ e - 0 = 10 /\ Y /\ M /\ D
         /\ month \in 1..12
         /\ 1 <= day /\ day <= days_in_month(year, month)
  <2>1. /\ Field(text, 0, 4) = year /\ Field(text, 0 + 5, 2) = month /\ Field(text, 0 + 8, 2) = day
    BY DEF Field
  <2>2. AllDigits(text, 0..(0 + 3)) <=> Y
    BY DEF AllDigits
  <2>3. AllDigits(text, {0 + 5, 0 + 6}) <=> At(text, 5) \in Digit /\ At(text, 6) \in Digit
    BY DEF AllDigits
  <2>4. AllDigits(text, {0 + 8, 0 + 9}) <=> At(text, 8) \in Digit /\ At(text, 9) \in Digit
    BY DEF AllDigits
  <2>5. At(text, 0 + 4) = At(text, 4) /\ At(text, 0 + 7) = At(text, 7)
    OBVIOUS
  <2>6. parse_full_date(text, 0, e) <=>
          /\ e - 0 = 10
          /\ AllDigits(text, 0..(0 + 3))
          /\ At(text, 0 + 4) = Hyphen
          /\ AllDigits(text, {0 + 5, 0 + 6})
          /\ At(text, 0 + 7) = Hyphen
          /\ AllDigits(text, {0 + 8, 0 + 9})
          /\ Field(text, 0 + 5, 2) \in 1..12
          /\ 1 <= Field(text, 0 + 8, 2)
          /\ Field(text, 0 + 8, 2) <= days_in_month(Field(text, 0, 4), Field(text, 0 + 5, 2))
    BY DEF parse_full_date
  <2> HIDE DEF n, Y, year, month, day
  <2> QED BY <2>1, <2>2, <2>3, <2>4, <2>5, <2>6
<1>11. ASSUME 10 <= n, Y, month \in 1..12, D
       PROVE  day \in 1..MonthLength(year, month) <=> 1 <= day /\ day <= days_in_month(year, month)
  <2>1. year \in Nat /\ day \in Int
    BY <1>1, <1>8, <1>9, <1>11
  <2> HIDE DEF n, Y, D, year, month, day
  <2>2. days_in_month(year, month) = MonthLength(year, month)
    BY <1>11, <2>1, CalendarExact
  <2>3. days_in_month(year, month) \in Int
    BY <1>11 DEF days_in_month, days
  <2> QED BY <2>1, <2>2, <2>3
<1>12. 10 <= n => 4 <= n /\ 7 <= n
  BY <1>1
<1>13. e \in 0..n /\ e - 0 = 10 <=> e = 10 /\ 10 <= n
  BY <1>1
<1>14. e \in 0..n /\ parse_full_date(text, 0, e) => e - 0 = 10 /\ 10 <= n
  <2>1. parse_full_date(text, 0, e) => e - 0 = 10
    BY DEF parse_full_date
  <2> HIDE DEF n
  <2> QED BY <1>13, <2>1
<1> HIDE DEF n, Y, M, D, year, month, day
<1>15. e \in fullDate({0}) <=> e \in 0..n /\ parse_full_date(text, 0, e)
  BY <1>7, <1>10, <1>11, <1>12, <1>13, <1>14
<1> QED BY <1>15 DEF n

(***************************************************************************)
(* Runs of digits, and the times built from them (time.c, date_time.c).    *)
(***************************************************************************)

(* The order of the natural numbers, as the pairs it relates.              *)
Less == {ss \in Nat \X Nat : ss[1] < ss[2]}

LEMMA LessIsWellFounded == IsWellFoundedOn(Less, Nat)
BY NatLessThanWellFounded DEF OpToRel, Less

(***************************************************************************)
(* A set of natural numbers that is not empty has a least member.          *)
(***************************************************************************)
LEMMA Least ==
  ASSUME NEW T, T \subseteq Nat, T # {}
  PROVE  \E x \in T : \A y \in T : x <= y
<1>1. PICK x \in T : \A y \in T : ~ (<<y, x>> \in Less)
  BY WFMin, LessIsWellFounded
<1>2. \A y \in T : ~(y < x)
  BY <1>1 DEF Less
<1> QED BY <1>2

(***************************************************************************)
(* Skip stops at the end of the window or at the first character that is   *)
(* not in C.                                                               *)
(***************************************************************************)
LEMMA SkipIs ==
  ASSUME NEW C, NEW s \in Seq(Byte), NEW e \in 0..Len(s), NEW pos \in 0..e
  PROVE  \E i \in pos..e :
           /\ Skip(s, pos, e, C) = i
           /\ i = e \/ At(s, i) \notin C
           /\ \A j \in pos..(i - 1) : At(s, j) \in C
<1> DEFINE Stops(i) == i = e \/ At(s, i) \in Byte \ C
           T == {i \in pos..e : Stops(i)}
           Fits(i) == Stops(i) /\ \A j \in pos..(i - 1) : At(s, j) \notin Byte \ C
<1>1. Len(s) \in Nat /\ e \in T /\ T \subseteq Nat
  OBVIOUS
<1>2. PICK i \in T : \A j \in T : i <= j
  BY <1>1, Least
<1>3. i \in pos..e /\ Fits(i)
  <2>1. ASSUME NEW j \in pos..(i - 1), Stops(j) PROVE FALSE
    BY <1>1, <1>2, <2>1
  <2> QED BY <1>2, <2>1
<1>4. PICK k : k = Skip(s, pos, e, C)
  OBVIOUS
<1>5. k \in pos..e /\ Fits(k)
  <2>1. k = CHOOSE m \in pos..e : Fits(m)
    BY <1>4 DEF Skip, Find
  <2> HIDE DEF Fits
  <2> QED BY <1>3, <2>1
<1>6. \A m \in pos..(e - 1) : At(s, m) \in Byte
  BY <1>1 DEF At
<1> QED BY <1>4, <1>5, <1>6

(***************************************************************************)
(* What the closure under one more digit computes: the ends of the runs of *)
(* digits that start at an end in I. A largest set of ends for which it    *)
(* would compute anything else leads to a larger one.                      *)
(***************************************************************************)
LEMMA ManyDigits ==
  ASSUME NEW I, I \in SUBSET (0..Len(text)), text \in Seq(Byte), NEW j
  PROVE  j \in Many(digit, I) <=>
           j \in 0..Len(text) /\ \E i \in I : i <= j /\ \A k \in i..(j - 1) : At(text, k) \in Digit
<1> DEFINE n == Len(text)
           A(J) == Char(Digit, J)
           Run(J) == {m \in 0..n : \E i \in J : i <= m /\ \A k \in i..(m - 1) : At(text, k) \in Digit}
           Eq(v) == v = [J \in SUBSET (0..n) |->
                           LET K == J \cup A(J) IN IF K = J THEN J ELSE v[K]]
<1>1. n \in Nat
  OBVIOUS
<1>2. ASSUME NEW J \in SUBSET (0..n)
      PROVE  /\ A(J) \in SUBSET (0..n)
             /\ J \subseteq Run(J)
             /\ Run(J \cup A(J)) = Run(J)
             /\ A(J) \subseteq J => Run(J) = J
             /\ Run(J) \in SUBSET (0..n)
  <2>1. \A m : m \in A(J) <=> m \in Nat /\ m - 1 \in J /\ m <= n /\ At(text, m - 1) \in Digit
    BY <1>1, CharAt
  <2> HIDE DEF A
  <2>2. A(J) \in SUBSET (0..n)
    BY <1>1, <2>1
  <2>3. J \subseteq Run(J)
    OBVIOUS
  <2>4. ASSUME NEW m \in Run(J \cup A(J))
        PROVE  m \in Run(J)
    <3>1. PICK i \in J \cup A(J) : i <= m /\ \A k \in i..(m - 1) : At(text, k) \in Digit
      BY <2>4
    <3>2. CASE i \in J
      BY <3>1, <3>2
    <3>3. CASE i \in A(J)
      <4>1. i \in Nat /\ i - 1 \in J /\ i <= n /\ At(text, i - 1) \in Digit /\ m \in 0..n
        BY <2>1, <3>3
      <4>2. \A k \in (i - 1)..(m - 1) : k = i - 1 \/ k \in i..(m - 1)
        BY <4>1
      <4> QED BY <3>1, <4>1, <4>2
    <3> QED BY <3>1, <3>2, <3>3
  <2>5. Run(J) \subseteq Run(J \cup A(J))
    OBVIOUS
  <2>6. ASSUME A(J) \subseteq J, NEW m \in Run(J)
        PROVE  m \in J
    <3>1. PICK i \in J : i <= m /\ \A k \in i..(m - 1) : At(text, k) \in Digit
      OBVIOUS
    <3>2. SUFFICES ASSUME m \notin J PROVE FALSE
      OBVIOUS
    <3>3. PICK T : T = {k \in i..m : k \notin J}
      OBVIOUS
    <3>4. T \subseteq Nat /\ T # {}
      BY <1>1, <3>1, <3>2, <3>3
    <3>5. PICK x \in T : \A y \in T : x <= y
      BY <3>4, Least
    <3>6. x # i /\ x - 1 \in i..(m - 1) /\ x - 1 \in J /\ x <= n
      BY <1>1, <3>1, <3>3, <3>5
    <3>7. x \in A(J)
      BY <2>1, <3>1, <3>4, <3>6
    <3> QED BY <2>6, <3>3, <3>7
  <2> QED BY <2>2, <2>3, <2>4, <2>5, <2>6
<1>3. PICK r : r = [J \in SUBSET (0..n) |-> Run(J)]
  OBVIOUS
<1>4. Eq(r)
  <2>1. ASSUME NEW J \in SUBSET (0..n)
        PROVE  Run(J) = LET K == J \cup A(J) IN IF K = J THEN J ELSE r[K]
    <3>1. J \cup A(J) \in SUBSET (0..n)
      BY <1>2
    <3> HIDE DEF A, Run
    <3> QED BY <1>2, <1>3, <3>1
  <2> HIDE DEF A, Run
  <2> QED BY <1>3, <2>1
<1>5. PICK v : Eq(v) /\ Many(digit, I) = v[I]
  <2>1. PICK v : v = CHOOSE u : Eq(u)
    OBVIOUS
  <2>2. Eq(v)
    <3> HIDE DEF Eq
    <3> QED BY <1>4, <2>1
  <2>3. Many(digit, I) = v[I]
    BY <2>1 DEF Many, digit
  <2> QED BY <2>2, <2>3
<1>6. ASSUME NEW J \in SUBSET (0..n)
      PROVE  v[J] = Run(J)
  <2>1. \A K \in SUBSET (0..n) : IsFiniteSet(K) /\ Cardinality(K) \in Nat /\ Cardinality(K) <= n + 1
    <3>1. IsFiniteSet(0..n) /\ Cardinality(0..n) = n + 1
      BY <1>1, FS_Interval
    <3> QED BY <3>1, FS_Subset, FS_CardinalityType
  <2>2. SUFFICES ASSUME v[J] # Run(J) PROVE FALSE
    OBVIOUS
  <2> HIDE DEF A, Run
  <2>3. PICK Bad : Bad = {K \in SUBSET (0..n) : v[K] # Run(K)}
    OBVIOUS
  <2>4. PICK T : T = {n + 1 - Cardinality(K) : K \in Bad}
    OBVIOUS
  <2>5. T \subseteq Nat /\ T # {}
    BY <1>1, <2>1, <2>2, <2>3, <2>4
  <2>6. PICK x \in T : \A y \in T : x <= y
    BY <2>5, Least
  <2>7. PICK K \in Bad : x = n + 1 - Cardinality(K)
    BY <2>4
  <2>8. PICK L : L = K \cup A(K)
    OBVIOUS
  <2>9. K \in SUBSET (0..n) /\ L \in SUBSET (0..n) /\ v[K] # Run(K)
    BY <1>2, <2>3, <2>8
  <2>10. v[K] = IF L = K THEN K ELSE v[L]
    BY <1>5, <2>8, <2>9
  <2>11. L # K
    BY <1>2, <2>8, <2>9, <2>10
  <2>12. Cardinality(K) <= Cardinality(L) /\ Cardinality(K) # Cardinality(L)
    BY <2>1, <2>8, <2>9, <2>11, FS_Subset
  <2>13. L \notin Bad
    <3>1. SUFFICES ASSUME L \in Bad PROVE FALSE
      OBVIOUS
    <3>2. n + 1 - Cardinality(L) \in T
      BY <2>4, <3>1
    <3> QED BY <1>1, <2>1, <2>6, <2>7, <2>9, <2>12, <3>2
  <2>14. v[L] = Run(L)
    BY <2>3, <2>9, <2>13
  <2> QED BY <1>2, <2>8, <2>9, <2>10, <2>11, <2>14
<1>7. Many(digit, I) = Run(I)
  BY <1>5, <1>6
<1> QED BY <1>7

(***************************************************************************)
(* The number of a window of two digits is the field the parser reads.     *)
(***************************************************************************)
LEMMA TwoDigitField ==
  ASSUME NEW p, NEW j \in Nat, p = j - 2, p \in Nat, NEW m \in Nat, text \in Seq(Byte), j <= Len(text),
         At(text, p) \in Digit, At(text, p + 1) \in Digit
  PROVE  Number(Window(text, p, j)) \in 0..m <=> Field(text, p, 2) <= m
<1>1. j = p + 2
  OBVIOUS
<1>2. Number(Window(text, p, j)) \in Nat
  BY <1>1, TwoDigitNumber
<1>3. Field(text, p, 2) = Number(Window(text, p, j))
  BY <1>1 DEF Field
<1> QED BY <1>2, <1>3

(***************************************************************************)
(* The ends of an hour and a minute are five characters further.           *)
(***************************************************************************)
LEMMA HourMinuteIs ==
  ASSUME NEW I \in SUBSET Nat, NEW j, text \in Seq(Byte)
  PROVE  /\ j \in hourMinute(I) <=> /\ j \in Nat /\ j - 5 \in I /\ j <= Len(text)
                                    /\ HourMinute(text, j - 5)
         /\ hourMinute(I) \in SUBSET Nat
<1> DEFINE H == Digits(2, 0..23, I)
<1>1. PICK C, m, h : C = {Colon} /\ m = 0..59 /\ h = 0..23
  OBVIOUS
<1>2. H \in SUBSET Nat
  BY TwoDigits
<1>3. hourMinute(I) = Digits(2, m, Char(C, H))
  BY <1>1 DEF hourMinute, colon
<1>4. hourMinute(I) \in SUBSET Nat
  BY <1>2, <1>3, AfterOne
<1>5. j \in Digits(2, m, Char(C, H)) <=>
        /\ j \in Nat /\ j - 3 \in H /\ j <= Len(text)
        /\ At(text, j - 3) \in C /\ At(text, j - 2) \in Digit /\ At(text, j - 1) \in Digit
        /\ Number(Window(text, j - 2, j)) \in m
  BY <1>2, AfterOne
<1>6. \A k : k \in H <=> /\ k \in Nat /\ k - 2 \in I /\ k <= Len(text)
                         /\ At(text, k - 2) \in Digit /\ At(text, k - 1) \in Digit
                         /\ Number(Window(text, k - 2, k)) \in h
  <2> TAKE k
  <2>1. k \in Digits(2, h, I) <=> /\ k \in Nat /\ k - 2 \in I /\ k <= Len(text)
                         /\ At(text, k - 2) \in Digit /\ At(text, k - 1) \in Digit
                         /\ Number(Window(text, k - 2, k)) \in h
    BY TwoDigits
  <2> QED BY <1>1, <2>1
<1> HIDE DEF H
<1>7. CASE ~(j \in Nat /\ j - 5 \in I /\ j <= Len(text))
  <2>1. j \in Nat /\ j - 3 \in H => j - 5 \in I
    <3> HAVE j \in Nat /\ j - 3 \in H
    <3>1. (j - 3) - 2 \in I /\ (j - 3) - 2 = j - 5
      BY <1>6
    <3> QED BY <3>1
  <2> QED BY <1>3, <1>4, <1>5, <1>7, <2>1
<1>8. CASE j \in Nat /\ j - 5 \in I /\ j <= Len(text)
  <2>1. PICK p \in Nat : p = j - 5
    BY <1>8
  <2>0. j - 3 = p + 2 /\ j - 2 = p + 3 /\ j - 3 \in Nat /\ j - 2 \in Nat
    BY <1>8, <2>1
  <2>2. PICK k \in Nat, q \in Nat : k = j - 3 /\ q = j - 2
    BY <2>0
  <2>3. /\ k - 2 = p /\ k - 1 = p + 1 /\ k = p + 2 /\ q = p + 3 /\ j - 1 = p + 4 /\ j - 1 = q + 1
        /\ k <= Len(text) /\ p \in I /\ Len(text) \in Nat /\ j \in Nat /\ p = k - 2 /\ q = j - 2
    BY <1>8, <2>1, <2>2
  <2>4. k \in H <=> At(text, p) \in Digit /\ At(text, p + 1) \in Digit /\ Number(Window(text, p, k)) \in h
    BY <1>6, <2>3
  <2>5. j \in hourMinute(I) <=>
           /\ k \in H /\ At(text, k) = Colon /\ At(text, q) \in Digit /\ At(text, q + 1) \in Digit
           /\ Number(Window(text, q, j)) \in m
    BY <1>1, <1>3, <1>5, <1>8, <2>2, <2>3
  <2>6. ASSUME At(text, p) \in Digit, At(text, p + 1) \in Digit
        PROVE  Number(Window(text, p, k)) \in 0..23 <=> Field(text, p, 2) <= 23
    BY <2>3, <2>6, TwoDigitField
  <2>7. ASSUME At(text, q) \in Digit, At(text, q + 1) \in Digit
        PROVE  Number(Window(text, q, j)) \in 0..59 <=> Field(text, q, 2) <= 59
    BY <1>8, <2>3, <2>7, TwoDigitField
  <2>8. HourMinute(text, p) <=>
           /\ At(text, p) \in Digit /\ At(text, p + 1) \in Digit
           /\ At(text, p + 2) = Colon
           /\ At(text, p + 3) \in Digit /\ At(text, p + 4) \in Digit
           /\ Field(text, p, 2) <= 23
           /\ Field(text, p + 3, 2) <= 59
    BY DEF HourMinute, AllDigits
  <2>9. p + 4 = q + 1 /\ p + 3 = q /\ p + 2 = k
    BY <2>3
  <2>10. HourMinute(text, p) <=>
           /\ At(text, p) \in Digit /\ At(text, p + 1) \in Digit
           /\ At(text, k) = Colon
           /\ At(text, q) \in Digit /\ At(text, q + 1) \in Digit
           /\ Field(text, p, 2) <= 23
           /\ Field(text, q, 2) <= 59
    BY <2>8, <2>9
  <2>11. j \in hourMinute(I) <=> HourMinute(text, p)
    BY <1>1, <2>4, <2>5, <2>6, <2>7, <2>10
  <2> QED BY <1>4, <1>8, <2>1, <2>11
<1> QED BY <1>7, <1>8

(* An hour, a minute and a second of R start at p.                         *)
Clock(R, p) ==
  /\ HourMinute(text, p)
  /\ At(text, p + 5) = Colon
  /\ AllDigits(text, {p + 6, p + 7})
  /\ Field(text, p + 6, 2) \in R

(***************************************************************************)
(* The ends of an hour, a minute and a second are eight characters         *)
(* further.                                                                *)
(***************************************************************************)
LEMMA SecondsAre ==
  ASSUME NEW R, NEW I \in SUBSET Nat, NEW j, text \in Seq(Byte)
  PROVE  /\ j \in Digits(2, R, colon(hourMinute(I))) <=>
              j \in Nat /\ j - 8 \in I /\ j <= Len(text) /\ Clock(R, j - 8)
         /\ Digits(2, R, colon(hourMinute(I))) \in SUBSET Nat
<1> DEFINE M == hourMinute(I)
           S == Digits(2, R, colon(M))
<1>1. PICK C : C = {Colon}
  OBVIOUS
<1>2. M \in SUBSET Nat
  BY HourMinuteIs
<1>3. S = Digits(2, R, Char(C, M))
  BY <1>1 DEF colon
<1>4. S \in SUBSET Nat
  BY <1>2, <1>3, AfterOne
<1>5. j \in Digits(2, R, Char(C, M)) <=>
        /\ j \in Nat /\ j - 3 \in M /\ j <= Len(text)
        /\ At(text, j - 3) \in C /\ At(text, j - 2) \in Digit /\ At(text, j - 1) \in Digit
        /\ Number(Window(text, j - 2, j)) \in R
  BY <1>2, AfterOne
<1>6. \A k : k \in M <=> k \in Nat /\ k - 5 \in I /\ k <= Len(text) /\ HourMinute(text, k - 5)
  BY HourMinuteIs
<1> HIDE DEF M, S
<1>7. CASE ~(j \in Nat /\ j - 8 \in I /\ j <= Len(text))
  <2>1. j \in Nat /\ j - 3 \in M => j - 8 \in I
    <3> HAVE j \in Nat /\ j - 3 \in M
    <3>1. (j - 3) - 5 \in I /\ (j - 3) - 5 = j - 8
      BY <1>6
    <3> QED BY <3>1
  <2>2. j \notin S
    BY <1>3, <1>5, <1>7, <2>1
  <2> QED BY <1>4, <1>7, <2>2 DEF S, M
<1>8. CASE j \in Nat /\ j - 8 \in I /\ j <= Len(text)
  <2>1. PICK p \in Nat : p = j - 8
    BY <1>8
  <2>0. j - 3 = p + 5 /\ j - 2 = p + 6 /\ j - 3 \in Nat /\ j - 2 \in Nat
    BY <1>8, <2>1
  <2>2. PICK k \in Nat, q \in Nat : k = j - 3 /\ q = j - 2
    BY <2>0
  <2>3. /\ k - 5 = p /\ k = p + 5 /\ q = p + 6 /\ j - 1 = p + 7 /\ j - 1 = q + 1 /\ q + 1 = p + 7
        /\ k <= Len(text) /\ p \in I /\ Len(text) \in Nat /\ j \in Nat /\ q = j - 2
    BY <1>8, <2>1, <2>2
  <2>4. k \in M <=> HourMinute(text, p)
    BY <1>6, <2>3
  <2>5. j \in S <=>
           /\ k \in M /\ At(text, k) = Colon /\ At(text, q) \in Digit /\ At(text, q + 1) \in Digit
           /\ Number(Window(text, q, j)) \in R
    BY <1>1, <1>3, <1>5, <1>8, <2>2, <2>3
  <2>6. Field(text, q, 2) = Number(Window(text, q, j))
    <3>1. j = q + 2
      BY <2>3
    <3> QED BY <3>1 DEF Field
  <2>7. Clock(R, p) <=>
           /\ HourMinute(text, p) /\ At(text, p + 5) = Colon
           /\ At(text, p + 6) \in Digit /\ At(text, p + 7) \in Digit
           /\ Field(text, p + 6, 2) \in R
    BY DEF Clock, AllDigits
  <2>8. Clock(R, p) <=>
           /\ HourMinute(text, p) /\ At(text, k) = Colon
           /\ At(text, q) \in Digit /\ At(text, q + 1) \in Digit
           /\ Field(text, q, 2) \in R
    BY <2>3, <2>7
  <2>9. j \in S <=> Clock(R, p)
    BY <1>1, <2>4, <2>5, <2>6, <2>8
  <2> QED BY <1>4, <1>8, <2>1, <2>9 DEF S, M
<1> QED BY <1>7, <1>8

(* Where the fraction of seconds may end.                                  *)
Fractions(p) ==
  {f \in 0..Len(text) :
     \/ f = p + 8
     \/ /\ p + 10 <= f /\ At(text, p + 8) = Dot
        /\ \A k \in (p + 9)..(f - 1) : At(text, k) \in Digit}

(***************************************************************************)
(* Before a character that no fraction holds, the only end of a fraction   *)
(* is where the parser stands.                                             *)
(***************************************************************************)
LEMMA FractionIs ==
  ASSUME NEW p \in Nat, NEW f \in Nat, text \in Seq(Byte), f < Len(text), p + 9 <= Len(text),
         At(text, f) \notin Digit \cup {Dot}
  PROVE  f \in Fractions(p) <=> f = after_fraction(text, p + 8, Len(text))
<1> PICK n \in Nat, b \in Nat : n = Len(text) /\ b = p + 8
  OBVIOUS
<1> PICK a : a = after_fraction(text, b, n)
  OBVIOUS
<1>1. n \in Nat /\ b + 1 \in 0..n /\ n \in 0..Len(text)
  OBVIOUS
<1>2. PICK stop \in (b + 1)..n :
         /\ Skip(text, b + 1, n, Digit) = stop
         /\ stop = n \/ At(text, stop) \notin Digit
         /\ \A j \in (b + 1)..(stop - 1) : At(text, j) \in Digit
  BY <1>1, SkipIs
<1>3. a = IF At(text, b) # Dot THEN b ELSE IF stop = b + 1 THEN n + 1 ELSE stop
  BY <1>2 DEF after_fraction
<1>4. f \in Fractions(p) <=>
        f \in 0..n /\ \/ f = b
                      \/ /\ b + 2 <= f /\ At(text, b) = Dot
                         /\ \A k \in (b + 1)..(f - 1) : At(text, k) \in Digit
  <2>1. p + 10 = b + 2 /\ p + 9 = b + 1 /\ p + 8 = b
    OBVIOUS
  <2> QED BY <2>1 DEF Fractions
<1>5. CASE At(text, b) # Dot
  BY <1>3, <1>4, <1>5
<1>6. CASE At(text, b) = Dot
  <2>1. f # b
    BY <1>6
  <2>2. ASSUME f \in Fractions(p)
        PROVE  f = a
    <3>1. b + 2 <= f /\ \A k \in (b + 1)..(f - 1) : At(text, k) \in Digit
      BY <1>4, <2>1, <2>2
    <3>2. f <= stop
      <4>1. CASE stop < f
        <5>1. stop \in (b + 1)..(f - 1) /\ stop # n
          BY <1>1, <1>2, <4>1
        <5> QED BY <1>2, <3>1, <5>1
      <4> QED BY <1>1, <1>2, <4>1
    <3>3. stop <= f
      <4>1. CASE f < stop
        <5>1. f \in (b + 1)..(stop - 1)
          BY <1>1, <1>2, <3>1, <4>1
        <5> QED BY <1>2, <5>1
      <4> QED BY <1>1, <1>2, <4>1
    <3>4. f = stop /\ stop # b + 1
      BY <1>1, <1>2, <3>1, <3>2, <3>3
    <3> QED BY <1>3, <1>6, <3>4
  <2>3. ASSUME f = a
        PROVE  f \in Fractions(p)
    <3>1. f # n + 1
      BY <1>1
    <3>2. f = stop /\ stop # b + 1
      BY <1>3, <1>6, <2>3, <3>1
    <3> QED BY <1>1, <1>2, <1>4, <1>6, <3>2
  <2> QED BY <2>2, <2>3
<1> QED BY <1>5, <1>6

(***************************************************************************)
(* The ends of a time with or without a fraction of seconds.               *)
(***************************************************************************)
LEMMA FractionsAre ==
  ASSUME NEW R, NEW I, I \in SUBSET (0..Len(text)), NEW f, text \in Seq(Byte)
  PROVE  /\ f \in partialTime(R, I) <=>
              \E p \in I : p + 8 <= Len(text) /\ Clock(R, p) /\ f \in Fractions(p)
         /\ partialTime(R, I) \in SUBSET Nat
<1> PICK n \in Nat : n = Len(text)
  OBVIOUS
<1>1. PICK S : S = Digits(2, R, colon(hourMinute(I)))
  OBVIOUS
<1>2. I \in SUBSET Nat
  OBVIOUS
<1>3. /\ \A j : j \in S <=> j \in Nat /\ j - 8 \in I /\ j <= n /\ Clock(R, j - 8)
      /\ S \in SUBSET Nat
  BY <1>1, <1>2, SecondsAre
<1>4. PICK C : C = {Dot}
  OBVIOUS
<1>5. PICK D : D = Char(C, S)
  OBVIOUS
<1>6. /\ \A j : j \in D <=> j \in Nat /\ j - 1 \in S /\ j <= n /\ At(text, j - 1) = Dot
      /\ D \in SUBSET Nat
  <2>1. \A j : j \in Char(C, S) <=> j \in Nat /\ j - 1 \in S /\ j <= Len(text) /\ At(text, j - 1) \in C
    BY <1>3, CharAt
  <2>2. Char(C, S) \in SUBSET Nat
    BY <1>3, CharAt
  <2> QED BY <1>4, <1>5, <2>1, <2>2
<1>7. PICK E : E = Char(Digit, D)
  OBVIOUS
<1>8. /\ \A j : j \in E <=> j \in Nat /\ j - 1 \in D /\ j <= n /\ At(text, j - 1) \in Digit
      /\ E \in SUBSET (0..n)
  <2>1. \A j : j \in Char(Digit, D) <=> j \in Nat /\ j - 1 \in D /\ j <= Len(text) /\ At(text, j - 1) \in Digit
    BY <1>6, CharAt
  <2> QED BY <1>7, <2>1
<1>9. Some(digit, dot(S)) = Many(digit, E)
  BY <1>4, <1>5, <1>7 DEF Some, digit, dot
<1>10. \A j : j \in Many(digit, E) <=>
         j \in 0..n /\ \E i \in E : i <= j /\ \A k \in i..(j - 1) : At(text, k) \in Digit
  BY <1>8, ManyDigits
<1>11. ASSUME NEW p \in I, p + 8 <= n, Clock(R, p), f \in Fractions(p)
       PROVE  f \in S \/ f \in Many(digit, E)
  <2>1. p \in Nat /\ p + 8 \in S
    <3>1. p \in Nat /\ (p + 8) - 8 = p /\ p + 8 \in Nat
      BY <1>2
    <3> QED BY <1>3, <1>11, <3>1
  <2>2. CASE f = p + 8
    BY <2>1, <2>2
  <2>3. CASE f # p + 8
    <3>1. /\ f \in 0..n /\ p + 10 <= f /\ At(text, p + 8) = Dot
          /\ \A k \in (p + 9)..(f - 1) : At(text, k) \in Digit
      BY <1>11, <2>3 DEF Fractions
    <3>2. p + 9 \in D
      <4>1. (p + 9) - 1 = p + 8 /\ p + 9 \in Nat /\ p + 9 <= n
        BY <2>1, <3>1
      <4> QED BY <1>6, <2>1, <3>1, <4>1
    <3>3. p + 10 \in E
      <4>1. (p + 10) - 1 = p + 9 /\ p + 10 \in Nat /\ p + 10 <= n /\ p + 9 \in (p + 9)..(f - 1)
        BY <2>1, <3>1
      <4>2. At(text, p + 9) \in Digit
        BY <3>1, <4>1
      <4> QED BY <1>8, <3>2, <4>1, <4>2
    <3>4. \A k \in (p + 10)..(f - 1) : k \in (p + 9)..(f - 1)
      BY <2>1
    <3> QED BY <1>10, <3>1, <3>3, <3>4
  <2> QED BY <2>2, <2>3
<1>12. ASSUME f \in S
       PROVE  \E p \in I : p + 8 <= n /\ Clock(R, p) /\ f \in Fractions(p)
  <2>1. PICK p : p = f - 8
    OBVIOUS
  <2>2. p \in I /\ f = p + 8 /\ f <= n /\ Clock(R, p) /\ f \in 0..n
    BY <1>2, <1>3, <1>12, <2>1
  <2> QED BY <2>2 DEF Fractions
<1>13. ASSUME f \in Many(digit, E)
       PROVE  \E p \in I : p + 8 <= n /\ Clock(R, p) /\ f \in Fractions(p)
  <2>1. PICK i \in E : f \in 0..n /\ i <= f /\ \A k \in i..(f - 1) : At(text, k) \in Digit
    BY <1>10, <1>13
  <2>2. i \in Nat /\ i - 1 \in D /\ i <= n /\ At(text, i - 1) \in Digit
    BY <1>8
  <2>3. i - 1 \in Nat /\ (i - 1) - 1 \in S /\ At(text, (i - 1) - 1) = Dot
    BY <1>6, <2>2
  <2>4. PICK p : p = ((i - 1) - 1) - 8
    OBVIOUS
  <2>5. (i - 1) - 1 \in Nat /\ p \in I /\ (i - 1) - 1 <= n /\ Clock(R, p)
    BY <1>3, <2>3, <2>4
  <2>6. p \in Nat /\ i = p + 10 /\ i - 1 = p + 9 /\ (i - 1) - 1 = p + 8 /\ p + 8 <= n
    BY <1>2, <2>2, <2>4, <2>5
  <2>7. \A k \in (p + 9)..(f - 1) : k = i - 1 \/ k \in i..(f - 1)
    BY <2>1, <2>6
  <2>8. p + 10 <= f /\ At(text, p + 8) = Dot /\ \A k \in (p + 9)..(f - 1) : At(text, k) \in Digit
    BY <2>1, <2>2, <2>3, <2>6, <2>7
  <2> QED BY <2>1, <2>5, <2>6, <2>8 DEF Fractions
<1>14. S \cup Some(digit, dot(S)) \in SUBSET Nat
  BY <1>3, <1>9, <1>10
<1>15. f \in S \cup Some(digit, dot(S)) <=>
         \E p \in I : p + 8 <= Len(text) /\ Clock(R, p) /\ f \in Fractions(p)
  BY <1>9, <1>11, <1>12, <1>13
<1>16. partialTime(R, I) = S \cup Some(digit, dot(S))
  BY <1>1 DEF partialTime
<1> QED BY <1>14, <1>15, <1>16

(***************************************************************************)
(* The parser stands at a position when the fraction is read.              *)
(***************************************************************************)
LEMMA FractionEnds ==
  ASSUME NEW p \in Nat, text \in Seq(Byte), p + 9 <= Len(text)
  PROVE  after_fraction(text, p + 8, Len(text)) \in Nat
<1> PICK n \in Nat, b \in Nat : n = Len(text) /\ b = p + 8
  OBVIOUS
<1>1. n \in Nat /\ b + 1 \in 0..n /\ n \in 0..Len(text)
  OBVIOUS
<1>2. PICK stop \in (b + 1)..n :
         /\ Skip(text, b + 1, n, Digit) = stop
         /\ stop = n \/ At(text, stop) \notin Digit
         /\ \A j \in (b + 1)..(stop - 1) : At(text, j) \in Digit
  BY <1>1, SkipIs
<1>3. after_fraction(text, b, n) = IF At(text, b) # Dot THEN b ELSE IF stop = b + 1 THEN n + 1 ELSE stop
  BY <1>2 DEF after_fraction
<1> QED BY <1>3

(* What comes after the fraction, at z: "Z", in either case, or an offset. *)
Ends(z) ==
  /\ z < Len(text)
  /\ \/ At(text, z) \in {90, 122} /\ z = Len(text) - 1
     \/ At(text, z) \in {Plus, Hyphen} /\ Len(text) - z = 6 /\ HourMinute(text, z + 1)

(* A time with a second of R starts at p and ends the text.                *)
TimeFrom(R, p) ==
  \E z : p + 8 <= Len(text) /\ Clock(R, p) /\ z \in Fractions(p) /\ Ends(z)

(***************************************************************************)
(* The grammar's times that end the text, by where they start.             *)
(***************************************************************************)
LEMMA TimeEnds ==
  ASSUME NEW R, NEW I, I \in SUBSET (0..Len(text)), text \in Seq(Byte)
  PROVE  Len(text) \in timeOffset(partialTime(R, I)) <=> \E p \in I : TimeFrom(R, p)
<1> PICK n \in Nat : n = Len(text)
  OBVIOUS
<1>1. PICK F : F = partialTime(R, I)
  OBVIOUS
<1>2. /\ \A f : f \in F <=> \E p \in I : p + 8 <= n /\ Clock(R, p) /\ f \in Fractions(p)
      /\ F \in SUBSET Nat
  BY <1>1, FractionsAre
<1>3. PICK Z, PH : Z = {90, 122} /\ PH = {Plus, Hyphen}
  OBVIOUS
<1>4. PICK G : G = Char(PH, F)
  OBVIOUS
<1>5. /\ \A j : j \in G <=> j \in Nat /\ j - 1 \in F /\ j <= n /\ At(text, j - 1) \in PH
      /\ G \in SUBSET Nat
  BY <1>2, <1>4, CharAt
<1>6. \A j : j \in Char(Z, F) <=> j \in Nat /\ j - 1 \in F /\ j <= n /\ At(text, j - 1) \in Z
  BY <1>2, CharAt
<1>7. \A j : j \in hourMinute(G) <=> j \in Nat /\ j - 5 \in G /\ j <= n /\ HourMinute(text, j - 5)
  BY <1>5, HourMinuteIs
<1>8. timeOffset(F) = Char(Z, F) \cup hourMinute(G)
  BY <1>3, <1>4 DEF timeOffset
<1>9. n \in timeOffset(F) <=> \E z \in F : Ends(z)
  <2>1. ASSUME n \in Char(Z, F)
        PROVE  \E z \in F : Ends(z)
    <3>1. n - 1 \in F /\ At(text, n - 1) \in {90, 122}
      BY <1>3, <1>6, <2>1
    <3>2. n - 1 < n
      OBVIOUS
    <3> QED BY <3>1, <3>2 DEF Ends
  <2>2. ASSUME n \in hourMinute(G)
        PROVE  \E z \in F : Ends(z)
    <3>1. n - 5 \in G /\ HourMinute(text, n - 5)
      BY <1>7, <2>2
    <3>2. PICK z : z = (n - 5) - 1
      OBVIOUS
    <3>3. n - 5 \in Nat /\ z \in F /\ At(text, z) \in {Plus, Hyphen}
      BY <1>3, <1>5, <3>1, <3>2
    <3>4. z \in Nat /\ z < n /\ n - z = 6 /\ z + 1 = n - 5
      BY <1>2, <3>2, <3>3
    <3> QED BY <3>1, <3>3, <3>4 DEF Ends
  <2>3. ASSUME NEW z \in F, Ends(z)
        PROVE  n \in Char(Z, F) \cup hourMinute(G)
    <3>1. z \in Nat /\ z < n
      BY <1>2, <2>3 DEF Ends
    <3>2. CASE At(text, z) \in {90, 122} /\ z = n - 1
      BY <1>3, <1>6, <3>1, <3>2
    <3>3. CASE At(text, z) \in {Plus, Hyphen} /\ n - z = 6 /\ HourMinute(text, z + 1)
      <4>1. z + 1 \in Nat /\ (z + 1) - 1 = z /\ z + 1 <= n /\ n - 5 = z + 1
        BY <3>1, <3>3
      <4>2. z + 1 \in G
        BY <1>3, <1>5, <3>3, <4>1
      <4> QED BY <1>7, <3>3, <4>1, <4>2
    <3> QED BY <2>3, <3>2, <3>3 DEF Ends
  <2> QED BY <1>8, <2>1, <2>2, <2>3
<1> QED BY <1>1, <1>2, <1>9 DEF TimeFrom

(* parse_full_time's own end of a time, with the capital "Z" only.          *)
CapitalEnds(z) ==
  /\ z < Len(text)
  /\ \/ At(text, z) = 90 /\ z = Len(text) - 1
     \/ At(text, z) \in {Plus, Hyphen} /\ Len(text) - z = 6 /\ HourMinute(text, z + 1)

(***************************************************************************)
(* parse_full_time, field by field.                                        *)
(***************************************************************************)
LEMMA TimeFields ==
  ASSUME NEW p \in Nat
  PROVE  parse_full_time(text, p, Len(text)) <=>
           /\ Len(text) - p >= 9 /\ HourMinute(text, p) /\ At(text, p + 5) = Colon
           /\ AllDigits(text, {p + 6, p + 7}) /\ Field(text, p + 6, 2) <= 60
           /\ CapitalEnds(after_fraction(text, p + 8, Len(text)))
  BY DEF parse_full_time, CapitalEnds

(***************************************************************************)
(* What ends a time is no digit and no dot, and what a time or a date is   *)
(* made of is no "t" and no "z".                                           *)
(***************************************************************************)
LEMMA TimeBytes ==
  ASSUME NEW c
  PROVE  /\ c \in {90, 122, Plus, Hyphen} => c \notin Digit \cup {Dot}
         /\ c \in Digit \cup {90, Plus, Hyphen, Colon, Dot} => c \notin {116, 122}
<1>1. Digit = 48..57 /\ Plus = 43 /\ Hyphen = 45 /\ Colon = 58 /\ Dot = 46
  BY DEF Digit, Zero, Nine, Plus, Hyphen, Colon, Dot
<1>2. ASSUME c \in {90, 122, Plus, Hyphen}
      PROVE  c \notin Digit \cup {Dot}
  <2>1. c = 90 \/ c = 122 \/ c = 43 \/ c = 45
    BY <1>1, <1>2
  <2> QED BY <1>1, <2>1
<1>3. ASSUME c \in Digit \cup {90, Plus, Hyphen, Colon, Dot}
      PROVE  c \notin {116, 122}
  <2>1. c \in 48..57 \/ c = 90 \/ c = 43 \/ c = 45 \/ c = 58 \/ c = 46
    BY <1>1, <1>3
  <2> QED BY <2>1
<1> QED BY <1>2, <1>3

(***************************************************************************)
(* A second up to 60 is one of a minute or the leap second.                *)
(***************************************************************************)
LEMMA SecondIs ==
  ASSUME NEW p \in Nat, text \in Seq(Byte), p + 8 <= Len(text)
  PROVE  Clock(0..59, p) \/ Clock({60}, p) <=>
           /\ HourMinute(text, p) /\ At(text, p + 5) = Colon
           /\ AllDigits(text, {p + 6, p + 7}) /\ Field(text, p + 6, 2) <= 60
<1>1. PICK q \in Nat, e \in Nat : q = p + 6 /\ e = q + 2 /\ q + 1 = p + 7
  OBVIOUS
<1>2. ASSUME AllDigits(text, {p + 6, p + 7})
      PROVE  Field(text, p + 6, 2) \in Nat
  <2>1. At(text, q) \in Digit /\ At(text, q + 1) \in Digit /\ e <= Len(text)
    BY <1>1, <1>2 DEF AllDigits
  <2>2. Number(Window(text, q, e)) \in Nat
    BY <1>1, <2>1, TwoDigitNumber
  <2> QED BY <1>1, <2>2 DEF Field
<1>3. PICK d : d = Field(text, p + 6, 2)
  OBVIOUS
<1>4. d \in Nat => (d \in 0..59 \/ d \in {60} <=> d <= 60)
  OBVIOUS
<1> QED BY <1>2, <1>3, <1>4 DEF Clock

(***************************************************************************)
(* parse_full_time and full-time of RFC 3339, with a leap second in any    *)
(* minute, agree on every window that ends a text without "t" and "z".     *)
(***************************************************************************)
LEMMA TimeIs ==
  ASSUME NEW p \in 0..Len(text), text \in Seq(Byte), ~LowerCase
  PROVE  parse_full_time(text, p, Len(text)) <=> TimeFrom(0..59, p) \/ TimeFrom({60}, p)
<1> PICK n \in Nat : n = Len(text)
  OBVIOUS
<1>1. PICK zone : zone = after_fraction(text, p + 8, n)
  OBVIOUS
<1>2. p \in Nat /\ (n - p >= 9 <=> p + 9 <= n) /\ (p + 9 <= n => p + 8 <= n)
  OBVIOUS
<1>3. parse_full_time(text, p, n) <=>
        p + 9 <= n /\ (Clock(0..59, p) \/ Clock({60}, p)) /\ CapitalEnds(zone)
  BY <1>1, <1>2, TimeFields, SecondIs
<1>4. ASSUME NEW z \in Nat
      PROVE  Ends(z) <=> CapitalEnds(z)
  <2>1. z < Len(text) => At(text, z) # 122
    <3>1. z < Len(text) => z + 1 \in 1..Len(text)
      OBVIOUS
    <3> QED BY <3>1 DEF LowerCase, At
  <2> QED BY <2>1 DEF Ends, CapitalEnds
<1>5. ASSUME NEW z, Ends(z)
      PROVE  At(text, z) \notin Digit \cup {Dot}
  <2>1. At(text, z) \in {90, 122, Plus, Hyphen}
    BY <1>5 DEF Ends
  <2> QED BY <2>1, TimeBytes
<1>6. ASSUME p + 9 <= n, NEW z \in Nat, Ends(z)
      PROVE  z \in Fractions(p) <=> z = zone
  <2>1. z < Len(text)
    BY <1>6 DEF Ends
  <2> QED BY <1>1, <1>2, <1>5, <1>6, <2>1, FractionIs
<1>7. p + 9 <= n => zone \in Nat
  BY <1>1, <1>2, FractionEnds
<1>8. ASSUME NEW z \in Fractions(p), Ends(z)
      PROVE  z \in Nat /\ p + 9 <= n
  <2>1. z \in Nat /\ p + 8 <= z /\ z < n
    BY <1>2, <1>8 DEF Fractions, Ends
  <2> QED BY <1>2, <2>1
<1>9. TimeFrom(0..59, p) \/ TimeFrom({60}, p) <=>
        p + 9 <= n /\ (Clock(0..59, p) \/ Clock({60}, p)) /\ Ends(zone) /\ zone \in Fractions(p)
  BY <1>2, <1>6, <1>7, <1>8 DEF TimeFrom
<1> QED BY <1>3, <1>4, <1>6, <1>7, <1>9

(***************************************************************************)
(* DatesExact: the date format answers true of exactly the texts that are  *)
(* a full-date of RFC 3339, for every text: date.c refuses no date that    *)
(* exists and accepts none that does not.                                  *)
(***************************************************************************)
THEOREM DatesAlwaysExact == TextsSpec => []DatesExact
<1>1. TextOK => DatesExact
  <2> SUFFICES ASSUME TextOK PROVE parse_full_date(text, 0, Len(text)) <=> Whole(fullDate)
    BY DEF DatesExact, Passes
  <2>1. text \in Seq(Byte) /\ Len(text) \in 0..Len(text)
    BY DEF TextOK
  <2>2. Whole(fullDate) <=> Len(text) \in fullDate({0})
    BY DEF Whole
  <2> QED BY <2>1, <2>2, DateIs
<1> QED BY <1>1, TextsOK, PTL

(***************************************************************************)
(* A time that ends the text and is full-time, or would be with its leap   *)
(* second: where it starts.                                                *)
(***************************************************************************)
LEMMA LeapEnds ==
  ASSUME NEW i \in 0..Len(text), NEW m, text \in Seq(Byte), Len(text) \in leapTime(i, m)
  PROVE  TimeFrom({60}, i)
<1>1. PICK I : I = {i}
  OBVIOUS
<1>2. I \in SUBSET (0..Len(text)) /\ Len(text) \in timeOffset(partialTime({60}, I))
  BY <1>1 DEF leapTime, anyLeapTime
<1>3. \E p \in I : TimeFrom({60}, p)
  BY <1>2, TimeEnds
<1> QED BY <1>1, <1>3

(***************************************************************************)
(* What parse_full_time accepts has no "t" and no "z".                     *)
(***************************************************************************)
LEMMA TimeChars ==
  ASSUME NEW p \in 0..Len(text), text \in Seq(Byte), parse_full_time(text, p, Len(text)),
         NEW k \in p..(Len(text) - 1)
  PROVE  At(text, k) \notin {116, 122}
<1> PICK n \in Nat : n = Len(text)
  OBVIOUS
<1> PICK zone : zone = after_fraction(text, p + 8, n)
  OBVIOUS
<1>0. p \in Nat
  OBVIOUS
<1>1. /\ n - p >= 9 /\ HourMinute(text, p) /\ At(text, p + 5) = Colon
      /\ AllDigits(text, {p + 6, p + 7}) /\ CapitalEnds(zone)
  BY <1>0, TimeFields
<1>2. p \in Nat /\ p + 9 <= n /\ k \in Nat /\ p <= k /\ k < n
  BY <1>1
<1>3. zone \in Nat
  BY <1>2, FractionEnds
<1>4. \A c : c \in Digit \/ c \in {90, Plus, Hyphen, Colon, Dot} => c \notin {116, 122}
  BY TimeBytes
<1>5. At(text, zone) \in {90, Plus, Hyphen} /\ zone < n
  BY <1>1 DEF CapitalEnds
<1>6. At(text, zone) \notin Digit \cup {Dot}
  BY <1>5, TimeBytes
<1>7. zone \in Fractions(p)
  BY <1>2, <1>3, <1>5, <1>6, FractionIs
<1>8. ASSUME NEW q \in Nat, HourMinute(text, q), NEW j \in q..(q + 4)
      PROVE  At(text, j) \in Digit \/ At(text, j) = Colon
  <2>1. j \in {q, q + 1, q + 2, q + 3, q + 4}
    OBVIOUS
  <2> QED BY <1>8, <2>1 DEF HourMinute, AllDigits
<1>9. CASE k < p + 8
  <2>1. k \in p..(p + 4) \/ k \in {p + 5, p + 6, p + 7}
    BY <1>2, <1>9
  <2>2. At(text, k) \in Digit \/ At(text, k) = Colon
    BY <1>1, <1>2, <1>8, <2>1 DEF AllDigits
  <2> QED BY <1>4, <2>2
<1>10. CASE p + 8 <= k /\ k < zone
  <2>1. zone # p + 8
    BY <1>2, <1>3, <1>10
  <2>2. At(text, p + 8) = Dot /\ \A j \in (p + 9)..(zone - 1) : At(text, j) \in Digit
    BY <1>7, <2>1 DEF Fractions
  <2>3. k = p + 8 \/ k \in (p + 9)..(zone - 1)
    BY <1>2, <1>3, <1>10
  <2> QED BY <1>4, <2>2, <2>3
<1>11. CASE k = zone
  BY <1>4, <1>5, <1>11
<1>12. CASE zone < k
  <2>1. n - zone = 6 /\ HourMinute(text, zone + 1)
    BY <1>1, <1>2, <1>3, <1>12 DEF CapitalEnds
  <2>2. PICK q \in Nat : q = zone + 1
    BY <1>3
  <2>3. k \in q..(q + 4) /\ HourMinute(text, q)
    BY <1>2, <1>3, <1>12, <2>1, <2>2
  <2>4. At(text, k) \in Digit \/ At(text, k) = Colon
    BY <1>8, <2>3
  <2> QED BY <1>4, <2>4
<1> QED BY <1>2, <1>3, <1>9, <1>10, <1>11, <1>12

(***************************************************************************)
(* Nor has what parse_full_date accepts.                                   *)
(***************************************************************************)
LEMMA DateChars ==
  ASSUME parse_full_date(text, 0, 10), NEW k \in 0..9
  PROVE  At(text, k) \notin {116, 122}
<1>1. \A c : c \in Digit \/ c = Hyphen => c \notin {116, 122}
  BY TimeBytes
<1>2. k \in 0..3 \/ k \in {4, 5, 6, 7, 8, 9}
  OBVIOUS
<1>3. /\ AllDigits(text, 0..3) /\ At(text, 4) = Hyphen /\ AllDigits(text, {5, 6})
      /\ At(text, 7) = Hyphen /\ AllDigits(text, {8, 9})
  BY DEF parse_full_date
<1>4. At(text, k) \in Digit \/ At(text, k) = Hyphen
  <2>1. \A j \in (0..3) \cup {5, 6, 8, 9} : At(text, j) \in Digit
    BY <1>3 DEF AllDigits
  <2> QED BY <1>2, <1>3, <2>1
<1> QED BY <1>1, <1>4

(***************************************************************************)
(* A "t" or a "z" is at one of the text's positions.                       *)
(***************************************************************************)
LEMMA LowerCaseAt ==
  ASSUME text \in Seq(Byte), LowerCase
  PROVE  \E k \in 0..(Len(text) - 1) : At(text, k) \in {116, 122}
<1>1. PICK i \in 1..Len(text) : text[i] \in {116, 122}
  BY DEF LowerCase
<1>2. i - 1 \in 0..(Len(text) - 1) /\ (i - 1) + 1 = i
  OBVIOUS
<1> QED BY <1>1, <1>2 DEF At

(***************************************************************************)
(* The starts of a time after a date and "T" or "t": position 11.          *)
(***************************************************************************)
LEMMA DateTIs ==
  ASSUME NEW j, text \in Seq(Byte)
  PROVE  j \in dateT({0}) <=>
           /\ j = 11 /\ 11 <= Len(text) /\ At(text, 10) \in {84, 116}
           /\ parse_full_date(text, 0, 10)
<1> PICK n \in Nat : n = Len(text)
  OBVIOUS
<1>1. PICK I, C, D : I = Char(C, D) /\ C = {84, 116} /\ D = fullDate({0})
  OBVIOUS
<1>2. \A e : e \in D <=> e \in 0..n /\ parse_full_date(text, 0, e)
  BY <1>1, DateIs
<1>3. D \in SUBSET Nat
  BY <1>2
<1>4. j \in I <=> j \in Nat /\ j - 1 \in D /\ j <= n /\ At(text, j - 1) \in C
  BY <1>1, <1>3, CharAt
<1>5. \A e \in 0..n : parse_full_date(text, 0, e) => e = 10
  BY DEF parse_full_date
<1>6. ASSUME j \in I
      PROVE  j = 11 /\ 11 <= n /\ At(text, 10) \in C /\ parse_full_date(text, 0, 10)
  <2>1. j \in Nat /\ j <= n /\ j - 1 \in 0..n /\ parse_full_date(text, 0, j - 1) /\ At(text, j - 1) \in C
    BY <1>2, <1>4, <1>6
  <2>2. j - 1 = 10
    BY <1>5, <2>1
  <2> QED BY <2>1, <2>2
<1>7. ASSUME j = 11, 11 <= n, At(text, 10) \in C, parse_full_date(text, 0, 10)
      PROVE  j \in I
  <2>1. 10 \in D
    BY <1>2, <1>7
  <2>2. j - 1 = 10 /\ j \in Nat
    BY <1>7
  <2> QED BY <1>4, <1>7, <2>1, <2>2
<1> QED BY <1>1, <1>6, <1>7 DEF dateT

(***************************************************************************)
(* TimesExact: of the texts without "t" and "z" the time and date-time     *)
(* formats answer true of exactly those that are a full-time or a          *)
(* date-time of RFC 3339 or would be if a leap second could end any        *)
(* minute; of the others they answer false.  For every text: no fraction,  *)
(* offset, hour or day is read in another way.                             *)
(***************************************************************************)
THEOREM TimesAlwaysExact == TextsSpec => []TimesExact
<1>1. TextOK => TimesExact
  <2> SUFFICES ASSUME TextOK
               PROVE  /\ parse_full_time(text, 0, Len(text)) <=>
                           ~LowerCase /\ (Len(text) \in fullTime({0}) \/ Len(text) \in anyLeapTime({0}))
                      /\ validate_format_date_time(text) <=>
                           ~LowerCase /\ \/ Len(text) \in dateTime({0})
                                         \/ Len(text) \in anyLeapTime(dateT({0}))
    BY DEF TimesExact, Passes, Whole
  <2> PICK n \in Nat : n = Len(text)
    BY DEF TextOK
  <2>1. text \in Seq(Byte)
    BY DEF TextOK
  <2>2. ASSUME NEW I, I \in SUBSET (0..Len(text)), ~LowerCase
        PROVE  /\ n \in timeOffset(partialTime(0..59, I)) \/ n \in anyLeapTime(I) <=>
                    \E p \in I : parse_full_time(text, p, n)
               /\ \A i \in I : \A m : n \in leapTime(i, m) => n \in anyLeapTime(I)
    <3>1. n \in timeOffset(partialTime(0..59, I)) <=> \E p \in I : TimeFrom(0..59, p)
      BY <2>1, <2>2, TimeEnds
    <3>2. n \in anyLeapTime(I) <=> \E p \in I : TimeFrom({60}, p)
      BY <2>1, <2>2, TimeEnds DEF anyLeapTime
    <3>3. \A p \in I : p \in 0..Len(text)
      BY <2>2
    <3>4. \A p \in I : parse_full_time(text, p, n) <=> TimeFrom(0..59, p) \/ TimeFrom({60}, p)
      BY <2>1, <2>2, <3>3, TimeIs
    <3>5. \A i \in I : \A m : n \in leapTime(i, m) => TimeFrom({60}, i)
      BY <2>1, <3>3, LeapEnds
    <3> QED BY <3>1, <3>2, <3>4, <3>5
  <2>3. ~LowerCase => (n \in fullTime({0}) \/ n \in anyLeapTime({0}) <=> parse_full_time(text, 0, n))
    <3> SUFFICES ASSUME ~LowerCase
                 PROVE  n \in fullTime({0}) \/ n \in anyLeapTime({0}) <=> parse_full_time(text, 0, n)
      OBVIOUS
    <3>1. PICK I : I = {0}
      OBVIOUS
    <3>2. I \in SUBSET (0..Len(text))
      BY <3>1
    <3>3. PICK m : m = {-1, 1439}
      OBVIOUS
    <3>4. n \in fullTime(I) <=>
            \/ n \in timeOffset(partialTime(0..59, I))
            \/ \E i \in I : n \in leapTime(i, m)
      BY <3>3 DEF fullTime
    <3>5. \A i \in I : n \in leapTime(i, m) => n \in anyLeapTime(I)
      BY <2>2, <3>2
    <3>6. n \in timeOffset(partialTime(0..59, I)) \/ n \in anyLeapTime(I) <=>
            \E p \in I : parse_full_time(text, p, n)
      BY <2>2, <3>2
    <3>7. n \in fullTime(I) \/ n \in anyLeapTime(I) <=> \E p \in I : parse_full_time(text, p, n)
      BY <3>4, <3>5, <3>6
    <3> QED BY <3>1, <3>7
  <2>4. ASSUME parse_full_time(text, 0, n)
        PROVE  ~LowerCase
    BY <2>1, <2>4, TimeChars, LowerCaseAt
  <2>5. PICK I : I = dateT({0})
    OBVIOUS
  <2>6. \A j : j \in I <=> /\ j = 11 /\ 11 <= n /\ At(text, 10) \in {84, 116}
                           /\ parse_full_date(text, 0, 10)
    BY <2>1, <2>5, DateTIs
  <2>7. I \in SUBSET (0..Len(text))
    BY <2>6
  <2>8. n \in dateTime({0}) <=> \/ n \in timeOffset(partialTime(0..59, I))
                                \/ \E i \in I : n \in leapTime(i, MonthEnds(i))
    BY <2>5 DEF dateTime
  <2>9. ~LowerCase =>
          (n \in dateTime({0}) \/ n \in anyLeapTime(I) <=> \E p \in I : parse_full_time(text, p, n))
    BY <2>2, <2>7, <2>8
  <2>10. ~LowerCase /\ 11 <= n => At(text, 10) # 116
    <3>1. 11 <= n => 11 \in 1..Len(text)
      OBVIOUS
    <3> QED BY <3>1 DEF LowerCase, At
  <2>11. ~LowerCase =>
           (n \in dateTime({0}) \/ n \in anyLeapTime(I) <=>
              11 <= n /\ At(text, 10) = 84 /\ parse_full_date(text, 0, 10) /\ parse_full_time(text, 11, n))
    BY <2>6, <2>9, <2>10
  <2>12. /\ parse_full_time(text, 11, n) => n >= 12
         /\ n >= 12 => 11 <= n
    BY DEF parse_full_time
  <2>13. validate_format_date_time(text) <=>
           n >= 12 /\ At(text, 10) = 84 /\ parse_full_date(text, 0, 10) /\ parse_full_time(text, 11, n)
    BY DEF validate_format_date_time
  <2>14. ASSUME validate_format_date_time(text)
         PROVE  ~LowerCase
    <3> SUFFICES ASSUME NEW k \in 0..(n - 1) PROVE At(text, k) \notin {116, 122}
      BY <2>1, LowerCaseAt
    <3>1. k \in 0..9 \/ k = 10 \/ k \in 11..(n - 1)
      OBVIOUS
    <3>2. 11 \in 0..Len(text)
      BY <2>13, <2>14
    <3> QED BY <2>1, <2>13, <2>14, <3>1, <3>2, DateChars, TimeChars
  <2> QED BY <2>3, <2>4, <2>5, <2>11, <2>12, <2>13, <2>14
<1> QED BY <1>1, TextsOK, PTL

-----------------------------------------------------------------------------

(***************************************************************************)
(* The dotted addresses (ip_parser.c).                                     *)
(***************************************************************************)

(***************************************************************************)
(* What one digit says.                                                    *)
(***************************************************************************)
LEMMA NumberOne ==
  ASSUME NEW s, Len(s) = 1, s[1] \in Digit
  PROVE  Number(s) = s[1] - Zero
<1> DEFINE w == [i \in 0..1 |-> IF i = 0 THEN 0 ELSE s[1] - Zero]
           value == CHOOSE v : v = [i \in 0..1 |-> IF i = 0 THEN 0 ELSE v[i - 1] * 10 + (s[i] - Zero)]
<1>1. s[1] \in Int /\ Zero = 48
  BY DEF Digit, Zero, Nine
<1>2. w = [i \in 0..1 |-> IF i = 0 THEN 0 ELSE w[i - 1] * 10 + (s[i] - Zero)]
  BY <1>1
<1>3. value = [i \in 0..1 |-> IF i = 0 THEN 0 ELSE value[i - 1] * 10 + (s[i] - Zero)]
  BY <1>2
<1> HIDE DEF value
<1>4. value[0] = 0 /\ value[1] = value[0] * 10 + (s[1] - Zero)
  BY <1>3
<1>5. Number(s) = value[1]
  BY DEF Number, value
<1> QED BY <1>1, <1>4, <1>5

(***************************************************************************)
(* What three digits say.                                                  *)
(***************************************************************************)
LEMMA NumberThree ==
  ASSUME NEW s, Len(s) = 3, s[1] \in Digit, s[2] \in Digit, s[3] \in Digit
  PROVE  Number(s) = ((s[1] - Zero) * 10 + (s[2] - Zero)) * 10 + (s[3] - Zero)
<1> DEFINE next(n, i) == n * 10 + (s[i] - Zero)
           a == next(0, 1)
           b == next(a, 2)
           w == [i \in 0..3 |-> IF i = 0 THEN 0 ELSE IF i = 1 THEN a ELSE IF i = 2 THEN b ELSE next(b, 3)]
           value == CHOOSE v : v = [i \in 0..3 |-> IF i = 0 THEN 0 ELSE v[i - 1] * 10 + (s[i] - Zero)]
<1>1. s[1] \in Int /\ s[2] \in Int /\ s[3] \in Int /\ Zero = 48
  BY DEF Digit, Zero, Nine
<1>2. w = [i \in 0..3 |-> IF i = 0 THEN 0 ELSE w[i - 1] * 10 + (s[i] - Zero)]
  OBVIOUS
<1>3. value = [i \in 0..3 |-> IF i = 0 THEN 0 ELSE value[i - 1] * 10 + (s[i] - Zero)]
  BY <1>2
<1> HIDE DEF value
<1>4. /\ value[0] = 0 /\ value[1] = value[0] * 10 + (s[1] - Zero)
      /\ value[2] = value[1] * 10 + (s[2] - Zero)
      /\ value[3] = value[2] * 10 + (s[3] - Zero)
  BY <1>3
<1>5. Number(s) = value[3]
  BY DEF Number, value
<1>6. value[1] = s[1] - Zero
  BY <1>1, <1>4
<1> QED BY <1>4, <1>5, <1>6

(***************************************************************************)
(* One step of the recursion that reads a digit.                           *)
(***************************************************************************)
LEMMA DigitsOne ==
  ASSUME NEW R, NEW I
  PROVE  Digits(1, R, I) = {j \in Char(Digit, I) : Number(Window(text, j - 1, j)) \in R}
<1> DEFINE w == [k \in 0..1 |-> IF k = 0 THEN I ELSE Char(Digit, I)]
           after == CHOOSE a : a = [k \in 0..1 |-> IF k = 0 THEN I ELSE Char(Digit, a[k - 1])]
<1>1. w = [k \in 0..1 |-> IF k = 0 THEN I ELSE Char(Digit, w[k - 1])]
  OBVIOUS
<1>2. after = [k \in 0..1 |-> IF k = 0 THEN I ELSE Char(Digit, after[k - 1])]
  BY <1>1
<1> HIDE DEF after
<1>3. after[1] = Char(Digit, I)
  BY <1>2
<1>4. Digits(1, R, I) = {j \in after[1] : Number(Window(text, j - 1, j)) \in R}
  BY DEF Digits, Times, after
<1> QED BY <1>3, <1>4

(***************************************************************************)
(* The three steps of the recursion that reads three digits.               *)
(***************************************************************************)
LEMMA DigitsThree ==
  ASSUME NEW R, NEW I
  PROVE  Digits(3, R, I) = {j \in Char(Digit, Char(Digit, Char(Digit, I))) :
                              Number(Window(text, j - 3, j)) \in R}
<1> DEFINE A(J) == Char(Digit, J)
           w == [k \in 0..3 |-> IF k = 0 THEN I ELSE IF k = 1 THEN A(I) ELSE IF k = 2 THEN A(A(I))
                                ELSE A(A(A(I)))]
           after == CHOOSE a : a = [k \in 0..3 |-> IF k = 0 THEN I ELSE Char(Digit, a[k - 1])]
<1>1. w = [k \in 0..3 |-> IF k = 0 THEN I ELSE Char(Digit, w[k - 1])]
  OBVIOUS
<1>2. after = [k \in 0..3 |-> IF k = 0 THEN I ELSE Char(Digit, after[k - 1])]
  BY <1>1
<1> HIDE DEF after
<1>3. after[3] = A(A(A(I)))
  BY <1>2
<1>4. Digits(3, R, I) = {j \in after[3] : Number(Window(text, j - 3, j)) \in R}
  BY DEF Digits, Times, after
<1> QED BY <1>3, <1>4

(***************************************************************************)
(* The ends of three digits.                                               *)
(***************************************************************************)
LEMMA ThreeChars ==
  ASSUME NEW I \in SUBSET Nat, NEW j, text \in Seq(Byte)
  PROVE  /\ j \in Char(Digit, Char(Digit, Char(Digit, I))) <=>
              /\ j \in Nat /\ j - 3 \in I /\ j <= Len(text)
              /\ At(text, j - 3) \in Digit /\ At(text, j - 2) \in Digit /\ At(text, j - 1) \in Digit
         /\ Char(Digit, Char(Digit, Char(Digit, I))) \in SUBSET Nat
<1>1. PICK J : J = Char(Digit, I)
  OBVIOUS
<1>2. PICK K : K = Char(Digit, J)
  OBVIOUS
<1>3. J \in SUBSET Nat /\ \A k : k \in J <=> k \in Nat /\ k - 1 \in I /\ k <= Len(text) /\ At(text, k - 1) \in Digit
  BY <1>1, CharAt
<1>4. K \in SUBSET Nat /\ \A k : k \in K <=> k \in Nat /\ k - 1 \in J /\ k <= Len(text) /\ At(text, k - 1) \in Digit
  BY <1>2, <1>3, CharAt
<1>5. /\ Char(Digit, K) \in SUBSET Nat
      /\ j \in Char(Digit, K) <=> j \in Nat /\ j - 1 \in K /\ j <= Len(text) /\ At(text, j - 1) \in Digit
  BY <1>4, CharAt
<1>6. ASSUME j \in Nat, j <= Len(text)
      PROVE  j - 1 \in K <=> j - 3 \in I /\ At(text, j - 3) \in Digit /\ At(text, j - 2) \in Digit
  <2>1. (j - 1) - 1 = j - 2 /\ ((j - 1) - 1) - 1 = j - 3 /\ Len(text) \in Nat
    BY <1>6
  <2>2. j - 1 \in K <=> j - 1 \in Nat /\ j - 2 \in J /\ j - 1 <= Len(text) /\ At(text, j - 2) \in Digit
    BY <1>4, <2>1
  <2>3. j - 2 \in J <=> j - 2 \in Nat /\ j - 3 \in I /\ j - 2 <= Len(text) /\ At(text, j - 3) \in Digit
    <3>1. PICK k : k = j - 2
      OBVIOUS
    <3>2. k - 1 = j - 3
      BY <1>6, <3>1
    <3> QED BY <1>3, <3>1, <3>2
  <2>4. j - 3 \in I => j - 2 \in Nat /\ j - 1 \in Nat
    BY <1>6
  <2> QED BY <1>6, <2>1, <2>2, <2>3, <2>4
<1> QED BY <1>1, <1>2, <1>5, <1>6

(* A decimal octet of RFC 3986 from i to j.                                *)
Octet(i, j) ==
  /\ j \in Nat /\ j <= Len(text)
  /\ \/ j = i + 1 /\ At(text, i) \in Digit
     \/ j = i + 2 /\ At(text, i) \in Digit \ {Zero} /\ At(text, i + 1) \in Digit
     \/ /\ j = i + 3 /\ At(text, i) \in Digit \ {Zero}
        /\ At(text, i + 1) \in Digit /\ At(text, i + 2) \in Digit
        /\ Number(Window(text, i, j)) <= 255

(***************************************************************************)
(* What a window of one, two or three digits says.                         *)
(***************************************************************************)
LEMMA NumberIs ==
  ASSUME NEW i \in Nat, NEW j \in Nat, text \in Seq(Byte), j <= Len(text), At(text, i) \in Digit
  PROVE  /\ j = i + 1 => Number(Window(text, i, j)) = At(text, i) - Zero
         /\ j = i + 2 /\ At(text, i + 1) \in Digit =>
              Number(Window(text, i, j)) = (At(text, i) - Zero) * 10 + (At(text, i + 1) - Zero)
         /\ j = i + 3 /\ At(text, i + 1) \in Digit /\ At(text, i + 2) \in Digit =>
              Number(Window(text, i, j)) =
                ((At(text, i) - Zero) * 10 + (At(text, i + 1) - Zero)) * 10 + (At(text, i + 2) - Zero)
<1> PICK s : s = Window(text, i, j)
  OBVIOUS
<1>1. i <= j => Len(s) = j - i /\ \A k \in 1..(j - i) : s[k] = At(text, i + k - 1)
  BY WindowHas
<1>2. i + 1 - 1 = i /\ i + 2 - 1 = i + 1 /\ i + 3 - 1 = i + 2
  OBVIOUS
<1>3. ASSUME j = i + 1
      PROVE  Number(s) = At(text, i) - Zero
  <2>1. Len(s) = 1 /\ s[1] = At(text, i)
    BY <1>1, <1>2, <1>3
  <2> QED BY <2>1, NumberOne
<1>4. ASSUME j = i + 2, At(text, i + 1) \in Digit
      PROVE  Number(s) = (At(text, i) - Zero) * 10 + (At(text, i + 1) - Zero)
  <2>1. Len(s) = 2 /\ s[1] = At(text, i) /\ s[2] = At(text, i + 1)
    BY <1>1, <1>2, <1>4
  <2> QED BY <1>4, <2>1, NumberTwo
<1>5. ASSUME j = i + 3, At(text, i + 1) \in Digit, At(text, i + 2) \in Digit
      PROVE  Number(s) = ((At(text, i) - Zero) * 10 + (At(text, i + 1) - Zero)) * 10 + (At(text, i + 2) - Zero)
  <2>1. Len(s) = 3 /\ s[1] = At(text, i) /\ s[2] = At(text, i + 1) /\ s[3] = At(text, i + 2)
    BY <1>1, <1>2, <1>5
  <2> QED BY <1>5, <2>1, NumberThree
<1> QED BY <1>3, <1>4, <1>5

(***************************************************************************)
(* The value of a digit, and the digit whose value is zero.                *)
(***************************************************************************)
LEMMA DigitValues ==
  /\ \A c \in Digit : c - Zero \in 0..9
  /\ \A c \in Digit : c = Zero <=> c - Zero = 0
BY DEF Digit, Zero, Nine

(***************************************************************************)
(* The ends of dec-octet of the grammar are the ends of an octet.          *)
(***************************************************************************)
LEMMA DecOctetIs ==
  ASSUME NEW I \in SUBSET Nat, NEW j, text \in Seq(Byte)
  PROVE  /\ j \in decOctet(I) <=> \E i \in I : Octet(i, j)
         /\ decOctet(I) \in SUBSET Nat
<1> DEFINE Ones == Digits(1, 0..9, I)
           Twos == Digits(2, 10..99, I)
           Threes == Digits(3, 100..255, I)
<1>1. PICK r, t, h : r = 0..9 /\ t = 10..99 /\ h = 100..255
  OBVIOUS
<1>2. /\ Ones \in SUBSET Nat
      /\ j \in Ones <=> /\ j \in Nat /\ j - 1 \in I /\ j <= Len(text) /\ At(text, j - 1) \in Digit
                       /\ Number(Window(text, j - 1, j)) \in r
  <2>1. Ones = {m \in Char(Digit, I) : Number(Window(text, m - 1, m)) \in r}
    BY <1>1, DigitsOne
  <2>2. /\ Char(Digit, I) \in SUBSET Nat
        /\ j \in Char(Digit, I) <=> j \in Nat /\ j - 1 \in I /\ j <= Len(text) /\ At(text, j - 1) \in Digit
    BY CharAt
  <2> HIDE DEF Ones
  <2> QED BY <2>1, <2>2
<1>3. /\ Twos \in SUBSET Nat
      /\ j \in Twos <=> /\ j \in Nat /\ j - 2 \in I /\ j <= Len(text)
                       /\ At(text, j - 2) \in Digit /\ At(text, j - 1) \in Digit
                       /\ Number(Window(text, j - 2, j)) \in t
  BY <1>1, TwoDigits
<1>4. /\ Threes \in SUBSET Nat
      /\ j \in Threes <=> /\ j \in Nat /\ j - 3 \in I /\ j <= Len(text)
                         /\ At(text, j - 3) \in Digit /\ At(text, j - 2) \in Digit /\ At(text, j - 1) \in Digit
                         /\ Number(Window(text, j - 3, j)) \in h
  <2>1. Threes = {m \in Char(Digit, Char(Digit, Char(Digit, I))) : Number(Window(text, m - 3, m)) \in h}
    BY <1>1, DigitsThree
  <2> HIDE DEF Threes
  <2> QED BY <2>1, ThreeChars
<1>5. decOctet(I) = Ones \cup Twos \cup Threes
  BY DEF decOctet
<1> HIDE DEF Ones, Twos, Threes
<1>6. ASSUME NEW i \in I, j = i + 1
      PROVE  j \in Ones <=> Octet(i, j)
  <2>1. i \in Nat /\ j - 1 = i /\ j \in Nat
    BY <1>6
  <2>2. Octet(i, j) <=> j <= Len(text) /\ At(text, i) \in Digit
    BY <1>6, <2>1 DEF Octet
  <2>3. ASSUME j <= Len(text), At(text, i) \in Digit
        PROVE  Number(Window(text, i, j)) \in 0..9
    BY <1>6, <2>1, <2>3, NumberIs, DigitValues
  <2> QED BY <1>1, <1>2, <2>1, <2>2, <2>3
<1>7. ASSUME NEW i \in I, j = i + 2
      PROVE  j \in Twos <=> Octet(i, j)
  <2>1. i \in Nat /\ j - 2 = i /\ j - 1 = i + 1 /\ j \in Nat
    BY <1>7
  <2>2. Octet(i, j) <=> j <= Len(text) /\ At(text, i) \in Digit \ {Zero} /\ At(text, i + 1) \in Digit
    BY <1>7, <2>1 DEF Octet
  <2>3. ASSUME j <= Len(text), At(text, i) \in Digit, At(text, i + 1) \in Digit
        PROVE  Number(Window(text, i, j)) \in 10..99 <=> At(text, i) # Zero
    <3>1. Number(Window(text, i, j)) = (At(text, i) - Zero) * 10 + (At(text, i + 1) - Zero)
      BY <1>7, <2>1, <2>3, NumberIs
    <3>2. PICK a \in 0..9, b \in 0..9 : a = At(text, i) - Zero /\ b = At(text, i + 1) - Zero
      BY <2>3, DigitValues
    <3>3. At(text, i) # Zero <=> a # 0
      BY <2>3, <3>2, DigitValues
    <3>4. a * 10 + b \in 10..99 <=> a # 0
      OBVIOUS
    <3> QED BY <3>1, <3>2, <3>3, <3>4
  <2> QED BY <1>1, <1>3, <2>1, <2>2, <2>3
<1>8. ASSUME NEW i \in I, j = i + 3
      PROVE  j \in Threes <=> Octet(i, j)
  <2>1. i \in Nat /\ j - 3 = i /\ j - 2 = i + 1 /\ j - 1 = i + 2 /\ j \in Nat
    BY <1>8
  <2>2. Octet(i, j) <=> /\ j <= Len(text) /\ At(text, i) \in Digit \ {Zero}
                        /\ At(text, i + 1) \in Digit /\ At(text, i + 2) \in Digit
                        /\ Number(Window(text, i, j)) <= 255
    BY <1>8, <2>1 DEF Octet
  <2>3. ASSUME j <= Len(text), At(text, i) \in Digit, At(text, i + 1) \in Digit, At(text, i + 2) \in Digit
        PROVE  Number(Window(text, i, j)) \in 100..255 <=>
                 At(text, i) # Zero /\ Number(Window(text, i, j)) <= 255
    <3>1. Number(Window(text, i, j)) =
            ((At(text, i) - Zero) * 10 + (At(text, i + 1) - Zero)) * 10 + (At(text, i + 2) - Zero)
      BY <1>8, <2>1, <2>3, NumberIs
    <3>2. PICK a \in 0..9, b \in 0..9, c \in 0..9 :
            a = At(text, i) - Zero /\ b = At(text, i + 1) - Zero /\ c = At(text, i + 2) - Zero
      BY <2>3, DigitValues
    <3>3. At(text, i) # Zero <=> a # 0
      BY <2>3, <3>2, DigitValues
    <3>4. (a * 10 + b) * 10 + c \in 100..255 <=> a # 0 /\ (a * 10 + b) * 10 + c <= 255
      OBVIOUS
    <3>5. Number(Window(text, i, j)) = (a * 10 + b) * 10 + c
      BY <3>1, <3>2
    <3> QED BY <3>3, <3>4, <3>5
  <2> QED BY <1>1, <1>4, <2>1, <2>2, <2>3
<1>9. \A i \in I : Octet(i, j) => j = i + 1 \/ j = i + 2 \/ j = i + 3
  BY DEF Octet
<1>10. /\ j \in Ones => j - 1 \in I /\ j = (j - 1) + 1
       /\ j \in Twos => j - 2 \in I /\ j = (j - 2) + 2
       /\ j \in Threes => j - 3 \in I /\ j = (j - 3) + 3
  BY <1>2, <1>3, <1>4
<1>11. ASSUME j \in Ones \cup Twos \cup Threes
       PROVE  \E i \in I : Octet(i, j)
  BY <1>6, <1>7, <1>8, <1>10, <1>11
<1>12. ASSUME NEW i \in I, Octet(i, j)
       PROVE  j \in Ones \cup Twos \cup Threes
  BY <1>6, <1>7, <1>8, <1>9, <1>12
<1>13. Ones \cup Twos \cup Threes \in SUBSET Nat
  BY <1>2, <1>3, <1>4
<1> QED BY <1>5, <1>11, <1>12, <1>13

(***************************************************************************)
(* dec_octet takes all the digits there are, the grammar as few as it      *)
(* likes: before a character that is no digit, or the end, they agree. A   *)
(* fourth digit, a leading zero or a number above 255 fails in both.       *)
(***************************************************************************)
LEMMA OctetIs ==
  ASSUME NEW p \in 0..Len(text), NEW j \in 0..Len(text), text \in Seq(Byte), p < j,
         j = Len(text) \/ At(text, j) \notin Digit
  PROVE  Octet(p, j) <=> dec_octet(text, p, Len(text)) = j
<1> PICK n \in Nat : n = Len(text)
  OBVIOUS
<1>1. n \in 0..Len(text) /\ p \in 0..n /\ p \in Nat /\ j \in Nat
  OBVIOUS
<1>2. PICK run \in p..n :
         /\ Skip(text, p, n, Digit) = run
         /\ run = n \/ At(text, run) \notin Digit
         /\ \A k \in p..(run - 1) : At(text, k) \in Digit
  BY <1>1, SkipIs
<1>3. PICK stop : stop = IF run > p + 3 THEN p + 3 ELSE run
  OBVIOUS
<1>4. dec_octet(text, p, n) =
        IF /\ run > p /\ ~(At(text, p) = Zero /\ run > p + 1)
           /\ Number(Window(text, p, stop)) <= 255
        THEN stop ELSE p
  BY <1>2, <1>3 DEF dec_octet
<1>5. ASSUME \A k \in p..(j - 1) : At(text, k) \in Digit
      PROVE  run = j
  <2>1. CASE run < j
    <3>1. run \in p..(j - 1) /\ run # n
      BY <1>1, <2>1
    <3> QED BY <1>2, <1>5, <3>1
  <2>2. CASE j < run
    <3>1. j \in p..(run - 1) /\ j # n
      BY <1>1, <2>2
    <3> QED BY <1>2, <3>1
  <2> QED BY <1>1, <2>1, <2>2
<1>6. ASSUME Octet(p, j)
      PROVE  dec_octet(text, p, n) = j
  <2>1. \A k \in p..(j - 1) : At(text, k) \in Digit
    <3> TAKE k \in p..(j - 1)
    <3>1. CASE j = p + 1
      <4>1. k = p
        BY <3>1
      <4> QED BY <1>6, <3>1, <4>1 DEF Octet
    <3>2. CASE j = p + 2
      <4>1. k = p \/ k = p + 1
        BY <3>2
      <4> QED BY <1>6, <3>2, <4>1 DEF Octet
    <3>3. CASE j = p + 3
      <4>1. k = p \/ k = p + 1 \/ k = p + 2
        BY <3>3
      <4> QED BY <1>6, <3>3, <4>1 DEF Octet
    <3> QED BY <1>6, <3>1, <3>2, <3>3 DEF Octet
  <2>2. run = j
    BY <1>5, <2>1
  <2>3. j = p + 1 \/ j = p + 2 \/ j = p + 3
    BY <1>6 DEF Octet
  <2>4. stop = j
    BY <1>1, <1>3, <2>2, <2>3
  <2>5. ~(At(text, p) = Zero /\ run > p + 1)
    BY <1>1, <1>6, <2>2 DEF Octet
  <2>6. Number(Window(text, p, j)) <= 255
    <3>1. CASE j = p + 1
      <4>1. At(text, p) \in Digit
        BY <1>6 DEF Octet
      <4> QED BY <1>1, <3>1, <4>1, NumberIs, DigitValues
    <3>2. CASE j = p + 2
      <4>1. At(text, p) \in Digit /\ At(text, p + 1) \in Digit
        BY <1>6, <3>2 DEF Octet
      <4>2. Number(Window(text, p, j)) = (At(text, p) - Zero) * 10 + (At(text, p + 1) - Zero)
        BY <1>1, <3>2, <4>1, NumberIs
      <4>3. PICK a \in 0..9, b \in 0..9 : a = At(text, p) - Zero /\ b = At(text, p + 1) - Zero
        BY <4>1, DigitValues
      <4>4. a * 10 + b <= 255
        OBVIOUS
      <4> QED BY <4>2, <4>3, <4>4
    <3>3. CASE j = p + 3
      BY <1>6, <3>3 DEF Octet
    <3> QED BY <2>3, <3>1, <3>2, <3>3
  <2> QED BY <1>1, <1>4, <2>2, <2>4, <2>5, <2>6
<1>7. ASSUME dec_octet(text, p, n) = j
      PROVE  Octet(p, j)
  <2>1. /\ j # p /\ run > p /\ ~(At(text, p) = Zero /\ run > p + 1)
        /\ Number(Window(text, p, stop)) <= 255 /\ j = stop
    BY <1>1, <1>4, <1>7
  <2>2. j = run
    <3>1. CASE run > p + 3
      <4>1. j = p + 3 /\ j \in p..(run - 1) /\ j # n
        BY <1>1, <1>3, <2>1, <3>1
      <4> QED BY <1>2, <4>1
    <3> QED BY <1>3, <2>1, <3>1
  <2>3. j = p + 1 \/ j = p + 2 \/ j = p + 3
    BY <1>1, <1>3, <2>1, <2>2
  <2>4. p \in p..(run - 1) /\ (j = p + 2 => p + 1 \in p..(run - 1))
        /\ (j = p + 3 => p + 1 \in p..(run - 1) /\ p + 2 \in p..(run - 1))
    BY <1>1, <2>2, <2>3
  <2>5. At(text, p) \in Digit /\ (j # p + 1 => At(text, p) # Zero)
    BY <1>1, <1>2, <2>1, <2>2, <2>3, <2>4
  <2>6. j \in Nat /\ j <= Len(text)
    OBVIOUS
  <2>7. CASE j = p + 1
    BY <2>5, <2>6, <2>7 DEF Octet
  <2>8. CASE j = p + 2
    BY <1>1, <1>2, <2>4, <2>5, <2>6, <2>8 DEF Octet
  <2>9. CASE j = p + 3
    BY <1>1, <1>2, <2>1, <2>4, <2>5, <2>6, <2>9 DEF Octet
  <2> QED BY <2>3, <2>7, <2>8, <2>9
<1> QED BY <1>6, <1>7

(* An octet and a dot, as the parser reads them: from p to the next octet. *)
Dotted(p, q) ==
  LET stop == dec_octet(text, p, Len(text))
  IN  stop > p /\ stop < Len(text) /\ At(text, stop) = Dot /\ q = stop + 1

(***************************************************************************)
(* dec_octet stays in the text.                                            *)
(***************************************************************************)
LEMMA OctetEnds ==
  ASSUME NEW p \in 0..Len(text), text \in Seq(Byte)
  PROVE  dec_octet(text, p, Len(text)) \in p..Len(text)
<1> PICK n \in Nat : n = Len(text)
  OBVIOUS
<1>1. n \in 0..Len(text) /\ p \in 0..n
  OBVIOUS
<1>2. PICK run \in p..n :
         /\ Skip(text, p, n, Digit) = run
         /\ run = n \/ At(text, run) \notin Digit
         /\ \A k \in p..(run - 1) : At(text, k) \in Digit
  BY <1>1, SkipIs
<1>3. dec_octet(text, p, n) \in {p, p + 3, run} /\ (dec_octet(text, p, n) = p + 3 => run > p + 3 \/ run = p + 3)
  BY <1>1, <1>2 DEF dec_octet
<1> QED BY <1>1, <1>3

(***************************************************************************)
(* The ends of an octet and a dot, in the grammar and in the parser.       *)
(***************************************************************************)
LEMMA DottedIs ==
  ASSUME NEW I, I \in SUBSET (0..Len(text)), NEW k, text \in Seq(Byte)
  PROVE  /\ k \in dot(decOctet(I)) <=> \E p \in I : Dotted(p, k)
         /\ dot(decOctet(I)) \in SUBSET (0..Len(text))
<1> PICK n \in Nat : n = Len(text)
  OBVIOUS
<1>1. PICK C, O : C = {Dot} /\ O = decOctet(I)
  OBVIOUS
<1>2. I \in SUBSET Nat
  OBVIOUS
<1>3. O \in SUBSET Nat /\ \A j : j \in O <=> \E i \in I : Octet(i, j)
  BY <1>1, <1>2, DecOctetIs
<1>4. \A m : m \in Char(C, O) <=> m \in Nat /\ m - 1 \in O /\ m <= n /\ At(text, m - 1) \in C
  BY <1>3, CharAt
<1>5. Dot \notin Digit
  BY DEF Dot, Digit, Zero, Nine
<1>6. ASSUME NEW p \in I, NEW j \in Nat, j < n, At(text, j) = Dot
      PROVE  Octet(p, j) <=> dec_octet(text, p, n) = j /\ j > p
  <2>1. p \in 0..Len(text) /\ j \in 0..Len(text) /\ p \in Nat
    BY <1>6
  <2>2. CASE p < j
    <3>1. j = Len(text) \/ At(text, j) \notin Digit
      BY <1>5, <1>6
    <3> QED BY <2>1, <2>2, <3>1, OctetIs
  <2>3. Octet(p, j) => p < j
    BY <2>1 DEF Octet
  <2> QED BY <2>1, <2>2, <2>3
<1>7. ASSUME k \in Char(C, O)
      PROVE  \E p \in I : Dotted(p, k)
  <2>1. k \in Nat /\ k - 1 \in O /\ k <= n /\ At(text, k - 1) = Dot
    BY <1>1, <1>4, <1>7
  <2>2. PICK j \in Nat : j = k - 1
    BY <1>3, <2>1
  <2>3. PICK p \in I : Octet(p, j)
    BY <1>3, <2>1, <2>2
  <2>4. j < n /\ At(text, j) = Dot /\ k = j + 1
    BY <2>1, <2>2
  <2>5. dec_octet(text, p, n) = j /\ j > p
    BY <1>6, <2>3, <2>4
  <2> QED BY <2>4, <2>5 DEF Dotted
<1>8. ASSUME NEW p \in I, Dotted(p, k)
      PROVE  k \in Char(C, O)
  <2>1. PICK j : j = dec_octet(text, p, n)
    OBVIOUS
  <2>2. j \in Nat
    BY <2>1, OctetEnds
  <2>3. j > p /\ j < n /\ At(text, j) = Dot /\ k = j + 1
    BY <1>8, <2>1 DEF Dotted
  <2>4. Octet(p, j)
    BY <1>6, <2>1, <2>2, <2>3
  <2>5. j \in O /\ k - 1 = j /\ k \in Nat /\ k <= n
    BY <1>3, <2>2, <2>3, <2>4
  <2> QED BY <1>1, <1>4, <2>3, <2>5
<1>9. Char(C, O) \in SUBSET (0..n)
  BY <1>4
<1> QED BY <1>1, <1>7, <1>8, <1>9 DEF dot

(***************************************************************************)
(* The last octet ends with the text.                                      *)
(***************************************************************************)
LEMMA LastOctet ==
  ASSUME NEW I, I \in SUBSET (0..Len(text)), text \in Seq(Byte)
  PROVE  Len(text) \in decOctet(I) <=>
           \E p \in I : dec_octet(text, p, Len(text)) > p /\ dec_octet(text, p, Len(text)) = Len(text)
<1> PICK n \in Nat : n = Len(text)
  OBVIOUS
<1>1. I \in SUBSET Nat
  OBVIOUS
<1>2. n \in decOctet(I) <=> \E i \in I : Octet(i, n)
  BY <1>1, DecOctetIs
<1>3. ASSUME NEW p \in I
      PROVE  Octet(p, n) <=> dec_octet(text, p, n) > p /\ dec_octet(text, p, n) = n
  <2>1. p \in 0..Len(text) /\ n \in 0..Len(text) /\ p \in Nat
    OBVIOUS
  <2>2. CASE p < n
    <3>1. Octet(p, n) <=> dec_octet(text, p, Len(text)) = n
      BY <2>1, <2>2, OctetIs
    <3> QED BY <2>1, <2>2, <3>1
  <2>3. Octet(p, n) => p < n
    BY <2>1 DEF Octet
  <2> QED BY <2>1, <2>2, <2>3
<1> QED BY <1>2, <1>3

(***************************************************************************)
(* The recursion of parse_ipv4, unfolded: three octets with a dot and one  *)
(* without.                                                                *)
(***************************************************************************)
LEMMA OctetsAre ==
  ASSUME text \in Seq(Byte), NEW z \in 0..Len(text)
  PROVE  parse_ipv4(text, z, Len(text)) <=>
           \E a \in 0..Len(text), b \in 0..Len(text), c \in 0..Len(text) :
             /\ Dotted(z, a) /\ Dotted(a, b) /\ Dotted(b, c)
             /\ dec_octet(text, c, Len(text)) > c /\ dec_octet(text, c, Len(text)) = Len(text)
<1> PICK n \in Nat : n = Len(text)
  OBVIOUS
<1> DEFINE N(p) == dec_octet(text, p, n)
           L3(p) == N(p) > p /\ N(p) = n
           L2(p) == N(p) > p /\ N(p) < n /\ At(text, N(p)) = Dot /\ L3(N(p) + 1)
           L1(p) == N(p) > p /\ N(p) < n /\ At(text, N(p)) = Dot /\ L2(N(p) + 1)
           L0(p) == N(p) > p /\ N(p) < n /\ At(text, N(p)) = Dot /\ L1(N(p) + 1)
           Eq(v) == v = [i \in 0..3 |-> [p \in z..n |->
                           \E q \in {N(p)} : /\ q > p
                                             /\ IF i = 3 THEN q = n
                                                ELSE q < n /\ At(text, q) = Dot /\ v[i + 1][q + 1]]]
<1>1. \A p \in 0..n : N(p) \in p..n
  BY OctetEnds
<1>2. PICK w : w = [i \in 0..3 |-> [p \in z..n |-> IF i = 3 THEN L3(p) ELSE IF i = 2 THEN L2(p)
                                               ELSE IF i = 1 THEN L1(p) ELSE L0(p)]]
  OBVIOUS
<1>3. ASSUME NEW p \in z..n, N(p) < n
      PROVE  N(p) + 1 \in z..n
  <2> HIDE DEF N
  <2>1. N(p) \in p..n
    BY <1>1
  <2> QED BY <1>3, <2>1
<1>4. Eq(w)
  <2>1. ASSUME NEW i \in 0..3, NEW p \in z..n
        PROVE  (IF i = 3 THEN L3(p) ELSE IF i = 2 THEN L2(p) ELSE IF i = 1 THEN L1(p) ELSE L0(p))
                 = \E q \in {N(p)} : /\ q > p
                                     /\ IF i = 3 THEN q = n
                                        ELSE q < n /\ At(text, q) = Dot /\ w[i + 1][q + 1]
    <3>1. CASE i = 3
      BY <3>1
    <3>2. CASE i = 2
      <4>1. N(p) < n => w[3][N(p) + 1] = L3(N(p) + 1)
        <5> HIDE DEF L3, L2, L1, L0, N
        <5> QED BY <1>2, <1>3
      <4>2. i + 1 = 3 /\ i # 3
        BY <3>2
      <4> HIDE DEF L3, N
      <4> QED BY <3>2, <4>1, <4>2
    <3>3. CASE i = 1
      <4>1. N(p) < n => w[2][N(p) + 1] = L2(N(p) + 1)
        <5> HIDE DEF L3, L2, L1, L0, N
        <5> QED BY <1>2, <1>3
      <4>2. i + 1 = 2 /\ i # 3 /\ i # 2
        BY <3>3
      <4> HIDE DEF L2, N
      <4> QED BY <3>3, <4>1, <4>2
    <3>4. CASE i = 0
      <4>1. N(p) < n => w[1][N(p) + 1] = L1(N(p) + 1)
        <5> HIDE DEF L3, L2, L1, L0, N
        <5> QED BY <1>2, <1>3
      <4>2. i + 1 = 1 /\ i # 3 /\ i # 2 /\ i # 1
        BY <3>4
      <4> HIDE DEF L1, N
      <4> QED BY <3>4, <4>1, <4>2
    <3>5. i = 3 \/ i = 2 \/ i = 1 \/ i = 0
      OBVIOUS
    <3> QED BY <3>1, <3>2, <3>3, <3>4, <3>5, Zenon
  <2> HIDE DEF L3, L2, L1, L0, N
  <2> QED BY <1>2, <2>1
<1>5. PICK v : Eq(v) /\ (parse_ipv4(text, z, n) <=> v[0][z])
  <2>1. PICK v : v = CHOOSE u : Eq(u)
    OBVIOUS
  <2>2. Eq(v)
    <3> HIDE DEF Eq
    <3> QED BY <1>4, <2>1
  <2>3. parse_ipv4(text, z, n) <=> v[0][z]
    BY <2>1 DEF parse_ipv4
  <2> QED BY <2>2, <2>3
<1>6. ASSUME NEW i \in 0..3, NEW p \in z..n
      PROVE  v[i][p] <=> /\ N(p) > p
                         /\ IF i = 3 THEN N(p) = n
                            ELSE N(p) < n /\ At(text, N(p)) = Dot /\ v[i + 1][N(p) + 1]
  <2> HIDE DEF N
  <2>1. v[i] = [k \in z..n |-> \E q \in {N(k)} : /\ q > k
                                               /\ IF i = 3 THEN q = n
                                                  ELSE q < n /\ At(text, q) = Dot /\ v[i + 1][q + 1]]
    BY <1>5, Zenon
  <2>2. v[i][p] = \E q \in {N(p)} : /\ q > p
                                   /\ IF i = 3 THEN q = n
                                      ELSE q < n /\ At(text, q) = Dot /\ v[i + 1][q + 1]
    BY <2>1, Zenon
  <2> QED BY <2>2, Zenon
<1> HIDE DEF Eq
<1>7. \A p \in z..n : v[3][p] <=> L3(p)
  BY <1>6
<1>8. ASSUME NEW p \in z..n
      PROVE  v[2][p] <=> N(p) > p /\ N(p) < n /\ At(text, N(p)) = Dot /\ v[3][N(p) + 1]
  BY <1>6
<1>9. ASSUME NEW p \in z..n
      PROVE  v[1][p] <=> N(p) > p /\ N(p) < n /\ At(text, N(p)) = Dot /\ v[2][N(p) + 1]
  BY <1>6
<1>10. ASSUME NEW p \in z..n
      PROVE  v[0][p] <=> N(p) > p /\ N(p) < n /\ At(text, N(p)) = Dot /\ v[1][N(p) + 1]
  BY <1>6
<1>11. ASSUME NEW p \in z..n, NEW q
       PROVE  Dotted(p, q) <=> N(p) > p /\ N(p) < n /\ At(text, N(p)) = Dot /\ q = N(p) + 1
  BY DEF Dotted
<1> HIDE DEF N
<1>12. \A p \in z..n : v[2][p] <=> \E c \in z..n : Dotted(p, c) /\ L3(c)
  <2> HIDE DEF L3
  <2> QED BY <1>3, <1>7, <1>8, <1>11
<1>13. \A p \in z..n : v[1][p] <=> \E b \in z..n : Dotted(p, b) /\ v[2][b]
  BY <1>3, <1>9, <1>11
<1>14. \A p \in z..n : v[0][p] <=> \E a \in z..n : Dotted(p, a) /\ v[1][a]
  BY <1>3, <1>10, <1>11
<1>15. v[0][z] <=> \E a \in 0..n, b \in 0..n, c \in 0..n : Dotted(z, a) /\ Dotted(a, b) /\ Dotted(b, c) /\ L3(c)
  <2> HIDE DEF L3
  <2>1. z \in z..n
    OBVIOUS
  <2>2. \A p \in z..n : \A q : Dotted(p, q) => q \in z..n
    BY <1>3, <1>11
  <2>3. \A q \in z..n : q \in 0..n
    OBVIOUS
  <2> QED BY <1>12, <1>13, <1>14, <2>1, <2>2, <2>3
<1> QED BY <1>5, <1>15 DEF N

(***************************************************************************)
(* parse_ipv4 takes the rest of the text exactly when the grammar of ipv4  *)
(* reaches its end from the same place.                                    *)
(***************************************************************************)
LEMMA Ipv4Is ==
  ASSUME text \in Seq(Byte), NEW z \in 0..Len(text)
  PROVE  parse_ipv4(text, z, Len(text)) <=> Len(text) \in ipv4({z})
<1>2. PICK A : A = {z}
  OBVIOUS
<1>3. PICK B, C, D : B = dot(decOctet(A)) /\ C = dot(decOctet(B)) /\ D = dot(decOctet(C))
  OBVIOUS
<1>4. A \in SUBSET (0..Len(text))
  BY <1>2
<1>5. B \in SUBSET (0..Len(text)) /\ \A k : k \in B <=> \E p \in A : Dotted(p, k)
  BY <1>3, <1>4, DottedIs
<1>6. C \in SUBSET (0..Len(text)) /\ \A k : k \in C <=> \E p \in B : Dotted(p, k)
  BY <1>3, <1>5, DottedIs
<1>7. D \in SUBSET (0..Len(text)) /\ \A k : k \in D <=> \E p \in C : Dotted(p, k)
  BY <1>3, <1>6, DottedIs
<1>8. Len(text) \in decOctet(D) <=>
          \E p \in D : dec_octet(text, p, Len(text)) > p /\ dec_octet(text, p, Len(text)) = Len(text)
  BY <1>7, LastOctet
<1>9. ipv4({z}) = decOctet(D)
  BY <1>2, <1>3 DEF ipv4
<1>10. \A c : c \in D <=> \E a \in 0..Len(text), b \in 0..Len(text) :
                              Dotted(z, a) /\ Dotted(a, b) /\ Dotted(b, c)
  BY <1>2, <1>5, <1>6, <1>7
<1> QED BY <1>7, <1>8, <1>9, <1>10, OctetsAre

(***************************************************************************)
(* Ipv4Exact: the ipv4 format answers true of exactly the texts that are   *)
(* the dotted decimals of RFC 3986, for every text: ip_parser.c takes no   *)
(* octet of four digits, above 255 or with a leading zero, and misses none *)
(* that is right.                                                          *)
(***************************************************************************)
THEOREM Ipv4AlwaysExact == TextsSpec => []Ipv4Exact
<1>1. TextOK => Ipv4Exact
  <2> SUFFICES ASSUME TextOK
               PROVE  parse_ipv4(text, 0, Len(text)) <=> Len(text) \in ipv4({0})
    BY DEF Ipv4Exact, Passes, Whole
  <2>1. text \in Seq(Byte) /\ 0 \in 0..Len(text)
    BY DEF TextOK
  <2> QED BY <2>1, Ipv4Is
<1> QED BY <1>1, TextsOK, PTL

-----------------------------------------------------------------------------

(***************************************************************************)
(* Closures, walks and jumps: what the grammar and the recursive scanners  *)
(* compute.                                                                *)
(***************************************************************************)

(***************************************************************************)
(* A set of positions that is not empty has a greatest member.             *)
(***************************************************************************)
LEMMA Greatest ==
  ASSUME NEW e \in Nat, NEW T, T \subseteq 0..e, T # {}
  PROVE  \E x \in T : \A y \in T : y <= x
<1>1. PICK D : D = {e - x : x \in T}
  OBVIOUS
<1>2. D \subseteq Nat /\ D # {}
  <2>1. PICK t \in T : TRUE
    OBVIOUS
  <2>2. e - t \in D
    BY <1>1, <2>1
  <2>3. \A x \in T : e - x \in Nat
    OBVIOUS
  <2> QED BY <1>1, <2>2, <2>3
<1>3. PICK d \in D : \A c \in D : d <= c
  BY <1>2, Least
<1>4. PICK x \in T : d = e - x
  BY <1>1
<1>5. \A y \in T : y <= x
  <2> TAKE y \in T
  <2>1. e - y \in D
    BY <1>1
  <2>2. e - x <= e - y
    BY <1>3, <1>4, <2>1
  <2> QED BY <2>2
<1> QED BY <1>5

(***************************************************************************)
(* What every position has when all later ones have it, all have.          *)
(***************************************************************************)
LEMMA Downwards ==
  ASSUME NEW e \in Nat, NEW S,
         \A p \in 0..e : (\A q \in (p + 1)..e : q \in S) => p \in S
  PROVE  \A p \in 0..e : p \in S
<1>1. PICK T : T = {p \in 0..e : p \notin S}
  OBVIOUS
<1>2. CASE T = {}
  BY <1>1, <1>2
<1>3. CASE T # {}
  <2>1. PICK x \in T : \A y \in T : y <= x
    BY <1>1, <1>3, Greatest
  <2>2. \A q \in (x + 1)..e : q \in S
    BY <1>1, <2>1
  <2> QED BY <1>1, <2>2
<1> QED BY <1>2, <1>3

(* v computes the closure under F of each set of positions.                *)
Closes(n, F, v) ==
  v = [J \in SUBSET (0..n) |-> LET K == J \cup F[J] IN IF K = J THEN J ELSE v[K]]

(* More starts have more ends.                                             *)
Widens(n, F) ==
  /\ F \in [SUBSET (0..n) -> SUBSET (0..n)]
  /\ \A J \in SUBSET (0..n), K \in SUBSET (0..n) : J \subseteq K => F[J] \subseteq F[K]

(* M is the least set of positions that has I and is closed under F.       *)
LeastClosed(n, F, I, M) ==
  /\ M \in SUBSET (0..n) /\ I \subseteq M /\ F[M] \subseteq M
  /\ \A C \in SUBSET (0..n) : I \subseteq C /\ F[C] \subseteq C => M \subseteq C

(***************************************************************************)
(* The recursion that closes a set of positions under F exists, and what   *)
(* it answers is the least closed set: a largest set of starts for which   *)
(* it would not leads to a larger one.                                     *)
(***************************************************************************)
LEMMA ClosureIs ==
  ASSUME NEW n \in Nat, NEW F, Widens(n, F)
  PROVE  /\ \E v : Closes(n, F, v)
         /\ \A v : Closes(n, F, v) => \A I \in SUBSET (0..n) : LeastClosed(n, F, I, v[I])
<1>0. /\ F \in [SUBSET (0..n) -> SUBSET (0..n)]
      /\ \A J \in SUBSET (0..n), K \in SUBSET (0..n) : J \subseteq K => F[J] \subseteq F[K]
  BY DEF Widens
<1> DEFINE Above(J, C) == J \subseteq C /\ F[C] \subseteq C
           Run(J) == {j \in 0..n : \A C \in SUBSET (0..n) : Above(J, C) => j \in C}
<1>1. ASSUME NEW J \in SUBSET (0..n)
      PROVE  /\ F[J] \in SUBSET (0..n)
             /\ J \subseteq Run(J)
             /\ Run(J) \in SUBSET (0..n)
             /\ Run(J \cup F[J]) = Run(J)
             /\ F[J] \subseteq J => Run(J) = J
             /\ F[Run(J)] \subseteq Run(J)
             /\ \A C \in SUBSET (0..n) : Above(J, C) => Run(J) \subseteq C
  <2>1. F[J] \in SUBSET (0..n)
    BY <1>0
  <2>2. J \subseteq Run(J) /\ Run(J) \in SUBSET (0..n)
        /\ \A C \in SUBSET (0..n) : Above(J, C) => Run(J) \subseteq C
    OBVIOUS
  <2>3. \A C \in SUBSET (0..n) : Above(J \cup F[J], C) <=> Above(J, C)
    <3> TAKE C \in SUBSET (0..n)
    <3>1. J \subseteq C => F[J] \subseteq F[C]
      BY <1>0
    <3> QED BY <3>1
  <2>4. Run(J \cup F[J]) = Run(J)
    <3> HIDE DEF Above
    <3> QED BY <2>3
  <2>5. F[J] \subseteq J => Run(J) = J
    OBVIOUS
  <2>6. ASSUME NEW j \in F[Run(J)]
        PROVE  j \in Run(J)
    <3>1. j \in 0..n
      <4> HIDE DEF Run
      <4> QED BY <1>0, <2>2, <2>6
    <3>2. ASSUME NEW C \in SUBSET (0..n), Above(J, C)
          PROVE  j \in C
      <4>1. Run(J) \subseteq C
        BY <2>2, <3>2
      <4>2. F[Run(J)] \subseteq F[C]
        <5> HIDE DEF Run
        <5> QED BY <1>0, <2>2, <4>1
      <4> HIDE DEF Run
      <4> QED BY <2>6, <3>2, <4>2
    <3> HIDE DEF Above
    <3> QED BY <3>1, <3>2
  <2> QED BY <2>1, <2>2, <2>4, <2>5, <2>6
<1> HIDE DEF Run
<1>2. PICK r : r = [J \in SUBSET (0..n) |-> Run(J)]
  OBVIOUS
<1>3. Closes(n, F, r)
  <2>1. ASSUME NEW J \in SUBSET (0..n)
        PROVE  Run(J) = LET K == J \cup F[J] IN IF K = J THEN J ELSE r[K]
    <3>1. J \cup F[J] \in SUBSET (0..n)
      BY <1>1
    <3> QED BY <1>1, <1>2, <3>1
  <2> QED BY <1>2, <2>1 DEF Closes
<1>4. ASSUME NEW v, Closes(n, F, v), NEW J \in SUBSET (0..n)
      PROVE  v[J] = Run(J)
  <2>1. \A K \in SUBSET (0..n) : IsFiniteSet(K) /\ Cardinality(K) \in Nat /\ Cardinality(K) <= n + 1
    <3>1. IsFiniteSet(0..n) /\ Cardinality(0..n) = n + 1
      BY FS_Interval
    <3>2. ASSUME NEW K \in SUBSET (0..n)
          PROVE  IsFiniteSet(K) /\ Cardinality(K) <= Cardinality(0..n)
      BY <3>1, FS_Subset, Zenon
    <3> QED BY <3>1, <3>2, FS_CardinalityType
  <2>2. SUFFICES ASSUME v[J] # Run(J) PROVE FALSE
    OBVIOUS
  <2>3. PICK Bad : Bad = {K \in SUBSET (0..n) : v[K] # Run(K)}
    OBVIOUS
  <2>4. PICK T : T = {n + 1 - Cardinality(K) : K \in Bad}
    OBVIOUS
  <2>5. T \subseteq Nat /\ T # {}
    BY <2>1, <2>2, <2>3, <2>4
  <2>6. PICK x \in T : \A y \in T : x <= y
    BY <2>5, Least
  <2>7. PICK K \in Bad : x = n + 1 - Cardinality(K)
    BY <2>4
  <2>8. PICK L : L = K \cup F[K]
    OBVIOUS
  <2>9. K \in SUBSET (0..n) /\ L \in SUBSET (0..n) /\ v[K] # Run(K)
    BY <1>1, <2>3, <2>8
  <2>10. v[K] = IF L = K THEN K ELSE v[L]
    BY <1>4, <2>8, <2>9 DEF Closes
  <2>11. L # K
    BY <1>1, <2>8, <2>9, <2>10
  <2>12. Cardinality(K) <= Cardinality(L) /\ Cardinality(K) # Cardinality(L)
    BY <2>1, <2>8, <2>9, <2>11, FS_Subset
  <2>13. L \notin Bad
    <3>1. SUFFICES ASSUME L \in Bad PROVE FALSE
      OBVIOUS
    <3>2. n + 1 - Cardinality(L) \in T
      BY <2>4, <3>1
    <3> QED BY <2>1, <2>6, <2>7, <2>9, <2>12, <3>2
  <2>14. v[L] = Run(L)
    BY <2>3, <2>9, <2>13
  <2> QED BY <1>1, <2>8, <2>9, <2>10, <2>11, <2>14
<1>5. ASSUME NEW v, Closes(n, F, v), NEW I \in SUBSET (0..n)
      PROVE  LeastClosed(n, F, I, v[I])
  <2>1. PICK R : R = Run(I)
    OBVIOUS
  <2>2. v[I] = R
    BY <1>4, <1>5, <2>1
  <2>3. /\ R \in SUBSET (0..n) /\ I \subseteq R /\ F[R] \subseteq R
        /\ \A C \in SUBSET (0..n) : Above(I, C) => R \subseteq C
    <3> HIDE DEF Above
    <3> QED BY <1>1, <2>1
  <2> QED BY <2>2, <2>3 DEF LeastClosed
<1> QED BY <1>3, <1>5

(* last walks from a towards e in steps of U, until U is 0.                *)
Walks(a, e, U, last) ==
  last = [p \in a..e |-> LET u == U[p] IN IF u = 0 THEN p ELSE last[p + u]]

(***************************************************************************)
(* A later position is another one.                                        *)
(***************************************************************************)
LEMMA Further ==
  \A e \in Nat : \A p \in 0..e : \A r \in (p + 1)..e : r # p /\ r \in p..e
OBVIOUS

(***************************************************************************)
(* A step forward leads to a later position.                               *)
(***************************************************************************)
LEMMA Ahead ==
  \A e \in Nat : \A a \in 0..e : \A p \in a..e : \A u \in Nat :
    u # 0 /\ p + u <= e => p + u \in (p + 1)..e /\ p + u \in a..e
OBVIOUS

(* W says where every walk in steps of U ends.                             *)
WalkEnds(e, U, W) ==
  /\ \A p \in 0..e : /\ W[p] \in p..e /\ U[W[p]] = 0
                     /\ W[p] = IF U[p] = 0 THEN p ELSE W[p + U[p]]
  /\ \A a \in 0..e : /\ \E last : Walks(a, e, U, last)
                     /\ \A last : Walks(a, e, U, last) => last[a] = W[a]

(***************************************************************************)
(* A scan that goes on from p to p + U[p] until U is 0 is defined          *)
(* everywhere, and stops at one place, whatever position the recursion     *)
(* starts from.                                                            *)
(***************************************************************************)
LEMMA WalkIs ==
  ASSUME NEW e \in Nat, NEW U \in [0..e -> Nat], \A p \in 0..e : p + U[p] <= e
  PROVE  \E W \in [0..e -> 0..e] : WalkEnds(e, U, W)
<1> DEFINE Fits(W, a) == /\ W \in [a..e -> 0..e]
                         /\ \A p \in a..e : W[p] = IF U[p] = 0 THEN p ELSE W[p + U[p]]
<1>1. PICK S : S = {a \in 0..e : \E W : Fits(W, a)}
  OBVIOUS
<1>2. \A p \in 0..e : (\A q \in (p + 1)..e : q \in S) => p \in S
  <2> TAKE p \in 0..e
  <2> HAVE \A q \in (p + 1)..e : q \in S
  <2>1. CASE p = e
    <3>1. U[e] = 0
      OBVIOUS
    <3>2. Fits([q \in p..e |-> q], p)
      BY <2>1, <3>1
    <3> QED BY <1>1, <3>2
  <2>2. CASE p # e
    <3>1. p + 1 \in S /\ p + 1 \in 0..e
      BY <2>2
    <3>2. PICK W : Fits(W, p + 1)
      BY <1>1, <3>1
    <3>3. PICK V : V = [q \in p..e |-> IF q = p THEN IF U[p] = 0 THEN p ELSE W[p + U[p]] ELSE W[q]]
      OBVIOUS
    <3>4. U[p] # 0 => p + U[p] \in (p + 1)..e
      <4>1. PICK u \in Nat : u = U[p] /\ p + u <= e
        OBVIOUS
      <4>2. 0 \in 0..e /\ p \in 0..e
        OBVIOUS
      <4>3. u # 0 => p + u \in (p + 1)..e
        BY <4>1, <4>2, Ahead, Zenon
      <4> QED BY <4>1, <4>3
    <3>5. V \in [p..e -> 0..e]
      <4>1. ASSUME NEW q \in p..e
            PROVE  (IF q = p THEN IF U[p] = 0 THEN p ELSE W[p + U[p]] ELSE W[q]) \in 0..e
        <5>1. q # p => q \in (p + 1)..e
          OBVIOUS
        <5> QED BY <3>2, <3>4, <5>1
      <4> QED BY <3>3, <4>1
    <3>6. ASSUME NEW q \in p..e
          PROVE  V[q] = IF U[q] = 0 THEN q ELSE V[q + U[q]]
      <4>1. CASE q = p
        <5>1. U[p] # 0 => V[p + U[p]] = W[p + U[p]]
          BY <3>3, <3>4
        <5> QED BY <3>3, <4>1, <5>1
      <4>2. CASE q # p
        <5>1. q \in (p + 1)..e /\ q \in 0..e
          BY <4>2
        <5>2. U[q] # 0 => q + U[q] \in (p + 1)..e
          BY <5>1
        <5>3. U[q] # 0 => V[q + U[q]] = W[q + U[q]]
          <6>1. PICK r : r = q + U[q]
            OBVIOUS
          <6>2. U[q] # 0 => r \in (p + 1)..e
            BY <5>2, <6>1
          <6>3. U[q] # 0 => r # p /\ r \in p..e
            BY <6>2, Further, Zenon
          <6> QED BY <3>3, <6>1, <6>3
        <5>4. V[q] = W[q]
          BY <3>3, <4>2
        <5> QED BY <3>2, <5>1, <5>3, <5>4
      <4> QED BY <4>1, <4>2
    <3>7. Fits(V, p)
      BY <3>5, <3>6
    <3> HIDE DEF Fits
    <3> QED BY <1>1, <3>7
  <2> QED BY <2>1, <2>2
<1>3. 0 \in S
  <2>1. \A p \in 0..e : p \in S
    BY <1>2, Downwards, Zenon
  <2> QED BY <2>1
<1>4. PICK W : Fits(W, 0)
  BY <1>1, <1>3
<1>5. \A p \in 0..e : W[p] \in p..e /\ U[W[p]] = 0
  <2>1. PICK R : R = {p \in 0..e : W[p] \in p..e /\ U[W[p]] = 0}
    OBVIOUS
  <2>2. \A p \in 0..e : (\A q \in (p + 1)..e : q \in R) => p \in R
    <3> TAKE p \in 0..e
    <3> HAVE \A q \in (p + 1)..e : q \in R
    <3>1. CASE U[p] = 0
      BY <1>4, <2>1, <3>1
    <3>2. CASE U[p] # 0
      <4>1. p + U[p] \in (p + 1)..e
        <5>1. PICK u \in Nat : u = U[p] /\ p + u <= e
          OBVIOUS
        <5>2. 0 \in 0..e /\ p \in 0..e
          OBVIOUS
        <5>3. u # 0 => p + u \in (p + 1)..e
          BY <5>1, <5>2, Ahead, Zenon
        <5> QED BY <3>2, <5>1, <5>3
      <4>2. p + U[p] \in R /\ W[p] = W[p + U[p]]
        BY <1>4, <3>2, <4>1
      <4>3. W[p] \in (p + U[p])..e /\ U[W[p]] = 0
        BY <2>1, <4>2
      <4>4. W[p] \in p..e
        <5>1. PICK r : r = p + U[p]
          OBVIOUS
        <5>2. r \in (p + 1)..e /\ W[p] \in r..e
          BY <4>1, <4>3, <5>1
        <5> QED BY <5>2
      <4> QED BY <2>1, <4>3, <4>4
    <3> QED BY <3>1, <3>2
  <2>3. \A p \in 0..e : p \in R
    BY <2>2, Downwards
  <2> QED BY <2>1, <2>3
<1>6. ASSUME NEW a \in 0..e
      PROVE  \E last : Walks(a, e, U, last)
  <2>1. PICK L : L = [p \in a..e |-> W[p]]
    OBVIOUS
  <2>2. ASSUME NEW p \in a..e
        PROVE  W[p] = IF U[p] = 0 THEN p ELSE L[p + U[p]]
    <3>1. p \in 0..e /\ p + U[p] \in a..e
      OBVIOUS
    <3> QED BY <1>4, <2>1, <3>1
  <2>3. Walks(a, e, U, L)
    BY <2>1, <2>2 DEF Walks
  <2> QED BY <2>3
<1>7. ASSUME NEW a \in 0..e, NEW last, Walks(a, e, U, last)
      PROVE  last[a] = W[a]
  <2>1. PICK R : R = {p \in 0..e : p \in a..e => last[p] = W[p]}
    OBVIOUS
  <2>2. \A p \in 0..e : (\A q \in (p + 1)..e : q \in R) => p \in R
    <3> TAKE p \in 0..e
    <3> HAVE \A q \in (p + 1)..e : q \in R
    <3>1. CASE p \in a..e
      <4>1. last[p] = IF U[p] = 0 THEN p ELSE last[p + U[p]]
        BY <1>7, <3>1 DEF Walks
      <4>2. CASE U[p] # 0
        <5>1. p + U[p] \in (p + 1)..e /\ p + U[p] \in a..e
          <6>1. p \in 0..e /\ a \in Nat /\ U[p] \in Nat
            OBVIOUS
          <6>2. p + U[p] <= e
            OBVIOUS
          <6>3. PICK u \in Nat : u = U[p]
            BY <6>1
          <6>4. p + u \in (p + 1)..e /\ p + u \in a..e
            <7>1. u # 0 /\ p + u <= e
              BY <4>2, <6>2, <6>3
            <7> QED BY <3>1, <6>3, <7>1, Ahead, Zenon
          <6> QED BY <6>3, <6>4
        <5>2. p + U[p] \in R
          BY <5>1
        <5>3. last[p + U[p]] = W[p + U[p]]
          BY <2>1, <5>1, <5>2
        <5>4. W[p] = W[p + U[p]]
          BY <1>4, <4>2
        <5>5. last[p] = W[p]
          BY <4>1, <4>2, <5>3, <5>4
        <5> QED BY <2>1, <5>5
      <4>3. CASE U[p] = 0
        BY <1>4, <2>1, <4>1, <4>3
      <4> QED BY <4>2, <4>3
    <3> QED BY <2>1, <3>1
  <2>3. a \in R
    BY <2>2, Downwards
  <2> QED BY <2>1, <2>3
<1> QED BY <1>4, <1>5, <1>6, <1>7 DEF WalkEnds

(* tok says from which positions a scan that jumps by G, from places in H  *)
(* only, may come to a place in B.                                         *)
Jumps(a, e, B, H, G, tok) == tok = [p \in a..e |-> p \in B \/ (p \in H /\ tok[G[p]])]

(* T has the positions from which one can jump to a place in B.            *)
JumpsFrom(e, B, H, G, T) ==
  /\ \A p \in 0..e : p \in T <=> p \in B \/ (p \in H /\ G[p] \in T)
  /\ \A a \in 0..e : /\ \E tok : Jumps(a, e, B, H, G, tok)
                     /\ \A tok : Jumps(a, e, B, H, G, tok) => (tok[a] <=> a \in T)

(***************************************************************************)
(* A scan that goes on from p to G[p] is defined everywhere, and answers   *)
(* the same whatever position the recursion starts from.                   *)
(***************************************************************************)
LEMMA JumpIs ==
  ASSUME NEW e \in Nat, NEW B, NEW H \in SUBSET (0..e), NEW G \in [0..e -> 0..e],
         \A p \in H : G[p] \in (p + 1)..e
  PROVE  \E T \in SUBSET (0..e) : JumpsFrom(e, B, H, G, T)
<1> DEFINE Fits(T, a) == /\ T \in SUBSET (a..e)
                         /\ \A p \in a..e : p \in T <=> p \in B \/ (p \in H /\ G[p] \in T)
<1>1. PICK S : S = {a \in 0..e : \E T : Fits(T, a)}
  OBVIOUS
<1>2. \A p \in 0..e : (\A q \in (p + 1)..e : q \in S) => p \in S
  <2> TAKE p \in 0..e
  <2> HAVE \A q \in (p + 1)..e : q \in S
  <2>1. PICK T : T \in SUBSET ((p + 1)..e) /\ \A q \in (p + 1)..e : q \in T <=> q \in B \/ (q \in H /\ G[q] \in T)
    <3>1. CASE p = e
      <4>1. PICK T : T = {}
        OBVIOUS
      <4>2. (p + 1)..e = {}
        BY <3>1
      <4> QED BY <4>1, <4>2
    <3>2. CASE p # e
      <4>1. p + 1 \in S
        BY <3>2
      <4> QED BY <1>1, <4>1
    <3> QED BY <3>1, <3>2
  <2>2. PICK V : V = {q \in p..e : q \in T \/ (q = p /\ (p \in B \/ (p \in H /\ G[p] \in T)))}
    OBVIOUS
  <2>3. V \in SUBSET (p..e)
    BY <2>2
  <2>4. \A q \in (p + 1)..e : q \in V <=> q \in T
    BY <2>2
  <2>5. p \in V <=> p \in B \/ (p \in H /\ G[p] \in T)
    <3>1. p \notin T /\ p \in p..e
      BY <2>1
    <3> QED BY <2>2, <3>1
  <2>6. ASSUME NEW q \in p..e
        PROVE  q \in V <=> q \in B \/ (q \in H /\ G[q] \in V)
    <3>1. CASE q = p
      <4>1. p \in H => (G[p] \in V <=> G[p] \in T)
        BY <2>4
      <4> QED BY <2>5, <3>1, <4>1
    <3>2. CASE q # p
      <4>1. q \in (p + 1)..e /\ q \in 0..e
        BY <3>2
      <4>2. PICK g : g = G[q]
        OBVIOUS
      <4>3. q \in H => g \in (q + 1)..e
        BY <4>2
      <4>4. q \in H => g \in (p + 1)..e
        BY <4>1, <4>3
      <4>5. q \in T <=> q \in B \/ (q \in H /\ g \in T)
        BY <2>1, <4>1, <4>2
      <4> QED BY <2>4, <4>1, <4>2, <4>4, <4>5
    <3> QED BY <3>1, <3>2
  <2>7. Fits(V, p)
    BY <2>3, <2>6
  <2> HIDE DEF Fits
  <2> QED BY <1>1, <2>7
<1>3. 0 \in S
  <2>1. \A p \in 0..e : p \in S
    BY <1>2, Downwards, Zenon
  <2> QED BY <2>1
<1>4. PICK T : Fits(T, 0)
  BY <1>1, <1>3
<1>5. ASSUME NEW a \in 0..e
      PROVE  \E tok : Jumps(a, e, B, H, G, tok)
  <2>1. PICK tok : tok = [p \in a..e |-> p \in T]
    OBVIOUS
  <2>2. ASSUME NEW p \in a..e
        PROVE  (p \in T) = (p \in B \/ (p \in H /\ tok[G[p]]))
    <3>1. CASE p \in H
      <4>1. PICK g : g = G[p]
        OBVIOUS
      <4>2. g \in (p + 1)..e /\ p \in 0..e
        BY <3>1, <4>1
      <4>3. g \in a..e
        BY <4>2
      <4>4. tok[g] = (g \in T)
        BY <2>1, <4>3
      <4>5. p \in T <=> p \in B \/ (p \in H /\ g \in T)
        BY <1>4, <4>1, <4>2
      <4>6. tok[G[p]] = (g \in T)
        BY <4>1, <4>4
      <4>7. (p \in B \/ (p \in H /\ tok[G[p]])) <=> p \in T
        BY <4>5, <4>6, Zenon
      <4> QED BY <4>7
    <3>2. CASE p \notin H
      <4>1. p \in T <=> p \in B
        BY <1>4, <3>2
      <4> HIDE DEF Fits
      <4> QED BY <3>2, <4>1
    <3> QED BY <3>1, <3>2
  <2>3. tok = [p \in a..e |-> p \in B \/ (p \in H /\ tok[G[p]])]
    BY <2>1, <2>2, Zenon
  <2> QED BY <2>3 DEF Jumps
<1>6. ASSUME NEW a \in 0..e, NEW tok, Jumps(a, e, B, H, G, tok)
      PROVE  tok[a] <=> a \in T
  <2>1. PICK R : R = {p \in 0..e : p \in a..e => (tok[p] <=> p \in T)}
    OBVIOUS
  <2>2. \A p \in 0..e : (\A q \in (p + 1)..e : q \in R) => p \in R
    <3> TAKE p \in 0..e
    <3> HAVE \A q \in (p + 1)..e : q \in R
    <3>1. ASSUME p \in a..e
          PROVE  tok[p] <=> p \in T
      <4>1. tok[p] = (p \in B \/ (p \in H /\ tok[G[p]]))
        BY <1>6, <3>1, Zenon DEF Jumps
      <4>2. CASE p \notin H
        <5>1. tok[p] <=> p \in B
          BY <4>1, <4>2
        <5>2. p \in T <=> p \in B
          BY <1>4, <4>2
        <5> QED BY <5>1, <5>2
      <4>3. CASE p \in H
        <5>1. PICK g : g = G[p]
          OBVIOUS
        <5>2. g \in (p + 1)..e /\ g \in R
          BY <4>3, <5>1
        <5>3. g \in a..e
          BY <3>1, <5>2
        <5>4. tok[g] <=> g \in T
          BY <2>1, <5>2, <5>3
        <5>5. p \in T <=> p \in B \/ (p \in H /\ g \in T)
          BY <1>4, <5>1
        <5>6. tok[p] <=> p \in B \/ (p \in H /\ tok[g])
          BY <4>1, <5>1
        <5> HIDE DEF Fits
        <5> QED BY <5>4, <5>5, <5>6
      <4> QED BY <4>2, <4>3
    <3> QED BY <2>1, <3>1
  <2>3. \A p \in 0..e : p \in R
    BY <2>2, Downwards, Zenon
  <2>4. a \in a..e
    OBVIOUS
  <2> QED BY <2>1, <2>3, <2>4
<1> QED BY <1>4, <1>5, <1>6 DEF JumpsFrom

-----------------------------------------------------------------------------

(***************************************************************************)
(* The pointers (json_pointer_parser.c, relative_json_pointer.c).          *)
(***************************************************************************)

(* The length of a character of a reference token at q, or 0.              *)
Token(q) == IF q < Len(text) THEN token_char(text, q, Len(text)) ELSE 0

(***************************************************************************)
(* A character of a token stays in the text.                               *)
(***************************************************************************)
LEMMA TokenFits ==
  ASSUME text \in Seq(Byte), NEW q \in 0..Len(text)
  PROVE  Token(q) \in Nat /\ q + Token(q) <= Len(text)
<1> PICK n \in Nat : n = Len(text)
  OBVIOUS
<1>1. CASE q < n
  <2>0. q \in Nat
    OBVIOUS
  <2>1. At(text, q) \in 0..255 /\ q \in Nat
    BY <1>1, <2>0, BytesAt
  <2>2. ExactAt(text, q, n)
    BY <1>1, <2>1, ExactOnBytes
  <2>3. PICK u : u = utf8_seq_len(text, q, n)
    OBVIOUS
  <2>4. u \in 0..4 /\ \A k \in 1..4 : u = k => q + k <= n
    BY <2>2, <2>3 DEF ExactAt, Encodes
  <2>5. u \in Nat /\ q + u <= n
    BY <1>1, <2>4
  <2>6. Token(q) \in {0, 1, u} \/ (Token(q) = 2 /\ q + 1 < n)
    BY <1>1, <2>3 DEF Token, token_char
  <2> QED BY <1>1, <2>5, <2>6
<1>2. CASE ~(q < n)
  BY <1>2 DEF Token
<1> QED BY <1>1, <1>2

(***************************************************************************)
(* The characters of the grammar and the ones token_char takes are the     *)
(* same: "~" counts only with "0" or "1" after it.                         *)
(***************************************************************************)
LEMMA TokenSteps ==
  ASSUME text \in Seq(Byte), NEW I, I \in SUBSET (0..Len(text)), NEW j
  PROVE  j \in unescaped(I) \cup escaped(I) <=> \E q \in I : Token(q) # 0 /\ j = q + Token(q)
<1> PICK n \in Nat : n = Len(text)
  OBVIOUS
<1>1. PICK C, E, S : C = Ascii \ {Slash, Tilde} /\ E = {Zero, One} /\ S = {Tilde}
  OBVIOUS
<1>2. I \in SUBSET Nat
  OBVIOUS
<1>3. /\ \A k : k \in Char(C, I) <=> k \in Nat /\ k - 1 \in I /\ k <= n /\ At(text, k - 1) \in C
  BY <1>2, CharAt
<1>4. PICK T : T = Char(S, I)
  OBVIOUS
<1>5. T \in SUBSET Nat /\ \A k : k \in T <=> k \in Nat /\ k - 1 \in I /\ k <= n /\ At(text, k - 1) \in S
  BY <1>2, <1>4, CharAt
<1>6. \A k : k \in Char(E, T) <=> k \in Nat /\ k - 1 \in T /\ k <= n /\ At(text, k - 1) \in E
  BY <1>5, CharAt
<1>7. unescaped(I) \cup escaped(I) = Char(C, I) \cup utf8(TRUE, I) \cup Char(E, T)
  BY <1>1, <1>4 DEF unescaped, escaped
<1>8. j \in utf8(TRUE, I) <=> \E q \in I : \E k \in 2..4 : Encodes(text, q, n, k) /\ j = q + k
  BY DEF utf8
<1>9. j \in Char(E, T) <=> \E q \in I : /\ j = q + 2 /\ q + 2 <= n /\ At(text, q) = Tilde
                                        /\ At(text, q + 1) \in {Zero, One}
  <2>1. ASSUME j \in Char(E, T)
        PROVE  \E q \in I : /\ j = q + 2 /\ q + 2 <= n /\ At(text, q) = Tilde
                            /\ At(text, q + 1) \in {Zero, One}
    <3>1. j \in Nat /\ j - 1 \in T /\ j <= n /\ At(text, j - 1) \in {Zero, One}
      BY <1>1, <1>6, <2>1
    <3>2. (j - 1) - 1 \in I /\ At(text, (j - 1) - 1) = Tilde
      BY <1>1, <1>5, <3>1
    <3>3. PICK q : q = (j - 1) - 1
      OBVIOUS
    <3>4. j = q + 2 /\ j - 1 = q + 1
      BY <3>1, <3>3
    <3> QED BY <3>1, <3>2, <3>3, <3>4
  <2>2. ASSUME NEW q \in I, j = q + 2, q + 2 <= n, At(text, q) = Tilde, At(text, q + 1) \in {Zero, One}
        PROVE  j \in Char(E, T)
    <3>1. q + 1 \in Nat /\ (q + 1) - 1 = q /\ q + 1 <= n /\ j \in Nat /\ j - 1 = q + 1 /\ j <= n
      BY <2>2
    <3>2. q + 1 \in T
      BY <1>1, <1>5, <2>2, <3>1
    <3> QED BY <1>1, <1>6, <2>2, <3>1, <3>2
  <2> QED BY <2>1, <2>2
<1>10. j \in Char(C, I) <=> \E q \in I : j = q + 1 /\ q < n /\ At(text, q) \in Ascii \ {Slash, Tilde}
  <2>1. ASSUME j \in Char(C, I)
        PROVE  \E q \in I : j = q + 1 /\ q < n /\ At(text, q) \in Ascii \ {Slash, Tilde}
    <3>1. j \in Nat /\ j - 1 \in I /\ j <= n /\ At(text, j - 1) \in C
      BY <1>3, <2>1
    <3>2. j = (j - 1) + 1 /\ j - 1 < n
      BY <3>1
    <3> QED BY <1>1, <3>1, <3>2
  <2>2. ASSUME NEW q \in I, j = q + 1, q < n, At(text, q) \in Ascii \ {Slash, Tilde}
        PROVE  j \in Char(C, I)
    <3>1. j \in Nat /\ j - 1 = q /\ j <= n
      BY <2>2
    <3> QED BY <1>1, <1>3, <2>2, <3>1
  <2> QED BY <2>1, <2>2
<1>11. ASSUME NEW q \in I
       PROVE  Token(q) # 0 /\ j = q + Token(q) <=>
                \/ j = q + 1 /\ q < n /\ At(text, q) \in Ascii \ {Slash, Tilde}
                \/ \E k \in 2..4 : Encodes(text, q, n, k) /\ j = q + k
                \/ j = q + 2 /\ q + 2 <= n /\ At(text, q) = Tilde /\ At(text, q + 1) \in {Zero, One}
  <2>1. CASE q >= n
    <3>1. \A k \in 2..4 : ~Encodes(text, q, n, k)
      BY <2>1 DEF Encodes
    <3> QED BY <2>1, <3>1 DEF Token
  <2>2. CASE q < n
    <3>1. At(text, q) \in 0..255 /\ q \in Nat
      BY <2>2, BytesAt
    <3>2. ExactAt(text, q, n)
      BY <2>2, <3>1, ExactOnBytes
    <3>3. PICK u : u = utf8_seq_len(text, q, n)
      OBVIOUS
    <3>4. u \in 0..4 /\ \A k \in 1..4 : u = k <=> Encodes(text, q, n, k)
      BY <3>2, <3>3 DEF ExactAt
    <3>5. At(text, q) \in Ascii <=> u = 1
      <4>1. /\ Announced(At(text, q)) \in 0..4
            /\ At(text, q) \in Ascii <=> Announced(At(text, q)) = 1
        BY <3>1 DEF Announced, Ascii
      <4>2. u = 1 => Announced(At(text, q)) = 1
        BY <2>2, <3>3 DEF utf8_seq_len
      <4>3. Announced(At(text, q)) = 1 => u = 1
        BY <2>2, <3>1, <3>3 DEF utf8_seq_len
      <4> QED BY <4>1, <4>2, <4>3
    <3>6. Slash \in Ascii /\ Tilde \in Ascii /\ Slash # Tilde
      BY DEF Slash, Tilde, Ascii
    <3>7. Token(q) = IF At(text, q) = Slash THEN 0 ELSE
                     IF At(text, q) = Tilde THEN IF q + 1 < n /\ At(text, q + 1) \in {Zero, One} THEN 2 ELSE 0
                     ELSE IF At(text, q) \in Ascii THEN 1 ELSE u
      BY <2>2, <3>3 DEF Token, token_char
    <3>8. (\E k \in 2..4 : Encodes(text, q, n, k) /\ j = q + k) <=> u \in 2..4 /\ j = q + u
      BY <3>4
    <3>9. q + 1 < n <=> q + 2 <= n
      BY <3>1
    <3>10. CASE At(text, q) \in Ascii
      <4>1. u \notin 2..4
        BY <3>5, <3>10
      <4>2. CASE At(text, q) = Slash
        BY <3>6, <3>7, <3>8, <4>1, <4>2
      <4>3. CASE At(text, q) = Tilde
        BY <3>6, <3>7, <3>8, <3>9, <4>1, <4>3
      <4>4. CASE At(text, q) \notin {Slash, Tilde}
        BY <2>2, <3>7, <3>8, <3>10, <4>1, <4>4
      <4> QED BY <4>2, <4>3, <4>4
    <3>11. CASE At(text, q) \notin Ascii
      <4>1. Token(q) = u /\ u # 1
        BY <3>5, <3>6, <3>7, <3>11
      <4>2. u # 0 <=> u \in 2..4
        BY <3>4, <4>1
      <4> QED BY <3>6, <3>8, <3>11, <4>1, <4>2
    <3> QED BY <3>10, <3>11
  <2> QED BY <2>1, <2>2
<1> QED BY <1>7, <1>8, <1>9, <1>10, <1>11

(***************************************************************************)
(* Repeat takes the characters of a token one after the other.             *)
(***************************************************************************)
LEMMA TokenRuns ==
  ASSUME text \in Seq(Byte)
  PROVE  \E W \in [0..Len(text) -> 0..Len(text)] :
           \A p \in 0..Len(text) :
             /\ W[p] \in p..Len(text) /\ Token(W[p]) = 0
             /\ W[p] = IF Token(p) = 0 THEN p ELSE W[p + Token(p)]
             /\ Repeat(LAMBDA q : token_char(text, q, Len(text)), p, Len(text)) = W[p]
<1> DEFINE n == Len(text)
<1>0. n \in Nat
  OBVIOUS
<1>1. PICK U : U = [q \in 0..n |-> Token(q)]
  OBVIOUS
<1>2. U \in [0..n -> Nat] /\ \A p \in 0..n : p + U[p] <= n
  BY <1>1, TokenFits
<1>3. PICK W \in [0..n -> 0..n] : WalkEnds(n, U, W)
  BY <1>0, <1>2, WalkIs
<1> USE DEF WalkEnds
<1>4. ASSUME NEW p \in 0..n
      PROVE  Repeat(LAMBDA q : token_char(text, q, n), p, n) = W[p]
  <2> DEFINE Eq(last) == last = [q \in p..n |-> LET u == IF q < n THEN token_char(text, q, n) ELSE 0
                                               IN  IF u = 0 THEN q ELSE last[q + u]]
  <2>1. ASSUME NEW last
        PROVE  Eq(last) <=> Walks(p, n, U, last)
    <3>1. ASSUME NEW q \in p..n
          PROVE  (IF q < n THEN token_char(text, q, n) ELSE 0) = U[q]
      <4>1. q \in 0..n
        OBVIOUS
      <4> QED BY <1>1, <4>1 DEF Token
    <3>2. [q \in p..n |-> LET u == IF q < n THEN token_char(text, q, n) ELSE 0
                          IN  IF u = 0 THEN q ELSE last[q + u]]
            = [q \in p..n |-> LET u == U[q] IN IF u = 0 THEN q ELSE last[q + u]]
      BY <3>1
    <3> QED BY <3>2 DEF Walks
  <2>2. PICK v : v = CHOOSE last : Eq(last)
    OBVIOUS
  <2>3. Eq(v)
    <3>1. \E last : Eq(last)
      <4> HIDE DEF Eq
      <4> QED BY <1>3, <2>1
    <3> HIDE DEF Eq
    <3> QED BY <2>2, <3>1
  <2>4. Repeat(LAMBDA q : token_char(text, q, n), p, n) = v[p]
    BY <2>2 DEF Repeat
  <2> HIDE DEF Eq
  <2> QED BY <1>3, <2>1, <2>3, <2>4
<1>5. \A p \in 0..n : U[p] = Token(p) /\ U[W[p]] = Token(W[p])
  BY <1>1
<1> QED BY <1>3, <1>4, <1>5

(* A set of positions that has what a character of a token leads to.       *)
TokenClosed(C) == \A q \in C : Token(q) # 0 => q + Token(q) \in C

(***************************************************************************)
(* reference-token is the least set of ends that has the starts and is     *)
(* closed under one more character.                                        *)
(***************************************************************************)
LEMMA ReferenceTokenIs ==
  ASSUME text \in Seq(Byte), NEW I, I \in SUBSET (0..Len(text))
  PROVE  /\ referenceToken(I) \in SUBSET (0..Len(text))
         /\ I \subseteq referenceToken(I) /\ TokenClosed(referenceToken(I))
         /\ \A C \in SUBSET (0..Len(text)) : I \subseteq C /\ TokenClosed(C) => referenceToken(I) \subseteq C
<1> PICK n \in Nat : n = Len(text)
  OBVIOUS
<1>1. PICK F : F = [J \in SUBSET (0..n) |-> unescaped(J) \cup escaped(J)]
  OBVIOUS
<1>2. ASSUME NEW J \in SUBSET (0..n)
      PROVE  \A j : j \in F[J] <=> \E q \in J : Token(q) # 0 /\ j = q + Token(q)
  BY <1>1, TokenSteps
<1>3. F \in [SUBSET (0..n) -> SUBSET (0..n)]
  <2>1. ASSUME NEW J \in SUBSET (0..n)
        PROVE  unescaped(J) \cup escaped(J) \in SUBSET (0..n)
    <3>1. \A q \in J : q + Token(q) \in 0..n
      BY TokenFits
    <3>2. \A j \in F[J] : j \in 0..n
      BY <1>2, <3>1
    <3> QED BY <1>1, <3>2
  <2> QED BY <1>1, <2>1
<1>4. \A J \in SUBSET (0..n), K \in SUBSET (0..n) : J \subseteq K => F[J] \subseteq F[K]
  BY <1>2
<1>5. \A C \in SUBSET (0..n) : F[C] \subseteq C <=> TokenClosed(C)
  BY <1>2 DEF TokenClosed
<1> DEFINE Eq(v) == v = [J \in SUBSET (0..n) |-> LET K == J \cup (unescaped(J) \cup escaped(J))
                                                IN  IF K = J THEN J ELSE v[K]]
<1>6. \A v : Eq(v) <=> Closes(n, F, v)
  <2> TAKE v
  <2>1. [J \in SUBSET (0..n) |-> LET K == J \cup (unescaped(J) \cup escaped(J))
                                 IN  IF K = J THEN J ELSE v[K]]
          = [J \in SUBSET (0..n) |-> LET K == J \cup F[J] IN IF K = J THEN J ELSE v[K]]
    BY <1>1
  <2> QED BY <2>1 DEF Closes
<1>7. /\ \E v : Closes(n, F, v)
      /\ \A v : Closes(n, F, v) => \A J \in SUBSET (0..n) : LeastClosed(n, F, J, v[J])
  <2>1. Widens(n, F)
    BY <1>3, <1>4 DEF Widens
  <2> QED BY <2>1, ClosureIs
<1>8. PICK v : v = CHOOSE u : Eq(u)
  OBVIOUS
<1>9. referenceToken(I) = v[I]
  BY <1>8 DEF referenceToken, Many
<1> HIDE DEF Eq
<1>10. Closes(n, F, v)
  BY <1>6, <1>7, <1>8
<1>11. PICK M : M = v[I]
  OBVIOUS
<1>12. /\ M \in SUBSET (0..n) /\ I \subseteq M /\ F[M] \subseteq M
       /\ \A C \in SUBSET (0..n) : I \subseteq C /\ F[C] \subseteq C => M \subseteq C
  BY <1>7, <1>10, <1>11 DEF LeastClosed
<1> QED BY <1>5, <1>9, <1>11, <1>12

(* A set of positions that has where a slash and a token may end.          *)
PointerClosed(C) == referenceToken(slash(C)) \subseteq C

(***************************************************************************)
(* The ends of a slash.                                                    *)
(***************************************************************************)
LEMMA SlashIs ==
  ASSUME text \in Seq(Byte), NEW I, I \in SUBSET (0..Len(text))
  PROVE  /\ slash(I) \in SUBSET (0..Len(text))
         /\ \A j : j \in slash(I) <=> \E p \in I : p < Len(text) /\ At(text, p) = Slash /\ j = p + 1
BY DEF slash, Char

(***************************************************************************)
(* json-pointer is the least set of ends that has the starts and is closed *)
(* under a slash and a token.                                              *)
(***************************************************************************)
LEMMA JsonPointerIs ==
  ASSUME text \in Seq(Byte), NEW I, I \in SUBSET (0..Len(text))
  PROVE  /\ jsonPointer(I) \in SUBSET (0..Len(text))
         /\ I \subseteq jsonPointer(I) /\ PointerClosed(jsonPointer(I))
         /\ \A C \in SUBSET (0..Len(text)) : I \subseteq C /\ PointerClosed(C) => jsonPointer(I) \subseteq C
<1> PICK n \in Nat : n = Len(text)
  OBVIOUS
<1>1. PICK F : F = [J \in SUBSET (0..n) |-> referenceToken(slash(J))]
  OBVIOUS
<1>2. ASSUME NEW J \in SUBSET (0..n)
      PROVE  /\ referenceToken(slash(J)) \in SUBSET (0..n)
             /\ slash(J) \subseteq referenceToken(slash(J))
             /\ TokenClosed(referenceToken(slash(J)))
             /\ \A C \in SUBSET (0..n) : slash(J) \subseteq C /\ TokenClosed(C) => referenceToken(slash(J)) \subseteq C
  <2>1. slash(J) \in SUBSET (0..n)
    BY SlashIs
  <2> QED BY <2>1, ReferenceTokenIs
<1>3. F \in [SUBSET (0..n) -> SUBSET (0..n)]
  <2>1. \A J \in SUBSET (0..n) : referenceToken(slash(J)) \in SUBSET (0..n)
    BY <1>2
  <2> QED BY <1>1, <2>1
<1>4. ASSUME NEW J \in SUBSET (0..n), NEW K \in SUBSET (0..n), J \subseteq K
      PROVE  F[J] \subseteq F[K]
  <2>1. slash(J) \subseteq slash(K)
    <3> SUFFICES ASSUME NEW j, j \in slash(J)
                 PROVE  j \in slash(K)
      OBVIOUS
    <3>1. \E p \in J : p < Len(text) /\ At(text, p) = Slash /\ j = p + 1
      BY SlashIs
    <3>2. \E p \in K : p < Len(text) /\ At(text, p) = Slash /\ j = p + 1
      BY <1>4, <3>1
    <3> QED BY <3>2, SlashIs
  <2>2. slash(J) \subseteq referenceToken(slash(K))
    BY <1>2, <2>1
  <2>3. referenceToken(slash(J)) \subseteq referenceToken(slash(K))
    BY <1>2, <2>2
  <2> QED BY <1>1, <2>3
<1>5. \A C \in SUBSET (0..n) : F[C] \subseteq C <=> PointerClosed(C)
  BY <1>1 DEF PointerClosed
<1> DEFINE Eq(v) == v = [J \in SUBSET (0..n) |-> LET K == J \cup referenceToken(slash(J))
                                                IN  IF K = J THEN J ELSE v[K]]
<1>6. \A v : Eq(v) <=> Closes(n, F, v)
  <2> TAKE v
  <2>1. [J \in SUBSET (0..n) |-> LET K == J \cup referenceToken(slash(J))
                                 IN  IF K = J THEN J ELSE v[K]]
          = [J \in SUBSET (0..n) |-> LET K == J \cup F[J] IN IF K = J THEN J ELSE v[K]]
    BY <1>1
  <2> QED BY <2>1 DEF Closes
<1>7. /\ \E v : Closes(n, F, v)
      /\ \A v : Closes(n, F, v) => \A J \in SUBSET (0..n) : LeastClosed(n, F, J, v[J])
  <2>1. Widens(n, F)
    BY <1>3, <1>4 DEF Widens
  <2> QED BY <2>1, ClosureIs
<1>8. PICK v : v = CHOOSE u : Eq(u)
  OBVIOUS
<1>9. jsonPointer(I) = v[I]
  BY <1>8 DEF jsonPointer, Many
<1> HIDE DEF Eq
<1>10. Closes(n, F, v)
  BY <1>6, <1>7, <1>8
<1>11. PICK M : M = v[I]
  OBVIOUS
<1>12. /\ M \in SUBSET (0..n) /\ I \subseteq M /\ F[M] \subseteq M
       /\ \A C \in SUBSET (0..n) : I \subseteq C /\ F[C] \subseteq C => M \subseteq C
  BY <1>7, <1>10, <1>11 DEF LeastClosed
<1> QED BY <1>5, <1>9, <1>11, <1>12

(* T has the positions where a pointer starts, W where the token that      *)
(* starts at a position ends.                                              *)
Pointers(T, W) ==
  LET n == Len(text)
  IN  /\ n \in T
      /\ \A p \in 0..n :
           /\ W[p] \in p..n /\ Token(W[p]) = 0
           /\ W[p] = IF Token(p) = 0 THEN p ELSE W[p + Token(p)]
           /\ p # n => (p \in T <=> At(text, p) = Slash /\ W[p + 1] \in T)
           /\ parse_json_pointer(text, p, n) <=> p \in T

(***************************************************************************)
(* parse_json_pointer as a set of positions: T has those from which it     *)
(* succeeds, W[p] is where the token at p ends.                            *)
(***************************************************************************)
LEMMA TokensAre ==
  ASSUME text \in Seq(Byte)
  PROVE  \E T \in SUBSET (0..Len(text)), W \in [0..Len(text) -> 0..Len(text)] : Pointers(T, W)
<1> DEFINE n == Len(text)
<1>0. n \in Nat
  OBVIOUS
<1>1. PICK W \in [0..n -> 0..n] :
        \A p \in 0..n :
          /\ W[p] \in p..n /\ Token(W[p]) = 0
          /\ W[p] = IF Token(p) = 0 THEN p ELSE W[p + Token(p)]
          /\ Repeat(LAMBDA q : token_char(text, q, n), p, n) = W[p]
  BY TokenRuns
<1>2. PICK B, H, G : /\ B = {n} /\ H = {p \in 0..n : p # n /\ At(text, p) = Slash}
                  /\ G = [p \in 0..n |-> IF p = n THEN n ELSE W[p + 1]]
  OBVIOUS
<1>3. \A p \in 0..n : p # n => p + 1 \in 0..n /\ W[p + 1] \in (p + 1)..n
  <2> TAKE p \in 0..n
  <2> HAVE p # n
  <2>1. PICK r \in 0..n : r = p + 1
    OBVIOUS
  <2>2. W[r] \in r..n
    BY <1>1
  <2> QED BY <2>1, <2>2
<1>4. H \in SUBSET (0..n) /\ G \in [0..n -> 0..n] /\ \A p \in H : G[p] \in (p + 1)..n
  <2>1. \A p \in 0..n : (IF p = n THEN n ELSE W[p + 1]) \in 0..n
    BY <1>3
  <2>2. \A p \in 0..n : p # n => G[p] = W[p + 1]
    BY <1>2
  <2> QED BY <1>2, <1>3, <2>1, <2>2
<1>5. PICK T \in SUBSET (0..n) : JumpsFrom(n, B, H, G, T)
  BY <1>0, <1>4, JumpIs
<1> USE DEF JumpsFrom
<1>6. \A p \in 0..n : p # n => (p \in T <=> At(text, p) = Slash /\ W[p + 1] \in T)
  BY <1>2, <1>5
<1>7. ASSUME NEW p \in 0..n
      PROVE  parse_json_pointer(text, p, n) <=> p \in T
  <2> DEFINE Rep(q) == Repeat(LAMBDA r : token_char(text, r, n), q + 1, n)
             Eq(tok) == tok = [q \in p..n |-> \/ q = n
                                              \/ At(text, q) = Slash /\ tok[Rep(q)]]
  <2>1. ASSUME NEW tok
        PROVE  Eq(tok) <=> Jumps(p, n, B, H, G, tok)
    <3>1. ASSUME NEW q \in p..n
          PROVE  (q = n \/ (At(text, q) = Slash /\ tok[Rep(q)])) = (q \in B \/ (q \in H /\ tok[G[q]]))
      <4>1. CASE q = n
        <5>1. q \in B
          BY <1>2, <4>1
        <5> HIDE DEF Rep
        <5> QED BY <4>1, <5>1
      <4>2. CASE q # n
        <5>1. q \in 0..n /\ q + 1 \in 0..n
          BY <1>3, <4>2
        <5>2. Rep(q) = W[q + 1]
          BY <1>1, <5>1
        <5> HIDE DEF Rep
        <5>3. G[q] = W[q + 1] /\ (q \in H <=> At(text, q) = Slash)
          BY <1>2, <4>2, <5>1
        <5>4. tok[Rep(q)] = tok[G[q]]
          BY <5>2, <5>3
        <5>5. q \notin B
          BY <1>2, <4>2
        <5> QED BY <4>2, <5>3, <5>4, <5>5
      <4> QED BY <4>1, <4>2
    <3> HIDE DEF Rep
    <3>2. [q \in p..n |-> q = n \/ (At(text, q) = Slash /\ tok[Rep(q)])]
            = [q \in p..n |-> q \in B \/ (q \in H /\ tok[G[q]])]
      BY <3>1, Zenon
    <3> QED BY <3>2 DEF Jumps
  <2>2. PICK v : v = CHOOSE tok : Eq(tok)
    OBVIOUS
  <2>3. parse_json_pointer(text, p, n) <=> v[p]
    BY <2>2 DEF parse_json_pointer
  <2> HIDE DEF Eq
  <2>4. Jumps(p, n, B, H, G, v)
    BY <1>5, <2>1, <2>2
  <2> QED BY <1>5, <2>3, <2>4
<1>8. Pointers(T, W)
  <2>1. n \in T
    BY <1>2, <1>5
  <2> QED BY <1>1, <1>6, <1>7, <2>1 DEF Pointers
<1> QED BY <1>8

(***************************************************************************)
(* A pointer of the grammar reaches the end from I exactly when the parser *)
(* succeeds from a member of I: the positions from which it fails are      *)
(* closed under the grammar, and a greatest end from which it succeeds is  *)
(* the end of the text.                                                    *)
(***************************************************************************)
LEMMA PointerIs ==
  ASSUME text \in Seq(Byte), NEW I, I \in SUBSET (0..Len(text))
  PROVE  Len(text) \in jsonPointer(I) <=> \E p \in I : parse_json_pointer(text, p, Len(text))
<1> PICK n \in Nat : n = Len(text)
  OBVIOUS
<1>1. PICK T \in SUBSET (0..n), W \in [0..n -> 0..n] : Pointers(T, W)
  BY TokensAre
<1>2. /\ n \in T
      /\ \A p \in 0..n :
           /\ W[p] \in p..n /\ Token(W[p]) = 0
           /\ W[p] = IF Token(p) = 0 THEN p ELSE W[p + Token(p)]
           /\ p # n => (p \in T <=> At(text, p) = Slash /\ W[p + 1] \in T)
           /\ parse_json_pointer(text, p, n) <=> p \in T
  BY <1>1 DEF Pointers
<1>3. \A p \in I : parse_json_pointer(text, p, n) <=> p \in T
  BY <1>2
<1>4. ASSUME NEW p \in 0..n
      PROVE  Token(p) \in Nat /\ p + Token(p) \in 0..n
  BY TokenFits
<1>5. Token(n) = 0 /\ \A p \in 0..n : At(text, p) = Slash => Token(p) = 0
  BY DEF Token, token_char
<1>6. \A p \in 0..n : p # n => p + 1 \in 0..n
  OBVIOUS
(* Where no pointer starts, none starts after a slash and a token.         *)
<1>7. ASSUME NEW p \in I, n \in jsonPointer(I), \A q \in I : q \notin T
      PROVE  FALSE
  <2>1. PICK C : C = {j \in 0..n : j \notin T}
    OBVIOUS
  <2>2. PICK D : D = {k \in 0..n : W[k] \notin T}
    OBVIOUS
  <2>3. TokenClosed(D)
    <3>1. ASSUME NEW q \in D, Token(q) # 0
          PROVE  q + Token(q) \in D
      <4>1. q \in 0..n /\ W[q] \notin T /\ W[q] = W[q + Token(q)]
        BY <1>2, <2>2, <3>1
      <4>2. q + Token(q) \in 0..n
        BY <1>4, <4>1
      <4> QED BY <2>2, <4>1, <4>2
    <3> QED BY <3>1 DEF TokenClosed
  <2>4. slash(C) \subseteq D
    <3>1. ASSUME NEW j \in slash(C)
          PROVE  j \in D
      <4>1. C \in SUBSET (0..Len(text))
        BY <2>1
      <4>2. PICK q \in C : q < n /\ At(text, q) = Slash /\ j = q + 1
        BY <4>1, SlashIs
      <4>3. q \in 0..n /\ q # n /\ q \notin T
        BY <2>1, <4>2
      <4>4. W[q + 1] \notin T /\ q + 1 \in 0..n
        BY <1>2, <1>6, <4>2, <4>3
      <4> QED BY <2>2, <4>2, <4>4
    <3> QED BY <3>1
  <2>5. D \subseteq C
    <3>1. ASSUME NEW k \in D
          PROVE  k \notin T
      <4>1. k \in 0..n /\ W[k] \notin T
        BY <2>2
      <4>2. CASE Token(k) = 0
        BY <1>2, <4>1, <4>2
      <4>3. CASE Token(k) # 0
        <5>1. k # n /\ At(text, k) # Slash
          BY <1>5, <4>1, <4>3
        <5> QED BY <1>2, <4>1, <5>1
      <4> QED BY <4>2, <4>3
    <3> QED BY <2>1, <2>2, <3>1
  <2>6. PointerClosed(C)
    <3>1. slash(C) \in SUBSET (0..Len(text)) /\ D \in SUBSET (0..Len(text))
      BY <2>1, <2>2, SlashIs
    <3>2. referenceToken(slash(C)) \subseteq D
      BY <2>3, <2>4, <3>1, ReferenceTokenIs
    <3> QED BY <2>5, <3>2 DEF PointerClosed
  <2>7. I \subseteq C /\ C \in SUBSET (0..Len(text))
    BY <1>7, <2>1
  <2>8. n \in C
    BY <1>7, <2>6, <2>7, JsonPointerIs
  <2> QED BY <1>2, <2>1, <2>8
(* From where a pointer starts, its tokens lead to the end.                *)
<1>8. ASSUME NEW p \in I, p \in T
      PROVE  n \in jsonPointer(I)
  <2>1. PICK M : M = jsonPointer(I)
    OBVIOUS
  <2>2. M \in SUBSET (0..n) /\ I \subseteq M /\ PointerClosed(M)
    BY <2>1, JsonPointerIs
  <2>3. PICK R : R = M \cap T
    OBVIOUS
  <2>4. R \subseteq 0..n /\ R # {}
    BY <1>8, <2>2, <2>3
  <2>5. PICK x \in R : \A y \in R : y <= x
    BY <2>4, Greatest
  <2>6. CASE x = n
    BY <2>1, <2>3, <2>6
  <2>7. CASE x # n
    <3>1. x \in 0..n /\ x \in T /\ x \in M /\ At(text, x) = Slash /\ W[x + 1] \in T /\ x + 1 \in 0..n
      BY <1>2, <1>6, <2>3, <2>4, <2>7
    <3>2. PICK b \in 0..n : b = x + 1
      BY <3>1
    <3>3. b \in slash(M)
      <4>1. x < n
        BY <2>7, <3>1
      <4> QED BY <2>2, <3>1, <3>2, <4>1, SlashIs
    <3>4. PICK N : N = referenceToken(slash(M))
      OBVIOUS
    <3>5. N \in SUBSET (0..n) /\ slash(M) \subseteq N /\ TokenClosed(N)
      <4>1. slash(M) \in SUBSET (0..Len(text))
        BY <2>2, SlashIs
      <4> QED BY <3>4, <4>1, ReferenceTokenIs
    <3>6. PICK K : K = {k \in N : W[k] = W[b]}
      OBVIOUS
    <3>7. K \subseteq 0..n /\ b \in K
      BY <3>3, <3>5, <3>6
    <3>8. PICK k \in K : \A y \in K : y <= k
      BY <3>7, Greatest
    <3>9. Token(k) = 0
      <4>1. SUFFICES ASSUME Token(k) # 0 PROVE FALSE
        OBVIOUS
      <4>2. k \in 0..n /\ k \in N /\ W[k] = W[b]
        BY <3>6, <3>7
      <4>3. PICK y : y = k + Token(k)
        OBVIOUS
      <4>4. y \in N /\ W[y] = W[b]
        BY <1>2, <3>5, <4>1, <4>2, <4>3 DEF TokenClosed
      <4>5. y \in K
        BY <3>6, <4>4
      <4>6. y > k
        BY <1>4, <4>1, <4>2, <4>3
      <4>7. y <= k /\ k \in Nat /\ y \in Nat
        BY <3>7, <3>8, <4>5
      <4> QED BY <4>6, <4>7
    <3>10. k = W[b] /\ k \in N
      BY <1>2, <3>6, <3>7, <3>9
    <3>11. k \in M
      BY <2>2, <3>4, <3>10 DEF PointerClosed
    <3>12. k \in R /\ k \in b..n
      BY <1>2, <2>3, <3>1, <3>2, <3>10, <3>11
    <3>13. k <= x
      BY <2>5, <3>12
    <3> QED BY <3>1, <3>2, <3>12, <3>13
  <2> QED BY <2>6, <2>7
<1>9. (\A q \in I : q \notin T) => n \notin jsonPointer(I)
  <2>1. CASE I = {}
    <3>1. PICK C \in SUBSET (0..n) : C = {}
      OBVIOUS
    <3>2. slash(C) = {}
      BY <3>1, SlashIs
    <3>3. TokenClosed(C)
      BY <3>1 DEF TokenClosed
    <3>4. referenceToken(slash(C)) \subseteq C
      BY <3>1, <3>2, <3>3, ReferenceTokenIs
    <3>5. jsonPointer(I) \subseteq C
      BY <2>1, <3>1, <3>4, JsonPointerIs DEF PointerClosed
    <3> QED BY <3>1, <3>5
  <2>2. CASE I # {}
    BY <1>7, <2>2
  <2> QED BY <2>1, <2>2
<1>10. n \in jsonPointer(I) <=> \E p \in I : p \in T
  BY <1>8, <1>9
<1> QED BY <1>3, <1>10

(***************************************************************************)
(* A pointer is empty or starts with a slash.                              *)
(***************************************************************************)
LEMMA PointerStarts ==
  ASSUME text \in Seq(Byte), NEW p \in 0..Len(text)
  PROVE  /\ p = Len(text) => parse_json_pointer(text, p, Len(text))
         /\ parse_json_pointer(text, p, Len(text)) => p = Len(text) \/ At(text, p) = Slash
<1>1. PICK T \in SUBSET (0..Len(text)), W \in [0..Len(text) -> 0..Len(text)] : Pointers(T, W)
  BY TokensAre
<1> QED BY <1>1 DEF Pointers

(***************************************************************************)
(* The parser of a relative pointer takes all the digits and then asks for *)
(* "#", a pointer or the end: no digit can start these, so stopping sooner *)
(* would not help.                                                         *)
(***************************************************************************)
LEMMA RelativeIs ==
  ASSUME text \in Seq(Byte)
  PROVE  parse_relative_json_pointer(text) <=> Len(text) \in relativeJsonPointer({0})
<1> PICK n \in Nat : n = Len(text)
  OBVIOUS
<1>1. PICK A, Z, F, J, H : /\ A = {0} /\ Z = {Zero} /\ F = Digit \ {Zero}
                           /\ J = nonNegative(A) /\ H = {Hash}
  OBVIOUS
<1>2. A \in SUBSET Nat
  BY <1>1
<1>3. PICK S : S = Char(F, A)
  OBVIOUS
<1>4. \A j : j \in S <=> j = 1 /\ 1 <= n /\ At(text, 0) \in Digit \ {Zero}
  <2> TAKE j
  <2>1. j \in S <=> j \in Nat /\ j - 1 \in A /\ j <= n /\ At(text, j - 1) \in F
    BY <1>2, <1>3, CharAt
  <2>2. j \in Nat /\ j - 1 \in A <=> j = 1
    BY <1>1
  <2>3. j = 1 => j - 1 = 0
    OBVIOUS
  <2> QED BY <1>1, <2>1, <2>2, <2>3
<1>5. \A j : j \in Char(Z, A) <=> j = 1 /\ 1 <= n /\ At(text, 0) = Zero
  <2> TAKE j
  <2>1. j \in Char(Z, A) <=> j \in Nat /\ j - 1 \in A /\ j <= n /\ At(text, j - 1) \in Z
    BY <1>2, CharAt
  <2>2. j \in Nat /\ j - 1 \in A <=> j = 1
    BY <1>1
  <2>3. j = 1 => j - 1 = 0
    OBVIOUS
  <2> QED BY <1>1, <2>1, <2>2, <2>3
<1>6. \A j : j \in Many(digit, S) <=>
        j \in 0..n /\ \E i \in S : i <= j /\ \A k \in i..(j - 1) : At(text, k) \in Digit
  <2>1. S \in SUBSET (0..Len(text))
    BY <1>4
  <2> QED BY <2>1, ManyDigits
<1>7. \A j : j \in J <=>
        \/ j = 1 /\ 1 <= n /\ At(text, 0) = Zero
        \/ /\ j \in 1..n /\ At(text, 0) \in Digit \ {Zero}
           /\ \A k \in 1..(j - 1) : At(text, k) \in Digit
  <2>1. J = Char(Z, A) \cup Many(digit, S)
    BY <1>1, <1>3 DEF nonNegative
  <2> QED BY <1>4, <1>5, <1>6, <2>1
<1>8. relativeJsonPointer({0}) = Char(H, J) \cup jsonPointer(J)
  BY <1>1 DEF relativeJsonPointer
<1>9. J \in SUBSET (0..n) /\ J \in SUBSET Nat
  BY <1>7
<1>10. n \in jsonPointer(J) <=> \E p \in J : parse_json_pointer(text, p, n)
  BY <1>9, PointerIs
<1>11. n \in Char(H, J) <=> n - 1 \in J /\ At(text, n - 1) = Hash
  <2>1. n \in Char(H, J) <=> n \in Nat /\ n - 1 \in J /\ n <= n /\ At(text, n - 1) \in H
    BY <1>9, CharAt
  <2> QED BY <1>1, <2>1
<1>12. Hash \notin Digit /\ Slash \notin Digit /\ Hash # Slash /\ Zero \in Digit
  BY DEF Hash, Slash, Digit, Zero, Nine
<1>13. PICK pos : pos = IF At(text, 0) = Zero THEN 1 ELSE Skip(text, 1, n, Digit)
  OBVIOUS
<1>14. parse_relative_json_pointer(text) <=>
         /\ n > 0 /\ At(text, 0) \in Digit
         /\ \/ pos = n
            \/ At(text, pos) = Hash /\ pos + 1 = n
            \/ At(text, pos) # Hash /\ parse_json_pointer(text, pos, n)
  BY <1>13 DEF parse_relative_json_pointer
<1>15. CASE ~(n > 0 /\ At(text, 0) \in Digit)
  <2>1. J = {}
    BY <1>7, <1>12, <1>15
  <2> QED BY <1>8, <1>10, <1>11, <1>14, <1>15, <2>1
<1>16. CASE n > 0 /\ At(text, 0) \in Digit
  <2>1. /\ pos \in J /\ pos \in 1..n
        /\ \A p \in J : p # pos => p \in 0..(n - 1) /\ At(text, p) \in Digit
    <3>1. CASE At(text, 0) = Zero
      BY <1>7, <1>13, <1>16, <3>1
    <3>2. CASE At(text, 0) # Zero
      <4>1. PICK one : one = 1
        OBVIOUS
      <4>2. n \in 0..Len(text) /\ one \in 0..n
        BY <1>16, <4>1
      <4>3. PICK i \in one..n : /\ Skip(text, one, n, Digit) = i
                                /\ i = n \/ At(text, i) \notin Digit
                                /\ \A j \in one..(i - 1) : At(text, j) \in Digit
        BY <4>2, SkipIs
      <4>4. pos = i
        BY <1>13, <3>2, <4>1, <4>3
      <4>5. pos \in J /\ pos \in 1..n
        BY <1>7, <1>16, <3>2, <4>1, <4>3, <4>4
      <4>6. ASSUME NEW p \in J, p # pos
            PROVE  p \in 0..(n - 1) /\ At(text, p) \in Digit
        <5>1. p \in 1..n /\ \A k \in 1..(p - 1) : At(text, k) \in Digit
          BY <1>7, <3>2
        <5>2. p <= pos
          <6>1. SUFFICES ASSUME pos < p PROVE FALSE
            BY <4>5, <5>1
          <6>2. pos \in 1..(p - 1) /\ pos # n
            BY <4>5, <5>1, <6>1
          <6> QED BY <4>3, <4>4, <5>1, <6>2
        <5>3. p \in one..(i - 1)
          BY <4>1, <4>4, <4>5, <4>6, <5>1, <5>2
        <5>4. p \in 0..(n - 1)
          BY <4>5, <4>6, <5>1, <5>2
        <5> QED BY <4>3, <5>3, <5>4
      <4> QED BY <4>5, <4>6
    <3> QED BY <3>1, <3>2
  <2>2. ASSUME NEW p \in J, p # pos
        PROVE  /\ ~parse_json_pointer(text, p, n)
               /\ ~(p = n - 1 /\ At(text, n - 1) = Hash)
    <3>1. p \in 0..(n - 1) /\ At(text, p) \in Digit
      BY <2>1, <2>2
    <3>2. p \in 0..Len(text) /\ p # Len(text) /\ At(text, p) # Slash /\ At(text, p) # Hash
      BY <1>12, <3>1
    <3> QED BY <3>2, PointerStarts
  <2>3. pos = n => parse_json_pointer(text, pos, n)
    BY <2>1, PointerStarts
  <2>4. parse_json_pointer(text, pos, n) => pos = n \/ At(text, pos) = Slash
    BY <2>1, PointerStarts
  <2>5. n \in jsonPointer(J) <=> parse_json_pointer(text, pos, n)
    BY <1>10, <2>1, <2>2
  <2>6. n \in Char(H, J) <=> pos = n - 1 /\ At(text, pos) = Hash
    BY <1>11, <2>1, <2>2
  <2>7. pos = n - 1 <=> pos + 1 = n
    BY <2>1
  <2> QED BY <1>8, <1>12, <1>14, <1>16, <2>3, <2>4, <2>5, <2>6, <2>7
<1> QED BY <1>15, <1>16

(***************************************************************************)
(* PointersExact: the json-pointer and relative-json-pointer formats       *)
(* answer true of exactly the texts RFC 6901 and the draft of relative     *)
(* pointers have, for every text.                                          *)
(***************************************************************************)
THEOREM PointersAlwaysExact == TextsSpec => []PointersExact
<1>1. TextOK => PointersExact
  <2> SUFFICES ASSUME TextOK
               PROVE  /\ parse_json_pointer(text, 0, Len(text)) <=> Len(text) \in jsonPointer({0})
                      /\ parse_relative_json_pointer(text) <=> Len(text) \in relativeJsonPointer({0})
    BY DEF PointersExact, Passes, Whole
  <2>1. text \in Seq(Byte)
    BY DEF TextOK
  <2>2. PICK A : A = {0}
    OBVIOUS
  <2>3. A \in SUBSET (0..Len(text))
    BY <2>1, <2>2
  <2>4. Len(text) \in jsonPointer(A) <=> \E p \in A : parse_json_pointer(text, p, Len(text))
    BY <2>1, <2>3, PointerIs
  <2> QED BY <2>1, <2>2, <2>4, RelativeIs
<1> QED BY <1>1, TextsOK, PTL

-----------------------------------------------------------------------------

(***************************************************************************)
(* The host names (hostname_parser.c).                                     *)
(***************************************************************************)

(* The length of a letter or digit at q, or 0; of one or a hyphen.         *)
Edge(u, q) == IF q < Len(text) THEN consume_label_char(text, q, Len(text), u, FALSE) ELSE 0
Inner(u, q) == IF q < Len(text) THEN consume_label_char(text, q, Len(text), u, TRUE) ELSE 0

(***************************************************************************)
(* consume_label_char takes a letter, a digit or a whole UTF-8 character,  *)
(* and a hyphen where one is allowed.                                      *)
(***************************************************************************)
LEMMA LabelCharIs ==
  ASSUME text \in Seq(Byte), NEW u \in BOOLEAN, NEW q \in 0..Len(text)
  PROVE  /\ Edge(u, q) \in Nat /\ q + Edge(u, q) <= Len(text)
         /\ Inner(u, q) \in Nat /\ q + Inner(u, q) <= Len(text)
         /\ q = Len(text) \/ At(text, q) = Dot => Inner(u, q) = 0
         /\ Edge(u, q) # 0 =>
              /\ Inner(u, q) = Edge(u, q)
              /\ At(text, q + Edge(u, q) - 1) # Hyphen
         /\ Inner(u, q) # 0 =>
              \/ Inner(u, q) = Edge(u, q)
              \/ Inner(u, q) = 1 /\ At(text, q) = Hyphen
         /\ Inner(u, q) # 0 <=>
              Edge(u, q) # 0 \/ (q < Len(text) /\ At(text, q) = Hyphen)
         /\ \A j : Edge(u, q) # 0 /\ j = q + Edge(u, q) <=>
                     \/ j = q + 1 /\ q < Len(text) /\ At(text, q) \in Alpha \cup Digit
                     \/ u /\ \E k \in 2..4 : Encodes(text, q, Len(text), k) /\ j = q + k
<1> PICK n \in Nat : n = Len(text)
  OBVIOUS
<1>9. PICK d, h : d = Edge(u, q) /\ h = Inner(u, q)
  OBVIOUS
<1>0. q \in Nat
  OBVIOUS
<1> DEFINE Small == d \in Nat /\ q + d <= n /\ h \in Nat /\ q + h <= n
           Stops == q = n \/ At(text, q) = Dot => h = 0
           Same == d # 0 => h = d /\ At(text, q + d - 1) # Hyphen
           Hyph == h # 0 => h = d \/ (h = 1 /\ At(text, q) = Hyphen)
           Both == h # 0 <=> d # 0 \/ (q < n /\ At(text, q) = Hyphen)
           Gram == \A j : d # 0 /\ j = q + d <=>
                               \/ j = q + 1 /\ q < n /\ At(text, q) \in Alpha \cup Digit
                               \/ u /\ \E k \in 2..4 : Encodes(text, q, n, k) /\ j = q + k
           Says == Small /\ Stops /\ Same /\ Hyph /\ Both /\ Gram
<1>1. ASSUME ~(q < n) PROVE Says
  <2>1. d = 0 /\ h = 0
    BY <1>1, <1>9 DEF Edge, Inner
  <2>2. \A k \in 2..4 : ~Encodes(text, q, n, k)
    BY <1>1 DEF Encodes
  <2>3. q + 0 <= n
    BY <1>0
  <2>4. \A j : ~\E k \in 2..4 : Encodes(text, q, n, k) /\ j = q + k
    BY <2>2
  <2>5. Small /\ Stops /\ Same /\ Hyph /\ Both
    BY <1>1, <2>1, <2>3
  <2>6. Gram
    BY <1>1, <2>1, <2>4
  <2> QED BY <2>5, <2>6
<1>2. ASSUME q < n PROVE Says
  <2>1. PICK c \in 0..255 : c = At(text, q)
    BY <1>0, <1>2, BytesAt
  <2>2. ExactAt(text, q, n)
    BY <1>0, <1>2, <2>1, ExactOnBytes
  <2>3. PICK m : m = utf8_seq_len(text, q, n)
    OBVIOUS
  <2>4. m \in 0..4 /\ \A k \in 1..4 : m = k <=> Encodes(text, q, n, k)
    BY <2>2, <2>3 DEF ExactAt
  <2>5. c \in Ascii <=> m = 1
    <3>1. Announced(c) \in 0..4 /\ (c \in Ascii <=> Announced(c) = 1)
      BY <2>1 DEF Announced, Ascii
    <3>2. m = 1 => Announced(c) = 1
      BY <1>2, <2>1, <2>3 DEF utf8_seq_len
    <3>3. Announced(c) = 1 => m = 1
      BY <1>0, <1>2, <2>1, <2>3 DEF utf8_seq_len
    <3> QED BY <3>1, <3>2, <3>3
  <2>6. /\ d = IF c \in Ascii THEN IF c \in LetDig THEN 1 ELSE 0 ELSE IF u THEN m ELSE 0
        /\ h = IF c \in Ascii THEN IF c \in LetDig \/ c = Hyphen THEN 1 ELSE 0 ELSE IF u THEN m ELSE 0
    BY <1>2, <1>9, <2>1, <2>3 DEF Edge, Inner, consume_label_char
  <2>7. /\ Hyphen \in Ascii /\ Hyphen \notin LetDig /\ Dot \in Ascii /\ Dot \notin LetDig /\ Dot # Hyphen
        /\ LetDig = Alpha \cup Digit /\ LetDig \subseteq Ascii
    BY DEF Hyphen, Ascii, LetDig, Alpha, Digit, Dot, Zero, Nine
  <2>8. \A j : (\E k \in 2..4 : Encodes(text, q, n, k) /\ j = q + k) <=> m \in 2..4 /\ j = q + m
    BY <2>4
  <2>9. q + 1 - 1 = q /\ q + 1 <= n /\ q # n /\ q + 0 <= n
    BY <1>0, <1>2
  <2>10. CASE c \in Ascii
    <3>1. m \notin 2..4
      BY <2>5, <2>10
    <3>2. /\ d = IF c \in LetDig THEN 1 ELSE 0
          /\ h = IF c \in LetDig \/ c = Hyphen THEN 1 ELSE 0
      BY <2>6, <2>10
    <3>3. d \in {0, 1} /\ h \in {0, 1}
      BY <3>2
    <3>4. d # 0 => h = d /\ c \in LetDig /\ d = 1
      BY <3>2
    <3>5. Small
      BY <1>0, <2>9, <3>3
    <3>6. Stops
      BY <2>1, <2>7, <2>9, <3>2
    <3>7. Hyph /\ Both
      BY <1>2, <2>1, <3>2
    <3>8. Same
      BY <2>1, <2>7, <2>9, <3>4
    <3>9. \A j : ~\E k \in 2..4 : Encodes(text, q, n, k) /\ j = q + k
      BY <2>8, <3>1
    <3>10. Gram
      <4>1. \A j : d # 0 /\ j = q + d <=> j = q + 1 /\ c \in LetDig
        BY <3>2
      <4>2. \A j : j = q + 1 /\ c \in LetDig <=> j = q + 1 /\ q < n /\ At(text, q) \in Alpha \cup Digit
        BY <1>2, <2>1, <2>7
      <4> QED BY <3>9, <4>1, <4>2
    <3> QED BY <3>5, <3>6, <3>7, <3>8, <3>10
  <2>11. CASE c \notin Ascii
    <3>1. m \in {0, 2, 3, 4} /\ (m # 0 <=> m \in 2..4)
      BY <2>4, <2>5, <2>11
    <3>2. d = IF u THEN m ELSE 0
      BY <2>6, <2>11
    <3>3. h = d
      BY <2>6, <2>11
    <3>4. c # Hyphen /\ c # Dot /\ c \notin Alpha \cup Digit
      BY <2>7, <2>11
    <3>5. ASSUME m # 0
          PROVE  q + m <= n /\ At(text, q + m - 1) # Hyphen
      <4>1. Encodes(text, q, n, m) /\ m - 1 \in 1..(m - 1)
        BY <2>4, <3>1, <3>5
      <4>2. q + m - 1 = q + (m - 1)
        BY <1>0, <3>1
      <4>3. At(text, q + m - 1) \in Continuation /\ q + m <= n
        BY <4>1, <4>2 DEF Encodes
      <4>4. Hyphen \notin Continuation
        BY DEF Hyphen, Continuation
      <4> QED BY <4>3, <4>4
    <3>6. Small /\ Same
      BY <2>9, <3>1, <3>2, <3>3, <3>5
    <3>7. Stops /\ Hyph /\ Both
      BY <1>2, <2>1, <3>2, <3>3, <3>4, <3>5
    <3>8. Gram
      <4>1. \A j : d # 0 /\ j = q + d <=> u /\ m \in 2..4 /\ j = q + m
        BY <3>1, <3>2
      <4>2. \A j : ~(j = q + 1 /\ q < n /\ At(text, q) \in Alpha \cup Digit)
        BY <2>1, <3>4
      <4> QED BY <2>8, <4>1, <4>2
    <3> QED BY <3>6, <3>7, <3>8
  <2> QED BY <2>10, <2>11
<1>3. Says
  BY <1>1, <1>2
<1> QED BY <1>3, <1>9

(* The grammar's characters from I end where the parser's do.              *)
SameSteps(u, I) ==
  \A j : /\ j \in letDig(u, I) <=> \E q \in I : Edge(u, q) # 0 /\ j = q + Edge(u, q)
         /\ j \in letDigHyp(u, I) <=> \E q \in I : Inner(u, q) # 0 /\ j = q + Inner(u, q)

(***************************************************************************)
(* The grammar and consume_label_char take the same characters from every  *)
(* position.                                                               *)
(***************************************************************************)
LEMMA LabelSteps ==
  ASSUME text \in Seq(Byte), NEW u \in BOOLEAN, NEW I, I \in SUBSET (0..Len(text))
  PROVE  SameSteps(u, I)
<1> SUFFICES ASSUME NEW j
             PROVE  /\ j \in letDig(u, I) <=> \E q \in I : Edge(u, q) # 0 /\ j = q + Edge(u, q)
                    /\ j \in letDigHyp(u, I) <=> \E q \in I : Inner(u, q) # 0 /\ j = q + Inner(u, q)
  BY DEF SameSteps
<1> PICK n \in Nat : n = Len(text)
  OBVIOUS
<1>1. PICK C, H : C = Alpha \cup Digit /\ H = {Hyphen}
  OBVIOUS
<1>2. I \in SUBSET Nat
  OBVIOUS
<1>3. \A X : j \in Char(X, I) <=> \E q \in I : j = q + 1 /\ q < n /\ At(text, q) \in X
  <2> TAKE X
  <2>1. j \in Char(X, I) <=> j \in Nat /\ j - 1 \in I /\ j <= n /\ At(text, j - 1) \in X
    BY <1>2, CharAt
  <2>2. ASSUME j \in Char(X, I)
        PROVE  \E q \in I : j = q + 1 /\ q < n /\ At(text, q) \in X
    <3>1. j = (j - 1) + 1 /\ j - 1 < n
      BY <2>1, <2>2
    <3> QED BY <2>1, <2>2, <3>1
  <2>3. ASSUME NEW q \in I, j = q + 1, q < n, At(text, q) \in X
        PROVE  j \in Char(X, I)
    <3>1. j \in Nat /\ j - 1 = q /\ j <= n
      BY <2>3
    <3> QED BY <2>1, <2>3, <3>1
  <2> QED BY <2>2, <2>3
<1>4. j \in utf8(u, I) <=> \E q \in I : u /\ \E k \in 2..4 : Encodes(text, q, n, k) /\ j = q + k
  BY DEF utf8
<1>5. j \in letDig(u, I) <=> j \in Char(C, I) \/ j \in utf8(u, I)
  BY <1>1 DEF letDig
<1>6. j \in letDigHyp(u, I) <=> j \in letDig(u, I) \/ j \in Char(H, I)
  BY <1>1 DEF letDigHyp
<1>7. ASSUME NEW q \in I
      PROVE  /\ Edge(u, q) # 0 /\ j = q + Edge(u, q) <=>
                  \/ j = q + 1 /\ q < n /\ At(text, q) \in C
                  \/ u /\ \E k \in 2..4 : Encodes(text, q, n, k) /\ j = q + k
             /\ Inner(u, q) # 0 /\ j = q + Inner(u, q) <=>
                  \/ Edge(u, q) # 0 /\ j = q + Edge(u, q)
                  \/ j = q + 1 /\ q < n /\ At(text, q) \in H
  <2>1. q \in 0..Len(text)
    OBVIOUS
  <2>2. PICK d, y : d = Edge(u, q) /\ y = Inner(u, q)
    OBVIOUS
  <2>3. /\ d # 0 => y = d /\ At(text, q + d - 1) # Hyphen
        /\ y # 0 => y = d \/ (y = 1 /\ At(text, q) = Hyphen)
        /\ y # 0 <=> d # 0 \/ (q < n /\ At(text, q) = Hyphen)
        /\ d # 0 /\ j = q + d <=>
                  \/ j = q + 1 /\ q < n /\ At(text, q) \in C
                  \/ u /\ \E k \in 2..4 : Encodes(text, q, n, k) /\ j = q + k
        /\ d \in Nat /\ y \in Nat
    BY <1>1, <2>1, <2>2, LabelCharIs
  <2>4. d # 0 => At(text, q) # Hyphen
    <3>1. CASE q < n
      <4>0. q \in Nat
        OBVIOUS
      <4>1. At(text, q) = Hyphen => d = 0
        BY <2>2, <3>1 DEF Edge, Inner, consume_label_char, Hyphen, Ascii, LetDig, Alpha, Digit, Zero, Nine
      <4> QED BY <4>1
    <3>2. CASE ~(q < n)
      BY <2>2, <3>2 DEF Edge, Inner
    <3> QED BY <3>1, <3>2
  <2>5. y # 0 /\ j = q + y <=> (d # 0 /\ j = q + d) \/ (j = q + 1 /\ q < n /\ At(text, q) = Hyphen)
    <3>1. CASE d # 0
      BY <2>3, <2>4, <3>1
    <3>2. CASE d = 0
      BY <2>3, <3>2
    <3> QED BY <3>1, <3>2
  <2> QED BY <1>1, <2>2, <2>3, <2>5
<1> QED BY <1>3, <1>4, <1>5, <1>6, <1>7

(* C has the end of every letter, digit or hyphen that starts in it.       *)
LabelClosed(u, C) ==
  \A q \in C : Inner(u, q) # 0 => q + Inner(u, q) \in C

(* M is the least set of ends that has I and is closed under one more.     *)
LabelLeast(u, I, M) ==
  /\ M \in SUBSET (0..Len(text)) /\ I \subseteq M /\ LabelClosed(u, M)
  /\ \A C \in SUBSET (0..Len(text)) : I \subseteq C /\ LabelClosed(u, C) => M \subseteq C

(***************************************************************************)
(* *let-dig-hyp is the least set of ends that has the starts and is closed *)
(* under one more character.                                               *)
(***************************************************************************)
LEMMA InnerIs ==
  ASSUME text \in Seq(Byte), NEW u \in BOOLEAN, NEW I, I \in SUBSET (0..Len(text)), NEW M,
         M = Many(LAMBDA J : letDigHyp(u, J), I)
  PROVE  LabelLeast(u, I, M)
<1> PICK n \in Nat : n = Len(text)
  OBVIOUS
<1>1. PICK F : F = [J \in SUBSET (0..n) |-> letDigHyp(u, J)]
  OBVIOUS
<1>h. PICK H : H = [q \in 0..n |-> Inner(u, q)]
  OBVIOUS
<1>w. ASSUME NEW q \in 0..n
      PROVE  H[q] = Inner(u, q) /\ H[q] \in Nat /\ q + H[q] \in 0..n
  <2>1. H[q] = Inner(u, q)
    BY <1>h
  <2>2. Inner(u, q) \in Nat /\ q + Inner(u, q) <= n
    BY LabelCharIs
  <2>3. PICK m : m = H[q]
    OBVIOUS
  <2>4. m \in Nat /\ q + m <= n
    BY <2>1, <2>2, <2>3
  <2>5. q + m \in 0..n
    BY <2>4
  <2> QED BY <2>1, <2>3, <2>4, <2>5
<1>2. ASSUME NEW J \in SUBSET (0..n)
      PROVE  \A j : j \in F[J] <=> \E q \in J : H[q] # 0 /\ j = q + H[q]
  <2> TAKE j
  <2>1. j \in letDigHyp(u, J) <=> \E q \in J : Inner(u, q) # 0 /\ j = q + Inner(u, q)
    <3>1. J \in SUBSET (0..Len(text))
      OBVIOUS
    <3> QED BY <3>1, LabelSteps DEF SameSteps
  <2>2. \A q \in J : H[q] = Inner(u, q)
    BY <1>w
  <2>3. (\E q \in J : Inner(u, q) # 0 /\ j = q + Inner(u, q)) <=>
          \E q \in J : H[q] # 0 /\ j = q + H[q]
    BY <2>2, Zenon
  <2> QED BY <1>1, <2>1, <2>3
<1>3. F \in [SUBSET (0..n) -> SUBSET (0..n)]
  <2>1. ASSUME NEW J \in SUBSET (0..n)
        PROVE  letDigHyp(u, J) \in SUBSET (0..n)
    <3>1. ASSUME NEW j \in F[J]
          PROVE  j \in 0..n
      <4>1. PICK q \in J : j = q + H[q]
        BY <1>2
      <4>2. q \in 0..n
        OBVIOUS
      <4> QED BY <1>w, <4>1, <4>2
    <3> QED BY <1>1, <3>1
  <2> QED BY <1>1, <2>1
<1>4. \A J \in SUBSET (0..n), K \in SUBSET (0..n) : J \subseteq K => F[J] \subseteq F[K]
  BY <1>2
<1>5. \A C \in SUBSET (0..n) : F[C] \subseteq C <=> LabelClosed(u, C)
  <2> TAKE C \in SUBSET (0..n)
  <2>1. F[C] \subseteq C <=> \A q \in C : H[q] # 0 => q + H[q] \in C
    BY <1>2
  <2>2. \A q \in C : H[q] = Inner(u, q)
    BY <1>w
  <2>3. LabelClosed(u, C) <=> \A q \in C : H[q] # 0 => q + H[q] \in C
    BY <2>2, Zenon DEF LabelClosed
  <2> QED BY <2>1, <2>3
<1> DEFINE Eq(v) == v = [J \in SUBSET (0..n) |-> LET K == J \cup letDigHyp(u, J)
                                                IN  IF K = J THEN J ELSE v[K]]
<1>6. \A v : Eq(v) <=> Closes(n, F, v)
  <2> TAKE v
  <2>1. [J \in SUBSET (0..n) |-> LET K == J \cup letDigHyp(u, J)
                                 IN  IF K = J THEN J ELSE v[K]]
          = [J \in SUBSET (0..n) |-> LET K == J \cup F[J] IN IF K = J THEN J ELSE v[K]]
    BY <1>1
  <2> QED BY <2>1 DEF Closes
<1>7. /\ \E v : Closes(n, F, v)
      /\ \A v : Closes(n, F, v) => \A J \in SUBSET (0..n) : LeastClosed(n, F, J, v[J])
  <2>1. Widens(n, F)
    BY <1>3, <1>4 DEF Widens
  <2> QED BY <2>1, ClosureIs
<1>8. PICK v : v = CHOOSE w : Eq(w)
  OBVIOUS
<1>9. M = v[I]
  BY <1>8 DEF Many
<1> HIDE DEF Eq
<1>10. Closes(n, F, v)
  BY <1>6, <1>7, <1>8
<1>11. /\ M \in SUBSET (0..n) /\ I \subseteq M /\ F[M] \subseteq M
       /\ \A C \in SUBSET (0..n) : I \subseteq C /\ F[C] \subseteq C => M \subseteq C
  BY <1>7, <1>9, <1>10 DEF LeastClosed
<1> QED BY <1>5, <1>11 DEF LabelLeast

(* The length of what parse_label takes at q in a label that starts at p.  *)
LabelUnit(u, p, q) == IF q > p THEN Inner(u, q) ELSE Edge(u, q)

(* W says where a label that started at p ends when its scan is at q.      *)
LabelRun(u, p, W) ==
  LET n == Len(text)
  IN  /\ label_run(text, p, n, u) = W[p]
      /\ \A q \in 0..n : /\ W[q] \in q..n
                         /\ LabelUnit(u, p, W[q]) = 0
                         /\ W[q] = IF LabelUnit(u, p, q) = 0 THEN q ELSE W[q + LabelUnit(u, p, q)]

(***************************************************************************)
(* label_run takes the characters of a label one after the other.          *)
(***************************************************************************)
LEMMA LabelRuns ==
  ASSUME text \in Seq(Byte), NEW u \in BOOLEAN, NEW p \in 0..Len(text)
  PROVE  \E W \in [0..Len(text) -> 0..Len(text)] : LabelRun(u, p, W)
<1> DEFINE n == Len(text)
<1>0. n \in Nat
  OBVIOUS
<1>1. PICK U : U = [q \in 0..n |-> LabelUnit(u, p, q)]
  OBVIOUS
<1>2. U \in [0..n -> Nat] /\ \A q \in 0..n : q + U[q] <= n
  <2>1. ASSUME NEW q \in 0..n
        PROVE  LabelUnit(u, p, q) \in Nat /\ q + LabelUnit(u, p, q) <= n
    BY LabelCharIs DEF LabelUnit
  <2> QED BY <1>1, <2>1
<1>3. PICK W \in [0..n -> 0..n] : WalkEnds(n, U, W)
  BY <1>0, <1>2, WalkIs
<1> USE DEF WalkEnds
<1>4. label_run(text, p, n, u) = W[p]
  <2> DEFINE Take(q) == IF At(text, q) = Dot THEN 0 ELSE consume_label_char(text, q, n, u, q > p)
             Eq(last) == last = [q \in p..n |-> LET m == IF q < n THEN Take(q) ELSE 0
                                               IN  IF m = 0 THEN q ELSE last[q + m]]
  <2>0. ASSUME NEW q \in p..n
        PROVE  (IF q < n THEN Take(q) ELSE 0) = U[q]
    <3>1. q \in 0..n
      OBVIOUS
    <3>2. U[q] = LabelUnit(u, p, q)
      BY <1>1, <3>1
    <3>3. CASE q > p
      <4>1. LabelUnit(u, p, q) = Inner(u, q)
        BY <3>3 DEF LabelUnit
      <4>2. (q > p) = TRUE
        BY <3>3
      <4>3. q < n => consume_label_char(text, q, n, u, q > p) = Inner(u, q)
        BY <4>2 DEF Edge, Inner
      <4>4. q < n /\ At(text, q) = Dot => Inner(u, q) = 0
        BY <3>1, LabelCharIs
      <4>5. ~(q < n) => Inner(u, q) = 0
        BY DEF Edge, Inner
      <4> QED BY <3>2, <4>1, <4>3, <4>4, <4>5
    <3>4. CASE ~(q > p)
      <4>1. LabelUnit(u, p, q) = Edge(u, q)
        BY <3>4 DEF LabelUnit
      <4>2. (q > p) = FALSE
        BY <3>4
      <4>3. q < n => consume_label_char(text, q, n, u, q > p) = Edge(u, q)
        BY <4>2 DEF Edge, Inner
      <4>4. q < n /\ At(text, q) = Dot => Edge(u, q) = 0
        <5>1. Edge(u, q) # 0 => Inner(u, q) = Edge(u, q)
          BY <3>1, LabelCharIs
        <5>2. q < n /\ At(text, q) = Dot => Inner(u, q) = 0
          BY <3>1, LabelCharIs
        <5> QED BY <5>1, <5>2
      <4>5. ~(q < n) => Edge(u, q) = 0
        BY DEF Edge, Inner
      <4> QED BY <3>2, <4>1, <4>3, <4>4, <4>5
    <3> QED BY <3>3, <3>4
  <2>1. ASSUME NEW last
        PROVE  Eq(last) <=> Walks(p, n, U, last)
    <3> HIDE DEF Take
    <3>1. [q \in p..n |-> LET m == IF q < n THEN Take(q) ELSE 0
                          IN  IF m = 0 THEN q ELSE last[q + m]]
            = [q \in p..n |-> LET m == U[q] IN IF m = 0 THEN q ELSE last[q + m]]
      BY <2>0
    <3> QED BY <3>1 DEF Walks
  <2>2. PICK v : v = CHOOSE last : Eq(last)
    OBVIOUS
  <2>3. Eq(v)
    <3>1. \E last : Eq(last)
      <4> HIDE DEF Eq
      <4> QED BY <1>3, <2>1
    <3> HIDE DEF Eq
    <3> QED BY <2>2, <3>1
  <2>4. label_run(text, p, n, u) = v[p]
    BY <2>2 DEF label_run, Repeat
  <2> HIDE DEF Eq
  <2> QED BY <1>3, <2>1, <2>3, <2>4
<1>5. \A q \in 0..n : U[q] = LabelUnit(u, p, q) /\ U[W[q]] = LabelUnit(u, p, W[q])
  <2> TAKE q \in 0..n
  <2>1. \A r \in 0..n : U[r] = LabelUnit(u, p, r)
    BY <1>1, Zenon
  <2>2. W[q] \in 0..n
    BY <1>3
  <2> QED BY <2>1, <2>2, Zenon
<1>6. LabelRun(u, p, W)
  <2>1. \A q \in 0..n : W[q] \in q..n /\ U[W[q]] = 0 /\ W[q] = IF U[q] = 0 THEN q ELSE W[q + U[q]]
    BY <1>3
  <2>2. \A q \in 0..n : /\ W[q] \in q..n
                        /\ LabelUnit(u, p, W[q]) = 0
                        /\ W[q] = IF LabelUnit(u, p, q) = 0 THEN q ELSE W[q + LabelUnit(u, p, q)]
    BY <1>5, <2>1, Zenon
  <2> QED BY <1>4, <2>2 DEF LabelRun
<1> QED BY <1>6

(* What is taken stays in the text, and takes no dot; hyphens are all that *)
(* may stand inside a label and not at its edges.                          *)
LabelFits(u, n) ==
  \A q \in 0..n :
    /\ Edge(u, q) \in Nat /\ q + Edge(u, q) \in 0..n
    /\ Inner(u, q) \in Nat /\ q + Inner(u, q) \in 0..n
    /\ q = n \/ At(text, q) = Dot => Inner(u, q) = 0 /\ Edge(u, q) = 0
    /\ Edge(u, q) # 0 => Inner(u, q) = Edge(u, q) /\ At(text, q + Edge(u, q) - 1) # Hyphen
    /\ Inner(u, q) # 0 => Inner(u, q) = Edge(u, q) \/ (Inner(u, q) = 1 /\ At(text, q) = Hyphen)

(***************************************************************************)
(* The characters of a label, at its edges and inside it.                  *)
(***************************************************************************)
LEMMA LabelsFit ==
  ASSUME text \in Seq(Byte), NEW u \in BOOLEAN
  PROVE  LabelFits(u, Len(text))
<1> PICK n \in Nat : n = Len(text)
  OBVIOUS
<1>1. ASSUME NEW q \in 0..n
      PROVE  /\ Edge(u, q) \in Nat /\ q + Edge(u, q) \in 0..n
             /\ Inner(u, q) \in Nat /\ q + Inner(u, q) \in 0..n
             /\ q = n \/ At(text, q) = Dot => Inner(u, q) = 0 /\ Edge(u, q) = 0
             /\ Edge(u, q) # 0 => Inner(u, q) = Edge(u, q) /\ At(text, q + Edge(u, q) - 1) # Hyphen
             /\ Inner(u, q) # 0 => Inner(u, q) = Edge(u, q) \/ (Inner(u, q) = 1 /\ At(text, q) = Hyphen)
  <2>1. PICK d, h : d = Edge(u, q) /\ h = Inner(u, q)
    OBVIOUS
  <2>2. /\ d \in Nat /\ q + d <= n /\ h \in Nat /\ q + h <= n
        /\ q = n \/ At(text, q) = Dot => h = 0
        /\ d # 0 => h = d /\ At(text, q + d - 1) # Hyphen
        /\ h # 0 => h = d \/ (h = 1 /\ At(text, q) = Hyphen)
    BY <2>1, LabelCharIs
  <2>3. q + d \in 0..n /\ q + h \in 0..n
    BY <2>2
  <2> QED BY <2>1, <2>2, <2>3
<1> QED BY <1>1 DEF LabelFits

(* The grammar's label from p, taken apart: first is its first character,  *)
(* M has where one may stand after any more of them.                       *)
LabelSplit(u, p, first, M) ==
  /\ \A j : j \in first <=> Edge(u, p) # 0 /\ j = p + Edge(u, p)
  /\ LabelLeast(u, first, M)
  /\ \A j : j \in label(u, {p}) <=>
              /\ j \in first \/ \E q \in M : Edge(u, q) # 0 /\ j = q + Edge(u, q)
              /\ j - p <= MAX_LABEL_LEN

(***************************************************************************)
(* The label of the grammar from one position, taken apart.                *)
(***************************************************************************)
LEMMA LabelParts ==
  ASSUME text \in Seq(Byte), NEW u \in BOOLEAN, NEW p \in 0..Len(text)
  PROVE  \E first \in SUBSET (0..Len(text)), M \in SUBSET (0..Len(text)) : LabelSplit(u, p, first, M)
<1> PICK n \in Nat : n = Len(text)
  OBVIOUS
<1>1. PICK first : first = letDig(u, {p})
  OBVIOUS
<1>2. \A j : j \in first <=> Edge(u, p) # 0 /\ j = p + Edge(u, p)
  <2> TAKE j
  <2>1. PICK I : I = {p}
    OBVIOUS
  <2>2. I \in SUBSET (0..Len(text))
    BY <2>1
  <2>3. j \in letDig(u, I) <=> \E q \in I : Edge(u, q) # 0 /\ j = q + Edge(u, q)
    <3>1. SameSteps(u, I)
      BY <2>2, LabelSteps
    <3> QED BY <3>1 DEF SameSteps
  <2> QED BY <1>1, <2>1, <2>3
<1>3. first \in SUBSET (0..Len(text))
  <2>1. p + Edge(u, p) \in 0..n
    BY LabelsFit DEF LabelFits
  <2> QED BY <1>2, <2>1
<1>4. PICK M : M = Many(LAMBDA J : letDigHyp(u, J), first)
  OBVIOUS
<1>5. /\ M \in SUBSET (0..Len(text)) /\ first \subseteq M /\ LabelClosed(u, M)
      /\ \A C \in SUBSET (0..Len(text)) : first \subseteq C /\ LabelClosed(u, C) => M \subseteq C
  <2>1. LabelLeast(u, first, M)
    BY <1>3, <1>4, InnerIs
  <2> QED BY <2>1 DEF LabelLeast
<1>6. PICK X : X = letDig(u, M)
  OBVIOUS
<1>7. \A j : j \in X <=> \E q \in M : Edge(u, q) # 0 /\ j = q + Edge(u, q)
  <2>1. SameSteps(u, M)
    BY <1>5, LabelSteps
  <2> QED BY <1>6, <2>1 DEF SameSteps
<1>8. label(u, {p}) = {j \in first \cup X : j - p <= MAX_LABEL_LEN}
  <2>1. label(u, {p}) = UNION {LET f == letDig(u, {i})
         IN  {j \in f \cup letDig(u, Many(LAMBDA J : letDigHyp(u, J), f)) :
                j - i <= MAX_LABEL_LEN} : i \in {p}}
    BY DEF label
  <2>2. label(u, {p}) = {j \in letDig(u, {p}) \cup letDig(u, Many(LAMBDA J : letDigHyp(u, J), letDig(u, {p}))) :
                j - p <= MAX_LABEL_LEN}
    BY <2>1
  <2> QED BY <1>1, <1>4, <1>6, <2>2
<1>9. LabelSplit(u, p, first, M)
  <2>1. LabelLeast(u, first, M)
    BY <1>5 DEF LabelLeast
  <2>2. \A j : j \in label(u, {p}) <=> j \in first \cup X /\ j - p <= MAX_LABEL_LEN
    BY <1>8
  <2> QED BY <1>2, <1>7, <2>1, <2>2 DEF LabelSplit
<1> QED BY <1>3, <1>5, <1>9

(***************************************************************************)
(* Before a dot or the end, a label of the grammar and the one parse_label *)
(* takes are the same. The grammar may stop and hyphenate where it likes,  *)
(* the parser takes all it can and looks back at the last character: what  *)
(* the grammar can reach is closed under what the parser takes, and the    *)
(* last step of the parser is no hyphen, so it is a step of the grammar.   *)
(***************************************************************************)
LEMMA LabelIs ==
  ASSUME text \in Seq(Byte), NEW u \in BOOLEAN, NEW p \in 0..Len(text), NEW j \in 0..Len(text),
         j = Len(text) \/ At(text, j) = Dot
  PROVE  j \in label(u, {p}) <=> j \in parse_label(text, p, Len(text), u)
<1> PICK n \in Nat : n = Len(text)
  OBVIOUS
<1>0. PICK first \in SUBSET (0..n), M \in SUBSET (0..n) : LabelSplit(u, p, first, M)
  BY LabelParts
<1>1. /\ \A k : k \in first <=> Edge(u, p) # 0 /\ k = p + Edge(u, p)
      /\ first \subseteq M /\ LabelClosed(u, M)
      /\ \A C \in SUBSET (0..n) : first \subseteq C /\ LabelClosed(u, C) => M \subseteq C
      /\ \A k : k \in label(u, {p}) <=>
                  /\ k \in first \/ \E q \in M : Edge(u, q) # 0 /\ k = q + Edge(u, q)
                  /\ k - p <= MAX_LABEL_LEN
  BY <1>0 DEF LabelSplit, LabelLeast
<1>2. PICK W \in [0..n -> 0..n] : LabelRun(u, p, W)
  BY LabelRuns
<1>3. /\ label_run(text, p, n, u) = W[p]
      /\ \A q \in 0..n : /\ W[q] \in q..n
                         /\ LabelUnit(u, p, W[q]) = 0
                         /\ W[q] = IF LabelUnit(u, p, q) = 0 THEN q ELSE W[q + LabelUnit(u, p, q)]
  BY <1>2 DEF LabelRun
<1>4. PICK E, N : E = [q \in 0..n |-> Edge(u, q)] /\ N = [q \in 0..n |-> Inner(u, q)]
  OBVIOUS
<1>5. \A q \in 0..n : E[q] = Edge(u, q) /\ N[q] = Inner(u, q)
  BY <1>4
<1>6. \A q \in 0..n :
        /\ E[q] \in Nat /\ q + E[q] \in 0..n /\ N[q] \in Nat /\ q + N[q] \in 0..n
        /\ q = n \/ At(text, q) = Dot => N[q] = 0 /\ E[q] = 0
        /\ E[q] # 0 => N[q] = E[q] /\ At(text, q + E[q] - 1) # Hyphen
        /\ N[q] # 0 => N[q] = E[q] \/ (N[q] = 1 /\ At(text, q) = Hyphen)
  <2>1. LabelFits(u, n)
    BY LabelsFit
  <2> QED BY <1>5, <2>1 DEF LabelFits
<1>7. W[p] = IF E[p] = 0 THEN p ELSE W[p + E[p]]
  BY <1>3, <1>5 DEF LabelUnit
<1>8. \A q \in 0..n : q > p => N[W[q]] = 0 /\ W[q] = IF N[q] = 0 THEN q ELSE W[q + N[q]]
  <2> TAKE q \in 0..n
  <2> HAVE q > p
  <2>1. W[q] \in 0..n /\ W[q] > p
    BY <1>3
  <2> QED BY <1>3, <1>5, <2>1 DEF LabelUnit
<1>9. /\ \A k : k \in first <=> E[p] # 0 /\ k = p + E[p]
      /\ first \subseteq M /\ \A q \in M : N[q] # 0 => q + N[q] \in M
      /\ \A k : k \in label(u, {p}) <=>
                  /\ k \in first \/ \E q \in M : E[q] # 0 /\ k = q + E[q]
                  /\ k - p <= MAX_LABEL_LEN
  <2>1. \A q \in M : N[q] # 0 => q + N[q] \in M
    BY <1>1, <1>5 DEF LabelClosed
  <2>2. \A k : (\E q \in M : Edge(u, q) # 0 /\ k = q + Edge(u, q)) <=> \E q \in M : E[q] # 0 /\ k = q + E[q]
    BY <1>5
  <2> QED BY <1>1, <1>5, <2>1, <2>2
<1>10. \A C \in SUBSET (0..n) : first \subseteq C /\ (\A q \in C : N[q] # 0 => q + N[q] \in C) => M \subseteq C
  <2> TAKE C \in SUBSET (0..n)
  <2>1. LabelClosed(u, C) <=> \A q \in C : N[q] # 0 => q + N[q] \in C
    BY <1>5 DEF LabelClosed
  <2> QED BY <1>1, <2>1
<1>11. j \in parse_label(text, p, n, u) <=>
         W[p] = j /\ j > p /\ j - p <= MAX_LABEL_LEN /\ At(text, j - 1) # Hyphen
  BY <1>3 DEF parse_label, label_ends
<1>12. N[j] = 0 /\ E[j] = 0
  BY <1>6
<1>13. CASE E[p] = 0
  <2>1. first = {}
    BY <1>9, <1>13
  <2>2. M \subseteq {}
    BY <1>10, <2>1
  <2>3. j \notin label(u, {p})
    BY <1>9, <2>1, <2>2
  <2>4. W[p] = p
    BY <1>7, <1>13
  <2> QED BY <1>11, <2>3, <2>4
<1>14. CASE E[p] # 0
  <2>1. PICK b \in 0..n : b = p + E[p] /\ b > p
    BY <1>6, <1>14
  <2>2. W[p] = W[b] /\ \A k : k \in first <=> k = b
    BY <1>7, <1>9, <1>14, <2>1
  <2>3. PICK C : C = {k \in 0..n : k >= b /\ W[k] = W[b]}
    OBVIOUS
  <2>4. \A q \in 0..n : q >= b => q > p
    BY <2>1
  <2>5. M \subseteq C
    <3>1. ASSUME NEW q \in C, N[q] # 0
          PROVE  q + N[q] \in C
      <4>1. q \in 0..n /\ q >= b /\ q > p /\ W[q] = W[b]
        BY <2>3, <2>4
      <4>2. W[q] = W[q + N[q]]
        BY <1>8, <3>1, <4>1
      <4>3. q + N[q] \in 0..n /\ q + N[q] >= b
        BY <1>6, <4>1
      <4> QED BY <2>3, <4>1, <4>2, <4>3
    <3>2. first \subseteq C /\ C \in SUBSET (0..n)
      BY <2>2, <2>3
    <3> QED BY <1>10, <3>1, <3>2
  <2>6. ASSUME j \in label(u, {p})
        PROVE  j \in parse_label(text, p, n, u)
    <3>1. j \in M /\ At(text, j - 1) # Hyphen
      <4>1. CASE j \in first
        <5>1. j = p + E[p] /\ j \in M
          BY <1>9, <4>1
        <5> QED BY <1>6, <1>14, <5>1
      <4>2. CASE \E q \in M : E[q] # 0 /\ j = q + E[q]
        <5>1. PICK q \in M : E[q] # 0 /\ j = q + E[q]
          BY <4>2
        <5>2. q \in 0..n
          OBVIOUS
        <5>3. N[q] = E[q] /\ At(text, q + E[q] - 1) # Hyphen
          BY <1>6, <5>1, <5>2
        <5> QED BY <1>9, <5>1, <5>3
      <4> QED BY <1>9, <2>6, <4>1, <4>2
    <3>2. j > p /\ W[j] = W[b]
      BY <2>3, <2>4, <2>5, <3>1
    <3>3. W[j] = j
      BY <1>8, <1>12, <3>2
    <3>4. j - p <= MAX_LABEL_LEN
      BY <1>9, <2>6
    <3> QED BY <1>11, <2>2, <3>1, <3>2, <3>3, <3>4
  <2>7. ASSUME j \in parse_label(text, p, n, u)
        PROVE  j \in label(u, {p})
    <3>1. W[b] = j /\ j > p /\ j - p <= MAX_LABEL_LEN /\ At(text, j - 1) # Hyphen
      BY <1>11, <2>2, <2>7
    <3>2. CASE j = b
      BY <1>9, <2>2, <3>1, <3>2
    <3>3. CASE j # b
      <4>1. PICK K : K = {k \in M : W[k] = j /\ k # j}
        OBVIOUS
      <4>2. b \in K /\ K \subseteq 0..n
        BY <1>9, <2>2, <3>1, <3>3, <4>1
      <4>3. PICK k \in K : \A y \in K : y <= k
        BY <4>2, Greatest
      <4>4. k \in M /\ k \in 0..n /\ k > p /\ W[k] = j /\ k # j
        BY <2>3, <2>4, <2>5, <4>1, <4>2
      <4>5. N[k] # 0 /\ W[k + N[k]] = j
        BY <1>8, <4>4
      <4>6. PICK y : y = k + N[k]
        OBVIOUS
      <4>7. y \in M /\ W[y] = j /\ y \in 0..n /\ y > k
        BY <1>6, <1>9, <4>4, <4>5, <4>6
      <4>8. y \notin K
        BY <4>2, <4>3, <4>7
      <4>9. y = j
        BY <4>1, <4>7, <4>8
      <4>10. N[k] = E[k]
        <5>1. SUFFICES ASSUME N[k] = 1, At(text, k) = Hyphen PROVE FALSE
          BY <1>6, <4>4, <4>5
        <5>2. j - 1 = k
          BY <4>4, <4>6, <4>9, <5>1
        <5> QED BY <3>1, <5>1, <5>2
      <4>11. E[k] # 0 /\ j = k + E[k]
        BY <4>5, <4>6, <4>9, <4>10
      <4> QED BY <1>9, <3>1, <4>4, <4>11
    <3> QED BY <3>2, <3>3
  <2> QED BY <2>6, <2>7
<1> QED BY <1>13, <1>14

(***************************************************************************)
(* The ends of a dot.                                                      *)
(***************************************************************************)
LEMMA DotIs ==
  ASSUME text \in Seq(Byte), NEW I, I \in SUBSET (0..Len(text))
  PROVE  /\ dot(I) \in SUBSET (0..Len(text))
         /\ \A j : j \in dot(I) <=> \E p \in I : p < Len(text) /\ At(text, p) = Dot /\ j = p + 1
BY DEF dot, Char

(* The labels that start in I are the ones that start at a member of it.   *)
LabelsFrom(u, I) ==
  /\ label(u, I) \in SUBSET (0..Len(text))
  /\ \A j : j \in label(u, I) <=> \E p \in I : j \in label(u, {p})

(***************************************************************************)
(* The ends of labels stay in the text, and depend on each start alone.    *)
(***************************************************************************)
LEMMA LabelsAre ==
  ASSUME text \in Seq(Byte), NEW u \in BOOLEAN, NEW I, I \in SUBSET (0..Len(text))
  PROVE  LabelsFrom(u, I)
<1> PICK n \in Nat : n = Len(text)
  OBVIOUS
<1> DEFINE From(i) == LET first == letDig(u, {i})
                      IN  {j \in first \cup letDig(u, Many(LAMBDA J : letDigHyp(u, J), first)) :
                             j - i <= MAX_LABEL_LEN}
<1>0. \A K : label(u, K) = UNION {From(i) : i \in K}
  BY Zenon DEF label
<1> HIDE DEF From
<1>1. \A j : j \in label(u, I) <=> \E p \in I : j \in label(u, {p})
  <2>1. ASSUME NEW p
        PROVE  label(u, {p}) = From(p)
    <3>1. PICK K : K = {p}
      OBVIOUS
    <3>2. label(u, K) = UNION {From(i) : i \in K}
      BY <1>0, Zenon
    <3> QED BY <3>1, <3>2
  <2>2. label(u, I) = UNION {From(i) : i \in I}
    BY <1>0, Zenon
  <2> QED BY <2>1, <2>2
<1>2. ASSUME NEW p \in 0..n
      PROVE  label(u, {p}) \in SUBSET (0..n)
  <2>1. PICK first \in SUBSET (0..n), M \in SUBSET (0..n) : LabelSplit(u, p, first, M)
    BY LabelParts
  <2>2. \A j : j \in label(u, {p}) => j \in first \/ \E q \in M : Edge(u, q) # 0 /\ j = q + Edge(u, q)
    BY <2>1 DEF LabelSplit
  <2>3. \A q \in 0..n : q + Edge(u, q) \in 0..n
    BY LabelsFit DEF LabelFits
  <2>4. ASSUME NEW j \in label(u, {p})
        PROVE  j \in 0..n
    <3>1. CASE j \in first
      BY <3>1
    <3>2. CASE \E q \in M : Edge(u, q) # 0 /\ j = q + Edge(u, q)
      BY <2>3, <3>2
    <3> QED BY <2>2, <3>1, <3>2
  <2> QED BY <2>4
<1> QED BY <1>1, <1>2 DEF LabelsFrom

(* C has the end of every label that follows a dot that starts in it.      *)
NamesClosed(u, C) == label(u, dot(C)) \subseteq C

(* M is the least set of ends that has I and is closed under a dot and a   *)
(* label.                                                                  *)
NamesLeast(u, I, M) ==
  /\ M \in SUBSET (0..Len(text)) /\ I \subseteq M /\ NamesClosed(u, M)
  /\ \A C \in SUBSET (0..Len(text)) : I \subseteq C /\ NamesClosed(u, C) => M \subseteq C

(***************************************************************************)
(* The names of the grammar are the least set of ends that has the first   *)
(* label and is closed under a dot and a label.                            *)
(***************************************************************************)
LEMMA NamesAre ==
  ASSUME text \in Seq(Byte), NEW u \in BOOLEAN, NEW I, I \in SUBSET (0..Len(text)), NEW M,
         M = Many(LAMBDA J : label(u, dot(J)), I)
  PROVE  NamesLeast(u, I, M)
<1> PICK n \in Nat : n = Len(text)
  OBVIOUS
<1>1. PICK F : F = [J \in SUBSET (0..n) |-> label(u, dot(J))]
  OBVIOUS
<1>2. ASSUME NEW J \in SUBSET (0..n)
      PROVE  /\ label(u, dot(J)) \in SUBSET (0..n)
             /\ \A j : j \in label(u, dot(J)) <=> \E p \in dot(J) : j \in label(u, {p})
  <2>1. dot(J) \in SUBSET (0..Len(text))
    BY DotIs
  <2>2. LabelsFrom(u, dot(J))
    BY <2>1, LabelsAre
  <2> QED BY <2>2 DEF LabelsFrom
<1>3. F \in [SUBSET (0..n) -> SUBSET (0..n)]
  BY <1>1, <1>2
<1>4. ASSUME NEW J \in SUBSET (0..n), NEW K \in SUBSET (0..n), J \subseteq K
      PROVE  F[J] \subseteq F[K]
  <2>1. dot(J) \subseteq dot(K)
    BY <1>4, DotIs
  <2>2. label(u, dot(J)) \subseteq label(u, dot(K))
    BY <1>2, <2>1
  <2> QED BY <1>1, <2>2
<1>5. \A C \in SUBSET (0..n) : F[C] \subseteq C <=> NamesClosed(u, C)
  BY <1>1 DEF NamesClosed
<1> DEFINE Eq(v) == v = [J \in SUBSET (0..n) |-> LET K == J \cup label(u, dot(J))
                                                IN  IF K = J THEN J ELSE v[K]]
<1>6. \A v : Eq(v) <=> Closes(n, F, v)
  <2> TAKE v
  <2>1. [J \in SUBSET (0..n) |-> LET K == J \cup label(u, dot(J))
                                 IN  IF K = J THEN J ELSE v[K]]
          = [J \in SUBSET (0..n) |-> LET K == J \cup F[J] IN IF K = J THEN J ELSE v[K]]
    BY <1>1
  <2> QED BY <2>1 DEF Closes
<1>7. /\ \E v : Closes(n, F, v)
      /\ \A v : Closes(n, F, v) => \A J \in SUBSET (0..n) : LeastClosed(n, F, J, v[J])
  <2>1. Widens(n, F)
    BY <1>3, <1>4 DEF Widens
  <2> QED BY <2>1, ClosureIs
<1>8. PICK v : v = CHOOSE w : Eq(w)
  OBVIOUS
<1>9. M = v[I]
  BY <1>8 DEF Many
<1> HIDE DEF Eq
<1>10. Closes(n, F, v)
  BY <1>6, <1>7, <1>8
<1>11. /\ M \in SUBSET (0..n) /\ I \subseteq M /\ F[M] \subseteq M
       /\ \A C \in SUBSET (0..n) : I \subseteq C /\ F[C] \subseteq C => M \subseteq C
  BY <1>7, <1>9, <1>10 DEF LeastClosed
<1> QED BY <1>5, <1>11 DEF NamesLeast

(* S[p] is where the label at p stops, L has the positions where one       *)
(* starts, T those where a name starts.                                    *)
Names(u, S, L, T) ==
  LET n == Len(text)
  IN  /\ \A p \in 0..n : \A j \in 0..n :
           j = n \/ At(text, j) = Dot => (j \in label(u, {p}) <=> p \in L /\ j = S[p])
      /\ \A p \in L : S[p] \in (p + 1)..n /\ (S[p] = n \/ At(text, S[p]) = Dot)
      /\ \A p \in 0..n :
           p \in T <=> p \in L /\ (S[p] = n \/ S[p] + 1 = n \/ S[p] + 1 \in T)
      /\ parse_hostname(text, u) <=> n <= MAX_HOSTNAME_LEN /\ 0 \in T

(***************************************************************************)
(* parse_hostname as a set of positions.                                   *)
(***************************************************************************)
LEMMA NamesStart ==
  ASSUME text \in Seq(Byte), NEW u \in BOOLEAN
  PROVE  \E S \in [0..Len(text) -> 0..Len(text)], L \in SUBSET (0..Len(text)),
            T \in SUBSET (0..Len(text)) : Names(u, S, L, T)
<1> DEFINE n == Len(text)
<1>0. n \in Nat
  OBVIOUS
<1>1. PICK S : S = [p \in 0..n |-> label_run(text, p, n, u)]
  OBVIOUS
<1>2. \A p \in 0..n : S[p] = label_run(text, p, n, u) /\ S[p] \in p..n
  <2> TAKE p \in 0..n
  <2>1. PICK W \in [0..n -> 0..n] : LabelRun(u, p, W)
    BY LabelRuns
  <2>2. label_run(text, p, n, u) = W[p] /\ W[p] \in p..n
    BY <2>1 DEF LabelRun
  <2> QED BY <1>1, <2>2
<1>3. PICK P : P = [p \in 0..n |-> parse_label(text, p, n, u)]
  OBVIOUS
<1>4. PICK L : L = {p \in 0..n : S[p] \in P[p]}
  OBVIOUS
<1>5. \A p \in 0..n : \A j : j \in P[p] <=> p \in L /\ j = S[p]
  <2> TAKE p \in 0..n
  <2> TAKE j
  <2>1. P[p] = {last \in {S[p]} : last > p /\ label_ends(text, p, last, n)}
    BY <1>2, <1>3 DEF parse_label
  <2> QED BY <1>4, <2>1
<1>6. \A p \in L : S[p] > p /\ (S[p] = n \/ At(text, S[p]) = Dot)
  <2> TAKE p \in L
  <2>1. p \in 0..n /\ S[p] \in P[p]
    BY <1>4
  <2>2. S[p] \in parse_label(text, p, n, u)
    BY <1>3, <2>1
  <2> QED BY <2>2 DEF parse_label, label_ends
<1>7. \A p \in 0..n : \A j \in 0..n :
        j = n \/ At(text, j) = Dot => (j \in label(u, {p}) <=> p \in L /\ j = S[p])
  <2> TAKE p \in 0..n
  <2> TAKE j \in 0..n
  <2> HAVE j = n \/ At(text, j) = Dot
  <2>1. j \in label(u, {p}) <=> j \in parse_label(text, p, n, u)
    BY LabelIs
  <2>2. P[p] = parse_label(text, p, n, u)
    BY <1>3
  <2> QED BY <1>5, <2>1, <2>2
<1>8. PICK B, H, G : /\ B = {p \in L : S[p] = n \/ S[p] + 1 = n}
                     /\ H = {p \in L : S[p] # n /\ S[p] + 1 # n}
                     /\ G = [p \in 0..n |-> IF S[p] = n THEN n ELSE S[p] + 1]
  OBVIOUS
<1>9. \A p \in 0..n : S[p] # n => S[p] + 1 \in (p + 1)..n /\ S[p] + 1 \in 0..n
  <2> TAKE p \in 0..n
  <2>1. PICK s \in p..n : s = S[p]
    BY <1>2
  <2> QED BY <2>1
<1>10. H \in SUBSET (0..n) /\ G \in [0..n -> 0..n] /\ \A p \in H : G[p] \in (p + 1)..n
  BY <1>4, <1>8, <1>9
<1>11. PICK T \in SUBSET (0..n) : JumpsFrom(n, B, H, G, T)
  BY <1>0, <1>10, JumpIs
<1> USE DEF JumpsFrom
<1>12. \A p \in 0..n : p \in T <=> p \in L /\ (S[p] = n \/ S[p] + 1 = n \/ S[p] + 1 \in T)
  BY <1>4, <1>8, <1>11
<1>13. parse_hostname(text, u) <=> n <= MAX_HOSTNAME_LEN /\ 0 \in T
  <2> DEFINE Eq(tok) == tok = [p \in 0..n |-> \E q \in parse_label(text, p, n, u) :
                                                \/ q = n
                                                \/ At(text, q) = Dot /\ (q + 1 = n \/ tok[q + 1])]
  <2>1. ASSUME NEW tok
        PROVE  Eq(tok) <=> Jumps(0, n, B, H, G, tok)
    <3>1. ASSUME NEW p \in 0..n
          PROVE  (\E q \in parse_label(text, p, n, u) :
                    q = n \/ (At(text, q) = Dot /\ (q + 1 = n \/ tok[q + 1])))
                 = (p \in B \/ (p \in H /\ tok[G[p]]))
      <4>1. parse_label(text, p, n, u) = P[p]
        BY <1>3
      <4>2. (\E q \in P[p] : q = n \/ (At(text, q) = Dot /\ (q + 1 = n \/ tok[q + 1])))
              <=> p \in L /\ (S[p] = n \/ (At(text, S[p]) = Dot /\ (S[p] + 1 = n \/ tok[S[p] + 1])))
        BY <1>5, Zenon
      <4>3. p \in L => S[p] = n \/ At(text, S[p]) = Dot
        BY <1>6
      <4>4. S[p] # n => G[p] = S[p] + 1
        BY <1>8
      <4>5. /\ p \in B <=> p \in L /\ (S[p] = n \/ S[p] + 1 = n)
            /\ p \in H <=> p \in L /\ S[p] # n /\ S[p] + 1 # n
        BY <1>8
      <4>6. S[p] # n => tok[G[p]] = tok[S[p] + 1]
        BY <4>4
      <4>7. p \in L /\ (S[p] = n \/ (At(text, S[p]) = Dot /\ (S[p] + 1 = n \/ tok[S[p] + 1])))
              <=> p \in B \/ (p \in H /\ tok[G[p]])
        BY <4>3, <4>5, <4>6
      <4> QED BY <4>1, <4>2, <4>7
    <3>2. [p \in 0..n |-> \E q \in parse_label(text, p, n, u) :
                            q = n \/ (At(text, q) = Dot /\ (q + 1 = n \/ tok[q + 1]))]
            = [p \in 0..n |-> p \in B \/ (p \in H /\ tok[G[p]])]
      BY <3>1, Zenon
    <3> QED BY <3>2 DEF Jumps
  <2>2. PICK v : v = CHOOSE tok : Eq(tok)
    OBVIOUS
  <2>3. parse_hostname(text, u) <=> n > 0 /\ n <= MAX_HOSTNAME_LEN /\ v[0]
    BY <2>2 DEF parse_hostname
  <2> HIDE DEF Eq
  <2>4. Jumps(0, n, B, H, G, v)
    BY <1>0, <1>11, <2>1, <2>2
  <2>5. v[0] <=> 0 \in T
    BY <1>0, <1>11, <2>4
  <2>6. 0 \in T => n > 0
    BY <1>0, <1>2, <1>4, <1>6, <1>12
  <2> QED BY <2>3, <2>5, <2>6
<1>14. Names(u, S, L, T)
  <2>1. \A p \in L : S[p] \in (p + 1)..n /\ (S[p] = n \/ At(text, S[p]) = Dot)
    BY <1>2, <1>4, <1>6
  <2> QED BY <1>7, <1>12, <1>13, <2>1 DEF Names
<1>15. S \in [0..n -> 0..n]
  BY <1>1, <1>2
<1> QED BY <1>4, <1>14, <1>15

(***************************************************************************)
(* parse_hostname takes the names of the grammar, the ones that end in a   *)
(* dot included: the positions from which it fails keep the grammar from   *)
(* the end, and the greatest place it may come to is the last label.       *)
(***************************************************************************)
LEMMA HostnameIs ==
  ASSUME text \in Seq(Byte), NEW u \in BOOLEAN
  PROVE  parse_hostname(text, u) <=> hostname(u)
<1> PICK n \in Nat : n = Len(text)
  OBVIOUS
<1>1. PICK S \in [0..n -> 0..n], L \in SUBSET (0..n), T \in SUBSET (0..n) : Names(u, S, L, T)
  BY NamesStart
<1>2. /\ \A p \in 0..n : \A j \in 0..n :
           j = n \/ At(text, j) = Dot => (j \in label(u, {p}) <=> p \in L /\ j = S[p])
      /\ \A p \in L : S[p] \in (p + 1)..n /\ (S[p] = n \/ At(text, S[p]) = Dot)
      /\ \A p \in 0..n :
           p \in T <=> p \in L /\ (S[p] = n \/ S[p] + 1 = n \/ S[p] + 1 \in T)
      /\ parse_hostname(text, u) <=> n <= MAX_HOSTNAME_LEN /\ 0 \in T
  BY <1>1 DEF Names
<1>3. PICK Z : Z = {0}
  OBVIOUS
<1>4. PICK I : I = label(u, Z)
  OBVIOUS
<1>5. Z \in SUBSET (0..Len(text)) /\ 0 \in 0..n
  BY <1>3
<1>6. I \in SUBSET (0..Len(text)) /\ \A j : j \in I <=> j \in label(u, {0})
  <2>1. LabelsFrom(u, Z)
    BY <1>5, LabelsAre
  <2> QED BY <1>3, <1>4, <2>1 DEF LabelsFrom
<1>7. PICK M : M = Many(LAMBDA J : label(u, dot(J)), I)
  OBVIOUS
<1>8. hostname(u) <=> n <= MAX_HOSTNAME_LEN /\ n \in M \cup dot(M)
  <2>1. hostname(u) <=> /\ Len(text) <= MAX_HOSTNAME_LEN
                        /\ Len(text) \in Many(LAMBDA J : label(u, dot(J)), label(u, {0}))
                              \cup dot(Many(LAMBDA J : label(u, dot(J)), label(u, {0})))
    BY DEF hostname
  <2> QED BY <1>3, <1>4, <1>7, <2>1
<1>9. /\ M \in SUBSET (0..n) /\ I \subseteq M /\ NamesClosed(u, M)
      /\ \A C \in SUBSET (0..n) : I \subseteq C /\ NamesClosed(u, C) => M \subseteq C
  <2>1. NamesLeast(u, I, M)
    BY <1>6, <1>7, NamesAre
  <2> QED BY <2>1 DEF NamesLeast
<1>10. ASSUME NEW C \in SUBSET (0..n)
       PROVE  /\ dot(C) \in SUBSET (0..n)
              /\ \A j : j \in dot(C) <=> \E p \in C : p < n /\ At(text, p) = Dot /\ j = p + 1
              /\ \A j : j \in label(u, dot(C)) <=> \E p \in dot(C) : j \in label(u, {p})
              /\ label(u, dot(C)) \in SUBSET (0..n)
  <2>1. /\ dot(C) \in SUBSET (0..n)
        /\ \A j : j \in dot(C) <=> \E p \in C : p < n /\ At(text, p) = Dot /\ j = p + 1
    BY DotIs
  <2>2. LabelsFrom(u, dot(C))
    BY <2>1, LabelsAre
  <2> QED BY <2>1, <2>2 DEF LabelsFrom
(* Where no name starts, every label leads to a place where none does.     *)
<1>11. ASSUME 0 \notin T
       PROVE  n \notin M \cup dot(M)
  <2>1. PICK C : C = {j \in 0..n : j # n /\ (At(text, j) = Dot => j + 1 # n /\ j + 1 \notin T)}
    OBVIOUS
  <2>2. ASSUME NEW p \in 0..n, p \notin T, NEW j \in 0..n, j \in label(u, {p})
        PROVE  j \in C
    <3>1. j = n => FALSE
      BY <1>2, <2>2
    <3>2. ASSUME At(text, j) = Dot
          PROVE  j + 1 # n /\ j + 1 \notin T
      BY <1>2, <2>2, <3>2
    <3> QED BY <2>1, <3>1, <3>2
  <2>3. I \subseteq C
    BY <1>5, <1>6, <1>11, <2>2
  <2>4. C \in SUBSET (0..n)
    BY <2>1
  <2>5. NamesClosed(u, C)
    <3>1. ASSUME NEW j \in label(u, dot(C))
          PROVE  j \in C
      <4>1. PICK p \in dot(C) : j \in label(u, {p})
        BY <1>10, <2>4
      <4>2. PICK q \in C : At(text, q) = Dot /\ p = q + 1
        BY <1>10, <2>4
      <4>3. p \in 0..n /\ p \notin T /\ j \in 0..n
        BY <1>10, <2>1, <2>4, <4>2
      <4> QED BY <2>2, <4>1, <4>3
    <3> QED BY <3>1 DEF NamesClosed
  <2>6. M \subseteq C
    BY <1>9, <2>3, <2>4, <2>5
  <2>7. n \notin C
    BY <2>1
  <2>8. ASSUME n \in dot(M)
        PROVE  FALSE
    <3>1. PICK q \in M : At(text, q) = Dot /\ n = q + 1
      BY <1>9, <1>10, <2>8
    <3> QED BY <2>1, <2>6, <3>1
  <2> QED BY <2>6, <2>7, <2>8
(* Where a name starts, the last place it leads to is the last label.      *)
<1>12. ASSUME 0 \in T
       PROVE  n \in M \cup dot(M)
  <2>1. PICK D : D = dot(M)
    OBVIOUS
  <2>2. D \in SUBSET (0..n) /\ \A j : j \in D <=> \E p \in M : p < n /\ At(text, p) = Dot /\ j = p + 1
    BY <1>9, <1>10, <2>1
  <2>3. PICK R : R = {p \in T : p = 0 \/ p \in D}
    OBVIOUS
  <2>4. R \subseteq 0..n /\ R # {}
    BY <1>12, <2>3
  <2>5. PICK x \in R : \A y \in R : y <= x
    BY <2>4, Greatest
  <2>6. x \in 0..n /\ x \in T /\ x \in L /\ (S[x] = n \/ S[x] + 1 = n \/ S[x] + 1 \in T)
    BY <1>2, <2>3
  <2>7. PICK s \in 0..n : s = S[x] /\ s > x
    BY <1>2, <2>6
  <2>8. s = n \/ At(text, s) = Dot
    BY <1>2, <2>6, <2>7
  <2>9. s \in label(u, {x})
    BY <1>2, <2>6, <2>7, <2>8
  <2>10. s \in M
    <3>1. CASE x = 0
      BY <1>6, <1>9, <2>9, <3>1
    <3>2. CASE x \in D
      <4>1. s \in label(u, dot(M))
        BY <1>9, <1>10, <2>1, <2>9, <3>2
      <4> QED BY <1>9, <4>1 DEF NamesClosed
    <3> QED BY <2>3, <3>1, <3>2
  <2>11. CASE s = n
    BY <2>10, <2>11
  <2>12. CASE s # n
    <3>1. PICK y \in 0..n : y = s + 1
      BY <2>7, <2>12
    <3>2. y \in D
      BY <2>2, <2>8, <2>10, <2>12, <3>1
    <3>3. y = n \/ y \in T
      BY <2>6, <2>7, <2>12, <3>1
    <3>4. y \notin T
      BY <2>3, <2>4, <2>5, <2>7, <3>1, <3>2
    <3> QED BY <2>1, <3>2, <3>3, <3>4
  <2> QED BY <2>11, <2>12
<1> QED BY <1>2, <1>8, <1>11, <1>12

(***************************************************************************)
(* HostnameExact: the hostname and idn-hostname formats answer true of     *)
(* exactly the names of RFC 1123 with the limits of RFC 1035, one trailing *)
(* dot allowed, for every text: no label is empty, too long or has a       *)
(* hyphen at an edge, and none that is right is refused.                   *)
(***************************************************************************)
THEOREM HostnameAlwaysExact == TextsSpec => []HostnameExact
<1>1. TextOK => HostnameExact
  <2> SUFFICES ASSUME TextOK
               PROVE  /\ parse_hostname(text, FALSE) <=> hostname(FALSE)
                      /\ parse_hostname(text, TRUE) <=> hostname(TRUE)
    BY DEF HostnameExact, Passes
  <2>1. text \in Seq(Byte)
    BY DEF TextOK
  <2> QED BY <2>1, HostnameIs
<1> QED BY <1>1, TextsOK, PTL

-----------------------------------------------------------------------------

(***************************************************************************)
(* The addresses with colons (ip_parser.c).                                *)
(***************************************************************************)

(***************************************************************************)
(* What 0 has, and every number when the one before has it, all have.      *)
(***************************************************************************)
LEMMA Upwards ==
  ASSUME NEW S, 0 \in S, \A m \in Nat : m \in S => m + 1 \in S
  PROVE  \A m \in Nat : m \in S
<1>1. PICK T : T = {m \in Nat : m \notin S}
  OBVIOUS
<1>2. CASE T = {}
  BY <1>1, <1>2
<1>3. CASE T # {}
  <2>1. T \subseteq Nat
    BY <1>1
  <2>2. PICK x \in T : \A y \in T : x <= y
    BY <1>3, <2>1, Least
  <2>3. x \in Nat /\ x # 0 /\ x \notin S
    BY <1>1, <2>2
  <2>4. x - 1 \in Nat /\ (x - 1) + 1 = x /\ x - 1 < x
    BY <2>3
  <2>5. x - 1 \notin T
    BY <2>2, <2>3, <2>4
  <2>6. x - 1 \in S
    BY <1>1, <2>4, <2>5
  <2> QED BY <2>3, <2>4, <2>6
<1> QED BY <1>2, <1>3

(* f has the ends of 0, 1, ..., m groups with a colon.                     *)
GroupsTo(I, m, f) == f = [k \in 0..m |-> IF k = 0 THEN I ELSE h16colon(f[k - 1])]

(***************************************************************************)
(* Two such functions agree as far as both go.                             *)
(***************************************************************************)
LEMMA GroupsSame ==
  ASSUME NEW I, NEW m \in Nat, NEW l \in Nat, m <= l, NEW f, NEW g, GroupsTo(I, m, f), GroupsTo(I, l, g)
  PROVE  \A k \in 0..m : f[k] = g[k]
<1>1. PICK S : S = {k \in Nat : k <= m => f[k] = g[k]}
  OBVIOUS
<1>2. 0 \in S
  BY <1>1 DEF GroupsTo
<1>3. ASSUME NEW k \in Nat, k \in S
      PROVE  k + 1 \in S
  <2>1. SUFFICES ASSUME k + 1 <= m
                 PROVE  f[k + 1] = g[k + 1]
    BY <1>1
  <2>2. f[k] = g[k]
    BY <1>1, <1>3, <2>1
  <2>3. k + 1 \in 0..m /\ k + 1 \in 0..l /\ k + 1 # 0 /\ (k + 1) - 1 = k
    BY <2>1
  <2>4. f[k + 1] = h16colon(f[k]) /\ g[k + 1] = h16colon(g[k])
    BY <2>3 DEF GroupsTo
  <2> QED BY <2>2, <2>4
<1>4. \A k \in Nat : k \in S
  BY <1>2, <1>3, Upwards
<1> QED BY <1>1, <1>4

(***************************************************************************)
(* There is one for every m.                                               *)
(***************************************************************************)
LEMMA GroupsExist ==
  ASSUME NEW I
  PROVE  \A m \in Nat : \E f : GroupsTo(I, m, f)
<1>1. PICK S : S = {m \in Nat : \E f : GroupsTo(I, m, f)}
  OBVIOUS
<1>2. 0 \in S
  <2>1. PICK f : f = [k \in 0..0 |-> I]
    OBVIOUS
  <2>2. f = [k \in 0..0 |-> IF k = 0 THEN I ELSE h16colon(f[k - 1])]
    BY <2>1
  <2>3. GroupsTo(I, 0, f)
    BY <2>2 DEF GroupsTo
  <2> QED BY <1>1, <2>3
<1>3. ASSUME NEW m \in Nat, m \in S
      PROVE  m + 1 \in S
  <2>1. PICK f : GroupsTo(I, m, f)
    BY <1>1, <1>3
  <2>2. PICK g : g = [k \in 0..(m + 1) |-> IF k = m + 1 THEN h16colon(f[m]) ELSE f[k]]
    OBVIOUS
  <2>3. ASSUME NEW k \in 0..(m + 1)
        PROVE  g[k] = IF k = 0 THEN I ELSE h16colon(g[k - 1])
    <3>1. CASE k = m + 1
      <4>1. k # 0 /\ k - 1 = m /\ m \in 0..(m + 1) /\ m # m + 1
        BY <3>1
      <4> QED BY <2>2, <3>1, <4>1
    <3>2. CASE k # m + 1 /\ k # 0
      <4>1. k \in 0..m /\ k - 1 \in 0..(m + 1) /\ k - 1 # m + 1
        BY <3>2
      <4>2. f[k] = h16colon(f[k - 1])
        BY <2>1, <3>2, <4>1 DEF GroupsTo
      <4> QED BY <2>2, <3>2, <4>1, <4>2
    <3>3. CASE k = 0
      <4>1. 0 \in 0..m /\ 0 # m + 1
        OBVIOUS
      <4>2. f[0] = I
        BY <2>1, <4>1 DEF GroupsTo
      <4> QED BY <2>2, <3>3, <4>1, <4>2
    <3> QED BY <3>1, <3>2, <3>3
  <2>4. GroupsTo(I, m + 1, g)
    BY <2>2, <2>3 DEF GroupsTo
  <2> QED BY <1>1, <2>4
<1>4. \A m \in Nat : m \in S
  BY <1>2, <1>3, Upwards
<1> QED BY <1>1, <1>4

(* m groups, a colon after each.                                           *)
GroupsAfter(m, I) == Times(h16colon, m, I)

(***************************************************************************)
(* Times, unfolded: m + 1 groups are m and one more.                       *)
(***************************************************************************)
LEMMA GroupsAre ==
  \A m \in Nat : \A I : /\ GroupsAfter(0, I) = I
                        /\ GroupsAfter(m + 1, I) = h16colon(GroupsAfter(m, I))
<1>1. ASSUME NEW I, NEW m \in Nat
      PROVE  \E f : GroupsTo(I, m, f) /\ GroupsAfter(m, I) = f[m]
  <2> DEFINE Eq(f) == f = [k \in 0..m |-> IF k = 0 THEN I ELSE h16colon(f[k - 1])]
  <2>1. PICK f : f = CHOOSE g : Eq(g)
    OBVIOUS
  <2>2. GroupsAfter(m, I) = f[m]
    BY <2>1 DEF GroupsAfter, Times
  <2>3. \A g : Eq(g) <=> GroupsTo(I, m, g)
    BY DEF GroupsTo
  <2> HIDE DEF Eq
  <2>4. GroupsTo(I, m, f)
    BY <2>1, <2>3, GroupsExist
  <2> QED BY <2>2, <2>4
<1>2. ASSUME NEW m \in Nat, NEW I
      PROVE  GroupsAfter(0, I) = I /\ GroupsAfter(m + 1, I) = h16colon(GroupsAfter(m, I))
  <2>1. PICK f : GroupsTo(I, 0, f) /\ GroupsAfter(0, I) = f[0]
    BY <1>1
  <2>2. f[0] = I
    BY <2>1 DEF GroupsTo
  <2>3. PICK g : GroupsTo(I, m, g) /\ GroupsAfter(m, I) = g[m]
    BY <1>1
  <2>4. m + 1 \in Nat /\ m <= m + 1
    OBVIOUS
  <2>5. PICK h : GroupsTo(I, m + 1, h) /\ GroupsAfter(m + 1, I) = h[m + 1]
    BY <1>1, <2>4
  <2>6. h[m + 1] = h16colon(h[m])
    <3>1. m + 1 \in 0..(m + 1) /\ m + 1 # 0 /\ (m + 1) - 1 = m
      OBVIOUS
    <3> QED BY <2>5, <3>1 DEF GroupsTo
  <2>7. g[m] = h[m]
    <3>1. m \in 0..m
      OBVIOUS
    <3> QED BY <2>3, <2>4, <2>5, <3>1, GroupsSame
  <2> QED BY <2>1, <2>2, <2>3, <2>5, <2>6, <2>7
<1> QED BY <1>2

(***************************************************************************)
(* m + 1 groups are one and then m more.                                   *)
(***************************************************************************)
LEMMA GroupsFirst ==
  \A m \in Nat : \A I : GroupsAfter(m + 1, I) = GroupsAfter(m, h16colon(I))
<1>1. PICK S : S = {m \in Nat : \A I : GroupsAfter(m + 1, I) = GroupsAfter(m, h16colon(I))}
  OBVIOUS
<1>2. 0 \in S
  BY <1>1, GroupsAre
<1>3. ASSUME NEW m \in Nat, m \in S
      PROVE  m + 1 \in S
  <2>1. ASSUME NEW I
        PROVE  GroupsAfter((m + 1) + 1, I) = GroupsAfter(m + 1, h16colon(I))
    <3>1. m + 1 \in Nat
      OBVIOUS
    <3>2. GroupsAfter((m + 1) + 1, I) = h16colon(GroupsAfter(m + 1, I))
      BY <3>1, GroupsAre
    <3>3. GroupsAfter(m + 1, I) = GroupsAfter(m, h16colon(I))
      BY <1>1, <1>3
    <3>4. GroupsAfter(m + 1, h16colon(I)) = h16colon(GroupsAfter(m, h16colon(I)))
      BY GroupsAre
    <3> QED BY <3>2, <3>3, <3>4
  <2> QED BY <1>1, <2>1
<1>4. \A m \in Nat : m \in S
  BY <1>2, <1>3, Upwards
<1> QED BY <1>1, <1>4

(* m hexadecimal digits.                                                   *)
HexAfter(m, I) == Times(hexdig, m, I)

(***************************************************************************)
(* One to four hexadecimal digits.                                         *)
(***************************************************************************)
LEMMA HexTimes ==
  ASSUME NEW I
  PROVE  /\ HexAfter(1, I) = hexdig(I)
         /\ HexAfter(2, I) = hexdig(hexdig(I))
         /\ HexAfter(3, I) = hexdig(hexdig(hexdig(I)))
         /\ HexAfter(4, I) = hexdig(hexdig(hexdig(hexdig(I))))
<1>1. ASSUME NEW m \in 1..4
      PROVE  HexAfter(m, I) = IF m = 1 THEN hexdig(I) ELSE IF m = 2 THEN hexdig(hexdig(I))
                                   ELSE IF m = 3 THEN hexdig(hexdig(hexdig(I)))
                                   ELSE hexdig(hexdig(hexdig(hexdig(I))))
  <2> DEFINE Eq(f) == f = [k \in 0..m |-> IF k = 0 THEN I ELSE hexdig(f[k - 1])]
  <2>1. PICK w : w = [k \in 0..m |-> IF k = 0 THEN I ELSE IF k = 1 THEN hexdig(I)
                                   ELSE IF k = 2 THEN hexdig(hexdig(I))
                                   ELSE IF k = 3 THEN hexdig(hexdig(hexdig(I)))
                                   ELSE hexdig(hexdig(hexdig(hexdig(I))))]
    OBVIOUS
  <2>2. Eq(w)
    BY <2>1
  <2>3. PICK f : f = CHOOSE g : Eq(g)
    OBVIOUS
  <2>4. HexAfter(m, I) = f[m]
    BY <2>3 DEF HexAfter, Times
  <2>5. Eq(f)
    <3> HIDE DEF Eq
    <3> QED BY <2>2, <2>3
  <2>6. \A k \in 0..m : f[k] = IF k = 0 THEN I ELSE hexdig(f[k - 1])
    BY <2>5
  <2> HIDE DEF Eq
  <2>7. f[0] = I /\ f[1] = hexdig(I)
    BY <2>6
  <2>8. m >= 2 => f[2] = hexdig(f[1])
    BY <2>6
  <2>9. m >= 3 => f[3] = hexdig(f[2])
    BY <2>6
  <2>10. m >= 4 => f[4] = hexdig(f[3])
    BY <2>6
  <2>11. m = 1 \/ m = 2 \/ m = 3 \/ m = 4
    OBVIOUS
  <2> QED BY <2>4, <2>7, <2>8, <2>9, <2>10, <2>11
<1>2. HexAfter(1, I) = hexdig(I)
  BY <1>1
<1>3. HexAfter(2, I) = hexdig(hexdig(I))
  BY <1>1
<1>4. HexAfter(3, I) = hexdig(hexdig(hexdig(I)))
  BY <1>1
<1>5. HexAfter(4, I) = hexdig(hexdig(hexdig(hexdig(I))))
  BY <1>1
<1> QED BY <1>2, <1>3, <1>4, <1>5

(* The text has k hexadecimal digits from p on.                            *)
Hexes(p, k) == p + k <= Len(text) /\ \A i \in p..(p + k - 1) : At(text, i) \in HexDigit

(***************************************************************************)
(* The ends of h16 of the grammar are the ends of one to four hexadecimal  *)
(* digits.                                                                 *)
(***************************************************************************)
LEMMA HexRuns ==
  ASSUME text \in Seq(Byte), NEW I, I \in SUBSET (0..Len(text)), NEW j
  PROVE  /\ j \in h16(I) <=> \E p \in I : \E k \in 1..4 : Hexes(p, k) /\ j = p + k
         /\ h16(I) \in SUBSET (0..Len(text))
<1> PICK n \in Nat : n = Len(text)
  OBVIOUS
<1>1. PICK A, B, C, D : A = hexdig(I) /\ B = hexdig(A) /\ C = hexdig(B) /\ D = hexdig(C)
  OBVIOUS
<1>2. ASSUME NEW J \in SUBSET (0..n)
      PROVE  /\ hexdig(J) \in SUBSET (0..n)
             /\ \A m : m \in hexdig(J) <=> \E p \in J : m = p + 1 /\ p < n /\ At(text, p) \in HexDigit
  BY DEF hexdig, Char
<1>3. A \in SUBSET (0..n) /\ B \in SUBSET (0..n) /\ C \in SUBSET (0..n) /\ D \in SUBSET (0..n)
  BY <1>1, <1>2
<1>4. ASSUME NEW J \in SUBSET (0..n), NEW k \in 0..3,
             \A m : m \in J <=> \E p \in I : Hexes(p, k) /\ m = p + k
      PROVE  \A m : m \in hexdig(J) <=> \E p \in I : Hexes(p, k + 1) /\ m = p + (k + 1)
  <2> TAKE m
  <2>1. ASSUME NEW p \in I, Hexes(p, k + 1), m = p + (k + 1)
        PROVE  m \in hexdig(J)
    <3>1. p \in Nat
      OBVIOUS
    <3>2. PICK q : q = p + k
      OBVIOUS
    <3>3. Hexes(p, k) /\ q < n /\ At(text, q) \in HexDigit /\ m = q + 1
      BY <2>1, <3>1, <3>2 DEF Hexes
    <3>4. q \in J
      BY <1>4, <3>2, <3>3
    <3> QED BY <1>2, <3>3, <3>4
  <2>2. ASSUME m \in hexdig(J)
        PROVE  \E p \in I : Hexes(p, k + 1) /\ m = p + (k + 1)
    <3>1. PICK q \in J : m = q + 1 /\ q < n /\ At(text, q) \in HexDigit
      BY <1>2, <2>2
    <3>2. PICK p \in I : Hexes(p, k) /\ q = p + k
      BY <1>4, <3>1
    <3>3. p \in Nat
      OBVIOUS
    <3>4. Hexes(p, k + 1) /\ m = p + (k + 1)
      BY <3>1, <3>2, <3>3 DEF Hexes
    <3> QED BY <3>4
  <2> QED BY <2>1, <2>2
<1>5. \A m : m \in I <=> \E p \in I : Hexes(p, 0) /\ m = p + 0
  <2>1. ASSUME NEW p \in I
        PROVE  Hexes(p, 0) /\ p + 0 = p
    <3>1. p \in 0..n
      OBVIOUS
    <3> QED BY <3>1 DEF Hexes
  <2> QED BY <2>1
<1>6. \A m : m \in A <=> \E p \in I : Hexes(p, 1) /\ m = p + 1
  <2>1. 0 + 1 = 1 /\ 0 \in 0..3 /\ I \in SUBSET (0..n)
    OBVIOUS
  <2>2. \A m : m \in hexdig(I) <=> \E p \in I : Hexes(p, 0 + 1) /\ m = p + (0 + 1)
    BY <1>4, <1>5, <2>1
  <2> QED BY <1>1, <2>1, <2>2
<1>7. \A m : m \in B <=> \E p \in I : Hexes(p, 2) /\ m = p + 2
  <2>1. 1 + 1 = 2 /\ 1 \in 0..3
    OBVIOUS
  <2>2. \A m : m \in hexdig(A) <=> \E p \in I : Hexes(p, 1 + 1) /\ m = p + (1 + 1)
    BY <1>3, <1>4, <1>6, <2>1
  <2> QED BY <1>1, <2>1, <2>2
<1>8. \A m : m \in C <=> \E p \in I : Hexes(p, 3) /\ m = p + 3
  <2>1. 2 + 1 = 3 /\ 2 \in 0..3
    OBVIOUS
  <2>2. \A m : m \in hexdig(B) <=> \E p \in I : Hexes(p, 2 + 1) /\ m = p + (2 + 1)
    BY <1>3, <1>4, <1>7, <2>1
  <2> QED BY <1>1, <2>1, <2>2
<1>9. \A m : m \in D <=> \E p \in I : Hexes(p, 4) /\ m = p + 4
  <2>1. 3 + 1 = 4 /\ 3 \in 0..3
    OBVIOUS
  <2>2. \A m : m \in hexdig(C) <=> \E p \in I : Hexes(p, 3 + 1) /\ m = p + (3 + 1)
    BY <1>3, <1>4, <1>8, <2>1
  <2> QED BY <1>1, <2>1, <2>2
<1>10. h16(I) = A \cup B \cup C \cup D
  <2>1. h16(I) = UNION {HexAfter(k, I) : k \in 1..4}
    BY DEF h16, Between, HexAfter
  <2>2. 1..4 = {1, 2, 3, 4}
    OBVIOUS
  <2>3. h16(I) = HexAfter(1, I) \cup HexAfter(2, I) \cup HexAfter(3, I) \cup HexAfter(4, I)
    BY <2>1, <2>2
  <2> QED BY <1>1, <2>3, HexTimes
<1>11. \A k : k \in 1..4 <=> k = 1 \/ k = 2 \/ k = 3 \/ k = 4
  OBVIOUS
<1>12. j \in h16(I) <=> \E p \in I : \E k \in 1..4 : Hexes(p, k) /\ j = p + k
  BY <1>6, <1>7, <1>8, <1>9, <1>10, <1>11
<1> QED BY <1>3, <1>10, <1>12

(* Where the group at p stops, as the parser reads it.                     *)
Group(p) == parse_ipv6_group(text, p, Len(text))

(***************************************************************************)
(* parse_ipv6_group takes up to four digits, the grammar as few as it      *)
(* likes: before a character that is no digit, or the end, they agree.     *)
(***************************************************************************)
LEMMA GroupIs ==
  ASSUME text \in Seq(Byte), NEW p \in 0..Len(text)
  PROVE  /\ Group(p) \in p..Len(text)
         /\ \A i \in p..(Group(p) - 1) : At(text, i) \in HexDigit
         /\ \A j \in 0..Len(text) :
              j = Len(text) \/ At(text, j) \notin HexDigit =>
                ((\E k \in 1..4 : Hexes(p, k) /\ j = p + k) <=> Group(p) = j /\ j > p)
<1> PICK n \in Nat : n = Len(text)
  OBVIOUS
<1>1. n \in 0..Len(text) /\ p \in 0..n
  OBVIOUS
<1>2. PICK run \in p..n :
         /\ Skip(text, p, n, HexDigit) = run
         /\ run = n \/ At(text, run) \notin HexDigit
         /\ \A k \in p..(run - 1) : At(text, k) \in HexDigit
  BY <1>1, SkipIs
<1>3. PICK g : g = Group(p)
  OBVIOUS
<1>4. g = IF run > p + 4 THEN p + 4 ELSE run
  BY <1>2, <1>3 DEF Group, parse_ipv6_group
<1>5. g \in p..n /\ \A i \in p..(g - 1) : At(text, i) \in HexDigit
  BY <1>1, <1>2, <1>4
<1>6. ASSUME NEW j \in 0..n, j = n \/ At(text, j) \notin HexDigit
      PROVE  (\E k \in 1..4 : Hexes(p, k) /\ j = p + k) <=> g = j /\ j > p
  <2>1. ASSUME NEW k \in 1..4, Hexes(p, k), j = p + k
        PROVE  g = j /\ j > p
    <3>1. j > p /\ j <= p + 4 /\ \A i \in p..(j - 1) : At(text, i) \in HexDigit
      BY <1>1, <2>1 DEF Hexes
    <3>2. run >= j
      BY <1>1, <1>2, <3>1
    <3>3. ~(run > j)
      BY <1>1, <1>2, <1>6, <3>1
    <3> QED BY <1>1, <1>4, <3>1, <3>2, <3>3
  <2>2. ASSUME g = j, j > p
        PROVE  \E k \in 1..4 : Hexes(p, k) /\ j = p + k
    <3>1. j = run
      BY <1>1, <1>2, <1>4, <1>6, <2>2
    <3>2. run <= p + 4
      BY <1>1, <1>4, <2>2, <3>1
    <3>3. PICK k \in 1..4 : k = j - p
      BY <1>1, <2>2, <3>1, <3>2
    <3>4. j = p + k /\ p + k - 1 = j - 1
      BY <1>1, <3>3
    <3>5. Hexes(p, k)
      BY <1>2, <3>1, <3>4 DEF Hexes
    <3> QED BY <3>4, <3>5
  <2> QED BY <2>1, <2>2
<1> QED BY <1>3, <1>5, <1>6

(* A dot comes before the next colon.                                      *)
DotAhead(p) ==
  \E i \in p..(Len(text) - 1) : At(text, i) = Dot /\ \A j \in p..i : At(text, j) # Colon

(* A colon follows the group at p; another one follows that.               *)
Parted(p) == Group(p) > p /\ Group(p) < Len(text) /\ At(text, Group(p)) = Colon
Doubled(p) == Group(p) + 1 < Len(text) /\ At(text, Group(p) + 1) = Colon

(* One round of the loop of parse_ipv6, w being what the later ones do.    *)
Round(w, p, groups, seen) ==
  IF p = Len(text) THEN seen /\ CountFits(groups, seen) ELSE
  IF DotAhead(p) THEN parse_ipv4(text, p, Len(text)) /\ CountFits(groups + 2, seen)
  ELSE /\ Group(p) > p
       /\ \/ Group(p) = Len(text) /\ CountFits(groups + 1, seen)
          \/ /\ Group(p) < Len(text) /\ At(text, Group(p)) = Colon
             /\ IF Doubled(p) THEN ~seen /\ w[Group(p) + 2][groups + 1][TRUE]
                ELSE w[Group(p) + 1][groups + 1][seen]

(* w says what the loop does from position a on.                           *)
Rounds(a, w) ==
  w = [p \in a..Len(text) |-> [groups \in 0..p |-> [seen \in BOOLEAN |-> Round(w, p, groups, seen)]]]

(* w and v agree after p, and in the round at p.                           *)
SameAfter(w, v, p) == \A r \in (p + 1)..Len(text) : w[r] = v[r]
SameRound(w, v, p) == \A groups, seen : Round(w, p, groups, seen) = Round(v, p, groups, seen)

(***************************************************************************)
(* A round looks only at the later ones.                                   *)
(***************************************************************************)
LEMMA RoundsAhead ==
  ASSUME text \in Seq(Byte), NEW p \in 0..Len(text), NEW w, NEW v, SameAfter(w, v, p)
  PROVE  SameRound(w, v, p)
<1> PICK n \in Nat : n = Len(text)
  OBVIOUS
<1>1. PICK g \in p..n : g = Group(p)
  BY GroupIs
<1>2. g > p /\ g < n => g + 1 \in (p + 1)..n
  BY <1>1
<1>3. g > p /\ Doubled(p) => g + 2 \in (p + 1)..n
  BY <1>1 DEF Doubled
<1>4. g > p /\ g < n => w[g + 1] = v[g + 1]
  BY <1>2 DEF SameAfter
<1>5. g > p /\ Doubled(p) => w[g + 2] = v[g + 2]
  BY <1>3 DEF SameAfter
<1> SUFFICES ASSUME NEW groups, NEW seen
             PROVE  Round(w, p, groups, seen) = Round(v, p, groups, seen)
  BY DEF SameRound
<1>6. Round(w, p, groups, seen) <=> Round(v, p, groups, seen)
  BY <1>1, <1>4, <1>5 DEF Round
<1>7. Round(w, p, groups, seen) \in BOOLEAN /\ Round(v, p, groups, seen) \in BOOLEAN
  BY DEF Round
<1> QED BY <1>6, <1>7

(***************************************************************************)
(* The recursion of the loop has a solution: from the last position down,  *)
(* each is found from the later ones.                                      *)
(***************************************************************************)
LEMMA RoundsExist ==
  ASSUME text \in Seq(Byte)
  PROVE  \E w : Rounds(0, w)
<1> PICK n \in Nat : n = Len(text)
  OBVIOUS
<1>1. PICK S : S = {a \in 0..n : \E w : Rounds(a, w)}
  OBVIOUS
<1>2. ASSUME NEW p \in 0..n, \A q \in (p + 1)..n : q \in S
      PROVE  p \in S
  <2>1. PICK v : p # n => Rounds(p + 1, v)
    <3>1. p # n => p + 1 \in S
      BY <1>2
    <3> QED BY <1>1, <3>1
  <2>2. PICK row : row = [groups \in 0..p |-> [seen \in BOOLEAN |-> Round(v, p, groups, seen)]]
    OBVIOUS
  <2>3. PICK w : w = [q \in p..n |-> IF q = p THEN row ELSE v[q]]
    OBVIOUS
  <2>4. \A r \in (p + 1)..n : w[r] = v[r]
    BY <2>3
  <2>5. ASSUME NEW q \in p..n
        PROVE  w[q] = [groups \in 0..q |-> [seen \in BOOLEAN |-> Round(w, q, groups, seen)]]
    <3>0. q \in 0..Len(text)
      OBVIOUS
    <3>1. \A r \in (q + 1)..n : w[r] = v[r]
      BY <2>4
    <3>2. \A groups, seen : Round(w, q, groups, seen) = Round(v, q, groups, seen)
      <4>1. SameAfter(w, v, q)
        BY <3>1 DEF SameAfter
      <4>2. SameRound(w, v, q)
        BY <3>0, <4>1, RoundsAhead
      <4> QED BY <4>2, Zenon DEF SameRound
    <3>3. [groups \in 0..q |-> [seen \in BOOLEAN |-> Round(w, q, groups, seen)]]
            = [groups \in 0..q |-> [seen \in BOOLEAN |-> Round(v, q, groups, seen)]]
      BY <3>2, Zenon
    <3>4. CASE q = p
      BY <2>2, <2>3, <3>3, <3>4
    <3>5. CASE q # p
      <4>1. q \in (p + 1)..n
        BY <3>5
      <4>2. v[q] = [groups \in 0..q |-> [seen \in BOOLEAN |-> Round(v, q, groups, seen)]]
        BY <2>1, <3>5, <4>1 DEF Rounds
      <4> QED BY <2>4, <3>3, <4>1, <4>2
    <3> QED BY <3>4, <3>5
  <2>6. Rounds(p, w)
    BY <2>3, <2>5 DEF Rounds
  <2> QED BY <1>1, <2>6
<1>3. \A p \in 0..n : p \in S
  BY <1>2, Downwards, Zenon
<1> QED BY <1>1, <1>3

(* With what counts of groups the loop may be at p and end well: A after   *)
(* "::", Z before it.                                                      *)
CountAfter(A, p, g) ==
  LET n == Len(text)
  IN  g \in A[p] <=>
        \/ p = n /\ g <= 7
        \/ p # n /\ DotAhead(p) /\ parse_ipv4(text, p, n) /\ g + 2 <= 7
        \/ p # n /\ ~DotAhead(p) /\ Group(p) > p /\ Group(p) = n /\ g + 1 <= 7
        \/ p # n /\ ~DotAhead(p) /\ Parted(p) /\ ~Doubled(p) /\ g + 1 \in A[Group(p) + 1]
(* What Z has.                                                             *)
CountBefore(A, Z, p, g) ==
  LET n == Len(text)
  IN  g \in Z[p] <=>
        \/ p # n /\ DotAhead(p) /\ parse_ipv4(text, p, n) /\ g + 2 = 8
        \/ p # n /\ ~DotAhead(p) /\ Group(p) > p /\ Group(p) = n /\ g + 1 = 8
        \/ p # n /\ ~DotAhead(p) /\ Parted(p) /\ Doubled(p) /\ g + 1 \in A[Group(p) + 2]
        \/ p # n /\ ~DotAhead(p) /\ Parted(p) /\ ~Doubled(p) /\ g + 1 \in Z[Group(p) + 1]
(* The answer, from the counts.                                            *)
CountAnswer(A, Z) ==
  parse_ipv6(text, 0, Len(text)) <=>
    IF 2 <= Len(text) /\ At(text, 0) = Colon /\ At(text, 1) = Colon THEN 0 \in A[2]
    ELSE ~(0 < Len(text) /\ At(text, 0) = Colon) /\ 0 \in Z[0]
(* A and Z are these counts.                                               *)
Counts(A, Z) ==
  /\ \A p \in 0..Len(text) : \A g \in 0..p : CountAfter(A, p, g) /\ CountBefore(A, Z, p, g)
  /\ CountAnswer(A, Z)

(***************************************************************************)
(* parse_ipv6 as two sets of counts for each position.                     *)
(***************************************************************************)
LEMMA CountsAre ==
  ASSUME text \in Seq(Byte)
  PROVE  \E A, Z : Counts(A, Z)
<1> PICK n \in Nat : n = Len(text)
  OBVIOUS
<1> DEFINE Dots(p) == \E i \in p..(n - 1) : At(text, i) = Dot /\ \A j \in p..i : At(text, j) # Colon
           Body(w, p, groups, seen) ==
             IF p = n THEN seen /\ CountFits(groups, seen) ELSE
             IF Dots(p) THEN parse_ipv4(text, p, n) /\ CountFits(groups + 2, seen)
             ELSE \E q \in {parse_ipv6_group(text, p, n)} :
                    /\ q > p
                    /\ \/ q = n /\ CountFits(groups + 1, seen)
                       \/ /\ q < n /\ At(text, q) = Colon
                          /\ IF q + 1 < n /\ At(text, q + 1) = Colon
                             THEN ~seen /\ w[q + 2][groups + 1][TRUE]
                             ELSE w[q + 1][groups + 1][seen]
           Eq(w) == w = [p \in 0..n |-> [groups \in 0..(p - 0) |-> [seen \in BOOLEAN |-> Body(w, p, groups, seen)]]]
<1>1. \A w, p, groups, seen : Body(w, p, groups, seen) = Round(w, p, groups, seen)
  BY DEF Round, DotAhead, Group, Doubled
<1>2. \A w : Eq(w) <=> Rounds(0, w)
  <2> TAKE w
  <2>1. \A p \in 0..n : 0..(p - 0) = 0..p
    OBVIOUS
  <2> HIDE DEF Body
  <2>2. [p \in 0..n |-> [groups \in 0..(p - 0) |-> [seen \in BOOLEAN |-> Body(w, p, groups, seen)]]]
          = [p \in 0..n |-> [groups \in 0..p |-> [seen \in BOOLEAN |-> Round(w, p, groups, seen)]]]
    BY <1>1, <2>1, Zenon
  <2> QED BY <2>2 DEF Rounds
<1>3. PICK v : v = CHOOSE w : Eq(w)
  OBVIOUS
<1>4. parse_ipv6(text, 0, n) <=> IF 2 <= n /\ At(text, 0) = Colon /\ At(text, 1) = Colon THEN v[2][0][TRUE]
                                 ELSE ~(0 < n /\ At(text, 0) = Colon) /\ v[0][0][FALSE]
  <2>1. parse_ipv6(text, 0, n) <=> IF 0 + 2 <= n /\ At(text, 0) = Colon /\ At(text, 0 + 1) = Colon
                                   THEN v[0 + 2][0][TRUE]
                                   ELSE ~(0 < n /\ At(text, 0) = Colon) /\ v[0][0][FALSE]
    BY <1>3 DEF parse_ipv6
  <2>2. 0 + 2 = 2 /\ 0 + 1 = 1
    OBVIOUS
  <2> QED BY <2>1, <2>2
<1> HIDE DEF Eq
<1>5. Rounds(0, v)
  BY <1>2, <1>3, RoundsExist
<1> HIDE DEF Body
<1>6. ASSUME NEW p \in 0..n, NEW g \in 0..p
      PROVE  /\ v[p][g][TRUE] = Round(v, p, g, TRUE)
             /\ v[p][g][FALSE] = Round(v, p, g, FALSE)
  <2>1. v[p] = [groups \in 0..p |-> [seen \in BOOLEAN |-> Round(v, p, groups, seen)]]
    BY <1>5, Zenon DEF Rounds
  <2>2. v[p][g] = [seen \in BOOLEAN |-> Round(v, p, g, seen)]
    BY <2>1, Zenon
  <2> QED BY <2>2, Zenon
<1>7. PICK A, Z : /\ A = [p \in 0..n |-> {g \in 0..p : v[p][g][TRUE]}]
                  /\ Z = [p \in 0..n |-> {g \in 0..p : v[p][g][FALSE]}]
  OBVIOUS
<1>8. ASSUME NEW p \in 0..n, NEW g \in 0..p
      PROVE  /\ g \in A[p] <=> v[p][g][TRUE]
             /\ g \in Z[p] <=> v[p][g][FALSE]
  BY <1>7
<1>9. ASSUME NEW p \in 0..n, NEW g \in 0..p
      PROVE  /\ Parted(p) => Group(p) + 1 \in 0..n /\ g + 1 \in 0..(Group(p) + 1)
             /\ Parted(p) /\ Doubled(p) => Group(p) + 2 \in 0..n /\ g + 1 \in 0..(Group(p) + 2)
  <2>1. PICK q \in p..n : q = Group(p)
    BY GroupIs
  <2> QED BY <2>1 DEF Parted, Doubled
<1> DEFINE Late(p, g) == Round(v, p, g, TRUE)
           Early(p, g) == Round(v, p, g, FALSE)
           LateV(p, g) == v[p][g][TRUE]
           EarlyV(p, g) == v[p][g][FALSE]
<1>14. ASSUME NEW p \in 0..n, NEW g \in 0..p
       PROVE  /\ g \in A[p] <=> LateV(p, g)
              /\ g \in Z[p] <=> EarlyV(p, g)
  BY <1>8, Zenon
<1>15. ASSUME NEW p \in 0..n, NEW g \in 0..p
       PROVE  /\ LateV(p, g) <=> Late(p, g)
              /\ EarlyV(p, g) <=> Early(p, g)
  <2>1. v[p][g][TRUE] = Round(v, p, g, TRUE) /\ v[p][g][FALSE] = Round(v, p, g, FALSE)
    BY <1>6, Zenon
  <2> QED BY <2>1, Zenon
<1>16. \A p, g :
         Late(p, g) <=>
          IF p = n THEN g <= 7 ELSE
          IF DotAhead(p) THEN parse_ipv4(text, p, n) /\ g + 2 <= 7
          ELSE /\ Group(p) > p
               /\ \/ Group(p) = n /\ g + 1 <= 7
                  \/ /\ Group(p) < n /\ At(text, Group(p)) = Colon
                     /\ ~Doubled(p) /\ LateV(Group(p) + 1, g + 1)
  BY DEF Round, CountFits
<1>17. \A p, g :
         Early(p, g) <=>
          IF p = n THEN FALSE ELSE
          IF DotAhead(p) THEN parse_ipv4(text, p, n) /\ g + 2 = 8
          ELSE /\ Group(p) > p
               /\ \/ Group(p) = n /\ g + 1 = 8
                  \/ /\ Group(p) < n /\ At(text, Group(p)) = Colon
                     /\ IF Doubled(p) THEN LateV(Group(p) + 2, g + 1) ELSE EarlyV(Group(p) + 1, g + 1)
  BY DEF Round, CountFits
<1> HIDE DEF Late, Early, LateV, EarlyV
<1>10. ASSUME NEW p \in 0..n, NEW g \in 0..p
       PROVE  CountAfter(A, p, g)
  <2>1. g \in A[p] <=> Late(p, g)
    BY <1>14, <1>15
  <2>2. Parted(p) => (g + 1 \in A[Group(p) + 1] <=> LateV(Group(p) + 1, g + 1))
    BY <1>14, <1>9
  <2> QED BY <2>1, <2>2, <1>16 DEF Parted, CountAfter
<1>11. ASSUME NEW p \in 0..n, NEW g \in 0..p
       PROVE  CountBefore(A, Z, p, g)
  <2>1. g \in Z[p] <=> Early(p, g)
    BY <1>14, <1>15
  <2>2. Parted(p) => (g + 1 \in Z[Group(p) + 1] <=> EarlyV(Group(p) + 1, g + 1))
    BY <1>14, <1>9
  <2>3. Parted(p) /\ Doubled(p) => (g + 1 \in A[Group(p) + 2] <=> LateV(Group(p) + 2, g + 1))
    BY <1>14, <1>9
  <2> QED BY <2>1, <2>2, <2>3, <1>17 DEF Parted, CountBefore
<1>12. /\ 2 <= n => (0 \in A[2] <=> v[2][0][TRUE])
       /\ 0 \in Z[0] <=> v[0][0][FALSE]
  <2>1. 0 \in 0..n /\ 0 \in 0..0 /\ 0 \in 0..2 /\ (2 <= n => 2 \in 0..n)
    OBVIOUS
  <2>2. ASSUME 2 <= n
        PROVE  0 \in A[2] <=> v[2][0][TRUE]
    <3>1. 2 \in 0..n
      BY <2>2
    <3> QED BY <1>8, <2>1, <3>1, Zenon
  <2>3. 0 \in Z[0] <=> v[0][0][FALSE]
    BY <1>8, <2>1, Zenon
  <2> QED BY <2>2, <2>3
<1>13. Counts(A, Z)
  <2>1. CountAnswer(A, Z)
    BY <1>4, <1>12 DEF CountAnswer
  <2> QED BY <1>10, <1>11, <2>1 DEF Counts
<1> QED BY <1>13

(* m groups, the last two perhaps dotted, from p to j; k groups and "::".  *)
GroupsEnd(m, p, j) == j \in Right(m, {p})
Pairs(k, p) == colon(colon(Left(k, {p})))

(***************************************************************************)
(* The ends of a colon.                                                    *)
(***************************************************************************)
LEMMA ColonsAre ==
  ASSUME text \in Seq(Byte), NEW I, I \in SUBSET (0..Len(text)), NEW j
  PROVE  /\ j \in colon(I) <=> j \in Nat /\ j - 1 \in I /\ j <= Len(text) /\ At(text, j - 1) = Colon
         /\ colon(I) \in SUBSET (0..Len(text))
<1>1. PICK C : C = {Colon}
  OBVIOUS
<1>2. I \in SUBSET Nat
  OBVIOUS
<1>3. \A k : k \in Char(C, I) <=> k \in Nat /\ k - 1 \in I /\ k <= Len(text) /\ At(text, k - 1) \in C
  BY <1>2, CharAt
<1>4. colon(I) = Char(C, I)
  BY <1>1 DEF colon
<1>5. colon(I) \in SUBSET (0..Len(text))
  BY <1>3, <1>4
<1> QED BY <1>1, <1>3, <1>4, <1>5

(***************************************************************************)
(* Where h16 ends from one position, before what is no digit.              *)
(***************************************************************************)
LEMMA H16At ==
  ASSUME text \in Seq(Byte), NEW p \in 0..Len(text), NEW j \in 0..Len(text),
         j = Len(text) \/ At(text, j) \notin HexDigit
  PROVE  j \in h16({p}) <=> Group(p) = j /\ j > p
<1>1. PICK I : I = {p}
  OBVIOUS
<1>2. I \in SUBSET (0..Len(text))
  BY <1>1
<1>3. j \in h16(I) <=> \E q \in I : \E k \in 1..4 : Hexes(q, k) /\ j = q + k
  BY <1>2, HexRuns
<1>4. j \in h16(I) <=> \E k \in 1..4 : Hexes(p, k) /\ j = p + k
  BY <1>1, <1>3
<1>5. (\E k \in 1..4 : Hexes(p, k) /\ j = p + k) <=> Group(p) = j /\ j > p
  BY GroupIs
<1> QED BY <1>1, <1>4, <1>5

(***************************************************************************)
(* From one position, a group with its colon has one end or none.          *)
(***************************************************************************)
LEMMA GroupColonIs ==
  ASSUME text \in Seq(Byte), NEW p \in 0..Len(text), NEW I, I = {p}
  PROVE  /\ Parted(p) => h16colon(I) = {Group(p) + 1}
         /\ ~Parted(p) => h16colon(I) = {}
         /\ h16colon(I) \in SUBSET (0..Len(text))
<1> PICK n \in Nat : n = Len(text)
  OBVIOUS
<1>1. PICK H : H = h16(I)
  OBVIOUS
<1>2. I \in SUBSET (0..Len(text))
  OBVIOUS
<1>3. H \in SUBSET (0..Len(text))
  BY <1>1, <1>2, HexRuns
<1>4. \A j : j \in colon(H) <=> j \in Nat /\ j - 1 \in H /\ j <= Len(text) /\ At(text, j - 1) = Colon
  BY <1>3, ColonsAre
<1>5. h16colon(I) = colon(H)
  BY <1>1 DEF h16colon
<1>6. Colon \notin HexDigit
  BY DEF Colon, HexDigit, Digit, Zero, Nine
<1>7. ASSUME NEW j \in Nat, j <= n, At(text, j - 1) = Colon, j - 1 \in 0..n
      PROVE  j - 1 \in H <=> Group(p) = j - 1 /\ j - 1 > p
  <2>1. PICK i \in 0..Len(text) : i = j - 1
    BY <1>7
  <2>2. At(text, i) \notin HexDigit
    BY <1>6, <1>7, <2>1
  <2>3. i \in h16({p}) <=> Group(p) = i /\ i > p
    BY <2>2, H16At
  <2> QED BY <1>1, <2>1, <2>3
<1>8. PICK g \in p..n : g = Group(p)
  BY GroupIs
<1>9. \A j : j \in colon(H) <=> Parted(p) /\ j = g + 1
  <2> TAKE j
  <2>1. ASSUME j \in colon(H)
        PROVE  Parted(p) /\ j = g + 1
    <3>1. j \in Nat /\ j - 1 \in H /\ j <= n /\ At(text, j - 1) = Colon
      BY <1>4, <2>1
    <3>2. j - 1 \in 0..n
      BY <1>3, <3>1
    <3>3. g = j - 1 /\ j - 1 > p
      BY <1>7, <1>8, <3>1, <3>2
    <3> QED BY <1>8, <3>1, <3>3 DEF Parted
  <2>2. ASSUME Parted(p), j = g + 1
        PROVE  j \in colon(H)
    <3>1. g > p /\ g < n /\ At(text, g) = Colon
      BY <1>8, <2>2 DEF Parted
    <3>2. j \in Nat /\ j <= n /\ j - 1 = g /\ j - 1 \in 0..n
      BY <1>8, <2>2, <3>1
    <3>3. j - 1 \in H
      BY <1>7, <1>8, <3>1, <3>2
    <3> QED BY <1>4, <3>1, <3>2, <3>3
  <2> QED BY <2>1, <2>2
<1>10. h16colon(I) \in SUBSET (0..Len(text))
  BY <1>3, <1>5, ColonsAre
<1> QED BY <1>5, <1>8, <1>9, <1>10

(***************************************************************************)
(* From no position the grammar goes nowhere.                              *)
(***************************************************************************)
LEMMA NothingFrom ==
  ASSUME text \in Seq(Byte), NEW I, I = {}
  PROVE  /\ h16(I) = {} /\ colon(I) = {} /\ h16colon(I) = {} /\ ipv4(I) = {}
         /\ \A m \in Nat : GroupsAfter(m, I) = {}
<1>1. I \in SUBSET (0..Len(text)) /\ I \in SUBSET Nat
  OBVIOUS
<1>2. h16(I) = {}
  <2>1. \A j : j \in h16(I) <=> \E p \in I : \E k \in 1..4 : Hexes(p, k) /\ j = p + k
    BY <1>1, HexRuns
  <2> QED BY <2>1
<1>3. colon(I) = {}
  <2>1. \A j : j \in colon(I) <=> j \in Nat /\ j - 1 \in I /\ j <= Len(text) /\ At(text, j - 1) = Colon
    BY <1>1, ColonsAre
  <2> QED BY <2>1
<1>4. h16colon(I) = {}
  BY <1>2, <1>3 DEF h16colon
<1>5. PICK B : B = dot(decOctet(I))
  OBVIOUS
<1>6. B = {}
  <2>1. \A j : j \in B <=> \E p \in I : Dotted(p, j)
    BY <1>1, <1>5, DottedIs
  <2> QED BY <2>1
<1>7. decOctet(I) = {}
  <2>1. \A j : j \in decOctet(I) <=> \E p \in I : Octet(p, j)
    BY <1>1, DecOctetIs
  <2> QED BY <2>1
<1>8. B = I /\ dot(decOctet(B)) = B
  BY <1>5, <1>6
<1>9. ipv4(I) = {}
  BY <1>5, <1>7, <1>8 DEF ipv4
<1>10. PICK S : S = {m \in Nat : GroupsAfter(m, I) = {}}
  OBVIOUS
<1>11. 0 \in S
  BY <1>10, GroupsAre
<1>12. ASSUME NEW m \in Nat, m \in S
       PROVE  m + 1 \in S
  <2>1. GroupsAfter(m, I) = I
    BY <1>10, <1>12
  <2>2. GroupsAfter(m + 1, I) = h16colon(GroupsAfter(m, I))
    BY GroupsAre
  <2>3. GroupsAfter(m + 1, I) = {}
    BY <1>4, <2>1, <2>2, Zenon
  <2> QED BY <1>10, <2>3
<1>13. \A m \in Nat : m \in S
  BY <1>11, <1>12, Upwards
<1> QED BY <1>2, <1>3, <1>4, <1>9, <1>10, <1>13

(***************************************************************************)
(* What follows "::", one group at a time: two groups or more are a group  *)
(* with its colon and one less, the last two may be a dotted address.      *)
(***************************************************************************)
LEMMA RightIs ==
  ASSUME NEW I
  PROVE  /\ Right(0, I) = I
         /\ Right(1, I) = h16(I)
         /\ Right(2, I) = h16(h16colon(I)) \cup ipv4(I)
         /\ \A m \in Nat : m >= 2 => Right(m + 1, I) = Right(m, h16colon(I))
<1>1. \A m, J : Right(m, J) = CASE m = 0 -> J
                               [] m = 1 -> h16(J)
                               [] OTHER -> ls32(GroupsAfter(m - 2, J))
  BY DEF Right, GroupsAfter
<1>2. Right(2, I) = ls32(GroupsAfter(0, I))
  <2>1. 2 # 0 /\ 2 # 1 /\ 2 - 2 = 0
    OBVIOUS
  <2> QED BY <1>1, <2>1
<1>3. GroupsAfter(0, I) = I
  BY GroupsAre
<1>4. \A J : ls32(J) = h16(h16colon(J)) \cup ipv4(J)
  BY DEF ls32
<1>5. ASSUME NEW m \in Nat, m >= 2
      PROVE  Right(m + 1, I) = Right(m, h16colon(I))
  <2>1. PICK k \in Nat : k = m - 2
    BY <1>5
  <2>2. (m + 1) - 2 = k + 1 /\ m + 1 # 0 /\ m + 1 # 1 /\ m # 0 /\ m # 1
    BY <1>5, <2>1
  <2>3. Right(m + 1, I) = ls32(GroupsAfter(k + 1, I))
    BY <1>1, <2>2
  <2>4. Right(m, h16colon(I)) = ls32(GroupsAfter(k, h16colon(I)))
    BY <1>1, <2>1, <2>2
  <2> QED BY <2>3, <2>4, GroupsFirst
<1>6. Right(2, I) = h16(h16colon(I)) \cup ipv4(I)
  BY <1>2, <1>3, <1>4, Zenon
<1>7. Right(0, I) = I
  BY <1>1
<1>8. Right(1, I) = h16(I)
  BY <1>1
<1> QED BY <1>5, <1>6, <1>7, <1>8

(***************************************************************************)
(* From no position there are no groups either.                            *)
(***************************************************************************)
LEMMA NothingRight ==
  ASSUME text \in Seq(Byte), NEW J, J = {}
  PROVE  \A m \in Nat : m >= 1 => Right(m, J) = {}
<1>1. /\ \A k \in Nat : GroupsAfter(k, J) = J
      /\ h16(J) = {} /\ h16colon(J) = J /\ ipv4(J) = {}
  BY NothingFrom
<1>2. PICK S : S = {k \in Nat : Right(k + 1, J) = {}}
  OBVIOUS
<1>3. 0 \in S
  <2>1. 0 + 1 = 1 /\ Right(1, J) = h16(J)
    BY RightIs
  <2> QED BY <1>1, <1>2, <2>1
<1>4. 1 \in S
  <2>1. Right(2, J) = h16(h16colon(J)) \cup ipv4(J)
    BY RightIs
  <2>2. h16(h16colon(J)) = {}
    BY <1>1
  <2>3. 1 + 1 = 2 /\ Right(2, J) = {}
    BY <1>1, <2>1, <2>2
  <2> QED BY <1>2, <2>3
<1>5. ASSUME NEW k \in Nat, k \in S
      PROVE  k + 1 \in S
  <2>1. CASE k = 0
    BY <1>4, <2>1
  <2>2. CASE k # 0
    <3>1. k + 1 \in Nat /\ k + 1 >= 2
      BY <2>2
    <3>2. Right((k + 1) + 1, J) = Right(k + 1, h16colon(J))
      BY <3>1, RightIs
    <3>3. Right(k + 1, h16colon(J)) = Right(k + 1, J)
      BY <1>1, Zenon
    <3> QED BY <1>2, <1>5, <3>1, <3>2, <3>3
  <2> QED BY <2>1, <2>2
<1>6. \A k \in Nat : k \in S
  BY <1>3, <1>5, Upwards
<1>7. ASSUME NEW m \in Nat, m >= 1
      PROVE  Right(m, J) = {}
  <2>1. PICK k \in Nat : m = k + 1
    <3>1. m - 1 \in Nat /\ m = (m - 1) + 1
      BY <1>7
    <3> QED BY <3>1
  <2> QED BY <1>2, <1>6, <2>1
<1> QED BY <1>7

(***************************************************************************)
(* Where no dot comes before the next colon there is no dotted address.    *)
(***************************************************************************)
LEMMA NoAddress ==
  ASSUME text \in Seq(Byte), NEW p \in 0..Len(text), ~DotAhead(p), NEW I, I = {p}
  PROVE  ipv4(I) = {}
<1> PICK n \in Nat : n = Len(text)
  OBVIOUS
<1>1. PICK B, C, D : B = dot(decOctet(I)) /\ C = dot(decOctet(B)) /\ D = dot(decOctet(C))
  OBVIOUS
<1>2. I \in SUBSET (0..Len(text))
  OBVIOUS
<1>3. ASSUME NEW k
      PROVE  ~Dotted(p, k)
  <2>1. SUFFICES ASSUME Dotted(p, k) PROVE FALSE
    OBVIOUS
  <2>2. PICK j \in 0..Len(text) : j = dec_octet(text, p, Len(text))
    BY OctetEnds
  <2>3. j > p /\ j < n /\ At(text, j) = Dot
    BY <2>1, <2>2 DEF Dotted
  <2>4. Dot \notin Digit /\ Dot # Colon /\ Colon \notin Digit
    BY DEF Dot, Colon, Digit, Zero, Nine
  <2>5. p < j /\ (j = Len(text) \/ At(text, j) \notin Digit)
    BY <2>3, <2>4
  <2>6. Octet(p, j)
    BY <2>2, <2>5, OctetIs
  <2>7. \A i \in p..j : At(text, i) # Colon
    <3>1. ASSUME NEW i \in p..(j - 1)
          PROVE  At(text, i) \in Digit
      BY <2>6, <3>1 DEF Octet
    <3>2. \A i \in p..j : i = j \/ i \in p..(j - 1)
      OBVIOUS
    <3> QED BY <2>3, <2>4, <3>1, <3>2
  <2>8. j \in p..(Len(text) - 1)
    BY <2>3
  <2>9. DotAhead(p)
    BY <2>3, <2>7, <2>8 DEF DotAhead
  <2> QED BY <2>9
<1>4. B = {}
  <2>1. \A k : k \in B <=> \E q \in I : Dotted(q, k)
    BY <1>1, <1>2, DottedIs
  <2> QED BY <1>3, <2>1
<1>5. B \in SUBSET (0..Len(text)) /\ B \in SUBSET Nat
  BY <1>4
<1>6. C = {}
  <2>1. \A k : k \in C <=> \E q \in B : Dotted(q, k)
    BY <1>1, <1>5, DottedIs
  <2> QED BY <1>4, <2>1
<1>7. D = B
  BY <1>1, <1>4, <1>6
<1>8. decOctet(B) = {}
  <2>1. \A j : j \in decOctet(B) <=> \E q \in B : Octet(q, j)
    BY <1>5, DecOctetIs
  <2> QED BY <1>4, <2>1
<1>9. ipv4(I) = decOctet(D)
  BY <1>1 DEF ipv4
<1> QED BY <1>7, <1>8, <1>9

(* What follows a group and its colon.                                     *)
EndsNext(p, j) ==
  \A m \in Nat : m >= 1 => (GroupsEnd(m + 1, p, j) <=> Parted(p) /\ GroupsEnd(m, Group(p) + 1, j))
(* No group, or one.                                                       *)
EndsHere(p, j) ==
  /\ GroupsEnd(0, p, j) <=> j = p
  /\ GroupsEnd(1, p, j) <=> Group(p) = j /\ j > p

(***************************************************************************)
(* The ends of no group, one group, and of one more.                       *)
(***************************************************************************)
LEMMA EndsAre ==
  ASSUME text \in Seq(Byte), NEW p \in 0..Len(text), NEW j \in 0..Len(text),
         j = Len(text) \/ At(text, j) \notin HexDigit
  PROVE  /\ EndsHere(p, j)
         /\ ~DotAhead(p) => EndsNext(p, j)
<1>1. PICK I : I = {p}
  OBVIOUS
<1>2. \A m : GroupsEnd(m, p, j) <=> j \in Right(m, I)
  BY <1>1 DEF GroupsEnd
<1>3. GroupsEnd(0, p, j) <=> j = p
  BY <1>1, <1>2, RightIs
<1>4. GroupsEnd(1, p, j) <=> Group(p) = j /\ j > p
  <2>1. GroupsEnd(1, p, j) <=> j \in h16(I)
    BY <1>2, RightIs
  <2>2. j \in h16({p}) <=> Group(p) = j /\ j > p
    BY H16At
  <2> QED BY <1>1, <2>1, <2>2
<1>5. ASSUME ~DotAhead(p), NEW m \in Nat, m >= 1
      PROVE  GroupsEnd(m + 1, p, j) <=> Parted(p) /\ GroupsEnd(m, Group(p) + 1, j)
  <2>1. PICK J : J = h16colon(I)
    OBVIOUS
  <2>2. Right(m + 1, I) = Right(m, J)
    <3>1. CASE m = 1
      <4>1. m + 1 = 2
        BY <3>1
      <4>2. Right(2, I) = h16(J) \cup ipv4(I)
        BY <2>1, RightIs, Zenon
      <4>3. ipv4(I) = {}
        BY <1>1, <1>5, NoAddress
      <4>4. Right(1, J) = h16(J)
        BY RightIs
      <4> QED BY <3>1, <4>1, <4>2, <4>3, <4>4
    <3>2. CASE m >= 2
      BY <2>1, <3>2, RightIs, Zenon
    <3> QED BY <1>5, <3>1, <3>2
  <2>3. CASE Parted(p)
    <3>1. J = {Group(p) + 1}
      BY <1>1, <2>1, <2>3, GroupColonIs
    <3> QED BY <1>2, <2>2, <2>3, <3>1 DEF GroupsEnd
  <2>4. CASE ~Parted(p)
    <3>1. J = {}
      BY <1>1, <2>1, <2>4, GroupColonIs
    <3>2. Right(m, J) = {}
      BY <1>5, <3>1, NothingRight
    <3> QED BY <1>2, <2>2, <2>4, <3>2
  <2> QED BY <2>3, <2>4
<1> QED BY <1>3, <1>4, <1>5 DEF EndsHere, EndsNext

(* There is no dot before p.                                               *)
NoDots(p) == \A i \in 0..(p - 1) : At(text, i) # Dot

(***************************************************************************)
(* A group with its colon, or with two, leads on in the text, past no dot. *)
(***************************************************************************)
LEMMA GroupOnward ==
  ASSUME text \in Seq(Byte), NEW p \in 0..Len(text), Parted(p)
  PROVE  /\ Group(p) + 1 \in (p + 2)..Len(text)
         /\ \A i \in p..(Group(p) - 1) : At(text, i) # Dot /\ At(text, i) # Colon
         /\ At(text, Group(p)) = Colon
         /\ NoDots(p) => NoDots(Group(p) + 1)
         /\ Doubled(p) => Group(p) + 2 \in (p + 3)..Len(text)
         /\ Doubled(p) /\ NoDots(p) => NoDots(Group(p) + 2)
         /\ Doubled(p) <=> Group(p) + 1 < Len(text) /\ At(text, Group(p) + 1) = Colon
<1> PICK n \in Nat : n = Len(text)
  OBVIOUS
<1>1. PICK g \in p..n : g = Group(p)
  BY GroupIs
<1>2. g > p /\ g < n /\ At(text, g) = Colon
  BY <1>1 DEF Parted
<1>3. Dot \notin HexDigit /\ Colon \notin HexDigit /\ Dot # Colon
  BY DEF Dot, Colon, HexDigit, Digit, Zero, Nine
<1>4. \A i \in p..(g - 1) : At(text, i) # Dot /\ At(text, i) # Colon
  BY <1>1, <1>3, GroupIs
<1>5. Doubled(p) <=> g + 1 < n /\ At(text, g + 1) = Colon
  BY <1>1 DEF Doubled
<1>6. NoDots(p) => NoDots(g + 1)
  <2>1. \A i \in 0..((g + 1) - 1) : i \in 0..(p - 1) \/ i \in p..(g - 1) \/ i = g
    BY <1>1
  <2> QED BY <1>2, <1>3, <1>4, <2>1 DEF NoDots
<1>7. NoDots(g + 1) /\ Doubled(p) => NoDots(g + 2)
  <2>1. \A i \in 0..((g + 2) - 1) : i \in 0..((g + 1) - 1) \/ i = g + 1
    BY <1>1
  <2> QED BY <1>3, <1>5, <2>1 DEF NoDots
<1> QED BY <1>1, <1>2, <1>4, <1>5, <1>6, <1>7

(***************************************************************************)
(* The ends of "::" at p, after one group, and after one group more.       *)
(***************************************************************************)
LEMMA PairsAre ==
  ASSUME text \in Seq(Byte), NEW p \in 0..Len(text)
  PROVE  /\ \A j : j \in Pairs(0, p) <=> /\ p + 1 < Len(text) /\ At(text, p) = Colon
                                         /\ At(text, p + 1) = Colon /\ j = p + 2
         /\ \A j : j \in Pairs(1, p) <=> Parted(p) /\ Doubled(p) /\ j = Group(p) + 2
         /\ ~Parted(p) => \A k \in Nat : Pairs(k + 1, p) = {}
         /\ Parted(p) => \A k \in Nat : k >= 1 => Pairs(k + 1, p) = Pairs(k, Group(p) + 1)
<1> PICK n \in Nat : n = Len(text)
  OBVIOUS
<1>1. PICK I, J : I = {p} /\ J = h16colon(I)
  OBVIOUS
<1>2. I \in SUBSET (0..Len(text))
  BY <1>1
<1>3. /\ Parted(p) => J = {Group(p) + 1}
      /\ ~Parted(p) => J = {}
      /\ J \in SUBSET (0..Len(text))
  BY <1>1, GroupColonIs
<1>4. ASSUME NEW k \in Nat, NEW K
      PROVE  colon(colon(Left(k + 1, K))) = colon(GroupsAfter(k + 1, K))
  <2>1. k + 1 # 0 /\ (k + 1) - 1 = k
    OBVIOUS
  <2>2. Left(k + 1, K) = h16(GroupsAfter(k, K))
    BY <2>1 DEF Left, GroupsAfter
  <2>3. h16colon(GroupsAfter(k, K)) = colon(h16(GroupsAfter(k, K)))
    BY DEF h16colon
  <2>4. GroupsAfter(k + 1, K) = h16colon(GroupsAfter(k, K))
    BY GroupsAre
  <2> QED BY <2>2, <2>3, <2>4, Zenon
<1>5. \A k \in Nat : Pairs(k + 1, p) = colon(GroupsAfter(k, J))
  <2> TAKE k \in Nat
  <2>1. Pairs(k + 1, p) = colon(colon(Left(k + 1, I)))
    BY <1>1, Zenon DEF Pairs
  <2>2. GroupsAfter(k + 1, I) = GroupsAfter(k, J)
    BY <1>1, GroupsFirst, Zenon
  <2> QED BY <1>4, <2>1, <2>2, Zenon
<1>6. \A j : j \in Pairs(0, p) <=> /\ p + 1 < n /\ At(text, p) = Colon
                                   /\ At(text, p + 1) = Colon /\ j = p + 2
  <2>1. PICK K : K = colon(I)
    OBVIOUS
  <2>2. Pairs(0, p) = colon(K)
    <3>1. Left(0, I) = I
      BY DEF Left
    <3> QED BY <1>1, <2>1, <3>1, Zenon DEF Pairs
  <2>3. K \in SUBSET (0..Len(text))
    BY <1>2, <2>1, ColonsAre
  <2>4. \A j : j \in K <=> j \in Nat /\ j - 1 \in I /\ j <= n /\ At(text, j - 1) = Colon
    BY <1>2, <2>1, ColonsAre
  <2>5. \A j : j \in colon(K) <=> j \in Nat /\ j - 1 \in K /\ j <= n /\ At(text, j - 1) = Colon
    BY <2>3, ColonsAre
  <2>6. ASSUME NEW j, j \in colon(K)
        PROVE  p + 1 < n /\ At(text, p) = Colon /\ At(text, p + 1) = Colon /\ j = p + 2
    <3>1. PICK i : i = j - 1 /\ i \in K
      BY <2>5, <2>6
    <3>2. i \in Nat /\ i - 1 = p /\ i <= n /\ At(text, i - 1) = Colon
      BY <1>1, <2>4, <3>1
    <3>3. i = p + 1 /\ j \in Nat /\ j = p + 2
      BY <2>5, <2>6, <3>1, <3>2
    <3> QED BY <2>5, <2>6, <3>1, <3>2, <3>3
  <2>7. ASSUME p + 1 < n, At(text, p) = Colon, At(text, p + 1) = Colon
        PROVE  p + 2 \in colon(K)
    <3>1. p + 1 \in Nat /\ (p + 1) - 1 = p /\ (p + 2) - 1 = p + 1 /\ p + 2 \in Nat /\ p + 2 <= n
      BY <2>7
    <3>2. p + 1 \in K
      BY <1>1, <2>4, <2>7, <3>1
    <3> QED BY <2>5, <2>7, <3>1, <3>2
  <2> QED BY <2>2, <2>6, <2>7
<1>7. \A j : j \in Pairs(1, p) <=> Parted(p) /\ Doubled(p) /\ j = Group(p) + 2
  <2>1. Pairs(1, p) = colon(J)
    <3>1. 0 + 1 = 1 /\ 0 \in Nat
      OBVIOUS
    <3>2. Pairs(0 + 1, p) = colon(GroupsAfter(0, J)) /\ GroupsAfter(0, J) = J
      BY <1>5, <3>1, GroupsAre
    <3> QED BY <3>1, <3>2
  <2>2. \A j : j \in colon(J) <=> j \in Nat /\ j - 1 \in J /\ j <= n /\ At(text, j - 1) = Colon
    BY <1>3, ColonsAre
  <2>3. CASE Parted(p)
    <3>0. PICK g \in p..n : g = Group(p)
      BY GroupIs
    <3>1. g \in Nat /\ g = Group(p) /\ J = {g + 1} /\ (Doubled(p) <=> g + 1 < n /\ At(text, g + 1) = Colon)
      BY <1>3, <2>3, <3>0 DEF Doubled
    <3>2. ASSUME NEW j \in Nat
          PROVE  j - 1 \in J <=> j = g + 2
      BY <3>1
    <3>3. g + 2 \in Nat /\ (g + 2) - 1 = g + 1
      BY <3>1
    <3>4. ASSUME NEW j, j \in Pairs(1, p)
          PROVE  Doubled(p) /\ j = g + 2
      <4>1. j \in Nat /\ j - 1 \in J /\ j <= n /\ At(text, j - 1) = Colon
        BY <2>1, <2>2, <3>4
      <4>2. j = g + 2
        BY <3>2, <4>1
      <4>3. At(text, g + 1) = Colon /\ g + 1 < n
        BY <3>1, <3>3, <4>1, <4>2
      <4> QED BY <3>1, <4>2, <4>3
    <3>5. ASSUME Doubled(p)
          PROVE  g + 2 \in Pairs(1, p)
      <4>1. g + 1 < n /\ At(text, g + 1) = Colon
        BY <3>1, <3>5
      <4>2. g + 2 <= n /\ (g + 2) - 1 \in J
        BY <3>1, <3>2, <3>3, <4>1
      <4> QED BY <2>1, <2>2, <3>3, <4>1, <4>2
    <3> QED BY <2>3, <3>1, <3>4, <3>5
  <2>4. CASE ~Parted(p)
    BY <1>3, <2>1, <2>2, <2>4
  <2> QED BY <2>3, <2>4
<1>8. ASSUME ~Parted(p), NEW k \in Nat
      PROVE  Pairs(k + 1, p) = {}
  <2>1. GroupsAfter(k, J) = J /\ colon(J) = {}
    BY <1>3, <1>8, NothingFrom
  <2> QED BY <1>5, <2>1, Zenon
<1>9. ASSUME Parted(p), NEW k \in Nat, k >= 1
      PROVE  Pairs(k + 1, p) = Pairs(k, Group(p) + 1)
  <2>1. PICK m \in Nat : k = m + 1
    <3>1. k - 1 \in Nat /\ k = (k - 1) + 1
      BY <1>9
    <3> QED BY <3>1
  <2>2. J = {Group(p) + 1}
    BY <1>3, <1>9
  <2>3. Pairs(k, Group(p) + 1) = colon(colon(Left(m + 1, J)))
    BY <2>1, <2>2, Zenon DEF Pairs
  <2>4. colon(colon(Left(m + 1, J))) = colon(GroupsAfter(k, J))
    BY <1>4, <2>1, Zenon
  <2>5. Pairs(k + 1, p) = colon(GroupsAfter(k, J))
    BY <1>5
  <2> QED BY <2>3, <2>4, <2>5
<1> QED BY <1>6, <1>7, <1>8, <1>9

(* "::" stands before j, k groups after p.                                 *)
PairAt(k, p, j) ==
  /\ j \in 2..Len(text) /\ j >= p + k
  /\ At(text, j - 1) = Colon /\ At(text, j - 2) = Colon
  /\ NoDots(p) => NoDots(j)
(* These ends are one at most.                                             *)
AtMostOne(k, p) ==
  /\ \A j \in Pairs(k, p) : PairAt(k, p, j)
  /\ \A i, j \in Pairs(k, p) : i = j

(***************************************************************************)
(* k groups and "::" have one end or none.                                 *)
(***************************************************************************)
LEMMA PairsOne ==
  ASSUME text \in Seq(Byte)
  PROVE  \A k \in Nat : \A p \in 0..Len(text) : AtMostOne(k, p)
<1> PICK n \in Nat : n = Len(text)
  OBVIOUS
<1>1. ASSUME NEW p \in 0..n
      PROVE  AtMostOne(0, p) /\ AtMostOne(1, p)
  <2>1. \A j : j \in Pairs(0, p) => PairAt(0, p, j)
    <3>1. SUFFICES ASSUME p + 1 < n, At(text, p) = Colon, At(text, p + 1) = Colon
                   PROVE  PairAt(0, p, p + 2)
      BY PairsAre
    <3>2. p + 2 \in 2..n /\ (p + 2) - 1 = p + 1 /\ (p + 2) - 2 = p /\ p + 2 >= p + 0
      BY <3>1
    <3>3. \A i \in 0..((p + 2) - 1) : i \in 0..(p - 1) \/ i = p \/ i = p + 1
      OBVIOUS
    <3>4. Dot # Colon
      BY DEF Dot, Colon
    <3>5. NoDots(p) => NoDots(p + 2)
      BY <3>1, <3>3, <3>4 DEF NoDots
    <3> QED BY <3>1, <3>2, <3>5 DEF PairAt
  <2>2. ASSUME Parted(p), Doubled(p)
        PROVE  PairAt(1, p, Group(p) + 2)
    <3>1. PICK g \in 0..n : g = Group(p)
      BY GroupIs
    <3>2. /\ g + 2 \in (p + 3)..n /\ (NoDots(p) => NoDots(g + 2))
          /\ At(text, g) = Colon /\ At(text, g + 1) = Colon
      BY <2>2, <3>1, GroupOnward
    <3>3. g + 2 \in 2..n /\ (g + 2) - 1 = g + 1 /\ (g + 2) - 2 = g /\ g + 2 >= p + 1
      BY <3>1, <3>2
    <3> QED BY <3>1, <3>2, <3>3 DEF PairAt
  <2>3. \A j : j \in Pairs(1, p) => PairAt(1, p, j)
    BY <2>2, PairsAre
  <2>4. \A i, j \in Pairs(0, p) : i = j
    BY PairsAre
  <2>5. \A i, j \in Pairs(1, p) : i = j
    BY PairsAre
  <2> QED BY <2>1, <2>3, <2>4, <2>5, Zenon DEF AtMostOne
<1>2. PICK S : S = {k \in Nat : \A p \in 0..n : AtMostOne(k + 1, p)}
  OBVIOUS
<1>3. 0 \in S
  <2>1. 0 + 1 = 1
    OBVIOUS
  <2> QED BY <1>1, <1>2, <2>1
<1>4. ASSUME NEW k \in Nat, k \in S
      PROVE  k + 1 \in S
  <2>1. ASSUME NEW p \in 0..n
        PROVE  AtMostOne((k + 1) + 1, p)
    <3>1. k + 1 \in Nat /\ k + 1 >= 1
      OBVIOUS
    <3>2. CASE ~Parted(p)
      <4>1. Pairs((k + 1) + 1, p) = {}
        BY <3>1, <3>2, PairsAre
      <4> QED BY <4>1 DEF AtMostOne
    <3>3. CASE Parted(p)
      <4>1. PICK q \in 0..n : q = Group(p) + 1 /\ q \in (p + 2)..n /\ (NoDots(p) => NoDots(q))
        BY <3>3, GroupOnward
      <4>2. Pairs((k + 1) + 1, p) = Pairs(k + 1, q)
        BY <3>1, <3>3, <4>1, PairsAre
      <4>3. AtMostOne(k + 1, q)
        BY <1>2, <1>4
      <4>4. \A j : PairAt(k + 1, q, j) => PairAt((k + 1) + 1, p, j)
        BY <4>1 DEF PairAt
      <4> QED BY <4>2, <4>3, <4>4 DEF AtMostOne
    <3> QED BY <3>2, <3>3
  <2> QED BY <1>2, <2>1
<1>5. \A k \in Nat : k \in S
  BY <1>3, <1>4, Upwards
<1>6. ASSUME NEW k \in Nat, NEW p \in 0..n
      PROVE  AtMostOne(k, p)
  <2>1. CASE k = 0
    BY <1>1, <2>1
  <2>2. CASE k # 0
    <3>1. PICK m \in Nat : m = k - 1 /\ m + 1 = k
      BY <2>2
    <3> QED BY <1>2, <1>5, <3>1
  <2> QED BY <2>1, <2>2
<1> QED BY <1>6

(***************************************************************************)
(* No group starts at a colon.                                             *)
(***************************************************************************)
LEMMA ColonStops ==
  ASSUME text \in Seq(Byte), NEW q \in 0..Len(text), q < Len(text), At(text, q) = Colon,
         NEW j \in 0..Len(text), j = Len(text) \/ At(text, j) \notin HexDigit
  PROVE  /\ ~Parted(q) /\ ~DotAhead(q)
         /\ \A m \in Nat : m >= 1 => ~GroupsEnd(m, q, j)
<1> PICK n \in Nat : n = Len(text)
  OBVIOUS
<1>1. Colon \notin HexDigit
  BY DEF Colon, HexDigit, Digit, Zero, Nine
<1>2. PICK g \in q..n : g = Group(q) /\ \A i \in q..(g - 1) : At(text, i) \in HexDigit
  BY GroupIs
<1>3. ~(g > q)
  <2>1. SUFFICES ASSUME g > q PROVE FALSE
    OBVIOUS
  <2>2. q \in q..(g - 1)
    BY <1>2, <2>1
  <2> QED BY <1>1, <1>2, <2>2
<1>4. ~Parted(q)
  BY <1>2, <1>3 DEF Parted
<1>5. ~DotAhead(q)
  <2>1. SUFFICES ASSUME NEW i \in q..(Len(text) - 1), \A k \in q..i : At(text, k) # Colon PROVE FALSE
    BY DEF DotAhead
  <2>2. q \in q..i
    OBVIOUS
  <2> QED BY <2>1, <2>2
<1>6. EndsHere(q, j) /\ EndsNext(q, j)
  BY <1>5, EndsAre
<1>7. ASSUME NEW m \in Nat, m >= 1
      PROVE  ~GroupsEnd(m, q, j)
  <2>1. CASE m = 1
    BY <1>2, <1>3, <1>6, <2>1 DEF EndsHere
  <2>2. CASE m # 1
    <3>1. PICK k \in Nat : k >= 1 /\ m = k + 1
      <4>1. m - 1 \in Nat /\ m - 1 >= 1 /\ m = (m - 1) + 1
        BY <1>7, <2>2
      <4> QED BY <4>1
    <3> QED BY <1>4, <1>6, <3>1 DEF EndsNext
  <2> QED BY <2>1, <2>2
<1> QED BY <1>4, <1>5, <1>7

(***************************************************************************)
(* Where a dot comes first, only a dotted address can lead to the end.     *)
(***************************************************************************)
LEMMA DotEnds ==
  ASSUME text \in Seq(Byte), NEW p \in 0..Len(text), DotAhead(p)
  PROVE  /\ p < Len(text) /\ ~Parted(p)
         /\ ~NoDots(Len(text))
         /\ \A m \in Nat : m >= 1 => (GroupsEnd(m, p, Len(text)) <=> m = 2 /\ parse_ipv4(text, p, Len(text)))
<1> PICK n \in Nat : n = Len(text)
  OBVIOUS
<1>1. Dot \notin HexDigit
  BY DEF Dot, HexDigit, Digit, Zero, Nine
<1>2. PICK i \in p..(n - 1) : At(text, i) = Dot /\ \A j \in p..i : At(text, j) # Colon
  BY DEF DotAhead
<1>3. PICK g \in p..n : g = Group(p) /\ \A k \in p..(g - 1) : At(text, k) \in HexDigit
  BY GroupIs
<1>4. g <= i
  <2>1. SUFFICES ASSUME g > i PROVE FALSE
    BY <1>2, <1>3
  <2>2. i \in p..(g - 1)
    BY <1>2, <1>3, <2>1
  <2> QED BY <1>1, <1>2, <1>3, <2>2
<1>5. ~Parted(p) /\ g # n
  <2>1. g \in p..i /\ g # n
    BY <1>2, <1>3, <1>4
  <2> QED BY <1>2, <1>3, <2>1 DEF Parted
<1>6. p < n /\ ~NoDots(n)
  <2>1. i \in 0..(n - 1)
    BY <1>2
  <2> QED BY <1>2, <2>1 DEF NoDots
<1>7. PICK I, J : I = {p} /\ J = h16colon(I)
  OBVIOUS
<1>8. J = {}
  BY <1>5, <1>7, GroupColonIs
<1>9. ASSUME NEW m \in Nat, m >= 1
      PROVE  GroupsEnd(m, p, n) <=> m = 2 /\ parse_ipv4(text, p, n)
  <2>0. GroupsEnd(m, p, n) <=> n \in Right(m, I)
    BY <1>7 DEF GroupsEnd
  <2>1. CASE m = 1
    <3>1. n \in 0..Len(text)
      OBVIOUS
    <3>2. EndsHere(p, n)
      BY <3>1, EndsAre
    <3> QED BY <1>3, <1>5, <2>1, <3>2 DEF EndsHere
  <2>2. CASE m = 2
    <3>1. Right(2, I) = h16(J) \cup ipv4(I)
      BY <1>7, RightIs, Zenon
    <3>2. h16(J) = {}
      BY <1>8, NothingFrom
    <3>3. parse_ipv4(text, p, Len(text)) <=> Len(text) \in ipv4({p})
      BY Ipv4Is
    <3> QED BY <1>7, <2>0, <2>2, <3>1, <3>2, <3>3
  <2>3. CASE m > 2
    <3>1. PICK k \in Nat : k >= 2 /\ m = k + 1
      <4>1. m - 1 \in Nat /\ m - 1 >= 2 /\ m = (m - 1) + 1
        BY <2>3
      <4> QED BY <4>1
    <3>2. Right(k + 1, I) = Right(k, J)
      BY <1>7, <3>1, RightIs, Zenon
    <3>3. Right(k, J) = {}
      BY <1>8, <3>1, NothingRight
    <3> QED BY <2>0, <2>3, <3>1, <3>2, <3>3
  <2> QED BY <1>9, <2>1, <2>2, <2>3
<1> QED BY <1>5, <1>6, <1>9

(* Groups from p to j, no more than seven with the g before p.             *)
FitsAfter(p, g, j) == \E m \in Nat : m >= 1 /\ GroupsEnd(m, p, j) /\ g + m <= 7
(* Eight of them with the g before p.                                      *)
FitsBefore(p, g, j) == \E m \in Nat : m >= 1 /\ GroupsEnd(m, p, j) /\ g + m = 8

(* The text is one with a colon too many.                                  *)
Lone ==
  /\ Len(text) > 1 /\ At(text, Len(text) - 1) = Colon /\ At(text, Len(text) - 2) \in HexDigit
  /\ NoDots(Len(text))

(***************************************************************************)
(* One round of the loop is one group of the grammar.                      *)
(***************************************************************************)
LEMMA FitsNext ==
  ASSUME text \in Seq(Byte), NEW p \in 0..Len(text), NEW g \in Nat, ~DotAhead(p),
         NEW j \in 0..Len(text), j = Len(text) \/ At(text, j) \notin HexDigit
  PROVE  /\ FitsAfter(p, g, j) <=>
              \/ Group(p) = j /\ j > p /\ g + 1 <= 7
              \/ Parted(p) /\ ~Doubled(p) /\ FitsAfter(Group(p) + 1, g + 1, j)
         /\ FitsBefore(p, g, j) <=>
              \/ Group(p) = j /\ j > p /\ g + 1 = 8
              \/ Parted(p) /\ ~Doubled(p) /\ FitsBefore(Group(p) + 1, g + 1, j)
<1> PICK n \in Nat : n = Len(text)
  OBVIOUS
<1>1. PICK q : q = Group(p) + 1
  OBVIOUS
<1>2. GroupsEnd(1, p, j) <=> Group(p) = j /\ j > p
  BY EndsAre DEF EndsHere
<1>3. \A m \in Nat : m >= 1 => (GroupsEnd(m + 1, p, j) <=> Parted(p) /\ ~Doubled(p) /\ GroupsEnd(m, q, j))
  <2>1. \A m \in Nat : m >= 1 => (GroupsEnd(m + 1, p, j) <=> Parted(p) /\ GroupsEnd(m, q, j))
    BY <1>1, EndsAre DEF EndsNext
  <2>2. ASSUME Parted(p), Doubled(p)
        PROVE  \A m \in Nat : m >= 1 => ~GroupsEnd(m, q, j)
    <3>1. q \in 0..Len(text) /\ q < Len(text) /\ At(text, q) = Colon
      BY <1>1, <2>2, GroupOnward
    <3> QED BY <3>1, ColonStops
  <2> QED BY <2>1, <2>2
<1>4. \A m \in Nat : m >= 1 => m = 1 \/ \E k \in Nat : k >= 1 /\ m = k + 1
  <2> TAKE m \in Nat
  <2>1. m > 1 => m - 1 \in Nat /\ m - 1 >= 1 /\ m = (m - 1) + 1
    OBVIOUS
  <2> QED BY <2>1
<1>5. \A k \in Nat : k + 1 \in Nat /\ (k >= 1 => k + 1 >= 1) /\ g + (k + 1) = (g + 1) + k
  OBVIOUS
<1>6. FitsAfter(p, g, j) <=>
        \/ Group(p) = j /\ j > p /\ g + 1 <= 7
        \/ Parted(p) /\ ~Doubled(p) /\ FitsAfter(q, g + 1, j)
  <2>1. ASSUME NEW m \in Nat, m >= 1, GroupsEnd(m, p, j), g + m <= 7
        PROVE  \/ Group(p) = j /\ j > p /\ g + 1 <= 7
               \/ Parted(p) /\ ~Doubled(p) /\ FitsAfter(q, g + 1, j)
    <3>1. CASE m = 1
      BY <1>2, <2>1, <3>1
    <3>2. ASSUME NEW k \in Nat, k >= 1, m = k + 1
          PROVE  Parted(p) /\ ~Doubled(p) /\ FitsAfter(q, g + 1, j)
      <4>1. Parted(p) /\ ~Doubled(p) /\ GroupsEnd(k, q, j)
        BY <1>3, <2>1, <3>2
      <4>2. (g + 1) + k <= 7
        BY <1>5, <2>1, <3>2
      <4> QED BY <3>2, <4>1, <4>2 DEF FitsAfter
    <3> QED BY <1>4, <2>1, <3>1, <3>2
  <2>2. ASSUME Group(p) = j, j > p, g + 1 <= 7
        PROVE  FitsAfter(p, g, j)
    <3>1. GroupsEnd(1, p, j) /\ 1 \in Nat /\ 1 >= 1
      BY <1>2, <2>2
    <3> QED BY <2>2, <3>1 DEF FitsAfter
  <2>3. ASSUME Parted(p), ~Doubled(p), FitsAfter(q, g + 1, j)
        PROVE  FitsAfter(p, g, j)
    <3>1. PICK k \in Nat : k >= 1 /\ GroupsEnd(k, q, j) /\ (g + 1) + k <= 7
      BY <2>3 DEF FitsAfter
    <3>2. GroupsEnd(k + 1, p, j)
      BY <1>3, <2>3, <3>1
    <3>3. k + 1 \in Nat /\ k + 1 >= 1 /\ g + (k + 1) <= 7
      BY <1>5, <3>1
    <3> QED BY <3>2, <3>3 DEF FitsAfter
  <2> QED BY <2>1, <2>2, <2>3 DEF FitsAfter
<1>7. FitsBefore(p, g, j) <=>
        \/ Group(p) = j /\ j > p /\ g + 1 = 8
        \/ Parted(p) /\ ~Doubled(p) /\ FitsBefore(q, g + 1, j)
  <2>1. ASSUME NEW m \in Nat, m >= 1, GroupsEnd(m, p, j), g + m = 8
        PROVE  \/ Group(p) = j /\ j > p /\ g + 1 = 8
               \/ Parted(p) /\ ~Doubled(p) /\ FitsBefore(q, g + 1, j)
    <3>1. CASE m = 1
      BY <1>2, <2>1, <3>1
    <3>2. ASSUME NEW k \in Nat, k >= 1, m = k + 1
          PROVE  Parted(p) /\ ~Doubled(p) /\ FitsBefore(q, g + 1, j)
      <4>1. Parted(p) /\ ~Doubled(p) /\ GroupsEnd(k, q, j)
        BY <1>3, <2>1, <3>2
      <4>2. (g + 1) + k = 8
        BY <1>5, <2>1, <3>2
      <4> QED BY <3>2, <4>1, <4>2 DEF FitsBefore
    <3> QED BY <1>4, <2>1, <3>1, <3>2
  <2>2. ASSUME Group(p) = j, j > p, g + 1 = 8
        PROVE  FitsBefore(p, g, j)
    <3>1. GroupsEnd(1, p, j) /\ 1 \in Nat /\ 1 >= 1
      BY <1>2, <2>2
    <3> QED BY <2>2, <3>1 DEF FitsBefore
  <2>3. ASSUME Parted(p), ~Doubled(p), FitsBefore(q, g + 1, j)
        PROVE  FitsBefore(p, g, j)
    <3>1. PICK k \in Nat : k >= 1 /\ GroupsEnd(k, q, j) /\ (g + 1) + k = 8
      BY <2>3 DEF FitsBefore
    <3>2. GroupsEnd(k + 1, p, j)
      BY <1>3, <2>3, <3>1
    <3>3. k + 1 \in Nat /\ k + 1 >= 1 /\ g + (k + 1) = 8
      BY <1>5, <3>1
    <3> QED BY <3>2, <3>3 DEF FitsBefore
  <2> QED BY <2>1, <2>2, <2>3 DEF FitsBefore
<1> QED BY <1>1, <1>6, <1>7

(* What the loop accepts, in the words of the grammar.                     *)
AfterFits(A, p, g) ==
  g \in A[p] <=> \/ p = Len(text) /\ g <= 7
                 \/ FitsAfter(p, g, Len(text))
                 \/ Lone /\ FitsAfter(p, g, Len(text) - 1)
(* A has the counts of the loop after "::".                                *)
AllAfter(A) == \A p \in 0..Len(text) : \A g \in 0..p : CountAfter(A, p, g)

(***************************************************************************)
(* After "::" the loop succeeds from p with g groups before it exactly     *)
(* when the grammar reaches the end with seven groups at most, the lone    *)
(* colon aside: from the last position down, a round and a group at a      *)
(* time. A colon that ends the text is the one case in which the loop goes *)
(* on and the grammar does not.                                            *)
(***************************************************************************)
LEMMA AfterIs ==
  ASSUME text \in Seq(Byte), NEW A, AllAfter(A)
  PROVE  \A p \in 0..Len(text) : NoDots(p) => \A g \in 0..p : AfterFits(A, p, g)
<1> PICK n \in Nat : n = Len(text)
  OBVIOUS
<1>0. Colon \notin HexDigit
  BY DEF Colon, HexDigit, Digit, Zero, Nine
<1>1. PICK S : S = {p \in 0..n : NoDots(p) => \A g \in 0..p : AfterFits(A, p, g)}
  OBVIOUS
<1>2. ASSUME NEW p \in 0..n, \A q \in (p + 1)..n : q \in S
      PROVE  p \in S
  <2> SUFFICES ASSUME NoDots(p), NEW g \in 0..p
               PROVE  AfterFits(A, p, g)
    BY <1>1
  <2>1. CountAfter(A, p, g)
    BY DEF AllAfter
  <2>2. CASE p = n
    <3>1. g \in A[p] <=> g <= 7
      BY <2>1, <2>2 DEF CountAfter
    <3>2. \A j : FitsAfter(p, g, j) => g <= 7
      BY DEF FitsAfter
    <3> QED BY <2>2, <3>1, <3>2 DEF AfterFits
  <2>3. CASE p # n /\ DotAhead(p)
    <3>1. g \in A[p] <=> parse_ipv4(text, p, n) /\ g + 2 <= 7
      BY <2>1, <2>3 DEF CountAfter
    <3>2. ~Lone
      BY <2>3, DotEnds DEF Lone
    <3>3. \A m \in Nat : m >= 1 => (GroupsEnd(m, p, n) <=> m = 2 /\ parse_ipv4(text, p, n))
      BY <2>3, DotEnds
    <3>4. FitsAfter(p, g, n) <=> parse_ipv4(text, p, n) /\ g + 2 <= 7
      <4>1. 2 \in Nat /\ 2 >= 1
        OBVIOUS
      <4> QED BY <3>3, <4>1 DEF FitsAfter
    <3> QED BY <2>3, <3>1, <3>2, <3>4 DEF AfterFits
  <2>4. CASE p # n /\ ~DotAhead(p)
    <3>1. PICK i \in p..n : i = Group(p) /\ \A k \in p..(i - 1) : At(text, k) \in HexDigit
      BY GroupIs
    <3>2. g \in A[p] <=> \/ i > p /\ i = n /\ g + 1 <= 7
                         \/ Parted(p) /\ ~Doubled(p) /\ g + 1 \in A[i + 1]
      BY <2>1, <2>4, <3>1 DEF CountAfter
    <3>3. g \in Nat /\ n \in 0..Len(text)
      OBVIOUS
    <3>4. FitsAfter(p, g, n) <=> \/ i = n /\ n > p /\ g + 1 <= 7
                                 \/ Parted(p) /\ ~Doubled(p) /\ FitsAfter(i + 1, g + 1, n)
      BY <2>4, <3>1, <3>3, FitsNext
    <3>5. ASSUME Lone
          PROVE  FitsAfter(p, g, n - 1) <=> \/ i = n - 1 /\ n - 1 > p /\ g + 1 <= 7
                                            \/ Parted(p) /\ ~Doubled(p) /\ FitsAfter(i + 1, g + 1, n - 1)
      <4>1. n - 1 \in 0..Len(text) /\ At(text, n - 1) \notin HexDigit
        BY <1>0, <3>5 DEF Lone
      <4> QED BY <2>4, <3>1, <3>3, <4>1, FitsNext
    <3>6. CASE Parted(p) /\ ~Doubled(p)
      <4>1. i < n /\ i > p /\ At(text, i) = Colon
        BY <3>1, <3>6 DEF Parted
      <4>2. i + 1 \in (p + 1)..n /\ NoDots(i + 1) /\ g + 1 \in 0..(i + 1)
        BY <3>1, <3>6, GroupOnward
      <4>3. AfterFits(A, i + 1, g + 1)
        BY <1>1, <1>2, <4>2
      <4>4. i + 1 = n => Lone
        <5>1. SUFFICES ASSUME i + 1 = n PROVE Lone
          OBVIOUS
        <5>2. n - 1 = i /\ n - 2 = i - 1 /\ n > 1 /\ i - 1 \in p..(i - 1)
          BY <4>1, <5>1
        <5> QED BY <3>1, <4>1, <4>2, <5>1, <5>2 DEF Lone
      <4>5. i # n /\ (i = n - 1 <=> i + 1 = n) /\ (i = n - 1 => n - 1 > p)
        BY <4>1
      <4>6. g + 1 \in A[i + 1] <=> \/ i + 1 = n /\ g + 1 <= 7
                                   \/ FitsAfter(i + 1, g + 1, n)
                                   \/ Lone /\ FitsAfter(i + 1, g + 1, n - 1)
        BY <4>3 DEF AfterFits
      <4> QED BY <2>4, <3>2, <3>4, <3>5, <3>6, <4>4, <4>5, <4>6 DEF AfterFits
    <3>7. CASE ~(Parted(p) /\ ~Doubled(p))
      <4>1. ASSUME Lone, i = n - 1, n - 1 > p
            PROVE  FALSE
        <5>1. i > p /\ i < n /\ At(text, i) = Colon
          BY <4>1 DEF Lone
        <5>2. ~(i + 1 < n)
          BY <4>1
        <5> QED BY <3>1, <3>7, <5>1, <5>2 DEF Parted, Doubled
      <4> QED BY <2>4, <3>2, <3>4, <3>5, <3>7, <4>1 DEF AfterFits
    <3> QED BY <3>6, <3>7
  <2> QED BY <2>2, <2>3, <2>4
<1>3. \A p \in 0..n : p \in S
  BY <1>2, Downwards, Zenon
<1> QED BY <1>1, <1>3

(* Groups and "::" from p, and something the loop accepts after them.      *)
PairsFit(A, p, g) == \E k \in Nat : k >= 1 /\ \E j \in Pairs(k, p) : g + k \in A[j]
(* The loop before "::", in the same words.                                *)
BeforeFits(A, Z, p, g) ==
  g \in Z[p] <=> FitsBefore(p, g, Len(text)) \/ PairsFit(A, p, g)
(* Z has the counts of the loop before "::".                               *)
AllBefore(A, Z) == \A p \in 0..Len(text) : \A g \in 0..p : CountBefore(A, Z, p, g)

(***************************************************************************)
(* One round of the loop before "::" is one group of the grammar.          *)
(***************************************************************************)
LEMMA PairsNext ==
  ASSUME text \in Seq(Byte), NEW p \in 0..Len(text), NEW g \in Nat, NEW A
  PROVE  /\ PairsFit(A, p, g) => Parted(p)
         /\ Parted(p) /\ Doubled(p) => (PairsFit(A, p, g) <=> g + 1 \in A[Group(p) + 2])
         /\ Parted(p) /\ ~Doubled(p) => (PairsFit(A, p, g) <=> PairsFit(A, Group(p) + 1, g + 1))
<1>1. \A m \in Nat : m >= 1 => m = 1 \/ \E k \in Nat : k >= 1 /\ m = k + 1
  <2> TAKE m \in Nat
  <2>1. m > 1 => m - 1 \in Nat /\ m - 1 >= 1 /\ m = (m - 1) + 1
    OBVIOUS
  <2> QED BY <2>1
<1>2. \A k \in Nat : k + 1 \in Nat /\ (k >= 1 => k + 1 >= 1) /\ g + (k + 1) = (g + 1) + k
  OBVIOUS
<1>3. ASSUME PairsFit(A, p, g)
      PROVE  Parted(p)
  <2>1. PICK k \in Nat : k >= 1 /\ \E j \in Pairs(k, p) : g + k \in A[j]
    BY <1>3 DEF PairsFit
  <2>2. PICK m \in Nat : k = m + 1
    <3>1. k - 1 \in Nat /\ k = (k - 1) + 1
      BY <2>1
    <3> QED BY <3>1
  <2> QED BY <2>1, <2>2, PairsAre
<1>4. \A j : j \in Pairs(1, p) <=> Parted(p) /\ Doubled(p) /\ j = Group(p) + 2
  BY PairsAre
<1>5. ASSUME Parted(p)
      PROVE  \A k \in Nat : k >= 1 => Pairs(k + 1, p) = Pairs(k, Group(p) + 1)
  BY <1>5, PairsAre
<1>6. ASSUME Parted(p), Doubled(p)
      PROVE  PairsFit(A, p, g) <=> g + 1 \in A[Group(p) + 2]
  <2>1. PICK q \in 0..Len(text) : q = Group(p) + 1 /\ q < Len(text) /\ At(text, q) = Colon
    BY <1>6, GroupOnward
  <2>2. ~Parted(q)
    <3>1. Len(text) \in 0..Len(text)
      OBVIOUS
    <3> QED BY <2>1, <3>1, ColonStops
  <2>3. \A k \in Nat : k >= 1 => Pairs(k + 1, p) = {}
    <3> TAKE k \in Nat
    <3> HAVE k >= 1
    <3>1. PICK m \in Nat : k = m + 1
      <4>1. k - 1 \in Nat /\ k = (k - 1) + 1
        OBVIOUS
      <4> QED BY <4>1
    <3>2. Pairs(m + 1, q) = {}
      BY <2>2, PairsAre
    <3> QED BY <1>5, <1>6, <2>1, <3>1, <3>2
  <2>4. ASSUME PairsFit(A, p, g)
        PROVE  g + 1 \in A[Group(p) + 2]
    <3>1. PICK k \in Nat : k >= 1 /\ \E j \in Pairs(k, p) : g + k \in A[j]
      BY <2>4 DEF PairsFit
    <3>2. k = 1
      BY <1>1, <2>3, <3>1
    <3> QED BY <1>4, <3>1, <3>2
  <2>5. ASSUME g + 1 \in A[Group(p) + 2]
        PROVE  PairsFit(A, p, g)
    <3>1. 1 \in Nat /\ 1 >= 1 /\ Group(p) + 2 \in Pairs(1, p)
      BY <1>4, <1>6
    <3> QED BY <2>5, <3>1 DEF PairsFit
  <2> QED BY <2>4, <2>5
<1>7. ASSUME Parted(p), ~Doubled(p)
      PROVE  PairsFit(A, p, g) <=> PairsFit(A, Group(p) + 1, g + 1)
  <2>1. PICK q : q = Group(p) + 1
    OBVIOUS
  <2>2. \A k \in Nat : k >= 1 => Pairs(k + 1, p) = Pairs(k, q)
    BY <1>5, <1>7, <2>1
  <2>3. ASSUME PairsFit(A, p, g)
        PROVE  PairsFit(A, q, g + 1)
    <3>1. PICK m \in Nat : m >= 1 /\ \E j \in Pairs(m, p) : g + m \in A[j]
      BY <2>3 DEF PairsFit
    <3>2. m # 1
      BY <1>4, <1>7, <3>1
    <3>3. PICK k \in Nat : k >= 1 /\ m = k + 1
      BY <1>1, <3>1, <3>2
    <3>4. \E j \in Pairs(k, q) : (g + 1) + k \in A[j]
      BY <1>2, <2>2, <3>1, <3>3
    <3> QED BY <3>3, <3>4 DEF PairsFit
  <2>4. ASSUME PairsFit(A, q, g + 1)
        PROVE  PairsFit(A, p, g)
    <3>1. PICK k \in Nat : k >= 1 /\ \E j \in Pairs(k, q) : (g + 1) + k \in A[j]
      BY <2>4 DEF PairsFit
    <3>2. PICK m \in Nat : m = k + 1 /\ m >= 1 /\ g + m = (g + 1) + k
      BY <1>2, <3>1
    <3>3. \E j \in Pairs(m, p) : g + m \in A[j]
      BY <2>2, <3>1, <3>2
    <3> QED BY <3>2, <3>3 DEF PairsFit
  <2> QED BY <2>1, <2>3, <2>4
<1> QED BY <1>3, <1>6, <1>7

(***************************************************************************)
(* Before "::" the loop succeeds with eight groups and none after, or with *)
(* groups, "::" and what succeeds after it.                                *)
(***************************************************************************)
LEMMA BeforeIs ==
  ASSUME text \in Seq(Byte), NEW A, NEW Z, AllBefore(A, Z)
  PROVE  \A p \in 0..Len(text) : \A g \in 0..p : BeforeFits(A, Z, p, g)
<1> PICK n \in Nat : n = Len(text)
  OBVIOUS
<1>1. PICK S : S = {p \in 0..n : \A g \in 0..p : BeforeFits(A, Z, p, g)}
  OBVIOUS
<1>2. ASSUME NEW p \in 0..n, \A q \in (p + 1)..n : q \in S
      PROVE  p \in S
  <2> SUFFICES ASSUME NEW g \in 0..p
               PROVE  BeforeFits(A, Z, p, g)
    BY <1>1
  <2>1. CountBefore(A, Z, p, g)
    BY DEF AllBefore
  <2>2. g \in Nat /\ n \in 0..Len(text)
    OBVIOUS
  <2>3. CASE p # n /\ DotAhead(p)
    <3>1. g \in Z[p] <=> parse_ipv4(text, p, n) /\ g + 2 = 8
      BY <2>1, <2>3 DEF CountBefore
    <3>2. ~PairsFit(A, p, g)
      BY <2>2, <2>3, DotEnds, PairsNext
    <3>3. \A m \in Nat : m >= 1 => (GroupsEnd(m, p, n) <=> m = 2 /\ parse_ipv4(text, p, n))
      BY <2>3, DotEnds
    <3>4. FitsBefore(p, g, n) <=> parse_ipv4(text, p, n) /\ g + 2 = 8
      <4>1. 2 \in Nat /\ 2 >= 1
        OBVIOUS
      <4> QED BY <3>3, <4>1 DEF FitsBefore
    <3> QED BY <3>1, <3>2, <3>4 DEF BeforeFits
  <2>4. CASE ~DotAhead(p)
    <3>1. PICK i \in p..n : i = Group(p)
      BY GroupIs
    <3>2. g \in Z[p] <=> \/ p # n /\ i > p /\ i = n /\ g + 1 = 8
                         \/ p # n /\ Parted(p) /\ Doubled(p) /\ g + 1 \in A[i + 2]
                         \/ p # n /\ Parted(p) /\ ~Doubled(p) /\ g + 1 \in Z[i + 1]
      BY <2>1, <2>4, <3>1 DEF CountBefore
    <3>3. FitsBefore(p, g, n) <=> \/ i = n /\ n > p /\ g + 1 = 8
                                  \/ Parted(p) /\ ~Doubled(p) /\ FitsBefore(i + 1, g + 1, n)
      BY <2>2, <2>4, <3>1, FitsNext
    <3>4. /\ PairsFit(A, p, g) => Parted(p)
          /\ Parted(p) /\ Doubled(p) => (PairsFit(A, p, g) <=> g + 1 \in A[i + 2])
          /\ Parted(p) /\ ~Doubled(p) => (PairsFit(A, p, g) <=> PairsFit(A, i + 1, g + 1))
      BY <2>2, <3>1, PairsNext
    <3>5. Parted(p) => p # n
      BY <3>1 DEF Parted
    <3>6. i = n /\ n > p <=> p # n /\ i > p /\ i = n
      BY <3>1
    <3>7. CASE Parted(p) /\ ~Doubled(p)
      <4>1. i + 1 \in (p + 1)..n /\ g + 1 \in 0..(i + 1)
        BY <3>1, <3>7, GroupOnward
      <4>2. BeforeFits(A, Z, i + 1, g + 1)
        BY <1>1, <1>2, <4>1
      <4>3. g + 1 \in Z[i + 1] <=> FitsBefore(i + 1, g + 1, n) \/ PairsFit(A, i + 1, g + 1)
        BY <4>2 DEF BeforeFits
      <4>4. i # n
        BY <3>1, <3>7 DEF Parted
      <4> QED BY <3>2, <3>3, <3>4, <3>5, <3>7, <4>3, <4>4 DEF BeforeFits
    <3>8. CASE ~(Parted(p) /\ ~Doubled(p))
      BY <3>2, <3>3, <3>4, <3>5, <3>6, <3>8 DEF BeforeFits
    <3> QED BY <3>7, <3>8
  <2>5. DotAhead(p) => p # n
    BY DotEnds
  <2> QED BY <2>3, <2>4, <2>5
<1>3. \A p \in 0..n : p \in S
  BY <1>2, Downwards, Zenon
<1> QED BY <1>1, <1>3

(* "::" stands nowhere from p on.                                          *)
NoPairs(p) == \A i \in p..(Len(text) - 2) : ~(At(text, i) = Colon /\ At(text, i + 1) = Colon)

(***************************************************************************)
(* Groups that lead to the lone colon have no "::" among them.             *)
(***************************************************************************)
LEMMA NoPairsWithin ==
  ASSUME text \in Seq(Byte), Lone
  PROVE  \A m \in Nat : \A p \in 0..Len(text) : GroupsEnd(m + 1, p, Len(text) - 1) => NoPairs(p)
<1> PICK n \in Nat : n = Len(text)
  OBVIOUS
<1>1. Colon \notin HexDigit
  BY DEF Colon, HexDigit, Digit, Zero, Nine
<1>2. PICK j \in 0..Len(text) : j = n - 1 /\ At(text, j) = Colon /\ At(text, j) \notin HexDigit
  BY <1>1 DEF Lone
<1>3. ASSUME NEW p \in 0..n
      PROVE  EndsHere(p, j) /\ EndsNext(p, j)
  <2>1. ~DotAhead(p)
    BY DotEnds DEF Lone
  <2> QED BY <1>2, <2>1, EndsAre
<1>4. PICK S : S = {m \in Nat : \A p \in 0..n : GroupsEnd(m + 1, p, j) => NoPairs(p)}
  OBVIOUS
<1>5. 0 \in S
  <2>1. ASSUME NEW p \in 0..n, GroupsEnd(1, p, j)
        PROVE  NoPairs(p)
    <3>1. Group(p) = j
      BY <1>3, <2>1 DEF EndsHere
    <3>2. \A i \in p..(j - 1) : At(text, i) \in HexDigit
      BY <3>1, GroupIs
    <3>3. \A i \in p..(Len(text) - 2) : i \in p..(j - 1)
      BY <1>2
    <3> QED BY <1>1, <3>2, <3>3 DEF NoPairs
  <2>2. 0 + 1 = 1
    OBVIOUS
  <2> QED BY <1>4, <2>1, <2>2
<1>6. ASSUME NEW m \in Nat, m \in S
      PROVE  m + 1 \in S
  <2>1. ASSUME NEW p \in 0..n, GroupsEnd((m + 1) + 1, p, j)
        PROVE  NoPairs(p)
    <3>1. m + 1 \in Nat /\ m + 1 >= 1
      OBVIOUS
    <3>2. Parted(p) /\ GroupsEnd(m + 1, Group(p) + 1, j)
      BY <1>3, <2>1, <3>1 DEF EndsNext
    <3>3. PICK g \in p..n : g = Group(p)
      BY GroupIs
    <3>4. g + 1 \in 0..n
      BY <3>2, <3>3, GroupOnward
    <3>5. NoPairs(g + 1)
      BY <1>4, <1>6, <3>2, <3>3, <3>4
    <3>6. \A i \in p..(g - 1) : At(text, i) # Colon
      BY <3>2, <3>3, GroupOnward
    <3>7. ~(g <= n - 2 /\ At(text, g + 1) = Colon)
      <4>1. SUFFICES ASSUME g <= n - 2, At(text, g + 1) = Colon PROVE FALSE
        OBVIOUS
      <4>2. g + 1 < Len(text)
        BY <3>3, <4>1
      <4>3. ~GroupsEnd(m + 1, g + 1, j)
        BY <1>2, <3>1, <3>4, <4>1, <4>2, ColonStops
      <4> QED BY <3>2, <3>3, <4>3
    <3>8. \A i \in p..(Len(text) - 2) : i \in p..(g - 1) \/ i = g \/ i \in (g + 1)..(Len(text) - 2)
      BY <3>3
    <3> QED BY <3>3, <3>5, <3>6, <3>7, <3>8 DEF NoPairs
  <2> QED BY <1>4, <2>1
<1>7. \A m \in Nat : m \in S
  BY <1>5, <1>6, Upwards
<1> QED BY <1>2, <1>4, <1>7

(* The compressed form ends at j: k groups, "::" and m groups.             *)
Compressed(j) ==
  \E k \in 0..7 : \E i \in Pairs(k, 0) : \E m \in 0..(7 - k) : GroupsEnd(m, i, j)

(***************************************************************************)
(* An address of the grammar is eight groups, or compressed: cutting off   *)
(* what precedes "::" first loses no end.                                  *)
(***************************************************************************)
LEMMA Ipv6Ends ==
  ASSUME text \in Seq(Byte), NEW j
  PROVE  j \in ipv6({0}) <=> GroupsEnd(8, 0, j) \/ Compressed(j)
<1>1. PICK I : I = {0}
  OBVIOUS
<1> DEFINE J(k) == colon(colon(Left(k, I)))
           Part(k) == UNION {Right(m, J(k)) : m \in IF J(k) = {} THEN {} ELSE 0..(7 - k)}
<1>2. ipv6(I) = ls32(GroupsAfter(6, I)) \cup UNION {Part(k) : k \in IF I = {} THEN {} ELSE 0..7}
  BY Zenon DEF ipv6, GroupsAfter
<1>3. \A k : J(k) = Pairs(k, 0)
  BY <1>1, Zenon DEF Pairs
<1>4. ls32(GroupsAfter(6, I)) = Right(8, I)
  BY DEF Right, GroupsAfter
<1>5. ASSUME NEW k \in 0..7
      PROVE  j \in Part(k) <=> \E i \in Pairs(k, 0) : \E m \in 0..(7 - k) : GroupsEnd(m, i, j)
  <2>1. AtMostOne(k, 0)
    <3>1. k \in Nat /\ 0 \in 0..Len(text)
      OBVIOUS
    <3> QED BY <3>1, PairsOne
  <2>2. CASE Pairs(k, 0) = {}
    <3>1. J(k) = {}
      BY <1>3, <2>2
    <3> HIDE DEF J
    <3> QED BY <2>2, <3>1
  <2>3. ASSUME NEW i \in Pairs(k, 0)
        PROVE  j \in Part(k) <=> \E h \in Pairs(k, 0) : \E m \in 0..(7 - k) : GroupsEnd(m, h, j)
    <3>1. Pairs(k, 0) = {i}
      BY <2>1 DEF AtMostOne
    <3>2. J(k) = {i} /\ J(k) # {}
      <4>1. J(k) = {i}
        BY <1>3, <3>1, Zenon
      <4> QED BY <4>1
    <3> HIDE DEF J
    <3>3. j \in Part(k) <=> \E m \in 0..(7 - k) : j \in Right(m, J(k))
      BY <3>2
    <3>4. \A m : j \in Right(m, J(k)) <=> GroupsEnd(m, i, j)
      BY <3>2, Zenon DEF GroupsEnd
    <3> QED BY <3>1, <3>3, <3>4
  <2> QED BY <2>2, <2>3
<1> HIDE DEF Part
<1>6. j \in ipv6(I) <=> j \in Right(8, I) \/ \E k \in 0..7 : j \in Part(k)
  <2>1. I # {}
    BY <1>1
  <2> QED BY <1>2, <1>4, <2>1
<1>7. j \in Right(8, I) <=> GroupsEnd(8, 0, j)
  BY <1>1, Zenon DEF GroupsEnd
<1> QED BY <1>1, <1>5, <1>6, <1>7 DEF Compressed

(***************************************************************************)
(* LoneColon in the words of the lemmas.                                   *)
(***************************************************************************)
LEMMA LoneColonIs ==
  ASSUME text \in Seq(Byte)
  PROVE  LoneColon <=> Lone /\ ~NoPairs(0)
<1> PICK n \in Nat : n = Len(text)
  OBVIOUS
<1>1. NoDots(n) <=> \A i \in 0..(n - 1) : At(text, i) # Dot
  BY DEF NoDots
<1>2. ~NoPairs(0) <=> \E i \in 0..(n - 2) : At(text, i) = Colon /\ At(text, i + 1) = Colon
  BY DEF NoPairs
<1>3. Lone <=> /\ n > 1 /\ At(text, n - 1) = Colon /\ At(text, n - 2) \in HexDigit
               /\ \A i \in 0..(n - 1) : At(text, i) # Dot
  BY <1>1 DEF Lone
<1>4. LoneColon <=> /\ n > 1 /\ At(text, n - 1) = Colon /\ At(text, n - 2) \in HexDigit
                    /\ \E i \in 0..(n - 2) : At(text, i) = Colon /\ At(text, i + 1) = Colon
                    /\ \A i \in 0..(n - 1) : At(text, i) # Dot
  BY DEF LoneColon
<1> QED BY <1>2, <1>3, <1>4

(* The loop accepts what follows k groups and "::".                        *)
Loop(A) == \E k \in Nat : \E i \in Pairs(k, 0) : k \in A[i]

(***************************************************************************)
(* The loop with "::" takes the compressed addresses, and the ones with a  *)
(* lone colon after them.                                                  *)
(***************************************************************************)
LEMMA LoopIs ==
  ASSUME text \in Seq(Byte), NEW A, AllAfter(A)
  PROVE  Loop(A) <=> Compressed(Len(text)) \/ (LoneColon /\ Compressed(Len(text) - 1))
<1> PICK n \in Nat : n = Len(text)
  OBVIOUS
<1>0. Colon \notin HexDigit /\ n \in 0..Len(text) /\ 0 \in 0..Len(text)
  BY DEF Colon, HexDigit, Digit, Zero, Nine
<1>1. ASSUME NEW k \in Nat, NEW i \in Pairs(k, 0)
      PROVE  /\ i \in 2..n /\ k \in 0..i
             /\ At(text, i - 1) = Colon /\ At(text, i - 2) = Colon
             /\ AfterFits(A, i, k)
  <2>1. PairAt(k, 0, i)
    BY <1>0, PairsOne DEF AtMostOne
  <2>2. i \in 2..n /\ k \in 0..i /\ i \in 0..Len(text)
    BY <2>1 DEF PairAt
  <2>3. NoDots(0)
    BY DEF NoDots
  <2>4. NoDots(i) /\ At(text, i - 1) = Colon /\ At(text, i - 2) = Colon
    BY <2>1, <2>3 DEF PairAt
  <2> QED BY <2>2, <2>4, AfterIs
<1>2. ASSUME NEW k \in Nat, NEW i \in Pairs(k, 0)
      PROVE  (i = n /\ k <= 7) \/ FitsAfter(i, k, n) <=> k \in 0..7 /\ \E m \in 0..(7 - k) : GroupsEnd(m, i, n)
  <2>1. i \in 0..Len(text)
    BY <1>1
  <2>2. GroupsEnd(0, i, n) <=> n = i
    BY <1>0, <2>1, EndsAre DEF EndsHere
  <2>3. ASSUME i = n, k <= 7
        PROVE  k \in 0..7 /\ \E m \in 0..(7 - k) : GroupsEnd(m, i, n)
    <3>1. 0 \in 0..(7 - k)
      BY <2>3
    <3> QED BY <2>2, <2>3, <3>1
  <2>4. ASSUME NEW m \in Nat, m >= 1, GroupsEnd(m, i, n), k + m <= 7
        PROVE  k \in 0..7 /\ m \in 0..(7 - k)
    BY <2>4
  <2>5. ASSUME k \in 0..7, NEW m \in 0..(7 - k), GroupsEnd(m, i, n)
        PROVE  (i = n /\ k <= 7) \/ FitsAfter(i, k, n)
    <3>1. m \in Nat /\ k + m <= 7
      BY <2>5
    <3>2. m = 0 \/ m >= 1
      BY <3>1
    <3> QED BY <2>2, <2>5, <3>1, <3>2 DEF FitsAfter
  <2> QED BY <2>3, <2>4, <2>5 DEF FitsAfter
<1>3. ASSUME Lone, NEW k \in Nat, NEW i \in Pairs(k, 0)
      PROVE  /\ LoneColon
             /\ FitsAfter(i, k, n - 1) <=> k \in 0..7 /\ \E m \in 0..(7 - k) : GroupsEnd(m, i, n - 1)
  <2>1. i \in 2..n /\ At(text, i - 1) = Colon /\ At(text, i - 2) = Colon
    BY <1>1
  <2>2. LoneColon
    <3>1. i - 2 \in 0..(n - 2) /\ (i - 2) + 1 = i - 1
      BY <2>1
    <3>2. ~NoPairs(0)
      BY <2>1, <3>1 DEF NoPairs
    <3> QED BY <1>3, <3>2, LoneColonIs
  <2>3. PICK j \in 0..Len(text) : j = n - 1 /\ At(text, j) \notin HexDigit
    BY <1>0, <1>3 DEF Lone
  <2>4. ~GroupsEnd(0, i, j)
    <3>1. GroupsEnd(0, i, j) <=> j = i
      BY <2>1, <2>3, EndsAre DEF EndsHere
    <3>2. j # i
      <4>1. SUFFICES ASSUME j = i PROVE FALSE
        OBVIOUS
      <4>2. i - 1 = n - 2
        BY <2>1, <2>3, <4>1
      <4> QED BY <1>0, <1>3, <2>1, <4>2 DEF Lone
    <3> QED BY <3>1, <3>2
  <2>5. ASSUME NEW m \in Nat, m >= 1, GroupsEnd(m, i, j), k + m <= 7
        PROVE  k \in 0..7 /\ m \in 0..(7 - k)
    BY <2>5
  <2>6. ASSUME k \in 0..7, NEW m \in 0..(7 - k), GroupsEnd(m, i, j)
        PROVE  FitsAfter(i, k, j)
    <3>1. m \in Nat /\ k + m <= 7
      BY <2>6
    <3>2. m # 0
      BY <2>4, <2>6
    <3>3. m >= 1
      BY <3>1, <3>2
    <3> QED BY <2>6, <3>1, <3>3 DEF FitsAfter
  <2>7. FitsAfter(i, k, j) <=> k \in 0..7 /\ \E m \in 0..(7 - k) : GroupsEnd(m, i, j)
    BY <2>5, <2>6 DEF FitsAfter
  <2> QED BY <2>2, <2>3, <2>7
<1>4. LoneColon => Lone
  BY LoneColonIs
<1>5. ASSUME NEW k \in Nat, NEW i \in Pairs(k, 0)
      PROVE  k \in A[i] <=> \/ k \in 0..7 /\ \E m \in 0..(7 - k) : GroupsEnd(m, i, n)
                            \/ LoneColon /\ k \in 0..7 /\ \E m \in 0..(7 - k) : GroupsEnd(m, i, n - 1)
  <2>1. k \in A[i] <=> (i = n /\ k <= 7) \/ FitsAfter(i, k, n) \/ (Lone /\ FitsAfter(i, k, n - 1))
    BY <1>1 DEF AfterFits
  <2> QED BY <1>2, <1>3, <1>4, <2>1
<1>6. Loop(A) <=>
        \E k \in Nat : \E i \in Pairs(k, 0) :
          \/ k \in 0..7 /\ \E m \in 0..(7 - k) : GroupsEnd(m, i, n)
          \/ LoneColon /\ k \in 0..7 /\ \E m \in 0..(7 - k) : GroupsEnd(m, i, n - 1)
  BY <1>5 DEF Loop
<1>7. \A k : k \in 0..7 => k \in Nat
  OBVIOUS
<1> QED BY <1>6, <1>7, Zenon DEF Compressed

(***************************************************************************)
(* parse_ipv6 takes the addresses of the grammar and the compressed ones   *)
(* with a lone colon: a text that starts with "::" has no group before it, *)
(* one that starts with a single colon is refused by both, any other is    *)
(* decided by the loop.                                                    *)
(***************************************************************************)
LEMMA Ipv6Is ==
  ASSUME text \in Seq(Byte)
  PROVE  parse_ipv6(text, 0, Len(text)) <=>
           \/ Len(text) \in ipv6({0})
           \/ LoneColon /\ Len(text) - 1 \in ipv6({0})
<1> PICK n \in Nat : n = Len(text)
  OBVIOUS
<1>0. Colon \notin HexDigit /\ n \in 0..Len(text) /\ 0 \in 0..Len(text)
  BY DEF Colon, HexDigit, Digit, Zero, Nine
<1>1. PICK A, Z : Counts(A, Z)
  BY CountsAre
<1>2. AllAfter(A) /\ AllBefore(A, Z) /\ CountAnswer(A, Z)
  BY <1>1 DEF Counts, AllAfter, AllBefore
<1>3. Loop(A) <=> Compressed(n) \/ (LoneColon /\ Compressed(n - 1))
  BY <1>2, LoopIs
<1>4. LoneColon => Lone /\ ~NoPairs(0) /\ n - 1 \in 0..Len(text) /\ At(text, n - 1) \notin HexDigit
  BY <1>0, LoneColonIs DEF Lone
<1>5. SUFFICES parse_ipv6(text, 0, n) <=>
                 \/ GroupsEnd(8, 0, n) \/ Compressed(n)
                 \/ LoneColon /\ (GroupsEnd(8, 0, n - 1) \/ Compressed(n - 1))
  BY Ipv6Ends
<1>6. LoneColon => ~GroupsEnd(8, 0, n - 1)
  <2>1. 7 + 1 = 8 /\ 7 \in Nat
    OBVIOUS
  <2> QED BY <1>0, <1>4, <2>1, NoPairsWithin
<1>7. PICK head : head <=> 0 + 1 < n /\ At(text, 0) = Colon /\ At(text, 0 + 1) = Colon
  OBVIOUS
<1>8. \A j : j \in Pairs(0, 0) <=> head /\ j = 2
  BY <1>0, <1>7, PairsAre
<1>9. CASE 0 < n /\ At(text, 0) = Colon
  <2>1. ~Parted(0) /\ ~GroupsEnd(8, 0, n)
    BY <1>0, <1>9, ColonStops
  <2>2. \A k \in Nat : k # 0 => Pairs(k, 0) = {}
    <3> TAKE k \in Nat
    <3> HAVE k # 0
    <3>1. PICK m \in Nat : k = m + 1
      <4>1. k - 1 \in Nat /\ k = (k - 1) + 1
        OBVIOUS
      <4> QED BY <4>1
    <3> QED BY <1>0, <2>1, <3>1, PairsAre
  <2>3. Loop(A) <=> head /\ 0 \in A[2]
    <3>1. 0 \in Nat
      OBVIOUS
    <3> QED BY <1>8, <2>2, <3>1 DEF Loop
  <2>4. parse_ipv6(text, 0, n) <=> head /\ 0 \in A[2]
    <3>1. head <=> 2 <= n /\ At(text, 0) = Colon /\ At(text, 1) = Colon
      BY <1>7
    <3> QED BY <1>2, <1>9, <3>1 DEF CountAnswer
  <2> QED BY <1>3, <1>6, <2>1, <2>3, <2>4
<1>10. CASE ~(0 < n /\ At(text, 0) = Colon)
  <2>1. ~head
    BY <1>7, <1>10
  <2>2. parse_ipv6(text, 0, n) <=> 0 \in Z[0]
    BY <1>2, <1>10 DEF CountAnswer
  <2>3. 0 \in Z[0] <=> FitsBefore(0, 0, n) \/ PairsFit(A, 0, 0)
    <3>1. 0 \in 0..0
      OBVIOUS
    <3> QED BY <1>0, <1>2, <3>1, BeforeIs DEF BeforeFits
  <2>4. FitsBefore(0, 0, n) <=> GroupsEnd(8, 0, n)
    <3>1. \A m \in Nat : 0 + m = 8 <=> m = 8
      OBVIOUS
    <3>2. 8 \in Nat /\ 8 >= 1
      OBVIOUS
    <3> QED BY <3>1, <3>2 DEF FitsBefore
  <2>5. PairsFit(A, 0, 0) <=> Loop(A)
    <3>1. \A k \in Nat : 0 + k = k /\ (k >= 1 <=> k # 0)
      OBVIOUS
    <3>2. PairsFit(A, 0, 0) <=> \E k \in Nat : k # 0 /\ \E j \in Pairs(k, 0) : k \in A[j]
      BY <3>1 DEF PairsFit
    <3> QED BY <1>8, <2>1, <3>2 DEF Loop
  <2> QED BY <1>3, <1>6, <2>2, <2>3, <2>4, <2>5
<1> QED BY <1>9, <1>10

(***************************************************************************)
(* Ipv6Exact: the ipv6 format answers true of exactly the addresses of RFC *)
(* 4291 and the compressed ones followed by a single colon, for every      *)
(* text: ip_parser.c counts eight groups, or seven at most with one "::",  *)
(* a dotted address as two and last.                                       *)
(***************************************************************************)
THEOREM Ipv6AlwaysExact == TextsSpec => []Ipv6Exact
<1>1. TextOK => Ipv6Exact
  <2> SUFFICES ASSUME TextOK
               PROVE  parse_ipv6(text, 0, Len(text)) <=>
                        \/ Len(text) \in ipv6({0})
                        \/ LoneColon /\ Len(text) - 1 \in ipv6({0})
    BY DEF Ipv6Exact, Passes, Whole
  <2>1. text \in Seq(Byte)
    BY DEF TextOK
  <2> QED BY <2>1, Ipv6Is
<1> QED BY <1>1, TextsOK, PTL
=============================================================================
