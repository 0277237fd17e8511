-------------------------------- MODULE Utf8 --------------------------------
(* formats/utils/utf8.c: the length of the UTF-8 sequence at a position.    *)
EXTENDS Bytes

Continuation == 128..191

\* Mutant: any continuation byte may come second.
SecondByteAny(lead) == Continuation

\* The second byte the lead byte allows: shorter encodings, surrogates and
\* numbers above U+10FFFF are cut off here.
SecondByte(lead) ==
  IF lead = 224 THEN 160..191 ELSE
  IF lead = 237 THEN 128..159 ELSE
  IF lead = 240 THEN 144..191 ELSE
  IF lead = 244 THEN 128..143 ELSE Continuation

\* The length the lead byte announces.
Announced(lead) ==
  IF lead \in 0..127   THEN 1 ELSE
  IF lead \in 194..223 THEN 2 ELSE
  IF lead \in 224..239 THEN 3 ELSE
  IF lead \in 240..244 THEN 4 ELSE 0

\* What is left of the text may be shorter than what the lead byte announces.
utf8_seq_len(s, pos, e) ==
  LET n == IF pos < e THEN Announced(At(s, pos)) ELSE 0
  IN  IF /\ pos + n <= e
         /\ n >= 2 => At(s, pos + 1) \in SecondByte(At(s, pos))
         /\ n >= 3 => At(s, pos + 2) \in Continuation
         /\ n >= 4 => At(s, pos + 3) \in Continuation
      THEN n
      ELSE 0

(***************************************************************************)
(* RFC 3629 as arithmetic: n bytes that carry the bits of a number, which  *)
(* is a Unicode scalar value and needs all n of them.                      *)
(***************************************************************************)
Bits2(a, b)       == (a - 192) * 64 + (b - 128)
Bits3(a, b, c)    == (a - 224) * 4096 + (b - 128) * 64 + (c - 128)
Bits4(a, b, c, d) == (a - 240) * 262144 + (b - 128) * 4096 + (c - 128) * 64 + (d - 128)

CodePoint(s, pos, n) ==
  IF n = 1 THEN At(s, pos) ELSE
  IF n = 2 THEN Bits2(At(s, pos), At(s, pos + 1)) ELSE
  IF n = 3 THEN Bits3(At(s, pos), At(s, pos + 1), At(s, pos + 2))
  ELSE Bits4(At(s, pos), At(s, pos + 1), At(s, pos + 2), At(s, pos + 3))

LeadBytes == <<0..127, 192..223, 224..239, 240..247>>

Smallest == <<0, 128, 2048, 65536>>

\* The number is a Unicode scalar value, and n bytes are not too many for it.
Scalar(c, n) == /\ Smallest[n] <= c
                /\ c <= 1114111
                /\ c \notin 55296..57343

Encodes(s, pos, e, n) ==
  /\ pos + n <= e
  /\ At(s, pos) \in LeadBytes[n]
  /\ \A i \in 1..(n - 1) : At(s, pos + i) \in Continuation
  /\ Scalar(CodePoint(s, pos, n), n)

\* The parser's answer is the RFC's, in every window.
ExactAt(s, pos, e) ==
  /\ utf8_seq_len(s, pos, e) \in 0..4
  /\ \A n \in 1..4 : utf8_seq_len(s, pos, e) = n <=> Encodes(s, pos, e, n)
=============================================================================
