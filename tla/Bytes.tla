------------------------------- MODULE Bytes -------------------------------
(***************************************************************************)
(* What the hand-written scanners of formats/utils are made of.  A text is *)
(* a sequence of bytes; C's s[pos] is At(s, pos), and a C window           *)
(* (s + pos, len) is the positions pos..(e - 1) of the whole text.  A scan *)
(* that would leave its window is outside the domain of the function that  *)
(* describes it, which TLC reports.                                        *)
(***************************************************************************)
EXTENDS Naturals, Sequences

Byte == 0..255

At(s, pos) == s[pos + 1]

\* The part of s in the window.
Window(s, pos, e) == SubSeq(s, pos + 1, e)

\* The bytes the parsers mention by name.
Tab == 9
Space == 32
Quote == 34
Hash == 35
Percent == 37
Star == 42
Plus == 43
Comma == 44
Hyphen == 45
Dot == 46
Slash == 47
Zero == 48
One == 49
Nine == 57
Colon == 58
Query == 63
AtSign == 64
OpenBracket == 91
Backslash == 92
CloseBracket == 93
Underscore == 95
OpenBrace == 123
CloseBrace == 125
Tilde == 126

Digit == Zero..Nine
Alpha == (65..90) \cup (97..122)
LetterV == {86, 118}
HexDigit == Digit \cup (65..70) \cup (97..102)
Ascii == 0..127

\* "for(i = pos; i < e; i++) if(s[i] is in C) break": the first position in
\* the window whose byte is in C, or its end.
Find(s, pos, e, C) ==
  CHOOSE i \in pos..e : /\ i = e \/ At(s, i) \in C
                        /\ \A j \in pos..(i - 1) : At(s, j) \notin C

\* "while(pos < e && s[pos] is in C) pos++".
Skip(s, pos, e, C) == Find(s, pos, e, Byte \ C)

\* "while(pos < e) { n = Unit(pos); if(n == 0) break; pos += n; }".
Repeat(Unit(_), pos, e) ==
  LET last[p \in pos..e] == LET n == IF p < e THEN Unit(p) ELSE 0
                            IN  IF n = 0 THEN p ELSE last[p + n]
  IN  last[pos]

\* The number a run of digits spells.
Number(digits) ==
  LET value[i \in 0..Len(digits)] ==
        IF i = 0 THEN 0 ELSE value[i - 1] * 10 + (digits[i] - Zero)
  IN  value[Len(digits)]
=============================================================================
