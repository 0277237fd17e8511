-------------------------------- MODULE Rfc --------------------------------
(***************************************************************************)
(* What the parsers of formats/utils say they accept: the productions of   *)
(* the RFCs their headers and comments quote, written as grammars over the *)
(* text.  This is the reference definition; nothing here is code.          *)
(***************************************************************************)
EXTENDS Grammar, Utf8, Limits, Integers

digit(I) == Char(Digit, I)
hexdig(I) == Char(HexDigit, I)
colon(I) == Char({Colon}, I)
dot(I) == Char({Dot}, I)
slash(I) == Char({Slash}, I)

\* A character outside ASCII, where the format has them.
utf8(u, I) ==
  UNION {{i + n : n \in {k \in 2..4 : u /\ Encodes(text, i, Len(text), k)}} : i \in I}

----------------------------------------------------------------------------
(* RFC 3986 section 3.2.2, RFC 4291 section 2.2: addresses.                 *)

decOctet(I) ==
  UNION {Digits(1, 0..9, I), Digits(2, 10..99, I), Digits(3, 100..255, I)}

ipv4(I) == decOctet(dot(decOctet(dot(decOctet(dot(decOctet(I)))))))

h16(I) == Between(hexdig, 1, 4, I)
h16colon(I) == colon(h16(I))
ls32(I) == h16(h16colon(I)) \cup ipv4(I)

\* k groups before "::", and n after it.
Left(k, I) == IF k = 0 THEN I ELSE h16(Times(h16colon, k - 1, I))
Right(n, I) ==
  CASE n = 0 -> I
    [] n = 1 -> h16(I)
    [] OTHER -> ls32(Times(h16colon, n - 2, I))

\* What precedes "::" is cut off first: few texts have it.
ipv6(I) ==
  ls32(Times(h16colon, 6, I))
    \cup UNION {LET J == colon(colon(Left(k, I)))
                IN  UNION {Right(n, J) : n \in IF J = {} THEN {} ELSE 0..(7 - k)} :
                k \in IF I = {} THEN {} ELSE 0..7}

----------------------------------------------------------------------------
(* RFC 1123 section 2.1, RFC 1035 section 2.3.4: host names.                *)

letDig(u, I) == Char(Alpha \cup Digit, I) \cup utf8(u, I)
letDigHyp(u, I) == letDig(u, I) \cup Char({Hyphen}, I)

\* let-dig [ *let-dig-hyp let-dig ], of at most MAX_LABEL_LEN bytes.
label(u, I) ==
  UNION {LET first == letDig(u, {i})
         IN  {j \in first \cup letDig(u, Many(LAMBDA J : letDigHyp(u, J), first)) :
                j - i <= MAX_LABEL_LEN} : i \in I}

hostname(u) ==
  /\ Len(text) <= MAX_HOSTNAME_LEN
  /\ LET names == Many(LAMBDA J : label(u, dot(J)), label(u, {0}))
     IN  Len(text) \in names \cup dot(names)

----------------------------------------------------------------------------
(* RFC 6901 section 3, draft-handrews-relative-json-pointer-02: pointers.   *)

unescaped(I) == Char(Ascii \ {Slash, Tilde}, I) \cup utf8(TRUE, I)
escaped(I) == Char({Zero, One}, Char({Tilde}, I))
referenceToken(I) == Many(LAMBDA J : unescaped(J) \cup escaped(J), I)
jsonPointer(I) == Many(LAMBDA J : referenceToken(slash(J)), I)

nonNegative(I) == Char({Zero}, I) \cup Many(digit, Char(Digit \ {Zero}, I))
relativeJsonPointer(I) == LET J == nonNegative(I) IN Char({Hash}, J) \cup jsonPointer(J)

----------------------------------------------------------------------------
(* RFC 3339 section 5.6: dates and times.  A month has as many days as pass *)
(* between its first and the next month's, counted in the calendar.         *)

DayNumber(year, month) ==   \* of the month's first day
  LET y == IF month <= 2 THEN year - 1 ELSE year
      m == (month + 9) % 12
  IN  365 * y + (y \div 4) - (y \div 100) + (y \div 400) + ((306 * m + 5) \div 10)

MonthLength(year, month) ==
  (IF month = 12 THEN DayNumber(year + 1, 1) ELSE DayNumber(year, month + 1))
    - DayNumber(year, month)

hyphen(I) == Char({Hyphen}, I)
Years == 0..9999

fullDate(I) ==
  UNION {LET year  == Number(Window(text, y - 4, y))
             month == Digits(2, 1..12, hyphen({y}))
         IN  UNION {Digits(2, 1..MonthLength(year, Number(Window(text, m - 2, m))),
                           hyphen({m})) : m \in month} :
         y \in Digits(4, Years, I)}

hourMinute(I) == Digits(2, 0..59, colon(Digits(2, 0..23, I)))
partialTime(S, I) ==   \* with a second of S
  LET seconds == Digits(2, S, colon(hourMinute(I)))
  IN  seconds \cup Some(digit, dot(seconds))
timeOffset(I) == Char({90, 122}, I) \cup hourMinute(Char({Plus, Hyphen}, I))

(* Second 60 is a leap second, the last one of a month in UTC.  Which       *)
(* months have one is announced and not computed: any may.                  *)

\* The minutes since midnight of a time at i; of the one that ends at j, in
\* UTC, where -1 is the last minute of the day before.
MinuteAt(i) == 60 * Number(Window(text, i, i + 2)) + Number(Window(text, i + 3, i + 5))
UtcMinute(i, j) ==
  CASE At(text, j - 1) \in {90, 122} -> MinuteAt(i)
    [] At(text, j - 6) = Plus        -> MinuteAt(i) - MinuteAt(j - 5)
    [] OTHER                         -> MinuteAt(i) + MinuteAt(j - 5)

anyLeapTime(I) == timeOffset(partialTime({60}, I))
leapTime(i, minutes) == {j \in anyLeapTime({i}) : UtcMinute(i, j) \in minutes}

fullTime(I) ==
  timeOffset(partialTime(0..59, I)) \cup UNION {leapTime(i, {-1, 1439}) : i \in I}

\* The last minute of a month, for the date that ends before i - 1.
MonthEnds(i) ==
  LET day    == Number(Window(text, i - 3, i - 1))
      length == MonthLength(Number(Window(text, i - 11, i - 7)),
                            Number(Window(text, i - 6, i - 4)))
  IN  {m \in {-1, 1439} : day = IF m = -1 THEN 1 ELSE length}

dateT(I) == Char({84, 116}, fullDate(I))
dateTime(I) ==
  timeOffset(partialTime(0..59, dateT(I)))
    \cup UNION {leapTime(i, MonthEnds(i)) : i \in dateT(I)}
=============================================================================
