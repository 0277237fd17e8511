-------------------------- MODULE DateTimeParsers --------------------------
(* formats/date.c, formats/time.c, formats/date_time.c.                     *)
EXTENDS Bytes, Integers

days == <<31, 28, 31, 30, 31, 30, 31, 31, 30, 31, 30, 31>>

\* Mutant: every fourth year.
is_leap_year_julian(year) == year % 4 = 0

is_leap_year(year) ==
  (year % 4 = 0 /\ year % 100 # 0) \/ year % 400 = 0

days_in_month(year, month) ==
  IF month = 2 /\ is_leap_year(year) THEN 29 ELSE days[month]

\* A byte the C code tests with IS_DIGIT, and the number n of them spell.
AllDigits(s, P) == \A p \in P : At(s, p) \in Digit
Field(s, pos, n) == Number(Window(s, pos, pos + n))

parse_full_date(s, pos, e) ==
  /\ e - pos = 10
  /\ AllDigits(s, pos..(pos + 3))
  /\ At(s, pos + 4) = Hyphen
  /\ AllDigits(s, {pos + 5, pos + 6})
  /\ At(s, pos + 7) = Hyphen
  /\ AllDigits(s, {pos + 8, pos + 9})
  /\ LET year  == Field(s, pos, 4)
         month == Field(s, pos + 5, 2)
         day   == Field(s, pos + 8, 2)
     IN  /\ month \in 1..12
         /\ 1 <= day /\ day <= days_in_month(year, month)

\* HH:MM, with the colon, at pos; hours and minutes have their limits.
HourMinute(s, pos) ==
  /\ AllDigits(s, {pos, pos + 1})
  /\ At(s, pos + 2) = Colon
  /\ AllDigits(s, {pos + 3, pos + 4})
  /\ Field(s, pos, 2) <= 23
  /\ Field(s, pos + 3, 2) <= 59

\* Mutant: the fraction may be empty.
after_fraction_empty(s, pos, e) ==
  IF At(s, pos) = Dot THEN Skip(s, pos + 1, e, Digit) ELSE pos

\* The fraction needs a digit; e + 1 stands for "return false".
after_fraction(s, pos, e) ==
  LET stop == Skip(s, pos + 1, e, Digit)
  IN  IF At(s, pos) # Dot THEN pos ELSE
      IF stop = pos + 1 THEN e + 1 ELSE stop

parse_full_time(s, pos, e) ==
  /\ e - pos >= 9
  /\ HourMinute(s, pos)
  /\ At(s, pos + 5) = Colon
  /\ AllDigits(s, {pos + 6, pos + 7})
  /\ Field(s, pos + 6, 2) <= 60
  /\ LET zone == after_fraction(s, pos + 8, e)
     IN  /\ zone < e
         /\ \/ At(s, zone) = 90 /\ zone = e - 1      \* "Z"
            \/ /\ At(s, zone) \in {Plus, Hyphen}
               /\ e - zone = 6
               /\ HourMinute(s, zone + 1)

validate_format_date_time(s) ==
  LET len == Len(s)
  IN  /\ len >= 12
      /\ At(s, 10) = 84                               \* "T"
      /\ parse_full_date(s, 0, 10)
      /\ parse_full_time(s, 11, len)
=============================================================================
