-------------------------- MODULE UriTemplateParser --------------------------
(***************************************************************************)
(* formats/utils/uri_template_parser.c.  Positions as in UriParser, whose  *)
(* consume_pct_encoded this file repeats.                                  *)
(***************************************************************************)
EXTENDS UriParser

VarChar == Alpha \cup Digit \cup {Underscore}
Operator == {43, 35, 46, 47, 59, 63, 38, 61, 44, 33, 64, 124}
Literal == {33, 35, 36, 38, 61, 93, 95, 126} \cup (40..59) \cup (63..91) \cup (97..122)

consume_literal_byte(s, pos, e) ==
  LET c == At(s, pos)
  IN  IF c \in Ascii
      THEN IF c = Percent   THEN consume_pct_encoded(s, pos, e) ELSE
           IF c \in Literal THEN 1 ELSE 0
      ELSE utf8_seq_len(s, pos, e)

\* What follows answers the positions where the C function may stop: one, or
\* none where it fails.

\* Up to a "{"; a byte that is no literal fails it.
parse_literals_run(s, pos, e) ==
  {stop \in {Repeat(LAMBDA p : IF At(s, p) = OpenBrace THEN 0
                               ELSE consume_literal_byte(s, p, e), pos, e)} :
     stop = e \/ At(s, stop) = OpenBrace}

\* How many bytes it took.
parse_varchar(s, pos, e) ==
  IF pos < e /\ At(s, pos) = Percent THEN consume_pct_encoded(s, pos, e) ELSE
  IF pos < e /\ At(s, pos) \in VarChar THEN 1 ELSE 0

\* A dot needs a varchar after it.
parse_varname(s, pos, e) ==
  LET dots(p) == IF p < e /\ At(s, p) = Dot THEN 1 ELSE 0
      unit(p) == LET n == parse_varchar(s, p + dots(p), e)
                 IN  IF n > 0 THEN n + dots(p) ELSE 0
  IN  {stop \in {Repeat(unit, pos, e)} : parse_varchar(s, pos, e) > 0 /\ dots(stop) = 0}

\* Mutant: a prefix of any length.
parse_modifier_long(s, pos, e) ==
  IF At(s, pos) = Star THEN {pos + 1} ELSE
  {stop \in {Skip(s, pos + 1, e, Digit)} : stop > pos + 1 /\ At(s, pos + 1) # Zero}

parse_modifier(s, pos, e) ==
  IF At(s, pos) = Star THEN {pos + 1} ELSE
  {stop \in {Skip(s, pos + 1, e, Digit)} :
     stop - (pos + 1) \in 1..4 /\ At(s, pos + 1) \in One..Nine}

parse_varspec(s, pos, e) ==
  UNION {IF q < e /\ At(s, q) \in {Colon, Star} THEN parse_modifier(s, q, e) ELSE {q} :
         q \in parse_varname(s, pos, e)}

parse_variable_list(s, pos, e) ==
  LET list[p \in pos..e] ==
        UNION {IF q < e /\ At(s, q) = Comma THEN list[q + 1] ELSE {q} :
               q \in parse_varspec(s, p, e)}
  IN  list[pos]

parse_expression(s, pos, e) ==
  LET from == IF pos + 1 < e /\ At(s, pos + 1) \in Operator THEN pos + 2 ELSE pos + 1
  IN  {q + 1 : q \in {p \in parse_variable_list(s, from, e) :
                         p < e /\ At(s, p) = CloseBrace}}

parse_uri_template(s) ==
  LET len == Len(s)
      parts[p \in 0..len] ==
        \/ p = len
        \/ \E q \in IF At(s, p) = OpenBrace THEN parse_expression(s, p, len)
                    ELSE parse_literals_run(s, p, len) : parts[q]
  IN  parts[0]
=============================================================================
