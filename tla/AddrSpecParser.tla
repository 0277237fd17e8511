--------------------------- MODULE AddrSpecParser ---------------------------
(* formats/utils/addr_spec_parser.c.  Positions as in UriParser.            *)
EXTENDS HostParsers

AText == Alpha \cup Digit \cup {33, 42, 43, 45, 47, 61, 63} \cup (35..39)
           \cup (94..96) \cup (123..126)
QText == (33..126) \ {Quote, Backslash}
DContent == (33..90) \cup (94..126)
VChar == 33..126
Wsp == {Space, Tab}

consume_atext(s, pos, e, allow_utf8) ==
  IF At(s, pos) \in Ascii THEN IF At(s, pos) \in AText THEN 1 ELSE 0 ELSE
  IF allow_utf8 THEN utf8_seq_len(s, pos, e) ELSE 0

parse_atext_run(s, pos, e, allow_utf8) ==
  Repeat(LAMBDA p : consume_atext(s, p, e, allow_utf8), pos, e)

\* Mutant: dots are taken as letters.
parse_dot_atom_loose(s, pos, e, allow_utf8, allow_trailing_dot) ==
  Repeat(LAMBDA p : IF At(s, p) = Dot THEN 1 ELSE consume_atext(s, p, e, allow_utf8), pos, e)

\* To fail, even after the first dot, is to have taken nothing.
parse_dot_atom(s, pos, e, allow_utf8, allow_trailing_dot) ==
  LET dots[p \in pos..e] ==   \* from the end of a run of atext
        LET q == parse_atext_run(s, p + 1, e, allow_utf8)
        IN  IF p = e \/ At(s, p) # Dot            THEN p ELSE
            IF q > p + 1                          THEN dots[q] ELSE
            IF allow_trailing_dot /\ p + 1 = e THEN e ELSE pos
      first == parse_atext_run(s, pos, e, allow_utf8)
  IN  IF first = pos THEN pos ELSE dots[first]

\* One unit between the quotes; 0 at the closing one and where it fails.
quoted_char(s, pos, e, allow_utf8) ==
  LET c == At(s, pos)
  IN  IF c = Backslash
      THEN IF pos + 1 < e /\ At(s, pos + 1) \in VChar \cup Wsp THEN 2 ELSE 0
      ELSE IF c \in QText \cup Wsp          THEN 1
      ELSE IF allow_utf8 /\ c \notin Ascii THEN utf8_seq_len(s, pos, e) ELSE 0

parse_quoted_string(s, pos, e, allow_utf8) ==
  LET stop == Repeat(LAMBDA p : quoted_char(s, p, e, allow_utf8), pos + 1, e)
  IN  IF e - pos >= 2 /\ At(s, pos) = Quote /\ stop < e /\ At(s, stop) = Quote
      THEN stop + 1
      ELSE pos

parse_local_part(s, pos, e, allow_utf8) ==
  IF pos = e             THEN pos ELSE
  IF At(s, pos) = Quote THEN parse_quoted_string(s, pos, e, allow_utf8)
  ELSE parse_dot_atom(s, pos, e, allow_utf8, FALSE)

IPv6Tag == <<73, 80, 118, 54>>

\* Mutant: the colon of the tag is given to the address.
parse_ipv6_literal_early(s, pos, e) ==
  pos + 5 <= e /\ Window(s, pos, pos + 5) = Append(IPv6Tag, Colon) /\ parse_ipv6(s, pos + 4, e)

parse_ipv6_literal(s, pos, e) ==
  pos + 5 <= e /\ Window(s, pos, pos + 5) = Append(IPv6Tag, Colon) /\ parse_ipv6(s, pos + 5, e)

parse_ldh_str(s, pos, e) ==
  /\ pos < e
  /\ At(s, pos) \in Alpha \cup Digit
  /\ \A i \in pos..(e - 1) : At(s, i) \in Alpha \cup Digit \cup {Hyphen}
  /\ At(s, e - 1) # Hyphen

dcontent_char(s, pos, e, allow_utf8) ==
  IF At(s, pos) \in Ascii THEN IF At(s, pos) \in DContent THEN 1 ELSE 0 ELSE
  IF allow_utf8 THEN utf8_seq_len(s, pos, e) ELSE 0

parse_general_address_literal(s, pos, e, allow_utf8) ==
  LET colon == Find(s, pos, e, {Colon})
  IN  /\ colon > pos /\ colon < e - 1
      /\ parse_ldh_str(s, pos, colon)
      /\ Window(s, pos, colon) # IPv6Tag
      /\ \E i \in pos..(colon - 1) : At(s, i) \in Alpha
      /\ Repeat(LAMBDA p : dcontent_char(s, p, e, allow_utf8), colon + 1, e) = e

parse_domain_literal_body(s, pos, e, allow_utf8) ==
  \/ parse_ipv4(s, pos, e)
  \/ parse_ipv6_literal(s, pos, e)
  \/ parse_general_address_literal(s, pos, e, allow_utf8)

parse_domain_literal(s, pos, e, allow_utf8) ==
  LET end == Find(s, pos + 1, e, {CloseBracket})
  IN  IF /\ e - pos >= 2 /\ At(s, pos) = OpenBracket /\ end < e
         /\ parse_domain_literal_body(s, pos + 1, end, allow_utf8)
      THEN end + 1
      ELSE pos

parse_domain(s, pos, e, allow_utf8) ==
  IF pos = e                  THEN pos ELSE
  IF At(s, pos) = OpenBracket THEN parse_domain_literal(s, pos, e, allow_utf8)
  ELSE parse_dot_atom(s, pos, e, allow_utf8, TRUE)

parse_addr_spec(s, allow_utf8) ==
  LET len == Len(s)
  IN  \E local \in {parse_local_part(s, 0, len, allow_utf8)} :
        /\ local > 0 /\ local <= MAX_LOCAL_PART
        /\ local < len /\ At(s, local) = AtSign
        /\ len - (local + 1) \in 1..MAX_DOMAIN
        /\ parse_domain(s, local + 1, len, allow_utf8) = len
=============================================================================
