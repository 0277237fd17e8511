------------------------------ MODULE UriParser ------------------------------
(***************************************************************************)
(* formats/utils/uri_parser.c.  The C functions answer how many bytes they *)
(* took of a window; the operators answer the position they stopped at, so *)
(* to take nothing, which is also how most of them fail, is to stay at pos.*)
(***************************************************************************)
EXTENDS HostParsers, Integers

Unreserved == Alpha \cup Digit \cup {Hyphen, Dot, Underscore, Tilde}
SubDelim == {33, 36} \cup (38..44) \cup {59, 61}
SchemeChar == Alpha \cup Digit \cup {Plus, Hyphen, Dot}
RegNameChar == Unreserved \cup SubDelim
UserinfoChar == RegNameChar \cup {Colon}
PChar == UserinfoChar \cup {AtSign}

consume_pct_encoded(s, pos, e) ==
  IF pos + 3 <= e /\ At(s, pos) = Percent /\ {At(s, pos + 1), At(s, pos + 2)} \subseteq HexDigit
  THEN 3 ELSE 0

consume_utf8(s, pos, e, allow_utf8) ==
  IF allow_utf8 /\ At(s, pos) \notin Ascii THEN utf8_seq_len(s, pos, e) ELSE 0

\* One character where the bytes of C, escapes and UTF-8 may stand.
consume_char(C, s, pos, e, allow_utf8) ==
  LET c == At(s, pos)
  IN  IF c \in C     THEN 1 ELSE
      IF c = Percent THEN consume_pct_encoded(s, pos, e) ELSE
      IF c \in Ascii THEN 0 ELSE consume_utf8(s, pos, e, allow_utf8)

consume_run(C, s, pos, e, allow_utf8) ==
  Repeat(LAMBDA p : consume_char(C, s, p, e, allow_utf8), pos, e)

parse_scheme(s, pos, e) ==
  IF pos < e /\ At(s, pos) \in Alpha THEN Skip(s, pos + 1, e, SchemeChar) ELSE pos

parse_ipv_future(s, pos, e) ==
  LET dot  == Skip(s, pos + 1, e, HexDigit)
      tail == Skip(s, dot + 1, e, UserinfoChar)
  IN  IF /\ e - pos >= 4
         /\ At(s, pos) \in LetterV
         /\ dot > pos + 1 /\ dot < e /\ At(s, dot) = Dot
         /\ tail > dot + 1
      THEN tail
      ELSE pos

parse_ip_literal(s, pos, e) ==
  LET end == Find(s, pos + 1, e, {CloseBracket})
  IN  IF /\ e - pos >= 2 /\ At(s, pos) = OpenBracket /\ end < e
         /\ IF end > pos + 1 /\ At(s, pos + 1) \in LetterV
            THEN parse_ipv_future(s, pos + 1, end) = end
            ELSE parse_ipv6(s, pos + 1, end)
      THEN end + 1
      ELSE pos

parse_reg_name(s, pos, e, allow_utf8) == consume_run(RegNameChar, s, pos, e, allow_utf8)

\* A run of digits and dots that is a complete address is the host, whatever
\* follows it.
parse_host(s, pos, e, allow_utf8) ==
  LET run == Skip(s, pos, e, Digit \cup {Dot})
  IN  IF pos = e                             THEN pos ELSE
      IF At(s, pos) = OpenBracket            THEN parse_ip_literal(s, pos, e) ELSE
      IF run > pos /\ parse_ipv4(s, pos, run) THEN run
      ELSE parse_reg_name(s, pos, e, allow_utf8)

parse_port(s, pos, e) == Skip(s, pos, e, Digit)

parse_userinfo(s, pos, e, allow_utf8) == consume_run(UserinfoChar, s, pos, e, allow_utf8)

\* Where a host that begins at pos ends: one position, or none.
host_stops(s, pos, e, allow_utf8) ==
  IF pos < e /\ At(s, pos) = OpenBracket
  THEN {parse_ip_literal(s, pos, e)} \ {pos}
  ELSE {host_end \in {Find(s, pos, e, {Colon})} :
          parse_host(s, pos, host_end, allow_utf8) = host_end}

\* [ ":" port ], up to the end.
port_ends(s, pos, e) == pos = e \/ (At(s, pos) = Colon /\ parse_port(s, pos + 1, e) = e)

\* The first "@" ends the user information, if there is one.
parse_authority(s, pos, e, allow_utf8) ==
  LET auth_end == Find(s, pos, e, {Slash, Query, Hash})
      at_pos   == Find(s, pos, auth_end, {AtSign})
      host     == IF at_pos < auth_end THEN at_pos + 1 ELSE pos
  IN  IF /\ at_pos < auth_end => parse_userinfo(s, pos, at_pos, allow_utf8) = at_pos
         /\ \E host_end \in host_stops(s, host, auth_end, allow_utf8) :
              port_ends(s, host_end, auth_end)
      THEN auth_end
      ELSE pos

parse_segment(s, pos, e, allow_utf8) == consume_run(PChar, s, pos, e, allow_utf8)

\* Mutant: the first segment of a relative reference may have a colon.
parse_segment_nz_colon(s, pos, e, allow_utf8) == consume_run(PChar, s, pos, e, allow_utf8)

parse_segment_nz_nc(s, pos, e, allow_utf8) ==
  consume_run(PChar \ {Colon}, s, pos, e, allow_utf8)

parse_path_abempty(s, pos, e, allow_utf8) ==
  Repeat(LAMBDA p : IF At(s, p) = Slash THEN parse_segment(s, p + 1, e, allow_utf8) - p
                    ELSE 0, pos, e)

\* What follows a first segment that ends at nz, if there is one.
segments_after(s, pos, nz, e, allow_utf8) ==
  IF nz = pos THEN pos ELSE parse_path_abempty(s, nz, e, allow_utf8)

parse_path_absolute(s, pos, e, allow_utf8) ==
  IF pos < e /\ At(s, pos) = Slash
  THEN segments_after(s, pos + 1, parse_segment(s, pos + 1, e, allow_utf8), e, allow_utf8)
  ELSE pos

parse_path_rootless(s, pos, e, allow_utf8) ==
  segments_after(s, pos, parse_segment(s, pos, e, allow_utf8), e, allow_utf8)

parse_path_noscheme(s, pos, e, allow_utf8) ==
  segments_after(s, pos, parse_segment_nz_nc(s, pos, e, allow_utf8), e, allow_utf8)

parse_query_or_fragment(s, pos, e, allow_utf8) ==
  consume_run(PChar \cup {Slash, Query}, s, pos, e, allow_utf8)

\* "//" authority path-abempty, up to the end.
network_ends(s, pos, e, allow_utf8) ==
  \E auth_end \in {Find(s, pos, e, {Slash})} :
     /\ parse_authority(s, pos, auth_end, allow_utf8) = auth_end
     /\ parse_path_abempty(s, auth_end, e, allow_utf8) = e

\* Where the path ends: before the query or the fragment, or nowhere.
parse_hier_or_relative_part(s, pos, e, allow_utf8, is_relative) ==
  {path_end \in {Find(s, pos, e, {Query, Hash})} :
     IF pos + 2 <= path_end /\ At(s, pos) = Slash /\ At(s, pos + 1) = Slash
     THEN network_ends(s, pos + 2, path_end, allow_utf8)
     ELSE \/ pos = path_end
          \/ path_end = IF At(s, pos) = Slash THEN parse_path_absolute(s, pos, path_end, allow_utf8) ELSE
                        IF is_relative       THEN parse_path_noscheme(s, pos, path_end, allow_utf8)
                        ELSE parse_path_rootless(s, pos, path_end, allow_utf8)}

\* [ "?" query ] [ "#" fragment ], up to the end.
parse_suffix(s, pos, e, allow_utf8) ==
  \E q_end \in {IF pos < e /\ At(s, pos) = Query THEN Find(s, pos, e, {Hash}) ELSE pos} :
     /\ pos < q_end => parse_query_or_fragment(s, pos + 1, q_end, allow_utf8) = q_end
     /\ \/ q_end = e
        \/ /\ At(s, q_end) = Hash
           /\ parse_query_or_fragment(s, q_end + 1, e, allow_utf8) = e

try_parse_full_uri(s, e, allow_utf8) ==
  \E scheme \in {parse_scheme(s, 0, e)} :
     /\ scheme > 0 /\ scheme < e /\ At(s, scheme) = Colon
     /\ \E hp \in parse_hier_or_relative_part(s, scheme + 1, e, allow_utf8, FALSE) :
          parse_suffix(s, hp, e, allow_utf8)

try_parse_relative_ref(s, e, allow_utf8) ==
  \E rp \in parse_hier_or_relative_part(s, 0, e, allow_utf8, TRUE) :
     parse_suffix(s, rp, e, allow_utf8)

parse_uri_reference(s, require_scheme, allow_utf8) ==
  LET len == Len(s)
  IN  IF len = 0 THEN ~require_scheme
      ELSE \/ try_parse_full_uri(s, len, allow_utf8)
           \/ ~require_scheme /\ try_parse_relative_ref(s, len, allow_utf8)
=============================================================================
