--------------------------- MODULE PointerParsers ---------------------------
(* formats/utils/json_pointer_parser.c, formats/relative_json_pointer.c.    *)
EXTENDS Utf8

\* Mutant: a "~" may stand alone.
token_char_tilde(s, pos, e) ==
  IF At(s, pos) = Slash THEN 0 ELSE
  IF At(s, pos) \in Ascii THEN 1 ELSE utf8_seq_len(s, pos, e)

\* One character of a reference token: an escape is two bytes.
token_char(s, pos, e) ==
  LET c == At(s, pos)
  IN  IF c = Slash THEN 0 ELSE
      IF c = Tilde THEN IF pos + 1 < e /\ At(s, pos + 1) \in {Zero, One} THEN 2 ELSE 0 ELSE
      IF c \in Ascii THEN 1 ELSE utf8_seq_len(s, pos, e)

parse_json_pointer(s, pos, e) ==
  LET tokens[p \in pos..e] ==
        \/ p = e
        \/ /\ At(s, p) = Slash
           /\ tokens[Repeat(LAMBDA q : token_char(s, q, e), p + 1, e)]
  IN  tokens[pos]

parse_relative_json_pointer(s) ==
  LET len   == Len(s)
      first == At(s, 0)
      pos   == IF first = Zero THEN 1 ELSE Skip(s, 1, len, Digit)
  IN  /\ len > 0
      /\ first \in Digit
      /\ \/ pos = len
         \/ At(s, pos) = Hash /\ pos + 1 = len
         \/ At(s, pos) # Hash /\ parse_json_pointer(s, pos, len)
=============================================================================
