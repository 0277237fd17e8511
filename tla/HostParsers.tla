---------------------------- MODULE HostParsers ----------------------------
(***************************************************************************)
(* formats/utils/hostname_parser.c and formats/utils/ip_parser.c.  Where   *)
(* the C function answers how many bytes it took, the operator answers the *)
(* position it stopped at; taking nothing is its way to fail.              *)
(***************************************************************************)
EXTENDS Utf8, Limits

LetDig == Alpha \cup Digit

consume_label_char(s, pos, e, allow_utf8, allow_hyphen) ==
  LET c == At(s, pos)
  IN  IF c \in Ascii
      THEN IF c \in LetDig \/ (allow_hyphen /\ c = Hyphen) THEN 1 ELSE 0
      ELSE IF allow_utf8 THEN utf8_seq_len(s, pos, e) ELSE 0

\* Mutant: the last character is not looked at.
label_ends_hyphen(s, pos, last, e) ==
  (last = e \/ At(s, last) = Dot) /\ last - pos <= MAX_LABEL_LEN

\* A label's characters run from pos to last; whether they are a label.
label_ends(s, pos, last, e) ==
  /\ last = e \/ At(s, last) = Dot
  /\ last - pos <= MAX_LABEL_LEN
  /\ At(s, last - 1) # Hyphen

\* A hyphen may not come first.
label_run(s, pos, e, allow_utf8) ==
  Repeat(LAMBDA p : IF At(s, p) = Dot THEN 0
                    ELSE consume_label_char(s, p, e, allow_utf8, p > pos), pos, e)

\* The positions where parse_label may stop, having taken a label: one or none.
parse_label(s, pos, e, allow_utf8) ==
  {last \in {label_run(s, pos, e, allow_utf8)} : last > pos /\ label_ends(s, pos, last, e)}

\* Mutant: UTF-8 is always allowed.
parse_hostname_utf8(s, allow_utf8) ==
  LET labels[p \in 0..Len(s)] ==
        \E q \in parse_label(s, p, Len(s), TRUE) :
           q = Len(s) \/ (At(s, q) = Dot /\ (q + 1 = Len(s) \/ labels[q + 1]))
  IN  0 < Len(s) /\ Len(s) <= MAX_HOSTNAME_LEN /\ labels[0]

\* Nothing need follow a dot: the absolute form ends in one.
parse_hostname(s, allow_utf8) ==
  LET len == Len(s)
      labels[p \in 0..len] ==
        \E q \in parse_label(s, p, len, allow_utf8) :
           \/ q = len
           \/ At(s, q) = Dot /\ (q + 1 = len \/ labels[q + 1])
  IN  len > 0 /\ len <= MAX_HOSTNAME_LEN /\ labels[0]

\* Mutant: leading zeros are taken.
dec_octet_zeros(s, pos, e) ==
  LET run  == Skip(s, pos, e, Digit)
      stop == IF run > pos + 3 THEN pos + 3 ELSE run
  IN  IF run > pos /\ Number(Window(s, pos, stop)) <= 255 THEN stop ELSE pos

\* One of the four numbers: at most three digits, no leading zero.
dec_octet(s, pos, e) ==
  LET run  == Skip(s, pos, e, Digit)
      stop == IF run > pos + 3 THEN pos + 3 ELSE run
  IN  IF /\ run > pos
         /\ ~(At(s, pos) = Zero /\ run > pos + 1)
         /\ Number(Window(s, pos, stop)) <= 255
      THEN stop
      ELSE pos

parse_ipv4(s, pos, e) ==
  LET octets[i \in 0..3] ==
        [p \in pos..e |->
           \E q \in {dec_octet(s, p, e)} :
              /\ q > p
              /\ IF i = 3 THEN q = e
                 ELSE q < e /\ At(s, q) = Dot /\ octets[i + 1][q + 1]]
  IN  octets[0][pos]

parse_ipv6_group(s, pos, e) ==
  LET run == Skip(s, pos, e, HexDigit) IN IF run > pos + 4 THEN pos + 4 ELSE run

\* Mutant: "::" may stand for no group at all.
CountFitsEight(groups, seen_compression) ==
  IF seen_compression THEN groups <= 8 ELSE groups = 8

\* The answer once the text is used up after a group.
CountFits(groups, seen_compression) ==
  IF seen_compression THEN groups <= 7 ELSE groups = 8

\* The loop's state is the position, groups and seen_compression: each round
\* begins with last_was_group false.
parse_ipv6(s, pos, e) ==
  LET walk[p \in pos..e] ==
        [groups \in 0..(p - pos) |-> [seen_compression \in BOOLEAN |->
           LET dotted == \E i \in p..(e - 1) : /\ At(s, i) = Dot
                                               /\ \A j \in p..i : At(s, j) # Colon
           IN  IF p = e  THEN seen_compression /\ CountFits(groups, seen_compression) ELSE
               IF dotted THEN parse_ipv4(s, p, e) /\ CountFits(groups + 2, seen_compression)
               ELSE \E q \in {parse_ipv6_group(s, p, e)} :
                      /\ q > p
                      /\ \/ q = e /\ CountFits(groups + 1, seen_compression)
                         \/ /\ q < e /\ At(s, q) = Colon
                            /\ IF q + 1 < e /\ At(s, q + 1) = Colon
                               THEN ~seen_compression /\ walk[q + 2][groups + 1][TRUE]
                               ELSE walk[q + 1][groups + 1][seen_compression]]]
  IN  IF pos + 2 <= e /\ At(s, pos) = Colon /\ At(s, pos + 1) = Colon
      THEN walk[pos + 2][0][TRUE]
      ELSE ~(pos < e /\ At(s, pos) = Colon) /\ walk[pos][0][FALSE]
=============================================================================
