------------------------------- MODULE Limits -------------------------------
(* The lengths the parsers #define: 253, 63, 64 and 255 in the code.        *)
EXTENDS Naturals

CONSTANTS MAX_HOSTNAME_LEN, MAX_LABEL_LEN,   \* hostname_parser.c
          MAX_LOCAL_PART, MAX_DOMAIN         \* addr_spec_parser.c

\* A label's first character, up to four bytes, is taken before the length of
\* the label is tested.
ASSUME LimitsAssumption ==
  /\ {MAX_HOSTNAME_LEN, MAX_LABEL_LEN, MAX_LOCAL_PART, MAX_DOMAIN} \subseteq Nat
  /\ MAX_LABEL_LEN >= 4
=============================================================================
