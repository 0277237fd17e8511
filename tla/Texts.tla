-------------------------------- MODULE Texts --------------------------------
(***************************************************************************)
(* The strings a format is asked about: the caller's, so any.  A behaviour *)
(* spells one text word by word.  Texts come in kinds, by what they are    *)
(* made of: Slots[k][i] is the set of words (byte sequences) that may come *)
(* as the i-th in a text of kind k, and bounds it.  Every prefix is a text *)
(* of its own, so truncated strings are among them.                        *)
(***************************************************************************)
EXTENDS Bytes

CONSTANT Slots

ASSUME SlotsAssumption == \A k \in DOMAIN Slots : Slots[k] \in Seq(SUBSET Seq(Byte))

VARIABLES kind,    \* what the string is made of
          text,    \* the string so far
          words    \* how many words it has

textVars == <<kind, text, words>>

TextsInit == kind \in DOMAIN Slots /\ text = <<>> /\ words = 0

NextWord ==
  /\ words < Len(Slots[kind])
  /\ \E w \in Slots[kind][words + 1] : text' = text \o w
  /\ words' = words + 1
  /\ UNCHANGED kind

TextsSpec == TextsInit /\ [][NextWord]_textVars

\* Every text is a string of bytes.
TextOK == /\ kind \in DOMAIN Slots
          /\ text \in Seq(Byte)
          /\ words \in 0..Len(Slots[kind])
=============================================================================
