---------------------------- MODULE Utf8Promises ----------------------------
(* What utf8.c promises of every text a caller may pass.                    *)
EXTENDS Utf8, Texts

\* utf8_seq_len (utf8.c) takes exactly the sequences of RFC 3629, in every
\* window of every text: no truncated sequence, no overlong one, no surrogate,
\* and no byte of the text is left without an answer.
Utf8Decoded ==
  kind = "utf8" => \A e \in 0..Len(text) : \A pos \in 0..e : ExactAt(text, pos, e)
=============================================================================
