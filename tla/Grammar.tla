------------------------------ MODULE Grammar ------------------------------
(***************************************************************************)
(* Grammars as RFC 5234 writes them, for the reference definitions.  A     *)
(* nonterminal is an operator from the set of positions of the text where  *)
(* it may begin to the set of positions where it may end, following every  *)
(* alternative at once: nothing here scans, chooses or goes back.  To      *)
(* follow one by the other is to compose them, an alternative is a union.  *)
(***************************************************************************)
EXTENDS Texts

Char(C, I) == {i + 1 : i \in {j \in I : j < Len(text) /\ At(text, j) \in C}}

Word(w, I) ==
  {i + Len(w) : i \in {j \in I : /\ j + Len(w) <= Len(text)
                                 /\ Window(text, j, j + Len(w)) = w}}

\* n A
Times(A(_), n, I) ==
  LET after[k \in 0..n] == IF k = 0 THEN I ELSE A(after[k - 1]) IN after[n]

\* n*m A
Between(A(_), n, m, I) == UNION {Times(A, k, I) : k \in n..m}

\* *A
Many(A(_), I) ==
  LET closure[J \in SUBSET (0..Len(text))] ==
        LET K == J \cup A(J) IN IF K = J THEN J ELSE closure[K]
  IN  closure[I]

\* 1*A
Some(A(_), I) == Many(A, A(I))

\* The whole text is an A.
Whole(A(_)) == Len(text) \in A({0})

\* n digits whose number is in R.
Digits(n, R, I) ==
  {j \in Times(LAMBDA J : Char(Digit, J), n, I) :
     Number(Window(text, j - n, j)) \in R}
=============================================================================
