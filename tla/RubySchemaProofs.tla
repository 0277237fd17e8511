------------------------- MODULE RubySchemaProofs -------------------------
(***************************************************************************)
(* What the recursive definitions of RubySchema compute, for every Ruby    *)
(* schema.  The induction is the least-element principle on the natural    *)
(* numbers, stated for a set: a definition's property fails for no number, *)
(* because it fails for no least one.                                      *)
(***************************************************************************)
EXTENDS JobShapes, WellFoundedInduction, TLAPS

(***************************************************************************)
(* Induction.                                                              *)
(***************************************************************************)
Less == {ss \in Nat \X Nat : ss[1] < ss[2]}

LEMMA LessIsWellFounded == IsWellFoundedOn(Less, Nat)
BY NatLessThanWellFounded DEF OpToRel, Less

LEMMA Least ==
  ASSUME NEW T, T \subseteq Nat, T # {}
  PROVE  \E x \in T : \A y \in T : x <= y
<1>1. PICK x \in T : \A y \in T : ~ (<<y, x>> \in Less)
  BY WFMin, LessIsWellFounded
<1>2. \A y \in T : ~(y < x)
  BY <1>1 DEF Less
<1> QED BY <1>2

LEMMA Induction ==
  ASSUME NEW S, 0 \in S, \A n \in Nat : n \in S => n + 1 \in S
  PROVE  \A n \in Nat : n \in S
<1>1. ASSUME NEW m \in Nat, m \notin S PROVE FALSE
  <2>1. PICK T : T = {n \in Nat : n \notin S}
    OBVIOUS
  <2>2. PICK x \in T : \A y \in T : x <= y
    BY <1>1, <2>1, Least
  <2>3. x # 0 /\ x - 1 \in Nat /\ x - 1 \in S
    BY <2>1, <2>2
  <2> QED BY <2>1, <2>2, <2>3
<1> QED BY <1>1

(***************************************************************************)
(* FlattenSeq.  Its recursive function exists, and only one does.          *)
(***************************************************************************)
Flat(q, f) ==
  f = [i \in 1 .. Len(q) |-> IF i = 1 THEN q[i] ELSE f[i - 1] \o q[i]]

LEMMA FlatExists ==
  ASSUME NEW S, \A a, b \in S : a \o b \in S,
         NEW q \in Seq(S), q # <<>>
  PROVE  \E f \in [1 .. Len(q) -> S] : Flat(q, f)
<1>1. PICK Good : Good = {n \in Nat : n + 1 <= Len(q) =>
          \E f \in [1 .. n + 1 -> S] :
            \A i \in 1 .. n + 1 : f[i] = IF i = 1 THEN q[i] ELSE f[i - 1] \o q[i]}
  OBVIOUS
<1>2. 0 \in Good
  <2>1. q[1] \in S
    OBVIOUS
  <2>2. PICK f : f = [i \in 1 .. 0 + 1 |-> q[1]]
    OBVIOUS
  <2>3. /\ f \in [1 .. 0 + 1 -> S]
        /\ \A i \in 1 .. 0 + 1 : f[i] = IF i = 1 THEN q[i] ELSE f[i - 1] \o q[i]
    BY <2>1, <2>2
  <2> QED BY <1>1, <2>3
<1>3. ASSUME NEW n \in Nat, n \in Good
      PROVE  n + 1 \in Good
  <2> SUFFICES ASSUME n + 1 + 1 <= Len(q)
               PROVE  \E f \in [1 .. n + 1 + 1 -> S] :
                        \A i \in 1 .. n + 1 + 1 : f[i] = IF i = 1 THEN q[i] ELSE f[i - 1] \o q[i]
    BY <1>1
  <2>1. PICK f \in [1 .. n + 1 -> S] :
          \A i \in 1 .. n + 1 : f[i] = IF i = 1 THEN q[i] ELSE f[i - 1] \o q[i]
    BY <1>1, <1>3
  <2>2. PICK g : g = [i \in 1 .. n + 1 + 1 |-> IF i \in 1 .. n + 1 THEN f[i] ELSE f[n + 1] \o q[i]]
    OBVIOUS
  <2>3. \A i \in 1 .. n + 1 + 1 : i \notin 1 .. n + 1 => i = n + 1 + 1 /\ i - 1 = n + 1 /\ i # 1
    OBVIOUS
  <2>4. q[n + 1 + 1] \in S /\ f[n + 1] \in S
    OBVIOUS
  <2>5. g \in [1 .. n + 1 + 1 -> S]
    BY <2>2, <2>3, <2>4
  <2>6. \A i \in 1 .. n + 1 + 1 : g[i] = IF i = 1 THEN q[i] ELSE g[i - 1] \o q[i]
    <3>1. \A i \in 1 .. n + 1 : i # 1 => i - 1 \in 1 .. n + 1 /\ g[i - 1] = f[i - 1]
      BY <2>2
    <3>2. \A i \in 1 .. n + 1 : g[i] = f[i]
      BY <2>2
    <3>4. \A i \in 1 .. n + 1 : g[i] = IF i = 1 THEN q[i] ELSE g[i - 1] \o q[i]
      BY <2>1, <3>1, <3>2
    <3>5. ASSUME NEW i \in 1 .. n + 1 + 1, i \notin 1 .. n + 1
          PROVE  i # 1 /\ g[i] = g[i - 1] \o q[i]
      <4>1. i - 1 = n + 1 /\ i # 1 /\ n + 1 \in 1 .. n + 1
        BY <2>3, <3>5
      <4>2. g[i] = f[n + 1] \o q[i]
        BY <2>2, <3>5
      <4> QED BY <3>2, <4>1, <4>2
    <3> QED BY <3>4, <3>5
  <2> QED BY <2>5, <2>6
<1>4. PICK n \in Nat : n + 1 = Len(q)
  <2>1. Len(q) - 1 \in Nat /\ Len(q) - 1 + 1 = Len(q)
    OBVIOUS
  <2> QED BY <2>1
<1>5. n \in Good
  BY <1>2, <1>3, Induction
<1>6. PICK f \in [1 .. Len(q) -> S] :
        \A i \in 1 .. Len(q) : f[i] = IF i = 1 THEN q[i] ELSE f[i - 1] \o q[i]
  BY <1>1, <1>4, <1>5
<1>7. Flat(q, f)
  BY <1>6 DEF Flat
<1> QED BY <1>7

LEMMA FlatUnique ==
  ASSUME NEW q, Len(q) \in Nat, NEW f, Flat(q, f), NEW g, Flat(q, g)
  PROVE  f = g
<1>1. PICK Bad : Bad = {i \in 1 .. Len(q) : f[i] # g[i]}
  OBVIOUS
<1>2. Bad = {} => f = g
  <2>1. \A i \in 1 .. Len(q) : Bad = {} => f[i] = g[i]
    BY <1>1
  <2> QED BY <2>1 DEF Flat
<1>3. ASSUME Bad # {} PROVE FALSE
  <2>0. Bad \subseteq Nat
    BY <1>1
  <2>1. PICK i \in Bad : \A j \in Bad : i <= j
    BY <1>3, <2>0, Least
  <2>2. /\ f[i] = (IF i = 1 THEN q[i] ELSE f[i - 1] \o q[i])
        /\ g[i] = (IF i = 1 THEN q[i] ELSE g[i - 1] \o q[i])
    BY <1>1, <2>1 DEF Flat
  <2>3. i # 1 => i - 1 \in 1 .. Len(q) /\ i - 1 \notin Bad
    BY <1>1, <2>1
  <2> QED BY <1>1, <2>1, <2>2, <2>3
<1> QED BY <1>2, <1>3

LEMMA FlattenIs ==
  ASSUME NEW S, \A a, b \in S : a \o b \in S,
         NEW q \in Seq(S), q # <<>>
  PROVE  \E f \in [1 .. Len(q) -> S] :
           /\ \A i \in 1 .. Len(q) : f[i] = IF i = 1 THEN q[i] ELSE f[i - 1] \o q[i]
           /\ FlattenSeq(q) = f[Len(q)]
<1>1. PICK f \in [1 .. Len(q) -> S] : Flat(q, f)
  BY FlatExists
<1>2. PICK g : g = CHOOSE h : Flat(q, h)
  OBVIOUS
<1>3. Flat(q, g) /\ Len(q) \in Nat /\ Len(q) # 0
  BY <1>1, <1>2
<1>4. FlattenSeq(q) = g[Len(q)]
  BY <1>2, <1>3 DEF FlattenSeq, Flat
<1>5. f = g
  BY <1>1, <1>3, FlatUnique
<1> QED BY <1>1, <1>4, <1>5 DEF Flat

(* What concatenation preserves, flattening preserves.                     *)
LEMMA FlattenIn ==
  ASSUME NEW S, <<>> \in S, \A a, b \in S : a \o b \in S,
         NEW q \in Seq(S)
  PROVE  FlattenSeq(q) \in S
<1>1. CASE q = <<>>
  BY <1>1 DEF FlattenSeq
<1>2. CASE q # <<>>
  <2>1. Len(q) \in 1 .. Len(q)
    BY <1>2
  <2> QED BY <1>2, <2>1, FlattenIs
<1> QED BY <1>1, <1>2

(* The elements of a concatenation.                                        *)
LEMMA ConcatSet ==
  ASSUME NEW T, NEW a \in Seq(T), NEW b \in Seq(T)
  PROVE  a \o b \in Seq(T) /\ ToSet(a \o b) = ToSet(a) \cup ToSet(b)
<1>1. /\ DOMAIN (a \o b) = 1 .. Len(a) + Len(b) /\ Len(a) \in Nat /\ Len(b) \in Nat
      /\ \A i \in 1 .. Len(a) : (a \o b)[i] = a[i]
      /\ \A i \in 1 .. Len(b) : (a \o b)[Len(a) + i] = b[i]
  OBVIOUS
<1>2. \A i \in 1 .. Len(a) + Len(b) : i \notin 1 .. Len(a) =>
        i - Len(a) \in 1 .. Len(b) /\ Len(a) + (i - Len(a)) = i
  BY <1>1
<1>3. \A i \in 1 .. Len(b) : Len(a) + i \in 1 .. Len(a) + Len(b)
  BY <1>1
<1>4. \A i \in 1 .. Len(a) : i \in 1 .. Len(a) + Len(b)
  BY <1>1
<1>5. ASSUME NEW x \in ToSet(a \o b) PROVE x \in ToSet(a) \cup ToSet(b)
  <2>1. PICK i \in 1 .. Len(a) + Len(b) : x = (a \o b)[i]
    BY <1>1, <1>5 DEF ToSet
  <2>2. CASE i \in 1 .. Len(a)
    BY <1>1, <2>1, <2>2 DEF ToSet
  <2>3. CASE i \notin 1 .. Len(a)
    <3>1. x = b[i - Len(a)] /\ i - Len(a) \in 1 .. Len(b)
      BY <1>1, <1>2, <2>1, <2>3
    <3> QED BY <3>1 DEF ToSet
  <2> QED BY <2>2, <2>3
<1>6. ASSUME NEW x \in ToSet(a) \cup ToSet(b) PROVE x \in ToSet(a \o b)
  <2>1. CASE x \in ToSet(a)
    <3>1. PICK i \in 1 .. Len(a) : x = a[i]
      BY <2>1 DEF ToSet
    <3>2. i \in DOMAIN (a \o b) /\ x = (a \o b)[i]
      BY <1>1, <1>4, <3>1
    <3> QED BY <3>2 DEF ToSet
  <2>2. CASE x \in ToSet(b)
    <3>1. PICK i \in 1 .. Len(b) : x = b[i]
      BY <2>2 DEF ToSet
    <3>2. Len(a) + i \in DOMAIN (a \o b) /\ x = (a \o b)[Len(a) + i]
      BY <1>1, <1>3, <3>1
    <3> QED BY <3>2 DEF ToSet
  <2> QED BY <2>1, <2>2
<1> QED BY <1>5, <1>6

(* The elements of the flattened sequence are those of the sequences.      *)
LEMMA FlattenElements ==
  ASSUME NEW T, NEW q \in Seq(Seq(T))
  PROVE  /\ FlattenSeq(q) \in Seq(T)
         /\ ToSet(FlattenSeq(q)) = UNION {ToSet(q[j]) : j \in 1 .. Len(q)}
<1>0. <<>> \in Seq(T) /\ \A a, b \in Seq(T) : a \o b \in Seq(T)
  OBVIOUS
<1>1. FlattenSeq(q) \in Seq(T)
  BY <1>0, FlattenIn
<1>2. CASE q = <<>>
  BY <1>2 DEF FlattenSeq, ToSet
<1>3. CASE q # <<>>
  <2>1. PICK f \in [1 .. Len(q) -> Seq(T)] :
          /\ \A i \in 1 .. Len(q) : f[i] = IF i = 1 THEN q[i] ELSE f[i - 1] \o q[i]
          /\ FlattenSeq(q) = f[Len(q)]
    BY <1>0, <1>3, FlattenIs
  <2>2. \A a, b \in Seq(T) : ToSet(a \o b) = ToSet(a) \cup ToSet(b)
    BY ConcatSet
  <2>3. PICK Good : Good = {n \in Nat : n + 1 <= Len(q) =>
                     ToSet(f[n + 1]) = UNION {ToSet(q[j]) : j \in 1 .. n + 1}}
    OBVIOUS
  <2>4. 0 \in Good
    <3>0. 1 \in 1 .. Len(q)
      BY <1>3
    <3>a. f[1] = q[1]
      BY <2>1, <3>0
    <3>b. 0 + 1 = 1 /\ 1 .. 1 = {1}
      OBVIOUS
    <3>1. f[0 + 1] = q[1] /\ 1 .. 0 + 1 = {1}
      BY <3>a, <3>b
    <3> QED BY <2>3, <3>1
  <2>5. ASSUME NEW n \in Nat, n \in Good PROVE n + 1 \in Good
    <3> SUFFICES ASSUME n + 1 + 1 <= Len(q)
                 PROVE  ToSet(f[n + 1 + 1]) = UNION {ToSet(q[j]) : j \in 1 .. n + 1 + 1}
      BY <2>3
    <3>0. /\ n + 1 + 1 \in 1 .. Len(q) /\ n + 1 \in 1 .. Len(q) /\ n + 1 + 1 # 1
          /\ n + 1 + 1 - 1 = n + 1
      OBVIOUS
    <3>1. \A i \in 1 .. Len(q) : i # 1 => f[i] = f[i - 1] \o q[i]
      BY <2>1
    <3>a. f[n + 1 + 1] = f[n + 1] \o q[n + 1 + 1]
      <4>1. PICK i \in 1 .. Len(q) : i = n + 1 + 1
        BY <3>0
      <4>2. i - 1 = n + 1 /\ i # 1
        BY <4>1
      <4>3. f[i] = f[i - 1] \o q[i]
        BY <3>1, <4>2
      <4> QED BY <4>1, <4>2, <4>3
    <3>b. \A i \in 1 .. Len(q) : q[i] \in Seq(T)
      OBVIOUS
    <3>2. f[n + 1] \in Seq(T) /\ q[n + 1 + 1] \in Seq(T)
      BY <3>0, <3>b
    <3>3. ToSet(f[n + 1 + 1]) = ToSet(f[n + 1]) \cup ToSet(q[n + 1 + 1])
      BY <2>2, <3>0, <3>a, <3>2
    <3>4. ToSet(f[n + 1]) = UNION {ToSet(q[j]) : j \in 1 .. n + 1}
      BY <2>3, <2>5
    <3>5. 1 .. n + 1 + 1 = 1 .. n + 1 \cup {n + 1 + 1}
      OBVIOUS
    <3> QED BY <3>3, <3>4, <3>5
  <2>6. PICK n \in Nat : n + 1 = Len(q)
    <3>1. Len(q) - 1 \in Nat /\ Len(q) - 1 + 1 = Len(q)
      BY <1>3
    <3> QED BY <3>1
  <2>7. n \in Good
    BY <2>4, <2>5, Induction
  <2>8. ToSet(f[n + 1]) = UNION {ToSet(q[j]) : j \in 1 .. n + 1}
    BY <2>3, <2>6, <2>7
  <2> QED BY <1>1, <2>1, <2>6, <2>8
<1> QED BY <1>1, <1>2, <1>3

(***************************************************************************)
(* Total.                                                                  *)
(***************************************************************************)
SumUpto(q, n, f) == \A i \in 0 .. n : f[i] = IF i = 0 THEN 0 ELSE f[i - 1] + q[i]

Sum(q, f) == f = [n \in 0 .. Len(q) |-> IF n = 0 THEN 0 ELSE f[n - 1] + q[n]]

LEMMA SumExists ==
  ASSUME NEW q \in Seq(Nat)
  PROVE  \E f \in [0 .. Len(q) -> Nat] : Sum(q, f)
<1>1. PICK Good : Good = {n \in Nat : n <= Len(q) =>
          \E f \in [0 .. n -> Nat] : SumUpto(q, n, f)}
  OBVIOUS
<1>2. 0 \in Good
  <2>1. PICK f : f = [i \in 0 .. 0 |-> 0]
    OBVIOUS
  <2>2. f \in [0 .. 0 -> Nat] /\ SumUpto(q, 0, f)
    BY <2>1 DEF SumUpto
  <2> QED BY <1>1, <2>2
<1>3. ASSUME NEW n \in Nat, n \in Good
      PROVE  n + 1 \in Good
  <2> SUFFICES ASSUME n + 1 <= Len(q)
               PROVE  \E f \in [0 .. n + 1 -> Nat] : SumUpto(q, n + 1, f)
    BY <1>1
  <2>a. n <= Len(q)
    OBVIOUS
  <2>b. \E f \in [0 .. n -> Nat] : SumUpto(q, n, f)
    BY <1>1, <1>3, <2>a, SMTT(30)
  <2>1. PICK f \in [0 .. n -> Nat] : SumUpto(q, n, f)
    BY <2>b
  <2>2. PICK g : g = [i \in 0 .. n + 1 |-> IF i \in 0 .. n THEN f[i] ELSE f[n] + q[i]]
    OBVIOUS
  <2>3. \A i \in 0 .. n + 1 : i \notin 0 .. n => i - 1 = n /\ i # 0 /\ i \in 1 .. Len(q)
    OBVIOUS
  <2>4. f[n] \in Nat /\ \A i \in 1 .. Len(q) : q[i] \in Nat /\ f[n] + q[i] \in Nat
    OBVIOUS
  <2>5. g \in [0 .. n + 1 -> Nat]
    BY <2>2, <2>3, <2>4
  <2>6. ASSUME NEW i \in 0 .. n + 1 PROVE g[i] = IF i = 0 THEN 0 ELSE g[i - 1] + q[i]
    <3>1. CASE i \in 0 .. n
      <4>1. g[i] = f[i] /\ (i # 0 => i - 1 \in 0 .. n /\ i - 1 \in 0 .. n + 1 /\ g[i - 1] = f[i - 1])
        BY <2>2, <3>1
      <4> QED BY <2>1, <3>1, <4>1 DEF SumUpto
    <3>2. CASE i \notin 0 .. n
      <4>1. i - 1 = n /\ i # 0 /\ n \in 0 .. n + 1 /\ n \in 0 .. n
        BY <2>3, <3>2
      <4>2. g[i] = f[n] + q[i] /\ g[n] = f[n]
        BY <2>2, <3>2, <4>1
      <4> QED BY <4>1, <4>2
    <3> QED BY <3>1, <3>2
  <2>7. SumUpto(q, n + 1, g)
    BY <2>6 DEF SumUpto
  <2> QED BY <2>5, <2>7
<1>4. Len(q) \in Good
  BY <1>2, <1>3, Induction
<1>5. PICK f \in [0 .. Len(q) -> Nat] : SumUpto(q, Len(q), f)
  BY <1>1, <1>4
<1>6. Sum(q, f)
  BY <1>5 DEF Sum, SumUpto
<1> QED BY <1>6

LEMMA SumUnique ==
  ASSUME NEW q, Len(q) \in Nat, NEW f, Sum(q, f), NEW g, Sum(q, g)
  PROVE  f = g
<1>1. PICK Bad : Bad = {i \in 0 .. Len(q) : f[i] # g[i]}
  OBVIOUS
<1>2. Bad = {} => f = g
  <2>1. \A i \in 0 .. Len(q) : Bad = {} => f[i] = g[i]
    BY <1>1
  <2> QED BY <2>1 DEF Sum
<1>3. ASSUME Bad # {} PROVE FALSE
  <2>0. Bad \subseteq Nat
    BY <1>1
  <2>1. PICK i \in Bad : \A j \in Bad : i <= j
    BY <1>3, <2>0, Least
  <2>2. /\ f[i] = (IF i = 0 THEN 0 ELSE f[i - 1] + q[i])
        /\ g[i] = (IF i = 0 THEN 0 ELSE g[i - 1] + q[i])
    BY <1>1, <2>1 DEF Sum
  <2>3. i # 0 => i - 1 \in 0 .. Len(q) /\ i - 1 \notin Bad
    BY <1>1, <2>1
  <2> QED BY <1>1, <2>1, <2>2, <2>3
<1> QED BY <1>2, <1>3

LEMMA TotalIs ==
  ASSUME NEW q \in Seq(Nat)
  PROVE  \E f \in [0 .. Len(q) -> Nat] :
           /\ f[0] = 0 /\ \A i \in 1 .. Len(q) : f[i] = f[i - 1] + q[i]
           /\ Total(q) = f[Len(q)]
<1>1. PICK f \in [0 .. Len(q) -> Nat] : Sum(q, f)
  BY SumExists
<1>2. PICK g : g = CHOOSE h : Sum(q, h)
  OBVIOUS
<1>3. Sum(q, g) /\ Len(q) \in Nat
  BY <1>1, <1>2
<1>4. Total(q) = g[Len(q)]
  BY <1>2 DEF Total, Sum
<1>5. f = g
  BY <1>1, <1>3, SumUnique
<1>6. f[0] = 0 /\ \A i \in 1 .. Len(q) : f[i] = f[i - 1] + q[i]
  <2>1. \A i \in 0 .. Len(q) : f[i] = IF i = 0 THEN 0 ELSE f[i - 1] + q[i]
    BY <1>1 DEF Sum
  <2>2. 0 \in 0 .. Len(q) /\ \A i \in 1 .. Len(q) : i \in 0 .. Len(q) /\ i # 0
    BY <1>3
  <2> QED BY <2>1, <2>2
<1> QED BY <1>1, <1>4, <1>5, <1>6

(* A flattened sequence is as long as its parts together.                  *)
LEMMA FlattenLength ==
  ASSUME NEW T, NEW q \in Seq(Seq(T)),
         NEW counts \in Seq(Nat), Len(counts) = Len(q),
         \A i \in 1 .. Len(q) : counts[i] = Len(q[i])
  PROVE  Len(FlattenSeq(q)) = Total(counts)
<1>0. <<>> \in Seq(T) /\ \A a, b \in Seq(T) : a \o b \in Seq(T) /\ Len(a \o b) = Len(a) + Len(b)
  OBVIOUS
<1>1. PICK h \in [0 .. Len(q) -> Nat] :
        /\ h[0] = 0 /\ \A i \in 1 .. Len(q) : h[i] = h[i - 1] + counts[i]
        /\ Total(counts) = h[Len(q)]
  BY TotalIs
<1>2. CASE q = <<>>
  <2>1. Len(q) = 0 /\ FlattenSeq(q) = <<>> /\ Len(<<>>) = 0
    BY <1>2 DEF FlattenSeq
  <2> QED BY <1>1, <2>1
<1>3. CASE q # <<>>
  <2>1. PICK f \in [1 .. Len(q) -> Seq(T)] :
          /\ \A i \in 1 .. Len(q) : f[i] = IF i = 1 THEN q[i] ELSE f[i - 1] \o q[i]
          /\ FlattenSeq(q) = f[Len(q)]
    BY <1>0, <1>3, FlattenIs
  <2>2. PICK Bad : Bad = {i \in 1 .. Len(q) : Len(f[i]) # h[i]}
    OBVIOUS
  <2>3. ASSUME Bad # {} PROVE FALSE
    <3>0. Bad \subseteq Nat
      BY <2>2
    <3>1. PICK i \in Bad : \A j \in Bad : i <= j
      BY <2>3, <3>0, Least
    <3>2. i \in 1 .. Len(q) /\ q[i] \in Seq(T) /\ Len(f[i]) # h[i]
      BY <2>2, <3>1
    <3>3. h[i] = h[i - 1] + Len(q[i])
      BY <1>1, <3>2
    <3>4. CASE i = 1
      <4>1. f[i] = q[i]
        BY <2>1, <3>2, <3>4
      <4>2. i - 1 = 0 /\ Len(q[i]) \in Nat
        BY <3>2, <3>4
      <4> QED BY <1>1, <3>2, <3>3, <4>1, <4>2
    <3>5. CASE i # 1
      <4>1. i - 1 \in 1 .. Len(q) /\ i - 1 \notin Bad
        BY <3>1, <3>2, <3>5
      <4>2. Len(f[i - 1]) = h[i - 1] /\ f[i - 1] \in Seq(T)
        BY <2>2, <4>1
      <4>3. f[i] = f[i - 1] \o q[i]
        BY <2>1, <3>2, <3>5
      <4>4. Len(f[i]) = Len(f[i - 1]) + Len(q[i])
        BY <1>0, <3>2, <4>2, <4>3
      <4> QED BY <3>2, <3>3, <4>2, <4>4
    <3> QED BY <3>4, <3>5
  <2>4. Len(q) \in 1 .. Len(q)
    BY <1>3
  <2>5. Len(f[Len(q)]) = h[Len(q)]
    BY <2>2, <2>3, <2>4
  <2> QED BY <1>1, <2>1, <2>5
<1> QED BY <1>2, <1>3

(***************************************************************************)
(* Recursion over the Arrays of a Ruby schema.                             *)
(***************************************************************************)
Items(v) == {Ruby[v].items[j] : j \in 1 .. Len(Ruby[v].items)}

LEMMA ItemsFacts ==
  ASSUME NEW v \in Value
  PROVE  /\ Height[v] \in Nat /\ Ruby[v].items \in Seq(Value) /\ Items(v) \subseteq Value
         /\ \A u \in Items(v) : Height[u] < Height[v]
<1>1. Ruby[v] \in RubyType
  BY RubyAssumption
<1>2. Ruby[v].items \in Seq(Value)
  BY <1>1 DEF RubyType
<1> QED BY <1>2, HeightAssumption DEF Items

(* What holds of an Array when it holds of its items, holds of every value.*)
LEMMA ValueInduction ==
  ASSUME NEW S, \A v \in Value : Items(v) \subseteq S => v \in S
  PROVE  \A v \in Value : v \in S
<1>1. ASSUME NEW w \in Value, w \notin S PROVE FALSE
  <2>1. PICK T : T = {Height[v] : v \in Value \ S}
    OBVIOUS
  <2>2. T \subseteq Nat /\ Height[w] \in T
    BY <1>1, <2>1, ItemsFacts
  <2>3. PICK n \in T : \A m \in T : n <= m
    BY <2>2, Least
  <2>4. PICK v \in Value \ S : n = Height[v]
    BY <2>1
  <2>5. \A u \in Items(v) : u \in S
    <3> SUFFICES ASSUME NEW u \in Items(v), u \notin S PROVE FALSE
      OBVIOUS
    <3>1. u \in Value /\ Height[u] < Height[v] /\ Height[u] \in Nat /\ Height[v] \in Nat
      BY ItemsFacts
    <3>2. Height[u] \in T
      BY <2>1, <3>1
    <3> QED BY <2>3, <2>4, <3>1, <3>2
  <2> QED BY <2>4, <2>5
<1> QED BY <1>1

(* B[v][f] is what a definition makes of v, given f for the items of v.    *)
Local(T, B) ==
  \A v \in Value : \A f, g \in [Value -> T] :
    (\A u \in Items(v) : f[u] = g[u]) => B[v][f] = B[v][g]

Solves(B, S, f) == \A v \in S : f[v] = B[v][f]

Low(n) == {v \in Value : Height[v] < n}

LEMMA LevelExists ==
  ASSUME NEW T, T # {}, NEW B \in [Value -> [[Value -> T] -> T]], Local(T, B)
  PROVE  \A n \in Nat : \E f \in [Value -> T] : Solves(B, Low(n), f)
<1>1. PICK Good : Good = {n \in Nat : \E f \in [Value -> T] : Solves(B, Low(n), f)}
  OBVIOUS
<1>2. 0 \in Good
  <2>1. PICK e \in T : TRUE
    OBVIOUS
  <2>2. PICK f : f = [v \in Value |-> e]
    OBVIOUS
  <2>3. Low(0) = {}
    BY ItemsFacts DEF Low
  <2>4. f \in [Value -> T] /\ Solves(B, Low(0), f)
    BY <2>2, <2>3 DEF Solves
  <2> QED BY <1>1, <2>4
<1>3. ASSUME NEW n \in Nat, n \in Good PROVE n + 1 \in Good
  <2>1. PICK f \in [Value -> T] : Solves(B, Low(n), f)
    BY <1>1, <1>3
  <2>2. PICK g : g = [v \in Value |-> B[v][f]]
    OBVIOUS
  <2>3. g \in [Value -> T]
    BY <2>2
  <2>4. ASSUME NEW v \in Low(n + 1) PROVE g[v] = B[v][g]
    <3>1. v \in Value /\ Height[v] < n + 1
      BY DEF Low
    <3>2. \A u \in Items(v) : f[u] = g[u]
      <4> SUFFICES ASSUME NEW u \in Items(v) PROVE f[u] = g[u]
        OBVIOUS
      <4>1. u \in Value /\ Height[u] < n
        BY <3>1, ItemsFacts
      <4>2. f[u] = B[u][f]
        BY <2>1, <4>1 DEF Solves, Low
      <4> QED BY <2>2, <4>1, <4>2
    <3>3. B[v][f] = B[v][g]
      BY <2>3, <3>1, <3>2 DEF Local
    <3> QED BY <2>2, <3>1, <3>3
  <2> QED BY <1>1, <2>3, <2>4 DEF Solves
<1>4. \A n \in Nat : n \in Good
  BY <1>2, <1>3, Induction
<1> QED BY <1>1, <1>4

LEMMA LevelUnique ==
  ASSUME NEW T, NEW B, Local(T, B), NEW n \in Nat,
         NEW f \in [Value -> T], Solves(B, Low(n), f),
         NEW g \in [Value -> T], Solves(B, Low(n), g)
  PROVE  \A v \in Low(n) : f[v] = g[v]
<1>1. PICK S : S = {v \in Value : v \in Low(n) => f[v] = g[v]}
  OBVIOUS
<1>2. ASSUME NEW v \in Value, Items(v) \subseteq S PROVE v \in S
  <2> SUFFICES ASSUME v \in Low(n) PROVE f[v] = g[v]
    BY <1>1
  <2>1. \A u \in Items(v) : u \in Low(n)
    <3> SUFFICES ASSUME NEW u \in Items(v) PROVE u \in Low(n)
      OBVIOUS
    <3>1. u \in Value /\ Height[u] < Height[v] /\ Height[u] \in Nat /\ Height[v] \in Nat
      BY ItemsFacts
    <3>2. Height[v] < n
      BY DEF Low
    <3> QED BY <3>1, <3>2 DEF Low
  <2>2. \A u \in Items(v) : f[u] = g[u]
    BY <1>1, <1>2, <2>1
  <2>3. B[v][f] = B[v][g]
    BY <2>2 DEF Local
  <2> QED BY <2>3 DEF Solves
<1>3. \A v \in Value : v \in S
  BY <1>2, ValueInduction
<1> QED BY <1>1, <1>3 DEF Low

(* A definition by recursion over the Arrays has a solution.               *)
LEMMA Recursion ==
  ASSUME NEW T, T # {}, NEW B \in [Value -> [[Value -> T] -> T]], Local(T, B)
  PROVE  \E f \in [Value -> T] : Solves(B, Value, f)
<1>1. PICK at : at = [n \in Nat |-> CHOOSE f : f \in [Value -> T] /\ Solves(B, Low(n), f)]
  OBVIOUS
<1>2. \A n \in Nat : at[n] \in [Value -> T] /\ Solves(B, Low(n), at[n])
  BY <1>1, LevelExists
<1>3. PICK F : F = [v \in Value |-> at[Height[v] + 1][v]]
  OBVIOUS
<1>4. F \in [Value -> T]
  <2> SUFFICES ASSUME NEW v \in Value PROVE at[Height[v] + 1][v] \in T
    BY <1>3
  <2>1. Height[v] + 1 \in Nat
    BY ItemsFacts
  <2> QED BY <1>2, <2>1
<1>5. ASSUME NEW v \in Value PROVE F[v] = B[v][F]
  <2>1. PICK n \in Nat : n = Height[v]
    BY ItemsFacts
  <2>2. PICK f \in [Value -> T] : f = at[n + 1] /\ Solves(B, Low(n + 1), f)
    <3>1. n + 1 \in Nat
      OBVIOUS
    <3> QED BY <1>2, <3>1
  <2>3. F[v] = f[v] /\ v \in Low(n + 1)
    BY <1>3, <2>1, <2>2 DEF Low
  <2>4. \A u \in Items(v) : F[u] = f[u]
    <3> SUFFICES ASSUME NEW u \in Items(v) PROVE F[u] = f[u]
      OBVIOUS
    <3>1. PICK m \in Nat : m = Height[u]
      BY ItemsFacts
    <3>2. u \in Value /\ m < n
      BY <2>1, <3>1, ItemsFacts
    <3>3. PICK g \in [Value -> T] : g = at[m + 1] /\ Solves(B, Low(m + 1), g)
      <4>1. m + 1 \in Nat
        OBVIOUS
      <4> QED BY <1>2, <4>1
    <3>4. \A w \in Low(m + 1) : w \in Low(n + 1)
      <4> SUFFICES ASSUME NEW w \in Value, Height[w] < m + 1 PROVE Height[w] < n + 1
        BY DEF Low
      <4>1. Height[w] \in Nat
        BY ItemsFacts
      <4> QED BY <3>2, <4>1
    <3>5. Solves(B, Low(m + 1), f)
      BY <2>2, <3>4 DEF Solves
    <3>6. F[u] = g[u] /\ u \in Low(m + 1)
      BY <1>3, <3>1, <3>2, <3>3 DEF Low
    <3>7. m + 1 \in Nat
      OBVIOUS
    <3> QED BY <3>3, <3>5, <3>6, <3>7, LevelUnique
  <2>5. B[v][F] = B[v][f]
    BY <1>4, <2>4 DEF Local
  <2> QED BY <2>2, <2>3, <2>5 DEF Solves
<1>6. Solves(B, Value, F)
  BY <1>5 DEF Solves
<1> QED BY <1>4, <1>6

(***************************************************************************)
(* Keys and paths.                                                         *)
(***************************************************************************)
LEMMA KeywordNames ==
  /\ \A k \in SingleKeyword \cup ListKeyword : k \in Name
  /\ \A j \in DOMAIN Digits : Digits[j] \in Name
  /\ Name \subseteq STRING
<1>1. SingleKeyword \cup ListKeyword \subseteq STRING
  BY LiteralsAssumption DEF Literals
<1> QED BY <1>1, PiecesAssumption, DigitsAssumption DEF Name

LEMMA NamesAreStrings ==
  \A keys \in Seq(Name) : keys \in Seq(STRING)
<1> SUFFICES ASSUME NEW keys \in Seq(Name) PROVE keys \in Seq(STRING)
  OBVIOUS
<1>1. \A j \in 1 .. Len(keys) : keys[j] \in Name
  OBVIOUS
<1>2. \A j \in 1 .. Len(keys) : keys[j] \in STRING
  BY <1>1 DEF Name
<1> QED BY <1>2

LEMMA CutTyped ==
  ASSUME NEW keys \in Seq(Name)
  PROVE  Cut(keys) \in Seq(STRING)
<1>1. PICK q : q = [j \in 1 .. Len(keys) |-> Pieces[keys[j]]]
  OBVIOUS
<1>2. q \in Seq(Seq(STRING))
  <2>1. \A j \in 1 .. Len(keys) : Pieces[keys[j]] \in Seq(STRING)
    BY TextAssumption DEF Name
  <2> QED BY <1>1, <2>1
<1> QED BY <1>1, <1>2, FlattenElements DEF Cut

LEMMA MembersFacts ==
  ASSUME NEW v \in Value
  PROVE  /\ Ruby[v].members \in Seq([key : STRING, val : Value])
         /\ Ruby[v].items \in Seq(Value) /\ Ruby[v].uri \in UriType /\ Ruby[v].text \in STRING
         /\ \A k : Keyed(v, k) => Lookup(v, k) \in Value
<1>1. Ruby[v] \in RubyType
  BY RubyAssumption
<1>2. /\ Ruby[v].members \in Seq([key : STRING, val : Value])
      /\ Ruby[v].items \in Seq(Value) /\ Ruby[v].uri \in UriType /\ Ruby[v].text \in STRING
  BY <1>1 DEF RubyType
<1>3. ASSUME NEW k, Keyed(v, k) PROVE Lookup(v, k) \in Value
  <2>1. PICK j : /\ j \in 1 .. Len(Ruby[v].members) /\ Ruby[v].members[j].key = k
                 /\ Lookup(v, k) = Ruby[v].members[j].val
    BY <1>3 DEF Keyed, Lookup
  <2>2. PICK M : M = [key : STRING, val : Value]
    OBVIOUS
  <2>3. PICK q \in Seq(M) : q = Ruby[v].members
    BY <1>2, <2>2
  <2>4. q[j] \in M
    BY <2>1, <2>3
  <2> QED BY <2>1, <2>2, <2>3, <2>4
<1> QED BY <1>2, <1>3

(***************************************************************************)
(* Schemas in nested Arrays: one slot is counted for each that is compiled.*)
(***************************************************************************)
Entry == [keys : Seq(Name), val : Value]

Prefixed(keys, entry) == [entry EXCEPT !.keys = keys \o @]
Below(keys, found) == [n \in 1 .. Len(found) |-> Prefixed(keys, found[n])]

LEMMA BelowFacts ==
  ASSUME NEW keys \in Seq(Name), NEW found \in Seq(Entry)
  PROVE  Below(keys, found) \in Seq(Entry) /\ Len(Below(keys, found)) = Len(found)
<1>1. ASSUME NEW n \in 1 .. Len(found)
      PROVE  Prefixed(keys, found[n]) \in Entry
  <2>1. found[n] \in Entry
    OBVIOUS
  <2>2. keys \o found[n].keys \in Seq(Name)
    BY <2>1 DEF Entry
  <2> QED BY <2>1, <2>2 DEF Entry, Prefixed
<1>2. PICK g : g = [n \in 1 .. Len(found) |-> Prefixed(keys, found[n])]
  OBVIOUS
<1>3. g \in [1 .. Len(found) -> Entry] /\ Len(found) \in Nat
  BY <1>1, <1>2
<1>4. g \in Seq(Entry) /\ Len(g) = Len(found)
  BY <1>3
<1> QED BY <1>2, <1>4 DEF Below

LEMMA DigitNames ==
  ASSUME NEW v \in Value, NEW j \in 1 .. Len(Ruby[v].items)
  PROVE  Digit(j) \in Seq(Name) /\ Digit(j) # <<>>
<1>1. j \in DOMAIN Digits
  BY DigitsAssumption, MembersFacts
<1> QED BY <1>1, KeywordNames DEF Digit

EntriesIn(v, f) ==
  IF Shape(v) \in SchemaShape THEN << [keys |-> <<>>, val |-> v] >>
  ELSE IF Shape(v) # "array" THEN <<>>
  ELSE FlattenSeq([j \in 1 .. Len(Ruby[v].items) |-> Below(Digit(j), f[Ruby[v].items[j]])])

LEMMA EntriesTyped ==
  ASSUME NEW v \in Value, NEW f, \A u \in Items(v) : f[u] \in Seq(Entry)
  PROVE  EntriesIn(v, f) \in Seq(Entry)
<1>1. << [keys |-> <<>>, val |-> v] >> \in Seq(Entry)
  BY DEF Entry
<1>2. PICK q : q = [j \in 1 .. Len(Ruby[v].items) |-> Below(Digit(j), f[Ruby[v].items[j]])]
  OBVIOUS
<1>3. \A j \in 1 .. Len(Ruby[v].items) : Below(Digit(j), f[Ruby[v].items[j]]) \in Seq(Entry)
  BY BelowFacts, DigitNames DEF Items
<1>4. q \in Seq(Seq(Entry))
  BY <1>2, <1>3, MembersFacts
<1>5. FlattenSeq(q) \in Seq(Entry)
  BY <1>4, FlattenElements
<1> QED BY <1>1, <1>2, <1>5 DEF EntriesIn

LEMMA NestedEntriesIs ==
  NestedEntries = [v \in Value |-> EntriesIn(v, NestedEntries)]
<1>1. PICK T : T = Seq(Entry)
  OBVIOUS
<1>2. <<>> \in T
  BY <1>1
<1>3. PICK B : B = [v \in Value |-> [f \in [Value -> T] |-> EntriesIn(v, f)]]
  OBVIOUS
<1>4. B \in [Value -> [[Value -> T] -> T]]
  <2> SUFFICES ASSUME NEW v \in Value, NEW f \in [Value -> T] PROVE EntriesIn(v, f) \in T
    BY <1>3
  <2>1. \A u \in Items(v) : f[u] \in T
    BY ItemsFacts
  <2> QED BY <1>1, <2>1, EntriesTyped
<1>5. Local(T, B)
  <2> SUFFICES ASSUME NEW v \in Value, NEW f \in [Value -> T], NEW g \in [Value -> T],
                      \A u \in Items(v) : f[u] = g[u]
               PROVE  EntriesIn(v, f) = EntriesIn(v, g)
    BY <1>3 DEF Local
  <2>1. \A j \in 1 .. Len(Ruby[v].items) : f[Ruby[v].items[j]] = g[Ruby[v].items[j]]
    BY DEF Items
  <2>2. [j \in 1 .. Len(Ruby[v].items) |-> Below(Digit(j), f[Ruby[v].items[j]])]
          = [j \in 1 .. Len(Ruby[v].items) |-> Below(Digit(j), g[Ruby[v].items[j]])]
    BY <2>1
  <2> QED BY <2>2 DEF EntriesIn
<1>6. PICK F \in [Value -> T] : Solves(B, Value, F)
  <2>1. T # {}
    BY <1>2
  <2> QED BY <1>4, <1>5, <2>1, Recursion
<1>7. F = [v \in Value |-> EntriesIn(v, F)]
  BY <1>3, <1>6 DEF Solves
<1>8. PICK g : g = CHOOSE f : f = [v \in Value |-> EntriesIn(v, f)]
  OBVIOUS
<1>9. g = [v \in Value |-> EntriesIn(v, g)]
  BY <1>7, <1>8
<1>10. NestedEntries = g
  BY <1>8 DEF NestedEntries, EntriesIn, Below, Prefixed
<1> QED BY <1>9, <1>10

LEMMA NestedEntriesTyped ==
  \A v \in Value : NestedEntries[v] \in Seq(Entry)
<1>1. PICK S : S = {v \in Value : NestedEntries[v] \in Seq(Entry)}
  OBVIOUS
<1>2. ASSUME NEW v \in Value, Items(v) \subseteq S PROVE v \in S
  <2>1. \A u \in Items(v) : NestedEntries[u] \in Seq(Entry)
    BY <1>1, <1>2
  <2>2. EntriesIn(v, NestedEntries) \in Seq(Entry)
    BY <2>1, EntriesTyped
  <2>3. NestedEntries[v] = EntriesIn(v, NestedEntries)
    BY NestedEntriesIs
  <2> QED BY <1>1, <2>2, <2>3
<1>3. \A v \in Value : v \in S
  BY <1>2, ValueInduction
<1> QED BY <1>1, <1>3

CountIn(v, f) ==
  IF Shape(v) \in SchemaShape THEN 1
  ELSE IF Shape(v) # "array" THEN 0
  ELSE Total([j \in 1 .. Len(Ruby[v].items) |-> f[Ruby[v].items[j]]])

LEMMA TotalTyped ==
  ASSUME NEW q \in Seq(Nat)
  PROVE  Total(q) \in Nat
<1>1. PICK f \in [0 .. Len(q) -> Nat] : Total(q) = f[Len(q)]
  BY TotalIs
<1>2. Len(q) \in 0 .. Len(q)
  OBVIOUS
<1> QED BY <1>1, <1>2

LEMMA CountTyped ==
  ASSUME NEW v \in Value, NEW f, \A u \in Items(v) : f[u] \in Nat
  PROVE  /\ [j \in 1 .. Len(Ruby[v].items) |-> f[Ruby[v].items[j]]] \in Seq(Nat)
         /\ CountIn(v, f) \in Nat
<1>1. PICK q : q = [j \in 1 .. Len(Ruby[v].items) |-> f[Ruby[v].items[j]]]
  OBVIOUS
<1>2. \A j \in 1 .. Len(Ruby[v].items) : f[Ruby[v].items[j]] \in Nat
  BY DEF Items
<1>3. q \in Seq(Nat)
  BY <1>1, <1>2, MembersFacts
<1>4. Total(q) \in Nat
  BY <1>3, TotalTyped
<1> QED BY <1>1, <1>3, <1>4 DEF CountIn

LEMMA CountNestedIs ==
  CountNested = [v \in Value |-> CountIn(v, CountNested)]
<1>1. PICK T : T = Nat
  OBVIOUS
<1>2. T # {}
  BY <1>1
<1>3. PICK B : B = [v \in Value |-> [f \in [Value -> T] |-> CountIn(v, f)]]
  OBVIOUS
<1>4. B \in [Value -> [[Value -> T] -> T]]
  <2> SUFFICES ASSUME NEW v \in Value, NEW f \in [Value -> T] PROVE CountIn(v, f) \in T
    BY <1>3
  <2>1. \A u \in Items(v) : f[u] \in T
    BY ItemsFacts
  <2> QED BY <1>1, <2>1, CountTyped
<1>5. Local(T, B)
  <2> SUFFICES ASSUME NEW v \in Value, NEW f \in [Value -> T], NEW g \in [Value -> T],
                      \A u \in Items(v) : f[u] = g[u]
               PROVE  CountIn(v, f) = CountIn(v, g)
    BY <1>3 DEF Local
  <2>1. \A j \in 1 .. Len(Ruby[v].items) : f[Ruby[v].items[j]] = g[Ruby[v].items[j]]
    BY DEF Items
  <2>2. [j \in 1 .. Len(Ruby[v].items) |-> f[Ruby[v].items[j]]]
          = [j \in 1 .. Len(Ruby[v].items) |-> g[Ruby[v].items[j]]]
    BY <2>1
  <2> QED BY <2>2 DEF CountIn
<1>6. PICK F \in [Value -> T] : Solves(B, Value, F)
  BY <1>2, <1>4, <1>5, Recursion
<1>7. F = [v \in Value |-> CountIn(v, F)]
  BY <1>3, <1>6 DEF Solves
<1>8. PICK g : g = CHOOSE f : f = [v \in Value |-> CountIn(v, f)]
  OBVIOUS
<1>9. g = [v \in Value |-> CountIn(v, g)]
  BY <1>7, <1>8
<1>10. CountNested = g
  BY <1>8 DEF CountNested, CountIn
<1> QED BY <1>9, <1>10

(* The traversal that counts the schemas under an unknown keyword and the  *)
(* one that lists them agree, however deep the Arrays are nested.          *)
LEMMA CountAgrees ==
  \A v \in Value : CountNested[v] = Len(NestedEntries[v])
<1>1. PICK S : S = {v \in Value : CountNested[v] = Len(NestedEntries[v])}
  OBVIOUS
<1>2. ASSUME NEW v \in Value, Items(v) \subseteq S PROVE v \in S
  <2>0. /\ CountNested[v] = CountIn(v, CountNested)
        /\ NestedEntries[v] = EntriesIn(v, NestedEntries)
    BY CountNestedIs, NestedEntriesIs
  <2>1. CASE Shape(v) \in SchemaShape
    <3>1. Len(<< [keys |-> <<>>, val |-> v] >>) = 1
      OBVIOUS
    <3> QED BY <1>1, <2>0, <2>1, <3>1 DEF CountIn, EntriesIn
  <2>2. CASE Shape(v) \notin SchemaShape /\ Shape(v) # "array"
    <3>1. Len(<<>>) = 0
      OBVIOUS
    <3> QED BY <1>1, <2>0, <2>2, <3>1 DEF CountIn, EntriesIn
  <2>3. CASE Shape(v) \notin SchemaShape /\ Shape(v) = "array"
    <3>1. PICK n \in Nat : n = Len(Ruby[v].items)
      BY MembersFacts
    <3>2. PICK counts : counts = [j \in 1 .. n |-> CountNested[Ruby[v].items[j]]]
      OBVIOUS
    <3>3. PICK q : q = [j \in 1 .. n |-> Below(Digit(j), NestedEntries[Ruby[v].items[j]])]
      OBVIOUS
    <3>4. \A j \in 1 .. n : Ruby[v].items[j] \in Value /\ Ruby[v].items[j] \in S
      BY <1>2, <3>1, ItemsFacts DEF Items
    <3>5. ASSUME NEW j \in 1 .. n
          PROVE  q[j] \in Seq(Entry) /\ Len(q[j]) = counts[j] /\ counts[j] \in Nat
      <4>1. NestedEntries[Ruby[v].items[j]] \in Seq(Entry)
        BY <3>4, NestedEntriesTyped
      <4>2. Len(NestedEntries[Ruby[v].items[j]]) \in Nat
        BY <4>1
      <4>3. counts[j] = Len(NestedEntries[Ruby[v].items[j]])
        BY <1>1, <3>2, <3>4
      <4>4. Digit(j) \in Seq(Name)
        BY <3>1, DigitNames
      <4>5. q[j] = Below(Digit(j), NestedEntries[Ruby[v].items[j]])
        BY <3>3
      <4> QED BY <4>1, <4>2, <4>3, <4>4, <4>5, BelowFacts
    <3>6. q \in Seq(Seq(Entry)) /\ counts \in Seq(Nat) /\ Len(q) = n /\ Len(counts) = n
      <4>1. q \in [1 .. n -> Seq(Entry)] /\ counts \in [1 .. n -> Nat]
        BY <3>2, <3>3, <3>5
      <4> QED BY <4>1
    <3>7. Len(FlattenSeq(q)) = Total(counts)
      BY <3>5, <3>6, FlattenLength
    <3>8. CountNested[v] = Total(counts) /\ NestedEntries[v] = FlattenSeq(q)
      BY <2>0, <2>3, <3>1, <3>2, <3>3 DEF CountIn, EntriesIn
    <3> QED BY <1>1, <3>7, <3>8
  <2> QED BY <2>1, <2>2, <2>3
<1>3. \A v \in Value : v \in S
  BY <1>2, ValueInduction
<1> QED BY <1>1, <1>3

(***************************************************************************)
(* The jobs under unknown keywords.                                        *)
(***************************************************************************)
NestedJob == {job \in JobType : WellMade(job) /\ job.do = "nested"}

NestedOf(m) ==
  [n \in 1 .. Len(NestedEntries[m.val]) |->
     Job("nested", m.key, <<m.key>> \o NestedEntries[m.val][n].keys, NestedEntries[m.val][n].val)]

NestedUnder(m) == IF ~Unknown(m) THEN <<>> ELSE NestedOf(m)
CountUnder(m) == IF Unknown(m) THEN CountNested[m.val] ELSE 0

Member == [key : STRING, val : Value]

LEMMA NestedUnderFacts ==
  ASSUME NEW m \in Member
  PROVE  /\ NestedUnder(m) \in Seq(NestedJob)
         /\ CountUnder(m) \in Nat
         /\ CountUnder(m) = Len(NestedUnder(m))
<1>1. PICK found \in Seq(Entry) : found = NestedEntries[m.val]
  BY NestedEntriesTyped DEF Member
<1>2. CountNested[m.val] = Len(found)
  BY <1>1, CountAgrees DEF Member
<1>3. CASE ~Unknown(m)
  <2>1. <<>> \in Seq(NestedJob) /\ Len(<<>>) = 0
    OBVIOUS
  <2> QED BY <1>3, <2>1 DEF NestedUnder, CountUnder
<1>4. CASE Unknown(m)
  <2>1. m.key \in Name /\ m.key \in STRING
    BY <1>4 DEF Unknown, IsString, Name, Member
  <2>2. ASSUME NEW n \in 1 .. Len(found)
        PROVE  Job("nested", m.key, <<m.key>> \o found[n].keys, found[n].val) \in NestedJob
    <3>1. found[n] \in Entry
      OBVIOUS
    <3>a. PICK k \in Name, ks \in Seq(Name) : k = m.key /\ ks = found[n].keys
      BY <2>1, <3>1 DEF Entry
    <3>2. PICK keys \in Seq(Name) : keys = <<k>> \o ks
      <4>1. <<k>> \in Seq(Name)
        OBVIOUS
      <4>2. <<k>> \o ks \in Seq(Name)
        BY <4>1
      <4> QED BY <4>2
    <3>3. keys # <<>> /\ keys = <<m.key>> \o found[n].keys
      BY <3>a, <3>2
    <3>4. keys \in Seq(STRING) /\ found[n].val \in Value
      BY <3>1, NamesAreStrings DEF Entry
    <3> QED BY <2>1, <3>2, <3>3, <3>4 DEF NestedJob, Job, JobType, WellMade
  <2>3. PICK q : q = NestedOf(m)
    OBVIOUS
  <2>4. q \in [1 .. Len(found) -> NestedJob]
    BY <1>1, <2>2, <2>3 DEF NestedOf
  <2>5. q \in Seq(NestedJob) /\ Len(q) = Len(found) /\ Len(found) \in Nat
    BY <2>4
  <2> QED BY <1>2, <1>1, <1>4, <2>3, <2>5 DEF NestedUnder, CountUnder
<1> QED BY <1>3, <1>4

LEMMA NestedJobsFacts ==
  ASSUME NEW v \in Value
  PROVE  NestedJobs(v) \in Seq(NestedJob) /\ Len(NestedJobs(v)) = NestedTotal(v)
<1>1. PICK members \in Seq(Member) : members = Ruby[v].members
  BY MembersFacts DEF Member
<1>2. PICK q : q = [j \in 1 .. Len(members) |-> NestedUnder(members[j])]
  OBVIOUS
<1>3. PICK counts : counts = [j \in 1 .. Len(members) |-> CountUnder(members[j])]
  OBVIOUS
<1>4. \A j \in 1 .. Len(members) : members[j] \in Member
  OBVIOUS
<1>5. PICK n \in Nat : n = Len(members)
  OBVIOUS
<1>6. q \in [1 .. n -> Seq(NestedJob)] /\ counts \in [1 .. n -> Nat]
  BY <1>2, <1>3, <1>4, <1>5, NestedUnderFacts
<1>7. q \in Seq(Seq(NestedJob)) /\ counts \in Seq(Nat) /\ Len(q) = n /\ Len(counts) = n
  BY <1>6
<1>8. \A j \in 1 .. Len(q) : counts[j] = Len(q[j])
  BY <1>2, <1>3, <1>4, <1>5, <1>7, NestedUnderFacts
<1>9. FlattenSeq(q) \in Seq(NestedJob) /\ Len(FlattenSeq(q)) = Total(counts)
  BY <1>7, <1>8, FlattenElements, FlattenLength
<1>10. NestedJobs(v) = FlattenSeq(q)
  BY <1>1, <1>2 DEF NestedJobs, NestedUnder, NestedOf
<1>11. NestedTotal(v) = Total(counts)
  BY <1>1, <1>3 DEF NestedTotal, CountUnder
<1> QED BY <1>9, <1>10, <1>11

(* compile_nested_schemas appends a schema for every slot it allocated:    *)
(* the traversal that counts and the one that compiles agree on every Ruby *)
(* schema.                                                                 *)
THEOREM SlotsCounted ==
  \A v \in Value : Len(NestedJobs(v)) = NestedTotal(v)
BY NestedJobsFacts

(***************************************************************************)
(* The jobs of a Hash.                                                     *)
(***************************************************************************)
(* A part of the jobs that is complete, and assigns the fields in tags.    *)
Begins(q) == \A i \in 1 .. Len(q) : i = 1 => q[i].do # "keep"
Assigns(q, tags) ==
  \A i \in 1 .. Len(q) :
    /\ q[i].do \in {"single", "element", "keep", "store"}
    /\ q[i].do \in {"single", "store"} => <<q[i].do, q[i].kw>> \in tags

Chunk(q, tags) == Shaped(q) /\ Begins(q) /\ Assigns(q, tags)

LEMMA OneIn ==
  ASSUME NEW T, NEW x \in T
  PROVE  <<x>> \in Seq(T) /\ <<x>> # <<>> /\ Len(<<x>>) = 1 /\ <<x>>[1] = x
OBVIOUS

LEMMA TwoIn ==
  ASSUME NEW T, NEW x \in T, NEW y \in T
  PROVE  /\ <<x, y>> \in Seq(T) /\ <<x, y>> # <<>> /\ Len(<<x, y>>) = 2
         /\ <<x, y>>[1] = x /\ <<x, y>>[2] = y
OBVIOUS

LEMMA JoinIndex ==
  ASSUME NEW T, NEW a \in Seq(T), NEW b \in Seq(T)
  PROVE  /\ a \o b \in Seq(T)
         /\ Len(a) \in Nat /\ Len(b) \in Nat /\ Len(a \o b) = Len(a) + Len(b)
         /\ \A i \in 1 .. Len(a) : (a \o b)[i] = a[i]
         /\ \A i \in 1 .. Len(a \o b) : i \notin 1 .. Len(a) =>
              i - Len(a) \in 1 .. Len(b) /\ (a \o b)[i] = b[i - Len(a)]
OBVIOUS

(* A sequence that goes on after another one.                              *)
LEMMA PairedJoin ==
  ASSUME NEW a \in Seq(JobType), Paired(a),
         NEW b \in Seq(JobType), Paired(b), Begins(b)
  PROVE  Paired(a \o b)
<1>1. PICK q \in Seq(JobType) : q = a \o b
  BY JoinIndex
<1>a. PICK T : T = JobType
  OBVIOUS
<1>b. a \in Seq(T) /\ b \in Seq(T)
  BY <1>a
<1>c. PICK m \in Nat, n \in Nat : m = Len(a) /\ n = Len(b)
  BY <1>b, JoinIndex
<1>2. /\ m = Len(a) /\ n = Len(b) /\ Len(q) = m + n
      /\ \A i \in 1 .. m : q[i] = a[i]
      /\ \A i \in 1 .. m + n : i \notin 1 .. m => i - m \in 1 .. n /\ q[i] = b[i - m]
  BY <1>1, <1>b, <1>c, JoinIndex
<1>3. ASSUME NEW i \in 1 .. m + n
      PROVE  /\ q[i].do = "element" => i < m + n /\ q[i + 1].do = "keep"
             /\ q[i].do = "keep" => i < m + n /\ q[i + 1].do \in {"element", "store"}
             /\ i < m + n /\ q[i + 1].do = "keep" => q[i].do = "element"
  <2>1. CASE i < m
    <3>1. q[i] = a[i] /\ q[i + 1] = a[i + 1] /\ i \in 1 .. m /\ i < m + n
      BY <1>2, <2>1
    <3> QED BY <1>2, <2>1, <3>1 DEF Paired
  <2>2. CASE i = m
    <3>1. q[i] = a[i] /\ i \in 1 .. m
      BY <1>2, <2>2
    <3>2. q[i].do # "element" /\ q[i].do # "keep"
      BY <1>2, <2>2, <3>1 DEF Paired
    <3>3. ASSUME i < m + n PROVE q[i + 1].do # "keep"
      <4>1. i + 1 \in 1 .. m + n /\ i + 1 \notin 1 .. m /\ i + 1 - m = 1 /\ 1 \in 1 .. n
        BY <2>2, <3>3
      <4>2. q[i + 1] = b[1]
        BY <1>2, <4>1
      <4> QED BY <1>2, <4>1, <4>2 DEF Begins
    <3> QED BY <3>2, <3>3
  <2>3. CASE i > m
    <3>0. i \notin 1 .. m
      BY <2>3
    <3>a. i - m \in 1 .. n /\ q[i] = b[i - m] /\ (i < m + n => i - m < n)
      BY <1>2, <3>0
    <3>1. PICK j \in 1 .. n : j = i - m /\ q[i] = b[j] /\ (i < m + n => j < n)
      BY <3>a
    <3>2. j < n => i < m + n /\ q[i + 1] = b[j + 1]
      <4> SUFFICES ASSUME j < n PROVE i < m + n /\ q[i + 1] = b[j + 1]
        OBVIOUS
      <4>1. i + 1 \in 1 .. m + n /\ i + 1 \notin 1 .. m /\ i + 1 - m = j + 1
        BY <2>3, <3>1
      <4> QED BY <1>2, <4>1
    <3>3. /\ b[j].do = "element" => j < n /\ b[j + 1].do = "keep"
          /\ b[j].do = "keep" => j < n /\ b[j + 1].do \in {"element", "store"}
          /\ j < n /\ b[j + 1].do = "keep" => b[j].do = "element"
      BY <1>2 DEF Paired
    <3> QED BY <3>1, <3>2, <3>3
  <2> QED BY <1>2, <2>1, <2>2, <2>3
<1> QED BY <1>1, <1>2, <1>3 DEF Paired

Apart(a, b) ==
  \A i \in 1 .. Len(a), j \in 1 .. Len(b) :
    a[i].do = b[j].do /\ a[i].do \in {"single", "store"} => a[i].kw # b[j].kw

LEMMA ShapedJoin ==
  ASSUME NEW a, Shaped(a), NEW b, Shaped(b), Begins(b), Apart(a, b)
  PROVE  Shaped(a \o b) /\ (Begins(a) => Begins(a \o b))
<1>0. a \in Seq(JobType) /\ b \in Seq(JobType) /\ Paired(a) /\ Paired(b)
  BY DEF Shaped
<1>1. PICK q \in Seq(JobType) : q = a \o b
  BY <1>0, JoinIndex
<1>2. PICK m \in Nat, n \in Nat :
        /\ m = Len(a) /\ n = Len(b) /\ Len(q) = m + n
        /\ \A i \in 1 .. m : q[i] = a[i]
        /\ \A i \in 1 .. m + n : i \notin 1 .. m => i - m \in 1 .. n /\ q[i] = b[i - m]
  <2>1. /\ Len(a) \in Nat /\ Len(b) \in Nat /\ Len(q) = Len(a) + Len(b)
        /\ \A i \in 1 .. Len(a) : q[i] = a[i]
        /\ \A i \in 1 .. Len(q) : i \notin 1 .. Len(a) =>
             i - Len(a) \in 1 .. Len(b) /\ q[i] = b[i - Len(a)]
    BY <1>0, <1>1, JoinIndex
  <2> QED BY <2>1
<1>3. Paired(q)
  BY <1>0, <1>1, PairedJoin
<1>4. \A i \in 1 .. Len(q) : WellMade(q[i])
  BY <1>2 DEF Shaped
<1>5. ASSUME NEW i \in 1 .. m + n, NEW j \in 1 .. m + n,
             i < j, q[i].do = q[j].do, q[i].do \in {"single", "store"}
      PROVE  q[i].kw # q[j].kw
  <2>1. CASE j \in 1 .. m
    <3>1. i \in 1 .. m /\ q[i] = a[i] /\ q[j] = a[j]
      BY <1>2, <1>5, <2>1
    <3> QED BY <1>2, <1>5, <2>1, <3>1 DEF Shaped, Once
  <2>2. CASE j \notin 1 .. m /\ i \in 1 .. m
    <3>1. j - m \in 1 .. n /\ q[i] = a[i] /\ q[j] = b[j - m]
      BY <1>2, <2>2
    <3> QED BY <1>2, <1>5, <2>2, <3>1 DEF Apart
  <2>3. CASE j \notin 1 .. m /\ i \notin 1 .. m
    <3>1. PICK k \in 1 .. n, l \in 1 .. n :
            k = i - m /\ l = j - m /\ q[i] = b[k] /\ q[j] = b[l]
      BY <1>2, <2>3
    <3>2. k < l /\ Once(b) /\ b[k].do = b[l].do /\ b[k].do \in {"single", "store"}
      BY <1>5, <3>1 DEF Shaped
    <3>3. b[k].kw # b[l].kw
      BY <1>2, <3>2 DEF Once
    <3> QED BY <3>1, <3>3
  <2> QED BY <2>1, <2>2, <2>3
<1>6. Once(q)
  BY <1>2, <1>5 DEF Once
<1>7. Shaped(q)
  BY <1>3, <1>4, <1>6 DEF Shaped
<1>8. ASSUME Begins(a) PROVE Begins(q)
  <2> SUFFICES ASSUME 1 \in 1 .. m + n PROVE q[1].do # "keep"
    BY <1>2 DEF Begins
  <2>1. CASE 1 \in 1 .. m
    BY <1>2, <1>8, <2>1 DEF Begins
  <2>2. CASE 1 \notin 1 .. m
    <3>1. 1 - m \in 1 .. n /\ q[1] = b[1 - m] /\ m = 0
      BY <1>2, <2>2
    <3> QED BY <1>2, <3>1 DEF Begins
  <2> QED BY <2>1, <2>2
<1> QED BY <1>1, <1>7, <1>8

LEMMA ChunkJoin ==
  ASSUME NEW a, NEW s, Chunk(a, s), NEW b, NEW t, Chunk(b, t), s \cap t = {}
  PROVE  Chunk(a \o b, s \cup t)
<1>0. a \in Seq(JobType) /\ b \in Seq(JobType)
  BY DEF Chunk, Shaped
<1>1. Apart(a, b)
  BY DEF Apart, Chunk, Assigns
<1>2. Shaped(a \o b) /\ Begins(a \o b)
  BY <1>1, ShapedJoin DEF Chunk
<1>3. Assigns(a \o b, s \cup t)
  <2> SUFFICES ASSUME NEW i \in 1 .. Len(a \o b)
               PROVE  /\ (a \o b)[i].do \in {"single", "element", "keep", "store"}
                      /\ (a \o b)[i].do \in {"single", "store"} =>
                           <<(a \o b)[i].do, (a \o b)[i].kw>> \in s \cup t
    BY DEF Assigns
  <2>1. CASE i \in 1 .. Len(a)
    BY <1>0, <2>1, JoinIndex DEF Chunk, Assigns
  <2>2. CASE i \notin 1 .. Len(a)
    <3>1. i - Len(a) \in 1 .. Len(b) /\ (a \o b)[i] = b[i - Len(a)]
      BY <1>0, <2>2, JoinIndex
    <3> QED BY <3>1 DEF Chunk, Assigns
  <2> QED BY <2>1, <2>2
<1> QED BY <1>2, <1>3 DEF Chunk

(* The elements of one collection, each with its keep.                     *)
Elements(q) ==
  /\ Begins(q)
  /\ \A i \in 1 .. Len(q) :
       /\ WellMade(q[i]) /\ q[i].do \in {"element", "keep"}
       /\ q[i].do = "element" => i < Len(q) /\ q[i + 1].do = "keep"
       /\ i < Len(q) /\ q[i + 1].do = "keep" => q[i].do = "element"

LEMMA ElementsJoin ==
  ASSUME NEW a \in Seq(JobType), Elements(a), NEW b \in Seq(JobType), Elements(b)
  PROVE  a \o b \in Seq(JobType) /\ Elements(a \o b)
<1>1. PICK q \in Seq(JobType) : q = a \o b
  BY JoinIndex
<1>2. PICK m \in Nat, n \in Nat :
        /\ m = Len(a) /\ n = Len(b) /\ Len(q) = m + n
        /\ \A i \in 1 .. m : q[i] = a[i]
        /\ \A i \in 1 .. m + n : i \notin 1 .. m => i - m \in 1 .. n /\ q[i] = b[i - m]
  BY <1>1, JoinIndex
<1>3. ASSUME NEW i \in 1 .. m + n
      PROVE  /\ WellMade(q[i]) /\ q[i].do \in {"element", "keep"}
             /\ q[i].do = "element" => i < m + n /\ q[i + 1].do = "keep"
             /\ i < m + n /\ q[i + 1].do = "keep" => q[i].do = "element"
             /\ i = 1 => q[i].do # "keep"
  <2>1. CASE i < m
    <3>1. q[i] = a[i] /\ q[i + 1] = a[i + 1] /\ i \in 1 .. m /\ i < m + n
      BY <1>2, <2>1
    <3> QED BY <1>2, <2>1, <3>1 DEF Elements, Begins
  <2>2. CASE i = m
    <3>1. q[i] = a[i] /\ i \in 1 .. m
      BY <1>2, <2>2
    <3>2. q[i].do # "element"
      BY <1>2, <2>2, <3>1 DEF Elements
    <3>3. ASSUME i < m + n PROVE q[i + 1].do # "keep"
      <4>1. i + 1 \in 1 .. m + n /\ i + 1 \notin 1 .. m /\ i + 1 - m = 1 /\ 1 \in 1 .. n
        BY <2>2, <3>3
      <4>2. q[i + 1] = b[1]
        BY <1>2, <4>1
      <4> QED BY <1>2, <4>1, <4>2 DEF Elements, Begins
    <3> QED BY <1>2, <3>1, <3>2, <3>3 DEF Elements, Begins
  <2>3. CASE i > m
    <3>0. i \notin 1 .. m
      BY <2>3
    <3>a. i - m \in 1 .. n /\ q[i] = b[i - m] /\ (i < m + n => i - m < n)
      BY <1>2, <3>0
    <3>1. PICK j \in 1 .. n : j = i - m /\ q[i] = b[j] /\ (i < m + n => j < n)
      BY <3>a
    <3>2. j < n => i < m + n /\ q[i + 1] = b[j + 1]
      <4> SUFFICES ASSUME j < n PROVE i < m + n /\ q[i + 1] = b[j + 1]
        OBVIOUS
      <4>1. i + 1 \in 1 .. m + n /\ i + 1 \notin 1 .. m /\ i + 1 - m = j + 1
        BY <2>3, <3>1
      <4> QED BY <1>2, <4>1
    <3>3. /\ WellMade(b[j]) /\ b[j].do \in {"element", "keep"}
          /\ b[j].do = "element" => j < n /\ b[j + 1].do = "keep"
          /\ j < n /\ b[j + 1].do = "keep" => b[j].do = "element"
          /\ j = 1 => b[j].do # "keep"
      BY <1>2 DEF Elements, Begins
    <3> QED BY <3>1, <3>2, <3>3
  <2> QED BY <1>2, <2>1, <2>2, <2>3
<1> QED BY <1>1, <1>2, <1>3 DEF Elements, Begins

LEMMA ElementsOfOne ==
  ASSUME NEW k \in ListKeyword, NEW keys \in Seq(Name), keys # <<>>, NEW v \in Value
  PROVE  Element(k, keys, v) \in Seq(JobType) /\ Elements(Element(k, keys, v))
<1>1. PICK e, kp : e = Job("element", k, keys, v) /\ kp = Job("keep", k, keys, v)
  OBVIOUS
<1>2. k \in STRING /\ keys \in Seq(STRING)
  BY KeywordNames, NamesAreStrings DEF Name
<1>3. /\ e \in JobType /\ WellMade(e) /\ e.do = "element"
      /\ kp \in JobType /\ WellMade(kp) /\ kp.do = "keep"
  BY <1>1, <1>2 DEF Job, JobType, WellMade
<1>4. PICK q \in Seq(JobType) : q = <<e, kp>> /\ Len(q) = 2 /\ q[1] = e /\ q[2] = kp
  <2>1. e \in JobType /\ kp \in JobType
    BY <1>3
  <2>2. PICK T : T = JobType
    OBVIOUS
  <2>3. <<e, kp>> \in Seq(T)
    BY <2>1, <2>2
  <2>4. PICK q \in Seq(T) : q = <<e, kp>>
    BY <2>3
  <2>5. Len(q) = 2 /\ q[1] = e /\ q[2] = kp
    BY <2>4
  <2> QED BY <2>2, <2>4, <2>5
<1>5. \A i \in 1 .. Len(q) : i = 1 \/ i = 2
  BY <1>4
<1>6. Elements(q)
  BY <1>3, <1>4, <1>5 DEF Elements, Begins
<1> QED BY <1>1, <1>4, <1>6 DEF Element

LEMMA ElementsFlat ==
  ASSUME NEW S, S = {q \in Seq(JobType) : Elements(q)}, NEW qs \in Seq(S)
  PROVE  FlattenSeq(qs) \in Seq(JobType) /\ Elements(FlattenSeq(qs))
<1>1. <<>> \in S
  BY DEF Elements, Begins
<1>2. \A a, b \in S : a \o b \in S
  BY ElementsJoin
<1>3. FlattenSeq(qs) \in S
  BY <1>1, <1>2, FlattenIn
<1> QED BY <1>3

LEMMA ElementsStored ==
  ASSUME NEW k \in ListKeyword, NEW v \in Value, NEW q \in Seq(JobType), Elements(q)
  PROVE  Chunk(q \o <<Job("store", k, <<k>>, v)>>, {<<"store", k>>})
<1>1. PICK st : st = Job("store", k, <<k>>, v)
  OBVIOUS
<1>2. k \in Name /\ k \in STRING
  BY KeywordNames DEF Name
<1>3. <<k>> \in Seq(Name) /\ <<k>> \in Seq(STRING)
  BY <1>2, OneIn
<1>4. st \in JobType /\ WellMade(st) /\ st.do = "store" /\ st.kw = k
  BY <1>1, <1>2, <1>3 DEF Job, JobType, WellMade
<1>5. PICK m \in Nat : m = Len(q)
  OBVIOUS
<1>6. PICK r \in Seq(JobType) : r = q \o <<st>>
  <2>1. <<st>> \in Seq(JobType)
    BY <1>4
  <2> QED BY <2>1, JoinIndex
<1>7. /\ Len(r) = m + 1 /\ r[m + 1] = st
      /\ \A i \in 1 .. m : r[i] = q[i]
      /\ \A i \in 1 .. m + 1 : i \in 1 .. m \/ i = m + 1
  BY <1>4, <1>5, <1>6
<1>8. \A i \in 1 .. m :
        /\ WellMade(r[i]) /\ r[i].do \in {"element", "keep"}
        /\ r[i].do = "element" => i < m /\ r[i + 1].do = "keep"
        /\ i < m /\ r[i + 1].do = "keep" => r[i].do = "element"
        /\ i = 1 => r[i].do # "keep"
  <2> SUFFICES ASSUME NEW i \in 1 .. m
               PROVE  /\ WellMade(r[i]) /\ r[i].do \in {"element", "keep"}
                      /\ r[i].do = "element" => i < m /\ r[i + 1].do = "keep"
                      /\ i < m /\ r[i + 1].do = "keep" => r[i].do = "element"
                      /\ i = 1 => r[i].do # "keep"
    OBVIOUS
  <2>1. /\ WellMade(q[i]) /\ q[i].do \in {"element", "keep"}
        /\ q[i].do = "element" => i < m /\ q[i + 1].do = "keep"
        /\ i < m /\ q[i + 1].do = "keep" => q[i].do = "element"
        /\ i = 1 => q[i].do # "keep"
    BY <1>5 DEF Elements, Begins
  <2>2. r[i] = q[i] /\ (i < m => r[i + 1] = q[i + 1])
    BY <1>7
  <2> QED BY <2>1, <2>2
<1>9. Paired(r)
  <2> SUFFICES ASSUME NEW i \in 1 .. m + 1
               PROVE  /\ r[i].do = "element" => i < m + 1 /\ r[i + 1].do = "keep"
                      /\ r[i].do = "keep" => i < m + 1 /\ r[i + 1].do \in {"element", "store"}
                      /\ i < m + 1 /\ r[i + 1].do = "keep" => r[i].do = "element"
    BY <1>7 DEF Paired
  <2>1. CASE i = m + 1
    BY <1>4, <1>7, <2>1
  <2>2. CASE i \in 1 .. m /\ i = m
    <3>1. r[i + 1] = st /\ r[i].do # "element"
      BY <1>7, <1>8, <2>2
    <3> QED BY <1>4, <2>2, <3>1
  <2>3. CASE i \in 1 .. m /\ i < m
    <3>1. i + 1 \in 1 .. m
      BY <2>3
    <3>2. /\ r[i].do = "element" => r[i + 1].do = "keep"
          /\ r[i + 1].do = "keep" => r[i].do = "element"
      BY <1>8, <2>3
    <3>3. r[i + 1].do \in {"element", "keep"}
      BY <1>8, <3>1
    <3> QED BY <2>3, <3>2, <3>3
  <2> QED BY <1>7, <2>1, <2>2, <2>3
<1>10. /\ \A i \in 1 .. m + 1 : WellMade(r[i]) /\ r[i].do \in {"element", "keep", "store"}
       /\ \A i \in 1 .. m + 1 : r[i].do \in {"single", "store"} => i = m + 1 /\ r[i].kw = k
       /\ \A i \in 1 .. m + 1 : i = 1 => r[i].do # "keep"
  <2> SUFFICES ASSUME NEW i \in 1 .. m + 1
               PROVE  /\ WellMade(r[i]) /\ r[i].do \in {"element", "keep", "store"}
                      /\ r[i].do \in {"single", "store"} => i = m + 1 /\ r[i].kw = k
                      /\ i = 1 => r[i].do # "keep"
    OBVIOUS
  <2>1. CASE i \in 1 .. m
    BY <1>8, <2>1
  <2>2. CASE i = m + 1
    BY <1>4, <1>7, <2>2
  <2> QED BY <1>7, <2>1, <2>2
<1>11. Shaped(r)
  BY <1>7, <1>9, <1>10 DEF Shaped, Once
<1>12. Chunk(r, {<<"store", k>>})
  BY <1>4, <1>7, <1>10, <1>11 DEF Chunk, Begins, Assigns
<1> QED BY <1>1, <1>6, <1>12

LEMMA NoChunk ==
  ASSUME NEW tags PROVE Chunk(<<>>, tags)
BY DEF Chunk, Shaped, Begins, Assigns, Paired, Once

LEMMA SingleChunk ==
  ASSUME NEW v \in Value, NEW k \in SingleKeyword
  PROVE  Chunk(Single(v, k), {<<"single", k>>})
<1>1. CASE ~HasShape(v, k, SchemaShape)
  BY <1>1, NoChunk DEF Single
<1>2. CASE HasShape(v, k, SchemaShape)
  <2>1. PICK job : job = Job("single", k, <<k>>, Lookup(v, k))
    OBVIOUS
  <2>2. k \in Name /\ k \in STRING /\ Lookup(v, k) \in Value
    BY <1>2, KeywordNames, MembersFacts DEF Name, HasShape
  <2>3. <<k>> \in Seq(Name) /\ <<k>> \in Seq(STRING) /\ <<k>> # <<>>
    BY <2>2, OneIn
  <2>4. job \in JobType /\ WellMade(job) /\ job.do = "single" /\ job.kw = k
    BY <2>1, <2>2, <2>3 DEF Job, JobType, WellMade
  <2>5. PICK q \in Seq(JobType) : q = <<job>> /\ Len(q) = 1 /\ q[1] = job
    BY <2>4, OneIn
  <2>6. \A i \in 1 .. Len(q) : i = 1
    BY <2>5
  <2>7. Chunk(q, {<<"single", k>>})
    BY <2>4, <2>5, <2>6 DEF Chunk, Shaped, Begins, Assigns, Paired, Once
  <2> QED BY <1>2, <2>1, <2>5, <2>7 DEF Single
<1> QED BY <1>1, <1>2

LEMMA ShapeIsArray ==
  ASSUME NEW v \in Value, NEW k, NEW shapes, HasShape(v, k, shapes)
  PROVE  Lookup(v, k) \in Value
BY MembersFacts DEF HasShape

LEMMA CollectionChunk ==
  ASSUME NEW v \in Value, NEW k \in ListKeyword
  PROVE  Chunk(Collection(v, k), {<<"store", k>>})
<1>1. CASE ~HasShape(v, k, {"array"})
  BY <1>1, NoChunk DEF Collection
<1>2. CASE HasShape(v, k, {"array"})
  <2>1. PICK a \in Value : a = Lookup(v, k)
    BY <1>2, ShapeIsArray
  <2>2. PICK items \in Seq(Value) : items = Ruby[a].items
    BY MembersFacts
  <2>3. PICK S : S = {q \in Seq(JobType) : Elements(q)}
    OBVIOUS
  <2>4. ASSUME NEW j \in 1 .. Len(items)
        PROVE  Element(k, <<k>> \o Digit(j), items[j]) \in S
    <3>1. Digit(j) \in Seq(Name)
      BY <2>2, DigitNames
    <3>2. <<k>> \in Seq(Name)
      BY KeywordNames, OneIn
    <3>a. PICK d \in Seq(Name), f \in Seq(Name) : d = Digit(j) /\ f = <<k>> /\ Len(f) = 1
      BY <3>1, <3>2, OneIn
    <3>b. f \o d \in Seq(Name) /\ Len(f \o d) = 1 + Len(d) /\ Len(d) \in Nat
      BY <3>a
    <3>c. PICK keys \in Seq(Name) : keys = f \o d /\ Len(keys) = 1 + Len(d)
      BY <3>b
    <3>d. keys # <<>>
      BY <3>a, <3>c
    <3>3. keys \in Seq(Name) /\ keys = <<k>> \o Digit(j) /\ keys # <<>>
      BY <3>a, <3>c, <3>d
    <3>4. items[j] \in Value
      OBVIOUS
    <3> QED BY <2>3, <3>3, <3>4, ElementsOfOne
  <2>5. PICK n \in Nat : n = Len(items)
    OBVIOUS
  <2>6. PICK qs : qs = [j \in 1 .. n |-> Element(k, <<k>> \o Digit(j), items[j])]
    OBVIOUS
  <2>7. qs \in Seq(S)
    <3>1. qs \in [1 .. n -> S]
      BY <2>4, <2>5, <2>6
    <3> QED BY <3>1
  <2>8. FlattenSeq(qs) \in Seq(JobType) /\ Elements(FlattenSeq(qs))
    BY <2>3, <2>7, ElementsFlat
  <2>9. Collection(v, k) = FlattenSeq(qs) \o <<Job("store", k, <<k>>, v)>>
    BY <1>2, <2>1, <2>2, <2>5, <2>6 DEF Collection
  <2> QED BY <2>8, <2>9, ElementsStored
<1> QED BY <1>1, <1>2

PartOf(k, m) == IF k = "dependencies" /\ Shape(m.val) = "array" THEN TmpSchema ELSE m.val
EntryOf(k, m) ==
  IF ~IsString(m.key) THEN <<>> ELSE Element(k, <<k, m.key>>, PartOf(k, m))

LEMMA EntriesChunk ==
  ASSUME NEW v \in Value, NEW k \in ListKeyword
  PROVE  Chunk(Entries(v, k), {<<"store", k>>})
<1>1. CASE ~HasShape(v, k, {"hash"})
  BY <1>1, NoChunk DEF Entries
<1>2. CASE HasShape(v, k, {"hash"})
  <2>1. PICK a \in Value : a = Lookup(v, k)
    BY <1>2, ShapeIsArray
  <2>2. PICK members \in Seq(Member) : members = Ruby[a].members
    BY MembersFacts DEF Member
  <2>3. PICK S : S = {q \in Seq(JobType) : Elements(q)}
    OBVIOUS
  <2>4. ASSUME NEW m \in Member PROVE EntryOf(k, m) \in S
    <3>1. CASE ~IsString(m.key)
      <4>1. EntryOf(k, m) = <<>>
        BY <3>1 DEF EntryOf
      <4>2. Elements(<<>>)
        BY DEF Elements, Begins
      <4> QED BY <2>3, <4>1, <4>2
    <3>2. CASE IsString(m.key)
      <4>1. m.key \in Name /\ PartOf(k, m) \in Value
        BY <3>2, RubyAssumption DEF IsString, Name, Member, PartOf
      <4>2. PICK name \in Name : name = m.key
        BY <4>1
      <4>3. PICK part \in Value : part = PartOf(k, m)
        BY <4>1
      <4>4. PICK first \in Name : first = k
        BY KeywordNames
      <4>5. PICK keys : keys = <<first, name>>
        OBVIOUS
      <4>6. keys \in Seq(Name) /\ keys # <<>>
        BY <4>5
      <4>7. Element(k, keys, part) \in S
        BY <2>3, <4>6, ElementsOfOne
      <4> QED BY <3>2, <4>2, <4>3, <4>4, <4>5, <4>7 DEF EntryOf
    <3> QED BY <3>1, <3>2
  <2>5. PICK n \in Nat : n = Len(members)
    OBVIOUS
  <2>6. PICK qs : qs = [j \in 1 .. n |-> EntryOf(k, members[j])]
    OBVIOUS
  <2>7. qs \in Seq(S)
    <3>0. \A j \in 1 .. n : members[j] \in Member
      BY <2>5
    <3>1. qs \in [1 .. n -> S]
      BY <2>4, <2>6, <3>0
    <3> QED BY <3>1
  <2>8. FlattenSeq(qs) \in Seq(JobType) /\ Elements(FlattenSeq(qs))
    BY <2>3, <2>7, ElementsFlat
  <2>9. Entries(v, k) = FlattenSeq(qs) \o <<Job("store", k, <<k>>, v)>>
    BY <1>2, <2>1, <2>2, <2>5, <2>6 DEF Entries, EntryOf, PartOf
  <2> QED BY <2>8, <2>9, ElementsStored
<1> QED BY <1>1, <1>2

LEMMA NestedTail ==
  ASSUME NEW v \in Value, NEW b, b = <<Job("alloc", "nested", <<>>, v)>> \o NestedJobs(v)
  PROVE  /\ Shaped(b) /\ Begins(b) /\ Len(b) = 1 + NestedTotal(v) /\ b[1].do = "alloc"
         /\ \A i \in 1 .. Len(b) : i # 1 => b[i].do = "nested"
<1>1. PICK alloc : alloc = Job("alloc", "nested", <<>>, v)
  OBVIOUS
<1>2. alloc \in JobType /\ WellMade(alloc) /\ alloc.do = "alloc"
  <2>1. "nested" \in STRING
    BY LiteralsAssumption DEF Literals
  <2>2. <<>> \in Seq(STRING) /\ <<>> \in Seq(Name)
    OBVIOUS
  <2> QED BY <1>1, <2>1, <2>2 DEF Job, JobType, WellMade
<1>3. PICK nj \in Seq(NestedJob) : nj = NestedJobs(v) /\ Len(nj) = NestedTotal(v)
  BY NestedJobsFacts
<1>4. \A i \in 1 .. Len(nj) : nj[i] \in JobType /\ WellMade(nj[i]) /\ nj[i].do = "nested"
  <2>1. \A i \in 1 .. Len(nj) : nj[i] \in NestedJob
    OBVIOUS
  <2> QED BY <2>1 DEF NestedJob
<1>5. PICK f \in Seq(JobType) : f = <<alloc>> /\ Len(f) = 1 /\ f[1] = alloc
  BY <1>2, OneIn
<1>6. nj \in Seq(JobType)
  BY <1>4
<1>7. PICK q \in Seq(JobType) : q = f \o nj
  BY <1>5, <1>6, JoinIndex
<1>8. PICK n \in Nat :
        /\ n = Len(nj) /\ Len(q) = 1 + n /\ q[1] = alloc
        /\ \A i \in 1 .. 1 + n : i # 1 => i - 1 \in 1 .. n /\ q[i] = nj[i - 1]
  <2>1. /\ Len(q) = 1 + Len(nj) /\ Len(nj) \in Nat /\ q[1] = alloc
        /\ \A i \in 1 .. 1 + Len(nj) : i # 1 => i - 1 \in 1 .. Len(nj) /\ q[i] = nj[i - 1]
    BY <1>5, <1>6, <1>7
  <2> QED BY <2>1
<1>9. \A i \in 1 .. Len(q) : i # 1 => WellMade(q[i]) /\ q[i].do = "nested"
  BY <1>4, <1>8
<1>10. \A i \in 1 .. Len(q) : WellMade(q[i]) /\ q[i].do \in {"alloc", "nested"}
  BY <1>2, <1>8, <1>9
<1>11. Paired(q)
  <2> SUFFICES ASSUME NEW i \in 1 .. Len(q)
               PROVE  i < Len(q) => q[i + 1].do \in {"alloc", "nested"}
    BY <1>10 DEF Paired
  <2>1. i < Len(q) => i + 1 \in 1 .. Len(q)
    BY <1>8
  <2> QED BY <1>10, <2>1
<1>12. Once(q)
  BY <1>10 DEF Once
<1>13. Shaped(q) /\ Begins(q)
  BY <1>10, <1>11, <1>12 DEF Shaped, Begins
<1>14. b = q
  BY <1>1, <1>3, <1>5, <1>7
<1> QED BY <1>2, <1>3, <1>8, <1>9, <1>13, <1>14

LEMMA JobsWithout ==
  ASSUME NEW v \in Value
  PROVE  \E a, tags : Chunk(a, tags) /\ Jobs(v) = a \o Nested(v)
<1>a. PICK a1 : a1 = Single(v, "if")
  OBVIOUS
<1>b. PICK a2 : a2 = a1 \o Single(v, "then")
  OBVIOUS
<1>c. PICK a3 : a3 = a2 \o Single(v, "else")
  OBVIOUS
<1>d. PICK a4 : a4 = a3 \o Collection(v, "allOf")
  OBVIOUS
<1>e. PICK a5 : a5 = a4 \o Collection(v, "anyOf")
  OBVIOUS
<1>f. PICK a6 : a6 = a5 \o Collection(v, "oneOf")
  OBVIOUS
<1>g. PICK a7 : a7 = a6 \o Single(v, "not")
  OBVIOUS
<1>h. PICK a8 : a8 = a7 \o Single(v, "items")
  OBVIOUS
<1>i. PICK a9 : a9 = a8 \o Collection(v, "items")
  OBVIOUS
<1>j. PICK a10 : a10 = a9 \o Single(v, "additionalItems")
  OBVIOUS
<1>k. PICK a11 : a11 = a10 \o Single(v, "contains")
  OBVIOUS
<1>l. PICK a12 : a12 = a11 \o Single(v, "propertyNames")
  OBVIOUS
<1>m. PICK a13 : a13 = a12 \o Single(v, "additionalProperties")
  OBVIOUS
<1>n. PICK a14 : a14 = a13 \o Entries(v, "properties")
  OBVIOUS
<1>o. PICK a15 : a15 = a14 \o Entries(v, "patternProperties")
  OBVIOUS
<1>p. PICK a16 : a16 = a15 \o Entries(v, "dependencies")
  OBVIOUS
<1>0. /\ \A k \in SingleKeyword : Chunk(Single(v, k), {<<"single", k>>})
      /\ \A k \in ListKeyword : Chunk(Collection(v, k), {<<"store", k>>})
      /\ \A k \in ListKeyword : Chunk(Entries(v, k), {<<"store", k>>})
  BY SingleChunk, CollectionChunk, EntriesChunk
<1>1. PICK t1 : t1 = {<<"single", "if">>} /\ Chunk(a1, t1)
  BY <1>0, <1>a DEF SingleKeyword
<1>2. PICK t2 : t2 = t1 \cup {<<"single", "then">>} /\ Chunk(a2, t2)
  <2>1. Chunk(Single(v, "then"), {<<"single", "then">>})
    BY <1>0 DEF SingleKeyword
  <2>2. t1 \cap {<<"single", "then">>} = {}
    BY <1>1
  <2> QED BY <1>1, <1>b, <2>1, <2>2, ChunkJoin
<1>3. PICK t3 : t3 = t2 \cup {<<"single", "else">>} /\ Chunk(a3, t3)
  <2>1. Chunk(Single(v, "else"), {<<"single", "else">>})
    BY <1>0 DEF SingleKeyword
  <2>2. t2 \cap {<<"single", "else">>} = {}
    BY <1>1, <1>2
  <2> QED BY <1>2, <1>c, <2>1, <2>2, ChunkJoin
<1>4. PICK t4 : t4 = t3 \cup {<<"store", "allOf">>} /\ Chunk(a4, t4)
  <2>1. Chunk(Collection(v, "allOf"), {<<"store", "allOf">>})
    BY <1>0 DEF ListKeyword
  <2>2. t3 \cap {<<"store", "allOf">>} = {}
    BY <1>1, <1>2, <1>3
  <2> QED BY <1>3, <1>d, <2>1, <2>2, ChunkJoin
<1>5. PICK t5 : t5 = t4 \cup {<<"store", "anyOf">>} /\ Chunk(a5, t5)
  <2>1. Chunk(Collection(v, "anyOf"), {<<"store", "anyOf">>})
    BY <1>0 DEF ListKeyword
  <2>2. t4 \cap {<<"store", "anyOf">>} = {}
    BY <1>1, <1>2, <1>3, <1>4
  <2> QED BY <1>4, <1>e, <2>1, <2>2, ChunkJoin
<1>6. PICK t6 : t6 = t5 \cup {<<"store", "oneOf">>} /\ Chunk(a6, t6)
  <2>1. Chunk(Collection(v, "oneOf"), {<<"store", "oneOf">>})
    BY <1>0 DEF ListKeyword
  <2>2. t5 \cap {<<"store", "oneOf">>} = {}
    BY <1>1, <1>2, <1>3, <1>4, <1>5
  <2> QED BY <1>5, <1>f, <2>1, <2>2, ChunkJoin
<1>7. PICK t7 : t7 = t6 \cup {<<"single", "not">>} /\ Chunk(a7, t7)
  <2>1. Chunk(Single(v, "not"), {<<"single", "not">>})
    BY <1>0 DEF SingleKeyword
  <2>2. t6 \cap {<<"single", "not">>} = {}
    BY <1>1, <1>2, <1>3, <1>4, <1>5, <1>6
  <2> QED BY <1>6, <1>g, <2>1, <2>2, ChunkJoin
<1>8. PICK t8 : t8 = t7 \cup {<<"single", "items">>} /\ Chunk(a8, t8)
  <2>1. Chunk(Single(v, "items"), {<<"single", "items">>})
    BY <1>0 DEF SingleKeyword
  <2>2. t7 \cap {<<"single", "items">>} = {}
    BY <1>1, <1>2, <1>3, <1>4, <1>5, <1>6, <1>7
  <2> QED BY <1>7, <1>h, <2>1, <2>2, ChunkJoin
<1>9. PICK t9 : t9 = t8 \cup {<<"store", "items">>} /\ Chunk(a9, t9)
  <2>1. Chunk(Collection(v, "items"), {<<"store", "items">>})
    BY <1>0 DEF ListKeyword
  <2>2. t8 \cap {<<"store", "items">>} = {}
    BY <1>1, <1>2, <1>3, <1>4, <1>5, <1>6, <1>7, <1>8
  <2> QED BY <1>8, <1>i, <2>1, <2>2, ChunkJoin
<1>10. PICK t10 : t10 = t9 \cup {<<"single", "additionalItems">>} /\ Chunk(a10, t10)
  <2>1. Chunk(Single(v, "additionalItems"), {<<"single", "additionalItems">>})
    BY <1>0 DEF SingleKeyword
  <2>2. t9 \cap {<<"single", "additionalItems">>} = {}
    BY <1>1, <1>2, <1>3, <1>4, <1>5, <1>6, <1>7, <1>8, <1>9
  <2> QED BY <1>9, <1>j, <2>1, <2>2, ChunkJoin
<1>11. PICK t11 : t11 = t10 \cup {<<"single", "contains">>} /\ Chunk(a11, t11)
  <2>1. Chunk(Single(v, "contains"), {<<"single", "contains">>})
    BY <1>0 DEF SingleKeyword
  <2>2. t10 \cap {<<"single", "contains">>} = {}
    BY <1>1, <1>2, <1>3, <1>4, <1>5, <1>6, <1>7, <1>8, <1>9, <1>10
  <2> QED BY <1>10, <1>k, <2>1, <2>2, ChunkJoin
<1>12. PICK t12 : t12 = t11 \cup {<<"single", "propertyNames">>} /\ Chunk(a12, t12)
  <2>1. Chunk(Single(v, "propertyNames"), {<<"single", "propertyNames">>})
    BY <1>0 DEF SingleKeyword
  <2>2. t11 \cap {<<"single", "propertyNames">>} = {}
    BY <1>1, <1>2, <1>3, <1>4, <1>5, <1>6, <1>7, <1>8, <1>9, <1>10, <1>11
  <2> QED BY <1>11, <1>l, <2>1, <2>2, ChunkJoin
<1>13. PICK t13 : t13 = t12 \cup {<<"single", "additionalProperties">>} /\ Chunk(a13, t13)
  <2>1. Chunk(Single(v, "additionalProperties"), {<<"single", "additionalProperties">>})
    BY <1>0 DEF SingleKeyword
  <2>2. t12 \cap {<<"single", "additionalProperties">>} = {}
    BY <1>1, <1>2, <1>3, <1>4, <1>5, <1>6, <1>7, <1>8, <1>9, <1>10, <1>11, <1>12
  <2> QED BY <1>12, <1>m, <2>1, <2>2, ChunkJoin
<1>14. PICK t14 : t14 = t13 \cup {<<"store", "properties">>} /\ Chunk(a14, t14)
  <2>1. Chunk(Entries(v, "properties"), {<<"store", "properties">>})
    BY <1>0 DEF ListKeyword
  <2>2. t13 \cap {<<"store", "properties">>} = {}
    BY <1>1, <1>2, <1>3, <1>4, <1>5, <1>6, <1>7, <1>8, <1>9, <1>10, <1>11, <1>12, <1>13
  <2> QED BY <1>13, <1>n, <2>1, <2>2, ChunkJoin
<1>15. PICK t15 : t15 = t14 \cup {<<"store", "patternProperties">>} /\ Chunk(a15, t15)
  <2>1. Chunk(Entries(v, "patternProperties"), {<<"store", "patternProperties">>})
    BY <1>0 DEF ListKeyword
  <2>2. t14 \cap {<<"store", "patternProperties">>} = {}
    BY <1>1, <1>2, <1>3, <1>4, <1>5, <1>6, <1>7, <1>8, <1>9, <1>10, <1>11, <1>12, <1>13, <1>14
  <2> QED BY <1>14, <1>o, <2>1, <2>2, ChunkJoin
<1>16. PICK t16 : t16 = t15 \cup {<<"store", "dependencies">>} /\ Chunk(a16, t16)
  <2>1. Chunk(Entries(v, "dependencies"), {<<"store", "dependencies">>})
    BY <1>0 DEF ListKeyword
  <2>2. t15 \cap {<<"store", "dependencies">>} = {}
    BY <1>1, <1>2, <1>3, <1>4, <1>5, <1>6, <1>7, <1>8, <1>9, <1>10, <1>11, <1>12, <1>13, <1>14, <1>15
  <2> QED BY <1>15, <1>p, <2>1, <2>2, ChunkJoin
<1> QED BY <1>16, <1>a, <1>b, <1>c, <1>d, <1>e, <1>f, <1>g, <1>h, <1>i, <1>j, <1>k, <1>l, <1>m,
           <1>n, <1>o, <1>p DEF Jobs

(* What every list of jobs has in common.                                  *)
LEMMA JobsFacts ==
  ASSUME NEW v \in Value
  PROVE  /\ Shaped(Jobs(v)) /\ Begins(Jobs(v))
         /\ \E k \in 0 .. Len(Jobs(v)) :
              /\ NestedAfter(Jobs(v), k)
              /\ Len(Jobs(v)) - k = IF Allocates(Jobs(v), k) THEN NestedTotal(v) ELSE 0
<1>1. PICK a, tags : Chunk(a, tags) /\ Jobs(v) = a \o Nested(v)
  BY JobsWithout
<1>2. /\ a \in Seq(JobType) /\ Shaped(a) /\ Begins(a) /\ Len(a) \in Nat
      /\ \A i \in 1 .. Len(a) : a[i].do \in {"single", "element", "keep", "store"}
  <2>1. Shaped(a) /\ Begins(a) /\ Assigns(a, tags)
    BY <1>1 DEF Chunk
  <2>2. a \in Seq(JobType) /\ Len(a) \in Nat
    <3>1. a \in Seq(JobType)
      BY <2>1 DEF Shaped
    <3> QED BY <3>1
  <2> QED BY <2>1, <2>2 DEF Assigns
<1>3. CASE NestedTotal(v) = 0
  <2>1. Jobs(v) = a
    BY <1>1, <1>2, <1>3 DEF Nested
  <2>2. Len(a) \in 0 .. Len(a) /\ NestedAfter(a, Len(a)) /\ ~Allocates(a, Len(a))
    BY <1>2 DEF NestedAfter, Allocates
  <2>3. Len(a) - Len(a) = 0
    BY <1>2
  <2> QED BY <1>2, <2>1, <2>2, <2>3
<1>4. CASE NestedTotal(v) # 0
  <2>1. PICK b : b = <<Job("alloc", "nested", <<>>, v)>> \o NestedJobs(v)
    OBVIOUS
  <2>2. /\ Shaped(b) /\ Begins(b) /\ Len(b) = 1 + NestedTotal(v) /\ b[1].do = "alloc"
        /\ \A i \in 1 .. Len(b) : i # 1 => b[i].do = "nested"
    BY <2>1, NestedTail
  <2>3. Apart(a, b)
    BY <2>2 DEF Apart
  <2>4. PICK q \in Seq(JobType) : q = a \o b
    BY <1>2, <2>2, JoinIndex DEF Shaped
  <2>5. Jobs(v) = q
    BY <1>1, <1>4, <2>1, <2>4 DEF Nested
  <2>6. Shaped(q) /\ Begins(q)
    BY <1>2, <2>2, <2>3, <2>4, ShapedJoin
  <2>7. PICK m \in Nat, n \in Nat :
          /\ m = Len(a) /\ n = NestedTotal(v) /\ Len(b) = 1 + n /\ Len(q) = m + (1 + n)
          /\ \A i \in 1 .. m : q[i] = a[i]
          /\ \A i \in 1 .. Len(q) : i \notin 1 .. m => i - m \in 1 .. 1 + n /\ q[i] = b[i - m]
    <3>1. NestedTotal(v) \in Nat
      BY NestedJobsFacts
    <3>2. b \in Seq(JobType)
      BY <2>2 DEF Shaped
    <3>3. /\ Len(q) = Len(a) + Len(b)
          /\ \A i \in 1 .. Len(a) : q[i] = a[i]
          /\ \A i \in 1 .. Len(q) : i \notin 1 .. Len(a) => i - Len(a) \in 1 .. Len(b) /\ q[i] = b[i - Len(a)]
      BY <1>2, <2>4, <3>2, JoinIndex
    <3>4. PICK m \in Nat, n \in Nat : m = Len(a) /\ n = NestedTotal(v)
      BY <1>2, <3>1
    <3> QED BY <2>2, <3>3, <3>4
  <2>8. q[m + 1].do = "alloc"
    <3>1. m + 1 \in 1 .. Len(q) /\ m + 1 \notin 1 .. m /\ m + 1 - m = 1
      BY <2>7
    <3> QED BY <2>2, <2>7, <3>1
  <2>9. \A i \in 1 .. Len(q) : i <= m => q[i].do \in {"single", "element", "keep", "store"}
    BY <1>2, <2>7
  <2>10. \A i \in 1 .. Len(q) : i > m + 1 => q[i].do = "nested"
    <3> SUFFICES ASSUME NEW i \in 1 .. Len(q), i > m + 1 PROVE q[i].do = "nested"
      OBVIOUS
    <3>1. i \notin 1 .. m
      BY <2>7
    <3>2. i - m \in 1 .. 1 + n /\ i - m # 1 /\ q[i] = b[i - m]
      BY <2>7, <3>1
    <3> QED BY <2>2, <2>7, <3>2
  <2>11. NestedAfter(q, m + 1) /\ Allocates(q, m + 1)
    <3>1. \A i \in 1 .. Len(q) : i <= m \/ i = m + 1 \/ i > m + 1
      BY <2>7
    <3>2. \A i \in 1 .. Len(q) : i <= m \/ i = m + 1 => ~(i > m + 1)
      BY <2>7
    <3>3. \A i \in 1 .. Len(q) : q[i].do = "nested" <=> i > m + 1
      BY <2>8, <2>9, <2>10, <3>1, <3>2
    <3>4. \A i \in 1 .. Len(q) : q[i].do = "alloc" => i = m + 1
      BY <2>9, <2>10, <3>1
    <3> QED BY <2>7, <2>8, <3>3, <3>4 DEF NestedAfter, Allocates
  <2>12. m + 1 \in 0 .. Len(q) /\ Len(q) - (m + 1) = n
    BY <2>7
  <2> QED BY <2>5, <2>6, <2>7, <2>11, <2>12
<1> QED BY <1>3, <1>4
=============================================================================
