-------------------------- MODULE ValidationProofs --------------------------
(***************************************************************************)
(* IInv is inductive, for every set of schemas and documents, every depth  *)
(* limit and every nesting of calls.  The proof goes by kinds of move: an  *)
(* action changes the top frame, calls, returns, opens a validation or     *)
(* closes one, and each kind is shown to keep IInv once.                   *)
(***************************************************************************)
EXTENDS Validation, HandlersProofs

(***************************************************************************)
(* The stack as a sequence.                                                *)
(***************************************************************************)
LEMMA ReplaceFacts ==
  ASSUME stack \in Seq(Frame), stack # <<>>, NEW f \in Frame
  PROVE  /\ Len(stack) \in Nat \ {0}
         /\ Replace(f) \in Seq(Frame)
         /\ Len(Replace(f)) = Len(stack)
         /\ Replace(f)[Len(stack)] = f
         /\ \A j \in 1 .. Len(stack) - 1 : Replace(f)[j] = stack[j]
BY DEF Replace

LEMMA PopFacts ==
  ASSUME NEW S, NEW q \in Seq(S), q # <<>>
  PROVE  /\ Len(q) \in Nat \ {0}
         /\ SubSeq(q, 1, Len(q) - 1) \in Seq(S)
         /\ Len(SubSeq(q, 1, Len(q) - 1)) = Len(q) - 1
         /\ \A j \in 1 .. Len(q) - 1 : SubSeq(q, 1, Len(q) - 1)[j] = q[j]
<1>1. Len(q) \in Nat \ {0} /\ \A j \in 1 .. Len(q) - 1 : q[j] \in S
  OBVIOUS
<1>2. 1 \in Int /\ Len(q) - 1 \in Int
  BY <1>1
<1>3. /\ SubSeq(q, 1, Len(q) - 1) \in Seq(S)
      /\ Len(SubSeq(q, 1, Len(q) - 1)) =
           IF 1 <= Len(q) - 1 THEN Len(q) - 1 - 1 + 1 ELSE 0
      /\ \A j \in 1 .. Len(q) - 1 - 1 + 1 :
           SubSeq(q, 1, Len(q) - 1)[j] = q[1 + j - 1]
  BY <1>1, <1>2, SubSeqProperties
<1>4. \A j \in 1 .. Len(q) - 1 : j \in 1 .. Len(q) - 1 - 1 + 1 /\ 1 + j - 1 = j
  BY <1>1
<1>5. ASSUME NEW j \in 1 .. Len(q) - 1
      PROVE  SubSeq(q, 1, Len(q) - 1)[j] = q[j]
  <2>1. SubSeq(q, 1, Len(q) - 1)[j] = q[1 + j - 1] /\ 1 + j - 1 = j
    BY <1>3, <1>4
  <2> QED BY <2>1
<1>6. Len(SubSeq(q, 1, Len(q) - 1)) = Len(q) - 1
  <2>1. \A l \in Nat \ {0} : (IF 1 <= l - 1 THEN l - 1 - 1 + 1 ELSE 0) = l - 1
    OBVIOUS
  <2> QED BY <1>1, <1>3, <2>1
<1> QED BY <1>1, <1>3, <1>5, <1>6

LEMMA BelowFacts ==
  ASSUME stack \in Seq(Frame), stack # <<>>
  PROVE  /\ Len(stack) \in Nat \ {0}
         /\ Below \in Seq(Frame)
         /\ Len(Below) = Len(stack) - 1
         /\ \A j \in 1 .. Len(stack) - 1 : Below[j] = stack[j]
BY PopFacts DEF Below

LEMMA PushFacts ==
  ASSUME NEW base \in Seq(Frame), NEW g \in Frame
  PROVE  /\ Append(base, g) \in Seq(Frame)
         /\ Len(Append(base, g)) = Len(base) + 1
         /\ Append(base, g)[Len(base) + 1] = g
         /\ \A j \in 1 .. Len(base) : Append(base, g)[j] = base[j]
OBVIOUS

LEMMA NoneFrameless == stack \in Seq(Frame) /\ stack # <<>> => Top \in Frame
BY DEF Top

(* A sequence without its last element, even when it is empty.             *)
LEMMA FrontType ==
  ASSUME NEW S, NEW q \in Seq(S)
  PROVE  SubSeq(q, 1, Len(q) - 1) \in Seq(S)
<1>1. CASE q = <<>>
  <2>1. Len(q) - 1 \in Int /\ Len(q) - 1 < 1 /\ 1 \in Int
    BY <1>1
  <2>2. SubSeq(q, 1, Len(q) - 1) = <<>>
    BY <2>1, SubSeqEmpty
  <2> QED BY <2>2
<1>2. CASE q # <<>>
  BY <1>2, PopFacts
<1> QED BY <1>1, <1>2

(* Catching and YieldingTo of a given stack, here stack or stack'.         *)
CatchAt(q, j, c) == q[j].fn = "is_valid" /\ q[j].c = c
YieldAt(q, j)    == q[j].fn = "yield_error" /\ q[j].pc \in {"block", "called"}

(***************************************************************************)
(* The top frame moves on.                                                 *)
(***************************************************************************)
SameFlags ==
  /\ ctx' \in Seq(Context) /\ Len(ctx') = Len(ctx)
  /\ \A c \in 1 .. Len(ctx) : ctx'[c].flag <=> ctx[c].flag

LEMMA GotoKeepsIInv ==
  ASSUME IInv, stack # <<>>,
         NEW f \in Frame, f.fn = Top.fn, f.c = Top.c, f.saved = Top.saved,
         f.fn = "yield_error" /\ f.pc \in {"block", "called"}
           => ~Cur.flag \/ (Top.fn = "yield_error" /\ Top.pc \in {"block", "called"}),
         Goto(f), SameFlags,
         ret' \in BOOLEAN, last' = last,
         exc' \in {"none", "throw", "raise", "break", "overrun"}, exc' # "throw"
  PROVE  IInv'
<1> DEFINE n == Len(stack)
<1>1. /\ n \in Nat \ {0} /\ stack' \in Seq(Frame) /\ Len(stack') = n
      /\ stack'[n] = f /\ \A j \in 1 .. n - 1 : stack'[j] = stack[j]
  BY ReplaceFacts DEF IInv, TypeOK, Goto
<1>2. \A j \in 1 .. n : stack'[j].fn = stack[j].fn /\ stack'[j].c = stack[j].c
                        /\ stack'[j].saved = stack[j].saved
  BY <1>1 DEF Top
<1>3. TypeOK'
  BY <1>1 DEF IInv, TypeOK, SameFlags
<1>4. Nested'
  <2>1. stack' # <<>> /\ Len(ctx') = Len(ctx) /\ n \in 1 .. n /\ 1 \in 1 .. n
    BY <1>1 DEF SameFlags
  <2>2. /\ stack[1].fn \in SessionFn /\ stack[1].c = 1 /\ stack[n].c = Len(ctx)
        /\ \A j \in 1 .. n : stack[j].c \in 1 .. Len(ctx)
        /\ \A j \in 1 .. n - 1 :
             stack[j + 1].c = IF stack[j + 1].fn \in SessionFn THEN stack[j].c + 1
                                                              ELSE stack[j].c
    BY DEF IInv, Nested, Top
  <2>3. /\ stack'[1].fn \in SessionFn /\ stack'[1].c = 1 /\ stack'[n].c = Len(ctx)
        /\ \A j \in 1 .. n : stack'[j].c \in 1 .. Len(ctx)
    BY <1>2, <2>1, <2>2
  <2>4. \A j \in 1 .. n - 1 :
             stack'[j + 1].c = IF stack'[j + 1].fn \in SessionFn THEN stack'[j].c + 1
                                                                ELSE stack'[j].c
    BY <1>1, <1>2, <2>2
  <2> QED BY <1>1, <2>1, <2>3, <2>4 DEF Nested, Top
<1>5. Layered'
  BY <1>1, <1>2 DEF IInv, Layered, Protecting, YieldingTo
<1>c. \A j \in 1 .. n : \A c : CatchAt(stack', j, c) <=> CatchAt(stack, j, c)
  BY <1>2 DEF CatchAt
<1>6. SavedFlags'
  <2>1. \A j \in 1 .. n : stack[j].fn = "is_valid" =>
          (stack[j].saved <=> \E k \in 1 .. j - 1 : CatchAt(stack, k, stack[j].c))
    BY DEF IInv, SavedFlags, Catching, CatchAt
  <2>2. \A j \in 1 .. n : \A k \in 1 .. j - 1 : k \in 1 .. n
    BY <1>1
  <2>3. \A j \in 1 .. n : stack'[j].fn = "is_valid" =>
          (stack'[j].saved <=> \E k \in 1 .. j - 1 : CatchAt(stack', k, stack'[j].c))
    BY <1>2, <1>c, <2>1, <2>2
  <2> QED BY <1>1, <2>3 DEF SavedFlags, Catching, CatchAt
<1>7. FlagIffCatch'
  <2>1. \A c \in 1 .. Len(ctx) : ctx[c].flag <=> \E j \in 1 .. n : CatchAt(stack, j, c)
    BY DEF IInv, FlagIffCatch, Catching, CatchAt
  <2>2. \A c \in 1 .. Len(ctx) : ctx'[c].flag <=> \E j \in 1 .. n : CatchAt(stack', j, c)
    BY <1>c, <2>1 DEF SameFlags
  <2> QED BY <1>1, <2>2 DEF FlagIffCatch, Catching, CatchAt, SameFlags
<1>8. QuietInsideIsValid'
  <2>1. \A j \in 1 .. n - 1 : YieldAt(stack', j) => YieldAt(stack, j)
    BY <1>1 DEF YieldAt
  <2>2. YieldAt(stack', n) => YieldAt(stack, n) \/ ~Cur.flag
    BY <1>1 DEF YieldAt, Top
  <2>3. ~Cur.flag => \A k \in 1 .. n : ~CatchAt(stack, k, stack[n].c)
    BY <1>1 DEF IInv, Nested, FlagIffCatch, Cur, Top, Catching, CatchAt
  <2>4. \A j \in 1 .. n : YieldAt(stack', j) => \A k \in 1 .. n : ~CatchAt(stack, k, stack[j].c)
    BY <1>1, <2>1, <2>2, <2>3
    DEF IInv, QuietInsideIsValid, YieldAt, YieldingTo, Catching, CatchAt
  <2> QED BY <1>1, <1>2, <2>4
          DEF QuietInsideIsValid, Catching, CatchAt, YieldingTo, YieldAt
<1>9. ThrowFlagged'
  BY DEF ThrowFlagged
<1> QED BY <1>3, <1>4, <1>5, <1>6, <1>7, <1>8, <1>9 DEF IInv

(***************************************************************************)
(* The top frame calls a function for its own validation.                  *)
(***************************************************************************)
Pushed(f, g) == stack' = Append(Replace(f), g)

FlagsWith(g) ==
  /\ ctx' \in Seq(Context) /\ Len(ctx') = Len(ctx)
  /\ \A c \in 1 .. Len(ctx) :
       ctx'[c].flag <=> ctx[c].flag \/ (g.fn = "is_valid" /\ c = Top.c)

LEMMA CallKeepsIInv ==
  ASSUME IInv, Running,
         NEW f \in Frame, f.fn = Top.fn, f.c = Top.c, f.saved = Top.saved,
         f.pc \notin {"block", "called", "loop"},
         NEW g \in Frame, g.c = Top.c, g.pc = "enter", g.fn \notin SessionFn,
         Pushed(f, g), FlagsWith(g),
         g.fn = "is_valid" => (g.saved <=> Cur.flag),
         UNCHANGED <<ret, exc, last>>
  PROVE  IInv'
<1>n. PICK n : n = Len(stack)
  OBVIOUS
<1>0. stack # <<>> /\ exc = "none"
  BY DEF Running
<1>1. /\ n \in Nat \ {0} /\ stack' \in Seq(Frame) /\ Len(stack') = n + 1
      /\ stack'[n + 1] = g /\ stack'[n] = f
      /\ \A j \in 1 .. n - 1 : stack'[j] = stack[j]
  <2>1. /\ n \in Nat \ {0} /\ Replace(f) \in Seq(Frame) /\ Len(Replace(f)) = n
        /\ Replace(f)[n] = f /\ \A j \in 1 .. n - 1 : Replace(f)[j] = stack[j]
    BY <1>n, <1>0, ReplaceFacts DEF IInv, TypeOK
  <2> QED BY <2>1, PushFacts DEF Pushed
<1>2. \A j \in 1 .. n : stack'[j].fn = stack[j].fn /\ stack'[j].c = stack[j].c
                        /\ stack'[j].saved = stack[j].saved
  BY <1>1, <1>n DEF Top
<1>3. Top.c = Len(ctx) /\ stack[n].c = Len(ctx) /\ Len(ctx) \in 1 .. Len(ctx)
  BY <1>n, <1>0, <1>1 DEF IInv, Nested, Top
<1>4. TypeOK'
  BY <1>1 DEF IInv, TypeOK, FlagsWith
<1>5. Nested'
  <2>1. stack' # <<>> /\ Len(ctx') = Len(ctx) /\ n \in 1 .. n /\ 1 \in 1 .. n
    BY <1>1 DEF FlagsWith
  <2>2. /\ stack[1].fn \in SessionFn /\ stack[1].c = 1
        /\ \A j \in 1 .. n : stack[j].c \in 1 .. Len(ctx)
        /\ \A j \in 1 .. n - 1 :
             stack[j + 1].c = IF stack[j + 1].fn \in SessionFn THEN stack[j].c + 1
                                                              ELSE stack[j].c
    BY <1>n, <1>0 DEF IInv, Nested
  <2>3. /\ stack'[1].fn \in SessionFn /\ stack'[1].c = 1
        /\ stack'[n + 1].c = Len(ctx) /\ stack'[n + 1].fn \notin SessionFn
    BY <1>1, <1>2, <1>3, <2>1, <2>2
  <2>4. ASSUME NEW j \in 1 .. n + 1
        PROVE  stack'[j].c \in 1 .. Len(ctx)
    <3>1. CASE j = n + 1
      BY <1>3, <2>3, <3>1
    <3>2. CASE j \in 1 .. n
      BY <1>2, <2>2, <3>2
    <3> QED BY <1>1, <3>1, <3>2
  <2>5. ASSUME NEW j \in 1 .. n
        PROVE  stack'[j + 1].c = IF stack'[j + 1].fn \in SessionFn THEN stack'[j].c + 1
                                                                  ELSE stack'[j].c
    <3>1. CASE j = n
      BY <1>2, <1>3, <2>3, <3>1
    <3>2. CASE j \in 1 .. n - 1
      <4>1. j \in 1 .. n /\ j + 1 \in 1 .. n
        BY <1>1, <3>2
      <4> QED BY <1>2, <2>2, <3>2, <4>1
    <3> QED BY <1>1, <3>1, <3>2
  <2> QED BY <1>1, <2>1, <2>3, <2>4, <2>5 DEF Nested, Top
<1>6. Layered'
  <2>1. \A j \in 1 .. n : stack[j].c <= stack[n].c
    BY <1>n, <1>0, <1>1, <1>3 DEF IInv, Nested
  <2>2. \A j \in 1 .. n - 1 :
          /\ YieldAt(stack', j) <=> YieldAt(stack, j)
          /\ Protecting(stack'[j]) <=> Protecting(stack[j])
          /\ YieldAt(stack, j) \/ Protecting(stack[j]) => stack[j].c < stack[n].c
    BY <1>n, <1>1 DEF IInv, Layered, YieldingTo, YieldAt
  <2>3. ~YieldAt(stack', n) /\ ~Protecting(stack'[n])
    BY <1>1 DEF YieldAt, Protecting
  <2>4. \A j \in 1 .. n : 
          /\ stack'[j].c <= stack'[n + 1].c
          /\ \/ stack'[n + 1].fn \in SessionFn \/ Protecting(stack'[j]) \/ YieldAt(stack', j)
             => stack'[j].c < stack'[n + 1].c
    BY <1>1, <1>2, <1>3, <2>1, <2>2, <2>3
  <2>5. \A j, k \in 1 .. n : j < k =>
          /\ stack'[j].c <= stack'[k].c
          /\ \/ stack'[k].fn \in SessionFn \/ Protecting(stack'[j]) \/ YieldAt(stack', j)
             => stack'[j].c < stack'[k].c
    BY <1>n, <1>1, <1>2, <2>2 DEF IInv, Layered, YieldAt, YieldingTo
  <2> QED BY <1>1, <2>4, <2>5 DEF Layered, Protecting, YieldingTo, YieldAt
<1>7. \A j \in 1 .. n, c \in Nat : CatchAt(stack', j, c) <=> CatchAt(stack, j, c)
  BY <1>2 DEF CatchAt
<1>8. \A c \in Nat : CatchAt(stack', n + 1, c) <=> g.fn = "is_valid" /\ c = Top.c
  BY <1>1 DEF CatchAt
<1>9. \A j \in 1 .. n : stack[j].c \in 1 .. Len(ctx) /\ stack[j].c \in Nat
  BY <1>n, <1>0, <1>1, <1>3 DEF IInv, Nested
<1>10. Cur.flag <=> \E k \in 1 .. n : CatchAt(stack, k, Top.c)
  BY <1>n, <1>3 DEF IInv, FlagIffCatch, Cur, Catching, CatchAt
<1>11. SavedFlags'
  <2>0. \A j \in 1 .. n : \A k \in 1 .. j - 1 : k \in 1 .. n
    BY <1>1
  <2>3. \A j \in 1 .. n : stack[j].fn = "is_valid" =>
          (stack[j].saved <=> \E k \in 1 .. j - 1 : CatchAt(stack, k, stack[j].c))
    BY <1>n DEF IInv, SavedFlags, Catching, CatchAt
  <2>1. \A j \in 1 .. n : stack'[j].fn = "is_valid" =>
          (stack'[j].saved <=> \E k \in 1 .. j - 1 : CatchAt(stack', k, stack'[j].c))
    BY <1>2, <1>7, <1>9, <2>0, <2>3
  <2>4. \A j \in 1 .. n : CatchAt(stack', j, Top.c) <=> CatchAt(stack, j, Top.c)
    BY <1>3, <1>7
  <2>2. stack'[n + 1].fn = "is_valid" =>
          (stack'[n + 1].saved <=> \E k \in 1 .. n : CatchAt(stack', k, stack'[n + 1].c))
    BY <1>1, <1>10, <2>4
  <2> QED BY <1>1, <2>1, <2>2 DEF SavedFlags, Catching, CatchAt
<1>12. FlagIffCatch'
  <2>1. SUFFICES ASSUME NEW c \in 1 .. Len(ctx)
                 PROVE  ctx'[c].flag <=> \E j \in 1 .. n + 1 : CatchAt(stack', j, c)
    BY <1>1 DEF FlagIffCatch, Catching, CatchAt, FlagsWith
  <2>2. c \in Nat /\ (ctx[c].flag <=> \E j \in 1 .. n : CatchAt(stack, j, c))
    BY <1>n, <1>3 DEF IInv, FlagIffCatch, Catching, CatchAt
  <2> QED BY <1>1, <1>7, <1>8, <2>2 DEF FlagsWith
<1>13. QuietInsideIsValid'
  <2>1. SUFFICES ASSUME NEW j \in 1 .. n + 1, YieldAt(stack', j), NEW k \in 1 .. n + 1
                 PROVE  ~CatchAt(stack', k, stack[j].c) /\ stack'[j].c = stack[j].c
    BY <1>1 DEF QuietInsideIsValid, Catching, CatchAt, YieldingTo, YieldAt
  <2>2. j \in 1 .. n - 1 /\ YieldAt(stack, j)
    BY <1>1, <2>1 DEF YieldAt
  <2>3. stack[j].c < stack[n].c /\ stack[j].c \in Nat
    BY <1>n, <1>1, <1>9, <2>2 DEF IInv, Layered, YieldingTo, YieldAt
  <2>4. \A l \in 1 .. n : ~CatchAt(stack, l, stack[j].c)
    BY <1>n, <1>1, <2>2 DEF IInv, QuietInsideIsValid, Catching, CatchAt, YieldingTo, YieldAt
  <2> QED BY <1>1, <1>2, <1>3, <1>7, <1>8, <2>2, <2>3, <2>4
<1>14. ThrowFlagged'
  BY <1>0 DEF ThrowFlagged
<1> QED BY <1>4, <1>5, <1>6, <1>11, <1>12, <1>13, <1>14 DEF IInv

(***************************************************************************)
(* The top frame ends; an is_valid restores the flag on the way.           *)
(***************************************************************************)
FlagsRestored ==
  /\ ctx' \in Seq(Context) /\ Len(ctx') = Len(ctx)
  /\ \A c \in 1 .. Len(ctx) :
       ctx'[c].flag <=> IF Top.fn = "is_valid" /\ c = Top.c THEN Top.saved ELSE ctx[c].flag

LEMMA ReturnKeepsIInv ==
  ASSUME IInv, stack # <<>>, Top.fn \notin SessionFn,
         Return, FlagsRestored,
         ret' \in BOOLEAN, last' = last,
         exc' \in {"none", "throw", "raise", "break", "overrun"},
         exc' = "throw" => exc = "throw" /\ Top.fn # "is_valid"
  PROVE  IInv'
<1>n. PICK n : n = Len(stack)
  OBVIOUS
<1>1. /\ n \in Nat \ {0} /\ stack' \in Seq(Frame) /\ Len(stack') = n - 1
      /\ \A j \in 1 .. n - 1 : stack'[j] = stack[j]
  BY <1>n, BelowFacts DEF IInv, TypeOK, Return
<1>2. /\ stack[1].fn \in SessionFn /\ stack[1].c = 1 /\ stack[n].c = Len(ctx)
      /\ \A j \in 1 .. n : stack[j].c \in 1 .. Len(ctx)
      /\ \A j \in 1 .. n - 1 :
           stack[j + 1].c = IF stack[j + 1].fn \in SessionFn THEN stack[j].c + 1
                                                            ELSE stack[j].c
  BY <1>n DEF IInv, Nested, Top
<1>3. Top = stack[n] /\ Top.c = Len(ctx)
  BY <1>n, <1>2 DEF Top
<1>4. n - 1 \in 1 .. n - 1 /\ 1 \in 1 .. n - 1 /\ n - 1 + 1 = n /\ stack' # <<>>
  BY <1>1, <1>2, <1>3
<1>5. stack[n - 1].c = Len(ctx) /\ stack'[n - 1].c = Len(ctx)
  BY <1>1, <1>2, <1>3, <1>4
<1>6. \A j \in 1 .. n - 1 : j \in 1 .. n
  BY <1>1
<1>7. TypeOK'
  BY <1>1 DEF IInv, TypeOK, FlagsRestored
<1>8. Nested'
  <2>1. \A j \in 1 .. n - 2 : j \in 1 .. n - 1 /\ j + 1 \in 1 .. n - 1
    BY <1>1
  <2>2. /\ stack'[1].fn \in SessionFn /\ stack'[1].c = 1
        /\ \A j \in 1 .. n - 1 : stack'[j].c \in 1 .. Len(ctx)
    BY <1>1, <1>2, <1>4, <1>6
  <2>3. \A j \in 1 .. n - 2 :
          stack'[j + 1].c = IF stack'[j + 1].fn \in SessionFn THEN stack'[j].c + 1
                                                             ELSE stack'[j].c
    BY <1>1, <1>2, <2>1
  <2>4. n - 1 - 1 = n - 2
    BY <1>1
  <2> QED BY <1>1, <1>4, <1>5, <2>2, <2>3, <2>4 DEF Nested, Top, FlagsRestored
<1>9. Layered'
  <2>1. \A j, k \in 1 .. n - 1 : j < k =>
          /\ stack[j].c <= stack[k].c
          /\ \/ stack[k].fn \in SessionFn \/ Protecting(stack[j]) \/ YieldAt(stack, j)
             => stack[j].c < stack[k].c
    BY <1>n, <1>6 DEF IInv, Layered, YieldAt, YieldingTo
  <2> QED BY <1>1, <2>1 DEF Layered, Protecting, YieldingTo, YieldAt
<1>10. \A j \in 1 .. n - 1 : \A c : CatchAt(stack', j, c) <=> CatchAt(stack, j, c)
  BY <1>1 DEF CatchAt
<1>11. \A j \in 1 .. n : stack[j].fn = "is_valid" =>
         (stack[j].saved <=> \E k \in 1 .. j - 1 : CatchAt(stack, k, stack[j].c))
  BY <1>n DEF IInv, SavedFlags, Catching, CatchAt
<1>12. \A c \in 1 .. Len(ctx) : ctx[c].flag <=> \E j \in 1 .. n : CatchAt(stack, j, c)
  BY <1>n DEF IInv, FlagIffCatch, Catching, CatchAt
<1>13. SavedFlags'
  <2>1. \A j \in 1 .. n - 1 : \A k \in 1 .. j - 1 : k \in 1 .. n - 1
    BY <1>1
  <2>2. \A j \in 1 .. n - 1 : stack'[j].fn = "is_valid" =>
         (stack'[j].saved <=> \E k \in 1 .. j - 1 : CatchAt(stack', k, stack'[j].c))
    BY <1>1, <1>6, <1>10, <1>11, <2>1
  <2> QED BY <1>1, <2>2 DEF SavedFlags, Catching, CatchAt
<1>14. ASSUME NEW c \in 1 .. Len(ctx)
       PROVE  ctx'[c].flag <=> \E j \in 1 .. n - 1 : CatchAt(stack', j, c)
  <2>1. CASE Top.fn = "is_valid" /\ c = Top.c
    <3>1. n \in 1 .. n
      BY <1>1
    <3>2. Top.saved <=> \E k \in 1 .. n - 1 : CatchAt(stack, k, c)
      BY <1>3, <1>11, <2>1, <3>1
    <3> QED BY <1>10, <2>1, <3>2 DEF FlagsRestored
  <2>2. CASE ~(Top.fn = "is_valid" /\ c = Top.c)
    <3>1. ~CatchAt(stack, n, c)
      BY <1>3, <2>2 DEF CatchAt
    <3>2. (\E k \in 1 .. n : CatchAt(stack, k, c)) <=> \E k \in 1 .. n - 1 : CatchAt(stack, k, c)
      BY <1>1, <3>1
    <3> QED BY <1>10, <1>12, <2>2, <3>2 DEF FlagsRestored
  <2> QED BY <2>1, <2>2
<1>15. FlagIffCatch'
  BY <1>1, <1>14 DEF FlagIffCatch, Catching, CatchAt, FlagsRestored
<1>16. QuietInsideIsValid'
  <2>1. \A j, k \in 1 .. n : YieldAt(stack, j) => ~CatchAt(stack, k, stack[j].c)
    BY <1>n DEF IInv, QuietInsideIsValid, YieldAt, YieldingTo, Catching, CatchAt
  <2>2. \A j, k \in 1 .. n - 1 : YieldAt(stack', j) => ~CatchAt(stack', k, stack'[j].c)
    BY <1>1, <1>6, <2>1 DEF YieldAt, CatchAt
  <2> QED BY <1>1, <2>2 DEF QuietInsideIsValid, Catching, CatchAt, YieldingTo, YieldAt
<1>17. ThrowFlagged'
  <2> SUFFICES ASSUME exc' = "throw"
               PROVE  Cur'.flag /\ stack' # <<>> /\ ~Protecting(Top')
    BY DEF ThrowFlagged, Protecting
  <2>1. Top' = stack[n - 1] /\ Top'.c = Len(ctx)
    BY <1>1, <1>4, <1>5 DEF Top
  <2>2. ctx[Len(ctx)].flag /\ Len(ctx) \in 1 .. Len(ctx)
    <3>1. ThrowFlagged /\ Len(ctx) \in 1 .. Len(ctx)
      BY <1>2, <1>4, <1>5, <1>6 DEF IInv
    <3> QED BY <1>3, <3>1 DEF ThrowFlagged, Cur
  <2>3. Cur'.flag
    BY <2>1, <2>2 DEF Cur, FlagsRestored
  <2>4. ~Protecting(stack[n - 1])
    <3>1. n \in 1 .. n /\ n - 1 \in 1 .. n /\ n - 1 < n /\ Len(ctx) \in Nat
      BY <1>1, <1>4, <2>2
    <3>2. Protecting(stack[n - 1]) => stack[n - 1].c < stack[n].c
      BY <1>n, <3>1 DEF IInv, Layered
    <3> QED BY <1>2, <1>5, <3>1, <3>2
  <2> QED BY <1>4, <2>1, <2>3, <2>4 DEF Protecting
<1> QED BY <1>7, <1>8, <1>9, <1>13, <1>15, <1>16, <1>17 DEF IInv

(***************************************************************************)
(* A validation opens, from the application or from user code.             *)
(***************************************************************************)
LEMMA NewContextType ==
  ASSUME NEW call \in Call
  PROVE  NewContext(call) \in Context /\ ~NewContext(call).flag
<1>1. [j \in 0 .. MaxDepth - 1 |-> IF j = 0 THEN Root ELSE Nil]
        \in [0 .. MaxDepth - 1 -> Segment]
  BY DEF Root, Nil, Segment
<1>2. <<>> \in Seq(Error)
  OBVIOUS
<1> QED BY <1>1, <1>2 DEF NewContext, Context

LEMMA NewFrameType ==
  ASSUME NEW fn \in FnName, NEW s \in Schema, NEW d \in Data, NEW c \in Nat,
         NEW loc \in Seq(Segment)
  PROVE  /\ NewFrame(Do(fn, s, d, 0), c, loc) \in Frame
         /\ NewFrame(Do(fn, s, d, 0), c, loc).fn = fn
         /\ NewFrame(Do(fn, s, d, 0), c, loc).pc = "enter"
         /\ NewFrame(Do(fn, s, d, 0), c, loc).c = c
<1>1. "none" \in ErrorType /\ <<>> \in Seq(Step) /\ "enter" \in Label
  BY DEF ErrorType, Label
<1> QED BY <1>1 DEF NewFrame, Do, Frame

(* The frame that stays below is the one that was on top, in user code.    *)
Under(base) ==
  /\ Len(base) = Len(stack)
  /\ \A j \in 1 .. Len(stack) :
       /\ base[j].fn = stack[j].fn /\ base[j].c = stack[j].c
       /\ base[j].saved = stack[j].saved
  /\ \A j \in 1 .. Len(stack) : YieldAt(base, j) => YieldAt(stack, j)
  /\ \A j \in 1 .. Len(stack) - 1 : base[j] = stack[j]

LEMMA OpenKeepsIInv ==
  ASSUME IInv, exc # "throw",
         NEW base \in Seq(Frame), Under(base),
         NEW call \in Call, OpenSession(base, call),
         UNCHANGED <<ret, exc, last>>
  PROVE  IInv'
<1> DEFINE g == NewFrame(Do(call.fn, call.cs, call.d, 0), Len(ctx) + 1, <<Root>>)
<1>n. PICK n, m : n = Len(stack) /\ m = Len(ctx)
  OBVIOUS
<1>0. n \in Nat /\ m \in Nat /\ ctx \in Seq(Context) /\ stack \in Seq(Frame)
  BY <1>n DEF IInv, TypeOK
<1>1. /\ g \in Frame /\ g.fn \in SessionFn /\ g.pc = "enter" /\ g.c = m + 1
  <2>1. call.fn \in FnName /\ call.fn \in SessionFn /\ call.cs \in Schema /\ call.d \in Data
    BY DEF Call, FnName, OtherFn, SessionFn
  <2>2. <<Root>> \in Seq(Segment) /\ m + 1 \in Nat
    BY <1>0 DEF Root, Segment
  <2>3. PICK loc \in Seq(Segment), c \in Nat, fn \in FnName, sc \in Schema, d \in Data :
          loc = <<Root>> /\ c = m + 1 /\ fn = call.fn /\ sc = call.cs /\ d = call.d
    BY <2>1, <2>2
  <2>4. /\ NewFrame(Do(fn, sc, d, 0), c, loc) \in Frame
        /\ NewFrame(Do(fn, sc, d, 0), c, loc).fn = fn
        /\ NewFrame(Do(fn, sc, d, 0), c, loc).pc = "enter"
        /\ NewFrame(Do(fn, sc, d, 0), c, loc).c = c
    BY NewFrameType
  <2> QED BY <1>n, <2>1, <2>3, <2>4
<1> HIDE DEF g
<1>2. /\ stack' \in Seq(Frame) /\ Len(stack') = n + 1 /\ stack'[n + 1] = g
      /\ \A j \in 1 .. n : stack'[j] = base[j]
  BY <1>n, <1>1, PushFacts DEF OpenSession, g, Under
<1>3. /\ ctx' \in Seq(Context) /\ Len(ctx') = m + 1 /\ ~ctx'[m + 1].flag
      /\ \A c \in 1 .. m : ctx'[c] = ctx[c]
  BY <1>n, <1>0, NewContextType DEF OpenSession
<1>4. \A j \in 1 .. n : /\ stack'[j].fn = stack[j].fn /\ stack'[j].c = stack[j].c
                         /\ stack'[j].saved = stack[j].saved
  BY <1>n, <1>2 DEF Under
<1>y. /\ \A j \in 1 .. n : YieldAt(stack', j) => YieldAt(stack, j)
      /\ \A j \in 1 .. n - 1 : stack'[j] = stack[j]
  <2>1. \A j \in 1 .. n - 1 : j \in 1 .. n
    BY <1>0
  <2> QED BY <1>n, <1>2, <2>1 DEF Under, YieldAt
<1>5. /\ \A j \in 1 .. n : stack[j].c \in 1 .. m
      /\ n # 0 => stack[1].fn \in SessionFn /\ stack[1].c = 1 /\ stack[n].c = m
      /\ n = 0 => m = 0
      /\ \A j \in 1 .. n - 1 :
           stack[j + 1].c = IF stack[j + 1].fn \in SessionFn THEN stack[j].c + 1
                                                            ELSE stack[j].c
  BY <1>n, <1>0 DEF IInv, Nested, Top
<1>6. TypeOK'
  BY <1>2, <1>3 DEF IInv, TypeOK
<1>7. Nested'
  <2>1. stack' # <<>> /\ n + 1 \in 1 .. n + 1 /\ 1 \in 1 .. n + 1
    BY <1>0, <1>2
  <2>2. stack'[1].fn \in SessionFn /\ stack'[1].c = 1
    <3>1. CASE n = 0
      BY <1>1, <1>2, <1>5, <3>1
    <3>2. CASE n # 0
      BY <1>0, <1>4, <1>5, <3>2
    <3> QED BY <3>1, <3>2
  <2>3. ASSUME NEW j \in 1 .. n + 1
        PROVE  stack'[j].c \in 1 .. m + 1
    <3>1. CASE j = n + 1
      BY <1>0, <1>1, <1>2, <3>1
    <3>2. CASE j \in 1 .. n
      <4>1. stack'[j].c = stack[j].c /\ stack[j].c \in 1 .. m
        BY <1>4, <1>5, <3>2
      <4> QED BY <1>0, <4>1
    <3> QED BY <1>0, <3>1, <3>2
  <2>4. ASSUME NEW j \in 1 .. n
        PROVE  stack'[j + 1].c = IF stack'[j + 1].fn \in SessionFn THEN stack'[j].c + 1
                                                                  ELSE stack'[j].c
    <3>1. CASE j = n
      <4>1. stack'[j].c = m
        BY <1>4, <1>5, <3>1
      <4> QED BY <1>1, <1>2, <3>1, <4>1
    <3>2. CASE j \in 1 .. n - 1
      <4>1. j \in 1 .. n /\ j + 1 \in 1 .. n
        BY <1>0, <3>2
      <4> QED BY <1>4, <1>5, <3>2, <4>1
    <3> QED BY <1>0, <3>1, <3>2
  <2>6. Top'.c = m + 1
    BY <1>1, <1>2 DEF Top
  <2>7. \A j \in 1 .. Len(stack') - 1 :
          stack'[j + 1].c = IF stack'[j + 1].fn \in SessionFn THEN stack'[j].c + 1
                                                             ELSE stack'[j].c
    <3>1. Len(stack') - 1 = n
      BY <1>0, <1>2
    <3> QED BY <2>4, <3>1
  <2>8. \A j \in 1 .. Len(stack') : stack'[j].c \in 1 .. Len(ctx')
    BY <1>2, <1>3, <2>3
  <2> QED BY <1>3, <2>1, <2>2, <2>6, <2>7, <2>8 DEF Nested
<1>8. Layered'
  <2>1. ASSUME NEW j \in 1 .. n
        PROVE  stack'[j].c < stack'[n + 1].c /\ stack'[j].c <= stack'[n + 1].c
    <3>1. stack'[j].c = stack[j].c /\ stack[j].c \in 1 .. m /\ stack'[n + 1].c = m + 1
      BY <1>1, <1>2, <1>4, <1>5
    <3> QED BY <1>0, <3>1
  <2>2. ASSUME NEW j \in 1 .. n, NEW k \in 1 .. n, j < k
        PROVE  /\ stack'[j].c <= stack'[k].c
               /\ \/ stack'[k].fn \in SessionFn \/ Protecting(stack'[j]) \/ YieldAt(stack', j)
                  => stack'[j].c < stack'[k].c
    <3>1. j \in 1 .. n - 1
      BY <1>0, <2>2
    <3>2. /\ stack[j].c <= stack[k].c
          /\ \/ stack[k].fn \in SessionFn \/ Protecting(stack[j]) \/ YieldAt(stack, j)
             => stack[j].c < stack[k].c
      BY <1>n, <2>2 DEF IInv, Layered, YieldingTo, YieldAt
    <3> QED BY <1>4, <1>y, <2>2, <3>1, <3>2
  <2>3. ASSUME NEW j \in 1 .. n + 1, NEW k \in 1 .. n + 1, j < k
        PROVE  j \in 1 .. n /\ (k = n + 1 \/ k \in 1 .. n)
    BY <1>0, <2>3
  <2> QED BY <1>2, <2>1, <2>2, <2>3 DEF Layered, Protecting, YieldingTo, YieldAt
<1>9. \A j \in 1 .. n : \A c : CatchAt(stack', j, c) <=> CatchAt(stack, j, c)
  BY <1>4 DEF CatchAt
<1>10. \A c : ~CatchAt(stack', n + 1, c)
  BY <1>1, <1>2 DEF CatchAt, SessionFn
<1>11. SavedFlags'
  <2>1. \A j \in 1 .. n : \A k \in 1 .. j - 1 : k \in 1 .. n
    BY <1>0
  <2>2. \A j \in 1 .. n : stack[j].fn = "is_valid" =>
         (stack[j].saved <=> \E k \in 1 .. j - 1 : CatchAt(stack, k, stack[j].c))
    BY <1>n DEF IInv, SavedFlags, Catching, CatchAt
  <2>3. \A j \in 1 .. n : stack'[j].fn = "is_valid" =>
         (stack'[j].saved <=> \E k \in 1 .. j - 1 : CatchAt(stack', k, stack'[j].c))
    BY <1>4, <1>9, <2>1, <2>2
  <2>4. stack'[n + 1].fn # "is_valid"
    BY <1>1, <1>2 DEF SessionFn
  <2>5. \A j \in 1 .. n + 1 : j = n + 1 \/ j \in 1 .. n
    BY <1>0
  <2> QED BY <1>2, <2>3, <2>4, <2>5 DEF SavedFlags, Catching, CatchAt
<1>12. FlagIffCatch'
  <2>1. \A j \in 1 .. n + 1 : j = n + 1 \/ j \in 1 .. n
    BY <1>0
  <2>2. ASSUME NEW c \in 1 .. m
        PROVE  ctx'[c].flag <=> \E j \in 1 .. n + 1 : CatchAt(stack', j, c)
    <3>1. ctx[c].flag <=> \E j \in 1 .. n : CatchAt(stack, j, c)
      BY <1>n DEF IInv, FlagIffCatch, Catching, CatchAt
    <3>2. (\E j \in 1 .. n : CatchAt(stack, j, c)) <=> \E j \in 1 .. n + 1 : CatchAt(stack', j, c)
      <4>1. \A j \in 1 .. n : j \in 1 .. n + 1
        BY <1>0
      <4>2. \A j \in 1 .. n : CatchAt(stack, j, c) => CatchAt(stack', j, c)
        BY <1>9
      <4>3. \A j \in 1 .. n + 1 : CatchAt(stack', j, c) => j \in 1 .. n /\ CatchAt(stack, j, c)
        BY <1>9, <1>10, <2>1
      <4> QED BY <4>1, <4>2, <4>3
    <3> QED BY <1>3, <3>1, <3>2
  <2>3. \A j \in 1 .. n + 1 : ~CatchAt(stack', j, m + 1)
    <3>1. \A j \in 1 .. n : stack[j].c # m + 1
      BY <1>0, <1>5
    <3> QED BY <1>4, <1>10, <2>1, <3>1 DEF CatchAt
  <2>4. \A c \in 1 .. m + 1 : c = m + 1 \/ c \in 1 .. m
    BY <1>0
  <2>5. \A c \in 1 .. m + 1 : ctx'[c].flag <=> \E j \in 1 .. n + 1 : CatchAt(stack', j, c)
    BY <1>3, <2>2, <2>3, <2>4
  <2> QED BY <1>2, <1>3, <2>5 DEF FlagIffCatch, Catching, CatchAt
<1>13. QuietInsideIsValid'
  <2>1. \A j, k \in 1 .. n : YieldAt(stack, j) => ~CatchAt(stack, k, stack[j].c)
    BY <1>n DEF IInv, QuietInsideIsValid, YieldAt, YieldingTo, Catching, CatchAt
  <2>2. ~YieldAt(stack', n + 1)
    BY <1>1, <1>2 DEF YieldAt
  <2>3. \A j \in 1 .. n + 1 : j = n + 1 \/ j \in 1 .. n
    BY <1>0
  <2>4. \A j, k \in 1 .. n + 1 : YieldAt(stack', j) => ~CatchAt(stack', k, stack'[j].c)
    BY <1>4, <1>y, <1>9, <1>10, <2>1, <2>2, <2>3
  <2> QED BY <1>2, <2>4 DEF QuietInsideIsValid, Catching, CatchAt, YieldingTo, YieldAt
<1>14. ThrowFlagged'
  BY DEF ThrowFlagged
<1> QED BY <1>6, <1>7, <1>8, <1>11, <1>12, <1>13, <1>14 DEF IInv

(***************************************************************************)
(* A validation closes.                                                    *)
(***************************************************************************)
LEMMA CloseKeepsIInv ==
  ASSUME IInv, stack # <<>>, Top.fn \in SessionFn,
         NEW outcome \in Outcome, CloseSession(outcome),
         ret' \in BOOLEAN,
         exc' \in {"none", "throw", "raise", "break", "overrun"}, exc' # "throw"
  PROVE  IInv'
<1>n. PICK n, m : n = Len(stack) /\ m = Len(ctx)
  OBVIOUS
<1>1. /\ n \in Nat \ {0} /\ stack' \in Seq(Frame) /\ Len(stack') = n - 1
      /\ \A j \in 1 .. n - 1 : stack'[j] = stack[j]
  BY <1>n, BelowFacts DEF IInv, TypeOK, CloseSession
<1>2. /\ stack[1].fn \in SessionFn /\ stack[1].c = 1 /\ stack[n].c = m
      /\ \A j \in 1 .. n : stack[j].c \in 1 .. m
      /\ \A j \in 1 .. n - 1 :
           stack[j + 1].c = IF stack[j + 1].fn \in SessionFn THEN stack[j].c + 1
                                                            ELSE stack[j].c
  BY <1>n DEF IInv, Nested, Top
<1>3. Top = stack[n] /\ Top.c = m /\ m \in Nat \ {0} /\ ctx # <<>>
  <2>1. n \in 1 .. n
    BY <1>1
  <2>2. ctx \in Seq(Context) /\ m \in Nat
    BY <1>n DEF IInv, TypeOK
  <2>3. m \in 1 .. m
    BY <1>2, <2>1
  <2> QED BY <1>n, <1>2, <2>2, <2>3 DEF Top
<1>4. /\ ctx' \in Seq(Context) /\ Len(ctx') = m - 1
      /\ \A c \in 1 .. m - 1 : ctx'[c] = ctx[c]
  <2>1. ctx \in Seq(Context)
    BY DEF IInv, TypeOK
  <2> QED BY <1>n, <1>3, <2>1, PopFacts DEF CloseSession
<1>5. n = 1 => m = 1
  BY <1>2
<1>6. n # 1 => stack[n - 1].c = m - 1 /\ n - 1 \in 1 .. n - 1 /\ 1 \in 1 .. n - 1
  <2>1. n # 1 => n - 1 \in 1 .. n - 1 /\ 1 \in 1 .. n - 1 /\ n - 1 + 1 = n /\ n - 1 \in 1 .. n
    BY <1>1
  <2> QED BY <1>2, <1>3, <2>1
<1>7. \A j \in 1 .. n - 1 : j \in 1 .. n /\ j < n
  BY <1>1
<1>8. ASSUME NEW j \in 1 .. n - 1
      PROVE  stack[j].c \in 1 .. m - 1
  <2>1. j \in 1 .. n /\ n \in 1 .. n /\ j < n
    BY <1>1, <1>7
  <2>2. stack[j].c < stack[n].c
    BY <1>n, <1>3, <2>1 DEF IInv, Layered
  <2> QED BY <1>2, <1>3, <2>1, <2>2
<1>9. TypeOK'
  <2>1. Cur \in Context
    BY <1>n, <1>3 DEF IInv, TypeOK, Cur
  <2>2. last' \in Result
    BY <2>1 DEF CloseSession, Result, Context
  <2> QED BY <1>1, <1>4, <2>2 DEF TypeOK
<1>10. Nested'
  <2>1. CASE n = 1
    <3>1. stack' = <<>> /\ ctx' = <<>> /\ Len(stack') = 0
      BY <1>1, <1>4, <1>5, <2>1
    <3> QED BY <3>1 DEF Nested
  <2>2. CASE n # 1
    <3>1. stack' # <<>>
      BY <1>1, <2>2
    <3>2. \A j \in 1 .. n - 2 : j \in 1 .. n - 1 /\ j + 1 \in 1 .. n - 1
      BY <1>1
    <3>3. \A j \in 1 .. n - 2 :
            stack'[j + 1].c = IF stack'[j + 1].fn \in SessionFn THEN stack'[j].c + 1
                                                               ELSE stack'[j].c
      BY <1>1, <1>2, <3>2
    <3>4. n - 1 - 1 = n - 2
      BY <1>1
    <3>5. stack'[1].fn \in SessionFn /\ stack'[1].c = 1 /\ stack'[n - 1].c = m - 1
      BY <1>1, <1>2, <1>6, <2>2
    <3>6. \A j \in 1 .. n - 1 : stack'[j].c \in 1 .. m - 1
      BY <1>1, <1>8
    <3> QED BY <1>1, <1>4, <3>1, <3>3, <3>4, <3>5, <3>6 DEF Nested, Top
  <2> QED BY <2>1, <2>2
<1>11. Layered'
  <2>1. \A j, k \in 1 .. n - 1 : j < k =>
          /\ stack[j].c <= stack[k].c
          /\ \/ stack[k].fn \in SessionFn \/ Protecting(stack[j]) \/ YieldAt(stack, j)
             => stack[j].c < stack[k].c
    BY <1>n, <1>7 DEF IInv, Layered, YieldAt, YieldingTo
  <2> QED BY <1>1, <2>1 DEF Layered, Protecting, YieldingTo, YieldAt
<1>12. \A j \in 1 .. n - 1 : \A c : CatchAt(stack', j, c) <=> CatchAt(stack, j, c)
  BY <1>1 DEF CatchAt
<1>13. SavedFlags'
  <2>1. \A j \in 1 .. n - 1 : \A k \in 1 .. j - 1 : k \in 1 .. n - 1
    BY <1>1
  <2>2. \A j \in 1 .. n : stack[j].fn = "is_valid" =>
         (stack[j].saved <=> \E k \in 1 .. j - 1 : CatchAt(stack, k, stack[j].c))
    BY <1>n DEF IInv, SavedFlags, Catching, CatchAt
  <2>3. \A j \in 1 .. n - 1 : stack'[j].fn = "is_valid" =>
         (stack'[j].saved <=> \E k \in 1 .. j - 1 : CatchAt(stack', k, stack'[j].c))
    BY <1>1, <1>7, <1>12, <2>1, <2>2
  <2> QED BY <1>1, <2>3 DEF SavedFlags, Catching, CatchAt
<1>14. FlagIffCatch'
  <2>1. ASSUME NEW c \in 1 .. m - 1
        PROVE  ctx'[c].flag <=> \E j \in 1 .. n - 1 : CatchAt(stack', j, c)
    <3>1. c \in 1 .. m
      BY <1>3
    <3>2. ctx[c].flag <=> \E j \in 1 .. n : CatchAt(stack, j, c)
      BY <1>n, <3>1 DEF IInv, FlagIffCatch, Catching, CatchAt
    <3>3. ~CatchAt(stack, n, c)
      BY <1>3 DEF CatchAt, SessionFn
    <3>4. (\E k \in 1 .. n : CatchAt(stack, k, c)) <=> \E k \in 1 .. n - 1 : CatchAt(stack, k, c)
      BY <1>1, <3>3
    <3> QED BY <1>4, <1>12, <3>2, <3>4
  <2> QED BY <1>1, <1>4, <2>1 DEF FlagIffCatch, Catching, CatchAt
<1>15. QuietInsideIsValid'
  <2>1. \A j, k \in 1 .. n : YieldAt(stack, j) => ~CatchAt(stack, k, stack[j].c)
    BY <1>n DEF IInv, QuietInsideIsValid, YieldAt, YieldingTo, Catching, CatchAt
  <2>2. \A j, k \in 1 .. n - 1 : YieldAt(stack', j) => ~CatchAt(stack', k, stack'[j].c)
    BY <1>1, <1>7, <2>1 DEF YieldAt, CatchAt
  <2> QED BY <1>1, <2>2 DEF QuietInsideIsValid, Catching, CatchAt, YieldingTo, YieldAt
<1>16. ThrowFlagged'
  BY DEF ThrowFlagged
<1> QED BY <1>9, <1>10, <1>11, <1>13, <1>14, <1>15, <1>16 DEF IInv

(***************************************************************************)
(* What the actions work with: the running frame and its context.          *)
(***************************************************************************)
LEMMA TopFacts ==
  ASSUME IInv, stack # <<>>
  PROVE  /\ Top \in Frame /\ stack[Len(stack)] = Top /\ Top.c = Len(ctx)
         /\ Top.c \in 1 .. Len(ctx) /\ Len(ctx) \in Nat
         /\ Cur \in Context
<1>1. Len(stack) \in 1 .. Len(stack) /\ stack \in Seq(Frame) /\ ctx \in Seq(Context)
  BY DEF IInv, TypeOK
<1>2. Top.c = Len(ctx) /\ stack[Len(stack)].c \in 1 .. Len(ctx)
  BY <1>1 DEF IInv, Nested
<1> QED BY <1>1, <1>2 DEF Top, Cur

(* The context changes, but not its flag.                                  *)
LEMMA SetContextFacts ==
  ASSUME IInv, stack # <<>>, NEW r \in Context, SetContext(r)
  PROVE  /\ ctx' \in Seq(Context) /\ Len(ctx') = Len(ctx) /\ ctx'[Top.c] = r
         /\ \A c \in 1 .. Len(ctx) : c # Top.c => ctx'[c] = ctx[c]
         /\ (r.flag <=> Cur.flag) => SameFlags
<1>1. ctx \in Seq(Context) /\ Top.c \in 1 .. Len(ctx)
  BY TopFacts DEF IInv, TypeOK
<1>2. /\ ctx' \in Seq(Context) /\ Len(ctx') = Len(ctx) /\ ctx'[Top.c] = r
      /\ \A c \in 1 .. Len(ctx) : c # Top.c => ctx'[c] = ctx[c]
  BY <1>1 DEF SetContext
<1>3. (r.flag <=> Cur.flag) => \A c \in 1 .. Len(ctx) : ctx'[c].flag <=> ctx[c].flag
  BY <1>1, <1>2 DEF Cur
<1> QED BY <1>2, <1>3 DEF SameFlags

LEMMA SameContext ==
  ASSUME IInv, UNCHANGED ctx
  PROVE  SameFlags
BY DEF SameFlags, IInv, TypeOK

(* Nothing but the exit under way changes.                                 *)
LEMMA ExitKeepsIInv ==
  ASSUME IInv, UNCHANGED <<stack, ctx, ret, last>>,
         exc' \in {"none", "throw", "raise", "break", "overrun"},
         exc' = "throw" => stack # <<>> /\ Cur.flag /\ ~Protecting(Top)
  PROVE  IInv'
<1>1. TypeOK'
  BY DEF IInv, TypeOK
<1>2. /\ Nested' /\ Layered' /\ SavedFlags' /\ FlagIffCatch' /\ QuietInsideIsValid'
  BY DEF IInv, Nested, Top, Layered, Protecting, YieldingTo, SavedFlags, Catching,
         FlagIffCatch, QuietInsideIsValid
<1>3. ThrowFlagged'
  BY DEF ThrowFlagged, Cur, Top, Protecting
<1> QED BY <1>1, <1>2, <1>3 DEF IInv

(* Entering is_valid: it saves the flag it finds, and sets it.             *)
LEMMA EnterIsValidKeepsIInv ==
  ASSUME IInv, Running,
         NEW f \in Frame, f.fn = Top.fn, f.c = Top.c, f.saved = Top.saved,
         f.loc = Top.loc, f.pc \notin {"block", "called", "loop"},
         NEW s \in Schema, NEW d \in Data, EnterIsValid(f, s, d)
  PROVE  IInv'
<1>0. stack # <<>>
  BY DEF Running
<1> DEFINE h == NewFrame(Do("is_valid", s, d, 0), f.c, f.loc)
           g == [h EXCEPT !.saved = Cur.flag]
<1>1. /\ g \in Frame /\ g.c = Top.c /\ g.pc = "enter" /\ g.fn = "is_valid"
      /\ g.saved = Cur.flag
  <2>1. f.c \in Nat /\ f.loc \in Seq(Segment)
    BY DEF Frame
  <2>2. PICK c \in Nat, loc \in Seq(Segment), fn \in FnName :
          c = f.c /\ loc = f.loc /\ fn = "is_valid"
    BY <2>1 DEF FnName, OtherFn
  <2>3. NewFrame(Do(fn, s, d, 0), c, loc) \in Frame
    BY NewFrameType
  <2>4. h \in Frame
    BY <2>2, <2>3
  <2>5. h.c = f.c /\ h.pc = "enter" /\ h.fn = "is_valid"
    BY DEF NewFrame, Do
  <2>6. Cur.flag \in BOOLEAN
    BY <1>0, TopFacts DEF Context
  <2> HIDE DEF h
  <2> QED BY <2>4, <2>5, <2>6 DEF Frame
<1>2. Pushed(f, g) /\ UNCHANGED <<ret, exc, last>>
  BY DEF EnterIsValid, Pushed
<1>3. FlagsWith(g)
  <2>1. PICK r : r = [Cur EXCEPT !.flag = TRUE]
    OBVIOUS
  <2>2. r \in Context /\ r.flag = TRUE /\ SetContext(r)
    BY <1>0, <2>1, TopFacts DEF Context, EnterIsValid
  <2>3. /\ ctx' \in Seq(Context) /\ Len(ctx') = Len(ctx) /\ ctx'[Top.c] = r
        /\ \A c \in 1 .. Len(ctx) : c # Top.c => ctx'[c] = ctx[c]
    BY <1>0, <2>2, SetContextFacts
  <2> QED BY <1>1, <2>2, <2>3 DEF FlagsWith
<1> HIDE DEF g
<1>4. g.fn \notin SessionFn
  BY <1>1 DEF SessionFn
<1> QED BY <1>1, <1>2, <1>3, <1>4, CallKeepsIInv

(* Leaving it, in whatever way, restores it.                               *)
LEMMA EnsureRestores ==
  ASSUME IInv, stack # <<>>, Top.fn = "is_valid", IsValidEnsure
  PROVE  FlagsRestored
<1>1. PICK r : r = [Cur EXCEPT !.flag = Top.saved]
  OBVIOUS
<1>2. r \in Context /\ r.flag = Top.saved /\ SetContext(r)
  BY <1>1, TopFacts DEF Context, Frame, IsValidEnsure
<1>3. /\ ctx' \in Seq(Context) /\ Len(ctx') = Len(ctx) /\ ctx'[Top.c] = r
      /\ \A c \in 1 .. Len(ctx) : c # Top.c => ctx'[c] = ctx[c]
  BY <1>2, SetContextFacts
<1> QED BY <1>2, <1>3 DEF FlagsRestored

LEMMA NothingRestored ==
  ASSUME IInv, stack # <<>>, Top.fn # "is_valid", SameFlags
  PROVE  FlagsRestored
BY DEF SameFlags, FlagsRestored

(***************************************************************************)
(* Every action keeps IInv.                                                *)
(***************************************************************************)
(* A frame that goes on: the fields the invariant reads stay.              *)
LEMMA ConcludeType ==
  ASSUME NEW f \in Frame, NEW plan \in Seq(Step)
  PROVE  /\ [f EXCEPT !.pc = "plan", !.todo = plan] \in Frame
         /\ [f EXCEPT !.pc = "plan", !.todo = plan].fn = f.fn
         /\ [f EXCEPT !.pc = "plan", !.todo = plan].c = f.c
         /\ [f EXCEPT !.pc = "plan", !.todo = plan].saved = f.saved
         /\ [f EXCEPT !.pc = "plan", !.todo = plan].pc = "plan"
BY DEF Frame, Label

LEMMA ConcludeKeepsIInv ==
  ASSUME IInv, stack # <<>>, NEW plan \in Seq(Step), Conclude(Top, plan), SameFlags,
         ret' \in BOOLEAN, last' = last, exc' = "none"
  PROVE  IInv'
<1>1. PICK f : f = [Top EXCEPT !.pc = "plan", !.todo = plan]
  OBVIOUS
<1>2. f \in Frame /\ f.fn = Top.fn /\ f.c = Top.c /\ f.saved = Top.saved /\ f.pc = "plan"
  BY <1>1, TopFacts, ConcludeType
<1>3. Goto(f)
  BY <1>1 DEF Conclude
<1> QED BY <1>2, <1>3, GotoKeepsIInv

LEMMA SessionSteps ==
  ASSUME IInv, SessionStep
  PROVE  IInv'
<1>1. CASE Start
  <2>1. PICK call \in Calls : OpenSession(<<>>, call)
    BY <1>1 DEF Start
  <2>2. call \in Call
    BY CallsAssumption
  <2>3. stack = <<>> /\ UNCHANGED <<ret, exc, last>>
    BY <1>1 DEF Start
  <2>4. Under(<<>>) /\ exc # "throw"
    BY <2>3 DEF Under, IInv, ThrowFlagged
  <2>5. <<>> \in Seq(Frame)
    OBVIOUS
  <2>6. PICK base \in Seq(Frame) : base = <<>>
    BY <2>5
  <2> QED BY <2>1, <2>2, <2>3, <2>4, <2>6, OpenKeepsIInv
<1>2. CASE ValidateReturns
  <2>1. stack # <<>> /\ Top.fn \in SessionFn /\ "nil" \in Outcome
    BY <1>2 DEF ValidateReturns, At, Running, SessionFn, Outcome
  <2>2. CloseSession("nil") /\ ret' = ret /\ exc' = "none"
    BY <1>2 DEF ValidateReturns, At, Running
  <2>3. ret' \in BOOLEAN
    BY <2>2 DEF IInv, TypeOK
  <2> QED BY <2>1, <2>2, <2>3, CloseKeepsIInv
<1>3. CASE ValidReturns
  <2>1. stack # <<>> /\ Top.fn \in SessionFn /\ (IF ret THEN "true" ELSE "false") \in Outcome
    BY <1>3 DEF ValidReturns, At, Running, SessionFn, Outcome
  <2>2. CloseSession(IF ret THEN "true" ELSE "false") /\ ret' = ret /\ exc' = "none"
    BY <1>3 DEF ValidReturns, At, Running
  <2>3. ret' \in BOOLEAN
    BY <2>2 DEF IInv, TypeOK
  <2> QED BY <2>1, <2>2, <2>3, CloseKeepsIInv
<1>4. CASE ValidCalls
  <2>1. Running /\ EnterIsValid([Top EXCEPT !.pc = "branch"], Top.cs, Top.d)
    BY <1>4 DEF ValidCalls, At
  <2>2. PICK f : f = [Top EXCEPT !.pc = "branch"]
    OBVIOUS
  <2>3. /\ f \in Frame /\ f.fn = Top.fn /\ f.c = Top.c /\ f.saved = Top.saved
        /\ f.loc = Top.loc /\ f.pc = "branch" /\ Top.cs \in Schema /\ Top.d \in Data
    BY <2>1, <2>2, TopFacts DEF Frame, Label, Running
  <2> QED BY <2>1, <2>2, <2>3, EnterIsValidKeepsIInv
<1>5. CASE IsValidReturns
  <2>1. /\ stack # <<>> /\ exc = "none" /\ Top.fn = "is_valid" /\ IsValidEnsure
        /\ ret' = TRUE /\ Return /\ exc' = exc /\ last' = last
    BY <1>5 DEF IsValidReturns, At, Running
  <2>2. FlagsRestored /\ Top.fn \notin SessionFn
    BY <2>1, EnsureRestores DEF SessionFn
  <2> QED BY <2>1, <2>2, ReturnKeepsIInv
<1> QED BY <1>1, <1>2, <1>3, <1>4, <1>5 DEF SessionStep

LEMMA PlanSteps ==
  ASSUME IInv, PlanStep
  PROVE  IInv'
<1>0. stack # <<>> /\ exc = "none" /\ Running
  BY DEF PlanStep, Enter, Perform, PassOver, RaiseError, IncrContext, DecrContext,
         AddToContext, PlanReturns, Pending, Running
<1>1. Top \in Frame /\ Cur \in Context /\ ret \in BOOLEAN
  BY <1>0, TopFacts DEF IInv, TypeOK
<1>2. ASSUME UNCHANGED ctx
      PROVE  SameFlags
  BY <1>2, SameContext
<1>3. ASSUME NEW do, Pending(do)
      PROVE  /\ Head(Top.todo) \in Step
             /\ \A f : f = Advanced =>
                  /\ f \in Frame /\ f.fn = Top.fn /\ f.c = Top.c /\ f.saved = Top.saved
                  /\ f.loc = Top.loc /\ f.pc = "plan"
  <2>1. Top.todo \in Seq(Step) /\ Top.todo # <<>> /\ Top.pc = "plan"
    BY <1>1, <1>3 DEF Frame, Pending
  <2>2. Head(Top.todo) \in Step /\ Tail(Top.todo) \in Seq(Step)
    BY <2>1
  <2> QED BY <1>1, <2>1, <2>2 DEF Advanced, Frame
<1>4. CASE Enter
  <2>1. UNCHANGED <<ctx, ret, exc, last>>
    BY <1>4 DEF Enter
  <2>2. CASE Top.fn \in DecidingFn
    <3>1. PICK f : f = [Top EXCEPT !.pc = "loop"]
      OBVIOUS
    <3>2. f \in Frame /\ f.fn = Top.fn /\ f.c = Top.c /\ f.saved = Top.saved /\ f.pc = "loop"
      BY <1>1, <3>1 DEF Frame, Label
    <3>3. Goto(f)
      BY <1>4, <2>2, <3>1 DEF Enter
    <3> QED BY <1>0, <1>1, <1>2, <2>1, <3>2, <3>3, GotoKeepsIInv
  <2>3. CASE Top.fn \notin DecidingFn
    <3>1. Conclude(Top, Plan(Top.fn, Top.cs, Top.d, Top.i))
      BY <1>4, <2>3 DEF Enter
    <3>2. Top.cs \in Schema /\ Top.d \in Data /\ Top.i \in Nat
      BY <1>1 DEF Frame
    <3>3. Plan(Top.fn, Top.cs, Top.d, Top.i) \in Seq(Step)
      BY <3>2, PlanType
    <3> QED BY <1>0, <1>1, <1>2, <2>1, <3>1, <3>3, ConcludeKeepsIInv
  <2> QED BY <2>2, <2>3
<1>5. CASE Perform
  <2>1. /\ Pending(CallFn) /\ CallStep(Advanced, Head(Top.todo))
        /\ UNCHANGED <<ctx, ret, exc, last>>
    BY <1>5 DEF Perform
  <2>2. PICK f, g : f = Advanced /\ g = NewFrame(Head(Top.todo), f.c, f.loc)
    OBVIOUS
  <2>3. /\ f \in Frame /\ f.fn = Top.fn /\ f.c = Top.c /\ f.saved = Top.saved /\ f.pc = "plan"
        /\ Head(Top.todo) \in Step /\ Head(Top.todo).do \in CallFn
    BY <1>3, <2>1, <2>2 DEF Pending
  <2>4. g.c = Top.c /\ g.pc = "enter" /\ g.fn = Head(Top.todo).do
    BY <2>2, <2>3 DEF NewFrame
  <2>5. g \in Frame
    <3>1. /\ Head(Top.todo).cs \in Schema /\ Head(Top.todo).d \in Data
          /\ Head(Top.todo).err \in ErrorType /\ Head(Top.todo).i \in Nat
          /\ f.c \in Nat /\ f.loc \in Seq(Segment)
          /\ Head(Top.todo).do \in FnName /\ "enter" \in Label
      BY <2>3 DEF Step, Frame, CallFn, Label
    <3>2. <<>> \in Seq(Step)
      OBVIOUS
    <3> QED BY <2>2, <3>1, <3>2 DEF NewFrame, Frame
  <2>6. g.fn \notin SessionFn /\ g.fn # "is_valid"
    BY <2>3, <2>4 DEF CallFn, SessionFn
  <2>7. Pushed(f, g)
    BY <2>1, <2>2 DEF CallStep, Pushed
  <2>8. FlagsWith(g)
    BY <1>2, <2>1, <2>6 DEF FlagsWith, SameFlags
  <2> QED BY <1>0, <2>1, <2>3, <2>4, <2>5, <2>6, <2>7, <2>8, CallKeepsIInv
<1>6. CASE PassOver
  <2>1. Pending({"skip"}) /\ Goto(Advanced) /\ UNCHANGED <<ctx, ret, exc, last>>
    BY <1>6 DEF PassOver
  <2>2. PICK f : f = Advanced
    OBVIOUS
  <2>3. f \in Frame /\ f.fn = Top.fn /\ f.c = Top.c /\ f.saved = Top.saved /\ f.pc = "plan"
    BY <1>3, <2>1, <2>2
  <2> QED BY <1>0, <1>1, <1>2, <2>1, <2>2, <2>3, GotoKeepsIInv
<1>7. CASE RaiseError
  BY <1>7, ExitKeepsIInv DEF RaiseError
<1>8. CASE IncrContext
  <2>1. /\ Pending({"INCR_CONTEXT"}) /\ UNCHANGED <<ret, last>>
        /\ Goto([Advanced EXCEPT !.loc = Append(@, Nil)])
        /\ SetContext([Cur EXCEPT !.depth = @ + 1])
        /\ exc' \in {"none", "raise"}
    BY <1>8 DEF IncrContext
  <2>2. PICK a, f, r : /\ a = Advanced /\ f = [a EXCEPT !.loc = Append(a.loc, Nil)]
                       /\ r = [Cur EXCEPT !.depth = @ + 1]
    OBVIOUS
  <2>3. a \in Frame /\ a.fn = Top.fn /\ a.c = Top.c /\ a.saved = Top.saved /\ a.pc = "plan"
    BY <1>3, <2>1, <2>2
  <2>4. f \in Frame /\ f.fn = Top.fn /\ f.c = Top.c /\ f.saved = Top.saved /\ f.pc = "plan"
    <3>1. Append(a.loc, Nil) \in Seq(Segment)
      BY <2>3 DEF Frame, Segment
    <3> QED BY <2>2, <2>3, <3>1 DEF Frame
  <2>5. r \in Context /\ (r.flag <=> Cur.flag)
    BY <1>1, <2>2 DEF Context
  <2>6. SameFlags
    BY <1>0, <2>1, <2>2, <2>5, SetContextFacts
  <2>7. Goto(f)
    BY <2>1, <2>2
  <2> QED BY <1>0, <1>1, <2>1, <2>4, <2>6, <2>7, GotoKeepsIInv
<1>9. CASE DecrContext
  <2>1. /\ Pending({"DECR_CONTEXT"}) /\ UNCHANGED <<ret, exc, last>>
        /\ Goto([Advanced EXCEPT !.loc = SubSeq(@, 1, Len(@) - 1)])
        /\ SetContext([Cur EXCEPT !.depth = @ - 1])
    BY <1>9 DEF DecrContext
  <2>2. PICK a, f, r : /\ a = Advanced /\ f = [a EXCEPT !.loc = SubSeq(a.loc, 1, Len(a.loc) - 1)]
                       /\ r = [Cur EXCEPT !.depth = @ - 1]
    OBVIOUS
  <2>3. a \in Frame /\ a.fn = Top.fn /\ a.c = Top.c /\ a.saved = Top.saved /\ a.pc = "plan"
    BY <1>3, <2>1, <2>2
  <2>4. f \in Frame /\ f.fn = Top.fn /\ f.c = Top.c /\ f.saved = Top.saved /\ f.pc = "plan"
    <3>1. SubSeq(a.loc, 1, Len(a.loc) - 1) \in Seq(Segment)
      BY <2>3, FrontType DEF Frame
    <3> QED BY <2>2, <2>3, <3>1 DEF Frame
  <2>5. r \in Context /\ (r.flag <=> Cur.flag)
    BY <1>1, <2>2 DEF Context
  <2>6. SameFlags
    BY <1>0, <2>1, <2>2, <2>5, SetContextFacts
  <2>7. Goto(f)
    BY <2>1, <2>2
  <2> QED BY <1>0, <1>1, <2>1, <2>4, <2>6, <2>7, GotoKeepsIInv
<1>10. CASE AddToContext
  <2>1. PICK seg : /\ seg = Head(Top.todo).at
                   /\ Goto([Advanced EXCEPT !.loc = Append(SubSeq(@, 1, Len(@) - 1), seg)])
                   /\ IF Cur.depth \in 0 .. MaxDepth - 1
                        THEN SetContext([Cur EXCEPT !.path[Cur.depth] = seg]) /\ exc' = exc
                        ELSE ctx' = ctx /\ exc' = "overrun"
    BY <1>10 DEF AddToContext
  <2>2. Pending({"ADD_TO_CONTEXT"}) /\ UNCHANGED <<ret, last>>
    BY <1>10 DEF AddToContext
  <2>3. PICK a, f : /\ a = Advanced
                    /\ f = [a EXCEPT !.loc = Append(SubSeq(a.loc, 1, Len(a.loc) - 1), seg)]
    OBVIOUS
  <2>4. /\ a \in Frame /\ a.fn = Top.fn /\ a.c = Top.c /\ a.saved = Top.saved /\ a.pc = "plan"
        /\ seg \in Segment
    BY <1>3, <2>1, <2>2, <2>3 DEF Step
  <2>5. f \in Frame /\ f.fn = Top.fn /\ f.c = Top.c /\ f.saved = Top.saved /\ f.pc = "plan"
    <3>1. SubSeq(a.loc, 1, Len(a.loc) - 1) \in Seq(Segment)
      BY <2>4, FrontType DEF Frame
    <3>2. Append(SubSeq(a.loc, 1, Len(a.loc) - 1), seg) \in Seq(Segment)
      BY <2>4, <3>1
    <3> QED BY <2>3, <2>4, <3>2 DEF Frame
  <2>6. SameFlags
    <3>1. CASE Cur.depth \in 0 .. MaxDepth - 1
      <4>1. PICK r : r = [Cur EXCEPT !.path[Cur.depth] = seg]
        OBVIOUS
      <4>2. r \in Context /\ (r.flag <=> Cur.flag)
        BY <1>1, <2>4, <3>1, <4>1 DEF Context
      <4> QED BY <1>0, <2>1, <3>1, <4>1, <4>2, SetContextFacts
    <3>2. CASE Cur.depth \notin 0 .. MaxDepth - 1
      BY <1>2, <2>1, <3>2
    <3> QED BY <3>1, <3>2
  <2>7. Goto(f) /\ exc' \in {"none", "overrun"}
    BY <1>0, <2>1, <2>3
  <2> QED BY <1>0, <1>1, <2>2, <2>5, <2>6, <2>7, GotoKeepsIInv
<1>11. CASE PlanReturns
  <2>1. /\ Top.fn \notin SessionFn /\ Top.fn # "is_valid" /\ Return
        /\ UNCHANGED <<ctx, ret, exc, last>>
    BY <1>11 DEF PlanReturns
  <2> QED BY <1>0, <1>1, <1>2, <2>1, NothingRestored, ReturnKeepsIInv
<1> QED BY <1>4, <1>5, <1>6, <1>7, <1>8, <1>9, <1>10, <1>11 DEF PlanStep

(* The schemas and values the combinators pass to is_valid, and the plans  *)
(* they end with.                                                          *)
LEMMA BranchListType ==
  ASSUME NEW f \in Frame
  PROVE  BranchList(f) \in Seq(Schema)
<1>1. Compiled[f.cs] \in Struct
  BY StructType DEF Frame
<1> QED BY <1>1 DEF BranchList, Struct, ListKeyword

LEMMA VerdictType ==
  ASSUME NEW f \in Frame
  PROVE  Verdict(f) \in Seq(Plain) /\ ContainsVerdict(f) \in Seq(Plain)
<1>1. f.cs \in Schema /\ f.d \in Data /\ Compiled[f.cs] \in Struct
  BY StructType DEF Frame
<1>2. {"allOf", "anyOf", "oneOf", "contains", "maxContains", "minContains"} \subseteq ErrorType
  BY DEF ErrorType, LimitKeyword
<1>3. Verdict(f) \in Seq(Plain)
  BY <1>1, <1>2, ErrIfType DEF Verdict
<1>4. ContainsVerdict(f) \in Seq(Plain)
  <2> DEFINE c == Compiled[f.cs]
  <2>1. c.sub["contains"] \in Schema
    BY <1>1 DEF Struct, SubKeyword
  <2>2. /\ Limit(f.cs, f.d, "maxContains", f.n > c.limit["maxContains"]) \in Seq(Plain)
        /\ Limit(f.cs, f.d, "minContains", f.n < c.limit["minContains"]) \in Seq(Plain)
    BY <1>1, <1>2, LimitType
  <2>3. ErrIf(~Has(f.cs, "minContains") /\ f.n = 0, c.sub["contains"], f.d, "contains")
          \in Seq(Plain)
    BY <1>1, <1>2, <2>1, ErrIfType
  <2>4. Limit(f.cs, f.d, "maxContains", f.n > c.limit["maxContains"])
          \o Limit(f.cs, f.d, "minContains", f.n < c.limit["minContains"])
          \o ErrIf(~Has(f.cs, "minContains") /\ f.n = 0,
                   c.sub["contains"], f.d, "contains") \in Seq(Plain)
    BY <2>2, <2>3, Concat
  <2> QED BY <2>4 DEF ContainsVerdict
<1> QED BY <1>3, <1>4

LEMMA CombinatorSteps ==
  ASSUME IInv, CombinatorStep
  PROVE  IInv'
<1>0. stack # <<>> /\ exc = "none" /\ Running
  BY DEF CombinatorStep, TryBranch, CountBranch, EndBranches, TryItem, EndContains,
         TryNot, EndNot, TryIf, TryChosen, NothingChosen, EndIf, At, Running
<1>1. /\ Top \in Frame /\ ret \in BOOLEAN /\ Top.cs \in Schema /\ Top.d \in Data
      /\ Top.i \in Nat /\ Top.n \in Nat /\ Compiled[Top.cs] \in Struct
  <2>1. Top \in Frame /\ ret \in BOOLEAN
    BY <1>0, TopFacts DEF IInv, TypeOK
  <2> QED BY <2>1, StructType DEF Frame
<1>2. ASSUME UNCHANGED ctx
      PROVE  SameFlags
  BY <1>2, SameContext
<1>3. \A k \in SubKeyword : Compiled[Top.cs].sub[k] \in Schema
  BY <1>1 DEF Struct
<1>4. ASSUME NEW plan \in Seq(Step), Conclude(Top, plan), UNCHANGED <<ctx, ret, exc, last>>
      PROVE  IInv'
  BY <1>0, <1>1, <1>2, <1>4, ConcludeKeepsIInv
<1>6. ASSUME NEW k \in {"branch", "then", "else"}, NEW i \in Nat, NEW f,
             f = [Top EXCEPT !.pc = k, !.i = i] \/ f = [Top EXCEPT !.pc = k],
             NEW s \in Schema, NEW d \in Data, EnterIsValid(f, s, d)
      PROVE  IInv'
  <2>1. /\ f \in Frame /\ f.fn = Top.fn /\ f.c = Top.c /\ f.saved = Top.saved
        /\ f.loc = Top.loc /\ f.pc = k
    <3>1. k \in Label
      BY DEF Label
    <3>2. CASE f = [Top EXCEPT !.pc = k, !.i = i]
      BY <1>1, <3>1, <3>2 DEF Frame
    <3>3. CASE f = [Top EXCEPT !.pc = k]
      BY <1>1, <3>1, <3>3 DEF Frame
    <3> QED BY <1>6, <3>2, <3>3
  <2> QED BY <1>0, <1>6, <2>1, EnterIsValidKeepsIInv
<1>7. CASE TryBranch
  <2>1. PICK f, s : /\ f = [Top EXCEPT !.pc = "branch", !.i = Top.i + 1]
                    /\ s = BranchList(Top)[Top.i + 1]
    OBVIOUS
  <2>2. EnterIsValid(f, s, Top.d) /\ Top.i < Len(BranchList(Top))
    BY <1>7, <2>1 DEF TryBranch
  <2>3. s \in Schema /\ Top.i + 1 \in Nat
    <3>1. BranchList(Top) \in Seq(Schema)
      BY <1>1, BranchListType
    <3>2. Top.i + 1 \in 1 .. Len(BranchList(Top))
      BY <1>1, <2>2, <3>1
    <3> QED BY <1>1, <2>1, <3>1, <3>2
  <2> QED BY <1>1, <1>6, <2>1, <2>2, <2>3
<1>8. CASE CountBranch
  <2>1. /\ Goto([Top EXCEPT !.pc = "loop", !.n = IF ret THEN @ + 1 ELSE @])
        /\ UNCHANGED <<ctx, ret, exc, last>>
        /\ Top.fn # "yield_error"
    BY <1>8 DEF CountBranch, At, BranchFn
  <2>2. PICK f : f = [Top EXCEPT !.pc = "loop", !.n = IF ret THEN Top.n + 1 ELSE Top.n]
    OBVIOUS
  <2>3. f \in Frame /\ f.fn = Top.fn /\ f.c = Top.c /\ f.saved = Top.saved /\ f.pc = "loop"
    <3>1. (IF ret THEN Top.n + 1 ELSE Top.n) \in Nat
      BY <1>1
    <3> QED BY <1>1, <2>2, <3>1 DEF Frame, Label
  <2>4. Goto(f)
    BY <2>1, <2>2
  <2> QED BY <1>0, <1>1, <1>2, <2>1, <2>3, <2>4, GotoKeepsIInv
<1>9. CASE EndBranches
  <2>1. Conclude(Top, Verdict(Top)) /\ UNCHANGED <<ctx, ret, exc, last>>
    BY <1>9 DEF EndBranches
  <2>2. Verdict(Top) \in Seq(Step)
    BY <1>1, VerdictType, PlainSteps
  <2> QED BY <1>4, <2>1, <2>2
<1>10. CASE TryItem
  <2>1. PICK f, d : /\ f = [Top EXCEPT !.pc = "branch", !.i = Top.i + 1]
                    /\ d = Doc[Top.d].items[Top.i + 1]
    OBVIOUS
  <2>2. EnterIsValid(f, Compiled[Top.cs].sub["contains"], d) /\ Top.i < Len(Doc[Top.d].items)
    BY <1>10, <2>1 DEF TryItem
  <2>3. d \in Data /\ Top.i + 1 \in Nat
    <3>1. Doc[Top.d].items \in Seq(Data)
      BY <1>1, ValueType1 DEF Value
    <3>2. Top.i + 1 \in 1 .. Len(Doc[Top.d].items)
      BY <1>1, <2>2, <3>1
    <3> QED BY <1>1, <2>1, <3>1, <3>2
  <2>4. Compiled[Top.cs].sub["contains"] \in Schema
    BY <1>3 DEF SubKeyword
  <2> QED BY <1>6, <2>1, <2>2, <2>3, <2>4
<1>11. CASE EndContains
  <2>1. Conclude(Top, ContainsVerdict(Top)) /\ UNCHANGED <<ctx, ret, exc, last>>
    BY <1>11 DEF EndContains
  <2>2. ContainsVerdict(Top) \in Seq(Step)
    BY <1>1, VerdictType, PlainSteps
  <2> QED BY <1>4, <2>1, <2>2
<1>12. CASE TryNot
  <2>1. EnterIsValid([Top EXCEPT !.pc = "branch"], Compiled[Top.cs].sub["not"], Top.d)
    BY <1>12 DEF TryNot
  <2>2. Compiled[Top.cs].sub["not"] \in Schema
    BY <1>3 DEF SubKeyword
  <2> QED BY <1>1, <1>6, <2>1, <2>2
<1>13. CASE EndNot
  <2>1. /\ Conclude(Top, ErrIf(ret, Compiled[Top.cs].sub["not"], Top.d, "not"))
        /\ UNCHANGED <<ctx, ret, exc, last>>
    BY <1>13 DEF EndNot
  <2>2. ErrIf(ret, Compiled[Top.cs].sub["not"], Top.d, "not") \in Seq(Step)
    BY <1>1, <1>3, ErrIfType, PlainSteps DEF SubKeyword, ErrorType
  <2> QED BY <1>4, <2>1, <2>2
<1>14. CASE TryIf
  <2>1. EnterIsValid([Top EXCEPT !.pc = "branch"], Compiled[Top.cs].sub["if"], Top.d)
    BY <1>14 DEF TryIf
  <2>2. Compiled[Top.cs].sub["if"] \in Schema
    BY <1>3 DEF SubKeyword
  <2> QED BY <1>1, <1>6, <2>1, <2>2
<1>15. CASE TryChosen
  <2>1. EnterIsValid([Top EXCEPT !.pc = Chosen], Compiled[Top.cs].sub[Chosen], Top.d)
    BY <1>15 DEF TryChosen
  <2>2. Chosen \in {"branch", "then", "else"} /\ Compiled[Top.cs].sub[Chosen] \in Schema
    BY <1>3 DEF SubKeyword, Chosen
  <2> QED BY <1>1, <1>6, <2>1, <2>2
<1>16. CASE NothingChosen
  <2>1. Conclude(Top, <<>>) /\ UNCHANGED <<ctx, ret, exc, last>>
    BY <1>16 DEF NothingChosen
  <2>2. <<>> \in Seq(Step)
    OBVIOUS
  <2> QED BY <1>4, <2>1, <2>2
<1>17. CASE EndIf
  <2>1. PICK type : type = IF Top.pc = "then" THEN "if/then" ELSE "if/else"
    OBVIOUS
  <2>2. /\ Conclude(Top, ErrIf(~ret, Compiled[Top.cs].sub[Top.pc], Top.d, type))
        /\ UNCHANGED <<ctx, ret, exc, last>> /\ Top.pc \in {"then", "else"}
    BY <1>17, <2>1 DEF EndIf
  <2>3. Compiled[Top.cs].sub[Top.pc] \in Schema /\ type \in ErrorType
    BY <1>3, <2>1, <2>2 DEF SubKeyword, ErrorType
  <2>4. ErrIf(~ret, Compiled[Top.cs].sub[Top.pc], Top.d, type) \in Seq(Step)
    BY <1>1, <2>3, ErrIfType, PlainSteps
  <2> QED BY <1>4, <2>2, <2>4
<1> QED BY <1>7, <1>8, <1>9, <1>10, <1>11, <1>12, <1>13, <1>14, <1>15, <1>16, <1>17
        DEF CombinatorStep

LEMMA ErrorSteps ==
  ASSUME IInv, ErrorStep
  PROVE  IInv'
<1>0. stack # <<>> /\ exc = "none" /\ Top.fn = "yield_error"
  BY DEF ErrorStep, ShortCircuit, YieldToBlock, At, Running
<1>1. Top \in Frame /\ Cur \in Context /\ ret \in BOOLEAN
  BY <1>0, TopFacts DEF IInv, TypeOK
<1>2. CASE ShortCircuit
  <2>1. exc' = "throw" /\ UNCHANGED <<stack, ctx, ret, last>> /\ Cur.flag
    BY <1>2 DEF ShortCircuit
  <2>2. ~Protecting(Top)
    BY <1>0 DEF Protecting
  <2> QED BY <1>0, <2>1, <2>2, ExitKeepsIInv
<1>3. CASE YieldToBlock
  <2>1. ~Cur.flag /\ UNCHANGED <<ret, last>>
    BY <1>3 DEF YieldToBlock
  <2>2. CASE UNCHANGED <<stack, ctx>> /\ exc' \in {"overrun", "raise"}
    BY <2>1, <2>2, ExitKeepsIInv
  <2>3. CASE /\ Cur.depth \in 0 .. MaxDepth - 1
             /\ ~\E j \in 0 .. Cur.depth : Cur.path[j] = Nil
    <3>1. PICK e, r, f :
            /\ e = [cs |-> Top.cs, d |-> Top.d, type |-> Top.err,
                    path |-> PathOf(Cur), loc |-> Top.loc, leaks |-> Cur.leaks]
            /\ r = [Cur EXCEPT !.errors = Append(Cur.errors, e)]
            /\ f = [Top EXCEPT !.pc = "block"]
      OBVIOUS
    <3>2. SetContext(r) /\ Goto(f) /\ exc' = exc
      BY <1>3, <2>3, <3>1 DEF YieldToBlock
    <3>3. e \in Error
      <4>1. PathOf(Cur) \in Seq(Segment)
        <5>1. /\ Cur.depth + 1 \in Nat
              /\ \A j \in 1 .. Cur.depth + 1 : Cur.path[j - 1] \in Segment
          BY <1>1, <2>3, MaxDepthAssumption DEF Context
        <5> QED BY <5>1 DEF PathOf
      <4> QED BY <1>1, <3>1, <4>1 DEF Error, Frame, Context
    <3>4. r \in Context /\ (r.flag <=> Cur.flag)
      <4>1. Append(Cur.errors, e) \in Seq(Error)
        BY <1>1, <3>3 DEF Context
      <4> QED BY <1>1, <3>1, <4>1 DEF Context
    <3>5. SameFlags
      BY <1>0, <3>2, <3>4, SetContextFacts
    <3>6. f \in Frame /\ f.fn = Top.fn /\ f.c = Top.c /\ f.saved = Top.saved
      BY <1>1, <3>1 DEF Frame, Label
    <3> QED BY <1>0, <1>1, <2>1, <3>2, <3>5, <3>6, GotoKeepsIInv
  <2> QED BY <1>3, <2>2, <2>3 DEF YieldToBlock
<1> QED BY <1>2, <1>3 DEF ErrorStep

LEMMA FormatErrorType ==
  ASSUME IInv, stack # <<>>
  PROVE  FormatError \in Plain /\ FormatError \in Step
BY PlainSteps, TopFacts, StepTypes DEF FormatError, ErrorType, Frame

LEMMA UserSteps ==
  ASSUME IInv, UserStep
  PROVE  IInv'
<1>0. /\ stack # <<>> /\ exc \in {"none", "raise"}
      /\ Top.fn \in {"yield_error", "validate_custom_format"}
  BY DEF UserStep, UserCodeCalls, BlockReturns, BlockLeaves, UserCodeRescues,
         CallableAnswers, CallableRaises, InBlock, InCallable, At, Running
<1>1. Top \in Frame /\ ret \in BOOLEAN
  BY <1>0, TopFacts DEF IInv, TypeOK
<1>2. ASSUME UNCHANGED ctx
      PROVE  SameFlags
  BY <1>2, SameContext
<1>3. CASE UserCodeCalls
  <2>1. PICK call \in NestedCalls : OpenSession(Replace([Top EXCEPT !.pc = "called"]), call)
    BY <1>3 DEF UserCodeCalls
  <2>2. /\ call \in Call /\ UNCHANGED <<ret, exc, last>>
        /\ Top.fn = "yield_error" => Top.pc = "block"
    BY <1>3, CallsAssumption DEF UserCodeCalls, At
  <2>3. PICK f, base : f = [Top EXCEPT !.pc = "called"] /\ base = Replace(f)
    OBVIOUS
  <2>4. f \in Frame /\ f.fn = Top.fn /\ f.c = Top.c /\ f.saved = Top.saved
    BY <1>1, <2>3 DEF Frame, Label
  <2>5. /\ base \in Seq(Frame) /\ Len(base) = Len(stack) /\ Len(stack) \in Nat \ {0}
        /\ base[Len(stack)] = f
        /\ \A j \in 1 .. Len(stack) - 1 : base[j] = stack[j]
    BY <1>0, <2>3, <2>4, ReplaceFacts DEF IInv, TypeOK
  <2>6. Under(base)
    <3>1. \A j \in 1 .. Len(stack) : j = Len(stack) \/ j \in 1 .. Len(stack) - 1
      BY <2>5
    <3>2. YieldAt(base, Len(stack)) => YieldAt(stack, Len(stack))
      BY <2>2, <2>4, <2>5 DEF YieldAt, Top
    <3>3. \A j \in 1 .. Len(stack) - 1 : YieldAt(base, j) => YieldAt(stack, j)
      BY <2>5 DEF YieldAt
    <3>4. \A j \in 1 .. Len(stack) :
            /\ base[j].fn = stack[j].fn /\ base[j].c = stack[j].c
            /\ base[j].saved = stack[j].saved
      BY <2>4, <2>5, <3>1 DEF Top
    <3>5. \A j \in 1 .. Len(stack) : YieldAt(base, j) => YieldAt(stack, j)
      BY <3>1, <3>2, <3>3
    <3> QED BY <2>5, <3>4, <3>5 DEF Under
  <2> QED BY <1>0, <2>1, <2>2, <2>3, <2>5, <2>6, OpenKeepsIInv
<1>4. CASE BlockReturns
  <2>1. Return /\ UNCHANGED <<ctx, ret, exc, last>> /\ Top.fn = "yield_error"
    BY <1>4 DEF BlockReturns, InBlock
  <2>2. Top.fn \notin SessionFn /\ Top.fn # "is_valid" /\ exc # "throw"
    BY <1>0, <2>1 DEF SessionFn
  <2>3. FlagsRestored
    BY <1>0, <1>2, <2>1, <2>2, NothingRestored
  <2>4. exc' \in {"none", "throw", "raise", "break", "overrun"} /\ exc' # "throw"
    BY <1>0, <2>1
  <2> QED BY <1>0, <1>1, <2>1, <2>2, <2>3, <2>4, ReturnKeepsIInv
<1>5. CASE BlockLeaves
  <2>1. /\ exc' \in {"raise", "break"} /\ UNCHANGED <<ctx, ret, last>>
        /\ Goto([Top EXCEPT !.pc = "block"])
        /\ Top.fn = "yield_error" /\ Top.pc \in {"block", "called"}
    BY <1>5 DEF BlockLeaves, InBlock
  <2>2. PICK f : f = [Top EXCEPT !.pc = "block"]
    OBVIOUS
  <2>3. f \in Frame /\ f.fn = Top.fn /\ f.c = Top.c /\ f.saved = Top.saved
    BY <1>1, <2>2 DEF Frame, Label
  <2> QED BY <1>0, <1>1, <1>2, <2>1, <2>2, <2>3, GotoKeepsIInv
<1>6. CASE UserCodeRescues
  BY <1>6, ExitKeepsIInv DEF UserCodeRescues
<1>7. CASE CallableAnswers
  <2>1. /\ Conclude(Top, When(Top.d \notin Compiled[Top.cs].formatOk, FormatError))
        /\ UNCHANGED <<ctx, ret, exc, last>> /\ exc = "none"
    BY <1>7 DEF CallableAnswers, InCallable, Running
  <2>2. When(Top.d \notin Compiled[Top.cs].formatOk, FormatError) \in Seq(Step)
    BY <1>0, FormatErrorType, WhenType
  <2> QED BY <1>0, <1>1, <1>2, <2>1, <2>2, ConcludeKeepsIInv
<1>8. CASE CallableRaises
  <2>1. /\ exc' = "raise" /\ UNCHANGED <<ctx, ret, last>>
        /\ Goto([Top EXCEPT !.pc = "loop"])
    BY <1>8 DEF CallableRaises
  <2>2. PICK f : f = [Top EXCEPT !.pc = "loop"]
    OBVIOUS
  <2>3. f \in Frame /\ f.fn = Top.fn /\ f.c = Top.c /\ f.saved = Top.saved /\ f.pc = "loop"
    BY <1>1, <2>2 DEF Frame, Label
  <2> QED BY <1>0, <1>1, <1>2, <2>1, <2>2, <2>3, GotoKeepsIInv
<1> QED BY <1>3, <1>4, <1>5, <1>6, <1>7, <1>8 DEF UserStep

(* No throw reaches the frame of validate or valid?.                       *)
LEMMA ThrowsLeaveSessions ==
  ASSUME IInv, stack # <<>>, Top.fn \in SessionFn
  PROVE  exc # "throw"
<1> SUFFICES ASSUME exc = "throw"
             PROVE  FALSE
  OBVIOUS
<1>1. /\ Top.c = Len(ctx) /\ Len(ctx) \in 1 .. Len(ctx) /\ Cur.flag
      /\ stack[Len(stack)] = Top
  BY TopFacts DEF IInv, ThrowFlagged
<1>2. PICK j \in 1 .. Len(stack) : stack[j].fn = "is_valid" /\ stack[j].c = Len(ctx)
  BY <1>1 DEF IInv, FlagIffCatch, Catching, Cur
<1>3. Len(stack) \in 1 .. Len(stack) /\ j # Len(stack) /\ j < Len(stack)
  BY <1>1, <1>2, ReplaceFacts DEF SessionFn, IInv, TypeOK
<1>4. stack[j].c < stack[Len(stack)].c
  BY <1>1, <1>3 DEF IInv, Layered
<1> QED BY <1>1, <1>2, <1>4

LEMMA UnwindSteps ==
  ASSUME IInv, UnwindStep
  PROVE  IInv'
<1>0. stack # <<>> /\ exc \in {"throw", "raise", "break"}
  BY DEF UnwindStep, UnwindIsValid, ProtectStops, UnwindSession, UnwindFrame, Unwinding
<1>1. Top \in Frame /\ Cur \in Context /\ ret \in BOOLEAN
  BY <1>0, TopFacts DEF IInv, TypeOK
<1>2. CASE UnwindIsValid
  <2>1. /\ Top.fn = "is_valid" /\ IsValidEnsure /\ Return /\ last' = last
        /\ IF exc = "throw" THEN ret' = FALSE /\ exc' = "none" ELSE UNCHANGED <<ret, exc>>
    BY <1>2 DEF UnwindIsValid
  <2>2. FlagsRestored /\ Top.fn \notin SessionFn
    BY <1>0, <2>1, EnsureRestores DEF SessionFn
  <2>3. ret' \in BOOLEAN /\ exc' \in {"none", "raise", "break"}
    BY <1>0, <1>1, <2>1
  <2> QED BY <1>0, <2>1, <2>2, <2>3, ReturnKeepsIInv
<1>3. CASE ProtectStops
  <2>1. PICK r : r = [Cur EXCEPT !.disturbed =
                   Cur.disturbed \/ Top.d \in Compiled[Top.cs].formatOk \ Compiled[Top.cs].formatRaise]
    OBVIOUS
  <2>2. /\ exc' = "none" /\ Conclude(Top, <<FormatError>>) /\ SetContext(r)
        /\ UNCHANGED <<ret, last>>
    BY <1>3, <2>1 DEF ProtectStops
  <2>3. r \in Context /\ (r.flag <=> Cur.flag)
    BY <1>1, <2>1 DEF Context
  <2>4. SameFlags
    BY <1>0, <2>2, <2>3, SetContextFacts
  <2>5. <<FormatError>> \in Seq(Step)
    BY <1>0, FormatErrorType
  <2> QED BY <1>0, <1>1, <2>2, <2>4, <2>5, ConcludeKeepsIInv
<1>4. CASE UnwindSession
  <2>1. /\ Top.fn \in SessionFn /\ ret' = ret
        /\ IF exc = "break"
             THEN exc' = "none" /\ CloseSession("broken")
             ELSE /\ exc' = IF Len(stack) = 1 THEN "none" ELSE exc
                  /\ CloseSession("raised")
    BY <1>4 DEF UnwindSession
  <2>2. exc # "throw"
    BY <1>0, <2>1, ThrowsLeaveSessions
  <2>3. {"broken", "raised"} \subseteq Outcome
    BY DEF Outcome
  <2>4. exc' \in {"none", "raise"}
    BY <1>0, <2>1, <2>2
  <2>5. CASE CloseSession("broken")
    BY <1>0, <1>1, <2>1, <2>3, <2>4, <2>5, CloseKeepsIInv
  <2>6. CASE CloseSession("raised")
    BY <1>0, <1>1, <2>1, <2>3, <2>4, <2>6, CloseKeepsIInv
  <2> QED BY <2>1, <2>5, <2>6
<1>5. CASE UnwindFrame
  <2>1. PICK r : r = [Cur EXCEPT !.leaks =
                   Cur.leaks + (Len(Top.loc) - Len(stack[Len(stack) - 1].loc))]
    OBVIOUS
  <2>2. /\ Top.fn \notin SessionFn /\ Top.fn # "is_valid" /\ Return /\ SetContext(r)
        /\ UNCHANGED <<ret, exc, last>>
    BY <1>5, <2>1 DEF UnwindFrame
  <2>3. r \in Context /\ (r.flag <=> Cur.flag)
    <3>1. Len(stack) - 1 \in 1 .. Len(stack) /\ stack \in Seq(Frame)
      <4>1. stack \in Seq(Frame) /\ Len(stack) \in Nat \ {0} /\ stack[Len(stack)] = Top
        BY <1>0, ReplaceFacts, TopFacts DEF IInv, TypeOK
      <4>2. stack[1].fn \in SessionFn
        BY <1>0 DEF IInv, Nested
      <4> QED BY <2>2, <4>1, <4>2
    <3>2. stack[Len(stack) - 1] \in Frame
      BY <3>1
    <3>3. Len(stack[Len(stack) - 1].loc) \in Int /\ Len(Top.loc) \in Int
      BY <1>1, <3>2 DEF Frame
    <3>4. Cur.leaks + (Len(Top.loc) - Len(stack[Len(stack) - 1].loc)) \in Int
      <4>1. PICK x, y, z \in Int : /\ x = Cur.leaks /\ y = Len(Top.loc)
                                   /\ z = Len(stack[Len(stack) - 1].loc)
        BY <1>1, <3>3 DEF Context
      <4>2. x + (y - z) \in Int
        OBVIOUS
      <4> QED BY <4>1, <4>2
    <3> QED BY <1>1, <2>1, <3>4 DEF Context
  <2>4. FlagsRestored
    BY <1>0, <2>2, <2>3, SetContextFacts, NothingRestored
  <2> QED BY <1>0, <1>1, <2>2, <2>4, ReturnKeepsIInv
<1> QED BY <1>2, <1>3, <1>4, <1>5 DEF UnwindStep

(***************************************************************************)
(* The theorems.                                                           *)
(***************************************************************************)
LEMMA InitIInv == Init => IInv
<1> SUFFICES ASSUME Init
             PROVE  IInv
  OBVIOUS
<1>1. /\ stack = <<>> /\ ctx = <<>> /\ exc = "none" /\ Len(stack) = 0 /\ Len(ctx) = 0
      /\ ret \in BOOLEAN /\ last = NoResult
  BY DEF Init
<1>2. TypeOK
  BY <1>1 DEF TypeOK
<1>3. Nested /\ Layered /\ SavedFlags /\ FlagIffCatch /\ ThrowFlagged /\ QuietInsideIsValid
  BY <1>1 DEF Nested, Layered, SavedFlags, FlagIffCatch, ThrowFlagged, QuietInsideIsValid
<1> QED BY <1>2, <1>3 DEF IInv

LEMMA StutterIInv ==
  ASSUME IInv, UNCHANGED vars
  PROVE  IInv'
<1>1. UNCHANGED <<stack, ctx, ret, exc, last>>
  BY DEF vars
<1>2. exc' \in {"none", "throw", "raise", "break", "overrun"}
  BY <1>1 DEF IInv, TypeOK
<1>3. exc' = "throw" => stack # <<>> /\ Cur.flag /\ ~Protecting(Top)
  BY <1>1 DEF IInv, ThrowFlagged
<1> QED BY <1>1, <1>2, <1>3, ExitKeepsIInv

LEMMA NextIInv == IInv /\ [Next]_vars => IInv'
<1> SUFFICES ASSUME IInv, [Next]_vars
             PROVE  IInv'
  OBVIOUS
<1>1. CASE Next
  <2>1. Finished => UNCHANGED vars
    BY DEF Finished
  <2> QED BY <1>1, <2>1, SessionSteps, PlanSteps, CombinatorSteps, ErrorSteps, UserSteps,
             UnwindSteps, StutterIInv DEF Next
<1>2. CASE UNCHANGED vars
  BY <1>2, StutterIInv
<1> QED BY <1>1, <1>2

(* The inductive invariant of the engine: types, the nesting of contexts   *)
(* and frames, and what every is_valid will restore.                       *)
THEOREM Invariance == Spec => []IInv
<1> QED BY InitIInv, NextIInv, PTL DEF Spec

(* Every frame, context, step and error has its type: no plan step names a *)
(* schema, value or segment that does not exist.                           *)
THEOREM TypeCorrect == Spec => []TypeOK
<1>1. IInv => TypeOK
  BY DEF IInv
<1> QED BY <1>1, Invariance, PTL

(* short_circuit_on_error of every live context is set exactly while one   *)
(* of that context's is_valid calls is on the stack.                       *)
THEOREM FlagsFollowCatches == Spec => []FlagIffCatch
<1>1. IInv => FlagIffCatch
  BY DEF IInv
<1> QED BY <1>1, Invariance, PTL

(* No block is ever handed the error of a branch that is only being tried. *)
THEOREM TriedBranchesAreQuiet == Spec => []QuietInsideIsValid
<1>1. IInv => QuietInsideIsValid
  BY DEF IInv
<1> QED BY <1>1, Invariance, PTL

(* A throw is caught by an is_valid of the validation that threw, with no  *)
(* other validation and no protected callable in between.                  *)
THEOREM ThrowsStayInside == Spec => []ThrowOwnCatch
<1>1. IInv => ThrowOwnCatch
  <2> SUFFICES ASSUME IInv, exc = "throw"
               PROVE  \E j \in 1 .. Len(stack) :
                        /\ stack[j].fn = "is_valid"
                        /\ \A k \in j .. Len(stack) :
                             /\ stack[k].c = Len(ctx)
                             /\ stack[k].fn \notin SessionFn
                             /\ ~Protecting(stack[k])
    BY DEF ThrowOwnCatch
  <2>n. PICK n : n = Len(stack)
    OBVIOUS
  <2>1. stack # <<>> /\ Cur.flag /\ ~Protecting(Top)
    BY DEF IInv, ThrowFlagged
  <2>2. Top.c = Len(ctx) /\ Len(ctx) \in 1 .. Len(ctx) /\ stack[n] = Top /\ n \in Nat \ {0}
    BY <2>n, <2>1, TopFacts, ReplaceFacts DEF IInv, TypeOK
  <2>3. PICK j \in 1 .. n : stack[j].fn = "is_valid" /\ stack[j].c = Len(ctx)
    BY <2>n, <2>1, <2>2 DEF IInv, FlagIffCatch, Catching, Cur
  <2>4. ASSUME NEW k \in j .. n
        PROVE  stack[k].c = Len(ctx) /\ stack[k].fn \notin SessionFn /\ ~Protecting(stack[k])
    <3>1. k \in 1 .. n /\ n \in 1 .. n /\ stack[k].c \in 1 .. Len(ctx)
      <4>1. k \in 1 .. n /\ n \in 1 .. n
        BY <2>2, <2>3
      <4> QED BY <2>n, <4>1 DEF IInv, Nested
    <3>2. CASE k = j
      <4>1. ~Protecting(stack[k]) /\ stack[k].fn \notin SessionFn
        BY <2>3, <3>2 DEF Protecting, SessionFn
      <4> QED BY <2>3, <3>2, <4>1
    <3>3. CASE k # j
      <4>1. j < k
        BY <2>2, <2>3, <3>1, <3>3
      <4>2. /\ stack[j].c <= stack[k].c
            /\ stack[k].fn \in SessionFn => stack[j].c < stack[k].c
        BY <2>n, <2>3, <3>1, <4>1 DEF IInv, Layered
      <4>3. stack[k].c = Len(ctx) /\ stack[k].fn \notin SessionFn
        BY <2>2, <2>3, <3>1, <4>2
      <4>4. ~Protecting(stack[k])
        <5>1. CASE k = n
          BY <2>1, <2>2, <5>1
        <5>2. CASE k # n
          <6>1. k < n
            BY <2>2, <3>1, <5>2
          <6>2. Protecting(stack[k]) => stack[k].c < stack[n].c
            BY <2>n, <3>1, <6>1 DEF IInv, Layered
          <6> QED BY <2>2, <4>3, <6>2
        <5> QED BY <5>1, <5>2
      <4> QED BY <4>3, <4>4
    <3> QED BY <3>2, <3>3
  <2> QED BY <2>n, <2>3, <2>4
<1> QED BY <1>1, Invariance, PTL
=============================================================================
