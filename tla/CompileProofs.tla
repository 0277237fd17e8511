--------------------------- MODULE CompileProofs ---------------------------
(***************************************************************************)
(* Proofs about compile(): TreeInv is an invariant of every instance, and  *)
(* what CompilePromises says of memory, slots and $refs follows from it.   *)
(***************************************************************************)
EXTENDS Trees, RubySchemaProofs

(***************************************************************************)
(* The structs reached over links that lead forward.                       *)
(***************************************************************************)
Grown(links, from, s, below) ==
  IF s \in from \/ \E p \in below : s \in links[p] THEN below \cup {s} ELSE below

Grows(links, from, f) ==
  f = [s \in 0 .. Len(links) |-> IF s = 0 THEN {} ELSE Grown(links, from, s, f[s - 1])]

GrowsTo(links, from, n, f) ==
  \A s \in 0 .. n : f[s] = IF s = 0 THEN {} ELSE Grown(links, from, s, f[s - 1])

LEMMA GrowthExists ==
  ASSUME NEW links, Len(links) \in Nat, NEW from
  PROVE  \E f : Grows(links, from, f)
<1>1. PICK Good : Good = {n \in Nat : \E f \in [0 .. n -> SUBSET Nat] : GrowsTo(links, from, n, f)}
  OBVIOUS
<1>2. 0 \in Good
  <2>1. PICK f : f = [i \in 0 .. 0 |-> {}]
    OBVIOUS
  <2>2. f \in [0 .. 0 -> SUBSET Nat] /\ GrowsTo(links, from, 0, f)
    BY <2>1 DEF GrowsTo
  <2> QED BY <1>1, <2>2
<1>3. ASSUME NEW n \in Nat, n \in Good PROVE n + 1 \in Good
  <2>1. PICK f \in [0 .. n -> SUBSET Nat] : GrowsTo(links, from, n, f)
    BY <1>1, <1>3
  <2>2. PICK last : last = Grown(links, from, n + 1, f[n])
    OBVIOUS
  <2>3. last \in SUBSET Nat
    BY <2>1, <2>2 DEF Grown
  <2>4. PICK g : g = [i \in 0 .. n + 1 |-> IF i \in 0 .. n THEN f[i] ELSE last]
    OBVIOUS
  <2>5. g \in [0 .. n + 1 -> SUBSET Nat]
    BY <2>3, <2>4
  <2>6. ASSUME NEW i \in 0 .. n + 1
        PROVE  g[i] = IF i = 0 THEN {} ELSE Grown(links, from, i, g[i - 1])
    <3>1. CASE i \in 0 .. n
      <4>1. g[i] = f[i] /\ (i # 0 => i - 1 \in 0 .. n /\ i - 1 \in 0 .. n + 1 /\ g[i - 1] = f[i - 1])
        BY <2>4, <3>1
      <4> QED BY <2>1, <3>1, <4>1 DEF GrowsTo
    <3>2. CASE i \notin 0 .. n
      <4>1. i = n + 1 /\ i - 1 = n /\ i # 0 /\ n \in 0 .. n + 1 /\ n \in 0 .. n
        BY <3>2
      <4>2. g[i] = last /\ g[n] = f[n]
        BY <2>4, <3>2, <4>1
      <4> QED BY <2>2, <4>1, <4>2
    <3> QED BY <3>1, <3>2
  <2>7. GrowsTo(links, from, n + 1, g)
    BY <2>6 DEF GrowsTo
  <2> QED BY <1>1, <2>5, <2>7
<1>4. Len(links) \in Good
  BY <1>2, <1>3, Induction
<1>5. PICK f \in [0 .. Len(links) -> SUBSET Nat] : GrowsTo(links, from, Len(links), f)
  BY <1>1, <1>4
<1>6. Grows(links, from, f)
  BY <1>5 DEF Grows, GrowsTo
<1> QED BY <1>6

LEMMA ReachIs ==
  ASSUME NEW links, NEW n \in Nat, Len(links) = n, NEW from
  PROVE  /\ Reach(links, from) \subseteq 1 .. n
         /\ \A s \in 1 .. n :
              s \in Reach(links, from) <=>
                s \in from \/ \E p \in Reach(links, from) : p < s /\ s \in links[p]
<1>1. PICK f : f = CHOOSE g : Grows(links, from, g)
  OBVIOUS
<1>2. Grows(links, from, f)
  BY <1>1, GrowthExists
<1>3. Reach(links, from) = f[n]
  BY <1>1 DEF Reach, Grows, Grown
<1>4. f[0] = {} /\ \A s \in 1 .. n : f[s] = Grown(links, from, s, f[s - 1])
  <2>1. \A s \in 0 .. n : f[s] = IF s = 0 THEN {} ELSE Grown(links, from, s, f[s - 1])
    BY <1>2 DEF Grows
  <2>2. 0 \in 0 .. n /\ \A s \in 1 .. n : s \in 0 .. n /\ s # 0
    OBVIOUS
  <2> QED BY <2>1, <2>2
<1>5. PICK Good : Good = {m \in Nat : m <= n =>
        /\ f[m] \subseteq 1 .. m
        /\ \A s \in 1 .. m : s \in f[m] <=> s \in from \/ \E p \in f[m] : p < s /\ s \in links[p]}
  OBVIOUS
<1>6. 0 \in Good
  <2>1. 1 .. 0 = {}
    OBVIOUS
  <2> QED BY <1>4, <1>5, <2>1
<1>7. ASSUME NEW m \in Nat, m \in Good PROVE m + 1 \in Good
  <2> SUFFICES ASSUME m + 1 <= n
               PROVE  /\ f[m + 1] \subseteq 1 .. m + 1
                      /\ \A s \in 1 .. m + 1 : s \in f[m + 1] <=>
                           s \in from \/ \E p \in f[m + 1] : p < s /\ s \in links[p]
    BY <1>5
  <2>1. /\ f[m] \subseteq 1 .. m
        /\ \A s \in 1 .. m : s \in f[m] <=> s \in from \/ \E p \in f[m] : p < s /\ s \in links[p]
    BY <1>5, <1>7
  <2>2. f[m + 1] = Grown(links, from, m + 1, f[m])
    <3>1. PICK s \in 1 .. n : s = m + 1 /\ s - 1 = m
      OBVIOUS
    <3>2. f[s] = Grown(links, from, s, f[s - 1])
      BY <1>4
    <3> QED BY <3>1, <3>2
  <2>3. PICK a, b : a = f[m] /\ b = f[m + 1] /\ b = Grown(links, from, m + 1, a)
    BY <2>2
  <2>4. /\ a \subseteq 1 .. m /\ a \subseteq b /\ b \subseteq a \cup {m + 1}
        /\ m + 1 \in b <=> m + 1 \in from \/ \E p \in a : m + 1 \in links[p]
        /\ m + 1 \notin a
    BY <2>1, <2>3 DEF Grown
  <2>5. \A p \in b : p < m + 1 => p \in a
    BY <2>4
  <2>6. \A p \in a : p < m + 1
    BY <2>4
  <2>7. ASSUME NEW s \in 1 .. m + 1
        PROVE  s \in b <=> s \in from \/ \E p \in b : p < s /\ s \in links[p]
    <3>1. CASE s = m + 1
      BY <2>4, <2>5, <2>6, <3>1
    <3>2. CASE s \in 1 .. m
      <4>1. s \in b <=> s \in a
        BY <2>4, <3>2
      <4>2. \A p \in b : p < s => p \in a
        BY <2>4, <3>2
      <4>3. s \in a <=> s \in from \/ \E p \in a : p < s /\ s \in links[p]
        BY <2>1, <2>3, <3>2
      <4> QED BY <2>4, <4>1, <4>2, <4>3
    <3>3. s = m + 1 \/ s \in 1 .. m
      OBVIOUS
    <3> QED BY <3>1, <3>2, <3>3
  <2>8. b \subseteq 1 .. m + 1
    BY <2>4
  <2> QED BY <2>3, <2>7, <2>8
<1>8. n \in Good
  BY <1>6, <1>7, Induction
<1> QED BY <1>3, <1>5, <1>8

(***************************************************************************)
(* What each kind of change of the structs does to a sound heap h: the     *)
(* heap g after it.                                                        *)
(***************************************************************************)
SameLinks(a, b) == a.single = b.single /\ a.lists = b.lists /\ a.nested = b.nested
SameLife(a, b) == a.expose = b.expose /\ a.swept = b.swept /\ a.frees = b.frees

LEMMA LinksSame ==
  ASSUME NEW a, NEW b, SameLinks(a, b)
  PROVE  Owned(a) = Owned(b) /\ Wrapped(a) = Wrapped(b)
BY DEF SameLinks, Owned, Wrapped

LEMMA LinksInIs ==
  ASSUME NEW h, NEW n \in Nat, Len(h) = n
  PROVE  /\ DOMAIN LinksIn(h) = 1 .. n
         /\ \A p \in 1 .. n : LinksIn(h)[p] = Owned(h[p]) \cup Wrapped(h[p])
BY DEF LinksIn

LEMMA LengthIs ==
  ASSUME NEW n \in Nat, NEW f, DOMAIN f = 1 .. n, f = [i \in 1 .. n |-> f[i]]
  PROVE  Len(f) = n
<1>1. PICK V : V = {f[i] : i \in 1 .. n}
  OBVIOUS
<1>2. f \in [1 .. n -> V]
  BY <1>1
<1>3. f \in Seq(V)
  BY <1>2
<1> QED BY <1>3

LEMMA LinksInLen ==
  ASSUME NEW h, NEW n \in Nat, Len(h) = n
  PROVE  Len(LinksIn(h)) = n
<1>1. PICK f : f = LinksIn(h)
  OBVIOUS
<1>2. DOMAIN f = 1 .. n /\ f = [i \in 1 .. n |-> f[i]]
  BY <1>1 DEF LinksIn
<1> QED BY <1>1, <1>2, LengthIs

(* Soundness, spelled out.                                                 *)
SoundParts(h, held, r, n) ==
  /\ \A p \in 1 .. n : \A s \in Owned(h[p]) \cup Wrapped(h[p]) :
       p < s /\ s \in 1 .. n /\ (Young(r, s) => Young(r, p))
  /\ \A s \in 1 .. n : Young(r, s) =>
       s \in held \/ \E p \in 1 .. n : Young(r, p) /\ s \in Owned(h[p]) \cup Wrapped(h[p])
  /\ Owners(h)
  /\ \A s \in 1 .. n : Young(r, s) => h[s].frees = 0

LEMMA SoundIs ==
  ASSUME NEW h, NEW n \in Nat, Len(h) = n, NEW held, NEW r
  PROVE  Sound(h, held, r) <=> SoundParts(h, held, r, n)
<1>1. /\ DOMAIN LinksIn(h) = 1 .. n
      /\ \A p \in 1 .. n : LinksIn(h)[p] = Owned(h[p]) \cup Wrapped(h[p])
  BY LinksInIs
<1>2. Forward(LinksIn(h), r) <=>
        \A p \in 1 .. n : \A s \in Owned(h[p]) \cup Wrapped(h[p]) :
          p < s /\ s \in 1 .. n /\ (Young(r, s) => Young(r, p))
  BY <1>1 DEF Forward
<1>3. Connected(LinksIn(h), held, r) <=>
        \A s \in 1 .. n : Young(r, s) =>
          s \in held \/ \E p \in 1 .. n : Young(r, p) /\ s \in Owned(h[p]) \cup Wrapped(h[p])
  BY <1>1 DEF Connected
<1> QED BY <1>2, <1>3 DEF Sound, SoundParts

(* Nothing about links or freeing changes.                                 *)
LEMMA EditSound ==
  ASSUME NEW h, NEW g, NEW n \in Nat, Len(h) = n, Len(g) = n,
         \A s \in 1 .. n : SameLinks(h[s], g[s]) /\ SameLife(h[s], g[s]),
         NEW held, NEW more, held \subseteq more, NEW r, Sound(h, held, r)
  PROVE  Sound(g, more, r)
<1>1. SoundParts(h, held, r, n)
  BY SoundIs
<1>2. \A s \in 1 .. n : Owned(g[s]) = Owned(h[s]) /\ Wrapped(g[s]) = Wrapped(h[s])
  BY LinksSame
<1>3. Owners(g)
  BY <1>1, <1>2 DEF SoundParts, Owners, SameLife
<1>4. SoundParts(g, more, r, n)
  BY <1>1, <1>2, <1>3 DEF SoundParts, SameLife
<1> QED BY <1>4, SoundIs

(* A new struct that s owns, or one with a wrapper that is held.           *)
Adds(h, g, n, s, more) ==
  /\ n \in Nat /\ Len(h) = n /\ Len(g) = n + 1 /\ s \in 1 .. n
  /\ \A t \in 1 .. n : SameLife(h[t], g[t]) /\ (t # s => SameLinks(h[t], g[t]))
  /\ Wrapped(g[s]) = Wrapped(h[s]) /\ Owned(g[n + 1]) = {} /\ Wrapped(g[n + 1]) = {}
  /\ g[n + 1].frees = 0 /\ g[n + 1].swept = FALSE
  /\ \/ g[n + 1].expose = FALSE /\ Owned(g[s]) = Owned(h[s]) \cup {n + 1}
     \/ g[n + 1].expose = TRUE /\ Owned(g[s]) = Owned(h[s]) /\ n + 1 \in more

LEMMA GrowSound ==
  ASSUME NEW h, NEW g, NEW n, NEW s, NEW more, Adds(h, g, n, s, more),
         NEW r \in Nat, Young(r, s), NEW held, held \subseteq more, Sound(h, held, r)
  PROVE  Sound(g, more, r)
<1>0. /\ n \in Nat /\ Len(h) = n /\ Len(g) = n + 1 /\ s \in 1 .. n
      /\ \A t \in 1 .. n : SameLife(h[t], g[t]) /\ (t # s => SameLinks(h[t], g[t]))
      /\ Wrapped(g[s]) = Wrapped(h[s]) /\ Owned(g[n + 1]) = {} /\ Wrapped(g[n + 1]) = {}
      /\ g[n + 1].frees = 0 /\ g[n + 1].swept = FALSE
      /\ \/ g[n + 1].expose = FALSE /\ Owned(g[s]) = Owned(h[s]) \cup {n + 1}
         \/ g[n + 1].expose = TRUE /\ Owned(g[s]) = Owned(h[s]) /\ n + 1 \in more
  BY DEF Adds
<1>1. SoundParts(h, held, r, n)
  BY <1>0, SoundIs
<1>2. PICK z : z = n + 1
  BY <1>0
<1>3. /\ z \notin 1 .. n /\ z \in Nat /\ \A t \in 1 .. n : t < z
      /\ \A t \in 1 .. n + 1 : t \in 1 .. n \/ t = z
      /\ 1 .. n + 1 = 1 .. n \cup {z}
  BY <1>0, <1>2
<1>4. \A t \in 1 .. n : t # s => Owned(g[t]) = Owned(h[t]) /\ Wrapped(g[t]) = Wrapped(h[t])
  BY <1>0, LinksSame
<1>5. /\ \A t \in 1 .. n : Wrapped(g[t]) = Wrapped(h[t])
      /\ \A t \in 1 .. n : Owned(h[t]) \subseteq Owned(g[t]) /\ Owned(g[t]) \subseteq Owned(h[t]) \cup {z}
      /\ \A t \in 1 .. n : z \in Owned(g[t]) => t = s
      /\ \A t \in 1 .. n : Owned(h[t]) \cup Wrapped(h[t]) \subseteq 1 .. n
  <2>1. \A t \in 1 .. n : Owned(h[t]) \cup Wrapped(h[t]) \subseteq 1 .. n
    BY <1>0, <1>1 DEF SoundParts
  <2> QED BY <1>0, <2>1, <1>2, <1>3, <1>4
<1>6. Owned(g[z]) = {} /\ Wrapped(g[z]) = {}
  BY <1>0, <1>2
<1>7. \A p \in 1 .. n + 1 : \A t \in Owned(g[p]) \cup Wrapped(g[p]) :
        p < t /\ t \in 1 .. n + 1 /\ (Young(r, t) => Young(r, p))
  <2> SUFFICES ASSUME NEW p \in 1 .. n, NEW t \in Owned(g[p]) \cup Wrapped(g[p])
               PROVE  p < t /\ t \in 1 .. n + 1 /\ (Young(r, t) => Young(r, p))
    BY <1>0, <1>3, <1>6
  <2>1. CASE t \in Owned(h[p]) \cup Wrapped(h[p])
    BY <1>0, <1>1, <1>3, <2>1 DEF SoundParts
  <2>2. CASE t = z /\ p = s
    BY <1>0, <1>2, <1>3, <2>2
  <2> QED BY <1>0, <1>5, <2>1, <2>2
<1>8. \A t \in 1 .. n + 1 : Young(r, t) =>
        t \in more \/ \E p \in 1 .. n + 1 : Young(r, p) /\ t \in Owned(g[p]) \cup Wrapped(g[p])
  <2> SUFFICES ASSUME NEW t \in 1 .. n + 1, Young(r, t), t \notin more
               PROVE  \E p \in 1 .. n : Young(r, p) /\ t \in Owned(g[p]) \cup Wrapped(g[p])
    BY <1>0, <1>3
  <2>1. CASE t \in 1 .. n
    BY <1>0, <1>1, <1>5, <2>1 DEF SoundParts
  <2>2. CASE t = z
    BY <1>0, <1>2, <2>2
  <2> QED BY <1>0, <1>3, <2>1, <2>2
<1>9. \A t \in 1 .. n + 1 : Young(r, t) => g[t].frees = 0
  BY <1>0, <1>1, <1>2, <1>3 DEF SoundParts, SameLife
<1>10. Owners(g)
  <2>0. Owners(h)
    BY <1>0, <1>1 DEF SoundParts
  <2>a. /\ \A p, q \in 1 .. n : \A t \in Owned(h[p]) : t \in Owned(h[q]) => p = q
        /\ \A p \in 1 .. n : \A t \in Owned(h[p]) :
             ~h[t].expose /\ h[t].frees = h[p].frees
        /\ \A t \in 1 .. n : ~h[t].expose => \E p \in 1 .. n : t \in Owned(h[p])
        /\ \A t \in 1 .. n : h[t].expose => h[t].frees = IF h[t].swept THEN 1 ELSE 0
    BY <1>0, <2>0 DEF Owners
  <2>1. \A p, q \in 1 .. n + 1 : \A t \in Owned(g[p]) : t \in Owned(g[q]) => p = q
    <3> SUFFICES ASSUME NEW p \in 1 .. n, NEW q \in 1 .. n, NEW t, t \in Owned(g[p]), t \in Owned(g[q])
                 PROVE  p = q
      BY <1>0, <1>3, <1>6
    <3>1. CASE t = z
      BY <1>0, <1>5, <3>1
    <3>2. CASE t # z
      BY <1>0, <1>5, <2>a, <3>2
    <3> QED BY <1>0, <3>1, <3>2
  <2>2. \A p \in 1 .. n + 1 : \A t \in Owned(g[p]) : ~g[t].expose /\ g[t].frees = g[p].frees
    <3> SUFFICES ASSUME NEW p \in 1 .. n, NEW t \in Owned(g[p])
                 PROVE  ~g[t].expose /\ g[t].frees = g[p].frees
      BY <1>0, <1>3, <1>6
    <3>1. CASE t \in Owned(h[p])
      <4>1. t \in 1 .. n
        BY <1>0, <1>5, <3>1
      <4> QED BY <1>0, <2>a, <3>1, <4>1 DEF SameLife
    <3>2. CASE t = z /\ t \notin Owned(h[p])
      <4>1. p = s /\ Owned(g[s]) # Owned(h[s])
        BY <1>0, <1>5, <3>2
      <4>2. g[z].expose = FALSE /\ g[z].frees = 0
        BY <1>0, <1>2, <4>1
      <4>3. g[s].frees = 0
        BY <1>0, <1>1 DEF SoundParts, SameLife
      <4> QED BY <1>0, <3>2, <4>1, <4>2, <4>3
    <3> QED BY <1>0, <1>5, <3>1, <3>2
  <2>3. \A t \in 1 .. n + 1 : ~g[t].expose => \E p \in 1 .. n + 1 : t \in Owned(g[p])
    <3> SUFFICES ASSUME NEW t \in 1 .. n + 1, ~g[t].expose
                 PROVE  \E p \in 1 .. n : t \in Owned(g[p])
      BY <1>0, <1>3
    <3>1. CASE t \in 1 .. n
      BY <1>0, <1>5, <2>a, <3>1 DEF SameLife
    <3>2. CASE t = z
      BY <1>0, <1>2, <3>2
    <3> QED BY <1>0, <1>3, <3>1, <3>2
  <2>4. \A t \in 1 .. n + 1 : g[t].expose => g[t].frees = IF g[t].swept THEN 1 ELSE 0
    BY <1>0, <1>2, <1>3, <2>a DEF SameLife
  <2> QED BY <1>0, <2>1, <2>2, <2>3, <2>4 DEF Owners
<1>11. SoundParts(g, more, r, n + 1)
  BY <1>0, <1>7, <1>8, <1>9, <1>10 DEF SoundParts
<1> QED BY <1>0, <1>11, SoundIs

(* Wrappers move from the stack into a list of s.                          *)
Stores(h, g, n, s, new) ==
  /\ n \in Nat /\ Len(h) = n /\ Len(g) = n /\ s \in 1 .. n
  /\ \A t \in 1 .. n : SameLife(h[t], g[t]) /\ (t # s => SameLinks(h[t], g[t]))
  /\ Owned(g[s]) = Owned(h[s]) /\ Wrapped(g[s]) = Wrapped(h[s]) \cup new
  /\ \A w \in new : s < w /\ w \in 1 .. n

LEMMA StoreSound ==
  ASSUME NEW h, NEW g, NEW n, NEW s, NEW new, Stores(h, g, n, s, new), NEW r, Young(r, s),
         NEW held, NEW less, held \subseteq less \cup new, Sound(h, held, r)
  PROVE  Sound(g, less, r)
<1>0. /\ n \in Nat /\ Len(h) = n /\ Len(g) = n /\ s \in 1 .. n
      /\ \A t \in 1 .. n : SameLife(h[t], g[t]) /\ (t # s => SameLinks(h[t], g[t]))
      /\ Owned(g[s]) = Owned(h[s]) /\ Wrapped(g[s]) = Wrapped(h[s]) \cup new
      /\ \A w \in new : s < w /\ w \in 1 .. n
  BY DEF Stores
<1>1. SoundParts(h, held, r, n)
  BY <1>0, SoundIs
<1>2. \A t \in 1 .. n : t # s => Owned(g[t]) = Owned(h[t]) /\ Wrapped(g[t]) = Wrapped(h[t])
  BY <1>0, LinksSame
<1>3. \A t \in 1 .. n : Owned(g[t]) = Owned(h[t])
  BY <1>0, <1>2
<1>4. Owners(g)
  BY <1>0, <1>1, <1>3 DEF SoundParts, Owners, SameLife
<1>5. \A p \in 1 .. n : \A t \in Owned(g[p]) \cup Wrapped(g[p]) :
        p < t /\ t \in 1 .. n /\ (Young(r, t) => Young(r, p))
  <2> SUFFICES ASSUME NEW p \in 1 .. n, NEW t \in Owned(g[p]) \cup Wrapped(g[p])
               PROVE  p < t /\ t \in 1 .. n /\ (Young(r, t) => Young(r, p))
    BY <1>0
  <2>1. CASE t \in Owned(h[p]) \cup Wrapped(h[p])
    BY <1>0, <1>1, <2>1 DEF SoundParts
  <2>2. CASE p = s /\ t \in new
    BY <1>0, <2>2
  <2> QED BY <1>0, <1>2, <2>1, <2>2
<1>6. \A t \in 1 .. n : Young(r, t) =>
        t \in less \/ \E p \in 1 .. n : Young(r, p) /\ t \in Owned(g[p]) \cup Wrapped(g[p])
  <2> SUFFICES ASSUME NEW t \in 1 .. n, Young(r, t), t \notin less
               PROVE  \E p \in 1 .. n : Young(r, p) /\ t \in Owned(g[p]) \cup Wrapped(g[p])
    BY <1>0
  <2>1. CASE t \in new
    BY <1>0, <2>1
  <2>2. CASE t \notin new
    <3>1. PICK p \in 1 .. n : Young(r, p) /\ t \in Owned(h[p]) \cup Wrapped(h[p])
      BY <1>0, <1>1, <2>2 DEF SoundParts
    <3>2. t \in Owned(g[p]) \cup Wrapped(g[p])
      BY <1>0, <1>2, <3>1
    <3> QED BY <1>0, <3>1, <3>2
  <2> QED BY <1>0, <2>1, <2>2
<1>7. SoundParts(g, less, r, n)
  BY <1>0, <1>1, <1>4, <1>5, <1>6 DEF SoundParts, SameLife
<1> QED BY <1>0, <1>7, SoundIs

(* The tree is given up, or let go.                                        *)
LEMMA AbandonSound ==
  ASSUME NEW h, NEW n \in Nat, Len(h) = n, NEW held, NEW less, NEW r, Sound(h, held, r)
  PROVE  Sound(h, less, 0)
<1>1. SoundParts(h, held, r, n)
  BY SoundIs
<1>2. \A s : ~Young(0, s)
  BY DEF Young
<1>3. SoundParts(h, less, 0, n)
  BY <1>1, <1>2 DEF SoundParts
<1> QED BY <1>3, SoundIs

(* A new tree is begun.                                                    *)
LEMMA BeginSound ==
  ASSUME NEW h, NEW g, NEW n \in Nat, Len(h) = n, Len(g) = n + 1,
         \A t \in 1 .. n : g[t] = h[t],
         Owned(g[n + 1]) = {}, Wrapped(g[n + 1]) = {},
         g[n + 1].expose = TRUE, g[n + 1].frees = 0, g[n + 1].swept = FALSE,
         NEW held, NEW more, n + 1 \in more, NEW r, Sound(h, held, r)
  PROVE  Sound(g, more, n + 1)
<1>1. SoundParts(h, held, r, n)
  BY SoundIs
<1>2. PICK z \in Nat : z = n + 1
  OBVIOUS
<1>3. /\ z \notin 1 .. n /\ \A t \in 1 .. n + 1 : t \in 1 .. n \/ t = z
      /\ \A t \in 1 .. n : t \in 1 .. n + 1
      /\ \A t \in 1 .. n + 1 : Young(z, t) <=> t = z
  BY <1>2 DEF Young
<1>4. /\ Owned(g[z]) = {} /\ Wrapped(g[z]) = {} /\ g[z].expose = TRUE
      /\ g[z].frees = 0 /\ g[z].swept = FALSE
  BY <1>2
<1>5. \A p \in 1 .. n : Owned(h[p]) \cup Wrapped(h[p]) \subseteq 1 .. n
  BY <1>1 DEF SoundParts
<1>6. Owners(g)
  <2>0. Owners(h)
    BY <1>1 DEF SoundParts
  <2>1. \A p, q \in 1 .. n + 1 : \A t \in Owned(g[p]) : t \in Owned(g[q]) => p = q
    BY <1>3, <1>4, <2>0 DEF Owners
  <2>2. \A p \in 1 .. n + 1 : \A t \in Owned(g[p]) : ~g[t].expose /\ g[t].frees = g[p].frees
    <3> SUFFICES ASSUME NEW p \in 1 .. n, NEW t \in Owned(g[p])
                 PROVE  ~g[t].expose /\ g[t].frees = g[p].frees
      BY <1>3, <1>4
    <3>1. t \in 1 .. n /\ t \in Owned(h[p])
      BY <1>5
    <3> QED BY <2>0, <3>1 DEF Owners
  <2>3. \A t \in 1 .. n + 1 : ~g[t].expose => \E p \in 1 .. n + 1 : t \in Owned(g[p])
    <3> SUFFICES ASSUME NEW t \in 1 .. n, ~g[t].expose
                 PROVE  \E p \in 1 .. n : t \in Owned(g[p])
      BY <1>3, <1>4
    <3>1. PICK p \in 1 .. n : t \in Owned(h[p])
      BY <2>0 DEF Owners
    <3> QED BY <3>1
  <2>4. \A t \in 1 .. n + 1 : g[t].expose => g[t].frees = IF g[t].swept THEN 1 ELSE 0
    BY <1>3, <1>4, <2>0 DEF Owners
  <2> QED BY <2>1, <2>2, <2>3, <2>4 DEF Owners
<1>7. \A p \in 1 .. n + 1 : \A t \in Owned(g[p]) \cup Wrapped(g[p]) :
        p < t /\ t \in 1 .. n + 1 /\ (Young(z, t) => Young(z, p))
  <2> SUFFICES ASSUME NEW p \in 1 .. n, NEW t \in Owned(g[p]) \cup Wrapped(g[p])
               PROVE  p < t /\ t \in 1 .. n + 1 /\ (Young(z, t) => Young(z, p))
    BY <1>3, <1>4
  <2>1. t \in Owned(h[p]) \cup Wrapped(h[p]) /\ t \in 1 .. n /\ p < t
    BY <1>1 DEF SoundParts
  <2> QED BY <1>3, <2>1
<1>8. \A t \in 1 .. n + 1 : Young(z, t) => t \in more /\ g[t].frees = 0
  BY <1>2, <1>3, <1>4
<1>9. SoundParts(g, more, z, n + 1)
  BY <1>6, <1>7, <1>8 DEF SoundParts
<1> QED BY <1>2, <1>9, SoundIs

(* All of the tree in use is marked, and nothing else is.                  *)
LEMMA YoungMarked ==
  ASSUME NEW h, NEW n \in Nat, Len(h) = n, NEW held, NEW r, Sound(h, held, r)
  PROVE  \A s \in 1 .. n : Young(r, s) => s \in Reach(LinksIn(h), held)
<1>1. SoundParts(h, held, r, n)
  BY SoundIs
<1>2. PICK links : links = LinksIn(h) /\ Len(links) = n
  BY LinksInLen
<1>3. \A p \in 1 .. n : links[p] = Owned(h[p]) \cup Wrapped(h[p])
  BY <1>2, LinksInIs
<1>4. PICK M : M = Reach(links, held)
  OBVIOUS
<1>5. \A s \in 1 .. n : s \in M <=> s \in held \/ \E p \in M : p < s /\ s \in links[p]
  BY <1>2, <1>4, ReachIs
<1>6. ASSUME NEW t \in 1 .. n, Young(r, t), t \notin M PROVE FALSE
  <2>1. PICK T : T = {s \in 1 .. n : Young(r, s) /\ s \notin M}
    OBVIOUS
  <2>2. T \subseteq Nat /\ T # {}
    BY <1>6, <2>1
  <2>3. PICK s \in T : \A u \in T : s <= u
    BY <2>2, Least
  <2>4. s \in 1 .. n /\ Young(r, s) /\ s \notin M
    BY <2>1, <2>3
  <2>5. PICK p \in 1 .. n : Young(r, p) /\ s \in Owned(h[p]) \cup Wrapped(h[p])
    BY <1>1, <1>5, <2>4 DEF SoundParts
  <2>6. p < s
    BY <1>1, <2>5 DEF SoundParts
  <2>7. p \in M
    BY <2>1, <2>3, <2>4, <2>5, <2>6
  <2> QED BY <1>3, <1>5, <2>4, <2>5, <2>6, <2>7
<1> QED BY <1>2, <1>4, <1>6

LEMMA MarkedYoung ==
  ASSUME NEW h, NEW n \in Nat, Len(h) = n, NEW held, NEW r \in Nat, Sound(h, held, r),
         \A s \in held : Young(r, s)
  PROVE  \A s \in Reach(LinksIn(h), held) : Young(r, s) /\ s \in 1 .. n
<1>1. SoundParts(h, held, r, n)
  BY SoundIs
<1>2. PICK links : links = LinksIn(h) /\ Len(links) = n
  BY LinksInLen
<1>3. \A p \in 1 .. n : links[p] = Owned(h[p]) \cup Wrapped(h[p])
  BY <1>2, LinksInIs
<1>4. PICK M : M = Reach(links, held)
  OBVIOUS
<1>5. /\ M \subseteq 1 .. n
      /\ \A s \in 1 .. n : s \in M <=> s \in held \/ \E p \in M : p < s /\ s \in links[p]
  BY <1>2, <1>4, ReachIs
<1>6. ASSUME NEW t \in M, ~Young(r, t) PROVE FALSE
  <2>1. PICK T : T = {s \in M : ~Young(r, s)}
    OBVIOUS
  <2>a. t \in T
    BY <1>6, <2>1
  <2>b. \A u \in T : u \in 1 .. n
    BY <1>5, <2>1
  <2>2. T \subseteq Nat /\ T # {}
    BY <2>a, <2>b
  <2>3. PICK s \in T : \A u \in T : s <= u
    BY <2>2, Least
  <2>4. s \in 1 .. n /\ ~Young(r, s) /\ s \in M
    BY <1>5, <2>1, <2>3
  <2>5. PICK p \in M : p < s /\ s \in links[p]
    BY <1>5, <2>4
  <2>6. Young(r, p) /\ p \in 1 .. n
    BY <1>5, <2>1, <2>3, <2>4, <2>5
  <2> QED BY <2>4, <2>5, <2>6 DEF Young
<1> QED BY <1>2, <1>4, <1>5, <1>6

(* The collector frees a wrapper that is not marked, and what it owns.     *)
Sweeps(h, g, n, held, r, w, owns) ==
  /\ n \in Nat /\ Len(h) = n /\ Len(g) = n /\ r \in Nat
  /\ Sound(h, held, r) /\ \A s \in 1 .. n : h[s].frees \in Nat
  /\ w \in 1 .. n /\ h[w].expose /\ ~h[w].swept /\ w \notin Reach(LinksIn(h), held)
  /\ Len(owns) = n /\ \A p \in 1 .. n : owns[p] = Owned(h[p])
  /\ \A s \in 1 .. n :
       /\ SameLinks(h[s], g[s]) /\ h[s].expose = g[s].expose
       /\ g[s].frees = IF s \in Reach(owns, {w}) THEN h[s].frees + 1 ELSE h[s].frees
       /\ g[s].swept = (h[s].swept \/ s = w)

LEMMA SweepSound ==
  ASSUME NEW h, NEW g, NEW n, NEW held, NEW r, NEW w, NEW owns,
         Sweeps(h, g, n, held, r, w, owns)
  PROVE  Sound(g, held, r)
<1> USE DEF Sweeps
<1>1. SoundParts(h, held, r, n)
  BY SoundIs
<1>2. PICK F : F = Reach(owns, {w})
  OBVIOUS
<1>3. /\ F \subseteq 1 .. n
      /\ \A s \in 1 .. n : s \in F <=> s = w \/ \E p \in F : p < s /\ s \in owns[p]
  <2>1. \A s \in 1 .. n : s \in F <=> s \in {w} \/ \E p \in F : p < s /\ s \in owns[p]
    BY <1>2, ReachIs
  <2> QED BY <1>2, <2>1, ReachIs
<1>4. \A s \in 1 .. n : Owned(g[s]) = Owned(h[s]) /\ Wrapped(g[s]) = Wrapped(h[s])
  BY LinksSame
<1>5. ~Young(r, w)
  BY YoungMarked
<1>6. ASSUME NEW t \in F, Young(r, t) PROVE FALSE
  <2>1. PICK T : T = {s \in F : Young(r, s)}
    OBVIOUS
  <2>a. t \in T
    BY <1>6, <2>1
  <2>b. \A u \in T : u \in 1 .. n
    BY <1>3, <2>1
  <2>2. T \subseteq Nat /\ T # {}
    BY <2>a, <2>b
  <2>3. PICK s \in T : \A u \in T : s <= u
    BY <2>2, Least
  <2>4. s \in 1 .. n /\ Young(r, s) /\ s \in F
    BY <1>3, <2>1, <2>3
  <2>5. PICK p \in F : p < s /\ s \in owns[p]
    BY <1>3, <1>5, <2>4
  <2>6. p \in 1 .. n /\ ~Young(r, p)
    BY <1>3, <2>1, <2>3, <2>4, <2>5
  <2> QED BY <1>1, <2>4, <2>5, <2>6 DEF SoundParts
<1>7. Owners(h)
  BY <1>1 DEF SoundParts
<1>8. \A p \in 1 .. n : \A s \in Owned(h[p]) : s \in F <=> p \in F
  <2> SUFFICES ASSUME NEW p \in 1 .. n, NEW s \in Owned(h[p]) PROVE s \in F <=> p \in F
    OBVIOUS
  <2>1. s \in 1 .. n /\ p < s /\ s # w
    BY <1>1, <1>7 DEF SoundParts, Owners
  <2>2. p \in F => s \in F
    BY <1>3, <2>1
  <2>3. ASSUME s \in F PROVE p \in F
    <3>1. PICK q \in F : q < s /\ s \in owns[q]
      BY <1>3, <2>1, <2>3
    <3>2. q \in 1 .. n /\ s \in Owned(h[q])
      BY <1>3, <3>1
    <3>3. q = p
      BY <1>7, <3>2 DEF Owners
    <3> QED BY <3>1, <3>3
  <2> QED BY <2>2, <2>3
<1>9. \A s \in 1 .. n : g[s].frees = IF s \in F THEN h[s].frees + 1 ELSE h[s].frees
  BY <1>2
<1>10. Owners(g)
  <2>1. \A p, q \in 1 .. n : \A s \in Owned(g[p]) : s \in Owned(g[q]) => p = q
    BY <1>4, <1>7 DEF Owners
  <2>2. \A p \in 1 .. n : \A s \in Owned(g[p]) : ~g[s].expose /\ g[s].frees = g[p].frees
    <3> SUFFICES ASSUME NEW p \in 1 .. n, NEW s \in Owned(h[p])
                 PROVE  ~g[s].expose /\ g[s].frees = g[p].frees
      BY <1>4
    <3>1. s \in 1 .. n
      BY <1>1 DEF SoundParts
    <3>2. ~h[s].expose /\ h[s].frees = h[p].frees
      BY <1>7 DEF Owners
    <3> QED BY <1>8, <1>9, <3>1, <3>2
  <2>3. \A s \in 1 .. n : ~g[s].expose => \E p \in 1 .. n : s \in Owned(g[p])
    BY <1>4, <1>7 DEF Owners
  <2>4. \A s \in 1 .. n : g[s].expose => g[s].frees = IF g[s].swept THEN 1 ELSE 0
    <3> SUFFICES ASSUME NEW s \in 1 .. n, h[s].expose
                 PROVE  g[s].frees = IF g[s].swept THEN 1 ELSE 0
      OBVIOUS
    <3>1. h[s].frees = IF h[s].swept THEN 1 ELSE 0
      BY <1>7 DEF Owners
    <3>2. s \in F <=> s = w
      <4>1. \A p \in 1 .. n : s \notin Owned(h[p])
        BY <1>7 DEF Owners
      <4> QED BY <1>3, <4>1
    <3>3. CASE s = w
      <4>1. h[s].frees = 0 /\ g[s].swept
        BY <3>1, <3>3
      <4> QED BY <1>9, <3>2, <3>3, <4>1
    <3>4. CASE s # w
      BY <1>9, <3>1, <3>2, <3>4
    <3> QED BY <3>3, <3>4
  <2> QED BY <2>1, <2>2, <2>3, <2>4 DEF Owners
<1>11. SoundParts(g, held, r, n)
  BY <1>1, <1>4, <1>6, <1>9, <1>10, SMTT(30) DEF SoundParts
<1> QED BY <1>11, SoundIs

(***************************************************************************)
(* Sequences, structs and frames.                                          *)
(***************************************************************************)
LEMMA ExceptSeq ==
  ASSUME NEW S, NEW q \in Seq(S), NEW i \in 1 .. Len(q), NEW x \in S
  PROVE  /\ [q EXCEPT ![i] = x] \in Seq(S) /\ Len([q EXCEPT ![i] = x]) = Len(q)
         /\ [q EXCEPT ![i] = x][i] = x
         /\ \A j \in 1 .. Len(q) : j # i => [q EXCEPT ![i] = x][j] = q[j]
OBVIOUS

LEMMA AppendSeq ==
  ASSUME NEW S, NEW q \in Seq(S), NEW x \in S
  PROVE  /\ Append(q, x) \in Seq(S) /\ Len(Append(q, x)) = Len(q) + 1
         /\ Append(q, x)[Len(q) + 1] = x
         /\ \A j \in 1 .. Len(q) : Append(q, x)[j] = q[j]
OBVIOUS

LEMMA EmptySeq ==
  ASSUME NEW S, NEW q \in Seq(S)
  PROVE  q = <<>> <=> Len(q) = 0
OBVIOUS

LEMMA AppendSet ==
  ASSUME NEW S, NEW q \in Seq(S), NEW x \in S
  PROVE  ToSet(Append(q, x)) = ToSet(q) \cup {x}
<1>0. PICK n \in Nat : n = Len(q)
  OBVIOUS
<1>1. PICK p : p = Append(q, x)
  OBVIOUS
<1>2. p \in Seq(S) /\ Len(p) = n + 1 /\ p[n + 1] = x /\ \A j \in 1 .. n : p[j] = q[j]
  BY <1>0, <1>1, AppendSeq
<1>3. DOMAIN p = 1 .. n + 1 /\ DOMAIN q = 1 .. n /\ 1 .. n + 1 = 1 .. n \cup {n + 1}
  BY <1>0, <1>2
<1>4. ToSet(p) = {p[j] : j \in 1 .. n + 1} /\ ToSet(q) = {q[j] : j \in 1 .. n}
  BY <1>2, <1>3 DEF ToSet
<1> QED BY <1>1, <1>2, <1>3, <1>4

LEMMA FrontSeq ==
  ASSUME NEW S, NEW q \in Seq(S), q # <<>>
  PROVE  /\ SubSeq(q, 1, Len(q) - 1) \in Seq(S) /\ Len(q) - 1 \in Nat
         /\ Len(SubSeq(q, 1, Len(q) - 1)) = Len(q) - 1
         /\ \A j \in 1 .. Len(q) - 1 : SubSeq(q, 1, Len(q) - 1)[j] = q[j]
<1>1. PICK n \in Nat : n = Len(q) - 1 /\ n + 1 = Len(q)
  OBVIOUS
<1>2. n \in 0 .. Len(q) /\ \A j \in 1 .. n : j \in 1 .. Len(q)
  BY <1>1
<1>3. /\ SubSeq(q, 1, n) \in Seq(S) /\ Len(SubSeq(q, 1, n)) = n
      /\ \A j \in 1 .. n : SubSeq(q, 1, n)[j] = q[j]
  <2>1. SubSeq(q, 1, n) = [i \in 1 .. n |-> q[i]]
    BY <1>1, <1>2
  <2>2. [i \in 1 .. n |-> q[i]] \in [1 .. n -> S]
    BY <1>2
  <2> QED BY <2>1, <2>2
<1> QED BY <1>1, <1>3

LEMMA TailSeq ==
  ASSUME NEW S, NEW q \in Seq(S), q # <<>>
  PROVE  /\ Tail(q) \in Seq(S) /\ Len(q) \in Nat /\ Len(q) # 0 /\ Len(Tail(q)) = Len(q) - 1
         /\ Head(q) = q[1] /\ q[1] \in S
         /\ \A j \in 1 .. Len(q) - 1 : Tail(q)[j] = q[j + 1]
<1>1. Len(q) \in Nat /\ Len(q) # 0 /\ q[1] \in S
  OBVIOUS
<1>2. Tail(q) \in Seq(S) /\ Len(Tail(q)) = Len(q) - 1
  OBVIOUS
<1>3. Head(q) = q[1]
  OBVIOUS
<1>4. \A j \in 1 .. Len(q) - 1 : Tail(q)[j] = q[j + 1]
  OBVIOUS
<1> QED BY <1>1, <1>2, <1>3, <1>4

LEMMA NoUriTyped ==
  NoUri \in UriType
<1>1. "<nil>" \in STRING
  BY LiteralsAssumption DEF Literals
<1>2. <<>> \in Seq(STRING)
  OBVIOUS
<1> QED BY <1>1, <1>2 DEF NoUri, Uri, UriType

Made(val, path, expose, loc, home, st) ==
  /\ val \in Value /\ path \in Seq(STRING) /\ expose \in BOOLEAN /\ loc \in Seq(STRING)
  /\ home \in Nat /\ st = NewStruct(val, path, expose, loc, home)

LEMMA NewStructFacts ==
  ASSUME NEW val, NEW path, NEW expose, NEW loc, NEW home, NEW st,
         Made(val, path, expose, loc, home, st)
  PROVE  /\ st \in Struct
         /\ Owned(st) = {} /\ Wrapped(st) = {} /\ Untouched(st)
         /\ st.val = val /\ st.expose = expose /\ st.frees = 0 /\ st.swept = FALSE
         /\ st.ref = NoUri /\ st.refSchema = 0 /\ st.nested = <<>> /\ st.slots = 0
<1>0. /\ val \in Value /\ path \in Seq(STRING) /\ expose \in BOOLEAN /\ loc \in Seq(STRING)
      /\ home \in Nat /\ st = NewStruct(val, path, expose, loc, home)
  BY DEF Made
<1>1. "" \in STRING
  BY LiteralsAssumption DEF Literals
<1>2. st \in Struct
  <2>1. /\ [k \in SingleKeyword |-> 0] \in [SingleKeyword -> Nat]
        /\ [k \in ListKeyword |-> <<>>] \in [ListKeyword -> Seq(Nat)]
        /\ "no_op_validate" \in Fn /\ {} \in SUBSET STRING /\ <<>> \in Seq(Seq(STRING))
        /\ <<>> \in Seq(Nat) /\ 0 \in Nat /\ FALSE \in BOOLEAN
    BY DEF Fn
  <2> QED BY <1>0, <1>1, <2>1, NoUriTyped DEF NewStruct, Struct
<1>3. /\ st.val = val /\ st.expose = expose /\ st.frees = 0 /\ st.swept = FALSE
      /\ st.ref = NoUri /\ st.refSchema = 0 /\ st.nested = <<>> /\ st.slots = 0
      /\ st.single = [k \in SingleKeyword |-> 0] /\ st.lists = [k \in ListKeyword |-> <<>>]
  BY <1>0 DEF NewStruct
<1>4. Untouched(st)
  BY <1>3 DEF Untouched
<1>5. Owned(st) = {}
  BY <1>3 DEF Owned, ToSet
<1>6. Wrapped(st) = {}
  BY <1>3 DEF Wrapped, ToSet
<1> QED BY <1>2, <1>3, <1>4, <1>5, <1>6

LEMMA NewFrameTyped ==
  ASSUME NEW s \in Nat, NEW base \in UriType, NEW pointer \in Seq(STRING), NEW home \in Nat
  PROVE  NewFrame(s, base, pointer, home) \in Frame
BY DEF NewFrame, Frame

(* A new frame has nothing to do yet.                                      *)
LEMMA NewFrameWork ==
  ASSUME NEW f, NEW s, NEW base, NEW pointer, NEW home, f = NewFrame(s, base, pointer, home),
         NEW st, Untouched(st)
  PROVE  WorkOf(f, st) /\ f.s = s /\ f.pc = "enter" /\ \A w \in Wrappers(f) : w = 0
<1>1. f.s = s /\ f.pc = "enter" /\ f.jobs = <<>> /\ f.kept = <<>> /\ f.obj = 0
  BY DEF NewFrame
<1>2. Shaped(<<>>)
  BY DEF Shaped, Paired, Once
<1>3. FrameWork(f, st)
  BY <1>1, <1>2 DEF FrameWork, Ahead
<1>4. SlotsAhead(f, st, 0) /\ 0 \in 0 .. Len(f.jobs)
  <2>1. st.nested = <<>> /\ st.slots = 0 /\ Len(<<>>) = 0
    BY DEF Untouched
  <2> QED BY <1>1, <2>1 DEF SlotsAhead, NestedAfter, Allocates
<1> QED BY <1>1, <1>3, <1>4 DEF WorkOf, Wrappers, ToSet

(***************************************************************************)
(* The parts of TreeInv as statements about any heap h of n structs, any   *)
(* frames fs and any root r.                                               *)
(***************************************************************************)
FramesIn(fs, r, n) ==
  /\ \A j \in 1 .. Len(fs) :
       /\ Young(r, fs[j].s) /\ fs[j].s <= n
       /\ \A w \in Wrappers(fs[j]) : w # 0 => fs[j].s < w /\ w <= n
  /\ \A i, j \in 1 .. Len(fs) : i < j => fs[i].s < fs[j].s

WorkIn(fs, h) == \A j \in 1 .. Len(fs) : WorkOf(fs[j], h[fs[j].s])

SameFields(a, b) ==
  /\ a.val = b.val /\ a.single = b.single /\ a.lists = b.lists
  /\ a.nested = b.nested /\ a.slots = b.slots

SlotsIn(h, n, r, busy) ==
  \A s \in 1 .. n :
    /\ Len(h[s].nested) <= h[s].slots
    /\ Young(r, s) /\ s \notin busy => Len(h[s].nested) = h[s].slots

Busy(fs) == {fs[j].s : j \in 1 .. Len(fs)}
HeldBy(r, i, fs) ==
  ({r, i} \cup UNION {{fs[j].obj} \cup ToSet(fs[j].kept) : j \in 1 .. Len(fs)}) \ {0}

NamesIn(table, ag, h, n, r) ==
  /\ \A k \in DOMAIN table : Young(r, table[k])
  /\ \A j \in 1 .. Len(ag) : Young(r, ag[j])
  /\ \A s \in 1 .. n : Young(r, s) /\ h[s].refSchema # 0 =>
       Young(r, h[s].refSchema) /\ h[s].refSchema <= n

LEMMA HeldIs ==
  ASSUME NEW r, NEW i, NEW fs, NEW w
  PROVE  w \in HeldBy(r, i, fs) <=>
           w # 0 /\ (w = r \/ w = i \/ \E j \in 1 .. Len(fs) : w \in Wrappers(fs[j]))
BY DEF HeldBy, Wrappers

LEMMA WorkSame ==
  ASSUME NEW f, NEW a, NEW b, SameFields(a, b), WorkOf(f, a)
  PROVE  WorkOf(f, b)
<1>1. FrameWork(f, b)
  BY DEF WorkOf, FrameWork, SameFields, Untouched
<1>2. PICK k \in 0 .. Len(f.jobs) : SlotsAhead(f, a, k)
  BY DEF WorkOf
<1>3. SlotsAhead(f, b, k)
  BY <1>2 DEF SlotsAhead, SameFields
<1> QED BY <1>1, <1>3 DEF WorkOf

(* The innermost frame changes; its wrappers are those it had, or new.     *)
Moves(fs, h, n, t, gs, g, m) ==
  /\ n \in Nat /\ t \in Nat \ {0} /\ m \in Nat /\ n <= m /\ Len(fs) = t /\ Len(gs) = t
  /\ \A j \in 1 .. t : fs[j].s \in 1 .. n /\ Wrappers(fs[j]) \subseteq Nat
  /\ \A s \in 1 .. n : s # fs[t].s => SameFields(h[s], g[s])
  /\ \A j \in 1 .. t : j # t => gs[j] = fs[j]
  /\ gs[t].s = fs[t].s /\ WorkOf(gs[t], g[fs[t].s])
  /\ \A w \in Wrappers(gs[t]) : w # 0 => w \in Wrappers(fs[t]) \/ (w = m /\ m > n)

LEMMA FrameMove ==
  ASSUME NEW fs, NEW h, NEW n, NEW t, NEW gs, NEW g, NEW m, Moves(fs, h, n, t, gs, g, m),
         NEW r, FramesIn(fs, r, n), WorkIn(fs, h)
  PROVE  FramesIn(gs, r, m) /\ WorkIn(gs, g)
<1>0. /\ n \in Nat /\ t \in Nat \ {0} /\ m \in Nat /\ n <= m /\ Len(fs) = t /\ Len(gs) = t
      /\ \A j \in 1 .. t : fs[j].s \in 1 .. n /\ Wrappers(fs[j]) \subseteq Nat
      /\ \A s \in 1 .. n : s # fs[t].s => SameFields(h[s], g[s])
      /\ \A j \in 1 .. t : j # t => gs[j] = fs[j]
      /\ gs[t].s = fs[t].s /\ WorkOf(gs[t], g[fs[t].s])
      /\ \A w \in Wrappers(gs[t]) : w # 0 => w \in Wrappers(fs[t]) \/ (w = m /\ m > n)
  BY DEF Moves
<1>1. \A j \in 1 .. t : gs[j].s = fs[j].s
  BY <1>0
<1>2. ASSUME NEW j \in 1 .. t, j # t
      PROVE  /\ Young(r, gs[j].s) /\ gs[j].s <= m
             /\ \A w \in Wrappers(gs[j]) : w # 0 => gs[j].s < w /\ w <= m
             /\ WorkOf(gs[j], g[gs[j].s])
  <2>1. gs[j] = fs[j] /\ fs[j].s \in 1 .. n /\ fs[j].s <= m
    BY <1>0, <1>2
  <2>2. fs[j].s < fs[t].s /\ fs[t].s \in 1 .. n
    BY <1>0, <1>2 DEF FramesIn
  <2>3. SameFields(h[fs[j].s], g[fs[j].s]) /\ WorkOf(fs[j], h[fs[j].s])
    BY <1>0, <2>1, <2>2 DEF WorkIn
  <2>4. WorkOf(fs[j], g[fs[j].s])
    BY <1>0, <2>3, WorkSame
  <2>5. Young(r, fs[j].s) /\ \A w \in Wrappers(fs[j]) : w # 0 => fs[j].s < w /\ w <= n
    BY <1>0 DEF FramesIn
  <2>6. \A w \in Wrappers(fs[j]) : w # 0 => w <= m
    <3>1. ASSUME NEW w \in Wrappers(fs[j]), w # 0 PROVE w <= m
      <4>1. w <= n /\ fs[j].s < w /\ w \in Nat
        BY <1>0, <2>5, <3>1
      <4> QED BY <1>0, <4>1, <2>1
    <3> QED BY <1>0, <3>1
  <2> QED BY <1>0, <2>1, <2>4, <2>5, <2>6
<1>3. /\ Young(r, gs[t].s) /\ gs[t].s <= m
      /\ \A w \in Wrappers(gs[t]) : w # 0 => gs[t].s < w /\ w <= m
  <2>1. t \in 1 .. t /\ fs[t].s \in 1 .. n
    BY <1>0
  <2>2. Young(r, fs[t].s) /\ \A w \in Wrappers(fs[t]) : w # 0 => fs[t].s < w /\ w <= n
    BY <1>0, <2>1 DEF FramesIn
  <2>3. ASSUME NEW w \in Wrappers(gs[t]), w # 0 PROVE fs[t].s < w /\ w <= m
    <3>1. CASE w \in Wrappers(fs[t])
      <4>1. fs[t].s < w /\ w <= n /\ w \in Nat
        BY <1>0, <2>2, <2>3, <3>1
      <4> QED BY <1>0, <4>1
    <3>2. CASE w = m /\ m > n
      BY <1>0, <2>1, <3>2
    <3> QED BY <1>0, <2>3, <3>1, <3>2
  <2> QED BY <1>0, <2>1, <2>2, <2>3
<1>4. \A i, j \in 1 .. t : i < j => gs[i].s < gs[j].s
  BY <1>0, <1>1 DEF FramesIn
<1>5. WorkOf(gs[t], g[gs[t].s])
  BY <1>0
<1>6. FramesIn(gs, r, m)
  BY <1>0, <1>2, <1>3, <1>4 DEF FramesIn
<1>7. WorkIn(gs, g)
  BY <1>0, <1>2, <1>5 DEF WorkIn
<1> QED BY <1>0, <1>6, <1>7

(* compile() is called for the newest struct.                              *)
Pushed(fs, h, n, t, gs, m) ==
  /\ n \in Nat /\ m \in Nat /\ n < m /\ t \in Nat /\ Len(fs) = t /\ Len(gs) = t + 1
  /\ \A j \in 1 .. t : fs[j].s \in 1 .. n /\ gs[j] = fs[j]
  /\ gs[t + 1].s = m /\ (\A w \in Wrappers(gs[t + 1]) : w = 0) /\ WorkOf(gs[t + 1], h[m])

LEMMA FramePush ==
  ASSUME NEW fs, NEW h, NEW n, NEW t, NEW gs, NEW m, Pushed(fs, h, n, t, gs, m),
         NEW r, FramesIn(fs, r, m), WorkIn(fs, h), Young(r, m)
  PROVE  FramesIn(gs, r, m) /\ WorkIn(gs, h)
<1>0. /\ n \in Nat /\ m \in Nat /\ n < m /\ t \in Nat /\ Len(fs) = t /\ Len(gs) = t + 1
      /\ \A j \in 1 .. t : fs[j].s \in 1 .. n /\ gs[j] = fs[j]
      /\ gs[t + 1].s = m /\ (\A w \in Wrappers(gs[t + 1]) : w = 0) /\ WorkOf(gs[t + 1], h[m])
  BY DEF Pushed
<1>1. \A j \in 1 .. t + 1 : j \in 1 .. t \/ j = t + 1
  BY <1>0
<1>2. \A j \in 1 .. t + 1 : /\ Young(r, gs[j].s) /\ gs[j].s <= m
                            /\ \A w \in Wrappers(gs[j]) : w # 0 => gs[j].s < w /\ w <= m
  <2>1. CASE TRUE
    BY <1>0, <1>1 DEF FramesIn
  <2> QED BY <1>0, <2>1
<1>3. \A i, j \in 1 .. t + 1 : i < j => gs[i].s < gs[j].s
  <2> SUFFICES ASSUME NEW i \in 1 .. t + 1, NEW j \in 1 .. t + 1, i < j
               PROVE  gs[i].s < gs[j].s
    BY <1>0
  <2>1. i \in 1 .. t
    BY <1>0
  <2>2. CASE j \in 1 .. t
    BY <1>0, <2>1, <2>2 DEF FramesIn
  <2>3. CASE j = t + 1
    <3>1. gs[i].s \in 1 .. n /\ gs[j].s = m
      BY <1>0, <2>1, <2>3
    <3> QED BY <1>0, <3>1
  <2> QED BY <1>0, <1>1, <2>2, <2>3
<1>4. \A j \in 1 .. t + 1 : WorkOf(gs[j], h[gs[j].s])
  BY <1>0, <1>1 DEF WorkIn
<1> QED BY <1>0, <1>2, <1>3, <1>4 DEF FramesIn, WorkIn

(* compile() returns.                                                      *)
Pops(fs, h, n, t, gs, g) ==
  /\ n \in Nat /\ t \in Nat \ {0} /\ Len(fs) = t /\ \A j \in 1 .. t : fs[j].s \in 1 .. n
  /\ \A s \in 1 .. n : s # fs[t].s => SameFields(h[s], g[s])
  /\ Len(gs) = t - 1 /\ \A j \in 1 .. t - 1 : gs[j] = fs[j]

LEMMA FramePop ==
  ASSUME NEW fs, NEW h, NEW n, NEW t, NEW gs, NEW g, Pops(fs, h, n, t, gs, g),
         NEW r, FramesIn(fs, r, n), WorkIn(fs, h)
  PROVE  FramesIn(gs, r, n) /\ WorkIn(gs, g)
<1>0. /\ n \in Nat /\ t \in Nat \ {0} /\ Len(fs) = t /\ \A j \in 1 .. t : fs[j].s \in 1 .. n
      /\ \A s \in 1 .. n : s # fs[t].s => SameFields(h[s], g[s])
      /\ Len(gs) = t - 1 /\ \A j \in 1 .. t - 1 : gs[j] = fs[j]
  BY DEF Pops
<1>1. \A j \in 1 .. t - 1 : j \in 1 .. t /\ j < t /\ gs[j] = fs[j]
  BY <1>0
<1>2. FramesIn(gs, r, n)
  BY <1>0, <1>1 DEF FramesIn
<1>3. ASSUME NEW j \in 1 .. t - 1 PROVE WorkOf(gs[j], g[gs[j].s])
  <2>1. fs[j].s < fs[t].s /\ fs[j].s \in 1 .. n /\ fs[t].s \in 1 .. n
    BY <1>0, <1>1 DEF FramesIn
  <2>2. SameFields(h[fs[j].s], g[fs[j].s]) /\ WorkOf(fs[j], h[fs[j].s])
    BY <1>0, <1>1, <2>1 DEF WorkIn
  <2> QED BY <1>1, <2>2, WorkSame
<1> QED BY <1>0, <1>2, <1>3 DEF WorkIn

(* The slots of a struct c that changes, and of a new one.                 *)
Refits(h, n, busy, c, g, m, more) ==
  /\ n \in Nat /\ m \in Nat /\ n <= m /\ c \in 1 .. n
  /\ \A s \in 1 .. n : s # c => h[s].nested = g[s].nested /\ h[s].slots = g[s].slots
  /\ \A s \in 1 .. m : s > n => g[s].nested = <<>> /\ g[s].slots = 0
  /\ Len(g[c].nested) <= g[c].slots
  /\ busy \subseteq more \cup {c} /\ (c \in more \/ Len(g[c].nested) = g[c].slots)

LEMMA SlotsMove ==
  ASSUME NEW h, NEW n, NEW busy, NEW c, NEW g, NEW m, NEW more,
         Refits(h, n, busy, c, g, m, more), NEW r, SlotsIn(h, n, r, busy)
  PROVE  SlotsIn(g, m, r, more)
<1> SUFFICES ASSUME NEW s \in 1 .. m
             PROVE  /\ Len(g[s].nested) <= g[s].slots
                    /\ Young(r, s) /\ s \notin more => Len(g[s].nested) = g[s].slots
  BY DEF SlotsIn
<1>1. CASE s > n
  BY <1>1 DEF Refits
<1>2. CASE s = c
  BY <1>2 DEF Refits
<1>3. CASE s \in 1 .. n /\ s # c
  BY <1>3 DEF SlotsIn, Refits
<1>4. s > n \/ s \in 1 .. n
  BY DEF Refits
<1> QED BY <1>1, <1>2, <1>3, <1>4

(***************************************************************************)
(* The work of a frame f that does the first of its jobs: the frame g and  *)
(* the struct b after it.                                                  *)
(***************************************************************************)
LEMMA TailJobs ==
  ASSUME NEW jobs, Shaped(jobs), jobs # <<>>
  PROVE  /\ Len(jobs) \in Nat \ {0} /\ Len(Tail(jobs)) = Len(jobs) - 1
         /\ Head(jobs) = jobs[1] /\ WellMade(jobs[1])
         /\ \A j \in 1 .. Len(jobs) - 1 : Tail(jobs)[j] = jobs[j + 1]
         /\ Shaped(Tail(jobs))
<1>0. PICK n \in Nat : n = Len(jobs) /\ n # 0
  BY TailSeq DEF Shaped
<1>1. PICK rest : n = Len(jobs) /\ n # 0 /\ rest = Tail(jobs)
  BY <1>0
<1>2. PICK J : J = JobType
  OBVIOUS
<1>3. jobs \in Seq(J)
  BY <1>2 DEF Shaped
<1>4. /\ Len(rest) = n - 1 /\ Head(jobs) = jobs[1] /\ rest \in Seq(J)
      /\ \A j \in 1 .. n - 1 : rest[j] = jobs[j + 1]
  BY <1>1, <1>3, TailSeq
<1>5. \A j \in 1 .. n - 1 : j + 1 \in 1 .. n
  BY <1>1
<1>6. \A j \in 1 .. n - 1 : WellMade(rest[j])
  BY <1>1, <1>4, <1>5 DEF Shaped
<1>7. Paired(rest)
  <2> SUFFICES ASSUME NEW i \in 1 .. n - 1
      PROVE  /\ rest[i].do = "element" => i < n - 1 /\ rest[i + 1].do = "keep"
             /\ rest[i].do = "keep" => i < n - 1 /\ rest[i + 1].do \in {"element", "store"}
             /\ i < n - 1 /\ rest[i + 1].do = "keep" => rest[i].do = "element"
    BY <1>4 DEF Paired
  <2>1. PICK k \in 1 .. n : k = i + 1
    BY <1>5
  <2>2. /\ jobs[k].do = "element" => k < n /\ jobs[k + 1].do = "keep"
        /\ jobs[k].do = "keep" => k < n /\ jobs[k + 1].do \in {"element", "store"}
        /\ k < n /\ jobs[k + 1].do = "keep" => jobs[k].do = "element"
    BY <1>1 DEF Shaped, Paired
  <2>3. rest[i] = jobs[k] /\ (i < n - 1 => k < n /\ rest[i + 1] = jobs[k + 1]) /\ (k < n => i < n - 1)
    <3>1. i < n - 1 => i + 1 \in 1 .. n - 1
      BY <1>1
    <3>2. i < n - 1 => rest[i + 1] = jobs[(i + 1) + 1]
      BY <1>4, <3>1
    <3> QED BY <1>4, <2>1, <3>2
  <2> QED BY <2>2, <2>3
<1>8. Once(rest)
  <2> SUFFICES ASSUME NEW i \in 1 .. n - 1, NEW j \in 1 .. n - 1, i < j,
                      rest[i].do = rest[j].do, rest[i].do \in {"single", "store"}
               PROVE  rest[i].kw # rest[j].kw
    BY <1>4 DEF Once
  <2>1. PICK k \in 1 .. n, m \in 1 .. n : k = i + 1 /\ m = j + 1
    BY <1>5
  <2>2. rest[i] = jobs[k] /\ rest[j] = jobs[m] /\ k < m
    BY <1>4, <2>1
  <2> QED BY <1>1, <2>2 DEF Shaped, Once
<1>9. Shaped(rest)
  BY <1>2, <1>4, <1>6, <1>7, <1>8 DEF Shaped
<1>10. WellMade(jobs[1])
  <2>1. 1 \in 1 .. n
    BY <1>1
  <2> QED BY <1>1, <2>1 DEF Shaped
<1> QED BY <1>1, <1>4, <1>9, <1>10

(* What may follow a job.                                                  *)
LEMMA AheadNext ==
  ASSUME NEW f, NEW g, Shaped(f.jobs), f.jobs # <<>>, g.jobs = Tail(f.jobs)
  PROVE  /\ Ahead(f) = f.jobs[1].do
         /\ f.jobs[1].do = "element" <=> Ahead(g) = "keep"
         /\ f.jobs[1].do = "keep" => Ahead(g) \in {"element", "store"}
<1>1. PICK n \in Nat \ {0} : n = Len(f.jobs)
  BY TailJobs
<1>2. Len(g.jobs) = n - 1 /\ \A j \in 1 .. n - 1 : g.jobs[j] = f.jobs[j + 1]
  BY <1>1, TailJobs
<1>3. Shaped(g.jobs)
  BY TailJobs
<1>4. g.jobs = <<>> <=> n = 1
  <2>1. PICK J, q : J = JobType /\ q = g.jobs /\ q \in Seq(J)
    BY <1>3 DEF Shaped
  <2>2. q = <<>> <=> Len(q) = 0
    BY <2>1, EmptySeq
  <2> QED BY <1>2, <2>1, <2>2
<1>5. /\ f.jobs[1].do = "element" => 1 < n /\ f.jobs[2].do = "keep"
      /\ f.jobs[1].do = "keep" => 1 < n /\ f.jobs[2].do \in {"element", "store"}
      /\ 1 < n /\ f.jobs[2].do = "keep" => f.jobs[1].do = "element"
  <2>1. 1 \in 1 .. n /\ 1 + 1 = 2
    OBVIOUS
  <2>2. Paired(f.jobs)
    BY DEF Shaped
  <2> QED BY <1>1, <2>1, <2>2 DEF Paired
<1>6. n > 1 => g.jobs[1] = f.jobs[2]
  <2>1. n > 1 => 1 \in 1 .. n - 1
    OBVIOUS
  <2>2. n > 1 => g.jobs[1] = f.jobs[1 + 1]
    BY <1>2, <2>1
  <2>3. 1 + 1 = 2
    OBVIOUS
  <2> QED BY <2>2, <2>3
<1> QED BY <1>4, <1>5, <1>6 DEF Ahead

LEMMA AdvanceWork ==
  ASSUME NEW f, NEW st, FrameWork(f, st), f.jobs # <<>>,
         NEW g, g.jobs = Tail(f.jobs), g.pc = "jobs",
         g.obj # 0 <=> Ahead(g) = "keep",
         g.kept # <<>> => Ahead(g) \in {"element", "keep", "store"},
         \A j \in 1 .. Len(g.kept) : g.kept[j] # 0,
         NEW b,
         \A k \in SingleKeyword :
           b.single[k] = st.single[k] \/ (f.jobs[1].do = "single" /\ k = f.jobs[1].kw),
         \A k \in ListKeyword :
           b.lists[k] = st.lists[k] \/ (f.jobs[1].do = "store" /\ k = f.jobs[1].kw)
  PROVE  FrameWork(g, b)
<1>0. Shaped(f.jobs)
  BY DEF FrameWork
<1>1. PICK n \in Nat \ {0} : n = Len(f.jobs)
  BY <1>0, TailJobs
<1>2. Len(g.jobs) = n - 1 /\ (\A j \in 1 .. n - 1 : g.jobs[j] = f.jobs[j + 1]) /\ Shaped(g.jobs)
  BY <1>0, <1>1, TailJobs
<1>3. ASSUME NEW j \in 1 .. n - 1
      PROVE  /\ g.jobs[j].do = "single" => b.single[g.jobs[j].kw] = 0
             /\ g.jobs[j].do = "store" => b.lists[g.jobs[j].kw] = <<>>
  <2>1. PICK i \in 1 .. n : i = j + 1 /\ 1 \in 1 .. n /\ 1 < i
    BY <1>1
  <2>2. g.jobs[j] = f.jobs[i]
    BY <1>2, <2>1
  <2>3. /\ f.jobs[i].do = "single" => st.single[f.jobs[i].kw] = 0 /\ f.jobs[i].kw \in SingleKeyword
        /\ f.jobs[i].do = "store" => st.lists[f.jobs[i].kw] = <<>> /\ f.jobs[i].kw \in ListKeyword
    BY <1>0, <1>1 DEF FrameWork, Shaped, WellMade
  <2>4. f.jobs[1].do = f.jobs[i].do /\ f.jobs[1].do \in {"single", "store"} => f.jobs[1].kw # f.jobs[i].kw
    BY <1>0, <1>1, <2>1 DEF Shaped, Once
  <2> QED BY <2>2, <2>3, <2>4
<1> QED BY <1>2, <1>3 DEF FrameWork

LEMMA AdvanceSlots ==
  ASSUME NEW f, NEW st, Shaped(f.jobs), f.jobs # <<>>,
         NEW k \in 0 .. Len(f.jobs), SlotsAhead(f, st, k),
         NEW g, g.jobs = Tail(f.jobs), NEW b, b.val = st.val,
         Len(st.nested) \in Nat,
         CASE f.jobs[1].do = "alloc" -> b.nested = st.nested /\ b.slots = NestedTotal(st.val)
           [] f.jobs[1].do = "nested" -> Len(b.nested) = Len(st.nested) + 1 /\ b.slots = st.slots
           [] OTHER -> b.nested = st.nested /\ b.slots = st.slots
  PROVE  /\ \E m \in 0 .. Len(g.jobs) : SlotsAhead(g, b, m)
         /\ f.jobs[1].do = "nested" => st.slots > Len(st.nested)
<1>1. PICK n \in Nat \ {0} : n = Len(f.jobs)
  BY TailJobs
<1>2. Len(g.jobs) = n - 1 /\ \A j \in 1 .. n - 1 : g.jobs[j] = f.jobs[j + 1]
  BY <1>1, TailJobs
<1>3. NestedAfter(f.jobs, k) /\ k \in 0 .. n
  BY <1>1 DEF SlotsAhead
<1>4. /\ 1 \in 1 .. n /\ (f.jobs[1].do = "nested" <=> k = 0)
      /\ f.jobs[1].do = "alloc" => k = 1
  BY <1>1, <1>3 DEF NestedAfter
<1>5. ASSUME NEW m \in 0 .. n - 1, m = k - 1 \/ (k = 0 /\ m = 0)
      PROVE  NestedAfter(g.jobs, m)
  <2> SUFFICES ASSUME NEW i \in 1 .. n - 1
               PROVE  /\ g.jobs[i].do = "nested" <=> i > m
                      /\ g.jobs[i].do = "alloc" => i = m
    BY <1>2 DEF NestedAfter
  <2>1. PICK j \in 1 .. n : j = i + 1
    OBVIOUS
  <2>2. g.jobs[i] = f.jobs[j]
    BY <1>2, <2>1
  <2>3. (f.jobs[j].do = "nested" <=> j > k) /\ (f.jobs[j].do = "alloc" => j = k)
    BY <1>1, <1>3 DEF NestedAfter
  <2>4. (j > k <=> i > m) /\ (j = k => i = m)
    BY <1>3, <1>5, <2>1
  <2> QED BY <2>2, <2>3, <2>4
<1>6. CASE f.jobs[1].do = "nested"
  <2>1. ~Allocates(f.jobs, k) /\ ~Allocates(g.jobs, 0)
    BY <1>4, <1>6 DEF Allocates
  <2>2. k = 0 /\ st.slots = Len(st.nested) + (n - 0)
    BY <1>1, <1>4, <1>6, <2>1 DEF SlotsAhead
  <2>3. b.slots = Len(b.nested) + ((n - 1) - 0)
    BY <1>6, <2>2
  <2>4. 0 \in 0 .. n - 1 /\ NestedAfter(g.jobs, 0)
    BY <1>5, <2>2
  <2>5. SlotsAhead(g, b, 0)
    BY <1>2, <2>1, <2>3, <2>4 DEF SlotsAhead
  <2> QED BY <1>2, <2>2, <2>4, <2>5
<1>7. CASE f.jobs[1].do = "alloc"
  <2>1. k = 1 /\ Allocates(f.jobs, k) /\ ~Allocates(g.jobs, 0)
    BY <1>4, <1>7 DEF Allocates
  <2>2. st.nested = <<>> /\ n - 1 = NestedTotal(st.val)
    BY <1>1, <2>1 DEF SlotsAhead
  <2>3. b.slots = Len(b.nested) + ((n - 1) - 0)
    BY <1>7, <2>2
  <2>4. 0 \in 0 .. n - 1 /\ NestedAfter(g.jobs, 0)
    BY <1>5, <2>1
  <2>5. SlotsAhead(g, b, 0)
    BY <1>2, <2>1, <2>3, <2>4 DEF SlotsAhead
  <2> QED BY <1>2, <1>7, <2>4, <2>5
<1>8. CASE f.jobs[1].do \notin {"alloc", "nested"}
  <2>1. PICK m \in 0 .. n - 1 : m = k - 1 /\ m + 1 = k
    BY <1>3, <1>4, <1>8
  <2>2. NestedAfter(g.jobs, m)
    BY <1>5, <2>1
  <2>3. Allocates(g.jobs, m) <=> Allocates(f.jobs, k)
    <3>1. CASE m = 0
      <4>0. k = 1
        BY <2>1, <3>1
      <4>1. k = 1 /\ f.jobs[k].do # "alloc"
        BY <1>8, <4>0
      <4> QED BY <3>1, <4>1 DEF Allocates
    <3>2. CASE m # 0
      <4>1. m \in 1 .. n - 1
        BY <3>2
      <4>2. g.jobs[m] = f.jobs[k]
        BY <1>2, <2>1, <4>1
      <4> QED BY <2>1, <3>2, <4>2, SMTT(30) DEF Allocates
    <3> QED BY <3>1, <3>2
  <2>4. b.nested = st.nested /\ b.slots = st.slots
    BY <1>8
  <2>5. (n - 1) - m = n - k
    BY <2>1
  <2>6. SlotsAhead(g, b, m)
    BY <1>1, <1>2, <2>2, <2>3, <2>4, <2>5 DEF SlotsAhead
  <2> QED BY <1>2, <1>8, <2>6
<1> QED BY <1>6, <1>7, <1>8

(* A frame that has nothing left to do has filled its slots.               *)
LEMMA DoneSlots ==
  ASSUME NEW f, NEW st, WorkOf(f, st), f.jobs = <<>>
  PROVE  st.slots = Len(st.nested) + 0
<1>1. Len(<<>>) = 0
  OBVIOUS
<1>2. PICK k \in 0 .. 0 : SlotsAhead(f, st, k)
  BY <1>1 DEF WorkOf
<1>3. k = 0 /\ ~Allocates(f.jobs, k)
  BY DEF Allocates
<1> QED BY <1>1, <1>2, <1>3 DEF SlotsAhead

(* A frame that begins has all its work ahead.                             *)
LEMMA BeginWork ==
  ASSUME NEW f, NEW st, WorkOf(f, st), f.pc = "enter", st.val \in Value,
         NEW b, SameFields(st, b),
         NEW g, g.jobs = Jobs(st.val), g.pc = "jobs", g.obj = f.obj, g.kept = f.kept
  PROVE  WorkOf(g, b)
<1>1. f.jobs = <<>> /\ Untouched(st) /\ f.obj = 0 /\ f.kept = <<>>
  BY DEF WorkOf, FrameWork, Ahead
<1>2. Shaped(g.jobs) /\ Begins(g.jobs)
  BY JobsFacts
<1>3. PICK k \in 0 .. Len(g.jobs) :
        /\ NestedAfter(g.jobs, k)
        /\ Len(g.jobs) - k = IF Allocates(g.jobs, k) THEN NestedTotal(st.val) ELSE 0
  BY JobsFacts
<1>4. /\ b.nested = <<>> /\ b.slots = 0 /\ b.val = st.val
      /\ \A kw \in SingleKeyword : b.single[kw] = 0
      /\ \A kw \in ListKeyword : b.lists[kw] = <<>>
  BY <1>1 DEF Untouched, SameFields
<1>5. Ahead(g) # "keep"
  <2>1. g.jobs \in Seq(JobType)
    BY <1>2 DEF Shaped
  <2>2. g.jobs # <<>> => 1 \in 1 .. Len(g.jobs)
    BY <2>1
  <2> QED BY <1>2, <2>2 DEF Ahead, Begins
<1>6. FrameWork(g, b)
  <2>1. \A j \in 1 .. Len(g.jobs) :
          /\ g.jobs[j].do = "single" => g.jobs[j].kw \in SingleKeyword
          /\ g.jobs[j].do = "store" => g.jobs[j].kw \in ListKeyword
    BY <1>2 DEF Shaped, WellMade
  <2> QED BY <1>1, <1>2, <1>4, <1>5, <2>1 DEF FrameWork
<1>7. SlotsAhead(g, b, k)
  BY <1>3, <1>4 DEF SlotsAhead
<1> QED BY <1>6, <1>7 DEF WorkOf

(***************************************************************************)
(* The fields of a struct that a step assigns.                             *)
(***************************************************************************)
Kept(a, b) == a.ref = b.ref /\ a.refSchema = b.refSchema

LEMMA EditFn ==
  ASSUME NEW st \in Struct, NEW fn \in Fn, NEW b, b = [st EXCEPT !.fn = fn]
  PROVE  b \in Struct /\ SameLinks(st, b) /\ SameLife(st, b) /\ SameFields(st, b) /\ Kept(st, b)
BY DEF Struct, SameLinks, SameLife, SameFields, Kept

Named(st, fn, id, ref, rid, rref, scope, b) ==
  /\ st \in Struct /\ fn \in Fn /\ {id, ref, rid, rref} \subseteq UriType
  /\ scope \in Seq(Seq(STRING))
  /\ b = [st EXCEPT !.fn = fn, !.id = id, !.ref = ref, !.resolvedId = rid,
                     !.resolvedRef = rref, !.scope = scope]

LEMMA EditNames ==
  ASSUME NEW st, NEW fn, NEW id, NEW ref, NEW rid, NEW rref, NEW scope, NEW b,
         Named(st, fn, id, ref, rid, rref, scope, b)
  PROVE  /\ b \in Struct /\ SameLinks(st, b) /\ SameLife(st, b) /\ SameFields(st, b)
         /\ b.refSchema = st.refSchema
BY DEF Named, Struct, SameLinks, SameLife, SameFields

LEMMA EditEnd ==
  ASSUME NEW st \in Struct, NEW fn \in Fn, NEW format \in STRING, NEW typeFn \in STRING,
         NEW flags \in SUBSET STRING,
         NEW b, b = [st EXCEPT !.format = format, !.typeFn = typeFn, !.flags = flags, !.fn = fn]
  PROVE  b \in Struct /\ SameLinks(st, b) /\ SameLife(st, b) /\ SameFields(st, b) /\ Kept(st, b)
BY DEF Struct, SameLinks, SameLife, SameFields, Kept

LEMMA EditSlots ==
  ASSUME NEW st \in Struct, NEW slots \in Nat, NEW b, b = [st EXCEPT !.slots = slots]
  PROVE  /\ b \in Struct /\ SameLinks(st, b) /\ SameLife(st, b) /\ Kept(st, b)
         /\ b.slots = slots /\ b.val = st.val
BY DEF Struct, SameLinks, SameLife, Kept

LEMMA EditRef ==
  ASSUME NEW st \in Struct, NEW t \in Nat, NEW b, b = [st EXCEPT !.refSchema = t]
  PROVE  /\ b \in Struct /\ SameLinks(st, b) /\ SameLife(st, b) /\ SameFields(st, b)
         /\ b.ref = st.ref /\ b.refSchema = t
BY DEF Struct, SameLinks, SameLife, SameFields

LEMMA EditSingle ==
  ASSUME NEW st \in Struct, NEW k \in SingleKeyword, st.single[k] = 0, NEW x \in Nat, x # 0,
         NEW b, b = [st EXCEPT !.single[k] = x]
  PROVE  /\ b \in Struct /\ SameLife(st, b) /\ Kept(st, b)
         /\ Wrapped(b) = Wrapped(st) /\ Owned(b) = Owned(st) \cup {x}
         /\ b.val = st.val /\ b.lists = st.lists /\ b.nested = st.nested /\ b.slots = st.slots
         /\ \A j \in SingleKeyword : j # k => b.single[j] = st.single[j]
<1>1. PICK f : f = [st.single EXCEPT ![k] = x]
  OBVIOUS
<1>2. b = [st EXCEPT !.single = f]
  BY <1>1
<1>3. st.single \in [SingleKeyword -> Nat]
  BY DEF Struct
<1>4. f \in [SingleKeyword -> Nat] /\ f[k] = x /\ \A j \in SingleKeyword : j # k => f[j] = st.single[j]
  BY <1>1, <1>3
<1>5. b \in Struct
  BY <1>2, <1>4, ZenonT(40) DEF Struct
<1>6. SameLife(st, b) /\ Kept(st, b) /\ b.single = f
      /\ b.val = st.val /\ b.lists = st.lists /\ b.nested = st.nested /\ b.slots = st.slots
  BY <1>2 DEF Struct, SameLife, Kept
<1>7. Wrapped(b) = Wrapped(st)
  BY <1>6 DEF Wrapped
<1>8. Owned(b) = Owned(st) \cup {x}
  BY <1>4, <1>6 DEF Owned
<1> QED BY <1>4, <1>5, <1>6, <1>7, <1>8

LEMMA EditNested ==
  ASSUME NEW st \in Struct, NEW x \in Nat, x # 0,
         NEW b, b = [st EXCEPT !.nested = Append(@, x)]
  PROVE  /\ b \in Struct /\ SameLife(st, b) /\ Kept(st, b)
         /\ Wrapped(b) = Wrapped(st) /\ Owned(b) = Owned(st) \cup {x}
         /\ b.val = st.val /\ b.single = st.single /\ b.lists = st.lists /\ b.slots = st.slots
         /\ Len(b.nested) = Len(st.nested) + 1
<1>1. PICK q : q = Append(st.nested, x)
  OBVIOUS
<1>2. b = [st EXCEPT !.nested = q]
  BY <1>1
<1>3. st.nested \in Seq(Nat)
  BY DEF Struct
<1>4. q \in Seq(Nat) /\ Len(q) = Len(st.nested) + 1 /\ ToSet(q) = ToSet(st.nested) \cup {x}
  <2>1. q \in Seq(Nat) /\ Len(q) = Len(st.nested) + 1
    BY <1>1, <1>3
  <2>2. ToSet(q) = ToSet(st.nested) \cup {x}
    BY <1>1, <1>3, AppendSet
  <2> QED BY <2>1, <2>2
<1>5. b \in Struct
  BY <1>2, <1>4, ZenonT(40) DEF Struct
<1>6. SameLife(st, b) /\ Kept(st, b) /\ b.nested = q
      /\ b.val = st.val /\ b.single = st.single /\ b.lists = st.lists /\ b.slots = st.slots
  BY <1>2 DEF Struct, SameLife, Kept
<1>7. Wrapped(b) = Wrapped(st)
  BY <1>6 DEF Wrapped
<1>8. Owned(b) = Owned(st) \cup {x}
  BY <1>4, <1>6 DEF Owned
<1> QED BY <1>4, <1>5, <1>6, <1>7, <1>8

LEMMA EditList ==
  ASSUME NEW st \in Struct, NEW k \in ListKeyword, st.lists[k] = <<>>, NEW q \in Seq(Nat),
         NEW b, b = [st EXCEPT !.lists[k] = q]
  PROVE  /\ b \in Struct /\ SameLife(st, b) /\ Kept(st, b)
         /\ Wrapped(b) = Wrapped(st) \cup ToSet(q) /\ Owned(b) = Owned(st)
         /\ b.val = st.val /\ b.single = st.single /\ b.nested = st.nested /\ b.slots = st.slots
         /\ \A j \in ListKeyword : j # k => b.lists[j] = st.lists[j]
<1>1. PICK f : f = [st.lists EXCEPT ![k] = q]
  OBVIOUS
<1>2. b = [st EXCEPT !.lists = f]
  BY <1>1
<1>3. st.lists \in [ListKeyword -> Seq(Nat)]
  BY DEF Struct
<1>4. f \in [ListKeyword -> Seq(Nat)] /\ f[k] = q /\ \A j \in ListKeyword : j # k => f[j] = st.lists[j]
  BY <1>1, <1>3
<1>5. b \in Struct
  BY <1>2, <1>4, ZenonT(40) DEF Struct
<1>6. SameLife(st, b) /\ Kept(st, b) /\ b.lists = f
      /\ b.val = st.val /\ b.single = st.single /\ b.nested = st.nested /\ b.slots = st.slots
  BY <1>2 DEF Struct, SameLife, Kept
<1>7. Owned(b) = Owned(st)
  BY <1>6 DEF Owned
<1>8. ToSet(<<>>) = {}
  BY DEF ToSet
<1>9. Wrapped(b) = Wrapped(st) \cup ToSet(q)
  <2>1. Wrapped(b) = UNION {ToSet(f[j]) : j \in ListKeyword}
    BY <1>6 DEF Wrapped
  <2>2. Wrapped(st) = UNION {ToSet(st.lists[j]) : j \in ListKeyword}
    BY DEF Wrapped
  <2>3. \A j \in ListKeyword : ToSet(f[j]) = IF j = k THEN ToSet(q) ELSE ToSet(st.lists[j])
    BY <1>4
  <2>4. ToSet(st.lists[k]) = {}
    BY <1>8
  <2> QED BY <2>1, <2>2, <2>3, <2>4
<1> QED BY <1>4, <1>5, <1>6, <1>7, <1>9

(***************************************************************************)
(* URIs, types and formats.                                                *)
(***************************************************************************)
LEMMA UriAtTyped ==
  ASSUME NEW v \in Value, NEW k
  PROVE  /\ UriAt(v, k) \in UriType
         /\ \A b \in DOMAIN JoinDoc :
              LET d == UriAt(v, k).doc
              IN  UriAt(v, k) = NoUri \/ d = "" \/ d \in DOMAIN JoinDoc \/ JoinDoc[b][d] \in STRING
<1>1. CASE HasShape(v, k, {"string"})
  <2>1. PICK a \in Value : a = Lookup(v, k)
    BY <1>1, ShapeIsArray
  <2>2. UriAt(v, k) = Ruby[a].uri /\ Ruby[a].uri \in UriType
    BY <1>1, <2>1, MembersFacts DEF UriAt
  <2> QED BY <2>2, JoinAssumption
<1>2. CASE ~HasShape(v, k, {"string"})
  BY <1>2, NoUriTyped DEF UriAt
<1> QED BY <1>1, <1>2

LEMMA JoinTyped ==
  ASSUME NEW base \in UriType, NEW v \in Value, NEW k, NEW u, u = UriAt(v, k),
         u # NoUri, ~IsAbsolute(u)
  PROVE  UriJoin(base, u) \in UriType
<1>1. u \in UriType
  BY UriAtTyped
<1>2. CASE UriJoin(base, u) = NoUri
  BY <1>2, NoUriTyped
<1>3. CASE UriJoin(base, u) # NoUri
  <2>1. /\ IsAbsolute(base)
        /\ UriJoin(base, u) = Uri(IF u.doc = "" THEN base.doc ELSE JoinDoc[base.doc][u.doc], u.at)
    BY <1>3 DEF UriJoin
  <2>2. u.doc = "" \/ JoinDoc[base.doc][u.doc] \in STRING
    BY <2>1, UriAtTyped DEF IsAbsolute
  <2>3. base.doc \in STRING /\ u.at \in Seq(STRING)
    BY <1>1 DEF UriType
  <2>4. PICK d \in STRING, at \in Seq(STRING) :
          d = (IF u.doc = "" THEN base.doc ELSE JoinDoc[base.doc][u.doc]) /\ at = u.at
    BY <2>2, <2>3
  <2>5. [doc |-> d, at |-> at] \in UriType
    BY DEF UriType
  <2> QED BY <2>1, <2>4, <2>5 DEF Uri
<1> QED BY <1>2, <1>3

LEMMA TypeFnTyped ==
  ASSUME NEW v \in Value
  PROVE  TypeFn(v) \in STRING
<1>1. /\ "validate_null" \in STRING /\ "validate_bool" \in STRING /\ "validate_string" \in STRING
      /\ "validate_integer" \in STRING /\ "validate_number" \in STRING
      /\ "validate_array" \in STRING /\ "validate_object" \in STRING
      /\ "validate_by_type_list" \in STRING /\ "validate_by_data_type" \in STRING
      /\ "no_op_validate" \in STRING
  BY LiteralsAssumption DEF Literals
<1>2. \A name \in DOMAIN TypeFnOf : TypeFnOf[name] \in STRING
  BY <1>1 DEF TypeFnOf
<1> QED BY <1>1, <1>2 DEF TypeFn

LEMMA TypeFlagsTyped ==
  ASSUME NEW v \in Value
  PROVE  TypeFlags(v) \in SUBSET STRING
<1>1. CASE HasShape(v, "type", {"array"})
  <2>1. PICK a \in Value : a = Lookup(v, "type")
    BY <1>1, ShapeIsArray
  <2>2. PICK items \in Seq(Value) : items = Ruby[a].items
    BY MembersFacts
  <2>3. PICK q : q = [j \in 1 .. Len(items) |-> Ruby[items[j]].text]
    OBVIOUS
  <2>4. \A j \in DOMAIN q : q[j] \in STRING
    BY <2>3, MembersFacts
  <2>5. TypeFlags(v) = ToSet(q)
    BY <1>1, <2>1, <2>2, <2>3 DEF TypeFlags, TypeNames
  <2> QED BY <2>4, <2>5 DEF ToSet
<1>2. CASE ~HasShape(v, "type", {"array"})
  BY <1>2 DEF TypeFlags
<1> QED BY <1>1, <1>2

LEMMA FormatTyped ==
  \A v : Format(v) \in STRING
<1>1. "none" \in STRING /\ "custom" \in STRING /\ "builtin" \in STRING
  BY LiteralsAssumption DEF Literals
<1> QED BY <1>1 DEF Format

(***************************************************************************)
(* The state in a call of compile().                                       *)
(***************************************************************************)
LEMMA FrameFacts ==
  ASSUME NEW f \in Frame
  PROVE  /\ f.s \in Nat /\ f.base \in UriType /\ f.pointer \in Seq(STRING) /\ f.home \in Nat
         /\ f.pc \in {"enter", "jobs"} /\ f.jobs \in Seq(JobType)
         /\ f.kept \in Seq(Nat) /\ f.obj \in Nat
         /\ Wrappers(f) \subseteq Nat
<1>1. /\ f.s \in Nat /\ f.base \in UriType /\ f.pointer \in Seq(STRING) /\ f.home \in Nat
      /\ f.pc \in {"enter", "jobs"} /\ f.jobs \in Seq(JobType)
      /\ f.kept \in Seq(Nat) /\ f.obj \in Nat
  BY DEF Frame
<1>2. ToSet(f.kept) \subseteq Nat
  BY <1>1 DEF ToSet
<1> QED BY <1>1, <1>2 DEF Wrappers

LEMMA StructFacts ==
  ASSUME NEW st \in Struct
  PROVE  /\ st.val \in Value /\ st.path \in Seq(STRING) /\ st.loc \in Seq(STRING)
         /\ st.home \in Nat /\ st.nested \in Seq(Nat) /\ st.slots \in Nat
         /\ st.frees \in Nat /\ st.swept \in BOOLEAN /\ st.refSchema \in Nat
         /\ st.fn \in Fn /\ st.ref \in UriType /\ st.resolvedRef \in UriType
         /\ Len(st.nested) \in Nat
BY DEF Struct

(* The invariants' parts, and what they say in compile().                  *)
LEMMA Parts ==
  TreeInv <=>
    /\ Phases /\ FramesIn(frames, TreeRoot, Len(heap))
    /\ NamesIn(refData, agenda, heap, Len(heap), TreeRoot)
    /\ Sound(heap, HeldBy(root, ivar, frames), TreeRoot)
    /\ WorkIn(frames, heap) /\ SlotsIn(heap, Len(heap), TreeRoot, Busy(frames)) /\ Resolving
<1>1. Rooted = HeldBy(root, ivar, frames)
  BY DEF Rooted, HeldBy
<1>2. FramesInTree <=> FramesIn(frames, TreeRoot, Len(heap))
  BY DEF FramesInTree, FramesIn
<1>3. NamesInTree <=> NamesIn(refData, agenda, heap, Len(heap), TreeRoot)
  BY DEF NamesInTree, NamesIn
<1>4. Work <=> WorkIn(frames, heap)
  BY DEF Work, WorkIn
<1>5. SlotsFilled <=> SlotsIn(heap, Len(heap), TreeRoot, Busy(frames))
  <2>1. \A s : s \notin Busy(frames) <=> \A j \in 1 .. Len(frames) : frames[j].s # s
    BY DEF Busy
  <2> QED BY <2>1 DEF SlotsFilled, SlotsIn
<1> QED BY <1>1, <1>2, <1>3, <1>4, <1>5 DEF TreeInv

LEMMA PartsAfter ==
  ASSUME NEW n, n = Len(heap'), NEW r, r = TreeRoot',
         Phases', FramesIn(frames', r, n), NamesIn(refData', agenda', heap', n, r),
         Sound(heap', HeldBy(root', ivar', frames'), r),
         WorkIn(frames', heap'), SlotsIn(heap', n, r, Busy(frames')), Resolving'
  PROVE  TreeInv'
<1>1. Rooted' = HeldBy(root', ivar', frames')
  BY DEF Rooted, HeldBy
<1>2. FramesInTree'
  BY DEF FramesInTree, FramesIn
<1>3. NamesInTree'
  BY DEF NamesInTree, NamesIn
<1>4. Work'
  BY DEF Work, WorkIn
<1>5. SlotsFilled'
  <2>1. \A s : s \notin Busy(frames') <=> \A j \in 1 .. Len(frames') : frames'[j].s # s
    BY DEF Busy
  <2> QED BY <2>1 DEF SlotsFilled, SlotsIn
<1>6. Sound(heap, Rooted, TreeRoot)'
  BY <1>1
<1> QED BY <1>2, <1>3, <1>4, <1>5, <1>6 DEF TreeInv

LEMMA InCompile ==
  ASSUME CompileTypeOK, TreeInv, phase = "compile"
  PROVE  /\ TreeRoot = root /\ ivar = 0 /\ agenda = <<>>
         /\ heap \in Seq(Struct) /\ Len(heap) \in Nat /\ root \in 1 .. Len(heap)
         /\ frames \in Seq(Frame) /\ Len(frames) \in Nat \ {0}
         /\ Top = frames[Len(frames)] /\ Top \in Frame /\ Top.s \in 1 .. Len(heap)
         /\ Young(root, Top.s) /\ Cur = heap[Top.s] /\ Cur \in Struct /\ WorkOf(Top, Cur)
         /\ \A j \in 1 .. Len(frames) :
              frames[j] \in Frame /\ frames[j].s \in 1 .. Len(heap) /\ Wrappers(frames[j]) \subseteq Nat
<1>1. TreeRoot = root /\ ivar = 0 /\ agenda = <<>> /\ root # 0 /\ frames # <<>>
  <2>1. TreeRoot = root
    BY DEF TreeRoot
  <2>2. /\ ivar \in 0 .. Len(heap) /\ agenda \in Seq(1 .. Len(heap))
    BY DEF CompileTypeOK
  <2> QED BY <2>1, <2>2 DEF TreeInv, Phases
<1>2. /\ heap \in Seq(Struct) /\ Len(heap) \in Nat /\ root \in 1 .. Len(heap)
      /\ frames \in Seq(Frame)
  <2>1. heap \in Seq(Struct) /\ root \in 0 .. Len(heap) /\ frames \in Seq(Frame)
    BY DEF CompileTypeOK
  <2>2. PICK H : H = Struct
    OBVIOUS
  <2>3. Len(heap) \in Nat
    BY <2>1, <2>2
  <2> QED BY <1>1, <2>1, <2>3
<1>3. PICK F : F = Frame
  OBVIOUS
<1>4. Len(frames) \in Nat \ {0} /\ \A j \in 1 .. Len(frames) : frames[j] \in F
  BY <1>1, <1>2, <1>3, EmptySeq
<1>5. FramesIn(frames, root, Len(heap)) /\ WorkIn(frames, heap)
  BY <1>1, Parts
<1>6. ASSUME NEW j \in 1 .. Len(frames)
      PROVE  /\ frames[j] \in Frame /\ frames[j].s \in 1 .. Len(heap) /\ Wrappers(frames[j]) \subseteq Nat
             /\ Young(root, frames[j].s) /\ WorkOf(frames[j], heap[frames[j].s])
             /\ heap[frames[j].s] \in Struct
  <2>1. frames[j] \in Frame
    BY <1>3, <1>4
  <2>2. frames[j].s \in Nat /\ Wrappers(frames[j]) \subseteq Nat
    BY <2>1, FrameFacts
  <2>3. Young(root, frames[j].s) /\ frames[j].s <= Len(heap)
    BY <1>5 DEF FramesIn
  <2>4. frames[j].s \in 1 .. Len(heap)
    BY <1>2, <2>2, <2>3 DEF Young
  <2>5. WorkOf(frames[j], heap[frames[j].s])
    BY <1>5 DEF WorkIn
  <2>6. PICK H : H = Struct
    OBVIOUS
  <2>7. heap[frames[j].s] \in H
    BY <1>2, <2>4, <2>6
  <2> QED BY <2>1, <2>2, <2>3, <2>4, <2>5, <2>6, <2>7
<1>7. Len(frames) \in 1 .. Len(frames) /\ Top = frames[Len(frames)]
  BY <1>4 DEF Top
<1>8. /\ Top \in Frame /\ Top.s \in 1 .. Len(heap) /\ Young(root, Top.s)
      /\ WorkOf(Top, heap[Top.s]) /\ heap[Top.s] \in Struct
  BY <1>6, <1>7
<1> QED BY <1>1, <1>2, <1>4, <1>6, <1>7, <1>8 DEF Cur

(* A step of compile() that does not return.                               *)
LEMMA Stays ==
  ASSUME CompileTypeOK, TreeInv, phase = "compile", NEW c, c = Top.s,
         phase' = "compile", root' = root, ivar' = ivar, agenda' = agenda,
         \A k \in DOMAIN refData' : Young(root, refData'[k]),
         NEW m \in Nat, m = Len(heap'), Len(heap) <= m,
         \A s \in 1 .. Len(heap) : s # c => heap'[s] = heap[s],
         \A s \in 1 .. m : s > Len(heap) =>
           heap'[s].nested = <<>> /\ heap'[s].slots = 0 /\ heap'[s].refSchema = 0,
         heap'[c].refSchema = Cur.refSchema, Len(heap'[c].nested) <= heap'[c].slots,
         frames' # <<>>, FramesIn(frames', root, m), WorkIn(frames', heap'),
         Busy(frames) \subseteq Busy(frames'),
         Sound(heap', HeldBy(root, ivar, frames'), root)
  PROVE  TreeInv'
<1>1. /\ TreeRoot = root /\ ivar = 0 /\ agenda = <<>> /\ root # 0
      /\ Len(heap) \in Nat /\ c \in 1 .. Len(heap) /\ Cur = heap[c] /\ Cur \in Struct
      /\ Top = frames[Len(frames)] /\ Len(frames) \in 1 .. Len(frames)
  BY InCompile
<1>2. TreeRoot' = root
  BY DEF TreeRoot
<1>3. Phases'
  BY <1>1, <1>2 DEF Phases
<1>4. PICK n \in Nat : n = Len(heap)
  BY <1>1
<1>5. NamesIn(refData', agenda', heap', m, root)
  <2>1. NamesIn(refData, agenda, heap, n, root)
    BY <1>1, <1>4, Parts
  <2>2. ASSUME NEW s \in 1 .. m, Young(root, s), heap'[s].refSchema # 0
        PROVE  Young(root, heap'[s].refSchema) /\ heap'[s].refSchema <= m
    <3>1. s \in 1 .. n /\ heap'[s].refSchema = heap[s].refSchema
      BY <1>1, <1>4, <2>2
    <3>2. Young(root, heap[s].refSchema) /\ heap[s].refSchema <= n
      BY <2>1, <2>2, <3>1 DEF NamesIn
    <3>3. heap[s].refSchema \in Nat
      <4>1. PICK H : H = Struct /\ heap \in Seq(H)
        BY InCompile
      <4>2. heap[s] \in H
        BY <1>4, <3>1, <4>1
      <4> QED BY <4>1, <4>2, StructFacts
    <3> QED BY <1>4, <3>1, <3>2, <3>3
  <2>3. \A j \in 1 .. Len(agenda') : Young(root, agenda'[j])
    BY <1>1
  <2> QED BY <2>2, <2>3 DEF NamesIn
<1>6. SlotsIn(heap', m, root, Busy(frames'))
  <2>1. SlotsIn(heap, n, root, Busy(frames))
    BY <1>1, <1>4, Parts
  <2>2. c \in Busy(frames')
    BY <1>1 DEF Busy
  <2>3. \A s \in 1 .. n : s # c => heap[s].nested = heap'[s].nested /\ heap[s].slots = heap'[s].slots
    BY <1>4
  <2>4. Busy(frames) \subseteq Busy(frames') \cup {c}
    OBVIOUS
  <2>5. PICK h, g, a, b : h = heap /\ g = heap' /\ a = Busy(frames) /\ b = Busy(frames')
    OBVIOUS
  <2>6. /\ SlotsIn(h, n, root, a) /\ c \in b /\ a \subseteq b \cup {c}
        /\ \A s \in 1 .. n : s # c => h[s].nested = g[s].nested /\ h[s].slots = g[s].slots
    BY <2>1, <2>2, <2>3, <2>4, <2>5
  <2>7. /\ n <= m /\ c \in 1 .. n /\ Len(g[c].nested) <= g[c].slots
        /\ \A s \in 1 .. m : s > n => g[s].nested = <<>> /\ g[s].slots = 0
    BY <1>1, <1>4, <2>5
  <2>8. SlotsIn(g, m, root, b)
    <3>1. Refits(h, n, a, c, g, m, b)
      BY <1>4, <2>6, <2>7 DEF Refits
    <3> QED BY <2>6, <3>1, SlotsMove
  <2> QED BY <2>5, <2>8
<1>7. Resolving'
  BY <1>1 DEF Resolving
<1> QED BY <1>2, <1>3, <1>5, <1>6, <1>7, PartsAfter

(* The last step of compile() over a struct: what it changes is neither a  *)
(* link nor a slot.                                                        *)
LEMMA Returns ==
  ASSUME CompileTypeOK, TreeInv, phase = "compile", LeaveCompile, root' = root, ivar' = ivar,
         \A k \in DOMAIN refData' : Young(root, refData'[k]),
         NEW c, c = Top.s, NEW st, heap' = [heap EXCEPT ![c] = st], st \in Struct,
         SameLinks(Cur, st), SameLife(Cur, st), SameFields(Cur, st), st.refSchema = Cur.refSchema,
         Top.obj = 0, Top.kept = <<>>, Cur.slots = Len(Cur.nested)
  PROVE  /\ heap' \in Seq(Struct) /\ Len(heap') = Len(heap)
         /\ phase' \in {"compile", "resolve"} /\ frames' \in Seq(Frame)
         /\ agenda' \in Seq(1 .. Len(heap)) /\ TreeInv'
<1>1. /\ TreeRoot = root /\ ivar = 0 /\ agenda = <<>> /\ root # 0
      /\ c \in 1 .. Len(heap) /\ Cur = heap[c] /\ Cur \in Struct /\ heap \in Seq(Struct)
      /\ Top = frames[Len(frames)] /\ Len(frames) \in 1 .. Len(frames) /\ frames \in Seq(Frame)
      /\ \A j \in 1 .. Len(frames) : frames[j].s \in 1 .. Len(heap)
      /\ Len(heap) \in Nat /\ root \in 1 .. Len(heap) /\ Len(frames) \in Nat \ {0}
  BY InCompile
<1>2. PICK n \in Nat : n = Len(heap)
  BY <1>1
<1>3. PICK t \in Nat \ {0} : t = Len(frames)
  BY <1>1
<1>4. PICK H : H = Struct
  OBVIOUS
<1>5. PICK h, g : h = heap /\ g = heap'
  OBVIOUS
<1>6. h \in Seq(H) /\ c \in 1 .. Len(h) /\ st \in H /\ g = [h EXCEPT ![c] = st]
  BY <1>1, <1>4, <1>5
<1>7. /\ g \in Seq(H) /\ Len(g) = n /\ Len(h) = n /\ g[c] = st /\ h[c] = Cur
      /\ \A s \in 1 .. n : s # c => g[s] = h[s]
  BY <1>1, <1>2, <1>5, <1>6, ExceptSeq
<1>8. \A s \in 1 .. n : /\ SameLinks(h[s], g[s]) /\ SameLife(h[s], g[s]) /\ SameFields(h[s], g[s])
                        /\ g[s].refSchema = h[s].refSchema
  BY <1>7 DEF SameLinks, SameLife, SameFields
<1>9. PICK fs, gs : fs = frames /\ gs = frames'
  OBVIOUS
<1>10. /\ gs \in Seq(Frame) /\ Len(gs) = t - 1 /\ Len(fs) = t /\ \A j \in 1 .. t - 1 : gs[j] = fs[j]
  <2>1. PICK F : F = Frame /\ fs \in Seq(F)
    BY <1>1, <1>9
  <2>2. fs # <<>> /\ Len(fs) = t /\ gs = SubSeq(fs, 1, Len(fs) - 1)
    BY <1>3, <1>9, <2>1, EmptySeq DEF LeaveCompile
  <2> QED BY <2>1, <2>2, FrontSeq
<1>11. c = fs[t].s /\ t \in 1 .. t /\ \A j \in 1 .. t : fs[j].s \in 1 .. n
  BY <1>1, <1>2, <1>3, <1>9
<1>12. \A w \in Wrappers(fs[t]) : w = 0
  <2>1. fs[t].obj = 0 /\ fs[t].kept = <<>>
    BY <1>1, <1>3, <1>9
  <2> QED BY <2>1 DEF Wrappers, ToSet
<1>13. FramesIn(gs, root, n) /\ WorkIn(gs, g)
  <2>1. FramesIn(fs, root, n) /\ WorkIn(fs, h)
    BY <1>1, <1>2, <1>5, <1>9, Parts
  <2>2. \A s \in 1 .. n : s # fs[t].s => SameFields(h[s], g[s])
    BY <1>8
  <2>3. Pops(fs, h, n, t, gs, g)
    BY <1>2, <1>3, <1>10, <1>11, <2>2 DEF Pops
  <2> QED BY <2>1, <2>3, FramePop
<1>14. Busy(fs) \subseteq Busy(gs) \cup {c}
  <2>1. ASSUME NEW j \in 1 .. t PROVE fs[j].s \in Busy(gs) \cup {c}
    <3>1. CASE j = t
      BY <1>11, <3>1
    <3>2. CASE j # t
      BY <1>10, <3>2 DEF Busy
    <3> QED BY <3>1, <3>2
  <2> QED BY <1>10, <2>1 DEF Busy
<1>15. SlotsIn(g, n, root, Busy(gs))
  <2>1. SlotsIn(h, n, root, Busy(fs))
    BY <1>1, <1>2, <1>5, <1>9, Parts
  <2>2. Len(g[c].nested) = g[c].slots /\ Len(g[c].nested) \in Nat
    BY <1>1, <1>7, StructFacts DEF SameFields
  <2>3. \A s \in 1 .. n : s # c => h[s].nested = g[s].nested /\ h[s].slots = g[s].slots
    BY <1>7
  <2>4. c \in 1 .. n /\ Len(g[c].nested) <= g[c].slots /\ n <= n
        /\ \A s \in 1 .. n : s > n => g[s].nested = <<>> /\ g[s].slots = 0
    BY <1>2, <1>6, <1>7, <2>2
  <2>5. PICK a, b : a = Busy(fs) /\ b = Busy(gs)
    OBVIOUS
  <2>6. SlotsIn(g, n, root, b)
    <3>1. Refits(h, n, a, c, g, n, b)
      BY <1>2, <1>14, <2>2, <2>3, <2>4, <2>5 DEF Refits
    <3> QED BY <2>1, <2>5, <3>1, SlotsMove
  <2> QED BY <2>5, <2>6
<1>16. Sound(g, HeldBy(root, ivar, gs), root)
  <2>1. Sound(h, HeldBy(root, ivar, fs), root)
    BY <1>1, <1>5, <1>9, Parts
  <2>2. HeldBy(root, ivar, fs) \subseteq HeldBy(root, ivar, gs)
    <3> SUFFICES ASSUME NEW w \in HeldBy(root, ivar, fs) PROVE w \in HeldBy(root, ivar, gs)
      OBVIOUS
    <3>1. w # 0 /\ (w = root \/ w = ivar \/ \E j \in 1 .. t : w \in Wrappers(fs[j]))
      BY <1>10, HeldIs
    <3>2. ASSUME NEW j \in 1 .. t, w \in Wrappers(fs[j])
          PROVE  \E i \in 1 .. t - 1 : w \in Wrappers(gs[i])
      <4>1. j # t
        BY <1>12, <3>1, <3>2
      <4>2. j \in 1 .. t - 1
        BY <4>1
      <4> QED BY <1>10, <3>2, <4>2
    <3> QED BY <1>10, <3>1, <3>2, HeldIs
  <2> QED BY <1>7, <1>8, <2>1, <2>2, EditSound
<1>17. /\ phase' \in {"compile", "resolve"} /\ agenda' \in Seq(1 .. n)
       /\ TreeRoot' = root /\ Phases'
       /\ \A j \in 1 .. Len(agenda') : Young(root, agenda'[j])
       /\ phase' = "resolve" => gs = <<>> /\ agenda' = <<root>>
  <2>1. CASE t = 1
    <3>1. phase' = "resolve" /\ agenda' = <<root>>
      BY <1>3, <2>1 DEF LeaveCompile
    <3>2. frames' = <<>>
      BY <1>9, <1>10, <2>1, EmptySeq
    <3>3. agenda' \in Seq(1 .. n) /\ Len(agenda') = 1 /\ agenda'[1] = root
      BY <1>1, <1>2, <3>1
    <3>4. Young(root, root) /\ TreeRoot' = root
      BY <1>1, <3>1 DEF Young, TreeRoot
    <3>5. Phases'
      BY <1>1, <3>1, <3>2 DEF Phases
    <3> QED BY <1>9, <3>1, <3>2, <3>3, <3>4, <3>5
  <2>2. CASE t # 1
    <3>1. phase' = "compile" /\ agenda' = <<>>
      BY <1>1, <1>3, <2>2 DEF LeaveCompile
    <3>2. frames' # <<>>
      BY <1>9, <1>10, <2>2
    <3>3. TreeRoot' = root
      BY <3>1 DEF TreeRoot
    <3>4. Phases'
      BY <1>1, <3>1, <3>2 DEF Phases
    <3> QED BY <3>1, <3>3, <3>4
  <2> QED BY <2>1, <2>2
<1>18. NamesIn(refData', agenda', g, n, root)
  <2>1. NamesIn(refData, agenda, h, n, root)
    BY <1>1, <1>2, <1>5, Parts
  <2> QED BY <1>8, <1>17, <2>1 DEF NamesIn
<1>19. Resolving'
  <2> SUFFICES ASSUME phase' = "resolve", NEW s \in 1 .. n, Young(root, s)
               PROVE  s \in Reach(LinksIn(g), ToSet(agenda'))
    <3>1. Points' = LinksIn(g)
      BY <1>5 DEF Points, LinksIn
    <3>2. ivar' = 0 /\ Len(heap') = n /\ TreeRoot' = root
      BY <1>1, <1>5, <1>7, <1>17
    <3> QED BY <3>1, <3>2 DEF Resolving
  <2>1. gs = <<>> /\ agenda' = <<root>>
    BY <1>17
  <2>2. PICK held, next : held = HeldBy(root, ivar, gs) /\ next = ToSet(agenda')
    OBVIOUS
  <2>3. next = {root}
    <3>1. ToSet(<<root>>) = {root}
      BY DEF ToSet
    <3> QED BY <2>1, <2>2, <3>1
  <2>4. held = {root}
    <3>1. \A w : w \in held <=> w # 0 /\ (w = root \/ w = ivar \/ \E j \in 1 .. 0 : w \in Wrappers(gs[j]))
      BY <2>1, <2>2, HeldIs
    <3> QED BY <1>1, <3>1
  <2>5. Sound(g, next, root)
    BY <1>16, <2>2, <2>3, <2>4
  <2> QED BY <1>7, <2>2, <2>5, YoungMarked
<1>20. TreeInv'
  <2>1. n = Len(heap') /\ root = TreeRoot'
    BY <1>5, <1>7, <1>17
  <2> QED BY <1>5, <1>9, <1>13, <1>15, <1>16, <1>17, <1>18, <1>19, <2>1, PartsAfter
<1> QED BY <1>2, <1>4, <1>5, <1>7, <1>9, <1>10, <1>17, <1>20

(***************************************************************************)
(* compile() of a leaf, and the end of compile().                          *)
(***************************************************************************)
Table(f, n, r) ==
  \A k \in DOMAIN f : k \in UriType /\ f[k] \in 1 .. n /\ Young(r, f[k])

LEMMA PutTyped ==
  ASSUME NEW f, NEW n, NEW r, Table(f, n, r), NEW k \in UriType, NEW x \in 1 .. n, Young(r, x)
  PROVE  Table(Put(f, k, x), n, r)
<1>1. PICK p : p = Put(f, k, x)
  OBVIOUS
<1>2. DOMAIN p = DOMAIN f \cup {k} /\ \A y \in DOMAIN p : p[y] = IF y = k THEN x ELSE f[y]
  BY <1>1 DEF Put
<1> QED BY <1>1, <1>2 DEF Table

LEMMA TableNow ==
  ASSUME CompileTypeOK, TreeInv
  PROVE  Table(refData, Len(heap), TreeRoot)
<1>1. \A k \in DOMAIN refData : k \in UriType /\ refData[k] \in 1 .. Len(heap)
  BY DEF CompileTypeOK
<1>2. \A k \in DOMAIN refData : Young(TreeRoot, refData[k])
  BY DEF TreeInv, NamesInTree
<1> QED BY <1>1, <1>2 DEF Table

LEMMA PathTyped ==
  ASSUME CompileTypeOK, TreeInv, phase = "compile"
  PROVE  Table(RegisterPath, Len(heap), root)
<1>1. Table(refData, Len(heap), root) /\ Top.s \in 1 .. Len(heap) /\ Young(root, Top.s) /\ Cur \in Struct
  BY InCompile, TableNow
<1>2. PathKey \in UriType
  <2>1. "" \in STRING
    BY LiteralsAssumption DEF Literals
  <2>2. Cur.path \in Seq(STRING)
    BY <1>1, StructFacts
  <2> QED BY <2>1, <2>2 DEF PathKey, Uri, UriType
<1> QED BY <1>1, <1>2, PutTyped DEF RegisterPath

LEMMA TypeAfter ==
  ASSUME CompileTypeOK, source' = source, attempts' \in 0 .. MaxAttempts,
         phase' \in {"idle", "compile", "resolve", "dropped"},
         heap' \in Seq(Struct), frames' \in Seq(Frame), NEW n, n = Len(heap'),
         \A k \in DOMAIN refData' : k \in UriType /\ refData'[k] \in 1 .. n,
         agenda' \in Seq(1 .. n), root' \in 0 .. n, ivar' \in 0 .. n
  PROVE  CompileTypeOK'
BY DEF CompileTypeOK

LEMMA ReturnKeeps ==
  ASSUME CompileTypeOK, TreeInv, phase = "compile", LeaveCompile,
         source' = source, attempts' = attempts, root' = root, ivar' = ivar,
         Table(refData', Len(heap), root),
         NEW c, c = Top.s, NEW st, heap' = [heap EXCEPT ![c] = st], st \in Struct,
         SameLinks(Cur, st), SameLife(Cur, st), SameFields(Cur, st), st.refSchema = Cur.refSchema,
         Top.obj = 0, Top.kept = <<>>, Cur.slots = Len(Cur.nested)
  PROVE  CompileTypeOK' /\ TreeInv'
<1>1. \A k \in DOMAIN refData' :
        k \in UriType /\ refData'[k] \in 1 .. Len(heap) /\ Young(root, refData'[k])
  BY DEF Table
<1>2. /\ heap' \in Seq(Struct) /\ Len(heap') = Len(heap)
      /\ phase' \in {"compile", "resolve"} /\ frames' \in Seq(Frame)
      /\ agenda' \in Seq(1 .. Len(heap)) /\ TreeInv'
  BY <1>1, Returns
<1>3. /\ phase' \in {"idle", "compile", "resolve", "dropped"} /\ attempts' \in 0 .. MaxAttempts
      /\ root' \in 0 .. Len(heap) /\ ivar' \in 0 .. Len(heap)
  BY <1>2 DEF CompileTypeOK
<1>4. CompileTypeOK'
  BY <1>1, <1>2, <1>3, TypeAfter
<1> QED BY <1>2, <1>4

LEMMA LeafKeeps ==
  ASSUME CompileTypeOK, TreeInv, CompileLeaf
  PROVE  CompileTypeOK' /\ TreeInv'
<1>1. phase = "compile" /\ Top.pc = "enter"
  BY DEF CompileLeaf, Compiling
<1>2. Cur \in Struct /\ WorkOf(Top, Cur) /\ Cur = heap[Top.s] /\ Top.s \in 1 .. Len(heap)
  BY <1>1, InCompile
<1>3. PICK c : c = Top.s
  OBVIOUS
<1>4. PICK fn \in Fn : fn = (IF Shape(Cur.val) = "false" THEN "false_validate" ELSE "no_op_validate")
  BY DEF Fn
<1>5. PICK st : st = [Cur EXCEPT !.fn = fn]
  OBVIOUS
<1>6. heap' = [heap EXCEPT ![c] = st]
  BY <1>2, <1>3, <1>4, <1>5 DEF CompileLeaf
<1>7. /\ st \in Struct /\ SameLinks(Cur, st) /\ SameLife(Cur, st) /\ SameFields(Cur, st)
      /\ st.refSchema = Cur.refSchema
  BY <1>2, <1>5, EditFn DEF Kept
<1>8. Top.obj = 0 /\ Top.kept = <<>> /\ Cur.slots = Len(Cur.nested)
  <2>1. Top.jobs = <<>> /\ Untouched(Cur)
    BY <1>1, <1>2 DEF WorkOf, FrameWork
  <2>2. Ahead(Top) = "end"
    BY <2>1 DEF Ahead
  <2>3. Cur.nested = <<>> /\ Cur.slots = 0 /\ Len(<<>>) = 0
    BY <2>1 DEF Untouched
  <2> QED BY <1>2, <2>2, <2>3 DEF WorkOf, FrameWork
<1>9. /\ LeaveCompile /\ source' = source /\ attempts' = attempts /\ root' = root /\ ivar' = ivar
      /\ refData' = RegisterPath
  BY DEF CompileLeaf
<1>10. Table(refData', Len(heap), root)
  BY <1>1, <1>9, PathTyped
<1> QED BY <1>1, <1>3, <1>6, <1>7, <1>8, <1>9, <1>10, ReturnKeeps

LEMMA EndKeeps ==
  ASSUME CompileTypeOK, TreeInv, EndCompile
  PROVE  CompileTypeOK' /\ TreeInv'
<1>1. phase = "compile" /\ Top.jobs = <<>>
  BY DEF EndCompile, Compiling
<1>2. /\ Cur \in Struct /\ WorkOf(Top, Cur) /\ Cur = heap[Top.s] /\ Top.s \in 1 .. Len(heap)
      /\ TreeRoot = root
  BY <1>1, InCompile
<1>3. PICK c : c = Top.s
  OBVIOUS
<1>4. PICK fn \in Fn : fn = (IF Cur.ref # NoUri THEN "validate_ref" ELSE Cur.fn)
  BY <1>2, StructFacts DEF Fn
<1>5. PICK st : st = [Cur EXCEPT !.format = Format(Cur.val), !.typeFn = TypeFn(Cur.val),
                                 !.flags = TypeFlags(Cur.val),
                                 !.fn = IF Cur.ref # NoUri THEN "validate_ref" ELSE Cur.fn]
  OBVIOUS
<1>6. heap' = [heap EXCEPT ![c] = st]
  BY <1>2, <1>3, <1>5 DEF EndCompile
<1>7. /\ st \in Struct /\ SameLinks(Cur, st) /\ SameLife(Cur, st) /\ SameFields(Cur, st)
      /\ st.refSchema = Cur.refSchema
  <2>1. Cur.val \in Value
    BY <1>2, StructFacts
  <2>2. PICK format \in STRING, typeFn \in STRING, flags \in SUBSET STRING :
          format = Format(Cur.val) /\ typeFn = TypeFn(Cur.val) /\ flags = TypeFlags(Cur.val)
    BY <2>1, FormatTyped, TypeFnTyped, TypeFlagsTyped
  <2>3. PICK old \in Struct : old = Cur
    BY <1>2
  <2>4. st = [old EXCEPT !.format = format, !.typeFn = typeFn, !.flags = flags, !.fn = fn]
    BY <1>4, <1>5, <2>2, <2>3 DEF Struct
  <2>5. st \in Struct /\ SameLinks(old, st) /\ SameLife(old, st) /\ SameFields(old, st) /\ Kept(old, st)
    BY <2>2, <2>3, <2>4, EditEnd
  <2> QED BY <2>3, <2>5 DEF Kept
<1>8. Top.obj = 0 /\ Top.kept = <<>> /\ Cur.slots = Len(Cur.nested)
  <2>1. Ahead(Top) = "end"
    BY <1>1 DEF Ahead
  <2>2. Cur.slots = Len(Cur.nested) + 0 /\ Len(Cur.nested) \in Nat
    BY <1>1, <1>2, DoneSlots, StructFacts
  <2> QED BY <1>2, <2>1, <2>2 DEF WorkOf, FrameWork
<1>9. /\ LeaveCompile /\ source' = source /\ attempts' = attempts /\ root' = root /\ ivar' = ivar
      /\ refData' = refData
  BY DEF EndCompile
<1>10. Table(refData', Len(heap), root)
  BY <1>2, <1>9, TableNow
<1> QED BY <1>1, <1>3, <1>6, <1>7, <1>8, <1>9, <1>10, ReturnKeeps

(***************************************************************************)
(* A step of compile() over the innermost frame.                           *)
(***************************************************************************)
LEMMA HeapEdit ==
  ASSUME NEW h \in Seq(Struct), NEW n \in Nat, n = Len(h), NEW c \in 1 .. n, NEW st \in Struct,
         NEW g, g = [h EXCEPT ![c] = st]
  PROVE  /\ g \in Seq(Struct) /\ Len(g) = n /\ g[c] = st
         /\ \A s \in 1 .. n : s # c => g[s] = h[s]
<1>1. PICK H : H = Struct
  OBVIOUS
<1> QED BY <1>1, ExceptSeq

LEMMA HeapGrow ==
  ASSUME NEW h \in Seq(Struct), NEW n \in Nat, n = Len(h), NEW c \in 1 .. n, NEW st \in Struct,
         NEW child \in Struct, NEW g, g = Append([h EXCEPT ![c] = st], child)
  PROVE  /\ g \in Seq(Struct) /\ Len(g) = n + 1 /\ g[c] = st /\ g[n + 1] = child
         /\ \A s \in 1 .. n : s # c => g[s] = h[s]
<1>1. PICK e : e = [h EXCEPT ![c] = st]
  OBVIOUS
<1>2. /\ e \in Seq(Struct) /\ Len(e) = n /\ e[c] = st
      /\ \A s \in 1 .. n : s # c => e[s] = h[s]
  BY <1>1, HeapEdit
<1>3. PICK H : H = Struct
  OBVIOUS
<1>4. /\ g \in Seq(H) /\ Len(g) = n + 1 /\ g[n + 1] = child
      /\ \A s \in 1 .. n : g[s] = e[s]
  BY <1>1, <1>2, <1>3, AppendSeq
<1> QED BY <1>2, <1>3, <1>4

LEMMA HeldMoves ==
  ASSUME NEW fs, NEW t \in Nat \ {0}, Len(fs) = t, NEW gs, NEW m \in Nat, Len(gs) = m, t <= m,
         \A j \in 1 .. t : j # t => gs[j] = fs[j], NEW new,
         \A w \in Wrappers(fs[t]) : w = 0 \/ w \in Wrappers(gs[t]) \/ w \in new,
         NEW r, NEW i
  PROVE  HeldBy(r, i, fs) \subseteq HeldBy(r, i, gs) \cup new
<1> SUFFICES ASSUME NEW w \in HeldBy(r, i, fs), w \notin new PROVE w \in HeldBy(r, i, gs)
  OBVIOUS
<1>1. w # 0 /\ (w = r \/ w = i \/ \E j \in 1 .. t : w \in Wrappers(fs[j]))
  BY HeldIs
<1>2. ASSUME NEW j \in 1 .. t, w \in Wrappers(fs[j])
      PROVE  \E k \in 1 .. m : w \in Wrappers(gs[k])
  <2>1. j \in 1 .. m /\ w \in Wrappers(gs[j])
    BY <1>1, <1>2
  <2> QED BY <2>1
<1> QED BY <1>1, <1>2, HeldIs

(* What happens to the innermost frame: it becomes f, its struct st.       *)
Does(f, st) ==
  /\ phase = "compile" /\ st \in Struct /\ f \in Frame /\ f.s = Top.s /\ WorkOf(f, st)
  /\ st.refSchema = Cur.refSchema /\ Len(st.nested) <= st.slots
  /\ source' = source /\ attempts' = attempts /\ phase' = phase
  /\ root' = root /\ ivar' = ivar /\ agenda' = agenda

LEMMA DoesTyped ==
  ASSUME CompileTypeOK, TreeInv, NEW f, NEW st, Does(f, st), NEW m \in Nat, Len(heap) <= m
  PROVE  /\ attempts' \in 0 .. MaxAttempts /\ phase' \in {"idle", "compile", "resolve", "dropped"}
         /\ agenda' \in Seq(1 .. m) /\ root' \in 0 .. m /\ ivar' \in 0 .. m
<1>1. agenda = <<>> /\ root \in 1 .. Len(heap) /\ ivar = 0 /\ Len(heap) \in Nat
  BY InCompile DEF Does
<1> QED BY <1>1 DEF Does, CompileTypeOK

(* The wrappers in new go from the frame into the struct.                  *)
Swaps(f, st, new) ==
  /\ heap' = [heap EXCEPT ![Top.s] = st] /\ frames' = Replace(f)
  /\ Table(refData', Len(heap), root)
  /\ Wrapped(st) = Wrapped(Cur) \cup new /\ Owned(st) = Owned(Cur) /\ SameLife(Cur, st)
  /\ \A w \in Wrappers(f) : w # 0 => w \in Wrappers(Top)
  /\ \A w \in new : w \in Wrappers(Top) /\ w # 0
  /\ \A w \in Wrappers(Top) : w = 0 \/ w \in Wrappers(f) \/ w \in new

LEMMA Replaces ==
  ASSUME CompileTypeOK, TreeInv, NEW f, NEW st, Does(f, st), NEW new, Swaps(f, st, new)
  PROVE  CompileTypeOK' /\ TreeInv'
<1>swaps. /\ heap' = [heap EXCEPT ![Top.s] = st] /\ frames' = Replace(f)
          /\ Table(refData', Len(heap), root)
          /\ Wrapped(st) = Wrapped(Cur) \cup new /\ Owned(st) = Owned(Cur) /\ SameLife(Cur, st)
          /\ \A w \in Wrappers(f) : w # 0 => w \in Wrappers(Top)
          /\ \A w \in new : w \in Wrappers(Top) /\ w # 0
          /\ \A w \in Wrappers(Top) : w = 0 \/ w \in Wrappers(f) \/ w \in new
  BY DEF Swaps
<1> USE <1>swaps
<1>0. /\ phase = "compile" /\ st \in Struct /\ f \in Frame /\ f.s = Top.s /\ WorkOf(f, st)
      /\ st.refSchema = Cur.refSchema /\ Len(st.nested) <= st.slots
      /\ source' = source /\ attempts' = attempts /\ phase' = phase
      /\ root' = root /\ ivar' = ivar /\ agenda' = agenda
  BY DEF Does
<1>1. /\ TreeRoot = root /\ ivar = 0 /\ agenda = <<>> /\ heap \in Seq(Struct) /\ root \in 1 .. Len(heap)
      /\ Top.s \in 1 .. Len(heap) /\ Cur = heap[Top.s] /\ Young(root, Top.s) /\ Cur \in Struct
      /\ Top = frames[Len(frames)] /\ Len(frames) \in Nat \ {0} /\ frames \in Seq(Frame)
      /\ Len(heap) \in Nat
      /\ \A j \in 1 .. Len(frames) :
           frames[j] \in Frame /\ frames[j].s \in 1 .. Len(heap) /\ Wrappers(frames[j]) \subseteq Nat
  BY <1>0, InCompile
<1>2. PICK n \in Nat : n = Len(heap)
  BY <1>1
<1>3. PICK t \in Nat \ {0} : t = Len(frames) /\ t \in 1 .. t
  BY <1>1
<1>4. PICK c \in 1 .. n : c = Top.s
  BY <1>1, <1>2
<1>5. PICK h, g, fs, gs : h = heap /\ g = heap' /\ fs = frames /\ gs = frames'
  OBVIOUS
<1>6. /\ h \in Seq(Struct) /\ Len(h) = n /\ h[c] = Cur
      /\ g \in Seq(Struct) /\ Len(g) = n /\ g[c] = st /\ \A s \in 1 .. n : s # c => g[s] = h[s]
  <2>1. h \in Seq(Struct) /\ n = Len(h) /\ c \in 1 .. n /\ st \in Struct /\ g = [h EXCEPT ![c] = st]
    BY <1>0, <1>1, <1>2, <1>4, <1>5
  <2> QED BY <1>1, <1>4, <1>5, <2>1, HeapEdit
<1>7. /\ Len(fs) = t /\ gs \in Seq(Frame) /\ Len(gs) = t /\ gs[t] = f /\ fs[t] = Top
      /\ \A j \in 1 .. t : j # t => gs[j] = fs[j]
      /\ \A j \in 1 .. t : fs[j].s \in 1 .. n /\ Wrappers(fs[j]) \subseteq Nat
  <2>1. PICK F : F = Frame /\ f \in F /\ fs \in Seq(F)
    BY <1>0, <1>1, <1>5
  <2>2. gs = [fs EXCEPT ![t] = f] /\ t \in 1 .. Len(fs)
    BY <1>3, <1>5 DEF Replace
  <2> QED BY <1>1, <1>2, <1>3, <1>5, <2>1, <2>2, ExceptSeq
<1>8. FramesIn(fs, root, n) /\ WorkIn(fs, h) /\ Sound(h, HeldBy(root, ivar, fs), root)
  BY <1>1, <1>2, <1>5, Parts
<1>9. FramesIn(gs, root, n) /\ WorkIn(gs, g)
  <2>1. \A s \in 1 .. n : s # fs[t].s => SameFields(h[s], g[s])
    BY <1>4, <1>6, <1>7 DEF SameFields
  <2>2. gs[t].s = fs[t].s /\ WorkOf(gs[t], g[fs[t].s])
    BY <1>0, <1>4, <1>6, <1>7
  <2>3. \A w \in Wrappers(gs[t]) : w # 0 => w \in Wrappers(fs[t]) \/ (w = n /\ n > n)
    BY <1>7
  <2>4. Moves(fs, h, n, t, gs, g, n)
    BY <1>2, <1>3, <1>7, <2>1, <2>2, <2>3 DEF Moves
  <2> QED BY <1>8, <2>4, FrameMove
<1>10. Sound(g, HeldBy(root, ivar, gs), root)
  <2>1. PICK held, less : held = HeldBy(root, ivar, fs) /\ less = HeldBy(root, ivar, gs)
    OBVIOUS
  <2>2. held \subseteq less \cup new
    BY <1>3, <1>7, <2>1, HeldMoves
  <2>3. \A s \in 1 .. n : SameLife(h[s], g[s]) /\ (s # c => SameLinks(h[s], g[s]))
    BY <1>6 DEF SameLife, SameLinks
  <2>4. \A w \in new : c < w /\ w \in 1 .. n
    <3> SUFFICES ASSUME NEW w \in new PROVE c < w /\ w \in 1 .. n
      OBVIOUS
    <3>1. w \in Wrappers(fs[t]) /\ w # 0 /\ w \in Nat
      BY <1>3, <1>7
    <3>2. fs[t].s < w /\ w <= n
      BY <1>3, <1>7, <1>8, <3>1 DEF FramesIn
    <3> QED BY <1>4, <1>7, <3>1, <3>2
  <2>5. Owned(g[c]) = Owned(h[c]) /\ Wrapped(g[c]) = Wrapped(h[c]) \cup new
    BY <1>6
  <2>6. Young(root, c)
    BY <1>1, <1>4
  <2>7. Stores(h, g, n, c, new)
    BY <1>2, <1>4, <1>6, <2>3, <2>4, <2>5 DEF Stores
  <2> QED BY <1>8, <2>1, <2>2, <2>6, <2>7, StoreSound
<1>11. Busy(fs) \subseteq Busy(gs)
  <2>1. \A j \in 1 .. t : gs[j].s = fs[j].s
    BY <1>0, <1>7
  <2> QED BY <1>7, <2>1 DEF Busy
<1>12. TreeInv'
  <2>1. gs # <<>>
    BY <1>7
  <2>2. \A s \in 1 .. n : s > n => g[s].nested = <<>> /\ g[s].slots = 0 /\ g[s].refSchema = 0
    BY <1>2
  <2>3. g[c].refSchema = Cur.refSchema /\ Len(g[c].nested) <= g[c].slots
    BY <1>0, <1>6
  <2>4. \A k \in DOMAIN refData' : Young(root, refData'[k])
    BY DEF Table
  <2>5. n \in Nat /\ n = Len(heap') /\ Len(heap) <= n
    BY <1>2, <1>5, <1>6
  <2>6. \A s \in 1 .. Len(heap) : s # c => heap'[s] = heap[s]
    BY <1>2, <1>5, <1>6
  <2>7. \A s \in 1 .. n : s > Len(heap) =>
          heap'[s].nested = <<>> /\ heap'[s].slots = 0 /\ heap'[s].refSchema = 0
    BY <1>2
  <2>8. phase' = "compile" /\ c = Top.s /\ heap'[c].refSchema = Cur.refSchema
        /\ Len(heap'[c].nested) <= heap'[c].slots
    BY <1>0, <1>4, <1>5, <2>3
  <2>9. /\ frames' # <<>> /\ FramesIn(frames', root, n) /\ WorkIn(frames', heap')
        /\ Busy(frames) \subseteq Busy(frames') /\ Sound(heap', HeldBy(root, ivar, frames'), root)
    BY <1>5, <1>9, <1>10, <1>11, <2>1
  <2> QED BY <1>0, <2>4, <2>5, <2>6, <2>7, <2>8, <2>9, Stays
<1>13. CompileTypeOK'
  <2>1. /\ attempts' \in 0 .. MaxAttempts /\ phase' \in {"idle", "compile", "resolve", "dropped"}
        /\ agenda' \in Seq(1 .. n) /\ root' \in 0 .. n /\ ivar' \in 0 .. n
    BY <1>2, DoesTyped
  <2>2. \A k \in DOMAIN refData' : k \in UriType /\ refData'[k] \in 1 .. n
    BY <1>2 DEF Table
  <2>3. heap' \in Seq(Struct) /\ frames' \in Seq(Frame) /\ n = Len(heap')
    BY <1>5, <1>6, <1>7
  <2> QED BY <1>0, <2>1, <2>2, <2>3, TypeAfter
<1> QED BY <1>12, <1>13

(* The struct child is made and compile() is called for it, in frame new.  *)
Fresh(child, new) ==
  /\ child \in Struct /\ Untouched(child) /\ child.refSchema = 0
  /\ Owned(child) = {} /\ Wrapped(child) = {} /\ child.frees = 0 /\ child.swept = FALSE
  /\ new \in Frame /\ new.s = Next1 /\ (\A w \in Wrappers(new) : w = 0) /\ WorkOf(new, child)

Spawns(f, st, child, new) ==
  /\ Fresh(child, new)
  /\ heap' = Append([heap EXCEPT ![Top.s] = st], child)
  /\ frames' = Append(Replace(f), new) /\ refData' = refData
  /\ SameLife(Cur, st) /\ Wrapped(st) = Wrapped(Cur)
  /\ \A w \in Wrappers(f) : w # 0 => w \in Wrappers(Top) \/ w = Next1
  /\ \A w \in Wrappers(Top) : w = 0 \/ w \in Wrappers(f)
  /\ \/ child.expose = FALSE /\ Owned(st) = Owned(Cur) \cup {Next1}
     \/ child.expose = TRUE /\ Owned(st) = Owned(Cur) /\ Next1 \in Wrappers(f)

LEMMA Enters ==
  ASSUME CompileTypeOK, TreeInv, NEW f, NEW st, Does(f, st),
         NEW child, NEW new, Spawns(f, st, child, new)
  PROVE  CompileTypeOK' /\ TreeInv'
<1>spawns. /\ child \in Struct /\ Untouched(child) /\ child.refSchema = 0
           /\ Owned(child) = {} /\ Wrapped(child) = {} /\ child.frees = 0 /\ child.swept = FALSE
           /\ new \in Frame /\ new.s = Next1 /\ (\A w \in Wrappers(new) : w = 0) /\ WorkOf(new, child)
           /\ heap' = Append([heap EXCEPT ![Top.s] = st], child)
           /\ frames' = Append(Replace(f), new) /\ refData' = refData
           /\ SameLife(Cur, st) /\ Wrapped(st) = Wrapped(Cur)
           /\ \A w \in Wrappers(f) : w # 0 => w \in Wrappers(Top) \/ w = Next1
           /\ \A w \in Wrappers(Top) : w = 0 \/ w \in Wrappers(f)
           /\ \/ child.expose = FALSE /\ Owned(st) = Owned(Cur) \cup {Next1}
              \/ child.expose = TRUE /\ Owned(st) = Owned(Cur) /\ Next1 \in Wrappers(f)
  BY DEF Spawns, Fresh
<1> USE <1>spawns
<1>0. /\ phase = "compile" /\ st \in Struct /\ f \in Frame /\ f.s = Top.s /\ WorkOf(f, st)
      /\ st.refSchema = Cur.refSchema /\ Len(st.nested) <= st.slots
      /\ source' = source /\ attempts' = attempts /\ phase' = phase
      /\ root' = root /\ ivar' = ivar /\ agenda' = agenda
  BY DEF Does
<1>1. /\ TreeRoot = root /\ ivar = 0 /\ agenda = <<>> /\ heap \in Seq(Struct) /\ root \in 1 .. Len(heap)
      /\ Top.s \in 1 .. Len(heap) /\ Cur = heap[Top.s] /\ Young(root, Top.s) /\ Cur \in Struct
      /\ Top = frames[Len(frames)] /\ Len(frames) \in Nat \ {0} /\ frames \in Seq(Frame)
      /\ Len(heap) \in Nat
      /\ \A j \in 1 .. Len(frames) :
           frames[j] \in Frame /\ frames[j].s \in 1 .. Len(heap) /\ Wrappers(frames[j]) \subseteq Nat
  BY <1>0, InCompile
<1>2. PICK n \in Nat : n = Len(heap)
  BY <1>1
<1>a. PICK m \in Nat : m = n + 1 /\ m = Next1 /\ n < m /\ m # 0
  BY <1>2 DEF Next1
<1>3. PICK t \in Nat \ {0} : t = Len(frames) /\ t \in 1 .. t
  BY <1>1
<1>4. PICK c \in 1 .. n : c = Top.s
  BY <1>1, <1>2
<1>5. PICK h, g, fs, ms, gs : h = heap /\ g = heap' /\ fs = frames /\ ms = Replace(f) /\ gs = frames'
  OBVIOUS
<1>6. /\ h \in Seq(Struct) /\ Len(h) = n /\ h[c] = Cur
      /\ g \in Seq(Struct) /\ Len(g) = m /\ g[c] = st /\ g[m] = child
      /\ \A s \in 1 .. n : s # c => g[s] = h[s]
  <2>1. /\ h \in Seq(Struct) /\ n = Len(h) /\ c \in 1 .. n /\ st \in Struct
        /\ g = Append([h EXCEPT ![c] = st], child)
    BY <1>0, <1>1, <1>2, <1>4, <1>5
  <2> QED BY <1>1, <1>4, <1>5, <1>a, <2>1, HeapGrow
<1>7. /\ Len(fs) = t /\ Len(ms) = t /\ ms[t] = f /\ fs[t] = Top /\ ms \in Seq(Frame)
      /\ \A j \in 1 .. t : j # t => ms[j] = fs[j]
      /\ \A j \in 1 .. t : fs[j].s \in 1 .. n /\ ms[j].s = fs[j].s /\ Wrappers(fs[j]) \subseteq Nat
  <2>1. PICK F : F = Frame /\ f \in F /\ fs \in Seq(F)
    BY <1>0, <1>1, <1>5
  <2>2. ms = [fs EXCEPT ![t] = f] /\ t \in 1 .. Len(fs)
    BY <1>3, <1>5 DEF Replace
  <2>3. /\ Len(fs) = t /\ Len(ms) = t /\ ms[t] = f /\ fs[t] = Top /\ ms \in Seq(F)
        /\ \A j \in 1 .. t : j # t => ms[j] = fs[j]
    BY <1>1, <1>3, <1>5, <2>1, <2>2, ExceptSeq
  <2>4. \A j \in 1 .. t : fs[j].s \in 1 .. n /\ Wrappers(fs[j]) \subseteq Nat
    BY <1>1, <1>2, <1>3, <1>5
  <2> QED BY <1>0, <2>1, <2>3, <2>4
<1>b. /\ gs \in Seq(Frame) /\ Len(gs) = t + 1 /\ gs[t + 1] = new
      /\ \A j \in 1 .. t : gs[j] = ms[j]
  <2>1. PICK F : F = Frame /\ new \in F /\ ms \in Seq(F)
    BY <1>7
  <2>2. gs = Append(ms, new)
    BY <1>5
  <2> QED BY <1>7, <2>1, <2>2, AppendSeq
<1>8. FramesIn(fs, root, n) /\ WorkIn(fs, h) /\ Sound(h, HeldBy(root, ivar, fs), root)
  BY <1>1, <1>2, <1>5, Parts
<1>9. FramesIn(ms, root, m) /\ WorkIn(ms, g)
  <2>1. \A s \in 1 .. n : s # fs[t].s => SameFields(h[s], g[s])
    BY <1>4, <1>6, <1>7 DEF SameFields
  <2>2. ms[t].s = fs[t].s /\ WorkOf(ms[t], g[fs[t].s])
    BY <1>0, <1>4, <1>6, <1>7
  <2>3. \A w \in Wrappers(ms[t]) : w # 0 => w \in Wrappers(fs[t]) \/ (w = m /\ m > n)
    BY <1>7, <1>a
  <2>4. Moves(fs, h, n, t, ms, g, m)
    BY <1>2, <1>3, <1>7, <1>a, <2>1, <2>2, <2>3 DEF Moves
  <2> QED BY <1>8, <2>4, FrameMove
<1>c. Young(root, m)
  BY <1>1, <1>2, <1>a DEF Young
<1>d. FramesIn(gs, root, m) /\ WorkIn(gs, g)
  <2>1. Pushed(ms, g, n, t, gs, m)
    BY <1>2, <1>3, <1>6, <1>7, <1>a, <1>b DEF Pushed
  <2> QED BY <1>9, <1>c, <2>1, FramePush
<1>10. Sound(g, HeldBy(root, ivar, gs), root)
  <2>1. PICK held, more : held = HeldBy(root, ivar, fs) /\ more = HeldBy(root, ivar, gs)
    OBVIOUS
  <2>2. held \subseteq more
    <3>1. t <= t + 1 /\ t + 1 \in Nat
      BY <1>3
    <3>2. \A j \in 1 .. t : j # t => gs[j] = fs[j]
      BY <1>7, <1>b
    <3>3. \A w \in Wrappers(fs[t]) : w = 0 \/ w \in Wrappers(gs[t]) \/ w \in {}
      BY <1>3, <1>7, <1>b
    <3>4. HeldBy(root, ivar, fs) \subseteq HeldBy(root, ivar, gs) \cup {}
      BY <1>3, <1>7, <1>b, <3>1, <3>2, <3>3, HeldMoves
    <3> QED BY <2>1, <3>4
  <2>3. \A s \in 1 .. n : SameLife(h[s], g[s]) /\ (s # c => SameLinks(h[s], g[s]))
    BY <1>6 DEF SameLife, SameLinks
  <2>4. Wrapped(g[c]) = Wrapped(h[c])
    BY <1>6
  <2>5. \/ child.expose = FALSE /\ Owned(g[c]) = Owned(h[c]) \cup {m}
        \/ child.expose = TRUE /\ Owned(g[c]) = Owned(h[c]) /\ m \in more
    <3>1. m \in Wrappers(f) => m \in more
      <4>1. m \in Wrappers(f) => m \in Wrappers(gs[t])
        BY <1>3, <1>7, <1>b
      <4>2. t \in 1 .. Len(gs)
        BY <1>3, <1>b
      <4> QED BY <1>a, <2>1, <4>1, <4>2, HeldIs
    <3> QED BY <1>6, <1>a, <3>1
  <2>6. Young(root, c) /\ root \in Nat
    BY <1>1, <1>4
  <2>7. Adds(h, g, n, c, more)
    <3>1. Owned(g[m]) = {} /\ Wrapped(g[m]) = {} /\ g[m].frees = 0 /\ g[m].swept = FALSE
          /\ g[m].expose = child.expose
      BY <1>6
    <3> QED BY <1>2, <1>4, <1>6, <1>a, <2>3, <2>4, <2>5, <3>1 DEF Adds
  <2> QED BY <1>8, <2>1, <2>2, <2>6, <2>7, GrowSound
<1>11. Busy(fs) \subseteq Busy(gs)
  <2>1. \A j \in 1 .. t : gs[j].s = fs[j].s /\ j \in 1 .. t + 1
    BY <1>7, <1>b
  <2> QED BY <1>7, <1>b, <2>1 DEF Busy
<1>12. TreeInv'
  <2>1. gs # <<>>
    BY <1>3, <1>b
  <2>2. \A s \in 1 .. m : s > n => g[s].nested = <<>> /\ g[s].slots = 0 /\ g[s].refSchema = 0
    <3>1. \A s \in 1 .. m : s > n => s = m
      BY <1>2, <1>a
    <3> QED BY <1>6, <3>1 DEF Untouched
  <2>4. \A k \in DOMAIN refData' : Young(root, refData'[k])
    BY <1>1, TableNow DEF Table
  <2>5. m \in Nat /\ m = Len(heap') /\ Len(heap) <= m
    BY <1>2, <1>5, <1>6, <1>a
  <2>6. \A s \in 1 .. Len(heap) : s # c => heap'[s] = heap[s]
    BY <1>2, <1>5, <1>6
  <2>7. \A s \in 1 .. m : s > Len(heap) =>
          heap'[s].nested = <<>> /\ heap'[s].slots = 0 /\ heap'[s].refSchema = 0
    BY <1>2, <1>5, <2>2
  <2>8. phase' = "compile" /\ c = Top.s /\ heap'[c].refSchema = Cur.refSchema
        /\ Len(heap'[c].nested) <= heap'[c].slots
    BY <1>0, <1>4, <1>5, <1>6
  <2>9. /\ frames' # <<>> /\ FramesIn(frames', root, m) /\ WorkIn(frames', heap')
        /\ Busy(frames) \subseteq Busy(frames') /\ Sound(heap', HeldBy(root, ivar, frames'), root)
    BY <1>5, <1>d, <1>10, <1>11, <2>1
  <2> QED BY <1>0, <2>4, <2>5, <2>6, <2>7, <2>8, <2>9, Stays
<1>13. CompileTypeOK'
  <2>1. /\ attempts' \in 0 .. MaxAttempts /\ phase' \in {"idle", "compile", "resolve", "dropped"}
        /\ agenda' \in Seq(1 .. m) /\ root' \in 0 .. m /\ ivar' \in 0 .. m
    BY <1>2, <1>a, DoesTyped
  <2>2. \A k \in DOMAIN refData' : k \in UriType /\ refData'[k] \in 1 .. m
    <3>1. \A k \in DOMAIN refData : k \in UriType /\ refData[k] \in 1 .. n
      BY <1>2 DEF CompileTypeOK
    <3>2. 1 .. n \subseteq 1 .. m
      BY <1>2, <1>a
    <3> QED BY <3>1, <3>2
  <2>3. heap' \in Seq(Struct) /\ frames' \in Seq(Frame) /\ m = Len(heap')
    BY <1>5, <1>6, <1>b
  <2> QED BY <1>0, <2>1, <2>2, <2>3, TypeAfter
<1> QED BY <1>12, <1>13

(***************************************************************************)
(* The jobs, one by one.                                                   *)
(***************************************************************************)
(* The first job of f is done: f becomes g, its struct st becomes b.       *)
Done(f, st, g, b) ==
  /\ f.jobs # <<>> /\ g.jobs = Tail(f.jobs) /\ g.pc = "jobs"
  /\ (g.obj # 0 <=> Ahead(g) = "keep")
  /\ (g.kept # <<>> => Ahead(g) \in {"element", "keep", "store"})
  /\ \A j \in 1 .. Len(g.kept) : g.kept[j] # 0
  /\ \A k \in SingleKeyword :
       b.single[k] = st.single[k] \/ (f.jobs[1].do = "single" /\ k = f.jobs[1].kw)
  /\ \A k \in ListKeyword :
       b.lists[k] = st.lists[k] \/ (f.jobs[1].do = "store" /\ k = f.jobs[1].kw)
  /\ b.val = st.val /\ Len(st.nested) \in Nat
  /\ f.jobs[1].do = "alloc" => b.nested = st.nested /\ b.slots = NestedTotal(st.val)
  /\ f.jobs[1].do = "nested" => Len(b.nested) = Len(st.nested) + 1 /\ b.slots = st.slots
  /\ f.jobs[1].do \notin {"alloc", "nested"} => b.nested = st.nested /\ b.slots = st.slots

LEMMA DoneWork ==
  ASSUME NEW f, NEW st, WorkOf(f, st), NEW g, NEW b, Done(f, st, g, b)
  PROVE  /\ WorkOf(g, b)
         /\ f.jobs[1].do = "nested" => st.slots > Len(st.nested)
<1>1. FrameWork(f, st) /\ Shaped(f.jobs)
  BY DEF WorkOf, FrameWork
<1>2. PICK k \in 0 .. Len(f.jobs) : SlotsAhead(f, st, k)
  BY DEF WorkOf
<1>3. FrameWork(g, b)
  BY <1>1, AdvanceWork DEF Done
<1>4. /\ f.jobs # <<>> /\ g.jobs = Tail(f.jobs) /\ b.val = st.val /\ Len(st.nested) \in Nat
      /\ CASE f.jobs[1].do = "alloc" -> b.nested = st.nested /\ b.slots = NestedTotal(st.val)
           [] f.jobs[1].do = "nested" -> Len(b.nested) = Len(st.nested) + 1 /\ b.slots = st.slots
           [] OTHER -> b.nested = st.nested /\ b.slots = st.slots
  BY DEF Done
<1>5. /\ \E m \in 0 .. Len(g.jobs) : SlotsAhead(g, b, m)
      /\ f.jobs[1].do = "nested" => st.slots > Len(st.nested)
  BY <1>1, <1>2, <1>4, AdvanceSlots
<1> QED BY <1>3, <1>5 DEF WorkOf

Advances(f, kept, obj, g) ==
  \/ g = [[f EXCEPT !.jobs = Tail(@)] EXCEPT !.kept = kept, !.obj = obj]
  \/ g = [[f EXCEPT !.jobs = Tail(@)] EXCEPT !.kept = kept] /\ obj = f.obj
  \/ g = [[f EXCEPT !.jobs = Tail(@)] EXCEPT !.obj = obj] /\ kept = f.kept
  \/ g = [f EXCEPT !.jobs = Tail(@)] /\ kept = f.kept /\ obj = f.obj

LEMMA AdvancedFacts ==
  ASSUME NEW f \in Frame, f.jobs # <<>>, NEW kept \in Seq(Nat), NEW obj \in Nat,
         NEW g, Advances(f, kept, obj, g)
  PROVE  /\ g \in Frame /\ g.s = f.s /\ g.pc = f.pc /\ g.jobs = Tail(f.jobs)
         /\ g.kept = kept /\ g.obj = obj /\ g.base = f.base /\ g.pointer = f.pointer
         /\ g.home = f.home
<1>1. PICK J : J = JobType
  OBVIOUS
<1>2. f.jobs \in Seq(J)
  BY <1>1 DEF Frame
<1>3. PICK rest \in Seq(J) : rest = Tail(f.jobs)
  BY <1>2, TailSeq
<1>4. \/ g = [[f EXCEPT !.jobs = rest] EXCEPT !.kept = kept, !.obj = obj]
      \/ g = [[f EXCEPT !.jobs = rest] EXCEPT !.kept = kept] /\ obj = f.obj
      \/ g = [[f EXCEPT !.jobs = rest] EXCEPT !.obj = obj] /\ kept = f.kept
      \/ g = [f EXCEPT !.jobs = rest] /\ kept = f.kept /\ obj = f.obj
  BY <1>3 DEF Advances
<1> QED BY <1>1, <1>3, <1>4 DEF Frame

LEMMA PendingFacts ==
  ASSUME CompileTypeOK, TreeInv, NEW do, Pending(do)
  PROVE  /\ phase = "compile" /\ Top \in Frame /\ Top.pc = "jobs" /\ Top.jobs # <<>>
         /\ Cur \in Struct /\ Cur = heap[Top.s] /\ Top.s \in 1 .. Len(heap) /\ WorkOf(Top, Cur)
         /\ Shaped(Top.jobs) /\ Head(Top.jobs) = Top.jobs[1] /\ Top.jobs[1].do = do
         /\ WellMade(Top.jobs[1]) /\ Top.jobs[1] \in JobType /\ Ahead(Top) = do
         /\ Top.kept \in Seq(Nat) /\ Top.obj \in Nat /\ (Top.obj # 0 <=> do = "keep")
         /\ (Top.kept # <<>> => do \in {"element", "keep", "store"})
         /\ \A j \in 1 .. Len(Top.kept) : Top.kept[j] # 0
<1>1. phase = "compile" /\ Top.pc = "jobs" /\ Top.jobs # <<>> /\ Head(Top.jobs).do = do
  BY DEF Pending, Compiling
<1>2. /\ Top \in Frame /\ Cur \in Struct /\ Cur = heap[Top.s] /\ Top.s \in 1 .. Len(heap)
      /\ WorkOf(Top, Cur)
  BY <1>1, InCompile
<1>3. FrameWork(Top, Cur) /\ Shaped(Top.jobs)
  BY <1>2 DEF WorkOf, FrameWork
<1>4. Head(Top.jobs) = Top.jobs[1] /\ WellMade(Top.jobs[1])
  BY <1>1, <1>3, TailJobs
<1>5. Top.jobs[1] \in JobType /\ Ahead(Top) = do
  BY <1>1, <1>4 DEF WellMade, Ahead
<1>6. /\ (Top.obj # 0 <=> do = "keep") /\ (Top.kept # <<>> => do \in {"element", "keep", "store"})
      /\ \A j \in 1 .. Len(Top.kept) : Top.kept[j] # 0
  BY <1>3, <1>5 DEF FrameWork
<1>7. Top.kept \in Seq(Nat) /\ Top.obj \in Nat
  BY <1>2, FrameFacts
<1> QED BY <1>1, <1>2, <1>3, <1>4, <1>5, <1>6, <1>7

LEMMA TotalNat ==
  ASSUME NEW v \in Value
  PROVE  NestedTotal(v) \in Nat
<1>1. PICK J : J = NestedJob
  OBVIOUS
<1>2. NestedJobs(v) \in Seq(J) /\ NestedTotal(v) = Len(NestedJobs(v))
  BY <1>1, NestedJobsFacts
<1> QED BY <1>2

LEMMA AllocKeeps ==
  ASSUME CompileTypeOK, TreeInv, AllocNested
  PROVE  CompileTypeOK' /\ TreeInv'
<1>1. /\ phase = "compile" /\ Top \in Frame /\ Top.pc = "jobs" /\ Top.jobs # <<>>
      /\ Cur \in Struct /\ Cur = heap[Top.s] /\ Top.s \in 1 .. Len(heap) /\ WorkOf(Top, Cur)
      /\ Shaped(Top.jobs) /\ Top.jobs[1].do = "alloc" /\ Top.kept \in Seq(Nat) /\ Top.obj \in Nat
      /\ Top.obj = 0 /\ Top.kept = <<>>
  BY PendingFacts DEF AllocNested
<1>2. PICK slots \in Nat : slots = NestedTotal(Cur.val)
  <2>1. Cur.val \in Value
    BY <1>1, StructFacts
  <2> QED BY <2>1, TotalNat
<1>3. PICK st : st = [Cur EXCEPT !.slots = slots]
  OBVIOUS
<1>4. /\ st \in Struct /\ SameLinks(Cur, st) /\ SameLife(Cur, st) /\ Kept(Cur, st)
      /\ st.slots = slots /\ st.val = Cur.val
  BY <1>1, <1>3, EditSlots
<1>5. PICK f : f = Advanced
  OBVIOUS
<1>6. /\ f \in Frame /\ f.s = Top.s /\ f.pc = "jobs" /\ f.jobs = Tail(Top.jobs)
      /\ f.kept = <<>> /\ f.obj = 0
  <2>1. PICK e \in Frame : e = Top /\ e.jobs # <<>>
    BY <1>1
  <2>2. PICK kept \in Seq(Nat), obj \in Nat : kept = Top.kept /\ obj = Top.obj
    BY <1>1
  <2>3. Advances(e, kept, obj, f)
    BY <1>5, <2>1, <2>2 DEF Advances, Advanced
  <2>4. /\ f \in Frame /\ f.s = e.s /\ f.pc = e.pc /\ f.jobs = Tail(e.jobs)
        /\ f.kept = kept /\ f.obj = obj
    BY <2>1, <2>2, <2>3, AdvancedFacts
  <2> QED BY <1>1, <2>1, <2>2, <2>4
<1>7. WorkOf(f, st)
  <2>1. Ahead(f) # "keep"
    BY <1>1, <1>6, AheadNext
  <2>2. Len(Cur.nested) \in Nat
    BY <1>1, StructFacts
  <2>3. Done(Top, Cur, f, st)
    BY <1>1, <1>2, <1>4, <1>6, <2>1, <2>2 DEF Done, SameLinks
  <2> QED BY <1>1, <2>3, DoneWork
<1>8. Len(st.nested) <= st.slots
  <2>1. PICK k \in 0 .. Len(Top.jobs) : SlotsAhead(Top, Cur, k)
    BY <1>1 DEF WorkOf
  <2>2. NestedAfter(Top.jobs, k) /\ 1 \in 1 .. Len(Top.jobs)
    <3>1. Len(Top.jobs) \in Nat \ {0}
      BY <1>1, TailJobs
    <3> QED BY <2>1, <3>1 DEF SlotsAhead
  <2>3. k = 1 /\ Allocates(Top.jobs, k)
    BY <1>1, <2>2 DEF NestedAfter, Allocates
  <2>4. Cur.nested = <<>> /\ Len(<<>>) = 0
    BY <2>1, <2>3 DEF SlotsAhead
  <2> QED BY <1>2, <1>4, <2>4 DEF SameLinks
<1>9. Does(f, st)
  BY <1>1, <1>4, <1>6, <1>7, <1>8 DEF Does, Kept, AllocNested
<1>10. heap' = [heap EXCEPT ![Top.s] = st] /\ frames' = Replace(f)
  BY <1>1, <1>2, <1>3, <1>5 DEF AllocNested
<1>11. Table(refData', Len(heap), root)
  BY <1>1, TableNow, InCompile DEF AllocNested
<1>12. Wrappers(f) = Wrappers(Top)
  BY <1>1, <1>6 DEF Wrappers
<1>13. Wrapped(st) = Wrapped(Cur) \cup {} /\ Owned(st) = Owned(Cur)
  BY <1>4, LinksSame
<1>14. \A w \in {} : w \in Wrappers(Top) /\ w # 0
  OBVIOUS
<1>15. \A w \in Wrappers(Top) : w = 0 \/ w \in Wrappers(f) \/ w \in {}
  BY <1>12
<1>16. \A w \in Wrappers(f) : w # 0 => w \in Wrappers(Top)
  BY <1>12
<1>17. Swaps(f, st, {})
  BY <1>4, <1>10, <1>11, <1>13, <1>14, <1>15, <1>16 DEF Swaps
<1> QED BY <1>9, <1>17, Replaces

LEMMA AdvancedTop ==
  ASSUME Top \in Frame, Top.jobs # <<>>, NEW kept \in Seq(Nat), NEW obj \in Nat,
         NEW f, Advances(Top, kept, obj, f)
  PROVE  /\ f \in Frame /\ f.s = Top.s /\ f.pc = Top.pc /\ f.jobs = Tail(Top.jobs)
         /\ f.kept = kept /\ f.obj = obj
<1>1. PICK e \in Frame : e = Top /\ e.jobs # <<>>
  OBVIOUS
<1>2. Advances(e, kept, obj, f)
  BY <1>1
<1>3. /\ f \in Frame /\ f.s = e.s /\ f.pc = e.pc /\ f.jobs = Tail(e.jobs)
      /\ f.kept = kept /\ f.obj = obj
  BY <1>1, <1>2, AdvancedFacts
<1> QED BY <1>1, <1>3

LEMMA CurFits ==
  ASSUME CompileTypeOK, TreeInv, phase = "compile"
  PROVE  Len(Cur.nested) <= Cur.slots
<1>1. SlotsIn(heap, Len(heap), TreeRoot, Busy(frames)) /\ Cur = heap[Top.s] /\ Top.s \in 1 .. Len(heap)
  BY Parts, InCompile
<1> QED BY <1>1 DEF SlotsIn

LEMMA SameHeap ==
  ASSUME NEW h \in Seq(Struct), NEW c \in 1 .. Len(h)
  PROVE  h = [h EXCEPT ![c] = h[c]]
<1>1. PICK H : H = Struct
  OBVIOUS
<1> QED BY <1>1

LEMMA KeepKeeps ==
  ASSUME CompileTypeOK, TreeInv, KeepElement
  PROVE  CompileTypeOK' /\ TreeInv'
<1>1. /\ phase = "compile" /\ Top \in Frame /\ Top.pc = "jobs" /\ Top.jobs # <<>>
      /\ Cur \in Struct /\ Cur = heap[Top.s] /\ Top.s \in 1 .. Len(heap) /\ WorkOf(Top, Cur)
      /\ Shaped(Top.jobs) /\ Top.jobs[1].do = "keep" /\ Top.kept \in Seq(Nat)
      /\ Top.obj \in Nat /\ Top.obj # 0
      /\ \A j \in 1 .. Len(Top.kept) : Top.kept[j] # 0
  BY PendingFacts DEF KeepElement
<1>2. PICK kept \in Seq(Nat) : kept = Append(Top.kept, Top.obj)
  BY <1>1, AppendSeq
<1>3. /\ ToSet(kept) = ToSet(Top.kept) \cup {Top.obj}
      /\ \A j \in 1 .. Len(kept) : kept[j] # 0
  BY <1>1, <1>2, AppendSet
<1>4. PICK f : f = [Advanced EXCEPT !.kept = Append(@, Top.obj), !.obj = 0]
  OBVIOUS
<1>5. /\ f \in Frame /\ f.s = Top.s /\ f.pc = "jobs" /\ f.jobs = Tail(Top.jobs)
      /\ f.kept = kept /\ f.obj = 0
  <2>1. Advanced.kept = Top.kept
    BY <1>1 DEF Advanced, Frame
  <2>2. PICK obj \in Nat : obj = 0
    OBVIOUS
  <2>3. f = [Advanced EXCEPT !.kept = kept, !.obj = obj]
    BY <1>2, <1>4, <2>1, <2>2
  <2>4. Advances(Top, kept, obj, f)
    BY <2>3 DEF Advances, Advanced
  <2>5. Top \in Frame /\ Top.jobs # <<>> /\ kept \in Seq(Nat) /\ obj \in Nat
    BY <1>1, <1>2, <2>2
  <2>6. /\ f \in Frame /\ f.s = Top.s /\ f.pc = Top.pc /\ f.jobs = Tail(Top.jobs)
        /\ f.kept = kept /\ f.obj = obj
    BY <2>4, <2>5, AdvancedTop
  <2> QED BY <1>1, <2>2, <2>6
<1>6. WorkOf(f, Cur)
  <2>1. Ahead(f) # "keep" /\ Ahead(f) \in {"element", "store"}
    BY <1>1, <1>5, AheadNext
  <2>2. Len(Cur.nested) \in Nat
    BY <1>1, StructFacts
  <2>3. Done(Top, Cur, f, Cur)
    BY <1>1, <1>3, <1>5, <2>1, <2>2 DEF Done
  <2> QED BY <1>1, <2>3, DoneWork
<1>7. Does(f, Cur)
  <2>1. Len(Cur.nested) <= Cur.slots
    BY <1>1, CurFits
  <2> QED BY <1>1, <1>5, <1>6, <2>1 DEF Does, KeepElement
<1>8. Swaps(f, Cur, {})
  <2>1. heap' = [heap EXCEPT ![Top.s] = Cur]
    <3>1. heap' = heap /\ heap \in Seq(Struct)
      BY DEF KeepElement, CompileTypeOK
    <3>2. heap = [heap EXCEPT ![Top.s] = heap[Top.s]]
      BY <1>1, <3>1, SameHeap
    <3> QED BY <1>1, <3>1, <3>2
  <2>2. frames' = Replace(f)
    BY <1>4 DEF KeepElement
  <2>3. Table(refData', Len(heap), root)
    BY <1>1, TableNow, InCompile DEF KeepElement
  <2>4. /\ \A w \in Wrappers(f) : w # 0 => w \in Wrappers(Top)
        /\ \A w \in Wrappers(Top) : w = 0 \/ w \in Wrappers(f) \/ w \in {}
    BY <1>3, <1>5 DEF Wrappers
  <2>5. SameLife(Cur, Cur)
    BY DEF SameLife
  <2> QED BY <2>1, <2>2, <2>3, <2>4, <2>5 DEF Swaps
<1> QED BY <1>7, <1>8, Replaces

LEMMA StoreKeeps ==
  ASSUME CompileTypeOK, TreeInv, StoreList
  PROVE  CompileTypeOK' /\ TreeInv'
<1>1. /\ phase = "compile" /\ Top \in Frame /\ Top.pc = "jobs" /\ Top.jobs # <<>>
      /\ Cur \in Struct /\ Cur = heap[Top.s] /\ Top.s \in 1 .. Len(heap) /\ WorkOf(Top, Cur)
      /\ Shaped(Top.jobs) /\ Head(Top.jobs) = Top.jobs[1] /\ Top.jobs[1].do = "store"
      /\ WellMade(Top.jobs[1]) /\ Top.kept \in Seq(Nat) /\ Top.obj \in Nat /\ Top.obj = 0
      /\ \A j \in 1 .. Len(Top.kept) : Top.kept[j] # 0
  BY PendingFacts DEF StoreList
<1>2. PICK kw \in ListKeyword : kw = Top.jobs[1].kw /\ Cur.lists[kw] = <<>>
  <2>1. Top.jobs[1].kw \in ListKeyword
    BY <1>1 DEF WellMade
  <2>2. 1 \in 1 .. Len(Top.jobs)
    BY <1>1, TailJobs
  <2>3. Cur.lists[Top.jobs[1].kw] = <<>>
    BY <1>1, <2>2 DEF WorkOf, FrameWork
  <2> QED BY <2>1, <2>3
<1>3. PICK st : st = [Cur EXCEPT !.lists[kw] = Top.kept]
  OBVIOUS
<1>4. /\ st \in Struct /\ SameLife(Cur, st) /\ Kept(Cur, st)
      /\ Wrapped(st) = Wrapped(Cur) \cup ToSet(Top.kept) /\ Owned(st) = Owned(Cur)
      /\ st.val = Cur.val /\ st.single = Cur.single /\ st.nested = Cur.nested /\ st.slots = Cur.slots
      /\ \A j \in ListKeyword : j # kw => st.lists[j] = Cur.lists[j]
  <2>1. PICK old \in Struct, q \in Seq(Nat) : old = Cur /\ q = Top.kept
    BY <1>1
  <2>2. old.lists[kw] = <<>> /\ st = [old EXCEPT !.lists[kw] = q]
    BY <1>2, <1>3, <2>1
  <2>3. /\ st \in Struct /\ SameLife(old, st) /\ Kept(old, st)
        /\ Wrapped(st) = Wrapped(old) \cup ToSet(q) /\ Owned(st) = Owned(old)
        /\ st.val = old.val /\ st.single = old.single /\ st.nested = old.nested /\ st.slots = old.slots
        /\ \A j \in ListKeyword : j # kw => st.lists[j] = old.lists[j]
    BY <1>2, <2>1, <2>2, EditList
  <2> QED BY <2>1, <2>3
<1>5. PICK f : f = [Advanced EXCEPT !.kept = <<>>]
  OBVIOUS
<1>6. /\ f \in Frame /\ f.s = Top.s /\ f.pc = "jobs" /\ f.jobs = Tail(Top.jobs)
      /\ f.kept = <<>> /\ f.obj = 0
  <2>1. PICK kept \in Seq(Nat) : kept = <<>>
    <3>1. <<>> \in Seq(Nat)
      OBVIOUS
    <3> QED BY <3>1
  <2>2. PICK obj \in Nat : obj = Top.obj
    BY <1>1
  <2>3. f = [Advanced EXCEPT !.kept = kept]
    BY <1>5, <2>1
  <2>4. Advances(Top, kept, obj, f)
    BY <2>2, <2>3 DEF Advances, Advanced
  <2>5. /\ f \in Frame /\ f.s = Top.s /\ f.pc = Top.pc /\ f.jobs = Tail(Top.jobs)
        /\ f.kept = kept /\ f.obj = obj
    <3>1. Top \in Frame /\ Top.jobs # <<>> /\ kept \in Seq(Nat) /\ obj \in Nat
      BY <1>1, <2>1, <2>2
    <3> QED BY <2>4, <3>1, AdvancedTop
  <2> QED BY <1>1, <2>1, <2>2, <2>5
<1>7. WorkOf(f, st)
  <2>1. Ahead(f) # "keep"
    BY <1>1, <1>6, AheadNext
  <2>2. Len(Cur.nested) \in Nat
    BY <1>1, StructFacts
  <2>3. Done(Top, Cur, f, st)
    BY <1>1, <1>2, <1>4, <1>6, <2>1, <2>2 DEF Done
  <2> QED BY <1>1, <2>3, DoneWork
<1>8. Does(f, st)
  <2>1. Len(st.nested) <= st.slots
    BY <1>1, <1>4, CurFits
  <2> QED BY <1>1, <1>4, <1>6, <1>7, <2>1 DEF Does, Kept, StoreList
<1>9. Swaps(f, st, ToSet(Top.kept))
  <2>1. heap' = [heap EXCEPT ![Top.s] = st]
    BY <1>1, <1>2, <1>3 DEF StoreList
  <2>2. frames' = Replace(f)
    BY <1>5 DEF StoreList
  <2>3. Table(refData', Len(heap), root)
    BY <1>1, TableNow, InCompile DEF StoreList
  <2>4. /\ \A w \in Wrappers(f) : w = 0
        /\ \A w \in Wrappers(Top) : w = 0 \/ w \in ToSet(Top.kept)
    BY <1>1, <1>6 DEF Wrappers, ToSet
  <2>5. \A w \in ToSet(Top.kept) : w \in Wrappers(Top) /\ w # 0
    BY <1>1 DEF Wrappers, ToSet
  <2> QED BY <1>4, <2>1, <2>2, <2>3, <2>4, <2>5 DEF Swaps
<1> QED BY <1>8, <1>9, Replaces

LEMMA IdTyped ==
  ASSUME NEW v \in Value, NEW k, NEW u, u = UriAt(v, k), Top.base \in UriType
  PROVE  ResolvedId(u) \in UriType /\ ResolvedRef(u) \in UriType
<1>1. u \in UriType
  BY UriAtTyped
<1>2. u # NoUri /\ ~IsAbsolute(u) => UriJoin(Top.base, u) \in UriType
  BY JoinTyped
<1> QED BY <1>1, <1>2 DEF ResolvedId, ResolvedRef

LEMMA RegisterTyped ==
  ASSUME CompileTypeOK, TreeInv, phase = "compile",
         NEW id \in UriType, ResolvedId(id) \in UriType, NEW scope,
         scope \notin {<<>>, << <<>> >>} => scope[1] \in Seq(STRING)
  PROVE  Table(RegisterId(id, scope), Len(heap), root)
<1>1. /\ Top.s \in 1 .. Len(heap) /\ Young(root, Top.s) /\ Top \in Frame
      /\ Table(RegisterPath, Len(heap), root)
  BY InCompile, PathTyped
<1>2. PICK own : own = (IF id = NoUri THEN RegisterPath
                        ELSE Put(Put(RegisterPath, id, Top.s), ResolvedId(id), Top.s))
  OBVIOUS
<1>3. Table(own, Len(heap), root)
  <2>1. Table(Put(RegisterPath, id, Top.s), Len(heap), root)
    BY <1>1, PutTyped
  <2>2. Table(Put(Put(RegisterPath, id, Top.s), ResolvedId(id), Top.s), Len(heap), root)
    BY <1>1, <2>1, PutTyped
  <2> QED BY <1>1, <1>2, <2>2
<1>4. CASE scope \in {<<>>, << <<>> >>}
  BY <1>2, <1>3, <1>4 DEF RegisterId
<1>5. CASE scope \notin {<<>>, << <<>> >>}
  <2>1. Top.base.doc \in STRING /\ Top.base.at \in Seq(STRING)
    BY <1>1, FrameFacts DEF UriType
  <2>2. PICK at \in Seq(STRING) : at = Top.base.at \o <<"#">> \o scope[1]
    <3>1. "#" \in STRING
      BY LiteralsAssumption DEF Literals
    <3>2. PICK S : S = STRING
      OBVIOUS
    <3>3. <<"#">> \in Seq(S) /\ Top.base.at \in Seq(S) /\ scope[1] \in Seq(S)
      BY <1>5, <2>1, <3>1, <3>2
    <3>4. Top.base.at \o <<"#">> \o scope[1] \in Seq(S)
      BY <3>3
    <3> QED BY <3>2, <3>4
  <2>3. Uri(Top.base.doc, at) \in UriType
    BY <2>1 DEF Uri, UriType
  <2>4. RegisterId(id, scope) = Put(own, Uri(Top.base.doc, at), Top.s)
    BY <1>2, <1>5, <2>2 DEF RegisterId
  <2> QED BY <1>1, <1>3, <2>3, <2>4, PutTyped
<1> QED BY <1>4, <1>5

LEMMA HashKeeps ==
  ASSUME CompileTypeOK, TreeInv, CompileHash
  PROVE  CompileTypeOK' /\ TreeInv'
<1>1. phase = "compile" /\ Top.pc = "enter"
  BY DEF CompileHash, Compiling
<1>2. /\ Cur \in Struct /\ WorkOf(Top, Cur) /\ Cur = heap[Top.s] /\ Top.s \in 1 .. Len(heap)
      /\ Top \in Frame /\ TreeRoot = root
  BY <1>1, InCompile
<1>3. /\ Top.base \in UriType /\ Top.pointer \in Seq(STRING) /\ Top.home \in Nat /\ Top.s \in Nat
      /\ Top.kept \in Seq(Nat) /\ Top.obj \in Nat
  BY <1>2, FrameFacts
<1>4. PICK v \in Value : v = Cur.val
  BY <1>2, StructFacts
<1>5. PICK id \in UriType, ref \in UriType : id = UriAt(v, "$id") /\ ref = UriAt(v, "$ref")
  BY UriAtTyped
<1>6. PICK rid \in UriType, rref \in UriType : rid = ResolvedId(id) /\ rref = ResolvedRef(ref)
  BY <1>3, <1>5, IdTyped
<1>7. PICK scope : scope = (IF Top.base = NoUri THEN <<>> ELSE <<Top.pointer>>)
  OBVIOUS
<1>8. /\ scope \in Seq(Seq(STRING))
      /\ scope \notin {<<>>, << <<>> >>} => scope[1] \in Seq(STRING)
  <2>1. PICK S : S = Seq(STRING)
    OBVIOUS
  <2>2. PICK p \in S : p = Top.pointer
    BY <1>3, <2>1
  <2>3. scope = <<>> \/ scope = <<p>>
    BY <1>7, <2>2
  <2>4. <<>> \in Seq(S) /\ <<p>> \in Seq(S) /\ <<p>>[1] = p
    OBVIOUS
  <2> QED BY <2>1, <2>3, <2>4
<1>9. Table(refData', Len(heap), root)
  <2>1. refData' = RegisterId(id, scope)
    BY <1>4, <1>5, <1>7 DEF CompileHash
  <2> QED BY <1>1, <1>6, <1>8, <2>1, RegisterTyped
<1>10. PICK st : st = [Cur EXCEPT !.fn = "validate", !.id = id, !.ref = ref, !.resolvedId = rid,
                                  !.resolvedRef = rref, !.scope = scope]
  OBVIOUS
<1>11. /\ st \in Struct /\ SameLinks(Cur, st) /\ SameLife(Cur, st) /\ SameFields(Cur, st)
       /\ st.refSchema = Cur.refSchema
  <2>1. PICK old \in Struct, fn \in Fn : old = Cur /\ fn = "validate"
    BY <1>2 DEF Fn
  <2>2. Named(old, fn, id, ref, rid, rref, scope, st)
    BY <1>5, <1>6, <1>8, <1>10, <2>1 DEF Named
  <2>3. /\ st \in Struct /\ SameLinks(old, st) /\ SameLife(old, st) /\ SameFields(old, st)
        /\ st.refSchema = old.refSchema
    BY <2>2, EditNames
  <2> QED BY <2>1, <2>3
<1>12. heap' = [heap EXCEPT ![Top.s] = st]
  BY <1>2, <1>4, <1>5, <1>6, <1>7, <1>10 DEF CompileHash
<1>13. PICK rebased : rebased = (IF id = NoUri THEN Top
                                 ELSE [Top EXCEPT !.base = ResolvedId(id), !.pointer = <<>>])
  OBVIOUS
<1>14. PICK f : f = [rebased EXCEPT !.pc = "jobs", !.jobs = Jobs(v),
                       !.home = IF id # NoUri /\ id.at \in {<<>>, <<"#">>} THEN Top.s ELSE @]
  OBVIOUS
<1>15. frames' = Replace(f)
  BY <1>4, <1>5, <1>13, <1>14 DEF CompileHash
<1>16. /\ rebased \in Frame /\ rebased.s = Top.s /\ rebased.kept = Top.kept
       /\ rebased.obj = Top.obj /\ rebased.home = Top.home
  <2>1. PICK e \in Frame : e = Top
    BY <1>2
  <2>a. <<>> \in Seq(STRING)
    OBVIOUS
  <2>2. PICK pointer \in Seq(STRING) : pointer = <<>>
    BY <2>a
  <2>3. rebased = e \/ rebased = [e EXCEPT !.base = rid, !.pointer = pointer]
    BY <1>6, <1>13, <2>1, <2>2
  <2>4. rid \in UriType
    BY <1>6
  <2> QED BY <2>1, <2>2, <2>3, <2>4 DEF Frame
<1>17. PICK J : J = JobType
  OBVIOUS
<1>18. PICK jobs \in Seq(J) : jobs = Jobs(v)
  <2>1. Shaped(Jobs(v))
    BY JobsFacts
  <2> QED BY <1>17, <2>1 DEF Shaped
<1>19. PICK home \in Nat :
         home = (IF id # NoUri /\ id.at \in {<<>>, <<"#">>} THEN Top.s ELSE rebased.home)
  BY <1>3, <1>16
<1>20. f = [rebased EXCEPT !.pc = "jobs", !.jobs = jobs, !.home = home]
  BY <1>14, <1>16, <1>18, <1>19 DEF Frame
<1>21. /\ f \in Frame /\ f.s = Top.s /\ f.jobs = Jobs(v) /\ f.pc = "jobs"
       /\ f.kept = Top.kept /\ f.obj = Top.obj
  BY <1>16, <1>17, <1>18, <1>20 DEF Frame
<1>22. WorkOf(f, st)
  BY <1>1, <1>2, <1>4, <1>11, <1>21, BeginWork
<1>23. Does(f, st)
  <2>1. Len(st.nested) <= st.slots
    BY <1>1, <1>11, CurFits DEF SameFields
  <2> QED BY <1>1, <1>11, <1>21, <1>22, <2>1 DEF Does, CompileHash
<1>24. Swaps(f, st, {})
  <2>1. Wrappers(f) = Wrappers(Top)
    BY <1>21 DEF Wrappers
  <2>2. Wrapped(st) = Wrapped(Cur) \cup {} /\ Owned(st) = Owned(Cur)
    BY <1>11, LinksSame
  <2>3. /\ \A w \in Wrappers(f) : w # 0 => w \in Wrappers(Top)
        /\ \A w \in Wrappers(Top) : w = 0 \/ w \in Wrappers(f) \/ w \in {}
        /\ \A w \in {} : w \in Wrappers(Top) /\ w # 0
    BY <2>1
  <2> QED BY <1>9, <1>11, <1>12, <1>15, <2>2, <2>3 DEF Swaps
<1> QED BY <1>23, <1>24, Replaces

(* The schemas below a Hash.                                               *)
LEMMA Joined ==
  ASSUME NEW a \in Seq(STRING), NEW b \in Seq(STRING)
  PROVE  a \o b \in Seq(STRING)
<1>1. PICK S : S = STRING
  OBVIOUS
<1>2. a \in Seq(S) /\ b \in Seq(S)
  BY <1>1
<1>3. a \o b \in Seq(S)
  BY <1>2
<1> QED BY <1>1, <1>3

LEMMA DescendTyped ==
  ASSUME Top.pointer \in Seq(STRING), NEW keys \in Seq(Name)
  PROVE  Descend(keys) \in Seq(STRING)
<1>1. Top.pointer \o Cut(keys) \in Seq(STRING)
  BY CutTyped, Joined
<1> QED BY <1>1 DEF Descend

LEMMA ChildFresh ==
  ASSUME CompileTypeOK, TreeInv, NEW do, Pending(do), NEW expose, expose \in BOOLEAN,
         NEW pointer \in Seq(STRING), NEW child, child = Child(Top.jobs[1], expose),
         NEW new, new = NewFrame(Next1, Top.base, pointer, Top.home)
  PROVE  Fresh(child, new) /\ child.expose = expose
<1>1. /\ phase = "compile" /\ Top \in Frame /\ Cur \in Struct
      /\ WellMade(Top.jobs[1]) /\ Top.jobs[1] \in JobType
  BY PendingFacts
<1>2. Top.base \in UriType /\ Top.home \in Nat
  BY <1>1, FrameFacts
<1>3. PICK job : job = Top.jobs[1]
  OBVIOUS
<1>4. job.val \in Value /\ job.keys \in Seq(Name) /\ job.keys \in Seq(STRING)
  BY <1>1, <1>3 DEF WellMade, JobType
<1>5. PICK path \in Seq(STRING), loc \in Seq(STRING) :
        path = Cur.path \o Cut(job.keys) /\ loc = Cur.loc \o job.keys
  <2>1. Cur.path \in Seq(STRING) /\ Cur.loc \in Seq(STRING)
    BY <1>1, StructFacts
  <2>2. Cut(job.keys) \in Seq(STRING)
    BY <1>4, CutTyped
  <2>3. Cur.path \o Cut(job.keys) \in Seq(STRING) /\ Cur.loc \o job.keys \in Seq(STRING)
    BY <1>4, <2>1, <2>2, Joined
  <2> QED BY <2>3
<1>6. PICK val \in Value, home \in Nat : val = job.val /\ home = Top.home
  BY <1>2, <1>4
<1>7. PICK made : made = NewStruct(val, path, expose, loc, home)
  OBVIOUS
<1>a. made.expose = expose /\ made.frees = 0 /\ made.swept = FALSE /\ made.refSchema = 0
  BY <1>7 DEF NewStruct
<1>b. Made(val, path, expose, loc, home, made)
  BY <1>5, <1>6, <1>7 DEF Made
<1>c. made \in Struct /\ Owned(made) = {} /\ Wrapped(made) = {} /\ Untouched(made)
  BY <1>b, NewStructFacts
<1>d. child = made
  BY <1>3, <1>5, <1>6, <1>7 DEF Child
<1>8. /\ child \in Struct /\ Owned(child) = {} /\ Wrapped(child) = {} /\ Untouched(child)
      /\ child.expose = expose /\ child.frees = 0 /\ child.swept = FALSE /\ child.refSchema = 0
  BY <1>a, <1>c, <1>d
<1>9. PICK next \in Nat : next = Next1
  BY <1>1, InCompile DEF Next1
<1>10. new \in Frame /\ WorkOf(new, child) /\ new.s = Next1 /\ \A w \in Wrappers(new) : w = 0
  BY <1>2, <1>8, <1>9, NewFrameTyped, NewFrameWork
<1> QED BY <1>8, <1>10 DEF Fresh

(* The frame goes on, with the wrapper obj on the stack.                   *)
LEMMA AdvancedIs ==
  ASSUME CompileTypeOK, TreeInv, NEW do, Pending(do), do # "keep", NEW obj \in Nat,
         NEW f, (f = Advanced /\ obj = 0) \/ f = [Advanced EXCEPT !.obj = obj]
  PROVE  /\ f \in Frame /\ f.s = Top.s /\ f.pc = "jobs" /\ f.jobs = Tail(Top.jobs)
         /\ f.kept = Top.kept /\ f.obj = obj
         /\ Wrappers(Top) = {0} \cup ToSet(Top.kept) /\ Wrappers(f) = {obj} \cup ToSet(Top.kept)
<1>1. /\ Top \in Frame /\ Top.jobs # <<>> /\ Top.pc = "jobs" /\ Top.kept \in Seq(Nat) /\ Top.obj = 0
  BY PendingFacts
<1>2. PICK kept \in Seq(Nat) : kept = Top.kept
  BY <1>1
<1>3. Advances(Top, kept, obj, f)
  BY <1>1, <1>2 DEF Advances, Advanced
<1>4. /\ f \in Frame /\ f.s = Top.s /\ f.pc = Top.pc /\ f.jobs = Tail(Top.jobs)
      /\ f.kept = kept /\ f.obj = obj
  BY <1>1, <1>2, <1>3, AdvancedTop
<1> QED BY <1>1, <1>2, <1>4 DEF Wrappers

LEMMA SingleKeeps ==
  ASSUME CompileTypeOK, TreeInv, CompileSingle
  PROVE  CompileTypeOK' /\ TreeInv'
<1>0. Pending("single")
  BY DEF CompileSingle
<1>1. /\ phase = "compile" /\ Top \in Frame /\ Top.pc = "jobs" /\ Top.jobs # <<>>
      /\ Cur \in Struct /\ Cur = heap[Top.s] /\ Top.s \in 1 .. Len(heap) /\ WorkOf(Top, Cur)
      /\ Shaped(Top.jobs) /\ Head(Top.jobs) = Top.jobs[1] /\ Top.jobs[1].do = "single"
      /\ WellMade(Top.jobs[1]) /\ Top.kept = <<>>
  BY <1>0, PendingFacts
<1>2. PICK kw \in SingleKeyword : kw = Top.jobs[1].kw /\ Cur.single[kw] = 0
  <2>1. Top.jobs[1].kw \in SingleKeyword
    BY <1>1 DEF WellMade
  <2>2. 1 \in 1 .. Len(Top.jobs)
    BY <1>1, TailJobs
  <2>3. Cur.single[Top.jobs[1].kw] = 0
    BY <1>1, <2>2 DEF WorkOf, FrameWork
  <2> QED BY <2>1, <2>3
<1>3. PICK next \in Nat : next = Next1 /\ next # 0
  BY <1>1, InCompile DEF Next1
<1>4. PICK st : st = [Cur EXCEPT !.single[kw] = next]
  OBVIOUS
<1>5. /\ st \in Struct /\ SameLife(Cur, st) /\ Kept(Cur, st)
      /\ Wrapped(st) = Wrapped(Cur) /\ Owned(st) = Owned(Cur) \cup {next}
      /\ st.val = Cur.val /\ st.lists = Cur.lists /\ st.nested = Cur.nested /\ st.slots = Cur.slots
      /\ \A j \in SingleKeyword : j # kw => st.single[j] = Cur.single[j]
  <2>1. PICK old \in Struct : old = Cur /\ old.single[kw] = 0
    BY <1>1, <1>2
  <2>2. st = [old EXCEPT !.single[kw] = next]
    BY <1>4, <2>1
  <2>3. /\ st \in Struct /\ SameLife(old, st) /\ Kept(old, st)
        /\ Wrapped(st) = Wrapped(old) /\ Owned(st) = Owned(old) \cup {next}
        /\ st.val = old.val /\ st.lists = old.lists /\ st.nested = old.nested /\ st.slots = old.slots
        /\ \A j \in SingleKeyword : j # kw => st.single[j] = old.single[j]
    BY <1>2, <1>3, <2>1, <2>2, EditSingle
  <2> QED BY <2>1, <2>3
<1>6. PICK f : f = Advanced
  OBVIOUS
<1>7. /\ f \in Frame /\ f.s = Top.s /\ f.pc = "jobs" /\ f.jobs = Tail(Top.jobs)
      /\ f.kept = <<>> /\ f.obj = 0 /\ Wrappers(f) = Wrappers(Top)
  <2>1. PICK obj \in Nat : obj = 0
    OBVIOUS
  <2>2. /\ f \in Frame /\ f.s = Top.s /\ f.pc = "jobs" /\ f.jobs = Tail(Top.jobs)
        /\ f.kept = Top.kept /\ f.obj = obj
        /\ Wrappers(Top) = {0} \cup ToSet(Top.kept) /\ Wrappers(f) = {obj} \cup ToSet(Top.kept)
    BY <1>0, <1>6, <2>1, AdvancedIs
  <2> QED BY <1>1, <2>1, <2>2
<1>8. WorkOf(f, st)
  <2>1. Ahead(f) # "keep"
    BY <1>1, <1>7, AheadNext
  <2>2. Len(Cur.nested) \in Nat
    BY <1>1, StructFacts
  <2>3. Done(Top, Cur, f, st)
    BY <1>1, <1>2, <1>5, <1>7, <2>1, <2>2 DEF Done
  <2> QED BY <1>1, <2>3, DoneWork
<1>9. Does(f, st)
  <2>1. Len(st.nested) <= st.slots
    BY <1>1, <1>5, CurFits
  <2> QED BY <1>1, <1>5, <1>7, <1>8, <2>1 DEF Does, Kept, CompileSingle
<1>10. PICK child, new : /\ child = Child(Top.jobs[1], FALSE)
                         /\ new = NewFrame(Next1, Top.base, Top.pointer, Top.home)
  OBVIOUS
<1>11. Fresh(child, new) /\ child.expose = FALSE
  <2>1. PICK pointer \in Seq(STRING) : pointer = Top.pointer
    BY <1>1, FrameFacts
  <2> QED BY <1>0, <1>10, <2>1, ChildFresh
<1>12. Spawns(f, st, child, new)
  <2>1. heap' = Append([heap EXCEPT ![Top.s] = st], child)
    BY <1>1, <1>2, <1>3, <1>4, <1>10 DEF CompileSingle
  <2>2. frames' = Append(Replace(f), new) /\ refData' = refData
    BY <1>6, <1>10 DEF CompileSingle, Enter
  <2>3. /\ \A w \in Wrappers(f) : w # 0 => w \in Wrappers(Top) \/ w = Next1
        /\ \A w \in Wrappers(Top) : w = 0 \/ w \in Wrappers(f)
    BY <1>7
  <2>4. child.expose = FALSE /\ Owned(st) = Owned(Cur) \cup {Next1}
    BY <1>3, <1>5, <1>11
  <2> QED BY <1>5, <1>11, <2>1, <2>2, <2>3, <2>4 DEF Spawns
<1> QED BY <1>9, <1>12, Enters

LEMMA NestedKeeps ==
  ASSUME CompileTypeOK, TreeInv, CompileNested
  PROVE  CompileTypeOK' /\ TreeInv'
<1>0. Pending("nested")
  BY DEF CompileNested
<1>1. /\ phase = "compile" /\ Top \in Frame /\ Top.pc = "jobs" /\ Top.jobs # <<>>
      /\ Cur \in Struct /\ Cur = heap[Top.s] /\ Top.s \in 1 .. Len(heap) /\ WorkOf(Top, Cur)
      /\ Shaped(Top.jobs) /\ Head(Top.jobs) = Top.jobs[1] /\ Top.jobs[1].do = "nested"
      /\ WellMade(Top.jobs[1]) /\ Top.kept = <<>>
  BY <1>0, PendingFacts
<1>2. PICK next \in Nat : next = Next1 /\ next # 0
  BY <1>1, InCompile DEF Next1
<1>3. PICK st : st = [Cur EXCEPT !.nested = Append(@, next)]
  OBVIOUS
<1>4. /\ st \in Struct /\ SameLife(Cur, st) /\ Kept(Cur, st)
      /\ Wrapped(st) = Wrapped(Cur) /\ Owned(st) = Owned(Cur) \cup {next}
      /\ st.val = Cur.val /\ st.single = Cur.single /\ st.lists = Cur.lists /\ st.slots = Cur.slots
      /\ Len(st.nested) = Len(Cur.nested) + 1
  <2>1. PICK old \in Struct : old = Cur
    BY <1>1
  <2>2. st = [old EXCEPT !.nested = Append(@, next)]
    BY <1>3, <2>1
  <2>3. /\ st \in Struct /\ SameLife(old, st) /\ Kept(old, st)
        /\ Wrapped(st) = Wrapped(old) /\ Owned(st) = Owned(old) \cup {next}
        /\ st.val = old.val /\ st.single = old.single /\ st.lists = old.lists /\ st.slots = old.slots
        /\ Len(st.nested) = Len(old.nested) + 1
    BY <1>2, <2>1, <2>2, EditNested
  <2> QED BY <2>1, <2>3
<1>5. PICK f : f = Advanced
  OBVIOUS
<1>6. /\ f \in Frame /\ f.s = Top.s /\ f.pc = "jobs" /\ f.jobs = Tail(Top.jobs)
      /\ f.kept = <<>> /\ f.obj = 0 /\ Wrappers(f) = Wrappers(Top)
  <2>1. PICK obj \in Nat : obj = 0
    OBVIOUS
  <2>2. /\ f \in Frame /\ f.s = Top.s /\ f.pc = "jobs" /\ f.jobs = Tail(Top.jobs)
        /\ f.kept = Top.kept /\ f.obj = obj
        /\ Wrappers(Top) = {0} \cup ToSet(Top.kept) /\ Wrappers(f) = {obj} \cup ToSet(Top.kept)
    BY <1>0, <1>5, <2>1, AdvancedIs
  <2> QED BY <1>1, <2>1, <2>2
<1>7. WorkOf(f, st) /\ Cur.slots > Len(Cur.nested)
  <2>1. Ahead(f) # "keep"
    BY <1>1, <1>6, AheadNext
  <2>2. Len(Cur.nested) \in Nat
    BY <1>1, StructFacts
  <2>3. Done(Top, Cur, f, st)
    BY <1>1, <1>4, <1>6, <2>1, <2>2 DEF Done
  <2> QED BY <1>1, <2>3, DoneWork
<1>8. Does(f, st)
  <2>1. Len(st.nested) <= st.slots
    <3>1. Cur.slots \in Nat /\ Len(Cur.nested) \in Nat
      BY <1>1, StructFacts
    <3> QED BY <1>4, <1>7, <3>1
  <2> QED BY <1>1, <1>4, <1>6, <1>7, <2>1 DEF Does, Kept, CompileNested
<1>9. PICK child, new : /\ child = Child(Top.jobs[1], FALSE)
                        /\ new = NewFrame(Next1, Top.base, Descend(Top.jobs[1].keys), Top.home)
  OBVIOUS
<1>10. Fresh(child, new) /\ child.expose = FALSE
  <2>1. PICK pointer \in Seq(STRING) : pointer = Descend(Top.jobs[1].keys)
    BY <1>1, FrameFacts, DescendTyped DEF WellMade
  <2> QED BY <1>0, <1>9, <2>1, ChildFresh
<1>11. Spawns(f, st, child, new)
  <2>1. heap' = Append([heap EXCEPT ![Top.s] = st], child)
    BY <1>1, <1>2, <1>3, <1>9 DEF CompileNested
  <2>2. frames' = Append(Replace(f), new) /\ refData' = refData
    BY <1>1, <1>5, <1>9 DEF CompileNested, Enter
  <2>3. /\ \A w \in Wrappers(f) : w # 0 => w \in Wrappers(Top) \/ w = Next1
        /\ \A w \in Wrappers(Top) : w = 0 \/ w \in Wrappers(f)
    BY <1>6
  <2>4. child.expose = FALSE /\ Owned(st) = Owned(Cur) \cup {Next1}
    BY <1>2, <1>4, <1>10
  <2> QED BY <1>4, <1>10, <2>1, <2>2, <2>3, <2>4 DEF Spawns
<1> QED BY <1>8, <1>11, Enters

LEMMA ElementKeeps ==
  ASSUME CompileTypeOK, TreeInv, CompileElement
  PROVE  CompileTypeOK' /\ TreeInv'
<1>0. Pending("element")
  BY DEF CompileElement
<1>1. /\ phase = "compile" /\ Top \in Frame /\ Top.pc = "jobs" /\ Top.jobs # <<>>
      /\ Cur \in Struct /\ Cur = heap[Top.s] /\ Top.s \in 1 .. Len(heap) /\ WorkOf(Top, Cur)
      /\ Shaped(Top.jobs) /\ Head(Top.jobs) = Top.jobs[1] /\ Top.jobs[1].do = "element"
      /\ WellMade(Top.jobs[1]) /\ \A j \in 1 .. Len(Top.kept) : Top.kept[j] # 0
  BY <1>0, PendingFacts
<1>2. PICK next \in Nat : next = Next1 /\ next # 0
  BY <1>1, InCompile DEF Next1
<1>3. PICK f : f = [Advanced EXCEPT !.obj = next]
  OBVIOUS
<1>4. /\ f \in Frame /\ f.s = Top.s /\ f.pc = "jobs" /\ f.jobs = Tail(Top.jobs)
      /\ f.kept = Top.kept /\ f.obj = next
      /\ Wrappers(Top) = {0} \cup ToSet(Top.kept) /\ Wrappers(f) = {next} \cup ToSet(Top.kept)
  <2>1. "element" # "keep"
    OBVIOUS
  <2> QED BY <1>0, <1>2, <1>3, <2>1, AdvancedIs
<1>5. WorkOf(f, Cur)
  <2>1. Ahead(f) = "keep"
    BY <1>1, <1>4, AheadNext
  <2>2. Len(Cur.nested) \in Nat
    BY <1>1, StructFacts
  <2>3. Done(Top, Cur, f, Cur)
    BY <1>1, <1>2, <1>4, <2>1, <2>2 DEF Done
  <2> QED BY <1>1, <2>3, DoneWork
<1>6. Does(f, Cur)
  <2>1. Len(Cur.nested) <= Cur.slots
    BY <1>1, CurFits
  <2> QED BY <1>1, <1>4, <1>5, <2>1 DEF Does, CompileElement
<1>7. PICK child, new : /\ child = Child(Top.jobs[1], TRUE)
                        /\ new = NewFrame(Next1, Top.base, Descend(Top.jobs[1].keys), Top.home)
  OBVIOUS
<1>8. Fresh(child, new) /\ child.expose = TRUE
  <2>1. PICK pointer \in Seq(STRING) : pointer = Descend(Top.jobs[1].keys)
    BY <1>1, FrameFacts, DescendTyped DEF WellMade
  <2> QED BY <1>0, <1>7, <2>1, ChildFresh
<1>9. Spawns(f, Cur, child, new)
  <2>1. heap' = Append([heap EXCEPT ![Top.s] = Cur], child)
    <3>1. heap' = Append(heap, child) /\ heap \in Seq(Struct)
      BY <1>1, <1>7 DEF CompileElement, CompileTypeOK
    <3>2. heap = [heap EXCEPT ![Top.s] = heap[Top.s]]
      BY <1>1, <3>1, SameHeap
    <3> QED BY <1>1, <3>1, <3>2
  <2>2. frames' = Append(Replace(f), new) /\ refData' = refData
    BY <1>1, <1>2, <1>3, <1>7 DEF CompileElement, Enter
  <2>3. /\ \A w \in Wrappers(f) : w # 0 => w \in Wrappers(Top) \/ w = Next1
        /\ \A w \in Wrappers(Top) : w = 0 \/ w \in Wrappers(f)
    BY <1>2, <1>4
  <2>4. child.expose = TRUE /\ Owned(Cur) = Owned(Cur) /\ Next1 \in Wrappers(f)
    BY <1>2, <1>4, <1>8
  <2>5. SameLife(Cur, Cur)
    BY DEF SameLife
  <2> QED BY <1>8, <2>1, <2>2, <2>3, <2>4, <2>5 DEF Spawns
<1> QED BY <1>6, <1>9, Enters

(***************************************************************************)
(* Before compile() and after it.                                          *)
(***************************************************************************)
LEMMA HeapLength ==
  ASSUME CompileTypeOK
  PROVE  heap \in Seq(Struct) /\ Len(heap) \in Nat /\ \A s \in 1 .. Len(heap) : heap[s] \in Struct
<1>1. PICK H : H = Struct /\ heap \in Seq(H)
  BY DEF CompileTypeOK
<1>2. Len(heap) \in Nat /\ \A s \in 1 .. Len(heap) : heap[s] \in H
  BY <1>1
<1> QED BY <1>1, <1>2

LEMMA NoFrames ==
  /\ \A r, n : FramesIn(<<>>, r, n)
  /\ \A h : WorkIn(<<>>, h)
  /\ Busy(<<>>) = {} /\ <<>> \in Seq(Frame)
<1>1. Len(<<>>) = 0 /\ 1 .. 0 = {}
  OBVIOUS
<1> QED BY <1>1 DEF FramesIn, WorkIn, Busy

(* The tree is given up or let go of.                                      *)
LEMMA LetGo ==
  ASSUME CompileTypeOK, TreeInv, phase' \in {"idle", "dropped"}, ivar' = 0, root' = 0,
         frames' = <<>>, agenda' = <<>>, DOMAIN refData' = {},
         heap' = heap, source' = source, attempts' = attempts
  PROVE  CompileTypeOK' /\ TreeInv'
<1>1. heap \in Seq(Struct) /\ Len(heap) \in Nat
  BY HeapLength
<1>2. PICK n \in Nat : n = Len(heap)
  BY <1>1
<1>3. TreeRoot' = 0
  BY DEF TreeRoot
<1>4. \A s : ~Young(0, s)
  BY DEF Young
<1>5. Phases'
  BY DEF Phases
<1>6. FramesIn(frames', 0, n) /\ WorkIn(frames', heap') /\ Busy(frames') = {} /\ frames' \in Seq(Frame)
  BY NoFrames
<1>7. NamesIn(refData', agenda', heap', n, 0)
  <2>1. Len(<<>>) = 0 /\ 1 .. 0 = {}
    OBVIOUS
  <2> QED BY <1>4, <2>1 DEF NamesIn
<1>8. Sound(heap', HeldBy(root', ivar', frames'), 0)
  BY <1>2, Parts, AbandonSound
<1>9. SlotsIn(heap', n, 0, Busy(frames'))
  BY <1>2, <1>4, Parts DEF SlotsIn
<1>10. Resolving'
  BY DEF Resolving
<1>11. TreeInv'
  <2>1. n = Len(heap')
    BY <1>2
  <2> QED BY <1>3, <1>5, <1>6, <1>7, <1>8, <1>9, <1>10, <2>1, PartsAfter
<1>12. CompileTypeOK'
  <2>1. attempts' \in 0 .. MaxAttempts
    BY DEF CompileTypeOK
  <2>2. <<>> \in Seq(1 .. n)
    OBVIOUS
  <2>3. n = Len(heap') /\ agenda' \in Seq(1 .. n) /\ root' \in 0 .. n /\ ivar' \in 0 .. n
        /\ heap' \in Seq(Struct)
    BY <1>1, <1>2, <2>2
  <2>4. phase' \in {"idle", "compile", "resolve", "dropped"}
        /\ \A k \in DOMAIN refData' : k \in UriType /\ refData'[k] \in 1 .. n
    OBVIOUS
  <2> QED BY <1>6, <2>1, <2>3, <2>4, TypeAfter
<1> QED BY <1>11, <1>12

LEMMA RaiseKeeps ==
  ASSUME CompileTypeOK, TreeInv, phase \in {"compile", "resolve"}, Raise
  PROVE  CompileTypeOK' /\ TreeInv'
<1>1. ivar = 0
  BY DEF TreeInv, Phases
<1>2. DOMAIN NoRefData = {}
  BY DEF NoRefData
<1> QED BY <1>1, <1>2, LetGo DEF Raise

LEMMA DropKeeps ==
  ASSUME CompileTypeOK, TreeInv, DropSchema
  PROVE  CompileTypeOK' /\ TreeInv'
<1>1. phase = "idle"
  BY DEF DropSchema
<1>2. root = 0
  BY <1>1 DEF TreeInv, Phases
<1>3. frames = <<>>
  BY <1>1 DEF TreeInv, Phases
<1>4. agenda = <<>>
  BY <1>1 DEF TreeInv, Phases
<1>5. DOMAIN refData = {}
  BY <1>2 DEF TreeInv, Phases
<1> QED BY <1>2, <1>3, <1>4, <1>5, LetGo DEF DropSchema

LEMMA PublishKeeps ==
  ASSUME CompileTypeOK, TreeInv, Publish
  PROVE  CompileTypeOK' /\ TreeInv'
<1>1. phase = "resolve" /\ agenda = <<>>
  BY DEF Publish
<1>2. /\ ivar' = root /\ phase' = "idle" /\ root' = 0 /\ refData' = NoRefData
      /\ source' = source /\ attempts' = attempts /\ heap' = heap /\ frames' = frames
      /\ agenda' = agenda
  BY DEF Publish
<1>3. root # 0 /\ frames = <<>> /\ TreeRoot = root /\ TreeRoot' = root
  BY <1>1, <1>2 DEF TreeInv, Phases, TreeRoot
<1>4. ivar = 0
  BY <1>3 DEF TreeInv, Phases
<1>5. heap \in Seq(Struct) /\ Len(heap) \in Nat
  BY HeapLength
<1>6. PICK n \in Nat : n = Len(heap)
  BY <1>5
<1>7. DOMAIN NoRefData = {}
  BY DEF NoRefData
<1>8. Phases'
  BY <1>1, <1>2, <1>3, <1>7 DEF Phases
<1>9. FramesIn(frames', root, n) /\ WorkIn(frames', heap') /\ Busy(frames') = {} /\ frames' \in Seq(Frame)
  BY <1>2, <1>3, NoFrames
<1>10. NamesIn(refData', agenda', heap', n, root)
  <2>1. NamesIn(refData, agenda, heap, n, root)
    BY <1>3, <1>6, Parts
  <2> QED BY <1>2, <1>7, <2>1 DEF NamesIn
<1>11. Sound(heap', HeldBy(root', ivar', frames'), root)
  <2>1. HeldBy(0, root, frames) = HeldBy(root, 0, frames)
    BY DEF HeldBy
  <2> QED BY <1>2, <1>3, <1>4, <2>1, Parts
<1>12. SlotsIn(heap', n, root, Busy(frames'))
  BY <1>2, <1>3, <1>6, Parts
<1>13. Resolving'
  <2>1. \A s \in 1 .. Len(heap) : Young(TreeRoot, s) /\ heap[s].ref # NoUri /\ heap[s].refSchema = 0
          => s \in Reach(Points, ToSet(agenda))
    BY <1>1 DEF TreeInv, Resolving
  <2>2. Points' = Points
    BY <1>2 DEF Points
  <2> QED BY <1>2, <1>3, <2>1, <2>2 DEF Resolving
<1>14. TreeInv'
  <2>1. n = Len(heap')
    BY <1>2, <1>6
  <2> QED BY <1>3, <1>8, <1>9, <1>10, <1>11, <1>12, <1>13, <2>1, PartsAfter
<1>15. CompileTypeOK'
  <2>1. attempts' \in 0 .. MaxAttempts /\ agenda' \in Seq(1 .. n) /\ ivar' \in 0 .. n /\ root' \in 0 .. n
    BY <1>2, <1>6 DEF CompileTypeOK
  <2>2. n = Len(heap') /\ heap' \in Seq(Struct) /\ phase' \in {"idle", "compile", "resolve", "dropped"}
        /\ \A k \in DOMAIN refData' : k \in UriType /\ refData'[k] \in 1 .. n
    BY <1>2, <1>5, <1>6, <1>7
  <2> QED BY <1>2, <1>9, <2>1, <2>2, TypeAfter
<1> QED BY <1>14, <1>15

LEMMA SchemaKeeps ==
  ASSUME CompileTypeOK, TreeInv, CompileSchema
  PROVE  CompileTypeOK' /\ TreeInv'
<1>1. phase = "idle" /\ ivar = 0 /\ attempts < MaxAttempts
  BY DEF CompileSchema
<1>2. /\ phase' = "compile" /\ attempts' = attempts + 1 /\ refData' = NoRefData
      /\ root' = Next1 /\ source' = source /\ agenda' = agenda /\ ivar' = ivar
  BY DEF CompileSchema
<1>3. frames = <<>> /\ agenda = <<>> /\ TreeRoot = 0
  BY <1>1 DEF TreeInv, Phases, TreeRoot
<1>4. heap \in Seq(Struct) /\ Len(heap) \in Nat
  BY HeapLength
<1>5. PICK n \in Nat : n = Len(heap)
  BY <1>4
<1>6. PICK m \in Nat : m = n + 1 /\ m = Next1 /\ m # 0 /\ n < m
  BY <1>5 DEF Next1
<1>7. PICK child, new : /\ child = NewStruct(source, <<"#">>, TRUE, <<>>, 0)
                        /\ new = NewFrame(Next1, NoUri, <<>>, 0)
  OBVIOUS
<1>8. heap' = Append(heap, child) /\ frames' = <<new>>
  BY <1>7 DEF CompileSchema
<1>9. /\ child \in Struct /\ Owned(child) = {} /\ Wrapped(child) = {} /\ Untouched(child)
      /\ child.expose = TRUE /\ child.frees = 0 /\ child.swept = FALSE /\ child.refSchema = 0
  <2>1. child.expose = TRUE /\ child.frees = 0 /\ child.swept = FALSE /\ child.refSchema = 0
    BY <1>7 DEF NewStruct
  <2>2. PICK path, expose, loc, home : /\ path = <<"#">> /\ expose = TRUE /\ loc = <<>> /\ home = 0
    OBVIOUS
  <2>3. Made(source, path, expose, loc, home, child)
    <3>1. source \in Value
      BY SchemasAssumption DEF CompileTypeOK
    <3>2. "#" \in STRING
      BY LiteralsAssumption DEF Literals
    <3>3. path \in Seq(STRING) /\ loc \in Seq(STRING) /\ expose \in BOOLEAN /\ home \in Nat
      BY <2>2, <3>2
    <3>4. child = NewStruct(source, path, expose, loc, home)
      BY <1>7, <2>2
    <3> QED BY <3>1, <3>3, <3>4 DEF Made
  <2> QED BY <2>1, <2>3, NewStructFacts
<1>10. /\ new \in Frame /\ new.s = m /\ WorkOf(new, child) /\ \A w \in Wrappers(new) : w = 0
  <2>1. PICK base \in UriType : base = NoUri
    BY NoUriTyped
  <2>2. PICK pointer \in Seq(STRING) : pointer = <<>>
    <3>1. <<>> \in Seq(STRING)
      OBVIOUS
    <3> QED BY <3>1
  <2>3. PICK home \in Nat : home = 0
    OBVIOUS
  <2>4. new = NewFrame(m, base, pointer, home)
    BY <1>6, <1>7, <2>1, <2>2, <2>3
  <2>5. NewFrame(m, base, pointer, home) \in Frame
    BY <1>6, <2>1, <2>2, <2>3, NewFrameTyped
  <2>6. WorkOf(new, child) /\ new.s = m /\ \A w \in Wrappers(new) : w = 0
    <3>1. PICK s, b, p, h : s = m /\ b = base /\ p = pointer /\ h = home
      OBVIOUS
    <3>2. new = NewFrame(s, b, p, h) /\ Untouched(child)
      BY <1>9, <2>4, <3>1
    <3>3. WorkOf(new, child) /\ new.s = s /\ new.pc = "enter" /\ \A w \in Wrappers(new) : w = 0
      BY <3>2, NewFrameWork
    <3> QED BY <3>1, <3>3
  <2> QED BY <1>6, <2>4, <2>5, <2>6
<1>11. PICK h, g, gs : h = heap /\ g = heap' /\ gs = frames'
  OBVIOUS
<1>12. /\ h \in Seq(Struct) /\ Len(h) = n /\ g \in Seq(Struct) /\ Len(g) = m /\ g[m] = child
       /\ \A s \in 1 .. n : g[s] = h[s]
  <2>1. PICK H : H = Struct
    OBVIOUS
  <2>2. h \in Seq(H) /\ child \in H /\ Len(h) = n /\ g = Append(h, child)
    BY <1>4, <1>5, <1>8, <1>9, <1>11, <2>1
  <2> QED BY <1>6, <2>1, <2>2, AppendSeq
<1>13. gs = <<new>> /\ Len(gs) = 1 /\ gs[1] = new /\ gs \in Seq(Frame) /\ 1 .. Len(gs) = {1}
  <2>1. PICK F : F = Frame
    OBVIOUS
  <2>2. <<new>> \in Seq(F) /\ Len(<<new>>) = 1 /\ <<new>>[1] = new
    BY <1>10, <2>1
  <2> QED BY <1>8, <1>11, <2>1, <2>2
<1>14. TreeRoot' = m /\ \A s \in 1 .. m : Young(m, s) <=> s = m
  BY <1>2, <1>6 DEF TreeRoot, Young
<1>15. Phases'
  <2>1. DOMAIN NoRefData = {}
    BY DEF NoRefData
  <2>2. gs # <<>>
    BY <1>13
  <2>3. frames' # <<>> /\ root' # 0 /\ ivar' = 0 /\ agenda' = <<>> /\ phase' = "compile"
    BY <1>1, <1>2, <1>3, <1>6, <1>11, <2>2
  <2> QED BY <1>2, <2>1, <2>3 DEF Phases
<1>16. FramesIn(gs, m, m)
  BY <1>6, <1>10, <1>13, <1>14 DEF FramesIn
<1>17. WorkIn(gs, g)
  BY <1>10, <1>12, <1>13 DEF WorkIn
<1>18. NamesIn(refData', agenda', g, m, m)
  <2>1. DOMAIN NoRefData = {} /\ Len(<<>>) = 0 /\ 1 .. 0 = {}
    BY DEF NoRefData
  <2>2. \A s \in 1 .. m : Young(m, s) => g[s].refSchema = 0
    BY <1>9, <1>12, <1>14
  <2> QED BY <1>2, <1>3, <2>1, <2>2 DEF NamesIn
<1>19. Sound(g, HeldBy(m, 0, gs), m)
  <2>1. Sound(h, HeldBy(root, ivar, frames), 0)
    BY <1>3, <1>11, Parts
  <2>2. m \in HeldBy(m, 0, gs)
    BY <1>6 DEF HeldBy
  <2>3. PICK held, more : held = HeldBy(root, ivar, frames) /\ more = HeldBy(m, 0, gs)
    OBVIOUS
  <2>4. /\ Len(g) = n + 1 /\ Owned(g[n + 1]) = {} /\ Wrapped(g[n + 1]) = {}
        /\ g[n + 1].expose = TRUE /\ g[n + 1].frees = 0 /\ g[n + 1].swept = FALSE
        /\ n + 1 \in more
    BY <1>6, <1>9, <1>12, <2>2, <2>3
  <2>5. Sound(g, more, n + 1)
    BY <1>12, <2>1, <2>3, <2>4, BeginSound
  <2> QED BY <1>6, <2>3, <2>5
<1>20. SlotsIn(g, m, m, Busy(gs))
  <2>1. SlotsIn(h, n, 0, Busy(frames))
    BY <1>3, <1>5, <1>11, Parts
  <2>2. \A s \in 1 .. m : s \in 1 .. n \/ s = m
    BY <1>6
  <2>3. m \in Busy(gs)
    BY <1>10, <1>13 DEF Busy
  <2>4. Len(child.nested) <= child.slots
    <3>1. child.nested = <<>> /\ child.slots = 0 /\ Len(<<>>) = 0
      BY <1>9 DEF Untouched
    <3> QED BY <3>1
  <2> QED BY <1>12, <1>14, <2>1, <2>2, <2>3, <2>4 DEF SlotsIn
<1>21. Resolving'
  BY <1>1, <1>2 DEF Resolving
<1>22. TreeInv'
  <2>1. m = Len(heap') /\ m = TreeRoot' /\ FramesIn(frames', m, m) /\ WorkIn(frames', heap')
        /\ NamesIn(refData', agenda', heap', m, m) /\ SlotsIn(heap', m, m, Busy(frames'))
        /\ Sound(heap', HeldBy(root', ivar', frames'), m)
    BY <1>1, <1>2, <1>6, <1>11, <1>12, <1>14, <1>16, <1>17, <1>18, <1>19, <1>20
  <2> QED BY <1>15, <1>21, <2>1, PartsAfter
<1>23. CompileTypeOK'
  <2>1. attempts' \in 0 .. MaxAttempts
    BY <1>1, <1>2, MaxAttemptsAssumption DEF CompileTypeOK
  <2>2. <<>> \in Seq(1 .. m) /\ DOMAIN NoRefData = {}
    BY DEF NoRefData
  <2>3. /\ m = Len(heap') /\ heap' \in Seq(Struct) /\ frames' \in Seq(Frame)
        /\ agenda' \in Seq(1 .. m) /\ root' \in 0 .. m /\ ivar' \in 0 .. m
        /\ phase' \in {"idle", "compile", "resolve", "dropped"} /\ source' = source
        /\ \A k \in DOMAIN refData' : k \in UriType /\ refData'[k] \in 1 .. m
    BY <1>1, <1>2, <1>3, <1>6, <1>11, <1>12, <1>13, <2>2
  <2> QED BY <2>1, <2>3, TypeAfter
<1> QED BY <1>22, <1>23

(***************************************************************************)
(* resolve_refs().                                                         *)
(***************************************************************************)
(* A sequence of the fields named by keys.                                 *)
Fields(q, n, S, F) ==
  /\ n \in Nat /\ q \in Seq(Seq(Nat)) /\ Len(q) = n
  /\ \A j \in 1 .. n : \E k \in S : ToSet(q[j]) = F[k]
  /\ \A k \in S : \E j \in 1 .. n : ToSet(q[j]) = F[k]

LEMMA FlatFields ==
  ASSUME NEW q, NEW n, NEW S, NEW F, Fields(q, n, S, F)
  PROVE  FlattenSeq(q) \in Seq(Nat) /\ ToSet(FlattenSeq(q)) = UNION {F[k] : k \in S}
<1>0. /\ q \in Seq(Seq(Nat)) /\ Len(q) = n
      /\ \A j \in 1 .. n : \E k \in S : ToSet(q[j]) = F[k]
      /\ \A k \in S : \E j \in 1 .. n : ToSet(q[j]) = F[k]
  BY DEF Fields
<1>1. PICK T : T = Nat
  OBVIOUS
<1>2. FlattenSeq(q) \in Seq(T) /\ ToSet(FlattenSeq(q)) = UNION {ToSet(q[j]) : j \in 1 .. Len(q)}
  BY <1>0, <1>1, FlattenElements
<1>3. ASSUME NEW x PROVE x \in UNION {ToSet(q[j]) : j \in 1 .. n} <=> x \in UNION {F[k] : k \in S}
  <2>1. (\E j \in 1 .. n : x \in ToSet(q[j])) <=> (\E k \in S : x \in F[k])
    BY <1>0
  <2> QED BY <2>1
<1>4. UNION {ToSet(q[j]) : j \in 1 .. n} = UNION {F[k] : k \in S}
  BY <1>3
<1> QED BY <1>0, <1>1, <1>2, <1>4

LEMMA SinglesIs ==
  ASSUME NEW st \in Struct, NEW n \in Nat, NEW keys, Len(keys) = n,
         \A j \in 1 .. n : keys[j] \in SingleKeyword,
         \A k \in SingleKeyword : \E j \in 1 .. n : keys[j] = k
  PROVE  /\ Singles(st, keys) \in Seq(Nat)
         /\ ToSet(Singles(st, keys)) = {st.single[k] : k \in SingleKeyword} \ {0}
<1>0. \A k \in SingleKeyword : st.single[k] \in Nat
  BY DEF Struct
<1>1. PICK S : S = SingleKeyword
  OBVIOUS
<1>2. PICK F : F = [k \in S |-> {st.single[k]} \ {0}]
  OBVIOUS
<1>3. PICK q : q = [j \in 1 .. n |-> IF st.single[keys[j]] = 0 THEN <<>> ELSE <<st.single[keys[j]]>>]
  OBVIOUS
<1>4. \A x : ToSet(<<x>>) = {x} /\ ToSet(<<>>) = {}
  BY DEF ToSet
<1>5. ASSUME NEW j \in 1 .. n
      PROVE  q[j] \in Seq(Nat) /\ ToSet(q[j]) = F[keys[j]] /\ keys[j] \in S
  <2>1. PICK x \in Nat : x = st.single[keys[j]] /\ keys[j] \in S
    BY <1>0, <1>1
  <2>2. F[keys[j]] = {x} \ {0}
    BY <1>2, <2>1
  <2>3. q[j] = IF x = 0 THEN <<>> ELSE <<x>>
    BY <1>3, <2>1
  <2>4. CASE x = 0
    BY <1>4, <2>1, <2>2, <2>3, <2>4
  <2>5. CASE x # 0
    BY <1>4, <2>1, <2>2, <2>3, <2>5
  <2> QED BY <2>4, <2>5
<1>6. q \in Seq(Seq(Nat)) /\ Len(q) = n
  <2>1. PICK T : T = Seq(Nat)
    OBVIOUS
  <2>2. q \in [1 .. n -> T]
    BY <1>3, <1>5, <2>1
  <2> QED BY <2>1, <2>2
<1>7. ASSUME NEW k \in S PROVE \E j \in 1 .. n : ToSet(q[j]) = F[k]
  <2>1. PICK j \in 1 .. n : keys[j] = k
    BY <1>1
  <2> QED BY <1>5, <2>1
<1>8. Fields(q, n, S, F)
  BY <1>5, <1>6, <1>7 DEF Fields
<1>9. FlattenSeq(q) \in Seq(Nat) /\ ToSet(FlattenSeq(q)) = UNION {F[k] : k \in S}
  BY <1>8, FlatFields
<1>10. UNION {F[k] : k \in S} = {st.single[k] : k \in SingleKeyword} \ {0}
  BY <1>1, <1>2
<1> QED BY <1>3, <1>9, <1>10 DEF Singles

LEMMA ListsIs ==
  ASSUME NEW st \in Struct, NEW n \in Nat, NEW keys, Len(keys) = n,
         \A j \in 1 .. n : keys[j] \in ListKeyword,
         \A k \in ListKeyword : \E j \in 1 .. n : keys[j] = k
  PROVE  Lists(st, keys) \in Seq(Nat) /\ ToSet(Lists(st, keys)) = Wrapped(st)
<1>0. \A k \in ListKeyword : st.lists[k] \in Seq(Nat)
  BY DEF Struct
<1>1. PICK S : S = ListKeyword
  OBVIOUS
<1>2. PICK F : F = [k \in S |-> ToSet(st.lists[k])]
  OBVIOUS
<1>3. PICK q : q = [j \in 1 .. n |-> st.lists[keys[j]]]
  OBVIOUS
<1>4. ASSUME NEW j \in 1 .. n
      PROVE  q[j] \in Seq(Nat) /\ ToSet(q[j]) = F[keys[j]] /\ keys[j] \in S
  BY <1>0, <1>1, <1>2, <1>3
<1>5. q \in Seq(Seq(Nat)) /\ Len(q) = n
  <2>1. PICK T : T = Seq(Nat)
    OBVIOUS
  <2>2. q \in [1 .. n -> T]
    BY <1>3, <1>4, <2>1
  <2> QED BY <2>1, <2>2
<1>6. ASSUME NEW k \in S PROVE \E j \in 1 .. n : ToSet(q[j]) = F[k]
  <2>1. PICK j \in 1 .. n : keys[j] = k
    BY <1>1
  <2> QED BY <1>4, <2>1
<1>7. Fields(q, n, S, F)
  BY <1>4, <1>5, <1>6 DEF Fields
<1>8. FlattenSeq(q) \in Seq(Nat) /\ ToSet(FlattenSeq(q)) = UNION {F[k] : k \in S}
  BY <1>7, FlatFields
<1>9. UNION {F[k] : k \in S} = Wrapped(st)
  BY <1>1, <1>2 DEF Wrapped
<1> QED BY <1>3, <1>8, <1>9 DEF Lists

(* resolve_refs goes down every pointer of a struct, and no other.         *)
LEMMA ChildrenAre ==
  ASSUME NEW st \in Struct
  PROVE  Children(st) \in Seq(Nat) /\ ToSet(Children(st)) = Owned(st) \cup Wrapped(st)
<1>1. PICK keys, lists :
        /\ keys = <<"if", "then", "else", "not", "items", "additionalItems",
                    "contains", "propertyNames", "additionalProperties">>
        /\ lists = <<"allOf", "anyOf", "oneOf", "items", "properties",
                     "patternProperties", "dependencies">>
  OBVIOUS
<1>2. /\ Len(keys) = 9 /\ \A j \in 1 .. 9 : keys[j] \in SingleKeyword
      /\ \A k \in SingleKeyword : \E j \in 1 .. 9 : keys[j] = k
  <2>1. /\ Len(keys) = 9 /\ keys[1] = "if" /\ keys[2] = "then" /\ keys[3] = "else" /\ keys[4] = "not"
        /\ keys[5] = "items" /\ keys[6] = "additionalItems" /\ keys[7] = "contains"
        /\ keys[8] = "propertyNames" /\ keys[9] = "additionalProperties"
    BY <1>1
  <2>2. 1 .. 9 = {1, 2, 3, 4, 5, 6, 7, 8, 9}
    OBVIOUS
  <2> QED BY <2>1, <2>2 DEF SingleKeyword
<1>3. /\ Len(lists) = 7 /\ \A j \in 1 .. 7 : lists[j] \in ListKeyword
      /\ \A k \in ListKeyword : \E j \in 1 .. 7 : lists[j] = k
  <2>1. /\ Len(lists) = 7 /\ lists[1] = "allOf" /\ lists[2] = "anyOf" /\ lists[3] = "oneOf"
        /\ lists[4] = "items" /\ lists[5] = "properties" /\ lists[6] = "patternProperties"
        /\ lists[7] = "dependencies"
    BY <1>1
  <2>2. 1 .. 7 = {1, 2, 3, 4, 5, 6, 7}
    OBVIOUS
  <2> QED BY <2>1, <2>2 DEF ListKeyword
<1>4. PICK a, b, c : a = Singles(st, keys) /\ b = Lists(st, lists) /\ c = st.nested
  OBVIOUS
<1>5. a \in Seq(Nat) /\ ToSet(a) = {st.single[k] : k \in SingleKeyword} \ {0}
  BY <1>2, <1>4, SinglesIs
<1>6. b \in Seq(Nat) /\ ToSet(b) = Wrapped(st)
  BY <1>3, <1>4, ListsIs
<1>7. c \in Seq(Nat)
  BY <1>4, StructFacts
<1>8. PICK T : T = Nat
  OBVIOUS
<1>9. a \o b \in Seq(T) /\ ToSet(a \o b) = ToSet(a) \cup ToSet(b)
  BY <1>5, <1>6, <1>8, ConcatSet
<1>10. PICK ab : ab = a \o b
  OBVIOUS
<1>11. ab \o c \in Seq(T) /\ ToSet(ab \o c) = ToSet(ab) \cup ToSet(c)
  <2>1. ab \in Seq(T) /\ c \in Seq(T)
    BY <1>7, <1>8, <1>9, <1>10
  <2> QED BY <2>1, ConcatSet
<1>12. Children(st) = ab \o c
  BY <1>1, <1>4, <1>10 DEF Children
<1> QED BY <1>4, <1>5, <1>6, <1>8, <1>9, <1>10, <1>11, <1>12 DEF Owned

(* What was to be reached and is not a is still to be reached, when what   *)
(* a points at takes its place.                                            *)
LEMMA ReachStep ==
  ASSUME NEW n \in Nat, NEW links, Len(links) = n, NEW more, Len(more) = n,
         \A p \in 1 .. n : more[p] = links[p],
         NEW from, NEW to, NEW a \in 1 .. n, \A x \in from : x = a \/ x \in to,
         \A x \in links[a] : x \in to
  PROVE  \A s \in Reach(links, from) : s = a \/ s \in Reach(more, to)
<1>1. PICK R, Q : R = Reach(links, from) /\ Q = Reach(more, to)
  OBVIOUS
<1>2. /\ R \subseteq 1 .. n
      /\ \A s \in 1 .. n : s \in R <=> s \in from \/ \E p \in R : p < s /\ s \in links[p]
  BY <1>1, ReachIs
<1>3. /\ Q \subseteq 1 .. n
      /\ \A s \in 1 .. n : s \in Q <=> s \in to \/ \E p \in Q : p < s /\ s \in more[p]
  BY <1>1, ReachIs
<1>4. PICK T : T = {s \in R : s # a /\ s \notin Q}
  OBVIOUS
<1>5. CASE T # {}
  <2>1. T \subseteq Nat
    <3>1. ASSUME NEW x \in T PROVE x \in Nat
      <4>1. x \in 1 .. n
        BY <1>2, <1>4, <3>1
      <4> QED BY <4>1
    <3> QED BY <3>1
  <2>2. PICK x \in T : \A y \in T : x <= y
    BY <1>5, <2>1, Least
  <2>3. x \in 1 .. n /\ x \in R /\ x # a /\ x \notin Q
    BY <1>2, <1>4, <2>2
  <2>4. x \notin to
    BY <1>3, <2>3
  <2>5. PICK p \in R : p < x /\ x \in links[p]
    BY <1>2, <2>3, <2>4
  <2>6. p \in 1 .. n /\ p # a
    BY <1>2, <2>4, <2>5
  <2>7. p \notin T
    BY <2>2, <2>3, <2>5, <2>6
  <2>8. p \in Q
    BY <1>4, <2>5, <2>6, <2>7
  <2> QED BY <1>3, <2>3, <2>5, <2>6, <2>8
<1>6. CASE T = {}
  BY <1>1, <1>4, <1>6
<1> QED BY <1>5, <1>6

(* The target of a $ref is a struct of the tree.                           *)
LEMMA TargetIn ==
  ASSUME CompileTypeOK, TreeInv, NEW st, NEW t, t = RefTarget(st), t # 0
  PROVE  t \in 1 .. Len(heap) /\ Young(TreeRoot, t)
<1>1. Table(refData, Len(heap), TreeRoot)
  BY TableNow
<1>2. \A k : Found(k) # 0 => Found(k) \in 1 .. Len(heap) /\ Young(TreeRoot, Found(k))
  BY <1>1 DEF Found, Table
<1>3. PICK key : RefTarget(st) = IF Found(DecodeRef(key)) # 0 THEN Found(DecodeRef(key))
                                 ELSE Found(DecodeRef(st.ref))
  BY DEF RefTarget
<1> QED BY <1>2, <1>3

(* resolve_refs goes on with the children of the struct it visits.         *)
LEMMA AgendaNext ==
  ASSUME CompileTypeOK, TreeInv, phase = "resolve", agenda # <<>>, Young(TreeRoot, Head(agenda)),
         NEW next, next = Children(Visited) \o Tail(agenda)
  PROVE  /\ next \in Seq(1 .. Len(heap)) /\ \A j \in 1 .. Len(next) : Young(TreeRoot, next[j])
         /\ \A x \in ToSet(agenda) : x = Head(agenda) \/ x \in ToSet(next)
         /\ \A x \in Owned(Visited) \cup Wrapped(Visited) : x \in ToSet(next)
<1>1. heap \in Seq(Struct) /\ Len(heap) \in Nat /\ \A s \in 1 .. Len(heap) : heap[s] \in Struct
  BY HeapLength
<1>2. PICK n \in Nat : n = Len(heap)
  BY <1>1
<1>3. PICK S : S = 1 .. n
  OBVIOUS
<1>4. agenda \in Seq(S) /\ \A j \in 1 .. Len(agenda) : Young(TreeRoot, agenda[j])
  BY <1>2, <1>3 DEF CompileTypeOK, TreeInv, NamesInTree
<1>5. /\ Tail(agenda) \in Seq(S) /\ Len(agenda) \in Nat /\ Len(agenda) # 0
      /\ Len(Tail(agenda)) = Len(agenda) - 1 /\ Head(agenda) = agenda[1] /\ agenda[1] \in S
      /\ \A j \in 1 .. Len(agenda) - 1 : Tail(agenda)[j] = agenda[j + 1]
  BY <1>4, TailSeq
<1>6. PICK a \in 1 .. n : a = Head(agenda)
  BY <1>3, <1>5
<1>7. Visited = heap[a] /\ Visited \in Struct /\ Young(TreeRoot, a)
  BY <1>1, <1>2, <1>6 DEF Visited
<1>8. PICK kids, rest : kids = Children(Visited) /\ rest = Tail(agenda)
  OBVIOUS
<1>9. kids \in Seq(Nat) /\ ToSet(kids) = Owned(Visited) \cup Wrapped(Visited)
  BY <1>7, <1>8, ChildrenAre
<1>10. \A x \in ToSet(kids) : x \in S /\ Young(TreeRoot, x)
  <2>1. Sound(heap, HeldBy(root, ivar, frames), TreeRoot)
    BY Parts
  <2>2. SoundParts(heap, HeldBy(root, ivar, frames), TreeRoot, n)
    BY <1>2, <2>1, SoundIs
  <2>3. TreeRoot \in Nat
    <3>1. root \in Nat /\ ivar \in Nat
      BY <1>1 DEF CompileTypeOK
    <3> QED BY <3>1 DEF TreeRoot
  <2>4. ASSUME NEW x \in ToSet(kids) PROVE x \in S /\ Young(TreeRoot, x)
    <3>1. a < x /\ x \in 1 .. n
      BY <1>7, <1>9, <2>2, <2>4 DEF SoundParts
    <3> QED BY <1>3, <1>7, <2>3, <3>1 DEF Young
  <2> QED BY <2>4
<1>11. kids \in Seq(S)
  <2>1. Len(kids) \in Nat /\ \A j \in 1 .. Len(kids) : kids[j] \in ToSet(kids)
    BY <1>9 DEF ToSet
  <2>2. \A j \in 1 .. Len(kids) : kids[j] \in S
    BY <1>10, <2>1
  <2>3. PICK len \in Nat : len = Len(kids)
    BY <2>1
  <2>4. kids = [j \in 1 .. len |-> kids[j]]
    BY <1>9, <2>3
  <2>5. [j \in 1 .. len |-> kids[j]] \in Seq(S)
    BY <2>2, <2>3
  <2> QED BY <2>4, <2>5
<1>12. next \in Seq(S) /\ ToSet(next) = ToSet(kids) \cup ToSet(rest)
  BY <1>5, <1>8, <1>11, ConcatSet, ZenonT(40)
<1>13. \A x \in ToSet(rest) : Young(TreeRoot, x)
  <2>1. ASSUME NEW x \in ToSet(rest) PROVE Young(TreeRoot, x)
    <3>1. PICK j \in 1 .. Len(agenda) - 1 : x = rest[j]
      BY <1>5, <1>8, <2>1 DEF ToSet
    <3>2. x = agenda[j + 1] /\ j + 1 \in 1 .. Len(agenda)
      BY <1>5, <1>8, <3>1
    <3> QED BY <1>4, <3>2
  <2> QED BY <2>1
<1>14. \A j \in 1 .. Len(next) : Young(TreeRoot, next[j])
  <2>1. \A j \in 1 .. Len(next) : next[j] \in ToSet(next)
    <3>1. DOMAIN next = 1 .. Len(next)
      BY <1>12
    <3> QED BY <3>1 DEF ToSet
  <2> QED BY <1>10, <1>12, <1>13, <2>1
<1>15. ASSUME NEW x \in ToSet(agenda) PROVE x = Head(agenda) \/ x \in ToSet(next)
  <2>1. PICK j \in 1 .. Len(agenda) : x = agenda[j]
    BY <1>4, <1>15 DEF ToSet
  <2>2. CASE j = 1
    BY <1>5, <2>1, <2>2
  <2>3. CASE j # 1
    <3>1. PICK i \in 1 .. Len(agenda) - 1 : i + 1 = j
      BY <1>5, <2>1, <2>3
    <3>2. x = rest[i] /\ i \in 1 .. Len(rest)
      BY <1>5, <1>8, <2>1, <3>1
    <3>3. x \in ToSet(rest)
      BY <1>5, <1>8, <3>2 DEF ToSet
    <3> QED BY <1>12, <3>3
  <2> QED BY <2>2, <2>3
<1> QED BY <1>2, <1>3, <1>9, <1>12, <1>14, <1>15

LEMMA PointsIs ==
  ASSUME NEW n \in Nat, Len(heap) = n
  PROVE  /\ Points = LinksIn(heap) /\ Len(Points) = n
         /\ \A p \in 1 .. n : Points[p] = Owned(heap[p]) \cup Wrapped(heap[p])
<1>1. Points = LinksIn(heap)
  BY DEF Points, LinksIn
<1> QED BY <1>1, LinksInIs, LinksInLen

LEMMA PointsAfter ==
  ASSUME NEW n \in Nat, Len(heap') = n
  PROVE  /\ Points' = LinksIn(heap') /\ Len(Points') = n
         /\ \A p \in 1 .. n : (Points')[p] = Owned(heap'[p]) \cup Wrapped(heap'[p])
<1>1. Points' = LinksIn(heap')
  BY DEF Points, LinksIn
<1> QED BY <1>1, LinksInIs, LinksInLen

LEMMA ResolveKeeps ==
  ASSUME CompileTypeOK, TreeInv, ResolveRefs
  PROVE  CompileTypeOK' /\ TreeInv'
<1>1. phase = "resolve" /\ agenda # <<>> /\ (Visited.ref # NoUri => RefTarget(Visited) # 0)
  BY DEF ResolveRefs, Visiting
<1>2. /\ source' = source /\ phase' = phase /\ attempts' = attempts /\ frames' = frames
      /\ refData' = refData /\ root' = root /\ ivar' = ivar
      /\ agenda' = Children(Visited) \o Tail(agenda)
  BY DEF ResolveRefs
<1>3. root # 0 /\ frames = <<>> /\ TreeRoot = root /\ TreeRoot' = root
  BY <1>1, <1>2 DEF TreeInv, Phases, TreeRoot
<1>4. heap \in Seq(Struct) /\ Len(heap) \in Nat /\ \A s \in 1 .. Len(heap) : heap[s] \in Struct
  BY HeapLength
<1>5. PICK n \in Nat : n = Len(heap)
  BY <1>4
<1>6. PICK a \in 1 .. n : a = Head(agenda) /\ Young(root, a)
  <2>1. agenda \in Seq(1 .. n) /\ \A j \in 1 .. Len(agenda) : Young(root, agenda[j])
    BY <1>3, <1>5 DEF CompileTypeOK, TreeInv, NamesInTree
  <2>2. Len(agenda) \in Nat /\ Len(agenda) # 0 /\ Head(agenda) = agenda[1] /\ agenda[1] \in 1 .. n
    BY <1>1, <2>1, TailSeq
  <2>3. 1 \in 1 .. Len(agenda)
    BY <2>2
  <2> QED BY <2>1, <2>2, <2>3
<1>7. PICK old \in Struct : old = heap[a]
  BY <1>4, <1>5, <1>6
<1>8. Visited = old
  BY <1>6, <1>7 DEF Visited
<1>9. PICK t \in 0 .. n : /\ t = IF old.ref = NoUri THEN 0 ELSE RefTarget(old)
                          /\ old.ref # NoUri => t # 0
                          /\ t # 0 => Young(root, t)
  <2>1. PICK t : t = RefTarget(old)
    OBVIOUS
  <2>2. CASE old.ref = NoUri
    BY <2>2
  <2>3. CASE old.ref # NoUri
    <3>1. t # 0
      BY <1>1, <1>8, <2>1, <2>3
    <3>2. t \in 1 .. n /\ Young(root, t)
      BY <1>3, <1>5, <2>1, <3>1, TargetIn
    <3> QED BY <2>1, <2>3, <3>1, <3>2
  <2> QED BY <2>2, <2>3
<1>10. PICK st : st = [old EXCEPT !.refSchema = t]
  OBVIOUS
<1>11. /\ st \in Struct /\ SameLinks(old, st) /\ SameLife(old, st) /\ SameFields(old, st)
       /\ st.ref = old.ref /\ st.refSchema = t
  BY <1>9, <1>10, EditRef
<1>12. PICK h, g : h = heap /\ g = heap'
  OBVIOUS
<1>13. g = [h EXCEPT ![a] = st]
  <2>1. heap' = [heap EXCEPT ![Head(agenda)].refSchema =
                   IF Visited.ref = NoUri THEN 0 ELSE RefTarget(Visited)]
    BY DEF ResolveRefs
  <2>2. heap' = [heap EXCEPT ![a].refSchema = t]
    BY <1>6, <1>8, <1>9, <2>1
  <2> QED BY <1>4, <1>5, <1>6, <1>7, <1>10, <1>12, <2>2
<1>14. /\ g \in Seq(Struct) /\ Len(g) = n /\ g[a] = st
       /\ \A s \in 1 .. n : s # a => g[s] = h[s]
  BY <1>4, <1>5, <1>6, <1>11, <1>12, <1>13, HeapEdit
<1>15. \A s \in 1 .. n : /\ SameLinks(h[s], g[s]) /\ SameLife(h[s], g[s])
                         /\ SameFields(h[s], g[s]) /\ h[s].ref = g[s].ref
                         /\ g[s].refSchema = IF s = a THEN t ELSE h[s].refSchema
  <2>1. ASSUME NEW s \in 1 .. n, s # a
        PROVE  /\ SameLinks(h[s], g[s]) /\ SameLife(h[s], g[s])
               /\ SameFields(h[s], g[s]) /\ h[s].ref = g[s].ref
               /\ g[s].refSchema = h[s].refSchema
    BY <1>14, <2>1 DEF SameLinks, SameLife, SameFields
  <2> QED BY <1>7, <1>11, <1>12, <1>14, <2>1
<1>16. PICK next : next = agenda'
  OBVIOUS
<1>17. /\ next \in Seq(1 .. n) /\ \A j \in 1 .. Len(next) : Young(root, next[j])
       /\ \A x \in ToSet(agenda) : x = a \/ x \in ToSet(next)
       /\ \A x \in Owned(old) \cup Wrapped(old) : x \in ToSet(next)
  <2>1. /\ next \in Seq(1 .. Len(heap)) /\ \A j \in 1 .. Len(next) : Young(TreeRoot, next[j])
        /\ \A x \in ToSet(agenda) : x = Head(agenda) \/ x \in ToSet(next)
        /\ \A x \in Owned(Visited) \cup Wrapped(Visited) : x \in ToSet(next)
    <3>1. Young(TreeRoot, Head(agenda))
      BY <1>3, <1>6
    <3>2. next = Children(Visited) \o Tail(agenda)
      BY <1>2, <1>16
    <3> QED BY <1>1, <3>1, <3>2, AgendaNext
  <2> QED BY <1>3, <1>5, <1>6, <1>8, <2>1
<1>18. Phases'
  BY <1>1, <1>2, <1>3 DEF TreeInv, Phases
<1>19. FramesIn(frames', root, n) /\ WorkIn(frames', g) /\ Busy(frames') = {} /\ frames' \in Seq(Frame)
  BY <1>2, <1>3, NoFrames
<1>20. NamesIn(refData, agenda, h, n, root) /\ Sound(h, HeldBy(root, ivar, frames), root)
       /\ SlotsIn(h, n, root, Busy(frames))
  BY <1>3, <1>5, <1>12, Parts
<1>21. NamesIn(refData', next, g, n, root)
  <2>1. \A k \in DOMAIN refData' : Young(root, refData'[k])
    BY <1>2, <1>20 DEF NamesIn
  <2>2. ASSUME NEW s \in 1 .. n, Young(root, s), g[s].refSchema # 0
        PROVE  Young(root, g[s].refSchema) /\ g[s].refSchema <= n
    <3>1. CASE s = a
      BY <1>9, <1>15, <2>2, <3>1
    <3>2. CASE s # a
      BY <1>15, <1>20, <2>2, <3>2 DEF NamesIn
    <3> QED BY <3>1, <3>2
  <2> QED BY <1>17, <2>1, <2>2 DEF NamesIn
<1>22. Sound(g, HeldBy(root, ivar, frames), root)
  BY <1>5, <1>12, <1>14, <1>15, <1>20, EditSound
<1>23. SlotsIn(g, n, root, Busy(frames))
  BY <1>15, <1>20 DEF SlotsIn, SameFields
<1>24. Resolving'
  <2>1. \A s \in 1 .. n : Young(root, s) /\ h[s].ref # NoUri /\ h[s].refSchema = 0
          => s \in Reach(Points, ToSet(agenda))
    BY <1>1, <1>3, <1>5, <1>12 DEF TreeInv, Resolving
  <2>2. PICK links, more : links = Points /\ more = Points'
    OBVIOUS
  <2>3. Len(links) = n /\ \A p \in 1 .. n : links[p] = Owned(h[p]) \cup Wrapped(h[p])
    BY <1>5, <1>12, <2>2, PointsIs
  <2>4. Len(more) = n /\ \A p \in 1 .. n : more[p] = Owned(g[p]) \cup Wrapped(g[p])
    BY <1>12, <1>14, <2>2, PointsAfter
  <2>5. \A p \in 1 .. n : more[p] = links[p]
    <3>1. ASSUME NEW p \in 1 .. n
          PROVE  Owned(h[p]) = Owned(g[p]) /\ Wrapped(h[p]) = Wrapped(g[p])
      <4>1. SameLinks(h[p], g[p])
        BY <1>15
      <4> QED BY <4>1, LinksSame
    <3> QED BY <2>3, <2>4, <3>1
  <2>6. \A x \in links[a] : x \in ToSet(next)
    BY <1>7, <1>12, <1>17, <2>3
  <2>7. \A s \in Reach(links, ToSet(agenda)) : s = a \/ s \in Reach(more, ToSet(next))
    BY <1>17, <2>3, <2>4, <2>5, <2>6, ReachStep
  <2>8. ASSUME NEW s \in 1 .. n, Young(root, s), g[s].ref # NoUri, g[s].refSchema = 0
        PROVE  s \in Reach(more, ToSet(next))
    <3>1. s # a
      BY <1>7, <1>9, <1>12, <1>15, <2>8
    <3>2. h[s].ref # NoUri /\ h[s].refSchema = 0
      BY <1>15, <2>8, <3>1
    <3> QED BY <2>1, <2>2, <2>7, <2>8, <3>1, <3>2
  <2> QED BY <1>3, <1>12, <1>14, <1>16, <2>2, <2>8 DEF Resolving
<1>25. TreeInv'
  <2>1. n = Len(heap')
    BY <1>12, <1>14
  <2> QED BY <1>2, <1>3, <1>12, <1>16, <1>18, <1>19, <1>21, <1>22, <1>23, <1>24, <2>1, PartsAfter
<1>26. CompileTypeOK'
  <2>1. /\ attempts' \in 0 .. MaxAttempts /\ ivar' \in 0 .. n /\ root' \in 0 .. n
        /\ phase' \in {"idle", "compile", "resolve", "dropped"}
    BY <1>2, <1>5 DEF CompileTypeOK
  <2>2. \A k \in DOMAIN refData' : k \in UriType /\ refData'[k] \in 1 .. n
    BY <1>2, <1>5 DEF CompileTypeOK
  <2>3. n = Len(heap') /\ heap' \in Seq(Struct) /\ agenda' \in Seq(1 .. n)
    BY <1>12, <1>14, <1>16, <1>17
  <2> QED BY <1>2, <1>19, <2>1, <2>2, <2>3, TypeAfter
<1> QED BY <1>25, <1>26

(***************************************************************************)
(* The collector.                                                          *)
(***************************************************************************)
LEMMA OwnsIs ==
  ASSUME NEW n \in Nat, Len(heap) = n
  PROVE  Len(Owns) = n /\ \A p \in 1 .. n : Owns[p] = Owned(heap[p])
<1>1. PICK f : f = Owns
  OBVIOUS
<1>2. DOMAIN f = 1 .. n /\ f = [p \in 1 .. n |-> f[p]]
  BY <1>1 DEF Owns
<1>3. Len(f) = n
  BY <1>2, LengthIs
<1> QED BY <1>1, <1>3 DEF Owns

(* What a visit of wrapper w does to the structs h.                        *)
Visits(h, n, w, freed, g) ==
  /\ n \in Nat /\ h \in Seq(Struct) /\ Len(h) = n
  /\ g = [s \in 1 .. n |->
            [h[s] EXCEPT !.frees = IF s \in freed THEN @ + 1 ELSE @, !.swept = @ \/ s = w]]

LEMMA EditVisit ==
  ASSUME NEW h, NEW n, NEW w, NEW freed, NEW g, Visits(h, n, w, freed, g)
  PROVE  /\ g \in Seq(Struct) /\ Len(g) = n
         /\ \A s \in 1 .. n :
              /\ SameLinks(h[s], g[s]) /\ SameFields(h[s], g[s]) /\ Kept(h[s], g[s])
              /\ g[s].expose = h[s].expose
              /\ g[s].frees = IF s \in freed THEN h[s].frees + 1 ELSE h[s].frees
              /\ g[s].swept = (h[s].swept \/ s = w)
<1>1. n \in Nat /\ h \in Seq(Struct) /\ Len(h) = n
  BY DEF Visits
<1>2. ASSUME NEW s \in 1 .. n
      PROVE  /\ g[s] \in Struct
             /\ SameLinks(h[s], g[s]) /\ SameFields(h[s], g[s]) /\ Kept(h[s], g[s])
             /\ g[s].expose = h[s].expose
             /\ g[s].frees = IF s \in freed THEN h[s].frees + 1 ELSE h[s].frees
             /\ g[s].swept = (h[s].swept \/ s = w)
  <2>0. h[s] \in Struct
    <3>1. PICK H : H = Struct /\ h \in Seq(H)
      BY <1>1
    <3>2. h[s] \in H
      BY <1>1, <3>1
    <3> QED BY <3>1, <3>2
  <2>1. PICK old \in Struct : old = h[s]
    BY <2>0
  <2>2. PICK frees \in Nat : frees = IF s \in freed THEN old.frees + 1 ELSE old.frees
    <3>1. old.frees \in Nat
      BY <2>1, StructFacts
    <3> QED BY <3>1
  <2>3. PICK swept \in BOOLEAN : swept = (old.swept \/ s = w)
    OBVIOUS
  <2>4. PICK b : b = [old EXCEPT !.frees = frees, !.swept = swept]
    OBVIOUS
  <2>5. g[s] = b
    <3>1. g[s] = [old EXCEPT !.frees = IF s \in freed THEN @ + 1 ELSE @, !.swept = @ \/ s = w]
      BY <2>1 DEF Visits
    <3> QED BY <2>2, <2>3, <2>4, <3>1 DEF Struct
  <2>6. /\ b \in Struct /\ SameLinks(old, b) /\ SameFields(old, b) /\ Kept(old, b)
        /\ b.expose = old.expose /\ b.frees = frees /\ b.swept = swept
    <3>1. old \in Struct /\ frees \in Nat /\ swept \in BOOLEAN
      BY <2>1, <2>2, <2>3
    <3> QED BY <2>4, <3>1 DEF Struct, SameLinks, SameFields, Kept
  <2> QED BY <2>1, <2>2, <2>3, <2>5, <2>6
<1>3. PICK H : H = Struct
  OBVIOUS
<1>4. PICK f : f = g /\ DOMAIN f = 1 .. n /\ f = [s \in 1 .. n |-> f[s]]
  BY DEF Visits
<1>5. \A s \in 1 .. n : f[s] \in H
  BY <1>2, <1>3, <1>4
<1>6. [s \in 1 .. n |-> f[s]] \in Seq(H)
  BY <1>1, <1>5
<1>7. Len(f) = n
  BY <1>1, <1>4, LengthIs
<1> QED BY <1>2, <1>3, <1>4, <1>6, <1>7

LEMMA SweepKeeps ==
  ASSUME CompileTypeOK, TreeInv, Sweep
  PROVE  CompileTypeOK' /\ TreeInv'
<1>1. /\ source' = source /\ phase' = phase /\ attempts' = attempts /\ frames' = frames
      /\ refData' = refData /\ agenda' = agenda /\ root' = root /\ ivar' = ivar
  BY DEF Sweep
<1>2. heap \in Seq(Struct) /\ Len(heap) \in Nat /\ \A s \in 1 .. Len(heap) : heap[s] \in Struct
  BY HeapLength
<1>3. PICK n \in Nat : n = Len(heap)
  BY <1>2
<1>4. PICK h, g, held, r, owns :
        /\ h = heap /\ g = heap' /\ held = HeldBy(root, ivar, frames)
        /\ r = TreeRoot /\ owns = Owns
  OBVIOUS
<1>5. r \in Nat /\ TreeRoot' = r
  <2>1. root \in Nat /\ ivar \in Nat
    BY <1>2 DEF CompileTypeOK
  <2> QED BY <1>1, <1>4, <2>1 DEF TreeRoot
<1>6. PICK w \in Garbage :
        heap' = [s \in 1 .. Len(heap) |->
          [heap[s] EXCEPT !.frees = IF s \in FreedWith(w) THEN @ + 1 ELSE @, !.swept = @ \/ s = w]]
  BY DEF Sweep
<1>7. w \in 1 .. n /\ h[w].expose /\ ~h[w].swept /\ w \notin Reach(LinksIn(h), held)
  <2>1. Marked = Reach(LinksIn(h), held)
    <3>1. Points = LinksIn(h)
      BY <1>4 DEF Points, LinksIn
    <3>2. Rooted = held
      BY <1>4 DEF Rooted, HeldBy
    <3> QED BY <3>1, <3>2 DEF Marked
  <2> QED BY <1>3, <1>4, <1>6, <2>1 DEF Garbage
<1>8. FreedWith(w) = Reach(owns, {w}) /\ Len(owns) = n /\ \A p \in 1 .. n : owns[p] = Owned(h[p])
  BY <1>3, <1>4, OwnsIs DEF FreedWith
<1>9. Visits(h, n, w, Reach(owns, {w}), g)
  BY <1>2, <1>3, <1>4, <1>6, <1>8 DEF Visits
<1>10. /\ g \in Seq(Struct) /\ Len(g) = n
       /\ \A s \in 1 .. n :
            /\ SameLinks(h[s], g[s]) /\ SameFields(h[s], g[s]) /\ Kept(h[s], g[s])
            /\ g[s].expose = h[s].expose
            /\ g[s].frees = IF s \in Reach(owns, {w}) THEN h[s].frees + 1 ELSE h[s].frees
            /\ g[s].swept = (h[s].swept \/ s = w)
  BY <1>9, EditVisit
<1>11. /\ Phases /\ FramesIn(frames, r, n) /\ NamesIn(refData, agenda, h, n, r)
       /\ Sound(h, held, r) /\ WorkIn(frames, h) /\ SlotsIn(h, n, r, Busy(frames)) /\ Resolving
  BY <1>3, <1>4, Parts
<1>12. Phases'
  BY <1>1, <1>11 DEF Phases
<1>13. NamesIn(refData', agenda', g, n, r)
  BY <1>1, <1>10, <1>11 DEF NamesIn, Kept
<1>14. Sound(g, held, r)
  <2>1. \A s \in 1 .. n : h[s].frees \in Nat
    <3>1. ASSUME NEW s \in 1 .. n PROVE h[s].frees \in Nat
      <4>1. h[s] \in Struct
        BY <1>2, <1>3, <1>4
      <4> QED BY <4>1, StructFacts
    <3> QED BY <3>1
  <2>2. Len(h) = n
    BY <1>3, <1>4
  <2>3. Sweeps(h, g, n, held, r, w, owns)
    BY <1>5, <1>7, <1>8, <1>10, <1>11, <2>1, <2>2 DEF Sweeps
  <2> QED BY <2>3, SweepSound
<1>15. WorkIn(frames, g)
  <2>1. ASSUME NEW j \in 1 .. Len(frames) PROVE WorkOf(frames[j], g[frames[j].s])
    <3>1. WorkOf(frames[j], h[frames[j].s])
      BY <1>11 DEF WorkIn
    <3>2. frames[j].s \in 1 .. n
      <4>1. PICK F : F = Frame /\ frames \in Seq(F)
        BY DEF CompileTypeOK
      <4>2. frames[j] \in Frame
        BY <4>1
      <4>3. frames[j].s \in Nat /\ Young(r, frames[j].s) /\ frames[j].s <= n
        BY <1>11, <4>2, FrameFacts DEF FramesIn
      <4> QED BY <1>5, <4>3 DEF Young
    <3>3. SameFields(h[frames[j].s], g[frames[j].s])
      BY <1>10, <3>2
    <3> QED BY <3>1, <3>3, WorkSame
  <2> QED BY <2>1 DEF WorkIn
<1>16. SlotsIn(g, n, r, Busy(frames))
  BY <1>10, <1>11 DEF SlotsIn, SameFields
<1>17. Resolving'
  <2>1. PICK links, more : links = Points /\ more = Points'
    OBVIOUS
  <2>2. ASSUME NEW p \in 1 .. n
        PROVE  Owned(g[p]) \cup Wrapped(g[p]) = Owned(h[p]) \cup Wrapped(h[p])
    <3>1. SameLinks(h[p], g[p])
      BY <1>10
    <3> QED BY <3>1, LinksSame
  <2>3. links = [p \in 1 .. n |-> Owned(h[p]) \cup Wrapped(h[p])]
    BY <1>3, <1>4, <2>1 DEF Points
  <2>4. more = [p \in 1 .. n |-> Owned(g[p]) \cup Wrapped(g[p])]
    BY <1>4, <1>10, <2>1 DEF Points
  <2>5. more = links
    BY <2>2, <2>3, <2>4
  <2>6. \A s \in 1 .. n : g[s].ref = h[s].ref /\ g[s].refSchema = h[s].refSchema
    BY <1>10 DEF Kept
  <2>7. phase = "resolve" \/ ivar # 0 =>
          \A s \in 1 .. n : Young(r, s) /\ h[s].ref # NoUri /\ h[s].refSchema = 0
            => s \in Reach(links, ToSet(agenda))
    BY <1>3, <1>4, <1>11, <2>1 DEF Resolving
  <2>8. phase = "resolve" \/ ivar # 0 =>
          \A s \in 1 .. n : Young(r, s) /\ g[s].ref # NoUri /\ g[s].refSchema = 0
            => s \in Reach(more, ToSet(agenda))
    BY <2>5, <2>6, <2>7
  <2> QED BY <1>1, <1>4, <1>5, <1>10, <2>1, <2>8 DEF Resolving
<1>18. TreeInv'
  <2>1. n = Len(heap')
    BY <1>4, <1>10
  <2> QED BY <1>1, <1>4, <1>5, <1>11, <1>12, <1>13, <1>14, <1>15, <1>16, <1>17, <2>1, PartsAfter
<1>19. CompileTypeOK'
  <2>1. /\ attempts' \in 0 .. MaxAttempts /\ ivar' \in 0 .. n /\ root' \in 0 .. n
        /\ phase' \in {"idle", "compile", "resolve", "dropped"}
        /\ frames' \in Seq(Frame) /\ agenda' \in Seq(1 .. n)
    BY <1>1, <1>3 DEF CompileTypeOK
  <2>2. \A k \in DOMAIN refData' : k \in UriType /\ refData'[k] \in 1 .. n
    BY <1>1, <1>3 DEF CompileTypeOK
  <2>3. n = Len(heap') /\ heap' \in Seq(Struct)
    BY <1>4, <1>10
  <2> QED BY <1>1, <2>1, <2>2, <2>3, TypeAfter
<1> QED BY <1>18, <1>19

(***************************************************************************)
(* The invariant.                                                          *)
(***************************************************************************)
LEMMA TreesStart ==
  ASSUME CInit
  PROVE  CompileTypeOK /\ TreeInv
<1>1. /\ source \in Schemas /\ phase = "idle" /\ attempts = 0 /\ heap = <<>> /\ frames = <<>>
      /\ refData = NoRefData /\ agenda = <<>> /\ root = 0 /\ ivar = 0
  BY DEF CInit
<1>2. TreeRoot = 0 /\ Len(heap) = 0 /\ 1 .. 0 = {} /\ \A s : ~Young(0, s)
  BY <1>1 DEF TreeRoot, Young
<1>3. DOMAIN refData = {}
  BY <1>1 DEF NoRefData
<1>4. CompileTypeOK
  <2>1. heap \in Seq(Struct) /\ frames \in Seq(Frame)
    <3>1. PICK H, F : H = Struct /\ F = Frame
      OBVIOUS
    <3>2. <<>> \in Seq(H) /\ <<>> \in Seq(F)
      OBVIOUS
    <3> QED BY <1>1, <3>1, <3>2
  <2>2. 0 \in 0 .. MaxAttempts
    BY MaxAttemptsAssumption
  <2>3. agenda \in Seq(1 .. Len(heap))
    BY <1>1
  <2>4. root \in 0 .. Len(heap) /\ ivar \in 0 .. Len(heap)
    BY <1>1, <1>2
  <2> QED BY <1>1, <1>3, <2>1, <2>2, <2>3, <2>4 DEF CompileTypeOK
<1>5. Phases /\ Resolving
  BY <1>1, <1>3 DEF Phases, Resolving
<1>6. FramesIn(frames, 0, 0) /\ WorkIn(frames, heap) /\ Busy(frames) = {}
  BY <1>1, NoFrames
<1>7. NamesIn(refData, agenda, heap, 0, 0) /\ SlotsIn(heap, 0, 0, Busy(frames))
  <2>1. Len(agenda) = 0
    BY <1>1
  <2> QED BY <1>2, <1>3, <2>1 DEF NamesIn, SlotsIn
<1>8. Sound(heap, HeldBy(root, ivar, frames), 0)
  <2>1. Owners(heap)
    BY <1>2 DEF Owners
  <2>2. PICK held : held = HeldBy(root, ivar, frames)
    OBVIOUS
  <2>3. PICK n \in Nat : n = 0
    OBVIOUS
  <2>4. Len(heap) = n /\ 1 .. n = {}
    BY <1>2, <2>3
  <2>5. SoundParts(heap, held, 0, n)
    BY <2>1, <2>4 DEF SoundParts
  <2>6. Sound(heap, held, 0)
    BY <2>4, <2>5, SoundIs
  <2> QED BY <2>2, <2>6
<1> QED BY <1>2, <1>4, <1>5, <1>6, <1>7, <1>8, Parts

LEMMA TreesStay ==
  ASSUME CompileTypeOK, TreeInv, UNCHANGED cvars
  PROVE  CompileTypeOK' /\ TreeInv'
<1> USE DEF cvars
<1>1. CompileTypeOK'
  BY DEF CompileTypeOK
<1>2. TreeRoot' = TreeRoot
  BY DEF TreeRoot
<1>3. Phases'
  BY DEF TreeInv, Phases
<1>4. Resolving'
  <2>1. Points' = Points
    BY DEF Points
  <2> QED BY <1>2, <2>1 DEF TreeInv, Resolving
<1>5. PICK n, r : n = Len(heap) /\ r = TreeRoot
  OBVIOUS
<1>6. /\ FramesIn(frames, r, n) /\ NamesIn(refData, agenda, heap, n, r)
      /\ Sound(heap, HeldBy(root, ivar, frames), r)
      /\ WorkIn(frames, heap) /\ SlotsIn(heap, n, r, Busy(frames))
  BY <1>5, Parts
<1>7. n = Len(heap') /\ r = TreeRoot'
  BY <1>2, <1>5
<1>8. /\ FramesIn(frames', r, n) /\ NamesIn(refData', agenda', heap', n, r)
      /\ Sound(heap', HeldBy(root', ivar', frames'), r)
      /\ WorkIn(frames', heap') /\ SlotsIn(heap', n, r, Busy(frames'))
  BY <1>6
<1>9. TreeInv'
  BY <1>3, <1>4, <1>7, <1>8, PartsAfter
<1> QED BY <1>1, <1>9

LEMMA TreesKept ==
  ASSUME CompileTypeOK, TreeInv, [CNext]_cvars
  PROVE  CompileTypeOK' /\ TreeInv'
<1>1. CASE CompileStep
  <2>1. CASE CompileSchema
    BY <2>1, SchemaKeeps
  <2>2. CASE CompileLeaf
    BY <2>2, LeafKeeps
  <2>3. CASE CompileHash
    BY <2>3, HashKeeps
  <2>4. CASE CompileSingle
    BY <2>4, SingleKeeps
  <2>5. CASE AllocNested
    BY <2>5, AllocKeeps
  <2>6. CASE CompileNested
    BY <2>6, NestedKeeps
  <2>7. CASE CompileElement
    BY <2>7, ElementKeeps
  <2>8. CASE KeepElement
    BY <2>8, KeepKeeps
  <2>9. CASE KeyRaises \/ TypeRaises
    <3>1. phase = "compile" /\ Raise
      BY <2>9 DEF KeyRaises, TypeRaises, Pending, Compiling
    <3> QED BY <3>1, RaiseKeeps
  <2>10. CASE StoreList
    BY <2>10, StoreKeeps
  <2>11. CASE EndCompile
    BY <2>11, EndKeeps
  <2> QED BY <1>1, <2>1, <2>2, <2>3, <2>4, <2>5, <2>6, <2>7, <2>8, <2>9, <2>10, <2>11
       DEF CompileStep
<1>2. CASE ResolveStep
  <2>1. CASE ResolveRefs
    BY <2>1, ResolveKeeps
  <2>2. CASE RefRaises
    <3>1. phase = "resolve" /\ Raise
      BY <2>2 DEF RefRaises, Visiting
    <3> QED BY <3>1, RaiseKeeps
  <2>3. CASE Publish
    BY <2>3, PublishKeeps
  <2> QED BY <1>2, <2>1, <2>2, <2>3 DEF ResolveStep
<1>3. CASE Sweep
  BY <1>3, SweepKeeps
<1>4. CASE DropSchema
  BY <1>4, DropKeeps
<1>5. CASE Dropped \/ UNCHANGED cvars
  <2>1. UNCHANGED cvars
    BY <1>5 DEF Dropped
  <2> QED BY <2>1, TreesStay
<1> QED BY <1>1, <1>2, <1>3, <1>4, <1>5 DEF CNext

LEMMA TreesAlways == CSpec => [](CompileTypeOK /\ TreeInv)
<1>1. CInit => CompileTypeOK /\ TreeInv
  BY TreesStart
<1>2. CompileTypeOK /\ TreeInv /\ [CNext]_cvars => (CompileTypeOK /\ TreeInv)'
  BY TreesKept
<1> QED BY <1>1, <1>2, PTL DEF CSpec

(* The trees are sound and the frames' work adds up at every step of       *)
(* compile_schema, compile, resolve_refs and the collector.                *)
THEOREM TreesAreSound == CSpec => []TreeInv
BY TreesAlways, PTL

(* The structs, frames and tables have the fields and the ranges that      *)
(* compiled_schema.h and context.h declare.                                *)
THEOREM CompileTypes == CSpec => []CompileTypeOK
BY TreesAlways, PTL

(***************************************************************************)
(* What follows from it.                                                   *)
(***************************************************************************)
(* All that is rooted is of the tree in use, and so is all that is marked. *)
LEMMA MarkedIsYoung ==
  ASSUME CompileTypeOK, TreeInv
  PROVE  \A s \in Marked : Young(TreeRoot, s) /\ s \in 1 .. Len(heap)
<1>1. heap \in Seq(Struct) /\ Len(heap) \in Nat
  BY HeapLength
<1>2. PICK n, h, r, held :
        n = Len(heap) /\ h = heap /\ r = TreeRoot /\ held = HeldBy(root, ivar, frames)
  OBVIOUS
<1>3. r \in Nat
  <2>1. root \in Nat /\ ivar \in Nat
    BY <1>1 DEF CompileTypeOK
  <2> QED BY <1>2, <2>1 DEF TreeRoot
<1>4. Sound(h, held, r) /\ FramesIn(frames, r, n)
  BY <1>2, Parts
<1>5. ASSUME NEW w \in held PROVE Young(r, w)
  <2>1. w # 0 /\ (w = root \/ w = ivar \/ \E j \in 1 .. Len(frames) : w \in Wrappers(frames[j]))
    BY <1>2, <1>5, HeldIs
  <2>2. CASE w = root \/ w = ivar
    <3>1. root \in Nat /\ ivar \in Nat
      BY <1>1 DEF CompileTypeOK
    <3>2. w = r
      BY <1>2, <2>1, <2>2 DEF TreeInv, Phases, TreeRoot
    <3> QED BY <2>1, <2>2, <3>1, <3>2 DEF Young
  <2>3. CASE \E j \in 1 .. Len(frames) : w \in Wrappers(frames[j])
    <3>1. PICK j \in 1 .. Len(frames) : w \in Wrappers(frames[j])
      BY <2>3
    <3>2. frames[j] \in Frame
      <4>1. PICK F : F = Frame /\ frames \in Seq(F)
        BY DEF CompileTypeOK
      <4> QED BY <4>1
    <3>3. frames[j].s \in Nat /\ w \in Nat
      BY <3>1, <3>2, FrameFacts
    <3>4. Young(r, frames[j].s) /\ frames[j].s < w
      BY <1>4, <2>1, <3>1 DEF FramesIn
    <3> QED BY <1>3, <3>3, <3>4 DEF Young
  <2> QED BY <2>1, <2>2, <2>3
<1>6. \A s \in Reach(LinksIn(h), held) : Young(r, s) /\ s \in 1 .. n
  <2>1. n \in Nat /\ Len(h) = n
    BY <1>1, <1>2
  <2> QED BY <1>3, <1>4, <1>5, <2>1, MarkedYoung
<1>7. Marked = Reach(LinksIn(h), held)
  <2>1. Points = LinksIn(h)
    BY <1>2 DEF Points, LinksIn
  <2>2. Rooted = held
    BY <1>2 DEF Rooted, HeldBy
  <2> QED BY <2>1, <2>2 DEF Marked
<1> QED BY <1>2, <1>6, <1>7

(* No struct of the tree in use is freed.                                  *)
LEMMA YoungLive ==
  ASSUME CompileTypeOK, TreeInv
  PROVE  \A s \in 1 .. Len(heap) : Young(TreeRoot, s) => heap[s].frees = 0
BY DEF TreeInv, Sound

LEMMA TreeInvLive ==
  ASSUME CompileTypeOK, TreeInv
  PROVE  LiveStructs
<1>1. \A s \in 1 .. Len(heap) : Young(TreeRoot, s) => heap[s].frees = 0
  BY YoungLive
<1>2. \A s \in Marked : Young(TreeRoot, s) /\ s \in 1 .. Len(heap)
  BY MarkedIsYoung
<1>3. Len(heap) \in Nat
  BY HeapLength
<1>4. PICK frame : frame = {frames[j].s : j \in 1 .. Len(frames)}
  OBVIOUS
<1>5. \A s \in frame : s \in 1 .. Len(heap) /\ Young(TreeRoot, s)
  <2>1. ASSUME NEW j \in 1 .. Len(frames)
        PROVE  frames[j].s \in 1 .. Len(heap) /\ Young(TreeRoot, frames[j].s)
    <3>1. frames[j] \in Frame
      <4>1. PICK F : F = Frame /\ frames \in Seq(F)
        BY DEF CompileTypeOK
      <4> QED BY <4>1
    <3>2. frames[j].s \in Nat
      BY <3>1, FrameFacts
    <3>3. Young(TreeRoot, frames[j].s) /\ frames[j].s <= Len(heap)
      BY DEF TreeInv, FramesInTree
    <3>4. TreeRoot \in Nat
      <4>1. root \in Nat /\ ivar \in Nat
        BY <1>3 DEF CompileTypeOK
      <4> QED BY <4>1 DEF TreeRoot
    <3> QED BY <1>3, <3>2, <3>3, <3>4 DEF Young
  <2> QED BY <1>4, <2>1
<1>6. \A s \in ToSet(agenda) : s \in 1 .. Len(heap) /\ Young(TreeRoot, s)
  <2>1. agenda \in Seq(1 .. Len(heap)) /\ \A j \in 1 .. Len(agenda) : Young(TreeRoot, agenda[j])
    BY DEF CompileTypeOK, TreeInv, NamesInTree
  <2>2. DOMAIN agenda = 1 .. Len(agenda)
    BY <2>1
  <2> QED BY <2>1, <2>2 DEF ToSet
<1>7. \A k \in DOMAIN refData : refData[k] \in 1 .. Len(heap) /\ Young(TreeRoot, refData[k])
  BY TableNow DEF Table
<1>8. \A s \in Marked : heap[s].refSchema # 0 =>
        heap[s].refSchema \in 1 .. Len(heap) /\ Young(TreeRoot, heap[s].refSchema)
  <2>1. ASSUME NEW s \in Marked, heap[s].refSchema # 0
        PROVE  heap[s].refSchema \in 1 .. Len(heap) /\ Young(TreeRoot, heap[s].refSchema)
    <3>1. s \in 1 .. Len(heap) /\ heap[s] \in Struct
      BY <1>2, HeapLength
    <3>2. heap[s].refSchema \in Nat
      BY <3>1, StructFacts
    <3>3. Young(TreeRoot, heap[s].refSchema) /\ heap[s].refSchema <= Len(heap)
      BY <1>2, <2>1, <3>1 DEF TreeInv, NamesInTree
    <3> QED BY <1>3, <2>1, <3>2, <3>3
  <2> QED BY <2>1
<1>9. ASSUME NEW s \in Held PROVE heap[s].frees = 0
  <2>1. s # 0 /\ (s \in frame \/ s \in ToSet(agenda) \/ s \in {refData[k] : k \in DOMAIN refData}
                    \/ s \in Marked \/ s \in {heap[t].refSchema : t \in Marked})
    BY <1>4, <1>9 DEF Held
  <2>2. s \in 1 .. Len(heap) /\ Young(TreeRoot, s)
    BY <1>2, <1>5, <1>6, <1>7, <1>8, <2>1
  <2> QED BY <1>1, <2>2
<1> QED BY <1>9 DEF LiveStructs

(* Nothing the program can still reach is freed, however compile()         *)
(* interleaves with the collector, mark_compiled_schema and                *)
(* free_compiled_schema (compiled_schema.c).                               *)
THEOREM NothingLiveIsFreed == CSpec => []LiveStructs
<1>1. CompileTypeOK /\ TreeInv => LiveStructs
  BY TreeInvLive
<1> QED BY <1>1, TreesAlways, PTL

(* A struct is freed with its wrapper or with its owner, and an owner was  *)
(* created before what it owns.                                            *)
LEMMA OwnerOf ==
  ASSUME CompileTypeOK, TreeInv, NEW s \in 1 .. Len(heap), ~heap[s].expose
  PROVE  \E p \in 1 .. Len(heap) : p < s /\ s \in Owned(heap[p]) /\ heap[p].frees = heap[s].frees
<1>1. Len(heap) \in Nat
  BY HeapLength
<1>2. PICK n \in Nat : n = Len(heap)
  BY <1>1
<1>3. Sound(heap, HeldBy(root, ivar, frames), TreeRoot)
  BY Parts
<1>4. SoundParts(heap, HeldBy(root, ivar, frames), TreeRoot, n)
  BY <1>2, <1>3, SoundIs
<1>5. PICK p \in 1 .. n : s \in Owned(heap[p])
  BY <1>2, <1>4 DEF SoundParts, Owners
<1>6. p < s
  BY <1>4, <1>5 DEF SoundParts
<1>7. heap[s].frees = heap[p].frees
  BY <1>2, <1>4, <1>5 DEF SoundParts, Owners
<1> QED BY <1>2, <1>5, <1>6, <1>7

LEMMA WrapperFrees ==
  ASSUME CompileTypeOK, TreeInv, NEW s \in 1 .. Len(heap), heap[s].expose
  PROVE  heap[s].frees = IF heap[s].swept THEN 1 ELSE 0
BY DEF TreeInv, Sound, Owners

LEMMA FreedAtMostOnce ==
  ASSUME CompileTypeOK, TreeInv
  PROVE  \A s \in 1 .. Len(heap) : heap[s].frees <= 1
<1>1. Len(heap) \in Nat
  BY HeapLength
<1>2. PICK T : T = {s \in 1 .. Len(heap) : ~(heap[s].frees <= 1)}
  OBVIOUS
<1>3. CASE T # {}
  <2>1. T \subseteq Nat
    <3>1. ASSUME NEW s \in T PROVE s \in Nat
      <4>1. s \in 1 .. Len(heap)
        BY <1>2, <3>1
      <4> QED BY <1>1, <4>1
    <3> QED BY <3>1
  <2>2. PICK s \in T : \A t \in T : s <= t
    BY <1>3, <2>1, Least
  <2>3. s \in 1 .. Len(heap) /\ ~(heap[s].frees <= 1)
    BY <1>2, <2>2
  <2>4. CASE heap[s].expose
    <3>1. heap[s].frees = 0 \/ heap[s].frees = 1
      BY <2>3, <2>4, WrapperFrees
    <3> QED BY <2>3, <3>1
  <2>5. CASE ~heap[s].expose
    <3>1. PICK p \in 1 .. Len(heap) : p < s /\ heap[p].frees = heap[s].frees
      BY <2>3, <2>5, OwnerOf
    <3>2. p \in T
      BY <1>2, <2>3, <3>1
    <3>3. s <= p
      BY <2>2, <3>2
    <3> QED BY <1>1, <2>3, <3>1, <3>3
  <2> QED BY <2>4, <2>5
<1>4. CASE T = {}
  BY <1>2, <1>4
<1> QED BY <1>3, <1>4

(* What the program holds leads on to what that points at.                 *)
LEMMA MarkedOn ==
  ASSUME CompileTypeOK, NEW p \in Marked, NEW s \in 1 .. Len(heap),
         s \in Owned(heap[p]) \cup Wrapped(heap[p]), p < s
  PROVE  s \in Marked
<1>1. Len(heap) \in Nat
  BY HeapLength
<1>2. PICK n \in Nat, links \in {Points}, from \in {Rooted} : n = Len(heap)
  BY <1>1
<1>3. Len(links) = n /\ \A q \in 1 .. n : links[q] = Owned(heap[q]) \cup Wrapped(heap[q])
  BY <1>2, PointsIs
<1>4. Marked = Reach(links, from)
  BY <1>2 DEF Marked
<1>5. /\ Reach(links, from) \subseteq 1 .. n
      /\ \A t \in 1 .. n : t \in Reach(links, from) <=>
           t \in from \/ \E q \in Reach(links, from) : q < t /\ t \in links[q]
  BY <1>3, ReachIs
<1>6. p \in 1 .. n /\ s \in links[p]
  BY <1>3, <1>4, <1>5
<1> QED BY <1>2, <1>4, <1>5, <1>6

LEMMA NoneLeft ==
  ASSUME CompileTypeOK, TreeInv, Garbage = {}
  PROVE  \A s \in 1 .. Len(heap) : s \in Marked \/ heap[s].frees = 1
<1>1. Len(heap) \in Nat
  BY HeapLength
<1>2. PICK T : T = {s \in 1 .. Len(heap) : s \notin Marked /\ heap[s].frees # 1}
  OBVIOUS
<1>3. CASE T # {}
  <2>1. T \subseteq Nat
    <3>1. ASSUME NEW s \in T PROVE s \in Nat
      <4>1. s \in 1 .. Len(heap)
        BY <1>2, <3>1
      <4> QED BY <1>1, <4>1
    <3> QED BY <3>1
  <2>2. PICK s \in T : \A t \in T : s <= t
    BY <1>3, <2>1, Least
  <2>3. s \in 1 .. Len(heap) /\ s \notin Marked /\ heap[s].frees # 1
    BY <1>2, <2>2
  <2>4. CASE heap[s].expose
    <3>1. heap[s].swept
      BY <2>3, <2>4 DEF Garbage
    <3> QED BY <2>3, <2>4, <3>1, WrapperFrees
  <2>5. CASE ~heap[s].expose
    <3>1. PICK p \in 1 .. Len(heap) :
            p < s /\ s \in Owned(heap[p]) /\ heap[p].frees = heap[s].frees
      BY <2>3, <2>5, OwnerOf
    <3>2. p \notin T
      <4>1. p \in T => s <= p
        BY <2>2
      <4> QED BY <1>1, <2>3, <3>1, <4>1
    <3>3. p \in Marked
      BY <1>2, <2>3, <3>1, <3>2
    <3> QED BY <2>3, <3>1, <3>3, MarkedOn
  <2> QED BY <2>4, <2>5
<1>4. CASE T = {}
  BY <1>2, <1>4
<1> QED BY <1>3, <1>4

(* Every struct is freed exactly once: by the visit of its own wrapper or  *)
(* of the wrapper of the schema it belongs to, never by both, and none is  *)
(* left over when the collector is done (free_compiled_schema).            *)
THEOREM EachFreedOnce == CSpec => []FreedOnce
<1>1. CompileTypeOK /\ TreeInv => FreedOnce
  BY FreedAtMostOnce, NoneLeft DEF FreedOnce
<1> QED BY <1>1, TreesAlways, PTL

(* compile_nested_schemas fills exactly the slots it counted.              *)
THEOREM SlotsFit == CSpec => []NestedFits
<1>1. ASSUME CompileTypeOK, TreeInv PROVE NestedFits
  <2>1. ASSUME NEW s \in 1 .. Len(heap)
        PROVE  Len(heap[s].nested) <= heap[s].slots
    BY <1>1 DEF TreeInv, SlotsFilled
  <2>2. ASSUME NEW s \in 1 .. Len(heap), ivar # 0, s \in Marked
        PROVE  Len(heap[s].nested) = heap[s].slots
    <3>1. root = 0
      BY <1>1, <2>2 DEF TreeInv, Phases
    <3>2. phase # "compile"
      BY <1>1, <3>1 DEF TreeInv, Phases
    <3>3. frames = <<>>
      BY <1>1, <3>2 DEF TreeInv, Phases
    <3>4. 1 .. Len(frames) = {}
      BY <3>3
    <3>5. Young(TreeRoot, s)
      BY <1>1, <2>2, MarkedIsYoung
    <3> QED BY <1>1, <3>4, <3>5 DEF TreeInv, SlotsFilled
  <2> QED BY <2>1, <2>2 DEF NestedFits
<1> QED BY <1>1, TreesAlways, PTL

LEMMA NothingReached ==
  ASSUME NEW n \in Nat, NEW links, Len(links) = n
  PROVE  \A s \in Reach(links, {}) : FALSE
<1>1. PICK R : R = Reach(links, {})
  OBVIOUS
<1>2. /\ R \subseteq 1 .. n
      /\ \A s \in 1 .. n : s \in R <=> s \in {} \/ \E p \in R : p < s /\ s \in links[p]
  BY <1>1, ReachIs
<1>3. ASSUME NEW t \in R PROVE FALSE
  <2>1. \A s \in R : s \in Nat
    BY <1>2
  <2>2. R \subseteq Nat /\ R # {}
    BY <1>3, <2>1
  <2>3. PICK s \in R : \A u \in R : s <= u
    BY <2>2, Least
  <2>4. s \in 1 .. n
    BY <1>2, <2>3
  <2>5. PICK p \in R : p < s
    BY <1>2, <2>3, <2>4
  <2>6. p \in Nat /\ s \in Nat /\ s <= p
    BY <2>1, <2>3, <2>5
  <2> QED BY <2>5, <2>6
<1> QED BY <1>1, <1>3

(* resolve_refs leaves no $ref of a published schema unset or dangling.    *)
THEOREM PublishedIsComplete == CSpec => []PublishedComplete
<1>1. ASSUME CompileTypeOK, TreeInv PROVE PublishedComplete
  <2>1. SUFFICES ASSUME ivar # 0, NEW s \in Refs PROVE heap[s].refSchema \in Tree
    BY DEF PublishedComplete
  <2>2. root = 0 /\ phase \notin {"compile", "resolve"} /\ agenda = <<>> /\ TreeRoot = ivar
    <3>1. root = 0
      BY <1>1, <2>1 DEF TreeInv, Phases
    <3>2. phase \notin {"compile", "resolve"}
      BY <1>1, <3>1 DEF TreeInv, Phases
    <3>3. agenda = <<>>
      BY <1>1, <3>2 DEF TreeInv, Phases
    <3> QED BY <3>1, <3>2, <3>3 DEF TreeRoot
  <2>3. Len(heap) \in Nat /\ ivar \in 1 .. Len(heap)
    BY <1>1, <2>1, HeapLength DEF CompileTypeOK
  <2>4. s \in ivar .. Len(heap) /\ heap[s].ref # NoUri
    BY <2>1, <2>2 DEF Refs, Tree
  <2>5. s \in 1 .. Len(heap) /\ Young(TreeRoot, s)
    BY <2>1, <2>2, <2>3, <2>4 DEF Young
  <2>6. heap[s].refSchema # 0
    <3>1. ToSet(agenda) = {}
      <4>1. DOMAIN <<>> = {}
        OBVIOUS
      <4> QED BY <2>2, <4>1 DEF ToSet
    <3>2. s \notin Reach(Points, {})
      <4>1. PICK n \in Nat, links \in {Points} : n = Len(heap)
        BY <2>3
      <4>2. Len(links) = n /\ \A p \in 1 .. n : links[p] = Owned(heap[p]) \cup Wrapped(heap[p])
        BY <4>1, PointsIs
      <4>3. \A t \in Reach(links, {}) : FALSE
        BY <4>2, NothingReached
      <4> QED BY <4>1, <4>3
    <3> QED BY <1>1, <2>1, <2>4, <2>5, <3>1, <3>2 DEF TreeInv, Resolving
  <2>7. heap[s].refSchema \in Nat
    BY <1>1, <2>5, HeapLength, StructFacts
  <2>8. Young(TreeRoot, heap[s].refSchema) /\ heap[s].refSchema <= Len(heap)
    BY <1>1, <2>5, <2>6 DEF TreeInv, NamesInTree
  <2>9. PICK t \in Nat : t = heap[s].refSchema
    BY <2>7
  <2>10. t \in ivar .. Len(heap) /\ t \in 1 .. Len(heap) /\ Young(TreeRoot, t)
    BY <2>2, <2>3, <2>6, <2>8, <2>9 DEF Young
  <2>11. heap[t].frees = 0
    BY <1>1, <2>10, YoungLive
  <2> QED BY <2>1, <2>2, <2>9, <2>10, <2>11 DEF Tree
<1> QED BY <1>1, TreesAlways, PTL

-----------------------------------------------------------------------------
(***************************************************************************)
(* Trees and their roots.                                                  *)
(***************************************************************************)
LinksOf(st) == Owned(st) \cup Wrapped(st)

(* The structs h with c changed and those past n new: g.                   *)
Extended(h, n, c, g, m) ==
  /\ n \in Nat /\ m \in Nat /\ n <= m /\ (n = 0 => m = 0) /\ Len(h) = n /\ Len(g) = m
  /\ \A s \in 1 .. n : g[s].loc = h[s].loc /\ (s # c => LinksOf(g[s]) = LinksOf(h[s]))
  /\ \A s \in n + 1 .. m : g[s].loc # <<>> /\ LinksOf(g[s]) = {}

(* No struct is freed.                                                     *)
Spared(h, n, g, m) ==
  /\ \A s \in 1 .. n : g[s].frees = h[s].frees
  /\ \A s \in n + 1 .. m : g[s].frees = 0

LEMMA UncrossedIs ==
  ASSUME NEW h, NEW n \in Nat, Len(h) = n, NEW r
  PROVE  Uncrossed(LinksIn(h), r) <=>
           \A p \in 1 .. n : \A s \in LinksOf(h[p]) : r <= s => r <= p
<1>1. /\ DOMAIN LinksIn(h) = 1 .. n
      /\ \A p \in 1 .. n : LinksIn(h)[p] = LinksOf(h[p])
  BY LinksInIs DEF LinksOf
<1> QED BY <1>1 DEF Uncrossed

LEMMA RootsType ==
  ASSUME CompileTypeOK
  PROVE  Roots \subseteq Nat /\ Roots \subseteq 1 .. Len(heap) /\ Len(heap) \in Nat
BY HeapLength DEF Roots

LEMMA SameRoots ==
  ASSUME NEW n, NEW c, NEW m, Extended(heap, n, c, heap', m)
  PROVE  Roots' = Roots
BY DEF Extended, Roots

LEMMA ExtendedApart ==
  ASSUME CompileTypeOK, heap' \in Seq(Struct), TreesApart,
         NEW n, NEW c, NEW m, Extended(heap, n, c, heap', m),
         c \in Nat, \A r \in Roots : r <= c,
         TreeRoot' = 0 \/ TreeRoot' = TreeRoot, root' # 0 => attempts' > 0
  PROVE  TreesApart'
<1>1. Roots' = Roots /\ Roots \subseteq Nat /\ Roots \subseteq 1 .. n
  BY SameRoots, RootsType DEF Extended
<1>2. n \in Nat /\ m \in Nat /\ n <= m /\ Len(heap) = n /\ Len(heap') = m
  BY DEF Extended
<1>3. ASSUME NEW r \in Roots PROVE Uncrossed(LinksIn(heap'), r)
  <2>1. \A p \in 1 .. n : \A s \in LinksOf(heap[p]) : r <= s => r <= p
    BY <1>2, UncrossedIs DEF TreesApart
  <2>2. ASSUME NEW p \in 1 .. m, NEW s \in LinksOf(heap'[p]), r <= s PROVE r <= p
    <3>1. CASE p \in 1 .. n /\ p # c
      BY <2>1, <2>2, <3>1 DEF Extended
    <3>2. CASE p = c
      BY <3>2
    <3>3. CASE p \in n + 1 .. m
      BY <2>2, <3>3 DEF Extended
    <3> QED BY <1>2, <3>1, <3>2, <3>3
  <2> QED BY <1>2, <2>2, UncrossedIs
<1>4. heap' # <<>> => 1 \in Roots'
  <2>1. heap = <<>> \/ 1 \in Roots
    BY DEF TreesApart
  <2>2. CASE heap = <<>>
    <3>1. n = 0 /\ m = 0
      BY <1>2, <2>2 DEF Extended
    <3>2. heap' \in Seq(Struct)
      OBVIOUS
    <3> QED BY <1>2, <3>1, <3>2, EmptySeq
  <2> QED BY <1>1, <2>1, <2>2
<1>5. TreeRoot' # 0 => TreeRoot' \in Roots' /\ \A r \in Roots' : r <= TreeRoot'
  BY <1>1 DEF TreesApart
<1>6. \A r \in Roots' : Uncrossed(LinksIn(heap'), r)
  BY <1>1, <1>3
<1> QED BY <1>4, <1>5, <1>6 DEF TreesApart

LEMMA SameFreed ==
  ASSUME CompileTypeOK, NEW n, NEW c, NEW m,
         Extended(heap, n, c, heap', m), Spared(heap, n, heap', m)
  PROVE  FreedTrees' = FreedTrees
<1>1. Roots' = Roots
  BY SameRoots
<1>2. \A r, s : RootOf(r, s)' <=> RootOf(r, s)
  BY <1>1 DEF RootOf
<1>3. n \in Nat /\ m \in Nat /\ n <= m /\ Len(heap) = n /\ Len(heap') = m
  BY DEF Extended
<1>4. \A s : s \in 1 .. m /\ heap'[s].frees > 0 <=> s \in 1 .. n /\ heap[s].frees > 0
  BY <1>3 DEF Spared
<1> QED BY <1>1, <1>2, <1>3, <1>4 DEF FreedTrees

(* What the object's users see is the same.                                *)
Unseen ==
  /\ Roots' = Roots /\ FreedTrees' = FreedTrees
  /\ root' = root /\ ivar' = ivar /\ attempts' = attempts
  /\ phase' = "dropped" <=> phase = "dropped"

LEMMA UnseenStutters ==
  ASSUME Unseen
  PROVE  UNCHANGED Outside!vars
BY DEF Unseen, Outside!vars

(* A step that changes one struct, and perhaps creates another.            *)
Builds(c) ==
  \E m : Extended(heap, Len(heap), c, heap', m) /\ Spared(heap, Len(heap), heap', m)

LEMMA EditAny ==
  ASSUME CompileTypeOK, NEW c \in 1 .. Len(heap), NEW st, NEW g, g = [heap EXCEPT ![c] = st],
         NEW H, H = Struct \cup {st}
  PROVE  /\ g \in Seq(H) /\ Len(g) = Len(heap) /\ g[c] = st
         /\ \A s \in 1 .. Len(heap) : s # c => g[s] = heap[s]
<1>1. PICK T : T = Struct /\ heap \in Seq(T)
  BY DEF CompileTypeOK
<1>2. heap \in Seq(H) /\ st \in H
  BY <1>1
<1> QED BY <1>2, ExceptSeq

LEMMA EditBuilds ==
  ASSUME CompileTypeOK, NEW c \in 1 .. Len(heap), NEW st, heap' = [heap EXCEPT ![c] = st],
         st.loc = heap[c].loc, st.frees = heap[c].frees
  PROVE  Builds(c)
<1>1. heap \in Seq(Struct) /\ Len(heap) \in Nat
  BY HeapLength
<1>2. Len(heap') = Len(heap) /\ heap'[c] = st /\ \A s \in 1 .. Len(heap) : s # c => heap'[s] = heap[s]
  BY EditAny
<1>3. Extended(heap, Len(heap), c, heap', Len(heap))
  BY <1>1, <1>2 DEF Extended
<1>4. Spared(heap, Len(heap), heap', Len(heap))
  BY <1>1, <1>2 DEF Spared
<1> QED BY <1>3, <1>4 DEF Builds

LEMMA GrowBuilds ==
  ASSUME CompileTypeOK, NEW c \in 1 .. Len(heap), NEW st, NEW child,
         heap' = Append([heap EXCEPT ![c] = st], child),
         st.loc = heap[c].loc, st.frees = heap[c].frees,
         child.loc # <<>>, child.frees = 0, LinksOf(child) = {}
  PROVE  Builds(c)
<1>1. heap \in Seq(Struct) /\ Len(heap) \in Nat
  BY HeapLength
<1>2. PICK n \in Nat : n = Len(heap)
  BY <1>1
<1>3. /\ Len(heap') = n + 1 /\ heap'[c] = st /\ heap'[n + 1] = child
      /\ \A s \in 1 .. n : s # c => heap'[s] = heap[s]
  <2>1. PICK e : e = [heap EXCEPT ![c] = st]
    OBVIOUS
  <2>2. PICK H : H = Struct \cup {st}
    OBVIOUS
  <2>3. /\ e \in Seq(H) /\ Len(e) = n /\ e[c] = st
        /\ \A s \in 1 .. n : s # c => e[s] = heap[s]
    <3>1. e \in Seq(H)
      BY <2>1, <2>2, EditAny
    <3>2. Len(e) = Len(heap) /\ e[c] = st
      BY <2>1, <2>2, EditAny
    <3>3. \A s \in 1 .. Len(heap) : s # c => e[s] = heap[s]
      BY <2>1, <2>2, EditAny
    <3> QED BY <1>2, <3>1, <3>2, <3>3
  <2>4. PICK K : K = H \cup {child}
    OBVIOUS
  <2>5. e \in Seq(K) /\ child \in K
    BY <2>3, <2>4
  <2>6. /\ Len(heap') = n + 1 /\ heap'[n + 1] = child
        /\ \A s \in 1 .. n : heap'[s] = e[s]
    BY <2>1, <2>3, <2>5, AppendSeq
  <2> QED BY <1>2, <2>3, <2>6
<1>4. Extended(heap, n, c, heap', n + 1)
  BY <1>2, <1>3 DEF Extended
<1>5. Spared(heap, n, heap', n + 1)
  BY <1>2, <1>3 DEF Spared
<1> QED BY <1>2, <1>4, <1>5 DEF Builds

LEMMA SameBuilds ==
  ASSUME CompileTypeOK, heap' = heap, NEW c
  PROVE  Builds(c)
<1>1. Len(heap) \in Nat
  BY HeapLength
<1>2. Extended(heap, Len(heap), c, heap', Len(heap)) /\ Spared(heap, Len(heap), heap', Len(heap))
  BY <1>1 DEF Extended, Spared
<1> QED BY <1>2 DEF Builds

LEMMA LeafBuilds ==
  ASSUME CompileTypeOK, TreeInv, CompileLeaf
  PROVE  Builds(Top.s)
<1>1. phase = "compile"
  BY DEF CompileLeaf, Compiling
<1>2. Cur \in Struct /\ Cur = heap[Top.s] /\ Top.s \in 1 .. Len(heap)
  BY <1>1, InCompile
<1>3. PICK st : st = [Cur EXCEPT !.fn =
                        IF Shape(Cur.val) = "false" THEN "false_validate" ELSE "no_op_validate"]
  OBVIOUS
<1>4. st.loc = Cur.loc /\ st.frees = Cur.frees
  BY <1>2, <1>3 DEF Struct
<1>5. heap' = [heap EXCEPT ![Top.s] = st]
  BY <1>2, <1>3 DEF CompileLeaf
<1> QED BY <1>2, <1>4, <1>5, EditBuilds

LEMMA HashBuilds ==
  ASSUME CompileTypeOK, TreeInv, CompileHash
  PROVE  Builds(Top.s)
<1>1. phase = "compile"
  BY DEF CompileHash, Compiling
<1>2. Cur \in Struct /\ Cur = heap[Top.s] /\ Top.s \in 1 .. Len(heap)
  BY <1>1, InCompile
<1>3. PICK id, ref, rid, rref, scope :
        heap' = [heap EXCEPT ![Top.s] =
          [@ EXCEPT !.fn = "validate", !.id = id, !.ref = ref,
                    !.resolvedId = rid, !.resolvedRef = rref, !.scope = scope]]
  BY DEF CompileHash
<1>4. PICK st : st = [Cur EXCEPT !.fn = "validate", !.id = id, !.ref = ref,
                    !.resolvedId = rid, !.resolvedRef = rref, !.scope = scope]
  OBVIOUS
<1>5. st.loc = Cur.loc /\ st.frees = Cur.frees
  BY <1>2, <1>4 DEF Struct
<1>6. heap' = [heap EXCEPT ![Top.s] = st]
  BY <1>2, <1>3, <1>4
<1> QED BY <1>2, <1>5, <1>6, EditBuilds

LEMMA AllocBuilds ==
  ASSUME CompileTypeOK, TreeInv, AllocNested
  PROVE  Builds(Top.s)
<1>1. Cur \in Struct /\ Cur = heap[Top.s] /\ Top.s \in 1 .. Len(heap)
  BY PendingFacts DEF AllocNested
<1>2. PICK st : st = [Cur EXCEPT !.slots = NestedTotal(Cur.val)]
  OBVIOUS
<1>3. st.loc = Cur.loc /\ st.frees = Cur.frees
  BY <1>1, <1>2 DEF Struct
<1>4. heap' = [heap EXCEPT ![Top.s] = st]
  BY <1>1, <1>2 DEF AllocNested
<1> QED BY <1>1, <1>3, <1>4, EditBuilds

LEMMA StoreBuilds ==
  ASSUME CompileTypeOK, TreeInv, StoreList
  PROVE  Builds(Top.s)
<1>1. Cur \in Struct /\ Cur = heap[Top.s] /\ Top.s \in 1 .. Len(heap)
  BY PendingFacts DEF StoreList
<1>2. PICK st : st = [Cur EXCEPT !.lists[Head(Top.jobs).kw] = Top.kept]
  OBVIOUS
<1>3. st.loc = Cur.loc /\ st.frees = Cur.frees
  BY <1>1, <1>2 DEF Struct
<1>4. heap' = [heap EXCEPT ![Top.s] = st]
  BY <1>1, <1>2 DEF StoreList
<1> QED BY <1>1, <1>3, <1>4, EditBuilds

LEMMA EndBuilds ==
  ASSUME CompileTypeOK, TreeInv, EndCompile
  PROVE  Builds(Top.s)
<1>1. phase = "compile"
  BY DEF EndCompile, Compiling
<1>2. Cur \in Struct /\ Cur = heap[Top.s] /\ Top.s \in 1 .. Len(heap)
  BY <1>1, InCompile
<1>3. PICK st : st = [Cur EXCEPT !.format = Format(Cur.val), !.typeFn = TypeFn(Cur.val),
                 !.flags = TypeFlags(Cur.val),
                 !.fn = IF Cur.ref # NoUri THEN "validate_ref" ELSE Cur.fn]
  OBVIOUS
<1>4. st.loc = Cur.loc /\ st.frees = Cur.frees
  BY <1>2, <1>3 DEF Struct
<1>5. heap' = [heap EXCEPT ![Top.s] = st]
  BY <1>2, <1>3 DEF EndCompile
<1> QED BY <1>2, <1>4, <1>5, EditBuilds

LEMMA ResolveBuilds ==
  ASSUME CompileTypeOK, ResolveRefs
  PROVE  Head(agenda) \in 1 .. Len(heap) /\ Builds(Head(agenda))
<1>1. agenda # <<>> /\ agenda \in Seq(1 .. Len(heap)) /\ Len(heap) \in Nat /\ heap \in Seq(Struct)
  BY HeapLength DEF ResolveRefs, Visiting, CompileTypeOK
<1>2. PICK c \in 1 .. Len(heap) : c = Head(agenda)
  BY <1>1
<1>3. heap[c] \in Struct
  BY <1>1, HeapLength
<1>4. PICK t : heap' = [heap EXCEPT ![c].refSchema = t]
  BY <1>2 DEF ResolveRefs
<1>5. PICK st : st = [heap[c] EXCEPT !.refSchema = t]
  OBVIOUS
<1>6. st.loc = heap[c].loc /\ st.frees = heap[c].frees
  BY <1>3, <1>5 DEF Struct
<1>7. heap' = [heap EXCEPT ![c] = st]
  BY <1>4, <1>5
<1> QED BY <1>2, <1>6, <1>7, EditBuilds

LEMMA ChildBuilds ==
  ASSUME CompileTypeOK, TreeInv, NEW do, Pending(do), do \in {"single", "element", "nested"},
         NEW expose, expose \in BOOLEAN, NEW st, st.loc = Cur.loc, st.frees = Cur.frees,
         heap' = Append([heap EXCEPT ![Top.s] = st], Child(Top.jobs[1], expose))
  PROVE  Builds(Top.s)
<1>1. /\ Cur \in Struct /\ Cur = heap[Top.s] /\ Top.s \in 1 .. Len(heap)
      /\ WellMade(Top.jobs[1]) /\ Top.jobs[1].do = do
  BY PendingFacts
<1>2. PICK child : child = Child(Top.jobs[1], expose)
  OBVIOUS
<1>3. Owned(child) = {} /\ Wrapped(child) = {} /\ child.frees = 0
  <2>1. PICK pointer \in Seq(STRING) : TRUE
    <3>1. PICK S : S = STRING
      OBVIOUS
    <3>2. <<>> \in Seq(S)
      OBVIOUS
    <3> QED BY <3>1, <3>2
  <2>2. PICK new : new = NewFrame(Next1, Top.base, pointer, Top.home)
    OBVIOUS
  <2>3. Fresh(child, new)
    BY <1>2, <2>1, <2>2, ChildFresh
  <2> QED BY <2>3 DEF Fresh
<1>4. child.loc # <<>>
  <2>1. Top.jobs[1].keys \in Seq(STRING) /\ Top.jobs[1].keys # <<>>
    BY <1>1 DEF WellMade, JobType
  <2>2. PICK keys \in Seq(STRING) : keys = Top.jobs[1].keys /\ keys # <<>>
    BY <2>1
  <2>3. PICK loc \in Seq(STRING) : loc = Cur.loc
    BY <1>1, StructFacts
  <2>4. loc \o keys # <<>>
    <3>1. PICK S : S = STRING
      OBVIOUS
    <3>2. loc \in Seq(S) /\ keys \in Seq(S) /\ Len(keys) # 0
      BY <2>2, <2>3, <3>1, EmptySeq
    <3>3. Len(loc \o keys) # 0
      BY <3>2
    <3> QED BY <3>3
  <2>5. child.loc = loc \o keys
    BY <1>2, <2>2, <2>3 DEF Child, NewStruct
  <2> QED BY <2>4, <2>5
<1>5. LinksOf(child) = {}
  BY <1>3 DEF LinksOf
<1>6. heap' = Append([heap EXCEPT ![Top.s] = st], child)
  BY <1>2
<1> QED BY <1>1, <1>3, <1>4, <1>5, <1>6, GrowBuilds

LEMMA SingleBuilds ==
  ASSUME CompileTypeOK, TreeInv, CompileSingle
  PROVE  Builds(Top.s)
<1>1. Pending("single")
  BY DEF CompileSingle
<1>2. Cur \in Struct /\ Cur = heap[Top.s] /\ Head(Top.jobs) = Top.jobs[1]
  BY <1>1, PendingFacts
<1>3. PICK st : st = [Cur EXCEPT !.single[Top.jobs[1].kw] = Next1]
  OBVIOUS
<1>4. st.loc = Cur.loc /\ st.frees = Cur.frees
  BY <1>2, <1>3 DEF Struct
<1>5. heap' = Append([heap EXCEPT ![Top.s] = st], Child(Top.jobs[1], FALSE))
  BY <1>2, <1>3 DEF CompileSingle
<1> QED BY <1>1, <1>4, <1>5, ChildBuilds

LEMMA NestedBuilds ==
  ASSUME CompileTypeOK, TreeInv, CompileNested
  PROVE  Builds(Top.s)
<1>1. Pending("nested")
  BY DEF CompileNested
<1>2. Cur \in Struct /\ Cur = heap[Top.s] /\ Head(Top.jobs) = Top.jobs[1]
  BY <1>1, PendingFacts
<1>3. PICK st : st = [Cur EXCEPT !.nested = Append(@, Next1)]
  OBVIOUS
<1>4. st.loc = Cur.loc /\ st.frees = Cur.frees
  BY <1>2, <1>3 DEF Struct
<1>5. heap' = Append([heap EXCEPT ![Top.s] = st], Child(Top.jobs[1], FALSE))
  BY <1>2, <1>3 DEF CompileNested
<1> QED BY <1>1, <1>4, <1>5, ChildBuilds

LEMMA ElementBuilds ==
  ASSUME CompileTypeOK, TreeInv, CompileElement
  PROVE  Builds(Top.s)
<1>1. Pending("element")
  BY DEF CompileElement
<1>2. /\ Cur \in Struct /\ Cur = heap[Top.s] /\ Head(Top.jobs) = Top.jobs[1]
      /\ Top.s \in 1 .. Len(heap)
  BY <1>1, PendingFacts
<1>3. heap = [heap EXCEPT ![Top.s] = Cur]
  BY <1>2, SameHeap, HeapLength
<1>4. heap' = Append([heap EXCEPT ![Top.s] = Cur], Child(Top.jobs[1], TRUE))
  BY <1>2, <1>3 DEF CompileElement
<1> QED BY <1>1, <1>4, ChildBuilds

(* What a wrapper owns is of its own tree.                                 *)
Separate(h, n, owns, w, R) ==
  /\ n \in Nat /\ Len(h) = n /\ Len(owns) = n /\ w \in 1 .. n /\ R \subseteq Nat
  /\ \A p \in 1 .. n : owns[p] = Owned(h[p])
  /\ \A r \in R : \A p \in 1 .. n : \A s \in LinksOf(h[p]) : r <= s => r <= p

LEMMA FreedTogether ==
  ASSUME NEW h, NEW n, NEW owns, NEW w, NEW R, Separate(h, n, owns, w, R)
  PROVE  \A s \in Reach(owns, {w}) : s \in 1 .. n /\ w <= s /\ \A r \in R : r <= s => r <= w
<1>0. /\ n \in Nat /\ Len(owns) = n /\ w \in 1 .. n /\ R \subseteq Nat
      /\ \A p \in 1 .. n : owns[p] = Owned(h[p])
      /\ \A r \in R : \A p \in 1 .. n : \A s \in LinksOf(h[p]) : r <= s => r <= p
  BY DEF Separate
<1>1. PICK F : F = Reach(owns, {w})
  OBVIOUS
<1>2. /\ F \subseteq 1 .. n
      /\ \A s \in 1 .. n : s \in F <=> s \in {w} \/ \E p \in F : p < s /\ s \in owns[p]
  BY <1>0, <1>1, ReachIs
<1>3. ASSUME NEW t \in F, ~(w <= t) PROVE FALSE
  <2>1. PICK T : T = {s \in F : ~(w <= s)}
    OBVIOUS
  <2>a. t \in T
    BY <1>0, <1>3, <2>1
  <2>b. \A u \in T : u \in 1 .. n
    BY <1>0, <1>2, <2>1
  <2>2. T \subseteq Nat /\ T # {}
    BY <1>0, <2>a, <2>b
  <2>3. PICK s \in T : \A u \in T : s <= u
    BY <1>0, <2>2, Least
  <2>4. s \in F /\ s \in 1 .. n /\ ~(w <= s)
    BY <1>0, <1>2, <2>1, <2>3
  <2>5. PICK p \in F : p < s
    BY <1>0, <1>2, <2>4
  <2>6. p \in 1 .. n /\ p \in T
    BY <1>0, <1>2, <2>1, <2>4, <2>5
  <2> QED BY <1>0, <2>3, <2>4, <2>5, <2>6
<1>4. ASSUME NEW r \in R, NEW t \in F, r <= t, ~(r <= w) PROVE FALSE
  <2>1. PICK T : T = {s \in F : r <= s}
    OBVIOUS
  <2>a. t \in T
    BY <1>0, <1>4, <2>1
  <2>b. \A u \in T : u \in 1 .. n
    BY <1>0, <1>2, <2>1
  <2>2. T \subseteq Nat /\ T # {}
    BY <1>0, <2>a, <2>b
  <2>3. PICK s \in T : \A u \in T : s <= u
    BY <1>0, <2>2, Least
  <2>4. s \in F /\ s \in 1 .. n /\ r <= s /\ s # w
    BY <1>0, <1>2, <1>4, <2>1, <2>3
  <2>5. PICK p \in F : p < s /\ s \in owns[p]
    BY <1>0, <1>2, <2>4
  <2>6. p \in 1 .. n /\ s \in LinksOf(h[p])
    BY <1>0, <1>2, <2>5 DEF LinksOf
  <2>7. r <= p
    BY <1>0, <2>4, <2>6
  <2>8. p \in T
    BY <1>0, <2>1, <2>5, <2>7
  <2> QED BY <1>0, <2>3, <2>4, <2>5, <2>6, <2>8
<1> QED BY <1>0, <1>1, <1>2, <1>3, <1>4

LEMMA RootExists ==
  ASSUME CompileTypeOK, TreesApart, NEW w \in 1 .. Len(heap)
  PROVE  \E r \in Roots : RootOf(r, w)
<1>1. Roots \subseteq Nat /\ Len(heap) \in Nat
  BY RootsType
<1>2. 1 \in Roots
  <2>1. heap # <<>>
    <3>1. Len(<<>>) = 0
      OBVIOUS
    <3> QED BY <1>1, <3>1
  <2> QED BY <2>1 DEF TreesApart
<1>3. PICK D : D = {w - r : r \in {q \in Roots : q <= w}}
  OBVIOUS
<1>4. D \subseteq Nat /\ D # {}
  <2>1. w - 1 \in D
    BY <1>1, <1>2, <1>3
  <2>2. ASSUME NEW d \in D PROVE d \in Nat
    <3>1. PICK q \in Roots : q <= w /\ d = w - q
      BY <1>3
    <3> QED BY <1>1, <3>1
  <2> QED BY <2>1, <2>2
<1>5. PICK d \in D : \A e \in D : d <= e
  BY <1>4, Least
<1>6. PICK r \in Roots : r <= w /\ d = w - r
  BY <1>3
<1>7. ASSUME NEW q \in Roots, q <= w PROVE q <= r
  <2>1. w - q \in D
    BY <1>3, <1>7
  <2>2. d <= w - q
    BY <1>5, <2>1
  <2> QED BY <1>1, <1>6, <2>2
<1> QED BY <1>6, <1>7 DEF RootOf

(* A visit of the collector: the tree that is freed is none in use.        *)
SweptTree(r) ==
  /\ r \in Roots /\ r # root /\ r # ivar
  /\ FreedTrees' = FreedTrees \cup {r} /\ Roots' = Roots

LEMMA SweepFacts ==
  ASSUME CompileTypeOK, TreeInv, TreesApart, Sweep
  PROVE  TreesApart' /\ \E r \in Roots : SweptTree(r)
<1>1. /\ phase' = phase /\ attempts' = attempts /\ root' = root /\ ivar' = ivar
  BY DEF Sweep
<1>2. heap \in Seq(Struct) /\ Len(heap) \in Nat /\ \A s \in 1 .. Len(heap) : heap[s] \in Struct
  BY HeapLength
<1>3. PICK n \in Nat : n = Len(heap)
  BY <1>2
<1>4. PICK h, g, held, tr, owns :
        /\ h = heap /\ g = heap' /\ held = HeldBy(root, ivar, frames)
        /\ tr = TreeRoot /\ owns = Owns
  OBVIOUS
<1>5. PICK w \in Garbage :
        heap' = [s \in 1 .. Len(heap) |->
          [heap[s] EXCEPT !.frees = IF s \in FreedWith(w) THEN @ + 1 ELSE @, !.swept = @ \/ s = w]]
  BY DEF Sweep
<1>6. w \in 1 .. n /\ w \notin Reach(LinksIn(h), held)
  <2>1. Marked = Reach(LinksIn(h), held)
    <3>1. Points = LinksIn(h)
      BY <1>4 DEF Points, LinksIn
    <3>2. Rooted = held
      BY <1>4 DEF Rooted, HeldBy
    <3> QED BY <3>1, <3>2 DEF Marked
  <2> QED BY <1>3, <1>4, <1>5, <2>1 DEF Garbage
<1>7. FreedWith(w) = Reach(owns, {w}) /\ Len(owns) = n /\ \A p \in 1 .. n : owns[p] = Owned(h[p])
  BY <1>3, <1>4, OwnsIs DEF FreedWith
<1>8. PICK F : F = Reach(owns, {w})
  OBVIOUS
<1>9. Visits(h, n, w, F, g)
  BY <1>2, <1>3, <1>4, <1>5, <1>7, <1>8 DEF Visits
<1>10. /\ g \in Seq(Struct) /\ Len(g) = n
       /\ \A s \in 1 .. n :
            /\ SameLinks(h[s], g[s])
            /\ g[s].frees = IF s \in F THEN h[s].frees + 1 ELSE h[s].frees
  BY <1>9, EditVisit
<1>11. \A s \in 1 .. n : g[s].loc = h[s].loc
  <2>1. ASSUME NEW s \in 1 .. n PROVE g[s].loc = h[s].loc
    <3>1. PICK old \in Struct : old = h[s]
      BY <1>2, <1>3, <1>4
    <3>2. g[s] = [old EXCEPT !.frees = IF s \in F THEN @ + 1 ELSE @, !.swept = @ \/ s = w]
      BY <1>9, <3>1 DEF Visits
    <3> QED BY <3>1, <3>2 DEF Struct
  <2> QED BY <2>1
<1>12. \A s \in 1 .. n : LinksOf(g[s]) = LinksOf(h[s])
  BY <1>10, LinksSame DEF LinksOf
<1>13. n # 0
  BY <1>6
<1>14. Extended(heap, n, n, heap', n)
  BY <1>3, <1>4, <1>10, <1>11, <1>12 DEF Extended
<1>15. Roots' = Roots /\ Roots \subseteq 1 .. n /\ Roots \subseteq Nat
  BY <1>3, <1>14, SameRoots, RootsType
<1>16. TreesApart'
  <2>1. \A r \in Roots : r <= n
    BY <1>15
  <2>2. TreeRoot' = TreeRoot
    BY <1>1 DEF TreeRoot
  <2>3. root' # 0 => attempts' > 0
    BY <1>1 DEF TreesApart
  <2> QED BY <1>4, <1>10, <1>14, <2>1, <2>2, <2>3, ExtendedApart
<1>17. PICK r \in Roots : RootOf(r, w)
  BY <1>3, <1>6, RootExists
<1>18. \A s \in F : s \in 1 .. n /\ w <= s /\ \A q \in Roots : q <= s => q <= w
  <2>1. \A q \in Roots : \A p \in 1 .. n : \A s \in LinksOf(h[p]) : q <= s => q <= p
    <3>1. Len(h) = n
      BY <1>3, <1>4
    <3> QED BY <1>4, <3>1, UncrossedIs DEF TreesApart
  <2>2. PICK R : R = Roots
    OBVIOUS
  <2>3. R \subseteq Nat /\ \A q \in R : \A p \in 1 .. n : \A s \in LinksOf(h[p]) : q <= s => q <= p
    BY <1>15, <2>1, <2>2
  <2>4. Len(h) = n
    BY <1>3, <1>4
  <2>5. \A s \in Reach(owns, {w}) : s \in 1 .. n /\ w <= s /\ \A q \in R : q <= s => q <= w
    <3>1. Separate(h, n, owns, w, R)
      BY <1>6, <1>7, <2>3, <2>4 DEF Separate
    <3> QED BY <3>1, FreedTogether
  <2> QED BY <1>8, <2>2, <2>5
<1>19. w \in F
  BY <1>6, <1>7, <1>8, ReachIs
<1>20. FreedTrees' = FreedTrees \cup {r}
  <2>1. \A s \in 1 .. n : h[s].frees \in Nat
    BY <1>2, <1>3, <1>4, StructFacts
  <2>2. \A q, s : RootOf(q, s)' <=> RootOf(q, s)
    BY <1>15 DEF RootOf
  <2>3. \A s \in F : RootOf(r, s)
    BY <1>6, <1>15, <1>17, <1>18 DEF RootOf
  <2>4. \A s \in F : \A q \in Roots : RootOf(q, s) => q = r
    BY <1>15, <1>18, <2>3 DEF RootOf
  <2>5. \A s \in 1 .. n : g[s].frees > 0 <=> s \in F \/ h[s].frees > 0
    BY <1>10, <2>1
  <2>6. FreedTrees' = {q \in Roots : \E s \in 1 .. n : RootOf(q, s) /\ g[s].frees > 0}
    BY <1>4, <1>10, <1>15, <2>2 DEF FreedTrees
  <2>7. FreedTrees = {q \in Roots : \E s \in 1 .. n : RootOf(q, s) /\ h[s].frees > 0}
    BY <1>3, <1>4 DEF FreedTrees
  <2> QED BY <1>6, <1>18, <1>19, <2>3, <2>4, <2>5, <2>6, <2>7
<1>21. r # root /\ r # ivar
  <2>1. Sound(h, held, tr)
    BY <1>4, Parts
  <2>2. ~Young(tr, w)
    BY <1>3, <1>4, <1>6, <2>1, YoungMarked
  <2>3. r <= w /\ r \in Nat /\ r # 0
    BY <1>15, <1>17 DEF RootOf
  <2>4. tr \in Nat /\ (root = 0 \/ root = tr) /\ (ivar = 0 \/ ivar = tr)
    <3>1. root \in Nat /\ ivar \in Nat
      BY <1>2 DEF CompileTypeOK
    <3>2. Phases
      BY DEF TreeInv
    <3> QED BY <1>4, <3>1, <3>2 DEF Phases, TreeRoot
  <2>5. r # tr
    BY <1>6, <2>2, <2>3, <2>4 DEF Young
  <2> QED BY <2>3, <2>4, <2>5
<1> QED BY <1>15, <1>16, <1>20, <1>21 DEF SweptTree

LEMMA BuildKeeps ==
  ASSUME CompileTypeOK, heap' \in Seq(Struct), TreesApart,
         NEW c \in Nat, Builds(c), Young(TreeRoot, c), TreeRoot' = TreeRoot,
         root' = root, ivar' = ivar, attempts' = attempts, phase' = "dropped" <=> phase = "dropped"
  PROVE  TreesApart' /\ Unseen
<1>1. PICK n, m : /\ n = Len(heap) /\ Extended(heap, n, c, heap', m)
                  /\ Spared(heap, n, heap', m)
  BY DEF Builds
<1>2. Roots' = Roots /\ FreedTrees' = FreedTrees
  BY <1>1, SameRoots, SameFreed
<1>3. \A r \in Roots : r <= c
  <2>1. Roots \subseteq Nat /\ TreeRoot # 0 /\ TreeRoot \in Roots /\ TreeRoot <= c
    BY RootsType DEF TreesApart, Young
  <2> QED BY <2>1 DEF TreesApart
<1>4. root' # 0 => attempts' > 0
  BY DEF TreesApart
<1>5. TreesApart'
  BY <1>1, <1>3, <1>4, ExtendedApart
<1> QED BY <1>2, <1>5 DEF Unseen

(* compile_schema wraps a struct: the root of a new tree.                  *)
LEMMA SchemaFacts ==
  ASSUME CompileTypeOK, TreeInv, TreesApart, CompileSchema
  PROVE  /\ TreesApart' /\ Roots' = Roots \cup {Next1} /\ FreedTrees' = FreedTrees
         /\ Next1 \notin Roots
<1>1. /\ phase' = "compile" /\ root' = Next1 /\ attempts' = attempts + 1
      /\ heap' = Append(heap, NewStruct(source, <<"#">>, TRUE, <<>>, 0))
  BY DEF CompileSchema
<1>2. heap \in Seq(Struct) /\ Len(heap) \in Nat /\ \A s \in 1 .. Len(heap) : heap[s] \in Struct
  BY HeapLength
<1>3. PICK n \in Nat : n = Len(heap)
  BY <1>2
<1>4. PICK new : new = NewStruct(source, <<"#">>, TRUE, <<>>, 0)
  OBVIOUS
<1>5. new.loc = <<>> /\ new.frees = 0 /\ LinksOf(new) = {}
  <2>1. /\ new.loc = <<>> /\ new.frees = 0 /\ new.nested = <<>>
        /\ new.single = [k \in SingleKeyword |-> 0] /\ new.lists = [k \in ListKeyword |-> <<>>]
    BY <1>4 DEF NewStruct
  <2>2. Owned(new) = {}
    BY <2>1 DEF Owned, ToSet
  <2>3. Wrapped(new) = {}
    BY <2>1 DEF Wrapped, ToSet
  <2> QED BY <2>1, <2>2, <2>3 DEF LinksOf
<1>6. Len(heap') = n + 1 /\ heap'[n + 1] = new /\ \A s \in 1 .. n : heap'[s] = heap[s]
  <2>1. PICK T, H : T = Struct /\ H = Struct \cup {new}
    OBVIOUS
  <2>2. heap \in Seq(T)
    BY <1>2, <2>1
  <2>3. heap \in Seq(H) /\ new \in H
    BY <2>1, <2>2
  <2>4. PICK q, g : q = heap /\ g = Append(q, new)
    OBVIOUS
  <2>5. q \in Seq(H) /\ n = Len(q)
    BY <1>3, <2>3, <2>4
  <2>6. Len(g) = n + 1 /\ g[n + 1] = new /\ \A s \in 1 .. n : g[s] = q[s]
    BY <2>3, <2>4, <2>5, AppendSeq
  <2>7. heap' = g
    BY <1>1, <1>4, <2>4
  <2> QED BY <2>4, <2>6, <2>7
<1>7. Roots \subseteq Nat /\ Roots \subseteq 1 .. n /\ Next1 = n + 1
  BY <1>3, RootsType DEF Next1
<1>8. Roots' = Roots \cup {n + 1}
  BY <1>3, <1>5, <1>6 DEF Roots
<1>9. \A p \in 1 .. n : \A s \in LinksOf(heap[p]) : s \in 1 .. n
  <2>1. Sound(heap, HeldBy(root, ivar, frames), TreeRoot)
    BY Parts
  <2>2. PICK held, r : held = HeldBy(root, ivar, frames) /\ r = TreeRoot
    OBVIOUS
  <2>3. SoundParts(heap, held, r, n)
    BY <1>3, <2>1, <2>2, SoundIs
  <2> QED BY <2>3 DEF SoundParts, LinksOf
<1>10. ASSUME NEW r \in Roots' PROVE Uncrossed(LinksIn(heap'), r)
  <2>1. ASSUME NEW p \in 1 .. n + 1, NEW s \in LinksOf(heap'[p]), r <= s PROVE r <= p
    <3>1. p \in 1 .. n /\ s \in LinksOf(heap[p])
      BY <1>5, <1>6, <2>1
    <3>2. s \in 1 .. n
      BY <1>9, <3>1
    <3>3. r \in Roots
      BY <1>7, <1>8, <2>1, <3>2
    <3>4. Uncrossed(LinksIn(heap), r)
      BY <3>3 DEF TreesApart
    <3> QED BY <1>3, <2>1, <3>1, <3>4, UncrossedIs
  <2>2. PICK m \in Nat : m = n + 1
    OBVIOUS
  <2> QED BY <1>6, <2>1, <2>2, UncrossedIs
<1>11. heap' # <<>> => 1 \in Roots'
  <2>1. CASE n = 0
    BY <1>8, <2>1
  <2>2. CASE n # 0
    <3>1. heap # <<>>
      BY <1>3, <2>2
    <3> QED BY <1>8, <3>1 DEF TreesApart
  <2> QED BY <2>1, <2>2
<1>12. TreeRoot' = n + 1
  BY <1>1, <1>7 DEF TreeRoot
<1>13. \A r \in Roots' : r <= n + 1
  BY <1>7, <1>8
<1>14. attempts' > 0
  <2>1. attempts \in Nat
    BY MaxAttemptsAssumption DEF CompileTypeOK
  <2> QED BY <1>1, <2>1
<1>15. TreesApart'
  BY <1>8, <1>10, <1>11, <1>12, <1>13, <1>14 DEF TreesApart
<1>16. FreedTrees' = FreedTrees
  <2>1. \A s : s \in 1 .. n + 1 /\ heap'[s].frees > 0 <=> s \in 1 .. n /\ heap[s].frees > 0
    BY <1>5, <1>6
  <2>2. \A r, s : s \in 1 .. n /\ r \in Roots => (RootOf(r, s)' <=> RootOf(r, s))
    BY <1>8 DEF RootOf
  <2>3. \A s \in 1 .. n : ~RootOf(n + 1, s)'
    BY <1>8 DEF RootOf
  <2> QED BY <1>3, <1>6, <1>8, <2>1, <2>2, <2>3 DEF FreedTrees
<1> QED BY <1>7, <1>8, <1>15, <1>16

(* The tree is given up, published or let go of.                           *)
LEMMA QuietKeeps ==
  ASSUME CompileTypeOK, TreesApart, heap' = heap, attempts' = attempts, root' = 0,
         TreeRoot' = 0 \/ TreeRoot' = TreeRoot
  PROVE  TreesApart' /\ Roots' = Roots /\ FreedTrees' = FreedTrees
<1>1. Roots' = Roots /\ FreedTrees' = FreedTrees
  BY DEF Roots, FreedTrees, RootOf
<1>2. LinksIn(heap)' = LinksIn(heap)
  OBVIOUS
<1> QED BY <1>1, <1>2 DEF TreesApart

-----------------------------------------------------------------------------
(***************************************************************************)
(* compile as one call of Lifecycle.                                       *)
(***************************************************************************)
(* A step of compile() or of resolve_refs() goes on with the tree of the   *)
(* call.                                                                   *)
LEMMA GoesOn ==
  ASSUME CompileTypeOK, TreeInv, TreesApart, heap' \in Seq(Struct),
         NEW c \in 1 .. Len(heap), Builds(c), Young(root, c),
         phase \in {"compile", "resolve"}, phase' \in {"compile", "resolve"},
         root' = root, ivar' = ivar, attempts' = attempts
  PROVE  TreesApart' /\ Unseen
<1>1. TreeRoot = root /\ TreeRoot' = root
  BY DEF TreeRoot
<1>2. c \in Nat
  BY HeapLength
<1>3. phase' = "dropped" <=> phase = "dropped"
  OBVIOUS
<1> QED BY <1>1, <1>2, <1>3, BuildKeeps

LEMMA FrameGoesOn ==
  ASSUME CompileTypeOK, TreeInv, TreesApart, heap' \in Seq(Struct), Builds(Top.s),
         phase = "compile", phase' \in {"compile", "resolve"},
         root' = root, ivar' = ivar, attempts' = attempts
  PROVE  TreesApart' /\ Unseen
<1>1. Top.s \in 1 .. Len(heap) /\ Young(root, Top.s)
  BY InCompile
<1> QED BY <1>1, GoesOn

LEMMA LeaveGoesOn ==
  ASSUME phase = "compile", LeaveCompile
  PROVE  phase' \in {"compile", "resolve"}
BY DEF LeaveCompile

LEMMA CompileGoesOn ==
  ASSUME CompileTypeOK, TreeInv, TreesApart, heap' \in Seq(Struct),
         CompileLeaf \/ CompileHash \/ CompileSingle \/ AllocNested \/ CompileNested
           \/ CompileElement \/ KeepElement \/ StoreList \/ EndCompile
  PROVE  TreesApart' /\ Unseen
<1>1. CASE CompileLeaf
  <2>1. phase = "compile" /\ LeaveCompile /\ UNCHANGED <<root, ivar, attempts>>
    BY <1>1 DEF CompileLeaf, Compiling
  <2> QED BY <1>1, <2>1, LeaveGoesOn, LeafBuilds, FrameGoesOn
<1>2. CASE CompileHash
  <2>1. phase = "compile" /\ UNCHANGED <<phase, root, ivar, attempts>>
    BY <1>2 DEF CompileHash, Compiling
  <2> QED BY <1>2, <2>1, HashBuilds, FrameGoesOn
<1>3. CASE CompileSingle
  <2>1. phase = "compile" /\ UNCHANGED <<phase, root, ivar, attempts>>
    BY <1>3 DEF CompileSingle, Pending, Compiling
  <2> QED BY <1>3, <2>1, SingleBuilds, FrameGoesOn
<1>4. CASE AllocNested
  <2>1. phase = "compile" /\ UNCHANGED <<phase, root, ivar, attempts>>
    BY <1>4 DEF AllocNested, Pending, Compiling
  <2> QED BY <1>4, <2>1, AllocBuilds, FrameGoesOn
<1>5. CASE CompileNested
  <2>1. phase = "compile" /\ UNCHANGED <<phase, root, ivar, attempts>>
    BY <1>5 DEF CompileNested, Pending, Compiling
  <2> QED BY <1>5, <2>1, NestedBuilds, FrameGoesOn
<1>6. CASE CompileElement
  <2>1. phase = "compile" /\ UNCHANGED <<phase, root, ivar, attempts>>
    BY <1>6 DEF CompileElement, Pending, Compiling
  <2> QED BY <1>6, <2>1, ElementBuilds, FrameGoesOn
<1>7. CASE KeepElement
  <2>1. phase = "compile" /\ UNCHANGED <<phase, root, ivar, attempts, heap>>
    BY <1>7 DEF KeepElement, Pending, Compiling
  <2>2. Builds(Top.s)
    BY <2>1, SameBuilds
  <2> QED BY <2>1, <2>2, FrameGoesOn
<1>8. CASE StoreList
  <2>1. phase = "compile" /\ UNCHANGED <<phase, root, ivar, attempts>>
    BY <1>8 DEF StoreList, Pending, Compiling
  <2> QED BY <1>8, <2>1, StoreBuilds, FrameGoesOn
<1>9. CASE EndCompile
  <2>1. phase = "compile" /\ LeaveCompile /\ UNCHANGED <<root, ivar, attempts>>
    BY <1>9 DEF EndCompile, Compiling
  <2> QED BY <1>9, <2>1, LeaveGoesOn, EndBuilds, FrameGoesOn
<1> QED BY <1>1, <1>2, <1>3, <1>4, <1>5, <1>6, <1>7, <1>8, <1>9

LEMMA ResolveGoesOn ==
  ASSUME CompileTypeOK, TreeInv, TreesApart, heap' \in Seq(Struct), ResolveRefs
  PROVE  TreesApart' /\ Unseen
<1>1. phase = "resolve" /\ agenda # <<>> /\ UNCHANGED <<phase, root, ivar, attempts>>
  BY DEF ResolveRefs, Visiting
<1>2. PICK c \in 1 .. Len(heap) : c = Head(agenda) /\ Builds(c)
  BY ResolveBuilds
<1>3. TreeRoot = root
  BY <1>1 DEF TreeRoot
<1>4. Young(root, c)
  <2>1. PICK N, q : N = 1 .. Len(heap) /\ q = agenda
    OBVIOUS
  <2>2. q \in Seq(N) /\ q # <<>>
    BY <1>1, <2>1 DEF CompileTypeOK
  <2>3. 1 \in 1 .. Len(q) /\ Head(q) = q[1]
    BY <2>2
  <2>4. \A j \in 1 .. Len(agenda) : Young(root, agenda[j])
    BY <1>3 DEF TreeInv, NamesInTree
  <2> QED BY <1>2, <2>1, <2>3, <2>4
<1> QED BY <1>1, <1>2, <1>4, GoesOn

(* compile_schema is entered.                                              *)
LEMMA CallBegins ==
  ASSUME CompileTypeOK, TreeInv, CompileSchema, Roots' = Roots \cup {Next1},
         FreedTrees' = FreedTrees, Next1 \notin Roots
  PROVE  Outside!BeginCompile(1, 1, Next1)
<1>1. /\ phase = "idle" /\ ivar = 0 /\ phase' = "compile" /\ ivar' = 0
      /\ attempts' = attempts + 1 /\ root' = Next1
  BY DEF CompileSchema
<1>2. root = 0
  BY <1>1 DEF TreeInv, Phases
<1>3. attempts \in Nat
  BY MaxAttemptsAssumption DEF CompileTypeOK
<1>4. Next1 # 0
  BY HeapLength DEF Next1
<1>5. Outside!Idle(1, 1) /\ Outside!Compiling(1) = {}
  BY <1>1, <1>2 DEF Outside!Idle, Outside!Compiling, Outside!CallsOn
<1>6. attempts' = 1 <=> attempts = 0
  BY <1>1, <1>3
<1> HIDE DEF Next1
<1> QED BY <1>1, <1>2, <1>4, <1>5, <1>6 DEF Outside!BeginCompile

(* An exception leaves compile_schema.                                     *)
LEMMA CallRaises ==
  ASSUME CompileTypeOK, TreeInv, TreesApart, phase \in {"compile", "resolve"}, Raise,
         Roots' = Roots, FreedTrees' = FreedTrees
  PROVE  Outside!CompileRaises(1)
<1>1. root # 0 /\ ivar = 0 /\ attempts > 0 /\ attempts \in Nat
  BY MaxAttemptsAssumption DEF TreeInv, Phases, TreesApart, CompileTypeOK
<1>2. phase' = "idle" /\ root' = 0 /\ UNCHANGED <<attempts, ivar>>
  BY DEF Raise
<1>3. attempts # 0 /\ attempts' # 0
  BY <1>1, <1>2
<1>4. root # 0 /\ root' = 0 /\ ivar = 0 /\ ivar' = 0 /\ phase # "dropped" /\ phase' # "dropped"
  BY <1>1, <1>2
<1> QED BY <1>3, <1>4 DEF Outside!CompileRaises, Outside!Return

(* compile_schema sets the ivars.                                          *)
LEMMA CallPublishes ==
  ASSUME CompileTypeOK, TreeInv, Publish, Roots' = Roots, FreedTrees' = FreedTrees
  PROVE  Outside!Publish(1)
<1>1. phase = "resolve" /\ phase' = "idle" /\ ivar' = root /\ root' = 0
  BY DEF Publish
<1>2. root # 0
  BY <1>1 DEF TreeInv, Phases
<1> QED BY <1>1, <1>2 DEF Outside!Publish, Outside!Return

(* A visit of the collector to a tree that was whole, or to one it visited *)
(* before.                                                                 *)
LEMMA TreeCollected ==
  ASSUME Sweep, NEW r \in Roots, SweptTree(r)
  PROVE  Outside!Collect(r) \/ UNCHANGED Outside!vars
<1>1. UNCHANGED <<phase, root, ivar, attempts>>
  BY DEF Sweep
<1>2. CASE r \in FreedTrees
  <2>1. Unseen
    BY <1>1, <1>2 DEF SweptTree, Unseen
  <2> QED BY <2>1, UnseenStutters
<1>3. CASE r \notin FreedTrees
  <2>1. ~Outside!Reachable(r)
    BY DEF SweptTree, Outside!Reachable
  <2> QED BY <1>1, <1>3, <2>1 DEF SweptTree, Outside!Collect
<1> QED BY <1>2, <1>3

(* StructIds has a name for every tree.                                    *)
TreesNamed == 1 .. Len(heap) \subseteq StructIds

SeenStep == [DropSchema \/ Outside!Next]_(Outside!vars)

LEMMA StepSeen ==
  ASSUME CompileTypeOK, TreeInv, TreesApart, heap' \in Seq(Struct), [CNext]_cvars
  PROVE  TreesApart' /\ (TreesNamed' => SeenStep)
<1>1. CASE Unseen /\ TreesApart'
  BY <1>1, UnseenStutters DEF SeenStep
<1>2. CASE CompileSchema
  <2>1. /\ TreesApart' /\ Roots' = Roots \cup {Next1} /\ FreedTrees' = FreedTrees
        /\ Next1 \notin Roots
    BY <1>2, SchemaFacts
  <2>2. Outside!BeginCompile(1, 1, Next1)
    BY <1>2, <2>1, CallBegins
  <2>3. TreesNamed' => Next1 \in StructIds
    <3>1. PICK n \in Nat : n = Len(heap')
      BY HeapLength
    <3>2. Roots' \subseteq 1 .. n
      BY <3>1 DEF Roots
    <3> QED BY <2>1, <3>1, <3>2 DEF TreesNamed
  <2>4. TreesNamed' => Outside!Next
    BY <2>2, <2>3 DEF Outside!Next, Outside!CompileStep
  <2> QED BY <2>1, <2>4 DEF SeenStep
<1>3. CASE KeyRaises \/ TypeRaises \/ RefRaises
  <2>1. phase \in {"compile", "resolve"} /\ Raise
    BY <1>3 DEF KeyRaises, TypeRaises, RefRaises, Pending, Compiling, Visiting
  <2>2. /\ heap' = heap /\ attempts' = attempts /\ root' = 0 /\ phase' = "idle" /\ ivar' = ivar
        /\ ivar = 0
    BY <2>1 DEF Raise, TreeInv, Phases
  <2>3. TreeRoot' = 0
    BY <2>2 DEF TreeRoot
  <2>4. TreesApart' /\ Roots' = Roots /\ FreedTrees' = FreedTrees
    BY <2>2, <2>3, QuietKeeps
  <2>5. Outside!Next
    BY <2>1, <2>4, CallRaises DEF Outside!Next, Outside!CompileStep
  <2> QED BY <2>4, <2>5 DEF SeenStep
<1>4. CASE Publish
  <2>1. /\ heap' = heap /\ attempts' = attempts /\ root' = 0 /\ phase' = "idle"
        /\ phase = "resolve" /\ ivar' = root
    BY <1>4 DEF Publish
  <2>2. TreeRoot' = TreeRoot
    BY <2>1 DEF TreeRoot
  <2>3. TreesApart' /\ Roots' = Roots /\ FreedTrees' = FreedTrees
    BY <2>1, <2>2, QuietKeeps
  <2>4. Outside!Next
    BY <1>4, <2>3, CallPublishes DEF Outside!Next, Outside!CompileStep
  <2> QED BY <2>3, <2>4 DEF SeenStep
<1>5. CASE Sweep
  <2>1. TreesApart' /\ \E r \in Roots : SweptTree(r)
    BY <1>5, SweepFacts
  <2>2. PICK r \in Roots : SweptTree(r)
    BY <2>1
  <2>3. TreesNamed' => r \in StructIds
    <3>1. PICK n \in Nat : n = Len(heap')
      BY HeapLength
    <3>2. Roots' \subseteq 1 .. n /\ r \in Roots'
      BY <2>2, <3>1 DEF Roots, SweptTree
    <3> QED BY <3>1, <3>2 DEF TreesNamed
  <2>4. Outside!Collect(r) \/ UNCHANGED Outside!vars
    BY <1>5, <2>2, TreeCollected
  <2> QED BY <2>1, <2>3, <2>4 DEF SeenStep, Outside!Next
<1>6. CASE DropSchema
  <2>1. /\ heap' = heap /\ attempts' = attempts /\ root' = root /\ phase' = "dropped" /\ ivar' = 0
        /\ phase = "idle"
    BY <1>6 DEF DropSchema
  <2>2. root = 0
    BY <2>1 DEF TreeInv, Phases
  <2>3. TreeRoot' = 0
    BY <2>1 DEF TreeRoot
  <2>4. TreesApart'
    BY <2>1, <2>2, <2>3, QuietKeeps
  <2> QED BY <1>6, <2>4 DEF SeenStep
<1>7. CASE UNCHANGED cvars
  <2>1. TreesApart'
    BY <1>7 DEF cvars, TreesApart, TreeRoot, Roots
  <2>2. Unseen
    BY <1>7 DEF cvars, Unseen, Roots, FreedTrees, RootOf
  <2> QED BY <1>1, <2>1, <2>2
<1>8. CASE CompileLeaf \/ CompileHash \/ CompileSingle \/ AllocNested \/ CompileNested
             \/ CompileElement \/ KeepElement \/ StoreList \/ EndCompile
  BY <1>1, <1>8, CompileGoesOn
<1>9. CASE ResolveRefs
  BY <1>1, <1>9, ResolveGoesOn
<1>10. Dropped => UNCHANGED cvars
  BY DEF Dropped
<1> QED BY <1>2, <1>3, <1>4, <1>5, <1>6, <1>7, <1>8, <1>9, <1>10 DEF CNext, CompileStep, ResolveStep

(* The trees are separate at the start, and the object is a new one.       *)
LEMMA SeenStart ==
  ASSUME CInit
  PROVE  TreesApart /\ Outside!Init
<1>1. phase = "idle" /\ attempts = 0 /\ heap = <<>> /\ root = 0 /\ ivar = 0
  BY DEF CInit
<1>2. Roots = {} /\ FreedTrees = {} /\ TreeRoot = 0
  BY <1>1 DEF Roots, FreedTrees, TreeRoot
<1>3. TreesApart
  BY <1>1, <1>2 DEF TreesApart
<1>4. Outside!Init
  BY <1>1, <1>2 DEF Outside!Init
<1> QED BY <1>3, <1>4

LEMMA ApartAlways == CSpec => [](CompileTypeOK /\ TreeInv /\ TreesApart)
<1>1. CInit => TreesApart
  BY SeenStart
<1>2. CompileTypeOK /\ TreeInv /\ TreesApart /\ [CNext]_cvars /\ CompileTypeOK' => TreesApart'
  <2>1. CompileTypeOK' => heap' \in Seq(Struct)
    BY DEF CompileTypeOK
  <2> QED BY <2>1, StepSeen
<1> QED BY <1>1, <1>2, TreesAlways, PTL DEF CSpec

(* The trees of the attempts never mix: what free_compiled_schema frees    *)
(* with a wrapper is of the wrapper's tree.                                *)
THEOREM TreesStayApart == CSpec => []TreesApart
BY ApartAlways, PTL

(* compile_schema with its frames, table and wrappers, as the object's     *)
(* users see it, is the one call of Lifecycle, whatever the schema, as     *)
(* long as StructIds has a name for every tree.                            *)
THEOREM CompileIsACall == CSpec /\ []TreesNamed => CompileIsOneCall
<1>1. CInit => Outside!Init
  BY SeenStart
<1>2. /\ CompileTypeOK /\ TreeInv /\ TreesApart /\ [CNext]_cvars /\ CompileTypeOK' /\ TreesNamed'
      => [DropSchema \/ Outside!Next]_(Outside!vars)
  <2>1. CompileTypeOK' => heap' \in Seq(Struct)
    BY DEF CompileTypeOK
  <2> QED BY <2>1, StepSeen DEF SeenStep
<1> QED BY <1>1, <1>2, ApartAlways, PTL DEF CSpec, CompileIsOneCall

(* With a name for every number, no hypothesis is left.                    *)
THEOREM CompileIsAlwaysACall ==
  ASSUME Nat \ {0} \subseteq StructIds
  PROVE  CSpec => CompileIsOneCall
<1>1. CompileTypeOK => TreesNamed
  <2>1. CompileTypeOK => 1 .. Len(heap) \subseteq Nat \ {0}
    BY HeapLength
  <2> QED BY <2>1 DEF TreesNamed
<1> QED BY <1>1, ApartAlways, CompileIsACall, PTL
=============================================================================
