-------------------------------- MODULE Trees --------------------------------
(***************************************************************************)
(* Why compile() keeps its promises: the invariant behind CompilePromises. *)
(* A tree is the structs from its root on; its pointers lead forward and   *)
(* into no other tree; every struct of the tree in use is held from the C  *)
(* stack until a struct before it points at it; and what a frame has done  *)
(* and what it has still to do are together its whole work.                *)
(***************************************************************************)
EXTENDS CompilePromises, JobShapes

(* s belongs to the tree of root r, the newest one; 0 is no root.          *)
Young(r, s) == r # 0 /\ s >= r

(* Where the call is, and what it holds there.                             *)
Phases ==
  /\ phase \in {"compile", "resolve"} <=> root # 0
  /\ root # 0 \/ phase = "dropped" => ivar = 0
  /\ frames # <<>> <=> phase = "compile"
  /\ agenda # <<>> => phase = "resolve"
  /\ DOMAIN refData # {} => root # 0

(* Frames, wrappers on the stack, table, agenda and the targets of $refs   *)
(* are structs of the tree in use; those a frame made came after its own,  *)
(* and its own after that of its caller.                                   *)
Wrappers(f) == {f.obj} \cup ToSet(f.kept)

FramesInTree ==
  /\ \A j \in 1 .. Len(frames) :
       /\ Young(TreeRoot, frames[j].s) /\ frames[j].s <= Len(heap)
       /\ \A w \in Wrappers(frames[j]) : w # 0 => frames[j].s < w /\ w <= Len(heap)
  /\ \A i, j \in 1 .. Len(frames) : i < j => frames[i].s < frames[j].s

NamesInTree ==
  /\ \A k \in DOMAIN refData : Young(TreeRoot, refData[k])
  /\ \A j \in 1 .. Len(agenda) : Young(TreeRoot, agenda[j])
  /\ \A s \in 1 .. Len(heap) : Young(TreeRoot, s) /\ heap[s].refSchema # 0 =>
       Young(TreeRoot, heap[s].refSchema) /\ heap[s].refSchema <= Len(heap)

(* Links lead forward, and into the tree of root r from that tree alone.   *)
LinksIn(h) == [p \in 1 .. Len(h) |-> Owned(h[p]) \cup Wrapped(h[p])]

Forward(links, r) ==
  \A p \in DOMAIN links : \A s \in links[p] :
    p < s /\ s \in DOMAIN links /\ (Young(r, s) => Young(r, p))

(* Every struct of the tree is held by a wrapper or by another struct of   *)
(* the tree, and none of them is freed.                                    *)
Connected(links, held, r) ==
  \A s \in DOMAIN links : Young(r, s) =>
    s \in held \/ \E p \in DOMAIN links : Young(r, p) /\ s \in links[p]

(* A struct without a wrapper has one owner and is freed with it.          *)
Owners(h) ==
  /\ \A p, q \in 1 .. Len(h) : \A s \in Owned(h[p]) : s \in Owned(h[q]) => p = q
  /\ \A p \in 1 .. Len(h) : \A s \in Owned(h[p]) :
       ~h[s].expose /\ h[s].frees = h[p].frees
  /\ \A s \in 1 .. Len(h) : ~h[s].expose => \E p \in 1 .. Len(h) : s \in Owned(h[p])
  /\ \A s \in 1 .. Len(h) : h[s].expose => h[s].frees = IF h[s].swept THEN 1 ELSE 0

Sound(h, held, r) ==
  /\ Forward(LinksIn(h), r) /\ Connected(LinksIn(h), held, r) /\ Owners(h)
  /\ \A s \in 1 .. Len(h) : Young(r, s) => h[s].frees = 0

(* The work of a frame f over its struct st: no field it has still to      *)
(* assign is assigned, and no wrapper it made is forgotten.                *)
Untouched(st) ==
  /\ \A k \in SingleKeyword : st.single[k] = 0
  /\ \A k \in ListKeyword : st.lists[k] = <<>>
  /\ st.nested = <<>> /\ st.slots = 0

Ahead(f) == IF f.jobs = <<>> THEN "end" ELSE f.jobs[1].do

FrameWork(f, st) ==
  /\ Shaped(f.jobs)
  /\ f.pc = "enter" => f.jobs = <<>> /\ Untouched(st)
  /\ f.obj # 0 <=> Ahead(f) = "keep"
  /\ f.kept # <<>> => Ahead(f) \in {"element", "keep", "store"}
  /\ \A j \in 1 .. Len(f.kept) : f.kept[j] # 0
  /\ \A j \in 1 .. Len(f.jobs) :
       /\ f.jobs[j].do = "single" => st.single[f.jobs[j].kw] = 0
       /\ f.jobs[j].do = "store" => st.lists[f.jobs[j].kw] = <<>>

(* The slots are those filled and those the frame has still to fill.       *)
SlotsAhead(f, st, k) ==
  /\ NestedAfter(f.jobs, k)
  /\ IF Allocates(f.jobs, k)
       THEN /\ st.nested = <<>> /\ st.slots = 0
            /\ Len(f.jobs) - k = NestedTotal(st.val)
       ELSE st.slots = Len(st.nested) + (Len(f.jobs) - k)

WorkOf(f, st) ==
  FrameWork(f, st) /\ \E k \in 0 .. Len(f.jobs) : SlotsAhead(f, st, k)

Work == \A j \in 1 .. Len(frames) : WorkOf(frames[j], heap[frames[j].s])

SlotsFilled ==
  \A s \in 1 .. Len(heap) :
    /\ Len(heap[s].nested) <= heap[s].slots
    /\ Young(TreeRoot, s) /\ (\A j \in 1 .. Len(frames) : frames[j].s # s)
         => Len(heap[s].nested) = heap[s].slots

(* resolve_refs has been at every $ref or will come there.                 *)
Resolving ==
  phase = "resolve" \/ ivar # 0 =>
    \A s \in 1 .. Len(heap) :
      Young(TreeRoot, s) /\ heap[s].ref # NoUri /\ heap[s].refSchema = 0
        => s \in Reach(Points, ToSet(agenda))

(* What holds of compile_schema, compile and resolve_refs at every step:   *)
(* the trees are sound, and no step loses a struct, a wrapper, a field, a  *)
(* slot or a $ref.                                                         *)
TreeInv ==
  /\ Phases /\ FramesInTree /\ NamesInTree
  /\ Sound(heap, Rooted, TreeRoot) /\ Work /\ SlotsFilled /\ Resolving

-----------------------------------------------------------------------------
(* No link leads from before r to r or beyond.                             *)
Uncrossed(links, r) == \A p \in DOMAIN links : \A s \in links[p] : r <= s => r <= p

(* The trees that were given up are as separate as the one in use: every   *)
(* struct is of one tree, that of the last root before it, and the         *)
(* collector frees within that tree (compiled_schema.c).                   *)
TreesApart ==
  /\ heap # <<>> => 1 \in Roots
  /\ TreeRoot # 0 => TreeRoot \in Roots /\ \A r \in Roots : r <= TreeRoot
  /\ \A r \in Roots : Uncrossed(LinksIn(heap), r)
  /\ root # 0 => attempts > 0
=============================================================================
