------------------------------- MODULE Paths -------------------------------
(***************************************************************************)
(* Why Context.path and depth follow the document: the invariant that      *)
(* DepthAccounted, ErrorsLocated and SlotsWritten rest on.                 *)
(*                                                                         *)
(* Between two frames of a validation there is at most one level, and the  *)
(* plan of the upper one tells which: a loop is one level below its caller *)
(* from its INCR_CONTEXT to its DECR_CONTEXT.  So the depth is known from  *)
(* the innermost frame of each validation, whatever is on the stack.       *)
(***************************************************************************)
EXTENDS Validation, PlanShapes

(***************************************************************************)
(* One frame.                                                              *)
(***************************************************************************)
(* The function has pushed a level and not popped it.                      *)
Inside(f) ==
  /\ f.fn \in LoopFn /\ f.pc = "plan" /\ f.todo # <<>>
  /\ Head(f.todo).do # "INCR_CONTEXT"

End(f) == f.loc[Len(f.loc)]

(* The frame may be at a level whose slot it has not written yet.          *)
Unnamed(f) ==
  \/ f.fn = "validate_properties" /\ Inside(f)
  \/ /\ f.fn \in ArrayFn /\ Inside(f)
     /\ Head(f.todo).do \in {"ADD_TO_CONTEXT", "DECR_CONTEXT"}
  \/ /\ f.fn = "validate_object_property"
     /\ \/ f.pc = "enter"
        \/ f.todo = <<>>
        \/ Head(f.todo).do = "ADD_TO_CONTEXT"

Placed(f) ==
  /\ Remains(f.fn, f.todo)
  /\ f.loc # <<>>
  /\ \A k \in 1 .. Len(f.loc) - 1 : f.loc[k] # Nil
  /\ End(f) = Nil => Unnamed(f)
  /\ f.fn = "validate_properties" /\ Inside(f) => End(f) = Nil

(***************************************************************************)
(* A frame g on top of the frame f that called it.                         *)
(***************************************************************************)
Continues(f, g) ==
  /\ Len(g.loc) = Len(f.loc) + (IF Inside(g) THEN 1 ELSE 0)
  /\ \A k \in 1 .. Len(f.loc) : f.loc[k] # Nil => g.loc[k] = f.loc[k]
  /\ g.fn = "validate_object_property" => End(f) = Nil

(* A frame of user code, where an exception that a call it made has not    *)
(* caught arrives.                                                         *)
UserCode(f) == Protecting(f) \/ (f.fn = "yield_error" /\ f.pc = "called")

(***************************************************************************)
(* A context r and the innermost frame f that works for it.                *)
(***************************************************************************)
Deep(r, f) == r.leaks >= 0 /\ r.depth = Len(f.loc) - 1 + r.leaks

Traced(r, f) ==
  r.leaks = 0 =>
    \A k \in 1 .. Len(f.loc) :
      f.loc[k] # Nil => k <= MaxDepth /\ r.path[k - 1] = f.loc[k]

Filled(r, n) == \A k \in 0 .. n : k < MaxDepth /\ r.path[k] # Nil

Written(r, f) ==
  /\ Filled(r, r.depth - 1)
  /\ End(f) # Nil => Filled(r, r.depth)

Located(r) ==
  \A j \in 1 .. Len(r.errors) :
    LET e == r.errors[j]
    IN  /\ Len(e.path) = Len(e.loc) + e.leaks
        /\ e.leaks = 0 => e.path = e.loc

(* Frame j is the innermost of its validation in the stack q.              *)
Innermost(q, j) == j = Len(q) \/ q[j + 1].fn \in SessionFn

-----------------------------------------------------------------------------
(***************************************************************************)
(* The invariant.                                                          *)
(***************************************************************************)
FramesPlaced == \A j \in 1 .. Len(stack) : Placed(stack[j])

Chained ==
  \A j \in 1 .. Len(stack) - 1 :
    IF stack[j + 1].fn \in SessionFn THEN UserCode(stack[j])
                                     ELSE Continues(stack[j], stack[j + 1])

DepthCounted ==
  \A j \in 1 .. Len(stack) :
    Innermost(stack, j) => Deep(ctx[stack[j].c], stack[j])

PathTraced ==
  exc # "overrun" =>
    \A j \in 1 .. Len(stack) :
      Innermost(stack, j) => Traced(ctx[stack[j].c], stack[j])

SlotsFilled ==
  \A j \in 1 .. Len(stack) :
    Innermost(stack, j) /\ (exc \in {"none", "throw"} \/ UserCode(stack[j])) =>
      Written(ctx[stack[j].c], stack[j])

ThrowFilled == exc = "throw" => Filled(Cur, Cur.depth)

(* The path follows the document: a frame's level is its caller's or, in a *)
(* loop, one more; depth counts the levels of the innermost frame and the  *)
(* leaked ones; every slot below depth holds a segment, and as long as     *)
(* nothing has leaked it is the segment of the place (types/context.h).    *)
PathInv ==
  /\ FramesPlaced /\ Chained
  /\ DepthCounted /\ PathTraced /\ SlotsFilled /\ ThrowFilled
  /\ \A c \in 1 .. Len(ctx) : Located(ctx[c])
=============================================================================
