----------------------------- MODULE PlanShapes -----------------------------
(***************************************************************************)
(* What every plan does to Context.path and depth.  INCR_CONTEXT and       *)
(* DECR_CONTEXT enclose the body of a loop over items or members, and      *)
(* occur nowhere else; ADD_TO_CONTEXT comes first in what is done for one  *)
(* item or member, and writes a slot of that loop's level.                 *)
(***************************************************************************)
EXTENDS Handlers

PathOp == {"INCR_CONTEXT", "DECR_CONTEXT", "ADD_TO_CONTEXT"}
LoopFn == ArrayFn \cup {"validate_properties"}

(* The steps a function may take at any place in the document.             *)
Plain == {x \in Step : x.do \notin PathOp \cup {"validate_object_property"}}

(* todo may be what is left of a plan of fn.  validate_properties leaves   *)
(* the writing of the slot to validate_object_property, which it calls     *)
(* before the slot is written, and which nobody else calls.                *)
Remains(fn, todo) ==
  \A k \in 1 .. Len(todo) :
    /\ todo[k].do = "INCR_CONTEXT" =>
         /\ fn \in LoopFn /\ k = 1
         /\ fn \in ArrayFn => todo[2].do \in {"ADD_TO_CONTEXT", "DECR_CONTEXT"}
    /\ todo[k].do = "DECR_CONTEXT" <=> fn \in LoopFn /\ k = Len(todo)
    /\ todo[k].do = "ADD_TO_CONTEXT" =>
         /\ todo[k].at # Nil
         /\ fn \in ArrayFn \/ (fn = "validate_object_property" /\ k = 1)
    /\ todo[k].do = "validate_object_property" => fn = "validate_properties"
    /\ fn = "validate_properties" =>
         todo[k].do \in {"INCR_CONTEXT", "DECR_CONTEXT", "validate_object_property"}

(* plan may be a whole plan of fn.                                         *)
Whole(fn, plan) ==
  /\ Remains(fn, plan)
  /\ plan # <<>> =>
       /\ fn \in LoopFn => Head(plan).do = "INCR_CONTEXT"
       /\ fn = "validate_object_property" => Head(plan).do = "ADD_TO_CONTEXT"
=============================================================================
