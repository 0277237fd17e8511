------------------------------- MODULE Verdict -------------------------------
(***************************************************************************)
(* What the library promises its callers, with no engine in sight.  Calls  *)
(* of validate and valid? nest (a block or a callable may make one); each  *)
(* ends exactly once, innermost first.  valid? answers whether the         *)
(* document conforms; validate hands its block at least one error when it  *)
(* does not and none when it does.  A call may instead be left by an       *)
(* exception or by its block's break.                                      *)
(***************************************************************************)
EXTENDS Naturals, Sequences

CONSTANTS
  AnyCall,   (* The calls that can be made.                                *)
  Conforming (* Those whose document conforms to its schema.               *)

VARIABLES open, ended

vvars == <<open, ended>>

None == [outcome |-> "none"]
Last == open[Len(open)]
Front == SubSeq(open, 1, Len(open) - 1)

VInit == open = <<>> /\ ended = None

Open ==
  /\ Len(open') = Len(open) + 1
  /\ \E call \in AnyCall :
       open' = Append(open, [call |-> call, reported |-> FALSE, disturbed |-> FALSE])
  /\ ended' = ended

(* The block is given an error: only by validate, and only when there is   *)
(* something to report, unless a callable failed on a value it accepts.    *)
Report ==
  /\ open # <<>>
  /\ Last.call.fn = "rb_validate" /\ ~Last.reported
  /\ open' = [open EXCEPT ![Len(open)].reported = TRUE]
  /\ ended' = ended
  /\ Last.call \notin Conforming \/ Last.disturbed

Disturb ==
  /\ open # <<>>
  /\ open' = [open EXCEPT ![Len(open)].disturbed = TRUE]
  /\ ended' = ended

Answer(outcome) ==
  /\ open # <<>>
  /\ open' = Front
  /\ ended' = [outcome |-> outcome, call |-> Last.call,
               reported |-> Last.reported, disturbed |-> Last.disturbed]

AnswerValid ==
  \E b \in BOOLEAN :
    /\ Answer(IF b THEN "true" ELSE "false")
    /\ Last.call.fn = "rb_valid"
    /\ ~Last.disturbed => b = (Last.call \in Conforming)

AnswerValidate ==
  /\ Answer("nil")
  /\ Last.call.fn = "rb_validate"
  /\ ~Last.disturbed => (Last.reported <=> Last.call \notin Conforming)

(* An exception leaves any call; a break only a validate whose block runs, *)
(* which has been given an error.                                          *)
Leave ==
  \/ Answer("raised")
  \/ open # <<>> /\ Last.reported /\ Answer("broken")

VNext == Open \/ Report \/ Disturb \/ AnswerValid \/ AnswerValidate \/ Leave

VSpec == VInit /\ [][VNext]_vvars
=============================================================================
