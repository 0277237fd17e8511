----------------------------- MODULE Validation -----------------------------
(***************************************************************************)
(* Running a validation: the C stack under Schema#validate and             *)
(* Schema#valid?, the Context each call owns, the throw that abandons a    *)
(* branch of is_valid, Ruby exceptions, and the user code (the block given *)
(* to validate, the callables of custom formats) that runs in the middle   *)
(* of it and may start a validation of its own.                            *)
(***************************************************************************)
EXTENDS Handlers

CONSTANTS
  Calls,        (* Calls the application makes: [fn, cs, d] records.       *)
  NestedCalls,  (* Calls that blocks and callables make.                   *)
  MaxDepth,     (* MAX_CONTEXT_DEPTH.                                      *)
  MaxSessions   (* Bound on calls under way at once, one inside another.   *)

Call == [fn : {"rb_validate", "rb_valid"}, cs : Schema, d : Data]

ASSUME CallsAssumption    == Calls \subseteq Call /\ NestedCalls \subseteq Call
ASSUME MaxDepthAssumption == MaxDepth \in Nat \ {0}
ASSUME MaxSessionsAssumption == MaxSessions \in Nat \ {0}

VARIABLES
  stack,  (* C frames of the thread, innermost last.                       *)
  ctx,    (* The Context of every validation under way, innermost last.    *)
  ret,    (* What the last is_valid answered.                              *)
  exc,    (* The non-local exit under way, if any.                         *)
  last    (* The validation that ended last and how it ended.              *)

vars == <<stack, ctx, ret, exc, last>>

(***************************************************************************)
(* A frame.  "todo" is what is left of the function's plan, "c" the index  *)
(* of its context in ctx, "saved" is_valid's prev_short_circuit, "i" and   *)
(* "n" a combinator's loop index and valid_count.  "loc" is a history      *)
(* field, read by no action's guard: the place in the document the frame   *)
(* works at, which is what Context.path is meant to spell out.             *)
(***************************************************************************)
SessionFn == {"rb_validate", "rb_valid"}
Label == {"enter", "plan", "loop", "branch", "then", "else", "block", "called"}
Frame == [fn : FnName, cs : Schema, d : Data, todo : Seq(Step), err : ErrorType,
          pc : Label, i : Nat, n : Nat, saved : BOOLEAN, c : Nat,
          loc : Seq(Segment)]

(***************************************************************************)
(* A Context, with history fields: the call it serves, the errors yielded, *)
(* the levels a throw left on it ("leaks"), and whether a callable raised  *)
(* on a value its format accepts ("disturbed").                            *)
(***************************************************************************)
Error   == [cs : Schema, d : Data, type : ErrorType, path : Seq(Segment),
            loc : Seq(Segment), leaks : Int]
Context == [path : [0 .. MaxDepth - 1 -> Segment], depth : Int, flag : BOOLEAN,
            call : Call, errors : Seq(Error), leaks : Int, disturbed : BOOLEAN]

Outcome == {"true", "false", "nil", "raised", "broken"}
NoResult == [outcome |-> "none"]
Result == [outcome : Outcome, call : Call, reported : BOOLEAN, disturbed : BOOLEAN]

(* The C stack, the contexts and the registers of the run have their types:*)
(* every step queued names a function, schema and value that exist, every  *)
(* error one of the library's error types (schema.c, error.c).             *)
TypeOK ==
  /\ stack \in Seq(Frame)
  /\ ctx \in Seq(Context)
  /\ ret \in BOOLEAN
  /\ exc \in {"none", "throw", "raise", "break", "overrun"}
  /\ last \in Result \cup {NoResult}

-----------------------------------------------------------------------------
(***************************************************************************)
(* The stack.                                                              *)
(***************************************************************************)
Top == stack[Len(stack)]
Below == SubSeq(stack, 1, Len(stack) - 1)
Replace(f) == [stack EXCEPT ![Len(stack)] = f]

NewFrame(step, c, loc) ==
  [fn |-> step.do, cs |-> step.cs, d |-> step.d,
   todo |-> <<>>, err |-> step.err, pc |-> "enter", i |-> step.i, n |-> 0,
   saved |-> FALSE, c |-> c, loc |-> loc]

(* The top frame continues as f; the frame on top of it runs step.         *)
CallStep(f, step) == stack' = Append(Replace(f), NewFrame(step, f.c, f.loc))
Goto(f)   == stack' = Replace(f)
Return    == stack' = Below

(* The function has nothing left to decide: it performs plan and returns.  *)
Conclude(f, plan) == Goto([f EXCEPT !.pc = "plan", !.todo = plan])

Running == exc = "none" /\ stack # <<>>
At(fn, pc) == Running /\ Top.fn = fn /\ Top.pc = pc

Cur == ctx[Top.c]
SetContext(r) == ctx' = [ctx EXCEPT ![Top.c] = r]

(* Mutant: the context of a nested call inherits the flag of the call that *)
(* is waiting for it.                                                      *)
NewContextInheriting(call) ==
  [path |-> [j \in 0 .. MaxDepth - 1 |-> IF j = 0 THEN Root ELSE Nil],
   depth |-> 0, flag |-> ctx # <<>> /\ ctx[Len(ctx)].flag, call |-> call,
   errors |-> <<>>, leaks |-> 0, disturbed |-> FALSE]

(* Mutant: a nested call goes on at the depth of the call that waits.      *)
NewContextDeep(call) ==
  [path |-> [j \in 0 .. MaxDepth - 1 |-> IF j = 0 THEN Root ELSE Nil],
   depth |-> IF ctx = <<>> THEN 0 ELSE ctx[Len(ctx)].depth, flag |-> FALSE,
   call |-> call, errors |-> <<>>, leaks |-> 0, disturbed |-> FALSE]

NewContext(call) ==
  [path |-> [j \in 0 .. MaxDepth - 1 |-> IF j = 0 THEN Root ELSE Nil],
   depth |-> 0, flag |-> FALSE, call |-> call, errors |-> <<>>, leaks |-> 0,
   disturbed |-> FALSE]

-----------------------------------------------------------------------------
(***************************************************************************)
(* Schema#validate and Schema#valid? (schema.c): a fresh context, the root *)
(* schema's validation function, directly or under is_valid.               *)
(***************************************************************************)
OpenSession(base, call) ==
  /\ Len(ctx) < MaxSessions
  /\ ctx' = Append(ctx, NewContext(call))
  /\ stack' = Append(base, NewFrame(Do(call.fn, call.cs, call.d, 0),
                                    Len(ctx) + 1, <<Root>>))

Start ==
  /\ stack = <<>> /\ last = NoResult
  /\ \E call \in Calls : OpenSession(<<>>, call)
  /\ UNCHANGED <<ret, exc, last>>

CloseSession(outcome) ==
  /\ stack' = Below
  /\ ctx' = SubSeq(ctx, 1, Len(ctx) - 1)
  /\ last' = [outcome |-> outcome, call |-> Cur.call,
              reported |-> Cur.errors # <<>>, disturbed |-> Cur.disturbed]

ValidateReturns ==
  /\ At("rb_validate", "plan") /\ Top.todo = <<>>
  /\ CloseSession("nil")
  /\ UNCHANGED <<ret, exc>>

(***************************************************************************)
(* is_valid.c.  Entering saves the flag and sets it; leaving, in whatever  *)
(* way, restores it.  Of the path, nothing is saved.                       *)
(***************************************************************************)
(* Mutant: the flag is set without saving the previous one.                *)
EnterIsValidUnsaved(f, s, d) ==
  /\ stack' = Append(Replace(f), NewFrame(Do("is_valid", s, d, 0), f.c, f.loc))
  /\ SetContext([Cur EXCEPT !.flag = TRUE])
  /\ UNCHANGED <<ret, exc, last>>

EnterIsValid(f, s, d) ==
  /\ stack' = Append(Replace(f),
                     [NewFrame(Do("is_valid", s, d, 0), f.c, f.loc)
                        EXCEPT !.saved = Cur.flag])
  /\ SetContext([Cur EXCEPT !.flag = TRUE])
  /\ UNCHANGED <<ret, exc, last>>

(* Mutant: the flag is cleared on the way out instead of restored.         *)
IsValidEnsureClearing == SetContext([Cur EXCEPT !.flag = FALSE])

IsValidEnsure == SetContext([Cur EXCEPT !.flag = Top.saved])

(* Mutant: a normal end leaves the answer of the branch before.            *)
IsValidReturnsStale ==
  /\ At("is_valid", "plan") /\ Top.todo = <<>>
  /\ IsValidEnsure
  /\ Return
  /\ UNCHANGED <<ret, exc, last>>

IsValidReturns ==
  /\ At("is_valid", "plan") /\ Top.todo = <<>>
  /\ IsValidEnsure
  /\ ret' = TRUE
  /\ Return
  /\ UNCHANGED <<exc, last>>

ValidCalls ==
  /\ At("rb_valid", "loop")
  /\ EnterIsValid([Top EXCEPT !.pc = "branch"], Top.cs, Top.d)

ValidReturns ==
  /\ At("rb_valid", "branch")
  /\ CloseSession(IF ret THEN "true" ELSE "false")
  /\ UNCHANGED <<ret, exc>>

-----------------------------------------------------------------------------
(***************************************************************************)
(* Executing a plan.                                                       *)
(***************************************************************************)
Pending(do) ==
  /\ Running /\ Top.pc = "plan" /\ Top.todo # <<>>
  /\ Head(Top.todo).do \in do
Advanced == [Top EXCEPT !.todo = Tail(@)]

(* A function that was called starts: it has a plan, or decides.           *)
Enter ==
  /\ Running /\ Top.pc = "enter"
  /\ IF Top.fn \in DecidingFn
       THEN Goto([Top EXCEPT !.pc = "loop"])
       ELSE Conclude(Top, Plan(Top.fn, Top.cs, Top.d, Top.i))
  /\ UNCHANGED <<ctx, ret, exc, last>>

Perform ==
  /\ Pending(CallFn)
  /\ CallStep(Advanced, Head(Top.todo))
  /\ UNCHANGED <<ctx, ret, exc, last>>

PassOver ==
  /\ Pending({"skip"})
  /\ Goto(Advanced)
  /\ UNCHANGED <<ctx, ret, exc, last>>

(* A Ruby exception out of a check: RangeError from NUM2LONG.              *)
RaiseError ==
  /\ Pending({"raise"})
  /\ exc' = "raise"
  /\ UNCHANGED <<stack, ctx, ret, last>>

(* INCR_CONTEXT: the depth stays incremented when it raises.               *)
IncrContext ==
  /\ Pending({"INCR_CONTEXT"})
  /\ Goto([Advanced EXCEPT !.loc = Append(@, Nil)])
  /\ SetContext([Cur EXCEPT !.depth = @ + 1])
  /\ exc' = IF Cur.depth + 1 > MaxDepth THEN "raise" ELSE "none"
  /\ UNCHANGED <<ret, last>>

(* Mutant: the level is not popped.                                        *)
DecrContextForgotten ==
  /\ Pending({"DECR_CONTEXT"})
  /\ Goto([Advanced EXCEPT !.loc = SubSeq(@, 1, Len(@) - 1)])
  /\ UNCHANGED <<ctx, ret, exc, last>>

DecrContext ==
  /\ Pending({"DECR_CONTEXT"})
  /\ Goto([Advanced EXCEPT !.loc = SubSeq(@, 1, Len(@) - 1)])
  /\ SetContext([Cur EXCEPT !.depth = @ - 1])
  /\ UNCHANGED <<ret, exc, last>>

(* Mutant: the slot written is the parent's.                               *)
AddToParent ==
  /\ Pending({"ADD_TO_CONTEXT"})
  /\ LET seg == Head(Top.todo).at
     IN  /\ Goto([Advanced EXCEPT !.loc = Append(SubSeq(@, 1, Len(@) - 1), seg)])
         /\ IF Cur.depth - 1 \in 0 .. MaxDepth - 1
              THEN /\ SetContext([Cur EXCEPT !.path[Cur.depth - 1] = seg])
                   /\ exc' = exc
              ELSE ctx' = ctx /\ exc' = "overrun"
  /\ UNCHANGED <<ret, last>>

(* ADD_TO_CONTEXT: path[depth] = value, whatever depth is.  A write past   *)
(* the last slot is undefined behaviour and ends the behaviours modelled.  *)
AddToContext ==
  /\ Pending({"ADD_TO_CONTEXT"})
  /\ LET seg == Head(Top.todo).at
     IN  /\ Goto([Advanced EXCEPT !.loc = Append(SubSeq(@, 1, Len(@) - 1), seg)])
         /\ IF Cur.depth \in 0 .. MaxDepth - 1
              THEN /\ SetContext([Cur EXCEPT !.path[Cur.depth] = seg])
                   /\ exc' = exc
              ELSE ctx' = ctx /\ exc' = "overrun"
  /\ UNCHANGED <<ret, last>>

PlanReturns ==
  /\ Running /\ Top.pc = "plan" /\ Top.todo = <<>>
  /\ Top.fn \notin SessionFn \cup {"is_valid"}
  /\ Return
  /\ UNCHANGED <<ctx, ret, exc, last>>

-----------------------------------------------------------------------------
(***************************************************************************)
(* Combinators: the functions that branch on what is_valid answers.        *)
(***************************************************************************)
BranchList(f) ==
  CASE f.fn = "validate_all_of" -> Compiled[f.cs].list["allOf"]
    [] f.fn = "validate_any_of" -> Compiled[f.cs].list["anyOf"]
    [] OTHER                    -> Compiled[f.cs].list["oneOf"]

(* Mutant: oneOf stops at its first valid branch.                          *)
DecidedEarly(f) ==
  CASE f.fn = "validate_any_of" -> f.n > 0
    [] f.fn = "validate_one_of" -> f.n > 0
    [] OTHER                    -> FALSE

(* The test that ends a loop before its last branch.                       *)
Decided(f) ==
  CASE f.fn = "validate_any_of" -> f.n > 0
    [] f.fn = "validate_one_of" -> f.n > 1
    [] OTHER                    -> FALSE

Verdict(f) ==
  CASE f.fn = "validate_all_of" ->
         ErrIf(f.n # Len(BranchList(f)), f.cs, f.d, "allOf")
    [] f.fn = "validate_any_of" -> ErrIf(f.n = 0, f.cs, f.d, "anyOf")
    [] OTHER                    -> ErrIf(f.n # 1, f.cs, f.d, "oneOf")

BranchFn == {"validate_all_of", "validate_any_of", "validate_one_of"}

(* Mutant: the loop over the branches does not advance.                    *)
TryBranchAgain ==
  /\ \E fn \in BranchFn : At(fn, "loop")
  /\ ~Decided(Top) /\ Top.i < Len(BranchList(Top))
  /\ EnterIsValid([Top EXCEPT !.pc = "branch"], BranchList(Top)[Top.i + 1], Top.d)

TryBranch ==
  /\ \E fn \in BranchFn : At(fn, "loop")
  /\ ~Decided(Top) /\ Top.i < Len(BranchList(Top))
  /\ EnterIsValid([Top EXCEPT !.pc = "branch", !.i = @ + 1],
                  BranchList(Top)[Top.i + 1], Top.d)

CountBranch ==
  /\ \E fn \in BranchFn \cup {"validate_contains"} : At(fn, "branch")
  /\ Goto([Top EXCEPT !.pc = "loop", !.n = IF ret THEN @ + 1 ELSE @])
  /\ UNCHANGED <<ctx, ret, exc, last>>

EndBranches ==
  /\ \E fn \in BranchFn : At(fn, "loop")
  /\ Decided(Top) \/ Top.i = Len(BranchList(Top))
  /\ Conclude(Top, Verdict(Top))
  /\ UNCHANGED <<ctx, ret, exc, last>>

(* contains: every item is tried, at the array's own path level.           *)
ContainsVerdict(f) ==
  LET c == Compiled[f.cs]
  IN  Limit(f.cs, f.d, "maxContains", f.n > c.limit["maxContains"])
        \o Limit(f.cs, f.d, "minContains", f.n < c.limit["minContains"])
        \o ErrIf(~Has(f.cs, "minContains") /\ f.n = 0,
                 c.sub["contains"], f.d, "contains")

TryItem ==
  /\ At("validate_contains", "loop") /\ Top.i < Len(Doc[Top.d].items)
  /\ EnterIsValid([Top EXCEPT !.pc = "branch", !.i = @ + 1],
                  Compiled[Top.cs].sub["contains"], Doc[Top.d].items[Top.i + 1])

EndContains ==
  /\ At("validate_contains", "loop") /\ Top.i = Len(Doc[Top.d].items)
  /\ Conclude(Top, ContainsVerdict(Top))
  /\ UNCHANGED <<ctx, ret, exc, last>>

TryNot ==
  /\ At("validate_not", "loop")
  /\ EnterIsValid([Top EXCEPT !.pc = "branch"], Compiled[Top.cs].sub["not"], Top.d)

EndNot ==
  /\ At("validate_not", "branch")
  /\ Conclude(Top, ErrIf(ret, Compiled[Top.cs].sub["not"], Top.d, "not"))
  /\ UNCHANGED <<ctx, ret, exc, last>>

(* if: skipped when neither then nor else is there.                        *)
TryIf ==
  /\ At("validate_if", "loop")
  /\ Has(Top.cs, "then") \/ Has(Top.cs, "else")
  /\ EnterIsValid([Top EXCEPT !.pc = "branch"], Compiled[Top.cs].sub["if"], Top.d)

Chosen == IF ret THEN "then" ELSE "else"

TryChosen ==
  /\ At("validate_if", "branch") /\ Has(Top.cs, Chosen)
  /\ EnterIsValid([Top EXCEPT !.pc = Chosen], Compiled[Top.cs].sub[Chosen], Top.d)

NothingChosen ==
  /\ \/ At("validate_if", "loop") /\ ~Has(Top.cs, "then") /\ ~Has(Top.cs, "else")
     \/ At("validate_if", "branch") /\ ~Has(Top.cs, Chosen)
  /\ Conclude(Top, <<>>)
  /\ UNCHANGED <<ctx, ret, exc, last>>

(* Mutant: the error is named after the bare keyword.                      *)
EndIfMisnamed ==
  /\ Running /\ Top.fn = "validate_if" /\ Top.pc \in {"then", "else"}
  /\ Conclude(Top, ErrIf(~ret, Compiled[Top.cs].sub[Top.pc], Top.d, Top.pc))
  /\ UNCHANGED <<ctx, ret, exc, last>>

EndIf ==
  /\ Running /\ Top.fn = "validate_if" /\ Top.pc \in {"then", "else"}
  /\ Conclude(Top, ErrIf(~ret, Compiled[Top.cs].sub[Top.pc], Top.d,
                         IF Top.pc = "then" THEN "if/then" ELSE "if/else"))
  /\ UNCHANGED <<ctx, ret, exc, last>>

-----------------------------------------------------------------------------
(***************************************************************************)
(* error.c: under is_valid an error is a throw; otherwise it is built from *)
(* the path (to_path raises on a slot that is neither String nor Integer)  *)
(* and yielded to the block.                                               *)
(***************************************************************************)
ShortCircuit ==
  /\ At("yield_error", "loop") /\ Cur.flag
  /\ exc' = "throw"
  /\ UNCHANGED <<stack, ctx, ret, last>>

PathOf(r) == [j \in 1 .. r.depth + 1 |-> r.path[j - 1]]

YieldToBlock ==
  /\ At("yield_error", "loop") /\ ~Cur.flag
  /\ IF Cur.depth \notin 0 .. MaxDepth - 1
       THEN exc' = "overrun" /\ UNCHANGED <<stack, ctx>>
       ELSE IF \E j \in 0 .. Cur.depth : Cur.path[j] = Nil
       THEN exc' = "raise" /\ UNCHANGED <<stack, ctx>>
       ELSE /\ SetContext([Cur EXCEPT !.errors = Append(@,
                 [cs |-> Top.cs, d |-> Top.d, type |-> Top.err,
                  path |-> PathOf(Cur), loc |-> Top.loc, leaks |-> Cur.leaks])])
            /\ Goto([Top EXCEPT !.pc = "block"])
            /\ exc' = exc
  /\ UNCHANGED <<ret, last>>

(***************************************************************************)
(* User code: a block that has been given an error, or the callable of a   *)
(* custom format.  Either may call validate or valid? (once, to keep the   *)
(* model finite) before it ends; when that call raises, it may rescue.     *)
(***************************************************************************)
InBlock    == Running /\ Top.fn = "yield_error" /\ Top.pc \in {"block", "called"}
InCallable == Running /\ Top.fn = "validate_custom_format" /\ Top.pc \in {"loop", "called"}

UserCodeCalls ==
  /\ \/ At("yield_error", "block")
     \/ At("validate_custom_format", "loop")
  /\ \E call \in NestedCalls : OpenSession(Replace([Top EXCEPT !.pc = "called"]), call)
  /\ UNCHANGED <<ret, exc, last>>

BlockReturns ==
  /\ InBlock
  /\ Return
  /\ UNCHANGED <<ctx, ret, exc, last>>

(* The block raises, or breaks out of the validate call.                   *)
BlockLeaves ==
  /\ InBlock
  /\ exc' \in {"raise", "break"}
  /\ Goto([Top EXCEPT !.pc = "block"])
  /\ UNCHANGED <<ctx, ret, last>>

(* An exception that came out of the call the user code made.              *)
UserCodeRescues ==
  /\ exc = "raise" /\ stack # <<>>
  /\ Top.fn \in {"yield_error", "validate_custom_format"} /\ Top.pc = "called"
  /\ exc' = "none"
  /\ UNCHANGED <<stack, ctx, ret, last>>

FormatError == Err(Top.cs, Top.d, "format")

CallableAnswers ==
  /\ InCallable /\ Top.d \notin Compiled[Top.cs].formatRaise
  /\ Conclude(Top, When(Top.d \notin Compiled[Top.cs].formatOk, FormatError))
  /\ UNCHANGED <<ctx, ret, exc, last>>

CallableRaises ==
  /\ InCallable /\ Top.d \in Compiled[Top.cs].formatRaise
  /\ exc' = "raise"
  /\ Goto([Top EXCEPT !.pc = "loop"])
  /\ UNCHANGED <<ctx, ret, last>>

-----------------------------------------------------------------------------
(***************************************************************************)
(* Unwinding: one frame at a time, until the exit under way is caught.     *)
(***************************************************************************)
Unwinding == exc \in {"throw", "raise", "break"} /\ stack # <<>>

(* Mutant: the flag is restored after the catch, not in an ensure, so an   *)
(* exception or a break passes without restoring it.                       *)
UnwindIsValidNoEnsure ==
  /\ Unwinding /\ Top.fn = "is_valid"
  /\ IF exc = "throw" THEN IsValidEnsure /\ ret' = FALSE /\ exc' = "none"
                      ELSE UNCHANGED <<ctx, ret, exc>>
  /\ Return
  /\ UNCHANGED last

(* is_valid: the ensure runs for every exit; a throw stops at its catch.   *)
UnwindIsValid ==
  /\ Unwinding /\ Top.fn = "is_valid"
  /\ IsValidEnsure
  /\ Return
  /\ IF exc = "throw" THEN ret' = FALSE /\ exc' = "none" ELSE UNCHANGED <<ret, exc>>
  /\ UNCHANGED last

(* rb_protect around a callable stops every exit; it is one more way for   *)
(* the value to fail the format.                                           *)
Protecting(f) == f.fn = "validate_custom_format" /\ f.pc \in {"loop", "called"}

ProtectStops ==
  /\ Unwinding /\ Protecting(Top)
  /\ exc' = "none"
  /\ Conclude(Top, <<FormatError>>)
  /\ SetContext([Cur EXCEPT !.disturbed =
                   @ \/ Top.d \in Compiled[Top.cs].formatOk \ Compiled[Top.cs].formatRaise])
  /\ UNCHANGED <<ret, last>>

(* A break ends at the validate call whose block it leaves; an exception   *)
(* leaves the call too, and is the caller's.                               *)
UnwindSession ==
  /\ Unwinding /\ Top.fn \in SessionFn
  /\ IF exc = "break"
       THEN exc' = "none" /\ CloseSession("broken")
       ELSE /\ exc' = IF Len(stack) = 1 THEN "none" ELSE exc
            /\ CloseSession("raised")
  /\ UNCHANGED ret

(* Any other frame is dropped; DECR_CONTEXT does not run.                  *)
UnwindFrame ==
  /\ Unwinding /\ Top.fn \notin SessionFn \cup {"is_valid"} /\ ~Protecting(Top)
  /\ Return
  /\ SetContext([Cur EXCEPT !.leaks =
                   @ + (Len(Top.loc) - Len(stack[Len(stack) - 1].loc))])
  /\ UNCHANGED <<ret, exc, last>>

-----------------------------------------------------------------------------
(* The application's call has ended, or the model stopped at an overrun.   *)
Finished ==
  /\ \/ stack = <<>> /\ last # NoResult
     \/ exc = "overrun"
  /\ UNCHANGED vars

Init ==
  /\ stack = <<>>
  /\ ctx = <<>>
  /\ ret = FALSE
  /\ exc = "none"
  /\ last = NoResult

SessionStep == Start \/ ValidateReturns \/ ValidCalls \/ ValidReturns \/ IsValidReturns
PlanStep ==
  \/ Enter \/ Perform \/ PassOver \/ RaiseError
  \/ IncrContext \/ DecrContext \/ AddToContext \/ PlanReturns
CombinatorStep ==
  \/ TryBranch \/ CountBranch \/ EndBranches
  \/ TryItem \/ EndContains
  \/ TryNot \/ EndNot
  \/ TryIf \/ TryChosen \/ NothingChosen \/ EndIf
ErrorStep == ShortCircuit \/ YieldToBlock
UserStep ==
  \/ UserCodeCalls \/ BlockReturns \/ BlockLeaves \/ UserCodeRescues
  \/ CallableAnswers \/ CallableRaises
UnwindStep == UnwindIsValid \/ ProtectStops \/ UnwindSession \/ UnwindFrame

Next ==
  \/ SessionStep \/ PlanStep \/ CombinatorStep
  \/ ErrorStep \/ UserStep \/ UnwindStep \/ Finished

Spec == Init /\ [][Next]_vars

(* The thread keeps running, and the user code it runs always ends.        *)
FairSpec == Spec /\ WF_vars(Next)

-----------------------------------------------------------------------------
(***************************************************************************)
(* Properties.                                                             *)
(***************************************************************************)
Catching(j, c) == stack[j].fn = "is_valid" /\ stack[j].c = c
YieldingTo(j)  == stack[j].fn = "yield_error" /\ stack[j].pc \in {"block", "called"}

(* Contexts and frames nest: every frame works for a live context, the top *)
(* one for the innermost, and only validate and valid? start a new one.    *)
Nested ==
  /\ stack = <<>> => ctx = <<>>
  /\ stack # <<>> => /\ stack[1].fn \in SessionFn /\ stack[1].c = 1
                     /\ Top.c = Len(ctx)
  /\ \A j \in 1 .. Len(stack) : stack[j].c \in 1 .. Len(ctx)
  /\ \A j \in 1 .. Len(stack) - 1 :
       stack[j + 1].c = IF stack[j + 1].fn \in SessionFn THEN stack[j].c + 1
                                                        ELSE stack[j].c

(* Frames above user code, or above the call it made, work for a newer     *)
(* context than the frames below.                                          *)
Layered ==
  \A j, k \in 1 .. Len(stack) :
    j < k =>
      /\ stack[j].c <= stack[k].c
      /\ \/ stack[k].fn \in SessionFn \/ Protecting(stack[j]) \/ YieldingTo(j)
         => stack[j].c < stack[k].c

(* prev_short_circuit is whether an is_valid further out already ran.      *)
SavedFlags ==
  \A j \in 1 .. Len(stack) :
    stack[j].fn = "is_valid" =>
      (stack[j].saved <=> \E k \in 1 .. j - 1 : Catching(k, stack[j].c))

(* A context's short_circuit_on_error is set exactly while an is_valid of  *)
(* that context is on the stack, however the earlier ones were left: by a  *)
(* return, a throw, an exception or a break (is_valid.c, ensure).          *)
FlagIffCatch ==
  \A c \in 1 .. Len(ctx) :
    ctx[c].flag <=> \E j \in 1 .. Len(stack) : Catching(j, c)

(* All validations share one short_circuit_tag.  A throw still ends at an  *)
(* is_valid of the context that threw, and crosses neither another         *)
(* validation's frames nor the rb_protect around a callable.               *)
ThrowOwnCatch ==
  exc = "throw" =>
    \E j \in 1 .. Len(stack) :
      /\ stack[j].fn = "is_valid"
      /\ \A k \in j .. Len(stack) :
           /\ stack[k].c = Len(ctx)
           /\ stack[k].fn \notin SessionFn
           /\ ~Protecting(stack[k])

(* The errors of a branch that is only being tried never reach the user:   *)
(* no block runs for a context that has an is_valid on the stack.          *)
QuietInsideIsValid ==
  \A j \in 1 .. Len(stack) :
    YieldingTo(j) => \A k \in 1 .. Len(stack) : ~Catching(k, stack[j].c)

(* The inductive invariant behind the three properties above.              *)
ThrowFlagged == exc = "throw" => Cur.flag /\ stack # <<>> /\ ~Protecting(Top)

IInv ==
  /\ TypeOK /\ Nested /\ Layered
  /\ SavedFlags /\ FlagIffCatch /\ ThrowFlagged /\ QuietInsideIsValid

(* Context.depth is the number of levels the running frame is below the    *)
(* root plus the levels that throws left behind in this validation: normal *)
(* returns balance, and nothing else moves it (INCR_, DECR_CONTEXT).       *)
DepthAccounted ==
  exc = "none" /\ stack # <<>> => Cur.depth = Len(Top.loc) - 1 + Cur.leaks

(* The path of every error yielded is the place of the failing value, as   *)
(* long as no throw has left a level behind; after that it is too long by  *)
(* exactly those levels (error.c, path.c).                                 *)
ErrorsLocated ==
  \A c \in 1 .. Len(ctx) : \A j \in 1 .. Len(ctx[c].errors) :
    LET e == ctx[c].errors[j]
    IN  /\ Len(e.path) = Len(e.loc) + e.leaks
        /\ e.leaks = 0 => e.path = e.loc

(* Every slot up to depth exists and is written when an error is about to  *)
(* be yielded: to_path does not read past the array, and never meets the   *)
(* Qnil it would raise on (path.c).                                        *)
SlotsWritten ==
  At("yield_error", "loop") /\ ~Cur.flag =>
    \A j \in 0 .. Cur.depth : j < MaxDepth /\ Cur.path[j] # Nil

(* Every call ends: no combinator waits for an answer that cannot come.    *)
CallsEnd == (stack # <<>>) ~> (stack = <<>> \/ exc = "overrun")
=============================================================================
