------------------------------ MODULE Answers ------------------------------
(***************************************************************************)
(* Why the engine's answers are the right ones: that Validation implements *)
(* Verdict, and the invariant this rests on.                               *)
(*                                                                         *)
(* Every frame has a question, whether the function it runs accepts the    *)
(* value it was called with (Accepts, read off Semantics).  A step that    *)
(* fails answers it with no, for every frame down to the nearest is_valid  *)
(* or to the call itself; a frame that comes to its end with no error      *)
(* reported answers it with yes.                                           *)
(***************************************************************************)
EXTENDS Validation, Semantics

(***************************************************************************)
(* What a function accepts.                                                *)
(***************************************************************************)
(* The functions validate_by_data_type and validate_by_type_list select    *)
(* from, and the type functions proper.                                    *)
HandlerAccepts(fn, s, d) ==
  LET t == Doc[d].type
  IN  CASE fn = "validate_null"    -> t = "null"
        [] fn = "validate_bool"    -> t = "boolean"
        [] fn = "validate_integer" -> /\ t = "integer"
                                      /\ NumberConforms(s, Quotients(Halves(d)), Halves(d))
        [] fn = "validate_number"  -> /\ t \in {"integer", "float"}
                                      /\ NumberConforms(s, Ints, Halves(d))
        [] fn = "validate_string"  -> t = "string" /\ StringConforms(s, d)
        [] fn = "validate_array"   -> t = "array" /\ ArrayConforms(Conforms, s, d)
        [] fn = "validate_object"  -> t = "object" /\ ObjectConforms(Conforms, s, d)
        [] OTHER                   -> TRUE

ListAccepts(s, d) ==
  LET t == Doc[d].type
  IN  \/ t = "other"
      \/ t \in Compiled[s].flags /\ HandlerAccepts(TypeHandler(t), s, d)
      \/ /\ t \notin Compiled[s].flags
         /\ t \in {"integer", "float"} /\ "number" \in Compiled[s].flags
         /\ HandlerAccepts("validate_number", s, d)

(* The three loops over an array, each over its own range of items.        *)
LoopAccepts(fn, s, d) ==
  LET c == Compiled[s]
      items == Doc[d].items
      listed == Len(c.list["itemsList"])
  IN  CASE fn = "validate_items" ->
             \A j \in 1 .. Len(items) : Conforms[c.sub["items"]][items[j]]
        [] fn = "validate_with_multiple_items_schema" ->
             \A j \in 1 .. Len(items) :
               j <= listed => Conforms[c.list["itemsList"][j]][items[j]]
        [] OTHER ->
             \A j \in listed + 1 .. Len(items) :
               Conforms[c.sub["additionalItems"]][items[j]]

CombinatorAccepts(fn, s, d) ==
  CASE fn = "validate_if"     -> IfConforms(Conforms, s, d)
    [] fn = "validate_not"    -> ~Conforms[Compiled[s].sub["not"]][d]
    [] fn = "validate_all_of" ->
         Holding(Conforms, s, "allOf", d) = 1 .. Len(Compiled[s].list["allOf"])
    [] fn = "validate_any_of" -> Holding(Conforms, s, "anyOf", d) # {}
    [] fn = "validate_one_of" -> Cardinality(Holding(Conforms, s, "oneOf", d)) = 1
    [] OTHER                  -> ContainsConforms(Conforms, s, d)

(* A struct's own function answers for the struct.                         *)
Accepts(fn, s, d, i) ==
  IF fn \in SessionFn \cup {"is_valid", Compiled[s].fn} THEN Conforms[s][d] ELSE
  CASE fn \in {"false_validate", "yield_error"} -> FALSE
    [] fn = "validate_ref"           -> Conforms[Compiled[s].sub["ref"]][d]
    [] fn = "validate"               -> KeywordsHold(Conforms, s, d) /\ ~Refused(s, d)
    [] fn = "validate_by_data_type"  -> HandlerAccepts(TypeHandler(Doc[d].type), s, d)
    [] fn = "validate_by_type_list"  -> ListAccepts(s, d)
    [] fn = "validate_custom_format" -> d \in Compiled[s].formatOk \ Compiled[s].formatRaise
    [] fn \in ArrayFn                -> LoopAccepts(fn, s, d)
    [] fn \in Combinator             -> CombinatorAccepts(fn, s, d)
    [] fn = "validate_properties"    ->
         \A j \in 1 .. Len(Doc[d].members) : MemberConforms(Conforms, s, Doc[d].members[j])
    [] fn = "validate_object_property" ->
         i \in 1 .. Len(Doc[d].members) => MemberConforms(Conforms, s, Doc[d].members[i])
    [] OTHER                         -> HandlerAccepts(fn, s, d)

(* A step that reports, or calls a function that does not accept its       *)
(* value; and a step of which all is known: it neither fails nor raises.   *)
Fails(step) == step.do \in CallFn /\ ~Accepts(step.do, step.cs, step.d, step.i)
Harmless(step) == ~Fails(step) /\ step.do # "raise"
StepsOf(todo) == {todo[j] : j \in 1 .. Len(todo)}

-----------------------------------------------------------------------------
(***************************************************************************)
(* One frame.                                                              *)
(***************************************************************************)
Goal(f) == Accepts(f.fn, f.cs, f.d, f.i)

Deciding == {"branch", "then", "else"}
Labelled(f) ==
  /\ f.pc \in Deciding => f.fn \in Combinator \cup {"rb_valid"}
  /\ f.pc \in {"then", "else"} => f.fn = "validate_if" /\ Has(f.cs, f.pc)
  /\ f.pc = "block" => f.fn = "yield_error"
  /\ f.pc = "called" => f.fn \in {"yield_error", "validate_custom_format"}
  /\ f.pc = "loop" => f.fn \in DecidingFn
  /\ f.fn \in {"rb_valid", "yield_error"} => f.pc # "plan"

(* The branch, item or schema an is_valid above the frame is asked about.  *)
AskedOf(cs, d) == [cs |-> cs, d |-> d]
Asked(f) ==
  CASE f.fn \in BranchFn           -> AskedOf(BranchList(f)[f.i], f.d)
    [] f.fn = "validate_contains"  ->
         AskedOf(Compiled[f.cs].sub["contains"], Doc[f.d].items[f.i])
    [] f.fn = "validate_not"       -> AskedOf(Compiled[f.cs].sub["not"], f.d)
    [] f.fn = "validate_if"        ->
         AskedOf(Compiled[f.cs].sub[IF f.pc = "branch" THEN "if" ELSE f.pc], f.d)
    [] OTHER                       -> AskedOf(f.cs, f.d)

(* What a loop over branches or items has tried, and those that held.      *)
Choices(f) == IF f.fn = "validate_contains" THEN Len(Doc[f.d].items) ELSE Len(BranchList(f))
Holds(f, j) ==
  IF f.fn = "validate_contains"
    THEN Conforms[Compiled[f.cs].sub["contains"]][Doc[f.d].items[j]]
    ELSE Conforms[BranchList(f)[j]][f.d]
Counting == BranchFn \cup {"validate_contains"}
Tried(f) == IF f.pc = "branch" THEN f.i - 1 ELSE f.i
Counted(f) == f.n = Cardinality({j \in 1 .. Tried(f) : Holds(f, j)})

Shaped(f) ==
  /\ Labelled(f)
  /\ f.fn \in Counting /\ f.pc # "plan" =>
       f.i <= Choices(f) /\ (f.pc = "branch" => f.i > 0) /\ (f.pc = "enter" => f.n = 0 /\ f.i = 0)

(* What the frame has counted, chosen or queued is right.                  *)
Right(f) ==
  /\ f.fn \in Counting /\ f.pc # "plan" => Counted(f)
  /\ f.pc \in {"then", "else"} => (f.pc = "then" <=> Conforms[Compiled[f.cs].sub["if"]][f.d])
  /\ f.pc = "plan" /\ (\E step \in StepsOf(f.todo) : Fails(step)) => ~Goal(f)

(* If the rest of the plan is harmless, the value is accepted.             *)
Completes(f) == f.pc = "plan" /\ (\A step \in StepsOf(f.todo) : Harmless(step)) => Goal(f)

(* The frame g above f: a call that f made, for what f said it would be.   *)
Joined(f, g) ==
  CASE g.fn \in SessionFn -> f.pc = "called"
    [] g.fn = "is_valid"  -> f.pc \in Deciding /\ AskedOf(g.cs, g.d) = Asked(f)
    [] OTHER              -> f.pc = "plan"

-----------------------------------------------------------------------------
(***************************************************************************)
(* The stack.                                                              *)
(***************************************************************************)
(* Whether the answers of a validation can be trusted: no callable failed  *)
(* on a value it accepts.                                                  *)
Sure(c) == ~ctx[c].disturbed
Reported(c) == ctx[c].errors # <<>>
Truth(c) == Conforms[ctx[c].call.cs][ctx[c].call.d]
Caught(j) == \E k \in 1 .. j : Catching(k, stack[j].c)

FramesRight ==
  \A j \in 1 .. Len(stack) :
    Shaped(stack[j]) /\ (Sure(stack[j].c) => Right(stack[j]))

(* What a frame's function was called for fails with it.                   *)
FramesJoined ==
  \A j \in 1 .. Len(stack) - 1 :
    /\ Joined(stack[j], stack[j + 1])
    /\ stack[j + 1].fn \in CallFn /\ Sure(stack[j].c) /\ ~Goal(stack[j + 1])
         => ~Goal(stack[j])

(* A frame completes if the one above it does, and no error was reported.  *)
(* While an exit is under way the top frame has lost the one above it.     *)
FramesComplete ==
  \A j \in 1 .. Len(stack) :
    /\ Sure(stack[j].c) /\ (Caught(j) \/ ~Reported(stack[j].c))
    /\ IF j = Len(stack) THEN exc = "none" ELSE Goal(stack[j + 1])
    => Completes(stack[j])

(* An error outside every is_valid is an error of the call, and only       *)
(* validate has such frames.                                               *)
FramesAnswer ==
  \A j \in 1 .. Len(stack) :
    LET c == stack[j].c
    IN  ~Caught(j) =>
          /\ stack[j].fn \in SessionFn \/ ctx[c].call.fn = "rb_validate"
          /\ Sure(c) /\ ~Goal(stack[j]) => ~Truth(c)

SessionsMatch ==
  \A j \in 1 .. Len(stack) :
    stack[j].fn \in SessionFn =>
      ctx[stack[j].c].call = [fn |-> stack[j].fn, cs |-> stack[j].cs, d |-> stack[j].d]

ReportsTrue ==
  \A c \in 1 .. Len(ctx) :
    Reported(c) => ctx[c].call.fn = "rb_validate" /\ (Sure(c) => ~Truth(c))

BlocksHaveErrors == \A j \in 1 .. Len(stack) : YieldingTo(j) => Reported(stack[j].c)

(* What is_valid answered, and what the exit under way means.              *)
ReturnTrue ==
  Running /\ Top.pc \in Deciding /\ Sure(Top.c) => (ret <=> Conforms[Asked(Top).cs][Asked(Top).d])

ExitTrue ==
  /\ stack = <<>> => exc = "none"
  /\ exc = "throw" /\ Sure(Top.c) => ~Goal(Top)
  /\ exc = "break" => Reported(Top.c)

(* Each frame's answer is the one Semantics gives: a step that fails means *)
(* that the value is not accepted, up to the nearest is_valid, and a plan  *)
(* that ends with no error means that it is; is_valid's answer is that of  *)
(* the schema it was asked about, whether it came by a return or a throw.  *)
AnswerInv ==
  /\ FramesRight /\ FramesJoined /\ FramesComplete /\ FramesAnswer
  /\ SessionsMatch /\ ReportsTrue /\ BlocksHaveErrors /\ ReturnTrue /\ ExitTrue

-----------------------------------------------------------------------------
(* What a caller sees of the calls under way.                              *)
Shown(contexts) ==
  [j \in 1 .. Len(contexts) |->
     [call |-> contexts[j].call, reported |-> contexts[j].errors # <<>>,
      disturbed |-> contexts[j].disturbed]]

Promise ==
  INSTANCE Verdict WITH
    AnyCall    <- Calls \cup NestedCalls,
    Conforming <- {call \in Call : Conforms[call.cs][call.d]},
    open       <- Shown(ctx),
    ended      <- last

(* The engine keeps the promise of Verdict: valid? answers true exactly    *)
(* for the values that conform, and validate hands its block an error      *)
(* exactly for the values that do not.  A value conforms when draft 7 says *)
(* so of it and its parts, but for the two kinds of number that the        *)
(* functions refuse against it: WholeFloat and WideQuotient of Semantics.  *)
KeepsPromise == Promise!VSpec
=============================================================================
