--------------------------- MODULE AnswersProofs ---------------------------
(***************************************************************************)
(* The engine implements Verdict, for every set of schemas and documents.  *)
(* First the plans: what a function queues or decides fails only if the    *)
(* value is not accepted, and is harmless only if it is (PlanTells,        *)
(* VerdictTells, ContainsTells).  Then AnswerInv, place by place: each     *)
(* kind of move of the stack keeps it once (GotoAnswers, PushAnswers,      *)
(* ReturnAnswers, CloseAnswers, OpenAnswers), and each action is such a    *)
(* move.  Last the steps: what a caller sees changes as Verdict allows.    *)
(***************************************************************************)
EXTENDS Answers, ValidationProofs, FiniteSetTheorems

LEMMA Meaning ==
  ASSUME NEW s \in Schema, NEW d \in Data
  PROVE  Conforms[s][d] <=> /\ Says(Conforms, s, d)
                            /\ Compiled[s].fn = "validate" => ~Refused(s, d)
BY MeaningAssumption

(***************************************************************************)
(* Plans tell what they decide.                                            *)
(***************************************************************************)
Tells(todo, fact) ==
  /\ (\E step \in StepsOf(todo) : Fails(step)) => ~fact
  /\ (\A step \in StepsOf(todo) : Harmless(step)) => fact

LEMMA StepsConcat ==
  ASSUME NEW q \in Seq(Step), NEW r \in Seq(Step)
  PROVE  q \o r \in Seq(Step) /\ StepsOf(q \o r) = StepsOf(q) \cup StepsOf(r)
<1> PICK t : t = q \o r
  OBVIOUS
<1>1. /\ Len(q) \in Nat /\ Len(r) \in Nat /\ Len(t) = Len(q) + Len(r)
      /\ \A k \in 1 .. Len(q) : t[k] = q[k]
      /\ \A k \in 1 .. Len(r) : t[Len(q) + k] = r[k]
  BY ConcatSteps
<1>2. \A k \in 1 .. Len(t) : k \in 1 .. Len(q) \/ (k - Len(q) \in 1 .. Len(r) /\ t[k] = r[k - Len(q)])
  <2> TAKE k \in 1 .. Len(t)
  <2>1. CASE k <= Len(q)
    BY <1>1, <2>1
  <2>2. CASE k > Len(q)
    <3>1. k - Len(q) \in 1 .. Len(r) /\ Len(q) + (k - Len(q)) = k
      BY <1>1, <2>2
    <3> QED BY <1>1, <3>1
  <2> QED BY <1>1, <2>1, <2>2
<1>3. /\ \A k \in 1 .. Len(q) : k \in 1 .. Len(t)
      /\ \A k \in 1 .. Len(r) : Len(q) + k \in 1 .. Len(t)
  BY <1>1
<1>4. ASSUME NEW x \in StepsOf(t)
      PROVE  x \in StepsOf(q) \cup StepsOf(r)
  <2>1. PICK k \in 1 .. Len(t) : x = t[k]
    BY DEF StepsOf
  <2> QED BY <1>1, <1>2, <2>1 DEF StepsOf
<1>5. ASSUME NEW x \in StepsOf(q) \cup StepsOf(r)
      PROVE  x \in StepsOf(t)
  <2>1. CASE x \in StepsOf(q)
    <3>1. PICK k \in 1 .. Len(q) : x = q[k]
      BY <2>1 DEF StepsOf
    <3> QED BY <1>1, <1>3, <3>1 DEF StepsOf
  <2>2. CASE x \in StepsOf(r)
    <3>1. PICK k \in 1 .. Len(r) : x = r[k]
      BY <2>2 DEF StepsOf
    <3> QED BY <1>1, <1>3, <3>1 DEF StepsOf
  <2> QED BY <1>5, <2>1, <2>2
<1>6. StepsOf(t) = StepsOf(q) \cup StepsOf(r) /\ t \in Seq(Step)
  BY <1>4, <1>5
<1> QED BY <1>6

(* A plan of two parts, or of five, tells all that its parts tell.         *)
LEMMA TellsBoth ==
  ASSUME NEW q \in Seq(Step), NEW r \in Seq(Step), NEW a, NEW b, NEW c,
         Tells(q, a), Tells(r, b), c <=> a /\ b
  PROVE  q \o r \in Seq(Step) /\ Tells(q \o r, c)
<1>1. StepsOf(q \o r) = StepsOf(q) \cup StepsOf(r) /\ q \o r \in Seq(Step)
  BY StepsConcat
<1>3. Tells(q \o r, c)
  BY <1>1 DEF Tells
<1> QED BY <1>1, <1>3

LEMMA FiveTell ==
  ASSUME NEW p1 \in Seq(Step), NEW p2 \in Seq(Step), NEW p3 \in Seq(Step),
         NEW p4 \in Seq(Step), NEW p5 \in Seq(Step),
         NEW f1, NEW f2, NEW f3, NEW f4, NEW f5, NEW f,
         Tells(p1, f1), Tells(p2, f2), Tells(p3, f3), Tells(p4, f4), Tells(p5, f5),
         f <=> f1 /\ f2 /\ f3 /\ f4 /\ f5
  PROVE  /\ p1 \o p2 \o p3 \o p4 \o p5 \in Seq(Step)
         /\ Tells(p1 \o p2 \o p3 \o p4 \o p5, f)
<1>1. PICK a \in Seq(Step) : a = p1 \o p2 /\ StepsOf(a) = StepsOf(p1) \cup StepsOf(p2)
  BY StepsConcat
<1>2. PICK b \in Seq(Step) : b = a \o p3 /\ StepsOf(b) = StepsOf(a) \cup StepsOf(p3)
  BY StepsConcat
<1>3. PICK c \in Seq(Step) : c = b \o p4 /\ StepsOf(c) = StepsOf(b) \cup StepsOf(p4)
  BY StepsConcat
<1>4. PICK e \in Seq(Step) : e = c \o p5 /\ StepsOf(e) = StepsOf(c) \cup StepsOf(p5)
  BY StepsConcat
<1>5. StepsOf(e) = StepsOf(p1) \cup StepsOf(p2) \cup StepsOf(p3) \cup StepsOf(p4) \cup StepsOf(p5)
  BY <1>1, <1>2, <1>3, <1>4
<1>6. Tells(e, f)
  BY <1>5 DEF Tells
<1> QED BY <1>1, <1>2, <1>3, <1>4, <1>6

(* What the calls of a plan ask.                                           *)
LEMMA CallFns ==
  /\ TypeFn \cup SchemaFn \cup Combinator \cup ArrayFn \cup ObjectFn \subseteq CallFn
  /\ "yield_error" \in CallFn /\ "validate_custom_format" \in CallFn
  /\ "raise" \notin CallFn /\ "skip" \notin CallFn /\ CallFn \subseteq Op
  /\ PathOp \cap CallFn = {}
BY DEF CallFn, FnName, TypeFn, SchemaFn, Combinator, ArrayFn, ObjectFn, OtherFn, Op, PathOp

(* A function that is not a struct's own answers for itself.               *)
LEMMA OwnAccepts ==
  ASSUME NEW s \in Schema, NEW d, NEW i
  PROVE  /\ ~Accepts("yield_error", s, d, i)
         /\ Accepts("validate_custom_format", s, d, i) <=>
              d \in Compiled[s].formatOk \ Compiled[s].formatRaise
         /\ Accepts("validate_by_data_type", s, d, i) <=>
              HandlerAccepts(TypeHandler(Doc[d].type), s, d)
         /\ Accepts("validate_by_type_list", s, d, i) <=> ListAccepts(s, d)
         /\ Accepts("validate_properties", s, d, i) <=>
              \A j \in 1 .. Len(Doc[d].members) :
                MemberConforms(Conforms, s, Doc[d].members[j])
         /\ Accepts("validate_object_property", s, d, i) <=>
              (i \in 1 .. Len(Doc[d].members) =>
                 MemberConforms(Conforms, s, Doc[d].members[i]))
<1>1. Compiled[s].fn \in SchemaFn
  BY StructType DEF Struct
<1>2. /\ "yield_error" \notin SessionFn \cup {"is_valid", Compiled[s].fn}
      /\ "validate_custom_format" \notin SessionFn \cup {"is_valid", Compiled[s].fn}
      /\ "validate_by_data_type" \notin SessionFn \cup {"is_valid", Compiled[s].fn}
      /\ "validate_by_type_list" \notin SessionFn \cup {"is_valid", Compiled[s].fn}
      /\ "validate_properties" \notin SessionFn \cup {"is_valid", Compiled[s].fn}
      /\ "validate_object_property" \notin SessionFn \cup {"is_valid", Compiled[s].fn}
  BY <1>1 DEF SessionFn, SchemaFn
<1>3. /\ ~Accepts("yield_error", s, d, i)
      /\ Accepts("validate_custom_format", s, d, i) <=>
           d \in Compiled[s].formatOk \ Compiled[s].formatRaise
      /\ Accepts("validate_by_data_type", s, d, i) <=>
           HandlerAccepts(TypeHandler(Doc[d].type), s, d)
      /\ Accepts("validate_by_type_list", s, d, i) <=> ListAccepts(s, d)
  BY <1>2 DEF Accepts, ArrayFn, Combinator
<1>4. Accepts("validate_properties", s, d, i) <=>
        \A j \in 1 .. Len(Doc[d].members) : MemberConforms(Conforms, s, Doc[d].members[j])
  BY <1>2 DEF Accepts, ArrayFn, Combinator
<1>5. Accepts("validate_object_property", s, d, i) <=>
        (i \in 1 .. Len(Doc[d].members) => MemberConforms(Conforms, s, Doc[d].members[i]))
  BY <1>2 DEF Accepts, ArrayFn, Combinator
<1> QED BY <1>3, <1>4, <1>5

LEMMA GroupAccepts ==
  ASSUME NEW fn, NEW s \in Schema, NEW d, NEW i
  PROVE  /\ fn \in ArrayFn => (Accepts(fn, s, d, i) <=> LoopAccepts(fn, s, d))
         /\ fn \in Combinator => (Accepts(fn, s, d, i) <=> CombinatorAccepts(fn, s, d))
         /\ fn \in TypeFn \ {"no_op_validate", "validate_by_data_type", "validate_by_type_list"}
              => (Accepts(fn, s, d, i) <=> HandlerAccepts(fn, s, d))
<1>1. Compiled[s].fn \in SchemaFn
  BY StructType DEF Struct
<1>2. CASE fn \in ArrayFn
  <2>1. fn \notin SessionFn \cup {"is_valid", Compiled[s].fn} /\ fn \notin Combinator
        /\ fn \notin TypeFn
    BY <1>1, <1>2 DEF SessionFn, SchemaFn, ArrayFn, Combinator, TypeFn
  <2> QED BY <1>2, <2>1 DEF Accepts, ArrayFn
<1>3. CASE fn \in Combinator
  <2>1. fn \notin SessionFn \cup {"is_valid", Compiled[s].fn} /\ fn \notin ArrayFn
        /\ fn \notin TypeFn
    BY <1>1, <1>3 DEF SessionFn, SchemaFn, ArrayFn, Combinator, TypeFn
  <2> QED BY <1>3, <2>1 DEF Accepts, Combinator
<1>4. CASE fn \in TypeFn \ {"no_op_validate", "validate_by_data_type", "validate_by_type_list"}
  <2>1. fn \notin SessionFn \cup {"is_valid", Compiled[s].fn} /\ fn \notin ArrayFn \cup Combinator
    BY <1>1, <1>4 DEF SessionFn, SchemaFn, ArrayFn, Combinator, TypeFn
  <2> QED BY <1>4, <2>1 DEF Accepts, TypeFn
<1> QED BY <1>2, <1>3, <1>4

(* A struct's function answers for the struct.                             *)
LEMMA SchemaAccepts ==
  ASSUME NEW s \in Schema, NEW d \in Data, NEW i
  PROVE  /\ Accepts("no_op_validate", s, d, i)
         /\ ~Accepts("false_validate", s, d, i)
         /\ Accepts("validate_ref", s, d, i) <=> Conforms[Compiled[s].sub["ref"]][d]
         /\ Accepts("validate", s, d, i) <=> KeywordsHold(Conforms, s, d) /\ ~Refused(s, d)
<1>1. ASSUME NEW fn, fn = Compiled[s].fn
      PROVE  Accepts(fn, s, d, i) <=>
               CASE fn = "no_op_validate" -> TRUE
                 [] fn = "false_validate" -> FALSE
                 [] fn = "validate_ref"   -> Conforms[Compiled[s].sub["ref"]][d]
                 [] OTHER                 -> KeywordsHold(Conforms, s, d) /\ ~Refused(s, d)
  <2>1. Accepts(fn, s, d, i) <=> Conforms[s][d]
    BY <1>1 DEF Accepts
  <2>2. fn \in SchemaFn
    BY <1>1, StructType DEF Struct
  <2> QED BY <1>1, <2>1, <2>2, Meaning DEF Says, SchemaFn
<1>2. Accepts("no_op_validate", s, d, i)
  <2>1. CASE "no_op_validate" = Compiled[s].fn
    BY <1>1, <2>1
  <2>2. CASE "no_op_validate" # Compiled[s].fn
    <3>1. HandlerAccepts("no_op_validate", s, d)
      BY DEF HandlerAccepts
    <3> QED BY <2>2, <3>1 DEF Accepts, SessionFn, ArrayFn, Combinator
  <2> QED BY <2>1, <2>2
<1>3. ~Accepts("false_validate", s, d, i)
  <2>1. CASE "false_validate" = Compiled[s].fn
    BY <1>1, <2>1
  <2>2. CASE "false_validate" # Compiled[s].fn
    BY <2>2 DEF Accepts, SessionFn, ArrayFn, Combinator
  <2> QED BY <2>1, <2>2
<1>4. Accepts("validate_ref", s, d, i) <=> Conforms[Compiled[s].sub["ref"]][d]
  <2>1. CASE "validate_ref" = Compiled[s].fn
    BY <1>1, <2>1
  <2>2. CASE "validate_ref" # Compiled[s].fn
    BY <2>2 DEF Accepts, SessionFn, ArrayFn, Combinator
  <2> QED BY <2>1, <2>2
<1>5. Accepts("validate", s, d, i) <=> KeywordsHold(Conforms, s, d) /\ ~Refused(s, d)
  <2>1. CASE "validate" = Compiled[s].fn
    BY <1>1, <2>1
  <2>2. CASE "validate" # Compiled[s].fn
    BY <2>2 DEF Accepts, SessionFn, ArrayFn, Combinator
  <2> QED BY <2>1, <2>2
<1> QED BY <1>2, <1>3, <1>4, <1>5

LEMMA RunAsks ==
  ASSUME NEW s \in Schema, NEW d \in Data
  PROVE  /\ Run(s, d) \in Step /\ Run(s, d).do \in CallFn
         /\ Fails(Run(s, d)) <=> ~Conforms[s][d]
         /\ Harmless(Run(s, d)) <=> Conforms[s][d]
<1>1. Compiled[s].fn \in CallFn
  BY StructType, CallFns DEF Struct
<1>2. Run(s, d) \in Step
  BY StepTypes, PlainSteps
<1>3. /\ Run(s, d).do = Compiled[s].fn /\ Run(s, d).cs = s /\ Run(s, d).d = d
      /\ Run(s, d).i = 0
  BY DEF Run, Do
<1>4. Accepts(Compiled[s].fn, s, d, 0) <=> Conforms[s][d]
  BY DEF Accepts
<1> QED BY <1>1, <1>2, <1>3, <1>4, CallFns DEF Fails, Harmless

(* Every other call of a plan.                                             *)
LEMMA DoAsks ==
  ASSUME NEW fn \in CallFn, NEW s \in Schema, NEW d \in Data, NEW i \in Nat,
         i # 0 => fn = "validate_object_property"
  PROVE  /\ Do(fn, s, d, i) \in Step
         /\ Fails(Do(fn, s, d, i)) <=> ~Accepts(fn, s, d, i)
         /\ Harmless(Do(fn, s, d, i)) <=> Accepts(fn, s, d, i)
<1>1. fn \in Op /\ fn # "raise"
  BY CallFns
<1>2. Do(fn, s, d, i) \in Step
  BY <1>1, DoType
<1>3. /\ Do(fn, s, d, i).do = fn /\ Do(fn, s, d, i).cs = s /\ Do(fn, s, d, i).d = d
      /\ Do(fn, s, d, i).i = i
  BY DEF Do
<1> QED BY <1>1, <1>2, <1>3 DEF Fails, Harmless

LEMMA ErrAsks ==
  ASSUME NEW s \in Schema, NEW d \in Data, NEW type \in ErrorType
  PROVE  /\ Err(s, d, type) \in Step /\ Err(s, d, type).do = "yield_error"
         /\ Fails(Err(s, d, type)) /\ ~Harmless(Err(s, d, type))
<1>1. Do("yield_error", s, d, 0) \in Step /\ "yield_error" \in CallFn
  BY CallFns, DoAsks
<1>2. Err(s, d, type) \in Step
  BY StepTypes, PlainSteps
<1>3. /\ Err(s, d, type).do = "yield_error" /\ Err(s, d, type).cs = s
      /\ Err(s, d, type).d = d /\ Err(s, d, type).i = 0
  BY DEF Err, Do
<1>4. ~Accepts("yield_error", s, d, 0)
  BY OwnAccepts
<1> QED BY <1>1, <1>2, <1>3, <1>4 DEF Fails, Harmless

(* The steps that ask nothing.                                             *)
LEMMA QuietSteps ==
  ASSUME NEW x, x.do \in {"skip", "raise"} \cup PathOp
  PROVE  ~Fails(x) /\ (Harmless(x) <=> x.do # "raise")
BY CallFns DEF Fails, Harmless

(***************************************************************************)
(* The parts plans are put together from.                                  *)
(***************************************************************************)
LEMMA WhenSteps ==
  ASSUME NEW b, NEW x \in Step
  PROVE  StepsOf(When(b, x)) = (IF b THEN {x} ELSE {}) /\ When(b, x) \in Seq(Step)
<1>1. CASE b
  <2>1. When(b, x) = <<x>>
    BY <1>1 DEF When
  <2>2. Len(<<x>>) = 1 /\ <<x>>[1] = x /\ 1 .. 1 = {1} /\ <<x>> \in Seq(Step)
    OBVIOUS
  <2>3. StepsOf(<<x>>) = {x}
    BY <2>2 DEF StepsOf
  <2> QED BY <1>1, <2>1, <2>2, <2>3
<1>2. CASE ~b
  <2>1. When(b, x) = <<>> /\ StepsOf(<<>>) = {}
    BY <1>2 DEF When, StepsOf
  <2> QED BY <1>2, <2>1
<1> QED BY <1>1, <1>2

LEMMA OneStep ==
  ASSUME NEW x \in Step
  PROVE  StepsOf(<<x>>) = {x} /\ <<x>> \in Seq(Step)
<1>1. Len(<<x>>) = 1 /\ <<x>>[1] = x /\ <<x>> \in Seq(Step)
  OBVIOUS
<1>2. 1 .. 1 = {1}
  OBVIOUS
<1> QED BY <1>1, <1>2 DEF StepsOf

LEMMA WhenTells ==
  ASSUME NEW b, NEW x \in Step, NEW fact,
         b /\ Harmless(x) => fact, b /\ Fails(x) => ~fact, ~b => fact
  PROVE  When(b, x) \in Seq(Step) /\ Tells(When(b, x), fact)
<1>1. StepsOf(When(b, x)) = (IF b THEN {x} ELSE {}) /\ When(b, x) \in Seq(Step)
  BY WhenSteps
<1>3. Tells(When(b, x), fact)
  BY <1>1 DEF Tells
<1> QED BY <1>1, <1>3

LEMMA ErrTells ==
  ASSUME NEW b, NEW s \in Schema, NEW d \in Data, NEW type \in ErrorType, NEW fact,
         fact <=> ~b
  PROVE  ErrIf(b, s, d, type) \in Seq(Step) /\ Tells(ErrIf(b, s, d, type), fact)
<1>1. PICK x \in Step : x = Err(s, d, type) /\ Fails(x) /\ ~Harmless(x)
  BY ErrAsks
<1>2. When(b, x) \in Seq(Step) /\ StepsOf(When(b, x)) = IF b THEN {x} ELSE {}
  BY WhenSteps
<1> QED BY <1>1, <1>2 DEF Tells, ErrIf

LEMMA EnclosedTells ==
  ASSUME NEW s \in Schema, NEW d \in Data, NEW body \in Seq(Step), NEW fact,
         Tells(body, fact)
  PROVE  Tells(<<Incr(s, d)>> \o body \o <<Decr(s, d)>>, fact)
<1>1. PICK x \in Step : x = Incr(s, d) /\ ~Fails(x) /\ Harmless(x)
  BY PathStepTypes, QuietSteps DEF PathOp
<1>2. PICK y \in Step : y = Decr(s, d) /\ ~Fails(y) /\ Harmless(y)
  BY PathStepTypes, QuietSteps DEF PathOp
<1>3. PICK p \in Seq(Step), q \in Seq(Step) :
        p = <<x>> /\ q = <<y>> /\ StepsOf(p) = {x} /\ StepsOf(q) = {y}
  BY OneStep
<1>4. PICK a \in Seq(Step) : a = p \o body /\ StepsOf(a) = StepsOf(p) \cup StepsOf(body)
  BY StepsConcat
<1>5. PICK e \in Seq(Step) : e = a \o q /\ StepsOf(e) = StepsOf(a) \cup StepsOf(q)
  BY StepsConcat
<1>6. Tells(e, fact)
  BY <1>1, <1>2, <1>3, <1>4, <1>5 DEF Tells
<1> QED BY <1>1, <1>2, <1>3, <1>4, <1>5, <1>6

(* A step that may raise says nothing.                                     *)
LEMMA RaiseTells ==
  ASSUME NEW b, NEW s \in Schema, NEW d \in Data, NEW fact, ~b => fact
  PROVE  /\ When(b, RaiseStep(s, d)) \in Seq(Step)
         /\ Tells(When(b, RaiseStep(s, d)), fact)
<1>1. PICK x \in Step : x = RaiseStep(s, d) /\ x.do = "raise"
  BY StepTypes, PlainSteps DEF RaiseStep, Do
<1>2. ~Fails(x) /\ ~Harmless(x)
  BY <1>1, QuietSteps
<1> QED BY <1>1, <1>2, WhenTells

LEMMA LimitTells ==
  ASSUME NEW s \in Schema, NEW d \in Data, NEW k \in ErrorType, NEW violated, NEW fact,
         Fits(k, Compiled[s].limit[k]) /\ Has(s, k) => (fact <=> ~violated)
  PROVE  /\ Limit(s, d, k, violated) \in Seq(Step)
         /\ Tells(Limit(s, d, k, violated), Has(s, k) => fact)
<1> DEFINE claim == Has(s, k) => fact
<1>1. CASE Fits(k, Compiled[s].limit[k])
  <2>1. /\ Limit(s, d, k, violated) = ErrIf(Has(s, k) /\ violated, s, d, k)
        /\ claim <=> ~(Has(s, k) /\ violated)
    BY <1>1 DEF Limit
  <2> HIDE DEF claim
  <2>2. /\ ErrIf(Has(s, k) /\ violated, s, d, k) \in Seq(Step)
        /\ Tells(ErrIf(Has(s, k) /\ violated, s, d, k), claim)
    BY <2>1, ErrTells
  <2> QED BY <2>1, <2>2 DEF claim
<1>2. CASE ~Fits(k, Compiled[s].limit[k])
  <2>1. Limit(s, d, k, violated) = When(Has(s, k), RaiseStep(s, d))
    BY <1>2 DEF Limit
  <2>2. ~Has(s, k) => claim
    OBVIOUS
  <2> HIDE DEF claim
  <2>3. /\ When(Has(s, k), RaiseStep(s, d)) \in Seq(Step)
        /\ Tells(When(Has(s, k), RaiseStep(s, d)), claim)
    BY <2>2, RaiseTells
  <2> QED BY <2>1, <2>3 DEF claim
<1> QED BY <1>1, <1>2

(***************************************************************************)
(* Numbers.                                                                *)
(***************************************************************************)
LEMMA Multiples ==
  ASSUME NEW x \in Int, NEW m \in Int, m > 0
  PROVE  /\ x \div m \in Int
         /\ x % m = 0 => x = (x \div m) * m
         /\ \A q \in Int : x = q * m => x % m = 0 /\ x \div m = q
<1>1. x \div m \in Int /\ (x % m) \in Int /\ 0 <= (x % m) /\ (x % m) < m
  OBVIOUS
<1>a. x = m * (x \div m) + (x % m)
  OBVIOUS
<1>2. x % m = 0 => x = (x \div m) * m
  BY <1>1, <1>a
<1>3. ASSUME NEW q \in Int, x = q * m
      PROVE  x % m = 0 /\ x \div m = q
  <2>1. PICK p \in Int, r \in 0 .. m - 1 : p = x \div m /\ r = x % m /\ q * m = m * p + r
    BY <1>1, <1>a, <1>3
  <2>2. m * (q - p) = r
    BY <2>1
  <2>3. CASE q - p >= 1
    <3>1. m * (q - p) >= m
      BY <2>3
    <3> QED BY <2>1, <2>2, <3>1
  <2>4. CASE q - p <= -1
    <3>1. m * (q - p) <= -m
      BY <2>4
    <3> QED BY <2>1, <2>2, <3>1
  <2>5. CASE q = p
    BY <2>1, <2>2, <2>5
  <2> QED BY <2>3, <2>4, <2>5
<1> QED BY <1>1, <1>2, <1>3

LEMMA QuotientsAll ==
  ASSUME NEW x \in Int, NEW m \in Int, m > 0, NEW q \in Int, x = q * m
  PROVE  q \in Quotients(x)
<1>1. CASE q >= 0
  <2>1. q * m >= q
    BY <1>1
  <2>2. -x <= q /\ q <= x
    BY <1>1, <2>1
  <2> QED BY <2>2 DEF Quotients
<1>2. CASE q < 0
  <2>1. q * m <= q
    BY <1>2
  <2>2. x <= q /\ q <= -x
    BY <1>2, <2>1
  <2> QED BY <2>2 DEF Quotients
<1> QED BY <1>1, <1>2

LEMMA IntegerMultiples ==
  ASSUME NEW x \in Int, NEW m \in Int, m > 0
  PROVE  IntegerMultiple(x, m) <=> \E q \in Quotients(2 * x) : 2 * x = q * (2 * m)
<1>1. Quotients(2 * x) \subseteq Int
  BY DEF Quotients
<1>2. ASSUME x % m = 0
      PROVE  \E q \in Quotients(2 * x) : 2 * x = q * (2 * m)
  <2>1. PICK q \in Int : x = q * m
    BY <1>2, Multiples
  <2>2. 2 * x = q * (2 * m) /\ 2 * x \in Int /\ 2 * m \in Int /\ 2 * m > 0
    BY <2>1
  <2> QED BY <2>2, QuotientsAll
<1>3. ASSUME NEW q \in Quotients(2 * x), 2 * x = q * (2 * m)
      PROVE  x % m = 0
  <2>1. q \in Int
    BY <1>1
  <2>2. x = q * m
    BY <1>3, <2>1
  <2> QED BY <2>1, <2>2, Multiples
<1> QED BY <1>2, <1>3 DEF IntegerMultiple

LEMMA NumberMultiples ==
  ASSUME NEW x \in Int, NEW m \in Int, m > 0
  PROVE  NumberMultiple(x, m) <=> \E q \in Ints : x = q * m
<1>1. Ints \subseteq Int /\ Ints = (-IntMax - 1) .. IntMax
  BY IntMaxAssumption DEF Ints
<1> QED BY <1>1, Multiples DEF NumberMultiple

LEMMA HalvesType ==
  ASSUME NEW s \in Schema, NEW d \in Data
  PROVE  /\ Doc[d].num \in Int /\ Halves(d) \in Int
         /\ \A k \in LimitKeyword : Compiled[s].limit[k] \in Int /\ LimitHalves(s, k) \in Int
BY StructType, ValueType1 DEF Struct, Value, Halves, LimitHalves

(* What fails for want of an int is a multiple by a quotient out of range. *)
Wide(s, d) ==
  /\ Has(s, "multipleOf")
  /\ \E q \in Quotients(Halves(d)) \ Ints : Halves(d) = q * LimitHalves(s, "multipleOf")

LEMMA NumbersRefused ==
  ASSUME NEW s \in Schema, NEW d \in Data
  PROVE  NumberConforms(s, Ints, Halves(d)) <=>
           NumberConforms(s, Quotients(Halves(d)), Halves(d)) /\ ~Wide(s, d)
<1> DEFINE x == Halves(d)
           m == LimitHalves(s, "multipleOf")
           within(quotients) == \E q \in quotients : x = q * m
<1>1. Has(s, "multipleOf") => (within(Ints) <=> within(Quotients(x)) /\ ~within(Quotients(x) \ Ints))
  <2> SUFFICES ASSUME Has(s, "multipleOf")
               PROVE  within(Ints) <=> within(Quotients(x)) /\ ~within(Quotients(x) \ Ints)
    OBVIOUS
  <2>1. x \in Int /\ m \in Int /\ m > 0
    BY HalvesType, DivisorAssumption DEF LimitHalves, LimitKeyword
  <2>2. Ints \subseteq Int /\ Quotients(x) \subseteq Int
    BY <2>1, IntMaxAssumption DEF Ints, Quotients
  <2>3. \A q \in Int : x = q * m => q \in Quotients(x) /\ x \div m = q
    BY <2>1, QuotientsAll, Multiples
  <2> HIDE DEF x, m
  <2>4. ASSUME NEW q \in Ints, x = q * m
        PROVE  within(Quotients(x)) /\ ~within(Quotients(x) \ Ints)
    <3>1. q \in Quotients(x) /\ x \div m = q
      BY <2>2, <2>3, <2>4
    <3>2. \A p \in Quotients(x) : x = p * m => p = q
      BY <2>2, <2>3, <3>1
    <3> QED BY <2>4, <3>1, <3>2
  <2>5. within(Quotients(x)) /\ ~within(Quotients(x) \ Ints) => within(Ints)
    OBVIOUS
  <2> QED BY <2>4, <2>5
<1>2. Wide(s, d) <=> Has(s, "multipleOf") /\ within(Quotients(x) \ Ints)
  BY DEF Wide
<1> DEFINE bounds == /\ Has(s, "maximum") => x <= LimitHalves(s, "maximum")
                     /\ Has(s, "exclusiveMaximum") => x < LimitHalves(s, "exclusiveMaximum")
                     /\ Has(s, "minimum") => x >= LimitHalves(s, "minimum")
                     /\ Has(s, "exclusiveMinimum") => x > LimitHalves(s, "exclusiveMinimum")
<1>3. /\ NumberConforms(s, Ints, x) <=> (Has(s, "multipleOf") => within(Ints)) /\ bounds
      /\ NumberConforms(s, Quotients(x), x) <=>
           (Has(s, "multipleOf") => within(Quotients(x))) /\ bounds
  BY DEF NumberConforms
<1> HIDE DEF within, bounds, x
<1> QED BY <1>1, <1>2, <1>3 DEF x

LEMMA NumericTells ==
  ASSUME NEW s \in Schema, NEW d \in Data, NEW types, NEW typeError \in ErrorType,
         NEW multiple, NEW quotients,
         Doc[d].type \in types /\ (Doc[d].type = "integer" => FitsLong(Doc[d].num))
           /\ Has(s, "multipleOf") =>
           (multiple <=> \E q \in quotients : Halves(d) = q * LimitHalves(s, "multipleOf"))
  PROVE  Tells(NumericPlan(s, d, types, typeError, multiple),
               Doc[d].type \in types /\ NumberConforms(s, quotients, Halves(d)))
<1> DEFINE x == Halves(d)
           m(k) == LimitHalves(s, k)
<1>1. x \in Int /\ \A k \in LimitKeyword : m(k) \in Int
  BY HalvesType
<1>2. CASE Doc[d].type \notin types
  <2>1. PICK e \in Step : e = Err(s, d, typeError) /\ Fails(e) /\ ~Harmless(e)
    BY ErrAsks
  <2>2. StepsOf(<<e>>) = {e}
    BY OneStep
  <2>3. NumericPlan(s, d, types, typeError, multiple) = <<e>>
    BY <1>2, <2>1 DEF NumericPlan
  <2> QED BY <1>2, <2>1, <2>2, <2>3 DEF Tells
<1>3. CASE Doc[d].type \in types /\ Doc[d].type = "integer" /\ ~FitsLong(Doc[d].num)
  <2>1. PICK e \in Step : e = RaiseStep(s, d) /\ e.do = "raise"
    BY StepTypes, PlainSteps DEF RaiseStep, Do
  <2>2. StepsOf(<<e>>) = {e} /\ ~Fails(e) /\ ~Harmless(e)
    BY <2>1, OneStep, QuietSteps
  <2>3. NumericPlan(s, d, types, typeError, multiple) = <<e>>
    BY <1>3, <2>1 DEF NumericPlan
  <2> QED BY <1>3, <2>2, <2>3 DEF Tells
<1>4. CASE Doc[d].type \in types /\ (Doc[d].type = "integer" => FitsLong(Doc[d].num))
  <2> DEFINE divides == \E q \in quotients : x = q * m("multipleOf")
             p1 == Limit(s, d, "multipleOf", ~multiple)
             p2 == Limit(s, d, "maximum", x > m("maximum"))
             p3 == Limit(s, d, "exclusiveMaximum", x >= m("exclusiveMaximum"))
             p4 == Limit(s, d, "minimum", x < m("minimum"))
             p5 == Limit(s, d, "exclusiveMinimum", x <= m("exclusiveMinimum"))
             f1 == Has(s, "multipleOf") => divides
             f2 == Has(s, "maximum") => x <= m("maximum")
             f3 == Has(s, "exclusiveMaximum") => x < m("exclusiveMaximum")
             f4 == Has(s, "minimum") => x >= m("minimum")
             f5 == Has(s, "exclusiveMinimum") => x > m("exclusiveMinimum")
  <2>0. /\ {"multipleOf", "maximum", "exclusiveMaximum", "minimum", "exclusiveMinimum"}
             \subseteq LimitKeyword
        /\ LimitKeyword \subseteq ErrorType
    BY DEF LimitKeyword, ErrorType
  <2>a. /\ x > m("maximum") <=> ~(x <= m("maximum"))
        /\ x >= m("exclusiveMaximum") <=> ~(x < m("exclusiveMaximum"))
        /\ x < m("minimum") <=> ~(x >= m("minimum"))
        /\ x <= m("exclusiveMinimum") <=> ~(x > m("exclusiveMinimum"))
    BY <1>1, <2>0
  <2>b. Has(s, "multipleOf") => (multiple <=> divides)
    BY <1>4
  <2> HIDE DEF divides
  <2>1. p1 \in Seq(Step) /\ Tells(p1, f1)
    BY <2>0, <2>b, LimitTells
  <2>2. p2 \in Seq(Step) /\ Tells(p2, f2)
    BY <2>0, <2>a, LimitTells
  <2>3. p3 \in Seq(Step) /\ Tells(p3, f3)
    BY <2>0, <2>a, LimitTells
  <2>4. p4 \in Seq(Step) /\ Tells(p4, f4)
    BY <2>0, <2>a, LimitTells
  <2>5. p5 \in Seq(Step) /\ Tells(p5, f5)
    BY <2>0, <2>a, LimitTells
  <2>6. NumericPlan(s, d, types, typeError, multiple) = p1 \o p2 \o p3 \o p4 \o p5
    BY <1>4 DEF NumericPlan
  <2>7. NumberConforms(s, quotients, x) <=> f1 /\ f2 /\ f3 /\ f4 /\ f5
    BY DEF NumberConforms, divides
  <2> HIDE DEF p1, p2, p3, p4, p5, f1, f2, f3, f4, f5
  <2>8. Tells(p1 \o p2 \o p3 \o p4 \o p5, NumberConforms(s, quotients, x))
    BY <2>1, <2>2, <2>3, <2>4, <2>5, <2>7, FiveTell
  <2> QED BY <1>4, <2>6, <2>7, <2>8 DEF Tells
<1> QED BY <1>2, <1>3, <1>4

(***************************************************************************)
(* Strings.                                                                *)
(***************************************************************************)
LEMMA StringTells ==
  ASSUME NEW s \in Schema, NEW d \in Data
  PROVE  Tells(StringPlan(s, d), Doc[d].type = "string" /\ StringConforms(s, d))
<1> DEFINE c == Compiled[s]
           len == Doc[d].num
<1>1. len \in Int /\ c.limit \in [LimitKeyword -> Int] /\ c.format \in {"none", "builtin", "custom"}
  BY StructType, ValueType1 DEF Struct, Value
<1>2. CASE Doc[d].type # "string"
  <2>1. PICK e \in Step : e = Err(s, d, "type_string") /\ Fails(e) /\ ~Harmless(e)
    BY ErrAsks DEF ErrorType
  <2>2. StepsOf(<<e>>) = {e}
    BY OneStep
  <2>3. StringPlan(s, d) = <<e>>
    BY <1>2, <2>1 DEF StringPlan
  <2> QED BY <1>2, <2>1, <2>2, <2>3 DEF Tells
<1>3. CASE Doc[d].type = "string"
  <2> DEFINE p1 == Limit(s, d, "maxLength", len > c.limit["maxLength"])
             p2 == Limit(s, d, "minLength", len < c.limit["minLength"])
             p3 == PatternCheck(s, d)
             p4 == ErrIf(c.format = "builtin" /\ d \notin c.formatOk, s, d, "format")
             p5 == When(c.format = "custom", Do("validate_custom_format", s, d, 0))
             f1 == Has(s, "maxLength") => len <= c.limit["maxLength"]
             f2 == Has(s, "minLength") => len >= c.limit["minLength"]
             f3 == Has(s, "pattern") => d \in c.pattern
             f4 == c.format = "builtin" => d \in c.formatOk
             f5 == c.format = "custom" => d \in c.formatOk \ c.formatRaise
  <2>0. /\ {"maxLength", "minLength"} \subseteq LimitKeyword
        /\ {"maxLength", "minLength", "pattern", "format"} \subseteq ErrorType
    BY DEF LimitKeyword, ErrorType
  <2>a. /\ len > c.limit["maxLength"] <=> ~(len <= c.limit["maxLength"])
        /\ len < c.limit["minLength"] <=> ~(len >= c.limit["minLength"])
    BY <1>1, <2>0
  <2>1. p1 \in Seq(Step) /\ Tells(p1, f1)
    BY <2>0, <2>a, LimitTells
  <2>2. p2 \in Seq(Step) /\ Tells(p2, f2)
    BY <2>0, <2>a, LimitTells
  <2>3. p3 \in Seq(Step) /\ Tells(p3, f3)
    <3>1. f3 <=> ~(Has(s, "pattern") /\ d \notin c.pattern)
      OBVIOUS
    <3>2. ~Has(s, "pattern") => f3
      OBVIOUS
    <3> HIDE DEF f3
    <3>3. CASE "pattern" \in c.broken
      BY <3>2, <3>3, RaiseTells DEF PatternCheck
    <3>4. CASE "pattern" \notin c.broken
      BY <2>0, <3>1, <3>4, ErrTells DEF PatternCheck
    <3> QED BY <3>3, <3>4
  <2>4. p4 \in Seq(Step) /\ Tells(p4, f4)
    <3>1. f4 <=> ~(c.format = "builtin" /\ d \notin c.formatOk)
      OBVIOUS
    <3> HIDE DEF f4
    <3> QED BY <2>0, <3>1, ErrTells
  <2>5. p5 \in Seq(Step) /\ Tells(p5, f5)
    <3> DEFINE ok == d \in c.formatOk \ c.formatRaise
    <3>1. PICK x \in Step : /\ x = Do("validate_custom_format", s, d, 0)
                            /\ Fails(x) <=> ~ok
                            /\ Harmless(x) <=> ok
      BY CallFns, DoAsks, OwnAccepts
    <3> DEFINE custom == c.format = "custom"
    <3>a. f5 <=> (custom => ok)
      OBVIOUS
    <3> HIDE DEF ok, f5, custom
    <3>2. When(custom, x) \in Seq(Step) /\ Tells(When(custom, x), f5)
      BY <3>1, <3>a, WhenTells
    <3> QED BY <3>1, <3>2 DEF custom
  <2>6. StringPlan(s, d) = p1 \o p2 \o p3 \o p4 \o p5
    BY <1>3 DEF StringPlan
  <2>7. StringConforms(s, d) <=> f1 /\ f2 /\ f3 /\ f4 /\ f5
    BY <1>1 DEF StringConforms, FormatConforms
  <2> HIDE DEF p1, p2, p3, p4, p5, f1, f2, f3, f4, f5
  <2>8. Tells(p1 \o p2 \o p3 \o p4 \o p5, StringConforms(s, d))
    BY <2>1, <2>2, <2>3, <2>4, <2>5, <2>7, FiveTell
  <2> QED BY <1>3, <2>6, <2>8 DEF Tells
<1> QED BY <1>2, <1>3

(***************************************************************************)
(* Arrays.                                                                 *)
(***************************************************************************)
(* The function that steps through a sequence of distinct elements counts  *)
(* them.                                                                   *)
LEMMA Distinct ==
  ASSUME NEW S, NEW q \in Seq(S)
  PROVE  /\ NoDuplicates(q) <=> Cardinality({q[j] : j \in 1 .. Len(q)}) = Len(q)
<1> DEFINE T == {q[j] : j \in 1 .. Len(q)}
<1>1. Len(q) \in Nat /\ q \in [1 .. Len(q) -> T]
  OBVIOUS
<1>2. IsFiniteSet(1 .. Len(q)) /\ Cardinality(1 .. Len(q)) = Len(q)
  <2>1. PICK n \in Nat : n = Len(q)
    BY <1>1
  <2>2. IsFiniteSet(1 .. n) /\ Cardinality(1 .. n) = IF 1 > n THEN 0 ELSE n - 1 + 1
    BY FS_Interval
  <2> QED BY <2>1, <2>2
<1>3. q \in Surjection(1 .. Len(q), T)
  BY <1>1 DEF Surjection
<1>4. q \in Injection(1 .. Len(q), T) <=> NoDuplicates(q)
  BY <1>1 DEF Injection, IsInjective, NoDuplicates
<1> HIDE DEF T
<1>5. Cardinality(T) = Cardinality(1 .. Len(q)) <=> q \in Injection(1 .. Len(q), T)
  BY <1>2, <1>3, FS_Surjection
<1> QED BY <1>2, <1>4, <1>5 DEF T

LEMMA ItemLoopTells ==
  ASSUME NEW s \in Schema, NEW d \in Data, NEW first \in Nat \ {0},
         NEW last1 \in 0 .. Len(Doc[d].items), NEW schemas,
         \A j \in first .. last1 : schemas[j] \in Schema
  PROVE  Tells(ItemLoop(s, d, first, last1, schemas),
               \A j \in first .. last1 : Conforms[schemas[j]][Doc[d].items[j]])
<1> DEFINE size == IF last1 >= first THEN 2 * (last1 - first + 1) ELSE 0
           item(j) == first + (j - 1) \div 2
           step(j) == IF j % 2 = 1 THEN Add(s, d, Item(item(j) - 1))
                                   ELSE Run(schemas[item(j)], Doc[d].items[item(j)])
<1>1. Doc[d].items \in Seq(Data) /\ Len(Doc[d].items) \in Nat
  BY ValueType1 DEF Value
<1>2. size \in Nat
  BY <1>1
<1>3. ASSUME NEW j \in 1 .. size
      PROVE  item(j) \in first .. last1
  <2>1. last1 >= first /\ j <= 2 * (last1 - first + 1) /\ j - 1 \in Nat
    BY <1>1, <1>3
  <2>2. (j - 1) \div 2 \in Nat /\ 2 * ((j - 1) \div 2) <= j - 1
    BY <2>1, Half
  <2> QED BY <1>1, <2>1, <2>2
<1>4. ASSUME NEW k \in first .. last1
      PROVE  \E j \in 1 .. size : item(j) = k /\ j % 2 # 1
  <2>1. PICK j \in 1 .. size : j = 2 * (k - first + 1)
    BY <1>1
  <2>2. j - 1 = 2 * (k - first) + 1 /\ k - first \in Nat
    BY <1>1, <2>1
  <2>3. (j - 1) \div 2 = k - first /\ j % 2 # 1
    BY <2>1, <2>2
  <2> QED BY <1>1, <2>3
<1>5. ASSUME NEW j \in 1 .. size
      PROVE  /\ step(j) \in Step
             /\ j % 2 = 1 => ~Fails(step(j)) /\ Harmless(step(j))
             /\ j % 2 # 1 =>
                  /\ Fails(step(j)) <=> ~Conforms[schemas[item(j)]][Doc[d].items[item(j)]]
                  /\ Harmless(step(j)) <=> Conforms[schemas[item(j)]][Doc[d].items[item(j)]]
  <2>1. item(j) \in first .. last1 /\ item(j) \in 1 .. Len(Doc[d].items)
    BY <1>1, <1>3
  <2>2. item(j) - 1 \in Nat
    BY <1>1, <2>1
  <2> HIDE DEF item
  <2>3. Item(item(j) - 1) \in Segment
    BY <2>2 DEF Item, Segment
  <2>4. PICK seg \in Segment : seg = Item(item(j) - 1)
    BY <2>3
  <2>5. PICK add \in Step : add = Add(s, d, seg) /\ ~Fails(add) /\ Harmless(add)
    <3>1. Add(s, d, seg) \in Step /\ Add(s, d, seg).do = "ADD_TO_CONTEXT"
      BY PathStepTypes
    <3> QED BY <3>1, QuietSteps DEF PathOp
  <2>6. schemas[item(j)] \in Schema /\ Doc[d].items[item(j)] \in Data
    BY <1>1, <2>1
  <2>7. PICK run \in Step :
          /\ run = Run(schemas[item(j)], Doc[d].items[item(j)])
          /\ Fails(run) <=> ~Conforms[schemas[item(j)]][Doc[d].items[item(j)]]
          /\ Harmless(run) <=> Conforms[schemas[item(j)]][Doc[d].items[item(j)]]
    BY <2>6, RunAsks
  <2>8. step(j) = IF j % 2 = 1 THEN add ELSE run
    BY <2>4, <2>5, <2>7
  <2> HIDE DEF step
  <2> QED BY <2>5, <2>7, <2>8
<1> HIDE DEF step, size, item
<1>6. PICK body \in Seq(Step) :
        /\ body = [j \in 1 .. size |-> step(j)]
        /\ Len(body) = size /\ \A j \in 1 .. size : body[j] = step(j)
  <2>1. PICK body : body = [j \in 1 .. size |-> step(j)]
    OBVIOUS
  <2>2. body \in Seq(Step) /\ Len(body) = size /\ \A j \in 1 .. size : body[j] = step(j)
    BY <1>2, <1>5, <2>1
  <2> QED BY <2>1, <2>2
<1>7. ItemLoop(s, d, first, last1, schemas) = <<Incr(s, d)>> \o body \o <<Decr(s, d)>>
  BY <1>6 DEF ItemLoop, step, size, item
<1> DEFINE fact == \A j \in first .. last1 : Conforms[schemas[j]][Doc[d].items[j]]
<1>8. Tells(body, fact)
  <2>1. StepsOf(body) = {step(j) : j \in 1 .. size}
    BY <1>6 DEF StepsOf
  <2>2. ASSUME NEW x \in StepsOf(body), Fails(x)
        PROVE  ~fact
    <3>1. PICK j \in 1 .. size : x = step(j)
      BY <2>1
    <3> QED BY <1>3, <1>5, <2>2, <3>1
  <2>3. ASSUME \A x \in StepsOf(body) : Harmless(x), NEW k \in first .. last1
        PROVE  Conforms[schemas[k]][Doc[d].items[k]]
    <3>1. PICK j \in 1 .. size : item(j) = k /\ j % 2 # 1
      BY <1>4
    <3> QED BY <1>5, <2>1, <2>3, <3>1
  <2> QED BY <2>2, <2>3 DEF Tells
<1> HIDE DEF fact
<1>9. Tells(<<Incr(s, d)>> \o body \o <<Decr(s, d)>>, fact)
  BY <1>8, EnclosedTells
<1> QED BY <1>7, <1>9 DEF fact

LEMMA LoopsTell ==
  ASSUME NEW s \in Schema, NEW d \in Data
  PROVE  /\ Tells(ItemsPlan(s, d), LoopAccepts("validate_items", s, d))
         /\ Tells(MultipleItemsPlan(s, d),
                  LoopAccepts("validate_with_multiple_items_schema", s, d))
         /\ Tells(AdditionalItemsPlan(s, d),
                  LoopAccepts("validate_additional_items", s, d))
<1> DEFINE list == Compiled[s].list["itemsList"]
           len == Len(Doc[d].items)
<1>1. list \in Seq(Schema) /\ Len(list) \in Nat
  BY StructType DEF Struct, ListKeyword
<1>2. /\ Compiled[s].sub["items"] \in Schema
      /\ Compiled[s].sub["additionalItems"] \in Schema
  BY StructType DEF Struct, SubKeyword
<1>3. Doc[d].items \in Seq(Data) /\ len \in Nat
  BY ValueType1 DEF Value
<1>4. Tells(ItemsPlan(s, d), LoopAccepts("validate_items", s, d))
  <2> DEFINE schemas == [j \in 1 .. len |-> Compiled[s].sub["items"]]
             fact == \A j \in 1 .. len : Conforms[schemas[j]][Doc[d].items[j]]
  <2>1. 1 \in Nat \ {0} /\ len \in 0 .. len /\ \A j \in 1 .. len : schemas[j] \in Schema
    BY <1>2, <1>3
  <2>2. LoopAccepts("validate_items", s, d) <=> fact
    BY DEF LoopAccepts
  <2>3. Tells(ItemLoop(s, d, 1, len, schemas), fact)
    <3> HIDE DEF schemas
    <3> QED BY <2>1, ItemLoopTells
  <2>4. ItemsPlan(s, d) = ItemLoop(s, d, 1, len, schemas)
    BY DEF ItemsPlan
  <2> HIDE DEF fact, schemas
  <2> QED BY <2>2, <2>3, <2>4 DEF Tells
<1>5. Tells(MultipleItemsPlan(s, d), LoopAccepts("validate_with_multiple_items_schema", s, d))
  <2> DEFINE stop == IF Len(list) < len THEN Len(list) ELSE len
             fact == \A j \in 1 .. stop : Conforms[list[j]][Doc[d].items[j]]
  <2>1. stop \in 0 .. len /\ stop \in 0 .. Len(list)
    BY <1>1, <1>3
  <2>2. LoopAccepts("validate_with_multiple_items_schema", s, d) <=> fact
    <3>1. LoopAccepts("validate_with_multiple_items_schema", s, d)
            <=> \A j \in 1 .. len : j <= Len(list) => Conforms[list[j]][Doc[d].items[j]]
      BY DEF LoopAccepts
    <3>2. \A j \in Nat : j \in 1 .. stop <=> (j \in 1 .. len /\ j <= Len(list))
      BY <1>1, <1>3
    <3> HIDE DEF stop, list
    <3> QED BY <1>3, <2>1, <3>1, <3>2
  <2>3. Tells(ItemLoop(s, d, 1, stop, list), fact)
    <3> HIDE DEF stop
    <3>1. 1 \in Nat \ {0} /\ \A j \in 1 .. stop : list[j] \in Schema
      BY <1>1, <2>1
    <3> HIDE DEF list
    <3> QED BY <2>1, <3>1, ItemLoopTells
  <2>4. MultipleItemsPlan(s, d) = ItemLoop(s, d, 1, stop, list)
    BY DEF MultipleItemsPlan
  <2> HIDE DEF fact, stop
  <2> QED BY <2>2, <2>3, <2>4 DEF Tells
<1>6. Tells(AdditionalItemsPlan(s, d), LoopAccepts("validate_additional_items", s, d))
  <2> DEFINE schemas == [j \in 1 .. len |-> Compiled[s].sub["additionalItems"]]
             fact == \A j \in Len(list) + 1 .. len : Conforms[schemas[j]][Doc[d].items[j]]
  <2>1. Len(list) + 1 \in Nat \ {0} /\ len \in 0 .. len
    BY <1>1, <1>3
  <2>2. \A j \in Len(list) + 1 .. len :
          schemas[j] \in Schema /\ schemas[j] = Compiled[s].sub["additionalItems"]
    BY <1>1, <1>2, <1>3
  <2>3. LoopAccepts("validate_additional_items", s, d) <=> fact
    <3>1. LoopAccepts("validate_additional_items", s, d)
            <=> \A j \in Len(list) + 1 .. len :
                  Conforms[Compiled[s].sub["additionalItems"]][Doc[d].items[j]]
      BY DEF LoopAccepts
    <3> QED BY <2>2, <3>1
  <2>4. Tells(ItemLoop(s, d, Len(list) + 1, len, schemas), fact)
    <3> HIDE DEF schemas, list
    <3> QED BY <2>1, <2>2, ItemLoopTells
  <2>5. AdditionalItemsPlan(s, d) = ItemLoop(s, d, Len(list) + 1, len, schemas)
    BY DEF AdditionalItemsPlan
  <2> HIDE DEF fact, schemas
  <2> QED BY <2>3, <2>4, <2>5 DEF Tells
<1> QED BY <1>4, <1>5, <1>6

(* The three loops between them ask of each item what Semantics asks.      *)
LEMMA ItemsSplit ==
  ASSUME NEW s \in Schema, NEW d \in Data
  PROVE  (\A j \in 1 .. Len(Doc[d].items) : ItemConforms(Conforms, s, d, j)) <=>
           /\ Has(s, "items") => LoopAccepts("validate_items", s, d)
           /\ Has(s, "itemsList") /\ ~Has(s, "items") =>
                /\ LoopAccepts("validate_with_multiple_items_schema", s, d)
                /\ Has(s, "additionalItems") => LoopAccepts("validate_additional_items", s, d)
<1> DEFINE list == Compiled[s].list["itemsList"]
           len == Len(Doc[d].items)
<1>1. Len(list) \in Nat /\ len \in Nat
  BY StructType, ValueType1 DEF Struct, ListKeyword, Value
<1>2. LoopAccepts("validate_items", s, d)
        <=> \A j \in 1 .. len : Conforms[Compiled[s].sub["items"]][Doc[d].items[j]]
  BY DEF LoopAccepts
<1>3. LoopAccepts("validate_with_multiple_items_schema", s, d)
        <=> \A j \in 1 .. len : j <= Len(list) => Conforms[list[j]][Doc[d].items[j]]
  BY DEF LoopAccepts
<1>4. LoopAccepts("validate_additional_items", s, d)
        <=> \A j \in Len(list) + 1 .. len :
              Conforms[Compiled[s].sub["additionalItems"]][Doc[d].items[j]]
  BY DEF LoopAccepts
<1>5. CASE Has(s, "items")
  <2>1. \A j \in 1 .. len : ItemConforms(Conforms, s, d, j)
                              <=> Conforms[Compiled[s].sub["items"]][Doc[d].items[j]]
    BY <1>5 DEF ItemConforms
  <2> QED BY <1>2, <1>5, <2>1
<1>6. CASE ~Has(s, "items") /\ ~Has(s, "itemsList")
  <2>1. \A j \in 1 .. len : ItemConforms(Conforms, s, d, j)
    BY <1>6 DEF ItemConforms
  <2> QED BY <1>6, <2>1
<1>7. CASE ~Has(s, "items") /\ Has(s, "itemsList")
  <2>1. \A j \in 1 .. len :
          /\ j <= Len(list) => (ItemConforms(Conforms, s, d, j)
                                  <=> Conforms[list[j]][Doc[d].items[j]])
          /\ ~(j <= Len(list)) =>
               (ItemConforms(Conforms, s, d, j)
                  <=> (Has(s, "additionalItems") =>
                         Conforms[Compiled[s].sub["additionalItems"]][Doc[d].items[j]]))
    BY <1>7 DEF ItemConforms
  <2>2. \A j \in 1 .. len : ~(j <= Len(list)) <=> j \in Len(list) + 1 .. len
    BY <1>1
  <2>3. \A j \in Len(list) + 1 .. len : j \in 1 .. len
    BY <1>1
  <2> QED BY <1>3, <1>4, <1>7, <2>1, <2>2, <2>3
<1> QED BY <1>5, <1>6, <1>7

LEMMA ArrayTells ==
  ASSUME NEW s \in Schema, NEW d \in Data
  PROVE  Tells(ArrayPlan(s, d), Doc[d].type = "array" /\ ArrayConforms(Conforms, s, d))
<1> DEFINE c == Compiled[s]
           items == Doc[d].items
           len == Len(items)
           listed == Has(s, "itemsList") /\ ~Has(s, "items")
           more == listed /\ len > Len(c.list["itemsList"]) /\ Has(s, "additionalItems")
<1>1. /\ items \in Seq(Data) /\ len \in Nat /\ c.limit \in [LimitKeyword -> Int]
      /\ Len(c.list["itemsList"]) \in Nat
  <2>1. c.list["itemsList"] \in Seq(Schema) /\ c.limit \in [LimitKeyword -> Int]
    BY StructType DEF Struct, ListKeyword
  <2>2. items \in Seq(Data)
    BY ValueType1 DEF Value
  <2> QED BY <2>1, <2>2
<1>2. CASE Doc[d].type # "array"
  <2>1. PICK e \in Step : e = Err(s, d, "type_array") /\ Fails(e) /\ ~Harmless(e)
    BY ErrAsks DEF ErrorType
  <2>2. StepsOf(<<e>>) = {e}
    BY OneStep
  <2>3. ArrayPlan(s, d) = <<e>>
    BY <1>2, <2>1 DEF ArrayPlan
  <2> QED BY <1>2, <2>1, <2>2, <2>3 DEF Tells
<1>3. CASE Doc[d].type = "array"
  <2> DEFINE p1 == Limit(s, d, "maxItems", len > c.limit["maxItems"])
             p2 == Limit(s, d, "minItems", len < c.limit["minItems"])
             p3 == ErrIf(Has(s, "uniqueItems") /\ ~NoDuplicates(items), s, d, "uniqueItems")
             p4 == When(Has(s, "items"), Do("validate_items", s, d, 0))
             p5 == When(listed, Do("validate_with_multiple_items_schema", s, d, 0))
             p6 == When(more, Do("validate_additional_items", s, d, 0))
             p7 == When(Has(s, "contains"), Do("validate_contains", s, d, 0))
             a4 == LoopAccepts("validate_items", s, d)
             a5 == LoopAccepts("validate_with_multiple_items_schema", s, d)
             a6 == LoopAccepts("validate_additional_items", s, d)
             a7 == ContainsConforms(Conforms, s, d)
             f1 == Has(s, "maxItems") => len <= c.limit["maxItems"]
             f2 == Has(s, "minItems") => len >= c.limit["minItems"]
             f3 == Has(s, "uniqueItems") => Cardinality({items[j] : j \in 1 .. len}) = len
             f4 == Has(s, "items") => a4
             f5 == listed => a5
             f6 == listed /\ Has(s, "additionalItems") => a6
             f7 == Has(s, "contains") => a7
  <2>0. /\ {"maxItems", "minItems"} \subseteq LimitKeyword
        /\ {"maxItems", "minItems", "uniqueItems"} \subseteq ErrorType
    BY DEF LimitKeyword, ErrorType
  <2>a. /\ len > c.limit["maxItems"] <=> ~(len <= c.limit["maxItems"])
        /\ len < c.limit["minItems"] <=> ~(len >= c.limit["minItems"])
    BY <1>1, <2>0
  <2>1. p1 \in Seq(Step) /\ Tells(p1, f1)
    BY <2>0, <2>a, LimitTells
  <2>2. p2 \in Seq(Step) /\ Tells(p2, f2)
    BY <2>0, <2>a, LimitTells
  <2>3. p3 \in Seq(Step) /\ Tells(p3, f3)
    <3>1. f3 <=> ~(Has(s, "uniqueItems") /\ ~NoDuplicates(items))
      BY <1>1, Distinct
    <3> HIDE DEF f3
    <3> QED BY <2>0, <3>1, ErrTells
  <2>4. ASSUME NEW fn \in CallFn, NEW b, NEW answer, Accepts(fn, s, d, 0) <=> answer,
               NEW fact, b => (fact <=> answer), ~b => fact
        PROVE  When(b, Do(fn, s, d, 0)) \in Seq(Step) /\ Tells(When(b, Do(fn, s, d, 0)), fact)
    <3>1. PICK x \in Step : /\ x = Do(fn, s, d, 0)
                            /\ Fails(x) <=> ~answer
                            /\ Harmless(x) <=> answer
      BY <2>4, DoAsks
    <3> QED BY <2>4, <3>1, WhenTells
  <2>5. /\ {"validate_items", "validate_with_multiple_items_schema",
            "validate_additional_items", "validate_contains"} \subseteq CallFn
        /\ Accepts("validate_items", s, d, 0) <=> a4
        /\ Accepts("validate_with_multiple_items_schema", s, d, 0) <=> a5
        /\ Accepts("validate_additional_items", s, d, 0) <=> a6
        /\ Accepts("validate_contains", s, d, 0) <=> a7
    <3>1. "validate_contains" \in Combinator /\ "validate_items" \in ArrayFn
          /\ "validate_with_multiple_items_schema" \in ArrayFn
          /\ "validate_additional_items" \in ArrayFn
      BY DEF Combinator, ArrayFn
    <3>2. CombinatorAccepts("validate_contains", s, d) <=> a7
      BY DEF CombinatorAccepts
    <3> HIDE DEF a4, a5, a6, a7
    <3> QED BY <3>1, <3>2, CallFns, GroupAccepts DEF a4, a5, a6
  <2>6. ~more /\ listed /\ Has(s, "additionalItems") => a6
    <3>1. SUFFICES ASSUME ~(len > Len(c.list["itemsList"])) PROVE a6
      OBVIOUS
    <3>2. \A j \in Len(c.list["itemsList"]) + 1 .. len : FALSE
      BY <1>1, <3>1
    <3> QED BY <3>2 DEF LoopAccepts
  <2> HIDE DEF a4, a5, a6, a7
  <2>7. p4 \in Seq(Step) /\ Tells(p4, f4)
    BY <2>4, <2>5
  <2>8. p5 \in Seq(Step) /\ Tells(p5, f5)
    <3>1. /\ listed => (f5 <=> a5)
          /\ ~listed => f5
      OBVIOUS
    <3> HIDE DEF f5, listed
    <3> QED BY <2>4, <2>5, <3>1
  <2>9. p6 \in Seq(Step) /\ Tells(p6, f6)
    <3>1. /\ more => (f6 <=> a6)
          /\ ~more => f6
      BY <2>6
    <3> HIDE DEF f6, more
    <3> QED BY <2>4, <2>5, <3>1
  <2>10. p7 \in Seq(Step) /\ Tells(p7, f7)
    BY <2>4, <2>5
  <2>11. ArrayPlan(s, d) = p1 \o p2 \o p3 \o p4 \o p5 \o p6 \o p7
    BY <1>3 DEF ArrayPlan
  <2> DEFINE f == f1 /\ f2 /\ f3 /\ f4 /\ f5
             g == f /\ f6
  <2>12. ArrayConforms(Conforms, s, d) <=> g /\ f7
    BY ItemsSplit DEF ArrayConforms, a4, a5, a6, a7
  <2> HIDE DEF p1, p2, p3, p4, p5, p6, p7, f1, f2, f3, f4, f5, f6, f7
  <2>13. PICK q \in Seq(Step) : q = p1 \o p2 \o p3 \o p4 \o p5 /\ Tells(q, f)
    <3>1. f <=> f1 /\ f2 /\ f3 /\ f4 /\ f5
      OBVIOUS
    <3> HIDE DEF f
    <3> QED BY <2>1, <2>2, <2>3, <2>7, <2>8, <3>1, FiveTell
  <2> HIDE DEF f
  <2>14. PICK r \in Seq(Step) : r = q \o p6 /\ Tells(r, g)
    <3>1. g <=> f /\ f6
      OBVIOUS
    <3> HIDE DEF g
    <3> QED BY <2>9, <2>13, <3>1, TellsBoth
  <2> HIDE DEF g
  <2>15. Tells(r \o p7, ArrayConforms(Conforms, s, d))
    BY <2>10, <2>12, <2>14, TellsBoth
  <2> QED BY <1>3, <2>11, <2>13, <2>14, <2>15 DEF Tells
<1> QED BY <1>2, <1>3

(***************************************************************************)
(* Objects.                                                                *)
(***************************************************************************)
LEMMA Wraps ==
  ASSUME NEW x \in Int, NEW m \in Int, m > 0
  PROVE  /\ 0 <= x /\ x < m => (x % m) = x
         /\ -m <= x /\ x < 0 => (x % m) = m + x
<1>1. PICK p \in Int, r \in 0 .. m - 1 : p = x \div m /\ r = x % m /\ x = m * p + r
  <2>1. x \div m \in Int /\ (x % m) \in Int /\ 0 <= (x % m) /\ (x % m) < m
    OBVIOUS
  <2>2. x = m * (x \div m) + (x % m)
    OBVIOUS
  <2> QED BY <2>1, <2>2
<1>2. CASE p >= 1
  <2>1. m * p >= m
    BY <1>2
  <2> QED BY <1>1, <2>1
<1>3. CASE p <= -2
  <2>1. m * p <= -2 * m
    BY <1>3
  <2> QED BY <1>1, <2>1
<1>4. CASE p = 0
  <2>1. m * p = 0
    BY <1>4
  <2> QED BY <1>1, <2>1
<1>5. CASE p = -1
  <2>1. m * p = -m
    BY <1>5
  <2> QED BY <1>1, <2>1
<1> QED BY <1>1, <1>2, <1>3, <1>4, <1>5

LEMMA Sizes ==
  ASSUME NEW s \in Schema, NEW k \in Unsigned, Fits(k, Compiled[s].limit[k]), Has(s, k)
  PROVE  ULong(Compiled[s].limit[k]) = Compiled[s].limit[k] /\ Compiled[s].limit[k] \in Int
<1>1. k \in LimitKeyword
  BY DEF Unsigned, LimitKeyword
<1>2. PICK x \in Int : x = Compiled[s].limit[k]
  BY <1>1, StructType DEF Struct
<1>3. PICK m \in Int : m = 2 * (LongMax + 1) /\ m > 0
  BY LongMaxAssumption
<1>4. 0 <= x /\ x < m
  BY <1>2, <1>3, LongMaxAssumption, SizesAssumption DEF Fits, FitsLong
<1>5. ULong(x) = x % m
  BY <1>3 DEF ULong
<1>6. (x % m) = x
  BY <1>3, <1>4, Wraps
<1> QED BY <1>2, <1>5, <1>6

(* The members of a Hash are as many as the pairs it was built from.       *)
LEMMA Members ==
  ASSUME NEW d \in Data
  PROVE  Cardinality({Doc[d].members[j] : j \in 1 .. Len(Doc[d].members)}) = Len(Doc[d].members)
<1> DEFINE q == Doc[d].members
<1>1. q \in Seq(Member)
  BY ValueType1 DEF Value
<1>2. \A j, k \in 1 .. Len(q) : q[j].key = q[k].key => j = k
  BY KeysAssumption
<1>3. NoDuplicates(q)
  BY <1>2 DEF NoDuplicates
<1> QED BY <1>1, <1>3, Distinct

(* A sequence of steps, each asking one thing: those in "good" hold.       *)
LEMMA EachTells ==
  ASSUME NEW body \in Seq(Step), NEW good, NEW fact,
         \A j \in 1 .. Len(body) : /\ Fails(body[j]) => j \notin good
                                   /\ Harmless(body[j]) => j \in good,
         fact <=> \A j \in 1 .. Len(body) : j \in good
  PROVE  Tells(body, fact)
BY DEF Tells, StepsOf

LEMMA PropertiesTells ==
  ASSUME NEW s \in Schema, NEW d \in Data
  PROVE  Tells(PropertiesPlan(s, d), Accepts("validate_properties", s, d, 0))
<1> DEFINE n == Len(Doc[d].members)
           good == {j \in 1 .. n : MemberConforms(Conforms, s, Doc[d].members[j])}
           fact == \A j \in 1 .. n : MemberConforms(Conforms, s, Doc[d].members[j])
<1>1. n \in Nat
  BY ValueType1 DEF Value
<1>2. PICK body : body = [j \in 1 .. n |-> Do("validate_object_property", s, d, j)]
  OBVIOUS
<1>3. ASSUME NEW j \in 1 .. n
      PROVE  /\ body[j] \in Step
             /\ Fails(body[j]) => j \notin good
             /\ Harmless(body[j]) => j \in good
  <2>1. body[j] = Do("validate_object_property", s, d, j) /\ j \in Nat
    BY <1>1, <1>2
  <2>2. "validate_object_property" \in CallFn
    BY CallFns DEF ObjectFn
  <2>3. Accepts("validate_object_property", s, d, j) <=> j \in good
    BY OwnAccepts
  <2> HIDE DEF good
  <2> QED BY <2>1, <2>2, <2>3, DoAsks
<1>4. body \in Seq(Step) /\ Tells(body, fact)
  <2>1. fact <=> \A j \in 1 .. n : j \in good
    OBVIOUS
  <2>2. body \in Seq(Step) /\ Len(body) = n
    BY <1>1, <1>2, <1>3
  <2> HIDE DEF fact, good
  <2> QED BY <1>3, <2>1, <2>2, EachTells
<1>5. Tells(<<Incr(s, d)>> \o body \o <<Decr(s, d)>>, fact)
  <2> HIDE DEF fact
  <2> QED BY <1>4, EnclosedTells
<1>6. Accepts("validate_properties", s, d, 0) <=> fact
  BY OwnAccepts
<1>7. PropertiesPlan(s, d) = <<Incr(s, d)>> \o body \o <<Decr(s, d)>>
  BY <1>2 DEF PropertiesPlan
<1> HIDE DEF fact
<1> QED BY <1>5, <1>6, <1>7 DEF Tells

(* One member: its name, the schema under its name, those of the patterns  *)
(* its name matches, and the one for members nothing else spoke of.        *)
LEMMA PropertyTells ==
  ASSUME NEW s \in Schema, NEW d \in Data, NEW i \in 1 .. Len(Doc[d].members)
  PROVE  Tells(PropertyPlan(s, d, i), MemberConforms(Conforms, s, Doc[d].members[i]))
<1> DEFINE c == Compiled[s]
           m == Doc[d].members[i]
           ByPattern(p) == IF m.key \in p.keys THEN Run(p.cs, m.val) ELSE Skip(s, d)
           p1 == <<Add(s, d, Key(m.key))>>
           p2 == When(Has(s, "propertyNames"), Run(c.sub["propertyNames"], m.key))
           p3 == When(m.key \in c.propKeys, Run(c.props[m.key], m.val))
           p4 == [j \in 1 .. Len(c.patterns) |-> ByPattern(c.patterns[j])]
           p5 == When(Has(s, "additionalProperties") /\ ~Validated(s, m.key),
                      Run(c.sub["additionalProperties"], m.val))
           f1 == TRUE
           f2 == Has(s, "propertyNames") => Conforms[c.sub["propertyNames"]][m.key]
           f3 == m.key \in c.propKeys => Conforms[c.props[m.key]][m.val]
           f4 == \A j \in 1 .. Len(c.patterns) :
                   m.key \in c.patterns[j].keys => Conforms[c.patterns[j].cs][m.val]
           f5 == Has(s, "additionalProperties") /\ ~Validated(s, m.key) =>
                   Conforms[c.sub["additionalProperties"]][m.val]
<1>1. m.key \in Data /\ m.val \in Data
  <2>1. Doc[d].members \in Seq(Member)
    BY ValueType1 DEF Value
  <2>2. m \in Member
    BY <2>1
  <2> QED BY <2>2 DEF Member
<1>2. /\ c.sub["propertyNames"] \in Schema /\ c.sub["additionalProperties"] \in Schema
      /\ c.props[m.key] \in Schema
  BY <1>1, StructType DEF Struct, SubKeyword
<1>3. p1 \in Seq(Step) /\ Tells(p1, f1)
  <2>1. Key(m.key) \in Segment
    BY <1>1 DEF Key, Segment
  <2>2. PICK x \in Step : x = Add(s, d, Key(m.key)) /\ x.do = "ADD_TO_CONTEXT"
    BY <2>1, PathStepTypes
  <2>3. ~Fails(x) /\ <<x>> \in Seq(Step) /\ StepsOf(<<x>>) = {x}
    BY <2>2, OneStep, QuietSteps DEF PathOp
  <2> QED BY <2>2, <2>3 DEF Tells
<1>4. ASSUME NEW b, NEW t \in Schema, NEW v \in Data, NEW fact,
             b => (fact <=> Conforms[t][v]), ~b => fact
      PROVE  When(b, Run(t, v)) \in Seq(Step) /\ Tells(When(b, Run(t, v)), fact)
  <2>1. PICK x \in Step : /\ x = Run(t, v)
                          /\ Fails(x) <=> ~Conforms[t][v]
                          /\ Harmless(x) <=> Conforms[t][v]
    BY RunAsks
  <2> QED BY <1>4, <2>1, WhenTells
<1>5. p2 \in Seq(Step) /\ Tells(p2, f2)
  <2> DEFINE b == Has(s, "propertyNames")
  <2>1. /\ b => (f2 <=> Conforms[c.sub["propertyNames"]][m.key])
        /\ ~b => f2
    OBVIOUS
  <2> HIDE DEF f2, b
  <2>2. When(b, Run(c.sub["propertyNames"], m.key)) \in Seq(Step)
        /\ Tells(When(b, Run(c.sub["propertyNames"], m.key)), f2)
    BY <1>1, <1>2, <1>4, <2>1
  <2> QED BY <2>2 DEF b
<1>6. p3 \in Seq(Step) /\ Tells(p3, f3)
  <2> DEFINE b == m.key \in c.propKeys
  <2>1. /\ b => (f3 <=> Conforms[c.props[m.key]][m.val])
        /\ ~b => f3
    OBVIOUS
  <2> HIDE DEF f3, b
  <2>2. When(b, Run(c.props[m.key], m.val)) \in Seq(Step)
        /\ Tells(When(b, Run(c.props[m.key], m.val)), f3)
    BY <1>1, <1>2, <1>4, <2>1
  <2> QED BY <2>2 DEF b
<1>7. p5 \in Seq(Step) /\ Tells(p5, f5)
  <2> DEFINE b == Has(s, "additionalProperties") /\ ~Validated(s, m.key)
  <2>1. /\ b => (f5 <=> Conforms[c.sub["additionalProperties"]][m.val])
        /\ ~b => f5
    OBVIOUS
  <2> HIDE DEF f5, b
  <2>2. When(b, Run(c.sub["additionalProperties"], m.val)) \in Seq(Step)
        /\ Tells(When(b, Run(c.sub["additionalProperties"], m.val)), f5)
    BY <1>1, <1>2, <1>4, <2>1
  <2> QED BY <2>2 DEF b
<1>8. p4 \in Seq(Step) /\ Tells(p4, f4)
  <2> DEFINE n == Len(c.patterns)
             good == {j \in 1 .. n :
                        m.key \in c.patterns[j].keys => Conforms[c.patterns[j].cs][m.val]}
  <2>1. n \in Nat /\ \A j \in 1 .. n : c.patterns[j] \in Applicator
    <3>1. c.patterns \in Seq(Applicator)
      BY StructType DEF Struct
    <3> QED BY <3>1
  <2>2. PICK q : q = p4
    OBVIOUS
  <2>3. ASSUME NEW j \in 1 .. n
        PROVE  /\ q[j] \in Step
               /\ Fails(q[j]) => j \notin good
               /\ Harmless(q[j]) => j \in good
    <3>1. c.patterns[j].cs \in Schema
      BY <2>1 DEF Applicator
    <3>2. q[j] = ByPattern(c.patterns[j])
      BY <2>2
    <3>3. CASE m.key \in c.patterns[j].keys
      <4>1. q[j] = Run(c.patterns[j].cs, m.val)
        BY <3>2, <3>3
      <4>2. j \in good <=> Conforms[c.patterns[j].cs][m.val]
        BY <3>3
      <4> QED BY <1>1, <3>1, <4>1, <4>2, RunAsks
    <3>4. CASE m.key \notin c.patterns[j].keys
      <4>1. q[j] = Skip(s, d) /\ j \in good
        BY <3>2, <3>4
      <4>2. Skip(s, d) \in Step /\ Skip(s, d).do = "skip"
        BY StepTypes, PlainSteps DEF Skip, Do
      <4> QED BY <4>1, <4>2, QuietSteps
    <3> QED BY <3>3, <3>4
  <2>4. f4 <=> \A j \in 1 .. n : j \in good
    OBVIOUS
  <2>5. q \in Seq(Step) /\ Len(q) = n
    <3>1. q = [j \in 1 .. n |-> ByPattern(c.patterns[j])]
      BY <2>2
    <3>2. \A j \in 1 .. n : q[j] \in Step
      BY <2>3
    <3> HIDE DEF ByPattern, good
    <3> QED BY <2>1, <3>1, <3>2
  <2> HIDE DEF f4, good
  <2>6. q \in Seq(Step) /\ Tells(q, f4)
    BY <2>3, <2>4, <2>5, EachTells
  <2> QED BY <2>2, <2>6
<1>9. Doc[m.key].type = "string" =>
        (MemberConforms(Conforms, s, m) <=> f1 /\ f2 /\ f3 /\ f4 /\ f5)
  <2>1. SUFFICES ASSUME Doc[m.key].type = "string"
                 PROVE  MemberConforms(Conforms, s, m) <=> f1 /\ f2 /\ f3 /\ f4 /\ f5
    OBVIOUS
  <2> DEFINE patterns == {c.patterns[j] : j \in 1 .. Len(c.patterns)}
  <2>2. Validated(s, m.key) <=> m.key \in c.propKeys \/ \E p \in patterns : m.key \in p.keys
    BY DEF Validated
  <2>3. f4 <=> \A p \in patterns : m.key \in p.keys => Conforms[p.cs][m.val]
    OBVIOUS
  <2> QED BY <2>1, <2>2, <2>3 DEF MemberConforms
<1>10. CASE Doc[m.key].type # "string"
  <2>1. PropertyPlan(s, d, i) = <<>> /\ MemberConforms(Conforms, s, m)
    BY <1>10 DEF PropertyPlan, MemberConforms
  <2>2. StepsOf(<<>>) = {}
    BY DEF StepsOf
  <2> QED BY <2>1, <2>2 DEF Tells
<1>11. CASE Doc[m.key].type = "string"
  <2>1. PropertyPlan(s, d, i) = p1 \o p2 \o p3 \o p4 \o p5
    BY <1>11 DEF PropertyPlan
  <2>2. MemberConforms(Conforms, s, m) <=> f1 /\ f2 /\ f3 /\ f4 /\ f5
    BY <1>9, <1>11
  <2> HIDE DEF p1, p2, p3, p4, p5, f1, f2, f3, f4, f5
  <2>3. Tells(p1 \o p2 \o p3 \o p4 \o p5, MemberConforms(Conforms, s, m))
    BY <1>3, <1>5, <1>6, <1>7, <1>8, <2>2, FiveTell
  <2> QED BY <2>1, <2>3
<1> QED BY <1>10, <1>11

LEMMA ObjectTells ==
  ASSUME NEW s \in Schema, NEW d \in Data
  PROVE  Tells(ObjectPlan(s, d), Doc[d].type = "object" /\ ObjectConforms(Conforms, s, d))
<1> DEFINE c == Compiled[s]
           size == Len(Doc[d].members)
           members == {Doc[d].members[j] : j \in 1 .. size}
<1>1. /\ size \in Nat /\ Cardinality(members) = size
      /\ \A k : HasKey(d, k) <=> \E m \in members : m.key = k
  <2>1. Doc[d].members \in Seq(Member)
    BY ValueType1 DEF Value
  <2> QED BY <2>1, Members DEF HasKey
<1>2. CASE Doc[d].type # "object"
  <2>1. PICK e \in Step : e = Err(s, d, "type_object") /\ Fails(e) /\ ~Harmless(e)
    BY ErrAsks DEF ErrorType
  <2>2. StepsOf(<<e>>) = {e}
    BY OneStep
  <2>3. ObjectPlan(s, d) = <<e>>
    BY <1>2, <2>1 DEF ObjectPlan
  <2> QED BY <1>2, <2>1, <2>2, <2>3 DEF Tells
<1>3. CASE Doc[d].type = "object"
  <2> DEFINE Required(k) == IF HasKey(d, k) THEN Skip(s, d) ELSE Err(s, d, "required")
             Dependency(p) == IF HasKey(d, p.key) THEN Run(p.cs, d) ELSE Skip(s, d)
             p1 == Limit(s, d, "maxProperties", size > ULong(c.limit["maxProperties"]))
             p2 == Limit(s, d, "minProperties", size < ULong(c.limit["minProperties"]))
             p3 == [j \in 1 .. Len(c.required) |-> Required(c.required[j])]
             p4 == [j \in 1 .. Len(c.deps) |-> Dependency(c.deps[j])]
             p5 == <<Do("validate_properties", s, d, 0)>>
             f1 == Has(s, "maxProperties") => Cardinality(members) <= c.limit["maxProperties"]
             f2 == Has(s, "minProperties") => Cardinality(members) >= c.limit["minProperties"]
             f3 == \A j \in 1 .. Len(c.required) : \E m \in members : m.key = c.required[j]
             f4 == \A j \in 1 .. Len(c.deps) :
                     (\E m \in members : m.key = c.deps[j].key) => Conforms[c.deps[j].cs][d]
             f5 == \A m \in members : MemberConforms(Conforms, s, m)
  <2>0. {"maxProperties", "minProperties"} \subseteq ErrorType
    BY DEF LimitKeyword, ErrorType
  <2>1. p1 \in Seq(Step) /\ Tells(p1, f1)
    <3> DEFINE fact == Cardinality(members) <= c.limit["maxProperties"]
               violated == size > ULong(c.limit["maxProperties"])
    <3>1. Fits("maxProperties", c.limit["maxProperties"]) /\ Has(s, "maxProperties") => (fact <=> ~violated)
      BY <1>1, Sizes DEF Unsigned
    <3> HIDE DEF fact, violated
    <3>2. Limit(s, d, "maxProperties", violated) \in Seq(Step)
          /\ Tells(Limit(s, d, "maxProperties", violated), Has(s, "maxProperties") => fact)
      BY <2>0, <3>1, LimitTells
    <3> QED BY <3>2 DEF fact, violated
  <2>2. p2 \in Seq(Step) /\ Tells(p2, f2)
    <3> DEFINE fact == Cardinality(members) >= c.limit["minProperties"]
               violated == size < ULong(c.limit["minProperties"])
    <3>1. Fits("minProperties", c.limit["minProperties"]) /\ Has(s, "minProperties") => (fact <=> ~violated)
      BY <1>1, Sizes DEF Unsigned
    <3> HIDE DEF fact, violated
    <3>2. Limit(s, d, "minProperties", violated) \in Seq(Step)
          /\ Tells(Limit(s, d, "minProperties", violated), Has(s, "minProperties") => fact)
      BY <2>0, <3>1, LimitTells
    <3> QED BY <3>2 DEF fact, violated
  <2>s. PICK skip \in Step : skip = Skip(s, d) /\ ~Fails(skip) /\ Harmless(skip)
    <3>1. Skip(s, d) \in Step /\ Skip(s, d).do = "skip"
      BY StepTypes, PlainSteps DEF Skip, Do
    <3> QED BY <3>1, QuietSteps
  <2>3. p3 \in Seq(Step) /\ Tells(p3, f3)
    <3> DEFINE n == Len(c.required)
               good == {j \in 1 .. n : HasKey(d, c.required[j])}
    <3>1. n \in Nat
      BY StructType DEF Struct
    <3>2. PICK err \in Step : err = Err(s, d, "required") /\ Fails(err) /\ ~Harmless(err)
      BY ErrAsks DEF ErrorType
    <3>3. PICK q : q = [j \in 1 .. n |-> IF HasKey(d, c.required[j]) THEN skip ELSE err]
      OBVIOUS
    <3>4. q = p3
      BY <2>s, <3>2, <3>3
    <3>5. q \in Seq(Step) /\ Len(q) = n
      BY <3>1, <3>3
    <3>6. \A j \in 1 .. n : /\ Fails(q[j]) => j \notin good
                            /\ Harmless(q[j]) => j \in good
      BY <2>s, <3>2, <3>3
    <3>7. f3 <=> \A j \in 1 .. n : j \in good
      BY <1>1
    <3> HIDE DEF f3, good
    <3>8. Tells(q, f3)
      BY <3>5, <3>6, <3>7, EachTells
    <3> QED BY <3>4, <3>5, <3>8
  <2>4. p4 \in Seq(Step) /\ Tells(p4, f4)
    <3> DEFINE n == Len(c.deps)
               good == {j \in 1 .. n : HasKey(d, c.deps[j].key) => Conforms[c.deps[j].cs][d]}
    <3>1. n \in Nat /\ \A j \in 1 .. n : c.deps[j].cs \in Schema
      <4>1. c.deps \in Seq(Dependent)
        BY StructType DEF Struct
      <4>2. n \in Nat /\ \A j \in 1 .. n : c.deps[j] \in Dependent
        BY <4>1
      <4> QED BY <4>2 DEF Dependent
    <3>2. PICK q : q = [j \in 1 .. n |-> Dependency(c.deps[j])]
      OBVIOUS
    <3>3. ASSUME NEW j \in 1 .. n
          PROVE  /\ q[j] \in Step
                 /\ Fails(q[j]) => j \notin good
                 /\ Harmless(q[j]) => j \in good
      <4>1. q[j] = IF HasKey(d, c.deps[j].key) THEN Run(c.deps[j].cs, d) ELSE skip
        BY <2>s, <3>2
      <4>2. CASE HasKey(d, c.deps[j].key)
        <5>1. q[j] = Run(c.deps[j].cs, d) /\ (j \in good <=> Conforms[c.deps[j].cs][d])
          BY <4>1, <4>2
        <5> QED BY <3>1, <5>1, RunAsks
      <4>3. CASE ~HasKey(d, c.deps[j].key)
        <5>1. q[j] = skip /\ j \in good
          BY <4>1, <4>3
        <5> QED BY <2>s, <5>1
      <4> QED BY <4>2, <4>3
    <3>4. q \in Seq(Step) /\ Len(q) = n
      <4>1. \A j \in 1 .. n : q[j] \in Step
        BY <3>3
      <4> HIDE DEF Dependency, good
      <4> QED BY <3>1, <3>2, <4>1
    <3>5. f4 <=> \A j \in 1 .. n : j \in good
      BY <1>1
    <3> HIDE DEF f4, good
    <3>6. Tells(q, f4)
      BY <3>3, <3>4, <3>5, EachTells
    <3> QED BY <3>2, <3>4, <3>6
  <2>5. p5 \in Seq(Step) /\ Tells(p5, f5)
    <3>1. "validate_properties" \in CallFn
      BY CallFns DEF ObjectFn
    <3>2. Accepts("validate_properties", s, d, 0) <=> f5
      BY <1>1, OwnAccepts
    <3> HIDE DEF f5
    <3>3. PICK x \in Step : /\ x = Do("validate_properties", s, d, 0)
                            /\ Fails(x) <=> ~f5
                            /\ Harmless(x) <=> f5
      BY <3>1, <3>2, DoAsks
    <3>4. StepsOf(<<x>>) = {x} /\ <<x>> \in Seq(Step)
      BY OneStep
    <3> QED BY <3>3, <3>4 DEF Tells
  <2>6. ObjectPlan(s, d) = p1 \o p2 \o p3 \o p4 \o p5
    BY <1>3 DEF ObjectPlan
  <2>7. ObjectConforms(Conforms, s, d) <=> f1 /\ f2 /\ f3 /\ f4 /\ f5
    BY DEF ObjectConforms
  <2> HIDE DEF p1, p2, p3, p4, p5, f1, f2, f3, f4, f5
  <2>8. Tells(p1 \o p2 \o p3 \o p4 \o p5, ObjectConforms(Conforms, s, d))
    BY <2>1, <2>2, <2>3, <2>4, <2>5, <2>7, FiveTell
  <2> QED BY <1>3, <2>6, <2>8 DEF Tells
<1> QED BY <1>2, <1>3

(***************************************************************************)
(* Types.                                                                  *)
(***************************************************************************)
Typed == {"validate_null", "validate_bool", "validate_integer", "validate_number",
          "validate_string", "validate_array", "validate_object"}

(* What each type function accepts, written out.                           *)
LEMMA HandlerFacts ==
  ASSUME NEW s, NEW d
  PROVE  /\ HandlerAccepts("validate_null", s, d) <=> Doc[d].type = "null"
         /\ HandlerAccepts("validate_bool", s, d) <=> Doc[d].type = "boolean"
         /\ HandlerAccepts("validate_integer", s, d) <=>
              Doc[d].type = "integer" /\ NumberConforms(s, Quotients(Halves(d)), Halves(d))
         /\ HandlerAccepts("validate_number", s, d) <=>
              Doc[d].type \in {"integer", "float"} /\ NumberConforms(s, Ints, Halves(d))
         /\ HandlerAccepts("validate_string", s, d) <=>
              Doc[d].type = "string" /\ StringConforms(s, d)
         /\ HandlerAccepts("validate_array", s, d) <=>
              Doc[d].type = "array" /\ ArrayConforms(Conforms, s, d)
         /\ HandlerAccepts("validate_object", s, d) <=>
              Doc[d].type = "object" /\ ObjectConforms(Conforms, s, d)
         /\ HandlerAccepts("no_op_validate", s, d)
<1>1. /\ HandlerAccepts("validate_null", s, d) <=> Doc[d].type = "null"
      /\ HandlerAccepts("validate_bool", s, d) <=> Doc[d].type = "boolean"
      /\ HandlerAccepts("no_op_validate", s, d)
  BY DEF HandlerAccepts
<1>2. /\ HandlerAccepts("validate_integer", s, d) <=>
           Doc[d].type = "integer" /\ NumberConforms(s, Quotients(Halves(d)), Halves(d))
      /\ HandlerAccepts("validate_number", s, d) <=>
           Doc[d].type \in {"integer", "float"} /\ NumberConforms(s, Ints, Halves(d))
  BY DEF HandlerAccepts
<1>3. HandlerAccepts("validate_string", s, d) <=>
        Doc[d].type = "string" /\ StringConforms(s, d)
  BY DEF HandlerAccepts
<1>4. /\ HandlerAccepts("validate_array", s, d) <=>
           Doc[d].type = "array" /\ ArrayConforms(Conforms, s, d)
      /\ HandlerAccepts("validate_object", s, d) <=>
           Doc[d].type = "object" /\ ObjectConforms(Conforms, s, d)
  BY DEF HandlerAccepts
<1> QED BY <1>1, <1>2, <1>3, <1>4

LEMMA TypedTell ==
  ASSUME NEW fn \in Typed, NEW s \in Schema, NEW d \in Data, NEW i
  PROVE  Tells(Plan(fn, s, d, i), HandlerAccepts(fn, s, d))
<1> DEFINE t == Doc[d].type
           x == Halves(d)
           m == LimitHalves(s, "multipleOf")
           n == Compiled[s].limit["multipleOf"]
<1>1. /\ x \in Int /\ m \in Int /\ (Has(s, "multipleOf") => m > 0)
      /\ Doc[d].num \in Int /\ n \in Int /\ m = 2 * n /\ (Has(s, "multipleOf") => n > 0)
  BY HalvesType, DivisorAssumption DEF LimitHalves, LimitKeyword
<1>2. {"type_null", "type_bool", "type_integer", "type_number"} \subseteq ErrorType
  BY DEF ErrorType
<1>3. CASE fn = "validate_null"
  <2>1. Plan(fn, s, d, i) = ErrIf(t # "null", s, d, "type_null")
    BY <1>3 DEF Plan, NullPlan
  <2>2. HandlerAccepts(fn, s, d) <=> ~(t # "null")
    BY <1>3, HandlerFacts
  <2> QED BY <1>2, <2>1, <2>2, ErrTells
<1>4. CASE fn = "validate_bool"
  <2>1. Plan(fn, s, d, i) = ErrIf(t # "boolean", s, d, "type_bool")
    BY <1>4 DEF Plan, BoolPlan
  <2>2. HandlerAccepts(fn, s, d) <=> ~(t # "boolean")
    BY <1>4, HandlerFacts
  <2> QED BY <1>2, <2>1, <2>2, ErrTells
<1>5. CASE fn = "validate_integer"
  <2> DEFINE multiple == IntegerMultiple(Doc[d].num, n)
             fact == t \in {"integer"} /\ NumberConforms(s, Quotients(x), x)
  <2>1. Plan(fn, s, d, i) = NumericPlan(s, d, {"integer"}, "type_integer", multiple)
    BY <1>5 DEF Plan, IntegerPlan
  <2>2. HandlerAccepts(fn, s, d) <=> fact
    BY <1>5, HandlerFacts
  <2>3. t \in {"integer"} /\ Has(s, "multipleOf")
          => (multiple <=> \E q \in Quotients(x) : x = q * m)
    <3>1. t \in {"integer"} => x = 2 * Doc[d].num
      BY DEF Halves
    <3> QED BY <1>1, <3>1, IntegerMultiples
  <2> HIDE DEF multiple
  <2>4. Tells(NumericPlan(s, d, {"integer"}, "type_integer", multiple), fact)
    BY <1>2, <2>3, NumericTells
  <2> QED BY <2>1, <2>2, <2>4 DEF Tells
<1>6. CASE fn = "validate_number"
  <2> DEFINE multiple == NumberMultiple(x, m)
             fact == t \in {"integer", "float"} /\ NumberConforms(s, Ints, x)
  <2>1. Plan(fn, s, d, i) = NumericPlan(s, d, {"integer", "float"}, "type_number", multiple)
    BY <1>6 DEF Plan, NumberPlan
  <2>2. HandlerAccepts(fn, s, d) <=> fact
    BY <1>6, HandlerFacts
  <2>3. Has(s, "multipleOf") => (multiple <=> \E q \in Ints : x = q * m)
    BY <1>1, NumberMultiples
  <2> HIDE DEF multiple
  <2>4. Tells(NumericPlan(s, d, {"integer", "float"}, "type_number", multiple), fact)
    BY <1>2, <2>3, NumericTells
  <2> QED BY <2>1, <2>2, <2>4 DEF Tells
<1>7. CASE fn = "validate_string"
  <2>1. Plan(fn, s, d, i) = StringPlan(s, d)
    BY <1>7 DEF Plan
  <2>2. HandlerAccepts(fn, s, d) <=> t = "string" /\ StringConforms(s, d)
    BY <1>7, HandlerFacts
  <2> QED BY <2>1, <2>2, StringTells DEF Tells
<1>8. CASE fn = "validate_array"
  <2>1. Plan(fn, s, d, i) = ArrayPlan(s, d)
    BY <1>8 DEF Plan
  <2>2. HandlerAccepts(fn, s, d) <=> t = "array" /\ ArrayConforms(Conforms, s, d)
    BY <1>8, HandlerFacts
  <2> QED BY <2>1, <2>2, ArrayTells DEF Tells
<1>9. CASE fn = "validate_object"
  <2>1. Plan(fn, s, d, i) = ObjectPlan(s, d)
    BY <1>9 DEF Plan
  <2>2. HandlerAccepts(fn, s, d) <=> t = "object" /\ ObjectConforms(Conforms, s, d)
    BY <1>9, HandlerFacts
  <2> QED BY <2>1, <2>2, ObjectTells DEF Tells
<1> QED BY <1>3, <1>4, <1>5, <1>6, <1>7, <1>8, <1>9 DEF Typed

LEMMA TypedAsks ==
  ASSUME NEW fn \in Typed, NEW s \in Schema, NEW d \in Data, NEW i \in Nat
  PROVE  /\ Do(fn, s, d, 0) \in Step /\ fn \in TypeFn /\ fn \in CallFn
         /\ Accepts(fn, s, d, i) <=> HandlerAccepts(fn, s, d)
         /\ Fails(Do(fn, s, d, 0)) <=> ~HandlerAccepts(fn, s, d)
         /\ Harmless(Do(fn, s, d, 0)) <=> HandlerAccepts(fn, s, d)
<1>1. fn \in TypeFn \ {"no_op_validate", "validate_by_data_type", "validate_by_type_list"}
  BY DEF Typed, TypeFn
<1>2. fn \in CallFn
  BY <1>1, CallFns
<1> QED BY <1>1, <1>2, GroupAccepts, DoAsks

LEMMA DataTypeTells ==
  ASSUME NEW s \in Schema, NEW d \in Data
  PROVE  Tells(DataTypePlan(s, d), HandlerAccepts(TypeHandler(Doc[d].type), s, d))
<1> DEFINE t == Doc[d].type
           b == t \notin {"null", "boolean", "other"}
           fact == HandlerAccepts(TypeHandler(t), s, d)
<1>1. t \in ValueType
  BY ValueType1 DEF Value
<1>2. CASE b
  <2>1. TypeHandler(t) \in Typed
    BY <1>1, <1>2 DEF ValueType, JsonType, TypeHandler, Typed
  <2>2. PICK fn \in Typed : fn = TypeHandler(t)
    BY <2>1
  <2>3. PICK x \in Step : /\ x = Do(fn, s, d, 0)
                          /\ Fails(x) <=> ~fact
                          /\ Harmless(x) <=> fact
    BY <2>2, TypedAsks
  <2>4. DataTypePlan(s, d) = <<x>>
    BY <1>2, <2>2, <2>3 DEF DataTypePlan, When
  <2> HIDE DEF fact
  <2> QED BY <2>3, <2>4, OneStep DEF Tells, fact
<1>3. CASE ~b
  <2>1. fact
    BY <1>3, HandlerFacts DEF TypeHandler
  <2>2. DataTypePlan(s, d) = <<>> /\ StepsOf(<<>>) = {}
    BY <1>3 DEF DataTypePlan, When, StepsOf
  <2> QED BY <2>1, <2>2 DEF Tells
<1> QED BY <1>2, <1>3

LEMMA TypeListTells ==
  ASSUME NEW s \in Schema, NEW d \in Data
  PROVE  Tells(TypeListPlan(s, d), ListAccepts(s, d))
<1> DEFINE t == Doc[d].type
           flags == Compiled[s].flags
           viaNumber == t \in {"integer", "float"} /\ "number" \in flags
<1>1. t \in ValueType /\ flags \subseteq JsonType
  BY ValueType1, StructType DEF Value, Struct
<1>2. CASE t = "other"
  <2>1. TypeListPlan(s, d) = <<>> /\ StepsOf(<<>>) = {} /\ ListAccepts(s, d)
    BY <1>2 DEF TypeListPlan, StepsOf, ListAccepts
  <2> QED BY <2>1 DEF Tells
<1>3. CASE t # "other" /\ t \in flags
  <2>1. TypeHandler(t) \in Typed
    BY <1>1, <1>3 DEF ValueType, JsonType, TypeHandler, Typed
  <2>2. PICK fn \in Typed : fn = TypeHandler(t)
    BY <2>1
  <2>3. ListAccepts(s, d) <=> HandlerAccepts(fn, s, d)
    BY <1>3, <2>2 DEF ListAccepts
  <2>4. PICK x \in Step : /\ x = Do(fn, s, d, 0)
                          /\ Fails(x) <=> ~HandlerAccepts(fn, s, d)
                          /\ Harmless(x) <=> HandlerAccepts(fn, s, d)
    BY TypedAsks
  <2>5. TypeListPlan(s, d) = <<x>>
    BY <1>3, <2>2, <2>4 DEF TypeListPlan
  <2> QED BY <2>3, <2>4, <2>5, OneStep DEF Tells
<1>4. CASE t # "other" /\ t \notin flags /\ viaNumber
  <2>1. "validate_number" \in Typed
    BY DEF Typed
  <2>2. ListAccepts(s, d) <=> HandlerAccepts("validate_number", s, d)
    BY <1>4 DEF ListAccepts
  <2>3. PICK x \in Step : /\ x = Do("validate_number", s, d, 0)
                          /\ Fails(x) <=> ~HandlerAccepts("validate_number", s, d)
                          /\ Harmless(x) <=> HandlerAccepts("validate_number", s, d)
    BY <2>1, TypedAsks
  <2>4. TypeListPlan(s, d) = <<x>>
    BY <1>4, <2>3 DEF TypeListPlan
  <2> QED BY <2>2, <2>3, <2>4, OneStep DEF Tells
<1>5. CASE t # "other" /\ t \notin flags /\ ~viaNumber
  <2>1. ~ListAccepts(s, d)
    BY <1>5 DEF ListAccepts
  <2>2. PICK x \in Step : x = Err(s, d, "type") /\ Fails(x) /\ ~Harmless(x)
    BY ErrAsks DEF ErrorType
  <2>3. TypeListPlan(s, d) = <<x>>
    BY <1>5, <2>2 DEF TypeListPlan
  <2> QED BY <2>1, <2>2, <2>3, OneStep DEF Tells
<1> QED BY <1>2, <1>3, <1>4, <1>5

(* The type function and what it leads to ask what "type" and the keywords *)
(* of the value's own type ask.                                            *)
LEMMA TypeFnAsks ==
  ASSUME NEW s \in Schema, NEW d \in Data
  PROVE  Accepts(Compiled[s].typeFn, s, d, 0) <=>
           /\ TypeAccepts(s, d) /\ ~Refused(s, d)
           /\ Compiled[s].typeFn # "no_op_validate" => AssertionsHold(Conforms, s, d)
<1> DEFINE t == Doc[d].type
           fn == Compiled[s].typeFn
           flags == Compiled[s].flags
           exact == NumberConforms(s, Quotients(Halves(d)), Halves(d))
           inInt == NumberConforms(s, Ints, Halves(d))
           holds == AssertionsHold(Conforms, s, d)
<1>1. /\ t \in ValueType /\ flags \subseteq JsonType
      /\ fn \in Typed \cup {"no_op_validate", "validate_by_data_type", "validate_by_type_list"}
  BY ValueType1, StructType DEF Value, Struct, TypeFn, Typed
<1>a. inInt <=> exact /\ ~Wide(s, d)
  BY NumbersRefused
<1>b. Refused(s, d) <=>
        \/ /\ t = "float" /\ Integral(d)
           /\ \/ fn = "validate_integer"
              \/ fn = "validate_by_type_list" /\ "integer" \in flags /\ "number" \notin flags
        \/ t \in {"integer", "float"} /\ AsNumber(s, d) /\ Wide(s, d)
  BY DEF Refused, WholeFloat, WideQuotient, Wide
<1>c. /\ fn = "validate_number" => AsNumber(s, d)
      /\ fn = "validate_by_data_type" => (AsNumber(s, d) <=> t = "float")
      /\ fn = "validate_by_type_list" => (AsNumber(s, d) <=> "integer" \notin flags \/ t = "float")
      /\ fn \notin {"validate_number", "validate_by_data_type", "validate_by_type_list"} =>
           ~AsNumber(s, d)
  BY DEF AsNumber
<1>d. holds <=> CASE t \in {"integer", "float"} -> exact
                  [] t = "string"  -> StringConforms(s, d)
                  [] t = "array"   -> ArrayConforms(Conforms, s, d)
                  [] t = "object"  -> ObjectConforms(Conforms, s, d)
                  [] OTHER         -> TRUE
  BY DEF AssertionsHold
<1>e. Integral(d) => t \in {"integer", "float"}
  BY DEF Integral
<1>f. t = "integer" => Integral(d)
  BY DEF Integral
<1> HIDE DEF exact, inInt, holds
<1>2. CASE fn = "no_op_validate"
  <2>1. TypeAccepts(s, d)
    BY <1>2 DEF TypeAccepts
  <2>2. ~Refused(s, d)
    BY <1>2, <1>b, <1>c
  <2> QED BY <1>2, <2>1, <2>2, SchemaAccepts
<1>3. CASE fn \in Typed
  <2>1. Accepts(fn, s, d, 0) <=> HandlerAccepts(fn, s, d)
    BY <1>3, TypedAsks
  <2>2. CASE fn = "validate_null"
    <3>1. TypeAccepts(s, d) <=> t = "null"
      BY <2>2 DEF TypeAccepts
    <3> QED BY <2>1, <2>2, <3>1, <1>b, <1>c, <1>d, HandlerFacts DEF holds
  <2>3. CASE fn = "validate_bool"
    <3>1. TypeAccepts(s, d) <=> t = "boolean"
      BY <2>3 DEF TypeAccepts
    <3> QED BY <2>1, <2>3, <3>1, <1>b, <1>c, <1>d, HandlerFacts DEF holds
  <2>4. CASE fn = "validate_integer"
    <3>1. TypeAccepts(s, d) <=> Integral(d)
      BY <2>4 DEF TypeAccepts
    <3>2. Refused(s, d) <=> t = "float" /\ Integral(d)
      BY <2>4, <1>b, <1>c
    <3>3. TypeAccepts(s, d) /\ ~Refused(s, d) <=> t = "integer"
      BY <3>1, <3>2, <1>e, <1>f
    <3>4. HandlerAccepts(fn, s, d) <=> t = "integer" /\ exact
      BY <2>4, HandlerFacts DEF exact
    <3> QED BY <2>1, <2>4, <3>3, <3>4, <1>d DEF holds
  <2>5. CASE fn = "validate_number"
    <3>1. TypeAccepts(s, d) <=> t \in {"integer", "float"}
      BY <2>5 DEF TypeAccepts
    <3>2. t \in {"integer", "float"} => (Refused(s, d) <=> Wide(s, d))
      BY <2>5, <1>b, <1>c
    <3>3. HandlerAccepts(fn, s, d) <=> t \in {"integer", "float"} /\ inInt
      BY <2>5, HandlerFacts DEF inInt
    <3> QED BY <2>1, <2>5, <3>1, <3>2, <3>3, <1>a, <1>d DEF holds
  <2>6. CASE fn = "validate_string"
    <3>1. TypeAccepts(s, d) <=> t = "string"
      BY <2>6 DEF TypeAccepts
    <3> QED BY <2>1, <2>6, <3>1, <1>b, <1>c, <1>d, HandlerFacts DEF holds
  <2>7. CASE fn = "validate_array"
    <3>1. TypeAccepts(s, d) <=> t = "array"
      BY <2>7 DEF TypeAccepts
    <3> QED BY <2>1, <2>7, <3>1, <1>b, <1>c, <1>d, HandlerFacts DEF holds
  <2>8. CASE fn = "validate_object"
    <3>1. TypeAccepts(s, d) <=> t = "object"
      BY <2>8 DEF TypeAccepts
    <3> QED BY <2>1, <2>8, <3>1, <1>b, <1>c, <1>d, HandlerFacts DEF holds
  <2> QED BY <1>3, <2>2, <2>3, <2>4, <2>5, <2>6, <2>7, <2>8 DEF Typed
(* The function that the type of the value selects.                        *)
<1>4. HandlerAccepts(TypeHandler(t), s, d) <=>
        CASE t = "integer" -> exact
          [] t = "float"   -> inInt
          [] t = "string"  -> StringConforms(s, d)
          [] t = "array"   -> ArrayConforms(Conforms, s, d)
          [] t = "object"  -> ObjectConforms(Conforms, s, d)
          [] OTHER         -> TRUE
  BY <1>1, HandlerFacts DEF TypeHandler, ValueType, JsonType, exact, inInt
<1>5. CASE fn = "validate_by_data_type"
  <2>1. Accepts(fn, s, d, 0) <=> HandlerAccepts(TypeHandler(t), s, d)
    BY <1>5, OwnAccepts
  <2>2. TypeAccepts(s, d)
    BY <1>5 DEF TypeAccepts
  <2>3. Refused(s, d) <=> t = "float" /\ Wide(s, d)
    BY <1>5, <1>b, <1>c
  <2>4. HandlerAccepts(TypeHandler(t), s, d) <=> holds /\ ~Refused(s, d)
    BY <2>3, <1>4, <1>a, <1>d
  <2> QED BY <1>5, <2>1, <2>2, <2>4 DEF holds
<1>6. CASE fn = "validate_by_type_list"
  <2>1. Accepts(fn, s, d, 0) <=> ListAccepts(s, d)
    BY <1>6, OwnAccepts
  <2>2. TypeAccepts(s, d) <=> \/ t \in flags \cup {"other"}
                              \/ t \in {"integer", "float"} /\ "number" \in flags
                              \/ Integral(d) /\ "integer" \in flags
    BY <1>6 DEF TypeAccepts
  <2>3. CASE t = "other"
    <3>1. ListAccepts(s, d) /\ holds /\ ~Refused(s, d)
      BY <2>3, <1>b, <1>d DEF ListAccepts
    <3> QED BY <2>1, <2>2, <2>3, <3>1 DEF holds
  <2>4. CASE t # "other" /\ t \in flags
    <3>1. ListAccepts(s, d) <=> HandlerAccepts(TypeHandler(t), s, d)
      BY <2>4 DEF ListAccepts
    <3>2. t # "float"
      BY <1>1, <2>4 DEF JsonType
    <3>3. ~Refused(s, d)
      BY <1>6, <2>4, <3>2, <1>b, <1>c
    <3>4. HandlerAccepts(TypeHandler(t), s, d) <=> holds
      BY <3>2, <1>4, <1>d
    <3> QED BY <1>6, <2>1, <2>2, <2>4, <3>1, <3>3, <3>4 DEF holds
  <2>5. CASE t # "other" /\ t \notin flags
    <3>1. ListAccepts(s, d) <=> /\ t \in {"integer", "float"} /\ "number" \in flags
                                /\ inInt
      <4>1. HandlerAccepts("validate_number", s, d) <=> t \in {"integer", "float"} /\ inInt
        BY HandlerFacts DEF inInt
      <4> QED BY <2>5, <4>1 DEF ListAccepts
    <3>2. CASE t \in {"integer", "float"} /\ "number" \in flags
      <4>1. Refused(s, d) <=> Wide(s, d)
        BY <1>6, <2>5, <3>2, <1>b, <1>c
      <4> QED BY <1>6, <2>1, <2>2, <3>1, <3>2, <4>1, <1>a, <1>d DEF holds
    <3>3. CASE ~(t \in {"integer", "float"} /\ "number" \in flags)
      <4>1. TypeAccepts(s, d) => Refused(s, d)
        BY <1>6, <2>2, <2>5, <3>3, <1>b, <1>e
      <4> QED BY <2>1, <3>1, <3>3, <4>1
    <3> QED BY <3>2, <3>3
  <2> QED BY <2>3, <2>4, <2>5
<1> QED BY <1>1, <1>2, <1>3, <1>5, <1>6

(***************************************************************************)
(* validate, and every other function with a plan.                         *)
(***************************************************************************)
LEMMA CombinatorFacts ==
  ASSUME NEW s, NEW d
  PROVE  /\ CombinatorAccepts("validate_if", s, d) <=> IfConforms(Conforms, s, d)
         /\ CombinatorAccepts("validate_not", s, d) <=> ~Conforms[Compiled[s].sub["not"]][d]
         /\ CombinatorAccepts("validate_all_of", s, d) <=>
              Holding(Conforms, s, "allOf", d) = 1 .. Len(Compiled[s].list["allOf"])
         /\ CombinatorAccepts("validate_any_of", s, d) <=>
              Holding(Conforms, s, "anyOf", d) # {}
         /\ CombinatorAccepts("validate_one_of", s, d) <=>
              Cardinality(Holding(Conforms, s, "oneOf", d)) = 1
         /\ CombinatorAccepts("validate_contains", s, d) <=> ContainsConforms(Conforms, s, d)
<1>1. /\ CombinatorAccepts("validate_if", s, d) <=> IfConforms(Conforms, s, d)
      /\ CombinatorAccepts("validate_not", s, d) <=> ~Conforms[Compiled[s].sub["not"]][d]
      /\ CombinatorAccepts("validate_contains", s, d) <=> ContainsConforms(Conforms, s, d)
  BY DEF CombinatorAccepts
<1>2. /\ CombinatorAccepts("validate_all_of", s, d) <=>
           Holding(Conforms, s, "allOf", d) = 1 .. Len(Compiled[s].list["allOf"])
      /\ CombinatorAccepts("validate_any_of", s, d) <=>
           Holding(Conforms, s, "anyOf", d) # {}
      /\ CombinatorAccepts("validate_one_of", s, d) <=>
           Cardinality(Holding(Conforms, s, "oneOf", d)) = 1
  BY DEF CombinatorAccepts
<1> QED BY <1>1, <1>2

LEMMA ValidateTells ==
  ASSUME NEW s \in Schema, NEW d \in Data
  PROVE  Tells(ValidatePlan(s, d), KeywordsHold(Conforms, s, d) /\ ~Refused(s, d))
<1> DEFINE c == Compiled[s]
           Combine(k, fn) == When(Has(s, k), Do(fn, s, d, 0))
           p1 == <<Do(c.typeFn, s, d, 0)>>
           p2 == ErrIf(Has(s, "const") /\ d \notin c.const, s, d, "const")
           p3 == ErrIf(Has(s, "enum") /\ d \notin c.enum, s, d, "enum")
           p4 == Combine("if", "validate_if")
           p5 == Combine("not", "validate_not")
           p6 == Combine("allOf", "validate_all_of")
           p7 == Combine("anyOf", "validate_any_of")
           p8 == Combine("oneOf", "validate_one_of")
           f1 == Accepts(c.typeFn, s, d, 0)
           f2 == Has(s, "const") => d \in c.const
           f3 == Has(s, "enum") => d \in c.enum
           f4 == Has(s, "if") => CombinatorAccepts("validate_if", s, d)
           f5 == Has(s, "not") => CombinatorAccepts("validate_not", s, d)
           f6 == Has(s, "allOf") => CombinatorAccepts("validate_all_of", s, d)
           f7 == Has(s, "anyOf") => CombinatorAccepts("validate_any_of", s, d)
           f8 == Has(s, "oneOf") => CombinatorAccepts("validate_one_of", s, d)
<1>0. {"const", "enum"} \subseteq ErrorType
  BY DEF ErrorType
<1>1. p1 \in Seq(Step) /\ Tells(p1, f1)
  <2>1. c.typeFn \in CallFn
    BY StructType, CallFns DEF Struct
  <2>2. PICK fn \in CallFn : fn = c.typeFn
    BY <2>1
  <2>3. PICK x \in Step : /\ x = Do(fn, s, d, 0)
                          /\ Fails(x) <=> ~Accepts(fn, s, d, 0)
                          /\ Harmless(x) <=> Accepts(fn, s, d, 0)
    BY DoAsks
  <2>4. StepsOf(<<x>>) = {x} /\ <<x>> \in Seq(Step)
    BY OneStep
  <2> QED BY <2>2, <2>3, <2>4 DEF Tells
<1>2. p2 \in Seq(Step) /\ Tells(p2, f2)
  <2>1. f2 <=> ~(Has(s, "const") /\ d \notin c.const)
    OBVIOUS
  <2> HIDE DEF f2
  <2> QED BY <1>0, <2>1, ErrTells
<1>3. p3 \in Seq(Step) /\ Tells(p3, f3)
  <2>1. f3 <=> ~(Has(s, "enum") /\ d \notin c.enum)
    OBVIOUS
  <2> HIDE DEF f3
  <2> QED BY <1>0, <2>1, ErrTells
<1>4. ASSUME NEW k, NEW fn \in Combinator, NEW fact,
             fact <=> (Has(s, k) => CombinatorAccepts(fn, s, d))
      PROVE  Combine(k, fn) \in Seq(Step) /\ Tells(Combine(k, fn), fact)
  <2>1. fn \in CallFn /\ (Accepts(fn, s, d, 0) <=> CombinatorAccepts(fn, s, d))
    BY CallFns, GroupAccepts
  <2>2. PICK x \in Step : /\ x = Do(fn, s, d, 0)
                          /\ Fails(x) <=> ~CombinatorAccepts(fn, s, d)
                          /\ Harmless(x) <=> CombinatorAccepts(fn, s, d)
    BY <2>1, DoAsks
  <2> QED BY <1>4, <2>2, WhenTells
<1>5. {"validate_if", "validate_not", "validate_all_of", "validate_any_of", "validate_one_of"}
        \subseteq Combinator
  BY DEF Combinator
<1>6. /\ p4 \in Seq(Step) /\ Tells(p4, f4)
      /\ p5 \in Seq(Step) /\ Tells(p5, f5)
      /\ p6 \in Seq(Step) /\ Tells(p6, f6)
      /\ p7 \in Seq(Step) /\ Tells(p7, f7)
      /\ p8 \in Seq(Step) /\ Tells(p8, f8)
  <2>1. /\ f4 <=> (Has(s, "if") => CombinatorAccepts("validate_if", s, d))
        /\ f5 <=> (Has(s, "not") => CombinatorAccepts("validate_not", s, d))
        /\ f6 <=> (Has(s, "allOf") => CombinatorAccepts("validate_all_of", s, d))
        /\ f7 <=> (Has(s, "anyOf") => CombinatorAccepts("validate_any_of", s, d))
        /\ f8 <=> (Has(s, "oneOf") => CombinatorAccepts("validate_one_of", s, d))
    OBVIOUS
  <2> HIDE DEF f4, f5, f6, f7, f8, Combine
  <2> QED BY <1>4, <1>5, <2>1
<1>7. ValidatePlan(s, d) = p1 \o p2 \o p3 \o p4 \o p5 \o p6 \o p7 \o p8
  BY DEF ValidatePlan
<1> DEFINE f == f1 /\ f2 /\ f3 /\ f4 /\ f5
           g == f /\ f6
           h == g /\ f7
<1>8. KeywordsHold(Conforms, s, d) /\ ~Refused(s, d) <=> h /\ f8
  <2>1. f1 <=> /\ TypeAccepts(s, d) /\ ~Refused(s, d)
               /\ c.typeFn # "no_op_validate" => AssertionsHold(Conforms, s, d)
    BY TypeFnAsks
  <2>2. ApplicatorsHold(Conforms, s, d) <=> f4 /\ f5 /\ f6 /\ f7 /\ f8
    BY CombinatorFacts DEF ApplicatorsHold
  <2> HIDE DEF f1, f4, f5, f6, f7, f8
  <2> QED BY <2>1, <2>2 DEF KeywordsHold
<1> HIDE DEF p1, p2, p3, p4, p5, p6, p7, p8, f1, f2, f3, f4, f5, f6, f7, f8
<1>9. PICK q \in Seq(Step) : q = p1 \o p2 \o p3 \o p4 \o p5 /\ Tells(q, f)
  <2>1. f <=> f1 /\ f2 /\ f3 /\ f4 /\ f5
    OBVIOUS
  <2> HIDE DEF f
  <2> QED BY <1>1, <1>2, <1>3, <1>6, <2>1, FiveTell
<1> HIDE DEF f
<1>10. PICK r \in Seq(Step) : r = q \o p6 /\ Tells(r, g)
  <2>1. g <=> f /\ f6
    OBVIOUS
  <2> HIDE DEF g
  <2> QED BY <1>6, <1>9, <2>1, TellsBoth
<1> HIDE DEF g
<1>11. PICK t \in Seq(Step) : t = r \o p7 /\ Tells(t, h)
  <2>1. h <=> g /\ f7
    OBVIOUS
  <2> HIDE DEF h
  <2> QED BY <1>6, <1>10, <2>1, TellsBoth
<1> HIDE DEF h
<1>12. Tells(t \o p8, KeywordsHold(Conforms, s, d) /\ ~Refused(s, d))
  BY <1>6, <1>8, <1>11, TellsBoth
<1> QED BY <1>7, <1>9, <1>10, <1>11, <1>12

(* Every function with a plan says exactly what Semantics says, the draft  *)
(* 7 rules with their two exceptions (WholeFloat, WideQuotient): each step *)
(* it takes that fails means that the value is not accepted, and if none   *)
(* fails or raises it is (validate.c and the validate_* functions).        *)
THEOREM PlanTells ==
  ASSUME NEW fn \in FnName \ DecidingFn, NEW s \in Schema, NEW d \in Data, NEW i \in Nat
  PROVE  Tells(Plan(fn, s, d, i), Accepts(fn, s, d, i))
<1>1. ASSUME NEW t \in Schema, Plan(fn, s, d, i) = <<Run(t, d)>>,
             Accepts(fn, s, d, i) <=> Conforms[t][d]
      PROVE  Tells(Plan(fn, s, d, i), Accepts(fn, s, d, i))
  <2>1. PICK x \in Step : /\ x = Run(t, d)
                          /\ Fails(x) <=> ~Conforms[t][d]
                          /\ Harmless(x) <=> Conforms[t][d]
    BY RunAsks
  <2>2. StepsOf(<<x>>) = {x}
    BY OneStep
  <2> QED BY <1>1, <2>1, <2>2 DEF Tells
<1>2. ASSUME Plan(fn, s, d, i) = <<>>, Accepts(fn, s, d, i)
      PROVE  Tells(Plan(fn, s, d, i), Accepts(fn, s, d, i))
  BY <1>2 DEF Tells, StepsOf
<1>3. CASE fn = "validate"
  <2>1. Plan(fn, s, d, i) = ValidatePlan(s, d)
    BY <1>3 DEF Plan
  <2> QED BY <1>3, <2>1, ValidateTells, SchemaAccepts DEF Tells
<1>4. CASE fn = "false_validate"
  <2>1. Plan(fn, s, d, i) = <<Err(s, d, "false_schema")>>
    BY <1>4 DEF Plan
  <2>2. PICK x \in Step : x = Err(s, d, "false_schema") /\ Fails(x) /\ ~Harmless(x)
    BY ErrAsks DEF ErrorType
  <2> QED BY <1>4, <2>1, <2>2, OneStep, SchemaAccepts DEF Tells
<1>5. CASE fn = "validate_ref"
  <2>1. Plan(fn, s, d, i) = <<Run(Compiled[s].sub["ref"], d)>>
    BY <1>5 DEF Plan
  <2>2. Compiled[s].sub["ref"] \in Schema
    BY StructType DEF Struct, SubKeyword
  <2> QED BY <1>1, <1>5, <2>1, <2>2, SchemaAccepts
<1>6. CASE fn = "no_op_validate"
  <2>1. Plan(fn, s, d, i) = <<>>
    BY <1>6 DEF Plan
  <2> QED BY <1>2, <1>6, <2>1, SchemaAccepts
<1>7. CASE fn = "validate_by_data_type"
  <2>1. Plan(fn, s, d, i) = DataTypePlan(s, d)
    BY <1>7 DEF Plan
  <2> QED BY <1>7, <2>1, DataTypeTells, OwnAccepts DEF Tells
<1>8. CASE fn = "validate_by_type_list"
  <2>1. Plan(fn, s, d, i) = TypeListPlan(s, d)
    BY <1>8 DEF Plan
  <2> QED BY <1>8, <2>1, TypeListTells, OwnAccepts DEF Tells
<1>9. CASE fn \in Typed
  BY <1>9, TypedTell, TypedAsks DEF Tells
<1>10. CASE fn \in ArrayFn
  <2>1. Accepts(fn, s, d, i) <=> LoopAccepts(fn, s, d)
    BY <1>10, GroupAccepts
  <2>2. CASE fn = "validate_items"
    <3>1. Plan(fn, s, d, i) = ItemsPlan(s, d)
      BY <2>2 DEF Plan
    <3> QED BY <2>1, <2>2, <3>1, LoopsTell DEF Tells
  <2>3. CASE fn = "validate_with_multiple_items_schema"
    <3>1. Plan(fn, s, d, i) = MultipleItemsPlan(s, d)
      BY <2>3 DEF Plan
    <3> QED BY <2>1, <2>3, <3>1, LoopsTell DEF Tells
  <2>4. CASE fn = "validate_additional_items"
    <3>1. Plan(fn, s, d, i) = AdditionalItemsPlan(s, d)
      BY <2>4 DEF Plan
    <3> QED BY <2>1, <2>4, <3>1, LoopsTell DEF Tells
  <2> QED BY <1>10, <2>2, <2>3, <2>4 DEF ArrayFn
<1>11. CASE fn = "validate_properties"
  <2>1. Plan(fn, s, d, i) = PropertiesPlan(s, d)
    BY <1>11 DEF Plan
  <2>2. Accepts(fn, s, d, i) <=> Accepts(fn, s, d, 0)
    BY <1>11, OwnAccepts
  <2> QED BY <1>11, <2>1, <2>2, PropertiesTells DEF Tells
<1>12. CASE fn = "validate_object_property"
  <2>1. CASE i \in 1 .. Len(Doc[d].members)
    <3>1. Plan(fn, s, d, i) = PropertyPlan(s, d, i)
      BY <1>12, <2>1 DEF Plan
    <3>2. Accepts(fn, s, d, i) <=> MemberConforms(Conforms, s, Doc[d].members[i])
      BY <1>12, <2>1, OwnAccepts
    <3> QED BY <2>1, <3>1, <3>2, PropertyTells DEF Tells
  <2>2. CASE i \notin 1 .. Len(Doc[d].members)
    <3>1. Plan(fn, s, d, i) = <<>>
      BY <1>12, <2>2 DEF Plan
    <3>2. Accepts(fn, s, d, i)
      BY <1>12, <2>2, OwnAccepts
    <3> QED BY <1>2, <3>1, <3>2
  <2> QED BY <2>1, <2>2
<1>13. CASE fn \in {"rb_validate", "is_valid"}
  <2>1. Plan(fn, s, d, i) = <<Run(s, d)>>
    BY <1>13 DEF Plan
  <2>2. Accepts(fn, s, d, i) <=> Conforms[s][d]
    BY <1>13 DEF Accepts, SessionFn
  <2> QED BY <1>1, <2>1, <2>2
<1>14. \/ fn \in {"validate", "false_validate", "validate_ref", "no_op_validate",
                 "validate_by_data_type", "validate_by_type_list", "validate_properties",
                 "validate_object_property", "rb_validate", "is_valid"}
       \/ fn \in Typed \/ fn \in ArrayFn
  BY DEF FnName, DecidingFn, TypeFn, SchemaFn, Combinator, ObjectFn, OtherFn, Typed
<1> QED BY <1>3, <1>4, <1>5, <1>6, <1>7, <1>8, <1>9, <1>10, <1>11, <1>12, <1>13, <1>14

(***************************************************************************)
(* Counting what held.                                                     *)
(***************************************************************************)
LEMMA CountStart ==
  ASSUME NEW good
  PROVE  Cardinality({j \in 1 .. 0 : j \in good}) = 0
<1>1. {j \in 1 .. 0 : j \in good} = {}
  OBVIOUS
<1> QED BY <1>1, FS_EmptySet

LEMMA CountRange ==
  ASSUME NEW good, NEW k \in Nat
  PROVE  /\ IsFiniteSet({j \in 1 .. k : j \in good})
         /\ Cardinality({j \in 1 .. k : j \in good}) \in Nat
         /\ Cardinality({j \in 1 .. k : j \in good}) <= k
         /\ Cardinality({j \in 1 .. k : j \in good}) = k <=>
              (\A j \in 1 .. k : j \in good)
         /\ Cardinality({j \in 1 .. k : j \in good}) = 0 <=>
              (\A j \in 1 .. k : j \notin good)
<1>1. IsFiniteSet(1 .. k) /\ Cardinality(1 .. k) = k
  <2>1. IsFiniteSet(1 .. k) /\ Cardinality(1 .. k) = IF 1 > k THEN 0 ELSE k - 1 + 1
    BY FS_Interval
  <2> QED BY <2>1
<1>2. PICK T : T = {j \in 1 .. k : j \in good}
  OBVIOUS
<1>3. /\ IsFiniteSet(T) /\ Cardinality(T) <= k
      /\ Cardinality(T) = k <=> T = 1 .. k
  <2>1. T \subseteq 1 .. k
    BY <1>2
  <2>2. /\ IsFiniteSet(T) /\ Cardinality(T) <= Cardinality(1 .. k)
        /\ Cardinality(1 .. k) = Cardinality(T) => T = 1 .. k
    BY <1>1, <2>1, FS_Subset
  <2> QED BY <1>1, <2>2
<1>4. Cardinality(T) \in Nat /\ (Cardinality(T) = 0 <=> T = {})
  BY <1>3, FS_CardinalityType, FS_EmptySet
<1> QED BY <1>2, <1>3, <1>4

LEMMA CountNext ==
  ASSUME NEW good, NEW k \in Nat
  PROVE  Cardinality({j \in 1 .. k + 1 : j \in good}) =
           IF k + 1 \in good THEN Cardinality({j \in 1 .. k : j \in good}) + 1
                             ELSE Cardinality({j \in 1 .. k : j \in good})
<1>1. PICK T, U : T = {j \in 1 .. k : j \in good} /\ U = {j \in 1 .. k + 1 : j \in good}
  OBVIOUS
<1>2. IsFiniteSet(T) /\ k + 1 \notin T
  <2>1. IsFiniteSet(T)
    BY <1>1, CountRange
  <2>2. k + 1 \notin 1 .. k
    OBVIOUS
  <2> QED BY <1>1, <2>1, <2>2
<1>3. 1 .. k + 1 = (1 .. k) \cup {k + 1}
  OBVIOUS
<1>4. CASE k + 1 \in good
  <2>1. U = T \cup {k + 1}
    BY <1>1, <1>3, <1>4
  <2>2. Cardinality(T \cup {k + 1}) = Cardinality(T) + 1
    BY <1>2, FS_AddElement
  <2> QED BY <1>1, <1>4, <2>1, <2>2
<1>5. CASE k + 1 \notin good
  <2>1. U = T
    BY <1>1, <1>3, <1>5
  <2> QED BY <1>1, <1>5, <2>1
<1> QED BY <1>4, <1>5

LEMMA CountGrows ==
  ASSUME NEW good, NEW k \in Nat, NEW l \in Nat, k <= l
  PROVE  Cardinality({j \in 1 .. k : j \in good}) <= Cardinality({j \in 1 .. l : j \in good})
<1>1. {j \in 1 .. k : j \in good} \subseteq {j \in 1 .. l : j \in good}
  OBVIOUS
<1> QED BY <1>1, CountRange, FS_Subset

(* What has been counted, as a part of all that hold.                      *)
Good(f) == {j \in 1 .. Choices(f) : Holds(f, j)}

LEMMA CountedGood ==
  ASSUME NEW f \in Frame, f.fn \in Counting, NEW l \in Nat, l <= Choices(f)
  PROVE  {j \in 1 .. l : Holds(f, j)} = {j \in 1 .. l : j \in Good(f)}
<1>1. Choices(f) \in Nat
  <2>1. BranchList(f) \in Seq(Schema) /\ Doc[f.d].items \in Seq(Data)
    BY BranchListType, ValueType1 DEF Frame, Value
  <2> QED BY <2>1 DEF Choices
<1>2. \A j \in 1 .. l : j \in 1 .. Choices(f)
  BY <1>1
<1> QED BY <1>2 DEF Good

LEMMA ChoicesNumber ==
  ASSUME NEW f \in Frame
  PROVE  Choices(f) \in Nat
<1>1. BranchList(f) \in Seq(Schema) /\ Doc[f.d].items \in Seq(Data)
  BY BranchListType, ValueType1 DEF Frame, Value
<1> QED BY <1>1 DEF Choices

LEMMA BranchGoals ==
  ASSUME NEW f \in Frame, f.fn \in BranchFn
  PROVE  /\ Choices(f) = Len(BranchList(f))
         /\ f.fn = "validate_all_of" => (Goal(f) <=> Good(f) = 1 .. Choices(f))
         /\ f.fn = "validate_any_of" => (Goal(f) <=> Good(f) # {})
         /\ f.fn = "validate_one_of" => (Goal(f) <=> Cardinality(Good(f)) = 1)
<1>1. f.fn # "validate_contains" /\ f.fn \in Combinator /\ f.cs \in Schema
  BY DEF BranchFn, Combinator, Frame
<1>2. Goal(f) <=> CombinatorAccepts(f.fn, f.cs, f.d)
  BY <1>1, GroupAccepts DEF Goal
<1>3. Choices(f) = Len(BranchList(f)) /\ Good(f) = {j \in 1 .. Len(BranchList(f)) :
                                                     Conforms[BranchList(f)[j]][f.d]}
  BY <1>1 DEF Choices, Good, Holds
<1>4. CASE f.fn = "validate_all_of"
  <2>1. BranchList(f) = Compiled[f.cs].list["allOf"]
    BY <1>4 DEF BranchList
  <2>2. Good(f) = Holding(Conforms, f.cs, "allOf", f.d)
    BY <1>3, <2>1 DEF Holding
  <2>3. Goal(f) <=> Holding(Conforms, f.cs, "allOf", f.d) = 1 .. Len(Compiled[f.cs].list["allOf"])
    BY <1>2, <1>4, CombinatorFacts
  <2> QED BY <1>3, <1>4, <2>1, <2>2, <2>3
<1>5. CASE f.fn = "validate_any_of"
  <2>1. BranchList(f) = Compiled[f.cs].list["anyOf"]
    BY <1>5 DEF BranchList
  <2>2. Good(f) = Holding(Conforms, f.cs, "anyOf", f.d)
    BY <1>3, <2>1 DEF Holding
  <2>3. Goal(f) <=> Holding(Conforms, f.cs, "anyOf", f.d) # {}
    BY <1>2, <1>5, CombinatorFacts
  <2> QED BY <1>3, <1>5, <2>1, <2>2, <2>3
<1>6. CASE f.fn = "validate_one_of"
  <2>1. BranchList(f) = Compiled[f.cs].list["oneOf"]
    BY <1>6 DEF BranchList
  <2>2. Good(f) = Holding(Conforms, f.cs, "oneOf", f.d)
    BY <1>3, <2>1 DEF Holding
  <2>3. Goal(f) <=> Cardinality(Holding(Conforms, f.cs, "oneOf", f.d)) = 1
    BY <1>2, <1>6, CombinatorFacts
  <2> QED BY <1>3, <1>6, <2>1, <2>2, <2>3
<1> QED BY <1>3, <1>4, <1>5, <1>6 DEF BranchFn

(* The loop may stop as soon as it is Decided: what it has counted by then *)
(* settles the answer.                                                     *)
LEMMA VerdictTells ==
  ASSUME NEW f \in Frame, f.fn \in BranchFn, f.pc = "loop", Counted(f), f.i <= Choices(f),
         Decided(f) \/ f.i = Len(BranchList(f))
  PROVE  Verdict(f) \in Seq(Step) /\ Tells(Verdict(f), Goal(f))
<1>1. /\ f.i \in Nat /\ f.n \in Nat /\ f.cs \in Schema /\ f.d \in Data /\ Choices(f) \in Nat
      /\ Choices(f) = Len(BranchList(f)) /\ f.fn \in Counting /\ Tried(f) = f.i
  BY BranchGoals, ChoicesNumber DEF Frame, Counting, Tried
<1>g. PICK good : good = Good(f)
  OBVIOUS
<1>l. PICK L \in Nat : L = Choices(f)
  BY <1>1
<1>m. PICK n \in Nat : n = f.n
  BY <1>1
<1>i. PICK i \in Nat : i = f.i
  BY <1>1
<1>2. good = Good(f) /\ L = Choices(f) /\ n = f.n /\ i = f.i
  BY <1>g, <1>l, <1>m, <1>i
<1>3. n = Cardinality({j \in 1 .. i : j \in good})
  BY <1>1, <1>2, CountedGood DEF Counted
<1>4. good = {j \in 1 .. L : j \in good} /\ good \subseteq 1 .. L
  BY <1>2 DEF Good
<1>5. /\ n <= i /\ (n = i <=> \A j \in 1 .. i : j \in good)
      /\ n = 0 <=> \A j \in 1 .. i : j \notin good
      /\ n <= Cardinality(good) /\ Cardinality(good) \in Nat
  <2>1. /\ n <= i
        /\ n = i <=> \A j \in 1 .. i : j \in good
        /\ n = 0 <=> \A j \in 1 .. i : j \notin good
    BY <1>3, CountRange
  <2>2. L \in Nat /\ i <= L
    BY <1>1, <1>2
  <2>3. n <= Cardinality({j \in 1 .. L : j \in good})
    BY <1>3, <2>2, CountGrows
  <2>4. Cardinality({j \in 1 .. L : j \in good}) \in Nat
    BY <2>2, CountRange
  <2> QED BY <1>4, <2>1, <2>3, <2>4
<1>6. {"allOf", "anyOf", "oneOf"} \subseteq ErrorType
  BY DEF ErrorType
<1>7. CASE f.fn = "validate_all_of"
  <2>1. i = L
    BY <1>1, <1>2, <1>7 DEF Decided
  <2>2. Goal(f) <=> ~(f.n # Len(BranchList(f)))
    BY <1>1, <1>2, <1>4, <1>5, <1>7, <2>1, BranchGoals
  <2>3. Verdict(f) = ErrIf(f.n # Len(BranchList(f)), f.cs, f.d, "allOf")
    BY <1>7 DEF Verdict
  <2> DEFINE wrong == f.n # Len(BranchList(f))
  <2>4. Goal(f) <=> ~wrong
    BY <2>2
  <2>5. Verdict(f) = ErrIf(wrong, f.cs, f.d, "allOf")
    BY <2>3
  <2> HIDE DEF wrong
  <2> QED BY <1>1, <1>6, <2>4, <2>5, ErrTells
<1>8. CASE f.fn = "validate_any_of"
  <2>1. i = L \/ n > 0
    BY <1>1, <1>2, <1>8 DEF Decided
  <2>2. Goal(f) <=> ~(f.n = 0)
    <3>1. Goal(f) <=> good # {}
      BY <1>2, <1>8, BranchGoals
    <3>2. n > 0 => good # {}
      BY <1>5
    <3>3. i = L /\ n = 0 => good = {}
      BY <1>4, <1>5
    <3> QED BY <1>2, <2>1, <3>1, <3>2, <3>3
  <2>3. Verdict(f) = ErrIf(f.n = 0, f.cs, f.d, "anyOf")
    BY <1>8 DEF Verdict
  <2> DEFINE wrong == f.n = 0
  <2>4. Goal(f) <=> ~wrong
    BY <2>2
  <2>5. Verdict(f) = ErrIf(wrong, f.cs, f.d, "anyOf")
    BY <2>3
  <2> HIDE DEF wrong
  <2> QED BY <1>1, <1>6, <2>4, <2>5, ErrTells
<1>9. CASE f.fn = "validate_one_of"
  <2>1. i = L \/ n > 1
    BY <1>1, <1>2, <1>9 DEF Decided
  <2>2. Goal(f) <=> ~(f.n # 1)
    <3>1. Goal(f) <=> Cardinality(good) = 1
      BY <1>2, <1>9, BranchGoals
    <3>2. i = L => n = Cardinality(good)
      BY <1>3, <1>4
    <3> QED BY <1>2, <1>5, <2>1, <3>1, <3>2
  <2>3. Verdict(f) = ErrIf(f.n # 1, f.cs, f.d, "oneOf")
    BY <1>9 DEF Verdict
  <2> DEFINE wrong == f.n # 1
  <2>4. Goal(f) <=> ~wrong
    BY <2>2
  <2>5. Verdict(f) = ErrIf(wrong, f.cs, f.d, "oneOf")
    BY <2>3
  <2> HIDE DEF wrong
  <2> QED BY <1>1, <1>6, <2>4, <2>5, ErrTells
<1> QED BY <1>7, <1>8, <1>9 DEF BranchFn

LEMMA ContainsTells ==
  ASSUME NEW f \in Frame, f.fn = "validate_contains", f.pc = "loop", Counted(f),
         f.i = Len(Doc[f.d].items)
  PROVE  ContainsVerdict(f) \in Seq(Step) /\ Tells(ContainsVerdict(f), Goal(f))
<1> DEFINE s == f.cs
           d == f.d
           c == Compiled[s]
           p1 == Limit(s, d, "maxContains", f.n > c.limit["maxContains"])
           p2 == Limit(s, d, "minContains", f.n < c.limit["minContains"])
           p3 == ErrIf(~Has(s, "minContains") /\ f.n = 0, c.sub["contains"], d, "contains")
           f1 == Has(s, "maxContains") => f.n <= c.limit["maxContains"]
           f2 == Has(s, "minContains") => f.n >= c.limit["minContains"]
           f3 == ~Has(s, "minContains") => f.n >= 1
<1>1. /\ f.i \in Nat /\ f.n \in Nat /\ s \in Schema /\ d \in Data
      /\ c.limit \in [LimitKeyword -> Int] /\ c.sub["contains"] \in Schema
      /\ Choices(f) = f.i /\ f.fn \in Counting /\ Tried(f) = f.i /\ f.fn \in Combinator
  <2>1. f.i \in Nat /\ f.n \in Nat /\ s \in Schema /\ d \in Data
    BY DEF Frame
  <2>2. c.limit \in [LimitKeyword -> Int] /\ c.sub["contains"] \in Schema
    BY <2>1, StructType DEF Struct, SubKeyword
  <2>3. Choices(f) = f.i /\ f.fn \in Counting /\ Tried(f) = f.i /\ f.fn \in Combinator
    BY DEF Counting, Tried, Choices, Combinator
  <2> QED BY <2>1, <2>2, <2>3
<1>2. f.n = Cardinality({j \in 1 .. Len(Doc[d].items) :
                           Conforms[c.sub["contains"]][Doc[d].items[j]]})
  BY <1>1 DEF Counted, Holds
<1>3. Goal(f) <=> ContainsConforms(Conforms, s, d)
  <2>1. Goal(f) <=> CombinatorAccepts("validate_contains", s, d)
    BY <1>1, GroupAccepts DEF Goal
  <2> QED BY <2>1, CombinatorFacts
<1>4. ContainsConforms(Conforms, s, d) <=>
        /\ f.n >= IF Has(s, "minContains") THEN c.limit["minContains"] ELSE 1
        /\ Has(s, "maxContains") => f.n <= c.limit["maxContains"]
  BY <1>2 DEF ContainsConforms
<1>5. /\ {"maxContains", "minContains"} \subseteq LimitKeyword
      /\ {"maxContains", "minContains", "contains"} \subseteq ErrorType
  BY DEF LimitKeyword, ErrorType
<1>6. /\ f.n > c.limit["maxContains"] <=> ~(f.n <= c.limit["maxContains"])
      /\ f.n < c.limit["minContains"] <=> ~(f.n >= c.limit["minContains"])
  BY <1>1, <1>5
<1>7. p1 \in Seq(Step) /\ Tells(p1, f1)
  BY <1>1, <1>5, <1>6, LimitTells
<1>8. p2 \in Seq(Step) /\ Tells(p2, f2)
  BY <1>1, <1>5, <1>6, LimitTells
<1>9. p3 \in Seq(Step) /\ Tells(p3, f3)
  <2> DEFINE wrong == ~Has(s, "minContains") /\ f.n = 0
  <2>1. f3 <=> ~wrong
    BY <1>1
  <2> HIDE DEF wrong, f3
  <2>2. /\ ErrIf(wrong, c.sub["contains"], d, "contains") \in Seq(Step)
        /\ Tells(ErrIf(wrong, c.sub["contains"], d, "contains"), f3)
    BY <1>1, <1>5, <2>1, ErrTells
  <2> QED BY <2>2 DEF wrong
<1>10. ContainsVerdict(f) = p1 \o p2 \o p3
  BY DEF ContainsVerdict
<1> DEFINE both == f1 /\ f2
<1>11. Goal(f) <=> both /\ f3
  BY <1>3, <1>4
<1> HIDE DEF p1, p2, p3, f1, f2, f3
<1>12. PICK q \in Seq(Step) : q = p1 \o p2 /\ Tells(q, both)
  <2>1. both <=> f1 /\ f2
    OBVIOUS
  <2> HIDE DEF both
  <2> QED BY <1>7, <1>8, <2>1, TellsBoth
<1> HIDE DEF both
<1>13. q \o p3 \in Seq(Step) /\ Tells(q \o p3, Goal(f))
  BY <1>9, <1>11, <1>12, TellsBoth
<1> QED BY <1>10, <1>12, <1>13

(* The combinators that ask about one branch.                              *)
LEMMA BranchGoal ==
  ASSUME NEW f \in Frame
  PROVE  /\ f.fn = "validate_not" => (Goal(f) <=> ~Conforms[Compiled[f.cs].sub["not"]][f.d])
         /\ f.fn = "validate_if" => (Goal(f) <=> IfConforms(Conforms, f.cs, f.d))
         /\ f.fn = "validate_custom_format" =>
              (Goal(f) <=> f.d \in Compiled[f.cs].formatOk \ Compiled[f.cs].formatRaise)
         /\ f.fn = "yield_error" => ~Goal(f)
         /\ f.fn \in SessionFn \cup {"is_valid"} => (Goal(f) <=> Conforms[f.cs][f.d])
<1>1. f.cs \in Schema
  BY DEF Frame
<1>2. CASE f.fn = "validate_not"
  <2>1. Goal(f) <=> CombinatorAccepts("validate_not", f.cs, f.d)
    BY <1>1, <1>2, GroupAccepts DEF Goal, Combinator
  <2> QED BY <1>2, <2>1, CombinatorFacts DEF SessionFn
<1>3. CASE f.fn = "validate_if"
  <2>1. Goal(f) <=> CombinatorAccepts("validate_if", f.cs, f.d)
    BY <1>1, <1>3, GroupAccepts DEF Goal, Combinator
  <2> QED BY <1>3, <2>1, CombinatorFacts DEF SessionFn
<1>4. CASE f.fn \in {"validate_custom_format", "yield_error"}
  BY <1>1, <1>4, OwnAccepts DEF Goal, SessionFn
<1>5. CASE f.fn \in SessionFn \cup {"is_valid"}
  BY <1>5 DEF Goal, Accepts, SessionFn
<1> QED BY <1>2, <1>3, <1>4, <1>5

(***************************************************************************)
(* AnswerInv, place by place: what a frame owes by itself, and what it     *)
(* owes to the one above it.                                               *)
(***************************************************************************)
Formed(j) ==
  /\ Shaped(stack[j]) /\ (Sure(stack[j].c) => Right(stack[j]))
  /\ YieldingTo(j) => Reported(stack[j].c)
Answering(j) ==
  /\ ~Caught(j) =>
       /\ stack[j].fn \in SessionFn \/ ctx[stack[j].c].call.fn = "rb_validate"
       /\ Sure(stack[j].c) /\ ~Goal(stack[j]) => ~Truth(stack[j].c)
  /\ stack[j].fn \in SessionFn =>
       ctx[stack[j].c].call = [fn |-> stack[j].fn, cs |-> stack[j].cs, d |-> stack[j].d]

(* Nothing that was reported or that a callable did spoils the answer.     *)
Hopeful(j) == Sure(stack[j].c) /\ (Caught(j) \/ ~Reported(stack[j].c))
Linked(j) ==
  /\ Joined(stack[j], stack[j + 1])
  /\ stack[j + 1].fn \in CallFn /\ Sure(stack[j].c) /\ ~Goal(stack[j + 1]) => ~Goal(stack[j])
  /\ Hopeful(j) /\ Goal(stack[j + 1]) => Completes(stack[j])
TopCompletes == exc = "none" /\ stack # <<>> /\ Hopeful(Len(stack)) => Completes(Top)

Places ==
  /\ \A j \in 1 .. Len(stack) : Formed(j) /\ Answering(j)
  /\ \A j \in 1 .. Len(stack) - 1 : Linked(j)
  /\ TopCompletes /\ ReportsTrue /\ ReturnTrue /\ ExitTrue

LEMMA PlacesHold ==
  ASSUME TypeOK, AnswerInv
  PROVE  Places
<1>1. Len(stack) \in Nat /\ (stack # <<>> => Len(stack) \in 1 .. Len(stack))
  BY DEF TypeOK
<1>2. \A j \in 1 .. Len(stack) - 1 : j \in 1 .. Len(stack) /\ j # Len(stack)
  BY <1>1
<1>3. ASSUME NEW j \in 1 .. Len(stack)
      PROVE  Formed(j) /\ Answering(j)
  BY <1>3 DEF AnswerInv, FramesRight, FramesAnswer, SessionsMatch, BlocksHaveErrors, Formed,
         Answering
<1>4. ASSUME NEW j \in 1 .. Len(stack) - 1
      PROVE  Linked(j)
  <2>1. /\ Joined(stack[j], stack[j + 1])
        /\ stack[j + 1].fn \in CallFn /\ Sure(stack[j].c) /\ ~Goal(stack[j + 1])
             => ~Goal(stack[j])
    BY DEF AnswerInv, FramesJoined
  <2>2. Hopeful(j) /\ Goal(stack[j + 1]) => Completes(stack[j])
    BY <1>2 DEF AnswerInv, FramesComplete, Hopeful
  <2> QED BY <2>1, <2>2 DEF Linked
<1>5. TopCompletes
  <2> SUFFICES ASSUME exc = "none", stack # <<>>, Hopeful(Len(stack))
               PROVE  Completes(stack[Len(stack)])
    BY DEF TopCompletes, Top
  <2> QED BY <1>1 DEF AnswerInv, FramesComplete, Hopeful
<1> QED BY <1>3, <1>4, <1>5 DEF Places, AnswerInv

LEMMA AnswersHold ==
  ASSUME TypeOK', Places'
  PROVE  AnswerInv'
<1>1. Len(stack') \in Nat
  BY DEF TypeOK
<1>2. \A j \in 1 .. Len(stack') : j = Len(stack') \/ j \in 1 .. Len(stack') - 1
  BY <1>1
<1>3. FramesRight' /\ FramesAnswer' /\ SessionsMatch' /\ BlocksHaveErrors'
  <2>1. \A j \in 1 .. Len(stack') : Formed(j)' /\ Answering(j)'
    BY DEF Places
  <2>2. FramesRight' /\ BlocksHaveErrors'
    BY <2>1 DEF FramesRight, BlocksHaveErrors, Formed
  <2>3. FramesAnswer' /\ SessionsMatch'
    BY <2>1 DEF FramesAnswer, SessionsMatch, Answering
  <2> QED BY <2>2, <2>3
<1>4. FramesJoined'
  BY DEF Places, Linked, FramesJoined
<1>5. FramesComplete'
  <2> SUFFICES ASSUME NEW j \in 1 .. Len(stack'), Hopeful(j)',
                      IF j = Len(stack') THEN exc' = "none" ELSE Goal(stack'[j + 1])
               PROVE  Completes(stack'[j])
    BY DEF FramesComplete, Hopeful
  <2>1. CASE j = Len(stack')
    <3>1. stack' # <<>>
      BY <1>1
    <3> QED BY <2>1, <3>1 DEF Places, TopCompletes, Top
  <2>2. CASE j # Len(stack')
    BY <1>2, <2>2 DEF Places, Linked
  <2> QED BY <2>1, <2>2
<1> QED BY <1>3, <1>4, <1>5 DEF AnswerInv, Places

(***************************************************************************)
(* The frames and contexts that a step leaves alone.                       *)
(***************************************************************************)
Alike(f, g) ==
  /\ g.fn = f.fn /\ g.cs = f.cs /\ g.d = f.d /\ g.c = f.c
  /\ Goal(g) <=> Goal(f)

(* The first k validations go on: an error stays reported, a disturbed one *)
(* stays disturbed.                                                        *)
Going(k) ==
  \A c \in 1 .. k :
    /\ ctx'[c].call = ctx[c].call
    /\ ctx[c].disturbed => ctx'[c].disturbed
    /\ ctx[c].errors # <<>> => ctx'[c].errors # <<>>

LEMMA CaughtStays ==
  ASSUME NEW m \in Nat, \A j \in 1 .. m : Alike(stack[j], stack'[j])
  PROVE  \A j \in 1 .. m : Caught(j)' <=> Caught(j)
<1> SUFFICES ASSUME NEW j \in 1 .. m
             PROVE  Caught(j)' <=> Caught(j)
  OBVIOUS
<1>1. \A k \in 1 .. j : k \in 1 .. m
  OBVIOUS
<1>2. \A k \in 1 .. m : stack'[k].fn = stack[k].fn /\ stack'[k].c = stack[k].c
  BY DEF Alike
<1>3. stack'[j].c = stack[j].c
  BY <1>2
<1>4. \A k \in 1 .. j : Catching(k, stack[j].c)' <=> Catching(k, stack[j].c)
  BY <1>1, <1>2, <1>3 DEF Catching
<1> QED BY <1>4 DEF Caught

LEMMA RestStays ==
  ASSUME Places, NEW m \in Nat, m <= Len(stack), Len(stack) \in Nat,
         \A j \in 1 .. m : Alike(stack[j], stack'[j]),
         \A j \in 1 .. m - 1 : stack'[j] = stack[j],
         NEW k \in Nat, \A j \in 1 .. m : stack[j].c \in 1 .. k, Going(k)
  PROVE  /\ \A j \in 1 .. m : Answering(j)' /\ (Hopeful(j)' => Hopeful(j))
         /\ \A j \in 1 .. m : stack'[j] = stack[j] => Formed(j)'
         /\ \A j \in 1 .. m - 1 : Formed(j)' /\ Answering(j)' /\ Linked(j)'
<1>1. \A j \in 1 .. m : Caught(j)' <=> Caught(j)
  BY CaughtStays
<1>2. ASSUME NEW j \in 1 .. m
      PROVE  /\ Sure(stack[j].c)' => Sure(stack[j].c)
             /\ Reported(stack[j].c) => Reported(stack[j].c)'
             /\ Truth(stack[j].c)' <=> Truth(stack[j].c)
             /\ ctx'[stack[j].c].call = ctx[stack[j].c].call
             /\ stack'[j].c = stack[j].c /\ stack'[j].fn = stack[j].fn
             /\ stack'[j].cs = stack[j].cs /\ stack'[j].d = stack[j].d
             /\ Goal(stack'[j]) <=> Goal(stack[j])
             /\ j \in 1 .. Len(stack)
  <2>1. Alike(stack[j], stack'[j]) /\ j \in 1 .. Len(stack)
    OBVIOUS
  <2>2. PICK c \in 1 .. k : c = stack[j].c
    OBVIOUS
  <2>3. stack'[j].c = c
    BY <2>1, <2>2 DEF Alike
  <2>4. /\ ctx'[c].call = ctx[c].call
        /\ ctx[c].disturbed => ctx'[c].disturbed
        /\ ctx[c].errors # <<>> => ctx'[c].errors # <<>>
    BY DEF Going
  <2>5. /\ Sure(stack[j].c)' => Sure(stack[j].c)
        /\ Reported(stack[j].c) => Reported(stack[j].c)'
        /\ Truth(stack[j].c)' <=> Truth(stack[j].c)
        /\ ctx'[stack[j].c].call = ctx[stack[j].c].call
    BY <2>2, <2>3, <2>4 DEF Sure, Reported, Truth
  <2> QED BY <2>1, <2>5 DEF Alike
<1>3. ASSUME NEW j \in 1 .. m
      PROVE  Hopeful(j)' => Hopeful(j)
  BY <1>1, <1>2 DEF Hopeful
<1>4. ASSUME NEW j \in 1 .. m
      PROVE  Answering(j)'
  <2>1. Answering(j)
    BY <1>2 DEF Places
  <2> QED BY <1>1, <1>2, <2>1 DEF Answering
<1>5. ASSUME NEW j \in 1 .. m, stack'[j] = stack[j]
      PROVE  Formed(j)'
  <2>1. Formed(j)
    BY <1>2 DEF Places
  <2> QED BY <1>2, <1>5, <2>1 DEF Formed, YieldingTo
<1>6. ASSUME NEW j \in 1 .. m - 1
      PROVE  Formed(j)' /\ Answering(j)' /\ Linked(j)'
  <2>1. /\ j \in 1 .. m /\ j + 1 \in 1 .. m /\ j \in 1 .. Len(stack) - 1
        /\ stack'[j] = stack[j]
    OBVIOUS
  <2>2. Linked(j)
    BY <2>1 DEF Places
  <2>3. /\ stack'[j + 1].fn = stack[j + 1].fn /\ stack'[j + 1].cs = stack[j + 1].cs
        /\ stack'[j + 1].d = stack[j + 1].d
        /\ Goal(stack'[j + 1]) <=> Goal(stack[j + 1])
    BY <1>2, <2>1
  <2>4. Joined(stack'[j], stack'[j + 1]) <=> Joined(stack[j], stack[j + 1])
    BY <2>1, <2>3 DEF Joined
  <2>5. Hopeful(j)' => Hopeful(j)
    BY <1>3, <2>1
  <2>6. Sure(stack[j].c)' => Sure(stack[j].c)
    BY <1>2, <2>1
  <2>7. Linked(j)'
    BY <2>1, <2>2, <2>3, <2>4, <2>5, <2>6 DEF Linked
  <2> QED BY <1>4, <1>5, <2>1, <2>7
<1> QED BY <1>3, <1>4, <1>5, <1>6

LEMMA ReportsStay ==
  ASSUME ReportsTrue, NEW k \in Nat, Going(k), Len(ctx') = k, k <= Len(ctx), Len(ctx) \in Nat,
         \A c \in 1 .. k : ctx'[c].errors # <<>> => ctx[c].errors # <<>>
  PROVE  ReportsTrue'
<1> SUFFICES ASSUME NEW c \in 1 .. k, ctx'[c].errors # <<>>
             PROVE  /\ ctx'[c].call.fn = "rb_validate"
                    /\ ~ctx'[c].disturbed => ~Conforms[ctx'[c].call.cs][ctx'[c].call.d]
  BY DEF ReportsTrue, Reported, Sure, Truth
<1>1. c \in 1 .. Len(ctx) /\ ctx[c].errors # <<>>
  OBVIOUS
<1>2. /\ ctx[c].call.fn = "rb_validate"
      /\ ~ctx[c].disturbed => ~Conforms[ctx[c].call.cs][ctx[c].call.d]
  BY <1>1 DEF ReportsTrue, Reported, Sure, Truth
<1> QED BY <1>2 DEF Going

LEMMA Depths ==
  ASSUME IInv, stack # <<>>
  PROVE  /\ Len(stack) \in Nat \ {0} /\ Len(stack) \in 1 .. Len(stack)
         /\ stack[Len(stack)] = Top /\ Len(ctx) \in Nat /\ Top.c = Len(ctx)
         /\ \A j \in 1 .. Len(stack) : stack[j].c \in 1 .. Len(ctx)
         /\ \A j \in 1 .. Len(stack) - 1 : j \in 1 .. Len(stack) /\ j + 1 \in 1 .. Len(stack)
<1>1. Len(stack) \in Nat \ {0} /\ Len(ctx) \in Nat
  BY DEF IInv, TypeOK
<1>2. \A j \in 1 .. Len(stack) : stack[j].c \in 1 .. Len(ctx)
  BY DEF IInv, Nested
<1> QED BY <1>1, <1>2, TopFacts

(* The top frame goes on as f.                                             *)
LEMMA GotoAnswers ==
  ASSUME IInv, Places, stack # <<>>, NEW f \in Frame, Goto(f), Alike(Top, f),
         Len(ctx') = Len(ctx), Going(Len(ctx)),
         Shaped(f), f.pc \notin Deciding,
         ~ctx'[Top.c].disturbed => Right(f),
         f.fn = "yield_error" /\ f.pc \in {"block", "called"} => ctx'[Top.c].errors # <<>>,
         exc' = "none" /\ ~ctx'[Top.c].disturbed /\ Hopeful(Len(stack)) => Completes(f),
         ReportsTrue', ExitTrue'
  PROVE  Places'
<1>n. PICK n : n = Len(stack)
  OBVIOUS
<1>0. /\ n \in Nat \ {0} /\ n \in 1 .. n /\ stack[n] = Top
      /\ \A j \in 1 .. n : stack[j].c \in 1 .. Len(ctx)
      /\ Len(ctx) \in Nat
  BY <1>n, Depths
<1>1. /\ stack' \in Seq(Frame) /\ Len(stack') = n /\ stack'[n] = f
      /\ \A j \in 1 .. n - 1 : stack'[j] = stack[j]
  BY <1>n, ReplaceFacts DEF IInv, TypeOK, Goto
<1>2. \A j \in 1 .. n : Alike(stack[j], stack'[j])
  <2>1. \A j \in 1 .. n : j = n \/ j \in 1 .. n - 1
    BY <1>0
  <2> QED BY <1>0, <1>1, <2>1 DEF Alike
<1>3. /\ \A j \in 1 .. n : Answering(j)' /\ (Hopeful(j)' => Hopeful(j))
      /\ \A j \in 1 .. n - 1 : Formed(j)' /\ Answering(j)' /\ Linked(j)'
  <2>1. n <= Len(stack)
    BY <1>n, <1>0
  <2>2. PICK k \in Nat : k = Len(ctx)
    BY <1>0
  <2>3. \A j \in 1 .. n : stack[j].c \in 1 .. k
    BY <1>0, <2>2
  <2> QED BY <1>n, <1>0, <1>1, <1>2, <2>1, <2>2, <2>3, RestStays
<1>4. stack'[n].c = Top.c /\ Top' = f /\ stack' # <<>>
  BY <1>0, <1>1 DEF Alike, Top
<1>5. Formed(n)'
  BY <1>1, <1>4 DEF Formed, Sure, Reported, YieldingTo
<1>6. TopCompletes'
  <2> SUFFICES ASSUME exc' = "none", Hopeful(n)'
               PROVE  Completes(f)
    BY <1>1, <1>4 DEF TopCompletes
  <2>1. Hopeful(n) /\ ~ctx'[Top.c].disturbed
    BY <1>0, <1>3, <1>4 DEF Hopeful, Sure
  <2> QED BY <1>n, <2>1
<1>7. ReturnTrue'
  BY <1>4 DEF ReturnTrue
<1>8. \A j \in 1 .. n : j = n \/ j \in 1 .. n - 1
  BY <1>0
<1> QED BY <1>0, <1>1, <1>3, <1>5, <1>6, <1>7, <1>8 DEF Places

(* The top frame goes on as f and calls g, for the same validation.        *)
LEMMA PushAnswers ==
  ASSUME IInv, Places, stack # <<>>, NEW f \in Frame, NEW g \in Frame, Pushed(f, g),
         Alike(Top, f), g.c = Top.c, g.pc = "enter",
         g.fn = "is_valid" \/ g.fn \in CallFn,
         g.fn \in CallFn /\ Top.fn \in SessionFn => ctx[Top.c].call.fn = "rb_validate",
         Len(ctx') = Len(ctx), Going(Len(ctx)), ReportsTrue', exc' = "none",
         Shaped(f), f.pc \notin {"block", "called"}, ~ctx'[Top.c].disturbed => Right(f),
         Shaped(g), Right(g), Joined(f, g),
         g.fn \in CallFn /\ ~ctx'[Top.c].disturbed /\ ~Goal(g) => ~Goal(f),
         ~ctx'[Top.c].disturbed /\ Hopeful(Len(stack)) /\ Goal(g) => Completes(f)
  PROVE  Places'
<1>n. PICK n : n = Len(stack)
  OBVIOUS
<1>0. /\ n \in Nat \ {0} /\ n \in 1 .. n /\ stack[n] = Top
      /\ \A j \in 1 .. n : stack[j].c \in 1 .. Len(ctx)
      /\ Len(ctx) \in Nat
  BY <1>n, Depths
<1>1. /\ stack' \in Seq(Frame) /\ Len(stack') = n + 1
      /\ stack'[n + 1] = g /\ stack'[n] = f
      /\ \A j \in 1 .. n - 1 : stack'[j] = stack[j]
  <2>1. /\ Replace(f) \in Seq(Frame) /\ Len(Replace(f)) = n
        /\ Replace(f)[n] = f /\ \A j \in 1 .. n - 1 : Replace(f)[j] = stack[j]
    BY <1>n, ReplaceFacts DEF IInv, TypeOK
  <2> QED BY <1>0, <2>1, PushFacts DEF Pushed
<1>2. \A j \in 1 .. n : Alike(stack[j], stack'[j])
  <2>1. \A j \in 1 .. n : j = n \/ j \in 1 .. n - 1
    BY <1>0
  <2> QED BY <1>0, <1>1, <2>1 DEF Alike
<1>3. /\ \A j \in 1 .. n : Answering(j)' /\ (Hopeful(j)' => Hopeful(j))
      /\ \A j \in 1 .. n - 1 : Formed(j)' /\ Answering(j)' /\ Linked(j)'
  <2>1. n <= Len(stack)
    BY <1>n, <1>0
  <2>2. PICK k \in Nat : k = Len(ctx)
    BY <1>0
  <2>3. \A j \in 1 .. n : stack[j].c \in 1 .. k
    BY <1>0, <2>2
  <2> QED BY <1>n, <1>0, <1>1, <1>2, <2>1, <2>2, <2>3, RestStays
<1>4. /\ stack'[n].c = Top.c /\ stack'[n].fn = Top.fn /\ stack'[n + 1].c = Top.c
      /\ Top' = g /\ stack' # <<>>
  BY <1>0, <1>1 DEF Alike, Top
<1>5. Formed(n)'
  BY <1>1, <1>4 DEF Formed, Sure, YieldingTo
<1>6. Formed(n + 1)'
  BY <1>1 DEF Formed, YieldingTo
<1>7. Linked(n)'
  <2>1. Hopeful(n)' => Hopeful(n) /\ ~ctx'[Top.c].disturbed
    BY <1>0, <1>3, <1>4 DEF Hopeful, Sure
  <2>2. Sure(stack[n].c)' => ~ctx'[Top.c].disturbed
    BY <1>4 DEF Sure
  <2> QED BY <1>n, <1>1, <2>1, <2>2 DEF Linked
<1>8. Answering(n + 1)'
  <2>1. g.fn \notin SessionFn
    BY DEF CallFn, SessionFn
  <2>2. SUFFICES ASSUME ~Caught(n + 1)'
                 PROVE  /\ ctx'[Top.c].call.fn = "rb_validate"
                        /\ ~ctx'[Top.c].disturbed /\ ~Goal(g) => ~Truth(Top.c)'
    BY <1>1, <1>4, <2>1 DEF Answering, Sure, Truth
  <2>3. n + 1 \in 1 .. n + 1 /\ \A k \in 1 .. n : k \in 1 .. n + 1
    BY <1>0
  <2>4. g.fn \in CallFn
    BY <1>1, <2>2, <2>3 DEF Caught, Catching
  <2>5. ~Caught(n)'
    BY <1>4, <2>2, <2>3 DEF Caught, Catching
  <2>6. /\ Top.fn \in SessionFn \/ ctx'[Top.c].call.fn = "rb_validate"
        /\ ~ctx'[Top.c].disturbed /\ ~Goal(f) => ~Truth(Top.c)'
    <3>1. Answering(n)'
      BY <1>0, <1>3
    <3> QED BY <1>1, <1>4, <2>5, <3>1 DEF Answering, Sure, Truth
  <2>7. ctx'[Top.c].call = ctx[Top.c].call
    BY <1>0 DEF Going
  <2> QED BY <2>4, <2>6, <2>7
<1>9. TopCompletes' /\ ReturnTrue' /\ ExitTrue'
  BY <1>4 DEF TopCompletes, Completes, ReturnTrue, Deciding, ExitTrue
<1>10. \A j \in 1 .. n + 1 : j = n + 1 \/ j = n \/ j \in 1 .. n - 1
  BY <1>0
<1>11. \A j \in 1 .. n : j = n \/ j \in 1 .. n - 1
  BY <1>0
<1>12. Len(stack') - 1 = n
  BY <1>0, <1>1
<1> QED BY <1>0, <1>1, <1>3, <1>5, <1>6, <1>7, <1>8, <1>9, <1>10, <1>11, <1>12 DEF Places

LEMMA UnderTop ==
  ASSUME IInv, stack # <<>>, Top.fn \notin SessionFn
  PROVE  /\ Len(stack) - 1 \in 1 .. Len(stack) - 1
         /\ Len(stack) - 1 \in 1 .. Len(stack)
         /\ Len(stack) - 1 + 1 = Len(stack)
         /\ stack[Len(stack) - 1].c = Top.c
<1>1. Len(stack) \in Nat \ {0} /\ stack[Len(stack)] = Top
  BY Depths
<1>2. stack[1].fn \in SessionFn
  BY DEF IInv, Nested
<1>3. Len(stack) # 1
  BY <1>1, <1>2
<1>4. /\ Len(stack) - 1 \in 1 .. Len(stack) - 1
      /\ Len(stack) - 1 \in 1 .. Len(stack)
      /\ Len(stack) - 1 + 1 = Len(stack)
  <2>1. PICK n \in Nat \ {0} : n = Len(stack) /\ n # 1
    BY <1>1, <1>3
  <2>2. n - 1 \in 1 .. n - 1 /\ n - 1 \in 1 .. n /\ n - 1 + 1 = n
    BY <2>1
  <2> QED BY <2>1, <2>2
<1>5. stack[Len(stack) - 1].c = Top.c
  BY <1>1, <1>4 DEF IInv, Nested
<1> QED BY <1>4, <1>5

(* The top frame ends, or is dropped.                                      *)
LEMMA ReturnAnswers ==
  ASSUME IInv, Places, stack # <<>>, Top.fn \notin SessionFn, Return,
         Len(ctx') = Len(ctx), Going(Len(ctx)), ReportsTrue',
         NEW below, below = stack[Len(stack) - 1],
         exc' = "none" /\ ~ctx'[Top.c].disturbed /\ Hopeful(Len(stack) - 1)
           => Goal(Top) \/ below.pc # "plan",
         exc' = "none" /\ ~ctx'[Top.c].disturbed /\ below.pc \in Deciding
           => (ret' <=> Conforms[Asked(below).cs][Asked(below).d]),
         exc' = "throw" => exc = "throw" /\ Top.fn \in CallFn,
         exc' = "break" => ctx'[Top.c].errors # <<>>
  PROVE  Places'
<1>n. PICK n : n = Len(stack)
  OBVIOUS
<1>0. /\ n \in Nat \ {0} /\ n \in 1 .. n /\ stack[n] = Top
      /\ \A j \in 1 .. n : stack[j].c \in 1 .. Len(ctx)
      /\ Len(ctx) \in Nat
      /\ n - 1 \in 1 .. n - 1 /\ n - 1 \in 1 .. n /\ n - 1 + 1 = n /\ below.c = Top.c
      /\ below = stack[n - 1] /\ n - 1 \in Nat
  BY <1>n, Depths, UnderTop
<1>1. /\ stack' \in Seq(Frame) /\ Len(stack') = n - 1
      /\ \A j \in 1 .. n - 1 : stack'[j] = stack[j]
  BY <1>n, BelowFacts DEF IInv, TypeOK, Return
<1>3. /\ \A j \in 1 .. n - 1 : Answering(j)' /\ (Hopeful(j)' => Hopeful(j)) /\ Formed(j)'
      /\ \A j \in 1 .. n - 2 : Linked(j)'
  <2>1. PICK m \in Nat : m = n - 1
    BY <1>0
  <2>2. m <= Len(stack) /\ Len(stack) \in Nat /\ m - 1 = n - 2
    BY <1>n, <1>0, <2>1
  <2>3. PICK k \in Nat : k = Len(ctx)
    BY <1>0
  <2>4. \A j \in 1 .. m : j \in 1 .. n /\ stack'[j] = stack[j]
    BY <1>0, <1>1, <2>1
  <2>5. \A j \in 1 .. m : Alike(stack[j], stack'[j]) /\ stack[j].c \in 1 .. k
    BY <1>0, <2>3, <2>4 DEF Alike
  <2>6. \A j \in 1 .. m - 1 : stack'[j] = stack[j]
    BY <2>4
  <2>7. /\ \A j \in 1 .. m : Answering(j)' /\ (Hopeful(j)' => Hopeful(j))
        /\ \A j \in 1 .. m : stack'[j] = stack[j] => Formed(j)'
        /\ \A j \in 1 .. m - 1 : Formed(j)' /\ Answering(j)' /\ Linked(j)'
    BY <2>2, <2>3, <2>5, <2>6, RestStays
  <2> QED BY <2>1, <2>2, <2>4, <2>7
<1>4. /\ Top' = below /\ stack' # <<>> /\ stack'[n - 1] = below
      /\ Hopeful(n - 1)' => Hopeful(n - 1) /\ ~ctx'[Top.c].disturbed
  BY <1>0, <1>1, <1>3 DEF Top, Hopeful, Sure
<1>5. Linked(n - 1)
  BY <1>n, <1>0 DEF Places
<1>6. TopCompletes'
  <2> SUFFICES ASSUME exc' = "none", Hopeful(n - 1)'
               PROVE  Completes(below)
    BY <1>1, <1>4 DEF TopCompletes
  <2>1. CASE below.pc # "plan"
    BY <2>1 DEF Completes
  <2>2. CASE Goal(Top)
    BY <1>0, <1>4, <1>5, <2>2 DEF Linked
  <2> QED BY <1>n, <1>4, <2>1, <2>2
<1>7. ReturnTrue'
  BY <1>0, <1>4 DEF ReturnTrue, Running, Sure
<1>8. ExitTrue'
  <2>1. ASSUME exc' = "throw", Sure(below.c)'
        PROVE  ~Goal(below)
    <3>1. /\ exc = "throw" /\ Top.fn \in CallFn /\ ~ctx'[Top.c].disturbed
      BY <1>0, <2>1 DEF Sure
    <3>2. ~ctx[Top.c].disturbed
      BY <1>0, <3>1 DEF Going
    <3>3. ~Goal(Top)
      BY <3>1, <3>2 DEF Places, ExitTrue, Sure
    <3> QED BY <1>0, <1>5, <3>1, <3>2, <3>3 DEF Linked, Sure
  <2> QED BY <1>0, <1>4, <2>1 DEF ExitTrue, Sure, Reported
<1>9. Len(stack') - 1 = n - 2
  BY <1>0, <1>1
<1> QED BY <1>1, <1>3, <1>6, <1>7, <1>8, <1>9 DEF Places

(* A validation closes.                                                    *)
LEMMA CloseAnswers ==
  ASSUME IInv, Places, stack # <<>>, Top.fn \in SessionFn,
         NEW outcome, CloseSession(outcome),
         exc' = "none" \/ (exc' = "raise" /\ Len(stack) # 1)
  PROVE  Places'
<1>n. PICK n, m : n = Len(stack) /\ m = Len(ctx)
  OBVIOUS
<1>0. /\ n \in Nat \ {0} /\ n \in 1 .. n /\ stack[n] = Top /\ n - 1 \in Nat
      /\ \A j \in 1 .. n : stack[j].c \in 1 .. m
      /\ m \in Nat \ {0} /\ Top.c = m /\ m - 1 \in Nat
  <2>1. /\ n \in Nat \ {0} /\ n \in 1 .. n /\ stack[n] = Top
        /\ \A j \in 1 .. n : stack[j].c \in 1 .. m
        /\ m \in Nat /\ Top.c = m
    BY <1>n, Depths
  <2>2. m \in 1 .. m
    BY <2>1
  <2> QED BY <2>1, <2>2
<1>1. /\ stack' \in Seq(Frame) /\ Len(stack') = n - 1
      /\ \A j \in 1 .. n - 1 : stack'[j] = stack[j]
  BY <1>n, BelowFacts DEF IInv, TypeOK, CloseSession
<1>2. /\ Len(ctx') = m - 1 /\ \A c \in 1 .. m - 1 : ctx'[c] = ctx[c]
  <2>1. ctx \in Seq(Context) /\ ctx # <<>>
    BY <1>n, <1>0 DEF IInv, TypeOK
  <2> QED BY <1>n, <2>1, PopFacts DEF CloseSession
<1>k. PICK k \in Nat : k = m - 1
  BY <1>0
<1>3. Going(k) /\ ReportsTrue'
  <2>1. Going(k)
    BY <1>2, <1>k DEF Going
  <2>2. ReportsTrue /\ Len(ctx') = k /\ k <= Len(ctx) /\ Len(ctx) \in Nat
    BY <1>n, <1>0, <1>2, <1>k DEF Places
  <2>3. \A c \in 1 .. k : ctx'[c].errors # <<>> => ctx[c].errors # <<>>
    BY <1>2, <1>k
  <2> QED BY <2>1, <2>2, <2>3, ReportsStay
<1>4. /\ \A j \in 1 .. n - 1 : Answering(j)' /\ Formed(j)'
      /\ \A j \in 1 .. n - 2 : Linked(j)'
  <2>1. PICK l \in Nat : l = n - 1
    BY <1>0
  <2>2. l <= Len(stack) /\ Len(stack) \in Nat /\ l - 1 = n - 2
    BY <1>n, <1>0, <2>1
  <2>3. ASSUME NEW j \in 1 .. l
        PROVE  stack'[j] = stack[j] /\ Alike(stack[j], stack'[j]) /\ stack[j].c \in 1 .. k
    <3>1. j \in 1 .. n /\ n \in 1 .. n /\ j < n
      BY <1>0, <2>1
    <3>2. stack[j].c < stack[n].c
      BY <1>n, <1>0, <3>1 DEF IInv, Layered
    <3>3. stack[j].c \in 1 .. k
      BY <1>0, <1>k, <3>1, <3>2
    <3> QED BY <1>1, <2>1, <3>3 DEF Alike
  <2>4. \A j \in 1 .. l - 1 : stack'[j] = stack[j]
    BY <2>3
  <2>5. /\ \A j \in 1 .. l : Answering(j)' /\ (Hopeful(j)' => Hopeful(j))
        /\ \A j \in 1 .. l : stack'[j] = stack[j] => Formed(j)'
        /\ \A j \in 1 .. l - 1 : Formed(j)' /\ Answering(j)' /\ Linked(j)'
    BY <1>3, <2>2, <2>3, <2>4, RestStays
  <2> QED BY <2>1, <2>2, <2>3, <2>5
<1>5. /\ stack' # <<>> => Top'.pc = "called"
      /\ stack' = <<>> => exc' = "none"
  <2>0. stack' = <<>> => n = 1
    BY <1>0, <1>1
  <2>1. CASE n = 1
    BY <1>n, <1>1, <2>1
  <2>2. CASE n # 1
    <3>1. n - 1 \in 1 .. n - 1 /\ n - 1 + 1 = n
      BY <1>0, <2>2
    <3>2. Joined(stack[n - 1], Top)
      BY <1>n, <1>0, <3>1 DEF Places, Linked
    <3>3. Top' = stack[n - 1]
      BY <1>1, <3>1 DEF Top
    <3> QED BY <2>0, <2>2, <3>2, <3>3 DEF Joined, SessionFn
  <2> QED BY <2>1, <2>2
<1>6. TopCompletes' /\ ReturnTrue' /\ ExitTrue'
  BY <1>5 DEF TopCompletes, Completes, ReturnTrue, Running, Deciding, ExitTrue
<1>7. Len(stack') - 1 = n - 2
  BY <1>0, <1>1
<1> QED BY <1>1, <1>3, <1>4, <1>6, <1>7 DEF Places

(* Nothing changes but the exit under way.                                 *)
LEMMA ExitAnswers ==
  ASSUME IInv, Places, UNCHANGED <<stack, ctx>>,
         stack # <<>> \/ exc' = "none",
         exc' = "none" => stack = <<>> \/ Top.pc = "called",
         exc' = "throw" /\ Sure(Top.c) => ~Goal(Top),
         exc' = "break" => Reported(Top.c)
  PROVE  Places'
<1>1. \A j : /\ Formed(j)' <=> Formed(j)
             /\ Answering(j)' <=> Answering(j)
             /\ Linked(j)' <=> Linked(j)
  BY DEF Formed, Answering, Linked, YieldingTo, Reported, Sure, Caught, Catching, Truth, Hopeful
<1>2. ReportsTrue' /\ ExitTrue'
  BY DEF Places, ReportsTrue, Reported, Sure, Truth, ExitTrue, Top
<1>3. TopCompletes' /\ ReturnTrue'
  BY DEF TopCompletes, Completes, ReturnTrue, Running, Deciding, Top
<1> QED BY <1>1, <1>2, <1>3 DEF Places

(* A validation opens on top of base: the stack, its top frame in user     *)
(* code that makes a call.                                                 *)
LEMMA OpenAnswers ==
  ASSUME IInv, Places,
         NEW base \in Seq(Frame), Len(base) = Len(stack),
         \A j \in 1 .. Len(stack) - 1 : base[j] = stack[j],
         NEW f, base # <<>> =>
           /\ f = base[Len(base)] /\ Alike(Top, f)
           /\ f.pc = "called" /\ Shaped(f) /\ (Sure(Top.c) => Right(f))
           /\ f.fn = "yield_error" => Reported(Top.c),
         NEW call \in Call, OpenSession(base, call),
         UNCHANGED <<ret, exc, last>>, exc = "none"
  PROVE  Places'
<1>g. PICK g : g = NewFrame(Do(call.fn, call.cs, call.d, 0), Len(ctx) + 1, <<Root>>)
  OBVIOUS
<1>n. PICK n, m : n = Len(stack) /\ m = Len(ctx)
  OBVIOUS
<1>0. /\ n \in Nat /\ m \in Nat /\ ctx \in Seq(Context) /\ stack \in Seq(Frame)
      /\ base # <<>> => n \in 1 .. n /\ n \in Nat \ {0} /\ stack # <<>> /\ stack[n] = Top
      /\ \A j \in 1 .. n : stack[j].c \in 1 .. m
      /\ base = <<>> => n = 0
  <2>1. n \in Nat /\ m \in Nat /\ ctx \in Seq(Context) /\ stack \in Seq(Frame)
    BY <1>n DEF IInv, TypeOK
  <2>2. \A j \in 1 .. n : stack[j].c \in 1 .. m
    BY <1>n DEF IInv, Nested
  <2>3. base # <<>> => n \in 1 .. n /\ n \in Nat \ {0} /\ stack # <<>>
    BY <1>n, <2>1
  <2> QED BY <1>n, <2>1, <2>2, <2>3 DEF Top
<1>1. /\ g \in Frame /\ g.fn = call.fn /\ g.cs = call.cs /\ g.d = call.d
      /\ g.pc = "enter" /\ g.c = m + 1 /\ g.n = 0 /\ g.i = 0 /\ g.fn \in SessionFn
      /\ call.fn \in {"rb_validate", "rb_valid"} /\ g.todo = <<>>
  <2>1. call.fn \in FnName /\ call.fn \in SessionFn /\ call.cs \in Schema /\ call.d \in Data
        /\ call.fn \in {"rb_validate", "rb_valid"}
    BY DEF Call, FnName, OtherFn, SessionFn
  <2>2. <<Root>> \in Seq(Segment) /\ m + 1 \in Nat
    BY <1>0 DEF Root, Segment
  <2>3. PICK loc \in Seq(Segment), c \in Nat, fn \in FnName, sc \in Schema, d \in Data :
          loc = <<Root>> /\ c = m + 1 /\ fn = call.fn /\ sc = call.cs /\ d = call.d
    BY <2>1, <2>2
  <2>4. NewFrame(Do(fn, sc, d, 0), c, loc) \in Frame
    BY NewFrameType
  <2>5. g \in Frame
    BY <1>g, <1>n, <2>3, <2>4
  <2>6. /\ g.fn = call.fn /\ g.cs = call.cs /\ g.d = call.d
        /\ g.pc = "enter" /\ g.c = m + 1 /\ g.n = 0 /\ g.i = 0 /\ g.todo = <<>>
    BY <1>g, <1>n DEF NewFrame, Do
  <2> QED BY <2>1, <2>5, <2>6
<1>2. /\ stack' \in Seq(Frame) /\ Len(stack') = n + 1 /\ stack'[n + 1] = g
      /\ \A j \in 1 .. n : stack'[j] = base[j]
  BY <1>n, <1>g, <1>1, PushFacts DEF OpenSession
<1>3. /\ Len(ctx') = m + 1 /\ ctx'[m + 1] = NewContext(call)
      /\ \A c \in 1 .. m : ctx'[c] = ctx[c]
  BY <1>n, <1>0, NewContextType DEF OpenSession
<1>k. PICK k \in Nat : k = m
  BY <1>0
<1>4. Going(k)
  BY <1>3, <1>k DEF Going
<1>5. ReportsTrue'
  <2> SUFFICES ASSUME NEW c \in 1 .. m + 1, ctx'[c].errors # <<>>
               PROVE  /\ ctx'[c].call.fn = "rb_validate"
                      /\ ~ctx'[c].disturbed => ~Conforms[ctx'[c].call.cs][ctx'[c].call.d]
    BY <1>3 DEF ReportsTrue, Reported, Sure, Truth
  <2>1. c # m + 1
    BY <1>3 DEF NewContext
  <2>2. c \in 1 .. m /\ ctx'[c] = ctx[c]
    BY <1>0, <1>3, <2>1
  <2> QED BY <1>n, <2>2 DEF Places, ReportsTrue, Reported, Sure, Truth
<1>6. /\ \A j \in 1 .. n : Answering(j)' /\ (Hopeful(j)' => Hopeful(j))
      /\ \A j \in 1 .. n - 1 : Formed(j)' /\ Answering(j)' /\ Linked(j)'
  <2>1. n <= Len(stack) /\ Len(stack) \in Nat
    BY <1>n, <1>0
  <2>2. \A j \in 1 .. n - 1 : j \in 1 .. n /\ stack'[j] = stack[j]
    BY <1>n, <1>0, <1>2
  <2>3. ASSUME NEW j \in 1 .. n
        PROVE  Alike(stack[j], stack'[j])
    <3>1. CASE j = n
      <4>1. base # <<>> /\ stack'[j] = f /\ stack[j] = Top
        BY <1>n, <1>0, <1>2, <3>1
      <4> QED BY <4>1
    <3>2. CASE j # n
      <4>1. j \in 1 .. n - 1
        BY <1>0, <3>2
      <4> QED BY <2>2, <4>1 DEF Alike
    <3> QED BY <3>1, <3>2
  <2>4. \A j \in 1 .. n : stack[j].c \in 1 .. k
    BY <1>0, <1>k
  <2>5. PICK l \in Nat : l = n
    BY <1>0
  <2> QED BY <1>4, <2>1, <2>2, <2>3, <2>4, <2>5, RestStays
<1>7. Formed(n + 1)'
  <2>1. YieldingTo(n + 1)' <=> FALSE
    BY <1>1, <1>2 DEF YieldingTo
  <2>2. Shaped(g)
    BY <1>1 DEF Shaped, Labelled, Deciding, DecidingFn, Combinator, Counting, BranchFn, SessionFn
  <2>3. Right(g)
    BY <1>1 DEF Right, Counting, BranchFn, SessionFn
  <2> QED BY <1>2, <2>1, <2>2, <2>3 DEF Formed
<1>8. Answering(n + 1)'
  <2>1. NewContext(call).call = call
    BY DEF NewContext
  <2>2. ctx'[m + 1].call = call
    BY <1>3, <2>1
  <2>3. call = [fn |-> call.fn, cs |-> call.cs, d |-> call.d]
    BY DEF Call
  <2>4. Goal(g) <=> Conforms[call.cs][call.d]
    BY <1>1, BranchGoal
  <2> QED BY <1>1, <1>2, <2>2, <2>3, <2>4 DEF Answering, Truth
<1>9. base # <<>> => Formed(n)' /\ Linked(n)'
  <2> SUFFICES ASSUME base # <<>>
               PROVE  Formed(n)' /\ Linked(n)'
    OBVIOUS
  <2>1. stack'[n] = f /\ f.c = Top.c /\ Top.c = m /\ m \in 1 .. m
    BY <1>n, <1>0, <1>2, Depths DEF Alike
  <2>2. ctx'[Top.c] = ctx[Top.c]
    BY <1>3, <2>1
  <2>3. Formed(n)'
    BY <2>1, <2>2 DEF Formed, Sure, Reported, YieldingTo
  <2>4. g.fn \notin CallFn
    BY <1>1 DEF CallFn, SessionFn
  <2>5. Joined(f, g) /\ Completes(f)
    BY <1>1 DEF Joined, Completes, SessionFn
  <2> QED BY <1>2, <2>1, <2>3, <2>4, <2>5 DEF Linked
<1>10. Top' = g /\ stack' # <<>>
  BY <1>0, <1>2 DEF Top
<1>11. TopCompletes' /\ ReturnTrue' /\ ExitTrue'
  BY <1>1, <1>10 DEF TopCompletes, Completes, ReturnTrue, Deciding, ExitTrue
<1>12. /\ \A j \in 1 .. n + 1 : j = n + 1 \/ (j = n /\ base # <<>>) \/ j \in 1 .. n - 1
       /\ \A j \in 1 .. n : (j = n /\ base # <<>>) \/ j \in 1 .. n - 1
       /\ Len(stack') - 1 = n
  <2>1. \A j \in 1 .. n : base # <<>>
    BY <1>0
  <2>2. /\ \A j \in 1 .. n + 1 : j = n + 1 \/ j \in 1 .. n
        /\ \A j \in 1 .. n : j = n \/ j \in 1 .. n - 1
        /\ n + 1 - 1 = n
    BY <1>0
  <2>3. ASSUME NEW j \in 1 .. n
        PROVE  (j = n /\ base # <<>>) \/ j \in 1 .. n - 1
    BY <2>1, <2>2
  <2>4. ASSUME NEW j \in 1 .. n + 1
        PROVE  j = n + 1 \/ (j = n /\ base # <<>>) \/ j \in 1 .. n - 1
    <3>1. CASE j = n + 1
      BY <3>1
    <3>2. CASE j \in 1 .. n
      BY <2>3, <3>2
    <3> QED BY <2>2, <3>1, <3>2
  <2>5. Len(stack') - 1 = n
    BY <1>0, <1>2
  <2> QED BY <2>3, <2>4, <2>5
<1> QED BY <1>2, <1>5, <1>6, <1>7, <1>8, <1>9, <1>11, <1>12 DEF Places

(***************************************************************************)
(* What the actions have in common.                                        *)
(***************************************************************************)
AnswersGoOn == Len(ctx') = Len(ctx) /\ Going(Len(ctx)) /\ ReportsTrue'

LEMMA ContextSame ==
  ASSUME IInv, Places, UNCHANGED ctx
  PROVE  AnswersGoOn
<1>1. ReportsTrue'
  BY DEF Places, ReportsTrue, Reported, Sure, Truth
<1> QED BY <1>1 DEF AnswersGoOn, Going

LEMMA ContextGoes ==
  ASSUME IInv, Places, stack # <<>>, NEW r \in Context, SetContext(r),
         r.call = Cur.call, r.errors = Cur.errors, Cur.disturbed => r.disturbed
  PROVE  AnswersGoOn /\ ctx'[Top.c] = r
<1>1. /\ Len(ctx') = Len(ctx) /\ ctx'[Top.c] = r /\ Len(ctx) \in Nat
      /\ \A c \in 1 .. Len(ctx) : c # Top.c => ctx'[c] = ctx[c]
  BY SetContextFacts, TopFacts
<1>2. PICK k \in Nat : k = Len(ctx)
  BY <1>1
<1>3. Going(k) /\ \A c \in 1 .. k : ctx'[c].errors # <<>> => ctx[c].errors # <<>>
  <2> SUFFICES ASSUME NEW c \in 1 .. k
               PROVE  /\ ctx'[c].call = ctx[c].call
                      /\ ctx[c].disturbed => ctx'[c].disturbed
                      /\ ctx'[c].errors = ctx[c].errors
    BY DEF Going
  <2>1. CASE c = Top.c
    BY <1>1, <2>1 DEF Cur
  <2>2. CASE c # Top.c
    BY <1>1, <1>2, <2>2
  <2> QED BY <2>1, <2>2
<1>4. ReportsTrue'
  <2>1. ReportsTrue
    BY DEF Places
  <2> QED BY <1>1, <1>2, <1>3, <2>1, ReportsStay
<1> QED BY <1>1, <1>2, <1>3, <1>4 DEF AnswersGoOn

(* Only validate_object_property looks at its number.                      *)
LEMMA SameQuestion ==
  ASSUME NEW f, NEW g, g.fn = f.fn, g.cs = f.cs, g.d = f.d, g.c = f.c,
         g.i = f.i \/ f.fn # "validate_object_property"
  PROVE  Alike(f, g)
<1>1. ASSUME NEW fn, fn # "validate_object_property", NEW s, NEW d, NEW i, NEW j
      PROVE  Accepts(fn, s, d, i) <=> Accepts(fn, s, d, j)
  BY <1>1 DEF Accepts
<1>2. Goal(g) <=> Goal(f)
  BY <1>1 DEF Goal
<1> QED BY <1>2 DEF Alike

LEMMA ConcludeAnswers ==
  ASSUME IInv, Places, stack # <<>>, AnswersGoOn, exc' = "none",
         NEW plan \in Seq(Step), Conclude(Top, plan),
         Top.fn \notin {"rb_valid", "yield_error"},
         ~ctx'[Top.c].disturbed => Tells(plan, Goal(Top))
  PROVE  Places'
<1>1. PICK f : f = [Top EXCEPT !.pc = "plan", !.todo = plan]
  OBVIOUS
<1>2. /\ f \in Frame /\ f.pc = "plan" /\ Goto(f)
      /\ f.fn = Top.fn /\ f.cs = Top.cs /\ f.d = Top.d /\ f.c = Top.c /\ f.i = Top.i
      /\ f.todo = plan
  BY <1>1, TopFacts, ConcludeType DEF Frame, Conclude
<1>3. Alike(Top, f)
  BY <1>2, SameQuestion
<1>4. Shaped(f) /\ f.pc \notin Deciding
  BY <1>2 DEF Shaped, Labelled, Deciding, Counting
<1>5. Goal(f) <=> Goal(Top)
  BY <1>3 DEF Alike
<1>6. ~ctx'[Top.c].disturbed => Right(f) /\ Completes(f)
  BY <1>2, <1>5 DEF Right, Completes, Tells
<1>7. ExitTrue'
  BY DEF ExitTrue
<1>8. ~(f.fn = "yield_error" /\ f.pc \in {"block", "called"})
  BY <1>2
<1> QED BY <1>2, <1>3, <1>4, <1>6, <1>7, <1>8, GotoAnswers DEF AnswersGoOn

(* is_valid is asked about a branch, an item or the schema itself.         *)
LEMMA AskAnswers ==
  ASSUME IInv, Places, Running,
         NEW f \in Frame, f.fn = Top.fn, f.cs = Top.cs, f.d = Top.d, f.c = Top.c,
         f.loc = Top.loc, f.pc \in Deciding, f.fn # "validate_object_property",
         NEW s \in Schema, NEW d \in Data, EnterIsValid(f, s, d),
         AskedOf(s, d) = Asked(f), Shaped(f), Sure(Top.c) => Right(f)
  PROVE  Places'
<1>0. stack # <<>> /\ exc = "none"
  BY DEF Running
<1> DEFINE h == NewFrame(Do("is_valid", s, d, 0), f.c, f.loc)
           g == [h EXCEPT !.saved = Cur.flag]
<1>1. /\ g \in Frame /\ g.c = Top.c /\ g.pc = "enter" /\ g.fn = "is_valid"
      /\ g.cs = s /\ g.d = d /\ g.i = 0 /\ g.n = 0
  <2>1. f.c \in Nat /\ f.loc \in Seq(Segment)
    BY DEF Frame
  <2>2. PICK c \in Nat, loc \in Seq(Segment), fn \in FnName :
          c = f.c /\ loc = f.loc /\ fn = "is_valid"
    BY <2>1 DEF FnName, OtherFn
  <2>3. NewFrame(Do(fn, s, d, 0), c, loc) \in Frame
    BY NewFrameType
  <2>4. h \in Frame
    BY <2>2, <2>3
  <2>5. /\ h.c = f.c /\ h.pc = "enter" /\ h.fn = "is_valid" /\ h.cs = s /\ h.d = d
        /\ h.i = 0 /\ h.n = 0
    BY DEF NewFrame, Do
  <2>6. Cur.flag \in BOOLEAN
    BY <1>0, TopFacts DEF Context
  <2> HIDE DEF h
  <2> QED BY <2>4, <2>5, <2>6 DEF Frame
<1>2. Pushed(f, g) /\ exc' = "none"
  BY <1>0 DEF EnterIsValid, Pushed
<1>3. AnswersGoOn /\ ctx'[Top.c].disturbed = Cur.disturbed
  <2>1. PICK r : r = [Cur EXCEPT !.flag = TRUE]
    OBVIOUS
  <2>2. /\ r \in Context /\ SetContext(r)
        /\ r.call = Cur.call /\ r.errors = Cur.errors /\ r.disturbed = Cur.disturbed
    BY <1>0, <2>1, TopFacts DEF Context, EnterIsValid
  <2> QED BY <1>0, <2>2, ContextGoes
<1> HIDE DEF g
<1>4. Alike(Top, f)
  BY SameQuestion
<1>5. Shaped(g) /\ Right(g)
  BY <1>1 DEF Shaped, Labelled, Right, Deciding, Counting, BranchFn
<1>6. Joined(f, g)
  BY <1>1 DEF Joined, SessionFn
<1>7. g.fn \notin CallFn
  BY <1>1 DEF CallFn
<1>8. Completes(f) /\ f.pc \notin {"block", "called"}
  BY DEF Completes, Deciding
<1>9. ~ctx'[Top.c].disturbed => Right(f)
  BY <1>3 DEF Sure, Cur
<1> QED BY <1>0, <1>1, <1>2, <1>3, <1>4, <1>5, <1>6, <1>7, <1>8, <1>9, PushAnswers
        DEF AnswersGoOn

LEMMA EnsureGoes ==
  ASSUME IInv, Places, stack # <<>>, IsValidEnsure, Top.fn = "is_valid"
  PROVE  AnswersGoOn /\ ctx'[Top.c].disturbed = Cur.disturbed
<1>1. PICK r : r = [Cur EXCEPT !.flag = Top.saved]
  OBVIOUS
<1>2. Cur \in Context /\ Top.saved \in BOOLEAN
  BY TopFacts DEF Frame
<1>3. /\ r \in Context /\ SetContext(r)
      /\ r.call = Cur.call /\ r.errors = Cur.errors /\ r.disturbed = Cur.disturbed
  BY <1>1, <1>2 DEF Context, IsValidEnsure
<1> QED BY <1>3, ContextGoes

(* The frame under an is_valid is the one that asked.                      *)
LEMMA WhoAsked ==
  ASSUME IInv, Places, stack # <<>>, Top.fn = "is_valid",
         NEW below, below = stack[Len(stack) - 1]
  PROVE  below.pc \in Deciding /\ Asked(below).cs = Top.cs /\ Asked(below).d = Top.d
<1>1. Top.fn \notin SessionFn
  BY DEF SessionFn
<1>2. /\ Len(stack) - 1 \in 1 .. Len(stack) - 1 /\ Len(stack) - 1 + 1 = Len(stack)
      /\ stack[Len(stack)] = Top
  BY <1>1, UnderTop, Depths
<1>3. Joined(below, Top)
  BY <1>2 DEF Places, Linked
<1>4. below.pc \in Deciding /\ AskedOf(Top.cs, Top.d) = Asked(below)
  BY <1>1, <1>3 DEF Joined
<1> QED BY <1>4 DEF AskedOf

LEMMA SessionAnswers ==
  ASSUME IInv, Places, SessionStep
  PROVE  Places'
<1>1. CASE Start
  <2>1. PICK call \in Calls : OpenSession(<<>>, call)
    BY <1>1 DEF Start
  <2>2. call \in Call /\ stack = <<>> /\ UNCHANGED <<ret, exc, last>>
    BY <1>1, CallsAssumption DEF Start
  <2>3. exc = "none"
    BY <2>2 DEF Places, ExitTrue
  <2>x. <<>> \in Seq(Frame)
    OBVIOUS
  <2>4. PICK base \in Seq(Frame) : base = <<>>
    BY <2>x
  <2>5. /\ Len(base) = Len(stack) /\ ~(base # <<>>)
        /\ \A j \in 1 .. Len(stack) - 1 : base[j] = stack[j]
    BY <2>2, <2>4
  <2> QED BY <2>1, <2>2, <2>3, <2>4, <2>5, OpenAnswers
<1>2. CASE ValidateReturns
  <2>1. /\ stack # <<>> /\ Top.fn \in SessionFn /\ CloseSession("nil") /\ exc' = "none"
    BY <1>2 DEF ValidateReturns, At, Running, SessionFn
  <2> QED BY <2>1, CloseAnswers
<1>3. CASE ValidReturns
  <2>1. /\ stack # <<>> /\ Top.fn \in SessionFn /\ exc' = "none"
        /\ CloseSession(IF ret THEN "true" ELSE "false")
    BY <1>3 DEF ValidReturns, At, Running, SessionFn
  <2> QED BY <2>1, CloseAnswers
<1>4. CASE ValidCalls
  <2>1. /\ Running /\ EnterIsValid([Top EXCEPT !.pc = "branch"], Top.cs, Top.d)
        /\ Top.fn = "rb_valid" /\ stack # <<>>
    BY <1>4 DEF ValidCalls, At, Running
  <2>2. PICK f : f = [Top EXCEPT !.pc = "branch"]
    OBVIOUS
  <2>3. /\ f \in Frame /\ f.fn = Top.fn /\ f.c = Top.c /\ f.cs = Top.cs /\ f.d = Top.d
        /\ f.loc = Top.loc /\ f.pc = "branch" /\ Top.cs \in Schema /\ Top.d \in Data
    BY <2>1, <2>2, TopFacts DEF Frame, Label
  <2>4. Shaped(f) /\ Right(f) /\ f.pc \in Deciding
    BY <2>1, <2>3 DEF Shaped, Labelled, Right, Deciding, Counting, BranchFn
  <2>5. AskedOf(Top.cs, Top.d) = Asked(f)
    BY <2>1, <2>3 DEF Asked, BranchFn
  <2>6. f.fn # "validate_object_property"
    BY <2>1, <2>3
  <2> QED BY <2>1, <2>2, <2>3, <2>4, <2>5, <2>6, AskAnswers
<1>5. CASE IsValidReturns
  <2>1. /\ stack # <<>> /\ exc = "none" /\ Top.fn = "is_valid" /\ IsValidEnsure
        /\ ret' = TRUE /\ Return /\ exc' = exc /\ Top.pc = "plan" /\ Top.todo = <<>>
    BY <1>5 DEF IsValidReturns, At, Running
  <2>2. PICK below : below = stack[Len(stack) - 1]
    OBVIOUS
  <2>3. below.pc \in Deciding /\ Asked(below).cs = Top.cs /\ Asked(below).d = Top.d
    BY <2>1, <2>2, WhoAsked
  <2>4. AnswersGoOn /\ ctx'[Top.c].disturbed = Cur.disturbed
    BY <2>1, EnsureGoes
  <2>5. ~ctx'[Top.c].disturbed => Conforms[Top.cs][Top.d]
    <3> SUFFICES ASSUME ~ctx'[Top.c].disturbed
                 PROVE  Conforms[Top.cs][Top.d]
      OBVIOUS
    <3>1. Len(stack) \in 1 .. Len(stack) /\ stack[Len(stack)] = Top /\ Top \in Frame
          /\ Len(stack) \in Nat \ {0}
      BY <2>1, Depths, TopFacts
    <3>2. Caught(Len(stack))
      BY <2>1, <3>1 DEF Caught, Catching
    <3>3. Hopeful(Len(stack))
      BY <2>4, <3>1, <3>2 DEF Hopeful, Sure, Cur
    <3>4. Completes(Top)
      BY <2>1, <3>3 DEF Places, TopCompletes
    <3>5. StepsOf(Top.todo) = {}
      BY <2>1 DEF StepsOf
    <3>6. Goal(Top)
      BY <2>1, <3>4, <3>5 DEF Completes
    <3> QED BY <2>1, <3>1, <3>6, BranchGoal
  <2>6. Top.fn \notin SessionFn /\ below.pc # "plan"
    BY <2>1, <2>3 DEF SessionFn, Deciding
  <2> QED BY <2>1, <2>2, <2>3, <2>4, <2>5, <2>6, ReturnAnswers DEF AnswersGoOn
<1> QED BY <1>1, <1>2, <1>3, <1>4, <1>5 DEF SessionStep

(* A plan is its first step and the rest.                                  *)
LEMMA StepsSplit ==
  ASSUME NEW todo \in Seq(Step), todo # <<>>
  PROVE  /\ Head(todo) \in Step /\ Tail(todo) \in Seq(Step)
         /\ StepsOf(todo) = {Head(todo)} \cup StepsOf(Tail(todo))
<1>1. PICK n \in Nat \ {0} : n = Len(todo)
  OBVIOUS
<1>2. /\ Head(todo) = todo[1] /\ Head(todo) \in Step /\ Tail(todo) \in Seq(Step)
      /\ Len(Tail(todo)) = n - 1
      /\ \A j \in 1 .. n - 1 : Tail(todo)[j] = todo[j + 1]
  BY <1>1
<1>3. ASSUME NEW x \in StepsOf(todo)
      PROVE  x = Head(todo) \/ x \in StepsOf(Tail(todo))
  <2>1. PICK j \in 1 .. n : x = todo[j]
    BY <1>1 DEF StepsOf
  <2>2. CASE j = 1
    BY <1>2, <2>1, <2>2
  <2>3. CASE j # 1
    <3>1. j - 1 \in 1 .. n - 1 /\ j - 1 + 1 = j
      BY <1>1, <2>3
    <3> QED BY <1>2, <2>1, <3>1 DEF StepsOf
  <2> QED BY <2>2, <2>3
<1>4. ASSUME NEW x \in StepsOf(Tail(todo))
      PROVE  x \in StepsOf(todo)
  <2>1. PICK j \in 1 .. n - 1 : x = Tail(todo)[j]
    BY <1>2 DEF StepsOf
  <2>2. j + 1 \in 1 .. n /\ x = todo[j + 1]
    BY <1>1, <1>2, <2>1
  <2> QED BY <1>1, <2>2 DEF StepsOf
<1>5. Head(todo) \in StepsOf(todo)
  <2>1. 1 \in 1 .. n
    BY <1>1
  <2> QED BY <1>1, <1>2, <2>1 DEF StepsOf
<1> QED BY <1>2, <1>3, <1>4, <1>5

(* The top frame with the first step of its plan behind it.                *)
LEMMA TopGoesOn ==
  ASSUME IInv, Places, stack # <<>>, exc = "none", Top.pc = "plan", Top.todo # <<>>,
         NEW f \in Frame, f.fn = Top.fn, f.cs = Top.cs, f.d = Top.d, f.c = Top.c,
         f.i = Top.i, f.pc = "plan", f.todo = Tail(Top.todo)
  PROVE  /\ Alike(Top, f) /\ Shaped(f) /\ f.pc \notin Deciding
         /\ Sure(Top.c) => Right(f)
         /\ Sure(Top.c) /\ Fails(Head(Top.todo)) => ~Goal(Top)
         /\ Hopeful(Len(stack)) /\ Harmless(Head(Top.todo)) => Completes(f)
<1>1. /\ Top \in Frame /\ stack[Len(stack)] = Top
      /\ Len(stack) \in 1 .. Len(stack)
  BY TopFacts, Depths
<1>2. StepsOf(Top.todo) = {Head(Top.todo)} \cup StepsOf(f.todo)
  <2>1. Top.todo \in Seq(Step)
    BY <1>1 DEF Frame
  <2> QED BY <2>1, StepsSplit
<1>3. Shaped(Top) /\ (Sure(Top.c) => Right(Top))
  BY <1>1 DEF Places, Formed
<1>4. Alike(Top, f)
  BY SameQuestion
<1>5. Goal(f) <=> Goal(Top)
  BY <1>4 DEF Alike
<1>6. Shaped(f) /\ f.pc \notin Deciding
  BY <1>3 DEF Shaped, Labelled, Deciding
<1>7. Sure(Top.c) /\ (\E step \in StepsOf(Top.todo) : Fails(step)) => ~Goal(Top)
  BY <1>3 DEF Right
<1>8. Sure(Top.c) => Right(f)
  BY <1>2, <1>5, <1>7 DEF Right
<1>9. Hopeful(Len(stack)) /\ Harmless(Head(Top.todo)) => Completes(f)
  <2>1. Hopeful(Len(stack)) => Completes(Top)
    BY DEF Places, TopCompletes
  <2> QED BY <1>2, <1>5, <2>1 DEF Completes
<1> QED BY <1>2, <1>4, <1>6, <1>7, <1>8, <1>9

(* The frame under the top one, which is not the first of a validation.    *)
LEMMA Callers ==
  ASSUME IInv, Places, stack # <<>>, Top.fn \notin SessionFn,
         NEW below, below = stack[Len(stack) - 1]
  PROVE  /\ below.c = Top.c /\ Joined(below, Top)
         /\ Caught(Len(stack) - 1) => Caught(Len(stack))
         /\ Hopeful(Len(stack) - 1) => Hopeful(Len(stack))
         /\ Top.fn # "is_valid" => below.pc = "plan"
<1>1. /\ Len(stack) - 1 \in 1 .. Len(stack) - 1 /\ Len(stack) - 1 + 1 = Len(stack)
      /\ stack[Len(stack)] = Top /\ below.c = Top.c
  BY UnderTop, Depths
<1>2. Joined(below, Top)
  BY <1>1 DEF Places, Linked
<1>3. Caught(Len(stack) - 1) => Caught(Len(stack))
  <2>1. \A k \in 1 .. Len(stack) - 1 : k \in 1 .. Len(stack)
    BY Depths
  <2> QED BY <1>1, <2>1 DEF Caught
<1>4. Hopeful(Len(stack) - 1) => Hopeful(Len(stack))
  BY <1>1, <1>3 DEF Hopeful
<1> QED BY <1>1, <1>2, <1>3, <1>4 DEF Joined

LEMMA PlanAnswers ==
  ASSUME IInv, Places, PlanStep
  PROVE  Places'
<1>0. stack # <<>> /\ exc = "none" /\ Running
  BY DEF PlanStep, Enter, Perform, PassOver, RaiseError, IncrContext, DecrContext,
         AddToContext, PlanReturns, Pending, Running
<1>1. /\ Top \in Frame /\ Cur \in Context /\ stack[Len(stack)] = Top
      /\ Len(stack) \in 1 .. Len(stack) /\ Top.c \in 1 .. Len(ctx)
  BY <1>0, TopFacts, Depths
<1>2. Formed(Len(stack)) /\ Answering(Len(stack))
  BY <1>1 DEF Places
<1>3. ASSUME UNCHANGED ctx
      PROVE  AnswersGoOn /\ ctx'[Top.c].disturbed = Cur.disturbed
  BY <1>3, ContextSame DEF Cur
<1>4. ASSUME NEW do, Pending(do)
      PROVE  /\ Top.pc = "plan" /\ Top.todo # <<>> /\ Head(Top.todo).do \in do
             /\ Head(Top.todo) \in Step
             /\ \A f : f = Advanced =>
                  /\ f \in Frame /\ f.fn = Top.fn /\ f.cs = Top.cs /\ f.d = Top.d
                  /\ f.c = Top.c /\ f.i = Top.i /\ f.pc = "plan"
                  /\ f.todo = Tail(Top.todo) /\ f.loc = Top.loc
  <2>1. Top.todo \in Seq(Step) /\ Top.todo # <<>> /\ Top.pc = "plan"
        /\ Head(Top.todo).do \in do
    BY <1>1, <1>4 DEF Frame, Pending
  <2>2. Head(Top.todo) \in Step /\ Tail(Top.todo) \in Seq(Step)
    BY <2>1, StepsSplit
  <2> QED BY <1>1, <2>1, <2>2 DEF Advanced, Frame
<1>5. ASSUME NEW do \in {"skip"} \cup PathOp, Pending({do}), NEW f \in Frame, Goto(f),
             f.fn = Top.fn, f.cs = Top.cs, f.d = Top.d, f.c = Top.c, f.i = Top.i,
             f.pc = "plan", f.todo = Tail(Top.todo),
             AnswersGoOn, ctx'[Top.c].disturbed = Cur.disturbed,
             exc' \in {"none", "raise", "overrun"}
      PROVE  Places'
  <2>1. Top.pc = "plan" /\ Top.todo # <<>> /\ Head(Top.todo).do = do
    BY <1>4, <1>5
  <2>2. Harmless(Head(Top.todo))
    <3>1. do \in {"skip", "raise"} \cup PathOp /\ do # "raise"
      BY <1>5 DEF PathOp
    <3> QED BY <2>1, <3>1, QuietSteps
  <2>3. /\ Alike(Top, f) /\ Shaped(f) /\ f.pc \notin Deciding
        /\ Sure(Top.c) => Right(f)
        /\ Hopeful(Len(stack)) => Completes(f)
    BY <1>0, <1>5, <2>1, <2>2, TopGoesOn
  <2>4. ~ctx'[Top.c].disturbed => Right(f)
    BY <1>5, <2>3 DEF Sure, Cur
  <2>5. ExitTrue'
    <3>1. stack' # <<>>
      BY <1>0, <1>5, ReplaceFacts DEF Goto, IInv, TypeOK
    <3> QED BY <1>5, <3>1 DEF ExitTrue
  <2>6. ~(f.fn = "yield_error" /\ f.pc \in {"block", "called"})
    BY <1>5
  <2> QED BY <1>0, <1>5, <2>3, <2>4, <2>5, <2>6, GotoAnswers DEF AnswersGoOn
<1>6. CASE Enter
  <2>1. UNCHANGED <<ctx, ret, exc, last>> /\ Top.pc = "enter"
    BY <1>6 DEF Enter
  <2>2. CASE Top.fn \in DecidingFn
    <3>1. PICK f : f = [Top EXCEPT !.pc = "loop"]
      OBVIOUS
    <3>2. /\ f \in Frame /\ f.fn = Top.fn /\ f.cs = Top.cs /\ f.d = Top.d /\ f.c = Top.c
          /\ f.i = Top.i /\ f.n = Top.n /\ f.pc = "loop"
      BY <1>1, <3>1 DEF Frame, Label
    <3>3. Goto(f)
      BY <1>6, <2>2, <3>1 DEF Enter
    <3>4. Shaped(f) /\ Right(f)
      <4>1. f.fn \in Counting => f.i = 0 /\ f.n = 0
        BY <1>1, <1>2, <2>1, <3>2 DEF Formed, Shaped
      <4>2. Choices(f) \in Nat
        BY <3>2, ChoicesNumber
      <4>3. f.fn \in Counting => Counted(f)
        <5>1. f.fn \in Counting => {j \in 1 .. Tried(f) : Holds(f, j)} = {}
          BY <3>2, <4>1 DEF Tried
        <5> QED BY <4>1, <5>1, FS_EmptySet DEF Counted
      <4> QED BY <2>2, <3>2, <4>1, <4>2, <4>3 DEF Shaped, Labelled, Right, Deciding
    <3>5. Alike(Top, f)
      BY <3>2, SameQuestion
    <3>6. f.pc \notin Deciding /\ Completes(f) /\ f.pc \notin {"block", "called"}
      BY <3>2 DEF Deciding, Completes
    <3>7. ExitTrue'
      BY <1>0, <2>1 DEF ExitTrue
    <3> QED BY <1>0, <1>3, <2>1, <3>2, <3>3, <3>4, <3>5, <3>6, <3>7, GotoAnswers
            DEF AnswersGoOn
  <2>3. CASE Top.fn \notin DecidingFn
    <3>1. PICK fn, s, d, i : fn = Top.fn /\ s = Top.cs /\ d = Top.d /\ i = Top.i
      OBVIOUS
    <3>2. fn \in FnName \ DecidingFn /\ s \in Schema /\ d \in Data /\ i \in Nat
      BY <1>1, <2>3, <3>1 DEF Frame
    <3>3. Plan(fn, s, d, i) \in Seq(Step)
      BY <3>2, PlanType
    <3>4. Tells(Plan(fn, s, d, i), Accepts(fn, s, d, i))
      BY <3>2, PlanTells
    <3>5. PICK plan \in Seq(Step) : plan = Plan(fn, s, d, i)
      BY <3>3
    <3>6. (\E step \in StepsOf(plan) : Fails(step)) => ~Goal(Top)
      BY <3>1, <3>4, <3>5 DEF Tells, Goal
    <3>7. (\A step \in StepsOf(plan) : Harmless(step)) => Goal(Top)
      BY <3>1, <3>4, <3>5 DEF Tells, Goal
    <3>8. Tells(plan, Goal(Top))
      BY <3>6, <3>7 DEF Tells
    <3>9. Conclude(Top, plan) /\ Top.fn \notin {"rb_valid", "yield_error"}
      BY <1>6, <2>3, <3>1, <3>5 DEF Enter, DecidingFn
    <3> QED BY <1>0, <1>3, <2>1, <3>8, <3>9, ConcludeAnswers
  <2> QED BY <2>2, <2>3
<1>7. CASE Perform
  <2>1. /\ Pending(CallFn) /\ CallStep(Advanced, Head(Top.todo))
        /\ UNCHANGED <<ctx, ret, exc, last>>
    BY <1>7 DEF Perform
  <2>2. PICK f, g, x : f = Advanced /\ x = Head(Top.todo) /\ g = NewFrame(x, f.c, f.loc)
    OBVIOUS
  <2>3. /\ f \in Frame /\ f.fn = Top.fn /\ f.cs = Top.cs /\ f.d = Top.d /\ f.c = Top.c
        /\ f.i = Top.i /\ f.pc = "plan" /\ f.todo = Tail(Top.todo)
        /\ x \in Step /\ x.do \in CallFn /\ Top.pc = "plan" /\ Top.todo # <<>>
    BY <1>4, <2>1, <2>2
  <2>4. /\ g.c = Top.c /\ g.pc = "enter" /\ g.fn = x.do /\ g.cs = x.cs /\ g.d = x.d
        /\ g.i = x.i /\ g.n = 0
    BY <2>2, <2>3 DEF NewFrame
  <2>5. g \in Frame
    <3>1. /\ x.cs \in Schema /\ x.d \in Data /\ x.err \in ErrorType /\ x.i \in Nat
          /\ f.c \in Nat /\ f.loc \in Seq(Segment)
          /\ x.do \in FnName /\ "enter" \in Label
      BY <2>3 DEF Step, Frame, CallFn, Label
    <3>2. <<>> \in Seq(Step)
      OBVIOUS
    <3> QED BY <2>2, <3>1, <3>2 DEF NewFrame, Frame
  <2>6. g.fn \in CallFn /\ g.fn \notin SessionFn /\ g.fn # "is_valid"
    BY <2>3, <2>4 DEF CallFn, SessionFn
  <2>7. Pushed(f, g)
    BY <2>1, <2>2 DEF CallStep, Pushed
  <2>8. /\ Alike(Top, f) /\ Shaped(f)
        /\ Sure(Top.c) => Right(f)
        /\ Sure(Top.c) /\ Fails(x) => ~Goal(Top)
        /\ Hopeful(Len(stack)) /\ Harmless(x) => Completes(f)
    BY <1>0, <2>2, <2>3, TopGoesOn
  <2>9. (Fails(x) <=> ~Goal(g)) /\ (Harmless(x) <=> Goal(g))
    BY <2>3, <2>4, CallFns DEF Fails, Harmless, Goal
  <2>10. Shaped(g) /\ Right(g)
    <3>1. g.fn \in Counting => g.i = 0
      BY <2>3, <2>4 DEF Step, Counting, BranchFn
    <3>2. Choices(g) \in Nat
      BY <2>5, ChoicesNumber
    <3>3. g.fn \in Counting => Counted(g)
      <4>1. g.fn \in Counting => {j \in 1 .. Tried(g) : Holds(g, j)} = {}
        BY <2>4, <3>1 DEF Tried
      <4> QED BY <2>4, <4>1, FS_EmptySet DEF Counted
    <3> QED BY <2>4, <3>1, <3>2, <3>3 DEF Shaped, Labelled, Right, Deciding
  <2>11. Joined(f, g)
    BY <2>3, <2>6 DEF Joined
  <2>12. Top.fn \in SessionFn => ctx[Top.c].call.fn = "rb_validate"
    <3>1. Top.fn # "rb_valid"
      BY <1>1, <1>2, <2>3 DEF Formed, Shaped, Labelled
    <3> QED BY <1>1, <1>2, <3>1 DEF Answering, SessionFn
  <2>13. Goal(f) <=> Goal(Top)
    BY <2>8 DEF Alike
  <2>14. ~ctx'[Top.c].disturbed <=> Sure(Top.c)
    BY <2>1 DEF Sure
  <2>15. /\ ~ctx'[Top.c].disturbed /\ ~Goal(g) => ~Goal(f)
         /\ ~ctx'[Top.c].disturbed /\ Hopeful(Len(stack)) /\ Goal(g) => Completes(f)
         /\ ~ctx'[Top.c].disturbed => Right(f)
    BY <2>8, <2>9, <2>13, <2>14
  <2>16. f.pc \notin {"block", "called"} /\ exc' = "none" /\ AnswersGoOn
    BY <1>0, <1>3, <2>1, <2>3
  <2> QED BY <1>0, <2>3, <2>4, <2>5, <2>6, <2>7, <2>8, <2>10, <2>11, <2>12, <2>15, <2>16,
             PushAnswers DEF AnswersGoOn
<1>8. CASE PassOver
  <2>1. Pending({"skip"}) /\ Goto(Advanced) /\ UNCHANGED <<ctx, ret, exc, last>>
    BY <1>8 DEF PassOver
  <2>2. PICK f : f = Advanced
    OBVIOUS
  <2>3. /\ f \in Frame /\ f.fn = Top.fn /\ f.cs = Top.cs /\ f.d = Top.d /\ f.c = Top.c
        /\ f.i = Top.i /\ f.pc = "plan" /\ f.todo = Tail(Top.todo)
    BY <1>4, <2>1, <2>2
  <2> QED BY <1>0, <1>3, <1>5, <2>1, <2>2, <2>3
<1>9. CASE RaiseError
  <2>1. exc' = "raise" /\ UNCHANGED <<stack, ctx>>
    BY <1>9 DEF RaiseError
  <2> QED BY <1>0, <2>1, ExitAnswers
<1>10. CASE IncrContext
  <2>1. /\ Pending({"INCR_CONTEXT"})
        /\ Goto([Advanced EXCEPT !.loc = Append(@, Nil)])
        /\ SetContext([Cur EXCEPT !.depth = @ + 1])
        /\ exc' \in {"none", "raise"}
    BY <1>10 DEF IncrContext
  <2>2. PICK a, f, r : /\ a = Advanced /\ f = [a EXCEPT !.loc = Append(a.loc, Nil)]
                       /\ r = [Cur EXCEPT !.depth = @ + 1]
    OBVIOUS
  <2>3. /\ a \in Frame /\ a.fn = Top.fn /\ a.cs = Top.cs /\ a.d = Top.d /\ a.c = Top.c
        /\ a.i = Top.i /\ a.pc = "plan" /\ a.todo = Tail(Top.todo)
    BY <1>4, <2>1, <2>2
  <2>4. /\ f \in Frame /\ f.fn = Top.fn /\ f.cs = Top.cs /\ f.d = Top.d /\ f.c = Top.c
        /\ f.i = Top.i /\ f.pc = "plan" /\ f.todo = Tail(Top.todo)
    <3>1. Append(a.loc, Nil) \in Seq(Segment)
      BY <2>3 DEF Frame, Segment
    <3> QED BY <2>2, <2>3, <3>1 DEF Frame
  <2>5. /\ r \in Context /\ SetContext(r)
        /\ r.call = Cur.call /\ r.errors = Cur.errors /\ r.disturbed = Cur.disturbed
    <3>1. SetContext(r)
      BY <2>1, <2>2
    <3>2. r \in Context
      <4>1. PICK depth \in Int : depth = Cur.depth + 1
        BY <1>1 DEF Context
      <4> QED BY <1>1, <2>2, <4>1 DEF Context
    <3>3. r.call = Cur.call /\ r.errors = Cur.errors /\ r.disturbed = Cur.disturbed
      BY <1>1, <2>2 DEF Context
    <3> QED BY <3>1, <3>2, <3>3
  <2>6. AnswersGoOn /\ ctx'[Top.c].disturbed = Cur.disturbed
    BY <1>0, <2>5, ContextGoes
  <2>7. Goto(f) /\ "INCR_CONTEXT" \in PathOp
    BY <2>1, <2>2 DEF PathOp
  <2> QED BY <1>5, <2>1, <2>4, <2>6, <2>7
<1>11. CASE DecrContext
  <2>1. /\ Pending({"DECR_CONTEXT"}) /\ exc' = exc
        /\ Goto([Advanced EXCEPT !.loc = SubSeq(@, 1, Len(@) - 1)])
        /\ SetContext([Cur EXCEPT !.depth = @ - 1])
    BY <1>11 DEF DecrContext
  <2>2. PICK a, f, r : /\ a = Advanced /\ f = [a EXCEPT !.loc = SubSeq(a.loc, 1, Len(a.loc) - 1)]
                       /\ r = [Cur EXCEPT !.depth = @ - 1]
    OBVIOUS
  <2>3. /\ a \in Frame /\ a.fn = Top.fn /\ a.cs = Top.cs /\ a.d = Top.d /\ a.c = Top.c
        /\ a.i = Top.i /\ a.pc = "plan" /\ a.todo = Tail(Top.todo)
    BY <1>4, <2>1, <2>2
  <2>4. /\ f \in Frame /\ f.fn = Top.fn /\ f.cs = Top.cs /\ f.d = Top.d /\ f.c = Top.c
        /\ f.i = Top.i /\ f.pc = "plan" /\ f.todo = Tail(Top.todo)
    <3>1. SubSeq(a.loc, 1, Len(a.loc) - 1) \in Seq(Segment)
      BY <2>3, FrontType DEF Frame
    <3> QED BY <2>2, <2>3, <3>1 DEF Frame
  <2>5. /\ r \in Context /\ SetContext(r)
        /\ r.call = Cur.call /\ r.errors = Cur.errors /\ r.disturbed = Cur.disturbed
    <3>1. SetContext(r)
      BY <2>1, <2>2
    <3>2. r \in Context
      <4>1. PICK depth \in Int : depth = Cur.depth - 1
        BY <1>1 DEF Context
      <4> QED BY <1>1, <2>2, <4>1 DEF Context
    <3>3. r.call = Cur.call /\ r.errors = Cur.errors /\ r.disturbed = Cur.disturbed
      BY <1>1, <2>2 DEF Context
    <3> QED BY <3>1, <3>2, <3>3
  <2>6. AnswersGoOn /\ ctx'[Top.c].disturbed = Cur.disturbed
    BY <1>0, <2>5, ContextGoes
  <2>7. Goto(f) /\ "DECR_CONTEXT" \in PathOp
    BY <2>1, <2>2 DEF PathOp
  <2> QED BY <1>0, <1>5, <2>1, <2>4, <2>6, <2>7
<1>12. CASE AddToContext
  <2>1. PICK seg : /\ seg = Head(Top.todo).at
                   /\ Goto([Advanced EXCEPT !.loc = Append(SubSeq(@, 1, Len(@) - 1), seg)])
                   /\ IF Cur.depth \in 0 .. MaxDepth - 1
                        THEN SetContext([Cur EXCEPT !.path[Cur.depth] = seg]) /\ exc' = exc
                        ELSE ctx' = ctx /\ exc' = "overrun"
    BY <1>12 DEF AddToContext
  <2>2. Pending({"ADD_TO_CONTEXT"})
    BY <1>12 DEF AddToContext
  <2>3. PICK a, f : /\ a = Advanced
                    /\ f = [a EXCEPT !.loc = Append(SubSeq(a.loc, 1, Len(a.loc) - 1), seg)]
    OBVIOUS
  <2>4. /\ a \in Frame /\ a.fn = Top.fn /\ a.cs = Top.cs /\ a.d = Top.d /\ a.c = Top.c
        /\ a.i = Top.i /\ a.pc = "plan" /\ a.todo = Tail(Top.todo) /\ seg \in Segment
    BY <1>4, <2>1, <2>2, <2>3 DEF Step
  <2>5. /\ f \in Frame /\ f.fn = Top.fn /\ f.cs = Top.cs /\ f.d = Top.d /\ f.c = Top.c
        /\ f.i = Top.i /\ f.pc = "plan" /\ f.todo = Tail(Top.todo)
    <3>1. SubSeq(a.loc, 1, Len(a.loc) - 1) \in Seq(Segment)
      BY <2>4, FrontType DEF Frame
    <3>2. Append(SubSeq(a.loc, 1, Len(a.loc) - 1), seg) \in Seq(Segment)
      BY <2>4, <3>1
    <3> QED BY <2>3, <2>4, <3>2 DEF Frame
  <2>6. AnswersGoOn /\ ctx'[Top.c].disturbed = Cur.disturbed
    <3>1. CASE Cur.depth \in 0 .. MaxDepth - 1
      <4>1. PICK r : r = [Cur EXCEPT !.path[Cur.depth] = seg]
        OBVIOUS
      <4>2. /\ r \in Context /\ SetContext(r)
            /\ r.call = Cur.call /\ r.errors = Cur.errors /\ r.disturbed = Cur.disturbed
        BY <1>1, <2>1, <2>4, <3>1, <4>1 DEF Context
      <4> QED BY <1>0, <4>2, ContextGoes
    <3>2. CASE Cur.depth \notin 0 .. MaxDepth - 1
      BY <1>3, <2>1, <3>2
    <3> QED BY <3>1, <3>2
  <2>7. Goto(f) /\ exc' \in {"none", "overrun"} /\ "ADD_TO_CONTEXT" \in PathOp
    BY <1>0, <2>1, <2>3 DEF PathOp
  <2> QED BY <1>5, <2>2, <2>5, <2>6, <2>7
<1>13. CASE PlanReturns
  <2>1. /\ Top.fn \notin SessionFn /\ Top.fn # "is_valid" /\ Return
        /\ Top.pc = "plan" /\ Top.todo = <<>>
        /\ UNCHANGED <<ctx, ret, exc, last>>
    BY <1>13 DEF PlanReturns
  <2>2. PICK below : below = stack[Len(stack) - 1]
    OBVIOUS
  <2>3. /\ Hopeful(Len(stack) - 1) => Hopeful(Len(stack))
        /\ below.pc = "plan"
    BY <1>0, <2>1, <2>2, Callers
  <2>4. Hopeful(Len(stack)) => Goal(Top)
    <3>1. StepsOf(Top.todo) = {}
      BY <2>1 DEF StepsOf
    <3> QED BY <1>0, <2>1, <3>1 DEF Places, TopCompletes, Completes
  <2>5. below.pc \notin Deciding
    BY <2>3 DEF Deciding
  <2> QED BY <1>0, <1>3, <2>1, <2>2, <2>3, <2>4, <2>5, ReturnAnswers DEF AnswersGoOn
<1> QED BY <1>6, <1>7, <1>8, <1>9, <1>10, <1>11, <1>12, <1>13 DEF PlanStep

(* The choices are the function's, its schema's and its value's.           *)
LEMMA SameChoices ==
  ASSUME NEW f, NEW g, g.fn = f.fn, g.cs = f.cs, g.d = f.d
  PROVE  /\ BranchList(g) = BranchList(f) /\ Choices(g) = Choices(f)
         /\ \A j : Holds(g, j) = Holds(f, j)
         /\ Tried(g) = Tried(f) /\ g.n = f.n => (Counted(g) <=> Counted(f))
<1>1. BranchList(g) = BranchList(f)
  BY DEF BranchList
<1>2. Choices(g) = Choices(f) /\ \A j : Holds(g, j) = Holds(f, j)
  BY <1>1 DEF Choices, Holds
<1>3. Tried(g) = Tried(f) =>
        {j \in 1 .. Tried(g) : Holds(g, j)} = {j \in 1 .. Tried(f) : Holds(f, j)}
  BY <1>2
<1>4. Tried(g) = Tried(f) /\ g.n = f.n => (Counted(g) <=> Counted(f))
  BY <1>3 DEF Counted
<1> QED BY <1>1, <1>2, <1>4

(* The loop counts the branch or item that is_valid has answered for.      *)
LEMMA CountedNext ==
  ASSUME NEW f \in Frame, NEW g \in Frame, g.fn = f.fn, g.cs = f.cs, g.d = f.d, g.i = f.i,
         f.fn \in Counting, f.pc = "branch", f.i > 0, f.i <= Choices(f), Counted(f),
         g.pc = "loop", NEW b \in BOOLEAN, b <=> Conforms[Asked(f).cs][Asked(f).d],
         g.n = IF b THEN f.n + 1 ELSE f.n
  PROVE  Counted(g)
<1>1. PICK l \in Nat : l = f.i - 1 /\ l + 1 = f.i
  BY DEF Frame
<1>2. Tried(f) = l /\ Tried(g) = l + 1 /\ l + 1 \in Nat
  BY <1>1 DEF Tried
<1>3. l <= Choices(f) /\ l + 1 <= Choices(f) /\ l + 1 \in 1 .. Choices(f)
  BY <1>1, ChoicesNumber
<1>4. {j \in 1 .. l : Holds(f, j)} = {j \in 1 .. l : j \in Good(f)}
  BY <1>3, CountedGood
<1>5. {j \in 1 .. l + 1 : Holds(f, j)} = {j \in 1 .. l + 1 : j \in Good(f)}
  BY <1>2, <1>3, CountedGood
<1>6. b <=> l + 1 \in Good(f)
  <2>1. b <=> Holds(f, l + 1)
    <3>1. CASE f.fn = "validate_contains"
      <4>1. Asked(f) = AskedOf(Compiled[f.cs].sub["contains"], Doc[f.d].items[l + 1])
        BY <1>1, <3>1 DEF Asked, BranchFn
      <4>2. /\ Asked(f).cs = Compiled[f.cs].sub["contains"]
            /\ Asked(f).d = Doc[f.d].items[l + 1]
        BY <4>1 DEF AskedOf
      <4>3. Holds(f, l + 1) = Conforms[Compiled[f.cs].sub["contains"]][Doc[f.d].items[l + 1]]
        BY <3>1 DEF Holds
      <4> QED BY <4>2, <4>3
    <3>2. CASE f.fn \in BranchFn
      <4>1. Asked(f) = AskedOf(BranchList(f)[l + 1], f.d) /\ f.fn # "validate_contains"
        BY <1>1, <3>2 DEF Asked, BranchFn
      <4>2. Asked(f).cs = BranchList(f)[l + 1] /\ Asked(f).d = f.d
        BY <4>1 DEF AskedOf
      <4>3. Holds(f, l + 1) = Conforms[BranchList(f)[l + 1]][f.d]
        BY <4>1 DEF Holds
      <4> QED BY <4>2, <4>3
    <3> QED BY <3>1, <3>2 DEF Counting
  <2> QED BY <1>3, <2>1 DEF Good
<1>7. PICK good : good = Good(f)
  OBVIOUS
<1>8. Cardinality({j \in 1 .. l + 1 : j \in good}) =
        IF l + 1 \in good THEN Cardinality({j \in 1 .. l : j \in good}) + 1
                          ELSE Cardinality({j \in 1 .. l : j \in good})
  BY CountNext
<1>9. f.n = Cardinality({j \in 1 .. l : j \in good})
  BY <1>2, <1>4, <1>7 DEF Counted
<1>10. g.n = Cardinality({j \in 1 .. l + 1 : j \in good})
  BY <1>6, <1>7, <1>8, <1>9
<1>11. {j \in 1 .. l + 1 : Holds(g, j)} = {j \in 1 .. l + 1 : j \in good}
  <2>1. \A j : Holds(g, j) = Holds(f, j)
    BY SameChoices
  <2> QED BY <1>5, <1>7, <2>1
<1> QED BY <1>2, <1>10, <1>11 DEF Counted

LEMMA CombinatorAnswers ==
  ASSUME IInv, Places, CombinatorStep
  PROVE  Places'
<1>0. stack # <<>> /\ exc = "none" /\ Running /\ Top.fn \in Combinator
  BY DEF CombinatorStep, TryBranch, CountBranch, EndBranches, TryItem, EndContains,
         TryNot, EndNot, TryIf, TryChosen, NothingChosen, EndIf, At, Running, BranchFn,
         Combinator
<1>1. /\ Top \in Frame /\ ret \in BOOLEAN /\ Top.cs \in Schema /\ Top.d \in Data
      /\ Top.i \in Nat /\ Top.n \in Nat /\ Compiled[Top.cs] \in Struct
  <2>1. Top \in Frame /\ ret \in BOOLEAN
    BY <1>0, TopFacts DEF IInv, TypeOK
  <2> QED BY <2>1, StructType DEF Frame
<1>2. Shaped(Top) /\ (Sure(Top.c) => Right(Top))
  <2>1. stack[Len(stack)] = Top /\ Len(stack) \in 1 .. Len(stack)
    BY <1>0, Depths
  <2> QED BY <2>1 DEF Places, Formed
<1>3. \A k \in SubKeyword : Compiled[Top.cs].sub[k] \in Schema
  BY <1>1 DEF Struct
<1>a. Top.pc \in Deciding /\ Sure(Top.c) => (ret <=> Conforms[Asked(Top).cs][Asked(Top).d])
  BY <1>0 DEF Places, ReturnTrue
<1>4. ASSUME NEW plan \in Seq(Step), Conclude(Top, plan), UNCHANGED <<ctx, ret, exc, last>>,
             Sure(Top.c) => Tells(plan, Goal(Top))
      PROVE  Places'
  <2>1. AnswersGoOn /\ exc' = "none"
    BY <1>0, <1>4, ContextSame
  <2>2. ~ctx'[Top.c].disturbed => Tells(plan, Goal(Top))
    BY <1>4 DEF Sure
  <2>3. Top.fn \notin {"rb_valid", "yield_error"}
    BY <1>0 DEF Combinator
  <2> QED BY <1>0, <1>4, <2>1, <2>2, <2>3, ConcludeAnswers
<1>5. ASSUME NEW k \in Deciding
      PROVE  \A f : f = [Top EXCEPT !.pc = k] =>
               /\ f \in Frame /\ f.fn = Top.fn /\ f.cs = Top.cs /\ f.d = Top.d /\ f.c = Top.c
               /\ f.loc = Top.loc /\ f.pc = k /\ f.i = Top.i /\ f.n = Top.n
  <2>1. k \in Label
    BY DEF Label, Deciding
  <2> QED BY <1>1, <2>1 DEF Frame
<1>6. ASSUME NEW f \in Frame, f.fn = Top.fn, f.cs = Top.cs, f.d = Top.d, f.c = Top.c,
             f.loc = Top.loc, f.pc \in Deciding,
             NEW s \in Schema, NEW d \in Data, EnterIsValid(f, s, d),
             AskedOf(s, d) = Asked(f), Shaped(f), Sure(Top.c) => Right(f)
      PROVE  Places'
  <2>1. f.fn # "validate_object_property"
    BY <1>0, <1>6 DEF Combinator
  <2> QED BY <1>0, <1>6, <2>1, AskAnswers
<1>t. {"branch", "then", "else"} = Deciding
  BY DEF Deciding
<1>s. ASSUME NEW i \in Nat, i = Top.i + 1, NEW f, f = [Top EXCEPT !.pc = "branch", !.i = i],
             Top.fn \in Counting, Top.pc = "loop", i <= Choices(Top)
      PROVE  Shaped(f) /\ (Sure(Top.c) => Right(f))
  <2>1. /\ f \in Frame /\ f.fn = Top.fn /\ f.cs = Top.cs /\ f.d = Top.d /\ f.c = Top.c
        /\ f.loc = Top.loc /\ f.pc = "branch" /\ f.i = i /\ f.n = Top.n
    BY <1>1, <1>s DEF Frame, Label
  <2>2. Choices(f) = Choices(Top)
    BY <2>1, SameChoices
  <2>3. Tried(f) = Tried(Top)
    BY <1>1, <1>s, <2>1 DEF Tried
  <2>4. Counted(f) <=> Counted(Top)
    BY <2>1, <2>3, SameChoices
  <2>5. Shaped(f)
    <3>1. i > 0
      BY <1>1, <1>s
    <3> QED BY <1>0, <1>s, <2>1, <2>2, <3>1 DEF Shaped, Labelled, Deciding, Combinator
  <2>6. Sure(Top.c) => Counted(Top)
    BY <1>2, <1>s DEF Right
  <2> QED BY <2>1, <2>4, <2>5, <2>6 DEF Right
<1>7. CASE TryBranch
  <2>1. PICK i, s : i = Top.i + 1 /\ s = BranchList(Top)[i]
    OBVIOUS
  <2>2. PICK f : f = [Top EXCEPT !.pc = "branch", !.i = i]
    OBVIOUS
  <2>3. /\ EnterIsValid(f, s, Top.d) /\ Top.i < Len(BranchList(Top))
        /\ Top.fn \in BranchFn /\ Top.pc = "loop"
    BY <1>7, <2>1, <2>2 DEF TryBranch, At
  <2>4. s \in Schema /\ i \in Nat /\ i <= Len(BranchList(Top))
    <3>1. BranchList(Top) \in Seq(Schema)
      BY <1>1, BranchListType
    <3>2. i \in 1 .. Len(BranchList(Top)) /\ i \in Nat
      BY <1>1, <2>1, <2>3, <3>1
    <3> QED BY <2>1, <3>1, <3>2
  <2>5. i <= Choices(Top) /\ Top.fn \in Counting
    BY <2>3, <2>4 DEF Choices, BranchFn, Counting
  <2>6. Shaped(f) /\ (Sure(Top.c) => Right(f))
    BY <1>s, <2>1, <2>2, <2>3, <2>4, <2>5
  <2>7. /\ f \in Frame /\ f.fn = Top.fn /\ f.cs = Top.cs /\ f.d = Top.d /\ f.c = Top.c
        /\ f.loc = Top.loc /\ f.pc = "branch" /\ f.i = i
    BY <1>1, <2>2, <2>4 DEF Frame, Label
  <2>8. AskedOf(s, Top.d) = Asked(f)
    <3>1. BranchList(f) = BranchList(Top)
      BY <2>7, SameChoices
    <3>2. Asked(f) = AskedOf(BranchList(f)[f.i], f.d)
      BY <2>3, <2>7 DEF Asked, BranchFn
    <3> QED BY <2>1, <2>7, <3>1, <3>2
  <2> QED BY <1>1, <1>6, <1>t, <2>3, <2>4, <2>6, <2>7, <2>8
<1>8. CASE CountBranch
  <2>1. /\ Goto([Top EXCEPT !.pc = "loop", !.n = IF ret THEN @ + 1 ELSE @])
        /\ UNCHANGED <<ctx, ret, exc, last>>
        /\ Top.fn \in Counting /\ Top.pc = "branch"
    BY <1>8 DEF CountBranch, At, Counting
  <2>2. PICK f : f = [Top EXCEPT !.pc = "loop", !.n = IF ret THEN Top.n + 1 ELSE Top.n]
    OBVIOUS
  <2>3. /\ f \in Frame /\ f.fn = Top.fn /\ f.cs = Top.cs /\ f.d = Top.d /\ f.c = Top.c
        /\ f.pc = "loop" /\ f.i = Top.i /\ f.n = IF ret THEN Top.n + 1 ELSE Top.n
    <3>1. PICK m \in Nat : m = IF ret THEN Top.n + 1 ELSE Top.n
      BY <1>1
    <3> QED BY <1>1, <2>2, <3>1 DEF Frame, Label
  <2>4. Goto(f) /\ exc' = "none" /\ AnswersGoOn
    BY <1>0, <2>1, <2>2, ContextSame
  <2>5. Top.i <= Choices(Top) /\ Top.i > 0
    BY <1>2, <2>1 DEF Shaped
  <2>6. Shaped(f)
    <3>1. Choices(f) = Choices(Top)
      BY <2>3, SameChoices
    <3>2. Top.fn \in DecidingFn /\ Top.fn \in Combinator /\ Top.fn \notin {"rb_valid", "yield_error"}
      BY <1>0 DEF DecidingFn, Combinator
    <3> QED BY <2>3, <2>5, <3>1, <3>2 DEF Shaped, Labelled, Deciding
  <2>7. Sure(Top.c) => Right(f)
    <3> SUFFICES ASSUME Sure(Top.c)
                 PROVE  Counted(f)
      BY <2>3 DEF Right
    <3>1. Counted(Top) /\ (ret <=> Conforms[Asked(Top).cs][Asked(Top).d])
      BY <1>2, <1>a, <1>t, <2>1 DEF Right
    <3> QED BY <1>1, <2>1, <2>3, <2>5, <3>1, CountedNext
  <2>8. Alike(Top, f)
    BY <2>3, SameQuestion
  <2>9. f.pc \notin Deciding /\ Completes(f) /\ ~(f.fn = "yield_error" /\ f.pc \in {"block", "called"})
    BY <2>3 DEF Deciding, Completes
  <2>10. ExitTrue' /\ (~ctx'[Top.c].disturbed => Right(f))
    BY <2>1, <2>4, <2>7 DEF ExitTrue, Sure
  <2> QED BY <1>0, <2>3, <2>4, <2>6, <2>8, <2>9, <2>10, GotoAnswers DEF AnswersGoOn
<1>9. CASE EndBranches
  <2>1. /\ Conclude(Top, Verdict(Top)) /\ UNCHANGED <<ctx, ret, exc, last>>
        /\ Top.fn \in BranchFn /\ Top.pc = "loop"
        /\ Decided(Top) \/ Top.i = Len(BranchList(Top))
    BY <1>9 DEF EndBranches, At
  <2>2. Verdict(Top) \in Seq(Step)
    BY <1>1, VerdictType, PlainSteps
  <2>3. Sure(Top.c) => Tells(Verdict(Top), Goal(Top))
    <3>1. Top.fn \in Counting
      BY <2>1 DEF Counting
    <3>2. Top.i <= Choices(Top) /\ (Sure(Top.c) => Counted(Top))
      BY <1>2, <2>1, <3>1 DEF Shaped, Right
    <3> QED BY <1>1, <2>1, <3>2, VerdictTells
  <2> QED BY <1>4, <2>1, <2>2, <2>3
<1>10. CASE TryItem
  <2>1. PICK i, d : i = Top.i + 1 /\ d = Doc[Top.d].items[i]
    OBVIOUS
  <2>2. PICK f, s : /\ f = [Top EXCEPT !.pc = "branch", !.i = i]
                    /\ s = Compiled[Top.cs].sub["contains"]
    OBVIOUS
  <2>3. /\ EnterIsValid(f, s, d) /\ Top.i < Len(Doc[Top.d].items)
        /\ Top.fn = "validate_contains" /\ Top.pc = "loop"
    BY <1>10, <2>1, <2>2 DEF TryItem, At
  <2>4. d \in Data /\ i \in Nat /\ i <= Len(Doc[Top.d].items) /\ s \in Schema
    <3>1. Doc[Top.d].items \in Seq(Data)
      BY <1>1, ValueType1 DEF Value
    <3>2. i \in 1 .. Len(Doc[Top.d].items) /\ i \in Nat
      BY <1>1, <2>1, <2>3, <3>1
    <3>3. s \in Schema
      BY <1>3, <2>2 DEF SubKeyword
    <3> QED BY <2>1, <3>1, <3>2, <3>3
  <2>5. i <= Choices(Top) /\ Top.fn \in Counting
    BY <2>3, <2>4 DEF Choices, Counting
  <2>6. Shaped(f) /\ (Sure(Top.c) => Right(f))
    BY <1>s, <2>1, <2>2, <2>3, <2>4, <2>5
  <2>7. /\ f \in Frame /\ f.fn = Top.fn /\ f.cs = Top.cs /\ f.d = Top.d /\ f.c = Top.c
        /\ f.loc = Top.loc /\ f.pc = "branch" /\ f.i = i
    BY <1>1, <2>2, <2>4 DEF Frame, Label
  <2>8. AskedOf(s, d) = Asked(f)
    BY <2>1, <2>2, <2>3, <2>7 DEF Asked, BranchFn
  <2> QED BY <1>6, <1>t, <2>3, <2>4, <2>6, <2>7, <2>8
<1>11. CASE EndContains
  <2>1. /\ Conclude(Top, ContainsVerdict(Top)) /\ UNCHANGED <<ctx, ret, exc, last>>
        /\ Top.fn = "validate_contains" /\ Top.pc = "loop" /\ Top.i = Len(Doc[Top.d].items)
    BY <1>11 DEF EndContains, At
  <2>2. ContainsVerdict(Top) \in Seq(Step)
    BY <1>1, VerdictType, PlainSteps
  <2>3. Sure(Top.c) => Tells(ContainsVerdict(Top), Goal(Top))
    <3>1. Top.fn \in Counting
      BY <2>1 DEF Counting
    <3>2. Sure(Top.c) => Counted(Top)
      BY <1>2, <2>1, <3>1 DEF Right
    <3> QED BY <1>1, <2>1, <3>2, ContainsTells
  <2> QED BY <1>4, <2>1, <2>2, <2>3
<1>12. CASE TryNot
  <2>1. PICK f, s : f = [Top EXCEPT !.pc = "branch"] /\ s = Compiled[Top.cs].sub["not"]
    OBVIOUS
  <2>2. EnterIsValid(f, s, Top.d) /\ Top.fn = "validate_not"
    BY <1>12, <2>1 DEF TryNot, At
  <2>3. s \in Schema
    BY <1>3, <2>1 DEF SubKeyword
  <2>4. /\ f \in Frame /\ f.fn = Top.fn /\ f.cs = Top.cs /\ f.d = Top.d /\ f.c = Top.c
        /\ f.loc = Top.loc /\ f.pc = "branch"
    BY <1>5, <1>t, <2>1
  <2>5. AskedOf(s, Top.d) = Asked(f)
    BY <2>1, <2>2, <2>4 DEF Asked, BranchFn
  <2>6. Shaped(f) /\ Right(f)
    BY <2>2, <2>4 DEF Shaped, Labelled, Right, Deciding, Counting, BranchFn, Combinator
  <2> QED BY <1>1, <1>6, <1>t, <2>2, <2>3, <2>4, <2>5, <2>6
<1>13. CASE EndNot
  <2>1. PICK s : s = Compiled[Top.cs].sub["not"]
    OBVIOUS
  <2>2. /\ Conclude(Top, ErrIf(ret, s, Top.d, "not"))
        /\ UNCHANGED <<ctx, ret, exc, last>> /\ Top.fn = "validate_not" /\ Top.pc = "branch"
    BY <1>13, <2>1 DEF EndNot, At
  <2>3. s \in Schema /\ "not" \in ErrorType
    BY <1>3, <2>1 DEF SubKeyword, ErrorType
  <2>4. ErrIf(ret, s, Top.d, "not") \in Seq(Step)
    BY <1>1, <2>3, ErrIfType, PlainSteps
  <2>5. Sure(Top.c) => (Goal(Top) <=> ~ret)
    <3>1. Asked(Top) = AskedOf(s, Top.d)
      BY <2>1, <2>2 DEF Asked, BranchFn
    <3> QED BY <1>1, <1>a, <1>t, <2>1, <2>2, <3>1, BranchGoal DEF AskedOf
  <2>6. Sure(Top.c) => Tells(ErrIf(ret, s, Top.d, "not"), Goal(Top))
    <3>1. PICK fact : fact = ~ret
      OBVIOUS
    <3>2. Tells(ErrIf(ret, s, Top.d, "not"), fact)
      BY <1>1, <2>3, <3>1, ErrTells
    <3> QED BY <1>1, <2>5, <3>1, <3>2 DEF Tells
  <2> QED BY <1>4, <2>2, <2>4, <2>6
<1>14. CASE TryIf
  <2>1. PICK f, s : f = [Top EXCEPT !.pc = "branch"] /\ s = Compiled[Top.cs].sub["if"]
    OBVIOUS
  <2>2. EnterIsValid(f, s, Top.d) /\ Top.fn = "validate_if"
    BY <1>14, <2>1 DEF TryIf, At
  <2>3. s \in Schema
    BY <1>3, <2>1 DEF SubKeyword
  <2>4. /\ f \in Frame /\ f.fn = Top.fn /\ f.cs = Top.cs /\ f.d = Top.d /\ f.c = Top.c
        /\ f.loc = Top.loc /\ f.pc = "branch"
    BY <1>5, <1>t, <2>1
  <2>5. AskedOf(s, Top.d) = Asked(f)
    BY <2>1, <2>2, <2>4 DEF Asked, BranchFn
  <2>6. Shaped(f) /\ Right(f)
    BY <2>2, <2>4 DEF Shaped, Labelled, Right, Deciding, Counting, BranchFn, Combinator
  <2> QED BY <1>1, <1>6, <1>t, <2>2, <2>3, <2>4, <2>5, <2>6
<1>15. CASE TryChosen
  <2>1. PICK k, s : k = Chosen /\ s = Compiled[Top.cs].sub[k]
    OBVIOUS
  <2>2. PICK f : f = [Top EXCEPT !.pc = k]
    OBVIOUS
  <2>3. /\ EnterIsValid(f, s, Top.d) /\ Top.fn = "validate_if" /\ Top.pc = "branch"
        /\ Has(Top.cs, k)
    BY <1>15, <2>1, <2>2 DEF TryChosen, At
  <2>4. s \in Schema /\ k \in {"then", "else"} /\ (k = "then" <=> ret)
    BY <1>1, <1>3, <2>1 DEF SubKeyword, Chosen
  <2>5. /\ f \in Frame /\ f.fn = Top.fn /\ f.cs = Top.cs /\ f.d = Top.d /\ f.c = Top.c
        /\ f.loc = Top.loc /\ f.pc = k
    BY <1>5, <1>t, <2>2, <2>4
  <2>6. AskedOf(s, Top.d) = Asked(f)
    BY <2>1, <2>3, <2>4, <2>5 DEF Asked, BranchFn
  <2>7. Shaped(f)
    BY <2>3, <2>4, <2>5 DEF Shaped, Labelled, Deciding, Counting, BranchFn, Combinator
  <2>8. Sure(Top.c) => (ret <=> Conforms[Compiled[Top.cs].sub["if"]][Top.d])
    <3>1. Asked(Top) = AskedOf(Compiled[Top.cs].sub["if"], Top.d)
      BY <2>3 DEF Asked, BranchFn
    <3> QED BY <1>a, <1>t, <2>3, <3>1 DEF AskedOf
  <2>9. Sure(Top.c) => Right(f)
    BY <2>3, <2>4, <2>5, <2>8 DEF Right, Counting, BranchFn
  <2> QED BY <1>1, <1>6, <1>t, <2>3, <2>4, <2>5, <2>6, <2>7, <2>9
<1>16. CASE NothingChosen
  <2>1. /\ Conclude(Top, <<>>) /\ UNCHANGED <<ctx, ret, exc, last>> /\ Top.fn = "validate_if"
        /\ \/ ~Has(Top.cs, "then") /\ ~Has(Top.cs, "else")
           \/ Top.pc = "branch" /\ ~Has(Top.cs, Chosen)
    BY <1>16 DEF NothingChosen, At
  <2>2. <<>> \in Seq(Step) /\ StepsOf(<<>>) = {}
    BY DEF StepsOf
  <2>3. Sure(Top.c) /\ Top.pc = "branch" => (ret <=> Conforms[Compiled[Top.cs].sub["if"]][Top.d])
    <3>1. Top.pc = "branch" => Asked(Top) = AskedOf(Compiled[Top.cs].sub["if"], Top.d)
      BY <2>1 DEF Asked, BranchFn
    <3> QED BY <1>a, <1>t, <3>1 DEF AskedOf
  <2>4. Sure(Top.c) => IfConforms(Conforms, Top.cs, Top.d)
    BY <2>1, <2>3 DEF IfConforms, Chosen
  <2>5. Sure(Top.c) => Tells(<<>>, Goal(Top))
    BY <1>1, <2>1, <2>2, <2>4, BranchGoal DEF Tells
  <2> QED BY <1>4, <2>1, <2>2, <2>5
<1>17. CASE EndIf
  <2>1. PICK type, s, wrong : /\ type = IF Top.pc = "then" THEN "if/then" ELSE "if/else"
                              /\ s = Compiled[Top.cs].sub[Top.pc] /\ wrong = ~ret
    OBVIOUS
  <2>2. /\ Conclude(Top, ErrIf(wrong, s, Top.d, type))
        /\ UNCHANGED <<ctx, ret, exc, last>> /\ Top.pc \in {"then", "else"}
        /\ Top.fn = "validate_if"
    BY <1>17, <2>1 DEF EndIf
  <2>3. s \in Schema /\ type \in ErrorType
    BY <1>3, <2>1, <2>2 DEF SubKeyword, ErrorType
  <2>4. ErrIf(wrong, s, Top.d, type) \in Seq(Step)
    BY <1>1, <2>3, ErrIfType, PlainSteps
  <2>5. Sure(Top.c) => (Goal(Top) <=> ret)
    <3>1. Asked(Top) = AskedOf(s, Top.d)
      BY <2>1, <2>2 DEF Asked, BranchFn
    <3>2. Has(Top.cs, Top.pc)
      BY <1>2, <2>2 DEF Shaped, Labelled
    <3>3. Sure(Top.c) => (Top.pc = "then" <=> Conforms[Compiled[Top.cs].sub["if"]][Top.d])
      BY <1>2, <2>2 DEF Right
    <3>4. Sure(Top.c) => (IfConforms(Conforms, Top.cs, Top.d) <=> Conforms[s][Top.d])
      BY <2>1, <2>2, <3>2, <3>3 DEF IfConforms
    <3>5. Sure(Top.c) => (ret <=> Conforms[s][Top.d])
      BY <1>a, <1>t, <2>2, <3>1 DEF AskedOf
    <3> QED BY <1>1, <2>2, <3>4, <3>5, BranchGoal
  <2>6. Sure(Top.c) => Tells(ErrIf(wrong, s, Top.d, type), Goal(Top))
    <3>1. PICK fact : fact = ~wrong
      OBVIOUS
    <3>2. Tells(ErrIf(wrong, s, Top.d, type), fact)
      BY <1>1, <2>3, <3>1, ErrTells
    <3> QED BY <1>1, <2>1, <2>5, <3>1, <3>2 DEF Tells
  <2> QED BY <1>4, <2>2, <2>4, <2>6
<1> QED BY <1>7, <1>8, <1>9, <1>10, <1>11, <1>12, <1>13, <1>14, <1>15, <1>16, <1>17
        DEF CombinatorStep

(* Outside every is_valid, a failing frame is a failing call.              *)
LEMMA OpenAnswer ==
  ASSUME IInv, Places, stack # <<>>, ~Cur.flag, Top.fn \notin SessionFn
  PROVE  /\ ~Caught(Len(stack))
         /\ ctx[Top.c].call.fn = "rb_validate"
         /\ Sure(Top.c) /\ ~Goal(Top) => ~Truth(Top.c)
<1>1. /\ Top.c \in 1 .. Len(ctx) /\ stack[Len(stack)] = Top
      /\ Len(stack) \in 1 .. Len(stack)
  BY TopFacts, Depths
<1>2. ~\E j \in 1 .. Len(stack) : Catching(j, Top.c)
  BY <1>1 DEF IInv, FlagIffCatch, Cur
<1>3. ~Caught(Len(stack))
  BY <1>1, <1>2 DEF Caught
<1>4. Answering(Len(stack))
  BY <1>1 DEF Places
<1> QED BY <1>1, <1>3, <1>4 DEF Answering

LEMMA ErrorAnswers ==
  ASSUME IInv, Places, ErrorStep
  PROVE  Places'
<1>0. stack # <<>> /\ exc = "none" /\ Top.fn = "yield_error"
  BY DEF ErrorStep, ShortCircuit, YieldToBlock, At, Running
<1>1. /\ Top \in Frame /\ Cur \in Context /\ stack[Len(stack)] = Top
      /\ Len(stack) \in 1 .. Len(stack) /\ Top.c \in 1 .. Len(ctx) /\ Len(ctx) \in Nat
  BY <1>0, TopFacts, Depths
<1>2. ~Goal(Top)
  BY <1>0, <1>1, BranchGoal
<1>3. CASE ShortCircuit
  <2>1. exc' = "throw" /\ UNCHANGED <<stack, ctx>>
    BY <1>3 DEF ShortCircuit
  <2> QED BY <1>0, <1>2, <2>1, ExitAnswers
<1>4. CASE YieldToBlock
  <2>1. ~Cur.flag
    BY <1>4 DEF YieldToBlock
  <2>2. CASE UNCHANGED <<stack, ctx>> /\ exc' \in {"overrun", "raise"}
    <3>1. exc' \notin {"none", "throw", "break"}
      BY <2>2
    <3> QED BY <1>0, <2>2, <3>1, ExitAnswers
  <2>3. CASE /\ Cur.depth \in 0 .. MaxDepth - 1
             /\ ~\E j \in 0 .. Cur.depth : Cur.path[j] = Nil
    <3>1. PICK e, r, f :
            /\ e = [cs |-> Top.cs, d |-> Top.d, type |-> Top.err,
                    path |-> PathOf(Cur), loc |-> Top.loc, leaks |-> Cur.leaks]
            /\ r = [Cur EXCEPT !.errors = Append(Cur.errors, e)]
            /\ f = [Top EXCEPT !.pc = "block"]
      OBVIOUS
    <3>2. SetContext(r) /\ Goto(f) /\ exc' = exc
      BY <1>4, <2>3, <3>1 DEF YieldToBlock
    <3>3. e \in Error
      <4>1. PathOf(Cur) \in Seq(Segment)
        <5>1. /\ Cur.depth + 1 \in Nat
              /\ \A j \in 1 .. Cur.depth + 1 : Cur.path[j - 1] \in Segment
          BY <1>1, <2>3, MaxDepthAssumption DEF Context
        <5> QED BY <5>1 DEF PathOf
      <4> QED BY <1>1, <3>1, <4>1 DEF Error, Frame, Context
    <3>4. PICK errors \in Seq(Error) : errors = Append(Cur.errors, e) /\ errors # <<>>
      <4>1. PICK before \in Seq(Error) : before = Cur.errors
        BY <1>1 DEF Context
      <4>2. /\ Append(before, e) \in Seq(Error) /\ Len(before) \in Nat
            /\ Len(Append(before, e)) = Len(before) + 1
        BY <3>3
      <4>3. Append(before, e) # <<>>
        BY <4>2
      <4> QED BY <4>1, <4>2, <4>3
    <3>5. r \in Context /\ r.call = Cur.call /\ r.disturbed = Cur.disturbed /\ r.errors # <<>>
      BY <1>1, <3>1, <3>4 DEF Context
    <3>6. /\ Len(ctx') = Len(ctx) /\ ctx'[Top.c] = r
          /\ \A c \in 1 .. Len(ctx) : c # Top.c => ctx'[c] = ctx[c]
      BY <1>0, <3>2, <3>5, SetContextFacts
    <3>7. Going(Len(ctx))
      <4> SUFFICES ASSUME NEW c \in 1 .. Len(ctx)
                   PROVE  /\ ctx'[c].call = ctx[c].call
                          /\ ctx[c].disturbed => ctx'[c].disturbed
                          /\ ctx[c].errors # <<>> => ctx'[c].errors # <<>>
        BY DEF Going
      <4>1. CASE c = Top.c
        BY <3>5, <3>6, <4>1 DEF Cur
      <4>2. CASE c # Top.c
        BY <3>6, <4>2
      <4> QED BY <4>1, <4>2
    <3>8. /\ Cur.call.fn = "rb_validate"
          /\ ~Cur.disturbed => ~Conforms[Cur.call.cs][Cur.call.d]
      <4>1. Top.fn \notin SessionFn
        BY <1>0 DEF SessionFn
      <4> QED BY <1>0, <1>2, <2>1, <4>1, OpenAnswer DEF Cur, Sure, Truth
    <3>9. ReportsTrue'
      <4> SUFFICES ASSUME NEW c \in 1 .. Len(ctx), ctx'[c].errors # <<>>
                   PROVE  /\ ctx'[c].call.fn = "rb_validate"
                          /\ ~ctx'[c].disturbed => ~Conforms[ctx'[c].call.cs][ctx'[c].call.d]
        BY <3>6 DEF ReportsTrue, Reported, Sure, Truth
      <4>1. CASE c = Top.c
        BY <3>5, <3>6, <3>8, <4>1
      <4>2. CASE c # Top.c
        <5>1. ctx'[c] = ctx[c] /\ ctx[c].errors # <<>>
          BY <3>6, <4>2
        <5> QED BY <5>1 DEF Places, ReportsTrue, Reported, Sure, Truth
      <4> QED BY <4>1, <4>2
    <3>10. /\ f \in Frame /\ f.fn = Top.fn /\ f.cs = Top.cs /\ f.d = Top.d /\ f.c = Top.c
           /\ f.i = Top.i /\ f.pc = "block"
      BY <1>1, <3>1 DEF Frame, Label
    <3>11. Alike(Top, f)
      BY <3>10, SameQuestion
    <3>12. Shaped(f) /\ Right(f) /\ Completes(f) /\ f.pc \notin Deciding
      BY <1>0, <3>10 DEF Shaped, Labelled, Right, Completes, Deciding, Counting, BranchFn
    <3>13. ExitTrue' /\ ctx'[Top.c].errors # <<>>
      BY <1>0, <3>2, <3>5, <3>6 DEF ExitTrue
    <3> QED BY <1>0, <3>2, <3>6, <3>7, <3>9, <3>10, <3>11, <3>12, <3>13, GotoAnswers
  <2> QED BY <1>4, <2>2, <2>3 DEF YieldToBlock
<1> QED BY <1>3, <1>4 DEF ErrorStep

LEMMA UserAnswers ==
  ASSUME IInv, Places, UserStep
  PROVE  Places'
<1>0. /\ stack # <<>> /\ exc \in {"none", "raise"}
      /\ Top.fn \in {"yield_error", "validate_custom_format"}
  BY DEF UserStep, UserCodeCalls, BlockReturns, BlockLeaves, UserCodeRescues,
         CallableAnswers, CallableRaises, InBlock, InCallable, At, Running
<1>1. /\ Top \in Frame /\ stack[Len(stack)] = Top
      /\ Len(stack) \in 1 .. Len(stack) /\ Top.c \in 1 .. Len(ctx)
      /\ Top.cs \in Schema /\ Top.d \in Data
  <2>1. Top \in Frame /\ stack[Len(stack)] = Top /\ Len(stack) \in 1 .. Len(stack)
        /\ Top.c \in 1 .. Len(ctx)
    BY <1>0, TopFacts, Depths
  <2> QED BY <2>1 DEF Frame
<1>2. Formed(Len(stack))
  BY <1>1 DEF Places
<1>3. Top.fn = "yield_error" /\ Top.pc \in {"block", "called"} => Reported(Top.c)
  BY <1>1, <1>2 DEF Formed, YieldingTo
<1>4. UNCHANGED ctx => AnswersGoOn
  BY ContextSame
<1>5. ASSUME NEW k \in {"block", "called", "loop"}, NEW f, f = [Top EXCEPT !.pc = k]
      PROVE  /\ f \in Frame /\ f.fn = Top.fn /\ f.cs = Top.cs /\ f.d = Top.d /\ f.c = Top.c
             /\ f.i = Top.i /\ f.pc = k
             /\ Alike(Top, f) /\ Right(f) /\ Completes(f) /\ f.pc \notin Deciding
             /\ (k = "block" => Top.fn = "yield_error") => Shaped(f)
  <2>1. /\ f \in Frame /\ f.fn = Top.fn /\ f.cs = Top.cs /\ f.d = Top.d /\ f.c = Top.c
        /\ f.i = Top.i /\ f.pc = k
    BY <1>1, <1>5 DEF Frame, Label
  <2>2. Alike(Top, f)
    BY <2>1, SameQuestion
  <2>3. Right(f) /\ Completes(f) /\ f.pc \notin Deciding
    BY <1>0, <2>1 DEF Right, Completes, Deciding, Counting, BranchFn
  <2>4. (k = "block" => Top.fn = "yield_error") => Shaped(f)
    BY <1>0, <2>1 DEF Shaped, Labelled, Deciding, DecidingFn, Counting, BranchFn
  <2> QED BY <2>1, <2>2, <2>3, <2>4
<1>6. CASE UserCodeCalls
  <2>1. PICK call \in NestedCalls : OpenSession(Replace([Top EXCEPT !.pc = "called"]), call)
    BY <1>6 DEF UserCodeCalls
  <2>2. /\ call \in Call /\ UNCHANGED <<ret, exc, last>> /\ exc = "none"
        /\ Top.fn = "yield_error" => Top.pc = "block"
    BY <1>6, CallsAssumption DEF UserCodeCalls, At, Running
  <2>3. PICK f : f = [Top EXCEPT !.pc = "called"]
    OBVIOUS
  <2>4. /\ f \in Frame /\ f.fn = Top.fn /\ f.pc = "called"
        /\ Alike(Top, f) /\ Right(f) /\ Shaped(f)
    BY <1>5, <2>3
  <2>5. /\ Replace(f) \in Seq(Frame) /\ Len(Replace(f)) = Len(stack)
        /\ Replace(f)[Len(stack)] = f
        /\ \A j \in 1 .. Len(stack) - 1 : Replace(f)[j] = stack[j]
    BY <1>0, <2>4, ReplaceFacts DEF IInv, TypeOK
  <2>6. PICK base \in Seq(Frame) : base = Replace(f)
    BY <2>5
  <2>7. OpenSession(base, call)
    BY <2>1, <2>3, <2>6
  <2>8. /\ Len(base) = Len(stack) /\ f = base[Len(base)]
        /\ \A j \in 1 .. Len(stack) - 1 : base[j] = stack[j]
    BY <2>5, <2>6
  <2>9. f.fn = "yield_error" => Reported(Top.c)
    BY <1>3, <2>2, <2>4
  <2> QED BY <2>2, <2>4, <2>7, <2>8, <2>9, OpenAnswers
<1>7. CASE BlockReturns
  <2>1. /\ Return /\ UNCHANGED <<ctx, ret, exc, last>> /\ Top.fn = "yield_error"
        /\ Top.pc \in {"block", "called"} /\ exc = "none"
    BY <1>7 DEF BlockReturns, InBlock, Running
  <2>2. Top.fn \notin SessionFn /\ Top.fn # "is_valid"
    BY <2>1 DEF SessionFn
  <2>3. PICK below : below = stack[Len(stack) - 1]
    OBVIOUS
  <2>4. below.c = Top.c /\ below.pc = "plan"
    BY <1>0, <2>2, <2>3, Callers
  <2>5. ~Hopeful(Len(stack) - 1)
    <3>1. \A k \in 1 .. Len(stack) : ~Catching(k, Top.c)
      BY <1>1, <2>1 DEF IInv, QuietInsideIsValid, YieldingTo
    <3>2. \A k \in 1 .. Len(stack) - 1 : k \in 1 .. Len(stack)
      BY <1>0, Depths
    <3>3. ~Caught(Len(stack) - 1)
      BY <2>3, <2>4, <3>1, <3>2 DEF Caught
    <3> QED BY <1>3, <2>1, <2>3, <2>4, <3>3 DEF Hopeful
  <2>6. below.pc \notin Deciding /\ exc' = "none"
    BY <2>1, <2>4 DEF Deciding
  <2> QED BY <1>0, <1>4, <2>1, <2>2, <2>3, <2>5, <2>6, ReturnAnswers DEF AnswersGoOn
<1>8. CASE BlockLeaves
  <2>1. /\ exc' \in {"raise", "break"} /\ UNCHANGED <<ctx, ret, last>>
        /\ Goto([Top EXCEPT !.pc = "block"])
        /\ Top.fn = "yield_error" /\ Top.pc \in {"block", "called"}
    BY <1>8 DEF BlockLeaves, InBlock
  <2>2. PICK f : f = [Top EXCEPT !.pc = "block"]
    OBVIOUS
  <2>3. /\ f \in Frame /\ f.c = Top.c /\ f.pc = "block" /\ f.pc \notin Deciding
        /\ Alike(Top, f) /\ Right(f) /\ Completes(f) /\ Shaped(f)
    BY <1>5, <2>1, <2>2
  <2>4. ctx'[Top.c].errors # <<>>
    BY <1>3, <2>1 DEF Reported
  <2>5. stack' # <<>> /\ Top' = f
    <3>1. Len(stack') = Len(stack) /\ stack'[Len(stack)] = f /\ Len(stack) # 0
      BY <1>0, <2>1, <2>2, <2>3, ReplaceFacts DEF Goto, IInv, TypeOK
    <3> QED BY <3>1 DEF Top
  <2>6. ExitTrue'
    BY <2>1, <2>3, <2>4, <2>5 DEF ExitTrue, Reported
  <2> QED BY <1>0, <1>4, <2>1, <2>2, <2>3, <2>4, <2>6, GotoAnswers DEF AnswersGoOn
<1>9. CASE UserCodeRescues
  <2>1. UNCHANGED <<stack, ctx>> /\ exc' = "none" /\ Top.pc = "called"
    BY <1>9 DEF UserCodeRescues
  <2> QED BY <1>0, <2>1, ExitAnswers
<1>10. CASE CallableAnswers
  <2>1. PICK wrong : wrong = (Top.d \notin Compiled[Top.cs].formatOk)
    OBVIOUS
  <2>2. /\ Conclude(Top, ErrIf(wrong, Top.cs, Top.d, "format"))
        /\ UNCHANGED <<ctx, ret, exc, last>> /\ exc = "none"
        /\ Top.fn = "validate_custom_format" /\ Top.d \notin Compiled[Top.cs].formatRaise
    BY <1>10, <2>1 DEF CallableAnswers, InCallable, Running, ErrIf, FormatError
  <2>3. "format" \in ErrorType
    BY DEF ErrorType
  <2>4. PICK fact : fact = ~wrong
    OBVIOUS
  <2>5. /\ ErrIf(wrong, Top.cs, Top.d, "format") \in Seq(Step)
        /\ Tells(ErrIf(wrong, Top.cs, Top.d, "format"), fact)
    BY <1>1, <2>3, <2>4, ErrTells
  <2>6. Goal(Top) <=> fact
    BY <1>1, <2>1, <2>2, <2>4, BranchGoal
  <2>7. PICK plan \in Seq(Step) : plan = ErrIf(wrong, Top.cs, Top.d, "format")
    BY <2>5
  <2>8. Tells(plan, Goal(Top))
    BY <2>5, <2>6, <2>7 DEF Tells
  <2> QED BY <1>0, <1>4, <2>2, <2>7, <2>8, ConcludeAnswers
<1>11. CASE CallableRaises
  <2>1. /\ exc' = "raise" /\ UNCHANGED <<ctx, ret, last>>
        /\ Goto([Top EXCEPT !.pc = "loop"])
    BY <1>11 DEF CallableRaises
  <2>2. PICK f : f = [Top EXCEPT !.pc = "loop"]
    OBVIOUS
  <2>3. /\ f \in Frame /\ f.pc = "loop" /\ f.pc \notin Deciding
        /\ Alike(Top, f) /\ Right(f) /\ Completes(f) /\ Shaped(f)
    BY <1>5, <2>2
  <2>4. stack' # <<>>
    <3>1. Len(stack') = Len(stack) /\ Len(stack) # 0
      BY <1>0, <2>1, <2>2, <2>3, ReplaceFacts DEF Goto, IInv, TypeOK
    <3> QED BY <3>1
  <2>5. ExitTrue' /\ f.pc \notin {"block", "called"}
    BY <2>1, <2>3, <2>4 DEF ExitTrue
  <2> QED BY <1>0, <1>4, <2>1, <2>2, <2>3, <2>5, GotoAnswers DEF AnswersGoOn
<1> QED BY <1>6, <1>7, <1>8, <1>9, <1>10, <1>11 DEF UserStep

LEMMA UnwindAnswers ==
  ASSUME IInv, Places, UnwindStep
  PROVE  Places'
<1>0. stack # <<>> /\ exc \in {"throw", "raise", "break"}
  BY DEF UnwindStep, UnwindIsValid, ProtectStops, UnwindSession, UnwindFrame, Unwinding
<1>1. /\ Top \in Frame /\ Cur \in Context /\ Top.c \in 1 .. Len(ctx)
      /\ Top.cs \in Schema /\ Top.d \in Data
  <2>1. Top \in Frame /\ Cur \in Context /\ Top.c \in 1 .. Len(ctx)
    BY <1>0, TopFacts
  <2> QED BY <2>1 DEF Frame
<1>2. /\ exc = "throw" /\ Sure(Top.c) => ~Goal(Top)
      /\ exc = "break" => Reported(Top.c)
  BY DEF Places, ExitTrue
<1>3. AnswersGoOn /\ exc = "break" => ctx'[Top.c].errors # <<>>
  BY <1>1, <1>2 DEF AnswersGoOn, Going, Reported
<1>4. CASE UnwindIsValid
  <2>1. /\ Top.fn = "is_valid" /\ IsValidEnsure /\ Return
        /\ exc = "throw" => ret' = FALSE /\ exc' = "none"
        /\ exc # "throw" => exc' = exc
    BY <1>4 DEF UnwindIsValid
  <2>2. PICK below : below = stack[Len(stack) - 1]
    OBVIOUS
  <2>3. below.pc \in Deciding /\ Asked(below).cs = Top.cs /\ Asked(below).d = Top.d
    BY <1>0, <2>1, <2>2, WhoAsked
  <2>4. AnswersGoOn /\ ctx'[Top.c].disturbed = Cur.disturbed
    BY <1>0, <2>1, EnsureGoes
  <2>5. exc' = "none" /\ ~ctx'[Top.c].disturbed
          => (ret' <=> Conforms[Asked(below).cs][Asked(below).d])
    <3> SUFFICES ASSUME exc' = "none", ~ctx'[Top.c].disturbed
                 PROVE  ret' <=> Conforms[Top.cs][Top.d]
      BY <2>3
    <3>1. exc = "throw" /\ Sure(Top.c)
      BY <1>0, <2>1, <2>4 DEF Sure, Cur
    <3>2. ~Goal(Top)
      BY <1>2, <3>1
    <3> QED BY <1>1, <2>1, <3>1, <3>2, BranchGoal
  <2>6. Top.fn \notin SessionFn /\ below.pc # "plan" /\ exc' # "throw"
    BY <1>0, <2>1, <2>3 DEF SessionFn, Deciding
  <2>7. exc' = "break" => ctx'[Top.c].errors # <<>>
    BY <1>3, <2>1, <2>4
  <2> QED BY <1>0, <2>1, <2>2, <2>4, <2>5, <2>6, <2>7, ReturnAnswers DEF AnswersGoOn
<1>5. CASE ProtectStops
  <2>1. PICK accepted \in BOOLEAN :
          accepted <=> Top.d \in Compiled[Top.cs].formatOk \ Compiled[Top.cs].formatRaise
    OBVIOUS
  <2>2. PICK r : r = [Cur EXCEPT !.disturbed = Cur.disturbed \/ accepted]
    OBVIOUS
  <2>3. /\ exc' = "none" /\ Conclude(Top, <<FormatError>>) /\ SetContext(r)
        /\ Top.fn = "validate_custom_format"
    BY <1>5, <2>1, <2>2 DEF ProtectStops, Protecting
  <2>4. /\ r \in Context /\ r.call = Cur.call /\ r.errors = Cur.errors
        /\ r.disturbed <=> Cur.disturbed \/ accepted
    BY <1>1, <2>2 DEF Context
  <2>5. AnswersGoOn /\ ctx'[Top.c] = r
    BY <1>0, <2>3, <2>4, ContextGoes
  <2>6. ~ctx'[Top.c].disturbed => ~Goal(Top)
    BY <1>1, <2>1, <2>3, <2>4, <2>5, BranchGoal
  <2>7. FormatError \in Step /\ Fails(FormatError) /\ ~Harmless(FormatError)
    <3>1. "format" \in ErrorType
      BY DEF ErrorType
    <3> QED BY <1>1, <3>1, ErrAsks DEF FormatError
  <2>8. PICK plan \in Seq(Step) : plan = <<FormatError>> /\ StepsOf(plan) = {FormatError}
    BY <2>7, OneStep
  <2>9. ~ctx'[Top.c].disturbed => Tells(plan, Goal(Top))
    BY <2>6, <2>7, <2>8 DEF Tells
  <2>10. Top.fn \notin {"rb_valid", "yield_error"}
    BY <2>3
  <2> QED BY <1>0, <2>3, <2>5, <2>8, <2>9, <2>10, ConcludeAnswers
<1>6. CASE UnwindSession
  <2>1. /\ Top.fn \in SessionFn
        /\ \/ exc' = "none" /\ CloseSession("broken")
           \/ exc' = (IF Len(stack) = 1 THEN "none" ELSE exc) /\ CloseSession("raised")
              /\ exc # "break"
    BY <1>6 DEF UnwindSession
  <2>2. exc # "throw"
    BY <1>0, <2>1, ThrowsLeaveSessions
  <2>3. exc' = "none" \/ (exc' = "raise" /\ Len(stack) # 1)
    BY <1>0, <2>1, <2>2
  <2> QED BY <1>0, <2>1, <2>3, CloseAnswers
<1>7. CASE UnwindFrame
  <2>1. PICK r : r = [Cur EXCEPT !.leaks =
                   Cur.leaks + (Len(Top.loc) - Len(stack[Len(stack) - 1].loc))]
    OBVIOUS
  <2>2. /\ Top.fn \notin SessionFn /\ Top.fn # "is_valid" /\ Return /\ SetContext(r)
        /\ UNCHANGED <<ret, exc, last>>
    BY <1>7, <2>1 DEF UnwindFrame
  <2>3. PICK leaks \in Int : r = [Cur EXCEPT !.leaks = leaks]
    <3>1. Len(stack) - 1 \in 1 .. Len(stack) /\ stack \in Seq(Frame)
      BY <1>0, <2>2, UnderTop DEF IInv, TypeOK
    <3>2. stack[Len(stack) - 1] \in Frame
      BY <3>1
    <3>3. Len(stack[Len(stack) - 1].loc) \in Int /\ Len(Top.loc) \in Int
      BY <1>1, <3>2 DEF Frame
    <3>4. Cur.leaks + (Len(Top.loc) - Len(stack[Len(stack) - 1].loc)) \in Int
      <4>1. PICK x, y, z \in Int : /\ x = Cur.leaks /\ y = Len(Top.loc)
                                   /\ z = Len(stack[Len(stack) - 1].loc)
        BY <1>1, <3>3 DEF Context
      <4>2. x + (y - z) \in Int
        OBVIOUS
      <4> QED BY <4>1, <4>2
    <3> QED BY <2>1, <3>4
  <2>4. /\ r \in Context /\ r.call = Cur.call /\ r.errors = Cur.errors
        /\ r.disturbed = Cur.disturbed
    BY <1>1, <2>3 DEF Context
  <2>5. AnswersGoOn
    BY <1>0, <2>2, <2>4, ContextGoes
  <2>6. PICK below : below = stack[Len(stack) - 1]
    OBVIOUS
  <2>7. Top.fn \in CallFn
    BY <1>1, <2>2 DEF CallFn, SessionFn, Frame
  <2>8. exc' # "none" /\ (exc' = "throw" => exc = "throw")
        /\ (exc' = "break" => ctx'[Top.c].errors # <<>>)
    BY <1>0, <1>3, <2>2, <2>5
  <2> QED BY <1>0, <2>2, <2>5, <2>6, <2>7, <2>8, ReturnAnswers DEF AnswersGoOn
<1> QED BY <1>4, <1>5, <1>6, <1>7 DEF UnwindStep

(***************************************************************************)
(* The invariant.                                                          *)
(***************************************************************************)
LEMMA InitAnswers == Init => AnswerInv
<1> SUFFICES ASSUME Init
             PROVE  AnswerInv
  OBVIOUS
<1>1. stack = <<>> /\ ctx = <<>> /\ exc = "none" /\ Len(stack) = 0 /\ Len(ctx) = 0
  BY DEF Init
<1>2. FramesRight /\ FramesJoined /\ FramesComplete
  BY <1>1 DEF FramesRight, FramesJoined, FramesComplete
<1>3. FramesAnswer /\ SessionsMatch /\ ReportsTrue
  BY <1>1 DEF FramesAnswer, SessionsMatch, ReportsTrue
<1>4. BlocksHaveErrors /\ ReturnTrue /\ ExitTrue
  BY <1>1 DEF BlocksHaveErrors, ReturnTrue, ExitTrue, Running
<1> QED BY <1>2, <1>3, <1>4 DEF AnswerInv

LEMMA StutterAnswers ==
  ASSUME AnswerInv, UNCHANGED vars
  PROVE  AnswerInv'
<1>1. UNCHANGED <<stack, ctx, ret, exc, last>>
  BY DEF vars
<1>2. /\ UNCHANGED Top
      /\ \A c : UNCHANGED <<Sure(c), Reported(c), Truth(c)>>
      /\ \A j : UNCHANGED <<Caught(j), YieldingTo(j)>>
  BY <1>1 DEF Top, Sure, Reported, Truth, Caught, Catching, YieldingTo
<1>3. FramesRight' /\ FramesJoined'
  BY <1>1, <1>2 DEF AnswerInv, FramesRight, FramesJoined
<1>4. FramesComplete'
  BY <1>1, <1>2 DEF AnswerInv, FramesComplete
<1>5. FramesAnswer' /\ SessionsMatch'
  BY <1>1, <1>2 DEF AnswerInv, FramesAnswer, SessionsMatch
<1>6. ReportsTrue' /\ BlocksHaveErrors'
  BY <1>1, <1>2 DEF AnswerInv, ReportsTrue, BlocksHaveErrors
<1>7. ReturnTrue' /\ ExitTrue'
  BY <1>1, <1>2 DEF AnswerInv, ReturnTrue, ExitTrue, Running
<1> QED BY <1>3, <1>4, <1>5, <1>6, <1>7 DEF AnswerInv

LEMMA NextAnswers == IInv /\ AnswerInv /\ [Next]_vars => AnswerInv'
<1> SUFFICES ASSUME IInv, AnswerInv, [Next]_vars
             PROVE  AnswerInv'
  OBVIOUS
<1>1. CASE Finished \/ UNCHANGED vars
  BY <1>1, StutterAnswers DEF Finished
<1>2. CASE \/ SessionStep \/ PlanStep \/ CombinatorStep
           \/ ErrorStep \/ UserStep \/ UnwindStep
  <2>1. TypeOK /\ TypeOK'
    BY NextIInv DEF IInv
  <2>2. Places
    BY <2>1, PlacesHold
  <2>3. Places'
    BY <1>2, <2>2, SessionAnswers, PlanAnswers, CombinatorAnswers, ErrorAnswers, UserAnswers,
       UnwindAnswers
  <2> QED BY <2>1, <2>3, AnswersHold
<1> QED BY <1>1, <1>2 DEF Next

(* Every frame of every validation gives the answer Semantics gives: what  *)
(* is_valid returned or was thrown, what a plan still has to do, what a    *)
(* loop has counted, what was reported and what a call was made for, as    *)
(* long as no callable failed on a value that its format accepts.  These   *)
(* are the answers of draft 7 but for WholeFloat and WideQuotient.         *)
THEOREM AnswersAreRight == Spec => []AnswerInv
<1> QED BY InitAnswers, NextAnswers, Invariance, PTL DEF Spec

(***************************************************************************)
(* The promise: what a caller sees of the calls under way changes only as  *)
(* Verdict says.                                                           *)
(***************************************************************************)
Seen(r) == [call |-> r.call, reported |-> r.errors # <<>>, disturbed |-> r.disturbed]
SeenCall == [call : Call, reported : BOOLEAN, disturbed : BOOLEAN]

LEMMA ShownFacts ==
  ASSUME NEW contexts \in Seq(Context)
  PROVE  /\ Shown(contexts) \in Seq(SeenCall)
         /\ Len(Shown(contexts)) = Len(contexts) /\ Len(contexts) \in Nat
         /\ \A j \in 1 .. Len(contexts) : Shown(contexts)[j] = Seen(contexts[j])
         /\ contexts = <<>> <=> Shown(contexts) = <<>>
<1>1. PICK n \in Nat : n = Len(contexts)
  OBVIOUS
<1>2. \A j \in 1 .. n : contexts[j] \in Context
  BY <1>1
<1>3. \A j \in 1 .. n : Seen(contexts[j]) \in SeenCall
  BY <1>2 DEF Seen, SeenCall, Context
<1>4. Shown(contexts) = [j \in 1 .. n |-> Seen(contexts[j])]
  BY <1>1 DEF Shown, Seen
<1>5. Shown(contexts) \in [1 .. n -> SeenCall]
  BY <1>3, <1>4
<1>6. Shown(contexts) \in Seq(SeenCall)
  BY <1>5, SeqDef
<1>7. Len(Shown(contexts)) = n
  BY <1>5, <1>6, LenProperties
<1>8. contexts = <<>> <=> Shown(contexts) = <<>>
  BY <1>1, <1>6, <1>7, EmptySeq
<1> QED BY <1>1, <1>4, <1>6, <1>7, <1>8

(* Two such views that agree everywhere are the same.                      *)
LEMMA ShownSame ==
  ASSUME NEW left \in Seq(SeenCall), NEW right \in Seq(SeenCall), Len(left) = Len(right),
         \A j \in 1 .. Len(left) : left[j] = right[j]
  PROVE  left = right
<1> QED BY SeqEqual

LEMMA ShownOpens ==
  ASSUME NEW contexts \in Seq(Context), NEW r \in Context
  PROVE  Shown(Append(contexts, r)) = Append(Shown(contexts), Seen(r))
<1>1. PICK n \in Nat : n = Len(contexts)
  OBVIOUS
<1>2. PICK more : more = Append(contexts, r)
  OBVIOUS
<1>3. /\ more \in Seq(Context) /\ Len(more) = n + 1 /\ more[n + 1] = r
      /\ \A j \in 1 .. n : more[j] = contexts[j]
  BY <1>1, <1>2
<1>4. Seen(r) \in SeenCall
  BY DEF Seen, SeenCall, Context
<1>5. PICK view \in Seq(SeenCall) : view = Shown(contexts)
  BY ShownFacts
<1>6. Len(view) = n /\ \A j \in 1 .. n : view[j] = Seen(contexts[j])
  BY <1>1, <1>5, ShownFacts
<1>7. PICK longer : longer = Append(view, Seen(r))
  OBVIOUS
<1>8. /\ longer \in Seq(SeenCall) /\ Len(longer) = n + 1
      /\ longer[n + 1] = Seen(r)
      /\ \A j \in 1 .. n : longer[j] = view[j]
  BY <1>4, <1>6, <1>7
<1>9. Shown(more) \in Seq(SeenCall) /\ Len(Shown(more)) = n + 1
  BY <1>3, ShownFacts
<1>10. ASSUME NEW j \in 1 .. n + 1
       PROVE  Shown(more)[j] = longer[j]
  <2>1. Shown(more)[j] = Seen(more[j])
    BY <1>3, ShownFacts
  <2>2. CASE j = n + 1
    BY <2>1, <2>2, <1>3, <1>8
  <2>3. CASE j # n + 1
    <3>1. j \in 1 .. n
      BY <2>3
    <3> QED BY <2>1, <3>1, <1>3, <1>6, <1>8
  <2> QED BY <2>2, <2>3
<1>11. Shown(more) = longer
  BY <1>8, <1>9, <1>10, ShownSame
<1> QED BY <1>2, <1>5, <1>7, <1>11

LEMMA ShownCloses ==
  ASSUME NEW contexts \in Seq(Context), contexts # <<>>
  PROVE  Shown(SubSeq(contexts, 1, Len(contexts) - 1))
           = SubSeq(Shown(contexts), 1, Len(Shown(contexts)) - 1)
<1>1. PICK n \in Nat : n = Len(contexts)
  OBVIOUS
<1>2. n > 0 /\ n - 1 \in Nat /\ \A j \in 1 .. n - 1 : j \in 1 .. n
  BY <1>1, EmptySeq
<1>3. PICK rest : rest = SubSeq(contexts, 1, n - 1)
  OBVIOUS
<1>4. /\ rest \in Seq(Context) /\ Len(rest) = n - 1
      /\ \A j \in 1 .. n - 1 : rest[j] = contexts[j]
  BY <1>1, <1>2, <1>3
<1>5. PICK view \in Seq(SeenCall) : view = Shown(contexts)
  BY ShownFacts
<1>6. Len(view) = n /\ \A j \in 1 .. n : view[j] = Seen(contexts[j])
  BY <1>1, <1>5, ShownFacts
<1>7. PICK shorter : shorter = SubSeq(view, 1, n - 1)
  OBVIOUS
<1>8. /\ shorter \in Seq(SeenCall) /\ Len(shorter) = n - 1
      /\ \A j \in 1 .. n - 1 : shorter[j] = view[j]
  BY <1>2, <1>6, <1>7
<1>9. /\ Shown(rest) \in Seq(SeenCall) /\ Len(Shown(rest)) = n - 1
      /\ \A j \in 1 .. n - 1 : Shown(rest)[j] = Seen(rest[j])
  BY <1>4, ShownFacts
<1>10. \A j \in 1 .. n - 1 : Shown(rest)[j] = shorter[j]
  BY <1>2, <1>4, <1>6, <1>8, <1>9
<1>11. Shown(rest) = shorter
  BY <1>8, <1>9, <1>10, ShownSame
<1> QED BY <1>1, <1>3, <1>5, <1>6, <1>7, <1>11

LEMMA ShownChanges ==
  ASSUME NEW contexts \in Seq(Context), NEW n \in 1 .. Len(contexts), NEW r \in Context
  PROVE  Shown([contexts EXCEPT ![n] = r]) = [Shown(contexts) EXCEPT ![n] = Seen(r)]
<1>1. PICK top \in Nat : top = Len(contexts)
  OBVIOUS
<1>2. PICK after : after = [contexts EXCEPT ![n] = r]
  OBVIOUS
<1>3. /\ after \in Seq(Context) /\ Len(after) = top
      /\ \A j \in 1 .. top : after[j] = IF j = n THEN r ELSE contexts[j]
  BY <1>1, <1>2, ExceptSeq
<1>4. PICK view \in Seq(SeenCall) : view = Shown(contexts)
  BY ShownFacts
<1>5. Len(view) = top /\ \A j \in 1 .. top : view[j] = Seen(contexts[j])
  BY <1>1, <1>4, ShownFacts
<1>6. Seen(r) \in SeenCall
  BY DEF Seen, SeenCall, Context
<1>7. PICK changed : changed = [view EXCEPT ![n] = Seen(r)]
  OBVIOUS
<1>8. /\ changed \in Seq(SeenCall) /\ Len(changed) = top
      /\ \A j \in 1 .. top : changed[j] = IF j = n THEN Seen(r) ELSE view[j]
  BY <1>1, <1>5, <1>6, <1>7, ExceptSeq
<1>9. /\ Shown(after) \in Seq(SeenCall) /\ Len(Shown(after)) = top
      /\ \A j \in 1 .. top : Shown(after)[j] = Seen(after[j])
  BY <1>3, ShownFacts
<1>10. \A j \in 1 .. top : Shown(after)[j] = changed[j]
  BY <1>3, <1>5, <1>8, <1>9
<1>11. Shown(after) = changed
  BY <1>8, <1>9, <1>10, ShownSame
<1> QED BY <1>2, <1>4, <1>7, <1>11

(* A step that changes nothing a caller sees.                              *)
Unseen == Shown(ctx)' = Shown(ctx) /\ last' = last

LEMMA ViewKept ==
  ASSUME IInv, IInv', stack # <<>>, NEW r, SetContext(r), Seen(r) = Seen(Cur)
  PROVE  Shown(ctx)' = Shown(ctx)
<1>1. /\ ctx \in Seq(Context) /\ ctx' \in Seq(Context)
      /\ Top.c \in 1 .. Len(ctx) /\ Len(ctx) \in Nat
  BY TopFacts DEF IInv, TypeOK
<1>2. PICK before, after \in Seq(Context) : before = ctx /\ after = ctx'
  BY <1>1
<1>3. PICK n \in Nat : n = Len(before)
  BY <1>2
<1>4. PICK k \in 1 .. n : k = Top.c
  BY <1>1, <1>2, <1>3
<1>5. after = [before EXCEPT ![k] = r] /\ before[k] = Cur
  BY <1>2, <1>4 DEF SetContext, Cur
<1>6. DOMAIN before = 1 .. n /\ DOMAIN after = 1 .. Len(after) /\ Len(after) \in Nat
  BY <1>3, LenProperties
<1>7. DOMAIN after = 1 .. n
  BY <1>5, <1>6
<1>8. Len(after) = n
  <2>1. PICK m \in Nat : m = Len(after)
    BY <1>6
  <2>2. 1 .. m = 1 .. n
    BY <1>6, <1>7, <2>1
  <2>3. (m > n => m \in 1 .. m /\ m \notin 1 .. n) /\ (n > m => n \in 1 .. n /\ n \notin 1 .. m)
    OBVIOUS
  <2> QED BY <2>1, <2>2, <2>3
<1>9. ASSUME NEW j \in 1 .. n
      PROVE  Seen(after[j]) = Seen(before[j])
  <2>1. CASE j = k
    BY <2>1, <1>5, <1>6
  <2>2. CASE j # k
    BY <2>2, <1>5, <1>6
  <2> QED BY <2>1, <2>2
<1>10. /\ Shown(before) \in Seq(SeenCall) /\ Len(Shown(before)) = n
       /\ \A j \in 1 .. n : Shown(before)[j] = Seen(before[j])
  BY <1>3, ShownFacts
<1>11. /\ Shown(after) \in Seq(SeenCall) /\ Len(Shown(after)) = n
       /\ \A j \in 1 .. n : Shown(after)[j] = Seen(after[j])
  BY <1>8, ShownFacts
<1>12. Shown(after) = Shown(before)
  BY <1>9, <1>10, <1>11, ShownSame
<1> QED BY <1>2, <1>12 DEF Shown

LEMMA EnterUnseen ==
  ASSUME IInv, IInv', stack # <<>>, NEW f, NEW s, NEW d, EnterIsValid(f, s, d)
  PROVE  Unseen
<1>1. PICK r : r = [Cur EXCEPT !.flag = TRUE]
  OBVIOUS
<1>2. SetContext(r) /\ last' = last
  BY <1>1 DEF EnterIsValid
<1>3. Seen(r) = Seen(Cur)
  BY <1>1, TopFacts DEF Seen, Context
<1> QED BY <1>2, <1>3, ViewKept DEF Unseen

LEMMA EnsureUnseen ==
  ASSUME IInv, IInv', stack # <<>>, IsValidEnsure
  PROVE  Shown(ctx)' = Shown(ctx)
<1>1. PICK r : r = [Cur EXCEPT !.flag = Top.saved]
  OBVIOUS
<1>2. SetContext(r)
  BY <1>1 DEF IsValidEnsure
<1>3. Seen(r) = Seen(Cur)
  BY <1>1, TopFacts DEF Seen, Context
<1> QED BY <1>2, <1>3, ViewKept

LEMMA SameUnseen ==
  ASSUME UNCHANGED <<ctx, last>>
  PROVE  Unseen
BY DEF Unseen, Shown

LEMMA PlanUnseen ==
  ASSUME IInv, IInv', PlanStep
  PROVE  Unseen
<1>0. stack # <<>>
  BY DEF PlanStep, Enter, Perform, PassOver, RaiseError, IncrContext, DecrContext,
         AddToContext, PlanReturns, Pending, Running
<1>1. Cur \in Context
  BY <1>0, TopFacts
<1>2. CASE Enter \/ Perform \/ PassOver \/ RaiseError \/ PlanReturns
  BY <1>2, SameUnseen DEF Enter, Perform, PassOver, RaiseError, PlanReturns
<1>3. CASE IncrContext
  <2>1. PICK r : r = [Cur EXCEPT !.depth = @ + 1]
    OBVIOUS
  <2>2. SetContext(r) /\ last' = last
    BY <1>3, <2>1 DEF IncrContext
  <2>3. Seen(r) = Seen(Cur)
    BY <1>1, <2>1 DEF Seen, Context
  <2> QED BY <1>0, <2>2, <2>3, ViewKept DEF Unseen
<1>4. CASE DecrContext
  <2>1. PICK r : r = [Cur EXCEPT !.depth = @ - 1]
    OBVIOUS
  <2>2. SetContext(r) /\ last' = last
    BY <1>4, <2>1 DEF DecrContext
  <2>3. Seen(r) = Seen(Cur)
    BY <1>1, <2>1 DEF Seen, Context
  <2> QED BY <1>0, <2>2, <2>3, ViewKept DEF Unseen
<1>5. CASE AddToContext
  <2>1. PICK seg : /\ \/ SetContext([Cur EXCEPT !.path[Cur.depth] = seg])
                      \/ UNCHANGED ctx
                   /\ last' = last
    BY <1>5 DEF AddToContext
  <2>2. PICK r : r = [Cur EXCEPT !.path[Cur.depth] = seg]
    OBVIOUS
  <2>3. Seen(r) = Seen(Cur)
    BY <1>1, <2>2 DEF Seen, Context
  <2> QED BY <1>0, <2>1, <2>2, <2>3, ViewKept, SameUnseen DEF Unseen
<1> QED BY <1>2, <1>3, <1>4, <1>5 DEF PlanStep

LEMMA CombinatorUnseen ==
  ASSUME IInv, IInv', CombinatorStep
  PROVE  Unseen
<1>0. stack # <<>>
  BY DEF CombinatorStep, TryBranch, CountBranch, EndBranches, TryItem, EndContains, TryNot,
         EndNot, TryIf, TryChosen, NothingChosen, EndIf, At, Running
<1>1. CASE CountBranch \/ EndBranches \/ EndContains \/ EndNot \/ NothingChosen \/ EndIf
  BY <1>1, SameUnseen DEF CountBranch, EndBranches, EndContains, EndNot, NothingChosen, EndIf
<1>2. CASE TryBranch \/ TryItem \/ TryNot \/ TryIf \/ TryChosen
  <2>1. \E f, s, d : EnterIsValid(f, s, d)
    BY <1>2 DEF TryBranch, TryItem, TryNot, TryIf, TryChosen
  <2> QED BY <1>0, <2>1, EnterUnseen
<1> QED BY <1>1, <1>2 DEF CombinatorStep

(* The last call under way, as its caller sees it.                         *)
LEMMA LastSeen ==
  ASSUME IInv, stack # <<>>
  PROVE  /\ Shown(ctx) # <<>> /\ Len(Shown(ctx)) = Len(ctx) /\ ctx # <<>>
         /\ Promise!Last = Seen(Cur)
         /\ Cur.call \in Call
         /\ Seen(Cur).call = Cur.call
         /\ Seen(Cur).reported <=> Cur.errors # <<>>
         /\ Seen(Cur).disturbed <=> Cur.disturbed
         /\ Cur.call \in {call \in Call : Conforms[call.cs][call.d]} <=> Truth(Top.c)
<1>1. /\ ctx \in Seq(Context) /\ Len(ctx) \in 1 .. Len(ctx) /\ Top.c = Len(ctx)
      /\ Cur \in Context
  BY TopFacts DEF IInv, TypeOK
<1>2. /\ Len(Shown(ctx)) = Len(ctx)
      /\ \A j \in 1 .. Len(ctx) : Shown(ctx)[j] = Seen(ctx[j])
      /\ ctx = <<>> <=> Shown(ctx) = <<>>
  BY <1>1, ShownFacts
<1>3. ctx # <<>>
  BY <1>1
<1>4. Promise!Last = Seen(Cur)
  BY <1>1, <1>2 DEF Promise!Last, Cur
<1>5. Cur.call \in Call /\ Cur.disturbed \in BOOLEAN
  BY <1>1 DEF Context
<1>6. /\ Seen(Cur).call = Cur.call
      /\ Seen(Cur).reported <=> Cur.errors # <<>>
      /\ Seen(Cur).disturbed <=> Cur.disturbed
  BY <1>5 DEF Seen
<1>7. Cur.call \in {call \in Call : Conforms[call.cs][call.d]} <=> Truth(Top.c)
  BY <1>5 DEF Truth, Cur
<1> QED BY <1>2, <1>3, <1>4, <1>5, <1>6, <1>7

LEMMA CallOpens ==
  ASSUME IInv, NEW call \in Calls \cup NestedCalls, NEW base, OpenSession(base, call),
         UNCHANGED last
  PROVE  Promise!Open
<1>1. call \in Call /\ ctx \in Seq(Context) /\ ctx' = Append(ctx, NewContext(call))
  BY CallsAssumption DEF OpenSession, IInv, TypeOK
<1>2. NewContext(call) \in Context
  BY <1>1, NewContextType
<1>3. Seen(NewContext(call)) = [call |-> call, reported |-> FALSE, disturbed |-> FALSE]
  BY DEF Seen, NewContext
<1>4. Shown(ctx') = Append(Shown(ctx), Seen(NewContext(call)))
  BY <1>1, <1>2, ShownOpens
<1>5. Len(Shown(ctx')) = Len(Shown(ctx)) + 1
  <2>1. PICK view \in Seq(SeenCall) : view = Shown(ctx)
    BY <1>1, ShownFacts
  <2>2. Seen(NewContext(call)) \in SeenCall
    BY <1>1, <1>3 DEF SeenCall
  <2>3. Len(Append(view, Seen(NewContext(call)))) = Len(view) + 1
    BY <2>1, <2>2
  <2> QED BY <1>4, <2>1, <2>3
<1>6. Shown(ctx)' = Shown(ctx')
  BY DEF Shown
<1> QED BY <1>3, <1>4, <1>5, <1>6 DEF Promise!Open

LEMMA CallCloses ==
  ASSUME IInv, stack # <<>>, NEW outcome, CloseSession(outcome)
  PROVE  Promise!Answer(outcome)
<1>1. /\ ctx \in Seq(Context)
      /\ ctx' = SubSeq(ctx, 1, Len(ctx) - 1)
      /\ last' = [outcome |-> outcome, call |-> Cur.call,
                  reported |-> Cur.errors # <<>>, disturbed |-> Cur.disturbed]
  BY DEF CloseSession, IInv, TypeOK
<1>2. Shown(ctx') = SubSeq(Shown(ctx), 1, Len(Shown(ctx)) - 1)
  BY <1>1, LastSeen, ShownCloses
<1>3. Shown(ctx)' = Shown(ctx')
  BY DEF Shown
<1>4. last' = [outcome |-> outcome, call |-> Promise!Last.call,
               reported |-> Promise!Last.reported, disturbed |-> Promise!Last.disturbed]
  <2>1. Promise!Last = Seen(Cur)
    BY LastSeen
  <2> QED BY <1>1, <2>1 DEF Seen
<1> QED BY <1>2, <1>3, <1>4, LastSeen DEF Promise!Answer, Promise!Front

(* A context whose call was reported on, or disturbed.                     *)
LEMMA CallMarked ==
  ASSUME IInv, stack # <<>>, NEW r \in Context, SetContext(r)
  PROVE  Shown(ctx)' = [Shown(ctx) EXCEPT ![Len(Shown(ctx))] = Seen(r)]
<1>1. ctx \in Seq(Context) /\ Top.c = Len(ctx) /\ Top.c \in 1 .. Len(ctx)
  BY TopFacts DEF IInv, TypeOK
<1>2. Len(Shown(ctx)) = Top.c
  BY <1>1, LastSeen
<1>3. Shown(ctx') = [Shown(ctx) EXCEPT ![Top.c] = Seen(r)]
  BY <1>1, ShownChanges DEF SetContext
<1>4. Shown(ctx)' = Shown(ctx')
  BY DEF Shown
<1> QED BY <1>2, <1>3, <1>4

-----------------------------------------------------------------------------
LEMMA SessionKeeps ==
  ASSUME IInv, IInv', Places, SessionStep
  PROVE  Unseen \/ Promise!VNext
<1>1. CASE Start
  <2>1. PICK call \in Calls : OpenSession(<<>>, call) /\ UNCHANGED last
    BY <1>1 DEF Start
  <2> QED BY <2>1, CallOpens DEF Promise!VNext
<1>2. CASE ValidCalls
  <2>1. stack # <<>> /\ EnterIsValid([Top EXCEPT !.pc = "branch"], Top.cs, Top.d)
    BY <1>2 DEF ValidCalls, At, Running
  <2> QED BY <2>1, EnterUnseen
<1>3. CASE IsValidReturns
  <2>1. stack # <<>> /\ IsValidEnsure /\ last' = last
    BY <1>3 DEF IsValidReturns, At, Running
  <2> QED BY <2>1, EnsureUnseen DEF Unseen
<1>4. ASSUME stack # <<>>, Top.fn \in SessionFn
      PROVE  /\ Cur.call.fn = Top.fn
             /\ Sure(Top.c) <=> ~Cur.disturbed
             /\ Truth(Top.c) <=> Goal(Top)
             /\ Truth(Top.c) <=> Conforms[Top.cs][Top.d]
  <2>1. /\ Top \in Frame /\ stack[Len(stack)] = Top /\ Len(stack) \in 1 .. Len(stack)
    BY <1>4, TopFacts, Depths
  <2>2. Cur.call = [fn |-> Top.fn, cs |-> Top.cs, d |-> Top.d]
    BY <1>4, <2>1 DEF Places, Answering, Cur
  <2>3. Truth(Top.c) <=> Conforms[Top.cs][Top.d]
    BY <2>2 DEF Truth, Cur
  <2> QED BY <1>4, <2>1, <2>2, <2>3, BranchGoal DEF Sure, Cur
<1>5. CASE ValidateReturns
  <2>1. /\ exc = "none" /\ stack # <<>> /\ Top.fn = "rb_validate" /\ Top.pc = "plan"
        /\ Top.todo = <<>> /\ CloseSession("nil")
    BY <1>5 DEF ValidateReturns, At, Running
  <2>2. Promise!Answer("nil")
    BY <2>1, CallCloses
  <2>3. ~Cur.disturbed => (Cur.errors # <<>> <=> ~Truth(Top.c))
    <3> SUFFICES ASSUME ~Cur.disturbed
                 PROVE  Cur.errors # <<>> <=> ~Truth(Top.c)
      OBVIOUS
    <3>1. /\ Top.c \in 1 .. Len(ctx) /\ stack[Len(stack)] = Top
          /\ Sure(Top.c)
      BY <2>1, TopFacts DEF Sure, Cur
    <3>2. CASE Cur.errors # <<>>
      BY <3>1, <3>2 DEF Places, ReportsTrue, Reported, Cur
    <3>3. CASE Cur.errors = <<>>
      <4>1. Hopeful(Len(stack))
        BY <3>1, <3>3 DEF Hopeful, Reported, Cur
      <4>2. Completes(Top)
        BY <2>1, <4>1 DEF Places, TopCompletes
      <4>3. StepsOf(Top.todo) = {}
        <5>1. StepsOf(<<>>) = {}
          BY DEF StepsOf
        <5> QED BY <2>1, <5>1
      <4>4. Goal(Top)
        BY <2>1, <4>2, <4>3 DEF Completes
      <4>5. Truth(Top.c)
        BY <1>4, <2>1, <4>4 DEF SessionFn
      <4> QED BY <3>3, <4>5
    <3> QED BY <3>2, <3>3
  <2>4. Cur.call.fn = "rb_validate"
    BY <1>4, <2>1 DEF SessionFn
  <2>5. Promise!AnswerValidate
    BY <2>1, <2>2, <2>3, <2>4, LastSeen DEF Promise!AnswerValidate
  <2> QED BY <2>5 DEF Promise!VNext
<1>6. CASE ValidReturns
  <2>1. /\ exc = "none" /\ stack # <<>> /\ Top.fn = "rb_valid" /\ Top.pc = "branch"
        /\ CloseSession(IF ret THEN "true" ELSE "false")
    BY <1>6 DEF ValidReturns, At, Running
  <2>2. PICK b \in BOOLEAN : b = ret
    BY DEF IInv, TypeOK
  <2>3. Promise!Answer(IF b THEN "true" ELSE "false")
    BY <2>1, <2>2, CallCloses
  <2>4. ~Cur.disturbed => (b <=> Truth(Top.c))
    <3> SUFFICES ASSUME ~Cur.disturbed
                 PROVE  b <=> Truth(Top.c)
      OBVIOUS
    <3>1. Asked(Top).cs = Top.cs /\ Asked(Top).d = Top.d
      <4>1. Asked(Top) = AskedOf(Top.cs, Top.d)
        BY <2>1 DEF Asked, BranchFn
      <4> QED BY <4>1 DEF AskedOf
    <3>2. Running /\ Top.pc \in Deciding /\ Sure(Top.c)
      BY <2>1 DEF Running, Deciding, Sure, Cur
    <3>3. ret <=> Conforms[Top.cs][Top.d]
      BY <3>1, <3>2 DEF Places, ReturnTrue
    <3> QED BY <1>4, <2>1, <2>2, <3>3 DEF SessionFn
  <2>5. Cur.call.fn = "rb_valid"
    BY <1>4, <2>1 DEF SessionFn
  <2>6. Promise!AnswerValid
    <3>1. Promise!Last.call.fn = "rb_valid"
      BY <2>1, <2>5, LastSeen
    <3>2. ~Promise!Last.disturbed
            => b = (Promise!Last.call \in {call \in Call : Conforms[call.cs][call.d]})
      BY <2>1, <2>4, LastSeen
    <3> QED BY <2>3, <3>1, <3>2 DEF Promise!AnswerValid
  <2> QED BY <2>6 DEF Promise!VNext
<1> QED BY <1>1, <1>2, <1>3, <1>5, <1>6 DEF SessionStep

LEMMA SeenReported ==
  ASSUME NEW before \in SeenCall, NEW after \in SeenCall, after.call = before.call,
         after.reported = TRUE, after.disturbed = before.disturbed
  PROVE  after = [before EXCEPT !.reported = TRUE]
BY DEF SeenCall

LEMMA SeenDisturbed ==
  ASSUME NEW before \in SeenCall, NEW after \in SeenCall, after.call = before.call,
         after.reported = before.reported, after.disturbed = TRUE
  PROVE  after = [before EXCEPT !.disturbed = TRUE]
BY DEF SeenCall

LEMMA SeenType ==
  ASSUME NEW r \in Context
  PROVE  /\ Seen(r) \in SeenCall /\ Seen(r).call = r.call
         /\ Seen(r).reported = (r.errors # <<>>)
         /\ Seen(r).disturbed = r.disturbed
BY DEF Seen, SeenCall, Context

LEMMA ErrorKeeps ==
  ASSUME IInv, IInv', Places, ErrorStep
  PROVE  Unseen \/ Promise!VNext
<1>0. stack # <<>> /\ Top.fn = "yield_error" /\ last' = last
  BY DEF ErrorStep, ShortCircuit, YieldToBlock, At, Running
<1>1. /\ Top \in Frame /\ Cur \in Context /\ Top.c \in 1 .. Len(ctx) /\ Len(ctx) \in Nat
  BY <1>0, TopFacts
<1>2. CASE UNCHANGED ctx
  BY <1>0, <1>2, SameUnseen
<1>3. CASE ctx' # ctx
  <2>1. PICK e : /\ ~Cur.flag
                 /\ SetContext([Cur EXCEPT !.errors = Append(@, e)])
    BY <1>3 DEF ErrorStep, ShortCircuit, YieldToBlock
  <2>2. PICK errors, r : /\ errors = Append(Cur.errors, e)
                         /\ r = [Cur EXCEPT !.errors = errors]
    OBVIOUS
  <2>3. SetContext(r)
    BY <2>1, <2>2
  <2>4. /\ r.call = Cur.call /\ r.errors = errors
        /\ r.disturbed = Cur.disturbed
    BY <1>1, <2>2 DEF Context
  <2>5. r \in Context
    <3>1. ctx \in Seq(Context) /\ ctx' \in Seq(Context)
      BY DEF IInv, TypeOK
    <3>2. ctx'[Top.c] = r /\ Top.c \in DOMAIN ctx'
      BY <1>1, <2>3, <3>1 DEF SetContext
    <3> QED BY <3>1, <3>2, LenProperties
  <2>6. errors # <<>>
    <3>1. PICK before \in Seq(Error) : before = Cur.errors
      BY <1>1 DEF Context
    <3>2. errors \in Seq(Error)
      BY <2>4, <2>5 DEF Context
    <3>3. Len(errors) = Len(before) + 1 /\ Len(before) \in Nat
      BY <2>2, <3>1
    <3> QED BY <3>3
  <2>7. Seen(r) = [call |-> Cur.call, reported |-> TRUE, disturbed |-> Cur.disturbed]
    BY <2>4, <2>6 DEF Seen
  <2>8. CASE Cur.errors # <<>>
    <3>1. Seen(r) = Seen(Cur)
      BY <2>7, <2>8 DEF Seen
    <3> QED BY <1>0, <2>3, <3>1, ViewKept DEF Unseen
  <2>9. CASE Cur.errors = <<>>
    <3>1. Cur.call.fn = "rb_validate" /\ (~Cur.disturbed => ~Truth(Top.c))
      <4>1. Top.fn \notin SessionFn
        BY <1>0 DEF SessionFn
      <4>2. ~Goal(Top)
        BY <1>0, <1>1, BranchGoal
      <4> QED BY <1>0, <2>1, <4>1, <4>2, OpenAnswer DEF Sure, Cur
    <3>2. Shown(ctx)' = [Shown(ctx) EXCEPT ![Len(Shown(ctx))] = Seen(r)]
      BY <1>0, <2>3, <2>5, CallMarked
    <3>3. Seen(r) = [Promise!Last EXCEPT !.reported = TRUE]
      <4>1. /\ Seen(r).call = Seen(Cur).call /\ Seen(r).reported = TRUE
            /\ Seen(r).disturbed = Seen(Cur).disturbed
        <5>1. Seen(r).call = Seen(Cur).call /\ Seen(r).disturbed = Seen(Cur).disturbed
          BY <1>1, <2>4, <2>5, SeenType
        <5> QED BY <2>7, <5>1
      <4>2. Seen(r) = [Seen(Cur) EXCEPT !.reported = TRUE]
        BY <1>1, <2>5, <4>1, SeenType, SeenReported
      <4> QED BY <1>0, <4>2, LastSeen
    <3>4. Shown(ctx)' = [Shown(ctx) EXCEPT ![Len(Shown(ctx))].reported = TRUE]
      BY <3>2, <3>3 DEF Promise!Last
    <3>5. /\ Shown(ctx) # <<>> /\ Promise!Last.call.fn = "rb_validate"
          /\ ~Promise!Last.reported
          /\ \/ Promise!Last.call \notin {call \in Call : Conforms[call.cs][call.d]}
             \/ Promise!Last.disturbed
      BY <1>0, <2>9, <3>1, LastSeen
    <3>6. Promise!Report
      BY <1>0, <3>4, <3>5 DEF Promise!Report
    <3> QED BY <3>6 DEF Promise!VNext
  <2> QED BY <2>8, <2>9
<1> QED BY <1>2, <1>3

LEMMA UserKeeps ==
  ASSUME IInv, UserStep
  PROVE  Unseen \/ Promise!VNext
<1>1. CASE UserCodeCalls
  <2>1. PICK call \in NestedCalls : \E base : OpenSession(base, call) /\ UNCHANGED last
    BY <1>1 DEF UserCodeCalls
  <2>2. PICK base : OpenSession(base, call) /\ UNCHANGED last
    BY <2>1
  <2> QED BY <2>2, CallOpens DEF Promise!VNext
<1>2. CASE BlockReturns \/ BlockLeaves \/ UserCodeRescues \/ CallableAnswers \/ CallableRaises
  BY <1>2, SameUnseen
     DEF BlockReturns, BlockLeaves, UserCodeRescues, CallableAnswers, CallableRaises
<1> QED BY <1>1, <1>2 DEF UserStep

LEMMA UnwindKeeps ==
  ASSUME IInv, IInv', Places, UnwindStep
  PROVE  Unseen \/ Promise!VNext
<1>0. stack # <<>>
  BY DEF UnwindStep, UnwindIsValid, ProtectStops, UnwindSession, UnwindFrame, Unwinding
<1>1. Cur \in Context
  BY <1>0, TopFacts
<1>2. CASE UnwindIsValid
  <2>1. IsValidEnsure /\ last' = last
    BY <1>2 DEF UnwindIsValid
  <2> QED BY <1>0, <2>1, EnsureUnseen DEF Unseen
<1>3. CASE UnwindFrame
  <2>1. PICK r : r = [Cur EXCEPT !.leaks =
                        @ + (Len(Top.loc) - Len(stack[Len(stack) - 1].loc))]
    OBVIOUS
  <2>2. SetContext(r) /\ last' = last
    BY <1>3, <2>1 DEF UnwindFrame
  <2>3. Seen(r) = Seen(Cur)
    BY <1>1, <2>1 DEF Seen, Context
  <2> QED BY <1>0, <2>2, <2>3, ViewKept DEF Unseen
<1>4. CASE ProtectStops
  <2>1. PICK accepted \in BOOLEAN :
          accepted <=> Top.d \in Compiled[Top.cs].formatOk \ Compiled[Top.cs].formatRaise
    OBVIOUS
  <2>2. PICK r : r = [Cur EXCEPT !.disturbed = Cur.disturbed \/ accepted]
    OBVIOUS
  <2>3. SetContext(r) /\ last' = last
    BY <1>4, <2>1, <2>2 DEF ProtectStops
  <2>4. /\ r \in Context /\ r.call = Cur.call /\ r.errors = Cur.errors
        /\ r.disturbed <=> Cur.disturbed \/ accepted
    BY <1>1, <2>2 DEF Context
  <2>5. CASE Cur.disturbed \/ ~accepted
    <3>1. r.disturbed = Cur.disturbed
      BY <1>1, <2>4, <2>5 DEF Context
    <3>2. Seen(r) = Seen(Cur)
      BY <2>4, <3>1 DEF Seen
    <3> QED BY <1>0, <2>3, <3>2, ViewKept DEF Unseen
  <2>6. CASE ~Cur.disturbed /\ accepted
    <3>1. r.disturbed = TRUE
      BY <2>4, <2>6 DEF Context
    <3>2. Seen(r) = [Seen(Cur) EXCEPT !.disturbed = TRUE]
      <4>1. /\ Seen(r).call = Seen(Cur).call /\ Seen(r).reported = Seen(Cur).reported
            /\ Seen(r).disturbed = TRUE
        BY <1>1, <2>4, <3>1, SeenType
      <4> QED BY <1>1, <2>4, <4>1, SeenType, SeenDisturbed
    <3>3. Shown(ctx)' = [Shown(ctx) EXCEPT ![Len(Shown(ctx))] = Seen(r)]
      BY <1>0, <2>3, <2>4, CallMarked
    <3>4. Shown(ctx)' = [Shown(ctx) EXCEPT ![Len(Shown(ctx))].disturbed = TRUE]
      BY <1>0, <3>2, <3>3, LastSeen DEF Promise!Last
    <3>5. Promise!Disturb
      BY <1>0, <2>3, <3>4, LastSeen DEF Promise!Disturb
    <3> QED BY <3>5 DEF Promise!VNext
  <2> QED BY <2>5, <2>6
<1>5. CASE UnwindSession
  <2>1. \/ exc = "break" /\ CloseSession("broken")
        \/ CloseSession("raised")
    BY <1>5 DEF UnwindSession
  <2>2. CASE exc = "break" /\ CloseSession("broken")
    <3>1. Promise!Answer("broken")
      BY <1>0, <2>2, CallCloses
    <3>2. Cur.errors # <<>>
      BY <2>2 DEF Places, ExitTrue, Reported, Cur
    <3> QED BY <1>0, <3>1, <3>2, LastSeen DEF Promise!Leave, Promise!VNext
  <2>3. CASE CloseSession("raised")
    <3>1. Promise!Answer("raised")
      BY <1>0, <2>3, CallCloses
    <3> QED BY <3>1 DEF Promise!Leave, Promise!VNext
  <2> QED BY <2>1, <2>2, <2>3
<1> QED BY <1>2, <1>3, <1>4, <1>5 DEF UnwindStep

LEMMA StepKeeps ==
  ASSUME IInv, IInv', AnswerInv, [Next]_vars
  PROVE  [Promise!VNext]_(Promise!vvars)
<1>1. Places
  BY PlacesHold DEF IInv
<1>2. Finished \/ UNCHANGED vars => Unseen
  BY SameUnseen DEF Finished, vars
<1>3. Unseen \/ Promise!VNext
  BY <1>1, <1>2, SessionKeeps, PlanUnseen, CombinatorUnseen, ErrorKeeps, UserKeeps, UnwindKeeps
     DEF Next
<1>4. Unseen => UNCHANGED Promise!vvars
  BY DEF Unseen, Promise!vvars
<1> QED BY <1>3, <1>4

(* The engine implements Verdict: valid? answers true exactly for the      *)
(* values that conform to their schema; validate hands its block an error  *)
(* exactly for those that do not, however calls nest, and whatever the     *)
(* blocks and callables raise.  To conform is what draft 7 says, but for   *)
(* the numbers it accepts and the functions refuse (WholeFloat,            *)
(* WideQuotient).                                                          *)
THEOREM EngineKeepsPromise == Spec => KeepsPromise
<1>1. Init => Promise!VInit
  <2> SUFFICES ASSUME Init
               PROVE  Promise!VInit
    OBVIOUS
  <2>1. ctx = <<>> /\ last = NoResult /\ ctx \in Seq(Context)
    BY InitIInv DEF Init, IInv, TypeOK
  <2>2. Shown(ctx) = <<>>
    BY <2>1, ShownFacts
  <2> QED BY <2>1, <2>2 DEF Promise!VInit, Promise!None, NoResult
<1>2. IInv /\ IInv' /\ AnswerInv /\ [Next]_vars => [Promise!VNext]_(Promise!vvars)
  BY StepKeeps
<1> QED BY <1>1, <1>2, Invariance, AnswersAreRight, PTL DEF Spec, KeepsPromise, Promise!VSpec
=============================================================================
