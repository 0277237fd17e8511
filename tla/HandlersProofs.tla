--------------------------- MODULE HandlersProofs ---------------------------
(***************************************************************************)
(* Every plan is a sequence of well-formed steps, whatever the schema and  *)
(* the document: the step functions never index an array, a member list or *)
(* a keyword's list out of its bounds.  And every plan balances its path   *)
(* levels: it has the shape that PlanShapes describes.                     *)
(***************************************************************************)
EXTENDS PlanShapes, SequenceTheorems, TLAPS

PlainOp == Op \ (PathOp \cup {"validate_object_property"})

LEMMA StructType ==
  ASSUME NEW s \in Schema
  PROVE  Compiled[s] \in Struct
BY CompiledAssumption

LEMMA ValueType1 ==
  ASSUME NEW d \in Data
  PROVE  Doc[d] \in Value
BY DocAssumption

(* The function names and the macros a plan may perform.                   *)
LEMMA Ops ==
  /\ TypeFn \subseteq PlainOp
  /\ SchemaFn \subseteq PlainOp
  /\ Combinator \subseteq PlainOp
  /\ ArrayFn \subseteq PlainOp
  /\ {"validate_properties", "yield_error", "validate_custom_format", "skip", "raise"}
       \subseteq PlainOp
  /\ PlainOp \subseteq Op
  /\ PathOp \subseteq Op /\ "validate_object_property" \in Op
BY DEF PlainOp, PathOp, Op, CallFn, FnName, TypeFn, SchemaFn, Combinator, ArrayFn,
       ObjectFn, OtherFn

(* What Do builds is a step, and a plain one for a plain operation.        *)
LEMMA DoType ==
  ASSUME NEW fn \in Op, NEW s \in Schema, NEW d \in Data, NEW i \in Nat,
         i # 0 => fn = "validate_object_property"
  PROVE  /\ Do(fn, s, d, i) \in Step
         /\ Do(fn, s, d, i).do = fn
         /\ fn \in PlainOp => Do(fn, s, d, i) \in Plain
<1>1. Nil \in Segment
  BY DEF Nil, Segment
<1>2. "none" \in ErrorType
  BY DEF ErrorType
<1>3. Do(fn, s, d, i) \in Step /\ Do(fn, s, d, i).do = fn
  BY <1>1, <1>2 DEF Do, Step
<1> QED BY <1>3 DEF Plain, PlainOp

(* The steps that leave the path alone.                                    *)
LEMMA StepTypes ==
  ASSUME NEW s \in Schema, NEW d \in Data
  PROVE  /\ Run(s, d) \in Plain
         /\ Skip(s, d) \in Plain
         /\ RaiseStep(s, d) \in Plain
         /\ \A type \in ErrorType : Err(s, d, type) \in Plain
<1>1. Compiled[s].fn \in PlainOp
  BY StructType, Ops DEF Struct
<1>2. Run(s, d) \in Plain /\ Skip(s, d) \in Plain /\ RaiseStep(s, d) \in Plain
  BY <1>1, Ops, DoType DEF Run, Skip, RaiseStep
<1>3. \A type \in ErrorType : Err(s, d, type) \in Plain
  BY Ops, DoType DEF Err, Step, Plain
<1> QED BY <1>2, <1>3

LEMMA PlainSteps == Plain \subseteq Step /\ Seq(Plain) \subseteq Seq(Step)
BY DEF Plain

(* The steps that do not.                                                  *)
LEMMA PathStepTypes ==
  ASSUME NEW s \in Schema, NEW d \in Data
  PROVE  /\ Incr(s, d) \in Step /\ Incr(s, d).do = "INCR_CONTEXT"
         /\ Decr(s, d) \in Step /\ Decr(s, d).do = "DECR_CONTEXT"
         /\ \A seg \in Segment :
              /\ Add(s, d, seg) \in Step
              /\ Add(s, d, seg).do = "ADD_TO_CONTEXT" /\ Add(s, d, seg).at = seg
<1>1. PathOp \subseteq Op
  BY Ops
<1>2. \A fn \in PathOp : Do(fn, s, d, 0) \in Step /\ Do(fn, s, d, 0).do = fn
  BY <1>1, DoType
<1>3. /\ Incr(s, d) \in Step /\ Incr(s, d).do = "INCR_CONTEXT"
      /\ Decr(s, d) \in Step /\ Decr(s, d).do = "DECR_CONTEXT"
  BY <1>2 DEF Incr, Decr, PathOp
<1>4. ASSUME NEW seg \in Segment
      PROVE  /\ Add(s, d, seg) \in Step
             /\ Add(s, d, seg).do = "ADD_TO_CONTEXT" /\ Add(s, d, seg).at = seg
  <2>1. Do("ADD_TO_CONTEXT", s, d, 0) \in Step
        /\ Do("ADD_TO_CONTEXT", s, d, 0).do = "ADD_TO_CONTEXT"
    BY <1>2 DEF PathOp
  <2> QED BY <2>1 DEF Add, Step
<1> QED BY <1>3, <1>4

(***************************************************************************)
(* Building plans.                                                         *)
(***************************************************************************)
LEMMA WhenType ==
  ASSUME NEW S, NEW b, NEW step, b => step \in S
  PROVE  When(b, step) \in Seq(S)
BY DEF When

LEMMA ErrIfType ==
  ASSUME NEW b, NEW s \in Schema, NEW d \in Data, NEW type \in ErrorType
  PROVE  ErrIf(b, s, d, type) \in Seq(Plain)
BY StepTypes, WhenType DEF ErrIf

LEMMA LimitType ==
  ASSUME NEW s \in Schema, NEW d \in Data, NEW k \in ErrorType, NEW violated
  PROVE  Limit(s, d, k, violated) \in Seq(Plain)
BY StepTypes, WhenType, ErrIfType DEF Limit

LEMMA Concat ==
  ASSUME NEW p \in Seq(Plain), NEW q \in Seq(Plain)
  PROVE  p \o q \in Seq(Plain)
BY ConcatProperties

LEMMA ConcatSteps ==
  ASSUME NEW p \in Seq(Step), NEW q \in Seq(Step)
  PROVE  /\ p \o q \in Seq(Step) /\ Len(p \o q) = Len(p) + Len(q)
         /\ \A k \in 1 .. Len(p) : (p \o q)[k] = p[k]
         /\ \A k \in 1 .. Len(q) : (p \o q)[Len(p) + k] = q[k]
BY ConcatProperties

(* The parentheses of a plan of several parts do not matter.               *)
Regroups(p, q, r) == (p \o q) \o r = p \o (q \o r)
LEMMA Regrouped ==
  ASSUME NEW S, NEW p \in Seq(S), NEW q \in Seq(S), NEW r \in Seq(S)
  PROVE  Regroups(p, q, r)
BY ConcatAssociative DEF Regroups

FiveRegrouped(p, q, r, u, v) == p \o q \o r \o u \o v = p \o (q \o r \o u \o v)
LEMMA FivePlans ==
  ASSUME NEW S, NEW p \in Seq(S), NEW q \in Seq(S), NEW r \in Seq(S),
         NEW u \in Seq(S), NEW v \in Seq(S)
  PROVE  FiveRegrouped(p, q, r, u, v)
<1>a. q \o r \in Seq(S)
  OBVIOUS
<1>1. PICK a \in Seq(S) : a = q \o r
  BY <1>a, Zenon
<1>b. a \o u \in Seq(S)
  OBVIOUS
<1>2. PICK b \in Seq(S) : b = a \o u
  BY <1>b, Zenon
<1>3. Regroups(p, q, r) /\ Regroups(p, a, u) /\ Regroups(p, b, v)
  BY Regrouped
<1> QED BY <1>1, <1>2, <1>3 DEF Regroups, FiveRegrouped

(* A plan of plain steps has the shape of a function that is not a loop.   *)
LEMMA PlainWhole ==
  ASSUME NEW fn, fn \notin LoopFn, NEW plan \in Seq(Plain)
  PROVE  /\ plan \in Seq(Step) /\ Remains(fn, plan)
         /\ fn # "validate_object_property" => Whole(fn, plan)
<1>1. plan \in Seq(Step)
  BY DEF Plain
<1>2. \A k \in 1 .. Len(plan) :
        plan[k].do \notin {"INCR_CONTEXT", "DECR_CONTEXT", "ADD_TO_CONTEXT",
                         "validate_object_property"}
  BY DEF Plain, PathOp
<1>3. fn # "validate_properties"
  BY DEF LoopFn
<1> QED BY <1>1, <1>2, <1>3 DEF Remains, Whole

(***************************************************************************)
(* validate.c and the checks on scalars.                                   *)
(***************************************************************************)
LEMMA ValidatePlanType ==
  ASSUME NEW s \in Schema, NEW d \in Data
  PROVE  ValidatePlan(s, d) \in Seq(Plain)
<1> DEFINE Combine(k, fn) == When(Has(s, k), Do(fn, s, d, 0))
<1>1. ASSUME NEW k, NEW fn \in Combinator
      PROVE  Combine(k, fn) \in Seq(Plain)
  <2>1. Do(fn, s, d, 0) \in Plain
    BY DoType, Ops
  <2> QED BY <2>1, WhenType
<1>2. <<Do(Compiled[s].typeFn, s, d, 0)>> \in Seq(Plain)
  <2>1. Compiled[s] \in Struct
    BY StructType
  <2>2. Compiled[s].typeFn \in TypeFn
    BY <2>1 DEF Struct
  <2>3. Do(Compiled[s].typeFn, s, d, 0) \in Plain
    BY <2>2, Ops, DoType
  <2> QED BY <2>3
<1>3. ErrIf(Has(s, "const") /\ d \notin Compiled[s].const, s, d, "const") \in Seq(Plain)
  BY ErrIfType DEF ErrorType
<1>4. ErrIf(Has(s, "enum") /\ d \notin Compiled[s].enum, s, d, "enum") \in Seq(Plain)
  BY ErrIfType DEF ErrorType
<1>5. /\ Combine("if", "validate_if") \in Seq(Plain)
      /\ Combine("not", "validate_not") \in Seq(Plain)
      /\ Combine("allOf", "validate_all_of") \in Seq(Plain)
      /\ Combine("anyOf", "validate_any_of") \in Seq(Plain)
      /\ Combine("oneOf", "validate_one_of") \in Seq(Plain)
  BY <1>1 DEF Combinator
<1> HIDE DEF Combine
<1>6. <<Do(Compiled[s].typeFn, s, d, 0)>>
        \o ErrIf(Has(s, "const") /\ d \notin Compiled[s].const, s, d, "const")
        \o ErrIf(Has(s, "enum") /\ d \notin Compiled[s].enum, s, d, "enum")
        \o Combine("if", "validate_if")
        \o Combine("not", "validate_not")
        \o Combine("allOf", "validate_all_of")
        \o Combine("anyOf", "validate_any_of")
        \o Combine("oneOf", "validate_one_of") \in Seq(Plain)
  BY <1>2, <1>3, <1>4, <1>5, Concat
<1> QED BY <1>6 DEF ValidatePlan, Combine

LEMMA TypePlanTypes ==
  ASSUME NEW s \in Schema, NEW d \in Data
  PROVE  /\ DataTypePlan(s, d) \in Seq(Plain)
         /\ TypeListPlan(s, d) \in Seq(Plain)
         /\ NullPlan(s, d) \in Seq(Plain)
         /\ BoolPlan(s, d) \in Seq(Plain)
<1>1. \A t : TypeHandler(t) \in TypeFn
  BY DEF TypeHandler, TypeFn
<1>2. \A t : Do(TypeHandler(t), s, d, 0) \in Plain
  BY <1>1, DoType, Ops
<1>3. Do("validate_number", s, d, 0) \in Plain
  BY DoType, Ops DEF TypeFn
<1>4. DataTypePlan(s, d) \in Seq(Plain)
  BY <1>2, WhenType DEF DataTypePlan
<1>5. TypeListPlan(s, d) \in Seq(Plain)
  BY <1>2, <1>3, StepTypes DEF TypeListPlan, ErrorType
<1>6. NullPlan(s, d) \in Seq(Plain) /\ BoolPlan(s, d) \in Seq(Plain)
  BY ErrIfType DEF NullPlan, ErrorType, BoolPlan
<1> QED BY <1>4, <1>5, <1>6

LEMMA NumericPlanType ==
  ASSUME NEW s \in Schema, NEW d \in Data, NEW types, NEW typeError \in ErrorType,
         NEW multiple
  PROVE  NumericPlan(s, d, types, typeError, multiple) \in Seq(Plain)
<1> DEFINE x == Halves(d)
           limit(k) == LimitHalves(s, k)
<1>1. /\ Limit(s, d, "multipleOf", ~multiple) \in Seq(Plain)
      /\ Limit(s, d, "maximum", x > limit("maximum")) \in Seq(Plain)
      /\ Limit(s, d, "exclusiveMaximum", x >= limit("exclusiveMaximum")) \in Seq(Plain)
      /\ Limit(s, d, "minimum", x < limit("minimum")) \in Seq(Plain)
      /\ Limit(s, d, "exclusiveMinimum", x <= limit("exclusiveMinimum")) \in Seq(Plain)
  BY LimitType DEF ErrorType, LimitKeyword
<1>2. <<Err(s, d, typeError)>> \in Seq(Plain) /\ <<RaiseStep(s, d)>> \in Seq(Plain)
  BY StepTypes
<1>3. Limit(s, d, "multipleOf", ~multiple)
        \o Limit(s, d, "maximum", x > limit("maximum"))
        \o Limit(s, d, "exclusiveMaximum", x >= limit("exclusiveMaximum"))
        \o Limit(s, d, "minimum", x < limit("minimum"))
        \o Limit(s, d, "exclusiveMinimum", x <= limit("exclusiveMinimum")) \in Seq(Plain)
  BY <1>1, Concat
<1> QED BY <1>2, <1>3 DEF NumericPlan

LEMMA StringPlanType ==
  ASSUME NEW s \in Schema, NEW d \in Data
  PROVE  StringPlan(s, d) \in Seq(Plain)
<1> DEFINE c == Compiled[s]
           len == Doc[d].num
<1>1. /\ Limit(s, d, "maxLength", len > c.limit["maxLength"]) \in Seq(Plain)
      /\ Limit(s, d, "minLength", len < c.limit["minLength"]) \in Seq(Plain)
  BY LimitType DEF ErrorType, LimitKeyword
<1>2. /\ PatternCheck(s, d) \in Seq(Plain)
      /\ ErrIf(c.format = "builtin" /\ d \notin c.formatOk, s, d, "format") \in Seq(Plain)
  BY ErrIfType, StepTypes, WhenType DEF PatternCheck, ErrorType
<1>3. When(c.format = "custom", Do("validate_custom_format", s, d, 0)) \in Seq(Plain)
  BY DoType, Ops, WhenType
<1>4. <<Err(s, d, "type_string")>> \in Seq(Plain)
  BY StepTypes DEF ErrorType
<1>5. Limit(s, d, "maxLength", len > c.limit["maxLength"])
        \o Limit(s, d, "minLength", len < c.limit["minLength"])
        \o PatternCheck(s, d)
        \o ErrIf(c.format = "builtin" /\ d \notin c.formatOk, s, d, "format")
        \o When(c.format = "custom", Do("validate_custom_format", s, d, 0)) \in Seq(Plain)
  BY <1>1, <1>2, <1>3, Concat
<1> QED BY <1>4, <1>5 DEF StringPlan

(***************************************************************************)
(* Arrays.                                                                 *)
(***************************************************************************)
LEMMA ArrayPlanType ==
  ASSUME NEW s \in Schema, NEW d \in Data
  PROVE  ArrayPlan(s, d) \in Seq(Plain)
<1> DEFINE c == Compiled[s]
           len == Len(Doc[d].items)
           listed == Has(s, "itemsList") /\ ~Has(s, "items")
<1>1. /\ Limit(s, d, "maxItems", len > c.limit["maxItems"]) \in Seq(Plain)
      /\ Limit(s, d, "minItems", len < c.limit["minItems"]) \in Seq(Plain)
  BY LimitType DEF ErrorType, LimitKeyword
<1>2. ErrIf(Has(s, "uniqueItems") /\ ~NoDuplicates(Doc[d].items),
            s, d, "uniqueItems") \in Seq(Plain)
  BY ErrIfType DEF ErrorType
<1>3. ASSUME NEW b, NEW fn \in ArrayFn \cup Combinator
      PROVE  When(b, Do(fn, s, d, 0)) \in Seq(Plain)
  BY DoType, Ops, WhenType
<1>4. /\ When(Has(s, "items"), Do("validate_items", s, d, 0)) \in Seq(Plain)
      /\ When(listed, Do("validate_with_multiple_items_schema", s, d, 0)) \in Seq(Plain)
      /\ When(/\ listed
              /\ len > Len(c.list["itemsList"])
              /\ Has(s, "additionalItems"),
              Do("validate_additional_items", s, d, 0)) \in Seq(Plain)
      /\ When(Has(s, "contains"), Do("validate_contains", s, d, 0)) \in Seq(Plain)
  BY <1>3 DEF ArrayFn, Combinator
<1>5. <<Err(s, d, "type_array")>> \in Seq(Plain)
  BY StepTypes DEF ErrorType
<1>6. Limit(s, d, "maxItems", len > c.limit["maxItems"])
        \o Limit(s, d, "minItems", len < c.limit["minItems"])
        \o ErrIf(Has(s, "uniqueItems") /\ ~NoDuplicates(Doc[d].items), s, d, "uniqueItems")
        \o When(Has(s, "items"), Do("validate_items", s, d, 0))
        \o When(listed, Do("validate_with_multiple_items_schema", s, d, 0))
        \o When(/\ listed
                /\ len > Len(c.list["itemsList"])
                /\ Has(s, "additionalItems"),
                Do("validate_additional_items", s, d, 0))
        \o When(Has(s, "contains"), Do("validate_contains", s, d, 0)) \in Seq(Plain)
  BY <1>1, <1>2, <1>4, Concat
<1> QED BY <1>5, <1>6 DEF ArrayPlan

LEMMA Half ==
  ASSUME NEW k \in Nat
  PROVE  k \div 2 \in Nat /\ 2 * (k \div 2) <= k
OBVIOUS

(* A body between INCR_CONTEXT and DECR_CONTEXT.                           *)
LEMMA Enclosed ==
  ASSUME NEW s \in Schema, NEW d \in Data, NEW body \in Seq(Step), NEW fn \in LoopFn,
         \A k \in 1 .. Len(body) :
           /\ body[k].do \notin {"INCR_CONTEXT", "DECR_CONTEXT"}
           /\ IF fn = "validate_properties"
                THEN body[k].do = "validate_object_property"
                ELSE /\ body[k].do # "validate_object_property"
                     /\ body[k].do = "ADD_TO_CONTEXT" => body[k].at # Nil
                     /\ k = 1 => body[k].do = "ADD_TO_CONTEXT"
  PROVE  /\ <<Incr(s, d)>> \o body \o <<Decr(s, d)>> \in Seq(Step)
         /\ Whole(fn, <<Incr(s, d)>> \o body \o <<Decr(s, d)>>)
<1>1. PICK p, q, r, n : /\ p = <<Incr(s, d)>> /\ q = p \o body /\ r = q \o <<Decr(s, d)>>
                        /\ n = Len(body)
  OBVIOUS
<1>2. /\ p \in Seq(Step) /\ <<Decr(s, d)>> \in Seq(Step) /\ Len(p) = 1 /\ n \in Nat
      /\ Incr(s, d).do = "INCR_CONTEXT" /\ Decr(s, d).do = "DECR_CONTEXT"
      /\ p[1] = Incr(s, d) /\ Len(<<Decr(s, d)>>) = 1 /\ <<Decr(s, d)>>[1] = Decr(s, d)
  BY <1>1, PathStepTypes
<1>3. /\ q \in Seq(Step) /\ Len(q) = n + 1 /\ q[1].do = "INCR_CONTEXT"
      /\ \A k \in 1 .. n : q[1 + k] = body[k]
  <2>1. /\ q \in Seq(Step) /\ Len(q) = 1 + n
        /\ \A k \in 1 .. 1 : q[k] = p[k]
        /\ \A k \in 1 .. n : q[1 + k] = body[k]
    BY <1>1, <1>2, ConcatSteps
  <2> QED BY <1>2, <2>1
<1>4. /\ r \in Seq(Step) /\ Len(r) = n + 2
      /\ r[1].do = "INCR_CONTEXT" /\ r[n + 2].do = "DECR_CONTEXT"
      /\ \A k \in 1 .. n : r[1 + k] = body[k]
  <2>1. /\ r \in Seq(Step) /\ Len(r) = n + 1 + 1
        /\ \A k \in 1 .. n + 1 : r[k] = q[k]
        /\ \A k \in 1 .. 1 : r[n + 1 + k] = <<Decr(s, d)>>[k]
    BY <1>1, <1>2, <1>3, ConcatSteps
  <2>2. r[n + 1 + 1] = Decr(s, d) /\ n + 1 + 1 = n + 2
    BY <1>2, <2>1
  <2>3. r[1] = q[1] /\ \A k \in 1 .. n : 1 + k \in 1 .. n + 1
    BY <1>2, <2>1
  <2> QED BY <1>2, <1>3, <2>1, <2>2, <2>3
<1>5. \A k \in 1 .. n + 2 : k = 1 \/ k = n + 2 \/ (k - 1 \in 1 .. n /\ r[k] = body[k - 1])
  BY <1>2, <1>4
<1>6. fn \in ArrayFn => r[2].do \in {"ADD_TO_CONTEXT", "DECR_CONTEXT"}
  <2>1. fn \in ArrayFn => fn # "validate_properties"
    BY DEF ArrayFn
  <2>2. CASE n = 0
    BY <1>4, <2>2
  <2>3. CASE n > 0
    <3>1. 1 \in 1 .. n /\ r[2] = body[1]
      BY <1>2, <1>4, <2>3
    <3> QED BY <1>1, <2>1, <3>1
  <2> QED BY <1>2, <2>2, <2>3
<1>7. fn \in ArrayFn <=> fn # "validate_properties"
  BY DEF LoopFn, ArrayFn
<1>8. ASSUME NEW k \in 1 .. n + 2
      PROVE  /\ r[k].do = "INCR_CONTEXT" =>
                 fn \in LoopFn /\ k = 1
                 /\ (fn \in ArrayFn => r[2].do \in {"ADD_TO_CONTEXT", "DECR_CONTEXT"})
             /\ r[k].do = "DECR_CONTEXT" <=> fn \in LoopFn /\ k = n + 2
             /\ r[k].do = "ADD_TO_CONTEXT" =>
                 r[k].at # Nil /\ (fn \in ArrayFn \/ (fn = "validate_object_property" /\ k = 1))
             /\ r[k].do = "validate_object_property" => fn = "validate_properties"
             /\ fn = "validate_properties" =>
                 r[k].do \in {"INCR_CONTEXT", "DECR_CONTEXT", "validate_object_property"}
  <2>1. CASE k = 1
    BY <1>2, <1>4, <1>6, <2>1
  <2>2. CASE k = n + 2
    BY <1>2, <1>4, <2>2
  <2>3. CASE k - 1 \in 1 .. n /\ r[k] = body[k - 1]
    <3>1. k # n + 2
      BY <1>2, <2>3
    <3> QED BY <1>1, <1>7, <2>3, <3>1
  <2> QED BY <1>5, <2>1, <2>2, <2>3
<1>9. Remains(fn, r)
  BY <1>4, <1>8 DEF Remains
<1>10. Head(r).do = "INCR_CONTEXT"
  <2>1. r # <<>>
    <3>1. Len(r) > 0
      BY <1>2, <1>4
    <3>2. Len(<<>>) = 0
      OBVIOUS
    <3> QED BY <3>1, <3>2
  <2>2. Head(r) = r[1]
    BY <1>4, <2>1
  <2> QED BY <1>4, <2>2
<1>11. fn # "validate_object_property"
  BY DEF LoopFn, ArrayFn
<1> QED BY <1>1, <1>4, <1>9, <1>10, <1>11 DEF Whole

(* An item loop over items that exist, with a schema for each of them.     *)
LEMMA ItemLoopType ==
  ASSUME NEW s \in Schema, NEW d \in Data, NEW first \in Nat \ {0},
         NEW last \in 0 .. Len(Doc[d].items), NEW schemas,
         \A j \in first .. last : schemas[j] \in Schema
  PROVE  /\ ItemLoop(s, d, first, last, schemas) \in Seq(Step)
         /\ \A fn \in ArrayFn : Whole(fn, ItemLoop(s, d, first, last, schemas))
<1> DEFINE size == IF last >= first THEN 2 * (last - first + 1) ELSE 0
           item(j) == first + (j - 1) \div 2
           step(j) == IF j % 2 = 1 THEN Add(s, d, Item(item(j) - 1))
                                   ELSE Run(schemas[item(j)], Doc[d].items[item(j)])
<1>1. Doc[d].items \in Seq(Data) /\ Len(Doc[d].items) \in Nat
  BY ValueType1 DEF Value
<1>2. size \in Nat
  BY <1>1
<1>3. ASSUME NEW j \in 1 .. size
      PROVE  item(j) \in first .. last
  <2>1. last >= first /\ j <= 2 * (last - first + 1) /\ j - 1 \in Nat
    BY <1>1, <1>3
  <2>2. (j - 1) \div 2 \in Nat /\ 2 * ((j - 1) \div 2) <= j - 1
    BY <2>1, Half
  <2> QED BY <1>1, <2>1, <2>2
<1>4. ASSUME NEW j \in 1 .. size
      PROVE  /\ step(j) \in Step
             /\ step(j).do \notin {"INCR_CONTEXT", "DECR_CONTEXT", "validate_object_property"}
             /\ step(j).do = "ADD_TO_CONTEXT" => step(j).at # Nil
             /\ j = 1 => step(j).do = "ADD_TO_CONTEXT"
  <2>1. item(j) \in first .. last /\ item(j) \in 1 .. Len(Doc[d].items)
    BY <1>1, <1>3
  <2>2. item(j) - 1 \in Nat
    BY <1>1, <2>1
  <2> HIDE DEF item
  <2>3. Item(item(j) - 1) \in Segment /\ Item(item(j) - 1) # Nil
    BY <2>2 DEF Item, Segment, Nil
  <2>4. PICK seg \in Segment : seg = Item(item(j) - 1)
    BY <2>3
  <2>5. PICK add : /\ add = Add(s, d, seg) /\ add \in Step
                   /\ add.do = "ADD_TO_CONTEXT" /\ add.at # Nil
    BY <2>3, <2>4, PathStepTypes
  <2>6. schemas[item(j)] \in Schema /\ Doc[d].items[item(j)] \in Data
    BY <1>1, <2>1
  <2>7. PICK run : run = Run(schemas[item(j)], Doc[d].items[item(j)]) /\ run \in Plain
    BY <2>6, StepTypes
  <2>8. run \in Step /\ run.do \notin {"INCR_CONTEXT", "DECR_CONTEXT", "ADD_TO_CONTEXT",
                                      "validate_object_property"}
    BY <2>7 DEF Plain, PathOp
  <2>9. step(j) = IF j % 2 = 1 THEN add ELSE run
    BY <2>4, <2>5, <2>7
  <2> HIDE DEF step
  <2>10. j = 1 => j % 2 = 1
    OBVIOUS
  <2> QED BY <2>5, <2>8, <2>9, <2>10
<1> HIDE DEF step, size
<1>5. PICK body : /\ body = [j \in 1 .. size |-> step(j)] /\ body \in Seq(Step)
                  /\ Len(body) = size /\ \A j \in 1 .. size : body[j] = step(j)
  <2>1. PICK body : body = [j \in 1 .. size |-> step(j)]
    OBVIOUS
  <2>2. body \in Seq(Step) /\ Len(body) = size /\ \A j \in 1 .. size : body[j] = step(j)
    BY <1>2, <1>4, <2>1
  <2> QED BY <2>1, <2>2
<1>6. ASSUME NEW fn \in ArrayFn
      PROVE  /\ <<Incr(s, d)>> \o body \o <<Decr(s, d)>> \in Seq(Step)
             /\ Whole(fn, <<Incr(s, d)>> \o body \o <<Decr(s, d)>>)
  <2>1. fn \in LoopFn /\ fn # "validate_properties"
    BY DEF LoopFn, ArrayFn
  <2> QED BY <1>4, <1>5, <2>1, Enclosed
<1>7. "validate_items" \in ArrayFn
  BY DEF ArrayFn
<1>8. ItemLoop(s, d, first, last, schemas) = <<Incr(s, d)>> \o body \o <<Decr(s, d)>>
  BY <1>5 DEF ItemLoop, step, size
<1> QED BY <1>6, <1>7, <1>8

(* The three item loops stay inside the array and, for "items" given as a  *)
(* list, inside that list.                                                 *)
LEMMA ItemsPlanTypes ==
  ASSUME NEW s \in Schema, NEW d \in Data
  PROVE  \A fn \in ArrayFn : \A plan \in {ItemsPlan(s, d), MultipleItemsPlan(s, d),
                                        AdditionalItemsPlan(s, d)} :
           plan \in Seq(Step) /\ Whole(fn, plan)
<1> DEFINE Fine(plan) == plan \in Seq(Step) /\ \A fn \in ArrayFn : Whole(fn, plan)
<1> DEFINE list == Compiled[s].list["itemsList"]
           len == Len(Doc[d].items)
<1>1. list \in Seq(Schema) /\ Len(list) \in Nat
  BY StructType DEF Struct, ListKeyword
<1>2. /\ Compiled[s].sub["items"] \in Schema
      /\ Compiled[s].sub["additionalItems"] \in Schema
  BY StructType DEF Struct, SubKeyword
<1>3. Doc[d].items \in Seq(Data) /\ len \in Nat
  BY ValueType1 DEF Value
<1>4. Fine(ItemsPlan(s, d))
  <2> DEFINE schemas == [j \in 1 .. len |-> Compiled[s].sub["items"]]
  <2>1. 1 \in Nat \ {0} /\ len \in 0 .. len /\ \A j \in 1 .. len : schemas[j] \in Schema
    BY <1>2, <1>3
  <2> HIDE DEF schemas
  <2>2. Fine(ItemLoop(s, d, 1, len, schemas))
    BY <2>1, ItemLoopType
  <2> QED BY <2>2 DEF ItemsPlan, schemas
<1>5. Fine(MultipleItemsPlan(s, d))
  <2> DEFINE last == IF Len(list) < len THEN Len(list) ELSE len
  <2>1. last \in 0 .. len /\ last \in 0 .. Len(list)
    BY <1>1, <1>3
  <2> HIDE DEF last
  <2>2. 1 \in Nat \ {0} /\ \A j \in 1 .. last : list[j] \in Schema
    BY <1>1, <2>1
  <2> HIDE DEF list
  <2>3. Fine(ItemLoop(s, d, 1, last, list))
    BY <2>1, <2>2, ItemLoopType
  <2> QED BY <2>3 DEF MultipleItemsPlan, last, list
<1>6. Fine(AdditionalItemsPlan(s, d))
  <2> DEFINE schemas == [j \in 1 .. len |-> Compiled[s].sub["additionalItems"]]
  <2>1. Len(list) + 1 \in Nat \ {0} /\ len \in 0 .. len
    BY <1>1, <1>3
  <2>2. \A j \in Len(list) + 1 .. len : schemas[j] \in Schema
    BY <1>1, <1>2, <1>3
  <2> HIDE DEF schemas
  <2>3. Fine(ItemLoop(s, d, Len(list) + 1, len, schemas))
    BY <2>1, <2>2, ItemLoopType
  <2> QED BY <2>3 DEF AdditionalItemsPlan, schemas
<1> QED BY <1>4, <1>5, <1>6

(***************************************************************************)
(* Objects.                                                                *)
(***************************************************************************)
LEMMA ObjectPlanType ==
  ASSUME NEW s \in Schema, NEW d \in Data
  PROVE  ObjectPlan(s, d) \in Seq(Plain)
<1> DEFINE c == Compiled[s]
           size == Len(Doc[d].members)
           Required(k) == IF HasKey(d, k) THEN Skip(s, d) ELSE Err(s, d, "required")
           Dependency(p) == IF HasKey(d, p.key) THEN Run(p.cs, d) ELSE Skip(s, d)
           required == [j \in 1 .. Len(c.required) |-> Required(c.required[j])]
           dependencies == [j \in 1 .. Len(c.deps) |-> Dependency(c.deps[j])]
<1>1. /\ Limit(s, d, "maxProperties", size > ULong(c.limit["maxProperties"])) \in Seq(Plain)
      /\ Limit(s, d, "minProperties", size < ULong(c.limit["minProperties"])) \in Seq(Plain)
  BY LimitType DEF ErrorType, LimitKeyword
<1>2. /\ <<Do("validate_properties", s, d, 0)>> \in Seq(Plain)
      /\ <<Err(s, d, "type_object")>> \in Seq(Plain)
  BY DoType, Ops, StepTypes DEF ObjectFn, ErrorType
<1>3. required \in Seq(Plain)
  <2>1. Len(c.required) \in Nat
    BY StructType DEF Struct
  <2>2. \A k : Required(k) \in Plain
    BY StepTypes DEF ErrorType
  <2> HIDE DEF Required
  <2> QED BY <2>1, <2>2
<1>4. dependencies \in Seq(Plain)
  <2>1. c.deps \in Seq(Dependent) /\ Len(c.deps) \in Nat
    BY StructType DEF Struct
  <2>2. \A p \in Dependent : Dependency(p) \in Plain
    BY StepTypes DEF Dependent
  <2> HIDE DEF Dependency
  <2>3. \A j \in 1 .. Len(c.deps) : Dependency(c.deps[j]) \in Plain
    BY <2>1, <2>2
  <2> QED BY <2>1, <2>3
<1> HIDE DEF required, dependencies
<1>5. Limit(s, d, "maxProperties", size > ULong(c.limit["maxProperties"]))
        \o Limit(s, d, "minProperties", size < ULong(c.limit["minProperties"]))
        \o required
        \o dependencies
        \o <<Do("validate_properties", s, d, 0)>> \in Seq(Plain)
  BY <1>1, <1>2, <1>3, <1>4, Concat
<1> QED BY <1>2, <1>5 DEF ObjectPlan, required, dependencies

LEMMA PropertiesPlanType ==
  ASSUME NEW s \in Schema, NEW d \in Data
  PROVE  /\ PropertiesPlan(s, d) \in Seq(Step)
         /\ Whole("validate_properties", PropertiesPlan(s, d))
<1>1. Len(Doc[d].members) \in Nat
  BY ValueType1 DEF Value
<1>2. PICK body : body = [j \in 1 .. Len(Doc[d].members) |->
                            Do("validate_object_property", s, d, j)]
  OBVIOUS
<1>3. ASSUME NEW j \in 1 .. Len(Doc[d].members)
      PROVE  /\ Do("validate_object_property", s, d, j) \in Step
             /\ Do("validate_object_property", s, d, j).do = "validate_object_property"
  <2>1. j \in Nat /\ "validate_object_property" \in Op
    BY <1>1, Ops
  <2> QED BY <2>1, DoType
<1>4. /\ body \in Seq(Step) /\ Len(body) = Len(Doc[d].members)
      /\ \A j \in 1 .. Len(body) : body[j].do = "validate_object_property"
  BY <1>1, <1>2, <1>3
<1>5. "validate_properties" \in LoopFn
  BY DEF LoopFn
<1>6. /\ <<Incr(s, d)>> \o body \o <<Decr(s, d)>> \in Seq(Step)
      /\ Whole("validate_properties", <<Incr(s, d)>> \o body \o <<Decr(s, d)>>)
  BY <1>4, <1>5, Enclosed
<1> QED BY <1>2, <1>6 DEF PropertiesPlan

LEMMA PropertyPlanType ==
  ASSUME NEW s \in Schema, NEW d \in Data, NEW i \in 1 .. Len(Doc[d].members)
  PROVE  /\ PropertyPlan(s, d, i) \in Seq(Step)
         /\ Whole("validate_object_property", PropertyPlan(s, d, i))
<1> DEFINE c == Compiled[s]
           m == Doc[d].members[i]
           ByPattern(p) == IF m.key \in p.keys THEN Run(p.cs, m.val) ELSE Skip(s, d)
           byPattern == [j \in 1 .. Len(c.patterns) |-> ByPattern(c.patterns[j])]
           names == When(Has(s, "propertyNames"), Run(c.sub["propertyNames"], m.key))
           props == When(m.key \in c.propKeys, Run(c.props[m.key], m.val))
           others == When(Has(s, "additionalProperties") /\ ~Validated(s, m.key),
                          Run(c.sub["additionalProperties"], m.val))
           tail == names \o props \o byPattern \o others
<1>1. m.key \in Data /\ m.val \in Data
  <2>1. Doc[d].members \in Seq(Member)
    BY ValueType1 DEF Value
  <2>2. m \in Member
    BY <2>1
  <2> QED BY <2>2 DEF Member
<1>2. /\ Add(s, d, Key(m.key)) \in Step /\ Add(s, d, Key(m.key)).do = "ADD_TO_CONTEXT"
      /\ Add(s, d, Key(m.key)).at # Nil
  <2>1. PICK seg : seg = Key(m.key)
    OBVIOUS
  <2>2. seg \in Segment
    BY <1>1, <2>1 DEF Key, Segment
  <2>3. seg[1] = "key" /\ Nil[1] = "nil"
    BY <2>1 DEF Key, Nil
  <2> QED BY <2>1, <2>2, <2>3, PathStepTypes
<1>3. names \in Seq(Plain)
  <2>1. c.sub["propertyNames"] \in Schema
    BY StructType DEF Struct, SubKeyword
  <2> QED BY <1>1, <2>1, StepTypes, WhenType
<1>4. props \in Seq(Plain)
  <2>1. c.props[m.key] \in Schema
    BY <1>1, StructType DEF Struct
  <2> QED BY <1>1, <2>1, StepTypes, WhenType
<1>5. byPattern \in Seq(Plain)
  <2>1. c.patterns \in Seq(Applicator) /\ Len(c.patterns) \in Nat
    BY StructType DEF Struct
  <2>2. \A p \in Applicator : ByPattern(p) \in Plain
    BY <1>1, StepTypes DEF Applicator
  <2> HIDE DEF ByPattern
  <2>3. \A j \in 1 .. Len(c.patterns) : ByPattern(c.patterns[j]) \in Plain
    BY <2>1, <2>2
  <2> QED BY <2>1, <2>3
<1>6. others \in Seq(Plain)
  <2>1. c.sub["additionalProperties"] \in Schema
    BY StructType DEF Struct, SubKeyword
  <2> QED BY <1>1, <2>1, StepTypes, WhenType
<1> HIDE DEF byPattern, names, props, others
<1>7. tail \in Seq(Plain)
  BY <1>3, <1>4, <1>5, <1>6, Concat
<1>8. PICK add, rest : add = Add(s, d, Key(m.key)) /\ rest = tail
  OBVIOUS
<1>9. /\ rest \in Seq(Step) /\ <<add>> \in Seq(Step) /\ Len(<<add>>) = 1
      /\ Remains("validate_object_property", rest)
  <2>1. "validate_object_property" \notin LoopFn
    BY DEF LoopFn, ArrayFn
  <2>2. rest \in Seq(Plain)
    BY <1>7, <1>8
  <2>3. rest \in Seq(Step) /\ Remains("validate_object_property", rest)
    BY <2>1, <2>2, PlainWhole
  <2> HIDE DEF tail
  <2> QED BY <1>2, <1>8, <2>3
<1>10. PICK plan : /\ plan = <<add>> \o rest
                   /\ plan \in Seq(Step) /\ Len(plan) = 1 + Len(rest) /\ plan[1] = add
                   /\ \A k \in 1 .. Len(rest) : plan[1 + k] = rest[k]
  <2>1. /\ <<add>> \o rest \in Seq(Step) /\ Len(<<add>> \o rest) = 1 + Len(rest)
        /\ \A k \in 1 .. 1 : (<<add>> \o rest)[k] = <<add>>[k]
        /\ \A k \in 1 .. Len(rest) : (<<add>> \o rest)[1 + k] = rest[k]
    BY <1>9, ConcatSteps
  <2>2. (<<add>> \o rest)[1] = <<add>>[1] /\ <<add>>[1] = add
    BY <2>1
  <2> QED BY <2>1, <2>2
<1>11. \A k \in 1 .. Len(rest) :
         rest[k].do \notin {"INCR_CONTEXT", "DECR_CONTEXT", "ADD_TO_CONTEXT",
                          "validate_object_property"}
  BY <1>7, <1>8 DEF Plain, PathOp
<1>12. Whole("validate_object_property", plan)
  <2>1. /\ "validate_object_property" \notin LoopFn
        /\ "validate_object_property" \notin ArrayFn
    BY DEF LoopFn, ArrayFn
  <2>2. Len(rest) \in Nat /\ plan # <<>> /\ Head(plan) = add
    BY <1>9, <1>10
  <2>3. \A k \in 1 .. Len(plan) : k = 1 \/ (k - 1 \in 1 .. Len(rest) /\ plan[k] = rest[k - 1])
    BY <1>10, <2>2
  <2>4. \A k \in 1 .. Len(plan) :
          /\ plan[k].do \notin {"INCR_CONTEXT", "DECR_CONTEXT", "validate_object_property"}
          /\ plan[k].do = "ADD_TO_CONTEXT" => k = 1 /\ plan[k].at # Nil
    <3>1. add.do = "ADD_TO_CONTEXT" /\ add.at # Nil
      BY <1>2, <1>8
    <3> HIDE DEF tail
    <3>2. ASSUME NEW k \in 1 .. Len(plan)
          PROVE  /\ plan[k].do \notin {"INCR_CONTEXT", "DECR_CONTEXT", "validate_object_property"}
                 /\ plan[k].do = "ADD_TO_CONTEXT" => k = 1 /\ plan[k].at # Nil
      <4>1. CASE k = 1
        BY <1>10, <3>1, <4>1
      <4>2. CASE k - 1 \in 1 .. Len(rest) /\ plan[k] = rest[k - 1]
        BY <1>11, <4>2
      <4> QED BY <2>3, <4>1, <4>2
    <3> QED BY <3>2
  <2>5. Remains("validate_object_property", plan)
    BY <2>1, <2>4 DEF Remains
  <2> QED BY <1>2, <1>8, <2>1, <2>2, <2>5 DEF Whole
<1>13. PropertyPlan(s, d, i) = IF Doc[m.key].type # "string" THEN <<>> ELSE <<add>> \o tail
  <2>1. <<add>> \o names \o props \o byPattern \o others = <<add>> \o tail
    <3>1. PICK S : S = Step
      OBVIOUS
    <3>2. /\ <<add>> \in Seq(Step) /\ names \in Seq(Step) /\ props \in Seq(Step)
          /\ byPattern \in Seq(Step) /\ others \in Seq(Step)
      <4>1. \A q \in Seq(Plain) : q \in Seq(Step)
        <5>1. Plain \subseteq Step
          BY DEF Plain
        <5> QED BY <5>1
      <4> QED BY <1>3, <1>4, <1>5, <1>6, <1>9, <4>1
    <3>3. /\ <<add>> \in Seq(S) /\ names \in Seq(S) /\ props \in Seq(S)
          /\ byPattern \in Seq(S) /\ others \in Seq(S)
      BY <3>1, <3>2
    <3> HIDE DEF tail
    <3>4. FiveRegrouped(<<add>>, names, props, byPattern, others)
      BY <3>3, FivePlans
    <3>5. <<add>> \o names \o props \o byPattern \o others
            = <<add>> \o (names \o props \o byPattern \o others)
      BY <3>4 DEF FiveRegrouped
    <3>6. tail = names \o props \o byPattern \o others
      BY DEF tail
    <3> QED BY <3>5, <3>6
  <2> QED BY <1>8, <2>1 DEF PropertyPlan, names, props, byPattern, others
<1>14. <<>> \in Seq(Step) /\ Whole("validate_object_property", <<>>)
  BY DEF Whole, Remains
<1> QED BY <1>8, <1>10, <1>12, <1>13, <1>14

(* The functions that are not loops, nor called by one for a member.       *)
LEMMA StraightPlan ==
  ASSUME NEW fn, fn \notin LoopFn, fn # "validate_object_property",
         NEW s \in Schema, NEW d \in Data, NEW i \in Nat
  PROVE  Plan(fn, s, d, i) \in Seq(Plain)
<1>1. CASE fn = "validate"
  BY <1>1, ValidatePlanType DEF Plan
<1>2. CASE fn = "false_validate"
  BY <1>2, StepTypes DEF Plan, ErrorType
<1>3. CASE fn = "validate_ref"
  BY <1>3, StructType, StepTypes DEF Plan, Struct, SubKeyword
<1>4. CASE fn = "validate_by_data_type"
  BY <1>4, TypePlanTypes DEF Plan
<1>5. CASE fn = "validate_by_type_list"
  BY <1>5, TypePlanTypes DEF Plan
<1>6. CASE fn = "validate_null"
  BY <1>6, TypePlanTypes DEF Plan
<1>7. CASE fn = "validate_bool"
  BY <1>7, TypePlanTypes DEF Plan
<1>8. CASE fn = "validate_integer"
  BY <1>8, NumericPlanType DEF Plan, IntegerPlan, ErrorType
<1>9. CASE fn = "validate_number"
  BY <1>9, NumericPlanType DEF Plan, NumberPlan, ErrorType
<1>10. CASE fn = "validate_string"
  BY <1>10, StringPlanType DEF Plan
<1>11. CASE fn = "validate_array"
  BY <1>11, ArrayPlanType DEF Plan
<1>12. CASE fn = "validate_object"
  BY <1>12, ObjectPlanType DEF Plan
<1>13. CASE fn \in {"rb_validate", "is_valid"}
  BY <1>13, StepTypes DEF Plan
<1>14. CASE fn \notin {"validate", "false_validate", "validate_ref",
                     "validate_by_data_type", "validate_by_type_list", "validate_null",
                     "validate_bool", "validate_integer", "validate_number",
                     "validate_string", "validate_array", "validate_object",
                     "rb_validate", "is_valid"}
  BY <1>14 DEF Plan, LoopFn, ArrayFn
<1> QED
  BY <1>1, <1>2, <1>3, <1>4, <1>5, <1>6, <1>7, <1>8, <1>9, <1>10, <1>11, <1>12, <1>13, <1>14

LEMMA PlanFacts ==
  ASSUME NEW fn, NEW s \in Schema, NEW d \in Data, NEW i \in Nat
  PROVE  Plan(fn, s, d, i) \in Seq(Step) /\ Whole(fn, Plan(fn, s, d, i))
<1>1. CASE fn \in ArrayFn
  <2>1. Plan(fn, s, d, i) \in {ItemsPlan(s, d), MultipleItemsPlan(s, d), AdditionalItemsPlan(s, d)}
    BY <1>1 DEF ArrayFn, Plan
  <2> QED BY <1>1, <2>1, ItemsPlanTypes
<1>2. CASE fn = "validate_properties"
  BY <1>2, PropertiesPlanType DEF Plan
<1>3. CASE fn = "validate_object_property"
  <2>1. CASE i \in 1 .. Len(Doc[d].members)
    BY <1>3, <2>1, PropertyPlanType DEF Plan
  <2>2. CASE i \notin 1 .. Len(Doc[d].members)
    <3>1. Plan(fn, s, d, i) = <<>>
      BY <1>3, <2>2 DEF Plan
    <3> QED BY <3>1 DEF Whole, Remains
  <2> QED BY <2>1, <2>2
<1>4. CASE fn \notin LoopFn /\ fn # "validate_object_property"
  BY <1>4, StraightPlan, PlainWhole
<1> QED BY <1>1, <1>2, <1>3, <1>4 DEF LoopFn

(* Whatever function is called on whatever schema and value, what it does  *)
(* is a sequence of well-formed steps.                                     *)
THEOREM PlanType ==
  ASSUME NEW fn, NEW s \in Schema, NEW d \in Data, NEW i \in Nat
  PROVE  Plan(fn, s, d, i) \in Seq(Step)
BY PlanFacts

(* Every plan pairs its INCR_CONTEXT with a DECR_CONTEXT, writes the slot  *)
(* before it calls anything at the new level, and otherwise leaves the     *)
(* path alone.                                                             *)
THEOREM PlanBalanced ==
  ASSUME NEW fn, NEW s \in Schema, NEW d \in Data, NEW i \in Nat
  PROVE  Whole(fn, Plan(fn, s, d, i))
BY PlanFacts
=============================================================================
