------------------------------ MODULE Handlers ------------------------------
(***************************************************************************)
(* The validation functions of src/ext/fast_json/schema as plans.          *)
(*                                                                         *)
(* Once a schema is compiled, a validation function reads two things that  *)
(* do not change while it runs: the CompiledSchema struct and the          *)
(* document.  Apart from the functions that branch on the answer of        *)
(* is_valid, what it does is therefore a fixed sequence of steps: push a   *)
(* path level, write the path slot, call another function, report an       *)
(* error, pop the level.  Plan(fn, s, d, i) is that sequence; the module   *)
(* Validation executes it one step at a time on an explicit C stack.       *)
(***************************************************************************)
EXTENDS Integers, Sequences, FiniteSets

CONSTANTS
  Schema,    (* Compiled schemas (CompiledSchema structs).                 *)
  Data,      (* Ruby values: documents, their parts and their keys.        *)
  Compiled,  (* Compiled[s]: the fields of struct s.                       *)
  Doc,       (* Doc[d]: type and contents of value d.                      *)
  LongMax,   (* LONG_MAX: what NUM2LONG can return; beyond it raises.      *)
  IntMax     (* INT_MAX: what the quotient in validate_number is cast to.  *)

(***************************************************************************)
(* Ruby values.  "num" is the value of an integer, that of a float in      *)
(* halves (so that some have a fraction), or the length of a string; equal *)
(* values are the same element of Data.  Type "other" stands for a value   *)
(* JSON has no type for, such as a Symbol used as a Hash key.              *)
(***************************************************************************)
JsonType == {"null", "boolean", "integer", "number", "string", "object", "array"}
ValueType == (JsonType \ {"number"}) \cup {"integer", "float", "other"}

Member == [key : Data, val : Data]
Value  == [type : ValueType, num : Int, items : Seq(Data), members : Seq(Member)]

(***************************************************************************)
(* A CompiledSchema.  "has" holds the keywords whose field is neither      *)
(* Qundef nor NULL; the fields of absent keywords are never read.          *)
(***************************************************************************)
LimitKeyword ==
  {"multipleOf", "maximum", "exclusiveMaximum", "minimum", "exclusiveMinimum",
   "maxLength", "minLength", "maxItems", "minItems", "maxContains",
   "minContains", "maxProperties", "minProperties"}
SubKeyword ==
  {"ref", "if", "then", "else", "not", "items", "additionalItems",
   "contains", "propertyNames", "additionalProperties"}
ListKeyword == {"allOf", "anyOf", "oneOf", "itemsList"}

TypeFn ==
  {"validate_null", "validate_bool", "validate_integer", "validate_number",
   "validate_string", "validate_array", "validate_object", "no_op_validate",
   "validate_by_data_type", "validate_by_type_list"}
SchemaFn == {"no_op_validate", "false_validate", "validate", "validate_ref"}
Combinator ==
  {"validate_if", "validate_not", "validate_all_of", "validate_any_of",
   "validate_one_of", "validate_contains"}
ArrayFn == {"validate_items", "validate_with_multiple_items_schema",
            "validate_additional_items"}
ObjectFn == {"validate_properties", "validate_object_property"}
OtherFn == {"rb_validate", "rb_valid", "is_valid", "yield_error",
            "validate_custom_format"}
DecidingFn == Combinator \cup {"rb_valid", "yield_error", "validate_custom_format"}
FnName == TypeFn \cup SchemaFn \cup Combinator \cup ArrayFn \cup ObjectFn \cup OtherFn

Applicator == [keys : SUBSET Data, cs : Schema]
Dependent  == [key : Data, cs : Schema]

Struct ==
  [fn          : SchemaFn,
   typeFn      : TypeFn,
   flags       : SUBSET JsonType,
   has         : SUBSET STRING,
   limit       : [LimitKeyword -> Int],
   sub         : [SubKeyword -> Schema],
   list        : [ListKeyword -> Seq(Schema)],
   const       : SUBSET Data,        (* values == to const_val              *)
   enum        : SUBSET Data,        (* values enum_val includes            *)
   required    : Seq(Data),
   propKeys    : SUBSET Data,
   props       : [Data -> Schema],
   patterns    : Seq(Applicator),    (* keys: the names the regexp matches  *)
   deps        : Seq(Dependent),
   pattern     : SUBSET Data,        (* strings matching "pattern"          *)
   broken      : SUBSET {"pattern"}, (* "pattern" is no regular expression  *)
   format      : {"none", "builtin", "custom"},
   formatOk    : SUBSET Data,        (* strings the format accepts          *)
   formatRaise : SUBSET Data]        (* strings its callable raises on      *)

ASSUME CompiledAssumption == Compiled \in [Schema -> Struct]
ASSUME DocAssumption      == Doc \in [Data -> Value]
ASSUME LongMaxAssumption  == LongMax \in Nat
ASSUME IntMaxAssumption   == IntMax \in Nat

Has(s, k) == k \in Compiled[s].has
HasKey(d, k) == \E j \in 1 .. Len(Doc[d].members) : Doc[d].members[j].key = k

-----------------------------------------------------------------------------
(***************************************************************************)
(* Path segments (the entries of Context.path) and the steps of a plan.    *)
(***************************************************************************)
Root == <<"root", 0>>
Nil  == <<"nil", 0>>
Item(i) == <<"item", i>>
Key(k)  == <<"key", k>>
Segment == {Root, Nil} \cup ({"item"} \X Nat) \cup ({"key"} \X Data)

(* What a plan can call: validate, valid? and is_valid are entered by the  *)
(* actions of Validation only.                                             *)
CallFn == FnName \ {"rb_validate", "rb_valid", "is_valid"}
Op == CallFn \cup {"skip", "raise", "INCR_CONTEXT", "DECR_CONTEXT", "ADD_TO_CONTEXT"}
(* The error types the library reports ("format" stands for the built-in   *)
(* ones and for "format_<name>"; "none" where a step reports nothing).     *)
ErrorType ==
  LimitKeyword \cup
  {"none", "false_schema", "type", "type_null", "type_bool", "type_integer",
   "type_number", "type_string", "type_array", "type_object", "const", "enum",
   "pattern", "format", "uniqueItems", "contains", "required", "allOf", "anyOf",
   "oneOf", "not", "if/then", "if/else"}
(* Only validate_object_property is given a number: the member's.          *)
Step ==
  {x \in [do : Op, cs : Schema, d : Data, i : Nat, at : Segment, err : ErrorType] :
     x.i # 0 => x.do = "validate_object_property"}

Do(fn, s, d, i)  == [do |-> fn, cs |-> s, d |-> d, i |-> i, at |-> Nil, err |-> "none"]
Run(s, d)        == Do(Compiled[s].fn, s, d, 0)
Skip(s, d)       == Do("skip", s, d, 0)
Incr(s, d)       == Do("INCR_CONTEXT", s, d, 0)
Decr(s, d)       == Do("DECR_CONTEXT", s, d, 0)
Add(s, d, seg)   == [Do("ADD_TO_CONTEXT", s, d, 0) EXCEPT !.at = seg]
Err(s, d, type)  == [Do("yield_error", s, d, 0) EXCEPT !.err = type]

RaiseStep(s, d)  == Do("raise", s, d, 0)

When(b, step)    == IF b THEN <<step>> ELSE <<>>
ErrIf(b, s, d, type) == When(b, Err(s, d, type))

(* A keyword with a limit, if present: the limit goes through NUM2LONG,    *)
(* which raises RangeError when a C long cannot hold it, and is compared.  *)
(* The limits on the size of a Hash go through NUM2ULONG, which takes      *)
(* negative numbers and wraps them.                                        *)
FitsLong(x) == -LongMax - 1 <= x /\ x <= LongMax
ULong(x) == x % (2 * (LongMax + 1))
Unsigned == {"maxProperties", "minProperties"}
Fits(k, x) == FitsLong(x) \/ (k \in Unsigned /\ 0 <= x /\ x < 2 * (LongMax + 1))
Limit(s, d, k, violated) ==
  IF Fits(k, Compiled[s].limit[k])
    THEN ErrIf(Has(s, k) /\ violated, s, d, k)
    ELSE When(Has(s, k), RaiseStep(s, d))

-----------------------------------------------------------------------------
(***************************************************************************)
(* validate.c                                                              *)
(***************************************************************************)
(* The body of "validate": the type function, then each keyword that is    *)
(* present, in the order of the source.                                    *)
ValidatePlan(s, d) ==
  LET Combine(k, fn) == When(Has(s, k), Do(fn, s, d, 0))
  IN  <<Do(Compiled[s].typeFn, s, d, 0)>>
        \o ErrIf(Has(s, "const") /\ d \notin Compiled[s].const, s, d, "const")
        \o ErrIf(Has(s, "enum") /\ d \notin Compiled[s].enum, s, d, "enum")
        \o Combine("if", "validate_if")
        \o Combine("not", "validate_not")
        \o Combine("allOf", "validate_all_of")
        \o Combine("anyOf", "validate_any_of")
        \o Combine("oneOf", "validate_one_of")

TypeHandler(t) ==
  CASE t = "null"    -> "validate_null"
    [] t = "boolean" -> "validate_bool"
    [] t = "integer" -> "validate_integer"
    [] t = "float"   -> "validate_number"
    [] t = "string"  -> "validate_string"
    [] t = "object"  -> "validate_object"
    [] t = "array"   -> "validate_array"
    [] OTHER         -> "no_op_validate"

DataTypePlan(s, d) ==
  When(Doc[d].type \notin {"null", "boolean", "other"},
       Do(TypeHandler(Doc[d].type), s, d, 0))

TypeListPlan(s, d) ==
  LET t == Doc[d].type
      viaNumber == t \in {"integer", "float"} /\ "number" \in Compiled[s].flags
  IN  IF t = "other" THEN <<>>
      ELSE IF t \in Compiled[s].flags THEN <<Do(TypeHandler(t), s, d, 0)>>
      ELSE IF viaNumber THEN <<Do("validate_number", s, d, 0)>>
      ELSE <<Err(s, d, "type")>>

(***************************************************************************)
(* validate_null.c, validate_bool.c, validate_integer.c, validate_number.c *)
(* A bignum raises RangeError in NUM2LONG before anything is compared.     *)
(* Arithmetic on what fits is exact here (double rounding is not modelled).*)
(* validate_number casts the quotient to int: what the cast of a larger one*)
(* yields is undefined, but it is an int and so never equal to it.         *)
(* Numbers and limits are compared in halves.                              *)
(***************************************************************************)
Halves(d) == IF Doc[d].type = "float" THEN Doc[d].num ELSE 2 * Doc[d].num
LimitHalves(s, k) == 2 * Compiled[s].limit[k]

NullPlan(s, d) == ErrIf(Doc[d].type # "null", s, d, "type_null")
BoolPlan(s, d) == ErrIf(Doc[d].type # "boolean", s, d, "type_bool")

IntegerMultiple(x, m) == x % m = 0
NumberMultiple(x, m)  == x % m = 0 /\ (x \div m) \in (-IntMax - 1) .. IntMax

NumericPlan(s, d, types, typeError, multiple) ==
  LET x == Halves(d)
      limit(k) == LimitHalves(s, k)
  IN  IF Doc[d].type \notin types THEN <<Err(s, d, typeError)>>
      ELSE IF Doc[d].type = "integer" /\ ~FitsLong(Doc[d].num) THEN <<RaiseStep(s, d)>>
      ELSE Limit(s, d, "multipleOf", ~multiple)
             \o Limit(s, d, "maximum", x > limit("maximum"))
             \o Limit(s, d, "exclusiveMaximum", x >= limit("exclusiveMaximum"))
             \o Limit(s, d, "minimum", x < limit("minimum"))
             \o Limit(s, d, "exclusiveMinimum", x <= limit("exclusiveMinimum"))

IntegerPlan(s, d) ==
  NumericPlan(s, d, {"integer"}, "type_integer",
              IntegerMultiple(Doc[d].num, Compiled[s].limit["multipleOf"]))

NumberPlan(s, d)  ==
  NumericPlan(s, d, {"integer", "float"}, "type_number",
              NumberMultiple(Halves(d), LimitHalves(s, "multipleOf")))

(***************************************************************************)
(* validate_string.c.  A custom format calls back into Ruby; a built-in    *)
(* one is a pure parser that accepts or reports.  "pattern" is made a      *)
(* Regexp at each validation, which raises RegexpError if it cannot be.    *)
(***************************************************************************)
PatternCheck(s, d) ==
  IF "pattern" \in Compiled[s].broken
    THEN When(Has(s, "pattern"), RaiseStep(s, d))
    ELSE ErrIf(Has(s, "pattern") /\ d \notin Compiled[s].pattern, s, d, "pattern")

StringPlan(s, d) ==
  LET c == Compiled[s]
      len == Doc[d].num
  IN  IF Doc[d].type # "string" THEN <<Err(s, d, "type_string")>>
      ELSE Limit(s, d, "maxLength", len > c.limit["maxLength"])
             \o Limit(s, d, "minLength", len < c.limit["minLength"])
             \o PatternCheck(s, d)
             \o ErrIf(c.format = "builtin" /\ d \notin c.formatOk, s, d, "format")
             \o When(c.format = "custom", Do("validate_custom_format", s, d, 0))

(***************************************************************************)
(* validate_array.c                                                        *)
(***************************************************************************)
NoDuplicates(seq) == \A j, k \in 1 .. Len(seq) : seq[j] = seq[k] => j = k

ArrayPlan(s, d) ==
  LET c == Compiled[s]
      len == Len(Doc[d].items)
      listed == Has(s, "itemsList") /\ ~Has(s, "items")
  IN  IF Doc[d].type # "array" THEN <<Err(s, d, "type_array")>>
      ELSE Limit(s, d, "maxItems", len > c.limit["maxItems"])
             \o Limit(s, d, "minItems", len < c.limit["minItems"])
             \o ErrIf(Has(s, "uniqueItems") /\ ~NoDuplicates(Doc[d].items),
                      s, d, "uniqueItems")
             \o When(Has(s, "items"), Do("validate_items", s, d, 0))
             \o When(listed, Do("validate_with_multiple_items_schema", s, d, 0))
             \o When(/\ listed
                     /\ len > Len(c.list["itemsList"])
                     /\ Has(s, "additionalItems"),
                     Do("validate_additional_items", s, d, 0))
             \o When(Has(s, "contains"), Do("validate_contains", s, d, 0))

(* A loop over the items numbered first .. last (from 1): one path level,  *)
(* and for each item the slot is written and schemas[item number] run.     *)
(* Step 2j - 1 of the loop is the write for its j-th item, 2j the call.    *)
ItemLoop(s, d, first, last, schemas) ==
  LET size == IF last >= first THEN 2 * (last - first + 1) ELSE 0
      item(j) == first + (j - 1) \div 2
  IN  <<Incr(s, d)>>
        \o [j \in 1 .. size |->
              IF j % 2 = 1 THEN Add(s, d, Item(item(j) - 1))
                           ELSE Run(schemas[item(j)], Doc[d].items[item(j)])]
        \o <<Decr(s, d)>>

ItemsPlan(s, d) ==
  LET len == Len(Doc[d].items)
  IN  ItemLoop(s, d, 1, len, [j \in 1 .. len |-> Compiled[s].sub["items"]])

MultipleItemsPlan(s, d) ==
  LET list == Compiled[s].list["itemsList"]
      len  == Len(Doc[d].items)
  IN  ItemLoop(s, d, 1, IF Len(list) < len THEN Len(list) ELSE len, list)

AdditionalItemsPlan(s, d) ==
  LET len == Len(Doc[d].items)
  IN  ItemLoop(s, d, Len(Compiled[s].list["itemsList"]) + 1, len,
               [j \in 1 .. len |-> Compiled[s].sub["additionalItems"]])

(***************************************************************************)
(* validate_object.c                                                       *)
(***************************************************************************)
ObjectPlan(s, d) ==
  LET c == Compiled[s]
      size == Len(Doc[d].members)
      Required(k) == IF HasKey(d, k) THEN Skip(s, d) ELSE Err(s, d, "required")
      Dependency(p) == IF HasKey(d, p.key) THEN Run(p.cs, d) ELSE Skip(s, d)
  IN  IF Doc[d].type # "object" THEN <<Err(s, d, "type_object")>>
      ELSE Limit(s, d, "maxProperties", size > ULong(c.limit["maxProperties"]))
             \o Limit(s, d, "minProperties", size < ULong(c.limit["minProperties"]))
             \o [j \in 1 .. Len(c.required) |-> Required(c.required[j])]
             \o [j \in 1 .. Len(c.deps) |-> Dependency(c.deps[j])]
             \o <<Do("validate_properties", s, d, 0)>>

(* The level is pushed whether or not any keyword looks at the members.    *)
PropertiesPlan(s, d) ==
  <<Incr(s, d)>>
    \o [j \in 1 .. Len(Doc[d].members) |-> Do("validate_object_property", s, d, j)]
    \o <<Decr(s, d)>>

(* memo->validated: some "properties" or "patternProperties" entry applied.*)
Validated(s, key) ==
  \/ key \in Compiled[s].propKeys
  \/ \E j \in 1 .. Len(Compiled[s].patterns) : key \in Compiled[s].patterns[j].keys

(* Mutant: propertyNames is checked before the key is in the path.         *)
PropertyPlanLateKey(s, d, i) ==
  LET c == Compiled[s]
      m == Doc[d].members[i]
      ByPattern(p) == IF m.key \in p.keys THEN Run(p.cs, m.val) ELSE Skip(s, d)
  IN  IF Doc[m.key].type # "string" THEN <<>>
      ELSE When(Has(s, "propertyNames"), Run(c.sub["propertyNames"], m.key))
             \o <<Add(s, d, Key(m.key))>>
             \o When(m.key \in c.propKeys, Run(c.props[m.key], m.val))
             \o [j \in 1 .. Len(c.patterns) |-> ByPattern(c.patterns[j])]
             \o When(Has(s, "additionalProperties") /\ ~Validated(s, m.key),
                     Run(c.sub["additionalProperties"], m.val))

PropertyPlan(s, d, i) ==
  LET c == Compiled[s]
      m == Doc[d].members[i]
      ByPattern(p) == IF m.key \in p.keys THEN Run(p.cs, m.val) ELSE Skip(s, d)
  IN  IF Doc[m.key].type # "string" THEN <<>>
      ELSE <<Add(s, d, Key(m.key))>>
             \o When(Has(s, "propertyNames"), Run(c.sub["propertyNames"], m.key))
             \o When(m.key \in c.propKeys, Run(c.props[m.key], m.val))
             \o [j \in 1 .. Len(c.patterns) |-> ByPattern(c.patterns[j])]
             \o When(Has(s, "additionalProperties") /\ ~Validated(s, m.key),
                     Run(c.sub["additionalProperties"], m.val))

-----------------------------------------------------------------------------
(* What a call of fn does.  Functions that are not listed do nothing       *)
(* (no_op_validate) or decide step by step and are actions of Validation.  *)
Plan(fn, s, d, i) ==
  CASE fn = "validate"              -> ValidatePlan(s, d)
    [] fn = "false_validate"        -> <<Err(s, d, "false_schema")>>
    [] fn = "validate_ref"          -> <<Run(Compiled[s].sub["ref"], d)>>
    [] fn = "validate_by_data_type" -> DataTypePlan(s, d)
    [] fn = "validate_by_type_list" -> TypeListPlan(s, d)
    [] fn = "validate_null"         -> NullPlan(s, d)
    [] fn = "validate_bool"         -> BoolPlan(s, d)
    [] fn = "validate_integer"      -> IntegerPlan(s, d)
    [] fn = "validate_number"       -> NumberPlan(s, d)
    [] fn = "validate_string"       -> StringPlan(s, d)
    [] fn = "validate_array"        -> ArrayPlan(s, d)
    [] fn = "validate_items"        -> ItemsPlan(s, d)
    [] fn = "validate_with_multiple_items_schema" -> MultipleItemsPlan(s, d)
    [] fn = "validate_additional_items" -> AdditionalItemsPlan(s, d)
    [] fn = "validate_object"       -> ObjectPlan(s, d)
    [] fn = "validate_properties"   -> PropertiesPlan(s, d)
    [] fn = "validate_object_property" /\ i \in 1 .. Len(Doc[d].members)
                                    -> PropertyPlan(s, d, i)
    [] fn \in {"rb_validate", "is_valid"} -> <<Run(s, d)>>
    [] OTHER                        -> <<>>
=============================================================================
