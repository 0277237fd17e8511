------------------------------ MODULE Semantics ------------------------------
(***************************************************************************)
(* What it means for a value to conform to a compiled schema, said without *)
(* loops, order, stack or throw: the answer the validation functions are   *)
(* meant to reach.                                                         *)
(*                                                                         *)
(* Each rule below says what draft 7 asks of a value for the keywords of   *)
(* one struct, given "sat": what the schemas it refers to say of that      *)
(* value and of its parts.  Under the assumptions below the functions keep *)
(* to these rules but for two kinds of value that they refuse and draft 7  *)
(* does not: WholeFloat and WideQuotient.                                  *)
(***************************************************************************)
EXTENDS Handlers

CONSTANT Conforms  (* Conforms[s][d]: the value d conforms to s, by the    *)
                   (* rules with their two exceptions (MeaningAssumption). *)

(* Draft 7 wants "multipleOf" above zero; the functions divide by it       *)
(* without looking.                                                        *)
ASSUME DivisorAssumption ==
  \A s \in Schema : Has(s, "multipleOf") => Compiled[s].limit["multipleOf"] > 0

(* Nor does draft 7 give a negative number of members a meaning (the       *)
(* functions wrap it to a huge one).                                       *)
ASSUME SizesAssumption ==
  \A s \in Schema : \A k \in Unsigned : Has(s, k) => Compiled[s].limit[k] >= 0

(* A Hash has no key twice.                                                *)
ASSUME KeysAssumption ==
  \A d \in Data : \A j, k \in 1 .. Len(Doc[d].members) :
    Doc[d].members[j].key = Doc[d].members[k].key => j = k

(* Equal values are one element of Data, and to Ruby's uniq, by which      *)
(* "uniqueItems" is checked, 1 and 1.0 are two; to draft 7 they are one.   *)
(* No number is there as an integer and as a float.                        *)
ASSUME EqualAssumption ==
  \A d, e \in Data :
    Doc[d].type = "integer" /\ Doc[e].type = "float" => Halves(d) # Halves(e)

-----------------------------------------------------------------------------
(* A float with zero fractional part is an integer.                        *)
Integral(d) ==
  \/ Doc[d].type = "integer"
  \/ Doc[d].type = "float" /\ Doc[d].num % 2 = 0

TypeAccepts(s, d) ==
  LET t == Doc[d].type
      flags == Compiled[s].flags
  IN  CASE Compiled[s].typeFn = "validate_null"    -> t = "null"
        [] Compiled[s].typeFn = "validate_bool"    -> t = "boolean"
        [] Compiled[s].typeFn = "validate_integer" -> Integral(d)
        [] Compiled[s].typeFn = "validate_number"  -> t \in {"integer", "float"}
        [] Compiled[s].typeFn = "validate_string"  -> t = "string"
        [] Compiled[s].typeFn = "validate_array"   -> t = "array"
        [] Compiled[s].typeFn = "validate_object"  -> t = "object"
        [] Compiled[s].typeFn = "validate_by_type_list" ->
             \/ t \in flags \cup {"other"}
             \/ t \in {"integer", "float"} /\ "number" \in flags
             \/ Integral(d) /\ "integer" \in flags
        [] OTHER -> TRUE

(* The whole numbers x may be a multiple by.                               *)
Quotients(x) == ((-x) .. x) \cup (x .. (-x))

NumberConforms(s, quotients, x) ==
  /\ Has(s, "multipleOf") => \E q \in quotients : x = q * LimitHalves(s, "multipleOf")
  /\ Has(s, "maximum") => x <= LimitHalves(s, "maximum")
  /\ Has(s, "exclusiveMaximum") => x < LimitHalves(s, "exclusiveMaximum")
  /\ Has(s, "minimum") => x >= LimitHalves(s, "minimum")
  /\ Has(s, "exclusiveMinimum") => x > LimitHalves(s, "exclusiveMinimum")

FormatConforms(s, d) ==
  d \in Compiled[s].formatOk /\ (Compiled[s].format = "custom" => d \notin Compiled[s].formatRaise)

StringConforms(s, d) ==
  LET c == Compiled[s]
  IN  /\ Has(s, "maxLength") => Doc[d].num <= c.limit["maxLength"]
      /\ Has(s, "minLength") => Doc[d].num >= c.limit["minLength"]
      /\ Has(s, "pattern") => d \in c.pattern
      /\ c.format # "none" => FormatConforms(s, d)

ItemConforms(sat, s, d, j) ==
  LET c == Compiled[s]
      item == Doc[d].items[j]
      listed == Len(c.list["itemsList"])
  IN  IF Has(s, "items") THEN sat[c.sub["items"]][item]
      ELSE Has(s, "itemsList") =>
             IF j <= listed THEN sat[c.list["itemsList"][j]][item]
             ELSE Has(s, "additionalItems") => sat[c.sub["additionalItems"]][item]

ContainsConforms(sat, s, d) ==
  LET c == Compiled[s]
      matching == {j \in 1 .. Len(Doc[d].items) : sat[c.sub["contains"]][Doc[d].items[j]]}
  IN  /\ Cardinality(matching) >=
           IF Has(s, "minContains") THEN c.limit["minContains"] ELSE 1
      /\ Has(s, "maxContains") => Cardinality(matching) <= c.limit["maxContains"]

ArrayConforms(sat, s, d) ==
  LET c == Compiled[s]
      items == Doc[d].items
  IN  /\ Has(s, "maxItems") => Len(items) <= c.limit["maxItems"]
      /\ Has(s, "minItems") => Len(items) >= c.limit["minItems"]
      /\ Has(s, "uniqueItems") =>
           Cardinality({items[j] : j \in 1 .. Len(items)}) = Len(items)
      /\ \A j \in 1 .. Len(items) : ItemConforms(sat, s, d, j)
      /\ Has(s, "contains") => ContainsConforms(sat, s, d)

MemberConforms(sat, s, m) ==
  LET c == Compiled[s]
      patterns == {c.patterns[j] : j \in 1 .. Len(c.patterns)}
      named == m.key \in c.propKeys \/ \E p \in patterns : m.key \in p.keys
  IN  Doc[m.key].type = "string" =>
        /\ Has(s, "propertyNames") => sat[c.sub["propertyNames"]][m.key]
        /\ m.key \in c.propKeys => sat[c.props[m.key]][m.val]
        /\ \A p \in patterns : m.key \in p.keys => sat[p.cs][m.val]
        /\ Has(s, "additionalProperties") /\ ~named =>
             sat[c.sub["additionalProperties"]][m.val]

ObjectConforms(sat, s, d) ==
  LET c == Compiled[s]
      members == {Doc[d].members[j] : j \in 1 .. Len(Doc[d].members)}
  IN  /\ Has(s, "maxProperties") => Cardinality(members) <= c.limit["maxProperties"]
      /\ Has(s, "minProperties") => Cardinality(members) >= c.limit["minProperties"]
      /\ \A j \in 1 .. Len(c.required) : \E m \in members : m.key = c.required[j]
      /\ \A j \in 1 .. Len(c.deps) :
           (\E m \in members : m.key = c.deps[j].key) => sat[c.deps[j].cs][d]
      /\ \A m \in members : MemberConforms(sat, s, m)

AssertionsHold(sat, s, d) ==
  LET t == Doc[d].type
  IN  /\ t \in {"integer", "float"} => NumberConforms(s, Quotients(Halves(d)), Halves(d))
      /\ t = "string" => StringConforms(s, d)
      /\ t = "array"  => ArrayConforms(sat, s, d)
      /\ t = "object" => ObjectConforms(sat, s, d)

(* The branches of allOf, anyOf or oneOf that hold.                        *)
Holding(sat, s, k, d) ==
  {j \in 1 .. Len(Compiled[s].list[k]) : sat[Compiled[s].list[k][j]][d]}

IfConforms(sat, s, d) ==
  LET branch == IF sat[Compiled[s].sub["if"]][d] THEN "then" ELSE "else"
  IN  Has(s, branch) => sat[Compiled[s].sub[branch]][d]

ApplicatorsHold(sat, s, d) ==
  /\ Has(s, "if")    => IfConforms(sat, s, d)
  /\ Has(s, "not")   => ~sat[Compiled[s].sub["not"]][d]
  /\ Has(s, "allOf") => Holding(sat, s, "allOf", d) = 1 .. Len(Compiled[s].list["allOf"])
  /\ Has(s, "anyOf") => Holding(sat, s, "anyOf", d) # {}
  /\ Has(s, "oneOf") => Cardinality(Holding(sat, s, "oneOf", d)) = 1

(* A schema whose "type" is a string the library does not know asserts     *)
(* nothing about the value's own type (compile gives it no_op_validate as  *)
(* type function).                                                         *)
KeywordsHold(sat, s, d) ==
  /\ TypeAccepts(s, d)
  /\ Compiled[s].typeFn # "no_op_validate" => AssertionsHold(sat, s, d)
  /\ Has(s, "const") => d \in Compiled[s].const
  /\ Has(s, "enum")  => d \in Compiled[s].enum
  /\ ApplicatorsHold(sat, s, d)

Says(sat, s, d) ==
  CASE Compiled[s].fn = "no_op_validate" -> TRUE
    [] Compiled[s].fn = "false_validate" -> FALSE
    [] Compiled[s].fn = "validate_ref"   -> sat[Compiled[s].sub["ref"]][d]
    [] OTHER                             -> KeywordsHold(sat, s, d)

-----------------------------------------------------------------------------
(* The first exception: where an integer is asked for and no other number, *)
(* a float is refused even if its fractional part is zero.                 *)
WholeFloat(s, d) ==
  LET c == Compiled[s]
  IN  /\ Doc[d].type = "float" /\ Integral(d)
      /\ \/ c.typeFn = "validate_integer"
         \/ c.typeFn = "validate_by_type_list" /\ "integer" \in c.flags /\ "number" \notin c.flags

(* The second: a multiple is refused when an int cannot hold the quotient, *)
(* by validate_number (validate_integer takes it).  These numbers go       *)
(* there: any if the schema asks for a "number" and no integer, floats if  *)
(* it asks for both or for neither.                                        *)
Ints == (-IntMax - 1) .. IntMax
AsNumber(s, d) ==
  LET c == Compiled[s]
  IN  \/ c.typeFn = "validate_number"
      \/ c.typeFn = "validate_by_type_list" /\ "integer" \notin c.flags
      \/ c.typeFn \in {"validate_by_data_type", "validate_by_type_list"} /\ Doc[d].type = "float"
WideQuotient(s, d) ==
  /\ Doc[d].type \in {"integer", "float"} /\ AsNumber(s, d) /\ Has(s, "multipleOf")
  /\ \E q \in Quotients(Halves(d)) \ Ints : Halves(d) = q * LimitHalves(s, "multipleOf")

Refused(s, d) == WholeFloat(s, d) \/ WideQuotient(s, d)

(* Conforms answers by the rules and the exceptions.  A $ref that leads    *)
(* back to itself under a "not", on the same value, would contradict       *)
(* itself: draft 7 leaves such schemas undefined, and the code recurses on *)
(* them for ever.                                                          *)
ASSUME MeaningAssumption ==
  \A s \in Schema, d \in Data :
    Conforms[s][d] <=> /\ Says(Conforms, s, d)
                       /\ Compiled[s].fn = "validate" => ~Refused(s, d)
=============================================================================
