---------------------------- MODULE ValidationMC ----------------------------
(***************************************************************************)
(* Instances for TLC: a schema for every keyword and a document for every  *)
(* type, and the properties of Validation the runs check.                  *)
(***************************************************************************)
EXTENDS Paths, Answers

-----------------------------------------------------------------------------
(***************************************************************************)
(* Documents.  Equal strings are one element of Data, so a key found twice *)
(* is the same key.                                                        *)
(***************************************************************************)
Scalar(type, num) == [type |-> type, num |-> num, items |-> <<>>, members |-> <<>>]
Array(items)  == [Scalar("array", 0) EXCEPT !.items = items]
Object(pairs) == [Scalar("object", 0) EXCEPT !.members =
                    [j \in 1 .. Len(pairs) |-> [key |-> pairs[j][1], val |-> pairs[j][2]]]]

MCDocs ==
  [ null |-> Scalar("null", 0),   true |-> Scalar("boolean", 1),
    one  |-> Scalar("integer", 1), two |-> Scalar("integer", 2),
    six  |-> Scalar("integer", 6), big |-> Scalar("integer", 40),
    flt  |-> Scalar("float", 6),  half |-> Scalar("float", 5),  (* 3.0, 2.5 *)
    twelve |-> Scalar("float", 24),                             (* 12.0     *)
    a    |-> Scalar("string", 1), b |-> Scalar("string", 1),
    long |-> Scalar("string", 4), sym |-> Scalar("other", 0),
    empty |-> Array(<<>>),        nothing |-> Object(<<>>),
    nums  |-> Array(<<"one", "two", "six">>),
    twice |-> Array(<<"two", "two">>),
    bigs  |-> Array(<<"two", "big">>),
    mixed |-> Array(<<"a", "one", "flt">>),
    floats |-> Array(<<"flt", "half">>),
    nest  |-> Array(<<"nums", "mixed">>),
    nest2 |-> Array(<<"nest">>),
    nest3 |-> Array(<<"nest2">>),
    objA  |-> Object(<< <<"a", "one">> >>),
    objAB |-> Object(<< <<"a", "two">>, <<"b", "six">> >>),
    objSym |-> Object(<< <<"sym", "one">>, <<"long", "mixed">> >>),
    objs  |-> Array(<<"objA", "objAB", "objA">>),
    many  |-> Array(<<"objA", "objA", "objA", "objA">>),
    tree  |-> Object(<< <<"a", "objAB">>, <<"b", "nums">> >>) ]

MCData == DOMAIN MCDocs

-----------------------------------------------------------------------------
(***************************************************************************)
(* Schemas, each an edit of the empty struct.                              *)
(***************************************************************************)
Blank ==
  [fn |-> "validate", typeFn |-> "validate_by_data_type", flags |-> {}, has |-> {},
   limit |-> [k \in LimitKeyword |-> 1], sub |-> [k \in SubKeyword |-> "yes"],
   list |-> [k \in ListKeyword |-> <<>>], const |-> {}, enum |-> {},
   required |-> <<>>, propKeys |-> {}, props |-> [d \in MCData |-> "yes"],
   patterns |-> <<>>, deps |-> <<>>, pattern |-> {}, broken |-> {}, format |-> "none",
   formatOk |-> {}, formatRaise |-> {}]

Typed(type) == [Blank EXCEPT !.typeFn = type]
Limits(c, lim) ==
  [c EXCEPT !.has = @ \cup DOMAIN lim,
            !.limit = [k \in LimitKeyword |-> IF k \in DOMAIN lim THEN lim[k] ELSE @[k]]]
Subs(c, sub) ==
  [c EXCEPT !.has = @ \cup DOMAIN sub,
            !.sub = [k \in SubKeyword |-> IF k \in DOMAIN sub THEN sub[k] ELSE @[k]]]
List(k, schemas) == [Blank EXCEPT !.has = {k}, !.list[k] = schemas]
Props(c, keys, s) ==
  [c EXCEPT !.propKeys = keys, !.props = [d \in MCData |-> IF d \in keys THEN s ELSE "yes"]]

MCStructs ==
  [ yes    |-> [Blank EXCEPT !.fn = "no_op_validate"],
    no     |-> [Blank EXCEPT !.fn = "false_validate"],
    odd    |-> Typed("no_op_validate"),
    null   |-> Typed("validate_null"),
    bool   |-> Typed("validate_bool"),
    int    |-> Limits(Typed("validate_integer"),
                      [minimum |-> 2, exclusiveMaximum |-> 6]),
    num    |-> Limits(Typed("validate_number"),
                      [multipleOf |-> 2, maximum |-> 2, exclusiveMinimum |-> 1]),
    mult   |-> Limits(Typed("validate_number"), [multipleOf |-> 2]),
    multi  |-> Limits(Blank, [multipleOf |-> 2]),
    multis |-> [Limits(Typed("validate_by_type_list"), [multipleOf |-> 2])
                  EXCEPT !.flags = {"number", "object"}],
    whole  |-> [Typed("validate_by_type_list") EXCEPT !.flags = {"integer", "string"}],
    ulong  |-> Limits(Blank, [maxProperties |-> 30]),
    beyond |-> Limits(Blank, [minProperties |-> 50]),
    rex    |-> [Blank EXCEPT !.has = {"pattern"}, !.broken = {"pattern"}, !.pattern = {"a"}],
    str    |-> [Limits(Typed("validate_string"), [minLength |-> 1, maxLength |-> 1])
                  EXCEPT !.has = @ \cup {"pattern"}, !.pattern = {"a", "long"}],
    huge   |-> Limits(Blank, [minItems |-> 1, maximum |-> 40]),
    types  |-> [Typed("validate_by_type_list")
                  EXCEPT !.flags = {"string", "number", "array", "null"}],
    const  |-> [Blank EXCEPT !.has = {"const", "enum"}, !.const = {"one"},
                             !.enum = {"one", "two"}],
    ints   |-> Subs(Limits(Typed("validate_array"), [maxItems |-> 2]), [items |-> "int"]),
    uniq   |-> [Limits(Blank, [minItems |-> 1]) EXCEPT !.has = @ \cup {"uniqueItems"}],
    tuple  |-> Subs([Blank EXCEPT !.has = {"itemsList"},
                                  !.list["itemsList"] = <<"str", "yes">>],
                    [additionalItems |-> "int"]),
    has2   |-> Subs(Limits(Blank, [minContains |-> 1, maxContains |-> 1]),
                    [contains |-> "int"]),
    hasA   |-> Subs(Blank, [contains |-> "props"]),
    any    |-> List("anyOf", <<"ints", "str", "props">>),
    any0   |-> List("anyOf", <<>>),
    one    |-> List("oneOf", <<"int", "num", "types">>),
    all    |-> List("allOf", <<"types", "ints", "any">>),
    not    |-> Subs(Blank, [not |-> "any"]),
    cond   |-> Subs(Blank, [if |-> "ints", then |-> "uniq", else |-> "types"]),
    cond1  |-> Subs(Blank, [if |-> "types", then |-> "str"]),
    cond0  |-> Subs(Blank, [if |-> "no"]),
    props  |-> [Props(Subs(Limits(Typed("validate_object"), [maxProperties |-> 1]),
                           [propertyNames |-> "str", additionalProperties |-> "no"]),
                      {"a"}, "int")
                  EXCEPT !.patterns = << [keys |-> {"b", "a"}, cs |-> "num"] >>],
    deps   |-> [Limits(Blank, [minProperties |-> 1])
                  EXCEPT !.required = <<"a", "b">>,
                         !.deps = << [key |-> "b", cs |-> "props"] >>],
    ref    |-> Subs([Blank EXCEPT !.fn = "validate_ref"], [ref |-> "rec"]),
    rec    |-> Subs(Props(Blank, {"a"}, "ref"), [items |-> "ref", additionalProperties |-> "ints"]),
    leaky  |-> Subs(Subs(Props(Blank, {"a", "long"}, "any"), [additionalProperties |-> "int"]),
                    [items |-> "any"]),
    fmt    |-> [Blank EXCEPT !.format = "custom", !.formatOk = {"a"}, !.formatRaise = {"long"}],
    fmts   |-> Subs(Blank, [items |-> "fmt", propertyNames |-> "fmt"]),
    fmtb   |-> [Blank EXCEPT !.format = "builtin", !.formatOk = {"a"}] ]

MCSchema == DOMAIN MCStructs

AllCalls == [fn : {"rb_validate", "rb_valid"}, cs : MCSchema, d : MCData]

(* Calls whose blocks and callables make further calls: documents with     *)
(* several errors, custom formats inside and outside is_valid, nested      *)
(* calls that raise (RangeError) or are too deep for their context.        *)
OuterCalls ==
  [fn : {"rb_validate", "rb_valid"}, cs : {"fmts", "all", "leaky", "rec"},
   d : {"mixed", "nums", "objSym", "objAB"}]
InnerCalls ==
  {[fn |-> "rb_validate", cs |-> "fmts", d |-> "mixed"],
   [fn |-> "rb_validate", cs |-> "any", d |-> "nums"],
   [fn |-> "rb_valid", cs |-> "not", d |-> "nest"],
   [fn |-> "rb_validate", cs |-> "rec", d |-> "nest3"],
   [fn |-> "rb_valid", cs |-> "not", d |-> "bigs"]}

-----------------------------------------------------------------------------
(* The documents each schema accepts; MeaningAssumption finds them to be   *)
(* the ones the rules of Semantics accept.                                 *)
MCArrays  == {d \in MCData : MCDocs[d].type = "array"}
MCObjects == {d \in MCData : MCDocs[d].type = "object"}
MCScalars == MCData \ (MCArrays \cup MCObjects)

MCAccepted ==
  [ yes    |-> MCData,
    no     |-> {},
    odd    |-> MCData,
    null   |-> {"null"},
    bool   |-> {"true"},
    int    |-> {"two"},
    num    |-> {"two"},
    mult   |-> {"two"},
    multi  |-> MCData \ {"one", "twelve", "flt", "half"},
    multis |-> MCObjects \cup {"two", "sym"},
    whole  |-> {"one", "two", "six", "big", "a", "b", "long", "sym"},
    ulong  |-> MCData,
    beyond |-> MCData \ MCObjects,
    rex    |-> MCData \ {"b", "long"},
    str    |-> {"a"},
    huge   |-> MCData \ {"empty"},
    types  |-> MCData \ (MCObjects \cup {"true"}),
    const  |-> {"one"},
    ints   |-> {"empty", "twice"},
    uniq   |-> MCData \ {"empty", "twice", "objs", "many"},
    tuple  |-> MCObjects \cup MCScalars \cup {"empty"},
    has2   |-> MCObjects \cup MCScalars \cup {"nums", "bigs"},
    hasA   |-> MCObjects \cup MCScalars,
    any    |-> {"a", "empty", "nothing", "twice"},
    any0   |-> {},
    one    |-> MCData \ (MCObjects \cup {"true", "two"}),
    all    |-> {"empty", "twice"},
    not    |-> MCData \ {"a", "empty", "nothing", "twice"},
    cond   |-> MCData \ (MCObjects \cup {"true", "empty", "twice"}),
    cond1  |-> MCObjects \cup {"true", "a"},
    cond0  |-> MCData,
    props  |-> {"nothing"},
    deps   |-> MCData \ MCObjects,
    ref    |-> MCData \ {"objAB", "objSym", "objs", "tree"},
    rec    |-> MCData \ {"objAB", "objSym", "objs", "tree"},
    leaky  |-> MCScalars \cup {"empty", "nothing"},
    fmt    |-> MCData \ {"b", "long"},
    fmts   |-> MCData \ {"objAB", "objSym", "tree"},
    fmtb   |-> MCData \ {"b", "long"} ]

MCAnswers == [s \in MCSchema |-> [d \in MCData |-> d \in MCAccepted[s]]]

(* The documents of which draft 7 says otherwise: whole floats where an    *)
(* integer is asked for, multiples whose quotient is above IntMax, and the *)
(* schemas that refer to these for a part of the document.                 *)
MCDifferences ==
  [s \in MCSchema |->
     CASE s \in {"int", "one"}     -> {"flt"}
       [] s = "whole"              -> {"flt", "twelve"}
       [] s \in {"mult", "multis"} -> {"six", "big", "twelve"}
       [] s = "multi"              -> {"twelve"}
       [] s = "tuple"              -> {"mixed"}
       [] s = "has2"               -> {"mixed", "floats"}
       [] OTHER                    -> {}]

Draft7 == [s \in MCSchema |-> [d \in MCData |->
             (d \in MCAccepted[s]) # (d \in MCDifferences[s])]]
ASSUME DifferencesAssumption ==
  LET answers == Draft7
  IN  \A s \in Schema, d \in Data : answers[s][d] <=> Says(answers, s, d)

(* The values of the constants.  TLC evaluates the definition a .cfg gives *)
(* a constant at every use, and counts coverage in a copy of it there; the *)
(* tables it evaluates once, and does not look into behind a LET.          *)
MCDoc      == LET table == MCDocs IN table
MCCompiled == LET table == MCStructs IN table
MCConforms == LET table == MCAnswers IN table

(* Nesting of containers in a document: a scalar 0, an array of scalars 1. *)
Height[d \in MCData] ==
  LET parts == {MCDocs[d].items[j] : j \in 1 .. Len(MCDocs[d].items)}
                 \cup {MCDocs[d].members[j].val : j \in 1 .. Len(MCDocs[d].members)}
      heights == {Height[p] : p \in parts}
  IN  IF MCDocs[d].type \notin {"array", "object"} THEN 0
      ELSE IF parts = {} THEN 1
      ELSE 1 + CHOOSE h \in heights : \A g \in heights : g <= h

-----------------------------------------------------------------------------
(***************************************************************************)
(* What the comment of is_valid.c says of the code and the code does not   *)
(* do; each is refuted by a run of its own.                                *)
(***************************************************************************)
ValidateCalls == [fn : {"rb_validate"}, cs : {"hasA", "leaky", "rec"}, d : MCData]

(* Short-circuits give correct behaviour at any depth: the errors yielded  *)
(* after one carry the path of the failing value.                          *)
ErrorsAtTheirPlace ==
  \A c \in 1 .. Len(ctx) : \A j \in 1 .. Len(ctx[c].errors) :
    ctx[c].errors[j].path = ctx[c].errors[j].loc

(* The depth limit is met only by a document that is as deep as the limit. *)
LimitOnlyForDeepDocuments ==
  \A c \in 1 .. Len(ctx) :
    ctx[c].depth >= MaxDepth => Height[ctx[c].call.d] >= MaxDepth

(* A document that exceeds the limit gets the RuntimeError of INCR_CONTEXT:*)
(* no write past the last path slot comes first.                           *)
DeepDocumentsRaise == exc # "overrun"
=============================================================================
