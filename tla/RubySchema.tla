----------------------------- MODULE RubySchema -----------------------------
(***************************************************************************)
(* The Ruby value a schema is compiled from and how compile() reads it:    *)
(* which of its parts are compiled as schemas of their own, in which       *)
(* order, under which path; what "type" and "format" select; how the URIs  *)
(* of $id and $ref are joined and decoded.                                 *)
(***************************************************************************)
EXTENDS Integers, Sequences, SequencesExt

CONSTANTS
  Value,      (* Positions in the Ruby schema.                             *)
  Ruby,       (* Ruby[v]: what is there.                                   *)
  Pieces,     (* Pieces[k]: String k cut at its slashes.                   *)
  Unescape,   (* Unescape[t]: token or document name t, percent and tilde  *)
              (* escapes undone.                                           *)
  JoinDoc,    (* JoinDoc[b][d]: what URI.join makes of absolute b and d.   *)
  Unparsable, (* Tokens that make URI.join raise.                          *)
  BadRegexp,  (* Keys that are no regular expression.                      *)
  CustomFormat, (* Names of the formats given to Schema.new.               *)
  TmpSchema,  (* The hash a "dependencies" array is compiled as.           *)
  Digits,     (* Digits[j]: how a path spells the item j of an Array.      *)
  Height      (* Height[v]: how deep the Arrays in v are nested.           *)

(***************************************************************************)
(* A URI reference: a document part ("" when there is none) and a fragment,*)
(* as the tokens it is cut into.  "#/a/b" is <<"#", "a", "b">>, the anchor *)
(* "#foo" is the single token <<"#foo">>.                                  *)
(***************************************************************************)
Uri(doc, at) == [doc |-> doc, at |-> at]
NoUri == Uri("<nil>", <<>>)
UriType == [doc : STRING, at : Seq(STRING)]

RubyType ==
  [shape : {"hash", "array", "string", "true", "false", "other"},
   members : Seq([key : STRING, val : Value]), items : Seq(Value),
   uri : UriType, text : STRING]

ASSUME RubyAssumption == TmpSchema \in Value /\ Ruby \in [Value -> RubyType]

(* No Array contains itself: compile() would not end on it.                *)
ASSUME HeightAssumption ==
  /\ Height \in [Value -> Nat]
  /\ \A v \in Value : \A j \in 1 .. Len(Ruby[v].items) : Height[Ruby[v].items[j]] < Height[v]
ASSUME DigitsAssumption ==
  /\ Digits \in Seq(STRING)
  /\ \A v \in Value : Len(Ruby[v].items) <= Len(Digits)
ASSUME TextAssumption ==
  /\ \A k \in DOMAIN Pieces : Pieces[k] \in Seq(STRING)
  /\ \A t \in DOMAIN Unescape : Unescape[t] \in STRING

(* Keys that are not Strings (Symbols, say) have no pieces.                *)
IsString(k) == k \in DOMAIN Pieces
Cut(keys) == FlattenSeq([j \in 1 .. Len(keys) |-> Pieces[keys[j]]])

Shape(v) == Ruby[v].shape
Keyed(v, k) == \E j \in 1 .. Len(Ruby[v].members) : Ruby[v].members[j].key = k
Lookup(v, k) ==
  Ruby[v].members[CHOOSE j \in 1 .. Len(Ruby[v].members) : Ruby[v].members[j].key = k].val
HasShape(v, k, shapes) == Keyed(v, k) /\ Shape(Lookup(v, k)) \in shapes

SchemaShape == {"hash", "true", "false"}

-----------------------------------------------------------------------------
(***************************************************************************)
(* The parts of a hash that compile() compiles, as a list of jobs.         *)
(***************************************************************************)
KnownKeyword ==
  {"$id", "$ref", "$recursiveAnchor", "$recursiveRef", "type", "const", "enum",
   "if", "then", "else", "allOf", "anyOf", "oneOf", "not", "multipleOf",
   "maximum", "exclusiveMaximum", "minimum", "exclusiveMinimum", "maxLength",
   "minLength", "pattern", "format", "items", "additionalItems",
   "unevaluatedItems", "contains", "maxItems", "minItems", "uniqueItems",
   "maxContains", "minContains", "properties", "patternProperties",
   "additionalProperties", "unevaluatedProperties", "propertyNames",
   "maxProperties", "minProperties", "required", "dependentRequired",
   "dependencies"}
SingleKeyword ==
  {"if", "then", "else", "not", "items", "additionalItems", "contains",
   "propertyNames", "additionalProperties"}
ListKeyword ==
  {"allOf", "anyOf", "oneOf", "items", "properties", "patternProperties",
   "dependencies"}

(* The names this module and Compile spell out are strings: what TLA+ says *)
(* of every literal, stated for provers that do not know it.               *)
Literals ==
  {"", "#", "<nil>", "nested", "none", "custom", "builtin", "no_op_validate",
   "validate_null", "validate_bool", "validate_string", "validate_integer",
   "validate_number", "validate_array", "validate_object",
   "validate_by_type_list", "validate_by_data_type"}
    \cup SingleKeyword \cup ListKeyword

ASSUME LiteralsAssumption == Literals \subseteq STRING

ASSUME PiecesAssumption ==
  /\ SingleKeyword \cup ListKeyword \subseteq DOMAIN Pieces
  /\ \A j \in DOMAIN Digits : Digits[j] \in DOMAIN Pieces

(* keys: the position of the part, from the hash.  An "element" is wrapped *)
(* in a Ruby object; "keep" puts that object into the Array or Hash being  *)
(* filled, "store" assigns the Array or Hash to the field of its keyword.  *)
Job(do, kw, keys, val) == [do |-> do, kw |-> kw, keys |-> keys, val |-> val]
JobType ==
  [do : {"single", "element", "keep", "store", "alloc", "nested"},
   kw : STRING, keys : Seq(STRING), val : Value]

Single(v, k) ==
  IF HasShape(v, k, SchemaShape)
    THEN <<Job("single", k, <<k>>, Lookup(v, k))>> ELSE <<>>

Element(kw, keys, val) == <<Job("element", kw, keys, val), Job("keep", kw, keys, val)>>

Digit(j) == <<Digits[j]>>

Collection(v, k) ==
  IF ~HasShape(v, k, {"array"}) THEN <<>>
  ELSE LET items == Ruby[Lookup(v, k)].items
       IN  FlattenSeq([j \in 1 .. Len(items) |->
                         Element(k, <<k>> \o Digit(j), items[j])])
             \o <<Job("store", k, <<k>>, v)>>

(* An array under "dependencies" is compiled as a hash made on the spot.   *)
Entries(v, k) ==
  IF ~HasShape(v, k, {"hash"}) THEN <<>>
  ELSE LET members == Ruby[Lookup(v, k)].members
           Part(m) == IF k = "dependencies" /\ Shape(m.val) = "array"
                        THEN TmpSchema ELSE m.val
       IN  FlattenSeq([j \in 1 .. Len(members) |->
                         IF ~IsString(members[j].key) THEN <<>>
                         ELSE Element(k, <<k, members[j].key>>, Part(members[j]))])
             \o <<Job("store", k, <<k>>, v)>>

(* Schemas below an unknown keyword: the value itself, or those in Arrays, *)
(* at any depth.  The number of slots is counted by a traversal of its own.*)
NestedEntries[v \in Value] ==
  IF Shape(v) \in SchemaShape THEN << [keys |-> <<>>, val |-> v] >>
  ELSE IF Shape(v) # "array" THEN <<>>
  ELSE FlattenSeq([j \in 1 .. Len(Ruby[v].items) |->
         LET below == NestedEntries[Ruby[v].items[j]]
         IN  [n \in 1 .. Len(below) |-> [below[n] EXCEPT !.keys = Digit(j) \o @]]])

Total(counts) ==
  LET sum[n \in 0 .. Len(counts)] == IF n = 0 THEN 0 ELSE sum[n - 1] + counts[n]
  IN  sum[Len(counts)]

CountNested[v \in Value] ==
  IF Shape(v) \in SchemaShape THEN 1
  ELSE IF Shape(v) # "array" THEN 0
  ELSE Total([j \in 1 .. Len(Ruby[v].items) |-> CountNested[Ruby[v].items[j]]])

Unknown(m) == IsString(m.key) /\ m.key \notin KnownKeyword

NestedJobs(v) ==
  FlattenSeq([j \in 1 .. Len(Ruby[v].members) |->
    LET m == Ruby[v].members[j]
        found == NestedEntries[m.val]
    IN  IF ~Unknown(m) THEN <<>>
        ELSE [n \in 1 .. Len(found) |->
                Job("nested", m.key, <<m.key>> \o found[n].keys, found[n].val)]])

(* Mutant: only the schemas directly under the keyword are counted.        *)
NestedTotalFlat(v) ==
  Total([j \in 1 .. Len(Ruby[v].members) |->
           LET m == Ruby[v].members[j]
           IN  IF ~Unknown(m) THEN 0
               ELSE IF Shape(m.val) \in SchemaShape THEN 1
               ELSE Len(SelectSeq(Ruby[m.val].items,
                                  LAMBDA item : Shape(item) \in SchemaShape))])

NestedTotal(v) ==
  Total([j \in 1 .. Len(Ruby[v].members) |->
           IF Unknown(Ruby[v].members[j]) THEN CountNested[Ruby[v].members[j].val] ELSE 0])

Nested(v) ==
  IF NestedTotal(v) = 0 THEN <<>>
  ELSE <<Job("alloc", "nested", <<>>, v)>> \o NestedJobs(v)

Jobs(v) ==
  Single(v, "if") \o Single(v, "then") \o Single(v, "else")
    \o Collection(v, "allOf") \o Collection(v, "anyOf") \o Collection(v, "oneOf")
    \o Single(v, "not") \o Single(v, "items") \o Collection(v, "items")
    \o Single(v, "additionalItems") \o Single(v, "contains")
    \o Single(v, "propertyNames") \o Single(v, "additionalProperties")
    \o Entries(v, "properties") \o Entries(v, "patternProperties")
    \o Entries(v, "dependencies") \o Nested(v)

-----------------------------------------------------------------------------
(***************************************************************************)
(* "type" and "format".                                                    *)
(***************************************************************************)
TypeFnOf ==
  [null |-> "validate_null", boolean |-> "validate_bool",
   string |-> "validate_string", integer |-> "validate_integer",
   number |-> "validate_number", array |-> "validate_array",
   object |-> "validate_object"]

TypeNames(v) ==
  LET items == Ruby[Lookup(v, "type")].items
  IN  [j \in 1 .. Len(items) |-> Ruby[items[j]].text]

(* What parse_type_array raises on.                                        *)
BadTypeArray(v) ==
  /\ HasShape(v, "type", {"array"})
  /\ LET items == Ruby[Lookup(v, "type")].items
     IN  \/ items = <<>>
         \/ \E j \in 1 .. Len(items) :
              Shape(items[j]) # "string" \/ TypeNames(v)[j] \notin DOMAIN TypeFnOf
         \/ \E j, k \in 1 .. Len(items) : j < k /\ TypeNames(v)[j] = TypeNames(v)[k]

TypeFlags(v) == IF HasShape(v, "type", {"array"}) THEN ToSet(TypeNames(v)) ELSE {}

TypeFn(v) ==
  IF HasShape(v, "type", {"array"}) THEN "validate_by_type_list"
  ELSE IF ~HasShape(v, "type", {"string"}) THEN "validate_by_data_type"
  ELSE LET name == Ruby[Lookup(v, "type")].text
       IN  IF name \in DOMAIN TypeFnOf THEN TypeFnOf[name] ELSE "no_op_validate"

BuiltinFormat ==
  {"date", "time", "date-time", "email", "idn-email", "hostname", "idn-hostname",
   "ipv4", "ipv6", "uri", "uri-reference", "iri", "iri-reference",
   "uri-template", "regex", "json-pointer", "relative-json-pointer"}

Format(v) ==
  IF ~HasShape(v, "format", {"string"}) THEN "none"
  ELSE LET name == Ruby[Lookup(v, "format")].text
       IN  IF name \in CustomFormat THEN "custom"
           ELSE IF name \in BuiltinFormat THEN "builtin" ELSE "none"

-----------------------------------------------------------------------------
(***************************************************************************)
(* URIs.                                                                   *)
(***************************************************************************)
UriAt(v, k) == IF HasShape(v, k, {"string"}) THEN Ruby[Lookup(v, k)].uri ELSE NoUri

IsAbsolute(u) == u.doc \in DOMAIN JoinDoc

(* URI.join makes a name of any base and any name in the schema.           *)
ASSUME JoinAssumption ==
  \A b \in DOMAIN JoinDoc : \A v \in Value :
    LET d == Ruby[v].uri.doc
    IN  Ruby[v].uri = NoUri \/ d = "" \/ d \in DOMAIN JoinDoc \/ JoinDoc[b][d] \in STRING

(* URI.join; NoUri when there is no base or URI.join raises.               *)
UriJoin(base, u) ==
  IF base = NoUri \/ ~IsAbsolute(base) \/ \E j \in DOMAIN u.at : u.at[j] \in Unparsable
    THEN NoUri
    ELSE Uri(IF u.doc = "" THEN base.doc ELSE JoinDoc[base.doc][u.doc], u.at)

DecodeRef(u) ==
  Uri(Unescape[u.doc], Cut([j \in 1 .. Len(u.at) |-> Unescape[u.at[j]]]))
=============================================================================
