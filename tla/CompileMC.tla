------------------------------ MODULE CompileMC ------------------------------
(***************************************************************************)
(* Instances for TLC: one Ruby schema for every way compile() can go, each *)
(* built from named values so that a reader can follow a counterexample.   *)
(***************************************************************************)
EXTENDS Trees

-----------------------------------------------------------------------------
(***************************************************************************)
(* Ruby values.                                                            *)
(***************************************************************************)
Plain0(shape) == [shape |-> shape, members |-> <<>>, items |-> <<>>,
                  uri |-> NoUri, text |-> ""]
Hash(pairs) == [Plain0("hash") EXCEPT !.members =
                  [j \in 1 .. Len(pairs) |-> [key |-> pairs[j][1], val |-> pairs[j][2]]]]
List(items) == [Plain0("array") EXCEPT !.items = items]
Text(text) == [Plain0("string") EXCEPT !.text = text]
Link(doc, at) == [Plain0("string") EXCEPT !.uri = Uri(doc, at)]

A == "http://x/a.json"
B == "http://x/b.json"
S == "http://x/sub"

Atoms ==
  [ true |-> Plain0("true"), false |-> Plain0("false"), one |-> Plain0("other"),
    empty |-> Hash(<<>>), none |-> List(<<>>),
    int |-> Text("integer"), str |-> Text("string"), any |-> Text("any"),
    isInt |-> Hash(<< <<"type", "int">> >>), isAny |-> Hash(<< <<"type", "any">> >>),
    ints |-> List(<<"int", "str">>), isIntStr |-> Hash(<< <<"type", "ints">> >>),
    date |-> Text("date"), mine |-> Text("mine"),
    isDate |-> Hash(<< <<"format", "date">> >>),
    isMine |-> Hash(<< <<"format", "mine">>, <<"type", "int">> >>),
    tmp |-> Hash(<< <<"required", "none">>, <<"type", "object">> >>),
    object |-> Text("object") ]

Links ==
  [ top |-> Link("", <<"#">>), toS |-> Link("", <<"#", "definitions", "s">>),
    toSlash |-> Link("", <<"#", "definitions", "u~1v">>),
    toTilde |-> Link("", <<"#", "definitions", "t~0">>),
    toArr |-> Link("", <<"#", "extra", "0", "1">>),
    toIf |-> Link("", <<"#", "if", "properties", "s">>),
    toAll |-> Link("", <<"#", "allOf", "0">>),
    toPart |-> Link(A, <<"#", "definitions", "s">>),
    toItems |-> Link("", <<"#", "definitions", "items">>),
    toType |-> Link("", <<"#", "definitions", "type">>),
    nowhere |-> Link("", <<"#", "definitions", "t~0">>),
    foo |-> Link("", <<"#foo">>), idA |-> Link(A, <<>>), idB |-> Link("b.json", <<>>),
    idSub |-> Link("sub", <<>>), idSpace |-> Link("sub%20", <<>>),
    unparsed |-> Link("", <<"#", " ">>) ]

Ref(link) == Hash(<< <<"$ref", link>> >>)
RefValues ==
  [ rTop |-> Ref("top"), rS |-> Ref("toS"), rSlash |-> Ref("toSlash"),
    rTilde |-> Ref("toTilde"), rArr |-> Ref("toArr"), rIf |-> Ref("toIf"),
    rAll |-> Ref("toAll"), rPart |-> Ref("toPart"), rFoo |-> Ref("foo"),
    rItems |-> Ref("toItems"), rType |-> Ref("toType"),
    rB |-> Ref("idB"), rSub |-> Ref("idSub"), rSpace |-> Ref("idSpace"),
    rUnparsed |-> Ref("unparsed") ]

-----------------------------------------------------------------------------
(***************************************************************************)
(* Schemas, with the parts they need.                                      *)
(***************************************************************************)
Defs(pairs) == Hash(pairs)

(* Definitions and a recursive $ref, without any $id.                      *)
LocalParts ==
  [ local |-> Hash(<< <<"definitions", "defS">>, <<"items", "rTop">>,
                      <<"properties", "pS">>, <<"type", "ints">> >>),
    defS |-> Defs(<< <<"s", "isInt">> >>), pS |-> Hash(<< <<"x", "rS">>, <<":sym", "rS">> >>) ]

(* An absolute base; the same pointer against it, and the base in full.    *)
BasedParts ==
  [ based |-> Hash(<< <<"$id", "idA">>, <<"definitions", "defS">>,
                      <<"anyOf", "lS">>, <<"additionalItems", "rTop">> >>),
    lS |-> List(<<"rS", "rPart">>) ]

(* A resource inside a resource: both have definitions/s.                  *)
InnerParts ==
  [ inner |-> Hash(<< <<"$id", "idA">>, <<"definitions", "defSB">>, <<"not", "rB">> >>),
    defSB |-> Defs(<< <<"s", "isInt">>, <<"b", "resB">> >>),
    resB |-> Hash(<< <<"$id", "idB">>, <<"definitions", "defT">>, <<"oneOf", "lT">> >>),
    defT |-> Defs(<< <<"s", "isMine">> >>), lT |-> List(<<"rS", "rPart">>) ]

(* An anchor; a $ref beside an $id.                                        *)
AnchorParts ==
  [ anchor |-> Hash(<< <<"$id", "idA">>, <<"definitions", "defF">>, <<"contains", "refId">> >>),
    defF |-> Defs(<< <<"f", "named">>, <<"g", "sub">> >>),
    named |-> Hash(<< <<"$id", "foo">>, <<"format", "date">> >>),
    sub |-> Hash(<< <<"$id", "idSub">>, <<"items", "rB2">> >>),
    rB2 |-> Hash(<< <<"$ref", "idSub">> >>),
    refId |-> Hash(<< <<"$ref", "foo">>, <<"$id", "idB">> >>) ]

(* Keys with a slash and a tilde.                                          *)
EscapeParts ==
  [ escaped |-> Hash(<< <<"definitions", "defUV">>, <<"allOf", "lUV">> >>),
    defUV |-> Defs(<< <<"u/v", "isAny">>, <<"t~", "isDate">> >>),
    lUV |-> List(<<"rSlash", "rTilde">>) ]

(* Schemas in Arrays under an unknown keyword, of single-schema keywords,  *)
(* and a $ref into one.                                                    *)
ArrayParts ==
  [ arrays |-> Hash(<< <<"extra", "deep">>, <<"more", "one">>, <<"items", "tuple">>,
                       <<"propertyNames", "rIf">>, <<"if", "cond">> >>),
    deep |-> List(<<"pair", "empty", "one">>), pair |-> List(<<"false", "isMine">>),
    tuple |-> List(<<"rArr", "true">>),
    cond |-> Hash(<< <<"properties", "condP">> >>), condP |-> Hash(<< <<"s", "isInt">> >>) ]

(* Dependencies of both kinds, and schemas that are no schemas.            *)
DependParts ==
  [ depend |-> Hash(<< <<"dependencies", "deps">>, <<"then", "one">>, <<"else", "true">>,
                       <<"additionalProperties", "false">>, <<"allOf", "empty">> >>),
    deps |-> Hash(<< <<"k", "none">>, <<"l", "rTop">>, <<":sym", "true">> >>) ]

(* compile raises: an invalid type array below a part already kept, a key  *)
(* that is no regular expression, a $ref to nothing.                       *)
RaiseParts ==
  [ badType |-> Hash(<< <<"properties", "pBad">>, <<"not", "isInt">>, <<"extra", "deep">> >>),
    pBad |-> Hash(<< <<"s", "isInt">>, <<"t", "twice">> >>),
    twice |-> Hash(<< <<"not", "empty">>, <<"type", "intTwice">> >>),
    intTwice |-> List(<<"int", "int">>),
    badKey |-> Hash(<< <<"anyOf", "lInt">>, <<"patternProperties", "pKey">> >>),
    lInt |-> List(<<"isInt">>), pKey |-> Hash(<< <<"s", "isInt">>, <<"(", "isDate">> >>),
    missing |-> Hash(<< <<"allOf", "lMiss">>, <<"definitions", "defS">> >>),
    lMiss |-> List(<<"rS", "rUnparsed">>) ]

(* Definitions that have the names of keywords.                            *)
KeywordParts ==
  [ keyword |-> Hash(<< <<"definitions", "defKey">>, <<"allOf", "lKey">> >>),
    defKey |-> Defs(<< <<"items", "isInt">>, <<"type", "isDate">> >>),
    lKey |-> List(<<"rItems", "rType">>) ]

(* A pointer written by two schemas of one resource.                       *)
ShadowParts ==
  [ shadowed |-> Hash(<< <<"$id", "idA">>, <<"allOf", "lInt">>, <<"not", "notAll">>,
                         <<"properties", "pAll">> >>),
    notAll |-> Hash(<< <<"allOf", "lDate">> >>), lDate |-> List(<<"isDate">>),
    pAll |-> Hash(<< <<"x", "rAll">> >>) ]

(* "#" below an $id.                                                       *)
RecursiveParts ==
  [ recursive |-> Hash(<< <<"$id", "idA">>, <<"properties", "pTree">> >>),
    pTree |-> Hash(<< <<"x", "tree">> >>),
    tree |-> Hash(<< <<"$id", "idB">>, <<"items", "rTop">> >>) ]

(* An $id with a percent escape.                                           *)
SpaceParts ==
  [ spaced |-> Hash(<< <<"$id", "idA">>, <<"definitions", "defSpace">>, <<"items", "rSpace">> >>),
    defSpace |-> Defs(<< <<"s", "space">> >>),
    space |-> Hash(<< <<"$id", "idSpace">>, <<"type", "int">> >>) ]

MCRuby ==
  Atoms @@ Links @@ RefValues @@ LocalParts @@ BasedParts @@ InnerParts @@ AnchorParts
    @@ EscapeParts @@ ArrayParts @@ DependParts @@ RaiseParts @@ KeywordParts
    @@ ShadowParts @@ RecursiveParts @@ SpaceParts
MCValue == DOMAIN MCRuby
MCDigits == <<"0", "1", "2">>
MCHeight[v \in MCValue] ==
  LET below == {MCHeight[MCRuby[v].items[j]] : j \in 1 .. Len(MCRuby[v].items)}
  IN  IF below = {} THEN 0 ELSE 1 + Max(below)

MCStructIds == 1 .. 99   (* More than any instance makes.                 *)

EverySchema ==
  {"local", "based", "inner", "anchor", "escaped", "arrays", "depend", "badType",
   "badKey", "missing", "keyword", "shadowed", "recursive", "spaced", "true", "false"}
ShadowedSchema == {"shadowed", "local", "based", "inner"}
RecursiveSchema == {"recursive", "local", "based", "inner"}
SpacedSchema == {"spaced", "local", "based", "inner"}

-----------------------------------------------------------------------------
(***************************************************************************)
(* Text.                                                                   *)
(***************************************************************************)
Whole(keys) == [k \in keys |-> <<k>>]
MCPieces ==
  Whole(KnownKeyword \cup {"definitions", "extra", "more", "s", "t", "x", "b", "f",
                           "g", "k", "l", "t~", "(", "#", " ", "#foo"}
        \cup {"0", "1", "2"})
    @@ ("u/v" :> <<"u", "v">>)
Docs == {"", "<nil>", A, B, S, "b.json", "sub", "http://x/sub%20"}
MCUnescape ==
  ("u~1v" :> "u/v") @@ ("t~0" :> "t~") @@ ("sub%20" :> "sub ")
    @@ ("http://x/sub%20" :> "http://x/sub ")
    @@ [t \in DOMAIN MCPieces \cup Docs |-> t]
MCJoinDoc ==
  [base \in {A, B, S, "http://x/sub%20"} |->
     [doc \in {"", "b.json", "sub", "sub%20"} |->
        CASE doc = "" -> base [] doc = "b.json" -> B [] doc = "sub" -> S
          [] OTHER -> "http://x/sub%20"]]
=============================================================================
