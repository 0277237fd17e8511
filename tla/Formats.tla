------------------------------- MODULE Formats -------------------------------
(***************************************************************************)
(* formats/format.c and the validate_format_ functions it selects from,    *)
(* each a call of its parser that reports one error when the parser says   *)
(* no.  The pattern of a "regex" is Ruby's to read and has no model.       *)
(***************************************************************************)
EXTENDS UriTemplateParser, AddrSpecParser, PointerParsers, DateTimeParsers

\* The strings the function of a name lets pass; any, when the name is not
\* known (no_op_format_validate).
Passes(format, s) ==
  LET e == Len(s)
  IN  CASE format = "date"          -> parse_full_date(s, 0, e)
        [] format = "time"          -> parse_full_time(s, 0, e)
        [] format = "date-time"     -> validate_format_date_time(s)
        [] format \in {"email", "idn-email"}       -> parse_addr_spec(s, format = "idn-email")
        [] format \in {"hostname", "idn-hostname"} -> parse_hostname(s, format = "idn-hostname")
        [] format = "ipv4"          -> parse_ipv4(s, 0, e)
        [] format = "ipv6"          -> parse_ipv6(s, 0, e)
        [] format \in {"uri", "uri-reference", "iri", "iri-reference"} ->
             parse_uri_reference(s, format \in {"uri", "iri"}, format \in {"iri", "iri-reference"})
        [] format = "uri-template"  -> parse_uri_template(s)
        [] format = "json-pointer"  -> parse_json_pointer(s, 0, e)
        [] format = "relative-json-pointer" -> parse_relative_json_pointer(s)
        [] OTHER                    -> TRUE
=============================================================================
