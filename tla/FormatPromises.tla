--------------------------- MODULE FormatPromises ---------------------------
(***************************************************************************)
(* What the format parsers promise: the RFC's grammar, neither more nor    *)
(* less.  Each promise is asked of the kinds of text that are made of its  *)
(* own words; on a text of another kind both sides say no at once.         *)
(***************************************************************************)
EXTENDS Formats, RfcUri, RfcMail, RfcTemplate, Utf8Promises

\* parse_ipv4 (ip_parser.c) takes exactly the dotted decimals of RFC 3986:
\* four numbers up to 255, no leading zero, nothing before or after.
Ipv4Exact == kind = "ipv4" => (Passes("ipv4", text) <=> Whole(ipv4))

\* A single ":" after the last group of a compressed address.
LoneColon ==
  LET n == Len(text)
  IN  /\ n > 1 /\ At(text, n - 1) = Colon /\ At(text, n - 2) \in HexDigit
      /\ \E i \in 0..(n - 2) : At(text, i) = Colon /\ At(text, i + 1) = Colon
      /\ \A i \in 0..(n - 1) : At(text, i) # Dot

\* parse_ipv6 (ip_parser.c) takes the addresses of RFC 4291: eight groups, or
\* seven at most with one "::", the last two perhaps in dotted form.  Beyond
\* them it takes an address followed by a LoneColon, and nothing else.
Ipv6Exact ==
  kind = "ipv6" =>
    (Passes("ipv6", text) <=>
       Whole(ipv6) \/ (LoneColon /\ Len(text) - 1 \in ipv6({0})))

\* ip_parser.c:117 returns false for a "trailing single ':'".
TrailingColonRejected == LoneColon => ~Passes("ipv6", text)

\* parse_hostname (hostname_parser.c) takes the names of RFC 1123 with the
\* limits of RFC 1035, one trailing dot allowed, and with any UTF-8 character
\* for a letter when it is asked to.
HostnameExact ==
  kind = "hostname" => /\ Passes("hostname", text) <=> hostname(FALSE)
                       /\ Passes("idn-hostname", text) <=> hostname(TRUE)

\* parse_json_pointer and parse_relative_json_pointer take the pointers of RFC
\* 6901 and of the draft: no "~" but in an escape, no leading zero, whole
\* UTF-8 characters.
PointersExact ==
  kind = "pointer" =>
    /\ Passes("json-pointer", text) <=> Whole(jsonPointer)
    /\ Passes("relative-json-pointer", text) <=> Whole(relativeJsonPointer)

\* date.c takes the dates that exist in the calendar, leap days included.
DatesExact == kind = "date" => (Passes("date", text) <=> Whole(fullDate))

\* time.c and date_time.c take the times and the offsets of a day, with or
\* without a fraction, and a date and a time joined by "T", but for two things
\* that they say of themselves: "only uppercase "T"" is accepted, and "Z" alike
\* (date_time.c:8, time.c:7), and second 60 is allowed "for leap second"
\* (time.c:25), in any minute, where RFC 3339 has it at the end of a month.
LowerCase == \E i \in 1..Len(text) : text[i] \in {116, 122}
TimesExact ==
  kind = "time" =>
    /\ Passes("time", text) <=> ~LowerCase /\ (Whole(fullTime) \/ Whole(anyLeapTime))
    /\ Passes("date-time", text) <=>
         ~LowerCase /\ (Whole(dateTime) \/ Whole(LAMBDA I : anyLeapTime(dateT(I))))

\* A host that goes on after a complete dotted address.
DottedName ==
  LET start == slash(slash({0} \cup colon(scheme({0}))))
  IN  \E j \in ipv4(start \cup Char({AtSign}, userinfo(TRUE, start))) :
        /\ j < Len(text) /\ At(text, j) \notin Digit \cup {Dot, Colon, Slash, Query, Hash}
        /\ LET stop == Find(text, j, Len(text), {AtSign, Slash, Query, Hash})
           IN  stop = Len(text) \/ At(text, stop) # AtSign

\* uri_parser.c takes the URIs and the relative references of RFC 3986, and
\* those of RFC 3987 when it is asked to, but no DottedName: the first "@",
\* ":", "]", "?", "#" and "/" always split the text where the grammar does,
\* and a text that fails as a URI is tried again as a relative reference.
UriExact ==
  kind \in {"path", "authority"} =>
    \A u \in BOOLEAN :
      /\ parse_uri_reference(text, TRUE, u) <=>
           Whole(LAMBDA I : uri(u, I)) /\ ~DottedName
      /\ parse_uri_reference(text, FALSE, u) <=>
           Whole(LAMBDA I : uri(u, I) \cup relativeRef(u, I)) /\ ~DottedName

\* addr_spec_parser.c takes the addresses of RFC 5322 and 5321 within their
\* limits, however dots, quotes, escapes and brackets follow each other.
MailExact ==
  kind \in {"mail", "literal"} => /\ Passes("email", text) <=> addrSpec(FALSE)
                                  /\ Passes("idn-email", text) <=> addrSpec(TRUE)

\* uri_template_parser.c takes the templates of RFC 6570: no dot at an end of
\* a name, prefixes from 1 to 9999, every brace closed.
TemplateExact == kind = "template" => (Passes("uri-template", text) <=> Whole(uriTemplate))

\* format.c gives the internationalised and relative names the functions of
\* their families: the wider name passes what the narrower one does, and
\* within ASCII an internationalised format is the plain one.
FormatsWiden ==
  LET plain == {<<"uri", "iri">>, <<"uri-reference", "iri-reference">>,
                <<"email", "idn-email">>, <<"hostname", "idn-hostname">>}
      wider == plain \cup {<<"uri", "uri-reference">>, <<"iri", "iri-reference">>}
      ascii == \A i \in 1..Len(text) : text[i] \in Ascii
  IN  kind = "mixed" =>
        /\ \A f \in wider : Passes(f[1], text) => Passes(f[2], text)
        /\ \A f \in plain : Passes(f[1], text) <=> Passes(f[2], text) /\ ascii

\* The formats that share a production agree on it: an address and a name mean
\* the same alone, in a URI and in an address specification.
FormatsCompose ==
  LET alone(f)       == <<f, text>>
      inUri(a, z)    == <<"uri-reference", <<Slash, Slash>> \o a \o text \o z>>
      inMail(a, z)   == <<"email", <<97, AtSign>> \o a \o text \o z>>
      relative       == <<"relative-json-pointer", <<Zero>> \o text>>
      open           == <<OpenBracket>>
      close          == <<CloseBracket>>
      implied ==
        { <<alone("ipv6"), inMail(open \o Append(IPv6Tag, Colon), close)>>,
          <<inMail(open \o Append(IPv6Tag, Colon), close), alone("ipv6")>>,
          <<alone("ipv6"), inUri(open, close)>>, <<inUri(open, close), alone("ipv6")>>,
          <<alone("ipv4"), inMail(open, close)>>, <<alone("ipv4"), inUri(<<>>, <<>>)>>,
          <<alone("hostname"), inMail(<<>>, <<>>)>>,
          <<alone("json-pointer"), relative>> }
        \cup IF text = <<Hash>> THEN {} ELSE {<<relative, alone("json-pointer")>>}
  IN  kind = "mixed" =>
        \A p \in implied : Passes(p[1][1], p[1][2]) => Passes(p[2][1], p[2][2])
=============================================================================
