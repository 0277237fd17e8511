----------------------------- MODULE FormatsMC -----------------------------
(***************************************************************************)
(* The words the texts are spelled with.  A byte stands for its class: the *)
(* parsers compare a byte with single bytes and classes, and with nothing  *)
(* else.                                                                   *)
(***************************************************************************)
EXTENDS FormatPromises

\* One text of up to n words over an alphabet.
Free(alphabet, n) == [k \in 1..n |-> alphabet]

Bytes1(B) == {<<b>> : b \in B}
Eacute == <<195, 169>>
Dotted == <<49, 46, 50, 46, 51, 46, 52>>   \* "1.2.3.4"

\* The bytes on both sides of every limit: of what a lead byte announces, and
\* of the second bytes it allows.
Utf8Slots ==
  << Bytes1({127, 128, 191, 192, 193, 194, 223, 224, 225, 236, 237, 238, 239,
             240, 241, 243, 244, 245, 255}),
     Bytes1({127, 128, 143, 144, 159, 160, 191, 192}) >>
    \o Free(Bytes1({127, 128, 191, 192}), 2)

\* "0" "1" "2" "5" "." "a": numbers around every limit of an octet, the
\* first three octets given.
Ipv4Slots ==
  << {<<>>, <<49, 46>>}, {<<49, 46>>}, {<<50, 53, 53, 46>>, <<48, 46>>, <<49>>} >>
    \o Free(Bytes1({48, 49, 50, 53, 46, 97}), 4)

\* "f:f:f:" "f:" "f" ":" "1.2.3.4", and four more digits or none.
Ipv6Slots ==
  Free({<<102, 58, 102, 58, 102, 58>>, <<102, 58>>, <<102>>, <<58>>, Dotted}, 5)
    \o << {<<>>, <<58>>, <<102, 102, 102, 102>>} >>

\* "a" "-" "." "_", and the two bytes of U+00E9 together and apart.
HostnameSlots == Free(Bytes1({97, 45, 46, 195, 169}) \cup {Eacute}, 6)

\* "/" "~" "0" "1" "#", U+00E9 and half of it.
PointerSlots == Free(Bytes1({47, 126, 48, 49, 35, 195}) \cup {Eacute}, 5)

\* The digits of numbers below 100.
Pairs(S) == {<<48 + (n \div 10), 48 + (n % 10)>> : n \in S}

\* Centuries and years, then months and days around every limit.
DateSlots ==
  << Pairs({19, 20, 97}), Pairs({0, 4, 23}), {<<45>>, <<>>}, Pairs({0, 1, 2, 4, 12, 13}),
     {<<45>>, <<46>>}, Pairs({0, 1, 28, 29, 30, 31, 32}) >>

\* "2024-02-29T" or nothing, then a time and a zone, and "t" and "z" for
\* their capitals; leap seconds at the end of the month and elsewhere.
LastOfMonth == <<50, 48, 50, 52, 45, 48, 50, 45, 50, 57>>
TimeSlots ==
  << {LastOfMonth \o <<84>>, LastOfMonth \o <<116>>, <<>>},
     Pairs({0, 23, 24}), {<<58>>}, Pairs({59, 60}), {<<58>>}, Pairs({0, 60, 61}),
     {<<>>, <<46>>, <<46, 57, 57>>}, {<<90>>, <<43>>, <<45>>, <<122>>},
     Pairs({0, 23, 24}), {<<58>>, <<>>}, Pairs({0, 59, 60}) >>

\* "a" ":" "/" "?" "#" "@" "%" "%4F" and U+00E9.
PathSlots == Free(Bytes1({97, 58, 47, 63, 35, 37}) \cup {<<37, 52, 70>>, Eacute}, 5)

\* "a:" or nothing, "//", and then an authority of "a" "1" ":" "@" "/" "[" "]"
\* "[v1." "::1]" "1.2.3.4".
AuthoritySlots ==
  << {<<97, 58>>, <<>>}, {<<47, 47>>} >>
    \o Free(Bytes1({97, 49, 58, 64, 47, 91, 93}) \cup {<<91, 118, 49, 46>>, <<58, 58, 49, 93>>, Dotted}, 4)

\* "a" "." "@" """ "\" " " and U+00E9, then nothing or eighteen letters.
MailSlots ==
  Free(Bytes1({97, 46, 64, 34, 92, 32}) \cup {Eacute}, 5)
    \o << {<<>>, <<97>>, <<46>>, <<34>>, [i \in 1..18 |-> 97]} >>

\* "a@[" or "a@", then "IPv6" ":" "::1" "1.2.3.4" "a" "1" "-" "]" "[" U+00E9.
LiteralSlots ==
  << {<<97, 64, 91>>, <<97, 64>>} >>
    \o Free(Bytes1({58, 97, 49, 45, 91, 93}) \cup {IPv6Tag, <<58, 58, 49>>, Dotted, Eacute}, 4)

\* "{" or "{+", a first "a" "." "," or "%4F", then words of these and ":" ":1"
\* "000" "*", then "}" and a "~", "'", "%", "}", "{a}", U+00E9, or half of it;
\* or nothing.
TemplateSlots ==
  << {<<123>>, <<123, 43>>}, Bytes1({97, 46, 44}) \cup {<<37, 52, 70>>} >>
    \o Free(Bytes1({97, 46, 44, 58, 42}) \cup {<<58, 49>>, <<48, 48, 48>>, <<37, 52, 70>>}, 3)
    \o << {<<125>> \o w : w \in Bytes1({126, 39, 37, 125, 195}) \cup
                                {<<>>, <<123, 97, 125>>, Eacute}} \cup {<<>>} >>

\* Addresses, names, pointers and references: "f:" ":" "1.2.3.4" "a" "." "@"
\* "/" "#" and U+00E9.
MixedSlots == Free(Bytes1({58, 97, 46, 64, 47, 35}) \cup {<<102, 58>>, Dotted, Eacute}, 4)

Alphabets ==
  [utf8 |-> Utf8Slots, ipv4 |-> Ipv4Slots, ipv6 |-> Ipv6Slots, hostname |-> HostnameSlots,
   pointer |-> PointerSlots, date |-> DateSlots, time |-> TimeSlots, path |-> PathSlots,
   authority |-> AuthoritySlots, mail |-> MailSlots, literal |-> LiteralSlots,
   template |-> TemplateSlots, mixed |-> MixedSlots]

Ipv6Alphabet == [ipv6 |-> Ipv6Slots]
=============================================================================
