------------------------------- MODULE RfcMail -------------------------------
(***************************************************************************)
(* RFC 5322 section 3.4.1 without comments, folding and obsolete forms,    *)
(* RFC 5321 section 4.1.3 for address literals; with u, RFC 6531.  As the  *)
(* comments of addr_spec_parser.c say, a domain may end in a dot, spaces   *)
(* and tabs may stand in quotes, and a tag has a letter.                   *)
(***************************************************************************)
EXTENDS Rfc

atextByte ==
  Alpha \cup Digit \cup
    {33, 35, 36, 37, 38, 39, 42, 43, 45, 47, 61, 63, 94, 95, 96, 123, 124, 125, 126}
atom(u, I) == Some(LAMBDA J : Char(atextByte, J) \cup utf8(u, J), I)
dotAtom(u, I) == Many(LAMBDA J : atom(u, dot(J)), atom(u, I))

quote(I) == Char({34}, I)
qcontent(u, I) ==
  UNION {Char({9, 32, 33} \cup (35..91) \cup (93..126), I), utf8(u, I),
         Char({9, 32} \cup (33..126), Char({92}, I))}
quotedString(u, I) == quote(Many(LAMBDA J : qcontent(u, J), quote(I)))

letDigByte == Alpha \cup Digit
ldhStr(I) ==
  LET first == Char(letDigByte, I)
  IN  first \cup Char(letDigByte, Many(LAMBDA J : Char(letDigByte \cup {Hyphen}, J), first))
tag(I) ==   \* one letter at least, and not the one that announces IPv6
  UNION {{j \in ldhStr({i}) : /\ \E k \in i..(j - 1) : At(text, k) \in Alpha
                              /\ j \notin Word(<<73, 80, 118, 54>>, {i})} : i \in I}
dcontent(u, I) == Char((33..90) \cup (94..126), I) \cup utf8(u, I)
addressLiteral(u, I) ==
  UNION {ipv4(I), ipv6(Word(<<73, 80, 118, 54, 58>>, I)),
         Some(LAMBDA J : dcontent(u, J), colon(tag(I)))}

domain(u, I) ==
  dotAtom(u, I) \cup dot(dotAtom(u, I))
    \cup Char({CloseBracket}, addressLiteral(u, Char({OpenBracket}, I)))

addrSpec(u) ==
  \E at \in dotAtom(u, {0}) \cup quotedString(u, {0}) :
    /\ at <= MAX_LOCAL_PART
    /\ Len(text) - at - 1 <= MAX_DOMAIN
    /\ Len(text) \in domain(u, Char({AtSign}, {at}))
=============================================================================
