------------------------------- MODULE RfcUri -------------------------------
(***************************************************************************)
(* RFC 3986 appendix A, for the URI formats; with u, RFC 3987 as the       *)
(* header of uri_parser.h takes it: a character outside ASCII may stand    *)
(* wherever an unreserved one may.                                         *)
(***************************************************************************)
EXTENDS Rfc

unreservedByte == Alpha \cup Digit \cup {Hyphen, Dot, Underscore, Tilde}
subDelimByte == {33, 36, 38, 39, 40, 41, 42, 43, 44, 59, 61}

\* unreserved / pct-encoded / sub-delims, and the bytes of also.
uchar(u, also, I) ==
  Char(unreservedByte \cup subDelimByte \cup also, I)
    \cup hexdig(hexdig(Char({Percent}, I))) \cup utf8(u, I)

pchar(u, I) == uchar(u, {Colon, AtSign}, I)
segment(u, I) == Many(LAMBDA J : pchar(u, J), I)
segmentNz(u, I) == Some(LAMBDA J : pchar(u, J), I)
segmentNzNc(u, I) == Some(LAMBDA J : uchar(u, {AtSign}, J), I)
pathAbempty(u, I) == Many(LAMBDA J : segment(u, slash(J)), I)
pathAbsolute(u, I) == LET J == slash(I) IN J \cup pathAbempty(u, segmentNz(u, J))
pathRootless(u, I) == pathAbempty(u, segmentNz(u, I))
pathNoscheme(u, I) == pathAbempty(u, segmentNzNc(u, I))

ipvFuture(I) ==
  Some(LAMBDA J : Char(unreservedByte \cup subDelimByte \cup {Colon}, J),
       dot(Some(hexdig, Char({86, 118}, I))))
ipLiteral(I) ==
  LET J == Char({OpenBracket}, I) IN Char({CloseBracket}, ipv6(J) \cup ipvFuture(J))
regName(u, I) == Many(LAMBDA J : uchar(u, {}, J), I)
userinfo(u, I) == Many(LAMBDA J : uchar(u, {Colon}, J), I)
host(u, I) == ipLiteral(I) \cup ipv4(I) \cup regName(u, I)
authority(u, I) ==
  LET J == host(u, I \cup Char({AtSign}, userinfo(u, I)))
  IN  J \cup Many(digit, colon(J))

\* hier-part, and relative-part with pathNoscheme in pathRootless's place.
part(u, rootless(_), I) ==
  UNION {pathAbempty(u, authority(u, slash(slash(I)))), pathAbsolute(u, I), rootless(I), I}

anything(u, I) == Many(LAMBDA J : pchar(u, J) \cup Char({Slash, Query}, J), I)
suffix(u, I) ==
  LET J == I \cup anything(u, Char({Query}, I))
  IN  J \cup anything(u, Char({Hash}, J))

scheme(I) == Many(LAMBDA J : Char(Alpha \cup Digit \cup {Plus, Hyphen, Dot}, J), Char(Alpha, I))
uri(u, I) == suffix(u, part(u, LAMBDA J : pathRootless(u, J), colon(scheme(I))))
relativeRef(u, I) == suffix(u, part(u, LAMBDA J : pathNoscheme(u, J), I))
=============================================================================
