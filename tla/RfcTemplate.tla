----------------------------- MODULE RfcTemplate -----------------------------
(* RFC 6570 section 2, with any character outside ASCII for a literal.      *)
EXTENDS Rfc

pctEncoded(I) == hexdig(hexdig(Char({Percent}, I)))
literalByte ==   \* all but CTL, SP and " % ' < > \ ^ ` { | }
  (33..126) \ {34, 37, 39, 60, 62, 92, 94, 96, 123, 124, 125}
literal(I) == UNION {Char(literalByte, I), pctEncoded(I), utf8(TRUE, I)}

varchar(I) == Char(Alpha \cup Digit \cup {Underscore}, I) \cup pctEncoded(I)
varname(I) == Many(LAMBDA J : varchar(J \cup dot(J)), varchar(I))
maxLength(I) == Between(digit, 0, 3, Char(49..57, I))
varspec(I) == LET J == varname(I) IN J \cup Char({Star}, J) \cup maxLength(colon(J))
variableList(I) == Many(LAMBDA J : varspec(Char({Comma}, J)), varspec(I))
operator(I) == Char({43, 35, 46, 47, 59, 63, 38, 61, 44, 33, 64, 124}, I)
expression(I) ==
  LET J == Char({OpenBrace}, I) IN Char({CloseBrace}, variableList(J \cup operator(J)))
uriTemplate(I) == Many(LAMBDA J : literal(J) \cup expression(J), I)
=============================================================================
