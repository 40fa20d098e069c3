----------------------------- MODULE StringText -----------------------------
(***************************************************************************)
(* What the text of a JSON string means, and what loads makes of a string  *)
(* that dumps has written: the references of StringCodec.                  *)
(***************************************************************************)
EXTENDS StringCodec

\* In the place of a character that is none.
NoChar == Char(0 - 1, FALSE)

\* The code unit of an escape, most significant digit first.
IsUnit(t, i) == i + 5 < Len(t) /\ \A j \in 2..5 : t[i + j] \in HexDigits
UnitAt(t, i) ==
  LET digit(j) == Hex(t[i + j]) IN ((digit(2) * 16 + digit(3)) * 16 + digit(4)) * 16 + digit(5)

\* How many bytes make the character of t at i, and which it is; none if there
\* is no character.  The strings of ujson are wider than those of RFC 8259: the
\* control characters 1 to 31 need no escape, as g_decoderLookup says of them,
\* and surrogates may be encoded.
Width(t, i) ==
  CASE t[i] = 92 /\ t[i + 1] = 117 -> IF IsUnit(t, i) THEN 6 ELSE 0
    [] t[i] = 92 /\ t[i + 1] # 117 -> IF t[i + 1] \in Letters THEN 2 ELSE 0
    [] OTHER -> IF t[i] = 0 THEN 0 ELSE EncodedWidth(t, i)
CharAt(t, i) ==
  CASE t[i] = 92 /\ t[i + 1] = 117 -> Char(UnitAt(t, i), TRUE)
    [] t[i] = 92 /\ t[i + 1] # 117 -> Char(Escape(t[i + 1]), FALSE)
    [] OTHER -> Char(CodePoint(t, i, Width(t, i)), FALSE)

\* The characters of t from each place up to the quote, with NoChar at the end
\* if there is none or something else is wrong.
CharsFrom(t) ==
  LET from[i \in 1..Len(t)] ==
        IF t[i] = 34 THEN <<>>
        ELSE IF Width(t, i) = 0 THEN <<NoChar>>
        ELSE <<CharAt(t, i)>> \o from[i + Width(t, i)]
  IN from
Chars(t) == CharsFrom(t)[1]

\* decode_string accepts what is a JSON string in UTF-8, but that surrogates may
\* be encoded and control characters need no escape, and nothing else; it returns
\* the characters, with two surrogates made one exactly when both are escapes and
\* adjacent.
DecodesText ==
  LET chars == Chars(text)
      refused == chars # <<>> /\ chars[Len(chars)] = NoChar
  IN result \in {"str", "error"} =>
       IF refused THEN result = "error" ELSE result = "str" /\ out = Paired(chars)

-----------------------------------------------------------------------------
\* The characters of a string from each place on, as they are written, with
\* NoChar where there is none.
PointAt(b, i) ==
  LET n == EncodedWidth(b, i) IN Char(CodePoint(b, i, n), style.ascii /\ n > 1)
PointsFrom(b) ==
  LET from[i \in 1..(Len(b) + 1)] ==
        IF i = Len(b) + 1 THEN <<>>
        ELSE IF EncodedWidth(b, i) = 0 THEN <<NoChar>>
        ELSE <<PointAt(b, i)>> \o from[i + EncodedWidth(b, i)]
  IN from
Points(b) == PointsFrom(b)[1]

\* loads returns what dumps was given, surrogates that stand for one character
\* as that character if they were escaped; and dumps refuses what is not UTF-8.
RoundTrip ==
  verdict # "unused" /\ (verdict = "FALSE" \/ result \notin {"idle", "none"}) =>
    IF WellFormedUTF8(source)
    THEN result = "str" /\ out = Paired(Points(source))
    ELSE result # "str"
=============================================================================
