---------------------------- MODULE MCNumberCodec ----------------------------
(* An instance of NumberCodec for TLC, with integers of 8 and of 4 bits. *)
EXTENDS NumberCodec, SequencesExt

\* Dumps writes four digits at most, and loads reads three.
SomeNumbers == (0 - 1100)..1100 \union {n \in (0 - 12000)..12000 : n % 1000 \in {0, 1, 999}}

\* Up to four digits, of 256 and beyond, with and without a sign, what may follow
\* them, and the words.
Ends == {<<0>>, <<44, 0>>, <<46, 0>>, <<101, 0>>, <<78, 0>>}
Numerals == UNION {[1..n -> Digits] : n \in 0..4}
Words == {NaN \o <<0>>, <<78, 97, 0>>, Infinity \o <<44, 0>>, <<73, 110, 102, 0>>}
Texts ==
  {d \o <<0>> : d \in Numerals \ {<<>>}} \union {<<Minus>> \o d \o <<0>> : d \in Numerals}
  \union {s \o d \o e : s \in {<<>>, <<Minus>>}, d \in [1..2 -> {48, 57}], e \in Ends}
  \union Words \union {<<Minus>> \o w : w \in Words}
=============================================================================
