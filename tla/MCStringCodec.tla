---------------------------- MODULE MCStringCodec ----------------------------
(* An instance of StringCodec for TLC. *)
EXTENDS StringText

\* All sequences of up to n of some byte strings, joined.
Joined(pieces, n) ==
  LET upTo[k \in 0..n] ==
        IF k = 0 THEN {<<>>}
        ELSE upTo[k - 1] \union {s \o p : s \in upTo[k - 1], p \in pieces}
  IN upTo[n]

\* Strings: the classes of bytes of both escape functions.
Characters == {<<0>>, <<9>>, <<31>>, <<34>>, <<47>>, <<60>>, <<92>>, <<97>>, <<195, 169>>,
               <<237, 160, 189>>, <<237, 184, 128>>, <<239, 191, 191>>, <<240, 144, 128, 128>>,
               <<244, 143, 191, 191>>}
Broken == {<<128>>, <<193, 191>>, <<195>>, <<224, 159, 191>>, <<226, 130>>, <<240, 143, 191, 191>>,
           <<240, 159, 152>>, <<244, 144, 128, 128>>, <<245, 128, 128, 128>>, <<248>>, <<252>>, <<255>>}
SomeStrings == Joined(Characters, 3) \union Joined(Characters \union Broken, 2)
AllStyles == [ascii : BOOLEAN, html : BOOLEAN, slashes : BOOLEAN]

\* Documents: plain characters, a control character as it is, escapes, escaped
\* surrogates, UTF-8 of each length, surrogates in UTF-8, the ends of each range,
\* and what is refused.
Hex4(a, b, c, d) == <<92, 117, a, b, c, d>>
HighEscape == Hex4(100, 56, 51, 100)
LowEscape == Hex4(68, 69, 48, 48)
Accepts == {<<97>>, <<10>>, <<92, 110>>, Hex4(48, 48, 52, 49), HighEscape, LowEscape, <<195, 169>>,
            <<237, 160, 189>>, <<237, 184, 128>>, <<240, 159, 152, 128>>, <<244, 143, 191, 191>>}
Refuses == {<<34>>, <<92>>, <<92, 120>>, <<92, 117, 48>>, <<0>>, <<128>>, <<193, 191>>, <<224, 159>>,
            <<240, 143, 191, 191>>, <<244, 144, 128, 128>>, <<245>>, <<248>>, <<195>>}
Documents == {d \o <<34, 58, 0>> : d \in Joined(Accepts, 4)}
             \union {d \o <<0>> : d \in Joined(Accepts \union Refuses, 3)}
=============================================================================
