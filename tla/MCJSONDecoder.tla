---------------------------- MODULE MCJSONDecoder ----------------------------
(* Instances of JSONDecoder for TLC. *)
EXTENDS JSONDecoderText, JSONGrammar, FiniteSets

Words(A, n) == UNION {[1 .. k -> A] : k \in 0 .. n}

Structural == {"[", "]", "{", "}", ",", ":", "s", "n"}

\* Longer documents: texts, and what stale types, errors in a nested value
\* and values that are not consumed make of them.
Seeds == {
  <<"{", "s", ":", "n", ",", "s", ":", "[", "]", "}">>,
  <<"[", "n", ",", "{", "s", ":", "s", "}", "]">>,
  <<"{", "[", "s", "]", ":", "n", "}">>,
  <<"{", "{", "s", ":", "s", "}", ":", "n", ",", "s", ":", "[", "}">>,
  <<" ", "[", "[", "n", "]", " ", ",", "s", " ", "]", " ">>,
  <<"[", "s", ",", "s", ",", "q">>,
  <<"[", "[", "[", "]", "]", "]">> }

\* The documents one replaced, inserted or deleted character away from d.
Edits(d) ==
  LET Before(i) == SubSeq(d, 1, i - 1)
      From(i) == SubSeq(d, i, Len(d))
  IN {d} \union
     {Before(i) \o <<c>> \o From(i + 1) : i \in DOMAIN d, c \in Chars} \union
     {Before(i) \o <<c>> \o From(i) : i \in 1 .. Len(d) + 1, c \in Chars} \union
     {Before(i) \o From(i + 1) : i \in DOMAIN d}

EditedSeeds == UNION {Edits(d) : d \in Seeds}

\* All short documents, what may be inside an array and behind a key, and the
\* edited longer ones.
Nested == Words(Structural, 3)
SomeDocs ==
  Words(Chars, 3) \union Words(Structural, 4) \union EditedSeeds
  \union {<<"[">> \o w \o <<"]">> : w \in Nested}
  \union {<<"{", "s", ":">> \o w \o <<"}">> : w \in Nested}
ViewDocs == Words({"[", "]", " ", "n", "s"}, 4)

\* A C-contiguous buffer that holds a JSON text is decoded like a copy of its
\* bytes, also when it is a view and bytes follow it in memory.
ViewIsDecoded ==
  pc = "done" /\ argKind = "buffer" /\ IsText(SubSeq(memory, 1, end)) => ret # 0
=============================================================================
