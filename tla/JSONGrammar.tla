---------------------------- MODULE JSONGrammar ----------------------------
(***************************************************************************)
(* The reference the decoder is checked against: which sequences of the    *)
(* characters of JSONDecoder are JSON texts, by their grammar (RFC 8259)   *)
(* and not by any scanning order, and which text an object stands for.     *)
(***************************************************************************)
EXTENDS JSONDecoder

\* The first i characters of a text without their white space, which is
\* insignificant between tokens.
Kept(t) ==
  LET kept[i \in 0 .. Len(t)] ==
        IF i = 0 THEN <<>>
        ELSE IF t[i] = " " THEN kept[i - 1] ELSE Append(kept[i - 1], t[i])
  IN kept
Strip(t) == Kept(t)[Len(t)]

(***************************************************************************)
(* A phrase of the grammar is the set of its occurrences in a text t: the  *)
(* pairs of the place where one begins and the place behind it.            *)
(***************************************************************************)
Token(t, c) == {<<p, p + 1>> : p \in {i \in DOMAIN t : t[i] = c}}
Then(A, B) == {<<m[1][1], m[2][2]>> : m \in {ab \in A \X B : ab[1][2] = ab[2][1]}}

\* At most n phrases A, at least one, with commas in between, by n.
Lists(t, A) ==
  LET lists[n \in 0 .. Len(t)] ==
        IF n = 0 THEN {} ELSE A \union Then(A, Then(Token(t, ","), lists[n - 1]))
  IN lists
Enclosed(t, open, A, close) ==
  Then(Token(t, open),
       Token(t, close) \union Then(Lists(t, A)[Len(t)], Token(t, close)))
Member(t, V) == Then(Token(t, "s"), Then(Token(t, ":"), V))

\* The values of which arrays and objects nest at most d deep, by d.
Values(t) ==
  LET values[d \in 0 .. MaxDepth] ==
        Token(t, "s") \union Token(t, "n")
        \union (IF d = 0 THEN {}
                ELSE LET inner == values[d - 1] IN
                       Enclosed(t, "[", inner, "]")
                       \union Enclosed(t, "{", Member(t, inner), "}"))
  IN values

IsText(t) == <<1, Len(Strip(t)) + 1>> \in Values(Strip(t))[MaxDepth]

(***************************************************************************)
(* The text of an object, by the texts x of its items.                     *)
(***************************************************************************)

\* The first i items of a list or dictionary.
Items(h, o, x) ==
  LET items[i \in 0 .. Len(h[o].kids)] ==
        IF i = 0 THEN <<>>
        ELSE items[i - 1]
             \o (IF i = 1 THEN <<>>
                 ELSE IF h[o].kind = "dict" /\ i % 2 = 0 THEN <<":">> ELSE <<",">>)
             \o x[h[o].kids[i]]
  IN items
ObjectText(h, o, x) ==
  CASE h[o].kind = "str" -> <<"s">>
    [] h[o].kind = "other" -> <<"n">>
    [] h[o].kind = "list" -> <<"[">> \o Items(h, o, x)[Len(h[o].kids)] \o <<"]">>
    [] h[o].kind = "dict" -> <<"{">> \o Items(h, o, x)[Len(h[o].kids)] \o <<"}">>

\* The texts of all objects, by the number of levels that are left.
Rendered(h) ==
  LET rendered[n \in 0 .. Len(h)] ==
        [o \in DOMAIN h |-> IF n = 0 THEN <<>> ELSE ObjectText(h, o, rendered[n - 1])]
  IN rendered

\* loads accepts exactly the JSON texts nested at most MaxDepth deep, whatever
\* order decode_any, decode_array and decode_object look at characters in, and
\* the object it returns is the one the text denotes: no item lost, added,
\* reordered or attached to another container.  (An exception without a message
\* of the decoder is that of a callback, or of an allocation, that failed.)
DecodesGrammar ==
  pc = "done" /\ argKind # "other" /\ (pyErr # "none" => errorStr \notin {"none", "memory"}) =>
    /\ ret # 0 <=> IsText(memory)
    /\ ret # 0 => Rendered(heap)[Len(heap)][ret] = Strip(memory)
=============================================================================
