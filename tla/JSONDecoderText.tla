-------------------------- MODULE JSONDecoderText --------------------------
(***************************************************************************)
(* The decoder implements the reader of JSONText.                          *)
(*                                                                         *)
(* decode_object does not look whether a key is a string before it has     *)
(* decoded it, whatever it is, and a list or dictionary may even pass the  *)
(* check of lastType: the reader has rejected such a text at the first     *)
(* character of the key, and the decoder is doomed from there on.          *)
(***************************************************************************)
EXTENDS JSONDecoder

\* An activation of decode_object decodes, or has decoded, a key that is not
\* a string.
BadKeyAt(i) ==
  /\ stack[i].kind = "object"
  /\ IF stack[i].name # 0 THEN heap[stack[i].name].kind # "str"
     ELSE i < Len(stack) \/ (ret # 0 /\ heap[ret].kind # "str")
Doomed == \E i \in DOMAIN stack : BadKeyAt(i)

Rejected == errorStr # "none" \/ pyErr # "none" \/ Doomed

\* What may follow, by where the decoder is.
Expected ==
  CASE pc = "call" -> "value"
    [] pc \in {"any", "loop"} ->
         IF stack = <<>> THEN "value"
         ELSE IF Top.name # 0 THEN "value"
         ELSE IF Top.len = 0 THEN "first"
         ELSE IF Top.kind = "array" THEN "value" ELSE "key"
    [] pc = "colon" -> "colon"
    [] pc = "sep" -> "separator"
    [] pc = "return" ->
         IF stack = <<>> THEN "end"
         ELSE IF Top.kind = "object" /\ Top.name = 0 THEN "colon" ELSE "separator"
    [] pc \in {"skip", "tail"} -> "end"
    [] OTHER -> "accepted"

\* The variables of the reader.
Argument == IF argKind = "other" THEN "other" ELSE "bytes"
Pos == IF Rejected THEN 0 ELSE start
Open == IF Rejected THEN <<>> ELSE [i \in DOMAIN stack |-> stack[i].kind]
Expect == IF Rejected THEN "rejected" ELSE Expected

Reader == INSTANCE JSONText WITH
  Texts <- Seq(Chars), argument <- Argument, text <- memory,
  pos <- Pos, open <- Open, expect <- Expect

\* loads reads its argument as the reader of JSONText does: the recursion, the
\* late checks, the callbacks and the unwinding of errors accept no text the
\* reader rejects, and reject none that it accepts, at any depth.  (A view of a
\* longer buffer is another matter, see ViewIsDecoded.)
ReadsText == Reader!Spec
=============================================================================
