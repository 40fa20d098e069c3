------------------------------ MODULE JSONText ------------------------------
(***************************************************************************)
(* What a call of ujson.loads promises of the text it is given, as an      *)
(* abstract specification: a reader that takes one character at a time,    *)
(* knows after each what may follow, and rejects at the first character    *)
(* that may not.  It has no callbacks, no types of values and no messages. *)
(* JSONDecoderText shows that the decoder implements it.                   *)
(***************************************************************************)
EXTENDS Integers, Sequences

CONSTANTS
  Texts,       \* the texts considered
  MaxDepth,    \* JSON_MAX_OBJECT_DEPTH
  Failures     \* what may fail; nothing does when it is empty

VARIABLES
  argument,    \* "bytes" or "other": only the former are read
  text,        \* the characters of the argument
  pos,         \* the next character to read
  open,        \* the kinds of the containers that are open
  expect       \* what may follow

textVars == <<argument, text, pos, open, expect>>

-----------------------------------------------------------------------------
Symbol == IF pos \in DOMAIN text THEN text[pos] ELSE "NUL"
Inner == open[Len(open)]
Blank == " "
CloserOf == IF Inner = "array" THEN "]" ELSE "}"
Outer == SubSeq(open, 1, Len(open) - 1)

\* A number of which nothing is consumed ("z") is a value of no characters:
\* its own are then refused for what follows.
ScalarStarts == {"s", "n", "z"}
Openers == IF Len(open) < MaxDepth THEN {"[", "{"} ELSE {}

ValueExpected == expect = "value" \/ (expect = "first" /\ Inner = "array")
KeyExpected == expect = "key" \/ (expect = "first" /\ Inner = "object")

\* The characters that may be read next.
Legal ==
  {Blank} \union (IF ValueExpected THEN ScalarStarts \union Openers ELSE {})
          \union (IF KeyExpected THEN {"s"} ELSE {})
          \union (IF expect = "colon" THEN {":"} ELSE {})
          \union (IF expect = "separator" THEN {","} ELSE {})
          \union (IF expect \in {"first", "separator"} THEN {CloserOf} ELSE {})

AtEnd == expect = "end" /\ pos = Len(text) + 1
AfterValue(containers) == IF containers = <<>> THEN "end" ELSE "separator"

-----------------------------------------------------------------------------
Init ==
  /\ argument \in {"bytes", "other"}
  /\ text \in Texts
  /\ pos = 1
  /\ open = <<>>
  /\ expect = "value"

Reading == argument = "bytes" /\ expect \notin {"accepted", "rejected"}

Read(characters, containers, next) ==
  /\ Reading
  /\ Symbol \in characters
  /\ pos' = IF Symbol = "z" THEN pos ELSE pos + 1
  /\ open' = containers
  /\ expect' = next
  /\ UNCHANGED <<argument, text>>

Skip == Read({Blank}, open, expect)
Scalar == ValueExpected /\ Read(ScalarStarts, open, AfterValue(open))
OpenArray == ValueExpected /\ Read({"["} \intersect Openers, Append(open, "array"), "first")
OpenObject == ValueExpected /\ Read({"{"} \intersect Openers, Append(open, "object"), "first")
Key == KeyExpected /\ Read({"s"}, open, "colon")
Colon == expect = "colon" /\ Read({":"}, open, "value")
Comma == expect = "separator" /\ Read({","}, open, IF Inner = "array" THEN "value" ELSE "key")
Close == expect \in {"first", "separator"} /\ Read({CloserOf}, Outer, AfterValue(Outer))

Accept ==
  /\ Reading
  /\ AtEnd
  /\ expect' = "accepted"
  /\ UNCHANGED <<argument, text, pos, open>>

\* Only at a character that may not follow, unless something may fail.
Reject ==
  /\ \/ argument = "other" /\ expect = "value"
     \/ Reading /\ ~AtEnd /\ Symbol \notin Legal
     \/ Reading /\ Failures # {}
  /\ pos' = 0
  /\ open' = <<>>
  /\ expect' = "rejected"
  /\ UNCHANGED <<argument, text>>

Next ==
  \/ Skip \/ Scalar \/ OpenArray \/ OpenObject \/ Key \/ Colon \/ Comma \/ Close
  \/ Accept \/ Reject

Spec == Init /\ [][Next]_textVars
=============================================================================
