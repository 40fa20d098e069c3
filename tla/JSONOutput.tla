----------------------------- MODULE JSONOutput -----------------------------
(***************************************************************************)
(* What a call of ujson.dumps promises of the text it writes, as an        *)
(* abstract specification: a writer that appends tokens, knows what it may *)
(* write next, and may give up.  It has no objects, no callbacks and no    *)
(* counters.  JSONEncoderText shows that the encoder implements it.        *)
(***************************************************************************)
EXTENDS Integers, Sequences

CONSTANTS
  Values,      \* the tokens of values without elements
  Names,       \* the tokens of names
  MaxDepth     \* how many containers may be open

VARIABLES
  text,        \* the tokens written, none when the writer has given up
  open,        \* the kinds of the containers that are open
  expect       \* what is written next

outputVars == <<text, open, expect>>

-----------------------------------------------------------------------------
Inner == open[Len(open)]
Outer == SubSeq(open, 1, Len(open) - 1)
OpenerOf == [array |-> "[", object |-> "{"]
CloserOf == [array |-> "]", object |-> "}"]
AfterValue(containers) == IF containers = <<>> THEN "end" ELSE "separator"
AtElement == expect \in {"first", "separator"}

Init ==
  /\ text = <<>>
  /\ open = <<>>
  /\ expect = "value"

Write(tokens, containers, next) ==
  /\ text' = text \o tokens
  /\ open' = containers
  /\ expect' = next

Value == expect = "value" /\ \E v \in Values : Write(<<v>>, open, AfterValue(open))
Open(kind) ==
  /\ expect = "value" /\ Len(open) < MaxDepth
  /\ Write(<<OpenerOf[kind]>>, Append(open, kind), "first")
Element ==
  /\ AtElement
  /\ Write(IF expect = "first" THEN <<>> ELSE <<",">>, open,
           IF Inner = "array" THEN "value" ELSE "name")
Name == expect = "name" /\ \E n \in Names : Write(<<n, ":">>, open, "value")
Close == AtElement /\ Write(<<CloserOf[Inner]>>, Outer, AfterValue(Outer))

\* The text is thrown away.
GiveUp == text' = <<>> /\ open' = <<>> /\ expect' = "given up"

Next == Value \/ Open("array") \/ Open("object") \/ Element \/ Name \/ Close \/ GiveUp

Spec == Init /\ [][Next]_outputVars
=============================================================================
