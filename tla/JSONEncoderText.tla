-------------------------- MODULE JSONEncoderText --------------------------
(***************************************************************************)
(* The encoder implements the writer of JSONOutput.                        *)
(*                                                                         *)
(* The writer has given up when an error is recorded, and also when a      *)
(* callback has raised an exception: encode() may then go on writing, and  *)
(* what it writes may lack a bracket (see NullOnError).                    *)
(***************************************************************************)
EXTENDS JSONEncoder

GivenUp == errorMsg # "none" \/ raised # {} \/ result = "NULL"

\* The object that beginTypeContext looks at is not a container yet.
OpenFrames == IF pc = "begin" THEN Pop ELSE stack

\* What is written next, by where encode() is.
ExpectedNext ==
  CASE pc \in {"call", "begin"} -> "value"
    [] pc = "encode" -> IF name = "NULL" THEN "value" ELSE "name"
    [] pc = "next" -> IF Top.count = 0 THEN "first" ELSE "separator"
    [] pc = "return" -> IF stack = <<>> THEN "end" ELSE "separator"
    [] OTHER -> "end"

\* The variables of the writer.
Written == IF GivenUp THEN <<>> ELSE out
Open == IF GivenUp THEN <<>> ELSE [i \in DOMAIN OpenFrames |-> OpenFrames[i].type]
Expect == IF GivenUp THEN "given up" ELSE ExpectedNext

Writer == INSTANCE JSONOutput WITH
  Values <- Kinds \union {"raw"}, Names <- Keys, MaxDepth <- RecursionMax + 1,
  text <- Written, open <- Open, expect <- Expect

\* What dumps returns is one JSON text, with a comma between any two elements, a
\* name before each value of an object, and every bracket closed by its own, at
\* any depth up to the limit: the counters of the frames, the names and the
\* places in encode() at which its parts are written add up to that, unless an
\* error was recorded or a callback raised.
WritesText == Writer!Spec
=============================================================================
