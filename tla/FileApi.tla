------------------------------- MODULE FileApi -------------------------------
(***************************************************************************)
(* objToJSONFile and JSONFileToObj: calls of ujson.dump and ujson.load on  *)
(* one file object.                                                        *)
(*                                                                         *)
(* Calls of several threads, or of a callback of another call, interleave  *)
(* wherever Python code may run; a step has at most one such place, and    *)
(* sets at most one local.  The file is external: write appends what it is *)
(* given, read returns all there is.                                       *)
(*                                                                         *)
(* A definition marked "Mutant" is its successor with a bug; it is used by *)
(* no definition here and shows which property catches the bug.            *)
(***************************************************************************)
EXTENDS Integers, Sequences

CONSTANTS
  Dumps,      \* the calls of dump
  Loads,      \* the calls of load
  Failures    \* subset of Faults: what may fail

\* "torn" is a write that raises when part of the text is in the file.  The
\* objects are containers: part of their text, or two texts, are no document.
Faults == {"args", "attribute", "callable", "pack", "encode", "write", "torn", "read", "decode"}

ASSUME FileAssumption ==
  /\ Dumps \intersect Loads = {}
  /\ {"none", "NULL", "None"} \intersect Dumps = {}
  /\ Failures \subseteq Faults

Calls == Dumps \union Loads

\* The local variables that own a reference.
Locals == {"method", "argtuple", "string", "write_result"}

VARIABLES
  file,      \* what calls of write put into the file: [of, part]
  pc,        \* of each call: where it is
  owned,     \* of each call: the references each of its locals owns
  string,    \* of each load: the contents of the file that read returned
  pyErr,     \* of each call: the exception it leaves in its thread
  result     \* of each call: "NULL", "None", or whose text was loaded

vars == <<file, pc, owned, string, pyErr, result>>

-----------------------------------------------------------------------------
Init ==
  /\ file = <<>>
  /\ pc = [c \in Calls |-> "call"]
  /\ owned = [c \in Calls |-> [l \in Locals |-> 0]]
  /\ string = [c \in Calls |-> <<>>]
  /\ pyErr = [c \in Calls |-> "none"]
  /\ result = [c \in Calls |-> "none"]

\* What the locals of c own, counted up for some and down for others.
Own(c, new, released) ==
  owned' = [owned EXCEPT ![c] =
              [l \in Locals |-> @[l] + (IF l \in new THEN 1 ELSE 0)
                                     - (IF l \in released THEN 1 ELSE 0)]]

Goto(c, label) ==
  /\ pc' = [pc EXCEPT ![c] = label]
  /\ UNCHANGED <<pyErr, result>>

Return(c, value, exception, released) ==
  /\ pc' = [pc EXCEPT ![c] = "done"]
  /\ result' = [result EXCEPT ![c] = value]
  /\ pyErr' = [pyErr EXCEPT ![c] = exception]
  /\ Own(c, {}, released)

\* Return NULL because of a fault.
Fail(c, fault, exception, released) ==
  /\ fault \in Failures
  /\ Return(c, "NULL", exception, released)

-----------------------------------------------------------------------------
(* The head of both: the arguments and the method of the file. *)

\* PyArg_ParseTuple, then PyObject_HasAttrString.
ParseArguments(c) ==
  /\ pc[c] = "call"
  /\ \/ Fail(c, "args", "TypeError", {})
     \/ Fail(c, "attribute", "TypeError", {})
     \/ Goto(c, "method") /\ UNCHANGED owned
  /\ UNCHANGED <<file, string>>

\* PyObject_GetAttrString runs the code of the file again.  It may raise now:
\* NULL is not callable either, and the exception is replaced.
GetMethod(c) ==
  /\ pc[c] = "method"
  /\ \/ Fail(c, "attribute", "TypeError", {})
     \/ Own(c, {"method"}, {}) /\ Goto(c, "callable")
  /\ UNCHANGED <<file, string>>

CheckCallable(c) ==
  /\ pc[c] = "callable"
  /\ \/ Fail(c, "callable", "TypeError", {"method"})
     \/ Goto(c, IF c \in Dumps THEN "pack" ELSE "read") /\ UNCHANGED owned
  /\ UNCHANGED <<file, string>>

-----------------------------------------------------------------------------
(* objToJSONFile *)

PackData(c) ==
  /\ pc[c] = "pack"
  /\ c \in Dumps
  /\ \/ Fail(c, "pack", "MemoryError", {"method"})
     \/ Own(c, {"argtuple"}, {}) /\ Goto(c, "encode")
  /\ UNCHANGED <<file, string>>

\* objToJSON, in which callbacks run.
Encode(c) ==
  /\ pc[c] = "encode"
  /\ \/ Fail(c, "encode", "callback", {"argtuple", "method"})
     \/ Own(c, {"string"}, {"argtuple"}) /\ Goto(c, "repack")
  /\ UNCHANGED <<file, string>>

\* Mutant: the text is not released when there is no tuple for it.
PackStringKeeping(c) ==
  /\ pc[c] = "repack"
  /\ \/ Fail(c, "pack", "MemoryError", {"method"})
     \/ Own(c, {"argtuple"}, {}) /\ Goto(c, "write")
  /\ UNCHANGED <<file, string>>

\* argtuple, which was released, takes the text.
PackString(c) ==
  /\ pc[c] = "repack"
  /\ \/ Fail(c, "pack", "MemoryError", {"method", "string"})
     \/ Own(c, {"argtuple"}, {}) /\ Goto(c, "write")
  /\ UNCHANGED <<file, string>>

Text(c) == [of |-> c, part |-> "whole"]
TornText(c) == [of |-> c, part |-> "torn"]
Write(text) == file' = Append(file, text)

WriteLocals == {"method", "string", "argtuple"}

\* Mutant: write is called again when it raises.
CallWriteAgain(c) ==
  /\ pc[c] = "write"
  /\ \/ Write(Text(c)) /\ Own(c, {"write_result"}, {}) /\ Goto(c, "written")
     \/ "torn" \in Failures /\ Write(TornText(c)) /\ UNCHANGED <<pc, owned, pyErr, result>>
  /\ UNCHANGED string

\* The only call of write, with the whole text.
CallWrite(c) ==
  /\ pc[c] = "write"
  /\ \/ Write(Text(c)) /\ Own(c, {"write_result"}, {}) /\ Goto(c, "written")
     \/ Fail(c, "write", "callback", WriteLocals) /\ UNCHANGED file
     \/ Fail(c, "torn", "callback", WriteLocals) /\ Write(TornText(c))
  /\ UNCHANGED string

ReturnNone(c) ==
  /\ pc[c] = "written"
  /\ Return(c, "None", "none", WriteLocals \union {"write_result"})
  /\ UNCHANGED <<file, string>>

-----------------------------------------------------------------------------
(* JSONFileToObj *)

CallRead(c) ==
  /\ pc[c] = "read"
  /\ \/ Fail(c, "read", "callback", {"method"}) /\ UNCHANGED string
     \/ /\ Own(c, {"string"}, {"method"})
        /\ string' = [string EXCEPT ![c] = file]
        /\ Goto(c, "packText")
  /\ UNCHANGED file

\* PyTuple_Pack is not checked: without a tuple JSONToObj raises SystemError.
PackText(c) ==
  /\ pc[c] = "packText"
  /\ \/ Fail(c, "pack", "SystemError", {"string"})
     \/ Own(c, {"argtuple"}, {}) /\ Goto(c, "decode")
  /\ UNCHANGED <<file, string>>

\* What loads accepts: one document and nothing behind it.
IsDocument(text) == Len(text) = 1 /\ text[1].part = "whole"

Decode(c) ==
  /\ pc[c] = "decode"
  /\ \/ Fail(c, "decode", "TypeError", {"argtuple", "string"})
     \/ /\ IsDocument(string[c])
        /\ Return(c, string[c][1].of, "none", {"argtuple", "string"})
     \/ /\ ~IsDocument(string[c])
        /\ Return(c, "NULL", "JSONDecodeError", {"argtuple", "string"})
  /\ UNCHANGED <<file, string>>

-----------------------------------------------------------------------------
Step(c) ==
  \/ ParseArguments(c) \/ GetMethod(c) \/ CheckCallable(c)
  \/ PackData(c) \/ Encode(c) \/ PackString(c) \/ CallWrite(c) \/ ReturnNone(c)
  \/ CallRead(c) \/ PackText(c) \/ Decode(c)

Next == \E c \in Calls : Step(c)

Spec == Init /\ [][Next]_vars

-----------------------------------------------------------------------------
(* Properties. *)

\* The locals that own a reference at each place.
Needed(label, c) ==
  CASE label \in {"callable", "pack", "read"} -> {"method"}
    [] label = "encode" -> {"method", "argtuple"}
    [] label = "repack" -> {"method", "string"}
    [] label = "write" -> WriteLocals
    [] label = "written" -> WriteLocals \union {"write_result"}
    [] label = "packText" -> {"string"}
    [] label = "decode" -> {"argtuple", "string"}
    [] OTHER -> {}

\* On every path through dump and load each local owns exactly one reference
\* while the code uses it, and none when the call returns: argtuple, which
\* first holds the object and then the text, is released once for each.
Balanced ==
  \A c \in Calls : \A l \in Locals :
    owned[c][l] = IF l \in Needed(pc[c], c) THEN 1 ELSE 0

\* Where the file has text of the dump c.
Parts(c) == {i \in DOMAIN file : file[i].of = c}

\* dump calls write once, with the complete text, when objToJSON has returned:
\* whichever calls write to the file in between, texts are not mixed up, an
\* object that cannot be encoded leaves no trace, and a dump that returns None
\* has its text in the file exactly once.
WholeDocuments ==
  \A c \in Dumps :
    /\ pc[c] \notin {"written", "done"} => Parts(c) = {}
    /\ pc[c] = "written" \/ result[c] = "None" =>
         \E i \in DOMAIN file : Parts(c) = {i} /\ file[i] = Text(c)
    /\ result[c] = "NULL" => \A i, j \in Parts(c) : i = j /\ file[i] = TornText(c)
    /\ pyErr[c] \in {"TypeError", "MemoryError"} => Parts(c) = {}
=============================================================================
