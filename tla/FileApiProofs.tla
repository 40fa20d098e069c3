--------------------------- MODULE FileApiProofs ---------------------------
(***************************************************************************)
(* Theorems about FileApi, for any set of calls of dump and load, any      *)
(* interleaving of them and whatever fails.                                *)
(***************************************************************************)
EXTENDS FileApi, SequenceTheorems, TLAPS

Labels == {"call", "method", "callable", "pack", "encode", "repack", "write", "written",
           "read", "packText", "decode", "done"}
DumpLabels == {"pack", "encode", "repack", "write", "written"}
LoadLabels == {"read", "packText", "decode"}
Exceptions == {"none", "TypeError", "MemoryError", "SystemError", "callback", "JSONDecodeError"}
Texts == [of : Dumps, part : {"whole", "torn"}]

\* The variables hold values of their types; only dumps write.
Typed ==
  /\ file \in Seq(Texts)
  /\ pc \in [Calls -> Labels]
  /\ owned \in [Calls -> [Locals -> Int]]
  /\ string \in [Calls -> Seq(Texts)]
  /\ pyErr \in [Calls -> Exceptions]
  /\ result \in [Calls -> Dumps \union {"none", "NULL", "None"}]

\* A call goes through the places of its own function, and has a result when it
\* is done.
Placed ==
  \A c \in Calls :
    /\ pc[c] \in DumpLabels => c \in Dumps
    /\ pc[c] \in LoadLabels => c \in Loads
    /\ pc[c] # "done" => result[c] = "none" /\ pyErr[c] = "none"
    /\ pc[c] = "done" => result[c] # "none"

\* A call that is done returns a value or has raised, never both and never
\* neither, also when the file's own methods fail.
Outcome ==
  \A c \in Calls : pc[c] = "done" => (result[c] = "NULL" <=> pyErr[c] # "none")

\* The inductive invariant.
Inv == Typed /\ Placed /\ Balanced /\ Outcome /\ WholeDocuments

-----------------------------------------------------------------------------
\* Dumps are not loads, nor values of other results.
LEMMA Names ==
  /\ \A c \in Dumps : c \in Calls /\ c \notin Loads /\ c \notin {"none", "NULL", "None"}
  /\ \A c \in Loads : c \in Calls /\ c \notin Dumps
BY FileAssumption DEF Calls

\* What a call owns after a step that takes some references and releases others.
LEMMA Owning ==
  ASSUME Typed, NEW c \in Calls, NEW new, NEW released, Own(c, new, released)
  PROVE  /\ owned' \in [Calls -> [Locals -> Int]]
         /\ \A d \in Calls \ {c} : owned'[d] = owned[d]
         /\ \A l \in Locals : owned'[c][l] = owned[c][l] + (IF l \in new THEN 1 ELSE 0)
                                                        - (IF l \in released THEN 1 ELSE 0)
<1> DEFINE f == [l \in Locals |-> owned[c][l] + (IF l \in new THEN 1 ELSE 0)
                                              - (IF l \in released THEN 1 ELSE 0)]
<1>1. owned' = [owned EXCEPT ![c] = f]
  BY DEF Own
<1>2. \A l \in Locals : owned[c][l] \in Int
  BY DEF Typed
<1>3. f \in [Locals -> Int]
  BY <1>2
<1>4. \A l \in Locals : f[l] = owned[c][l] + (IF l \in new THEN 1 ELSE 0)
                                           - (IF l \in released THEN 1 ELSE 0)
  OBVIOUS
<1> HIDE DEF f
<1>5. QED
  BY <1>1, <1>3, <1>4 DEF Typed

\* What c takes and releases is what the place it goes to asks for.
Balances(c, label, new, released) ==
  \A l \in Locals :
    (IF l \in Needed(pc[c], c) THEN 1 ELSE 0) + (IF l \in new THEN 1 ELSE 0)
      - (IF l \in released THEN 1 ELSE 0) = IF l \in Needed(label, c) THEN 1 ELSE 0

\* A step of one call that keeps what it owns in balance with its place keeps
\* that of all.
LEMMA BalanceKept ==
  ASSUME Inv, NEW c \in Calls, NEW label \in Labels, pc' = [pc EXCEPT ![c] = label],
         NEW new, NEW released, Own(c, new, released),
         Balances(c, label, new, released)
  PROVE  owned' \in [Calls -> [Locals -> Int]] /\ Balanced'
<1>1. /\ owned' \in [Calls -> [Locals -> Int]]
      /\ \A d \in Calls \ {c} : owned'[d] = owned[d]
      /\ \A l \in Locals : owned'[c][l] = owned[c][l] + (IF l \in new THEN 1 ELSE 0)
                                                     - (IF l \in released THEN 1 ELSE 0)
  BY Owning DEF Inv
<1>2. \A d \in Calls : pc'[d] = IF d = c THEN label ELSE pc[d]
  BY DEF Inv, Typed
<1>3. \A l \in Locals : owned'[c][l] = IF l \in Needed(label, c) THEN 1 ELSE 0
  BY <1>1 DEF Inv, Balanced, Balances
<1>4. \A d \in Calls, l \in Locals : owned'[d][l] = IF l \in Needed(pc'[d], d) THEN 1 ELSE 0
  BY <1>1, <1>2, <1>3 DEF Inv, Balanced, Needed
<1>5. QED
  BY <1>1, <1>4 DEF Balanced, Needed

\* A step that goes on to another place.
LEMMA GotoKeeps ==
  ASSUME Inv, NEW c \in Calls, NEW label \in Labels \ {"written", "done"},
         pc[c] \notin {"written", "done"}, Goto(c, label),
         label \in DumpLabels => c \in Dumps,
         label \in LoadLabels => c \in Loads,
         owned' \in [Calls -> [Locals -> Int]], Balanced',
         string' \in [Calls -> Seq(Texts)], UNCHANGED file
  PROVE  Inv'
<1>1. /\ pc' = [pc EXCEPT ![c] = label] /\ result' = result /\ pyErr' = pyErr
      /\ \A d \in Calls : pc'[d] = IF d = c THEN label ELSE pc[d]
  BY DEF Goto, Inv, Typed
<1>2. Typed'
  BY <1>1 DEF Inv, Typed
<1>3. Placed' /\ Outcome'
  BY <1>1 DEF Inv, Placed, Outcome
<1>4. WholeDocuments'
  <2>1. \A d \in Dumps : Parts(d)' = Parts(d) /\ d \in Calls
    BY Names DEF Parts
  <2>2. \A d \in Dumps : /\ pc'[d] \notin {"written", "done"} => pc[d] \notin {"written", "done"}
                         /\ pc'[d] = "written" => pc[d] = "written"
    BY <1>1, <2>1
  <2>3. QED
    BY <1>1, <2>1, <2>2 DEF Inv, WholeDocuments, Text, TornText
<1>5. QED
  BY <1>2, <1>3, <1>4 DEF Inv

\* A step that returns.
LEMMA Returned ==
  ASSUME Inv, NEW c \in Calls, pc[c] # "done",
         NEW value \in Dumps \union {"NULL", "None"}, NEW exception \in Exceptions,
         value = "NULL" <=> exception # "none",
         Return(c, value, exception, Needed(pc[c], c))
  PROVE  /\ owned' \in [Calls -> [Locals -> Int]] /\ Balanced' /\ Placed' /\ Outcome'
         /\ pc' \in [Calls -> Labels] /\ pyErr' \in [Calls -> Exceptions]
         /\ result' \in [Calls -> Dumps \union {"none", "NULL", "None"}]
         /\ \A d \in Calls : /\ pc'[d] = IF d = c THEN "done" ELSE pc[d]
                             /\ result'[d] = IF d = c THEN value ELSE result[d]
                             /\ pyErr'[d] = IF d = c THEN exception ELSE pyErr[d]
<1>1. /\ pc' = [pc EXCEPT ![c] = "done"] /\ result' = [result EXCEPT ![c] = value]
      /\ pyErr' = [pyErr EXCEPT ![c] = exception] /\ Own(c, {}, Needed(pc[c], c))
  BY DEF Return
<1>2. Balances(c, "done", {}, Needed(pc[c], c))
  BY DEF Balances, Needed
<1>3. owned' \in [Calls -> [Locals -> Int]] /\ Balanced'
  <2>1. "done" \in Labels
    BY DEF Labels
  <2>2. QED
    BY <1>1, <1>2, <2>1, BalanceKept
<1>4. /\ \A d \in Calls : /\ pc'[d] = IF d = c THEN "done" ELSE pc[d]
                          /\ result'[d] = IF d = c THEN value ELSE result[d]
                          /\ pyErr'[d] = IF d = c THEN exception ELSE pyErr[d]
      /\ pc' \in [Calls -> Labels] /\ pyErr' \in [Calls -> Exceptions]
      /\ result' \in [Calls -> Dumps \union {"none", "NULL", "None"}]
  BY <1>1 DEF Inv, Typed, Labels
<1>5. value # "none"
  BY Names
<1>6. Placed' /\ Outcome'
  BY <1>4, <1>5 DEF Inv, Placed, Outcome, DumpLabels, LoadLabels
<1>7. QED
  BY <1>3, <1>4, <1>6

\* A return that has not written: of a load, or of a dump that fails.
LEMMA ReturnKeeps ==
  ASSUME Inv, NEW c \in Calls, pc[c] \notin {"written", "done"},
         NEW value \in Dumps \union {"NULL", "None"}, NEW exception \in Exceptions,
         value = "NULL" <=> exception # "none", c \in Dumps => value = "NULL",
         Return(c, value, exception, Needed(pc[c], c)),
         UNCHANGED <<file, string>>
  PROVE  Inv'
<1>1. Balanced' /\ Placed' /\ Outcome' /\ Typed'
  BY Returned DEF Inv, Typed
<1>2. WholeDocuments'
  <2> SUFFICES ASSUME NEW d \in Dumps
               PROVE  /\ pc'[d] \notin {"written", "done"} => Parts(d)' = {}
                      /\ pc'[d] = "written" \/ result'[d] = "None" =>
                           \E i \in DOMAIN file' : Parts(d)' = {i} /\ file'[i] = Text(d)
                      /\ result'[d] = "NULL" =>
                           \A i, j \in Parts(d)' : i = j /\ file'[i] = TornText(d)
                      /\ pyErr'[d] \in {"TypeError", "MemoryError"} => Parts(d)' = {}
    BY DEF WholeDocuments, Text, TornText
  <2>1. Parts(d)' = Parts(d) /\ d \in Calls
    BY Names DEF Parts
  <2>2. CASE d = c
    BY <2>1, <2>2, Returned DEF Inv, WholeDocuments
  <2>3. CASE d # c
    BY <2>1, <2>3, Returned DEF Inv, WholeDocuments
  <2>4. QED
    BY <2>2, <2>3
<1>3. QED
  BY <1>1, <1>2 DEF Inv

\* What a call of write leaves of each dump.
LEMMA PartsWritten ==
  ASSUME file \in Seq(Texts), NEW text \in Texts, Write(text)
  PROVE  /\ file' \in Seq(Texts) /\ Len(file) + 1 \in DOMAIN file'
         /\ file'[Len(file) + 1] = text
         /\ \A i \in DOMAIN file : i \in DOMAIN file' /\ file'[i] = file[i]
         /\ \A d : Parts(d)' = Parts(d) \union (IF d = text.of THEN {Len(file) + 1} ELSE {})
<1>1. /\ file' \in Seq(Texts) /\ Len(file') = Len(file) + 1 /\ Len(file) \in Nat
      /\ \A i \in 1 .. Len(file) : file'[i] = file[i]
      /\ file'[Len(file) + 1] = text
  BY AppendProperties, LenProperties DEF Write
<1>2. DOMAIN file = 1 .. Len(file) /\ DOMAIN file' = 1 .. Len(file) + 1
  BY <1>1, LenProperties
<1>3. \A d : Parts(d)' = Parts(d) \union (IF d = text.of THEN {Len(file) + 1} ELSE {})
  BY <1>1, <1>2 DEF Parts
<1>4. QED
  BY <1>1, <1>2, <1>3

\* What is known of each dump is kept by a step that leaves its text alone.
Whole(d) ==
  /\ pc[d] \notin {"written", "done"} => Parts(d) = {}
  /\ pc[d] = "written" \/ result[d] = "None" =>
       \E i \in DOMAIN file : Parts(d) = {i} /\ file[i] = Text(d)
  /\ result[d] = "NULL" => \A i, j \in Parts(d) : i = j /\ file[i] = TornText(d)
  /\ pyErr[d] \in {"TypeError", "MemoryError"} => Parts(d) = {}

\* A dump calls write, and gets its text or a part of it into the file.
LEMMA WriteParts ==
  ASSUME Inv, NEW c \in Dumps, pc[c] = "write", NEW text \in {Text(c), TornText(c)}, Write(text),
         \A d \in Calls \ {c} : pc'[d] = pc[d] /\ result'[d] = result[d] /\ pyErr'[d] = pyErr[d]
  PROVE  /\ c \in Calls /\ file' \in Seq(Texts)
         /\ \A d \in Dumps \ {c} : Whole(d)'
         /\ Parts(c)' = {Len(file) + 1} /\ Len(file) + 1 \in DOMAIN file'
         /\ file'[Len(file) + 1] = text
<1>1. text \in Texts /\ text.of = c /\ c \in Calls
  BY Names DEF Text, TornText, Texts
<1>2. /\ file' \in Seq(Texts) /\ Len(file) + 1 \in DOMAIN file'
      /\ file'[Len(file) + 1] = text
      /\ \A i \in DOMAIN file : i \in DOMAIN file' /\ file'[i] = file[i]
      /\ \A d : Parts(d)' = Parts(d) \union (IF d = c THEN {Len(file) + 1} ELSE {})
  BY <1>1, PartsWritten DEF Inv, Typed
<1>3. ASSUME NEW d \in Dumps, d # c PROVE Whole(d)'
  <2>1. /\ d \in Calls /\ Parts(d)' = Parts(d) /\ pc'[d] = pc[d] /\ result'[d] = result[d]
        /\ pyErr'[d] = pyErr[d]
    BY <1>2, <1>3, Names
  <2>2. Parts(d) \subseteq DOMAIN file
    BY DEF Parts
  <2>3. QED
    BY <1>2, <2>1, <2>2 DEF Inv, WholeDocuments, Whole, Text, TornText
<1>4. Parts(c) = {}
  BY DEF Inv, WholeDocuments
<1>5. QED
  BY <1>1, <1>2, <1>3, <1>4

\* The whole text is in the file.
LEMMA WrittenKeeps ==
  ASSUME Inv, NEW c \in Dumps, pc[c] = "write", Write(Text(c)), Own(c, {"write_result"}, {}),
         Goto(c, "written"), UNCHANGED string
  PROVE  Inv'
<1>1. c \in Calls /\ "written" \in Labels
  BY Names DEF Labels
<1>2. /\ pc' = [pc EXCEPT ![c] = "written"] /\ result' = result /\ pyErr' = pyErr
      /\ \A d \in Calls : pc'[d] = IF d = c THEN "written" ELSE pc[d]
  BY <1>1 DEF Goto, Inv, Typed
<1>3. Balances(c, "written", {"write_result"}, {})
  BY DEF Balances, Needed, WriteLocals
<1>4. owned' \in [Calls -> [Locals -> Int]] /\ Balanced'
  BY <1>1, <1>2, <1>3, BalanceKept
<1>5. /\ file' \in Seq(Texts) /\ \A d \in Dumps \ {c} : Whole(d)'
      /\ Parts(c)' = {Len(file) + 1} /\ Len(file) + 1 \in DOMAIN file'
      /\ file'[Len(file) + 1] = Text(c)
  BY <1>2, WriteParts
<1>6. Typed'
  BY <1>1, <1>2, <1>4, <1>5 DEF Inv, Typed
<1>7. Placed' /\ Outcome'
  BY <1>2 DEF Inv, Placed, Outcome, LoadLabels
<1>8. Whole(c)'
  <2>1. pc'[c] = "written" /\ result'[c] = "none" /\ pyErr'[c] = "none"
    BY <1>1, <1>2 DEF Inv, Placed
  <2>2. QED
    BY <1>5, <2>1 DEF Whole, Text
<1>9. WholeDocuments'
  BY <1>5, <1>8 DEF WholeDocuments, Whole, Text, TornText
<1>10. QED
  BY <1>4, <1>6, <1>7, <1>9 DEF Inv

\* write raised with a part of the text in the file.
LEMMA TornKeeps ==
  ASSUME Inv, NEW c \in Dumps, pc[c] = "write", Write(TornText(c)),
         Return(c, "NULL", "callback", WriteLocals), UNCHANGED string
  PROVE  Inv'
<1>1. c \in Calls /\ WriteLocals = Needed(pc[c], c) /\ "callback" \in Exceptions
  BY Names DEF Needed, Exceptions
<1>2. /\ owned' \in [Calls -> [Locals -> Int]] /\ Balanced' /\ Placed' /\ Outcome'
      /\ pc' \in [Calls -> Labels] /\ pyErr' \in [Calls -> Exceptions]
      /\ result' \in [Calls -> Dumps \union {"none", "NULL", "None"}]
      /\ \A d \in Calls : /\ pc'[d] = IF d = c THEN "done" ELSE pc[d]
                          /\ result'[d] = IF d = c THEN "NULL" ELSE result[d]
                          /\ pyErr'[d] = IF d = c THEN "callback" ELSE pyErr[d]
  BY <1>1, Returned
<1>3. /\ file' \in Seq(Texts) /\ \A d \in Dumps \ {c} : Whole(d)'
      /\ Parts(c)' = {Len(file) + 1} /\ file'[Len(file) + 1] = TornText(c)
  BY <1>2, WriteParts
<1>4. Typed'
  BY <1>2, <1>3 DEF Inv, Typed
<1>5. Whole(c)'
  BY <1>1, <1>2, <1>3 DEF Whole, TornText
<1>6. WholeDocuments'
  BY <1>3, <1>5 DEF WholeDocuments, Whole, Text, TornText
<1>7. QED
  BY <1>2, <1>4, <1>6 DEF Inv

\* A dump whose text is in the file returns.
LEMMA NoneKeeps ==
  ASSUME Inv, NEW c \in Calls, ReturnNone(c)
  PROVE  Inv'
<1>1. /\ pc[c] = "written" /\ c \in Dumps /\ UNCHANGED <<file, string>>
      /\ Return(c, "None", "none", Needed(pc[c], c)) /\ "none" \in Exceptions
  BY DEF ReturnNone, Needed, Inv, Placed, DumpLabels, Exceptions
<1>2. /\ owned' \in [Calls -> [Locals -> Int]] /\ Balanced' /\ Placed' /\ Outcome'
      /\ pc' \in [Calls -> Labels] /\ pyErr' \in [Calls -> Exceptions]
      /\ result' \in [Calls -> Dumps \union {"none", "NULL", "None"}]
      /\ \A d \in Calls : /\ pc'[d] = IF d = c THEN "done" ELSE pc[d]
                          /\ result'[d] = IF d = c THEN "None" ELSE result[d]
                          /\ pyErr'[d] = IF d = c THEN "none" ELSE pyErr[d]
  BY <1>1, Returned
<1>3. Typed'
  BY <1>1, <1>2 DEF Inv, Typed
<1>4. \A d \in Dumps : Parts(d)' = Parts(d) /\ d \in Calls /\ Whole(d)
  BY <1>1, Names DEF Parts, Inv, WholeDocuments, Whole
<1>5. ASSUME NEW d \in Dumps PROVE Whole(d)'
  <2>1. Parts(d)' = Parts(d) /\ d \in Calls /\ Whole(d) /\ file' = file
    BY <1>1, <1>4
  <2>2. CASE d = c
    BY <1>1, <1>2, <2>1, <2>2 DEF Whole, Text
  <2>3. CASE d # c
    BY <1>2, <2>1, <2>3 DEF Whole, Text, TornText
  <2>4. QED
    BY <2>2, <2>3
<1>6. WholeDocuments'
  BY <1>5 DEF WholeDocuments, Whole, Text, TornText
<1>7. QED
  BY <1>2, <1>3, <1>6 DEF Inv

\* A fault before anything is written: the call releases what it owns.
LEMMA FailKeeps ==
  ASSUME Inv, NEW c \in Calls, pc[c] \notin {"written", "done"}, NEW fault, NEW exception \in Exceptions \ {"none"},
         Fail(c, fault, exception, Needed(pc[c], c)), UNCHANGED <<file, string>>
  PROVE  Inv'
<1>1. Return(c, "NULL", exception, Needed(pc[c], c))
  BY DEF Fail
<1>2. QED
  BY <1>1, ReturnKeeps

\* A step that goes on with what the place it goes to asks for.
LEMMA ProceedKeeps ==
  ASSUME Inv, NEW c \in Calls, NEW label \in Labels \ {"written", "done"},
         pc[c] \notin {"written", "done"}, Goto(c, label),
         label \in DumpLabels => c \in Dumps,
         label \in LoadLabels => c \in Loads,
         NEW new, NEW released, Own(c, new, released), Balances(c, label, new, released),
         string' \in [Calls -> Seq(Texts)], UNCHANGED file
  PROVE  Inv'
<1>1. pc' = [pc EXCEPT ![c] = label]
  BY DEF Goto
<1>2. owned' \in [Calls -> [Locals -> Int]] /\ Balanced'
  BY <1>1, BalanceKept
<1>3. QED
  BY <1>2, GotoKeeps

\* The head of dump and load.
LEMMA HeadKeeps ==
  ASSUME Inv, NEW c \in Calls, ParseArguments(c) \/ GetMethod(c) \/ CheckCallable(c)
  PROVE  Inv'
<1>a. string \in [Calls -> Seq(Texts)] /\ owned \in [Calls -> [Locals -> Int]]
  BY DEF Inv, Typed
<1>b. {"TypeError"} \subseteq Exceptions \ {"none"}
  BY DEF Exceptions
<1>1. CASE ParseArguments(c)
  <2>1. pc[c] = "call" /\ UNCHANGED <<file, string>> /\ Needed(pc[c], c) = {}
    BY <1>1 DEF ParseArguments, Needed
  <2>2. CASE Goto(c, "method") /\ UNCHANGED owned
    <3>1. Balanced'
      <4>1. \A d \in Calls : pc'[d] = IF d = c THEN "method" ELSE pc[d]
        BY <2>2 DEF Inv, Typed, Goto
      <4>2. \A d \in Calls : Needed(pc'[d], d) = Needed(pc[d], d)
        BY <2>1, <4>1 DEF Needed
      <4>3. QED
        BY <2>2, <4>2 DEF Inv, Balanced, Needed
    <3>2. QED
      BY <1>a, <2>1, <2>2, <3>1, GotoKeeps DEF Labels, DumpLabels, LoadLabels
  <2>3. CASE Fail(c, "args", "TypeError", {}) \/ Fail(c, "attribute", "TypeError", {})
    BY <1>b, <2>1, <2>3, FailKeeps
  <2>4. QED
    BY <1>1, <2>2, <2>3 DEF ParseArguments
<1>2. CASE GetMethod(c)
  <2>1. pc[c] = "method" /\ UNCHANGED <<file, string>> /\ Needed(pc[c], c) = {}
    BY <1>2 DEF GetMethod, Needed
  <2>2. CASE Own(c, {"method"}, {}) /\ Goto(c, "callable")
    <3>1. Balances(c, "callable", {"method"}, {})
      BY <2>1 DEF Balances, Needed
    <3>2. QED
      BY <1>a, <2>1, <2>2, <3>1, ProceedKeeps DEF Labels, DumpLabels, LoadLabels
  <2>3. CASE Fail(c, "attribute", "TypeError", {})
    BY <1>b, <2>1, <2>3, FailKeeps
  <2>4. QED
    BY <1>2, <2>2, <2>3 DEF GetMethod
<1>3. CASE CheckCallable(c)
  <2>1. pc[c] = "callable" /\ UNCHANGED <<file, string>> /\ Needed(pc[c], c) = {"method"}
    BY <1>3 DEF CheckCallable, Needed
  <2>2. CASE Goto(c, IF c \in Dumps THEN "pack" ELSE "read") /\ UNCHANGED owned
    <3>1. PICK label : label = IF c \in Dumps THEN "pack" ELSE "read"
      OBVIOUS
    <3>2. /\ label \in Labels \ {"written", "done"} /\ Needed(label, c) = {"method"}
          /\ label \in DumpLabels => c \in Dumps
          /\ label \in LoadLabels => c \in Loads
      BY <3>1 DEF Labels, DumpLabels, LoadLabels, Needed, Calls
    <3>3. Balanced'
      <4>1. \A d \in Calls : pc'[d] = IF d = c THEN label ELSE pc[d]
        BY <2>2, <3>1 DEF Inv, Typed, Goto
      <4>2. \A d \in Calls : Needed(pc'[d], d) = Needed(pc[d], d)
        BY <2>1, <3>2, <4>1
      <4>3. QED
        BY <2>2, <4>2 DEF Inv, Balanced, Needed
    <3>4. QED
      BY <1>a, <2>1, <2>2, <3>1, <3>2, <3>3, GotoKeeps
  <2>3. CASE Fail(c, "callable", "TypeError", {"method"})
    BY <1>b, <2>1, <2>3, FailKeeps
  <2>4. QED
    BY <1>3, <2>2, <2>3 DEF CheckCallable
<1>4. QED
  BY <1>1, <1>2, <1>3

\* The rest of dump.
LEMMA DumpKeeps ==
  ASSUME Inv, NEW c \in Calls, PackData(c) \/ Encode(c) \/ PackString(c) \/ CallWrite(c)
  PROVE  Inv'
<1>a. string \in [Calls -> Seq(Texts)]
  BY DEF Inv, Typed
<1>b. {"MemoryError", "callback"} \subseteq Exceptions \ {"none"}
  BY DEF Exceptions
<1>c. UNCHANGED string /\ c \in Dumps
  BY DEF PackData, Encode, PackString, CallWrite, Inv, Placed, DumpLabels
<1>1. CASE PackData(c)
  <2>1. /\ pc[c] = "pack" /\ UNCHANGED file /\ Needed(pc[c], c) = {"method"}
    BY <1>1 DEF PackData, Needed
  <2>2. CASE Own(c, {"argtuple"}, {}) /\ Goto(c, "encode")
    <3>1. Balances(c, "encode", {"argtuple"}, {})
      BY <2>1 DEF Balances, Needed
    <3>2. QED
      BY <1>a, <1>c, <2>1, <2>2, <3>1, ProceedKeeps DEF Labels, LoadLabels
  <2>3. CASE Fail(c, "pack", "MemoryError", {"method"})
    BY <1>b, <1>c, <2>1, <2>3, FailKeeps
  <2>4. QED
    BY <1>1, <2>2, <2>3 DEF PackData
<1>2. CASE Encode(c)
  <2>1. /\ pc[c] = "encode" /\ UNCHANGED file /\ Needed(pc[c], c) = {"argtuple", "method"}
    BY <1>2 DEF Encode, Needed
  <2>2. CASE Own(c, {"string"}, {"argtuple"}) /\ Goto(c, "repack")
    <3>1. Balances(c, "repack", {"string"}, {"argtuple"})
      BY <2>1 DEF Balances, Needed
    <3>2. QED
      BY <1>a, <1>c, <2>1, <2>2, <3>1, ProceedKeeps DEF Labels, LoadLabels
  <2>3. CASE Fail(c, "encode", "callback", {"argtuple", "method"})
    BY <1>b, <1>c, <2>1, <2>3, FailKeeps
  <2>4. QED
    BY <1>2, <2>2, <2>3 DEF Encode
<1>3. CASE PackString(c)
  <2>1. /\ pc[c] = "repack" /\ UNCHANGED file /\ Needed(pc[c], c) = {"method", "string"}
    BY <1>3 DEF PackString, Needed
  <2>2. CASE Own(c, {"argtuple"}, {}) /\ Goto(c, "write")
    <3>1. Balances(c, "write", {"argtuple"}, {})
      BY <2>1 DEF Balances, Needed, WriteLocals
    <3>2. QED
      BY <1>a, <1>c, <2>1, <2>2, <3>1, ProceedKeeps DEF Labels, LoadLabels
  <2>3. CASE Fail(c, "pack", "MemoryError", {"method", "string"})
    BY <1>b, <1>c, <2>1, <2>3, FailKeeps
  <2>4. QED
    BY <1>3, <2>2, <2>3 DEF PackString
<1>4. CASE CallWrite(c)
  <2>1. pc[c] = "write" /\ Needed(pc[c], c) = WriteLocals
    BY <1>4 DEF CallWrite, Needed
  <2>2. CASE Write(Text(c)) /\ Own(c, {"write_result"}, {}) /\ Goto(c, "written")
    BY <1>c, <2>1, <2>2, WrittenKeeps
  <2>3. CASE Fail(c, "torn", "callback", WriteLocals) /\ Write(TornText(c))
    BY <1>c, <2>1, <2>3, TornKeeps DEF Fail
  <2>4. CASE Fail(c, "write", "callback", WriteLocals) /\ UNCHANGED file
    BY <1>b, <1>c, <2>1, <2>4, FailKeeps
  <2>5. QED
    BY <1>4, <2>2, <2>3, <2>4 DEF CallWrite
<1>5. QED
  BY <1>1, <1>2, <1>3, <1>4

\* The rest of load.
LEMMA LoadKeeps ==
  ASSUME Inv, NEW c \in Calls, CallRead(c) \/ PackText(c) \/ Decode(c)
  PROVE  Inv'
<1>a. string \in [Calls -> Seq(Texts)] /\ file \in Seq(Texts)
  BY DEF Inv, Typed
<1>b. {"SystemError", "TypeError", "callback", "JSONDecodeError"} \subseteq Exceptions \ {"none"}
  BY DEF Exceptions
<1>c. UNCHANGED file /\ c \in Loads
  BY DEF CallRead, PackText, Decode, Inv, Placed, LoadLabels
<1>1. CASE CallRead(c)
  <2>1. pc[c] = "read" /\ Needed(pc[c], c) = {"method"}
    BY <1>1 DEF CallRead, Needed
  <2>2. CASE /\ Own(c, {"string"}, {"method"})
             /\ string' = [string EXCEPT ![c] = file]
             /\ Goto(c, "packText")
    <3>1. Balances(c, "packText", {"string"}, {"method"})
      BY <2>1 DEF Balances, Needed
    <3>2. string' \in [Calls -> Seq(Texts)]
      BY <1>a, <2>2
    <3>3. QED
      BY <1>c, <2>1, <2>2, <3>1, <3>2, ProceedKeeps DEF Labels, DumpLabels
  <2>3. CASE Fail(c, "read", "callback", {"method"}) /\ UNCHANGED string
    BY <1>b, <1>c, <2>1, <2>3, FailKeeps
  <2>4. QED
    BY <1>1, <2>2, <2>3 DEF CallRead
<1>2. CASE PackText(c)
  <2>1. pc[c] = "packText" /\ UNCHANGED string /\ Needed(pc[c], c) = {"string"}
    BY <1>2 DEF PackText, Needed
  <2>2. CASE Own(c, {"argtuple"}, {}) /\ Goto(c, "decode")
    <3>1. Balances(c, "decode", {"argtuple"}, {})
      BY <2>1 DEF Balances, Needed
    <3>2. QED
      BY <1>a, <1>c, <2>1, <2>2, <3>1, ProceedKeeps DEF Labels, DumpLabels
  <2>3. CASE Fail(c, "pack", "SystemError", {"string"})
    BY <1>b, <1>c, <2>1, <2>3, FailKeeps
  <2>4. QED
    BY <1>2, <2>2, <2>3 DEF PackText
<1>3. CASE Decode(c)
  <2>1. pc[c] = "decode" /\ UNCHANGED string /\ Needed(pc[c], c) = {"argtuple", "string"}
    BY <1>3 DEF Decode, Needed
  <2>2. CASE Fail(c, "decode", "TypeError", {"argtuple", "string"})
    BY <1>b, <1>c, <2>1, <2>2, FailKeeps
  <2>3. CASE IsDocument(string[c]) /\ Return(c, string[c][1].of, "none", {"argtuple", "string"})
    <3>1. string[c][1] \in Texts
      <4>1. string[c] \in Seq(Texts) /\ 1 \in 1 .. Len(string[c])
        BY <1>a, <2>3 DEF IsDocument
      <4>2. QED
        BY <4>1, ElementOfSeq
    <3>2. string[c][1].of \in Dumps /\ string[c][1].of # "NULL"
      BY <3>1, Names DEF Texts
    <3>3. c \notin Dumps /\ "none" \in Exceptions
      BY <1>c, Names DEF Exceptions
    <3>4. QED
      BY <1>c, <2>1, <2>3, <3>2, <3>3, ReturnKeeps
  <2>4. CASE Return(c, "NULL", "JSONDecodeError", {"argtuple", "string"})
    BY <1>b, <1>c, <2>1, <2>4, ReturnKeeps
  <2>5. QED
    BY <1>3, <2>2, <2>3, <2>4 DEF Decode
<1>4. QED
  BY <1>1, <1>2, <1>3

-----------------------------------------------------------------------------
(* Theorems. *)

\* The invariant holds whenever Python code may run during any of the calls.
THEOREM Invariant == Spec => []Inv
<1>1. Init => Inv
  <2> SUFFICES ASSUME Init PROVE Inv
    OBVIOUS
  <2>1. Typed
    <3>1. file \in Seq(Texts) /\ \A c \in Calls : string[c] = <<>> /\ <<>> \in Seq(Texts)
      BY EmptySeq DEF Init
    <3>2. /\ pc \in [Calls -> Labels] /\ pyErr \in [Calls -> Exceptions]
          /\ result \in [Calls -> Dumps \union {"none", "NULL", "None"}]
      BY DEF Init, Labels, Exceptions
    <3>3. owned \in [Calls -> [Locals -> Int]]
      BY DEF Init
    <3>4. string \in [Calls -> Seq(Texts)]
      BY <3>1 DEF Init
    <3>5. QED
      BY <3>1, <3>2, <3>3, <3>4 DEF Typed
  <2>2. Placed /\ Outcome
    BY DEF Init, Placed, Outcome, DumpLabels, LoadLabels
  <2>3. Balanced
    BY DEF Init, Balanced, Needed
  <2>4. WholeDocuments
    <3>1. DOMAIN file = {}
      BY DEF Init
    <3>2. \A c \in Dumps : /\ c \in Calls /\ pc[c] = "call" /\ result[c] = "none"
                           /\ pyErr[c] = "none" /\ Parts(c) = {}
      BY <3>1, Names DEF Init, Parts
    <3>3. QED
      BY <3>2 DEF WholeDocuments
  <2>5. QED
    BY <2>1, <2>2, <2>3, <2>4 DEF Inv
<1>2. Inv /\ [Next]_vars => Inv'
  <2> SUFFICES ASSUME Inv, [Next]_vars PROVE Inv'
    OBVIOUS
  <2>1. CASE Next
    BY <2>1, HeadKeeps, DumpKeeps, NoneKeeps, LoadKeeps DEF Next, Step
  <2>2. CASE UNCHANGED vars
    <3>1. Typed' /\ Placed' /\ Outcome'
      BY <2>2 DEF vars, Inv, Typed, Placed, Outcome
    <3>2. Balanced'
      BY <2>2 DEF vars, Inv, Balanced
    <3>3. WholeDocuments'
      BY <2>2 DEF vars, Inv, WholeDocuments, Parts, Text, TornText
    <3>4. QED
      BY <3>1, <3>2, <3>3 DEF Inv
  <2>3. QED
    BY <2>1, <2>2
<1>3. QED
  BY <1>1, <1>2, PTL DEF Spec

\* Every local of dump and load owns one reference while it is used, and none
\* when the call has returned, on every path.
THEOREM BalancedCorrect == Spec => []Balanced
<1>1. Inv => Balanced
  BY DEF Inv
<1>2. QED
  BY <1>1, Invariant, PTL

\* dump and load return a value or raise, whatever the methods of the file do.
THEOREM OutcomeCorrect == Spec => []Outcome
<1>1. Inv => Outcome
  BY DEF Inv
<1>2. QED
  BY <1>1, Invariant, PTL

\* However many dumps write to one file in any order, a dump that returns None
\* has written its text once and whole; one that raises, at most once and not
\* whole, and not at all before write was called.
THEOREM WholeDocumentsCorrect == Spec => []WholeDocuments
<1>1. Inv => WholeDocuments
  BY DEF Inv
<1>2. QED
  BY <1>1, Invariant, PTL
=============================================================================
