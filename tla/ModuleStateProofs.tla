------------------------- MODULE ModuleStateProofs -------------------------
(***************************************************************************)
(* Theorems about ModuleState, for any number of interpreters that import, *)
(* forget and end in any order, and whatever fails.                        *)
(***************************************************************************)
EXTENDS ModuleState, FiniteSetTheorems, TLAPS

Labels == {"out", "create", "decimal", "exception", "in"}

\* The classes named are among those made.
Typed ==
  /\ pc \in [Interpreters -> Labels]
  /\ found \in [Interpreters -> {"NULL", "module"}]
  /\ exported \in [Interpreters -> 0 .. made]
  /\ decimal \in [Interpreters -> {"NULL", "Decimal"}]
  /\ JSONDecodeError \in 0 .. made
  /\ refs \in [Classes -> Int]
  /\ made \in 0 .. MaxClasses

\* PyState_FindModule finds the module that exports the class, and an import is
\* only under way where there is none.
Single ==
  \A i \in Interpreters :
    /\ found[i] = "NULL" <=> exported[i] = NULL
    /\ pc[i] \in {"create", "decimal", "exception"} => found[i] = "NULL"

\* The inductive invariant.
Inv == Typed /\ Single /\ NeverDangling /\ StateReleased

-----------------------------------------------------------------------------
\* Exporters are counted.
LEMMA Counted ==
  ASSUME NEW c
  PROVE  /\ IsFiniteSet(Exporters(c)) /\ Cardinality(Exporters(c)) \in Nat
<1>1. Exporters(c) \in SUBSET Interpreters
  BY DEF Exporters
<1>2. QED
  BY <1>1, ModuleAssumption, FS_Subset, FS_CardinalityType

\* The steps that touch no class.
LEMMA OthersKeep ==
  ASSUME Inv, NEW i \in Interpreters, NEW label \in Labels, Goto(i, label),
         label \in {"create", "decimal", "exception"} => found[i] = "NULL",
         JSONDecodeError' \in {JSONDecodeError, NULL},
         decimal' \in [Interpreters -> {"NULL", "Decimal"}], StateReleased',
         UNCHANGED <<found, exported, refs, made>>
  PROVE  Inv'
<1>1. /\ pc' \in [Interpreters -> Labels]
      /\ \A j \in Interpreters : pc'[j] = IF j = i THEN label ELSE pc[j]
  BY DEF Inv, Typed, Goto
<1>2. Typed'
  BY <1>1 DEF Inv, Typed, NULL
<1>3. Single'
  BY <1>1 DEF Inv, Single
<1>4. NeverDangling'
  <2> SUFFICES ASSUME NEW c \in Classes
               PROVE  refs[c] >= Cardinality(Exporters(c))
                                 + (IF JSONDecodeError' = c THEN 1 ELSE 0)
    BY DEF NeverDangling, Exporters
  <2>1. refs[c] >= Cardinality(Exporters(c)) + (IF JSONDecodeError = c THEN 1 ELSE 0)
    BY DEF Inv, NeverDangling
  <2>2. refs[c] \in Int /\ c # NULL
    <3>1. refs \in [Classes -> Int]
      BY DEF Inv, Typed
    <3>2. QED
      BY <3>1, ModuleAssumption DEF Classes, NULL
  <2>3. Cardinality(Exporters(c)) \in Nat
    BY Counted
  <2>4. QED
    BY <2>1, <2>2, <2>3
<1>5. QED
  BY <1>2, <1>3, <1>4 DEF Inv

\* What a step of i leaves in the module state is released when its place asks
\* for that.
LEMMA StateKept ==
  ASSUME Inv, NEW i \in Interpreters, NEW label \in Labels, Goto(i, label),
         NEW state \in {"NULL", "Decimal"}, decimal' = [decimal EXCEPT ![i] = state],
         \A j \in Interpreters \ {i} : found'[j] = found[j],
         state # "NULL" => found'[i] = "module" \/ label = "exception"
  PROVE  decimal' \in [Interpreters -> {"NULL", "Decimal"}] /\ StateReleased'
BY DEF Inv, Typed, StateReleased, Goto

\* A new class, exported here and named by the global.
LEMMA AddKeeps ==
  ASSUME Inv, NEW i \in Interpreters, AddException(i)
  PROVE  Inv'
<1>1. /\ pc[i] = "exception" /\ made < MaxClasses /\ made' = made + 1 /\ JSONDecodeError' = made'
      /\ refs' = [refs EXCEPT ![made'] = 2] /\ exported' = [exported EXCEPT ![i] = made']
      /\ found' = [found EXCEPT ![i] = "module"] /\ pc' = [pc EXCEPT ![i] = "in"]
  BY DEF AddException, References, Goto
<1>2. made \in Nat /\ MaxClasses \in Nat /\ made' \in Classes
  BY <1>1, ModuleAssumption DEF Inv, Typed, Classes
<1>3. \A j \in Interpreters : exported[j] \in 0 .. made
  BY DEF Inv, Typed
<1>4. \A j \in Interpreters : exported'[j] = IF j = i THEN made' ELSE exported[j]
  BY <1>1 DEF Inv, Typed
<1>5. Typed'
  <2>1. exported' \in [Interpreters -> 0 .. made']
    <3>1. \A j \in Interpreters : exported'[j] \in 0 .. made'
      BY <1>1, <1>2, <1>3, <1>4
    <3>2. QED
      BY <1>1, <3>1 DEF Inv, Typed
  <2>2. pc' \in [Interpreters -> Labels] /\ found' \in [Interpreters -> {"NULL", "module"}]
    BY <1>1 DEF Inv, Typed, Labels
  <2>3. refs' \in [Classes -> Int]
    BY <1>1, <1>2 DEF Inv, Typed
  <2>4. /\ JSONDecodeError' \in 0 .. made' /\ made' \in 0 .. MaxClasses
        /\ decimal' \in [Interpreters -> {"NULL", "Decimal"}]
    BY <1>1, <1>2 DEF AddException, Inv, Typed
  <2>5. QED
    BY <2>1, <2>2, <2>3, <2>4 DEF Typed
<1>6. Single'
  BY <1>1, <1>2, <1>4 DEF Inv, Typed, Single, NULL, Classes
<1>7. NeverDangling'
  <2> SUFFICES ASSUME NEW c \in Classes
               PROVE  refs'[c] >= Cardinality(Exporters(c)')
                                  + (IF JSONDecodeError' = c THEN 1 ELSE 0)
    BY DEF NeverDangling, Exporters
  <2>1. CASE c = made'
    <3>1. Exporters(c)' = {i}
      BY <1>1, <1>2, <1>3, <1>4, <2>1 DEF Exporters
    <3>2. Cardinality(Exporters(c)') = 1
      BY <3>1, FS_Singleton
    <3>3. refs'[c] = 2
      BY <1>1, <1>2, <2>1 DEF Inv, Typed
    <3>4. QED
      BY <3>2, <3>3
  <2>2. CASE c # made'
    <3>1. Exporters(c)' \in SUBSET Exporters(c)
      BY <1>4, <2>2 DEF Exporters
    <3>2. Cardinality(Exporters(c)') <= Cardinality(Exporters(c)) /\ IsFiniteSet(Exporters(c)')
      BY <3>1, Counted, FS_Subset
    <3>3. Cardinality(Exporters(c)') \in Nat /\ Cardinality(Exporters(c)) \in Nat
      BY <3>2, Counted, FS_CardinalityType
    <3>4. refs'[c] = refs[c] /\ refs[c] \in Int
      BY <1>1, <2>2 DEF Inv, Typed
    <3>5. refs[c] >= Cardinality(Exporters(c)) + (IF JSONDecodeError = c THEN 1 ELSE 0)
      BY DEF Inv, NeverDangling
    <3>6. QED
      BY <1>1, <2>2, <3>2, <3>3, <3>4, <3>5
  <2>3. QED
    BY <2>1, <2>2
<1>8. StateReleased'
  BY <1>1 DEF Inv, Typed, StateReleased, AddException
<1>9. QED
  BY <1>5, <1>6, <1>7, <1>8 DEF Inv

\* An interpreter ends and its module gives its reference back.
LEMMA EndKeeps ==
  ASSUME Inv, NEW i \in Interpreters, EndInterpreter(i)
  PROVE  Inv'
<1>1. /\ refs' = Drop(i) /\ found' = [found EXCEPT ![i] = "NULL"]
      /\ exported' = [exported EXCEPT ![i] = NULL] /\ pc' = [pc EXCEPT ![i] = "out"]
      /\ decimal' = [decimal EXCEPT ![i] = "NULL"]
      /\ UNCHANGED <<JSONDecodeError, made>>
  BY DEF EndInterpreter, Goto
<1>2. \A j \in Interpreters : exported'[j] = IF j = i THEN NULL ELSE exported[j]
  BY <1>1 DEF Inv, Typed
<1>3. made \in Nat /\ exported[i] \in 0 .. made /\ made \in 0 .. MaxClasses
  BY ModuleAssumption DEF Inv, Typed
<1>4. \A c \in Classes : /\ refs'[c] = refs[c] - (IF c = exported[i] THEN 1 ELSE 0)
                         /\ refs[c] \in Int /\ c # NULL
  BY <1>1 DEF Drop, Inv, Typed, NULL, Classes
<1>5. Typed'
  <2>1. exported' \in [Interpreters -> 0 .. made]
    BY <1>1, <1>3 DEF Inv, Typed, NULL
  <2>2. pc' \in [Interpreters -> Labels] /\ found' \in [Interpreters -> {"NULL", "module"}]
    BY <1>1 DEF Inv, Typed, Labels
  <2>3. refs' \in [Classes -> Int]
    <3>1. exported[i] # NULL => exported[i] \in Classes
      BY <1>3, ModuleAssumption DEF NULL, Classes
    <3>2. QED
      BY <1>1, <3>1 DEF Drop, Inv, Typed
  <2>4. QED
    BY <1>1, <2>1, <2>2, <2>3 DEF Inv, Typed
<1>6. Single'
  <2>1. \A j \in Interpreters : /\ found'[j] = IF j = i THEN "NULL" ELSE found[j]
                                /\ pc'[j] = IF j = i THEN "out" ELSE pc[j]
    BY <1>1 DEF Inv, Typed
  <2>2. QED
    BY <1>2, <2>1 DEF Inv, Single
<1>7. NeverDangling'
  <2> SUFFICES ASSUME NEW c \in Classes
               PROVE  refs'[c] >= Cardinality(Exporters(c)')
                                  + (IF JSONDecodeError' = c THEN 1 ELSE 0)
    BY DEF NeverDangling, Exporters
  <2>1. Exporters(c)' = Exporters(c) \ {i}
    BY <1>2, <1>4 DEF Exporters
  <2>2. i \in Exporters(c) <=> c = exported[i]
    BY DEF Exporters
  <2>3. Cardinality(Exporters(c)') = Cardinality(Exporters(c)) - (IF c = exported[i] THEN 1 ELSE 0)
    <3>1. Cardinality(Exporters(c) \ {i}) =
            IF i \in Exporters(c) THEN Cardinality(Exporters(c)) - 1 ELSE Cardinality(Exporters(c))
      BY Counted, FS_RemoveElement
    <3>2. Cardinality(Exporters(c)) \in Nat
      BY Counted
    <3>3. QED
      BY <2>1, <2>2, <3>1, <3>2
  <2>4. refs[c] >= Cardinality(Exporters(c)) + (IF JSONDecodeError = c THEN 1 ELSE 0)
    BY DEF Inv, NeverDangling
  <2>5. QED
    BY <1>1, <1>4, <2>3, <2>4, Counted
<1>8. StateReleased'
  BY <1>1 DEF Inv, Typed, StateReleased
<1>9. QED
  BY <1>5, <1>6, <1>7, <1>8 DEF Inv

-----------------------------------------------------------------------------
(* Theorems. *)

\* The invariant holds in every state of the process.
THEOREM Invariant == Spec => []Inv
<1>1. Init => Inv
  <2> SUFFICES ASSUME Init PROVE Inv
    OBVIOUS
  <2>1. Typed /\ Single
    BY ModuleAssumption DEF Init, Typed, Single, Labels, NULL
  <2>2. NeverDangling
    <3> SUFFICES ASSUME NEW c \in Classes
                 PROVE  refs[c] >= Cardinality(Exporters(c)) + (IF JSONDecodeError = c THEN 1 ELSE 0)
      BY DEF NeverDangling
    <3>1. c # NULL /\ refs[c] = 0
      BY DEF Init, Classes, NULL
    <3>2. Exporters(c) = {}
      BY <3>1 DEF Init, Exporters
    <3>3. JSONDecodeError # c
      BY <3>1 DEF Init
    <3>4. QED
      BY <3>1, <3>2, <3>3, FS_EmptySet
  <2>3. StateReleased
    BY DEF Init, StateReleased
  <2>4. QED
    BY <2>1, <2>2, <2>3 DEF Inv
<1>2. Inv /\ [Next]_vars => Inv'
  <2> SUFFICES ASSUME Inv, [Next]_vars PROVE Inv'
    OBVIOUS
  <2>a. decimal \in [Interpreters -> {"NULL", "Decimal"}]
    BY DEF Inv, Typed
  <2>1. ASSUME NEW i \in Interpreters, FindModule(i) PROVE Inv'
    <3>1. (IF found[i] = "NULL" THEN "create" ELSE "in") \in Labels
      BY DEF Labels
    <3>2. StateReleased'
      BY <2>1 DEF FindModule, Goto, Inv, Typed, StateReleased
    <3>3. QED
      BY <2>a, <2>1, <3>1, <3>2, OthersKeep DEF FindModule
  <2>2. ASSUME NEW i \in Interpreters, CreateModule(i) \/ ImportDecimal(i) \/ FailException(i)
        PROVE  Inv'
    <3>1. pc[i] \in {"create", "decimal", "exception"}
      BY <2>2 DEF CreateModule, ImportDecimal, FailException
    <3>2. found[i] = "NULL"
      BY <3>1 DEF Inv, Single
    <3>3. CASE CreateModule(i)
      <4>1. StateReleased'
        BY <3>3 DEF CreateModule, Goto, Inv, Typed, StateReleased
      <4>2. QED
        BY <2>a, <3>2, <3>3, <4>1, OthersKeep DEF CreateModule, Labels
    <3>4. CASE ImportDecimal(i)
      <4>1. decimal' = [decimal EXCEPT ![i] = "Decimal"] \/ decimal' = decimal
        BY <3>4 DEF ImportDecimal
      <4>2. decimal' \in [Interpreters -> {"NULL", "Decimal"}] /\ StateReleased'
        BY <2>a, <3>4, <4>1 DEF ImportDecimal, Goto, Inv, Typed, StateReleased
      <4>3. QED
        BY <3>2, <3>4, <4>2, OthersKeep DEF ImportDecimal, Labels
    <3>5. CASE FailException(i)
      <4>1. "out" \in Labels /\ Goto(i, "out") /\ decimal' = [decimal EXCEPT ![i] = "NULL"]
            /\ found' = found
        BY <3>5 DEF FailException, Labels
      <4>2. decimal' \in [Interpreters -> {"NULL", "Decimal"}] /\ StateReleased'
        BY <4>1, StateKept
      <4>3. QED
        BY <3>2, <3>5, <4>1, <4>2, OthersKeep DEF FailException
    <3>6. QED
      BY <2>2, <3>3, <3>4, <3>5
  <2>3. ASSUME NEW i \in Interpreters, Forget(i) PROVE Inv'
    <3>1. StateReleased'
      BY <2>3 DEF Forget, Goto, Inv, Typed, StateReleased
    <3>2. QED
      BY <2>a, <2>3, <3>1, OthersKeep DEF Forget, Labels
  <2>4. ASSUME NEW i \in Interpreters, RaiseDecodeError(i) PROVE Inv'
    BY <2>4 DEF RaiseDecodeError, Inv, Typed, Single, NeverDangling, StateReleased,
       Exporters
  <2>5. CASE UNCHANGED vars
    BY <2>5 DEF vars, Inv, Typed, Single, NeverDangling, StateReleased, Exporters
  <2>6. QED
    BY <2>1, <2>2, <2>3, <2>4, <2>5, AddKeeps, EndKeeps DEF Next
<1>3. QED
  BY <1>1, <1>2, PTL DEF Spec

\* The class that loads raises and those that modules export are never freed,
\* whichever interpreter that imported ujson ends first.
THEOREM NeverDanglingCorrect == Spec => []NeverDangling
<1>1. Inv => NeverDangling
  BY DEF Inv
<1>2. QED
  BY <1>1, Invariant, PTL

\* However an import ends, and whenever an interpreter does, its module state is
\* alive only with a module that is there or still being made.
THEOREM StateReleasedCorrect == Spec => []StateReleased
<1>1. Inv => StateReleased
  BY DEF Inv
<1>2. QED
  BY <1>1, Invariant, PTL

\* While an interpreter lives, importing ujson again leaves it the class it has.
THEOREM ExportStableCorrect == Spec => ExportStable
<1>1. Inv /\ [Next]_vars =>
        [\A i \in Interpreters : exported[i] # NULL => exported'[i] \in {exported[i], NULL}]_vars
  <2> SUFFICES ASSUME Inv, Next, NEW j \in Interpreters, exported[j] # NULL
               PROVE  exported'[j] \in {exported[j], NULL}
    OBVIOUS
  <2>1. PICK i \in Interpreters :
          \/ FindModule(i) \/ CreateModule(i) \/ ImportDecimal(i) \/ AddException(i)
          \/ FailException(i) \/ Forget(i) \/ EndInterpreter(i) \/ RaiseDecodeError(i)
    BY DEF Next
  <2>2. CASE AddException(i)
    <3>1. exported[i] = NULL
      BY <2>2 DEF AddException, Inv, Single
    <3>2. QED
      BY <2>2, <3>1 DEF AddException, Inv, Typed
  <2>3. CASE EndInterpreter(i)
    BY <2>3 DEF EndInterpreter, Inv, Typed
  <2>4. CASE ~AddException(i) /\ ~EndInterpreter(i)
    BY <2>1, <2>4 DEF FindModule, CreateModule, ImportDecimal, FailException, Forget,
       RaiseDecodeError
  <2>5. QED
    BY <2>2, <2>3, <2>4
<1>2. QED
  BY <1>1, Invariant, PTL DEF Spec, ExportStable
=============================================================================
