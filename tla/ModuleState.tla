----------------------------- MODULE ModuleState -----------------------------
(***************************************************************************)
(* PyInit_ujson and the state it sets up: a module and its state in each   *)
(* interpreter of the process, and one JSONDecodeError for all of them.    *)
(*                                                                         *)
(* The interpreters take turns wherever Python code may run: the import of *)
(* decimal is such a place, the making of the exception is not.            *)
(*                                                                         *)
(* A definition marked "Mutant" is its successor with a bug; it is used by *)
(* no definition here and shows which property catches the bug.            *)
(***************************************************************************)
EXTENDS Integers, FiniteSets

CONSTANTS
  Interpreters,   \* those of the process
  MaxClasses,     \* bound: exception classes made
  Failures        \* subset of {"create", "decimal", "new", "add"}: what may fail

ASSUME ModuleAssumption == MaxClasses \in Nat /\ Interpreters # {} /\ IsFiniteSet(Interpreters)

NULL == 0
Classes == 1..MaxClasses

VARIABLES
  pc,                \* of each interpreter: where import ujson is
  found,             \* what PyState_FindModule finds: "NULL" or "module"
  exported,          \* the class that is ujson.JSONDecodeError there
  decimal,           \* type_decimal of the module state: "NULL" or "Decimal"
  JSONDecodeError,   \* the global of the extension
  refs,              \* references to each class
  made,              \* classes made so far
  raised             \* the class loads raised last, and what was exported then

vars == <<pc, found, exported, decimal, JSONDecodeError, refs, made, raised>>

-----------------------------------------------------------------------------
Init ==
  /\ pc = [i \in Interpreters |-> "out"]
  /\ found = [i \in Interpreters |-> "NULL"]
  /\ exported = [i \in Interpreters |-> NULL]
  /\ decimal = [i \in Interpreters |-> "NULL"]
  /\ JSONDecodeError = NULL
  /\ refs = [c \in Classes |-> 0]
  /\ made = 0
  /\ raised = [i \in Interpreters |-> [class |-> NULL, own |-> NULL]]

Goto(i, label) == pc' = [pc EXCEPT ![i] = label]

\* Mutant: every import makes a module.
FindModuleNever(i) ==
  /\ pc[i] = "out"
  /\ Goto(i, "create")
  /\ UNCHANGED <<found, exported, decimal, JSONDecodeError, refs, made, raised>>

\* The first step of PyInit_ujson: a second import returns the module of the first.
FindModule(i) ==
  /\ pc[i] = "out"
  /\ Goto(i, IF found[i] = "NULL" THEN "create" ELSE "in")
  /\ UNCHANGED <<found, exported, decimal, JSONDecodeError, refs, made, raised>>

CreateModule(i) ==
  /\ pc[i] = "create"
  /\ \/ Goto(i, "decimal")
     \/ "create" \in Failures /\ Goto(i, "out")
  /\ UNCHANGED <<found, exported, decimal, JSONDecodeError, refs, made, raised>>

\* Without decimal the module does without it.
ImportDecimal(i) ==
  /\ pc[i] = "decimal"
  /\ \/ decimal' = [decimal EXCEPT ![i] = "Decimal"]
     \/ "decimal" \in Failures /\ UNCHANGED decimal
  /\ Goto(i, "exception")
  /\ UNCHANGED <<found, exported, JSONDecodeError, refs, made, raised>>

\* Mutant: PyModule_AddObject steals the only reference.
ReferencesStolen == 1

\* One for the module, which PyModule_AddObject steals, and one for the global.
References == 2

\* The class the global named before keeps the reference that was its own.
AddException(i) ==
  /\ pc[i] = "exception"
  /\ made < MaxClasses
  /\ made' = made + 1
  /\ JSONDecodeError' = made'
  /\ refs' = [refs EXCEPT ![made'] = References]
  /\ exported' = [exported EXCEPT ![i] = made']
  /\ found' = [found EXCEPT ![i] = "module"]
  /\ Goto(i, "in")
  /\ UNCHANGED <<decimal, raised>>

\* Mutant: the module that could not be completed is not released.
FailExceptionKeeping(i) ==
  /\ pc[i] = "exception"
  /\ Failures \intersect {"new", "add"} # {}
  /\ JSONDecodeError' = NULL
  /\ Goto(i, "out")
  /\ UNCHANGED <<found, exported, decimal, refs, made, raised>>

\* PyErr_NewException or PyModule_AddObject fails: the global is cleared, and
\* module_free releases the state.
FailException(i) ==
  /\ pc[i] = "exception"
  /\ Failures \intersect {"new", "add"} # {}
  /\ JSONDecodeError' = NULL
  /\ decimal' = [decimal EXCEPT ![i] = "NULL"]
  /\ Goto(i, "out")
  /\ UNCHANGED <<found, exported, refs, made, raised>>

\* The program removes ujson from sys.modules.
Forget(i) ==
  /\ pc[i] = "in"
  /\ Goto(i, "out")
  /\ UNCHANGED <<found, exported, decimal, JSONDecodeError, refs, made, raised>>

\* The dictionary of the module is released.
Drop(i) ==
  IF exported[i] = NULL THEN refs ELSE [refs EXCEPT ![exported[i]] = @ - 1]

\* The interpreter ends, with its module and module_clear, and another begins.
EndInterpreter(i) ==
  /\ pc[i] \in {"in", "out"}
  /\ refs' = Drop(i)
  /\ found' = [found EXCEPT ![i] = "NULL"]
  /\ exported' = [exported EXCEPT ![i] = NULL]
  /\ decimal' = [decimal EXCEPT ![i] = "NULL"]
  /\ raised' = [raised EXCEPT ![i] = [class |-> NULL, own |-> NULL]]
  /\ Goto(i, "out")
  /\ UNCHANGED <<JSONDecodeError, made>>

\* loads of invalid JSON.
RaiseDecodeError(i) ==
  /\ pc[i] = "in"
  /\ raised' = [raised EXCEPT ![i] = [class |-> JSONDecodeError, own |-> exported[i]]]
  /\ UNCHANGED <<pc, found, exported, decimal, JSONDecodeError, refs, made>>

Next ==
  \E i \in Interpreters :
    \/ FindModule(i) \/ CreateModule(i) \/ ImportDecimal(i) \/ AddException(i) \/ FailException(i)
    \/ Forget(i) \/ EndInterpreter(i) \/ RaiseDecodeError(i)

Spec == Init /\ [][Next]_vars

-----------------------------------------------------------------------------
(* Properties. *)

\* The interpreters whose module exports a class.
Exporters(c) == {i \in Interpreters : exported[i] = c}

\* The class that loads will raise is alive, whichever interpreters have ended:
\* each class has a reference for each module that exports it and one for the
\* global that names it.  A global that a failed import left NULL names none.
NeverDangling ==
  \A c \in Classes :
    refs[c] >= Cardinality(Exporters(c)) + (IF JSONDecodeError = c THEN 1 ELSE 0)

\* A failed import leaves no state behind, and neither does an interpreter that
\* ends: what modulestate refers to is alive only during an import that is still
\* under way, or with the module that PyState_FindModule finds.
StateReleased ==
  \A i \in Interpreters : decimal[i] # "NULL" => found[i] = "module" \/ pc[i] = "exception"

\* Importing ujson again does not replace the class an interpreter has seen:
\* "except ujson.JSONDecodeError" of code loaded earlier still names it.
ExportStable ==
  [][\A i \in Interpreters : exported[i] # NULL => exported'[i] \in {exported[i], NULL}]_vars

\* README.md:143 says that "UltraJSON has no global state": what loads raises in
\* an interpreter is the JSONDecodeError of the module it was called on.
RaisesOwn == \A i \in Interpreters : raised[i].class = raised[i].own
=============================================================================
