------------------------------ MODULE MCFileApi ------------------------------
(* Instances of FileApi for TLC. *)
EXTENDS FileApi

CONSTANTS d1, d2, l1
TwoDumps == {d1, d2}
OneLoad == {l1}
=============================================================================
