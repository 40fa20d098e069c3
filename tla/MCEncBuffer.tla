----------------------------- MODULE MCEncBuffer -----------------------------
(* Instances of EncBuffer for TLC. *)
EXTENDS EncBuffer

Format(indent, itemSep, keySep) == [indent |-> indent, itemSep |-> itemSep, keySep |-> keySep]

\* Compact, indented with the default separators, and separators of the caller.
AllFormats == {Format(0, 1, 1), Format(2, 1, 2), Format(1, 3, 0)}
=============================================================================
