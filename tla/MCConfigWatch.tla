--------------------------- MODULE MCConfigWatch ---------------------------
(***************************************************************************)
(* Instances of ConfigWatch for TLC.                                       *)
(***************************************************************************)
EXTENDS ConfigWatch

\* A global default to fall back on.
GlobalDefault ==
    [s \in Scopes |-> IF s = "global" THEN CHOOSE v \in Values : TRUE ELSE NoValue]
=============================================================================
