-------------------------- MODULE MCInstanceWatch --------------------------
(***************************************************************************)
(* Instances of InstanceWatch for TLC.                                     *)
(***************************************************************************)
EXTENDS InstanceWatch

\* Instances of one service, each with an id of its own; or two services of
\* a namespace whose instances share an id.
OwnIds    == [k \in Keys |-> k]
SharedIds == [k \in Keys |-> "node-1"]
=============================================================================
