----------------------------- MODULE MCRegistryTable ------------------------
(***************************************************************************)
(* The registry beside the table it implements, for TLC.                  *)
(***************************************************************************)
EXTENDS RegistryTable, TLC

OneNamespace == [k \in Keys |-> CHOOSE n \in Namespaces : TRUE]

\* Every registration claims a failure that no probe met with, so an instance
\* may be registered as healthy at the failure threshold.
OneClaim == {[fails |-> 1, succs |-> 0]}

\* A probe caller may override the policy; small thresholds reach them fast.
QuickPolicy   == {Policy(1, 1, 2)}

Symmetry == Permutations(Procs) \cup Permutations(Keys) \cup Permutations(Leases)
=============================================================================
