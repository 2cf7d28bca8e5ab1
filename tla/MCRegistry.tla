----------------------------- MODULE MCRegistry -----------------------------
(***************************************************************************)
(* Instances of Registry for TLC.                                          *)
(***************************************************************************)
EXTENDS RegistryClaims, TLC

OneNamespace == [k \in Keys |-> CHOOSE n \in Namespaces : TRUE]

\* A registration may claim a failure that no probe met with.
Unclaimed == {[fails |-> 0, succs |-> 0]}
OneClaim  == {[fails |-> 1, succs |-> 0]}

\* A probe caller may override the policy; small thresholds reach them fast.
QuickPolicy   == {Policy(1, 1, 2)}
PatientPolicy == {Policy(2, 1, 3)}

Symmetry == Permutations(Procs) \cup Permutations(Keys) \cup Permutations(Leases)
=============================================================================
