------------------------------ MODULE MCConfig ------------------------------
(***************************************************************************)
(* Instances of Config for TLC.                                            *)
(***************************************************************************)
EXTENDS Config, TLC

MCKeys   == {"global", "namespace", "service"} \X Names
Nothing  == [k \in MCKeys |-> NoValue]

\* Defaults under the scopes that a run does not publish to.
Defaults == [k \in MCKeys |-> IF k[1] \in Writable THEN NoValue ELSE CHOOSE v \in Values : TRUE]

Symmetry == Permutations(Procs)
=============================================================================
