--------------------------- MODULE MCProbeHealth ---------------------------
(***************************************************************************)
(* Instances of ProbeHealth for TLC: the default policy, the one of the    *)
(* unit test, and policies the code has to clamp.                          *)
(***************************************************************************)
EXTENDS ProbeHealth

AllPolicies  == {DefaultPolicy, Policy(2, 2, 4), Policy(-1, 0, -5), Policy(3, 1, 2)}

\* Nothing claimed; a failure short of deletion under the policy of the test,
\* with a success; less than nothing.
SomeClaims == {[fails |-> 0, succs |-> 0], [fails |-> 3, succs |-> 1], [fails |-> -1, succs |-> -2]}

AllTargets == {Refused, Silent, Status(204), Status(500), Check("SERVING"), Check("error")}
=============================================================================
