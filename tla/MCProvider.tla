----------------------------- MODULE MCProvider -----------------------------
(***************************************************************************)
(* Instances of Provider for TLC.                                          *)
(***************************************************************************)
EXTENDS Provider, TLC

OneNamespace == [k \in Keys |-> CHOOSE n \in Namespaces : TRUE]
QuickPolicy  == {Policy(1, 1, 2)}
Unclaimed    == {NoClaim}

CONSTANTS p1, p2, k1, k2, k3

\* Two ids of the server's making; k3 is a name that p2 chooses for itself.
TwoIds     == <<k1, k2>>
OwnName    == (p1 :> {}) @@ (p2 :> {k3})
NoTTLGiven == (p1 :> 0) @@ (p2 :> 2)
=============================================================================
