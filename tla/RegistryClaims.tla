--------------------------- MODULE RegistryClaims ---------------------------
(***************************************************************************)
(* What docs, comments and tests of the repository say of the registry and *)
(* its requests, interleaved, do not keep.  The README tells the shortest  *)
(* way to break each of them, and the constants that TLC finds it with.    *)
(***************************************************************************)
EXTENDS RegistryInv

\* service_test.go: deregistering a registered instance reports no error.
DeregisterReportsSuccess == [][\A p \in Procs : ~DeleteNotFound(p)]_vars

\* The step in which p's own request takes its key away.
Erases(p, op) ==
    /\ pc[p] = "delete" /\ pc'[p] = "idle" /\ req[p].op = op
    /\ Present(Key(p)) /\ kv'[Key(p)] = Missing

\* "Deregister removes a runtime instance and revokes its lease when present":
\* the record it removes has no lease, or one that is revoked by then.
DeregisterRevokesLease ==
    [][\A p \in Procs : Erases(p, "deregister") =>
          ~\E l \in Leases : Key(p) \in Attached(l) /\ LeaseUsable(l)]_vars

\* "ApplyProbeResult updates the instance health state", and a deregistered
\* instance is not found any more: only a registration makes a key appear.
OnlyRegisterCreates ==
    [][\A k \in Keys : ~Present(k) /\ kv'[k].mod > 0 =>
          \E p \in Procs : pc[p] = "create" /\ Key(p) = k]_vars

\* "Heartbeat refreshes the lease and last heartbeat timestamp": the mutable
\* fields of a registered instance change by an Update only.
OnlyUpdateChangesData ==
    [][\A k \in Keys :
          (Present(k) /\ kv'[k].mod > 0 /\ kv'[k].value.born = kv[k].value.born
             /\ kv'[k].value.data # kv[k].value.data)
          => \E p \in Procs : pc[p] = "cas" /\ Key(p) = k]_vars

\* The key of an instance in a probe mode is not bound to a lease.
ProbesUnbound ==
    \A k \in Keys : Present(k) /\ kv[k].value.mode = "probe" => kv[k].lease = NoLease

\* "health -> unhealth -> delete": a probe result deletes no instance that is
\* stored as healthy at that moment.
OnlyUnhealthyDeleted ==
    [][\A p \in Procs :
          Erases(p, "probe") => kv[Key(p)].value.status = "unhealth"]_vars

=============================================================================
