---------------------------- MODULE RegistryInv ----------------------------
(***************************************************************************)
(* The inductive invariant behind the registry's safety properties: what   *)
(* the stored records say, what a request carries from one store call to   *)
(* the next, whom each lease belongs to, and what an update's snapshot is  *)
(* worth when it reaches its compare-and-swap.                             *)
(***************************************************************************)
EXTENDS Registry

HasLease(p) == held[p] # NoLease

\* A key that is there holds an instance; one that is not holds nothing.
StoredInv ==
    \A k \in Keys :
        /\ kv[k].mod <= rev
        /\ Present(k) => kv[k].value \in Instance
        /\ ~Present(k) => kv[k].lease = NoLease

\* What each request holds in its hands at each of its store calls.
Carried(p) ==
    /\ pc[p] = "idle" => ~HasLease(p)
    /\ HasLease(p) => inst[p] \in Instance
    /\ pc[p] # "idle" => req[p] \in Request
    /\ pc[p] = "check" => req[p].op # "probe" /\ ~HasLease(p)
    /\ pc[p] = "check" /\ req[p].op = "register" /\ req[p].inst.mode = "heartbeat" =>
            req[p].lease = NoLease
    /\ pc[p] = "grant" => req[p].op = "register" /\ inst[p] \in Instance
                            /\ inst[p].mode = "heartbeat" /\ ~HasLease(p)
    /\ pc[p] = "create" => req[p].op = "register" /\ inst[p] \in Instance
                            /\ (inst[p].mode = "heartbeat" => HasLease(p))
    /\ pc[p] = "get" => req[p].op # "register" /\ ~HasLease(p)
    /\ pc[p] = "cas" => req[p].op = "update" /\ inst[p] \in Instance
                            /\ (inst[p].mode = "heartbeat" => HasLease(p))
    /\ pc[p] = "keepalive" => req[p].op = "heartbeat" /\ inst[p] \in Instance
                            /\ inst[p].mode = "heartbeat" /\ HasLease(p)
    /\ pc[p] = "put" => inst[p] \in Instance
                            /\ \/ req[p].op = "heartbeat" /\ HasLease(p)
                                    /\ inst[p].mode = "heartbeat"
                               \/ req[p].op = "probe" /\ inst[p].mode = "probe"
    /\ pc[p] = "revoke" => req[p].op = "deregister" /\ HasLease(p)
    /\ pc[p] = "delete" => req[p].op \in {"deregister", "probe"}

CarriedInv == \A p \in Procs : Carried(p)

\* The lease in a request's hands is that of a heartbeat instance, and the key
\* holds one.  (A request that posted a lease of its own owns none.)
Owns(p)  == HasLease(p) /\ inst[p].mode = "heartbeat"
Beats(k) == kv[k].lease # NoLease /\ kv[k].value.mode = "heartbeat"

\* A lease that a heartbeat instance has was granted, and it belongs to one
\* key: among the stored records, among the requests, and between the two.
OwnerInv ==
    /\ \A p \in Procs : Owns(p) => leases[held[p]] # "free"
    /\ \A j, k \in Keys : Beats(j) /\ Beats(k) /\ kv[j].lease = kv[k].lease => j = k
    /\ \A p \in Procs, k \in Keys :
          Owns(p) /\ Beats(k) /\ kv[k].lease = held[p] => k = Key(p)
    /\ \A p, q \in Procs :
          Owns(p) /\ Owns(q) /\ held[p] = held[q] => Key(p) = Key(q)

\* The revision an update expects is no younger than its own read, so if the
\* key still has that revision, the snapshot is still what is stored.
Snapshot(p) ==
    /\ pc[p] \in {"check", "get", "cas"} /\ req[p].op = "update" =>
          req[p].expected \in 1..rev
    /\ pc[p] = "cas" /\ kv[Key(p)].mod = req[p].expected =>
          inst[p] = kv[Key(p)].value /\ held[p] = kv[Key(p)].lease

SnapshotInv == \A p \in Procs : Snapshot(p)

Inv ==
    /\ TypeOK
    /\ StoredInv
    /\ CarriedInv
    /\ OwnerInv
    /\ LeaseBinding
    /\ SnapshotInv

-----------------------------------------------------------------------------
(* Beside it: what the failure counters say while all probe results come   *)
(* with one failure threshold.                                             *)

OneThreshold == \A P, Q \in Policies : FailAt(P) = FailAt(Q)

\* No result is counted for a heartbeat instance, and none leaves a healthy
\* instance at the threshold.
Sound(i) ==
    /\ i.mode = "heartbeat" => ~i.probed
    /\ i.probed /\ i.status = "health" => \A P \in Policies : i.fails < FailAt(P)

\* Every instance on its way into the store is as sound as the stored ones.
CarriedSound(p) ==
    /\ pc[p] = "check" /\ req[p].op = "register" => Sound(req[p].inst)
    /\ pc[p] \in {"grant", "create", "cas", "keepalive", "put"} => Sound(inst[p])

StoredSoundInv  == \A k \in Keys : Present(k) => Sound(kv[k].value)
CarriedSoundInv == \A p \in Procs : CarriedSound(p)

SoundInv == StoredSoundInv /\ CarriedSoundInv

=============================================================================
