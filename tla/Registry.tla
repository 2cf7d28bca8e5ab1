------------------------------ MODULE Registry ------------------------------
(***************************************************************************)
(* The runtime instance registry (internal/core/service/registry).  Every  *)
(* request is a goroutine that makes its store calls one after the other;  *)
(* requests interleave at those calls, within one server or across the     *)
(* servers that share the etcd cluster, so each call is an action.         *)
(*                                                                         *)
(* A request the code turns down before its first store call, or between   *)
(* two of them without having changed anything (validation), leaves the    *)
(* state as Abort leaves it; such requests are not enumerated.             *)
(***************************************************************************)
EXTENDS EtcdStore, Health

CONSTANTS
    Procs,          \* request goroutines
    Namespaces,
    NamespaceOf,    \* [Keys -> Namespaces]: part of every instance key
    Modes,          \* health check modes in use, of {"heartbeat", "probe"}
    Data,           \* the mutable fields: weight, metadata, version
    Counters,       \* consecutive results that a registration may claim
    Policies,       \* health policies the probe results come with
    Ops,            \* operations in use
    NoRequest, NoInstance,
    MaxRequests,    \* bound: requests received
    MaxModeRev      \* bound: namespaces change only below this revision

ASSUME RegistryAssumption ==
    /\ NamespaceOf \in [Keys -> Namespaces]
    /\ Modes \subseteq {"heartbeat", "probe"}
    /\ Counters \subseteq [fails : Int, succs : Int]
    /\ \A P \in Policies : P.failure \in Int /\ P.success \in Int /\ P.delete \in Int
    /\ MaxRequests \in Nat /\ MaxModeRev \in Nat

VARIABLES
    nsMode,     \* access mode of each namespace, "none" before its creation
    received,   \* requests received so far: the clock that CreatedAt reads
    pc,         \* next store call of each goroutine
    req,        \* the request it serves
    inst,       \* the instance it has in hand
    held        \* the lease id in that instance

vars == <<storeVars, nsMode, received, pc, req, inst, held>>
locals == <<pc, req, inst, held>>

Statuses    == {"health", "unhealth"}
AccessModes == {"read_write", "read_only", "write_only", "no_read_no_write"}
AllowsWrite(m) == m \in {"read_write", "write_only"}

\* born is CreatedAt: it tells one registration of a key from another.
Instance == [mode : Modes, status : Statuses, data : Data, born : Nat,
             fails : Int, succs : Int, probed : BOOLEAN]

\* Status and counters are the client's: Normalize and Validate look at the
\* status alone, and nothing resets the counters.
NewInstance(mode, status, data, born, claim) ==
    [mode |-> mode, status |-> status, data |-> data, born |-> born,
     fails |-> claim.fails, succs |-> claim.succs, probed |-> FALSE]

\* A registration also names a lease: the leaseId of the instance posted.  That
\* of a heartbeat instance is overwritten before it is used, so it is NoLease.
Request ==
         [op : {"register"}, key : Keys, inst : Instance, lease : Leases \cup {NoLease}]
    \cup [op : {"update"}, key : Keys, data : Data, expected : Nat]
    \cup [op : {"heartbeat", "deregister"}, key : Keys]
    \cup [op : {"probe"}, key : Keys, success : BOOLEAN, policy : Policies]

Key(p) == req[p].key

Init ==
    /\ StoreInit
    /\ nsMode = [n \in Namespaces |-> "none"]
    /\ received = 0
    /\ pc = [p \in Procs |-> "idle"]
    /\ req = [p \in Procs |-> NoRequest]
    /\ inst = [p \in Procs |-> NoInstance]
    /\ held = [p \in Procs |-> NoLease]

Goto(p, call) == pc' = [pc EXCEPT ![p] = call]

Return(p) ==
    /\ pc' = [pc EXCEPT ![p] = "idle"]
    /\ req' = [req EXCEPT ![p] = NoRequest]
    /\ inst' = [inst EXCEPT ![p] = NoInstance]
    /\ held' = [held EXCEPT ![p] = NoLease]

-----------------------------------------------------------------------------
(* Arrival.  A probe result needs no access check; all the rest do.        *)

Receive(p, r) ==
    /\ pc[p] = "idle"
    /\ received < MaxRequests
    /\ received' = received + 1
    /\ Goto(p, IF r.op = "probe" THEN "get" ELSE "check")
    /\ req' = [req EXCEPT ![p] = r]
    /\ UNCHANGED <<storeVars, nsMode, inst, held>>

ReceiveRegister(p) ==
    /\ "register" \in Ops
    /\ \E k \in Keys, m \in Modes, s \in Statuses, d \in Data, c \in Counters :
          \E l \in IF m = "probe" THEN Leases \cup {NoLease} ELSE {NoLease} :
             Receive(p, [op |-> "register", key |-> k, lease |-> l,
                         inst |-> NewInstance(m, s, d, received + 1, c)])

\* Assumed of callers: they saw the revision they expect in an answer, and
\* name none that the store has not reached.
ReceiveUpdate(p) ==
    /\ "update" \in Ops
    /\ \E k \in Keys, d \in Data, e \in 1..rev :
          Receive(p, [op |-> "update", key |-> k, data |-> d, expected |-> e])

ReceiveHeartbeat(p) ==
    /\ "heartbeat" \in Ops
    /\ \E k \in Keys : Receive(p, [op |-> "heartbeat", key |-> k])

ReceiveDeregister(p) ==
    /\ "deregister" \in Ops
    /\ \E k \in Keys : Receive(p, [op |-> "deregister", key |-> k])

ReceiveProbeResult(p) ==
    /\ "probe" \in Ops
    /\ \E k \in Keys, ok \in BOOLEAN, P \in Policies :
          Receive(p, [op |-> "probe", key |-> k, success |-> ok, policy |-> P])

\* namespaces.CheckWrite: one read of the namespace record.
CheckWrite(p) ==
    /\ pc[p] = "check"
    /\ AllowsWrite(nsMode[NamespaceOf[Key(p)]])
    /\ IF req[p].op = "register"
       THEN /\ inst' = [inst EXCEPT ![p] = req[p].inst]
            /\ held' = [held EXCEPT ![p] = req[p].lease]
            /\ Goto(p, IF req[p].inst.mode = "heartbeat" THEN "grant" ELSE "create")
       ELSE Goto(p, "get") /\ UNCHANGED <<inst, held>>
    /\ UNCHANGED <<storeVars, nsMode, received, req>>

CheckWriteRefused(p) ==
    /\ pc[p] = "check"
    /\ ~AllowsWrite(nsMode[NamespaceOf[Key(p)]])
    /\ Return(p)
    /\ UNCHANGED <<storeVars, nsMode, received>>

-----------------------------------------------------------------------------
(* Register: a lease of its own for a heartbeat instance, then a create    *)
(* under whatever lease the instance has by then.                          *)

\* Mutant: a lease that is already in use is taken for another instance.
GrantShared(p) ==
    /\ pc[p] = "grant"
    /\ \E l \in Leases :
          /\ leases[l] # "dead"
          /\ leases' = [leases EXCEPT ![l] = "live"]
          /\ held' = [held EXCEPT ![p] = l]
    /\ Goto(p, "create")
    /\ UNCHANGED <<kv, rev, nsMode, received, req, inst>>

Grant(p) ==
    /\ pc[p] = "grant"
    /\ \E l \in Leases : GrantLease(l) /\ held' = [held EXCEPT ![p] = l]
    /\ Goto(p, "create")
    /\ UNCHANGED <<nsMode, received, req, inst>>

CreateInstance(p) ==
    /\ pc[p] = "create"
    /\ Create(Key(p), inst[p], held[p])
    /\ Return(p)
    /\ UNCHANGED <<nsMode, received>>

\* AlreadyExists, or the lease is gone: the granted lease is left behind.
CreateInstanceRefused(p) ==
    /\ pc[p] = "create"
    /\ CreateRefused(Key(p), held[p])
    /\ Return(p)
    /\ UNCHANGED <<storeVars, nsMode, received>>

-----------------------------------------------------------------------------
(* The read that starts every other operation.  decodeInstance takes the   *)
(* lease from the record that was read, whatever the payload says.         *)

\* Mutant: a deregistration deletes the key and leaves the lease alone.
AfterGetUnrevoked(r, i, l) ==
    CASE r.op = "update"     -> "cas"
      [] r.op = "heartbeat"  -> IF l # NoLease THEN "keepalive" ELSE "put"
      [] r.op = "deregister" -> "delete"
      [] r.op = "probe"      -> IF ShouldDelete(i, r.success, r.policy)
                                THEN "delete" ELSE "put"

\* What the request does next with an instance i read under lease l.
AfterGet(r, i, l) ==
    CASE r.op = "update"     -> "cas"
      [] r.op = "heartbeat"  -> IF l # NoLease THEN "keepalive" ELSE "put"
      [] r.op = "deregister" -> IF l # NoLease THEN "revoke" ELSE "delete"
      [] r.op = "probe"      -> IF ShouldDelete(i, r.success, r.policy)
                                THEN "delete" ELSE "put"

\* Heartbeats are for heartbeat instances, probe results for the others.
RightMode(r, i) ==
    /\ r.op = "heartbeat" => i.mode = "heartbeat"
    /\ r.op = "probe" => i.mode = "probe"

Get(p) ==
    /\ pc[p] = "get"
    /\ Present(Key(p))
    /\ LET found == kv[Key(p)] IN
          /\ RightMode(req[p], found.value)
          /\ inst' = [inst EXCEPT ![p] =
                        IF req[p].op = "probe"
                        THEN ApplyProbeResult(found.value, req[p].success, req[p].policy)
                        ELSE found.value]
          /\ held' = [held EXCEPT ![p] = found.lease]
          /\ Goto(p, AfterGet(req[p], found.value, found.lease))
    /\ UNCHANGED <<storeVars, nsMode, received, req>>

\* NotFound or FailedPrecondition.
GetRefused(p) ==
    /\ pc[p] = "get"
    /\ Present(Key(p)) => ~RightMode(req[p], kv[Key(p)].value)
    /\ Return(p)
    /\ UNCHANGED <<storeVars, nsMode, received>>

-----------------------------------------------------------------------------
(* Update: a compare-and-swap against the revision the caller expects.     *)

Updated(p) == [inst[p] EXCEPT !.data = req[p].data]

\* Mutant: the update is written whatever revision the caller expects.
CASInstanceUnchecked(p) ==
    /\ pc[p] = "cas"
    /\ Put(Key(p), Updated(p), held[p])
    /\ Return(p)
    /\ UNCHANGED <<nsMode, received>>

CASInstance(p) ==
    /\ pc[p] = "cas"
    /\ CAS(Key(p), req[p].expected, Updated(p), held[p])
    /\ Return(p)
    /\ UNCHANGED <<nsMode, received>>

\* Mutant: a conflict is retried with the same expected revision.
CASInstanceRetried(p) ==
    /\ pc[p] = "cas"
    /\ CASRefused(Key(p), req[p].expected, held[p])
    /\ Goto(p, "get")
    /\ UNCHANGED <<storeVars, nsMode, received, req, inst, held>>

CASInstanceRefused(p) ==
    /\ pc[p] = "cas"
    /\ CASRefused(Key(p), req[p].expected, held[p])
    /\ Return(p)
    /\ UNCHANGED <<storeVars, nsMode, received>>

-----------------------------------------------------------------------------
(* Heartbeat: refresh the lease, then write the whole record back.         *)

KeepAlive(p) ==
    /\ pc[p] = "keepalive"
    /\ LeaseUsable(held[p])
    /\ Goto(p, "put")
    /\ UNCHANGED <<storeVars, nsMode, received, req, inst, held>>

\* Mutant: a heartbeat whose lease is gone tries again.
KeepAliveRefusedRetried(p) ==
    /\ pc[p] = "keepalive"
    /\ ~LeaseUsable(held[p])
    /\ Goto(p, "keepalive")
    /\ UNCHANGED <<storeVars, nsMode, received, req, inst, held>>

KeepAliveRefused(p) ==
    /\ pc[p] = "keepalive"
    /\ ~LeaseUsable(held[p])
    /\ Return(p)
    /\ UNCHANGED <<storeVars, nsMode, received>>

\* Mutants: a status no client knows; a heartbeat that detaches the lease.
RefreshedMisspelt(p) == [inst[p] EXCEPT !.status = "healthy"]
PutLeaseDropped(p)   == NoLease

\* A heartbeat writes a healthy instance under its lease, a probe result
\* the instance the state machine returned, without a lease.
Refreshed(p) ==
    IF req[p].op = "heartbeat" THEN [inst[p] EXCEPT !.status = "health"] ELSE inst[p]

PutLease(p) == IF req[p].op = "heartbeat" THEN held[p] ELSE NoLease

PutInstance(p) ==
    /\ pc[p] = "put"
    /\ Put(Key(p), Refreshed(p), PutLease(p))
    /\ Return(p)
    /\ UNCHANGED <<nsMode, received>>

PutInstanceRefused(p) ==
    /\ pc[p] = "put"
    /\ PutRefused(PutLease(p))
    /\ Return(p)
    /\ UNCHANGED <<storeVars, nsMode, received>>

-----------------------------------------------------------------------------
(* Deregister, and a probe result that asks for deletion.                  *)

Revoke(p) ==
    /\ pc[p] = "revoke"
    /\ EndLease(held[p])
    /\ Goto(p, "delete")
    /\ UNCHANGED <<nsMode, received, req, inst, held>>

RevokeRefused(p) ==
    /\ pc[p] = "revoke"
    /\ ~LeaseUsable(held[p])
    /\ Return(p)
    /\ UNCHANGED <<storeVars, nsMode, received>>

DeleteInstance(p) ==
    /\ pc[p] = "delete"
    /\ Delete(Key(p))
    /\ Return(p)
    /\ UNCHANGED <<nsMode, received>>

DeleteNotFound(p) ==
    /\ pc[p] = "delete"
    /\ ~Present(Key(p))
    /\ Return(p)
    /\ UNCHANGED <<storeVars, nsMode, received>>

-----------------------------------------------------------------------------
(* The environment.                                                        *)

\* A lease whose holder stopped renewing it runs out.
Expire(l) ==
    /\ EndLease(l)
    /\ UNCHANGED <<nsMode, received, locals>>

\* The namespace service creates a namespace or changes its access mode.
SetAccessMode(n, m) ==
    /\ rev < MaxModeRev
    /\ nsMode[n] = "none" => m = "read_write"
    /\ nsMode' = [nsMode EXCEPT ![n] = m]
    /\ rev' = rev + 1
    /\ UNCHANGED <<kv, leases, received, locals>>

\* The server dies, the caller goes away, or the store does not answer.
\* Whether the last call took effect or not, nothing more is done.
Abort(p) ==
    /\ pc[p] # "idle"
    /\ Return(p)
    /\ UNCHANGED <<storeVars, nsMode, received>>

Arrive(p) ==
    \/ ReceiveRegister(p) \/ ReceiveUpdate(p) \/ ReceiveHeartbeat(p)
    \/ ReceiveDeregister(p) \/ ReceiveProbeResult(p)

Step(p) ==
    \/ CheckWrite(p) \/ CheckWriteRefused(p)
    \/ Grant(p) \/ CreateInstance(p) \/ CreateInstanceRefused(p)
    \/ Get(p) \/ GetRefused(p)
    \/ CASInstance(p) \/ CASInstanceRefused(p)
    \/ KeepAlive(p) \/ KeepAliveRefused(p)
    \/ PutInstance(p) \/ PutInstanceRefused(p)
    \/ Revoke(p) \/ RevokeRefused(p)
    \/ DeleteInstance(p) \/ DeleteNotFound(p)

Next ==
    \/ \E p \in Procs : Arrive(p) \/ Step(p) \/ Abort(p)
    \/ \E l \in Leases : Expire(l)
    \/ \E n \in Namespaces, m \in AccessModes : SetAccessMode(n, m)

Spec == Init /\ [][Next]_vars

-----------------------------------------------------------------------------
(* Properties.                                                             *)

PCs == {"idle", "check", "grant", "create", "get", "cas", "keepalive", "put",
        "revoke", "delete"}

\* The types of the store and of what each goroutine carries between calls.
TypeOK ==
    /\ kv \in [Keys -> [value : Instance \cup {NoValue}, mod : Nat,
                        lease : Leases \cup {NoLease}]]
    /\ rev \in Nat
    /\ leases \in [Leases -> {"free", "live", "dead"}]
    /\ nsMode \in [Namespaces -> AccessModes \cup {"none"}]
    /\ received \in Nat
    /\ pc \in [Procs -> PCs]
    /\ req \in [Procs -> Request \cup {NoRequest}]
    /\ inst \in [Procs -> Instance \cup {NoInstance}]
    /\ held \in [Procs -> Leases \cup {NoLease}]

\* The key of a stored heartbeat instance hangs on a lease, and whatever lease
\* a stored instance hangs on is alive: no rewrite of a record (Update,
\* Heartbeat, ApplyProbeResult) from an old read ever detaches a heartbeat
\* instance from its lease or revives a lease that ended.
LeaseBinding ==
    \A k \in Keys : Present(k) =>
        /\ kv[k].value.mode = "heartbeat" => kv[k].lease # NoLease
        /\ LeaseUsable(kv[k].lease)

\* No two heartbeat instances share a lease, so revoking the lease of one
\* (Deregister) or letting it expire never takes another one away, though the
\* leases and ids a client posts are its own choice.
LeaseExclusive ==
    \A l \in Leases : \A j, k \in Attached(l) :
        kv[j].value.mode = "heartbeat" /\ kv[k].value.mode = "heartbeat" => j = k

\* An Update that is acknowledged changed the mutable fields of the very
\* record that was stored until then, and nothing else of it, though the
\* record it writes was read some time before (CAS on expectedRevision).
UpdateStep(p) ==
    LET k == Key(p) IN
    (pc[p] = "cas" /\ pc'[p] # "cas" /\ kv'[k] # kv[k]) =>
        /\ Present(k)
        /\ kv'[k] = Record([kv[k].value EXCEPT !.data = req[p].data], rev', kv[k].lease)

UpdateIsAtomic == [][\A p \in Procs : UpdateStep(p)]_vars

\* When every probe result comes with the same policy, no stored instance that
\* a result was counted for since its registration is called healthy once its
\* consecutive failures reached the failure threshold, whatever counters it
\* was registered with and whatever stale reads the concurrent results,
\* updates and heartbeats wrote.
HealthyBelowThreshold ==
    \A k \in Keys, P \in Policies :
        Present(k) /\ kv[k].value.probed /\ kv[k].value.status = "health"
            => kv[k].value.fails < FailAt(P)

=============================================================================
