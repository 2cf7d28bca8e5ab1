--------------------------- MODULE InstanceTable ---------------------------
(***************************************************************************)
(* What the registry service promises: a table of instances in which each  *)
(* request is one transaction.  The promise has a limit that the code      *)
(* draws itself: a heartbeat, a deregistration and a probe result end in   *)
(* an unconditional write, so a request whose key was written since it     *)
(* read it may replace or delete what is stored now.  Such keys are        *)
(* behind, and only they suffer it; an Update never does.                  *)
(***************************************************************************)
EXTENDS EtcdStore, Health

CONSTANTS Modes, Data, Policies

VARIABLE
    behind      \* the outdated requests: pairs of a key and what they do to it

tableVars == <<storeVars, behind>>

Instance == [mode : Modes, status : {"health", "unhealth"}, data : Data, born : Nat,
             fails : Int, succs : Int, probed : BOOLEAN]

Init ==
    /\ StoreInit
    /\ behind = {}

\* A heartbeat instance lives on a lease that no other one lives on.  Any other
\* instance may be registered on a lease too, even on theirs, and dies with it.
Fits(k, i, l) ==
    i.mode = "heartbeat" =>
        /\ l # NoLease
        /\ \A j \in Attached(l) : kv[j].value.mode = "heartbeat" => j = k

\* What is written is the requester's choice, counters included, within these
\* limits.
Register(k) ==
    LET i == kv'[k].value  l == kv'[k].lease IN
    /\ i \in Instance /\ ~i.probed
    /\ Fits(k, i, l)
    /\ Create(k, i, l)

Update(k, d) ==
    /\ Present(k)
    /\ Put(k, [kv[k].value EXCEPT !.data = d], kv[k].lease)

Heartbeat(k) ==
    /\ Present(k)
    /\ kv[k].value.mode = "heartbeat"
    /\ Put(k, [kv[k].value EXCEPT !.status = "health"], kv[k].lease)

CountedProbe(k, ok, P) ==
    /\ Present(k)
    /\ kv[k].value.mode = "probe"
    /\ ~ShouldDelete(kv[k].value, ok, P)
    /\ Put(k, ApplyProbeResult(kv[k].value, ok, P), NoLease)

LastProbe(k, P) ==
    /\ Present(k)
    /\ kv[k].value.mode = "probe"
    /\ ShouldDelete(kv[k].value, FALSE, P)
    /\ Delete(k)

\* A key that hangs on a lease is deregistered with the lease, and so is every
\* other key on it.
Deregister(k) ==
    /\ kv[k].lease = NoLease
    /\ Delete(k)

\* An outdated request writes what it made of the record it once read: a probe
\* result without a lease, whatever the record hung on.
Overwrite(k) ==
    LET i == kv'[k].value  l == kv'[k].lease IN
    /\ <<k, "put">> \in behind
    /\ i \in Instance
    /\ Fits(k, i, l)
    /\ i.mode = "probe" => l = NoLease
    /\ Put(k, i, l)

OverwriteDelete(k) ==
    /\ <<k, "delete">> \in behind
    /\ Delete(k)

\* Changes elsewhere in the store: the namespaces.
Elsewhere ==
    /\ rev' = rev + 1
    /\ UNCHANGED <<kv, leases>>

Transaction ==
    \/ UNCHANGED storeVars
    \/ \E k \in Keys :
          \/ Register(k) \/ Heartbeat(k) \/ Deregister(k)
          \/ Overwrite(k) \/ OverwriteDelete(k)
    \/ \E k \in Keys, d \in Data : Update(k, d)
    \/ \E k \in Keys, P \in Policies :
          LastProbe(k, P) \/ \E ok \in BOOLEAN : CountedProbe(k, ok, P)
    \/ \E l \in Leases : GrantLease(l) \/ EndLease(l)
    \/ Elsewhere

\* A request falls behind only when another one writes its key.
Next ==
    /\ Transaction
    /\ \A b \in behind' : b \in behind \/ kv'[b[1]] # kv[b[1]]

Spec == Init /\ [][Next]_tableVars

=============================================================================
