--------------------------- MODULE RegistryTable ---------------------------
(***************************************************************************)
(* Registry beside the table of instances it implements.  seen is the      *)
(* Revision that decodeInstance leaves in the instance a request has in    *)
(* hand: it tells which requests are outdated.                             *)
(***************************************************************************)
EXTENDS RegistryInv

VARIABLE seen       \* [Procs -> Nat]: revision of the record that was read

seenVars == <<vars, seen>>

SeenInit == Init /\ seen = [p \in Procs |-> 0]

SeenNext ==
    /\ Next
    /\ seen' = [p \in Procs |->
                  IF pc'[p] = "idle" THEN 0
                  ELSE IF pc[p] = "get" THEN kv[Key(p)].mod ELSE seen[p]]

SeenSpec == SeenInit /\ [][SeenNext]_seenVars

\* What the last call of a request that has read its key does to the key.
LastCall(p) ==
    CASE pc[p] \in {"keepalive", "put"} -> "put"
      [] pc[p] \in {"revoke", "delete"} -> "delete"
      [] OTHER                          -> "none"

Behind == {<<Key(p), LastCall(p)>> : p \in {q \in Procs :
              LastCall(q) # "none" /\ kv[Key(q)].mod # seen[q]}}

Table == INSTANCE InstanceTable WITH behind <- Behind

\* Interleaved call by call, the requests are transactions on the table of
\* instances, except that one whose key was written since its read may
\* overwrite it (Heartbeat, Deregister, ApplyProbeResult end in an
\* unconditional Put or Delete).
IsInstanceTable == Table!Spec

-----------------------------------------------------------------------------
(* The invariant behind it: a request that is not behind has the stored    *)
(* record in hand.                                                         *)

UpToDate(p) ==
    LET found == kv[Key(p)] IN
    /\ pc[p] \in {"keepalive", "put"} /\ req[p].op = "heartbeat" =>
          inst[p] = found.value /\ held[p] = found.lease
    /\ pc[p] = "put" /\ req[p].op = "probe" =>
          /\ found.value.mode = "probe"
          /\ ~ShouldDelete(found.value, req[p].success, req[p].policy)
          /\ inst[p] = ApplyProbeResult(found.value, req[p].success, req[p].policy)
    /\ pc[p] = "delete" /\ req[p].op = "probe" =>
          /\ found.value.mode = "probe"
          /\ ShouldDelete(found.value, req[p].success, req[p].policy)
    /\ pc[p] = "revoke" => held[p] = found.lease
    /\ pc[p] = "delete" /\ req[p].op = "deregister" => found.lease = NoLease

Seen(p) ==
    /\ seen[p] \in 0..rev
    /\ LastCall(p) # "none" =>
          seen[p] > 0 /\ (kv[Key(p)].mod = seen[p] => UpToDate(p))

\* No result was counted yet for what is being registered, whatever counters
\* the client posted with it.
Fresh(p) ==
    /\ pc[p] = "check" /\ req[p].op = "register" => ~req[p].inst.probed
    /\ pc[p] \in {"grant", "create"} => ~inst[p].probed

SeenInv == \A p \in Procs : Seen(p) /\ Fresh(p)

=============================================================================
