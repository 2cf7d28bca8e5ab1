----------------------------- MODULE EtcdStore -----------------------------
(***************************************************************************)
(* The key/value port of etcdisc as the etcd adapter implements it         *)
(* (internal/infra/etcd/store.go).  Every operation is one etcd request,   *)
(* hence one atomic step: the services that EXTEND this module compose     *)
(* these steps, and everything between two of them is open to others.      *)
(*                                                                         *)
(* etcd itself is external.  What the adapter relies on is modelled: one   *)
(* revision for the whole store, a modification revision and an attached   *)
(* lease for every key, revision 0 for a key that is not there, and leases *)
(* whose end deletes every key attached to them in the same transaction.   *)
(***************************************************************************)
EXTENDS Naturals

CONSTANTS
    Keys,       \* the keys of the component that uses the store
    Leases,     \* the lease ids etcd may hand out, each at most once
    NoLease,    \* lease id 0: the key outlives its writer
    NoValue     \* stands for the value of a key that is not there

ASSUME LeaseAssumption == NoLease \notin Leases

VARIABLES
    kv,         \* [Keys -> record]: value, modification revision, lease
    rev,        \* revision of the last transaction that changed a key
    leases      \* [Leases -> {"free", "live", "dead"}]

storeVars == <<kv, rev, leases>>

Record(v, m, l) == [value |-> v, mod |-> m, lease |-> l]
Missing         == Record(NoValue, 0, NoLease)

Present(k)  == kv[k].mod > 0
Attached(l) == {k \in Keys : Present(k) /\ kv[k].lease = l}

\* etcd rejects a write that names a lease it does not know (any more).
LeaseUsable(l) == l = NoLease \/ (l \in Leases /\ leases[l] = "live")

StoreInit ==
    /\ kv = [k \in Keys |-> Missing]
    /\ rev = 1
    /\ leases = [l \in Leases |-> "free"]

-----------------------------------------------------------------------------
(* Writes: the new revision becomes the key's modification revision, and   *)
(* the lease named by the write (or none) replaces the one attached.       *)

WriteKey(k, v, l) ==
    /\ kv' = [kv EXCEPT ![k] = Record(v, rev + 1, l)]
    /\ rev' = rev + 1
    /\ UNCHANGED leases

EraseKeys(K) ==
    /\ kv' = [k \in Keys |-> IF k \in K THEN Missing ELSE kv[k]]
    /\ rev' = IF K = {} THEN rev ELSE rev + 1

Create(k, v, l) ==
    /\ ~Present(k)
    /\ LeaseUsable(l)
    /\ WriteKey(k, v, l)

CreateRefused(k, l) == Present(k) \/ ~LeaseUsable(l)

Put(k, v, l) ==
    /\ LeaseUsable(l)
    /\ WriteKey(k, v, l)

PutRefused(l) == ~LeaseUsable(l)

CAS(k, expected, v, l) ==
    /\ kv[k].mod = expected
    /\ LeaseUsable(l)
    /\ WriteKey(k, v, l)

CASRefused(k, expected, l) == kv[k].mod # expected \/ ~LeaseUsable(l)

Delete(k) ==
    /\ Present(k)
    /\ EraseKeys({k})
    /\ UNCHANGED leases

DeleteCAS(k, expected) ==
    /\ kv[k].mod = expected
    /\ EraseKeys({k})
    /\ UNCHANGED leases

-----------------------------------------------------------------------------
(* Leases.                                                                 *)

GrantLease(l) ==
    /\ leases[l] = "free"
    /\ leases' = [leases EXCEPT ![l] = "live"]
    /\ UNCHANGED <<kv, rev>>

\* A revoke or an expiry: the lease and the keys attached to it go together.
EndLease(l) ==
    /\ leases[l] = "live"
    /\ leases' = [leases EXCEPT ![l] = "dead"]
    /\ EraseKeys(Attached(l))

=============================================================================
