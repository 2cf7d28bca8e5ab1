--------------------------- MODULE InstanceWatch ---------------------------
(***************************************************************************)
(* From the registry's keys to a consumer's local cache: etcd's event log, *)
(* the watch goroutine of the store adapter (infra/etcd/store.go), the one *)
(* of the discovery service (service/discovery) and the consumer SDK       *)
(* (pkg/consumer), joined by bounded channels.                             *)
(*                                                                         *)
(* The writers are the registry's requests: here only what they leave in   *)
(* the log counts.  The HTTP and gRPC hops keep the order of the events,   *)
(* so their buffers are part of the discovery service's channel.           *)
(***************************************************************************)
EXTENDS Naturals, Sequences

CONSTANTS
    Keys,           \* instance keys under the watched prefix
    IdOf,           \* [Keys -> ids]: the last part of the key, the instanceId
    Filters,        \* values of healthyOnly that consumers ask for
    FromSnapshot,   \* the caller passes the revision after its snapshot's
                    \* newest instance (gRPC) or none (the HTTP transport)
    Compaction,     \* etcd may compact its history
    MaxFaults,      \* bound: watches that fail for another reason
    Capacity,       \* bound: events a channel holds (16 in the code)
    MaxRev          \* bound: changes of the registry

ASSUME WatchAssumption ==
    /\ Filters \subseteq BOOLEAN /\ FromSnapshot \in BOOLEAN /\ Compaction \in BOOLEAN
    /\ MaxFaults \in Nat /\ Capacity \in Nat \ {0} /\ MaxRev \in Nat

VARIABLES
    healthyOnly, \* the filter of the snapshot and of the watch
    log,        \* the changes under the prefix; the n-th has revision n
    compacted,  \* revisions up to this one can no longer be watched
    faults,     \* watches that failed
    next,       \* revision the etcd watcher sends next
    storeCh,    \* channel out of Store.Watch
    storeOpen,  \* ... not closed yet
    svcCh,      \* channel out of discovery's Watch, and the transport
    svcOpen,
    pc,         \* what the consumer does
    snap,       \* the snapshot it fetched and has not stored yet
    start,      \* the revision it will watch from, 0 for none
    cache       \* the consumer's cached instances

vars == <<healthyOnly, log, compacted, faults, next, storeCh, storeOpen, svcCh, svcOpen, pc, snap, start, cache>>
history  == <<healthyOnly, log, compacted, faults>>
pipeline == <<next, storeCh, storeOpen, svcCh, svcOpen>>
consumer == <<pc, snap, start, cache>>

Statuses == {"health", "unhealth"}

\* A deletion carries the value before it (PrevKV), hence a status too.
Event == [type : {"put", "delete"}, key : Keys, status : Statuses]
Signal == [type : {"reset", "error"}]

\* An instance as a snapshot or an event shows it.
Instance == [key : Keys, status : Statuses]

\* The revision of k's last change up to revision n, 0 if there is none.
LastChange(k, n) ==
    LET changes == {r \in 1..n : log[r].key = k}
    IN  IF changes = {} THEN 0 ELSE CHOOSE r \in changes : \A s \in changes : s <= r

Alive(k, n) == LastChange(k, n) > 0 /\ log[LastChange(k, n)].type = "put"

\* The instances stored at revision n, and those a filter lets through.
Stored(n) == {[key |-> k, status |-> log[LastChange(k, n)].status] : k \in {j \in Keys : Alive(j, n)}}
Matching(S, healthy) == {i \in S : healthy => i.status = "health"}

\* The newest revision among the instances of a snapshot.
Newest(S, n) ==
    LET revs == {LastChange(i.key, n) : i \in S}
    IN  IF revs = {} THEN 0 ELSE CHOOSE r \in revs : \A s \in revs : s <= r

Init ==
    /\ healthyOnly \in Filters
    /\ log = <<>> /\ compacted = 0 /\ faults = 0
    /\ next = 0 /\ storeCh = <<>> /\ storeOpen = FALSE
    /\ svcCh = <<>> /\ svcOpen = FALSE
    /\ pc = "sync" /\ snap = {} /\ start = 0 /\ cache = {}

-----------------------------------------------------------------------------
(* The registry's writes, and etcd's compaction of old revisions.          *)

PutInstance(k, s) ==
    /\ Len(log) < MaxRev
    /\ log' = Append(log, [type |-> "put", key |-> k, status |-> s])
    /\ UNCHANGED <<healthyOnly, compacted, faults, pipeline, consumer>>

DeleteInstance(k) ==
    /\ Len(log) < MaxRev
    /\ Alive(k, Len(log))
    /\ log' = Append(log, [type |-> "delete", key |-> k,
                           status |-> log[LastChange(k, Len(log))].status])
    /\ UNCHANGED <<healthyOnly, compacted, faults, pipeline, consumer>>

Compact ==
    /\ Compaction
    /\ \E r \in (compacted + 1)..Len(log) : compacted' = r
    /\ UNCHANGED <<healthyOnly, log, faults, pipeline, consumer>>

-----------------------------------------------------------------------------
(* Store.Watch: one goroutine forwards the etcd watch to its channel and   *)
(* closes it after an error; compaction is told apart as a reset.          *)

StoreForward ==
    /\ storeOpen
    /\ next > compacted /\ next <= Len(log)
    /\ Len(storeCh) < Capacity
    /\ storeCh' = Append(storeCh, log[next])
    /\ next' = next + 1
    /\ UNCHANGED <<history, storeOpen, svcCh, svcOpen, consumer>>

StoreEnd(signal) ==
    /\ storeOpen
    /\ Len(storeCh) < Capacity
    /\ storeCh' = Append(storeCh, [type |-> signal])
    /\ storeOpen' = FALSE
    /\ UNCHANGED <<healthyOnly, log, compacted, next, svcCh, svcOpen, consumer>>

StoreCompacted ==
    /\ next <= compacted
    /\ StoreEnd("reset")
    /\ UNCHANGED faults

StoreFailed ==
    /\ faults < MaxFaults
    /\ StoreEnd("error")
    /\ faults' = faults + 1

-----------------------------------------------------------------------------
(* discovery.Watch: one goroutine filters and forwards.  A put that does   *)
(* not pass the filter is skipped, whatever the consumer has of its key.   *)

Skipped(e) == healthyOnly /\ e.type = "put" /\ e.status # "health"

SvcSkip ==
    /\ storeCh # <<>>
    /\ Skipped(Head(storeCh))
    /\ storeCh' = Tail(storeCh)
    /\ UNCHANGED <<history, next, storeOpen, svcCh, svcOpen, consumer>>

SvcForward ==
    /\ storeCh # <<>>
    /\ Head(storeCh).type \in {"put", "delete"}
    /\ ~Skipped(Head(storeCh))
    /\ Len(svcCh) < Capacity
    /\ svcCh' = Append(svcCh, Head(storeCh))
    /\ storeCh' = Tail(storeCh)
    /\ UNCHANGED <<history, next, storeOpen, svcOpen, consumer>>

\* A reset is passed on, any other error is not; either way the stream ends.
SvcReset ==
    /\ storeCh # <<>>
    /\ Head(storeCh).type = "reset"
    /\ Len(svcCh) < Capacity
    /\ svcCh' = Append(svcCh, Head(storeCh))
    /\ storeCh' = Tail(storeCh)
    /\ svcOpen' = FALSE
    /\ UNCHANGED <<history, next, storeOpen, consumer>>

\* Mutants: the error is passed on like a reset; the stream is left open.
SvcErrorForwarded ==
    /\ storeCh # <<>>
    /\ Head(storeCh).type = "error"
    /\ svcCh' = Append(svcCh, Head(storeCh))
    /\ storeCh' = Tail(storeCh)
    /\ svcOpen' = FALSE
    /\ UNCHANGED <<history, next, storeOpen, consumer>>

SvcErrorIgnored ==
    /\ storeCh # <<>>
    /\ Head(storeCh).type = "error"
    /\ storeCh' = Tail(storeCh)
    /\ UNCHANGED <<history, next, storeOpen, svcCh, svcOpen, consumer>>

SvcError ==
    /\ storeCh # <<>>
    /\ Head(storeCh).type = "error"
    /\ storeCh' = Tail(storeCh)
    /\ svcOpen' = FALSE
    /\ UNCHANGED <<history, next, storeOpen, svcCh, consumer>>

-----------------------------------------------------------------------------
(* The consumer: Sync, then Watch until its stream ends, then again.       *)

\* Sync's read.  The server's List is one read of the prefix.
FetchSnapshot ==
    /\ pc = "sync"
    /\ snap' = Matching(Stored(Len(log)), healthyOnly)
    /\ start' = IF FromSnapshot THEN Newest(snap', Len(log)) + 1 ELSE 0
    /\ pc' = "store"
    /\ UNCHANGED <<history, pipeline, cache>>

StoreSnapshot ==
    /\ pc \in {"store", "restore"}
    /\ cache' = snap
    /\ snap' = {}
    /\ pc' = IF pc = "store" THEN "open" ELSE "watching"
    /\ UNCHANGED <<history, pipeline, start>>

\* Without a revision etcd watches from the revision the watch arrives at.
\* Mutant: the revision is taken for the last one seen.
FirstWatchedLate(revision) == IF revision > 0 THEN revision + 1 ELSE Len(log) + 1

FirstWatched(revision) == IF revision > 0 THEN revision ELSE Len(log) + 1

OpenWatch ==
    /\ pc = "open"
    /\ next' = FirstWatched(start)
    /\ storeCh' = <<>> /\ storeOpen' = TRUE
    /\ svcCh' = <<>> /\ svcOpen' = TRUE
    /\ start' = 0
    /\ pc' = "watching"
    /\ UNCHANGED <<history, snap, cache>>

\* The instances of the cache without those called id.
Without(S, id) == {i \in S : IdOf[i.key] # id}

Applied(S, e) ==
    Without(S, IdOf[e.key]) \cup
        (IF e.type = "put" THEN {[key |-> e.key, status |-> e.status]} ELSE {})

ApplyEvent ==
    /\ pc = "watching"
    /\ svcCh # <<>>
    /\ Head(svcCh).type # "reset"
    /\ cache' = Applied(cache, Head(svcCh))
    /\ svcCh' = Tail(svcCh)
    /\ UNCHANGED <<history, next, storeCh, storeOpen, svcOpen, pc, snap, start>>

\* On a reset ApplyEvent syncs with the default filter before it goes on.
ApplyReset ==
    /\ pc = "watching"
    /\ svcCh # <<>>
    /\ Head(svcCh).type = "reset"
    /\ snap' = Matching(Stored(Len(log)), TRUE)
    /\ svcCh' = Tail(svcCh)
    /\ pc' = "restore"
    /\ UNCHANGED <<history, next, storeCh, storeOpen, svcOpen, start, cache>>

\* Watch returns when the stream is closed, and the caller starts over.
WatchReturns ==
    /\ pc = "watching"
    /\ svcCh = <<>> /\ ~svcOpen
    /\ pc' = "sync"
    /\ UNCHANGED <<history, pipeline, snap, start, cache>>

Forwarding == StoreForward \/ StoreCompacted \/ SvcSkip \/ SvcForward \/ SvcReset \/ SvcError

Consuming ==
    FetchSnapshot \/ StoreSnapshot \/ OpenWatch \/ ApplyEvent \/ ApplyReset \/ WatchReturns

Next ==
    \/ \E k \in Keys : DeleteInstance(k) \/ \E s \in Statuses : PutInstance(k, s)
    \/ Compact \/ StoreFailed
    \/ Forwarding
    \/ Consuming

Spec == Init /\ [][Next]_vars

\* The goroutines and the consumer's loop go on; writes and faults need not.
FairSpec == Spec /\ WF_vars(Forwarding) /\ WF_vars(Consuming)

-----------------------------------------------------------------------------

TypeOK ==
    /\ healthyOnly \in Filters
    /\ log \in Seq(Event) /\ compacted \in 0..Len(log) /\ faults \in Nat
    /\ next \in Nat
    /\ storeCh \in Seq(Event \cup Signal) /\ storeOpen \in BOOLEAN
    /\ svcCh \in Seq(Event \cup [type : {"reset"}]) /\ svcOpen \in BOOLEAN
    /\ pc \in {"sync", "store", "open", "watching", "restore"}
    /\ snap \subseteq Instance /\ start \in Nat
    /\ cache \subseteq Instance

\* The stream is up and every change so far has come through it.
CaughtUp ==
    /\ pc = "watching" /\ storeOpen /\ svcOpen
    /\ storeCh = <<>> /\ svcCh = <<>>
    /\ next > Len(log)

Current == Matching(Stored(Len(log)), healthyOnly)

\* A consumer that caught up has exactly the instances its filter asks for in
\* their present state (pkg/consumer: "a local cache backed by discovery
\* snapshot and watch streams").
CaughtUpIsCurrent == CaughtUp => cache = Current

\* A consumer of all instances does: whatever happened between its snapshot
\* and its watch, across compactions, rebuilds and failed streams.
UnfilteredIsCurrent == ~healthyOnly => CaughtUpIsCurrent

\* What the cache holds is at worst too much: a consumer that caught up knows
\* every instance that matches its filter.
CaughtUpIsComplete == CaughtUp => Current \subseteq cache

\* A consumer that asked for healthy instances is never shown another one.
OnlyAskedFor == healthyOnly => \A i \in cache : i.status = "health"

\* What a consumer that caught up may rely on, under either filter.
CaughtUpAsAsked == UnfilteredIsCurrent /\ CaughtUpIsComplete /\ OnlyAskedFor

\* Once the registry is quiet and the faults are over, the cache of such a
\* consumer settles on what is stored, unless its history was compacted: then
\* each rebuild uses the default filter, and a stale revision is reset again.
CacheSettles == <>[](~healthyOnly /\ compacted = 0 => cache = Current)

=============================================================================
