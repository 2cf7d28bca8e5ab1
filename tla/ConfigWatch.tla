---------------------------- MODULE ConfigWatch ----------------------------
(***************************************************************************)
(* From the config items to the Config SDK's cache: one goroutine of       *)
(* config.Watch for each of the three scopes forwards the store's watch of *)
(* its prefix into one shared channel (service/config), and the SDK's      *)
(* client (pkg/configsdk) applies what comes out.                          *)
(*                                                                         *)
(* One config key is followed: the cache is a map, and what happens to one *)
(* key of it does not depend on the others.  The channel between a store   *)
(* watch and its goroutine only adds to the goroutine's delay.  The        *)
(* namespace stays readable: its access modes are Config's business.       *)
(***************************************************************************)
EXTENDS Naturals, Sequences

CONSTANTS
    Values, NoValue,
    Writable,       \* scopes that are published to
    Initially,      \* [scopes -> Values or NoValue]: items published before
    Transports,     \* what an SDK may be built with: "grpc", "http"
    Compaction,     \* etcd may compact its history
    MaxFaults,      \* bound: store watches that fail for another reason, and
                    \* requests that are answered with an error
    Capacity,       \* bound: events the shared channel holds (32 in the code)
    MaxRev          \* bound: changes

Scopes == {"global", "namespace", "service"}

ASSUME ConfigWatchAssumption ==
    /\ NoValue \notin Values
    /\ Writable \subseteq Scopes
    /\ Initially \in [Scopes -> Values \cup {NoValue}]
    /\ Transports \subseteq {"grpc", "http"} /\ Compaction \in BOOLEAN
    /\ MaxFaults \in Nat /\ Capacity \in Nat \ {0} /\ MaxRev \in Nat

VARIABLES
    log,        \* the changes of the three prefixes; the n-th has revision n
    items,      \* [Scopes -> Values or NoValue]: what is stored
    compacted,  \* revisions up to this one can no longer be watched
    faults,     \* store watches and requests that failed
    next,       \* [Scopes -> revision that goroutine reads next]
    alive,      \* scopes whose goroutine still runs
    out,        \* the shared channel, and the transport behind it
    transport,  \* what the SDK was built with
    pc,         \* what the SDK does
    known,      \* a revision the caller knows, for its next watch
    streaming,  \* the SDK has a stream open
    snap,       \* the effective item Resolve found so far
    cache       \* the effective item cached

history  == <<log, items, compacted, faults>>
pipeline == <<next, alive, out>>
sdk      == <<transport, pc, known, streaming, snap, cache>>
vars     == <<history, pipeline, sdk>>

Item   == [scope : Scopes, value : Values]
NoItem == [scope |-> "none", value |-> NoValue]

\* A deletion carries the item before it; the SDK does not look at it.
Event == [type : {"put"}, scope : Scopes, value : Values]
    \cup [type : {"delete"}, scope : Scopes]
    \cup [type : {"reset"}, scope : Scopes]

Overlay(below, scope) ==
    IF items[scope] = NoValue THEN below ELSE [scope |-> scope, value |-> items[scope]]

Effective == Overlay(Overlay(Overlay(NoItem, "global"), "namespace"), "service")

Init ==
    /\ log = <<>> /\ items = Initially /\ compacted = 0 /\ faults = 0
    /\ next = [s \in Scopes |-> 1] /\ alive = {} /\ out = <<>>
    /\ transport \in Transports
    /\ pc = "idle" /\ known = 0 /\ streaming = FALSE /\ snap = NoItem /\ cache = NoItem

-----------------------------------------------------------------------------
(* The config service's writes, and etcd's compaction.                     *)

PutItem(s, v) ==
    /\ s \in Writable /\ Len(log) < MaxRev
    /\ log' = Append(log, [type |-> "put", scope |-> s, value |-> v])
    /\ items' = [items EXCEPT ![s] = v]
    /\ UNCHANGED <<compacted, faults, pipeline, sdk>>

DeleteItem(s) ==
    /\ s \in Writable /\ Len(log) < MaxRev
    /\ items[s] # NoValue
    /\ log' = Append(log, [type |-> "delete", scope |-> s])
    /\ items' = [items EXCEPT ![s] = NoValue]
    /\ UNCHANGED <<compacted, faults, pipeline, sdk>>

Compact ==
    /\ Compaction
    /\ \E r \in (compacted + 1)..Len(log) : compacted' = r
    /\ UNCHANGED <<log, items, faults, pipeline, sdk>>

-----------------------------------------------------------------------------
(* config.Watch: the goroutine of one scope.                               *)

\* The next change of a scope's prefix that its goroutine has not read.
Pending(s) == {r \in next[s]..Len(log) : log[r].scope = s}
Earliest(S) == CHOOSE r \in S : \A q \in S : r <= q

\* Mutant: a deletion is not forwarded.
ForwardSkippingDeletes(s) ==
    /\ s \in alive
    /\ next[s] > compacted
    /\ Pending(s) # {}
    /\ Len(out) < Capacity
    /\ out' = IF log[Earliest(Pending(s))].type = "put"
              THEN Append(out, log[Earliest(Pending(s))]) ELSE out
    /\ next' = [next EXCEPT ![s] = Earliest(Pending(s)) + 1]
    /\ UNCHANGED <<history, alive, sdk>>

Forward(s) ==
    /\ s \in alive
    /\ next[s] > compacted
    /\ Pending(s) # {}
    /\ Len(out) < Capacity
    /\ out' = Append(out, log[Earliest(Pending(s))])
    /\ next' = [next EXCEPT ![s] = Earliest(Pending(s)) + 1]
    /\ UNCHANGED <<history, alive, sdk>>

\* A reset is passed on, any other error is not; either way this goroutine
\* ends, and only this one: the channel stays open until all three ended.
Reset(s) ==
    /\ s \in alive
    /\ next[s] <= compacted
    /\ Len(out) < Capacity
    /\ out' = Append(out, [type |-> "reset", scope |-> s])
    /\ alive' = alive \ {s}
    /\ UNCHANGED <<history, next, sdk>>

Fail(s) ==
    /\ s \in alive
    /\ faults < MaxFaults
    /\ faults' = faults + 1
    /\ alive' = alive \ {s}
    /\ UNCHANGED <<log, items, compacted, next, out, sdk>>

\* An idle watcher has seen all there is: compaction no longer concerns it.
Advance(s) ==
    /\ s \in alive
    /\ next[s] > compacted /\ next[s] <= Len(log)
    /\ Pending(s) = {}
    /\ next' = [next EXCEPT ![s] = Len(log) + 1]
    /\ UNCHANGED <<history, alive, out, sdk>>

-----------------------------------------------------------------------------
(* The SDK: Sync, which is Resolve and its three reads, then Watch.        *)

StartSync ==
    /\ pc = "idle"
    /\ known' = Len(log) + 1
    /\ pc' = "global"
    /\ UNCHANGED <<history, pipeline, transport, streaming, snap, cache>>

ListScope ==
    /\ pc \in Scopes
    /\ snap' = Overlay(snap, pc)
    /\ pc' = CASE pc = "global"    -> "namespace"
               [] pc = "namespace" -> "service"
               [] pc = "service"   -> "store"
    /\ UNCHANGED <<history, pipeline, transport, known, streaming, cache>>

\* Resolve may fail.  Over HTTP the SDK does not look at the status: the error
\* is decoded as a snapshot without items.
ErrorOverHTTP ==
    /\ pc \in Scopes /\ transport = "http"
    /\ faults < MaxFaults
    /\ faults' = faults + 1
    /\ snap' = NoItem
    /\ pc' = "store"
    /\ UNCHANGED <<log, items, compacted, pipeline, transport, known, streaming, cache>>

\* Over gRPC Sync returns the error, and so does a Watch that called it; the
\* caller gives up its context, and the stream with it, and starts over.
ErrorOverGRPC ==
    /\ pc \in Scopes /\ transport = "grpc"
    /\ faults < MaxFaults
    /\ faults' = faults + 1
    /\ snap' = NoItem
    /\ pc' = "idle" /\ streaming' = FALSE
    /\ alive' = {} /\ out' = <<>>
    /\ UNCHANGED <<log, items, compacted, next, transport, known, cache>>

StoreSnapshot ==
    /\ pc = "store"
    /\ cache' = snap
    /\ snap' = NoItem
    /\ pc' = IF streaming THEN "watching" ELSE "open"
    /\ UNCHANGED <<history, pipeline, transport, known, streaming>>

\* Mutant: the revision is taken for the last one the caller has seen.
FirstWatchedLate(revision) == IF revision > 0 THEN revision + 1 ELSE Len(log) + 1

FirstWatched(revision) == IF revision > 0 THEN revision ELSE Len(log) + 1

\* Without a revision etcd watches from the one that the watch arrives at.
OpenWatch(revision) ==
    /\ pc = "open"
    /\ next' = [s \in Scopes |-> FirstWatched(revision)]
    /\ alive' = Scopes
    /\ out' = <<>>
    /\ streaming' = TRUE
    /\ known' = 0
    /\ pc' = "watching"
    /\ UNCHANGED <<history, transport, snap, cache>>

\* The caller asks for the changes since it began to sync; the HTTP transport
\* does not send the revision.
OpenOverHTTP == transport = "http" /\ OpenWatch(0)
OpenOverGRPC == transport = "grpc" /\ OpenWatch(known)

ApplyPut ==
    /\ pc = "watching"
    /\ out # <<>> /\ Head(out).type = "put"
    /\ cache' = [scope |-> Head(out).scope, value |-> Head(out).value]
    /\ out' = Tail(out)
    /\ UNCHANGED <<history, next, alive, transport, pc, known, streaming, snap>>

\* After a deletion or a reset ApplyEvent syncs before it reads on.
\* Mutant: the item is dropped and nothing is read in its place.
ApplyDeleteOnly ==
    /\ pc = "watching"
    /\ out # <<>> /\ Head(out).type # "put"
    /\ cache' = NoItem
    /\ out' = Tail(out)
    /\ UNCHANGED <<history, next, alive, transport, pc, known, streaming, snap>>

ApplyResync ==
    /\ pc = "watching"
    /\ out # <<>> /\ Head(out).type # "put"
    /\ out' = Tail(out)
    /\ pc' = "global"
    /\ UNCHANGED <<history, next, alive, transport, known, streaming, snap, cache>>

\* The stream closes after all three goroutines ended; the caller starts over.
WatchReturns ==
    /\ pc = "watching"
    /\ alive = {} /\ out = <<>>
    /\ streaming' = FALSE
    /\ pc' = "idle"
    /\ UNCHANGED <<history, pipeline, transport, known, snap, cache>>

Forwarding(s) == Forward(s) \/ Reset(s) \/ Advance(s)

Consuming ==
    \/ StartSync \/ ListScope \/ StoreSnapshot \/ OpenOverHTTP \/ OpenOverGRPC
    \/ ApplyPut \/ ApplyResync \/ WatchReturns

Next ==
    \/ \E s \in Scopes : DeleteItem(s) \/ \E v \in Values : PutItem(s, v)
    \/ Compact
    \/ \E s \in Scopes : Forwarding(s) \/ Fail(s)
    \/ Consuming \/ ErrorOverHTTP \/ ErrorOverGRPC

Spec == Init /\ [][Next]_vars

\* Each goroutine and the caller's loop go on; writes and faults need not.
FairSpec == Spec /\ WF_vars(Consuming) /\ \A s \in Scopes : WF_vars(Forwarding(s))

-----------------------------------------------------------------------------

TypeOK ==
    /\ log \in Seq(Event) /\ items \in [Scopes -> Values \cup {NoValue}]
    /\ compacted \in 0..Len(log) /\ faults \in Nat
    /\ next \in [Scopes -> 1..(Len(log) + 1)] /\ alive \subseteq Scopes
    /\ out \in Seq(Event)
    /\ transport \in Transports
    /\ pc \in {"idle", "store", "open", "watching"} \cup Scopes
    /\ known \in Nat /\ streaming \in BOOLEAN
    /\ snap \in Item \cup {NoItem} /\ cache \in Item \cup {NoItem}

\* The SDK waits on an open stream and nothing is under way to it.
Waiting ==
    /\ pc = "watching" /\ out = <<>>
    /\ alive # {}
    /\ \A s \in alive : Pending(s) = {} /\ next[s] > compacted

\* Over gRPC, an SDK that waits on a whole stream has the effective item of
\* the present moment cached: across what was published between its sync and
\* its watch, deletions that fall back to an upper scope, resyncs that
\* overtake the events behind them, compactions, failed watches and requests
\* answered with an error.
CaughtUpIsCurrent ==
    Waiting /\ alive = Scopes /\ transport = "grpc" => cache = Effective

\* The same over HTTP.
CaughtUpOverHTTP ==
    Waiting /\ alive = Scopes /\ transport = "http" => cache = Effective

\* The same for every open stream (configsdk: "Watch applies config watch
\* events until the context ends or the stream closes").
OpenStreamIsCurrent == Waiting /\ transport = "grpc" => cache = Effective

\* Once publishing stops, the cache settles on the effective item, unless a
\* scope's goroutine ended: then its changes no longer come.
CacheSettles == <>[](compacted = 0 /\ faults = 0 /\ transport = "grpc" => cache = Effective)

=============================================================================
