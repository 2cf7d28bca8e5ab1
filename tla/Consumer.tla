------------------------------ MODULE Consumer ------------------------------
(***************************************************************************)
(* The consumer SDK (pkg/consumer): one service's cache, filled by Sync    *)
(* and kept by Watch over HTTP or gRPC, and the goroutines that pick from  *)
(* it.  The channels between etcd and the consumer, compaction and broken  *)
(* streams are in InstanceWatch; here it is what the instances look like   *)
(* when they arrive, in which order they stand and what is picked.         *)
(***************************************************************************)
EXTENDS Catalog

CONSTANTS
    Asked,          \* the namespace and the service this consumer asks for
    Filters,        \* filters it may ask with
    Transports,     \* of "http" and "grpc"
    Pickers,        \* goroutines that pick round robin
    HashKeys, Score,\* Score[h][e]: the hash of key h with endpoint e
    Concurrent,     \* Sync may run beside Watch
    MaxTurns,       \* bound: picks
    MaxFaults       \* bound: answers that are errors

\* Where instances may be reached: a port may be cut on its way over gRPC.
Endpoints ==
    UNION {{<<i.address, i.port>>, <<i.address, Int32(i.port)>>} : i \in Registrations}

ASSUME ConsumerAssumption ==
    /\ Asked \in [namespace : Seq(STRING), service : Seq(STRING)]
    /\ ValidNamespaceName(Asked.namespace) /\ ValidServiceName(Asked.service)
    /\ \A f \in Filters :
          f \in [group : STRING, version : STRING, metadata : {f.metadata}, healthyOnly : {Nil} \cup BOOLEAN]
    /\ Transports \subseteq {"http", "grpc"} /\ Concurrent \in BOOLEAN
    /\ MaxTurns \in Nat /\ MaxFaults \in Nat /\ IsFiniteSet(Pickers)
    \* A 64-bit hash hardly collides.
    /\ \A h \in HashKeys :
          /\ Score[h] \in [Endpoints -> Nat]
          /\ \A e, f \in Endpoints : Score[h][e] = Score[h][f] => e = f

VARIABLES
    over,       \* the transport
    filter,
    watching,   \* Watch has its stream
    answer,     \* what Sync received and has not stored yet
    cache,      \* a sequence: Pick depends on the order
    next,       \* the revision the stream goes on from
    turn,       \* the round-robin counter
    held,       \* the copy of the cache each picker works on
    faults,
    asOf,       \* history: revision the cache was read at, 0 after events
    picks,      \* history: turns each place of the cache had since it changed
    late        \* history: turns taken since with a copy of an older cache

view  == <<over, filter, watching, answer, next>>
picker == <<turn, held, late>>
vars == <<catalogVars, view, cache, picker, faults, asOf, picks>>

Init ==
    /\ CatalogInit
    /\ over \in Transports /\ filter \in Filters
    /\ watching = FALSE /\ answer = Nil /\ cache = <<>> /\ next = 0
    /\ turn = 0 /\ held = [p \in Pickers |-> <<>>]
    /\ faults = 0 /\ asOf = 0 /\ picks = <<>> /\ late = 0

Serve ==
    /\ Write
    /\ UNCHANGED <<view, cache, picker, faults, asOf, picks>>

-----------------------------------------------------------------------------
(* Sync, in two steps: the answer, and its place in the cache.             *)

\* HTTP carries neither filter nor revision.
Request(f) == IF over = "http" THEN NoFilter ELSE FilterOverWire(f)

ItemsOverWire(items) ==
    IF over = "http" THEN items
    ELSE [j \in DOMAIN items |-> InstanceOverWire(items[j])]

MaySync == answer = Nil /\ (~watching \/ Concurrent)

Fetch ==
    /\ MaySync
    /\ answer' = [items |-> ItemsOverWire(Snapshot(Asked.namespace, Asked.service, Request(filter))),
                  asOf  |-> rev]
    /\ UNCHANGED <<catalogVars, over, filter, watching, next, cache, picker, faults, asOf, picks>>

\* Over gRPC Sync returns the error.  Over HTTP the status is not looked at,
\* and the body of an error has no items.
FetchError ==
    /\ MaySync
    /\ faults < MaxFaults
    /\ faults' = faults + 1
    /\ answer' = IF over = "http" THEN [items |-> <<>>, asOf |-> 0] ELSE Nil
    /\ UNCHANGED <<catalogVars, over, filter, watching, next, cache, picker, asOf, picks>>

\* The cache becomes items: the places are counted anew.
Cached(items) ==
    /\ cache' = items
    /\ picks' = [j \in DOMAIN items |-> 0]
    /\ late' = 0

Sync ==
    /\ answer # Nil
    /\ Cached(answer.items)
    /\ asOf' = answer.asOf
    /\ answer' = Nil
    /\ UNCHANGED <<catalogVars, over, filter, watching, next, turn, held, faults>>

-----------------------------------------------------------------------------
(* Watch: the caller goes on from the newest instance it has.              *)

Newest(items) ==
    LET revisions == {items[j].revision : j \in DOMAIN items}
    IN  CHOOSE r \in revisions \cup {0} : \A s \in revisions : s <= r

OpenWatch ==
    /\ ~watching /\ answer = Nil
    /\ watching' = TRUE
    /\ next' = IF over = "http" THEN rev + 1 ELSE Newest(cache) + 1
    /\ UNCHANGED <<catalogVars, over, filter, answer, cache, picker, faults, asOf, picks>>

\* The stream knows no filter but healthyOnly, which HTTP does not carry.
WatchedHealthyOnly == HealthyOnly(Request(filter))

Skipped(e) ==
    /\ WatchedHealthyOnly
    /\ e.type = "put" /\ e.value.status # "health"

Coming ==
    {n \in DOMAIN log :
        /\ Revision(n) >= next
        /\ Covers(Prefix(Asked.namespace, Asked.service), log[n].key)
        /\ ~Skipped(log[n])}

Applied(items, e) ==
    LET others == Selected(items, {items[j] : j \in {k \in DOMAIN items : items[k].instanceId # e.value.instanceId}})
    IN  IF e.type = "put" THEN Append(others, e.value) ELSE others

ApplyEvent ==
    /\ watching
    /\ \E n \in Coming :
          /\ \A m \in Coming : n <= m
          /\ Cached(Applied(cache, log[n]))
          /\ next' = Revision(n) + 1
    /\ asOf' = 0
    /\ UNCHANGED <<catalogVars, over, filter, watching, answer, turn, held, faults>>

\* Watch returns with its stream, and the caller starts over.
WatchReturns ==
    /\ watching /\ faults < MaxFaults
    /\ faults' = faults + 1
    /\ watching' = FALSE /\ next' = 0
    /\ UNCHANGED <<catalogVars, over, filter, answer, cache, picker, asOf, picks>>

-----------------------------------------------------------------------------
(* Pick.  Round robin copies the cache and takes its turn in two critical  *)
(* sections; the other strategies choose from the copy alone.              *)

CopyCache(p) ==
    /\ held[p] = <<>> /\ cache # <<>>
    /\ turn < MaxTurns
    /\ held' = [held EXCEPT ![p] = cache]
    /\ UNCHANGED <<catalogVars, view, cache, turn, late, faults, asOf, picks>>

\* Mutant: two callers may be given one turn.
AdvanceTwice(n) == n + 2

Advance(n) == n + 1

TakeTurn(p) ==
    /\ held[p] # <<>>
    /\ turn' = Advance(turn)
    /\ held' = [held EXCEPT ![p] = <<>>]
    /\ IF held[p] = cache
       THEN LET place == (turn % Len(cache)) + 1
            IN  picks' = [picks EXCEPT ![place] = @ + 1] /\ late' = late
       ELSE late' = late + 1 /\ picks' = picks
    /\ UNCHANGED <<catalogVars, view, cache, faults, asOf>>

\* The weights of the first n instances together.
WeightOf(items, n) ==
    LET sum[k \in 0..Len(items)] == IF k = 0 THEN 0 ELSE sum[k - 1] + items[k].weight
    IN  sum[n]

\* The place that the number drawn, below the sum of all weights, falls on.
WeightedPick(items, pick) ==
    CHOOSE j \in DOMAIN items :
        pick < WeightOf(items, j) /\ \A k \in 1..(j - 1) : pick >= WeightOf(items, k)

ScoreAt(items, h, j) == Score[h][Endpoint(items[j])]

HashPick(items, h) ==
    LET best == CHOOSE j \in DOMAIN items :
                   \A k \in DOMAIN items :
                      \/ ScoreAt(items, h, j) < ScoreAt(items, h, k)
                      \/ ScoreAt(items, h, j) = ScoreAt(items, h, k) /\ j <= k
    IN  items[best]

Next ==
    \/ Serve
    \/ Fetch \/ FetchError \/ Sync
    \/ OpenWatch \/ ApplyEvent \/ WatchReturns
    \/ \E p \in Pickers : CopyCache(p) \/ TakeTurn(p)

Spec == Init /\ [][Next]_vars

-----------------------------------------------------------------------------

Instances == {cache[j] : j \in DOMAIN cache}

\* Every map read back from the store is there, if only without entries; over
\* gRPC a map without entries does not arrive.
ConsumerTypeOK ==
    /\ \A k \in Keys : Present(k) => kv[k].value.metadata # Nil
    /\ over = "http" => \A i \in Instances : i.metadata # Nil
    /\ over \in Transports /\ filter \in Filters /\ watching \in BOOLEAN
    /\ next \in 0..(rev + 1) /\ asOf \in 0..rev
    /\ turn \in 0..(MaxTurns + Cardinality(Pickers)) /\ late \in Nat
    /\ picks \in Seq(Nat) /\ DOMAIN picks = DOMAIN cache

\* weighted_random draws every cached instance with as many of the numbers as
\* its weight: those from the sum of the weights before it up to its own.
DrawIsFair ==
    \A j \in DOMAIN cache :
        LET first == WeightOf(cache, j - 1)
        IN  /\ cache[j].weight > 0
            /\ WeightedPick(cache, first) = j
            /\ WeightedPick(cache, first + cache[j].weight - 1) = j

\* round_robin gives every place of an unchanged cache the same number of
\* turns up to one, and one more for every turn that a caller took with a
\* copy of an older cache.
TurnsAreEven == \A i, j \in DOMAIN picks : picks[i] <= picks[j] + 1 + late

\* When the cache changes, consistent_hash sends a key elsewhere only if its
\* endpoint has gone or a new one has come: events reorder the cache.
HashMovesFew ==
    [][\A h \in HashKeys : cache # <<>> /\ cache' # <<>> =>
          LET was == Endpoint(HashPick(cache, h))
              is  == Endpoint(HashPick(cache', h))
          IN  \/ was = is
              \/ \A j \in DOMAIN cache' : Endpoint(cache'[j]) # was
              \/ \A j \in DOMAIN cache  : Endpoint(cache[j]) # is]_cache

\* The picks of an instance, by any of the three strategies.
PicksAreFair == [](DrawIsFair /\ TurnsAreEven) /\ HashMovesFew

\* An instance without its revision, maps without entries like absent ones.
Content(i) == [i EXCEPT !.revision = 0, !.metadata = Entries(@)]

Belongs(i) == i.namespace = Asked.namespace /\ i.service = Asked.service

\* A Sync leaves in the cache what the filter asks for, of this service.
FilterApplied ==
    asOf = rev =>
        {Content(i) : i \in Instances} =
        {Content(i) : i \in {j \in StoredInstances : Belongs(j) /\ Matches(j, filter)}}

\* A cache without a filter that has heard every change has each instance of
\* its service as it is stored, and none of another service.
Settled ==
    watching /\ Coming = {} =>
        {Content(i) : i \in Instances} =
        {Content(i) : i \in {j \in StoredInstances : Belongs(j)}}

\* So it is over gRPC, for a consumer that synced before it watches.
SettledIsStored ==
    over = "grpc" /\ filter = [NoFilter EXCEPT !.healthyOnly = FALSE] => Settled

\* A cached instance with the revision of the stored one is the stored one:
\* an update with that expectedRevision overwrites nothing the consumer has
\* not seen.  (Instances from events carry the revision before theirs.)
RevisionIsTrue ==
    \A i \in Instances :
        kv[KeyOf(i)].mod = i.revision /\ i.revision > 0 =>
            Content(i) = Content(Decoded(KeyOf(i)))

\* Over gRPC a Sync does, with revisions that an update may rely on.
SyncedAsAsked == (over = "grpc" => FilterApplied) /\ RevisionIsTrue

\* What a register request asks for is stored, or nothing is: 0 and "" stand
\* for the defaults.  (Numbers beyond the wire's width are cut over gRPC.)
AsAsked(raw, i) ==
    /\ i.weight = IF raw.weight = 0 THEN 100 ELSE raw.weight
    /\ i.port = raw.port
    /\ raw.probe.port # 0 => i.probe.port = raw.probe.port
    /\ Entries(i.metadata) = Entries(raw.metadata)

AcceptedAsAsked ==
    [][\A raw \in Registrations, via \in {"http", "grpc"} :
          /\ via = "http" \/ (Fits(raw.weight) /\ Fits(raw.port) /\ Fits(raw.probe.port))
          /\ Register(raw, via)
          => AsAsked(raw, kv'[KeyOf(raw)].value)]_kv

\* However an instance came about, by registration and updates over either
\* transport, it would pass Validate as it is stored; and what a registration
\* stores is what it asked for.
StoredAsAsked ==
    /\ [](\A k \in Keys : Present(k) => ValidInstance(kv[k].value))
    /\ AcceptedAsAsked

\* The claims that do not hold.  A request over gRPC is stored as asked:
AcceptedOverWire ==
    [][\A raw \in Registrations : Register(raw, "grpc") => AsAsked(raw, kv'[KeyOf(raw)].value)]_kv

\* a Sync that got an error leaves the cache as it was:
ErrorKeepsCache ==
    [][answer # Nil /\ answer.asOf = 0 => cache' = cache]_cache

=============================================================================
