# TLA+ models of etcdisc

etcdisc is a service registry, configuration centre and agent (A2A) directory
over etcd, with HTTP and gRPC servers and Go SDKs. Its servers keep almost
nothing in memory: every request is a short sequence of etcd calls, so what can
go wrong goes wrong *between* two calls of a request, when another goroutine,
another server, an expiring lease or a crash gets in. The repository's unit
tests run one request at a time against an in-memory store
(`internal/testkit`), which reaches none of that. These modules model the
requests call by call, check them with TLC and prove what matters most with
TLAPS.

Paths below are relative to `src/`.

## 1. Inventory

| Component | State | Operations | Hard behaviours | What makes it correct |
|---|---|---|---|---|
| etcd store adapter (`internal/infra/etcd`, port in `internal/core/port`) | keys with value, mod revision and lease; one store revision; leases; event history | Create, Put, CAS, Delete, DeleteCAS, Get, List, lease grant / keep-alive / revoke, Watch | a lease's end deletes its keys; writes naming a dead lease fail; compaction ends a watch | each call is one atomic step; a watch delivers every change once and in order, or ends with a reset |
| registry service (`core/service/registry`) | instance records under `namespace/service/instanceId` | Register, Update, Heartbeat, Deregister, ApplyProbeResult, List | read-modify-write without a revision check, expiry between two calls, dead requests, records that bring their own lease and counters | every heartbeat instance on a live lease of its own, updates atomic, every request answered, silent providers disappear |
| health manager (`core/service/health`) | counters in the record | ApplyProbeResult, with a policy per result | thresholds at their limits, policies that change, counters that clients post | status and deletion are what the registration and the history of outcomes call for |
| probe service (`core/service/probe`) | none | one HTTP, gRPC or TCP probe | targets that refuse, say nothing or answer with an error | what is up is called healthy, what is down is deleted |
| namespace service (`core/service/namespace`) | namespace records with access mode | Create, UpdateAccessMode, Get, List, CheckRead, CheckWrite | mode changes between check and use | forbidden requests change and show nothing |
| discovery service (`core/service/discovery`) | one goroutine per watch | Snapshot, Watch | filtered puts, resets, bounded channels | nothing that was asked for is missed |
| consumer SDK (`pkg/consumer`) | local cache of instances, turns of round robin | Sync, Watch, ApplyEvent, four picks | events between snapshot and watch, rebuilds, a list replaced while it is picked from | the cache follows the registry; picks are even, weighted and stable |
| config service (`core/service/config`) | config items per scope and key | Put, Delete, GetRaw, Resolve, Watch | Resolve reads at three revisions, Watch merges three goroutines | nothing is overwritten unread, scopes keep their order |
| config SDK (`pkg/configsdk`) | cached effective items | Sync, Watch, ApplyEvent | events of different scopes, resyncs | the cache follows the effective config |
| A2A service (`core/service/a2a`) | AgentCards and an index entry per capability | Put, Get, List, Discover | card and index are written in separate calls, Discover reads at many revisions | the index agrees with the cards, answers were true during the request |
| audit service (`core/service/audit`) | audit entries; id counter in memory | Record, List | restarts, several servers | every change has an entry; entries never change |
| admin HTTP API (`internal/api/http/admin`) | none | namespaces, config items, instances, cards, audit list, readiness | the audit entry is a second call whose error is dropped; etcd may answer nothing | as audit; answers tell what was done |
| console and middleware (`api/http/console`, `api/http/middleware`) | none | pages over the same services, the admin token | a token from three layers of settings | nobody without a token gets further |
| business HTTP and gRPC APIs, wire types (`api/proto`) | none | decoding and answering | numbers cut to int32, empty maps that become absent | what is asked for is stored |
| keyspace, resource model (`core/keyspace`, `core/model`) | none | keys and prefixes, defaults, validation | names that begin with one another, zero that means "default" | listings keep neighbours apart; what is stored is valid |
| provider SDK (`pkg/provider`) | the loop | the registry's calls, RunHeartbeatLoop | the loop ends at its first error; TTL against interval and delays | the instance stays registered while its provider is well |
| errors (`core/errors`) | none | codes to HTTP and gRPC statuses | – | an answer that blames the request means nothing was changed |
| wiring and configuration (`internal/app`) | the settings | Load, start | file over defaults, environment over both | no settings open the administrators' routes |
| clock, logging, metrics, generated documentation, demos | none that decides anything | – | – | – |

Components interact in three ways. *Calls*: a handler calls one service, a
service calls the namespace service and the store port. *Shared state*: all
services of all servers share the keys of one etcd; goroutines share nothing
else that decides anything but the audit and instance-id counters. *Streams*:
etcd's history feeds a store-watch goroutine, that feeds a service goroutine
through a bounded channel, that feeds the transport and the SDK's loop.

## 2. Modules

An arrow points from a module to one that extends it; MC modules, which only
add key sets, initial contents and symmetry sets, are left out.

```
EtcdStore, Health ─> Registry ─┬> RegistryInv ─┬> RegistryClaims
                        │      │               └> RegistryTable ─┬> RegistryProofs
                        │      └> Provider ──────────────────────┘
                        │                 RegistryTable ┄ implements ┄> InstanceTable
EtcdStore, Health ──────┴─> InstanceTable
Health ─> HealthHistory ─> ProbeHealth ─> HealthHistoryProofs
Model ─> Wire ─┐
Keyspace ──────┼> Catalog ─> Consumer ─> ConsumerProofs
EtcdStore ─────┘
EtcdStore, Model, Keyspace, Errors, Settings ─> Admin ─> AdminProofs
EtcdStore ─> Config ─> ConfigProofs
EtcdStore ─> AgentCards ─> AgentCardsProofs
InstanceWatch ─> InstanceWatchProofs
ConfigWatch ─> ConfigWatchProofs
```

**EtcdStore** is the store port as the etcd adapter implements it. `kv` maps a
key to value, modification revision and lease; `rev` is the store's revision;
`leases` says which lease ids are free, live or dead. An operation of the port
is an action (`Create`, `Put`, `CAS`, `Delete`, `DeleteCAS`, `GrantLease`,
`EndLease`), and its refusal a predicate. etcd itself is external; the parts the
adapter relies on are stated in the module's header.

**Health** has the state machine of the health manager as pure operators, both
results (the new record, and whether to delete it) and the clamping of
thresholds included. `probed` stands for `LastProbeAt` and says whether a result
was counted since the registration. **HealthHistory** drives one instance with
arbitrary outcomes, from whatever status and counters its client posted
(`first`, with `Counters` the claims in use), and compares what the counters
decide with what the registration and the whole history say.
**ProbeHealth** puts the probe service in front: what a target does (refuses,
accepts and says nothing, answers with a status), what the probe of each of the
three probe modes makes of it, and the wait of the one probe that has no timeout
of its own. A result for a heartbeat instance, which ApplyProbeResult turns
down, changes nothing; that check is `RightMode` in Registry.

**Registry** composes EtcdStore and Health into the registry service. A request
is a goroutine `p` with a program counter `pc[p]` naming its next store call,
the request `req[p]`, the instance it has in hand `inst[p]` and the lease
`held[p]` found in the record it read. One action per store call and outcome:
`CheckWrite`, `Grant`, `CreateInstance`, `Get`, `CASInstance`, `KeepAlive`,
`PutInstance`, `Revoke`, `DeleteInstance` and their refusals; `Expire` ends a
lease, `SetAccessMode` is the namespace service, `Abort` a request that dies.
`born` stands for `CreatedAt` and tells one registration of a key from the next.
What a client posts on registration is a whole Instance, of which the server
sets the timestamps, and the lease if the mode is heartbeat. A register request
therefore carries a status, counters (`Counters`) and, in a probe mode, any lease
id or none: `CreateInstance` attaches the key to it, and a deregistration later
revokes it, whoever else lives on it. Of an update's `expectedRevision` the model
assumes that it comes from an earlier answer, and so is no revision that the
store has not reached (`ReceiveUpdate`); a caller that guesses a later one is not
covered by `UpdateIsAtomic`.

**InstanceTable** is the abstract specification of the registry service: a
table in which every request is one transaction. A registration writes what its
client posted; the table only asks that a heartbeat instance get a lease that no
other heartbeat instance has (`Fits`). It has one escape, drawn where
the code draws it: a heartbeat, a deregistration and a probe result end in an
unconditional write, so one whose key was written since it read it (the pair is
in `behind`) may overwrite or delete what is stored now; an Update never does.
**RegistryTable** adds to Registry the revision each request read (`seen`),
defines `Behind` from it and states the refinement: `IsInstanceTable` is
`Table!Spec` for `Table == INSTANCE InstanceTable WITH behind <- Behind`.

**Provider** composes services that use the provider SDK with Registry: each
registers (under a name of its own or a generated id), beats on a ticker until
the first error, and may deregister. It adds time (`left`: what remains of each
lease, `wait`: the ticker, `age`: how long a request has been under way), answers
that get lost, operators' updates, and restarts that set the id counter back.
Only the SDK's services use the registry there (`Modes = {"heartbeat"}`, no
claims): an instance that somebody else registers on a provider's lease would end
the provider's when it is deregistered.

**Model**, **Keyspace**, **Wire**, **Errors** and **Settings** are pure: defaults
and validation; keys as sequences of pieces, where one name may begin with
another; the conversions to and from the gRPC messages, with int32 as arithmetic
modulo 2^`IntBits`; codes and their HTTP and gRPC forms; the three layers of
settings. **Catalog** has what is stored of an instance and what a discovery
query lists of it, a request being one step (RegistryTable shows that the calls
implement that). **Consumer** puts the consumer SDK behind it: Sync and Watch
over HTTP or gRPC, the contents of snapshots and events, the cache, and the
goroutines that pick from it (round robin, random, weighted random, consistent
hash) while it is replaced.

**InstanceWatch** goes from the registry's writes (a log of changes) over the
store's watch goroutine, discovery's filtering goroutine and their bounded
channels to the consumer's loop: snapshot, store, open, apply, rebuild after a
reset, start over when the stream ends. `FromSnapshot` tells the gRPC transport,
which sends a revision, from the HTTP transport, which sends none.

**Config** has Put, Delete, GetRaw and Resolve of the config service over
EtcdStore; Resolve is a check and a read per scope, each a step of its own. The
history variable `views` holds what the store contained during each request.
**ConfigWatch** has config.Watch's three goroutines into one channel and the
config SDK behind it, over gRPC and over HTTP, where events before the stream
are lost and an error is decoded as if it were an answer.

**AgentCards** has the A2A service's Put (check, read of the previous card, the
card's write, one step per index entry removed and written), Discover (check,
list, a check and a read per card, the service's instances) and List, for
business callers and administrators.

**Admin** has the administrators' requests end to end: the token, the change of
a namespace or a config item over the admin API or gRPC, the audit entry that
follows it and whose error is dropped, listings of the API and the console,
readiness, and the answer; servers that crash and come back with other settings;
an etcd that fails a call before or after carrying it out.

Definitions called mutants (`…Unchecked`, `…Late`, …) are plausible mistakes
next to the definition they would replace; nothing uses them in a specification.
What the modules leave out: values that no decision depends on (addresses,
timestamps), formatting, logging and wording. Except in Catalog and Admin, whose
properties are about it, validation that turns a request down before its first
call is left out too: it changes nothing.

## 3. What is checked

### Passing runs

| Run | Configuration, module | Question and answer |
|---|---|---|
| `registry` | MCRegistry, MCRegistryTable | Do the five operations, interleaved at their store calls, keep instances and leases together? For every sequence of four requests by two goroutines on two keys, yes: whatever leases and counters clients post, a stored heartbeat instance hangs on a live lease that no other heartbeat instance has (`LeaseBinding`, `LeaseExclusive`); an acknowledged Update changes what it read and nothing else (`UpdateIsAtomic`); no record that was ever probed is stored healthy past its failure threshold (`HealthyBelowThreshold`). And `IsInstanceTable`: apart from what an outdated heartbeat, deregistration or probe result overwrites, they are transactions on a table. |
| `provider` | MCProvider | Is a provider that is well registered, and one that fell silent gone? A loop that runs on time keeps its own instance there (`StaysRegistered`), a late one never renews somebody else's (`OwnHeartbeats`), both as long as no restart hands an id out again; every request is answered (`RequestsAnswered`) and what silent services left behind disappears (`SilentDisappear`). |
| `health_history` | MCProbeHealth | Do the counters decide what the registration and the history of outcomes call for (`StatusMatchesHistory`, `DeletedMatchesHistory`), and the outcomes follow the target (`FollowsTarget`)? Yes, in the three probe modes, for three claims a registration may make and four policies, two of which the code clamps. That no policy deletes an instance straight from health (`DeletedFromUnhealth`) follows and is proved; what can is a claim, at the first probe: see MCProbeDeletes below. |
| `instance_watch` | MCWatch, MCInstanceWatch | Does the consumer's cache follow the registry? Once it has heard everything it misses nothing it asked for and holds nothing it did not ask for, and without a filter it is exact (`CaughtUpAsAsked`); it settles on that (`CacheSettles`). |
| `config` | MCConfig | Does an acknowledged write overwrite only what its caller had read (`NothingOverwritten`), does no request get around the access mode for its whole duration (`AccessRespected`), and does Resolve keep the order of the scopes while others write (`ResolvedAsInForce`)? Yes. |
| `config_watch` | MCConfigWatch | Does the config SDK's cache follow the effective item while one scope is published to over a global default? Yes on a whole stream over gRPC, and over either transport it settles unless a scope's goroutine ended. |
| `agent_cards` | MCCards, MCAgentCards | Are the entries an update removes those of the card it replaced (`PreviousWasReplaced`), does the index agree with the card as long as puts do not overlap (`SerialIndexIsExact`, `AcknowledgedIsIndexed`), and was what Discover and List answer stored and readable during the request (`AnswersAreRight`)? Yes. |
| `consumer` | MCConsumer | Is what is stored valid and what was asked for, over either transport (`StoredAsAsked`)? Is a Sync what its filter asks for, with revisions that can be relied on (`SyncedAsAsked`), and a settled cache what is stored of its service (`SettledIsStored`)? Are the picks even, weighted and stable while the cache changes (`PicksAreFair`)? Yes, the cache's two over gRPC. |
| `admin` | MCAudit, MCAdmin | Does every acknowledged change have its entry while nothing fails (`AuditedWhileUp`), is no entry ever overwritten though ids repeat (`AuditAppendOnly`), do answers tell what was done although etcd fails (`AnsweredAsDone`), do listings keep neighbours apart (`ListedBelong`), do no settings let anyone in without a token (`TokenNeeded`)? Yes. |

### Known divergences

Three are runs, as a document, a comment or a test of the repository says
otherwise:

| Run | Property violated | The story |
|---|---|---|
| `deregister_reports` (MCDeregisterReports, MCRegistry) | `DeregisterReportsSuccess` | Deregister revokes the lease, which makes etcd delete the key, and then deletes the key: NotFound is answered for every heartbeat instance whose removal succeeded. The tests' in-memory store keeps the keys of a revoked lease and hides it. |
| `watch_unhealthy` (MCWatchUnhealthy, MCInstanceWatch) | `CaughtUpIsCurrent` | With the default filter the watch drops the put that turns an instance unhealthy; the consumer keeps it as healthy until the instance's next change. |
| `audit_restart` (MCAuditRestart, MCAdmin) | `EveryChangeAudited` | After a restart audit ids start at one again; Create refuses the taken ids, the handler drops the error, and changes go unrecorded. |

Six come with a configuration that is run by hand (`tlc -config <cfg> <module>`)
and ends with a counterexample of a few steps:

| Configuration, module | Property | The story |
|---|---|---|
| MCProbeOnLease, MCRegistry | `ProbesUnbound` | "`probe` mode: the instance key is not bound to a lease", says README.md. But Register overwrites the `leaseId` a client posts for heartbeat instances only, and attaches the key to it in every mode: a probe instance may hang on another instance's lease, and goes when that one does. Its first probe result detaches it. |
| MCProbeDeletes, MCRegistry | `OnlyUnhealthyDeleted` | "health -> unhealth -> delete", says README.md. But Register keeps the `consecutiveFailures` a client posts: a healthy instance with enough of them is deleted by its first failed probe. |
| MCHeartbeatUpdate, MCRegistry | `OnlyUpdateChangesData` | A heartbeat that read before an acknowledged Update writes the old fields back. |
| MCProviderReuse, MCProvider | `WellStaysRegistered` | After a restart ids are given out again while requests for their former owners are under way: one of them removes the new instance under a provider that is well. |
| MCWatchGap, MCInstanceWatch | `CaughtUpIsComplete` | The HTTP transport sends no revision: what is registered between snapshot and watch never arrives. |
| MCCardsLost, MCAgentCards | `IndexIsExact` | Two updates in order whose index writes overlap leave a wrong index for good. |

Three follow from reading the same definitions and need no search: watch events
carry the JSON that was stored, whose revision is that of the record before, so
that a cached instance has an old Revision and an Update that relies on it is
refused (`RevisionIsTrue` says what remains: a cached Revision that is the stored
one is right); the
gRPC probe takes every answered Check for success, NOT_SERVING too (`Success` in
ProbeHealth; `FollowsTarget` leaves such targets out); and config items written
over gRPC need no token and leave no audit entry (`Guarded` and `PutConfig` in
Admin).

### Further configurations

More statements that an interleaving breaks. Each is a property of the project
with the constants to change in an existing configuration.

| From | Property | Change | The story |
|---|---|---|---|
| MCHeartbeatUpdate | `DeregisterRevokesLease` | `Data = {d1}`, `Ops = {"register", "deregister"}` | Between a Deregister's revoke and its delete the key is registered anew: the delete removes the new instance and leaves its lease alive. |
| MCHeartbeatUpdate | `OnlyRegisterCreates` | `Leases = {l1}`, `Modes = {"probe"}`, `Data = {d1}`, `Ops = {"register", "deregister", "probe"}` | A probe result that read before a Deregister writes the instance back, without a lease that would ever remove it. |
| MCHeartbeatUpdate | `OnlyUnhealthyDeleted` | the same without `"deregister"`, `MaxRequests = 4` | A failure counted on an old read deletes an instance a success has just recovered. |
| HealthHistory, with MCProbeHealth's `AllPolicies` and `MaxProbes`, and nothing claimed | `DeletedFromUnhealth` | `SpecOverride` for `Spec` | With a policy that changes between two results a healthy instance is deleted outright. |
| MCWatchUnhealthy | `CaughtUpIsCurrent` | `IdOf <- SharedIds`, `Filters = {FALSE}` | A cache of a whole namespace tells instances apart by id alone, so services with equal ids remove each other's instances. |
| MCConfig | `ResolvedInForce` | `Values = {v1}`, `MaxModeRev = 0`, no symmetry | Resolve's three lists see a moved value in neither scope, or in an order that was never in force. |
| MCConfigWatch | `CaughtUpIsCurrent` | `Writable = {"global", "service"}`, `Transports = {"grpc"}`, `Compaction = FALSE`, `MaxFaults = 0`, `Spec` | The SDK takes the last put as the effective item whatever its scope: publishing a global value hides the service value that overrides it. |
| MCConfigWatch | `CaughtUpOverHTTP` | `Transports = {"http"}`, `Compaction = FALSE`, `MaxFaults = 0`, `Spec` | As MCWatchGap, for the config SDK. |
| MCConfigWatch | `OpenStreamIsCurrent` | `Transports = {"grpc"}`, `Compaction = FALSE`, `Spec` | When one scope's goroutine fails the stream stays open and is silent about that scope. |
| MCCardsLost | `DiscoverMatches` | `MaxRev = 6` | Discover answers with a card that lost the capability after the index was listed. |
| MCCardsLost | `DiscoverFinds` | `MaxRev = 8` | An update removes entries it then writes again: the agent cannot be found in between. |
| MCCardsLost | `AcknowledgedIsExact` | one process, `MaxAborts = 1`, `MaxRev = 12` | A retry after a Put that died takes the new card for the old one: the old entries stay. |
| MCCardsLost | `ForbiddenMeansClosed` | one process, `InitialModes = {"write_only"}`, `MaxRev = 6` | An update needs read access, so write_only namespaces take new cards and no updates. |
| MCConsumer | `ErrorKeepsCache` | – | Over HTTP the consumer does not look at the status of an answer: an error is a snapshot without instances and empties the cache. |
| MCConsumer | `FilterApplied` | – | Over HTTP the filter is not sent. |
| MCConsumer | `Settled` | `Transports = {"http"}` | As MCWatchGap, with the contents of the instances. |
| MCConsumer | `SettledIsStored` | `Concurrent = TRUE` | A caller's Sync puts a list in the cache that is older than the events the watch has applied. |
| MCConsumer | `AcceptedOverWire` | – | A number beyond int32 comes out in range and is stored although nobody asked for it. |

### Bounds

Every bound is a CONSTANT whose comment says "bound".

- `Procs` = 2 everywhere: each hazard listed in PROJECT.json is between two
  requests (or a request and an expiry, a fault, a mode change). The proofs
  cover any number.
- Registry: `MaxRequests` = 4 lets a request with an old read outlive a
  deregistration and a new registration in the other mode of its key; two keys
  and two leases let leases be mixed up; `MaxModeRev` = 2 lets a namespace be
  created and closed under requests. Thresholds 1, 1, 2 are the least that tell
  unhealthy from deleted, and one claimed failure (`OneClaim`) is at the first
  and one short of the second. Counters are integers where Go's wrap at 2^63.
- Provider: three requests by two services are a registration, the request that
  meets it and the one that comes of that; three keys are two generated ids and
  a name; one restart. `DefaultTTL` = 4 is the least that exceeds one interval
  and two delays, which is what `ProviderAssumption` asks for: the answer to
  Register, the first tick and the first keep-alive's calls lie between the grant
  of a lease and its renewal.
- ProbeHealth: eight probes pass the largest delete threshold (5) and leave room
  for a recovery before it. A registration claims nothing, or three failures and
  a success, which under the unit test's policy is past the failure threshold and
  one short of deletion, or less than nothing.
- Watches: three or four changes with channels of one or two events fill the
  channels, so that every goroutine also waits; two instances, or two scopes
  that hold an item, are the least that events can confuse. One fault, and
  compaction of any revision at any time.
- Consumer: three writes reorder a cache of two instances beside one of a
  service whose name begins with the same piece; `IntBits` = 18 keeps the limits
  of validation (a port up to 65535) inside the wire's width, as 32 does.
- Config: four writes or mode changes against one three-scope Resolve, which
  has three gaps between its reads.
- AgentCards: two capabilities and writes up to revision 7 allow a creation and
  an update that overlaps or follows another or one that died.
- Admin: three ids against four changes, one restart and one failed call: ids
  repeat, and an entry can be the call that fails.

Symmetry is used for goroutines, keys, leases and capabilities where no
liveness property is checked and no definition tells them apart.

Deadlock is not checked where the bounds stop the system (all requests served,
all writes spent): `CHECK_DEADLOCK FALSE` in the registry, provider, health,
watch, consumer and admin runs. Config and AgentCards never stop: requests that
read go on.

### Fairness

- `Provider!FairProviderSpec`: weak fairness of each goroutine that serves a
  request (the Go scheduler runs goroutines that can run, and every store call
  has an answer or an error), of the ticker of a loop, of a lease that ran out
  (etcd ends it), and of time. Registrations, shutdowns, operators' updates,
  faults and restarts are not fair; `MaxRequests` makes every provider fall
  silent in the end, which is what `SilentDisappear` is about.
- `InstanceWatch!FairSpec` and `ConfigWatch!FairSpec`: weak fairness of the
  forwarding goroutines (one by one in ConfigWatch, where one can go on while
  another waits) and of the SDK's loop. Writers, faults and compaction are not
  fair. The SDK's caller is taken to call Sync and Watch again when Watch
  returns, as the repository's examples do.

## 4. What is proved

All theorems hold for any number of goroutines, keys, leases, servers and
requests, from the named assumptions of the modules they extend (bounds are
natural numbers, NoX is none of the X, key sets are disjoint).

### Registry (RegistryProofs)

`LeaseAssumption`: NoLease is no lease id; `RegistryAssumption`: every key lies
in a namespace, modes are heartbeat or probe, thresholds and posted counters are
integers.

| Theorem | Statement |
|---|---|
| `Invariant` | `Spec => []Inv` |
| `TypeCorrect` | `Spec => []TypeOK` |
| `HeartbeatLeaseBinding` | `Spec => []LeaseBinding` |
| `NoSharedLease` | `Spec => []LeaseExclusive` |
| `UpdateAtomicity` | `Spec => UpdateIsAtomic` |
| `HealthySound` | `Spec => [](OneThreshold => HealthyBelowThreshold)` |

`LeaseBinding` is not inductive: a heartbeat writes a record it read two calls
ago under a lease it read then, and from the stored records alone that record
could say anything. `Inv` (RegistryInv) adds what makes it so:

- `StoredInv`: a present key holds an instance, an absent one no lease;
- `CarriedInv`: what a request has in hand at each call, in particular that
  instance and lease were read (or granted) together, so that a heartbeat
  instance in hand comes with a lease;
- `OwnerInv`: the lease a heartbeat instance has, stored (`Beats`) or in a
  request's hands (`Owns`), was granted and belongs to one key among all of them,
  so that a heartbeat's keep-alive and put name the lease of its own key or a
  dead one (which etcd refuses). Nothing of the kind holds for the lease a client
  posts with a probe instance, which may be anybody's;
- `SnapshotInv`: the revision an update expects is not younger than its read,
  so if the key still has that revision at the CAS the record it merges into is
  the stored one.

Each part is preserved by every action; the proof has a lemma per group of
actions with the parts each disturbs. `UpdateIsAtomic` follows from
`SnapshotInv` at the step that writes, `LeaseExclusive` from `OwnerInv`.

`HealthyBelowThreshold` needs an invariant beside `Inv`: `SoundInv` says that
every stored instance, and every instance a request carries towards the store,
is sound, i.e. a heartbeat instance was never probed, and a healthy one that was
has fewer failures than the threshold. The first half is what makes a heartbeat,
which writes "health" over whatever it read, keep the second. Posted counters
are outside it until a result is counted: the first one turns a healthy instance
at or past the threshold unhealthy, or resets them. `OneThreshold` (all
policies in use have the same failure threshold) is needed because a probe
request may override the policy: with two thresholds an instance that is healthy
under one may be past the other.

### The registry implements its table (RegistryProofs)

| Theorem | Statement |
|---|---|
| `SeenInvariant` | `SeenSpec => [](Inv /\ SeenInv)` |
| `RegistryIsTable` | `SeenSpec => IsInstanceTable` |

The invariant: a request whose key still has the revision it read has the stored
record in hand, so that what it writes is what the transaction would. With
`Inv` each store call then is a transaction of the table, a stutter, or, if the
revision has moved, an overwrite by a request that is in `Behind`; and a request
gets into `Behind` only in a step that writes its key.

### Providers (RegistryProofs)

| Theorem | Statement |
|---|---|
| `ProviderTypes` | `ProviderSpec => []ProviderTypeOK` |
| `ProviderIsRegistry` | `ProviderSpec => Spec` |
| `ProviderLeaseBinding` | `ProviderSpec => []LeaseBinding` |
| `WellBeatenStays` | `IdsApart` gives `ProviderSpec => []StaysRegistered` |
| `HeartbeatsAreOwn` | `IdsApart` gives `ProviderSpec => OwnHeartbeats` |

Every step of a provider is a step of Registry or leaves its state alone, so all
that is proved of Registry holds under loops, clocks and restarts.

The last two are about what a loop relies on, and hold until a server restarts,
which sets the id counter back. `IdsApart` is what the code cannot see to: a
service that names its instances uses names of its own, and none of them looks
like a generated id (two providers that ask for one id share an instance by
design). `ProviderAssumption` asks that a prompt provider's TTL exceed its
interval and two delays, and that nobody but the SDK's services registers here;
the proof shows that this is enough. The invariant
`ServiceInv` adds to the registry's:

- `AskInv`: which request a service may have under way at each stage of its life;
- `HomeInv`: the keys of two services, registered or about to be, differ, and are
  names of theirs or ids handed out;
- `BornInv`: what is stored at a service's key is the instance it was told of,
  and a heartbeat between its read and its write has that instance and its lease
  in hand, which is why a late heartbeat cannot renew another's;
- `InTimeInv`: what is left of a prompt service's lease covers what may still
  pass until its next keep-alive, stage by stage: the wait for the ticker, the
  time its request has been under way, and one delay for the calls to come. This
  is what `StaysRegistered` lacks to be inductive, as a lease that is there now
  may be about to run out.

### Health (HealthHistoryProofs)

For every policy (any integers as thresholds, `PolicyAssumption`), whatever
integers a registration claims (`CountersAssumption`), and histories of any
length:

| Theorem | Statement |
|---|---|
| `CountersFollowHistory` | `Spec => []CounterInv` |
| `TypeCorrect` | `Spec => []TypeOK` |
| `StatusMatches` | `Spec => []StatusMatchesHistory` |
| `DeletionMatches` | `Spec => []DeletedMatchesHistory` |
| `NeverDeletedFromHealth` | `Spec => DeletedFromUnhealth` |
| `ProbesDriveHealth` | `ProbeSpec => Spec` |
| `VerdictFollowsTarget` | `ProbeSpec => []FollowsTarget` |

`CounterInv` adds to the types that each counter is the length of the run of
equal outcomes at the end of the history, with what the registration claims as
long as there was no other outcome (`Counting`), that the record
is the one registered while there was no result (`AsRegistered`), that from the
first result on a healthy record's failures are below the failure threshold
(`BelowThreshold`) and `deleted` is what the failures say (`DeletedAtThreshold`),
and that the status is the one the registration and the history call for
(`StatusByHistory`). The lemmas about histories say what one
more outcome does to a run (`CountedLonger`, `CountedAnew`, `RunEarlier`), to a
recovery (`RecoveredLater`) and so to the status read off the history. Lemma
`Thresholds` is the clamping: the delete threshold in force is above the failure
threshold in force, whatever was asked for, and a counter that moves by one
passes the lower before it reaches the higher.

`ProbesDriveHealth` puts the probes in front: a probe of any target is an outcome
of HealthHistory, or waits and changes nothing. `VerdictFollowsTarget` then goes
from targets to statuses, by `CounterInv` and `Verdicts`: each outcome in the
history is a success if the target was up and a failure if it was down.
`TargetAssumption` is that a final HTTP status is 200 or more.

### Configuration (ConfigProofs)

| Theorem | Statement |
|---|---|
| `TypeCorrect` | `Spec => []TypeOK` |
| `WritesReplaceWhatWasRead` | `Spec => NothingOverwritten` |
| `ClosedMeansClosed` | `Spec => AccessRespected` |
| `AnswersInForce` | `Spec => []ResolvedAsInForce` |

The invariant `IInv` is the types, what a stored item looks like (`StoreShape`),
and per request (`Stages`) what it knows at each call: a writer's expectation is
no younger than its read, and each of a Resolve's three lists found what was
stored at a moment of its own among those in `views`, after the one before it.
Lemma `InForceIsOverlay` says that the items in force at a moment are the overlay
of its three scopes, which is what relates the lists to whole configurations.

### Agent cards (AgentCardsProofs)

| Theorem | Statement |
|---|---|
| `TypeCorrect` | `Spec => []TypeOK` |
| `ReplacesWhatItRead` | `Spec => PreviousWasReplaced` |
| `AnswersRight` | `Spec => []AnswersAreRight` |
| `SerialIndexExact` | `Spec => []SerialIndexIsExact` |
| `AcknowledgedIndexed` | `Spec => []AcknowledgedIsIndexed` |

Two invariants. `IInv` has the stages of a put and a discover: what a put has
read, which entries it still has to remove and to write, and that what a
discover has gathered was stored since it began. `SerialInv` compares card and
index while puts have not overlapped: the entries of the stored card are there
but for those the one put under way still has to write, and there is none beside
them but those it still has to remove, or a dead put left.

### Administrators (AdminProofs)

| Theorem | Statement |
|---|---|
| `NoTokenNoAccess` | `Spec => []TokenNeeded` |
| `AnswersAsDone` | `Spec => []AnsweredAsDone` |
| `LogOnlyGrows` | `Spec => AuditAppendOnly` |
| `TypeCorrect` | `Spec => []TypeOK` |
| `LogComplete` | `OneServerOnly` gives `Spec => []AuditedWhileUp` |
| `ListingsBelong` | `Spec => []ListedBelong` |

`AdminAssumption`: requests, names and servers are of their types, a listing of
config items is asked of the API or the console, and no config item's own name
has a slash in it (configKeyPattern admits none).

The invariant relates, per request, how far it has got to what it has done and
will answer (`Accounted`): an error that blames the request was set before the
write, and one that came after is etcd's. For the log, lemma `KeysApart` says
that no namespace and no config item has the key of an audit entry, and entries
are only ever created.

`LogComplete` needs to know of the ids that each is used once (`Numbered`): those
that requests under way hold are distinct, at most the counter, and without an
entry, and every entry's is at most the counter. That is so while one server has
run since the log began (`OneServerOnly`; `AuditedWhileUp` itself leaves out what
was restarted or failed). A second server counts from zero as well, and the entry
of one is then refused for the other's.

`ListingsBelong` compares prefixes and keys as sequences of pieces: where a name
ends in a slash and contains none, a key that begins with the prefix has the very
names the prefix has. It is about names of any length, where the run has two.

### Instance watches (InstanceWatchProofs)

| Theorem | Statement |
|---|---|
| `TypeCorrect` | `Spec => []TypeOK` |
| `FollowsTheRegistry` | `IdsApart`, `FromSnapshot` give `Spec => []CaughtUpAsAsked` |

For any log, channels of any capacity, any compaction and faults. The two
hypotheses are the code's limits: a cache tells instances apart by id alone, so
it must not cover two instances with one id (`IdsApart`), and the HTTP transport
sends no revision (`FromSnapshot` is gRPC's). Without either the property fails
(section 3). `CaughtUpAsAsked` speaks of empty channels, so the invariant has to
say what full ones hold. `Following`: a key with no change still to come out of
the store adapter is in the cache as it should be or, if events of it are in the
service's channel, will be with the last of them. `Knows`: a snapshot, and the
cache until the watch opens, is right for every key that did not change since the
revision the watch will ask for.

### Config watches (ConfigWatchProofs)

| Theorem | Statement |
|---|---|
| `TypeCorrect` | `Spec => []TypeOK` |
| `FollowsTheItems` | `PublishedTo(top)` gives `Spec => []CaughtUpIsCurrent` |

`PublishedTo(top)`: items are published to one scope, and no more specific scope
has one; the others may hold what they like. The SDK takes every put for the
effective item, so with two scopes published to it goes wrong (section 3). The
invariant `FollowInv` says what is stored and in the log under that hypothesis
(`PublishedInv`), where the SDK is in its life (`Living`), and that once nothing
is still to come into the shared channel the SDK has the effective item or will
take it from the last event in the channel, a deletion there making it sync
(`Following`).

### The consumer (ConsumerProofs)

| Theorem | Statement |
|---|---|
| `TypeCorrect` | `Fresh` gives `Spec => []ConsumerTypeOK` |
| `StoresAsAsked` | `Spec => StoredAsAsked` |
| `SyncsAsAsked` | `Fresh` gives `Spec => []SyncedAsAsked` |
| `FairPicks` | `Spec => PicksAreFair` |
| `FollowsTheService` | `Fresh`, `Concurrent = FALSE` give `Spec => []SettledIsStored` |

For any instances, requests, names, filters, pickers and turns. `Fresh`: a
register request carries no revision (the field is the server's; JSON would let a
client write one, and it would be stored). What is stored and what is picked
needs no such hypothesis; what the consumer makes of revisions does.
`WidthAssumption`: the wire's numbers
hold every port that validation admits, as int32 does; `CatalogAssumption` and
`ConsumerAssumption` give the constants their types and say that hashes of
different endpoints differ. `Concurrent = FALSE`: nobody calls Sync beside Watch;
with it `SettledIsStored` fails (section 3). The invariants:

- `CatalogInv`: what is stored is valid, lies under its own key and is what the
  history has as the last change of that key, and under `Fresh` the revision
  inside a stored value is an older one. Preserved by a lemma per request (`Registering`,
  `Updating`, `Reporting`, `Leaving`), which say what is written;
- `SyncInv`: every instance in the cache or in an answer is valid, belongs to the
  service asked for, and under `Fresh` is the stored one if it has the stored
  revision; an
  answer read at the current revision is what the filter asks for. Lemma
  `ServiceCovers` says of names of any length that the prefix of a service covers
  the keys of its instances and of no other whose name begins alike, `OneKey`
  that within a service an id is a key;
- `PickInv`: there is a base such that every place of an unchanged cache was owed
  that many turns or one more, depending on where the counter stands in its round
  (`Even`), short of what late callers took; and as many turns are outstanding as
  callers hold a copy;
- `FollowInv`: for some revision r the cache has, for each key of the service,
  what the history had at r or at the last event applied, or a change of that key
  is still to come from the stream and is at most r. A Sync makes r the revision
  of its answer, an event leaves it, and a Watch that returns makes it the last
  event heard: the next one begins at the cache's newest instance and brings
  again what was heard since.

`StoredAsAsked` and `PicksAreFair` speak of functions of sequences: sums of
weights, selections, the least hash. Induction is over sets of numbers (lemma
`Induction`, from the library's facts on finite intervals): `Recursion` shows
that a recursively defined function exists, `Selecting` what a selection leaves,
`Summing` and `Drawing` where a number drawn falls, `Scoring` which endpoint wins.

### Model-checked only

All liveness, as fairness and ENABLED are out of the prover's reach:
`RequestsAnswered` and `SilentDisappear` of the providers and `CacheSettles` of both
watches. Every invariant and every action property that a
passing run checks is a theorem. The proofs use the modules as the runs check
them: no configuration replaces a definition.

## 5. What is not modelled, and why

- The clock, logging and metrics: no service decides anything on their state.
- Generated code (the protobuf and Swagger files), the demos, the console's
  templates: no logic of the program's own.
- wiring.go's construction of the services, and the demo route table: straight
  lines without a condition.
- A consumer that goes away for good with full channels: the goroutines behind
  it wait until the transport is drained, which depends on gRPC's and net/http's
  own buffers.
- Conversions of config items and agent cards to the wire, which copy field by
  field; client overrides of Resolve, which no handler passes; `TouchExists` and
  `Status` beyond whether etcd answers.
- Which names match the patterns of validation.go (a constant), and the bytes of
  JSON and YAML.
- The scheduling of probes: nothing in the repository calls the probe service,
  so probes come at any time.

## 6. Plan

Done: the store, the registry with its table, providers, health and probes,
discovery and both SDK caches, configuration, agent cards, administrators with
audit, settings and errors, the wire.

What is left, in this order:

1. Refinement: a changelog subscription as the abstract specification of both
   watches while no fault and no filter interferes; a compare-and-swap register
   per config item, implemented by Config's writes.
2. A consumer that stops reading for good, with the transports' buffers as a
   parameter.
