------------------------------ MODULE Catalog ------------------------------
(***************************************************************************)
(* What the registry stores of an instance and what discovery lists of it: *)
(* requests as they come over HTTP or gRPC, defaults, validation, keys and *)
(* filters (service/registry, service/discovery).                          *)
(*                                                                         *)
(* A request is one step here: RegistryTable shows that the registry's     *)
(* calls implement that.  Namespaces admit every request and leases stay   *)
(* out: Config and Registry have them.                                     *)
(***************************************************************************)
EXTENDS EtcdStore, Wire, Keyspace

CONSTANTS
    Registrations,  \* the instances of register requests, as clients write them
    Updates,        \* update requests, without their expectedRevision
    SortedKeys,     \* Keys in the order of their bytes
    MaxRev          \* bound: changes of the store

Metadata == {Nil, NoEntries} \cup {i.metadata : i \in Registrations \cup Updates}

Probe == [address : STRING, port : Int, path : STRING \cup {ProbePath(mode, "") : mode \in Modes}]

\* The texts are what clients write, and the defaults.  The lease and the health
\* counters are left to Registry: no filter, pick or conversion here reads them.
Instance ==
    [namespace : Seq(STRING), service : Seq(STRING), instanceId : Seq(STRING),
     group : STRING \cup {"default"}, version : STRING, address : STRING,
     port : Int, weight : Int, metadata : Metadata, mode : STRING \cup Modes,
     status : STRING \cup Statuses, revision : Nat, probe : Probe]

\* An update names its instance and what it changes.
UpdateInput ==
    [namespace : Seq(STRING), service : Seq(STRING), instanceId : Seq(STRING),
     weight : {Nil} \cup Int, metadata : Metadata, version : {Nil} \cup STRING]

KeyOf(i) == InstanceKey(i.namespace, i.service, i.instanceId)

ASSUME CatalogAssumption ==
    /\ Registrations \subseteq Instance /\ Updates \subseteq UpdateInput
    /\ \A i \in Registrations \cup Updates : KeyOf(i) \in Keys
    /\ SortedKeys \in Seq(Keys)
    /\ \A k \in Keys : \E j \in DOMAIN SortedKeys : SortedKeys[j] = k
    /\ \A j, m \in DOMAIN SortedKeys : SortedKeys[j] = SortedKeys[m] => j = m
    /\ Nil \notin BOOLEAN /\ Nil # NoEntries
    /\ MaxRev \in Nat

VARIABLE log    \* etcd's history; the n-th change made revision n + 1

catalogVars == <<storeVars, log>>

Revision(n) == n + 1

CatalogInit == StoreInit /\ log = <<>>

Logged(type, k, i) ==
    /\ rev < MaxRev
    /\ log' = Append(log, [type |-> type, key |-> k, value |-> i])

\* What is read of a key: the value, whose own revision is an older one, with
\* the revision of the record.
Decoded(k) == [kv[k].value EXCEPT !.revision = kv[k].mod]

-----------------------------------------------------------------------------
(* Register, Update, Heartbeat and probe results, Deregister.  A refused   *)
(* request changes nothing and is left out.                                *)

Register(raw, via) ==
    LET i == Normalize(IF via = "grpc" THEN InstanceOverWire(raw) ELSE raw) IN
    /\ ValidInstance(i)
    /\ Create(KeyOf(i), i, NoLease)
    /\ Logged("put", KeyOf(i), i)

Unless(value, new) == IF new = Nil THEN value ELSE new

Merged(i, u) ==
    [i EXCEPT !.weight   = Unless(@, u.weight),
              !.metadata = Unless(@, u.metadata),
              !.version  = Unless(@, u.version)]

\* Mutant: what results from the merge is not validated again.
UpdateUnvalidated(u, via, expected) ==
    LET k == KeyOf(u)
        i == Normalize(Merged(Decoded(k), IF via = "grpc" THEN UpdateOverWire(u) ELSE u))
    IN  /\ Present(k) /\ expected > 0
        /\ CAS(k, expected, i, kv[k].lease)
        /\ Logged("put", k, i)

Update(u, via, expected) ==
    LET k == KeyOf(u)
        i == Normalize(Merged(Decoded(k), IF via = "grpc" THEN UpdateOverWire(u) ELSE u))
    IN  /\ Present(k) /\ expected > 0
        /\ ValidInstance(i)
        /\ CAS(k, expected, i, kv[k].lease)
        /\ Logged("put", k, i)

\* A heartbeat, or a probe result that leaves the instance with status s.
Report(k, s) ==
    LET i == [Decoded(k) EXCEPT !.status = s] IN
    /\ Present(k)
    /\ s = "health" \/ IsProbe(i.mode)
    /\ Put(k, i, kv[k].lease)
    /\ Logged("put", k, i)

\* A Deregister, a lease's end or the last of too many failed probes.
Leave(k) ==
    /\ Delete(k)
    /\ Logged("delete", k, kv[k].value)

Write ==
    \/ \E via \in {"http", "grpc"} :
          \/ \E raw \in Registrations : Register(raw, via)
          \/ \E u \in Updates, expected \in 0..rev : Update(u, via, expected)
    \/ \E k \in Keys : Leave(k) \/ \E s \in Statuses : Report(k, s)

-----------------------------------------------------------------------------
(* registry.List and discovery's Snapshot.                                 *)

NoFilter == [group |-> "", version |-> "", metadata |-> Nil, healthyOnly |-> Nil]

HealthyOnly(f) == Unless(TRUE, f.healthyOnly)

\* An absent entry reads as "".
Entry(m, key) == IF m # Nil /\ key \in DOMAIN m THEN m[key] ELSE ""

MatchesMetadata(m, expected) == \A e \in Entries(expected) : Entry(m, e[1]) = e[2]

Matches(i, f) ==
    /\ HealthyOnly(f) => i.status = "health"
    /\ f.group \in {"", i.group}
    /\ f.version \in {"", i.version}
    /\ MatchesMetadata(i.metadata, f.metadata)

StoredInstances == {Decoded(k) : k \in {j \in Keys : Present(j)}}

\* Without a service the whole namespace is listed, and watched.
Prefix(namespace, service) ==
    IF service = <<>> THEN InstanceNamespacePrefix(namespace)
    ELSE InstanceServicePrefix(namespace, service)

\* The members of S among those of s, in their order.
Selected(s, S) ==
    LET first[n \in 0..Len(s)] ==
            IF n = 0 THEN <<>>
            ELSE IF s[n] \in S THEN Append(first[n - 1], s[n])
            ELSE first[n - 1]
    IN  first[Len(s)]

Snapshot(namespace, service, f) ==
    LET listed == {k \in Keys : /\ Present(k)
                                /\ Covers(Prefix(namespace, service), k)
                                /\ Matches(Decoded(k), f)}
        found  == Selected(SortedKeys, listed)
    IN  [j \in DOMAIN found |-> Decoded(found[j])]

=============================================================================
