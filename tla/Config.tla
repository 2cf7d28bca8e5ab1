------------------------------- MODULE Config -------------------------------
(***************************************************************************)
(* The config service (internal/core/service/config): publishing and       *)
(* deleting items under a revision check, and Resolve, which lists the     *)
(* three scopes one after the other and overlays them.  One namespace and  *)
(* one service: items of others share no key and no list with them.        *)
(*                                                                         *)
(* Requests are goroutines that interleave at their store calls.  No       *)
(* handler passes client overrides to Resolve, so they are left out, as    *)
(* are requests that validation turns down before their first write.       *)
(***************************************************************************)
EXTENDS EtcdStore

CONSTANTS
    Procs,          \* request goroutines
    Names,          \* config keys of an item, within a scope
    Values,
    Writable,       \* scopes that are published to
    Initially,      \* [Keys -> Values or NoValue]: items published before
    NoRequest,
    MaxRev,         \* bound: writes are received below this revision
    MaxModeRev      \* bound: the namespace changes below this revision

Scopes == <<"global", "namespace", "service">>   \* each overrides those before it
Rank(s) == CHOOSE n \in 1..3 : Scopes[n] = s

ItemKeys == {"global", "namespace", "service"} \X Names

ASSUME ConfigAssumption ==
    /\ Keys = ItemKeys
    /\ NoValue \notin Values
    /\ Writable \subseteq {"global", "namespace", "service"}
    /\ Initially \in [Keys -> Values \cup {NoValue}]
    /\ MaxRev \in Nat /\ MaxModeRev \in Nat

VARIABLES
    mode,       \* access mode of the namespace
    pc,         \* next store call of each goroutine, or its answer
    req,        \* the request it serves
    effective,  \* [Names -> effective item]: what it resolved so far
    views       \* history: what the store held since it got the request

locals == <<pc, req, effective>>
vars == <<storeVars, mode, locals, views>>

AccessModes == {"read_write", "read_only", "write_only", "no_read_no_write"}
AllowsRead(m)  == m \in {"read_write", "read_only"}
AllowsWrite(m) == m \in {"read_write", "write_only"}

EffectiveItem == [scope : {"global", "namespace", "service"}, value : Values]
NoItem        == [scope |-> "none", value |-> NoValue]
NoItems       == [n \in Names |-> NoItem]

Init ==
    /\ kv = [k \in Keys |-> IF Initially[k] = NoValue THEN Missing
                            ELSE Record(Initially[k], 1, NoLease)]
    /\ rev = 1
    /\ leases = [l \in Leases |-> "free"]
    /\ mode = "read_write"
    /\ pc = [p \in Procs |-> "idle"]
    /\ req = [p \in Procs |-> NoRequest]
    /\ effective = [p \in Procs |-> NoItems]
    /\ views = [p \in Procs |-> {}]

Goto(p, call) == pc' = [pc EXCEPT ![p] = call]
Key(p) == req[p].key

-----------------------------------------------------------------------------
(* Put and Delete.  The caller has read the item (GetRaw) and passes the   *)
(* revision it saw, 0 when it means to create it.                          *)

ChecksAccessOfNamespaceItems(scope) == scope = "namespace"    \* mutant
ChecksAccess(scope) == scope # "global"

Receive(p, r) ==
    /\ pc[p] = "idle"
    /\ req' = [req EXCEPT ![p] = r]
    /\ UNCHANGED <<storeVars, mode, effective>>

ReceivePut(p) ==
    \E k \in Keys, v \in Values :
        \E expected \in {0, kv[k].mod} :
            /\ rev < MaxRev
            /\ k[1] \in Writable
            /\ Receive(p, [op |-> "put", key |-> k, value |-> v, expected |-> expected,
                           seen |-> IF expected = 0 THEN NoValue ELSE kv[k].value])
            /\ Goto(p, IF ChecksAccess(k[1]) THEN "check_write" ELSE "write")

ReceiveDelete(p) ==
    \E k \in Keys :
        /\ rev < MaxRev
        /\ k[1] \in Writable
        /\ Present(k)
        /\ Receive(p, [op |-> "delete", key |-> k, expected |-> kv[k].mod, seen |-> kv[k].value])
        /\ Goto(p, IF ChecksAccess(k[1]) THEN "check_write" ELSE "write")

CheckWrite(p) ==
    /\ pc[p] = "check_write"
    /\ Goto(p, IF AllowsWrite(mode) THEN "write" ELSE "refused")
    /\ UNCHANGED <<storeVars, mode, req, effective>>

\* Mutant: the revision that the caller saw is not compared.
PutItemUnchecked(p) ==
    /\ pc[p] = "write" /\ req[p].op = "put"
    /\ Put(Key(p), req[p].value, NoLease)
    /\ Goto(p, "ok")
    /\ UNCHANGED <<mode, req, effective>>

PutItem(p) ==
    /\ pc[p] = "write" /\ req[p].op = "put"
    /\ IF req[p].expected = 0
       THEN Create(Key(p), req[p].value, NoLease)
       ELSE CAS(Key(p), req[p].expected, req[p].value, NoLease)
    /\ Goto(p, "ok")
    /\ UNCHANGED <<mode, req, effective>>

DeleteItem(p) ==
    /\ pc[p] = "write" /\ req[p].op = "delete"
    /\ DeleteCAS(Key(p), req[p].expected)
    /\ Goto(p, "ok")
    /\ UNCHANGED <<mode, req, effective>>

\* All three refuse when the key is not at the expected revision.
WriteRefused(p) ==
    /\ pc[p] = "write"
    /\ CASRefused(Key(p), req[p].expected, NoLease)
    /\ Goto(p, "refused")
    /\ UNCHANGED <<storeVars, mode, req, effective>>

-----------------------------------------------------------------------------
(* Resolve: a read check of its own, then GetRaw of each scope in turn,    *)
(* which checks again for all but the global scope.                        *)

ReceiveResolve(p) ==
    /\ Receive(p, [op |-> "resolve"])
    /\ Goto(p, "check_resolve")

Follows == [check_resolve   |-> "global",    check_namespace |-> "namespace",
            check_service   |-> "service",   global          |-> "check_namespace",
            namespace       |-> "check_service", service     |-> "ok"]

CheckRead(p) ==
    /\ pc[p] \in {"check_resolve", "check_namespace", "check_service"}
    /\ Goto(p, IF AllowsRead(mode) THEN Follows[pc[p]] ELSE "refused")
    /\ UNCHANGED <<storeVars, mode, req, effective>>

\* Mutants: an item that is not there counts; the first scope that has an
\* item keeps it.
OverlayMissingToo(items, scope) ==
    [n \in Names |-> [scope |-> scope, value |-> kv[<<scope, n>>].value]]

OverlayKeepingFirst(items, scope) ==
    [n \in Names |-> IF items[n] # NoItem \/ ~Present(<<scope, n>>) THEN items[n]
                     ELSE [scope |-> scope, value |-> kv[<<scope, n>>].value]]

Overlay(items, scope) ==
    [n \in Names |-> IF Present(<<scope, n>>)
                     THEN [scope |-> scope, value |-> kv[<<scope, n>>].value] ELSE items[n]]

ListScope(p) ==
    /\ pc[p] \in {"global", "namespace", "service"}
    /\ effective' = [effective EXCEPT ![p] = Overlay(@, pc[p])]
    /\ Goto(p, Follows[pc[p]])
    /\ UNCHANGED <<storeVars, mode, req>>

Return(p) ==
    /\ pc[p] \in {"ok", "refused"}
    /\ Goto(p, "idle")
    /\ req' = [req EXCEPT ![p] = NoRequest]
    /\ effective' = [effective EXCEPT ![p] = NoItems]
    /\ UNCHANGED <<storeVars, mode>>

\* namespaces.UpdateAccessMode: a write to the same etcd.
SetAccessMode ==
    /\ rev < MaxModeRev
    /\ \E m \in AccessModes : mode' = m
    /\ rev' = rev + 1
    /\ UNCHANGED <<kv, leases, locals>>

-----------------------------------------------------------------------------

Step ==
    \/ SetAccessMode
    \/ \E p \in Procs :
          \/ ReceivePut(p) \/ ReceiveDelete(p) \/ ReceiveResolve(p)
          \/ CheckWrite(p) \/ PutItem(p) \/ DeleteItem(p) \/ WriteRefused(p)
          \/ CheckRead(p) \/ ListScope(p)
          \/ Return(p)

Held == [items |-> [k \in Keys |-> kv[k].value], mode |-> mode]

Watched ==
    views' = [p \in Procs |-> IF pc'[p] = "idle" THEN {} ELSE views[p] \cup {Held'}]

Next == Step /\ Watched

Spec == Init /\ [][Next]_vars

-----------------------------------------------------------------------------

Request ==
         [op : {"put"}, key : Keys, value : Values, expected : Nat, seen : Values \cup {NoValue}]
    \cup [op : {"delete"}, key : Keys, expected : Nat, seen : Values]
    \cup [op : {"resolve"}]

ASSUME NoneAssumption == NoRequest \notin Request

Calls == {"check_resolve", "check_namespace", "check_service", "global", "namespace", "service"}

TypeOK ==
    /\ kv \in [Keys -> [value : Values \cup {NoValue}, mod : Nat, lease : {NoLease}]]
    /\ rev \in Nat
    /\ mode \in AccessModes
    /\ pc \in [Procs -> {"idle", "check_write", "write", "ok", "refused"} \cup Calls]
    /\ req \in [Procs -> Request \cup {NoRequest}]
    /\ effective \in [Procs -> [Names -> EffectiveItem \cup {NoItem}]]

Acknowledged(p, ops) == pc[p] = "write" /\ pc'[p] = "ok" /\ req[p].op \in ops

\* README, key metadata under CAS: an acknowledged Put or Delete replaced the
\* very item its caller had read; nobody changed it, or changed it and back,
\* since then.  One that was to create the item found none.
NothingOverwritten ==
    [][\A p \in Procs : Acknowledged(p, {"put", "delete"}) =>
          IF req[p].expected = 0
          THEN kv[Key(p)].value = NoValue
          ELSE \A v \in views[p] : v.items[Key(p)] = req[p].seen]_vars

\* A request that arrives after its namespace stopped allowing writes (reads)
\* neither changes the namespace's items nor is shown them (CheckWrite and
\* CheckRead, which other requests may overtake between check and use).
AccessRespected ==
    /\ [][\A p \in Procs : Acknowledged(p, {"put", "delete"}) /\ Key(p)[1] # "global" =>
             \E v \in views[p] : AllowsWrite(v.mode)]_vars
    /\ [](\A p \in Procs : pc[p] = "ok" /\ req[p] = [op |-> "resolve"] =>
             \E v \in views[p] : AllowsRead(v.mode))

Resolved(p) == pc[p] = "ok" /\ req[p] = [op |-> "resolve"]

\* Whatever else is published meanwhile, Resolve shows an item only in a form
\* it had in its scope during the request, and an item that was there all the
\* time gives way to a higher scope only (Resolve's overlay order).
ResolvedByPrecedence ==
    \A p \in Procs, n \in Names : Resolved(p) =>
        LET item == effective[p][n]
        IN  /\ item # NoItem => \E v \in views[p] : v.items[<<item.scope, n>>] = item.value
            /\ \A s \in {"global", "namespace", "service"} :
                  (\A v \in views[p] : v.items[<<s, n>>] # NoValue) =>
                      item # NoItem /\ Rank(item.scope) >= Rank(s)

\* The effective value of n, as the overlay of the three scopes at one moment.
InForce(items, n) ==
    LET ranks == {r \in 1..3 : items[<<Scopes[r], n>>] # NoValue}
        top   == CHOOSE r \in ranks : \A q \in ranks : q <= r
    IN  IF ranks = {} THEN NoItem
        ELSE [scope |-> Scopes[top], value |-> items[<<Scopes[top], n>>]]

\* The scopes whose items changed during p's request are at most one.
OneScopeChanged(p) ==
    \A v, w \in views[p], j, k \in Keys :
        v.items[j] # w.items[j] /\ v.items[k] # w.items[k] => j[1] = k[1]

\* While a single scope is written to, what Resolve returns is the effective
\* config of one moment of the request, though its three lists are of three
\* (README: "global < namespace < service").
ResolvedAtOnce ==
    \A p \in Procs : Resolved(p) /\ OneScopeChanged(p) =>
        \E v \in views[p] : effective[p] = [n \in Names |-> InForce(v.items, n)]

\* What Resolve answers, whatever is written between its three lists.
ResolvedAsInForce == ResolvedByPrecedence /\ ResolvedAtOnce

\* Each value shown was in force at some time of the request, whatever is
\* written (README: a deleted item falls back to the upper scope at once).
ResolvedInForce ==
    \A p \in Procs, n \in Names : Resolved(p) =>
        \E v \in views[p] : effective[p][n] = InForce(v.items, n)

=============================================================================
