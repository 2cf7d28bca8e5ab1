---------------------------- MODULE ConfigProofs ----------------------------
(***************************************************************************)
(* Proofs about Config for any number of goroutines, names and values.     *)
(***************************************************************************)
EXTENDS Config, TLAPS

Three == {"global", "namespace", "service"}

(***************************************************************************)
(* The inductive invariant.  An item has a value exactly when it is there, *)
(* and no revision lies ahead.                                             *)
(***************************************************************************)
StoreShape ==
    /\ \A k \in Keys : kv[k].mod <= rev
    /\ \A k \in Keys : Present(k) <=> kv[k].value # NoValue

\* The history of a request has the present state.
Current(p) == IF pc[p] = "idle" THEN views[p] = {} ELSE Held \in views[p]

Writes(p) == req[p] # NoRequest /\ req[p].op \in {"put", "delete"}

\* While an item is at the revision the caller saw, it is what the caller saw,
\* and has been since the request came in.
WriteStage(p) ==
    /\ pc[p] \in {"check_write", "write"} => Writes(p)
    /\ Writes(p) => pc[p] \notin Calls
    /\ pc[p] \in {"check_write", "write"} =>
          /\ req[p].expected <= rev
          /\ req[p].op = "delete" => req[p].expected > 0
          /\ req[p].expected > 0 /\ kv[Key(p)].mod = req[p].expected =>
                \A v \in views[p] : v.items[Key(p)] = req[p].seen
    /\ pc[p] = "write" /\ Key(p)[1] # "global" => \E v \in views[p] : AllowsWrite(v.mode)

Resolves(p) == req[p] = [op |-> "resolve"]

\* An item as the list of a scope in v leaves it.
Over(item, v, scope, n) ==
    IF v.items[<<scope, n>>] # NoValue
    THEN [scope |-> scope, value |-> v.items[<<scope, n>>]] ELSE item

One(u)         == [n \in Names |-> Over(NoItem, u, "global", n)]
Two(u, v)      == [n \in Names |-> Over(One(u)[n], v, "namespace", n)]
All(u, v, w)  == [n \in Names |-> Over(Two(u, v)[n], w, "service", n)]

\* What the three lists found, each at a moment of its own.
Listed(p) ==
    /\ pc[p] \in {"check_resolve", "global"} => effective[p] = NoItems
    /\ pc[p] \in {"check_namespace", "namespace"} => \E u \in views[p] : effective[p] = One(u)
    /\ pc[p] \in {"check_service", "service"} =>
          \E u, v \in views[p] : effective[p] = Two(u, v)
    /\ pc[p] = "ok" /\ Resolves(p) =>
          \E u, v, w \in views[p] : effective[p] = All(u, v, w)

ReadStage(p) ==
    /\ pc[p] \in Calls => Resolves(p)
    /\ pc[p] \in Calls \ {"check_resolve"} \/ (pc[p] = "ok" /\ Resolves(p)) =>
          \E v \in views[p] : AllowsRead(v.mode)
    /\ Listed(p)

IdleStage(p) == pc[p] = "idle" => req[p] = NoRequest /\ effective[p] = NoItems

Stage(p) == Current(p) /\ WriteStage(p) /\ ReadStage(p) /\ IdleStage(p)
Stages == \A p \in Procs : Stage(p)

IInv == TypeOK /\ StoreShape /\ Stages

-----------------------------------------------------------------------------

LEMMA KeyShape ==
    /\ \A k \in Keys : k[1] \in Three /\ k[2] \in Names
    /\ \A s \in Three, n \in Names : <<s, n>> \in Keys /\ <<s, n>>[1] = s
  BY ConfigAssumption DEF ItemKeys, Three

LEMMA InitIInv == Init => IInv
<1> SUFFICES ASSUME Init PROVE IInv
  OBVIOUS
<1> USE DEF Init, Missing, Record, Present
<1>1. TypeOK
  BY ConfigAssumption DEF TypeOK, AccessModes, NoItems
<1>2. StoreShape
  BY ConfigAssumption DEF StoreShape
<1>3. Stages
  BY DEF Stages, Stage, Current, WriteStage, Writes, ReadStage, Listed, Calls, IdleStage
<1> QED
  BY <1>1, <1>2, <1>3 DEF IInv

LEMMA WriteRequest ==
    ASSUME NEW r \in Request, r.op \in {"put", "delete"}
    PROVE  /\ r.key \in Keys /\ r.expected \in Nat /\ r.seen \in Values \cup {NoValue}
           /\ r # [op |-> "resolve"]
           /\ r.op = "put" => r.value \in Values
<1>1. r \in [op : {"put"}, key : Keys, value : Values, expected : Nat, seen : Values \cup {NoValue}]
      \/ r \in [op : {"delete"}, key : Keys, expected : Nat, seen : Values]
  BY DEF Request
<1>2. [op |-> "resolve"].op = "resolve"
  OBVIOUS
<1> QED
  BY <1>1, <1>2

-----------------------------------------------------------------------------
(* A step as the goroutines see it that do not take it.                    *)

\* The store only moves on: what changed has a revision of its own.
Onward ==
    /\ rev' \in Nat /\ rev <= rev'
    /\ \A k \in Keys : kv'[k] = kv[k] \/ kv'[k].mod > rev \/ kv'[k].mod = 0

\* A goroutine that does not act.
Still(q) == pc'[q] = pc[q] /\ req'[q] = req[q] /\ effective'[q] = effective[q]

LEMMA StillStage ==
    ASSUME IInv, Onward, Watched, NEW q \in Procs, Still(q)
    PROVE  Stage(q)'
<1> USE DEF Still
<1>1. Current(q) /\ WriteStage(q) /\ ReadStage(q) /\ IdleStage(q)
  BY DEF IInv, Stages, Stage
<1>2. views'[q] = IF pc[q] = "idle" THEN {} ELSE views[q] \cup {Held'}
  BY DEF Watched
<1>3. Current(q)'
  BY <1>1, <1>2 DEF Current
<1>4. WriteStage(q)'
  <2>1. CASE ~(pc[q] \in {"check_write", "write"})
    BY <1>1, <2>1 DEF WriteStage, Writes
  <2>2. CASE pc[q] \in {"check_write", "write"}
    <3>1. Writes(q) /\ Key(q) \in Keys /\ req[q].expected \in Nat
      BY <1>1, <2>2, WriteRequest DEF WriteStage, Writes, Key, IInv, TypeOK
    <3>2. ASSUME req[q].expected > 0, kv'[Key(q)].mod = req[q].expected, NEW v \in views'[q]
          PROVE  v.items[Key(q)] = req[q].seen
      <4>1. kv'[Key(q)] = kv[Key(q)]
        BY <1>1, <2>2, <3>1, <3>2 DEF Onward, WriteStage, IInv, TypeOK
      <4>2. CASE v \in views[q]
        BY <1>1, <2>2, <3>2, <4>1, <4>2 DEF WriteStage
      <4>3. CASE v = Held'
        <5>1. v.items[Key(q)] = kv'[Key(q)].value
          BY <3>1, <4>3 DEF Held
        <5>2. Held.items[Key(q)] = kv[Key(q)].value /\ Held \in views[q]
          BY <1>1, <2>2, <3>1 DEF Held, Current
        <5> QED
          BY <1>1, <2>2, <3>2, <4>1, <5>1, <5>2 DEF WriteStage
      <4> QED
        BY <1>2, <2>2, <3>2, <4>2, <4>3
    <3>3. pc[q] = "write" /\ Key(q)[1] # "global" => \E v \in views'[q] : AllowsWrite(v.mode)
      BY <1>1, <1>2, <2>2 DEF WriteStage
    <3>4. Key(q)' = Key(q) /\ (Writes(q)' <=> Writes(q))
      BY DEF Key, Writes
    <3>5. req[q].expected <= rev'
      BY <1>1, <2>2, <3>1 DEF WriteStage, Onward, IInv, TypeOK
    <3> QED
      BY <1>1, <2>2, <3>2, <3>3, <3>4, <3>5 DEF WriteStage
  <2> QED
    BY <2>1, <2>2
<1>5. ReadStage(q)'
  <2>1. pc[q] # "idle" => views[q] \subseteq views'[q]
    BY <1>2
  <2>2. Listed(q)'
    <3>1. Listed(q)
      BY <1>1 DEF ReadStage
    <3>2. pc[q] \in {"check_namespace", "namespace"} => \E u \in views'[q] : effective[q] = One(u)
      BY <2>1, <3>1 DEF Listed
    <3>3. pc[q] \in {"check_service", "service"} =>
              \E u, v \in views'[q] : effective[q] = Two(u, v)
      BY <2>1, <3>1 DEF Listed
    <3>4. pc[q] = "ok" /\ Resolves(q) => \E u, v, w \in views'[q] : effective[q] = All(u, v, w)
      BY <2>1, <3>1 DEF Listed
    <3> QED
      BY <3>1, <3>2, <3>3, <3>4 DEF Listed, Resolves
  <2> QED
    BY <1>1, <2>1, <2>2 DEF ReadStage, Resolves, Calls
<1>6. IdleStage(q)'
  BY <1>1 DEF IdleStage
<1> QED
  BY <1>3, <1>4, <1>5, <1>6 DEF Stage

\* A step of p alone.
LEMMA OneActs ==
    ASSUME IInv, Onward, Watched, TypeOK', StoreShape', NEW p \in Procs, Stage(p)',
           \A q \in Procs \ {p} : Still(q)
    PROVE  IInv'
  BY StillStage DEF IInv, Stages

LEMMA History ==
    ASSUME IInv, Watched, NEW p \in Procs, pc'[p] # "idle"
    PROVE  /\ Current(p)' /\ Held' \in views'[p]
           /\ views[p] \subseteq views'[p]
           /\ pc[p] = "idle" => views'[p] = {Held'}
<1>1. views'[p] = views[p] \cup {Held'}
  BY DEF Watched
<1>2. Current(p)
  BY DEF IInv, Stages, Stage
<1> QED
  BY <1>1, <1>2 DEF Current

LEMMA Quiet ==
    ASSUME IInv, UNCHANGED <<kv, rev>>
    PROVE  Onward /\ StoreShape'
  BY DEF IInv, TypeOK, StoreShape, Onward, Present

LEMMA SetAccessModeStep ==
    ASSUME IInv, SetAccessMode, Watched
    PROVE  IInv'
<1> USE DEF SetAccessMode, locals
<1>1. TypeOK'
  BY DEF IInv, TypeOK
<1>2. Onward /\ StoreShape'
  BY DEF IInv, TypeOK, StoreShape, Onward, Present
<1>3. \A q \in Procs : Still(q)
  BY DEF Still
<1> QED
  BY <1>1, <1>2, <1>3, StillStage DEF IInv, Stages

LEMMA ReceiveWriteStep ==
    ASSUME IInv, Watched, NEW p \in Procs, NEW r \in Request, Receive(p, r),
           r.op \in {"put", "delete"}, r.op = "delete" => r.expected > 0,
           r.expected \in {0, kv[r.key].mod},
           r.expected > 0 => r.seen = kv[r.key].value,
           Goto(p, IF ChecksAccess(r.key[1]) THEN "check_write" ELSE "write")
    PROVE  IInv'
<1> USE DEF Receive, Goto, storeVars
<1>0. r.key \in Keys /\ r # [op |-> "resolve"] /\ r # NoRequest /\ r.expected \in Nat
  BY WriteRequest, NoneAssumption
<1>1. TypeOK'
  BY DEF IInv, TypeOK
<1>2. Onward /\ StoreShape'
  BY Quiet
<1>3. \A q \in Procs \ {p} : Still(q)
  BY DEF Still, IInv, TypeOK
<1>4. /\ pc'[p] \in {"check_write", "write"} /\ req'[p] = r
      /\ pc'[p] = "write" => r.key[1] = "global"
  BY DEF IInv, TypeOK, ChecksAccess
<1>5. Current(p)' /\ views'[p] = {Held'} /\ Held' = Held
  BY <1>4, History DEF Held
<1>6. Held.items[r.key] = kv[r.key].value
  BY <1>0 DEF Held
<1>7. r.expected <= rev
  BY <1>0 DEF IInv, StoreShape, TypeOK
<1>8. WriteStage(p)'
  BY <1>0, <1>4, <1>5, <1>6, <1>7 DEF WriteStage, Writes, Key, Calls
<1>9. ReadStage(p)' /\ IdleStage(p)'
  BY <1>4 DEF ReadStage, Listed, IdleStage, Calls
<1> QED
  BY <1>1, <1>2, <1>3, <1>5, <1>8, <1>9, OneActs DEF Stage

LEMMA ReceivePutStep ==
    ASSUME IInv, Watched, NEW p \in Procs, ReceivePut(p)
    PROVE  IInv'
<1>1. PICK k \in Keys, v \in Values, expected \in Nat :
         /\ expected \in {0, kv[k].mod}
         /\ Receive(p, [op |-> "put", key |-> k, value |-> v, expected |-> expected,
                        seen |-> IF expected = 0 THEN NoValue ELSE kv[k].value])
         /\ Goto(p, IF ChecksAccess(k[1]) THEN "check_write" ELSE "write")
  BY DEF ReceivePut, IInv, TypeOK
<1> DEFINE r == [op |-> "put", key |-> k, value |-> v, expected |-> expected,
                 seen |-> IF expected = 0 THEN NoValue ELSE kv[k].value]
<1>2. /\ r.op = "put" /\ r.key = k /\ r.expected = expected
      /\ r.seen = IF expected = 0 THEN NoValue ELSE kv[k].value
  OBVIOUS
<1>3. r \in Request
  BY <1>1 DEF Request, IInv, TypeOK
<1> HIDE DEF r
<1>4. Receive(p, r)
  BY <1>1 DEF r
<1> QED
  BY <1>1, <1>2, <1>3, <1>4, ReceiveWriteStep DEF IInv, TypeOK

LEMMA ReceiveDeleteStep ==
    ASSUME IInv, Watched, NEW p \in Procs, ReceiveDelete(p)
    PROVE  IInv'
<1>1. PICK k \in Keys :
         /\ Present(k)
         /\ Receive(p, [op |-> "delete", key |-> k, expected |-> kv[k].mod, seen |-> kv[k].value])
         /\ Goto(p, IF ChecksAccess(k[1]) THEN "check_write" ELSE "write")
  BY DEF ReceiveDelete
<1> DEFINE r == [op |-> "delete", key |-> k, expected |-> kv[k].mod, seen |-> kv[k].value]
<1>2. r.op = "delete" /\ r.key = k /\ r.expected = kv[k].mod /\ r.seen = kv[k].value
  OBVIOUS
<1>3. r \in Request
  BY <1>1 DEF Request, IInv, TypeOK, StoreShape
<1> HIDE DEF r
<1>4. Receive(p, r)
  BY <1>1 DEF r
<1> QED
  BY <1>1, <1>2, <1>3, <1>4, ReceiveWriteStep DEF Present

LEMMA CheckWriteStep ==
    ASSUME IInv, Watched, NEW p \in Procs, CheckWrite(p)
    PROVE  IInv'
<1> USE DEF CheckWrite, Goto, storeVars
<1>1. TypeOK'
  BY DEF IInv, TypeOK
<1>2. Onward /\ StoreShape'
  BY Quiet
<1>3. \A q \in Procs \ {p} : Still(q)
  BY DEF Still, IInv, TypeOK
<1>4. /\ pc'[p] \in {"write", "refused"} /\ req'[p] = req[p]
      /\ pc'[p] = "write" => AllowsWrite(mode)
  BY DEF IInv, TypeOK
<1>5. Current(p)' /\ views'[p] = views[p] \cup {Held'} /\ Held' = Held /\ Held \in views[p]
  BY <1>4, History DEF Held, Watched, IInv, Stages, Stage, Current
<1>6. WriteStage(p)
  BY DEF IInv, Stages, Stage
<1>7. AllowsWrite(mode) => \E v \in views'[p] : AllowsWrite(v.mode)
  BY <1>5 DEF Held
<1>8. WriteStage(p)'
  BY <1>4, <1>5, <1>6, <1>7 DEF WriteStage, Writes, Key, Calls
<1>9. ReadStage(p)' /\ IdleStage(p)'
  BY <1>4 DEF ReadStage, Listed, IdleStage, Calls
<1> QED
  BY <1>1, <1>2, <1>3, <1>5, <1>8, <1>9, OneActs DEF Stage

-----------------------------------------------------------------------------
(* The writes.                                                             *)

\* What an acknowledged or refused write leaves.
LEMMA Written ==
    ASSUME IInv, Watched, NEW p \in Procs, pc[p] = "write", NEW a \in {"ok", "refused"},
           Goto(p, a), UNCHANGED <<mode, req, effective>>, Onward, StoreShape',
           kv' \in [Keys -> [value : Values \cup {NoValue}, mod : Nat, lease : {NoLease}]]
    PROVE  IInv'
<1> USE DEF Goto
<1>1. TypeOK'
  BY DEF IInv, TypeOK, Onward
<1>2. \A q \in Procs \ {p} : Still(q)
  BY DEF Still, IInv, TypeOK
<1>3. pc'[p] = a /\ req'[p] = req[p]
  BY DEF IInv, TypeOK
<1>4. Current(p)'
  BY <1>3, History
<1>5. Writes(p)
  BY DEF IInv, Stages, Stage, WriteStage
<1>6. WriteStage(p)'
  BY <1>3 DEF WriteStage, Writes, Calls
<1>7. ~Resolves(p)
  BY <1>5, WriteRequest DEF Writes, Resolves, IInv, TypeOK
<1>8. ReadStage(p)' /\ IdleStage(p)'
  BY <1>3, <1>7 DEF ReadStage, Listed, Resolves, IdleStage, Calls
<1> QED
  BY <1>1, <1>2, <1>4, <1>6, <1>8, OneActs DEF Stage

LEMMA WriteKeyKeeps ==
    ASSUME IInv, NEW k \in Keys, NEW v \in Values, WriteKey(k, v, NoLease)
    PROVE  /\ Onward /\ StoreShape'
           /\ kv' \in [Keys -> [value : Values \cup {NoValue}, mod : Nat, lease : {NoLease}]]
<1> USE DEF WriteKey, Record
<1>1. rev' = rev + 1 /\ rev \in Nat
  BY DEF IInv, TypeOK
<1>2. kv' \in [Keys -> [value : Values \cup {NoValue}, mod : Nat, lease : {NoLease}]]
  BY <1>1 DEF IInv, TypeOK
<1>3. \A j \in Keys : kv'[j] = IF j = k THEN [value |-> v, mod |-> rev + 1, lease |-> NoLease]
                               ELSE kv[j]
  BY DEF IInv, TypeOK
<1>4. StoreShape'
  BY <1>1, <1>3, ConfigAssumption DEF StoreShape, Present, IInv, TypeOK
<1>5. Onward
  BY <1>1, <1>3 DEF Onward
<1> QED
  BY <1>2, <1>4, <1>5

LEMMA EraseKeeps ==
    ASSUME IInv, NEW K \in SUBSET Keys, EraseKeys(K)
    PROVE  /\ Onward /\ StoreShape'
           /\ kv' \in [Keys -> [value : Values \cup {NoValue}, mod : Nat, lease : {NoLease}]]
<1> USE DEF EraseKeys, Missing, Record
<1>1. rev' \in Nat /\ rev <= rev' /\ rev \in Nat
  BY DEF IInv, TypeOK
<1>2. kv' \in [Keys -> [value : Values \cup {NoValue}, mod : Nat, lease : {NoLease}]]
  BY DEF IInv, TypeOK
<1>3. \A j \in Keys : kv'[j] = kv[j] \/ (kv'[j].mod = 0 /\ kv'[j].value = NoValue)
  OBVIOUS
<1>4. StoreShape'
  BY <1>1, <1>2, <1>3 DEF StoreShape, Present, IInv, TypeOK
<1>5. Onward
  BY <1>1, <1>3 DEF Onward
<1> QED
  BY <1>2, <1>4, <1>5

LEMMA PutItemStep ==
    ASSUME IInv, Watched, NEW p \in Procs, PutItem(p)
    PROVE  IInv'
<1>1. Writes(p)
  BY DEF IInv, Stages, Stage, WriteStage, PutItem
<1>2. Key(p) \in Keys /\ req[p].value \in Values
  BY <1>1, WriteRequest DEF Writes, Key, IInv, TypeOK, PutItem
<1>3. WriteKey(Key(p), req[p].value, NoLease)
  BY DEF PutItem, Create, CAS
<1> QED
  BY <1>2, <1>3, WriteKeyKeeps, Written DEF PutItem

LEMMA DeleteItemStep ==
    ASSUME IInv, Watched, NEW p \in Procs, DeleteItem(p)
    PROVE  IInv'
<1>1. Writes(p)
  BY DEF IInv, Stages, Stage, WriteStage, DeleteItem
<1>2. Key(p) \in Keys
  BY <1>1, WriteRequest DEF Writes, Key, IInv, TypeOK
<1> QED
  BY <1>2, EraseKeeps, Written DEF DeleteItem, DeleteCAS

LEMMA WriteRefusedStep ==
    ASSUME IInv, Watched, NEW p \in Procs, WriteRefused(p)
    PROVE  IInv'
<1>1. UNCHANGED <<kv, rev, mode, req, effective>>
  BY DEF WriteRefused, storeVars
<1> QED
  BY <1>1, Quiet, Written DEF WriteRefused, IInv, TypeOK

-----------------------------------------------------------------------------
(* Resolve.                                                                *)

LEMMA ReceiveResolveStep ==
    ASSUME IInv, Watched, NEW p \in Procs, ReceiveResolve(p)
    PROVE  IInv'
<1> USE DEF ReceiveResolve, Receive, Goto, storeVars
<1>1. TypeOK'
  BY DEF IInv, TypeOK, Request, Calls
<1>2. Onward /\ StoreShape'
  BY Quiet
<1>3. \A q \in Procs \ {p} : Still(q)
  BY DEF Still, IInv, TypeOK
<1>4. pc'[p] = "check_resolve" /\ req'[p] = [op |-> "resolve"] /\ effective'[p] = effective[p]
  BY DEF IInv, TypeOK
<1>5. Current(p)' /\ effective[p] = NoItems
  BY <1>4, History DEF IInv, Stages, Stage, IdleStage
<1>6. [op |-> "resolve"].op = "resolve"
  OBVIOUS
<1>7. WriteStage(p)'
  BY <1>4, <1>6 DEF WriteStage, Writes
<1>8. ReadStage(p)' /\ IdleStage(p)'
  BY <1>4, <1>5 DEF ReadStage, Listed, Resolves, IdleStage
<1> QED
  BY <1>1, <1>2, <1>3, <1>5, <1>7, <1>8, OneActs DEF Stage

LEMMA FollowsCalls ==
    /\ Follows["check_resolve"] = "global" /\ Follows["global"] = "check_namespace"
    /\ Follows["check_namespace"] = "namespace" /\ Follows["namespace"] = "check_service"
    /\ Follows["check_service"] = "service" /\ Follows["service"] = "ok"
  BY DEF Follows

LEMMA CheckReadStep ==
    ASSUME IInv, Watched, NEW p \in Procs, CheckRead(p)
    PROVE  IInv'
<1> USE DEF CheckRead, Goto, storeVars
<1>1. /\ pc'[p] = IF AllowsRead(mode) THEN Follows[pc[p]] ELSE "refused"
      /\ req'[p] = req[p] /\ effective'[p] = effective[p]
  BY DEF IInv, TypeOK
<1>2. Follows[pc[p]] \in {"global", "namespace", "service"}
  BY FollowsCalls
<1>3. TypeOK'
  BY <1>2 DEF IInv, TypeOK, Calls
<1>4. Onward /\ StoreShape'
  BY Quiet
<1>5. \A q \in Procs \ {p} : Still(q)
  BY DEF Still, IInv, TypeOK
<1>6. Current(p)' /\ Held \in views'[p] /\ views[p] \subseteq views'[p]
  BY <1>1, <1>2, History DEF Held
<1>7. Resolves(p) /\ Listed(p)
  BY DEF IInv, Stages, Stage, ReadStage, Calls
<1>8. ~Writes(p)
  <2>1. [op |-> "resolve"].op = "resolve"
    OBVIOUS
  <2> QED
    BY <1>7, <2>1 DEF Resolves, Writes
<1>9. WriteStage(p)' /\ IdleStage(p)'
  BY <1>1, <1>2, <1>8 DEF WriteStage, Writes, IdleStage
<1>10. pc'[p] # "refused" => \E v \in views'[p] : AllowsRead(v.mode)
  BY <1>1, <1>6 DEF Held
<1>11. Listed(p)'
  <2>1. pc'[p] = "global" => effective[p] = NoItems
    BY <1>1, <1>7, FollowsCalls DEF Listed
  <2>2. pc'[p] = "namespace" => \E u \in views'[p] : effective[p] = One(u)
    BY <1>1, <1>6, <1>7, FollowsCalls DEF Listed
  <2>3. pc'[p] = "service" => \E u, v \in views'[p] : effective[p] = Two(u, v)
    BY <1>1, <1>6, <1>7, FollowsCalls DEF Listed
  <2> QED
    BY <1>1, <1>2, <2>1, <2>2, <2>3 DEF Listed
<1>12. ReadStage(p)'
  BY <1>1, <1>2, <1>7, <1>10, <1>11 DEF ReadStage, Resolves, Calls
<1> QED
  BY <1>3, <1>4, <1>5, <1>6, <1>9, <1>12, OneActs DEF Stage

\* The overlay of one list is that of the state it was taken from.
LEMMA OverlayNow ==
    ASSUME IInv, NEW items, NEW scope \in Three
    PROVE  Overlay(items, scope) = [n \in Names |-> Over(items[n], Held, scope, n)]
<1>1. \A n \in Names : /\ <<scope, n>> \in Keys
                       /\ Present(<<scope, n>>) <=> kv[<<scope, n>>].value # NoValue
                       /\ Held.items[<<scope, n>>] = kv[<<scope, n>>].value
  BY KeyShape DEF Held, IInv, StoreShape
<1> QED
  BY <1>1 DEF Overlay, Over

LEMMA ListScopeStep ==
    ASSUME IInv, Watched, NEW p \in Procs, ListScope(p)
    PROVE  IInv'
<1> USE DEF ListScope, Goto, storeVars
<1>1. /\ pc'[p] = Follows[pc[p]] /\ req'[p] = req[p]
      /\ effective'[p] = Overlay(effective[p], pc[p])
  BY DEF IInv, TypeOK
<1>2. pc'[p] \in {"check_namespace", "check_service", "ok"}
  BY <1>1, FollowsCalls
<1>3. TypeOK'
  <2>1. effective[p] \in [Names -> EffectiveItem \cup {NoItem}]
    BY DEF IInv, TypeOK
  <2>2. \A n \in Names : /\ <<pc[p], n>> \in Keys
                         /\ Present(<<pc[p], n>>) => kv[<<pc[p], n>>].value \in Values
    BY KeyShape DEF IInv, TypeOK, StoreShape, Three
  <2>3. Overlay(effective[p], pc[p]) \in [Names -> EffectiveItem \cup {NoItem}]
    BY <2>1, <2>2 DEF Overlay, EffectiveItem
  <2> QED
    BY <1>1, <1>2, <2>3 DEF IInv, TypeOK, Calls
<1>4. Onward /\ StoreShape'
  BY Quiet
<1>5. \A q \in Procs \ {p} : Still(q)
  BY DEF Still, IInv, TypeOK
<1>6. Current(p)' /\ Held \in views'[p] /\ views[p] \subseteq views'[p]
  BY <1>1, <1>2, History DEF Held
<1>7. Resolves(p) /\ Listed(p) /\ \E v \in views[p] : AllowsRead(v.mode)
  BY DEF IInv, Stages, Stage, ReadStage, Calls
<1>8. ~Writes(p)
  <2>1. [op |-> "resolve"].op = "resolve"
    OBVIOUS
  <2> QED
    BY <1>7, <2>1 DEF Resolves, Writes
<1>9. WriteStage(p)' /\ IdleStage(p)'
  BY <1>1, <1>2, <1>8 DEF WriteStage, Writes, IdleStage
<1>10. effective'[p] = [n \in Names |-> Over(effective[p][n], Held, pc[p], n)]
  BY <1>1, OverlayNow DEF Three
<1>11. Listed(p)'
  <2>1. CASE pc[p] = "global"
    <3>1. effective'[p] = One(Held)
      BY <1>7, <1>10, <2>1 DEF Listed, One, NoItems
    <3> QED
      BY <1>1, <1>6, <2>1, <3>1, FollowsCalls DEF Listed
  <2>2. CASE pc[p] = "namespace"
    <3>1. PICK u \in views[p] : effective[p] = One(u)
      BY <1>7, <2>2 DEF Listed
    <3>2. effective'[p] = Two(u, Held)
      BY <1>10, <2>2, <3>1 DEF Two
    <3> QED
      BY <1>1, <1>6, <2>2, <3>2, FollowsCalls DEF Listed
  <2>3. CASE pc[p] = "service"
    <3>1. PICK u, v \in views[p] : effective[p] = Two(u, v)
      BY <1>7, <2>3 DEF Listed
    <3>2. effective'[p] = All(u, v, Held)
      BY <1>10, <2>3, <3>1 DEF All
    <3> QED
      BY <1>1, <1>6, <2>3, <3>2, FollowsCalls DEF Listed
  <2> QED
    BY <2>1, <2>2, <2>3
<1>12. ReadStage(p)'
  BY <1>1, <1>2, <1>6, <1>7, <1>11 DEF ReadStage, Resolves
<1> QED
  BY <1>3, <1>4, <1>5, <1>6, <1>9, <1>12, OneActs DEF Stage

LEMMA ReturnStep ==
    ASSUME IInv, Watched, NEW p \in Procs, Return(p)
    PROVE  IInv'
<1> USE DEF Return, Goto, storeVars
<1>1. pc'[p] = "idle" /\ req'[p] = NoRequest /\ effective'[p] = NoItems
  BY DEF IInv, TypeOK
<1>2. TypeOK'
  BY DEF IInv, TypeOK, NoItems
<1>3. Onward /\ StoreShape'
  BY Quiet
<1>4. \A q \in Procs \ {p} : Still(q)
  BY DEF Still, IInv, TypeOK
<1>5. Current(p)'
  BY <1>1 DEF Current, Watched
<1>6. Stage(p)'
  BY <1>1, <1>5 DEF Stage, WriteStage, Writes, ReadStage, Listed, IdleStage, Calls
<1> QED
  BY <1>2, <1>3, <1>4, <1>6, OneActs

LEMMA StepKeepsIInv == IInv /\ [Next]_vars => IInv'
<1> SUFFICES ASSUME IInv, [Next]_vars PROVE IInv'
  OBVIOUS
<1>1. CASE UNCHANGED vars
  <2> USE <1>1 DEF vars, storeVars, locals
  <2>1. TypeOK' /\ StoreShape'
    BY DEF IInv, TypeOK, StoreShape, Present
  <2>2. Held' = Held
    BY DEF Held
  <2>3. ASSUME NEW p \in Procs PROVE Stage(p)'
    <3>1. Stage(p)
      BY DEF IInv, Stages
    <3>2. Current(p)' /\ WriteStage(p)' /\ IdleStage(p)'
      BY <2>2, <3>1 DEF Stage, Current, WriteStage, Writes, Key, IdleStage
    <3>3. ReadStage(p)'
      BY <3>1 DEF Stage, ReadStage, Resolves, Listed
    <3> QED
      BY <3>2, <3>3 DEF Stage
  <2> QED
    BY <2>1, <2>3 DEF IInv, Stages
<1>2. CASE Next
  <2>1. Step /\ Watched
    BY <1>2 DEF Next
  <2>2. CASE SetAccessMode
    BY <2>1, <2>2, SetAccessModeStep
  <2>3. ASSUME NEW p \in Procs,
               \/ ReceivePut(p) \/ ReceiveDelete(p) \/ ReceiveResolve(p)
               \/ CheckWrite(p) \/ PutItem(p) \/ DeleteItem(p) \/ WriteRefused(p)
               \/ CheckRead(p) \/ ListScope(p)
               \/ Return(p)
        PROVE  IInv'
    BY <2>1, <2>3, ReceivePutStep, ReceiveDeleteStep, ReceiveResolveStep, CheckWriteStep,
       PutItemStep, DeleteItemStep, WriteRefusedStep, CheckReadStep, ListScopeStep, ReturnStep
  <2> QED
    BY <2>1, <2>2, <2>3 DEF Step
<1> QED
  BY <1>1, <1>2

-----------------------------------------------------------------------------

\* Every state of every request fits the history above.
THEOREM Invariant == Spec => []IInv
<1> QED
  BY InitIInv, StepKeepsIInv, PTL DEF Spec

\* The declared shapes of the store, the requests and what Resolve has found
\* so far hold throughout.
THEOREM TypeCorrect == Spec => []TypeOK
<1>1. IInv => TypeOK
  BY DEF IInv
<1> QED
  BY <1>1, Invariant, PTL

\* A write that is acknowledged found the key at the revision its caller gave.
LEMMA AcknowledgedMatches ==
    ASSUME IInv, Step, NEW p \in Procs, Acknowledged(p, {"put", "delete"})
    PROVE  /\ kv[Key(p)].mod = req[p].expected /\ Key(p) \in Keys
           /\ req[p].expected \in Nat
<1>1. Writes(p) /\ pc[p] = "write" /\ pc'[p] = "ok"
  BY DEF Acknowledged, IInv, Stages, Stage, WriteStage
<1>2. Key(p) \in Keys /\ req[p].expected \in Nat
  BY <1>1, WriteRequest DEF Writes, Key, IInv, TypeOK
<1>3. ~SetAccessMode
  BY <1>1 DEF SetAccessMode, locals
<1>4. PICK q \in Procs :
          \/ ReceivePut(q) \/ ReceiveDelete(q) \/ ReceiveResolve(q)
          \/ CheckWrite(q) \/ PutItem(q) \/ DeleteItem(q) \/ WriteRefused(q)
          \/ CheckRead(q) \/ ListScope(q)
          \/ Return(q)
  BY <1>3 DEF Step
<1>5. q = p
  BY <1>1, <1>4 DEF ReceivePut, ReceiveDelete, ReceiveResolve, Receive, CheckWrite, PutItem,
     DeleteItem, WriteRefused, CheckRead, ListScope, Return, Goto, IInv, TypeOK
<1>6. PutItem(p) \/ DeleteItem(p)
  BY <1>1, <1>4, <1>5 DEF ReceivePut, ReceiveDelete, ReceiveResolve, Receive, CheckWrite,
     WriteRefused, CheckRead, ListScope, Return, Goto, IInv, TypeOK
<1>7. CASE PutItem(p)
  BY <1>2, <1>7 DEF PutItem, Create, CAS, Present, IInv, TypeOK
<1>8. CASE DeleteItem(p)
  <2>1. kv[Key(p)].mod = req[p].expected
    BY <1>8 DEF DeleteItem, DeleteCAS
  <2> QED
    BY <1>2, <2>1
<1> QED
  BY <1>2, <1>6, <1>7, <1>8

\* For any number of concurrent callers: an acknowledged Put or Delete replaced
\* the very item its caller had read (compare with the revision, not the value).
THEOREM WritesReplaceWhatWasRead == Spec => NothingOverwritten
<1>1. ASSUME IInv, [Next]_vars
      PROVE  [\A p \in Procs : Acknowledged(p, {"put", "delete"}) =>
                IF req[p].expected = 0
                THEN kv[Key(p)].value = NoValue
                ELSE \A v \in views[p] : v.items[Key(p)] = req[p].seen]_vars
  <2>1. CASE UNCHANGED vars
    BY <2>1
  <2>2. ASSUME Next, NEW p \in Procs, Acknowledged(p, {"put", "delete"})
        PROVE  IF req[p].expected = 0
               THEN kv[Key(p)].value = NoValue
               ELSE \A v \in views[p] : v.items[Key(p)] = req[p].seen
    <3>1. kv[Key(p)].mod = req[p].expected /\ Key(p) \in Keys /\ req[p].expected \in Nat
      BY <2>2, <1>1, AcknowledgedMatches DEF Next
    <3>2. WriteStage(p) /\ pc[p] = "write"
      BY <1>1, <2>2 DEF IInv, Stages, Stage, Acknowledged
    <3> QED
      BY <1>1, <3>1, <3>2 DEF WriteStage, IInv, StoreShape, Present
  <2> QED
    BY <1>1, <2>1, <2>2
<1> QED
  BY <1>1, Invariant, PTL DEF Spec, NothingOverwritten

\* A request that arrives once its namespace is closed to writes (to reads)
\* changes (is shown) nothing, however the checks and the calls interleave.
THEOREM ClosedMeansClosed == Spec => AccessRespected
<1>1. ASSUME IInv, [Next]_vars
      PROVE  [\A p \in Procs : Acknowledged(p, {"put", "delete"}) /\ Key(p)[1] # "global" =>
                \E v \in views[p] : AllowsWrite(v.mode)]_vars
  BY <1>1 DEF IInv, Stages, Stage, WriteStage, Acknowledged
<1>2. IInv => \A p \in Procs : pc[p] = "ok" /\ req[p] = [op |-> "resolve"] =>
                  \E v \in views[p] : AllowsRead(v.mode)
  BY DEF IInv, Stages, Stage, ReadStage, Resolves
<1> QED
  BY <1>1, <1>2, Invariant, PTL DEF Spec, AccessRespected

-----------------------------------------------------------------------------
(* What Resolve answers.                                                   *)

LEMMA Ranks == Rank("global") = 1 /\ Rank("namespace") = 2 /\ Rank("service") = 3
<1>1. Scopes[1] = "global" /\ Scopes[2] = "namespace" /\ Scopes[3] = "service"
  BY DEF Scopes
<1> QED
  BY <1>1 DEF Rank

\* The highest scope that has the item is the last one that overlays it.
LEMMA InForceIsOverlay ==
    ASSUME NEW v, NEW n \in Names
    PROVE  InForce(v.items, n) = All(v, v, v)[n]
<1> DEFINE ranks == {r \in 1..3 : v.items[<<Scopes[r], n>>] # NoValue}
           top   == CHOOSE r \in ranks : \A q \in ranks : q <= r
<1>1. Scopes[1] = "global" /\ Scopes[2] = "namespace" /\ Scopes[3] = "service"
  BY DEF Scopes
<1>2. All(v, v, v)[n] =
         Over(Over(Over(NoItem, v, "global", n), v, "namespace", n), v, "service", n)
  BY DEF All, Two, One
<1>3. ASSUME NEW r \in ranks, \A q \in ranks : q <= r
      PROVE  top = r
  <2>1. top \in ranks /\ \A q \in ranks : q <= top
    BY <1>3
  <2>2. ranks \subseteq 1..3
    OBVIOUS
  <2> HIDE DEF top, ranks
  <2>3. r <= top /\ top <= r /\ r \in 1..3 /\ top \in 1..3
    BY <1>3, <2>1, <2>2
  <2> QED
    BY <2>3
<1>4. InForce(v.items, n) =
        IF ranks = {} THEN NoItem
        ELSE [scope |-> Scopes[top], value |-> v.items[<<Scopes[top], n>>]]
  BY DEF InForce
<1>5. CASE v.items[<<"service", n>>] # NoValue
  <2>1. 3 \in ranks /\ top = 3
    BY <1>1, <1>3, <1>5
  <2> QED
    BY <1>1, <1>2, <1>4, <1>5, <2>1 DEF Over
<1>6. CASE v.items[<<"service", n>>] = NoValue /\ v.items[<<"namespace", n>>] # NoValue
  <2>1. 2 \in ranks /\ top = 2
    BY <1>1, <1>3, <1>6
  <2> QED
    BY <1>1, <1>2, <1>4, <1>6, <2>1 DEF Over
<1>7. CASE /\ v.items[<<"service", n>>] = NoValue /\ v.items[<<"namespace", n>>] = NoValue
           /\ v.items[<<"global", n>>] # NoValue
  <2>1. 1 \in ranks /\ top = 1
    BY <1>1, <1>3, <1>7
  <2> QED
    BY <1>1, <1>2, <1>4, <1>7, <2>1 DEF Over
<1>8. CASE /\ v.items[<<"service", n>>] = NoValue /\ v.items[<<"namespace", n>>] = NoValue
           /\ v.items[<<"global", n>>] = NoValue
  <2>1. ranks = {}
    BY <1>1, <1>8
  <2> QED
    BY <1>2, <1>4, <1>8, <2>1 DEF Over
<1> QED
  BY <1>5, <1>6, <1>7, <1>8

LEMMA Precedence == IInv => ResolvedByPrecedence
<1> SUFFICES ASSUME IInv, NEW p \in Procs, NEW n \in Names, Resolved(p)
             PROVE  LET item == effective[p][n]
                    IN  /\ item # NoItem =>
                              \E v \in views[p] : v.items[<<item.scope, n>>] = item.value
                        /\ \A s \in {"global", "namespace", "service"} :
                              (\A v \in views[p] : v.items[<<s, n>>] # NoValue) =>
                                  item # NoItem /\ Rank(item.scope) >= Rank(s)
  BY DEF ResolvedByPrecedence
<1>1. PICK u, v, w \in views[p] : effective[p] = All(u, v, w)
  BY DEF IInv, Stages, Stage, ReadStage, Listed, Resolved, Resolves
<1>2. effective[p][n] = Over(Over(Over(NoItem, u, "global", n), v, "namespace", n),
                             w, "service", n)
  BY <1>1 DEF All, Two, One
<1> QED
  BY <1>1, <1>2, Ranks DEF Over, NoItem

LEMMA AtOnce == IInv => ResolvedAtOnce
<1> SUFFICES ASSUME IInv, NEW p \in Procs, Resolved(p), OneScopeChanged(p)
             PROVE  \E v \in views[p] : effective[p] = [n \in Names |-> InForce(v.items, n)]
  BY DEF ResolvedAtOnce
<1>1. PICK u, v, w \in views[p] : effective[p] = All(u, v, w)
  BY DEF IInv, Stages, Stage, ReadStage, Listed, Resolved, Resolves
<1>2. PICK s \in Three : \A x, y \in views[p], j \in Keys : x.items[j] # y.items[j] => j[1] = s
  <2>1. CASE \E x, y \in views[p], j \in Keys : x.items[j] # y.items[j]
    <3>1. PICK x, y \in views[p], j \in Keys : x.items[j] # y.items[j]
      BY <2>1
    <3> QED
      BY <3>1, KeyShape DEF OneScopeChanged
  <2>2. CASE ~\E x, y \in views[p], j \in Keys : x.items[j] # y.items[j]
    BY <2>2 DEF Three
  <2> QED
    BY <2>1, <2>2
\* The list of the scope that changes tells the moment.
<1>3. PICK z \in views[p] : /\ s = "global" => z = u
                            /\ s = "namespace" => z = v
                            /\ s = "service" => z = w
  BY DEF Three
<1>4. \A n \in Names : /\ u.items[<<"global", n>>] = z.items[<<"global", n>>]
                       /\ v.items[<<"namespace", n>>] = z.items[<<"namespace", n>>]
                       /\ w.items[<<"service", n>>] = z.items[<<"service", n>>]
  BY <1>2, <1>3, KeyShape DEF Three
<1>5. \A n \in Names : All(u, v, w)[n] = All(z, z, z)[n]
  BY <1>4 DEF All, Two, One, Over
<1>6. effective[p] = [n \in Names |-> effective[p][n]]
  BY DEF IInv, TypeOK
<1>7. \A n \in Names : effective[p][n] = InForce(z.items, n)
  BY <1>1, <1>5, InForceIsOverlay
<1> QED
  BY <1>6, <1>7

\* Whatever is published between its three lists, Resolve keeps the precedence
\* of the scopes; and while only one scope changes, its answer is the effective
\* configuration of a single moment of the request.
THEOREM AnswersInForce == Spec => []ResolvedAsInForce
<1>1. IInv => ResolvedAsInForce
  BY Precedence, AtOnce DEF ResolvedAsInForce
<1> QED
  BY <1>1, Invariant, PTL

=============================================================================
