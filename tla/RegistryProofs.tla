--------------------------- MODULE RegistryProofs ---------------------------
(***************************************************************************)
(* Proofs about the registry for any number of goroutines, keys, leases,   *)
(* namespaces, policies and requests: its invariant; the health of stored  *)
(* instances while all probe results come with one failure threshold; that *)
(* the requests, store call by store call, implement the table of          *)
(* instances in which each of them is one transaction; and what services   *)
(* with heartbeat loops, clocks and restarts may rely on (Provider).       *)
(***************************************************************************)
EXTENDS Provider, RegistryTable, TLAPS

USE DEF Key, HasLease, Present, Goto, Return, Record, Missing

-----------------------------------------------------------------------------
(* What the health state machine returns is an instance of the same mode.  *)

LEMMA ProbeResultTyped ==
    ASSUME NEW i \in Instance, NEW ok \in BOOLEAN, NEW P
    PROVE  /\ ApplyProbeResult(i, ok, P) \in Instance
           /\ ApplyProbeResult(i, ok, P).mode = i.mode
<1> USE DEF Instance
<1>1. i.fails + 1 \in Int /\ i.succs + 1 \in Int /\ 0 \in Int /\ TRUE \in BOOLEAN
  OBVIOUS
<1>2. ProbeSucceeded(i, P) \in Instance /\ ProbeSucceeded(i, P).mode = i.mode
  <2> DEFINE s == IF i.status = "unhealth" /\ i.succs + 1 >= RecoverAt(P)
                  THEN "health" ELSE i.status
  <2>1. s \in Statuses
    BY DEF Statuses
  <2> HIDE DEF s
  <2>2. ProbeSucceeded(i, P) = [i EXCEPT !.probed = TRUE, !.succs = i.succs + 1,
                                    !.fails = 0, !.status = s]
    BY DEF ProbeSucceeded, s
  <2> QED
    BY <2>1, <2>2, <1>1
<1>3. ProbeFailed(i, P) \in Instance /\ ProbeFailed(i, P).mode = i.mode
  <2> DEFINE s == IF i.status = "health" /\ i.fails + 1 >= FailAt(P)
                  THEN "unhealth" ELSE i.status
  <2>1. s \in Statuses
    BY DEF Statuses
  <2> HIDE DEF s
  <2>2. ProbeFailed(i, P) = [i EXCEPT !.probed = TRUE, !.fails = i.fails + 1,
                                 !.succs = 0, !.status = s]
    BY DEF ProbeFailed, s
  <2> QED
    BY <2>1, <2>2, <1>1
<1> QED
  BY <1>2, <1>3 DEF ApplyProbeResult

LEMMA KeyTyped ==
    ASSUME Inv, NEW p \in Procs, pc[p] # "idle"
    PROVE  req[p].key \in Keys
  BY DEF Inv, CarriedInv, Carried, Request

\* The part of the type invariant that speaks of the store.
StoreTypeOK ==
    /\ kv \in [Keys -> [value : Instance \cup {NoValue}, mod : Nat,
                        lease : Leases \cup {NoLease}]]
    /\ rev \in Nat
    /\ leases \in [Leases -> {"free", "live", "dead"}]

\* What is registered has the mode, status, data and counters asked for, and no
\* result was counted for it.
LEMMA NewInstanceTyped ==
    ASSUME NEW m \in Modes, NEW s \in Statuses, NEW d \in Data, NEW b \in Nat,
           NEW c \in Counters
    PROVE  /\ NewInstance(m, s, d, b, c) \in Instance
           /\ NewInstance(m, s, d, b, c).mode = m
           /\ ~NewInstance(m, s, d, b, c).probed
<1>1. c \in [fails : Int, succs : Int]
  BY RegistryAssumption
<1>2. c.fails \in Int /\ c.succs \in Int
  BY <1>1
<1> QED
  BY <1>2 DEF NewInstance, Instance, Statuses

\* A registration received is one of a new instance, on a lease only if the
\* instance is probed.
LEMMA RegisterReceived ==
    ASSUME TypeOK, NEW p \in Procs, ReceiveRegister(p)
    PROVE  \E r \in Request :
              /\ Receive(p, r) /\ r.op = "register" /\ r.inst \in Instance /\ ~r.inst.probed
              /\ r.inst.mode = "heartbeat" => r.lease = NoLease
<1> PICK k \in Keys, m \in Modes, s \in Statuses, d \in Data, c \in Counters :
        \E l \in IF m = "probe" THEN Leases \cup {NoLease} ELSE {NoLease} :
           Receive(p, [op |-> "register", key |-> k, lease |-> l,
                       inst |-> NewInstance(m, s, d, received + 1, c)])
  BY DEF ReceiveRegister
<1> PICK l \in IF m = "probe" THEN Leases \cup {NoLease} ELSE {NoLease} :
        Receive(p, [op |-> "register", key |-> k, lease |-> l,
                    inst |-> NewInstance(m, s, d, received + 1, c)])
  OBVIOUS
<1> DEFINE i == NewInstance(m, s, d, received + 1, c)
           r == [op |-> "register", key |-> k, lease |-> l, inst |-> i]
<1>1. received + 1 \in Nat
  BY DEF TypeOK
<1>2. i \in Instance /\ i.mode = m /\ ~i.probed
  BY <1>1, NewInstanceTyped
<1>3. l \in Leases \cup {NoLease} /\ (m = "heartbeat" => l = NoLease)
  OBVIOUS
<1>4. Receive(p, r)
  OBVIOUS
<1> HIDE DEF i
<1>5. r \in Request
  BY <1>2, <1>3 DEF Request
<1> QED
  BY <1>2, <1>3, <1>4, <1>5

LEMMA WriteTyped ==
    ASSUME StoreTypeOK,
           NEW k \in Keys, NEW v \in Instance, NEW l \in Leases \cup {NoLease},
           WriteKey(k, v, l)
    PROVE  StoreTypeOK'
  BY DEF StoreTypeOK, WriteKey

LEMMA TypeInit == Init => TypeOK
  BY RegistryAssumption, LeaseAssumption
     DEF Init, TypeOK, StoreInit, PCs

LEMMA TypeStep == Inv /\ [Next]_vars => TypeOK'
<1> SUFFICES ASSUME Inv, [Next]_vars PROVE TypeOK'
  OBVIOUS
<1> USE DEF TypeOK, PCs
<1>1. ASSUME NEW p \in Procs, Arrive(p) PROVE TypeOK'
  <2>1. ASSUME NEW r \in Request, Receive(p, r) PROVE TypeOK'
    BY <2>1 DEF Inv, Receive, storeVars
  <2>2. CASE ReceiveRegister(p)
    BY <2>1, <2>2, RegisterReceived DEF Inv
  <2>3. CASE ReceiveUpdate(p)
    BY <2>1, <2>3 DEF ReceiveUpdate, Request, Inv
  <2>4. CASE ReceiveHeartbeat(p)
    BY <2>1, <2>4 DEF ReceiveHeartbeat, Request
  <2>5. CASE ReceiveDeregister(p)
    BY <2>1, <2>5 DEF ReceiveDeregister, Request
  <2>6. CASE ReceiveProbeResult(p)
    BY <2>1, <2>6 DEF ReceiveProbeResult, Request
  <2> QED
    BY <1>1, <2>2, <2>3, <2>4, <2>5, <2>6 DEF Arrive
<1>2. ASSUME NEW p \in Procs, Step(p) PROVE TypeOK'
  <2> USE DEF Inv, CarriedInv, Carried, StoredInv, storeVars
  <2>0. pc[p] # "idle" => req[p].key \in Keys
    BY KeyTyped
  <2>1. CASE CheckWrite(p)
    BY <2>1 DEF CheckWrite, Request
  <2>2. CASE CheckWriteRefused(p)
    BY <2>2 DEF CheckWriteRefused
  <2>3. CASE Grant(p)
    BY <2>3 DEF Grant, GrantLease
  <2>4. CASE CreateInstance(p)
    BY <2>4, <2>0, WriteTyped DEF CreateInstance, Create, StoreTypeOK
  <2>5. CASE CreateInstanceRefused(p)
    BY <2>5 DEF CreateInstanceRefused
  <2>6. CASE Get(p)
    <3> DEFINE found == kv[req[p].key].value
    <3>1. found \in Instance /\ kv[req[p].key].lease \in Leases \cup {NoLease}
      BY <2>6 DEF Get, Request
    <3>2. req[p].op = "probe" => ApplyProbeResult(found, req[p].success, req[p].policy) \in Instance
      BY <2>6, <3>1, ProbeResultTyped DEF Get, Request
    <3>3. AfterGet(req[p], found, kv[req[p].key].lease) \in PCs
      BY <2>6 DEF Get, Request, AfterGet
    <3> QED
      BY <2>6, <3>1, <3>2, <3>3 DEF Get
  <2>7. CASE GetRefused(p)
    BY <2>7 DEF GetRefused
  <2>8. CASE CASInstance(p)
    <3>1. Updated(p) \in Instance
      BY <2>8 DEF CASInstance, Updated, Request, Instance
    <3> QED
      BY <2>8, <3>1, <2>0, WriteTyped DEF CASInstance, CAS, StoreTypeOK
  <2>9. CASE CASInstanceRefused(p)
    BY <2>9 DEF CASInstanceRefused
  <2>10. CASE KeepAlive(p)
    BY <2>10 DEF KeepAlive
  <2>11. CASE KeepAliveRefused(p)
    BY <2>11 DEF KeepAliveRefused
  <2>12. CASE PutInstance(p)
    <3>1. Refreshed(p) \in Instance /\ PutLease(p) \in Leases \cup {NoLease}
      BY <2>12 DEF PutInstance, Refreshed, PutLease, Instance, Statuses
    <3> QED
      BY <2>12, <3>1, <2>0, WriteTyped DEF PutInstance, Put, StoreTypeOK
  <2>13. CASE PutInstanceRefused(p)
    BY <2>13 DEF PutInstanceRefused
  <2>14. CASE Revoke(p)
    BY <2>14 DEF Revoke, EndLease, EraseKeys
  <2>15. CASE RevokeRefused(p)
    BY <2>15 DEF RevokeRefused
  <2>16. CASE DeleteInstance(p)
    BY <2>16 DEF DeleteInstance, Delete, EraseKeys
  <2>17. CASE DeleteNotFound(p)
    BY <2>17 DEF DeleteNotFound
  <2> QED
    BY <1>2, <2>1, <2>2, <2>3, <2>4, <2>5, <2>6, <2>7, <2>8, <2>9, <2>10, <2>11, <2>12,
       <2>13, <2>14, <2>15, <2>16, <2>17 DEF Step
<1>3. ASSUME NEW p \in Procs, Abort(p) PROVE TypeOK'
  BY <1>3 DEF Inv, Abort, storeVars
<1>4. ASSUME NEW l \in Leases, Expire(l) PROVE TypeOK'
  BY <1>4 DEF Inv, Expire, EndLease, EraseKeys, locals
<1>5. ASSUME NEW n \in Namespaces, NEW m \in AccessModes, SetAccessMode(n, m) PROVE TypeOK'
  BY <1>5 DEF Inv, SetAccessMode, locals
<1>6. CASE UNCHANGED vars
  BY <1>6 DEF Inv, vars, storeVars
<1> QED
  BY <1>1, <1>2, <1>3, <1>4, <1>5, <1>6 DEF Next
-----------------------------------------------------------------------------
(* Every step does one of five things to the store.                        *)

Quiet     == UNCHANGED <<kv, leases>> /\ rev' \in {rev, rev + 1}
Erases(K) == EraseKeys(K) /\ UNCHANGED leases

\* The instance a request writes at its last call.
Written(p) ==
    CASE pc[p] = "create" -> inst[p]
      [] pc[p] = "cas"    -> Updated(p)
      [] pc[p] = "put"    -> Refreshed(p)

\* A write under the lease the request holds, or under none, but never of a
\* heartbeat instance without one.
Writes(p) ==
    \E v \in Instance, l \in {held[p], NoLease} :
        /\ pc[p] \in {"create", "cas", "put"}
        /\ v = Written(p) /\ v.mode = inst[p].mode
        /\ WriteKey(req[p].key, v, l)
        /\ LeaseUsable(l)
        /\ v.mode = "heartbeat" => l # NoLease

LEMMA StoreEffect ==
    Inv /\ [Next]_vars =>
        \/ Quiet
        \/ \E p \in Procs : Writes(p)
        \/ \E k \in Keys : Erases({k})
        \/ \E l \in Leases : EndLease(l)
        \/ \E l \in Leases : GrantLease(l)
<1> SUFFICES ASSUME Inv, [Next]_vars
             PROVE  \/ Quiet
                    \/ \E p \in Procs : Writes(p)
                    \/ \E k \in Keys : Erases({k})
                    \/ \E l \in Leases : EndLease(l)
                    \/ \E l \in Leases : GrantLease(l)
  OBVIOUS
<1> USE DEF Quiet
<1>1. ASSUME NEW p \in Procs, Arrive(p) PROVE Quiet
  BY <1>1 DEF Arrive, ReceiveRegister, ReceiveUpdate, ReceiveHeartbeat,
              ReceiveDeregister, ReceiveProbeResult, Receive, storeVars
<1>2. ASSUME NEW p \in Procs, CreateInstance(p) PROVE Writes(p)
  BY <1>2 DEF CreateInstance, Create, Writes, Written, Inv, CarriedInv, Carried
<1>3. ASSUME NEW p \in Procs, CASInstance(p) PROVE Writes(p)
  <2>1. Updated(p) \in Instance /\ Updated(p).mode = inst[p].mode
    BY <1>3 DEF CASInstance, Updated, Request, Instance, Inv, CarriedInv, Carried
  <2> QED
    BY <1>3, <2>1 DEF CASInstance, CAS, Writes, Written, Inv, CarriedInv, Carried
<1>4. ASSUME NEW p \in Procs, PutInstance(p) PROVE Writes(p)
  <2>1. Refreshed(p) \in Instance /\ Refreshed(p).mode = inst[p].mode
    BY <1>4 DEF PutInstance, Refreshed, Instance, Statuses, Inv, CarriedInv, Carried
  <2>2. (inst[p].mode = "heartbeat" => PutLease(p) # NoLease) /\ PutLease(p) \in {held[p], NoLease}
    BY <1>4 DEF PutInstance, PutLease, Inv, CarriedInv, Carried
  <2> QED
    BY <1>4, <2>1, <2>2 DEF PutInstance, Put, Writes, Written
<1>5. ASSUME NEW p \in Procs, Revoke(p) PROVE held[p] \in Leases /\ EndLease(held[p])
  BY <1>5 DEF Revoke, Inv, TypeOK, CarriedInv, Carried
<1>6. ASSUME NEW p \in Procs, DeleteInstance(p) PROVE req[p].key \in Keys /\ Erases({req[p].key})
  BY <1>6, KeyTyped DEF DeleteInstance, Delete, Erases
<1>7. ASSUME NEW p \in Procs, Grant(p) PROVE \E l \in Leases : GrantLease(l)
  BY <1>7 DEF Grant
<1>8. ASSUME NEW p \in Procs,
             CheckWrite(p) \/ CheckWriteRefused(p) \/ CreateInstanceRefused(p)
               \/ Get(p) \/ GetRefused(p) \/ CASInstanceRefused(p) \/ KeepAlive(p)
               \/ KeepAliveRefused(p) \/ PutInstanceRefused(p) \/ RevokeRefused(p)
               \/ DeleteNotFound(p) \/ Abort(p)
      PROVE  Quiet
  BY <1>8 DEF CheckWrite, CheckWriteRefused, CreateInstanceRefused, Get, GetRefused,
     CASInstanceRefused, KeepAlive, KeepAliveRefused, PutInstanceRefused, RevokeRefused,
     DeleteNotFound, Abort, storeVars
<1>9. ASSUME NEW l \in Leases, Expire(l) PROVE EndLease(l)
  BY <1>9 DEF Expire
<1>10. ASSUME NEW n \in Namespaces, NEW m \in AccessModes, SetAccessMode(n, m) PROVE Quiet
  BY <1>10 DEF SetAccessMode
<1>11. CASE UNCHANGED vars
  BY <1>11 DEF vars, storeVars
<1> QED
  BY <1>1, <1>2, <1>3, <1>4, <1>5, <1>6, <1>7, <1>8, <1>9, <1>10, <1>11 DEF Next, Step

LEMMA StoredStep == Inv /\ [Next]_vars => StoredInv'
<1> SUFFICES ASSUME Inv, [Next]_vars PROVE StoredInv'
  OBVIOUS
<1> USE DEF StoredInv, Inv, TypeOK
<1>1. CASE Quiet
  BY <1>1 DEF Quiet
<1>2. ASSUME NEW p \in Procs, Writes(p) PROVE StoredInv'
  BY <1>2 DEF Writes, WriteKey
<1>3. ASSUME NEW k \in Keys, Erases({k}) PROVE StoredInv'
  BY <1>3 DEF Erases, EraseKeys
<1>4. ASSUME NEW l \in Leases, EndLease(l) PROVE StoredInv'
  BY <1>4 DEF EndLease, EraseKeys
<1>5. ASSUME NEW l \in Leases, GrantLease(l) PROVE StoredInv'
  BY <1>5 DEF GrantLease
<1> QED
  BY <1>1, <1>2, <1>3, <1>4, <1>5, StoreEffect

LEMMA BindingStep == Inv /\ [Next]_vars => LeaseBinding'
<1> SUFFICES ASSUME Inv, [Next]_vars PROVE LeaseBinding'
  OBVIOUS
<1> USE DEF LeaseBinding, LeaseUsable, Inv, TypeOK
<1>1. CASE Quiet
  BY <1>1 DEF Quiet
<1>2. ASSUME NEW p \in Procs, Writes(p) PROVE LeaseBinding'
  BY <1>2 DEF Writes, WriteKey
<1>3. ASSUME NEW k \in Keys, Erases({k}) PROVE LeaseBinding'
  BY <1>3 DEF Erases, EraseKeys
<1>4. ASSUME NEW l \in Leases, EndLease(l) PROVE LeaseBinding'
  BY <1>4, LeaseAssumption DEF EndLease, EraseKeys, Attached
<1>5. ASSUME NEW l \in Leases, GrantLease(l) PROVE LeaseBinding'
  BY <1>5 DEF GrantLease
<1> QED
  BY <1>1, <1>2, <1>3, <1>4, <1>5, StoreEffect
-----------------------------------------------------------------------------
(* What a step does to the requests in flight: at most one moves on.       *)

\* The request of p ends or has no heartbeat instance with a lease yet, keeps
\* what it has, takes the lease of the record it read, or a lease nobody had.
Ends(p)  == ~Owns(p)'
Keeps(p) == held'[p] = held[p] /\ req'[p] = req[p] /\ inst'[p] = inst[p]
Reads(p) == /\ held'[p] = kv[req[p].key].lease /\ req'[p] = req[p]
            /\ inst'[p].mode = kv[req[p].key].value.mode
            /\ req[p].key \in Keys
            /\ UNCHANGED <<kv, leases>>
Takes(p) == /\ \E l \in Leases : GrantLease(l) /\ held'[p] = l
            /\ req'[p] = req[p]

Others(p) ==
    \A q \in Procs \ {p} : held'[q] = held[q] /\ req'[q] = req[q] /\ inst'[q] = inst[q]

LEMMA LocalEffect ==
    Inv /\ [Next]_vars =>
        \/ UNCHANGED <<held, req, inst>>
        \/ \E p \in Procs :
              Others(p) /\ (Ends(p) \/ Keeps(p) \/ Reads(p) \/ Takes(p))
<1> SUFFICES ASSUME Inv, [Next]_vars
             PROVE  \/ UNCHANGED <<held, req, inst>>
                    \/ \E p \in Procs :
                          Others(p) /\ (Ends(p) \/ Keeps(p) \/ Reads(p) \/ Takes(p))
  OBVIOUS
<1> USE DEF Others, Inv, TypeOK
<1>1. ASSUME NEW p \in Procs, Arrive(p) PROVE Others(p) /\ Ends(p)
  BY <1>1 DEF Arrive, ReceiveRegister, ReceiveUpdate, ReceiveHeartbeat,
     ReceiveDeregister, ReceiveProbeResult, Receive, Ends, Owns, CarriedInv, Carried
<1>2. ASSUME NEW p \in Procs,
             CheckWriteRefused(p) \/ CreateInstance(p) \/ CreateInstanceRefused(p)
               \/ GetRefused(p) \/ CASInstance(p) \/ CASInstanceRefused(p)
               \/ KeepAliveRefused(p) \/ PutInstance(p) \/ PutInstanceRefused(p)
               \/ RevokeRefused(p) \/ DeleteInstance(p) \/ DeleteNotFound(p) \/ Abort(p)
      PROVE  Others(p) /\ Ends(p)
  BY <1>2 DEF CheckWriteRefused, CreateInstance, CreateInstanceRefused, GetRefused,
     CASInstance, CASInstanceRefused, KeepAliveRefused, PutInstance, PutInstanceRefused,
     RevokeRefused, DeleteInstance, DeleteNotFound, Abort, Ends, Owns
<1>3. ASSUME NEW p \in Procs, KeepAlive(p) \/ Revoke(p)
      PROVE  Others(p) /\ Keeps(p)
  BY <1>3 DEF KeepAlive, Revoke, Keeps
<1>9. ASSUME NEW p \in Procs, CheckWrite(p)
      PROVE  Others(p) /\ Ends(p)
  <2>1. Others(p)
    BY <1>9 DEF CheckWrite
  <2>2. CASE req[p].op = "register"
    <3>1. req[p] \in Request /\ (req[p].inst.mode = "heartbeat" => req[p].lease = NoLease)
      BY <1>9, <2>2 DEF CheckWrite, CarriedInv, Carried
    <3>2. held'[p] = req[p].lease /\ inst'[p] = req[p].inst
      BY <1>9, <2>2 DEF CheckWrite
    <3> QED
      BY <2>1, <3>1, <3>2 DEF Ends, Owns
  <2>3. CASE req[p].op # "register"
    BY <1>9, <2>1, <2>3 DEF CheckWrite, Ends, Owns, CarriedInv, Carried
  <2> QED
    BY <2>2, <2>3
<1>4. ASSUME NEW p \in Procs, Get(p) PROVE Others(p) /\ Reads(p)
  <2> DEFINE found == kv[req[p].key].value
  <2>1. /\ found \in Instance /\ req[p] \in Request
        /\ inst'[p] = IF req[p].op = "probe"
                      THEN ApplyProbeResult(found, req[p].success, req[p].policy)
                      ELSE found
    BY <1>4, KeyTyped DEF Get, StoredInv, CarriedInv, Carried
  <2>2. req[p].op = "probe" => req[p].success \in BOOLEAN
    BY <2>1 DEF Request
  <2>3. inst'[p].mode = found.mode
    BY <2>1, <2>2, ProbeResultTyped
  <2> QED
    BY <1>4, <2>3, KeyTyped DEF Get, Reads, storeVars
<1>5. ASSUME NEW p \in Procs, Grant(p) PROVE Others(p) /\ Takes(p)
  BY <1>5 DEF Grant, Takes
<1>6. ASSUME NEW l \in Leases, Expire(l) PROVE UNCHANGED <<held, req, inst>>
  BY <1>6 DEF Expire, locals
<1>7. ASSUME NEW n \in Namespaces, NEW m \in AccessModes, SetAccessMode(n, m)
      PROVE  UNCHANGED <<held, req, inst>>
  BY <1>7 DEF SetAccessMode, locals
<1>8. CASE UNCHANGED vars
  BY <1>8 DEF vars
<1> QED
  BY <1>1, <1>2, <1>3, <1>4, <1>5, <1>6, <1>7, <1>8, <1>9 DEF Next, Step

LEMMA OwnerStep == Inv /\ [Next]_vars => OwnerInv'
<1> SUFFICES ASSUME Inv, [Next]_vars PROVE OwnerInv'
  OBVIOUS
<1> USE DEF OwnerInv, Owns, Beats, Inv, TypeOK, Others, Ends, Keeps
\* No stored record is attached to a lease that was not granted.
<1>0. \A k \in Keys : kv[k].lease # NoLease => leases[kv[k].lease] = "live"
  BY DEF StoredInv, LeaseBinding, LeaseUsable
<1>1. CASE Quiet
  <2>1. \A k \in Keys : kv'[k] = kv[k]
    BY <1>1 DEF Quiet
  <2>2. leases' = leases
    BY <1>1 DEF Quiet
  <2>3. CASE UNCHANGED <<held, req, inst>>
    BY <2>1, <2>2, <2>3
  <2>4. ASSUME NEW p \in Procs, Others(p), Ends(p) \/ Keeps(p) PROVE OwnerInv'
    BY <2>1, <2>2, <2>4
  <2>5. ASSUME NEW p \in Procs, Others(p), Reads(p) PROVE OwnerInv'
    BY <2>1, <2>2, <2>5, <1>0 DEF Reads
  <2>6. ASSUME NEW p \in Procs, Others(p), Takes(p) PROVE OwnerInv'
    BY <2>2, <2>6 DEF Takes, GrantLease
  <2> QED
    BY <2>3, <2>4, <2>5, <2>6, LocalEffect
<1>2. ASSUME NEW p \in Procs, Writes(p) PROVE OwnerInv'
  <2> PICK v \in Instance, l \in {held[p], NoLease} :
          /\ v.mode = inst[p].mode /\ req[p].key \in Keys
          /\ \A k \in Keys : kv'[k] = IF k = req[p].key THEN Record(v, rev + 1, l) ELSE kv[k]
    BY <1>2, KeyTyped DEF Writes, WriteKey
  <2>1. leases' = leases /\ kv' # kv
    BY <1>2, KeyTyped DEF Writes, WriteKey, StoredInv
  <2>2. CASE UNCHANGED <<held, req, inst>>
    BY <2>1, <2>2
  <2>3. ASSUME NEW q \in Procs, Others(q), Ends(q) \/ Keeps(q) PROVE OwnerInv'
    BY <2>1, <2>3
  <2>4. ASSUME NEW q \in Procs, Others(q), Reads(q) \/ Takes(q) PROVE FALSE
    BY <2>1, <2>4 DEF Reads, Takes, GrantLease
  <2> QED
    BY <2>2, <2>3, <2>4, LocalEffect
<1>3. ASSUME NEW K \in SUBSET Keys, EraseKeys(K),
             \A l \in Leases : leases[l] # "free" => leases'[l] # "free",
             \A l \in Leases : leases[l] = "free" => leases'[l] = "free"
      PROVE  OwnerInv'
  <2>1. \A k \in Keys : kv'[k] = kv[k] \/ kv'[k].lease = NoLease
    BY <1>3 DEF EraseKeys
  <2>2. CASE UNCHANGED <<held, req, inst>>
    BY <2>1, <2>2, <1>3
  <2>3. ASSUME NEW p \in Procs, Others(p), Ends(p) \/ Keeps(p) PROVE OwnerInv'
    BY <2>1, <2>3, <1>3
  <2>4. ASSUME NEW p \in Procs, Others(p), Reads(p) PROVE OwnerInv'
    BY <2>1, <2>4, <1>3, <1>0 DEF Reads
  <2>5. ASSUME NEW p \in Procs, Others(p), Takes(p) PROVE FALSE
    BY <2>5, <1>3 DEF Takes, GrantLease
  <2> QED
    BY <2>2, <2>3, <2>4, <2>5, LocalEffect
<1>4. ASSUME NEW k \in Keys, Erases({k}) PROVE OwnerInv'
  BY <1>3, <1>4 DEF Erases
<1>5. ASSUME NEW l \in Leases, EndLease(l) PROVE OwnerInv'
  BY <1>3, <1>5 DEF EndLease, Attached
<1>6. ASSUME NEW l \in Leases, GrantLease(l) PROVE OwnerInv'
  <2>1. kv' = kv /\ leases' # leases
    BY <1>6 DEF GrantLease
  <2>2. \A m \in Leases : leases[m] # "free" => leases'[m] # "free"
    BY <1>6 DEF GrantLease
  <2>3. CASE UNCHANGED <<held, req, inst>>
    BY <2>1, <2>2, <2>3
  <2>4. ASSUME NEW p \in Procs, Others(p), Ends(p) \/ Keeps(p) PROVE OwnerInv'
    BY <2>1, <2>2, <2>4
  <2>5. ASSUME NEW p \in Procs, Others(p), Reads(p) PROVE FALSE
    BY <2>1, <2>5 DEF Reads
  <2>6. ASSUME NEW p \in Procs, Others(p), Takes(p) PROVE OwnerInv'
    BY <2>1, <2>2, <2>6, <1>0 DEF Takes, GrantLease
  <2> QED
    BY <2>3, <2>4, <2>5, <2>6, LocalEffect
<1> QED
  BY <1>1, <1>2, <1>4, <1>5, <1>6, StoreEffect
-----------------------------------------------------------------------------
(* What the requests carry.  A request's part of the invariant speaks of   *)
(* its own state only, so a step of another leaves it alone.               *)

SameLocals(q) ==
    pc'[q] = pc[q] /\ req'[q] = req[q] /\ inst'[q] = inst[q] /\ held'[q] = held[q]

LEMMA CarriedStep == Inv /\ [Next]_vars => CarriedInv'
<1> SUFFICES ASSUME Inv, [Next]_vars PROVE CarriedInv'
  OBVIOUS
<1> USE DEF Inv, TypeOK
<1>1. ASSUME NEW q \in Procs, SameLocals(q) PROVE Carried(q)'
  BY <1>1 DEF SameLocals, CarriedInv, Carried
<1>2. ASSUME NEW p \in Procs, \A q \in Procs \ {p} : SameLocals(q), Carried(p)'
      PROVE  CarriedInv'
  BY <1>1, <1>2 DEF CarriedInv
<1>3. ASSUME NEW p \in Procs, NEW r \in Request, Receive(p, r),
             r.op = "register" /\ r.inst.mode = "heartbeat" => r.lease = NoLease
      PROVE  CarriedInv'
  <2>1. \A q \in Procs \ {p} : SameLocals(q)
    BY <1>3 DEF Receive, SameLocals
  <2>2. Carried(p)'
    BY <1>3 DEF Receive, CarriedInv, Carried, Request
  <2> QED
    BY <1>2, <2>1, <2>2
<1>4. ASSUME NEW p \in Procs, Arrive(p) PROVE CarriedInv'
  <2>2. CASE ReceiveRegister(p)
    BY <1>3, <2>2, RegisterReceived
  <2>3. CASE ReceiveUpdate(p)
    BY <1>3, <2>3 DEF ReceiveUpdate, Request
  <2>4. CASE ReceiveHeartbeat(p)
    BY <1>3, <2>4 DEF ReceiveHeartbeat, Request
  <2>5. CASE ReceiveDeregister(p)
    BY <1>3, <2>5 DEF ReceiveDeregister, Request
  <2>6. CASE ReceiveProbeResult(p)
    BY <1>3, <2>6 DEF ReceiveProbeResult, Request
  <2> QED
    BY <1>4, <2>2, <2>3, <2>4, <2>5, <2>6 DEF Arrive
<1>5. ASSUME NEW p \in Procs, Return(p) PROVE CarriedInv'
  <2>1. \A q \in Procs \ {p} : SameLocals(q)
    BY <1>5 DEF SameLocals
  <2>2. Carried(p)'
    BY <1>5 DEF Carried
  <2> QED
    BY <1>2, <2>1, <2>2
<1>6. ASSUME NEW p \in Procs,
             CheckWriteRefused(p) \/ CreateInstance(p) \/ CreateInstanceRefused(p)
               \/ GetRefused(p) \/ CASInstance(p) \/ CASInstanceRefused(p)
               \/ KeepAliveRefused(p) \/ PutInstance(p) \/ PutInstanceRefused(p)
               \/ RevokeRefused(p) \/ DeleteInstance(p) \/ DeleteNotFound(p) \/ Abort(p)
      PROVE  CarriedInv'
  <2>1. Return(p)
    BY <1>6 DEF CheckWriteRefused, CreateInstance, CreateInstanceRefused, GetRefused,
       CASInstance, CASInstanceRefused, KeepAliveRefused, PutInstance, PutInstanceRefused,
       RevokeRefused, DeleteInstance, DeleteNotFound, Abort, Return
  <2> QED
    BY <1>5, <2>1 DEF Return
<1>7. ASSUME NEW p \in Procs, CheckWrite(p) PROVE CarriedInv'
  <2>1. \A q \in Procs \ {p} : SameLocals(q)
    BY <1>7 DEF CheckWrite, SameLocals
  <2>2. req[p].op = "register" => req[p].inst \in Instance
    BY <1>7 DEF CheckWrite, CarriedInv, Carried, Request
  <2>3. CASE req[p].op = "register"
    <3>1. /\ req'[p] = req[p] /\ held'[p] = req[p].lease /\ inst'[p] = req[p].inst
          /\ req[p].inst.mode = "heartbeat" => req[p].lease = NoLease
      BY <1>7, <2>3 DEF CheckWrite, CarriedInv, Carried
    <3>2. req[p] \in Request
      BY <1>7 DEF CheckWrite, CarriedInv, Carried
    <3>3. pc'[p] = IF req[p].inst.mode = "heartbeat" THEN "grant" ELSE "create"
      BY <1>7, <2>3 DEF CheckWrite
    <3>4. Carried(p)'
      BY <2>2, <2>3, <3>1, <3>2, <3>3 DEF Carried
    <3> QED
      BY <1>2, <2>1, <3>4
  <2>4. CASE req[p].op # "register"
    <3>1. Carried(p)'
      BY <1>7, <2>4 DEF CheckWrite, CarriedInv, Carried
    <3> QED
      BY <1>2, <2>1, <3>1
  <2> QED
    BY <2>3, <2>4
<1>8. ASSUME NEW p \in Procs, Grant(p) PROVE CarriedInv'
  <2>1. \A q \in Procs \ {p} : SameLocals(q)
    BY <1>8 DEF Grant, SameLocals
  <2>2. Carried(p)'
    BY <1>8, LeaseAssumption DEF Grant, CarriedInv, Carried
  <2> QED
    BY <1>2, <2>1, <2>2
<1>9. ASSUME NEW p \in Procs, Get(p) PROVE CarriedInv'
  <2>1. \A q \in Procs \ {p} : SameLocals(q)
    BY <1>9 DEF Get, SameLocals
  <2> DEFINE found == kv[req[p].key]
  <2>2. /\ req[p] \in Request /\ req[p].op # "register" /\ req'[p] = req[p]
        /\ held'[p] = found.lease
        /\ pc'[p] = AfterGet(req[p], found.value, found.lease)
        /\ RightMode(req[p], found.value)
    BY <1>9 DEF Get, CarriedInv, Carried
  <2>3. /\ found.value \in Instance
        /\ found.value.mode = "heartbeat" => found.lease # NoLease
    BY <1>9, KeyTyped DEF Get, StoredInv, LeaseBinding
  <2>4. CASE req[p].op = "probe"
    <3>1. inst'[p] \in Instance /\ inst'[p].mode = "probe"
      BY <1>9, <2>2, <2>3, <2>4, ProbeResultTyped DEF Get, Request, RightMode
    <3>2. pc'[p] \in {"put", "delete"}
      BY <2>2, <2>4 DEF AfterGet
    <3> QED
      BY <2>2, <2>4, <3>1, <3>2, <1>2, <2>1 DEF Carried
  <2>5. CASE req[p].op # "probe"
    <3>1. inst'[p] = found.value
      BY <1>9, <2>5 DEF Get
    <3>2. req[p].op \in {"update", "heartbeat", "deregister"}
      BY <2>2, <2>5 DEF Request
    <3>3. Carried(p)'
      BY <2>2, <2>3, <2>5, <3>1, <3>2 DEF Carried, AfterGet, RightMode
    <3> QED
      BY <3>3, <1>2, <2>1
  <2> QED
    BY <2>4, <2>5
<1>10. ASSUME NEW p \in Procs, KeepAlive(p) \/ Revoke(p) PROVE CarriedInv'
  <2>1. \A q \in Procs \ {p} : SameLocals(q)
    BY <1>10 DEF KeepAlive, Revoke, SameLocals
  <2>2. Carried(p)'
    BY <1>10 DEF KeepAlive, Revoke, CarriedInv, Carried
  <2> QED
    BY <1>2, <2>1, <2>2
<1>11. ASSUME UNCHANGED locals PROVE CarriedInv'
  BY <1>1, <1>11 DEF locals, SameLocals, CarriedInv
<1> QED
  BY <1>4, <1>6, <1>7, <1>8, <1>9, <1>10, <1>11
     DEF Next, Step, Expire, SetAccessMode, vars, locals
-----------------------------------------------------------------------------
(* The snapshot of an update.                                              *)

\* A request on its way to its compare-and-swap stays as it is, reads the
\* record, passes the access check, or has just arrived.
LEMMA UpdateProgress ==
    ASSUME Inv, [Next]_vars, NEW p \in Procs, pc'[p] \in {"check", "get", "cas"},
           req'[p].op = "update"
    PROVE  \/ SameLocals(p)
           \/ Get(p) /\ pc[p] = "get" /\ pc'[p] = "cas" /\ req'[p] = req[p]
           \/ pc[p] = "check" /\ pc'[p] = "get" /\ req'[p] = req[p]
           \/ pc'[p] = "check" /\ req'[p].expected \in 1..rev /\ UNCHANGED rev
<1> USE DEF Inv, TypeOK, SameLocals
<1>1. ASSUME NEW q \in Procs \ {p}, Arrive(q) \/ Step(q) \/ Abort(q) PROVE SameLocals(p)
  <2>1. CASE Arrive(q)
    BY <2>1 DEF Arrive, ReceiveRegister, ReceiveUpdate, ReceiveHeartbeat,
       ReceiveDeregister, ReceiveProbeResult, Receive
  <2>2. CASE Step(q)
    BY <2>2 DEF Step, CheckWrite, CheckWriteRefused, Grant, CreateInstance,
       CreateInstanceRefused, Get, GetRefused, CASInstance, CASInstanceRefused,
       KeepAlive, KeepAliveRefused, PutInstance, PutInstanceRefused, Revoke,
       RevokeRefused, DeleteInstance, DeleteNotFound
  <2>3. CASE Abort(q)
    BY <2>3 DEF Abort
  <2> QED
    BY <1>1, <2>1, <2>2, <2>3
<1>2. CASE Arrive(p)
  BY <1>2 DEF Arrive, ReceiveRegister, ReceiveUpdate, ReceiveHeartbeat,
     ReceiveDeregister, ReceiveProbeResult, Receive, storeVars
<1>3. CASE Step(p)
  <2>1. CASE CheckWrite(p)
    BY <2>1 DEF CheckWrite
  <2>2. CASE Get(p)
    <3>1. req[p] \in Request /\ req'[p] = req[p] /\ pc[p] = "get"
      BY <2>2 DEF Get, CarriedInv, Carried
    <3>2. pc'[p] = "cas"
      BY <2>2, <3>1 DEF Get, AfterGet
    <3> QED
      BY <2>2, <3>1, <3>2
  <2> QED
    BY <1>3, <2>1, <2>2 DEF Step, CheckWriteRefused, Grant, CreateInstance,
       CreateInstanceRefused, GetRefused, CASInstance, CASInstanceRefused,
       KeepAlive, KeepAliveRefused, PutInstance, PutInstanceRefused, Revoke,
       RevokeRefused, DeleteInstance, DeleteNotFound
<1>4. CASE Abort(p)
  BY <1>4 DEF Abort
<1>5. CASE UNCHANGED locals
  BY <1>5 DEF locals
<1> QED
  BY <1>1, <1>2, <1>3, <1>4, <1>5 DEF Next, Expire, SetAccessMode, vars, locals

\* Revisions only grow, and a key that changes gets the newest one or none.
LEMMA RevisionStep ==
    ASSUME Inv, [Next]_vars
    PROVE  /\ rev \in Nat /\ rev' \in Nat /\ rev <= rev'
           /\ \A k \in Keys :
                 kv'[k] = kv[k] \/ kv'[k].mod = rev + 1 \/ kv'[k].mod = 0
<1> DEFINE Grows == /\ rev' \in Nat /\ rev <= rev'
                    /\ \A k \in Keys :
                          kv'[k] = kv[k] \/ kv'[k].mod = rev + 1 \/ kv'[k].mod = 0
<1>0. rev \in Nat /\ kv \in [Keys -> [value : Instance \cup {NoValue}, mod : Nat,
                                     lease : Leases \cup {NoLease}]]
  BY DEF Inv, TypeOK
<1>1. CASE Quiet
  BY <1>0, <1>1 DEF Quiet
<1>2. ASSUME NEW p \in Procs, Writes(p) PROVE Grows
  BY <1>0, <1>2 DEF Writes, WriteKey
<1>3. ASSUME NEW K, EraseKeys(K) PROVE Grows
  <2>1. rev' \in Nat /\ rev <= rev'
    BY <1>0, <1>3 DEF EraseKeys
  <2>2. \A k \in Keys : kv'[k] = kv[k] \/ kv'[k].mod = 0
    BY <1>3 DEF EraseKeys
  <2> QED
    BY <2>1, <2>2
<1>4. ASSUME NEW l \in Leases, GrantLease(l) PROVE Grows
  BY <1>0, <1>4 DEF GrantLease
<1> QED
  BY <1>0, <1>1, <1>2, <1>3, <1>4, StoreEffect DEF Erases, EndLease

LEMMA SnapshotStep == Inv /\ [Next]_vars => SnapshotInv'
<1> SUFFICES ASSUME Inv, [Next]_vars, NEW p \in Procs PROVE Snapshot(p)'
  BY DEF SnapshotInv
<1> USE DEF Inv, TypeOK, SnapshotInv
<1>1. rev \in Nat /\ rev' \in Nat /\ rev <= rev'
  BY RevisionStep
<1>2. \A k \in Keys : kv'[k] = kv[k] \/ kv'[k].mod = rev + 1 \/ kv'[k].mod = 0
  BY RevisionStep
<1>3. pc'[p] = "cas" => req'[p].op = "update" /\ req'[p].key \in Keys
  BY CarriedStep DEF CarriedInv, Carried, Request
<1>4. ASSUME pc'[p] \in {"check", "get", "cas"}, req'[p].op = "update"
      PROVE  req'[p].expected \in 1..rev'
  <2>1. req'[p].expected \in 1..rev
    BY <1>4, UpdateProgress DEF SameLocals, Snapshot
  <2> QED
    BY <2>1, <1>1
<1>5. ASSUME pc'[p] = "cas", kv'[req'[p].key].mod = req'[p].expected
      PROVE  inst'[p] = kv'[req'[p].key].value /\ held'[p] = kv'[req'[p].key].lease
  <2>1. CASE SameLocals(p)
    <3>1. req[p].expected \in 1..rev /\ req[p].key \in Keys
      BY <1>3, <1>5, <2>1 DEF SameLocals, Snapshot
    <3>2. kv'[req[p].key] = kv[req[p].key]
      BY <1>1, <1>2, <1>5, <2>1, <3>1 DEF SameLocals
    <3> QED
      BY <1>5, <2>1, <3>2 DEF SameLocals, Snapshot
  <2>2. CASE Get(p) /\ req'[p] = req[p]
    <3>1. kv' = kv /\ req[p].op = "update"
      BY <1>3, <1>5, <2>2 DEF Get, storeVars
    <3> QED
      BY <2>2, <3>1 DEF Get
  <2> QED
    BY <1>3, <1>5, <2>1, <2>2, UpdateProgress
<1> QED
  BY <1>4, <1>5 DEF Snapshot

-----------------------------------------------------------------------------
(* The theorems.                                                           *)

LEMMA InvInit == Init => Inv
<1> SUFFICES ASSUME Init PROVE Inv
  OBVIOUS
<1>1. TypeOK
  BY TypeInit
<1> QED
  BY <1>1 DEF Init, StoreInit, Inv, StoredInv, CarriedInv, Carried, OwnerInv, Owns, Beats,
     LeaseBinding, SnapshotInv, Snapshot

LEMMA InvStep == Inv /\ [Next]_vars => Inv'
  BY TypeStep, StoredStep, CarriedStep, OwnerStep, BindingStep, SnapshotStep DEF Inv

\* The inductive invariant holds of every behaviour of the registry: any
\* number of requests, at any point of theirs, on any keys.
THEOREM Invariant == Spec => []Inv
  BY InvInit, InvStep, PTL DEF Spec

\* The records, requests and leases of the registry keep their types.
THEOREM TypeCorrect == Spec => []TypeOK
<1>1. Inv => TypeOK
  BY DEF Inv
<1> QED
  BY <1>1, Invariant, PTL

\* The key of a stored heartbeat instance hangs on a lease, and whatever lease a
\* stored instance hangs on, its own or one its client named, is alive (Register,
\* Update, Heartbeat and ApplyProbeResult interleaved with expiry and crashes).
THEOREM HeartbeatLeaseBinding == Spec => []LeaseBinding
<1>1. Inv => LeaseBinding
  BY DEF Inv
<1> QED
  BY <1>1, Invariant, PTL

\* No two stored heartbeat instances ever share a lease, whatever leases are
\* posted, so Deregister's revoke and an expiry take at most one of them away.
THEOREM NoSharedLease == Spec => []LeaseExclusive
<1>1. Inv => LeaseExclusive
  BY LeaseAssumption DEF Inv, OwnerInv, Beats, LeaseExclusive, Attached
<1> QED
  BY <1>1, Invariant, PTL

\* An acknowledged Update changed the mutable fields of the record that was
\* stored until then and nothing else: the compare-and-swap on the expected
\* revision makes a read-modify-write of two store calls atomic.
THEOREM UpdateAtomicity == Spec => UpdateIsAtomic
<1>1. Inv /\ [Next]_vars => \A p \in Procs : UpdateStep(p)
  <2> SUFFICES ASSUME Inv, [Next]_vars, NEW p \in Procs,
                      pc[p] = "cas", pc'[p] # "cas", kv'[req[p].key] # kv[req[p].key]
               PROVE  /\ Present(req[p].key)
                      /\ kv'[req[p].key] =
                           Record([kv[req[p].key].value EXCEPT !.data = req[p].data],
                                  rev', kv[req[p].key].lease)
    BY DEF UpdateStep
  <2>1. ~Arrive(p) /\ ~Abort(p)
    BY DEF Arrive, ReceiveRegister, ReceiveUpdate, ReceiveHeartbeat, ReceiveDeregister,
       ReceiveProbeResult, Receive, Abort, storeVars
  <2>2. \A q \in Procs \ {p} : Arrive(q) \/ Step(q) \/ Abort(q) => pc'[p] = pc[p]
    BY DEF Inv, TypeOK, Arrive, ReceiveRegister, ReceiveUpdate, ReceiveHeartbeat,
       ReceiveDeregister, ReceiveProbeResult, Receive, Abort, Step, CheckWrite,
       CheckWriteRefused, Grant, CreateInstance, CreateInstanceRefused, Get, GetRefused,
       CASInstance, CASInstanceRefused, KeepAlive, KeepAliveRefused, PutInstance,
       PutInstanceRefused, Revoke, RevokeRefused, DeleteInstance, DeleteNotFound
  <2>3. Step(p)
    BY <2>1, <2>2 DEF Next, Expire, SetAccessMode, vars, locals
  <2>4. CASInstance(p)
    BY <2>3 DEF Step, CheckWrite, CheckWriteRefused, Grant, CreateInstance,
       CreateInstanceRefused, Get, GetRefused, CASInstanceRefused, KeepAlive,
       KeepAliveRefused, PutInstance, PutInstanceRefused, Revoke, RevokeRefused,
       DeleteInstance, DeleteNotFound, storeVars
  <2>5. Present(req[p].key)
    <3>1. req[p].op = "update" /\ req[p].expected \in 1..rev
      BY DEF Inv, CarriedInv, Carried, SnapshotInv, Snapshot
    <3>2. kv[req[p].key].mod = req[p].expected
      BY <2>4 DEF CASInstance, CAS
    <3> QED
      BY <3>1, <3>2 DEF Present, Inv, TypeOK
  <2>6. kv'[req[p].key] = Record([kv[req[p].key].value EXCEPT !.data = req[p].data],
                                 rev', kv[req[p].key].lease)
    BY <2>4, KeyTyped DEF CASInstance, CAS, WriteKey, Updated, Inv, SnapshotInv, Snapshot, TypeOK
  <2> QED
    BY <2>5, <2>6
<1> QED
  BY <1>1, Invariant, PTL DEF Spec, UpdateIsAtomic

-----------------------------------------------------------------------------
(* Soundness of single instances.                                          *)

LEMMA FailThreshold ==
    ASSUME NEW P \in Policies
    PROVE  FailAt(P) \in Nat /\ FailAt(P) >= 1
  BY RegistryAssumption DEF FailAt, AtLeast

\* An instance that no result was counted for is sound, whatever its status
\* and its counters.
LEMMA UnprobedSound ==
    ASSUME NEW i, ~i.probed
    PROVE  Sound(i)
  BY DEF Sound

\* A probe result leaves a probed instance sound: a success resets the
\* counter, and the failure that reaches the threshold flips the status.
LEMMA ProbeSound ==
    ASSUME OneThreshold, NEW i \in Instance, Sound(i), i.mode = "probe",
           NEW ok \in BOOLEAN, NEW P \in Policies
    PROVE  Sound(ApplyProbeResult(i, ok, P))
<1> DEFINE r == ApplyProbeResult(i, ok, P)
<1>1. r \in Instance /\ r.mode = "probe"
  BY ProbeResultTyped
<1>2. CASE ok
  <2>1. r.fails = 0
    BY <1>2 DEF ApplyProbeResult, ProbeSucceeded, Instance
  <2> HIDE DEF r
  <2>2. Sound(r)
    BY <1>1, <2>1, FailThreshold DEF Sound
  <2> QED
    BY <2>2 DEF r
<1>3. CASE ~ok
  <2>1. i.fails \in Int
    BY DEF Instance
  <2>2. r.status = "health" => r.fails = i.fails + 1 /\ ~(i.fails + 1 >= FailAt(P))
    BY <1>3 DEF ApplyProbeResult, ProbeFailed, Instance
  <2>3. ASSUME r.status = "health", NEW Q \in Policies PROVE r.fails < FailAt(Q)
    <3>1. FailAt(Q) = FailAt(P) /\ FailAt(P) \in Nat
      BY FailThreshold DEF OneThreshold
    <3> QED
      BY <2>1, <2>2, <2>3, <3>1
  <2> HIDE DEF r
  <2>4. Sound(r)
    BY <1>1, <2>3 DEF Sound
  <2> QED
    BY <2>4 DEF r
<1> QED
  BY <1>2, <1>3

\* An update and a heartbeat write a sound instance when they read one.
LEMMA RewriteSound ==
    ASSUME Inv, NEW p \in Procs, CarriedSound(p), pc[p] \in {"create", "cas", "put"}
    PROVE  Sound(Written(p))
<1>1. inst[p] \in Instance /\ Sound(inst[p])
  BY DEF Inv, CarriedInv, Carried, CarriedSound
<1>2. CASE pc[p] = "create"
  BY <1>1, <1>2 DEF Written
<1>3. CASE pc[p] = "cas"
  <2> DEFINE u == Updated(p)
  <2>1. /\ u.mode = inst[p].mode /\ u.fails = inst[p].fails /\ u.status = inst[p].status
        /\ u.probed = inst[p].probed
    BY <1>1 DEF Updated, Instance
  <2> HIDE DEF u
  <2>2. Sound(u)
    BY <1>1, <2>1 DEF Sound
  <2> QED
    BY <1>3, <2>2 DEF Written, u
<1>4. CASE pc[p] = "put" /\ req[p].op = "heartbeat"
  <2>1. inst[p].mode = "heartbeat"
    BY <1>4 DEF Inv, CarriedInv, Carried
  <2> DEFINE h == Refreshed(p)
  <2>2. h.probed = inst[p].probed
    BY <1>1, <1>4 DEF Refreshed, Instance, Statuses
  <2>3. ~h.probed
    BY <1>1, <2>1, <2>2 DEF Sound
  <2>4. Sound(h)
    BY <2>3, UnprobedSound
  <2> QED
    BY <1>4, <2>4 DEF Written
<1>5. CASE pc[p] = "put" /\ req[p].op # "heartbeat"
  BY <1>1, <1>5 DEF Written, Refreshed
<1> QED
  BY <1>2, <1>3, <1>4, <1>5

-----------------------------------------------------------------------------
(* The stored instances.                                                   *)

LEMMA StoredSoundStep ==
    ASSUME Inv, SoundInv, [Next]_vars
    PROVE  StoredSoundInv'
<1>0. kv \in [Keys -> [value : Instance \cup {NoValue}, mod : Nat,
                       lease : Leases \cup {NoLease}]]
  BY DEF Inv, TypeOK
<1>1. ASSUME \A k \in Keys : kv'[k] = kv[k] \/ ~(kv'[k].mod > 0) PROVE StoredSoundInv'
  BY <1>1 DEF SoundInv, StoredSoundInv
<1>2. ASSUME NEW K, EraseKeys(K) PROVE StoredSoundInv'
  BY <1>1, <1>2 DEF EraseKeys, Missing, Record
<1>3. ASSUME NEW p \in Procs, Writes(p) PROVE StoredSoundInv'
  <2>1. Sound(Written(p))
    BY <1>3, RewriteSound DEF Writes, SoundInv, CarriedSoundInv
  <2>2. \A k \in Keys : kv'[k] = kv[k] \/ kv'[k].value = Written(p)
    BY <1>0, <1>3 DEF Writes, WriteKey, Record
  <2> QED
    BY <2>1, <2>2 DEF SoundInv, StoredSoundInv
<1>4. CASE Quiet
  BY <1>1, <1>4 DEF Quiet
<1>5. ASSUME NEW l \in Leases, GrantLease(l) PROVE StoredSoundInv'
  BY <1>1, <1>5 DEF GrantLease
<1> QED
  BY <1>2, <1>3, <1>4, <1>5, StoreEffect DEF Erases, EndLease

-----------------------------------------------------------------------------
(* The instances that requests carry.                                      *)

LEMMA CarriedSoundStep ==
    ASSUME OneThreshold, Inv, SoundInv, [Next]_vars
    PROVE  CarriedSoundInv'
<1> USE DEF Inv, TypeOK
<1>1. ASSUME NEW q \in Procs, SameLocals(q) PROVE CarriedSound(q)'
  BY <1>1 DEF SameLocals, SoundInv, CarriedSoundInv, CarriedSound
<1>2. ASSUME NEW p \in Procs, \A q \in Procs \ {p} : SameLocals(q), CarriedSound(p)'
      PROVE  CarriedSoundInv'
  BY <1>1, <1>2 DEF CarriedSoundInv
<1>3. ASSUME NEW p \in Procs, NEW r \in Request, Receive(p, r),
             r.op = "register" => ~r.inst.probed
      PROVE  CarriedSoundInv'
  <2>1. \A q \in Procs \ {p} : SameLocals(q)
    BY <1>3 DEF Receive, SameLocals
  <2>2. pc'[p] \in {"check", "get"} /\ req'[p] = r
    BY <1>3 DEF Receive
  <2>3. CarriedSound(p)'
    BY <1>3, <2>2, UnprobedSound DEF CarriedSound
  <2> QED
    BY <1>2, <2>1, <2>3
<1>4. ASSUME NEW p \in Procs, Arrive(p) PROVE CarriedSoundInv'
  <2>1. CASE ReceiveRegister(p)
    BY <1>3, <2>1, RegisterReceived
  <2>2. CASE ReceiveUpdate(p)
    BY <1>3, <2>2 DEF ReceiveUpdate, Request
  <2>3. CASE ReceiveHeartbeat(p)
    BY <1>3, <2>3 DEF ReceiveHeartbeat, Request
  <2>4. CASE ReceiveDeregister(p)
    BY <1>3, <2>4 DEF ReceiveDeregister, Request
  <2>5. CASE ReceiveProbeResult(p)
    BY <1>3, <2>5 DEF ReceiveProbeResult, Request
  <2> QED
    BY <1>4, <2>1, <2>2, <2>3, <2>4, <2>5 DEF Arrive
<1>5. ASSUME NEW p \in Procs, Return(p) PROVE CarriedSoundInv'
  <2>1. \A q \in Procs \ {p} : SameLocals(q)
    BY <1>5 DEF SameLocals
  <2>2. CarriedSound(p)'
    BY <1>5 DEF CarriedSound
  <2> QED
    BY <1>2, <2>1, <2>2
<1>6. ASSUME NEW p \in Procs,
             CheckWriteRefused(p) \/ CreateInstance(p) \/ CreateInstanceRefused(p)
               \/ GetRefused(p) \/ CASInstance(p) \/ CASInstanceRefused(p)
               \/ KeepAliveRefused(p) \/ PutInstance(p) \/ PutInstanceRefused(p)
               \/ RevokeRefused(p) \/ DeleteInstance(p) \/ DeleteNotFound(p) \/ Abort(p)
      PROVE  CarriedSoundInv'
  <2>1. Return(p)
    BY <1>6 DEF CheckWriteRefused, CreateInstance, CreateInstanceRefused, GetRefused,
       CASInstance, CASInstanceRefused, KeepAliveRefused, PutInstance, PutInstanceRefused,
       RevokeRefused, DeleteInstance, DeleteNotFound, Abort, Return
  <2> QED
    BY <1>5, <2>1 DEF Return
<1>7. ASSUME NEW p \in Procs, CheckWrite(p) PROVE CarriedSoundInv'
  <2>1. \A q \in Procs \ {p} : SameLocals(q)
    BY <1>7 DEF CheckWrite, SameLocals
  <2>2. CarriedSound(p)'
    BY <1>7 DEF CheckWrite, SoundInv, CarriedSoundInv, CarriedSound
  <2> QED
    BY <1>2, <2>1, <2>2
<1>8. ASSUME NEW p \in Procs, Grant(p) \/ KeepAlive(p) \/ Revoke(p) PROVE CarriedSoundInv'
  <2>1. \A q \in Procs \ {p} : SameLocals(q)
    BY <1>8 DEF Grant, KeepAlive, Revoke, SameLocals
  <2>2. CarriedSound(p)'
    BY <1>8 DEF Grant, KeepAlive, Revoke, SoundInv, CarriedSoundInv, CarriedSound
  <2> QED
    BY <1>2, <2>1, <2>2
<1>9. ASSUME NEW p \in Procs, Get(p) PROVE CarriedSoundInv'
  <2>1. \A q \in Procs \ {p} : SameLocals(q)
    BY <1>9 DEF Get, SameLocals
  <2> DEFINE found == kv[req[p].key].value
  <2>2. req[p] \in Request /\ req[p].op # "register" /\ req'[p] = req[p]
    BY <1>9 DEF Get, CarriedInv, Carried
  <2>3. found \in Instance /\ Sound(found) /\ RightMode(req[p], found)
    BY <1>9, KeyTyped DEF Get, StoredInv, SoundInv, StoredSoundInv
  <2>4. Sound(inst'[p])
    <3>1. CASE req[p].op = "probe"
      <4>1. found.mode = "probe"
        BY <2>3, <3>1 DEF RightMode
      <4>2. req[p].success \in BOOLEAN /\ req[p].policy \in Policies
        BY <2>2, <3>1 DEF Request
      <4>3. inst'[p] = ApplyProbeResult(found, req[p].success, req[p].policy)
        BY <1>9, <3>1 DEF Get
      <4> HIDE DEF found
      <4> QED
        BY <2>3, <4>1, <4>2, <4>3, ProbeSound
    <3>2. CASE req[p].op # "probe"
      BY <1>9, <2>3, <3>2 DEF Get
    <3> QED
      BY <3>1, <3>2
  <2>5. CarriedSound(p)'
    BY <2>2, <2>4 DEF CarriedSound
  <2> QED
    BY <1>2, <2>1, <2>5
<1>10. CASE UNCHANGED locals
  BY <1>1, <1>10 DEF locals, SameLocals, CarriedSoundInv
<1> QED
  BY <1>4, <1>6, <1>7, <1>8, <1>9, <1>10
     DEF Next, Step, Expire, SetAccessMode, vars, locals

-----------------------------------------------------------------------------
(* The theorem.                                                            *)

LEMMA SoundInit == Init => SoundInv
  BY DEF Init, StoreInit, Missing, Record, SoundInv, StoredSoundInv, CarriedSoundInv,
     CarriedSound

LEMMA SoundStep ==
    Inv /\ (OneThreshold => SoundInv) /\ [Next]_vars => (OneThreshold => SoundInv)'
<1> SUFFICES ASSUME Inv, OneThreshold, SoundInv, [Next]_vars PROVE SoundInv'
  BY DEF OneThreshold
<1> QED
  BY StoredSoundStep, CarriedSoundStep DEF SoundInv

\* While all probe results come with one failure threshold, no stored instance
\* that was probed is called healthy with that many failures in its counter,
\* whatever counters it was registered with: heartbeats, updates and probe
\* results that write what they read some calls ago included.
THEOREM HealthySound == Spec => [](OneThreshold => HealthyBelowThreshold)
<1>1. SoundInv => HealthyBelowThreshold
  BY DEF SoundInv, StoredSoundInv, Sound, HealthyBelowThreshold
<1>2. Init => (OneThreshold => SoundInv)
  BY SoundInit
<1> QED
  BY <1>1, <1>2, SoundStep, Invariant, PTL DEF Spec

-----------------------------------------------------------------------------
(* How a request that has read its key moves.                              *)

LEMMA ReadProgress ==
    ASSUME Inv, [Next]_vars, NEW p \in Procs, LastCall(p)' # "none"
    PROVE  SameLocals(p) \/ Get(p) \/ KeepAlive(p) \/ Revoke(p)
<1> USE DEF Inv, TypeOK, SameLocals
<1>0. pc'[p] \in {"keepalive", "put", "revoke", "delete"}
  BY DEF LastCall
<1>1. ASSUME NEW q \in Procs \ {p}, Arrive(q) \/ Step(q) \/ Abort(q) PROVE SameLocals(p)
  <2>1. CASE Arrive(q)
    BY <2>1 DEF Arrive, ReceiveRegister, ReceiveUpdate, ReceiveHeartbeat,
       ReceiveDeregister, ReceiveProbeResult, Receive
  <2>2. CASE Step(q)
    BY <2>2 DEF Step, CheckWrite, CheckWriteRefused, Grant, CreateInstance,
       CreateInstanceRefused, Get, GetRefused, CASInstance, CASInstanceRefused,
       KeepAlive, KeepAliveRefused, PutInstance, PutInstanceRefused, Revoke,
       RevokeRefused, DeleteInstance, DeleteNotFound
  <2>3. CASE Abort(q)
    BY <2>3 DEF Abort
  <2> QED
    BY <1>1, <2>1, <2>2, <2>3
<1>2. ~Arrive(p) /\ ~Abort(p)
  BY <1>0 DEF Arrive, ReceiveRegister, ReceiveUpdate, ReceiveHeartbeat,
     ReceiveDeregister, ReceiveProbeResult, Receive, Abort
<1>3. CASE Step(p)
  BY <1>0, <1>3 DEF Step, CheckWrite, CheckWriteRefused, Grant, CreateInstance,
     CreateInstanceRefused, GetRefused, CASInstance, CASInstanceRefused,
     KeepAliveRefused, PutInstance, PutInstanceRefused,
     RevokeRefused, DeleteInstance, DeleteNotFound
<1>4. CASE UNCHANGED locals
  BY <1>4 DEF locals
<1> QED
  BY <1>1, <1>2, <1>3, <1>4 DEF Next, Expire, SetAccessMode, vars, locals

\* seen follows the reads: a request that has read its key keeps what it saw.
LEMMA SeenEffect ==
    ASSUME Inv, [SeenNext]_seenVars, NEW p \in Procs, LastCall(p)' # "none"
    PROVE  \/ Get(p) /\ seen'[p] = kv[Key(p)].mod
           \/ /\ SameLocals(p) \/ KeepAlive(p) \/ Revoke(p)
              /\ LastCall(p) = LastCall(p)' /\ Key(p)' = Key(p)
              /\ seen'[p] = seen[p]
<1> USE DEF Inv, TypeOK, SameLocals, LastCall
<1>0. [Next]_vars /\ pc'[p] # "idle"
  BY DEF SeenNext, seenVars
<1>1. CASE Get(p)
  BY <1>0, <1>1 DEF SeenNext, seenVars, Get, vars
<1>2. CASE SameLocals(p)
  BY <1>0, <1>2 DEF SeenNext, seenVars
<1>3. CASE KeepAlive(p)
  BY <1>0, <1>3 DEF SeenNext, seenVars, KeepAlive
<1>4. CASE Revoke(p)
  BY <1>0, <1>4 DEF SeenNext, seenVars, Revoke
<1> QED
  BY <1>0, <1>1, <1>2, <1>3, <1>4, ReadProgress

-----------------------------------------------------------------------------
(* The invariant.                                                          *)

LEMMA SeenInvInit == SeenInit => SeenInv
  BY DEF SeenInit, Init, StoreInit, SeenInv, Seen, Fresh, LastCall

\* A request that reads its key is up to date.
LEMMA UpToDateAfterGet ==
    ASSUME Inv, NEW p \in Procs, Get(p)
    PROVE  UpToDate(p)'
<1> DEFINE found == kv[req[p].key]
<1>1. /\ req[p] \in Request /\ req[p].op # "register" /\ req'[p] = req[p] /\ kv' = kv
      /\ held'[p] = found.lease
      /\ inst'[p] = IF req[p].op = "probe"
                    THEN ApplyProbeResult(found.value, req[p].success, req[p].policy)
                    ELSE found.value
      /\ pc'[p] = AfterGet(req[p], found.value, found.lease)
      /\ RightMode(req[p], found.value)
  BY DEF Get, Inv, TypeOK, CarriedInv, Carried, storeVars
<1>3. req[p].op = "probe" => found.value.mode = "probe"
  BY <1>1 DEF RightMode
<1>4. req[p].op \in {"update", "heartbeat", "deregister", "probe"}
  BY <1>1 DEF Request
<1> HIDE DEF found
<1>5. pc'[p] = CASE req[p].op = "update"     -> "cas"
                 [] req[p].op = "heartbeat"  -> IF found.lease # NoLease THEN "keepalive" ELSE "put"
                 [] req[p].op = "deregister" -> IF found.lease # NoLease THEN "revoke" ELSE "delete"
                 [] req[p].op = "probe"      ->
                      IF ShouldDelete(found.value, req[p].success, req[p].policy)
                      THEN "delete" ELSE "put"
  BY <1>1 DEF AfterGet
<1>6. kv'[req'[p].key] = found
  BY <1>1 DEF found
<1> QED
  BY <1>1, <1>3, <1>4, <1>5, <1>6 DEF UpToDate

LEMMA SeenStep ==
    ASSUME Inv, SeenInv, [SeenNext]_seenVars, NEW p \in Procs
    PROVE  Seen(p)'
<1> USE DEF Inv, TypeOK
<1>0. [Next]_vars
  BY DEF SeenNext, seenVars
<1>1. rev \in Nat /\ rev' \in Nat /\ rev <= rev'
  BY <1>0, RevisionStep
<1>2. \A k \in Keys : kv'[k] = kv[k] \/ kv'[k].mod = rev + 1 \/ kv'[k].mod = 0
  BY <1>0, RevisionStep
<1>3. pc[p] # "idle" => kv[req[p].key].mod \in 0..rev
  BY KeyTyped DEF StoredInv
<1>4. seen'[p] \in 0..rev'
  BY <1>1, <1>3 DEF SeenNext, seenVars, SeenInv, Seen
<1>5. ASSUME LastCall(p)' # "none"
      PROVE  seen'[p] > 0 /\ (kv'[Key(p)'].mod = seen'[p] => UpToDate(p)')
  <2>1. CASE Get(p) /\ seen'[p] = kv[req[p].key].mod
    BY <2>1, <1>3, UpToDateAfterGet DEF Get
  <2>2. CASE /\ SameLocals(p) \/ KeepAlive(p) \/ Revoke(p)
             /\ LastCall(p) = LastCall(p)' /\ req'[p].key = req[p].key
             /\ seen'[p] = seen[p]
    <3>1. seen[p] > 0 /\ seen[p] <= rev /\ (kv[req[p].key].mod = seen[p] => UpToDate(p))
      BY <1>5, <2>2, <1>1 DEF SeenInv, Seen
    <3>2. req[p].key \in Keys
      BY <1>5, <2>2, KeyTyped DEF LastCall
    <3>3. kv'[req[p].key].mod = seen[p] => kv'[req[p].key] = kv[req[p].key]
      BY <1>1, <1>2, <3>1, <3>2
    <3>4. CASE SameLocals(p)
      BY <2>2, <3>1, <3>3, <3>4 DEF SameLocals, UpToDate
    <3>5. CASE KeepAlive(p)
      BY <2>2, <3>1, <3>3, <3>5 DEF KeepAlive, UpToDate, CarriedInv, Carried
    <3>6. CASE Revoke(p)
      <4>1. ASSUME kv'[req[p].key].mod = seen[p] PROVE FALSE
        <5>1. kv[req[p].key].lease = held[p] /\ kv[req[p].key].mod > 0
          BY <3>1, <3>3, <3>6, <4>1 DEF Revoke, UpToDate
        <5>2. kv'[req[p].key].mod = 0
          BY <3>2, <3>6, <5>1 DEF Revoke, EndLease, EraseKeys, Attached
        <5> QED
          BY <3>1, <4>1, <5>2
      <4> QED
        BY <2>2, <3>1, <4>1
    <3> QED
      BY <2>2, <3>4, <3>5, <3>6
  <2> QED
    BY <1>5, <2>1, <2>2, SeenEffect
<1> QED
  BY <1>4, <1>5 DEF Seen

LEMMA FreshStep ==
    ASSUME Inv, SeenInv, [Next]_vars, NEW p \in Procs
    PROVE  Fresh(p)'
<1> USE DEF Inv, TypeOK, Fresh
<1>0. Fresh(p)
  BY DEF SeenInv
<1>1. ASSUME NEW q \in Procs, Arrive(q) PROVE Fresh(p)'
  <2>1. CASE ReceiveRegister(q)
    BY <1>0, <2>1, RegisterReceived DEF Receive
  <2> QED
    BY <1>0, <1>1, <2>1 DEF Arrive, ReceiveUpdate, ReceiveHeartbeat,
     ReceiveDeregister, ReceiveProbeResult, Receive
<1>2. ASSUME NEW q \in Procs, Step(q) PROVE Fresh(p)'
  <2>1. CASE CheckWrite(q)
    BY <1>0, <2>1 DEF CheckWrite
  <2>2. CASE Grant(q)
    BY <1>0, <2>2 DEF Grant
  <2>3. CASE Get(q)
    <3>1. q = p => pc'[p] \notin {"check", "grant", "create"}
      BY <2>3 DEF Get, AfterGet, CarriedInv, Carried, Request
    <3>2. q # p => pc'[p] = pc[p] /\ req'[p] = req[p] /\ inst'[p] = inst[p]
      BY <2>3 DEF Get
    <3> QED
      BY <1>0, <3>1, <3>2
  <2> QED
    BY <1>0, <1>2, <2>1, <2>2, <2>3 DEF Step, CheckWriteRefused, CreateInstance,
       CreateInstanceRefused, GetRefused, CASInstance, CASInstanceRefused,
       KeepAlive, KeepAliveRefused, PutInstance, PutInstanceRefused, Revoke,
       RevokeRefused, DeleteInstance, DeleteNotFound
<1>3. ASSUME NEW q \in Procs, Abort(q) PROVE Fresh(p)'
  BY <1>0, <1>3 DEF Abort
<1>4. CASE UNCHANGED locals
  BY <1>0, <1>4 DEF locals
<1> QED
  BY <1>1, <1>2, <1>3, <1>4 DEF Next, Expire, SetAccessMode, vars, locals

\* What a request of the registry saw of its key, and what it holds of it.
THEOREM SeenInvariant == SeenSpec => [](Inv /\ SeenInv)
<1>1. SeenInit => Inv /\ SeenInv
  BY InvInit, SeenInvInit DEF SeenInit
<1>2. Inv /\ SeenInv /\ [SeenNext]_seenVars => (Inv /\ SeenInv)'
  <2> SUFFICES ASSUME Inv, SeenInv, [SeenNext]_seenVars PROVE (Inv /\ SeenInv)'
    OBVIOUS
  <2>1. [Next]_vars
    BY DEF SeenNext, seenVars
  <2> QED
    BY <2>1, InvStep, SeenStep, FreshStep DEF SeenInv
<1> QED
  BY <1>1, <1>2, PTL DEF SeenSpec

-----------------------------------------------------------------------------
(* Each step of the registry, as a transaction on the table.               *)

\* The lease of a heartbeat instance in hand is that of no other one.
LEMMA FitsInHand ==
    ASSUME Inv, NEW p \in Procs, NEW i, NEW l \in {held[p], NoLease},
           pc[p] # "idle", i.mode = inst[p].mode, i.mode = "heartbeat" => l # NoLease
    PROVE  Table!Fits(req[p].key, i, l)
  BY DEF Table!Fits, Table!Attached, Table!Present, Inv, OwnerInv, Owns, Beats

LEMMA RegisterStep ==
    ASSUME Inv, SeenInv, NEW p \in Procs, CreateInstance(p)
    PROVE  \E k \in Keys : Table!Register(k)
<1> USE DEF CreateInstance, Create, WriteKey, Inv, TypeOK
<1>1. req[p].key \in Keys
  BY KeyTyped
<1>2. /\ inst[p] \in Instance /\ ~inst[p].probed
      /\ inst[p].mode = "heartbeat" => held[p] # NoLease
  BY DEF CarriedInv, Carried, SeenInv, Fresh
<1>3. kv'[req[p].key].value = inst[p] /\ kv'[req[p].key].lease = held[p]
  BY <1>1
<1>4. Table!Fits(req[p].key, inst[p], held[p])
  BY <1>2, FitsInHand
<1>5. Table!Create(req[p].key, inst[p], held[p])
  BY DEF Table!Create, Table!Present, Table!LeaseUsable, LeaseUsable, Table!WriteKey,
         Table!Record
<1>6. Table!Instance = Instance
  BY DEF Table!Instance, Instance, Statuses
<1> QED
  BY <1>1, <1>2, <1>3, <1>4, <1>5, <1>6 DEF Table!Register

LEMMA TableUpdateStep ==
    ASSUME Inv, NEW p \in Procs, CASInstance(p)
    PROVE  \E k \in Keys, d \in Data : Table!Update(k, d)
<1> USE DEF CASInstance, CAS, WriteKey, Inv, TypeOK
<1>1. req[p].key \in Keys
  BY KeyTyped
<1>2. req[p].op = "update" /\ req[p].data \in Data
  BY DEF CarriedInv, Carried, Request
<1>3. /\ req[p].expected \in 1..rev
      /\ inst[p] = kv[req[p].key].value /\ held[p] = kv[req[p].key].lease
  BY <1>2 DEF SnapshotInv, Snapshot
<1>4. Table!Update(req[p].key, req[p].data)
  BY <1>3 DEF Table!Update, Table!Put, Table!Present, Table!LeaseUsable, LeaseUsable,
              Table!WriteKey, Table!Record, Updated
<1> QED
  BY <1>1, <1>2, <1>4

\* An unconditional write is that of an up-to-date request, or of one behind.
LEMMA PutStep ==
    ASSUME Inv, SeenInv, NEW p \in Procs, PutInstance(p)
    PROVE  \E k \in Keys :
              \/ Table!Heartbeat(k) \/ Table!Overwrite(k)
              \/ \E P \in Policies, ok \in BOOLEAN : Table!CountedProbe(k, ok, P)
<1> USE DEF PutInstance, Put, WriteKey, Inv, TypeOK
<1> DEFINE k == req[p].key
<1>1. k \in Keys
  BY KeyTyped
<1>2. /\ inst[p] \in Instance
      /\ \/ req[p].op = "heartbeat" /\ held[p] # NoLease /\ inst[p].mode = "heartbeat"
         \/ req[p].op = "probe" /\ inst[p].mode = "probe"
  BY DEF CarriedInv, Carried
<1>3. Refreshed(p) \in Instance /\ Refreshed(p).mode = inst[p].mode
  BY <1>2 DEF Refreshed, Instance, Statuses
<1>4. Table!Put(k, Refreshed(p), PutLease(p))
  BY DEF Table!Put, Table!LeaseUsable, LeaseUsable, Table!WriteKey, Table!Record
<1>5. kv'[k].value = Refreshed(p) /\ kv'[k].lease = PutLease(p)
  BY <1>1
<1>6. CASE kv[k].mod # seen[p]
  <2>1. <<k, "put">> \in Behind
    BY <1>6 DEF Behind, LastCall
  <2>2. Table!Fits(k, Refreshed(p), PutLease(p))
    BY <1>2, <1>3, FitsInHand DEF PutLease
  <2>3. Table!Instance = Instance
    BY DEF Table!Instance, Instance, Statuses
  <2>4. Refreshed(p).mode = "probe" => PutLease(p) = NoLease
    BY <1>2, <1>3 DEF PutLease
  <2> QED
    BY <1>1, <1>3, <1>4, <1>5, <2>1, <2>2, <2>3, <2>4 DEF Table!Overwrite
<1>7. CASE kv[k].mod = seen[p]
  <2>1. UpToDate(p) /\ kv[k].mod > 0
    BY <1>7 DEF SeenInv, Seen, LastCall
  <2>2. CASE req[p].op = "heartbeat"
    <3>1. inst[p] = kv[k].value /\ held[p] = kv[k].lease
      BY <2>1, <2>2 DEF UpToDate
    <3>2. Table!Heartbeat(k)
      BY <1>2, <1>4, <2>1, <2>2, <3>1 DEF Table!Heartbeat, Table!Present, Refreshed, PutLease
    <3> QED
      BY <1>1, <3>2
  <2>3. CASE req[p].op = "probe"
    <3>1. req[p].success \in BOOLEAN /\ req[p].policy \in Policies
      BY <2>3 DEF CarriedInv, Carried, Request
    <3>2. /\ kv[k].value.mode = "probe"
          /\ ~ShouldDelete(kv[k].value, req[p].success, req[p].policy)
          /\ inst[p] = ApplyProbeResult(kv[k].value, req[p].success, req[p].policy)
      BY <2>1, <2>3 DEF UpToDate
    <3>4. ~Table!ShouldDelete(kv[k].value, req[p].success, req[p].policy)
      BY <3>2 DEF Table!ShouldDelete, ShouldDelete, Table!DeleteAt, DeleteAt,
         Table!AtLeast, AtLeast, Table!FailAt, FailAt
    <3>5. inst[p] = Table!ApplyProbeResult(kv[k].value, req[p].success, req[p].policy)
      BY Zenon, <3>2 DEF Table!ApplyProbeResult, ApplyProbeResult,
         Table!ProbeSucceeded, ProbeSucceeded, Table!ProbeFailed, ProbeFailed,
         Table!RecoverAt, RecoverAt, Table!AtLeast, AtLeast, Table!FailAt, FailAt
    <3>6. Table!Put(k, inst[p], NoLease)
      BY <1>4, <2>3 DEF Refreshed, PutLease
    <3>3. Table!CountedProbe(k, req[p].success, req[p].policy)
      BY <2>1, <3>2, <3>4, <3>5, <3>6 DEF Table!CountedProbe, Table!Present
    <3> QED
      BY <1>1, <3>1, <3>3
  <2> QED
    BY <1>2, <2>2, <2>3
<1> QED
  BY <1>6, <1>7

LEMMA DeleteStep ==
    ASSUME Inv, SeenInv, NEW p \in Procs, DeleteInstance(p)
    PROVE  \E k \in Keys :
              \/ Table!Deregister(k) \/ Table!OverwriteDelete(k)
              \/ \E P \in Policies : Table!LastProbe(k, P)
<1> USE DEF DeleteInstance, Delete, EraseKeys, Inv, TypeOK
<1> DEFINE k == req[p].key
<1>1. k \in Keys
  BY KeyTyped
<1>2. Table!Delete(k)
  BY DEF Table!Delete, Table!Present, Table!EraseKeys, Table!Missing, Table!Record
<1>3. CASE kv[k].mod # seen[p]
  <2>1. <<k, "delete">> \in Behind
    BY <1>3 DEF Behind, LastCall
  <2> QED
    BY <1>1, <1>2, <2>1 DEF Table!OverwriteDelete
<1>4. CASE kv[k].mod = seen[p]
  <2>1. UpToDate(p) /\ kv[k].mod > 0
    BY <1>4 DEF SeenInv, Seen, LastCall
  <2>2. CASE req[p].op = "deregister"
    <3>1. Table!Deregister(k)
      BY <1>2, <2>1, <2>2 DEF UpToDate, Table!Deregister
    <3> QED
      BY <1>1, <3>1
  <2>3. CASE req[p].op = "probe"
    <3>1. req[p].policy \in Policies
      BY <2>3 DEF CarriedInv, Carried, Request
    <3>2. /\ kv[k].value.mode = "probe"
          /\ ShouldDelete(kv[k].value, req[p].success, req[p].policy)
      BY <2>1, <2>3 DEF UpToDate
    <3>3. Table!LastProbe(k, req[p].policy)
      BY <1>2, <2>1, <3>2 DEF Table!LastProbe, Table!Present, Table!ShouldDelete, ShouldDelete,
         Table!DeleteAt, DeleteAt, Table!AtLeast, AtLeast, Table!FailAt, FailAt
    <3> QED
      BY <1>1, <3>1, <3>3
  <2> QED
    BY <2>2, <2>3 DEF CarriedInv, Carried
<1> QED
  BY <1>3, <1>4

LEMMA TransactionStep ==
    ASSUME Inv, SeenInv, [Next]_vars
    PROVE  Table!Transaction
<1> USE DEF Table!Transaction
<1>1. ASSUME NEW p \in Procs, CreateInstance(p) PROVE Table!Transaction
  BY <1>1, RegisterStep
<1>2. ASSUME NEW p \in Procs, CASInstance(p) PROVE Table!Transaction
  BY <1>2, TableUpdateStep
<1>3. ASSUME NEW p \in Procs, PutInstance(p) PROVE Table!Transaction
  BY <1>3, PutStep
<1>4. ASSUME NEW p \in Procs, DeleteInstance(p) PROVE Table!Transaction
  BY <1>4, DeleteStep
<1>5. ASSUME NEW l \in Leases, GrantLease(l) PROVE Table!Transaction
  BY <1>5 DEF GrantLease, Table!GrantLease
<1>6. ASSUME NEW l \in Leases, EndLease(l) PROVE Table!Transaction
  BY <1>6 DEF EndLease, Table!EndLease, EraseKeys, Table!EraseKeys, Attached, Table!Attached,
              Table!Present, Table!Missing, Table!Record
<1>7. ASSUME UNCHANGED storeVars PROVE Table!Transaction
  BY <1>7 DEF storeVars, Table!storeVars
<1>8. ASSUME NEW n \in Namespaces, NEW m \in AccessModes, SetAccessMode(n, m)
      PROVE  Table!Transaction
  BY <1>8 DEF SetAccessMode, Table!Elsewhere
<1>9. ASSUME NEW p \in Procs, Arrive(p) PROVE UNCHANGED storeVars
  BY <1>9 DEF Arrive, ReceiveRegister, ReceiveUpdate, ReceiveHeartbeat,
              ReceiveDeregister, ReceiveProbeResult, Receive
<1>10. ASSUME NEW p \in Procs, Step(p) PROVE Table!Transaction
  <2>1. CASE Grant(p)
    BY <1>5, <2>1 DEF Grant
  <2>2. CASE Revoke(p)
    BY <1>6, <2>2 DEF Revoke, Inv, TypeOK, CarriedInv, Carried
  <2> QED
    BY <1>10, <1>1, <1>2, <1>3, <1>4, <1>7, <2>1, <2>2 DEF Step, CheckWrite,
       CheckWriteRefused, CreateInstanceRefused, Get, GetRefused, CASInstanceRefused,
       KeepAlive, KeepAliveRefused, PutInstanceRefused, RevokeRefused, DeleteNotFound
<1> QED
  BY <1>6, <1>7, <1>8, <1>9, <1>10 DEF Next, Abort, Expire, vars

\* Only a write to its key puts a request behind.
LEMMA BehindStep ==
    ASSUME Inv, SeenInv, [SeenNext]_seenVars, NEW b \in Behind'
    PROVE  b \in Behind \/ kv'[b[1]] # kv[b[1]]
<1> PICK p \in Procs : /\ LastCall(p)' # "none" /\ kv'[req'[p].key].mod # seen'[p]
                       /\ b = <<req'[p].key, LastCall(p)'>>
  BY DEF Behind
<1> QED
  BY SeenEffect DEF Behind, Get, storeVars

-----------------------------------------------------------------------------
\* The registry implements the table: interleaved call by call, every request
\* is one transaction, and only one that was overtaken by another write to
\* its key may overwrite or delete what it did not read.
THEOREM RegistryIsTable == SeenSpec => IsInstanceTable
<1>1. SeenInit => Table!Init
  BY DEF SeenInit, Init, StoreInit, Table!Init, Table!StoreInit, Table!Missing, Table!Record,
         Behind, LastCall
<1>2. Inv /\ SeenInv /\ [SeenNext]_seenVars => [Table!Next]_(Table!tableVars)
  <2> SUFFICES ASSUME Inv, SeenInv, [SeenNext]_seenVars PROVE Table!Next
    OBVIOUS
  <2>1. Table!Transaction
    BY TransactionStep DEF SeenNext, seenVars
  <2> QED
    BY <2>1, BehindStep DEF Table!Next
<1> QED
  BY <1>1, <1>2, SeenInvariant, PTL DEF SeenSpec, IsInstanceTable, Table!Spec

HIDE DEF Record, Missing

-----------------------------------------------------------------------------
(* Every step of a provider is a step of the registry, or leaves it alone. *)

\* A service in its loop was told of an instance, and only one that waits for
\* an answer has a request under way.
OwnInv ==
    \A p \in Procs :
        /\ stage[p] = "looping" => own[p] # NoInstance
        /\ pc[p] # "idle" => stage[p] \in {"registering", "looping", "leaving", "visiting"}

\* Where only services of the SDK use the registry, every lease is that of a
\* heartbeat instance.
LEMMA LeaseInHand ==
    ASSUME Inv, NEW p \in Procs, HasLease(p)
    PROVE  Owns(p)
<1>1. inst[p] \in Instance
  BY DEF Inv, CarriedInv, Carried
<1> QED
  BY <1>1, ProviderAssumption DEF Owns, Instance

LEMMA LeaseOnRecord ==
    ASSUME Inv, NEW k \in Keys, kv[k].lease # NoLease
    PROVE  Beats(k)
<1>1. kv[k].value \in Instance
  BY DEF Inv, StoredInv
<1> QED
  BY <1>1, ProviderAssumption DEF Beats, Instance

LEMMA RegistrationTyped ==
    ASSUME TypeOK, NEW p \in Procs, NEW k \in Keys, Receive(p, Registration(k))
    PROVE  ReceiveRegister(p)
<1>1. (CHOOSE d \in Data : TRUE) \in Data
  BY ProviderAssumption
<1>2. /\ "register" \in Ops /\ "heartbeat" \in Modes /\ "health" \in Statuses
      /\ NoClaim \in Counters
  BY ProviderAssumption DEF Statuses
<1>3. NoLease \in IF "heartbeat" = "probe" THEN Leases \cup {NoLease} ELSE {NoLease}
  OBVIOUS
<1> QED
  BY Zenon, <1>1, <1>2, <1>3 DEF ReceiveRegister, Registration

LEMMA ProviderStep ==
    ASSUME Inv, ProviderTypeOK, OwnInv, [ProviderNext]_providerVars
    PROVE  [Next]_vars
<1>1. ASSUME NEW p \in Procs, RegisterUnnamed(p) PROVE Next
  BY <1>1, ProviderAssumption, RegistrationTyped
     DEF RegisterUnnamed, Send, Next, Arrive, Inv
<1>2. ASSUME NEW p \in Procs, RegisterNamed(p) PROVE Next
  BY <1>2, ProviderAssumption, RegistrationTyped
     DEF RegisterNamed, Send, Next, Arrive, Inv
<1>3. ASSUME NEW p \in Procs, stage[p] = "looping" PROVE own[p].key \in Keys
  BY <1>3 DEF OwnInv, ProviderTypeOK
<1>4. ASSUME NEW p \in Procs, Beat(p) PROVE Next
  BY <1>3, <1>4, ProviderAssumption DEF Beat, Send, ReceiveHeartbeat, Next, Arrive
<1>5. ASSUME NEW p \in Procs, Leave(p) PROVE Next
  BY <1>3, <1>5, ProviderAssumption DEF Leave, Send, ReceiveDeregister, Next, Arrive
<1>6. ASSUME NEW p \in Procs, Visit(p) PROVE Next
  <2> PICK k \in Keys, d \in Data :
          /\ Present(k)
          /\ Receive(p, [op |-> "update", key |-> k, data |-> d, expected |-> kv[k].mod])
    BY <1>6 DEF Visit, Send
  <2>1. kv[k].mod \in 1..rev
    BY DEF Inv, TypeOK, StoredInv
  <2> QED
    BY <2>1, ProviderAssumption DEF ReceiveUpdate, Next, Arrive
<1>7. ASSUME NEW p \in Procs, Again(p) PROVE UNCHANGED vars
  BY <1>7 DEF Again
<1>8. ASSUME NEW p \in Procs, Serve(p) PROVE Next
  BY <1>8 DEF Serve, Next
<1>9. ASSUME NEW p \in Procs, Fail(p) PROVE Next
  BY <1>9 DEF Fail, Next
<1>10. ASSUME NEW l \in Leases, RunOut(l) PROVE Next
  BY <1>10 DEF RunOut, Next
<1>11. ASSUME NEW n \in Namespaces, NEW m \in AccessModes, Open(n, m) PROVE Next
  BY <1>11 DEF Open, Next
<1>12. CASE Restart \/ Tick
  BY <1>12 DEF Restart, Tick
<1>13. CASE UNCHANGED providerVars
  BY <1>13 DEF providerVars
<1> QED
  BY <1>1, <1>2, <1>4, <1>5, <1>6, <1>7, <1>8, <1>9, <1>10, <1>11, <1>12, <1>13
     DEF ProviderNext

-----------------------------------------------------------------------------
(* The types of what the services keep.                                    *)

PInv == ProviderTypeOK /\ OwnInv

LEMMA PInvInit == ProviderInit => PInv
  BY ProviderAssumption
     DEF ProviderInit, Init, PInv, ProviderTypeOK, OwnInv, Stages

LEMMA TTLTyped ==
    ASSUME NEW p \in Procs
    PROVE  TTLOf(AskedTTL[p]) \in Nat
  BY ProviderAssumption DEF TTLOf

\* An answer that is heard leaves the service where it can be.
LEMMA HearStep ==
    ASSUME Inv, PInv, NEW p \in Procs, NEW ok \in BOOLEAN, pc[p] # "idle", Hear(p, ok),
           ok => inst[p] \in Instance
    PROVE  /\ stage' \in [Procs -> Stages]
           /\ own' \in [Procs -> [key : Keys, born : Nat] \cup {NoInstance}]
           /\ wait' \in [Procs -> 0..Interval]
           /\ stage'[p] = "looping" => own'[p] # NoInstance
           /\ \A q \in Procs \ {p} : stage'[q] = stage[q] /\ own'[q] = own[q]
<1> USE DEF PInv, ProviderTypeOK, OwnInv
<1> DEFINE begins == stage[p] = "registering" /\ ok
           goesOn == stage[p] = "looping" /\ ok
           s == Hearing(p, ok)
           o == IF begins THEN [key |-> req[p].key, born |-> inst[p].born]
                ELSE IF goesOn THEN own[p] ELSE NoInstance
           w == IF begins THEN Interval ELSE IF goesOn THEN wait[p] ELSE 0
<1>1. /\ stage[p] \in {"registering", "looping", "leaving", "visiting"}
      /\ req[p].key \in Keys
  BY KeyTyped
<1>2. s \in Stages /\ (s = "looping" => begins \/ goesOn)
  BY <1>1 DEF Hearing, Stages
<1>3. stage' = [stage EXCEPT ![p] = s] /\ own' = [own EXCEPT ![p] = o]
      /\ wait' = [wait EXCEPT ![p] = w]
  BY DEF Hear, Become
<1>4. w \in 0..Interval
  BY ProviderAssumption
<1>5. ok => [key |-> req[p].key, born |-> inst[p].born] \in [key : Keys, born : Nat]
  BY <1>1 DEF Instance
<1>6. o \in [key : Keys, born : Nat] \cup {NoInstance} /\ (begins \/ goesOn => o # NoInstance)
  BY <1>5, NoInstanceAssumption
<1> HIDE DEF s, o, w
<1> QED
  BY <1>2, <1>3, <1>4, <1>6

LEMMA PInvStep ==
    ASSUME Inv, PInv, [ProviderNext]_providerVars
    PROVE  PInv'
<1> USE DEF PInv, ProviderTypeOK, OwnInv, Stages
<1>0. restarts \in 0..MaxRestarts /\ Interval \in Nat /\ Delay \in Nat /\ MaxRestarts \in Nat
  BY ProviderAssumption
\* Sending a request.
<1>1. ASSUME NEW p \in Procs, NEW r, Send(p, r), counter' \in Nat,
             wait' \in [Procs -> 0..Interval],
             NEW s \in {"registering", "looping", "leaving", "visiting"},
             stage' = [stage EXCEPT ![p] = s], s = "looping" => stage[p] = "looping"
      PROVE  PInv'
  BY <1>1 DEF Send, Receive, Inv, TypeOK
<1>2. ASSUME NEW p \in Procs, RegisterUnnamed(p) PROVE PInv'
  <2>1. counter' \in Nat /\ wait' = wait
    BY <1>2 DEF RegisterUnnamed
  <2> QED
    BY <1>1, <1>2, <2>1 DEF RegisterUnnamed, Become
<1>3. ASSUME NEW p \in Procs, RegisterNamed(p) PROVE PInv'
  BY <1>1, <1>3 DEF RegisterNamed, Become
<1>4. ASSUME NEW p \in Procs, Beat(p) PROVE PInv'
  BY <1>0, <1>1, <1>4 DEF Beat, Become
<1>5. ASSUME NEW p \in Procs, Leave(p) PROVE PInv'
  BY <1>1, <1>5 DEF Leave, Become
<1>6. ASSUME NEW p \in Procs, Visit(p) PROVE PInv'
  BY <1>1, <1>6 DEF Visit, Become
<1>7. ASSUME NEW p \in Procs, Again(p) PROVE PInv'
  BY <1>7 DEF Again, Become, vars
\* A call of a request, after which it goes on or is answered.
<1>8. ASSUME NEW p \in Procs, Serve(p) PROVE PInv'
  <2>1. /\ pc[p] # "idle" /\ \A q \in Procs \ {p} : pc'[q] = pc[q]
        /\ counter' = counter /\ restarts' = restarts
        /\ age' = [age EXCEPT ![p] = IF pc'[p] = "idle" THEN 0 ELSE @]
    BY <1>8 DEF Serve, Step, CheckWrite, CheckWriteRefused, Grant, CreateInstance,
       CreateInstanceRefused, Get, GetRefused, CASInstance, CASInstanceRefused,
       KeepAlive, KeepAliveRefused, PutInstance, PutInstanceRefused, Revoke,
       RevokeRefused, DeleteInstance, DeleteNotFound, Inv, TypeOK
  <2>2. ttl' \in [Leases -> Nat] /\ left' \in [Leases -> Nat]
    BY <1>8, TTLTyped DEF Serve, Countdowns, Renewed
  <2>3. CASE UNCHANGED client
    BY <2>1, <2>2, <2>3, <1>0 DEF client
  <2>4. ASSUME NEW heard \in BOOLEAN, Hear(p, heard /\ Succeeded(p)), pc'[p] = "idle"
        PROVE  PInv'
    <3>1. Succeeded(p) => inst[p] \in Instance
      BY DEF Succeeded, Inv, CarriedInv, Carried
    <3>2. (heard /\ Succeeded(p)) \in BOOLEAN
      BY DEF Succeeded
    <3>3. /\ stage' \in [Procs -> Stages]
          /\ own' \in [Procs -> [key : Keys, born : Nat] \cup {NoInstance}]
          /\ wait' \in [Procs -> 0..Interval]
          /\ stage'[p] = "looping" => own'[p] # NoInstance
          /\ \A q \in Procs \ {p} : stage'[q] = stage[q] /\ own'[q] = own[q]
      BY <2>1, <2>4, <3>1, <3>2, HearStep
    <3>4. age' \in [Procs -> 0..Delay]
      BY <2>1, <1>0
    <3>5. ProviderTypeOK'
      BY <2>1, <2>2, <3>3, <3>4
    <3>6. OwnInv'
      BY <2>1, <2>4, <3>3
    <3> QED
      BY <3>5, <3>6
  <2> QED
    BY <1>8, <2>3, <2>4 DEF Serve
<1>9. ASSUME NEW p \in Procs, Fail(p) PROVE PInv'
  <2>1. /\ pc[p] # "idle" /\ pc'[p] = "idle" /\ \A q \in Procs \ {p} : pc'[q] = pc[q]
        /\ age' = [age EXCEPT ![p] = 0]
        /\ UNCHANGED <<counter, restarts, ttl, left>>
    BY <1>9 DEF Fail, Abort, Inv, TypeOK
  <2>2. /\ stage' \in [Procs -> Stages]
        /\ own' \in [Procs -> [key : Keys, born : Nat] \cup {NoInstance}]
        /\ wait' \in [Procs -> 0..Interval]
        /\ stage'[p] = "looping" => own'[p] # NoInstance
        /\ \A q \in Procs \ {p} : stage'[q] = stage[q] /\ own'[q] = own[q]
    BY <1>9, <2>1, HearStep DEF Fail
  <2>3. age' \in [Procs -> 0..Delay]
    BY <2>1, <1>0
  <2>4. ProviderTypeOK'
    BY <2>1, <2>2, <2>3
  <2>5. OwnInv'
    BY <2>1, <2>2
  <2> QED
    BY <2>4, <2>5
<1>10. ASSUME NEW l \in Leases, RunOut(l) PROVE PInv'
  BY <1>10 DEF RunOut, Expire, locals, client
<1>11. ASSUME NEW n \in Namespaces, NEW m \in AccessModes, Open(n, m) PROVE PInv'
  BY <1>11 DEF Open, SetAccessMode, locals, client
<1>12. CASE Restart
  BY <1>0, <1>12 DEF Restart, client, vars
<1>13. CASE Tick
  <2>1. \A k \in Nat : Less(k) \in 0..k
    BY DEF Less
  <2>2. left' \in [Leases -> Nat]
    BY <1>13, <2>1 DEF Tick
  <2>3. wait' \in [Procs -> 0..Interval]
    BY <1>0, <1>13, <2>1 DEF Tick
  <2>4. age' \in [Procs -> 0..Delay]
    BY <1>0, <1>13 DEF Tick
  <2> QED
    BY <1>13, <2>2, <2>3, <2>4 DEF Tick, vars
<1>14. CASE UNCHANGED providerVars
  BY <1>14 DEF providerVars, client, vars
<1> QED
  BY <1>2, <1>3, <1>4, <1>5, <1>6, <1>7, <1>8, <1>9, <1>10, <1>11, <1>12, <1>13, <1>14
     DEF ProviderNext

LEMMA ProviderInvariant == ProviderSpec => []Inv /\ []PInv
<1>1. ProviderInit => Inv /\ PInv
  BY PInvInit, InvInit DEF ProviderInit
<1>2. Inv /\ PInv /\ [ProviderNext]_providerVars => (Inv /\ PInv)'
  BY ProviderStep, InvStep, PInvStep DEF PInv
<1> QED
  BY <1>1, <1>2, PTL DEF ProviderSpec

\* The types of what the services, their clocks and the server keep.
THEOREM ProviderTypes == ProviderSpec => []ProviderTypeOK
<1>1. PInv => ProviderTypeOK
  BY DEF PInv
<1> QED
  BY <1>1, ProviderInvariant, PTL

\* Services that register, beat, leave, restart and lose answers, on clocks of
\* their own, drive the registry through behaviours of its specification only.
THEOREM ProviderIsRegistry == ProviderSpec => Spec
<1>1. ProviderInit => Init
  BY DEF ProviderInit
<1>2. Inv /\ PInv /\ [ProviderNext]_providerVars => [Next]_vars
  BY ProviderStep DEF PInv
<1> QED
  BY <1>1, <1>2, ProviderInvariant, PTL DEF ProviderSpec, Spec

\* So an instance of theirs hangs on a live lease whatever happens to answers,
\* clocks and servers.
THEOREM ProviderLeaseBinding == ProviderSpec => []LeaseBinding
  BY ProviderIsRegistry, HeartbeatLeaseBinding, PTL

-----------------------------------------------------------------------------
(* Services whose ids are their own.                                       *)

\* No two generated ids are alike, nor two ids that different services ask
\* for, nor one of either kind.
IdsApart ==
    /\ \A m, n \in DOMAIN Generated : Generated[m] = Generated[n] => m = n
    /\ \A p, q \in Procs : p # q => Named[p] \cap Named[q] = {}
    /\ \A p \in Procs, n \in DOMAIN Generated : Generated[n] \notin Named[p]

\* The requests a service sends at each stage of its life.
Asks(p) ==
    /\ stage[p] \in {"new", "ended"} => pc[p] = "idle"
    /\ stage[p] = "registering" =>
          /\ pc[p] \in {"check", "grant", "create"} /\ req[p].op = "register"
          /\ pc[p] = "check" => req[p].inst.mode = "heartbeat"
          /\ pc[p] # "check" => inst[p].mode = "heartbeat"
    /\ stage[p] = "looping" =>
          /\ own[p] # NoInstance
          /\ pc[p] # "idle" => req[p].op = "heartbeat" /\ Key(p) = own[p].key
    /\ stage[p] = "leaving" =>
          /\ own[p] # NoInstance
          /\ pc[p] # "idle" /\ req[p].op = "deregister" /\ Key(p) = own[p].key
    /\ stage[p] = "visiting" => pc[p] # "idle" /\ req[p].op = "update"

AskInv == \A p \in Procs : Asks(p)

\* A tenant has a key, or is about to: its home.
Tenant(p) == stage[p] \in {"registering", "looping", "leaving"}
Home(p)   == IF stage[p] = "registering" THEN Key(p) ELSE own[p].key

GivenOut == {Generated[n] : n \in {m \in DOMAIN Generated : m <= counter}}

HomeInv ==
    /\ \A p \in Procs : Tenant(p) => Home(p) \in Named[p] \cup GivenOut
    /\ \A p, q \in Procs : Tenant(p) /\ Tenant(q) /\ Home(p) = Home(q) => p = q

\* What is stored at home is the instance the service was told of, and what a
\* heartbeat has in hand is that instance.
Born(p) ==
    stage[p] = "looping" =>
        /\ Present(own[p].key) =>
              /\ kv[own[p].key].value.born = own[p].born
              /\ kv[own[p].key].lease # NoLease
        /\ pc[p] \in {"keepalive", "put"} =>
              /\ inst[p].born = own[p].born
              /\ Present(own[p].key) => held[p] = kv[own[p].key].lease

\* The time that a prompt service's lease has left covers what may pass until
\* it is renewed.
InTime(p) ==
    /\ stage[p] = "registering" /\ pc[p] = "create" =>
          /\ leases[held[p]] = "live" /\ ttl[held[p]] > Interval + 2 * Delay
          /\ left[held[p]] + age[p] > Interval + 2 * Delay
    /\ stage[p] = "looping" /\ ~Gone(p) =>
          LET l == kv[own[p].key].lease IN
          /\ Present(own[p].key) /\ ttl[l] > Interval + 2 * Delay
          /\ pc[p] = "idle" => left[l] > wait[p] + Delay
          /\ pc[p] \in {"check", "get", "keepalive"} => left[l] + age[p] > Delay
          /\ pc[p] = "put" => left[l] + age[p] > Interval + 2 * Delay

BornInv   == \A p \in Procs : Born(p)
InTimeInv == \A p \in Prompt : InTime(p)

TenancyInv == HomeInv /\ BornInv /\ InTimeInv

-----------------------------------------------------------------------------
(* Who moves.                                                              *)

Acts(p) ==
    \/ RegisterUnnamed(p) \/ RegisterNamed(p) \/ Beat(p) \/ Leave(p)
    \/ Visit(p) \/ Again(p) \/ Serve(p) \/ Fail(p)

Untouched(p) ==
    /\ stage'[p] = stage[p] /\ own'[p] = own[p] /\ wait'[p] = wait[p] /\ age'[p] = age[p]
    /\ pc'[p] = pc[p] /\ req'[p] = req[p] /\ inst'[p] = inst[p] /\ held'[p] = held[p]

LEMMA StepIsOwn ==
    ASSUME TypeOK, NEW p \in Procs, Step(p) \/ Abort(p)
    PROVE  /\ pc[p] # "idle" /\ received' = received
           /\ \A q \in Procs \ {p} : /\ pc'[q] = pc[q] /\ req'[q] = req[q]
                                     /\ inst'[q] = inst[q] /\ held'[q] = held[q]
  BY DEF Step, CheckWrite, CheckWriteRefused, Grant, CreateInstance,
       CreateInstanceRefused, Get, GetRefused, CASInstance, CASInstanceRefused,
       KeepAlive, KeepAliveRefused, PutInstance, PutInstanceRefused, Revoke,
       RevokeRefused, DeleteInstance, DeleteNotFound, Abort, TypeOK

LEMMA ActIsOwn ==
    ASSUME Inv, PInv, NEW q \in Procs, Acts(q), NEW p \in Procs \ {q}
    PROVE  Untouched(p)
<1> USE DEF Inv, TypeOK, PInv, ProviderTypeOK
<1>1. CASE RegisterUnnamed(q) \/ RegisterNamed(q) \/ Beat(q) \/ Leave(q) \/ Visit(q)
  BY <1>1 DEF RegisterUnnamed, RegisterNamed, Beat, Leave, Visit, Send, Receive, Become, Untouched
<1>2. CASE Again(q)
  BY <1>2 DEF Again, Become, vars, Untouched
<1>3. ASSUME Serve(q) \/ Fail(q)
      PROVE  stage'[p] = stage[p] /\ own'[p] = own[p] /\ wait'[p] = wait[p] /\ age'[p] = age[p]
  BY <1>3 DEF Serve, Fail, Hear, Become, client
<1>4. CASE Serve(q) \/ Fail(q)
  BY <1>3, <1>4, StepIsOwn DEF Untouched, Serve, Fail
<1> QED
  BY <1>1, <1>2, <1>4 DEF Acts

LEMMA NobodyActs ==
    ASSUME \/ \E l \in Leases : RunOut(l)
           \/ \E n \in Namespaces, m \in AccessModes : Open(n, m)
           \/ UNCHANGED providerVars,
           NEW p \in Procs
    PROVE  Untouched(p) /\ received' = received
  BY DEF RunOut, Expire, Open, SetAccessMode, providerVars, vars, locals, client, Untouched

\* What a service sends.
Sends(p, s, op) ==
    /\ stage'[p] = s /\ own'[p] = own[p] /\ age'[p] = age[p]
    /\ pc[p] = "idle" /\ pc'[p] = "check" /\ req'[p].op = op
    /\ inst'[p] = inst[p] /\ held'[p] = held[p]
    /\ received < MaxRequests /\ UNCHANGED <<storeVars, restarts, ttl, left>>

LEMMA Sending ==
    ASSUME Inv, PInv, NEW p \in Procs
    PROVE  /\ RegisterUnnamed(p) => /\ stage[p] = "new" /\ Sends(p, "registering", "register")
                                   /\ counter + 1 \in DOMAIN Generated /\ counter' = counter + 1
                                   /\ req'[p] = Registration(Generated[counter + 1])
           /\ RegisterNamed(p) => /\ stage[p] = "new" /\ Sends(p, "registering", "register")
                                 /\ counter' = counter
                                 /\ \E k \in Named[p] : req'[p] = Registration(k)
           /\ Beat(p) => /\ stage[p] = "looping" /\ Sends(p, "looping", "heartbeat")
                        /\ counter' = counter /\ req'[p].key = own[p].key
                        /\ wait[p] = 0 /\ wait'[p] = Interval
           /\ Leave(p) => /\ stage[p] = "looping" /\ Sends(p, "leaving", "deregister")
                         /\ counter' = counter /\ req'[p].key = own[p].key
           /\ Visit(p) => /\ stage[p] = "new" /\ Sends(p, "visiting", "update")
                         /\ counter' = counter
<1> USE DEF Inv, TypeOK, PInv, ProviderTypeOK, Send, Receive, Become, Sends, storeVars
<1>1. RegisterUnnamed(p) => /\ stage[p] = "new" /\ Sends(p, "registering", "register")
                            /\ counter + 1 \in DOMAIN Generated /\ counter' = counter + 1
                            /\ req'[p] = Registration(Generated[counter + 1])
  BY DEF RegisterUnnamed, Registration
<1>2. RegisterNamed(p) => /\ stage[p] = "new" /\ Sends(p, "registering", "register")
                          /\ counter' = counter
                          /\ \E k \in Named[p] : req'[p] = Registration(k)
  BY DEF RegisterNamed, Registration
<1>3. Beat(p) => /\ stage[p] = "looping" /\ Sends(p, "looping", "heartbeat")
                 /\ counter' = counter /\ req'[p].key = own[p].key
                 /\ wait[p] = 0 /\ wait'[p] = Interval
  BY DEF Beat
<1>4. Leave(p) => /\ stage[p] = "looping" /\ Sends(p, "leaving", "deregister")
                  /\ counter' = counter /\ req'[p].key = own[p].key
  BY DEF Leave
<1>5. Visit(p) => /\ stage[p] = "new" /\ Sends(p, "visiting", "update")
                  /\ counter' = counter
  BY DEF Visit
<1> QED
  BY <1>1, <1>2, <1>3, <1>4, <1>5

-----------------------------------------------------------------------------
(* What a service asks for at each stage.                                  *)

LEMMA AskedAlike ==
    ASSUME NEW p \in Procs, Asks(p), stage'[p] = stage[p], own'[p] = own[p],
           pc'[p] = pc[p], req'[p] = req[p], inst'[p] = inst[p]
    PROVE  Asks(p)'
  BY DEF Asks

\* How the calls of a request follow each other, for each kind of request.
LEMMA ServedRegister ==
    ASSUME Inv, PInv, NEW p \in Procs, Asks(p), stage[p] = "registering", Step(p)
    PROVE  \/ /\ pc[p] = "check" /\ pc'[p] = "grant" /\ inst'[p] = req[p].inst
              /\ req'[p] = req[p] /\ UNCHANGED storeVars
           \/ /\ pc[p] = "grant" /\ pc'[p] = "create" /\ inst'[p] = inst[p]
              /\ req'[p] = req[p] /\ \E l \in Leases : GrantLease(l) /\ held'[p] = l
           \/ /\ pc[p] = "create" /\ pc'[p] = "idle"
              /\ Create(Key(p), inst[p], held[p])
           \/ pc'[p] = "idle" /\ UNCHANGED storeVars
<1> USE DEF Inv, TypeOK, Asks
<1>1. /\ ~Get(p) /\ ~GetRefused(p) /\ ~CASInstance(p) /\ ~CASInstanceRefused(p)
      /\ ~KeepAlive(p) /\ ~KeepAliveRefused(p) /\ ~PutInstance(p) /\ ~PutInstanceRefused(p)
      /\ ~Revoke(p) /\ ~RevokeRefused(p) /\ ~DeleteInstance(p) /\ ~DeleteNotFound(p)
  BY DEF Get, GetRefused, CASInstance, CASInstanceRefused,
       KeepAlive, KeepAliveRefused, PutInstance, PutInstanceRefused, Revoke,
       RevokeRefused, DeleteInstance, DeleteNotFound
<1>2. CASE CheckWrite(p)
  BY <1>2 DEF CheckWrite
<1>3. CASE Grant(p)
  BY <1>3 DEF Grant
<1>4. CASE CreateInstance(p)
  BY <1>4 DEF CreateInstance
<1>5. CASE CheckWriteRefused(p) \/ CreateInstanceRefused(p)
  BY <1>5 DEF CheckWriteRefused, CreateInstanceRefused
<1> QED
  BY <1>1, <1>2, <1>3, <1>4, <1>5 DEF Step

LEMMA ServedHeartbeat ==
    ASSUME Inv, NEW p \in Procs, req[p].op = "heartbeat", Step(p)
    PROVE  LET found == kv[Key(p)] IN
           \/ pc[p] = "check" /\ pc'[p] = "get" /\ req'[p] = req[p] /\ UNCHANGED storeVars
           \/ /\ pc[p] = "get" /\ pc'[p] = "keepalive" /\ req'[p] = req[p]
              /\ Present(Key(p)) /\ inst'[p] = found.value /\ held'[p] = found.lease
              /\ UNCHANGED storeVars
           \/ /\ pc[p] = "keepalive" /\ pc'[p] = "put" /\ req'[p] = req[p]
              /\ inst'[p] = inst[p] /\ held'[p] = held[p] /\ UNCHANGED storeVars
           \/ /\ pc[p] = "put" /\ pc'[p] = "idle"
              /\ Put(Key(p), [inst[p] EXCEPT !.status = "health"], held[p])
           \/ pc'[p] = "idle" /\ UNCHANGED storeVars /\ ~Succeeded(p)
<1> USE DEF Inv, TypeOK, CarriedInv, Carried, storeVars
<1>1. /\ ~Grant(p) /\ ~CreateInstance(p) /\ ~CreateInstanceRefused(p)
      /\ ~CASInstance(p) /\ ~CASInstanceRefused(p)
      /\ ~Revoke(p) /\ ~RevokeRefused(p) /\ ~DeleteInstance(p) /\ ~DeleteNotFound(p)
  BY DEF Grant, CreateInstance, CreateInstanceRefused, CASInstance, CASInstanceRefused,
       Revoke, RevokeRefused, DeleteInstance, DeleteNotFound
<1>2. CASE CheckWrite(p)
  BY <1>2 DEF CheckWrite
<1>3. CASE Get(p)
  <2>1. pc[p] = "get" /\ Key(p) \in Keys /\ Present(Key(p))
    BY <1>3, KeyTyped DEF Get
  <2>2. kv[Key(p)].value.mode = "heartbeat" /\ kv[Key(p)].lease # NoLease
    BY <1>3, <2>1 DEF Get, RightMode, LeaseBinding
  <2>3. pc'[p] = "keepalive"
    BY <1>3, <2>2 DEF Get, AfterGet
  <2> QED
    BY <1>3, <2>1, <2>3 DEF Get
<1>4. CASE KeepAlive(p)
  BY <1>4 DEF KeepAlive
<1>5. CASE PutInstance(p)
  BY <1>5 DEF PutInstance, Refreshed, PutLease
<1>6. CASE CheckWriteRefused(p) \/ GetRefused(p) \/ KeepAliveRefused(p) \/ PutInstanceRefused(p)
  BY <1>6 DEF CheckWriteRefused, GetRefused, KeepAliveRefused, PutInstanceRefused, Succeeded
<1> QED
  BY <1>1, <1>2, <1>3, <1>4, <1>5, <1>6 DEF Step

\* Until it is answered a request stays the same.
LEMMA RequestStays ==
    ASSUME TypeOK, NEW p \in Procs, Step(p), pc'[p] # "idle"
    PROVE  req'[p] = req[p]
  BY DEF Step, CheckWrite, CheckWriteRefused, Grant, CreateInstance,
       CreateInstanceRefused, Get, GetRefused, CASInstance, CASInstanceRefused,
       KeepAlive, KeepAliveRefused, PutInstance, PutInstanceRefused, Revoke,
       RevokeRefused, DeleteInstance, DeleteNotFound, TypeOK

\* What the service makes of the answer.
LEMMA Heard ==
    ASSUME Inv, PInv, NEW p \in Procs, Asks(p), Serve(p) \/ Fail(p)
    PROVE  /\ pc'[p] # "idle" => /\ Serve(p) /\ age'[p] = age[p]
                                 /\ stage'[p] = stage[p] /\ own'[p] = own[p] /\ wait'[p] = wait[p]
           /\ pc'[p] = "idle" =>
                \/ stage'[p] \in {"new", "ended"}
                \/ /\ Serve(p) /\ Succeeded(p) /\ stage[p] = "registering" /\ stage'[p] = "looping"
                   /\ own'[p] = [key |-> Key(p), born |-> inst[p].born] /\ wait'[p] = Interval
                \/ /\ Serve(p) /\ Succeeded(p) /\ stage[p] = "looping" /\ stage'[p] = "looping"
                   /\ own'[p] = own[p] /\ wait'[p] = wait[p]
<1> USE DEF Inv, TypeOK, PInv, ProviderTypeOK
<1>1. stage[p] \in {"registering", "looping", "leaving", "visiting"}
  BY StepIsOwn DEF OwnInv, Serve, Fail
<1>2. ASSUME NEW heard \in BOOLEAN, Hear(p, heard /\ Succeeded(p))
      PROVE  \/ stage'[p] \in {"new", "ended"}
             \/ /\ Succeeded(p) /\ stage[p] = "registering" /\ stage'[p] = "looping"
                /\ own'[p] = [key |-> Key(p), born |-> inst[p].born] /\ wait'[p] = Interval
             \/ /\ Succeeded(p) /\ stage[p] = "looping" /\ stage'[p] = "looping"
                /\ own'[p] = own[p] /\ wait'[p] = wait[p]
  <2>1. CASE heard /\ Succeeded(p)
    BY <1>1, <1>2, <2>1 DEF Hear, Become, Hearing
  <2>2. CASE ~(heard /\ Succeeded(p))
    BY <1>1, <1>2, <2>2 DEF Hear, Become, Hearing
  <2> QED
    BY <2>1, <2>2
<1>3. Fail(p) => pc'[p] = "idle" /\ stage'[p] \in {"new", "ended"}
  BY <1>1 DEF Fail, Abort, Hear, Become, Hearing
<1>4. CASE Serve(p)
  <2>1. pc'[p] # "idle" => /\ age'[p] = age[p]
                           /\ stage'[p] = stage[p] /\ own'[p] = own[p] /\ wait'[p] = wait[p]
    BY <1>4 DEF Serve, client
  <2> QED
    BY <1>2, <1>4, <2>1 DEF Serve
<1> QED
  BY <1>3, <1>4

LEMMA AskStep ==
    ASSUME Inv, PInv, AskInv, [ProviderNext]_providerVars
    PROVE  AskInv'
<1> SUFFICES ASSUME NEW p \in Procs PROVE Asks(p)'
  BY DEF AskInv
<1>0. Asks(p)
  BY DEF AskInv
<1>1. Untouched(p) => Asks(p)'
  BY <1>0, AskedAlike DEF Untouched
<1>2. ASSUME NEW q \in Procs, Acts(q) PROVE Asks(p)'
  <2>1. CASE q # p
    BY <1>1, <1>2, <2>1, ActIsOwn
  <2>2. CASE RegisterUnnamed(p) \/ RegisterNamed(p)
    <3>1. stage'[p] = "registering" /\ pc'[p] = "check" /\ req'[p].op = "register"
      BY <2>2, Sending DEF Sends
    <3>2. \A k : Registration(k).inst.mode = "heartbeat"
      BY DEF Registration, NewInstance
    <3>3. \E k : req'[p] = Registration(k)
      BY <2>2, Sending
    <3>4. req'[p].inst.mode = "heartbeat"
      BY <3>2, <3>3
    <3> QED
      BY <3>1, <3>4 DEF Asks
  <2>3. CASE Beat(p) \/ Leave(p) \/ Visit(p)
    BY <1>0, <2>3, Sending DEF Asks, Sends
  <2>4. CASE Again(p)
    BY <1>0, <2>4 DEF Again, Become, vars, Asks, PInv, ProviderTypeOK
  <2>5. CASE Serve(p) \/ Fail(p)
    <3>1. Serve(p) => Step(p)
      BY DEF Serve
    <3>2. CASE pc'[p] # "idle"
      <4>1. /\ Serve(p) /\ Step(p) /\ stage'[p] = stage[p] /\ own'[p] = own[p]
            /\ req'[p] = req[p] /\ pc[p] # "idle"
        BY <1>0, <2>5, <3>1, <3>2, Heard, RequestStays, StepIsOwn DEF Inv
      <4>2. CASE stage[p] = "registering"
        BY <1>0, <3>2, <4>1, <4>2, ServedRegister DEF Asks
      <4> QED
        BY <1>0, <3>2, <4>1, <4>2 DEF Asks
    <3>3. CASE pc'[p] = "idle"
      <4>1. /\ stage'[p] # "registering" /\ stage'[p] # "leaving" /\ stage'[p] # "visiting"
            /\ stage'[p] = "looping" => own'[p] # NoInstance
        BY <1>0, <2>5, <3>3, Heard, PInvStep, ProviderStep DEF PInv, OwnInv, ProviderNext
      <4> QED
        BY <3>3, <4>1 DEF Asks
    <3> QED
      BY <3>2, <3>3
  <2> QED
    BY <1>2, <2>1, <2>2, <2>3, <2>4, <2>5 DEF Acts
<1>3. CASE \/ \E l \in Leases : RunOut(l)
           \/ \E n \in Namespaces, m \in AccessModes : Open(n, m)
           \/ UNCHANGED providerVars
  BY <1>1, <1>3, NobodyActs
<1>4. CASE Restart \/ Tick
  BY <1>0, <1>4, AskedAlike DEF Restart, Tick, vars, client
<1> QED
  BY <1>2, <1>3, <1>4 DEF ProviderNext, Acts

-----------------------------------------------------------------------------
(* Whose home a key is.                                                    *)

\* A service stays at home until it leaves.
LEMMA StaysAtHome ==
    ASSUME Inv, PInv, AskInv, [ProviderNext]_providerVars, NEW p \in Procs, Tenant(p)',
           ~RegisterUnnamed(p), ~RegisterNamed(p)
    PROVE  Tenant(p) /\ Home(p)' = Home(p)
<1> USE DEF Tenant, Home
<1>0. Asks(p)
  BY DEF AskInv
<1>1. CASE Untouched(p)
  BY <1>1 DEF Untouched
<1>2. ASSUME NEW q \in Procs, Acts(q) PROVE Tenant(p) /\ Home(p)' = Home(p)
  <2>1. CASE q # p
    BY <1>1, <1>2, <2>1, ActIsOwn
  <2>2. CASE Beat(p) \/ Leave(p) \/ Visit(p)
    BY <1>0, <2>2, Sending DEF Sends
  <2>3. CASE Again(p)
    BY <2>3 DEF Again, Become, PInv, ProviderTypeOK
  <2>4. CASE Serve(p) \/ Fail(p)
    <3>1. Serve(p) => Step(p)
      BY DEF Serve
    <3>2. CASE pc'[p] # "idle"
      <4>1. stage'[p] = stage[p] /\ own'[p] = own[p] /\ req'[p] = req[p]
        BY <1>0, <2>4, <3>1, <3>2, Heard, RequestStays DEF Inv
      <4> QED
        BY <4>1
    <3>3. CASE pc'[p] = "idle"
      <4>1. \/ stage'[p] \in {"new", "ended"}
            \/ /\ stage[p] = "registering" /\ stage'[p] = "looping"
               /\ own'[p] = [key |-> req[p].key, born |-> inst[p].born]
            \/ stage[p] = "looping" /\ stage'[p] = "looping" /\ own'[p] = own[p]
        BY <1>0, <2>4, <3>3, Heard
      <4> QED
        BY <4>1
    <3> QED
      BY <3>2, <3>3
  <2> QED
    BY <1>2, <2>1, <2>2, <2>3, <2>4 DEF Acts
<1>3. CASE \/ \E l \in Leases : RunOut(l)
           \/ \E n \in Namespaces, m \in AccessModes : Open(n, m)
           \/ UNCHANGED providerVars
  BY <1>1, <1>3, NobodyActs
<1>4. CASE Restart \/ Tick
  BY <1>4 DEF Restart, Tick, vars, client
<1> QED
  BY <1>2, <1>3, <1>4 DEF ProviderNext, Acts

LEMMA CounterGrows ==
    ASSUME PInv, [ProviderNext]_providerVars, restarts' = 0
    PROVE  /\ counter \in Nat /\ counter' \in Nat /\ counter <= counter' /\ restarts = 0
           /\ GivenOut \subseteq GivenOut'
<1> USE DEF PInv, ProviderTypeOK
<1>1. ASSUME NEW q \in Procs, Acts(q)
      PROVE  counter' \in {counter, counter + 1} /\ restarts' = restarts
  BY <1>1 DEF Acts, RegisterUnnamed, RegisterNamed, Beat, Leave, Visit, Again, Serve, Fail, Send
<1>2. ASSUME \/ \E l \in Leases : RunOut(l)
             \/ \E n \in Namespaces, m \in AccessModes : Open(n, m)
             \/ UNCHANGED providerVars \/ Tick
      PROVE  counter' = counter /\ restarts' = restarts
  BY <1>2 DEF RunOut, Open, providerVars, Tick
<1>3. ~Restart
  BY ProviderAssumption DEF Restart
<1>4. counter' \in {counter, counter + 1} /\ restarts' = restarts
  BY <1>1, <1>2, <1>3 DEF ProviderNext, Acts
<1>5. counter \in Nat /\ counter' \in Nat /\ counter <= counter' /\ restarts = 0
  BY <1>4
<1>6. ASSUME NEW n \in DOMAIN Generated, n <= counter PROVE n <= counter'
  BY <1>4, <1>6, ProviderAssumption
<1> QED
  BY <1>5, <1>6 DEF GivenOut

LEMMA HomeStep ==
    ASSUME IdsApart, Inv, PInv, AskInv, HomeInv, [ProviderNext]_providerVars, restarts' = 0
    PROVE  HomeInv'
<1> DEFINE New(p) == RegisterUnnamed(p) \/ RegisterNamed(p)
<1>0. \A k : Registration(k).key = k
  BY DEF Registration
<1>1. GivenOut \subseteq GivenOut' /\ counter \in Nat
  BY CounterGrows
<1>2. ASSUME NEW p \in Procs, Tenant(p)', ~New(p)
      PROVE  Tenant(p) /\ Home(p)' = Home(p) /\ Home(p)' \in Named[p] \cup GivenOut
  BY <1>2, StaysAtHome DEF HomeInv
<1>3. ASSUME NEW p \in Procs, RegisterUnnamed(p)
      PROVE  Home(p)' \in GivenOut' /\ Home(p)' \notin GivenOut
             /\ \A q \in Procs : Home(p)' \notin Named[q]
  <2>1. /\ stage'[p] = "registering" /\ req'[p].key = Generated[counter + 1]
        /\ counter + 1 \in DOMAIN Generated /\ counter' = counter + 1
    BY <1>0, <1>3, Sending DEF Sends
  <2>2. Home(p)' = Generated[counter + 1]
    BY <2>1 DEF Home
  <2>3. ASSUME NEW n \in DOMAIN Generated, n <= counter PROVE Generated[n] # Generated[counter + 1]
    BY <1>1, <2>1, <2>3 DEF IdsApart
  <2>4. Generated[counter + 1] \notin GivenOut
    BY <2>3 DEF GivenOut
  <2>5. Generated[counter + 1] \in GivenOut'
    BY <1>1, <2>1 DEF GivenOut
  <2> QED
    BY <2>1, <2>2, <2>4, <2>5 DEF IdsApart
<1>4. ASSUME NEW p \in Procs, RegisterNamed(p)
      PROVE  Home(p)' \in Named[p] /\ counter' = counter
  <2>1. /\ stage'[p] = "registering" /\ counter' = counter
        /\ \E k \in Named[p] : req'[p] = Registration(k)
    BY <1>4, Sending DEF Sends
  <2>2. req'[p].key \in Named[p]
    BY <1>0, <2>1
  <2> QED
    BY <2>1, <2>2 DEF Home
<1>5. ASSUME NEW p \in Procs, NEW q \in Procs, New(p), New(q) PROVE p = q
  <2>1. stage'[p] # stage[p] /\ stage'[q] # stage[q]
    BY <1>5, Sending DEF Sends
  <2>2. Acts(p)
    BY <1>5 DEF Acts
  <2> QED
    BY <2>1, <2>2, ActIsOwn DEF Untouched
<1>6. ASSUME NEW p \in Procs, NEW n \in DOMAIN Generated PROVE Generated[n] \notin Named[p]
  BY DEF IdsApart
<1>7. ASSUME NEW p \in Procs, Tenant(p)' PROVE Home(p)' \in Named[p] \cup GivenOut'
  BY <1>1, <1>2, <1>3, <1>4, <1>7
<1>8. ASSUME NEW p \in Procs, NEW q \in Procs, Tenant(p)', Tenant(q)', New(p), ~New(q)
      PROVE  Home(p)' # Home(q)'
  <2>1. Home(q)' \in Named[q] \cup GivenOut
    BY <1>2, <1>8
  <2>2. CASE RegisterUnnamed(p)
    BY <1>3, <2>1, <2>2
  <2>3. CASE RegisterNamed(p)
    <3>1. Home(p)' \in Named[p] /\ p # q
      BY <1>4, <1>8, <2>3
    <3>2. Home(p)' \notin Named[q]
      BY <3>1 DEF IdsApart
    <3>3. Home(p)' \notin GivenOut
      BY <1>6, <3>1 DEF GivenOut
    <3> QED
      BY <2>1, <3>2, <3>3
  <2> QED
    BY <1>8, <2>2, <2>3
<1>9. ASSUME NEW p \in Procs, NEW q \in Procs, Tenant(p)', Tenant(q)', Home(p)' = Home(q)'
      PROVE  p = q
  <2>1. CASE ~New(p) /\ ~New(q)
    BY <1>2, <1>9, <2>1 DEF HomeInv
  <2>2. CASE New(p) /\ New(q)
    BY <1>5, <2>2
  <2>3. CASE (New(p) /\ ~New(q)) \/ (New(q) /\ ~New(p))
    BY <1>8, <1>9, <2>3
  <2> QED
    BY <2>1, <2>2, <2>3
<1> QED
  BY <1>7, <1>9 DEF HomeInv

-----------------------------------------------------------------------------
(* What the others leave of a home.                                        *)

LEMMA ServedDeregister ==
    ASSUME Inv, NEW p \in Procs, req[p].op = "deregister", Step(p)
    PROVE  /\ pc[p] # "keepalive"
           /\ \/ UNCHANGED storeVars
              \/ held[p] \in Leases /\ EndLease(held[p])
              \/ Delete(Key(p))
<1> USE DEF Inv, TypeOK, CarriedInv, Carried, storeVars
<1>1. /\ ~Grant(p) /\ ~CreateInstance(p) /\ ~CreateInstanceRefused(p)
      /\ ~CASInstance(p) /\ ~CASInstanceRefused(p) /\ ~KeepAlive(p) /\ ~KeepAliveRefused(p)
      /\ ~PutInstance(p) /\ ~PutInstanceRefused(p)
  BY DEF Grant, CreateInstance, CreateInstanceRefused, CASInstance, CASInstanceRefused,
       KeepAlive, KeepAliveRefused, PutInstance, PutInstanceRefused
<1>2. pc[p] # "keepalive"
  OBVIOUS
<1>3. CASE Revoke(p)
  BY <1>2, <1>3 DEF Revoke
<1>4. CASE DeleteInstance(p)
  BY <1>2, <1>4 DEF DeleteInstance
<1>5. CASE CheckWrite(p) \/ CheckWriteRefused(p) \/ Get(p) \/ GetRefused(p)
           \/ RevokeRefused(p) \/ DeleteNotFound(p)
  BY <1>2, <1>5 DEF CheckWrite, CheckWriteRefused, Get, GetRefused, RevokeRefused, DeleteNotFound
<1> QED
  BY <1>1, <1>3, <1>4, <1>5 DEF Step

LEMMA ServedUpdate ==
    ASSUME Inv, NEW p \in Procs, req[p].op = "update", Step(p)
    PROVE  /\ pc[p] # "keepalive"
           /\ \/ UNCHANGED storeVars
              \/ pc[p] = "cas" /\ CAS(Key(p), req[p].expected, Updated(p), held[p])
<1> USE DEF Inv, TypeOK, CarriedInv, Carried, storeVars
<1>1. /\ ~Grant(p) /\ ~CreateInstance(p) /\ ~CreateInstanceRefused(p)
      /\ ~KeepAlive(p) /\ ~KeepAliveRefused(p) /\ ~PutInstance(p) /\ ~PutInstanceRefused(p)
      /\ ~Revoke(p) /\ ~RevokeRefused(p) /\ ~DeleteInstance(p) /\ ~DeleteNotFound(p)
  BY DEF Grant, CreateInstance, CreateInstanceRefused, KeepAlive, KeepAliveRefused,
       PutInstance, PutInstanceRefused, Revoke, RevokeRefused, DeleteInstance, DeleteNotFound
<1>2. pc[p] # "keepalive"
  OBVIOUS
<1>3. CASE CASInstance(p)
  BY <1>2, <1>3 DEF CASInstance
<1>4. CASE CheckWrite(p) \/ CheckWriteRefused(p) \/ Get(p) \/ GetRefused(p)
           \/ CASInstanceRefused(p)
  BY <1>2, <1>4 DEF CheckWrite, CheckWriteRefused, Get, GetRefused, CASInstanceRefused
<1> QED
  BY <1>1, <1>3, <1>4 DEF Step

\* The record of a key keeps its instance and its lease.
InPlace(k) ==
    /\ kv'[k].mod > 0 <=> Present(k)
    /\ Present(k) => /\ kv'[k].value.born = kv[k].value.born
                     /\ kv'[k].lease = kv[k].lease

\* Another service at its calls: it does nothing to the record or to the lease.
LEMMA ServedElsewhere ==
    ASSUME Inv, PInv, AskInv, HomeInv, NEW p \in Procs, NEW q \in Procs, p # q,
           Tenant(p), Step(q), NEW k, k = Home(p)
    PROVE  /\ InPlace(k)
           /\ \A l \in Leases : /\ leases[l] = "live"
                                /\ kv[k].lease = l \/ held[p] = l
                                => leases'[l] = "live" /\ ~(pc[q] = "keepalive" /\ held[q] = l)
<1> DEFINE Theirs(l) == kv[k].lease = l \/ held[p] = l
<1>0. k \in Keys
  BY ProviderAssumption DEF HomeInv, GivenOut
<1>1. Asks(p) /\ Asks(q)
  BY DEF AskInv
<1>2. pc[q] # "idle" /\ Tenant(q) => Key(q) = Home(q)
  BY <1>1 DEF Asks, Tenant, Home
<1>3. pc[q] # "idle" /\ stage[q] \in {"registering", "looping", "leaving", "visiting"}
  BY StepIsOwn DEF Inv, PInv, OwnInv
<1>4. Tenant(q) => Key(q) # k
  BY <1>2, <1>3 DEF HomeInv
<1>5. ASSUME NEW l \in Leases, Theirs(l), held[q] = l PROVE Key(q) = k
  <2>1. HasLease(q)
    BY <1>5, LeaseAssumption
  <2>4. Owns(q)
    BY <2>1, LeaseInHand
  <2>2. CASE kv[k].lease = l
    <3>1. Beats(k)
      BY <1>0, <1>5, <2>1, <2>2, LeaseOnRecord
    <3> QED
      BY <1>0, <1>5, <2>2, <2>4, <3>1 DEF Inv, OwnerInv
  <2>3. CASE held[p] = l
    <3>4. Owns(p)
      BY <1>5, <2>1, <2>3, LeaseInHand
    <3>1. Key(p) = Key(q)
      BY <1>5, <2>3, <2>4, <3>4 DEF Inv, OwnerInv
    <3>2. pc[p] # "idle"
      BY <1>5, <2>3, LeaseAssumption DEF Inv, CarriedInv, Carried
    <3>3. Key(p) = k
      BY <1>1, <3>2 DEF Asks, Tenant, Home
    <3> QED
      BY <3>1, <3>3
  <2> QED
    BY <1>5, <2>2, <2>3
<1>6. kv \in [Keys -> [value : Instance \cup {NoValue}, mod : Nat, lease : Leases \cup {NoLease}]]
      /\ rev \in Nat /\ leases \in [Leases -> {"free", "live", "dead"}]
  BY DEF Inv, TypeOK
<1>7. ASSUME UNCHANGED storeVars
      PROVE  InPlace(k) /\ \A l \in Leases : leases'[l] = leases[l]
  BY <1>7 DEF InPlace, storeVars
<1>8. ASSUME NEW j, NEW v, NEW l, j # k, WriteKey(j, v, l)
      PROVE  InPlace(k) /\ \A m \in Leases : leases'[m] = leases[m]
  BY <1>0, <1>6, <1>8 DEF WriteKey, InPlace
<1>9. CASE stage[q] = "registering"
  <2>1. pc[q] # "keepalive"
    BY <1>1, <1>9 DEF Asks
  <2>2. Key(q) # k
    BY <1>4, <1>9 DEF Tenant
  <2>3. CASE UNCHANGED storeVars
    BY <1>7, <2>1, <2>3
  <2>4. ASSUME NEW m \in Leases, GrantLease(m)
        PROVE  InPlace(k) /\ \A l \in Leases : leases[l] = "live" => leases'[l] = "live"
    BY <1>6, <2>4 DEF GrantLease, InPlace
  <2>5. CASE Create(Key(q), inst[q], held[q])
    BY <1>8, <2>1, <2>2, <2>5 DEF Create
  <2> QED
    BY <1>1, <1>9, <2>1, <2>3, <2>4, <2>5, ServedRegister
<1>10. CASE stage[q] = "looping"
  <2>1. req[q].op = "heartbeat" /\ Key(q) # k
    BY <1>1, <1>3, <1>4, <1>10 DEF Asks, Tenant
  <2>2. CASE UNCHANGED storeVars
    BY <1>5, <1>7, <2>1, <2>2
  <2>3. CASE Put(Key(q), [inst[q] EXCEPT !.status = "health"], held[q])
    BY <1>5, <1>8, <2>1, <2>3 DEF Put
  <2> QED
    BY <2>1, <2>2, <2>3, ServedHeartbeat
<1>11. CASE stage[q] = "leaving"
  <2>1. req[q].op = "deregister" /\ Key(q) # k
    BY <1>1, <1>3, <1>4, <1>11 DEF Asks, Tenant
  <2>2. CASE UNCHANGED storeVars
    BY <1>5, <1>7, <2>1, <2>2
  <2>3. CASE held[q] \in Leases /\ EndLease(held[q])
    <3>1. kv[k].lease # held[q] /\ \A l \in Leases : Theirs(l) => l # held[q]
      BY <1>5, <2>1, <2>3
    <3>2. InPlace(k)
      BY <1>0, <1>6, <2>3, <3>1 DEF EndLease, EraseKeys, Attached, InPlace
    <3>3. \A l \in Leases : l # held[q] => leases'[l] = leases[l]
      BY <1>6, <2>3 DEF EndLease
    <3> QED
      BY <3>1, <3>2, <3>3
  <2>4. CASE Delete(Key(q))
    <3>1. InPlace(k) /\ leases' = leases
      BY <1>0, <1>6, <2>1, <2>4 DEF Delete, EraseKeys, InPlace
    <3> QED
      BY <1>5, <2>1, <3>1
  <2> QED
    BY <2>1, <2>2, <2>3, <2>4, ServedDeregister
<1>12. CASE stage[q] = "visiting"
  <2>1. req[q].op = "update"
    BY <1>1, <1>12 DEF Asks
  <2>2. pc[q] # "keepalive"
    BY <2>1, ServedUpdate
  <2>3. CASE UNCHANGED storeVars
    BY <1>7, <2>2, <2>3
  <2>4. CASE pc[q] = "cas" /\ CAS(Key(q), req[q].expected, Updated(q), held[q])
    <3>1. CASE Key(q) # k
      BY <1>8, <2>2, <2>4, <3>1 DEF CAS
    <3>2. CASE Key(q) = k
      <4>1. kv[k].mod = req[q].expected /\ WriteKey(k, Updated(q), held[q])
        BY <2>4, <3>2 DEF CAS
      <4>2. req[q].expected \in 1..rev /\ inst[q] = kv[k].value /\ held[q] = kv[k].lease
            /\ inst[q] \in Instance
        BY <2>1, <2>4, <3>2, <4>1 DEF Inv, SnapshotInv, Snapshot, CarriedInv, Carried
      <4>3. Updated(q).born = inst[q].born
        BY <4>2 DEF Updated, Instance
      <4>4. kv'[k] = Record(Updated(q), rev + 1, held[q]) /\ leases' = leases
        BY <1>0, <1>6, <4>1 DEF WriteKey
      <4>5. kv'[k].value = Updated(q) /\ kv'[k].mod = rev + 1 /\ kv'[k].lease = held[q]
        BY <4>4 DEF Record
      <4>6. InPlace(k)
        BY <1>6, <4>1, <4>2, <4>3, <4>5 DEF InPlace
      <4> QED
        BY <2>2, <4>4, <4>6
    <3> QED
      BY <3>1, <3>2
  <2> QED
    BY <2>1, <2>3, <2>4, ServedUpdate
<1> QED
  BY <1>3, <1>9, <1>10, <1>11, <1>12

\* Whatever moves, if it is not the service's own request: its record stays
\* unless its lease runs out, and its lease is neither ended nor renewed.
LEMMA Foreign ==
    ASSUME Inv, PInv, AskInv, HomeInv, [ProviderNext]_providerVars,
           NEW p \in Procs, Tenant(p), ~Serve(p), NEW k, k = Home(p)
    PROVE  /\ InPlace(k) \/ \E l \in Leases : /\ RunOut(l) /\ kv[k].lease = l /\ Present(k)
                                            /\ ~(kv'[k].mod > 0)
           /\ \A l \in Leases : /\ leases[l] = "live" /\ ~RunOut(l)
                                /\ kv[k].lease = l \/ held[p] = l
                                => /\ leases'[l] = "live" /\ ttl'[l] = ttl[l]
                                   /\ Tick \/ left'[l] = left[l]
<1> DEFINE Theirs(l) == kv[k].lease = l \/ held[p] = l
<1>0. k \in Keys
  BY ProviderAssumption DEF HomeInv, GivenOut
<1>1. /\ kv \in [Keys -> [value : Instance \cup {NoValue}, mod : Nat, lease : Leases \cup {NoLease}]]
      /\ rev \in Nat /\ leases \in [Leases -> {"free", "live", "dead"}]
      /\ ttl \in [Leases -> Nat] /\ left \in [Leases -> Nat]
  BY DEF Inv, TypeOK, PInv, ProviderTypeOK
<1>2. ASSUME UNCHANGED <<kv, leases, ttl>>, Tick \/ left' = left
      PROVE  InPlace(k) /\ \A l \in Leases : leases'[l] = leases[l] /\ ttl'[l] = ttl[l]
                                           /\ (Tick \/ left'[l] = left[l])
  BY <1>2 DEF InPlace
<1>3. ASSUME NEW q \in Procs, Acts(q), ~Serve(q) PROVE UNCHANGED <<kv, leases, ttl, left>>
  <2>1. CASE RegisterUnnamed(q) \/ RegisterNamed(q) \/ Beat(q) \/ Leave(q) \/ Visit(q)
    BY <2>1, Sending DEF Sends, storeVars
  <2>2. CASE Again(q) \/ Fail(q)
    BY <2>2 DEF Again, Fail, Abort, vars, storeVars
  <2> QED
    BY <1>3, <2>1, <2>2 DEF Acts
<1>4. ASSUME NEW q \in Procs, Serve(q)
      PROVE  /\ InPlace(k)
             /\ \A l \in Leases : leases[l] = "live" /\ Theirs(l)
                    => leases'[l] = "live" /\ ttl'[l] = ttl[l] /\ left'[l] = left[l]
  <2>1. /\ InPlace(k)
        /\ \A l \in Leases : leases[l] = "live" /\ Theirs(l)
              => leases'[l] = "live" /\ ~(pc[q] = "keepalive" /\ held[q] = l)
    BY <1>4, ServedElsewhere DEF Serve
  <2>2. ASSUME NEW l \in Leases, leases[l] = "live", Theirs(l)
        PROVE  leases'[l] = "live" /\ ttl'[l] = ttl[l] /\ left'[l] = left[l]
    BY <1>4, <2>1, <2>2 DEF Serve, Countdowns, Granted, Renewed
  <2> QED
    BY <2>1, <2>2
<1>5. ASSUME NEW m \in Leases, RunOut(m)
      PROVE  /\ InPlace(k) \/ (kv[k].lease = m /\ Present(k) /\ ~(kv'[k].mod > 0))
             /\ \A l \in Leases : leases[l] = "live" /\ ~RunOut(l)
                   => leases'[l] = "live" /\ ttl'[l] = ttl[l] /\ left'[l] = left[l]
  <2>1. /\ leases' = [leases EXCEPT ![m] = "dead"] /\ EraseKeys(Attached(m))
        /\ ttl' = [ttl EXCEPT ![m] = 0] /\ left' = left
    BY <1>5 DEF RunOut, Expire, EndLease
  <2>4. ASSUME NEW l \in Leases, leases[l] = "live", ~RunOut(l)
        PROVE  leases'[l] = "live" /\ ttl'[l] = ttl[l] /\ left'[l] = left[l]
    <3>1. l # m
      BY <1>5, <2>4
    <3> QED
      BY <1>1, <2>1, <2>4, <3>1
  <2>2. CASE k \notin Attached(m)
    <3>1. kv'[k] = kv[k]
      BY <1>0, <1>1, <2>1, <2>2 DEF EraseKeys
    <3>2. InPlace(k)
      BY <3>1 DEF InPlace
    <3> QED
      BY <2>4, <3>2
  <2>3. CASE k \in Attached(m)
    <3>1. kv[k].lease = m /\ Present(k) /\ kv'[k] = Missing
      BY <1>0, <1>1, <2>1, <2>3 DEF EraseKeys, Attached
    <3>2. ~(kv'[k].mod > 0)
      BY <3>1 DEF Missing, Record
    <3> QED
      BY <2>4, <3>1, <3>2
  <2> QED
    BY <2>2, <2>3
<1>6. CASE \/ \E n \in Namespaces, m \in AccessModes : Open(n, m)
           \/ Restart \/ Tick \/ UNCHANGED providerVars
  BY <1>2, <1>6 DEF Open, SetAccessMode, Restart, Tick, providerVars, vars, storeVars
<1>7. CASE \E q \in Procs : Acts(q)
  BY <1>2, <1>3, <1>4, <1>7
<1>8. CASE \E l \in Leases : RunOut(l)
  BY <1>5, <1>8
<1> QED
  BY <1>6, <1>7, <1>8 DEF ProviderNext, Acts

-----------------------------------------------------------------------------
(* The instance at home is the service's own.                              *)

\* A service that is not served goes on as it was, but for its next request
\* and its clocks.
LEMMA Stays ==
    ASSUME Inv, PInv, AskInv, [ProviderNext]_providerVars,
           NEW p \in Procs, stage'[p] \in {"registering", "looping"}, ~Serve(p)
    PROVE  \/ stage'[p] = "registering" /\ pc'[p] = "check"
           \/ /\ Beat(p) /\ stage[p] = "looping" /\ own'[p] = own[p]
              /\ pc[p] = "idle" /\ pc'[p] = "check" /\ wait[p] = 0 /\ age'[p] = age[p]
           \/ /\ stage'[p] = stage[p] /\ own'[p] = own[p]
              /\ pc'[p] = pc[p] /\ inst'[p] = inst[p] /\ held'[p] = held[p]
              /\ \/ wait'[p] = wait[p] /\ age'[p] = age[p] /\ ~Tick
                 \/ Tick /\ wait'[p] = Less(wait[p])
<1>0. Asks(p)
  BY DEF AskInv
<1>1. CASE Tick
  BY <1>1 DEF Tick, vars
<1>2. ASSUME NEW q \in Procs, Acts(q), q # p PROVE Untouched(p)
  BY <1>2, ActIsOwn
<1>3. CASE Acts(p)
  <2>1. CASE RegisterUnnamed(p) \/ RegisterNamed(p) \/ Leave(p) \/ Visit(p)
    BY <2>1, Sending DEF Sends
  <2>2. CASE Beat(p)
    BY <2>2, Sending DEF Sends
  <2>3. CASE Again(p)
    BY <2>3 DEF Again, Become, PInv, ProviderTypeOK
  <2>4. CASE Fail(p)
    <3>1. pc'[p] = "idle"
      BY <2>4 DEF Fail, Abort, Inv, TypeOK
    <3> QED
      BY <1>0, <2>4, <3>1, Heard
  <2> QED
    BY <1>3, <2>1, <2>2, <2>3, <2>4 DEF Acts
<1>4. CASE \/ \E l \in Leases : RunOut(l)
           \/ \E n \in Namespaces, m \in AccessModes : Open(n, m)
           \/ UNCHANGED providerVars
  BY <1>1, <1>4, NobodyActs DEF Untouched
<1>5. CASE Restart
  BY <1>1, <1>5 DEF Restart, vars, client
<1> QED
  BY <1>1, <1>2, <1>3, <1>4, <1>5 DEF ProviderNext, Acts, Untouched

\* A service's own request, as long as it goes on or begins its loop.
LEMMA OwnServed ==
    ASSUME Inv, PInv, AskInv, NEW p \in Procs, Serve(p), stage'[p] = "looping"
    PROVE  \/ /\ stage[p] = "registering" /\ pc[p] = "create" /\ pc'[p] = "idle"
              /\ Create(Key(p), inst[p], held[p]) /\ held[p] \in Leases
              /\ kv'[Key(p)] = Record(inst[p], rev + 1, held[p])
              /\ own'[p] = [key |-> Key(p), born |-> inst[p].born] /\ wait'[p] = Interval
           \/ /\ stage[p] = "looping" /\ pc[p] \in {"check", "get", "keepalive"}
              /\ own'[p] = own[p] /\ wait'[p] = wait[p] /\ Key(p) = own[p].key
              /\ UNCHANGED storeVars
              /\ \/ pc[p] = "check" /\ pc'[p] = "get"
                 \/ /\ pc[p] = "get" /\ pc'[p] = "keepalive" /\ Present(Key(p))
                    /\ inst'[p] = kv[Key(p)].value /\ held'[p] = kv[Key(p)].lease
                 \/ /\ pc[p] = "keepalive" /\ pc'[p] = "put"
                    /\ inst'[p] = inst[p] /\ held'[p] = held[p]
           \/ /\ stage[p] = "looping" /\ pc[p] = "put" /\ pc'[p] = "idle"
              /\ own'[p] = own[p] /\ wait'[p] = wait[p] /\ Key(p) = own[p].key
              /\ Put(Key(p), [inst[p] EXCEPT !.status = "health"], held[p])
              /\ held[p] \in Leases
              /\ kv'[Key(p)] = Record([inst[p] EXCEPT !.status = "health"], rev + 1, held[p])
<1> USE DEF Inv, TypeOK
<1>1. Asks(p) /\ Step(p) /\ pc[p] # "idle" /\ Carried(p) /\ Key(p) \in Keys
  BY StepIsOwn, KeyTyped DEF AskInv, Serve, CarriedInv
<1>2. CASE pc'[p] # "idle"
  <2>1. stage[p] = "looping" /\ own'[p] = own[p] /\ wait'[p] = wait[p]
    BY <1>1, <1>2, Heard
  <2>2. req[p].op = "heartbeat" /\ Key(p) = own[p].key
    BY <1>1, <2>1 DEF Asks
  <2> QED
    BY <1>1, <1>2, <2>1, <2>2, ServedHeartbeat
<1>3. CASE pc'[p] = "idle" /\ stage[p] = "registering"
  <2>1. Succeeded(p) /\ own'[p] = [key |-> Key(p), born |-> inst[p].born] /\ wait'[p] = Interval
    BY <1>1, <1>3, Heard
  <2>2. ~UNCHANGED storeVars
    BY <2>1 DEF Succeeded, storeVars
  <2>3. pc[p] = "create" /\ Create(Key(p), inst[p], held[p])
    BY <1>1, <1>3, <2>2, ServedRegister
  <2>4. held[p] \in Leases
    BY <1>1, <1>3, <2>3 DEF Asks, Carried
  <2>5. kv'[Key(p)] = Record(inst[p], rev + 1, held[p])
    BY <1>1, <2>3 DEF Create, WriteKey
  <2> QED
    BY <1>3, <2>1, <2>3, <2>4, <2>5
<1>4. CASE pc'[p] = "idle" /\ stage[p] = "looping"
  <2>1. Succeeded(p) /\ own'[p] = own[p] /\ wait'[p] = wait[p]
    BY <1>1, <1>4, Heard
  <2>2. req[p].op = "heartbeat" /\ Key(p) = own[p].key
    BY <1>1, <1>4 DEF Asks
  <2>3. pc[p] = "put" /\ Put(Key(p), [inst[p] EXCEPT !.status = "health"], held[p])
    BY <1>1, <1>4, <2>1, <2>2, ServedHeartbeat
  <2>4. held[p] \in Leases
    BY <1>1, <2>2, <2>3 DEF Carried
  <2>5. kv'[Key(p)] = Record([inst[p] EXCEPT !.status = "health"], rev + 1, held[p])
    BY <1>1, <2>3 DEF Put, WriteKey
  <2> QED
    BY <1>4, <2>1, <2>2, <2>3, <2>4, <2>5
<1> QED
  BY <1>1, <1>2, <1>3, <1>4, Heard

LEMMA BornStep ==
    ASSUME Inv, PInv, AskInv, HomeInv, BornInv, [ProviderNext]_providerVars
    PROVE  BornInv'
<1> SUFFICES ASSUME NEW p \in Procs, stage'[p] = "looping" PROVE Born(p)'
  BY DEF BornInv, Born
<1>0. Born(p) /\ Asks(p) /\ Carried(p)
  BY DEF BornInv, AskInv, Inv, CarriedInv
<1>1. CASE ~Serve(p)
  <2>1. /\ stage[p] = "looping" /\ own'[p] = own[p]
        /\ \/ pc'[p] = "check"
           \/ pc'[p] = pc[p] /\ inst'[p] = inst[p] /\ held'[p] = held[p]
    BY <1>1, Stays
  <2> DEFINE k == own[p].key
  <2>2. k = Home(p) /\ Tenant(p)
    BY <2>1 DEF Home, Tenant
  <2>3. kv'[k].mod > 0 => /\ Present(k) /\ kv'[k].value.born = kv[k].value.born
                          /\ kv'[k].lease = kv[k].lease
    BY <1>1, <2>2, Foreign DEF InPlace
  <2> QED
    BY <1>0, <2>1, <2>3 DEF Born
<1>2. CASE Serve(p)
  <2>1. CASE /\ stage[p] = "registering" /\ pc[p] = "create" /\ pc'[p] = "idle"
             /\ held[p] \in Leases
             /\ kv'[req[p].key] = Record(inst[p], rev + 1, held[p])
             /\ own'[p] = [key |-> req[p].key, born |-> inst[p].born]
    BY <2>1, LeaseAssumption DEF Born, Record
  <2>2. CASE /\ stage[p] = "looping" /\ own'[p] = own[p] /\ req[p].key = own[p].key
             /\ kv' = kv
             /\ \/ pc[p] = "check" /\ pc'[p] = "get"
                \/ /\ pc[p] = "get" /\ pc'[p] = "keepalive" /\ Present(req[p].key)
                   /\ inst'[p] = kv[req[p].key].value /\ held'[p] = kv[req[p].key].lease
                \/ /\ pc[p] = "keepalive" /\ pc'[p] = "put"
                   /\ inst'[p] = inst[p] /\ held'[p] = held[p]
    BY <1>0, <2>2 DEF Born
  <2>3. CASE /\ stage[p] = "looping" /\ pc[p] = "put" /\ pc'[p] = "idle"
             /\ own'[p] = own[p] /\ req[p].key = own[p].key /\ held[p] \in Leases
             /\ kv'[req[p].key] = Record([inst[p] EXCEPT !.status = "health"], rev + 1, held[p])
    <3> DEFINE v == [inst[p] EXCEPT !.status = "health"]
    <3>1. inst[p] \in Instance /\ inst[p].born = own[p].born
      BY <1>0, <2>3 DEF Born, Carried
    <3>2. v.born = own[p].born
      BY <3>1 DEF Instance
    <3>3. \A x, m, l : Record(x, m, l).value = x /\ Record(x, m, l).lease = l
      BY DEF Record
    <3>4. own'[p].key = req[p].key /\ own'[p].born = own[p].born /\ held[p] # NoLease
      BY <2>3, LeaseAssumption
    <3>5. kv'[req[p].key] = Record(v, rev + 1, held[p]) /\ pc'[p] = "idle"
      BY <2>3
    <3> HIDE DEF v
    <3>6. kv'[req[p].key].value = v /\ kv'[req[p].key].lease = held[p]
      BY <3>3, <3>5
    <3> QED
      BY <3>2, <3>4, <3>5, <3>6 DEF Born
  <2> QED
    BY <1>2, <2>1, <2>2, <2>3, OwnServed DEF storeVars
<1> QED
  BY <1>1, <1>2

-----------------------------------------------------------------------------
(* The time left covers what may pass.                                     *)

LEMMA NoMoreRequests ==
    ASSUME Inv, PInv, [ProviderNext]_providerVars, received = MaxRequests
    PROVE  received' = received
<1>0. ~(received < MaxRequests)
  BY RegistryAssumption
<1>1. ASSUME NEW q \in Procs, Acts(q) PROVE received' = received
  <2>1. ~(RegisterUnnamed(q) \/ RegisterNamed(q) \/ Beat(q) \/ Leave(q) \/ Visit(q))
    BY <1>0, Sending DEF Sends
  <2>2. CASE Serve(q) \/ Fail(q)
    BY <2>2, StepIsOwn DEF Serve, Fail, Inv
  <2> QED
    BY <1>1, <2>1, <2>2 DEF Acts, Again, vars
<1>2. CASE \/ \E l \in Leases : RunOut(l)
           \/ \E n \in Namespaces, m \in AccessModes : Open(n, m)
           \/ Restart \/ Tick \/ UNCHANGED providerVars
  BY <1>2 DEF RunOut, Expire, Open, SetAccessMode, Restart, Tick, providerVars, vars
<1> QED
  BY <1>1, <1>2 DEF ProviderNext, Acts

\* A service whose last tick has come stays as it is.
LEMMA GoneStays ==
    ASSUME Inv, PInv, AskInv, [ProviderNext]_providerVars,
           NEW p \in Procs, stage'[p] = "looping", Gone(p)
    PROVE  Gone(p)'
<1> USE DEF Gone, Due
<1>1. received' = MaxRequests
  BY NoMoreRequests
<1>2. ~(received < MaxRequests) /\ wait[p] \in Nat
  BY RegistryAssumption, ProviderAssumption DEF PInv, ProviderTypeOK
<1>3. ~Serve(p)
  BY StepIsOwn DEF Serve, Inv
<1>4. ~Beat(p)
  BY <1>2, Sending DEF Sends
<1>5. pc'[p] = "idle" /\ (wait'[p] = wait[p] \/ wait'[p] = Less(wait[p]))
  BY <1>3, <1>4, Stays
<1>6. wait'[p] = 0
  BY <1>2, <1>5 DEF Less
<1> QED
  BY <1>1, <1>5, <1>6

\* A tenant's lease that has time left only gets older while the service is
\* not served itself.
LEMMA LeaseKept ==
    ASSUME Inv, PInv, AskInv, HomeInv, [ProviderNext]_providerVars,
           NEW p \in Procs, Tenant(p), ~Serve(p),
           NEW l \in Leases, leases[l] = "live", left[l] > 0,
           kv[Home(p)].lease = l \/ held[p] = l
    PROVE  /\ leases'[l] = "live" /\ ttl'[l] = ttl[l]
           /\ ~Tick => left'[l] = left[l]
           /\ Tick => left'[l] = left[l] - 1
<1>1. left \in [Leases -> Nat]
  BY DEF PInv, ProviderTypeOK
<1>2. ~RunOut(l)
  BY <1>1 DEF RunOut
<1>3. leases'[l] = "live" /\ ttl'[l] = ttl[l] /\ (~Tick => left'[l] = left[l])
  BY <1>2, Foreign
<1>4. Tick => left'[l] = left[l] - 1
  BY <1>1 DEF Tick, Less
<1> QED
  BY <1>3, <1>4

LEMMA TimesTyped ==
    ASSUME PInv, NEW p \in Procs
    PROVE  /\ wait[p] \in Nat /\ wait[p] <= Interval /\ age[p] \in Nat /\ age[p] <= Delay
           /\ Interval \in Nat /\ Delay \in Nat
           /\ \A l \in Leases : ttl[l] \in Nat /\ left[l] \in Nat
  BY ProviderAssumption DEF PInv, ProviderTypeOK

\* A tick for a prompt service.
LEMMA Ticking ==
    ASSUME PInv, Tick, NEW p \in Prompt
    PROVE  /\ pc[p] # "idle" => age'[p] = age[p] + 1
           /\ wait'[p] = Less(wait[p])
           /\ Due(p) => Gone(p)
  BY ProviderAssumption DEF Tick, OnTime, PInv, ProviderTypeOK

LEMMA RegisteringInTime ==
    ASSUME Inv, PInv, AskInv, HomeInv, InTimeInv, [ProviderNext]_providerVars,
           NEW p \in Prompt, stage'[p] = "registering", pc'[p] = "create"
    PROVE  /\ leases'[held'[p]] = "live" /\ ttl'[held'[p]] > Interval + 2 * Delay
           /\ left'[held'[p]] + age'[p] > Interval + 2 * Delay
<1> USE DEF Inv, TypeOK
<1>0. p \in Procs /\ Asks(p) /\ Carried(p) /\ InTime(p)
  BY ProviderAssumption DEF AskInv, CarriedInv, InTimeInv
<1>t. /\ age[p] \in Nat /\ age[p] <= Delay /\ Interval \in Nat /\ Delay \in Nat
      /\ \A l \in Leases : ttl[l] \in Nat /\ left[l] \in Nat
  BY <1>0, TimesTyped
<1>1. CASE ~Serve(p)
  <2>1. /\ stage[p] = "registering" /\ pc[p] = "create" /\ held'[p] = held[p]
        /\ \/ age'[p] = age[p] /\ ~Tick
           \/ Tick
    BY <1>0, <1>1, Stays
  <2> DEFINE l == held[p]
  <2>2. l \in Leases
    BY <1>0, <2>1 DEF Asks, Carried
  <2>3. /\ leases[l] = "live" /\ ttl[l] > Interval + 2 * Delay
        /\ left[l] + age[p] > Interval + 2 * Delay
    BY <1>0, <2>1 DEF InTime
  <2>4. left[l] > 0
    BY <1>t, <2>2, <2>3
  <2>5. Tenant(p)
    BY <2>1 DEF Tenant
  <2>6. /\ leases'[l] = "live" /\ ttl'[l] = ttl[l]
        /\ ~Tick => left'[l] = left[l]
        /\ Tick => left'[l] = left[l] - 1
    BY <1>0, <1>1, <2>2, <2>3, <2>4, <2>5, LeaseKept
  <2>7. Tick => age'[p] = age[p] + 1
    BY <2>1, Ticking
  <2>8. left'[l] + age'[p] = left[l] + age[p]
    <3>1. CASE Tick
      BY <1>t, <2>2, <2>6, <2>7, <3>1
    <3>2. CASE ~Tick
      BY <2>1, <2>6, <3>2
    <3> QED
      BY <3>1, <3>2
  <2> QED
    BY <2>1, <2>3, <2>6, <2>8
<1>2. CASE Serve(p)
  <2>1. stage[p] = "registering" /\ age'[p] = age[p] /\ Step(p)
    BY <1>0, <1>2, Heard DEF Serve
  <2>2. PICK l \in Leases : GrantLease(l) /\ held'[p] = l
    BY <1>0, <2>1, ServedRegister
  <2>3. leases[l] = "free" /\ leases'[l] = "live"
    BY <2>2 DEF GrantLease
  <2>4. ttl'[l] = TTLOf(AskedTTL[p]) /\ left'[l] = ttl'[l]
    BY <1>2, <2>3 DEF Serve, Countdowns, Granted
  <2>5. TTLOf(AskedTTL[p]) > Interval + 2 * Delay /\ TTLOf(AskedTTL[p]) \in Nat
    BY <1>0, ProviderAssumption, TTLTyped
  <2> QED
    BY <1>t, <2>1, <2>2, <2>3, <2>4, <2>5
<1> QED
  BY <1>1, <1>2

\* Where a loop's request can be.
LEMMA LoopCalls ==
    ASSUME Inv, AskInv, NEW p \in Procs, stage[p] = "looping"
    PROVE  pc[p] \in {"idle", "check", "get", "keepalive", "put"}
<1>1. pc[p] \in PCs /\ Asks(p) /\ Carried(p)
  BY DEF Inv, TypeOK, AskInv, CarriedInv
<1> QED
  BY <1>1 DEF PCs, Asks, Carried

\* What a loop on time has: its record, under a lease that has time left.
OnALease(p, l) ==
    /\ Present(own[p].key) /\ kv[own[p].key].lease = l /\ l \in Leases /\ leases[l] = "live"
    /\ ttl[l] > Interval + 2 * Delay /\ left[l] > 0
    /\ pc[p] = "idle" => left[l] > wait[p] + Delay
    /\ pc[p] \in {"check", "get", "keepalive"} => left[l] + age[p] > Delay
    /\ pc[p] = "put" => left[l] + age[p] > Interval + 2 * Delay

LEMMA LoopOnALease ==
    ASSUME Inv, PInv, AskInv, HomeInv, BornInv, InTimeInv,
           NEW p \in Prompt, stage[p] = "looping", ~Gone(p)
    PROVE  OnALease(p, kv[own[p].key].lease)
<1> DEFINE k == own[p].key
           l == kv[k].lease
<1>1. p \in Procs /\ Born(p) /\ InTime(p) /\ k \in Keys
  BY ProviderAssumption DEF BornInv, InTimeInv, PInv, ProviderTypeOK, OwnInv
<1>2. Present(k) /\ l # NoLease
  BY <1>1 DEF InTime, Born
<1>3. l \in Leases /\ leases[l] = "live"
  BY <1>1, <1>2 DEF Inv, TypeOK, LeaseBinding, LeaseUsable
<1>4. /\ ttl[l] > Interval + 2 * Delay
      /\ pc[p] = "idle" => left[l] > wait[p] + Delay
      /\ pc[p] \in {"check", "get", "keepalive"} => left[l] + age[p] > Delay
      /\ pc[p] = "put" => left[l] + age[p] > Interval + 2 * Delay
  BY <1>1 DEF InTime
<1>5. /\ wait[p] \in Nat /\ age[p] \in Nat /\ age[p] <= Delay /\ Interval \in Nat
      /\ Delay \in Nat /\ left[l] \in Nat
  BY <1>1, <1>3, TimesTyped
<1>6. left[l] > 0
  <2> HIDE DEF l
  <2>1. pc[p] = "idle" => left[l] > 0
    BY <1>4, <1>5
  <2>2. pc[p] \in {"check", "get", "keepalive"} => left[l] > 0
    BY <1>4, <1>5
  <2>3. pc[p] = "put" => left[l] > 0
    BY <1>4, <1>5
  <2> QED
    BY <1>1, <2>1, <2>2, <2>3, LoopCalls
<1> QED
  BY <1>2, <1>3, <1>4, <1>6 DEF OnALease

LEMMA WaitingInTime ==
    ASSUME Inv, PInv, AskInv, HomeInv, BornInv, InTimeInv, [ProviderNext]_providerVars,
           NEW p \in Prompt, stage'[p] = "looping", ~Gone(p)', ~Serve(p)
    PROVE  InTime(p)'
<1>0. p \in Procs
  BY ProviderAssumption
<1>1. ~Gone(p)
  BY <1>0, GoneStays
<1>2. /\ stage[p] = "looping" /\ own'[p] = own[p]
      /\ \/ /\ pc[p] = "idle" /\ pc'[p] = "check" /\ wait[p] = 0 /\ age'[p] = age[p] /\ Beat(p)
         \/ pc'[p] = pc[p] /\ wait'[p] = wait[p] /\ age'[p] = age[p] /\ ~Tick
         \/ pc'[p] = pc[p] /\ wait'[p] = Less(wait[p]) /\ Tick
  BY <1>0, Stays
<1> DEFINE k == own[p].key
<1>3. PICK l : OnALease(p, l)
  BY <1>1, <1>2, LoopOnALease
<1>4. k = Home(p) /\ Tenant(p)
  BY <1>2 DEF Home, Tenant
<1>5. /\ leases'[l] = "live" /\ ttl'[l] = ttl[l]
      /\ ~Tick => left'[l] = left[l]
      /\ Tick => left'[l] = left[l] - 1
  BY <1>0, <1>3, <1>4, LeaseKept DEF OnALease
<1>6. kv'[k].mod > 0 /\ kv'[k].lease = l
  <2>1. \A m \in Leases : RunOut(m) => m # l
    <3> SUFFICES ASSUME NEW m \in Leases, RunOut(m) PROVE left[m] = 0
      BY <1>3 DEF OnALease
    <3> QED
      BY DEF RunOut
  <2> QED
    BY <1>0, <1>3, <1>4, <2>1, Foreign DEF InPlace, OnALease
<1>7. /\ wait[p] \in Nat /\ age[p] \in Nat /\ Interval \in Nat /\ Delay \in Nat
      /\ left[l] \in Nat /\ ttl[l] \in Nat
  BY <1>0, <1>3, TimesTyped DEF OnALease
<1>8. /\ ttl[l] > Interval + 2 * Delay
      /\ pc[p] = "idle" => left[l] > wait[p] + Delay
      /\ pc[p] \in {"check", "get", "keepalive"} => left[l] + age[p] > Delay
      /\ pc[p] = "put" => left[l] + age[p] > Interval + 2 * Delay
  BY <1>3 DEF OnALease
<1>9. SUFFICES /\ pc'[p] = "idle" => left'[l] > wait'[p] + Delay
               /\ pc'[p] \in {"check", "get", "keepalive"} => left'[l] + age'[p] > Delay
               /\ pc'[p] = "put" => left'[l] + age'[p] > Interval + 2 * Delay
  BY <1>2, <1>5, <1>6, <1>8 DEF InTime
<1>10. CASE pc[p] = "idle" /\ pc'[p] = "check" /\ wait[p] = 0 /\ age'[p] = age[p] /\ Beat(p)
  <2>1. ~Tick
    BY <1>0, <1>10, Sending DEF Sends, Tick, vars
  <2>2. left[l] > Delay /\ left'[l] = left[l]
    BY <1>5, <1>7, <1>8, <1>10, <2>1
  <2>3. left'[l] + age'[p] > Delay
    BY <1>7, <1>10, <2>2
  <2> QED
    BY <1>10, <2>3
<1>11. CASE pc'[p] = pc[p] /\ wait'[p] = wait[p] /\ age'[p] = age[p] /\ ~Tick
  BY <1>5, <1>8, <1>11
<1>12. CASE pc'[p] = pc[p] /\ wait'[p] = Less(wait[p]) /\ Tick
  <2>1. left'[l] = left[l] - 1
    BY <1>5, <1>12
  <2>2. pc[p] = "idle" => left'[l] > wait'[p] + Delay
    <3>1. pc[p] = "idle" => wait[p] # 0
      BY <1>1, <1>2, <1>12, Ticking DEF Due
    <3>2. wait[p] # 0 => wait'[p] = wait[p] - 1
      BY <1>7, <1>12 DEF Less
    <3>3. ASSUME wait[p] # 0, left[l] > wait[p] + Delay PROVE left'[l] > wait'[p] + Delay
      BY <1>7, <2>1, <3>2, <3>3
    <3> QED
      BY <1>8, <3>1, <3>3
  <2>3. pc[p] # "idle" => left'[l] + age'[p] = left[l] + age[p]
    <3>1. ASSUME age'[p] = age[p] + 1 PROVE left'[l] + age'[p] = left[l] + age[p]
      BY <1>7, <2>1, <3>1
    <3> QED
      BY <1>12, <3>1, Ticking
  <2> QED
    BY <1>8, <1>12, <2>2, <2>3
<1> QED
  BY <1>2, <1>10, <1>11, <1>12

LEMMA ServedInTime ==
    ASSUME Inv, PInv, AskInv, HomeInv, BornInv, InTimeInv,
           NEW p \in Prompt, stage'[p] = "looping", Serve(p)
    PROVE  InTime(p)'
<1>0. /\ p \in Procs /\ Born(p) /\ Asks(p) /\ InTime(p) /\ Key(p) \in Keys
      /\ age'[p] = IF pc'[p] = "idle" THEN 0 ELSE age[p]
  BY ProviderAssumption, KeyTyped, StepIsOwn
     DEF BornInv, AskInv, InTimeInv, Serve, PInv, ProviderTypeOK, Inv
<1>1. /\ wait[p] \in Nat /\ wait[p] <= Interval /\ age[p] \in Nat /\ age[p] <= Delay
      /\ Interval \in Nat /\ Delay \in Nat
      /\ \A l \in Leases : ttl[l] \in Nat /\ left[l] \in Nat
  BY <1>0, TimesTyped
\* What the countdowns do to a lease that goes on.
<1>2. ASSUME NEW l \in Leases, leases[l] = "live", leases'[l] = "live"
      PROVE  /\ ttl'[l] = ttl[l]
             /\ pc[p] # "keepalive" => left'[l] = left[l]
             /\ pc[p] = "keepalive" /\ pc'[p] = "put" /\ l = held[p] => left'[l] = ttl[l]
  BY <1>2 DEF Serve, Countdowns, Granted, Renewed
\* The answer to its registration.
<1>3. CASE /\ stage[p] = "registering" /\ pc[p] = "create" /\ pc'[p] = "idle"
           /\ Create(req[p].key, inst[p], held[p]) /\ held[p] \in Leases
           /\ kv'[req[p].key] = Record(inst[p], rev + 1, held[p])
           /\ own'[p] = [key |-> req[p].key, born |-> inst[p].born] /\ wait'[p] = Interval
  <2> DEFINE l == held[p]
  <2>1. /\ leases[l] = "live" /\ ttl[l] > Interval + 2 * Delay
        /\ left[l] + age[p] > Interval + 2 * Delay
    BY <1>0, <1>3 DEF InTime
  <2>2. leases'[l] = "live"
    BY <1>3, <2>1 DEF Create, WriteKey
  <2>3. ttl'[l] = ttl[l] /\ left'[l] = left[l]
    BY <1>2, <1>3, <2>1, <2>2
  <2>4. left'[l] > wait'[p] + Delay
    BY <1>1, <1>3, <2>1, <2>3
  <2>5. kv'[req[p].key].lease = l /\ kv'[req[p].key].mod = rev + 1 /\ rev \in Nat
    BY <1>3 DEF Record, Inv, TypeOK
  <2>6. own'[p].key = req[p].key
    BY <1>3
  <2>7. kv'[own'[p].key].mod > 0 /\ kv'[own'[p].key].lease = l
    BY <2>5, <2>6
  <2> QED
    BY <1>3, <2>1, <2>3, <2>4, <2>7 DEF InTime
\* A heartbeat on its way.
<1>4. CASE /\ stage[p] = "looping" /\ pc[p] \in {"check", "get", "keepalive"}
           /\ own'[p] = own[p] /\ wait'[p] = wait[p] /\ req[p].key = own[p].key
           /\ UNCHANGED storeVars
           /\ \/ pc[p] = "check" /\ pc'[p] = "get"
              \/ pc[p] = "get" /\ pc'[p] = "keepalive"
              \/ pc[p] = "keepalive" /\ pc'[p] = "put"
  <2> DEFINE k == own[p].key
             l == kv[k].lease
  <2>1. ~Gone(p)
    BY <1>4 DEF Gone, Due
  <2>2. OnALease(p, l)
    BY <1>4, <2>1, LoopOnALease
  <2>3. /\ Present(k) /\ l \in Leases /\ leases[l] = "live" /\ ttl[l] > Interval + 2 * Delay
        /\ left[l] + age[p] > Delay
    BY <1>4, <2>2 DEF OnALease
  <2>4. kv' = kv /\ leases' = leases /\ age'[p] = age[p]
    BY <1>0, <1>4 DEF storeVars
  <2>5. /\ ttl'[l] = ttl[l]
        /\ pc[p] # "keepalive" => left'[l] = left[l]
        /\ pc[p] = "keepalive" /\ pc'[p] = "put" /\ l = held[p] => left'[l] = ttl[l]
    BY <1>2, <2>3, <2>4
  <2>6. pc[p] = "keepalive" => held[p] = l
    BY <1>0, <1>4, <2>3 DEF Born
  <2>7. kv'[own'[p].key].mod > 0 /\ kv'[own'[p].key].lease = l
    BY <1>4, <2>3, <2>4
  <2> HIDE DEF l
  <2>8. CASE pc[p] # "keepalive"
    <3>1. left'[l] + age'[p] > Delay
      BY <2>3, <2>4, <2>5, <2>8
    <3> QED
      BY <1>4, <2>3, <2>5, <2>7, <2>8, <3>1 DEF InTime
  <2>9. CASE pc[p] = "keepalive"
    <3>1. left'[l] = ttl[l] /\ pc'[p] = "put"
      BY <1>4, <2>5, <2>6, <2>9
    <3>2. left'[l] + age'[p] > Interval + 2 * Delay
      BY <1>1, <2>3, <2>4, <3>1
    <3> QED
      BY <2>3, <2>5, <2>7, <3>1, <3>2 DEF InTime
  <2> QED
    BY <2>8, <2>9
\* A heartbeat that went through.
<1>5. CASE /\ stage[p] = "looping" /\ pc[p] = "put" /\ pc'[p] = "idle"
           /\ own'[p] = own[p] /\ wait'[p] = wait[p] /\ req[p].key = own[p].key
           /\ held[p] \in Leases /\ leases' = leases
           /\ kv'[req[p].key].lease = held[p] /\ kv'[req[p].key].mod = rev + 1
  <2> DEFINE l == held[p]
  <2>1. ~Gone(p)
    BY <1>5 DEF Gone, Due
  <2>2. OnALease(p, kv[own[p].key].lease) /\ Present(own[p].key)
    BY <1>5, <2>1, LoopOnALease DEF OnALease
  <2>3. l = kv[own[p].key].lease
    BY <1>0, <1>5, <2>2 DEF Born
  <2>4. /\ leases[l] = "live" /\ ttl[l] > Interval + 2 * Delay
        /\ left[l] + age[p] > Interval + 2 * Delay
    BY <1>5, <2>2, <2>3 DEF OnALease
  <2>5. ttl'[l] = ttl[l] /\ left'[l] = left[l]
    BY <1>2, <1>5, <2>4
  <2>6. left'[l] > wait'[p] + Delay
    BY <1>1, <1>5, <2>4, <2>5
  <2>7. kv'[own'[p].key].mod > 0 /\ kv'[own'[p].key].lease = l
    BY <1>5 DEF Inv, TypeOK
  <2> QED
    BY <1>5, <2>4, <2>5, <2>6, <2>7 DEF InTime
<1>6. ASSUME stage[p] = "looping", pc[p] = "put", pc'[p] = "idle",
             Put(req[p].key, [inst[p] EXCEPT !.status = "health"], held[p]),
             kv'[req[p].key] = Record([inst[p] EXCEPT !.status = "health"], rev + 1, held[p])
      PROVE  /\ leases' = leases
             /\ kv'[req[p].key].lease = held[p] /\ kv'[req[p].key].mod = rev + 1
  <2>1. \A v, m, l : Record(v, m, l).mod = m /\ Record(v, m, l).lease = l
    BY DEF Record
  <2>2. leases' = leases
    BY <1>6 DEF Put, WriteKey
  <2> DEFINE v == [inst[p] EXCEPT !.status = "health"]
  <2>3. kv'[req[p].key] = Record(v, rev + 1, held[p])
    BY <1>6
  <2> HIDE DEF v
  <2> QED
    BY <2>1, <2>2, <2>3
<1> QED
  BY <1>0, <1>3, <1>4, <1>5, <1>6, OwnServed

LEMMA InTimeStep ==
    ASSUME Inv, PInv, AskInv, HomeInv, BornInv, InTimeInv, [ProviderNext]_providerVars
    PROVE  InTimeInv'
<1> SUFFICES ASSUME NEW p \in Prompt PROVE InTime(p)'
  BY DEF InTimeInv
<1>1. CASE stage'[p] = "registering" /\ pc'[p] = "create"
  BY <1>1, RegisteringInTime DEF InTime
<1>2. CASE stage'[p] = "looping" /\ ~Gone(p)'
  BY <1>2, WaitingInTime, ServedInTime
<1> QED
  BY <1>1, <1>2 DEF InTime

-----------------------------------------------------------------------------
(* Results for services whose ids are their own.                           *)

ServiceInv == Inv /\ PInv /\ AskInv /\ (restarts = 0 => TenancyInv)

LEMMA ServiceInvInit == ProviderInit => ServiceInv
<1> SUFFICES ASSUME ProviderInit PROVE ServiceInv
  OBVIOUS
<1>1. Inv /\ PInv
  BY PInvInit, InvInit DEF ProviderInit
<1>2. \A p \in Procs : stage[p] = "new" /\ pc[p] = "idle"
  BY DEF ProviderInit, Init
<1>3. AskInv
  BY <1>2 DEF AskInv, Asks
<1>4. TenancyInv
  BY <1>2, ProviderAssumption
     DEF TenancyInv, HomeInv, BornInv, InTimeInv, Born, InTime, Tenant
<1> QED
  BY <1>1, <1>3, <1>4 DEF ServiceInv

LEMMA ServiceInvStep ==
    ASSUME IdsApart, ServiceInv, [ProviderNext]_providerVars
    PROVE  ServiceInv'
<1> USE DEF ServiceInv, TenancyInv
<1>1. Inv' /\ PInv' /\ AskInv'
  BY ProviderStep, InvStep, PInvStep, AskStep DEF PInv
<1>2. restarts' = 0 => restarts = 0
  BY CounterGrows
<1>3. restarts' = 0 => HomeInv' /\ BornInv' /\ InTimeInv'
  BY <1>2, HomeStep, BornStep, InTimeStep
<1> QED
  BY <1>1, <1>3

LEMMA ServiceInvariant == ASSUME IdsApart PROVE ProviderSpec => []ServiceInv
<1>1. ServiceInv /\ [ProviderNext]_providerVars => ServiceInv'
  BY ServiceInvStep
<1> QED
  BY <1>1, ServiceInvInit, PTL DEF ProviderSpec

\* RunHeartbeatLoop keeps a service registered: as long as it beats on time,
\* and the server has not restarted, its own instance is there under a live
\* lease, whatever the other services ask for and whichever answers are lost.
THEOREM WellBeatenStays == ASSUME IdsApart PROVE ProviderSpec => []StaysRegistered
<1>1. ASSUME ServiceInv PROVE StaysRegistered
  <2> SUFFICES ASSUME restarts = 0, NEW p \in Prompt, stage[p] = "looping", ~Gone(p)
               PROVE  Registered(p)
    BY DEF StaysRegistered, WellStaysRegistered
  <2>1. Inv /\ PInv /\ AskInv /\ HomeInv /\ BornInv /\ InTimeInv
    BY <1>1 DEF ServiceInv, TenancyInv
  <2>2. OnALease(p, kv[own[p].key].lease) /\ Born(p)
    BY <2>1, LoopOnALease, ProviderAssumption DEF BornInv
  <2> QED
    BY <2>2 DEF OnALease, Born, Registered, LeaseUsable
<1> QED
  BY <1>1, ServiceInvariant, PTL

\* A heartbeat that goes through refreshed the instance its service was told
\* of when it registered, and not one that has taken over the id.
THEOREM HeartbeatsAreOwn == ASSUME IdsApart PROVE ProviderSpec => OwnHeartbeats
<1>1. ASSUME ServiceInv
      PROVE  \A p \in Procs : stage[p] = "looping" /\ pc[p] = "put" /\ restarts = 0
                                  => inst[p].born = own[p].born
  BY <1>1 DEF ServiceInv, TenancyInv, BornInv, Born
<1>2. ASSUME ServiceInv
      PROVE  [\A p \in Procs :
                stage[p] = "looping" /\ pc[p] = "put" /\ Succeeded(p) /\ restarts = 0
                    => inst[p].born = own[p].born]_providerVars
  BY <1>1, <1>2
<1> QED
  BY <1>2, ServiceInvariant, PTL DEF OwnHeartbeats
============================================================================
