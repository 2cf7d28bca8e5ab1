-------------------------- MODULE AgentCardsProofs --------------------------
(***************************************************************************)
(* Proofs about AgentCards for any number of goroutines, capabilities,     *)
(* services, queries and instances.                                        *)
(***************************************************************************)
EXTENDS AgentCards, TLAPS

(***************************************************************************)
(* The inductive invariant.  An absent key has no value, and the card, once *)
(* it is there, stays: only entries are ever deleted.                      *)
(***************************************************************************)
StoreShape ==
    /\ kv \in [Keys -> [value : Card \cup Services \cup {NoValue}, mod : Nat, lease : {NoLease}]]
    /\ rev \in Nat
    /\ \A k \in Keys : kv[k].mod <= rev
    /\ \A k \in Keys : ~Present(k) => kv[k].value = NoValue
    /\ \A c \in Capabilities : Present(c) => Present("card")

PutStages      == {"check_write", "check_read", "get", "write", "unindex", "index"}
DiscoverStages == {"check_discover", "list", "get_card", "list_instances"}

\* What a goroutine that puts a card has in hand.
PutStage(p) ==
    /\ pc[p] \in PutStages => Putting(p)
    /\ Putting(p) => req[p].expected <= rev /\ (req[p].expected > 0 => Present("card"))
    /\ pc[p] \in {"check_read", "get", "write", "unindex", "index"} => req[p].card \in Card
    /\ pc[p] \in {"check_write", "check_read", "get"} => previous[p] = NoCard
    /\ pc[p] \in {"check_read", "get"} => req[p].expected > 0
    /\ pc[p] = "write" =>
          IF req[p].expected = 0 THEN previous[p] = NoCard
          ELSE kv["card"].mod = req[p].expected => kv["card"].value = previous[p]
    /\ pc[p] \in {"unindex", "index"} => Present("card")

\* And one that discovers.
Discovering(p) == req[p] # NoRequest /\ req[p].op = "discover"

DiscoverStage(p) ==
    /\ pc[p] \in DiscoverStages => Discovering(p)
    /\ pc[p] \in {"list", "get_card", "list_instances"} =>
          MayRead(p) /\ req[p].query.cap \in Capabilities
    /\ pc[p] \in {"get_card", "list_instances"} => entry[p] \in Services /\ Present("card")
    /\ pc[p] = "list_instances" => answer[p] # NoAnswer
    /\ Discovering(p) /\ answer[p] # NoAnswer => MayRead(p)
    /\ Discovering(p) /\ pc[p] = "forbidden" => ~MayRead(p)

IdleStage(p) ==
    /\ pc[p] = "idle" <=> req[p] = NoRequest
    /\ pc[p] = "idle" => previous[p] = NoCard /\ answer[p] = NoAnswer
    /\ pc[p] \in {"check_discover", "list", "get_card", "list_cards"} => answer[p] = NoAnswer
    /\ Putting(p) => answer[p] = NoAnswer
    /\ pc[p] = "list_cards" => req[p] # NoRequest /\ req[p].op = "list"

Stages == \A p \in Procs : PutStage(p) /\ DiscoverStage(p) /\ IdleStage(p)

IInv == StoreShape /\ TypeOK /\ Stages

-----------------------------------------------------------------------------

LEMMA CardIsKey == "card" \in Keys /\ Capabilities \subseteq Keys /\ "card" \notin Capabilities
  BY SMT, CardsAssumption

LEMMA PutRequest ==
    ASSUME NEW r \in Request, r.op = "put"
    PROVE  r \in [op : {"put"}, card : Offered, expected : Nat]
  BY SMT DEF Request

LEMMA DiscoverRequest ==
    ASSUME NEW r \in Request, r.op = "discover"
    PROVE  r \in [op : {"discover"}, query : Queries, indexed : BOOLEAN]
  BY SMT DEF Request

LEMMA CardCaps == ASSUME NEW d \in Card PROVE d.caps \subseteq Capabilities /\ d.caps # {}
<1>1. d.caps \in (SUBSET Capabilities) \ {{}}
  BY DEF Card
<1>2. d.caps \in SUBSET Capabilities
  BY <1>1
<1>3. ~(d.caps \in {{}})
  BY <1>1
<1>4. d.caps # {}
  BY <1>3
<1> QED
  BY <1>2, <1>4

LEMMA DiscoverTyped ==
    ASSUME NEW q \in Queries, NEW b \in BOOLEAN
    PROVE  [op |-> "discover", query |-> q, indexed |-> b] \in Request \ {NoRequest}
  BY NoneAssumption DEF Request

LEMMA InitIInv == Init => IInv
<1> SUFFICES ASSUME Init PROVE IInv
  OBVIOUS
<1> USE DEF Init, StoreInit, Missing, Record, Present
<1>1. StoreShape
  BY CardIsKey DEF StoreShape
<1>2. TypeOK
  BY ModesAssumption, CardIsKey DEF TypeOK, Calls
<1>3. Stages
  BY DEF Stages, PutStage, DiscoverStage, Discovering, IdleStage, Putting, PutStages,
     DiscoverStages
<1> QED
  BY <1>1, <1>2, <1>3 DEF IInv

-----------------------------------------------------------------------------
(* A step of one goroutine, as the others see it.                          *)

\* What p does changes nothing another goroutine holds.
Mine(p) ==
    \A q \in Procs : q # p =>
        /\ pc'[q] = pc[q] /\ req'[q] = req[q] /\ previous'[q] = previous[q]
        /\ todo'[q] = todo[q] /\ entry'[q] = entry[q] /\ answer'[q] = answer[q]

\* The store only moves on, and the card with it.
Onward ==
    /\ rev' \in Nat /\ rev <= rev'
    /\ Present("card") => Present("card")'
    /\ kv'["card"] = kv["card"] \/ kv'["card"].mod > rev

LEMMA OthersStage ==
    ASSUME IInv, NEW p \in Procs, Mine(p), Onward, UNCHANGED mode,
           NEW q \in Procs, q # p
    PROVE  (PutStage(q) /\ DiscoverStage(q) /\ IdleStage(q))'
<1> USE DEF Mine
<1>1. PutStage(q) /\ DiscoverStage(q) /\ IdleStage(q)
  BY DEF IInv, Stages
<1>2. (Putting(q)' <=> Putting(q)) /\ (Discovering(q)' <=> Discovering(q)) /\ (MayRead(q)' <=> MayRead(q))
  BY DEF Putting, Discovering, MayRead, AllowsRead
<1>3. Putting(q) => req[q].expected \in Nat
  BY PutRequest, SMT DEF Putting, IInv, TypeOK
<1>4. rev \in Nat /\ kv["card"].mod \in Nat
  BY CardIsKey DEF IInv, StoreShape
<1>5. PutStage(q)'
  BY <1>1, <1>2, <1>3, <1>4 DEF PutStage, Onward, PutStages, Present
<1>6. DiscoverStage(q)'
  BY <1>1, <1>2 DEF DiscoverStage, Onward
<1>7. IdleStage(q)'
  BY <1>1, <1>2 DEF IdleStage
<1> QED
  BY <1>5, <1>6, <1>7

-----------------------------------------------------------------------------
(* The steps that leave the store alone.                                   *)

LEMMA ReadStep ==
    ASSUME IInv, NEW p \in Procs, UNCHANGED <<storeVars, mode>>, Mine(p),
           PutStage(p)' /\ DiscoverStage(p)' /\ IdleStage(p)', TypeOK'
    PROVE  IInv' /\ Mine(p)
<1>1. StoreShape'
  BY DEF IInv, StoreShape, Present, storeVars
<1>2. Onward
  BY CardIsKey DEF IInv, StoreShape, Onward, Present, storeVars
<1> QED
  BY <1>1, <1>2, OthersStage DEF IInv, Stages

LEMMA ReceivePutStep ==
    ASSUME IInv, NEW p \in Procs, ReceivePut(p) PROVE IInv' /\ Mine(p)
<1>1. PICK card \in Offered, expected \in {0, kv["card"].mod} :
         /\ Receive(p, [op |-> "put", card |-> card, expected |-> expected])
         /\ Goto(p, "check_write")
  BY DEF ReceivePut
<1> DEFINE r == [op |-> "put", card |-> card, expected |-> expected]
<1>2. kv["card"].mod \in Nat /\ kv["card"].mod <= rev /\ rev \in Nat
  BY CardIsKey DEF IInv, StoreShape
<1>3. r \in Request /\ r # NoRequest
  BY <1>2, NoneAssumption DEF Request
<1>4. TypeOK' /\ Mine(p)
  BY <1>1, <1>3, SMT DEF Receive, Goto, IInv, TypeOK, Mine, storeVars, Present, Answered, Calls
<1>5. pc'[p] = "check_write" /\ req'[p] = r /\ previous'[p] = NoCard /\ answer'[p] = NoAnswer
  BY <1>1 DEF Receive, Goto, IInv, TypeOK, Stages, IdleStage
<1>6. (PutStage(p) /\ DiscoverStage(p) /\ IdleStage(p))'
  BY <1>1, <1>2, <1>3, <1>5 DEF Receive, PutStage, DiscoverStage, IdleStage, Putting,
     Discovering,
        PutStages, DiscoverStages, Present, storeVars
<1> QED
  BY <1>1, <1>4, <1>6, ReadStep DEF Receive

LEMMA CheckWriteStep ==
    ASSUME IInv, NEW p \in Procs, CheckWrite(p) PROVE IInv' /\ Mine(p)
<1> USE DEF CheckWrite, Goto
<1>1. TypeOK' /\ Mine(p)
  BY PutRequest, SMT DEF IInv, TypeOK, Mine, storeVars, Present, Answered, Calls
<1>2. (PutStage(p) /\ DiscoverStage(p) /\ IdleStage(p))'
  BY PutRequest, SMT DEF IInv, TypeOK, Stages, PutStage, DiscoverStage, IdleStage, Putting,
     Discovering, PutStages, DiscoverStages,
        MayRead, AllowsRead, storeVars, Present, Answered, Calls
<1> QED
  BY <1>1, <1>2, ReadStep

LEMMA CheckReadStep ==
    ASSUME IInv, NEW p \in Procs, CheckRead(p) PROVE IInv' /\ Mine(p)
<1> USE DEF CheckRead, Goto
<1>1. TypeOK' /\ Mine(p)
  BY SMT DEF IInv, TypeOK, Mine, storeVars, Present, Answered, Calls
<1>2. (PutStage(p) /\ DiscoverStage(p) /\ IdleStage(p))'
  BY SMT DEF IInv, TypeOK, Stages, PutStage, DiscoverStage, IdleStage, Putting, Discovering,
     PutStages, DiscoverStages,
        MayRead, AllowsRead, storeVars, Present, Answered, Calls
<1> QED
  BY <1>1, <1>2, ReadStep

LEMMA GetPreviousStep ==
    ASSUME IInv, NEW p \in Procs, GetPrevious(p) PROVE IInv' /\ Mine(p)
<1> USE DEF GetPrevious, Goto
<1>3. kv["card"].value \in Card
  BY CardIsKey DEF IInv, TypeOK, Stages, PutStage, PutStages, StoredAt
<1>1. TypeOK' /\ Mine(p)
  BY <1>3, CardIsKey, SMT DEF IInv, TypeOK, Mine, storeVars, Present, StoreShape, StoredAt,
     Answered, Calls
<1>2. (PutStage(p) /\ DiscoverStage(p) /\ IdleStage(p))'
  BY <1>3, CardIsKey, SMT DEF IInv, TypeOK, Stages, PutStage, DiscoverStage, IdleStage,
     Putting, Discovering, PutStages, DiscoverStages,
        MayRead, AllowsRead, storeVars, Present, StoreShape, StoredAt, Answered, Calls
<1> QED
  BY <1>1, <1>2, ReadStep

LEMMA WriteRefusedStep ==
    ASSUME IInv, NEW p \in Procs, WriteRefused(p) PROVE IInv' /\ Mine(p)
<1> USE DEF WriteRefused, Goto
<1>1. TypeOK' /\ Mine(p)
  BY SMT DEF IInv, TypeOK, Mine, storeVars, Present, Answered, Calls
<1>2. (PutStage(p) /\ DiscoverStage(p) /\ IdleStage(p))'
  BY SMT DEF IInv, TypeOK, Stages, PutStage, DiscoverStage, IdleStage, Putting, Discovering,
     PutStages, DiscoverStages,
        MayRead, AllowsRead, storeVars, Present, Answered, Calls
<1> QED
  BY <1>1, <1>2, ReadStep

LEMMA CheckDiscoverStep ==
    ASSUME IInv, NEW p \in Procs, CheckDiscover(p) PROVE IInv' /\ Mine(p)
<1> USE DEF CheckDiscover, Goto
<1>1. TypeOK' /\ Mine(p)
  BY SMT DEF IInv, TypeOK, Mine, storeVars, Present, Answered, Calls
<1>2. (PutStage(p) /\ DiscoverStage(p) /\ IdleStage(p))'
  BY SMT DEF IInv, TypeOK, Stages, PutStage, DiscoverStage, IdleStage, Putting, Discovering,
     PutStages, DiscoverStages,
        MayRead, AllowsRead, storeVars, Present, Answered, Calls
<1> QED
  BY <1>1, <1>2, ReadStep

LEMMA ListEntriesStep ==
    ASSUME IInv, NEW p \in Procs, ListEntries(p) PROVE IInv' /\ Mine(p)
<1> USE DEF ListEntries, Goto
<1>3. req[p].query.cap \in Capabilities
  BY DEF IInv, Stages, DiscoverStage
<1>4. /\ kv[req[p].query.cap].value \in Services \cup {NoValue}
      /\ Present(req[p].query.cap) => kv[req[p].query.cap].value \in Services /\ Present("card")
  BY <1>3, CardIsKey DEF IInv, TypeOK, StoreShape, StoredAt
<1>1. TypeOK' /\ Mine(p)
  BY <1>3, <1>4, CardIsKey, DiscoverRequest, SMT DEF IInv, TypeOK, Mine, storeVars, Present,
     StoreShape, StoredAt, Answered, Calls
<1>2. (PutStage(p) /\ DiscoverStage(p) /\ IdleStage(p))'
  BY <1>3, <1>4, CardIsKey, DiscoverRequest, SMT DEF IInv, TypeOK, Stages, PutStage,
     DiscoverStage, IdleStage, Putting, Discovering, PutStages, DiscoverStages,
        MayRead, AllowsRead, storeVars, Present, StoreShape, StoredAt, Answered, Calls
<1> QED
  BY <1>1, <1>2, ReadStep

LEMMA GetCardStep ==
    ASSUME IInv, NEW p \in Procs, GetCard(p) PROVE IInv' /\ Mine(p)
<1> USE DEF GetCard, Goto
<1>3. kv["card"].value \in Card /\ entry[p] \in Services
  BY CardIsKey DEF IInv, TypeOK, Stages, DiscoverStage, StoredAt
<1> DEFINE a == [card |-> kv["card"].value, service |-> entry[p], instances |-> {}]
<1>4. a \in Answer /\ a # NoAnswer
  BY <1>3, NoneAssumption DEF Answer
<1>5. answer' = [answer EXCEPT ![p] = a] \/ UNCHANGED answer
  OBVIOUS
<1>6. answer' \in [Procs -> Answer \cup {NoAnswer}] /\ \A q \in Procs : q # p => answer'[q] = answer[q]
  BY <1>4, <1>5 DEF IInv, TypeOK
<1>1. TypeOK' /\ Mine(p)
  BY <1>6, SMT DEF IInv, TypeOK, Mine, storeVars, Present, Answered, Calls
<1>2. (PutStage(p) /\ DiscoverStage(p) /\ IdleStage(p))'
  BY <1>3, <1>4, CardIsKey, SMT DEF IInv, TypeOK, Stages, PutStage, DiscoverStage, IdleStage,
     Putting, Discovering, PutStages, DiscoverStages,
        MayRead, AllowsRead, storeVars, Present, StoreShape, StoredAt, MayGet, Answered, Calls
<1> QED
  BY <1>1, <1>2, ReadStep

LEMMA ListInstancesStep ==
    ASSUME IInv, NEW p \in Procs, ListInstances(p) PROVE IInv' /\ Mine(p)
<1> USE DEF ListInstances, Goto
<1>3. answer[p] \in Answer /\ InstancesFound(p) \in SUBSET Running
  BY DEF IInv, TypeOK, Stages, DiscoverStage, InstancesFound
<1> DEFINE a == [answer[p] EXCEPT !.instances = InstancesFound(p)]
<1>4. a \in Answer /\ a # NoAnswer
  BY <1>3, NoneAssumption DEF Answer
<1>5. answer' = [answer EXCEPT ![p] = a]
  OBVIOUS
<1>1. TypeOK' /\ Mine(p)
  BY <1>3, <1>4, <1>5, SMT DEF IInv, TypeOK, Mine, storeVars, Present, InstancesFound,
     Answered, Calls
<1>2. (PutStage(p) /\ DiscoverStage(p) /\ IdleStage(p))'
  BY <1>3, <1>4, <1>5, SMT DEF IInv, TypeOK, Stages, PutStage, DiscoverStage, IdleStage,
     Putting, Discovering, PutStages, DiscoverStages,
        MayRead, AllowsRead, storeVars, Present, InstancesFound, Answered, Calls
<1> QED
  BY <1>1, <1>2, ReadStep

LEMMA ListCardsStep ==
    ASSUME IInv, NEW p \in Procs, ListCards(p) PROVE IInv' /\ Mine(p)
<1> USE DEF ListCards, Goto
<1>3. Present("card") => kv["card"].value \in Card /\ kv["card"].value.service \in Services
  BY CardIsKey DEF IInv, TypeOK, StoredAt, Card
<1> DEFINE a == IF Present("card")
                THEN [card |-> kv["card"].value, service |-> kv["card"].value.service, instances |-> {}]
                ELSE NoAnswer
<1>4. a \in Answer \cup {NoAnswer}
  BY <1>3 DEF Answer
<1>5. answer' = [answer EXCEPT ![p] = a]
  OBVIOUS
<1>6. answer' \in [Procs -> Answer \cup {NoAnswer}] /\ \A q \in Procs : q # p => answer'[q] = answer[q]
  BY <1>4, <1>5 DEF IInv, TypeOK
<1>1. TypeOK' /\ Mine(p)
  BY <1>6, SMT DEF IInv, TypeOK, Mine, storeVars, Present, Answered, Calls
<1>2. (PutStage(p) /\ DiscoverStage(p) /\ IdleStage(p))'
  BY <1>3, <1>4, <1>5, CardIsKey, SMT DEF IInv, TypeOK, Stages, PutStage, DiscoverStage,
     IdleStage, Putting, Discovering, PutStages, DiscoverStages,
        MayRead, AllowsRead, storeVars, Present, StoreShape, StoredAt, Card, Answered, Calls
<1> QED
  BY <1>1, <1>2, ReadStep

LEMMA ReceiveDiscoverStep ==
    ASSUME IInv, NEW p \in Procs, ReceiveDiscover(p) PROVE IInv' /\ Mine(p)
<1>1. PICK q \in Queries :
         /\ Receive(p, [op |-> "discover", query |-> q,
                       indexed |-> q.cap \in Capabilities /\ Present(q.cap)])
         /\ Goto(p, "check_discover")
  BY DEF ReceiveDiscover
<1> DEFINE r == [op |-> "discover", query |-> q,
                 indexed |-> q.cap \in Capabilities /\ Present(q.cap)]
<1>6. (q.cap \in Capabilities /\ Present(q.cap)) \in BOOLEAN
  OBVIOUS
<1>2. r \in Request /\ r # NoRequest
  BY <1>6, DiscoverTyped
<1>3. TypeOK' /\ Mine(p)
  BY <1>1, <1>2, SMT DEF Receive, Goto, IInv, TypeOK, Mine, storeVars, Present, Answered, Calls
<1>4. pc'[p] = "check_discover" /\ req'[p] = r /\ answer'[p] = NoAnswer
  BY <1>1 DEF Receive, Goto, IInv, TypeOK, Stages, IdleStage
<1>5. (PutStage(p) /\ DiscoverStage(p) /\ IdleStage(p))'
  BY <1>2, <1>4 DEF PutStage, DiscoverStage, IdleStage, Putting, Discovering, PutStages,
     DiscoverStages
<1> QED
  BY <1>1, <1>3, <1>5, ReadStep DEF Receive

LEMMA ReceiveListStep ==
    ASSUME IInv, NEW p \in Procs, ReceiveList(p) PROVE IInv' /\ Mine(p)
<1> USE DEF ReceiveList, Goto
<1>1. TypeOK' /\ Mine(p)
  BY NoneAssumption, SMT DEF IInv, TypeOK, Mine, storeVars, Present, Receive, Request, Calls
<1>2. (PutStage(p) /\ DiscoverStage(p) /\ IdleStage(p))'
  BY NoneAssumption, SMT DEF IInv, TypeOK, Stages, PutStage, DiscoverStage, IdleStage, Putting,
     Discovering, PutStages, DiscoverStages,
        MayRead, AllowsRead, storeVars, Present, Receive, Request
<1> QED
  BY <1>1, <1>2, ReadStep DEF Receive

LEMMA ReturnStep ==
    ASSUME IInv, NEW p \in Procs, Return(p) PROVE IInv' /\ Mine(p)
<1> USE DEF Return, Goto
<1>1. TypeOK' /\ Mine(p)
  BY CardsAssumption, SMT DEF IInv, TypeOK, Mine, storeVars, Present, Forget, Answered, Calls
<1>2. (PutStage(p) /\ DiscoverStage(p) /\ IdleStage(p))'
  BY CardsAssumption, SMT DEF IInv, TypeOK, Stages, PutStage, DiscoverStage, IdleStage,
     Putting, Discovering, PutStages, DiscoverStages,
        MayRead, AllowsRead, storeVars, Present, Forget, Answered, Calls
<1> QED
  BY <1>1, <1>2, ReadStep DEF Forget

LEMMA AbortStep ==
    ASSUME IInv, NEW p \in Procs, Abort(p) PROVE IInv' /\ Mine(p)
<1> USE DEF Abort, Goto
<1>1. TypeOK' /\ Mine(p)
  BY CardsAssumption, SMT DEF IInv, TypeOK, Mine, storeVars, Present, Forget, Answered, Calls
<1>2. (PutStage(p) /\ DiscoverStage(p) /\ IdleStage(p))'
  BY CardsAssumption, SMT DEF IInv, TypeOK, Stages, PutStage, DiscoverStage, IdleStage,
     Putting, Discovering, PutStages, DiscoverStages,
        MayRead, AllowsRead, storeVars, Present, Forget, Answered, Calls
<1> QED
  BY <1>1, <1>2, ReadStep DEF Forget

-----------------------------------------------------------------------------
(* The steps that write.                                                   *)

LEMMA WriteStep ==
    ASSUME IInv, NEW p \in Procs, UNCHANGED mode, Mine(p), Onward,
           PutStage(p)' /\ DiscoverStage(p)' /\ IdleStage(p)', TypeOK', StoreShape'
    PROVE  IInv' /\ Mine(p)
  BY OthersStage DEF IInv, Stages

\* A key written with a value of its kind keeps the store in shape.
LEMMA PutShape ==
    ASSUME IInv, NEW k \in Keys, NEW v \in StoredAt(k), WriteKey(k, v, NoLease),
           k # "card" => Present("card")
    PROVE  /\ StoreShape' /\ Onward /\ Present("card")'
           /\ kv' = [kv EXCEPT ![k] = Record(v, rev + 1, NoLease)]
           /\ \A j \in Keys : Present(j)' => kv'[j].value \in StoredAt(j)
<1> USE DEF WriteKey, Record
<1>1. /\ kv \in [Keys -> [value : Card \cup Services \cup {NoValue}, mod : Nat, lease : {NoLease}]]
      /\ rev \in Nat /\ \A j \in Keys : kv[j].mod \in Nat /\ kv[j].mod <= rev
  BY DEF IInv, StoreShape
<1>2. v \in Card \cup Services \cup {NoValue}
  BY DEF StoredAt
<1>3. kv' \in [Keys -> [value : Card \cup Services \cup {NoValue}, mod : Nat, lease : {NoLease}]]
  BY <1>1, <1>2
<1>4. \A j \in Keys : kv'[j] = IF j = k THEN Record(v, rev + 1, NoLease) ELSE kv[j]
  BY <1>1
<1>5. Present("card")' /\ \A j \in Keys : Present(j) => Present(j)'
  BY <1>1, <1>4, CardIsKey DEF Present
<1>6. StoreShape'
  BY <1>1, <1>3, <1>4, <1>5 DEF IInv, StoreShape, Present
<1>7. Onward
  BY <1>1, <1>4, <1>5, CardIsKey DEF Onward
<1>8. \A j \in Keys : Present(j)' => kv'[j].value \in StoredAt(j)
  BY <1>4 DEF IInv, TypeOK, Present
<1> QED
  BY <1>5, <1>6, <1>7, <1>8

LEMMA WriteCardStep ==
    ASSUME IInv, NEW p \in Procs, WriteCard(p) PROVE IInv' /\ Mine(p)
<1>1. pc[p] = "write" /\ Putting(p) /\ req[p].card \in Card
  BY DEF WriteCard, IInv, Stages, PutStage, PutStages
<1>2. WriteKey("card", req[p].card, NoLease)
  BY DEF WriteCard, Create, CAS
<1>3. StoreShape' /\ Onward /\ Present("card")' /\ \A k \in Keys : Present(k)' => kv'[k].value \in StoredAt(k)
  BY <1>1, <1>2, CardIsKey, PutShape DEF StoredAt
<1>4. ToUnindex(p) \in SUBSET Capabilities /\ ToIndex(p) \in SUBSET Capabilities
  BY <1>1 DEF ToUnindex, ToIndex, IInv, TypeOK, Card
<1>5. /\ todo' \in [Procs -> SUBSET Capabilities]
      /\ pc' = [pc EXCEPT ![p] = "unindex"] \/ pc' = [pc EXCEPT ![p] = "index"] \/ pc' = [pc EXCEPT ![p] = "ok"]
      /\ \A q \in Procs : q # p => todo'[q] = todo[q]
  BY <1>4 DEF WriteCard, WriteEntries, Goto, IInv, TypeOK
<1>6. UNCHANGED <<mode, aborts, req, previous, entry, answer>>
  BY DEF WriteCard
<1>7. TypeOK' /\ Mine(p)
  BY <1>3, <1>5, <1>6 DEF IInv, TypeOK, Mine, Answered, Calls
<1>8. pc'[p] \in {"unindex", "index", "ok"}
  BY <1>5 DEF IInv, TypeOK
<1>9. req[p].expected \in Nat /\ req[p].expected <= rev /\ rev \in Nat /\ rev' \in Nat /\ rev <= rev'
  BY <1>1, <1>3, PutRequest DEF Putting, IInv, TypeOK, Stages, PutStage, StoreShape, Onward
<1>10. (PutStage(p) /\ DiscoverStage(p) /\ IdleStage(p))'
  BY <1>1, <1>3, <1>6, <1>8, <1>9 DEF IInv, Stages, PutStage, DiscoverStage, IdleStage,
     Putting, Discovering,
        PutStages, DiscoverStages
<1> QED
  BY <1>3, <1>6, <1>7, <1>10, WriteStep

\* What p leaves of its request while it writes the entries.
LEMMA EntryWritten ==
    ASSUME IInv, NEW p \in Procs, pc[p] \in {"unindex", "index"},
           UNCHANGED <<mode, aborts, req, previous, entry, answer>>,
           todo' \in [Procs -> SUBSET Capabilities],
           pc' \in [Procs -> Calls \cup Answered],
           pc'[p] \in {"unindex", "index", "ok"},
           \A q \in Procs : q # p => todo'[q] = todo[q] /\ pc'[q] = pc[q],
           StoreShape', Onward, \A k \in Keys : Present(k)' => kv'[k].value \in StoredAt(k)
    PROVE  IInv' /\ Mine(p)
<1>1. Present("card") /\ Putting(p) /\ req[p].card \in Card
  BY DEF IInv, Stages, PutStage, PutStages
<1>2. TypeOK' /\ Mine(p)
  BY DEF IInv, TypeOK, Mine
<1>3. req[p].expected \in Nat /\ req[p].expected <= rev /\ rev \in Nat /\ rev' \in Nat /\ rev <= rev'
  BY <1>1, PutRequest DEF Putting, IInv, TypeOK, Stages, PutStage, StoreShape, Onward
<1>4. (PutStage(p) /\ DiscoverStage(p) /\ IdleStage(p))'
  BY <1>1, <1>3 DEF Onward, IInv, Stages, PutStage, DiscoverStage, IdleStage, Putting,
     Discovering,
        PutStages, DiscoverStages
<1> QED
  BY <1>2, <1>4, WriteStep

LEMMA PutEntryStep ==
    ASSUME IInv, NEW p \in Procs, PutEntry(p) PROVE IInv' /\ Mine(p)
<1>1. PICK c \in todo[p] :
         /\ Put(c, EntryOf(p), NoLease)
         /\ todo' = [todo EXCEPT ![p] = @ \ {c}]
         /\ Goto(p, IF todo[p] = {c} THEN "ok" ELSE "index")
  BY DEF PutEntry
<1>2. c \in Capabilities /\ c \in Keys /\ c # "card"
  BY CardIsKey DEF IInv, TypeOK
<1>3. Present("card") /\ EntryOf(p) \in Services /\ pc[p] = "index"
  BY DEF PutEntry, IInv, Stages, PutStage, PutStages, EntryOf, Card
<1>4. WriteKey(c, EntryOf(p), NoLease)
  BY <1>1 DEF Put
<1>5. StoreShape' /\ Onward /\ \A k \in Keys : Present(k)' => kv'[k].value \in StoredAt(k)
  BY <1>2, <1>3, <1>4, PutShape DEF StoredAt
<1>6. todo' \in [Procs -> SUBSET Capabilities] /\ \A q \in Procs : q # p => todo'[q] = todo[q] /\ pc'[q] = pc[q]
  BY <1>1 DEF Goto, IInv, TypeOK
<1>7. /\ pc' \in [Procs -> Calls \cup Answered]
      /\ pc'[p] \in {"unindex", "index", "ok"}
  BY <1>1 DEF Goto, IInv, TypeOK, Answered, Calls
<1>8. UNCHANGED <<mode, aborts, req, previous, entry, answer>>
  BY DEF PutEntry
<1> QED
  BY <1>3, <1>5, <1>6, <1>7, <1>8, EntryWritten

LEMMA EraseShape ==
    ASSUME IInv, NEW c \in Capabilities, IF Present(c) THEN Delete(c) ELSE UNCHANGED storeVars
    PROVE  StoreShape' /\ Onward /\ (\A k \in Keys : Present(k)' => kv'[k].value \in StoredAt(k))
<1>1. /\ kv \in [Keys -> [value : Card \cup Services \cup {NoValue}, mod : Nat, lease : {NoLease}]]
      /\ rev \in Nat /\ \A j \in Keys : kv[j].mod \in Nat /\ kv[j].mod <= rev
  BY DEF IInv, StoreShape
<1>2. CASE ~Present(c)
  BY <1>2, CardIsKey DEF storeVars, IInv, StoreShape, TypeOK, Onward, Present
<1>3. CASE Present(c)
  <2>1. kv' = [k \in Keys |-> IF k \in {c} THEN Missing ELSE kv[k]] /\ rev' = rev + 1
    BY <1>3 DEF Delete, EraseKeys
  <2>2. kv'["card"] = kv["card"]
    BY <2>1, CardIsKey
  <2>3. Onward
    BY <2>1, <2>2, <1>1 DEF Onward, Present
  <2>4. StoreShape'
    BY <2>1, <2>2, <1>1, CardIsKey DEF IInv, StoreShape, Present, Missing, Record
  <2>5. \A k \in Keys : Present(k)' => kv'[k].value \in StoredAt(k)
    BY <2>1 DEF IInv, TypeOK, Present, Missing, Record
  <2> QED
    BY <2>3, <2>4, <2>5
<1> QED
  BY <1>2, <1>3

LEMMA DeleteEntryStep ==
    ASSUME IInv, NEW p \in Procs, DeleteEntry(p) PROVE IInv' /\ Mine(p)
<1>1. PICK c \in todo[p] :
          /\ IF Present(c) THEN Delete(c) ELSE UNCHANGED storeVars
          /\ IF todo[p] = {c}
             THEN /\ todo' = [todo EXCEPT ![p] = ToIndex(p)]
                  /\ Goto(p, IF ToIndex(p) = {} THEN "ok" ELSE "index")
             ELSE todo' = [todo EXCEPT ![p] = @ \ {c}] /\ UNCHANGED pc
  BY DEF DeleteEntry
<1>2. c \in Capabilities /\ pc[p] = "unindex"
  BY DEF DeleteEntry, IInv, TypeOK
<1>3. StoreShape' /\ Onward /\ \A k \in Keys : Present(k)' => kv'[k].value \in StoredAt(k)
  BY <1>1, <1>2, EraseShape
<1>4. ToIndex(p) \in SUBSET Capabilities
  BY <1>2 DEF IInv, Stages, PutStage, ToIndex, Card
<1>5. todo' \in [Procs -> SUBSET Capabilities] /\ \A q \in Procs : q # p => todo'[q] = todo[q] /\ pc'[q] = pc[q]
  BY <1>1, <1>4 DEF Goto, IInv, TypeOK
<1>6. /\ pc' \in [Procs -> Calls \cup Answered]
      /\ pc'[p] \in {"unindex", "index", "ok"}
  BY <1>1, <1>2 DEF Goto, IInv, TypeOK, Answered, Calls
<1>7. UNCHANGED <<mode, aborts, req, previous, entry, answer>>
  BY DEF DeleteEntry
<1> QED
  BY <1>2, <1>3, <1>5, <1>6, <1>7, EntryWritten

\* One step of p.
Act(p) ==
    \/ ReceivePut(p) \/ CheckWrite(p) \/ CheckRead(p) \/ GetPrevious(p)
    \/ WriteCard(p) \/ WriteRefused(p) \/ DeleteEntry(p) \/ PutEntry(p)
    \/ ReceiveDiscover(p) \/ CheckDiscover(p) \/ ListEntries(p) \/ GetCard(p)
    \/ ListInstances(p) \/ ReceiveList(p) \/ ListCards(p)
    \/ Return(p) \/ Abort(p)

LEMMA ActStep == ASSUME IInv, NEW p \in Procs, Act(p) PROVE IInv' /\ Mine(p)
  BY ReceivePutStep, CheckWriteStep, CheckReadStep, GetPreviousStep, WriteCardStep,
     WriteRefusedStep, DeleteEntryStep, PutEntryStep, ReceiveDiscoverStep, CheckDiscoverStep,
     ListEntriesStep, GetCardStep, ListInstancesStep, ReceiveListStep, ListCardsStep, ReturnStep,
     AbortStep DEF Act

LEMMA SomeoneActs == ASSUME Step PROVE \E p \in Procs : Act(p)
  BY DEF Step, Act

LEMMA StepIInv == ASSUME IInv, [Next]_vars PROVE IInv'
<1>1. CASE UNCHANGED vars
  BY <1>1 DEF vars, locals, storeVars, IInv, StoreShape, TypeOK, Stages, PutStage,
     DiscoverStage,
        IdleStage, Putting, Discovering, MayRead, Present
<1>2. CASE Next
  BY <1>2, SomeoneActs, ActStep DEF Next
<1> QED
  BY <1>1, <1>2

\* Every state of every request fits the invariant above, however requests
\* interleave and wherever they die.
THEOREM Invariant == Spec => []IInv
  BY InitIInv, StepIInv, PTL DEF Spec

\* The store, and what each goroutine carries between its calls, keep types.
THEOREM TypeCorrect == Spec => []TypeOK
<1>1. IInv => TypeOK
  BY DEF IInv
<1> QED
  BY <1>1, Invariant, PTL

-----------------------------------------------------------------------------
(* What is written and what is answered.                                   *)

LEMMA WriterReplaces ==
    ASSUME IInv, NEW p \in Procs, WriteCard(p)
    PROVE  IF Present("card") THEN previous[p] = kv["card"].value ELSE previous[p] = NoCard
<1>1. PutStage(p) /\ Putting(p)
  BY DEF WriteCard, IInv, Stages, PutStage, PutStages
<1>2. req[p].expected \in Nat
  BY <1>1, PutRequest DEF Putting, IInv, TypeOK
<1> QED
  BY <1>1, <1>2 DEF WriteCard, Create, CAS, PutStage, Present

\* The entries an update removes are those of the card it replaced.
THEOREM ReplacesWhatItRead == Spec => PreviousWasReplaced
<1> DEFINE Replaced ==
        \A p \in Procs : pc[p] = "write" /\ kv'["card"] # kv["card"] /\ pc'[p] # "write" =>
            IF Present("card") THEN previous[p] = kv["card"].value ELSE previous[p] = NoCard
<1>1. ASSUME IInv, Next PROVE Replaced
  <2> SUFFICES ASSUME NEW p \in Procs, pc[p] = "write", kv'["card"] # kv["card"], pc'[p] # "write"
               PROVE  IF Present("card") THEN previous[p] = kv["card"].value ELSE previous[p] = NoCard
    OBVIOUS
  <2>1. PICK q \in Procs : Act(q)
    BY <1>1, SomeoneActs DEF Next
  <2>2. q = p
    BY <1>1, <2>1, ActStep DEF Mine
  <2>3. WriteCard(p)
    BY <2>1, <2>2 DEF Act, ReceivePut, CheckWrite, CheckRead, GetPrevious, WriteRefused,
       DeleteEntry,
       PutEntry, ReceiveDiscover, CheckDiscover, ListEntries, GetCard, ListInstances, ReceiveList,
       ListCards, Return, Abort, Receive, Forget, Answered, storeVars
  <2> QED
    BY <1>1, <2>3, WriterReplaces
<1>2. IInv /\ [Next]_vars => [Replaced]_vars
  BY <1>1
<1>3. PreviousWasReplaced <=> [][Replaced]_vars
  BY DEF PreviousWasReplaced
<1> QED
  BY <1>2, <1>3, Invariant, PTL DEF Spec

\* What is answered was stored meanwhile, and is what was asked for.
Answers ==
    \A p \in Procs : answer[p] # NoAnswer =>
        /\ answer[p].card \in views[p]
        /\ Discovering(p) =>
              /\ Speaks(answer[p].card, req[p].query.protocol)
              /\ \A i \in answer[p].instances : i.own /\ (i.healthy \/ req[p].query.unhealthy)

\* A step of p that answers nothing.
LEMMA Unanswered ==
    ASSUME IInv, Answers, NEW p \in Procs, Mine(p), IInv', Watched,
           answer'[p] = NoAnswer \/ (answer'[p] = answer[p] /\ req'[p] = req[p] /\ pc'[p] # "idle")
    PROVE  Answers'
<1> SUFFICES ASSUME NEW q \in Procs, answer'[q] # NoAnswer
             PROVE  /\ answer'[q].card \in views'[q]
                    /\ Discovering(q)' =>
                          /\ Speaks(answer'[q].card, req'[q].query.protocol)
                          /\ \A i \in answer'[q].instances : i.own /\ (i.healthy \/ req'[q].query.unhealthy)
  BY DEF Answers
<1>1. answer'[q] = answer[q] /\ req'[q] = req[q] /\ pc'[q] # "idle"
  BY DEF Mine, IInv, Stages, IdleStage
<1>2. views[q] \subseteq views'[q]
  BY <1>1 DEF Watched
<1> QED
  BY <1>1, <1>2 DEF Answers, Discovering

LEMMA GetCardAnswers ==
    ASSUME IInv, Answers, NEW p \in Procs, GetCard(p), Watched PROVE Answers'
<1>1. IInv' /\ Mine(p)
  BY GetCardStep
<1>2. CASE UNCHANGED answer
  BY <1>1, <1>2, Unanswered DEF GetCard, Goto, IInv, TypeOK, Stages, IdleStage
<1>3. CASE MayGet(p) /\ Speaks(kv["card"].value, req[p].query.protocol)
  <2> DEFINE a == [card |-> kv["card"].value, service |-> entry[p], instances |-> {}]
  <2>1. answer' = [answer EXCEPT ![p] = a] /\ pc'[p] = "list_instances" /\ UNCHANGED <<kv, req>>
    BY <1>3 DEF GetCard, Goto, storeVars, IInv, TypeOK
  <2>2. answer'[p] = a /\ a.card \in views'[p] /\ a.instances = {}
    BY <2>1 DEF Watched, IInv, TypeOK
  <2> SUFFICES ASSUME NEW q \in Procs, answer'[q] # NoAnswer
               PROVE  /\ answer'[q].card \in views'[q]
                      /\ Discovering(q)' =>
                            /\ Speaks(answer'[q].card, req'[q].query.protocol)
                            /\ \A i \in answer'[q].instances : i.own /\ (i.healthy \/ req'[q].query.unhealthy)
    BY DEF Answers
  <2>3. CASE q = p
    BY <1>3, <2>1, <2>2, <2>3
  <2>4. CASE q # p
    <3>1. answer'[q] = answer[q] /\ req'[q] = req[q] /\ pc'[q] # "idle"
      BY <1>1, <2>4 DEF Mine, IInv, Stages, IdleStage
    <3>2. views[q] \subseteq views'[q]
      BY <3>1 DEF Watched
    <3> QED
      BY <3>1, <3>2 DEF Answers, Discovering
  <2> QED
    BY <2>3, <2>4
<1> QED
  BY <1>2, <1>3 DEF GetCard

\* A step of p that answers: the others keep their answers.
LEMMA Answering ==
    ASSUME IInv, Answers, NEW p \in Procs, Mine(p), IInv', Watched,
           answer'[p] # NoAnswer =>
              /\ answer'[p].card \in views'[p]
              /\ Discovering(p)' =>
                    /\ Speaks(answer'[p].card, req'[p].query.protocol)
                    /\ \A i \in answer'[p].instances : i.own /\ (i.healthy \/ req'[p].query.unhealthy)
    PROVE  Answers'
<1>1. ASSUME NEW q \in Procs, q # p, answer'[q] # NoAnswer
      PROVE  answer'[q] = answer[q] /\ req'[q] = req[q] /\ views[q] \subseteq views'[q]
  BY <1>1 DEF Mine, IInv, Stages, IdleStage, Watched
<1> QED
  BY <1>1 DEF Answers, Discovering

LEMMA ListInstancesAnswers ==
    ASSUME IInv, Answers, NEW p \in Procs, ListInstances(p), Watched PROVE Answers'
<1>1. IInv' /\ Mine(p)
  BY ListInstancesStep
<1>2. Discovering(p) /\ answer[p] \in Answer /\ answer[p] # NoAnswer
  BY DEF ListInstances, IInv, Stages, DiscoverStage, DiscoverStages, TypeOK
<1>3. /\ answer'[p] = [answer[p] EXCEPT !.instances = InstancesFound(p)]
      /\ req' = req /\ pc'[p] = "ok"
  BY DEF ListInstances, Goto, IInv, TypeOK
<1>4. answer'[p].card = answer[p].card /\ answer'[p].instances = InstancesFound(p)
  BY <1>2, <1>3 DEF Answer
<1>5. answer'[p].card \in views'[p] /\ Speaks(answer[p].card, req[p].query.protocol)
  BY <1>2, <1>3, <1>4 DEF Answers, Watched
<1> QED
  BY <1>1, <1>3, <1>4, <1>5, Answering DEF InstancesFound

LEMMA ListCardsAnswers ==
    ASSUME IInv, Answers, NEW p \in Procs, ListCards(p), Watched PROVE Answers'
<1>1. IInv' /\ Mine(p)
  BY ListCardsStep
<1>2. ~Discovering(p)' /\ UNCHANGED kv /\ pc'[p] = "ok"
  BY DEF ListCards, Goto, Discovering, IInv, TypeOK, Stages, IdleStage, storeVars
<1>3. answer'[p] # NoAnswer => answer'[p].card = kv'["card"].value
  BY <1>2 DEF ListCards, IInv, TypeOK
<1>4. kv'["card"].value \in views'[p]
  BY <1>2 DEF Watched
<1> QED
  BY <1>1, <1>2, <1>3, <1>4, Answering

LEMMA StepAnswers ==
    ASSUME IInv, Answers, [Next]_vars PROVE Answers'
<1>1. CASE UNCHANGED vars
  BY <1>1 DEF vars, locals, Answers, Discovering
<1>2. ASSUME Next PROVE Answers'
  <2>1. PICK p \in Procs : Act(p)
    BY <1>2, SomeoneActs DEF Next
  <2>2. IInv' /\ Mine(p) /\ Watched
    BY <1>2, <2>1, ActStep DEF Next
  <2>3. CASE GetCard(p) \/ ListInstances(p) \/ ListCards(p)
    BY <2>2, <2>3, GetCardAnswers, ListInstancesAnswers, ListCardsAnswers
  <2>4. CASE ReceivePut(p) \/ ReceiveDiscover(p) \/ ReceiveList(p)
    BY <2>2, <2>4, Unanswered DEF ReceivePut, ReceiveDiscover, ReceiveList, Receive, IInv,
       Stages, IdleStage
  <2>5. CASE Return(p) \/ Abort(p)
    BY <2>2, <2>5, Unanswered DEF Return, Abort, Forget, IInv, TypeOK
  <2>6. CASE \/ CheckWrite(p) \/ CheckRead(p) \/ GetPrevious(p) \/ WriteRefused(p)
             \/ WriteCard(p) \/ DeleteEntry(p) \/ PutEntry(p)
             \/ CheckDiscover(p) \/ ListEntries(p)
    <3>1. UNCHANGED <<answer, req>> /\ pc[p] # "idle"
      BY <2>6 DEF CheckWrite, CheckRead, GetPrevious, WriteRefused, WriteCard, DeleteEntry,
         PutEntry,
         CheckDiscover, ListEntries
    <3>2. pc'[p] # "idle"
      BY <2>2, <3>1 DEF IInv, Stages, IdleStage
    <3> QED
      BY <2>2, <3>1, <3>2, Unanswered
  <2> QED
    BY <2>1, <2>3, <2>4, <2>5, <2>6 DEF Act
<1> QED
  BY <1>1, <1>2

\* What a Discover or a listing answers was right at a moment of the request,
\* card by card, whatever is put meanwhile.
THEOREM AnswersRight == Spec => []AnswersAreRight
<1>1. Init => Answers
  BY DEF Init, Answers
<1>2. IInv /\ Answers => AnswersAreRight
  <2> SUFFICES ASSUME IInv, Answers PROVE AnswersAreRight
    OBVIOUS
  <2>1. ReadAsAllowed
    BY DEF IInv, Stages, DiscoverStage, Discovering, ReadAsAllowed
  <2>2. AnsweredAsAsked
    BY DEF IInv, Stages, IdleStage, Answers, Discovering, AnsweredAsAsked
  <2> QED
    BY <2>1, <2>2 DEF AnswersAreRight
<1> QED
  BY <1>1, <1>2, StepAnswers, Invariant, PTL DEF Spec

-----------------------------------------------------------------------------
(* The index, while no two puts overlap.                                   *)

Lone == \A p, q \in Procs : Putting(p) /\ Putting(q) => p = q

\* The card of a goroutine that writes entries is the stored one, and the
\* entries it is done with are there.
Own(p) ==
    /\ pc[p] \in {"unindex", "index"} \/ (pc[p] = "ok" /\ Putting(p)) =>
          Present("card") /\ kv["card"].value = req[p].card
    /\ pc[p] = "index" =>
          /\ todo[p] \subseteq req[p].card.caps
          /\ \A c \in req[p].card.caps \ todo[p] : Indexed(c)
    /\ pc[p] = "ok" /\ Putting(p) => \A c \in req[p].card.caps : Indexed(c)

\* While nothing dies, no other entry than those is left.
Swept(p) ==
    /\ pc[p] = "unindex" => \A c \in Capabilities : Present(c) => c \in todo[p]
    /\ pc[p] = "index" => \A c \in Capabilities \ req[p].card.caps : ~Present(c)

Writing == \E p \in Procs : pc[p] \in {"unindex", "index"}

SerialInv ==
    ~overlapped =>
        /\ Lone
        /\ \A p \in Procs : Own(p)
        /\ aborts = 0 => (\A p \in Procs : Swept(p)) /\ (~Writing => IndexExact)

LEMMA SerialInit == Init => SerialInv
  BY CardIsKey DEF Init, StoreInit, Missing, Record, Present, SerialInv, Lone, Own, Swept,
     Writing, Putting,
     IndexExact, CapsStored, Indexed

LEMMA StaysSerial ==
    ASSUME SerialInv, Watched, ~overlapped' PROVE ~overlapped /\ Lone'
  BY DEF Watched, Lone

\* A step of p that writes nothing and neither starts nor ends writing.
LEMMA SilentSerial ==
    ASSUME IInv, SerialInv, NEW p \in Procs, Mine(p), Watched, UNCHANGED kv,
           pc[p] \notin {"unindex", "index"}, pc'[p] \notin {"unindex", "index"},
           ~(pc'[p] = "ok" /\ Putting(p)'), aborts' = aborts \/ aborts' # 0
    PROVE  SerialInv'
<1> SUFFICES ASSUME ~overlapped'
             PROVE  /\ Lone'
                    /\ \A q \in Procs : Own(q)'
                    /\ aborts' = 0 => (\A q \in Procs : Swept(q)') /\ (~Writing' => IndexExact')
  BY DEF SerialInv
<1>1. ~overlapped /\ Lone'
  BY StaysSerial
<1>2. \A k : (Present(k)' <=> Present(k)) /\ (Indexed(k)' <=> Indexed(k))
  BY DEF Present, Indexed
<1>3. ASSUME NEW q \in Procs PROVE Own(q)'
  BY <1>1, <1>2 DEF Mine, SerialInv, Own, Putting
<1>4. ASSUME NEW q \in Procs, aborts' = 0 PROVE Swept(q)'
  BY <1>1, <1>2, <1>4 DEF Mine, SerialInv, Swept
<1>5. ASSUME aborts' = 0, ~Writing' PROVE IndexExact'
  <2>1. ~Writing
    BY <1>5 DEF Writing, Mine
  <2> QED
    BY <1>1, <1>2, <1>5, <2>1 DEF SerialInv, IndexExact, CapsStored
<1> QED
  BY <1>1, <1>3, <1>4, <1>5

\* While p is the only one that puts, nobody else writes entries, and no other
\* put is answered.
LEMMA OnlyWriter ==
    ASSUME IInv, Lone, NEW p \in Procs, Putting(p), NEW q \in Procs, q # p
    PROVE  pc[q] \notin {"unindex", "index"} /\ ~Putting(q)
  BY DEF Lone, IInv, Stages, PutStage, PutStages

\* What p's write has to leave, the others being silent.
LEMMA WriterSerial ==
    ASSUME IInv, SerialInv, NEW p \in Procs, Mine(p), IInv', Watched, Putting(p)', UNCHANGED aborts,
           ~overlapped' => Own(p)',
           ~overlapped' /\ aborts = 0 => Swept(p)' /\ (pc'[p] = "ok" => IndexExact'),
           pc'[p] \in {"unindex", "index", "ok"}
    PROVE  SerialInv'
<1> SUFFICES ASSUME ~overlapped'
             PROVE  /\ Lone'
                    /\ \A q \in Procs : Own(q)'
                    /\ aborts' = 0 => (\A q \in Procs : Swept(q)') /\ (~Writing' => IndexExact')
  BY DEF SerialInv
<1>1. Lone'
  BY StaysSerial
<1>2. ASSUME NEW q \in Procs, q # p PROVE pc'[q] \notin {"unindex", "index"} /\ ~Putting(q)'
  BY <1>1, <1>2 DEF Lone, IInv, Stages, PutStage, PutStages
<1>3. ASSUME NEW q \in Procs PROVE Own(q)'
  BY <1>2, <1>3 DEF Own
<1>4. ASSUME NEW q \in Procs, aborts' = 0 PROVE Swept(q)'
  BY <1>2, <1>4 DEF Swept
<1>5. ASSUME aborts' = 0, ~Writing' PROVE IndexExact'
  BY <1>5 DEF Writing
<1> QED
  BY <1>1, <1>3, <1>4, <1>5

LEMMA WriteCardSerial ==
    ASSUME IInv, SerialInv, NEW p \in Procs, WriteCard(p), Watched PROVE SerialInv'
<1>1. IInv' /\ Mine(p)
  BY WriteCardStep
<1>2. /\ pc[p] = "write" /\ Putting(p) /\ req[p].card \in Card
      /\ UNCHANGED <<aborts, req, previous>>
  BY DEF WriteCard, IInv, Stages, PutStage, PutStages
<1>3. WriteKey("card", req[p].card, NoLease)
  BY DEF WriteCard, Create, CAS
<1>4. /\ kv' = [kv EXCEPT !["card"] = Record(req[p].card, rev + 1, NoLease)]
      /\ Present("card")' /\ kv'["card"].value = req[p].card
  BY <1>3, CardIsKey DEF WriteKey, Record, IInv, StoreShape, Present
<1>5. \A c \in Capabilities : kv'[c] = kv[c]
  BY <1>4, CardIsKey
<1>6. ToIndex(p) = req[p].card.caps /\ ToIndex(p) # {} /\ ToIndex(p) \subseteq Capabilities
  BY <1>2, CardCaps DEF ToIndex
<1>7. CASE ToUnindex(p) = {}
  <2>1. pc'[p] = "index" /\ todo'[p] = req[p].card.caps
    BY <1>6, <1>7 DEF WriteCard, WriteEntries, Goto, IInv, TypeOK
  <2>2. Own(p)'
    BY <1>2, <1>4, <2>1 DEF Own
  <2>3. ASSUME ~overlapped', aborts = 0 PROVE Swept(p)'
    <3>1. Lone /\ ~overlapped
      BY <2>3, StaysSerial DEF SerialInv
    <3>2. ~Writing
      BY <1>2, <3>1, OnlyWriter DEF Writing
    <3>3. IndexExact
      BY <2>3, <3>1, <3>2 DEF SerialInv
    <3>4. ~Present("card")
      <4>1. SUFFICES ASSUME Present("card") PROVE FALSE
        OBVIOUS
      <4>2. previous[p] \in Card
        BY <4>1, WriterReplaces, CardIsKey DEF IInv, TypeOK, StoredAt
      <4> QED
        BY <1>7, <4>2, CardCaps, NoneAssumption DEF ToUnindex
    <3>5. \A c \in Capabilities : ~Present(c)
      BY <3>4 DEF IInv, StoreShape
    <3> QED
      BY <1>5, <2>1, <3>5 DEF Swept, Present
  <2> QED
    BY <1>1, <1>2, <2>1, <2>2, <2>3, WriterSerial DEF Putting
<1>8. CASE ToUnindex(p) # {}
  <2>1. pc'[p] = "unindex" /\ todo'[p] = ToUnindex(p)
    BY <1>8 DEF WriteCard, WriteEntries, Goto, IInv, TypeOK
  <2>2. Own(p)'
    BY <1>2, <1>4, <2>1 DEF Own
  <2>3. ASSUME ~overlapped', aborts = 0 PROVE Swept(p)'
    <3>1. Lone /\ ~overlapped
      BY <2>3, StaysSerial DEF SerialInv
    <3>2. ~Writing
      BY <1>2, <3>1, OnlyWriter DEF Writing
    <3>3. IndexExact
      BY <2>3, <3>1, <3>2 DEF SerialInv
    <3>4. Present("card") /\ todo'[p] = kv["card"].value.caps
      BY <1>8, <2>1, WriterReplaces DEF ToUnindex
    <3>5. \A c \in Capabilities : Present(c) => c \in todo'[p]
      BY <3>3, <3>4 DEF IndexExact, CapsStored
    <3> QED
      BY <1>5, <2>1, <3>5 DEF Swept, Present
  <2> QED
    BY <1>1, <1>2, <2>1, <2>2, <2>3, WriterSerial DEF Putting
<1> QED
  BY <1>7, <1>8

LEMMA DeleteEntrySerial ==
    ASSUME IInv, SerialInv, NEW p \in Procs, DeleteEntry(p), Watched PROVE SerialInv'
<1>1. IInv' /\ Mine(p)
  BY DeleteEntryStep
<1>2. PICK c \in todo[p] :
          /\ IF Present(c) THEN Delete(c) ELSE UNCHANGED storeVars
          /\ IF todo[p] = {c}
             THEN /\ todo' = [todo EXCEPT ![p] = ToIndex(p)]
                  /\ Goto(p, IF ToIndex(p) = {} THEN "ok" ELSE "index")
             ELSE todo' = [todo EXCEPT ![p] = @ \ {c}] /\ UNCHANGED pc
  BY DEF DeleteEntry
<1>3. /\ c \in Capabilities /\ pc[p] = "unindex" /\ Putting(p) /\ Present("card")
      /\ req[p].card \in Card /\ UNCHANGED <<aborts, req>>
  BY DEF DeleteEntry, IInv, TypeOK, Stages, PutStage, PutStages
<1>4. /\ kv'["card"] = kv["card"] /\ ~Present(c)'
      /\ \A d \in Capabilities : d # c => kv'[d] = kv[d]
  BY <1>2, <1>3, CardIsKey DEF Delete, EraseKeys, storeVars, Present, Missing, Record
<1>5. ToIndex(p) = req[p].card.caps /\ ToIndex(p) # {} /\ ToIndex(p) \subseteq Capabilities
  BY <1>3, CardCaps DEF ToIndex
<1>6. /\ todo[p] = {c} => pc'[p] = "index" /\ todo'[p] = req[p].card.caps
      /\ todo[p] # {c} => pc'[p] = "unindex" /\ todo'[p] = todo[p] \ {c}
  BY <1>2, <1>3, <1>5 DEF Goto, IInv, TypeOK
<1>7. ASSUME ~overlapped' PROVE Own(p)'
  <2>1. Own(p)
    BY <1>7, StaysSerial DEF SerialInv
  <2> QED
    BY <1>3, <1>4, <1>6, <2>1 DEF Own, Present
<1>8. ASSUME ~overlapped', aborts = 0 PROVE Swept(p)'
  <2>1. Swept(p)
    BY <1>8, StaysSerial DEF SerialInv
  <2>2. \A d \in Capabilities : Present(d)' => d # c /\ Present(d)
    BY <1>4 DEF Present
  <2> QED
    BY <1>3, <1>6, <2>1, <2>2 DEF Swept
<1> QED
  BY <1>1, <1>3, <1>6, <1>7, <1>8, WriterSerial DEF Putting

LEMMA PutEntrySerial ==
    ASSUME IInv, SerialInv, NEW p \in Procs, PutEntry(p), Watched PROVE SerialInv'
<1>1. IInv' /\ Mine(p)
  BY PutEntryStep
<1>2. PICK c \in todo[p] :
         /\ Put(c, EntryOf(p), NoLease)
         /\ todo' = [todo EXCEPT ![p] = @ \ {c}]
         /\ Goto(p, IF todo[p] = {c} THEN "ok" ELSE "index")
  BY DEF PutEntry
<1>3. /\ c \in Capabilities /\ pc[p] = "index" /\ Putting(p) /\ Present("card")
      /\ req[p].card \in Card /\ UNCHANGED <<aborts, req>>
  BY DEF PutEntry, IInv, TypeOK, Stages, PutStage, PutStages
<1>4. kv' = [kv EXCEPT ![c] = Record(EntryOf(p), rev + 1, NoLease)]
  BY <1>2 DEF Put, WriteKey
<1>5. /\ kv'["card"] = kv["card"] /\ kv'[c].value = req[p].card.service /\ Present(c)'
      /\ \A d \in Capabilities : d # c => kv'[d] = kv[d]
  BY <1>3, <1>4, CardIsKey DEF Record, EntryOf, IInv, StoreShape, Present
<1>6. /\ todo'[p] = todo[p] \ {c}
      /\ pc'[p] = IF todo[p] = {c} THEN "ok" ELSE "index"
  BY <1>2 DEF Goto, IInv, TypeOK
<1>7. ASSUME ~overlapped' PROVE Own(p)' /\ kv["card"].value = req[p].card /\ todo[p] \subseteq req[p].card.caps
  <2>1. Own(p)
    BY <1>7, StaysSerial DEF SerialInv
  <2>2. \A d \in Capabilities : d = c \/ Indexed(d) => Indexed(d)'
    BY <1>3, <1>5, <2>1 DEF Indexed, Own, Present
  <2>3. req[p].card.caps \subseteq Capabilities
    BY <1>3 DEF Card
  <2> QED
    BY <1>3, <1>5, <1>6, <2>1, <2>2, <2>3 DEF Own, Present
<1>8. ASSUME ~overlapped', aborts = 0 PROVE Swept(p)' /\ (pc'[p] = "ok" => IndexExact')
  <2>1. Swept(p)
    BY <1>8, StaysSerial DEF SerialInv
  <2>2. \A d \in Capabilities \ req[p].card.caps : ~Present(d)'
    BY <1>3, <1>5, <1>7, <1>8, <2>1 DEF Swept, Present
  <2>3. Swept(p)'
    BY <1>3, <1>6, <2>2 DEF Swept
  <2>4. ASSUME pc'[p] = "ok" PROVE IndexExact'
    BY <1>3, <1>5, <1>7, <1>8, <2>2, <2>4 DEF IndexExact, CapsStored, Own, Putting, Present
  <2> QED
    BY <2>3, <2>4
<1> QED
  BY <1>1, <1>3, <1>6, <1>7, <1>8, WriterSerial DEF Putting

\* A goroutine that dies while it writes leaves what it wrote.
LEMMA AbortSerial ==
    ASSUME IInv, SerialInv, NEW p \in Procs, Abort(p), Mine(p), IInv', Watched PROVE SerialInv'
<1>1. UNCHANGED kv /\ aborts' # 0 /\ pc'[p] = "idle"
  BY DEF Abort, Forget, Goto, storeVars, IInv, TypeOK
<1> SUFFICES ASSUME ~overlapped' PROVE Lone' /\ \A q \in Procs : Own(q)'
  BY <1>1 DEF SerialInv
<1>2. ~overlapped /\ Lone'
  BY StaysSerial
<1>3. \A k : (Present(k)' <=> Present(k)) /\ (Indexed(k)' <=> Indexed(k))
  BY <1>1 DEF Present, Indexed
<1>4. ASSUME NEW q \in Procs PROVE Own(q)'
  BY <1>1, <1>2, <1>3 DEF Mine, SerialInv, Own, Putting
<1> QED
  BY <1>2, <1>4

LEMMA StepSerial ==
    ASSUME IInv, SerialInv, [Next]_vars PROVE SerialInv'
<1>1. CASE UNCHANGED vars
  BY <1>1 DEF vars, locals, storeVars, SerialInv, Lone, Putting, Own, Swept, Writing, Indexed,
     IndexExact,
     CapsStored, Present
<1>2. ASSUME Next PROVE SerialInv'
  <2>1. PICK p \in Procs : Act(p)
    BY <1>2, SomeoneActs DEF Next
  <2>2. IInv' /\ Mine(p) /\ Watched
    BY <1>2, <2>1, ActStep DEF Next
  <2>3. CASE WriteCard(p) \/ DeleteEntry(p) \/ PutEntry(p)
    BY <2>2, <2>3, WriteCardSerial, DeleteEntrySerial, PutEntrySerial
  <2>4. CASE Abort(p)
    BY <2>2, <2>4, AbortSerial
  <2>5. CASE Return(p)
    BY <2>2, <2>5, SilentSerial DEF Return, Forget, Goto, Answered, storeVars, IInv, TypeOK
  <2>6. CASE ReceivePut(p) \/ ReceiveDiscover(p) \/ ReceiveList(p)
    BY <2>2, <2>6, SilentSerial DEF ReceivePut, ReceiveDiscover, ReceiveList, Receive, Goto,
       storeVars, IInv, TypeOK
  <2>7. CASE CheckWrite(p) \/ CheckRead(p) \/ GetPrevious(p) \/ WriteRefused(p)
    BY <2>2, <2>7, SilentSerial DEF CheckWrite, CheckRead, GetPrevious, WriteRefused, Goto,
       storeVars, IInv, TypeOK
  <2>8. CASE CheckDiscover(p) \/ ListEntries(p) \/ GetCard(p) \/ ListInstances(p) \/ ListCards(p)
    <3>1. UNCHANGED <<kv, aborts, req>> /\ pc[p] \notin {"unindex", "index"} /\ pc'[p] \notin {"unindex", "index"}
      BY <2>8 DEF CheckDiscover, ListEntries, GetCard, ListInstances, ListCards, Goto,
         storeVars, IInv, TypeOK
    <3>2. ~Putting(p)
      BY <2>8 DEF CheckDiscover, ListEntries, GetCard, ListInstances, ListCards, IInv, Stages,
         DiscoverStage,
         DiscoverStages, Discovering, IdleStage, Putting
    <3> QED
      BY <2>2, <3>1, <3>2, SilentSerial DEF Putting
  <2> QED
    BY <2>1, <2>3, <2>4, <2>5, <2>6, <2>7, <2>8 DEF Act
<1> QED
  BY <1>1, <1>2

\* What one put after the other keeps between the card and the index.
THEOREM SerialInvariant == Spec => [](IInv /\ SerialInv)
  BY Invariant, SerialInit, StepSerial, PTL DEF Spec

\* Without overlapping puts the index has the stored card's entries and no
\* others whenever no put is under way, as long as none died.
THEOREM SerialIndexExact == Spec => []SerialIndexIsExact
<1>1. IInv /\ SerialInv => SerialIndexIsExact
  BY DEF IInv, Stages, PutStage, PutStages, SerialInv, Writing, SerialIndexIsExact, IndexIsExact
<1> QED
  BY <1>1, SerialInvariant, PTL

\* And each acknowledged put left its card's entries, whatever died before it.
THEOREM AcknowledgedIndexed == Spec => []AcknowledgedIsIndexed
<1>1. SerialInv => AcknowledgedIsIndexed
  BY DEF SerialInv, Own, AcknowledgedIsIndexed, CapsStored
<1> QED
  BY <1>1, SerialInvariant, PTL
=============================================================================
