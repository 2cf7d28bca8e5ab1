---------------------------- MODULE AdminProofs ----------------------------
(***************************************************************************)
(* Proofs about Admin for any number of goroutines, servers and restarts.  *)
(***************************************************************************)
EXTENDS Admin, TLAPS

Before == {"create", "get", "cas", "check", "list", "status"} \cup ConfigActions
Stages == Before \cup {"idle", "number", "append", "answer"}

(***************************************************************************)
(* The inductive invariant: what a request has done and will answer,       *)
(* depending on how far it is.                                             *)
(***************************************************************************)
Shape ==
    /\ kv = [k \in Keys |-> kv[k]]
    /\ rev \in Nat
    /\ pc \in [Procs -> Stages]
    /\ req = [p \in Procs |-> req[p]]
    /\ done \in [Procs -> Nat]
    /\ err \in [Procs -> Codes \cup {"", "method"}]

\* Nothing is done, nothing is wrong.
Fresh(p) == done[p] = 0 /\ err[p] = ""

\* The action leads to the call it is at.
OnItsWay(p) ==
    /\ pc[p] \in {"create", "get", "cas", "check"} => req[p].action \in WriteActions
    /\ pc[p] = "check" => req[p].action \in ConfigActions
    /\ pc[p] \in {"list", "status"} => req[p].action \notin WriteActions

\* A change may be answered with success or as etcd's fault; a refusal is
\* answered before there is one.
Outcome(p) ==
    /\ err[p] = "" => done[p] > 0
    /\ done[p] > 0 => err[p] = "" \/ err[p] = "unavailable"

Accounted(p) ==
    /\ pc[p] # "idle" => req[p] \in Request
    /\ pc[p] # "idle" /\ Guarded(req[p]) /\ req[p].token = "" => err[p] = "unauthorized"
    /\ pc[p] \in Before => Fresh(p) /\ OnItsWay(p)
    /\ pc[p] = "idle" => Fresh(p)
    /\ pc[p] \in {"number", "append"} => done[p] > 0 /\ err[p] = ""
    /\ pc[p] = "answer" /\ req[p].action \in WriteActions => Outcome(p)
    /\ err[p] = "unauthorized" => pc[p] = "answer"

IInv == Shape /\ \A p \in Procs : Accounted(p)

-----------------------------------------------------------------------------

LEMMA NoneOrSome == ~(0 > 0) /\ \A d \in Nat : d = 0 \/ d > 0
  OBVIOUS

LEMMA InputIsRequest ==
    ASSUME NEW r \in Requests, NEW e \in Nat
    PROVE  LET i == Input([r EXCEPT !.expected = e])
           IN  /\ i \in Request
               /\ i.surface = r.surface /\ i.token = r.token /\ i.action = r.action
<1>1. r \in Request
  BY AdminAssumption
<1> DEFINE x == [r EXCEPT !.expected = e]
<1>2. x \in Request /\ x.surface = r.surface /\ x.token = r.token /\ x.action = r.action
  BY <1>1 DEF Request
<1>3. NoTarget \in Target /\ [valueType |-> "", value |-> ""] \in [valueType : Texts, value : Texts]
  <2>1. <<>> \in Seq(Texts)
    OBVIOUS
  <2> QED
    BY <2>1, AdminAssumption DEF NoTarget, Target
<1> DEFINE y == [x EXCEPT !.target = NoTarget, !.item = [valueType |-> "", value |-> ""], !.expected = 0]
<1>4. y \in Request /\ y.surface = r.surface /\ y.token = r.token /\ y.action = r.action
  BY <1>2, <1>3 DEF Request
<1> QED
  BY <1>2, <1>4 DEF Input

LEMMA InitIInv == Init => IInv
<1> SUFFICES ASSUME Init PROVE IInv
  OBVIOUS
<1>1. Shape
  <2>1. kv = [k \in Keys |-> kv[k]] /\ rev \in Nat
    BY DEF Init, StoreInit
  <2>2. pc \in [Procs -> Stages] /\ req = [p \in Procs |-> req[p]]
    BY DEF Init, Stages
  <2>3. done \in [Procs -> Nat] /\ err \in [Procs -> Codes \cup {"", "method"}]
    BY DEF Init
  <2> QED
    BY <2>1, <2>2, <2>3 DEF Shape
<1>2. \A p \in Procs : pc[p] = "idle" /\ Fresh(p)
  BY DEF Init, Fresh
<1>3. \A p \in Procs : Accounted(p)
  BY <1>2 DEF Accounted, Fresh, Before, ConfigActions
<1> QED
  BY <1>1, <1>3 DEF IInv

LEMMA EarlyError ==
    ASSUME NEW s, NEW r \in Request
    PROVE  /\ Early(s, r) \in Codes \cup {"", "method"}
           /\ Guarded(r) /\ r.token = "" => Early(s, r) = "unauthorized"
           /\ Early(s, r) = "unauthorized" => Guarded(r)
  BY DEF Early, Authorized, Codes, WriteError

LEMMA ReceiveStep ==
    ASSUME IInv, NEW p \in Procs, Receive(p)
    PROVE  IInv'
<1>1. PICK r \in Requests, e \in 0..rev :
         /\ req' = [req EXCEPT ![p] = Input([r EXCEPT !.expected = e])]
         /\ Checked(p, Early(ServerOf[p], req'[p]), FirstCall(req'[p]))
  BY DEF Receive
<1>2. req'[p] \in Request
  <2>1. rev \in Nat
    BY DEF IInv, Shape
  <2>2. req'[p] = Input([r EXCEPT !.expected = e])
    BY <1>1 DEF IInv, Shape
  <2>3. e \in Nat
    BY <2>1
  <2> QED
    BY <2>2, <2>3, InputIsRequest
<1> DEFINE i == req'[p]
<1>3. /\ FirstCall(i) \in Before \cup {"answer"}
      /\ FirstCall(i) \in {"create", "get", "cas", "check"} => i.action \in WriteActions
      /\ FirstCall(i) = "check" => i.action \in ConfigActions
      /\ FirstCall(i) \in {"list", "status"} => i.action \notin WriteActions
      /\ FirstCall(i) = "answer" => i.action \notin WriteActions
  BY <1>2 DEF FirstCall, Before, WriteActions, NamespaceActions, ConfigActions, Request, Actions
<1>4. /\ Early(ServerOf[p], i) \in Codes \cup {"", "method"}
      /\ Guarded(i) /\ i.token = "" => Early(ServerOf[p], i) = "unauthorized"
  BY <1>2, EarlyError
<1>5. pc[p] = "idle" /\ Fresh(p) /\ UNCHANGED <<kv, rev, done>>
  BY DEF Receive, storeVars, IInv, Accounted
<1>6. \A q \in Procs \ {p} : pc'[q] = pc[q] /\ req'[q] = req[q] /\ err'[q] = err[q]
  BY <1>1 DEF Checked, Fail, Goto, IInv, Shape
<1> HIDE DEF i
<1>7. CASE Early(ServerOf[p], i) = ""
  <2>1. pc' = [pc EXCEPT ![p] = FirstCall(i)] /\ err' = err
    BY <1>1, <1>7 DEF Checked, Goto, i
  <2>2. Shape'
    BY <1>1, <1>3, <1>5, <2>1 DEF IInv, Shape, Stages
  <2>3. Accounted(p)'
    BY <1>2, <1>3, <1>4, <1>5, <1>7, <2>1 DEF i, IInv, Shape, Accounted, Fresh, OnItsWay,
       Outcome,
       Before, ConfigActions
  <2> QED
    BY <1>5, <1>6, <2>2, <2>3 DEF IInv, Accounted, Fresh, OnItsWay, Outcome
<1>8. CASE Early(ServerOf[p], i) # ""
  <2>1. /\ pc' = [pc EXCEPT ![p] = "answer"]
        /\ err' = [err EXCEPT ![p] = Early(ServerOf[p], i)]
    BY <1>1, <1>8 DEF Checked, Fail, i
  <2>2. Shape'
    BY <1>1, <1>4, <1>5, <2>1 DEF IInv, Shape, Stages
  <2>3. Accounted(p)'
    <3>1. pc'[p] = "answer" /\ err'[p] = Early(ServerOf[p], i) /\ done'[p] = 0
      BY <1>5, <2>1 DEF IInv, Shape, Fresh
    <3>2. Guarded(req[p])' /\ req'[p].token = "" => err'[p] = "unauthorized"
      BY <1>4, <3>1 DEF i, Guarded
    <3>3. err'[p] # ""
      BY <1>8, <3>1
    <3>4. ~(done'[p] > 0)
      BY <3>1
    <3>5. Outcome(p)'
      BY <3>3, <3>4 DEF Outcome
    <3> QED
      BY <1>2, <3>1, <3>2, <3>5 DEF i, Accounted, Before, ConfigActions
  <2> QED
    BY <1>5, <1>6, <2>2, <2>3 DEF IInv, Accounted, Fresh, OnItsWay, Outcome
<1> QED
  BY <1>7, <1>8

-----------------------------------------------------------------------------
(* The other steps of a request: each takes one p further and leaves the   *)
(* rest alone.                                                             *)

\* A step of p that leaves its request as it is.
Moves(p, call, e, d) ==
    /\ pc' = [pc EXCEPT ![p] = call]
    /\ err' = [err EXCEPT ![p] = e]
    /\ done' = [done EXCEPT ![p] = d]
    /\ req' = req
    /\ kv' = [k \in Keys |-> kv'[k]] /\ rev' \in Nat

LEMMA MovesKeep ==
    ASSUME IInv, NEW p \in Procs, NEW call \in Stages, NEW e \in Codes \cup {"", "method"},
           NEW d \in Nat, Moves(p, call, e, d), Accounted(p)'
    PROVE  IInv'
<1>1. Shape'
  BY DEF Moves, IInv, Shape
<1>2. \A q \in Procs \ {p} :
         pc'[q] = pc[q] /\ req'[q] = req[q] /\ err'[q] = err[q] /\ done'[q] = done[q]
  BY DEF Moves, IInv, Shape
<1>3. \A q \in Procs \ {p} : Accounted(q)'
  BY <1>2 DEF IInv, Accounted, Fresh, OnItsWay, Outcome
<1> QED
  BY <1>1, <1>3 DEF IInv

\* On to the next call before the change.
LEMMA OnKeeps ==
    ASSUME IInv, NEW p \in Procs, pc[p] \in Before, NEW call \in Before,
           Moves(p, call, "", 0),
           call \in {"create", "get", "cas", "check"} => req[p].action \in WriteActions,
           call = "check" => req[p].action \in ConfigActions,
           call \in {"list", "status"} => req[p].action \notin WriteActions
    PROVE  IInv'
<1>1. /\ pc'[p] = call /\ err'[p] = "" /\ done'[p] = 0 /\ req'[p] = req[p]
  BY DEF Moves, IInv, Shape
<1>2. Accounted(p) /\ err[p] = "" /\ pc[p] # "idle"
  BY DEF IInv, Accounted, Fresh, Before, ConfigActions
<1>3. call \notin {"idle", "number", "append", "answer"}
  BY DEF Before, ConfigActions
<1>4. Accounted(p)'
  BY <1>1, <1>2, <1>3 DEF Accounted, Fresh, OnItsWay, Guarded
<1> QED
  BY <1>4, MovesKeep DEF Stages

\* To the answer, before the change: a write fails, anything may succeed.
LEMMA FailKeeps ==
    ASSUME IInv, NEW p \in Procs, pc[p] \in Before, NEW e \in Codes \cup {""},
           Moves(p, "answer", e, 0), e # "unauthorized",
           e = "" => req[p].action \notin WriteActions
    PROVE  IInv'
<1>1. /\ pc'[p] = "answer" /\ err'[p] = e /\ done'[p] = 0 /\ req'[p] = req[p]
  BY DEF Moves, IInv, Shape, Stages
<1>2. Accounted(p) /\ err[p] = "" /\ pc[p] # "idle"
  BY DEF IInv, Accounted, Fresh, Before, ConfigActions
<1>3. ~(done'[p] > 0)
  <2>1. done'[p] = 0
    BY <1>1
  <2> QED
    BY <2>1, NoneOrSome
<1>4. req[p].action \in WriteActions => Outcome(p)'
  BY <1>1, <1>3 DEF Outcome
<1>5. Accounted(p)'
  BY <1>1, <1>2, <1>4 DEF Accounted, Guarded, Before, ConfigActions
<1> QED
  BY <1>5, MovesKeep DEF Stages

\* After the change: the entry, or the answer that it was made.
LEMMA AfterKeeps ==
    ASSUME IInv, NEW p \in Procs, pc[p] # "idle", err[p] = "",
           NEW call \in {"number", "append", "answer"}, NEW d \in Nat, d > 0,
           Moves(p, call, "", d)
    PROVE  IInv'
<1>1. /\ pc'[p] = call /\ err'[p] = "" /\ done'[p] = d /\ req'[p] = req[p]
  BY DEF Moves, IInv, Shape, Stages
<1>2. Accounted(p)
  BY DEF IInv
<1>3. Outcome(p)'
  BY <1>1 DEF Outcome
<1>4. Accounted(p)'
  BY <1>1, <1>2, <1>3 DEF Accounted, Guarded, Before, ConfigActions
<1> QED
  BY <1>4, MovesKeep DEF Stages

\* After the change, etcd's answer is lost.
LEMMA LostKeeps ==
    ASSUME IInv, NEW p \in Procs, pc[p] \in Before, NEW d \in Nat, d > 0,
           Moves(p, "answer", "unavailable", d)
    PROVE  IInv'
<1>1. /\ pc'[p] = "answer" /\ err'[p] = "unavailable" /\ done'[p] = d /\ req'[p] = req[p]
  BY DEF Moves, IInv, Shape, Stages, Codes
<1>2. Accounted(p) /\ err[p] = "" /\ pc[p] # "idle"
  BY DEF IInv, Accounted, Fresh, Before, ConfigActions
<1>3. Outcome(p)'
  BY <1>1 DEF Outcome
<1>4. Accounted(p)'
  BY <1>1, <1>2, <1>3 DEF Accounted, Guarded, Before, ConfigActions
<1> QED
  BY <1>4, MovesKeep DEF Stages, Codes

LEMMA Committing ==
    ASSUME IInv, NEW p \in Procs, pc[p] \in Before, Committed(p), rev' = rev + 1,
           kv' = [k \in Keys |-> kv'[k]]
    PROVE  IInv'
<1>1. rev' \in Nat /\ rev' > 0 /\ err = [err EXCEPT ![p] = ""] /\ pc[p] # "idle" /\ err[p] = ""
  <2>1. rev' \in Nat /\ rev' > 0
    <3>1. rev \in Nat
      BY DEF IInv, Shape
    <3> QED
      BY <3>1
  <2>2. pc[p] # "idle" /\ err[p] = ""
    BY DEF IInv, Accounted, Fresh, Before, ConfigActions
  <2>3. err = [err EXCEPT ![p] = ""]
    BY <2>2 DEF IInv, Shape
  <2> QED
    BY <2>1, <2>2, <2>3
<1>2. done' = [done EXCEPT ![p] = rev'] /\ req' = req
  BY DEF Committed
<1>3. CASE Goto(p, IF req[p].surface = "grpc" THEN "answer" ELSE "number")
  <2>1. PICK call \in {"answer", "number"} : Moves(p, call, "", rev')
    BY <1>1, <1>2, <1>3 DEF Goto, Moves
  <2> QED
    BY <1>1, <2>1, AfterKeeps
<1>4. CASE Fail(p, LostAnswer(p))
  <2>1. LostAnswer(p) = "unavailable"
    BY DEF LostAnswer, OfEtcd
  <2> QED
    BY <1>1, <1>2, <1>4, <2>1, LostKeeps DEF Fail, Moves
<1> QED
  BY <1>3, <1>4 DEF Committed

\* A step before the change that leaves the store as it is.
LEMMA CheckedKeeps ==
    ASSUME IInv, NEW p \in Procs, pc[p] \in Before, NEW e \in Codes \cup {""}, NEW call \in Before,
           Checked(p, e, call), UNCHANGED <<kv, rev, req, done>>, e # "unauthorized",
           call \in {"create", "get", "cas", "check"} => req[p].action \in WriteActions,
           call = "check" => req[p].action \in ConfigActions,
           call \in {"list", "status"} => req[p].action \notin WriteActions
    PROVE  IInv'
<1>1. err = [err EXCEPT ![p] = ""] /\ done = [done EXCEPT ![p] = 0]
  BY DEF IInv, Shape, Accounted, Fresh
<1>2. CASE e = ""
  BY <1>1, <1>2, OnKeeps DEF Checked, Goto, Moves, IInv, Shape
<1>3. CASE e # ""
  <2>1. Moves(p, "answer", e, 0)
    BY <1>1, <1>3 DEF Checked, Fail, Moves, IInv, Shape
  <2> QED
    BY <1>3, <2>1, FailKeeps
<1> QED
  BY <1>2, <1>3

LEMMA FailedKeeps ==
    ASSUME IInv, NEW p \in Procs, pc[p] \in Before, NEW e \in Codes \ {"unauthorized"},
           Fail(p, e), UNCHANGED <<kv, rev, req, done>>
    PROVE  IInv'
<1>1. done = [done EXCEPT ![p] = 0]
  BY DEF IInv, Shape, Accounted, Fresh
<1>2. e # ""
  BY DEF Codes
<1> QED
  BY <1>1, <1>2, FailKeeps DEF Fail, Moves, IInv, Shape

\* A step after the change that leaves the change as it is.
LEMMA EntryKeeps ==
    ASSUME IInv, NEW p \in Procs, pc[p] \in {"number", "append"}, NEW call \in {"append", "answer"},
           Goto(p, call), UNCHANGED <<req, done>>, rev' \in Nat, kv' = [k \in Keys |-> kv'[k]]
    PROVE  IInv'
<1>1. done[p] \in Nat /\ done[p] > 0 /\ err[p] = ""
  BY DEF IInv, Shape, Accounted
<1>2. Moves(p, call, "", done[p])
  BY <1>1 DEF Goto, Moves, IInv, Shape
<1> QED
  BY <1>1, <1>2, AfterKeeps

-----------------------------------------------------------------------------

\* What the writes of the store do to its shape.
LEMMA WritesShape ==
    ASSUME NEW k, NEW v, NEW l, WriteKey(k, v, l)
    PROVE  rev' = rev + 1 /\ (kv = [j \in Keys |-> kv[j]] => kv' = [j \in Keys |-> kv'[j]])
  BY DEF WriteKey

LEMMA ErasesShape ==
    ASSUME NEW k, EraseKeys({k})
    PROVE  rev' = rev + 1 /\ kv' = [j \in Keys |-> kv'[j]]
  BY DEF EraseKeys

LEMMA StoreWrites ==
    ASSUME IInv, NEW p \in Procs,
           CreateNamespace(p) \/ UpdateAccessMode(p) \/ PutConfig(p) \/ DeleteConfig(p)
    PROVE  IInv'
<1>1. pc[p] \in Before /\ Committed(p)
  BY DEF CreateNamespace, UpdateAccessMode, PutConfig, DeleteConfig, Before, ConfigActions
<1>2. kv = [k \in Keys |-> kv[k]]
  BY DEF IInv, Shape
<1>3. CASE CreateNamespace(p)
  BY <1>1, <1>2, <1>3, WritesShape, Committing DEF CreateNamespace, Create
<1>4. CASE UpdateAccessMode(p)
  BY <1>1, <1>2, <1>4, WritesShape, Committing DEF UpdateAccessMode, CAS
<1>5. CASE PutConfig(p)
  BY <1>1, <1>2, <1>5, WritesShape, Committing DEF PutConfig, Create, CAS
<1>6. CASE DeleteConfig(p)
  BY <1>1, <1>6, ErasesShape, Committing DEF DeleteConfig, DeleteCAS
<1> QED
  BY <1>3, <1>4, <1>5, <1>6

LEMMA ReadsKeep ==
    ASSUME IInv, NEW p \in Procs, GetNamespace(p) \/ CheckWrite(p)
    PROVE  IInv'
<1>1. /\ pc[p] \in {"get", "check"} /\ pc[p] \in Before
      /\ UNCHANGED <<kv, rev, req, done>>
  BY DEF GetNamespace, CheckWrite, Before, storeVars, locals
<1>2. OnItsWay(p) /\ Accounted(p)
  BY <1>1 DEF IInv, Accounted
<1>3. CASE GetNamespace(p)
  <2>1. PICK e \in Codes \cup {""} : e # "unauthorized" /\ Checked(p, e, "cas")
    BY <1>3 DEF GetNamespace, Codes
  <2>2. "cas" \in Before /\ req[p].action \in WriteActions
    BY <1>2, <1>3 DEF GetNamespace, OnItsWay, Before
  <2> QED
    BY <1>1, <2>1, <2>2, CheckedKeeps
<1>4. CASE CheckWrite(p)
  <2>1. PICK e \in Codes \cup {""} : e # "unauthorized" /\ Checked(p, e, req[p].action)
    BY <1>4 DEF CheckWrite, WriteError, Codes
  <2>2. req[p].action \in ConfigActions
    BY <1>2, <1>4 DEF CheckWrite, OnItsWay
  <2>3. req[p].action \in Before /\ req[p].action \notin {"create", "get", "cas", "check", "list", "status"}
    BY <2>2 DEF Before, ConfigActions
  <2> QED
    BY <1>1, <2>1, <2>2, <2>3, CheckedKeeps
<1> QED
  BY <1>3, <1>4

\* A listing or a status: nothing was to be changed.
LEMMA AnsweredKeeps ==
    ASSUME IInv, NEW p \in Procs, pc[p] \in {"list", "status"}, Goto(p, "answer"),
           UNCHANGED <<kv, rev, req, done>>
    PROVE  IInv'
<1>1. pc[p] \in Before
  BY DEF Before
<1>2. req[p].action \notin WriteActions /\ Fresh(p)
  BY <1>1 DEF IInv, Accounted, OnItsWay
<1>3. err = [err EXCEPT ![p] = ""] /\ done = [done EXCEPT ![p] = 0]
  BY <1>2 DEF IInv, Shape, Fresh
<1>4. Moves(p, "answer", "", 0)
  BY <1>3 DEF Goto, Moves, IInv, Shape
<1> QED
  BY <1>1, <1>2, <1>4, FailKeeps

LEMMA ListStep ==
    ASSUME IInv, NEW p \in Procs, ListNamespaces(p) \/ ListConfig(p) \/ ListAudit(p) \/ CheckStatus(p)
    PROVE  IInv'
  BY AnsweredKeeps DEF ListNamespaces, ListConfig, ListAudit, List, CheckStatus, storeVars,
     locals

LEMMA StatusFailsStep ==
    ASSUME IInv, NEW p \in Procs, StatusFails(p)
    PROVE  IInv'
<1>1. pc[p] = "status" /\ pc[p] \in Before /\ UNCHANGED <<kv, rev, req, done>>
  BY DEF StatusFails, Before, storeVars, locals
<1>2. CASE Goto(p, "answer")
  BY <1>1, <1>2, AnsweredKeeps
<1>3. CASE Fail(p, "unavailable")
  BY <1>1, <1>3, FailedKeeps DEF Codes
<1> QED
  BY <1>2, <1>3 DEF StatusFails

LEMMA RefusedStep ==
    ASSUME IInv, NEW p \in Procs, Refused(p) \/ CallFails(p)
    PROVE  IInv'
<1>1. pc[p] \in Before /\ UNCHANGED <<kv, rev, req, done>>
  BY DEF Refused, CallFails, Before, ConfigActions, storeVars, locals
<1>2. PICK e \in Codes \ {"unauthorized"} : Fail(p, e)
  <2>1. OfEtcd("unreachable") = "unavailable"
    BY DEF OfEtcd
  <2> QED
    BY <2>1 DEF Refused, CallFails, Codes
<1> QED
  BY <1>1, <1>2, FailedKeeps

LEMMA EntryStep ==
    ASSUME IInv, NEW p \in Procs,
           TakeNumber(p) \/ AppendEntry(p) \/ AppendRefused(p) \/ AppendFails(p)
    PROVE  IInv'
<1>1. kv = [k \in Keys |-> kv[k]] /\ rev \in Nat
  BY DEF IInv, Shape
<1>2. CASE TakeNumber(p)
  BY <1>1, <1>2, EntryKeeps DEF TakeNumber, storeVars
<1>3. CASE AppendEntry(p)
  <2>1. rev' \in Nat /\ kv' = [k \in Keys |-> kv'[k]]
    BY <1>1, <1>3, WritesShape DEF AppendEntry, Create
  <2> QED
    BY <1>3, <2>1, EntryKeeps DEF AppendEntry, locals
<1>4. CASE AppendRefused(p) \/ AppendFails(p)
  BY <1>1, <1>4, EntryKeeps DEF AppendRefused, AppendFails, storeVars, locals
<1> QED
  BY <1>2, <1>3, <1>4

\* A request is over, or its server went down with it.
LEMMA ForgetKeeps ==
    ASSUME IInv, NEW P, Forget(P), UNCHANGED <<kv, rev>>
    PROVE  IInv'
<1>1. pc' \in [Procs -> Stages]
  BY DEF Forget, IInv, Shape, Stages
<1>2. req' = [p \in Procs |-> req'[p]] /\ done' \in [Procs -> Nat]
      /\ err' \in [Procs -> Codes \cup {"", "method"}]
  BY DEF Forget, IInv, Shape
<1>3. ASSUME NEW p \in Procs PROVE Accounted(p)'
  <2>1. CASE p \in P
    <3>1. pc'[p] = "idle" /\ done'[p] = 0 /\ err'[p] = ""
      BY <2>1 DEF Forget
    <3> QED
      BY <3>1 DEF Accounted, Fresh, Before, ConfigActions
  <2>2. CASE p \notin P
    <3>1. pc'[p] = pc[p] /\ req'[p] = req[p] /\ done'[p] = done[p] /\ err'[p] = err[p]
      BY <2>2 DEF Forget
    <3> QED
      BY <3>1 DEF IInv, Accounted, Fresh, OnItsWay, Outcome
  <2> QED
    BY <2>1, <2>2
<1> QED
  BY <1>1, <1>2, <1>3 DEF IInv, Shape

LEMMA StepKeepsIInv == IInv /\ [Next]_vars => IInv'
<1> SUFFICES ASSUME IInv, [Next]_vars PROVE IInv'
  OBVIOUS
<1>1. CASE UNCHANGED vars
  BY <1>1 DEF vars, storeVars, locals, IInv, Shape, Accounted, Fresh, OnItsWay, Outcome
<1>2. ASSUME NEW p \in Procs,
             \/ Receive(p) \/ CheckWrite(p)
             \/ ListNamespaces(p) \/ ListConfig(p) \/ ListAudit(p)
             \/ CheckStatus(p) \/ StatusFails(p)
             \/ CreateNamespace(p) \/ GetNamespace(p) \/ UpdateAccessMode(p)
             \/ PutConfig(p) \/ DeleteConfig(p)
             \/ Refused(p) \/ CallFails(p)
             \/ TakeNumber(p) \/ AppendEntry(p) \/ AppendRefused(p) \/ AppendFails(p)
             \/ Return(p)
      PROVE  IInv'
  <2>1. CASE Return(p)
    BY <2>1, ForgetKeeps DEF Return, storeVars
  <2> QED
    BY <1>2, <2>1, ReceiveStep, ReadsKeep, ListStep, StatusFailsStep, StoreWrites, RefusedStep,
       EntryStep
<1>3. ASSUME NEW s \in Servers, Crash(s) PROVE IInv'
  BY <1>3, ForgetKeeps DEF Crash, storeVars
<1>4. ASSUME NEW s \in Servers, Start(s) PROVE IInv'
  BY <1>4 DEF Start, storeVars, locals, IInv, Shape, Accounted, Fresh, OnItsWay, Outcome
<1> QED
  BY <1>1, <1>2, <1>3, <1>4 DEF Next

\* How far a request is tells what it has done and what it may answer.
THEOREM Invariant == Spec => []IInv
<1> QED
  BY InitIInv, StepKeepsIInv, PTL DEF Spec

\* For any settings, requests and restarts: no token, no administrator's route.
THEOREM NoTokenNoAccess == Spec => []TokenNeeded
<1>1. IInv => TokenNeeded
  BY DEF IInv, Accounted, TokenNeeded, Guarded
<1> QED
  BY <1>1, Invariant, PTL

-----------------------------------------------------------------------------
(* The answers.                                                            *)

LEMMA StatusRange ==
    ASSUME NEW e \in Codes
    PROVE  /\ HTTPStatusOf(e) \in 400..599
           /\ e = "unavailable" => HTTPStatusOf(e) = 503 /\ GRPCStatusOf(e) = "Unavailable"
           /\ GRPCStatusOf(e) # "OK"
<1>1. e # "" /\ CodeOf(e) = e
  BY DEF CodeOf, Codes
<1>2. HTTPStatusOf(e) = HTTPStatus[e] /\ GRPCStatusOf(e) = GRPCCode[e]
  BY <1>1 DEF HTTPStatusOf, GRPCStatusOf
<1>3. HTTPStatus[e] \in 400..599 /\ (e = "unavailable" => HTTPStatus[e] = 503)
  BY DEF HTTPStatus, Codes
<1>4. GRPCCode[e] # "OK" /\ (e = "unavailable" => GRPCCode[e] = "Unavailable")
  BY DEF GRPCCode, Codes
<1> QED
  BY <1>2, <1>3, <1>4

\* A success was carried out and what is blamed on the request was not, over
\* either protocol and whichever calls etcd fails.
THEOREM AnswersAsDone == Spec => []AnsweredAsDone
<1>1. ASSUME IInv, NEW p \in Procs, pc[p] = "answer", req[p].action \in WriteActions,
             req[p].surface \in {"admin", "grpc"}
      PROVE  /\ req[p].surface = "admin" => /\ Status(p) \in 200..299 => done[p] > 0
                                            /\ Status(p) \in 400..499 => done[p] = 0
             /\ GRPCStatusOf(err[p]) = "OK" => done[p] > 0
             /\ GRPCStatusOf(err[p]) \notin {"OK", "Unavailable", "Internal"} => done[p] = 0
  <2>1. Outcome(p) /\ done[p] \in Nat /\ err[p] \in Codes \cup {"", "method"}
    BY <1>1 DEF IInv, Shape, Accounted
  <2>2. CASE err[p] = ""
    <3>1. done[p] > 0 /\ GRPCStatusOf(err[p]) = "OK"
      BY <2>1, <2>2 DEF Outcome, GRPCStatusOf
    <3>2. Status(p) \in {200, 201}
      BY <2>2 DEF Status, Success
    <3> QED
      BY <3>1, <3>2
  <2>3. CASE err[p] = "method"
    <3>1. done[p] = 0
      BY <2>1, <2>3 DEF Outcome
    <3>2. Status(p) = 405 /\ GRPCStatusOf(err[p]) = "Internal"
      BY <2>3 DEF Status, GRPCStatusOf, GRPCCode, CodeOf, Codes
    <3> QED
      BY <3>1, <3>2
  <2>4. CASE err[p] \in Codes
    <3>1. err[p] # "" /\ err[p] # "method"
      BY <2>4 DEF Codes
    <3>2. req[p].surface = "admin" => Status(p) = HTTPStatusOf(err[p])
      BY <3>1 DEF Status
    <3>3. done[p] = 0 \/ err[p] = "unavailable"
      <4>1. done[p] = 0 \/ done[p] > 0
        BY <2>1, NoneOrSome
      <4> QED
        BY <2>1, <3>1, <4>1 DEF Outcome
    <3> QED
      BY <2>4, <3>2, <3>3, StatusRange
  <2> QED
    BY <2>1, <2>2, <2>3, <2>4
<1>2. IInv => AnsweredAsDone
  BY <1>1 DEF AnsweredAsDone, Answered
<1> QED
  BY <1>2, Invariant, PTL

-----------------------------------------------------------------------------
(* The audit log.                                                          *)

Pieces == Texts \cup {"/", "config", "global", "namespaces", "services", "audit", "default"}

\* What a key begins with stays in front of what follows.
LEMMA Leads ==
    ASSUME NEW t \in Seq(Pieces), NEW h \in Seq(Pieces), h # <<>>
    PROVE  h \o t \in Seq(Pieces) /\ h \o t # <<>> /\ (h \o t)[1] = h[1]
  OBVIOUS

\* What kind of resource a key is for shows in its first piece.
LEMMA FirstPieces ==
    ASSUME NEW t \in Target, NEW n \in Seq(Texts), NEW i
    PROVE  KeyOf(t)[1] = "config" /\ NamespaceKey(n)[1] = "namespaces" /\ AuditKey(<<i>>)[1] = "audit"
<1>1. /\ t.namespace \in Seq(Pieces) /\ t.service \in Seq(Pieces) /\ t.name \in Seq(Pieces)
      /\ n \in Seq(Pieces)
  <2>1. Texts \subseteq Pieces
    BY DEF Pieces
  <2>2. t.namespace \in Seq(Texts) /\ t.service \in Seq(Texts) /\ t.name \in Seq(Texts)
    BY DEF Target
  <2> QED
    BY <2>1, <2>2
<1>2. AuditKey(<<i>>)[1] = "audit"
  BY DEF AuditKey
<1>3. NamespaceKey(n)[1] = "namespaces"
  <2>1. <<"namespaces", "/">> \in Seq(Pieces) /\ <<"namespaces", "/">> # <<>>
    BY DEF Pieces
  <2>2. <<"namespaces", "/">>[1] = "namespaces"
    OBVIOUS
  <2> QED
    BY <1>1, <2>1, <2>2, Leads DEF NamespaceKey
<1>4. KeyOf(t)[1] = "config"
  <2> DEFINE g == <<"config", "/", "global", "/">>
             m == <<"config", "/", "namespaces", "/">>
             s == <<"config", "/", "services", "/">>
  <2>1. /\ g \in Seq(Pieces) /\ g # <<>> /\ g[1] = "config"
        /\ m \in Seq(Pieces) /\ m # <<>> /\ m[1] = "config"
        /\ s \in Seq(Pieces) /\ s # <<>> /\ s[1] = "config"
    BY DEF Pieces
  <2>2. Slash \in Seq(Pieces)
    BY DEF Slash, Pieces
  <2>3. \/ KeyOf(t) = g \o t.name
        \/ KeyOf(t) = m \o t.namespace \o Slash \o t.name
        \/ KeyOf(t) = s \o t.namespace \o Slash \o t.service \o Slash \o t.name
    BY DEF KeyOf, ConfigKey
  <2> HIDE DEF g, m, s
  <2>4. (g \o t.name)[1] = "config"
    BY <1>1, <2>1, Leads
  <2>5. (m \o t.namespace \o Slash \o t.name)[1] = "config"
    <3>1. /\ m \o t.namespace \in Seq(Pieces) /\ m \o t.namespace # <<>>
          /\ (m \o t.namespace)[1] = "config"
      BY <1>1, <2>1, Leads
    <3>2. /\ m \o t.namespace \o Slash \in Seq(Pieces) /\ m \o t.namespace \o Slash # <<>>
          /\ (m \o t.namespace \o Slash)[1] = "config"
      BY <2>2, <3>1, Leads
    <3> QED
      BY <1>1, <3>2, Leads
  <2>6. (s \o t.namespace \o Slash \o t.service \o Slash \o t.name)[1] = "config"
    <3> DEFINE a == s \o t.namespace
               b == a \o Slash
               c == b \o t.service
               d == c \o Slash
    <3>1. a \in Seq(Pieces) /\ a # <<>> /\ a[1] = "config"
      BY <1>1, <2>1, Leads
    <3> HIDE DEF a
    <3>2. b \in Seq(Pieces) /\ b # <<>> /\ b[1] = "config"
      BY <2>2, <3>1, Leads
    <3> HIDE DEF b
    <3>3. c \in Seq(Pieces) /\ c # <<>> /\ c[1] = "config"
      BY <1>1, <3>2, Leads
    <3> HIDE DEF c
    <3>4. d \in Seq(Pieces) /\ d # <<>> /\ d[1] = "config"
      BY <2>2, <3>3, Leads
    <3> HIDE DEF d
    <3>5. (d \o t.name)[1] = "config"
      BY <1>1, <3>4, Leads
    <3> QED
      BY <3>5 DEF a, b, c, d
  <2> QED
    BY <2>3, <2>4, <2>5, <2>6
<1> QED
  BY <1>2, <1>3, <1>4

\* No namespace and no config item is kept among the audit entries, and no
\* config item among the namespaces.
LEMMA KeysApart ==
    ASSUME NEW t \in Target, NEW n \in Seq(Texts), NEW i
    PROVE  /\ KeyOf(t) # AuditKey(<<i>>) /\ KeyOf(t) # NamespaceKey(n)
           /\ NamespaceKey(n) # AuditKey(<<i>>)
  BY FirstPieces

LEMMA OneWritten ==
    ASSUME IInv, NEW key, NEW k \in Keys, k # key,
           (\E v, l : WriteKey(key, v, l)) \/ EraseKeys({key})
    PROVE  kv'[k] = kv[k]
  BY DEF WriteKey, EraseKeys, IInv, Shape

\* A change of a namespace or an item leaves the audit log alone.
LEMMA ChangesElsewhere ==
    ASSUME IInv, NEW n, AuditKey(<<n>>) \in Keys, NEW p \in Procs,
           CreateNamespace(p) \/ UpdateAccessMode(p) \/ PutConfig(p) \/ DeleteConfig(p)
    PROVE  kv'[AuditKey(<<n>>)] = kv[AuditKey(<<n>>)]
<1> DEFINE k == AuditKey(<<n>>)
<1>1. pc[p] # "idle"
  BY DEF CreateNamespace, UpdateAccessMode, PutConfig, DeleteConfig
<1>2. req[p].target \in Target /\ req[p].target.namespace \in Seq(Texts)
  BY <1>1 DEF IInv, Accounted, Request, Target
<1>3. k # NamespaceOf(p) /\ k # KeyOf(req[p].target)
  BY <1>2, KeysApart DEF NamespaceOf
<1> HIDE DEF k
<1>4. CASE CreateNamespace(p) \/ UpdateAccessMode(p)
  BY <1>3, <1>4, OneWritten DEF k, CreateNamespace, UpdateAccessMode, Create, CAS
<1>5. CASE PutConfig(p)
  BY <1>3, <1>5, OneWritten DEF k, PutConfig, Create, CAS
<1>6. CASE DeleteConfig(p)
  BY <1>3, <1>6, OneWritten DEF k, DeleteConfig, DeleteCAS
<1> QED
  BY <1>4, <1>5, <1>6 DEF k

LEMMA WhoWrites ==
    ASSUME [Next]_vars
    PROVE  \/ kv' = kv
           \/ \E p \in Procs : \/ CreateNamespace(p) \/ UpdateAccessMode(p)
                               \/ PutConfig(p) \/ DeleteConfig(p) \/ AppendEntry(p)
  BY DEF Next, Receive, CheckWrite, ListNamespaces, ListConfig, ListAudit, List, CheckStatus,
     StatusFails, GetNamespace, Refused, CallFails, TakeNumber, AppendRefused, AppendFails,
     Return, Crash, Start, vars, storeVars

LEMMA LogKept ==
    ASSUME IInv, [Next]_vars, NEW k \in AuditKeys, Present(k)
    PROVE  kv'[k] = kv[k]
<1>1. k \in Keys /\ \E n : k = AuditKey(<<n>>)
  BY AdminAssumption DEF AuditKeys
<1>2. ASSUME NEW p \in Procs, AppendEntry(p)
      PROVE  kv'[k] = kv[k]
  <2>1. ~Present(AuditKey(<<id[p]>>)) /\ WriteKey(AuditKey(<<id[p]>>), Entry(p), NoLease)
    BY <1>2 DEF AppendEntry, Create
  <2>2. k # AuditKey(<<id[p]>>)
    BY <2>1
  <2> QED
    BY <1>1, <2>1, <2>2, OneWritten
<1> QED
  BY <1>1, <1>2, ChangesElsewhere, WhoWrites

\* Whatever the requests, the servers and their restarts do with the ids, an
\* audit entry that is written stays as it is.
THEOREM LogOnlyGrows == Spec => AuditAppendOnly
<1>1. IInv /\ [Next]_vars => [\A k \in AuditKeys : Present(k) => kv'[k] = kv[k]]_vars
  BY LogKept
<1> QED
  BY <1>1, Invariant, PTL DEF Spec, AuditAppendOnly

-----------------------------------------------------------------------------
(* What is stored, and what a request has in hand when it writes.          *)

Resources == {Resource(r) : r \in Requests}

\* What a goroutine checked on its way to the call it is at.
Ready(p) ==
    /\ pc[p] # "idle" /\ req[p].surface # "grpc" => Resource(req[p]) \in Resources
    /\ pc[p] \in {"create", "get", "cas"} => ValidNamespaceName(req[p].target.namespace)
    /\ pc[p] = "cas" => current[p] \in Namespace /\ req[p].mode \in AccessModes
    /\ pc[p] \in ConfigActions => req[p].action = pc[p]
    /\ pc[p] = "put_config" => ValidItem(req[p].target, req[p].item)
    /\ pc[p] \in {"number", "append"} => req[p].action \in WriteActions /\ req[p].surface # "grpc"
    /\ pc[p] = "append" => id[p] \in 1..MaxId
    /\ pc[p] = "list" /\ req[p].action = "list_config" => ScopeShown(req[p]) \in Scopes

ProperItem(k, item) ==
    /\ item.target \in Target
    /\ ValidItem(item.target, item.item)
    /\ KeyOf(item.target) = k

Stored ==
    /\ \A k \in NamespaceKeys : Present(k) => kv[k].value \in Namespace
    /\ \A k \in AuditKeys : Present(k) => kv[k].value \in AuditEntry
    /\ \A k \in ConfigItemKeys : Present(k) => ProperItem(k, kv[k].value)

Typed ==
    /\ settings = [s \in Servers |-> settings[s]]
    /\ \A s \in Servers : settings[s] = NoSettings \/ Serves(settings[s])
    /\ counter \in [Servers -> 0..MaxId] /\ restarts \in Nat /\ faults \in Nat
    /\ req \in [Procs -> Request \cup {NoRequest}]
    /\ current \in [Procs -> Namespace \cup {NoNamespace}]
    /\ id \in [Procs -> 0..MaxId]

TInv == IInv /\ Stored /\ Typed /\ \A p \in Procs : Ready(p)

LEMMA InitTInv == Init => TInv
<1> SUFFICES ASSUME Init PROVE TInv
  OBVIOUS
<1>1. IInv
  BY InitIInv
<1>2. Stored
  <2>1. ASSUME NEW k \in Keys PROVE ~Present(k)
    <3>1. kv[k].mod = 0
      BY DEF Init, StoreInit, Missing, Record
    <3> QED
      BY <3>1, NoneOrSome DEF Present
  <2>2. AuditKeys \subseteq Keys /\ NamespaceKeys \subseteq Keys /\ ConfigItemKeys \subseteq Keys
    BY AdminAssumption DEF ConfigItemKeys
  <2> QED
    BY <2>1, <2>2 DEF Stored
<1>3. Typed
  <2>1. MaxId \in Nat /\ 0 \in 0..MaxId
    <3>1. MaxId \in Nat
      BY AdminAssumption
    <3> QED
      BY <3>1
  <2>2. /\ settings = [s \in Servers |-> settings[s]]
        /\ \A s \in Servers : settings[s] = NoSettings \/ Serves(settings[s])
    <3>1. ServersInit
      BY DEF Init
    <3> QED
      BY <3>1 DEF ServersInit
  <2>3. /\ counter = [s \in Servers |-> 0] /\ restarts = 0 /\ faults = 0
        /\ req = [p \in Procs |-> NoRequest] /\ current = [p \in Procs |-> NoNamespace]
        /\ id = [p \in Procs |-> 0]
    BY DEF Init, ServersInit
  <2> QED
    BY <2>1, <2>2, <2>3 DEF Typed
<1>4. \A p \in Procs : Ready(p)
  BY DEF Init, Ready, ConfigActions
<1> QED
  BY <1>1, <1>2, <1>3, <1>4 DEF TInv

\* A step of p changes what p has in hand and nobody else's.
LEMMA OthersReady ==
    ASSUME TInv, NEW p \in Procs, Ready(p)',
           \A q \in Procs \ {p} : pc'[q] = pc[q] /\ req'[q] = req[q]
                                  /\ current'[q] = current[q] /\ id'[q] = id[q]
    PROVE  \A q \in Procs : Ready(q)'
<1>1. ASSUME NEW q \in Procs \ {p} PROVE Ready(q)'
  <2>1. Ready(q) /\ pc'[q] = pc[q] /\ req'[q] = req[q] /\ current'[q] = current[q] /\ id'[q] = id[q]
    BY DEF TInv
  <2> QED
    BY <2>1 DEF Ready
<1> QED
  BY <1>1

LEMMA OneStored ==
    ASSUME TInv, NEW key, NEW v, NEW l, WriteKey(key, v, l),
           key \in NamespaceKeys => v \in Namespace,
           key \in AuditKeys => v \in AuditEntry,
           key \in ConfigItemKeys => ProperItem(key, v)
    PROVE  Stored'
<1>1. \A k \in Keys : k # key => kv'[k] = kv[k]
  BY OneWritten DEF TInv
<1>2. key \in Keys => kv'[key].value = v
  BY DEF TInv, IInv, Shape, WriteKey, Record
<1>3. AuditKeys \subseteq Keys /\ NamespaceKeys \subseteq Keys /\ ConfigItemKeys \subseteq Keys
  BY AdminAssumption DEF ConfigItemKeys
<1>4. Stored
  BY DEF TInv
<1> QED
  BY <1>1, <1>2, <1>3, <1>4 DEF Stored, Present

LEMMA ErasedStored ==
    ASSUME TInv, NEW key, EraseKeys({key})
    PROVE  Stored'
<1>1. \A k \in Keys : k # key => kv'[k] = kv[k]
  BY OneWritten DEF TInv
<1>2. key \in Keys => ~Present(key)'
  BY DEF EraseKeys, Present, Missing, Record
<1>3. AuditKeys \subseteq Keys /\ NamespaceKeys \subseteq Keys /\ ConfigItemKeys \subseteq Keys
  BY AdminAssumption DEF ConfigItemKeys
<1>4. Stored
  BY DEF TInv
<1> QED
  BY <1>1, <1>2, <1>3, <1>4 DEF Stored, Present

LEMMA SameStored == TInv /\ kv' = kv => Stored'
  BY DEF TInv, Stored, Present

LEMMA ReceiveReady ==
    ASSUME TInv, NEW p \in Procs, Receive(p)
    PROVE  TInv'
<1>1. PICK r \in Requests, e \in 0..rev :
         /\ req' = [req EXCEPT ![p] = Input([r EXCEPT !.expected = e])]
         /\ Checked(p, Early(ServerOf[p], req'[p]), FirstCall(req'[p]))
  BY DEF Receive
<1> DEFINE i == req'[p]
<1>2. /\ i \in Request /\ (i.surface # "grpc" => Resource(i) \in Resources)
      /\ i.action = "list_config" => i.surface \in {"admin", "console"}
  <2>1. req'[p] = Input([r EXCEPT !.expected = e]) /\ rev \in Nat
    BY <1>1 DEF TInv, IInv, Shape
  <2>2. e \in Nat /\ r \in Request
    <3>1. e \in Nat
      BY <2>1
    <3> QED
      BY <3>1, AdminAssumption
  <2>3. i \in Request /\ i.surface = r.surface /\ i.action = r.action
    BY <2>1, <2>2, InputIsRequest
  <2>4. r.surface # "grpc" => Input([r EXCEPT !.expected = e]) = [r EXCEPT !.expected = e]
    BY <2>2 DEF Input, Request
  <2>5. Resource([r EXCEPT !.expected = e]) = Resource(r)
    BY <2>2 DEF Resource, Request
  <2>6. i.action = "list_config" => i.surface \in {"admin", "console"}
    BY <2>3, AdminAssumption
  <2> QED
    BY <2>1, <2>3, <2>4, <2>5, <2>6 DEF Resources
<1>3. /\ Early(ServerOf[p], i) = "" /\ i.action \in NamespaceActions => ValidNamespaceName(i.target.namespace)
      /\ Early(ServerOf[p], i) = "" /\ i.action = "put_config" /\ i.target.scope = "global"
            => ValidItem(i.target, i.item)
      /\ Early(ServerOf[p], i) = "" /\ i.action = "list_config" => ScopeShown(i) \in Scopes
  <2>1. i.action = "list_config" => i.surface \in {"admin", "console"}
    BY <1>2
  <2> QED
    BY <2>1 DEF Early, WriteError, NamespaceActions, ConfigActions, ScopeShown, Scopes
<1>4. /\ FirstCall(i) \in {"create", "get"} => i.action \in NamespaceActions
      /\ FirstCall(i) \in ConfigActions => FirstCall(i) = i.action /\ i.target.scope = "global"
      /\ FirstCall(i) \notin {"cas", "number", "append"}
  BY <1>2 DEF FirstCall, NamespaceActions, ConfigActions, Request, Actions
<1>5. UNCHANGED <<kv, settings, counter, restarts, faults, current, id>>
  BY DEF Receive, storeVars, servers
<1>6. /\ pc' = [pc EXCEPT ![p] = IF Early(ServerOf[p], i) = "" THEN FirstCall(i) ELSE "answer"]
      /\ req' = [req EXCEPT ![p] = i]
  BY <1>1 DEF Checked, Fail, Goto, TInv, IInv, Shape
<1> HIDE DEF i
<1>7. Ready(p)'
  <2>1. pc'[p] = (IF Early(ServerOf[p], i) = "" THEN FirstCall(i) ELSE "answer") /\ req'[p] = i
    BY <1>6 DEF TInv, IInv, Shape
  <2>2. CASE Early(ServerOf[p], i) = ""
    BY <1>2, <1>3, <1>4, <2>1, <2>2 DEF Ready, ConfigActions
  <2>3. CASE Early(ServerOf[p], i) # ""
    BY <1>2, <2>1, <2>3 DEF Ready, ConfigActions
  <2> QED
    BY <2>2, <2>3
<1>8. \A q \in Procs \ {p} : pc'[q] = pc[q] /\ req'[q] = req[q] /\ current'[q] = current[q] /\ id'[q] = id[q]
  BY <1>5, <1>6 DEF TInv, IInv, Shape
<1>9. Typed'
  BY <1>2, <1>5, <1>6 DEF TInv, Typed
<1>10. IInv'
  BY ReceiveStep DEF TInv
<1> QED
  BY <1>5, <1>7, <1>8, <1>9, <1>10, OthersReady, SameStored DEF TInv

\* A step of p that leaves its request, its server and the store as they are.
LEMMA StepReady ==
    ASSUME TInv, NEW p \in Procs, UNCHANGED <<kv, servers, req, id>>, faults' \in Nat,
           NEW call, pc' = [pc EXCEPT ![p] = call],
           NEW c \in Namespace \cup {NoNamespace}, current' = [current EXCEPT ![p] = c],
           IInv', Ready(p)'
    PROVE  TInv'
<1>1. \A q \in Procs \ {p} : pc'[q] = pc[q] /\ req'[q] = req[q] /\ current'[q] = current[q] /\ id'[q] = id[q]
  BY DEF TInv, Typed, IInv, Shape
<1>2. Typed'
  BY DEF TInv, Typed, servers
<1> QED
  BY <1>1, <1>2, OthersReady, SameStored DEF TInv

LEMMA EndsReady ==
    ASSUME TInv, NEW p \in Procs, pc[p] # "idle", req'[p] = req[p], pc'[p] = "answer"
    PROVE  Ready(p)'
  BY DEF TInv, Ready, ConfigActions

LEMMA NamespaceOfKey ==
    ASSUME TInv, NEW p \in Procs, pc[p] \in {"create", "get", "cas"}
    PROVE  /\ NamespaceOf(p) \in NamespaceKeys /\ NamespaceOf(p) \in Keys
           /\ NamespaceOf(p) \notin AuditKeys /\ NamespaceOf(p) \notin ConfigItemKeys
<1>1. ValidNamespaceName(req[p].target.namespace) /\ req[p] \in Request
  BY DEF TInv, Ready, IInv, Accounted
<1>2. req[p].target \in Target /\ req[p].target.namespace \in Seq(Texts)
  BY <1>1 DEF Request, Target
<1>3. NamespaceOf(p) \in NamespaceKeys
  BY <1>1 DEF NamespaceOf, NamespaceKeys, ValidNamespaceName
<1>4. NamespaceOf(p) \notin AuditKeys
  BY <1>2, KeysApart DEF NamespaceOf, AuditKeys
<1> QED
  BY <1>3, <1>4, AdminAssumption DEF ConfigItemKeys

LEMMA ItemKeyOf ==
    ASSUME NEW t \in Target
    PROVE  KeyOf(t) \notin AuditKeys /\ KeyOf(t) \notin NamespaceKeys
<1>1. KeyOf(t) \notin AuditKeys
  <2>1. <<>> \in Seq(Texts)
    OBVIOUS
  <2> QED
    BY <2>1, KeysApart DEF AuditKeys
<1>2. \A n \in NamespaceNames : n \in Seq(Texts)
  BY AdminAssumption
<1>3. KeyOf(t) \notin NamespaceKeys
  BY <1>2, KeysApart DEF NamespaceKeys
<1> QED
  BY <1>1, <1>3

LEMMA EntryKeyOf ==
    ASSUME NEW n \in 1..MaxId
    PROVE  /\ AuditKey(<<n>>) \in AuditKeys /\ AuditKey(<<n>>) \in Keys
           /\ AuditKey(<<n>>) \notin NamespaceKeys /\ AuditKey(<<n>>) \notin ConfigItemKeys
<1>1. AuditKey(<<n>>) \in AuditKeys
  BY DEF AuditKeys
<1>2. \A m \in NamespaceNames : NamespaceKey(m) # AuditKey(<<n>>)
  <2>1. NoTarget \in Target
    <3>1. <<>> \in Seq(Texts)
      OBVIOUS
    <3> QED
      BY <3>1, AdminAssumption DEF NoTarget, Target
  <2> QED
    BY <2>1, KeysApart, AdminAssumption
<1> QED
  BY <1>1, <1>2, AdminAssumption DEF ConfigItemKeys, NamespaceKeys

LEMMA ReadsReady ==
    ASSUME TInv, NEW p \in Procs,
           \/ GetNamespace(p) \/ CheckWrite(p) \/ ListNamespaces(p) \/ ListConfig(p) \/ ListAudit(p)
           \/ CheckStatus(p) \/ StatusFails(p) \/ Refused(p) \/ CallFails(p)
           \/ AppendRefused(p) \/ AppendFails(p)
    PROVE  TInv'
<1>1. IInv'
  BY ReadsKeep, ListStep, StatusFailsStep, RefusedStep, EntryStep DEF TInv
<1>2. UNCHANGED <<kv, servers, req, id>> /\ faults' \in Nat /\ pc[p] # "idle"
  <2>1. faults \in Nat
    BY DEF TInv, Typed
  <2>2. CASE GetNamespace(p) \/ CheckWrite(p)
    BY <2>1, <2>2 DEF GetNamespace, CheckWrite, storeVars, locals
  <2>3. CASE ListNamespaces(p) \/ ListConfig(p) \/ ListAudit(p) \/ CheckStatus(p) \/ StatusFails(p)
    BY <2>1, <2>3 DEF ListNamespaces, ListConfig, ListAudit, List, CheckStatus, StatusFails,
       storeVars, locals
  <2>4. CASE Refused(p) \/ CallFails(p)
    BY <2>1, <2>4 DEF Refused, CallFails, storeVars, locals, ConfigActions
  <2>5. CASE AppendRefused(p) \/ AppendFails(p)
    BY <2>1, <2>5 DEF AppendRefused, AppendFails, storeVars, locals
  <2> QED
    BY <2>2, <2>3, <2>4, <2>5
<1>3. pc \in [Procs -> Stages] /\ req[p] \in Request /\ Ready(p)
  BY <1>2 DEF TInv, IInv, Shape, Accounted
<1>4. current = [current EXCEPT ![p] = current[p]] /\ current[p] \in Namespace \cup {NoNamespace}
  BY DEF TInv, Typed
<1>5. CASE pc' = [pc EXCEPT ![p] = "answer"] /\ current' = current
  BY <1>1, <1>2, <1>3, <1>4, <1>5, EndsReady, StepReady
<1>6. CASE GetNamespace(p)
  <2>1. kv[NamespaceOf(p)].value \in Namespace
    BY <1>6, NamespaceOfKey DEF GetNamespace, TInv, Stored
  <2> DEFINE c == kv[NamespaceOf(p)].value
  <2>2. current' = [current EXCEPT ![p] = c] /\ current'[p] = c
    BY <1>6 DEF GetNamespace, TInv, Typed
  <2>3. CASE pc' = [pc EXCEPT ![p] = "answer"]
    <3>1. Ready(p)'
      BY <1>2, <1>3, <2>3, EndsReady
    <3> QED
      BY <1>1, <1>2, <2>1, <2>2, <2>3, <3>1, StepReady
  <2>4. CASE pc' = [pc EXCEPT ![p] = "cas"] /\ req[p].mode \in AccessModes
    <3>1. pc'[p] = "cas" /\ req'[p] = req[p] /\ pc[p] = "get"
      BY <1>2, <1>3, <1>6, <2>4 DEF GetNamespace
    <3>2. Ready(p)'
      BY <1>3, <2>1, <2>2, <2>4, <3>1 DEF Ready, ConfigActions
    <3> QED
      BY <1>1, <1>2, <2>1, <2>2, <2>4, <3>2, StepReady
  <2> QED
    BY <1>6, <2>3, <2>4 DEF GetNamespace, Checked, Fail, Goto
<1>7. CASE CheckWrite(p) /\ pc' # [pc EXCEPT ![p] = "answer"]
  <2>1. /\ pc' = [pc EXCEPT ![p] = req[p].action] /\ WriteError(req[p]) = ""
        /\ current' = current /\ pc[p] = "check"
    BY <1>7 DEF CheckWrite, Checked, Fail, Goto, locals
  <2>2. req[p].action \in ConfigActions
    BY <2>1 DEF TInv, IInv, Accounted, OnItsWay, Before
  <2>3. pc'[p] = req[p].action /\ req'[p] = req[p]
    BY <1>2, <1>3, <2>1
  <2>4. req[p].action = "put_config" => ValidItem(req[p].target, req[p].item)
    BY <2>1 DEF WriteError
  <2>5. Ready(p)'
    BY <1>2, <1>3, <2>2, <2>3, <2>4 DEF Ready, ConfigActions
  <2> QED
    BY <1>1, <1>2, <1>4, <2>1, <2>5, StepReady
<1> QED
  BY <1>5, <1>6, <1>7 DEF CheckWrite, ListNamespaces, ListConfig, ListAudit, List, CheckStatus,
     StatusFails, Refused, CallFails, AppendRefused, AppendFails, Fail, Goto, locals

LEMMA CommittedReady ==
    ASSUME TInv, NEW p \in Procs, pc[p] \in {"create", "cas"} \cup ConfigActions, Committed(p),
           IInv', Stored'
    PROVE  TInv'
<1>1. UNCHANGED <<servers, req, current, id>> /\ faults' \in Nat
  <2>1. faults \in Nat
    BY DEF TInv, Typed
  <2> QED
    BY <2>1 DEF Committed
<1>2. /\ pc \in [Procs -> Stages] /\ req[p] \in Request /\ Ready(p) /\ pc[p] # "idle"
      /\ req[p].action \in WriteActions
  <2>1. pc[p] \in Before /\ pc[p] # "idle"
    BY DEF Before, ConfigActions
  <2> QED
    BY <2>1 DEF TInv, IInv, Shape, Accounted, OnItsWay, Ready, WriteActions
<1>3. \/ pc' = [pc EXCEPT ![p] = "answer"]
      \/ pc' = [pc EXCEPT ![p] = "number"] /\ req[p].surface # "grpc"
  BY DEF Committed, Goto, Fail
<1>4. Ready(p)'
  <2>1. req'[p] = req[p] /\ (pc'[p] = "answer" \/ (pc'[p] = "number" /\ req[p].surface # "grpc"))
    BY <1>1, <1>2, <1>3
  <2> QED
    BY <1>2, <2>1 DEF Ready, ConfigActions
<1>5. \A q \in Procs \ {p} : pc'[q] = pc[q] /\ req'[q] = req[q] /\ current'[q] = current[q] /\ id'[q] = id[q]
  <2>1. \A q \in Procs \ {p} : pc'[q] = pc[q]
    BY <1>2, <1>3
  <2> QED
    BY <1>1, <2>1
<1>6. Typed'
  BY <1>1 DEF TInv, Typed, servers
<1> QED
  BY <1>4, <1>5, <1>6, OthersReady DEF TInv

LEMMA WritesReady ==
    ASSUME TInv, NEW p \in Procs,
           CreateNamespace(p) \/ UpdateAccessMode(p) \/ PutConfig(p) \/ DeleteConfig(p)
    PROVE  TInv'
<1>1. IInv'
  BY StoreWrites DEF TInv
<1>2. req[p] \in Request /\ Ready(p) /\ rev \in Nat
  BY DEF TInv, IInv, Shape, Accounted, CreateNamespace, UpdateAccessMode, PutConfig, DeleteConfig
<1>3. Stored'
  <2>1. CASE CreateNamespace(p)
    <3>1. [mode |-> "read_write", created |-> rev] \in Namespace
      BY <1>2 DEF Namespace, AccessModes
    <3>2. pc[p] = "create" /\ WriteKey(NamespaceOf(p), [mode |-> "read_write", created |-> rev], NoLease)
      BY <2>1 DEF CreateNamespace, Create
    <3> QED
      BY <3>1, <3>2, NamespaceOfKey, OneStored
  <2>2. CASE UpdateAccessMode(p)
    <3>1. pc[p] = "cas" /\ WriteKey(NamespaceOf(p), [current[p] EXCEPT !.mode = req[p].mode], NoLease)
      BY <2>2 DEF UpdateAccessMode, CAS
    <3>2. [current[p] EXCEPT !.mode = req[p].mode] \in Namespace
      BY <1>2, <3>1 DEF Ready, Namespace
    <3> QED
      BY <3>1, <3>2, NamespaceOfKey, OneStored
  <2>3. CASE PutConfig(p)
    <3> DEFINE item == [target |-> req[p].target, item |-> req[p].item]
    <3>1. pc[p] = "put_config" /\ WriteKey(KeyOf(req[p].target), item, NoLease)
      BY <2>3 DEF PutConfig, Create, CAS
    <3>2. req[p].target \in Target
      BY <1>2 DEF Request
    <3>3. ProperItem(KeyOf(req[p].target), item)
      BY <1>2, <3>1, <3>2 DEF Ready, ProperItem
    <3> HIDE DEF item
    <3> QED
      BY <3>1, <3>2, <3>3, ItemKeyOf, OneStored
  <2>4. CASE DeleteConfig(p)
    BY <2>4, ErasedStored DEF DeleteConfig, DeleteCAS
  <2> QED
    BY <2>1, <2>2, <2>3, <2>4
<1>4. pc[p] \in {"create", "cas"} \cup ConfigActions /\ Committed(p)
  BY DEF CreateNamespace, UpdateAccessMode, PutConfig, DeleteConfig, ConfigActions
<1> QED
  BY <1>1, <1>3, <1>4, CommittedReady

LEMMA NumberReady == ASSUME TInv, NEW p \in Procs, TakeNumber(p) PROVE TInv'
<1>1. IInv' /\ Stored'
  BY EntryStep, SameStored DEF TInv, TakeNumber, storeVars
<1> DEFINE n == counter[ServerOf[p]] + 1
<1>2. n \in 1..MaxId /\ n \in 0..MaxId
  <2>1. ServerOf[p] \in Servers /\ MaxId \in Nat
    BY AdminAssumption
  <2>2. counter[ServerOf[p]] \in 0..MaxId /\ counter[ServerOf[p]] < MaxId
    BY <2>1 DEF TInv, Typed, TakeNumber
  <2> QED
    BY <2>1, <2>2
<1>3. /\ counter' = [counter EXCEPT ![ServerOf[p]] = n] /\ id' = [id EXCEPT ![p] = n]
      /\ pc' = [pc EXCEPT ![p] = "append"]
      /\ UNCHANGED <<settings, restarts, faults, req, current>>
  <2>1. ServerOf[p] \in Servers /\ counter \in [Servers -> 0..MaxId]
    BY AdminAssumption DEF TInv, Typed
  <2>2. counter' = [counter EXCEPT ![ServerOf[p]] = n] /\ id' = [id EXCEPT ![p] = counter'[ServerOf[p]]]
    BY DEF TakeNumber
  <2>3. counter'[ServerOf[p]] = n
    BY <2>1, <2>2
  <2> QED
    BY <2>2, <2>3 DEF TakeNumber, Goto
<1> HIDE DEF n
<1>4. Typed'
  BY <1>2, <1>3 DEF TInv, Typed
<1>5. pc \in [Procs -> Stages] /\ id \in [Procs -> 0..MaxId] /\ Ready(p) /\ pc[p] = "number"
  BY DEF TInv, IInv, Shape, Typed, TakeNumber
<1>6. Ready(p)'
  <2>1. pc'[p] = "append" /\ id'[p] = n /\ req'[p] = req[p]
    BY <1>3, <1>5
  <2> QED
    BY <1>2, <1>5, <2>1 DEF Ready, ConfigActions
<1>7. \A q \in Procs \ {p} : pc'[q] = pc[q] /\ req'[q] = req[q] /\ current'[q] = current[q] /\ id'[q] = id[q]
  BY <1>3, <1>5
<1> QED
  BY <1>1, <1>4, <1>6, <1>7, OthersReady DEF TInv

LEMMA AppendReady == ASSUME TInv, NEW p \in Procs, AppendEntry(p) PROVE TInv'
<1>1. IInv'
  BY EntryStep DEF TInv
<1>2. /\ pc[p] = "append" /\ id[p] \in 1..MaxId /\ req[p].action \in WriteActions
      /\ Resource(req[p]) \in Resources /\ done[p] \in Nat /\ pc \in [Procs -> Stages]
  BY DEF TInv, IInv, Shape, Ready, AppendEntry
<1>3. Entry(p) \in AuditEntry
  BY <1>2 DEF Entry, AuditEntry, Resources
<1>4. Stored'
  BY <1>2, <1>3, EntryKeyOf, OneStored DEF AppendEntry, Create
<1>5. pc' = [pc EXCEPT ![p] = "answer"] /\ UNCHANGED <<servers, faults, req, current, id>>
  BY DEF AppendEntry, Goto, locals
<1>6. Ready(p)'
  BY <1>2, <1>5, EndsReady
<1>7. \A q \in Procs \ {p} : pc'[q] = pc[q] /\ req'[q] = req[q] /\ current'[q] = current[q] /\ id'[q] = id[q]
  BY <1>2, <1>5
<1>8. Typed'
  BY <1>5 DEF TInv, Typed, servers
<1> QED
  BY <1>1, <1>4, <1>6, <1>7, <1>8, OthersReady DEF TInv

LEMMA ForgetReady ==
    ASSUME TInv, NEW P, Forget(P), UNCHANGED <<kv, rev>>
    PROVE  /\ \A q \in Procs : Ready(q)'
           /\ req' \in [Procs -> Request \cup {NoRequest}]
           /\ current' \in [Procs -> Namespace \cup {NoNamespace}]
           /\ id' \in [Procs -> 0..MaxId]
<1>1. MaxId \in Nat
  BY AdminAssumption
<1>2. req' \in [Procs -> Request \cup {NoRequest}]
  BY DEF TInv, Typed, Forget
<1>3. current' \in [Procs -> Namespace \cup {NoNamespace}]
  BY DEF TInv, Typed, Forget
<1>4. id' \in [Procs -> 0..MaxId]
  <2>1. 0 \in 0..MaxId /\ id \in [Procs -> 0..MaxId]
    BY <1>1 DEF TInv, Typed
  <2> QED
    BY <2>1 DEF Forget
<1>5. ASSUME NEW q \in Procs PROVE Ready(q)'
  <2>1. CASE q \in P
    <3>1. pc'[q] = "idle"
      BY <2>1 DEF Forget
    <3> QED
      BY <3>1 DEF Ready, ConfigActions
  <2>2. CASE q \notin P
    <3>1. pc'[q] = pc[q] /\ req'[q] = req[q] /\ current'[q] = current[q] /\ id'[q] = id[q]
      BY <2>2 DEF Forget
    <3> QED
      BY <3>1 DEF TInv, Ready
  <2> QED
    BY <2>1, <2>2
<1> QED
  BY <1>2, <1>3, <1>4, <1>5

LEMMA ServersReady ==
    ASSUME TInv, (\E p \in Procs : Return(p)) \/ (\E s \in Servers : Crash(s) \/ Start(s))
    PROVE  TInv'
<1>1. IInv' /\ kv' = kv /\ rev' = rev
  BY StepKeepsIInv DEF TInv, Next, Return, Crash, Start, storeVars
<1>2. Stored'
  BY <1>1, SameStored
<1>3. CASE \E p \in Procs : Return(p)
  <2>1. UNCHANGED <<servers, faults>> /\ \E P : Forget(P)
    BY <1>3 DEF Return
  <2>2. Typed'
    BY <1>1, <2>1, ForgetReady DEF TInv, Typed, servers
  <2> QED
    BY <1>1, <1>2, <2>1, <2>2, ForgetReady DEF TInv
<1>4. ASSUME NEW s \in Servers, Crash(s) PROVE TInv'
  <2>1. /\ settings' = [settings EXCEPT ![s] = NoSettings] /\ restarts' = restarts + 1
        /\ UNCHANGED <<counter, faults>> /\ \E P : Forget(P)
    BY <1>4 DEF Crash
  <2>2. Typed'
    BY <1>1, <2>1, ForgetReady DEF TInv, Typed
  <2> QED
    BY <1>1, <1>2, <2>1, <2>2, ForgetReady DEF TInv
<1>5. ASSUME NEW s \in Servers, Start(s) PROVE TInv'
  <2>1. PICK new : Serves(new) /\ settings' = [settings EXCEPT ![s] = new]
    BY <1>5 DEF Start
  <2>2. counter' = [counter EXCEPT ![s] = 0] /\ UNCHANGED <<restarts, faults, pc, req, current, id>>
    BY <1>5 DEF Start, locals
  <2>3. MaxId \in Nat
    BY AdminAssumption
  <2>4. Typed'
    BY <2>1, <2>2, <2>3 DEF TInv, Typed
  <2>5. \A q \in Procs : Ready(q)'
    BY <2>2 DEF TInv, Ready
  <2> QED
    BY <1>1, <1>2, <2>4, <2>5 DEF TInv
<1> QED
  BY <1>3, <1>4, <1>5

LEMMA StepKeepsTInv == TInv /\ [Next]_vars => TInv'
<1> SUFFICES ASSUME TInv, [Next]_vars PROVE TInv'
  OBVIOUS
<1>1. CASE UNCHANGED vars
  <2>1. IInv'
    BY StepKeepsIInv DEF TInv
  <2>2. Stored'
    BY <1>1, SameStored DEF vars, storeVars
  <2>3. Typed' /\ \A q \in Procs : Ready(q)'
    BY <1>1 DEF vars, servers, locals, TInv, Typed, Ready
  <2> QED
    BY <2>1, <2>2, <2>3 DEF TInv
<1>2. CASE Next
  BY <1>2, ReceiveReady, ReadsReady, WritesReady, NumberReady, AppendReady, ServersReady DEF Next
<1> QED
  BY <1>1, <1>2

\* What is stored has its type whatever requests, faults and restarts there
\* are, and a config item lies under the key of its own scope and names.
THEOREM TypeCorrect == Spec => []TypeOK
<1>1. TInv => TypeOK
  <2>1. TInv => pc \in [Procs -> Stages] /\ done \in [Procs -> Nat] /\ err \in [Procs -> Codes \cup {"", "method"}]
    BY DEF TInv, IInv, Shape
  <2>2. Stages = {"idle", "create", "get", "cas", "check", "list", "status",
                  "number", "append", "answer"} \cup ConfigActions
    BY DEF Stages, Before
  <2> QED
    BY <2>1, <2>2 DEF TInv, Stored, Typed, ProperItem, TypeOK
<1> QED
  BY <1>1, InitTInv, StepKeepsTInv, PTL DEF Spec

-----------------------------------------------------------------------------
(* The audit log is complete while the one server stays up and etcd works. *)

OneServerOnly == \A p, q \in Procs : ServerOf[p] = ServerOf[q]

\* The ids in use differ, none of them has an entry yet, and all of them come
\* from the counter.
Numbered ==
    /\ \A s \in Servers : settings[s] # NoSettings
    /\ \A p \in Procs : pc[p] = "append" => id[p] <= counter[ServerOf[p]]
    /\ \A p, q \in Procs : p # q /\ pc[p] = "append" /\ pc[q] = "append" => id[p] # id[q]
    /\ \A n \in 1..MaxId, p \in Procs : Present(AuditKey(<<n>>)) => n <= counter[ServerOf[p]]
    /\ \A p \in Procs : pc[p] = "append" => ~Present(AuditKey(<<id[p]>>))

Up == restarts = 0 /\ faults = 0

UpInv == Up => Numbered /\ EveryChangeAudited

LEMMA InitUpInv == Init => UpInv
<1> SUFFICES ASSUME Init PROVE UpInv
  OBVIOUS
<1>1. \A s \in Servers : settings[s] # NoSettings
  <2>1. ServersInit
    BY DEF Init
  <2> QED
    BY <2>1 DEF ServersInit, Serves
<1>2. \A p \in Procs : pc[p] = "idle"
  BY DEF Init
<1>3. ASSUME NEW n \in 1..MaxId PROVE ~Present(AuditKey(<<n>>))
  <2>1. kv[AuditKey(<<n>>)].mod = 0
    BY EntryKeyOf DEF Init, StoreInit, Missing, Record
  <2> QED
    BY <2>1, NoneOrSome DEF Present
<1>4. Numbered
  BY <1>1, <1>2, <1>3 DEF Numbered
<1>5. EveryChangeAudited
  BY <1>2 DEF EveryChangeAudited, Answered
<1> QED
  BY <1>4, <1>5 DEF UpInv

\* The pieces of what is joined, by position.
LEMMA Joined ==
    ASSUME NEW S, NEW h \in Seq(S), NEW t \in Seq(S)
    PROVE  /\ h \o t \in Seq(S) /\ Len(h \o t) = Len(h) + Len(t)
           /\ \A j \in 1..Len(h) : (h \o t)[j] = h[j]
           /\ \A j \in 1..Len(t) : (h \o t)[Len(h) + j] = t[j]
  OBVIOUS

\* The entry keys tell the ids apart.
LEMMA EntryKeysDiffer ==
    ASSUME NEW m, NEW n, AuditKey(<<m>>) = AuditKey(<<n>>)
    PROVE  m = n
<1> DEFINE S == {"audit", "/", m, n}
           h == <<"audit", "/">>
<1>1. h \in Seq(S) /\ Len(h) = 2
  OBVIOUS
<1>2. \A x \in S : <<x>> \in Seq(S) /\ Len(<<x>>) = 1 /\ <<x>>[1] = x
  OBVIOUS
<1> HIDE DEF S, h
<1>3. \A x \in S : (h \o <<x>>)[3] = x
  <2> SUFFICES ASSUME NEW x \in S PROVE (h \o <<x>>)[3] = x
    OBVIOUS
  <2>1. <<x>> \in Seq(S) /\ 1 \in 1..Len(<<x>>) /\ <<x>>[1] = x
    BY <1>2
  <2>2. (h \o <<x>>)[Len(h) + 1] = x
    BY <1>1, <2>1, Joined
  <2>3. Len(h) + 1 = 3
    BY <1>1
  <2> QED
    BY <2>2, <2>3
<1>4. m \in S /\ n \in S /\ h \o <<m>> = h \o <<n>>
  BY DEF S, h, AuditKey
<1> QED
  BY <1>3, <1>4

\* While it is up no server goes down or comes back.
LEMMA StaysUp ==
    ASSUME TInv, [Next]_vars, Up'
    PROVE  /\ Up
           /\ UpInv => settings' = settings
<1>1. restarts \in Nat /\ faults \in Nat /\ MaxFaults \in Nat
  BY AdminAssumption DEF TInv, Typed
<1>2. CASE UNCHANGED vars
  BY <1>2 DEF vars, servers, Up
<1>3. ASSUME NEW s \in Servers, Crash(s) PROVE FALSE
  BY <1>1, <1>3 DEF Crash, Up
<1>4. ASSUME NEW s \in Servers, Start(s)
      PROVE  Up /\ ~UpInv
  BY <1>4 DEF Start, Up, UpInv, Numbered
<1>5. ASSUME NEW p \in Procs,
             \/ Receive(p) \/ CheckWrite(p)
             \/ ListNamespaces(p) \/ ListConfig(p) \/ ListAudit(p)
             \/ CheckStatus(p) \/ StatusFails(p)
             \/ CreateNamespace(p) \/ GetNamespace(p) \/ UpdateAccessMode(p)
             \/ PutConfig(p) \/ DeleteConfig(p)
             \/ Refused(p) \/ CallFails(p)
             \/ TakeNumber(p) \/ AppendEntry(p) \/ AppendRefused(p) \/ AppendFails(p)
             \/ Return(p)
      PROVE  Up /\ settings' = settings
  <2>1. settings' = settings /\ restarts' = restarts /\ (faults' = faults \/ faults' = faults + 1)
    <3>1. CASE Receive(p) \/ CheckWrite(p) \/ GetNamespace(p) \/ TakeNumber(p) \/ Return(p)
      BY <3>1 DEF Receive, CheckWrite, GetNamespace, TakeNumber, Return, servers
    <3>2. CASE \/ ListNamespaces(p) \/ ListConfig(p) \/ ListAudit(p) \/ CheckStatus(p) \/ StatusFails(p)
      BY <3>2 DEF ListNamespaces, ListConfig, ListAudit, List, CheckStatus, StatusFails, servers
    <3>3. CASE CreateNamespace(p) \/ UpdateAccessMode(p) \/ PutConfig(p) \/ DeleteConfig(p)
      BY <3>3 DEF CreateNamespace, UpdateAccessMode, PutConfig, DeleteConfig, Committed, servers
    <3>4. CASE Refused(p) \/ CallFails(p) \/ AppendEntry(p) \/ AppendRefused(p) \/ AppendFails(p)
      BY <3>4 DEF Refused, CallFails, AppendEntry, AppendRefused, AppendFails, servers
    <3> QED
      BY <1>5, <3>1, <3>2, <3>3, <3>4
  <2> QED
    BY <1>1, <2>1 DEF Up
<1> QED
  BY <1>2, <1>3, <1>4, <1>5 DEF Next, vars, servers

\* Nobody but a goroutine that records a change writes to the audit log.
LEMMA WhoRecords ==
    ASSUME IInv, [Next]_vars, NEW n \in 1..MaxId, Present(AuditKey(<<n>>))',
           ~Present(AuditKey(<<n>>))
    PROVE  \E p \in Procs : AppendEntry(p) /\ id[p] = n
<1> DEFINE k == AuditKey(<<n>>)
<1>1. kv'[k] # kv[k]
  BY DEF Present
<1>2. k \in Keys
  BY EntryKeyOf
<1>3. ASSUME NEW p \in Procs,
             CreateNamespace(p) \/ UpdateAccessMode(p) \/ PutConfig(p) \/ DeleteConfig(p)
      PROVE  kv'[k] = kv[k]
  BY <1>2, <1>3, ChangesElsewhere
<1>4. ASSUME NEW p \in Procs, AppendEntry(p), id[p] # n
      PROVE  kv'[k] = kv[k]
  <2>1. AuditKey(<<id[p]>>) # k
    BY <1>4, EntryKeysDiffer
  <2> QED
    BY <1>2, <1>4, <2>1, OneWritten DEF AppendEntry, Create
<1> HIDE DEF k
<1> QED
  BY <1>1, <1>3, <1>4, WhoWrites

\* Where a request was before it got to an answer or to an entry.
LEMMA NumberedStep ==
    ASSUME TInv, UpInv, Up, Up', OneServerOnly, NEW p \in Procs, TakeNumber(p)
    PROVE  Numbered'
<1>1. kv' = kv /\ settings' = settings
  BY DEF TakeNumber, storeVars
<1> DEFINE n == counter[ServerOf[p]] + 1
<1>2. /\ counter \in [Servers -> 0..MaxId] /\ ServerOf \in [Procs -> Servers] /\ MaxId \in Nat
      /\ id \in [Procs -> 0..MaxId] /\ pc \in [Procs -> Stages]
  BY AdminAssumption DEF TInv, Typed, IInv, Shape
<1>3. /\ counter' = [counter EXCEPT ![ServerOf[p]] = n] /\ id' = [id EXCEPT ![p] = n]
      /\ pc' = [pc EXCEPT ![p] = "append"]
  <2>1. counter' = [counter EXCEPT ![ServerOf[p]] = n] /\ id' = [id EXCEPT ![p] = counter'[ServerOf[p]]]
    BY DEF TakeNumber
  <2>2. counter'[ServerOf[p]] = n
    BY <1>2, <2>1
  <2> QED
    BY <2>1, <2>2 DEF TakeNumber, Goto
<1>4. \A q \in Procs : counter[ServerOf[q]] = n - 1 /\ counter'[ServerOf[q]] = n /\ n \in Nat
  BY <1>2, <1>3 DEF OneServerOnly
<1>5. Numbered
  BY DEF UpInv
<1>6. \A q \in Procs : pc'[q] = "append" =>
           \/ q = p /\ id'[q] = n
           \/ q # p /\ pc[q] = "append" /\ id'[q] = id[q]
  BY <1>2, <1>3
<1>7. \A q \in Procs : pc[q] = "append" => id[q] \in Nat /\ id[q] < n
  BY <1>2, <1>4, <1>5 DEF Numbered
<1>8. \A m \in 1..MaxId : Present(AuditKey(<<m>>)) => m < n
  BY <1>2, <1>4, <1>5 DEF Numbered
<1>9. n \in 1..MaxId
  BY <1>2 DEF TakeNumber
<1> HIDE DEF n
<1>10. \A s \in Servers : settings'[s] # NoSettings
  BY <1>1, <1>5 DEF Numbered
<1>11. \A q \in Procs : pc'[q] = "append" => id'[q] <= counter'[ServerOf[q]]
  BY <1>4, <1>6, <1>7
<1>12. \A q, r \in Procs : q # r /\ pc'[q] = "append" /\ pc'[r] = "append" => id'[q] # id'[r]
  BY <1>5, <1>6, <1>7, <1>9 DEF Numbered
<1>13. \A m \in 1..MaxId, q \in Procs : Present(AuditKey(<<m>>))' => m <= counter'[ServerOf[q]]
  BY <1>1, <1>4, <1>8, <1>9 DEF Present
<1>14. \A q \in Procs : pc'[q] = "append" => ~Present(AuditKey(<<id[q]>>))'
  <2>1. ~Present(AuditKey(<<n>>))
    BY <1>8, <1>9
  <2> QED
    BY <1>1, <1>5, <1>6, <2>1 DEF Numbered, Present
<1> QED
  BY <1>10, <1>11, <1>12, <1>13, <1>14 DEF Numbered

LEMMA AppendedStep ==
    ASSUME TInv, Numbered, OneServerOnly, NEW p \in Procs, AppendEntry(p)
    PROVE  Numbered'
<1>1. /\ pc \in [Procs -> Stages] /\ id[p] \in 1..MaxId /\ pc[p] = "append"
      /\ pc' = [pc EXCEPT ![p] = "answer"] /\ UNCHANGED <<id, counter, settings>>
  BY DEF TInv, IInv, Shape, Ready, AppendEntry, Goto, locals, servers
<1>2. \A m \in 1..MaxId : m # id[p] => (Present(AuditKey(<<m>>))' <=> Present(AuditKey(<<m>>)))
  <2>1. ASSUME NEW m \in 1..MaxId, m # id[p] PROVE kv'[AuditKey(<<m>>)] = kv[AuditKey(<<m>>)]
    BY <2>1, EntryKeyOf, EntryKeysDiffer, OneWritten DEF AppendEntry, Create, TInv
  <2> QED
    BY <2>1 DEF Present
<1>3. \A q \in Procs : pc'[q] = "append" => q # p /\ pc[q] = "append"
  BY <1>1
<1>4. \A q \in Procs : pc[q] = "append" => id[q] \in 1..MaxId
  BY DEF TInv, Ready
<1>5. \A n \in 1..MaxId, q \in Procs : Present(AuditKey(<<n>>))' => n <= counter'[ServerOf[q]]
  <2>1. \A q \in Procs : id[p] <= counter[ServerOf[q]]
    BY <1>1 DEF Numbered, OneServerOnly
  <2> QED
    BY <1>1, <1>2, <2>1 DEF Numbered
<1>6. \A q \in Procs : pc'[q] = "append" => ~Present(AuditKey(<<id[q]>>))'
  <2> SUFFICES ASSUME NEW q \in Procs, pc'[q] = "append" PROVE ~Present(AuditKey(<<id[q]>>))'
    OBVIOUS
  <2>1. q # p /\ pc[q] = "append" /\ id[q] # id[p] /\ id[q] \in 1..MaxId
    BY <1>1, <1>3, <1>4 DEF Numbered
  <2>2. ~Present(AuditKey(<<id[q]>>))
    BY <2>1 DEF Numbered
  <2>3. id'[q] = id[q]
    BY <1>1
  <2> QED
    BY <1>2, <2>1, <2>2, <2>3
<1> QED
  BY <1>1, <1>3, <1>5, <1>6 DEF Numbered

\* The other steps take no id and use none.
NoneTaken ==
    counter' = counter /\ \A p \in Procs : pc'[p] = "append" => pc[p] = "append" /\ id'[p] = id[p]

LEMMA ElsewhereTakesNone ==
    ASSUME TInv, NEW p \in Procs, NEW call \in Stages \ {"append"},
           pc' = [pc EXCEPT ![p] = call], counter' = counter, id' = id
    PROVE  NoneTaken
  BY DEF NoneTaken, TInv, IInv, Shape

LEMMA OtherSteps ==
    ASSUME TInv, [Next]_vars, Up, UpInv, settings' = settings,
           \A p \in Procs : ~TakeNumber(p) /\ ~AppendEntry(p)
    PROVE  NoneTaken
<1>1. CASE UNCHANGED vars
  BY <1>1 DEF vars, servers, locals, NoneTaken
<1>2. ASSUME NEW p \in Procs, Return(p) PROVE NoneTaken
  BY <1>2 DEF Return, Forget, servers, NoneTaken
<1>3. ASSUME NEW p \in Procs, Receive(p) PROVE NoneTaken
  <2>1. PICK call \in Stages \ {"append"} : pc' = [pc EXCEPT ![p] = call]
    <3>1. \A r : r.action \in ConfigActions => FirstCall(r) \in Stages \ {"append"}
      BY DEF FirstCall, Stages, Before, ConfigActions, NamespaceActions
    <3>2. \A r : FirstCall(r) \in Stages \ {"append"}
      BY <3>1 DEF FirstCall, Stages, Before
    <3>3. PICK r : pc' = [pc EXCEPT ![p] = FirstCall(r)] \/ pc' = [pc EXCEPT ![p] = "answer"]
      BY <1>3 DEF Receive, Checked, Goto, Fail
    <3> QED
      BY <3>2, <3>3 DEF Stages
  <2> QED
    BY <1>3, <2>1, ElsewhereTakesNone DEF Receive, servers
<1>4. ASSUME NEW p \in Procs,
             \/ CheckWrite(p) \/ ListNamespaces(p) \/ ListConfig(p) \/ ListAudit(p)
             \/ CheckStatus(p) \/ StatusFails(p) \/ GetNamespace(p) \/ Refused(p) \/ CallFails(p)
             \/ AppendRefused(p) \/ AppendFails(p)
      PROVE  NoneTaken
  <2>1. PICK call \in Stages \ {"append"} : pc' = [pc EXCEPT ![p] = call]
    <3>1. CASE CheckWrite(p)
      <4>1. req[p].action \in ConfigActions
        BY <3>1 DEF CheckWrite, TInv, IInv, Accounted, OnItsWay, Before
      <4> QED
        BY <3>1, <4>1 DEF CheckWrite, Checked, Goto, Fail, Stages, Before, ConfigActions
    <3>2. CASE ListNamespaces(p) \/ ListConfig(p) \/ ListAudit(p) \/ CheckStatus(p) \/ StatusFails(p)
      BY <3>2 DEF ListNamespaces, ListConfig, ListAudit, List, CheckStatus, StatusFails, Goto, Fail, Stages
    <3>3. CASE GetNamespace(p)
      BY <3>3 DEF GetNamespace, Checked, Goto, Fail, Stages, Before
    <3>4. CASE Refused(p) \/ CallFails(p) \/ AppendRefused(p) \/ AppendFails(p)
      BY <3>4 DEF Refused, CallFails, AppendRefused, AppendFails, Goto, Fail, Stages
    <3> QED
      BY <1>4, <3>1, <3>2, <3>3, <3>4
  <2>2. counter' = counter /\ id' = id
    BY <1>4 DEF CheckWrite, ListNamespaces, ListConfig, ListAudit, List, CheckStatus, StatusFails,
       GetNamespace, Refused, CallFails, AppendRefused, AppendFails, servers, locals
  <2> QED
    BY <2>1, <2>2, ElsewhereTakesNone
<1>5. ASSUME NEW p \in Procs,
             CreateNamespace(p) \/ UpdateAccessMode(p) \/ PutConfig(p) \/ DeleteConfig(p)
      PROVE  NoneTaken
  <2>1. Committed(p)
    BY <1>5 DEF CreateNamespace, UpdateAccessMode, PutConfig, DeleteConfig
  <2>2. PICK call \in Stages \ {"append"} : pc' = [pc EXCEPT ![p] = call]
    BY <2>1 DEF Committed, Goto, Fail, Stages
  <2> QED
    BY <2>1, <2>2, ElsewhereTakesNone DEF Committed, servers
<1>6. ASSUME NEW s \in Servers, Crash(s) \/ Start(s) PROVE FALSE
  <2>1. settings[s] # NoSettings /\ settings = [t \in Servers |-> settings[t]]
    BY DEF UpInv, Numbered, TInv, Typed
  <2> QED
    BY <1>6, <2>1 DEF Crash, Start
<1> QED
  BY <1>1, <1>2, <1>3, <1>4, <1>5, <1>6 DEF Next

LEMMA OtherNumbered ==
    ASSUME TInv, Numbered, [Next]_vars, NoneTaken, settings' = settings,
           \A p \in Procs : ~AppendEntry(p)
    PROVE  Numbered'
<1>1. \A m \in 1..MaxId : Present(AuditKey(<<m>>))' => Present(AuditKey(<<m>>))
  BY WhoRecords DEF TInv
<1>2. \A p \in Procs : pc[p] = "append" => id[p] \in 1..MaxId
  BY DEF TInv, Ready
<1>3. \A q \in Procs : pc'[q] = "append" => ~Present(AuditKey(<<id[q]>>))'
  <2> SUFFICES ASSUME NEW q \in Procs, pc'[q] = "append" PROVE ~Present(AuditKey(<<id[q]>>))'
    OBVIOUS
  <2>1. pc[q] = "append" /\ id'[q] = id[q] /\ id[q] \in 1..MaxId
    BY <1>2 DEF NoneTaken
  <2> QED
    BY <1>1, <2>1 DEF Numbered
<1>4. /\ \A q \in Procs : pc'[q] = "append" => id'[q] <= counter'[ServerOf[q]]
      /\ \A q, r \in Procs : q # r /\ pc'[q] = "append" /\ pc'[r] = "append" => id'[q] # id'[r]
  BY DEF Numbered, NoneTaken
<1>5. \A n \in 1..MaxId, q \in Procs : Present(AuditKey(<<n>>))' => n <= counter'[ServerOf[q]]
  BY <1>1 DEF Numbered, NoneTaken
<1>6. \A s \in Servers : settings'[s] # NoSettings
  BY DEF Numbered
<1> QED
  BY <1>3, <1>4, <1>5, <1>6 DEF Numbered

Untouched(p) == pc'[p] = pc[p] /\ req'[p] = req[p] /\ done'[p] = done[p] /\ err'[p] = err[p]

LEMMA OthersUntouched ==
    ASSUME TInv, NEW q \in Procs, NEW p \in Procs \ {q},
           \/ Receive(q) \/ CheckWrite(q)
           \/ ListNamespaces(q) \/ ListConfig(q) \/ ListAudit(q)
           \/ CheckStatus(q) \/ StatusFails(q)
           \/ CreateNamespace(q) \/ GetNamespace(q) \/ UpdateAccessMode(q)
           \/ PutConfig(q) \/ DeleteConfig(q)
           \/ Refused(q) \/ CallFails(q)
           \/ TakeNumber(q) \/ AppendEntry(q) \/ AppendRefused(q) \/ AppendFails(q)
           \/ Return(q)
    PROVE  Untouched(p)
<1>1. /\ pc = [r \in Procs |-> pc[r]] /\ req = [r \in Procs |-> req[r]]
      /\ done = [r \in Procs |-> done[r]] /\ err = [r \in Procs |-> err[r]]
  BY DEF TInv, IInv, Shape
<1>2. CASE Return(q)
  BY <1>2 DEF Return, Forget, Untouched
<1>3. ASSUME NEW call, NEW e, Goto(q, call) \/ Fail(q, e) PROVE pc'[p] = pc[p] /\ err'[p] = err[p]
  BY <1>1, <1>3 DEF Goto, Fail
<1>4. CASE Receive(q) \/ CheckWrite(q) \/ GetNamespace(q)
  BY <1>1, <1>3, <1>4 DEF Receive, CheckWrite, GetNamespace, Checked, Untouched, locals
<1>5. CASE \/ ListNamespaces(q) \/ ListConfig(q) \/ ListAudit(q) \/ CheckStatus(q) \/ StatusFails(q)
  BY <1>3, <1>5 DEF ListNamespaces, ListConfig, ListAudit, List, CheckStatus, StatusFails, Untouched, locals
<1>6. CASE CreateNamespace(q) \/ UpdateAccessMode(q) \/ PutConfig(q) \/ DeleteConfig(q)
  <2>1. Committed(q)
    BY <1>6 DEF CreateNamespace, UpdateAccessMode, PutConfig, DeleteConfig
  <2> QED
    BY <1>1, <1>3, <2>1 DEF Committed, Untouched
<1>7. CASE Refused(q) \/ CallFails(q)
  BY <1>3, <1>7 DEF Refused, CallFails, Untouched, locals
<1>8. CASE TakeNumber(q) \/ AppendEntry(q) \/ AppendRefused(q) \/ AppendFails(q)
  BY <1>3, <1>8 DEF TakeNumber, AppendEntry, AppendRefused, AppendFails, Untouched, locals
<1> QED
  BY <1>2, <1>4, <1>5, <1>6, <1>7, <1>8

\* Only an entry, or the refusal of one, leads to the answer that all is well.
LEMMA NoFault == Up /\ Up' => faults' # faults + 1
  BY DEF Up

LEMMA HowAnswered ==
    ASSUME TInv, [Next]_vars, Up, UpInv, Up', settings' = settings, NEW p \in Procs,
           Answered(p, "admin")', err'[p] = ""
    PROVE  Untouched(p) \/ AppendEntry(p) \/ AppendRefused(p)
<1>1. pc'[p] = "answer" /\ req'[p].surface = "admin" /\ req'[p].action \in WriteActions
  BY DEF Answered
<1>2. done'[p] > 0
  <2>1. IInv'
    BY StepKeepsIInv DEF TInv
  <2> QED
    BY <1>1, <2>1 DEF IInv, Accounted, Outcome
<1>3. ~(0 > 0)
  BY NoneOrSome
<1>4. CASE UNCHANGED vars
  BY <1>4 DEF vars, locals, Untouched
<1>5. ASSUME NEW s \in Servers, Crash(s) \/ Start(s) PROVE FALSE
  <2>1. settings[s] # NoSettings /\ settings = [t \in Servers |-> settings[t]]
    BY DEF UpInv, Numbered, TInv, Typed
  <2> QED
    BY <1>5, <2>1 DEF Crash, Start
<1>6. CASE Receive(p)
  BY <1>2, <1>3, <1>6 DEF Receive, TInv, IInv, Accounted, Fresh
<1>7. CASE \/ CheckWrite(p) \/ ListNamespaces(p) \/ ListConfig(p) \/ ListAudit(p)
           \/ CheckStatus(p) \/ StatusFails(p) \/ GetNamespace(p) \/ Refused(p) \/ CallFails(p)
  <2>1. pc[p] \in Before /\ done' = done
    BY <1>7 DEF CheckWrite, ListNamespaces, ListConfig, ListAudit, List, CheckStatus, StatusFails,
       GetNamespace, Refused, CallFails, Before, ConfigActions, locals
  <2>2. done'[p] = 0
    BY <2>1 DEF TInv, IInv, Accounted, Fresh
  <2> QED
    BY <1>2, <1>3, <2>2
<1>8. CASE CreateNamespace(p) \/ UpdateAccessMode(p) \/ PutConfig(p) \/ DeleteConfig(p)
  <2>1. Committed(p)
    BY <1>8 DEF CreateNamespace, UpdateAccessMode, PutConfig, DeleteConfig
  <2>2. req'[p] = req[p] /\ LostAnswer(p) = "unavailable"
    BY <2>1 DEF Committed, LostAnswer, OfEtcd
  <2>3. pc \in [Procs -> Stages] /\ err \in [Procs -> Codes \cup {"", "method"}]
    BY DEF TInv, IInv, Shape
  <2>4. \/ pc' = [pc EXCEPT ![p] = "number"]
        \/ err' = [err EXCEPT ![p] = "unavailable"]
    BY <1>1, <2>1, <2>2 DEF Committed, Goto, Fail
  <2> QED
    BY <1>1, <2>3, <2>4
<1>9. CASE TakeNumber(p)
  BY <1>1, <1>9 DEF TakeNumber, Goto, TInv, IInv, Shape
<1>10. CASE AppendFails(p)
  BY <1>10, NoFault DEF AppendFails
<1>11. CASE Return(p)
  BY <1>1, <1>11 DEF Return, Forget
<1> QED
  BY <1>4, <1>5, <1>6, <1>7, <1>8, <1>9, <1>10, <1>11, OthersUntouched DEF Next

LEMMA EntryAppended ==
    ASSUME TInv, NEW p \in Procs, AppendEntry(p)
    PROVE  \E k \in AuditKeys : Present(k)' /\ kv'[k].value = Entry(p)'
<1> DEFINE k == AuditKey(<<id[p]>>)
<1>1. id[p] \in 1..MaxId /\ kv = [j \in Keys |-> kv[j]] /\ rev \in Nat
  BY DEF AppendEntry, TInv, Ready, IInv, Shape
<1>2. k \in AuditKeys /\ k \in Keys
  BY <1>1, EntryKeyOf
<1>3. kv' = [kv EXCEPT ![k] = Record(Entry(p), rev + 1, NoLease)]
  BY DEF AppendEntry, Create, WriteKey
<1>4. Entry(p)' = Entry(p)
  BY DEF AppendEntry, locals, Entry
<1> HIDE DEF k
<1>5. kv'[k] = Record(Entry(p), rev + 1, NoLease)
  BY <1>1, <1>2, <1>3
<1>6. kv'[k].value = Entry(p) /\ kv'[k].mod = rev + 1
  BY <1>5 DEF Record
<1>7. rev + 1 > 0
  BY <1>1
<1> QED
  BY <1>2, <1>4, <1>6, <1>7 DEF Present

LEMMA AuditedStep ==
    ASSUME TInv, [Next]_vars, Up, UpInv, Up', settings' = settings
    PROVE  EveryChangeAudited'
<1> SUFFICES ASSUME NEW p \in Procs, Answered(p, "admin")', err'[p] = ""
             PROVE  \E k \in AuditKeys : Present(k)' /\ kv'[k].value = Entry(p)'
  BY DEF EveryChangeAudited
<1>1. CASE Untouched(p)
  <2>1. Answered(p, "admin") /\ err[p] = "" /\ Entry(p)' = Entry(p)
    BY <1>1 DEF Untouched, Answered, Entry
  <2>2. PICK k \in AuditKeys : Present(k) /\ kv[k].value = Entry(p)
    BY <2>1 DEF UpInv, EveryChangeAudited
  <2>3. kv'[k] = kv[k]
    BY <2>2, LogKept DEF TInv
  <2> QED
    BY <2>1, <2>2, <2>3 DEF Present
<1>2. CASE AppendEntry(p)
  BY <1>2, EntryAppended
<1>3. CASE AppendRefused(p)
  <2>1. pc[p] = "append" /\ (Present(AuditKey(<<id[p]>>)) \/ ~LeaseUsable(NoLease))
    BY <1>3 DEF AppendRefused, CreateRefused
  <2> QED
    BY <2>1 DEF UpInv, Numbered, LeaseUsable
<1> QED
  BY <1>1, <1>2, <1>3, HowAnswered

\* Goroutines of one server, whatever the order in which they take and use
\* their numbers: every change an administrator was told of has an entry.
THEOREM LogComplete ==
    ASSUME OneServerOnly
    PROVE  Spec => []AuditedWhileUp
<1>1. TInv /\ UpInv /\ [Next]_vars => UpInv'
  <2> SUFFICES ASSUME TInv, UpInv, [Next]_vars, Up' PROVE Numbered' /\ EveryChangeAudited'
    BY DEF UpInv
  <2>1. Up /\ settings' = settings /\ Numbered
    BY StaysUp DEF UpInv
  <2>2. ASSUME NEW p \in Procs, TakeNumber(p) PROVE Numbered'
    BY <2>1, <2>2, NumberedStep
  <2>3. ASSUME NEW p \in Procs, AppendEntry(p) PROVE Numbered'
    BY <2>1, <2>3, AppendedStep
  <2>4. ASSUME \A p \in Procs : ~TakeNumber(p) /\ ~AppendEntry(p) PROVE Numbered'
    BY <2>1, <2>4, OtherSteps, OtherNumbered
  <2> QED
    BY <2>1, <2>2, <2>3, <2>4, AuditedStep
<1>2. UpInv => AuditedWhileUp
  BY DEF UpInv, Up, AuditedWhileUp
<1> QED
  BY <1>1, <1>2, InitTInv, StepKeepsTInv, InitUpInv, PTL DEF Spec

-----------------------------------------------------------------------------
(* A listing of config items.                                              *)

SlashFree(name) == \A j \in DOMAIN name : name[j] # "/"

LEMMA CoversByPieces ==
    ASSUME NEW s \in Seq(Pieces), NEW t \in Seq(Pieces)
    PROVE  Covers(s, t) <=> Len(s) <= Len(t) /\ \A j \in 1..Len(s) : s[j] = t[j]
<1>1. ASSUME Covers(s, t) PROVE Len(s) <= Len(t) /\ \A j \in 1..Len(s) : s[j] = t[j]
  BY <1>1 DEF Covers
<1>2. ASSUME Len(s) <= Len(t), \A j \in 1..Len(s) : s[j] = t[j] PROVE Covers(s, t)
  <2>1. SubSeq(t, 1, Len(s)) = s
    BY <1>2
  <2> QED
    BY <1>2, <2>1 DEF Covers
<1> QED
  BY <1>1, <1>2

LEMMA SameNames ==
    ASSUME NEW m \in Seq(Pieces), NEW n \in Seq(Pieces), Len(m) = Len(n),
           \A j \in 1..Len(m) : m[j] = n[j]
    PROVE  m = n
  OBVIOUS

\* Of what a key is joined: a head, a name, a slash and what follows.
LEMMA NameInKey ==
    ASSUME NEW h \in Seq(Pieces), NEW n \in Seq(Pieces)
    PROVE  /\ h \o n \o Slash \in Seq(Pieces) /\ Len(h \o n \o Slash) = Len(h) + Len(n) + 1
           /\ \A j \in 1..Len(h) : (h \o n \o Slash)[j] = h[j]
           /\ \A j \in 1..Len(n) : (h \o n \o Slash)[Len(h) + j] = n[j]
           /\ (h \o n \o Slash)[Len(h) + Len(n) + 1] = "/"
<1> DEFINE a == h \o n
<1>1. Slash \in Seq(Pieces) /\ Len(Slash) = 1 /\ Slash[1] = "/"
  BY DEF Slash, Pieces
<1>2. a \in Seq(Pieces) /\ Len(a) = Len(h) + Len(n)
  OBVIOUS
<1>3. \A j \in 1..Len(h) : a[j] = h[j]
  OBVIOUS
<1>4. \A j \in 1..Len(n) : a[Len(h) + j] = n[j]
  BY Joined
<1>5. /\ \A j \in 1..Len(h) : j \in 1..Len(a)
      /\ \A j \in 1..Len(n) : Len(h) + j \in 1..Len(a)
  BY <1>2
<1> HIDE DEF a
<1>6. /\ a \o Slash \in Seq(Pieces) /\ Len(a \o Slash) = Len(a) + Len(Slash)
      /\ \A j \in 1..Len(a) : (a \o Slash)[j] = a[j]
      /\ \A j \in 1..Len(Slash) : (a \o Slash)[Len(a) + j] = Slash[j]
  <2>1. a \in Seq(Pieces) /\ Slash \in Seq(Pieces)
    BY <1>1, <1>2
  <2> QED
    BY <2>1, Joined
<1> DEFINE k == a \o Slash
<1> HIDE DEF k
<1>7. k \in Seq(Pieces) /\ Len(k) = Len(h) + Len(n) + 1
  BY <1>1, <1>2, <1>6 DEF k
<1>8. k[Len(h) + Len(n) + 1] = "/"
  <2>1. k[Len(a) + 1] = Slash[1]
    BY <1>1, <1>6 DEF k
  <2> QED
    BY <1>1, <1>2, <2>1
<1>9. \A j \in 1..Len(a) : k[j] = a[j]
  BY <1>6 DEF k
<1>10. /\ \A j \in 1..Len(h) : k[j] = h[j]
       /\ \A j \in 1..Len(n) : k[Len(h) + j] = n[j]
  BY <1>3, <1>4, <1>5, <1>9
<1> QED
  BY <1>7, <1>8, <1>10 DEF k, a

\* A prefix that ends with a name and a slash covers the keys with that name
\* there and no other, if there is no slash in what the keys have from there.
LEMMA OneName ==
    ASSUME NEW h \in Seq(Pieces), NEW m \in Seq(Pieces), NEW n \in Seq(Pieces), NEW rest \in Seq(Pieces),
           SlashFree(n), SlashFree(rest), Covers(h \o m \o Slash, h \o n \o Slash \o rest)
    PROVE  m = n
<1> DEFINE p == h \o m \o Slash
           q == h \o n \o Slash
           k == q \o rest
<1>0. p = h \o m \o Slash /\ q = h \o n \o Slash /\ k = q \o rest
  OBVIOUS
<1>4. Covers(p, k)
  OBVIOUS
<1> HIDE DEF p, q, k
<1>1. /\ p \in Seq(Pieces) /\ Len(p) = Len(h) + Len(m) + 1
      /\ \A j \in 1..Len(m) : p[Len(h) + j] = m[j]
      /\ p[Len(h) + Len(m) + 1] = "/"
  BY NameInKey DEF p
<1>2. /\ q \in Seq(Pieces) /\ Len(q) = Len(h) + Len(n) + 1
      /\ \A j \in 1..Len(n) : q[Len(h) + j] = n[j]
      /\ q[Len(h) + Len(n) + 1] = "/"
  BY NameInKey DEF q
<1>3. /\ k \in Seq(Pieces) /\ Len(k) = Len(q) + Len(rest)
      /\ \A j \in 1..Len(q) : k[j] = q[j]
      /\ \A j \in 1..Len(rest) : k[Len(q) + j] = rest[j]
  <2>1. q \in Seq(Pieces)
    BY <1>2
  <2>2. /\ q \o rest \in Seq(Pieces) /\ Len(q \o rest) = Len(q) + Len(rest)
        /\ \A j \in 1..Len(q) : (q \o rest)[j] = q[j]
        /\ \A j \in 1..Len(rest) : (q \o rest)[Len(q) + j] = rest[j]
    BY <2>1, Joined
  <2> QED
    BY <1>0, <2>2
<1>5. Len(p) <= Len(k) /\ \A j \in 1..Len(p) : p[j] = k[j]
  BY <1>1, <1>3, <1>4, CoversByPieces
<1>6. Len(h) \in Nat /\ Len(m) \in Nat /\ Len(n) \in Nat /\ Len(rest) \in Nat
  OBVIOUS
<1>7. /\ \A j \in 1..Len(n) : n[j] # "/"
      /\ \A j \in 1..Len(rest) : rest[j] # "/"
  BY DEF SlashFree
<1>8. k[Len(h) + Len(m) + 1] = "/"
  BY <1>1, <1>5, <1>6
<1>9. \A j \in 1..Len(n) : k[Len(h) + j] # "/"
  <2> SUFFICES ASSUME NEW j \in 1..Len(n) PROVE k[Len(h) + j] # "/"
    OBVIOUS
  <2>1. Len(h) + j \in 1..Len(q)
    BY <1>2, <1>6
  <2>2. k[Len(h) + j] = q[Len(h) + j] /\ q[Len(h) + j] = n[j]
    BY <1>2, <1>3, <2>1
  <2> QED
    BY <1>7, <2>2
<1>10. \A j \in 1..Len(rest) : k[Len(h) + Len(n) + 1 + j] # "/"
  <2>1. Len(q) = Len(h) + Len(n) + 1
    BY <1>2
  <2> QED
    BY <1>3, <1>7, <2>1
<1>11. Len(m) = Len(n)
  <2>1. CASE Len(m) < Len(n)
    <3>1. Len(m) + 1 \in 1..Len(n) /\ Len(h) + (Len(m) + 1) = Len(h) + Len(m) + 1
      BY <1>6, <2>1
    <3> QED
      BY <1>8, <1>9, <3>1
  <2>2. CASE Len(m) > Len(n)
    <3>1. /\ Len(m) - Len(n) \in 1..Len(rest)
          /\ Len(h) + Len(n) + 1 + (Len(m) - Len(n)) = Len(h) + Len(m) + 1
      BY <1>1, <1>2, <1>3, <1>5, <1>6, <2>2
    <3> QED
      BY <1>8, <1>10, <3>1
  <2> QED
    BY <1>6, <2>1, <2>2
<1>12. \A j \in 1..Len(m) : m[j] = n[j]
  <2> SUFFICES ASSUME NEW j \in 1..Len(m) PROVE m[j] = n[j]
    OBVIOUS
  <2>1. Len(h) + j \in 1..Len(p) /\ Len(h) + j \in 1..Len(q) /\ j \in 1..Len(n)
    BY <1>1, <1>2, <1>6, <1>11
  <2> QED
    BY <1>1, <1>2, <1>3, <1>5, <2>1
<1> QED
  BY <1>11, <1>12

\* Likewise for two names, of a service and its namespace.
LEMMA TwoNames ==
    ASSUME NEW h \in Seq(Pieces),
           NEW m \in Seq(Pieces), NEW ms \in Seq(Pieces),
           NEW n \in Seq(Pieces), NEW ns \in Seq(Pieces), NEW rest \in Seq(Pieces),
           SlashFree(n), SlashFree(ns), SlashFree(rest),
           Covers(h \o m \o Slash \o ms \o Slash, h \o n \o Slash \o ns \o Slash \o rest)
    PROVE  m = n /\ ms = ns
<1> DEFINE g == h \o m \o Slash
           p == g \o ms \o Slash
           f == h \o n \o Slash
           q == f \o ns \o Slash
           k == q \o rest
<1>1. Covers(p, k)
  OBVIOUS
<1>2. /\ g \in Seq(Pieces) /\ Len(g) = Len(h) + Len(m) + 1
      /\ \A j \in 1..Len(m) : g[Len(h) + j] = m[j]
      /\ g[Len(h) + Len(m) + 1] = "/"
  BY NameInKey
<1>3. /\ f \in Seq(Pieces) /\ Len(f) = Len(h) + Len(n) + 1
      /\ \A j \in 1..Len(n) : f[Len(h) + j] = n[j]
      /\ f[Len(h) + Len(n) + 1] = "/"
  BY NameInKey
<1> HIDE DEF g, f
<1>4. /\ p \in Seq(Pieces) /\ Len(p) = Len(g) + Len(ms) + 1
      /\ \A j \in 1..Len(g) : p[j] = g[j]
      /\ \A j \in 1..Len(ms) : p[Len(g) + j] = ms[j]
      /\ p[Len(g) + Len(ms) + 1] = "/"
  BY <1>2, NameInKey
<1>5. /\ q \in Seq(Pieces) /\ Len(q) = Len(f) + Len(ns) + 1
      /\ \A j \in 1..Len(f) : q[j] = f[j]
      /\ \A j \in 1..Len(ns) : q[Len(f) + j] = ns[j]
      /\ q[Len(f) + Len(ns) + 1] = "/"
  BY <1>3, NameInKey
<1> HIDE DEF p, q
<1>6. /\ k \in Seq(Pieces) /\ Len(k) = Len(q) + Len(rest)
      /\ \A j \in 1..Len(q) : k[j] = q[j]
      /\ \A j \in 1..Len(rest) : k[Len(q) + j] = rest[j]
  <2>1. q \in Seq(Pieces)
    BY <1>5
  <2> QED
    BY <2>1, Joined
<1> HIDE DEF k
<1>7. Len(p) <= Len(k) /\ \A j \in 1..Len(p) : p[j] = k[j]
  BY <1>1, <1>4, <1>6, CoversByPieces
<1>8. /\ Len(h) \in Nat /\ Len(m) \in Nat /\ Len(n) \in Nat
      /\ Len(ms) \in Nat /\ Len(ns) \in Nat /\ Len(rest) \in Nat
  OBVIOUS
<1> DEFINE a == Len(h) + Len(n) + 1
           b == a + Len(ns) + 1
\* In the key there are two slashes from the namespace's name on.
<1>9. ASSUME NEW i \in (Len(h) + 1)..Len(k), k[i] = "/"
      PROVE  i = a \/ i = b
  <2>1. CASE i < a
    <3>1. i - Len(h) \in 1..Len(n) /\ Len(h) + (i - Len(h)) = i /\ i \in 1..Len(f) /\ i \in 1..Len(q)
      BY <1>3, <1>5, <1>8, <1>9, <2>1
    <3>2. k[i] = n[i - Len(h)]
      BY <1>3, <1>5, <1>6, <3>1
    <3> QED
      BY <1>9, <3>1, <3>2 DEF SlashFree
  <2>2. CASE a < i /\ i < b
    <3>1. i - Len(f) \in 1..Len(ns) /\ Len(f) + (i - Len(f)) = i /\ i \in 1..Len(q)
      BY <1>3, <1>5, <1>8, <1>9, <2>2
    <3>2. k[i] = ns[i - Len(f)]
      BY <1>5, <1>6, <3>1
    <3> QED
      BY <1>9, <3>1, <3>2 DEF SlashFree
  <2>3. CASE b < i
    <3>1. i - Len(q) \in 1..Len(rest) /\ Len(q) + (i - Len(q)) = i
      BY <1>3, <1>5, <1>6, <1>8, <1>9, <2>3
    <3>2. k[i] = rest[i - Len(q)]
      BY <1>6, <3>1
    <3> QED
      BY <1>9, <3>1, <3>2 DEF SlashFree
  <2>4. a \in Nat /\ b \in Nat /\ i \in Nat
    BY <1>6, <1>8, <1>9
  <2> HIDE DEF a, b
  <2>5. i < a \/ i = a \/ (a < i /\ i < b) \/ i = b \/ b < i
    BY <2>4
  <2> QED
    BY <2>1, <2>2, <2>3, <2>5
\* So the prefix's two slashes are those.
<1> DEFINE c == Len(h) + Len(m) + 1
           d == c + Len(ms) + 1
<1>10. /\ c \in (Len(h) + 1)..Len(k) /\ k[c] = "/"
       /\ d \in (Len(h) + 1)..Len(k) /\ k[d] = "/"
       /\ c < d
  <2>1. c \in 1..Len(g) /\ c \in 1..Len(p) /\ d \in 1..Len(p) /\ d = Len(g) + Len(ms) + 1 /\ c < d
    BY <1>2, <1>4, <1>8
  <2>2. k[c] = "/" /\ k[d] = "/"
    BY <1>2, <1>4, <1>7, <2>1
  <2> QED
    BY <1>2, <1>4, <1>7, <1>8, <2>1, <2>2
<1>11. c = a /\ d = b
  <2>1. (c = a \/ c = b) /\ (d = a \/ d = b)
    BY <1>9, <1>10
  <2> QED
    BY <1>8, <1>10, <2>1
<1>12. Len(m) = Len(n) /\ Len(ms) = Len(ns) /\ Len(g) = Len(f) /\ Len(p) = Len(q)
  <2>1. Len(m) = Len(n)
    BY <1>8, <1>11
  <2>2. Len(ms) = Len(ns)
    BY <1>8, <1>11, <2>1
  <2> QED
    BY <1>2, <1>3, <1>4, <1>5, <2>1, <2>2
<1>13. \A j \in 1..Len(m) : m[j] = n[j]
  <2> SUFFICES ASSUME NEW j \in 1..Len(m) PROVE m[j] = n[j]
    OBVIOUS
  <2>1. Len(h) + j \in 1..Len(g) /\ Len(h) + j \in 1..Len(p)
    BY <1>2, <1>4, <1>8
  <2>2. m[j] = k[Len(h) + j]
    BY <1>2, <1>4, <1>7, <2>1
  <2>3. n[j] = k[Len(h) + j]
    BY <1>3, <1>5, <1>6, <1>12, <2>1
  <2> QED
    BY <2>2, <2>3
<1>14. \A j \in 1..Len(ms) : ms[j] = ns[j]
  <2> SUFFICES ASSUME NEW j \in 1..Len(ms) PROVE ms[j] = ns[j]
    OBVIOUS
  <2>1. Len(g) + j \in 1..Len(p)
    BY <1>2, <1>4, <1>8
  <2>2. ms[j] = k[Len(g) + j]
    BY <1>4, <1>7, <2>1
  <2>3. ns[j] = k[Len(g) + j]
    BY <1>5, <1>6, <1>12, <2>1
  <2> QED
    BY <2>2, <2>3
<1>15. m = n
  BY <1>13, SameNames, <1>12
<1>16. ms = ns
  BY <1>14, SameNames, <1>12
<1> QED
  BY <1>15, <1>16

\* What is joined to a prefix is covered by it.
LEMMA CoversJoined ==
    ASSUME NEW s \in Seq(Pieces), NEW t \in Seq(Pieces)
    PROVE  Covers(s, s \o t)
<1>1. /\ s \o t \in Seq(Pieces) /\ Len(s \o t) = Len(s) + Len(t)
      /\ \A j \in 1..Len(s) : (s \o t)[j] = s[j]
  BY Joined
<1>2. Len(s) <= Len(s \o t)
  BY <1>1
<1> DEFINE k == s \o t
<1> HIDE DEF k
<1>3. k \in Seq(Pieces) /\ Len(s) <= Len(k) /\ \A j \in 1..Len(s) : s[j] = k[j]
  BY <1>1, <1>2 DEF k
<1>4. Covers(s, k)
  BY <1>3, CoversByPieces
<1> QED
  BY <1>4 DEF k

GlobalHead    == <<"config", "/", "global", "/">>
NamespaceHead == <<"config", "/", "namespaces", "/">>
ServiceHead   == <<"config", "/", "services", "/">>

HeadOf(scope) ==
    CASE scope = "global" -> "global"
      [] scope = "namespace" -> "namespaces"
      [] OTHER -> "services"

\* A key or a prefix of config items of some scope.
Begins(key, third) ==
    key \in Seq(Pieces) /\ Len(key) >= 4 /\ key[1] = "config" /\ key[3] = third

LEMMA Heads ==
    /\ Begins(GlobalHead, "global")
    /\ Begins(NamespaceHead, "namespaces")
    /\ Begins(ServiceHead, "services")
    /\ Slash \in Seq(Pieces)
<1>1. GlobalHead \in Seq(Pieces) /\ NamespaceHead \in Seq(Pieces) /\ ServiceHead \in Seq(Pieces)
  BY DEF GlobalHead, NamespaceHead, ServiceHead, Pieces
<1>2. /\ Len(GlobalHead) = 4 /\ GlobalHead[1] = "config" /\ GlobalHead[3] = "global"
      /\ Len(NamespaceHead) = 4 /\ NamespaceHead[1] = "config" /\ NamespaceHead[3] = "namespaces"
      /\ Len(ServiceHead) = 4 /\ ServiceHead[1] = "config" /\ ServiceHead[3] = "services"
  BY DEF GlobalHead, NamespaceHead, ServiceHead
<1>3. Slash \in Seq(Pieces)
  BY DEF Slash, Pieces
<1> QED
  BY <1>1, <1>2, <1>3 DEF Begins

LEMMA BeginsJoined ==
    ASSUME NEW h, NEW third, Begins(h, third), NEW t \in Seq(Pieces)
    PROVE  Begins(h \o t, third)
<1>1. h \in Seq(Pieces) /\ Len(h) >= 4 /\ h[1] = "config" /\ h[3] = third
  BY DEF Begins
<1>2. /\ h \o t \in Seq(Pieces) /\ Len(h \o t) = Len(h) + Len(t)
      /\ \A j \in 1..Len(h) : (h \o t)[j] = h[j]
  BY <1>1, Joined
<1>3. 1 \in 1..Len(h) /\ 3 \in 1..Len(h) /\ Len(h \o t) >= 4
  BY <1>1, <1>2
<1> QED
  BY <1>1, <1>2, <1>3 DEF Begins

LEMMA PrefixBegins ==
    ASSUME NEW sc \in Scopes, NEW n \in Seq(Pieces), NEW s \in Seq(Pieces)
    PROVE  Begins(ConfigPrefix(sc, n, s), HeadOf(sc))
<1>1. CASE sc = "global"
  BY <1>1, Heads DEF ConfigPrefix, GlobalHead, HeadOf
<1>2. CASE sc = "namespace"
  <2>1. Begins(NamespaceHead \o n \o Slash, "namespaces")
    BY Heads, BeginsJoined
  <2> QED
    BY <1>2, <2>1 DEF ConfigPrefix, NamespaceHead, HeadOf
<1>3. CASE sc = "service"
  <2>1. Begins(ServiceHead \o n \o Slash \o s \o Slash, "services")
    BY Heads, BeginsJoined
  <2> QED
    BY <1>3, <2>1 DEF ConfigPrefix, ServiceHead, HeadOf
<1> QED
  BY <1>1, <1>2, <1>3 DEF Scopes

LEMMA TargetPieces ==
    ASSUME NEW t \in Target
    PROVE  t.namespace \in Seq(Pieces) /\ t.service \in Seq(Pieces) /\ t.name \in Seq(Pieces)
<1>1. Texts \subseteq Pieces
  BY DEF Pieces
<1>2. t.namespace \in Seq(Texts) /\ t.service \in Seq(Texts) /\ t.name \in Seq(Texts)
  BY DEF Target
<1> QED
  BY <1>1, <1>2

LEMMA KeyByScope ==
    ASSUME NEW t \in Target, t.scope \in Scopes
    PROVE  /\ t.scope = "global" => KeyOf(t) = GlobalHead \o t.name
           /\ t.scope = "namespace" => KeyOf(t) = NamespaceHead \o t.namespace \o Slash \o t.name
           /\ t.scope = "service" =>
                 KeyOf(t) = ServiceHead \o t.namespace \o Slash \o t.service \o Slash \o t.name
           /\ Begins(KeyOf(t), HeadOf(t.scope))
<1>1. /\ t.scope = "global" => KeyOf(t) = GlobalHead \o t.name
      /\ t.scope = "namespace" => KeyOf(t) = NamespaceHead \o t.namespace \o Slash \o t.name
      /\ t.scope = "service" =>
             KeyOf(t) = ServiceHead \o t.namespace \o Slash \o t.service \o Slash \o t.name
  BY DEF KeyOf, ConfigKey, GlobalHead, NamespaceHead, ServiceHead
<1>2. t.namespace \in Seq(Pieces) /\ t.service \in Seq(Pieces) /\ t.name \in Seq(Pieces)
  BY TargetPieces
<1>3. Begins(GlobalHead \o t.name, "global")
  BY <1>2, Heads, BeginsJoined
<1>4. Begins(NamespaceHead \o t.namespace \o Slash \o t.name, "namespaces")
  BY <1>2, Heads, BeginsJoined
<1>5. Begins(ServiceHead \o t.namespace \o Slash \o t.service \o Slash \o t.name, "services")
  BY <1>2, Heads, BeginsJoined
<1> QED
  BY <1>1, <1>3, <1>4, <1>5 DEF HeadOf, Scopes

\* The item of a target is listed by what it belongs to.
BelongsTo(t, sc, n, s) ==
    /\ t.scope = sc
    /\ t.scope # "global" => t.namespace = n
    /\ t.scope = "service" => t.service = s

LEMMA CoveredBelong ==
    ASSUME NEW t \in Target, NEW item, ValidItem(t, item),
           NEW sc \in Scopes, NEW n \in Seq(Pieces), NEW s \in Seq(Pieces)
    PROVE  Covers(ConfigPrefix(sc, n, s), KeyOf(t)) <=> BelongsTo(t, sc, n, s)
<1> DEFINE p == ConfigPrefix(sc, n, s)
           k == KeyOf(t)
<1>1. t.namespace \in Seq(Pieces) /\ t.service \in Seq(Pieces) /\ t.name \in Seq(Pieces)
  BY TargetPieces
<1>2. t.scope \in Scopes
  BY DEF ValidItem
<1>3. /\ SlashFree(t.name)
      /\ t.scope # "global" => SlashFree(t.namespace)
      /\ t.scope = "service" => SlashFree(t.service)
  BY NameAssumption, AdminAssumption
     DEF ValidItem, ValidNamespaceName, ValidServiceName, SlashFree
<1>4. Begins(p, HeadOf(sc)) /\ Begins(k, HeadOf(t.scope))
  BY <1>2, PrefixBegins, KeyByScope
<1>5. ASSUME Covers(p, k) PROVE t.scope = sc
  <2> HIDE DEF p, k
  <2>1. p \in Seq(Pieces) /\ k \in Seq(Pieces) /\ 3 \in 1..Len(p)
    BY <1>4 DEF Begins
  <2>2. p[3] = k[3]
    BY <1>5, <2>1, CoversByPieces
  <2> QED
    BY <1>2, <1>4, <2>2 DEF Begins, HeadOf, Scopes
<1>6. CASE t.scope = "global"
  <2>1. ASSUME sc = "global" PROVE Covers(p, k)
    <3>1. p = GlobalHead /\ k = GlobalHead \o t.name
      BY <1>2, <1>6, <2>1, KeyByScope DEF ConfigPrefix, GlobalHead
    <3> QED
      BY <1>1, <3>1, Heads, CoversJoined DEF Begins
  <2> QED
    BY <1>5, <1>6, <2>1 DEF BelongsTo
<1>7. CASE t.scope = "namespace"
  <2> DEFINE q == NamespaceHead \o n \o Slash
  <2>1. sc = "namespace" => p = q
    BY DEF ConfigPrefix, NamespaceHead
  <2>2. k = NamespaceHead \o t.namespace \o Slash \o t.name /\ NamespaceHead \in Seq(Pieces)
    BY <1>2, <1>7, KeyByScope, Heads DEF Begins
  <2>3. ASSUME sc = "namespace", Covers(p, k) PROVE n = t.namespace
    <3>1. Covers(NamespaceHead \o n \o Slash, NamespaceHead \o t.namespace \o Slash \o t.name)
      BY <2>1, <2>2, <2>3
    <3>2. SlashFree(t.namespace) /\ SlashFree(t.name)
      BY <1>3, <1>7
    <3> QED
      BY <1>1, <2>2, <3>1, <3>2, OneName
  <2>4. ASSUME sc = "namespace", n = t.namespace PROVE Covers(p, k)
    <3>1. q \in Seq(Pieces)
      BY <2>2, Heads
    <3>2. k = q \o t.name
      BY <2>2, <2>4
    <3> QED
      BY <1>1, <2>1, <2>4, <3>1, <3>2, CoversJoined
  <2> QED
    BY <1>5, <1>7, <2>3, <2>4 DEF BelongsTo
<1>8. CASE t.scope = "service"
  <2> DEFINE q == ServiceHead \o n \o Slash \o s \o Slash
  <2>1. sc = "service" => p = q
    BY DEF ConfigPrefix, ServiceHead
  <2>2. /\ k = ServiceHead \o t.namespace \o Slash \o t.service \o Slash \o t.name
        /\ ServiceHead \in Seq(Pieces)
    BY <1>2, <1>8, KeyByScope, Heads DEF Begins
  <2>3. ASSUME sc = "service", Covers(p, k) PROVE n = t.namespace /\ s = t.service
    <3>1. Covers(ServiceHead \o n \o Slash \o s \o Slash,
                 ServiceHead \o t.namespace \o Slash \o t.service \o Slash \o t.name)
      BY <2>1, <2>2, <2>3
    <3>2. SlashFree(t.namespace) /\ SlashFree(t.service) /\ SlashFree(t.name)
      BY <1>3, <1>8
    <3> QED
      BY <1>1, <2>2, <3>1, <3>2, TwoNames
  <2>4. ASSUME sc = "service", n = t.namespace, s = t.service PROVE Covers(p, k)
    <3>1. q \in Seq(Pieces)
      BY <1>4, <2>1, <2>4 DEF Begins
    <3>2. k = q \o t.name
      BY <2>2, <2>4
    <3> QED
      BY <1>1, <2>1, <2>4, <3>1, <3>2, CoversJoined
  <2> QED
    BY <1>5, <1>8, <2>3, <2>4 DEF BelongsTo
<1> QED
  BY <1>2, <1>6, <1>7, <1>8 DEF Scopes

LEMMA OtherKinds ==
    ASSUME NEW k \in AuditKeys \cup NamespaceKeys,
           NEW sc \in Scopes, NEW n \in Seq(Pieces), NEW s \in Seq(Pieces)
    PROVE  ~Covers(ConfigPrefix(sc, n, s), k)
<1> DEFINE p == ConfigPrefix(sc, n, s)
<1>1. k \in Seq(Pieces \cup Nat) /\ k # <<>> /\ k[1] # "config"
  <2>1. CASE k \in NamespaceKeys
    <3>1. PICK m \in Seq(Texts) : k = <<"namespaces", "/">> \o m
      BY <2>1, AdminAssumption DEF NamespaceKeys, NamespaceKey
    <3> QED
      BY <3>1 DEF Pieces
  <2>2. CASE k \in AuditKeys
    <3>1. PICK m \in 1..MaxId : k = <<"audit", "/">> \o <<m>>
      BY <2>2 DEF AuditKeys, AuditKey
    <3>2. m \in Nat
      <4>1. MaxId \in Nat
        BY AdminAssumption
      <4> QED
        BY <4>1
    <3> QED
      BY <3>1, <3>2 DEF Pieces
  <2> QED
    BY <2>1, <2>2
<1>2. p \in Seq(Pieces) /\ Len(p) >= 4 /\ p[1] = "config"
  BY PrefixBegins DEF Begins
<1> HIDE DEF p
<1>3. ASSUME Covers(p, k) PROVE FALSE
  <2>1. Len(p) <= Len(k) /\ SubSeq(p, 1, Len(p)) = SubSeq(k, 1, Len(p))
    BY <1>3, <1>2 DEF Covers
  <2>2. SubSeq(p, 1, Len(p))[1] = p[1]
    BY <1>2
  <2>3. SubSeq(k, 1, Len(p))[1] = k[1]
    BY <1>1, <1>2, <2>1
  <2> QED
    BY <1>1, <1>2, <2>1, <2>2, <2>3
<1> QED
  BY <1>3 DEF p

\* For any names, keys and requests, the listing of config items holds those
\* of the scope, the namespace and the service it is about and no other.
THEOREM ListingsBelong == Spec => []ListedBelong
<1>1. ASSUME TInv, NEW p \in Procs, pc[p] = "list", req[p].action = "list_config"
      PROVE  Listed(req[p]) =
             {k \in ConfigItemKeys :
                 /\ Present(k)
                 /\ LET t == kv[k].value.target IN
                    /\ t.scope = ScopeShown(req[p])
                    /\ t.scope # "global" => t.namespace = NamespaceShown(req[p])
                    /\ t.scope = "service" => t.service = req[p].target.service}
  <2> DEFINE sc == ScopeShown(req[p])
             n == NamespaceShown(req[p])
             s == req[p].target.service
  <2>1. req[p] \in Request /\ Ready(p)
    BY <1>1 DEF TInv, IInv, Accounted
  <2>2. sc \in Scopes
    BY <1>1, <2>1 DEF Ready
  <2>3. n \in Seq(Pieces) /\ s \in Seq(Pieces)
    <3>1. req[p].target \in Target
      BY <2>1 DEF Request
    <3>2. req[p].target.namespace \in Seq(Pieces) /\ s \in Seq(Pieces)
      BY <3>1, TargetPieces
    <3>3. <<"default">> \in Seq(Pieces)
      BY DEF Pieces
    <3> QED
      BY <3>2, <3>3 DEF NamespaceShown
  <2>4. PrefixOf(req[p]) = ConfigPrefix(sc, n, s)
    BY <1>1 DEF PrefixOf
  <2> HIDE DEF sc, n, s
  <2>5. \A k \in Keys \ ConfigItemKeys : ~Covers(ConfigPrefix(sc, n, s), k)
    BY <2>2, <2>3, OtherKinds DEF ConfigItemKeys
  <2>6. ASSUME NEW k \in ConfigItemKeys, Present(k)
        PROVE  Covers(ConfigPrefix(sc, n, s), k) <=> BelongsTo(kv[k].value.target, sc, n, s)
    <3>1. ProperItem(k, kv[k].value)
      BY <1>1, <2>6 DEF TInv, Stored
    <3> QED
      BY <2>2, <2>3, <3>1, CoveredBelong DEF ProperItem
  <2>7. ConfigItemKeys \subseteq Keys
    BY DEF ConfigItemKeys
  <2>8. Listed(req[p]) = {k \in ConfigItemKeys : Present(k) /\ BelongsTo(kv[k].value.target, sc, n, s)}
    BY <2>4, <2>5, <2>6, <2>7 DEF Listed
  <2> QED
    BY <2>8 DEF BelongsTo, sc, n, s
<1>2. TInv => ListedBelong
  BY <1>1 DEF ListedBelong
<1> QED
  BY <1>2, InitTInv, StepKeepsTInv, PTL DEF Spec
=============================================================================
