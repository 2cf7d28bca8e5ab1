------------------------------ MODULE Provider ------------------------------
(***************************************************************************)
(* Business services that use the provider SDK (pkg/provider): each        *)
(* registers, beats in RunHeartbeatLoop until the first error, and may     *)
(* deregister when it shuts down.  The registry behind the transport is    *)
(* Registry, call by call; what is added is time (lease countdowns, the    *)
(* loop's ticker, the age of a request), the answers and their loss, the   *)
(* generated instance ids and restarts of the server.                      *)
(*                                                                         *)
(* A provider has one request at a time, as the SDK's calls wait for their *)
(* answers, so its requests and the goroutines that serve them share p.    *)
(***************************************************************************)
EXTENDS Registry, FiniteSets

CONSTANTS
    Prompt,         \* the providers that beat on time and wait at most Delay
    Generated,      \* [1..n -> Keys]: the keys of generated ids, in order
    Named,          \* [Procs -> SUBSET Keys]: ids a provider may ask for
    AskedTTL,       \* [Procs -> Int]: leaseTTLSeconds of its registrations
    DefaultTTL, Interval, Delay,
    MaxRestarts     \* bound: restarts of the server

TTLOf(asked) == IF asked <= 0 THEN DefaultTTL ELSE asked

\* A service that has nothing to say of probes.
NoClaim == [fails |-> 0, succs |-> 0]

\* Only the SDK's own services use the registry here, and they beat.  The
\* answer to Register, the ticker's first tick and the keep-alive of the
\* first heartbeat all lie between the grant of a lease and its renewal.
ASSUME ProviderAssumption ==
    /\ Prompt \subseteq Procs
    /\ DOMAIN Generated \subseteq Nat /\ \A n \in DOMAIN Generated : Generated[n] \in Keys
    /\ \A p \in Procs : Named[p] \subseteq Keys /\ AskedTTL[p] \in Int
    /\ Modes = {"heartbeat"} /\ NoClaim \in Counters /\ Data # {}
    /\ {"register", "update", "heartbeat", "deregister"} \subseteq Ops
    /\ DefaultTTL \in Nat /\ Interval \in Nat \ {0} /\ Delay \in Nat /\ MaxRestarts \in Nat
    /\ \A p \in Prompt : TTLOf(AskedTTL[p]) > Interval + 2 * Delay

ASSUME NoInstanceAssumption == NoInstance \notin [key : Keys, born : Nat]

VARIABLES
    counter,    \* idCounter of the server
    restarts,
    stage,      \* where each provider is in its life
    own,        \* the key and birth of the instance it was told it has
    wait,       \* time until the ticker of its loop fires
    age,        \* time its request is under way
    ttl, left   \* [Leases -> Nat]: what a lease was granted for, what is left

client == <<stage, own, wait>>
providerVars == <<vars, counter, restarts, client, age, ttl, left>>

Stages == {"new", "registering", "looping", "leaving", "ended", "visiting"}

ProviderInit ==
    /\ Init
    /\ counter = 0 /\ restarts = 0
    /\ stage = [p \in Procs |-> "new"]
    /\ own = [p \in Procs |-> NoInstance]
    /\ wait = [p \in Procs |-> 0] /\ age = [p \in Procs |-> 0]
    /\ ttl = [l \in Leases |-> 0] /\ left = [l \in Leases |-> 0]

Become(p, s) == stage' = [stage EXCEPT ![p] = s]

Send(p, r) ==
    /\ Receive(p, r)
    /\ UNCHANGED <<restarts, own, age, ttl, left>>

-----------------------------------------------------------------------------
(* Requests.                                                               *)

Registration(k) ==
    [op |-> "register", key |-> k, lease |-> NoLease,
     inst |-> NewInstance("heartbeat", "health", CHOOSE d \in Data : TRUE, received + 1,
                          NoClaim)]

\* Bound: no registration finds the lease ids of the model used up.
LeaseLeft ==
    Cardinality({p \in Procs : stage[p] = "registering" /\ held[p] = NoLease})
        < Cardinality({l \in Leases : leases[l] = "free"})

\* Mutant: the counter is read but does not advance.
RegisterUnnamedKept(p) ==
    /\ stage[p] = "new"
    /\ LeaseLeft
    /\ counter + 1 \in DOMAIN Generated
    /\ Send(p, Registration(Generated[counter + 1]))
    /\ Become(p, "registering")
    /\ UNCHANGED <<counter, wait>>

\* newInstanceID: the service's name and the next number of the counter.
RegisterUnnamed(p) ==
    /\ stage[p] = "new"
    /\ LeaseLeft
    /\ counter + 1 \in DOMAIN Generated
    /\ counter' = counter + 1
    /\ Send(p, Registration(Generated[counter + 1]))
    /\ Become(p, "registering")
    /\ UNCHANGED wait

RegisterNamed(p) ==
    /\ stage[p] = "new"
    /\ LeaseLeft
    /\ \E k \in Named[p] : Send(p, Registration(k))
    /\ Become(p, "registering")
    /\ UNCHANGED <<counter, wait>>

\* One turn of RunHeartbeatLoop.  The ticker does not wait for the answer.
Beat(p) ==
    /\ stage[p] = "looping"
    /\ wait[p] = 0
    /\ Send(p, [op |-> "heartbeat", key |-> own[p].key])
    /\ wait' = [wait EXCEPT ![p] = Interval]
    /\ UNCHANGED <<counter, stage>>

\* The loop's context is cancelled, and the service deregisters.
Leave(p) ==
    /\ stage[p] = "looping"
    /\ Send(p, [op |-> "deregister", key |-> own[p].key])
    /\ Become(p, "leaving")
    /\ UNCHANGED <<counter, wait>>

\* An operator changes an instance whose revision it has just seen.
Visit(p) ==
    /\ stage[p] = "new"
    /\ \E k \in Keys, d \in Data :
          /\ Present(k)
          /\ Send(p, [op |-> "update", key |-> k, data |-> d, expected |-> kv[k].mod])
    /\ Become(p, "visiting")
    /\ UNCHANGED <<counter, wait>>

\* A service whose loop has returned starts over.
Again(p) ==
    /\ stage[p] = "ended"
    /\ Become(p, "new")
    /\ UNCHANGED <<vars, counter, restarts, own, wait, age, ttl, left>>

-----------------------------------------------------------------------------
(* Answers: an instance, or an error (a status of 300 or more, a gRPC      *)
(* status, no answer at all), which the SDK hands to its caller.           *)

Hearing(p, ok) ==
    CASE stage[p] = "registering" -> IF ok THEN "looping" ELSE "new"
      [] stage[p] = "looping"     -> IF ok THEN "looping" ELSE "ended"
      [] stage[p] = "leaving"     -> "ended"
      [] stage[p] = "visiting"    -> "new"

\* A loop begins with the instance of the answer and a new ticker.
Hear(p, ok) ==
    LET begins == stage[p] = "registering" /\ ok
        goesOn == stage[p] = "looping" /\ ok IN
    /\ Become(p, Hearing(p, ok))
    /\ own' = [own EXCEPT ![p] = IF begins THEN [key |-> Key(p), born |-> inst[p].born]
                                 ELSE IF goesOn THEN @ ELSE NoInstance]
    /\ wait' = [wait EXCEPT ![p] = IF begins THEN Interval ELSE IF goesOn THEN @ ELSE 0]

\* The operation's last call went well.
Succeeded(p) ==
    CASE pc[p] = "create" -> kv'[Key(p)] # kv[Key(p)]
      [] pc[p] = "put"    -> kv'[Key(p)] # kv[Key(p)]
      [] OTHER            -> FALSE

\* Mutant: a keep-alive that renews nothing.
RenewedNot(p, l) == left[l]

\* A grant starts a countdown; a keep-alive that went through starts it anew.
Renewed(p, l) ==
    IF pc[p] = "keepalive" /\ pc'[p] = "put" /\ l = held[p] THEN ttl[l] ELSE left[l]

Granted(l) == leases[l] = "free" /\ leases'[l] = "live"

Countdowns(p) ==
    /\ ttl' = [l \in Leases |-> IF Granted(l) THEN TTLOf(AskedTTL[p])
                                ELSE IF leases'[l] = "live" THEN ttl[l] ELSE 0]
    /\ left' = [l \in Leases |-> IF Granted(l) THEN ttl'[l]
                                 ELSE IF leases'[l] = "live" THEN Renewed(p, l) ELSE 0]

Serve(p) ==
    /\ Step(p)
    /\ Countdowns(p)
    /\ IF pc'[p] = "idle"
       THEN \E heard \in BOOLEAN : Hear(p, heard /\ Succeeded(p))
       ELSE UNCHANGED client
    /\ age' = [age EXCEPT ![p] = IF pc'[p] = "idle" THEN 0 ELSE @]
    /\ UNCHANGED <<counter, restarts>>

Fail(p) ==
    /\ Abort(p)
    /\ Hear(p, FALSE)
    /\ age' = [age EXCEPT ![p] = 0]
    /\ UNCHANGED <<counter, restarts, ttl, left>>

\* The server comes back with a fresh counter, after its requests failed.
Restart ==
    /\ restarts < MaxRestarts
    /\ restarts' = restarts + 1
    /\ counter' = 0
    /\ \A p \in Procs : pc[p] = "idle"
    /\ UNCHANGED <<vars, client, age, ttl, left>>

-----------------------------------------------------------------------------
(* Time.                                                                   *)

Due(p) == pc[p] = "idle" /\ stage[p] = "looping" /\ wait[p] = 0

\* A service whose heartbeat is due when the requests of this model are spent
\* is taken to be gone.
Gone(p) == Due(p) /\ received = MaxRequests

\* No prompt provider has a tick to attend to or a request older than Delay.
OnTime(p) ==
    /\ Due(p) => Gone(p)
    /\ pc[p] # "idle" => age[p] < Delay

LessAnyway(n) == n - 1          \* mutant: a countdown goes on below zero

Less(n) == IF n > 0 THEN n - 1 ELSE 0

Tick ==
    /\ \A p \in Prompt : OnTime(p)
    /\ left' = [l \in Leases |-> Less(left[l])]
    /\ wait' = [p \in Procs |-> Less(wait[p])]
    /\ age' = [p \in Procs |-> IF p \in Prompt /\ pc[p] # "idle" /\ age[p] < Delay
                               THEN age[p] + 1 ELSE age[p]]
    /\ UNCHANGED <<vars, counter, restarts, stage, own, ttl>>

RunOut(l) ==
    /\ left[l] = 0
    /\ Expire(l)
    /\ ttl' = [ttl EXCEPT ![l] = 0]
    /\ UNCHANGED <<counter, restarts, client, age, left>>

Open(n, m) ==
    /\ SetAccessMode(n, m)
    /\ UNCHANGED <<counter, restarts, client, age, ttl, left>>

ProviderNext ==
    \/ \E p \in Procs :
          \/ RegisterUnnamed(p) \/ RegisterNamed(p) \/ Beat(p) \/ Leave(p)
          \/ Visit(p) \/ Again(p) \/ Serve(p) \/ Fail(p)
    \/ \E l \in Leases : RunOut(l)
    \/ \E n \in Namespaces, m \in AccessModes : Open(n, m)
    \/ Restart \/ Tick

ProviderSpec == ProviderInit /\ [][ProviderNext]_providerVars

\* Goroutines that can run do, tickers fire, time passes, and leases that ran
\* out end.
FairProviderSpec ==
    /\ ProviderSpec
    /\ \A p \in Procs : WF_providerVars(Serve(p))
    /\ \A p \in Prompt : WF_providerVars(Beat(p))
    /\ \A l \in Leases : WF_providerVars(RunOut(l))
    /\ WF_providerVars(Tick)

-----------------------------------------------------------------------------
(* Properties.                                                             *)

\* Every request of a provider is answered, whatever expires meanwhile.
RequestsAnswered == \A p \in Procs : []<>(pc[p] = "idle")

\* When the services have stopped sending requests their instances disappear:
\* nothing they did leaves a heartbeat instance behind that outlives its lease.
SilentDisappear == <>[](\A k \in Keys : ~Present(k))

\* The types of what this module adds to Registry.
ProviderTypeOK ==
    /\ counter \in Nat /\ restarts \in 0..MaxRestarts
    /\ stage \in [Procs -> Stages]
    /\ own \in [Procs -> [key : Keys, born : Nat] \cup {NoInstance}]
    /\ wait \in [Procs -> 0..Interval] /\ age \in [Procs -> 0..Delay]
    /\ ttl \in [Leases -> Nat] /\ left \in [Leases -> Nat]

\* While its heartbeat loop runs on time, a provider's own instance is there:
\* its lease never runs out under it, neither before the first heartbeat nor
\* while a heartbeat is at its calls, and no request of another service takes
\* it away.
Registered(p) ==
    LET k == own[p].key IN
    Present(k) /\ kv[k].value.born = own[p].born /\ LeaseUsable(kv[k].lease)

WellStaysRegistered ==
    \A p \in Prompt : stage[p] = "looping" /\ ~Gone(p) => Registered(p)

\* So it is as long as the server does not restart.  Afterwards an id is given
\* out again while requests for the instance that had it are under way.
StaysRegistered == restarts = 0 => WellStaysRegistered

\* A heartbeat that goes through is one for the provider's own instance, not
\* for one that took over its id: a late loop learns that its instance has
\* gone.  It needs ids that are not used again, hence no restart in between.
OwnHeartbeats ==
    [][\A p \in Procs : stage[p] = "looping" /\ pc[p] = "put" /\ Succeeded(p) /\ restarts = 0
          => inst[p].born = own[p].born]_providerVars

=============================================================================
