----------------------------- MODULE AgentCards -----------------------------
(***************************************************************************)
(* AgentCards and their capability index (internal/core/service/a2a).  A   *)
(* Put writes the card under a revision check and then, one key at a time, *)
(* removes the index entries of the card it replaced and writes its own;   *)
(* Discover lists the entries of a capability, reads each one's card and   *)
(* looks up the agent's instances.  Administrators discover and list too,  *)
(* whatever the namespace's access mode.                                   *)
(*                                                                         *)
(* One agent of one namespace: agents share neither keys nor entries.  The *)
(* namespace keeps its access mode, and the registry its instances.        *)
(***************************************************************************)
EXTENDS EtcdStore, FiniteSets

CONSTANTS
    Procs,          \* request goroutines
    Capabilities, Services, Protocols,  \* the names that model.Validate* accept
    Offered,        \* cards that callers put, valid or not
    Queries,        \* what callers discover
    Running,        \* instances in the registry, of this agent and of others
    AnyProtocol,
    NoRequest, NoCard, NoAnswer,
    InitialModes,   \* access modes the namespace may have
    MaxAborts,      \* bound: requests that die between two store calls
    MaxRev          \* bound: cards are received below this revision

ASSUME CardsAssumption ==
    /\ Keys = {"card"} \cup Capabilities
    /\ "card" \notin Capabilities
    /\ \A q \in Queries : q.admin \in BOOLEAN /\ q.unhealthy \in BOOLEAN
    /\ \A i \in Running : i.own \in BOOLEAN /\ i.healthy \in BOOLEAN
    /\ MaxAborts \in Nat /\ MaxRev \in Nat

VARIABLES
    mode,       \* access mode of the namespace
    aborts,     \* requests that died
    pc,         \* next store call of each goroutine, or its answer
    req,        \* the request it serves
    previous,   \* the card it read before it replaced it
    todo,       \* capabilities whose entry it has still to remove or write
    entry,      \* the service that the index entry it listed names
    answer,     \* what Discover found
    views,      \* history: the cards stored since it got the request
    overlapped  \* history: a Put came in while another was under way

locals == <<pc, req, previous, todo, entry, answer>>
vars == <<storeVars, mode, aborts, locals, views, overlapped>>

AccessModes == {"read_write", "read_only", "write_only", "no_read_no_write"}
AllowsRead(m)  == m \in {"read_write", "read_only"}
AllowsWrite(m) == m \in {"read_write", "write_only"}

ASSUME ModesAssumption == InitialModes \subseteq AccessModes

AuthModes == {"none", "static_token", "mtls"}

\* A valid card has at least one capability and at least one protocol.
Card == [service : Services, caps : (SUBSET Capabilities) \ {{}},
         protocols : (SUBSET Protocols) \ {{}}, auth : AuthModes]

Request ==
         [op : {"put"}, card : Offered, expected : Nat]
    \cup [op : {"discover"}, query : Queries, indexed : BOOLEAN]
    \cup [op : {"list"}]

Answer == [card : Card, service : Services, instances : SUBSET Running]

ASSUME NoneAssumption == NoCard \notin Card /\ NoRequest \notin Request /\ NoAnswer \notin Answer

Init ==
    /\ StoreInit
    /\ mode \in InitialModes
    /\ aborts = 0
    /\ pc = [p \in Procs |-> "idle"]
    /\ req = [p \in Procs |-> NoRequest]
    /\ previous = [p \in Procs |-> NoCard]
    /\ todo = [p \in Procs |-> {}]
    /\ entry = [p \in Procs |-> NoValue]
    /\ answer = [p \in Procs |-> NoAnswer]
    /\ views = [p \in Procs |-> {}]
    /\ overlapped = FALSE

Goto(p, call) == pc' = [pc EXCEPT ![p] = call]
Putting(p) == req[p] # NoRequest /\ req[p].op = "put"

Receive(p, r) ==
    /\ pc[p] = "idle"
    /\ req' = [req EXCEPT ![p] = r]
    /\ UNCHANGED <<storeVars, mode, aborts, previous, todo, entry, answer>>

-----------------------------------------------------------------------------
(* Put.  The caller passes the revision of the card it knows, 0 for none.  *)

ReceivePut(p) ==
    \E card \in Offered, expected \in {0, kv["card"].mod} :
        /\ rev < MaxRev
        /\ Receive(p, [op |-> "put", card |-> card, expected |-> expected])
        /\ Goto(p, "check_write")

CheckWrite(p) ==
    /\ pc[p] = "check_write"
    /\ Goto(p, IF ~AllowsWrite(mode) THEN "forbidden"
               ELSE IF req[p].card \notin Card THEN "invalid"
               ELSE IF req[p].expected > 0 THEN "check_read" ELSE "write")
    /\ UNCHANGED <<storeVars, mode, aborts, req, previous, todo, entry, answer>>

\* An update reads the card as any business caller would.
CheckRead(p) ==
    /\ pc[p] = "check_read"
    /\ Goto(p, IF AllowsRead(mode) THEN "get" ELSE "forbidden")
    /\ UNCHANGED <<storeVars, mode, aborts, req, previous, todo, entry, answer>>

GetPrevious(p) ==
    /\ pc[p] = "get"
    /\ previous' = [previous EXCEPT ![p] = kv["card"].value]
    /\ Goto(p, "write")
    /\ UNCHANGED <<storeVars, mode, aborts, req, todo, entry, answer>>

\* Mutants: no entry is removed; those of capabilities that stay are not
\* written again; the whole card is stored as the entry.
ToUnindexNone(p)      == {}
ToIndexNew(p)         == IF previous[p] = NoCard THEN req[p].card.caps
                         ELSE req[p].card.caps \ previous[p].caps
EntryWholeCard(p)     == req[p].card

ToUnindex(p)  == IF previous[p] = NoCard THEN {} ELSE previous[p].caps
ToIndex(p)    == req[p].card.caps
EntryOf(p)    == req[p].card.service

\* After the card: the entries to remove, then those to write.
WriteEntries(p) ==
    IF ToUnindex(p) # {}
    THEN /\ todo' = [todo EXCEPT ![p] = ToUnindex(p)]
         /\ Goto(p, "unindex")
    ELSE /\ todo' = [todo EXCEPT ![p] = ToIndex(p)]
         /\ Goto(p, IF ToIndex(p) = {} THEN "ok" ELSE "index")

\* Mutant: the revision that the caller knows is not compared.
WriteCardUnchecked(p) ==
    /\ pc[p] = "write"
    /\ Put("card", req[p].card, NoLease)
    /\ WriteEntries(p)
    /\ UNCHANGED <<mode, aborts, req, previous, entry, answer>>

WriteCard(p) ==
    /\ pc[p] = "write"
    /\ IF req[p].expected = 0
       THEN Create("card", req[p].card, NoLease)
       ELSE CAS("card", req[p].expected, req[p].card, NoLease)
    /\ WriteEntries(p)
    /\ UNCHANGED <<mode, aborts, req, previous, entry, answer>>

WriteRefused(p) ==
    /\ pc[p] = "write"
    /\ CASRefused("card", req[p].expected, NoLease)
    /\ Goto(p, "refused")
    /\ UNCHANGED <<storeVars, mode, aborts, req, previous, todo, entry, answer>>

\* An entry that is not there any more is none the worse.
DeleteEntry(p) ==
    /\ pc[p] = "unindex"
    /\ \E c \in todo[p] :
          /\ IF Present(c) THEN Delete(c) ELSE UNCHANGED storeVars
          /\ IF todo[p] = {c}
             THEN /\ todo' = [todo EXCEPT ![p] = ToIndex(p)]
                  /\ Goto(p, IF ToIndex(p) = {} THEN "ok" ELSE "index")
             ELSE todo' = [todo EXCEPT ![p] = @ \ {c}] /\ UNCHANGED pc
    /\ UNCHANGED <<mode, aborts, req, previous, entry, answer>>

PutEntry(p) ==
    /\ pc[p] = "index"
    /\ \E c \in todo[p] :
          /\ Put(c, EntryOf(p), NoLease)
          /\ todo' = [todo EXCEPT ![p] = @ \ {c}]
          /\ Goto(p, IF todo[p] = {c} THEN "ok" ELSE "index")
    /\ UNCHANGED <<mode, aborts, req, previous, entry, answer>>

-----------------------------------------------------------------------------
(* Discover, by one capability.  The request remembers, for the properties *)
(* only, whether the capability was indexed when it came in.               *)

ReceiveDiscover(p) ==
    \E q \in Queries :
        /\ Receive(p, [op |-> "discover", query |-> q,
                       indexed |-> q.cap \in Capabilities /\ Present(q.cap)])
        /\ Goto(p, "check_discover")

MayRead(p) == req[p].query.admin \/ AllowsRead(mode)

CheckDiscover(p) ==
    /\ pc[p] = "check_discover"
    /\ Goto(p, IF ~MayRead(p) THEN "forbidden"
               ELSE IF req[p].query.cap \notin Capabilities THEN "invalid" ELSE "list")
    /\ UNCHANGED <<storeVars, mode, aborts, req, previous, todo, entry, answer>>

ListEntries(p) ==
    LET c == req[p].query.cap IN
    /\ pc[p] = "list"
    /\ entry' = [entry EXCEPT ![p] = kv[c].value]
    /\ Goto(p, IF Present(c) THEN "get_card" ELSE "ok")
    /\ UNCHANGED <<storeVars, mode, aborts, req, previous, todo, answer>>

Speaks(card, protocol) == protocol = AnyProtocol \/ protocol \in card.protocols

\* Mutant: the card is read as a business caller's.
MayGetAsBusiness(p) == AllowsRead(mode)

\* Reading the card checks the access mode again.
MayGet(p) == MayRead(p)

\* The card is not asked whether it has the capability.
GetCard(p) ==
    /\ pc[p] = "get_card"
    /\ IF MayGet(p) /\ Speaks(kv["card"].value, req[p].query.protocol)
       THEN /\ answer' = [answer EXCEPT ![p] = [card |-> kv["card"].value,
                                               service |-> entry[p], instances |-> {}]]
            /\ Goto(p, "list_instances")
       ELSE /\ Goto(p, IF MayGet(p) THEN "ok" ELSE "forbidden")
            /\ UNCHANGED answer
    /\ UNCHANGED <<storeVars, mode, aborts, req, previous, todo, entry>>

InstancesFound(p) ==
    {i \in Running : i.service = entry[p] /\ i.own /\ (i.healthy \/ req[p].query.unhealthy)}

ListInstances(p) ==
    /\ pc[p] = "list_instances"
    /\ answer' = [answer EXCEPT ![p].instances = InstancesFound(p)]
    /\ Goto(p, "ok")
    /\ UNCHANGED <<storeVars, mode, aborts, req, previous, todo, entry>>

\* The administrators' list, and the console's page.
ReceiveList(p) ==
    /\ Receive(p, [op |-> "list"])
    /\ Goto(p, "list_cards")

ListCards(p) ==
    /\ pc[p] = "list_cards"
    /\ answer' = [answer EXCEPT ![p] =
          IF Present("card")
          THEN [card |-> kv["card"].value, service |-> kv["card"].value.service, instances |-> {}]
          ELSE NoAnswer]
    /\ Goto(p, "ok")
    /\ UNCHANGED <<storeVars, mode, aborts, req, previous, todo, entry>>

-----------------------------------------------------------------------------

Forget(p) ==
    /\ Goto(p, "idle")
    /\ req' = [req EXCEPT ![p] = NoRequest]
    /\ previous' = [previous EXCEPT ![p] = NoCard]
    /\ todo' = [todo EXCEPT ![p] = {}]
    /\ entry' = [entry EXCEPT ![p] = NoValue]
    /\ answer' = [answer EXCEPT ![p] = NoAnswer]
    /\ UNCHANGED <<storeVars, mode>>

Answered == {"ok", "refused", "forbidden", "invalid"}

Return(p) ==
    /\ pc[p] \in Answered
    /\ Forget(p)
    /\ UNCHANGED aborts

\* A store call fails, or the server goes down: what was written stays.
Abort(p) ==
    /\ pc[p] \notin Answered \cup {"idle"}
    /\ aborts < MaxAborts
    /\ aborts' = aborts + 1
    /\ Forget(p)

Step ==
    \E p \in Procs :
       \/ ReceivePut(p) \/ CheckWrite(p) \/ CheckRead(p) \/ GetPrevious(p)
       \/ WriteCard(p) \/ WriteRefused(p) \/ DeleteEntry(p) \/ PutEntry(p)
       \/ ReceiveDiscover(p) \/ CheckDiscover(p) \/ ListEntries(p) \/ GetCard(p)
       \/ ListInstances(p) \/ ReceiveList(p) \/ ListCards(p)
       \/ Return(p) \/ Abort(p)

Watched ==
    /\ views' = [p \in Procs |-> IF pc'[p] = "idle" THEN {}
                                 ELSE views[p] \cup {kv'["card"].value}]
    /\ overlapped' = (overlapped \/ \E p, q \in Procs : p # q /\ Putting(p)' /\ Putting(q)')

Next == Step /\ Watched

Spec == Init /\ [][Next]_vars

-----------------------------------------------------------------------------

Calls == {"idle", "check_write", "check_read", "get", "write", "unindex", "index",
          "check_discover", "list", "get_card", "list_instances", "list_cards"}

StoredAt(k) == IF k = "card" THEN Card ELSE Services

TypeOK ==
    /\ \A k \in Keys : Present(k) => kv[k].value \in StoredAt(k)
    /\ mode \in AccessModes /\ aborts \in Nat
    /\ pc \in [Procs -> Calls \cup Answered]
    /\ req \in [Procs -> Request \cup {NoRequest}]
    /\ previous \in [Procs -> Card \cup {NoCard}]
    /\ todo \in [Procs -> SUBSET Capabilities]
    /\ entry \in [Procs -> Services \cup {NoValue}]
    /\ answer \in [Procs -> Answer \cup {NoAnswer}]

CapsStored == IF Present("card") THEN kv["card"].value.caps ELSE {}

Indexed(c)  == Present(c) /\ Present("card") /\ kv[c].value = kv["card"].value.service
IndexExact  == \A c \in Capabilities : IF c \in CapsStored THEN Indexed(c) ELSE ~Present(c)

\* With no Put under way the index has the entries of the stored card, and no
\* others (a2a Put: "refreshes its capability index entries").
IndexIsExact == (\A p \in Procs : ~Putting(p)) => IndexExact

\* So it is as long as callers put one card at a time and none of them dies:
\* whatever the sequence of creations, updates, conflicts and refusals.
SerialIndexIsExact == ~overlapped /\ aborts = 0 => IndexIsExact

\* A Put that is acknowledged left the index exact, even if Puts before it
\* died half way: the caller's next try makes up for what they left.
AcknowledgedIsExact == \A p \in Procs : Putting(p) /\ pc[p] = "ok" => IndexExact

\* A Put that is acknowledged has every capability of its card indexed, even
\* if Puts before it died half way, as long as no two of them overlapped.
AcknowledgedIsIndexed ==
    ~overlapped => \A p \in Procs : Putting(p) /\ pc[p] = "ok" => \A c \in CapsStored : Indexed(c)

\* The entries an update removes are those of the very card it replaced:
\* no other update came between the read of that card and the write.
PreviousWasReplaced ==
    [][\A p \in Procs : pc[p] = "write" /\ kv'["card"] # kv["card"] /\ pc'[p] # "write" =>
          IF Present("card") THEN previous[p] = kv["card"].value ELSE previous[p] = NoCard]_vars

\* A caller without rights reads nothing, and one with them is never sent
\* away, though the access mode is checked anew for every card an entry names.
ReadAsAllowed ==
    \A p \in Procs : req[p] # NoRequest /\ req[p].op = "discover" =>
        /\ pc[p] = "forbidden" => ~MayRead(p)
        /\ answer[p] # NoAnswer => MayRead(p)

\* What is answered is a card that was stored while the request was served,
\* and of its agent only the instances asked for.
AnsweredAsAsked ==
    \A p \in Procs : pc[p] = "ok" /\ answer[p] # NoAnswer =>
        /\ answer[p].card \in views[p]
        /\ req[p].op = "discover" =>
              /\ Speaks(answer[p].card, req[p].query.protocol)
              /\ \A i \in answer[p].instances : i.own /\ (i.healthy \/ req[p].query.unhealthy)

\* What discover and list answer, between other callers' puts.
AnswersAreRight == ReadAsAllowed /\ AnsweredAsAsked

\* Discover answers with cards that have the capability asked for, and with
\* instances of the service they name.
DiscoverMatches ==
    \A p \in Procs : answer[p] # NoAnswer /\ req[p].op = "discover" =>
        /\ req[p].query.cap \in answer[p].card.caps
        /\ answer[p].service = answer[p].card.service

\* Discover finds a card that was indexed under the capability when the
\* request came in and has kept it in each version since.
DiscoverFinds ==
    \A p \in Procs :
        /\ pc[p] = "ok" /\ req[p].op = "discover" /\ req[p].indexed
        /\ \A card \in views[p] : /\ card # NoValue /\ req[p].query.cap \in card.caps
                                  /\ Speaks(card, req[p].query.protocol)
        => answer[p] # NoAnswer

\* A Put is refused as forbidden only if the namespace does not allow writes
\* (model/namespace.go: write_only "allows writes but blocks reads").
ForbiddenMeansClosed ==
    \A p \in Procs : Putting(p) /\ pc[p] = "forbidden" => ~AllowsWrite(mode)

=============================================================================
