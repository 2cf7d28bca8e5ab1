------------------------- MODULE ConfigWatchProofs -------------------------
(***************************************************************************)
(* Proofs about ConfigWatch for any values, number of changes and faults,  *)
(* and a shared channel of any capacity.                                   *)
(***************************************************************************)
EXTENDS ConfigWatch, SequenceTheorems, WellFoundedInduction, TLAPS

-----------------------------------------------------------------------------
(* Types.                                                                  *)

\* A watch is asked for from a revision that is the next one or has been.
TInv == TypeOK /\ known <= Len(log) + 1

LEMMA LeastExists ==
    ASSUME NEW T \in SUBSET Nat, T # {}
    PROVE  \E m \in T : \A t \in T : m <= t
<1> DEFINE R == {ss \in Nat \X Nat : ss[1] < ss[2]}
<1>1. IsWellFoundedOn(R, Nat)
  BY NatLessThanWellFounded DEF OpToRel
<1> HIDE DEF R
<1>2. PICK m \in T : \A t \in T : ~ (<<t, m>> \in R)
  BY <1>1, WFMin
<1>3. ASSUME NEW t \in T PROVE m <= t
  <2>1. <<t, m>> \notin R
    BY <1>2
  <2> QED
    BY <2>1 DEF R
<1> QED
  BY <1>3

\* A scope's goroutine reads the first change it has not read.
LEMMA EarliestIs ==
    ASSUME TypeOK, NEW s \in Scopes, Pending(s) # {}
    PROVE  /\ Earliest(Pending(s)) \in next[s]..Len(log)
           /\ Earliest(Pending(s)) \in 1..Len(log)
           /\ log[Earliest(Pending(s))] \in Event
<1> DEFINE S == Pending(s)
<1>1. next[s] \in 1..(Len(log) + 1)
  BY DEF TypeOK
<1>2. \A r \in S : r \in next[s]..Len(log) /\ r \in 1..Len(log)
  BY <1>1 DEF Pending
<1>3. S \in SUBSET Nat
  BY <1>2
<1> HIDE DEF S
<1>4. \E m \in S : \A t \in S : m <= t
  BY <1>3, LeastExists DEF S
<1>5. Earliest(S) \in S
  BY <1>4 DEF Earliest
<1>6. Earliest(S) \in 1..Len(log)
  BY <1>2, <1>5
<1>7. log[Earliest(S)] \in Event
  BY <1>6 DEF TypeOK
<1> QED
  BY <1>2, <1>5, <1>6, <1>7 DEF S

\* What the ends of a channel do to it.
LEMMA ChannelStep ==
    ASSUME NEW S, NEW ch \in Seq(S)
    PROVE  /\ Len(ch) \in Nat /\ (ch # <<>> <=> Len(ch) > 0)
           /\ \A e \in S : Append(ch, e) \in Seq(S)
           /\ ch # <<>> => Head(ch) \in S /\ Tail(ch) \in Seq(S)
           /\ ch # <<>> => Len(Tail(ch)) = Len(ch) - 1 /\ Head(ch) = ch[1]
           /\ ch # <<>> => \A j \in 1..Len(Tail(ch)) : Tail(ch)[j] = ch[j + 1]
           /\ \A e : Len(Append(ch, e)) = Len(ch) + 1 /\ Append(ch, e)[Len(ch) + 1] = e
           /\ \A e : \A j \in 1..Len(ch) : Append(ch, e)[j] = ch[j]
  OBVIOUS

LEMMA OverlayTyped ==
    ASSUME TypeOK, NEW i \in Item \cup {NoItem}, NEW s \in Scopes
    PROVE  Overlay(i, s) \in Item \cup {NoItem}
<1>1. items[s] # NoValue => [scope |-> s, value |-> items[s]] \in Item
  BY DEF TypeOK, Item
<1> QED
  BY <1>1 DEF Overlay

LEMMA TInvInit == Init => TInv
<1> SUFFICES ASSUME Init PROVE TInv
  OBVIOUS
<1>1. Len(log) = 0 /\ log \in Seq(Event) /\ out \in Seq(Event)
  BY DEF Init
<1>2. alive \subseteq Scopes /\ streaming \in BOOLEAN
  BY DEF Init
<1>3. next \in [Scopes -> 1..(Len(log) + 1)]
  BY <1>1 DEF Init
<1> QED
  BY <1>1, <1>2, <1>3, ConfigWatchAssumption DEF Init, TInv, TypeOK

\* A publication adds one change to the log and one value to the items.
Published(s, e, v) ==
    /\ log' = Append(log, e) /\ items' = [items EXCEPT ![s] = v]
    /\ UNCHANGED <<compacted, faults, pipeline, sdk>>

LEMMA WritesPublished ==
    ASSUME NEW s \in Scopes, DeleteItem(s) \/ \E v \in Values : PutItem(s, v)
    PROVE  \E e \in Event, v \in Values \cup {NoValue} :
              /\ Published(s, e, v)
              /\ s \in Writable /\ e.scope = s /\ e.type # "reset"
              /\ e.type = "put" => v = e.value
<1>1. ASSUME DeleteItem(s)
      PROVE  LET e == [type |-> "delete", scope |-> s] IN
             /\ e \in Event /\ Published(s, e, NoValue) /\ s \in Writable
             /\ e.scope = s /\ e.type # "reset" /\ e.type # "put"
  BY <1>1 DEF DeleteItem, Published, Event
<1>2. ASSUME NEW v \in Values, PutItem(s, v)
      PROVE  LET e == [type |-> "put", scope |-> s, value |-> v] IN
             /\ e \in Event /\ Published(s, e, v) /\ s \in Writable
             /\ e.scope = s /\ e.type # "reset" /\ e.value = v
  BY <1>2 DEF PutItem, Published, Event
<1> QED
  BY <1>1, <1>2

LEMMA TInvPublished ==
    ASSUME TInv, NEW s \in Scopes, NEW e \in Event, NEW v \in Values \cup {NoValue},
           Published(s, e, v)
    PROVE  TInv'
<1> USE DEF TInv, TypeOK, Published, pipeline, sdk
<1>1. log' \in Seq(Event) /\ Len(log') = Len(log) + 1 /\ Len(log) \in Nat
  BY ChannelStep
<1>2. next' \in [Scopes -> 1..(Len(log') + 1)] /\ compacted' \in 0..Len(log')
      /\ known' <= Len(log') + 1
  BY <1>1
<1>3. items' \in [Scopes -> Values \cup {NoValue}]
  OBVIOUS
<1> QED
  BY <1>1, <1>2, <1>3

LEMMA TInvService ==
    ASSUME TInv, NEW s \in Scopes, Forwarding(s) \/ Fail(s)
    PROVE  TInv'
<1> USE DEF TInv, TypeOK, history, sdk
<1>1. CASE Forward(s)
  <2>1. Pending(s) # {}
    BY <1>1 DEF Forward
  <2>2. /\ Earliest(Pending(s)) \in 1..Len(log)
        /\ log[Earliest(Pending(s))] \in Event
    BY <2>1, EarliestIs
  <2>3. out' \in Seq(Event)
    BY <1>1, <2>2, ChannelStep DEF Forward
  <2>4. next' \in [Scopes -> 1..(Len(log) + 1)]
    BY <1>1, <2>2 DEF Forward
  <2> QED
    BY <1>1, <2>3, <2>4 DEF Forward
<1>2. CASE Reset(s)
  <2>1. [type |-> "reset", scope |-> s] \in Event
    BY DEF Event
  <2>2. out' \in Seq(Event)
    BY <1>2, <2>1, ChannelStep DEF Reset
  <2> QED
    BY <1>2, <2>2 DEF Reset
<1>3. CASE Advance(s)
  <2>1. next' \in [Scopes -> 1..(Len(log) + 1)]
    BY <1>3 DEF Advance
  <2> QED
    BY <1>3, <2>1 DEF Advance
<1>4. CASE Fail(s)
  BY <1>4 DEF Fail
<1> QED
  BY <1>1, <1>2, <1>3, <1>4 DEF Forwarding

LEMMA TInvConsumer ==
    ASSUME TInv, Consuming \/ ErrorOverHTTP \/ ErrorOverGRPC
    PROVE  TInv'
<1> USE DEF TInv, TypeOK, history, pipeline
<1>1. CASE StartSync
  BY <1>1 DEF StartSync, Scopes
<1>2. CASE ListScope
  <2>1. snap' \in Item \cup {NoItem}
    BY <1>2, OverlayTyped DEF ListScope
  <2>2. pc' \in {"idle", "store", "open", "watching"} \cup Scopes
    BY <1>2 DEF ListScope, Scopes
  <2> QED
    BY <1>2, <2>1, <2>2 DEF ListScope
<1>3. CASE StoreSnapshot
  BY <1>3 DEF StoreSnapshot
<1>4. ASSUME NEW r \in {0, known}, OpenWatch(r) PROVE TInv'
  <2>1. FirstWatched(r) \in 1..(Len(log) + 1)
    BY <1>4 DEF FirstWatched
  <2>2. next' \in [Scopes -> 1..(Len(log) + 1)] /\ out' \in Seq(Event)
    BY <1>4, <2>1 DEF OpenWatch
  <2> QED
    BY <1>4, <2>2 DEF OpenWatch
<1>5. CASE ApplyPut \/ ApplyResync
  <2>1. out # <<>> /\ out' = Tail(out)
    BY <1>5 DEF ApplyPut, ApplyResync
  <2>2. out' \in Seq(Event) /\ Head(out) \in Event
    BY <2>1, ChannelStep
  <2>3. CASE ApplyPut
    <3>1. Head(out).scope \in Scopes /\ Head(out).value \in Values
      BY <2>2, <2>3 DEF ApplyPut, Event
    <3>2. cache' \in Item
      BY <2>3, <3>1 DEF ApplyPut, Item
    <3> QED
      BY <2>2, <2>3, <3>2 DEF ApplyPut
  <2>4. CASE ApplyResync
    BY <2>2, <2>4 DEF ApplyResync, Scopes
  <2> QED
    BY <1>5, <2>3, <2>4
<1>6. CASE WatchReturns
  BY <1>6 DEF WatchReturns
<1>7. CASE ErrorOverHTTP
  BY <1>7 DEF ErrorOverHTTP
<1>8. CASE ErrorOverGRPC
  <2>1. /\ alive' = {} /\ out' = <<>> /\ streaming' = FALSE /\ pc' = "idle" /\ snap' = NoItem
        /\ faults' = faults + 1
        /\ UNCHANGED <<log, items, compacted, next, transport, known, cache>>
    BY <1>8 DEF ErrorOverGRPC
  <2>2. out' \in Seq(Event)
    BY <2>1
  <2>3. streaming' \in BOOLEAN
    BY <2>1
  <2>4. faults' \in Nat /\ compacted' \in 0..Len(log') /\ known' <= Len(log') + 1
    BY <2>1
  <2> QED
    BY <2>1, <2>2, <2>3, <2>4
<1> QED
  BY <1>1, <1>2, <1>3, <1>4, <1>5, <1>6, <1>7, <1>8
     DEF Consuming, OpenOverHTTP, OpenOverGRPC

LEMMA TInvStep == TInv /\ [Next]_vars => TInv'
<1> SUFFICES ASSUME TInv, [Next]_vars PROVE TInv'
  OBVIOUS
<1>1. ASSUME NEW s \in Scopes, DeleteItem(s) \/ \E v \in Values : PutItem(s, v)
      PROVE  TInv'
  BY <1>1, WritesPublished, TInvPublished
<1>2. CASE Compact
  BY <1>2 DEF Compact, pipeline, sdk, TInv, TypeOK
<1>3. CASE UNCHANGED vars
  BY <1>3 DEF vars, history, pipeline, sdk, TInv, TypeOK
<1> QED
  BY <1>1, <1>2, <1>3, TInvService, TInvConsumer DEF Next

-----------------------------------------------------------------------------
(* What the SDK knows, when one scope is published to.                     *)

MoreSpecific(s) ==
    CASE s = "global"    -> {"namespace", "service"}
      [] s = "namespace" -> {"service"}
      [] s = "service"   -> {}

\* Items are published to one scope, and no more specific one has an item: a
\* put is then the effective item, as the SDK takes it to be.
PublishedTo(top) ==
    /\ top \in Scopes /\ Writable \subseteq {top}
    /\ \A s \in MoreSpecific(top) : Initially[s] = NoValue

\* All changes are of that scope, and the last one tells what it has.
PublishedInv(top) ==
    /\ \A s \in MoreSpecific(top) : items[s] = NoValue
    /\ \A r \in 1..Len(log) : log[r].scope = top /\ log[r].type # "reset"
    /\ log # <<>> /\ log[Len(log)].type = "put" => items[top] = log[Len(log)].value

\* Where the SDK is in its life.
Living ==
    /\ pc = "idle" => ~streaming
    /\ pc = "open" => ~streaming
    /\ pc = "watching" => streaming
    /\ ~streaming /\ pc # "idle" => known > 0
    /\ pc \in {"idle", "global", "open", "watching"} => snap = NoItem

\* No change is still to come into the shared channel, or was made since the
\* revision that the watch will ask for.
Quiet(top) == IF streaming THEN next[top] > Len(log) ELSE known > Len(log)

\* What was read so far is what is stored.
Settled ==
    /\ pc = "namespace" => snap = Overlay(NoItem, "global")
    /\ pc = "service" => snap = Overlay(Overlay(NoItem, "global"), "namespace")
    /\ pc = "store" => snap = Effective
    /\ pc \in {"open", "watching"} => cache = Effective

\* When it is quiet, the SDK has what is effective or will take it from the
\* last event under way; a deletion there makes it sync, and that will.
Following(top) ==
    transport = "grpc" /\ (streaming => alive = Scopes) /\ Quiet(top) =>
        IF streaming /\ out # <<>>
        THEN out[Len(out)].type = "put" =>
                Effective = [scope |-> out[Len(out)].scope, value |-> out[Len(out)].value]
        ELSE Settled

FollowInv(top) == PublishedInv(top) /\ Living /\ Following(top)

\* A value in the only scope that is published to is the effective item.
LEMMA TopIsEffective ==
    ASSUME NEW top, PublishedTo(top), PublishedInv(top), items[top] # NoValue
    PROVE  Effective = [scope |-> top, value |-> items[top]]
  BY DEF PublishedTo, PublishedInv, MoreSpecific, Scopes, Effective, Overlay

LEMMA PublishedInvStep ==
    ASSUME NEW top, PublishedTo(top), TInv, PublishedInv(top), [Next]_vars
    PROVE  PublishedInv(top)'
<1> USE DEF TInv, TypeOK
<1>1. ASSUME UNCHANGED <<log, items>> PROVE PublishedInv(top)'
  BY <1>1 DEF PublishedInv
<1>2. ASSUME NEW s \in Scopes, DeleteItem(s) \/ \E v \in Values : PutItem(s, v)
      PROVE  PublishedInv(top)'
  <2> PICK e \in Event, v \in Values \cup {NoValue} :
              /\ Published(s, e, v)
              /\ s \in Writable /\ e.scope = s /\ e.type # "reset"
              /\ e.type = "put" => v = e.value
    BY <1>2, WritesPublished
  <2>1. s = top /\ top \in Scopes /\ top \notin MoreSpecific(top)
        /\ MoreSpecific(top) \subseteq Scopes
    BY DEF PublishedTo, MoreSpecific, Scopes
  <2>2. /\ log' = Append(log, e) /\ Len(log') = Len(log) + 1 /\ log'[Len(log) + 1] = e
        /\ \A r \in 1..Len(log) : log'[r] = log[r]
        /\ Len(log) \in Nat
    BY ChannelStep DEF Published
  <2>3. items' = [items EXCEPT ![top] = v]
    BY <2>1 DEF Published
  <2>4. items'[top] = v /\ \A t \in MoreSpecific(top) : items'[t] = items[t]
    BY <2>1, <2>3
  <2>5. \A r \in 1..Len(log') : log'[r].scope = top /\ log'[r].type # "reset"
    BY <2>1, <2>2 DEF PublishedInv
  <2> QED
    BY <2>2, <2>4, <2>5 DEF PublishedInv
<1>3. CASE Compact
  BY <1>1, <1>3 DEF Compact
<1>4. ASSUME NEW s \in Scopes, Forwarding(s) \/ Fail(s) PROVE UNCHANGED <<log, items>>
  BY <1>4 DEF Forwarding, Fail, Forward, Reset, Advance, history
<1>5. CASE Consuming \/ ErrorOverHTTP \/ ErrorOverGRPC
  BY <1>1, <1>5 DEF Consuming, StartSync, ListScope, StoreSnapshot, OpenOverHTTP, OpenOverGRPC,
     OpenWatch, ApplyPut, ApplyResync, WatchReturns, ErrorOverHTTP, ErrorOverGRPC, history
<1>6. CASE UNCHANGED vars
  BY <1>1, <1>6 DEF vars, history
<1> QED
  BY <1>1, <1>2, <1>3, <1>4, <1>5, <1>6 DEF Next

LEMMA LivingStep ==
    ASSUME TInv, Living, [Next]_vars
    PROVE  Living'
<1> USE DEF Living
<1>1. ASSUME UNCHANGED sdk PROVE Living'
  BY <1>1 DEF sdk
<1>2. ASSUME NEW s \in Scopes,
             \/ DeleteItem(s) \/ \E v \in Values : PutItem(s, v)
             \/ Forwarding(s) \/ Fail(s)
      PROVE  UNCHANGED sdk
  BY <1>2 DEF DeleteItem, PutItem, Forwarding, Fail, Forward, Reset, Advance, sdk
<1>3. CASE Compact \/ UNCHANGED vars
  BY <1>1, <1>3 DEF Compact, vars
<1>4. CASE StartSync \/ ListScope
  <2>1. Len(log) + 1 > 0
    BY DEF TInv, TypeOK
  <2> QED
    BY <1>4, <2>1 DEF StartSync, ListScope, Scopes
<1>5. CASE StoreSnapshot \/ ApplyPut \/ ApplyResync \/ WatchReturns
  BY <1>5 DEF StoreSnapshot, ApplyPut, ApplyResync, WatchReturns
<1>6. CASE OpenOverHTTP \/ OpenOverGRPC
  BY <1>6 DEF OpenOverHTTP, OpenOverGRPC, OpenWatch
<1>7. CASE ErrorOverHTTP \/ ErrorOverGRPC
  BY <1>7 DEF ErrorOverHTTP, ErrorOverGRPC, Scopes
<1> QED
  BY <1>1, <1>2, <1>3, <1>4, <1>5, <1>6, <1>7 DEF Next, Consuming

\* A publication is one more change to come.
LEMMA FollowPublished ==
    ASSUME NEW top, PublishedTo(top), TInv, NEW s \in Scopes, NEW e, NEW v,
           Published(s, e, v)
    PROVE  ~Quiet(top)'
<1>1. top \in Scopes /\ next[top] <= Len(log) + 1 /\ known <= Len(log) + 1
      /\ next[top] \in Nat /\ known \in Nat
  BY DEF PublishedTo, TInv, TypeOK
<1>2. Len(log') = Len(log) + 1 /\ Len(log) \in Nat
  BY ChannelStep DEF Published, TInv, TypeOK
<1> QED
  BY <1>1, <1>2 DEF Published, pipeline, sdk, Quiet

\* What has been read last goes into the channel last.
LEMMA FollowService ==
    ASSUME NEW top, PublishedTo(top), TInv, FollowInv(top), NEW s \in Scopes,
           Forwarding(s) \/ Fail(s)
    PROVE  Following(top)'
<1> USE DEF TInv, TypeOK, history, sdk, FollowInv
<1>0. top \in Scopes /\ Len(log) \in Nat /\ next[top] \in 1..(Len(log) + 1)
  BY DEF PublishedTo
<1>1. UNCHANGED <<log, items, sdk>>
  BY DEF Forwarding, Fail, Forward, Reset, Advance
<1>2. Effective' = Effective /\ (Settled' <=> Settled)
  BY <1>1 DEF Effective, Settled, Overlay
<1>3. CASE Forward(s)
  <2>1. Pending(s) # {} /\ out' = Append(out, log[Earliest(Pending(s))])
        /\ next' = [next EXCEPT ![s] = Earliest(Pending(s)) + 1] /\ alive' = alive
    BY <1>3 DEF Forward
  <2>2. s = top
    <3>1. PICK r \in Pending(s) : TRUE
      BY <2>1
    <3>2. r \in 1..Len(log) /\ log[r].scope = s
      BY DEF Pending
    <3> QED
      BY <3>2 DEF PublishedInv
  <2>3. Earliest(Pending(s)) \in 1..Len(log)
    BY <2>1, EarliestIs
  <2>4. next'[top] = Earliest(Pending(s)) + 1
    BY <1>0, <2>1, <2>2
  <2>5. out' # <<>> /\ out'[Len(out')] = log[Earliest(Pending(s))]
    BY <2>1, ChannelStep
  <2> SUFFICES ASSUME transport = "grpc", streaming => alive = Scopes, Quiet(top)'
               PROVE  IF streaming
                      THEN out'[Len(out')].type = "put" =>
                             Effective = [scope |-> out'[Len(out')].scope,
                                          value |-> out'[Len(out')].value]
                      ELSE Settled
    BY <1>1, <1>2, <2>1, <2>5 DEF Following
  <2>6. CASE streaming
    <3>1. Earliest(Pending(s)) = Len(log) /\ log # <<>>
      BY <1>0, <1>1, <2>3, <2>4, <2>6 DEF Quiet
    <3>2. log[Len(log)] \in Event /\ log[Len(log)].scope = top
      BY <2>3, <3>1 DEF PublishedInv
    <3>3. log[Len(log)].type = "put" =>
             log[Len(log)].value # NoValue /\ items[top] = log[Len(log)].value
      BY <3>1, <3>2, ConfigWatchAssumption DEF PublishedInv, Event
    <3> QED
      BY <2>5, <2>6, <3>1, <3>2, <3>3, TopIsEffective
  <2>7. CASE ~streaming
    BY <1>1, <2>7 DEF Quiet, Following
  <2> QED
    BY <2>6, <2>7
<1>4. CASE Reset(s) \/ Fail(s)
  <2>1. s \in alive /\ alive' = alive \ {s} /\ next' = next
    BY <1>4 DEF Reset, Fail
  <2>2. alive' # Scopes
    BY <2>1
  <2>3. ~streaming => (Quiet(top)' <=> Quiet(top))
    BY <1>1 DEF Quiet
  <2> QED
    BY <1>1, <1>2, <2>2, <2>3 DEF Following
<1>5. CASE Advance(s)
  <2>1. s # top
    <3>1. /\ next[s] <= Len(log) /\ next[s] \in 1..(Len(log) + 1) /\ Pending(s) = {}
      BY <1>5 DEF Advance
    <3>2. next[s] \in next[s]..Len(log) /\ next[s] \in 1..Len(log)
      BY <1>0, <3>1
    <3>3. log[next[s]].scope # s
      BY <3>1, <3>2 DEF Pending
    <3> QED
      BY <3>2, <3>3 DEF PublishedInv
  <2>2. next'[top] = next[top] /\ out' = out /\ alive' = alive
    BY <1>0, <1>5, <2>1 DEF Advance
  <2> QED
    BY <1>1, <1>2, <2>2 DEF Following, Quiet
<1> QED
  BY <1>3, <1>4, <1>5 DEF Forwarding

LEMMA FollowConsumer ==
    ASSUME NEW top, PublishedTo(top), TInv, FollowInv(top),
           Consuming \/ ErrorOverHTTP \/ ErrorOverGRPC
    PROVE  Following(top)'
<1> USE DEF TInv, TypeOK, history, pipeline, FollowInv
<1>0. top \in Scopes /\ Len(log) \in Nat
  BY DEF PublishedTo
<1>1. UNCHANGED <<log, items, transport>>
  BY DEF Consuming, StartSync, ListScope, StoreSnapshot, OpenOverHTTP, OpenOverGRPC,
     OpenWatch, ApplyPut, ApplyResync, WatchReturns, ErrorOverHTTP, ErrorOverGRPC
<1>2. Effective' = Effective /\ \A i, s : Overlay(i, s)' = Overlay(i, s)
  BY <1>1 DEF Effective, Overlay
<1>3. CASE StartSync
  BY <1>3 DEF StartSync, Living, Following, Settled
<1>4. CASE ListScope
  <2>1. snap' = Overlay(snap, pc) /\ pc \in Scopes
        /\ UNCHANGED <<next, alive, out, known, streaming, cache>>
    BY <1>4 DEF ListScope
  <2>2. /\ pc = "global" => pc' = "namespace" /\ snap = NoItem
        /\ pc = "namespace" => pc' = "service"
        /\ pc = "service" => pc' = "store"
    BY <1>4 DEF ListScope, Living
  <2>3. Settled => Settled'
    BY <1>2, <2>1, <2>2 DEF Settled, Scopes, Effective
  <2>4. Quiet(top)' <=> Quiet(top)
    BY <1>1, <2>1 DEF Quiet
  <2> QED
    BY <1>1, <1>2, <2>1, <2>3, <2>4 DEF Following
<1>5. CASE StoreSnapshot
  <2>1. cache' = snap /\ pc = "store" /\ pc' \in {"watching", "open"}
        /\ UNCHANGED <<next, alive, out, known, streaming>>
    BY <1>5 DEF StoreSnapshot
  <2>2. Settled => Settled'
    BY <1>2, <2>1 DEF Settled
  <2>3. Quiet(top)' <=> Quiet(top)
    BY <1>1, <2>1 DEF Quiet
  <2> QED
    BY <1>1, <1>2, <2>1, <2>2, <2>3 DEF Following
<1>6. CASE OpenOverHTTP
  BY <1>1, <1>6 DEF OpenOverHTTP, Following
<1>7. CASE OpenOverGRPC
  <2>1. /\ pc = "open" /\ next' = [s \in Scopes |-> FirstWatched(known)]
        /\ out' = <<>> /\ streaming' = TRUE /\ pc' = "watching" /\ cache' = cache
    BY <1>7 DEF OpenOverGRPC, OpenWatch
  <2>2. ~streaming /\ known > 0
    BY <2>1 DEF Living
  <2>3. next'[top] = known
    BY <1>0, <2>1, <2>2 DEF FirstWatched
  <2>4. Quiet(top)' => Quiet(top)
    BY <1>1, <2>1, <2>2, <2>3 DEF Quiet
  <2>5. Settled => Settled'
    BY <1>2, <2>1 DEF Settled
  <2> QED
    BY <1>1, <2>1, <2>2, <2>4, <2>5 DEF Following
<1>8. ASSUME ApplyPut \/ ApplyResync,
             transport = "grpc", streaming => alive = Scopes, Quiet(top)'
      PROVE  Following(top)'
  <2>1. /\ pc = "watching" /\ out # <<>> /\ out' = Tail(out)
        /\ UNCHANGED <<next, alive, known, streaming, snap>>
    BY <1>8 DEF ApplyPut, ApplyResync
  <2>2. streaming /\ Quiet(top) /\ snap = NoItem
    BY <1>1, <1>8, <2>1 DEF Quiet, Living
  <2>3. out[Len(out)].type = "put" =>
          Effective = [scope |-> out[Len(out)].scope, value |-> out[Len(out)].value]
    BY <1>8, <2>1, <2>2 DEF Following
  <2>4. /\ Len(out') = Len(out) - 1 /\ Head(out) = out[1] /\ Len(out) \in Nat
        /\ \A j \in 1..Len(out') : out'[j] = out[j + 1]
        /\ (out' # <<>> <=> Len(out') > 0) /\ (out # <<>> <=> Len(out) > 0)
    BY <2>1, ChannelStep
  <2>5. CASE out' # <<>>
    <3>1. out'[Len(out')] = out[Len(out)]
      BY <2>4, <2>5
    <3> QED
      BY <1>2, <2>1, <2>2, <2>3, <2>5, <3>1 DEF Following
  <2>6. CASE out' = <<>>
    <3>1. Head(out) = out[Len(out)]
      BY <2>1, <2>4, <2>6
    <3>2. ApplyPut => cache' = Effective /\ pc' = "watching"
      BY <2>3, <3>1 DEF ApplyPut
    <3>3. ApplyResync => pc' = "global"
      BY DEF ApplyResync
    <3>4. Settled'
      BY <1>2, <1>8, <3>2, <3>3 DEF Settled
    <3> QED
      BY <2>6, <3>4 DEF Following
  <2> QED
    BY <2>5, <2>6
<1>9. CASE ApplyPut \/ ApplyResync
  <2>1. UNCHANGED <<alive, streaming>>
    BY <1>9 DEF ApplyPut, ApplyResync
  <2>2. CASE transport = "grpc" /\ (streaming => alive = Scopes) /\ Quiet(top)'
    BY <1>8, <1>9, <2>2
  <2> QED
    BY <1>1, <2>1, <2>2 DEF Following
<1>10. CASE WatchReturns
  BY <1>10 DEF WatchReturns, Following, Settled
<1>11. CASE ErrorOverHTTP
  BY <1>1, <1>11 DEF ErrorOverHTTP, Following
<1>12. CASE ErrorOverGRPC
  BY <1>12 DEF ErrorOverGRPC, Following, Settled
<1> QED
  BY <1>3, <1>4, <1>5, <1>6, <1>7, <1>9, <1>10, <1>11, <1>12 DEF Consuming

LEMMA FollowStep ==
    ASSUME NEW top, PublishedTo(top), TInv, FollowInv(top), [Next]_vars
    PROVE  FollowInv(top)'
<1>1. ASSUME NEW s \in Scopes, DeleteItem(s) \/ \E v \in Values : PutItem(s, v)
      PROVE  Following(top)'
  BY <1>1, WritesPublished, FollowPublished DEF Following
<1>2. ASSUME Compact \/ UNCHANGED vars PROVE Following(top)'
  <2>1. UNCHANGED <<log, items, pipeline, sdk>>
    BY <1>2 DEF Compact, vars, history
  <2>2. Effective' = Effective /\ \A i, s : Overlay(i, s)' = Overlay(i, s)
    BY <2>1 DEF Effective, Overlay
  <2>3. Settled' <=> Settled
    BY <2>1, <2>2 DEF Settled, sdk
  <2>4. Quiet(top)' <=> Quiet(top)
    BY <2>1 DEF Quiet, sdk, pipeline
  <2> QED
    BY <2>1, <2>2, <2>3, <2>4 DEF FollowInv, Following, pipeline, sdk
<1>3. Following(top)'
  BY <1>1, <1>2, FollowService, FollowConsumer DEF Next
<1> QED
  BY <1>3, PublishedInvStep, LivingStep DEF FollowInv

-----------------------------------------------------------------------------
(* The theorems.                                                           *)

\* The changes, the stored items, the channel and what the SDK has read and
\* cached keep their types over either transport, through any faults.
THEOREM TypeCorrect == Spec => []TypeOK
<1>1. TInv => TypeOK
  BY DEF TInv
<1> QED
  BY <1>1, TInvInit, TInvStep, PTL DEF Spec

\* Over gRPC, with one scope that is published to above any defaults, an SDK
\* that waits on a whole stream has the effective item of the moment cached:
\* across syncs that the publications overtake, deletions, compactions,
\* failed watches and errors, for channels of any capacity.
THEOREM FollowsTheItems ==
    ASSUME NEW top, PublishedTo(top)
    PROVE  Spec => []CaughtUpIsCurrent
<1>1. Init => FollowInv(top)
  BY DEF Init, FollowInv, PublishedTo, PublishedInv, Living, Following, Settled
<1>2. TInv /\ FollowInv(top) /\ [Next]_vars => FollowInv(top)'
  BY FollowStep
<1>3. TInv /\ FollowInv(top) => CaughtUpIsCurrent
  <2> SUFFICES ASSUME TInv, FollowInv(top), Waiting, alive = Scopes, transport = "grpc"
               PROVE  cache = Effective
    BY DEF CaughtUpIsCurrent
  <2>1. top \in alive /\ Pending(top) = {} /\ pc = "watching" /\ out = <<>>
    BY DEF Waiting, PublishedTo
  <2>2. next[top] \in 1..(Len(log) + 1) /\ Len(log) \in Nat
    BY <2>1 DEF TInv, TypeOK
  <2>3. next[top] > Len(log)
    <3> SUFFICES ASSUME next[top] <= Len(log) PROVE FALSE
      BY <2>2
    <3>1. next[top] \in next[top]..Len(log) /\ next[top] \in 1..Len(log)
      BY <2>2
    <3> QED
      BY <2>1, <3>1 DEF Pending, FollowInv, PublishedInv
  <2>4. streaming
    BY <2>1 DEF FollowInv, Living
  <2> QED
    BY <2>1, <2>3, <2>4 DEF FollowInv, Following, Quiet, Settled
<1> QED
  BY <1>1, <1>2, <1>3, TInvInit, TInvStep, PTL DEF Spec
============================================================================
