------------------------ MODULE InstanceWatchProofs ------------------------
(***************************************************************************)
(* Proofs about InstanceWatch for any number of instances, changes and     *)
(* faults, and channels of any capacity.                                   *)
(***************************************************************************)
EXTENDS InstanceWatch, SequenceTheorems, WellFoundedInduction, TLAPS

\* Instances of one service have ids of their own.
IdsApart == \A j, k \in Keys : IdOf[j] = IdOf[k] => j = k

-----------------------------------------------------------------------------
(* The last change of a key.                                               *)

LEMMA LeastExists ==
    ASSUME NEW T \in SUBSET Nat, T # {}
    PROVE  \E m \in T : \A t \in T : m <= t
<1> DEFINE R == {ss \in Nat \X Nat : ss[1] < ss[2]}
<1>1. IsWellFoundedOn(R, Nat)
  BY NatLessThanWellFounded DEF OpToRel
<1> HIDE DEF R
<1>2. PICK m \in T : \A t \in T : ~ (<<t, m>> \in R)
  BY <1>1, WFMin
<1>3. ASSUME NEW t \in T PROVE m <= t
  <2>1. <<t, m>> \notin R
    BY <1>2
  <2> QED
    BY <2>1 DEF R
<1> QED
  BY <1>3

LEMMA LargestExists ==
    ASSUME NEW n \in Nat, NEW S \in SUBSET (0..n), S # {}
    PROVE  \E r \in S : \A s \in S : s <= r
<1> DEFINE T == {n - r : r \in S}
<1>1. \A r \in S : r \in 0..n /\ n - r \in Nat
  OBVIOUS
<1>2. T # {} /\ T \in SUBSET Nat
  BY <1>1
<1>3. \E m \in T : \A t \in T : m <= t
  <2> HIDE DEF T
  <2> QED
    BY <1>2, LeastExists
<1>4. PICK r \in S : \A t \in T : n - r <= t
  BY <1>3
<1>5. ASSUME NEW s \in S PROVE s <= r
  <2>1. n - r <= n - s
    BY <1>4
  <2> QED
    BY <1>1, <2>1
<1> QED
  BY <1>5

\* The last change is a change of the key, and no later one is.
LEMMA LastChangeIs ==
    ASSUME NEW k, NEW n \in Nat
    PROVE  /\ LastChange(k, n) \in 0..n
           /\ LastChange(k, n) > 0 => log[LastChange(k, n)].key = k
           /\ \A r \in 1..n : log[r].key = k => r <= LastChange(k, n)
<1> DEFINE changes == {r \in 1..n : log[r].key = k}
<1>1. CASE changes = {}
  BY <1>1 DEF LastChange
<1>2. CASE changes # {}
  <2>1. changes \in SUBSET (0..n)
    OBVIOUS
  <2>2. \E r \in changes : \A s \in changes : s <= r
    BY <1>2, <2>1, LargestExists
  <2>3. LastChange(k, n) = CHOOSE r \in changes : \A s \in changes : s <= r
    BY <1>2 DEF LastChange
  <2>4. LastChange(k, n) \in changes /\ \A s \in changes : s <= LastChange(k, n)
    BY <2>2, <2>3
  <2> QED
    BY <2>4
<1> QED
  BY <1>1, <1>2

\* It is the only such revision.
LEMMA LastChangeUnique ==
    ASSUME NEW k, NEW n \in Nat, NEW r \in 1..n, log[r].key = k,
           \A s \in 1..n : log[s].key = k => s <= r
    PROVE  LastChange(k, n) = r
<1>1. LastChange(k, n) \in 0..n /\ r <= LastChange(k, n)
  BY LastChangeIs
<1>2. log[LastChange(k, n)].key = k
  BY <1>1, LastChangeIs
<1> QED
  BY <1>1, <1>2

\* A snapshot shows stored instances, and its newest revision has been.
LEMMA StoredTyped ==
    ASSUME log \in Seq(Event)
    PROVE  Stored(Len(log)) \subseteq Instance
<1>1. ASSUME NEW k \in Keys, Alive(k, Len(log))
      PROVE  log[LastChange(k, Len(log))].status \in Statuses
  <2>1. LastChange(k, Len(log)) \in 1..Len(log)
    BY <1>1, LastChangeIs DEF Alive
  <2>2. log[LastChange(k, Len(log))] \in Event
    BY <2>1
  <2> QED
    BY <2>2 DEF Event
<1> QED
  BY <1>1 DEF Stored, Instance

LEMMA NewestHasBeen ==
    ASSUME NEW S, NEW n \in Nat
    PROVE  Newest(S, n) \in 0..n
<1> DEFINE revs == {LastChange(i.key, n) : i \in S}
<1>1. revs \in SUBSET (0..n)
  BY LastChangeIs
<1>2. CASE revs = {}
  BY <1>2 DEF Newest
<1>3. CASE revs # {}
  <2>1. \E r \in revs : \A s \in revs : s <= r
    BY <1>1, <1>3, LargestExists
  <2>2. Newest(S, n) = CHOOSE r \in revs : \A s \in revs : s <= r
    BY <1>3 DEF Newest
  <2> HIDE DEF revs
  <2>3. Newest(S, n) \in revs
    BY <2>1, <2>2
  <2> QED
    BY <1>1, <2>3
<1> QED
  BY <1>2, <1>3

-----------------------------------------------------------------------------
(* Types, and what each place may hold.                                    *)

\* A consumer of healthy instances is sent and shown no other.
HealthyOnly ==
    healthyOnly =>
        /\ \A i \in cache \cup snap : i.status = "health"
        /\ \A j \in 1..Len(svcCh) : svcCh[j].type = "put" => svcCh[j].status = "health"

\* A stream that is open has carried changes and no signal yet, and none is
\* opened at a revision that is not the next or an earlier one.
Streams ==
    /\ start <= Len(log) + 1
    /\ svcOpen => svcCh \in Seq(Event)
    /\ storeOpen =>
          /\ next \in 1..(Len(log) + 1) /\ Len(storeCh) < next
          /\ \A j \in 1..Len(storeCh) : storeCh[j] = log[next - Len(storeCh) - 1 + j]

TInv == TypeOK /\ HealthyOnly /\ Streams

-----------------------------------------------------------------------------
(* The types and the streams.                                              *)

\* What the ends of a channel do to it.
LEMMA ChannelStep ==
    ASSUME NEW S, NEW ch \in Seq(S)
    PROVE  /\ \A e \in S : Append(ch, e) \in Seq(S)
           /\ ch # <<>> => Len(ch) \in Nat \ {0} /\ Head(ch) \in S /\ Tail(ch) \in Seq(S)
           /\ ch # <<>> => Len(Tail(ch)) = Len(ch) - 1 /\ Head(ch) = ch[1]
           /\ ch # <<>> => \A j \in 1..Len(Tail(ch)) : Tail(ch)[j] = ch[j + 1]
           /\ \A e : Len(Append(ch, e)) = Len(ch) + 1 /\ Append(ch, e)[Len(ch) + 1] = e
           /\ \A e : \A j \in 1..Len(ch) : Append(ch, e)[j] = ch[j]
  OBVIOUS

\* The registry's writes add to the log and touch nothing else.
Logged(e) == log' = Append(log, e) /\ UNCHANGED <<healthyOnly, compacted, faults, pipeline, consumer>>

LEMMA WritesLogged ==
    ASSUME TypeOK, NEW k \in Keys,
           DeleteInstance(k) \/ \E s \in Statuses : PutInstance(k, s)
    PROVE  \E e \in Event : Logged(e)
<1>1. ASSUME DeleteInstance(k) PROVE \E e \in Event : Logged(e)
  <2> DEFINE e == [type |-> "delete", key |-> k, status |-> log[LastChange(k, Len(log))].status]
  <2>1. log[LastChange(k, Len(log))] \in Event
    BY <1>1, LastChangeIs DEF DeleteInstance, Alive, TypeOK
  <2>2. e \in Event
    BY <2>1 DEF Event
  <2> QED
    BY <1>1, <2>2 DEF DeleteInstance, Logged
<1>2. ASSUME NEW s \in Statuses, PutInstance(k, s) PROVE \E e \in Event : Logged(e)
  <2>1. [type |-> "put", key |-> k, status |-> s] \in Event
    BY DEF Event
  <2> QED
    BY <1>2, <2>1 DEF PutInstance, Logged
<1> QED
  BY <1>1, <1>2

\* A snapshot is of instances that the filter lets through.
LEMMA SnapshotTyped ==
    ASSUME TypeOK, NEW b
    PROVE  /\ Matching(Stored(Len(log)), b) \subseteq Instance
           /\ b => \A i \in Matching(Stored(Len(log)), b) : i.status = "health"
  BY StoredTyped DEF Matching, TypeOK

LEMMA TInvInit == Init => TInv
<1> SUFFICES ASSUME Init PROVE TInv
  OBVIOUS
<1>1. Len(log) = 0 /\ Len(storeCh) = 0 /\ Len(svcCh) = 0
  BY DEF Init
<1>2. TypeOK
  <2>1. log \in Seq(Event) /\ storeCh \in Seq(Event \cup Signal)
        /\ svcCh \in Seq(Event \cup [type : {"reset"}])
    BY DEF Init
  <2>2. storeOpen \in BOOLEAN /\ svcOpen \in BOOLEAN
    BY DEF Init
  <2> QED
    BY <1>1, <2>1, <2>2 DEF Init, TypeOK
<1>3. HealthyOnly
  BY <1>1 DEF Init, HealthyOnly
<1>4. Streams
  BY <1>1 DEF Init, Streams
<1> QED
  BY <1>2, <1>3, <1>4 DEF TInv

LEMMA TInvLogged ==
    ASSUME TInv, NEW e \in Event, Logged(e)
    PROVE  TInv'
<1> USE DEF TInv, TypeOK, Logged, pipeline, consumer
<1>1. /\ log' \in Seq(Event) /\ Len(log') = Len(log) + 1
      /\ \A r \in 1..Len(log) : log'[r] = log[r]
  BY ChannelStep
<1>2. HealthyOnly'
  BY DEF HealthyOnly
<1>3. Streams'
  BY <1>1 DEF Streams
<1>4. TypeOK'
  BY <1>1
<1> QED
  BY <1>2, <1>3, <1>4

\* The store adapter's goroutine.
LEMMA TInvStore ==
    ASSUME TInv, StoreForward \/ StoreCompacted \/ StoreFailed
    PROVE  TInv'
<1> USE DEF TInv, TypeOK, history
<1>1. CASE StoreForward
  <2>1. log[next] \in Event /\ next \in 1..Len(log)
    BY <1>1 DEF StoreForward
  <2>2. TypeOK'
    BY <1>1, <2>1, ChannelStep DEF StoreForward, consumer
  <2>3. HealthyOnly'
    BY <1>1 DEF StoreForward, consumer, HealthyOnly
  <2>4. Streams'
    BY <1>1, <2>1, ChannelStep DEF StoreForward, consumer, Streams
  <2> QED
    BY <2>2, <2>3, <2>4
<1>2. ASSUME NEW s \in {"reset", "error"}, StoreEnd(s), faults' \in Nat PROVE TInv'
  <2>1. [type |-> s] \in Signal
    BY DEF Signal
  <2>2. TypeOK'
    BY <1>2, <2>1, ChannelStep DEF StoreEnd, consumer
  <2> QED
    BY <1>2, <2>2 DEF StoreEnd, consumer, HealthyOnly, Streams
<1> QED
  BY <1>1, <1>2 DEF StoreCompacted, StoreFailed

\* The discovery service's goroutine.
LEMMA TInvService ==
    ASSUME TInv, SvcSkip \/ SvcForward \/ SvcReset \/ SvcError
    PROVE  TInv'
<1> USE DEF TInv, TypeOK, history
<1> DEFINE h == Head(storeCh)
<1>0. storeCh # <<>> /\ storeCh' = Tail(storeCh)
  BY DEF SvcSkip, SvcForward, SvcReset, SvcError
<1>1. /\ storeCh # <<>> /\ storeCh' = Tail(storeCh) /\ h \in Event \cup Signal
      /\ storeCh' \in Seq(Event \cup Signal) /\ h = storeCh[1]
      /\ Len(storeCh') = Len(storeCh) - 1 /\ Len(storeCh) \in Nat
      /\ \A j \in 1..Len(storeCh') : storeCh'[j] = storeCh[j + 1]
  BY <1>0, ChannelStep
<1>2. UNCHANGED <<healthyOnly, log, compacted, faults, next, storeOpen, consumer>>
  BY DEF SvcSkip, SvcForward, SvcReset, SvcError
<1>3. /\ storeOpen' =>
          /\ next' \in 1..(Len(log') + 1) /\ Len(storeCh') < next'
          /\ \A j \in 1..Len(storeCh') : storeCh'[j] = log'[next' - Len(storeCh') - 1 + j]
  BY <1>1, <1>2 DEF Streams
<1> HIDE DEF h
<1>4. CASE SvcSkip \/ SvcError
  <2>1. svcCh' = svcCh /\ svcOpen' \in BOOLEAN /\ (svcOpen' => svcOpen)
    <3>1. CASE SvcSkip
      <4>1. svcOpen' = svcOpen /\ svcCh' = svcCh
        BY <3>1 DEF SvcSkip
      <4> QED
        BY <4>1
    <3>2. CASE SvcError
      <4>1. svcOpen' = FALSE /\ svcCh' = svcCh
        BY <3>2 DEF SvcError
      <4> QED
        BY <4>1
    <3> QED
      BY <1>4, <3>1, <3>2
  <2>2. TypeOK'
    BY <1>1, <1>2, <2>1 DEF consumer
  <2>3. HealthyOnly'
    BY <1>2, <2>1 DEF HealthyOnly, consumer
  <2> QED
    BY <1>2, <1>3, <2>1, <2>2, <2>3 DEF Streams, consumer
<1>5. CASE SvcForward
  <2>1. h \in Event /\ svcCh' = Append(svcCh, h) /\ svcOpen' = svcOpen
        /\ ~Skipped(h)
    BY <1>1, <1>5 DEF SvcForward, h, Event, Signal
  <2>2. TypeOK'
    BY <1>1, <1>2, <2>1, ChannelStep DEF consumer
  <2>3. HealthyOnly'
    BY <1>2, <2>1, ChannelStep DEF HealthyOnly, Skipped, consumer
  <2>4. svcOpen' => svcCh' \in Seq(Event)
    BY <2>1, ChannelStep DEF Streams
  <2> QED
    BY <1>2, <1>3, <2>2, <2>3, <2>4 DEF Streams, consumer
<1>6. CASE SvcReset
  <2>1. h \in [type : {"reset"}] /\ svcCh' = Append(svcCh, h) /\ svcOpen' = FALSE
        /\ h.type # "put"
    BY <1>1, <1>6 DEF SvcReset, h, Event, Signal
  <2>2. TypeOK'
    BY <1>1, <1>2, <2>1, ChannelStep DEF consumer
  <2>3. HealthyOnly'
    BY <1>2, <2>1, ChannelStep DEF HealthyOnly, consumer
  <2> QED
    BY <1>2, <1>3, <2>1, <2>2, <2>3 DEF Streams, consumer
<1> QED
  BY <1>4, <1>5, <1>6

\* The consumer.
LEMMA TInvConsumer ==
    ASSUME TInv, Consuming
    PROVE  TInv'
<1> USE DEF TInv, TypeOK, history, pipeline
<1>1. CASE FetchSnapshot
  <2>1. start' \in 0..(Len(log) + 1)
    BY <1>1, NewestHasBeen DEF FetchSnapshot
  <2>2. snap' \subseteq Instance /\ (healthyOnly => \A i \in snap' : i.status = "health")
    BY <1>1, SnapshotTyped DEF FetchSnapshot
  <2> QED
    BY <1>1, <2>1, <2>2 DEF FetchSnapshot, HealthyOnly, Streams
<1>2. CASE StoreSnapshot
  BY <1>2 DEF StoreSnapshot, HealthyOnly, Streams
<1>3. CASE OpenWatch
  <2>1. next' \in 1..(Len(log) + 1) /\ Len(storeCh') = 0 /\ Len(svcCh') = 0
    BY <1>3 DEF OpenWatch, FirstWatched, Streams
  <2>2. TypeOK'
    BY <1>3, <2>1 DEF OpenWatch
  <2>3. HealthyOnly'
    BY <1>3, <2>1 DEF OpenWatch, HealthyOnly
  <2>4. Streams'
    BY <1>3, <2>1 DEF OpenWatch, Streams
  <2> QED
    BY <2>2, <2>3, <2>4
<1>4. CASE ApplyEvent
  <2> DEFINE e == Head(svcCh)
  <2>0. svcCh # <<>> /\ svcCh' = Tail(svcCh) /\ e.type # "reset" /\ cache' = Applied(cache, e)
    BY <1>4 DEF ApplyEvent
  <2>1. /\ e \in Event /\ e = svcCh[1] /\ 1 \in 1..Len(svcCh)
        /\ svcCh' \in Seq(Event \cup [type : {"reset"}])
        /\ \A j \in 1..Len(svcCh') : svcCh'[j] = svcCh[j + 1] /\ j + 1 \in 1..Len(svcCh)
    BY <2>0, ChannelStep
  <2>2. svcOpen => svcCh' \in Seq(Event)
    BY <2>0, ChannelStep DEF Streams
  <2> HIDE DEF e
  <2>3. ASSUME NEW i \in cache'
        PROVE  i \in cache \/ (e.type = "put" /\ i = [key |-> e.key, status |-> e.status])
    BY <2>0, <2>3 DEF Applied, Without
  <2>4. e.key \in Keys /\ e.status \in Statuses
    BY <2>1 DEF Event
  <2>5. cache' \subseteq Instance
    BY <2>3, <2>4 DEF Instance
  <2>6. healthyOnly => \A i \in cache' : i.status = "health"
    BY <2>1, <2>3 DEF HealthyOnly
  <2>7. TypeOK'
    BY <1>4, <2>1, <2>5 DEF ApplyEvent
  <2>8. HealthyOnly'
    BY <1>4, <2>1, <2>6 DEF ApplyEvent, HealthyOnly
  <2>9. Streams'
    BY <1>4, <2>2 DEF ApplyEvent, Streams
  <2> QED
    BY <2>7, <2>8, <2>9
<1>5. CASE ApplyReset
  <2>1. snap' \subseteq Instance /\ \A i \in snap' : i.status = "health"
    BY <1>5, SnapshotTyped DEF ApplyReset
  <2>2. svcCh' \in Seq(Event \cup [type : {"reset"}])
    BY <1>5, ChannelStep DEF ApplyReset
  <2>3. \A j \in 1..Len(svcCh') : svcCh'[j] = svcCh[j + 1] /\ j + 1 \in 1..Len(svcCh)
    BY <1>5, ChannelStep DEF ApplyReset
  <2>4. svcOpen => svcCh' \in Seq(Event)
    BY <1>5, ChannelStep DEF ApplyReset, Streams
  <2> QED
    BY <1>5, <2>1, <2>2, <2>3, <2>4 DEF ApplyReset, HealthyOnly, Streams
<1>6. CASE WatchReturns
  BY <1>6 DEF WatchReturns, HealthyOnly, Streams
<1> QED
  BY <1>1, <1>2, <1>3, <1>4, <1>5, <1>6 DEF Consuming

-----------------------------------------------------------------------------
(* What the consumer knows.                                                *)

\* S holds the instance k as the consumer should have it: it is there if it
\* is stored and matches the filter, and nothing else is if there is none.
Settled(k, S) ==
    \A i \in Instance : i.key = k =>
        /\ i \in Current => i \in S
        /\ ~healthyOnly /\ i \in S => i \in Current

\* S knows the keys that have not changed since revision n.
Knows(S, n) == \A k \in Keys : LastChange(k, Len(log)) <= n => Settled(k, S)

\* What an event makes of its key.
Outcome(e) == IF e.type = "put" THEN {[key |-> e.key, status |-> e.status]} ELSE {}

\* If no change of k is still to come out of the store adapter, the cache is
\* settled on k, or will be with the last event under way.
Following(k) ==
    LET mine == {j \in 1..Len(svcCh) : svcCh[j].key = k} IN
    LastChange(k, Len(log)) < next - Len(storeCh) =>
        /\ mine = {} => Settled(k, cache)
        /\ \A j \in mine : (\A i \in mine : i <= j) => Settled(k, Outcome(svcCh[j]))

FollowInv ==
    /\ pc \in {"store", "open"} => start > 0
    /\ pc = "store" => Knows(snap, start - 1)
    /\ pc = "open" => Knows(cache, start - 1)
    /\ pc = "watching" /\ storeOpen /\ svcOpen => \A k \in Keys : Following(k)
    /\ pc = "restore" => ~svcOpen

\* An instance is current if its last change put it and the filter lets it
\* through.
LEMMA CurrentIs ==
    ASSUME NEW k \in Keys, NEW i \in Instance, i.key = k
    PROVE  i \in Current <=>
              /\ Alive(k, Len(log))
              /\ i.status = log[LastChange(k, Len(log))].status
              /\ healthyOnly => i.status = "health"
<1>1. i = [key |-> k, status |-> i.status]
  BY DEF Instance
<1>2. i \in Stored(Len(log)) <=>
         Alive(k, Len(log)) /\ i.status = log[LastChange(k, Len(log))].status
  BY <1>1 DEF Stored
<1> QED
  BY <1>2 DEF Current, Matching

\* The last change settles its key, and one that the filter stops has left
\* nothing to settle.
LEMMA LastSettles ==
    ASSUME TypeOK, NEW k \in Keys, LastChange(k, Len(log)) > 0
    PROVE  LET e == log[LastChange(k, Len(log))] IN
           /\ ~Skipped(e) => Settled(k, Outcome(e))
           /\ Skipped(e) => \A S : Settled(k, S)
<1> DEFINE e == log[LastChange(k, Len(log))]
<1>1. e \in Event /\ e.key = k
  BY LastChangeIs DEF TypeOK
<1>2. Alive(k, Len(log)) <=> e.type = "put"
  BY DEF Alive
<1>3. ASSUME NEW i \in Instance, i.key = k
      PROVE  i \in Current <=>
                e.type = "put" /\ i.status = e.status /\ (healthyOnly => i.status = "health")
  <2>1. i \in Current <=>
              /\ Alive(k, Len(log))
              /\ i.status = e.status
              /\ healthyOnly => i.status = "health"
    BY <1>3, CurrentIs
  <2> QED
    BY <1>2, <2>1
<1>4. ASSUME NEW i \in Instance, i.key = k
      PROVE  i \in Outcome(e) <=> e.type = "put" /\ i.status = e.status
  BY <1>1, <1>4 DEF Outcome, Instance
<1> HIDE DEF e
<1>5. ASSUME Skipped(e), NEW S PROVE Settled(k, S)
  <2>1. healthyOnly /\ e.status # "health"
    BY <1>5 DEF Skipped
  <2> QED
    BY <1>3, <2>1 DEF Settled
<1>6. ASSUME ~Skipped(e) PROVE Settled(k, Outcome(e))
  <2>1. ASSUME NEW i \in Instance, i.key = k PROVE i \in Current <=> i \in Outcome(e)
    BY <1>3, <1>4, <1>6, <2>1 DEF Skipped
  <2> QED
    BY <2>1 DEF Settled
<1> QED
  BY <1>5, <1>6 DEF e

\* What the log does not say anew stays as it is.
LEMMA LoggedLast ==
    ASSUME TypeOK, NEW e \in Event, Logged(e), NEW k
    PROVE  /\ k = e.key => LastChange(k, Len(log))' = Len(log) + 1
           /\ k # e.key => LastChange(k, Len(log))' = LastChange(k, Len(log))
<1> DEFINE n == Len(log)
<1>1. /\ n \in Nat /\ Len(log') = n + 1 /\ log'[n + 1] = e
      /\ \A r \in 1..n : log'[r] = log[r]
  BY ChannelStep DEF TypeOK, Logged
<1>2. CASE k # e.key
  <2> DEFINE Largest(S) == IF S = {} THEN 0 ELSE CHOOSE r \in S : \A t \in S : t <= r
             changes == {r \in 1..n : log[r].key = k}
  <2>1. changes' = changes
    BY <1>1, <1>2
  <2>2. LastChange(k, Len(log)) = Largest(changes)
        /\ LastChange(k, Len(log))' = Largest(changes')
    BY DEF LastChange
  <2> HIDE DEF Largest, changes
  <2> QED
    BY <1>2, <2>1, <2>2
<1>3. CASE k = e.key
  <2> DEFINE changes == {r \in 1..Len(log') : log'[r].key = k}
  <2>1. n + 1 \in changes /\ \A r \in changes : r \in Nat /\ r <= n + 1
    BY <1>1, <1>3
  <2>2. LastChange(k, Len(log))' = CHOOSE r \in changes : \A s \in changes : s <= r
    BY <2>1 DEF LastChange
  <2> HIDE DEF changes
  <2>3. LastChange(k, Len(log))' \in changes
        /\ \A s \in changes : s <= LastChange(k, Len(log))'
    BY <2>1, <2>2
  <2>4. LastChange(k, Len(log))' \in Nat /\ LastChange(k, Len(log))' <= n + 1
        /\ n + 1 <= LastChange(k, Len(log))'
    BY <2>1, <2>3
  <2>5. \A m \in Nat : m <= n + 1 /\ n + 1 <= m => m = n + 1
    BY <1>1
  <2> HIDE DEF n
  <2> QED
    BY <1>3, <2>4, <2>5 DEF n
<1> QED
  BY <1>2, <1>3

LEMMA LoggedSettled ==
    ASSUME TypeOK, NEW e \in Event, Logged(e), NEW k \in Keys, k # e.key, NEW S, Settled(k, S)
    PROVE  Settled(k, S)'
<1> DEFINE last == LastChange(k, Len(log))
<1>1. last' = last /\ last \in 0..Len(log)
  BY LoggedLast, LastChangeIs DEF TypeOK
<1>2. last > 0 => log'[last] = log[last]
  BY <1>1, ChannelStep DEF TypeOK, Logged
<1>3. Alive(k, Len(log))' <=> Alive(k, Len(log))
  BY <1>1, <1>2 DEF Alive
<1>4. ASSUME NEW i \in Instance, i.key = k PROVE i \in Current' <=> i \in Current
  <2>1. i = [key |-> k, status |-> i.status]
    BY <1>4 DEF Instance
  <2>2. i \in Stored(Len(log))' <=> Alive(k, Len(log))' /\ i.status = log'[last'].status
    BY <2>1 DEF Stored
  <2>3. i \in Current' <=>
           i \in Stored(Len(log))' /\ (healthyOnly' => i.status = "health")
    BY DEF Current, Matching
  <2>4. last > 0 <=> last # 0
    BY <1>1
  <2>5. i \in Current <=>
              /\ Alive(k, Len(log))
              /\ i.status = log[last].status
              /\ healthyOnly => i.status = "health"
    BY <1>4, CurrentIs
  <2>6. Alive(k, Len(log)) => last > 0
    BY DEF Alive
  <2> QED
    BY <1>1, <1>2, <1>3, <2>2, <2>3, <2>5, <2>6 DEF Logged
<1> QED
  BY <1>4 DEF Settled, Logged

\* Without a new change nothing is unsettled.
LEMMA SettledKept ==
    ASSUME UNCHANGED <<log, healthyOnly>>
    PROVE  /\ \A k : LastChange(k, Len(log))' = LastChange(k, Len(log))
           /\ \A k, S : Settled(k, S)' <=> Settled(k, S)
<1>1. \A k : LastChange(k, Len(log))' = LastChange(k, Len(log))
  BY DEF LastChange
<1>2. Current' = Current
  BY DEF Current, Matching, Stored, Alive, LastChange
<1> QED
  BY <1>1, <1>2 DEF Settled

-----------------------------------------------------------------------------
(* The consumer is never further behind than its streams.                  *)

\* New changes are still to come out of the store adapter.
LEMMA FollowLogged ==
    ASSUME TInv, FollowInv, NEW e \in Event, Logged(e)
    PROVE  FollowInv'
<1> USE DEF TInv, TypeOK, Logged, pipeline, consumer
<1>1. Len(log') = Len(log) + 1 /\ Len(log) \in Nat
  BY ChannelStep
<1>2. ASSUME NEW k \in Keys, LastChange(k, Len(log))' <= Len(log)
      PROVE  /\ LastChange(k, Len(log))' = LastChange(k, Len(log))
             /\ \A S : Settled(k, S) => Settled(k, S)'
  <2>1. k # e.key
    BY <1>1, <1>2, LoggedLast
  <2> QED
    BY <2>1, LoggedLast, LoggedSettled
<1>3. ASSUME NEW k \in Keys PROVE LastChange(k, Len(log))' \in Nat
  <2>1. LastChange(k, Len(log)) \in Nat
    BY <1>1, LastChangeIs
  <2> QED
    BY <1>1, <2>1, LoggedLast
<1>4. ASSUME NEW S, NEW n \in Nat, n <= Len(log), Knows(S, n)
      PROVE  \A k \in Keys : LastChange(k, Len(log))' <= n => Settled(k, S)'
  BY <1>1, <1>2, <1>3, <1>4 DEF Knows
<1>5. pc = "store" => Knows(snap, start - 1)'
  <2> SUFFICES ASSUME pc = "store" PROVE Knows(snap, start - 1)'
    OBVIOUS
  <2>1. start - 1 \in Nat /\ start - 1 <= Len(log) /\ Knows(snap, start - 1)
    BY <1>1 DEF FollowInv, Streams
  <2>2. \A k \in Keys : LastChange(k, Len(log))' <= start - 1 => Settled(k, snap)'
    BY <1>4, <2>1
  <2> QED
    BY <2>2 DEF Knows
<1>6. pc = "open" => Knows(cache, start - 1)'
  <2> SUFFICES ASSUME pc = "open" PROVE Knows(cache, start - 1)'
    OBVIOUS
  <2>1. start - 1 \in Nat /\ start - 1 <= Len(log) /\ Knows(cache, start - 1)
    BY <1>1 DEF FollowInv, Streams
  <2>2. \A k \in Keys : LastChange(k, Len(log))' <= start - 1 => Settled(k, cache)'
    BY <1>4, <2>1
  <2> QED
    BY <2>2 DEF Knows
<1>7. ASSUME pc = "watching", storeOpen, svcOpen, NEW k \in Keys PROVE Following(k)'
  <2>1. Following(k) /\ next - Len(storeCh) <= Len(log) + 1 /\ Len(storeCh) \in Nat
    BY <1>7 DEF FollowInv, Streams
  <2> SUFFICES ASSUME LastChange(k, Len(log))' < next - Len(storeCh)
               PROVE  Following(k)'
    BY DEF Following
  <2>2. /\ LastChange(k, Len(log))' = LastChange(k, Len(log))
        /\ \A S : Settled(k, S) => Settled(k, S)'
    BY <1>1, <1>2, <1>3, <2>1
  <2> QED
    BY <2>1, <2>2 DEF Following, Outcome
<1> QED
  BY <1>5, <1>6, <1>7 DEF FollowInv

\* The store adapter passes on what it has not passed on yet.
LEMMA FollowStore ==
    ASSUME TInv, FollowInv, StoreForward \/ StoreCompacted \/ StoreFailed
    PROVE  FollowInv'
<1> USE DEF TInv, TypeOK, history, consumer
<1>1. UNCHANGED <<healthyOnly, log, svcCh, svcOpen, pc, snap, start, cache>>
  BY DEF StoreForward, StoreCompacted, StoreFailed, StoreEnd
<1>2. /\ \A k : LastChange(k, Len(log))' = LastChange(k, Len(log))
      /\ \A k, S : Settled(k, S)' <=> Settled(k, S)
  BY <1>1, SettledKept
<1>3. storeOpen' => storeOpen /\ next' - Len(storeCh') = next - Len(storeCh)
  <2>1. CASE StoreForward
    <3>1. storeCh' = Append(storeCh, log[next]) /\ next' = next + 1 /\ storeOpen
      BY <2>1 DEF StoreForward
    <3>2. Len(storeCh') = Len(storeCh) + 1 /\ Len(storeCh) \in Nat
      BY <3>1, ChannelStep
    <3> QED
      BY <3>1, <3>2
  <2>2. CASE StoreCompacted \/ StoreFailed
    BY <2>2 DEF StoreCompacted, StoreFailed, StoreEnd
  <2> QED
    BY <2>1, <2>2
<1> QED
  BY <1>1, <1>2, <1>3 DEF FollowInv, Knows, Following

\* Of an open stream the discovery service takes the revision that follows
\* those it has taken.
LEMMA FollowService ==
    ASSUME TInv, FollowInv, SvcSkip \/ SvcForward \/ SvcReset \/ SvcError
    PROVE  FollowInv'
<1> USE DEF TInv, TypeOK, history, consumer
<1> DEFINE e == Head(storeCh)
           h == next - Len(storeCh)
<1>1. UNCHANGED <<healthyOnly, log, next, storeOpen, pc, snap, start, cache>>
  BY DEF SvcSkip, SvcForward, SvcReset, SvcError
<1>2. /\ \A k : LastChange(k, Len(log))' = LastChange(k, Len(log))
      /\ \A k, S : Settled(k, S)' <=> Settled(k, S)
  BY <1>1, SettledKept
<1>3. storeCh # <<>> /\ storeCh' = Tail(storeCh)
  BY DEF SvcSkip, SvcForward, SvcReset, SvcError
<1>4. svcOpen' => svcOpen
  BY DEF SvcSkip, SvcForward, SvcReset, SvcError
<1>5. ASSUME storeOpen
      PROVE  /\ h \in 1..Len(log) /\ e = log[h] /\ next' - Len(storeCh') = h + 1
             /\ e \in Event /\ (SvcSkip \/ SvcForward)
  <2>1. Len(storeCh) \in Nat \ {0} /\ e = storeCh[1] /\ Len(storeCh') = Len(storeCh) - 1
    BY <1>3, ChannelStep
  <2>2. e = log[next - Len(storeCh) - 1 + 1]
    BY <1>5, <2>1 DEF Streams
  <2>3. h \in 1..Len(log) /\ e = log[h]
    BY <1>5, <2>1, <2>2 DEF Streams
  <2>4. e \in Event
    BY <2>3
  <2>5. e.type # "reset" /\ e.type # "error"
    BY <2>4 DEF Event
  <2> QED
    BY <1>1, <2>1, <2>3, <2>4, <2>5 DEF SvcReset, SvcError
<1>6. ASSUME pc = "watching", storeOpen, svcOpen, NEW k \in Keys, Following(k)
      PROVE  Following(k)'
  <2> DEFINE last == LastChange(k, Len(log))
  <2>1. /\ h \in 1..Len(log) /\ e = log[h] /\ next' - Len(storeCh') = h + 1
        /\ e \in Event /\ (SvcSkip \/ SvcForward)
    BY <1>5, <1>6
  <2>2. last \in 0..Len(log) /\ last' = last /\ (e.key = k => h <= last)
        /\ (last > 0 => log[last].key = k)
    BY <1>2, <2>1, LastChangeIs
  <2> SUFFICES ASSUME last <= h PROVE Following(k)'
    BY <2>1, <2>2 DEF Following
  <2>3. e.key = k => /\ ~Skipped(e) => Settled(k, Outcome(e))
                     /\ Skipped(e) => \A S : Settled(k, S)
    <3> SUFFICES ASSUME e.key = k
                 PROVE  /\ ~Skipped(e) => Settled(k, Outcome(e))
                        /\ Skipped(e) => \A S : Settled(k, S)
      OBVIOUS
    <3>1. h = last /\ last > 0
      BY <2>1, <2>2
    <3>2. e = log[LastChange(k, Len(log))]
      BY <2>1, <3>1
    <3> HIDE DEF e
    <3> QED
      BY <3>1, <3>2, LastSettles
  <2>4. e.key # k => last < h
    BY <2>1, <2>2
  <2> HIDE DEF e, h, last
  <2>5. CASE SvcSkip
    <3>1. svcCh' = svcCh /\ Skipped(e)
      BY <2>5 DEF SvcSkip, e
    <3> QED
      BY <1>1, <1>2, <1>6, <2>3, <2>4, <3>1 DEF Following, h, last
  <2>6. CASE SvcForward
    <3>1. svcCh' = Append(svcCh, e) /\ ~Skipped(e)
      BY <2>6 DEF SvcForward, e
    <3>2. /\ Len(svcCh') = Len(svcCh) + 1 /\ Len(svcCh) \in Nat
          /\ svcCh'[Len(svcCh) + 1] = e
          /\ \A j \in 1..Len(svcCh) : svcCh'[j] = svcCh[j]
      BY <3>1, ChannelStep
    <3> DEFINE mine == {j \in 1..Len(svcCh) : svcCh[j].key = k}
    <3>3. CASE e.key = k
      <4>1. Len(svcCh) + 1 \in mine' /\ \A j \in mine' : j \in 1..(Len(svcCh) + 1)
        BY <3>2, <3>3
      <4>2. ASSUME NEW j \in mine', \A i \in mine' : i <= j PROVE Settled(k, Outcome(svcCh'[j]))
        <5>1. j = Len(svcCh) + 1
          BY <3>2, <4>1, <4>2
        <5> QED
          BY <2>3, <3>1, <3>2, <3>3, <5>1
      <4> QED
        BY <1>1, <1>2, <4>1, <4>2 DEF Following, Outcome
    <3>4. CASE e.key # k
      <4>1. mine' = mine /\ \A j \in mine : svcCh'[j] = svcCh[j]
        BY <3>2, <3>4
      <4>2. /\ mine = {} => Settled(k, cache)
            /\ \A j \in mine : (\A i \in mine : i <= j) => Settled(k, Outcome(svcCh[j]))
        BY <1>6, <2>4, <3>4 DEF Following, h, last
      <4> QED
        BY <1>1, <1>2, <4>1, <4>2 DEF Following, Outcome
    <3> QED
      BY <3>3, <3>4
  <2> QED
    BY <2>1, <2>5, <2>6
<1> QED
  BY <1>1, <1>2, <1>4, <1>6 DEF FollowInv, Knows

\* An event the consumer applies settles its key, if it is the last one, and
\* no other.
LEMMA AppliedSettles ==
    ASSUME IdsApart, NEW e \in Event, NEW S, NEW k \in Keys
    PROVE  /\ e.key = k => (Settled(k, Outcome(e)) => Settled(k, Applied(S, e)))
           /\ e.key # k => (Settled(k, S) => Settled(k, Applied(S, e)))
<1>1. e.key \in Keys
  BY DEF Event
<1>2. ASSUME NEW i \in Instance, i.key = k, e.key = k
      PROVE  i \in Applied(S, e) <=> i \in Outcome(e)
  BY <1>1, <1>2 DEF Applied, Without, Outcome
<1>3. ASSUME NEW i \in Instance, i.key = k, e.key # k
      PROVE  i \in Applied(S, e) <=> i \in S
  <2>1. IdOf[e.key] # IdOf[k]
    BY <1>1, <1>3 DEF IdsApart
  <2> QED
    BY <1>3, <2>1 DEF Applied, Without
<1> QED
  BY <1>2, <1>3 DEF Settled

LEMMA FollowConsumer ==
    ASSUME IdsApart, FromSnapshot, TInv, FollowInv, Consuming
    PROVE  FollowInv'
<1> USE DEF TInv, TypeOK, history, pipeline
<1>0. UNCHANGED <<healthyOnly, log>>
  BY DEF Consuming, FetchSnapshot, StoreSnapshot, OpenWatch, ApplyEvent, ApplyReset,
     WatchReturns
<1>1. /\ \A k : LastChange(k, Len(log))' = LastChange(k, Len(log))
      /\ \A k, S : Settled(k, S)' <=> Settled(k, S)
  BY <1>0, SettledKept
<1>2. CASE FetchSnapshot
  <2>1. start' > 0 /\ snap' = Current /\ pc' = "store"
    BY <1>2, NewestHasBeen DEF FetchSnapshot, Current
  <2>2. \A k : Settled(k, Current)
    BY DEF Settled
  <2>3. Knows(snap, start - 1)'
    BY <1>1, <2>1, <2>2 DEF Knows
  <2> QED
    BY <2>1, <2>3 DEF FollowInv
<1>3. CASE StoreSnapshot
  BY <1>1, <1>3 DEF StoreSnapshot, FollowInv, Knows
<1>4. CASE OpenWatch
  <2>1. next' = start /\ start > 0 /\ Len(storeCh') = 0 /\ Len(svcCh') = 0
        /\ cache' = cache /\ pc' = "watching" /\ Knows(cache, start - 1)
    BY <1>4 DEF OpenWatch, FirstWatched, FollowInv
  <2>2. ASSUME NEW k \in Keys PROVE Following(k)'
    <3>1. LastChange(k, Len(log)) \in Nat
      BY LastChangeIs
    <3>2. LastChange(k, Len(log)) < start => Settled(k, cache)
      BY <2>1, <3>1 DEF Knows
    <3> QED
      BY <1>1, <2>1, <3>2 DEF Following
  <2> QED
    BY <2>1, <2>2 DEF FollowInv
<1>5. CASE ApplyEvent
  <2> DEFINE e == Head(svcCh)
  <2>0. svcCh # <<>> /\ svcCh' = Tail(svcCh) /\ e.type # "reset" /\ cache' = Applied(cache, e)
        /\ UNCHANGED <<next, storeCh, storeOpen, svcOpen, pc, snap, start>> /\ pc = "watching"
    BY <1>5 DEF ApplyEvent
  <2>1. /\ e \in Event /\ e = svcCh[1] /\ Len(svcCh) \in Nat \ {0}
        /\ Len(svcCh') = Len(svcCh) - 1
        /\ \A j \in 1..Len(svcCh') : svcCh'[j] = svcCh[j + 1]
    BY <2>0, ChannelStep
  <2> HIDE DEF e
  <2>2. ASSUME NEW k \in Keys, Following(k) PROVE Following(k)'
    <3> DEFINE mine == {j \in 1..Len(svcCh) : svcCh[j].key = k}
    <3> SUFFICES ASSUME LastChange(k, Len(log)) < next - Len(storeCh)
                 PROVE  /\ mine' = {} => Settled(k, cache')
                        /\ \A j \in mine' : (\A i \in mine' : i <= j) =>
                                              Settled(k, Outcome(svcCh'[j]))
      BY <1>1, <2>0 DEF Following, Outcome
    <3>1. /\ mine = {} => Settled(k, cache)
          /\ \A j \in mine : (\A i \in mine : i <= j) => Settled(k, Outcome(svcCh[j]))
      BY <2>2 DEF Following
    <3>2. \A j \in mine' : j + 1 \in mine /\ j \in Nat /\ svcCh'[j] = svcCh[j + 1]
      BY <2>1
    <3>3. ASSUME NEW j \in mine, j # 1 PROVE j - 1 \in mine'
      <4>1. j - 1 \in 1..Len(svcCh') /\ (j - 1) + 1 = j
        BY <2>1, <3>3
      <4>2. svcCh'[j - 1] = svcCh[j]
        BY <2>1, <4>1
      <4> QED
        BY <4>1, <4>2
    <3>4. 1 \in mine <=> e.key = k
      BY <2>1
    <3>5. ASSUME mine' = {} PROVE Settled(k, cache')
      <4>1. CASE e.key = k
        <5>1. ASSUME NEW i \in mine PROVE i <= 1
          <6>1. i = 1
            BY <3>3, <3>5
          <6> QED
            BY <6>1
        <5>2. Settled(k, Outcome(e))
          BY <2>1, <3>1, <3>4, <4>1, <5>1
        <5> QED
          BY <2>0, <2>1, <4>1, <5>2, AppliedSettles
      <4>2. CASE e.key # k
        <5>1. mine = {}
          BY <3>3, <3>4, <3>5, <4>2
        <5> QED
          BY <2>0, <2>1, <3>1, <4>2, <5>1, AppliedSettles
      <4> QED
        BY <4>1, <4>2
    <3>6. ASSUME NEW j \in mine', \A i \in mine' : i <= j
          PROVE  Settled(k, Outcome(svcCh'[j]))
      <4>1. \A i \in mine : i \in Nat /\ i <= j + 1
        BY <3>2, <3>3, <3>6
      <4> QED
        BY <3>1, <3>2, <4>1
    <3> QED
      BY <3>5, <3>6
  <2> QED
    BY <2>0, <2>2 DEF FollowInv
<1>6. CASE ApplyReset
  <2>1. ~svcOpen
    <3>1. svcCh # <<>> /\ Head(svcCh).type = "reset"
      BY <1>6 DEF ApplyReset
    <3>2. svcOpen => Head(svcCh) \in Event
      BY <3>1, ChannelStep DEF Streams
    <3> QED
      BY <3>1, <3>2 DEF Event
  <2> QED
    BY <1>6, <2>1 DEF ApplyReset, FollowInv
<1>7. CASE WatchReturns
  BY <1>7 DEF WatchReturns, FollowInv
<1> QED
  BY <1>2, <1>3, <1>4, <1>5, <1>6, <1>7 DEF Consuming

-----------------------------------------------------------------------------
(* The theorems.                                                           *)

LEMMA TInvStep == TInv /\ [Next]_vars => TInv'
<1> SUFFICES ASSUME TInv, [Next]_vars PROVE TInv'
  OBVIOUS
<1>1. ASSUME NEW k \in Keys, DeleteInstance(k) \/ \E s \in Statuses : PutInstance(k, s)
      PROVE  TInv'
  BY <1>1, WritesLogged, TInvLogged DEF TInv
<1>2. CASE Compact
  BY <1>2 DEF Compact, pipeline, consumer, TInv, TypeOK, HealthyOnly, Streams
<1>3. CASE UNCHANGED vars
  BY <1>3 DEF vars, TInv, TypeOK, HealthyOnly, Streams
<1> QED
  BY <1>1, <1>2, <1>3, TInvStore, TInvService, TInvConsumer DEF Next, Forwarding

LEMMA FollowStep ==
    ASSUME IdsApart, FromSnapshot, TInv, FollowInv, [Next]_vars
    PROVE  FollowInv'
<1>1. ASSUME NEW k \in Keys, DeleteInstance(k) \/ \E s \in Statuses : PutInstance(k, s)
      PROVE  FollowInv'
  BY <1>1, WritesLogged, FollowLogged DEF TInv
<1>2. CASE Compact \/ UNCHANGED vars
  <2>1. UNCHANGED <<healthyOnly, log, pipeline, consumer>>
    BY <1>2 DEF Compact, vars, pipeline, consumer
  <2>2. /\ \A k : LastChange(k, Len(log))' = LastChange(k, Len(log))
        /\ \A k, S : Settled(k, S)' <=> Settled(k, S)
    BY <2>1, SettledKept
  <2> QED
    BY <2>1, <2>2 DEF FollowInv, Knows, Following, Outcome, pipeline, consumer
<1> QED
  BY <1>1, <1>2, FollowStore, FollowService, FollowConsumer DEF Next, Forwarding

\* The log, the channels and the consumer's snapshot and cache keep their
\* types whatever is written, compacted, filtered and lost.
THEOREM TypeCorrect == Spec => []TypeOK
<1>1. TInv => TypeOK
  BY DEF TInv
<1> QED
  BY <1>1, TInvInit, TInvStep, PTL DEF Spec

\* A consumer whose watch starts where its snapshot ends, of instances with
\* ids of their own: once it caught up it knows every instance its filter
\* asks for and, unfiltered, no other, for channels of any capacity, through
\* compactions, rebuilds and failed streams.
THEOREM FollowsTheRegistry ==
    ASSUME IdsApart, FromSnapshot
    PROVE  Spec => []CaughtUpAsAsked
<1>1. Init => FollowInv
  BY DEF Init, FollowInv
<1>2. TInv /\ FollowInv /\ [Next]_vars => FollowInv'
  BY FollowStep
<1>3. TInv /\ FollowInv => CaughtUpAsAsked
  <2> SUFFICES ASSUME TInv, FollowInv PROVE CaughtUpAsAsked
    OBVIOUS
  <2>1. OnlyAskedFor
    BY DEF TInv, HealthyOnly, OnlyAskedFor
  <2>2. ASSUME CaughtUp, NEW i \in Instance
        PROVE  (i \in Current => i \in cache) /\ (~healthyOnly /\ i \in cache => i \in Current)
    <3>1. i.key \in Keys
      BY DEF Instance
    <3>2. LastChange(i.key, Len(log)) \in 0..Len(log) /\ Len(log) \in Nat
      BY LastChangeIs DEF TInv, TypeOK
    <3>3. LastChange(i.key, Len(log)) < next - Len(storeCh) /\ Len(svcCh) = 0
      BY <2>2, <3>2 DEF CaughtUp, TInv, TypeOK
    <3>4. Settled(i.key, cache)
      BY <2>2, <3>1, <3>3 DEF CaughtUp, FollowInv, Following
    <3> QED
      BY <3>4 DEF Settled
  <2>3. Current \subseteq Instance /\ cache \subseteq Instance
    BY SnapshotTyped DEF Current, TInv, TypeOK
  <2> QED
    BY <2>1, <2>2, <2>3
       DEF CaughtUpAsAsked, UnfilteredIsCurrent, CaughtUpIsComplete, CaughtUpIsCurrent
<1> QED
  BY <1>1, <1>2, <1>3, TInvInit, TInvStep, PTL DEF Spec
============================================================================
