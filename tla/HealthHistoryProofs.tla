------------------------ MODULE HealthHistoryProofs ------------------------
(***************************************************************************)
(* Proofs about the health state machine for every policy, whatever        *)
(* integers it asks for, and for histories of any length; and about the    *)
(* probes of ProbeHealth, which drive it.                                  *)
(***************************************************************************)
EXTENDS ProbeHealth, SequenceTheorems, TLAPS

Record == [status : {"health", "unhealth"}, fails : Int, succs : Int, probed : BOOLEAN]

-----------------------------------------------------------------------------
(* The thresholds in force.                                                *)

LEMMA Thresholds ==
    ASSUME NEW P \in Policies
    PROVE  /\ FailAt(P) \in Nat /\ FailAt(P) >= 1
           /\ RecoverAt(P) \in Nat /\ RecoverAt(P) >= 1
           /\ DeleteAt(P) \in Nat /\ DeleteAt(P) >= FailAt(P) + 1
  BY PolicyAssumption DEF FailAt, RecoverAt, DeleteAt, AtLeast

-----------------------------------------------------------------------------
(* Types.                                                                  *)

LEMMA TypeInit == Init => TypeOK
<1> SUFFICES ASSUME Init PROVE TypeOK
  OBVIOUS
<1>1. first \in Record /\ instance \in Record
  BY CountersAssumption DEF Init, Registered, Record
<1>2. history \in Seq(BOOLEAN)
  BY DEF Init
<1> QED
  BY <1>1, <1>2 DEF Init, TypeOK, Record

LEMMA Typed == TypeOK => first \in Record /\ instance \in Record
  BY DEF TypeOK, Record

LEMMA ProbeTyped ==
    ASSUME NEW i \in Record, NEW ok \in BOOLEAN, NEW P
    PROVE  ApplyProbeResult(i, ok, P) \in Record
<1>0. i.fails + 1 \in Int /\ i.succs + 1 \in Int /\ 0 \in Int /\ TRUE \in BOOLEAN
  BY DEF Record
<1>1. ProbeSucceeded(i, P) \in Record
  <2> DEFINE s == IF i.status = "unhealth" /\ i.succs + 1 >= RecoverAt(P)
                  THEN "health" ELSE i.status
  <2>1. s \in {"health", "unhealth"}
    BY DEF Record
  <2> HIDE DEF s
  <2>2. ProbeSucceeded(i, P) = [i EXCEPT !.probed = TRUE, !.succs = i.succs + 1,
                                    !.fails = 0, !.status = s]
    BY DEF ProbeSucceeded, s
  <2> QED
    BY <1>0, <2>1, <2>2 DEF Record
<1>2. ProbeFailed(i, P) \in Record
  <2> DEFINE s == IF i.status = "health" /\ i.fails + 1 >= FailAt(P)
                  THEN "unhealth" ELSE i.status
  <2>1. s \in {"health", "unhealth"}
    BY DEF Record
  <2> HIDE DEF s
  <2>2. ProbeFailed(i, P) = [i EXCEPT !.probed = TRUE, !.fails = i.fails + 1,
                                 !.succs = 0, !.status = s]
    BY DEF ProbeFailed, s
  <2> QED
    BY <1>0, <2>1, <2>2 DEF Record
<1> QED
  BY <1>1, <1>2 DEF ApplyProbeResult

LEMMA TypeStep == TypeOK /\ [Next]_vars => TypeOK'
<1> SUFFICES ASSUME TypeOK, [Next]_vars PROVE TypeOK'
  OBVIOUS
<1>1. ASSUME NEW success \in BOOLEAN, Probe(success) PROVE TypeOK'
  <2>1. instance' \in Record
    BY <1>1, Typed, ProbeTyped DEF Probe, TypeOK
  <2>2. deleted' \in BOOLEAN
    BY <1>1 DEF Probe, ShouldDelete
  <2>3. history' \in Seq(BOOLEAN)
    BY <1>1 DEF Probe, TypeOK
  <2> QED
    BY <1>1, <2>1, <2>2, <2>3, Typed DEF Probe, TypeOK, Record
<1> QED
  BY <1>1 DEF Next, vars, TypeOK

-----------------------------------------------------------------------------
(* Runs of equal outcomes in a history h that follows the registration of  *)
(* c, and what one more outcome does to them.                              *)

Claim(c, outcome) == IF outcome THEN c.succs ELSE c.fails

All(h, outcome, j) == \A m \in 1..j : h[m] = outcome

Run(h, c, outcome, n, j) ==
    /\ j >= 1
    /\ IF All(h, outcome, j) THEN Claim(c, outcome) + j >= n
       ELSE n <= j /\ \A m \in (j - n + 1)..j : h[m] = outcome

\* The run of this outcome that ends h counts n: the claim and all of h, or
\* what followed the last other outcome.
Counted(h, c, outcome, n) ==
    \/ All(h, outcome, Len(h)) /\ n = Claim(c, outcome) + Len(h)
    \/ /\ n \in Nat /\ n < Len(h) /\ h[Len(h) - n] # outcome
       /\ \A m \in 1..Len(h) : m > Len(h) - n => h[m] = outcome

LEMMA AppendOne ==
    ASSUME NEW h \in Seq(BOOLEAN), NEW o \in BOOLEAN
    PROVE  /\ Append(h, o) \in Seq(BOOLEAN)
           /\ Len(h) \in Nat /\ Len(Append(h, o)) = Len(h) + 1
           /\ Append(h, o)[Len(h) + 1] = o
           /\ \A m \in 1..Len(h) : Append(h, o)[m] = h[m]
  BY AppendProperties

LEMMA CountedLonger ==
    ASSUME NEW h \in Seq(BOOLEAN), NEW c \in Record, NEW o \in BOOLEAN,
           NEW n \in Int, Counted(h, c, o, n)
    PROVE  Counted(Append(h, o), c, o, n + 1)
<1> DEFINE g == Append(h, o)
<1>1. /\ Len(h) \in Nat /\ Len(g) = Len(h) + 1 /\ g[Len(h) + 1] = o
      /\ \A m \in 1..Len(h) : g[m] = h[m]
  BY AppendOne
<1>2. Claim(c, o) \in Int
  BY DEF Claim, Record
<1> HIDE DEF g
<1>3. CASE All(h, o, Len(h)) /\ n = Claim(c, o) + Len(h)
  <2>1. \A m \in 1..(Len(h) + 1) : m \in 1..Len(h) \/ m = Len(h) + 1
    BY <1>1
  <2>2. All(g, o, Len(g))
    BY <1>1, <1>3, <2>1 DEF All
  <2>3. n + 1 = Claim(c, o) + Len(g)
    BY <1>1, <1>2, <1>3
  <2> QED
    BY <2>2, <2>3 DEF Counted, g
<1>4. CASE /\ n \in Nat /\ n < Len(h) /\ h[Len(h) - n] # o
           /\ \A m \in 1..Len(h) : m > Len(h) - n => h[m] = o
  <2>1. /\ n + 1 \in Nat /\ n + 1 < Len(g) /\ Len(g) - (n + 1) = Len(h) - n
        /\ Len(h) - n \in 1..Len(h)
    BY <1>1, <1>4
  <2>2. g[Len(g) - (n + 1)] # o
    BY <1>1, <1>4, <2>1
  <2>3. \A m \in 1..Len(g) : m > Len(g) - (n + 1) => g[m] = o
    BY <1>1, <1>4
  <2> QED
    BY <2>1, <2>2, <2>3 DEF Counted, g
<1> QED
  BY <1>3, <1>4 DEF Counted

LEMMA CountedAnew ==
    ASSUME NEW h \in Seq(BOOLEAN), NEW c \in Record, NEW o \in BOOLEAN,
           NEW other \in BOOLEAN, other # o
    PROVE  Counted(Append(h, other), c, o, 0)
<1> DEFINE g == Append(h, other)
<1>1. Len(h) \in Nat /\ Len(g) = Len(h) + 1 /\ g[Len(h) + 1] = other
  BY AppendOne
<1> HIDE DEF g
<1>2. Counted(g, c, o, 0)
  BY <1>1 DEF Counted
<1> QED
  BY <1>2 DEF g

\* A counter that follows its run tells whether a run of length d ends h.
LEMMA RunCounted ==
    ASSUME NEW h \in Seq(BOOLEAN), Len(h) >= 1, NEW c \in Record, NEW o \in BOOLEAN,
           NEW n \in Int, Counted(h, c, o, n), NEW d \in Nat, d >= 1
    PROVE  n >= d <=> Run(h, c, o, d, Len(h))
<1>0. Len(h) \in Nat /\ Claim(c, o) \in Int
  BY DEF Claim, Record
<1>1. CASE All(h, o, Len(h))
  <2>1. ASSUME n \in Nat, n < Len(h), h[Len(h) - n] # o PROVE FALSE
    <3>1. Len(h) - n \in 1..Len(h)
      BY <1>0, <2>1
    <3> QED
      BY <1>1, <2>1, <3>1 DEF All
  <2>2. n = Claim(c, o) + Len(h)
    BY <2>1 DEF Counted
  <2> QED
    BY <1>0, <1>1, <2>2 DEF Run
<1>2. CASE ~All(h, o, Len(h))
  <2>1. /\ n \in Nat /\ n < Len(h) /\ h[Len(h) - n] # o
        /\ \A m \in 1..Len(h) : m > Len(h) - n => h[m] = o
    BY <1>2 DEF Counted
  <2>2. CASE n >= d
    <3>1. d <= Len(h) /\ \A m \in (Len(h) - d + 1)..Len(h) : m \in 1..Len(h) /\ m > Len(h) - n
      BY <1>0, <2>1, <2>2
    <3> QED
      BY <1>2, <2>1, <2>2, <3>1 DEF Run
  <2>3. CASE n < d
    <3>1. d <= Len(h) => Len(h) - n \in (Len(h) - d + 1)..Len(h)
      BY <1>0, <2>1, <2>3
    <3>2. ~(n >= d)
      BY <2>1, <2>3
    <3> QED
      BY <1>2, <2>1, <3>1, <3>2 DEF Run
  <2>4. n >= d \/ n < d
    BY <2>1
  <2> QED
    BY Zenon, <2>2, <2>3, <2>4
<1> QED
  BY <1>1, <1>2

LEMMA RunEnds ==
    ASSUME NEW h, NEW c, NEW o, NEW d \in Nat, d >= 1, NEW j \in Nat, Run(h, c, o, d, j)
    PROVE  j >= 1 /\ h[j] = o
<1>1. j >= 1
  BY DEF Run
<1>2. CASE All(h, o, j)
  BY <1>1, <1>2 DEF All
<1>3. CASE ~All(h, o, j)
  <2>1. d <= j /\ \A m \in (j - d + 1)..j : h[m] = o
    BY <1>3 DEF Run
  <2>2. j \in (j - d + 1)..j
    BY <2>1
  <2> QED
    BY <1>1, <2>1, <2>2
<1> QED
  BY <1>2, <1>3

\* As many outcomes in a row as the claim leaves to be asked for are a run.
LEMMA RunOwed ==
    ASSUME NEW h, NEW c \in Record, NEW o \in BOOLEAN, NEW d \in Nat, d >= 1,
           NEW j \in Nat, NEW w \in Nat, w = d + Owed(Claim(c, o)), w <= j,
           \A m \in (j - w + 1)..j : h[m] = o
    PROVE  Run(h, c, o, d, j)
<1>1. Claim(c, o) \in Int
  BY DEF Claim, Record
<1>2. w >= d /\ Claim(c, o) + w >= d
  BY <1>1 DEF Owed
<1>3. j >= 1 /\ d <= j /\ Claim(c, o) + j >= d
  BY <1>1, <1>2
<1>4. \A m \in (j - d + 1)..j : m \in (j - w + 1)..j
  BY <1>2
<1>5. \A m \in (j - d + 1)..j : h[m] = o
  BY Zenon, <1>4
<1> QED
  BY Zenon, <1>3, <1>5 DEF Run

\* Runs that ended before do not change.
LEMMA RunEarlier ==
    ASSUME NEW h \in Seq(BOOLEAN), NEW c, NEW last \in BOOLEAN, NEW o \in BOOLEAN,
           NEW d \in Nat, NEW j \in Nat, j <= Len(h)
    PROVE  Run(Append(h, last), c, o, d, j) <=> Run(h, c, o, d, j)
<1> DEFINE g == Append(h, last)
<1>1. Len(h) \in Nat /\ \A m \in 1..Len(h) : g[m] = h[m]
  BY AppendOne
<1> HIDE DEF g
<1>2. \A m \in 1..j : m \in 1..Len(h)
  BY <1>1
<1>3. All(g, o, j) <=> All(h, o, j)
  BY Zenon, <1>1, <1>2 DEF All
<1>4. ASSUME d <= j PROVE \A m \in (j - d + 1)..j : m \in 1..Len(h)
  BY <1>1, <1>4
<1>5. (d <= j /\ \A m \in (j - d + 1)..j : g[m] = o)
          <=> (d <= j /\ \A m \in (j - d + 1)..j : h[m] = o)
  BY Zenon, <1>1, <1>4
<1>6. Run(g, c, o, d, j) <=> Run(h, c, o, d, j)
  BY Zenon, <1>3, <1>5 DEF Run
<1> QED
  BY <1>6 DEF g

-----------------------------------------------------------------------------
(* Health read off a history and the registration c before it: f and r are *)
(* the thresholds in force.                                                *)

Recovered(h, c, r, j) == \E m \in (j + 1)..Len(h) : Run(h, c, TRUE, r, m)

Unhealthy(h, c, f, r) ==
    \/ \E j \in 1..Len(h) : Run(h, c, FALSE, f, j) /\ ~Recovered(h, c, r, j)
    \/ c.status = "unhealth" /\ ~Recovered(h, c, r, 0)

LEMMA RecoveredLater ==
    ASSUME NEW h \in Seq(BOOLEAN), NEW c, NEW last \in BOOLEAN, NEW r \in Nat,
           NEW j \in Nat, j <= Len(h)
    PROVE  Recovered(Append(h, last), c, r, j) <=>
               Recovered(h, c, r, j) \/ Run(Append(h, last), c, TRUE, r, Len(h) + 1)
<1> DEFINE g == Append(h, last)
<1>1. Len(h) \in Nat /\ Len(g) = Len(h) + 1
  BY AppendOne
<1>2. ASSUME NEW m \in (j + 1)..Len(h)
      PROVE  Run(g, c, TRUE, r, m) <=> Run(h, c, TRUE, r, m)
  <2>1. m \in Nat /\ m <= Len(h) /\ TRUE \in BOOLEAN
    BY <1>1
  <2> QED
    BY Zenon, <2>1, RunEarlier
<1> HIDE DEF g
<1>3. \A m \in (j + 1)..Len(g) : m \in (j + 1)..Len(h) \/ m = Len(h) + 1
  BY <1>1
<1>4. Len(h) + 1 \in (j + 1)..Len(g) /\ \A m \in (j + 1)..Len(h) : m \in (j + 1)..Len(g)
  BY <1>1
<1>5. Recovered(g, c, r, j) <=> Recovered(h, c, r, j) \/ Run(g, c, TRUE, r, Len(h) + 1)
  BY Zenon, <1>2, <1>3, <1>4 DEF Recovered
<1> QED
  BY <1>5 DEF g

\* One more failure makes the instance unhealthy if it completes a run, and
\* no failure makes it healthy.
LEMMA UnhealthyAfterFailure ==
    ASSUME NEW h \in Seq(BOOLEAN), NEW c, NEW f \in Nat, NEW r \in Nat, r >= 1
    PROVE  Unhealthy(Append(h, FALSE), c, f, r) <=>
               Unhealthy(h, c, f, r) \/ Run(Append(h, FALSE), c, FALSE, f, Len(h) + 1)
<1> DEFINE g == Append(h, FALSE)
<1>1. Len(h) \in Nat /\ Len(g) = Len(h) + 1 /\ g[Len(h) + 1] = FALSE
  BY AppendOne
<1>2. ~Run(g, c, TRUE, r, Len(h) + 1)
  <2>1. Len(h) + 1 \in Nat /\ TRUE # FALSE
    BY <1>1
  <2> QED
    BY Zenon, <1>1, <2>1, RunEnds
<1>3. ASSUME NEW j \in 0..Len(h) PROVE Recovered(g, c, r, j) <=> Recovered(h, c, r, j)
  <2>1. j \in Nat /\ j <= Len(h) /\ FALSE \in BOOLEAN
    BY <1>1
  <2> QED
    BY Zenon, <1>2, <2>1, RecoveredLater
<1>4. ASSUME NEW j \in 1..Len(h) PROVE Run(g, c, FALSE, f, j) <=> Run(h, c, FALSE, f, j)
  <2>1. j \in Nat /\ j <= Len(h) /\ FALSE \in BOOLEAN /\ TRUE \in BOOLEAN
    BY <1>1
  <2> QED
    BY Zenon, <2>1, RunEarlier
<1> HIDE DEF g
<1>5. ~Recovered(g, c, r, Len(h) + 1)
  <2>1. \A m : m \notin (Len(h) + 1 + 1)..Len(g)
    BY <1>1
  <2> QED
    BY Zenon, <2>1 DEF Recovered
<1>6. 0 \in 0..Len(h)
  BY <1>1
<1>7. \A j \in 1..Len(g) : j \in 1..Len(h) \/ j = Len(h) + 1
  BY <1>1
<1>8. Len(h) + 1 \in 1..Len(g) /\ \A j \in 1..Len(h) : j \in 1..Len(g) /\ j \in 0..Len(h)
  BY <1>1
<1>9. Unhealthy(g, c, f, r) <=> Unhealthy(h, c, f, r) \/ Run(g, c, FALSE, f, Len(h) + 1)
  BY Zenon, <1>3, <1>4, <1>5, <1>6, <1>7, <1>8 DEF Unhealthy
<1> QED
  BY <1>9 DEF g

\* One more success makes the instance healthy if it completes a run, and no
\* success makes it unhealthy.
LEMMA UnhealthyAfterSuccess ==
    ASSUME NEW h \in Seq(BOOLEAN), NEW c, NEW f \in Nat, f >= 1, NEW r \in Nat
    PROVE  Unhealthy(Append(h, TRUE), c, f, r) <=>
               Unhealthy(h, c, f, r) /\ ~Run(Append(h, TRUE), c, TRUE, r, Len(h) + 1)
<1> DEFINE g == Append(h, TRUE)
<1>1. Len(h) \in Nat /\ Len(g) = Len(h) + 1 /\ g[Len(h) + 1] = TRUE
  BY AppendOne
<1>2. ~Run(g, c, FALSE, f, Len(h) + 1)
  <2>1. Len(h) + 1 \in Nat /\ TRUE # FALSE
    BY <1>1
  <2> QED
    BY Zenon, <1>1, <2>1, RunEnds
<1>3. ASSUME NEW j \in 0..Len(h)
      PROVE  Recovered(g, c, r, j) <=> Recovered(h, c, r, j) \/ Run(g, c, TRUE, r, Len(h) + 1)
  <2>1. j \in Nat /\ j <= Len(h) /\ TRUE \in BOOLEAN
    BY <1>1
  <2> QED
    BY Zenon, <2>1, RecoveredLater
<1>4. ASSUME NEW j \in 1..Len(h) PROVE Run(g, c, FALSE, f, j) <=> Run(h, c, FALSE, f, j)
  <2>1. j \in Nat /\ j <= Len(h) /\ FALSE \in BOOLEAN /\ TRUE \in BOOLEAN
    BY <1>1
  <2> QED
    BY Zenon, <2>1, RunEarlier
<1> HIDE DEF g
<1>5. 0 \in 0..Len(h)
  BY <1>1
<1>6. \A j \in 1..Len(g) : j \in 1..Len(h) \/ j = Len(h) + 1
  BY <1>1
<1>7. \A j \in 1..Len(h) : j \in 1..Len(g) /\ j \in 0..Len(h)
  BY <1>1
<1>8. Unhealthy(g, c, f, r) <=> Unhealthy(h, c, f, r) /\ ~Run(g, c, TRUE, r, Len(h) + 1)
  BY Zenon, <1>2, <1>3, <1>4, <1>5, <1>6, <1>7 DEF Unhealthy
<1> QED
  BY <1>8 DEF g

-----------------------------------------------------------------------------
(* The counters of the record against the history.                         *)

\* The counters are what the two runs that end the history count.
Counting ==
    /\ Counted(history, first, FALSE, instance.fails)
    /\ Counted(history, first, TRUE, instance.succs)

\* Once a result was counted a healthy instance is below the failure threshold,
\* and an instance is deleted by the failure that reaches the delete threshold.
\* Until then it is what its client posted.
BelowThreshold ==
    history # <<>> /\ instance.status = "health" => instance.fails < FailAt(policy)
DeletedAtThreshold == deleted <=> history # <<>> /\ instance.fails >= DeleteAt(policy)

AsRegistered == history = <<>> => instance = first

StatusByHistory ==
    instance.status = "unhealth" <=>
        Unhealthy(history, first, FailAt(policy), RecoverAt(policy))

CounterInv ==
    /\ TypeOK /\ Counting /\ BelowThreshold /\ DeletedAtThreshold /\ StatusByHistory
    /\ AsRegistered

LEMMA CounterInit == Init => CounterInv
<1> SUFFICES ASSUME Init PROVE CounterInv
  OBVIOUS
<1>1. TypeOK /\ instance = first /\ first \in Record /\ deleted = FALSE
  BY TypeInit, Typed DEF Init
<1>2. history = <<>> /\ Len(history) = 0
  BY DEF Init
<1>3. Counting
  <2>1. All(history, FALSE, Len(history)) /\ All(history, TRUE, Len(history))
    BY <1>2 DEF All
  <2>2. /\ instance.fails = Claim(first, FALSE) + Len(history)
        /\ instance.succs = Claim(first, TRUE) + Len(history)
    BY <1>1, <1>2 DEF Claim, Record
  <2> QED
    BY <2>1, <2>2 DEF Counting, Counted
<1>4. BelowThreshold /\ DeletedAtThreshold /\ AsRegistered
  BY <1>1, <1>2 DEF BelowThreshold, DeletedAtThreshold, AsRegistered
<1>5. (\A j : j \notin 1..Len(history)) /\ \A j : j \notin (0 + 1)..Len(history)
  BY <1>2
<1>6. StatusByHistory
  BY Zenon, <1>1, <1>5 DEF StatusByHistory, Unhealthy, Recovered
<1> QED
  BY <1>1, <1>3, <1>4, <1>6 DEF CounterInv

\* What one probe does to the record, the history and the deletion.
LEMMA FailedEffect ==
    ASSUME TypeOK, Probe(FALSE)
    PROVE  /\ instance'.fails = instance.fails + 1 /\ instance'.succs = 0
           /\ instance'.status = "unhealth" <=>
                 instance.status = "unhealth" \/ instance.fails + 1 >= FailAt(policy)
           /\ deleted' <=> instance.fails + 1 >= DeleteAt(policy)
           /\ policy' = policy /\ first' = first /\ history' = Append(history, FALSE)
<1>1. instance' = ProbeFailed(instance, policy)
  BY DEF Probe, ApplyProbeResult
<1>2. instance'.fails = instance.fails + 1 /\ instance'.succs = 0
  BY <1>1, Typed DEF ProbeFailed, Record
<1>3. instance'.status = "unhealth" <=>
          instance.status = "unhealth" \/ instance.fails + 1 >= FailAt(policy)
  BY <1>1, Typed DEF ProbeFailed, Record
<1>4. deleted' <=> instance.fails + 1 >= DeleteAt(policy)
  BY Zenon DEF Probe, ShouldDelete
<1> QED
  BY <1>2, <1>3, <1>4 DEF Probe

LEMMA SucceededEffect ==
    ASSUME TypeOK, Probe(TRUE)
    PROVE  /\ instance'.succs = instance.succs + 1 /\ instance'.fails = 0
           /\ instance'.status = "unhealth" <=>
                 instance.status = "unhealth" /\ ~(instance.succs + 1 >= RecoverAt(policy))
           /\ deleted' = FALSE
           /\ policy' = policy /\ first' = first /\ history' = Append(history, TRUE)
<1>1. instance' = ProbeSucceeded(instance, policy)
  BY DEF Probe, ApplyProbeResult
<1>2. instance'.succs = instance.succs + 1 /\ instance'.fails = 0
  BY <1>1, Typed DEF ProbeSucceeded, Record
<1>3. instance'.status = "unhealth" <=>
          instance.status = "unhealth" /\ ~(instance.succs + 1 >= RecoverAt(policy))
  BY <1>1, Typed DEF ProbeSucceeded, Record
<1> QED
  BY <1>2, <1>3 DEF Probe, ShouldDelete

LEMMA CounterStep == CounterInv /\ [Next]_vars => CounterInv'
<1> SUFFICES ASSUME CounterInv, [Next]_vars PROVE CounterInv'
  OBVIOUS
<1> DEFINE h == history
           f == FailAt(policy)
           r == RecoverAt(policy)
           d == DeleteAt(policy)
<1>0. TypeOK /\ TypeOK'
  BY TypeStep DEF CounterInv
<1>1. /\ h \in Seq(BOOLEAN) /\ Len(h) \in Nat /\ first \in Record
      /\ instance.fails \in Int /\ instance.succs \in Int
      /\ f \in Nat /\ f >= 1 /\ r \in Nat /\ r >= 1 /\ d \in Nat /\ d >= f + 1
      /\ TRUE \in BOOLEAN /\ FALSE \in BOOLEAN /\ TRUE # FALSE
  BY <1>0, Typed, Thresholds DEF TypeOK, Record
<1>2. /\ instance.status = "unhealth" <=> Unhealthy(h, first, f, r)
      /\ Counted(h, first, FALSE, instance.fails) /\ Counted(h, first, TRUE, instance.succs)
  BY DEF CounterInv, StatusByHistory, Counting
<1>3. CASE Probe(FALSE)
  <2>1. /\ instance'.fails = instance.fails + 1 /\ instance'.succs = 0
        /\ policy' = policy /\ first' = first /\ history' = Append(h, FALSE)
    BY <1>0, <1>3, FailedEffect
  <2>2. Counting' /\ history' # <<>> /\ AsRegistered'
    <3>1. /\ Counted(Append(h, FALSE), first, FALSE, instance.fails + 1)
          /\ Counted(Append(h, FALSE), first, TRUE, 0)
      BY Zenon, <1>1, <1>2, CountedLonger, CountedAnew
    <3>2. Counting'
      BY Zenon, <2>1, <3>1 DEF Counting
    <3>3. history' # <<>>
      <4>1. Len(Append(h, FALSE)) = Len(h) + 1
        BY <1>1, AppendOne
      <4>2. Len(<<>>) = 0
        OBVIOUS
      <4>3. Len(h) + 1 # 0
        BY <1>1
      <4> QED
        BY Zenon, <2>1, <4>1, <4>2, <4>3
    <3> QED
      BY <3>2, <3>3 DEF AsRegistered
  <2>3. instance.fails + 1 >= f <=> Run(Append(h, FALSE), first, FALSE, f, Len(h) + 1)
    <3>1. Counted(Append(h, FALSE), first, FALSE, instance.fails + 1)
      BY <1>1, <1>2, CountedLonger
    <3>2. /\ Append(h, FALSE) \in Seq(BOOLEAN) /\ Len(Append(h, FALSE)) = Len(h) + 1
          /\ Len(Append(h, FALSE)) >= 1
      BY <1>1, AppendOne
    <3>3. instance.fails + 1 \in Int
      BY <1>1
    <3> HIDE DEF h, f
    <3> QED
      BY <1>1, <3>1, <3>2, <3>3, RunCounted
  <2>4. Unhealthy(Append(h, FALSE), first, f, r) <=>
            Unhealthy(h, first, f, r) \/ Run(Append(h, FALSE), first, FALSE, f, Len(h) + 1)
    BY Zenon, <1>1, UnhealthyAfterFailure
  <2>5. instance'.status = "unhealth" <=>
            instance.status = "unhealth" \/ instance.fails + 1 >= f
    BY Zenon, <1>0, <1>3, FailedEffect
  <2>6. StatusByHistory'
    BY Zenon, <1>2, <2>1, <2>3, <2>4, <2>5 DEF StatusByHistory
  <2>7. deleted' <=> instance.fails + 1 >= d
    BY Zenon, <1>0, <1>3, FailedEffect
  <2>8. DeletedAtThreshold'
    BY Zenon, <2>1, <2>2, <2>7 DEF DeletedAtThreshold
  <2>9. BelowThreshold'
    <3>1. ASSUME instance'.status = "health" PROVE ~(instance.fails + 1 >= f)
      BY <3>1, <2>5
    <3> QED
      BY <1>1, <2>1, <3>1 DEF BelowThreshold
  <2> QED
    BY <1>0, <2>2, <2>6, <2>8, <2>9 DEF CounterInv
<1>4. CASE Probe(TRUE)
  <2>1. /\ instance'.succs = instance.succs + 1 /\ instance'.fails = 0 /\ deleted' = FALSE
        /\ policy' = policy /\ first' = first /\ history' = Append(h, TRUE)
    BY <1>0, <1>4, SucceededEffect
  <2>2. Counting' /\ history' # <<>> /\ AsRegistered'
    <3>1. /\ Counted(Append(h, TRUE), first, TRUE, instance.succs + 1)
          /\ Counted(Append(h, TRUE), first, FALSE, 0)
      BY Zenon, <1>1, <1>2, CountedLonger, CountedAnew
    <3>2. Counting'
      BY Zenon, <2>1, <3>1 DEF Counting
    <3>3. history' # <<>>
      <4>1. Len(Append(h, TRUE)) = Len(h) + 1
        BY <1>1, AppendOne
      <4>2. Len(<<>>) = 0
        OBVIOUS
      <4>3. Len(h) + 1 # 0
        BY <1>1
      <4> QED
        BY Zenon, <2>1, <4>1, <4>2, <4>3
    <3> QED
      BY <3>2, <3>3 DEF AsRegistered
  <2>3. instance.succs + 1 >= r <=> Run(Append(h, TRUE), first, TRUE, r, Len(h) + 1)
    <3>1. Counted(Append(h, TRUE), first, TRUE, instance.succs + 1)
      BY <1>1, <1>2, CountedLonger
    <3>2. /\ Append(h, TRUE) \in Seq(BOOLEAN) /\ Len(Append(h, TRUE)) = Len(h) + 1
          /\ Len(Append(h, TRUE)) >= 1
      BY <1>1, AppendOne
    <3>3. instance.succs + 1 \in Int
      BY <1>1
    <3> HIDE DEF h, r
    <3> QED
      BY <1>1, <3>1, <3>2, <3>3, RunCounted
  <2>4. Unhealthy(Append(h, TRUE), first, f, r) <=>
            Unhealthy(h, first, f, r) /\ ~Run(Append(h, TRUE), first, TRUE, r, Len(h) + 1)
    BY Zenon, <1>1, UnhealthyAfterSuccess
  <2>5. instance'.status = "unhealth" <=>
            instance.status = "unhealth" /\ ~(instance.succs + 1 >= r)
    BY Zenon, <1>0, <1>4, SucceededEffect
  <2>6. StatusByHistory'
    BY Zenon, <1>2, <2>1, <2>3, <2>4, <2>5 DEF StatusByHistory
  <2>7. DeletedAtThreshold' /\ BelowThreshold'
    <3>1. FailAt(policy)' = f /\ DeleteAt(policy)' = d
      BY Zenon, <2>1 DEF FailAt, DeleteAt, AtLeast
    <3>2. ~(0 >= d) /\ 0 < f
      BY <1>1
    <3> QED
      BY Zenon, <2>1, <3>1, <3>2 DEF DeletedAtThreshold, BelowThreshold
  <2> QED
    BY <1>0, <2>2, <2>6, <2>7 DEF CounterInv
<1>5. CASE UNCHANGED vars
  BY <1>0, <1>5 DEF vars, CounterInv, Counting, BelowThreshold, DeletedAtThreshold, StatusByHistory,
     AsRegistered
<1> QED
  BY <1>3, <1>4, <1>5 DEF Next

-----------------------------------------------------------------------------
(* The theorems.                                                           *)

\* In every reachable state the counters, the status and the deletion are
\* what the history of probe results says (health.ApplyProbeResult).
THEOREM CountersFollowHistory == Spec => []CounterInv
  BY CounterInit, CounterStep, PTL DEF Spec

\* The record and the history keep their types.
THEOREM TypeCorrect == Spec => []TypeOK
<1>1. CounterInv => TypeOK
  BY DEF CounterInv
<1> QED
  BY <1>1, CountersFollowHistory, PTL

LEMMA SameRuns ==
    ASSUME NEW o \in BOOLEAN, NEW n, NEW j
    PROVE  RunOf(o, n, j) <=> Run(history, first, o, n, j)
  BY Zenon DEF RunOf, Run, All, Claimed, Claim

\* The status the counters produce is the one that the registration, whatever
\* it claims, and the history call for, for every policy and histories of any
\* length.
THEOREM StatusMatches == Spec => []StatusMatchesHistory
<1>1. CounterInv => StatusMatchesHistory
  <2>1. TRUE \in BOOLEAN /\ FALSE \in BOOLEAN
    OBVIOUS
  <2>2. ASSUME NEW n, NEW j
        PROVE  /\ RunOf(TRUE, n, j) <=> Run(history, first, TRUE, n, j)
               /\ RunOf(FALSE, n, j) <=> Run(history, first, FALSE, n, j)
    BY <2>1, SameRuns
  <2>3. UnhealthyByHistory <=> Unhealthy(history, first, FailAt(policy), RecoverAt(policy))
    <3>1. ASSUME NEW j
          PROVE  RecoveredSince(j) <=> Recovered(history, first, RecoverAt(policy), j)
      BY <2>2 DEF RecoveredSince, Recovered
    <3> QED
      BY Zenon, <2>2, <3>1 DEF UnhealthyByHistory, Unhealthy
  <2> QED
    BY Zenon, <2>3 DEF CounterInv, StatusByHistory, StatusMatchesHistory
<1> QED
  BY <1>1, CountersFollowHistory, PTL

LEMMA DeletedByRun ==
    ASSUME CounterInv
    PROVE  deleted <=> Run(history, first, FALSE, DeleteAt(policy), Len(history))
<1>1. /\ history \in Seq(BOOLEAN) /\ Len(history) \in Nat /\ FALSE \in BOOLEAN
      /\ first \in Record /\ instance.fails \in Int
      /\ DeleteAt(policy) \in Nat /\ DeleteAt(policy) >= 1
  BY Typed, Thresholds DEF CounterInv, TypeOK, Record
<1>2. CASE history = <<>>
  BY <1>2 DEF CounterInv, DeletedAtThreshold, Run
<1>3. CASE history # <<>>
  <2>1. Len(history) >= 1
    BY <1>1, <1>3
  <2>2. instance.fails >= DeleteAt(policy)
            <=> Run(history, first, FALSE, DeleteAt(policy), Len(history))
    BY Zenon, <1>1, <2>1, RunCounted DEF CounterInv, Counting
  <2> QED
    BY Zenon, <1>3, <2>2 DEF CounterInv, DeletedAtThreshold
<1> QED
  BY <1>2, <1>3

\* An instance is deleted exactly when as many probes in a row failed as the
\* clamped delete threshold asks for, those its registration claims included,
\* whatever the policy.
THEOREM DeletionMatches == Spec => []DeletedMatchesHistory
<1>1. CounterInv => DeletedMatchesHistory
  <2>1. FALSE \in BOOLEAN
    OBVIOUS
  <2> QED
    BY Zenon, <2>1, DeletedByRun, SameRuns DEF DeletedMatchesHistory
<1> QED
  BY <1>1, CountersFollowHistory, PTL

\* Once an instance was probed it is not deleted straight from health: the
\* delete threshold is clamped above the failure threshold, and the counter
\* moves one at a time.  The first probe does it only after a registration that
\* claims all the failures but one.
THEOREM NeverDeletedFromHealth == Spec => DeletedFromUnhealth
<1> DEFINE Asked == \/ instance.status = "unhealth"
                    \/ history = <<>> /\ first.fails >= DeleteAt(policy) - 1
<1>1. CounterInv /\ [Next]_vars => [deleted' => Asked]_vars
  <2> SUFFICES ASSUME CounterInv, Next, deleted'
               PROVE  Asked
    OBVIOUS
  <2>1. TypeOK /\ instance \in Record
    BY Typed DEF CounterInv
  <2>2. Probe(FALSE)
    BY <2>1, SucceededEffect DEF Next
  <2>3. instance.fails + 1 >= DeleteAt(policy) /\ DeleteAt(policy) >= FailAt(policy) + 1
    BY <2>1, <2>2, FailedEffect, Thresholds DEF TypeOK
  <2>4. instance.fails \in Int /\ FailAt(policy) \in Nat /\ DeleteAt(policy) \in Nat
    BY <2>1, Thresholds DEF TypeOK, Record
  <2>5. CASE history = <<>>
    BY <2>3, <2>4, <2>5 DEF CounterInv, AsRegistered
  <2>6. CASE history # <<>>
    <3>1. instance.status # "health"
      BY <2>3, <2>4, <2>6 DEF CounterInv, BelowThreshold
    <3> QED
      BY <2>1, <3>1 DEF Record
  <2> QED
    BY <2>5, <2>6
<1> QED
  BY <1>1, CountersFollowHistory, PTL DEF Spec, DeletedFromUnhealth

-----------------------------------------------------------------------------
(* The probes drive the state machine.                                     *)

\* What a probe made of a target that was up, or down.
Verdicts ==
    /\ Len(history) = Len(seen) /\ seen \in Seq(Targets \cup {Silent})
    /\ \A j \in 1..Len(seen) : (Up(seen[j]) => history[j]) /\ (Down(seen[j]) => ~history[j])
    /\ waiting => mode = "grpc_probe"
    /\ mode \in ProbeModes

LEMMA ProbeIsStep == [ProbeNext]_probeVars => [Next]_vars
<1>1. ASSUME NEW t \in Targets, ProbeTarget(t) PROVE Next
  <2>1. Success(t) \in BOOLEAN
    BY DEF Success, ProbeHTTP, ProbeGRPC, ProbeTCP
  <2> QED
    BY <1>1, <2>1 DEF ProbeTarget, Next
<1>2. ASSUME NEW t \in Targets, ProbeWaits(t) PROVE UNCHANGED vars
  BY <1>2 DEF ProbeWaits
<1>3. ProbeCancelled => Next
  BY DEF ProbeCancelled, Next
<1> QED
  BY <1>1, <1>2, <1>3 DEF ProbeNext, probeVars

\* A probe succeeds with a target that is up, and fails with one that is down.
LEMMA VerdictOf ==
    ASSUME NEW t \in Targets, Answers(t), ~Waits(t),
           mode \in ProbeModes
    PROVE  (Up(t) => Success(t)) /\ (Down(t) => ~Success(t))
<1> USE DEF Up, Down, Success, ProbeHTTP, ProbeGRPC, ProbeTCP, Answers
<1>1. CASE t \in {Refused, Silent}
  BY <1>1 DEF Refused, Silent, Check
<1>2. ASSUME NEW code \in 200..999, t = Status(code)
      PROVE  (Up(t) => Success(t)) /\ (Down(t) => ~Success(t))
  <2>1. t.does = "http" /\ t.code = code /\ mode = "http_probe"
    BY <1>2 DEF Status
  <2>2. t # Refused /\ t # Check("error") /\ t # Check("SERVING")
    BY <2>1 DEF Refused, Check
  <2>3. code < 300 <=> code \in 200..299
    OBVIOUS
  <2> QED
    BY <2>1, <2>2, <2>3
<1>3. ASSUME NEW answer, t = Check(answer)
      PROVE  (Up(t) => Success(t)) /\ (Down(t) => ~Success(t))
  <2>1. t.does = "grpc" /\ t.answer = answer /\ mode = "grpc_probe"
    BY <1>3 DEF Check
  <2>2. t # Refused /\ (t = Check("error") => answer = "error") /\ (t = Check("SERVING") => answer = "SERVING")
    BY <1>3, <2>1 DEF Refused, Check
  <2> QED
    BY <2>1, <2>2
<1> QED
  BY <1>1, <1>2, <1>3, TargetAssumption

LEMMA VerdictInit == ProbeInit => Verdicts
<1> SUFFICES ASSUME ProbeInit PROVE Verdicts
  OBVIOUS
<1>1. seen \in Seq(Targets \cup {Silent}) /\ Len(seen) = 0 /\ Len(history) = 0
  BY DEF ProbeInit, Init
<1> QED
  BY <1>1 DEF ProbeInit, Verdicts

LEMMA VerdictStep ==
    ASSUME TypeOK, Verdicts, [ProbeNext]_probeVars
    PROVE  Verdicts'
<1>1. ASSUME NEW t \in Targets \cup {Silent}, NEW o \in BOOLEAN, mode' = mode,
             Up(t) => o, Down(t) => ~o,
             history' = Append(history, o), seen' = Append(seen, t),
             waiting' => mode = "grpc_probe"
      PROVE  Verdicts'
  <2>1. /\ seen \in Seq(Targets \cup {Silent}) /\ history \in Seq(BOOLEAN)
        /\ Len(seen) = Len(history) /\ Len(seen) \in Nat
    BY DEF Verdicts, TypeOK
  <2>2. /\ seen' \in Seq(Targets \cup {Silent}) /\ Len(seen') = Len(seen) + 1
        /\ Len(history') = Len(history) + 1
        /\ seen'[Len(seen) + 1] = t /\ history'[Len(seen) + 1] = o
        /\ \A j \in 1..Len(seen) : seen'[j] = seen[j] /\ history'[j] = history[j]
    BY <1>1, <2>1, AppendProperties
  <2>3. ASSUME NEW j
        PROVE  (Up(seen[j])' <=> Up(seen'[j])) /\ (Down(seen[j])' <=> Down(seen'[j]))
    <3>1. Up(seen[j])' <=> Up(seen'[j])
      BY Zenon, <1>1 DEF Up, Check, Refused
    <3>2. Down(seen[j])' <=> Down(seen'[j])
      BY Zenon, <1>1 DEF Down, Up, Check, Refused
    <3> QED
      BY <3>1, <3>2
  <2>4. ASSUME NEW j \in 1..Len(seen')
        PROVE  (Up(seen'[j]) => history'[j]) /\ (Down(seen'[j]) => ~history'[j])
    <3>1. CASE j = Len(seen) + 1
      BY <1>1, <2>2, <3>1
    <3>2. CASE j \in 1..Len(seen)
      BY <2>2, <3>2 DEF Verdicts
    <3> QED
      BY <2>1, <2>2, <3>1, <3>2
  <2>5. \A j \in 1..Len(seen') :
            (Up(seen[j])' => history'[j]) /\ (Down(seen[j])' => ~history'[j])
    BY <2>3, <2>4
  <2>6. Len(history') = Len(seen')
    BY <2>1, <2>2
  <2>7. /\ waiting' => mode' = "grpc_probe"
        /\ mode' \in ProbeModes
    BY <1>1 DEF Verdicts
  <2> QED
    BY <2>2, <2>5, <2>6, <2>7 DEF Verdicts
<1>2. ASSUME NEW t \in Targets, ProbeTarget(t) PROVE Verdicts'
  <2>1. /\ Answers(t) /\ ~Waits(t) /\ seen' = Append(seen, t) /\ mode' = mode /\ waiting' = waiting
        /\ history' = Append(history, Success(t))
    BY <1>2 DEF ProbeTarget, Probe
  <2>2. Success(t) \in BOOLEAN
    BY DEF Success, ProbeHTTP, ProbeGRPC, ProbeTCP
  <2>3. (Up(t) => Success(t)) /\ (Down(t) => ~Success(t))
    BY <2>1, VerdictOf DEF Verdicts
  <2> QED
    BY <1>1, <2>1, <2>2, <2>3 DEF Verdicts
<1>3. ASSUME NEW t \in Targets, ProbeWaits(t) PROVE Verdicts'
  BY <1>3 DEF ProbeWaits, Waits, Verdicts, vars, Up, Down, Refused, Check
<1>4. CASE ProbeCancelled
  <2>1. /\ seen' = Append(seen, Silent) /\ history' = Append(history, FALSE)
        /\ mode = "grpc_probe" /\ mode' = mode /\ waiting' = FALSE
    BY <1>4 DEF ProbeCancelled, Probe, Verdicts
  <2>2. ~Up(Silent)
    BY <2>1 DEF Up, Silent, Check
  <2> QED
    BY <1>1, <2>1, <2>2
<1>5. CASE UNCHANGED probeVars
  BY <1>5 DEF probeVars, vars, Verdicts, Up, Down, Refused, Check
<1> QED
  BY <1>2, <1>3, <1>4, <1>5 DEF ProbeNext

LEMMA ProbeInvariant == ProbeSpec => [](CounterInv /\ Verdicts)
<1>1. ProbeInit => CounterInv /\ Verdicts
  BY CounterInit, VerdictInit DEF ProbeInit
<1>2. CounterInv /\ Verdicts /\ [ProbeNext]_probeVars => (CounterInv /\ Verdicts)'
  BY CounterStep, VerdictStep, ProbeIsStep DEF CounterInv
<1> QED
  BY <1>1, <1>2, PTL DEF ProbeSpec

\* Whatever the mode and the targets, the probe service hands the registry a
\* behaviour of the state machine, so the theorems above hold of its probes.
THEOREM ProbesDriveHealth == ProbeSpec => Spec
<1>1. ProbeInit => Init
  BY DEF ProbeInit
<1> QED
  BY <1>1, ProbeIsStep, PTL DEF ProbeSpec, Spec

LEMMA RecoveredByRun ==
    ASSUME CounterInv, Run(history, first, TRUE, RecoverAt(policy), Len(history))
    PROVE  instance.status = "health"
<1> DEFINE h == history
           n == Len(history)
           r == RecoverAt(policy)
           f == FailAt(policy)
<1>1. /\ n \in Nat /\ r \in Nat /\ r >= 1 /\ f \in Nat /\ f >= 1
      /\ instance.status \in {"health", "unhealth"}
  BY Typed, Thresholds DEF CounterInv, TypeOK, Record
<1>2. n >= 1 /\ h[n] = TRUE
  BY <1>1, RunEnds
<1>3. ASSUME NEW j \in 0..n, j < n PROVE Recovered(h, first, r, j)
  <2>1. n \in (j + 1)..n
    BY <1>1, <1>3
  <2> QED
    BY <2>1 DEF Recovered
<1>4. ~Run(h, first, FALSE, f, n)
  BY <1>1, <1>2, RunEnds
<1>5. \A j \in 1..n : j = n \/ (j \in 0..n /\ j < n)
  BY <1>1
<1>6. 0 \in 0..n /\ 0 < n
  BY <1>1, <1>2
<1> HIDE DEF h, n, r, f
<1>7. ~Unhealthy(h, first, f, r)
  <2> SUFFICES ASSUME Unhealthy(h, first, f, r) PROVE FALSE
    OBVIOUS
  <2>1. ~(first.status = "unhealth" /\ ~Recovered(h, first, r, 0))
    BY Zenon, <1>3, <1>6
  <2>2. \A j \in 1..n : ~(Run(h, first, FALSE, f, j) /\ ~Recovered(h, first, r, j))
    BY Zenon, <1>3, <1>4, <1>5
  <2> QED
    BY Zenon, <2>1, <2>2 DEF Unhealthy, n, h
<1>8. instance.status # "unhealth"
  BY Zenon, <1>7 DEF CounterInv, StatusByHistory, h, r, f
<1> QED
  BY <1>1, <1>8

\* The verdict on an instance follows what its target does, in every probe mode and
\* for every policy: probe and state machine together.
THEOREM VerdictFollowsTarget == ProbeSpec => []FollowsTarget
<1>1. ASSUME CounterInv, Verdicts PROVE FollowsTarget
  <2> DEFINE n == Len(seen)
             r == RecoverAt(policy)
             d == DeleteAt(policy)
  <2>1. /\ history \in Seq(BOOLEAN) /\ n \in Nat /\ n = Len(history)
        /\ first \in Record /\ first.succs \in Int /\ first.fails \in Int
        /\ r \in Nat /\ r >= 1 /\ d \in Nat /\ d >= 1
        /\ seen \in Seq(Targets \cup {Silent}) /\ policy \in Policies
    BY <1>1, Typed, Thresholds DEF CounterInv, TypeOK, Verdicts, Record
  <2>2. \A j \in 1..n : (Up(seen[j]) => history[j]) /\ (Down(seen[j]) => ~history[j])
    BY <1>1 DEF Verdicts
  <2>3. deleted <=> Run(history, first, FALSE, d, n)
    BY <1>1, <2>1, DeletedByRun
  <2>4. \A j \in 1..n : history[j] \in BOOLEAN
    BY <2>1
  <2>5. seen # <<>> /\ Up(seen[n]) => ~deleted
    <3> SUFFICES ASSUME seen # <<>>, Up(seen[n]) PROVE ~Run(history, first, FALSE, d, n)
      BY Zenon, <2>3
    <3>1. n \in 1..n
      BY <2>1
    <3>2. history[n] = TRUE
      BY <2>2, <2>4, <3>1
    <3> QED
      BY <2>1, <3>2, RunEnds
  <2>6. LastProbes(r + Owed(first.succs), Up) => instance.status = "health"
    <3> DEFINE w == r + Owed(first.succs)
    <3> SUFFICES ASSUME w <= n, \A j \in (n - w + 1)..n : Up(seen[j])
                 PROVE  instance.status = "health"
      BY DEF LastProbes
    <3>0. w = r + Owed(Claim(first, TRUE))
      BY DEF Claim
    <3>4. w \in Nat
      BY <2>1 DEF Owed
    <3> HIDE DEF w
    <3>1. \A j \in (n - w + 1)..n : j \in 1..n
      BY <2>1, <3>4
    <3>2. \A j \in (n - w + 1)..n : history[j] = TRUE
      BY <2>2, <2>4, <3>1
    <3>3. Run(history, first, TRUE, r, n)
      BY <2>1, <3>0, <3>2, <3>4, RunOwed
    <3> QED
      BY <1>1, <2>1, <3>3, RecoveredByRun
  <2>7. LastProbes(d + Owed(first.fails), Down) => deleted
    <3> DEFINE w == d + Owed(first.fails)
    <3> SUFFICES ASSUME w <= n, \A j \in (n - w + 1)..n : Down(seen[j])
                 PROVE  Run(history, first, FALSE, d, n)
      BY Zenon, <2>3 DEF LastProbes
    <3>0. w = d + Owed(Claim(first, FALSE))
      BY DEF Claim
    <3>4. w \in Nat
      BY <2>1 DEF Owed
    <3> HIDE DEF w
    <3>1. \A j \in (n - w + 1)..n : j \in 1..n
      BY <2>1, <3>4
    <3>2. \A j \in (n - w + 1)..n : history[j] = FALSE
      BY <2>2, <2>4, <3>1
    <3> QED
      BY <2>1, <3>0, <3>2, <3>4, RunOwed
  <2> QED
    BY <2>5, <2>6, <2>7 DEF FollowsTarget
<1> QED
  BY <1>1, ProbeInvariant, PTL
=============================================================================
