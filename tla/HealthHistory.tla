--------------------------- MODULE HealthHistory ---------------------------
(***************************************************************************)
(* The health state machine of Health driven by the probe results of one   *)
(* instance in a probe mode, one at a time, with the whole history of      *)
(* results beside it: what the counters in the record decide step by step  *)
(* is compared with what the history says, and with what its registration  *)
(* claimed before there was any.                                           *)
(***************************************************************************)
EXTENDS Health, Sequences

CONSTANTS
    Policies,   \* the health policies in use
    Counters,   \* consecutive results that a registration may claim
    MaxProbes   \* bound: probe results applied to the instance

ASSUME PolicyAssumption ==
    \A P \in Policies : P.failure \in Int /\ P.success \in Int /\ P.delete \in Int

ASSUME CountersAssumption == Counters \subseteq [fails : Int, succs : Int]

VARIABLES
    instance,   \* the stored instance
    policy,     \* the policy its probe results come with
    first,      \* the instance as it was registered
    history,    \* outcomes of the probes, oldest first
    deleted     \* the last result deleted it

vars == <<instance, policy, first, history, deleted>>

\* Register keeps the status and the counters that the client posts.
Registered(s, claim) ==
    [status |-> s, fails |-> claim.fails, succs |-> claim.succs, probed |-> FALSE]

Init ==
    /\ \E s \in {"health", "unhealth"}, c \in Counters : first = Registered(s, c)
    /\ instance = first
    /\ policy \in Policies
    /\ history = <<>>
    /\ deleted = FALSE

Probe(success) ==
    /\ ~deleted
    /\ Len(history) < MaxProbes
    /\ instance' = ApplyProbeResult(instance, success, policy)
    /\ deleted' = ShouldDelete(instance, success, policy)
    /\ history' = Append(history, success)
    /\ UNCHANGED <<policy, first>>

\* A probe result may carry a policy of its own (PolicyOverride).
Override(P) ==
    /\ ~deleted
    /\ policy' = P
    /\ UNCHANGED <<instance, first, history, deleted>>

Next == \E success \in BOOLEAN : Probe(success)

NextOverride == Next \/ \E P \in Policies : Override(P)

Spec == Init /\ [][Next]_vars

SpecOverride == Init /\ [][NextOverride]_vars

-----------------------------------------------------------------------------
(* The reference: the same facts read off the history.                     *)

Claimed(outcome) == IF outcome THEN first.succs ELSE first.fails

\* The probes up to the j-th end with n of this outcome in a row.  As long as
\* there was no other outcome, those the registration claims count too.
RunOf(outcome, n, j) ==
    /\ j >= 1
    /\ IF \A m \in 1..j : history[m] = outcome
       THEN Claimed(outcome) + j >= n
       ELSE n <= j /\ \A m \in (j - n + 1)..j : history[m] = outcome

RecoveredSince(j) ==
    \E m \in (j + 1)..Len(history) : RunOf(TRUE, RecoverAt(policy), m)

\* The instance is unhealthy when a run of failures long enough (or its
\* registration) made it so and no run of successes long enough followed.
UnhealthyByHistory ==
    \/ \E j \in 1..Len(history) :
          RunOf(FALSE, FailAt(policy), j) /\ ~RecoveredSince(j)
    \/ first.status = "unhealth" /\ ~RecoveredSince(0)

\* The types of the record and of the history.
TypeOK ==
    /\ {first, instance} \subseteq [status : {"health", "unhealth"}, fails : Int,
                                    succs : Int, probed : BOOLEAN]
    /\ policy \in Policies
    /\ history \in Seq(BOOLEAN)
    /\ deleted \in BOOLEAN

\* The status the counters produce is the one that the registration and the
\* history of results call for, for every policy: clamped thresholds, resets
\* and flips included.
StatusMatchesHistory == (instance.status = "unhealth") <=> UnhealthyByHistory

\* An instance is deleted exactly when the delete threshold's worth of probes
\* in a row failed, never earlier and never later; the failures its client
\* claimed on registration count until a probe succeeds.
DeletedMatchesHistory ==
    deleted <=> RunOf(FALSE, DeleteAt(policy), Len(history))

\* "health -> unhealth -> delete": no probe deletes an instance straight from
\* health, whatever thresholds the policy asks for (the code clamps the delete
\* threshold above the failure threshold), but the first one after a
\* registration that claims all the failures a deletion takes except one.
DeletedFromUnhealth ==
    [][deleted' => \/ instance.status = "unhealth"
                   \/ history = <<>> /\ first.fails >= DeleteAt(policy) - 1]_vars

=============================================================================
