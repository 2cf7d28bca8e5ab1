------------------------------- MODULE Health -------------------------------
(***************************************************************************)
(* The health state machine of internal/core/service/health/manager.go as  *)
(* pure operators over an instance: a record with at least the fields      *)
(* status, fails (ConsecutiveFailures), succs (ConsecutiveSuccesses) and   *)
(* probed.  Of the timestamps it also sets none decides anything; probed   *)
(* is what the properties need of LastProbeAt: a result has been counted.  *)
(* Bound: the counters are integers of any size, where Go wraps at 2^63.   *)
(***************************************************************************)
EXTENDS Integers

\* A policy names the three thresholds; the code accepts any integers.
Policy(f, s, d) == [failure |-> f, success |-> s, delete |-> d]
DefaultPolicy   == Policy(3, 2, 5)

AtLeast(n, low) == IF n > low THEN n ELSE low

\* The thresholds in force: the code clamps what a policy asks for.
FailAt(P)    == AtLeast(P.failure, 1)
RecoverAt(P) == AtLeast(P.success, 1)

DeleteAt(P)  == AtLeast(P.delete, FailAt(P) + 1)

\* Mutants: failures kept instead of reset; one too many.
ProbeSucceededKeep(i, P) ==
    [i EXCEPT !.probed = TRUE,
              !.succs  = i.succs + 1,
              !.status = IF i.status = "unhealth" /\ i.succs + 1 >= RecoverAt(P)
                         THEN "health" ELSE i.status]
ProbeFailedLate(i, P) ==
    [i EXCEPT !.probed = TRUE,
              !.fails  = i.fails + 1,
              !.succs  = 0,
              !.status = IF i.status = "health" /\ i.fails + 1 > FailAt(P)
                         THEN "unhealth" ELSE i.status]

ProbeSucceeded(i, P) ==
    [i EXCEPT !.probed = TRUE,
              !.succs  = i.succs + 1,
              !.fails  = 0,
              !.status = IF i.status = "unhealth" /\ i.succs + 1 >= RecoverAt(P)
                         THEN "health" ELSE i.status]

ProbeFailed(i, P) ==
    [i EXCEPT !.probed = TRUE,
              !.fails  = i.fails + 1,
              !.succs  = 0,
              !.status = IF i.status = "health" /\ i.fails + 1 >= FailAt(P)
                         THEN "unhealth" ELSE i.status]

ApplyProbeResult(i, success, P) ==
    IF success THEN ProbeSucceeded(i, P) ELSE ProbeFailed(i, P)

\* Mutant: the result at hand is not counted.
ShouldDeleteLate(i, success, P) == ~success /\ i.fails >= DeleteAt(P)

\* The second result of the code's ApplyProbeResult.
ShouldDelete(i, success, P) == ~success /\ i.fails + 1 >= DeleteAt(P)

=============================================================================
