---------------------------- MODULE ProbeHealth ----------------------------
(***************************************************************************)
(* The probes behind the results of HealthHistory (internal/core/service/  *)
(* probe): what a target does when it is probed, and what the probe of     *)
(* each probe mode makes of it.  Nothing in the repository schedules       *)
(* probes, so they come at any time; the next one follows when the last    *)
(* one ended.  A heartbeat instance is not in reach: ApplyProbeResult      *)
(* turns its results down and changes nothing (RightMode in Registry).     *)
(***************************************************************************)
EXTENDS HealthHistory

CONSTANT Targets    \* what a target may do when it is probed

VARIABLES
    mode,       \* the instance's healthCheckMode, one of ProbeModes
    seen,       \* what the target did in each probe that ended
    waiting     \* a probe does not end

probeVars == <<vars, mode, seen, waiting>>

ProbeModes == {"http_probe", "grpc_probe", "tcp_probe"}

(* A target refuses the connection, or takes it and says nothing, or       *)
(* answers: an HTTP status, or what the gRPC health service says.          *)
Refused       == [does |-> "refuse"]
Silent        == [does |-> "wait"]
Status(code)  == [does |-> "http", code |-> code]
Check(answer) == [does |-> "grpc", answer |-> answer]

\* A final status is never one of the informational ones.
ASSUME TargetAssumption ==
    \A t \in Targets :
        \/ t \in {Refused, Silent}
        \/ \E code \in 200..999 : t = Status(code)
        \/ t = Check(t.answer)

\* It answers in the protocol of the probe, if it answers.
Answers(t) ==
    CASE t.does = "http" -> mode = "http_probe"
      [] t.does = "grpc" -> mode = "grpc_probe"
      [] OTHER           -> TRUE

\* Mutant: an answer is an answer, whatever its status.
ProbeHTTPAnswered(t) == t.does = "http"

\* A client that waits two seconds, follows redirects and looks at the
\* status alone.
ProbeHTTP(t) == t.does = "http" /\ t.code \in 200..299

\* Check has to return without an error; what the service says of itself is
\* not looked at.
ProbeGRPC(t) == t.does = "grpc" /\ t.answer # "error"

ProbeTCP(t) == t.does # "refuse"

\* The call waits as long as the context it came with, which carries no
\* deadline of its own.
Waits(t) == mode = "grpc_probe" /\ t.does = "wait"

Success(t) ==
    \/ mode = "http_probe" /\ ProbeHTTP(t)
    \/ mode = "grpc_probe" /\ ProbeGRPC(t)
    \/ mode = "tcp_probe" /\ ProbeTCP(t)

ProbeInit ==
    /\ Init
    /\ mode \in ProbeModes
    /\ seen = <<>>
    /\ waiting = FALSE

ProbeTarget(t) ==
    /\ ~waiting /\ Answers(t) /\ ~Waits(t)
    /\ Probe(Success(t))
    /\ seen' = Append(seen, t)
    /\ UNCHANGED <<mode, waiting>>

ProbeWaits(t) ==
    /\ ~waiting /\ Waits(t)
    /\ waiting' = TRUE
    /\ UNCHANGED <<vars, mode, seen>>

\* The context it came with ends the call.
ProbeCancelled ==
    /\ waiting
    /\ waiting' = FALSE
    /\ Probe(FALSE)
    /\ seen' = Append(seen, Silent)
    /\ UNCHANGED mode

ProbeNext == (\E t \in Targets : ProbeTarget(t) \/ ProbeWaits(t)) \/ ProbeCancelled

ProbeSpec == ProbeInit /\ [][ProbeNext]_probeVars

-----------------------------------------------------------------------------

\* What a target does while it is up, and while it is not.
Up(t) ==
    \/ mode = "http_probe" /\ t.does = "http" /\ t.code < 300
    \/ mode = "grpc_probe" /\ t = Check("SERVING")
    \/ mode = "tcp_probe" /\ t # Refused

Down(t) == t \in {Refused, Check("error")} \/ (mode = "http_probe" /\ ~Up(t))

LastProbes(n, Like(_)) == n <= Len(seen) /\ \A j \in (Len(seen) - n + 1)..Len(seen) : Like(seen[j])

\* A registration that claims less than nothing has to be made up for.
Owed(claimed) == IF claimed < 0 THEN -claimed ELSE 0

\* The verdict follows the target, whatever the probe mode: one that is up is
\* never deleted and is called healthy as soon as the policy's run of probes
\* found it up, and one that is down, be it in turns gone, silent or answering
\* with errors, is deleted when the delete threshold's worth of probes found it
\* so, at the latest.
FollowsTarget ==
    /\ seen # <<>> /\ Up(seen[Len(seen)]) => ~deleted
    /\ LastProbes(RecoverAt(policy) + Owed(first.succs), Up) => instance.status = "health"
    /\ LastProbes(DeleteAt(policy) + Owed(first.fails), Down) => deleted

=============================================================================
