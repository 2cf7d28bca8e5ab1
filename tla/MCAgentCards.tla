---------------------------- MODULE MCAgentCards ----------------------------
(***************************************************************************)
(* Instances of AgentCards for TLC: an agent with two instances, one of    *)
(* them unhealthy, and another agent that runs the same service.           *)
(***************************************************************************)
EXTENDS AgentCards, TLC

MCKeys == {"card"} \cup Capabilities

ValidCards == {c \in Card : c.auth = "none"}

Like(s) == [service |-> s, caps |-> Capabilities, protocols |-> Protocols, auth |-> "none"]

\* One capability is no name, or there is no such auth mode.
InvalidCards ==
    UNION {{[Like(s) EXCEPT !.caps = Capabilities \cup {"/"}], [Like(s) EXCEPT !.auth = "basic"]} :
           s \in Services}

MCOffered == ValidCards \cup InvalidCards

Query(c, protocol, unhealthy, admin) ==
    [cap |-> c, protocol |-> protocol, unhealthy |-> unhealthy, admin |-> admin]

\* A business caller's, an administrator's, and one for what no card speaks.
MCQueries ==
    UNION {{Query(c, AnyProtocol, FALSE, FALSE), Query(c, AnyProtocol, TRUE, TRUE),
            Query(c, "amqp", FALSE, TRUE)} : c \in Capabilities}
    \cup {Query("/", AnyProtocol, FALSE, TRUE)}

BusinessQueries == {Query(c, AnyProtocol, FALSE, FALSE) : c \in Capabilities}

MCRunning ==
    UNION {{[service |-> s, own |-> TRUE, healthy |-> TRUE],
            [service |-> s, own |-> TRUE, healthy |-> FALSE],
            [service |-> s, own |-> FALSE, healthy |-> TRUE]} : s \in Services}

Symmetry == Permutations(Procs) \cup Permutations(Capabilities)
=============================================================================
