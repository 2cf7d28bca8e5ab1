------------------------------ MODULE MCAdmin ------------------------------
(***************************************************************************)
(* Instances of Admin for TLC.  Two namespaces whose names begin alike,    *)
(* config items at every scope, requests that the handlers, the checks and *)
(* the store refuse, and settings with and without a token.                *)
(***************************************************************************)
EXTENDS Admin, TLC

MCNamespaces == {<<"prod">>, <<"prod", "-eu">>}
MCServices   == {<<"pay">>}
MCNames      == {<<"timeout">>}

At(scope, n, s, name) == [scope |-> scope, namespace |-> n, service |-> s, name |-> name]

OfNamespace(n) == At("", n, <<>>, <<>>)

MCTexts == {"", "t", "prod", "-eu", "/", "pay", "timeout", "namespace", "global", "other",
            "read_only", "no_read_no_write", "open", "int", "1", "x"}

MCItems == {At("global", <<>>, <<>>, <<"timeout">>),
            At("namespace", <<"prod">>, <<>>, <<"timeout">>),
            At("namespace", <<"prod", "-eu">>, <<>>, <<"timeout">>)}

Sent(surface, action, token, target, mode, item) ==
    [surface |-> surface, action |-> action, form |-> "good", token |-> token, target |-> target,
     mode |-> mode, item |-> item, expected |-> 0]

One     == [valueType |-> "int", value |-> "1"]
NotInt  == [valueType |-> "int", value |-> "x"]
NoItem  == [valueType |-> "", value |-> ""]

MCParses == {<<"int", "1">>}

NamespaceRequests ==
    {Sent("admin", "create", "t", OfNamespace(n), "", NoItem) : n \in MCNamespaces \cup {<<"/">>}}
    \cup {Sent("admin", "update_access_mode", "t", OfNamespace(<<"prod">>), m, NoItem) :
          m \in {"read_only", "no_read_no_write", "open"}}

ConfigRequests ==
    {Sent("admin", "put_config", "t", t, "", One) : t \in MCItems}
    \cup {Sent("grpc", "put_config", "", At("namespace", <<"prod">>, <<>>, <<"timeout">>), "", i) :
          i \in {One, NotInt}}
    \cup {Sent("admin", "delete_config", "t", At(sc, <<"prod">>, <<>>, <<"timeout">>), "", NoItem) :
          sc \in {"namespace", "other"}}

ListRequests ==
    {Sent("admin", "list_config", "t", At("namespace", <<"prod">>, <<>>, <<>>), "", NoItem),
     Sent("console", "list_config", "t", At("", <<>>, <<"pay">>, <<>>), "", NoItem),
     Sent("admin", "list_audit", "", NoTarget, "", NoItem),
     Sent("console", "list_audit", "t", NoTarget, "", NoItem),
     Sent("admin", "list_namespaces", "t", NoTarget, "", NoItem)}

ProbeRequests ==
    {Sent("public", "ready", "", NoTarget, "", NoItem),
     Sent("public", "healthz", "", NoTarget, "", NoItem),
     Sent("admin", "system", "t", NoTarget, "", NoItem)}

MCRequests ==
    NamespaceRequests \cup ConfigRequests \cup ListRequests \cup ProbeRequests
    \cup {[Sent("admin", "create", "t", OfNamespace(<<"prod">>), "", NoItem) EXCEPT !.form = f] :
          f \in {"malformed", "method"}}
    \cup {[Sent("grpc", "put_config", "", At("global", <<>>, <<>>, <<"timeout">>), "", One)
           EXCEPT !.form = "malformed"]}

\* Two administrators who change namespaces and nothing else.
MCFewRequests == {r \in NamespaceRequests : r.target.namespace = <<"prod">> /\ r.mode \in {"", "read_only"}}

MCKeys == {NamespaceKey(n) : n \in MCNamespaces} \cup {AuditKey(<<i>>) : i \in 1..MaxId}
          \cup {KeyOf(t) : t \in MCItems}
          \cup {ConfigKey("service", <<"prod">>, <<>>, <<"timeout">>)}

File(state, sets) == [state |-> state, sets |-> sets]
NoFile == File("missing", [f \in {} |-> ""])

MCFiles == {NoFile, File("malformed", NoFile.sets),
            File("read", [adminToken |-> ""]), File("read", [adminToken |-> "t"])}
MCEnvs  == {[httpPort |-> 8081], [httpPort |-> NotANumber], [httpPort |-> 9090], [endpoints |-> <<>>]}

OneFile == {File("read", [adminToken |-> "t"])}
OneEnv  == {[httpPort |-> 8081]}

\* All goroutines on one server, or one on each of two.
OneServer  == [p \in Procs |-> CHOOSE s \in Servers : TRUE]
TwoServers == CHOOSE f \in [Procs -> Servers] : \A s \in Servers : \E p \in Procs : f[p] = s

Symmetry == Permutations(Procs)
=============================================================================
