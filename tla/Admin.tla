------------------------------- MODULE Admin -------------------------------
(***************************************************************************)
(* The administrators' requests (internal/api/http/admin, http/console and *)
(* the config writes that gRPC takes from anyone): the token, the change   *)
(* itself (service/namespace, service/config), the audit entry (service/   *)
(* audit), whose outcome the handlers do not look at, and the answer.      *)
(* Audit ids come from a counter in the server's memory, so servers that   *)
(* share an etcd cluster, or one that restarted, hand out the same ids.    *)
(* The probes that tell whether the server is up and ready are here too.   *)
(*                                                                         *)
(* etcd may fail a call before it is carried out, or after.                *)
(***************************************************************************)
EXTENDS EtcdStore, Model, Keyspace, Errors, Settings

CONSTANTS
    Procs,          \* request goroutines
    Servers,
    ServerOf,       \* [Procs -> Servers]
    Requests,       \* what clients send, with expectedRevision left open
    Files, Envs,    \* YAML files and environments a server may start with
    Texts,          \* the strings, and pieces of names, in what clients send
    ConfigNames,    \* what matches configKeyPattern
    Parses,         \* pairs of a value type and a value of that type
    NoRequest, NoNamespace,
    MaxId,          \* bound: audit ids
    MaxRestarts,    \* bound: restarts of a server
    MaxFaults,      \* bound: calls that etcd fails
    MaxRev          \* bound: requests are received below this revision

\* What a request is about: a namespace, or a config item at its scope.
Target == [scope : Texts, namespace : Seq(Texts), service : Seq(Texts), name : Seq(Texts)]

Actions == {"create", "update_access_mode", "put_config", "delete_config", "list_config",
            "list_namespaces", "list_audit", "healthz", "ready", "system"}

Request == [surface : {"admin", "console", "grpc", "public"}, action : Actions,
            form : {"good", "malformed", "method"}, token : Texts, target : Target,
            mode : Texts, item : [valueType : Texts, value : Texts], expected : Nat]

AuditKeys     == {AuditKey(<<n>>) : n \in 1..MaxId}
NamespaceKeys == {NamespaceKey(n) : n \in NamespaceNames}
ConfigItemKeys == Keys \ (AuditKeys \cup NamespaceKeys)

ASSUME AdminAssumption ==
    /\ AuditKeys \cup NamespaceKeys \subseteq Keys
    /\ "" \in Texts /\ Requests \subseteq Request
    /\ NamespaceNames \subseteq Seq(Texts)
    /\ \A name \in ConfigNames : \A j \in DOMAIN name : name[j] # "/"
    /\ \A r \in Requests : r.action = "list_config" => r.surface \in {"admin", "console"}
    /\ ServerOf \in [Procs -> Servers]
    /\ MaxId \in Nat /\ MaxRestarts \in Nat /\ MaxFaults \in Nat /\ MaxRev \in Nat

VARIABLES
    settings,   \* [Servers -> settings], NoSettings while it is down
    counter,    \* [Servers -> Nat]: last audit id handed out
    restarts, faults,
    pc,         \* next step of each goroutine
    req,        \* the request it serves
    current,    \* the namespace it has in hand
    done,       \* revision of the change it made
    id,         \* the audit id it took
    err         \* the error it answers with, "" for none

servers == <<settings, counter, restarts>>
locals  == <<req, current, done, id>>
vars == <<storeVars, servers, faults, pc, locals, err>>

AccessModes == {"read_write", "read_only", "write_only", "no_read_no_write"}
AllowsWrite(mode) == mode \in {"read_write", "write_only"}

Scopes     == {"global", "namespace", "service"}
ValueTypes == {"string", "int", "bool", "duration", "json"}

KeyOf(t) == ConfigKey(t.scope, t.namespace, t.service, t.name)

ValidItem(t, item) ==
    /\ t.name \in ConfigNames
    /\ t.scope \in Scopes
    /\ t.scope # "global" => ValidNamespaceName(t.namespace)
    /\ t.scope = "service" => ValidServiceName(t.service)
    /\ item.valueType \in ValueTypes
    /\ item.valueType = "string" \/ <<item.valueType, item.value>> \in Parses

\* created is CreatedAt: it tells one creation of a namespace from another.
Namespace == [mode : AccessModes, created : Nat]

NamespaceActions == {"create", "update_access_mode"}
ConfigActions    == {"put_config", "delete_config"}
WriteActions     == NamespaceActions \cup ConfigActions

\* The servers are up, with settings that serve.
ServersInit ==
    /\ settings \in [Servers -> {Load(file, env) : file \in Files, env \in Envs}]
    /\ \A s \in Servers : Serves(settings[s])
    /\ counter = [s \in Servers |-> 0]

Init ==
    /\ StoreInit /\ ServersInit
    /\ restarts = 0 /\ faults = 0
    /\ pc = [p \in Procs |-> "idle"]
    /\ req = [p \in Procs |-> NoRequest]
    /\ current = [p \in Procs |-> NoNamespace]
    /\ done = [p \in Procs |-> 0]
    /\ id = [p \in Procs |-> 0]
    /\ err = [p \in Procs |-> ""]

Goto(p, call) == pc' = [pc EXCEPT ![p] = call] /\ UNCHANGED err
Fail(p, e)    == pc' = [pc EXCEPT ![p] = "answer"] /\ err' = [err EXCEPT ![p] = e]

\* The check's error if it has one, else the next call.
Checked(p, e, call) == IF e # "" THEN Fail(p, e) ELSE Goto(p, call)

-----------------------------------------------------------------------------
(* The middleware and the handlers up to the first call.                   *)

\* Mutant: an empty token is compared like any other.
AuthorizedEmpty(s, token) == token = settings[s].adminToken

Authorized(s, token) == settings[s].adminToken # "" /\ token = settings[s].adminToken

\* What the config service checks after the namespace's access mode.
WriteError(r) ==
    IF r.action = "put_config" THEN IF ValidItem(r.target, r.item) THEN "" ELSE "invalid_argument"
    ELSE IF r.expected > 0 THEN "" ELSE "invalid_argument"

\* The routes behind the token; the others are anyone's.
Guarded(r) == r.surface \in {"admin", "console"}

NoTarget == [scope |-> "", namespace |-> <<>>, service |-> <<>>, name |-> <<>>]

\* A gRPC message that carries no input stands for one with zero values.
Input(r) ==
    IF r.surface = "grpc" /\ r.form = "malformed"
    THEN [r EXCEPT !.target = NoTarget, !.item = [valueType |-> "", value |-> ""], !.expected = 0]
    ELSE r

\* Why a request goes no further than its handler, "" if it does.
Early(s, r) ==
    IF Guarded(r) /\ ~Authorized(s, r.token) THEN "unauthorized"
    ELSE IF r.form = "method" /\ r.surface = "admin" THEN "method"
    ELSE IF \/ r.form = "malformed" /\ r.surface # "grpc" /\ r.action \in WriteActions
            \/ r.action \in NamespaceActions /\ ~ValidNamespaceName(r.target.namespace)
            \/ r.action = "update_access_mode" /\ r.expected = 0
            \/ r.action = "list_config" /\ r.surface = "admin" /\ r.target.scope \notin Scopes
         THEN "invalid_argument"
    ELSE IF r.action \in ConfigActions /\ r.target.scope = "global" THEN WriteError(r) ELSE ""

FirstCall(r) ==
    CASE r.action = "create" -> "create"
      [] r.action = "update_access_mode" -> "get"
      [] r.action \in ConfigActions -> IF r.target.scope = "global" THEN r.action ELSE "check"
      [] r.action = "healthz" -> "answer"
      [] r.action \in {"ready", "system"} -> "status"
      [] OTHER -> "list"

Receive(p) ==
    /\ pc[p] = "idle"
    /\ settings[ServerOf[p]] # NoSettings
    /\ rev < MaxRev
    /\ \E r \in Requests, e \in 0..rev :
          /\ e > 0 => r.action \in {"update_access_mode", "put_config", "delete_config"}
          /\ req' = [req EXCEPT ![p] = Input([r EXCEPT !.expected = e])]
          /\ Checked(p, Early(ServerOf[p], req'[p]), FirstCall(req'[p]))
    /\ UNCHANGED <<storeVars, servers, faults, current, done, id>>

-----------------------------------------------------------------------------
(* namespaces.Create, UpdateAccessMode and CheckWrite; config.Put and      *)
(* Delete.  A write that etcd carries out may still be answered with an    *)
(* error: then the handler knows of no change and records none.            *)

\* Mutant: a lost answer is taken for a key that is not there.
OfLostAnswer(p) == "not_found"

LostAnswer(p) == OfEtcd("deadline exceeded")

Committed(p) ==
    /\ done' = [done EXCEPT ![p] = rev']
    /\ \/ Goto(p, IF req[p].surface = "grpc" THEN "answer" ELSE "number") /\ UNCHANGED faults
       \/ faults < MaxFaults /\ faults' = faults + 1 /\ Fail(p, LostAnswer(p))
    /\ UNCHANGED <<servers, req, current, id>>

NamespaceOf(p) == NamespaceKey(req[p].target.namespace)

CreateNamespace(p) ==
    /\ pc[p] = "create"
    /\ Create(NamespaceOf(p), [mode |-> "read_write", created |-> rev], NoLease)
    /\ Committed(p)

GetNamespace(p) ==
    /\ pc[p] = "get"
    /\ Present(NamespaceOf(p))
    /\ current' = [current EXCEPT ![p] = kv[NamespaceOf(p)].value]
    /\ Checked(p, IF req[p].mode \in AccessModes THEN "" ELSE "invalid_argument", "cas")
    /\ UNCHANGED <<storeVars, servers, faults, req, done, id>>

UpdateAccessMode(p) ==
    /\ pc[p] = "cas"
    /\ CAS(NamespaceOf(p), req[p].expected, [current[p] EXCEPT !.mode = req[p].mode], NoLease)
    /\ Committed(p)

CheckWrite(p) ==
    /\ pc[p] = "check"
    /\ Checked(p,
           IF ~ValidNamespaceName(req[p].target.namespace) THEN "invalid_argument"
           ELSE IF ~Present(NamespaceOf(p)) THEN "not_found"
           ELSE IF ~AllowsWrite(kv[NamespaceOf(p)].value.mode) THEN "forbidden"
           ELSE WriteError(req[p]),
           req[p].action)
    /\ UNCHANGED <<storeVars, servers, faults, locals>>

PutConfig(p) ==
    LET k    == KeyOf(req[p].target)
        item == [target |-> req[p].target, item |-> req[p].item]
    IN  /\ pc[p] = "put_config"
        /\ IF req[p].expected = 0 THEN Create(k, item, NoLease)
           ELSE CAS(k, req[p].expected, item, NoLease)
        /\ Committed(p)

DeleteConfig(p) ==
    /\ pc[p] = "delete_config"
    /\ DeleteCAS(KeyOf(req[p].target), req[p].expected)
    /\ Committed(p)

Refused(p) ==
    /\ \/ /\ \/ pc[p] = "create" /\ CreateRefused(NamespaceOf(p), NoLease)
             \/ /\ pc[p] = "put_config" /\ req[p].expected = 0
                /\ CreateRefused(KeyOf(req[p].target), NoLease)
          /\ Fail(p, "already_exists")
       \/ pc[p] = "get" /\ ~Present(NamespaceOf(p)) /\ Fail(p, "not_found")
       \/ /\ \/ pc[p] = "cas" /\ CASRefused(NamespaceOf(p), req[p].expected, NoLease)
             \/ /\ pc[p] \in ConfigActions /\ req[p].expected > 0
                /\ kv[KeyOf(req[p].target)].mod # req[p].expected
          /\ Fail(p, "conflict")
    /\ UNCHANGED <<storeVars, servers, faults, locals>>

\* etcd does not carry the call out.
CallFails(p) ==
    /\ pc[p] \in {"create", "get", "cas", "check", "list"} \cup ConfigActions
    /\ faults < MaxFaults
    /\ faults' = faults + 1
    /\ Fail(p, OfEtcd("unreachable"))
    /\ UNCHANGED <<storeVars, servers, locals>>

-----------------------------------------------------------------------------
(* What administrators read, over the API or as a page: one listing each,  *)
(* whatever the namespace's access mode.                                   *)

\* A page with an unknown scope shows the service's, one without a namespace
\* the default's.
ScopeShown(r) ==
    IF r.surface = "console" /\ r.target.scope \notin Scopes THEN "service" ELSE r.target.scope

NamespaceShown(r) ==
    IF r.surface = "console" /\ r.target.namespace = <<>> THEN <<"default">> ELSE r.target.namespace

PrefixOf(r) ==
    CASE r.action = "list_config" -> ConfigPrefix(ScopeShown(r), NamespaceShown(r), r.target.service)
      [] r.action = "list_namespaces" -> NamespacePrefix
      [] r.action = "list_audit" -> AuditPrefix

Listed(r) == {k \in Keys : Present(k) /\ Covers(PrefixOf(r), k)}

List(p, action) ==
    /\ pc[p] = "list"
    /\ req[p].action = action
    /\ Goto(p, "answer")
    /\ UNCHANGED <<storeVars, servers, faults, locals>>

ListNamespaces(p) == List(p, "list_namespaces")
ListConfig(p)     == List(p, "list_config")
ListAudit(p)      == List(p, "list_audit")

\* /ready gives etcd two seconds and reports its failure; the summary is
\* answered all the same, with the server not ready.
CheckStatus(p) ==
    /\ pc[p] = "status"
    /\ Goto(p, "answer")
    /\ UNCHANGED <<storeVars, servers, faults, locals>>

StatusFails(p) ==
    /\ pc[p] = "status"
    /\ faults < MaxFaults
    /\ faults' = faults + 1
    /\ IF req[p].action = "ready" THEN Fail(p, "unavailable") ELSE Goto(p, "answer")
    /\ UNCHANGED <<storeVars, servers, locals>>

-----------------------------------------------------------------------------
(* audit.Record: an id from the counter, then a create.                    *)

\* Mutant: the counter is read but does not advance.
TakeNumberKept(p) ==
    /\ pc[p] = "number"
    /\ counter[ServerOf[p]] < MaxId
    /\ id' = [id EXCEPT ![p] = counter[ServerOf[p]] + 1]
    /\ Goto(p, "append")
    /\ UNCHANGED <<storeVars, servers, faults, req, current, done>>

TakeNumber(p) ==
    /\ pc[p] = "number"
    /\ counter[ServerOf[p]] < MaxId
    /\ counter' = [counter EXCEPT ![ServerOf[p]] = @ + 1]
    /\ id' = [id EXCEPT ![p] = counter'[ServerOf[p]]]
    /\ Goto(p, "append")
    /\ UNCHANGED <<storeVars, settings, restarts, faults, req, current, done>>

Resource(r) == <<r.target.namespace, r.target.service, r.target.name>>
AuditEntry  == [action : WriteActions, resource : {Resource(r) : r \in Requests}, of : Nat]

\* Mutant: the namespace itself is recorded.
EntryWholeNamespace(p) == current[p]

\* The revision of the change that an entry is about is history: the entry
\* names the action and its resource.
Entry(p) ==
    [action |-> req[p].action, resource |-> Resource(req[p]), of |-> done[p]]

\* Mutant: the entry overwrites one that has its id.
AppendOver(p) ==
    /\ pc[p] = "append"
    /\ Put(AuditKey(<<id[p]>>), Entry(p), NoLease)
    /\ Goto(p, "answer")
    /\ UNCHANGED <<servers, faults, locals>>

AppendEntry(p) ==
    /\ pc[p] = "append"
    /\ Create(AuditKey(<<id[p]>>), Entry(p), NoLease)
    /\ Goto(p, "answer")
    /\ UNCHANGED <<servers, faults, locals>>

\* The handler drops the error: the caller is told that all went well.
AppendRefused(p) ==
    /\ pc[p] = "append"
    /\ CreateRefused(AuditKey(<<id[p]>>), NoLease)
    /\ Goto(p, "answer")
    /\ UNCHANGED <<storeVars, servers, faults, locals>>

AppendFails(p) ==
    /\ pc[p] = "append"
    /\ faults < MaxFaults
    /\ faults' = faults + 1
    /\ Goto(p, "answer")
    /\ UNCHANGED <<storeVars, servers, locals>>

-----------------------------------------------------------------------------

Success(r) == IF r.action \in {"create", "put_config"} THEN 201 ELSE 200

\* The console answers any error of a listing with 500.
Status(p) ==
    IF err[p] = "" THEN Success(req[p])
    ELSE IF err[p] = "method" THEN 405
    ELSE IF req[p].surface = "console" /\ err[p] # "unauthorized" THEN 500
    ELSE HTTPStatusOf(err[p])

Forget(P) ==
    /\ pc' = [p \in Procs |-> IF p \in P THEN "idle" ELSE pc[p]]
    /\ req' = [p \in Procs |-> IF p \in P THEN NoRequest ELSE req[p]]
    /\ current' = [p \in Procs |-> IF p \in P THEN NoNamespace ELSE current[p]]
    /\ done' = [p \in Procs |-> IF p \in P THEN 0 ELSE done[p]]
    /\ id' = [p \in Procs |-> IF p \in P THEN 0 ELSE id[p]]
    /\ err' = [p \in Procs |-> IF p \in P THEN "" ELSE err[p]]

Return(p) ==
    /\ pc[p] = "answer"
    /\ Forget({p})
    /\ UNCHANGED <<storeVars, servers, faults>>

\* A server goes down with its requests.
Crash(s) ==
    /\ settings[s] # NoSettings
    /\ restarts < MaxRestarts
    /\ restarts' = restarts + 1
    /\ settings' = [settings EXCEPT ![s] = NoSettings]
    /\ Forget({p \in Procs : ServerOf[p] = s})
    /\ UNCHANGED <<storeVars, counter, faults>>

\* It comes back with settings that serve and a fresh counter.
Start(s) ==
    /\ settings[s] = NoSettings
    /\ \E file \in Files, env \in Envs :
          /\ Serves(Load(file, env))
          /\ settings' = [settings EXCEPT ![s] = Load(file, env)]
    /\ counter' = [counter EXCEPT ![s] = 0]
    /\ UNCHANGED <<storeVars, restarts, faults, pc, locals, err>>

Next ==
    \/ \E p \in Procs :
          \/ Receive(p) \/ CheckWrite(p)
          \/ ListNamespaces(p) \/ ListConfig(p) \/ ListAudit(p)
          \/ CheckStatus(p) \/ StatusFails(p)
          \/ CreateNamespace(p) \/ GetNamespace(p) \/ UpdateAccessMode(p)
          \/ PutConfig(p) \/ DeleteConfig(p)
          \/ Refused(p) \/ CallFails(p)
          \/ TakeNumber(p) \/ AppendEntry(p) \/ AppendRefused(p) \/ AppendFails(p)
          \/ Return(p)
    \/ \E s \in Servers : Crash(s) \/ Start(s)

Spec == Init /\ [][Next]_vars

-----------------------------------------------------------------------------

\* A stored config item is under the key of its own scope and names.
TypeOK ==
    /\ \A k \in NamespaceKeys : Present(k) => kv[k].value \in Namespace
    /\ \A k \in AuditKeys : Present(k) => kv[k].value \in AuditEntry
    /\ \A k \in ConfigItemKeys : Present(k) =>
          /\ ValidItem(kv[k].value.target, kv[k].value.item)
          /\ KeyOf(kv[k].value.target) = k
    /\ \A s \in Servers : settings[s] = NoSettings \/ Serves(settings[s])
    /\ counter \in [Servers -> 0..MaxId] /\ restarts \in Nat /\ faults \in Nat
    /\ pc \in [Procs -> {"idle", "create", "get", "cas", "check", "list", "status",
                         "number", "append", "answer"} \cup ConfigActions]
    /\ req \in [Procs -> Request \cup {NoRequest}]
    /\ current \in [Procs -> Namespace \cup {NoNamespace}]
    /\ done \in [Procs -> Nat] /\ id \in [Procs -> 0..MaxId]
    /\ err \in [Procs -> Codes \cup {"", "method"}]

Answered(p, surface) ==
    pc[p] = "answer" /\ req[p].surface = surface /\ req[p].action \in WriteActions

\* Every change that an administrator was told of has an audit entry of its
\* own (audit Record: "appends one audit entry").
EveryChangeAudited ==
    \A p \in Procs : Answered(p, "admin") /\ err[p] = "" =>
        \E k \in AuditKeys : Present(k) /\ kv[k].value = Entry(p)

\* So it is as long as no server restarts and etcd fails no call: whatever
\* the order in which the requests of one server take and use their numbers.
AuditedWhileUp == restarts = 0 /\ faults = 0 => EveryChangeAudited

\* An answer that blames the request means that nothing was changed, and one
\* that reports success that it was; only an answer that blames etcd leaves
\* it open.  Over gRPC it is the same with its codes.
AnsweredAsDone ==
    \A p \in Procs :
        /\ Answered(p, "admin") =>
              /\ Status(p) \in 200..299 => done[p] > 0
              /\ Status(p) \in 400..499 => done[p] = 0
        /\ Answered(p, "grpc") =>
              /\ GRPCStatusOf(err[p]) = "OK" => done[p] > 0
              /\ GRPCStatusOf(err[p]) \notin {"OK", "Unavailable", "Internal"} => done[p] = 0

\* Whatever layers a server's settings came from, nobody without a token gets
\* further than the middleware on the administrators' routes.
TokenNeeded ==
    \A p \in Procs :
        pc[p] # "idle" /\ req[p].surface \in {"admin", "console"} /\ req[p].token = "" => err[p] = "unauthorized"

\* A listing of config items holds those of the scope, the namespace and the
\* service it is about and no other, though one name may begin with another.
ListedBelong ==
    \A p \in Procs :
        pc[p] = "list" /\ req[p].action = "list_config" =>
            Listed(req[p]) =
            {k \in ConfigItemKeys :
                /\ Present(k)
                /\ LET t == kv[k].value.target IN
                   /\ t.scope = ScopeShown(req[p])
                   /\ t.scope # "global" => t.namespace = NamespaceShown(req[p])
                   /\ t.scope = "service" => t.service = req[p].target.service}

\* The audit log only grows: whatever servers and restarts do to the ids, no
\* entry is ever changed or removed (audit: "append-only audit entries").
AuditAppendOnly == [][\A k \in AuditKeys : Present(k) => kv'[k] = kv[k]]_vars

=============================================================================
