------------------------------ MODULE Keyspace ------------------------------
(***************************************************************************)
(* The layout of etcd's keys (internal/core/keyspace/keys.go).  A listing  *)
(* or a watch covers the keys that begin with a prefix, so what matters of *)
(* a name is where it ends: a name is a sequence of pieces without a       *)
(* slash, and one name may begin with another ("pay" and "pay-v2").        *)
(***************************************************************************)
EXTENDS Naturals, Sequences

Slash == <<"/">>

Covers(prefix, key) == Len(prefix) <= Len(key) /\ SubSeq(key, 1, Len(prefix)) = prefix

NamespaceKey(name) == <<"namespaces", "/">> \o name
NamespacePrefix    == <<"namespaces", "/">>

\* Mutant: the service's name is not closed by a slash.
InstanceServicePrefixOpen(n, s) == <<"instances", "/">> \o n \o Slash \o s

InstanceServicePrefix(n, s) == <<"instances", "/">> \o n \o Slash \o s \o Slash

InstanceNamespacePrefix(n) == <<"instances", "/">> \o n \o Slash

InstanceKey(n, s, id) == <<"instances", "/">> \o n \o Slash \o s \o Slash \o id

ConfigKey(scope, n, s, key) ==
    CASE scope = "global"    -> <<"config", "/", "global", "/">> \o key
      [] scope = "namespace" -> <<"config", "/", "namespaces", "/">> \o n \o Slash \o key
      [] OTHER               -> <<"config", "/", "services", "/">> \o n \o Slash \o s \o Slash \o key

\* Mutant: the last name is not closed by a slash.
ConfigPrefixOpen(scope, n, s) ==
    CASE scope = "global"    -> <<"config", "/", "global", "/">>
      [] scope = "namespace" -> <<"config", "/", "namespaces", "/">> \o n
      [] OTHER               -> <<"config", "/", "services", "/">> \o n \o Slash \o s

ConfigPrefix(scope, n, s) ==
    CASE scope = "global"    -> <<"config", "/", "global", "/">>
      [] scope = "namespace" -> <<"config", "/", "namespaces", "/">> \o n \o Slash
      [] OTHER               -> <<"config", "/", "services", "/">> \o n \o Slash \o s \o Slash

AuditKey(id) == <<"audit", "/">> \o id
AuditPrefix  == <<"audit", "/">>
=============================================================================
