------------------------------- MODULE Model -------------------------------
(***************************************************************************)
(* Defaults and validation of the resources (internal/core/model).  Which  *)
(* names match the patterns of validation.go is a constant; numbers are    *)
(* compared with the limits of the code.                                   *)
(***************************************************************************)
EXTENDS Integers, Sequences, FiniteSets

CONSTANTS
    Nil,            \* an absent map, pointer or message
    NamespaceNames, ServiceNames, InstanceIDs, MetadataKeys,
    Hosts           \* what matches hostnamePattern

\* No pattern admits a slash or the empty name.
ASSUME NameAssumption ==
    \A name \in NamespaceNames \cup ServiceNames \cup InstanceIDs :
        name # <<>> /\ \A j \in DOMAIN name : name[j] # "/"

Modes     == {"heartbeat", "http_probe", "grpc_probe", "tcp_probe"}
IsProbe(mode) == mode \in Modes \ {"heartbeat"}
Statuses  == {"health", "unhealth"}

\* A flat metadata map; {} and null are told apart.
NoEntries == [k \in {} |-> ""]
Entries(m) == IF m = Nil THEN {} ELSE {<<k, m[k]>> : k \in DOMAIN m}
CopyStringMap(m) == IF m = Nil THEN NoEntries ELSE m

-----------------------------------------------------------------------------
(* Instances.  The fields a request leaves out are "", 0 or Nil.           *)

Or(value, default) == IF value = "" THEN default ELSE value

ProbePath(mode, path) ==
    CASE mode = "http_probe" -> Or(path, "/etcdisc/http/health")
      [] mode = "grpc_probe" -> Or(path, "/etcdisc/grpc/health")
      [] mode = "tcp_probe"  -> ""
      [] OTHER               -> path

NormalizedProbe(i, mode) ==
    [address |-> Or(i.probe.address, i.address),
     port    |-> IF i.probe.port = 0 THEN i.port ELSE i.probe.port,
     path    |-> ProbePath(mode, i.probe.path)]

\* Mutant: absent metadata stays absent.
NormalizeWithoutMetadata(i) ==
    LET mode == Or(i.mode, "heartbeat") IN
    [i EXCEPT !.group    = Or(@, "default"),
              !.weight   = IF @ = 0 THEN 100 ELSE @,
              !.mode     = mode,
              !.status   = Or(@, "health"),
              !.probe    = NormalizedProbe(i, mode)]

Normalize(i) ==
    LET mode == Or(i.mode, "heartbeat") IN
    [i EXCEPT !.group    = Or(@, "default"),
              !.weight   = IF @ = 0 THEN 100 ELSE @,
              !.mode     = mode,
              !.metadata = CopyStringMap(@),
              !.status   = Or(@, "health"),
              !.probe    = NormalizedProbe(i, mode)]

MaxPort   == 65535
MaxWeight == 10000

ValidNamespaceName(name) == name \in NamespaceNames
ValidServiceName(name)   == name \in ServiceNames
ValidInstanceID(id)      == id \in InstanceIDs
ValidFlatMetadata(m) == \A entry \in Entries(m) : entry[1] \in MetadataKeys

ValidInstance(i) ==
    /\ ValidNamespaceName(i.namespace) /\ ValidServiceName(i.service)
    /\ i.instanceId = <<>> \/ ValidInstanceID(i.instanceId)
    /\ i.address \in Hosts
    /\ i.port \in 1..MaxPort
    /\ i.weight \in 1..MaxWeight
    /\ ValidFlatMetadata(i.metadata)
    /\ i.mode \in Modes
    /\ i.status \in Statuses
    /\ i.probe.port \in 0..MaxPort
    /\ i.probe.address = "" => i.mode = "heartbeat"

Endpoint(i) == <<i.address, i.port>>
=============================================================================
