----------------------------- MODULE MCConsumer -----------------------------
(***************************************************************************)
(* An instance of Consumer for TLC.  The service asked for is "pay"; there *)
(* is one whose name begins like it.                                       *)
(***************************************************************************)
EXTENDS Consumer

None == [address |-> "", port |-> 0, path |-> ""]

\* A request that names what it must and leaves the rest out.
Bare(service, id, port) ==
    [namespace |-> <<"prod">>, service |-> service, instanceId |-> id, group |-> "", version |-> "",
     address |-> "host", port |-> port, weight |-> 0, metadata |-> Nil, mode |-> "",
     probe |-> None, status |-> "", revision |-> 0]

A == [Bare(<<"pay">>, <<"a">>, 80) EXCEPT !.weight = 2, !.metadata = [zone |-> "z1"]]
B == [Bare(<<"pay">>, <<"b">>, 81) EXCEPT
         !.mode = "tcp_probe", !.group = "blue", !.metadata = [zone |-> "z1"], !.probe.port = 8081]
Other == Bare(<<"pay", "-v2">>, <<"c">>, 82)

Wide  == 2 ^ IntBits

MCRegistrations ==
    {A, B, Other, [A EXCEPT !.weight = -1], [B EXCEPT !.port = Wide + 83, !.mode = ""]}

Change(i) ==
    [namespace |-> i.namespace, service |-> i.service, instanceId |-> i.instanceId,
     weight |-> Nil, metadata |-> Nil, version |-> Nil]

MCUpdates ==
    {[Change(A) EXCEPT !.weight = -3],
     [Change(B) EXCEPT !.weight = 3, !.metadata = NoEntries, !.version = "v2"]}

MCSortedKeys == <<KeyOf(A), KeyOf(B), KeyOf(Other)>>
MCKeys == {KeyOf(A), KeyOf(B), KeyOf(Other)}

MCNamespaceNames == {<<"prod">>}
MCServiceNames   == {<<"pay">>, <<"pay", "-v2">>}
MCInstanceIDs    == {<<"a">>, <<"b">>, <<"c">>}
MCHosts          == {"host"}
MCMetadataKeys   == {"zone"}

MCAsked   == [namespace |-> <<"prod">>, service |-> <<"pay">>]
MCFilters ==
    {[NoFilter EXCEPT !.healthyOnly = FALSE],
     [NoFilter EXCEPT !.group = "blue", !.metadata = [zone |-> "z1"]]}

\* Two keys that prefer different endpoints; 83 is a port that was cut.
MCScore ==
    [h \in {"h1", "h2"} |->
        [e \in Endpoints |-> IF h = "h1" THEN e[2] ELSE (2 * Wide) - e[2]]]
=============================================================================
