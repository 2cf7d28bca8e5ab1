------------------------------ MODULE Settings ------------------------------
(***************************************************************************)
(* A server's settings: the defaults, over them the YAML file, over both   *)
(* the environment (internal/app/config), and what stops a server that has *)
(* loaded them (app/bootstrap, app/wiring).                                *)
(***************************************************************************)
EXTENDS Integers, Sequences

CONSTANTS
    NotANumber, \* what Atoi refuses
    NoSettings  \* Load returned an error; a server that is down

Default ==
    [appName |-> "etcdisc", appEnv |-> "dev",
     httpHost |-> "0.0.0.0", httpPort |-> 8080,
     grpcHost |-> "0.0.0.0", grpcPort |-> 9090,
     endpoints |-> <<"127.0.0.1:2379">>, dialMS |-> 3000,
     adminToken |-> "change-me-in-dev"]

Numbers == {"httpPort", "grpcPort", "dialMS"}

\* The settings in upper are laid over those in lower.
Over(lower, upper) == [f \in DOMAIN lower |-> IF f \in DOMAIN upper THEN upper[f] ELSE lower[f]]

\* A file may set anything, a token that is empty too; none is no error.
LoadYAML(settings, file) ==
    CASE file.state = "missing"   -> settings
      [] file.state = "malformed" -> NoSettings
      [] file.state = "read"      -> Over(settings, file.sets)

\* env holds the variables that are set and not empty: an empty one counts as
\* unset.  A number that does not parse fails the start.
ApplyEnv(settings, env) ==
    IF \E f \in Numbers \cap DOMAIN env : env[f] = NotANumber THEN NoSettings
    ELSE Over(settings, env)

Load(file, env) ==
    IF LoadYAML(Default, file) = NoSettings THEN NoSettings
    ELSE ApplyEnv(LoadYAML(Default, file), env)

\* Without endpoints there is no etcd client.  Run returns with the first of
\* the two listeners that fails, as one does when they share an address.
Serves(settings) ==
    /\ settings # NoSettings
    /\ settings.endpoints # <<>>
    /\ <<settings.httpHost, settings.httpPort>> # <<settings.grpcHost, settings.grpcPort>>
=============================================================================
