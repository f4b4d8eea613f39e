------------------------------ MODULE Startup ------------------------------
(***************************************************************************)
(* From the environment to a listening server: Config::from_env, the gate, *)
(* DENY_CIDRS, the root certificates and the bind (main.rs, config.rs).    *)
(* Every step that fails ends the process with exit code 1.                *)
(*                                                                         *)
(* A variable that is not set is empty, or stands for its default.  One    *)
(* that holds no Unicode text is Unreadable: it is read as if not set.     *)
(* A variable that holds a list is the set of the items between its        *)
(* commas, Blank among them.  A host entry is [suffix, labels]: whether it *)
(* begins with a dot, and its labels in lower case.  A port is the number  *)
(* that was written.  The numbers with bounds are taken together (limits), *)
(* and so are the two optional positive ones (budget): each is valid, or   *)
(* it is not.                                                              *)
(***************************************************************************)
EXTENDS Integers, Sequences

CONSTANTS
    Environments,   \* the environments the process may be started in
    Blank,          \* an empty list item
    Unreadable      \* a value that is not text

VARIABLES
    env,            \* the environment of the process
    stage,          \* how far main has come
    config          \* the Config that from_env returned

startup == <<env, stage, config>>

\* "refused" by the gate; "exited" for any other reason.
Stages == {"load", "gate", "deny", "roots", "bind", "serving", "refused", "exited"}

Default == [listen_addr |-> "0.0.0.0", allow_targets |-> {}, allow_origins |-> {},
            allow_ports |-> {}, auth_token |-> "", public_mode |-> FALSE, budget |-> "none"]

StartupInit ==
    /\ env \in Environments
    /\ stage = "load"
    /\ config = Default

\* env_str: what cannot be read is not set.
EnvStr(value, unset) == IF value = Unreadable THEN unset ELSE value

\* Mutated: nothing is left of a list that has a blank item.
EnvList_Blank(list) ==
    IF Blank \in EnvStr(list, {}) THEN {} ELSE EnvStr(list, {})

\* env_list and the loop of env_ports: blank items are skipped.
EnvList(list) == EnvStr(list, {}) \ {Blank}

FromEnv ==
    [listen_addr   |-> EnvStr(env.listen, Default.listen_addr),
     allow_targets |-> EnvList(env.targets),
     allow_origins |-> EnvList(env.origins),
     allow_ports   |-> EnvList(env.ports),
     auth_token    |-> EnvStr(env.token, ""),
     public_mode   |-> EnvStr(env.public, "") \in {"1", "true", "yes", "on"},
     budget        |-> EnvStr(env.budget, "none")]

U16Max == 65535

\* A u16 that is not zero.
ValidPorts == 1..U16Max

\* What makes from_env return an error; an Unreadable value does not.
EnvInvalid ==
    \/ env.listen = "invalid"
    \/ env.limits = "invalid"
    \/ ~(EnvList(env.ports) \subseteq ValidPorts)
    \/ env.budget = "invalid"

Load ==
    /\ stage = "load"
    /\ ~EnvInvalid
    /\ config' = FromEnv
    /\ stage' = "gate"
    /\ UNCHANGED env

LoadFails ==
    /\ stage = "load"
    /\ EnvInvalid
    /\ stage' = "exited"
    /\ UNCHANGED <<env, config>>

Loopback == {"127.0.0.1", "::1"}

\* Mutated: whatever PUBLIC_MODE holds counts as a confirmation.
ShouldGateStartup_Raw ==
    /\ config.listen_addr \notin Loopback
    /\ env.public = ""
    /\ config.allow_targets = {}
    /\ config.auth_token = ""

ShouldGateStartup ==
    /\ config.listen_addr \notin Loopback
    /\ ~config.public_mode
    /\ config.allow_targets = {}
    /\ config.auth_token = ""

Gate ==
    /\ stage = "gate"
    /\ stage' = IF ShouldGateStartup THEN "refused" ELSE "deny"
    /\ UNCHANGED <<env, config>>

\* with_env_deny_cidrs: one invalid entry ends the process, an Unreadable list
\* denies nothing.
LoadDenyCidrs ==
    /\ stage = "deny"
    /\ stage' = IF env.deny = "invalid" THEN "exited" ELSE "roots"
    /\ UNCHANGED <<env, config>>

\* create_tls_config: the system may have no root certificate.
LoadRoots ==
    /\ stage = "roots"
    /\ stage' \in {"bind", "exited"}
    /\ UNCHANGED <<env, config>>

Bind ==
    /\ stage = "bind"
    /\ stage' \in {"serving", "exited"}
    /\ UNCHANGED <<env, config>>

Start == Load \/ LoadFails \/ Gate \/ LoadDenyCidrs \/ LoadRoots \/ Bind

StartSpec == StartupInit /\ [][Start]_startup

\* run_health_check: it always connects to 127.0.0.1 at the configured port.
HealthCheck ==
    IF stage = "serving" /\ config.listen_addr \in {"127.0.0.1", "0.0.0.0"} THEN 0 ELSE 1

-----------------------------------------------------------------------------
(* Properties                                                              *)

\* run_health_check says of its result: 0 is healthy, 1 is not.  A server that
\* listens must then be reported as 0 (refuted by TLC;
\* README, disagreements).
HealthyIsReported == stage = "serving" => HealthCheck = 0

\* DESIGN.md says that the gate refuses to start when none of the protections
\* it lists is configured (refuted by TLC;
\* README, disagreements).
GateSparesProtected ==
    stage = "refused" =>
        /\ config.allow_ports = {}
        /\ config.allow_origins = {}
        /\ config.budget = "none"

\* from_env says that a variable that is set to an illegal value is an error
\* (refuted by TLC; README, disagreements).
IllegalValuesRefused == stage = "serving" => \A name \in DOMAIN env : env[name] # Unreadable
=============================================================================
