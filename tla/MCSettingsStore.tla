-------------------------- MODULE MCSettingsStore --------------------------
(***************************************************************************)
(* Two profiles, three MTUs and three sets of connection parameters: one   *)
(* equal to the default, one above its range, and one the stack accepts    *)
(* and the firmware refuses, as it refuses the first MTU.                  *)
(***************************************************************************)
EXTENDS SettingsStore

Profile(n) == [service_uuid |-> n, notify_uuid |-> n, write_uuid |-> n]

Params(min, max) ==
    [conn_interval_min |-> min, conn_interval_max |-> max, latency |-> 0, timeout |-> 400]

MCProfiles == {Profile("a"), Profile("b")}
MCMtus == {22, 23, 100}
MCConnParams == {Params(6, 9), Params(20, 40), Params(40, 1000)}

MCDefault ==
    [service_uuid |-> "factory", notify_uuid |-> "factory", write_uuid |-> "factory",
     mtu |-> 259,
     conn_interval_min |-> 6, conn_interval_max |-> 9, latency |-> 0, timeout |-> 400]

=============================================================================
