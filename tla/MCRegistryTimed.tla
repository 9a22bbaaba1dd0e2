--------------------------- MODULE MCRegistryTimed --------------------------
(* Small instances of RegistryTimed for TLC.                               *)
EXTENDS RegistryTimed

CONSTANT n1

(* One node that registers, and beats or falls silent.                     *)
OneNodeRequests ==
    {[method |-> "Register", node_info |-> [node_id |-> n1, services |-> {}]],
     [method |-> "Heartbeat", node_id |-> n1, session_id |-> <<n1, 1>>]}
=============================================================================
