----------------------------- MODULE MCRegistry -----------------------------
(* Small instances of Registry for TLC.                                    *)
EXTENDS Registry, TLC

CONSTANTS n1, n2, camera

InfoOf(n, services) == [node_id |-> n, services |-> services]

RegisterOf(info) == [method |-> "Register", node_info |-> info]
HeartbeatOf(n, s) == [method |-> "Heartbeat", node_id |-> n, session_id |-> s]
DeregisterOf(n) == [method |-> "Deregister", node_id |-> n]
DiscoverOf(f) == [method |-> "Discover", service_filter |-> f]

(* Two nodes, one of which offers a service, beats and leaves; the         *)
(* malformed requests that the handlers refuse; queries.                   *)
AllKindsOfRequests ==
    {RegisterOf(InfoOf(n, IF n = n1 THEN {camera} ELSE {})) : n \in {n1, n2, EmptyId}}
        \cup {RegisterOf(NoInfo), HeartbeatOf(n1, <<n1, 1>>),
              HeartbeatOf(EmptyId, NoSession), DeregisterOf(n1),
              DiscoverOf({}), DiscoverOf({camera})}

(* Two processes that use the same node id, one after the other.           *)
OneNodeRequests ==
    {RegisterOf(InfoOf(n1, {})), HeartbeatOf(n1, <<n1, 1>>),
     HeartbeatOf(n1, <<n1, 2>>), DeregisterOf(n1)}

Symmetry == Permutations(Call)
=============================================================================
