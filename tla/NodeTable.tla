----------------------------- MODULE NodeTable ------------------------------
(***************************************************************************)
(* The registry's table of nodes, src/registry/node_table.{h,cpp}.         *)
(*                                                                         *)
(* Every public method of the class takes mutex_ for its whole body (even  *)
(* get_nodes_by_service, whose comment says it filters outside the lock:   *)
(* the lock guard lives until the return), so each is one atomic           *)
(* operation on nodes_.  The last parameter of an operation that returns a *)
(* value stands for that value.                                            *)
(*                                                                         *)
(* cpu_usage, memory_usage and the address fields of a NodeInfo are copied *)
(* and never looked at, and are left out.  last_heartbeat is only logged;  *)
(* the module RegistryTimed adds it.                                       *)
(***************************************************************************)
EXTENDS Naturals, FiniteSets, Functions

CONSTANTS
    NodeId,        \* the non-empty node ids
    EmptyId,       \* "", the protobuf default of an id that was never set
    Service,       \* service names
    max_nodes_,    \* capacity given to the constructor
    CounterMod     \* 2^32: missed_heartbeats is a uint32_t

ASSUME NodeIdAssumption  == EmptyId \notin NodeId
ASSUME CapacityAssumption == max_nodes_ \in Nat
ASSUME CounterAssumption == CounterMod \in Nat \ {0}

Id == NodeId \cup {EmptyId}

NodeInfo == [node_id : Id, services : SUBSET Service]

(* A session id is node_id + "_" + a decimal number: the number has no    *)
(* "_", so the string determines the pair.                                 *)
Session == Id \X Nat

NodeEntry == [info              : NodeInfo,
              session_id        : Session,
              missed_heartbeats : 0 .. (CounterMod - 1)]

VARIABLE nodes_    \* the map from node id to entry

TableOK == DOMAIN nodes_ \subseteq Id /\ nodes_ \in [DOMAIN nodes_ -> NodeEntry]

EmptyTable == [id \in {} |-> id]

-----------------------------------------------------------------------------
(* Operations that change the table.                                       *)

has_node(node_id) == node_id \in DOMAIN nodes_

(* Mutant: one node too many, > for >=.                                    *)
Bug_TableFull == Cardinality(DOMAIN nodes_) > max_nodes_

TableFull == Cardinality(DOMAIN nodes_) >= max_nodes_

(* Mutant: insert_or_assign for try_emplace.                               *)
Bug_register_node(info, session_id, inserted) ==
    /\ inserted = ~TableFull
    /\ nodes_' = IF inserted
                 THEN [id \in DOMAIN nodes_ \cup {info.node_id} |->
                         IF id = info.node_id
                         THEN [info              |-> info,
                               session_id        |-> session_id,
                               missed_heartbeats |-> 0]
                         ELSE nodes_[id]]
                 ELSE nodes_

(* A full table refuses even an id it already holds, and a held id is      *)
(* refused, never overwritten.                                             *)
register_node(info, session_id, inserted) ==
    /\ inserted = (~TableFull /\ ~has_node(info.node_id))
    /\ nodes_' = IF inserted
                 THEN [id \in DOMAIN nodes_ \cup {info.node_id} |->
                         IF id = info.node_id
                         THEN [info              |-> info,
                               session_id        |-> session_id,
                               missed_heartbeats |-> 0]
                         ELSE nodes_[id]]
                 ELSE nodes_

deregister_node(node_id, removed) ==
    /\ removed = has_node(node_id)
    /\ nodes_' = Restrict(nodes_, DOMAIN nodes_ \ {node_id})

(* Mutant: a heartbeat takes one miss back instead of clearing them all.   *)
Bug_update_heartbeat(node_id, found) ==
    /\ found = has_node(node_id)
    /\ nodes_' = [id \in DOMAIN nodes_ |->
                    IF id = node_id
                    THEN [nodes_[id] EXCEPT !.missed_heartbeats = @ - 1]
                    ELSE nodes_[id]]

(* No session id is passed in: whoever names a held id renews its entry.   *)
update_heartbeat(node_id, found) ==
    /\ found = has_node(node_id)
    /\ nodes_' = [id \in DOMAIN nodes_ |->
                    IF id = node_id
                    THEN [nodes_[id] EXCEPT !.missed_heartbeats = 0]
                    ELSE nodes_[id]]

(* Mutant: a node that has missed one heartbeat is not counted further.    *)
Bug_increment_all_missed_heartbeats ==
    nodes_' = [id \in DOMAIN nodes_ |-> [nodes_[id] EXCEPT !.missed_heartbeats = 1]]

increment_all_missed_heartbeats ==
    nodes_' = [id \in DOMAIN nodes_ |->
                 [nodes_[id] EXCEPT !.missed_heartbeats = (@ + 1) % CounterMod]]

(* Mutant: "exceeded the threshold" taken at its word, > for >=.           *)
Bug_StaleNodes(max_missed_heartbeats) ==
    {id \in DOMAIN nodes_ :
        nodes_[id].missed_heartbeats > max_missed_heartbeats}

StaleNodes(max_missed_heartbeats) ==
    {id \in DOMAIN nodes_ :
        nodes_[id].missed_heartbeats >= max_missed_heartbeats}

(* Mutant: whoever missed any heartbeat goes, whatever the threshold.      *)
Bug_remove_stale_nodes(max_missed_heartbeats) ==
    nodes_' = Restrict(nodes_, DOMAIN nodes_ \ StaleNodes(1))

remove_stale_nodes(max_missed_heartbeats) ==
    nodes_' = Restrict(nodes_, DOMAIN nodes_ \ StaleNodes(max_missed_heartbeats))

-----------------------------------------------------------------------------
(* Query.                                                                  *)

(* Healthy entries that offer one of the wanted services; an empty filter  *)
(* wants everything.                                                       *)
get_nodes_by_service(service_filter) ==
    {nodes_[id] : id \in
        {n \in DOMAIN nodes_ :
            /\ nodes_[n].missed_heartbeats = 0
            /\ \/ service_filter = {}
               \/ nodes_[n].info.services \cap service_filter # {}}}

=============================================================================
