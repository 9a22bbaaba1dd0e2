--------------------------- MODULE RegistryProofs ---------------------------
(***************************************************************************)
(* Proofs about Registry for every value of its constants: any number of   *)
(* nodes, calls and requests, any capacity, threshold and counter width.   *)
(***************************************************************************)
EXTENDS Registry, FiniteSetTheorems, TLAPS

-----------------------------------------------------------------------------
(* The inductive invariants.                                               *)

(* A Register past its checks serves a request that names a node, and its  *)
(* session id was made for that node: what the table is given is sound.    *)
PendingOK ==
    \A c \in Call : handler[c] = "insert" =>
        /\ request[c] \in RegisterRequest
        /\ ValidInfo(request[c].node_info)
        /\ session[c][1] = request[c].node_info.node_id

TypeInv == TypeOK /\ PendingOK /\ KeyedByOwner

(* How far main is says who else is alive.  A call can arrive only while   *)
(* the server listens, and main drains the calls before it stops the       *)
(* checker and joins the checker before it destroys the table.             *)
Phases ==
    /\ server = "listening" =>
         main \in {"start_checker", "wait", "shutdown_service", "shutdown_server"}
    /\ main \in {"down", "build", "stop_checker", "join", "destroy"} =>
         \A c \in Call : ~InFlight(c)
    /\ main \in {"down", "destroy"} => checker \in {"none", "exited"}
    /\ main \in {"build", "start_checker"} => checker = "none" /\ ~hc_is_running_
    /\ main \in {"wait", "shutdown_service", "shutdown_server",
                 "server_wait", "stop_checker"} => hc_is_running_

(* While a late call is being served, is_running_ is false; and the answer *)
(* of a call is empty until it is done.                                    *)
LateInv ==
    /\ NoLateRegistration
    /\ \A c \in Call : InFlight(c) /\ late[c] => ~is_running_
    /\ \A c \in Call : handler[c] # "done" => reply[c].status = "PENDING"

-----------------------------------------------------------------------------
(* Lemmas on the operators: what they are given and return is typed.       *)

(* The method of a request tells its type.                                 *)
LEMMA RequestKinds ==
    ASSUME NEW r \in Requests \cup {NoRequest}
    PROVE  /\ r.method = "Register" => r \in RegisterRequest
           /\ r.method = "Heartbeat" => r \in HeartbeatRequest
           /\ r.method = "Deregister" => r \in DeregisterRequest
           /\ r.method = "Discover" => r \in DiscoverRequest
BY RequestsAssumption DEF Request, NoRequest, RegisterRequest, HeartbeatRequest,
                          DeregisterRequest, DiscoverRequest

(* An answer that carries nothing but its status is a response.            *)
LEMMA AnswerType ==
    ASSUME NEW s \in Status
    PROVE  Answer(s) \in Response
BY DEF Answer, Response, NoSession, Session, Id

(* The operations of the table keep its type.                              *)
LEMMA RegisterNodeType ==
    ASSUME TableOK, NEW info \in NodeInfo, NEW s \in Session, NEW ok \in BOOLEAN,
           register_node(info, s, ok)
    PROVE  TableOK'
<1>. 0 \in 0 .. (CounterMod - 1)
  BY CounterAssumption
<1>. QED
  BY DEF TableOK, register_node, NodeEntry, NodeInfo

LEMMA DeregisterNodeType ==
    ASSUME TableOK, NEW n, NEW ok \in BOOLEAN, deregister_node(n, ok)
    PROVE  TableOK'
BY DEF TableOK, deregister_node, Restrict

LEMMA UpdateHeartbeatType ==
    ASSUME TableOK, NEW n, NEW ok \in BOOLEAN, update_heartbeat(n, ok)
    PROVE  TableOK'
<1>. 0 \in 0 .. (CounterMod - 1)
  BY CounterAssumption
<1>. QED
  BY DEF TableOK, update_heartbeat, NodeEntry

LEMMA IncrementType ==
    ASSUME TableOK, increment_all_missed_heartbeats
    PROVE  TableOK'
<1>. \A m \in 0 .. (CounterMod - 1) : (m + 1) % CounterMod \in 0 .. (CounterMod - 1)
  BY CounterAssumption
<1>. QED
  BY DEF TableOK, increment_all_missed_heartbeats, NodeEntry

LEMMA RemoveStaleType ==
    ASSUME TableOK, NEW m, remove_stale_nodes(m)
    PROVE  TableOK'
BY DEF TableOK, remove_stale_nodes, StaleNodes, Restrict

-----------------------------------------------------------------------------
(* Type correctness, and what it needs: no sequence of steps of main, the  *)
(* checker and the handlers leaves a variable outside its type, lets an    *)
(* entry with an empty id into the table, or stores it under another id.   *)

LEMMA TypeInvInit == Init => TypeInv
<1>. SUFFICES ASSUME Init PROVE TypeInv
  OBVIOUS
<1>1. TableOK
  BY DEF Init, TableOK, EmptyTable
<1>2. Answer("PENDING") \in Response
  BY AnswerType DEF Status
<1>3. NoSession \in Session
  BY DEF NoSession, Session, Id
<1>4. TypeOK
  BY <1>1, <1>2, <1>3 DEF Init, TypeOK, MainPC, CheckerPC, HandlerPC
<1>. QED
  BY <1>4 DEF Init, TypeInv, PendingOK, KeyedByOwner, EmptyTable

LEMMA TypeInvStep == TypeInv /\ [Next]_vars => TypeInv'
<1>. SUFFICES ASSUME TypeInv, [Next]_vars PROVE TypeInv'
  OBVIOUS
<1>. USE DEF TypeInv, TypeOK, mainVars, checkerVars, callVars
<1>0. EmptyTable \in [{} -> NodeEntry] /\ DOMAIN EmptyTable = {}
  BY DEF EmptyTable
<1>1. CASE Construct
  BY <1>0, <1>1 DEF Construct, TableOK, PendingOK, KeyedByOwner, MainPC, CheckerPC
<1>2. CASE BuildAndStart
  BY <1>2 DEF BuildAndStart, TableOK, PendingOK, KeyedByOwner, MainPC
<1>3. CASE StartChecker
  BY <1>3 DEF StartChecker, TableOK, PendingOK, KeyedByOwner, MainPC, CheckerPC
<1>4. CASE signal_handler \/ LeaveWait \/ ServiceShutdown \/ ServerShutdown
  BY <1>4 DEF signal_handler, LeaveWait, ServiceShutdown, ServerShutdown,
              TableOK, PendingOK, KeyedByOwner, MainPC
<1>5. CASE ServerWait \/ StopChecker \/ JoinChecker
  BY <1>5 DEF ServerWait, StopChecker, JoinChecker,
              TableOK, PendingOK, KeyedByOwner, MainPC
<1>6. CASE Destroy
  BY <1>0, <1>6 DEF Destroy, TableOK, PendingOK, KeyedByOwner, MainPC
<1>7. CASE ProcessDies
  <2>1. Answer("UNAVAILABLE") \in Response
    BY AnswerType DEF Status
  <2>. QED
    BY <1>0, <1>7, <2>1 DEF ProcessDies, TableOK, PendingOK, KeyedByOwner,
                            MainPC, CheckerPC, HandlerPC
<1>8. CASE LoopTest \/ Wake
  BY <1>8 DEF LoopTest, Wake, TableOK, PendingOK, KeyedByOwner, CheckerPC
<1>9. CASE Increment
  <2>1. TableOK'
    BY <1>9, IncrementType DEF Increment
  <2>2. KeyedByOwner'
    BY <1>9 DEF Increment, increment_all_missed_heartbeats, KeyedByOwner, TableOK,
                NodeEntry
  <2>. QED
    BY <1>9, <2>1, <2>2 DEF Increment, PendingOK, CheckerPC
<1>10. CASE RemoveStale
  <2>1. TableOK'
    BY <1>10, RemoveStaleType DEF RemoveStale
  <2>2. KeyedByOwner'
    BY <1>10 DEF RemoveStale, remove_stale_nodes, Restrict, KeyedByOwner
  <2>. QED
    BY <1>10, <2>1, <2>2 DEF RemoveStale, PendingOK, CheckerPC
<1>11. ASSUME NEW c \in Call, NEW req \in Requests, Arrive(c, req)
       PROVE  TypeInv'
  BY <1>11 DEF Arrive, TableOK, PendingOK, KeyedByOwner, HandlerPC
<1>12. ASSUME NEW c \in Call, RegisterRefused(c)
       PROVE  TypeInv'
  <2>1. Answer("UNAVAILABLE") \in Response /\ Answer("INVALID_ARGUMENT") \in Response
    BY AnswerType DEF Status
  <2>. QED
    BY <1>12, <2>1 DEF RegisterRefused, Finish, TableOK, PendingOK, KeyedByOwner, HandlerPC
<1>13. ASSUME NEW c \in Call, RegisterAdmitted(c)
       PROVE  TypeInv'
  <2>1. request[c] \in RegisterRequest /\ request[c].node_info \in NodeInfo
    BY <1>13, RequestKinds DEF RegisterAdmitted, Serves, ValidInfo, RegisterRequest
  <2>2. <<request[c].node_info.node_id, rands + 1>> \in Session
    BY <2>1 DEF NodeInfo, Session
  <2>3. TypeOK'
    BY <1>13, <2>2 DEF RegisterAdmitted, TableOK, HandlerPC
  <2>4. PendingOK'
    BY <1>13, <2>1 DEF RegisterAdmitted, PendingOK
  <2>. QED
    BY <1>13, <2>3, <2>4 DEF RegisterAdmitted, KeyedByOwner
<1>14. ASSUME NEW c \in Call, RegisterInsert(c)
       PROVE  TypeInv'
  <2>1. request[c] \in RegisterRequest /\ ValidInfo(request[c].node_info)
        /\ session[c][1] = request[c].node_info.node_id /\ session[c] \in Session
    BY <1>14 DEF RegisterInsert, PendingOK
  <2>2. request[c].node_info \in NodeInfo /\ request[c].node_info.node_id \in NodeId
    BY <2>1 DEF RegisterRequest, ValidInfo, NodeInfo, Id
  <2>3. PICK inserted \in BOOLEAN :
          /\ register_node(request[c].node_info, session[c], inserted)
          /\ Finish(c, IF inserted
                       THEN [Answer("OK") EXCEPT !.session_id = session[c]]
                       ELSE Answer("ALREADY_EXISTS"))
    BY <1>14 DEF RegisterInsert
  <2>4. TableOK'
    BY <2>1, <2>2, <2>3, RegisterNodeType
  <2>5. KeyedByOwner'
    BY <2>1, <2>2, <2>3 DEF register_node, KeyedByOwner
  <2>6. /\ [Answer("OK") EXCEPT !.session_id = session[c]] \in Response
        /\ Answer("ALREADY_EXISTS") \in Response
    BY <2>1, AnswerType DEF Status, Response, Answer
  <2>7. TypeOK'
    BY <1>14, <2>3, <2>4, <2>6 DEF RegisterInsert, Finish, HandlerPC
  <2>8. PendingOK'
    BY <1>14, <2>3 DEF RegisterInsert, Finish, PendingOK
  <2>. QED
    BY <2>5, <2>7, <2>8
<1>15. ASSUME NEW c \in Call, Heartbeat(c)
       PROVE  TypeInv'
  <2>1. /\ Answer("INVALID_ARGUMENT") \in Response /\ Answer("OK") \in Response
        /\ [Answer("NOT_FOUND") EXCEPT !.should_reconnect = TRUE] \in Response
    BY AnswerType DEF Status, Response, Answer
  <2>2. CASE UNCHANGED nodes_ /\ Finish(c, Answer("INVALID_ARGUMENT"))
    BY <1>15, <2>1, <2>2 DEF Heartbeat, Finish, TableOK, PendingOK, KeyedByOwner, HandlerPC
  <2>3. ASSUME NEW found \in BOOLEAN, update_heartbeat(request[c].node_id, found),
               Finish(c, IF found THEN Answer("OK")
                         ELSE [Answer("NOT_FOUND") EXCEPT !.should_reconnect = TRUE])
        PROVE  TypeInv'
    <3>1. TableOK'
      BY <2>3, UpdateHeartbeatType
    <3>2. KeyedByOwner'
      BY <2>3 DEF update_heartbeat, KeyedByOwner, TableOK, NodeEntry
    <3>. QED
      BY <1>15, <2>1, <2>3, <3>1, <3>2 DEF Heartbeat, Finish, PendingOK, HandlerPC
  <2>. QED
    BY <1>15, <2>2, <2>3 DEF Heartbeat
<1>16. ASSUME NEW c \in Call, Deregister(c)
       PROVE  TypeInv'
  <2>1. PICK removed \in BOOLEAN :
          /\ deregister_node(request[c].node_id, removed)
          /\ Finish(c, Answer(IF removed THEN "OK" ELSE "NOT_FOUND"))
    BY <1>16 DEF Deregister
  <2>2. TableOK'
    BY <2>1, DeregisterNodeType
  <2>3. KeyedByOwner'
    BY <2>1 DEF deregister_node, Restrict, KeyedByOwner
  <2>4. Answer(IF removed THEN "OK" ELSE "NOT_FOUND") \in Response
    BY AnswerType DEF Status
  <2>. QED
    BY <1>16, <2>1, <2>2, <2>3, <2>4 DEF Deregister, Finish, PendingOK, HandlerPC
<1>17. ASSUME NEW c \in Call, Discover(c)
       PROVE  TypeInv'
  <2>. DEFINE found == {e.info : e \in get_nodes_by_service(request[c].service_filter)}
  <2>1. found \in SUBSET NodeInfo
    BY DEF get_nodes_by_service, TableOK, NodeEntry
  <2>2. [Answer("OK") EXCEPT !.nodes = found] \in Response
    BY <2>1, AnswerType DEF Status, Response, Answer
  <2>. QED
    BY <1>17, <2>2 DEF Discover, Finish, TableOK, PendingOK, KeyedByOwner, HandlerPC
<1>18. ASSUME NEW c \in Call, Return(c)
       PROVE  TypeInv'
  <2>1. Answer("PENDING") \in Response /\ NoSession \in Session
    BY AnswerType DEF Status, NoSession, Session, Id
  <2>. QED
    BY <1>18, <2>1 DEF Return, TableOK, PendingOK, KeyedByOwner, HandlerPC
<1>19. CASE UNCHANGED vars
  BY <1>19 DEF vars, TableOK, PendingOK, KeyedByOwner
<1>. QED
  BY <1>1, <1>2, <1>3, <1>4, <1>5, <1>6, <1>7, <1>8, <1>9, <1>10, <1>11, <1>12,
     <1>13, <1>14, <1>15, <1>16, <1>17, <1>18, <1>19
     DEF Next, Main, run_loop, Handle, Crash, ServerShutdownOnNull

(* Type correctness of the registry process.                               *)
THEOREM TypeCorrect == Spec => []TypeOK
<1>1. Spec => []TypeInv
  BY TypeInvInit, TypeInvStep, PTL DEF Spec
<1>2. TypeInv => TypeOK
  BY DEF TypeInv
<1>. QED
  BY <1>1, <1>2, PTL

(* An entry is stored under its own, non-empty id, and its session id was  *)
(* made for that id.                                                       *)
THEOREM EntriesKeyedByOwner == Spec => []KeyedByOwner
<1>1. Spec => []TypeInv
  BY TypeInvInit, TypeInvStep, PTL DEF Spec
<1>2. TypeInv => KeyedByOwner
  BY DEF TypeInv
<1>. QED
  BY <1>1, <1>2, PTL

-----------------------------------------------------------------------------
(* The phases of the process.                                              *)

LEMMA PhasesInit == Init => Phases
BY DEF Init, Phases, InFlight

LEMMA PhasesStep == TypeInv /\ Phases /\ [Next]_vars => Phases'
<1>. SUFFICES ASSUME TypeInv, Phases, [Next]_vars PROVE Phases'
  OBVIOUS
<1>. USE DEF TypeInv, TypeOK, Phases, InFlight, mainVars, checkerVars, callVars
<1>1. CASE Construct
  BY <1>1 DEF Construct
<1>2. CASE BuildAndStart
  BY <1>2 DEF BuildAndStart
<1>3. CASE StartChecker
  BY <1>3 DEF StartChecker
<1>4. CASE signal_handler \/ LeaveWait \/ ServiceShutdown
  BY <1>4 DEF signal_handler, LeaveWait, ServiceShutdown
<1>5. CASE ServerShutdown
  BY <1>5 DEF ServerShutdown
<1>6. CASE ServerWait
  BY <1>6 DEF ServerWait
<1>7. CASE StopChecker
  BY <1>7 DEF StopChecker
<1>8. CASE JoinChecker
  BY <1>8 DEF JoinChecker
<1>9. CASE Destroy
  BY <1>9 DEF Destroy
<1>10. CASE ProcessDies
  BY <1>10 DEF ProcessDies, HandlerPC
<1>11. CASE run_loop
  BY <1>11 DEF run_loop, LoopTest, Wake, Increment, RemoveStale
<1>12. ASSUME NEW c \in Call, NEW req \in Requests, Arrive(c, req)
       PROVE  Phases'
  BY <1>12 DEF Arrive
<1>13. ASSUME NEW c \in Call, RegisterAdmitted(c)
       PROVE  Phases'
  BY <1>13 DEF RegisterAdmitted, Serves
<1>14. ASSUME NEW c \in Call,
              RegisterRefused(c) \/ RegisterInsert(c) \/ Heartbeat(c)
                \/ Deregister(c) \/ Discover(c)
       PROVE  Phases'
  <2>1. \E answer : Finish(c, answer)
    BY <1>14 DEF RegisterRefused, RegisterInsert, Heartbeat, Deregister, Discover
  <2>. QED
    BY <2>1 DEF Finish
<1>15. ASSUME NEW c \in Call, Return(c)
       PROVE  Phases'
  BY <1>15 DEF Return
<1>16. CASE UNCHANGED vars
  BY <1>16 DEF vars
<1>. QED
  BY <1>1, <1>2, <1>3, <1>4, <1>5, <1>6, <1>7, <1>8, <1>9, <1>10, <1>11, <1>12,
     <1>13, <1>14, <1>15, <1>16
     DEF Next, Main, Handle, Crash, ServerShutdownOnNull

LEMMA PhasesInvariant == Spec => [](TypeInv /\ Phases)
BY TypeInvInit, TypeInvStep, PhasesInit, PhasesStep, PTL DEF Spec

(* Neither a handler nor the checker thread ever runs on a destroyed       *)
(* table.                                                                  *)
THEOREM TableSafe == Spec => []TableOutlivesItsUsers
<1>1. Phases => TableOutlivesItsUsers
  BY DEF Phases, TableOutlivesItsUsers
<1>. QED
  BY <1>1, PhasesInvariant, PTL

-----------------------------------------------------------------------------
(* What a step may do to the table.  The invariants about it, and the      *)
(* refinement, need nothing else of the handlers and of main.              *)
TableStep ==
    \/ nodes_' = nodes_ /\ (checker' = checker \/ {checker, checker'} \cap {"remove"} = {})
    \/ nodes_' = EmptyTable /\ (main = "down" \/ main' = "down")
    \/ /\ checker' = checker
       /\ main # "down"
       /\ \/ \E info \in NodeInfo, s \in Session, ok \in BOOLEAN :
                info.node_id \in NodeId /\ register_node(info, s, ok)
          \/ \E n \in Id, ok \in BOOLEAN : update_heartbeat(n, ok)
          \/ \E n \in Deregistering, ok \in BOOLEAN : n \in Id /\ deregister_node(n, ok)
    \/ checker = "increment" /\ checker' = "remove" /\ increment_all_missed_heartbeats
    \/ checker = "remove" /\ remove_stale_nodes(max_missed_heartbeats_)

LEMMA TableSteps ==
    ASSUME TypeInv, Phases, [Next]_vars
    PROVE  TableStep
<1>. USE DEF TypeInv, TypeOK, mainVars, checkerVars, callVars, TableStep
<1>1. CASE Construct \/ Destroy \/ ProcessDies
  BY <1>1 DEF Construct, Destroy, ProcessDies
<1>2. CASE BuildAndStart \/ LeaveWait \/ ServiceShutdown \/ ServerShutdown
             \/ ServerWait \/ StopChecker \/ JoinChecker \/ signal_handler
  BY <1>2 DEF BuildAndStart, LeaveWait, ServiceShutdown, ServerShutdown,
              ServerWait, StopChecker, JoinChecker, signal_handler
<1>3. CASE StartChecker
  BY <1>3 DEF StartChecker, Phases
<1>4. CASE run_loop
  BY <1>4 DEF run_loop, LoopTest, Wake, Increment, RemoveStale
<1>5. ASSUME NEW c \in Call, NEW req \in Requests, Arrive(c, req)
      PROVE  TableStep
  BY <1>5 DEF Arrive
<1>6. ASSUME NEW c \in Call,
             RegisterRefused(c) \/ RegisterAdmitted(c) \/ Discover(c) \/ Return(c)
      PROVE  TableStep
  BY <1>6 DEF RegisterRefused, RegisterAdmitted, Discover, Return, Finish
<1>7. ASSUME NEW c \in Call, RegisterInsert(c)
      PROVE  TableStep
  <2>1. /\ request[c].node_info \in NodeInfo
        /\ request[c].node_info.node_id \in NodeId
        /\ session[c] \in Session
    BY <1>7 DEF RegisterInsert, PendingOK, RegisterRequest, ValidInfo, NodeInfo, Id
  <2>2. main # "down"
    BY <1>7 DEF RegisterInsert, Phases, InFlight
  <2>. QED
    BY <1>7, <2>1, <2>2 DEF RegisterInsert, Finish
<1>8. ASSUME NEW c \in Call, Heartbeat(c)
      PROVE  TableStep
  <2>1. request[c].node_id \in Id
    BY <1>8, RequestKinds DEF Heartbeat, Serves, HeartbeatRequest
  <2>2. main # "down"
    BY <1>8 DEF Heartbeat, Serves, Phases, InFlight
  <2>. QED
    BY <1>8, <2>1, <2>2 DEF Heartbeat, Finish
<1>9. ASSUME NEW c \in Call, Deregister(c)
      PROVE  TableStep
  <2>1. request[c].node_id \in Id /\ request[c].node_id \in Deregistering
    BY <1>9, RequestKinds DEF Deregister, Deregistering, Serves, DeregisterRequest
  <2>2. main # "down"
    BY <1>9 DEF Deregister, Serves, Phases, InFlight
  <2>3. PICK ok \in BOOLEAN : deregister_node(request[c].node_id, ok)
    BY <1>9 DEF Deregister
  <2>4. checker' = checker
    BY <1>9 DEF Deregister, Finish
  <2>. QED
    BY <2>1, <2>2, <2>3, <2>4
<1>10. CASE UNCHANGED vars
  BY <1>10 DEF vars
<1>. QED
  BY <1>1, <1>2, <1>3, <1>4, <1>5, <1>6, <1>7, <1>8, <1>9, <1>10
     DEF Next, Main, Handle, Crash, ServerShutdownOnNull

-----------------------------------------------------------------------------
(* Capacity and counters.                                                  *)

LEMMA CapacityStep ==
    ASSUME TypeInv, CapacityBound, TableStep
    PROVE  CapacityBound'
<1>. USE DEF CapacityBound
<1>1. CASE DOMAIN nodes_' \subseteq DOMAIN nodes_
  <2>1. IsFiniteSet(DOMAIN nodes_') /\ Cardinality(DOMAIN nodes_') <= Cardinality(DOMAIN nodes_)
    BY <1>1, FS_Subset
  <2>2. Cardinality(DOMAIN nodes_') \in Nat /\ Cardinality(DOMAIN nodes_) \in Nat
    BY <2>1, FS_CardinalityType
  <2>. QED
    BY <2>1, <2>2, CapacityAssumption
<1>2. ASSUME NEW info \in NodeInfo, NEW s \in Session, NEW ok \in BOOLEAN,
             register_node(info, s, ok), ~(DOMAIN nodes_' \subseteq DOMAIN nodes_)
      PROVE  CapacityBound'
  <2>1. ~TableFull /\ DOMAIN nodes_' = DOMAIN nodes_ \cup {info.node_id}
    BY <1>2 DEF register_node
  <2>2. /\ IsFiniteSet(DOMAIN nodes_')
        /\ \/ Cardinality(DOMAIN nodes_') = Cardinality(DOMAIN nodes_)
           \/ Cardinality(DOMAIN nodes_') = Cardinality(DOMAIN nodes_) + 1
    BY <2>1, FS_AddElement
  <2>3. Cardinality(DOMAIN nodes_) \in Nat
    BY FS_CardinalityType
  <2>. QED
    BY <2>1, <2>2, <2>3, CapacityAssumption DEF TableFull
<1>3. \/ DOMAIN nodes_' \subseteq DOMAIN nodes_
      \/ \E info \in NodeInfo, s \in Session, ok \in BOOLEAN : register_node(info, s, ok)
  BY DEF TableStep, EmptyTable, update_heartbeat, deregister_node, Restrict,
         increment_all_missed_heartbeats, remove_stale_nodes
<1>. QED
  BY <1>1, <1>2, <1>3

LEMMA MissedStep ==
    ASSUME TypeInv, MissedBound, TableStep
    PROVE  MissedBound'
<1>. USE ThresholdAssumption, CounterAssumption DEF MissedBound, TypeInv, TypeOK
<1>1. CASE nodes_' = nodes_ /\ (checker' = checker \/ {checker, checker'} \cap {"remove"} = {})
  BY <1>1
<1>2. CASE nodes_' = EmptyTable
  BY <1>2 DEF EmptyTable
<1>3. ASSUME checker' = checker,
             NEW info \in NodeInfo, NEW s \in Session, NEW ok \in BOOLEAN,
             register_node(info, s, ok)
      PROVE  MissedBound'
  BY <1>3 DEF register_node
<1>4. ASSUME checker' = checker, NEW n \in Id, NEW ok \in BOOLEAN, update_heartbeat(n, ok)
      PROVE  MissedBound'
  BY <1>4 DEF update_heartbeat, TableOK, NodeEntry
<1>5. ASSUME checker' = checker, NEW n \in Id, NEW ok \in BOOLEAN, deregister_node(n, ok)
      PROVE  MissedBound'
  BY <1>5 DEF deregister_node, Restrict
<1>6. CASE checker = "increment" /\ checker' = "remove" /\ increment_all_missed_heartbeats
  <2>1. ASSUME NEW id \in DOMAIN nodes_
        PROVE  nodes_'[id].missed_heartbeats <= max_missed_heartbeats_
    <3>1. nodes_[id].missed_heartbeats \in 0 .. (max_missed_heartbeats_ - 1)
      BY <1>6 DEF TableOK, NodeEntry
    <3>2. (nodes_[id].missed_heartbeats + 1) % CounterMod
            = nodes_[id].missed_heartbeats + 1
      BY <3>1
    <3>3. nodes_'[id].missed_heartbeats = (nodes_[id].missed_heartbeats + 1) % CounterMod
      BY <1>6 DEF increment_all_missed_heartbeats, TableOK, NodeEntry
    <3>. QED
      BY <3>1, <3>2, <3>3
  <2>. QED
    BY <1>6, <2>1 DEF increment_all_missed_heartbeats
<1>7. CASE checker = "remove" /\ remove_stale_nodes(max_missed_heartbeats_)
  BY <1>7 DEF remove_stale_nodes, StaleNodes, Restrict, TableOK, NodeEntry
<1>. QED
  BY <1>1, <1>2, <1>3, <1>4, <1>5, <1>6, <1>7 DEF TableStep

LEMMA TableInit == Init => CapacityBound /\ MissedBound
<1>. SUFFICES ASSUME Init PROVE CapacityBound /\ MissedBound
  OBVIOUS
<1>1. DOMAIN nodes_ = {}
  BY DEF Init, EmptyTable
<1>. QED
  BY <1>1, FS_EmptySet, CapacityAssumption DEF CapacityBound, MissedBound

LEMMA TableInvariant == Spec => [](TypeInv /\ Phases /\ CapacityBound /\ MissedBound)
<1>1. TypeInv /\ Phases /\ CapacityBound /\ MissedBound /\ [Next]_vars
        => CapacityBound' /\ MissedBound'
  BY TableSteps, CapacityStep, MissedStep
<1>. QED
  BY <1>1, TableInit, PhasesInvariant, PTL DEF Spec

(* The table never holds more than max_nodes_ entries.                     *)
THEOREM CapacityKept == Spec => []CapacityBound
BY TableInvariant, PTL

(* No counter ever passes the threshold, and none wraps around.            *)
THEOREM CountersBounded == Spec => []MissedBound
BY TableInvariant, PTL

-----------------------------------------------------------------------------
(* The registry implements the lease directory.                            *)

LEMMA DirectoryStep ==
    ASSUME TypeInv, CapacityBound, MissedBound, MissedBound', TypeInv', TableStep
    PROVE  [Directory!Next]_leases
<1>. USE ThresholdAssumption, CounterAssumption DEF leases
<1>1. CASE nodes_' = nodes_
  BY <1>1
<1>2. CASE nodes_' = EmptyTable /\ (main = "down" \/ main' = "down")
  <2>1. Directory!Wipe
    BY <1>2 DEF Directory!Wipe, EmptyTable
  <2>. QED
    BY <2>1 DEF Directory!Next
<1>3. ASSUME NEW info \in NodeInfo, NEW s \in Session, NEW ok \in BOOLEAN,
             info.node_id \in NodeId, register_node(info, s, ok), nodes_' # nodes_,
             main # "down"
      PROVE  Directory!Grant(info.node_id)
  <2>. DEFINE n == info.node_id
  <2>1. /\ ok /\ ~TableFull /\ n \notin DOMAIN nodes_
        /\ DOMAIN nodes_' = DOMAIN nodes_ \cup {n}
        /\ nodes_'[n].session_id = s
        /\ nodes_'[n].missed_heartbeats = 0
        /\ \A m \in DOMAIN nodes_ : m # n /\ nodes_'[m] = nodes_[m]
    BY <1>3 DEF register_node, has_node
  <2>2. Cardinality(DOMAIN nodes_) < max_nodes_
    BY <2>1, FS_CardinalityType, CapacityAssumption DEF TableFull, CapacityBound
  <2>3. \A id \in DOMAIN nodes_' :
           /\ nodes_'[id].session_id \in Session
           /\ max_missed_heartbeats_ - nodes_'[id].missed_heartbeats
                \in 0 .. max_missed_heartbeats_
    BY DEF TypeInv, TypeOK, TableOK, NodeEntry, MissedBound
  <2>4. leases' \in [DOMAIN nodes_ \cup {n} -> [owner : Session, credit : 0 .. max_missed_heartbeats_]]
    BY <2>1, <2>3
  <2>5. leases'[n].credit = max_missed_heartbeats_
    BY <2>1
  <2>6. \A m \in DOMAIN nodes_ : leases'[m] = leases[m]
    BY <2>1
  <2>7. DOMAIN leases = DOMAIN nodes_
    OBVIOUS
  <2>8. Directory!Cardinality(DOMAIN leases) = Cardinality(DOMAIN leases)
    BY DEF Directory!Cardinality, Cardinality
  <2>. QED
    BY <1>3, <2>1, <2>2, <2>4, <2>5, <2>6, <2>7, <2>8 DEF Directory!Grant, Directory!Lease
<1>4. ASSUME NEW n \in Id, NEW ok \in BOOLEAN, update_heartbeat(n, ok), nodes_' # nodes_
      PROVE  n \in NodeId /\ Directory!Renew(n)
  <2>1. n \in DOMAIN nodes_ /\ n \in NodeId
    BY <1>4 DEF update_heartbeat, TypeInv, TypeOK, TableOK, KeyedByOwner
  <2>2. /\ DOMAIN nodes_' = DOMAIN nodes_
        /\ \A m \in DOMAIN nodes_ :
             /\ nodes_'[m].session_id = nodes_[m].session_id
             /\ nodes_'[m].missed_heartbeats =
                  IF m = n THEN 0 ELSE nodes_[m].missed_heartbeats
    BY <1>4 DEF update_heartbeat, TypeInv, TypeOK, TableOK, NodeEntry
  <2>3. leases' = [m \in DOMAIN leases |->
                    [owner  |-> leases[m].owner,
                     credit |-> IF m = n THEN max_missed_heartbeats_ ELSE leases[m].credit]]
    BY <2>1, <2>2
  <2>. QED
    BY <2>1, <2>3 DEF Directory!Renew
<1>5. ASSUME NEW n \in Deregistering, NEW ok \in BOOLEAN, deregister_node(n, ok), nodes_' # nodes_
      PROVE  n \in NodeId /\ Directory!Release(n)
  <2>1. n \in DOMAIN nodes_ /\ n \in NodeId
    BY <1>5 DEF deregister_node, Restrict, TypeInv, TypeOK, TableOK, KeyedByOwner
  <2>. QED
    BY <1>5, <2>1 DEF deregister_node, Directory!Release, Restrict, Directory!Restrict
<1>6. CASE checker = "increment" /\ checker' = "remove" /\ increment_all_missed_heartbeats
  <2>1. \A id \in DOMAIN nodes_ :
           nodes_[id].missed_heartbeats \in 0 .. (max_missed_heartbeats_ - 1)
    BY <1>6 DEF TypeInv, TypeOK, TableOK, NodeEntry, MissedBound
  <2>2. /\ DOMAIN nodes_' = DOMAIN nodes_
        /\ \A id \in DOMAIN nodes_ :
             /\ nodes_'[id].session_id = nodes_[id].session_id
             /\ nodes_'[id].missed_heartbeats
                  = (nodes_[id].missed_heartbeats + 1) % CounterMod
    BY <1>6 DEF increment_all_missed_heartbeats, TypeInv, TypeOK, TableOK, NodeEntry
  <2>3. \A id \in DOMAIN nodes_ :
           nodes_'[id].missed_heartbeats = nodes_[id].missed_heartbeats + 1
    BY <2>1, <2>2
  <2>4. \A id \in DOMAIN nodes_ : leases[id].credit > 0 /\ leases'[id].credit = leases[id].credit - 1
    BY <2>1, <2>2, <2>3
  <2>5. leases' = [id \in DOMAIN leases |-> [leases[id] EXCEPT !.credit = @ - 1]]
    BY <2>2, <2>4
  <2>6. Directory!Age
    BY <2>4, <2>5 DEF Directory!Age
  <2>. QED
    BY <2>6 DEF Directory!Next
<1>7. CASE checker = "remove" /\ remove_stale_nodes(max_missed_heartbeats_)
  <2>1. \A id \in DOMAIN nodes_ :
           id \in StaleNodes(max_missed_heartbeats_) <=> ~(leases[id].credit > 0)
    BY DEF StaleNodes, TypeInv, TypeOK, TableOK, NodeEntry
  <2>2. DOMAIN nodes_' = {id \in DOMAIN leases : leases[id].credit > 0}
    BY <1>7, <2>1 DEF remove_stale_nodes, Restrict, StaleNodes
  <2>3. leases' = [id \in {i \in DOMAIN leases : leases[i].credit > 0} |-> leases[id]]
    BY <1>7, <2>2 DEF remove_stale_nodes, Restrict
  <2>4. Directory!Expire
    BY <2>3 DEF Directory!Expire, Directory!Restrict
  <2>. QED
    BY <2>4 DEF Directory!Next
<1>. QED
  BY <1>1, <1>2, <1>3, <1>4, <1>5, <1>6, <1>7 DEF TableStep, Directory!Next

(* Every step of the registry process is a step of the lease directory, or *)
(* leaves the directory alone.                                             *)
THEOREM Refinement == Spec => ImplementsDirectory
<1>1. Init => Directory!Init
  BY DEF Init, EmptyTable, leases, Directory!Init
<1>2. TypeInv /\ Phases /\ CapacityBound /\ MissedBound
      /\ TypeInv' /\ MissedBound' /\ [Next]_vars
        => [Directory!Next]_leases
  BY TableSteps, DirectoryStep
<1>. QED
  BY <1>1, <1>2, TableInvariant, PTL DEF Spec, ImplementsDirectory, Directory!Spec

-----------------------------------------------------------------------------
(* Shutdown() and the Register calls that race with it.                    *)

LEMMA LateStep == TypeInv /\ Phases /\ LateInv /\ [Next]_vars => LateInv'
<1>. SUFFICES ASSUME TypeInv, Phases, LateInv, [Next]_vars PROVE LateInv'
  OBVIOUS
<1>. USE DEF TypeInv, TypeOK, LateInv, NoLateRegistration, InFlight,
             mainVars, checkerVars, callVars
<1>1. CASE Construct
  <2>1. \A c \in Call : ~InFlight(c)
    BY <1>1 DEF Construct, Phases
  <2>. QED
    BY <1>1, <2>1 DEF Construct
<1>2. CASE ProcessDies
  BY <1>2 DEF ProcessDies, Answer
<1>3. CASE BuildAndStart \/ StartChecker \/ LeaveWait \/ ServiceShutdown
             \/ ServerShutdown \/ ServerWait \/ StopChecker \/ JoinChecker
             \/ Destroy \/ signal_handler
  BY <1>3 DEF BuildAndStart, StartChecker, LeaveWait, ServiceShutdown,
              ServerShutdown, ServerWait, StopChecker, JoinChecker, Destroy,
              signal_handler
<1>4. CASE run_loop
  BY <1>4 DEF run_loop, LoopTest, Wake, Increment, RemoveStale
<1>5. ASSUME NEW c \in Call, NEW req \in Requests, Arrive(c, req)
      PROVE  LateInv'
  BY <1>5 DEF Arrive
<1>6. ASSUME NEW c \in Call, RegisterRefused(c)
      PROVE  LateInv'
  BY <1>6 DEF RegisterRefused, Serves, Finish, Answer
<1>7. ASSUME NEW c \in Call, RegisterAdmitted(c)
      PROVE  LateInv'
  BY <1>7 DEF RegisterAdmitted, Serves
<1>8. ASSUME NEW c \in Call, RegisterInsert(c)
      PROVE  LateInv'
  <2>1. request[c].method = "Register" /\ ~late[c]
    BY <1>8 DEF RegisterInsert, PendingOK, RegisterRequest
  <2>. QED
    BY <1>8, <2>1 DEF RegisterInsert, Finish
<1>9. ASSUME NEW c \in Call, Heartbeat(c) \/ Deregister(c) \/ Discover(c)
      PROVE  LateInv'
  <2>1. request[c].method # "Register" /\ \E answer : Finish(c, answer)
    BY <1>9 DEF Heartbeat, Deregister, Discover, Serves
  <2>. QED
    BY <2>1 DEF Finish
<1>10. ASSUME NEW c \in Call, Return(c)
       PROVE  LateInv'
  BY <1>10 DEF Return, Answer
<1>11. CASE UNCHANGED vars
  BY <1>11 DEF vars
<1>. QED
  BY <1>1, <1>2, <1>3, <1>4, <1>5, <1>6, <1>7, <1>8, <1>9, <1>10, <1>11
     DEF Next, Main, Handle, Crash, ServerShutdownOnNull

(* A Register that arrives after Shutdown() never gets into the table.     *)
THEOREM LateRegisterRefused == Spec => []NoLateRegistration
<1>1. Init => LateInv
  BY DEF Init, LateInv, NoLateRegistration, InFlight, Answer
<1>2. LateInv => NoLateRegistration
  BY DEF LateInv
<1>. QED
  BY <1>1, <1>2, LateStep, PhasesInvariant, PTL DEF Spec

=============================================================================
