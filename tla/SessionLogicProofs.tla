------------------------- MODULE SessionLogicProofs --------------------------
(***************************************************************************)
(* The logic thread over the network engine, for every number of           *)
(* connections, IO threads and serials.  The type invariant holds always;  *)
(* the rest while no serial is issued a second time, that is while there   *)
(* are no more connections than serials (FewSessions).                     *)
(***************************************************************************)
EXTENDS SessionLogic, ProactorServiceProofs

FewSessions == Cardinality(Service) <= MaxIDCount

(* Services that have been registered, whether they still are or not.       *)
Registered == {s \in Service : m_serial[s] # INVALID_ID}

(* Serials are issued in the order 1, 2, 3, ... and the rest of them waits  *)
(* at the front of the queue.                                               *)
FreshInv ==
  /\ \A s \in Registered : m_serial[s] <= Cardinality(Registered)
  /\ \A s, u \in Registered : m_serial[s] = m_serial[u] => s = u
  /\ \A i \in 1..(MaxIDCount - Cardinality(Registered)) :
       i \in DOMAIN m_idleIdQueue /\ m_idleIdQueue[i] = Cardinality(Registered) + i

(* The session service exists from create to delservice, and a registered   *)
(* session has not lost it.                                                 *)
ProtocolInv ==
  /\ \A s \in Service : object[s] = "unborn" => m_pSessionService[s] = "unset"
  /\ \A t \in IOThread : pc[t] \in EarlyLabels \cup {"create"} => m_pSessionService[at[t]] = "unset"
  /\ \A t \in IOThread : pc[t] = "connect" => m_pSessionService[at[t]] = "alive"
  /\ \A id \in Serial : m_IDMap[id] # NoService => m_pSessionService[m_IDMap[id]] # "deleted"

(* The logic has not been told of s yet; s has been announced and its end   *)
(* has not.                                                                 *)
Silent(s) == object[s] = "unborn" \/ \E t \in IOThread : at[t] = s /\ pc[t] \in SilentLabels
Open(s)   == read[s] \/ \E t \in IOThread : at[t] = s /\ pc[t] \in OpenedLabels

(* What the queue holds of s, and whether s has a player.                   *)
Has(s, type) == \E i \in DOMAIN logicGateway : logicGateway[i].from = s /\ logicGateway[i].type = type
Knows(s)     == \E id \in Serial : m_PlayerMap[id] = s

(* Packets and players carry the serial of their session.                   *)
SerialInv ==
  /\ \A i \in DOMAIN logicGateway :
       logicGateway[i].serial \in Serial /\ logicGateway[i].serial = m_serial[logicGateway[i].from]
  /\ \A id \in Serial : m_PlayerMap[id] # NoService => m_serial[m_PlayerMap[id]] = id

(* What is left of the session protocol when the logic has popped a part.   *)
QueueInv ==
  \A i \in DOMAIN logicGateway, s \in Service : logicGateway[i].from = s =>
    /\ logicGateway[i].type = "CONNECT" =>
         ~Knows(s) /\ \A j \in DOMAIN logicGateway : j < i => logicGateway[j].from # s
    /\ logicGateway[i].type # "CONNECT" =>
         \/ Knows(s)
         \/ \E j \in DOMAIN logicGateway :
              j < i /\ logicGateway[j].from = s /\ logicGateway[j].type = "CONNECT"
    /\ logicGateway[i].type = "DISCONNECT" =>
         \A j \in DOMAIN logicGateway : j > i => logicGateway[j].from # s

(* What the logic knows, or is about to, of a session in each phase.        *)
PhaseInv ==
  \A s \in Service :
    /\ Silent(s) \/ m_pSessionService[s] = "unset" => ~Told(s) /\ ~Knows(s)
    /\ Open(s) => (Knows(s) \/ Has(s, "CONNECT")) /\ ~Has(s, "DISCONNECT")
    /\ Knows(s) \/ Has(s, "CONNECT") => Open(s) \/ Has(s, "DISCONNECT")

LogicInv ==
  /\ FreshInv /\ ProtocolInv /\ SerialInv /\ QueueInv /\ PhaseInv
  /\ ReceivedByOwner /\ NoAssertFails

-----------------------------------------------------------------------------
(* The logic's step takes the head of the queue, SendToPlayer leaves it.    *)
LEMMA LogicKeepsQueueType ==
  ASSUME SessionLogicTypeOK, LogicStep \/ \E id \in Serial : SendToPlayer(id)
  PROVE  /\ logicGateway' \in Seq(Packet)
         /\ UNCHANGED <<idMapVars, sessionVars, pc, at, disconnecting>>
<1>1. CASE LogicStep
  <2>1. /\ logicGateway # <<>> /\ logicGateway' = Tail(logicGateway)
        /\ UNCHANGED <<idMapVars, sessionVars, pc, at, disconnecting>>
    BY <1>1 DEF LogicStep, OnConnectPlayer, OnPlayerData, OnDisconnectPlayer, Pops, NetworkUnchanged
  <2> QED BY <2>1 DEF SessionLogicTypeOK, ServiceTypeOK
<1>2. CASE \E id \in Serial : SendToPlayer(id)
  <2>1. /\ UNCHANGED logicGateway
        /\ UNCHANGED <<idMapVars, sessionVars, pc, at, disconnecting>>
    BY <1>2 DEF SendToPlayer, NetworkUnchanged
  <2> QED BY <2>1 DEF SessionLogicTypeOK, ServiceTypeOK
<1> QED BY <1>1, <1>2

(* SendRequest adds a player to what the session under the serial received. *)
LEMMA SendRequestType ==
  ASSUME SessionLogicTypeOK, NEW id, NEW p \in Service, SendRequest(id, p)
  PROVE  received' \in [Service -> SUBSET Service]
<1>1. Get(id) \in Service \cup {NoService}
  BY DEF Get, SessionLogicTypeOK, ServiceTypeOK, IDMapTypeOK
<1>2. CASE Get(id) # NoService /\ m_pSessionService[Get(id)] = "alive"
  <2>1. PICK q \in Service : q = Get(id)
    BY <1>1, <1>2
  <2>2. received' = [received EXCEPT ![q] = received[q] \cup {p}]
    BY <1>2, <2>1 DEF SendRequest
  <2> QED BY <2>2 DEF SessionLogicTypeOK
<1>3. CASE ~(Get(id) # NoService /\ m_pSessionService[Get(id)] = "alive")
  BY <1>3 DEF SendRequest, SessionLogicTypeOK
<1> QED BY <1>2, <1>3

(* The head of the queue is a packet of some session.                       *)
LEMMA HeadFacts ==
  ASSUME logicGateway \in Seq(Packet), logicGateway # <<>>
  PROVE  /\ Head(logicGateway) = logicGateway[1] /\ 1 \in DOMAIN logicGateway
         /\ Head(logicGateway).from \in Service /\ Head(logicGateway).serial \in Serial \cup {INVALID_ID}
<1>1. Head(logicGateway) = logicGateway[1] /\ 1 \in DOMAIN logicGateway /\ logicGateway[1] \in Packet
  OBVIOUS
<1> QED BY <1>1 DEF Packet

(* The network's invariants, with the logic thread beside it.               *)
NetworkInv == SessionLogicTypeOK /\ ServiceInv /\ LifeInv

LEMMA NetworkInitInv == SessionLogicInit => NetworkInv
BY ServiceInitInv DEF SessionLogicInit, NetworkInv, SessionLogicTypeOK, ServiceInv

LEMMA NetworkNextInv == NetworkInv /\ [SessionLogicNext]_sessionLogicVars => NetworkInv'
<1> SUFFICES ASSUME NetworkInv, [SessionLogicNext]_sessionLogicVars PROVE NetworkInv'
  OBVIOUS
<1>t. /\ SessionLogicTypeOK /\ ServiceInv /\ LifeInv
      /\ m_PlayerMap \in [Serial -> Service \cup {NoService}]
      /\ assertFailed \in BOOLEAN /\ received \in [Service -> SUBSET Service]
  BY DEF NetworkInv, SessionLogicTypeOK
<1>1. ASSUME NEW t \in IOThread, NEW s \in Service, IOThreadStep(t, s), UNCHANGED logicVars
      PROVE  NetworkInv'
  <2>1. ServiceInv' /\ LifeInv'
    BY <1>t, <1>1, StepKeepsInv, StepKeepsLife DEF ServiceInv
  <2> QED BY <1>t, <1>1, <2>1 DEF NetworkInv, SessionLogicTypeOK, logicVars, ServiceInv
<1>2. ASSUME LogicStep \/ \E id \in Serial : SendToPlayer(id) PROVE ServiceInv' /\ LifeInv'
  BY <1>t, <1>2, LogicKeepsQueueType, OthersKeepInv
<1>h. logicGateway # <<>> =>
        Head(logicGateway).from \in Service /\ Head(logicGateway).serial \in Serial \cup {INVALID_ID}
  BY <1>t, HeadFacts DEF SessionLogicTypeOK, ServiceTypeOK
<1>3. CASE OnConnectPlayer
  <2>1. received' \in [Service -> SUBSET Service]
    BY <1>t, <1>h, <1>3, SendRequestType DEF OnConnectPlayer, Pops
  <2>2. m_PlayerMap' \in [Serial -> Service \cup {NoService}] /\ UNCHANGED assertFailed
    BY <1>t, <1>h, <1>3 DEF OnConnectPlayer, Pops
  <2>3. ServiceInv' /\ LifeInv'
    BY <1>2, <1>3 DEF LogicStep
  <2> QED BY <1>t, <2>1, <2>2, <2>3 DEF NetworkInv, SessionLogicTypeOK, ServiceInv
<1>4. CASE OnPlayerData
  <2>1. UNCHANGED <<m_PlayerMap, received>> /\ assertFailed' \in BOOLEAN
    BY <1>t, <1>4 DEF OnPlayerData, UnknownPlayer, logicVars
  <2>2. ServiceInv' /\ LifeInv'
    BY <1>2, <1>4 DEF LogicStep
  <2> QED BY <1>t, <2>1, <2>2 DEF NetworkInv, SessionLogicTypeOK, ServiceInv
<1>5. CASE OnDisconnectPlayer
  <2>1. /\ m_PlayerMap' \in [Serial -> Service \cup {NoService}]
        /\ UNCHANGED received /\ assertFailed' \in BOOLEAN
    BY <1>t, <1>5 DEF OnDisconnectPlayer, UnknownPlayer
  <2>2. ServiceInv' /\ LifeInv'
    BY <1>2, <1>5 DEF LogicStep
  <2> QED BY <1>t, <2>1, <2>2 DEF NetworkInv, SessionLogicTypeOK, ServiceInv
<1>6. ASSUME NEW id \in Serial, SendToPlayer(id) PROVE NetworkInv'
  <2>1. received' \in [Service -> SUBSET Service] /\ UNCHANGED <<m_PlayerMap, assertFailed>>
    BY <1>t, <1>6, SendRequestType DEF SendToPlayer
  <2>2. ServiceInv' /\ LifeInv'
    BY <1>2, <1>6
  <2> QED BY <1>t, <2>1, <2>2 DEF NetworkInv, SessionLogicTypeOK, ServiceInv
<1>7. CASE UNCHANGED sessionLogicVars
  <2>1. logicGateway' \in Seq(Packet)
    BY <1>t, <1>7 DEF sessionLogicVars, serviceVars, SessionLogicTypeOK, ServiceTypeOK
  <2>2. ServiceInv' /\ LifeInv'
    BY <1>t, <1>7, <2>1, OthersKeepInv DEF sessionLogicVars, serviceVars
  <2> QED BY <1>t, <1>7, <2>2 DEF NetworkInv, SessionLogicTypeOK, ServiceInv, sessionLogicVars, logicVars
<1> QED BY <1>1, <1>3, <1>4, <1>5, <1>6, <1>7 DEF SessionLogicNext, LogicStep

LEMMA NetworkInvariant == SessionLogicSpec => []NetworkInv
BY NetworkInitInv, NetworkNextInv, PTL DEF SessionLogicSpec

(* The variables of the logic thread keep their types, for every number of  *)
(* sessions and serials.                                                    *)
THEOREM SessionLogicTypeCorrect == SessionLogicSpec => []SessionLogicTypeOK
<1>1. NetworkInv => SessionLogicTypeOK
  BY DEF NetworkInv
<1> QED BY <1>1, NetworkInvariant, PTL

-----------------------------------------------------------------------------
(* Before its CONNECT a session moves towards it, and never back.           *)
LEMMA StaysSpoken ==
  ASSUME NetworkInv, NEW t \in IOThread, NEW s \in Service, IOThreadStep(t, s)
  PROVE  \A x \in Service : Silent(x)' => Silent(x)
<1> USE IDMapAssumption DEF Silent, SilentLabels, EarlyLabels
<1>t. /\ object \in [Service -> {"unborn", "alive", "deleted"}]
      /\ pc \in [IOThread -> Labels] /\ at \in [IOThread -> Service \cup {NoService}]
  BY DEF NetworkInv, ServiceInv, ServiceTypeOK
<1>1. CASE Accept(t, s)
  BY <1>t, <1>1 DEF Accept, Start
<1>2. CASE OpenStreams(t, s)
  BY <1>t, <1>2 DEF OpenStreams, Stands, Delete, Finish, Goto
<1>3. CASE CheckLimit(t, s) \/ OnConnect(t, s) \/ OnDisconnect(t, s) \/ UnregisterService(t, s)
  BY <1>t, <1>3 DEF CheckLimit, OnConnect, OnDisconnect, UnregisterService, Stands, Goto, sessionVars
<1>4. CASE Reject(t, s) \/ DeleteService(t, s)
  BY <1>t, <1>4 DEF Reject, DeleteService, Stands, Delete, Finish
<1>5. CASE RegisterService(t, s) \/ RegisterTimer(t, s) \/ CreateSessionService(t, s)
  BY <1>t, <1>5 DEF RegisterService, RegisterTimer, CreateSessionService, Stands, Goto
<1>6. CASE PostRecv(t, s)
  BY <1>t, <1>6 DEF PostRecv, Stands, Goto, Finish
<1>7. CASE ReadCompletes(t, s) \/ TimerExpires(t, s)
  BY <1>t, <1>7 DEF ReadCompletes, TimerExpires, Start, sessionVars
<1>8. CASE OnReceive(t, s)
  BY <1>t, <1>8 DEF OnReceive, Stands, Goto, sessionVars
<1>9. CASE CloseSocket(t, s) \/ InvalidateHandle(t, s) \/ DeleteSessionService(t, s)
  BY <1>t, <1>9 DEF CloseSocket, InvalidateHandle, DeleteSessionService, Stands, Goto
<1>10. CASE SetCloseFlag(t, s) \/ CheckClosed(t, s)
  BY <1>t, <1>10 DEF SetCloseFlag, CheckClosed, Stands, Goto, Finish
<1> QED BY <1>1, <1>2, <1>3, <1>4, <1>5, <1>6, <1>7, <1>8, <1>9, <1>10 DEF IOThreadStep, HandlerStep

(* Only OnConnect opens a session and only OnDisconnect ends it.            *)
LEMMA StaysOpen ==
  ASSUME NetworkInv, NEW t \in IOThread, NEW s \in Service, IOThreadStep(t, s),
         ~OnConnect(t, s), ~OnDisconnect(t, s)
  PROVE  \A x \in Service : Open(x)' <=> Open(x)
<1> USE IDMapAssumption DEF Open, OpenedLabels
<1>t. /\ read \in [Service -> BOOLEAN]
      /\ pc \in [IOThread -> Labels] /\ at \in [IOThread -> Service \cup {NoService}]
      /\ \A u \in IOThread : pc[u] = "idle" <=> at[u] = NoService
  BY DEF NetworkInv, ServiceInv, ServiceTypeOK, ThreadInv
<1>1. CASE Accept(t, s)
  BY <1>t, <1>1 DEF Accept, Start
<1>2. CASE OpenStreams(t, s)
  BY <1>t, <1>2 DEF OpenStreams, Stands, Delete, Finish, Goto
<1>3. CASE CheckLimit(t, s)
  BY <1>t, <1>3 DEF CheckLimit, Stands, Goto, sessionVars
<1>4. CASE Reject(t, s) \/ DeleteService(t, s)
  BY <1>t, <1>4 DEF Reject, DeleteService, Stands, Delete, Finish
<1>5. CASE RegisterService(t, s) \/ RegisterTimer(t, s) \/ CreateSessionService(t, s)
  BY <1>t, <1>5 DEF RegisterService, RegisterTimer, CreateSessionService, Stands, Goto
<1>6. CASE PostRecv(t, s)
  <2>1. CASE read' = [read EXCEPT ![s] = TRUE] /\ Finish(t)
    BY <1>t, <1>6, <2>1 DEF PostRecv, Stands, Finish
  <2>2. CASE Goto(t, "unregister") /\ UNCHANGED read
    BY <1>t, <1>6, <2>2 DEF PostRecv, Stands, Goto
  <2> QED BY <1>6, <2>1, <2>2 DEF PostRecv
<1>7. CASE ReadCompletes(t, s)
  BY <1>t, <1>7 DEF ReadCompletes, Start
<1>8. CASE TimerExpires(t, s)
  BY <1>t, <1>8 DEF TimerExpires, Start, sessionVars
<1>9. CASE OnReceive(t, s)
  BY <1>t, <1>9 DEF OnReceive, Stands, Goto, sessionVars
<1>10. CASE UnregisterService(t, s)
  BY <1>t, <1>10 DEF UnregisterService, Stands, Goto, sessionVars
<1>11. CASE CloseSocket(t, s) \/ InvalidateHandle(t, s) \/ DeleteSessionService(t, s)
  BY <1>t, <1>11 DEF CloseSocket, InvalidateHandle, DeleteSessionService, Stands, Goto
<1>12. CASE SetCloseFlag(t, s) \/ CheckClosed(t, s)
  BY <1>t, <1>12 DEF SetCloseFlag, CheckClosed, Stands, Goto, Finish
<1> QED
  BY <1>1, <1>2, <1>3, <1>4, <1>5, <1>6, <1>7, <1>8, <1>9, <1>10, <1>11, <1>12
  DEF IOThreadStep, HandlerStep

LEMMA OnConnectOpens ==
  ASSUME NetworkInv, NEW t \in IOThread, NEW s \in Service, OnConnect(t, s)
  PROVE  /\ Silent(s) /\ ~Silent(s)' /\ Open(s)'
         /\ \A x \in Service : x # s => (Open(x)' <=> Open(x))
<1>1. /\ at[t] = s /\ pc[t] = "connect" /\ pc' = [pc EXCEPT ![t] = "recv"]
      /\ UNCHANGED <<at, object, read>>
  BY DEF OnConnect, Stands, Goto, sessionVars
<1>2. /\ pc \in [IOThread -> Labels] /\ object[s] # "unborn"
      /\ \A u \in IOThread : at[u] = s /\ pc[u] \notin ExpiryLabels => u = t
  <2>1. object[s] # "unborn"
    BY <1>1 DEF NetworkInv, LifeInv, NoUseAfterFree
  <2> QED BY <1>1, <2>1 DEF NetworkInv, ServiceInv, ServiceTypeOK, HandlerInv, Handles, ExpiryLabels
<1> QED BY <1>1, <1>2 DEF Silent, Open, SilentLabels, EarlyLabels, OpenedLabels, ExpiryLabels

LEMMA OnDisconnectEnds ==
  ASSUME NetworkInv, NEW t \in IOThread, NEW s \in Service, OnDisconnect(t, s)
  PROVE  /\ Open(s) /\ ~Open(s)'
         /\ \A x \in Service : x # s => (Open(x)' <=> Open(x))
<1>1. /\ at[t] = s /\ pc[t] = "disconnect" /\ pc' = [pc EXCEPT ![t] = "delservice"]
      /\ UNCHANGED <<at, object, read>>
  BY DEF OnDisconnect, Stands, Goto, sessionVars
<1>2. /\ pc \in [IOThread -> Labels] /\ ~read[s]
      /\ \A u \in IOThread : at[u] = s /\ pc[u] \notin ExpiryLabels => u = t
  BY <1>1 DEF NetworkInv, ServiceInv, ServiceTypeOK, HandlerInv, Handles, ExpiryLabels
<1> QED BY <1>1, <1>2 DEF Open, OpenedLabels, ExpiryLabels

-----------------------------------------------------------------------------
(* What steps of IO threads do to serials, session services and the queue.  *)
LEMMA IOThreadEffects ==
  ASSUME NetworkInv, NEW t \in IOThread, NEW s \in Service, IOThreadStep(t, s)
  PROVE  /\ \/ UNCHANGED m_serial
            \/ RegisterService(t, s)
         /\ \/ UNCHANGED m_pSessionService
            \/ CreateSessionService(t, s)
            \/ DeleteSessionService(t, s)
         /\ \/ UNCHANGED idMapVars
            \/ RegisterService(t, s)
            \/ UnregisterService(t, s)
         /\ \/ UNCHANGED logicGateway
            \/ OnConnect(t, s)
            \/ OnReceive(t, s) /\ \E id \in SerialReadFrom(s) : Dispatch("DATA", id, s)
            \/ OnDisconnect(t, s)
BY DEF IOThreadStep, HandlerStep, Accept, OpenStreams, CheckLimit, Reject, RegisterService, RegisterTimer,
       CreateSessionService, OnConnect, PostRecv, ReadCompletes, OnReceive, UnregisterService,
       CloseSocket, InvalidateHandle, OnDisconnect, DeleteSessionService, SetCloseFlag,
       TimerExpires, CheckClosed, DeleteService, sessionVars

-----------------------------------------------------------------------------
(* How many sessions have been registered.                                  *)
LEMMA RegisteredFacts ==
  ASSUME NetworkInv
  PROVE  /\ Cardinality(Registered) \in Nat
         /\ \A s \in Service : s \notin Registered =>
              /\ Cardinality(Registered \cup {s}) = Cardinality(Registered) + 1
              /\ FewSessions => Cardinality(Registered) < MaxIDCount
<1>1. /\ IsFiniteSet(Registered) /\ Cardinality(Registered) \in Nat
      /\ Cardinality(Service) \in Nat /\ MaxIDCount \in Nat
  BY ServiceAssumption, IDMapAssumption, FS_Subset, FS_CardinalityType DEF Registered
<1>2. ASSUME NEW s \in Service, s \notin Registered
      PROVE  /\ Cardinality(Registered \cup {s}) = Cardinality(Registered) + 1
             /\ FewSessions => Cardinality(Registered) < MaxIDCount
  <2>1. Cardinality(Registered \cup {s}) = Cardinality(Registered) + 1
    BY <1>1, <1>2, FS_AddElement
  <2>2. Registered \cup {s} \subseteq Service
    BY DEF Registered
  <2>3. Cardinality(Registered \cup {s}) <= Cardinality(Service)
    BY <2>2, ServiceAssumption, FS_Subset
  <2> QED BY <1>1, <2>1, <2>3 DEF FewSessions
<1> QED BY <1>1, <1>2

(* Register takes the next number, UnRegister puts the old one behind all   *)
(* that have not been issued.                                               *)
LEMMA StepKeepsFresh ==
  ASSUME FewSessions, NetworkInv, FreshInv, NEW t \in IOThread, NEW s \in Service, IOThreadStep(t, s)
  PROVE  FreshInv'
<1>t. /\ IDMapTypeOK /\ PoolInv /\ m_serial \in [Service -> Serial \cup {INVALID_ID}]
      /\ m_idleIdQueue \in Seq(Serial)
  BY DEF NetworkInv, ServiceInv, ServiceTypeOK, PoolInv, IDMapTypeOK
<1>n. PICK n \in Nat : n = Cardinality(Registered)
  BY RegisteredFacts
<1>f. /\ \A x \in Registered : m_serial[x] <= n
      /\ \A x, u \in Registered : m_serial[x] = m_serial[u] => x = u
      /\ \A i \in 1..(MaxIDCount - n) : i \in DOMAIN m_idleIdQueue /\ m_idleIdQueue[i] = n + i
  BY <1>n DEF FreshInv
<1>1. CASE UNCHANGED <<m_serial, idMapVars>>
  BY <1>1 DEF FreshInv, Registered, idMapVars
<1>2. CASE UnregisterService(t, s)
  <2>1. UNCHANGED m_serial /\ Registered' = Registered
    BY <1>2 DEF UnregisterService, sessionVars, Registered
  <2>2. \/ UNCHANGED m_idleIdQueue
        \/ \E id \in Serial : m_idleIdQueue' = Append(m_idleIdQueue, id)
    <3>1. PICK id : UnRegister(id)
      BY <1>2 DEF UnregisterService
    <3> QED BY <3>1 DEF UnRegister, Push, Get, idMapVars
  <2>3. \A i \in DOMAIN m_idleIdQueue : i \in DOMAIN m_idleIdQueue' /\ m_idleIdQueue'[i] = m_idleIdQueue[i]
    BY <1>t, <2>2, AppendToQueue
  <2> QED BY <1>n, <1>f, <2>1, <2>3 DEF FreshInv
<1>3. CASE RegisterService(t, s)
  <2>1. PICK id \in Serial \cup {INVALID_ID} : Register(s, id) /\ m_serial' = [m_serial EXCEPT ![s] = id]
    BY <1>3 DEF RegisterService
  <2>2. s \notin Registered
    <3>1. pc[t] = "register" /\ at[t] = s
      BY <1>3 DEF RegisterService, Stands
    <3> QED BY <3>1 DEF NetworkInv, ServiceInv, RegistryInv, EarlyLabels, Registered
  <2>3. n < MaxIDCount /\ Cardinality(Registered \cup {s}) = n + 1 /\ MaxIDCount \in Nat
    BY <1>n, <2>2, RegisteredFacts, IDMapAssumption
  <2>4. 1 \in DOMAIN m_idleIdQueue /\ m_idleIdQueue[1] = n + 1
    BY <1>f, <2>3
  <2>5. m_idleIdQueue # <<>>
    BY <1>t, <2>4
  <2>6. id = n + 1 /\ m_idleIdQueue' = Tail(m_idleIdQueue) /\ id # INVALID_ID
    BY <1>t, <2>1, <2>4, <2>5, TailOfQueue DEF Register, INVALID_ID
  <2>7. \A x \in Service : m_serial'[x] = IF x = s THEN n + 1 ELSE m_serial[x]
    BY <1>t, <2>1, <2>6
  <2>8. Registered' = Registered \cup {s}
    BY <2>6, <2>7 DEF Registered
  <2>9. Cardinality(Registered') = n + 1
    BY <2>3, <2>8
  <2>10. \A x \in Registered : x \in Service /\ x # s /\ m_serial'[x] = m_serial[x] /\ m_serial[x] \in Int
    BY <1>t, <2>2, <2>7, SerialFacts DEF Registered
  <2>11. \A x \in Registered' : m_serial'[x] <= n + 1
    BY <1>f, <2>7, <2>8, <2>10
  <2>12. \A x, u \in Registered' : m_serial'[x] = m_serial'[u] => x = u
    <3>1. \A x \in Registered : m_serial'[x] # n + 1
      BY <1>f, <2>10
    <3> QED BY <1>f, <2>7, <2>8, <2>10, <3>1
  <2>13. ASSUME NEW i \in 1..(MaxIDCount - (n + 1))
         PROVE  i \in DOMAIN m_idleIdQueue' /\ m_idleIdQueue'[i] = (n + 1) + i
    <3>1. i + 1 \in 1..(MaxIDCount - n)
      BY <2>3
    <3>2. i + 1 \in DOMAIN m_idleIdQueue /\ m_idleIdQueue[i + 1] = n + (i + 1)
      BY <1>f, <3>1
    <3>3. i \in 1..(Len(m_idleIdQueue) - 1)
      BY <1>t, <2>5, <3>2, TailOfQueue
    <3> QED BY <1>t, <2>5, <2>6, <3>2, <3>3, TailOfQueue
  <2> QED BY <2>9, <2>11, <2>12, <2>13 DEF FreshInv
<1> QED BY <1>1, <1>2, <1>3, IOThreadEffects DEF UnregisterService, RegisterService

(* The session service appears before CONNECT and goes after UnRegister.    *)
LEMMA StepKeepsProtocol ==
  ASSUME NetworkInv, ProtocolInv, NEW t \in IOThread, NEW s \in Service, IOThreadStep(t, s)
  PROVE  ProtocolInv'
<1>t. /\ object \in [Service -> {"unborn", "alive", "deleted"}]
      /\ m_pSessionService \in [Service -> {"unset", "alive", "deleted"}]
      /\ pc \in [IOThread -> Labels] /\ at \in [IOThread -> Service \cup {NoService}]
      /\ m_IDMap \in [Serial -> Service \cup {NoService}]
      /\ \A u \in IOThread : pc[u] = "idle" <=> at[u] = NoService
  BY DEF NetworkInv, ServiceInv, ServiceTypeOK, IDMapTypeOK, ThreadInv
<1>h. \A u, v \in IOThread : at[u] = at[v] /\ pc[u] \notin ExpiryLabels \cup {"idle"}
        /\ pc[v] \notin ExpiryLabels \cup {"idle"} => u = v
  BY <1>t DEF NetworkInv, ServiceInv, HandlerInv, Handles
<1> USE IDMapAssumption DEF ProtocolInv, EarlyLabels, ExpiryLabels, idMapVars
<1>1. CASE Accept(t, s)
  BY <1>t, <1>1 DEF Accept, Start
<1>2. CASE OpenStreams(t, s)
  BY <1>t, <1>2 DEF OpenStreams, Stands, Delete, Finish, Goto
<1>3. CASE CheckLimit(t, s) \/ OnConnect(t, s) \/ OnDisconnect(t, s)
  BY <1>t, <1>3 DEF CheckLimit, OnConnect, OnDisconnect, Stands, Goto, sessionVars
<1>4. CASE Reject(t, s) \/ DeleteService(t, s)
  BY <1>t, <1>4 DEF Reject, DeleteService, Stands, Delete, Finish
<1>5. CASE RegisterService(t, s)
  <2>1. PICK id \in Serial \cup {INVALID_ID} :
          /\ Register(s, id) /\ at[t] = s /\ pc[t] = "register"
          /\ Goto(t, IF id = INVALID_ID THEN "reject" ELSE "timer")
    BY <1>5 DEF RegisterService, Stands
  <2>2. \A x \in Serial : m_IDMap'[x] = m_IDMap[x] \/ m_IDMap'[x] = s
    <3>1. PoolInv
      BY DEF NetworkInv, ServiceInv, ServiceTypeOK, PoolInv
    <3> QED BY <1>t, <2>1, <3>1, RegisterEffect
  <2>3. UNCHANGED <<object, m_pSessionService>> /\ m_pSessionService[s] = "unset"
    BY <1>5, <2>1 DEF RegisterService
  <2> QED BY <1>t, <2>1, <2>2, <2>3 DEF Goto
<1>6. CASE RegisterTimer(t, s)
  BY <1>t, <1>6 DEF RegisterTimer, Stands, Goto
<1>7. CASE CreateSessionService(t, s)
  <2>1. /\ at[t] = s /\ pc[t] = "create" /\ pc' = [pc EXCEPT ![t] = "connect"]
        /\ m_pSessionService' = [m_pSessionService EXCEPT ![s] = "alive"]
        /\ UNCHANGED <<at, object, m_IDMap>>
    BY <1>7 DEF CreateSessionService, Stands, Goto
  <2>2. object[s] = "alive"
    BY <2>1 DEF NetworkInv, LifeInv, NoUseAfterFree
  <2> QED BY <1>t, <1>h, <2>1, <2>2
<1>8. CASE PostRecv(t, s)
  <2>1. /\ at[t] = s /\ pc[t] = "recv"
        /\ UNCHANGED <<object, m_pSessionService, m_IDMap>>
    BY <1>8 DEF PostRecv, Stands
  <2>2. CASE Finish(t)
    BY <1>t, <2>1, <2>2 DEF Finish
  <2>3. CASE Goto(t, "unregister")
    BY <1>t, <2>1, <2>3 DEF Goto
  <2> QED BY <1>8, <2>2, <2>3 DEF PostRecv
<1>9. CASE ReadCompletes(t, s) \/ TimerExpires(t, s)
  BY <1>t, <1>9 DEF ReadCompletes, TimerExpires, Start, sessionVars
<1>10. CASE OnReceive(t, s)
  BY <1>t, <1>10 DEF OnReceive, Stands, Goto, sessionVars
<1>11. CASE UnregisterService(t, s)
  <2>1. \A x \in Serial : m_IDMap'[x] = m_IDMap[x] \/ m_IDMap'[x] = NoService
    BY <1>t, <1>11, UnRegisterEffect DEF UnregisterService, IDMapTypeOK, NetworkInv, ServiceInv, ServiceTypeOK
  <2> QED BY <1>t, <1>11, <2>1 DEF UnregisterService, Stands, Goto, sessionVars
<1>12. CASE CloseSocket(t, s) \/ InvalidateHandle(t, s)
  BY <1>t, <1>12 DEF CloseSocket, InvalidateHandle, Stands, Goto
<1>13. CASE DeleteSessionService(t, s)
  <2>1. /\ at[t] = s /\ pc[t] = "delservice" /\ pc' = [pc EXCEPT ![t] = "flag"]
        /\ m_pSessionService' = [m_pSessionService EXCEPT ![s] = "deleted"]
        /\ UNCHANGED <<at, object, m_IDMap>>
    BY <1>13 DEF DeleteSessionService, Stands, Goto
  <2>2. object[s] = "alive"
    BY <2>1 DEF NetworkInv, LifeInv, NoUseAfterFree
  <2>3. \A id \in Serial : m_IDMap[id] # s
    BY <2>1, <2>2 DEF NetworkInv, ServiceInv, RegistryInv, GivenUpLabels, CloseLabels
  <2> QED BY <1>t, <1>h, <2>1, <2>2, <2>3
<1>14. CASE SetCloseFlag(t, s) \/ CheckClosed(t, s)
  BY <1>t, <1>14 DEF SetCloseFlag, CheckClosed, Stands, Goto, Finish
<1> QED
  BY <1>1, <1>2, <1>3, <1>4, <1>5, <1>6, <1>7, <1>8, <1>9, <1>10, <1>11, <1>12, <1>13, <1>14
  DEF IOThreadStep, HandlerStep

-----------------------------------------------------------------------------
(* A packet pushed behind the others.                                       *)
LEMMA DispatchKeepsQueue ==
  ASSUME NetworkInv, SerialInv, QueueInv, NEW s \in Service, NEW id \in Serial, m_serial[s] = id,
         NEW type \in {"CONNECT", "DATA", "DISCONNECT"}, Dispatch(type, id, s),
         UNCHANGED <<m_PlayerMap, m_serial>>,
         type = "CONNECT" => ~Knows(s) /\ ~Told(s),
         type # "CONNECT" => Knows(s) \/ Has(s, "CONNECT"),
         ~Has(s, "DISCONNECT")
  PROVE  /\ SerialInv' /\ QueueInv'
         /\ \A x \in Service : Told(x)' <=> Told(x) \/ x = s
         /\ \A x \in Service, y \in {"CONNECT", "DISCONNECT"} :
              Has(x, y)' <=> Has(x, y) \/ (x = s /\ y = type)
<1> DEFINE p == [type |-> type, serial |-> id, from |-> s]
<1>n. PICK n : n = Len(logicGateway)
  OBVIOUS
<1>1. /\ n \in Nat /\ DOMAIN logicGateway = 1..n /\ DOMAIN logicGateway' = 1..(n + 1)
      /\ \A i \in 1..n : logicGateway'[i] = logicGateway[i]
      /\ logicGateway'[n + 1] = p
  <2>1. p \in Packet /\ logicGateway' = Append(logicGateway, p) /\ logicGateway \in Seq(Packet)
    BY DEF Packet, Dispatch, NetworkInv, ServiceInv, ServiceTypeOK
  <2> HIDE DEF p
  <2> QED BY <1>n, <2>1
<1>2. p.type = type /\ p.from = s /\ p.serial = id
  OBVIOUS
<1>3. \A i \in 1..(n + 1) : i \in 1..n \/ i = n + 1
  BY <1>1
<1>4. 1..n \subseteq 1..(n + 1) /\ n + 1 \in 1..(n + 1) /\ \A i \in 1..n : i < n + 1 /\ i \in Nat
  BY <1>1
<1> HIDE DEF p
<1>5. \A x \in Service : Told(x)' <=> Told(x) \/ x = s
  BY <1>1, <1>2, <1>3, <1>4 DEF Told
<1>6. \A x \in Service, y \in {"CONNECT", "DISCONNECT"} : Has(x, y)' <=> Has(x, y) \/ (x = s /\ y = type)
  BY <1>1, <1>2, <1>3, <1>4 DEF Has
<1>7. SerialInv'
  BY <1>1, <1>2, <1>3 DEF SerialInv
<1>8. \A x \in Service : Knows(x)' <=> Knows(x)
  BY DEF Knows
<1>9. QueueInv'
  <2> SUFFICES ASSUME NEW i \in 1..(n + 1), NEW x \in Service, logicGateway'[i].from = x
               PROVE  /\ logicGateway'[i].type = "CONNECT" =>
                           ~Knows(x) /\ \A j \in 1..(n + 1) : j < i => logicGateway'[j].from # x
                      /\ logicGateway'[i].type # "CONNECT" =>
                           \/ Knows(x)
                           \/ \E j \in 1..(n + 1) : j < i /\ logicGateway'[j].from = x
                                                    /\ logicGateway'[j].type = "CONNECT"
                      /\ logicGateway'[i].type = "DISCONNECT" =>
                           \A j \in 1..(n + 1) : j > i => logicGateway'[j].from # x
    BY <1>1, <1>8 DEF QueueInv
  <2>1. CASE i \in 1..n
    <3>1. /\ logicGateway[i].type = "CONNECT" =>
               ~Knows(x) /\ \A j \in 1..n : j < i => logicGateway[j].from # x
          /\ logicGateway[i].type # "CONNECT" =>
               \/ Knows(x)
               \/ \E j \in 1..n : j < i /\ logicGateway[j].from = x /\ logicGateway[j].type = "CONNECT"
          /\ logicGateway[i].type = "DISCONNECT" => \A j \in 1..n : j > i => logicGateway[j].from # x
      BY <1>1, <2>1 DEF QueueInv
    <3>2. logicGateway[i].type = "DISCONNECT" => x # s
      BY <1>1, <2>1 DEF Has
    <3> QED BY <1>1, <1>2, <1>3, <1>4, <2>1, <3>1, <3>2
  <2>2. CASE i = n + 1
    <3>1. x = s /\ logicGateway'[i].type = type
      BY <1>1, <1>2, <2>2
    <3>2. \A j \in 1..(n + 1) : (j < i => j \in 1..n) /\ ~(j > i)
      BY <1>1, <2>2
    <3>3. ~Told(s) => \A j \in 1..n : logicGateway[j].from # s
      BY <1>1 DEF Told
    <3>4. Has(s, "CONNECT") =>
            \E j \in 1..n : logicGateway[j].from = s /\ logicGateway[j].type = "CONNECT"
      BY <1>1 DEF Has
    <3> QED BY <1>1, <1>4, <2>2, <3>1, <3>2, <3>3, <3>4
  <2> QED BY <1>3, <2>1, <2>2
<1> QED BY <1>5, <1>6, <1>7, <1>9

(* A step of an IO thread keeps what logic and network agree upon.          *)
LEMMA StepKeepsPhases ==
  ASSUME NetworkInv, SerialInv, QueueInv, PhaseInv, ProtocolInv,
         NEW t \in IOThread, NEW s \in Service, IOThreadStep(t, s), UNCHANGED logicVars
  PROVE  SerialInv' /\ QueueInv' /\ PhaseInv'
<1>t. /\ m_serial \in [Service -> Serial \cup {INVALID_ID}]
      /\ m_pSessionService \in [Service -> {"unset", "alive", "deleted"}]
      /\ m_PlayerMap \in [Serial -> Service \cup {NoService}]
      /\ logicGateway \in Seq(Packet)
  BY DEF NetworkInv, ServiceInv, ServiceTypeOK, SessionLogicTypeOK
<1>m. UNCHANGED m_PlayerMap /\ \A x \in Service : Knows(x)' <=> Knows(x)
  BY DEF logicVars, Knows
<1>s. \A x \in Service : Silent(x)' => Silent(x)
  BY StaysSpoken
<1>p. \A x \in Service : m_pSessionService'[x] = "unset" => m_pSessionService[x] = "unset"
  BY <1>t, IOThreadEffects DEF CreateSessionService, DeleteSessionService
<1>h. \A x \in Service, y \in {"CONNECT", "DISCONNECT"} : Has(x, y) => Told(x)
  BY DEF Has, Told
<1>r. \A x \in Service : ~Silent(x) => m_serial'[x] = m_serial[x]
  <2>1. CASE RegisterService(t, s)
    <3>1. Silent(s)
      BY <2>1 DEF RegisterService, Stands, Silent, SilentLabels, EarlyLabels
    <3> QED BY <1>t, <2>1, <3>1 DEF RegisterService
  <2> QED BY <2>1, IOThreadEffects
<1>1. CASE UNCHANGED logicGateway /\ ~OnConnect(t, s) /\ ~OnDisconnect(t, s)
  <2>1. \A x \in Service : Open(x)' <=> Open(x)
    BY <1>1, StaysOpen
  <2>2. /\ \A x \in Service : Told(x)' <=> Told(x)
        /\ \A x \in Service, y \in {"CONNECT", "DISCONNECT"} : Has(x, y)' <=> Has(x, y)
    BY <1>1 DEF Told, Has
  <2>3. SerialInv'
    <3>1. \A i \in DOMAIN logicGateway : logicGateway[i].from \in Service /\ Told(logicGateway[i].from)
      <4>1. \A i \in DOMAIN logicGateway : logicGateway[i] \in Packet
        BY <1>t
      <4>2. \A i \in DOMAIN logicGateway : logicGateway[i].from \in Service
        BY <4>1 DEF Packet
      <4> QED BY <4>2 DEF Told
    <3>2. \A i \in DOMAIN logicGateway : m_serial'[logicGateway[i].from] = m_serial[logicGateway[i].from]
      BY <1>r, <3>1 DEF PhaseInv
    <3>3. \A id \in Serial : m_PlayerMap[id] # NoService =>
            m_PlayerMap[id] \in Service /\ Knows(m_PlayerMap[id])
      BY <1>t DEF Knows
    <3>4. \A id \in Serial : m_PlayerMap[id] # NoService => m_serial'[m_PlayerMap[id]] = m_serial[m_PlayerMap[id]]
      BY <1>r, <3>3 DEF PhaseInv
    <3> QED BY <1>1, <1>m, <3>2, <3>4 DEF SerialInv
  <2>4. QueueInv'
    BY <1>1, <1>m DEF QueueInv
  <2>5. PhaseInv'
    BY <1>m, <1>s, <1>p, <2>1, <2>2 DEF PhaseInv
  <2> QED BY <2>3, <2>4, <2>5
<1>2. CASE OnConnect(t, s)
  <2>1. /\ at[t] = s /\ pc[t] = "connect" /\ UNCHANGED <<m_serial, m_pSessionService>>
        /\ \E id \in SerialReadFrom(s) : Dispatch("CONNECT", id, s)
    BY <1>2 DEF OnConnect, Stands, sessionVars
  <2>2. PICK id \in Serial : id = m_serial[s]
    BY <2>1 DEF NetworkInv, LifeInv, BoundInv, BoundLabels
  <2>3. Dispatch("CONNECT", id, s)
    BY <2>1, <2>2 DEF NetworkInv, LifeInv, NoUseAfterFree, SerialReadFrom
  <2>4. /\ Silent(s) /\ ~Silent(s)' /\ Open(s)' /\ \A x \in Service : x # s => (Open(x)' <=> Open(x))
    BY <1>2, OnConnectOpens
  <2>5. ~Knows(s) /\ ~Told(s) /\ ~Has(s, "DISCONNECT")
    BY <1>h, <2>4 DEF PhaseInv
  <2>6. /\ SerialInv' /\ QueueInv'
        /\ \A x \in Service : Told(x)' <=> Told(x) \/ x = s
        /\ \A x \in Service, y \in {"CONNECT", "DISCONNECT"} :
             Has(x, y)' <=> Has(x, y) \/ (x = s /\ y = "CONNECT")
    BY <1>m, <2>1, <2>2, <2>3, <2>5, DispatchKeepsQueue
  <2>7. m_pSessionService'[s] # "unset"
    BY <2>1 DEF ProtocolInv
  <2>8. PhaseInv'
    BY <1>m, <1>s, <1>p, <2>4, <2>5, <2>6, <2>7 DEF PhaseInv
  <2> QED BY <2>6, <2>8
<1>3. CASE OnReceive(t, s) /\ \E id \in SerialReadFrom(s) : Dispatch("DATA", id, s)
  <2>1. /\ at[t] = s /\ pc[t] = "receive" /\ UNCHANGED <<m_serial, m_pSessionService>>
    BY <1>3 DEF OnReceive, Stands, sessionVars
  <2>2. PICK id \in Serial : id = m_serial[s]
    BY <2>1 DEF NetworkInv, LifeInv, BoundInv, BoundLabels
  <2>3. Dispatch("DATA", id, s)
    BY <1>3, <2>1, <2>2 DEF NetworkInv, LifeInv, NoUseAfterFree, SerialReadFrom
  <2>4. Open(s) /\ \A x \in Service : Open(x)' <=> Open(x)
    <3>1. ~OnConnect(t, s) /\ ~OnDisconnect(t, s)
      BY <2>1 DEF OnConnect, OnDisconnect, Stands
    <3> QED BY <2>1, <3>1, StaysOpen DEF Open, OpenedLabels
  <2>5. (Knows(s) \/ Has(s, "CONNECT")) /\ ~Has(s, "DISCONNECT")
    BY <2>4 DEF PhaseInv
  <2>6. /\ SerialInv' /\ QueueInv'
        /\ \A x \in Service : Told(x)' <=> Told(x) \/ x = s
        /\ \A x \in Service, y \in {"CONNECT", "DISCONNECT"} : Has(x, y)' <=> Has(x, y)
    BY <1>m, <2>1, <2>2, <2>3, <2>5, DispatchKeepsQueue
  <2>7. Told(s) \/ Knows(s)
    BY <1>h, <2>5
  <2>8. PhaseInv'
    BY <1>m, <1>s, <1>p, <2>4, <2>5, <2>6, <2>7 DEF PhaseInv
  <2> QED BY <2>6, <2>8
<1>4. CASE OnDisconnect(t, s)
  <2>1. /\ at[t] = s /\ pc[t] = "disconnect" /\ UNCHANGED <<m_serial, m_pSessionService>>
        /\ \E id \in SerialReadFrom(s) : Dispatch("DISCONNECT", id, s)
    BY <1>4 DEF OnDisconnect, Stands, sessionVars
  <2>2. Open(s) /\ ~Open(s)' /\ \A x \in Service : x # s => (Open(x)' <=> Open(x))
    BY <1>4, OnDisconnectEnds
  <2>3. (Knows(s) \/ Has(s, "CONNECT")) /\ ~Has(s, "DISCONNECT")
    BY <2>2 DEF PhaseInv
  <2>4. PICK id \in Serial : id = m_serial[s]
    <3>1. Knows(s) => m_serial[s] \in Serial
      <4> SUFFICES ASSUME NEW id \in Serial, m_PlayerMap[id] = s PROVE m_serial[s] \in Serial
        BY DEF Knows
      <4> QED BY IDMapAssumption DEF SerialInv
    <3>2. Has(s, "CONNECT") => m_serial[s] \in Serial
      BY DEF SerialInv, Has
    <3> QED BY <2>3, <3>1, <3>2
  <2>5. Dispatch("DISCONNECT", id, s)
    BY <2>1, <2>4 DEF NetworkInv, LifeInv, NoUseAfterFree, SerialReadFrom
  <2>6. /\ SerialInv' /\ QueueInv'
        /\ \A x \in Service : Told(x)' <=> Told(x) \/ x = s
        /\ \A x \in Service, y \in {"CONNECT", "DISCONNECT"} :
             Has(x, y)' <=> Has(x, y) \/ (x = s /\ y = "DISCONNECT")
    BY <1>m, <2>1, <2>3, <2>4, <2>5, DispatchKeepsQueue
  <2>7. Told(s) \/ Knows(s)
    BY <1>h, <2>3
  <2>8. PhaseInv'
    BY <1>m, <1>s, <1>p, <2>2, <2>3, <2>6, <2>7 DEF PhaseInv
  <2> QED BY <2>6, <2>8
<1> QED BY <1>1, <1>2, <1>3, <1>4, IOThreadEffects

-----------------------------------------------------------------------------
(* A session under a serial is the session that was given the serial.       *)
LEMMA SerialsTellApart ==
  ASSUME NetworkInv, FreshInv, NEW s \in Service, NEW u \in Service, NEW id \in Serial,
         m_serial[s] = id, m_serial[u] = id
  PROVE  s = u
<1>1. s \in Registered /\ u \in Registered
  BY SerialFacts DEF Registered
<1> QED BY <1>1 DEF FreshInv

(* SendRequest goes to the session of the player.                           *)
LEMMA SendRequestReachesOwner ==
  ASSUME NetworkInv, FreshInv, ReceivedByOwner, NEW id \in Serial, NEW p \in Service, m_serial[p] = id,
         SendRequest(id, p)
  PROVE  ReceivedByOwner'
<1>1. Get(id) # NoService => Get(id) = p
  <2> SUFFICES ASSUME m_IDMap[id] # NoService PROVE m_IDMap[id] = p
    BY DEF Get
  <2>1. m_IDMap[id] \in Service /\ m_serial[m_IDMap[id]] = id
    BY DEF NetworkInv, ServiceInv, ServiceTypeOK, IDMapTypeOK, RegistryInv
  <2> QED BY <2>1, SerialsTellApart
<1>2. received \in [Service -> SUBSET Service]
  BY DEF NetworkInv, SessionLogicTypeOK
<1>3. CASE Get(id) = p
  <2>1. received' = [received EXCEPT ![p] = received[p] \cup {p}] \/ received' = received
    BY <1>3 DEF SendRequest
  <2> QED BY <1>2, <2>1 DEF ReceivedByOwner
<1>4. CASE Get(id) = NoService
  BY <1>4 DEF SendRequest, ReceivedByOwner
<1> QED BY <1>1, <1>3, <1>4

(* A packet popped from the front.                                          *)
LEMMA PopFacts ==
  ASSUME NetworkInv, SerialInv, logicGateway # <<>>, logicGateway' = Tail(logicGateway)
  PROVE  \E s \in Service, id \in Serial :
           /\ Head(logicGateway) = logicGateway[1] /\ 1 \in DOMAIN logicGateway
           /\ Head(logicGateway).from = s /\ Head(logicGateway).serial = id /\ m_serial[s] = id
           /\ \A i \in DOMAIN logicGateway' :
                i \in Nat \ {0} /\ i + 1 \in DOMAIN logicGateway /\ logicGateway'[i] = logicGateway[i + 1]
           /\ \A i \in DOMAIN logicGateway : i # 1 =>
                i \in Nat /\ i - 1 \in DOMAIN logicGateway' /\ logicGateway'[i - 1] = logicGateway[i]
           /\ \A x \in Service : Told(x)' => Told(x)
           /\ \A x \in Service, y \in {"CONNECT", "DISCONNECT"} :
                /\ Has(x, y)' => Has(x, y)
                /\ Has(x, y) => Has(x, y)' \/ (x = s /\ y = Head(logicGateway).type)
<1>t. logicGateway \in Seq(Packet)
  BY DEF NetworkInv, ServiceInv, ServiceTypeOK
<1>1. PICK s \in Service : Head(logicGateway).from = s
  BY <1>t, HeadFacts
<1>2. Head(logicGateway) = logicGateway[1] /\ 1 \in DOMAIN logicGateway
  BY <1>t, HeadFacts
<1>3. PICK id \in Serial : Head(logicGateway).serial = id /\ m_serial[s] = id
  BY <1>1, <1>2 DEF SerialInv
<1>4. /\ \A i \in DOMAIN logicGateway' :
           i \in Nat \ {0} /\ i + 1 \in DOMAIN logicGateway /\ logicGateway'[i] = logicGateway[i + 1]
      /\ \A i \in DOMAIN logicGateway : i # 1 =>
           i \in Nat /\ i - 1 \in DOMAIN logicGateway' /\ logicGateway'[i - 1] = logicGateway[i]
  <2>1. PICK n \in Nat : n = Len(logicGateway)
    BY <1>t
  <2>2. /\ DOMAIN logicGateway = 1..n /\ DOMAIN logicGateway' = 1..(n - 1)
        /\ \A i \in 1..(n - 1) : logicGateway'[i] = logicGateway[i + 1]
    BY <1>t, <2>1
  <2>3. \A i \in 1..(n - 1) : i \in Nat \ {0} /\ i + 1 \in 1..n
    OBVIOUS
  <2>4. \A i \in 1..n : i # 1 => i \in Nat /\ i - 1 \in 1..(n - 1) /\ (i - 1) + 1 = i
    OBVIOUS
  <2> QED BY <2>2, <2>3, <2>4
<1>5. \A x \in Service : Told(x)' => Told(x)
  BY <1>4 DEF Told
<1>6. \A x \in Service, y \in {"CONNECT", "DISCONNECT"} : Has(x, y)' => Has(x, y)
  BY <1>4 DEF Has
<1>7. ASSUME NEW x \in Service, NEW y \in {"CONNECT", "DISCONNECT"}, Has(x, y),
             ~(x = s /\ y = Head(logicGateway).type)
      PROVE  Has(x, y)'
  <2>1. PICK i \in DOMAIN logicGateway : logicGateway[i].from = x /\ logicGateway[i].type = y
    BY <1>7 DEF Has
  <2>2. i # 1
    BY <1>1, <1>2, <1>7, <2>1
  <2> QED BY <1>4, <2>1, <2>2 DEF Has
<1> QED BY <1>1, <1>2, <1>3, <1>4, <1>5, <1>6, <1>7

(* What is left of the queue when the logic has dealt with its head: it has *)
(* a player for s now, or nothing of s is left.                             *)
LEMMA PopKeepsQueue ==
  ASSUME QueueInv, NEW s \in Service, 1 \in DOMAIN logicGateway, logicGateway[1].from = s,
         \A i \in DOMAIN logicGateway' :
           i \in Nat \ {0} /\ i + 1 \in DOMAIN logicGateway /\ logicGateway'[i] = logicGateway[i + 1],
         \A i \in DOMAIN logicGateway : i # 1 =>
           i \in Nat /\ i - 1 \in DOMAIN logicGateway' /\ logicGateway'[i - 1] = logicGateway[i],
         \A x \in Service : x # s => (Knows(x)' <=> Knows(x)),
         logicGateway[1].type # "DISCONNECT" => Knows(s)'
  PROVE  QueueInv'
<1> SUFFICES ASSUME NEW i \in DOMAIN logicGateway', NEW x \in Service, logicGateway'[i].from = x
             PROVE  /\ logicGateway'[i].type = "CONNECT" =>
                         ~Knows(x)' /\ \A j \in DOMAIN logicGateway' : j < i => logicGateway'[j].from # x
                    /\ logicGateway'[i].type # "CONNECT" =>
                         \/ Knows(x)'
                         \/ \E j \in DOMAIN logicGateway' :
                              j < i /\ logicGateway'[j].from = x /\ logicGateway'[j].type = "CONNECT"
                    /\ logicGateway'[i].type = "DISCONNECT" =>
                         \A j \in DOMAIN logicGateway' : j > i => logicGateway'[j].from # x
  BY DEF QueueInv
<1>1. i \in Nat \ {0} /\ i + 1 \in DOMAIN logicGateway /\ logicGateway'[i] = logicGateway[i + 1]
  OBVIOUS
<1>2. /\ logicGateway[i + 1].type = "CONNECT" =>
           ~Knows(x) /\ \A j \in DOMAIN logicGateway : j < i + 1 => logicGateway[j].from # x
      /\ logicGateway[i + 1].type # "CONNECT" =>
           \/ Knows(x)
           \/ \E j \in DOMAIN logicGateway :
                j < i + 1 /\ logicGateway[j].from = x /\ logicGateway[j].type = "CONNECT"
      /\ logicGateway[i + 1].type = "DISCONNECT" =>
           \A j \in DOMAIN logicGateway : j > i + 1 => logicGateway[j].from # x
  BY <1>1 DEF QueueInv
<1>3. x = s => Knows(s)'
  <2>1. logicGateway[1].type = "DISCONNECT" => \A j \in DOMAIN logicGateway : j > 1 => logicGateway[j].from # s
    BY DEF QueueInv
  <2>2. i + 1 > 1
    BY <1>1
  <2> QED BY <1>1, <2>1, <2>2
<1>4. ASSUME logicGateway'[i].type = "CONNECT"
      PROVE  ~Knows(x)' /\ \A j \in DOMAIN logicGateway' : j < i => logicGateway'[j].from # x
  <2>1. x # s
    <3>1. 1 < i + 1
      BY <1>1
    <3> QED BY <1>1, <1>2, <1>4, <3>1
  <2>2. \A j \in DOMAIN logicGateway' : j < i => j + 1 < i + 1
    BY <1>1
  <2> QED BY <1>1, <1>2, <1>4, <2>1, <2>2
<1>5. ASSUME logicGateway'[i].type # "CONNECT", x # s, ~Knows(x)
      PROVE  \E j \in DOMAIN logicGateway' :
               j < i /\ logicGateway'[j].from = x /\ logicGateway'[j].type = "CONNECT"
  <2>1. PICK j \in DOMAIN logicGateway :
          j < i + 1 /\ logicGateway[j].from = x /\ logicGateway[j].type = "CONNECT"
    BY <1>1, <1>2, <1>5
  <2>2. j # 1
    BY <1>5, <2>1
  <2>3. j \in Nat /\ j - 1 \in DOMAIN logicGateway' /\ logicGateway'[j - 1] = logicGateway[j]
    BY <2>2
  <2>4. j - 1 < i
    BY <1>1, <2>1, <2>3
  <2> QED BY <2>1, <2>3, <2>4
<1>6. ASSUME logicGateway'[i].type = "DISCONNECT"
      PROVE  \A j \in DOMAIN logicGateway' : j > i => logicGateway'[j].from # x
  <2>1. \A j \in DOMAIN logicGateway' : j > i => j + 1 > i + 1
    BY <1>1
  <2> QED BY <1>1, <1>2, <1>6, <2>1
<1> QED BY <1>3, <1>4, <1>5, <1>6

(* Every step of the logic thread, and every send.                          *)
LEMMA LogicKeepsPhases ==
  ASSUME NetworkInv, LogicInv, LogicStep \/ \E id \in Serial : SendToPlayer(id)
  PROVE  SerialInv' /\ QueueInv' /\ PhaseInv' /\ ReceivedByOwner' /\ NoAssertFails'
<1>t. /\ m_serial \in [Service -> Serial \cup {INVALID_ID}]
      /\ m_PlayerMap \in [Serial -> Service \cup {NoService}]
      /\ FreshInv /\ SerialInv /\ QueueInv /\ PhaseInv /\ ReceivedByOwner /\ NoAssertFails
  BY DEF NetworkInv, ServiceInv, ServiceTypeOK, SessionLogicTypeOK, LogicInv
<1>u. UNCHANGED <<m_serial, m_pSessionService, object, read, pc, at>>
  <2>1. UNCHANGED <<idMapVars, sessionVars, pc, at, disconnecting>>
    BY LogicKeepsQueueType DEF NetworkInv
  <2> QED BY <2>1 DEF sessionVars
<1>o. \A x \in Service : (Silent(x)' <=> Silent(x)) /\ (Open(x)' <=> Open(x))
  BY <1>u DEF Silent, Open
<1>h. \A x \in Service, y \in {"CONNECT", "DISCONNECT"} : Has(x, y) => Told(x)
  BY DEF Has, Told
<1>1. ASSUME NEW id \in Serial, SendToPlayer(id)
      PROVE  SerialInv' /\ QueueInv' /\ PhaseInv' /\ ReceivedByOwner' /\ NoAssertFails'
  <2>1. /\ UNCHANGED <<logicGateway, m_PlayerMap, assertFailed>> /\ m_PlayerMap[id] # NoService
        /\ SendRequest(id, m_PlayerMap[id])
    BY <1>1 DEF SendToPlayer
  <2>2. ReceivedByOwner'
    BY <1>t, <2>1, SendRequestReachesOwner DEF SerialInv
  <2>3. SerialInv' /\ QueueInv'
    BY <1>t, <1>u, <2>1 DEF SerialInv, QueueInv, Knows
  <2>4. PhaseInv'
    BY <1>t, <1>u, <1>o, <2>1 DEF PhaseInv, Knows, Has, Told
  <2> QED BY <1>t, <2>1, <2>2, <2>3, <2>4 DEF NoAssertFails
<1>2. ASSUME LogicStep
      PROVE  SerialInv' /\ QueueInv' /\ PhaseInv' /\ ReceivedByOwner' /\ NoAssertFails'
  <2>1. logicGateway # <<>> /\ logicGateway' = Tail(logicGateway)
    BY <1>2 DEF LogicStep, OnConnectPlayer, OnPlayerData, OnDisconnectPlayer, Pops
  <2>2. PICK s \in Service, id \in Serial :
          /\ Head(logicGateway) = logicGateway[1] /\ 1 \in DOMAIN logicGateway
          /\ Head(logicGateway).from = s /\ Head(logicGateway).serial = id /\ m_serial[s] = id
          /\ \A i \in DOMAIN logicGateway' :
               i \in Nat \ {0} /\ i + 1 \in DOMAIN logicGateway /\ logicGateway'[i] = logicGateway[i + 1]
          /\ \A i \in DOMAIN logicGateway : i # 1 =>
               i \in Nat /\ i - 1 \in DOMAIN logicGateway' /\ logicGateway'[i - 1] = logicGateway[i]
          /\ \A x \in Service : Told(x)' => Told(x)
          /\ \A x \in Service, y \in {"CONNECT", "DISCONNECT"} :
               /\ Has(x, y)' => Has(x, y)
               /\ Has(x, y) => Has(x, y)' \/ (x = s /\ y = Head(logicGateway).type)
    BY <1>t, <2>1, PopFacts
  <2>3. \A i \in DOMAIN logicGateway' : logicGateway'[i].serial \in Serial
          /\ logicGateway'[i].serial = m_serial[logicGateway'[i].from]
    BY <1>t, <2>2 DEF SerialInv
  <2>4. Told(s) /\ \A k \in Serial : m_PlayerMap[k] = s => k = id
    <3>1. Told(s)
      BY <2>2 DEF Told
    <3>2. \A k \in Serial : m_PlayerMap[k] = s => k = id
      BY <1>t, <2>2, IDMapAssumption DEF SerialInv
    <3> QED BY <3>1, <3>2
  <2>5. CASE OnConnectPlayer
    <3>1. Head(logicGateway).type = "CONNECT" /\ SendRequest(id, s) /\ UNCHANGED assertFailed
      BY <2>2, <2>5 DEF OnConnectPlayer, Pops
    <3>2. ~Knows(s)
      BY <1>t, <2>2, <3>1 DEF QueueInv
    <3>3. m_PlayerMap[id] = NoService
      <4>1. ASSUME m_PlayerMap[id] # NoService PROVE FALSE
        <5>1. m_PlayerMap[id] \in Service /\ m_serial[m_PlayerMap[id]] = id
          BY <1>t, <4>1 DEF SerialInv
        <5>2. m_PlayerMap[id] = s
          BY <1>t, <2>2, <5>1, SerialsTellApart
        <5> QED BY <3>2, <5>2 DEF Knows
      <4> QED BY <4>1
    <3>4. m_PlayerMap' = [m_PlayerMap EXCEPT ![id] = s]
      BY <2>2, <2>5, <3>3 DEF OnConnectPlayer
    <3>5. \A k \in Serial : m_PlayerMap'[k] = IF k = id THEN s ELSE m_PlayerMap[k]
      BY <1>t, <3>4
    <3>6. \A x \in Service : Knows(x)' <=> Knows(x) \/ x = s
      BY <3>3, <3>5, IDMapAssumption DEF Knows
    <3>7. ReceivedByOwner'
      BY <1>t, <2>2, <3>1, SendRequestReachesOwner
    <3>8. SerialInv'
      BY <1>t, <1>u, <2>2, <2>3, <3>5 DEF SerialInv
    <3>9. QueueInv'
      BY <1>t, <2>2, <3>6, PopKeepsQueue
    <3>10. PhaseInv'
      <4> SUFFICES ASSUME NEW x \in Service
                   PROVE  /\ Silent(x)' \/ m_pSessionService'[x] = "unset" => ~Told(x)' /\ ~Knows(x)'
                          /\ Open(x)' => (Knows(x)' \/ Has(x, "CONNECT")') /\ ~Has(x, "DISCONNECT")'
                          /\ Knows(x)' \/ Has(x, "CONNECT")' => Open(x)' \/ Has(x, "DISCONNECT")'
        BY DEF PhaseInv
      <4>1. /\ Silent(x) \/ m_pSessionService[x] = "unset" => ~Told(x) /\ ~Knows(x)
            /\ Open(x) => (Knows(x) \/ Has(x, "CONNECT")) /\ ~Has(x, "DISCONNECT")
            /\ Knows(x) \/ Has(x, "CONNECT") => Open(x) \/ Has(x, "DISCONNECT")
        BY <1>t DEF PhaseInv
      <4>2. x = s => Has(x, "CONNECT") /\ Told(x)
        BY <2>2, <2>4, <3>1 DEF Has
      <4>3. /\ Told(x)' => Told(x)
            /\ Has(x, "CONNECT")' => Has(x, "CONNECT")
            /\ Has(x, "DISCONNECT")' <=> Has(x, "DISCONNECT")
            /\ x # s => (Has(x, "CONNECT") => Has(x, "CONNECT")')
        BY <2>2, <3>1
      <4> QED BY <1>u, <1>o, <3>6, <4>1, <4>2, <4>3
    <3> QED BY <1>t, <3>1, <3>7, <3>8, <3>9, <3>10 DEF NoAssertFails
  <2>6. ASSUME Head(logicGateway).type # "CONNECT" PROVE Knows(s) /\ m_PlayerMap[id] = s
    <3>1. Knows(s)
      BY <1>t, <2>2, <2>6 DEF QueueInv
    <3> QED BY <2>4, <3>1 DEF Knows
  <2>7. CASE OnPlayerData
    <3>1. Head(logicGateway).type = "DATA" /\ UNCHANGED logicVars
      BY <2>2, <2>6, <2>7, IDMapAssumption DEF OnPlayerData, Pops, UnknownPlayer
    <3>2. UNCHANGED <<m_PlayerMap, assertFailed, received>> /\ \A x \in Service : Knows(x)' <=> Knows(x)
      BY <3>1 DEF logicVars, Knows
    <3>3. SerialInv'
      BY <1>t, <1>u, <2>2, <2>3, <3>2 DEF SerialInv
    <3>4. QueueInv'
      BY <1>t, <2>2, <2>6, <3>1, <3>2, PopKeepsQueue
    <3>5. PhaseInv'
      BY <1>t, <1>u, <1>o, <1>h, <2>2, <2>4, <3>1, <3>2 DEF PhaseInv
    <3> QED BY <1>t, <3>2, <3>3, <3>4, <3>5 DEF NoAssertFails, ReceivedByOwner
  <2>8. CASE OnDisconnectPlayer
    <3>1. /\ Head(logicGateway).type = "DISCONNECT" /\ UNCHANGED <<assertFailed, received>>
          /\ m_PlayerMap' = [m_PlayerMap EXCEPT ![id] = NoService]
      BY <2>2, <2>6, <2>8, IDMapAssumption DEF OnDisconnectPlayer, Pops, UnknownPlayer
    <3>2. Knows(s) /\ m_PlayerMap[id] = s
      BY <2>6, <3>1
    <3>3. \A k \in Serial : m_PlayerMap'[k] = IF k = id THEN NoService ELSE m_PlayerMap[k]
      BY <1>t, <3>1
    <3>4. \A x \in Service : Knows(x)' <=> Knows(x) /\ x # s
      BY <2>4, <3>2, <3>3, IDMapAssumption DEF Knows
    <3>5. \A i \in DOMAIN logicGateway : i # 1 => logicGateway[i].from # s
      <4>1. \A i \in DOMAIN logicGateway : i > 1 => logicGateway[i].from # s
        BY <1>t, <2>2, <3>1 DEF QueueInv
      <4>2. \A i \in DOMAIN logicGateway : i # 1 => i > 1
        <5> SUFFICES ASSUME NEW i \in DOMAIN logicGateway, i # 1 PROVE i > 1
          OBVIOUS
        <5>1. i - 1 \in Nat \ {0} /\ i \in Nat
          BY <2>2
        <5> QED BY <5>1
      <4> QED BY <4>1, <4>2
    <3>6. ~Told(s)'
      <4>1. \A i \in DOMAIN logicGateway' : logicGateway'[i].from # s
        <5> SUFFICES ASSUME NEW i \in DOMAIN logicGateway' PROVE logicGateway'[i].from # s
          OBVIOUS
        <5>1. i \in Nat \ {0} /\ i + 1 \in DOMAIN logicGateway /\ logicGateway'[i] = logicGateway[i + 1]
          BY <2>2
        <5>2. i + 1 # 1
          BY <5>1
        <5> QED BY <3>5, <5>1, <5>2
      <4> QED BY <4>1 DEF Told
    <3>7. SerialInv'
      BY <1>t, <1>u, <2>2, <2>3, <3>3 DEF SerialInv
    <3>8. QueueInv'
      BY <1>t, <2>2, <3>1, <3>4, PopKeepsQueue
    <3>9. PhaseInv'
      <4> SUFFICES ASSUME NEW x \in Service
                   PROVE  /\ Silent(x)' \/ m_pSessionService'[x] = "unset" => ~Told(x)' /\ ~Knows(x)'
                          /\ Open(x)' => (Knows(x)' \/ Has(x, "CONNECT")') /\ ~Has(x, "DISCONNECT")'
                          /\ Knows(x)' \/ Has(x, "CONNECT")' => Open(x)' \/ Has(x, "DISCONNECT")'
        BY DEF PhaseInv
      <4>1. /\ Silent(x) \/ m_pSessionService[x] = "unset" => ~Told(x) /\ ~Knows(x)
            /\ Open(x) => (Knows(x) \/ Has(x, "CONNECT")) /\ ~Has(x, "DISCONNECT")
            /\ Knows(x) \/ Has(x, "CONNECT") => Open(x) \/ Has(x, "DISCONNECT")
        BY <1>t DEF PhaseInv
      <4>2. x = s => Has(x, "DISCONNECT") /\ ~Has(x, "CONNECT")'
        <5>1. Has(s, "DISCONNECT")
          BY <2>2, <3>1 DEF Has
        <5>2. ~Has(s, "CONNECT")'
          BY <3>6 DEF Has, Told
        <5> QED BY <5>1, <5>2
      <4>3. /\ Told(x)' => Told(x)
            /\ Has(x, "CONNECT")' => Has(x, "CONNECT")
            /\ Has(x, "DISCONNECT")' => Has(x, "DISCONNECT")
            /\ x # s => (Has(x, "CONNECT") => Has(x, "CONNECT")')
            /\ x # s => (Has(x, "DISCONNECT") => Has(x, "DISCONNECT")')
        BY <2>2, <3>1
      <4> QED BY <1>u, <1>o, <3>4, <4>1, <4>2, <4>3
    <3> QED BY <1>t, <3>1, <3>7, <3>8, <3>9 DEF NoAssertFails, ReceivedByOwner
  <2> QED BY <1>2, <2>5, <2>7, <2>8 DEF LogicStep
<1> QED BY <1>1, <1>2

-----------------------------------------------------------------------------
LEMMA LogicInitInv == SessionLogicInit => LogicInv
<1> SUFFICES ASSUME SessionLogicInit PROVE LogicInv
  OBVIOUS
<1>t. /\ ServiceInit /\ IDMapInit /\ logicGateway = <<>> /\ DOMAIN logicGateway = {}
      /\ m_PlayerMap = [id \in Serial |-> NoService] /\ assertFailed = FALSE
      /\ received = [s \in Service |-> {}]
  BY DEF SessionLogicInit, ServiceInit
<1>1. FreshInv
  <2>1. Registered = {}
    BY <1>t DEF ServiceInit, Registered
  <2>2. Cardinality(Registered) = 0
    BY <2>1, FS_EmptySet
  <2>3. \A i \in 1..MaxIDCount : i \in DOMAIN m_idleIdQueue /\ m_idleIdQueue[i] = i
    BY <1>t, IDMapAssumption DEF IDMapInit, Offset
  <2> QED BY <2>1, <2>2, <2>3, IDMapAssumption DEF FreshInv
<1>2. ProtocolInv
  BY <1>t DEF ServiceInit, IDMapInit, ProtocolInv, EarlyLabels
<1>3. SerialInv /\ QueueInv
  BY <1>t DEF SerialInv, QueueInv
<1>4. PhaseInv
  <2>1. \A s \in Service : ~Told(s) /\ ~Has(s, "CONNECT") /\ ~Has(s, "DISCONNECT")
    BY <1>t DEF Told, Has
  <2>2. \A s \in Service : ~Knows(s)
    BY <1>t, IDMapAssumption DEF Knows
  <2>3. \A s \in Service : ~Open(s)
    BY <1>t DEF ServiceInit, Open, OpenedLabels
  <2> QED BY <2>1, <2>2, <2>3 DEF PhaseInv
<1>5. ReceivedByOwner /\ NoAssertFails
  BY <1>t DEF ReceivedByOwner, NoAssertFails
<1> QED BY <1>1, <1>2, <1>3, <1>4, <1>5 DEF LogicInv

LEMMA LogicNextInv ==
  ASSUME FewSessions, NetworkInv, LogicInv, [SessionLogicNext]_sessionLogicVars
  PROVE  LogicInv'
<1>t. FreshInv /\ ProtocolInv /\ SerialInv /\ QueueInv /\ PhaseInv /\ ReceivedByOwner /\ NoAssertFails
  BY DEF LogicInv
<1>u. ASSUME UNCHANGED <<idMapVars, sessionVars, pc, at, disconnecting>> PROVE FreshInv' /\ ProtocolInv'
  <2>1. UNCHANGED <<m_idleIdQueue, m_IDMap, m_serial, m_pSessionService, object, pc, at>>
    BY <1>u DEF idMapVars, sessionVars
  <2>2. Registered' = Registered
    BY <2>1 DEF Registered
  <2> QED BY <1>t, <2>1, <2>2 DEF FreshInv, ProtocolInv
<1>1. ASSUME NEW t \in IOThread, NEW s \in Service, IOThreadStep(t, s), UNCHANGED logicVars
      PROVE  LogicInv'
  <2>1. FreshInv' /\ ProtocolInv'
    BY <1>t, <1>1, StepKeepsFresh, StepKeepsProtocol
  <2>2. SerialInv' /\ QueueInv' /\ PhaseInv'
    BY <1>t, <1>1, StepKeepsPhases
  <2>3. ReceivedByOwner' /\ NoAssertFails'
    BY <1>t, <1>1 DEF logicVars, ReceivedByOwner, NoAssertFails
  <2> QED BY <2>1, <2>2, <2>3 DEF LogicInv
<1>2. ASSUME LogicStep \/ \E id \in Serial : SendToPlayer(id)
      PROVE  LogicInv'
  <2>1. SerialInv' /\ QueueInv' /\ PhaseInv' /\ ReceivedByOwner' /\ NoAssertFails'
    BY <1>2, LogicKeepsPhases
  <2>2. UNCHANGED <<idMapVars, sessionVars, pc, at, disconnecting>>
    BY <1>2, LogicKeepsQueueType DEF NetworkInv
  <2> QED BY <1>u, <2>1, <2>2 DEF LogicInv
<1>3. CASE UNCHANGED sessionLogicVars
  <2>1. /\ UNCHANGED <<idMapVars, sessionVars, pc, at, disconnecting>>
        /\ UNCHANGED <<object, read, m_serial, m_pSessionService, logicGateway>>
        /\ UNCHANGED <<m_PlayerMap, assertFailed, received>>
    BY <1>3 DEF sessionLogicVars, serviceVars, sessionVars, logicVars
  <2>2. FreshInv' /\ ProtocolInv'
    BY <1>u, <2>1
  <2>3. SerialInv' /\ QueueInv'
    BY <1>t, <2>1 DEF SerialInv, QueueInv, Knows
  <2>4. PhaseInv'
    BY <1>t, <2>1 DEF PhaseInv, Silent, Open, Told, Has, Knows
  <2> QED BY <1>t, <2>1, <2>2, <2>3, <2>4 DEF LogicInv, ReceivedByOwner, NoAssertFails
<1> QED BY <1>1, <1>2, <1>3 DEF SessionLogicNext

LEMMA LogicInvariant ==
  ASSUME FewSessions
  PROVE  SessionLogicSpec => [](NetworkInv /\ LogicInv)
<1>1. SessionLogicInit => LogicInv
  BY LogicInitInv
<1>2. NetworkInv /\ LogicInv /\ [SessionLogicNext]_sessionLogicVars => LogicInv'
  BY LogicNextInv
<1> QED BY <1>1, <1>2, NetworkInvariant, PTL DEF SessionLogicSpec

-----------------------------------------------------------------------------
(* The SFASSERT(0)s of OnPlayerData and OnDisconnectPlayer are not reached  *)
(* while no serial is reused: the session protocol survives the queue.      *)
THEOREM LogicAssertsHold ==
  ASSUME FewSessions
  PROVE  SessionLogicSpec => []NoAssertFails
<1>1. LogicInv => NoAssertFails
  BY DEF LogicInv
<1> QED BY <1>1, LogicInvariant, PTL

(* The player of a deleted session is about to be removed: the DISCONNECT   *)
(* that OnDisconnectPlayer needs for it is in logicGateway.                 *)
THEOREM NoPlayerOutlivesSession ==
  ASSUME FewSessions
  PROVE  SessionLogicSpec => []NoGhostPlayer
<1>1. NetworkInv /\ LogicInv => NoGhostPlayer
  <2> SUFFICES ASSUME NetworkInv, LogicInv, NEW id \in Serial, NEW s \in Service,
                      m_PlayerMap[id] = s, object[s] = "deleted"
               PROVE  \E i \in DOMAIN logicGateway :
                        /\ logicGateway[i].type = "DISCONNECT"
                        /\ logicGateway[i].serial = id
                        /\ logicGateway[i].from = s
    <3>1. NetworkInv => m_PlayerMap \in [Serial -> Service \cup {NoService}]
      BY DEF NetworkInv, SessionLogicTypeOK
    <3> QED BY <3>1 DEF NoGhostPlayer
  <2>1. ~Open(s)
    <3>1. ~read[s]
      BY DEF NetworkInv, LifeInv, ClosedInv
    <3>2. \A t \in IOThread : at[t] = s => pc[t] = "idle"
      BY DEF NetworkInv, LifeInv, NoUseAfterFree
    <3> QED BY <3>1, <3>2 DEF Open, OpenedLabels
  <2>2. Knows(s)
    BY DEF Knows
  <2>3. Has(s, "DISCONNECT")
    BY <2>1, <2>2 DEF LogicInv, PhaseInv
  <2>4. PICK i \in DOMAIN logicGateway : logicGateway[i].from = s /\ logicGateway[i].type = "DISCONNECT"
    BY <2>3 DEF Has
  <2>5. logicGateway[i].serial = m_serial[s] /\ m_serial[s] = id
    BY <2>4, IDMapAssumption DEF LogicInv, SerialInv
  <2> QED BY <2>4, <2>5
<1> QED BY <1>1, LogicInvariant, PTL

(* SendRequest goes by serial alone and reaches the session of the player   *)
(* it is meant for, which is alive and has its protocol, or nobody.         *)
THEOREM SendsReachTheirPlayer ==
  ASSUME FewSessions
  PROVE  SessionLogicSpec => []SendsReachOwner
<1>1. NetworkInv /\ LogicInv => SendsReachOwner
  <2> SUFFICES ASSUME NetworkInv, LogicInv, NEW id \in Serial,
                      m_PlayerMap[id] # NoService, m_IDMap[id] # NoService
               PROVE  object[m_IDMap[id]] = "alive" /\ m_pSessionService[m_IDMap[id]] = "alive"
    BY DEF SendsReachOwner, SendTargetReady, Get, LogicInv
  <2>1. PICK p \in Service : p = m_PlayerMap[id]
    BY DEF NetworkInv, SessionLogicTypeOK
  <2>2. PICK q \in Service : q = m_IDMap[id]
    BY DEF NetworkInv, ServiceInv, ServiceTypeOK, IDMapTypeOK
  <2>3. m_serial[p] = id /\ m_serial[q] = id
    BY <2>1, <2>2 DEF NetworkInv, ServiceInv, RegistryInv, LogicInv, SerialInv
  <2>4. p = q
    BY <2>3, SerialsTellApart DEF LogicInv
  <2>5. Knows(q)
    BY <2>1, <2>4 DEF Knows
  <2>6. m_pSessionService[q] # "unset" /\ m_pSessionService[q] # "deleted"
    BY <2>2, <2>5 DEF LogicInv, PhaseInv, ProtocolInv
  <2>7. object[q] = "alive" /\ m_pSessionService[q] \in {"unset", "alive", "deleted"}
    BY <2>2 DEF NetworkInv, LifeInv, RegistryPointsToLive, ServiceInv, ServiceTypeOK
  <2> QED BY <2>2, <2>6, <2>7
<1> QED BY <1>1, LogicInvariant, PTL
=============================================================================
