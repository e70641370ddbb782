---------------------------- MODULE SessionLogic -----------------------------
(***************************************************************************)
(* The network engine composed with the logic thread of a casual game      *)
(* server: LogicThreadProc (EngineLayer/SFCasualGameDispatcher.cpp) pops   *)
(* logicGateway and SFLogicEntry (LogicLayer/CasualGame) keeps one player  *)
(* per serial.  The logic knows a session by its serial only, while the    *)
(* network side recycles serials on its own threads.                       *)
(*                                                                         *)
(* A player is represented by the session whose CONNECT created it.  The   *)
(* game rules are abstracted to: on any occasion the logic may send to a   *)
(* serial for which it has a player.                                       *)
(***************************************************************************)
EXTENDS ProactorService

VARIABLES
  m_PlayerMap,    (* serial -> session the player was created for           *)
  assertFailed,   (* has an SFASSERT(0) of SFLogicEntry been reached?       *)
  received        (* the players whose packets each session was sent        *)

logicVars == <<m_PlayerMap, assertFailed, received>>
sessionLogicVars == <<serviceVars, logicVars>>

(* ProactorServiceManager::SendRequest(serial) on behalf of player p: the   *)
(* packet goes to whatever service is registered under the serial.          *)
SendRequest(id, p) ==
  received' = IF Get(id) # NoService /\ m_pSessionService[Get(id)] = "alive"
                THEN [received EXCEPT ![Get(id)] = @ \cup {p}]
                ELSE received

(* The logic thread's next packet is of this type.                          *)
Pops(type) ==
  /\ LockFree
  /\ logicGateway # <<>>
  /\ Head(logicGateway).type = type
  /\ logicGateway' = Tail(logicGateway)

NetworkUnchanged == UNCHANGED <<idMapVars, sessionVars, pc, at, disconnecting>>

(* A packet for an unknown player: SFASSERT(0), and nothing else.           *)
UnknownPlayer(id) ==
  /\ m_PlayerMap[id] = NoService
  /\ assertFailed' = TRUE
  /\ UNCHANGED <<m_PlayerMap, received>>

-----------------------------------------------------------------------------
(* OnConnectPlayer: std::map::insert keeps a player that is already there.  *)
OnConnectPlayer ==
  LET packet == Head(logicGateway) IN
  /\ Pops("CONNECT")
  /\ m_PlayerMap' = [m_PlayerMap EXCEPT ![packet.serial] = IF @ = NoService THEN packet.from ELSE @]
  /\ SendRequest(packet.serial, packet.from)
  /\ NetworkUnchanged /\ UNCHANGED assertFailed

OnPlayerData ==
  LET packet == Head(logicGateway) IN
  /\ Pops("DATA")
  /\ \/ UnknownPlayer(packet.serial)
     \/ /\ m_PlayerMap[packet.serial] # NoService
        /\ UNCHANGED logicVars
  /\ NetworkUnchanged

OnDisconnectPlayer ==
  LET packet == Head(logicGateway) IN
  /\ Pops("DISCONNECT")
  /\ \/ UnknownPlayer(packet.serial)
     \/ /\ m_PlayerMap[packet.serial] # NoService
        /\ m_PlayerMap' = [m_PlayerMap EXCEPT ![packet.serial] = NoService]
        /\ UNCHANGED <<assertFailed, received>>
  /\ NetworkUnchanged

(* The game sends to one of its players: a reply, a broadcast, a timer.     *)
SendToPlayer(id) ==
  /\ LockFree
  /\ m_PlayerMap[id] # NoService
  /\ SendRequest(id, m_PlayerMap[id])
  /\ NetworkUnchanged /\ UNCHANGED <<logicGateway, m_PlayerMap, assertFailed>>

LogicStep == OnConnectPlayer \/ OnPlayerData \/ OnDisconnectPlayer

SessionLogicInit ==
  /\ ServiceInit
  /\ m_PlayerMap = [id \in Serial |-> NoService]
  /\ assertFailed = FALSE
  /\ received = [s \in Service |-> {}]

SessionLogicNext ==
  \/ \E t \in IOThread, s \in Service : IOThreadStep(t, s) /\ UNCHANGED logicVars
  \/ LogicStep
  \/ \E id \in Serial : SendToPlayer(id)

SessionLogicSpec == SessionLogicInit /\ [][SessionLogicNext]_sessionLogicVars

(* The logic thread blocks only on an empty queue; IO threads as in         *)
(* ProactorService.                                                         *)
SessionLogicFairSpec ==
  /\ SessionLogicSpec
  /\ \A t \in IOThread, s \in Service :
       SF_sessionLogicVars(HandlerStep(t, s) /\ UNCHANGED logicVars)
  /\ WF_sessionLogicVars(LogicStep)

-----------------------------------------------------------------------------
(* Types of the logic side.                                                 *)
SessionLogicTypeOK ==
  /\ ServiceTypeOK
  /\ m_PlayerMap \in [Serial -> Service \cup {NoService}]
  /\ assertFailed \in BOOLEAN
  /\ received \in [Service -> SUBSET Service]

(* The SFASSERT(0)s of OnPlayerData and OnDisconnectPlayer hold: data and   *)
(* disconnections reach the logic only for serials it has a player for.     *)
NoAssertFails == ~assertFailed

(* No ghost players: a player whose session is gone still has the           *)
(* DISCONNECT that removes it in the queue.                                 *)
NoGhostPlayer ==
  \A id \in Serial :
    m_PlayerMap[id] # NoService /\ object[m_PlayerMap[id]] = "deleted"
      => \E i \in DOMAIN logicGateway :
           /\ logicGateway[i].type = "DISCONNECT"
           /\ logicGateway[i].serial = id
           /\ logicGateway[i].from = m_PlayerMap[id]

(* What the logic sends to a player reaches that player's session or        *)
(* nobody, though SendRequest goes by serial alone.                         *)
ReceivedByOwner == \A s \in Service : received[s] \subseteq {s}

(* Whenever the logic may send, the service its serial leads to is alive    *)
(* and has its protocol: SendRequest dereferences both without a check.     *)
SendTargetReady ==
  \A id \in Serial :
    m_PlayerMap[id] # NoService /\ Get(id) # NoService
      => object[Get(id)] = "alive" /\ m_pSessionService[Get(id)] = "alive"

(* A send by serial finds a usable session, and the right one: the registry *)
(* still leads from the serial of a player to the session of that player.   *)
SendsReachOwner == ReceivedByOwner /\ SendTargetReady

(* The logic eventually forgets the player of a session that closes.        *)
PlayerForgotten ==
  \A s \in Service :
    (\E t \in IOThread : at[t] = s /\ pc[t] \in CloseLabels)
      ~> \A id \in Serial : m_PlayerMap[id] # s
=============================================================================
