--------------------------- MODULE ProactorService ---------------------------
(***************************************************************************)
(* NetworkLayer/CGSFNet: the life of a session on the ACE proactor engine. *)
(*                                                                         *)
(* A connection is a ProactorService object.  The IO threads of the        *)
(* proactor run its handlers: open (after accept or connect),              *)
(* handle_read_stream, handle_time_out.  A handler is cut where another    *)
(* thread can see the difference: the state of a thread is the service it  *)
(* works for and the statement it is about to execute.  One manager lock   *)
(* covers Register, UnRegister and everything that looks a serial up; the  *)
(* application's thread enters it through IEngine::Disconnect.             *)
(*                                                                         *)
(* Packets for the logic thread are pushed on logicGateway and nothing     *)
(* here pops them: SessionLogic.tla composes this module with the logic    *)
(* thread.  Packet contents are abstracted to their type; "from" is the    *)
(* service that dispatched a packet, which the code does not carry and the *)
(* properties need.                                                        *)
(***************************************************************************)
EXTENDS SFIDMap, FiniteSets

CONSTANTS
  IOThread,         (* threads in the proactor event loop                   *)
  MaxUserAccept,    (* IEngine::GetMaxUserAccept                            *)
  CallsDisconnect,  (* does the application call IEngine::Disconnect?       *)
  MaxGateway        (* bound: no DATA is dispatched beyond this many packets*)

ASSUME ServiceAssumption ==
  /\ IsFiniteSet(Service)
  /\ MaxUserAccept \in Nat
  /\ CallsDisconnect \in BOOLEAN
  /\ MaxGateway \in Nat

VARIABLES
  object,               (* unborn, alive or deleted                         *)
  g_currentSessionCnt,  (* constructed minus destroyed services             *)
  m_serial,             (* the serial Register gave                         *)
  handle,               (* does the socket handle hold a socket?            *)
  m_bServiceCloseFlag,
  m_pTimerLock,         (* taken by the expiry that deletes the service     *)
  m_pSessionService,    (* unset, alive or deleted                          *)
  timer,                (* is the 5 s timer scheduled?                      *)
  read,                 (* is an asynchronous read outstanding?             *)
  closeCalls,           (* closesocket calls through the service: 0, 1 or   *)
                        (* MaxCloseCalls, which stands for any higher count *)
  pc,                   (* statement each IO thread is about to execute     *)
  at,                   (* service each IO thread works for                 *)
  disconnecting,        (* service the application is inside Disconnect of, *)
                        (* holding the manager lock; NoService otherwise    *)
  logicGateway          (* packets pushed for the logic thread              *)

sessionVars == <<object, g_currentSessionCnt, m_serial, handle, m_bServiceCloseFlag,
                 m_pTimerLock, m_pSessionService, timer, read, closeCalls>>
serviceVars == <<idMapVars, sessionVars, pc, at, disconnecting, logicGateway>>

MaxCloseCalls == 2  (* bound *)

Packet == [type : {"CONNECT", "DATA", "DISCONNECT"},
           serial : Serial \cup {INVALID_ID}, from : Service]

-----------------------------------------------------------------------------
(* Steps of threads.                                                        *)

Goto(t, label) == pc' = [pc EXCEPT ![t] = label] /\ UNCHANGED at

Finish(t) == pc' = [pc EXCEPT ![t] = "idle"] /\ at' = [at EXCEPT ![t] = NoService]

Start(t, s, label) ==
  /\ pc[t] = "idle"
  /\ pc' = [pc EXCEPT ![t] = label]
  /\ at' = [at EXCEPT ![t] = s]

(* t stands at label, working for s.                                        *)
Stands(t, s, label) == at[t] = s /\ pc[t] = label

LockFree == disconnecting = NoService

(* m_serial as read from s: after delete the memory holds anything.         *)
SerialReadFrom(s) ==
  IF object[s] = "alive" THEN {m_serial[s]} ELSE Serial \cup {INVALID_ID}

(* handle() as read from s: after delete the memory holds anything.         *)
HandleReadFrom(s) == IF object[s] = "alive" THEN {handle[s]} ELSE BOOLEAN

(* if (handle() != ACE_INVALID_HANDLE) closesocket(handle()), with h as the *)
(* outcome of the test.                                                     *)
CloseIfOpen(s, h) ==
  closeCalls' = [closeCalls EXCEPT ![s] = IF h /\ @ < MaxCloseCalls THEN @ + 1 ELSE @]

Dispatch(type, id, s) ==
  logicGateway' = Append(logicGateway, [type |-> type, serial |-> id, from |-> s])

(* delete this.  The destructor does not close the socket.                  *)
Delete(s) ==
  /\ object' = [object EXCEPT ![s] = "deleted"]
  /\ g_currentSessionCnt' = g_currentSessionCnt - 1

-----------------------------------------------------------------------------
(* A connection arrives (ProactorAcceptor::make_handler, or AddConnector    *)
(* once connected): a service is constructed and open is called on it.      *)
Accept(t, s) ==
  /\ object[s] = "unborn"
  /\ Start(t, s, "open")
  /\ object' = [object EXCEPT ![s] = "alive"]
  /\ g_currentSessionCnt' = g_currentSessionCnt + 1
  /\ handle' = [handle EXCEPT ![s] = TRUE]
  /\ UNCHANGED <<idMapVars, m_serial, m_bServiceCloseFlag, m_pTimerLock, m_pSessionService,
                 timer, read, closeCalls, disconnecting, logicGateway>>

(* open: the asynchronous streams are opened; delete this if they cannot    *)
(* be, without closing the socket.                                          *)
OpenStreams(t, s) ==
  /\ Stands(t, s, "open")
  /\ \/ /\ Delete(s)
        /\ Finish(t)
        /\ UNCHANGED <<m_pTimerLock, m_bServiceCloseFlag>>
     \/ /\ m_pTimerLock' = [m_pTimerLock EXCEPT ![s] = FALSE]
        /\ m_bServiceCloseFlag' = [m_bServiceCloseFlag EXCEPT ![s] = FALSE]
        /\ Goto(t, "limit")
        /\ UNCHANGED <<object, g_currentSessionCnt>>
  /\ UNCHANGED <<idMapVars, m_serial, handle, m_pSessionService, timer, read, closeCalls,
                 disconnecting, logicGateway>>

(* Mutant: the service being opened is not counted.                         *)
CheckLimitOffByOne(t, s) ==
  /\ Stands(t, s, "limit")
  /\ Goto(t, IF g_currentSessionCnt - 1 > MaxUserAccept THEN "reject" ELSE "register")
  /\ UNCHANGED <<idMapVars, sessionVars, disconnecting, logicGateway>>

(* open: too many services alive?                                           *)
CheckLimit(t, s) ==
  /\ Stands(t, s, "limit")
  /\ Goto(t, IF g_currentSessionCnt > MaxUserAccept THEN "reject" ELSE "register")
  /\ UNCHANGED <<idMapVars, sessionVars, disconnecting, logicGateway>>

(* open: the connection is refused; the socket is closed, delete this.      *)
Reject(t, s) ==
  /\ Stands(t, s, "reject")
  /\ CloseIfOpen(s, handle[s])
  /\ handle' = [handle EXCEPT ![s] = FALSE]
  /\ Delete(s)
  /\ Finish(t)
  /\ UNCHANGED <<idMapVars, m_serial, m_bServiceCloseFlag, m_pTimerLock, m_pSessionService,
                 timer, read, disconnecting, logicGateway>>

(* open: m_serial = Register(this).                                         *)
RegisterService(t, s) ==
  /\ Stands(t, s, "register")
  /\ LockFree
  /\ \E id \in Serial \cup {INVALID_ID} :
       /\ Register(s, id)
       /\ m_serial' = [m_serial EXCEPT ![s] = id]
       /\ Goto(t, IF id = INVALID_ID THEN "reject" ELSE "timer")
  /\ UNCHANGED <<object, g_currentSessionCnt, handle, m_bServiceCloseFlag, m_pTimerLock,
                 m_pSessionService, timer, read, closeCalls, disconnecting, logicGateway>>

(* Mutant: the first read is issued before the logic has been told.         *)
RegisterTimerAndRead(t, s) ==
  /\ Stands(t, s, "timer")
  /\ timer' = [timer EXCEPT ![s] = TRUE]
  /\ read' = [read EXCEPT ![s] = TRUE]
  /\ Goto(t, "create")
  /\ UNCHANGED <<idMapVars, object, g_currentSessionCnt, m_serial, handle, m_bServiceCloseFlag,
                 m_pTimerLock, m_pSessionService, closeCalls, disconnecting, logicGateway>>

(* open: RegisterTimer.                                                     *)
RegisterTimer(t, s) ==
  /\ Stands(t, s, "timer")
  /\ timer' = [timer EXCEPT ![s] = TRUE]
  /\ Goto(t, "create")
  /\ UNCHANGED <<idMapVars, object, g_currentSessionCnt, m_serial, handle, m_bServiceCloseFlag,
                 m_pTimerLock, m_pSessionService, read, closeCalls, disconnecting, logicGateway>>

(* open, ISession::OnConnect: the session service is created ...            *)
CreateSessionService(t, s) ==
  /\ Stands(t, s, "create")
  /\ m_pSessionService' = [m_pSessionService EXCEPT ![s] = "alive"]
  /\ Goto(t, "connect")
  /\ UNCHANGED <<idMapVars, object, g_currentSessionCnt, m_serial, handle, m_bServiceCloseFlag,
                 m_pTimerLock, timer, read, closeCalls, disconnecting, logicGateway>>

(* ... and the logic is told.                                               *)
OnConnect(t, s) ==
  /\ Stands(t, s, "connect")
  /\ \E id \in SerialReadFrom(s) : Dispatch("CONNECT", id, s)
  /\ Goto(t, "recv")
  /\ UNCHANGED <<idMapVars, sessionVars, disconnecting>>

(* Mutant: a read that cannot be issued only marks the service closed.      *)
PostRecvOnlyFlags(t, s) ==
  /\ Stands(t, s, "recv")
  /\ \/ /\ TRUE \in HandleReadFrom(s)
        /\ read' = [read EXCEPT ![s] = TRUE]
        /\ Finish(t)
     \/ /\ Goto(t, "flag")
        /\ UNCHANGED read
  /\ UNCHANGED <<idMapVars, object, g_currentSessionCnt, m_serial, handle, m_bServiceCloseFlag,
                 m_pTimerLock, m_pSessionService, timer, closeCalls, disconnecting, logicGateway>>

(* PostRecv: the next read is issued; ReserveClose if that fails, which it  *)
(* does on a closed socket.                                                 *)
PostRecv(t, s) ==
  /\ Stands(t, s, "recv")
  /\ \/ /\ TRUE \in HandleReadFrom(s)
        /\ read' = [read EXCEPT ![s] = TRUE]
        /\ Finish(t)
     \/ /\ Goto(t, "unregister")
        /\ UNCHANGED read
  /\ UNCHANGED <<idMapVars, object, g_currentSessionCnt, m_serial, handle, m_bServiceCloseFlag,
                 m_pTimerLock, m_pSessionService, timer, closeCalls, disconnecting, logicGateway>>

-----------------------------------------------------------------------------
(* A read completes.  The proactor drops completions of a deleted handler.  *)
(* Failure and end of stream close the session.                             *)
ReadCompletes(t, s) ==
  /\ read[s] /\ object[s] = "alive"
  /\ Start(t, s, "receive") \/ Start(t, s, "unregister")
  /\ read' = [read EXCEPT ![s] = FALSE]
  /\ UNCHANGED <<idMapVars, object, g_currentSessionCnt, m_serial, handle, m_bServiceCloseFlag,
                 m_pTimerLock, m_pSessionService, timer, closeCalls, disconnecting, logicGateway>>

(* ISession::OnReceive: each packet the data completes is dispatched; then  *)
(* the next read, or ReserveClose when the protocol reports an error.       *)
OnReceive(t, s) ==
  /\ Stands(t, s, "receive")
  /\ \/ /\ Len(logicGateway) < MaxGateway
        /\ \E id \in SerialReadFrom(s) : Dispatch("DATA", id, s)
        /\ UNCHANGED <<pc, at>>
     \/ /\ Goto(t, "recv") \/ Goto(t, "unregister")
        /\ UNCHANGED logicGateway
  /\ UNCHANGED <<idMapVars, sessionVars, disconnecting>>

-----------------------------------------------------------------------------
(* Mutant: the service is marked closed first instead of last.              *)
UnregisterAndFlag(t, s) ==
  /\ Stands(t, s, "unregister")
  /\ LockFree
  /\ \E id \in SerialReadFrom(s) : UnRegister(id)
  /\ m_bServiceCloseFlag' = [m_bServiceCloseFlag EXCEPT ![s] = TRUE]
  /\ Goto(t, "closesocket")
  /\ UNCHANGED <<object, g_currentSessionCnt, m_serial, handle, m_pTimerLock, m_pSessionService,
                 timer, read, closeCalls, disconnecting, logicGateway>>

(* Mutant: the serial is not given up.                                      *)
UnregisterForgotten(t, s) ==
  /\ Stands(t, s, "unregister")
  /\ Goto(t, "closesocket")
  /\ UNCHANGED <<idMapVars, sessionVars, disconnecting, logicGateway>>

(* ReserveClose: the serial is given up first, ...                          *)
UnregisterService(t, s) ==
  /\ Stands(t, s, "unregister")
  /\ LockFree
  /\ \E id \in SerialReadFrom(s) : UnRegister(id)
  /\ Goto(t, "closesocket")
  /\ UNCHANGED <<sessionVars, disconnecting, logicGateway>>

(* ... the socket is closed if the handle still has one, ...                *)
CloseSocket(t, s) ==
  /\ Stands(t, s, "closesocket")
  /\ \E h \in HandleReadFrom(s) : CloseIfOpen(s, h)
  /\ Goto(t, "invalidate")
  /\ UNCHANGED <<idMapVars, object, g_currentSessionCnt, m_serial, handle, m_bServiceCloseFlag,
                 m_pTimerLock, m_pSessionService, timer, read, disconnecting, logicGateway>>

InvalidateHandle(t, s) ==
  /\ Stands(t, s, "invalidate")
  /\ handle' = [handle EXCEPT ![s] = FALSE]
  /\ Goto(t, "disconnect")
  /\ UNCHANGED <<idMapVars, object, g_currentSessionCnt, m_serial, m_bServiceCloseFlag, closeCalls,
                 m_pTimerLock, m_pSessionService, timer, read, disconnecting, logicGateway>>

(* Mutant: the logic is not told.                                           *)
DisconnectUnreported(t, s) ==
  /\ Stands(t, s, "disconnect")
  /\ Goto(t, "delservice")
  /\ UNCHANGED <<idMapVars, sessionVars, disconnecting, logicGateway>>

(* ... ISession::OnDisconnect tells the logic ...                           *)
OnDisconnect(t, s) ==
  /\ Stands(t, s, "disconnect")
  /\ \E id \in SerialReadFrom(s) : Dispatch("DISCONNECT", id, s)
  /\ Goto(t, "delservice")
  /\ UNCHANGED <<idMapVars, sessionVars, disconnecting>>

(* ... and deletes the session service; ...                                 *)
DeleteSessionService(t, s) ==
  /\ Stands(t, s, "delservice")
  /\ m_pSessionService' = [m_pSessionService EXCEPT ![s] = "deleted"]
  /\ Goto(t, "flag")
  /\ UNCHANGED <<idMapVars, object, g_currentSessionCnt, m_serial, handle, m_bServiceCloseFlag,
                 m_pTimerLock, timer, read, closeCalls, disconnecting, logicGateway>>

(* Mutant: the close flag stays down.                                       *)
FlagForgotten(t, s) ==
  /\ Stands(t, s, "flag")
  /\ Finish(t)
  /\ UNCHANGED <<idMapVars, sessionVars, disconnecting, logicGateway>>

(* ... last, the timer is allowed to delete the object.                     *)
SetCloseFlag(t, s) ==
  /\ Stands(t, s, "flag")
  /\ m_bServiceCloseFlag' = [m_bServiceCloseFlag EXCEPT ![s] = TRUE]
  /\ Finish(t)
  /\ UNCHANGED <<idMapVars, object, g_currentSessionCnt, m_serial, handle, m_pTimerLock,
                 m_pSessionService, timer, read, closeCalls, disconnecting, logicGateway>>

-----------------------------------------------------------------------------
(* The timer of s expires.  Bound: one expiry of a timer is handled at a    *)
(* time (expiries are 5 s apart).                                           *)
TimerExpires(t, s) ==
  /\ timer[s] /\ object[s] = "alive"
  /\ \A u \in IOThread : at[u] = s => pc[u] \notin {"timeout", "delete"}
  /\ Start(t, s, "timeout")
  /\ UNCHANGED <<idMapVars, sessionVars, disconnecting, logicGateway>>

(* handle_time_out: closed, and the timer lock won?                         *)
CheckClosed(t, s) ==
  /\ Stands(t, s, "timeout")
  /\ IF m_bServiceCloseFlag[s] /\ ~m_pTimerLock[s]
       THEN /\ m_pTimerLock' = [m_pTimerLock EXCEPT ![s] = TRUE]
            /\ Goto(t, "delete")
       ELSE /\ UNCHANGED m_pTimerLock
            /\ Finish(t)
  /\ UNCHANGED <<idMapVars, object, g_currentSessionCnt, m_serial, handle, m_bServiceCloseFlag,
                 m_pSessionService, timer, read, closeCalls, disconnecting, logicGateway>>

(* Mutant: deletion gives the serial up (again).                            *)
DeleteAndUnregister(t, s) ==
  /\ Stands(t, s, "delete")
  /\ LockFree
  /\ UnRegister(m_serial[s])
  /\ timer' = [timer EXCEPT ![s] = FALSE]
  /\ Delete(s)
  /\ Finish(t)
  /\ UNCHANGED <<m_serial, handle, m_bServiceCloseFlag, m_pTimerLock, m_pSessionService, read,
                 closeCalls, disconnecting, logicGateway>>

(* handle_time_out: UnregisterTimer, delete this.                           *)
DeleteService(t, s) ==
  /\ Stands(t, s, "delete")
  /\ timer' = [timer EXCEPT ![s] = FALSE]
  /\ Delete(s)
  /\ Finish(t)
  /\ UNCHANGED <<idMapVars, m_serial, handle, m_bServiceCloseFlag, m_pTimerLock,
                 m_pSessionService, read, closeCalls, disconnecting, logicGateway>>

-----------------------------------------------------------------------------
(* Mutant: Disconnect closes whatever the handle says.                      *)
BeginDisconnectUnchecked(id) ==
  /\ CallsDisconnect
  /\ LockFree
  /\ Get(id) # NoService
  /\ disconnecting' = Get(id)
  /\ CloseIfOpen(Get(id), TRUE)
  /\ UNCHANGED <<idMapVars, object, g_currentSessionCnt, m_serial, handle, m_bServiceCloseFlag,
                 m_pTimerLock, m_pSessionService, timer, read, pc, at, logicGateway>>

(* ProactorServiceManager::Disconnect(serial) from the application's        *)
(* thread: lock, look the serial up, closesocket ...  Writes to a service   *)
(* that was deleted go to freed memory and change nothing modelled here.    *)
BeginDisconnect(id) ==
  /\ CallsDisconnect
  /\ LockFree
  /\ Get(id) # NoService
  /\ disconnecting' = Get(id)
  /\ \E h \in HandleReadFrom(Get(id)) : CloseIfOpen(Get(id), h)
  /\ UNCHANGED <<idMapVars, object, g_currentSessionCnt, m_serial, handle, m_bServiceCloseFlag,
                 m_pTimerLock, m_pSessionService, timer, read, pc, at, logicGateway>>

(* ... mark the handle invalid and the service closed, unlock.              *)
EndDisconnect ==
  /\ ~LockFree
  /\ disconnecting' = NoService
  /\ IF object[disconnecting] = "alive"
       THEN /\ handle' = [handle EXCEPT ![disconnecting] = FALSE]
            /\ m_bServiceCloseFlag' = [m_bServiceCloseFlag EXCEPT ![disconnecting] = TRUE]
       ELSE UNCHANGED <<handle, m_bServiceCloseFlag>>
  /\ UNCHANGED <<idMapVars, object, g_currentSessionCnt, m_serial, m_pTimerLock,
                 m_pSessionService, timer, read, closeCalls, pc, at, logicGateway>>

-----------------------------------------------------------------------------
ServiceInit ==
  /\ IDMapInit
  /\ object = [s \in Service |-> "unborn"]
  /\ g_currentSessionCnt = 0
  /\ m_serial = [s \in Service |-> INVALID_ID]
  /\ handle = [s \in Service |-> FALSE]
  /\ m_bServiceCloseFlag = [s \in Service |-> FALSE]
  /\ m_pTimerLock = [s \in Service |-> FALSE]
  /\ m_pSessionService = [s \in Service |-> "unset"]
  /\ timer = [s \in Service |-> FALSE]
  /\ read = [s \in Service |-> FALSE]
  /\ closeCalls = [s \in Service |-> 0]
  /\ pc = [t \in IOThread |-> "idle"]
  /\ at = [t \in IOThread |-> NoService]
  /\ disconnecting = NoService
  /\ logicGateway = <<>>

(* The statements a thread executes once it has started a handler.          *)
HandlerStep(t, s) ==
  \/ OpenStreams(t, s) \/ CheckLimit(t, s) \/ Reject(t, s) \/ RegisterService(t, s)
  \/ RegisterTimer(t, s) \/ CreateSessionService(t, s) \/ OnConnect(t, s) \/ PostRecv(t, s)
  \/ OnReceive(t, s)
  \/ UnregisterService(t, s) \/ CloseSocket(t, s) \/ InvalidateHandle(t, s)
  \/ OnDisconnect(t, s) \/ DeleteSessionService(t, s) \/ SetCloseFlag(t, s)
  \/ CheckClosed(t, s) \/ DeleteService(t, s)

IOThreadStep(t, s) ==
  Accept(t, s) \/ ReadCompletes(t, s) \/ TimerExpires(t, s) \/ HandlerStep(t, s)

ServiceNext ==
  \/ \E t \in IOThread, s \in Service : IOThreadStep(t, s)
  \/ \E id \in Serial : BeginDisconnect(id)
  \/ EndDisconnect

ServiceSpec == ServiceInit /\ [][ServiceNext]_serviceVars

(* The proactor's completion port is a FIFO, so an expiry is dequeued once  *)
(* threads keep returning to it; a running handler goes on, and gets the    *)
(* manager lock unless the application takes it for ever.                   *)
ServiceFairness ==
  /\ \A t \in IOThread, s \in Service : SF_serviceVars(HandlerStep(t, s))
  /\ \A s \in Service : SF_serviceVars(\E t \in IOThread : TimerExpires(t, s))
  /\ WF_serviceVars(EndDisconnect)

ServiceFairSpec == ServiceSpec /\ ServiceFairness

-----------------------------------------------------------------------------
Alive == {s \in Service : object[s] = "alive"}

Labels == {"idle", "open", "limit", "reject", "register", "timer", "create", "connect", "recv",
           "receive", "unregister", "closesocket", "invalidate", "disconnect", "delservice",
           "flag", "timeout", "delete"}
OpenLabels == {"open", "limit", "reject", "register", "timer", "create", "connect", "recv"}
CloseLabels == {"unregister", "closesocket", "invalidate", "disconnect", "delservice", "flag"}

(* Types of the session state.                                              *)
ServiceTypeOK ==
  /\ IDMapTypeOK
  /\ object \in [Service -> {"unborn", "alive", "deleted"}]
  /\ g_currentSessionCnt \in Int
  /\ m_serial \in [Service -> Serial \cup {INVALID_ID}]
  /\ handle \in [Service -> BOOLEAN]
  /\ m_bServiceCloseFlag \in [Service -> BOOLEAN]
  /\ m_pTimerLock \in [Service -> BOOLEAN]
  /\ m_pSessionService \in [Service -> {"unset", "alive", "deleted"}]
  /\ timer \in [Service -> BOOLEAN]
  /\ read \in [Service -> BOOLEAN]
  /\ closeCalls \in [Service -> 0..MaxCloseCalls]
  /\ pc \in [IOThread -> Labels]
  /\ at \in [IOThread -> Service \cup {NoService}]
  /\ disconnecting \in Service \cup {NoService}
  /\ logicGateway \in Seq(Packet)

(* MaxAcceptCount limits the sessions of all listeners and connectors       *)
(* together (Doc/Config.md line 7), although open compares a counter that   *)
(* other threads are changing and registers later: the sessions admitted    *)
(* and not yet deleted never exceed it.                                     *)
AcceptLimit ==
  Cardinality({s \in Alive : m_serial[s] # INVALID_ID}) <= MaxUserAccept

(* A handler never runs on a service that another thread has deleted: the   *)
(* timer waits for m_bServiceCloseFlag, which ReserveClose sets last.       *)
NoUseAfterFree ==
  \A t \in IOThread : pc[t] # "idle" => object[at[t]] = "alive"

(* The registry never keeps a pointer to a deleted service, so the serial   *)
(* of an ended connection is back in the queue (Doc/Session.md line 4).     *)
RegistryPointsToLive ==
  \A id \in Serial : m_IDMap[id] # NoService => object[m_IDMap[id]] = "alive"

(* ReserveClose, Disconnect and a refusal in open test the handle, close    *)
(* the socket and invalidate the handle in separate steps, the first two on *)
(* different threads.  Still a service that is alive closes its socket once *)
(* at most, and is deleted with an open socket in one case only: open could *)
(* not open the streams.  After the delete nothing is promised: a handler   *)
(* or a Disconnect that still uses the service reads its handle from freed  *)
(* memory.                                                                  *)
SocketClosedOnce ==
  [][\A s \in Service :
       /\ closeCalls'[s] # closeCalls[s] => closeCalls[s] = 0 \/ object[s] = "deleted"
       /\ object[s] = "alive" /\ object'[s] = "deleted" =>
            closeCalls'[s] = 1 \/ \E t \in IOThread : Stands(t, s, "open")
    ]_serviceVars

(* Only the closing of a service itself gives its serial up: UnRegister     *)
(* never takes the serial away from a session that got it later.            *)
OwnSerialReleased ==
  [][\A id \in Serial :
       (m_IDMap[id] # NoService /\ m_IDMap[id]' # m_IDMap[id])
         => \E t \in IOThread : Stands(t, m_IDMap[id], "unregister") /\ pc[t]' = "closesocket"
    ]_serviceVars

(* Each session is announced to the logic by one CONNECT, before its data,  *)
(* and ends with at most one DISCONNECT, after which nothing follows.       *)
SessionProtocol ==
  \A i \in DOMAIN logicGateway :
    LET p == logicGateway[i] IN
    /\ p.type = "CONNECT" <=> \A j \in 1..(i - 1) : logicGateway[j].from # p.from
    /\ p.type = "DISCONNECT" => \A j \in DOMAIN logicGateway : j > i => logicGateway[j].from # p.from

Closing(s) ==
  m_bServiceCloseFlag[s] \/ \E t \in IOThread : at[t] = s /\ pc[t] \in CloseLabels

(* A session that is being closed, by ReserveClose or by Disconnect, is     *)
(* eventually deleted, and its slot under MaxAcceptCount is free again.     *)
SessionReclaimed ==
  \A s \in Service : Closing(s) ~> object[s] = "deleted"
=============================================================================
