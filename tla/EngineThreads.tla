---------------------------- MODULE EngineThreads -----------------------------
(***************************************************************************)
(* SFEngine with SFCasualGameDispatcher: how the threads of a server start, *)
(* work and end.                                                           *)
(*                                                                         *)
(* The main thread initializes the engine and later shuts it down; the     *)
(* logic thread takes packets from the logic gateway, the RPC thread from  *)
(* its own; the send thread executes delayed sends; the reconnect thread   *)
(* is ServerConnection's.  IO threads are the environment that fills the   *)
(* gateways.  The logic thread is one ("m_nLogicThreadCnt = 1").           *)
(***************************************************************************)
EXTENDS ServerConnection

CONSTANTS MaxTasks,  (* bound: delayed sends                                 *)
          MaxRPC     (* bound: RPC packets                                   *)

ASSUME EngineAssumption == MaxTasks \in Nat

VARIABLES
  mainPc,
  m_bLogicEnd, m_pLogicEntry,  (* LogicEntry's pointer: NULL, set, deleted  *)
  network,                     (* IO threads: off, on, ended                *)
  logicPc, packet,             (* the logic thread and the packet in hand   *)
  rpcPc, rpcQueue,
  sendPc, sendQueue, tasks, executed, nullAfter,
  late                         (* packets handled after m_bLogicEnd was set *)

logicVars  == <<logicPc, packet, late>>
rpcVars    == <<rpcPc, rpcQueue>>
sendVars   == <<sendPc, sendQueue, tasks, executed, nullAfter>>
engineVars == <<gateway, connectorVars, m_bThreadEnd, mainPc, m_bLogicEnd, m_pLogicEntry,
                network, logicVars, rpcVars, sendVars>>

DATA           == 0
SERVERSHUTDOWN == -1
NULL           == 0

(* The main thread goes from one statement to the next.                     *)
Main(from, to) == mainPc = from /\ mainPc' = to

-----------------------------------------------------------------------------
(* Intialize: CreateLogicSystem starts the logic thread before it sets the  *)
(* logic it works for; the send thread comes last.                          *)
SpawnLogic ==
  /\ Main("spawnLogic", "setLogic")
  /\ logicPc' = "test"
  /\ UNCHANGED <<gateway, connectorVars, m_bThreadEnd, m_bLogicEnd, m_pLogicEntry, network,
                 packet, late, rpcVars, sendVars>>

SetLogic ==
  /\ Main("setLogic", "spawnRPC")
  /\ m_pLogicEntry' = "set"
  /\ UNCHANGED <<gateway, connectorVars, m_bThreadEnd, m_bLogicEnd, network, logicVars, rpcVars,
                 sendVars>>

SpawnRPCAndSend ==
  /\ Main("spawnRPC", "start")
  /\ rpcPc' = "test" /\ sendPc' = "pop"
  /\ UNCHANGED <<gateway, connectorVars, m_bThreadEnd, m_bLogicEnd, m_pLogicEntry, network,
                 logicVars, rpcQueue, sendQueue, tasks, executed, nullAfter>>

(* Mutant: the network is opened with the logic threads.                    *)
MayStartEarly == mainPc \in {"setLogic", "start"}

(* The server's main calls Start once Intialize has returned; Start itself  *)
(* only tests that there is a network engine, which is so before SetLogic.  *)
MayStart == mainPc = "start"

(* Start, or SetupServerReconnectSys.                                       *)
Start ==
  /\ MayStart /\ network = "off" /\ network' = "on"
  /\ mainPc' = IF mainPc = "start" THEN "run" ELSE mainPc
  /\ UNCHANGED <<gateway, connectorVars, m_bThreadEnd, m_bLogicEnd, m_pLogicEntry, logicVars,
                 rpcVars, sendVars>>

SetupServerReconnectSys ==
  /\ Main("start", "setup")
  /\ network' = "on" /\ reconnectPc' = "scan"
  /\ UNCHANGED <<gateway, connected, links, cursor, mine, stuck, doubled, m_bThreadEnd,
                 m_bLogicEnd, m_pLogicEntry, logicVars, rpcVars, sendVars>>

SetupDone ==
  /\ Main("setup", "run") /\ reconnectPc = "wait"
  /\ UNCHANGED <<gateway, connectorVars, m_bThreadEnd, m_bLogicEnd, m_pLogicEntry, network,
                 logicVars, rpcVars, sendVars>>

-----------------------------------------------------------------------------
(* ShutDown.  ShutDownLogicSystem: the flag, ...                            *)
EndLogic ==
  /\ Main("run", "push")
  /\ m_bLogicEnd' = TRUE
  /\ UNCHANGED <<gateway, connectorVars, m_bThreadEnd, m_pLogicEntry, network, logicVars,
                 rpcVars, sendVars>>

(* Mutant: the logic thread is not woken.                                   *)
WakeLogicNot == UNCHANGED gateway

WakeLogic == gateway' = Append(gateway, SERVERSHUTDOWN)

(* ... a packet to wake the logic thread, ...                               *)
PushShutDown ==
  /\ Main("push", "destroy")
  /\ WakeLogic
  /\ UNCHANGED <<connectorVars, m_bThreadEnd, m_bLogicEnd, m_pLogicEntry, network, logicVars,
                 rpcVars, sendVars>>

(* ... the logic deleted (the pointer stays), ...                           *)
DestroyLogic ==
  /\ Main("destroy", "rpcNull")
  /\ m_pLogicEntry' = "deleted"
  /\ UNCHANGED <<gateway, connectorVars, m_bThreadEnd, m_bLogicEnd, network, logicVars, rpcVars,
                 sendVars>>

(* ... the RPC thread woken and waited for.                                 *)
PushRPCNull ==
  /\ Main("rpcNull", "waitRPC")
  /\ rpcQueue' = Append(rpcQueue, NULL)
  /\ UNCHANGED <<gateway, connectorVars, m_bThreadEnd, m_bLogicEnd, m_pLogicEntry, network,
                 logicVars, rpcPc, sendVars>>

(* The send thread ends at the first NULL.                                  *)
PushTaskNull ==
  /\ Main("waitRPC", "waitSend") /\ rpcPc = "ended"
  /\ sendQueue' = Append(sendQueue, NULL) /\ nullAfter' = tasks
  /\ UNCHANGED <<gateway, connectorVars, m_bThreadEnd, m_bLogicEnd, m_pLogicEntry, network,
                 logicVars, rpcVars, sendPc, tasks, executed>>

(* Mutant: the send thread is not waited for.                               *)
SendEndedNot == TRUE

SendEnded == sendPc = "ended"

(* m_pNetworkEngine->Shutdown.                                              *)
NetworkShutdown ==
  /\ Main("waitSend", "manager") /\ SendEnded
  /\ network' = "ended"
  /\ UNCHANGED <<gateway, connectorVars, m_bThreadEnd, m_bLogicEnd, m_pLogicEntry, logicVars,
                 rpcVars, sendVars>>

(* ~SFServerConnectionManager tells the reconnect thread, if there is one,  *)
(* and waits for it; then the engine is deleted.                            *)
EndReconnect ==
  /\ Main("manager", "waitManager")
  /\ m_bThreadEnd' = (reconnectPc # "none")
  /\ UNCHANGED <<gateway, connectorVars, m_bLogicEnd, m_pLogicEntry, network, logicVars,
                 rpcVars, sendVars>>

DeleteEngine ==
  /\ Main("waitManager", "gone") /\ reconnectPc \in {"none", "ended"}
  /\ UNCHANGED <<gateway, connectorVars, m_bThreadEnd, m_bLogicEnd, m_pLogicEntry, network,
                 logicVars, rpcVars, sendVars>>

-----------------------------------------------------------------------------
(* Mutant: the flag is not looked at.                                       *)
LogicGoesOn == TRUE

LogicContinues == m_bLogicEnd = FALSE

(* LogicThreadProc: test, pop, process.                                     *)
LogicTest ==
  /\ logicPc = "test"
  /\ logicPc' = IF LogicContinues THEN "pop" ELSE "ended"
  /\ UNCHANGED <<gateway, connectorVars, m_bThreadEnd, mainPc, m_bLogicEnd, m_pLogicEntry,
                 network, packet, late, rpcVars, sendVars>>

LogicPop ==
  /\ logicPc = "pop" /\ gateway # <<>>
  /\ logicPc' = "process"
  /\ packet' = Head(gateway) /\ gateway' = Tail(gateway)
  /\ UNCHANGED <<connectorVars, m_bThreadEnd, mainPc, m_bLogicEnd, m_pLogicEntry, network, late,
                 rpcVars, sendVars>>

(* The packet in hand is done with.                                         *)
PacketHandled ==
  /\ packet' = DATA
  /\ late' = IF m_bLogicEnd THEN late + 1 ELSE late

(* LogicEntry::ProcessPacket.  A handler may send with delay.  DestroyLogic *)
(* leaves the pointer as it is: a deleted logic may act as before ...       *)
LogicProcess(delayed) ==
  /\ logicPc = "process" /\ logicPc' = "test"
  /\ PacketHandled
  /\ IF packet \in Connector /\ m_pLogicEntry # "NULL" THEN SetConnectorState(packet)
                                                       ELSE UNCHANGED connected
  /\ IF delayed
       THEN /\ packet = DATA /\ m_pLogicEntry # "NULL" /\ tasks < MaxTasks
            /\ tasks' = tasks + 1 /\ sendQueue' = Append(sendQueue, tasks + 1)
       ELSE UNCHANGED <<tasks, sendQueue>>
  /\ UNCHANGED <<gateway, links, reconnectPc, cursor, mine, stuck, doubled, m_bThreadEnd, mainPc,
                 m_bLogicEnd, m_pLogicEntry, network, rpcVars, sendPc, executed, nullAfter>>

(* ... or do anything else: the thread is not followed from there.          *)
LogicDangles ==
  /\ logicPc = "process" /\ m_pLogicEntry = "deleted"
  /\ logicPc' = "undefined"
  /\ PacketHandled
  /\ UNCHANGED <<gateway, connectorVars, m_bThreadEnd, mainPc, m_bLogicEnd, m_pLogicEntry,
                 network, rpcVars, sendVars>>

(* RPCThreadProc.                                                           *)
RPCTest ==
  /\ rpcPc = "test"
  /\ rpcPc' = IF m_bLogicEnd THEN "ended" ELSE "pop"
  /\ UNCHANGED <<gateway, connectorVars, m_bThreadEnd, mainPc, m_bLogicEnd, m_pLogicEntry,
                 network, logicVars, rpcQueue, sendVars>>

RPCPop ==
  /\ rpcPc = "pop" /\ rpcQueue # <<>>
  /\ rpcPc' = "test" /\ rpcQueue' = Tail(rpcQueue)
  /\ UNCHANGED <<gateway, connectorVars, m_bThreadEnd, mainPc, m_bLogicEnd, m_pLogicEntry,
                 network, logicVars, sendVars>>

(* Mutant: the send thread also ends with the logic.                        *)
SendStopsWithLogic == Head(sendQueue) = NULL \/ m_bLogicEnd

SendStops == Head(sendQueue) = NULL

(* PacketSendThread.                                                        *)
PacketSendThread ==
  /\ sendPc = "pop" /\ sendQueue # <<>>
  /\ sendQueue' = Tail(sendQueue)
  /\ IF SendStops
       THEN sendPc' = "ended"
       ELSE sendPc' = "execute"
  /\ UNCHANGED <<gateway, connectorVars, m_bThreadEnd, mainPc, m_bLogicEnd, m_pLogicEntry,
                 network, logicVars, rpcVars, tasks, executed, nullAfter>>

Execute ==
  /\ sendPc = "execute" /\ sendPc' = "pop"
  /\ executed' = executed + 1
  /\ UNCHANGED <<gateway, connectorVars, m_bThreadEnd, mainPc, m_bLogicEnd, m_pLogicEntry,
                 network, logicVars, rpcVars, sendQueue, tasks, nullAfter>>

-----------------------------------------------------------------------------
(* IO threads: Dispatch puts a packet into the gateway it belongs to.       *)
Dispatch ==
  /\ network = "on"
  /\ \/ /\ Len(gateway) < MaxGateway /\ gateway' = Append(gateway, DATA)
        /\ UNCHANGED rpcQueue
     \/ /\ Len(rpcQueue) < MaxRPC /\ rpcQueue' = Append(rpcQueue, 1)
        /\ UNCHANGED gateway
  /\ UNCHANGED <<connectorVars, m_bThreadEnd, mainPc, m_bLogicEnd, m_pLogicEntry, network,
                 logicVars, rpcPc, sendVars>>

LinkEvent ==
  /\ network = "on" /\ \E k \in Connector : LinkDrops(k)
  /\ UNCHANGED <<mainPc, m_bLogicEnd, m_pLogicEntry, network, logicVars, rpcVars, sendVars>>

Reconnect ==
  /\ ReconnectNext(IF logicPc = "process" THEN packet ELSE DATA)
  /\ UNCHANGED <<mainPc, m_bLogicEnd, m_pLogicEntry, network, logicVars, rpcVars, sendVars>>

EngineInit ==
  /\ ConnectorInit
  /\ mainPc = "spawnLogic" /\ m_bLogicEnd = FALSE /\ m_pLogicEntry = "NULL" /\ network = "off"
  /\ logicPc = "none" /\ packet = DATA /\ late = 0
  /\ rpcPc = "none" /\ rpcQueue = <<>>
  /\ sendPc = "none" /\ sendQueue = <<>> /\ tasks = 0 /\ executed = 0 /\ nullAfter = MaxTasks

Initialize == SpawnLogic \/ SetLogic \/ SpawnRPCAndSend \/ Start \/ SetupServerReconnectSys \/ SetupDone
ShutDown   == \/ PushShutDown \/ DestroyLogic \/ PushRPCNull \/ PushTaskNull
              \/ NetworkShutdown \/ EndReconnect \/ DeleteEngine
Logic      == \/ LogicTest \/ LogicPop \/ LogicDangles
              \/ \E delayed \in BOOLEAN : LogicProcess(delayed)
RPC        == RPCTest \/ RPCPop
Send       == PacketSendThread \/ Execute

EngineNext ==
  \/ Initialize \/ EndLogic \/ ShutDown \/ Logic \/ RPC \/ Send
  \/ Dispatch \/ LinkEvent \/ Reconnect

EngineSpec == EngineInit /\ [][EngineNext]_engineVars

(* Every thread that can run does.  Nobody has to call ShutDown, and no     *)
(* packet has to come.                                                      *)
EngineFairSpec ==
  /\ EngineSpec
  /\ WF_engineVars(Initialize) /\ WF_engineVars(ShutDown)
  /\ WF_engineVars(Logic) /\ WF_engineVars(RPC) /\ WF_engineVars(Send)
  /\ WF_engineVars(Reconnect)

-----------------------------------------------------------------------------
(* Type invariant.                                                          *)
EngineTypeOK ==
  /\ gateway \in Seq({SERVERSHUTDOWN, DATA} \cup Connector)
  /\ connected \in [Connector -> BOOLEAN] /\ links \in [Connector -> Nat]
  /\ stuck \in [Connector -> BOOLEAN] /\ doubled \in [Connector -> BOOLEAN]
  /\ reconnectPc \in {"none", "scan", "connect", "store", "wait", "ended"}
  /\ cursor \in 1..ConnectorCount + 1 /\ mine \in BOOLEAN
  /\ m_bThreadEnd \in BOOLEAN /\ m_bLogicEnd \in BOOLEAN
  /\ m_pLogicEntry \in {"NULL", "set", "deleted"} /\ network \in {"off", "on", "ended"}
  /\ logicPc \in {"none", "test", "pop", "process", "ended", "undefined"}
  /\ packet \in {SERVERSHUTDOWN, DATA} \cup Connector
  /\ rpcPc \in {"none", "test", "pop", "ended"} /\ rpcQueue \in Seq({0, 1})
  /\ sendPc \in {"none", "pop", "execute", "ended"} /\ sendQueue \in Seq(Nat)
  /\ tasks \in Nat /\ executed \in Nat /\ nullAfter \in Nat /\ late \in Nat

(* The network ends after the threads that send through it, and the engine  *)
(* is deleted after every thread that uses it except the logic thread,      *)
(* which nobody waits for.                                                  *)
ThreadsEndFirst ==
  /\ network = "ended" => rpcPc = "ended" /\ sendPc = "ended"
  /\ mainPc = "gone" => network = "ended" /\ reconnectPc \in {"none", "ended"}

(* DestroyLogic does not wait for the logic thread: that it handles one     *)
(* packet at most once m_bLogicEnd is set bounds what it does to a logic    *)
(* that may be deleted under its feet.                                      *)
LogicStopsPromptly == late <= 1

(* The logic thread runs before SetLogic, but no packet is dropped for want *)
(* of a logic, because the network opens later.                             *)
NoPacketDropped == logicPc = "process" => m_pLogicEntry # "NULL"

(* ShutDown returns, and the logic thread ends too, unless DestroyLogic     *)
(* took the logic from under the packet it had in hand: from there nothing  *)
(* is promised.                                                             *)
ShutDownCompletes ==
  m_bLogicEnd ~> (mainPc = "gone" /\ logicPc = "ended") \/ logicPc = "undefined"

(* A delayed send is executed unless it came after ShutDown's NULL, which a *)
(* logic thread nobody waits for can still bring about.                     *)
DelayedSendExecuted ==
  \A n \in 1..MaxTasks : tasks >= n ~> executed >= n \/ nullAfter < n

(* A link that is down is tried again while the server runs, unless its     *)
(* connector has no callback or a late result hid that it is down.          *)
LinkRetried ==
  \A k \in HasCallback :
    links[k] = 0 /\ reconnectPc # "none" ~>
      links[k] > 0 \/ stuck[k] \/ m_bLogicEnd \/ (reconnectPc = "connect" /\ cursor = k)
=============================================================================
