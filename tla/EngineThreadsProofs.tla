------------------------- MODULE EngineThreadsProofs --------------------------
(***************************************************************************)
(* The safety properties of the engine's threads and of the server links,  *)
(* for any number of connectors, links, packets and delayed sends.         *)
(***************************************************************************)
EXTENDS EngineThreads, SequenceTheorems, TLAPS

(* Before SetLogic nothing has come in that the logic thread could take.    *)
StartInv ==
  /\ m_pLogicEntry = "NULL" <=> mainPc \in {"spawnLogic", "setLogic"}
  /\ m_pLogicEntry = "NULL" => network = "off" /\ gateway = <<>> /\ logicPc # "process"
  /\ mainPc \in {"spawnLogic", "setLogic", "spawnRPC", "start"} => reconnectPc = "none"

(* The one packet after the flag is the one the thread had in hand, or was  *)
(* about to pop.                                                            *)
LateInv ==
  /\ late <= 1
  /\ ~m_bLogicEnd \/ logicPc \in {"pop", "process"} => late = 0

(* What the main thread has waited for.                                     *)
EndInv ==
  /\ mainPc \in {"waitSend", "manager", "waitManager", "gone"} => rpcPc = "ended"
  /\ mainPc \in {"manager", "waitManager", "gone"} <=> network = "ended"
  /\ network = "ended" => sendPc = "ended"
  /\ mainPc = "gone" => reconnectPc \in {"none", "ended"}

InHand == IF logicPc = "process" THEN packet ELSE DATA

Queued(k) == \E i \in DOMAIN gateway : gateway[i] = k

(* A connector whose result was never stored as failed too early has one    *)
(* link, or one DISCONNECT under way, or neither; and while it has either   *)
(* it is noted as connected or about to be.                                 *)
LinkInvOf(k) ==
  /\ links[k] <= 1
  /\ links[k] = 1 => ~Queued(k) /\ InHand # k
  /\ InHand = k => ~Queued(k)
  /\ \A i, j \in DOMAIN gateway : gateway[i] = k /\ gateway[j] = k => i = j
  /\ links[k] = 1 \/ Queued(k) \/ InHand = k =>
       connected[k] \/ (reconnectPc = "store" /\ cursor = k)
  /\ reconnectPc \in {"connect", "store"} /\ cursor = k => ~connected[k]
  /\ reconnectPc = "store" /\ cursor = k => (links[k] = 1 <=> mine)

LinkInv == \A k \in Connector : ~doubled[k] => LinkInvOf(k)

CursorInv == reconnectPc \in {"connect", "store"} => cursor \in Connector

EngineInv == EngineTypeOK /\ CursorInv /\ StartInv /\ LateInv /\ EndInv /\ LinkInv

-----------------------------------------------------------------------------
(* The steps of the engine, flattened.                                      *)
MainStep == Initialize \/ EndLogic \/ ShutDown

USE EngineAssumption, ConnectorAssumption

(* The type invariant holds initially and is kept by every step.            *)
LEMMA TypeInit == EngineInit => EngineTypeOK /\ CursorInv
<1> SUFFICES ASSUME EngineInit PROVE EngineTypeOK /\ CursorInv OBVIOUS
<1> USE DEF EngineInit, ConnectorInit
<1>1. gateway \in Seq({SERVERSHUTDOWN, DATA} \cup Connector) /\ rpcQueue \in Seq({0, 1})
      /\ sendQueue \in Seq(Nat)
  BY EmptySeq
<1>2. cursor \in 1..ConnectorCount + 1 BY DEF Begin
<1>3. /\ connected \in [Connector -> BOOLEAN] /\ links \in [Connector -> Nat]
      /\ stuck \in [Connector -> BOOLEAN] /\ doubled \in [Connector -> BOOLEAN]
  OBVIOUS
<1> QED BY <1>1, <1>2, <1>3 DEF EngineTypeOK, CursorInv

LEMMA MainKeepsType ==
  ASSUME EngineTypeOK, CursorInv, MainStep
  PROVE  EngineTypeOK' /\ CursorInv'
<1> USE DEF EngineTypeOK, CursorInv, Main, engineVars, connectorVars, logicVars, rpcVars, sendVars
<1>1. CASE SpawnLogic BY <1>1 DEF SpawnLogic
<1>2. CASE SetLogic BY <1>2 DEF SetLogic
<1>3. CASE SpawnRPCAndSend BY <1>3 DEF SpawnRPCAndSend
<1>4. CASE Start BY <1>4 DEF Start
<1>5. CASE SetupServerReconnectSys BY <1>5 DEF SetupServerReconnectSys
<1>6. CASE SetupDone BY <1>6 DEF SetupDone
<1>7. CASE EndLogic BY <1>7 DEF EndLogic
<1>8. CASE PushShutDown BY <1>8, AppendProperties DEF PushShutDown, WakeLogic
<1>9. CASE DestroyLogic BY <1>9 DEF DestroyLogic
<1>10. CASE PushRPCNull BY <1>10, AppendProperties DEF PushRPCNull, NULL
<1>11. CASE PushTaskNull BY <1>11, AppendProperties DEF PushTaskNull, NULL
<1>12. CASE NetworkShutdown BY <1>12 DEF NetworkShutdown
<1>13. CASE EndReconnect BY <1>13 DEF EndReconnect
<1>14. CASE DeleteEngine BY <1>14 DEF DeleteEngine
<1> QED BY <1>1, <1>2, <1>3, <1>4, <1>5, <1>6, <1>7, <1>8, <1>9, <1>10, <1>11, <1>12, <1>13, <1>14
        DEF MainStep, Initialize, ShutDown

LEMMA ReconnectKeepsType ==
  ASSUME EngineTypeOK, CursorInv, Reconnect
  PROVE  EngineTypeOK' /\ CursorInv'
<1> USE DEF EngineTypeOK, logicVars, rpcVars, sendVars
<1>0. UNCHANGED <<mainPc, m_bLogicEnd, m_pLogicEntry, network, logicVars, rpcVars, sendVars>>
  BY DEF Reconnect
<1>1. CASE Scan
  <2>1. cursor' \in 1..ConnectorCount + 1 /\ CursorInv' BY <1>1 DEF Scan, CursorInv, Connector
  <2> QED BY <1>0, <1>1, <2>1 DEF Scan
<1>2. CASE AddConnector
  <2>1. cursor' \in 1..ConnectorCount + 1 /\ CursorInv' BY <1>2 DEF AddConnector, CursorInv, Connector
  <2> QED BY <1>0, <1>2, <2>1 DEF AddConnector, CursorInv
<1>3. CASE ConnectFails
  <2>1. cursor' \in 1..ConnectorCount + 1 /\ CursorInv' BY <1>3 DEF ConnectFails, CursorInv, Connector
  <2> QED BY <1>0, <1>3, <2>1 DEF ConnectFails
<1>4. CASE OpenRefused
  <2>1. cursor' \in 1..ConnectorCount + 1 /\ CursorInv' BY <1>4 DEF OpenRefused, CursorInv, Connector
  <2>2. reconnectPc' = "store" /\ mine' \in BOOLEAN
        /\ UNCHANGED <<gateway, connected, links, m_bThreadEnd, stuck, doubled>>
    BY <1>4 DEF OpenRefused
  <2> QED BY <1>0, <2>1, <2>2
<1>5. CASE ServerReconnectProc BY <1>0, <1>5 DEF ServerReconnectProc, Begin, CursorInv
<1>6. ASSUME NEW ok \in BOOLEAN, StoreResult(ok, InHand)
      PROVE  EngineTypeOK' /\ CursorInv'
  <2>1. (connected[cursor] \/ ok) \in BOOLEAN BY <1>6 DEF StoreResult
  <2>2. connected' \in [Connector -> BOOLEAN] BY <1>6, <2>1 DEF StoreResult
  <2>3. stuck' \in [Connector -> BOOLEAN] BY <1>6, Zenon DEF StoreResult
  <2>4. doubled' \in [Connector -> BOOLEAN] BY <1>6, Zenon DEF StoreResult
  <2>5. cursor' \in 1..ConnectorCount + 1 /\ CursorInv' BY <1>6 DEF StoreResult, CursorInv, Connector
  <2>6. reconnectPc' = "scan" /\ mine' \in BOOLEAN /\ UNCHANGED <<gateway, links, m_bThreadEnd>>
    BY <1>6 DEF StoreResult
  <2> QED BY <1>0, <2>2, <2>3, <2>4, <2>5, <2>6
<1> QED BY <1>1, <1>2, <1>3, <1>4, <1>5, <1>6 DEF Reconnect, ReconnectNext, InHand

LEMMA ThreadsKeepType ==
  ASSUME EngineTypeOK, CursorInv, Logic \/ RPC \/ Send \/ Dispatch \/ LinkEvent
  PROVE  EngineTypeOK' /\ CursorInv'
<1> USE DEF EngineTypeOK, CursorInv, connectorVars, logicVars, rpcVars, sendVars
<1>1. CASE LogicTest BY <1>1 DEF LogicTest
<1>2. CASE LogicPop BY <1>2, HeadTailProperties DEF LogicPop
<1>3. ASSUME NEW delayed \in BOOLEAN, LogicProcess(delayed)
      PROVE  EngineTypeOK' /\ CursorInv'
  <2>1. connected' \in [Connector -> BOOLEAN] BY <1>3 DEF LogicProcess, SetConnectorState
  <2>2. tasks' \in Nat /\ sendQueue' \in Seq(Nat)
    <3>1. tasks + 1 \in Nat /\ Append(sendQueue, tasks + 1) \in Seq(Nat) BY AppendProperties
    <3> QED BY <1>3, <3>1 DEF LogicProcess
  <2>3. packet' \in {SERVERSHUTDOWN, DATA} \cup Connector /\ late' \in Nat
    BY <1>3 DEF LogicProcess, PacketHandled
  <2> QED BY <1>3, <2>1, <2>2, <2>3 DEF LogicProcess
<1>4. CASE RPCTest BY <1>4 DEF RPCTest
<1>5. CASE RPCPop BY <1>5, HeadTailProperties DEF RPCPop
<1>6. CASE PacketSendThread BY <1>6, HeadTailProperties DEF PacketSendThread
<1>7. CASE Execute BY <1>7 DEF Execute
<1>8. CASE Dispatch
  <2>1. /\ Append(gateway, DATA) \in Seq({SERVERSHUTDOWN, DATA} \cup Connector)
        /\ Append(rpcQueue, 1) \in Seq({0, 1})
    BY AppendProperties
  <2>2. gateway' \in Seq({SERVERSHUTDOWN, DATA} \cup Connector) /\ rpcQueue' \in Seq({0, 1})
    BY <1>8, <2>1 DEF Dispatch
  <2>3. UNCHANGED <<connectorVars, m_bThreadEnd, mainPc, m_bLogicEnd, m_pLogicEntry, network,
                    logicVars, rpcPc, sendVars>>
    BY <1>8 DEF Dispatch
  <2> QED BY <2>2, <2>3
<1>9. ASSUME NEW k \in Connector, LinkEvent, LinkDrops(k)
      PROVE  EngineTypeOK' /\ CursorInv'
  <2>1. gateway' \in Seq({SERVERSHUTDOWN, DATA} \cup Connector)
    BY <1>9, AppendProperties DEF LinkDrops
  <2>2. links' \in [Connector -> Nat] BY <1>9 DEF LinkDrops
  <2>3. mine' \in BOOLEAN
    <3>1. {FALSE, links[k] > 1} \subseteq BOOLEAN OBVIOUS
    <3> QED BY <1>9, <3>1 DEF LinkDrops
  <2> QED BY <1>9, <2>1, <2>2, <2>3 DEF LinkDrops, LinkEvent
<1>10. CASE LogicDangles BY <1>10 DEF LogicDangles, PacketHandled
<1> QED BY <1>1, <1>2, <1>3, <1>4, <1>5, <1>6, <1>7, <1>8, <1>9, <1>10
        DEF Logic, RPC, Send, LinkEvent

LEMMA StutterKeepsType ==
  ASSUME EngineTypeOK, CursorInv, UNCHANGED engineVars
  PROVE  EngineTypeOK' /\ CursorInv'
BY DEF EngineTypeOK, CursorInv, engineVars, connectorVars, logicVars, rpcVars, sendVars

-----------------------------------------------------------------------------
(* Start and end of the threads.                                            *)
ControlInv == StartInv /\ LateInv /\ EndInv

LEMMA ControlInit == EngineInit => ControlInv
BY DEF EngineInit, ConnectorInit, ControlInv, StartInv, LateInv, EndInv

LEMMA MainKeepsControl ==
  ASSUME EngineTypeOK, ControlInv, MainStep
  PROVE  ControlInv'
<1> USE DEF ControlInv, StartInv, LateInv, EndInv, Main, connectorVars, logicVars, rpcVars, sendVars
<1>1. CASE SpawnLogic BY <1>1 DEF SpawnLogic
<1>2. CASE SetLogic BY <1>2 DEF SetLogic
<1>3. CASE SpawnRPCAndSend BY <1>3 DEF SpawnRPCAndSend
<1>4. CASE Start BY <1>4 DEF Start, MayStart
<1>5. CASE SetupServerReconnectSys BY <1>5 DEF SetupServerReconnectSys
<1>6. CASE SetupDone BY <1>6 DEF SetupDone
<1>7. CASE EndLogic BY <1>7 DEF EndLogic
<1>8. CASE PushShutDown BY <1>8 DEF PushShutDown, WakeLogic
<1>9. CASE DestroyLogic BY <1>9 DEF DestroyLogic
<1>10. CASE PushRPCNull BY <1>10 DEF PushRPCNull
<1>11. CASE PushTaskNull BY <1>11 DEF PushTaskNull
<1>12. CASE NetworkShutdown BY <1>12 DEF NetworkShutdown, SendEnded
<1>13. CASE EndReconnect BY <1>13 DEF EndReconnect
<1>14. CASE DeleteEngine BY <1>14 DEF DeleteEngine
<1> QED BY <1>1, <1>2, <1>3, <1>4, <1>5, <1>6, <1>7, <1>8, <1>9, <1>10, <1>11, <1>12, <1>13, <1>14
        DEF MainStep, Initialize, ShutDown

LEMMA ReconnectKeepsControl ==
  ASSUME EngineTypeOK, ControlInv, Reconnect
  PROVE  ControlInv'
<1>1. reconnectPc \in {"none", "ended"} => FALSE
  BY DEF Reconnect, ReconnectNext, Scan, AddConnector, ConnectFails, OpenRefused, ServerReconnectProc,
         StoreResult
<1>2. UNCHANGED gateway
  BY DEF Reconnect, ReconnectNext, Scan, AddConnector, ConnectFails, OpenRefused, ServerReconnectProc,
         StoreResult
<1>3. UNCHANGED <<mainPc, m_bLogicEnd, m_pLogicEntry, network, logicVars, rpcVars, sendVars>>
  BY DEF Reconnect
<1> QED BY <1>1, <1>2, <1>3 DEF ControlInv, StartInv, LateInv, EndInv, logicVars, rpcVars, sendVars

LEMMA ThreadsKeepControl ==
  ASSUME EngineTypeOK, ControlInv, Logic \/ RPC \/ Send \/ Dispatch \/ LinkEvent
  PROVE  ControlInv'
<1> USE DEF EngineTypeOK, ControlInv, StartInv, LateInv, EndInv, connectorVars, logicVars, rpcVars, sendVars
<1>1. CASE LogicTest BY <1>1 DEF LogicTest, LogicContinues
<1>2. CASE LogicPop BY <1>2 DEF LogicPop
<1>3. ASSUME NEW delayed \in BOOLEAN, LogicProcess(delayed)
      PROVE  ControlInv'
  BY <1>3 DEF LogicProcess, PacketHandled
<1>4. CASE RPCTest BY <1>4 DEF RPCTest
<1>5. CASE RPCPop BY <1>5 DEF RPCPop
<1>6. CASE PacketSendThread BY <1>6 DEF PacketSendThread
<1>7. CASE Execute BY <1>7 DEF Execute
<1>8. CASE Dispatch BY <1>8 DEF Dispatch
<1>9. CASE LinkEvent BY <1>9 DEF LinkEvent, LinkDrops
<1>10. CASE LogicDangles BY <1>10 DEF LogicDangles, PacketHandled
<1> QED BY <1>1, <1>2, <1>3, <1>4, <1>5, <1>6, <1>7, <1>8, <1>9, <1>10 DEF Logic, RPC, Send

LEMMA StutterKeepsControl ==
  ASSUME ControlInv, UNCHANGED engineVars
  PROVE  ControlInv'
BY DEF ControlInv, StartInv, LateInv, EndInv, engineVars, connectorVars, logicVars, rpcVars, sendVars

-----------------------------------------------------------------------------
(* Links to other servers.                                                  *)
LEMMA LinkInit == EngineInit => LinkInv
BY DEF EngineInit, ConnectorInit, LinkInv, LinkInvOf, Queued, InHand, DATA, Connector

(* A packet that is no DISCONNECT of a link does not count as one.          *)
LEMMA OtherPacket ==
  ASSUME EngineTypeOK, NEW x \in {DATA, SERVERSHUTDOWN}, gateway' = Append(gateway, x),
         NEW k \in Connector
  PROVE  /\ Queued(k)' <=> Queued(k)
         /\ (\A i, j \in DOMAIN gateway : gateway[i] = k /\ gateway[j] = k => i = j) =>
            (\A i, j \in DOMAIN gateway' : gateway'[i] = k /\ gateway'[j] = k => i = j)
<1>1. x # k BY DEF DATA, SERVERSHUTDOWN, Connector
<1>2. /\ Len(gateway) \in Nat /\ DOMAIN gateway = 1..Len(gateway)
      /\ DOMAIN gateway' = 1..Len(gateway) + 1
      /\ \A i \in 1..Len(gateway) : gateway'[i] = gateway[i]
      /\ gateway'[Len(gateway) + 1] = x
  BY AppendProperties, LenProperties DEF EngineTypeOK
<1>3. ASSUME NEW i \in DOMAIN gateway', gateway'[i] = k
      PROVE  i \in DOMAIN gateway /\ gateway[i] = k
  BY <1>1, <1>2, <1>3
<1> QED BY <1>2, <1>3 DEF Queued

(* Steps that touch neither links nor their DISCONNECTs.                    *)
LEMMA QuietLink ==
  ASSUME EngineTypeOK, LinkInv, UNCHANGED connectorVars, InHand' = InHand,
         \/ UNCHANGED gateway
         \/ \E x \in {DATA, SERVERSHUTDOWN} : gateway' = Append(gateway, x)
  PROVE  LinkInv'
<1> SUFFICES ASSUME NEW k \in Connector, ~doubled'[k] PROVE LinkInvOf(k)'
  BY DEF LinkInv
<1>1. LinkInvOf(k) BY DEF LinkInv, connectorVars
<1>2. /\ Queued(k)' <=> Queued(k)
      /\ (\A i, j \in DOMAIN gateway : gateway[i] = k /\ gateway[j] = k => i = j) =>
         (\A i, j \in DOMAIN gateway' : gateway'[i] = k /\ gateway'[j] = k => i = j)
  BY OtherPacket DEF Queued
<1> QED BY <1>1, <1>2 DEF LinkInvOf, connectorVars

LEMMA MainKeepsLinks ==
  ASSUME EngineTypeOK, StartInv, LinkInv, MainStep
  PROVE  LinkInv'
<1>1. CASE SetupServerReconnectSys
  <2> SUFFICES ASSUME NEW k \in Connector, ~doubled'[k] PROVE LinkInvOf(k)'
    BY DEF LinkInv
  <2>1. LinkInvOf(k) /\ reconnectPc = "none"
    BY <1>1 DEF LinkInv, SetupServerReconnectSys, Main, StartInv
  <2> QED BY <1>1, <2>1 DEF LinkInvOf, SetupServerReconnectSys, Queued, InHand, logicVars
<1>2. CASE PushShutDown
  BY <1>2, QuietLink DEF PushShutDown, WakeLogic, InHand, logicVars
<1>3. CASE SpawnLogic
  BY <1>3, QuietLink DEF SpawnLogic, Main, StartInv, InHand, logicVars
<1>4. CASE SetLogic \/ SpawnRPCAndSend \/ Start \/ SetupDone \/ EndLogic \/ DestroyLogic
           \/ PushRPCNull \/ PushTaskNull \/ NetworkShutdown \/ EndReconnect \/ DeleteEngine
  <2>1. UNCHANGED <<gateway, connectorVars, logicVars>>
    BY <1>4 DEF SetLogic, SpawnRPCAndSend, Start, SetupDone, EndLogic, DestroyLogic, PushRPCNull,
       PushTaskNull, NetworkShutdown, EndReconnect, DeleteEngine
  <2> QED BY <2>1, QuietLink DEF InHand, logicVars
<1> QED BY <1>1, <1>2, <1>3, <1>4 DEF MainStep, Initialize, ShutDown

(* The logic thread takes a packet and handles it.                          *)
LEMMA LogicKeepsLinks ==
  ASSUME EngineTypeOK, LinkInv, Logic
  PROVE  LinkInv'
<1>1. CASE LogicTest
  BY <1>1, QuietLink DEF LogicTest, InHand
<1>2. CASE LogicPop
  <2> SUFFICES ASSUME NEW k \in Connector, ~doubled'[k] PROVE LinkInvOf(k)'
    BY DEF LinkInv
  <2>1. LinkInvOf(k) BY <1>2 DEF LinkInv, LogicPop, connectorVars
  <2>2. /\ Len(gateway) \in Nat \ {0} /\ DOMAIN gateway = 1..Len(gateway)
        /\ DOMAIN gateway' = 1..Len(gateway) - 1
        /\ \A i \in 1..Len(gateway) - 1 : gateway'[i] = gateway[i + 1]
        /\ InHand' = gateway[1] /\ InHand = DATA
    BY <1>2, HeadTailProperties, LenProperties DEF LogicPop, EngineTypeOK, InHand
  <2>3. DATA # k BY DEF DATA, Connector
  <2>a. ASSUME NEW i \in DOMAIN gateway', gateway'[i] = k
        PROVE  i + 1 \in DOMAIN gateway /\ gateway[i + 1] = k
    BY <2>2, <2>a
  <2>b. ASSUME NEW i \in DOMAIN gateway, gateway[i] = k, i # 1
        PROVE  i - 1 \in DOMAIN gateway' /\ gateway'[i - 1] = k
    BY <2>2, <2>b
  <2>4. Queued(k)' \/ InHand' = k <=> Queued(k)
    <3>1. Queued(k)' => Queued(k) BY <2>a DEF Queued
    <3>a. 1 \in DOMAIN gateway BY <2>2
    <3>2. InHand' = k => Queued(k) BY <2>2, <3>a DEF Queued
    <3>3. Queued(k) => Queued(k)' \/ InHand' = k BY <2>2, <2>b DEF Queued
    <3> QED BY <3>1, <3>2, <3>3
  <2>5. ASSUME InHand' = k, Queued(k)' PROVE FALSE
    <3>1. PICK i \in DOMAIN gateway' : gateway'[i] = k BY <2>5 DEF Queued
    <3>2. i + 1 \in DOMAIN gateway /\ gateway[i + 1] = k BY <2>a, <3>1
    <3>3. 1 \in DOMAIN gateway /\ gateway[1] = k BY <2>2, <2>5
    <3>4. i + 1 = 1 BY <2>1, <3>2, <3>3 DEF LinkInvOf
    <3> QED BY <2>2, <3>4
  <2>6. \A i, j \in DOMAIN gateway' : gateway'[i] = k /\ gateway'[j] = k => i = j
    <3> SUFFICES ASSUME NEW i \in DOMAIN gateway', NEW j \in DOMAIN gateway',
                        gateway'[i] = k, gateway'[j] = k
                 PROVE  i = j
      OBVIOUS
    <3>1. i + 1 \in DOMAIN gateway /\ j + 1 \in DOMAIN gateway /\ gateway[i + 1] = k /\ gateway[j + 1] = k
      BY <2>a
    <3>2. i + 1 = j + 1 BY <2>1, <3>1 DEF LinkInvOf
    <3> QED BY <2>2, <3>2
  <2>7. UNCHANGED connectorVars BY <1>2 DEF LogicPop
  <2> QED BY <2>1, <2>3, <2>4, <2>5, <2>6, <2>7 DEF LinkInvOf, connectorVars
<1>3. ASSUME NEW delayed \in BOOLEAN, LogicProcess(delayed)
      PROVE  LinkInv'
  <2> SUFFICES ASSUME NEW k \in Connector, ~doubled'[k] PROVE LinkInvOf(k)'
    BY DEF LinkInv
  <2>1. /\ UNCHANGED <<gateway, links, reconnectPc, cursor, mine, doubled>>
        /\ InHand = packet /\ InHand' = DATA
    BY <1>3 DEF LogicProcess, PacketHandled, InHand
  <2>2. DATA # k BY DEF DATA, Connector
  <2>3. LinkInvOf(k) BY <2>1 DEF LinkInv
  <2>4. connected'[k] = connected[k] \/ (InHand = k /\ connected'[k] = FALSE)
    BY <1>3, <2>1 DEF LogicProcess, SetConnectorState, EngineTypeOK
  <2>5. Queued(k)' <=> Queued(k) BY <2>1 DEF Queued
  <2> QED BY <2>1, <2>2, <2>3, <2>4, <2>5 DEF LinkInvOf
<1>4. CASE LogicDangles
  <2> SUFFICES ASSUME NEW k \in Connector, ~doubled'[k] PROVE LinkInvOf(k)'
    BY DEF LinkInv
  <2>1. UNCHANGED <<gateway, connectorVars>> /\ InHand' = DATA
    BY <1>4 DEF LogicDangles, InHand
  <2>2. LinkInvOf(k) /\ DATA # k
    BY <2>1 DEF LinkInv, connectorVars, DATA, Connector
  <2> QED BY <2>1, <2>2 DEF LinkInvOf, Queued, connectorVars
<1> QED BY <1>1, <1>2, <1>3, <1>4 DEF Logic

(* A link that drops leaves one DISCONNECT behind.                          *)
LEMMA DropKeepsLinks ==
  ASSUME EngineTypeOK, LinkInv, NEW l \in Connector, LinkDrops(l), UNCHANGED logicVars
  PROVE  LinkInv'
<1> SUFFICES ASSUME NEW k \in Connector, ~doubled'[k] PROVE LinkInvOf(k)'
  BY DEF LinkInv
<1>1. LinkInvOf(k) BY DEF LinkInv, LinkDrops
<1>2. /\ Len(gateway) \in Nat /\ DOMAIN gateway = 1..Len(gateway)
      /\ DOMAIN gateway' = 1..Len(gateway) + 1
      /\ \A i \in 1..Len(gateway) : gateway'[i] = gateway[i]
      /\ gateway'[Len(gateway) + 1] = l
  BY AppendProperties, LenProperties DEF EngineTypeOK, LinkDrops
<1>3. InHand' = InHand BY DEF InHand, logicVars
<1>4. UNCHANGED <<connected, reconnectPc, cursor, doubled>> BY DEF LinkDrops
<1>5. CASE k = l
  <2>1. links[k] = 1 /\ links'[k] = 0 BY <1>1, <1>5 DEF LinkDrops, LinkInvOf, EngineTypeOK
  <2>2. ~Queued(k) /\ InHand # k /\ (connected[k] \/ (reconnectPc = "store" /\ cursor = k))
    BY <1>1, <2>1 DEF LinkInvOf
  <2>3. \A i, j \in DOMAIN gateway' : gateway'[i] = k /\ gateway'[j] = k => i = j
    BY <1>2, <2>2 DEF Queued
  <2>4. reconnectPc = "store" /\ cursor = k => mine' = FALSE
    <3> SUFFICES ASSUME reconnectPc = "store", cursor = k PROVE mine' = FALSE OBVIOUS
    <3>1. mine BY <1>1, <2>1 DEF LinkInvOf
    <3>2. mine' \in {FALSE, links[k] > 1} BY <1>5, <3>1 DEF LinkDrops
    <3>3. (links[k] > 1) = FALSE BY <2>1
    <3> QED BY <3>2, <3>3, Zenon
  <2> QED BY <1>1, <1>3, <1>4, <2>1, <2>2, <2>3, <2>4 DEF LinkInvOf
<1>6. CASE k # l
  <2>1. links'[k] = links[k] BY <1>6 DEF LinkDrops, EngineTypeOK
  <2>2. Queued(k)' <=> Queued(k) BY <1>2, <1>6 DEF Queued
  <2>3. \A i, j \in DOMAIN gateway' : gateway'[i] = k /\ gateway'[j] = k => i = j
    BY <1>1, <1>2, <1>6 DEF LinkInvOf
  <2>4. reconnectPc = "store" /\ cursor = k => mine' = mine
    BY <1>6 DEF LinkDrops
  <2> QED BY <1>1, <1>3, <1>4, <2>1, <2>2, <2>3, <2>4 DEF LinkInvOf
<1> QED BY <1>5, <1>6

LEMMA ReconnectKeepsLinks ==
  ASSUME EngineTypeOK, CursorInv, LinkInv, Reconnect
  PROVE  LinkInv'
<1> SUFFICES ASSUME NEW k \in Connector, ~doubled'[k] PROVE LinkInvOf(k)'
  BY DEF LinkInv
<1>1. UNCHANGED gateway /\ InHand' = InHand
  BY DEF Reconnect, ReconnectNext, Scan, AddConnector, ConnectFails, OpenRefused, ServerReconnectProc,
         StoreResult, InHand, logicVars
<1>2. Queued(k)' <=> Queued(k) BY <1>1 DEF Queued
<1>3. CASE Scan
  <2>1. LinkInvOf(k) BY <1>3 DEF LinkInv, Scan
  <2> QED BY <1>1, <1>2, <1>3, <2>1 DEF LinkInvOf, Scan, MustConnect
<1>4. CASE AddConnector
  <2>1. LinkInvOf(k) BY <1>4 DEF LinkInv, AddConnector
  <2>2. CASE k = cursor
    <3>1. ~Queued(k) /\ InHand # k /\ links[k] # 1 /\ ~connected[k]
      BY <1>4, <2>1, <2>2 DEF LinkInvOf, AddConnector
    <3>2. links'[k] = 1 /\ mine' = TRUE
      BY <1>4, <2>1, <2>2, <3>1 DEF LinkInvOf, AddConnector, EngineTypeOK
    <3> QED BY <1>1, <1>2, <1>4, <2>1, <2>2, <3>1, <3>2 DEF LinkInvOf, AddConnector
  <2>3. CASE k # cursor
    BY <1>1, <1>2, <1>4, <2>1, <2>3 DEF LinkInvOf, AddConnector, EngineTypeOK
  <2> QED BY <2>2, <2>3
<1>5. CASE ConnectFails
  <2>1. LinkInvOf(k) BY <1>5 DEF LinkInv, ConnectFails
  <2> QED BY <1>1, <1>2, <1>5, <2>1 DEF LinkInvOf, ConnectFails
<1>6. CASE OpenRefused
  <2>1. LinkInvOf(k) BY <1>6 DEF LinkInv, OpenRefused
  <2> QED BY <1>1, <1>2, <1>6, <2>1 DEF LinkInvOf, OpenRefused
<1>7. CASE ServerReconnectProc
  <2>1. LinkInvOf(k) BY <1>7 DEF LinkInv, ServerReconnectProc
  <2> QED BY <1>1, <1>2, <1>7, <2>1 DEF LinkInvOf, ServerReconnectProc
<1>8. ASSUME NEW ok \in BOOLEAN, StoreResult(ok, InHand)
      PROVE  LinkInvOf(k)'
  <2>1. ~doubled[k] /\ (k = cursor => ok \/ (~Queued(k) /\ InHand # k))
    BY <1>8, Zenon DEF StoreResult, EngineTypeOK, Pending, Queued
  <2>2. LinkInvOf(k) BY <2>1 DEF LinkInv
  <2>3. connected'[k] = IF k = cursor THEN connected[k] \/ ok ELSE connected[k]
    BY <1>8 DEF StoreResult, EngineTypeOK
  <2>4. reconnectPc = "store" /\ reconnectPc' = "scan" /\ (mine => ok) /\ UNCHANGED links
    BY <1>8 DEF StoreResult
  <2> QED BY <1>1, <1>2, <2>1, <2>2, <2>3, <2>4 DEF LinkInvOf
<1> QED BY <1>3, <1>4, <1>5, <1>6, <1>7, <1>8 DEF Reconnect, ReconnectNext, InHand

-----------------------------------------------------------------------------
LEMMA OthersKeepLinks ==
  ASSUME EngineTypeOK, LinkInv, RPC \/ Send \/ Dispatch \/ UNCHANGED engineVars
  PROVE  LinkInv'
<1>1. UNCHANGED connectorVars /\ InHand' = InHand
  BY DEF RPC, RPCTest, RPCPop, Send, PacketSendThread, Execute, Dispatch, engineVars, InHand, logicVars
<1>2. \/ UNCHANGED gateway
      \/ \E x \in {DATA, SERVERSHUTDOWN} : gateway' = Append(gateway, x)
  BY DEF RPC, RPCTest, RPCPop, Send, PacketSendThread, Execute, Dispatch, engineVars
<1> QED BY <1>1, <1>2, QuietLink

LEMMA EngineInvInit == EngineInit => EngineInv
BY TypeInit, ControlInit, LinkInit DEF EngineInv, ControlInv

LEMMA EngineInvStep == EngineInv /\ [EngineNext]_engineVars => EngineInv'
<1> SUFFICES ASSUME EngineInv, [EngineNext]_engineVars PROVE EngineInv' OBVIOUS
<1> USE DEF EngineInv, ControlInv
<1>1. CASE MainStep BY <1>1, MainKeepsType, MainKeepsControl, MainKeepsLinks
<1>2. CASE Logic BY <1>2, ThreadsKeepType, ThreadsKeepControl, LogicKeepsLinks
<1>3. CASE RPC \/ Send \/ Dispatch BY <1>3, ThreadsKeepType, ThreadsKeepControl, OthersKeepLinks
<1>4. CASE LinkEvent
  <2>1. LinkInv' BY <1>4, DropKeepsLinks DEF LinkEvent
  <2> QED BY <1>4, <2>1, ThreadsKeepType, ThreadsKeepControl
<1>5. CASE Reconnect BY <1>5, ReconnectKeepsType, ReconnectKeepsControl, ReconnectKeepsLinks
<1>6. CASE UNCHANGED engineVars
  BY <1>6, StutterKeepsType, StutterKeepsControl, OthersKeepLinks
<1> QED BY <1>1, <1>2, <1>3, <1>4, <1>5, <1>6 DEF EngineNext, MainStep

LEMMA EngineInvariant == EngineSpec => []EngineInv
BY EngineInvInit, EngineInvStep, PTL DEF EngineSpec

(* The state of the engine's threads, queues and links is well typed for    *)
(* any number of connectors.                                                *)
THEOREM EngineTypeCorrect == EngineSpec => []EngineTypeOK
<1>1. EngineInv => EngineTypeOK BY DEF EngineInv
<1> QED BY EngineInvariant, <1>1, PTL

(* SFEngine::ShutDown ends the threads before what they use: the network    *)
(* goes after the RPC and send threads, the engine after the reconnect      *)
(* thread.                                                                  *)
THEOREM ShutDownInOrder == EngineSpec => []ThreadsEndFirst
<1>1. EngineInv => ThreadsEndFirst BY DEF EngineInv, EndInv, ThreadsEndFirst
<1> QED BY EngineInvariant, <1>1, PTL

(* LogicThreadProc handles one packet at most after m_bLogicEnd was set.    *)
THEOREM LogicEndsAfterOne == EngineSpec => []LogicStopsPromptly
<1>1. EngineInv => LogicStopsPromptly BY DEF EngineInv, LateInv, LogicStopsPromptly
<1> QED BY EngineInvariant, <1>1, PTL

(* No packet reaches LogicEntry::ProcessPacket before SetLogic.             *)
THEOREM LogicIsSet == EngineSpec => []NoPacketDropped
<1>1. EngineInv => NoPacketDropped BY DEF EngineInv, StartInv, NoPacketDropped
<1> QED BY EngineInvariant, <1>1, PTL

(* SFServerConnectionManager keeps one link to a server, unless it took a   *)
(* link that had just dropped for one that could not be opened.             *)
THEOREM LinksNotDoubled == EngineSpec => []OneLink
<1>1. EngineInv => OneLink BY DEF EngineInv, LinkInv, LinkInvOf, OneLink
<1> QED BY EngineInvariant, <1>1, PTL
=============================================================================
