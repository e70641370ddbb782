--------------------------- MODULE ServerConnection ---------------------------
(***************************************************************************)
(* SFServerConnectionManager: links to other servers, kept up by a thread. *)
(*                                                                         *)
(* The reconnect thread calls AddConnector for every connector that is not *)
(* connected and notes the result.  When a link drops an IO thread queues  *)
(* DISCONNECT for the logic thread, which resets the note.  So the note is *)
(* written by two threads, and what AddConnector returns (the serial,      *)
(* read from a service that IO threads may have deleted by then) can be    *)
(* out of date when it is stored.                                          *)
(***************************************************************************)
EXTENDS Integers, Sequences

CONSTANTS
  ConnectorCount,  (* length of m_listConnectorInfo                         *)
  HasCallback,     (* connectors with a callback in m_mapConnectorCallback  *)
  MaxGateway,      (* bound: packets the network adds to the logic gateway  *)
  MaxLinks         (* bound: links of one connector                         *)

Connector == 1..ConnectorCount

ASSUME ConnectorAssumption == ConnectorCount \in Nat /\ HasCallback \subseteq Connector

VARIABLES
  gateway,         (* packets for the logic thread; k: DISCONNECT of link k *)
  connected,       (* _ConnectorInfo::connected                             *)
  links,           (* live links of a connector                             *)
  reconnectPc, cursor,
  mine,            (* the link being opened is still there                  *)
  m_bThreadEnd,
  stuck,           (* TRUE was stored for a link that was gone and forgotten *)
  doubled          (* failure was stored with the DISCONNECT still to come  *)

connectorVars == <<connected, links, reconnectPc, cursor, mine, stuck, doubled>>

(* A DISCONNECT of k is queued or (inHand = k) being handled.               *)
Pending(k, inHand) == inHand = k \/ \E i \in DOMAIN gateway : gateway[i] = k

-----------------------------------------------------------------------------
(* m_listConnectorInfo.begin().                                             *)
Begin == 1

(* Mutant: the note is not looked at.                                       *)
MustConnectAlways(k) == TRUE

MustConnect(k) == connected[k] = FALSE

(* The loop over m_listConnectorInfo, in SetupServerReconnectSys (the first *)
(* time, on the main thread) and in ServerReconnectProc.                    *)
Scan ==
  /\ reconnectPc = "scan"
  /\ IF cursor > ConnectorCount
       THEN reconnectPc' = "wait" /\ UNCHANGED cursor
       ELSE IF MustConnect(cursor) THEN reconnectPc' = "connect" /\ UNCHANGED cursor
                                   ELSE cursor' = cursor + 1 /\ UNCHANGED reconnectPc
  /\ UNCHANGED <<gateway, connected, links, mine, m_bThreadEnd, stuck, doubled>>

(* AddConnector opens a link, ...                                           *)
AddConnector ==
  /\ reconnectPc = "connect" /\ reconnectPc' = "store"
  /\ links[cursor] < MaxLinks
  /\ links' = [links EXCEPT ![cursor] = @ + 1]
  /\ mine' = TRUE
  /\ UNCHANGED <<gateway, connected, cursor, m_bThreadEnd, stuck, doubled>>

(* ... cannot connect and returns -1, ...                                   *)
ConnectFails ==
  /\ reconnectPc = "connect" /\ reconnectPc' = "scan"
  /\ cursor' = cursor + 1
  /\ UNCHANGED <<gateway, connected, links, mine, m_bThreadEnd, stuck, doubled>>

(* ... or the service refuses itself in open and deletes itself.            *)
OpenRefused ==
  /\ reconnectPc = "connect" /\ reconnectPc' = "store"
  /\ mine' = FALSE
  /\ UNCHANGED <<gateway, connected, links, cursor, m_bThreadEnd, stuck, doubled>>

(* "if (serial >= 0) info.connected = true".  The serial of a deleted       *)
(* service can be anything.                                                 *)
StoreResult(ok, inHand) ==
  /\ reconnectPc = "store" /\ reconnectPc' = "scan"
  /\ mine => ok
  /\ connected' = [connected EXCEPT ![cursor] = @ \/ ok]
  /\ stuck' = [stuck EXCEPT ![cursor] = @ \/ (ok /\ ~mine /\ ~Pending(cursor, inHand))]
  /\ doubled' = [doubled EXCEPT ![cursor] = @ \/ (~ok /\ Pending(cursor, inHand))]
  /\ cursor' = cursor + 1 /\ mine' = FALSE
  /\ UNCHANGED <<gateway, links, m_bThreadEnd>>

(* The thread's loop: a second later it looks again, or ends.               *)
ServerReconnectProc ==
  /\ reconnectPc = "wait"
  /\ reconnectPc' = IF m_bThreadEnd THEN "ended" ELSE "scan"
  /\ cursor' = Begin
  /\ UNCHANGED <<gateway, connected, links, mine, m_bThreadEnd, stuck, doubled>>

(* A link of k drops: an IO thread ends its service.                        *)
LinkDrops(k) ==
  /\ links[k] > 0 /\ Len(gateway) < MaxGateway
  /\ links' = [links EXCEPT ![k] = @ - 1]
  /\ gateway' = Append(gateway, k)
  /\ IF reconnectPc = "store" /\ cursor = k /\ mine
       THEN mine' \in {FALSE, links[k] > 1}
       ELSE UNCHANGED mine
  /\ UNCHANGED <<connected, reconnectPc, cursor, m_bThreadEnd, stuck, doubled>>

(* Mutant: the note is not reset.                                           *)
SetConnectorStateNot(k) == UNCHANGED connected

(* ProcessConnectorPacket for DISCONNECT: without a callback the note stays. *)
SetConnectorState(k) ==
  connected' = IF k \in HasCallback THEN [connected EXCEPT ![k] = FALSE] ELSE connected

ConnectorInit ==
  /\ gateway = <<>>
  /\ connected = [k \in Connector |-> FALSE] /\ links = [k \in Connector |-> 0]
  /\ reconnectPc = "none" /\ cursor = Begin /\ mine = FALSE /\ m_bThreadEnd = FALSE
  /\ stuck = [k \in Connector |-> FALSE] /\ doubled = [k \in Connector |-> FALSE]

ReconnectNext(inHand) ==
  \/ Scan \/ AddConnector \/ ConnectFails \/ OpenRefused \/ ServerReconnectProc
  \/ \E ok \in BOOLEAN : StoreResult(ok, inHand)

(* Two links to one server arise only from a result that was stored as      *)
(* failed while the DISCONNECT of its link was still under way.             *)
OneLink == \A k \in Connector : links[k] <= 1 \/ doubled[k]
=============================================================================
