--------------------------- MODULE SFPacketProtocol ---------------------------
(***************************************************************************)
(* EngineLayer: how the bytes of a session become packets again.           *)
(*                                                                         *)
(* The peer encodes packets (SFPacket::Encode) into one TCP stream.  The   *)
(* stream is cut into reads anywhere; each read is appended to the         *)
(* session's SFPacketIOBuffer and every packet it completes is taken out   *)
(* and dispatched (SFPacketProtocol<SFCGSFPacketProtocol>::OnReceive).  A  *)
(* session's protocol object is a Clone of the listener's: its buffer has  *)
(* the default size whatever size the listener's has, and only             *)
(* m_packetSize is copied.                                                 *)
(*                                                                         *)
(* A byte of the stream is the packet it belongs to and its place in it;   *)
(* the header occupies the first HeaderSize places, and says how long the  *)
(* data is to whoever reads all of it.                                     *)
(***************************************************************************)
EXTENDS SFIOBuffer

CONSTANTS
  m_packetSize,     (* largest packet the receiver takes, header included   *)
  m_packetMaxSize,  (* MAX_PACKET_SIZE, the sender's limit                  *)
  HeaderSize,       (* sizeof(SFPacketHeader)                               *)
  ReadSize,         (* bytes of one read at most: 2048                      *)
  DataSize,         (* lengths of packet data that occur                    *)
  MaxPackets        (* bound: packets the peer sends                        *)

ASSUME ProtocolAssumption ==
  /\ HeaderSize \in Nat \ {0}
  /\ ReadSize \in Nat \ {0}
  /\ m_packetSize \in Nat /\ m_packetSize >= HeaderSize
  /\ m_packetMaxSize \in Nat /\ m_packetMaxSize >= HeaderSize
  /\ DataSize \subseteq Nat
  /\ MaxPackets \in Nat

VARIABLES
  sent,        (* data sizes of the packets the peer has sent               *)
  wire,        (* bytes sent and not yet read                               *)
  io,          (* the session's m_pPacketIOBuffer                           *)
  state,       (* "read": a read is outstanding; "get": in OnReceive's loop;*)
               (* "closed": OnReceive returned false                        *)
  dispatched   (* what SendLogicLayer was given: data size and bytes        *)

protocolVars == <<sent, wire, io, state, dispatched>>

-----------------------------------------------------------------------------
Bytes(p, size) == [k \in 1..(HeaderSize + size) |-> <<p, k>>]
HeaderOf(p) == [k \in 1..HeaderSize |-> <<p, k>>]
DataOf(p, size) == [k \in 1..size |-> <<p, HeaderSize + k>>]

(* SFPacket::Encode refuses data beyond m_packetMaxSize; the session then   *)
(* sends header and data.                                                   *)
Encode(size) ==
  /\ Len(sent) < MaxPackets
  /\ size <= m_packetMaxSize - HeaderSize
  /\ sent' = Append(sent, size)
  /\ wire' = wire \o Bytes(Len(sent) + 1, size)
  /\ UNCHANGED <<io, state, dispatched>>

(* A read completes with n bytes: OnReceive calls AddTransferredData, which *)
(* does not look at what AppendData returns, ...                            *)
AddTransferredData(n) ==
  /\ state = "read"
  /\ n <= Len(wire)
  /\ io' = AppendData(io, SubSeq(wire, 1, n))
  /\ wire' = SubSeq(wire, n + 1, Len(wire))
  /\ state' = "get"
  /\ UNCHANGED <<sent, dispatched>>

(* The data sizes a header can be read as: garbage holds any.               *)
DataSizeIn(header) ==
  LET own == {sent[p] : p \in {q \in DOMAIN sent : header = HeaderOf(q)}}
  IN  IF own = {} THEN DataSize ELSE own

(* ... and then GetPacket until it yields none.  GetPacket without a whole  *)
(* header, or without all of the data, leaves the buffer as it was: the     *)
(* next read is issued.                                                     *)
NoHeader ==
  /\ state = "get"
  /\ io.used < HeaderSize
  /\ state' = "read"
  /\ UNCHANGED <<sent, wire, io, dispatched>>

Body == RemoveData(io, HeaderSize)

(* Mutant: the largest packet is refused.                                   *)
TooLargeAtLimit(size) == size >= m_packetSize - HeaderSize

TooLarge(size) == size > m_packetSize - HeaderSize

(* Mutant: the header is not given back.                                    *)
IncompleteKeepsHeader(size) ==
  /\ state = "get"
  /\ io.used >= HeaderSize
  /\ size \in DataSizeIn(DataRead(io, HeaderSize))
  /\ ~TooLarge(size)
  /\ Body.used < size
  /\ io' = Body
  /\ state' = "read"
  /\ UNCHANGED <<sent, wire, dispatched>>

Incomplete(size) ==
  /\ state = "get"
  /\ io.used >= HeaderSize
  /\ size \in DataSizeIn(DataRead(io, HeaderSize))
  /\ ~TooLarge(size)
  /\ Body.used < size
  /\ io' = SetHead(Body, io.head)
  /\ state' = "read"
  /\ UNCHANGED <<sent, wire, dispatched>>

(* A header that announces too much data ends the session.                  *)
PacketError(size) ==
  /\ state = "get"
  /\ io.used >= HeaderSize
  /\ size \in DataSizeIn(DataRead(io, HeaderSize))
  /\ TooLarge(size)
  /\ io' = SetHead(Body, io.head)
  /\ state' = "closed"
  /\ UNCHANGED <<sent, wire, dispatched>>

(* Mutant: the loop ends after one packet.                                  *)
DispatchOne(size) ==
  /\ state = "get"
  /\ io.used >= HeaderSize
  /\ size \in DataSizeIn(DataRead(io, HeaderSize))
  /\ ~TooLarge(size)
  /\ Body.used >= size
  /\ dispatched' = Append(dispatched, [dataSize |-> size, data |-> DataRead(Body, size)])
  /\ io' = RemoveData(Body, size)
  /\ state' = "read"
  /\ UNCHANGED <<sent, wire>>

(* A complete packet goes to the logic, and the loop goes on.               *)
DispatchPacket(size) ==
  /\ state = "get"
  /\ io.used >= HeaderSize
  /\ size \in DataSizeIn(DataRead(io, HeaderSize))
  /\ ~TooLarge(size)
  /\ Body.used >= size
  /\ dispatched' = Append(dispatched, [dataSize |-> size, data |-> DataRead(Body, size)])
  /\ io' = RemoveData(Body, size)
  /\ UNCHANGED <<sent, wire, state>>

ProtocolInit ==
  /\ sent = <<>>
  /\ wire = <<>>
  /\ io = InitIOBuf
  /\ state = "read"
  /\ dispatched = <<>>

ReceiverStep ==
  \/ \E n \in 1..ReadSize : AddTransferredData(n)
  \/ NoHeader
  \/ \E size \in DataSize : Incomplete(size) \/ PacketError(size) \/ DispatchPacket(size)

ProtocolNext == (\E size \in DataSize : Encode(size)) \/ ReceiverStep

ProtocolSpec == ProtocolInit /\ [][ProtocolNext]_protocolVars

(* TCP delivers, and the IO threads handle the completions.                 *)
ProtocolFairSpec == ProtocolSpec /\ WF_protocolVars(ReceiverStep)

(* What the limits have to satisfy for a ring to hold the largest packet    *)
(* but its last byte, and one more read.  The default limits do (4096, 2048 *)
(* and 8192 bytes); those of a clone of a larger listener need not.         *)
RoomForRead == m_packetSize + ReadSize <= m_iBufSize

-----------------------------------------------------------------------------
Byte == {Zero} \cup {<<p, k>> : p \in 1..MaxPackets, k \in 1..m_packetMaxSize}

Packet == [dataSize : DataSize, data : Seq(Byte)]

(* Types of the protocol's state.                                           *)
ProtocolTypeOK ==
  /\ sent \in Seq(DataSize)
  /\ wire \in Seq(Byte)
  /\ IsIOBuffer(io, Byte)
  /\ state \in {"read", "get", "closed"}
  /\ dispatched \in Seq(Packet)

(* The logic gets the packets the peer sent: in order, none missing, none   *)
(* twice, each with the data it was sent with, wherever the stream is cut   *)
(* into reads and wherever a packet wraps around in the ring.               *)
DispatchedAsSent ==
  /\ Len(dispatched) <= Len(sent)
  /\ \A p \in DOMAIN dispatched :
       /\ dispatched[p].dataSize = sent[p]
       /\ dispatched[p].data = DataOf(p, sent[p])

(* A read always fits in the ring: between two reads it holds less than one *)
(* packet, so AppendData never turns bytes away, which nobody would notice  *)
(* (AddTransferredData returns true all the same, and the SFASSERT of       *)
(* SFPacketProtocol.h line 113 cannot fire).                                *)
ReadFits ==
  state = "read" => Fits(io, ReadSize)

(* A session is closed for a packet error only if the packet after the      *)
(* dispatched ones is larger than this side accepts.                        *)
ClosedOnlyIfTooLarge ==
  state = "closed" =>
    /\ Len(dispatched) < Len(sent)
    /\ sent[Len(dispatched) + 1] > m_packetSize - HeaderSize

(* Every packet sent is dispatched in the end, unless the session is        *)
(* closed: no packet waits in the ring for bytes that are already there.    *)
SentIsDispatched ==
  \A p \in 1..MaxPackets : (p <= Len(sent)) ~> (p <= Len(dispatched) \/ state = "closed")
=============================================================================
