---------------------------- MODULE IOBufferQueue ----------------------------
(***************************************************************************)
(* EngineLayer/SFIOBuffer as a component: one buffer, its operations in    *)
(* any order.  A session's buffer is used by the thread that handles its   *)
(* only outstanding read, so an operation is one step.                     *)
(***************************************************************************)
EXTENDS SFIOBuffer

CONSTANTS
  Byte,
  MaxChunk    (* bound: longest block of bytes appended, or asked for       *)

ASSUME ByteAssumption == Zero \in Byte /\ MaxChunk \in Nat

VARIABLES
  io,     (* the buffer                                                     *)
  last    (* the last call: its size, the bytes passed in or out, its result*)

ioVars == <<io, last>>

Chunk == UNION {[1..n -> Byte] : n \in 0..MaxChunk}

Call(op, size, data, result) ==
  last' = [op |-> op, size |-> size, data |-> data, result |-> result]

AppendStep(data) ==
  /\ io' = AppendData(io, data)
  /\ Call("append", Len(data), data, AppendResult(io, data))

GetStep(n) ==
  /\ io' = RemoveData(io, n)
  /\ Call("get", n, DataRead(io, n), Available(io, n))

RemoveStep(n) ==
  /\ io' = RemoveData(io, n)
  /\ Call("remove", n, <<>>, Available(io, n))

(* What SFPacketIOBuffer::GetHeader does: false (here -1) if there are      *)
(* fewer bytes, otherwise GetData, and back to oldHead.                     *)
PeekStep(n) ==
  \/ /\ io.used < n
     /\ UNCHANGED io
     /\ Call("peek", n, <<>>, -1)
  \/ /\ io.used >= n
     /\ io' = SetHead(RemoveData(io, n), io.head)
     /\ Call("peek", n, DataRead(io, n), Available(io, n))

ResetStep == io' = InitIOBuf /\ Call("clear", 0, <<>>, 0)

IOInit ==
  /\ io = InitIOBuf
  /\ last = [op |-> "clear", size |-> 0, data |-> <<>>, result |-> 0]

IONext ==
  \/ \E data \in Chunk : AppendStep(data)
  \/ \E n \in 0..MaxChunk : GetStep(n) \/ RemoveStep(n) \/ PeekStep(n)
  \/ ResetStep

IOSpec == IOInit /\ [][IONext]_ioVars

-----------------------------------------------------------------------------
(* Types of the buffer and of what it hands out.                            *)
IOTypeOK ==
  /\ IsIOBuffer(io, Byte)
  /\ last \in [op : {"append", "get", "remove", "peek", "clear"}, size : Nat,
               data : Seq(Byte), result : Nat \cup {-1}]

Queue == INSTANCE ByteQueue WITH Capacity <- m_iBufSize, queue <- Held(io)

(* The ring implements the byte queue: whatever blocks are appended, got,   *)
(* removed and peeked at, and wherever they wrap around, every byte comes   *)
(* out once and in order, and a block that does not fit changes nothing and *)
(* is reported.                                                             *)
ImplementsByteQueue == Queue!QueueSpec
=============================================================================
