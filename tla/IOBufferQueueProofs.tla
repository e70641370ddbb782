------------------------- MODULE IOBufferQueueProofs -------------------------
(***************************************************************************)
(* The ring buffer is a byte queue, for every size of the ring, every set  *)
(* of bytes and blocks of every length.                                    *)
(***************************************************************************)
EXTENDS IOBufferQueue, SFIOBufferProofs

(* The buffer InitIOBuf makes is well formed and holds nothing.             *)
LEMMA InitIOBufEmpty ==
  IsIOBuffer(InitIOBuf, Byte) /\ Held(InitIOBuf) = <<>>
<1>1. 0 \in Cell /\ [i \in Cell |-> Zero] \in [Cell -> Byte]
  BY IOBufferAssumption, ByteAssumption DEF Cell
<1>2. IsIOBuffer(InitIOBuf, Byte)
  BY <1>1 DEF IsIOBuffer, InitIOBuf, CalcUsedBufferSize
<1>3. Held(InitIOBuf) \in Seq(Byte) /\ Len(Held(InitIOBuf)) = 0
  BY <1>2, HeldIsSeq DEF InitIOBuf
<1> QED
  BY <1>2, <1>3, EmptySeq

(* A block is a sequence of bytes, here and in the abstract queue.          *)
LEMMA ChunkIsBlock ==
  ASSUME NEW data \in Chunk
  PROVE  data \in Seq(Byte) /\ Len(data) \in Nat /\ data \in Queue!Block
<1>1. PICK n \in 0..MaxChunk : data \in [1..n -> Byte]
  BY DEF Chunk
<1>2. n \in Nat
  BY ByteAssumption
<1>3. data \in Seq(Byte) /\ Len(data) = n
  BY <1>1, <1>2
<1> QED
  BY <1>1, <1>2, <1>3 DEF Queue!Block

(* What a request for n bytes yields and leaves, here and in the abstract   *)
(* queue.                                                                   *)
LEMMA RequestIsYield ==
  ASSUME IsIOBuffer(io, Byte), NEW n \in 0..MaxChunk
  PROVE  /\ n \in Nat /\ Available(io, n) \in Nat
         /\ IsIOBuffer(RemoveData(io, n), Byte)
         /\ DataRead(io, n) \in Seq(Byte)
         /\ SetHead(RemoveData(io, n), io.head) = io
         /\ Available(io, n) = Queue!Yield(n)
         /\ DataRead(io, n) = Queue!Front(n)
         /\ Held(RemoveData(io, n)) = Queue!Rest(n)
<1>1. Held(io) \in Seq(Byte) /\ Len(Held(io)) = io.used /\ io.used \in Nat
  BY HeldIsSeq DEF IsIOBuffer
<1>2. n \in Nat
  BY ByteAssumption
<1>3. /\ Available(io, n) \in 0..io.used
      /\ IsIOBuffer(RemoveData(io, n), Byte)
      /\ Held(RemoveData(io, n)) = SubSeq(Held(io), Available(io, n) + 1, io.used)
  BY <1>2, RemoveHeld
<1>4. DataRead(io, n) = SubSeq(Held(io), 1, Available(io, n))
  BY <1>2, ReadHeld
<1>5. SubSeq(Held(io), 1, Available(io, n)) \in Seq(Byte)
  BY <1>1, <1>3
<1>6. SetHead(RemoveData(io, n), io.head) = io
  BY <1>2, PeekKeeps
<1>7. Available(io, n) = Queue!Yield(n)
  BY <1>1 DEF Available, Queue!Yield
<1>8. DataRead(io, n) = Queue!Front(n) /\ Held(RemoveData(io, n)) = Queue!Rest(n)
  BY <1>1, <1>3, <1>4, <1>7 DEF Queue!Front, Queue!Rest
<1> QED
  BY <1>2, <1>3, <1>4, <1>5, <1>6, <1>7, <1>8

(* A step of the buffer, by the bytes held before and after it.             *)
LEMMA IOStep ==
  ASSUME IOTypeOK, [IONext]_ioVars
  PROVE  IOTypeOK' /\ [Queue!QueueNext]_<<Held(io), last>>
<1> USE DEF Call, Queue!Called
<1>1. IsIOBuffer(io, Byte)
  BY DEF IOTypeOK
<1>2. Held(io) \in Seq(Byte) /\ Len(Held(io)) = io.used /\ io.used \in Nat
  BY <1>1, HeldIsSeq DEF IsIOBuffer
<1>3. <<>> \in Seq(Byte)
  BY EmptySeq
<1>4. ASSUME NEW data \in Chunk, AppendStep(data)
      PROVE  IOTypeOK' /\ [Queue!QueueNext]_<<Held(io), last>>
  <2>1. data \in Seq(Byte) /\ Len(data) \in Nat /\ data \in Queue!Block
    BY ChunkIsBlock
  <2>2. CASE Fits(io, Len(data))
    <3>1. IsIOBuffer(io', Byte) /\ Held(io') = Held(io) \o data
      BY <1>1, <1>4, <2>1, <2>2, AppendHeld DEF AppendStep
    <3>2. Len(Held(io)) + Len(data) < m_iBufSize
      BY <1>2, <2>1, <2>2 DEF Fits
    <3>3. AppendResult(io, data) = Len(data)
      BY <2>2 DEF AppendResult
    <3>4. Queue!Put(data)
      BY <1>4, <3>1, <3>2, <3>3 DEF Queue!Put, AppendStep
    <3> QED
      BY <1>4, <2>1, <3>1, <3>3, <3>4 DEF Queue!QueueNext, IOTypeOK, AppendStep
  <2>3. CASE ~Fits(io, Len(data))
    <3>1. io' = io
      BY <1>4, <2>3 DEF AppendStep, AppendData
    <3>2. Len(Held(io)) + Len(data) >= m_iBufSize
      BY <1>2, <2>1, <2>3, IOBufferAssumption DEF Fits
    <3>3. AppendResult(io, data) = -1
      BY <2>3 DEF AppendResult
    <3>4. Queue!Refuse(data)
      BY <1>4, <3>1, <3>2, <3>3 DEF Queue!Refuse, AppendStep
    <3> QED
      BY <1>1, <1>4, <2>1, <3>1, <3>3, <3>4 DEF Queue!QueueNext, IOTypeOK, AppendStep
  <2> QED
    BY <2>2, <2>3
<1>5. ASSUME NEW n \in 0..MaxChunk, GetStep(n)
      PROVE  IOTypeOK' /\ [Queue!QueueNext]_<<Held(io), last>>
  <2>1. Queue!Take(n)
    BY <1>1, <1>5, RequestIsYield DEF Queue!Take, GetStep
  <2>2. IOTypeOK'
    BY <1>1, <1>5, RequestIsYield DEF IOTypeOK, GetStep
  <2> QED
    BY <2>1, <2>2 DEF Queue!QueueNext
<1>6. ASSUME NEW n \in 0..MaxChunk, RemoveStep(n)
      PROVE  IOTypeOK' /\ [Queue!QueueNext]_<<Held(io), last>>
  <2>1. Queue!Drop(n)
    BY <1>1, <1>6, RequestIsYield DEF Queue!Drop, RemoveStep
  <2>2. IOTypeOK'
    BY <1>1, <1>3, <1>6, RequestIsYield DEF IOTypeOK, RemoveStep
  <2> QED
    BY <2>1, <2>2 DEF Queue!QueueNext
<1>7. ASSUME NEW n \in 0..MaxChunk, PeekStep(n)
      PROVE  IOTypeOK' /\ [Queue!QueueNext]_<<Held(io), last>>
  <2>1. io' = io /\ Held(io)' = Held(io) /\ IsIOBuffer(io', Byte)
    BY <1>1, <1>7, RequestIsYield DEF PeekStep
  <2>2. n \in Nat
    BY ByteAssumption
  <2>3. ASSUME io.used < n
        PROVE  Queue!Look(n) /\ IOTypeOK'
    <3>1. last' = [op |-> "peek", size |-> n, data |-> <<>>, result |-> -1]
      BY <1>2, <1>7, <2>2, <2>3 DEF PeekStep
    <3>2. Queue!Look(n)
      BY <1>2, <2>1, <2>3, <3>1 DEF Queue!Look
    <3>3. IOTypeOK'
      BY <1>3, <2>1, <2>2, <3>1 DEF IOTypeOK
    <3> QED
      BY <3>2, <3>3
  <2>4. ASSUME ~(io.used < n)
        PROVE  Queue!Look(n) /\ IOTypeOK'
    <3>1. Available(io, n) = n
      BY <2>4 DEF Available
    <3>2. DataRead(io, n) = Queue!Front(n) /\ DataRead(io, n) \in Seq(Byte)
      BY <1>1, RequestIsYield
    <3>3. last' = [op |-> "peek", size |-> n, data |-> Queue!Front(n), result |-> n]
      BY <1>7, <2>4, <3>1, <3>2 DEF PeekStep
    <3>4. Len(Held(io)) >= n
      BY <1>2, <2>2, <2>4
    <3>5. Queue!Look(n)
      BY <2>1, <3>3, <3>4 DEF Queue!Look
    <3>6. IOTypeOK'
      BY <2>1, <2>2, <3>2, <3>3 DEF IOTypeOK
    <3> QED
      BY <3>5, <3>6
  <2>5. Queue!Look(n) /\ IOTypeOK'
    BY <2>3, <2>4
  <2> QED
    BY <2>5 DEF Queue!QueueNext
<1>8. ASSUME ResetStep
      PROVE  IOTypeOK' /\ [Queue!QueueNext]_<<Held(io), last>>
  <2>1. Queue!Clear
    BY <1>8, InitIOBufEmpty DEF Queue!Clear, ResetStep
  <2>2. IOTypeOK'
    BY <1>3, <1>8, InitIOBufEmpty DEF IOTypeOK, ResetStep
  <2> QED
    BY <2>1, <2>2 DEF Queue!QueueNext
<1>9. ASSUME UNCHANGED ioVars
      PROVE  IOTypeOK' /\ [Queue!QueueNext]_<<Held(io), last>>
  BY <1>9 DEF ioVars, IOTypeOK
<1> QED
  BY <1>4, <1>5, <1>6, <1>7, <1>8, <1>9 DEF IONext

(***************************************************************************)
(* A ring fresh from AllocIOBuf is well formed and holds the empty queue.  *)
(***************************************************************************)
LEMMA IOInitially ==
  ASSUME IOInit
  PROVE  IOTypeOK /\ Queue!QueueInit
  BY InitIOBufEmpty, EmptySeq DEF IOInit, IOTypeOK, Queue!QueueInit

(* Head, tail and m_iUsedBufferSize always belong together: the head and    *)
(* the tail stay inside m_pBuffer, and the count kept is the count computed.*)
THEOREM IOBufferWellFormed == IOSpec => []IOTypeOK
<1>1. IOInit => IOTypeOK
  BY IOInitially
<1>2. IOTypeOK /\ [IONext]_ioVars => IOTypeOK'
  BY IOStep
<1> QED
  BY <1>1, <1>2, PTL DEF IOSpec

(* SFIOBuffer implements ByteQueue: AppendData, GetData, RemoveData, the    *)
(* peek of GetHeader and Reset are Put, Take, Drop, Look and Clear on the   *)
(* bytes held, wherever in the ring they are.                               *)
THEOREM RingImplementsByteQueue == IOSpec => ImplementsByteQueue
<1>1. IOInit => Queue!QueueInit
  BY IOInitially
<1>2. IOTypeOK /\ [IONext]_ioVars => [Queue!QueueNext]_<<Held(io), last>>
  BY IOStep
<1> QED
  BY <1>1, <1>2, IOBufferWellFormed, PTL DEF IOSpec, ImplementsByteQueue, Queue!QueueSpec
=============================================================================
