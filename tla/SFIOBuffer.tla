------------------------------ MODULE SFIOBuffer ------------------------------
(***************************************************************************)
(* EngineLayer/SFIOBuffer: the ring buffer in which a session collects the *)
(* bytes it receives.  Its operations are functions from a buffer to a     *)
(* buffer; the buffer is the record of m_iHead, m_iTail, m_iUsedBufferSize *)
(* and the cells of m_pBuffer.  What a byte is, is left to the user.       *)
(* IOBufferQueue.tla runs them as a state machine, SFPacketProtocol.tla    *)
(* frames packets with them.                                               *)
(***************************************************************************)
EXTENDS Integers, Sequences

CONSTANTS
  m_iBufSize,   (* cells of the ring                                        *)
  Zero          (* the byte memset fills the cells with                     *)

ASSUME IOBufferAssumption == m_iBufSize \in Nat \ {0}

Cell == 0 .. m_iBufSize - 1

InitIOBuf == [head |-> 0, tail |-> 0, used |-> 0, cells |-> [i \in Cell |-> Zero]]

(* Mutant: the wrapped case is forgotten.                                   *)
CalcUsedUnwrapped(head, tail) == IF head > tail THEN head - tail ELSE tail - head

CalcUsedBufferSize(head, tail) ==
  IF head > tail THEN m_iBufSize - head + tail ELSE tail - head

SetHead(b, head) == [b EXCEPT !.head = head, !.used = CalcUsedBufferSize(head, b.tail)]

(* A position after it has moved forward past the end of the ring.          *)
Wrap(p) == IF p >= m_iBufSize THEN p - m_iBufSize ELSE p

(* memcpy into, and out of, consecutive cells.                              *)
CopyIn(cells, from, data) ==
  [i \in Cell |-> IF from <= i /\ i < from + Len(data) THEN data[i - from + 1] ELSE cells[i]]
CopyOut(cells, from, n) == [i \in 1..n |-> cells[from + i - 1]]

(* Mutant: the ring may be filled to the last cell.                         *)
FitsExactly(b, n) == b.used + n <= m_iBufSize

(* A completely full ring could not be told from an empty one.              *)
Fits(b, n) == b.used + n < m_iBufSize

(* AppendData: up to the end of the ring, then on from cell 0; nothing of   *)
(* data that does not fit.                                                  *)
AppendData(b, data) ==
  LET room  == m_iBufSize - b.tail
      first == IF Len(data) > room THEN room ELSE Len(data)
      cells == CopyIn(b.cells, b.tail, SubSeq(data, 1, first))
      tail  == Wrap(b.tail + Len(data))
  IN  IF Fits(b, Len(data))
        THEN [head  |-> b.head,
              tail  |-> tail,
              used  |-> CalcUsedBufferSize(b.head, tail),
              cells |-> CopyIn(cells, 0, SubSeq(data, first + 1, Len(data)))]
        ELSE b

(* What AppendData returns: the bytes taken, or -1.                         *)
AppendResult(b, data) == IF Fits(b, Len(data)) THEN Len(data) ELSE -1

(* A request for more than there is yields what there is.                   *)
Available(b, n) == IF b.used < n THEN b.used ELSE n

(* The bytes GetData(n) copies out, in at most two pieces, ...              *)
DataRead(b, n) ==
  LET size == Available(b, n)
      room == m_iBufSize - b.head
  IN  IF b.head + size > m_iBufSize
        THEN CopyOut(b.cells, b.head, room) \o CopyOut(b.cells, 0, size - room)
        ELSE CopyOut(b.cells, b.head, size)

(* Mutant: the head runs over the end of the ring.                          *)
RemoveUnwrapped(b, n) == SetHead(b, b.head + Available(b, n))

(* ... and the buffer after GetData(n), or RemoveData(n).                   *)
RemoveData(b, n) == SetHead(b, Wrap(b.head + Available(b, n)))

-----------------------------------------------------------------------------
(* Types; m_iUsedBufferSize is what CalcUsedBufferSize would compute.       *)
IsIOBuffer(b, Byte) ==
  /\ b \in [head : Cell, tail : Cell, used : Nat, cells : [Cell -> Byte]]
  /\ b.used = CalcUsedBufferSize(b.head, b.tail)

(* The bytes held: used cells from the head on, around the end of the ring. *)
Held(b) == [i \in 1..b.used |-> b.cells[Wrap(b.head + i - 1)]]
=============================================================================
