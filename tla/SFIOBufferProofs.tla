--------------------------- MODULE SFIOBufferProofs ---------------------------
(***************************************************************************)
(* What the operations of the ring buffer do to the bytes it holds, for    *)
(* every size of the ring and every kind of byte.                          *)
(***************************************************************************)
EXTENDS SFIOBuffer, SequenceTheorems, TLAPS

(* CalcUsedBufferSize counts the cells from head to tail; never all of them.*)
LEMMA UsedRange ==
  ASSUME NEW head \in Cell, NEW tail \in Cell
  PROVE  /\ CalcUsedBufferSize(head, tail) \in 0 .. m_iBufSize - 1
         /\ CalcUsedBufferSize(head, tail) = 0 <=> head = tail
  BY IOBufferAssumption DEF CalcUsedBufferSize, Cell

(* A position at most one turn ahead wraps to a cell.                       *)
LEMMA WrapInRing ==
  ASSUME NEW p \in 0 .. (2 * m_iBufSize - 1)
  PROVE  Wrap(p) \in Cell
  BY IOBufferAssumption DEF Wrap, Cell

(* Two pieces copied in are found in their places, the rest is untouched.   *)
LEMMA CopyInTwice ==
  ASSUME NEW Byte, NEW cells \in [Cell -> Byte], NEW from \in Nat,
         NEW one \in Seq(Byte), NEW two \in Seq(Byte)
  PROVE  /\ CopyIn(CopyIn(cells, from, one), 0, two) \in [Cell -> Byte]
         /\ \A i \in Cell :
              CopyIn(CopyIn(cells, from, one), 0, two)[i] =
                IF i < Len(two) THEN two[i + 1]
                ELSE IF from <= i /\ i < from + Len(one) THEN one[i - from + 1] ELSE cells[i]
<1> DEFINE r == CopyIn(CopyIn(cells, from, one), 0, two)
           f(i) == IF i < Len(two) THEN two[i + 1]
                   ELSE IF from <= i /\ i < from + Len(one) THEN one[i - from + 1] ELSE cells[i]
<1>1. ASSUME NEW i \in Cell
      PROVE  f(i) \in Byte /\ r[i] = f(i)
  <2>1. i \in Nat /\ Len(one) \in Nat /\ Len(two) \in Nat
    BY IOBufferAssumption DEF Cell
  <2>2. i < Len(two) => i + 1 \in 1..Len(two) /\ two[i + 1] \in Byte
    BY <2>1
  <2>3. from <= i /\ i < from + Len(one) => one[i - from + 1] \in Byte
    <3>1. from <= i /\ i < from + Len(one) => i - from + 1 \in 1..Len(one)
      BY <2>1
    <3> QED
      BY <3>1
  <2>4. f(i) \in Byte
    BY <2>1, <2>2, <2>3
  <2> QED
    BY <2>1, <2>4 DEF CopyIn
<1>2. r = [i \in Cell |-> r[i]]
  BY DEF CopyIn
<1> QED
  <2> HIDE DEF r, f
  <2>1. r \in [Cell -> Byte] /\ \A i \in Cell : r[i] = f(i)
    BY <1>1, <1>2
  <2> QED
    BY <2>1 DEF r, f

(* What AppendData leaves in each cell.                                     *)
LEMMA AppendCells ==
  ASSUME NEW Byte, NEW b, IsIOBuffer(b, Byte), NEW data \in Seq(Byte), Fits(b, Len(data))
  PROVE  LET a == AppendData(b, data) IN
         /\ a.head = b.head
         /\ a.tail = Wrap(b.tail + Len(data))
         /\ a.used = CalcUsedBufferSize(a.head, a.tail)
         /\ a \in [head : Cell, tail : Cell, used : Nat, cells : [Cell -> Byte]]
         /\ \A i \in Cell : a.cells[i] =
              IF b.tail <= i /\ i < b.tail + Len(data) THEN data[i - b.tail + 1]
              ELSE IF i < b.tail + Len(data) - m_iBufSize THEN data[i + m_iBufSize - b.tail + 1]
              ELSE b.cells[i]
<1> DEFINE room == m_iBufSize - b.tail
           a == AppendData(b, data)
<1>1. PICK n \in Nat : n = Len(data)
  OBVIOUS
<1>2. PICK first \in Nat : first = IF n > room THEN room ELSE n
  BY <1>1, IOBufferAssumption DEF IsIOBuffer, Cell
<1>3. PICK one \in Seq(Byte) : one = SubSeq(data, 1, first)
  <2>1. first <= n
    BY <1>1, <1>2, IOBufferAssumption DEF IsIOBuffer, Cell
  <2>2. SubSeq(data, 1, first) \in Seq(Byte)
    BY <1>1, <2>1
  <2> QED
    BY <2>2
<1>4. PICK two \in Seq(Byte) : two = SubSeq(data, first + 1, n)
  <2>1. SubSeq(data, first + 1, n) \in Seq(Byte)
    BY <1>1
  <2> QED
    BY <2>1
<1>5. /\ b.tail \in Nat /\ b.tail \in Cell /\ b.head \in Cell /\ b.used \in Nat
      /\ b.cells \in [Cell -> Byte]
      /\ n < m_iBufSize /\ room \in 1..m_iBufSize /\ first \in 0..n
  BY <1>1, <1>2, IOBufferAssumption DEF IsIOBuffer, Fits, Cell
<1>6. Len(one) = first /\ \A j \in 1..first : one[j] = data[j]
  BY <1>1, <1>3, <1>5
<1>7. Len(two) = n - first /\ \A j \in 1..(n - first) : two[j] = data[first + j]
  BY <1>1, <1>4, <1>5
<1>8. PICK r : r = CopyIn(CopyIn(b.cells, b.tail, one), 0, two)
  OBVIOUS
<1>9. /\ r \in [Cell -> Byte]
      /\ \A i \in Cell : r[i] =
           IF i < Len(two) THEN two[i + 1]
           ELSE IF b.tail <= i /\ i < b.tail + Len(one) THEN one[i - b.tail + 1] ELSE b.cells[i]
  BY <1>5, <1>8, CopyInTwice, SMTT(60)
<1>10. a = [head  |-> b.head, tail |-> Wrap(b.tail + n),
            used  |-> CalcUsedBufferSize(b.head, Wrap(b.tail + n)), cells |-> r]
  BY <1>1, <1>2, <1>3, <1>4, <1>8 DEF AppendData
<1>11. Wrap(b.tail + n) \in Cell
  <2>1. b.tail + n \in 0 .. (2 * m_iBufSize - 1)
    BY <1>5, IOBufferAssumption, SMTT(60) DEF Cell
  <2> QED
    BY <2>1, WrapInRing
<1>12. CalcUsedBufferSize(b.head, Wrap(b.tail + n)) \in Nat
  BY <1>5, <1>11, UsedRange
<1>13. ASSUME NEW i \in Cell
       PROVE  r[i] = IF b.tail <= i /\ i < b.tail + n THEN data[i - b.tail + 1]
                     ELSE IF i < b.tail + n - m_iBufSize THEN data[i + m_iBufSize - b.tail + 1]
                     ELSE b.cells[i]
  <2>1. i \in 0 .. m_iBufSize - 1 /\ b.tail \in 0 .. m_iBufSize - 1
    BY <1>5 DEF Cell
  <2>2. CASE i < n - first
    <3>1. i + 1 \in 1..(n - first) /\ first + (i + 1) = i + m_iBufSize - b.tail + 1
      BY <1>2, <1>5, <2>1, <2>2, IOBufferAssumption, SMTT(60)
    <3>2. two[i + 1] = data[i + m_iBufSize - b.tail + 1]
      BY <1>7, <3>1
    <3>3. i < b.tail + n - m_iBufSize /\ ~(b.tail <= i)
      BY <1>2, <1>5, <2>1, <2>2, IOBufferAssumption
    <3> QED
      BY <1>7, <1>9, <2>2, <3>2, <3>3
  <2>3. CASE ~(i < n - first) /\ b.tail <= i /\ i < b.tail + n
    <3>1. i < b.tail + first /\ i - b.tail + 1 \in 1..first
      BY <1>2, <1>5, <2>1, <2>3, IOBufferAssumption, SMTT(60)
    <3>2. one[i - b.tail + 1] = data[i - b.tail + 1]
      BY <1>6, <3>1
    <3> QED
      BY <1>6, <1>7, <1>9, <2>3, <3>1, <3>2
  <2>4. CASE ~(i < n - first) /\ ~(b.tail <= i /\ i < b.tail + n)
    <3>1. ~(b.tail <= i /\ i < b.tail + first) /\ ~(i < b.tail + n - m_iBufSize)
      BY <1>2, <1>5, <2>1, <2>4, IOBufferAssumption, SMTT(60)
    <3> QED
      BY <1>6, <1>7, <1>9, <2>4, <3>1
  <2> QED
    BY <2>2, <2>3, <2>4
<1> QED
  <2>1. a.cells = r
    BY <1>10
  <2>2. /\ a.head = b.head /\ a.tail = Wrap(b.tail + n)
        /\ a.used = CalcUsedBufferSize(a.head, a.tail)
        /\ a \in [head : Cell, tail : Cell, used : Nat, cells : [Cell -> Byte]]
    BY <1>5, <1>9, <1>10, <1>11, <1>12
  <2> QED
    BY <1>1, <1>13, <2>1, <2>2

(* The bytes held are a sequence of m_iUsedBufferSize bytes.                *)
LEMMA HeldIsSeq ==
  ASSUME NEW Byte, NEW b, IsIOBuffer(b, Byte)
  PROVE  /\ Held(b) \in Seq(Byte) /\ Len(Held(b)) = b.used
         /\ b.used \in 0 .. m_iBufSize - 1
         /\ \A i \in 1..b.used : Held(b)[i] = b.cells[Wrap(b.head + i - 1)]
<1>1. b.used \in 0 .. m_iBufSize - 1 /\ b.head \in Cell /\ b.cells \in [Cell -> Byte]
  BY UsedRange DEF IsIOBuffer
<1>2. ASSUME NEW i \in 1..b.used
      PROVE  b.cells[Wrap(b.head + i - 1)] \in Byte
  <2>1. b.head + i - 1 \in 0 .. (2 * m_iBufSize - 1)
    BY <1>1, IOBufferAssumption DEF Cell
  <2> QED
    BY <1>1, <2>1, WrapInRing
<1>3. Held(b) \in [1..b.used -> Byte]
  BY <1>2 DEF Held
<1>4. b.used \in Nat
  BY <1>1, IOBufferAssumption
<1>5. Held(b) \in Seq(Byte) /\ Len(Held(b)) = b.used
  BY <1>3, <1>4
<1> QED
  BY <1>1, <1>5 DEF Held

(* What fits is counted in full.                                            *)
LEMMA UsedAfterAppend ==
  ASSUME NEW head \in Cell, NEW tail \in Cell, NEW n \in Nat,
         CalcUsedBufferSize(head, tail) + n < m_iBufSize
  PROVE  CalcUsedBufferSize(head, Wrap(tail + n)) = CalcUsedBufferSize(head, tail) + n
  BY IOBufferAssumption DEF CalcUsedBufferSize, Wrap, Cell

(* Where the i-th byte from the head lies when n more are behind the tail.  *)
LEMMA RingPlace ==
  ASSUME NEW head \in Cell, NEW tail \in Cell, NEW n \in Nat, NEW i \in Nat, i > 0,
         CalcUsedBufferSize(head, tail) + n < m_iBufSize,
         i <= CalcUsedBufferSize(head, tail) + n
  PROVE  LET p == Wrap(head + i - 1)
             used == CalcUsedBufferSize(head, tail)
         IN  /\ p \in Cell
             /\ i <= used => ~(tail <= p /\ p < tail + n) /\ ~(p < tail + n - m_iBufSize)
             /\ i > used /\ tail <= p => p < tail + n /\ p - tail + 1 = i - used
             /\ i > used /\ tail > p =>
                  p < tail + n - m_iBufSize /\ p + m_iBufSize - tail + 1 = i - used
<1>1. CASE head > tail
  BY <1>1, IOBufferAssumption DEF CalcUsedBufferSize, Wrap, Cell
<1>2. CASE ~(head > tail)
  BY <1>2, IOBufferAssumption DEF CalcUsedBufferSize, Wrap, Cell
<1> QED
  BY <1>1, <1>2

(* AppendData puts the data behind the bytes held.                          *)
LEMMA AppendHeld ==
  ASSUME NEW Byte, NEW b, IsIOBuffer(b, Byte), NEW data \in Seq(Byte), Fits(b, Len(data))
  PROVE  /\ IsIOBuffer(AppendData(b, data), Byte)
         /\ Held(AppendData(b, data)) = Held(b) \o data
         /\ AppendData(b, data).used = b.used + Len(data)
<1>1. PICK a : a = AppendData(b, data)
  OBVIOUS
<1>2. PICK n \in Nat : n = Len(data)
  OBVIOUS
<1>3. /\ a.head = b.head /\ a.tail = Wrap(b.tail + n)
      /\ a.used = CalcUsedBufferSize(a.head, a.tail)
      /\ a \in [head : Cell, tail : Cell, used : Nat, cells : [Cell -> Byte]]
      /\ \A i \in Cell : a.cells[i] =
           IF b.tail <= i /\ i < b.tail + n THEN data[i - b.tail + 1]
           ELSE IF i < b.tail + n - m_iBufSize THEN data[i + m_iBufSize - b.tail + 1]
           ELSE b.cells[i]
  BY <1>1, <1>2, AppendCells
<1>4. b.tail \in Cell /\ b.head \in Cell /\ b.used = CalcUsedBufferSize(b.head, b.tail)
  BY DEF IsIOBuffer
<1>5. b.used + n < m_iBufSize
  BY <1>2 DEF Fits
<1>6. a.used = b.used + n
  BY <1>3, <1>4, <1>5, UsedAfterAppend
<1>7. IsIOBuffer(a, Byte)
  BY <1>3 DEF IsIOBuffer
<1>8. /\ Held(b) \in Seq(Byte) /\ Len(Held(b)) = b.used /\ b.used \in 0 .. m_iBufSize - 1
      /\ \A i \in 1..b.used : Held(b)[i] = b.cells[Wrap(b.head + i - 1)]
  BY HeldIsSeq
<1>9. /\ Held(a) \in Seq(Byte) /\ Len(Held(a)) = b.used + n
      /\ \A i \in 1..(b.used + n) : Held(a)[i] = a.cells[Wrap(b.head + i - 1)]
  BY <1>3, <1>6, <1>7, HeldIsSeq
<1>10. PICK c :
         /\ c = Held(b) \o data
         /\ c \in Seq(Byte) /\ Len(c) = b.used + n
         /\ \A i \in 1..(b.used + n) : c[i] = IF i <= b.used THEN Held(b)[i] ELSE data[i - b.used]
  <2>1. /\ Held(b) \o data \in Seq(Byte) /\ Len(Held(b) \o data) = b.used + n
        /\ \A i \in 1..(b.used + n) :
             (Held(b) \o data)[i] = IF i <= b.used THEN Held(b)[i] ELSE data[i - b.used]
    BY <1>2, <1>8, ConcatProperties
  <2> QED
    BY <2>1
<1>11. ASSUME NEW i \in 1..(b.used + n)
       PROVE  Held(a)[i] = c[i]
  <2>1. PICK p : p = Wrap(b.head + i - 1)
    OBVIOUS
  <2>2. i \in Nat /\ i > 0 /\ b.used \in Nat /\ i <= b.used + n
    BY <1>8, IOBufferAssumption
  <2>3. /\ p \in Cell
        /\ i <= b.used => ~(b.tail <= p /\ p < b.tail + n) /\ ~(p < b.tail + n - m_iBufSize)
        /\ i > b.used /\ b.tail <= p => p < b.tail + n /\ p - b.tail + 1 = i - b.used
        /\ i > b.used /\ b.tail > p =>
             p < b.tail + n - m_iBufSize /\ p + m_iBufSize - b.tail + 1 = i - b.used
    BY <1>4, <1>5, <2>1, <2>2, RingPlace
  <2>4. CASE i <= b.used
    <3>1. a.cells[p] = b.cells[p]
      BY <1>3, <2>3, <2>4
    <3>2. i \in 1..b.used
      BY <2>2, <2>4
    <3> QED
      BY <1>8, <1>9, <1>10, <2>1, <2>4, <3>1, <3>2
  <2>5. CASE ~(i <= b.used)
    <3>1. i > b.used /\ p \in Nat /\ b.tail \in Nat
      BY <1>4, <2>2, <2>3, <2>5 DEF Cell
    <3>2. a.cells[p] = data[i - b.used]
      BY <1>3, <2>3, <3>1
    <3> QED
      BY <1>9, <1>10, <2>1, <2>5, <3>2
  <2> QED
    BY <2>4, <2>5
<1>12. Held(a) = c
  BY <1>9, <1>10, <1>11, SeqEqual
<1> QED
  BY <1>1, <1>2, <1>6, <1>7, <1>10, <1>12

(* GetData and RemoveData take the oldest bytes, all of them if there are   *)
(* not enough.                                                              *)
LEMMA RemoveHeld ==
  ASSUME NEW Byte, NEW b, IsIOBuffer(b, Byte), NEW n \in Nat
  PROVE  /\ Available(b, n) \in 0..b.used
         /\ IsIOBuffer(RemoveData(b, n), Byte)
         /\ Held(RemoveData(b, n)) = SubSeq(Held(b), Available(b, n) + 1, b.used)
         /\ RemoveData(b, n).used = b.used - Available(b, n)
<1>1. PICK k : k = Available(b, n)
  OBVIOUS
<1>2. /\ b.tail \in Cell /\ b.head \in Cell /\ b.used = CalcUsedBufferSize(b.head, b.tail)
      /\ b \in [head : Cell, tail : Cell, used : Nat, cells : [Cell -> Byte]]
  BY DEF IsIOBuffer
<1>3. /\ Held(b) \in Seq(Byte) /\ Len(Held(b)) = b.used /\ b.used \in 0 .. m_iBufSize - 1
      /\ \A i \in 1..b.used : Held(b)[i] = b.cells[Wrap(b.head + i - 1)]
  BY HeldIsSeq
<1>4. k \in 0..b.used /\ k \in Nat
  BY <1>1, <1>2 DEF Available
<1>5. PICK h : h = Wrap(b.head + k)
  OBVIOUS
<1>6. h \in Cell /\ CalcUsedBufferSize(h, b.tail) = b.used - k
  <2>1. CASE b.head > b.tail
    BY <1>2, <1>4, <1>5, <2>1, IOBufferAssumption DEF Wrap, Cell, CalcUsedBufferSize
  <2>2. CASE ~(b.head > b.tail)
    BY <1>2, <1>4, <1>5, <2>2, IOBufferAssumption DEF Wrap, Cell, CalcUsedBufferSize
  <2> QED
    BY <2>1, <2>2
<1>7. PICK a : a = RemoveData(b, n)
  OBVIOUS
<1>8. a = [b EXCEPT !.head = h, !.used = b.used - k]
  BY <1>1, <1>5, <1>6, <1>7 DEF RemoveData, SetHead
<1>9. b.used - k \in Nat
  BY <1>2, <1>4
<1>10. a.head = h /\ a.tail = b.tail /\ a.used = b.used - k /\ a.cells = b.cells
  BY <1>2, <1>8
<1>11. IsIOBuffer(a, Byte)
  BY <1>2, <1>6, <1>8, <1>9, <1>10 DEF IsIOBuffer
<1>12. /\ Held(a) \in Seq(Byte) /\ Len(Held(a)) = b.used - k
       /\ \A i \in 1..(b.used - k) : Held(a)[i] = b.cells[Wrap(h + i - 1)]
  BY <1>10, <1>11, HeldIsSeq
<1>13. PICK t : t = SubSeq(Held(b), k + 1, b.used)
  OBVIOUS
<1>14. /\ t \in Seq(Byte) /\ Len(t) = b.used - k
       /\ \A i \in 1..(b.used - k) : t[i] = Held(b)[k + i]
  <2>1. k + 1 \in Int /\ b.used \in Int /\ b.used - (k + 1) + 1 = b.used - k
    BY <1>2, <1>4
  <2>2. \A i \in (k + 1) .. b.used : Held(b)[i] \in Byte
    BY <1>2, <1>3, <1>4
  <2>3. /\ t \in Seq(Byte) /\ Len(t) = IF k + 1 <= b.used THEN b.used - (k + 1) + 1 ELSE 0
        /\ \A i \in 1 .. b.used - (k + 1) + 1 : t[i] = Held(b)[k + 1 + i - 1]
    BY <1>13, <2>1, <2>2, SubSeqProperties
  <2>4. Len(t) = b.used - k
    BY <1>2, <1>4, <2>3
  <2>5. \A i \in 1..(b.used - k) : k + 1 + i - 1 = k + i
    BY <1>2, <1>4
  <2> QED
    BY <2>1, <2>3, <2>4, <2>5
<1>15. ASSUME NEW i \in 1..(b.used - k)
       PROVE  Held(a)[i] = t[i]
  <2>1. Wrap(h + i - 1) = Wrap(b.head + (k + i) - 1)
    BY <1>2, <1>3, <1>4, <1>5, IOBufferAssumption, SMTT(60) DEF Wrap, Cell
  <2>2. k + i \in 1..b.used
    BY <1>2, <1>4
  <2> QED
    BY <1>3, <1>12, <1>14, <2>1, <2>2
<1>16. Held(a) = t
  BY <1>12, <1>14, <1>15, SeqEqual
<1> QED
  BY <1>1, <1>4, <1>7, <1>10, <1>11, <1>13, <1>16

(* The bytes GetData copies out are the oldest ones.                        *)
LEMMA ReadHeld ==
  ASSUME NEW Byte, NEW b, IsIOBuffer(b, Byte), NEW n \in Nat
  PROVE  DataRead(b, n) = SubSeq(Held(b), 1, Available(b, n))
<1>1. PICK k : k = Available(b, n)
  OBVIOUS
<1>2. /\ b.head \in Cell /\ b.used \in Nat /\ b.cells \in [Cell -> Byte]
  BY DEF IsIOBuffer
<1>3. /\ Held(b) \in Seq(Byte) /\ Len(Held(b)) = b.used /\ b.used \in 0 .. m_iBufSize - 1
      /\ \A i \in 1..b.used : Held(b)[i] = b.cells[Wrap(b.head + i - 1)]
  BY HeldIsSeq
<1>4. k \in 0..b.used /\ k \in Nat
  BY <1>1, <1>2 DEF Available
<1>5. PICK t : t = SubSeq(Held(b), 1, k)
  OBVIOUS
<1>6. t \in Seq(Byte) /\ Len(t) = k /\ \A i \in 1..k : t[i] = b.cells[Wrap(b.head + i - 1)]
  <2>1. t \in Seq(Byte) /\ Len(t) = k /\ \A i \in 1..k : t[i] = Held(b)[i]
    BY <1>2, <1>3, <1>4, <1>5
  <2>2. \A i \in 1..k : i \in 1..b.used
    BY <1>2, <1>4
  <2> QED
    BY <1>3, <2>1, <2>2
<1>7. CASE b.head + k > m_iBufSize
  <2>1. PICK room \in Nat : room = m_iBufSize - b.head
    BY <1>2, IOBufferAssumption DEF Cell
  <2>2. PICK one : one = CopyOut(b.cells, b.head, room)
    OBVIOUS
  <2>3. PICK two : two = CopyOut(b.cells, 0, k - room)
    OBVIOUS
  <2>4. k - room \in Nat
    BY <1>2, <1>4, <1>7, <2>1, IOBufferAssumption DEF Cell
  <2>5. /\ one \in Seq(Byte) /\ Len(one) = room
        /\ \A i \in 1..room : one[i] = b.cells[b.head + i - 1]
    <3>1. \A i \in 1..room : b.head + i - 1 \in Cell
      BY <1>2, <2>1, IOBufferAssumption DEF Cell
    <3>2. one \in [1..room -> Byte]
      BY <1>2, <2>2, <3>1 DEF CopyOut
    <3> QED
      BY <2>2, <3>2 DEF CopyOut
  <2>6. /\ two \in Seq(Byte) /\ Len(two) = k - room
        /\ \A i \in 1..(k - room) : two[i] = b.cells[0 + i - 1]
    <3>1. \A i \in 1..(k - room) : 0 + i - 1 \in Cell
      BY <1>2, <1>3, <1>4, <2>1, IOBufferAssumption DEF Cell
    <3>2. two \in [1..(k - room) -> Byte]
      BY <1>2, <2>3, <3>1 DEF CopyOut
    <3> QED
      BY <2>3, <2>4, <3>2 DEF CopyOut
  <2>7. /\ one \o two \in Seq(Byte) /\ Len(one \o two) = k
        /\ \A i \in 1..k : (one \o two)[i] = IF i <= room THEN one[i] ELSE two[i - room]
    <3>1. Len(one) + Len(two) = k
      BY <1>4, <2>1, <2>4, <2>5, <2>6
    <3> QED
      BY <2>5, <2>6, <3>1, ConcatProperties
  <2>8. ASSUME NEW i \in 1..k
        PROVE  (one \o two)[i] = t[i]
    <3>1. CASE i <= room
      <4>1. i \in 1..room /\ Wrap(b.head + i - 1) = b.head + i - 1
        BY <1>2, <1>4, <2>1, <3>1, IOBufferAssumption DEF Cell, Wrap
      <4> QED
        BY <1>6, <2>5, <2>7, <3>1, <4>1
    <3>2. CASE ~(i <= room)
      <4>1. i - room \in 1..(k - room)
        BY <1>4, <2>1, <3>2
      <4>2. b.head + i - 1 >= m_iBufSize /\ b.head + i - 1 - m_iBufSize = 0 + (i - room) - 1
        BY <1>2, <1>4, <2>1, <3>2, IOBufferAssumption DEF Cell
      <4>3. Wrap(b.head + i - 1) = 0 + (i - room) - 1
        BY <1>2, <1>4, <4>2, IOBufferAssumption DEF Wrap, Cell
      <4> QED
        BY <1>6, <2>6, <2>7, <3>2, <4>1, <4>3
    <3> QED
      BY <3>1, <3>2
  <2>9. one \o two = t
    BY <1>6, <2>7, <2>8, SeqEqual
  <2>10. DataRead(b, n) = one \o two
    BY <1>1, <1>7, <2>1, <2>2, <2>3 DEF DataRead
  <2> QED
    BY <1>1, <1>5, <2>9, <2>10
<1>8. CASE ~(b.head + k > m_iBufSize)
  <2>1. PICK one : one = CopyOut(b.cells, b.head, k)
    OBVIOUS
  <2>2. \A i \in 1..k : b.head + i - 1 \in Cell /\ Wrap(b.head + i - 1) = b.head + i - 1
    BY <1>2, <1>4, <1>8, IOBufferAssumption DEF Cell, Wrap
  <2>3. one \in [1..k -> Byte]
    BY <1>2, <2>1, <2>2 DEF CopyOut
  <2>4. /\ one \in Seq(Byte) /\ Len(one) = k
        /\ \A i \in 1..k : one[i] = b.cells[b.head + i - 1]
    BY <1>4, <2>1, <2>3 DEF CopyOut
  <2>5. \A i \in 1..k : one[i] = t[i]
    BY <1>6, <2>2, <2>4
  <2>6. one = t
    BY <1>6, <2>4, <2>5, SeqEqual
  <2>7. DataRead(b, n) = one
    BY <1>1, <1>8, <2>1 DEF DataRead
  <2> QED
    BY <1>1, <1>5, <2>6, <2>7
<1> QED
  BY <1>7, <1>8

(* Going back to the old head undoes a GetData.                             *)
LEMMA PeekKeeps ==
  ASSUME NEW Byte, NEW b, IsIOBuffer(b, Byte), NEW n \in Nat
  PROVE  SetHead(RemoveData(b, n), b.head) = b
  BY DEF IsIOBuffer, SetHead, RemoveData
=============================================================================
