------------------------ MODULE SFPacketProtocolProofs ------------------------
(***************************************************************************)
(* Packets come out of a session as they went in, for every packet size,   *)
(* every size of the ring that holds a packet and a read, and every way of *)
(* cutting the stream into reads.                                          *)
(*                                                                         *)
(* The invariant describes the stream still to be framed, i.e. the bytes   *)
(* held by the ring followed by the bytes on the wire: it consists of the  *)
(* packets not yet dispatched, each whole.                                 *)
(***************************************************************************)
EXTENDS SFPacketProtocol, SFIOBufferProofs

(* Places i to last of stream s are byte k to the last byte of packet p of  *)
(* sn; then comes the next packet, or nothing.                              *)
Piece(sn, s, i, p, k, last) ==
  /\ p \in 1..Len(sn)
  /\ k >= 1
  /\ i <= last /\ last <= Len(s)
  /\ k + (last - i) = HeaderSize + sn[p]
  /\ \A j \in i..last : s[j] = <<p, k + (j - i)>>
  /\ last = Len(s) => p = Len(sn)
  /\ last < Len(s) => s[last + 1] = <<p + 1, 1>>

Run(sn, s, i) == \E p \in Nat, k \in Nat, last \in Nat : Piece(sn, s, i, p, k, last)

(* s is the packets of sn but the first d.                                  *)
WellFramed(sn, d, s) ==
  /\ \A i \in 1..Len(s) : Run(sn, s, i)
  /\ Len(s) = 0 => d = Len(sn)
  /\ Len(s) > 0 => s[1] = <<d + 1, 1>>

(* The bytes in buffer b and then those on the wire w.                      *)
StreamOf(b, w) == Held(b) \o w

Stream == StreamOf(io, wire)

LessThanOnePacket == state = "read" => io.used < m_packetSize

ProtocolInv ==
  /\ LessThanOnePacket
  /\ WellFramed(sent, Len(dispatched), Stream)
  /\ DispatchedAsSent
  /\ ClosedOnlyIfTooLarge

-----------------------------------------------------------------------------
(* A packet sent extends a well framed stream.                              *)
LEMMA FramedAfterEncode ==
  ASSUME NEW sn \in Seq(Nat), NEW d \in Nat, NEW B, NEW s \in Seq(B), NEW t \in Seq(B),
         NEW size \in Nat, WellFramed(sn, d, s),
         Len(t) = HeaderSize + size, \A k \in 1..(HeaderSize + size) : t[k] = <<Len(sn) + 1, k>>
  PROVE  WellFramed(Append(sn, size), d, s \o t)
<1>1. PICK P \in Nat : P = Len(sn)
  OBVIOUS
<1>2. PICK L \in Nat : L = Len(s)
  OBVIOUS
<1>3. PICK N \in Nat : N = HeaderSize + size /\ N > 0 /\ HeaderSize \in Nat
  BY ProtocolAssumption
<1>4. PICK sn2 : sn2 = Append(sn, size)
  OBVIOUS
<1>5. PICK s2 :
        /\ s2 = s \o t /\ Len(s2) = Len(s) + Len(t)
        /\ \A i \in 1 .. Len(s) + Len(t) : s2[i] = IF i <= Len(s) THEN s[i] ELSE t[i - Len(s)]
  <2>1. /\ Len(s \o t) = Len(s) + Len(t)
        /\ \A i \in 1 .. Len(s) + Len(t) : (s \o t)[i] = IF i <= Len(s) THEN s[i] ELSE t[i - Len(s)]
    BY ConcatProperties
  <2> QED
    BY <2>1
<1>6. Len(sn2) = P + 1 /\ sn2[P + 1] = size /\ \A q \in 1..P : sn2[q] = sn[q] /\ sn[q] \in Nat
  BY <1>1, <1>4
<1>7. /\ Len(s2) = L + N
      /\ \A i \in 1..(L + N) : s2[i] = IF i <= L THEN s[i] ELSE t[i - L]
  BY <1>2, <1>3, <1>5
<1>8. \A i \in 1..L : s2[i] = s[i]
  BY <1>7, <1>3
<1>9. \A k \in 1..N : s2[L + k] = <<P + 1, k>>
  <2> SUFFICES ASSUME NEW k \in 1..N PROVE s2[L + k] = <<P + 1, k>>
    OBVIOUS
  <2>1. L + k \in 1..(L + N) /\ ~(L + k <= L) /\ (L + k) - L = k
    BY <1>3
  <2> QED
    BY <1>1, <1>3, <1>7, <2>1
<1>10. ASSUME NEW i \in 1..(L + N)
       PROVE  Run(sn2, s2, i)
  <2>1. CASE i <= L
    <3>1. i \in 1..L
      BY <1>3, <2>1
    <3>2. PICK p \in Nat, k \in Nat, last \in Nat : Piece(sn, s, i, p, k, last)
      BY <1>2, <3>1 DEF WellFramed, Run
    <3>3. /\ p \in 1..P /\ k >= 1 /\ i <= last /\ last <= L /\ k + (last - i) = HeaderSize + sn[p]
          /\ \A j \in i..last : s[j] = <<p, k + (j - i)>>
          /\ last = L => p = P
          /\ last < L => s[last + 1] = <<p + 1, 1>>
      BY <1>1, <1>2, <3>2 DEF Piece
    <3>4. /\ p \in 1..(P + 1) /\ sn2[p] = sn[p] /\ last <= L + N /\ last # L + N
          /\ \A j \in i..last : j \in 1..L
      BY <1>3, <1>6, <3>1, <3>3, SMTT(60)
    <3>5. \A j \in i..last : s2[j] = <<p, k + (j - i)>>
      BY <1>8, <3>3, <3>4
    <3>6. s2[last + 1] = <<p + 1, 1>>
      <4>1. CASE last < L
        <5>1. last + 1 \in 1..L
          BY <4>1
        <5> QED
          BY <1>8, <3>3, <4>1, <5>1
      <4>2. CASE last = L
        <5>1. 1 \in 1..N
          BY <1>3
        <5>2. s2[L + 1] = <<P + 1, 1>>
          BY <1>9, <5>1
        <5> QED
          BY <3>3, <4>2, <5>2
      <4>3. last <= L
        BY <3>3
      <4> QED
        BY <4>1, <4>2, <4>3
    <3>7. Piece(sn2, s2, i, p, k, last)
      BY <1>6, <1>7, <3>3, <3>4, <3>5, <3>6 DEF Piece
    <3> QED
      BY <3>7 DEF Run
  <2>2. CASE ~(i <= L)
    <3>1. PICK k \in Nat : k = i - L /\ k >= 1
      BY <1>3, <2>2
    <3>2. PICK last \in Nat : last = L + N
      OBVIOUS
    <3>3. ASSUME NEW j \in i..last
          PROVE  s2[j] = <<P + 1, k + (j - i)>>
      <4>1. j - L \in 1..N /\ L + (j - L) = j /\ k + (j - i) = j - L
        BY <1>3, <2>2, <3>1, <3>2
      <4> QED
        BY <1>9, <4>1
    <3>4. /\ P + 1 \in Nat /\ P + 1 \in 1..(P + 1) /\ i <= last
          /\ k + (last - i) = HeaderSize + size /\ ~(last < L + N) /\ last <= L + N
      BY <1>3, <3>1, <3>2
    <3>5. Piece(sn2, s2, i, P + 1, k, last)
      BY <1>6, <1>7, <3>1, <3>3, <3>4 DEF Piece
    <3> QED
      BY <3>4, <3>5 DEF Run
  <2> QED
    BY <2>1, <2>2
<1>11. Len(s2) > 0 /\ s2[1] = <<d + 1, 1>>
  <2>1. CASE L = 0
    <3>1. d = P /\ L + 1 = 1 /\ 1 \in 1..N
      BY <1>1, <1>2, <1>3, <2>1 DEF WellFramed
    <3> QED
      BY <1>3, <1>7, <1>9, <3>1, SMTT(60)
  <2>2. CASE L > 0
    <3>1. s[1] = <<d + 1, 1>> /\ 1 \in 1..L
      BY <1>2, <2>2 DEF WellFramed
    <3> QED
      BY <1>3, <1>7, <1>8, <2>2, <3>1, SMTT(60)
  <2> QED
    BY <2>1, <2>2
<1> QED
  BY <1>3, <1>4, <1>5, <1>7, <1>10, <1>11, SMTT(60) DEF WellFramed

(* The first packet of a well framed stream, and the stream behind it.      *)
LEMMA FirstPacket ==
  ASSUME NEW sn \in Seq(Nat), NEW d \in Nat, NEW B, NEW s \in Seq(B),
         WellFramed(sn, d, s), Len(s) > 0
  PROVE  /\ d + 1 \in 1..Len(sn) /\ HeaderSize + sn[d + 1] \in 1..Len(s)
         /\ \A j \in 1..(HeaderSize + sn[d + 1]) : s[j] = <<d + 1, j>>
         /\ WellFramed(sn, d + 1, SubSeq(s, HeaderSize + sn[d + 1] + 1, Len(s)))
<1>1. PICK P \in Nat : P = Len(sn)
  OBVIOUS
<1>2. PICK L \in Nat : L = Len(s) /\ L > 0
  OBVIOUS
<1>3. s[1] = <<d + 1, 1>> /\ \A i \in 1..L : Run(sn, s, i)
  BY <1>2 DEF WellFramed
<1>4. HeaderSize \in Nat /\ HeaderSize > 0 /\ \A q \in 1..P : sn[q] \in Nat
  BY <1>1, ProtocolAssumption
<1>5. PICK p \in Nat, k \in Nat, last \in Nat : Piece(sn, s, 1, p, k, last)
  <2>1. 1 \in 1..L
    BY <1>2
  <2> QED
    BY <1>3, <2>1 DEF Run
<1>6. /\ p \in 1..P /\ k >= 1 /\ 1 <= last /\ last <= L /\ k + (last - 1) = HeaderSize + sn[p]
      /\ \A j \in 1..last : s[j] = <<p, k + (j - 1)>>
      /\ last = L => p = P
      /\ last < L => s[last + 1] = <<p + 1, 1>>
  BY <1>1, <1>2, <1>5 DEF Piece
<1>7. p = d + 1 /\ k = 1
  <2>1. 1 \in 1..last /\ k + (1 - 1) = k
    BY <1>6
  <2>2. s[1] = <<p, k>>
    BY <1>6, <2>1
  <2> QED
    BY <1>3, <2>2
<1> PICK m \in Nat : m = last
  OBVIOUS
<1>8. /\ m = HeaderSize + sn[d + 1]
      /\ d + 1 \in 1..P /\ m \in 1..L
      /\ m = L => d + 1 = P
      /\ m < L => s[m + 1] = <<d + 1 + 1, 1>>
  BY <1>4, <1>6, <1>7
<1>9. \A j \in 1..m : s[j] = <<d + 1, j>>
  <2>1. \A j \in 1..m : k + (j - 1) = j
    BY <1>7
  <2> QED
    BY <1>6, <1>7, <2>1
<1> m >= 1 /\ m <= L
  BY <1>8
<1>10. PICK s2 : s2 = SubSeq(s, m + 1, L)
  OBVIOUS
<1>11. Len(s2) = L - m /\ \A i \in 1..(L - m) : s2[i] = s[m + i]
  <2>1. L - (m + 1) + 1 = L - m /\ \A i \in 1..(L - m) : m + 1 + i - 1 = m + i
    OBVIOUS
  <2>2. \A i \in (m + 1)..L : s[i] \in B
    BY <1>2, <1>8
  <2>3. /\ Len(s2) = IF m + 1 <= L THEN L - (m + 1) + 1 ELSE 0
        /\ \A i \in 1..(L - (m + 1) + 1) : s2[i] = s[m + 1 + i - 1]
    BY <1>10, <2>2, SubSeqProperties
  <2>4. Len(s2) = L - m
    BY <1>8, <2>3, SMTT(60)
  <2> QED
    BY <2>1, <2>3, <2>4
<1>12. ASSUME NEW i \in 1..(L - m)
       PROVE  Run(sn, s2, i)
  <2>1. m + i \in 1..L /\ i \in Nat
    OBVIOUS
  <2>2. PICK q \in Nat, c \in Nat, end \in Nat : Piece(sn, s, m + i, q, c, end)
    BY <1>3, <2>1 DEF Run
  <2>3. /\ q \in 1..P /\ c >= 1 /\ m + i <= end /\ end <= L /\ c + (end - (m + i)) = HeaderSize + sn[q]
        /\ \A j \in (m + i)..end : s[j] = <<q, c + (j - (m + i))>>
        /\ end = L => q = P
        /\ end < L => s[end + 1] = <<q + 1, 1>>
    BY <1>1, <1>2, <2>2 DEF Piece
  <2>4. PICK l \in Nat : l = end - m
    BY <2>1, <2>3
  <2>5. /\ i <= l /\ l <= L - m /\ c + (l - i) = HeaderSize + sn[q]
        /\ (l = L - m => q = P)
    BY <2>1, <2>3, <2>4
  <2>6. ASSUME NEW j \in i..l
        PROVE  s2[j] = <<q, c + (j - i)>>
    <3>1. /\ m + j \in (m + i)..end /\ j \in 1..(L - m) /\ c + ((m + j) - (m + i)) = c + (j - i)
      BY <2>1, <2>4, <2>5
    <3>2. s[m + j] = <<q, c + (j - i)>>
      BY <2>3, <3>1
    <3> QED
      BY <1>11, <3>1, <3>2
  <2>7. l < L - m => s2[l + 1] = <<q + 1, 1>>
    <3>1. l < L - m => l + 1 \in 1..(L - m) /\ m + (l + 1) = end + 1 /\ end < L
      BY <2>4
    <3> QED
      BY <1>11, <2>3, <3>1
  <2>8. Piece(sn, s2, i, q, c, l)
    BY <1>1, <1>11, <2>3, <2>5, <2>6, <2>7 DEF Piece
  <2> QED
    BY <2>8 DEF Run
<1>13. Len(s2) = 0 => d + 1 = P
  <2>1. Len(s2) = 0 => m = L
    BY <1>11
  <2> QED
    BY <1>8, <2>1
<1>14. Len(s2) > 0 => s2[1] = <<d + 1 + 1, 1>>
  <2>1. L - m > 0 => 1 \in 1..(L - m) /\ m < L
    BY <1>8
  <2> QED
    BY <1>8, <1>11, <2>1
<1>15. WellFramed(sn, d + 1, s2)
  BY <1>1, <1>11, <1>12, <1>13, <1>14 DEF WellFramed
<1> QED
  BY <1>1, <1>2, <1>8, <1>9, <1>10, <1>15

(* A buffer's oldest n bytes, as bytes of the stream that starts with them. *)
LEMMA ReadFromStream ==
  ASSUME NEW B, NEW b, IsIOBuffer(b, B), NEW w \in Seq(B), NEW n \in Nat, n <= b.used
  PROVE  /\ StreamOf(b, w) \in Seq(B) /\ Len(StreamOf(b, w)) = b.used + Len(w)
         /\ DataRead(b, n) \in Seq(B) /\ Len(DataRead(b, n)) = n
         /\ \A j \in 1..n : DataRead(b, n)[j] = StreamOf(b, w)[j]
         /\ IsIOBuffer(RemoveData(b, n), B) /\ RemoveData(b, n).used = b.used - n
         /\ StreamOf(RemoveData(b, n), w) \in Seq(B)
         /\ Len(StreamOf(RemoveData(b, n), w)) = Len(StreamOf(b, w)) - n
         /\ \A j \in 1..(Len(StreamOf(b, w)) - n) :
              StreamOf(RemoveData(b, n), w)[j] = StreamOf(b, w)[n + j]
<1>1. PICK h \in Seq(B) : h = Held(b) /\ Len(h) = b.used /\ b.used \in Nat
  BY HeldIsSeq DEF IsIOBuffer
<1>2. PICK s \in Seq(B) :
        /\ s = StreamOf(b, w) /\ Len(s) = b.used + Len(w)
        /\ \A i \in 1 .. b.used + Len(w) : s[i] = IF i <= b.used THEN h[i] ELSE w[i - b.used]
  <2>1. /\ h \o w \in Seq(B) /\ Len(h \o w) = Len(h) + Len(w)
        /\ \A i \in 1 .. Len(h) + Len(w) : (h \o w)[i] = IF i <= Len(h) THEN h[i] ELSE w[i - Len(h)]
    BY ConcatProperties
  <2> QED
    BY <1>1, <2>1, ZenonT(60) DEF StreamOf
<1>3. Available(b, n) = n
  BY <1>1 DEF Available
<1>4. DataRead(b, n) = SubSeq(h, 1, n)
  BY <1>1, <1>3, ReadHeld
<1>5. PICK c : c = RemoveData(b, n)
  OBVIOUS
<1>6. IsIOBuffer(c, B) /\ Held(c) = SubSeq(h, n + 1, b.used) /\ c.used = b.used - n
  BY <1>1, <1>3, <1>5, RemoveHeld
<1>7. /\ SubSeq(h, 1, n) \in Seq(B) /\ Len(SubSeq(h, 1, n)) = n
      /\ \A j \in 1..n : SubSeq(h, 1, n)[j] = s[j]
  <2>1. /\ SubSeq(h, 1, n) \in Seq(B) /\ Len(SubSeq(h, 1, n)) = n
        /\ \A j \in 1..n : SubSeq(h, 1, n)[j] = h[j]
    BY <1>1
  <2>2. \A j \in 1..n : s[j] = h[j]
    BY <1>1, <1>2
  <2> QED
    BY <2>1, <2>2
<1>8. PICK L \in Nat, U \in Nat : L = Len(w) /\ U = b.used /\ n <= U
  BY <1>1
<1>9. PICK r : r = SubSeq(h, n + 1, U)
  OBVIOUS
<1>10. /\ r \in Seq(B) /\ Len(r) = U - n
       /\ \A j \in 1..(U - n) : r[j] = h[n + j]
  <2>1. /\ r \in Seq(B)
        /\ Len(r) = IF n + 1 <= U THEN U - (n + 1) + 1 ELSE 0
        /\ \A j \in 1..(U - (n + 1) + 1) : r[j] = h[n + 1 + j - 1]
    <3>1. \A i \in (n + 1)..U : h[i] \in B
      BY <1>1, <1>8
    <3> QED
      BY <1>9, <3>1, SubSeqProperties
  <2>2. U - (n + 1) + 1 = U - n /\ \A j \in 1..(U - n) : n + 1 + j - 1 = n + j
    OBVIOUS
  <2>3. Len(r) = U - n
    BY <1>8, <2>1, SMTT(60)
  <2> QED
    BY <2>1, <2>2, <2>3
<1>11. PICK t : t = r \o w
  OBVIOUS
<1>12. /\ t \in Seq(B) /\ Len(t) = U - n + L
       /\ \A i \in 1..(U - n + L) : t[i] = IF i <= U - n THEN r[i] ELSE w[i - (U - n)]
  <2>1. /\ t \in Seq(B) /\ Len(t) = Len(r) + Len(w)
        /\ \A i \in 1 .. Len(r) + Len(w) : t[i] = IF i <= Len(r) THEN r[i] ELSE w[i - Len(r)]
    BY <1>10, <1>11, ConcatProperties
  <2> QED
    BY <1>8, <1>10, <2>1
<1>13. Len(s) = U + L /\ \A i \in 1..(U + L) : s[i] = IF i <= U THEN h[i] ELSE w[i - U]
  BY <1>2, <1>8
<1>14. Len(t) = Len(s) - n
  BY <1>8, <1>12, <1>13
<1>15. ASSUME NEW j \in 1..(U + L - n)
       PROVE  t[j] = s[n + j]
  <2>1. /\ j \in 1..(U - n + L) /\ n + j \in 1..(U + L)
        /\ (j <= U - n <=> n + j <= U) /\ j - (U - n) = n + j - U
    BY <1>8, SMTT(60)
  <2>2. CASE j <= U - n
    <3>1. j \in 1..(U - n)
      BY <1>8, <2>2
    <3>2. t[j] = h[n + j]
      BY <1>10, <1>12, <2>1, <2>2, <3>1
    <3>3. s[n + j] = h[n + j]
      BY <1>13, <2>1, <2>2
    <3> QED
      BY <3>2, <3>3
  <2>3. CASE ~(j <= U - n)
    <3>1. t[j] = w[n + j - U]
      BY <1>12, <2>1, <2>3
    <3>2. s[n + j] = w[n + j - U]
      BY <1>13, <2>1, <2>3, SMTT(60)
    <3> QED
      BY <3>1, <3>2
  <2> QED
    BY <2>2, <2>3
<1>16. StreamOf(c, w) = t
  BY <1>6, <1>8, <1>9, <1>11 DEF StreamOf
<1>17. /\ DataRead(b, n) \in Seq(B) /\ Len(DataRead(b, n)) = n
       /\ \A j \in 1..n : DataRead(b, n)[j] = s[j]
  BY <1>4, <1>7
<1>18. /\ StreamOf(c, w) \in Seq(B) /\ Len(StreamOf(c, w)) = Len(s) - n
       /\ \A j \in 1..(Len(s) - n) : (StreamOf(c, w))[j] = s[n + j]
  BY <1>12, <1>13, <1>14, <1>15, <1>16
<1> QED
  BY <1>2, <1>5, <1>6, <1>17, <1>18

-----------------------------------------------------------------------------
(* The bytes of a packet that Encode lets pass are bytes of the model.      *)
LEMMA BytesIsSeq ==
  ASSUME NEW p \in 1..MaxPackets, NEW size \in Nat, size <= m_packetMaxSize - HeaderSize
  PROVE  /\ Bytes(p, size) \in Seq(Byte) /\ Len(Bytes(p, size)) = HeaderSize + size
         /\ \A k \in 1..(HeaderSize + size) : Bytes(p, size)[k] = <<p, k>>
<1>1. PICK N \in Nat : N = HeaderSize + size /\ N <= m_packetMaxSize /\ m_packetMaxSize \in Nat
  BY ProtocolAssumption
<1>2. \A k \in 1..N : <<p, k>> \in Byte
  BY <1>1 DEF Byte
<1>3. PICK f : f = Bytes(p, size)
  OBVIOUS
<1>4. f \in [1..N -> Byte] /\ \A k \in 1..N : f[k] = <<p, k>>
  BY <1>1, <1>2, <1>3 DEF Bytes
<1>5. f \in Seq(Byte) /\ Len(f) = N
  BY <1>4
<1> QED
  BY <1>1, <1>3, <1>4, <1>5

(* A header's first byte names its packet.                                  *)
LEMMA HeaderOfInjective ==
  ASSUME NEW p, NEW q, HeaderOf(p) = HeaderOf(q)
  PROVE  p = q
<1>1. 1 \in 1..HeaderSize
  BY ProtocolAssumption
<1>2. HeaderOf(p)[1] = <<p, 1>> /\ HeaderOf(q)[1] = <<q, 1>>
  BY <1>1 DEF HeaderOf
<1> QED
  BY <1>2

(* What the types say of the state GetPacket starts from.                   *)
LEMMA TypeFacts ==
  ASSUME ProtocolTypeOK
  PROVE  /\ sent \in Seq(Nat) /\ wire \in Seq(Byte) /\ IsIOBuffer(io, Byte)
         /\ HeaderSize \in Nat /\ HeaderSize > 0 /\ io.used \in Nat
<1>1. sent \in Seq(DataSize) /\ DataSize \subseteq Nat
  BY ProtocolAssumption DEF ProtocolTypeOK
<1>2. Len(sent) \in Nat /\ sent \in [1..Len(sent) -> DataSize]
  BY <1>1, LenProperties
<1>3. sent \in [1..Len(sent) -> Nat]
  BY <1>1, <1>2
<1>4. sent \in Seq(Nat)
  BY <1>2, <1>3
<1>5. wire \in Seq(Byte) /\ IsIOBuffer(io, Byte)
  BY DEF ProtocolTypeOK
<1>6. io.used \in Nat
  BY <1>5 DEF IsIOBuffer
<1> QED
  BY <1>4, <1>5, <1>6, ProtocolAssumption

(* Where GetPacket finds a whole header, it reads the header of the packet  *)
(* after the dispatched ones, and so that packet's data size.               *)
LEMMA AtHeader ==
  ASSUME ProtocolTypeOK, WellFramed(sent, Len(dispatched), Stream), io.used >= HeaderSize,
         NEW size \in DataSizeIn(DataRead(io, HeaderSize))
  PROVE  /\ Len(dispatched) + 1 \in 1..Len(sent)
         /\ size = sent[Len(dispatched) + 1]
<1>1. /\ sent \in Seq(Nat) /\ wire \in Seq(Byte) /\ IsIOBuffer(io, Byte)
      /\ HeaderSize \in Nat /\ HeaderSize > 0 /\ io.used \in Nat /\ HeaderSize <= io.used
  BY TypeFacts
<1>2. PICK d \in Nat : d = Len(dispatched)
  BY DEF ProtocolTypeOK
<1>3. PICK s : s = StreamOf(io, wire) /\ WellFramed(sent, d, s)
  BY <1>2 DEF Stream
<1> PICK r : r = DataRead(io, HeaderSize)
  OBVIOUS
<1>4. /\ s \in Seq(Byte) /\ Len(s) = io.used + Len(wire)
      /\ r \in Seq(Byte) /\ Len(r) = HeaderSize
      /\ \A j \in 1..HeaderSize : r[j] = s[j]
  <2>1. /\ StreamOf(io, wire) \in Seq(Byte) /\ Len(StreamOf(io, wire)) = io.used + Len(wire)
        /\ DataRead(io, HeaderSize) \in Seq(Byte) /\ Len(DataRead(io, HeaderSize)) = HeaderSize
        /\ \A j \in 1..HeaderSize : DataRead(io, HeaderSize)[j] = StreamOf(io, wire)[j]
    BY <1>1, ReadFromStream, SMTT(60)
  <2> QED
    BY <1>3, <2>1
<1>5. Len(s) > 0
  BY <1>1, <1>4
<1>6. /\ d + 1 \in 1..Len(sent)
      /\ \A j \in 1..(HeaderSize + sent[d + 1]) : s[j] = <<d + 1, j>>
  BY <1>1, <1>2, <1>3, <1>4, <1>5, FirstPacket
<1>7. r = HeaderOf(d + 1)
  <2>1. sent[d + 1] \in Nat
    BY <1>1, <1>6
  <2>2. \A j \in 1..HeaderSize : j \in 1..(HeaderSize + sent[d + 1])
    BY <1>1, <2>1
  <2>3. \A j \in 1..HeaderSize : r[j] = <<d + 1, j>>
    BY <1>4, <1>6, <2>2
  <2>4. r = [j \in 1..HeaderSize |-> r[j]]
    BY <1>4
  <2> QED
    BY <2>3, <2>4 DEF HeaderOf
<1>8. d + 1 \in DOMAIN sent /\ \A q \in DOMAIN sent : HeaderOf(d + 1) = HeaderOf(q) => q = d + 1
  BY <1>1, <1>6, HeaderOfInjective
<1>9. {q \in DOMAIN sent : r = HeaderOf(q)} = {d + 1}
  BY <1>7, <1>8
<1>10. {sent[q] : q \in {q \in DOMAIN sent : r = HeaderOf(q)}} = {sent[d + 1]}
  BY <1>9
<1>11. DataSizeIn(DataRead(io, HeaderSize)) = {sent[d + 1]}
  BY <1>10 DEF DataSizeIn
<1> QED
  BY <1>2, <1>6, <1>11

(* GetPacket on a whole packet takes exactly that packet off the stream.    *)
LEMMA AtPacket ==
  ASSUME ProtocolTypeOK, WellFramed(sent, Len(dispatched), Stream), io.used >= HeaderSize,
         NEW size \in DataSizeIn(DataRead(io, HeaderSize)), Body.used >= size
  PROVE  /\ DataRead(Body, size) = DataOf(Len(dispatched) + 1, size)
         /\ WellFramed(sent, Len(dispatched) + 1, StreamOf(RemoveData(Body, size), wire))
<1>1. /\ sent \in Seq(Nat) /\ wire \in Seq(Byte) /\ IsIOBuffer(io, Byte)
      /\ HeaderSize \in Nat /\ HeaderSize > 0 /\ io.used \in Nat /\ HeaderSize <= io.used
  BY TypeFacts
<1>2. PICK d \in Nat : d = Len(dispatched)
  BY DEF ProtocolTypeOK
<1>3. PICK s : s = StreamOf(io, wire) /\ WellFramed(sent, d, s)
  BY <1>2 DEF Stream
<1>4. PICK b : b = RemoveData(io, HeaderSize) /\ b = Body
  BY DEF Body
<1>5. PICK t : t = StreamOf(b, wire)
  OBVIOUS
<1>6. /\ s \in Seq(Byte) /\ Len(s) = io.used + Len(wire)
      /\ IsIOBuffer(b, Byte) /\ b.used = io.used - HeaderSize
      /\ t \in Seq(Byte) /\ Len(t) = Len(s) - HeaderSize
      /\ \A j \in 1..(Len(s) - HeaderSize) : t[j] = s[HeaderSize + j]
  <2>1. /\ StreamOf(io, wire) \in Seq(Byte) /\ Len(StreamOf(io, wire)) = io.used + Len(wire)
        /\ IsIOBuffer(RemoveData(io, HeaderSize), Byte)
        /\ RemoveData(io, HeaderSize).used = io.used - HeaderSize
        /\ StreamOf(RemoveData(io, HeaderSize), wire) \in Seq(Byte)
        /\ Len(StreamOf(RemoveData(io, HeaderSize), wire)) = Len(StreamOf(io, wire)) - HeaderSize
        /\ \A j \in 1..(Len(StreamOf(io, wire)) - HeaderSize) :
             StreamOf(RemoveData(io, HeaderSize), wire)[j] = StreamOf(io, wire)[HeaderSize + j]
    BY <1>1, ReadFromStream
  <2> QED
    BY <1>3, <1>4, <1>5, <2>1
<1>7. Len(s) > 0 /\ Len(s) \in Nat
  BY <1>1, <1>6
<1>8. d + 1 \in 1..Len(sent) /\ size = sent[d + 1] /\ size \in Nat
  BY <1>1, <1>2, AtHeader
<1>9. PICK m \in Nat : m = HeaderSize + size
  BY <1>1, <1>8
<1>10. /\ m \in 1..Len(s)
       /\ \A j \in 1..m : s[j] = <<d + 1, j>>
       /\ WellFramed(sent, d + 1, SubSeq(s, m + 1, Len(s)))
  <2>1. /\ HeaderSize + sent[d + 1] \in 1..Len(s)
        /\ \A j \in 1..(HeaderSize + sent[d + 1]) : s[j] = <<d + 1, j>>
        /\ WellFramed(sent, d + 1, SubSeq(s, HeaderSize + sent[d + 1] + 1, Len(s)))
    BY <1>1, <1>3, <1>6, <1>7, FirstPacket, ZenonT(60)
  <2> QED
    BY <1>8, <1>9, <2>1
<1> PICK L \in Nat : L = Len(s)
  BY <1>7
<1> m <= L
  BY <1>10
<1> HeaderSize \in Nat /\ size \in Nat /\ m = HeaderSize + size
  BY <1>1, <1>8, <1>9
<1>11. PICK r : r = DataRead(b, size)
  OBVIOUS
<1> PICK e : e = RemoveData(b, size)
  OBVIOUS
<1>12. PICK u : u = StreamOf(e, wire)
  OBVIOUS
<1>13. /\ r \in Seq(Byte) /\ Len(r) = size /\ \A j \in 1..size : r[j] = t[j]
       /\ u \in Seq(Byte) /\ Len(u) = Len(t) - size
       /\ \A j \in 1..(Len(t) - size) : u[j] = t[size + j]
  <2>1. size <= b.used
    BY <1>1, <1>4, <1>6, <1>8
  <2>2. /\ DataRead(b, size) \in Seq(Byte) /\ Len(DataRead(b, size)) = size
        /\ \A j \in 1..size : DataRead(b, size)[j] = StreamOf(b, wire)[j]
        /\ StreamOf(RemoveData(b, size), wire) \in Seq(Byte)
        /\ Len(StreamOf(RemoveData(b, size), wire)) = Len(StreamOf(b, wire)) - size
        /\ \A j \in 1..(Len(StreamOf(b, wire)) - size) :
             StreamOf(RemoveData(b, size), wire)[j] = StreamOf(b, wire)[size + j]
    <3>1. IsIOBuffer(b, Byte) /\ wire \in Seq(Byte) /\ size \in Nat /\ size <= b.used
      BY <1>1, <1>6, <1>8, <2>1
    <3> QED
      BY <3>1, ReadFromStream, SMTT(60)
  <2> QED
    BY <1>5, <1>11, <1>12, <2>2
<1>14. r = DataOf(d + 1, size)
  <2>1. ASSUME NEW j \in 1..size
        PROVE  r[j] = <<d + 1, HeaderSize + j>>
    <3>1. HeaderSize + j \in 1..m /\ j \in 1..(L - HeaderSize)
      OBVIOUS
    <3> QED
      BY <1>6, <1>10, <1>13, <3>1
  <2>2. r = [j \in 1..size |-> r[j]]
    BY <1>13
  <2> QED
    BY <2>1, <2>2 DEF DataOf
<1>15. u = SubSeq(s, m + 1, Len(s))
  <2>1. PICK v : v = SubSeq(s, m + 1, Len(s))
    OBVIOUS
  <2>3. L - HeaderSize - size = L - m
    OBVIOUS
  <2>4. v \in Seq(Byte) /\ Len(v) = L - m /\ \A j \in 1..(L - m) : v[j] = s[m + j]
    <3>1. \A i \in (m + 1)..L : s[i] \in Byte
      BY <1>6
    <3>2. /\ v \in Seq(Byte) /\ Len(v) = IF m + 1 <= L THEN L - (m + 1) + 1 ELSE 0
          /\ \A j \in 1..(L - (m + 1) + 1) : v[j] = s[m + 1 + j - 1]
      BY <2>1, <3>1, SubSeqProperties
    <3>3. L - (m + 1) + 1 = L - m /\ \A j \in 1..(L - m) : m + 1 + j - 1 = m + j
      OBVIOUS
    <3>4. Len(v) = L - m
      BY <3>2
    <3> QED
      BY <3>2, <3>3, <3>4, SMTT(60)
  <2>5. Len(u) = L - m
    BY <1>6, <1>13, <2>3
  <2>6. ASSUME NEW j \in 1..(L - m)
        PROVE  u[j] = v[j]
    <3>1. /\ j \in 1..(L - HeaderSize - size) /\ size + j \in 1..(L - HeaderSize)
          /\ HeaderSize + (size + j) = m + j
      OBVIOUS
    <3>2. Len(t) - size = L - HeaderSize - size /\ Len(s) - HeaderSize = L - HeaderSize
      BY <1>6
    <3>3. u[j] = t[size + j]
      BY <1>13, <3>1, <3>2
    <3>4. t[size + j] = s[HeaderSize + (size + j)]
      BY <1>6, <3>1, <3>2
    <3>5. v[j] = s[m + j]
      BY <2>4
    <3> QED
      BY <3>1, <3>3, <3>4, <3>5
  <2>7. u = v
    BY <1>13, <2>4, <2>5, <2>6, SeqEqual
  <2> QED
    BY <2>1, <2>7
<1> QED
  BY <1>2, <1>4, <1>10, <1>11, <1>12, <1>14, <1>15

-----------------------------------------------------------------------------
(* Bytes that move from the wire's front to the buffer's end do not move in *)
(* the stream.                                                              *)
LEMMA StreamMoves ==
  ASSUME NEW B, NEW b, IsIOBuffer(b, B), NEW x \in Seq(B), NEW y \in Seq(B), Fits(b, Len(x))
  PROVE  StreamOf(AppendData(b, x), y) = StreamOf(b, x \o y)
<1>1. PICK h \in Seq(B) : h = Held(b)
  BY HeldIsSeq
<1>2. Held(AppendData(b, x)) = h \o x
  BY <1>1, AppendHeld
<1>3. (h \o x) \o y = h \o (x \o y)
  BY ONLY ConcatAssociative
<1> QED
  BY <1>1, <1>2, <1>3 DEF StreamOf

(* A read moves bytes from the wire into the ring; the stream stays.        *)
LEMMA StreamAfterRead ==
  ASSUME NEW B, NEW b, IsIOBuffer(b, B), NEW w \in Seq(B), NEW n \in 1..Len(w), Fits(b, n)
  PROVE  StreamOf(AppendData(b, SubSeq(w, 1, n)), SubSeq(w, n + 1, Len(w))) = StreamOf(b, w)
<1>1. PICK x \in Seq(B) : x = SubSeq(w, 1, n)
  <2>1. SubSeq(w, 1, n) \in Seq(B)
    OBVIOUS
  <2> QED
    BY <2>1
<1>2. PICK y \in Seq(B) : y = SubSeq(w, n + 1, Len(w))
  <2>1. SubSeq(w, n + 1, Len(w)) \in Seq(B)
    OBVIOUS
  <2> QED
    BY <2>1
<1>3. Len(x) = n /\ x \o y = w
  BY <1>1, <1>2
<1>4. Fits(b, Len(x))
  BY <1>3
<1>5. StreamOf(AppendData(b, x), y) = StreamOf(b, x \o y)
  BY <1>4, StreamMoves
<1> QED
  BY <1>1, <1>2, <1>3, <1>5

(* GetPacket without a packet leaves the buffer as it was.                  *)
LEMMA GivenBack ==
  ASSUME ProtocolTypeOK
  PROVE  SetHead(Body, io.head) = io
  BY TypeFacts, PeekKeeps DEF Body

(* Every step keeps the types, also when a read does not fit.               *)
LEMMA ProtocolTypeStep ==
  ASSUME ProtocolTypeOK, [ProtocolNext]_protocolVars
  PROVE  ProtocolTypeOK'
<1>1. /\ sent \in Seq(DataSize) /\ wire \in Seq(Byte) /\ IsIOBuffer(io, Byte)
      /\ state \in {"read", "get", "closed"} /\ dispatched \in Seq(Packet)
      /\ HeaderSize \in Nat /\ io.used \in Nat
  BY TypeFacts DEF ProtocolTypeOK
<1>2. ASSUME NEW size \in DataSize, Encode(size)
      PROVE  ProtocolTypeOK'
  <2>1. Len(sent) + 1 \in 1..MaxPackets /\ size \in Nat /\ size <= m_packetMaxSize - HeaderSize
    BY <1>1, <1>2, ProtocolAssumption DEF Encode
  <2>2. Bytes(Len(sent) + 1, size) \in Seq(Byte)
    BY <2>1, BytesIsSeq
  <2>3. wire' \in Seq(Byte)
    BY <1>1, <1>2, <2>2, ConcatProperties DEF Encode
  <2>4. sent' \in Seq(DataSize)
    BY <1>1, <1>2 DEF Encode
  <2> QED
    BY <1>1, <1>2, <2>3, <2>4 DEF Encode, ProtocolTypeOK
<1>3. ASSUME NEW n \in 1..ReadSize, AddTransferredData(n)
      PROVE  ProtocolTypeOK'
  <2>1. n \in 1..Len(wire)
    BY <1>1, <1>3, ProtocolAssumption DEF AddTransferredData
  <2>2. PICK x \in Seq(Byte) : x = SubSeq(wire, 1, n)
    <3>1. SubSeq(wire, 1, n) \in Seq(Byte)
      BY <1>1, <2>1
    <3> QED
      BY <3>1
  <2>3. IsIOBuffer(AppendData(io, x), Byte)
    <3>1. CASE Fits(io, Len(x))
      BY <1>1, <2>2, <3>1, AppendHeld
    <3>2. CASE ~Fits(io, Len(x))
      BY <1>1, <3>2 DEF AppendData
    <3> QED
      BY <3>1, <3>2
  <2>4. wire' \in Seq(Byte)
    BY <1>1, <1>3, <2>1 DEF AddTransferredData
  <2>5. IsIOBuffer(io', Byte)
    BY <1>3, <2>2, <2>3 DEF AddTransferredData
  <2> QED
    BY <1>1, <1>3, <2>4, <2>5 DEF AddTransferredData, ProtocolTypeOK
<1>4. ASSUME NoHeader
      PROVE  ProtocolTypeOK'
  BY <1>1, <1>4 DEF NoHeader, ProtocolTypeOK
<1>5. ASSUME NEW size \in DataSize, Incomplete(size)
      PROVE  ProtocolTypeOK'
  BY <1>1, <1>5, GivenBack DEF Incomplete, ProtocolTypeOK
<1>6. ASSUME NEW size \in DataSize, PacketError(size)
      PROVE  ProtocolTypeOK'
  BY <1>1, <1>6, GivenBack DEF PacketError, ProtocolTypeOK
<1>7. ASSUME NEW size \in DataSize, DispatchPacket(size)
      PROVE  ProtocolTypeOK'
  <2>1. size \in Nat
    BY ProtocolAssumption
  <2>2. IsIOBuffer(Body, Byte)
    BY <1>1, RemoveHeld DEF Body
  <2>3. size <= Body.used /\ Body.used \in Nat
    BY <1>7, <2>1, <2>2 DEF DispatchPacket, IsIOBuffer
  <2>4. IsIOBuffer(RemoveData(Body, size), Byte) /\ DataRead(Body, size) \in Seq(Byte)
    BY <1>1, <2>1, <2>2, <2>3, ReadFromStream
  <2>5. [dataSize |-> size, data |-> DataRead(Body, size)] \in Packet
    BY <2>4 DEF Packet
  <2>6. dispatched' \in Seq(Packet)
    BY <1>1, <1>7, <2>5 DEF DispatchPacket
  <2> QED
    BY <1>1, <1>7, <2>4, <2>6 DEF DispatchPacket, ProtocolTypeOK
<1>8. ASSUME UNCHANGED protocolVars
      PROVE  ProtocolTypeOK'
  BY <1>1, <1>8 DEF protocolVars, ProtocolTypeOK
<1> QED
  BY <1>2, <1>3, <1>4, <1>5, <1>6, <1>7, <1>8 DEF ProtocolNext, ReceiverStep

(* Initially the ring and the wire are empty.                               *)
LEMMA ProtocolInitially ==
  ASSUME ProtocolInit
  PROVE  ProtocolTypeOK /\ ProtocolInv
<1>1. IsIOBuffer(io, Byte) /\ io.used = 0
  <2>1. 0 \in Cell /\ [i \in Cell |-> Zero] \in [Cell -> Byte]
    BY IOBufferAssumption DEF Cell, Byte
  <2> QED
    BY <2>1 DEF ProtocolInit, InitIOBuf, IsIOBuffer, CalcUsedBufferSize
<1>2. ProtocolTypeOK
  BY <1>1 DEF ProtocolInit, ProtocolTypeOK
<1>3. wire \in Seq(Byte) /\ Len(wire) = 0
  BY DEF ProtocolInit
<1>4. Held(io) \in Seq(Byte) /\ Len(Held(io)) = 0
  BY <1>1, HeldIsSeq
<1>5. Len(Stream) = 0
  BY <1>3, <1>4, ConcatProperties DEF Stream, StreamOf
<1>6. Len(dispatched) = 0 /\ Len(sent) = 0 /\ state = "read" /\ DOMAIN dispatched = {}
  BY DEF ProtocolInit
<1>7. LessThanOnePacket
  BY <1>1, ProtocolAssumption DEF LessThanOnePacket
<1>8. WellFramed(sent, Len(dispatched), Stream)
  BY <1>5, <1>6 DEF WellFramed
<1> QED
  BY <1>2, <1>6, <1>7, <1>8 DEF ProtocolInv, DispatchedAsSent, ClosedOnlyIfTooLarge

(* Every step keeps the invariant, if the ring has room for a read.         *)
LEMMA ProtocolInvStep ==
  ASSUME RoomForRead, ProtocolTypeOK, ProtocolInv, [ProtocolNext]_protocolVars
  PROVE  ProtocolInv'
<1>1. /\ sent \in Seq(Nat) /\ wire \in Seq(Byte) /\ IsIOBuffer(io, Byte)
      /\ HeaderSize \in Nat /\ HeaderSize > 0 /\ io.used \in Nat
  BY TypeFacts
<1>2. PICK d \in Nat : d = Len(dispatched)
  BY DEF ProtocolTypeOK
<1>3. /\ WellFramed(sent, d, Stream) /\ LessThanOnePacket
      /\ DispatchedAsSent /\ ClosedOnlyIfTooLarge
  BY <1>2 DEF ProtocolInv
<1>4. /\ m_packetSize \in Nat /\ m_packetSize >= HeaderSize /\ ReadSize \in Nat
      /\ m_packetSize + ReadSize <= m_iBufSize
  BY ProtocolAssumption DEF RoomForRead
<1>5. ASSUME NEW size \in DataSize, Encode(size)
      PROVE  ProtocolInv'
  <2>1. Len(sent) + 1 \in 1..MaxPackets /\ size \in Nat /\ size <= m_packetMaxSize - HeaderSize
    BY <1>1, <1>5, ProtocolAssumption DEF Encode
  <2>2. PICK t \in Seq(Byte) :
          /\ t = Bytes(Len(sent) + 1, size) /\ Len(t) = HeaderSize + size
          /\ \A k \in 1..(HeaderSize + size) : t[k] = <<Len(sent) + 1, k>>
    BY <2>1, BytesIsSeq
  <2>3. PICK h \in Seq(Byte) : h = Held(io)
    BY <1>1, HeldIsSeq
  <2>4. Stream = h \o wire /\ h \o wire \in Seq(Byte)
    BY <1>1, <2>3, ConcatProperties DEF Stream, StreamOf
  <2>5. WellFramed(Append(sent, size), d, (h \o wire) \o t)
    BY <1>1, <1>3, <2>1, <2>2, <2>4, FramedAfterEncode
  <2>6. (h \o wire) \o t = h \o (wire \o t)
    BY <1>1, ConcatAssociative, SMTT(60)
  <2>7. Stream' = h \o (wire \o t) /\ sent' = Append(sent, size)
    BY <1>5, <2>2, <2>3 DEF Encode, Stream, StreamOf
  <2>8. WellFramed(sent', d, Stream')
    BY <2>5, <2>6, <2>7
  <2>9. /\ Len(sent') = Len(sent) + 1 /\ \A p \in 1..Len(sent) : sent'[p] = sent[p]
        /\ UNCHANGED <<io, state, dispatched>>
    BY <1>1, <1>5 DEF Encode
  <2>10. Len(dispatched) <= Len(sent) /\ DOMAIN dispatched = 1..Len(dispatched) /\ Len(sent) \in Nat
    BY <1>1, <1>3 DEF DispatchedAsSent, ProtocolTypeOK
  <2>11. DispatchedAsSent'
    <3>1. \A p \in DOMAIN dispatched : p \in 1..Len(sent)
      BY <1>2, <2>10
    <3>2. Len(dispatched) <= Len(sent) + 1
      BY <1>2, <2>10
    <3> QED
      BY <1>3, <2>9, <3>1, <3>2 DEF DispatchedAsSent
  <2>12. ClosedOnlyIfTooLarge'
    <3>1. d < Len(sent) => d + 1 \in 1..Len(sent) /\ d < Len(sent) + 1
      BY <1>2, <2>10
    <3> QED
      BY <1>2, <1>3, <2>9, <3>1 DEF ClosedOnlyIfTooLarge
  <2> QED
    BY <1>2, <1>3, <2>8, <2>9, <2>11, <2>12 DEF ProtocolInv, LessThanOnePacket
<1>6. ASSUME NEW n \in 1..ReadSize, AddTransferredData(n)
      PROVE  ProtocolInv'
  <2>1. n \in 1..Len(wire) /\ n <= ReadSize
    BY <1>1, <1>6, ProtocolAssumption DEF AddTransferredData
  <2>2. Fits(io, n)
    BY <1>1, <1>3, <1>4, <1>6, <2>1, IOBufferAssumption DEF LessThanOnePacket, AddTransferredData, Fits
  <2>3. StreamOf(AppendData(io, SubSeq(wire, 1, n)), SubSeq(wire, n + 1, Len(wire))) = StreamOf(io, wire)
    BY <1>1, <2>1, <2>2, StreamAfterRead
  <2>4. Stream' = Stream
    BY <1>6, <2>3 DEF AddTransferredData, Stream
  <2>5. UNCHANGED <<sent, dispatched>> /\ state' = "get"
    BY <1>6 DEF AddTransferredData
  <2>6. LessThanOnePacket' /\ ClosedOnlyIfTooLarge'
    BY <2>5 DEF LessThanOnePacket, ClosedOnlyIfTooLarge
  <2>7. DispatchedAsSent'
    BY <1>3, <2>5 DEF DispatchedAsSent
  <2> QED
    BY <1>2, <1>3, <2>4, <2>5, <2>6, <2>7 DEF ProtocolInv
<1>7. ASSUME NoHeader
      PROVE  ProtocolInv'
  <2>1. io.used < m_packetSize
    BY <1>1, <1>4, <1>7 DEF NoHeader
  <2>2. UNCHANGED <<sent, wire, io, dispatched>> /\ state' = "read"
    BY <1>7 DEF NoHeader
  <2> QED
    BY <1>2, <1>3, <2>1, <2>2
    DEF ProtocolInv, LessThanOnePacket, Stream, DispatchedAsSent, ClosedOnlyIfTooLarge
<1>8. ASSUME NEW size \in DataSize, Incomplete(size)
      PROVE  ProtocolInv'
  <2>1. size \in Nat /\ HeaderSize <= io.used
    BY <1>8, ProtocolAssumption DEF Incomplete
  <2>2. Body.used = io.used - HeaderSize
    <3>1. RemoveData(io, HeaderSize).used = io.used - Available(io, HeaderSize)
      BY <1>1, RemoveHeld
    <3>2. Available(io, HeaderSize) = HeaderSize
      BY <1>1, <2>1 DEF Available
    <3> QED
      BY <3>1, <3>2 DEF Body
  <2>3. io.used < m_packetSize
    BY <1>1, <1>4, <1>8, <2>1, <2>2 DEF Incomplete, TooLarge
  <2>4. UNCHANGED <<sent, wire, io, dispatched>> /\ state' = "read"
    BY <1>8, GivenBack DEF Incomplete
  <2> QED
    BY <1>2, <1>3, <2>3, <2>4
    DEF ProtocolInv, LessThanOnePacket, Stream, DispatchedAsSent, ClosedOnlyIfTooLarge
<1>9. ASSUME NEW size \in DataSize, PacketError(size)
      PROVE  ProtocolInv'
  <2>1. d + 1 \in 1..Len(sent) /\ size = sent[d + 1]
    BY <1>2, <1>3, <1>9, AtHeader DEF PacketError
  <2>2. d < Len(sent) /\ sent[d + 1] > m_packetSize - HeaderSize
    BY <1>1, <1>9, <2>1 DEF PacketError, TooLarge
  <2>3. UNCHANGED <<sent, wire, io, dispatched>> /\ state' = "closed"
    BY <1>9, GivenBack DEF PacketError
  <2> QED
    BY <1>2, <1>3, <2>2, <2>3
    DEF ProtocolInv, LessThanOnePacket, Stream, DispatchedAsSent, ClosedOnlyIfTooLarge
<1>10. ASSUME NEW size \in DataSize, DispatchPacket(size)
       PROVE  ProtocolInv'
  <2>1. /\ io.used >= HeaderSize /\ size \in DataSizeIn(DataRead(io, HeaderSize))
        /\ Body.used >= size /\ state = "get"
    BY <1>10 DEF DispatchPacket
  <2>2. d + 1 \in 1..Len(sent) /\ size = sent[d + 1]
    BY <1>2, <1>3, <2>1, AtHeader
  <2>3. /\ DataRead(Body, size) = DataOf(d + 1, size)
        /\ WellFramed(sent, d + 1, StreamOf(RemoveData(Body, size), wire))
    BY <1>2, <1>3, <2>1, AtPacket
  <2>4. PICK pk : pk = [dataSize |-> size, data |-> DataOf(d + 1, size)]
    OBVIOUS
  <2>5. /\ dispatched' = Append(dispatched, pk) /\ io' = RemoveData(Body, size)
        /\ UNCHANGED <<sent, wire, state>>
    BY <1>10, <2>3, <2>4 DEF DispatchPacket
  <2>6. dispatched \in Seq(Packet)
    BY DEF ProtocolTypeOK
  <2>7. /\ Len(dispatched') = d + 1 /\ DOMAIN dispatched' = 1..(d + 1) /\ dispatched'[d + 1] = pk
        /\ \A p \in 1..d : dispatched'[p] = dispatched[p] /\ p \in DOMAIN dispatched
    BY <1>2, <2>5, <2>6
  <2>8. DispatchedAsSent'
    <3>1. d + 1 <= Len(sent)
      BY <1>1, <2>2
    <3>2. \A p \in 1..(d + 1) : p \in 1..d \/ p = d + 1
      OBVIOUS
    <3>3. pk.dataSize = sent[d + 1] /\ pk.data = DataOf(d + 1, sent[d + 1])
      BY <2>2, <2>4
    <3> QED
      BY <1>3, <2>5, <2>7, <3>1, <3>2, <3>3 DEF DispatchedAsSent
  <2>9. WellFramed(sent', Len(dispatched'), Stream')
    BY <2>3, <2>5, <2>7 DEF Stream
  <2>10. LessThanOnePacket' /\ ClosedOnlyIfTooLarge'
    BY <2>1, <2>5 DEF LessThanOnePacket, ClosedOnlyIfTooLarge
  <2> QED
    BY <2>8, <2>9, <2>10 DEF ProtocolInv
<1>11. ASSUME UNCHANGED protocolVars
       PROVE  ProtocolInv'
  BY <1>2, <1>3, <1>11
  DEF protocolVars, ProtocolInv, LessThanOnePacket, Stream, DispatchedAsSent, ClosedOnlyIfTooLarge
<1> QED
  BY <1>5, <1>6, <1>7, <1>8, <1>9, <1>10, <1>11 DEF ProtocolNext, ReceiverStep

-----------------------------------------------------------------------------
(* The types hold whatever the limits are.                                  *)
THEOREM ProtocolTypeCorrect == ProtocolSpec => []ProtocolTypeOK
<1>1. ProtocolInit => ProtocolTypeOK
  BY ProtocolInitially
<1>2. ProtocolTypeOK /\ [ProtocolNext]_protocolVars => ProtocolTypeOK'
  BY ProtocolTypeStep
<1> QED
  BY <1>1, <1>2, PTL DEF ProtocolSpec

(* The invariant of a ring with room for a read.                            *)
THEOREM ProtocolInvariant ==
  ASSUME RoomForRead
  PROVE  ProtocolSpec => []ProtocolInv
<1>1. ProtocolInit => ProtocolInv
  BY ProtocolInitially
<1>2. ProtocolTypeOK /\ ProtocolInv /\ [ProtocolNext]_protocolVars => ProtocolInv'
  BY ProtocolInvStep
<1> QED
  BY <1>1, <1>2, ProtocolTypeCorrect, PTL DEF ProtocolSpec

(* Framing is correct: OnReceive hands the logic exactly the packets the    *)
(* peer encoded, in order and undamaged, however the stream is cut.         *)
THEOREM FramingCorrect ==
  ASSUME RoomForRead
  PROVE  ProtocolSpec => []DispatchedAsSent
<1>1. ProtocolInv => DispatchedAsSent
  BY DEF ProtocolInv
<1> QED
  BY <1>1, ProtocolInvariant, PTL

(* AppendData never turns a read away.                                      *)
THEOREM EveryReadFits ==
  ASSUME RoomForRead
  PROVE  ProtocolSpec => []ReadFits
<1>1. ProtocolTypeOK /\ ProtocolInv => ReadFits
  <2> SUFFICES ASSUME ProtocolTypeOK, ProtocolInv
               PROVE  ReadFits
    OBVIOUS
  <2>1. state = "read" => io.used < m_packetSize
    BY DEF ProtocolInv, LessThanOnePacket
  <2>2. io.used \in Nat /\ m_packetSize \in Nat /\ ReadSize \in Nat /\ m_iBufSize \in Nat
    BY TypeFacts, ProtocolAssumption, IOBufferAssumption
  <2> QED
    BY <2>1, <2>2 DEF ReadFits, Fits, RoomForRead
<1> QED
  BY <1>1, ProtocolInvariant, ProtocolTypeCorrect, PTL

(* Only a packet beyond the receiver's limit ends a session.                *)
THEOREM PacketErrorJustified ==
  ASSUME RoomForRead
  PROVE  ProtocolSpec => []ClosedOnlyIfTooLarge
<1>1. ProtocolInv => ClosedOnlyIfTooLarge
  BY DEF ProtocolInv
<1> QED
  BY <1>1, ProtocolInvariant, PTL
=============================================================================
