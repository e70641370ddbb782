------------------------------ MODULE ByteQueue ------------------------------
(***************************************************************************)
(* What SFIOBuffer promises its caller: a first-in first-out queue of      *)
(* bytes, for fewer bytes than its capacity, that takes a block of bytes   *)
(* whole or refuses it, and says which.  The last call is part of the      *)
(* state, so that an implementation has to do what was asked of it and     *)
(* cannot pass a loss of bytes off as a call of Clear.                     *)
(***************************************************************************)
EXTENDS Integers, Sequences

CONSTANTS Byte, Capacity, MaxChunk

Block == UNION {[1..n -> Byte] : n \in 0..MaxChunk}

VARIABLES
  queue,  (* the bytes held, oldest first                                   *)
  last    (* the last call: its size, the bytes passed in or out, its result*)

Called(op, size, data, result) ==
  last' = [op |-> op, size |-> size, data |-> data, result |-> result]

QueueInit ==
  /\ queue = <<>>
  /\ last = [op |-> "clear", size |-> 0, data |-> <<>>, result |-> 0]

Clear == queue' = <<>> /\ Called("clear", 0, <<>>, 0)

Put(data) ==
  /\ Len(queue) + Len(data) < Capacity
  /\ queue' = queue \o data
  /\ Called("append", Len(data), data, Len(data))

Refuse(data) ==
  /\ Len(queue) + Len(data) >= Capacity
  /\ UNCHANGED queue
  /\ Called("append", Len(data), data, -1)

(* A request for more bytes than there are yields those there are.          *)
Yield(n) == IF Len(queue) < n THEN Len(queue) ELSE n
Front(n) == SubSeq(queue, 1, Yield(n))
Rest(n)  == SubSeq(queue, Yield(n) + 1, Len(queue))

(* A look ahead shows n bytes or fails.                                     *)
Look(n) ==
  /\ UNCHANGED queue
  /\ \/ Len(queue) >= n /\ Called("peek", n, Front(n), n)
     \/ Len(queue) < n  /\ Called("peek", n, <<>>, -1)

Take(n) == queue' = Rest(n)  /\ Called("get", n, Front(n), Yield(n))
Drop(n) == queue' = Rest(n)  /\ Called("remove", n, <<>>, Yield(n))

QueueNext ==
  \/ Clear
  \/ \E data \in Block : Put(data) \/ Refuse(data)
  \/ \E n \in 0..MaxChunk : Look(n) \/ Take(n) \/ Drop(n)

QueueSpec == QueueInit /\ [][QueueNext]_<<queue, last>>
=============================================================================
