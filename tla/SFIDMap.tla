------------------------------- MODULE SFIDMap -------------------------------
(***************************************************************************)
(* NetworkLayer/CGSFNet: the table of session numbers (serials).           *)
(*                                                                         *)
(* IDQueue (Queue.h) is a FIFO of the serials nobody uses, filled with     *)
(* 1..MaxIDCount at start; SFIDMap (IDMap.h) binds the serial at its head  *)
(* to a new service, and puts a serial back at its tail when the service   *)
(* is unregistered.  ProactorServiceManager calls it under one lock, so    *)
(* each operation is one step.  As a component of its own it is driven by  *)
(* any caller, with any id: a caller may unregister an id it does not own. *)
(***************************************************************************)
EXTENDS Integers, Sequences

CONSTANTS
  Service,      (* the ProactorService objects that can be registered       *)
  NoService,    (* the null pointer                                         *)
  MaxIDCount    (* serials in the pool: MAX_CGSF_CONCURRENT_USER            *)

ASSUME IDMapAssumption ==
  /\ NoService \notin Service
  /\ MaxIDCount \in Nat \ {0}

VARIABLES
  m_idleIdQueue,  (* the idle serials, next one first                       *)
  m_IDMap         (* serial -> registered service, NoService when unbound   *)

idMapVars == <<m_idleIdQueue, m_IDMap>>

(* IDQueue is built with the offset SFIDMap gives it.                       *)
Offset == 1
Serial == Offset .. (MaxIDCount + Offset - 1)

(* 0xffffffff in an int.                                                    *)
INVALID_ID == -1

IsValidId(id) == id # INVALID_ID /\ id >= Offset /\ id < MaxIDCount + Offset

(* What m_IDMap.find(id) yields.                                            *)
Get(id) == IF id \in Serial THEN m_IDMap[id] ELSE NoService

-----------------------------------------------------------------------------
(* Mutant: the queue is filled from one too far.                            *)
InitOffByOne ==
  /\ m_idleIdQueue = [i \in 1..MaxIDCount |-> i + Offset]
  /\ m_IDMap = [id \in Serial |-> NoService]

IDMapInit ==
  /\ m_idleIdQueue = [i \in 1..MaxIDCount |-> i - 1 + Offset]
  /\ m_IDMap = [id \in Serial |-> NoService]

(* ACE_Map_Manager::bind leaves an existing binding alone.                  *)
Bind(id, p) ==
  m_IDMap' = [m_IDMap EXCEPT ![id] = IF @ = NoService THEN p ELSE @]

(* IDQueue::Push refuses an id outside the pool.                            *)
Push(id) ==
  m_idleIdQueue' = IF IsValidId(id) THEN Append(m_idleIdQueue, id) ELSE m_idleIdQueue

(* Mutant: the head is read but not removed, and rebound.                   *)
RegisterPeeks(p, id) ==
  /\ m_idleIdQueue # <<>>
  /\ id = Head(m_idleIdQueue)
  /\ m_IDMap' = [m_IDMap EXCEPT ![id] = p]
  /\ UNCHANGED m_idleIdQueue

(* Register(p) returns id: the head of the queue, or INVALID_ID.            *)
Register(p, id) ==
  \/ /\ m_idleIdQueue = <<>>
     /\ id = INVALID_ID
     /\ UNCHANGED idMapVars
  \/ /\ m_idleIdQueue # <<>>
     /\ id = Head(m_idleIdQueue)
     /\ m_idleIdQueue' = Tail(m_idleIdQueue)
     /\ Bind(id, p)

(* Mutant: the id is unbound but does not return to the queue.              *)
UnRegisterLost(id) ==
  /\ m_IDMap' = [x \in Serial |-> IF x = id THEN NoService ELSE m_IDMap[x]]
  /\ UNCHANGED m_idleIdQueue

UnRegister(id) ==
  \/ /\ Get(id) = NoService
     /\ UNCHANGED idMapVars
  \/ /\ Get(id) # NoService
     /\ m_IDMap' = [m_IDMap EXCEPT ![id] = NoService]
     /\ Push(id)

IDMapNext ==
  \/ \E p \in Service, id \in Serial \cup {INVALID_ID} : Register(p, id)
  \/ \E id \in Serial \cup {INVALID_ID} : UnRegister(id)

IDMapSpec == IDMapInit /\ [][IDMapNext]_idMapVars

-----------------------------------------------------------------------------
IdleSerials == {m_idleIdQueue[i] : i \in DOMAIN m_idleIdQueue}

(* Types of the pool's two structures.                                      *)
IDMapTypeOK ==
  /\ m_idleIdQueue \in Seq(Serial)
  /\ m_IDMap \in [Serial -> Service \cup {NoService}]

(* No serial is lost or duplicated by Register and UnRegister (IDMap.h):    *)
(* each is in the idle queue exactly once or bound to a service, never both *)
(* and never neither, however the two are interleaved and whatever ids      *)
(* callers hand back.                                                       *)
PoolConserved ==
  /\ \A i, j \in DOMAIN m_idleIdQueue :
       m_idleIdQueue[i] = m_idleIdQueue[j] => i = j
  /\ \A id \in Serial : id \in IdleSerials <=> m_IDMap[id] = NoService

(* a is idle and will be issued before b: b is bound or stands behind it.   *)
Precedes(a, b) ==
  \E i \in DOMAIN m_idleIdQueue :
    /\ m_idleIdQueue[i] = a
    /\ \A j \in DOMAIN m_idleIdQueue : m_idleIdQueue[j] = b => i < j

(* A released serial goes to the end of the queue, so it is issued again    *)
(* only after every serial that was idle at its release (Doc/Session.md     *)
(* line 4): a serial that stands before another keeps its place until it is *)
(* issued itself.                                                           *)
FIFOReuse ==
  [][\A a, b \in Serial : Precedes(a, b) => Precedes(a, b)' \/ m_IDMap[a]' # NoService]_idMapVars

Allocator == INSTANCE SerialAllocator WITH
  Owner <- Service, Nobody <- NoService, owner <- m_IDMap

(* The queue and the map together implement the allocator: every change of  *)
(* the map gives an idle serial to a service or takes one back.             *)
ImplementsAllocator == Allocator!AllocatorSpec
=============================================================================
