----------------------- MODULE ProactorServiceProofs ------------------------
(***************************************************************************)
(* The pool of session numbers and the session life cycle, for every       *)
(* number of connections, IO threads and serials, and every MaxUserAccept. *)
(***************************************************************************)
EXTENDS ProactorService, FiniteSetTheorems, TLAPS

-----------------------------------------------------------------------------
(* The pool of session numbers (SFIDMap).                                   *)

(* The pool's invariant: typed, and no serial lost or duplicated.           *)
PoolInv == IDMapTypeOK /\ PoolConserved

(* The serials are numbers, and INVALID_ID is none of them.                 *)
LEMMA SerialFacts ==
  /\ Serial \subseteq Int
  /\ INVALID_ID \notin Serial
  /\ \A id \in Serial : IsValidId(id)
BY IDMapAssumption DEF Serial, Offset, INVALID_ID, IsValidId

(* The constructor of IDQueue establishes the invariant.                    *)
LEMMA PoolInit == IDMapInit => PoolInv
<1> SUFFICES ASSUME IDMapInit PROVE PoolInv
  OBVIOUS
<1> USE IDMapAssumption
<1>1. IDMapTypeOK
  BY DEF IDMapInit, IDMapTypeOK, Serial, Offset
<1>2. DOMAIN m_idleIdQueue = 1..MaxIDCount
  BY DEF IDMapInit
<1>3. \A i, j \in DOMAIN m_idleIdQueue : m_idleIdQueue[i] = m_idleIdQueue[j] => i = j
  BY <1>2 DEF IDMapInit, Offset
<1>4. ASSUME NEW id \in Serial PROVE id \in IdleSerials
  <2>1. m_idleIdQueue[id] = id
    BY DEF Serial, Offset, IDMapInit
  <2>2. id \in DOMAIN m_idleIdQueue
    BY <1>2 DEF Serial, Offset
  <2> QED BY <2>1, <2>2 DEF IdleSerials
<1> QED BY <1>1, <1>3, <1>4 DEF PoolInv, PoolConserved, IDMapInit

(* The queue after Pop: the same serials, one place further to the front.   *)
LEMMA TailOfQueue ==
  ASSUME IDMapTypeOK, m_idleIdQueue # <<>>
  PROVE  /\ Len(m_idleIdQueue) \in Nat \ {0}
         /\ DOMAIN m_idleIdQueue = 1..Len(m_idleIdQueue)
         /\ Head(m_idleIdQueue) = m_idleIdQueue[1]
         /\ Head(m_idleIdQueue) \in Serial
         /\ Tail(m_idleIdQueue) \in Seq(Serial)
         /\ DOMAIN Tail(m_idleIdQueue) = 1..(Len(m_idleIdQueue) - 1)
         /\ \A i \in 1..(Len(m_idleIdQueue) - 1) : Tail(m_idleIdQueue)[i] = m_idleIdQueue[i + 1]
BY DEF IDMapTypeOK

(* The queue after Push.                                                    *)
LEMMA AppendToQueue ==
  ASSUME IDMapTypeOK, NEW id \in Serial
  PROVE  /\ Len(m_idleIdQueue) \in Nat
         /\ DOMAIN m_idleIdQueue = 1..Len(m_idleIdQueue)
         /\ Append(m_idleIdQueue, id) \in Seq(Serial)
         /\ DOMAIN Append(m_idleIdQueue, id) = 1..(Len(m_idleIdQueue) + 1)
         /\ \A i \in 1..Len(m_idleIdQueue) : Append(m_idleIdQueue, id)[i] = m_idleIdQueue[i]
         /\ Append(m_idleIdQueue, id)[Len(m_idleIdQueue) + 1] = id
BY DEF IDMapTypeOK

(* Register keeps the invariant, whoever registers.                         *)
LEMMA RegisterKeepsPool ==
  ASSUME PoolInv, NEW p \in Service, NEW id, Register(p, id)
  PROVE  PoolInv'
<1> USE DEF PoolInv
<1>1. CASE m_idleIdQueue = <<>>
  <2>1. UNCHANGED idMapVars
    BY <1>1 DEF Register
  <2> QED BY <2>1 DEF idMapVars, IDMapTypeOK, PoolConserved, IdleSerials
<1>2. CASE m_idleIdQueue # <<>>
  <2> DEFINE n == Len(m_idleIdQueue)
  <2>1. /\ id = m_idleIdQueue[1] /\ id \in Serial
        /\ m_idleIdQueue' = Tail(m_idleIdQueue)
        /\ n \in Nat \ {0}
        /\ DOMAIN m_idleIdQueue = 1..n
        /\ DOMAIN m_idleIdQueue' = 1..(n - 1)
        /\ \A i \in 1..(n - 1) : m_idleIdQueue'[i] = m_idleIdQueue[i + 1]
    BY <1>2, TailOfQueue DEF Register
  <2>2. m_IDMap[id] = NoService
    BY <2>1 DEF PoolConserved, IdleSerials
  <2>3. m_IDMap' = [m_IDMap EXCEPT ![id] = p]
    BY <1>2, <2>2 DEF Register, Bind, IDMapTypeOK
  <2>4. IDMapTypeOK'
    BY <1>2, <2>1, <2>3, TailOfQueue DEF IDMapTypeOK
  <2> HIDE DEF n
  <2>5. \A i, j \in DOMAIN m_idleIdQueue' : m_idleIdQueue'[i] = m_idleIdQueue'[j] => i = j
    BY <2>1 DEF PoolConserved
  <2>6. IdleSerials' = IdleSerials \ {id}
    <3>1. ASSUME NEW x \in IdleSerials' PROVE x \in IdleSerials \ {id}
      <4>1. PICK i \in 1..(n - 1) : x = m_idleIdQueue'[i]
        BY <2>1 DEF IdleSerials
      <4>2. i + 1 \in 1..n /\ i + 1 # 1 /\ x = m_idleIdQueue[i + 1]
        BY <2>1, <4>1
      <4> QED BY <2>1, <4>2 DEF IdleSerials, PoolConserved
    <3>2. ASSUME NEW x \in IdleSerials \ {id} PROVE x \in IdleSerials'
      <4>1. PICK i \in 1..n : x = m_idleIdQueue[i]
        BY <2>1 DEF IdleSerials
      <4>2. i - 1 \in 1..(n - 1) /\ x = m_idleIdQueue'[i - 1]
        BY <2>1, <3>2, <4>1
      <4> QED BY <2>1, <4>2 DEF IdleSerials
    <3> QED BY <3>1, <3>2
  <2>7. \A x \in Serial : x \in IdleSerials' <=> m_IDMap'[x] = NoService
    BY <2>1, <2>3, <2>6, IDMapAssumption DEF PoolConserved, IDMapTypeOK
  <2> QED BY <2>4, <2>5, <2>7 DEF PoolConserved
<1> QED BY <1>1, <1>2

(* UnRegister keeps the invariant, whatever id it is given.                 *)
LEMMA UnRegisterKeepsPool ==
  ASSUME PoolInv, NEW id, UnRegister(id)
  PROVE  PoolInv'
<1> USE DEF PoolInv
<1>1. CASE Get(id) = NoService
  <2>1. UNCHANGED idMapVars
    BY <1>1 DEF UnRegister
  <2> QED BY <2>1 DEF idMapVars, IDMapTypeOK, PoolConserved, IdleSerials
<1>2. CASE Get(id) # NoService
  <2> DEFINE n == Len(m_idleIdQueue)
  <2>1. id \in Serial /\ m_IDMap[id] # NoService
    BY <1>2 DEF Get
  <2>2. /\ m_idleIdQueue' = Append(m_idleIdQueue, id)
        /\ m_IDMap' = [m_IDMap EXCEPT ![id] = NoService]
    BY <1>2, <2>1, SerialFacts DEF UnRegister, Push
  <2>3. /\ n \in Nat
        /\ DOMAIN m_idleIdQueue = 1..n
        /\ DOMAIN m_idleIdQueue' = 1..(n + 1)
        /\ \A i \in 1..n : m_idleIdQueue'[i] = m_idleIdQueue[i]
        /\ m_idleIdQueue'[n + 1] = id
    BY <2>1, <2>2, AppendToQueue
  <2>4. IDMapTypeOK'
    BY <2>1, <2>2, AppendToQueue DEF IDMapTypeOK
  <2> HIDE DEF n
  <2>5. \A i \in 1..n : m_idleIdQueue[i] # id
    BY <2>1, <2>3 DEF PoolConserved, IdleSerials
  <2>6. \A i, j \in DOMAIN m_idleIdQueue' : m_idleIdQueue'[i] = m_idleIdQueue'[j] => i = j
    <3>1. \A i \in 1..(n + 1) : i \in 1..n \/ i = n + 1
      BY <2>3
    <3> QED BY <2>3, <2>5, <3>1 DEF PoolConserved
  <2>7. IdleSerials' = IdleSerials \cup {id}
    <3>1. ASSUME NEW x \in IdleSerials' PROVE x \in IdleSerials \cup {id}
      <4>1. PICK i \in 1..(n + 1) : x = m_idleIdQueue'[i]
        BY <2>3 DEF IdleSerials
      <4>2. i \in 1..n \/ i = n + 1
        BY <2>3
      <4> QED BY <2>3, <4>1, <4>2 DEF IdleSerials
    <3>2. ASSUME NEW x \in IdleSerials PROVE x \in IdleSerials'
      <4>1. PICK i \in 1..n : x = m_idleIdQueue[i]
        BY <2>3 DEF IdleSerials
      <4>2. i \in 1..(n + 1)
        BY <2>3
      <4> QED BY <2>3, <4>1, <4>2 DEF IdleSerials
    <3>3. id \in IdleSerials'
      <4>1. n + 1 \in 1..(n + 1)
        BY <2>3
      <4> QED BY <2>3, <4>1 DEF IdleSerials
    <3> QED BY <3>1, <3>2, <3>3
  <2>8. \A x \in Serial : x \in IdleSerials' <=> m_IDMap'[x] = NoService
    BY <2>1, <2>2, <2>7 DEF PoolConserved, IDMapTypeOK
  <2> QED BY <2>4, <2>6, <2>8 DEF PoolConserved
<1> QED BY <1>1, <1>2

(* No serial is ever lost or duplicated by SFIDMap, for every pool size and *)
(* every sequence of Register and UnRegister calls.                         *)
THEOREM PoolConservation == IDMapSpec => [](IDMapTypeOK /\ PoolConserved)
<1>1. IDMapInit => PoolInv
  BY PoolInit
<1>2. PoolInv /\ [IDMapNext]_idMapVars => PoolInv'
  <2> SUFFICES ASSUME PoolInv, [IDMapNext]_idMapVars PROVE PoolInv'
    OBVIOUS
  <2>1. CASE \E p \in Service, id \in Serial \cup {INVALID_ID} : Register(p, id)
    BY <2>1, RegisterKeepsPool
  <2>2. CASE \E id \in Serial \cup {INVALID_ID} : UnRegister(id)
    BY <2>2, UnRegisterKeepsPool
  <2>3. CASE UNCHANGED idMapVars
    BY <2>3 DEF PoolInv, idMapVars, IDMapTypeOK, PoolConserved, IdleSerials
  <2> QED BY <2>1, <2>2, <2>3 DEF IDMapNext
<1> QED BY <1>1, <1>2, PTL DEF IDMapSpec, PoolInv

(* A released serial waits for every serial that was idle before it         *)
(* (Doc/Session.md line 4), for every pool size.                            *)
THEOREM ReuseIsFIFO == IDMapSpec => FIFOReuse
<1> DEFINE Keeps(a, b) == Precedes(a, b) => Precedes(a, b)' \/ m_IDMap[a]' # NoService
<1>1. ASSUME PoolInv, PoolInv', [IDMapNext]_idMapVars, NEW a \in Serial, NEW b \in Serial,
             Precedes(a, b)
      PROVE  Precedes(a, b)' \/ m_IDMap[a]' # NoService
  <2> DEFINE n == Len(m_idleIdQueue)
  <2>1. PICK k \in DOMAIN m_idleIdQueue :
          /\ m_idleIdQueue[k] = a
          /\ \A j \in DOMAIN m_idleIdQueue : m_idleIdQueue[j] = b => k < j
    BY <1>1 DEF Precedes
  <2>2. CASE UNCHANGED idMapVars
    BY <2>1, <2>2 DEF Precedes, idMapVars
  <2>3. ASSUME NEW p \in Service, NEW id, Register(p, id), ~ UNCHANGED idMapVars
        PROVE  Precedes(a, b)' \/ m_IDMap[a]' # NoService
    <3>1. m_idleIdQueue # <<>>
      BY <2>3 DEF Register
    <3>2. /\ id = m_idleIdQueue[1] /\ id \in Serial
          /\ n \in Nat \ {0}
          /\ DOMAIN m_idleIdQueue = 1..n
          /\ DOMAIN m_idleIdQueue' = 1..(n - 1)
          /\ \A i \in 1..(n - 1) : m_idleIdQueue'[i] = m_idleIdQueue[i + 1]
      BY <1>1, <2>3, <3>1, TailOfQueue DEF Register, PoolInv
    <3>3. m_IDMap[id]' # NoService
      BY <1>1, <2>3, <3>1, <3>2, IDMapAssumption DEF Register, Bind, PoolInv, IDMapTypeOK
    <3> HIDE DEF n
    <3>4. CASE k = 1
      BY <2>1, <3>2, <3>3, <3>4
    <3>5. CASE k # 1
      <4>1. k - 1 \in 1..(n - 1) /\ m_idleIdQueue'[k - 1] = a
        BY <2>1, <3>2, <3>5
      <4>2. ASSUME NEW j \in 1..(n - 1), m_idleIdQueue'[j] = b PROVE k - 1 < j
        <5>1. j + 1 \in 1..n /\ m_idleIdQueue[j + 1] = b
          BY <3>2, <4>2
        <5>2. k < j + 1
          BY <2>1, <3>2, <5>1
        <5>3. k \in Int /\ j \in Int
          BY <3>2
        <5> QED BY <5>2, <5>3
      <4> QED BY <3>2, <4>1, <4>2 DEF Precedes
    <3> QED BY <3>4, <3>5
  <2>4. ASSUME NEW id, UnRegister(id), ~ UNCHANGED idMapVars
        PROVE  Precedes(a, b)'
    <3>1. id \in Serial /\ m_IDMap[id] # NoService /\ m_idleIdQueue' = Append(m_idleIdQueue, id)
      BY <2>4, SerialFacts DEF UnRegister, Push, Get
    <3>2. /\ n \in Nat
          /\ DOMAIN m_idleIdQueue = 1..n
          /\ DOMAIN m_idleIdQueue' = 1..(n + 1)
          /\ \A i \in 1..n : m_idleIdQueue'[i] = m_idleIdQueue[i]
      BY <1>1, <3>1, AppendToQueue DEF PoolInv
    <3> HIDE DEF n
    <3>3. k \in 1..(n + 1) /\ m_idleIdQueue'[k] = a
      BY <2>1, <3>2
    <3>4. ASSUME NEW j \in 1..(n + 1), m_idleIdQueue'[j] = b PROVE k < j
      <4>1. CASE j \in 1..n
        BY <2>1, <3>2, <3>4, <4>1
      <4>2. CASE j = n + 1
        BY <2>1, <3>2, <4>2
      <4> QED BY <3>2, <4>1, <4>2
    <3> QED BY <3>2, <3>3, <3>4 DEF Precedes
  <2> QED BY <1>1, <2>2, <2>3, <2>4 DEF IDMapNext
<1>2. PoolInv /\ PoolInv' /\ [IDMapNext]_idMapVars
        => [\A a, b \in Serial : Keeps(a, b)]_idMapVars
  BY <1>1
<1> QED BY <1>2, PoolConservation, PTL DEF IDMapSpec, FIFOReuse, PoolInv

(* The idle queue and the map implement the allocator of session numbers.   *)
THEOREM IDMapImplementsAllocator == IDMapSpec => ImplementsAllocator
<1>1. IDMapInit => Allocator!AllocatorInit
  BY DEF IDMapInit, Allocator!AllocatorInit
<1>2. PoolInv /\ [IDMapNext]_idMapVars => [Allocator!AllocatorNext]_m_IDMap
  <2> SUFFICES ASSUME PoolInv, IDMapNext PROVE Allocator!AllocatorNext \/ UNCHANGED m_IDMap
    BY DEF idMapVars
  <2>1. ASSUME NEW p \in Service, NEW id, Register(p, id)
        PROVE  Allocator!AllocatorNext \/ UNCHANGED m_IDMap
    <3>1. CASE m_idleIdQueue = <<>>
      BY <2>1, <3>1 DEF Register, idMapVars
    <3>2. CASE m_idleIdQueue # <<>>
      <4>1. id \in Serial /\ m_IDMap[id] = NoService
        BY <2>1, <3>2, TailOfQueue DEF Register, PoolInv, PoolConserved, IdleSerials
      <4>2. Allocator!Issue(id, p)
        BY <2>1, <3>2, <4>1 DEF Register, Bind, Allocator!Issue, PoolInv, IDMapTypeOK
      <4> QED BY <4>1, <4>2 DEF Allocator!AllocatorNext
    <3> QED BY <3>1, <3>2
  <2>2. ASSUME NEW id, UnRegister(id)
        PROVE  Allocator!AllocatorNext \/ UNCHANGED m_IDMap
    <3>1. CASE Get(id) = NoService
      BY <2>2, <3>1 DEF UnRegister, idMapVars
    <3>2. CASE Get(id) # NoService
      BY <2>2, <3>2 DEF UnRegister, Get, Allocator!AllocatorNext, Allocator!Return
    <3> QED BY <3>1, <3>2
  <2> QED BY <2>1, <2>2 DEF IDMapNext
<1> QED
  BY <1>1, <1>2, PoolConservation, PTL
  DEF IDMapSpec, ImplementsAllocator, Allocator!AllocatorSpec, PoolInv

-----------------------------------------------------------------------------
(* Sessions: the parts of the invariant.                                    *)

(* open before the timer is scheduled: only this thread knows the service.  *)
EarlyLabels == {"open", "limit", "reject", "register", "timer"}
ExpiryLabels == {"timeout", "delete"}

(* Who may work for a service: nobody before it is constructed, one thread  *)
(* until its timer is scheduled, one expiry at a time afterwards; those     *)
(* threads find it alive.                                                   *)
ThreadInv ==
  /\ \A t \in IOThread : pc[t] = "idle" <=> at[t] = NoService
  /\ \A s \in Service : object[s] = "unborn" =>
       /\ m_serial[s] = INVALID_ID
       /\ ~timer[s] /\ ~read[s]
       /\ \A t \in IOThread : at[t] # s
  /\ \A t \in IOThread : pc[t] \in EarlyLabels =>
       /\ object[at[t]] = "alive"
       /\ ~timer[at[t]] /\ ~read[at[t]]
       /\ \A u \in IOThread : at[u] = at[t] => u = t
  /\ \A t \in IOThread : pc[t] \in ExpiryLabels =>
       /\ object[at[t]] = "alive"
       /\ \A u \in IOThread : at[u] = at[t] /\ pc[u] \in ExpiryLabels => u = t

(* The global counter counts the services alive.                            *)
CountInv == g_currentSessionCnt = Cardinality(Alive)

(* A service that passed the check of open.                                 *)
Admitted == {s \in Alive : m_serial[s] # INVALID_ID
                           \/ \E t \in IOThread : at[t] = s /\ pc[t] = "register"}

AdmitInv == Cardinality(Admitted) <= MaxUserAccept

(* t runs a handler of s that is not an expiry of its timer.                *)
Handles(t, s) == at[t] = s /\ pc[t] \notin ExpiryLabels

(* ReserveClose after UnRegister.                                           *)
GivenUpLabels == CloseLabels \ {"unregister"}

(* A service is served by one handler at a time, because one read is        *)
(* outstanding at a time.                                                   *)
HandlerInv ==
  \A s \in Service, t \in IOThread : Handles(t, s) =>
    /\ ~read[s]
    /\ \A u \in IOThread : Handles(u, s) => u = t

(* What the registry binds: a service under its own serial, and none whose  *)
(* handler has given the serial up.                                         *)
RegistryInv ==
  /\ \A id \in Serial : m_IDMap[id] # NoService => m_serial[m_IDMap[id]] = id
  /\ \A t \in IOThread : pc[t] \in EarlyLabels \ {"timer"} => m_serial[at[t]] = INVALID_ID
  /\ \A t \in IOThread : pc[t] \in GivenUpLabels /\ object[at[t]] = "alive" =>
       \A id \in Serial : m_IDMap[id] # at[t]
  /\ disconnecting # NoService => \E id \in Serial : m_IDMap[id] = disconnecting

(* closesocket was called and the handle still says otherwise.              *)
CloseSeen(s) == disconnecting = s \/ \E t \in IOThread : Stands(t, s, "invalidate")

(* closesocket is called once while the service lives: the account of it.   *)
SocketInv ==
  /\ \A s \in Service :
       /\ object[s] = "unborn" => ~handle[s] /\ closeCalls[s] = 0 /\ ~m_bServiceCloseFlag[s]
       /\ object[s] = "alive" =>
            /\ closeCalls[s] = IF handle[s] /\ ~CloseSeen(s) THEN 0 ELSE 1
            /\ m_bServiceCloseFlag[s] => ~handle[s]
  /\ \A t \in IOThread :
       pc[t] \in {"disconnect", "delservice", "flag"} /\ object[at[t]] = "alive"
         => ~handle[at[t]]
  /\ \A t \in IOThread : pc[t] = "delete" => m_bServiceCloseFlag[at[t]]

(* What logicGateway says of s.                                             *)
Told(s) == \E i \in DOMAIN logicGateway : logicGateway[i].from = s
ToldEnd(s) ==
  \E i \in DOMAIN logicGateway : logicGateway[i].from = s /\ logicGateway[i].type = "DISCONNECT"

SilentLabels == EarlyLabels \cup {"create", "connect"}
OpenedLabels == {"recv", "receive", "unregister", "closesocket", "invalidate", "disconnect"}

(* SessionProtocol, and what a handler's statement implies about what the   *)
(* logic has been told of its service.                                      *)
PacketInv ==
  /\ SessionProtocol
  /\ \A s \in Service : object[s] = "unborn" => ~Told(s)
  /\ \A t \in IOThread : pc[t] \in SilentLabels => ~Told(at[t])
  /\ \A t \in IOThread : pc[t] \in OpenedLabels => Told(at[t]) /\ ~ToldEnd(at[t])
  /\ \A s \in Service : read[s] => Told(s) /\ ~ToldEnd(s)

(* A service that is marked closed is finished with: nothing is read, no    *)
(* handler runs, and no serial leads to it.                                 *)
ClosedInv ==
  /\ \A s \in Service : m_bServiceCloseFlag[s] =>
       /\ ~read[s]
       /\ \A t \in IOThread : ~Handles(t, s)
       /\ \A id \in Serial : m_IDMap[id] # s
  /\ \A s \in Service : object[s] = "deleted" => ~read[s]

(* A service is registered from Register to the end of its last handler     *)
(* before UnRegister.                                                       *)
BoundLabels == {"timer", "create", "connect", "recv", "receive", "unregister"}
BoundInv ==
  /\ \A t \in IOThread : pc[t] \in BoundLabels =>
       m_serial[at[t]] \in Serial /\ m_IDMap[m_serial[at[t]]] = at[t]
  /\ \A s \in Service : read[s] => m_serial[s] \in Serial /\ m_IDMap[m_serial[s]] = s

(* What holds in addition while nobody is inside Disconnect.                *)
LifeInv ==
  LockFree /\ NoUseAfterFree /\ RegistryPointsToLive /\ ClosedInv /\ BoundInv

(* The inductive invariant, whether the application calls Disconnect or not.*)
ServiceInv ==
  /\ ServiceTypeOK /\ PoolConserved /\ ThreadInv /\ CountInv /\ AdmitInv
  /\ HandlerInv /\ RegistryInv /\ SocketInv

-----------------------------------------------------------------------------
(* What a tested closesocket does to the account.                           *)
LEMMA CloseEffect ==
  ASSUME closeCalls \in [Service -> 0..MaxCloseCalls], NEW s \in Service, NEW h \in BOOLEAN,
         CloseIfOpen(s, h)
  PROVE  /\ closeCalls' \in [Service -> 0..MaxCloseCalls]
         /\ \A x \in Service \ {s} : closeCalls'[x] = closeCalls[x]
         /\ ~h => closeCalls'[s] = closeCalls[s]
         /\ h /\ closeCalls[s] = 0 => closeCalls'[s] = 1
<1>1. closeCalls[s] \in 0..2
  BY DEF MaxCloseCalls
<1>2. PICK n : n = IF h /\ closeCalls[s] < 2 THEN closeCalls[s] + 1 ELSE closeCalls[s]
  OBVIOUS
<1>3. n \in 0..2 /\ (~h => n = closeCalls[s]) /\ (h /\ closeCalls[s] = 0 => n = 1)
  BY <1>1, <1>2
<1>4. closeCalls' = [closeCalls EXCEPT ![s] = n]
  BY <1>2 DEF CloseIfOpen, MaxCloseCalls
<1> QED BY <1>3, <1>4 DEF MaxCloseCalls

(* Each statement of a thread keeps the types.                              *)
LEMMA StepKeepsType ==
  ASSUME ServiceTypeOK, PoolConserved, NEW t \in IOThread, NEW s \in Service, IOThreadStep(t, s)
  PROVE  ServiceTypeOK' /\ PoolConserved'
<1> USE DEF ServiceTypeOK, Labels
<1>p. PoolInv
  BY DEF PoolInv
<1>n. /\ INVALID_ID \in Serial \cup {INVALID_ID}
      /\ SerialReadFrom(s) \subseteq Serial \cup {INVALID_ID}
  BY DEF SerialReadFrom
<1>d. ASSUME NEW type \in {"CONNECT", "DATA", "DISCONNECT"}, NEW id \in SerialReadFrom(s),
             Dispatch(type, id, s)
      PROVE  logicGateway' \in Seq(Packet)
  <2>1. [type |-> type, serial |-> id, from |-> s] \in Packet
    BY <1>n DEF Packet
  <2> QED BY <1>d, <2>1 DEF Dispatch
<1>u. ASSUME UNCHANGED idMapVars PROVE IDMapTypeOK' /\ PoolConserved'
  BY <1>u DEF idMapVars, IDMapTypeOK, PoolConserved, IdleSerials
<1>1. CASE Accept(t, s)
  BY <1>1, <1>u DEF Accept, Start
<1>2. CASE OpenStreams(t, s)
  <2>1. CASE Delete(s) /\ Finish(t) /\ UNCHANGED <<m_pTimerLock, m_bServiceCloseFlag>>
    BY <1>2, <1>u, <2>1 DEF OpenStreams, Delete, Finish
  <2>2. CASE /\ m_pTimerLock' = [m_pTimerLock EXCEPT ![s] = FALSE]
             /\ m_bServiceCloseFlag' = [m_bServiceCloseFlag EXCEPT ![s] = FALSE]
             /\ Goto(t, "limit")
             /\ UNCHANGED <<object, g_currentSessionCnt>>
    BY <1>2, <1>u, <2>2 DEF OpenStreams, Goto
  <2> QED BY <1>2, <2>1, <2>2 DEF OpenStreams
<1>3. CASE CheckLimit(t, s)
  BY <1>3, <1>u DEF CheckLimit, Goto, sessionVars
<1>4. CASE Reject(t, s)
  <2>1. closeCalls' \in [Service -> 0..MaxCloseCalls]
    BY <1>4, CloseEffect DEF Reject
  <2>2. /\ UNCHANGED <<idMapVars, m_serial, m_bServiceCloseFlag, m_pTimerLock, m_pSessionService,
                       timer, read, disconnecting, logicGateway>>
        /\ object' = [object EXCEPT ![s] = "deleted"] /\ handle' = [handle EXCEPT ![s] = FALSE]
        /\ g_currentSessionCnt' = g_currentSessionCnt - 1
        /\ pc' = [pc EXCEPT ![t] = "idle"] /\ at' = [at EXCEPT ![t] = NoService]
    BY <1>4 DEF Reject, Delete, Finish
  <2> QED BY <1>u, <2>1, <2>2
<1>5. CASE RegisterService(t, s)
  <2>1. PICK id \in Serial \cup {INVALID_ID} :
          /\ Register(s, id)
          /\ m_serial' = [m_serial EXCEPT ![s] = id]
          /\ Goto(t, IF id = INVALID_ID THEN "reject" ELSE "timer")
    BY <1>5 DEF RegisterService
  <2>2. PoolInv'
    BY <1>p, <2>1, RegisterKeepsPool
  <2> QED BY <1>5, <2>1, <2>2 DEF RegisterService, Goto, PoolInv
<1>6. CASE RegisterTimer(t, s)
  BY <1>6, <1>u DEF RegisterTimer, Goto
<1>7. CASE CreateSessionService(t, s)
  BY <1>7, <1>u DEF CreateSessionService, Goto
<1>8. CASE OnConnect(t, s)
  <2>1. logicGateway' \in Seq(Packet)
    BY <1>8, <1>d DEF OnConnect
  <2> QED BY <1>8, <1>u, <2>1 DEF OnConnect, Goto, sessionVars
<1>9. CASE PostRecv(t, s)
  BY <1>9, <1>u DEF PostRecv, Goto, Finish
<1>10. CASE ReadCompletes(t, s)
  <2>1. ASSUME NEW label \in {"receive", "unregister"}, Start(t, s, label)
        PROVE  ServiceTypeOK' /\ PoolConserved'
    BY <1>10, <1>u, <2>1 DEF ReadCompletes, Start
  <2> QED BY <1>10, <2>1 DEF ReadCompletes
<1>11. CASE OnReceive(t, s)
  <2>1. logicGateway' \in Seq(Packet)
    BY <1>11, <1>d DEF OnReceive
  <2> QED BY <1>11, <1>u, <2>1 DEF OnReceive, Goto, sessionVars
<1>12. CASE UnregisterService(t, s)
  <2>1. PoolInv'
    BY <1>12, <1>p, UnRegisterKeepsPool DEF UnregisterService
  <2> QED BY <1>12, <2>1 DEF UnregisterService, Goto, sessionVars, PoolInv
<1>13. CASE CloseSocket(t, s)
  <2>1. PICK h \in BOOLEAN : CloseIfOpen(s, h)
    BY <1>13 DEF CloseSocket, HandleReadFrom
  <2>2. closeCalls' \in [Service -> 0..MaxCloseCalls]
    BY <2>1, CloseEffect
  <2> QED BY <1>13, <1>u, <2>2 DEF CloseSocket, Goto
<1>14. CASE InvalidateHandle(t, s)
  BY <1>14, <1>u DEF InvalidateHandle, Goto
<1>15. CASE OnDisconnect(t, s)
  <2>1. logicGateway' \in Seq(Packet)
    BY <1>15, <1>d DEF OnDisconnect
  <2> QED BY <1>15, <1>u, <2>1 DEF OnDisconnect, Goto, sessionVars
<1>16. CASE DeleteSessionService(t, s)
  BY <1>16, <1>u DEF DeleteSessionService, Goto
<1>17. CASE SetCloseFlag(t, s)
  BY <1>17, <1>u DEF SetCloseFlag, Finish
<1>18. CASE TimerExpires(t, s)
  BY <1>18, <1>u DEF TimerExpires, Start, sessionVars
<1>19. CASE CheckClosed(t, s)
  BY <1>19, <1>u DEF CheckClosed, Goto, Finish
<1>20. CASE DeleteService(t, s)
  BY <1>20, <1>u DEF DeleteService, Delete, Finish
<1> QED
  BY <1>1, <1>2, <1>3, <1>4, <1>5, <1>6, <1>7, <1>8, <1>9, <1>10, <1>11, <1>12, <1>13, <1>14,
     <1>15, <1>16, <1>17, <1>18, <1>19, <1>20
  DEF IOThreadStep, HandlerStep

(* Each statement of a thread keeps the discipline of who works for whom.   *)
LEMMA StepKeepsThreads ==
  ASSUME ServiceTypeOK, ThreadInv, NEW t \in IOThread, NEW s \in Service, IOThreadStep(t, s)
  PROVE  ThreadInv'
<1> USE IDMapAssumption DEF ServiceTypeOK, ThreadInv, EarlyLabels, ExpiryLabels
<1>1. CASE Accept(t, s)
  BY <1>1 DEF Accept, Start
<1>2. CASE OpenStreams(t, s)
  <2>1. CASE Delete(s) /\ Finish(t) /\ UNCHANGED <<m_pTimerLock, m_bServiceCloseFlag>>
    BY <1>2, <2>1 DEF OpenStreams, Stands, Delete, Finish
  <2>2. CASE /\ m_pTimerLock' = [m_pTimerLock EXCEPT ![s] = FALSE]
             /\ m_bServiceCloseFlag' = [m_bServiceCloseFlag EXCEPT ![s] = FALSE]
             /\ Goto(t, "limit")
             /\ UNCHANGED <<object, g_currentSessionCnt>>
    BY <1>2, <2>2 DEF OpenStreams, Stands, Goto
  <2> QED BY <1>2, <2>1, <2>2 DEF OpenStreams
<1>3. CASE CheckLimit(t, s)
  BY <1>3 DEF CheckLimit, Stands, Goto, sessionVars
<1>4. CASE Reject(t, s)
  BY <1>4 DEF Reject, Stands, Delete, Finish
<1>5. CASE RegisterService(t, s)
  BY <1>5 DEF RegisterService, Stands, Goto
<1>6. CASE RegisterTimer(t, s)
  BY <1>6 DEF RegisterTimer, Stands, Goto
<1>7. CASE CreateSessionService(t, s)
  BY <1>7 DEF CreateSessionService, Stands, Goto
<1>8. CASE OnConnect(t, s)
  BY <1>8 DEF OnConnect, Stands, Goto, sessionVars
<1>9. CASE PostRecv(t, s)
  <2>1. CASE TRUE \in HandleReadFrom(s) /\ read' = [read EXCEPT ![s] = TRUE] /\ Finish(t)
    BY <1>9, <2>1 DEF PostRecv, Stands, Finish
  <2>2. CASE Goto(t, "unregister") /\ UNCHANGED read
    BY <1>9, <2>2 DEF PostRecv, Stands, Goto
  <2> QED BY <1>9, <2>1, <2>2 DEF PostRecv
<1>10. CASE ReadCompletes(t, s)
  <2>1. ASSUME NEW label \in {"receive", "unregister"}, Start(t, s, label) PROVE ThreadInv'
    BY <1>10, <2>1 DEF ReadCompletes, Start
  <2> QED BY <1>10, <2>1 DEF ReadCompletes
<1>11. CASE OnReceive(t, s)
  BY <1>11, SMTT(60) DEF OnReceive, Stands, Goto, sessionVars
<1>12. CASE UnregisterService(t, s)
  BY <1>12 DEF UnregisterService, Stands, Goto, sessionVars
<1>13. CASE CloseSocket(t, s)
  BY <1>13 DEF CloseSocket, Stands, Goto
<1>14. CASE InvalidateHandle(t, s)
  BY <1>14 DEF InvalidateHandle, Stands, Goto
<1>15. CASE OnDisconnect(t, s)
  BY <1>15 DEF OnDisconnect, Stands, Goto, sessionVars
<1>16. CASE DeleteSessionService(t, s)
  BY <1>16 DEF DeleteSessionService, Stands, Goto
<1>17. CASE SetCloseFlag(t, s)
  BY <1>17 DEF SetCloseFlag, Stands, Finish
<1>18. CASE TimerExpires(t, s)
  BY <1>18 DEF TimerExpires, Start, sessionVars
<1>19. CASE CheckClosed(t, s)
  <2>1. CASE Goto(t, "delete")
    BY <1>19, <2>1 DEF CheckClosed, Stands, Goto
  <2>2. CASE Finish(t)
    BY <1>19, <2>2 DEF CheckClosed, Stands, Finish
  <2> QED BY <1>19, <2>1, <2>2 DEF CheckClosed
<1>20. CASE DeleteService(t, s)
  BY <1>20 DEF DeleteService, Stands, Delete, Finish
<1> QED
  BY <1>1, <1>2, <1>3, <1>4, <1>5, <1>6, <1>7, <1>8, <1>9, <1>10, <1>11, <1>12, <1>13, <1>14,
     <1>15, <1>16, <1>17, <1>18, <1>19, <1>20
  DEF IOThreadStep, HandlerStep

(* A statement constructs the service, deletes it alive, or leaves the      *)
(* counter and every object as they are.                                    *)
LEMMA StepOnObjects ==
  ASSUME ServiceTypeOK, ThreadInv, NEW t \in IOThread, NEW s \in Service, IOThreadStep(t, s)
  PROVE  \/ Accept(t, s)
         \/ object[s] = "alive" /\ Delete(s)
         \/ UNCHANGED <<object, g_currentSessionCnt>>
<1>1. CASE OpenStreams(t, s) \/ Reject(t, s) \/ DeleteService(t, s)
  <2>1. object[s] = "alive"
    BY <1>1 DEF OpenStreams, Reject, DeleteService, Stands, ThreadInv, EarlyLabels, ExpiryLabels
  <2> QED BY <1>1, <2>1 DEF OpenStreams, Reject, DeleteService
<1>2. CASE ~(OpenStreams(t, s) \/ Reject(t, s) \/ DeleteService(t, s)) /\ ~Accept(t, s)
  BY <1>2
  DEF IOThreadStep, HandlerStep, sessionVars, CheckLimit, RegisterService, RegisterTimer,
      CreateSessionService, OnConnect, PostRecv, ReadCompletes, OnReceive, UnregisterService,
      CloseSocket, InvalidateHandle, OnDisconnect, DeleteSessionService, SetCloseFlag,
      TimerExpires, CheckClosed
<1> QED BY <1>1, <1>2

(* g_currentSessionCnt keeps counting the services alive.                   *)
LEMMA StepKeepsCount ==
  ASSUME ServiceTypeOK, ThreadInv, CountInv,
         NEW t \in IOThread, NEW s \in Service, IOThreadStep(t, s)
  PROVE  CountInv'
<1>f. IsFiniteSet(Alive)
  BY ServiceAssumption, FS_Subset DEF Alive
<1>1. CASE Accept(t, s)
  <2>1. s \notin Alive /\ Alive' = Alive \cup {s} /\ g_currentSessionCnt' = g_currentSessionCnt + 1
    BY <1>1 DEF Accept, Alive, ServiceTypeOK
  <2>2. Cardinality(Alive \cup {s}) = Cardinality(Alive) + 1
    BY <1>f, <2>1, FS_AddElement
  <2> QED BY <2>1, <2>2 DEF CountInv
<1>2. CASE object[s] = "alive" /\ Delete(s)
  <2>1. s \in Alive /\ Alive' = Alive \ {s} /\ g_currentSessionCnt' = g_currentSessionCnt - 1
    BY <1>2 DEF Delete, Alive, ServiceTypeOK
  <2>2. Cardinality(Alive \ {s}) = Cardinality(Alive) - 1
    BY <1>f, <2>1, FS_RemoveElement
  <2> QED BY <2>1, <2>2 DEF CountInv
<1>3. CASE UNCHANGED <<object, g_currentSessionCnt>>
  BY <1>3 DEF CountInv, Alive
<1> QED BY <1>1, <1>2, <1>3, StepOnObjects

(* Only the check of open admits a service, and only under the limit.       *)
LEMMA StepKeepsAdmission ==
  ASSUME ServiceTypeOK, ThreadInv, CountInv, AdmitInv,
         NEW t \in IOThread, NEW s \in Service, IOThreadStep(t, s)
  PROVE  AdmitInv'
<1> USE DEF ServiceTypeOK
<1>f. IsFiniteSet(Alive) /\ IsFiniteSet(Admitted) /\ Admitted \subseteq Alive
  BY ServiceAssumption, FS_Subset DEF Alive, Admitted
<1>s. ASSUME Admitted' \subseteq Admitted PROVE AdmitInv'
  <2>1. /\ IsFiniteSet(Admitted') /\ Cardinality(Admitted') <= Cardinality(Admitted)
        /\ Cardinality(Admitted) \in Nat /\ Cardinality(Admitted') \in Nat
    BY <1>f, <1>s, FS_Subset, FS_CardinalityType
  <2> QED BY <2>1, ServiceAssumption DEF AdmitInv
<1>1. CASE Accept(t, s)
  <2>1. Admitted' \subseteq Admitted
    BY <1>1 DEF Admitted, Alive, ThreadInv, Accept, Start
  <2> QED BY <1>s, <2>1
<1>2. CASE OpenStreams(t, s)
  <2>1. Admitted' \subseteq Admitted
    <3>1. CASE Delete(s) /\ Finish(t)
      BY <1>2, <3>1 DEF Admitted, Alive, OpenStreams, Stands, Delete, Finish
    <3>2. CASE Goto(t, "limit") /\ UNCHANGED object
      BY <1>2, <3>2 DEF Admitted, Alive, OpenStreams, Stands, Goto
    <3> QED BY <1>2, <3>1, <3>2 DEF OpenStreams
  <2> QED BY <1>s, <2>1
<1>4. CASE Reject(t, s)
  <2>1. Admitted' \subseteq Admitted
    BY <1>4 DEF Admitted, Alive, Reject, Stands, Delete, Finish
  <2> QED BY <1>s, <2>1
<1>5. CASE RegisterService(t, s)
  <2>1. Admitted' \subseteq Admitted
    BY <1>5 DEF Admitted, Alive, RegisterService, Stands, Goto
  <2> QED BY <1>s, <2>1
<1>6. CASE RegisterTimer(t, s)
  <2>1. Admitted' \subseteq Admitted
    BY <1>6 DEF Admitted, Alive, RegisterTimer, Stands, Goto
  <2> QED BY <1>s, <2>1
<1>7. CASE CreateSessionService(t, s)
  <2>1. Admitted' \subseteq Admitted
    BY <1>7 DEF Admitted, Alive, CreateSessionService, Stands, Goto
  <2> QED BY <1>s, <2>1
<1>8. CASE OnConnect(t, s)
  <2>1. Admitted' \subseteq Admitted
    BY <1>8 DEF Admitted, Alive, OnConnect, Stands, Goto, sessionVars
  <2> QED BY <1>s, <2>1
<1>9. CASE PostRecv(t, s)
  <2>1. Admitted' \subseteq Admitted
    <3>1. CASE Finish(t)
      BY <1>9, <3>1 DEF Admitted, Alive, PostRecv, Stands, Finish
    <3>2. CASE Goto(t, "unregister")
      BY <1>9, <3>2 DEF Admitted, Alive, PostRecv, Stands, Goto
    <3> QED BY <1>9, <3>1, <3>2 DEF PostRecv
  <2> QED BY <1>s, <2>1
<1>10. CASE ReadCompletes(t, s)
  <2>1. Admitted' \subseteq Admitted
    <3>1. ASSUME NEW label \in {"receive", "unregister"}, Start(t, s, label)
          PROVE  Admitted' \subseteq Admitted
      BY <1>10, <3>1 DEF Admitted, Alive, ReadCompletes, Start
    <3> QED BY <1>10, <3>1 DEF ReadCompletes
  <2> QED BY <1>s, <2>1
<1>11. CASE OnReceive(t, s)
  <2>1. Admitted' \subseteq Admitted
    BY <1>11 DEF Admitted, Alive, OnReceive, Stands, Goto, sessionVars
  <2> QED BY <1>s, <2>1
<1>12. CASE UnregisterService(t, s)
  <2>1. Admitted' \subseteq Admitted
    BY <1>12 DEF Admitted, Alive, UnregisterService, Stands, Goto, sessionVars
  <2> QED BY <1>s, <2>1
<1>13. CASE CloseSocket(t, s)
  <2>1. Admitted' \subseteq Admitted
    BY <1>13 DEF Admitted, Alive, CloseSocket, Stands, Goto
  <2> QED BY <1>s, <2>1
<1>14. CASE InvalidateHandle(t, s)
  <2>1. Admitted' \subseteq Admitted
    BY <1>14 DEF Admitted, Alive, InvalidateHandle, Stands, Goto
  <2> QED BY <1>s, <2>1
<1>15. CASE OnDisconnect(t, s)
  <2>1. Admitted' \subseteq Admitted
    BY <1>15 DEF Admitted, Alive, OnDisconnect, Stands, Goto, sessionVars
  <2> QED BY <1>s, <2>1
<1>16. CASE DeleteSessionService(t, s)
  <2>1. Admitted' \subseteq Admitted
    BY <1>16 DEF Admitted, Alive, DeleteSessionService, Stands, Goto
  <2> QED BY <1>s, <2>1
<1>17. CASE SetCloseFlag(t, s)
  <2>1. Admitted' \subseteq Admitted
    BY <1>17 DEF Admitted, Alive, SetCloseFlag, Stands, Finish
  <2> QED BY <1>s, <2>1
<1>18. CASE TimerExpires(t, s)
  <2>1. Admitted' \subseteq Admitted
    BY <1>18 DEF Admitted, Alive, TimerExpires, Start, sessionVars
  <2> QED BY <1>s, <2>1
<1>19. CASE CheckClosed(t, s)
  <2>1. Admitted' \subseteq Admitted
    BY <1>19 DEF Admitted, Alive, CheckClosed, Stands, Goto, Finish
  <2> QED BY <1>s, <2>1
<1>20. CASE DeleteService(t, s)
  <2>1. Admitted' \subseteq Admitted
    BY <1>20 DEF Admitted, Alive, DeleteService, Stands, Delete, Finish
  <2> QED BY <1>s, <2>1
<1>3. CASE CheckLimit(t, s)
  <2>1. CASE g_currentSessionCnt > MaxUserAccept
    <3>1. Admitted' \subseteq Admitted
      BY <1>3, <2>1 DEF Admitted, Alive, CheckLimit, Stands, Goto, sessionVars
    <3> QED BY <1>s, <3>1
  <2>2. CASE ~(g_currentSessionCnt > MaxUserAccept)
    <3>1. Admitted' \subseteq Alive
      BY <1>3 DEF Admitted, Alive, CheckLimit, sessionVars
    <3>2. /\ Cardinality(Admitted') <= Cardinality(Alive)
          /\ Cardinality(Alive) \in Nat /\ Cardinality(Admitted') \in Nat
      BY <1>f, <3>1, FS_Subset, FS_CardinalityType
    <3> QED BY <2>2, <3>2, ServiceAssumption DEF AdmitInv, CountInv
  <2> QED BY <2>1, <2>2
<1> QED
  BY <1>1, <1>2, <1>3, <1>4, <1>5, <1>6, <1>7, <1>8, <1>9, <1>10, <1>11, <1>12, <1>13, <1>14,
     <1>15, <1>16, <1>17, <1>18, <1>19, <1>20
  DEF IOThreadStep, HandlerStep

(* What Register and UnRegister do to the map.                              *)
LEMMA RegisterEffect ==
  ASSUME PoolInv, NEW p \in Service, NEW id, Register(p, id)
  PROVE  \/ id = INVALID_ID /\ UNCHANGED m_IDMap
         \/ id \in Serial /\ m_IDMap[id] = NoService /\ m_IDMap' = [m_IDMap EXCEPT ![id] = p]
<1> USE DEF PoolInv
<1>1. CASE m_idleIdQueue = <<>>
  BY <1>1 DEF Register, idMapVars
<1>2. CASE m_idleIdQueue # <<>>
  <2>1. id \in Serial /\ id \in IdleSerials
    BY <1>2, TailOfQueue DEF Register, IdleSerials
  <2>2. m_IDMap[id] = NoService
    BY <2>1 DEF PoolConserved
  <2> QED BY <1>2, <2>1, <2>2 DEF Register, Bind, IDMapTypeOK
<1> QED BY <1>1, <1>2

LEMMA UnRegisterEffect ==
  ASSUME IDMapTypeOK, NEW id, UnRegister(id)
  PROVE  \A x \in Serial : m_IDMap'[x] = IF x = id THEN NoService ELSE m_IDMap[x]
BY DEF UnRegister, Get, IDMapTypeOK, idMapVars

(* One handler at a time.                                                   *)
LEMMA StepKeepsHandlers ==
  ASSUME ServiceTypeOK, ThreadInv, HandlerInv, NEW t \in IOThread, NEW s \in Service,
         IOThreadStep(t, s)
  PROVE  HandlerInv'
<1> USE IDMapAssumption DEF ServiceTypeOK, ThreadInv, HandlerInv, Handles, EarlyLabels, ExpiryLabels
<1>1. CASE Accept(t, s)
  BY <1>1 DEF Accept, Start
<1>2. CASE OpenStreams(t, s)
  <2>1. CASE Delete(s) /\ Finish(t) /\ UNCHANGED <<m_pTimerLock, m_bServiceCloseFlag>>
    BY <1>2, <2>1 DEF OpenStreams, Stands, Delete, Finish
  <2>2. CASE /\ m_pTimerLock' = [m_pTimerLock EXCEPT ![s] = FALSE]
             /\ m_bServiceCloseFlag' = [m_bServiceCloseFlag EXCEPT ![s] = FALSE]
             /\ Goto(t, "limit")
             /\ UNCHANGED <<object, g_currentSessionCnt>>
    BY <1>2, <2>2 DEF OpenStreams, Stands, Goto
  <2> QED BY <1>2, <2>1, <2>2 DEF OpenStreams
<1>3. CASE CheckLimit(t, s)
  BY <1>3 DEF CheckLimit, Stands, Goto, sessionVars
<1>4. CASE Reject(t, s)
  BY <1>4 DEF Reject, Stands, Delete, Finish
<1>5. CASE RegisterService(t, s)
  BY <1>5 DEF RegisterService, Stands, Goto
<1>6. CASE RegisterTimer(t, s)
  BY <1>6 DEF RegisterTimer, Stands, Goto
<1>7. CASE CreateSessionService(t, s)
  BY <1>7 DEF CreateSessionService, Stands, Goto
<1>8. CASE OnConnect(t, s)
  BY <1>8 DEF OnConnect, Stands, Goto, sessionVars
<1>9. CASE PostRecv(t, s)
  <2>1. CASE TRUE \in HandleReadFrom(s) /\ read' = [read EXCEPT ![s] = TRUE] /\ Finish(t)
    <3>1. /\ at[t] = s /\ pc[t] = "recv"
          /\ pc' = [pc EXCEPT ![t] = "idle"] /\ at' = [at EXCEPT ![t] = NoService]
          /\ read' = [read EXCEPT ![s] = TRUE]
      BY <1>9, <2>1 DEF PostRecv, Stands, Finish
    <3>3. \A u \in IOThread : pc[u] # "idle" => at[u] \in Service
      OBVIOUS
    <3> HIDE DEF ThreadInv
    <3>2. ~read[s] /\ \A u \in IOThread : Handles(u, s) => u = t
      BY <3>1
    <3> QED BY <3>1, <3>2, <3>3
  <2>2. CASE Goto(t, "unregister") /\ UNCHANGED read
    BY <1>9, <2>2 DEF PostRecv, Stands, Goto
  <2> QED BY <1>9, <2>1, <2>2 DEF PostRecv
<1>10. CASE ReadCompletes(t, s)
  <2>1. CASE Start(t, s, "receive")
    BY <1>10, <2>1 DEF ReadCompletes, Start
  <2>2. CASE Start(t, s, "unregister")
    BY <1>10, <2>2 DEF ReadCompletes, Start
  <2> QED BY <1>10, <2>1, <2>2 DEF ReadCompletes
<1>11. CASE OnReceive(t, s)
  <2>1. CASE UNCHANGED <<pc, at>>
    BY <1>11, <2>1 DEF OnReceive, Stands, sessionVars
  <2>2. CASE Goto(t, "recv")
    BY <1>11, <2>2 DEF OnReceive, Stands, Goto, sessionVars
  <2>3. CASE Goto(t, "unregister")
    BY <1>11, <2>3 DEF OnReceive, Stands, Goto, sessionVars
  <2> QED BY <1>11, <2>1, <2>2, <2>3 DEF OnReceive
<1>12. CASE UnregisterService(t, s)
  BY <1>12 DEF UnregisterService, Stands, Goto, sessionVars
<1>13. CASE CloseSocket(t, s)
  BY <1>13 DEF CloseSocket, Stands, Goto
<1>14. CASE InvalidateHandle(t, s)
  BY <1>14 DEF InvalidateHandle, Stands, Goto
<1>15. CASE OnDisconnect(t, s)
  BY <1>15 DEF OnDisconnect, Stands, Goto, sessionVars
<1>16. CASE DeleteSessionService(t, s)
  BY <1>16 DEF DeleteSessionService, Stands, Goto
<1>17. CASE SetCloseFlag(t, s)
  BY <1>17 DEF SetCloseFlag, Stands, Finish
<1>18. CASE TimerExpires(t, s)
  BY <1>18 DEF TimerExpires, Start, sessionVars
<1>19. CASE CheckClosed(t, s)
  <2>1. CASE /\ m_bServiceCloseFlag[s] /\ m_pTimerLock' = [m_pTimerLock EXCEPT ![s] = TRUE]
             /\ Goto(t, "delete")
    BY <1>19, <2>1 DEF CheckClosed, Stands, Goto
  <2>2. CASE UNCHANGED m_pTimerLock /\ Finish(t)
    BY <1>19, <2>2 DEF CheckClosed, Stands, Finish
  <2> QED BY <1>19, <2>1, <2>2 DEF CheckClosed
<1>20. CASE DeleteService(t, s)
  BY <1>20 DEF DeleteService, Stands, Delete, Finish
<1> QED
  BY <1>1, <1>2, <1>3, <1>4, <1>5, <1>6, <1>7, <1>8, <1>9, <1>10, <1>11, <1>12, <1>13, <1>14,
     <1>15, <1>16, <1>17, <1>18, <1>19, <1>20
  DEF IOThreadStep, HandlerStep

(* The registry binds services under their own serials.                     *)
LEMMA StepKeepsRegistry ==
  ASSUME ServiceTypeOK, PoolConserved, ThreadInv, HandlerInv, RegistryInv,
         NEW t \in IOThread, NEW s \in Service, IOThreadStep(t, s)
  PROVE  RegistryInv'
<1> USE IDMapAssumption, SerialFacts
    DEF ServiceTypeOK, IDMapTypeOK, ThreadInv, HandlerInv, Handles, EarlyLabels, ExpiryLabels,
        CloseLabels, GivenUpLabels, RegistryInv
<1>1. CASE Accept(t, s)
  BY <1>1 DEF Accept, Start, idMapVars
<1>2. CASE OpenStreams(t, s)
  <2>1. CASE Delete(s) /\ Finish(t) /\ UNCHANGED <<m_pTimerLock, m_bServiceCloseFlag>>
    BY <1>2, <2>1 DEF OpenStreams, Stands, Delete, Finish, idMapVars
  <2>2. CASE /\ m_pTimerLock' = [m_pTimerLock EXCEPT ![s] = FALSE]
             /\ m_bServiceCloseFlag' = [m_bServiceCloseFlag EXCEPT ![s] = FALSE]
             /\ Goto(t, "limit")
             /\ UNCHANGED <<object, g_currentSessionCnt>>
    BY <1>2, <2>2 DEF OpenStreams, Stands, Goto, idMapVars
  <2> QED BY <1>2, <2>1, <2>2 DEF OpenStreams
<1>3. CASE CheckLimit(t, s)
  BY <1>3 DEF CheckLimit, Stands, Goto, sessionVars, idMapVars
<1>4. CASE Reject(t, s)
  BY <1>4 DEF Reject, Stands, Delete, Finish, idMapVars
<1>5. CASE RegisterService(t, s)
  <2>1. PICK id \in Serial \cup {INVALID_ID} :
          /\ Register(s, id)
          /\ m_serial' = [m_serial EXCEPT ![s] = id]
          /\ Goto(t, IF id = INVALID_ID THEN "reject" ELSE "timer")
    BY <1>5 DEF RegisterService
  <2>2. /\ Stands(t, s, "register") /\ LockFree
        /\ UNCHANGED <<object, disconnecting>>
    BY <1>5 DEF RegisterService
  <2>3. PoolInv
    BY DEF PoolInv
  <2>6. /\ m_serial[s] = INVALID_ID /\ \A x \in Serial : m_IDMap[x] # s
        /\ \A u \in IOThread : at[u] = s => u = t
    BY <2>2 DEF Stands
  <2> HIDE DEF ThreadInv, HandlerInv
  <2>4. CASE id = INVALID_ID /\ UNCHANGED m_IDMap
    <3>1. UNCHANGED m_serial /\ pc' = [pc EXCEPT ![t] = "reject"] /\ UNCHANGED at
      BY <2>1, <2>4, <2>6 DEF Goto
    <3> QED BY <2>2, <2>4, <2>6, <3>1 DEF Stands, LockFree
  <2>5. CASE id \in Serial /\ m_IDMap[id] = NoService /\ m_IDMap' = [m_IDMap EXCEPT ![id] = s]
    <3>1. pc' = [pc EXCEPT ![t] = "timer"] /\ UNCHANGED at
      BY <2>1, <2>5 DEF Goto
    <3> QED BY <2>1, <2>2, <2>5, <2>6, <3>1 DEF Stands, LockFree
  <2> QED BY <2>1, <2>3, <2>4, <2>5, RegisterEffect
<1>6. CASE RegisterTimer(t, s)
  BY <1>6 DEF RegisterTimer, Stands, Goto, idMapVars
<1>7. CASE CreateSessionService(t, s)
  BY <1>7 DEF CreateSessionService, Stands, Goto, idMapVars
<1>8. CASE OnConnect(t, s)
  BY <1>8 DEF OnConnect, Stands, Goto, sessionVars, idMapVars
<1>9. CASE PostRecv(t, s)
  <2>1. CASE TRUE \in HandleReadFrom(s) /\ read' = [read EXCEPT ![s] = TRUE] /\ Finish(t)
    BY <1>9, <2>1 DEF PostRecv, Stands, Finish, idMapVars
  <2>2. CASE Goto(t, "unregister") /\ UNCHANGED read
    BY <1>9, <2>2 DEF PostRecv, Stands, Goto, idMapVars
  <2> QED BY <1>9, <2>1, <2>2 DEF PostRecv
<1>10. CASE ReadCompletes(t, s)
  <2>1. CASE Start(t, s, "receive")
    BY <1>10, <2>1 DEF ReadCompletes, Start, idMapVars
  <2>2. CASE Start(t, s, "unregister")
    BY <1>10, <2>2 DEF ReadCompletes, Start, idMapVars
  <2> QED BY <1>10, <2>1, <2>2 DEF ReadCompletes
<1>11. CASE OnReceive(t, s)
  <2>1. CASE UNCHANGED <<pc, at>>
    BY <1>11, <2>1 DEF OnReceive, Stands, sessionVars, idMapVars
  <2>2. CASE Goto(t, "recv")
    BY <1>11, <2>2 DEF OnReceive, Stands, Goto, sessionVars, idMapVars
  <2>3. CASE Goto(t, "unregister")
    BY <1>11, <2>3 DEF OnReceive, Stands, Goto, sessionVars, idMapVars
  <2> QED BY <1>11, <2>1, <2>2, <2>3 DEF OnReceive
<1>12. CASE UnregisterService(t, s)
  <2>1. PICK id \in SerialReadFrom(s) : UnRegister(id)
    BY <1>12 DEF UnregisterService
  <2>2. \A x \in Serial : m_IDMap'[x] = IF x = id THEN NoService ELSE m_IDMap[x]
    BY <2>1, UnRegisterEffect
  <2>3. object[s] = "alive" => id = m_serial[s]
    BY DEF SerialReadFrom
  <2> HIDE DEF HandlerInv
  <2> QED BY <1>12, <2>2, <2>3 DEF UnregisterService, Stands, Goto, LockFree, sessionVars
<1>13. CASE CloseSocket(t, s)
  BY <1>13 DEF CloseSocket, Stands, Goto, idMapVars
<1>14. CASE InvalidateHandle(t, s)
  BY <1>14 DEF InvalidateHandle, Stands, Goto, idMapVars
<1>15. CASE OnDisconnect(t, s)
  BY <1>15 DEF OnDisconnect, Stands, Goto, sessionVars, idMapVars
<1>16. CASE DeleteSessionService(t, s)
  BY <1>16 DEF DeleteSessionService, Stands, Goto, idMapVars
<1>17. CASE SetCloseFlag(t, s)
  BY <1>17 DEF SetCloseFlag, Stands, Finish, idMapVars
<1>18. CASE TimerExpires(t, s)
  BY <1>18 DEF TimerExpires, Start, sessionVars, idMapVars
<1>19. CASE CheckClosed(t, s)
  <2>1. CASE /\ m_bServiceCloseFlag[s] /\ m_pTimerLock' = [m_pTimerLock EXCEPT ![s] = TRUE]
             /\ Goto(t, "delete")
    BY <1>19, <2>1 DEF CheckClosed, Stands, Goto, idMapVars
  <2>2. CASE UNCHANGED m_pTimerLock /\ Finish(t)
    BY <1>19, <2>2 DEF CheckClosed, Stands, Finish, idMapVars
  <2> QED BY <1>19, <2>1, <2>2 DEF CheckClosed
<1>20. CASE DeleteService(t, s)
  BY <1>20 DEF DeleteService, Stands, Delete, Finish, idMapVars
<1> QED
  BY <1>1, <1>2, <1>3, <1>4, <1>5, <1>6, <1>7, <1>8, <1>9, <1>10, <1>11, <1>12, <1>13, <1>14,
     <1>15, <1>16, <1>17, <1>18, <1>19, <1>20
  DEF IOThreadStep, HandlerStep

(* Disconnect holds no service that open has not registered or whose        *)
(* handler has given the serial up.                                         *)
LEMMA DisconnectElsewhere ==
  ASSUME ServiceTypeOK, ThreadInv, RegistryInv
  PROVE  /\ \A u \in IOThread : pc[u] \in {"open", "reject"} => disconnecting # at[u]
         /\ \A u \in IOThread : pc[u] = "closesocket" /\ object[at[u]] = "alive"
              => disconnecting # at[u]
         /\ \A x \in Service : object[x] = "unborn" => disconnecting # x
<1>1. disconnecting # NoService =>
        \E id \in Serial : m_IDMap[id] = disconnecting /\ m_serial[disconnecting] = id
  BY DEF RegistryInv, ServiceTypeOK
<1>2. m_serial[disconnecting] = INVALID_ID => disconnecting = NoService
  BY <1>1, SerialFacts
<1>3. \A x \in Service : object[x] = "unborn" => disconnecting # x
  BY <1>2, IDMapAssumption DEF ThreadInv
<1>4. \A u \in IOThread : pc[u] # "idle" => at[u] \in Service
  BY DEF ThreadInv, ServiceTypeOK
<1>5. \A u \in IOThread : pc[u] \in {"open", "reject"} => disconnecting # at[u]
  BY <1>2, <1>4, IDMapAssumption DEF RegistryInv, EarlyLabels
<1>6. \A u \in IOThread : pc[u] = "closesocket" /\ object[at[u]] = "alive"
         => disconnecting # at[u]
  BY <1>1, <1>4, IDMapAssumption DEF RegistryInv, GivenUpLabels, CloseLabels
<1> QED BY <1>3, <1>5, <1>6

(* A handler that comes to close a socket finds nobody else closing it.     *)
LEMMA CloserIsFirst ==
  ASSUME ServiceTypeOK, ThreadInv, HandlerInv, RegistryInv, NEW t \in IOThread,
         pc[t] \in {"reject", "closesocket"}, object[at[t]] = "alive"
  PROVE  ~CloseSeen(at[t])
<1>1. disconnecting # at[t]
  BY DisconnectElsewhere
<1>2. at[t] \in Service
  BY DEF ThreadInv, ServiceTypeOK
<1>3. Handles(t, at[t])
  BY DEF Handles, ExpiryLabels
<1>4. ASSUME NEW u \in IOThread, Stands(u, at[t], "invalidate") PROVE FALSE
  <2>1. Handles(u, at[t])
    BY <1>4 DEF Stands, Handles, ExpiryLabels
  <2>2. u = t
    BY <1>2, <1>3, <2>1 DEF HandlerInv
  <2> QED BY <1>4, <2>2 DEF Stands
<1> QED BY <1>1, <1>4 DEF CloseSeen

(* So does Disconnect: the handler of a registered service has not come to  *)
(* its closesocket.                                                         *)
LEMMA BoundIsOpen ==
  ASSUME ServiceTypeOK, ThreadInv, RegistryInv, LockFree,
         NEW id \in Serial, NEW d \in Service, d = m_IDMap[id]
  PROVE  object[d] # "unborn" /\ (object[d] = "alive" => ~CloseSeen(d))
<1>1. object[d] # "unborn"
  BY SerialFacts, IDMapAssumption DEF RegistryInv, ThreadInv
<1>2. ASSUME object[d] = "alive", NEW u \in IOThread, at[u] = d PROVE pc[u] # "invalidate"
  BY <1>2 DEF RegistryInv, GivenUpLabels, CloseLabels
<1> QED BY <1>1, <1>2, IDMapAssumption DEF CloseSeen, Stands, LockFree

(* Sockets are closed once.                                                 *)
LEMMA StepKeepsSockets ==
  ASSUME ServiceTypeOK, ThreadInv, HandlerInv, RegistryInv, SocketInv,
         NEW t \in IOThread, NEW s \in Service, IOThreadStep(t, s)
  PROVE  SocketInv'
<1>d. /\ \A u \in IOThread : pc[u] \in {"open", "reject"} => disconnecting # at[u]
      /\ \A u \in IOThread : pc[u] = "closesocket" /\ object[at[u]] = "alive"
           => disconnecting # at[u]
      /\ \A x \in Service : object[x] = "unborn" => disconnecting # x
  BY DisconnectElsewhere
<1> USE IDMapAssumption, SerialFacts
    DEF ServiceTypeOK, ThreadInv, HandlerInv, Handles, EarlyLabels, ExpiryLabels,
        CloseLabels, GivenUpLabels, SocketInv, CloseSeen, Stands
<1>1. CASE Accept(t, s)
  BY <1>1, <1>d DEF Accept, Start
<1>2. CASE OpenStreams(t, s)
  <2>1. CASE Delete(s) /\ Finish(t) /\ UNCHANGED <<m_pTimerLock, m_bServiceCloseFlag>>
    BY <1>2, <2>1, <1>d DEF OpenStreams, Stands, Delete, Finish
  <2>2. CASE /\ m_pTimerLock' = [m_pTimerLock EXCEPT ![s] = FALSE]
             /\ m_bServiceCloseFlag' = [m_bServiceCloseFlag EXCEPT ![s] = FALSE]
             /\ Goto(t, "limit")
             /\ UNCHANGED <<object, g_currentSessionCnt>>
    BY <1>2, <2>2, <1>d DEF OpenStreams, Stands, Goto
  <2> QED BY <1>2, <2>1, <2>2 DEF OpenStreams
<1>3. CASE CheckLimit(t, s)
  BY <1>3 DEF CheckLimit, Stands, Goto, sessionVars
<1>4. CASE Reject(t, s)
  <2>1. /\ at[t] = s /\ pc[t] = "reject"
        /\ object' = [object EXCEPT ![s] = "deleted"] /\ handle' = [handle EXCEPT ![s] = FALSE]
        /\ pc' = [pc EXCEPT ![t] = "idle"] /\ at' = [at EXCEPT ![t] = NoService]
        /\ UNCHANGED <<disconnecting, m_bServiceCloseFlag>>
    BY <1>4 DEF Reject, Delete, Finish
  <2>2. \A x \in Service \ {s} : closeCalls'[x] = closeCalls[x]
    BY <1>4, CloseEffect DEF Reject
  <2> QED BY <2>1, <2>2
<1>5. CASE RegisterService(t, s)
  BY <1>5 DEF RegisterService, Stands, Goto
<1>6. CASE RegisterTimer(t, s)
  BY <1>6 DEF RegisterTimer, Stands, Goto
<1>7. CASE CreateSessionService(t, s)
  BY <1>7 DEF CreateSessionService, Stands, Goto
<1>8. CASE OnConnect(t, s)
  BY <1>8 DEF OnConnect, Stands, Goto, sessionVars
<1>9. CASE PostRecv(t, s)
  <2>1. CASE TRUE \in HandleReadFrom(s) /\ read' = [read EXCEPT ![s] = TRUE] /\ Finish(t)
    BY <1>9, <2>1 DEF PostRecv, Stands, Finish
  <2>2. CASE Goto(t, "unregister") /\ UNCHANGED read
    BY <1>9, <2>2 DEF PostRecv, Stands, Goto
  <2> QED BY <1>9, <2>1, <2>2 DEF PostRecv
<1>10. CASE ReadCompletes(t, s)
  <2>1. CASE Start(t, s, "receive")
    BY <1>10, <2>1 DEF ReadCompletes, Start
  <2>2. CASE Start(t, s, "unregister")
    BY <1>10, <2>2 DEF ReadCompletes, Start
  <2> QED BY <1>10, <2>1, <2>2 DEF ReadCompletes
<1>11. CASE OnReceive(t, s)
  <2>1. CASE UNCHANGED <<pc, at>>
    BY <1>11, <2>1 DEF OnReceive, Stands, sessionVars
  <2>2. CASE Goto(t, "recv")
    BY <1>11, <2>2 DEF OnReceive, Stands, Goto, sessionVars
  <2>3. CASE Goto(t, "unregister")
    BY <1>11, <2>3 DEF OnReceive, Stands, Goto, sessionVars
  <2> QED BY <1>11, <2>1, <2>2, <2>3 DEF OnReceive
<1>12. CASE UnregisterService(t, s)
  BY <1>12 DEF UnregisterService, Stands, Goto, sessionVars
<1>13. CASE CloseSocket(t, s)
  <2>1. /\ at[t] = s /\ pc[t] = "closesocket" /\ UNCHANGED <<at, object, handle, disconnecting, m_bServiceCloseFlag>>
        /\ pc' = [pc EXCEPT ![t] = "invalidate"]
    BY <1>13 DEF CloseSocket, Goto
  <2>2. \A u \in IOThread : at[u] = s /\ pc[u] = "invalidate" => u = t
    <3> HIDE DEF SocketInv, ThreadInv
    <3> QED BY <2>1
  <2>3. CloseSeen(s)' /\ \A x \in Service \ {s} : CloseSeen(x)' = CloseSeen(x)
    BY <2>1
  <2>4. object[s] = "alive" => ~CloseSeen(s)
    BY <1>d, <2>1, <2>2
  <2>5. PICK h \in HandleReadFrom(s) : CloseIfOpen(s, h)
    BY <1>13 DEF CloseSocket
  <2>6. h \in BOOLEAN /\ (object[s] = "alive" => h = handle[s])
    BY DEF HandleReadFrom
  <2>7. /\ \A x \in Service \ {s} : closeCalls'[x] = closeCalls[x]
        /\ ~h => closeCalls'[s] = closeCalls[s]
        /\ h /\ closeCalls[s] = 0 => closeCalls'[s] = 1
    BY <2>5, <2>6, CloseEffect
  <2>8. object[s] # "unborn"
    BY <2>1
  <2>9. object[s] = "alive" => closeCalls'[s] = 1
    BY <2>4, <2>6, <2>7
  <2>10. /\ \A u \in IOThread : u # t => pc'[u] = pc[u]
         /\ pc'[t] = "invalidate"
    BY <2>1
  <2> HIDE DEF CloseSeen, HandlerInv, ThreadInv
  <2>11. ASSUME NEW x \in Service
         PROVE  /\ object[x] = "unborn" => closeCalls'[x] = 0
                /\ object[x] = "alive" =>
                     closeCalls'[x] = IF handle[x] /\ ~CloseSeen(x)' THEN 0 ELSE 1
    BY <2>3, <2>7, <2>8, <2>9
  <2> QED BY <2>1, <2>10, <2>11
<1>14. CASE InvalidateHandle(t, s)
  BY <1>14 DEF InvalidateHandle, Stands, Goto
<1>15. CASE OnDisconnect(t, s)
  BY <1>15 DEF OnDisconnect, Stands, Goto, sessionVars
<1>16. CASE DeleteSessionService(t, s)
  BY <1>16 DEF DeleteSessionService, Stands, Goto
<1>17. CASE SetCloseFlag(t, s)
  BY <1>17 DEF SetCloseFlag, Stands, Finish
<1>18. CASE TimerExpires(t, s)
  BY <1>18 DEF TimerExpires, Start, sessionVars
<1>19. CASE CheckClosed(t, s)
  <2>1. CASE /\ m_bServiceCloseFlag[s] /\ m_pTimerLock' = [m_pTimerLock EXCEPT ![s] = TRUE]
             /\ Goto(t, "delete")
    BY <1>19, <2>1 DEF CheckClosed, Stands, Goto
  <2>2. CASE UNCHANGED m_pTimerLock /\ Finish(t)
    BY <1>19, <2>2 DEF CheckClosed, Stands, Finish
  <2> QED BY <1>19, <2>1, <2>2 DEF CheckClosed
<1>20. CASE DeleteService(t, s)
  BY <1>20 DEF DeleteService, Stands, Delete, Finish
<1> QED
  BY <1>1, <1>2, <1>3, <1>4, <1>5, <1>6, <1>7, <1>8, <1>9, <1>10, <1>11, <1>12, <1>13, <1>14,
     <1>15, <1>16, <1>17, <1>18, <1>19, <1>20
  DEF IOThreadStep, HandlerStep

(* What Dispatch adds to what the logic has been told.                      *)
LEMMA DispatchTells ==
  ASSUME logicGateway \in Seq(Packet), NEW s \in Service, NEW id \in Serial \cup {INVALID_ID},
         NEW type \in {"CONNECT", "DATA", "DISCONNECT"}, Dispatch(type, id, s)
  PROVE  /\ \A x \in Service : Told(x)' <=> Told(x) \/ x = s
         /\ \A x \in Service : ToldEnd(x)' <=> ToldEnd(x) \/ (x = s /\ type = "DISCONNECT")
         /\ SessionProtocol /\ (type = "CONNECT" <=> ~Told(s)) /\ ~ToldEnd(s) => SessionProtocol'
<1> DEFINE n == Len(logicGateway)
           p == [type |-> type, serial |-> id, from |-> s]
<1>1. /\ n \in Nat /\ DOMAIN logicGateway = 1..n /\ DOMAIN logicGateway' = 1..(n + 1)
      /\ \A i \in 1..n : logicGateway'[i] = logicGateway[i]
      /\ logicGateway'[n + 1] = p
  <2>1. p \in Packet /\ logicGateway' = Append(logicGateway, p)
    BY DEF Packet, Dispatch
  <2> HIDE DEF p
  <2> QED BY <2>1
<1>2. p.type = type /\ p.from = s
  OBVIOUS
<1>3. 1..(n + 1) = 1..n \cup {n + 1}
  BY <1>1
<1> HIDE DEF n, p
<1>4. \A x \in Service : Told(x)' <=> Told(x) \/ x = s
  BY <1>1, <1>2, <1>3 DEF Told
<1>5. \A x \in Service : ToldEnd(x)' <=> ToldEnd(x) \/ (x = s /\ type = "DISCONNECT")
  BY <1>1, <1>2, <1>3 DEF ToldEnd
<1>6. ASSUME SessionProtocol, type = "CONNECT" <=> ~Told(s), ~ToldEnd(s) PROVE SessionProtocol'
  <2> SUFFICES ASSUME NEW i \in DOMAIN logicGateway'
               PROVE  /\ logicGateway'[i].type = "CONNECT"
                           <=> \A j \in 1..(i - 1) : logicGateway'[j].from # logicGateway'[i].from
                      /\ logicGateway'[i].type = "DISCONNECT"
                           => \A j \in DOMAIN logicGateway' :
                                j > i => logicGateway'[j].from # logicGateway'[i].from
    BY DEF SessionProtocol
  <2>1. CASE i \in 1..n
    <3>1. /\ logicGateway'[i] = logicGateway[i]
          /\ \A j \in 1..(i - 1) : logicGateway'[j] = logicGateway[j]
      BY <1>1, <2>1
    <3>2. logicGateway[i].type = "DISCONNECT" => logicGateway[i].from # s
      BY <1>1, <1>6, <2>1 DEF ToldEnd
    <3>3. \A j \in DOMAIN logicGateway' : logicGateway'[j] = logicGateway[j] \/ logicGateway'[j].from = s
      BY <1>1, <1>2, <1>3
    <3>4. \A j \in DOMAIN logicGateway' : j \in DOMAIN logicGateway \/ logicGateway'[j].from = s
      BY <1>1, <1>2, <1>3
    <3>5. /\ logicGateway[i].type = "CONNECT"
               <=> \A j \in 1..(i - 1) : logicGateway[j].from # logicGateway[i].from
          /\ logicGateway[i].type = "DISCONNECT"
               => \A j \in DOMAIN logicGateway : j > i => logicGateway[j].from # logicGateway[i].from
      BY <1>1, <1>6, <2>1 DEF SessionProtocol
    <3> QED BY <3>1, <3>2, <3>3, <3>4, <3>5
  <2>2. CASE i = n + 1
    <3>1. 1..(i - 1) = DOMAIN logicGateway /\ \A j \in DOMAIN logicGateway' : ~(j > i)
      BY <1>1, <2>2
    <3>2. Told(s) <=> ~ \A j \in 1..(i - 1) : logicGateway'[j].from # s
      BY <1>1, <3>1 DEF Told
    <3> QED BY <1>1, <1>2, <1>6, <2>2, <3>1, <3>2
  <2> QED BY <1>1, <1>3, <2>1, <2>2
<1> QED BY <1>4, <1>5, <1>6

(* CONNECT first, DISCONNECT last.                                          *)
LEMMA StepKeepsPackets ==
  ASSUME ServiceTypeOK, ThreadInv, HandlerInv, PacketInv,
         NEW t \in IOThread, NEW s \in Service, IOThreadStep(t, s)
  PROVE  PacketInv'
<1>u. ASSUME UNCHANGED logicGateway
      PROVE  SessionProtocol' /\ \A x \in Service : (Told(x)' <=> Told(x)) /\ (ToldEnd(x)' <=> ToldEnd(x))
  BY <1>u DEF SessionProtocol, Told, ToldEnd, PacketInv
<1>d. ASSUME NEW type \in {"CONNECT", "DATA", "DISCONNECT"}, \E id \in SerialReadFrom(s) : Dispatch(type, id, s)
      PROVE  /\ \A x \in Service : Told(x)' <=> Told(x) \/ x = s
             /\ \A x \in Service : ToldEnd(x)' <=> ToldEnd(x) \/ (x = s /\ type = "DISCONNECT")
             /\ (type = "CONNECT" <=> ~Told(s)) /\ ~ToldEnd(s) => SessionProtocol'
  <2>1. SerialReadFrom(s) \subseteq Serial \cup {INVALID_ID}
    BY DEF SerialReadFrom, ServiceTypeOK
  <2> QED BY <1>d, <2>1, DispatchTells DEF PacketInv, ServiceTypeOK
<1>e. \A x \in Service : ToldEnd(x) => Told(x)
  BY DEF Told, ToldEnd
<1> USE IDMapAssumption
    DEF ServiceTypeOK, ThreadInv, HandlerInv, Handles, EarlyLabels, ExpiryLabels,
        SilentLabels, OpenedLabels, PacketInv
<1>1. CASE Accept(t, s)
  BY <1>1, <1>u DEF Accept, Start
<1>2. CASE OpenStreams(t, s)
  <2>1. CASE Delete(s) /\ Finish(t) /\ UNCHANGED <<m_pTimerLock, m_bServiceCloseFlag>>
    BY <1>2, <2>1, <1>u DEF OpenStreams, Stands, Delete, Finish
  <2>2. CASE /\ m_pTimerLock' = [m_pTimerLock EXCEPT ![s] = FALSE]
             /\ m_bServiceCloseFlag' = [m_bServiceCloseFlag EXCEPT ![s] = FALSE]
             /\ Goto(t, "limit")
             /\ UNCHANGED <<object, g_currentSessionCnt>>
    BY <1>2, <2>2, <1>u DEF OpenStreams, Stands, Goto
  <2> QED BY <1>2, <2>1, <2>2 DEF OpenStreams
<1>3. CASE CheckLimit(t, s)
  BY <1>3, <1>u DEF CheckLimit, Stands, Goto, sessionVars
<1>4. CASE Reject(t, s)
  BY <1>4, <1>u DEF Reject, Stands, Delete, Finish
<1>5. CASE RegisterService(t, s)
  BY <1>5, <1>u DEF RegisterService, Stands, Goto
<1>6. CASE RegisterTimer(t, s)
  BY <1>6, <1>u DEF RegisterTimer, Stands, Goto
<1>7. CASE CreateSessionService(t, s)
  BY <1>7, <1>u DEF CreateSessionService, Stands, Goto
<1>8. CASE OnConnect(t, s)
  <2>1. /\ at[t] = s /\ pc[t] = "connect" /\ pc' = [pc EXCEPT ![t] = "recv"]
        /\ UNCHANGED <<at, object, read>>
    BY <1>8 DEF OnConnect, Stands, Goto, sessionVars
  <2>2. ~Told(s) /\ ~ToldEnd(s)
    BY <1>e, <2>1
  <2>3. /\ SessionProtocol' /\ \A x \in Service : Told(x)' <=> Told(x) \/ x = s
        /\ \A x \in Service : ToldEnd(x)' <=> ToldEnd(x)
    BY <1>8, <1>d, <2>2 DEF OnConnect
  <2>4. /\ object[s] # "unborn" /\ ~read[s]
        /\ \A u \in IOThread : at[u] = s /\ pc[u] \notin ExpiryLabels => u = t
    <3> HIDE DEF PacketInv
    <3>1. object[s] # "unborn"
      BY <2>1
    <3> HIDE DEF ThreadInv
    <3> QED BY <2>1, <3>1
  <2> HIDE DEF ThreadInv, HandlerInv
  <2>5. \A u \in IOThread : pc[u] # "idle" => at[u] \in Service
    BY DEF ThreadInv
  <2>6. \A u \in IOThread : pc'[u] = (IF u = t THEN "recv" ELSE pc[u]) /\ at'[u] = at[u]
    BY <2>1
  <2>7. \A u \in IOThread : u # t /\ pc[u] \in SilentLabels \cup OpenedLabels => at[u] \in Service \ {s}
    BY <2>4, <2>5
  <2>8. \A x \in Service : object'[x] = object[x] /\ read'[x] = read[x]
    BY <2>1
  <2> HIDE DEF ServiceTypeOK
  <2> QED BY <2>1, <2>2, <2>3, <2>4, <2>6, <2>7, <2>8
<1>9. CASE PostRecv(t, s)
  <2>1. CASE TRUE \in HandleReadFrom(s) /\ read' = [read EXCEPT ![s] = TRUE] /\ Finish(t)
    BY <1>9, <2>1, <1>u DEF PostRecv, Stands, Finish
  <2>2. CASE Goto(t, "unregister") /\ UNCHANGED read
    BY <1>9, <2>2, <1>u DEF PostRecv, Stands, Goto
  <2> QED BY <1>9, <2>1, <2>2 DEF PostRecv
<1>10. CASE ReadCompletes(t, s)
  <2>1. CASE Start(t, s, "receive")
    BY <1>10, <2>1, <1>u DEF ReadCompletes, Start
  <2>2. CASE Start(t, s, "unregister")
    BY <1>10, <2>2, <1>u DEF ReadCompletes, Start
  <2> QED BY <1>10, <2>1, <2>2 DEF ReadCompletes
<1>11. CASE OnReceive(t, s)
  <2>1. CASE UNCHANGED <<pc, at>> /\ \E id \in SerialReadFrom(s) : Dispatch("DATA", id, s)
    <3>1. at[t] = s /\ pc[t] = "receive" /\ UNCHANGED <<object, read>>
      BY <1>11 DEF OnReceive, Stands, sessionVars
    <3>2. Told(s) /\ ~ToldEnd(s)
      BY <3>1
    <3>3. /\ SessionProtocol' /\ \A x \in Service : Told(x)' <=> Told(x)
          /\ \A x \in Service : ToldEnd(x)' <=> ToldEnd(x)
      BY <1>d, <2>1, <3>2
    <3> QED BY <2>1, <3>1, <3>2, <3>3
  <2>2. CASE Goto(t, "recv") /\ UNCHANGED logicGateway
    BY <1>11, <1>u, <2>2 DEF OnReceive, Stands, Goto, sessionVars
  <2>3. CASE Goto(t, "unregister") /\ UNCHANGED logicGateway
    BY <1>11, <1>u, <2>3 DEF OnReceive, Stands, Goto, sessionVars
  <2> QED BY <1>11, <2>1, <2>2, <2>3 DEF OnReceive
<1>12. CASE UnregisterService(t, s)
  BY <1>12, <1>u DEF UnregisterService, Stands, Goto, sessionVars
<1>13. CASE CloseSocket(t, s)
  BY <1>13, <1>u DEF CloseSocket, Stands, Goto
<1>14. CASE InvalidateHandle(t, s)
  BY <1>14, <1>u DEF InvalidateHandle, Stands, Goto
<1>15. CASE OnDisconnect(t, s)
  <2>1. /\ at[t] = s /\ pc[t] = "disconnect" /\ pc' = [pc EXCEPT ![t] = "delservice"]
        /\ UNCHANGED <<at, object, read>>
    BY <1>15 DEF OnDisconnect, Stands, Goto, sessionVars
  <2>2. Told(s) /\ ~ToldEnd(s)
    BY <2>1
  <2>3. /\ SessionProtocol' /\ \A x \in Service : Told(x)' <=> Told(x)
        /\ \A x \in Service : ToldEnd(x)' <=> ToldEnd(x) \/ x = s
    BY <1>15, <1>d, <2>2 DEF OnDisconnect
  <2>4. /\ object[s] # "unborn" /\ ~read[s]
        /\ \A u \in IOThread : at[u] = s /\ pc[u] \notin ExpiryLabels => u = t
    <3> HIDE DEF PacketInv
    <3>1. object[s] # "unborn"
      BY <2>1
    <3> HIDE DEF ThreadInv
    <3> QED BY <2>1, <3>1
  <2> HIDE DEF ThreadInv, HandlerInv
  <2>5. \A u \in IOThread : pc[u] # "idle" => at[u] \in Service
    BY DEF ThreadInv
  <2>6. \A u \in IOThread : pc'[u] = (IF u = t THEN "delservice" ELSE pc[u]) /\ at'[u] = at[u]
    BY <2>1
  <2>7. \A u \in IOThread : u # t /\ pc[u] \in SilentLabels \cup OpenedLabels => at[u] \in Service \ {s}
    BY <2>4, <2>5
  <2>8. \A x \in Service : object'[x] = object[x] /\ read'[x] = read[x]
    BY <2>1
  <2> HIDE DEF ServiceTypeOK
  <2> QED BY <2>1, <2>2, <2>3, <2>4, <2>6, <2>7, <2>8
<1>16. CASE DeleteSessionService(t, s)
  BY <1>16, <1>u DEF DeleteSessionService, Stands, Goto
<1>17. CASE SetCloseFlag(t, s)
  BY <1>17, <1>u DEF SetCloseFlag, Stands, Finish
<1>18. CASE TimerExpires(t, s)
  BY <1>18, <1>u DEF TimerExpires, Start, sessionVars
<1>19. CASE CheckClosed(t, s)
  <2>1. CASE /\ m_bServiceCloseFlag[s] /\ m_pTimerLock' = [m_pTimerLock EXCEPT ![s] = TRUE]
             /\ Goto(t, "delete")
    BY <1>19, <2>1, <1>u DEF CheckClosed, Stands, Goto
  <2>2. CASE UNCHANGED m_pTimerLock /\ Finish(t)
    BY <1>19, <2>2, <1>u DEF CheckClosed, Stands, Finish
  <2> QED BY <1>19, <2>1, <2>2 DEF CheckClosed
<1>20. CASE DeleteService(t, s)
  BY <1>20, <1>u DEF DeleteService, Stands, Delete, Finish
<1> QED
  BY <1>1, <1>2, <1>3, <1>4, <1>5, <1>6, <1>7, <1>8, <1>9, <1>10, <1>11, <1>12, <1>13, <1>14,
     <1>15, <1>16, <1>17, <1>18, <1>19, <1>20
  DEF IOThreadStep, HandlerStep

(* Without Disconnect, whoever works for a service finds it alive and       *)
(* registered until it gives its serial up.                                 *)
LEMMA StepKeepsLife ==
  ASSUME ServiceTypeOK, PoolConserved, ThreadInv, HandlerInv, RegistryInv, SocketInv, LifeInv,
         NEW t \in IOThread, NEW s \in Service, IOThreadStep(t, s)
  PROVE  LifeInv'
<1>n. /\ \A x \in Service : object[x] = "unborn" => ~m_bServiceCloseFlag[x]
      /\ \A u \in IOThread : pc[u] = "delete" => m_bServiceCloseFlag[at[u]]
  BY DEF SocketInv
<1>r. /\ \A u \in IOThread : pc[u] \in {"open", "limit", "reject", "register"} =>
           m_serial[at[u]] = INVALID_ID /\ \A id \in Serial : m_IDMap[id] # at[u]
      /\ \A u \in IOThread : pc[u] \in GivenUpLabels /\ object[at[u]] = "alive" =>
           \A id \in Serial : m_IDMap[id] # at[u]
      /\ \A x \in Service, id \in Serial : m_IDMap[id] = x => m_serial[x] = id
  BY SerialFacts, IDMapAssumption DEF RegistryInv, EarlyLabels, ServiceTypeOK, IDMapTypeOK, ThreadInv
<1> USE IDMapAssumption, SerialFacts
    DEF ServiceTypeOK, IDMapTypeOK, ThreadInv, HandlerInv, Handles, EarlyLabels, ExpiryLabels,
        CloseLabels, GivenUpLabels, BoundLabels, LifeInv, LockFree, NoUseAfterFree, RegistryPointsToLive, ClosedInv, BoundInv
<1>1. CASE Accept(t, s)
  BY <1>1, <1>n, <1>r DEF Accept, Start, idMapVars
<1>2. CASE OpenStreams(t, s)
  <2>1. CASE Delete(s) /\ Finish(t) /\ UNCHANGED <<m_pTimerLock, m_bServiceCloseFlag>>
    BY <1>2, <2>1, <1>n, <1>r DEF OpenStreams, Stands, Delete, Finish, idMapVars
  <2>2. CASE /\ m_pTimerLock' = [m_pTimerLock EXCEPT ![s] = FALSE]
             /\ m_bServiceCloseFlag' = [m_bServiceCloseFlag EXCEPT ![s] = FALSE]
             /\ Goto(t, "limit")
             /\ UNCHANGED <<object, g_currentSessionCnt>>
    BY <1>2, <2>2, <1>n, <1>r DEF OpenStreams, Stands, Goto, idMapVars
  <2> QED BY <1>2, <2>1, <2>2 DEF OpenStreams
<1>3. CASE CheckLimit(t, s)
  BY <1>3 DEF CheckLimit, Stands, Goto, sessionVars, idMapVars
<1>4. CASE Reject(t, s)
  BY <1>4, <1>n, <1>r DEF Reject, Stands, Delete, Finish, idMapVars
<1>5. CASE RegisterService(t, s)
  <2>1. PICK id \in Serial \cup {INVALID_ID} :
          /\ Register(s, id)
          /\ m_serial' = [m_serial EXCEPT ![s] = id]
          /\ Goto(t, IF id = INVALID_ID THEN "reject" ELSE "timer")
    BY <1>5 DEF RegisterService
  <2>2. /\ at[t] = s /\ pc[t] = "register"
        /\ UNCHANGED <<object, disconnecting, read, m_bServiceCloseFlag>>
    BY <1>5 DEF RegisterService, Stands
  <2>3. PoolInv
    BY DEF PoolInv
  <2>6. /\ m_serial[s] = INVALID_ID /\ \A x \in Serial : m_IDMap[x] # s
        /\ \A u \in IOThread : at[u] = s => u = t
    BY <1>r, <2>2
  <2>7. object[s] = "alive" /\ ~m_bServiceCloseFlag[s] /\ ~read[s]
    <3>1. ~read[s]
      <4> HIDE DEF ThreadInv, LifeInv
      <4> QED BY <2>2
    <3> HIDE DEF ThreadInv, HandlerInv
    <3> QED BY <2>2, <3>1
  <2>8. LockFree' /\ NoUseAfterFree'
    BY <2>1, <2>2 DEF Goto
  <2> HIDE DEF ThreadInv, HandlerInv, LifeInv, NoUseAfterFree, RegistryPointsToLive, ClosedInv, BoundInv
  <2>4. CASE id = INVALID_ID /\ UNCHANGED m_IDMap
    <3>1. UNCHANGED m_serial /\ pc' = [pc EXCEPT ![t] = "reject"] /\ UNCHANGED at
      BY <2>1, <2>4, <2>6 DEF Goto
    <3> QED BY <2>2, <2>4, <2>6, <2>7, <2>8, <3>1 DEF LifeInv, RegistryPointsToLive, ClosedInv, BoundInv
  <2>5. CASE id \in Serial /\ m_IDMap[id] = NoService /\ m_IDMap' = [m_IDMap EXCEPT ![id] = s]
    <3>1. pc' = [pc EXCEPT ![t] = "timer"] /\ UNCHANGED at
      BY <2>1, <2>5 DEF Goto
    <3>2. /\ \A x \in Serial : m_IDMap'[x] = IF x = id THEN s ELSE m_IDMap[x]
          /\ \A x \in Service : m_serial'[x] = IF x = s THEN id ELSE m_serial[x]
      BY <2>1, <2>5
    <3>3. RegistryPointsToLive'
      BY <2>2, <2>7, <3>2 DEF LifeInv, RegistryPointsToLive
    <3>4. ClosedInv'
      BY <2>2, <2>7, <3>1, <3>2 DEF LifeInv, ClosedInv
    <3>5. \A u \in IOThread : pc'[u] \in BoundLabels =>
            m_serial'[at'[u]] \in Serial /\ m_IDMap'[m_serial'[at'[u]]] = at'[u]
      <4> SUFFICES ASSUME NEW u \in IOThread, pc'[u] \in BoundLabels
                   PROVE  m_serial'[at'[u]] \in Serial /\ m_IDMap'[m_serial'[at'[u]]] = at'[u]
        OBVIOUS
      <4>1. CASE u = t
        BY <2>2, <2>5, <3>1, <3>2, <4>1
      <4>2. CASE u # t
        <5>1. at'[u] = at[u] /\ at[u] # s /\ pc[u] \in BoundLabels /\ at[u] \in Service
          BY <2>2, <2>6, <3>1, <4>2 DEF ThreadInv
        <5>2. m_serial[at[u]] \in Serial /\ m_IDMap[m_serial[at[u]]] = at[u]
          BY <5>1 DEF LifeInv, BoundInv
        <5> QED BY <2>5, <3>2, <5>1, <5>2
      <4> QED BY <4>1, <4>2
    <3>6. \A x \in Service : read'[x] => m_serial'[x] \in Serial /\ m_IDMap'[m_serial'[x]] = x
      BY <2>2, <2>5, <2>7, <3>2 DEF LifeInv, BoundInv
    <3> QED BY <2>8, <3>3, <3>4, <3>5, <3>6 DEF LifeInv, BoundInv
  <2> QED BY <2>1, <2>3, <2>4, <2>5, RegisterEffect
<1>6. CASE RegisterTimer(t, s)
  BY <1>6 DEF RegisterTimer, Stands, Goto, idMapVars
<1>7. CASE CreateSessionService(t, s)
  BY <1>7 DEF CreateSessionService, Stands, Goto, idMapVars
<1>8. CASE OnConnect(t, s)
  BY <1>8 DEF OnConnect, Stands, Goto, sessionVars, idMapVars
<1>9. CASE PostRecv(t, s)
  <2>1. CASE TRUE \in HandleReadFrom(s) /\ read' = [read EXCEPT ![s] = TRUE] /\ Finish(t)
    <3>1. /\ at[t] = s /\ pc[t] = "recv" /\ object[s] = "alive" /\ ~m_bServiceCloseFlag[s]
          /\ m_serial[s] \in Serial /\ m_IDMap[m_serial[s]] = s
      BY <1>9 DEF PostRecv, Stands
    <3>2. /\ pc' = [pc EXCEPT ![t] = "idle"] /\ at' = [at EXCEPT ![t] = NoService]
          /\ UNCHANGED <<m_IDMap, object, disconnecting, m_bServiceCloseFlag, m_serial>>
      BY <1>9, <2>1 DEF PostRecv, Finish, idMapVars
    <3> HIDE DEF ThreadInv, HandlerInv
    <3> QED BY <2>1, <3>1, <3>2
  <2>2. CASE Goto(t, "unregister") /\ UNCHANGED read
    BY <1>9, <2>2 DEF PostRecv, Stands, Goto, idMapVars
  <2> QED BY <1>9, <2>1, <2>2 DEF PostRecv
<1>10. CASE ReadCompletes(t, s)
  <2>1. CASE Start(t, s, "receive")
    BY <1>10, <2>1 DEF ReadCompletes, Start, idMapVars
  <2>2. CASE Start(t, s, "unregister")
    BY <1>10, <2>2 DEF ReadCompletes, Start, idMapVars
  <2> QED BY <1>10, <2>1, <2>2 DEF ReadCompletes
<1>11. CASE OnReceive(t, s)
  <2>1. CASE UNCHANGED <<pc, at>>
    BY <1>11, <2>1 DEF OnReceive, Stands, sessionVars, idMapVars
  <2>2. CASE Goto(t, "recv")
    BY <1>11, <2>2 DEF OnReceive, Stands, Goto, sessionVars, idMapVars
  <2>3. CASE Goto(t, "unregister")
    BY <1>11, <2>3 DEF OnReceive, Stands, Goto, sessionVars, idMapVars
  <2> QED BY <1>11, <2>1, <2>2, <2>3 DEF OnReceive
<1>12. CASE UnregisterService(t, s)
  <2>1. PICK id \in SerialReadFrom(s) : UnRegister(id)
    BY <1>12 DEF UnregisterService
  <2>2. \A x \in Serial : m_IDMap'[x] = IF x = id THEN NoService ELSE m_IDMap[x]
    BY <2>1, UnRegisterEffect
  <2>3. at[t] = s /\ pc[t] = "unregister" /\ object[s] = "alive" /\ id = m_serial[s] /\ m_IDMap[id] = s
    BY <1>12, <2>1 DEF UnregisterService, Stands, SerialReadFrom
  <2> HIDE DEF ThreadInv, HandlerInv, LifeInv, NoUseAfterFree, RegistryPointsToLive, ClosedInv, BoundInv
  <2>4. ~read[s] /\ \A u \in IOThread : at[u] = s /\ pc[u] \notin ExpiryLabels => u = t
    BY <2>3 DEF HandlerInv
  <2>6. /\ pc' = [pc EXCEPT ![t] = "closesocket"]
        /\ UNCHANGED <<at, object, disconnecting, read, m_bServiceCloseFlag, m_serial>>
    BY <1>12 DEF UnregisterService, Goto, sessionVars
  <2>7. \A x \in Service : x # s /\ m_serial[x] \in Serial /\ m_IDMap[m_serial[x]] = x
          => m_IDMap'[m_serial[x]] = x
    BY <2>2, <2>3
  <2>8. LockFree' /\ NoUseAfterFree' /\ RegistryPointsToLive' /\ ClosedInv'
    BY <2>2, <2>3, <2>6 DEF LifeInv, NoUseAfterFree, RegistryPointsToLive, ClosedInv
  <2>5. \A u \in IOThread : pc'[u] \in BoundLabels => pc[u] \in BoundLabels /\ at[u] \in Service \ {s}
    <3>1. \A u \in IOThread : pc[u] # "idle" => at[u] \in Service
      BY DEF ThreadInv
    <3>2. \A u \in IOThread : pc'[u] = IF u = t THEN "closesocket" ELSE pc[u]
      BY <2>6
    <3> QED BY <2>4, <3>1, <3>2
  <2>9. BoundInv'
    BY <2>3, <2>4, <2>5, <2>6, <2>7 DEF LifeInv, BoundInv
  <2> QED BY <2>8, <2>9 DEF LifeInv
<1>13. CASE CloseSocket(t, s)
  BY <1>13 DEF CloseSocket, Stands, Goto, idMapVars
<1>14. CASE InvalidateHandle(t, s)
  BY <1>14 DEF InvalidateHandle, Stands, Goto, idMapVars
<1>15. CASE OnDisconnect(t, s)
  BY <1>15 DEF OnDisconnect, Stands, Goto, sessionVars, idMapVars
<1>16. CASE DeleteSessionService(t, s)
  BY <1>16, <1>n, <1>r DEF DeleteSessionService, Stands, Goto, idMapVars
<1>17. CASE SetCloseFlag(t, s)
  <2>1. /\ at[t] = s /\ pc[t] = "flag" /\ object[s] = "alive"
    BY <1>17 DEF SetCloseFlag, Stands
  <2>2. \A id \in Serial : m_IDMap[id] # s
    <3> HIDE DEF ThreadInv, HandlerInv, LifeInv
    <3> QED BY <1>r, <2>1
  <2>3. ~read[s] /\ \A u \in IOThread : at[u] = s /\ pc[u] \notin ExpiryLabels => u = t
    <3> HIDE DEF ThreadInv, LifeInv, NoUseAfterFree, RegistryPointsToLive, ClosedInv, BoundInv
    <3> QED BY <2>1
  <2>4. /\ pc' = [pc EXCEPT ![t] = "idle"] /\ at' = [at EXCEPT ![t] = NoService]
        /\ m_bServiceCloseFlag' = [m_bServiceCloseFlag EXCEPT ![s] = TRUE]
        /\ UNCHANGED <<m_IDMap, object, disconnecting, read, m_serial>>
    BY <1>17 DEF SetCloseFlag, Finish, idMapVars
  <2> HIDE DEF ThreadInv, HandlerInv
  <2>5. \A u \in IOThread : pc[u] # "idle" => at[u] \in Service
    BY DEF ThreadInv
  <2> QED BY <2>1, <2>2, <2>3, <2>4, <2>5
<1>18. CASE TimerExpires(t, s)
  BY <1>18, <1>n, <1>r DEF TimerExpires, Start, sessionVars, idMapVars
<1>19. CASE CheckClosed(t, s)
  <2>1. CASE /\ m_bServiceCloseFlag[s] /\ m_pTimerLock' = [m_pTimerLock EXCEPT ![s] = TRUE]
             /\ Goto(t, "delete")
    BY <1>19, <2>1 DEF CheckClosed, Stands, Goto, idMapVars
  <2>2. CASE UNCHANGED m_pTimerLock /\ Finish(t)
    BY <1>19, <2>2 DEF CheckClosed, Stands, Finish, idMapVars
  <2> QED BY <1>19, <2>1, <2>2 DEF CheckClosed
<1>20. CASE DeleteService(t, s)
  BY <1>20, <1>n, <1>r DEF DeleteService, Stands, Delete, Finish, idMapVars
<1> QED
  BY <1>1, <1>2, <1>3, <1>4, <1>5, <1>6, <1>7, <1>8, <1>9, <1>10, <1>11, <1>12, <1>13, <1>14,
     <1>15, <1>16, <1>17, <1>18, <1>19, <1>20
  DEF IOThreadStep, HandlerStep

-----------------------------------------------------------------------------
(***************************************************************************)
(* A server that has just been opened, before its first accept, satisfies  *)
(* the inductive invariant: no service exists and every serial is idle.    *)
(***************************************************************************)
LEMMA ServiceInitInv == ServiceInit => ServiceInv /\ PacketInv /\ LifeInv
<1> SUFFICES ASSUME ServiceInit PROVE ServiceInv /\ PacketInv /\ LifeInv
  OBVIOUS
<1>1. IDMapTypeOK /\ PoolConserved
  BY PoolInit DEF ServiceInit, PoolInv
<1>2. ServiceTypeOK
  BY <1>1 DEF ServiceInit, ServiceTypeOK, Labels, MaxCloseCalls
<1>3. ThreadInv /\ HandlerInv
  BY IDMapAssumption
  DEF ServiceInit, ThreadInv, EarlyLabels, ExpiryLabels, HandlerInv, Handles
<1>4. Alive = {} /\ Admitted = {}
  BY DEF ServiceInit, Alive, Admitted
<1>5. CountInv /\ AdmitInv
  BY <1>4, FS_EmptySet, ServiceAssumption DEF ServiceInit, CountInv, AdmitInv
<1>6. \A id \in Serial : m_IDMap[id] = NoService
  BY DEF ServiceInit, IDMapInit
<1>7. RegistryInv /\ SocketInv
  BY <1>6 DEF ServiceInit, RegistryInv, SocketInv, EarlyLabels, GivenUpLabels, CloseLabels
<1>8. PacketInv
  BY DEF ServiceInit, PacketInv, SessionProtocol, Told, ToldEnd, SilentLabels, OpenedLabels,
         EarlyLabels
<1>9. LifeInv
  BY <1>6 DEF ServiceInit, LifeInv, LockFree, NoUseAfterFree, RegistryPointsToLive, ClosedInv,
              BoundInv, BoundLabels
<1> QED BY <1>1, <1>2, <1>3, <1>5, <1>7, <1>8, <1>9 DEF ServiceInv

(* An IO thread keeps the invariant.                                        *)
LEMMA StepKeepsInv ==
  ASSUME ServiceInv, NEW t \in IOThread, NEW s \in Service, IOThreadStep(t, s)
  PROVE  ServiceInv'
BY StepKeepsType, StepKeepsThreads, StepKeepsCount, StepKeepsAdmission, StepKeepsHandlers,
   StepKeepsRegistry, StepKeepsSockets
DEF ServiceInv

(* The invariant does not speak of logicGateway except for its type.        *)
LEMMA OthersKeepInv ==
  ASSUME ServiceInv, UNCHANGED <<idMapVars, sessionVars, pc, at, disconnecting>>,
         logicGateway' \in Seq(Packet)
  PROVE  ServiceInv' /\ (LifeInv => LifeInv')
<1> USE DEF ServiceInv, idMapVars, sessionVars
<1>1. ServiceTypeOK' /\ PoolConserved'
  BY DEF ServiceTypeOK, IDMapTypeOK, PoolConserved, IdleSerials
<1>2. ThreadInv' /\ HandlerInv'
  BY DEF ThreadInv, HandlerInv, Handles
<1>3. CountInv' /\ AdmitInv'
  BY DEF CountInv, AdmitInv, Admitted, Alive
<1>4. RegistryInv' /\ SocketInv'
  BY DEF RegistryInv, SocketInv, CloseSeen, Stands
<1>5. LifeInv => LifeInv'
  BY DEF LifeInv, LockFree, NoUseAfterFree, RegistryPointsToLive, ClosedInv, BoundInv, Handles
<1> QED BY <1>1, <1>2, <1>3, <1>4, <1>5

(***************************************************************************)
(* Disconnect from the application's thread closes the socket of a service *)
(* that is registered: its handler has not come to closesocket, and will   *)
(* find the handle invalid.                                                *)
(***************************************************************************)
LEMMA DisconnectKeepsInv ==
  ASSUME ServiceInv, (\E id \in Serial : BeginDisconnect(id)) \/ EndDisconnect
  PROVE  ServiceInv'
<1> USE DEF ServiceInv
<1>1. UNCHANGED <<idMapVars, object, g_currentSessionCnt, m_serial, timer, read, pc, at>>
  BY DEF BeginDisconnect, EndDisconnect
<1>2. ServiceTypeOK'
  <2>1. ASSUME NEW id \in Serial, BeginDisconnect(id) PROVE ServiceTypeOK'
    <3>1. PICK d \in Service : d = Get(id)
      BY <2>1 DEF BeginDisconnect, Get, ServiceTypeOK, IDMapTypeOK
    <3>2. PICK h \in BOOLEAN : CloseIfOpen(d, h)
      BY <2>1, <3>1 DEF BeginDisconnect, HandleReadFrom, ServiceTypeOK
    <3>3. closeCalls' \in [Service -> 0..MaxCloseCalls]
      BY <3>2, CloseEffect DEF ServiceTypeOK
    <3> QED BY <2>1, <3>1, <3>3 DEF BeginDisconnect, ServiceTypeOK, IDMapTypeOK, idMapVars
  <2>2. CASE EndDisconnect
    BY <2>2 DEF EndDisconnect, LockFree, ServiceTypeOK, IDMapTypeOK, idMapVars
  <2> QED BY <2>1, <2>2
<1>3. PoolConserved'
  BY <1>1 DEF idMapVars, PoolConserved, IdleSerials
<1>4. ThreadInv' /\ HandlerInv'
  BY <1>1 DEF ThreadInv, HandlerInv, Handles
<1>5. CountInv' /\ AdmitInv'
  BY <1>1 DEF CountInv, AdmitInv, Admitted, Alive
<1>6. RegistryInv'
  <2>1. disconnecting' # NoService => \E id \in Serial : m_IDMap[id] = disconnecting'
    BY DEF BeginDisconnect, EndDisconnect, Get
  <2> QED BY <1>1, <2>1 DEF RegistryInv, idMapVars
<1>7. SocketInv'
  <2>1. ASSUME NEW id \in Serial, BeginDisconnect(id) PROVE SocketInv'
    <3>d. PICK d \in Service : d = m_IDMap[id]
      BY <2>1 DEF BeginDisconnect, Get, ServiceTypeOK, IDMapTypeOK
    <3>1. /\ disconnecting = NoService /\ disconnecting' = d
          /\ UNCHANGED <<object, handle, m_bServiceCloseFlag, pc, at>>
      BY <2>1, <3>d DEF BeginDisconnect, Get, LockFree
    <3>3. object[d] # "unborn" /\ (object[d] = "alive" => ~CloseSeen(d))
      BY <2>1, <3>d, BoundIsOpen DEF BeginDisconnect
    <3>4. \A x \in Service \ {d} : CloseSeen(x)' <=> CloseSeen(x)
      BY <3>1, IDMapAssumption DEF CloseSeen, Stands
    <3>5. CloseSeen(d)' /\ (object[d] = "alive" => ~CloseSeen(d))
      BY <3>1, <3>3 DEF CloseSeen
    <3>6. PICK h \in HandleReadFrom(d) : CloseIfOpen(d, h)
      BY <2>1, <3>d DEF BeginDisconnect, Get
    <3>7. h \in BOOLEAN /\ (object[d] = "alive" => h = handle[d])
      BY DEF HandleReadFrom, ServiceTypeOK
    <3>8. /\ \A x \in Service \ {d} : closeCalls'[x] = closeCalls[x]
          /\ ~h => closeCalls'[d] = closeCalls[d]
          /\ h /\ closeCalls[d] = 0 => closeCalls'[d] = 1
      BY <3>6, <3>7, CloseEffect DEF ServiceTypeOK
    <3>9. object[d] = "alive" => closeCalls'[d] = 1
      BY <3>5, <3>7, <3>8 DEF SocketInv
    <3> QED BY <3>1, <3>3, <3>4, <3>5, <3>8, <3>9 DEF SocketInv, ServiceTypeOK
  <2>2. CASE EndDisconnect
    <3>d. PICK d \in Service : d = disconnecting
      BY <2>2 DEF EndDisconnect, LockFree, ServiceTypeOK
    <3>1. /\ disconnecting' = NoService
          /\ IF object[d] = "alive"
               THEN /\ handle' = [handle EXCEPT ![d] = FALSE]
                    /\ m_bServiceCloseFlag' = [m_bServiceCloseFlag EXCEPT ![d] = TRUE]
               ELSE UNCHANGED <<handle, m_bServiceCloseFlag>>
          /\ UNCHANGED <<object, closeCalls, pc, at>>
      BY <2>2, <3>d DEF EndDisconnect
    <3>2. \A x \in Service \ {d} : CloseSeen(x)' <=> CloseSeen(x)
      BY <3>d, <3>1, IDMapAssumption DEF CloseSeen, Stands
    <3>3. CloseSeen(d)
      BY <3>d DEF CloseSeen
    <3>4. CASE object[d] = "alive"
      <4>1. /\ ~handle'[d] /\ m_bServiceCloseFlag'[d]
            /\ \A x \in Service \ {d} : /\ handle'[x] = handle[x]
                                        /\ m_bServiceCloseFlag'[x] = m_bServiceCloseFlag[x]
        BY <3>1, <3>4 DEF ServiceTypeOK
      <4>2. closeCalls[d] = 1
        BY <3>3, <3>4 DEF SocketInv
      <4>3. \A u \in IOThread : pc[u] # "idle" => at[u] \in Service
        BY DEF ThreadInv, ServiceTypeOK
      <4> QED BY <3>1, <3>2, <3>4, <4>1, <4>2, <4>3 DEF SocketInv
    <3>5. CASE object[d] # "alive"
      BY <3>1, <3>2, <3>3, <3>5 DEF SocketInv, ServiceTypeOK
    <3> QED BY <3>4, <3>5
  <2> QED BY <2>1, <2>2
<1> QED BY <1>2, <1>3, <1>4, <1>5, <1>6, <1>7

(***************************************************************************)
(* Every step of the acceptor, of an IO thread's handler and of the        *)
(* application's Disconnect keeps the inductive invariant.                 *)
(***************************************************************************)
LEMMA ServiceNextInv == ServiceInv /\ [ServiceNext]_serviceVars => ServiceInv'
<1> SUFFICES ASSUME ServiceInv, [ServiceNext]_serviceVars PROVE ServiceInv'
  OBVIOUS
<1>1. ASSUME NEW t \in IOThread, NEW s \in Service, IOThreadStep(t, s) PROVE ServiceInv'
  BY <1>1, StepKeepsInv
<1>2. CASE (\E id \in Serial : BeginDisconnect(id)) \/ EndDisconnect
  BY <1>2, DisconnectKeepsInv
<1>3. CASE UNCHANGED serviceVars
  <2>1. logicGateway' \in Seq(Packet)
    BY <1>3 DEF serviceVars, ServiceInv, ServiceTypeOK
  <2> QED BY <1>3, <2>1, OthersKeepInv DEF serviceVars
<1> QED BY <1>1, <1>2, <1>3 DEF ServiceNext

LEMMA ServiceInvariant == ServiceSpec => []ServiceInv
BY ServiceInitInv, ServiceNextInv, PTL DEF ServiceSpec

(* The session state stays well typed, Disconnect called or not.            *)
THEOREM ServiceTypeCorrect == ServiceSpec => []ServiceTypeOK
<1>1. ServiceInv => ServiceTypeOK
  BY DEF ServiceInv
<1> QED BY <1>1, ServiceInvariant, PTL

(* The sessions admitted by open and not yet deleted never exceed           *)
(* MaxUserAccept, although the counter is compared and the service          *)
(* registered in separate steps.                                            *)
THEOREM SessionsWithinLimit == ServiceSpec => []AcceptLimit
<1>1. ServiceInv => AcceptLimit
  <2> SUFFICES ASSUME ServiceInv PROVE AcceptLimit
    OBVIOUS
  <2> DEFINE S == {s \in Alive : m_serial[s] # INVALID_ID}
  <2>1. S \subseteq Admitted /\ IsFiniteSet(Admitted)
    BY ServiceAssumption, FS_Subset DEF Alive, Admitted
  <2>2. /\ Cardinality(S) <= Cardinality(Admitted)
        /\ Cardinality(S) \in Nat /\ Cardinality(Admitted) \in Nat
    BY <2>1, FS_Subset, FS_CardinalityType
  <2> QED BY <2>2, ServiceAssumption DEF ServiceInv, AdmitInv, AcceptLimit
<1> QED BY <1>1, ServiceInvariant, PTL

(* Serials stay conserved when the pool is driven by sessions, also when a  *)
(* handler runs on a deleted service and unregisters an arbitrary serial.   *)
THEOREM SessionsConservePool == ServiceSpec => []PoolConserved
<1>1. ServiceInv => PoolConserved
  BY DEF ServiceInv
<1> QED BY <1>1, ServiceInvariant, PTL

(* The sessions use the pool as an allocator of session numbers: every      *)
(* handler's step is a call of Register or UnRegister or leaves it alone.   *)
THEOREM SessionsImplementAllocator == ServiceSpec => ImplementsAllocator
<1>1. ServiceInit => IDMapInit
  BY DEF ServiceInit
<1>2. ServiceTypeOK /\ [ServiceNext]_serviceVars => [IDMapNext]_idMapVars
  <2> SUFFICES ASSUME ServiceTypeOK, [ServiceNext]_serviceVars, ~ UNCHANGED idMapVars
               PROVE  IDMapNext
    OBVIOUS
  <2>1. ~ UNCHANGED serviceVars
    BY DEF serviceVars
  <2>2. PICK t \in IOThread, s \in Service : IOThreadStep(t, s)
    BY <2>1 DEF ServiceNext, BeginDisconnect, EndDisconnect
  <2>3. RegisterService(t, s) \/ UnregisterService(t, s)
    BY <2>2
    DEF IOThreadStep, HandlerStep, Accept, OpenStreams, CheckLimit, Reject, RegisterTimer,
        CreateSessionService, OnConnect, PostRecv, ReadCompletes, OnReceive, CloseSocket,
        InvalidateHandle, OnDisconnect, DeleteSessionService, SetCloseFlag, TimerExpires,
        CheckClosed, DeleteService
  <2>4. SerialReadFrom(s) \subseteq Serial \cup {INVALID_ID}
    BY DEF SerialReadFrom, ServiceTypeOK
  <2> QED BY <2>3, <2>4 DEF RegisterService, UnregisterService, IDMapNext
<1>3. ServiceSpec => IDMapSpec
  BY <1>1, <1>2, ServiceTypeCorrect, PTL DEF ServiceSpec, IDMapSpec
<1> QED BY <1>3, IDMapImplementsAllocator, PTL

(* A service that is alive closes its socket once at most, and is deleted   *)
(* with an open socket only when open could not open the streams, whoever   *)
(* of ReserveClose, Disconnect and a refusal in open comes first.           *)
THEOREM SocketsClosedOnce == ServiceSpec => SocketClosedOnce
<1> DEFINE Account == \A s \in Service :
             /\ closeCalls'[s] # closeCalls[s] => closeCalls[s] = 0 \/ object[s] = "deleted"
             /\ object[s] = "alive" /\ object'[s] = "deleted" =>
                  closeCalls'[s] = 1 \/ \E t \in IOThread : Stands(t, s, "open")
<1>1. ServiceInv /\ [ServiceNext]_serviceVars => Account
  <2> SUFFICES ASSUME ServiceInv, [ServiceNext]_serviceVars PROVE Account
    OBVIOUS
  <2> USE DEF ServiceInv
  <2>1. ASSUME NEW s \in Service, NEW h \in BOOLEAN, CloseIfOpen(s, h),
               object[s] = "alive" => (h => closeCalls[s] = 0), object[s] # "unborn"
        PROVE  \A x \in Service :
                 closeCalls'[x] # closeCalls[x] => closeCalls[x] = 0 \/ object[x] = "deleted"
    BY <2>1, CloseEffect DEF ServiceTypeOK
  <2>2. ASSUME NEW t \in IOThread, NEW s \in Service, IOThreadStep(t, s) PROVE Account
    <3>1. CASE CloseSocket(t, s)
      <4>1. PICK h \in HandleReadFrom(s) : CloseIfOpen(s, h)
        BY <3>1 DEF CloseSocket
      <4>2. h \in BOOLEAN /\ (object[s] = "alive" => h = handle[s])
        BY DEF HandleReadFrom, ServiceTypeOK
      <4>3. object[s] = "alive" => ~CloseSeen(s)
        BY <3>1, CloserIsFirst DEF CloseSocket, Stands
      <4>4. object[s] # "unborn"
        BY <3>1 DEF CloseSocket, Stands, ThreadInv
      <4>5. object[s] = "alive" => (h => closeCalls[s] = 0)
        BY <4>2, <4>3 DEF SocketInv
      <4>6. UNCHANGED object
        BY <3>1 DEF CloseSocket
      <4> QED BY <2>1, <4>1, <4>2, <4>4, <4>5, <4>6
    <3>2. CASE Reject(t, s)
      <4>1. object[s] = "alive" /\ handle[s] \in BOOLEAN
        BY <3>2 DEF Reject, Stands, ThreadInv, EarlyLabels, ServiceTypeOK
      <4>2. ~CloseSeen(s)
        BY <3>2, <4>1, CloserIsFirst DEF Reject, Stands
      <4>3. closeCalls[s] = IF handle[s] THEN 0 ELSE 1
        BY <4>1, <4>2 DEF SocketInv
      <4>4. CloseIfOpen(s, handle[s]) /\ object' = [object EXCEPT ![s] = "deleted"]
        BY <3>2 DEF Reject, Delete
      <4>5. closeCalls'[s] = 1
        BY <4>1, <4>3, <4>4, CloseEffect DEF ServiceTypeOK
      <4>6. \A x \in Service :
              closeCalls'[x] # closeCalls[x] => closeCalls[x] = 0 \/ object[x] = "deleted"
        BY <2>1, <4>1, <4>3, <4>4
      <4> QED BY <4>4, <4>5, <4>6 DEF ServiceTypeOK
    <3>3. CASE DeleteService(t, s)
      <4>1. object[s] = "alive" /\ m_bServiceCloseFlag[s]
        BY <3>3 DEF DeleteService, Stands, ThreadInv, ExpiryLabels, SocketInv
      <4>2. closeCalls[s] = 1
        BY <4>1 DEF SocketInv
      <4> QED BY <3>3, <4>2 DEF DeleteService, Delete, ServiceTypeOK
    <3>4. CASE OpenStreams(t, s)
      BY <3>4 DEF OpenStreams, Delete, ServiceTypeOK
    <3>5. CASE Accept(t, s)
      BY <3>5 DEF Accept, ServiceTypeOK
    <3>6. CASE UNCHANGED <<object, closeCalls>>
      BY <3>6
    <3> QED
      BY <2>2, <3>1, <3>2, <3>3, <3>4, <3>5, <3>6
      DEF IOThreadStep, HandlerStep, sessionVars, CheckLimit, RegisterService, RegisterTimer,
          CreateSessionService, OnConnect, PostRecv, ReadCompletes, OnReceive, UnregisterService,
          InvalidateHandle, OnDisconnect, DeleteSessionService, SetCloseFlag, TimerExpires,
          CheckClosed
  <2>3. ASSUME NEW id \in Serial, BeginDisconnect(id) PROVE Account
    <3>1. PICK d \in Service : d = m_IDMap[id] /\ d = Get(id)
      BY <2>3 DEF BeginDisconnect, Get, ServiceTypeOK, IDMapTypeOK
    <3>2. PICK h \in HandleReadFrom(d) : CloseIfOpen(d, h)
      BY <2>3, <3>1 DEF BeginDisconnect
    <3>3. h \in BOOLEAN /\ (object[d] = "alive" => h = handle[d])
      BY DEF HandleReadFrom, ServiceTypeOK
    <3>4. object[d] # "unborn" /\ (object[d] = "alive" => ~CloseSeen(d))
      BY <2>3, <3>1, BoundIsOpen DEF BeginDisconnect
    <3>5. object[d] = "alive" => (h => closeCalls[d] = 0)
      BY <3>3, <3>4 DEF SocketInv
    <3>6. UNCHANGED object
      BY <2>3 DEF BeginDisconnect
    <3> QED BY <2>1, <3>2, <3>3, <3>4, <3>5, <3>6
  <2>4. CASE UNCHANGED <<object, closeCalls>>
    BY <2>4
  <2> QED BY <2>2, <2>3, <2>4 DEF ServiceNext, EndDisconnect, serviceVars, sessionVars
<1>2. ServiceInv /\ [ServiceNext]_serviceVars => [Account]_serviceVars
  BY <1>1
<1> QED BY <1>2, ServiceInvariant, PTL DEF ServiceSpec, SocketClosedOnce

(* The logic is told of each session by one CONNECT first and at most one   *)
(* DISCONNECT last, also when handlers run on a deleted service.            *)
THEOREM SessionsInOrder == ServiceSpec => []SessionProtocol
<1>1. ServiceInv /\ PacketInv /\ [ServiceNext]_serviceVars => PacketInv'
  <2> SUFFICES ASSUME ServiceInv, PacketInv, [ServiceNext]_serviceVars PROVE PacketInv'
    OBVIOUS
  <2>1. ASSUME NEW t \in IOThread, NEW s \in Service, IOThreadStep(t, s) PROVE PacketInv'
    BY <2>1, StepKeepsPackets DEF ServiceInv
  <2>2. ASSUME UNCHANGED <<logicGateway, object, pc, at, read>> PROVE PacketInv'
    BY <2>2 DEF PacketInv, SessionProtocol, Told, ToldEnd
  <2> QED BY <2>1, <2>2 DEF ServiceNext, BeginDisconnect, EndDisconnect, serviceVars, sessionVars
<1>2. PacketInv => SessionProtocol
  BY DEF PacketInv
<1> QED BY <1>1, <1>2, ServiceInitInv, ServiceInvariant, PTL DEF ServiceSpec

-----------------------------------------------------------------------------
(* While the application does not call Disconnect.                          *)
LEMMA LifeInvariant ==
  ASSUME ~CallsDisconnect
  PROVE  ServiceSpec => []LifeInv
<1>1. ServiceInv /\ LifeInv /\ [ServiceNext]_serviceVars => LifeInv'
  <2> SUFFICES ASSUME ServiceInv, LifeInv, [ServiceNext]_serviceVars PROVE LifeInv'
    OBVIOUS
  <2>1. ASSUME NEW t \in IOThread, NEW s \in Service, IOThreadStep(t, s) PROVE LifeInv'
    BY <2>1, StepKeepsLife DEF ServiceInv
  <2>2. ~EndDisconnect /\ \A id \in Serial : ~BeginDisconnect(id)
    BY DEF EndDisconnect, BeginDisconnect, LifeInv
  <2>3. CASE UNCHANGED serviceVars
    <3>1. logicGateway' \in Seq(Packet)
      BY <2>3 DEF serviceVars, ServiceInv, ServiceTypeOK
    <3> QED BY <2>3, <3>1, OthersKeepInv DEF serviceVars
  <2> QED BY <2>1, <2>2, <2>3 DEF ServiceNext
<1> QED BY <1>1, ServiceInitInv, ServiceInvariant, PTL DEF ServiceSpec

(* No handler runs on a deleted service: the flag the timer waits for is    *)
(* set last, by the only handler the service has, and with no read left.    *)
THEOREM HandlersFindServiceAlive ==
  ASSUME ~CallsDisconnect
  PROVE  ServiceSpec => []NoUseAfterFree
<1>1. LifeInv => NoUseAfterFree
  BY DEF LifeInv
<1> QED BY <1>1, LifeInvariant, PTL

(* No serial leads to a deleted service.                                    *)
THEOREM RegistryStaysLive ==
  ASSUME ~CallsDisconnect
  PROVE  ServiceSpec => []RegistryPointsToLive
<1>1. LifeInv => RegistryPointsToLive
  BY DEF LifeInv
<1> QED BY <1>1, LifeInvariant, PTL

(* ReserveClose gives up the serial of its own service only: it is still    *)
(* bound to it when UnRegister is called.                                   *)
THEOREM SerialsReleasedByOwner ==
  ASSUME ~CallsDisconnect
  PROVE  ServiceSpec => OwnSerialReleased
<1> DEFINE Released == \A id \in Serial :
             (m_IDMap[id] # NoService /\ m_IDMap[id]' # m_IDMap[id])
               => \E t \in IOThread : Stands(t, m_IDMap[id], "unregister") /\ pc[t]' = "closesocket"
<1>1. ServiceInv /\ LifeInv /\ [ServiceNext]_serviceVars => Released
  <2> SUFFICES ASSUME ServiceInv, LifeInv, [ServiceNext]_serviceVars,
                      NEW id \in Serial, m_IDMap[id] # NoService, m_IDMap[id]' # m_IDMap[id]
               PROVE  \E t \in IOThread :
                        Stands(t, m_IDMap[id], "unregister") /\ pc[t]' = "closesocket"
    OBVIOUS
  <2>1. ~ UNCHANGED idMapVars
    BY DEF idMapVars
  <2>2. PICK t \in IOThread, s \in Service : IOThreadStep(t, s)
    BY <2>1 DEF ServiceNext, BeginDisconnect, EndDisconnect, serviceVars
  <2>3. RegisterService(t, s) \/ UnregisterService(t, s)
    BY <2>1, <2>2
    DEF IOThreadStep, HandlerStep, Accept, OpenStreams, CheckLimit, Reject, RegisterTimer,
        CreateSessionService, OnConnect, PostRecv, ReadCompletes, OnReceive, CloseSocket,
        InvalidateHandle, OnDisconnect, DeleteSessionService, SetCloseFlag, TimerExpires,
        CheckClosed, DeleteService
  <2>4. PoolInv /\ IDMapTypeOK
    BY DEF ServiceInv, PoolInv, ServiceTypeOK
  <2>5. ~RegisterService(t, s)
    <3>1. ASSUME NEW x, Register(s, x) PROVE FALSE
      <4>1. m_IDMap[id]' = m_IDMap[id] \/ (x = id /\ m_IDMap[x] = NoService)
        BY <2>4, <3>1, RegisterEffect DEF IDMapTypeOK
      <4> QED BY <4>1
    <3> QED BY <3>1 DEF RegisterService
  <2>6. Stands(t, s, "unregister") /\ \E x \in SerialReadFrom(s) : UnRegister(x)
    BY <2>3, <2>5 DEF UnregisterService
  <2>7. object[s] = "alive" /\ m_IDMap[m_serial[s]] = s
    BY <2>6 DEF LifeInv, NoUseAfterFree, BoundInv, BoundLabels, Stands
  <2>8. m_serial[s] = id
    BY <2>4, <2>6, <2>7, UnRegisterEffect DEF SerialReadFrom
  <2>9. pc[t]' = "closesocket"
    BY <2>3, <2>5 DEF UnregisterService, Goto, ServiceInv, ServiceTypeOK
  <2> QED BY <2>6, <2>7, <2>8, <2>9
<1>2. ServiceInv /\ LifeInv /\ [ServiceNext]_serviceVars => [Released]_serviceVars
  BY <1>1
<1> QED BY <1>2, ServiceInvariant, LifeInvariant, PTL DEF ServiceSpec, OwnSerialReleased
=============================================================================
