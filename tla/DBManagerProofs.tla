-------------------------- MODULE DBManagerProofs ---------------------------
(***************************************************************************)
(* The database worker pool, for every number of callers, request objects, *)
(* workers and messages.                                                   *)
(***************************************************************************)
EXTENDS DBManager, FiniteSetTheorems, TLAPS

(* Where a request object can be.                                           *)
Free   == Range(m_reqQueue)
Held   == {r \in Request : \E c \in Caller : callerReq[c] = r}
Queued == Range(m_queue)
Chosen == {r \in Request : mgrReq = r}
Given  == {r \in Request : \E w \in Worker : r \in Range(workerQueue[w])}
Busy   == {r \in Request : \E w \in Worker : workerReq[w] = r}

(* The places are disjoint and hold all there are.                          *)
PlaceInv ==
  /\ Free \cap (Held \cup Queued \cup Chosen \cup Given \cup Busy) = {}
  /\ Held \cap (Queued \cup Chosen \cup Given \cup Busy) = {}
  /\ Queued \cap (Chosen \cup Given \cup Busy) = {}
  /\ Chosen \cap (Given \cup Busy) = {}
  /\ Given \cap Busy = {}
  /\ allocated = Free \cup Held \cup Queued \cup Chosen \cup Given \cup Busy

(* Nothing is twice in the same place.                                      *)
OnceInv ==
  /\ IsInjective(m_reqQueue) /\ IsInjective(m_queue) /\ IsInjective(m_queueWorkers)
  /\ \A c, d \in Caller : callerReq[c] = callerReq[d] /\ callerReq[c] # NoRequest => c = d
  /\ \A v, w \in Worker : workerReq[v] = workerReq[w] /\ workerReq[v] # NoRequest => v = w
  /\ \A v, w \in Worker : Range(workerQueue[v]) \cap Range(workerQueue[w]) # {} => v = w

(* A worker has nothing to do.                                              *)
Idle(w) ==
  /\ workerPc[w] \in {"loop", "dequeue", "ended", "undefined"}
  /\ workerQueue[w] = <<>> /\ workerReq[w] = NoRequest

(* Who holds a request, and which workers are free.                         *)
OwnerInv ==
  /\ \A c \in Caller : callerPc[c] = "perform" <=> callerReq[c] # NoRequest
  /\ mgrPc \in {"choose", "wait", "assign"} <=> mgrReq # NoRequest
  /\ \A w \in Worker :
       /\ workerPc[w] \in {"call", "return"} => workerReq[w] # NoRequest
       /\ workerReq[w] # NoRequest => workerPc[w] \in {"call", "return", "undefined"}
       /\ workerPc[w] = "none" \/ workerReq[w] # NoRequest => workerQueue[w] = <<>>
       /\ Len(workerQueue[w]) <= 1
       /\ w \in Range(m_queueWorkers) => Idle(w)
  /\ mgrPc \in {"assign", "join"} => Idle(mgrWorker) /\ mgrWorker \notin Range(m_queueWorkers)
  /\ mgrPc = "create" => m_queueWorkers = <<>> /\ \A w \in Worker : workerPc[w] = "none"

(* Requests that carry a message.                                           *)
Loaded == Queued \cup Chosen \cup Given
          \cup {r \in Request : \E w \in Worker : workerReq[w] = r /\ workerPc[w] = "call"}

Underway == {c \in Caller : callerPc[c] # "idle"}

(* A message is in one request, or was executed.                            *)
MessageInv ==
  /\ \A r \in Request : m_pMessage[r] # NoMessage <=> r \in Loaded
  /\ \A q, r \in Request : m_pMessage[q] = m_pMessage[r] /\ m_pMessage[q] # NoMessage => q = r
  /\ \A r \in Request : m_pMessage[r] <= sent /\ m_pMessage[r] \notin executed
  /\ executed \subseteq 1..sent
  /\ sent + Cardinality(Underway) <= MaxMessages

(* A caller that nobody overtook finds the request its test saw.            *)
RaceInv ==
  /\ \A c \in Caller : callerPc[c] = "pop" => c \notin refused
  /\ \A c \in Caller : callerPc[c] = "pop" /\ c \notin raced => m_reqQueue # <<>>
  /\ refused \subseteq raced

(* After a quiet shutdown: only workers that wait, and that end.            *)
QuietInv ==
  /\ \A w \in Worker : workerPc[w] = "undefined" => mgrPc \in {"destroyed", "undefined"}
  /\ quiet \/ mgrPc \in {"drain", "join", "done", "destroyed", "undefined"} => m_ShutDown = 1
  /\ quiet =>
       /\ m_queue = <<>> /\ mgrReq = NoRequest
       /\ \A c \in Caller : callerPc[c] = "idle"
       /\ \A w \in Worker :
            \/ workerPc[w] \in {"none", "ended"}
            \/ workerPc[w] \in {"loop", "dequeue"} /\ w \in Range(m_queueWorkers)
            \/ workerPc[w] \in {"loop", "dequeue"} /\ mgrPc = "join" /\ mgrWorker = w
       /\ mgrPc \in {"done", "destroyed"} => \A w \in Worker : workerPc[w] \in {"none", "ended"}

DBInv == DBTypeOK /\ PlaceInv /\ OnceInv /\ OwnerInv /\ MessageInv /\ RaceInv /\ QuietInv

-----------------------------------------------------------------------------
(* A queue after pop_front.                                                 *)
LEMMA TailFacts ==
  ASSUME NEW S, NEW q \in Seq(S), q # <<>>
  PROVE  /\ Head(q) \in S /\ Tail(q) \in Seq(S) /\ Head(q) \in Range(q) /\ Range(q) \subseteq S
         /\ IsInjective(q) => IsInjective(Tail(q)) /\ Range(Tail(q)) = Range(q) \ {Head(q)}
<1>1. /\ Len(q) \in Nat \ {0} /\ DOMAIN q = 1..Len(q) /\ Head(q) = q[1]
      /\ Tail(q) \in Seq(S) /\ DOMAIN Tail(q) = 1..(Len(q) - 1)
      /\ \A i \in 1..(Len(q) - 1) : Tail(q)[i] = q[i + 1]
  OBVIOUS
<1>2. /\ Head(q) \in S /\ Tail(q) \in Seq(S) /\ Head(q) \in Range(q) /\ Range(q) \subseteq S
  BY <1>1 DEF Range
<1>3. ASSUME IsInjective(q)
      PROVE  IsInjective(Tail(q)) /\ Range(Tail(q)) = Range(q) \ {Head(q)}
  <2>1. IsInjective(Tail(q))
    BY <1>1, <1>3 DEF IsInjective
  <2>2. ASSUME NEW i \in 1..(Len(q) - 1) PROVE Tail(q)[i] \in Range(q) \ {Head(q)}
    <3>1. i + 1 \in DOMAIN q /\ 1 \in DOMAIN q /\ i + 1 # 1
      BY <1>1
    <3> QED BY <1>1, <1>3, <3>1 DEF IsInjective, Range
  <2>3. ASSUME NEW x \in Range(q) \ {Head(q)} PROVE x \in Range(Tail(q))
    <3>1. PICK i \in DOMAIN q : q[i] = x
      BY DEF Range
    <3>2. i - 1 \in 1..(Len(q) - 1) /\ (i - 1) + 1 = i
      BY <1>1, <3>1
    <3> QED BY <1>1, <3>1, <3>2 DEF Range
  <2> QED BY <1>1, <2>1, <2>2, <2>3 DEF Range
<1> QED BY <1>2, <1>3

(* A queue after push_back.                                                 *)
LEMMA AppendFacts ==
  ASSUME NEW S, NEW q \in Seq(S), NEW x \in S
  PROVE  /\ Append(q, x) \in Seq(S) /\ Append(q, x) # <<>> /\ Range(q) \subseteq S
         /\ Range(Append(q, x)) = Range(q) \cup {x}
         /\ IsInjective(q) /\ x \notin Range(q) => IsInjective(Append(q, x))
<1>1. /\ Len(q) \in Nat /\ DOMAIN q = 1..Len(q)
      /\ Append(q, x) \in Seq(S) /\ DOMAIN Append(q, x) = 1..(Len(q) + 1)
      /\ \A i \in 1..Len(q) : Append(q, x)[i] = q[i]
      /\ Append(q, x)[Len(q) + 1] = x
  OBVIOUS
<1>2. Append(q, x) # <<>> /\ Range(q) \subseteq S
  BY <1>1 DEF Range
<1>3. Range(Append(q, x)) = Range(q) \cup {x}
  <2>1. \A i \in 1..(Len(q) + 1) : i \in 1..Len(q) \/ i = Len(q) + 1
    BY <1>1
  <2> QED BY <1>1, <2>1 DEF Range
<1>4. ASSUME IsInjective(q), x \notin Range(q) PROVE IsInjective(Append(q, x))
  BY <1>1, <1>4 DEF IsInjective, Range
<1> QED BY <1>1, <1>2, <1>3, <1>4

(* An empty queue.                                                          *)
LEMMA EmptyFacts == Range(<<>>) = {} /\ \A S : \A q \in Seq(S) : Range(q) = {} => q = <<>>
<1>1. DOMAIN <<>> = {} /\ Len(<<>>) = 0
  OBVIOUS
<1>2. ASSUME NEW S, NEW q \in Seq(S), Range(q) = {} PROVE q = <<>>
  <2>1. ~(1 \in DOMAIN q)
    BY <1>2 DEF Range
  <2> QED BY <2>1
<1> QED BY <1>1, <1>2 DEF Range

(* The places of requests depend on these variables only.                   *)
LEMMA PlacesFrame ==
  ASSUME PlaceInv, OnceInv,
         UNCHANGED <<m_reqQueue, callerReq, m_queue, mgrReq, workerQueue, workerReq, allocated>>
  PROVE  /\ PlaceInv' /\ (IsInjective(m_queueWorkers)' => OnceInv')
         /\ UNCHANGED <<Free, Held, Queued, Chosen, Given, Busy>>
BY DEF PlaceInv, OnceInv, Free, Held, Queued, Chosen, Given, Busy

(* Callers between the start and the end of SendDBRequest.                  *)
LEMMA UnderwayFacts ==
  ASSUME DBTypeOK
  PROVE  /\ Cardinality(Underway) \in Nat
         /\ \A c \in Caller : /\ callerPc[c] = "idle" =>
                                   Cardinality(Underway \cup {c}) = Cardinality(Underway) + 1
                              /\ callerPc[c] # "idle" =>
                                   /\ Cardinality(Underway) \in Nat \ {0}
                                   /\ Cardinality(Underway \ {c}) = Cardinality(Underway) - 1
<1>1. IsFiniteSet(Underway) /\ Cardinality(Underway) \in Nat
  BY DBAssumption, FS_Subset, FS_CardinalityType DEF Underway
<1>2. ASSUME NEW c \in Caller, callerPc[c] = "idle"
      PROVE  Cardinality(Underway \cup {c}) = Cardinality(Underway) + 1
  <2>1. c \notin Underway
    BY <1>2 DEF Underway
  <2> QED BY <1>1, <2>1, FS_AddElement
<1>3. ASSUME NEW c \in Caller, callerPc[c] # "idle"
      PROVE  /\ Cardinality(Underway) \in Nat \ {0}
             /\ Cardinality(Underway \ {c}) = Cardinality(Underway) - 1
  <2>1. c \in Underway
    BY <1>3 DEF Underway
  <2>2. Cardinality(Underway) # 0
    BY <1>1, <2>1, FS_EmptySet
  <2> QED BY <1>1, <2>1, <2>2, FS_RemoveElement
<1> QED BY <1>1, <1>2, <1>3

(* The test in GetDBReq.                                                    *)
LEMMA GetDBReqKeeps ==
  ASSUME DBInv, NEW c \in Caller, GetDBReq(c)
  PROVE  DBInv'
<1>t. DBTypeOK /\ PlaceInv /\ OnceInv /\ OwnerInv /\ MessageInv /\ RaceInv /\ QuietInv
  BY DEF DBInv
<1>1. /\ callerPc[c] = "idle" /\ m_ShutDown = 0 /\ callerReq[c] = NoRequest
      /\ sent + Cardinality(Underway) < MaxMessages
      /\ refused' = refused \ {c} /\ raced' = raced \ {c}
      /\ UNCHANGED <<sent, m_reqQueue, m_pMessage, m_queue, m_ShutDown, mgrPc, mgrReq, mgrWorker,
                     m_queueWorkers, workerPc, workerReq, workerQueue, executed, quiet>>
  BY <1>t DEF GetDBReq, Underway, mgrVars, workerVars, OwnerInv
<1>2. ~quiet
  BY <1>t, <1>1 DEF QuietInv
<1>3. QuietInv'
  BY <1>t, <1>1, <1>2 DEF QuietInv
<1>4. CASE HasFreeReq
  <2>1. callerPc' = [callerPc EXCEPT ![c] = "pop"] /\ UNCHANGED <<callerReq, allocated>>
    BY <1>4 DEF GetDBReq
  <2>2. DBTypeOK'
    BY <1>t, <1>1, <2>1 DEF DBTypeOK
  <2>3. PlaceInv' /\ OnceInv' /\ UNCHANGED <<Queued, Chosen, Given>>
    BY <1>t, <1>1, <2>1, PlacesFrame DEF OnceInv
  <2>4. OwnerInv'
    BY <1>t, <1>1, <2>1 DEF OwnerInv, Idle, DBTypeOK
  <2>5. MessageInv'
    <3>1. Underway' = Underway \cup {c}
      BY <1>t, <2>1 DEF Underway, DBTypeOK
    <3>2. sent + Cardinality(Underway') <= MaxMessages
      <4>1. Cardinality(Underway') = Cardinality(Underway) + 1 /\ Cardinality(Underway) \in Nat
        BY <1>t, <1>1, <3>1, UnderwayFacts
      <4>2. sent \in Nat /\ MaxMessages \in Nat
        BY <1>t, DBAssumption DEF DBTypeOK
      <4> QED BY <1>1, <4>1, <4>2
    <3>3. Loaded' = Loaded
      BY <1>1, <2>3 DEF Loaded
    <3> QED BY <1>t, <1>1, <3>2, <3>3 DEF MessageInv
  <2>6. m_reqQueue # <<>>
    BY <1>4 DEF HasFreeReq
  <2>7. RaceInv'
    BY <1>t, <1>1, <2>1, <2>6 DEF RaceInv, DBTypeOK
  <2> QED BY <1>3, <2>2, <2>3, <2>4, <2>5, <2>7 DEF DBInv
<1>5. CASE ~HasFreeReq
  <2>1. PICK r \in Request \ allocated :
          /\ allocated' = allocated \cup {r}
          /\ callerReq' = [callerReq EXCEPT ![c] = r]
          /\ callerPc' = [callerPc EXCEPT ![c] = "perform"]
    BY <1>5 DEF GetDBReq
  <2>2. DBTypeOK'
    BY <1>t, <1>1, <2>1 DEF DBTypeOK
  <2>3. Held' = Held \cup {r}
    BY <1>t, <1>1, <2>1, DBAssumption DEF Held, DBTypeOK
  <2>4. UNCHANGED <<Free, Queued, Chosen, Given, Busy>>
    BY <1>1 DEF Free, Queued, Chosen, Given, Busy
  <2>5. PlaceInv'
    BY <1>t, <2>1, <2>3, <2>4 DEF PlaceInv
  <2>6. \A d \in Caller : callerReq[d] # r
    BY <1>t, <2>1 DEF PlaceInv, Held
  <2>7. OnceInv'
    BY <1>t, <1>1, <2>1, <2>6 DEF OnceInv, DBTypeOK
  <2>8. OwnerInv'
    BY <1>t, <1>1, <2>1, DBAssumption DEF OwnerInv, Idle, DBTypeOK
  <2>9. MessageInv'
    <3>1. Underway' = Underway \cup {c}
      BY <1>t, <2>1 DEF Underway, DBTypeOK
    <3>2. sent + Cardinality(Underway') <= MaxMessages
      <4>1. Cardinality(Underway') = Cardinality(Underway) + 1 /\ Cardinality(Underway) \in Nat
        BY <1>t, <1>1, <3>1, UnderwayFacts
      <4>2. sent \in Nat /\ MaxMessages \in Nat
        BY <1>t, DBAssumption DEF DBTypeOK
      <4> QED BY <1>1, <4>1, <4>2
    <3>3. Loaded' = Loaded
      BY <1>1, <2>4 DEF Loaded
    <3> QED BY <1>t, <1>1, <3>2, <3>3 DEF MessageInv
  <2>10. RaceInv'
    BY <1>t, <1>1, <2>1 DEF RaceInv, DBTypeOK
  <2> QED BY <1>3, <2>2, <2>5, <2>7, <2>8, <2>9, <2>10 DEF DBInv
<1> QED BY <1>4, <1>5

(* GetDBReq's second half.                                                  *)
LEMMA PopDBReqKeeps ==
  ASSUME DBInv, NEW c \in Caller, PopDBReq(c)
  PROVE  DBInv'
<1>t. DBTypeOK /\ PlaceInv /\ OnceInv /\ OwnerInv /\ MessageInv /\ RaceInv /\ QuietInv
  BY DEF DBInv
<1>1. /\ callerPc[c] = "pop" /\ callerReq[c] = NoRequest
      /\ UNCHANGED <<sent, allocated, m_pMessage, m_queue, m_ShutDown, mgrPc, mgrReq, mgrWorker,
                     m_queueWorkers, workerPc, workerReq, workerQueue, executed, quiet>>
  BY <1>t DEF PopDBReq, mgrVars, workerVars, OwnerInv
<1>2. ~quiet
  BY <1>t, <1>1 DEF QuietInv
<1>3. QuietInv'
  BY <1>t, <1>1, <1>2 DEF QuietInv
<1>4. CASE m_reqQueue = <<>>
  <2>1. /\ callerPc' = [callerPc EXCEPT ![c] = "idle"] /\ refused' = refused \cup {c}
        /\ UNCHANGED <<callerReq, m_reqQueue, raced>>
    BY <1>4 DEF PopDBReq, Refuse
  <2>2. DBTypeOK'
    BY <1>t, <1>1, <2>1 DEF DBTypeOK
  <2>3. PlaceInv' /\ OnceInv' /\ UNCHANGED <<Queued, Chosen, Given>>
    BY <1>t, <1>1, <2>1, PlacesFrame DEF OnceInv
  <2>4. OwnerInv'
    BY <1>t, <1>1, <2>1 DEF OwnerInv, Idle, DBTypeOK
  <2>5. MessageInv'
    <3>1. Underway' = Underway \ {c}
      BY <1>t, <2>1 DEF Underway, DBTypeOK
    <3>2. sent + Cardinality(Underway') <= MaxMessages
      <4>1. /\ Cardinality(Underway') = Cardinality(Underway) - 1
            /\ Cardinality(Underway) \in Nat /\ sent + Cardinality(Underway) <= MaxMessages
        BY <1>t, <1>1, <3>1, UnderwayFacts DEF MessageInv
      <4>2. sent \in Nat /\ MaxMessages \in Nat
        BY <1>t, DBAssumption DEF DBTypeOK
      <4> QED BY <4>1, <4>2
    <3>3. Loaded' = Loaded
      BY <1>1, <2>3 DEF Loaded
    <3> QED BY <1>t, <1>1, <3>2, <3>3 DEF MessageInv
  <2>6. c \in raced
    BY <1>t, <1>1, <1>4 DEF RaceInv
  <2>7. RaceInv'
    BY <1>t, <1>1, <2>1, <2>6 DEF RaceInv, DBTypeOK
  <2> QED BY <1>3, <2>2, <2>3, <2>4, <2>5, <2>7 DEF DBInv
<1>5. CASE m_reqQueue # <<>>
  <2>1. PICK r : r = Head(m_reqQueue)
    OBVIOUS
  <2>2. /\ m_reqQueue' = Tail(m_reqQueue)
        /\ callerReq' = [callerReq EXCEPT ![c] = r]
        /\ callerPc' = [callerPc EXCEPT ![c] = "perform"]
        /\ raced' = (raced \cup {d \in Caller : callerPc[d] = "pop"}) \ {c}
        /\ UNCHANGED refused
    BY <1>5, <2>1 DEF PopDBReq, Pop
  <2>3. /\ r \in Request /\ m_reqQueue' \in Seq(Request) /\ r \in Free
        /\ IsInjective(m_reqQueue') /\ Free' = Free \ {r}
    BY <1>t, <1>5, <2>1, <2>2, TailFacts DEF DBTypeOK, OnceInv, Free
  <2>4. DBTypeOK'
    BY <1>t, <1>1, <2>2, <2>3 DEF DBTypeOK
  <2>5. Held' = Held \cup {r}
    BY <1>t, <1>1, <2>2, <2>3, DBAssumption DEF Held, DBTypeOK
  <2>6. UNCHANGED <<Queued, Chosen, Given, Busy>>
    BY <1>1 DEF Queued, Chosen, Given, Busy
  <2>7. PlaceInv'
    BY <1>t, <1>1, <2>3, <2>5, <2>6 DEF PlaceInv
  <2>8. \A d \in Caller : callerReq[d] # r
    BY <1>t, <2>3 DEF PlaceInv, Held
  <2>9. OnceInv'
    BY <1>t, <1>1, <2>2, <2>3, <2>8 DEF OnceInv, DBTypeOK
  <2>10. OwnerInv'
    BY <1>t, <1>1, <2>2, <2>3, DBAssumption DEF OwnerInv, Idle, DBTypeOK
  <2>11. MessageInv'
    <3>1. Underway' = Underway
      BY <1>t, <1>1, <2>2 DEF Underway, DBTypeOK
    <3>2. Loaded' = Loaded
      BY <1>1, <2>6 DEF Loaded
    <3> QED BY <1>t, <1>1, <3>1, <3>2 DEF MessageInv
  <2>12. RaceInv'
    BY <1>t, <1>1, <2>2 DEF RaceInv, DBTypeOK
  <2> QED BY <1>3, <2>4, <2>7, <2>9, <2>10, <2>11, <2>12 DEF DBInv
<1> QED BY <1>4, <1>5

(* AttachDBMessage and perform.                                             *)
LEMMA PerformKeeps ==
  ASSUME DBInv, NEW c \in Caller, Perform(c)
  PROVE  DBInv'
<1>t. DBTypeOK /\ PlaceInv /\ OnceInv /\ OwnerInv /\ MessageInv /\ RaceInv /\ QuietInv
  BY DEF DBInv
<1>r. PICK r : r = callerReq[c]
  OBVIOUS
<1>1. /\ callerPc[c] = "perform" /\ r \in Request
      /\ sent' = sent + 1 /\ m_pMessage' = [m_pMessage EXCEPT ![r] = sent + 1]
      /\ m_queue' = Append(m_queue, r)
      /\ callerPc' = [callerPc EXCEPT ![c] = "idle"]
      /\ callerReq' = [callerReq EXCEPT ![c] = NoRequest]
      /\ UNCHANGED <<allocated, raced, refused, m_reqQueue, m_ShutDown, mgrPc, mgrReq, mgrWorker,
                     m_queueWorkers, workerPc, workerReq, workerQueue, executed, quiet>>
  BY <1>t, <1>r DEF Perform, mgrVars, workerVars, OwnerInv, DBTypeOK
<1>2. ~quiet
  BY <1>t, <1>1 DEF QuietInv
<1>3. QuietInv'
  BY <1>t, <1>1, <1>2 DEF QuietInv
<1>4. r \in Held /\ r \notin Queued
  BY <1>t, <1>r, <1>1 DEF Held, PlaceInv
<1>5. m_queue' \in Seq(Request) /\ IsInjective(m_queue') /\ Queued' = Queued \cup {r}
  BY <1>t, <1>1, <1>4, AppendFacts DEF DBTypeOK, OnceInv, Queued
<1>6. DBTypeOK'
  BY <1>t, <1>1, <1>5 DEF DBTypeOK
<1>7. Held' = Held \ {r}
  BY <1>t, <1>r, <1>1, DBAssumption DEF Held, DBTypeOK, OnceInv
<1>8. UNCHANGED <<Free, Chosen, Given, Busy>>
  BY <1>1 DEF Free, Chosen, Given, Busy
<1>9. PlaceInv'
  BY <1>t, <1>1, <1>4, <1>5, <1>7, <1>8 DEF PlaceInv
<1>10. OnceInv'
  BY <1>t, <1>1, <1>5 DEF OnceInv, DBTypeOK
<1>11. OwnerInv'
  BY <1>t, <1>1 DEF OwnerInv, Idle, DBTypeOK
<1>12. MessageInv'
  <2>1. Underway' = Underway \ {c}
    BY <1>t, <1>1 DEF Underway, DBTypeOK
  <2>2. sent' + Cardinality(Underway') <= MaxMessages
    <3>1. /\ Cardinality(Underway') = Cardinality(Underway) - 1
          /\ Cardinality(Underway) \in Nat /\ sent + Cardinality(Underway) <= MaxMessages
      BY <1>t, <1>1, <2>1, UnderwayFacts DEF MessageInv
    <3>2. sent \in Nat /\ MaxMessages \in Nat
      BY <1>t, DBAssumption DEF DBTypeOK
    <3> QED BY <1>1, <3>1, <3>2
  <2>3. Loaded' = Loaded \cup {r}
    BY <1>1, <1>5, <1>8 DEF Loaded
  <2>4. \A q \in Request : m_pMessage'[q] = IF q = r THEN sent + 1 ELSE m_pMessage[q]
    BY <1>t, <1>1 DEF DBTypeOK
  <2>5. sent \in Nat /\ \A q \in Request : m_pMessage[q] \in Nat
    BY <1>t DEF DBTypeOK
  <2>6. sent + 1 \notin executed /\ executed' \subseteq 1..sent'
    BY <1>t, <1>1, <2>5 DEF MessageInv
  <2> QED BY <1>t, <1>1, <2>2, <2>3, <2>4, <2>5, <2>6 DEF MessageInv, NoMessage
<1>13. RaceInv'
  BY <1>t, <1>1 DEF RaceInv, DBTypeOK
<1> QED BY <1>3, <1>6, <1>9, <1>10, <1>11, <1>12, <1>13 DEF DBInv

(* What steps of the manager and the workers leave to the callers.          *)
LEMMA MessagesFrame ==
  ASSUME MessageInv, UNCHANGED <<callerPc, sent, m_pMessage, executed>>, Loaded' = Loaded
  PROVE  MessageInv'
BY DEF MessageInv, Underway

LEMMA RaceFrame ==
  ASSUME RaceInv, UNCHANGED <<callerPc, raced, refused>>, m_reqQueue # <<>> => m_reqQueue' # <<>>
  PROVE  RaceInv'
BY DEF RaceInv

(* Create_Worker_Pool.                                                      *)
LEMMA CreateWorkerPoolKeeps ==
  ASSUME DBInv, NEW k \in 0..workerPoolSize, CreateWorkerPool(k)
  PROVE  DBInv'
<1>t. DBTypeOK /\ PlaceInv /\ OnceInv /\ OwnerInv /\ MessageInv /\ RaceInv /\ QuietInv
  BY DEF DBInv
<1>1. /\ mgrPc = "create" /\ mgrPc' = "loop"
      /\ m_queueWorkers' = [i \in 1..k |-> i]
      /\ workerPc' = [w \in Worker |-> IF w <= k THEN "loop" ELSE workerPc[w]]
      /\ UNCHANGED <<callerPc, callerReq, sent, allocated, raced, refused, m_reqQueue, m_pMessage,
                     m_queue, m_ShutDown, mgrReq, mgrWorker, workerReq, workerQueue, executed, quiet>>
  BY DEF CreateWorkerPool, UnchangedByManager, callerVars
<1>2. \A w \in Worker : workerPc[w] = "none" /\ workerReq[w] = NoRequest /\ workerQueue[w] = <<>>
  BY <1>t, <1>1 DEF OwnerInv, DBTypeOK
<1>3. /\ m_queueWorkers' \in Seq(Worker) /\ IsInjective(m_queueWorkers')
      /\ \A w \in Worker : w \in Range(m_queueWorkers') <=> w <= k
  <2>1. DOMAIN m_queueWorkers' = 1..k /\ \A i \in 1..k : m_queueWorkers'[i] = i
    BY <1>1
  <2>2. m_queueWorkers' \in Seq(Worker)
    BY <1>1, DBAssumption DEF Worker
  <2> QED BY <2>1, <2>2, DBAssumption DEF IsInjective, Range, Worker
<1>4. \A w \in Worker : workerPc'[w] = IF w \in Range(m_queueWorkers') THEN "loop" ELSE "none"
  BY <1>1, <1>2, <1>3
<1>5. DBTypeOK'
  BY <1>t, <1>1, <1>3 DEF DBTypeOK
<1>6. PlaceInv' /\ OnceInv' /\ UNCHANGED <<Queued, Chosen, Given>>
  BY <1>t, <1>1, <1>3, PlacesFrame
<1>7. OwnerInv'
  BY <1>t, <1>1, <1>2, <1>4 DEF OwnerInv, Idle
<1>8. MessageInv'
  <2>1. Loaded' = Loaded
    BY <1>1, <1>2, <1>4, <1>6 DEF Loaded
  <2> QED BY <1>t, <1>1, <2>1, MessagesFrame
<1>9. RaceInv'
  BY <1>t, <1>1, RaceFrame
<1>10. QuietInv'
  BY <1>t, <1>1, <1>4 DEF QuietInv
<1> QED BY <1>5, <1>6, <1>7, <1>8, <1>9, <1>10 DEF DBInv

(* The steps of the manager's thread that only move on in svc, and Destroy. *)
LEMMA MovesOnKeeps ==
  ASSUME DBInv, ManagerLoop \/ Join \/ Destroy
  PROVE  DBInv'
<1>t. DBTypeOK /\ PlaceInv /\ OnceInv /\ OwnerInv /\ MessageInv /\ RaceInv /\ QuietInv
  BY DEF DBInv
<1>1. UNCHANGED <<callerPc, callerReq, sent, allocated, raced, refused, m_reqQueue, m_pMessage,
                  m_queue, m_ShutDown, mgrReq, mgrWorker, m_queueWorkers, workerPc, workerReq,
                  workerQueue, executed, quiet>>
  BY DEF ManagerLoop, Join, Destroy, UnchangedByManager, callerVars, workerVars
<1>2. \/ mgrPc = "loop" /\ mgrPc' = "drain" /\ m_ShutDown = 1
      \/ mgrPc = "loop" /\ mgrPc' = "dequeue"
      \/ mgrPc = "join" /\ mgrPc' = "drain" /\ workerPc[mgrWorker] = "ended"
      \/ mgrPc = "done" /\ mgrPc' = "destroyed" /\ m_ShutDown = 1
  BY DEF ManagerLoop, Join, Destroy, WaitTask
<1>3. DBTypeOK'
  BY <1>t, <1>1, <1>2 DEF DBTypeOK
<1>4. PlaceInv' /\ OnceInv' /\ UNCHANGED <<Queued, Chosen, Given>>
  BY <1>t, <1>1, PlacesFrame DEF OnceInv
<1>5. OwnerInv'
  BY <1>t, <1>1, <1>2 DEF OwnerInv, Idle
<1>6. MessageInv'
  <2>1. Loaded' = Loaded
    BY <1>1, <1>4 DEF Loaded
  <2> QED BY <1>t, <1>1, <2>1, MessagesFrame
<1>7. RaceInv'
  BY <1>t, <1>1, RaceFrame
<1>8. QuietInv'
  BY <1>t, <1>1, <1>2 DEF QuietInv, DBTypeOK
<1> QED BY <1>3, <1>4, <1>5, <1>6, <1>7, <1>8 DEF DBInv

(* The dequeue of svc.                                                      *)
LEMMA ManagerDequeueKeeps ==
  ASSUME DBInv, ManagerDequeue
  PROVE  DBInv'
<1>t. DBTypeOK /\ PlaceInv /\ OnceInv /\ OwnerInv /\ MessageInv /\ RaceInv /\ QuietInv
  BY DEF DBInv
<1>1. /\ mgrPc = "dequeue" /\ mgrReq = NoRequest
      /\ UNCHANGED <<callerPc, callerReq, sent, allocated, raced, refused, m_reqQueue, m_pMessage,
                     m_ShutDown, mgrWorker, m_queueWorkers, workerPc, workerReq, workerQueue,
                     executed, quiet>>
  BY <1>t DEF ManagerDequeue, UnchangedByManager, callerVars, workerVars, OwnerInv
<1>2. RaceInv'
  BY <1>t, <1>1, RaceFrame
<1>3. CASE m_queue = <<>>
  <2>1. mgrPc' = "loop" /\ UNCHANGED <<mgrReq, m_queue>>
    BY <1>3 DEF ManagerDequeue
  <2>2. DBTypeOK'
    BY <1>t, <1>1, <2>1 DEF DBTypeOK
  <2>3. PlaceInv' /\ OnceInv' /\ UNCHANGED <<Queued, Chosen, Given>>
    BY <1>t, <1>1, <2>1, PlacesFrame DEF OnceInv
  <2>4. OwnerInv'
    BY <1>t, <1>1, <2>1 DEF OwnerInv, Idle
  <2>5. Loaded' = Loaded
    BY <1>1, <2>3 DEF Loaded
  <2>6. QuietInv'
    BY <1>t, <1>1, <2>1 DEF QuietInv
  <2> QED BY <1>t, <1>1, <1>2, <2>2, <2>3, <2>4, <2>5, <2>6, MessagesFrame DEF DBInv
<1>4. CASE m_queue # <<>>
  <2>1. PICK r : r = Head(m_queue)
    OBVIOUS
  <2>2. mgrPc' = "choose" /\ mgrReq' = r /\ m_queue' = Tail(m_queue)
    BY <1>4, <2>1 DEF ManagerDequeue
  <2>3. /\ r \in Request /\ m_queue' \in Seq(Request) /\ r \in Queued
        /\ IsInjective(m_queue') /\ Queued' = Queued \ {r}
    BY <1>t, <1>4, <2>1, <2>2, TailFacts DEF DBTypeOK, OnceInv, Queued
  <2>4. DBTypeOK'
    BY <1>t, <1>1, <2>2, <2>3 DEF DBTypeOK
  <2>5. Chosen = {} /\ Chosen' = {r}
    BY <1>1, <2>2, <2>3, DBAssumption DEF Chosen
  <2>6. UNCHANGED <<Free, Held, Given, Busy>>
    BY <1>1 DEF Free, Held, Given, Busy
  <2>7. PlaceInv'
    BY <1>t, <1>1, <2>3, <2>5, <2>6 DEF PlaceInv
  <2>8. OnceInv'
    BY <1>t, <1>1, <2>3 DEF OnceInv
  <2>9. OwnerInv'
    BY <1>t, <1>1, <2>2, <2>3, DBAssumption DEF OwnerInv, Idle
  <2>10. Loaded' = Loaded
    BY <1>1, <2>3, <2>5, <2>6 DEF Loaded
  <2>11. QuietInv'
    BY <1>t, <1>1, <1>4, <2>2 DEF QuietInv
  <2> QED BY <1>t, <1>1, <1>2, <2>4, <2>7, <2>8, <2>9, <2>10, <2>11, MessagesFrame DEF DBInv
<1> QED BY <1>3, <1>4

(* ChooseDBWorker and the loop after svc's take a worker from the queue.    *)
LEMMA TakeWorkerKeeps ==
  ASSUME DBInv, ChooseDBWorker \/ Drain
  PROVE  DBInv'
<1>t. DBTypeOK /\ PlaceInv /\ OnceInv /\ OwnerInv /\ MessageInv /\ RaceInv /\ QuietInv
  BY DEF DBInv
<1>1. UNCHANGED <<callerPc, callerReq, sent, allocated, raced, refused, m_reqQueue, m_pMessage,
                  m_queue, m_ShutDown, mgrReq, workerPc, workerReq, workerQueue, executed, quiet>>
  BY DEF ChooseDBWorker, Drain, UnchangedByManager, callerVars, workerVars
<1>2. PlaceInv' /\ (IsInjective(m_queueWorkers') => OnceInv') /\ UNCHANGED <<Queued, Chosen, Given>>
  BY <1>t, <1>1, PlacesFrame
<1>3. Loaded' = Loaded
  BY <1>1, <1>2 DEF Loaded
<1>4. MessageInv' /\ RaceInv'
  BY <1>t, <1>1, <1>3, MessagesFrame, RaceFrame
<1>5. CASE m_queueWorkers = <<>>
  <2>1. /\ UNCHANGED <<mgrWorker, m_queueWorkers>>
        /\ \/ mgrPc = "choose" /\ mgrPc' = "wait"
           \/ mgrPc = "drain" /\ mgrPc' = "done"
    BY <1>5 DEF ChooseDBWorker, Drain
  <2>2. DBTypeOK' /\ OnceInv'
    BY <1>t, <1>1, <1>2, <2>1 DEF DBTypeOK, OnceInv
  <2>3. OwnerInv'
    BY <1>t, <1>1, <2>1 DEF OwnerInv, Idle
  <2>4. QuietInv'
    <3>1. Range(m_queueWorkers) = {}
      BY <1>5, EmptyFacts
    <3> QED BY <1>t, <1>1, <2>1, <3>1 DEF QuietInv, OwnerInv
  <2> QED BY <1>2, <1>4, <2>2, <2>3, <2>4 DEF DBInv
<1>6. CASE m_queueWorkers # <<>>
  <2>1. PICK w : w = Head(m_queueWorkers)
    OBVIOUS
  <2>2. /\ mgrWorker' = w /\ m_queueWorkers' = Tail(m_queueWorkers)
        /\ \/ mgrPc = "choose" /\ mgrPc' = "assign"
           \/ mgrPc = "drain" /\ mgrPc' = "join"
    BY <1>6, <2>1 DEF ChooseDBWorker, Drain, TakeWorker
  <2>3. /\ w \in Worker /\ m_queueWorkers' \in Seq(Worker) /\ w \in Range(m_queueWorkers)
        /\ IsInjective(m_queueWorkers') /\ Range(m_queueWorkers') = Range(m_queueWorkers) \ {w}
    BY <1>t, <1>6, <2>1, <2>2, TailFacts DEF DBTypeOK, OnceInv
  <2>4. DBTypeOK'
    BY <1>t, <1>1, <2>2, <2>3 DEF DBTypeOK
  <2>5. OwnerInv'
    BY <1>t, <1>1, <2>2, <2>3 DEF OwnerInv, Idle
  <2>6. QuietInv'
    BY <1>t, <1>1, <2>2, <2>3 DEF QuietInv, OwnerInv
  <2> QED BY <1>2, <1>4, <2>3, <2>4, <2>5, <2>6 DEF DBInv
<1> QED BY <1>5, <1>6

(* The manager gives a worker its request.                                  *)
LEMMA AssignKeeps ==
  ASSUME DBInv, Assign
  PROVE  DBInv'
<1>t. DBTypeOK /\ PlaceInv /\ OnceInv /\ OwnerInv /\ MessageInv /\ RaceInv /\ QuietInv
  BY DEF DBInv
<1>w. PICK w \in Worker, r \in Request : w = mgrWorker /\ r = mgrReq
  BY <1>t DEF Assign, OwnerInv, DBTypeOK
<1>1. /\ mgrPc = "assign" /\ mgrPc' = "loop" /\ mgrReq' = NoRequest
      /\ workerQueue' = [workerQueue EXCEPT ![w] = Append(workerQueue[w], r)]
      /\ UNCHANGED <<callerPc, callerReq, sent, allocated, raced, refused, m_reqQueue, m_pMessage,
                     m_queue, m_ShutDown, mgrWorker, m_queueWorkers, workerPc, workerReq, executed,
                     quiet>>
  BY <1>w DEF Assign, UnchangedByManager, callerVars
<1>2. Idle(w) /\ w \notin Range(m_queueWorkers) /\ workerQueue[w] = <<>>
  BY <1>t, <1>w, <1>1 DEF OwnerInv, Idle
<1>3. Append(workerQueue[w], r) = <<r>> /\ <<r>> \in Seq(Request) /\ Len(<<r>>) = 1
  BY <1>2
<1>4. Range(<<r>>) = {r} /\ Range(<<>>) = {}
  BY EmptyFacts DEF Range
<1>5. \A v \in Worker : workerQueue'[v] = IF v = w THEN <<r>> ELSE workerQueue[v]
  BY <1>t, <1>1, <1>3 DEF DBTypeOK
<1>6. DBTypeOK'
  BY <1>t, <1>1, <1>3 DEF DBTypeOK
<1>7. Chosen = {r} /\ Chosen' = {} /\ Given' = Given \cup {r}
  <2>1. Chosen = {r} /\ Chosen' = {}
    BY <1>w, <1>1, DBAssumption DEF Chosen
  <2>2. \A v \in Worker : Range(workerQueue'[v]) = IF v = w THEN {r} ELSE Range(workerQueue[v])
    BY <1>4, <1>5
  <2> QED BY <1>2, <1>4, <2>1, <2>2 DEF Given
<1>8. UNCHANGED <<Free, Held, Queued, Busy>>
  BY <1>1 DEF Free, Held, Queued, Busy
<1>9. PlaceInv'
  BY <1>t, <1>1, <1>7, <1>8 DEF PlaceInv
<1>10. OnceInv'
  <2>1. \A v \in Worker : r \notin Range(workerQueue[v])
    BY <1>t, <1>7 DEF PlaceInv, Given
  <2>2. \A v \in Worker : Range(workerQueue'[v]) = IF v = w THEN {r} ELSE Range(workerQueue[v])
    BY <1>4, <1>5
  <2> QED BY <1>t, <1>1, <2>1, <2>2 DEF OnceInv
<1>11. OwnerInv'
  BY <1>t, <1>1, <1>2, <1>3, <1>5 DEF OwnerInv, Idle
<1>12. Loaded' = Loaded
  BY <1>1, <1>7, <1>8 DEF Loaded
<1>13. QuietInv'
  BY <1>t, <1>w, <1>1, DBAssumption DEF QuietInv
<1> QED BY <1>t, <1>1, <1>6, <1>9, <1>10, <1>11, <1>12, <1>13, MessagesFrame, RaceFrame DEF DBInv

(* The condition of the loop in the worker's svc.                           *)
LEMMA WorkerLoopKeeps ==
  ASSUME DBInv, NEW w \in Worker, WorkerLoop(w)
  PROVE  DBInv'
<1>t. DBTypeOK /\ PlaceInv /\ OnceInv /\ OwnerInv /\ MessageInv /\ RaceInv /\ QuietInv
  BY DEF DBInv
<1>1. UNCHANGED <<callerPc, callerReq, sent, allocated, raced, refused, m_reqQueue, m_pMessage,
                  m_queue, m_ShutDown, mgrPc, mgrReq, mgrWorker, m_queueWorkers, workerReq,
                  workerQueue, executed, quiet>>
  BY DEF WorkerLoop, callerVars, mgrVars
<1>2. PICK x : /\ workerPc[w] = "loop" /\ workerPc' = [workerPc EXCEPT ![w] = x]
               /\ \/ x = "undefined" /\ mgrPc = "destroyed"
                  \/ x \in {"ended", "dequeue"} /\ mgrPc # "destroyed"
  BY DEF WorkerLoop
<1>3. DBTypeOK'
  BY <1>t, <1>1, <1>2 DEF DBTypeOK
<1>4. \A v \in Worker : workerPc'[v] = IF v = w THEN x ELSE workerPc[v]
  BY <1>t, <1>2 DEF DBTypeOK
<1>5. PlaceInv' /\ OnceInv' /\ UNCHANGED <<Queued, Chosen, Given>>
  BY <1>t, <1>1, PlacesFrame DEF OnceInv
<1>6. OwnerInv'
  BY <1>t, <1>1, <1>2, <1>4 DEF OwnerInv, Idle
<1>7. Loaded' = Loaded
  BY <1>1, <1>2, <1>4, <1>5 DEF Loaded
<1>8. QuietInv'
  BY <1>t, <1>1, <1>2, <1>4 DEF QuietInv
<1> QED BY <1>t, <1>1, <1>3, <1>5, <1>6, <1>7, <1>8, MessagesFrame, RaceFrame DEF DBInv

(* The dequeue of the worker's svc.                                         *)
LEMMA WorkerDequeueKeeps ==
  ASSUME DBInv, NEW w \in Worker, WorkerDequeue(w)
  PROVE  DBInv'
<1>t. DBTypeOK /\ PlaceInv /\ OnceInv /\ OwnerInv /\ MessageInv /\ RaceInv /\ QuietInv
  BY DEF DBInv
<1>1. /\ workerPc[w] = "dequeue"
      /\ UNCHANGED <<callerPc, callerReq, sent, allocated, raced, refused, m_reqQueue, m_pMessage,
                     m_queue, m_ShutDown, mgrPc, mgrReq, mgrWorker, m_queueWorkers, executed, quiet>>
  BY DEF WorkerDequeue, callerVars, mgrVars
<1>2. workerReq[w] = NoRequest
  BY <1>t, <1>1 DEF OwnerInv
<1>3. CASE workerQueue[w] = <<>>
  <2>1. workerPc' = [workerPc EXCEPT ![w] = "loop"] /\ UNCHANGED <<workerReq, workerQueue>>
    BY <1>3 DEF WorkerDequeue
  <2>2. DBTypeOK' /\ \A v \in Worker : workerPc'[v] = IF v = w THEN "loop" ELSE workerPc[v]
    BY <1>t, <1>1, <2>1 DEF DBTypeOK
  <2>3. PlaceInv' /\ OnceInv' /\ UNCHANGED <<Queued, Chosen, Given>>
    BY <1>t, <1>1, <2>1, PlacesFrame DEF OnceInv
  <2>4. OwnerInv'
    BY <1>t, <1>1, <2>1, <2>2 DEF OwnerInv, Idle
  <2>5. Loaded' = Loaded
    BY <1>1, <2>1, <2>2, <2>3 DEF Loaded
  <2>6. QuietInv'
    BY <1>t, <1>1, <2>2 DEF QuietInv
  <2> QED BY <1>t, <1>1, <2>2, <2>3, <2>4, <2>5, <2>6, MessagesFrame, RaceFrame DEF DBInv
<1>4. CASE workerQueue[w] # <<>>
  <2>1. PICK r : r = Head(workerQueue[w])
    OBVIOUS
  <2>2. /\ workerPc' = [workerPc EXCEPT ![w] = "call"]
        /\ workerReq' = [workerReq EXCEPT ![w] = r]
        /\ workerQueue' = [workerQueue EXCEPT ![w] = Tail(workerQueue[w])]
    BY <1>4, <2>1 DEF WorkerDequeue
  <2>3. r \in Request /\ workerQueue[w] = <<r>> /\ Tail(workerQueue[w]) = <<>>
    BY <1>t, <1>4, <2>1 DEF DBTypeOK, OwnerInv
  <2>4. Range(<<r>>) = {r} /\ Range(<<>>) = {}
    BY EmptyFacts DEF Range
  <2>5. /\ \A v \in Worker : workerPc'[v] = IF v = w THEN "call" ELSE workerPc[v]
        /\ \A v \in Worker : workerReq'[v] = IF v = w THEN r ELSE workerReq[v]
        /\ \A v \in Worker : workerQueue'[v] = IF v = w THEN <<>> ELSE workerQueue[v]
    BY <1>t, <2>2, <2>3 DEF DBTypeOK
  <2>6. DBTypeOK'
    <3>1. <<>> \in Seq(Request)
      OBVIOUS
    <3> QED BY <1>t, <1>1, <2>2, <2>3, <3>1 DEF DBTypeOK
  <2>7. r \in Given /\ Given' = Given \ {r}
    <3>1. \A v \in Worker : r \in Range(workerQueue[v]) => v = w
      BY <1>t, <2>3, <2>4 DEF OnceInv
    <3>2. \A v \in Worker : Range(workerQueue'[v]) = IF v = w THEN {} ELSE Range(workerQueue[v])
      BY <2>4, <2>5
    <3> QED BY <2>3, <2>4, <3>1, <3>2 DEF Given
  <2>8. Busy' = Busy \cup {r}
    BY <1>2, <2>3, <2>5, DBAssumption DEF Busy
  <2>9. UNCHANGED <<Free, Held, Queued, Chosen>>
    BY <1>1 DEF Free, Held, Queued, Chosen
  <2>10. PlaceInv'
    BY <1>t, <1>1, <2>7, <2>8, <2>9 DEF PlaceInv
  <2>11. OnceInv'
    <3>1. \A v \in Worker : workerReq[v] # r
      BY <1>t, <2>3, <2>7 DEF PlaceInv, Busy
    <3>2. \A v \in Worker : Range(workerQueue'[v]) = IF v = w THEN {} ELSE Range(workerQueue[v])
      BY <2>4, <2>5
    <3> QED BY <1>t, <1>1, <2>5, <3>1, <3>2 DEF OnceInv
  <2>12. OwnerInv'
    <3>1. w \notin Range(m_queueWorkers) /\ ~(mgrPc \in {"assign", "join"} /\ mgrWorker = w)
      BY <1>t, <1>4 DEF OwnerInv, Idle
    <3>2. Len(<<>>) = 0 /\ mgrWorker \in Worker
      BY <1>t DEF DBTypeOK
    <3> QED BY <1>t, <1>1, <2>3, <2>5, <3>1, <3>2, DBAssumption DEF OwnerInv, Idle
  <2>13. Loaded' = Loaded
    BY <1>1, <1>2, <2>3, <2>5, <2>7, <2>9, DBAssumption DEF Loaded
  <2>14. QuietInv'
    <3>1. ~quiet
      BY <1>t, <1>1, <1>4 DEF QuietInv, OwnerInv, Idle
    <3> QED BY <1>t, <1>1, <2>5, <3>1 DEF QuietInv
  <2> QED BY <1>t, <1>1, <2>6, <2>10, <2>11, <2>12, <2>13, <2>14, MessagesFrame, RaceFrame DEF DBInv
<1> QED BY <1>3, <1>4

(* SFDBRequest::call.                                                       *)
LEMMA CallKeeps ==
  ASSUME DBInv, NEW w \in Worker, Call(w)
  PROVE  DBInv'
<1>t. DBTypeOK /\ PlaceInv /\ OnceInv /\ OwnerInv /\ MessageInv /\ RaceInv /\ QuietInv
  BY DEF DBInv
<1>r. PICK r \in Request : r = workerReq[w]
  BY <1>t DEF Call, OwnerInv, DBTypeOK
<1>1. /\ workerPc[w] = "call" /\ workerPc' = [workerPc EXCEPT ![w] = "return"]
      /\ executed' = executed \cup {m_pMessage[r]}
      /\ m_pMessage' = [m_pMessage EXCEPT ![r] = NoMessage]
      /\ UNCHANGED <<callerPc, callerReq, sent, allocated, raced, refused, m_reqQueue, m_queue,
                     m_ShutDown, mgrPc, mgrReq, mgrWorker, m_queueWorkers, workerReq, workerQueue,
                     quiet>>
  BY <1>r DEF Call, callerVars, mgrVars
<1>2. /\ \A v \in Worker : workerPc'[v] = IF v = w THEN "return" ELSE workerPc[v]
      /\ \A q \in Request : m_pMessage'[q] = IF q = r THEN NoMessage ELSE m_pMessage[q]
      /\ sent \in Nat /\ \A q \in Request : m_pMessage[q] \in Nat
  BY <1>t, <1>1 DEF DBTypeOK
<1>3. DBTypeOK'
  BY <1>t, <1>1, <1>2 DEF DBTypeOK, NoMessage
<1>4. PlaceInv' /\ OnceInv' /\ UNCHANGED <<Queued, Chosen, Given>>
  BY <1>t, <1>1, PlacesFrame DEF OnceInv
<1>5. OwnerInv'
  BY <1>t, <1>1, <1>2 DEF OwnerInv, Idle
<1>6. MessageInv'
  <2>1. r \in Loaded /\ Loaded' = Loaded \ {r}
    <3>1. r \in Busy /\ r \notin Queued \cup Chosen \cup Given
      BY <1>t, <1>r DEF PlaceInv, Busy
    <3>2. \A v \in Worker : workerReq[v] = r => v = w
      BY <1>t, <1>r, DBAssumption DEF OnceInv
    <3> QED BY <1>r, <1>1, <1>2, <1>4, <3>1, <3>2 DEF Loaded
  <2>2. m_pMessage[r] \in 1..sent
    BY <1>t, <1>2, <2>1 DEF MessageInv, NoMessage
  <2>3. executed' \subseteq 1..sent'
    BY <1>t, <1>1, <2>2 DEF MessageInv
  <2>4. \A q \in Request : m_pMessage'[q] \notin executed'
    BY <1>t, <1>1, <1>2, <2>1, <2>2 DEF MessageInv, NoMessage
  <2> QED BY <1>t, <1>1, <1>2, <2>1, <2>3, <2>4 DEF MessageInv, NoMessage, Underway
<1>7. QuietInv'
  BY <1>t, <1>1, <1>2 DEF QuietInv
<1> QED BY <1>t, <1>1, <1>3, <1>4, <1>5, <1>6, <1>7, RaceFrame DEF DBInv

(* A worker returns while svc takes one from the queue without the lock.    *)
LEMMA DrainRacesKeeps ==
  ASSUME DBInv, NEW w \in Worker, DrainRaces(w)
  PROVE  DBInv'
<1>t. DBTypeOK /\ PlaceInv /\ OnceInv /\ OwnerInv /\ MessageInv /\ RaceInv /\ QuietInv
  BY DEF DBInv
<1>1. /\ mgrPc = "drain" /\ mgrPc' = "undefined" /\ workerPc[w] = "return"
      /\ workerPc' = [workerPc EXCEPT ![w] = "undefined"]
      /\ UNCHANGED <<callerPc, callerReq, sent, allocated, raced, refused, m_reqQueue, m_pMessage,
                     m_queue, m_ShutDown, mgrReq, mgrWorker, m_queueWorkers, workerReq, workerQueue,
                     executed, quiet>>
  BY DEF DrainRaces, UnchangedByManager, callerVars
<1>2. DBTypeOK' /\ \A v \in Worker : workerPc'[v] = IF v = w THEN "undefined" ELSE workerPc[v]
  BY <1>t, <1>1 DEF DBTypeOK
<1>3. PlaceInv' /\ OnceInv' /\ UNCHANGED <<Queued, Chosen, Given>>
  BY <1>t, <1>1, PlacesFrame DEF OnceInv
<1>4. OwnerInv'
  BY <1>t, <1>1, <1>2 DEF OwnerInv, Idle
<1>5. Loaded' = Loaded
  BY <1>1, <1>2, <1>3 DEF Loaded
<1>6. ~quiet
  BY <1>t, <1>1 DEF QuietInv
<1>7. QuietInv'
  BY <1>t, <1>1, <1>2, <1>6 DEF QuietInv
<1> QED BY <1>t, <1>1, <1>2, <1>3, <1>4, <1>5, <1>7, MessagesFrame, RaceFrame DEF DBInv

(* return_to_work.                                                          *)
LEMMA ReturnKeeps ==
  ASSUME DBInv, NEW w \in Worker, return_to_work(w)
  PROVE  DBInv'
<1>t. DBTypeOK /\ PlaceInv /\ OnceInv /\ OwnerInv /\ MessageInv /\ RaceInv /\ QuietInv
  BY DEF DBInv
<1>r. PICK r \in Request : r = workerReq[w]
  BY <1>t DEF return_to_work, OwnerInv, DBTypeOK
<1>1. /\ workerPc[w] = "return"
      /\ UNCHANGED <<callerPc, callerReq, sent, allocated, raced, refused, m_pMessage, m_queue,
                     m_ShutDown, mgrReq, mgrWorker, workerQueue, executed, quiet>>
  BY DEF return_to_work, callerVars
<1>2. ~quiet
  BY <1>t, <1>1 DEF QuietInv
<1>3. CASE mgrPc \in {"destroyed", "undefined"}
  <2>1. /\ workerPc' = [workerPc EXCEPT ![w] = "undefined"]
        /\ UNCHANGED <<workerReq, m_queueWorkers, m_reqQueue, mgrPc>>
    BY <1>3 DEF return_to_work
  <2>2. DBTypeOK' /\ \A v \in Worker : workerPc'[v] = IF v = w THEN "undefined" ELSE workerPc[v]
    BY <1>t, <1>1, <2>1 DEF DBTypeOK
  <2>3. PlaceInv' /\ OnceInv' /\ UNCHANGED <<Queued, Chosen, Given>>
    BY <1>t, <1>1, <2>1, PlacesFrame DEF OnceInv
  <2>4. OwnerInv'
    BY <1>t, <1>1, <2>1, <2>2 DEF OwnerInv, Idle
  <2>5. Loaded' = Loaded
    BY <1>1, <2>1, <2>2, <2>3 DEF Loaded
  <2>6. QuietInv'
    BY <1>t, <1>1, <1>2, <1>3, <2>1, <2>2 DEF QuietInv
  <2> QED BY <1>t, <1>1, <2>1, <2>2, <2>3, <2>4, <2>5, <2>6, MessagesFrame, RaceFrame DEF DBInv
<1>4. CASE mgrPc \notin {"destroyed", "undefined"}
  <2>1. /\ m_queueWorkers' = Append(m_queueWorkers, w)
        /\ m_reqQueue' = Append(m_reqQueue, r)
        /\ mgrPc' = IF mgrPc = "wait" THEN "choose" ELSE mgrPc
        /\ workerPc' = [workerPc EXCEPT ![w] = "loop"]
        /\ workerReq' = [workerReq EXCEPT ![w] = NoRequest]
    BY <1>r, <1>4 DEF return_to_work, Signal
  <2>2. /\ w \notin Range(m_queueWorkers) /\ workerQueue[w] = <<>>
        /\ ~(mgrPc \in {"assign", "join"} /\ mgrWorker = w) /\ mgrPc # "create"
    BY <1>t, <1>r, <1>1, DBAssumption DEF OwnerInv, Idle
  <2>3. r \in Busy /\ r \notin Free
    BY <1>t, <1>r DEF PlaceInv, Busy
  <2>4. /\ m_reqQueue' \in Seq(Request) /\ m_reqQueue' # <<>>
        /\ IsInjective(m_reqQueue') /\ Free' = Free \cup {r}
    <3>1. m_reqQueue \in Seq(Request) /\ IsInjective(m_reqQueue) /\ r \notin Range(m_reqQueue)
      BY <1>t, <2>3 DEF DBTypeOK, OnceInv, Free
    <3> QED BY <2>1, <3>1, AppendFacts DEF Free
  <2>5. /\ m_queueWorkers' \in Seq(Worker) /\ IsInjective(m_queueWorkers')
        /\ Range(m_queueWorkers') = Range(m_queueWorkers) \cup {w}
    BY <1>t, <2>1, <2>2, AppendFacts DEF DBTypeOK, OnceInv
  <2>6. /\ \A v \in Worker : workerPc'[v] = IF v = w THEN "loop" ELSE workerPc[v]
        /\ \A v \in Worker : workerReq'[v] = IF v = w THEN NoRequest ELSE workerReq[v]
    BY <1>t, <2>1 DEF DBTypeOK
  <2>7. DBTypeOK'
    BY <1>t, <1>1, <2>1, <2>4, <2>5 DEF DBTypeOK
  <2>8. Busy' = Busy \ {r}
    BY <1>t, <1>r, <2>6, DBAssumption DEF Busy, OnceInv
  <2>9. UNCHANGED <<Held, Queued, Chosen, Given>>
    BY <1>1 DEF Held, Queued, Chosen, Given
  <2>10. PlaceInv'
    BY <1>t, <1>1, <2>3, <2>4, <2>8, <2>9 DEF PlaceInv
  <2>11. OnceInv'
    BY <1>t, <1>1, <2>4, <2>5, <2>6 DEF OnceInv
  <2>12. OwnerInv'
    BY <1>t, <1>1, <2>1, <2>2, <2>5, <2>6 DEF OwnerInv, Idle
  <2>13. Loaded' = Loaded
    BY <1>1, <2>6, <2>9, DBAssumption DEF Loaded
  <2>14. QuietInv'
    BY <1>t, <1>1, <1>2, <1>4, <2>1, <2>6 DEF QuietInv
  <2> QED BY <1>t, <1>1, <2>4, <2>7, <2>10, <2>11, <2>12, <2>13, <2>14, MessagesFrame, RaceFrame DEF DBInv
<1> QED BY <1>3, <1>4

(* SFDBManager::ShutDown.                                                   *)
LEMMA ShutDownKeeps ==
  ASSUME DBInv, ShutDown
  PROVE  DBInv'
<1>t. DBTypeOK /\ PlaceInv /\ OnceInv /\ OwnerInv /\ MessageInv /\ RaceInv /\ QuietInv
  BY DEF DBInv
<1>1. /\ m_ShutDown = 0 /\ m_ShutDown' = 1
      /\ \A c \in Caller : callerPc[c] = "idle"
      /\ quiet' = (m_queue = <<>> /\ mgrReq = NoRequest
                   /\ \A w \in Worker : workerPc[w] # "none" => w \in Range(m_queueWorkers))
      /\ UNCHANGED <<callerPc, callerReq, sent, allocated, raced, refused, m_reqQueue, m_pMessage,
                     m_queue, mgrPc, mgrReq, mgrWorker, m_queueWorkers, workerPc, workerReq,
                     workerQueue, executed>>
  BY DEF ShutDown, callerVars, mgrVars, workerVars
<1>2. DBTypeOK'
  BY <1>t, <1>1 DEF DBTypeOK
<1>3. PlaceInv' /\ OnceInv' /\ UNCHANGED <<Queued, Chosen, Given>>
  BY <1>t, <1>1, PlacesFrame DEF OnceInv
<1>4. OwnerInv'
  BY <1>t, <1>1 DEF OwnerInv, Idle
<1>5. Loaded' = Loaded
  BY <1>1, <1>3 DEF Loaded
<1>6. QuietInv'
  <2>1. mgrPc \notin {"drain", "join", "done", "destroyed", "undefined"}
    BY <1>t, <1>1 DEF QuietInv
  <2> QED BY <1>t, <1>1, <2>1 DEF QuietInv, OwnerInv, Idle
<1> QED BY <1>t, <1>1, <1>2, <1>3, <1>4, <1>5, <1>6, MessagesFrame, RaceFrame DEF DBInv

-----------------------------------------------------------------------------
(* Nothing is created before the first call.                                *)
LEMMA DBInitInv == DBInit => DBInv
<1> SUFFICES ASSUME DBInit PROVE DBInv
  OBVIOUS
<1> USE DBAssumption DEF DBInit
<1>1. Range(<<>>) = {} /\ IsInjective(<<>>) /\ Len(<<>>) = 0
  BY EmptyFacts DEF IsInjective
<1>2. DBTypeOK
  <2>1. 1 \in Worker
    BY DEF Worker
  <2>2. /\ callerPc \in [Caller -> {"idle", "pop", "perform"}]
        /\ callerReq \in [Caller -> Request \cup {NoRequest}]
        /\ m_pMessage \in [Request -> Nat]
    BY DEF NoMessage
  <2>3. /\ workerPc \in [Worker -> {"none", "loop", "dequeue", "call", "return", "ended", "undefined"}]
        /\ workerReq \in [Worker -> Request \cup {NoRequest}]
        /\ workerQueue \in [Worker -> Seq(Request)]
    OBVIOUS
  <2>4. m_reqQueue \in Seq(Request) /\ m_queue \in Seq(Request) /\ m_queueWorkers \in Seq(Worker)
    OBVIOUS
  <2> QED BY <2>1, <2>2, <2>3, <2>4 DEF DBTypeOK
<1>3. Free = {} /\ Held = {} /\ Queued = {} /\ Chosen = {} /\ Given = {} /\ Busy = {}
  BY <1>1 DEF Free, Held, Queued, Chosen, Given, Busy
<1>4. PlaceInv
  BY <1>3 DEF PlaceInv
<1>5. OnceInv
  BY <1>1 DEF OnceInv
<1>6. OwnerInv
  BY <1>1 DEF OwnerInv
<1>7. MessageInv
  <2>1. Loaded = {} /\ Underway = {}
    BY <1>3 DEF Loaded, Underway
  <2> QED BY <2>1, FS_EmptySet DEF MessageInv, NoMessage
<1>8. RaceInv /\ QuietInv
  BY DEF RaceInv, QuietInv
<1> QED BY <1>2, <1>4, <1>5, <1>6, <1>7, <1>8 DEF DBInv

(* Every step keeps the invariant.                                          *)
LEMMA DBNextInv == DBInv /\ [DBNext]_dbVars => DBInv'
<1> SUFFICES ASSUME DBInv, [DBNext]_dbVars PROVE DBInv'
  OBVIOUS
<1>1. ASSUME NEW c \in Caller, CallerNext(c) PROVE DBInv'
  BY <1>1, GetDBReqKeeps, PopDBReqKeeps, PerformKeeps DEF CallerNext
<1>2. CASE ManagerNext
  BY <1>2, CreateWorkerPoolKeeps, MovesOnKeeps, ManagerDequeueKeeps, TakeWorkerKeeps, AssignKeeps,
     DrainRacesKeeps
     DEF ManagerNext
<1>3. ASSUME NEW w \in Worker, WorkerNext(w) PROVE DBInv'
  BY <1>3, WorkerLoopKeeps, WorkerDequeueKeeps, CallKeeps, ReturnKeeps DEF WorkerNext
<1>4. CASE ShutDown \/ Destroy
  BY <1>4, ShutDownKeeps, MovesOnKeeps
<1>5. CASE UNCHANGED dbVars
  <2>1. UNCHANGED <<callerPc, callerReq, sent, allocated, raced, refused, m_reqQueue, m_pMessage,
                    m_queue, m_ShutDown, mgrPc, mgrReq, mgrWorker, m_queueWorkers, workerPc,
                    workerReq, workerQueue, executed, quiet>>
    BY <1>5 DEF dbVars, callerVars, mgrVars, workerVars
  <2>2. DBTypeOK' /\ OwnerInv' /\ QuietInv'
    BY <2>1 DEF DBInv, DBTypeOK, OwnerInv, Idle, QuietInv
  <2>3. PlaceInv' /\ OnceInv' /\ UNCHANGED <<Queued, Chosen, Given>>
    BY <2>1, PlacesFrame DEF DBInv, OnceInv
  <2>4. Loaded' = Loaded
    BY <2>1, <2>3 DEF Loaded
  <2> QED BY <2>1, <2>2, <2>3, <2>4, MessagesFrame, RaceFrame DEF DBInv
<1> QED BY <1>1, <1>2, <1>3, <1>4, <1>5 DEF DBNext

LEMMA DBInvariant == DBSpec => []DBInv
BY DBInitInv, DBNextInv, PTL DEF DBSpec

(* The variables keep their types.                                          *)
THEOREM DBTypeCorrect == DBSpec => []DBTypeOK
<1>1. DBInv => DBTypeOK
  BY DEF DBInv
<1> QED BY <1>1, DBInvariant, PTL

(* How often a thing is in a place that holds it at most once.              *)
LEMMA CountOnce ==
  ASSUME NEW q, NEW x, \A i, j \in DOMAIN q : q[i] = x /\ q[j] = x => i = j
  PROVE  Count(q, x) = IF x \in Range(q) THEN 1 ELSE 0
<1>1. CASE x \in Range(q)
  <2>1. PICK i \in DOMAIN q : q[i] = x
    BY <1>1 DEF Range
  <2>2. {j \in DOMAIN q : q[j] = x} = {i}
    BY <2>1
  <2> QED BY <1>1, <2>2, FS_Singleton DEF Count
<1>2. CASE x \notin Range(q)
  <2>1. {j \in DOMAIN q : q[j] = x} = {}
    BY <1>2 DEF Range
  <2> QED BY <1>2, <2>1, FS_EmptySet DEF Count
<1> QED BY <1>1, <1>2

(* Request objects and workers are never shared, for every number of        *)
(* callers, requests and workers.                                           *)
THEOREM RequestsNeverShared == DBSpec => []NothingShared
<1>1. ASSUME DBInv PROVE RequestInOnePlace
  <2>t. DBTypeOK /\ PlaceInv /\ OnceInv /\ OwnerInv
    BY <1>1 DEF DBInv
  <2> SUFFICES ASSUME NEW r \in Request
               PROVE  Count(m_reqQueue, r) + Count(callerReq, r) + Count(m_queue, r)
                        + (IF mgrReq = r THEN 1 ELSE 0) + Count(workerReq, r)
                        + Cardinality(UNION {{w} \X {i \in DOMAIN workerQueue[w] : workerQueue[w][i] = r}
                                             : w \in Worker})
                      = IF r \in allocated THEN 1 ELSE 0
    BY DEF RequestInOnePlace
  <2> DEFINE given == UNION {{w} \X {i \in DOMAIN workerQueue[w] : workerQueue[w][i] = r} : w \in Worker}
  <2>1. Count(m_reqQueue, r) = IF r \in Free THEN 1 ELSE 0
    BY <2>t, CountOnce DEF OnceInv, IsInjective, Free
  <2>2. Count(m_queue, r) = IF r \in Queued THEN 1 ELSE 0
    BY <2>t, CountOnce DEF OnceInv, IsInjective, Queued
  <2>3. Count(callerReq, r) = IF r \in Held THEN 1 ELSE 0
    <3>1. DOMAIN callerReq = Caller /\ (r \in Range(callerReq) <=> r \in Held)
      BY <2>t DEF DBTypeOK, Range, Held
    <3>2. \A c, d \in DOMAIN callerReq : callerReq[c] = r /\ callerReq[d] = r => c = d
      BY <2>t, <3>1, DBAssumption DEF OnceInv
    <3> QED BY <3>1, <3>2, CountOnce
  <2>4. Count(workerReq, r) = IF r \in Busy THEN 1 ELSE 0
    <3>1. DOMAIN workerReq = Worker /\ (r \in Range(workerReq) <=> r \in Busy)
      BY <2>t DEF DBTypeOK, Range, Busy
    <3>2. \A v, w \in DOMAIN workerReq : workerReq[v] = r /\ workerReq[w] = r => v = w
      BY <2>t, <3>1, DBAssumption DEF OnceInv
    <3> QED BY <3>1, <3>2, CountOnce
  <2>5. (IF mgrReq = r THEN 1 ELSE 0) = IF r \in Chosen THEN 1 ELSE 0
    BY DEF Chosen
  <2>6. Cardinality(given) = IF r \in Given THEN 1 ELSE 0
    <3>1. CASE r \in Given
      <4>1. PICK w \in Worker : r \in Range(workerQueue[w])
        BY <3>1 DEF Given
      <4>2. PICK i \in DOMAIN workerQueue[w] : workerQueue[w][i] = r
        BY <4>1 DEF Range
      <4>3. \A v \in Worker : r \in Range(workerQueue[v]) => v = w
        BY <2>t, <4>1 DEF OnceInv
      <4>4. \A j \in DOMAIN workerQueue[w] : j = i
        <5>1. workerQueue[w] \in Seq(Request) /\ Len(workerQueue[w]) <= 1
          BY <2>t DEF DBTypeOK, OwnerInv
        <5>2. DOMAIN workerQueue[w] \subseteq {1}
          BY <5>1
        <5> QED BY <5>2
      <4>5. given = {<<w, i>>}
        BY <4>2, <4>3, <4>4 DEF Range
      <4> QED BY <3>1, <4>5, FS_Singleton
    <3>2. CASE r \notin Given
      <4>1. given = {}
        BY <3>2 DEF Given, Range
      <4> QED BY <3>2, <4>1, FS_EmptySet
    <3> QED BY <3>1, <3>2
  <2> HIDE DEF given
  <2>7. Count(m_reqQueue, r) + Count(callerReq, r) + Count(m_queue, r)
          + (IF mgrReq = r THEN 1 ELSE 0) + Count(workerReq, r) + Cardinality(given)
        = IF r \in allocated THEN 1 ELSE 0
    BY <2>t, <2>1, <2>2, <2>3, <2>4, <2>5, <2>6 DEF PlaceInv
  <2> QED BY <2>7 DEF given
<1>2. ASSUME DBInv PROVE WorkerExclusive
  <2>t. DBTypeOK /\ OnceInv /\ OwnerInv
    BY <1>2 DEF DBInv
  <2>1. \A w \in Worker : Count(m_queueWorkers, w) = IF w \in Range(m_queueWorkers) THEN 1 ELSE 0
    BY <2>t, CountOnce DEF OnceInv, IsInjective
  <2> QED BY <2>t, <2>1 DEF WorkerExclusive, OwnerInv, Idle
<1>3. DBInv => NothingShared
  BY <1>1, <1>2 DEF NothingShared
<1> QED BY <1>3, DBInvariant, PTL

(* SendDBRequest fails only for a caller that another one overtook.         *)
THEOREM RefusalNeedsRace == DBSpec => []RefusedOnlyByRace
<1>1. DBInv => RefusedOnlyByRace
  BY DEF DBInv, RaceInv, RefusedOnlyByRace
<1> QED BY <1>1, DBInvariant, PTL

(* When nothing is under way at ShutDown, no worker outlives the manager.   *)
THEOREM QuietShutdownIsSafe == DBSpec => []QuietShutdownSafe
<1>1. DBInv => QuietShutdownSafe
  BY DEF DBInv, QuietInv, QuietShutdownSafe
<1> QED BY <1>1, DBInvariant, PTL

(* A message that was sent waits in one request object until it is executed,*)
(* and is executed at most once.                                            *)
THEOREM DBImplementsJobPool == DBSpec => ImplementsJobPool
<1> DEFINE W == Range(m_pMessage) \ {NoMessage}
<1>1. DBInit => J!JobInit
  <2> SUFFICES ASSUME DBInit PROVE J!JobInit
    OBVIOUS
  <2>1. DOMAIN m_pMessage = Request /\ \A r \in Request : m_pMessage[r] = NoMessage
    BY DEF DBInit
  <2>2. W = {}
    BY <2>1 DEF Range
  <2> QED BY <2>2 DEF DBInit, J!JobInit
<1>2. DBInv /\ [DBNext]_dbVars => [J!JobNext]_<<W, executed>>
  <2> SUFFICES ASSUME DBInv, [DBNext]_dbVars PROVE [J!JobNext]_<<W, executed>>
    OBVIOUS
  <2>t. DBTypeOK /\ OwnerInv /\ MessageInv
    BY DEF DBInv
  <2>w. \A m : m \in W <=> m # NoMessage /\ \E r \in Request : m_pMessage[r] = m
    BY <2>t DEF DBTypeOK, Range
  <2>v. \A m : m \in W' <=> m # NoMessage /\ \E r \in Request : m_pMessage'[r] = m
    <3>1. DBTypeOK'
      BY DBNextInv DEF DBInv
    <3> QED BY <3>1 DEF DBTypeOK, Range, NoMessage
  <2>1. ASSUME NEW c \in Caller, Perform(c) PROVE J!JobNext
    <3>1. PICK r \in Request : r = callerReq[c]
      BY <2>t, <2>1 DEF Perform, OwnerInv, DBTypeOK
    <3>2. /\ m_pMessage' = [m_pMessage EXCEPT ![r] = sent + 1] /\ UNCHANGED executed
          /\ callerPc[c] = "perform"
      BY <2>1, <3>1 DEF Perform
    <3>3. sent + 1 \in Message
      <4>1. Cardinality(Underway) \in Nat \ {0} /\ sent + Cardinality(Underway) <= MaxMessages
        BY <2>t, <3>2, UnderwayFacts DEF MessageInv
      <4>2. sent \in Nat /\ MaxMessages \in Nat
        BY <2>t, DBAssumption DEF DBTypeOK
      <4> QED BY <4>1, <4>2 DEF Message
    <3>4. m_pMessage[r] = NoMessage
      <4>1. r \in Held
        BY <3>1 DEF Held
      <4>2. r \notin Loaded
        BY <4>1 DEF DBInv, PlaceInv, Loaded, Busy
      <4> QED BY <2>t, <4>2 DEF MessageInv
    <3>5. sent \in Nat /\ \A q \in Request : m_pMessage[q] \in Nat /\ m_pMessage[q] <= sent
      BY <2>t DEF DBTypeOK, MessageInv
    <3>6. sent + 1 \notin W \cup executed
      BY <2>t, <2>w, <3>5 DEF MessageInv
    <3>7. \A m : m \in W' <=> m \in W \cup {sent + 1}
      <4>1. \A q \in Request : m_pMessage'[q] = IF q = r THEN sent + 1 ELSE m_pMessage[q]
        BY <2>t, <3>2 DEF DBTypeOK
      <4>2. sent + 1 # NoMessage
        BY <3>5 DEF NoMessage
      <4> QED BY <2>w, <2>v, <3>4, <4>1, <4>2
    <3> HIDE DEF W
    <3>8. W' = W \cup {sent + 1}
      BY <3>7
    <3>9. J!Accept(sent + 1)
      BY <3>2, <3>6, <3>8 DEF J!Accept, W
    <3> QED BY <3>3, <3>9 DEF J!JobNext
  <2>2. ASSUME NEW w \in Worker, Call(w) PROVE J!JobNext
    <3>1. PICK r \in Request : r = workerReq[w]
      BY <2>t, <2>2 DEF Call, OwnerInv, DBTypeOK
    <3>m. PICK m : m = m_pMessage[r]
      OBVIOUS
    <3>2. /\ m_pMessage' = [m_pMessage EXCEPT ![r] = NoMessage] /\ executed' = executed \cup {m}
          /\ workerPc[w] = "call"
      BY <2>2, <3>1, <3>m DEF Call
    <3>3. m # NoMessage
      BY <2>t, <3>1, <3>m, <3>2 DEF MessageInv, Loaded
    <3>4. m \in Message
      <4>1. m \in Nat /\ m <= sent /\ sent + Cardinality(Underway) <= MaxMessages /\ sent \in Nat
        BY <2>t, <3>m DEF DBTypeOK, MessageInv
      <4>2. Cardinality(Underway) \in Nat /\ MaxMessages \in Nat
        BY <2>t, UnderwayFacts, DBAssumption
      <4> QED BY <3>3, <4>1, <4>2 DEF Message, NoMessage
    <3>5. m \in W
      BY <2>w, <3>1, <3>m, <3>3
    <3>6. \A x : x \in W' <=> x \in W \ {m}
      <4>1. \A q \in Request : m_pMessage'[q] = IF q = r THEN NoMessage ELSE m_pMessage[q]
        BY <2>t, <3>2 DEF DBTypeOK
      <4>2. \A q \in Request : m_pMessage[q] = m => q = r
        BY <2>t, <3>m, <3>3 DEF MessageInv
      <4> QED BY <2>w, <2>v, <3>m, <4>1, <4>2
    <3> HIDE DEF W
    <3>7. W' = W \ {m}
      BY <3>6
    <3>8. J!Finish(m)
      BY <3>2, <3>5, <3>7 DEF J!Finish, W
    <3> QED BY <3>4, <3>8 DEF J!JobNext
  <2>3. CASE UNCHANGED <<m_pMessage, executed>>
    BY <2>3
  <2>4. \/ \E c \in Caller : Perform(c)
        \/ \E w \in Worker : Call(w)
        \/ UNCHANGED <<m_pMessage, executed>>
    BY DEF DBNext, dbVars, CallerNext, ManagerNext, WorkerNext, UnchangedByManager, GetDBReq,
           PopDBReq, CreateWorkerPool, ManagerLoop, ManagerDequeue, ChooseDBWorker, Assign, Drain,
           DrainRaces, Join, WorkerLoop, WorkerDequeue, return_to_work, ShutDown, Destroy
  <2> QED BY <2>1, <2>2, <2>3, <2>4
<1> QED BY <1>1, <1>2, DBInvariant, PTL DEF DBSpec, ImplementsJobPool, J!JobSpec, J!jobVars

=============================================================================
