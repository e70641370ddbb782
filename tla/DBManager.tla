----------------------------- MODULE DBManager -------------------------------
(***************************************************************************)
(* DatabaseLayer: SFDatabaseProxyLocal, SFDBManager and SFDBWorker.        *)
(*                                                                         *)
(* Callers of SendDBRequest put their message into a request object, taken *)
(* from a queue of free ones, and the object into the manager's activation *)
(* queue.  The manager's thread hands each request to a worker that waits  *)
(* in m_queueWorkers; the worker executes it and returns both itself and   *)
(* the request.  The proxy's destructor sets m_ShutDown, waits for the     *)
(* manager's thread and destroys the manager.                              *)
(*                                                                         *)
(* A step is what a thread does between two points at which the others     *)
(* can come between.  The queues lock themselves, but for m_queueWorkers,  *)
(* which m_Workers_Lock protects except where svc ends.  Timeouts of a     *)
(* dequeue are steps that return nothing.  SFDBRequest::call always        *)
(* returns 0.                                                              *)
(***************************************************************************)
EXTENDS Naturals, Sequences, FiniteSets, Functions

CONSTANTS
  Caller,         (* threads that call SendDBRequest                        *)
  Request,        (* SFDBRequest objects that can be created                *)
  NoRequest,
  workerPoolSize, (* m_DBparams.workerPoolSize                              *)
  MaxMessages     (* bound: messages sent                                   *)

Worker    == 1..workerPoolSize
Message   == 1..MaxMessages
NoMessage == 0

ASSUME DBAssumption ==
  /\ NoRequest \notin Request /\ IsFiniteSet(Caller)
  /\ workerPoolSize \in Nat \ {0} /\ MaxMessages \in Nat

VARIABLES
  callerPc, callerReq, (* where a caller is, the request it holds           *)
  sent,                (* messages sent so far: the last one's number       *)
  allocated,           (* request objects that exist                        *)
  m_reqQueue,          (* free request objects                              *)
  m_pMessage,          (* request -> its message                            *)
  m_queue,             (* the manager's activation queue                    *)
  m_ShutDown,
  mgrPc, mgrReq, mgrWorker,
  m_queueWorkers,      (* workers without a request                         *)
  workerPc, workerReq, (* where a worker is, the request it executes        *)
  workerQueue,         (* the workers' activation queues                    *)
  executed,            (* messages given to the database                    *)
  raced,               (* callers another one overtook between test and pop *)
  refused,             (* callers whose SendDBRequest just failed           *)
  quiet                (* nothing was under way when ShutDown was called    *)

callerVars == <<callerPc, callerReq, sent, allocated, raced, refused>>
mgrVars    == <<mgrPc, mgrReq, mgrWorker>>
workerVars == <<workerPc, workerReq, workerQueue>>
dbVars     == <<callerVars, m_reqQueue, m_pMessage, m_queue, m_ShutDown, mgrVars,
                m_queueWorkers, workerVars, executed, quiet>>

-----------------------------------------------------------------------------
(* Mutant: an empty queue is not noticed.                                   *)
HasFreeReqAlways == TRUE

(* m_reqQueue.Size() == 0, read without the queue's lock.                   *)
HasFreeReq == Len(m_reqQueue) # 0

(* SendDBRequest as far as the test in GetDBReq: with no free request one   *)
(* is created.  The proxy is not used once its destructor runs.             *)
GetDBReq(c) ==
  /\ callerPc[c] = "idle" /\ m_ShutDown = 0
  /\ sent + Cardinality({d \in Caller : callerPc[d] # "idle"}) < MaxMessages
  /\ IF HasFreeReq
       THEN /\ callerPc' = [callerPc EXCEPT ![c] = "pop"]
            /\ UNCHANGED <<callerReq, allocated>>
       ELSE \E r \in Request \ allocated :
              /\ allocated' = allocated \cup {r}
              /\ callerReq' = [callerReq EXCEPT ![c] = r]
              /\ callerPc' = [callerPc EXCEPT ![c] = "perform"]
  /\ refused' = refused \ {c} /\ raced' = raced \ {c}
  /\ UNCHANGED <<sent, m_reqQueue, m_pMessage, m_queue, m_ShutDown, mgrVars,
                 m_queueWorkers, workerVars, executed, quiet>>

(* Mutant: the request stays in the queue.                                  *)
PopFront == UNCHANGED m_reqQueue

Pop == m_reqQueue' = Tail(m_reqQueue)

(* Mutant: SendDBRequest does not test for NULL.                            *)
RefuseNot(c) == callerPc' = [callerPc EXCEPT ![c] = "perform"] /\ UNCHANGED refused

Refuse(c) == callerPc' = [callerPc EXCEPT ![c] = "idle"] /\ refused' = refused \cup {c}

(* GetDBReq's second half: NULL when another caller took the last one, and  *)
(* then SendDBRequest fails.                                                *)
PopDBReq(c) ==
  /\ callerPc[c] = "pop"
  /\ IF m_reqQueue = <<>>
       THEN /\ Refuse(c)
            /\ UNCHANGED <<callerReq, m_reqQueue, raced>>
       ELSE /\ Pop
            /\ callerReq' = [callerReq EXCEPT ![c] = Head(m_reqQueue)]
            /\ callerPc' = [callerPc EXCEPT ![c] = "perform"]
            /\ raced' = (raced \cup {d \in Caller : callerPc[d] = "pop"}) \ {c}
            /\ UNCHANGED refused
  /\ UNCHANGED <<sent, allocated, m_pMessage, m_queue, m_ShutDown, mgrVars, m_queueWorkers,
                 workerVars, executed, quiet>>

(* AttachDBMessage and perform.                                             *)
Perform(c) ==
  /\ callerPc[c] = "perform"
  /\ sent' = sent + 1
  /\ m_pMessage' = [m_pMessage EXCEPT ![callerReq[c]] = sent + 1]
  /\ m_queue' = Append(m_queue, callerReq[c])
  /\ callerPc' = [callerPc EXCEPT ![c] = "idle"]
  /\ callerReq' = [callerReq EXCEPT ![c] = NoRequest]
  /\ UNCHANGED <<allocated, raced, refused, m_reqQueue, m_ShutDown, mgrVars, m_queueWorkers,
                 workerVars, executed, quiet>>

-----------------------------------------------------------------------------
UnchangedByManager == UNCHANGED <<callerVars, m_reqQueue, m_pMessage, m_ShutDown, executed, quiet>>

(* Create_Worker_Pool: it stops at the first database that cannot be        *)
(* initialized, and svc goes on with the workers there are, if any.         *)
CreateWorkerPool(k) ==
  /\ mgrPc = "create" /\ mgrPc' = "loop"
  /\ m_queueWorkers' = [i \in 1..k |-> i]
  /\ workerPc' = [w \in Worker |-> IF w <= k THEN "loop" ELSE workerPc[w]]
  /\ UnchangedByManager /\ UNCHANGED <<mgrReq, mgrWorker, workerReq, workerQueue, m_queue>>

(* The loop of svc: its condition, and the dequeue with its timeout.        *)
ManagerLoop ==
  /\ mgrPc = "loop"
  /\ mgrPc' = IF m_ShutDown = 1 THEN "drain" ELSE "dequeue"
  /\ UnchangedByManager /\ UNCHANGED <<mgrReq, mgrWorker, m_queueWorkers, workerVars, m_queue>>

ManagerDequeue ==
  /\ mgrPc = "dequeue"
  /\ IF m_queue = <<>>
       THEN mgrPc' = "loop" /\ UNCHANGED <<mgrReq, m_queue>>
       ELSE mgrPc' = "choose" /\ mgrReq' = Head(m_queue) /\ m_queue' = Tail(m_queue)
  /\ UnchangedByManager /\ UNCHANGED <<mgrWorker, m_queueWorkers, workerVars>>

TakeWorker == m_queueWorkers' = Tail(m_queueWorkers)

(* ChooseDBWorker: under the lock, waits on the condition while the queue   *)
(* is empty.                                                                *)
ChooseDBWorker ==
  /\ mgrPc = "choose"
  /\ IF m_queueWorkers = <<>>
       THEN mgrPc' = "wait" /\ UNCHANGED <<mgrWorker, m_queueWorkers>>
       ELSE mgrPc' = "assign" /\ mgrWorker' = Head(m_queueWorkers) /\ TakeWorker
  /\ UnchangedByManager /\ UNCHANGED <<mgrReq, workerVars, m_queue>>

(* pReq->SetOwner, pWorker->perform.                                        *)
Assign ==
  /\ mgrPc = "assign" /\ mgrPc' = "loop"
  /\ workerQueue' = [workerQueue EXCEPT ![mgrWorker] = Append(@, mgrReq)]
  /\ mgrReq' = NoRequest
  /\ UnchangedByManager /\ UNCHANGED <<mgrWorker, m_queueWorkers, workerPc, workerReq, m_queue>>

(* After the loop: the workers in the queue are waited for one by one.      *)
Drain ==
  /\ mgrPc = "drain"
  /\ IF m_queueWorkers = <<>>
       THEN mgrPc' = "done" /\ UNCHANGED <<mgrWorker, m_queueWorkers>>
       ELSE mgrPc' = "join" /\ mgrWorker' = Head(m_queueWorkers)
                            /\ m_queueWorkers' = Tail(m_queueWorkers)
  /\ UnchangedByManager /\ UNCHANGED <<mgrReq, workerVars, m_queue>>

(* These dequeues do not take m_Workers_Lock.  A worker that returns at the *)
(* same time leaves the queue in any state: neither thread is followed      *)
(* any further.                                                             *)
DrainRaces(w) ==
  /\ mgrPc = "drain" /\ workerPc[w] = "return"
  /\ mgrPc' = "undefined" /\ workerPc' = [workerPc EXCEPT ![w] = "undefined"]
  /\ UnchangedByManager
  /\ UNCHANGED <<mgrReq, mgrWorker, m_queueWorkers, workerReq, workerQueue, m_queue>>

(* Mutant: the worker is not waited for.                                    *)
WaitTaskNot(w) == TRUE

WaitTask(w) == workerPc[w] = "ended"

Join ==
  /\ mgrPc = "join" /\ WaitTask(mgrWorker)
  /\ mgrPc' = "drain"
  /\ UnchangedByManager /\ UNCHANGED <<mgrReq, mgrWorker, m_queueWorkers, workerVars, m_queue>>

-----------------------------------------------------------------------------
(* Mutant: workers do not notice the shutdown.                              *)
doneNever == FALSE

done == m_ShutDown = 1

(* SFDBWorker::svc.  A worker that uses the manager after it was destroyed  *)
(* is not followed any further.                                             *)
WorkerLoop(w) ==
  /\ workerPc[w] = "loop"
  /\ workerPc' = [workerPc EXCEPT ![w] = IF mgrPc = "destroyed" THEN "undefined"
                                         ELSE IF done THEN "ended" ELSE "dequeue"]
  /\ UNCHANGED <<callerVars, m_reqQueue, m_pMessage, m_queue, m_ShutDown, mgrVars,
                 m_queueWorkers, workerReq, workerQueue, executed, quiet>>

WorkerDequeue(w) ==
  /\ workerPc[w] = "dequeue"
  /\ IF workerQueue[w] = <<>>
       THEN /\ workerPc' = [workerPc EXCEPT ![w] = "loop"]
            /\ UNCHANGED <<workerReq, workerQueue>>
       ELSE /\ workerPc' = [workerPc EXCEPT ![w] = "call"]
            /\ workerReq' = [workerReq EXCEPT ![w] = Head(workerQueue[w])]
            /\ workerQueue' = [workerQueue EXCEPT ![w] = Tail(@)]
  /\ UNCHANGED <<callerVars, m_reqQueue, m_pMessage, m_queue, m_ShutDown, mgrVars,
                 m_queueWorkers, executed, quiet>>

(* Mutant: the message stays with the request.                              *)
CallKeepsMessage(w) ==
  /\ workerPc[w] = "call"
  /\ workerPc' = [workerPc EXCEPT ![w] = "return"]
  /\ executed' = executed \cup {m_pMessage[workerReq[w]]}
  /\ UNCHANGED <<callerVars, m_reqQueue, m_pMessage, m_queue, m_ShutDown, mgrVars,
                 m_queueWorkers, workerReq, workerQueue, quiet>>

(* SFDBRequest::call.                                                       *)
Call(w) ==
  /\ workerPc[w] = "call"
  /\ workerPc' = [workerPc EXCEPT ![w] = "return"]
  /\ executed' = executed \cup {m_pMessage[workerReq[w]]}
  /\ m_pMessage' = [m_pMessage EXCEPT ![workerReq[w]] = NoMessage]
  /\ UNCHANGED <<callerVars, m_reqQueue, m_queue, m_ShutDown, mgrVars, m_queueWorkers,
                 workerReq, workerQueue, quiet>>

(* Mutant: the manager is not woken.                                        *)
SignalNot == UNCHANGED mgrPc

Signal == mgrPc' = IF mgrPc = "wait" THEN "choose" ELSE mgrPc

(* The manager, or the queue it left, may be gone.                          *)
return_to_work(w) ==
  /\ workerPc[w] = "return"
  /\ IF mgrPc \in {"destroyed", "undefined"}
       THEN /\ workerPc' = [workerPc EXCEPT ![w] = "undefined"]
            /\ UNCHANGED <<workerReq, m_queueWorkers, m_reqQueue, mgrPc>>
       ELSE /\ m_queueWorkers' = Append(m_queueWorkers, w)
            /\ m_reqQueue' = Append(m_reqQueue, workerReq[w])
            /\ Signal
            /\ workerPc' = [workerPc EXCEPT ![w] = "loop"]
            /\ workerReq' = [workerReq EXCEPT ![w] = NoRequest]
  /\ UNCHANGED <<callerVars, m_pMessage, m_queue, m_ShutDown, mgrReq, mgrWorker, workerQueue,
                 executed, quiet>>

-----------------------------------------------------------------------------
(* ~SFDatabaseProxyLocal: ShutDown, then the manager's thread is waited for *)
(* and the manager destroyed.                                               *)
ShutDown ==
  /\ m_ShutDown = 0 /\ \A c \in Caller : callerPc[c] = "idle"
  /\ m_ShutDown' = 1
  /\ quiet' = (m_queue = <<>> /\ mgrReq = NoRequest
               /\ \A w \in Worker : workerPc[w] # "none" => w \in Range(m_queueWorkers))
  /\ UNCHANGED <<callerVars, m_reqQueue, m_pMessage, m_queue, mgrVars, m_queueWorkers,
                 workerVars, executed>>

Destroy ==
  /\ m_ShutDown = 1 /\ mgrPc = "done" /\ mgrPc' = "destroyed"
  /\ UnchangedByManager /\ UNCHANGED <<mgrReq, mgrWorker, m_queueWorkers, workerVars, m_queue>>

(* The abstract view: messages in requests wait.                            *)
J == INSTANCE JobPool WITH waiting <- Range(m_pMessage) \ {NoMessage}, finished <- executed

DBInit ==
  /\ callerPc = [c \in Caller |-> "idle"] /\ callerReq = [c \in Caller |-> NoRequest]
  /\ sent = 0 /\ allocated = {} /\ raced = {} /\ refused = {}
  /\ m_reqQueue = <<>> /\ m_queue = <<>> /\ m_queueWorkers = <<>>
  /\ m_pMessage = [r \in Request |-> NoMessage]
  /\ m_ShutDown = 0 /\ quiet = FALSE
  /\ mgrPc = "create" /\ mgrReq = NoRequest /\ mgrWorker = 1
  /\ workerPc = [w \in Worker |-> "none"] /\ workerReq = [w \in Worker |-> NoRequest]
  /\ workerQueue = [w \in Worker |-> <<>>]
  /\ executed = {}

CallerNext(c)  == GetDBReq(c) \/ PopDBReq(c) \/ Perform(c)
ManagerNext    == \/ \E k \in 0..workerPoolSize : CreateWorkerPool(k)
                  \/ ManagerLoop \/ ManagerDequeue \/ ChooseDBWorker \/ Assign \/ Drain \/ Join
                  \/ \E w \in Worker : DrainRaces(w)
WorkerNext(w)  == WorkerLoop(w) \/ WorkerDequeue(w) \/ Call(w) \/ return_to_work(w)

DBNext ==
  \/ \E c \in Caller : CallerNext(c)
  \/ ManagerNext
  \/ \E w \in Worker : WorkerNext(w)
  \/ ShutDown \/ Destroy

DBSpec == DBInit /\ [][DBNext]_dbVars

(* Threads that can run do, and a database call returns; nobody has to send *)
(* or to shut down.                                                         *)
DBFairSpec ==
  /\ DBSpec
  /\ WF_dbVars(ManagerNext) /\ WF_dbVars(Destroy)
  /\ \A w \in Worker : WF_dbVars(WorkerNext(w))
  /\ \A c \in Caller : WF_dbVars(PopDBReq(c) \/ Perform(c))

-----------------------------------------------------------------------------
(* Type invariant.                                                          *)
DBTypeOK ==
  /\ callerPc \in [Caller -> {"idle", "pop", "perform"}]
  /\ callerReq \in [Caller -> Request \cup {NoRequest}]
  /\ sent \in Nat /\ allocated \subseteq Request
  /\ raced \subseteq Caller /\ refused \subseteq Caller
  /\ m_reqQueue \in Seq(Request) /\ m_queue \in Seq(Request)
  /\ m_pMessage \in [Request -> Nat]
  /\ m_ShutDown \in {0, 1} /\ quiet \in BOOLEAN
  /\ mgrPc \in {"create", "loop", "dequeue", "choose", "wait", "assign", "drain", "join",
                "done", "destroyed", "undefined"}
  /\ mgrReq \in Request \cup {NoRequest} /\ mgrWorker \in Worker
  /\ m_queueWorkers \in Seq(Worker)
  /\ workerPc \in [Worker -> {"none", "loop", "dequeue", "call", "return", "ended", "undefined"}]
  /\ workerReq \in [Worker -> Request \cup {NoRequest}]
  /\ workerQueue \in [Worker -> Seq(Request)]
  /\ executed \subseteq Nat

Count(q, x) == Cardinality({i \in DOMAIN q : q[i] = x})

(* Every request object is in one place at a time: free, held by a caller,  *)
(* queued, with the manager, or with one worker.  Two owners would attach   *)
(* their messages to the same object.                                       *)
RequestInOnePlace ==
  \A r \in Request :
    Count(m_reqQueue, r) + Count(callerReq, r) + Count(m_queue, r)
      + (IF mgrReq = r THEN 1 ELSE 0) + Count(workerReq, r)
      + Cardinality(UNION {{w} \X {i \in DOMAIN workerQueue[w] : workerQueue[w][i] = r} : w \in Worker})
    = IF r \in allocated THEN 1 ELSE 0

(* A worker that waits in m_queueWorkers waits there once and has nothing   *)
(* to do, so the request it is given is executed by a thread that is free.  *)
WorkerExclusive ==
  \A w \in Worker :
    /\ Count(m_queueWorkers, w) <= 1
    /\ Len(workerQueue[w]) <= 1
    /\ w \in Range(m_queueWorkers) => /\ workerPc[w] \in {"loop", "dequeue", "ended", "undefined"}
                                      /\ workerQueue[w] = <<>> /\ workerReq[w] = NoRequest

(* Neither a request object nor a worker is ever used twice at once,        *)
(* although callers, manager and workers recycle them without one lock.     *)
NothingShared == RequestInOnePlace /\ WorkerExclusive

(* SendDBRequest fails for want of a request only when another caller popped *)
(* the one this caller's test had seen.                                      *)
RefusedOnlyByRace == refused \subseteq raced

(* A message sent is executed at most once and is not forgotten before.     *)
ImplementsJobPool == J!JobSpec

(* A message sent is executed in the end, if there is a worker at all and   *)
(* nobody shuts the manager down.                                           *)
RequestExecuted ==
  \A m \in Message :
    sent >= m ~> m \in executed \/ m_ShutDown = 1 \/ \A w \in Worker : workerPc[w] = "none"

(* If nothing was under way when ShutDown was called, no worker uses the    *)
(* destroyed manager.  (A worker that is executing then is not waited for.) *)
QuietShutdownSafe ==
  quiet /\ mgrPc = "destroyed" => \A w \in Worker : workerPc[w] \in {"none", "ended"}

(* ... and the destructor of the proxy returns.  (Otherwise the manager may *)
(* wait for ever for a worker that saw m_ShutDown and ended.)               *)
QuietShutdownEnds == m_ShutDown = 1 /\ quiet ~> mgrPc = "destroyed"
=============================================================================
