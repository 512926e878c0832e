----------------------------- MODULE TaskQueue -----------------------------
(***************************************************************************)
(* The task pipeline of labforge: jobservice-api keeps a row per task in   *)
(* its table TaskData and publishes a message to RabbitMQ; the jobservice  *)
(* process consumes the messages with a pool of worker threads, under      *)
(* Redis locks, a limit of concurrent deployments and cancellation.        *)
(*                                                                         *)
(* Each request of the API and each call of a worker to the database, to   *)
(* Redis or to the broker is a step of its own, since other clients and    *)
(* workers act between any two of them.  What a handler does to a stand is *)
(* the subject of StandLifecycle: here a handler runs and ends.            *)
(* A lock key behaves as LeaseLock says; RedisLock shows that it does.     *)
(***************************************************************************)
EXTENDS Integers, FiniteSets

CONSTANTS
  Tasks,         \* the requests that will be sent to the API, one task each
  Workers,       \* the threads of jobservice (THREADS_AMOUNT of them)
  Keys,          \* the lock keys of Redis
  None,          \* no task, no key, no conflict key, no owner
  Dead,          \* owner of a key that was locked by a process that crashed
  Kind,          \* the handler of each task
  KeyOf,         \* the lock key of each task, None where f takes no lock
  Conflict,      \* the conflict key sent with each request, or None
  DeployLimit,   \* CONCURRENT_DEPLOYMENTS
  MaxCrashes,    \* bound of the crashes of jobservice
  MaxExpiries,   \* bound of the leases that run out under a live worker
  MaxFaults      \* bound of the calls that fail after their retries

Kinds == {"deploy", "destroy", "power", "snapshot", "rollback", "allocate",
          "images"}

ASSUME QueueAssumption ==
  /\ None \notin Tasks \union Keys \union Workers
  /\ Dead \notin Workers /\ Dead # None
  /\ IsFiniteSet(Workers)
  /\ Kind \in [Tasks -> Kinds]
  /\ KeyOf \in [Tasks -> Keys \union {None}]
  /\ \A t \in Tasks : KeyOf[t] = None <=> Kind[t] = "images"
  /\ DeployLimit \in Nat
  /\ MaxCrashes \in Nat /\ MaxExpiries \in Nat /\ MaxFaults \in Nat

VARIABLES
  rows,        \* TaskData: the status of each task's row; "none" and, after
               \* dropHangedTasks, "dropped" if there is no row
  request,     \* how far sendMessage has come for each task
  msg,         \* where the message of each task is
  pc,          \* what each worker does next
  job,         \* the task each worker has read from the TQueue
  holds,       \* the key each worker entered redisNXLockWrapper with
  owner,       \* who Redis holds each key for
  overdue,     \* workers whose lease ran out while they hold the key
  counted,     \* workers between the two updates of the counter
  deploymentsC,\* the counter of active deployments
  marked,      \* workers whose raceLock has set the status "running"
  crashes, expiries, faults

apiVars    == <<rows, request>>
lockVars   == <<holds, owner, overdue>>
countVars  == <<counted, deploymentsC>>
boundVars  == <<crashes, expiries, faults>>
vars == <<rows, request, msg, pc, job, lockVars, countVars, marked, boundVars>>

-----------------------------------------------------------------------------
Init ==
  /\ rows = [t \in Tasks |-> "none"]
  /\ request = [t \in Tasks |-> "new"]
  /\ msg = [t \in Tasks |-> "none"]
  /\ pc = [w \in Workers |-> "idle"]
  /\ job = [w \in Workers |-> None]
  /\ holds = [w \in Workers |-> None]
  /\ owner = [k \in Keys |-> None]
  /\ overdue = {}
  /\ counted = {}
  /\ deploymentsC = 0
  /\ marked = {}
  /\ crashes = 0 /\ expiries = 0 /\ faults = 0

(* A message waits at the broker, in the TQueue of the process, with a     *)
(* worker, unacknowledged with no worker, or between an ack and a publish. *)
MsgPlaces == {"none", "ready", "buffered", "taken", "parked", "resending",
              "acked", "lost"}

Resendable(t) == Kind[t] \in {"destroy", "allocate"}

-----------------------------------------------------------------------------
(* jobservice-api *)

Gone(t) == rows[t] \in {"none", "dropped"}

(* exists [ TaskDataConfictKey ==. Just v ] *)
KeyTaken(t) ==
  /\ Conflict[t] # None
  /\ \E u \in Tasks : ~Gone(u) /\ Conflict[u] = Conflict[t]

(* sendMessage looks for the conflict key: answer 429 or go on.            *)
CheckConflict(t) ==
  /\ request[t] = "new"
  /\ request' = [request EXCEPT ![t] = IF KeyTaken(t) THEN "refused" ELSE "checked"]
  /\ UNCHANGED <<rows, msg, pc, job, lockVars, countVars, marked, boundVars>>

(* A later database call inserts the row.                                  *)
InsertRow(t) ==
  /\ request[t] = "checked"
  /\ request' = [request EXCEPT ![t] = "inserted"]
  /\ rows' = [rows EXCEPT ![t] = "queued"]
  /\ UNCHANGED <<msg, pc, job, lockVars, countVars, marked, boundVars>>

(* The message is published last.                                          *)
Publish(t) ==
  /\ request[t] = "inserted"
  /\ request' = [request EXCEPT ![t] = "accepted"]
  /\ msg' = [msg EXCEPT ![t] = "ready"]
  /\ UNCHANGED <<rows, pc, job, lockVars, countVars, marked, boundVars>>

(* The request fails before it publishes: the row, if inserted, stays.     *)
RequestFails(t) ==
  /\ request[t] \in {"checked", "inserted"}
  /\ faults < MaxFaults
  /\ faults' = faults + 1
  /\ request' = [request EXCEPT ![t] = "failed"]
  /\ UNCHANGED <<rows, msg, pc, job, lockVars, countVars, marked, crashes,
                 expiries>>

(* setTaskStatus t "cancelled": updateWhere, whatever the status is.       *)
CancelTask(t) ==
  /\ ~Gone(t)
  /\ rows' = [rows EXCEPT ![t] = "cancelled"]
  /\ UNCHANGED <<request, msg, pc, job, lockVars, countVars, marked, boundVars>>

(* deleteTask by a user; deleteTaskGroup does the same to several rows.    *)
DeleteTask(t) ==
  /\ ~Gone(t)
  /\ rows' = [rows EXCEPT ![t] = "none"]
  /\ UNCHANGED <<request, msg, pc, job, lockVars, countVars, marked, boundVars>>

(* Mutant of ReachedCancelled: a row that is gone does not count.          *)
StatusIsCancelled(t) == rows[t] = "cancelled"

(* Mutant of DropHanged: it looks for running rows only.                   *)
DropHangedRunning(t) ==
  /\ rows[t] = "running"
  /\ ~\E w \in Workers : job[w] = t /\ pc[w] # "leave"
  /\ rows' = [rows EXCEPT ![t] = "dropped"]
  /\ UNCHANGED <<request, msg, pc, job, lockVars, countVars, marked, boundVars>>

(* dropHangedTasks deletes a row that nothing has updated for 600 seconds, *)
(* or TASK_MAX_LIFETIME seconds when it is running.  A worker that handles *)
(* the task updates the row every second, unless its calls fail for long.  *)
Attended(t) == \E w \in Workers : job[w] = t /\ pc[w] # "leave"

DropHanged(t) ==
  /\ ~Gone(t)
  /\ request[t] \in {"accepted", "failed"}
  /\ rows' = [rows EXCEPT ![t] = "dropped"]
  /\ \/ ~Attended(t) /\ UNCHANGED faults
     \/ /\ Attended(t) /\ rows[t] = "running"
        /\ faults < MaxFaults
        /\ faults' = faults + 1
  /\ UNCHANGED <<request, msg, pc, job, lockVars, countVars, marked, crashes,
                 expiries>>

(* isTaskReachedStatus t "cancelled": true as well for a row that is gone. *)
ReachedCancelled(t) == Gone(t) \/ rows[t] = "cancelled"

-----------------------------------------------------------------------------
(* The consumer of jobserviceQueue and the worker threads *)

ActiveThreads == Cardinality({w \in Workers : pc[w] # "idle"})

(* getTasks: a delivery goes to the TQueue unless every thread is busy; it *)
(* is then rejected with requeue, which changes nothing here.              *)
Deliver(t) ==
  /\ msg[t] = "ready"
  /\ ActiveThreads < Cardinality(Workers)
  /\ msg' = [msg EXCEPT ![t] = "buffered"]
  /\ UNCHANGED <<apiVars, pc, job, lockVars, countVars, marked, boundVars>>

(* readTQueue by an idle thread.                                           *)
TakeMessage(w, t) ==
  /\ pc[w] = "idle"
  /\ msg[t] = "buffered"
  /\ msg' = [msg EXCEPT ![t] = "taken"]
  /\ job' = [job EXCEPT ![w] = t]
  /\ pc' = [pc EXCEPT ![w] = CASE Kind[t] = "deploy" -> "limit"
                               [] Kind[t] = "images" -> "check"
                               [] OTHER -> "lock"]
  /\ UNCHANGED <<apiVars, lockVars, countVars, marked, boundVars>>

(* Mutant of BeginResend: the message is published before the sleep.       *)
PublishFirst(w) ==
  /\ msg' = [msg EXCEPT ![job[w]] = "ready"]
  /\ pc' = [pc EXCEPT ![w] = "resend"]

(* The first half of recreateMessageWithDelay: ack, then sleep.            *)
BeginResend(w) ==
  /\ msg' = [msg EXCEPT ![job[w]] = "resending"]
  /\ pc' = [pc EXCEPT ![w] = "resend"]

(* readTVarIO deploymentsC: a deployment asks before it locks, a           *)
(* destruction after.                                                      *)
CheckLimit(w) ==
  /\ pc[w] = "limit"
  /\ IF deploymentsC >= DeployLimit
     THEN BeginResend(w)
     ELSE /\ pc' = [pc EXCEPT ![w] = IF Kind[job[w]] = "deploy"
                                     THEN "lock" ELSE "count"]
          /\ UNCHANGED msg
  /\ UNCHANGED <<apiVars, job, lockVars, countVars, marked, boundVars>>

(* Mutant of Unlocked: SET without NX.                                     *)
AlwaysUnlocked(k) == k \in Keys

(* SET ... NX finds no key.                                                *)
Unlocked(k) == owner[k] = None

(* redisNXLockWrapper finds the key free.                                  *)
Lock(w) ==
  LET k == KeyOf[job[w]] IN
  /\ pc[w] = "lock"
  /\ Unlocked(k)
  /\ owner' = [owner EXCEPT ![k] = w]
  /\ holds' = [holds EXCEPT ![w] = k]
  /\ pc' = [pc EXCEPT ![w] = CASE Kind[job[w]] = "deploy"  -> "count"
                               [] Kind[job[w]] = "destroy" -> "limit"
                               [] OTHER -> "check"]
  /\ UNCHANGED <<apiVars, msg, job, overdue, countVars, marked, boundVars>>

(* The key is taken: fail_ of genericFormattedLock.  Without resendTask it *)
(* does nothing, so the delivery is neither acknowledged nor rejected.     *)
LockBusy(w) ==
  /\ pc[w] = "lock"
  /\ ~Unlocked(KeyOf[job[w]])
  /\ IF Resendable(job[w])
     THEN BeginResend(w) /\ UNCHANGED job
     ELSE /\ msg' = [msg EXCEPT ![job[w]] = "parked"]
          /\ pc' = [pc EXCEPT ![w] = "idle"]
          /\ job' = [job EXCEPT ![w] = None]
  /\ UNCHANGED <<apiVars, lockVars, countVars, marked, boundVars>>

(* The second half of recreateMessageWithDelay.                            *)
Republish(w) ==
  /\ pc[w] = "resend"
  /\ msg' = [msg EXCEPT ![job[w]] = "ready"]
  /\ pc' = [pc EXCEPT ![w] = "leave"]
  /\ UNCHANGED <<apiVars, job, lockVars, countVars, marked, boundVars>>

(* modifyTVar' deploymentsC (+1) *)
Count(w) ==
  /\ pc[w] = "count"
  /\ deploymentsC' = deploymentsC + 1
  /\ counted' = counted \union {w}
  /\ pc' = [pc EXCEPT ![w] = "check"]
  /\ UNCHANGED <<apiVars, msg, job, lockVars, marked, boundVars>>

-----------------------------------------------------------------------------
(* raceTask *)

(* The task is not cancelled: the handler and raceLock start.              *)
StartTask(w) ==
  /\ pc[w] = "check"
  /\ ~ReachedCancelled(job[w])
  /\ pc' = [pc EXCEPT ![w] = "run"]
  /\ UNCHANGED <<apiVars, msg, job, lockVars, countVars, marked, boundVars>>

(* The task is cancelled or its row is gone: only the ack.                 *)
SkipTask(w) ==
  /\ pc[w] = "check"
  /\ ReachedCancelled(job[w])
  /\ msg' = [msg EXCEPT ![job[w]] = "acked"]
  /\ pc' = [pc EXCEPT ![w] = "leave"]
  /\ UNCHANGED <<apiVars, job, lockVars, countVars, marked, boundVars>>

(* The status cannot be read: nack with requeue.                           *)
CheckFails(w) ==
  /\ pc[w] = "check"
  /\ faults < MaxFaults
  /\ faults' = faults + 1
  /\ msg' = [msg EXCEPT ![job[w]] = "ready"]
  /\ pc' = [pc EXCEPT ![w] = "leave"]
  /\ UNCHANGED <<apiVars, job, lockVars, countVars, marked, crashes, expiries>>

(* raceLock sets the status "running", whatever the status has become      *)
(* since it was read; updateWhere does not bring back a deleted row.       *)
MarkRunning(w) ==
  /\ pc[w] = "run"
  /\ w \notin marked
  /\ marked' = marked \union {w}
  /\ rows' = [rows EXCEPT ![job[w]] = IF Gone(job[w]) THEN @ ELSE "running"]
  /\ UNCHANGED <<request, msg, pc, job, lockVars, countVars, boundVars>>

(* waitForCancel wins the race: the handler is interrupted.                *)
CancelWins(w) ==
  /\ pc[w] = "run"
  /\ w \in marked
  /\ ReachedCancelled(job[w])
  /\ pc' = [pc EXCEPT ![w] = "delete"]
  /\ UNCHANGED <<apiVars, msg, job, lockVars, countVars, marked, boundVars>>

(* The handler returns or throws (catch ... err): it wins the race.        *)
HandlerEnds(w) ==
  /\ pc[w] = "run"
  /\ pc' = [pc EXCEPT ![w] = "delete"]
  /\ UNCHANGED <<apiVars, msg, job, lockVars, countVars, marked, boundVars>>

(* deleteTask, whose result is ignored.                                    *)
DeleteFinished(w) ==
  /\ pc[w] = "delete"
  /\ pc' = [pc EXCEPT ![w] = "ack"]
  /\ marked' = marked \ {w}
  /\ \/ /\ rows' = [rows EXCEPT ![job[w]] = "none"]
        /\ UNCHANGED faults
     \/ /\ faults < MaxFaults
        /\ faults' = faults + 1
        /\ UNCHANGED rows
  /\ UNCHANGED <<request, msg, job, lockVars, countVars, crashes, expiries>>

(* ackEnv *)
AckFinished(w) ==
  /\ pc[w] = "ack"
  /\ msg' = [msg EXCEPT ![job[w]] = "acked"]
  /\ pc' = [pc EXCEPT ![w] = "leave"]
  /\ UNCHANGED <<apiVars, job, lockVars, countVars, marked, boundVars>>

(* Mutant of Uncount: the counter is left alone for a cancelled task.      *)
UncountUnlessCancelled(w) ==
  /\ pc[w] = "leave"
  /\ w \in counted
  /\ deploymentsC' = IF rows[job[w]] = "cancelled" THEN deploymentsC
                                                   ELSE deploymentsC - 1
  /\ counted' = counted \ {w}
  /\ UNCHANGED <<apiVars, msg, pc, job, lockVars, marked, boundVars>>

(* modifyTVar' deploymentsC (\v -> v - 1) *)
Uncount(w) ==
  /\ pc[w] = "leave"
  /\ w \in counted
  /\ deploymentsC' = deploymentsC - 1
  /\ counted' = counted \ {w}
  /\ UNCHANGED <<apiVars, msg, pc, job, lockVars, marked, boundVars>>

(* The wrapper deletes the key if it is still this worker's, and the       *)
(* thread goes back to the TQueue.                                         *)
Unlock(w) ==
  /\ pc[w] = "leave"
  /\ w \notin counted
  /\ owner' = [k \in Keys |-> IF k = holds[w] /\ owner[k] = w THEN None ELSE owner[k]]
  /\ holds' = [holds EXCEPT ![w] = None]
  /\ overdue' = overdue \ {w}
  /\ pc' = [pc EXCEPT ![w] = "idle"]
  /\ job' = [job EXCEPT ![w] = None]
  /\ UNCHANGED <<apiVars, msg, countVars, marked, boundVars>>

-----------------------------------------------------------------------------
(* The environment *)

(* A lease ends: of a process that crashed, or of a live worker whose      *)
(* handler takes longer than the 600 seconds of the lock.                  *)
ExpireLock(k) ==
  /\ owner[k] # None
  /\ owner' = [owner EXCEPT ![k] = None]
  /\ \/ /\ owner[k] = Dead
        /\ UNCHANGED <<overdue, expiries>>
     \/ /\ owner[k] \in Workers
        /\ expiries < MaxExpiries
        /\ expiries' = expiries + 1
        /\ overdue' = overdue \union {owner[k]}
  /\ UNCHANGED <<apiVars, msg, pc, job, holds, countVars, marked, crashes,
                 faults>>

(* jobservice dies and starts again: the broker redelivers what was not    *)
(* acknowledged, a message between its ack and its publish is lost, the    *)
(* counter starts from zero and the keys stay until they expire.           *)
Crash ==
  /\ crashes < MaxCrashes
  /\ crashes' = crashes + 1
  /\ msg' = [t \in Tasks |->
               CASE msg[t] \in {"buffered", "taken", "parked"} -> "ready"
                 [] msg[t] = "resending" -> "lost"
                 [] OTHER -> msg[t]]
  /\ pc' = [w \in Workers |-> "idle"]
  /\ job' = [w \in Workers |-> None]
  /\ holds' = [w \in Workers |-> None]
  /\ owner' = [k \in Keys |-> IF owner[k] \in Workers THEN Dead ELSE owner[k]]
  /\ overdue' = {}
  /\ counted' = {}
  /\ deploymentsC' = 0
  /\ marked' = {}
  /\ UNCHANGED <<apiVars, expiries, faults>>

Submission(t) ==
  CheckConflict(t) \/ InsertRow(t) \/ Publish(t) \/ RequestFails(t)

(* What a worker thread does without anyone else, the end of the handler   *)
(* left out.                                                               *)
WorkerStep(w) ==
  \/ CheckLimit(w) \/ Lock(w) \/ LockBusy(w) \/ Republish(w) \/ Count(w)
  \/ StartTask(w) \/ SkipTask(w) \/ CheckFails(w)
  \/ MarkRunning(w) \/ CancelWins(w)
  \/ DeleteFinished(w) \/ AckFinished(w) \/ Uncount(w) \/ Unlock(w)

Next ==
  \/ \E t \in Tasks : Submission(t) \/ CancelTask(t) \/ DeleteTask(t)
                      \/ DropHanged(t) \/ Deliver(t)
  \/ \E w \in Workers, t \in Tasks : TakeMessage(w, t)
  \/ \E w \in Workers : WorkerStep(w) \/ HandlerEnds(w)
  \/ \E k \in Keys : ExpireLock(k)
  \/ Crash

Spec == Init /\ [][Next]_vars

(* Threads run, a request that has inserted its row goes on, the broker    *)
(* delivers every ready message and the TQueue hands out every buffered    *)
(* one (both are FIFO), Redis expires keys, and dropHangedTasks comes by   *)
(* every five seconds.  Nothing makes a handler end, a request arrive or a *)
(* user act.                                                               *)
Fairness ==
  /\ \A t \in Tasks : WF_vars(Publish(t)) /\ WF_vars(DropHanged(t))
  /\ \A w \in Workers : WF_vars(WorkerStep(w))
  /\ \A t \in Tasks : SF_vars(Deliver(t)) /\ SF_vars(\E w \in Workers : TakeMessage(w, t))
  /\ \A k \in Keys : WF_vars(owner[k] = Dead /\ ExpireLock(k))

FairSpec == Spec /\ Fairness

(* Every handler ends sooner or later: what some of the properties assume. *)
HandlersEnd == \A w \in Workers : WF_vars(HandlerEnds(w))

-----------------------------------------------------------------------------
(* Properties *)

TypeOK ==
  /\ rows \in [Tasks -> {"none", "dropped", "queued", "running", "cancelled"}]
  /\ request \in [Tasks -> {"new", "checked", "inserted", "accepted", "refused",
                            "failed"}]
  /\ msg \in [Tasks -> MsgPlaces]
  /\ pc \in [Workers -> {"idle", "limit", "lock", "count", "check", "run",
                         "delete", "ack", "resend", "leave"}]
  /\ job \in [Workers -> Tasks \union {None}]
  /\ holds \in [Workers -> Keys \union {None}]
  /\ owner \in [Keys -> Workers \union {None, Dead}]
  /\ overdue \subseteq Workers
  /\ counted \subseteq Workers
  /\ deploymentsC \in Int
  /\ marked \subseteq Workers
  /\ crashes \in 0..MaxCrashes
  /\ expiries \in 0..MaxExpiries
  /\ faults \in 0..MaxFaults

(* genericFormattedLock: two workers are inside the block of one lock key  *)
(* only when the lease of one of them has run out under it.                *)
ExclusiveUnlessOverdue ==
  \A v, w \in Workers \ overdue :
    v # w /\ holds[v] # None => holds[v] # holds[w]

(* The counter that CONCURRENT_DEPLOYMENTS is compared with is the number  *)
(* of workers between its two updates, on every way through raceTask; it   *)
(* is never left behind by a cancelled, failed or rejected task.           *)
CounterExact == deploymentsC = Cardinality(counted)

(* One delivery is with one worker: no task is handled twice at a time,    *)
(* not even after its message was rejected, recreated or redelivered.      *)
Handling == {w \in Workers : pc[w] \notin {"idle", "leave"}}

OneWorkerPerTask == \A v, w \in Handling : v # w => job[v] # job[w]

(* What the proofs add: a worker that believes in its lease owns its key,  *)
(* a worker handles a task whose message it alone has, and only workers    *)
(* past the increment of the counter are counted.                          *)
LeaseInv ==
  \A w \in Workers :
    /\ holds[w] # None /\ w \notin overdue => owner[holds[w]] = w
    /\ pc[w] \in {"idle", "lock"} => holds[w] = None
    /\ pc[w] = "limit" /\ Kind[job[w]] = "deploy" => holds[w] = None

MessageInv ==
  /\ \A w \in Handling :
       /\ job[w] \in Tasks
       /\ msg[job[w]] \in {"taken", "resending"}
       /\ pc[w] = "lock" => KeyOf[job[w]] # None
  /\ \A t \in Tasks : request[t] # "accepted" => msg[t] = "none"
  /\ OneWorkerPerTask

CountInv ==
  /\ \A w \in counted : pc[w] \in {"check", "run", "delete", "ack", "leave"}
  /\ CounterExact

QueueInv == LeaseInv /\ MessageInv /\ CountInv

(* The detailed pipeline implements the contract of a task.  A task runs   *)
(* from the start of its handler to the ack of its message.                *)
Executing(w) == pc[w] \in {"run", "delete", "ack"}

RunningTask(t) == \E w \in Workers : job[w] = t /\ Executing(w)

TaskPhase(t) ==
  CASE msg[t] = "none"  -> "absent"
    [] msg[t] = "acked" -> "settled"
    [] msg[t] = "lost"  -> "lost"
    [] RunningTask(t)   -> "running"
    [] OTHER            -> "pending"

Overran == {t \in Tasks : \E w \in overdue : job[w] = t /\ Executing(w)}

Lifecycle ==
  INSTANCE TaskLifecycle WITH phase <- [t \in Tasks |-> TaskPhase(t)], overran <- Overran

LifecycleSpec == Lifecycle!Spec

(* A task that f resends while its lock is taken or the limit is reached   *)
(* (destroyInstance, allocateNode) is settled in the end, whatever the     *)
(* other tasks do, unless a crash loses its message.  Every other task is  *)
(* settled, or skipped because its lock was taken: its message is then     *)
(* parked, unacknowledged, until jobservice restarts.                      *)
EndOf(t) == {"acked", "lost"} \union (IF Resendable(t) THEN {} ELSE {"parked"})

TasksSettle ==
  HandlersEnd => \A t \in Tasks : msg[t] = "ready" ~> msg[t] \in EndOf(t)

(* No row stays for ever, so that no conflict key stays taken: not the row *)
(* of a task whose message was lost or never published, whose deletion     *)
(* failed, which was cancelled before it started or which was skipped      *)
(* because of its lock.                                                    *)
RowsLeave == HandlersEnd => \A t \in Tasks : ~Gone(t) ~> Gone(t)

(* Deleting the row of a running task stops its handler, although raceLock *)
(* may write the status at the same time and the handler alone would never *)
(* end: waitForCancel takes the missing row for a cancelled task.          *)
DeletedTaskStops ==
  \A t \in Tasks : \A w \in Workers :
    (pc[w] = "run" /\ job[w] = t /\ Gone(t)) ~> pc[w] # "run"

-----------------------------------------------------------------------------
(* What the documentation says of the pipeline. *)

(* CONCURRENT_DEPLOYMENTS is the maximal number of stands deployed or      *)
(* destroyed at the same time (dev-guide/jobservice.md).                   *)
DeploymentLimit == Cardinality(counted) <= DeployLimit

(* A cancelled task is not executed (dev-guide/jobservice.md): a worker    *)
(* never turns the status "cancelled" into "running".                      *)
CancelledNotRun ==
  [][\A t \in Tasks : rows[t] = "cancelled" => rows'[t] # "running"]_vars
=============================================================================
