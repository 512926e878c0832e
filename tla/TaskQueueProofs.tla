-------------------------- MODULE TaskQueueProofs --------------------------
(***************************************************************************)
(* Theorems about the task pipeline for any number of tasks, workers and   *)
(* lock keys, any assignment of handlers and keys to the tasks and any     *)
(* number of crashes, expired leases and failed calls.                     *)
(***************************************************************************)
EXTENDS TaskQueue, FiniteSetTheorems, TLAPS

LEMMA InitInv == Init => TypeOK /\ QueueInv
BY QueueAssumption, FS_EmptySet
   DEF Init, TypeOK, MsgPlaces, QueueInv, LeaseInv, MessageInv, CountInv,
       OneWorkerPerTask, Handling, CounterExact

(* Types, one lemma for the API and the broker and one for the workers.    *)
LEMMA SubmissionType ==
  ASSUME TypeOK, NEW t \in Tasks,
         Submission(t) \/ CancelTask(t) \/ DeleteTask(t)
               \/ DropHanged(t) \/ Deliver(t)
  PROVE  TypeOK'
<1> USE QueueAssumption DEF TypeOK, MsgPlaces, apiVars, lockVars, countVars, boundVars
<1>1. CASE CheckConflict(t)  BY <1>1 DEF CheckConflict
<1>2. CASE InsertRow(t)      BY <1>2 DEF InsertRow
<1>3. CASE Publish(t)        BY <1>3 DEF Publish
<1>4. CASE RequestFails(t)   BY <1>4 DEF RequestFails
<1>5. CASE CancelTask(t)     BY <1>5 DEF CancelTask, Gone
<1>6. CASE DeleteTask(t) \/ DropHanged(t)
  BY <1>6 DEF DeleteTask, DropHanged, Gone
<1>7. CASE Deliver(t)        BY <1>7 DEF Deliver
<1>8. QED
  BY <1>1, <1>2, <1>3, <1>4, <1>5, <1>6, <1>7 DEF Submission

LEMMA WorkerType ==
  ASSUME TypeOK, QueueInv, NEW w \in Workers, WorkerStep(w) \/ HandlerEnds(w)
  PROVE  TypeOK'
<1>0. pc[w] \notin {"idle", "leave"} => job[w] \in Tasks
  BY DEF QueueInv, MessageInv, Handling
<1> USE QueueAssumption, <1>0
    DEF TypeOK, MsgPlaces, apiVars, lockVars, countVars, boundVars
<1>1. CASE CheckLimit(w)     BY <1>1 DEF CheckLimit, BeginResend
<1>2. CASE Lock(w)
  <2>1. KeyOf[job[w]] \in Keys
    BY <1>2 DEF Lock, Unlocked, QueueInv, MessageInv, Handling
  <2>2. QED
    BY <1>2, <2>1 DEF Lock, Unlocked
<1>3. CASE LockBusy(w)       BY <1>3 DEF LockBusy, Unlocked, BeginResend
<1>4. CASE Republish(w)      BY <1>4 DEF Republish
<1>5. CASE Count(w)          BY <1>5 DEF Count
<1>6. CASE StartTask(w)      BY <1>6 DEF StartTask
<1>7. CASE SkipTask(w)       BY <1>7 DEF SkipTask
<1>8. CASE CheckFails(w)     BY <1>8 DEF CheckFails
<1>9. CASE MarkRunning(w)    BY <1>9 DEF MarkRunning
<1>10. CASE CancelWins(w)    BY <1>10 DEF CancelWins
<1>11. CASE DeleteFinished(w) BY <1>11 DEF DeleteFinished
<1>12. CASE AckFinished(w)   BY <1>12 DEF AckFinished
<1>13. CASE Uncount(w)       BY <1>13 DEF Uncount
<1>14. CASE Unlock(w)        BY <1>14 DEF Unlock
<1>15. CASE HandlerEnds(w)   BY <1>15 DEF HandlerEnds
<1>16. QED
  BY <1>1, <1>2, <1>3, <1>4, <1>5, <1>6, <1>7, <1>8, <1>9, <1>10, <1>11,
     <1>12, <1>13, <1>14, <1>15 DEF WorkerStep

LEMMA NextType == TypeOK /\ QueueInv /\ [Next]_vars => TypeOK'
<1> SUFFICES ASSUME TypeOK, QueueInv, [Next]_vars PROVE TypeOK'
  OBVIOUS
<1>1. ASSUME NEW w \in Workers, NEW t \in Tasks, TakeMessage(w, t) PROVE TypeOK'
  BY <1>1, QueueAssumption
     DEF TakeMessage, TypeOK, MsgPlaces, apiVars, lockVars, countVars, boundVars
<1>2. ASSUME NEW k \in Keys, ExpireLock(k) PROVE TypeOK'
  BY <1>2, QueueAssumption
     DEF ExpireLock, TypeOK, MsgPlaces, apiVars, lockVars, countVars, boundVars
<1>3. CASE Crash
  BY <1>3, QueueAssumption DEF Crash, TypeOK, MsgPlaces, apiVars
<1>4. CASE UNCHANGED vars
  BY <1>4 DEF vars, TypeOK, MsgPlaces, apiVars, lockVars, countVars, boundVars
<1>5. QED
  BY <1>1, <1>2, <1>3, <1>4, SubmissionType, WorkerType DEF Next

-----------------------------------------------------------------------------
(* A worker that has its lease owns its key after every step.              *)
LEMMA NextLease == TypeOK /\ QueueInv /\ [Next]_vars => LeaseInv'
<1> SUFFICES ASSUME TypeOK, QueueInv, [Next]_vars PROVE LeaseInv'
  OBVIOUS
<1> USE QueueAssumption DEF TypeOK, LeaseInv, QueueInv, apiVars, lockVars, countVars,
                            boundVars
<1>1. ASSUME NEW t \in Tasks,
             Submission(t) \/ CancelTask(t) \/ DeleteTask(t)
               \/ DropHanged(t) \/ Deliver(t)
      PROVE  LeaseInv'
  BY <1>1 DEF Submission, CheckConflict, InsertRow, Publish, RequestFails,
              CancelTask, DeleteTask, DropHanged,
              Deliver
<1>2. ASSUME NEW w \in Workers, NEW t \in Tasks, TakeMessage(w, t)
      PROVE  LeaseInv'
  BY <1>2 DEF TakeMessage
<1>3. ASSUME NEW w \in Workers, WorkerStep(w) \/ HandlerEnds(w) PROVE LeaseInv'
  <2>1. CASE CheckLimit(w)
    BY <2>1 DEF CheckLimit, BeginResend
  <2>2. CASE Lock(w)
    <3>1. holds[w] = None /\ owner[KeyOf[job[w]]] = None /\ KeyOf[job[w]] \in Keys
      BY <2>2 DEF Lock, Unlocked, MessageInv, Handling
    <3>2. \A v \in Workers :
            holds[v] # None /\ v \notin overdue => holds[v] # KeyOf[job[w]]
      BY <3>1
    <3>3. QED
      BY <2>2, <3>1, <3>2 DEF Lock, Unlocked
  <2>3. CASE LockBusy(w)
    BY <2>3 DEF LockBusy, Unlocked, BeginResend
  <2>4. CASE Unlock(w)
    BY <2>4 DEF Unlock
  <2>5. CASE Republish(w) \/ Count(w) \/ StartTask(w) \/ SkipTask(w) \/ CheckFails(w)
    BY <2>5 DEF Republish, Count, StartTask, SkipTask, CheckFails
  <2>6. CASE MarkRunning(w) \/ CancelWins(w) \/ HandlerEnds(w) \/ DeleteFinished(w)
             \/ AckFinished(w) \/ Uncount(w)
    BY <2>6 DEF MarkRunning, Gone, CancelWins, HandlerEnds, DeleteFinished, AckFinished,
                Uncount
  <2>7. QED
    BY <1>3, <2>1, <2>2, <2>3, <2>4, <2>5, <2>6 DEF WorkerStep
<1>4. ASSUME NEW k \in Keys, ExpireLock(k) PROVE LeaseInv'
  BY <1>4 DEF ExpireLock
<1>5. CASE Crash
  BY <1>5 DEF Crash
<1>6. CASE UNCHANGED vars
  BY <1>6 DEF vars
<1>7. QED
  BY <1>1, <1>2, <1>3, <1>4, <1>5, <1>6 DEF Next

(* A message is with one worker after every step.                          *)
LEMMA NextMessage == TypeOK /\ QueueInv /\ [Next]_vars => MessageInv'
<1> SUFFICES ASSUME TypeOK, QueueInv, [Next]_vars PROVE MessageInv'
  OBVIOUS
<1> USE QueueAssumption
    DEF TypeOK, MessageInv, QueueInv, OneWorkerPerTask, Handling, apiVars, lockVars,
        countVars, boundVars
<1>1. ASSUME NEW t \in Tasks,
             Submission(t) \/ CancelTask(t) \/ DeleteTask(t)
               \/ DropHanged(t) \/ Deliver(t)
      PROVE  MessageInv'
  BY <1>1 DEF Submission, CheckConflict, InsertRow, Publish, RequestFails,
              CancelTask, DeleteTask, DropHanged,
              Deliver
<1>2. ASSUME NEW w \in Workers, NEW t \in Tasks, TakeMessage(w, t)
      PROVE  MessageInv'
  <2>1. \A v \in Handling : job[v] # t /\ v # w
    BY <1>2 DEF TakeMessage
  <2>2. request[t] = "accepted"
    BY <1>2 DEF TakeMessage
  <2>3. pc'[w] = "lock" => KeyOf[t] # None
    BY <1>2 DEF TakeMessage
  <2>4. QED
    BY <1>2, <2>1, <2>2, <2>3 DEF TakeMessage
<1>3. ASSUME NEW w \in Workers, WorkerStep(w) \/ HandlerEnds(w) PROVE MessageInv'
  <2>1. CASE CheckLimit(w)
    BY <2>1 DEF CheckLimit, BeginResend
  <2>2. CASE Lock(w)
    BY <2>2 DEF Lock, Unlocked
  <2>3. CASE LockBusy(w)
    BY <2>3 DEF LockBusy, Unlocked, BeginResend
  <2>4. CASE Unlock(w)
    BY <2>4 DEF Unlock
  <2>5. CASE Republish(w)
    BY <2>5 DEF Republish
  <2>6. CASE Count(w) \/ StartTask(w) \/ MarkRunning(w) \/ CancelWins(w)
             \/ HandlerEnds(w) \/ DeleteFinished(w) \/ Uncount(w)
    BY <2>6 DEF Count, StartTask, MarkRunning, Gone, CancelWins, HandlerEnds,
                DeleteFinished, Uncount
  <2>7. CASE SkipTask(w)
    BY <2>7 DEF SkipTask
  <2>8. CASE CheckFails(w)
    BY <2>8 DEF CheckFails
  <2>9. CASE AckFinished(w)
    BY <2>9 DEF AckFinished
  <2>10. QED
    BY <1>3, <2>1, <2>2, <2>3, <2>4, <2>5, <2>6, <2>7, <2>8, <2>9 DEF WorkerStep
<1>4. ASSUME NEW k \in Keys, ExpireLock(k) PROVE MessageInv'
  BY <1>4 DEF ExpireLock
<1>5. CASE Crash
  BY <1>5 DEF Crash
<1>6. CASE UNCHANGED vars
  BY <1>6 DEF vars
<1>7. QED
  BY <1>1, <1>2, <1>3, <1>4, <1>5, <1>6 DEF Next

(* The counter of deployments counts the counted workers after every step. *)
LEMMA NextCount == TypeOK /\ QueueInv /\ [Next]_vars => CountInv'
<1> SUFFICES ASSUME TypeOK, QueueInv, [Next]_vars PROVE CountInv'
  OBVIOUS
<1>0. IsFiniteSet(counted)
  BY QueueAssumption, FS_Subset DEF TypeOK
<1> USE QueueAssumption
    DEF TypeOK, CountInv, CounterExact, QueueInv, apiVars, lockVars, countVars,
        boundVars
<1>1. ASSUME NEW t \in Tasks,
             Submission(t) \/ CancelTask(t) \/ DeleteTask(t)
               \/ DropHanged(t) \/ Deliver(t)
      PROVE  CountInv'
  BY <1>1 DEF Submission, CheckConflict, InsertRow, Publish, RequestFails,
              CancelTask, DeleteTask, DropHanged,
              Deliver
<1>2. ASSUME NEW w \in Workers, NEW t \in Tasks, TakeMessage(w, t) PROVE CountInv'
  BY <1>2 DEF TakeMessage
<1>3. ASSUME NEW w \in Workers, WorkerStep(w) \/ HandlerEnds(w) PROVE CountInv'
  <2>1. CASE Count(w)
    <3>1. w \notin counted
      BY <2>1 DEF Count
    <3>2. Cardinality(counted \union {w}) = Cardinality(counted) + 1
      BY <1>0, <3>1, FS_AddElement
    <3>3. QED
      BY <2>1, <3>2 DEF Count
  <2>2. CASE Uncount(w)
    <3>1. Cardinality(counted \ {w}) = Cardinality(counted) - 1
      BY <1>0, <2>2, FS_RemoveElement DEF Uncount
    <3>2. QED
      BY <2>2, <3>1 DEF Uncount
  <2>3. CASE CheckLimit(w) \/ Lock(w) \/ LockBusy(w) \/ Republish(w) \/ Unlock(w)
    BY <2>3 DEF CheckLimit, BeginResend, Lock, Unlocked, LockBusy, Republish, Unlock
  <2>4. CASE StartTask(w) \/ SkipTask(w) \/ CheckFails(w) \/ MarkRunning(w)
             \/ CancelWins(w) \/ HandlerEnds(w) \/ DeleteFinished(w) \/ AckFinished(w)
    BY <2>4 DEF StartTask, SkipTask, CheckFails, MarkRunning, Gone, CancelWins,
                HandlerEnds, DeleteFinished, AckFinished
  <2>5. QED
    BY <1>3, <2>1, <2>2, <2>3, <2>4 DEF WorkerStep
<1>4. ASSUME NEW k \in Keys, ExpireLock(k) PROVE CountInv'
  BY <1>4 DEF ExpireLock
<1>5. CASE Crash
  BY <1>5, FS_EmptySet DEF Crash
<1>6. CASE UNCHANGED vars
  BY <1>6 DEF vars
<1>7. QED
  BY <1>1, <1>2, <1>3, <1>4, <1>5, <1>6 DEF Next

-----------------------------------------------------------------------------
(* The inductive invariant of the pipeline, in every behaviour.            *)
THEOREM QueueInvariant == Spec => [](TypeOK /\ QueueInv)
<1>1. TypeOK /\ QueueInv /\ [Next]_vars => (TypeOK /\ QueueInv)'
  BY NextType, NextLease, NextMessage, NextCount DEF QueueInv
<1>2. QED
  BY <1>1, InitInv, PTL DEF Spec

(* The variables of the pipeline keep their types.                         *)
THEOREM TypeCorrect == Spec => []TypeOK
BY QueueInvariant, PTL

(* No two workers that have their leases are inside one lock key.          *)
THEOREM ExclusionTheorem == Spec => []ExclusiveUnlessOverdue
<1>1. TypeOK /\ QueueInv => ExclusiveUnlessOverdue
  BY DEF TypeOK, QueueInv, LeaseInv, ExclusiveUnlessOverdue
<1>2. QED
  BY <1>1, QueueInvariant, PTL

(* The counter is exact however tasks end.                                 *)
THEOREM CounterTheorem == Spec => []CounterExact
<1>1. QueueInv => CounterExact
  BY DEF QueueInv, CountInv
<1>2. QED
  BY <1>1, QueueInvariant, PTL

(* No task is ever with two workers.                                       *)
THEOREM OneWorkerTheorem == Spec => []OneWorkerPerTask
<1>1. QueueInv => OneWorkerPerTask
  BY DEF QueueInv, MessageInv
<1>2. QED
  BY <1>1, QueueInvariant, PTL

-----------------------------------------------------------------------------
(* What the refinement needs besides: a worker past its lock is inside the *)
(* block of its task's key, and the message of a task that a worker        *)
(* handles is unacknowledged but while it waits to be published again.     *)
HoldInv ==
  \A w \in Workers :
    /\ pc[w] \in {"count", "check"} \/ Executing(w) => holds[w] = KeyOf[job[w]]
    /\ pc[w] = "limit" /\ Kind[job[w]] # "deploy" => holds[w] = KeyOf[job[w]]
    /\ pc[w] \notin {"idle", "leave", "resend"} => msg[job[w]] = "taken"

LEMMA NextHold == TypeOK /\ QueueInv /\ HoldInv /\ [Next]_vars => HoldInv'
<1> SUFFICES ASSUME TypeOK, QueueInv, HoldInv, [Next]_vars PROVE HoldInv'
  OBVIOUS
<1> USE QueueAssumption
    DEF TypeOK, HoldInv, Executing, QueueInv, MessageInv, OneWorkerPerTask, Handling,
        apiVars, lockVars, countVars, boundVars
<1>1. ASSUME NEW t \in Tasks,
             Submission(t) \/ CancelTask(t) \/ DeleteTask(t)
               \/ DropHanged(t) \/ Deliver(t)
      PROVE  HoldInv'
  BY <1>1 DEF Submission, CheckConflict, InsertRow, Publish, RequestFails,
              CancelTask, DeleteTask, DropHanged, Deliver
<1>2. ASSUME NEW w \in Workers, NEW t \in Tasks, TakeMessage(w, t)
      PROVE  HoldInv'
  <2>1. holds[w] = None
    BY <1>2 DEF TakeMessage, LeaseInv
  <2>2. pc'[w] = "check" => KeyOf[t] = None
    BY <1>2 DEF TakeMessage
  <2>3. pc'[w] = "limit" => Kind[t] = "deploy"
    BY <1>2 DEF TakeMessage
  <2>4. pc'[w] \in {"limit", "check", "lock"}
    BY <1>2 DEF TakeMessage
  <2>5. QED
    BY <1>2, <2>1, <2>2, <2>3, <2>4 DEF TakeMessage
<1>3. ASSUME NEW w \in Workers, WorkerStep(w) \/ HandlerEnds(w) PROVE HoldInv'
  <2>1. CASE CheckLimit(w)
    BY <2>1 DEF CheckLimit, BeginResend
  <2>2. CASE Lock(w)
    BY <2>2 DEF Lock, Unlocked
  <2>3. CASE LockBusy(w)
    BY <2>3 DEF LockBusy, Unlocked, BeginResend
  <2>4. CASE Unlock(w)
    BY <2>4 DEF Unlock
  <2>5. CASE Republish(w)
    BY <2>5 DEF Republish
  <2>6. CASE Count(w) \/ StartTask(w) \/ MarkRunning(w) \/ CancelWins(w)
             \/ HandlerEnds(w) \/ DeleteFinished(w) \/ Uncount(w)
    BY <2>6 DEF Count, StartTask, MarkRunning, Gone, CancelWins, HandlerEnds,
                DeleteFinished, Uncount
  <2>7. CASE SkipTask(w)
    BY <2>7 DEF SkipTask
  <2>8. CASE CheckFails(w)
    BY <2>8 DEF CheckFails
  <2>9. CASE AckFinished(w)
    BY <2>9 DEF AckFinished
  <2>10. QED
    BY <1>3, <2>1, <2>2, <2>3, <2>4, <2>5, <2>6, <2>7, <2>8, <2>9 DEF WorkerStep
<1>4. ASSUME NEW k \in Keys, ExpireLock(k) PROVE HoldInv'
  BY <1>4 DEF ExpireLock
<1>5. CASE Crash
  BY <1>5 DEF Crash
<1>6. CASE UNCHANGED vars
  BY <1>6 DEF vars
<1>7. QED
  BY <1>1, <1>2, <1>3, <1>4, <1>5, <1>6 DEF Next

(* The phase of a task by the place of its message and its worker.         *)
LEMMA Phases ==
  ASSUME TypeOK, HoldInv, NEW t \in Tasks
  PROVE  /\ RunningTask(t) => msg[t] = "taken"
         /\ TaskPhase(t) = IF msg[t] = "none" THEN "absent"
                           ELSE IF msg[t] = "acked" THEN "settled"
                           ELSE IF msg[t] = "lost" THEN "lost"
                           ELSE IF RunningTask(t) THEN "running" ELSE "pending"
<1>1. RunningTask(t) => msg[t] = "taken"
  BY DEF HoldInv, RunningTask, Executing
<1>2. QED
  BY <1>1 DEF TaskPhase

(* The same of the next state.                                             *)
PhaseInv ==
  \A t \in Tasks : /\ RunningTask(t) => msg[t] = "taken"
                   /\ TaskPhase(t) = IF msg[t] = "none" THEN "absent"
                                     ELSE IF msg[t] = "acked" THEN "settled"
                                     ELSE IF msg[t] = "lost" THEN "lost"
                                     ELSE IF RunningTask(t) THEN "running" ELSE "pending"

LEMMA PhasesAfter ==
  (TypeOK /\ HoldInv)' =>
    \A t \in Tasks : /\ RunningTask(t)' => msg'[t] = "taken"
                     /\ TaskPhase(t)' = IF msg'[t] = "none" THEN "absent"
                                        ELSE IF msg'[t] = "acked" THEN "settled"
                                        ELSE IF msg'[t] = "lost" THEN "lost"
                                        ELSE IF RunningTask(t)' THEN "running" ELSE "pending"
<1>1. TypeOK /\ HoldInv => PhaseInv
  BY Phases DEF PhaseInv
<1>2. (TypeOK /\ HoldInv)' => PhaseInv'
  BY <1>1, PTL
<1>3. QED
  BY <1>2 DEF PhaseInv

(* Which tasks run, and which of them have lost their lease, in the next   *)
(* state.                                                                  *)
LEMMA RunningAfter ==
  /\ \A t : RunningTask(t)' <=>
       \E w \in Workers : job'[w] = t /\ pc'[w] \in {"run", "delete", "ack"}
  /\ Overran' = {t \in Tasks :
       \E w \in overdue' : job'[w] = t /\ pc'[w] \in {"run", "delete", "ack"}}
BY DEF RunningTask, Overran, Executing

(* A step that moves messages only among the places of waiting tasks, and  *)
(* leaves the workers that execute a task alone, is a stutter.             *)
Quiet ==
  /\ \A t \in Tasks : \/ msg'[t] = msg[t]
                      \/ msg[t] \notin {"none", "acked", "lost"}
                         /\ msg'[t] \notin {"none", "acked", "lost"}
  /\ \A w \in Workers :
       /\ pc'[w] \in {"run", "delete", "ack"} <=> Executing(w)
       /\ Executing(w) => job'[w] = job[w] /\ (w \in overdue' <=> w \in overdue)

LEMMA QuietStutters ==
  ASSUME TypeOK, HoldInv, (TypeOK /\ HoldInv)', Quiet
  PROVE  UNCHANGED Lifecycle!vars
<1>1. overdue \subseteq Workers /\ overdue' \subseteq Workers
  BY DEF TypeOK
<1>2. \A t \in Tasks : RunningTask(t)' <=> RunningTask(t)
  BY RunningAfter DEF Quiet, RunningTask, Executing
<1>3. Overran' = Overran
  BY <1>1, RunningAfter DEF Quiet, Overran, Executing
<1>4. \A t \in Tasks : TaskPhase(t)' = TaskPhase(t)
  BY <1>2, Phases, PhasesAfter DEF Quiet
<1>5. QED
  BY <1>3, <1>4 DEF Lifecycle!vars

(* The steps of the API, the broker and the workers that say nothing of a  *)
(* task's life.                                                            *)
LEMMA QuietSubmission ==
  ASSUME TypeOK, NEW t \in Tasks,
         CheckConflict(t) \/ InsertRow(t) \/ RequestFails(t) \/ CancelTask(t)
           \/ DeleteTask(t) \/ DropHanged(t) \/ Deliver(t)
  PROVE  Quiet
BY DEF TypeOK, CheckConflict, InsertRow, RequestFails, CancelTask, DeleteTask, DropHanged,
       Deliver, apiVars, lockVars, countVars, boundVars, Quiet, Executing

LEMMA QuietTake ==
  ASSUME TypeOK, NEW w \in Workers, NEW t \in Tasks, TakeMessage(w, t)
  PROVE  Quiet
BY DEF TypeOK, TakeMessage, apiVars, lockVars, countVars, boundVars, Quiet, Executing

LEMMA QuietWorker ==
  ASSUME TypeOK, QueueInv, HoldInv, NEW w \in Workers,
         \/ CheckLimit(w) \/ Lock(w) \/ LockBusy(w) \/ Republish(w) \/ Count(w)
         \/ CheckFails(w) \/ MarkRunning(w) \/ CancelWins(w) \/ HandlerEnds(w)
         \/ DeleteFinished(w) \/ Uncount(w) \/ Unlock(w)
  PROVE  Quiet
<1>1. pc[w] \notin {"idle", "leave"} =>
        job[w] \in Tasks /\ msg[job[w]] \in {"taken", "resending"}
  BY DEF QueueInv, MessageInv, Handling
<1> USE <1>1 DEF TypeOK, apiVars, lockVars, countVars, boundVars, Quiet, Executing
<1>2. CASE CheckLimit(w)
  BY <1>2 DEF CheckLimit, BeginResend
<1>3. CASE LockBusy(w)
  BY <1>3 DEF LockBusy, Unlocked, BeginResend
<1>4. CASE Lock(w) \/ Count(w) \/ Uncount(w) \/ Unlock(w)
  BY <1>4 DEF Lock, Count, Uncount, Unlock
<1>5. CASE Republish(w) \/ CheckFails(w)
  BY <1>5 DEF Republish, CheckFails
<1>6. CASE MarkRunning(w) \/ CancelWins(w) \/ HandlerEnds(w) \/ DeleteFinished(w)
  BY <1>6 DEF MarkRunning, CancelWins, HandlerEnds, DeleteFinished
<1>7. QED
  BY <1>2, <1>3, <1>4, <1>5, <1>6

-----------------------------------------------------------------------------
(* The steps that move a task on *)

LEMMA PublishAccepts ==
  ASSUME TypeOK, QueueInv, HoldInv, (TypeOK /\ HoldInv)', NEW t \in Tasks, Publish(t)
  PROVE  Lifecycle!Accept(t)
<1>1. msg[t] = "none" /\ msg' = [msg EXCEPT ![t] = "ready"]
  BY DEF Publish, QueueInv, MessageInv
<1>2. pc' = pc /\ job' = job /\ overdue' = overdue
  BY DEF Publish, lockVars
<1>3. Overran' = Overran /\ \A u \in Tasks : RunningTask(u)' <=> RunningTask(u)
  BY <1>2, RunningAfter DEF Overran, RunningTask, Executing
<1>4. TaskPhase(t) = "absent" /\ ~RunningTask(t)
  BY <1>1, Phases
<1>5. TaskPhase(t)' = "pending"
  BY <1>1, <1>3, <1>4, PhasesAfter DEF TypeOK
<1>6. \A u \in Tasks \ {t} : TaskPhase(u)' = TaskPhase(u)
  BY <1>1, <1>3, Phases, PhasesAfter DEF TypeOK
<1>7. QED
  BY <1>3, <1>4, <1>5, <1>6 DEF Lifecycle!Accept

(* Of the tasks, the one of the worker that takes the step is the only one *)
(* that is affected.                                                       *)
LEMMA OthersStay ==
  ASSUME TypeOK, QueueInv, NEW w \in Workers, NEW t \in Tasks, t = job[w],
         pc[w] \notin {"idle", "leave"}, job' = job, overdue' = overdue, \A v \in Workers \ {w} : pc'[v] = pc[v]
  PROVE  /\ \A u \in Tasks \ {t} : /\ RunningTask(u)' <=> RunningTask(u)
                                   /\ u \in Overran' <=> u \in Overran
         /\ \A v \in Workers \ {w} : job[v] = t => ~Executing(v)
<1>1. \A v \in Workers \ {w} : job[v] = t => ~Executing(v)
  BY DEF QueueInv, MessageInv, OneWorkerPerTask, Handling, Executing
<1>2. overdue \subseteq Workers
  BY DEF TypeOK
<1>3. QED
  BY <1>1, <1>2, RunningAfter DEF RunningTask, Overran, Executing

(* Two workers that have their leases do not start on one key: each holds  *)
(* the key of its task, and the key has one owner.                         *)
LEMMA TaskStarts ==
  ASSUME TypeOK, QueueInv, HoldInv, (TypeOK /\ HoldInv)', NEW w \in Workers,
         NEW t \in Tasks, t = job[w], StartTask(w)
  PROVE  Lifecycle!Start(t)
<1>1. /\ pc[w] = "check" /\ pc' = [pc EXCEPT ![w] = "run"]
      /\ msg' = msg /\ job' = job /\ overdue' = overdue
  BY DEF StartTask, lockVars
<1>2. /\ \A u \in Tasks \ {t} : /\ RunningTask(u)' <=> RunningTask(u)
                                /\ u \in Overran' <=> u \in Overran
      /\ \A v \in Workers \ {w} : job[v] = t => ~Executing(v)
  BY <1>1, OthersStay DEF TypeOK
<1>3. pc'[w] = "run" /\ RunningTask(t)' /\ ~RunningTask(t) /\ t \notin Overran
  BY <1>1, <1>2, RunningAfter DEF TypeOK, RunningTask, Overran, Executing
<1>4. msg[t] = "taken" /\ holds[w] = KeyOf[t]
  BY <1>1 DEF HoldInv
<1>5. TaskPhase(t) = "pending" /\ TaskPhase(t)' = "running"
  BY <1>1, <1>2, <1>3, <1>4, Phases, PhasesAfter
<1>6. \A u \in Tasks \ {t} : TaskPhase(u)' = TaskPhase(u)
  BY <1>1, <1>2, Phases, PhasesAfter
<1>7. CASE w \in overdue
  <2>1. Overran' = Overran \union {t}
    BY <1>1, <1>2, <1>3, <1>7, RunningAfter DEF Overran
  <2>2. QED
    BY <1>2, <1>5, <1>6, <2>1 DEF Lifecycle!Start
<1>8. CASE w \notin overdue
  <2>1. t \notin Overran'
    BY <1>1, <1>2, <1>8, RunningAfter DEF Executing, TypeOK
  <2>2. Overran' = Overran
    BY <1>2, <1>3, <2>1 DEF Overran
  <2>3. ASSUME NEW u \in Tasks, TaskPhase(u) = "running", u \notin Overran
        PROVE  KeyOf[u] = None \/ KeyOf[u] # KeyOf[t]
    <3>1. PICK v \in Workers : job[v] = u /\ Executing(v)
      BY <2>3, Phases DEF RunningTask
    <3>2. v \notin overdue /\ v # w /\ holds[v] = KeyOf[u]
      BY <1>1, <2>3, <3>1 DEF Overran, HoldInv, Executing
    <3>3. QED
      BY <1>4, <1>8, <3>2 DEF QueueInv, LeaseInv
  <2>4. QED
    BY <1>2, <1>5, <1>6, <2>2, <2>3 DEF Lifecycle!Start, Lifecycle!Running
<1>9. QED
  BY <1>7, <1>8

LEMMA TaskSettles ==
  ASSUME TypeOK, QueueInv, HoldInv, (TypeOK /\ HoldInv)', NEW w \in Workers,
         NEW t \in Tasks, t = job[w], SkipTask(w) \/ AckFinished(w)
  PROVE  Lifecycle!Settle(t)
<1>1. /\ pc[w] \in {"check", "ack"} /\ pc' = [pc EXCEPT ![w] = "leave"]
      /\ msg' = [msg EXCEPT ![t] = "acked"] /\ job' = job /\ overdue' = overdue
  BY DEF SkipTask, AckFinished, lockVars
<1>2. /\ \A u \in Tasks \ {t} : /\ RunningTask(u)' <=> RunningTask(u)
                                /\ u \in Overran' <=> u \in Overran
      /\ \A v \in Workers \ {w} : job[v] = t => ~Executing(v)
  BY <1>1, OthersStay DEF TypeOK
<1>3. t \notin Overran'
  BY <1>1, <1>2, RunningAfter DEF TypeOK, Executing
<1>4. Overran' = Overran \ {t}
  BY <1>2, <1>3 DEF Overran
<1>5. msg[t] = "taken" /\ msg'[t] = "acked" /\ \A u \in Tasks \ {t} : msg'[u] = msg[u]
  BY <1>1, <1>2 DEF HoldInv, TypeOK
<1>6. TaskPhase(t) \in {"pending", "running"} /\ TaskPhase(t)' = "settled"
  BY <1>2, <1>5, Phases, PhasesAfter
<1>7. \A u \in Tasks \ {t} : TaskPhase(u)' = TaskPhase(u)
  BY <1>2, <1>5, Phases, PhasesAfter
<1>8. QED
  BY <1>2, <1>4, <1>6, <1>7 DEF Lifecycle!Settle

(* A lease that ends concerns the task of the worker whose lease it was,   *)
(* if that executes one.                                                   *)
LEMMA LeaseEnds ==
  ASSUME TypeOK, QueueInv, HoldInv, (TypeOK /\ HoldInv)', NEW k \in Keys, ExpireLock(k)
  PROVE  (\E t \in Tasks : Lifecycle!Overrun(t)) \/ UNCHANGED Lifecycle!vars
<1>1. msg' = msg /\ job' = job /\ pc' = pc
  BY DEF ExpireLock
<1>2. \A u \in Tasks : RunningTask(u)' <=> RunningTask(u)
  BY <1>1, RunningAfter DEF RunningTask, Executing
<1>3. \A u \in Tasks : TaskPhase(u)' = TaskPhase(u)
  BY <1>1, <1>2, Phases, PhasesAfter
<1>4. CASE overdue' = overdue
  <2>1. Overran' = Overran
    BY <1>1, <1>4, RunningAfter DEF Overran, Executing
  <2>2. QED
    BY <1>3, <2>1 DEF Lifecycle!vars
<1>5. CASE overdue' # overdue
  <2>1. PICK w \in Workers : overdue' = overdue \union {w}
    BY <1>5 DEF ExpireLock
  <2>2. CASE ~Executing(w)
    <3>1. Overran' = Overran
      BY <1>1, <2>1, <2>2, RunningAfter DEF Overran, Executing
    <3>2. QED
      BY <1>3, <3>1 DEF Lifecycle!vars
  <2>3. CASE Executing(w)
    <3>1. PICK t \in Tasks : t = job[w]
      BY <2>3 DEF Executing, QueueInv, MessageInv, Handling
    <3>2. Overran' = Overran \union {t}
      BY <1>1, <2>1, <2>3, <3>1, RunningAfter DEF Overran, Executing
    <3>3. RunningTask(t)
      BY <2>3, <3>1 DEF RunningTask
    <3>4. TaskPhase(t) = "running"
      BY <3>1, <3>3, Phases
    <3>5. QED
      BY <1>3, <3>1, <3>2, <3>4 DEF Lifecycle!Overrun
  <2>4. QED
    BY <2>2, <2>3
<1>6. QED
  BY <1>4, <1>5

(* A crash loses the tasks between an ack and a publish, and puts those    *)
(* that a worker executes back.                                            *)
LEMMA CrashRestarts ==
  ASSUME TypeOK, QueueInv, HoldInv, (TypeOK /\ HoldInv)', Crash
  PROVE  Lifecycle!Restart
<1> DEFINE lost == {t \in Tasks : msg[t] = "resending"}
<1>1. Overran' = {} /\ \A t \in Tasks : ~RunningTask(t)'
  BY RunningAfter DEF Crash
<1>2. ASSUME NEW t \in lost
      PROVE  TaskPhase(t) = "pending" /\ TaskPhase(t)' = "lost"
  <2>1. ~RunningTask(t) /\ msg'[t] = "lost"
    BY Phases DEF Crash
  <2>2. QED
    BY <2>1, Phases, PhasesAfter
<1>3. ASSUME NEW t \in Tasks \ lost
      PROVE  TaskPhase(t)' = IF TaskPhase(t) = "running" THEN "pending" ELSE TaskPhase(t)
  <2>1. /\ msg[t] \in {"buffered", "taken", "parked"} => msg'[t] = "ready"
        /\ msg[t] \in {"none", "ready", "acked", "lost"} => msg'[t] = msg[t]
        /\ msg[t] \in {"none", "ready", "acked", "lost", "buffered", "taken", "parked"}
    BY DEF Crash, TypeOK, MsgPlaces
  <2>2. QED
    BY <1>1, <2>1, Phases, PhasesAfter
<1> HIDE DEF lost
<1>4. lost \subseteq {t \in Tasks : TaskPhase(t) = "pending"}
  BY <1>2 DEF lost
<1>5. \A t \in Tasks : TaskPhase(t)' = CASE t \in lost -> "lost"
                                         [] TaskPhase(t) = "running" -> "pending"
                                         [] OTHER -> TaskPhase(t)
  BY <1>2, <1>3
<1>6. QED
  BY <1>1, <1>4, <1>5 DEF Lifecycle!Restart

-----------------------------------------------------------------------------
LEMMA LifecycleInit == Init => Lifecycle!Init
<1> SUFFICES ASSUME Init PROVE Lifecycle!Init
  OBVIOUS
<1>1. Overran = {} /\ \A t \in Tasks : TaskPhase(t) = "absent"
  BY DEF Init, Overran, TaskPhase, RunningTask, Executing
<1>2. QED
  BY <1>1 DEF Lifecycle!Init

LEMMA LifecycleStep ==
  TypeOK /\ QueueInv /\ HoldInv /\ (TypeOK /\ HoldInv)' /\ [Next]_vars
    => [Lifecycle!Next]_(Lifecycle!vars)
<1> SUFFICES ASSUME TypeOK, QueueInv, HoldInv, (TypeOK /\ HoldInv)', [Next]_vars
             PROVE  Lifecycle!Next \/ UNCHANGED Lifecycle!vars
  OBVIOUS
<1>1. ASSUME NEW t \in Tasks,
             Submission(t) \/ CancelTask(t) \/ DeleteTask(t) \/ DropHanged(t) \/ Deliver(t)
      PROVE  Lifecycle!Accept(t) \/ UNCHANGED Lifecycle!vars
  BY <1>1, PublishAccepts, QuietSubmission, QuietStutters DEF Submission
<1>2. ASSUME NEW w \in Workers, NEW t \in Tasks, TakeMessage(w, t)
      PROVE  UNCHANGED Lifecycle!vars
  BY <1>2, QuietTake, QuietStutters
<1>3. ASSUME NEW w \in Workers, WorkerStep(w) \/ HandlerEnds(w)
      PROVE  \/ \E t \in Tasks : Lifecycle!Start(t) \/ Lifecycle!Settle(t)
             \/ UNCHANGED Lifecycle!vars
  <2>1. StartTask(w) \/ SkipTask(w) \/ AckFinished(w) => job[w] \in Tasks
    BY DEF StartTask, SkipTask, AckFinished, QueueInv, MessageInv, Handling
  <2>2. QED
    BY <1>3, <2>1, TaskStarts, TaskSettles, QuietWorker, QuietStutters DEF WorkerStep
<1>4. ASSUME NEW k \in Keys, ExpireLock(k)
      PROVE  (\E t \in Tasks : Lifecycle!Overrun(t)) \/ UNCHANGED Lifecycle!vars
  BY <1>4, LeaseEnds
<1>5. CASE Crash
  BY <1>5, CrashRestarts DEF Lifecycle!Next
<1>6. CASE UNCHANGED vars
  <2>1. Quiet
    BY <1>6 DEF vars, lockVars, Quiet, Executing
  <2>2. QED
    BY <2>1, QuietStutters
<1>7. QED
  BY <1>1, <1>2, <1>3, <1>4, <1>5, <1>6 DEF Next, Lifecycle!Next

(* The pipeline keeps what is promised of a task: it is handled at most    *)
(* once between two restarts, never again once its message is              *)
(* acknowledged, and not at the same time as another task of its key       *)
(* unless one of the two overran its lease.                                *)
THEOREM LifecycleTheorem == Spec => LifecycleSpec
<1>1. Init => HoldInv
  BY QueueAssumption DEF Init, HoldInv, Executing
<1>2. Spec => []HoldInv
  <2>1. TypeOK /\ QueueInv /\ HoldInv /\ [Next]_vars => HoldInv'
    BY NextHold
  <2>2. QED
    BY <1>1, <2>1, QueueInvariant, PTL DEF Spec
<1>3. QED
  BY <1>2, LifecycleInit, LifecycleStep, QueueInvariant, PTL
     DEF Spec, LifecycleSpec, Lifecycle!Spec
=============================================================================
