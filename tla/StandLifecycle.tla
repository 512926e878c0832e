--------------------------- MODULE StandLifecycle ---------------------------
(***************************************************************************)
(* The life of a stand (a DeploymentInstance): its row at deployment-api,  *)
(* its reserved VMIDs and network names, and its virtual machines and      *)
(* networks on the Proxmox cluster (PVE), as the handlers allocateNode,    *)
(* deployInstance and destroyInstance of jobservice change them.           *)
(*                                                                         *)
(* Handlers of one lock key do not overlap (TaskQueue shows when that      *)
(* holds): deploy and destroy share the key of their stand, all            *)
(* allocations share allocate_node_lock, and nothing orders an allocation  *)
(* and a destruction of the same stand.  A stand that was destroyed can be *)
(* created again: its key is made of the user and the template.            *)
(*                                                                         *)
(* An item is a VM or a network of the stand's template.  The networks of  *)
(* a transaction come before its VMs when it deploys and after them when   *)
(* it destroys; no other order matters here.                               *)
(***************************************************************************)
EXTENDS Integers, FiniteSets

CONSTANTS Stands,     \* keys of stands
          VMs, Nets,  \* items of the template
          Vmids,      \* the VMIDs of the node's pool
          Names,      \* the network names of the pool
          Workers,    \* threads of jobservice
          None,       \* no id, no user of an id, no task
          MaxRows,    \* bound of the rows created for each stand
          MaxDestroys,\* bound of the destroy requests
          MaxFaults,  \* bound of the calls that fail after their retries
          MaxAborts   \* bound of the tasks that are cancelled, handlers that die,
                      \* and handlers of other tasks that set Failed

Items == VMs \union Nets
Ids   == Vmids \union Names
Kinds == {"allocate", "deploy", "destroy"}
Tasks == [kind : Kinds, stand : Stands]

ASSUME StandAssumption ==
  /\ None \notin Ids \union Stands \union Tasks
  /\ VMs \intersect Nets = {} /\ Vmids \intersect Names = {}
  /\ IsFiniteSet(Items)
  /\ MaxRows \in Nat /\ MaxDestroys \in Nat
  /\ MaxFaults \in Nat /\ MaxAborts \in Nat

VARIABLES
  state,     \* instanceState, "none" when the stand has no row
  config,    \* the id of each item in instanceDeployConfig
  usedBy,    \* UsedVMID and UsedBridges: the stand that holds each id
  made,      \* PVE: the stand whose handler made the object with each id
  tasks,     \* messages that wait for a worker
  parked,    \* messages left unacknowledged because their lock was taken
  pc,        \* what each worker does next
  job,       \* the task each worker handles
  cfg,       \* the configuration each handler has read or built
  todo,      \* items whose transaction action is still to run
  ahead,     \* ids that a request for ids has still to look at
  picked,    \* the id it has found free and inserts next, or None
  row,       \* number of the row of each stand, the rows before it counted
  seenRow,   \* number of the row each allocation took its VMIDs for
  mixed,     \* an allocation has stored ids taken for an earlier row
  stale,     \* stands whose last status update was lost, or handler stopped
  destroys, faults, aborts

dbVars     == <<state, config, usedBy, row>>
queueVars  == <<tasks, parked>>
requestVars == <<ahead, picked>>
localVars  == <<cfg, todo, requestVars, seenRow>>
ghostVars  == <<mixed, stale>>
boundVars  == <<destroys, faults, aborts>>
vars == <<dbVars, made, queueVars, pc, job, localVars, ghostVars, boundVars>>

NoConfig == [i \in Items |-> None]

Init ==
  /\ state = [s \in Stands |-> "none"]
  /\ config = [s \in Stands |-> NoConfig]
  /\ usedBy = [id \in Ids |-> None]
  /\ made = [id \in Ids |-> None]
  /\ tasks = {} /\ parked = {}
  /\ pc = [w \in Workers |-> "idle"]
  /\ job = [w \in Workers |-> None]
  /\ cfg = [w \in Workers |-> NoConfig]
  /\ todo = [w \in Workers |-> {}]
  /\ ahead = [w \in Workers |-> {}] /\ picked = [w \in Workers |-> None]
  /\ row = [s \in Stands |-> 0]
  /\ seenRow = [w \in Workers |-> 0]
  /\ mixed = FALSE /\ stale = {}
  /\ destroys = 0 /\ faults = 0 /\ aborts = 0

Exists(id) == made[id] # None

-----------------------------------------------------------------------------
(* Requests of the operators, run by the task pool of deployment-api *)

(* createMissingDeployments inserts a row and the handler of the group     *)
(* request sends its allocation; the send may fail, the row stays.         *)
CreateInstance(s) ==
  /\ state[s] = "none"
  /\ row[s] < MaxRows
  /\ state' = [state EXCEPT ![s] = "Created"]
  /\ config' = [config EXCEPT ![s] = NoConfig]
  /\ row' = [row EXCEPT ![s] = @ + 1]
  /\ \/ /\ tasks' = tasks \union {[kind |-> "allocate", stand |-> s]}
        /\ UNCHANGED faults
     \/ /\ faults < MaxFaults
        /\ faults' = faults + 1
        /\ UNCHANGED tasks
  /\ UNCHANGED <<usedBy, made, parked, pc, job, localVars, ghostVars, destroys,
                 aborts>>

(* The group request also deploys the stands that are Created and          *)
(* configured.                                                             *)
Redeploy(s) ==
  /\ state[s] = "Created"
  /\ config[s] # NoConfig
  /\ tasks' = tasks \union {[kind |-> "deploy", stand |-> s]}
  /\ UNCHANGED <<dbVars, made, parked, pc, job, localVars, ghostVars, boundVars>>

(* callInstanceDestroy, and the forced group destruction.                  *)
RequestDestroy(s) ==
  /\ state[s] # "none"
  /\ destroys < MaxDestroys
  /\ destroys' = destroys + 1
  /\ tasks' = tasks \union {[kind |-> "destroy", stand |-> s]}
  /\ UNCHANGED <<dbVars, made, parked, pc, job, localVars, ghostVars, faults,
                 aborts>>

-----------------------------------------------------------------------------
(* Workers *)

Busy(w) == pc[w] # "idle"

(* Mutant of SameLock: the key of an allocation names its stand.           *)
LockOfStand(t, u) == t.stand = u.stand /\ (t.kind = "allocate" <=> u.kind = "allocate")

(* Two tasks use one lock key.                                             *)
SameLock(t, u) ==
  IF t.kind = "allocate" THEN u.kind = "allocate"
                         ELSE u.kind # "allocate" /\ t.stand = u.stand

Locked(t) == \E w \in Workers : Busy(w) /\ SameLock(job[w], t)

Take(w, t) ==
  /\ ~Busy(w)
  /\ t \in tasks
  /\ ~Locked(t)
  /\ tasks' = tasks \ {t}
  /\ job' = [job EXCEPT ![w] = t]
  /\ pc' = [pc EXCEPT ![w] = "read"]
  /\ UNCHANGED <<dbVars, made, parked, localVars, ghostVars, boundVars>>

(* A deployment whose lock is taken is skipped without an answer to the    *)
(* broker; the other tasks are sent again, which changes nothing here.     *)
SkipLocked(t) ==
  /\ t \in tasks
  /\ t.kind = "deploy"
  /\ Locked(t)
  /\ \E w \in Workers : ~Busy(w)
  /\ tasks' = tasks \ {t}
  /\ parked' = parked \union {t}
  /\ UNCHANGED <<dbVars, made, pc, job, localVars, ghostVars, boundVars>>

Goto(w, place) == pc' = [pc EXCEPT ![w] = place]

(* The request for ids is over.                                            *)
EndRequest(w) ==
  /\ ahead' = [ahead EXCEPT ![w] = {}]
  /\ picked' = [picked EXCEPT ![w] = None]

(* The handler ends; its local variables go.                               *)
Leave(w) ==
  /\ Goto(w, "idle")
  /\ job' = [job EXCEPT ![w] = None]
  /\ cfg' = [cfg EXCEPT ![w] = NoConfig]
  /\ todo' = [todo EXCEPT ![w] = {}]
  /\ EndRequest(w)
  /\ seenRow' = [seenRow EXCEPT ![w] = 0]

Fault == faults < MaxFaults /\ faults' = faults + 1

(* A call of the handler fails: on to the error branch.  A request for ids *)
(* that breaks off anywhere keeps those it has inserted; retryClientC may  *)
(* repeat it.                                                              *)
CallFails(w) ==
  /\ Fault
  /\ \/ /\ pc[w] \in {"read", "vmids", "vmidLoop", "names", "nameLoop", "patch", "send",
                      "plan", "delete"}
        /\ Goto(w, "fail")
     \/ pc[w] = "vmidLoop" /\ Goto(w, "vmids")
     \/ pc[w] = "nameLoop" /\ Goto(w, "names")
  /\ EndRequest(w)
  /\ UNCHANGED <<dbVars, made, queueVars, job, cfg, todo, seenRow, ghostVars, destroys,
                 aborts>>

(* Mutant of Fail: the error branch does not set the status.               *)
FailSilently(w) ==
  /\ pc[w] = "fail"
  /\ Leave(w)
  /\ UNCHANGED <<dbVars, made, queueVars, ghostVars, boundVars>>

(* setDeploymentInstanceStatus, whose result every handler ignores.        *)
SetStatus(s, status) ==
  \/ /\ state' = [state EXCEPT ![s] = IF @ = "none" THEN @ ELSE status]
     /\ stale' = stale \ {s}
     /\ UNCHANGED faults
  \/ /\ Fault
     /\ stale' = stale \union {s}
     /\ UNCHANGED state

Fail(w) ==
  /\ pc[w] = "fail"
  /\ SetStatus(job[w].stand, "Failed")
  /\ Leave(w)
  /\ UNCHANGED <<config, usedBy, row, made, queueVars, mixed, destroys, aborts>>

(* getDeploymentInstance at the start of each handler.  A missing row is   *)
(* an error; a stand that needs no work ends the handler.                  *)
ReadInstance(w) ==
  LET s == job[w].stand
      k == job[w].kind
      skip == \/ k = "allocate" /\ config[s] # NoConfig
              \/ k = "deploy" /\ state[s] \in {"Deployed", "Deploying", "Destroying"}
  IN
  /\ pc[w] = "read"
  /\ \/ /\ state[s] = "none"
        /\ Goto(w, "fail")
        /\ UNCHANGED <<job, localVars>>
     \/ /\ state[s] # "none" /\ skip
        /\ Leave(w)
     \/ /\ state[s] # "none" /\ ~skip
        /\ cfg' = [cfg EXCEPT ![w] = config[s]]
        /\ Goto(w, IF k = "allocate" THEN "vmids" ELSE "mark")
        /\ UNCHANGED <<job, todo, requestVars, seenRow>>
  /\ UNCHANGED <<dbVars, made, queueVars, ghostVars, boundVars>>

-----------------------------------------------------------------------------
(* allocateNode *)

(* requestDeploymentVMID, for the VMs, and requestDeploymentNetworks       *)
ForVMs(w) == pc[w] \in {"vmids", "vmidLoop"}
InLoop(w) == pc[w] \in {"vmidLoop", "nameLoop"}

Wanted(w) == IF ForVMs(w) THEN VMs ELSE Nets
Pool(w)   == IF ForVMs(w) THEN Vmids ELSE Names

Held(s, pool) == {id \in pool : usedBy[id] = s}

(* The stand holds as many ids as it has asked for, those of an earlier    *)
(* request counted.                                                        *)
Enough(w) == Cardinality(Held(job[w].stand, Pool(w))) >= Cardinality(Wanted(w))

(* The request finds the row and lists the ids that PVE does not know.     *)
RequestIds(w) ==
  /\ pc[w] \in {"vmids", "names"}
  /\ \/ /\ state[job[w].stand] # "none"
        /\ ahead' = [ahead EXCEPT ![w] = {id \in Pool(w) : ~Exists(id)}]
        /\ Goto(w, IF ForVMs(w) THEN "vmidLoop" ELSE "nameLoop")
     \/ /\ state[job[w].stand] = "none"
        /\ Goto(w, "fail")
        /\ UNCHANGED ahead
  /\ UNCHANGED <<dbVars, made, queueVars, job, cfg, todo, picked, seenRow, ghostVars,
                 boundVars>>

(* Mutant of LookAtId: the ids are not counted before each of them.        *)
LookOn(w, id) ==
  /\ InLoop(w) /\ picked[w] = None
  /\ id \in ahead[w]
  /\ ahead' = [ahead EXCEPT ![w] = @ \ {id}]
  /\ picked' = [picked EXCEPT ![w] = IF usedBy[id] = None THEN id ELSE None]
  /\ UNCHANGED <<dbVars, made, queueVars, pc, job, cfg, todo, seenRow, ghostVars,
                 boundVars>>

(* An id that somebody holds is passed over.                               *)
LookAtId(w, id) ==
  /\ InLoop(w) /\ picked[w] = None /\ ~Enough(w)
  /\ id \in ahead[w]
  /\ ahead' = [ahead EXCEPT ![w] = @ \ {id}]
  /\ picked' = [picked EXCEPT ![w] = IF usedBy[id] = None THEN id ELSE None]
  /\ UNCHANGED <<dbVars, made, queueVars, pc, job, cfg, todo, seenRow, ghostVars,
                 boundVars>>

(* The id found free is inserted by a call of its own, which needs the row *)
(* of the stand.                                                           *)
InsertId(w) ==
  LET s == job[w].stand IN
  /\ InLoop(w) /\ picked[w] # None
  /\ \/ /\ state[s] # "none"
        /\ usedBy' = [usedBy EXCEPT ![picked[w]] = s]
        /\ picked' = [picked EXCEPT ![w] = None]
        /\ UNCHANGED <<pc, ahead>>
     \/ /\ state[s] = "none"
        /\ Goto(w, "fail")
        /\ EndRequest(w)
        /\ UNCHANGED usedBy
  /\ UNCHANGED <<state, config, row, made, queueVars, job, cfg, todo, seenRow,
                 ghostVars, boundVars>>

(* The ids that the stand holds by then are what the request returns.      *)
TakeIds(w) ==
  LET s == job[w].stand IN
  /\ InLoop(w) /\ picked[w] = None /\ Enough(w)
  /\ \E f \in [Wanted(w) -> Held(s, Pool(w))] :
       /\ \A i, j \in Wanted(w) : f[i] = f[j] => i = j
       /\ cfg' = [cfg EXCEPT ![w] =
                    [i \in Items |-> IF i \in Wanted(w) THEN f[i] ELSE @[i]]]
  /\ seenRow' = [seenRow EXCEPT ![w] = IF ForVMs(w) THEN row[s] ELSE @]
  /\ Goto(w, IF ForVMs(w) THEN "names" ELSE "patch")
  /\ EndRequest(w)
  /\ UNCHANGED <<dbVars, made, queueVars, job, todo, ghostVars, boundVars>>

(* The list ends before there are enough: what the stand holds is released.*)
ReleaseIds(w) ==
  /\ InLoop(w) /\ picked[w] = None /\ ~Enough(w)
  /\ ahead[w] = {}
  /\ usedBy' = [id \in Ids |-> IF id \in Held(job[w].stand, Pool(w)) THEN None
                               ELSE usedBy[id]]
  /\ Goto(w, "fail")
  /\ UNCHANGED <<state, config, row, made, queueVars, job, localVars, ghostVars,
                 boundVars>>

(* patchDeploymentInstance stores the configuration in the row of that     *)
(* key, whichever row it is by now.                                        *)
StoreConfig(w) ==
  LET s == job[w].stand IN
  /\ state[s] # "none"
  /\ config' = [config EXCEPT ![s] = cfg[w]]
  /\ mixed' = (mixed \/ row[s] # seenRow[w])
  /\ UNCHANGED <<state, usedBy, row, queueVars, stale>>

PatchConfig(w) ==
  /\ pc[w] = "patch"
  /\ \/ StoreConfig(w) /\ Goto(w, "send")
     \/ /\ state[job[w].stand] = "none"
        /\ Goto(w, "fail")
        /\ UNCHANGED <<dbVars, queueVars, ghostVars>>
  /\ UNCHANGED <<made, job, localVars, boundVars>>

(* Mutant of SendDeploy: the allocation ends without the deploy message.   *)
SendNothing(w) ==
  /\ pc[w] = "send"
  /\ Leave(w)
  /\ UNCHANGED <<dbVars, made, queueVars, ghostVars, boundVars>>

QueueDeploy(w) ==
  /\ tasks' = tasks \union {[kind |-> "deploy", stand |-> job[w].stand]}
  /\ UNCHANGED <<dbVars, parked, ghostVars>>

SendDeploy(w) ==
  /\ pc[w] = "send"
  /\ QueueDeploy(w)
  /\ Leave(w)
  /\ UNCHANGED <<made, boundVars>>

-----------------------------------------------------------------------------
(* deployInstance and destroyInstance *)

Destroying(w) == job[w].kind = "destroy"

(* The status is set first.  Without a configuration a deployment fails    *)
(* and a destruction deletes the row.                                      *)
Mark(w) ==
  /\ pc[w] = "mark"
  /\ SetStatus(job[w].stand, IF Destroying(w) THEN "Destroying" ELSE "Deploying")
  /\ Goto(w, IF cfg[w] # NoConfig THEN "plan"
             ELSE IF Destroying(w) THEN "delete" ELSE "fail")
  /\ UNCHANGED <<config, usedBy, row, made, queueVars, job, localVars, mixed,
                 destroys, aborts>>

(* planTransactionActions compares the configuration with PVE.             *)
Plan(w) ==
  /\ pc[w] = "plan"
  /\ todo' = [todo EXCEPT ![w] = {i \in Items : Exists(cfg[w][i]) <=> Destroying(w)}]
  /\ Goto(w, "exec")
  /\ UNCHANGED <<dbVars, made, queueVars, job, cfg, requestVars, seenRow, ghostVars,
                 boundVars>>

(* The items whose action may be the next of the list.                     *)
Due(w) ==
  LET first == IF Destroying(w) THEN VMs ELSE Nets IN
  IF todo[w] \intersect first # {} THEN todo[w] \intersect first ELSE todo[w]

(* CloneVM and CreateBridge leave an object that exists alone; DestroyVM   *)
(* and DestroyBridge do not mind one that does not.                        *)
Effect(w, i) ==
  made' = [made EXCEPT ![cfg[w][i]] =
             IF Destroying(w) THEN None
             ELSE IF @ # None THEN @ ELSE job[w].stand]

ExecuteAction(w, i) ==
  /\ pc[w] = "exec"
  /\ i \in Due(w)
  /\ Effect(w, i)
  /\ todo' = [todo EXCEPT ![w] = @ \ {i}]
  /\ UNCHANGED <<dbVars, queueVars, pc, job, cfg, requestVars, seenRow, ghostVars,
                 boundVars>>

(* The action ends with an error, PVE having carried it out or not.        *)
ActionFails(w, i) ==
  /\ pc[w] = "exec"
  /\ i \in Due(w)
  /\ Effect(w, i) \/ UNCHANGED made
  /\ Fault
  /\ Goto(w, "fail")
  /\ UNCHANGED <<dbVars, queueVars, job, localVars, ghostVars, destroys, aborts>>

(* Mutant of Complete: the handler does not wait for every action.         *)
SomeDone(w) == Cardinality(todo[w]) <= 1

(* The transaction is complete.                                            *)
Complete(w) == todo[w] = {}

FinishDeploy(w) ==
  /\ pc[w] = "exec" /\ ~Destroying(w)
  /\ Complete(w)
  /\ SetStatus(job[w].stand, "Deployed")
  /\ Leave(w)
  /\ UNCHANGED <<config, usedBy, row, made, queueVars, mixed, destroys, aborts>>

FinishDestroy(w) ==
  /\ pc[w] = "exec" /\ Destroying(w)
  /\ Complete(w)
  /\ Goto(w, "delete")
  /\ UNCHANGED <<dbVars, made, queueVars, job, localVars, ghostVars, boundVars>>

(* deleteDeploymentInstance: the reserved ids go with the row.             *)
DropRow(w) ==
  LET s == job[w].stand IN
  /\ state' = [state EXCEPT ![s] = "none"]
  /\ config' = [config EXCEPT ![s] = NoConfig]
  /\ usedBy' = [id \in Ids |-> IF usedBy[id] = s THEN None ELSE usedBy[id]]
  /\ stale' = stale \ {s}
  /\ UNCHANGED <<row, queueVars, mixed>>

DeleteInstance(w) ==
  /\ pc[w] = "delete"
  /\ DropRow(w)
  /\ Leave(w)
  /\ UNCHANGED <<made, boundVars>>

(* A call is carried out and the handler gets an error for an answer.      *)
AnswerLost(w) ==
  /\ \/ pc[w] = "patch" /\ StoreConfig(w)
     \/ pc[w] = "send" /\ QueueDeploy(w)
     \/ pc[w] = "delete" /\ DropRow(w)
  /\ Fault
  /\ Goto(w, "fail")
  /\ UNCHANGED <<made, job, localVars, destroys, aborts>>

-----------------------------------------------------------------------------
(* The handlers of power, snapshot and rollback run under locks of their   *)
(* own.  One that could not read the stand, or has read it before it was   *)
(* configured, sets its status at any later time.                          *)
ServiceFails(s) ==
  /\ state[s] \notin {"none", "Failed"}
  /\ aborts < MaxAborts
  /\ aborts' = aborts + 1
  /\ state' = [state EXCEPT ![s] = "Failed"]
  /\ UNCHANGED <<config, usedBy, row, made, queueVars, pc, job, localVars, ghostVars,
                 destroys, faults>>

(* A handler that has set the status is the one to set it again.           *)
Underway(w) == pc[w] \in {"plan", "exec", "delete", "fail"} /\ job[w].kind # "allocate"

CutOff(workers) == {job[w].stand : w \in {u \in workers : Underway(u)}}

(* A handler stops at any point and leaves everything as it is: its task   *)
(* is cancelled, or it throws.                                             *)
Stop(w) ==
  /\ Busy(w)
  /\ aborts < MaxAborts
  /\ aborts' = aborts + 1
  /\ Leave(w)
  /\ stale' = stale \union CutOff({w})
  /\ UNCHANGED <<dbVars, made, queueVars, mixed, destroys, faults>>

(* The row of a waiting task is deleted by a user or dropped as hanged:    *)
(* its handler will not run.                                               *)
Withdraw(t) ==
  /\ t \in tasks
  /\ aborts < MaxAborts
  /\ aborts' = aborts + 1
  /\ tasks' = tasks \ {t}
  /\ UNCHANGED <<dbVars, made, parked, pc, job, localVars, ghostVars, destroys, faults>>

(* jobservice dies: the broker delivers the tasks of all workers again, and *)
(* those that were parked.                                                 *)
Crash ==
  /\ \E w \in Workers : Busy(w)
  /\ aborts < MaxAborts
  /\ aborts' = aborts + 1
  /\ tasks' = tasks \union {job[w] : w \in {u \in Workers : Busy(u)}} \union parked
  /\ parked' = {}
  /\ pc' = [w \in Workers |-> "idle"]
  /\ job' = [w \in Workers |-> None]
  /\ cfg' = [w \in Workers |-> NoConfig]
  /\ todo' = [w \in Workers |-> {}]
  /\ ahead' = [w \in Workers |-> {}] /\ picked' = [w \in Workers |-> None]
  /\ seenRow' = [w \in Workers |-> 0]
  /\ stale' = stale \union CutOff(Workers)
  /\ UNCHANGED <<dbVars, made, mixed, destroys, faults>>

HandlerStep(w) ==
  \/ ReadInstance(w) \/ RequestIds(w) \/ InsertId(w) \/ TakeIds(w) \/ ReleaseIds(w)
  \/ \E id \in Ids : LookAtId(w, id)
  \/ PatchConfig(w) \/ SendDeploy(w) \/ Mark(w) \/ Plan(w) \/ FinishDeploy(w)
  \/ FinishDestroy(w) \/ DeleteInstance(w) \/ Fail(w)
  \/ \E i \in Items : ExecuteAction(w, i)

Next ==
  \/ \E s \in Stands : \/ CreateInstance(s) \/ Redeploy(s) \/ RequestDestroy(s)
                       \/ ServiceFails(s)
  \/ \E w \in Workers, t \in Tasks : Take(w, t)
  \/ \E t \in Tasks : SkipLocked(t) \/ Withdraw(t)
  \/ Crash
  \/ \E w \in Workers : \/ HandlerStep(w) \/ CallFails(w) \/ AnswerLost(w) \/ Stop(w)
                        \/ \E i \in Items : ActionFails(w, i)

Spec == Init /\ [][Next]_vars

(* Threads run, and a message is not passed over for ever.                 *)
FairSpec ==
  /\ Spec
  /\ \A w \in Workers : WF_vars(HandlerStep(w))
  /\ \A t \in Tasks : SF_vars(\E w \in Workers : Take(w, t)) /\ SF_vars(SkipLocked(t))

-----------------------------------------------------------------------------
TypeOK ==
  /\ state \in [Stands -> {"none", "Created", "Deploying", "Deployed", "Destroying",
                           "Failed"}]
  /\ config \in [Stands -> [Items -> Ids \union {None}]]
  /\ usedBy \in [Ids -> Stands \union {None}]
  /\ made \in [Ids -> Stands \union {None}]
  /\ tasks \subseteq Tasks /\ parked \subseteq Tasks
  /\ pc \in [Workers -> {"idle", "read", "fail", "vmids", "vmidLoop", "names", "nameLoop",
                         "patch", "send", "mark", "plan", "exec", "delete"}]
  /\ job \in [Workers -> Tasks \union {None}]
  /\ cfg \in [Workers -> [Items -> Ids \union {None}]]
  /\ todo \in [Workers -> SUBSET Items]
  /\ ahead \in [Workers -> SUBSET Ids] /\ picked \in [Workers -> Ids \union {None}]
  /\ row \in [Stands -> 0..MaxRows]
  /\ seenRow \in [Workers -> 0..MaxRows]
  /\ mixed \in BOOLEAN
  /\ stale \subseteq Stands
  /\ destroys \in 0..MaxDestroys /\ faults \in 0..MaxFaults /\ aborts \in 0..MaxAborts

(* No two stands are configured with one VMID or one network name, so the  *)
(* destruction of one never touches the VMs of another: unless a stand was *)
(* destroyed and created again while its ids were being reserved.          *)
DisjointConfigs ==
  ~mixed => \A s, u \in Stands : s # u =>
              \A i, j \in Items : config[s][i] # None => config[s][i] # config[u][j]

(* However often its allocation failed, was stopped or was delivered       *)
(* again, a configured stand has taken no id out of the pools that its     *)
(* configuration does not use.                                             *)
NoSpareIds ==
  \A id \in Ids : usedBy[id] # None /\ config[usedBy[id]] # NoConfig =>
                    \E i \in Items : config[usedBy[id]][i] = id

(* Whatever fails, is cancelled or dies: an object on PVE belongs to the   *)
(* configuration of a stand that still has its row, so that a destruction  *)
(* can find it.                                                            *)
NoOrphans ==
  ~mixed => \A id \in Ids : Exists(id) =>
              /\ state[made[id]] # "none"
              /\ \E i \in Items : config[made[id]][i] = id

(* A stand shown as Deployed has all its VMs and networks, except when the *)
(* update of its status was lost.                                          *)
DeployedComplete ==
  ~mixed => \A s \in Stands : state[s] = "Deployed" /\ s \notin stale =>
              \A i \in Items : config[s][i] # None /\ Exists(config[s][i])

(* A stand that is Deploying or Destroying with no handler behind it stays *)
(* so until it is destroyed.  Only a handler that was stopped and a status *)
(* update that was lost leave one, and every later update releases it.     *)
StuckExplained ==
  \A s \in Stands : state[s] \in {"Deploying", "Destroying"} =>
    s \in stale \/ \E w \in Workers : Underway(w) /\ job[w].stand = s

(* A stand that was created and has a task that waits or runs is deployed, *)
(* fails or is destroyed, although calls fail, unless the update of its    *)
(* status is lost.  A stand whose allocation could not be sent has no      *)
(* task: it is the one that stays Created for ever.                        *)
Pending(s) ==
  \/ \E t \in tasks : t.stand = s
  \/ \E w \in Workers : Busy(w) /\ job[w].stand = s

StandsSettle ==
  \A s \in Stands :
    state[s] = "Created" /\ Pending(s) ~>
      state[s] \in {"Deployed", "Failed", "none"} \/ s \in stale
=============================================================================
