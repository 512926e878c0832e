------------------------------- MODULE VmPorts -------------------------------
(***************************************************************************)
(* Snapshots of one virtual machine, asked for by those who may see it     *)
(* (deployment-api, takeVMPortSnapshot, deleteVMPortSnapshot and           *)
(* rollbackVMPort) and made by the handlers of jobservice.  A request      *)
(* passes two rate keys of its user in Redis, reads the list of snapshots, *)
(* asks whether the stand is locked and inserts a task with a conflict key *)
(* of its own user.  Each of these is a call of its own; the handler works *)
(* later.  Redis keys may expire between any two calls.                    *)
(***************************************************************************)
EXTENDS Integers, FiniteSets

CONSTANTS
  Requests,    \* bound: the requests of a behaviour
  Users,
  UserOf,      \* who sends each request
  Admins,      \* administrators of the template
  Names,       \* names of snapshots, the numbers of snap1, snap2, ...
  None,
  Quota, UseAny, DeleteOwned, DeleteAny  \* DeploymentSnapshotPolicy

ASSUME PortAssumption ==
  /\ UserOf \in [Requests -> Users]
  /\ Admins \subseteq Users
  /\ None \notin Requests
  /\ Names \subseteq Nat \ {0} /\ IsFiniteSet(Names)
  /\ Quota \in Nat
  /\ {UseAny, DeleteOwned, DeleteAny} \subseteq BOOLEAN

VARIABLES
  stage,    \* how far each request has come
  passed,   \* the request has found its rate key free and not set it yet
  op, name, \* what it asks for
  seen,     \* the snapshots it has read
  keys,     \* rate keys that exist in Redis
  row,      \* the task's row in TaskData
  worker,   \* the request whose handler holds the snapshot lock
  todo,     \* the handler has planned an action and not executed it
  snaps,    \* the snapshots of the machine on Proxmox
  \* History, read by properties only:
  slipped,  \* pairs that were past the request key of one user at a time
  blind     \* requests whose handler found other snapshots than they read

requestVars == <<stage, passed, op, name, seen>>
workVars == <<worker, todo, snaps, blind>>
vars == <<requestVars, keys, row, workVars, slipped>>

Ops == {"take", "delete", "rollback"}
Snapshots == [name : Names, desc : {"usermade", ""}]
NamesIn(S) == {s.name : s \in S}
Usermade(S) == {s \in S : s.desc = "usermade"}
IsAdmin(r) == UserOf[r] \in Admins

RateStages == {"noname", "rate", "request"}
Ended == {"refused", "accepted"}
InProgress(r) == stage[r] \notin Ended \union {"idle"}

Init ==
  /\ stage = [r \in Requests |-> "idle"]
  /\ passed = [r \in Requests |-> FALSE]
  /\ op = [r \in Requests |-> "take"]
  /\ name = [r \in Requests |-> 0]
  /\ seen = [r \in Requests |-> {}]
  /\ keys = {}
  /\ row = [r \in Requests |-> "none"]
  /\ worker = None
  /\ todo = FALSE
  /\ snaps = {}
  /\ slipped = {}
  /\ blind = {}

Goto(r, s) == stage' = [stage EXCEPT ![r] = s]

-----------------------------------------------------------------------------
(* deployment-api *)

(* A snapshot may be asked for without a name.                             *)
Start(r) ==
  /\ stage[r] = "idle"
  /\ \E o \in Ops, n \in Names \union {0} :
       /\ n = 0 => o = "take"
       /\ op' = [op EXCEPT ![r] = o]
       /\ name' = [name EXCEPT ![r] = n]
       /\ Goto(r, IF n = 0 THEN "noname" ELSE "rate")
  /\ UNCHANGED <<passed, seen, keys, row, workVars, slipped>>

RateKey(r) == <<stage[r], UserOf[r]>>

(* Past the request key and without an answer.                             *)
Sending(r) == (passed[r] /\ stage[r] = "request") \/ stage[r] \in {"send", "insert"}

(* Other requests of the same user that are there.                         *)
Rivals(r) == {s \in Requests : s # r /\ UserOf[s] = UserOf[r] /\ Sending(s)}

(* redisRateLockWrapper looks for the key ...                              *)
CheckRate(r) ==
  /\ stage[r] \in RateStages
  /\ ~passed[r]
  /\ IF RateKey(r) \in keys
     THEN Goto(r, "refused") /\ UNCHANGED <<passed, slipped>>
     ELSE /\ passed' = [passed EXCEPT ![r] = TRUE]
          /\ slipped' = IF stage[r] = "request"
                        THEN slipped \union {{r, s} : s \in Rivals(r)}
                        ELSE slipped
          /\ UNCHANGED stage
  /\ UNCHANGED <<op, name, seen, keys, row, workVars>>

(* ... and sets it in a second call.                                       *)
SetRate(r) ==
  /\ passed[r]
  /\ passed' = [passed EXCEPT ![r] = FALSE]
  /\ keys' = keys \union {RateKey(r)}
  /\ \/ stage[r] = "noname"  /\ Goto(r, "choose")
     \/ stage[r] = "rate"    /\ Goto(r, "list")
     \/ stage[r] = "request" /\ Goto(r, "send")
  /\ UNCHANGED <<op, name, seen, row, workVars, slipped>>

(* The first name of snap1, snap2, ... that is not taken.                  *)
ChooseName(r) ==
  /\ stage[r] = "choose"
  /\ LET free == Names \ NamesIn(snaps) IN
     \/ free = {} /\ Goto(r, "refused") /\ UNCHANGED name
     \/ \E n \in free : /\ \A m \in free : n <= m
                       /\ name' = [name EXCEPT ![r] = n]
                       /\ Goto(r, "rate")
  /\ UNCHANGED <<passed, op, seen, keys, row, workVars, slipped>>

(* Mutant of MayTake: off by one.                                          *)
MayTakeOneMore(r, S) ==
  /\ IsAdmin(r) \/ Cardinality(Usermade(S)) <= Quota
  /\ name[r] \notin NamesIn(S)

MayTake(r, S) ==
  /\ IsAdmin(r) \/ Cardinality(Usermade(S)) < Quota
  /\ name[r] \notin NamesIn(S)

(* Mutant of MayDelete: any snapshot, if own ones may be deleted.          *)
MayDeleteAny(r, S) ==
  /\ IsAdmin(r) \/ DeleteAny \/ DeleteOwned
  /\ name[r] \in NamesIn(S)

MayDelete(r, S) ==
  /\ IsAdmin(r) \/ DeleteAny \/ DeleteOwned
  /\ IsAdmin(r) \/ DeleteAny \/ name[r] \in NamesIn(Usermade(S))
  /\ name[r] \in NamesIn(S)

MayRollback(r, S) ==
  /\ IsAdmin(r) \/ UseAny \/ Quota > 0
  /\ name[r] \in NamesIn(IF IsAdmin(r) \/ UseAny THEN S ELSE Usermade(S))

Allowed(r, S) ==
  \/ op[r] = "take"     /\ MayTake(r, S)
  \/ op[r] = "delete"   /\ MayDelete(r, S)
  \/ op[r] = "rollback" /\ MayRollback(r, S)

(* getVMPortSnapshots and the checks of its answer.                        *)
ListSnapshots(r) ==
  /\ stage[r] = "list"
  /\ seen' = [seen EXCEPT ![r] = snaps]
  /\ Goto(r, IF Allowed(r, snaps) THEN "locks" ELSE "refused")
  /\ UNCHANGED <<passed, op, name, keys, row, workVars, slipped>>

(* isDeploymentLocked ... AnyLock: no handler works on the stand.          *)
AskLock(r) ==
  /\ stage[r] = "locks"
  /\ worker = None
  /\ Goto(r, "request")
  /\ UNCHANGED <<passed, op, name, seen, keys, row, workVars, slipped>>

(* A call fails, or another task holds a lock of the stand.                *)
Fail(r) ==
  /\ InProgress(r)
  /\ Goto(r, "refused")
  /\ passed' = [passed EXCEPT ![r] = FALSE]
  /\ UNCHANGED <<op, name, seen, keys, row, workVars, slipped>>

(* Mutant of ConflictKeyTaken: the request carries no conflict key.        *)
NoConflictKey(r) == row[r] # "none"

(* sendMessage of jobservice-api looks for a row of the same user ...      *)
ConflictKeyTaken(r) == \E s \in Requests : row[s] # "none" /\ UserOf[s] = UserOf[r]

CheckConflict(r) ==
  /\ stage[r] = "send"
  /\ Goto(r, IF ConflictKeyTaken(r) THEN "refused" ELSE "insert")
  /\ UNCHANGED <<passed, op, name, seen, keys, row, workVars, slipped>>

(* ... and inserts its own in a second call.                               *)
InsertRow(r) ==
  /\ stage[r] = "insert"
  /\ row' = [row EXCEPT ![r] = "queued"]
  /\ Goto(r, "accepted")
  /\ UNCHANGED <<passed, op, name, seen, keys, workVars, slipped>>

ExpireKey(k) ==
  /\ k \in keys
  /\ keys' = keys \ {k}
  /\ UNCHANGED <<requestVars, row, workVars, slipped>>

-----------------------------------------------------------------------------
(* jobservice *)

(* The handler has the lock and plans: SnapshotExists, SnapshotNotExists   *)
(* or VMRollbacked.                                                        *)
Needed(r) ==
  \/ op[r] = "take" /\ name[r] \notin NamesIn(snaps)
  \/ op[r] = "delete" /\ name[r] \in NamesIn(snaps)
  \/ op[r] = "rollback"

StartTask(r) ==
  /\ row[r] = "queued"
  /\ worker = None
  /\ worker' = r
  /\ row' = [row EXCEPT ![r] = "running"]
  /\ todo' = Needed(r)
  /\ UNCHANGED <<requestVars, keys, snaps, blind, slipped>>

Comment(r) == IF IsAdmin(r) THEN "" ELSE "usermade"

(* MakeSnapshot or DeleteSnapshot, which may fail, or RollbackVM.          *)
Execute(r) ==
  /\ worker = r
  /\ todo
  /\ todo' = FALSE
  /\ \/ op[r] = "take" /\ snaps' = snaps \union {[name |-> name[r], desc |-> Comment(r)]}
     \/ op[r] = "delete" /\ snaps' = {s \in snaps : s.name # name[r]}
     \/ UNCHANGED snaps
  /\ blind' = IF seen[r] = snaps THEN blind ELSE blind \union {r}
  /\ UNCHANGED <<requestVars, keys, row, worker, slipped>>

(* raceTask deletes the row, and then the wrapper the key of the lock.     *)
DeleteRow(r) ==
  /\ worker = r
  /\ ~todo
  /\ row[r] = "running"
  /\ row' = [row EXCEPT ![r] = "none"]
  /\ UNCHANGED <<requestVars, keys, workVars, slipped>>

Unlock(r) ==
  /\ worker = r
  /\ row[r] = "none"
  /\ worker' = None
  /\ todo' = FALSE
  /\ UNCHANGED <<requestVars, keys, row, snaps, blind, slipped>>

(* A row that waits too long, or that its author deletes, is dropped.  A   *)
(* handler that runs is then stopped, sooner or later.                     *)
DropRow(r) ==
  /\ row[r] # "none"
  /\ row' = [row EXCEPT ![r] = "none"]
  /\ UNCHANGED <<requestVars, keys, workVars, slipped>>

Next ==
  \/ \E r \in Requests :
       \/ Start(r) \/ CheckRate(r) \/ SetRate(r) \/ ChooseName(r) \/ ListSnapshots(r)
       \/ AskLock(r) \/ Fail(r) \/ CheckConflict(r) \/ InsertRow(r)
       \/ StartTask(r) \/ Execute(r) \/ DeleteRow(r) \/ Unlock(r) \/ DropRow(r)
  \/ \E k \in RateStages \X Users : ExpireKey(k)

Spec == Init /\ [][Next]_vars

-----------------------------------------------------------------------------
TypeOK ==
  /\ stage \in [Requests -> RateStages \union Ended \union
                  {"idle", "choose", "list", "locks", "send", "insert"}]
  /\ passed \in [Requests -> BOOLEAN]
  /\ op \in [Requests -> Ops]
  /\ name \in [Requests -> Names \union {0}]
  /\ seen \in [Requests -> SUBSET Snapshots]
  /\ keys \subseteq RateStages \X Users
  /\ row \in [Requests -> {"none", "queued", "running"}]
  /\ worker \in Requests \union {None}
  /\ todo \in BOOLEAN
  /\ snaps \subseteq Snapshots
  /\ slipped \subseteq SUBSET Requests
  /\ blind \subseteq Requests

(* The conflict key and the request key together: a user has two           *)
(* unfinished tasks on a machine only if one request was let through while *)
(* the other was between the request key and its answer, that is, if two   *)
(* calls of redisRateLockWrapper met or the second request came after the  *)
(* ten seconds of the key and before the first was answered.               *)
OneTaskPerUser ==
  \A r, s \in Requests :
    r # s /\ UserOf[r] = UserOf[s] /\ row[r] # "none" /\ row[s] # "none"
      => {r, s} \in slipped

(* The list is read long before the snapshot is made, and users do not     *)
(* share a conflict key: the quota may be exceeded, but by no more than    *)
(* the snapshots whose handler found the machine changed since the request *)
(* was checked.                                                            *)
BlindTakes == {r \in blind : op[r] = "take" /\ ~IsAdmin(r)}

QuotaExplained == Cardinality(Usermade(snaps)) <= Quota + Cardinality(BlindTakes)

(* A user without the right to delete any snapshot makes a snapshot of an  *)
(* administrator disappear only if the snapshots have changed since the    *)
(* request was checked (a name was used again).                            *)
OthersKept ==
  [][\A s \in snaps \ snaps' :
       s.desc = "" => \/ IsAdmin(worker) \/ DeleteAny
                      \/ seen[worker] # snaps]_vars
=============================================================================
