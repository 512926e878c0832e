------------------------ MODULE StandLifecycleProofs ------------------------
(***************************************************************************)
(* What holds of the stands for every number of stands, items, ids and     *)
(* workers, and for every bound of requests and failures.                  *)
(***************************************************************************)
EXTENDS StandLifecycle, FiniteSetTheorems, TLAPS

AllocPlaces == {"vmids", "vmidLoop", "names", "nameLoop", "patch", "send"}
WorkPlaces == {"mark", "plan", "exec", "delete"}

(* The VMIDs are taken and the configuration is not stored yet.            *)
NamePlaces == {"names", "nameLoop", "patch"}

(* A busy worker has a task that fits its place, and locks exclude.        *)
JobInv ==
  /\ \A w \in Workers : Busy(w) => job[w] \in Tasks
  /\ \A w \in Workers : pc[w] \in AllocPlaces => job[w].kind = "allocate"
  /\ \A w \in Workers : pc[w] \in WorkPlaces => job[w].kind # "allocate"
  /\ \A w \in Workers : pc[w] = "delete" => Destroying(w)
  /\ \A v, w \in Workers : v # w /\ Busy(v) /\ Busy(w) => ~SameLock(job[v], job[w])

(* While a handler that deploys or destroys goes on, the row of its stand  *)
(* stays, and so does the configuration it works with.  An allocation that *)
(* has not stored its configuration yet is the only one that can.          *)
WorkerConfig(w) ==
  /\ pc[w] \in WorkPlaces => state[job[w].stand] # "none"
  /\ pc[w] \in {"vmids", "vmidLoop"} \union NamePlaces => config[job[w].stand] = NoConfig
  /\ pc[w] \in {"mark", "plan", "exec"} /\ cfg[w] # NoConfig => cfg[w] = config[job[w].stand]
  /\ pc[w] \in {"plan", "exec"} => cfg[w] # NoConfig
  /\ pc[w] \in NamePlaces => \A i \in VMs : cfg[w][i] \in Vmids
  /\ pc[w] = "patch" => \A i \in Nets : cfg[w][i] \in Names

ConfigInv ==
  /\ \A s \in Stands : state[s] = "none" => config[s] = NoConfig
  /\ \A s \in Stands : config[s] = NoConfig \/ \A i \in Items : config[s][i] \in Ids
  /\ \A w \in Workers : WorkerConfig(w)

(* The ids of a stand's configuration are reserved for it, and so are      *)
(* those of an allocation whose row is still the one it has read.          *)
Reserved(w, items) == \A i \in items : usedBy[cfg[w][i]] = job[w].stand

SameRow(w) == state[job[w].stand] # "none" /\ seenRow[w] = row[job[w].stand]

WorkerReserve(w) ==
  /\ pc[w] \in NamePlaces => seenRow[w] <= row[job[w].stand]
  /\ pc[w] \in NamePlaces /\ SameRow(w) => Reserved(w, VMs)
  /\ pc[w] = "patch" /\ SameRow(w) => Reserved(w, Nets)

ConfigsReserved ==
  ~mixed => \A s \in Stands : \A i \in Items : config[s][i] # None => usedBy[config[s][i]] = s

ReserveInv == ConfigsReserved /\ \A w \in Workers : WorkerReserve(w)

(* A transaction has done what it does not list any more, and a row is     *)
(* deleted only when nothing of its stand is left on PVE.                  *)
MadeNothing(s) == \A id \in Ids : made[id] # s

WorkerWork(w) ==
  /\ pc[w] = "mark" /\ Destroying(w) /\ cfg[w] = NoConfig => MadeNothing(job[w].stand)
  /\ pc[w] = "delete" => MadeNothing(job[w].stand)
  /\ pc[w] = "exec" => \A i \in Items \ todo[w] : Exists(cfg[w][i]) <=> ~Destroying(w)

WorkInv == ~mixed => NoOrphans /\ \A w \in Workers : WorkerWork(w)

(* A stand that is being destroyed is not Deployed, unless the update of   *)
(* its status was lost.                                                    *)
WorkerStatus(w) ==
  pc[w] \in {"plan", "exec", "delete"} /\ Destroying(w) /\ state[job[w].stand] = "Deployed"
    => job[w].stand \in stale

StatusInv == DeployedComplete /\ StuckExplained /\ \A w \in Workers : WorkerStatus(w)

(* The id that a request is about to insert is still free, for allocations *)
(* exclude each other, and it is one that the stand lacks.                 *)
WorkerPicked(w) ==
  picked[w] # None => /\ InLoop(w) /\ picked[w] \in Pool(w)
                      /\ usedBy[picked[w]] = None
                      /\ ~Enough(w)

(* The ids it has still to look at are of one kind.                        *)
WorkerAhead(w) == InLoop(w) => ahead[w] \subseteq Pool(w)

PickedInv == \A w \in Workers : WorkerPicked(w) /\ WorkerAhead(w)

(* A stand never holds more ids than it has items of a kind, and after an  *)
(* allocation has taken them its configuration has all it holds.           *)
Bounded(used, s, items, pool) ==
  LET held == {id \in pool : used[id] = s} IN
  IsFiniteSet(held) /\ Cardinality(held) <= Cardinality(items)

Uses(w, items, pool) == \A id \in Held(job[w].stand, pool) : \E i \in items : cfg[w][i] = id

SpareInv ==
  /\ \A s \in Stands : Bounded(usedBy, s, VMs, Vmids) /\ Bounded(usedBy, s, Nets, Names)
  /\ \A w \in Workers : /\ pc[w] \in NamePlaces => Uses(w, VMs, Vmids)
                        /\ pc[w] = "patch" => Uses(w, Nets, Names)
  /\ NoSpareIds

StandInv ==
  /\ TypeOK /\ JobInv /\ ConfigInv /\ ReserveInv /\ WorkInv /\ StatusInv
  /\ PickedInv /\ SpareInv

-----------------------------------------------------------------------------
(* What the properties speak of: all but the messages and the bounds.      *)
core == <<dbVars, made, pc, job, localVars, ghostVars>>

(* The calls whose answer may be lost.                                     *)
PatchLost(w)  == pc[w] = "patch" /\ AnswerLost(w)
SendLost(w)   == pc[w] = "send" /\ AnswerLost(w)
DeleteLost(w) == pc[w] = "delete" /\ AnswerLost(w)

LEMMA Steps ==
  ASSUME Next
  PROVE  \/ UNCHANGED core
         \/ \E s \in Stands : CreateInstance(s) \/ ServiceFails(s)
         \/ \E w \in Workers, t \in Tasks : Take(w, t)
         \/ Crash
         \/ \E w \in Workers :
              \/ ReadInstance(w) \/ RequestIds(w) \/ InsertId(w) \/ TakeIds(w) \/ ReleaseIds(w)
              \/ \E id \in Ids : LookAtId(w, id)
              \/ PatchConfig(w) \/ PatchLost(w) \/ SendDeploy(w) \/ SendLost(w)
              \/ Mark(w) \/ Plan(w) \/ FinishDeploy(w) \/ FinishDestroy(w)
              \/ DeleteInstance(w) \/ DeleteLost(w) \/ Fail(w) \/ CallFails(w) \/ Stop(w)
              \/ \E i \in Items : ExecuteAction(w, i) \/ ActionFails(w, i)
<1>1. \A w \in Workers : AnswerLost(w) => PatchLost(w) \/ SendLost(w) \/ DeleteLost(w)
  BY DEF AnswerLost, PatchLost, SendLost, DeleteLost
<1> QED
  BY <1>1 DEF Next, HandlerStep, core, Redeploy, RequestDestroy, SkipLocked, Withdraw

(* What every step of a request for ids leaves alone but TakeIds, and what *)
(* becomes of its place.                                                   *)
SamePlace(w) ==
  \/ pc'[w] = pc[w]
  \/ pc[w] \in {"vmids", "vmidLoop"} /\ pc'[w] \in {"vmids", "vmidLoop"}
  \/ pc[w] \in {"names", "nameLoop"} /\ pc'[w] \in {"names", "nameLoop"}

Requests(w) ==
  RequestIds(w) \/ InsertId(w) \/ ReleaseIds(w) \/ \E id \in Ids : LookAtId(w, id)

LEMMA RequestStep ==
  ASSUME TypeOK, NEW w \in Workers, Requests(w)
  PROVE  /\ pc[w] \in {"vmids", "vmidLoop", "names", "nameLoop"}
         /\ UNCHANGED <<state, config, row, made, queueVars, job, cfg, todo, seenRow, ghostVars,
                       boundVars>>
         /\ \E place : pc' = [pc EXCEPT ![w] = place]
         /\ pc'[w] = "fail" \/ SamePlace(w)
<1>1. CASE RequestIds(w)
  BY <1>1 DEF RequestIds, ForVMs, Goto, SamePlace, TypeOK, dbVars
<1>2. CASE InsertId(w)
  BY <1>2 DEF InsertId, InLoop, Goto, SamePlace, TypeOK
<1>3. CASE ReleaseIds(w)
  BY <1>3 DEF ReleaseIds, InLoop, Goto, SamePlace, TypeOK, localVars
<1>4. ASSUME NEW id \in Ids, LookAtId(w, id)
      PROVE  /\ pc[w] \in {"vmidLoop", "nameLoop"}
             /\ UNCHANGED <<state, config, row, made, queueVars, job, cfg, todo, seenRow, ghostVars,
                           boundVars, pc>>
  BY <1>4 DEF LookAtId, InLoop, dbVars
<1>5. \A id \in Ids : LookAtId(w, id) => pc' = [pc EXCEPT ![w] = pc[w]]
  BY <1>4 DEF TypeOK
<1> QED
  BY <1>1, <1>2, <1>3, <1>4, <1>5 DEF Requests, SamePlace

LEMMA CallFailsPlace ==
  ASSUME TypeOK, NEW w \in Workers, CallFails(w)
  PROVE  /\ \E place : pc' = [pc EXCEPT ![w] = place]
         /\ pc'[w] = "fail" \/ SamePlace(w)
         /\ pc'[w] \in {"fail", "vmids", "names"}
         /\ pc[w] \notin {"idle", "mark", "exec", "fail"}
         /\ UNCHANGED <<dbVars, made, job, cfg, todo, seenRow, ghostVars>>
BY DEF CallFails, Goto, SamePlace, TypeOK

LEMMA NoConfigType == NoConfig \in [Items -> Ids \union {None}]
BY DEF NoConfig

LEMMA InitStand == Init => StandInv
<1> SUFFICES ASSUME Init PROVE StandInv
  OBVIOUS
<1> USE StandAssumption DEF Init
<1>1. TypeOK
  <2>1. /\ config \in [Stands -> [Items -> Ids \union {None}]]
        /\ cfg \in [Workers -> [Items -> Ids \union {None}]]
    BY NoConfigType
  <2>2. row \in [Stands -> 0..MaxRows] /\ seenRow \in [Workers -> 0..MaxRows]
    OBVIOUS
  <2>3. usedBy \in [Ids -> Stands \union {None}] /\ made \in [Ids -> Stands \union {None}]
    OBVIOUS
  <2>4. job \in [Workers -> Tasks \union {None}] /\ todo \in [Workers -> SUBSET Items]
    OBVIOUS
  <2>5. /\ state \in [Stands -> {"none", "Created", "Deploying", "Deployed", "Destroying",
                                 "Failed"}]
        /\ pc \in [Workers -> {"idle", "read", "fail", "vmids", "vmidLoop", "names", "nameLoop",
                               "patch", "send", "mark", "plan", "exec", "delete"}]
        /\ ahead \in [Workers -> SUBSET Ids] /\ picked \in [Workers -> Ids \union {None}]
    OBVIOUS
  <2>6. /\ tasks \subseteq Tasks /\ parked \subseteq Tasks /\ stale \subseteq Stands
        /\ destroys \in 0..MaxDestroys /\ faults \in 0..MaxFaults /\ aborts \in 0..MaxAborts
    OBVIOUS
  <2> QED
    BY <2>1, <2>2, <2>3, <2>4, <2>5, <2>6 DEF TypeOK
<1>2. JobInv
  BY DEF JobInv, Busy, AllocPlaces, WorkPlaces
<1>3. ConfigInv
  BY DEF ConfigInv, WorkerConfig, WorkPlaces, NamePlaces
<1>4. ReserveInv
  BY DEF ReserveInv, ConfigsReserved, WorkerReserve, NoConfig, NamePlaces
<1>5. WorkInv
  BY DEF WorkInv, WorkerWork, NoOrphans, Exists
<1>6. StatusInv
  BY DEF StatusInv, WorkerStatus, DeployedComplete, StuckExplained
<1>7. SpareInv
  <2>1. \A s \in Stands : Held(s, Vmids) = {} /\ Held(s, Names) = {}
    BY DEF Held, Ids
  <2>2. Cardinality(VMs) \in Nat /\ Cardinality(Nets) \in Nat
    BY FS_Subset, FS_CardinalityType DEF Items
  <2>3. IsFiniteSet({}) /\ Cardinality({}) = 0
    BY FS_EmptySet
  <2>4. ASSUME NEW s \in Stands
        PROVE  Bounded(usedBy, s, VMs, Vmids) /\ Bounded(usedBy, s, Nets, Names)
    <3>1. /\ IsFiniteSet(Held(s, Vmids)) /\ Cardinality(Held(s, Vmids)) = 0
          /\ IsFiniteSet(Held(s, Names)) /\ Cardinality(Held(s, Names)) = 0
      BY <2>1, <2>3, Zenon
    <3> QED
      BY <2>2, <3>1 DEF Bounded, Held
  <2> QED
    BY <2>4 DEF SpareInv, NoSpareIds, NamePlaces
<1>8. PickedInv
  BY DEF PickedInv, WorkerPicked, WorkerAhead, InLoop
<1> QED BY <1>1, <1>2, <1>3, <1>4, <1>5, <1>6, <1>7, <1>8 DEF StandInv

(* A worker that leaves.                                                   *)
LEMMA LeaveTypes ==
  ASSUME TypeOK, NEW w \in Workers, Leave(w)
  PROVE  /\ pc' = [pc EXCEPT ![w] = "idle"] /\ job' = [job EXCEPT ![w] = None]
         /\ job' \in [Workers -> Tasks \union {None}]
         /\ cfg' \in [Workers -> [Items -> Ids \union {None}]]
         /\ todo' \in [Workers -> SUBSET Items]
         /\ ahead' \in [Workers -> SUBSET Ids] /\ picked' \in [Workers -> Ids \union {None}]
         /\ seenRow' \in [Workers -> 0..MaxRows]
<1>1. cfg' \in [Workers -> [Items -> Ids \union {None}]]
  BY NoConfigType DEF TypeOK, Leave
<1>2. seenRow' \in [Workers -> 0..MaxRows]
  BY StandAssumption DEF TypeOK, Leave
<1> QED
  BY <1>1, <1>2 DEF TypeOK, Leave, EndRequest, Goto

(* A status that is set, or whose update is lost.                          *)
LEMMA StatusTypes ==
  ASSUME TypeOK, NEW s \in Stands, NEW status, SetStatus(s, status),
         status \in {"Deploying", "Deployed", "Destroying", "Failed"}
  PROVE  /\ state' \in [Stands -> {"none", "Created", "Deploying", "Deployed", "Destroying",
                                   "Failed"}]
         /\ stale' \subseteq Stands
         /\ faults' \in 0..MaxFaults
<1>1. CASE /\ state' = [state EXCEPT ![s] = IF @ = "none" THEN @ ELSE status]
           /\ stale' = stale \ {s}
           /\ UNCHANGED faults
  BY <1>1 DEF TypeOK
<1>2. CASE Fault /\ stale' = stale \union {s} /\ UNCHANGED state
  BY <1>2, StandAssumption DEF TypeOK, Fault
<1> QED
  BY <1>1, <1>2 DEF SetStatus

(* The items that a request is for, and the ids it takes them from.        *)
LEMMA RequestSets ==
  ASSUME NEW w \in Workers
  PROVE  Wanted(w) \in SUBSET Items /\ Pool(w) \in SUBSET Ids
BY DEF Wanted, Pool, Items, Ids

(* What a request returns: ids that the stand holds.                       *)
LEMMA TakeResult ==
  ASSUME TypeOK, NEW w \in Workers, TakeIds(w)
  PROVE  /\ \E f \in [Wanted(w) -> Held(job[w].stand, Pool(w))] :
              /\ \A i, j \in Wanted(w) : f[i] = f[j] => i = j
              /\ \A i \in Wanted(w) : cfg'[w][i] = f[i]
         /\ \A i \in Wanted(w) : cfg'[w][i] \in Pool(w) /\ usedBy[cfg'[w][i]] = job[w].stand
         /\ \A i \in Items \ Wanted(w) : cfg'[w][i] = cfg[w][i]
         /\ \E c \in [Items -> Ids \union {None}] : cfg' = [cfg EXCEPT ![w] = c]
         /\ pc' = [pc EXCEPT ![w] = IF ForVMs(w) THEN "names" ELSE "patch"]
         /\ UNCHANGED <<dbVars, made, queueVars, job, todo, ghostVars, boundVars>>
         /\ InLoop(w) /\ Enough(w)
<1> DEFINE W == Wanted(w)
           H == Held(job[w].stand, Pool(w))
<1>1. PICK f \in [W -> H] :
         /\ \A i, j \in W : f[i] = f[j] => i = j
         /\ cfg' = [cfg EXCEPT ![w] = [i \in Items |-> IF i \in W THEN f[i] ELSE @[i]]]
  BY DEF TakeIds
<1>2. W \in SUBSET Items /\ \A id \in H : id \in Pool(w) /\ id \in Ids /\ usedBy[id] = job[w].stand
  BY RequestSets DEF Held
<1> HIDE DEF W, H
<1>3. [i \in Items |-> IF i \in W THEN f[i] ELSE cfg[w][i]] \in [Items -> Ids \union {None}]
  BY <1>2 DEF TypeOK
<1>4. /\ \E c \in [Items -> Ids \union {None}] : cfg' = [cfg EXCEPT ![w] = c]
      /\ \A i \in W : cfg'[w][i] = f[i] /\ f[i] \in H
      /\ \A i \in Items \ W : cfg'[w][i] = cfg[w][i]
  BY <1>1, <1>2, <1>3 DEF TypeOK
<1>5. /\ pc' = [pc EXCEPT ![w] = IF ForVMs(w) THEN "names" ELSE "patch"]
      /\ UNCHANGED <<dbVars, made, queueVars, job, todo, ghostVars, boundVars>>
      /\ InLoop(w) /\ Enough(w)
  BY DEF TakeIds, Goto
<1>6. \A i \in W : cfg'[w][i] \in Pool(w) /\ usedBy[cfg'[w][i]] = job[w].stand
  BY <1>2, <1>4
<1> QED
  BY <1>1, <1>4, <1>5, <1>6 DEF W, H

LEMMA TypeStep ==
  ASSUME TypeOK, JobInv, [Next]_vars
  PROVE  TypeOK'
<1> USE StandAssumption
<1>1. CASE UNCHANGED vars
  BY <1>1 DEF TypeOK, vars, dbVars, queueVars, localVars, requestVars, ghostVars, boundVars
<1>2. ASSUME NEW s \in Stands, CreateInstance(s) \/ Redeploy(s) \/ RequestDestroy(s)
                               \/ ServiceFails(s)
      PROVE  TypeOK'
  <2>1. CASE CreateInstance(s)
    <3>1. config' \in [Stands -> [Items -> Ids \union {None}]]
      BY <2>1, NoConfigType DEF TypeOK, CreateInstance
    <3>2. row' \in [Stands -> 0..MaxRows]
      BY <2>1 DEF TypeOK, CreateInstance
    <3>3. tasks' \subseteq Tasks /\ faults' \in 0..MaxFaults
      BY <2>1 DEF TypeOK, CreateInstance, Tasks, Kinds
    <3> QED
      BY <2>1, <3>1, <3>2, <3>3 DEF TypeOK, CreateInstance, localVars, requestVars, ghostVars
  <2>2. CASE Redeploy(s) \/ RequestDestroy(s)
    BY <2>2 DEF TypeOK, Redeploy, RequestDestroy, Tasks, Kinds, dbVars, localVars, requestVars, ghostVars,
       boundVars
  <2>3. CASE ServiceFails(s)
    BY <2>3 DEF TypeOK, ServiceFails, queueVars, localVars, requestVars, ghostVars
  <2> QED
    BY <1>2, <2>1, <2>2, <2>3
<1>3. ASSUME NEW w \in Workers, NEW t \in Tasks, Take(w, t)
      PROVE  TypeOK'
  BY <1>3 DEF TypeOK, Take, dbVars, localVars, requestVars, ghostVars, boundVars
<1>4. ASSUME NEW t \in Tasks, SkipLocked(t) \/ Withdraw(t)
      PROVE  TypeOK'
  BY <1>4 DEF TypeOK, SkipLocked, Withdraw, dbVars, localVars, requestVars, ghostVars, boundVars
<1>5. CASE Crash
  <2>1. tasks' \subseteq Tasks
    BY <1>5 DEF Crash, TypeOK, JobInv
  <2>2. CutOff(Workers) \subseteq Stands
    BY DEF CutOff, Underway, JobInv, Busy, Tasks
  <2> QED
    BY <1>5, <2>1, <2>2 DEF TypeOK, Crash, NoConfig, dbVars
<1>6. ASSUME NEW w \in Workers, HandlerStep(w) \/ CallFails(w) \/ AnswerLost(w) \/ Stop(w)
                                \/ \E i \in Items : ActionFails(w, i)
      PROVE  TypeOK'
  <2> DEFINE s == job[w].stand
  <2>1. Busy(w) /\ job[w] \in Tasks /\ s \in Stands
    BY <1>6 DEF HandlerStep, ReadInstance, RequestIds, LookAtId, InsertId, TakeIds, ReleaseIds,
       InLoop, PatchConfig, SendDeploy, Mark, Plan, FinishDeploy, FinishDestroy, DeleteInstance,
       Fail, ExecuteAction, CallFails, AnswerLost, Stop, ActionFails, Busy, JobInv, Tasks
  <2>2. CASE ReadInstance(w)
    <3>1. CASE Leave(w)
      BY <2>1, <2>2, <3>1, LeaveTypes DEF TypeOK, ReadInstance, dbVars, queueVars, ghostVars, boundVars
    <3>2. CASE ~Leave(w)
      <4>1. \/ pc' = [pc EXCEPT ![w] = "fail"] /\ UNCHANGED <<job, localVars>>
            \/ /\ cfg' = [cfg EXCEPT ![w] = config[s]]
               /\ pc' = [pc EXCEPT ![w] = "vmids"] \/ pc' = [pc EXCEPT ![w] = "mark"]
               /\ UNCHANGED <<job, todo, requestVars, seenRow>>
        BY <2>2, <3>2 DEF ReadInstance, Goto
      <4>2. UNCHANGED <<dbVars, made, queueVars, ghostVars, boundVars>>
        BY <2>2 DEF ReadInstance
      <4> QED
        <5>1. pc' \in [Workers -> {"idle", "read", "fail", "vmids", "vmidLoop", "names", "nameLoop",
                                   "patch", "send", "mark", "plan", "exec", "delete"}]
          BY <4>1 DEF TypeOK
        <5>2. /\ cfg' \in [Workers -> [Items -> Ids \union {None}]]
              /\ UNCHANGED <<job, todo, ahead, picked, seenRow>>
          BY <2>1, <4>1 DEF TypeOK, localVars, requestVars
        <5> QED
          BY <4>2, <5>1, <5>2 DEF TypeOK, dbVars, queueVars, ghostVars, boundVars
    <3> QED
      BY <3>1, <3>2
  <2>3. CASE RequestIds(w) \/ InsertId(w) \/ ReleaseIds(w) \/ \E id \in Ids : LookAtId(w, id)
    <3>1. /\ UNCHANGED <<state, config, row, made, queueVars, job, cfg, todo, seenRow, ghostVars,
                        boundVars>>
          /\ pc' \in [Workers -> {"idle", "read", "fail", "vmids", "vmidLoop", "names", "nameLoop",
                                  "patch", "send", "mark", "plan", "exec", "delete"}]
      BY <2>3, RequestStep DEF Requests, SamePlace, TypeOK
    <3>2. Pool(w) \in SUBSET Ids
      BY RequestSets
    <3>3. /\ ahead' \in [Workers -> SUBSET Ids] /\ picked' \in [Workers -> Ids \union {None}]
          /\ usedBy' \in [Ids -> Stands \union {None}]
      <4>1. CASE RequestIds(w)
        <5> DEFINE free == {id \in Pool(w) : ~Exists(id)}
        <5>1. free \in SUBSET Ids
          BY <3>2
        <5>2. /\ UNCHANGED <<usedBy, picked>>
              /\ ahead' = ahead \/ ahead' = [ahead EXCEPT ![w] = free]
          BY <4>1 DEF RequestIds, dbVars
        <5> HIDE DEF free
        <5> QED
          BY <5>1, <5>2 DEF TypeOK
      <4>2. CASE InsertId(w)
        BY <2>1, <4>2 DEF InsertId, EndRequest, TypeOK
      <4>3. CASE ReleaseIds(w)
        BY <4>3 DEF ReleaseIds, TypeOK, localVars, requestVars
      <4>4. CASE \E id \in Ids : LookAtId(w, id)
        <5>1. PICK id \in Ids : LookAtId(w, id)
          BY <4>4
        <5>2. ahead' \in [Workers -> SUBSET Ids] /\ picked' \in [Workers -> Ids \union {None}]
          BY <5>1 DEF LookAtId, TypeOK
        <5> QED
          BY <5>1, <5>2 DEF LookAtId, TypeOK, dbVars
      <4> QED
        BY <2>3, <4>1, <4>2, <4>3, <4>4
    <3> QED
      BY <3>1, <3>3 DEF TypeOK, queueVars, ghostVars, boundVars
  <2>4. CASE TakeIds(w)
    <3>4. /\ \E c \in [Items -> Ids \union {None}] : cfg' = [cfg EXCEPT ![w] = c]
          /\ pc' = [pc EXCEPT ![w] = IF ForVMs(w) THEN "names" ELSE "patch"]
          /\ UNCHANGED <<dbVars, made, queueVars, job, todo, ghostVars, boundVars>>
      BY <2>4, TakeResult
    <3>1. /\ cfg' \in [Workers -> [Items -> Ids \union {None}]]
          /\ pc' = [pc EXCEPT ![w] = "names"] \/ pc' = [pc EXCEPT ![w] = "patch"]
          /\ UNCHANGED <<dbVars, made, queueVars, job, todo, ghostVars, boundVars>>
      <4>1. cfg' \in [Workers -> [Items -> Ids \union {None}]]
        BY <3>4 DEF TypeOK
      <4> QED
        BY <3>4, <4>1
    <3>2. /\ ahead' \in [Workers -> SUBSET Ids] /\ picked' \in [Workers -> Ids \union {None}]
          /\ seenRow' \in [Workers -> 0..MaxRows]
      BY <2>1, <2>4 DEF TakeIds, EndRequest, TypeOK
    <3> QED
      BY <3>1, <3>2 DEF TypeOK, dbVars, queueVars, ghostVars, boundVars
  <2>5. ASSUME StoreConfig(w), UNCHANGED <<made, job, localVars, destroys, aborts>>,
               faults' \in 0..MaxFaults,
               pc' = [pc EXCEPT ![w] = "send"] \/ pc' = [pc EXCEPT ![w] = "fail"]
        PROVE  TypeOK'
    <3>1. config' \in [Stands -> [Items -> Ids \union {None}]] /\ mixed' \in BOOLEAN
      BY <2>1, <2>5 DEF TypeOK, StoreConfig
    <3>2. UNCHANGED <<state, usedBy, row, queueVars, stale>>
      BY <2>5 DEF StoreConfig
    <3> QED
      BY <2>1, <2>5, <3>1, <3>2 DEF TypeOK, queueVars, localVars, requestVars
  <2>6. ASSUME QueueDeploy(w)
        PROVE  tasks' \subseteq Tasks /\ UNCHANGED <<dbVars, parked, ghostVars>>
    BY <2>1, <2>6 DEF TypeOK, QueueDeploy, Tasks, Kinds
  <2>15. ASSUME DropRow(w)
         PROVE  /\ config' \in [Stands -> [Items -> Ids \union {None}]]
                /\ usedBy' \in [Ids -> Stands \union {None}]
                /\ state' = [state EXCEPT ![s] = "none"] /\ stale' \subseteq Stands
                /\ UNCHANGED <<row, queueVars, mixed>>
    BY <2>1, <2>15, NoConfigType DEF TypeOK, DropRow
  <2>16. CASE PatchConfig(w)
    <3>1. CASE StoreConfig(w)
      BY <2>5, <2>16, <3>1 DEF TypeOK, PatchConfig, Goto, boundVars, StoreConfig
    <3>2. CASE pc' = [pc EXCEPT ![w] = "fail"] /\ UNCHANGED <<dbVars, queueVars, ghostVars>>
      BY <2>16, <3>2 DEF TypeOK, PatchConfig, dbVars, queueVars, localVars, requestVars, ghostVars,
         boundVars
    <3> QED
      BY <2>16, <3>1, <3>2 DEF PatchConfig, Goto
  <2>17. CASE SendDeploy(w)
    BY <2>1, <2>6, <2>17, LeaveTypes DEF TypeOK, SendDeploy, dbVars, ghostVars, boundVars
  <2>18. CASE AnswerLost(w)
    <3>1. /\ pc' = [pc EXCEPT ![w] = "fail"] /\ faults' \in 0..MaxFaults
          /\ UNCHANGED <<made, job, localVars, destroys, aborts>>
      BY <2>18 DEF AnswerLost, Fault, Goto, TypeOK
    <3>2. CASE StoreConfig(w)
      BY <2>5, <3>1, <3>2
    <3>3. CASE QueueDeploy(w)
      BY <2>6, <3>1, <3>3 DEF TypeOK, dbVars, localVars, requestVars, ghostVars
    <3>4. CASE DropRow(w)
      BY <2>15, <3>1, <3>4 DEF TypeOK, queueVars, localVars, requestVars
    <3> QED
      BY <2>18, <3>2, <3>3, <3>4 DEF AnswerLost
  <2>7. CASE Mark(w)
    BY <2>1, <2>7, StatusTypes DEF TypeOK, Mark, Goto, queueVars, localVars, requestVars
  <2>8. CASE Plan(w)
    BY <2>1, <2>8 DEF TypeOK, Plan, Goto, dbVars, queueVars, requestVars, ghostVars, boundVars
  <2>9. CASE FinishDeploy(w) \/ Fail(w)
    BY <2>1, <2>9, LeaveTypes, StatusTypes DEF TypeOK, FinishDeploy, Fail, queueVars
  <2>10. CASE FinishDestroy(w)
    BY <2>1, <2>10 DEF TypeOK, FinishDestroy, Goto, dbVars, queueVars, localVars, requestVars, ghostVars, boundVars
  <2>11. CASE DeleteInstance(w)
    <3>1. /\ config' \in [Stands -> [Items -> Ids \union {None}]]
          /\ usedBy' \in [Ids -> Stands \union {None}]
          /\ state' = [state EXCEPT ![s] = "none"] /\ stale' \subseteq Stands
          /\ UNCHANGED <<row, queueVars, mixed>>
      BY <2>11, <2>15 DEF DeleteInstance
    <3>2. Leave(w) /\ UNCHANGED <<made, boundVars>>
      BY <2>11 DEF DeleteInstance
    <3> QED
      BY <2>1, <3>1, <3>2, LeaveTypes DEF TypeOK, queueVars, boundVars
  <2>12. CASE CallFails(w)
    <3>1. /\ faults' \in 0..MaxFaults /\ UNCHANGED <<queueVars, destroys, aborts>>
          /\ ahead' \in [Workers -> SUBSET Ids] /\ picked' \in [Workers -> Ids \union {None}]
      BY <2>1, <2>12 DEF TypeOK, CallFails, EndRequest, Fault
    <3>2. pc' \in [Workers -> {"idle", "read", "fail", "vmids", "vmidLoop", "names", "nameLoop",
                               "patch", "send", "mark", "plan", "exec", "delete"}]
      BY <2>12, CallFailsPlace DEF TypeOK
    <3>3. UNCHANGED <<dbVars, made, job, cfg, todo, seenRow, ghostVars>>
      BY <2>12, CallFailsPlace
    <3> QED
      BY <3>1, <3>2, <3>3 DEF TypeOK, dbVars, queueVars, ghostVars
  <2>13. CASE Stop(w)
    <3>1. CutOff({w}) \subseteq Stands
      BY <2>1 DEF CutOff
    <3>2. aborts' \in 0..MaxAborts
      BY <2>13 DEF TypeOK, Stop
    <3>3. stale' \subseteq Stands /\ UNCHANGED <<dbVars, made, queueVars, mixed, destroys, faults>>
      BY <2>13, <3>1 DEF TypeOK, Stop
    <3>4. Leave(w)
      BY <2>13 DEF Stop
    <3> QED
      BY <3>2, <3>3, <3>4, LeaveTypes DEF TypeOK, dbVars, queueVars
  <2>14. ASSUME NEW i \in Items, ExecuteAction(w, i) \/ ActionFails(w, i)
         PROVE  TypeOK'
    <3>1. made' \in [Ids -> Stands \union {None}]
      BY <2>1, <2>14 DEF TypeOK, ExecuteAction, ActionFails, Effect
    <3>2. CASE ExecuteAction(w, i)
      <4>1. todo' \in [Workers -> SUBSET Items]
        BY <3>2 DEF TypeOK, ExecuteAction
      <4> QED
        BY <3>1, <3>2, <4>1 DEF TypeOK, ExecuteAction, dbVars, queueVars, requestVars, ghostVars,
           boundVars
    <3>3. CASE ActionFails(w, i)
      BY <3>1, <3>3 DEF TypeOK, ActionFails, Goto, Fault, dbVars, queueVars, localVars, requestVars, ghostVars
    <3> QED
      BY <2>14, <3>2, <3>3
  <2> QED
    BY <1>6, <2>2, <2>3, <2>4, <2>7, <2>8, <2>9, <2>10, <2>11, <2>12, <2>13, <2>14,
       <2>16, <2>17, <2>18 DEF HandlerStep
<1> QED
  BY <1>1, <1>2, <1>3, <1>4, <1>5, <1>6 DEF Next

-----------------------------------------------------------------------------
(* Places and jobs of the workers. *)

Fits(w, place) ==
  /\ place \in AllocPlaces => job[w].kind = "allocate"
  /\ place \in WorkPlaces => job[w].kind # "allocate"
  /\ place = "delete" => Destroying(w)

LEMMA MoveJob ==
  ASSUME TypeOK, JobInv, NEW w \in Workers, Busy(w), NEW place,
         Fits(w, place), job' = job, pc' = [pc EXCEPT ![w] = place]
  PROVE  JobInv'
BY DEF TypeOK, JobInv, Fits, Busy, Destroying, SameLock

LEMMA LeaveJob ==
  ASSUME TypeOK, JobInv, NEW w \in Workers, Leave(w)
  PROVE  JobInv'
<1>1. /\ pc' = [pc EXCEPT ![w] = "idle"] /\ job' = [job EXCEPT ![w] = None]
      /\ "idle" \notin AllocPlaces \union WorkPlaces
  BY DEF Leave, Goto, AllocPlaces, WorkPlaces
<1> QED
  BY <1>1 DEF TypeOK, JobInv, Busy, Destroying, SameLock

LEMMA JobStep ==
  ASSUME TypeOK, JobInv, [Next]_vars
  PROVE  JobInv'
<1>1. CASE UNCHANGED <<pc, job>>
  BY <1>1 DEF JobInv, Busy, Destroying, SameLock
<1>2. ASSUME NEW w \in Workers, NEW t \in Tasks, Take(w, t)
      PROVE  JobInv'
  <2>1. /\ pc' = [pc EXCEPT ![w] = "read"] /\ job' = [job EXCEPT ![w] = t]
        /\ "read" \notin AllocPlaces \union WorkPlaces
        /\ \A v \in Workers : Busy(v) => ~SameLock(job[v], t)
        /\ \A v \in Workers : Busy(v) => ~SameLock(t, job[v])
    BY <1>2 DEF Take, Locked, AllocPlaces, WorkPlaces, SameLock
  <2> QED
    BY <2>1 DEF TypeOK, JobInv, Busy, Destroying, SameLock
<1>3. CASE Crash
  BY <1>3 DEF Crash, JobInv, Busy, AllocPlaces, WorkPlaces
<1>4. ASSUME NEW w \in Workers, ReadInstance(w)
      PROVE  JobInv'
  BY <1>4, MoveJob, LeaveJob DEF ReadInstance, Goto, Busy, Fits, AllocPlaces, WorkPlaces
<1>5. ASSUME NEW w \in Workers, job' = job, NEW place, pc' = [pc EXCEPT ![w] = place],
             pc[w] \in AllocPlaces, place \in AllocPlaces \union {"fail"}
      PROVE  JobInv'
  BY <1>5, MoveJob DEF Busy, Fits, AllocPlaces, WorkPlaces, JobInv
<1>6. ASSUME NEW w \in Workers,
             \/ Requests(w) \/ TakeIds(w) \/ PatchConfig(w) \/ PatchLost(w) \/ SendLost(w)
      PROVE  JobInv'
  <2>1. CASE Requests(w)
    <3>1. PICK place : pc' = [pc EXCEPT ![w] = place]
      BY <2>1, RequestStep
    <3> QED
      BY <1>5, <2>1, <3>1, RequestStep DEF SamePlace, AllocPlaces, TypeOK
  <2>2. CASE TakeIds(w)
    <3>1. job' = job /\ pc' = [pc EXCEPT ![w] = IF ForVMs(w) THEN "names" ELSE "patch"] /\ InLoop(w)
      BY <2>2, TakeResult
    <3> QED
      BY <1>5, <3>1 DEF InLoop, AllocPlaces
  <2>3. CASE PatchConfig(w)
    BY <1>5, <2>3 DEF PatchConfig, Goto, AllocPlaces
  <2>4. CASE PatchLost(w) \/ SendLost(w)
    BY <1>5, <2>4 DEF PatchLost, SendLost, AnswerLost, Goto, AllocPlaces
  <2> QED
    BY <1>6, <2>1, <2>2, <2>3, <2>4
<1>7. ASSUME NEW w \in Workers,
             \/ Mark(w) \/ Plan(w) \/ FinishDestroy(w) \/ DeleteLost(w)
             \/ \E i \in Items : ActionFails(w, i)
      PROVE  JobInv'
  BY <1>7, MoveJob DEF Mark, Plan, FinishDestroy, DeleteLost, AnswerLost, ActionFails, Goto, Busy,
     Fits, AllocPlaces, WorkPlaces, JobInv, Destroying
<1>8. ASSUME NEW w \in Workers, CallFails(w)
      PROVE  JobInv'
  <2>1. PICK place : pc' = [pc EXCEPT ![w] = place]
    BY <1>8, CallFailsPlace
  <2>2. Fits(w, place) /\ Busy(w) /\ job' = job
    BY <1>8, <2>1, CallFailsPlace DEF SamePlace, Fits, Busy, AllocPlaces, WorkPlaces, JobInv, TypeOK
  <2> QED
    BY <2>1, <2>2, MoveJob
<1>9. ASSUME NEW w \in Workers, SendDeploy(w) \/ FinishDeploy(w) \/ DeleteInstance(w) \/ Fail(w)
                                \/ Stop(w)
      PROVE  JobInv'
  BY <1>9, LeaveJob DEF SendDeploy, FinishDeploy, DeleteInstance, Fail, Stop
<1>10. ASSUME NEW w \in Workers, NEW i \in Items, ExecuteAction(w, i)
       PROVE  UNCHANGED <<pc, job>>
  BY <1>10 DEF ExecuteAction
<1>11. ASSUME NEW s \in Stands, CreateInstance(s) \/ ServiceFails(s)
       PROVE  UNCHANGED <<pc, job>>
  BY <1>11 DEF CreateInstance, ServiceFails
<1>12. (UNCHANGED core => UNCHANGED <<pc, job>>) /\ (UNCHANGED vars => UNCHANGED <<pc, job>>)
  BY DEF core, vars
<1> QED
  BY <1>1, <1>2, <1>3, <1>4, <1>6, <1>7, <1>8, <1>9, <1>10, <1>11, <1>12, Steps DEF Requests

-----------------------------------------------------------------------------
(* Configurations. *)

LEMMA JobStand ==
  ASSUME JobInv, NEW w \in Workers, Busy(w)
  PROVE  job[w] \in Tasks /\ job[w].stand \in Stands
BY DEF JobInv, Tasks

(* A worker keeps what it has, or is at a place where it needs nothing.    *)
Settled(w) ==
  \/ pc'[w] \in {"idle", "read", "fail", "send"}
  \/ SamePlace(w) /\ job'[w] = job[w] /\ cfg'[w] = cfg[w]

LEMMA ConfigKept ==
  ASSUME JobInv, ConfigInv, config' = config,
         \A s \in Stands : state'[s] = "none" => state[s] = "none",
         \A w \in Workers : Settled(w) \/ WorkerConfig(w)'
  PROVE  ConfigInv'
<1>1. ASSUME NEW w \in Workers PROVE WorkerConfig(w)'
  <2>1. CASE pc'[w] \in {"idle", "read", "fail", "send"}
    BY <2>1 DEF WorkerConfig, WorkPlaces, NamePlaces
  <2>2. CASE SamePlace(w) /\ job'[w] = job[w] /\ cfg'[w] = cfg[w]
    BY <2>2, JobStand DEF SamePlace, WorkerConfig, ConfigInv, WorkPlaces, NamePlaces, Busy
  <2> QED
    BY <2>1, <2>2 DEF Settled
<1> QED
  BY <1>1 DEF ConfigInv

(* A step of one worker settles the others.                                *)
LEMMA OthersSettled ==
  ASSUME TypeOK, NEW w \in Workers,
         \/ Leave(w)
         \/ /\ job' = job
            /\ pc' = pc \/ \E place : pc' = [pc EXCEPT ![w] = place]
            /\ cfg' = cfg \/ \E c : cfg' = [cfg EXCEPT ![w] = c]
  PROVE  \A v \in Workers \ {w} : pc'[v] = pc[v] /\ job'[v] = job[v] /\ cfg'[v] = cfg[v]
BY DEF TypeOK, Leave, Goto

LEMMA ConfigStep ==
  ASSUME TypeOK, JobInv, ConfigInv, [Next]_vars
  PROVE  ConfigInv'
<1>1. CASE UNCHANGED core
  BY <1>1, ConfigKept DEF core, dbVars, localVars, Settled, SamePlace
<1>2. ASSUME NEW s \in Stands, CreateInstance(s)
      PROVE  ConfigInv'
  <2>1. config' = config
    BY <1>2 DEF CreateInstance, TypeOK, ConfigInv
  <2>2. \A u \in Stands : state'[u] = "none" => state[u] = "none"
    BY <1>2 DEF CreateInstance, TypeOK
  <2> QED
    BY <1>2, <2>1, <2>2, ConfigKept DEF CreateInstance, Settled, SamePlace, localVars
<1>3. ASSUME NEW s \in Stands, ServiceFails(s)
      PROVE  ConfigInv'
  BY <1>3, ConfigKept DEF ServiceFails, Settled, SamePlace, localVars, TypeOK
<1>4. ASSUME NEW w \in Workers, NEW t \in Tasks, Take(w, t)
      PROVE  ConfigInv'
  BY <1>4, ConfigKept DEF Take, Settled, SamePlace, dbVars, localVars, TypeOK
<1>5. CASE Crash
  BY <1>5, ConfigKept DEF Crash, Settled, dbVars
<1>6. ASSUME NEW w \in Workers, ReadInstance(w)
      PROVE  ConfigInv'
  <2>1. \A v \in Workers \ {w} : Settled(v)
    BY <1>6, OthersSettled DEF ReadInstance, Goto, Settled, SamePlace, localVars
  <2>2. Settled(w) \/ WorkerConfig(w)'
    BY <1>6, JobStand DEF ReadInstance, Goto, Leave, Settled, WorkerConfig, WorkPlaces, NamePlaces,
       TypeOK, dbVars, Busy
  <2> QED
    BY <1>6, <2>1, <2>2, ConfigKept DEF ReadInstance, dbVars
<1>7. ASSUME NEW w \in Workers, Requests(w) \/ CallFails(w)
      PROVE  ConfigInv'
  <2>1. /\ UNCHANGED <<state, config, job, cfg>> /\ \E place : pc' = [pc EXCEPT ![w] = place]
        /\ pc'[w] = "fail" \/ SamePlace(w)
    BY <1>7, RequestStep, CallFailsPlace DEF dbVars
  <2>2. \A v \in Workers \ {w} : Settled(v)
    BY <2>1, OthersSettled DEF Settled, SamePlace
  <2>3. Settled(w)
    BY <2>1 DEF Settled
  <2> QED
    BY <2>1, <2>2, <2>3, ConfigKept
<1>16. ASSUME NEW w \in Workers, TakeIds(w)
       PROVE  ConfigInv'
  <2>1. /\ UNCHANGED <<dbVars, job>> /\ InLoop(w)
        /\ pc' = [pc EXCEPT ![w] = IF ForVMs(w) THEN "names" ELSE "patch"]
        /\ \E c : cfg' = [cfg EXCEPT ![w] = c]
        /\ \A i \in Wanted(w) : cfg'[w][i] \in Pool(w)
        /\ \A i \in Items \ Wanted(w) : cfg'[w][i] = cfg[w][i]
    BY <1>16, TakeResult
  <2>2. \A v \in Workers \ {w} : Settled(v)
    BY <2>1, OthersSettled DEF Settled, SamePlace
  <2>3. pc'[w] = (IF ForVMs(w) THEN "names" ELSE "patch") /\ WorkerConfig(w)
    BY <2>1 DEF TypeOK, ConfigInv
  <2>4. CASE ForVMs(w)
    <3>1. pc[w] = "vmidLoop" /\ Wanted(w) = VMs /\ Pool(w) = Vmids
      BY <2>1, <2>4 DEF InLoop, ForVMs, Wanted, Pool
    <3>2. WorkerConfig(w)'
      BY <2>1, <2>3, <2>4, <3>1 DEF WorkerConfig, WorkPlaces, NamePlaces, dbVars
    <3> QED
      BY <2>1, <2>2, <3>2, ConfigKept DEF dbVars
  <2>5. CASE ~ForVMs(w)
    <3>1. pc[w] = "nameLoop" /\ Wanted(w) = Nets /\ Pool(w) = Names
      BY <2>1, <2>5 DEF InLoop, ForVMs, Wanted, Pool
    <3>2. \A i \in VMs : i \in Items \ Nets
      BY StandAssumption DEF Items
    <3>3. WorkerConfig(w)'
      BY <2>1, <2>3, <2>5, <3>1, <3>2 DEF WorkerConfig, WorkPlaces, NamePlaces, dbVars
    <3> QED
      BY <2>1, <2>2, <3>3, ConfigKept DEF dbVars
  <2> QED
    BY <2>4, <2>5
<1>8. ASSUME NEW w \in Workers, PatchConfig(w) \/ PatchLost(w)
      PROVE  ConfigInv'
  <2> DEFINE s == job[w].stand
  <2>1. /\ pc[w] = "patch" /\ job' = job /\ cfg' = cfg /\ state' = state
        /\ Busy(w) /\ job[w] \in Tasks /\ s \in Stands
        /\ job[w].kind = "allocate" /\ config[s] = NoConfig
        /\ \A i \in Items : cfg[w][i] \in Ids
    <3>1. pc[w] = "patch" /\ UNCHANGED <<job, cfg, state>>
      BY <1>8 DEF PatchConfig, PatchLost, AnswerLost, StoreConfig, QueueDeploy, dbVars, localVars
    <3> QED
      BY <3>1, JobStand DEF Busy, JobInv, AllocPlaces, ConfigInv, WorkerConfig, NamePlaces, Items, Ids
  <2>2. CASE config' = config /\ pc' = [pc EXCEPT ![w] = "fail"]
    BY <2>1, <2>2, ConfigKept DEF Settled, SamePlace, TypeOK
  <2>3. CASE /\ state[s] # "none"
             /\ config' = [config EXCEPT ![s] = cfg[w]]
             /\ pc' = [pc EXCEPT ![w] = "send"] \/ pc' = [pc EXCEPT ![w] = "fail"]
    <3>1. ASSUME NEW u \in Stands
          PROVE  /\ state'[u] = "none" => config'[u] = NoConfig
                 /\ config'[u] = NoConfig \/ \A i \in Items : config'[u][i] \in Ids
      BY <2>1, <2>3 DEF TypeOK, ConfigInv
    <3>2. ASSUME NEW v \in Workers
          PROVE  WorkerConfig(v)'
      <4>1. CASE v = w
        BY <2>3, <4>1 DEF TypeOK, WorkerConfig, WorkPlaces, NamePlaces
      <4>2. CASE v # w /\ job[v].stand # s
        BY <2>1, <2>3, <4>2 DEF TypeOK, WorkerConfig, ConfigInv, NamePlaces
      <4>3. CASE v # w /\ job[v].stand = s
        <5>1. pc[v] \notin AllocPlaces
          BY <2>1, <4>3 DEF JobInv, SameLock, Busy, AllocPlaces
        <5>2. pc[v] \in {"mark", "plan", "exec"} => cfg[v] = NoConfig
          BY <2>1, <4>3 DEF ConfigInv, WorkerConfig
        <5> QED
          BY <2>1, <2>3, <4>3, <5>1, <5>2 DEF TypeOK, WorkerConfig, ConfigInv, AllocPlaces, NamePlaces
      <4> QED
        BY <4>1, <4>2, <4>3
    <3> QED
      BY <3>1, <3>2 DEF ConfigInv
  <2> QED
    BY <1>8, <2>1, <2>2, <2>3 DEF PatchConfig, PatchLost, AnswerLost, StoreConfig, Goto, dbVars
<1>9. ASSUME NEW w \in Workers, Mark(w)
      PROVE  ConfigInv'
  <2>1. \A v \in Workers \ {w} : Settled(v)
    BY <1>9, OthersSettled DEF Mark, Goto, Settled, SamePlace, localVars
  <2>2. \A s \in Stands : state'[s] = "none" => state[s] = "none"
    BY <1>9 DEF Mark, SetStatus, TypeOK, Destroying
  <2>3. Settled(w) \/ WorkerConfig(w)'
    BY <1>9, <2>2, JobStand DEF Mark, Goto, Settled, WorkerConfig, ConfigInv, WorkPlaces,
       NamePlaces, TypeOK, Busy, localVars
  <2> QED
    BY <1>9, <2>1, <2>2, <2>3, ConfigKept DEF Mark
<1>10. ASSUME NEW w \in Workers, Plan(w) \/ FinishDestroy(w)
       PROVE  ConfigInv'
  <2>1. \A v \in Workers \ {w} : Settled(v)
    BY <1>10, OthersSettled DEF Plan, FinishDestroy, Goto, Settled, SamePlace, localVars
  <2>2. Settled(w) \/ WorkerConfig(w)'
    BY <1>10, JobStand DEF Plan, FinishDestroy, Goto, Settled, WorkerConfig, ConfigInv, WorkPlaces,
       NamePlaces, TypeOK, Busy, localVars, dbVars
  <2> QED
    BY <1>10, <2>1, <2>2, ConfigKept DEF Plan, FinishDestroy, dbVars
<1>11. ASSUME NEW w \in Workers, SendDeploy(w) \/ FinishDeploy(w) \/ Fail(w) \/ Stop(w)
       PROVE  ConfigInv'
  <2>1. Leave(w) /\ config' = config
    BY <1>11 DEF SendDeploy, QueueDeploy, FinishDeploy, Fail, Stop, dbVars
  <2>2. \A s \in Stands : state'[s] = "none" => state[s] = "none"
    BY <1>11 DEF SendDeploy, QueueDeploy, FinishDeploy, Fail, Stop, dbVars, SetStatus, TypeOK
  <2>3. \A v \in Workers : Settled(v)
    BY <2>1, OthersSettled, LeaveTypes DEF Settled, SamePlace, TypeOK
  <2> QED
    BY <2>1, <2>2, <2>3, ConfigKept
<1>12. ASSUME NEW w \in Workers, SendLost(w) \/ \E i \in Items : ActionFails(w, i)
       PROVE  ConfigInv'
  <2>1. UNCHANGED <<dbVars, job, cfg>> /\ pc' = [pc EXCEPT ![w] = "fail"]
    BY <1>12 DEF SendLost, AnswerLost, QueueDeploy, ActionFails, Goto, localVars
  <2> QED
    BY <2>1, ConfigKept DEF Settled, SamePlace, dbVars, TypeOK
<1>13. ASSUME NEW w \in Workers, NEW i \in Items, ExecuteAction(w, i)
       PROVE  ConfigInv'
  BY <1>13, ConfigKept DEF ExecuteAction, Settled, SamePlace, dbVars
<1>14. ASSUME NEW w \in Workers, DeleteInstance(w) \/ DeleteLost(w)
       PROVE  ConfigInv'
  <2> DEFINE s == job[w].stand
  <2>1. /\ pc[w] = "delete" /\ Busy(w) /\ job[w] \in Tasks /\ s \in Stands
        /\ job[w].kind = "destroy"
        /\ state' = [state EXCEPT ![s] = "none"]
        /\ config' = [config EXCEPT ![s] = NoConfig]
        /\ Leave(w) \/ (pc' = [pc EXCEPT ![w] = "fail"] /\ job' = job /\ cfg' = cfg)
    BY <1>14, JobStand DEF DeleteInstance, DeleteLost, AnswerLost, DropRow, Goto, Busy, JobInv,
       Destroying, localVars
  <2>2. ASSUME NEW u \in Stands
        PROVE  /\ state'[u] = "none" => config'[u] = NoConfig
               /\ config'[u] = NoConfig \/ \A i \in Items : config'[u][i] \in Ids
    BY <2>1 DEF TypeOK, ConfigInv
  <2>3. ASSUME NEW v \in Workers
        PROVE  WorkerConfig(v)'
    <3>1. CASE v = w
      <4>1. pc'[w] \in {"idle", "fail"}
        BY <2>1, LeaveTypes DEF TypeOK
      <4> QED
        BY <3>1, <4>1 DEF WorkerConfig, WorkPlaces, NamePlaces
    <3>2. CASE v # w
      <4>1. pc'[v] = pc[v] /\ job'[v] = job[v] /\ cfg'[v] = cfg[v] /\ WorkerConfig(v)
        BY <2>1, <3>2, OthersSettled DEF ConfigInv
      <4>2. CASE job[v].stand # s
        BY <2>1, <4>1, <4>2 DEF TypeOK, WorkerConfig, NamePlaces
      <4>3. CASE job[v].stand = s
        <5>1. pc[v] \notin WorkPlaces
          BY <2>1, <3>2, <4>3 DEF JobInv, SameLock, Busy, WorkPlaces
        <5> QED
          BY <2>1, <4>1, <4>3, <5>1 DEF TypeOK, WorkerConfig, WorkPlaces, NamePlaces
      <4> QED
        BY <4>2, <4>3
    <3> QED
      BY <3>1, <3>2
  <2> QED
    BY <2>2, <2>3 DEF ConfigInv
<1>15. UNCHANGED vars => UNCHANGED core
  BY DEF core, vars
<1> QED
  BY <1>1, <1>2, <1>3, <1>4, <1>5, <1>6, <1>7, <1>8, <1>9, <1>10, <1>11, <1>12, <1>13, <1>14, <1>15,
     <1>16, Steps DEF Requests

-----------------------------------------------------------------------------
(* Reservations. *)

(* A worker keeps what it has, or is not between taking VMIDs and storing. *)
Unreserving(w) ==
  \/ pc'[w] \notin NamePlaces
  \/ SamePlace(w) /\ job'[w] = job[w] /\ cfg'[w] = cfg[w] /\ seenRow'[w] = seenRow[w]

(* A row that was missing and exists again has another number.             *)
RowsGrow ==
  \A s \in Stands : /\ row[s] <= row'[s]
                    /\ row'[s] = row[s] /\ state[s] = "none" => state'[s] = "none"

LEMMA ReserveKept ==
  ASSUME TypeOK, TypeOK', JobInv, ReserveInv, RowsGrow, usedBy' = usedBy,
         NEW w \in Workers, Unreserving(w)
  PROVE  WorkerReserve(w)'
<1>1. CASE pc'[w] \notin NamePlaces
  BY <1>1 DEF WorkerReserve, NamePlaces
<1>2. CASE /\ SamePlace(w) /\ job'[w] = job[w] /\ cfg'[w] = cfg[w] /\ seenRow'[w] = seenRow[w]
           /\ pc'[w] \in NamePlaces
  <2> DEFINE s == job[w].stand
  <2>6. pc[w] \in NamePlaces /\ (pc'[w] = "patch" => pc[w] = "patch")
    BY <1>2 DEF SamePlace, NamePlaces
  <2>1. s \in Stands /\ WorkerReserve(w)
    BY <2>6, JobStand DEF Busy, ReserveInv, NamePlaces
  <2>2. seenRow[w] \in Int /\ row[s] \in Int /\ row'[s] \in Int
    BY <2>1, StandAssumption DEF TypeOK
  <2>3. seenRow[w] <= row[s] /\ row[s] <= row'[s]
    BY <2>1, <2>6 DEF RowsGrow, WorkerReserve
  <2>4. SameRow(w)' => SameRow(w)
    BY <1>2, <2>1, <2>2, <2>3 DEF SameRow, RowsGrow
  <2>5. \A items : Reserved(w, items) => Reserved(w, items)'
    BY <1>2 DEF Reserved
  <2> QED
    BY <1>2, <2>1, <2>2, <2>3, <2>4, <2>5, <2>6 DEF WorkerReserve
<1> QED
  BY <1>1, <1>2 DEF Unreserving

LEMMA OthersUnreserving ==
  ASSUME TypeOK, NEW w \in Workers,
         \/ Leave(w)
         \/ /\ job' = job
            /\ pc' = pc \/ \E place : pc' = [pc EXCEPT ![w] = place]
            /\ cfg' = cfg \/ \E c : cfg' = [cfg EXCEPT ![w] = c]
            /\ seenRow' = seenRow \/ \E n : seenRow' = [seenRow EXCEPT ![w] = n]
  PROVE  \A v \in Workers \ {w} : Unreserving(v)
BY DEF TypeOK, Leave, Goto, Unreserving, SamePlace

(* Nothing but the workers' places and rows have changed.                  *)
LEMMA ReserveQuiet ==
  ASSUME TypeOK, TypeOK', JobInv, ReserveInv, RowsGrow, usedBy' = usedBy, config' = config,
         mixed' = mixed, \A w \in Workers : Unreserving(w)
  PROVE  ReserveInv'
BY ReserveKept DEF ReserveInv, ConfigsReserved

LEMMA ReserveStep ==
  ASSUME TypeOK, TypeOK', JobInv, ConfigInv, ReserveInv, PickedInv, [Next]_vars
  PROVE  ReserveInv'
<1> USE StandAssumption
<1>1. state' = state /\ row' = row => RowsGrow
  BY DEF RowsGrow, TypeOK
<1>2. CASE UNCHANGED core
  BY <1>1, <1>2, ReserveQuiet DEF core, dbVars, localVars, ghostVars, Unreserving, SamePlace
<1>3. ASSUME NEW s \in Stands, CreateInstance(s)
      PROVE  ReserveInv'
  <2>1. config' = config
    BY <1>3 DEF CreateInstance, TypeOK, ConfigInv
  <2>2. RowsGrow
    BY <1>3 DEF CreateInstance, TypeOK, RowsGrow
  <2> QED
    BY <1>3, <2>1, <2>2, ReserveQuiet DEF CreateInstance, Unreserving, SamePlace, localVars, ghostVars
<1>4. ASSUME NEW s \in Stands, ServiceFails(s)
      PROVE  ReserveInv'
  <2>1. RowsGrow
    BY <1>4 DEF ServiceFails, TypeOK, RowsGrow
  <2> QED
    BY <1>4, <2>1, ReserveQuiet DEF ServiceFails, Unreserving, SamePlace, localVars, ghostVars
<1>5. ASSUME NEW w \in Workers, NEW t \in Tasks, Take(w, t)
      PROVE  ReserveInv'
  <2>1. \A v \in Workers : Unreserving(v)
    BY <1>5 DEF Take, Unreserving, SamePlace, NamePlaces, TypeOK, localVars
  <2> QED
    BY <1>1, <1>5, <2>1, ReserveQuiet DEF Take, dbVars, ghostVars
<1>6. CASE Crash
  BY <1>1, <1>6, ReserveQuiet DEF Crash, Unreserving, NamePlaces, dbVars
<1>7. ASSUME NEW w \in Workers,
             \/ ReadInstance(w) \/ SendDeploy(w) \/ SendLost(w) \/ Mark(w) \/ Plan(w)
             \/ FinishDeploy(w) \/ FinishDestroy(w) \/ Fail(w) \/ Stop(w)
             \/ \E i \in Items : ExecuteAction(w, i) \/ ActionFails(w, i)
      PROVE  ReserveInv'
  <2>1. UNCHANGED <<config, usedBy, row, mixed>>
    BY <1>7 DEF ReadInstance, SendDeploy, SendLost, AnswerLost, QueueDeploy, Mark, Plan, FinishDeploy,
       FinishDestroy, Fail, Stop, ExecuteAction, ActionFails, dbVars, ghostVars
  <2>2. /\ Leave(w) \/ /\ job' = job
                       /\ pc' = pc \/ \E place : pc' = [pc EXCEPT ![w] = place]
                       /\ cfg' = cfg \/ \E c : cfg' = [cfg EXCEPT ![w] = c]
                       /\ seenRow' = seenRow
        /\ pc'[w] \notin NamePlaces
    BY <1>7 DEF ReadInstance, SendDeploy, SendLost, AnswerLost, QueueDeploy, Mark, Plan, FinishDeploy,
       FinishDestroy, Fail, Stop, ExecuteAction, ActionFails, Goto, Leave, localVars, NamePlaces, TypeOK
  <2>3. RowsGrow
    BY <1>7, <2>1 DEF ReadInstance, SendDeploy, SendLost, AnswerLost, QueueDeploy, Mark, Plan, FinishDeploy,
       FinishDestroy, Fail, Stop, ExecuteAction, ActionFails, SetStatus, RowsGrow, TypeOK, dbVars, JobInv, Tasks, Busy
  <2>4. \A v \in Workers : Unreserving(v)
    BY <2>2, OthersUnreserving DEF Unreserving
  <2> QED
    BY <2>1, <2>3, <2>4, ReserveQuiet
<1>8. ASSUME NEW w \in Workers, Requests(w) \/ CallFails(w)
      PROVE  ReserveInv'
  <2> DEFINE s == job[w].stand
  <2>1. /\ UNCHANGED <<state, config, row, job, cfg, seenRow, mixed>>
        /\ \E place : pc' = [pc EXCEPT ![w] = place]
        /\ pc'[w] = "fail" \/ SamePlace(w)
    BY <1>8, RequestStep, CallFailsPlace DEF dbVars, ghostVars
  <2>2. \A v \in Workers : Unreserving(v)
    BY <2>1, OthersUnreserving DEF Unreserving, NamePlaces
  <2>3. CASE usedBy' = usedBy
    BY <1>1, <2>1, <2>2, <2>3, ReserveQuiet
  <2>4. CASE InsertId(w) \/ ReleaseIds(w)
    <3>1. /\ s \in Stands /\ config[s] = NoConfig /\ InLoop(w) /\ s # None
          /\ \A id \in Ids : \/ usedBy'[id] = usedBy[id]
                             \/ usedBy[id] = None /\ usedBy'[id] = s
                             \/ usedBy[id] = s /\ usedBy'[id] = None /\ pc'[w] = "fail"
      <4>1. InLoop(w) /\ s \in Stands /\ config[s] = NoConfig
        BY <2>4, JobStand DEF InsertId, ReleaseIds, InLoop, Busy, ConfigInv, WorkerConfig, NamePlaces
      <4>2. CASE InsertId(w)
        <5>1. picked[w] # None /\ usedBy[picked[w]] = None
          BY <4>2 DEF InsertId, PickedInv, WorkerPicked
        <5> QED
          BY <4>1, <4>2, <5>1 DEF InsertId, TypeOK
      <4>3. CASE ReleaseIds(w)
        BY <4>1, <4>3 DEF ReleaseIds, Held, Goto, TypeOK
      <4> QED
        BY <2>4, <4>1, <4>2, <4>3
    <3>2. ConfigsReserved'
      <4> SUFFICES ASSUME ~mixed, NEW u \in Stands, NEW i \in Items, config[u][i] # None
                   PROVE  usedBy'[config[u][i]] = u
        BY <2>1 DEF ConfigsReserved
      <4>1. config[u][i] \in Ids /\ usedBy[config[u][i]] = u
        BY DEF TypeOK, ReserveInv, ConfigsReserved
      <4>2. u # s
        BY <3>1 DEF NoConfig
      <4> QED
        BY <3>1, <4>1, <4>2
    <3>3. ASSUME NEW v \in Workers
          PROVE  WorkerReserve(v)'
      <4>1. CASE v # w
        <5>1. pc'[v] = pc[v]
          BY <2>1, <4>1 DEF TypeOK
        <5>2. pc[v] \notin AllocPlaces
          BY <3>1, <4>1 DEF InLoop, JobInv, SameLock, AllocPlaces, Busy
        <5> QED
          BY <5>1, <5>2 DEF WorkerReserve, AllocPlaces, NamePlaces
      <4>2. CASE v = w /\ pc'[w] = "fail"
        BY <4>2 DEF WorkerReserve, NamePlaces
      <4>3. CASE v = w /\ SamePlace(w) /\ pc'[w] # "fail"
        <5>1. WorkerReserve(w) /\ pc'[w] # "patch"
          BY <3>1, <4>3 DEF ReserveInv, InLoop, SamePlace
        <5>2. pc'[w] \in NamePlaces => pc[w] \in NamePlaces
          BY <4>3 DEF SamePlace, NamePlaces
        <5>3. pc[w] \in NamePlaces /\ Reserved(w, VMs) => Reserved(w, VMs)'
          <6>1. pc[w] \in NamePlaces => \A i \in VMs : cfg[w][i] \in Ids
            BY DEF ConfigInv, WorkerConfig, Ids
          <6> QED
            BY <2>1, <3>1, <4>3, <6>1 DEF Reserved
        <5> QED
          BY <2>1, <4>3, <5>1, <5>2, <5>3 DEF WorkerReserve, SameRow
      <4> QED
        BY <2>1, <4>1, <4>2, <4>3
    <3> QED
      BY <3>2, <3>3 DEF ReserveInv
  <2> QED
    BY <1>8, <2>3, <2>4 DEF Requests, RequestIds, LookAtId, CallFails, dbVars
<1>12. ASSUME NEW w \in Workers, TakeIds(w)
       PROVE  ReserveInv'
  <2> DEFINE s == job[w].stand
  <2>1. /\ UNCHANGED <<dbVars, job, mixed>> /\ InLoop(w)
        /\ pc' = [pc EXCEPT ![w] = IF ForVMs(w) THEN "names" ELSE "patch"]
        /\ \E c : cfg' = [cfg EXCEPT ![w] = c]
        /\ \A i \in Wanted(w) : usedBy[cfg'[w][i]] = s
        /\ \A i \in Items \ Wanted(w) : cfg'[w][i] = cfg[w][i]
    BY <1>12, TakeResult DEF ghostVars
  <2>2. seenRow' = [seenRow EXCEPT ![w] = IF ForVMs(w) THEN row[s] ELSE @] /\ s \in Stands
    BY <1>12, <2>1, JobStand DEF TakeIds, InLoop, Busy
  <2>3. /\ pc'[w] = (IF ForVMs(w) THEN "names" ELSE "patch")
        /\ seenRow'[w] = (IF ForVMs(w) THEN row[s] ELSE seenRow[w])
    BY <2>1, <2>2 DEF TypeOK
  <2>4. ASSUME NEW v \in Workers \ {w}
        PROVE  WorkerReserve(v)'
    <3>1. Unreserving(v)
      BY <2>1, <2>2, OthersUnreserving
    <3> QED
      BY <1>1, <2>1, <3>1, ReserveKept DEF dbVars
  <2>5. WorkerReserve(w)'
    <3>1. CASE ForVMs(w)
      <4>1. Wanted(w) = VMs
        BY <3>1 DEF Wanted
      <4> QED
        BY <2>1, <2>2, <2>3, <3>1, <4>1 DEF WorkerReserve, Reserved, TypeOK, dbVars
    <3>2. CASE ~ForVMs(w)
      <4>1. Wanted(w) = Nets /\ pc[w] = "nameLoop" /\ \A i \in VMs : i \in Items \ Nets
        BY <2>1, <3>2 DEF Wanted, InLoop, ForVMs, Items
      <4>2. /\ seenRow[w] <= row[s]
            /\ SameRow(w) => Reserved(w, VMs)
        BY <4>1 DEF ReserveInv, WorkerReserve, NamePlaces
      <4>3. SameRow(w)' => SameRow(w)
        BY <2>1, <2>3, <3>2 DEF SameRow, dbVars
      <4>4. Reserved(w, VMs) => Reserved(w, VMs)'
        BY <2>1, <4>1 DEF Reserved, dbVars
      <4>5. Reserved(w, Nets)'
        BY <2>1, <4>1 DEF Reserved, dbVars
      <4> QED
        BY <2>1, <2>3, <3>2, <4>2, <4>3, <4>4, <4>5 DEF WorkerReserve, dbVars
    <3> QED
      BY <3>1, <3>2
  <2> QED
    BY <2>1, <2>4, <2>5 DEF ReserveInv, ConfigsReserved, dbVars
<1>9. ASSUME NEW w \in Workers, PatchConfig(w) \/ PatchLost(w)
      PROVE  ReserveInv'
  <2> DEFINE s == job[w].stand
  <2>1. /\ pc[w] = "patch" /\ Busy(w) /\ job[w] \in Tasks /\ s \in Stands
        /\ UNCHANGED <<state, usedBy, row, job, cfg, seenRow>>
        /\ \E place : pc' = [pc EXCEPT ![w] = place]
        /\ pc'[w] \notin NamePlaces
    BY <1>9, JobStand DEF PatchConfig, PatchLost, AnswerLost, StoreConfig, QueueDeploy, Goto, Busy,
       NamePlaces, dbVars, localVars, TypeOK
  <2>2. \A v \in Workers : Unreserving(v)
    BY <2>1, OthersUnreserving DEF Unreserving
  <2>3. \A v \in Workers : WorkerReserve(v)'
    BY <1>1, <2>1, <2>2, ReserveKept
  <2>4. ConfigsReserved'
    <3>1. CASE config' = config /\ mixed' = mixed
      BY <2>1, <3>1 DEF ReserveInv, ConfigsReserved
    <3>2. CASE /\ state[s] # "none" /\ config' = [config EXCEPT ![s] = cfg[w]]
               /\ mixed' = (mixed \/ row[s] # seenRow[w])
      <4>1. \/ mixed'
            \/ ~mixed /\ ~mixed' /\ SameRow(w)
        BY <3>2 DEF SameRow, TypeOK
      <4>2. CASE ~mixed /\ ~mixed' /\ SameRow(w)
        <5>1. \A i \in Items : usedBy[cfg[w][i]] = s
          BY <2>1, <4>2 DEF ReserveInv, WorkerReserve, Reserved, Items, NamePlaces
        <5>2. \A u \in Stands : \A i \in Items : config[u][i] # None => usedBy[config[u][i]] = u
          BY <4>2 DEF ReserveInv, ConfigsReserved
        <5> QED
          BY <2>1, <3>2, <5>1, <5>2 DEF ConfigsReserved, TypeOK
      <4> QED
        BY <4>1, <4>2 DEF ConfigsReserved
    <3> QED
      BY <1>9, <2>1, <3>1, <3>2 DEF PatchConfig, PatchLost, AnswerLost, StoreConfig, dbVars, ghostVars
  <2> QED
    BY <2>3, <2>4 DEF ReserveInv
<1>10. ASSUME NEW w \in Workers, DeleteInstance(w) \/ DeleteLost(w)
       PROVE  ReserveInv'
  <2> DEFINE s == job[w].stand
  <2>1. /\ Busy(w) /\ job[w] \in Tasks /\ s \in Stands
        /\ state' = [state EXCEPT ![s] = "none"]
        /\ config' = [config EXCEPT ![s] = NoConfig]
        /\ usedBy' = [id \in Ids |-> IF usedBy[id] = s THEN None ELSE usedBy[id]]
        /\ row' = row /\ mixed' = mixed
        /\ \/ Leave(w)
           \/ pc' = [pc EXCEPT ![w] = "fail"] /\ UNCHANGED <<job, cfg, seenRow>>
    BY <1>10, JobStand DEF DeleteInstance, DeleteLost, AnswerLost, DropRow, Goto, Busy, localVars
  <2>2. ConfigsReserved'
    <3> SUFFICES ASSUME ~mixed, NEW u \in Stands, NEW i \in Items, config'[u][i] # None
                 PROVE  usedBy'[config'[u][i]] = u
      BY <2>1 DEF ConfigsReserved
    <3>1. u # s
      BY <2>1 DEF NoConfig, TypeOK
    <3>2. config'[u] = config[u]
      BY <2>1, <3>1 DEF TypeOK
    <3>3. config[u][i] \in Ids /\ usedBy[config[u][i]] = u
      BY <3>2 DEF TypeOK, ReserveInv, ConfigsReserved
    <3> QED
      BY <2>1, <3>1, <3>2, <3>3
  <2>3. ASSUME NEW v \in Workers
        PROVE  WorkerReserve(v)'
    <3>1. Unreserving(v)
      <4>1. pc'[w] \in {"idle", "fail"}
        BY <2>1, LeaveTypes DEF TypeOK
      <4>2. v # w => Unreserving(v)
        BY <2>1, OthersUnreserving
      <4> QED
        BY <4>1, <4>2 DEF Unreserving, NamePlaces
    <3>2. CASE pc'[v] \notin NamePlaces
      BY <3>2 DEF WorkerReserve, NamePlaces
    <3>3. CASE /\ SamePlace(v) /\ job'[v] = job[v] /\ cfg'[v] = cfg[v] /\ seenRow'[v] = seenRow[v]
               /\ pc'[v] \in NamePlaces
      <4>7. pc[v] \in NamePlaces /\ (pc'[v] = "patch" => pc[v] = "patch")
        BY <3>3 DEF SamePlace, NamePlaces
      <4>1. WorkerReserve(v) /\ job[v].stand \in Stands
        BY <4>7, JobStand DEF ReserveInv, Busy, NamePlaces
      <4>2. SameRow(v)' => SameRow(v) /\ job[v].stand # s
        BY <2>1, <3>3, <4>1 DEF SameRow, TypeOK
      <4>3. \A i \in VMs : cfg[v][i] \in Ids
        BY <4>7 DEF ConfigInv, WorkerConfig, Ids
      <4>4. pc[v] = "patch" => \A i \in Nets : cfg[v][i] \in Ids
        BY DEF ConfigInv, WorkerConfig, Ids
      <4>5. SameRow(v)' /\ Reserved(v, VMs) => Reserved(v, VMs)'
        BY <2>1, <3>3, <4>2, <4>3 DEF Reserved
      <4>6. pc[v] = "patch" /\ SameRow(v)' /\ Reserved(v, Nets) => Reserved(v, Nets)'
        BY <2>1, <3>3, <4>2, <4>4 DEF Reserved
      <4> QED
        BY <2>1, <3>3, <4>1, <4>2, <4>5, <4>6, <4>7 DEF WorkerReserve
    <3> QED
      BY <3>1, <3>2, <3>3 DEF Unreserving
  <2> QED
    BY <2>2, <2>3 DEF ReserveInv
<1>11. UNCHANGED vars => UNCHANGED core
  BY DEF core, vars
<1> QED
  BY <1>2, <1>3, <1>4, <1>5, <1>6, <1>7, <1>8, <1>9, <1>10, <1>11, <1>12, Steps DEF Requests

-----------------------------------------------------------------------------
(* Objects on PVE. *)

(* What is reserved for one stand is not in the configuration of another.  *)
LEMMA Disjoint == ASSUME ConfigsReserved PROVE DisjointConfigs
BY DEF ConfigsReserved, DisjointConfigs

(* A worker keeps what it has, or is where nothing is said of its work.    *)
Idling(w) ==
  \/ pc'[w] \notin {"mark", "exec", "delete"}
  \/ /\ pc'[w] = pc[w] /\ job'[w] = job[w] /\ cfg'[w] = cfg[w]
     /\ todo'[w] = todo[w]

LEMMA WorkQuiet ==
  ASSUME TypeOK, WorkInv, made' = made, ~mixed' => ~mixed,
         \A id \in Ids : ~mixed' /\ Exists(id) => /\ state'[made[id]] # "none"
                                                  /\ config'[made[id]] = config[made[id]],
         \A w \in Workers : Idling(w) \/ (~mixed' => WorkerWork(w)')
  PROVE  WorkInv'
<1> SUFFICES ASSUME ~mixed' PROVE NoOrphans' /\ \A w \in Workers : WorkerWork(w)'
  BY DEF WorkInv
<1>1. ~mixed /\ NoOrphans /\ \A w \in Workers : WorkerWork(w)
  BY DEF WorkInv, TypeOK
<1>2. NoOrphans'
  BY <1>1 DEF NoOrphans, Exists
<1>3. ASSUME NEW w \in Workers PROVE WorkerWork(w)'
  <2>1. CASE pc'[w] \notin {"mark", "exec", "delete"}
    BY <2>1 DEF WorkerWork
  <2>2. CASE /\ pc'[w] = pc[w] /\ job'[w] = job[w] /\ cfg'[w] = cfg[w]
             /\ todo'[w] = todo[w]
    BY <1>1, <2>2 DEF WorkerWork, MadeNothing, Exists, Destroying
  <2> QED
    BY <2>1, <2>2 DEF Idling
<1> QED
  BY <1>2, <1>3

LEMMA OthersIdling ==
  ASSUME TypeOK, NEW w \in Workers,
         \/ Leave(w)
         \/ /\ job' = job
            /\ pc' = pc \/ \E place : pc' = [pc EXCEPT ![w] = place]
            /\ cfg' = cfg \/ \E c : cfg' = [cfg EXCEPT ![w] = c]
            /\ todo' = todo \/ \E items : todo' = [todo EXCEPT ![w] = items]
  PROVE  \A v \in Workers \ {w} : Idling(v)
BY DEF TypeOK, Leave, Goto, Idling

(* An action of a transaction changes one object of its own stand.         *)
LEMMA EffectWork ==
  ASSUME TypeOK, JobInv, ConfigInv, ReserveInv, WorkInv, ~mixed,
         NEW w \in Workers, pc[w] = "exec", NEW i \in Due(w), Effect(w, i),
         UNCHANGED <<state, config, job, cfg, mixed>>
  PROVE  /\ NoOrphans'
         /\ Exists(cfg[w][i])' <=> ~Destroying(w)
         /\ \A j \in Items : (Exists(cfg[w][j]) <=> ~Destroying(w)) =>
                               (Exists(cfg[w][j])' <=> ~Destroying(w))
         /\ \A v \in Workers \ {w} : pc'[v] = pc[v] /\ todo'[v] = todo[v] => WorkerWork(v)'
<1> DEFINE s == job[w].stand
<1>1. /\ job[w] \in Tasks /\ s \in Stands /\ i \in Items /\ state[s] # "none"
      /\ cfg[w] = config[s] /\ config[s] # NoConfig /\ cfg[w][i] \in Ids
  BY JobStand DEF Busy, Due, TypeOK, ConfigInv, WorkerConfig, WorkPlaces
<1> DEFINE id0 == cfg[w][i]
<1>2. /\ made' = [made EXCEPT ![id0] = IF Destroying(w) THEN None ELSE IF @ # None THEN @ ELSE s]
      /\ s # None /\ None \notin Stands
  BY <1>1, StandAssumption DEF Effect
<1>3. /\ made'[id0] = None <=> Destroying(w)
      /\ \A id \in Ids : id # id0 => made'[id] = made[id]
      /\ made'[id0] \in {None, s, made[id0]}
      /\ \A id \in Ids : made'[id] = made[id] \/ (id = id0 /\ made'[id] \in {None, s})
  <2>1. /\ made'[id0] = IF Destroying(w) THEN None ELSE IF made[id0] # None THEN made[id0] ELSE s
        /\ \A id \in Ids : id # id0 => made'[id] = made[id]
    BY <1>1, <1>2 DEF TypeOK
  <2> QED
    BY <1>2, <2>1
<1>4. NoOrphans'
  BY <1>1, <1>3 DEF WorkInv, NoOrphans, Exists
<1>5. \A j \in Items : (Exists(cfg[w][j]) <=> ~Destroying(w)) =>
                         (Exists(cfg[w][j])' <=> ~Destroying(w))
  <2>1. \A j \in Items : cfg[w][j] \in Ids
    BY <1>1 DEF ConfigInv
  <2> QED
    BY <1>3, <2>1 DEF Exists
<1>6. ASSUME NEW v \in Workers \ {w}, pc'[v] = pc[v], todo'[v] = todo[v]
      PROVE  WorkerWork(v)'
  <2>1. WorkerWork(v)
    BY DEF WorkInv
  <2>2. CASE pc[v] \notin WorkPlaces
    BY <1>6, <2>2 DEF WorkerWork, WorkPlaces
  <2>3. CASE pc[v] \in WorkPlaces
    <3> DEFINE u == job[v].stand
    <3>1. u \in Stands /\ u # s
      BY <2>3, JobStand DEF JobInv, SameLock, Busy, WorkPlaces
    <3>2. MadeNothing(u) => MadeNothing(u)'
      BY <1>2, <1>3, <3>1 DEF MadeNothing
    <3>3. pc[v] = "exec" => \A j \in Items : cfg[v][j] \in Ids /\ cfg[v][j] # id0
      <4>1. DisjointConfigs
        BY Disjoint DEF ReserveInv
      <4>2. pc[v] = "exec" => cfg[v] = config[u] /\ config[u] # NoConfig
        BY DEF ConfigInv, WorkerConfig
      <4>3. config[u] # NoConfig => \A j \in Items : config[u][j] \in Ids
        BY <3>1 DEF ConfigInv
      <4> QED
        BY <1>1, <3>1, <4>1, <4>2, <4>3, StandAssumption DEF DisjointConfigs
    <3>4. pc[v] = "exec" => \A j \in Items : Exists(cfg[v][j])' <=> Exists(cfg[v][j])
      BY <1>3, <3>3 DEF Exists
    <3> QED
      BY <1>6, <2>1, <3>2, <3>4 DEF WorkerWork, Destroying
  <2> QED
    BY <2>2, <2>3
<1>7. Exists(cfg[w][i])' <=> ~Destroying(w)
  BY <1>3 DEF Exists
<1> QED
  BY <1>4, <1>5, <1>6, <1>7

LEMMA WorkStep ==
  ASSUME TypeOK, JobInv, ConfigInv, ReserveInv, WorkInv, [Next]_vars
  PROVE  WorkInv'
<1> USE StandAssumption
<1>1. \A id \in Ids : ~mixed /\ Exists(id) => made[id] \in Stands /\ state[made[id]] # "none"
  BY DEF WorkInv, NoOrphans, Exists, TypeOK
<1>2. ASSUME NEW s \in Stands, config[s] = NoConfig, ~mixed
      PROVE  MadeNothing(s)
  BY <1>2 DEF WorkInv, NoOrphans, MadeNothing, Exists, NoConfig, Ids
<1>3. CASE UNCHANGED core
  BY <1>1, <1>3, WorkQuiet DEF core, dbVars, localVars, ghostVars, Idling
<1>4. ASSUME NEW s \in Stands, CreateInstance(s)
      PROVE  WorkInv'
  <2>1. config' = config /\ \A u \in Stands : state[u] # "none" => state'[u] # "none"
    BY <1>4 DEF CreateInstance, TypeOK, ConfigInv
  <2> QED
    BY <1>1, <1>4, <2>1, WorkQuiet DEF CreateInstance, Idling, localVars, ghostVars
<1>5. ASSUME NEW s \in Stands, ServiceFails(s)
      PROVE  WorkInv'
  <2>1. config' = config /\ \A u \in Stands : state[u] # "none" => state'[u] # "none"
    BY <1>5 DEF ServiceFails, TypeOK
  <2> QED
    BY <1>1, <1>5, <2>1, WorkQuiet DEF ServiceFails, Idling, localVars, ghostVars
<1>6. ASSUME NEW w \in Workers, NEW t \in Tasks, Take(w, t)
      PROVE  WorkInv'
  <2>1. \A v \in Workers : Idling(v)
    BY <1>6 DEF Take, Idling, TypeOK, localVars
  <2> QED
    BY <1>1, <1>6, <2>1, WorkQuiet DEF Take, dbVars, ghostVars
<1>7. CASE Crash
  BY <1>1, <1>7, WorkQuiet DEF Crash, Idling, dbVars
<1>8. ASSUME NEW w \in Workers,
             \/ SendDeploy(w) \/ SendLost(w) \/ FinishDeploy(w) \/ Fail(w) \/ Stop(w)
      PROVE  WorkInv'
  <2>1. UNCHANGED <<config, made, mixed>>
    BY <1>8 DEF SendDeploy, SendLost, AnswerLost, QueueDeploy, FinishDeploy, Fail, Stop, dbVars,
       ghostVars
  <2>2. \A u \in Stands : state[u] # "none" => state'[u] # "none"
    BY <1>8 DEF SendDeploy, SendLost, AnswerLost, QueueDeploy, FinishDeploy, Fail, Stop, SetStatus,
       TypeOK, dbVars
  <2>3. pc'[w] \notin {"mark", "exec", "delete"}
    BY <1>8 DEF SendDeploy, SendLost, AnswerLost, FinishDeploy, Fail, Stop, Leave, Goto, TypeOK
  <2>4. \A v \in Workers \ {w} : Idling(v)
    BY <1>8, OthersIdling DEF SendDeploy, SendLost, AnswerLost, FinishDeploy, Fail, Stop, Goto,
       localVars
  <2> QED
    BY <1>1, <2>1, <2>2, <2>3, <2>4, WorkQuiet DEF Idling
<1>18. ASSUME NEW w \in Workers, Requests(w) \/ CallFails(w)
       PROVE  WorkInv'
  <2>1. /\ UNCHANGED <<state, config, made, mixed, job, cfg, todo>>
        /\ \E place : pc' = [pc EXCEPT ![w] = place]
        /\ pc'[w] \notin {"mark", "exec", "delete"}
    <3>1. CASE Requests(w)
      BY <3>1, RequestStep DEF SamePlace, ghostVars
    <3>2. CASE CallFails(w)
      BY <3>2, CallFailsPlace DEF dbVars, ghostVars
    <3> QED
      BY <1>18, <3>1, <3>2
  <2>2. \A v \in Workers : Idling(v)
    BY <2>1, OthersIdling DEF Idling
  <2> QED
    BY <1>1, <2>1, <2>2, WorkQuiet
<1>19. ASSUME NEW w \in Workers, TakeIds(w)
       PROVE  WorkInv'
  <2>1. /\ UNCHANGED <<dbVars, made, mixed, job, todo>>
        /\ pc' = [pc EXCEPT ![w] = IF ForVMs(w) THEN "names" ELSE "patch"]
        /\ \E c : cfg' = [cfg EXCEPT ![w] = c]
    BY <1>19, TakeResult DEF ghostVars
  <2>2. pc'[w] \notin {"mark", "exec", "delete"}
    BY <2>1 DEF TypeOK
  <2>3. \A v \in Workers : Idling(v)
    BY <2>1, <2>2, OthersIdling DEF Idling
  <2> QED
    BY <1>1, <2>1, <2>3, WorkQuiet DEF dbVars
<1>9. ASSUME NEW w \in Workers, ReadInstance(w)
      PROVE  WorkInv'
  <2>1. UNCHANGED <<dbVars, made, mixed>> /\ Busy(w) /\ job[w].stand \in Stands
    BY <1>9, JobStand DEF ReadInstance, Busy, ghostVars
  <2>2. \A v \in Workers \ {w} : Idling(v)
    BY <1>9, OthersIdling DEF ReadInstance, Goto, localVars
  <2>3. pc'[w] \notin {"exec", "delete"}
    BY <1>9 DEF ReadInstance, Goto, Leave, TypeOK
  <2>4. pc'[w] = "mark" => cfg'[w] = config[job[w].stand] /\ job' = job
    BY <1>9 DEF ReadInstance, Goto, Leave, TypeOK
  <2>5. ~mixed' => WorkerWork(w)'
    BY <1>2, <2>1, <2>3, <2>4 DEF WorkerWork, MadeNothing
  <2> QED
    BY <1>1, <2>1, <2>2, <2>5, WorkQuiet DEF dbVars
<1>10. ASSUME NEW w \in Workers, PatchConfig(w) \/ PatchLost(w)
       PROVE  WorkInv'
  <2> DEFINE s == job[w].stand
  <2>1. /\ pc[w] = "patch" /\ Busy(w) /\ s \in Stands /\ config[s] = NoConfig
        /\ UNCHANGED <<state, made, job, cfg, todo>>
        /\ pc' = [pc EXCEPT ![w] = "send"] \/ pc' = [pc EXCEPT ![w] = "fail"]
        /\ config' = config \/ config' = [config EXCEPT ![s] = cfg[w]]
        /\ ~mixed' => ~mixed
    BY <1>10, JobStand DEF PatchConfig, PatchLost, AnswerLost, StoreConfig, Goto, Busy, dbVars,
       localVars, ghostVars, ConfigInv, WorkerConfig, NamePlaces, TypeOK
  <2>2. \A v \in Workers : Idling(v)
    BY <2>1 DEF Idling, TypeOK
  <2>3. \A id \in Ids : ~mixed' /\ Exists(id) => config'[made[id]] = config[made[id]]
    BY <1>1, <1>2, <2>1 DEF MadeNothing, TypeOK
  <2> QED
    BY <1>1, <2>1, <2>2, <2>3, WorkQuiet DEF TypeOK
<1>11. ASSUME NEW w \in Workers, Mark(w)
       PROVE  WorkInv'
  <2>1. UNCHANGED <<config, made, mixed, job, cfg, todo>>
    BY <1>11 DEF Mark, localVars
  <2>2. \A u \in Stands : state[u] # "none" => state'[u] # "none"
    BY <1>11 DEF Mark, SetStatus, Destroying, TypeOK
  <2>3. \E place : /\ pc' = [pc EXCEPT ![w] = place]
                   /\ place = "delete" => cfg[w] = NoConfig /\ Destroying(w)
                   /\ place \in {"plan", "delete", "fail"}
    BY <1>11 DEF Mark, Goto
  <2>4. \A v \in Workers \ {w} : Idling(v)
    BY <2>1, <2>3, OthersIdling
  <2>5. ~mixed' => WorkerWork(w)'
    BY <1>11, <2>1, <2>3 DEF Mark, WorkInv, WorkerWork, MadeNothing, TypeOK
  <2> QED
    BY <1>1, <2>1, <2>2, <2>4, <2>5, WorkQuiet
<1>12. ASSUME NEW w \in Workers, Plan(w)
       PROVE  WorkInv'
  <2>1. UNCHANGED <<dbVars, made, mixed, job, cfg>>
    BY <1>12 DEF Plan, ghostVars
  <2>2. /\ pc' = [pc EXCEPT ![w] = "exec"]
        /\ todo' = [todo EXCEPT ![w] = {i \in Items : Exists(cfg[w][i]) <=> Destroying(w)}]
    BY <1>12 DEF Plan, Goto
  <2>3. \A v \in Workers \ {w} : Idling(v)
    BY <2>1, <2>2, OthersIdling
  <2>4. WorkerWork(w)'
    BY <2>1, <2>2 DEF WorkerWork, Exists, Destroying, TypeOK
  <2> QED
    BY <1>1, <2>1, <2>3, <2>4, WorkQuiet DEF dbVars
<1>13. ASSUME NEW w \in Workers, FinishDestroy(w)
       PROVE  WorkInv'
  <2> DEFINE s == job[w].stand
  <2>1. /\ UNCHANGED <<dbVars, made, mixed, job, cfg, todo>>
        /\ pc' = [pc EXCEPT ![w] = "delete"]
        /\ pc[w] = "exec" /\ Destroying(w) /\ todo[w] = {} /\ s \in Stands
    BY <1>13, JobStand DEF FinishDestroy, Goto, ghostVars, localVars, Complete, Busy
  <2>2. \A v \in Workers \ {w} : Idling(v)
    BY <2>1, OthersIdling
  <2>3. ~mixed => MadeNothing(s)
    <3> SUFFICES ASSUME ~mixed, NEW id \in Ids, made[id] = s PROVE FALSE
      BY DEF MadeNothing
    <3>1. Exists(id)
      BY <2>1 DEF Exists
    <3>2. PICK i \in Items : config[s][i] = id
      BY <3>1 DEF WorkInv, NoOrphans
    <3>3. cfg[w][i] = id
      BY <2>1, <3>2 DEF ConfigInv, WorkerConfig
    <3>4. ~Exists(cfg[w][i])
      BY <2>1 DEF WorkInv, WorkerWork
    <3> QED
      BY <3>1, <3>3, <3>4
  <2>4. ~mixed' => WorkerWork(w)'
    BY <2>1, <2>3 DEF WorkerWork, MadeNothing, TypeOK
  <2> QED
    BY <1>1, <2>1, <2>2, <2>4, WorkQuiet DEF dbVars
<1>14. ASSUME NEW w \in Workers, DeleteInstance(w) \/ DeleteLost(w)
       PROVE  WorkInv'
  <2> DEFINE s == job[w].stand
  <2>1. /\ Busy(w) /\ s \in Stands /\ pc[w] = "delete"
        /\ state' = [state EXCEPT ![s] = "none"]
        /\ config' = [config EXCEPT ![s] = NoConfig]
        /\ UNCHANGED <<made, mixed>>
        /\ \/ Leave(w)
           \/ pc' = [pc EXCEPT ![w] = "fail"] /\ UNCHANGED <<job, cfg, todo>>
    BY <1>14, JobStand DEF DeleteInstance, DeleteLost, AnswerLost, DropRow, Goto, Busy, localVars
  <2>2. \A v \in Workers : Idling(v)
    BY <2>1, OthersIdling, LeaveTypes DEF Idling, TypeOK
  <2>3. ~mixed => MadeNothing(s)
    BY <2>1 DEF WorkInv, WorkerWork
  <2> QED
    BY <1>1, <2>1, <2>2, <2>3, WorkQuiet DEF MadeNothing, TypeOK
<1>15. ASSUME NEW w \in Workers, NEW i \in Items, ExecuteAction(w, i)
       PROVE  WorkInv'
  <2> SUFFICES ASSUME ~mixed PROVE NoOrphans' /\ \A v \in Workers : WorkerWork(v)'
    BY <1>15 DEF WorkInv, ExecuteAction, ghostVars
  <2>1. /\ UNCHANGED <<state, config, job, cfg, mixed, pc>> /\ pc[w] = "exec" /\ i \in Due(w)
        /\ todo' = [todo EXCEPT ![w] = @ \ {i}] /\ Effect(w, i)
    BY <1>15 DEF ExecuteAction, dbVars, ghostVars
  <2>2. \A v \in Workers \ {w} : pc'[v] = pc[v] /\ todo'[v] = todo[v]
    BY <2>1 DEF TypeOK
  <2>3. /\ NoOrphans' /\ \A v \in Workers \ {w} : WorkerWork(v)'
        /\ Exists(cfg[w][i])' <=> ~Destroying(w)
        /\ \A j \in Items : (Exists(cfg[w][j]) <=> ~Destroying(w)) =>
                              (Exists(cfg[w][j])' <=> ~Destroying(w))
    BY <2>1, <2>2, EffectWork
  <2>4. \A j \in Items \ todo[w] : Exists(cfg[w][j]) <=> ~Destroying(w)
    BY <2>1 DEF WorkInv, WorkerWork
  <2>5. \A j \in Items \ todo'[w] : Exists(cfg[w][j])' <=> ~Destroying(w)
    BY <2>1, <2>3, <2>4 DEF TypeOK
  <2>6. WorkerWork(w)'
    BY <2>1, <2>5 DEF WorkerWork, Destroying, Exists
  <2> QED
    BY <2>3, <2>6
<1>16. ASSUME NEW w \in Workers, NEW i \in Items, ActionFails(w, i)
       PROVE  WorkInv'
  <2>1. /\ UNCHANGED <<state, config, job, cfg, todo, mixed>> /\ pc[w] = "exec" /\ i \in Due(w)
        /\ pc' = [pc EXCEPT ![w] = "fail"] /\ (Effect(w, i) \/ UNCHANGED made)
    BY <1>16 DEF ActionFails, Goto, dbVars, localVars, ghostVars
  <2>2. CASE UNCHANGED made
    <3>1. \A v \in Workers : Idling(v)
      BY <2>1 DEF Idling, TypeOK
    <3> QED
      BY <1>1, <2>1, <2>2, <3>1, WorkQuiet
  <2>3. CASE Effect(w, i)
    <3> SUFFICES ASSUME ~mixed PROVE NoOrphans' /\ \A v \in Workers : WorkerWork(v)'
      BY <2>1 DEF WorkInv
    <3>1. \A v \in Workers \ {w} : pc'[v] = pc[v] /\ todo'[v] = todo[v]
      BY <2>1 DEF TypeOK
    <3>2. NoOrphans' /\ \A v \in Workers \ {w} : WorkerWork(v)'
      BY <2>1, <2>3, <3>1, EffectWork
    <3>3. WorkerWork(w)'
      BY <2>1 DEF WorkerWork, TypeOK
    <3> QED
      BY <3>2, <3>3
  <2> QED
    BY <2>1, <2>2, <2>3
<1>17. UNCHANGED vars => UNCHANGED core
  BY DEF core, vars
<1> QED
  BY <1>3, <1>4, <1>5, <1>6, <1>7, <1>8, <1>9, <1>10, <1>11, <1>12, <1>13, <1>14, <1>15, <1>16,
     <1>17, <1>18, <1>19, Steps DEF Requests

-----------------------------------------------------------------------------
(* Ids that are not used. *)

LEMMA ItemsFinite ==
  /\ IsFiniteSet(VMs) /\ Cardinality(VMs) \in Nat
  /\ IsFiniteSet(Nets) /\ Cardinality(Nets) \in Nat
BY StandAssumption, FS_Subset, FS_CardinalityType DEF Items

(* An id inserted for a stand that has not enough of them does not exceed  *)
(* what it needs.                                                          *)
LEMMA InsertBounded ==
  ASSUME NEW s, NEW items, NEW pool, NEW id \in pool, Bounded(usedBy, s, items, pool),
         Cardinality(items) \in Nat, ~(Cardinality(Held(s, pool)) >= Cardinality(items)),
         NEW used, used[id] = s, usedBy[id] # s,
         \A other \in pool : other # id => used[other] = usedBy[other]
  PROVE  Bounded(used, s, items, pool)
<1> DEFINE held == Held(s, pool)
           more == {x \in pool : used[x] = s}
<1>1. IsFiniteSet(held) /\ Cardinality(held) \in Nat
  BY FS_CardinalityType DEF Bounded, Held
<1>2. more = held \union {id} /\ id \notin held
  BY DEF Held
<1>3. IsFiniteSet(held \union {id}) /\ Cardinality(held \union {id}) = Cardinality(held) + 1
  BY <1>1, <1>2, FS_AddElement
<1>4. IsFiniteSet(more) /\ Cardinality(more) = Cardinality(held) + 1
  BY <1>2, <1>3, Zenon
<1>5. ~(Cardinality(held) >= Cardinality(items))
  OBVIOUS
<1> HIDE DEF held
<1>6. Cardinality(more) <= Cardinality(items)
  BY <1>1, <1>4, <1>5
<1> QED
  BY <1>4, <1>6 DEF Bounded

(* A request that takes as many ids as it needs takes all the stand holds. *)
LEMMA TakeExact ==
  ASSUME TypeOK, NEW w \in Workers, TakeIds(w),
         Bounded(usedBy, job[w].stand, Wanted(w), Pool(w))
  PROVE  \A id \in Held(job[w].stand, Pool(w)) : \E i \in Wanted(w) : cfg'[w][i] = id
<1> DEFINE W == Wanted(w)
           H == Held(job[w].stand, Pool(w))
<1>1. PICK f \in [W -> H] : /\ \A i, j \in W : f[i] = f[j] => i = j
                             /\ \A k \in W : cfg'[w][k] = f[k]
  BY TakeResult
<1>2. IsFiniteSet(W) /\ Cardinality(W) \in Nat
  BY ItemsFinite DEF Wanted
<1>3. IsFiniteSet(H) /\ Cardinality(H) \in Nat /\ Cardinality(H) <= Cardinality(W)
  BY FS_CardinalityType DEF Bounded, Held
<1>4. Cardinality(H) >= Cardinality(W)
  BY TakeResult DEF Enough
<1> HIDE DEF W, H
<1>5. Cardinality(H) = Cardinality(W)
  BY <1>2, <1>3, <1>4
<1>6. f \in Injection(W, H)
  BY <1>1 DEF Injection, IsInjective
<1>7. f \in Surjection(W, H)
  BY <1>2, <1>3, <1>5, <1>6, FS_Injection
<1> QED
  BY <1>1, <1>7 DEF Surjection, W, H

(* What releases ids and forgets configurations leaves none to spare.      *)
LEMMA SpareKept ==
  ASSUME TypeOK, JobInv, SpareInv, \A w \in Workers : Unreserving(w),
         \A id \in Ids : usedBy'[id] = usedBy[id] \/ usedBy'[id] = None,
         \A s \in Stands : config'[s] = config[s] \/ config'[s] = NoConfig
  PROVE  SpareInv'
<1>1. \A s \in Stands : /\ Held(s, Vmids)' \in SUBSET Held(s, Vmids)
                        /\ Held(s, Names)' \in SUBSET Held(s, Names)
  BY StandAssumption DEF Held, Ids
<1>2. ASSUME NEW s \in Stands
      PROVE  Bounded(usedBy', s, VMs, Vmids) /\ Bounded(usedBy', s, Nets, Names)
  <2>1. Cardinality(VMs) \in Nat /\ Cardinality(Nets) \in Nat
    BY StandAssumption, FS_Subset, FS_CardinalityType DEF Items
  <2>2. ASSUME NEW items, NEW pool, Cardinality(items) \in Nat, Bounded(usedBy, s, items, pool),
               Held(s, pool)' \in SUBSET Held(s, pool)
        PROVE  Bounded(usedBy', s, items, pool)
    BY <2>2, FS_Subset, FS_CardinalityType DEF Bounded, Held
  <2> QED
    BY <1>1, <2>1, <2>2 DEF SpareInv
<1>3. ASSUME NEW w \in Workers
      PROVE  /\ pc'[w] \in NamePlaces => Uses(w, VMs, Vmids)'
             /\ pc'[w] = "patch" => Uses(w, Nets, Names)'
  <2>1. CASE pc'[w] \notin NamePlaces
    BY <2>1 DEF NamePlaces
  <2>2. CASE /\ SamePlace(w) /\ job'[w] = job[w] /\ cfg'[w] = cfg[w]
             /\ pc'[w] \in NamePlaces
    <3> DEFINE s == job[w].stand
    <3>1. pc[w] \in NamePlaces /\ (pc'[w] = "patch" => pc[w] = "patch")
      BY <2>2 DEF SamePlace, NamePlaces
    <3>2. s \in Stands
      BY <3>1, JobStand DEF Busy, NamePlaces
    <3>3. /\ Held(s, Vmids)' \in SUBSET Held(s, Vmids)
          /\ Held(s, Names)' \in SUBSET Held(s, Names)
      BY <1>1, <2>2, <3>2 DEF Held
    <3> QED
      BY <2>2, <3>1, <3>3 DEF SpareInv, Uses
  <2> QED
    BY <2>1, <2>2 DEF Unreserving
<1>4. NoSpareIds'
  <2> SUFFICES ASSUME NEW id \in Ids, usedBy'[id] # None, config'[usedBy'[id]] # NoConfig
               PROVE  \E i \in Items : config'[usedBy'[id]][i] = id
    BY DEF NoSpareIds
  <2>1. usedBy'[id] = usedBy[id] /\ usedBy[id] \in Stands
    BY DEF TypeOK
  <2> QED
    BY <2>1 DEF SpareInv, NoSpareIds
<1> QED
  BY <1>2, <1>3, <1>4 DEF SpareInv

LEMMA SpareStep ==
  ASSUME TypeOK, JobInv, ConfigInv, PickedInv, SpareInv, [Next]_vars
  PROVE  SpareInv'
<1> USE StandAssumption
<1>1. ASSUME UNCHANGED <<usedBy, config>>, \A w \in Workers : Unreserving(w)
      PROVE  SpareInv'
  BY <1>1, SpareKept
<1>2. CASE UNCHANGED core
  BY <1>1, <1>2 DEF core, dbVars, localVars, Unreserving, SamePlace
<1>3. ASSUME NEW s \in Stands, CreateInstance(s) \/ ServiceFails(s)
      PROVE  SpareInv'
  <2>1. config' = config
    BY <1>3 DEF CreateInstance, ServiceFails, TypeOK, ConfigInv
  <2> QED
    BY <1>1, <1>3, <2>1 DEF CreateInstance, ServiceFails, Unreserving, SamePlace, localVars
<1>4. ASSUME NEW w \in Workers, NEW t \in Tasks, Take(w, t)
      PROVE  SpareInv'
  <2>1. \A v \in Workers : Unreserving(v)
    BY <1>4 DEF Take, Unreserving, SamePlace, NamePlaces, TypeOK, localVars
  <2> QED
    BY <1>1, <1>4, <2>1 DEF Take, dbVars
<1>5. CASE Crash
  BY <1>1, <1>5 DEF Crash, Unreserving, NamePlaces, dbVars
<1>6. ASSUME NEW w \in Workers,
             \/ ReadInstance(w) \/ SendDeploy(w) \/ SendLost(w) \/ Mark(w) \/ Plan(w)
             \/ FinishDeploy(w) \/ FinishDestroy(w) \/ Fail(w) \/ Stop(w)
             \/ \E i \in Items : ExecuteAction(w, i) \/ ActionFails(w, i)
      PROVE  SpareInv'
  <2>1. UNCHANGED <<config, usedBy>>
    BY <1>6 DEF ReadInstance, SendDeploy, SendLost, AnswerLost, QueueDeploy, Mark, Plan, FinishDeploy,
       FinishDestroy, Fail, Stop, ExecuteAction, ActionFails, dbVars
  <2>2. /\ Leave(w) \/ /\ job' = job
                       /\ pc' = pc \/ \E place : pc' = [pc EXCEPT ![w] = place]
                       /\ cfg' = cfg \/ \E c : cfg' = [cfg EXCEPT ![w] = c]
                       /\ seenRow' = seenRow
        /\ pc'[w] \notin NamePlaces
    BY <1>6 DEF ReadInstance, SendDeploy, SendLost, AnswerLost, QueueDeploy, Mark, Plan, FinishDeploy,
       FinishDestroy, Fail, Stop, ExecuteAction, ActionFails, Goto, Leave, localVars, NamePlaces, TypeOK
  <2>3. \A v \in Workers : Unreserving(v)
    BY <2>2, OthersUnreserving DEF Unreserving
  <2> QED
    BY <1>1, <2>1, <2>3
<1>7. ASSUME NEW w \in Workers, Requests(w) \/ CallFails(w)
      PROVE  SpareInv'
  <2> DEFINE s == job[w].stand
  <2>1. /\ UNCHANGED <<config, job, cfg, seenRow>>
        /\ \E place : pc' = [pc EXCEPT ![w] = place]
        /\ pc'[w] = "fail" \/ SamePlace(w)
    BY <1>7, RequestStep, CallFailsPlace DEF dbVars
  <2>2. \A v \in Workers : Unreserving(v)
    BY <2>1, OthersUnreserving DEF Unreserving, NamePlaces
  <2>3. CASE usedBy' = usedBy
    BY <1>1, <2>1, <2>2, <2>3
  <2>4. CASE ReleaseIds(w)
    <3>1. \A id \in Ids : usedBy'[id] = usedBy[id] \/ usedBy'[id] = None
      BY <2>4 DEF ReleaseIds
    <3> QED
      BY <2>1, <2>2, <3>1, SpareKept
  <2>5. CASE InsertId(w) /\ usedBy' # usedBy
    <3> DEFINE id0 == picked[w]
    <3>1. /\ InLoop(w) /\ id0 \in Pool(w) /\ id0 \in Ids /\ usedBy[id0] = None /\ ~Enough(w)
          /\ usedBy' = [usedBy EXCEPT ![id0] = s] /\ pc' = pc
      BY <2>5, RequestSets DEF InsertId, PickedInv, WorkerPicked
    <3>2. /\ s \in Stands /\ job[w].kind = "allocate" /\ config[s] = NoConfig /\ s # None
          /\ \A u \in Stands : u # None
      BY <3>1, JobStand DEF InLoop, Busy, JobInv, AllocPlaces, ConfigInv, WorkerConfig, NamePlaces
    <3>3. /\ usedBy'[id0] = s
          /\ \A id \in Ids : id # id0 => usedBy'[id] = usedBy[id]
      BY <3>1 DEF TypeOK
    <3>4. NoSpareIds'
      <4> SUFFICES ASSUME NEW id \in Ids, usedBy'[id] # None, config[usedBy'[id]] # NoConfig
                   PROVE  \E i \in Items : config[usedBy'[id]][i] = id
        BY <2>1 DEF NoSpareIds
      <4>1. usedBy'[id] = usedBy[id]
        BY <3>2, <3>3
      <4> QED
        BY <4>1 DEF SpareInv, NoSpareIds
    <3>5. ASSUME NEW u \in Stands, NEW items, NEW pool \in SUBSET Ids,
                 u # s \/ id0 \notin pool, Bounded(usedBy, u, items, pool)
          PROVE  Bounded(usedBy', u, items, pool)
      <4>1. {id \in pool : usedBy'[id] = u} = {id \in pool : usedBy[id] = u}
        BY <3>1, <3>2, <3>3, <3>5
      <4> QED
        BY <3>5, <4>1 DEF Bounded
    <3>6. Bounded(usedBy', s, Wanted(w), Pool(w))
      <4>1. Bounded(usedBy, s, Wanted(w), Pool(w)) /\ Cardinality(Wanted(w)) \in Nat
        BY <3>2, ItemsFinite DEF SpareInv, Wanted, Pool
      <4>2. \A other \in Pool(w) : other # id0 => usedBy'[other] = usedBy[other]
        BY <3>3, RequestSets
      <4>3. ~(Cardinality(Held(s, Pool(w))) >= Cardinality(Wanted(w)))
        BY <3>1 DEF Enough
      <4> QED
        BY <3>1, <3>2, <3>3, <4>1, <4>2, <4>3, InsertBounded
    <3>7. Vmids \in SUBSET Ids /\ Names \in SUBSET Ids /\ Vmids \intersect Names = {}
      BY DEF Ids
    <3>8. \A u \in Stands : Bounded(usedBy', u, VMs, Vmids) /\ Bounded(usedBy', u, Nets, Names)
      <4>1. CASE ForVMs(w)
        <5>1. Wanted(w) = VMs /\ Pool(w) = Vmids /\ id0 \notin Names
          BY <3>1, <3>7, <4>1 DEF Wanted, Pool
        <5> QED
          BY <3>5, <3>6, <3>7, <5>1 DEF SpareInv
      <4>2. CASE ~ForVMs(w)
        <5>1. Wanted(w) = Nets /\ Pool(w) = Names /\ id0 \notin Vmids
          BY <3>1, <3>7, <4>2 DEF Wanted, Pool
        <5> QED
          BY <3>5, <3>6, <3>7, <5>1 DEF SpareInv
      <4> QED
        BY <4>1, <4>2
    <3>9. ASSUME NEW v \in Workers
          PROVE  /\ pc'[v] \in NamePlaces => Uses(v, VMs, Vmids)'
                 /\ pc'[v] = "patch" => Uses(v, Nets, Names)'
      <4>1. CASE v # w
        <5>1. pc[v] \notin AllocPlaces
          BY <3>1, <3>2, <4>1 DEF InLoop, JobInv, SameLock, AllocPlaces, Busy
        <5> QED
          BY <3>1, <5>1 DEF AllocPlaces, NamePlaces
      <4>2. CASE v = w
        <5>1. pc'[w] # "patch" /\ (pc'[w] \in NamePlaces => pc[w] = "nameLoop")
          BY <3>1 DEF InLoop, NamePlaces
        <5>2. pc[w] = "nameLoop" => Held(s, Vmids)' = Held(s, Vmids)
          <6>1. pc[w] = "nameLoop" => id0 \notin Vmids
            BY <3>1, <3>7 DEF Pool, ForVMs
          <6> QED
            BY <2>1, <3>3, <3>7, <6>1 DEF Held
        <5>3. pc[w] = "nameLoop" => Uses(w, VMs, Vmids)
          BY DEF SpareInv, NamePlaces
        <5> QED
          BY <2>1, <4>2, <5>1, <5>2, <5>3 DEF Uses
      <4> QED
        BY <4>1, <4>2
    <3> QED
      BY <3>4, <3>8, <3>9 DEF SpareInv
  <2> QED
    BY <1>7, <2>3, <2>4, <2>5 DEF Requests, RequestIds, LookAtId, CallFails, dbVars
<1>11. ASSUME NEW w \in Workers, TakeIds(w)
       PROVE  SpareInv'
  <2> DEFINE s == job[w].stand
  <2>1. /\ UNCHANGED <<config, usedBy, job>> /\ InLoop(w)
        /\ pc' = [pc EXCEPT ![w] = IF ForVMs(w) THEN "names" ELSE "patch"]
        /\ \E c : cfg' = [cfg EXCEPT ![w] = c]
        /\ \A i \in Items \ Wanted(w) : cfg'[w][i] = cfg[w][i]
    BY <1>11, TakeResult DEF dbVars
  <2>2. \E n : seenRow' = [seenRow EXCEPT ![w] = n]
    BY <1>11 DEF TakeIds
  <2>3. s \in Stands /\ Bounded(usedBy, s, Wanted(w), Pool(w))
    BY <2>1, JobStand DEF InLoop, Busy, SpareInv, Wanted, Pool
  <2>4. \A id \in Held(s, Pool(w)) : \E i \in Wanted(w) : cfg'[w][i] = id
    BY <1>11, <2>3, TakeExact
  <2>5. pc'[w] = (IF ForVMs(w) THEN "names" ELSE "patch")
    BY <2>1 DEF TypeOK
  <2>6. ASSUME NEW v \in Workers
        PROVE  /\ pc'[v] \in NamePlaces => Uses(v, VMs, Vmids)'
               /\ pc'[v] = "patch" => Uses(v, Nets, Names)'
    <3>1. CASE v # w
      <4>1. Unreserving(v)
        BY <2>1, <2>2, <3>1, OthersUnreserving
      <4>2. CASE pc'[v] \notin NamePlaces
        BY <4>2 DEF NamePlaces
      <4>3. CASE SamePlace(v) /\ job'[v] = job[v] /\ cfg'[v] = cfg[v] /\ pc'[v] \in NamePlaces
        <5>1. pc[v] \in NamePlaces /\ (pc'[v] = "patch" => pc[v] = "patch")
          BY <4>3 DEF SamePlace, NamePlaces
        <5> QED
          BY <2>1, <4>3, <5>1 DEF SpareInv, Uses, Held
      <4> QED
        BY <4>1, <4>2, <4>3 DEF Unreserving
    <3>2. CASE v = w /\ ForVMs(w)
      <4>1. Wanted(w) = VMs /\ Pool(w) = Vmids
        BY <3>2 DEF Wanted, Pool
      <4> QED
        BY <2>1, <2>4, <2>5, <3>2, <4>1 DEF Uses, Held
    <3>3. CASE v = w /\ ~ForVMs(w)
      <4>1. Wanted(w) = Nets /\ Pool(w) = Names /\ pc[w] = "nameLoop"
            /\ \A i \in VMs : i \in Items \ Nets
        BY <2>1, <3>3 DEF Wanted, Pool, InLoop, ForVMs, Items
      <4>2. Uses(w, VMs, Vmids)
        BY <4>1 DEF SpareInv, NamePlaces
      <4>3. Uses(w, VMs, Vmids)'
        BY <2>1, <4>1, <4>2 DEF Uses, Held
      <4>4. Uses(w, Nets, Names)'
        BY <2>1, <2>4, <4>1 DEF Uses, Held
      <4> QED
        BY <3>3, <4>3, <4>4
    <3> QED
      BY <3>1, <3>2, <3>3
  <2> QED
    BY <2>1, <2>6 DEF SpareInv, Bounded, NoSpareIds
<1>8. ASSUME NEW w \in Workers, PatchConfig(w) \/ PatchLost(w)
      PROVE  SpareInv'
  <2> DEFINE s == job[w].stand
  <2>1. /\ pc[w] = "patch" /\ Busy(w) /\ s \in Stands
        /\ UNCHANGED <<usedBy, job, cfg, seenRow>>
        /\ \E place : pc' = [pc EXCEPT ![w] = place]
        /\ pc'[w] \notin NamePlaces
        /\ config' = config \/ config' = [config EXCEPT ![s] = cfg[w]]
    BY <1>8, JobStand DEF PatchConfig, PatchLost, AnswerLost, StoreConfig, Goto, Busy, NamePlaces,
       dbVars, localVars, TypeOK
  <2>2. \A v \in Workers : Unreserving(v)
    BY <2>1, OthersUnreserving DEF Unreserving
  <2>3. CASE config' = config
    BY <1>1, <2>1, <2>2, <2>3
  <2>4. CASE config' = [config EXCEPT ![s] = cfg[w]]
    <3>1. Uses(w, VMs, Vmids) /\ Uses(w, Nets, Names)
      BY <2>1 DEF SpareInv, NamePlaces
    <3>2. ASSUME NEW id \in Ids, usedBy[id] = s
          PROVE  \E i \in Items : cfg[w][i] = id
      BY <3>1, <3>2 DEF Uses, Held, Ids, Items
    <3>3. NoSpareIds'
      <4> SUFFICES ASSUME NEW id \in Ids, usedBy[id] # None, config'[usedBy[id]] # NoConfig
                   PROVE  \E i \in Items : config'[usedBy[id]][i] = id
        BY <2>1 DEF NoSpareIds
      <4>1. usedBy[id] \in Stands
        BY DEF TypeOK
      <4>2. CASE usedBy[id] = s
        BY <2>1, <2>4, <3>2, <4>2 DEF TypeOK
      <4>3. CASE usedBy[id] # s
        <5>1. config'[usedBy[id]] = config[usedBy[id]]
          BY <2>4, <4>1, <4>3 DEF TypeOK
        <5> QED
          BY <5>1 DEF SpareInv, NoSpareIds
      <4> QED
        BY <4>2, <4>3
    <3>4. \A u \in Stands : Bounded(usedBy', u, VMs, Vmids) /\ Bounded(usedBy', u, Nets, Names)
      BY <2>1 DEF SpareInv, Bounded, Held
    <3>5. ASSUME NEW v \in Workers
          PROVE  /\ pc'[v] \in NamePlaces => Uses(v, VMs, Vmids)'
                 /\ pc'[v] = "patch" => Uses(v, Nets, Names)'
      BY <2>1, <2>2 DEF Unreserving, SamePlace, NamePlaces, SpareInv, Uses, Held
    <3> QED
      BY <3>3, <3>4, <3>5 DEF SpareInv
  <2> QED
    BY <2>1, <2>3, <2>4
<1>9. ASSUME NEW w \in Workers, DeleteInstance(w) \/ DeleteLost(w)
      PROVE  SpareInv'
  <2> DEFINE s == job[w].stand
  <2>1. /\ s \in Stands
        /\ \/ Leave(w)
           \/ pc' = [pc EXCEPT ![w] = "fail"] /\ UNCHANGED <<job, cfg, seenRow>>
        /\ config' = [config EXCEPT ![s] = NoConfig]
        /\ usedBy' = [id \in Ids |-> IF usedBy[id] = s THEN None ELSE usedBy[id]]
    BY <1>9, JobStand DEF DeleteInstance, DeleteLost, AnswerLost, DropRow, Goto, Busy, localVars
  <2>2. \A v \in Workers : Unreserving(v)
    <3>1. pc'[w] \in {"idle", "fail"}
      BY <2>1, LeaveTypes DEF TypeOK
    <3>2. \A v \in Workers \ {w} : Unreserving(v)
      BY <2>1, OthersUnreserving
    <3> QED
      BY <3>1, <3>2 DEF Unreserving, NamePlaces
  <2>3. \A id \in Ids : usedBy'[id] = usedBy[id] \/ usedBy'[id] = None
    BY <2>1
  <2>4. \A u \in Stands : config'[u] = config[u] \/ config'[u] = NoConfig
    BY <2>1 DEF TypeOK
  <2> QED
    BY <2>2, <2>3, <2>4, SpareKept
<1>10. UNCHANGED vars => UNCHANGED core
  BY DEF core, vars
<1> QED
  BY <1>2, <1>3, <1>4, <1>5, <1>6, <1>7, <1>8, <1>9, <1>10, <1>11,
     Steps DEF Requests

(* A worker about to insert an id keeps it, or has none.                   *)
LEMMA PickedKept ==
  ASSUME TypeOK, JobInv, SpareInv, NEW w \in Workers, WorkerPicked(w),
         \A id \in Ids : usedBy'[id] = usedBy[id] \/ usedBy'[id] = None,
         \/ picked'[w] = None
         \/ pc'[w] = pc[w] /\ job'[w] = job[w] /\ picked'[w] = picked[w]
  PROVE  WorkerPicked(w)'
<1> SUFFICES ASSUME picked'[w] # None
             PROVE  InLoop(w)' /\ picked'[w] \in Pool(w)' /\ usedBy'[picked'[w]] = None /\ ~Enough(w)'
  BY DEF WorkerPicked
<1> DEFINE s == job[w].stand
<1>1. /\ pc'[w] = pc[w] /\ job'[w] = job[w] /\ picked'[w] = picked[w]
      /\ InLoop(w) /\ picked[w] \in Pool(w) /\ usedBy[picked[w]] = None /\ ~Enough(w)
  BY DEF WorkerPicked
<1>2. s \in Stands /\ s # None /\ Pool(w)' = Pool(w) /\ Wanted(w)' = Wanted(w)
      /\ Pool(w) \in SUBSET Ids /\ InLoop(w)'
  BY <1>1, JobStand, RequestSets, StandAssumption DEF InLoop, Busy, Pool, Wanted, ForVMs
<1>3. usedBy'[picked[w]] = None
  BY <1>1, <1>2
<1>4. Held(s, Pool(w))' \in SUBSET Held(s, Pool(w))
  BY <1>1, <1>2 DEF Held
<1>5. IsFiniteSet(Held(s, Pool(w)))
  BY <1>2 DEF SpareInv, Bounded, Pool, Held
<1>6. /\ Cardinality(Held(s, Pool(w))') <= Cardinality(Held(s, Pool(w)))
      /\ Cardinality(Held(s, Pool(w))') \in Nat /\ Cardinality(Held(s, Pool(w))) \in Nat
  BY <1>4, <1>5, FS_Subset, FS_CardinalityType
<1>7. Cardinality(Wanted(w)) \in Nat
  BY ItemsFinite DEF Wanted
<1>8. ~Enough(w)'
  BY <1>1, <1>2, <1>4, <1>6, <1>7 DEF Enough
<1> QED
  BY <1>1, <1>2, <1>3, <1>8

(* A request that is under way has the ids of its kind ahead of it.        *)
LEMMA AheadStep ==
  ASSUME TypeOK, PickedInv, [Next]_vars
  PROVE  \A w \in Workers : WorkerAhead(w)'
<1> DEFINE Kept(v) == \/ pc'[v] \notin {"vmidLoop", "nameLoop"}
                      \/ pc'[v] = pc[v] /\ ahead'[v] \subseteq ahead[v]
<1>1. ASSUME NEW v \in Workers, Kept(v)
      PROVE  WorkerAhead(v)'
  BY <1>1 DEF PickedInv, WorkerAhead, InLoop, Pool, ForVMs
<1>2. ASSUME NEW w \in Workers, NEW place, pc' = [pc EXCEPT ![w] = place], UNCHANGED ahead,
             Kept(w), NEW v \in Workers
      PROVE  Kept(v)
  BY <1>2 DEF TypeOK
<1>3. ASSUME NEW w \in Workers, Leave(w), NEW v \in Workers
      PROVE  Kept(v)
  BY <1>3 DEF Leave, EndRequest, Goto, TypeOK
<1>4. ASSUME UNCHANGED core, NEW v \in Workers
      PROVE  Kept(v)
  BY <1>4 DEF core, localVars, requestVars
<1>5. ASSUME NEW s \in Stands, CreateInstance(s) \/ ServiceFails(s), NEW v \in Workers
      PROVE  Kept(v)
  BY <1>5 DEF CreateInstance, ServiceFails, localVars, requestVars
<1>6. ASSUME NEW w \in Workers, NEW t \in Tasks, Take(w, t), NEW v \in Workers
      PROVE  Kept(v)
  BY <1>6 DEF Take, localVars, requestVars, TypeOK
<1>7. ASSUME Crash, NEW v \in Workers
      PROVE  Kept(v)
  BY <1>7 DEF Crash
<1>8. ASSUME NEW w \in Workers,
             \/ ReadInstance(w) \/ SendDeploy(w) \/ Mark(w) \/ Plan(w) \/ FinishDeploy(w)
             \/ FinishDestroy(w) \/ Fail(w) \/ Stop(w) \/ ReleaseIds(w) \/ DeleteInstance(w)
             \/ PatchConfig(w) \/ AnswerLost(w) \/ \E i \in Items : ActionFails(w, i),
             NEW v \in Workers
      PROVE  Kept(v)
  <2>1. \/ Leave(w)
        \/ /\ UNCHANGED ahead
           /\ \E place \in {"fail", "send", "vmids", "mark", "plan", "exec", "delete"} :
                pc' = [pc EXCEPT ![w] = place]
    BY <1>8 DEF ReadInstance, SendDeploy, Mark, Plan, FinishDeploy, FinishDestroy, Fail, Stop,
       ReleaseIds, DeleteInstance, PatchConfig, AnswerLost, ActionFails, Goto, localVars,
       requestVars
  <2> QED
    BY <1>3, <2>1 DEF TypeOK
<1>9. ASSUME NEW w \in Workers, TakeIds(w) \/ InsertId(w) \/ CallFails(w)
                                \/ (\E id \in Ids : LookAtId(w, id))
                                \/ (\E i \in Items : ExecuteAction(w, i)),
             NEW v \in Workers
      PROVE  Kept(v)
  <2>1. CASE \E i \in Items : ExecuteAction(w, i)
    BY <2>1 DEF ExecuteAction, requestVars
  <2>2. CASE \E id \in Ids : LookAtId(w, id)
    BY <2>2 DEF LookAtId, TypeOK
  <2>3. CASE TakeIds(w) \/ CallFails(w)
    BY <2>3 DEF TakeIds, CallFails, EndRequest, Goto, TypeOK
  <2>4. CASE InsertId(w)
    BY <2>4 DEF InsertId, EndRequest, Goto, TypeOK
  <2> QED
    BY <1>9, <2>1, <2>2, <2>3, <2>4
<1>10. ASSUME NEW w \in Workers, RequestIds(w), NEW v \in Workers
       PROVE  WorkerAhead(v)'
  <2>1. CASE v # w
    <3>1. Kept(v)
      BY <1>10, <2>1 DEF RequestIds, Goto, TypeOK
    <3> QED
      BY <1>1, <3>1
  <2>2. CASE v = w
    <3>1. /\ pc[w] \in {"vmids", "names"}
          /\ \/ pc'[w] = "fail"
             \/ /\ pc'[w] = IF ForVMs(w) THEN "vmidLoop" ELSE "nameLoop"
                /\ ahead'[w] \subseteq Pool(w)
      BY <1>10 DEF RequestIds, Goto, TypeOK
    <3> QED
      BY <2>2, <3>1 DEF WorkerAhead, InLoop, Pool, ForVMs
  <2> QED
    BY <2>1, <2>2
<1>11. UNCHANGED vars => UNCHANGED core
  BY DEF vars, core
<1> HIDE DEF Kept
<1>12. ASSUME \A v \in Workers : Kept(v)
       PROVE  \A v \in Workers : WorkerAhead(v)'
  BY <1>1, <1>12
<1> QED
  BY <1>4, <1>5, <1>6, <1>7, <1>8, <1>9, <1>10, <1>11, <1>12, Steps DEF PatchLost, SendLost,
     DeleteLost

LEMMA PickedStep ==
  ASSUME TypeOK, JobInv, SpareInv, PickedInv, [Next]_vars
  PROVE  PickedInv'
<1> USE StandAssumption
<1> DEFINE Freed == \A id \in Ids : usedBy'[id] = usedBy[id] \/ usedBy'[id] = None
           Steady(v) == \/ picked'[v] = None
                        \/ pc'[v] = pc[v] /\ job'[v] = job[v] /\ picked'[v] = picked[v]
<1>1. ASSUME Freed, \A v \in Workers : Steady(v)
      PROVE  PickedInv'
  BY <1>1, PickedKept, AheadStep DEF PickedInv
<1>2. CASE UNCHANGED core
  BY <1>1, <1>2 DEF core, dbVars, localVars, requestVars
<1>3. ASSUME NEW s \in Stands, CreateInstance(s) \/ ServiceFails(s)
      PROVE  PickedInv'
  BY <1>1, <1>3 DEF CreateInstance, ServiceFails, localVars, requestVars
<1>4. ASSUME NEW w \in Workers, picked[w] # None
      PROVE  InLoop(w) /\ Busy(w)
  BY <1>4 DEF PickedInv, WorkerPicked, InLoop, Busy
<1>5. ASSUME NEW w \in Workers, NEW t \in Tasks, Take(w, t)
      PROVE  PickedInv'
  <2>1. UNCHANGED <<usedBy, picked>> /\ picked[w] = None
        /\ \A v \in Workers \ {w} : pc'[v] = pc[v] /\ job'[v] = job[v]
    BY <1>4, <1>5 DEF Take, dbVars, localVars, requestVars, TypeOK
  <2>2. Freed /\ \A v \in Workers : Steady(v)
    BY <2>1
  <2> HIDE DEF Freed, Steady
  <2> QED
    BY <1>1, <2>2
<1>6. CASE Crash
  <2>1. Freed /\ \A v \in Workers : Steady(v)
    BY <1>6 DEF Crash, dbVars
  <2> HIDE DEF Freed, Steady
  <2> QED
    BY <1>1, <2>1
<1>7. ASSUME NEW w \in Workers,
             /\ \/ Leave(w)
                \/ \E place : pc' = [pc EXCEPT ![w] = place] /\ job' = job
             /\ \/ Leave(w) \/ EndRequest(w)
                \/ picked' = picked /\ picked[w] = None,
             Freed
      PROVE  PickedInv'
  <2>1. picked'[w] = None
    BY <1>7 DEF Leave, EndRequest, requestVars, TypeOK
  <2>2. \A v \in Workers \ {w} : pc'[v] = pc[v] /\ job'[v] = job[v] /\ picked'[v] = picked[v]
    BY <1>7 DEF Leave, EndRequest, Goto, requestVars, TypeOK
  <2>3. Freed /\ \A v \in Workers : Steady(v)
    BY <1>7, <2>1, <2>2
  <2> HIDE DEF Freed, Steady
  <2> QED
    BY <1>1, <2>3
<1>8. ASSUME NEW w \in Workers,
             \/ ReadInstance(w) \/ SendDeploy(w) \/ Mark(w) \/ Plan(w) \/ FinishDeploy(w)
             \/ FinishDestroy(w) \/ Fail(w) \/ CallFails(w) \/ Stop(w) \/ RequestIds(w)
             \/ TakeIds(w) \/ ReleaseIds(w) \/ DeleteInstance(w) \/ PatchConfig(w)
             \/ AnswerLost(w) \/ \E i \in Items : ExecuteAction(w, i) \/ ActionFails(w, i)
      PROVE  PickedInv'
  <2>1. \A id \in Ids : usedBy'[id] = usedBy[id] \/ usedBy'[id] = None
    BY <1>8 DEF ReadInstance, SendDeploy, QueueDeploy, Mark, Plan, FinishDeploy, FinishDestroy, Fail,
       CallFails, Stop, RequestIds, TakeIds, ReleaseIds, DeleteInstance, DropRow, PatchConfig,
       StoreConfig, AnswerLost, ExecuteAction, ActionFails, dbVars
  <2>2. \/ Leave(w)
        \/ \E place : pc' = [pc EXCEPT ![w] = place] /\ job' = job
    <3>1. CASE \E i \in Items : ExecuteAction(w, i)
      BY <3>1 DEF ExecuteAction, TypeOK
    <3>2. CASE TakeIds(w) \/ CallFails(w)
      BY <3>2 DEF TakeIds, CallFails, Goto
    <3>3. CASE ~(TakeIds(w) \/ CallFails(w) \/ \E i \in Items : ExecuteAction(w, i))
      BY <1>8, <3>3 DEF ReadInstance, SendDeploy, Mark, Plan, FinishDeploy, FinishDestroy, Fail,
         Stop, RequestIds, ReleaseIds, DeleteInstance, PatchConfig, AnswerLost, ActionFails, Goto,
         localVars
    <3> QED
      BY <3>1, <3>2, <3>3
  <2>3. \/ Leave(w) \/ EndRequest(w)
        \/ picked' = picked /\ picked[w] = None
    BY <1>4, <1>8 DEF ReadInstance, SendDeploy, Mark, Plan, FinishDeploy, FinishDestroy, Fail,
       CallFails, Stop, RequestIds, TakeIds, ReleaseIds, DeleteInstance, PatchConfig, AnswerLost,
       ExecuteAction, ActionFails, InLoop, localVars, requestVars
  <2> QED
    BY <1>7, <2>1, <2>2, <2>3
<1>9. ASSUME NEW w \in Workers, NEW id \in Ids, LookAtId(w, id)
      PROVE  PickedInv'
  <2>1. /\ UNCHANGED <<usedBy, pc, job>> /\ InLoop(w) /\ ~Enough(w) /\ id \in ahead[w]
        /\ \A v \in Workers \ {w} : picked'[v] = picked[v]
        /\ picked'[w] = IF usedBy[id] = None THEN id ELSE None
    BY <1>9 DEF LookAtId, dbVars, TypeOK
  <2>2. ASSUME NEW v \in Workers \ {w}
        PROVE  WorkerPicked(v)'
    BY <2>1, PickedKept DEF PickedInv
  <2>3. WorkerPicked(w)'
    <3>1. id \in Pool(w)
      BY <2>1 DEF PickedInv, WorkerAhead
    <3>2. InLoop(w)' /\ Pool(w)' = Pool(w) /\ Enough(w)' = Enough(w)
      BY <2>1 DEF InLoop, Pool, Wanted, ForVMs, Enough, Held
    <3> QED
      BY <2>1, <3>1, <3>2 DEF WorkerPicked
  <2> QED
    BY <2>2, <2>3, AheadStep DEF PickedInv
<1>10. ASSUME NEW w \in Workers, InsertId(w)
       PROVE  PickedInv'
  <2>1. InLoop(w) /\ picked'[w] = None /\ \A v \in Workers \ {w} : picked'[v] = picked[v]
    BY <1>10 DEF InsertId, EndRequest, TypeOK
  <2>2. ASSUME NEW v \in Workers \ {w}, picked[v] # None
        PROVE  FALSE
    BY <1>4, <2>1, <2>2 DEF InLoop, JobInv, SameLock, AllocPlaces, Busy
  <2> QED
    BY <2>1, <2>2, AheadStep DEF PickedInv, WorkerPicked
<1>11. UNCHANGED vars => UNCHANGED core
  BY DEF vars, core
<1> QED
  BY <1>2, <1>3, <1>5, <1>6, <1>8, <1>9, <1>10, <1>11, Steps DEF PatchLost, SendLost, DeleteLost

-----------------------------------------------------------------------------
(* What the status says. *)

(* What an update of a status does, whether it is lost or not.             *)
LEMMA StatusSet ==
  ASSUME TypeOK, NEW s \in Stands, NEW status, SetStatus(s, status)
  PROVE  /\ \A u \in Stands : u # s => /\ state'[u] = state[u]
                                       /\ u \in stale' <=> u \in stale
         /\ \/ state'[s] = "none" /\ state[s] = "none"
            \/ state'[s] = status /\ state[s] # "none"
            \/ state'[s] = state[s] /\ s \in stale'
BY DEF SetStatus, TypeOK

StuckAt(s) ==
  state[s] \in {"Deploying", "Destroying"} =>
    s \in stale \/ \E w \in Workers : Underway(w) /\ job[w].stand = s

LEMMA StuckKept ==
  ASSUME StuckExplained, NEW s \in Stands,
         state'[s] \in {"Deploying", "Destroying"} => state'[s] = state[s],
         s \in stale => s \in stale',
         \A w \in Workers : Underway(w) /\ job[w].stand = s =>
                              s \in stale' \/ (Underway(w)' /\ job'[w].stand = s)
  PROVE  StuckAt(s)'
BY DEF StuckExplained, StuckAt

LEMMA StuckStep ==
  ASSUME TypeOK, JobInv, StuckExplained, [Next]_vars
  PROVE  StuckExplained'
<1> SUFFICES ASSUME NEW s \in Stands PROVE StuckAt(s)'
  BY DEF StuckAt, StuckExplained
<1>1. CASE UNCHANGED <<state, pc, job, stale>>
  BY <1>1, StuckKept DEF Underway
<1>2. ASSUME NEW u \in Stands, CreateInstance(u) \/ ServiceFails(u)
      PROVE  StuckAt(s)'
  <2>1. state'[s] \in {"Deploying", "Destroying"} => state'[s] = state[s]
    BY <1>2 DEF CreateInstance, ServiceFails, TypeOK
  <2>2. UNCHANGED <<pc, job, stale>>
    BY <1>2 DEF CreateInstance, ServiceFails, ghostVars
  <2> QED
    BY <2>1, <2>2, StuckKept DEF Underway
<1>3. ASSUME NEW w \in Workers, NEW t \in Tasks, Take(w, t)
      PROVE  StuckAt(s)'
  <2>1. /\ state' = state /\ stale' = stale /\ ~Underway(w)
        /\ \A v \in Workers \ {w} : pc'[v] = pc[v] /\ job'[v] = job[v]
    BY <1>3 DEF Take, TypeOK, dbVars, ghostVars, Busy, Underway
  <2> QED
    BY <2>1, StuckKept DEF Underway
<1>4. CASE Crash
  <2>1. state' = state /\ stale' = stale \union CutOff(Workers)
    BY <1>4 DEF Crash, dbVars
  <2>2. \A w \in Workers : Underway(w) /\ job[w].stand = s => s \in CutOff(Workers)
    BY DEF CutOff
  <2> QED
    BY <2>1, <2>2, StuckKept
<1>5. ASSUME NEW w \in Workers,
             \/ ReadInstance(w) \/ Requests(w) \/ TakeIds(w) \/ PatchConfig(w) \/ PatchLost(w)
             \/ SendDeploy(w) \/ SendLost(w) \/ Plan(w) \/ FinishDestroy(w) \/ CallFails(w)
             \/ \E i \in Items : ExecuteAction(w, i) \/ ActionFails(w, i)
      PROVE  StuckAt(s)'
  <2>1. state' = state /\ stale' = stale
    <3>1. CASE Requests(w) \/ TakeIds(w) \/ CallFails(w)
      BY <3>1, RequestStep, TakeResult, CallFailsPlace DEF dbVars, ghostVars
    <3>2. CASE ~(Requests(w) \/ TakeIds(w) \/ CallFails(w))
      BY <1>5, <3>2 DEF ReadInstance, PatchConfig, PatchLost, StoreConfig, SendDeploy, SendLost,
         AnswerLost, QueueDeploy, Plan, FinishDestroy, ExecuteAction, ActionFails, dbVars, ghostVars
    <3> QED
      BY <3>1, <3>2
  <2>2. \A v \in Workers \ {w} : pc'[v] = pc[v] /\ job'[v] = job[v]
    <3>1. CASE Requests(w) \/ TakeIds(w) \/ CallFails(w)
      <4>1. job' = job /\ \E place : pc' = [pc EXCEPT ![w] = place]
        BY <3>1, RequestStep, TakeResult, CallFailsPlace
      <4> QED
        BY <4>1 DEF TypeOK
    <3>2. CASE ~(Requests(w) \/ TakeIds(w) \/ CallFails(w))
      BY <1>5, <3>2 DEF ReadInstance, PatchConfig, PatchLost, SendDeploy, SendLost, AnswerLost, Plan,
         FinishDestroy, ExecuteAction, ActionFails, Goto, Leave, TypeOK
    <3> QED
      BY <3>1, <3>2
  <2>3. Underway(w) => Underway(w)' /\ job'[w] = job[w]
    <3>1. CASE Plan(w) \/ FinishDestroy(w) \/ CallFails(w)
               \/ \E i \in Items : ExecuteAction(w, i) \/ ActionFails(w, i)
      BY <3>1 DEF Plan, FinishDestroy, CallFails, ExecuteAction, ActionFails, Goto, Underway, TypeOK
    <3>2. CASE Requests(w)
      BY <3>2, RequestStep DEF Underway
    <3>3. CASE TakeIds(w)
      BY <3>3 DEF TakeIds, InLoop, Underway
    <3>4. CASE ReadInstance(w) \/ PatchConfig(w) \/ PatchLost(w) \/ SendDeploy(w) \/ SendLost(w)
      BY <3>4 DEF ReadInstance, PatchConfig, PatchLost, SendDeploy, SendLost, Underway
    <3> QED
      BY <1>5, <3>1, <3>2, <3>3, <3>4
  <2> QED
    BY <2>1, <2>2, <2>3, StuckKept DEF Underway
<1>6. ASSUME NEW w \in Workers, Mark(w)
      PROVE  StuckAt(s)'
  <2> DEFINE u == job[w].stand
  <2>1. /\ u \in Stands /\ job' = job /\ job[w].kind # "allocate"
        /\ \E place \in {"plan", "delete", "fail"} : pc' = [pc EXCEPT ![w] = place]
    BY <1>6, JobStand DEF Mark, Goto, Busy, JobInv, WorkPlaces
  <2>2. Underway(w)' /\ \A v \in Workers : Underway(v) => Underway(v)'
    BY <2>1 DEF Underway, TypeOK
  <2>3. CASE u = s
    BY <2>1, <2>2, <2>3 DEF StuckAt
  <2>4. CASE u # s
    <3>1. state'[s] = state[s] /\ (s \in stale' <=> s \in stale)
      BY <1>6, <2>1, <2>4, StatusSet DEF Mark
    <3> QED
      BY <2>1, <2>2, <3>1, StuckKept
  <2> QED
    BY <2>3, <2>4
<1>7. ASSUME NEW w \in Workers, FinishDeploy(w) \/ Fail(w) \/ DeleteInstance(w)
      PROVE  StuckAt(s)'
  <2> DEFINE u == job[w].stand
  <2>1. /\ u \in Stands /\ Leave(w)
        /\ \A v \in Workers \ {w} : pc'[v] = pc[v] /\ job'[v] = job[v]
    BY <1>7, JobStand DEF FinishDeploy, Fail, DeleteInstance, Busy, Leave, Goto, TypeOK
  <2>2. CASE u = s
    <3>1. state'[s] \in {"none", "Deployed", "Failed"} \/ s \in stale'
      BY <1>7, <2>1, <2>2, StatusSet DEF FinishDeploy, Fail, DeleteInstance, DropRow, TypeOK
    <3> QED
      BY <3>1 DEF StuckAt
  <2>3. CASE u # s
    <3>1. state'[s] = state[s] /\ (s \in stale' <=> s \in stale)
      BY <1>7, <2>1, <2>3, StatusSet DEF FinishDeploy, Fail, DeleteInstance, DropRow, TypeOK
    <3> QED
      BY <2>1, <2>3, <3>1, StuckKept DEF Underway
  <2> QED
    BY <2>2, <2>3
<1>8. ASSUME NEW w \in Workers, Stop(w)
      PROVE  StuckAt(s)'
  <2>1. /\ state' = state /\ stale' = stale \union CutOff({w})
        /\ \A v \in Workers \ {w} : pc'[v] = pc[v] /\ job'[v] = job[v]
    BY <1>8 DEF Stop, Leave, Goto, TypeOK, dbVars
  <2>2. Underway(w) => job[w].stand \in CutOff({w})
    BY DEF CutOff
  <2> QED
    BY <2>1, <2>2, StuckKept DEF Underway
<1>9. ASSUME NEW w \in Workers, DeleteLost(w)
      PROVE  StuckAt(s)'
  <2> DEFINE u == job[w].stand
  <2>1. /\ u \in Stands /\ job' = job /\ job[w].kind # "allocate"
        /\ pc' = [pc EXCEPT ![w] = "fail"]
        /\ state' = [state EXCEPT ![u] = "none"] /\ stale' = stale \ {u}
    BY <1>9, JobStand DEF DeleteLost, AnswerLost, DropRow, Goto, Busy, JobInv, WorkPlaces
  <2>2. CASE u = s
    BY <2>1, <2>2 DEF StuckAt, TypeOK
  <2>3. CASE u # s
    BY <2>1, <2>3, StuckKept DEF Underway, TypeOK
  <2> QED
    BY <2>2, <2>3
<1>10. UNCHANGED core \/ UNCHANGED vars => UNCHANGED <<state, pc, job, stale>>
  BY DEF core, vars, dbVars, ghostVars
<1> QED
  BY <1>1, <1>2, <1>3, <1>4, <1>5, <1>6, <1>7, <1>8, <1>9, <1>10, Steps DEF Requests

(* A stand that is complete, if its status says so.                        *)
CompleteAt(s) ==
  state[s] = "Deployed" /\ s \notin stale =>
    \A i \in Items : config[s][i] # None /\ Exists(config[s][i])

(* The handler that destroys a stand has changed its status or lost that.  *)
LEMMA DestroyingStatus ==
  ASSUME TypeOK, JobInv, [Next]_vars, \A w \in Workers : WorkerStatus(w)
  PROVE  \A w \in Workers : WorkerStatus(w)'
<1> SUFFICES ASSUME NEW v \in Workers PROVE WorkerStatus(v)'
  OBVIOUS
<1> DEFINE Same == /\ pc'[v] = pc[v] /\ job'[v] = job[v]
                   /\ Busy(v) => LET u == job[v].stand IN
                        /\ state'[u] = "Deployed" => state[u] = "Deployed"
                        /\ u \in stale => u \in stale'
<1>1. CASE pc'[v] \notin {"plan", "exec", "delete"} \/ Same
  BY <1>1 DEF WorkerStatus, Destroying, Busy
<1> HIDE DEF Same
<1>2. CASE UNCHANGED <<state, pc, job, stale>>
  BY <1>1, <1>2 DEF Same
<1>3. ASSUME NEW u \in Stands, CreateInstance(u) \/ ServiceFails(u)
      PROVE  WorkerStatus(v)'
  <2>1. Same
    BY <1>3, JobStand DEF Same, CreateInstance, ServiceFails, TypeOK, ghostVars
  <2> QED
    BY <1>1, <2>1
<1>4. ASSUME NEW w \in Workers, NEW t \in Tasks, Take(w, t)
      PROVE  WorkerStatus(v)'
  <2>1. pc'[v] = "read" \/ Same
    BY <1>4 DEF Take, Same, TypeOK, dbVars, ghostVars
  <2> QED
    BY <1>1, <2>1
<1>5. CASE Crash
  BY <1>1, <1>5 DEF Crash
<1>6. ASSUME NEW w \in Workers,
             \/ ReadInstance(w) \/ Requests(w) \/ TakeIds(w) \/ PatchConfig(w) \/ PatchLost(w)
             \/ SendDeploy(w) \/ SendLost(w) \/ Plan(w) \/ FinishDestroy(w) \/ CallFails(w)
             \/ Stop(w) \/ \E i \in Items : ExecuteAction(w, i) \/ ActionFails(w, i)
      PROVE  WorkerStatus(v)'
  <2>1. state' = state /\ stale \subseteq stale'
    <3>1. CASE Requests(w) \/ TakeIds(w) \/ CallFails(w)
      BY <3>1, RequestStep, TakeResult, CallFailsPlace DEF dbVars, ghostVars
    <3>2. CASE ~(Requests(w) \/ TakeIds(w) \/ CallFails(w))
      BY <1>6, <3>2 DEF ReadInstance, PatchConfig, PatchLost, StoreConfig, SendDeploy, SendLost,
         AnswerLost, QueueDeploy, Plan, FinishDestroy, Stop, ExecuteAction, ActionFails, dbVars,
         ghostVars
    <3> QED
      BY <3>1, <3>2
  <2>2. CASE Requests(w) \/ TakeIds(w) \/ CallFails(w)
    <3>1. job' = job /\ \E place : pc' = [pc EXCEPT ![w] = place]
      BY <2>2, RequestStep, TakeResult, CallFailsPlace
    <3>2. pc'[w] \notin {"plan", "exec", "delete"}
      <4>1. CASE Requests(w)
        BY <4>1, RequestStep DEF SamePlace
      <4>2. CASE TakeIds(w)
        BY <4>2 DEF TakeIds, Goto, TypeOK
      <4>3. CASE CallFails(w)
        BY <4>3, CallFailsPlace
      <4> QED
        BY <2>2, <4>1, <4>2, <4>3
    <3>3. pc'[v] \notin {"plan", "exec", "delete"} \/ (pc'[v] = pc[v] /\ job'[v] = job[v])
      BY <3>1, <3>2 DEF TypeOK
    <3> QED
      BY <1>1, <2>1, <3>3 DEF Same
  <2>3. CASE Plan(w) \/ FinishDestroy(w)
    <3>1. job' = job /\ \/ pc'[v] = pc[v]
                        \/ pc[v] \in {"plan", "exec"} /\ pc'[v] \in {"exec", "delete"}
      BY <2>3 DEF Plan, FinishDestroy, Goto, TypeOK
    <3> QED
      BY <2>1, <3>1 DEF WorkerStatus, Destroying
  <2>4. CASE \/ ReadInstance(w) \/ PatchConfig(w) \/ PatchLost(w) \/ SendDeploy(w) \/ SendLost(w)
             \/ Stop(w) \/ \E i \in Items : ExecuteAction(w, i) \/ ActionFails(w, i)
    <3>1. \/ pc'[v] \notin {"plan", "exec", "delete"}
          \/ pc'[v] = pc[v] /\ job'[v] = job[v]
      BY <2>4 DEF ReadInstance, PatchConfig, PatchLost, SendDeploy, SendLost, AnswerLost, Stop,
         ExecuteAction, ActionFails, Leave, Goto, TypeOK
    <3> QED
      BY <1>1, <2>1, <3>1 DEF Same
  <2> QED
    BY <1>6, <2>2, <2>3, <2>4
<1>7. ASSUME NEW w \in Workers,
             \/ Mark(w) \/ FinishDeploy(w) \/ Fail(w) \/ DeleteInstance(w) \/ DeleteLost(w)
      PROVE  WorkerStatus(v)'
  <2> DEFINE s == job[w].stand
  <2>1. s \in Stands /\ Busy(w) /\ job[w] \in Tasks
    BY <1>7, JobStand DEF Mark, FinishDeploy, Fail, DeleteInstance, DeleteLost, Busy
  <2>2. \A u \in Stands : u # s => /\ state'[u] = state[u]
                                   /\ u \in stale' <=> u \in stale
    BY <1>7, <2>1, StatusSet DEF Mark, FinishDeploy, Fail, DeleteInstance, DeleteLost, AnswerLost,
       DropRow, TypeOK
  <2>3. CASE v = w
    <3>1. CASE Mark(w)
      <4>1. Destroying(w) => state'[s] # "Deployed" \/ s \in stale'
        BY <2>1, <3>1, StatusSet DEF Mark
      <4> QED
        BY <2>3, <3>1, <4>1 DEF Mark, WorkerStatus, Destroying
    <3>2. CASE FinishDeploy(w) \/ Fail(w) \/ DeleteInstance(w)
      BY <1>1, <2>3, <3>2, LeaveTypes DEF FinishDeploy, Fail, DeleteInstance, TypeOK
    <3>3. CASE DeleteLost(w)
      BY <1>1, <2>3, <3>3 DEF DeleteLost, AnswerLost, Goto, TypeOK
    <3> QED
      BY <1>7, <3>1, <3>2, <3>3
  <2>4. CASE v # w
    <3>1. pc'[v] = pc[v] /\ job'[v] = job[v]
      BY <1>7, <2>4 DEF Mark, FinishDeploy, Fail, DeleteInstance, DeleteLost, AnswerLost, Leave, Goto,
         TypeOK
    <3>2. CASE pc[v] \notin {"plan", "exec", "delete"}
      BY <1>1, <3>1, <3>2
    <3>3. CASE pc[v] \in {"plan", "exec", "delete"} /\ job[v].stand # s
      <4>1. job[v].stand \in Stands
        BY <3>3, JobStand DEF Busy
      <4>2. Same
        BY <2>2, <3>1, <3>3, <4>1 DEF Same
      <4> QED
        BY <1>1, <4>2
    <3>4. CASE pc[v] \in {"plan", "exec", "delete"} /\ job[v].stand = s
      <4>1. job[w].kind = "allocate" /\ pc[w] = "fail"
        BY <1>7, <2>1, <2>4, <3>4 DEF JobInv, SameLock, Busy, WorkPlaces, Mark, FinishDeploy, Fail,
           DeleteInstance, DeleteLost
      <4>2. state'[s] # "Deployed" \/ s \in stale'
        BY <1>7, <2>1, <4>1, StatusSet DEF Mark, FinishDeploy, Fail, DeleteInstance, DeleteLost
      <4> QED
        BY <3>1, <3>4, <4>2 DEF WorkerStatus
    <3> QED
      BY <3>2, <3>3, <3>4
  <2> QED
    BY <2>3, <2>4
<1>8. UNCHANGED core \/ UNCHANGED vars => UNCHANGED <<state, pc, job, stale>>
  BY DEF core, vars, dbVars, ghostVars
<1> QED
  BY <1>2, <1>3, <1>4, <1>5, <1>6, <1>7, <1>8, Steps DEF Requests

LEMMA CompleteKept ==
  ASSUME DeployedComplete, ~mixed, NEW s \in Stands,
         state'[s] = "Deployed" => state[s] = "Deployed",
         s \in stale => s \in stale',
         config'[s] = config[s],
         state[s] = "Deployed" /\ s \notin stale =>
           \A i \in Items : config[s][i] # None /\ Exists(config[s][i]) => Exists(config[s][i])'
  PROVE  CompleteAt(s)'
BY DEF DeployedComplete, CompleteAt, Exists

(* An action of a transaction leaves complete what is shown as complete.   *)
LEMMA EffectComplete ==
  ASSUME TypeOK, JobInv, ConfigInv, ReserveInv, StatusInv, ~mixed,
         NEW w \in Workers, pc[w] = "exec", NEW i \in Due(w), Effect(w, i),
         UNCHANGED <<state, config, stale>>, NEW u \in Stands
  PROVE  CompleteAt(u)'
<1> DEFINE s == job[w].stand
<1>1. /\ s \in Stands /\ i \in Items /\ cfg[w] = config[s] /\ config[s] # NoConfig
      /\ \A j \in Items : config[s][j] \in Ids
  BY JobStand DEF Busy, Due, TypeOK, ConfigInv, WorkerConfig
<1>2. \A id \in Ids : /\ id # config[s][i] => made'[id] = made[id]
                      /\ ~Destroying(w) /\ made[id] # None => made'[id] # None
  BY <1>1, StandAssumption DEF Effect, TypeOK
<1>3. state[u] = "Deployed" /\ u \notin stale =>
        \A j \in Items : config[u][j] # None /\ Exists(config[u][j]) => Exists(config[u][j])'
  <2> SUFFICES ASSUME state[u] = "Deployed", u \notin stale, NEW j \in Items,
                      config[u][j] # None, Exists(config[u][j])
               PROVE  made'[config[u][j]] # None
    BY DEF Exists
  <2>1. config[u][j] \in Ids
    BY DEF TypeOK
  <2>2. CASE ~Destroying(w)
    BY <1>2, <2>1, <2>2 DEF Exists
  <2>3. CASE Destroying(w)
    <3>1. u # s
      BY <2>3 DEF StatusInv, WorkerStatus
    <3>2. config[u][j] # config[s][i]
      BY <1>1, <3>1, Disjoint DEF DisjointConfigs, ReserveInv
    <3> QED
      BY <1>2, <2>1, <3>2 DEF Exists
  <2> QED
    BY <2>2, <2>3
<1>4. DeployedComplete
  BY DEF StatusInv
<1> QED
  BY <1>3, <1>4, CompleteKept

LEMMA CompleteStep ==
  ASSUME TypeOK, JobInv, ConfigInv, ReserveInv, WorkInv, StatusInv, [Next]_vars
  PROVE  DeployedComplete'
<1> SUFFICES ASSUME ~mixed', NEW s \in Stands PROVE CompleteAt(s)'
  BY DEF DeployedComplete, CompleteAt, Exists
<1>1. DeployedComplete
  BY DEF StatusInv
<1>2. CASE UNCHANGED <<state, config, made, mixed, stale>>
  BY <1>1, <1>2, CompleteKept DEF Exists
<1>3. ASSUME NEW u \in Stands, CreateInstance(u) \/ ServiceFails(u)
      PROVE  CompleteAt(s)'
  <2>1. UNCHANGED <<made, mixed, stale>>
    BY <1>3 DEF CreateInstance, ServiceFails, ghostVars
  <2>2. /\ state'[s] = "Deployed" => state[s] = "Deployed"
        /\ config'[s] = config[s]
    BY <1>3 DEF CreateInstance, ServiceFails, TypeOK, ConfigInv
  <2> QED
    BY <1>1, <2>1, <2>2, CompleteKept DEF Exists
<1>4. ASSUME NEW w \in Workers, NEW t \in Tasks, Take(w, t)
      PROVE  UNCHANGED <<state, config, made, mixed, stale>>
  BY <1>4 DEF Take, dbVars, ghostVars
<1>5. ASSUME NEW w \in Workers,
             \/ ReadInstance(w) \/ Requests(w) \/ TakeIds(w) \/ SendDeploy(w) \/ SendLost(w)
             \/ Plan(w) \/ FinishDestroy(w) \/ CallFails(w)
      PROVE  UNCHANGED <<state, config, made, mixed, stale>>
  <2>1. CASE Requests(w) \/ TakeIds(w) \/ CallFails(w)
    BY <2>1, RequestStep, TakeResult, CallFailsPlace DEF dbVars, ghostVars
  <2>2. CASE ReadInstance(w) \/ SendDeploy(w) \/ SendLost(w) \/ Plan(w) \/ FinishDestroy(w)
    BY <2>2 DEF ReadInstance, SendDeploy, SendLost, AnswerLost, QueueDeploy, Plan, FinishDestroy,
       dbVars, ghostVars
  <2> QED
    BY <1>5, <2>1, <2>2
<1>6. ASSUME Crash \/ \E w \in Workers : Stop(w)
      PROVE  CompleteAt(s)'
  <2>1. UNCHANGED <<state, config, made, mixed>> /\ stale \subseteq stale'
    BY <1>6 DEF Crash, Stop, dbVars
  <2> QED
    BY <1>1, <2>1, CompleteKept DEF Exists
<1>7. ASSUME NEW w \in Workers, PatchConfig(w) \/ PatchLost(w)
      PROVE  CompleteAt(s)'
  <2> DEFINE u == job[w].stand
  <2>1. /\ UNCHANGED <<state, made, stale>> /\ ~mixed /\ u \in Stands /\ config[u] = NoConfig
        /\ config' = config \/ config' = [config EXCEPT ![u] = cfg[w]]
    BY <1>7, JobStand DEF PatchConfig, PatchLost, AnswerLost, StoreConfig, NamePlaces, Busy, ConfigInv,
       WorkerConfig, TypeOK, dbVars, ghostVars
  <2>2. CASE config'[s] = config[s]
    BY <1>1, <2>1, <2>2, CompleteKept DEF Exists
  <2>3. CASE u = s
    <3>1. state[s] = "Deployed" /\ s \notin stale => \A i \in Items : config[s][i] # None
      BY <1>1, <2>1 DEF DeployedComplete
    <3>2. state[s] = "Deployed" /\ s \notin stale => Items = {}
      BY <2>1, <2>3, <3>1 DEF NoConfig
    <3> QED
      BY <2>1, <3>2 DEF CompleteAt
  <2> QED
    BY <2>1, <2>2, <2>3 DEF TypeOK
<1>8. ASSUME NEW w \in Workers, Mark(w) \/ Fail(w)
      PROVE  CompleteAt(s)'
  <2> DEFINE u == job[w].stand
  <2>1. UNCHANGED <<config, made, mixed>> /\ u \in Stands
    BY <1>8, JobStand DEF Mark, Fail, Busy
  <2>2. CASE s # u
    <3>1. state'[s] = state[s] /\ (s \in stale' <=> s \in stale)
      BY <1>8, <2>1, <2>2, StatusSet DEF Mark, Fail
    <3> QED
      BY <1>1, <2>1, <3>1, CompleteKept DEF Exists
  <2>3. CASE s = u
    <3>1. state'[s] # "Deployed" \/ s \in stale'
      BY <1>8, <2>1, <2>3, StatusSet DEF Mark, Fail
    <3> QED
      BY <3>1 DEF CompleteAt
  <2> QED
    BY <2>2, <2>3
<1>9. ASSUME NEW w \in Workers, FinishDeploy(w)
      PROVE  CompleteAt(s)'
  <2> DEFINE u == job[w].stand
  <2>1. /\ UNCHANGED <<config, made, mixed>> /\ u \in Stands /\ pc[w] = "exec"
        /\ todo[w] = {} /\ ~Destroying(w) /\ SetStatus(u, "Deployed")
    BY <1>9, JobStand DEF FinishDeploy, Complete, Busy
  <2>2. CASE s # u
    <3>1. state'[s] = state[s] /\ (s \in stale' <=> s \in stale)
      BY <2>1, <2>2, StatusSet
    <3> QED
      BY <1>1, <2>1, <3>1, CompleteKept DEF Exists
  <2>3. CASE s = u
    <3>1. config[s] # NoConfig /\ cfg[w] = config[s]
      BY <2>1, <2>3 DEF ConfigInv, WorkerConfig
    <3>2. \A i \in Items : config[s][i] \in Ids
      BY <3>1 DEF ConfigInv
    <3>3. \A i \in Items : Exists(config[s][i])
      BY <2>1, <3>1 DEF WorkInv, WorkerWork
    <3> QED
      BY <2>1, <3>2, <3>3, StandAssumption DEF CompleteAt, Exists
  <2> QED
    BY <2>2, <2>3
<1>10. ASSUME NEW w \in Workers, DeleteInstance(w) \/ DeleteLost(w)
       PROVE  CompleteAt(s)'
  <2> DEFINE u == job[w].stand
  <2>1. /\ u \in Stands /\ state' = [state EXCEPT ![u] = "none"] /\ stale' = stale \ {u}
        /\ config' = [config EXCEPT ![u] = NoConfig] /\ UNCHANGED <<made, mixed>>
    BY <1>10, JobStand DEF DeleteInstance, DeleteLost, AnswerLost, DropRow, Busy
  <2>2. CASE s # u
    BY <1>1, <2>1, <2>2, CompleteKept DEF Exists, TypeOK
  <2>3. CASE s = u
    BY <2>1, <2>3 DEF CompleteAt, TypeOK
  <2> QED
    BY <2>2, <2>3
<1>11. ASSUME NEW w \in Workers, NEW i \in Items, ExecuteAction(w, i) \/ ActionFails(w, i)
       PROVE  CompleteAt(s)'
  <2>1. /\ UNCHANGED <<state, config, mixed, stale>> /\ pc[w] = "exec" /\ i \in Due(w)
        /\ Effect(w, i) \/ made' = made
    BY <1>11 DEF ExecuteAction, ActionFails, dbVars, ghostVars
  <2>2. CASE made' = made
    BY <1>2, <2>1, <2>2
  <2>3. CASE Effect(w, i)
    BY <2>1, <2>3, EffectComplete
  <2> QED
    BY <2>1, <2>2, <2>3
<1>12. UNCHANGED core \/ UNCHANGED vars => UNCHANGED <<state, config, made, mixed, stale>>
  BY DEF core, vars, dbVars, ghostVars
<1> QED
  BY <1>2, <1>3, <1>4, <1>5, <1>6, <1>7, <1>8, <1>9, <1>10, <1>11, <1>12, Steps DEF Requests

-----------------------------------------------------------------------------
(* The stands keep their invariant, whatever the handlers of allocateNode, *)
(* deployInstance and destroyInstance and their failures do.               *)
THEOREM StandInvariant == Spec => []StandInv
<1>1. Init => StandInv
  BY InitStand
<1>2. StandInv /\ [Next]_vars => StandInv'
  <2> SUFFICES ASSUME StandInv, [Next]_vars PROVE StandInv'
    OBVIOUS
  <2>1. TypeOK' /\ JobInv'
    BY TypeStep, JobStep DEF StandInv
  <2>2. ConfigInv' /\ ReserveInv'
    BY <2>1, ConfigStep, ReserveStep DEF StandInv
  <2>3. WorkInv'
    BY WorkStep DEF StandInv
  <2>4. StatusInv'
    BY StuckStep, DestroyingStatus, CompleteStep DEF StandInv, StatusInv
  <2>5. PickedInv' /\ SpareInv'
    BY PickedStep, SpareStep DEF StandInv
  <2> QED
    BY <2>1, <2>2, <2>3, <2>4, <2>5 DEF StandInv
<1> QED
  BY <1>1, <1>2, PTL DEF Spec

(* The variables of the stands, of the reservations and of the workers     *)
(* keep their types.                                                       *)
THEOREM TypeCorrect == Spec => []TypeOK
<1>1. StandInv => TypeOK
  BY DEF StandInv
<1> QED
  BY <1>1, StandInvariant, PTL

(* requestDeploymentVMID and requestDeploymentNetworks never give two      *)
(* stands one VMID or one network name, for any number of stands, pools    *)
(* of any size and any failures of the calls, as long as no stand was      *)
(* destroyed and created again during its allocation.                      *)
THEOREM DisjointTheorem == Spec => []DisjointConfigs
<1>1. StandInv => DisjointConfigs
  BY Disjoint DEF StandInv, ReserveInv
<1> QED
  BY <1>1, StandInvariant, PTL

(* destroyInstance deletes a row only when nothing of its stand is left on *)
(* PVE, and what deployInstance creates is in the stored configuration.    *)
THEOREM NoOrphansTheorem == Spec => []NoOrphans
<1>1. StandInv => NoOrphans
  BY DEF StandInv, WorkInv, NoOrphans
<1> QED
  BY <1>1, StandInvariant, PTL

(* deployInstance shows a stand as Deployed only when all its VMs and      *)
(* networks exist, and no handler of another stand takes one away.         *)
THEOREM DeployedTheorem == Spec => []DeployedComplete
<1>1. StandInv => DeployedComplete
  BY DEF StandInv, StatusInv
<1> QED
  BY <1>1, StandInvariant, PTL

(* Only a lost update of the status or a handler that was stopped leaves a *)
(* stand Deploying or Destroying with no handler behind it.                *)
THEOREM StuckTheorem == Spec => []StuckExplained
<1>1. StandInv => StuckExplained
  BY DEF StandInv, StatusInv
<1> QED
  BY <1>1, StandInvariant, PTL

(* requestDeploymentVMID and requestDeploymentNetworks give a stand again  *)
(* what it has: repeated and broken allocations take no ids out of the     *)
(* pools that the stored configuration does not use.                       *)
THEOREM SpareTheorem == Spec => []NoSpareIds
<1>1. StandInv => NoSpareIds
  BY DEF StandInv, SpareInv
<1> QED
  BY <1>1, StandInvariant, PTL
=============================================================================
