---------------------------- MODULE VmPortsProofs ----------------------------
(***************************************************************************)
(* The properties of VmPorts for every set of users, requests and names    *)
(* and every policy.  PortInv is the inductive invariant.                  *)
(***************************************************************************)
EXTENDS VmPorts, FiniteSetTheorems, TLAPS

Checked == {"locks", "request", "send", "insert", "accepted"}

SameUser(r, s) == r # s /\ UserOf[r] = UserOf[s]

(* A request that inserts its row while a rival's row exists looked for it *)
(* before it was there, when both were past the request key.               *)
TaskInv ==
  /\ \A r \in Requests : row[r] # "none" => stage[r] = "accepted"
  /\ \A r, s \in Requests :
       SameUser(r, s) /\ Sending(r) /\ Sending(s) => {r, s} \in slipped
  /\ \A r, s \in Requests :
       SameUser(r, s) /\ row[r] # "none" /\ stage[s] = "insert" => {r, s} \in slipped
  /\ OneTaskPerUser

(* A request was allowed by the list it has read, and a handler executes   *)
(* one action at most.                                                     *)
WorkInv ==
  /\ \A r \in Requests : passed[r] => stage[r] \in RateStages
  /\ \A r \in Requests : stage[r] \in {"rate", "list"} \union Checked => name[r] \in Names
  /\ \A r \in Requests : stage[r] \in Checked => Allowed(r, seen[r])
  /\ \A r \in Requests : worker = r => stage[r] = "accepted" /\ row[r] # "queued"
  /\ \A r \in blind : /\ stage[r] = "accepted"
                      /\ row[r] # "queued"
                      /\ worker = r => ~todo
  /\ todo => worker \in Requests /\ (op[worker] = "take" => name[worker] \notin NamesIn(snaps))

SnapInv ==
  /\ \A s, t \in snaps : s.name = t.name => s = t
  /\ IsFiniteSet(snaps) /\ IsFiniteSet(blind)
  /\ QuotaExplained

PortInv == TypeOK /\ TaskInv /\ WorkInv /\ SnapInv

-----------------------------------------------------------------------------
LEMMA InitPortInv == Init => PortInv
<1> SUFFICES ASSUME Init PROVE PortInv
  OBVIOUS
<1> USE PortAssumption
<1>1. TypeOK
  BY DEF Init, TypeOK, RateStages, Ended, Ops
<1>2. TaskInv
  BY DEF Init, TaskInv, OneTaskPerUser, Sending
<1>3. WorkInv
  BY DEF Init, WorkInv, Checked
<1>4. SnapInv
  <2>1. Usermade(snaps) = {} /\ BlindTakes = {} /\ snaps = {} /\ blind = {}
    BY DEF Init, Usermade, BlindTakes
  <2> QED
    BY <2>1, FS_EmptySet DEF SnapInv, QuotaExplained
<1> QED
  BY <1>1, <1>2, <1>3, <1>4 DEF PortInv

(* Every step of a request or of a handler, by name.                       *)
LEMMA Steps ==
  ASSUME Next
  PROVE \/ \E r \in Requests :
             \/ Start(r) \/ CheckRate(r) \/ SetRate(r) \/ ChooseName(r)
             \/ ListSnapshots(r) \/ AskLock(r) \/ Fail(r) \/ CheckConflict(r)
             \/ InsertRow(r) \/ StartTask(r) \/ Execute(r) \/ DeleteRow(r)
             \/ Unlock(r) \/ DropRow(r)
        \/ \E k \in RateStages \X Users : ExpireKey(k)
BY DEF Next

LEMMA TypeStep ==
  ASSUME TypeOK, WorkInv, [Next]_vars
  PROVE  TypeOK'
<1> USE PortAssumption
<1>1. CASE UNCHANGED vars
  BY <1>1 DEF TypeOK, vars, requestVars, workVars
<1>2. ASSUME NEW k \in RateStages \X Users, ExpireKey(k) PROVE TypeOK'
  BY <1>2 DEF TypeOK, ExpireKey, requestVars, workVars
<1>3. ASSUME NEW r \in Requests, Start(r) PROVE TypeOK'
  BY <1>3 DEF TypeOK, Start, Goto, workVars, RateStages
<1>4. ASSUME NEW r \in Requests, CheckRate(r) PROVE TypeOK'
  <2>1. \A s \in Rivals(r) : {r, s} \in SUBSET Requests
    BY DEF Rivals
  <2>2. slipped' \subseteq SUBSET Requests
    BY <1>4, <2>1 DEF TypeOK, CheckRate
  <2> QED
    BY <1>4, <2>2 DEF TypeOK, CheckRate, Goto, workVars, Ended
<1>5. ASSUME NEW r \in Requests, SetRate(r) PROVE TypeOK'
  <2>1. passed[r] => stage[r] \in RateStages
    BY DEF WorkInv
  <2> QED
    BY <1>5, <2>1 DEF TypeOK, SetRate, Goto, workVars, RateStages, RateKey
<1>6. ASSUME NEW r \in Requests, ChooseName(r) PROVE TypeOK'
  BY <1>6 DEF TypeOK, ChooseName, Goto, workVars, RateStages, Ended
<1>7. ASSUME NEW r \in Requests, ListSnapshots(r) PROVE TypeOK'
  BY <1>7 DEF TypeOK, ListSnapshots, Goto, workVars, Ended
<1>8. ASSUME NEW r \in Requests, AskLock(r) \/ Fail(r) \/ CheckConflict(r) PROVE TypeOK'
  BY <1>8 DEF TypeOK, AskLock, Fail, CheckConflict, Goto, workVars, Ended, RateStages
<1>9. ASSUME NEW r \in Requests, InsertRow(r) PROVE TypeOK'
  BY <1>9 DEF TypeOK, InsertRow, Goto, workVars, Ended
<1>10. ASSUME NEW r \in Requests, StartTask(r) PROVE TypeOK'
  <2>1. Needed(r) \in BOOLEAN
    BY DEF Needed, TypeOK, Ops
  <2> QED
    BY <1>10, <2>1 DEF TypeOK, StartTask, requestVars
<1>11. ASSUME NEW r \in Requests, Execute(r) PROVE TypeOK'
  <2>1. name[r] \in Names
    BY <1>11 DEF Execute, WorkInv, Checked
  <2>2. snaps' \subseteq Snapshots
    <3>1. [name |-> name[r], desc |-> Comment(r)] \in Snapshots
      BY <2>1 DEF Comment, Snapshots
    <3> QED
      BY <1>11, <3>1 DEF Execute, TypeOK
  <2> QED
    BY <1>11, <2>2 DEF TypeOK, Execute, requestVars
<1>12. ASSUME NEW r \in Requests, DeleteRow(r) \/ Unlock(r) \/ DropRow(r) PROVE TypeOK'
  BY <1>12 DEF TypeOK, DeleteRow, Unlock, DropRow, requestVars, workVars
<1> QED
  BY <1>1, <1>2, <1>3, <1>4, <1>5, <1>6, <1>7, <1>8, <1>9, <1>10, <1>11, <1>12, Steps

(* A step that moves one request along, and inserts nothing.               *)
LEMMA TaskKept ==
  ASSUME TaskInv, NEW r \in Requests, row' = row, slipped' = slipped,
         row[r] = "none", stage'[r] # "insert", Sending(r)' => Sending(r),
         \A s \in Requests \ {r} : stage'[s] = stage[s] /\ passed'[s] = passed[s]
  PROVE  TaskInv'
<1>1. \A s \in Requests : Sending(s)' => Sending(s)
  BY DEF Sending
<1>2. \A s \in Requests : stage'[s] = "insert" => stage[s] = "insert"
  OBVIOUS
<1>3. \A s \in Requests : row[s] # "none" => stage'[s] = stage[s]
  OBVIOUS
<1> QED
  BY <1>1, <1>2, <1>3 DEF TaskInv, OneTaskPerUser

LEMMA TaskStep ==
  ASSUME TypeOK, WorkInv, TaskInv, [Next]_vars
  PROVE  TaskInv'
<1> USE DEF TypeOK, TaskInv, OneTaskPerUser, SameUser, Sending
<1>1. CASE UNCHANGED vars
  BY <1>1 DEF vars, requestVars, workVars
<1>2. ASSUME NEW k \in RateStages \X Users, ExpireKey(k) PROVE TaskInv'
  BY <1>2 DEF ExpireKey, requestVars, workVars
<1>3. ASSUME NEW r \in Requests, Start(r) PROVE TaskInv'
  <2>1. ~passed[r] /\ row[r] = "none"
    BY <1>3 DEF Start, WorkInv, RateStages
  <2>2. stage'[r] \in {"noname", "rate"} /\ passed' = passed
    BY <1>3 DEF Start, Goto
  <2>3. \A s \in Requests \ {r} : stage'[s] = stage[s]
    BY <1>3 DEF Start, Goto
  <2> QED
    <3>1. row' = row /\ slipped' = slipped /\ ~Sending(r)' /\ stage'[r] # "insert"
      BY <1>3, <2>1, <2>2 DEF Start
    <3>2. \A s \in Requests \ {r} : stage'[s] = stage[s] /\ passed'[s] = passed[s]
      BY <2>2, <2>3
    <3> QED
      BY <2>1, <3>1, <3>2, TaskKept
<1>4. ASSUME NEW r \in Requests, CheckRate(r) PROVE TaskInv'
  <2>1. \A s \in Rivals(r) : stage[r] = "request" /\ passed'[r] => {r, s} \in slipped'
    BY <1>4 DEF CheckRate, Goto, RateStages
  <2>2. slipped \subseteq slipped'
    BY <1>4 DEF CheckRate
  <2>3. \A s \in Requests \ {r} : passed'[s] = passed[s] /\ stage'[s] = stage[s]
    BY <1>4 DEF CheckRate, Goto
  <2>4. row' = row /\ UserOf' = UserOf
    BY <1>4 DEF CheckRate
  <2>5. stage'[r] \in RateStages \union {"refused"} /\ stage[r] \in RateStages
    BY <1>4 DEF CheckRate, Goto
  <2>6. stage'[r] # "insert" /\ (Sending(r)' => passed'[r] /\ stage[r] = "request")
    BY <1>4, <2>5 DEF CheckRate, Goto, RateStages
  <2>7. \A s \in Requests \ {r} : Sending(s)' = Sending(s)
    BY <2>3
  <2>8. \A s \in Requests : row[s] # "none" => s # r
    BY <2>5 DEF RateStages
  <2>9. \A s, t \in Requests : SameUser(s, t) /\ Sending(s)' /\ Sending(t)'
           => {s, t} \in slipped'
    <3> SUFFICES ASSUME NEW s \in Requests, NEW t \in Requests, SameUser(s, t),
                        Sending(s)', Sending(t)'
                 PROVE  {s, t} \in slipped'
      OBVIOUS
    <3>1. CASE s # r /\ t # r
      BY <3>1, <2>2, <2>7
    <3>2. CASE s = r
      <4>1. t \in Rivals(r)
        BY <3>2, <2>7 DEF Rivals
      <4> QED
        BY <3>2, <4>1, <2>1, <2>6
    <3>3. CASE t = r
      <4>1. s \in Rivals(r)
        BY <3>3, <2>7 DEF Rivals
      <4>2. {r, s} \in slipped' /\ {s, t} = {r, s}
        BY <3>3, <4>1, <2>1, <2>6
      <4> QED
        BY <4>2
    <3> QED
      BY <3>1, <3>2, <3>3
  <2> QED
    BY <2>2, <2>3, <2>4, <2>6, <2>8, <2>9
<1>5. ASSUME NEW r \in Requests, SetRate(r) PROVE TaskInv'
  <2>1. stage[r] \in RateStages /\ row[r] = "none"
    BY <1>5 DEF SetRate, WorkInv, RateStages
  <2>2. /\ stage'[r] \in {"choose", "list", "send"}
        /\ stage'[r] = "send" => stage[r] = "request" /\ passed[r]
        /\ ~passed'[r]
    BY <1>5 DEF SetRate, Goto
  <2>3. \A s \in Requests \ {r} : stage'[s] = stage[s] /\ passed'[s] = passed[s]
    BY <1>5 DEF SetRate, Goto
  <2> QED
    BY <1>5, <2>1, <2>2, <2>3, TaskKept DEF SetRate
<1>6. ASSUME NEW r \in Requests, ChooseName(r) PROVE TaskInv'
  BY <1>6 DEF ChooseName, Goto, workVars
<1>7. ASSUME NEW r \in Requests, ListSnapshots(r) PROVE TaskInv'
  BY <1>7 DEF ListSnapshots, Goto, workVars
<1>8. ASSUME NEW r \in Requests, AskLock(r) PROVE TaskInv'
  <2>1. ~passed[r] /\ row[r] = "none"
    BY <1>8 DEF AskLock, WorkInv, RateStages
  <2>2. stage'[r] = "request" /\ passed' = passed
    BY <1>8 DEF AskLock, Goto
  <2>3. \A s \in Requests \ {r} : stage'[s] = stage[s]
    BY <1>8 DEF AskLock, Goto
  <2> QED
    BY <1>8, <2>1, <2>2, <2>3, TaskKept DEF AskLock
<1>9. ASSUME NEW r \in Requests, Fail(r) PROVE TaskInv'
  BY <1>9 DEF Fail, Goto, workVars, InProgress, Ended
<1>10. ASSUME NEW r \in Requests, CheckConflict(r) PROVE TaskInv'
  <2>1. row[r] = "none" /\ Sending(r)
    BY <1>10 DEF CheckConflict
  <2>2. \A s \in Requests \ {r} : stage'[s] = stage[s]
    BY <1>10 DEF CheckConflict, Goto
  <2>3. row' = row /\ slipped' = slipped /\ passed' = passed
    BY <1>10 DEF CheckConflict, workVars
  <2>4. CASE ConflictKeyTaken(r)
    <3>1. stage'[r] = "refused" /\ ~passed[r]
      BY <1>10, <2>4 DEF CheckConflict, Goto, WorkInv, RateStages
    <3> QED
      BY <2>1, <2>2, <2>3, <3>1, TaskKept
  <2>5. CASE ~ConflictKeyTaken(r)
    <3>1. stage'[r] = "insert"
      BY <1>10, <2>5 DEF CheckConflict, Goto
    <3>2. \A s \in Requests : row[s] # "none" => UserOf[s] # UserOf[r]
      BY <2>5 DEF ConflictKeyTaken
    <3>3. \A s \in Requests : Sending(s)' => Sending(s)
      BY <2>1, <2>2, <2>3
    <3> QED
      BY <2>1, <2>2, <2>3, <3>1, <3>2, <3>3
  <2> QED
    BY <2>4, <2>5
<1>11. ASSUME NEW r \in Requests, InsertRow(r) PROVE TaskInv'
  BY <1>11 DEF InsertRow, Goto, workVars
<1>12. ASSUME NEW r \in Requests, StartTask(r) PROVE TaskInv'
  BY <1>12 DEF StartTask, requestVars
<1>13. ASSUME NEW r \in Requests, Execute(r) PROVE TaskInv'
  BY <1>13 DEF Execute, requestVars
<1>14. ASSUME NEW r \in Requests, DeleteRow(r) \/ Unlock(r) \/ DropRow(r) PROVE TaskInv'
  BY <1>14 DEF DeleteRow, Unlock, DropRow, requestVars, workVars
<1> QED
  BY <1>1, <1>2, <1>3, <1>4, <1>5, <1>6, <1>7, <1>8, <1>9, <1>10, <1>11, <1>12,
     <1>13, <1>14, Steps

LEMMA AllowedKept ==
  ASSUME NEW s \in Requests,
         op'[s] = op[s], name'[s] = name[s], seen'[s] = seen[s], Allowed(s, seen[s])
  PROVE  Allowed(s, seen[s])'
BY DEF Allowed, MayTake, MayDelete, MayRollback

(* A step of a request that has no task yet.                               *)
LEMMA RequestMoves ==
  ASSUME WorkInv, NEW r \in Requests, stage[r] # "accepted",
         worker' = worker, todo' = todo, snaps' = snaps, blind' = blind,
         blind \subseteq Requests,
         \A s \in Requests \ {r} :
           /\ stage'[s] = stage[s] /\ passed'[s] = passed[s] /\ row'[s] = row[s]
           /\ op'[s] = op[s] /\ name'[s] = name[s] /\ seen'[s] = seen[s],
         passed'[r] => stage'[r] \in RateStages,
         stage'[r] \in {"rate", "list"} \union Checked => name'[r] \in Names,
         stage'[r] \in Checked => Allowed(r, seen[r])'
  PROVE  WorkInv'
<1>1. r # worker /\ r \notin blind
  BY DEF WorkInv
<1>2. \A s \in Requests : stage'[s] \in Checked => Allowed(s, seen[s])'
  BY AllowedKept DEF WorkInv
<1>3. \A s \in Requests : /\ passed'[s] => stage'[s] \in RateStages
                          /\ stage'[s] \in {"rate", "list"} \union Checked
                               => name'[s] \in Names
  BY DEF WorkInv
<1>4. \A s \in Requests : worker = s => stage'[s] = "accepted" /\ row'[s] # "queued"
  BY <1>1 DEF WorkInv
<1>5. \A s \in blind : /\ stage'[s] = "accepted"
                       /\ row'[s] # "queued"
                       /\ worker = s => ~todo
  BY <1>1 DEF WorkInv
<1>6. todo => /\ worker \in Requests
              /\ op'[worker] = "take" => name'[worker] \notin NamesIn(snaps)
  BY <1>1 DEF WorkInv
<1> QED
  BY <1>2, <1>3, <1>4, <1>5, <1>6 DEF WorkInv

LEMMA WorkStep ==
  ASSUME TypeOK, WorkInv, TaskInv, [Next]_vars
  PROVE  WorkInv'
<1> USE PortAssumption DEF TypeOK, Checked
<1>1. CASE UNCHANGED vars
  BY <1>1 DEF WorkInv, Allowed, MayTake, MayDelete, MayRollback, vars, requestVars, workVars
<1>2. ASSUME NEW k \in RateStages \X Users, ExpireKey(k) PROVE WorkInv'
  BY <1>2 DEF WorkInv, Allowed, MayTake, MayDelete, MayRollback, ExpireKey, requestVars, workVars
<1>3. ASSUME NEW r \in Requests, Start(r) PROVE WorkInv'
  <2>1. stage'[r] \in {"noname", "rate"} /\ (stage'[r] = "rate" => name'[r] \in Names)
    BY <1>3 DEF Start, Goto
  <2>2. stage[r] # "accepted" /\ (passed'[r] => stage'[r] \in RateStages)
    BY <1>3, <2>1 DEF Start, RateStages
  <2>3. \A s \in Requests \ {r} :
          stage'[s] = stage[s] /\ op'[s] = op[s] /\ name'[s] = name[s]
    BY <1>3 DEF Start, Goto
  <2>4. UNCHANGED <<passed, seen, row, worker, todo, snaps, blind>>
    BY <1>3 DEF Start, workVars
  <2> QED
    BY <2>1, <2>2, <2>3, <2>4, RequestMoves
<1>4. ASSUME NEW r \in Requests, CheckRate(r) PROVE WorkInv'
  <2>1. /\ stage[r] \in RateStages
        /\ stage'[r] = "refused" => ~passed'[r]
        /\ stage'[r] \in {stage[r], "refused"}
    BY <1>4 DEF CheckRate, Goto, RateStages
  <2>2. \A s \in Requests \ {r} : stage'[s] = stage[s] /\ passed'[s] = passed[s]
    BY <1>4 DEF CheckRate, Goto
  <2>3. UNCHANGED <<op, name, seen, row, worker, todo, snaps, blind>>
    BY <1>4 DEF CheckRate, workVars
  <2>4. /\ passed'[r] => stage'[r] \in RateStages
        /\ stage'[r] \in {"rate", "list"} \union Checked => name'[r] \in Names
        /\ stage'[r] \in Checked => Allowed(r, seen[r])'
    BY <2>1, <2>3, AllowedKept DEF WorkInv
  <2> QED
    <3>1. stage[r] # "accepted"
      BY <2>1 DEF RateStages
    <3> QED
      BY <3>1, <2>2, <2>3, <2>4, RequestMoves
<1>5. ASSUME NEW r \in Requests, SetRate(r) PROVE WorkInv'
  <2>1. /\ ~passed'[r] /\ stage[r] # "accepted"
        /\ stage'[r] = "list" => stage[r] = "rate"
        /\ stage'[r] = "send" => stage[r] = "request"
        /\ stage'[r] \in {"choose", "list", "send"}
    BY <1>5 DEF SetRate, Goto
  <2>2. \A s \in Requests \ {r} : stage'[s] = stage[s] /\ passed'[s] = passed[s]
    BY <1>5 DEF SetRate, Goto
  <2>3. UNCHANGED <<op, name, seen, row, worker, todo, snaps, blind>>
    BY <1>5 DEF SetRate, workVars
  <2>4. /\ stage'[r] \in {"rate", "list"} \union Checked => name'[r] \in Names
        /\ stage'[r] \in Checked => Allowed(r, seen[r])'
    BY <2>1, <2>3, AllowedKept DEF WorkInv
  <2> QED
    BY <2>1, <2>2, <2>3, <2>4, RequestMoves
<1>6. ASSUME NEW r \in Requests, ChooseName(r) PROVE WorkInv'
  <2>1. /\ stage[r] = "choose" /\ ~passed[r]
        /\ stage'[r] \in {"refused", "rate"}
        /\ stage'[r] = "rate" => name'[r] \in Names
    BY <1>6 DEF ChooseName, Goto, WorkInv, RateStages
  <2>2. \A s \in Requests \ {r} : stage'[s] = stage[s] /\ name'[s] = name[s]
    BY <1>6 DEF ChooseName, Goto
  <2>3. UNCHANGED <<passed, op, seen, row, worker, todo, snaps, blind>>
    BY <1>6 DEF ChooseName, workVars
  <2>4. /\ stage[r] # "accepted" /\ ~passed'[r] /\ stage'[r] \notin Checked
        /\ stage'[r] \in {"rate", "list"} => name'[r] \in Names
    BY <2>1, <2>3
  <2> QED
    BY <2>2, <2>3, <2>4, RequestMoves
<1>7. ASSUME NEW r \in Requests, ListSnapshots(r) PROVE WorkInv'
  <2>1. /\ stage[r] = "list" /\ ~passed[r]
        /\ stage'[r] \in {"refused", "locks"}
        /\ stage'[r] = "locks" => Allowed(r, snaps)
        /\ seen'[r] = snaps
    BY <1>7 DEF ListSnapshots, Goto, WorkInv, RateStages
  <2>2. \A s \in Requests \ {r} : stage'[s] = stage[s] /\ seen'[s] = seen[s]
    BY <1>7 DEF ListSnapshots, Goto
  <2>3. UNCHANGED <<passed, op, name, row, worker, todo, snaps, blind>>
    BY <1>7 DEF ListSnapshots, workVars
  <2>4. stage'[r] \in Checked => Allowed(r, seen[r])'
    BY <2>1, <2>3 DEF Allowed, MayTake, MayDelete, MayRollback, IsAdmin
  <2>5. name'[r] \in Names
    BY <2>1, <2>3 DEF WorkInv
  <2> QED
    BY <2>1, <2>2, <2>3, <2>4, <2>5, RequestMoves
<1>8. ASSUME NEW r \in Requests, AskLock(r) \/ Fail(r) \/ CheckConflict(r) PROVE WorkInv'
  <2>1. /\ stage[r] # "accepted"
        /\ stage'[r] \in {"request", "insert"} => stage[r] \in Checked
        /\ stage'[r] \in {"request", "insert", "refused"}
        /\ passed'[r] => stage'[r] \in RateStages
    BY <1>8 DEF AskLock, Fail, CheckConflict, Goto, InProgress, Ended, WorkInv, RateStages
  <2>2. \A s \in Requests \ {r} : stage'[s] = stage[s] /\ passed'[s] = passed[s]
    BY <1>8 DEF AskLock, Fail, CheckConflict, Goto
  <2>3. UNCHANGED <<op, name, seen, row, worker, todo, snaps, blind>>
    BY <1>8 DEF AskLock, Fail, CheckConflict, workVars
  <2>4. /\ stage'[r] \in {"rate", "list"} \union Checked => name'[r] \in Names
        /\ stage'[r] \in Checked => Allowed(r, seen[r])'
    BY <2>1, <2>3, AllowedKept DEF WorkInv
  <2> QED
    BY <2>1, <2>2, <2>3, <2>4, RequestMoves
<1>9. ASSUME NEW r \in Requests, InsertRow(r) PROVE WorkInv'
  <2>1. /\ stage[r] = "insert" /\ stage'[r] = "accepted" /\ ~passed[r]
    BY <1>9 DEF InsertRow, Goto, WorkInv, RateStages
  <2>2. \A s \in Requests \ {r} : stage'[s] = stage[s] /\ row'[s] = row[s]
    BY <1>9 DEF InsertRow, Goto
  <2>3. UNCHANGED <<passed, op, name, seen, worker, todo, snaps, blind>>
    BY <1>9 DEF InsertRow, workVars
  <2>4. name'[r] \in Names /\ Allowed(r, seen[r])'
    BY <2>1, <2>3, AllowedKept DEF WorkInv
  <2> QED
    BY <2>1, <2>2, <2>3, <2>4, RequestMoves
<1>10. ASSUME NEW r \in Requests, StartTask(r) PROVE WorkInv'
  <2>1. worker' = r /\ row[r] = "queued" /\ stage[r] = "accepted" /\ row'[r] = "running"
    BY <1>10 DEF StartTask, TaskInv
  <2>2. UNCHANGED <<stage, passed, op, name, seen, snaps, blind>>
    BY <1>10 DEF StartTask, requestVars
  <2>3. \A s \in Requests \ {r} : row'[s] = row[s]
    BY <1>10 DEF StartTask
  <2>4. todo' => (op[r] = "take" => name[r] \notin NamesIn(snaps))
    BY <1>10 DEF StartTask, Needed
  <2>5. r \notin blind
    BY <2>1 DEF WorkInv
  <2>6. \A s \in Requests : stage'[s] \in Checked => Allowed(s, seen[s])'
    BY <2>2, AllowedKept DEF WorkInv
  <2>7. NamesIn(snaps)' = NamesIn(snaps)
    BY <2>2 DEF NamesIn
  <2> QED
    BY <2>1, <2>2, <2>3, <2>4, <2>5, <2>6, <2>7 DEF WorkInv
<1>11. ASSUME NEW r \in Requests, Execute(r) PROVE WorkInv'
  <2>1. worker = r /\ ~todo' /\ stage[r] = "accepted" /\ row[r] # "queued"
    BY <1>11 DEF Execute, WorkInv
  <2>2. UNCHANGED <<stage, passed, op, name, seen, row, worker>> /\ blind' \subseteq blind \union {r}
    BY <1>11 DEF Execute, requestVars
  <2>3. \A s \in Requests : stage'[s] \in Checked => Allowed(s, seen[s])'
    BY <2>2, AllowedKept DEF WorkInv
  <2> QED
    BY <2>1, <2>2, <2>3 DEF WorkInv
<1>12. ASSUME NEW r \in Requests, DeleteRow(r) \/ DropRow(r) PROVE WorkInv'
  <2>1. /\ UNCHANGED <<stage, passed, op, name, seen, worker, todo, snaps, blind>>
        /\ \A s \in Requests : row'[s] \in {row[s], "none"}
    BY <1>12 DEF DeleteRow, DropRow, requestVars, workVars
  <2>2. \A s \in Requests : stage'[s] \in Checked => Allowed(s, seen[s])'
    BY <2>1, AllowedKept DEF WorkInv
  <2>3. NamesIn(snaps)' = NamesIn(snaps)
    BY <2>1 DEF NamesIn
  <2> QED
    BY <2>1, <2>2, <2>3 DEF WorkInv
<1>13. ASSUME NEW r \in Requests, Unlock(r) PROVE WorkInv'
  <2>1. UNCHANGED <<stage, passed, op, name, seen, row, blind>> /\ worker' = None /\ ~todo'
    BY <1>13 DEF Unlock, requestVars
  <2>2. \A s \in Requests : stage'[s] \in Checked => Allowed(s, seen[s])'
    BY <2>1, AllowedKept DEF WorkInv
  <2> QED
    BY <2>1, <2>2 DEF WorkInv
<1> QED
  BY <1>1, <1>2, <1>3, <1>4, <1>5, <1>6, <1>7, <1>8, <1>9, <1>10, <1>11, <1>12,
     <1>13, Steps

(* One more snapshot of a user, by a handler that finds what was checked   *)
(* or is counted as blind.                                                 *)
LEMMA TakeCounts ==
  ASSUME TypeOK, WorkInv, SnapInv, NEW r \in Requests, Execute(r), op[r] = "take",
         snaps' = snaps \union {[name |-> name[r], desc |-> Comment(r)]}
  PROVE  QuotaExplained'
<1> USE PortAssumption
<1> DEFINE new == [name |-> name[r], desc |-> Comment(r)]
<1>1. IsFiniteSet(Usermade(snaps)) /\ IsFiniteSet(BlindTakes)
  <2>1. Usermade(snaps) \subseteq snaps /\ BlindTakes \subseteq blind
    BY DEF Usermade, BlindTakes
  <2> QED
    BY <2>1, FS_Subset DEF SnapInv
<1>2. Cardinality(Usermade(snaps)) \in Nat /\ Cardinality(BlindTakes) \in Nat
  BY <1>1, FS_CardinalityType
<1>3. worker = r /\ todo /\ stage[r] = "accepted" /\ r \notin blind
  BY DEF Execute, WorkInv
<1>4. op' = op
  BY DEF Execute, requestVars
<1>5. Cardinality(Usermade(snaps)) <= Quota + Cardinality(BlindTakes)
  BY DEF SnapInv, QuotaExplained
<1>6. CASE IsAdmin(r)
  <2>1. Usermade(snaps') = Usermade(snaps)
    <3>1. new.desc # "usermade"
      BY <1>6 DEF Comment
    <3> HIDE DEF new
    <3>2. snaps' = snaps \union {new}
      BY DEF new
    <3> QED
      BY <3>1, <3>2 DEF Usermade
  <2>2. BlindTakes' = BlindTakes
    BY <1>6, <1>4 DEF BlindTakes, Execute, IsAdmin
  <2> QED
    BY <1>5, <2>1, <2>2 DEF QuotaExplained
<1>7. CASE ~IsAdmin(r)
  <2>1. Usermade(snaps') \subseteq Usermade(snaps) \union {new}
    BY DEF Usermade
  <2>2. /\ IsFiniteSet(Usermade(snaps) \union {new})
        /\ Cardinality(Usermade(snaps) \union {new}) <= Cardinality(Usermade(snaps)) + 1
    <3> HIDE DEF new
    <3>1. /\ IsFiniteSet(Usermade(snaps) \union {new})
          /\ \/ Cardinality(Usermade(snaps) \union {new}) = Cardinality(Usermade(snaps))
             \/ Cardinality(Usermade(snaps) \union {new}) = Cardinality(Usermade(snaps)) + 1
      BY <1>1, FS_AddElement
    <3> QED
      BY <1>2, <3>1
  <2>3. /\ Cardinality(Usermade(snaps')) <= Cardinality(Usermade(snaps)) + 1
        /\ Cardinality(Usermade(snaps')) \in Nat
    <3>1. /\ IsFiniteSet(Usermade(snaps'))
          /\ Cardinality(Usermade(snaps')) <= Cardinality(Usermade(snaps) \union {new})
      BY <2>1, <2>2, FS_Subset
    <3>2. /\ Cardinality(Usermade(snaps')) \in Nat
          /\ Cardinality(Usermade(snaps) \union {new}) \in Nat
      BY <2>2, <3>1, FS_CardinalityType
    <3> QED
      BY <1>2, <2>2, <3>1, <3>2
  <2>4. CASE seen[r] = snaps
    <3>1. Cardinality(Usermade(snaps)) < Quota
      BY <1>3, <1>7, <2>4 DEF WorkInv, Checked, Allowed, MayTake
    <3>2. BlindTakes' = BlindTakes
      BY <2>4, <1>4 DEF BlindTakes, Execute, IsAdmin
    <3> QED
      BY <1>2, <2>3, <3>1, <3>2 DEF QuotaExplained
  <2>5. CASE seen[r] # snaps
    <3>1. BlindTakes' = BlindTakes \union {r} /\ r \notin BlindTakes
      BY <2>5, <1>3, <1>4, <1>7 DEF BlindTakes, Execute, IsAdmin
    <3>2. Cardinality(BlindTakes') = Cardinality(BlindTakes) + 1
      BY <1>1, <3>1, FS_AddElement
    <3> QED
      BY <1>2, <1>5, <2>3, <3>2 DEF QuotaExplained
  <2> QED
    BY <2>4, <2>5
<1> QED
  BY <1>6, <1>7

LEMMA SnapStep ==
  ASSUME TypeOK, WorkInv, SnapInv, [Next]_vars
  PROVE  SnapInv'
<1>1. CASE UNCHANGED <<op, snaps, blind>>
  BY <1>1 DEF SnapInv, QuotaExplained, Usermade, BlindTakes, IsAdmin
<1>2. ASSUME NEW r \in Requests, Start(r) PROVE SnapInv'
  <2>1. snaps' = snaps /\ blind' = blind /\ r \notin blind
    BY <1>2 DEF Start, workVars, WorkInv
  <2>2. \A s \in blind : op'[s] = op[s]
    BY <1>2, <2>1 DEF Start, TypeOK
  <2>3. BlindTakes' = BlindTakes
    BY <2>1, <2>2 DEF BlindTakes, IsAdmin
  <2> QED
    BY <2>1, <2>3 DEF SnapInv, QuotaExplained, Usermade
<1>3. ASSUME NEW r \in Requests, Execute(r) PROVE SnapInv'
  <2>1. worker = r /\ todo /\ op' = op
    BY <1>3 DEF Execute, requestVars
  <2>2. IsFiniteSet(blind') /\ BlindTakes \subseteq BlindTakes'
    BY <1>3, <2>1, FS_AddElement DEF Execute, SnapInv, BlindTakes, IsAdmin
  <2>3. /\ IsFiniteSet(Usermade(snaps)) /\ IsFiniteSet(BlindTakes')
        /\ Cardinality(Usermade(snaps)) \in Nat
        /\ Cardinality(BlindTakes) \in Nat /\ Cardinality(BlindTakes') \in Nat
        /\ Cardinality(BlindTakes) <= Cardinality(BlindTakes')
    <3>1. Usermade(snaps) \subseteq snaps /\ BlindTakes' \subseteq blind'
      BY DEF Usermade, BlindTakes
    <3>2. IsFiniteSet(Usermade(snaps)) /\ IsFiniteSet(BlindTakes')
      BY <2>2, <3>1, FS_Subset DEF SnapInv
    <3>3. IsFiniteSet(BlindTakes) /\ Cardinality(BlindTakes) <= Cardinality(BlindTakes')
      BY <2>2, <3>2, FS_Subset
    <3> QED
      BY <3>2, <3>3, FS_CardinalityType
  <2>4. CASE snaps' \subseteq snaps
    <3>1. IsFiniteSet(snaps')
      BY <2>4, FS_Subset DEF SnapInv
    <3>2. Usermade(snaps') \subseteq Usermade(snaps)
      BY <2>4 DEF Usermade
    <3>3. /\ Cardinality(Usermade(snaps')) <= Cardinality(Usermade(snaps))
          /\ Cardinality(Usermade(snaps')) \in Nat
      BY <2>3, <3>2, FS_Subset, FS_CardinalityType
    <3>4. QuotaExplained'
      BY <2>3, <3>3, PortAssumption DEF SnapInv, QuotaExplained
    <3>5. \A s, t \in snaps' : s.name = t.name => s = t
      BY <2>4 DEF SnapInv
    <3> QED
      BY <2>2, <3>1, <3>4, <3>5 DEF SnapInv
  <2>5. CASE /\ op[r] = "take"
             /\ snaps' = snaps \union {[name |-> name[r], desc |-> Comment(r)]}
    <3>1. QuotaExplained'
      BY <1>3, <2>5, TakeCounts
    <3>2. IsFiniteSet(snaps')
      BY <2>5, FS_AddElement DEF SnapInv
    <3>3. \A s \in snaps : s.name # name[r]
      BY <2>1, <2>5 DEF WorkInv, NamesIn
    <3>4. \A s, t \in snaps' : s.name = t.name => s = t
      BY <2>5, <3>3 DEF SnapInv
    <3> QED
      BY <2>2, <3>1, <3>2, <3>4 DEF SnapInv
  <2> QED
    BY <1>3, <2>4, <2>5 DEF Execute
<1>4. CASE UNCHANGED vars
  BY <1>1, <1>4 DEF vars, requestVars, workVars
<1>5. ASSUME NEW k \in RateStages \X Users, ExpireKey(k) PROVE SnapInv'
  BY <1>1, <1>5 DEF ExpireKey, requestVars, workVars
<1>6. ASSUME NEW r \in Requests,
             \/ CheckRate(r) \/ SetRate(r) \/ ChooseName(r) \/ ListSnapshots(r)
             \/ AskLock(r) \/ Fail(r) \/ CheckConflict(r) \/ InsertRow(r)
             \/ StartTask(r) \/ DeleteRow(r) \/ Unlock(r) \/ DropRow(r)
      PROVE  SnapInv'
  BY <1>1, <1>6 DEF CheckRate, SetRate, ChooseName, ListSnapshots, AskLock, Fail,
     CheckConflict, InsertRow, StartTask, DeleteRow, Unlock, DropRow, requestVars, workVars
<1> QED
  BY <1>2, <1>3, <1>4, <1>5, <1>6, Steps

(* What a handler removes.                                                 *)
LEMMA ExecuteKeeps ==
  ASSUME PortInv, NEW r \in Requests, Execute(r), NEW s \in snaps, s \notin snaps',
         s.desc = ""
  PROVE  IsAdmin(worker) \/ DeleteAny \/ seen[worker] # snaps
<1> SUFFICES ASSUME ~IsAdmin(worker), ~DeleteAny, seen[worker] = snaps PROVE FALSE
  OBVIOUS
<1>1. worker = r /\ stage[r] = "accepted"
  BY DEF Execute, PortInv, WorkInv
<1>2. op[r] = "delete" /\ snaps' = {x \in snaps : x.name # name[r]}
  BY DEF Execute
<1>3. s.name = name[r]
  BY <1>2
<1>4. Allowed(r, snaps)
  BY <1>1 DEF PortInv, WorkInv, Checked
<1>5. name[r] \in NamesIn(Usermade(snaps))
  BY <1>1, <1>2, <1>4 DEF Allowed, MayDelete
<1>6. PICK t \in snaps : t.desc = "usermade" /\ t.name = s.name
  BY <1>3, <1>5 DEF NamesIn, Usermade
<1>7. t = s
  BY <1>6 DEF PortInv, SnapInv
<1> QED
  BY <1>6, <1>7

-----------------------------------------------------------------------------
(* PortInv holds in every state.                                           *)
THEOREM PortInvariant == Spec => []PortInv
<1>1. PortInv /\ [Next]_vars => PortInv'
  BY TypeStep, TaskStep, WorkStep, SnapStep DEF PortInv
<1> QED
  BY InitPortInv, <1>1, PTL DEF Spec

(* The variables keep their types.                                         *)
THEOREM TypeCorrect == Spec => []TypeOK
BY PortInvariant, PTL DEF PortInv

(* Two unfinished tasks of one user mean that both requests were past the  *)
(* request key at a time (redisRateLockWrapper, sendMessage).              *)
THEOREM OneTaskTheorem == Spec => []OneTaskPerUser
<1>1. PortInv => OneTaskPerUser
  BY DEF PortInv, TaskInv
<1> QED
  BY <1>1, PortInvariant, PTL

(* The quota is exceeded by no more than the snapshots of requests that    *)
(* were checked against an older list (takeVMPortSnapshot).                *)
THEOREM QuotaTheorem == Spec => []QuotaExplained
<1>1. PortInv => QuotaExplained
  BY DEF PortInv, SnapInv
<1> QED
  BY <1>1, PortInvariant, PTL

(* No snapshot of an administrator is deleted for a user without the right *)
(* to, but for a list that is out of date (deleteVMPortSnapshot).          *)
THEOREM OthersKeptTheorem == Spec => OthersKept
<1> DEFINE Kept == \A s \in snaps \ snaps' :
                     s.desc = "" => \/ IsAdmin(worker) \/ DeleteAny
                                    \/ seen[worker] # snaps
<1>1. ASSUME PortInv, [Next]_vars PROVE Kept
  <2>1. CASE snaps' = snaps
    BY <2>1
  <2>2. ASSUME NEW r \in Requests, Execute(r) PROVE Kept
    BY <1>1, <2>2, ExecuteKeeps
  <2>3. CASE UNCHANGED vars
    BY <2>1, <2>3 DEF vars, workVars
  <2>4. ASSUME NEW k \in RateStages \X Users, ExpireKey(k) PROVE Kept
    BY <2>1, <2>4 DEF ExpireKey, workVars
  <2>5. ASSUME NEW r \in Requests,
               \/ Start(r) \/ CheckRate(r) \/ SetRate(r) \/ ChooseName(r)
               \/ ListSnapshots(r) \/ AskLock(r) \/ Fail(r) \/ CheckConflict(r)
               \/ InsertRow(r) \/ StartTask(r) \/ DeleteRow(r) \/ Unlock(r) \/ DropRow(r)
        PROVE  Kept
    <3>1. snaps' = snaps
      BY <2>5 DEF Start, CheckRate, SetRate, ChooseName, ListSnapshots, AskLock, Fail,
         CheckConflict, InsertRow, StartTask, DeleteRow, Unlock, DropRow, workVars
    <3> QED
      BY <2>1, <3>1
  <2> HIDE DEF Kept
  <2> QED
    BY <1>1, <2>2, <2>3, <2>4, <2>5, Steps
<1>2. PortInv /\ [Next]_vars => [Kept]_vars
  BY <1>1
<1> QED
  BY <1>2, PortInvariant, PTL DEF Spec, OthersKept
=============================================================================
