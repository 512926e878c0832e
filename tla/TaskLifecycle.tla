--------------------------- MODULE TaskLifecycle ---------------------------
(***************************************************************************)
(* What labforge promises of a background task: an accepted task is        *)
(* handled at most once between two restarts of jobservice, and two tasks  *)
(* on the same lock key are not handled at the same time unless one of     *)
(* them overran its lease.  TaskQueue implements this specification.       *)
(***************************************************************************)

CONSTANTS Tasks,  \* the tasks
          KeyOf,  \* the lock key of each task
          None    \* the key of a task that takes no lock

VARIABLES phase,   \* absent, pending, running, settled or lost
          overran  \* running tasks whose lease has run out

vars == <<phase, overran>>

Init == phase = [t \in Tasks |-> "absent"] /\ overran = {}

Running == {t \in Tasks : phase[t] = "running"}

Accept(t) ==
  /\ phase[t] = "absent"
  /\ phase' = [phase EXCEPT ![t] = "pending"]
  /\ UNCHANGED overran

(* Handling starts when no task that still has its lease uses the key, or  *)
(* when the lease of this task is over already.                            *)
Start(t) ==
  /\ phase[t] = "pending"
  /\ phase' = [phase EXCEPT ![t] = "running"]
  /\ \/ /\ \A u \in Running \ overran : KeyOf[u] = None \/ KeyOf[u] # KeyOf[t]
        /\ UNCHANGED overran
     \/ overran' = overran \union {t}

Settle(t) ==
  /\ phase[t] \in {"pending", "running"}
  /\ phase' = [phase EXCEPT ![t] = "settled"]
  /\ overran' = overran \ {t}

Overrun(t) ==
  /\ phase[t] = "running"
  /\ overran' = overran \union {t}
  /\ UNCHANGED phase

(* A restart puts running tasks back; some pending ones may be lost.       *)
Restart ==
  /\ \E lost \in SUBSET {t \in Tasks : phase[t] = "pending"} :
       phase' = [t \in Tasks |-> CASE t \in lost -> "lost"
                                   [] phase[t] = "running" -> "pending"
                                   [] OTHER -> phase[t]]
  /\ overran' = {}

Next == \/ \E t \in Tasks : Accept(t) \/ Start(t) \/ Settle(t) \/ Overrun(t)
        \/ Restart

Spec == Init /\ [][Next]_vars
=============================================================================
