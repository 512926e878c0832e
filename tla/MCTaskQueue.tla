---------------------------- MODULE MCTaskQueue ----------------------------
(* A first task and a destruction with one lock key, and a third task; the *)
(* configuration chooses the first (a deployment, but for one run) and the *)
(* third.                                                                  *)
EXTENDS TaskQueue, TLC

CONSTANTS t1, t2, t3, stand1, other, FirstKind, ThirdKind, ThirdKey, Duplicate

MCKind == [t \in Tasks |-> CASE t = t1 -> FirstKind
                             [] t = t2 -> "destroy"
                             [] t = t3 -> ThirdKind]

MCKeyOf == [t \in Tasks |-> IF t = t3 THEN ThirdKey ELSE stand1]

(* When Duplicate is TRUE all requests carry the same conflict key, which  *)
(* sendMessage accepts from any caller; else none has one, as those that   *)
(* deploy and destroy stands.  The first case has all behaviours of the    *)
(* rows of the second: both requests may look for the key before either    *)
(* inserts its row, at any time.                                           *)
MCConflict == [t \in Tasks |-> IF Duplicate THEN other ELSE None]

Symmetry == Permutations(Workers)
=============================================================================
