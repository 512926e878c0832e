----------------------------- MODULE RedisLock -----------------------------
(***************************************************************************)
(* redisNXLockWrapper of libraries/redis-utils: one lock key, set with     *)
(* SET key ts NX EX lockTime and removed by a script that compares the     *)
(* stored value with the caller's ts.                                      *)
(*                                                                         *)
(* The value ts is the caller's clock, in whole seconds, plus lockTime: it *)
(* is not unique by construction.  That a caller whose lease ran out never *)
(* removes the key of the next holder therefore rests on timing, which the *)
(* model keeps: a second passes with Tick, the key expires LockTime        *)
(* seconds after Redis executes SET, and SET executes up to MaxDelay       *)
(* seconds after ts was computed.                                          *)
(***************************************************************************)
EXTENDS Integers

CONSTANTS Clients,   \* threads that call the wrapper with this key
          NoClient,  \* writer of an absent key
          LockTime,  \* the lockTime argument, in seconds (600 and 5 in the code)
          MaxDelay,  \* longest time from reading the clock to Redis executing SET
          MaxTime    \* bound of the clock

ASSUME LockAssumption ==
  /\ NoClient \notin Clients
  /\ LockTime \in Nat \ {0}
  /\ MaxDelay \in Nat
  /\ MaxDelay < LockTime
  /\ MaxTime \in Nat

VARIABLES now,       \* clock, in seconds (getUnixIntTime)
          writer,    \* who set the key that Redis holds, NoClient if it holds none
          value,     \* the stored value of the key
          deadline,  \* when Redis drops the key
          phase,     \* where each client is in the wrapper
          ts         \* the client's variable ts

vars == <<now, writer, value, deadline, phase, ts>>

Init ==
  /\ now = 0
  /\ writer = NoClient
  /\ value = 0
  /\ deadline = 0
  /\ phase = [c \in Clients |-> "outside"]
  /\ ts = [c \in Clients |-> 0]

KeyExists == writer # NoClient

DropKey ==
  /\ writer' = NoClient
  /\ UNCHANGED <<value, deadline>>

(* ts <- getTime + lockTime, before the request is sent.                   *)
ReadClock(c) ==
  /\ phase[c] = "outside"
  /\ phase' = [phase EXCEPT ![c] = "requesting"]
  /\ ts' = [ts EXCEPT ![c] = now + LockTime]
  /\ UNCHANGED <<now, writer, value, deadline>>

(* SET ... NX finds no key: Redis stores ts and the client runs onFree.    *)
SetNX(c) ==
  /\ phase[c] = "requesting"
  /\ ~KeyExists
  /\ writer' = c
  /\ value' = ts[c]
  /\ deadline' = now + LockTime
  /\ phase' = [phase EXCEPT ![c] = "inside"]
  /\ UNCHANGED <<now, ts>>

(* The nil reply, or an unexpected one when the key is free: onLocked runs *)
(* without the lock.                                                       *)
Locked(c) ==
  /\ phase[c] = "requesting"
  /\ phase' = [phase EXCEPT ![c] = "outside"]
  /\ UNCHANGED <<now, writer, value, deadline, ts>>

(* Mutant of SameValue: whatever is stored is deleted, as the older wrapper *)
(* redisLockWrapper does.                                                  *)
AnyValue(c) == KeyExists /\ ts[c] # 0

(* The stored value equals the caller's ts.                                *)
SameValue(c) == KeyExists /\ value = ts[c]

(* onFree returned: the script deletes the key if the values are equal.    *)
Unlock(c) ==
  /\ phase[c] = "inside"
  /\ phase' = [phase EXCEPT ![c] = "outside"]
  /\ IF SameValue(c) THEN DropKey ELSE UNCHANGED <<writer, value, deadline>>
  /\ UNCHANGED <<now, ts>>

(* onFree throws or the process dies: nothing unlocks the key.             *)
Throw(c) ==
  /\ phase[c] = "inside"
  /\ phase' = [phase EXCEPT ![c] = "outside"]
  /\ UNCHANGED <<now, writer, value, deadline, ts>>

(* Redis drops the key during the second its time to live ends in.         *)
ExpireKey ==
  /\ KeyExists
  /\ now = deadline
  /\ DropKey
  /\ UNCHANGED <<now, phase, ts>>

(* A second passes: not over the key's deadline, and not over the time a   *)
(* request may stay under way.                                             *)
Tick ==
  /\ now < MaxTime
  /\ KeyExists => now < deadline
  /\ \A c \in Clients :
       phase[c] = "requesting" => now < ts[c] - LockTime + MaxDelay
  /\ now' = now + 1
  /\ UNCHANGED <<writer, value, deadline, phase, ts>>

Next ==
  \/ \E c \in Clients :
       ReadClock(c) \/ SetNX(c) \/ Locked(c) \/ Unlock(c) \/ Throw(c)
  \/ ExpireKey
  \/ Tick

Spec == Init /\ [][Next]_vars

-----------------------------------------------------------------------------
Inside == {c \in Clients : phase[c] = "inside"}

(* The variables of redisNXLockWrapper hold a clock, a key and, for each   *)
(* client, a place in the wrapper and its ts.                              *)
TypeOK ==
  /\ now \in Nat
  /\ writer \in Clients \union {NoClient}
  /\ value \in Nat
  /\ deadline \in Nat
  /\ phase \in [Clients -> {"outside", "requesting", "inside"}]
  /\ ts \in [Clients -> Nat]

(* Until the second ts a client in the protected block is the one whose    *)
(* key Redis holds, so no other client is let in.  ts is the earliest      *)
(* second at which the key it set can expire.                              *)
ProtectedUntilTs ==
  \A c \in Inside : now < ts[c] => writer = c

(* Two clients are in the block together only after the lease of one of    *)
(* them ran out.                                                           *)
OverlapOnlyAfterExpiry ==
  \A c, d \in Inside : c # d => ts[c] <= now \/ ts[d] <= now

(* The script that ends the wrapper compares nothing but seconds, yet it   *)
(* never deletes the key of a later holder: when a client leaves the block *)
(* and a key disappears in that step, it is the key that client set.       *)
OnlyWriterUnlocks ==
  [][\A c \in Clients :
       (c \in Inside /\ c \notin Inside' /\ writer' # writer) => writer = c]_vars

(* The lease every caller of the wrapper relies on.                        *)
Lease == INSTANCE LeaseLock WITH owner <- writer, inside <- Inside

LeaseSpec == Lease!Spec

(* What the proofs add to TypeOK.  A key is never older than its deadline; *)
(* a client whose key is gone has reached its ts; a key set after another  *)
(* client's lease ran out has a greater value than that client's ts.       *)
LockInv ==
  /\ KeyExists => /\ now <= deadline
                  /\ value <= deadline
  /\ \A c \in Clients :
       /\ phase[c] = "requesting" => /\ ts[c] <= now + LockTime
                                     /\ now <= ts[c] - LockTime + MaxDelay
       /\ phase[c] = "inside" /\ writer = c => value = ts[c]
       /\ phase[c] = "inside" /\ writer # c =>
            /\ ts[c] <= now
            /\ KeyExists => ts[c] < value
=============================================================================
