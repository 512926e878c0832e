-------------------------- MODULE RedisLockProofs --------------------------
(***************************************************************************)
(* Theorems about the Redis lock for every set of clients, every lease and *)
(* every request delay shorter than the lease.                             *)
(***************************************************************************)
EXTENDS RedisLock, TLAPS

(* Every reachable state is well typed and satisfies LockInv.              *)
LEMMA InitInv == Init => TypeOK /\ LockInv
BY LockAssumption DEF Init, TypeOK, LockInv, KeyExists

LEMMA NextTypeOK == TypeOK /\ [Next]_vars => TypeOK'
<1> SUFFICES ASSUME TypeOK, [Next]_vars PROVE TypeOK'
  OBVIOUS
<1> USE LockAssumption DEF TypeOK
<1>1. ASSUME NEW c \in Clients, ReadClock(c) PROVE TypeOK'
  BY <1>1 DEF ReadClock
<1>2. ASSUME NEW c \in Clients, SetNX(c) PROVE TypeOK'
  BY <1>2 DEF SetNX
<1>3. ASSUME NEW c \in Clients, Locked(c) PROVE TypeOK'
  BY <1>3 DEF Locked
<1>4. ASSUME NEW c \in Clients, Unlock(c) PROVE TypeOK'
  BY <1>4 DEF Unlock, DropKey
<1>5. ASSUME NEW c \in Clients, Throw(c) PROVE TypeOK'
  BY <1>5 DEF Throw
<1>6. CASE ExpireKey
  BY <1>6 DEF ExpireKey, DropKey
<1>7. CASE Tick
  BY <1>7 DEF Tick
<1>8. CASE UNCHANGED vars
  BY <1>8 DEF vars
<1>9. QED
  BY <1>1, <1>2, <1>3, <1>4, <1>5, <1>6, <1>7, <1>8 DEF Next

LEMMA NextLockInv == TypeOK /\ LockInv /\ [Next]_vars => LockInv'
<1> SUFFICES ASSUME TypeOK, LockInv, [Next]_vars PROVE LockInv'
  OBVIOUS
<1> USE LockAssumption DEF TypeOK, LockInv, KeyExists
<1>1. ASSUME NEW c \in Clients, ReadClock(c) PROVE LockInv'
  BY <1>1 DEF ReadClock
<1>2. ASSUME NEW c \in Clients, SetNX(c) PROVE LockInv'
  <2>1. writer' = c /\ value' = ts[c] /\ deadline' = now + LockTime
    BY <1>2 DEF SetNX
  <2>2. now' = now /\ ts' = ts /\ phase' = [phase EXCEPT ![c] = "inside"]
    BY <1>2 DEF SetNX
  <2>3. writer = NoClient /\ phase[c] = "requesting"
    BY <1>2 DEF SetNX
  <2>4. now < ts[c] /\ ts[c] <= now + LockTime
    BY <2>3
  <2>5. \A d \in Clients : d # c /\ phase[d] = "inside" => ts[d] < ts[c]
    BY <2>3, <2>4
  <2>6. QED
    BY <2>1, <2>2, <2>3, <2>4, <2>5
<1>3. ASSUME NEW c \in Clients, Locked(c) PROVE LockInv'
  BY <1>3 DEF Locked
<1>4. ASSUME NEW c \in Clients, Unlock(c) PROVE LockInv'
  <2>1. now' = now /\ ts' = ts /\ phase' = [phase EXCEPT ![c] = "outside"]
    BY <1>4 DEF Unlock
  <2>2. CASE SameValue(c)
    <3>1. writer' = NoClient /\ value' = value /\ deadline' = deadline
      BY <1>4, <2>2 DEF Unlock, DropKey
    <3>2. writer = c
      BY <1>4, <2>2 DEF Unlock, SameValue
    <3>3. \A d \in Clients : d # c /\ phase[d] = "inside" => ts[d] <= now
      BY <3>2
    <3>4. QED
      BY <2>1, <3>1, <3>3
  <2>3. CASE ~SameValue(c)
    BY <1>4, <2>1, <2>3 DEF Unlock
  <2>4. QED
    BY <2>2, <2>3
<1>5. ASSUME NEW c \in Clients, Throw(c) PROVE LockInv'
  BY <1>5 DEF Throw
<1>6. CASE ExpireKey
  <2>1. writer' = NoClient /\ now' = now /\ phase' = phase /\ ts' = ts
    BY <1>6 DEF ExpireKey, DropKey
  <2>2. writer # NoClient /\ now = deadline
    BY <1>6 DEF ExpireKey
  <2>3. \A d \in Clients : phase[d] = "inside" => ts[d] <= now
    BY <2>2
  <2>4. QED
    BY <2>1, <2>3
<1>7. CASE Tick
  BY <1>7 DEF Tick
<1>8. CASE UNCHANGED vars
  BY <1>8 DEF vars
<1>9. QED
  BY <1>1, <1>2, <1>3, <1>4, <1>5, <1>6, <1>7, <1>8 DEF Next

(* The variables of the wrapper keep their types in every behaviour.       *)
THEOREM TypeCorrect == Spec => []TypeOK
BY InitInv, NextTypeOK, PTL DEF Spec

(* The arithmetic of clocks, values and deadlines of LockInv is kept by    *)
(* every step of every client.                                             *)
THEOREM LockInvariant == Spec => [](TypeOK /\ LockInv)
<1>1. TypeOK /\ LockInv /\ [Next]_vars => (TypeOK /\ LockInv)'
  BY NextTypeOK, NextLockInv
<1>2. QED
  BY <1>1, InitInv, PTL DEF Spec

(* Redis holds a client's key for as long as that client is in the block   *)
(* and its ts lies ahead.                                                  *)
THEOREM ProtectedTheorem == Spec => []ProtectedUntilTs
<1>1. TypeOK /\ LockInv => ProtectedUntilTs
  BY DEF TypeOK, LockInv, ProtectedUntilTs, Inside
<1>2. QED
  BY <1>1, LockInvariant, PTL

(* Clients overlap in the block only after one of their leases ran out.    *)
THEOREM OverlapTheorem == Spec => []OverlapOnlyAfterExpiry
<1>1. TypeOK /\ LockInv => OverlapOnlyAfterExpiry
  BY DEF TypeOK, LockInv, OverlapOnlyAfterExpiry, Inside
<1>2. QED
  BY <1>1, LockInvariant, PTL

(* The value a client compares tells its own key from every later one.     *)
LEMMA SameValueMeansWriter ==
  ASSUME TypeOK, LockInv, NEW c \in Clients, phase[c] = "inside"
  PROVE  SameValue(c) <=> writer = c
BY LockAssumption DEF TypeOK, LockInv, SameValue, KeyExists

(* A client that leaves the block never deletes the key of another.        *)
THEOREM UnlockTheorem == Spec => OnlyWriterUnlocks
<1>1. TypeOK /\ LockInv /\ [Next]_vars =>
        [\A c \in Clients :
           (c \in Inside /\ c \notin Inside' /\ writer' # writer)
             => writer = c]_vars
  <2> SUFFICES ASSUME TypeOK, LockInv, [Next]_vars, NEW c \in Clients,
                      phase[c] = "inside", phase'[c] # "inside",
                      writer' # writer
               PROVE  writer = c
    BY DEF Inside
  <2>1. ASSUME NEW d \in Clients, Unlock(d) PROVE writer = c
    <3>1. d = c
      BY <2>1 DEF Unlock, TypeOK
    <3>2. SameValue(c)
      BY <2>1, <3>1 DEF Unlock
    <3>3. QED
      BY <3>2, SameValueMeansWriter
  <2>2. ~ \E d \in Clients : ReadClock(d) \/ SetNX(d) \/ Locked(d) \/ Throw(d)
    BY DEF ReadClock, SetNX, Locked, Throw, TypeOK
  <2>3. ~ExpireKey /\ ~Tick /\ ~UNCHANGED vars
    BY DEF ExpireKey, Tick, vars
  <2>4. QED
    BY <2>1, <2>2, <2>3 DEF Next
<1>2. QED
  BY <1>1, LockInvariant, PTL DEF Spec, OnlyWriterUnlocks

(* The wrapper, with its clock, values and delays, is a lease: every step  *)
(* of RedisLock is a step of LeaseLock or leaves owner and block alone.    *)
THEOREM Refinement == Spec => LeaseSpec
<1> USE DEF Inside
<1>1. Init => Lease!Init
  BY DEF Init, Lease!Init
<1>2. TypeOK /\ LockInv /\ [Next]_vars => [Lease!Next]_Lease!vars
  <2> SUFFICES ASSUME TypeOK, LockInv, [Next]_vars
               PROVE  [Lease!Next]_Lease!vars
    OBVIOUS
  <2> USE LockAssumption DEF TypeOK
  <2>1. ASSUME NEW c \in Clients, ReadClock(c) PROVE UNCHANGED Lease!vars
    BY <2>1 DEF ReadClock, Lease!vars
  <2>2. ASSUME NEW c \in Clients, SetNX(c) PROVE Lease!Acquire(c)
    BY <2>2 DEF SetNX, KeyExists, Lease!Acquire
  <2>3. ASSUME NEW c \in Clients, Locked(c) PROVE UNCHANGED Lease!vars
    BY <2>3 DEF Locked, Lease!vars
  <2>4. ASSUME NEW c \in Clients, Unlock(c) PROVE Lease!Release(c)
    <3>1. SameValue(c) <=> writer = c
      BY <2>4, SameValueMeansWriter DEF Unlock
    <3>2. Inside' = Inside \ {c} /\ c \in Inside
      BY <2>4 DEF Unlock
    <3>3. writer' = IF writer = c THEN NoClient ELSE writer
      BY <2>4, <3>1 DEF Unlock, DropKey
    <3>4. QED
      BY <3>2, <3>3 DEF Lease!Release
  <2>5. ASSUME NEW c \in Clients, Throw(c) PROVE Lease!Abandon(c)
    BY <2>5 DEF Throw, Lease!Abandon
  <2>6. CASE ExpireKey
    BY <2>6 DEF ExpireKey, KeyExists, DropKey, Lease!Next, Lease!Expire
  <2>7. CASE Tick
    BY <2>7 DEF Tick, Lease!vars
  <2>8. CASE UNCHANGED vars
    BY <2>8 DEF vars, Lease!vars
  <2>9. QED
    BY <2>1, <2>2, <2>3, <2>4, <2>5, <2>6, <2>7, <2>8 DEF Next, Lease!Next
<1>3. QED
  BY <1>1, <1>2, LockInvariant, PTL DEF Spec, LeaseSpec, Lease!Spec
=============================================================================
