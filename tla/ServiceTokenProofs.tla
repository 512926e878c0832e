------------------------- MODULE ServiceTokenProofs -------------------------
(***************************************************************************)
(* Theorems about the service token for any number of callers, any token   *)
(* lifetimes and any refresh skew that covers the latency of auth-service. *)
(***************************************************************************)
EXTENDS ServiceToken, TLAPS

LEMMA AttemptBound ==
  ASSUME TypeOK, NEW c \in Callers, attempt[c] < 2
  PROVE  attempt[c] + 1 \in {0, 1, 2}
BY DEF TypeOK

LEMMA InitInv == Init => TypeOK /\ TokenInv
BY TokenAssumption
   DEF Init, TypeOK, Tokens, TokenInv, RefreshInv, CacheInv, RefusalInv, StandingInv,
       CacheValid

LEMMA NextType == TypeOK /\ TokenInv /\ [Next]_vars => TypeOK'
<1> SUFFICES ASSUME TypeOK, TokenInv, [Next]_vars PROVE TypeOK'
  OBVIOUS
<1> USE TokenAssumption DEF TypeOK, Tokens, serverVars, cacheVars, loopVars
<1>1. ASSUME NEW c \in Callers, UseCached(c) PROVE TypeOK'
  BY <1>1 DEF UseCached
<1>2. ASSUME NEW c \in Callers, CacheMiss(c) PROVE TypeOK'
  BY <1>2 DEF CacheMiss
<1>3. ASSUME NEW c \in Callers, LockRefresh(c) PROVE TypeOK'
  BY <1>3 DEF LockRefresh
<1>4. ASSUME NEW c \in Callers, Recheck(c) PROVE TypeOK'
  BY <1>4 DEF Recheck
<1>5. ASSUME NEW c \in Callers, NEW l \in Lifetimes, Grant(c, l) PROVE TypeOK'
  BY <1>5 DEF Grant
<1>6. ASSUME NEW c \in Callers, StoreToken(c) PROVE TypeOK'
  BY <1>6 DEF StoreToken
<1>7. ASSUME NEW c \in Callers, IssueFails(c) PROVE TypeOK'
  BY <1>7 DEF IssueFails, Return
<1>8. ASSUME NEW c \in Callers, BeginLookup(c) PROVE TypeOK'
  BY <1>8 DEF BeginLookup
<1>9. ASSUME NEW c \in Callers, NotFound(c) PROVE TypeOK'
  <2>1. attempt[c] < 2
    BY <1>9 DEF NotFound
  <2>2. attempt[c] + 1 \in {0, 1, 2}
    BY <2>1, AttemptBound
  <2>3. QED
    BY <1>9, <2>2 DEF NotFound
<1>10. ASSUME NEW c \in Callers, Rejected(c) PROVE TypeOK'
  BY <1>10 DEF Rejected
<1>11. ASSUME NEW c \in Callers, Invalidate(c) PROVE TypeOK'
  <2>1. attempt[c] < 2
    BY <1>11 DEF Invalidate, TokenInv, RefusalInv
  <2>2. attempt[c] + 1 \in {0, 1, 2}
    BY <2>1, AttemptBound
  <2>3. QED
    BY <1>11, <2>2 DEF Invalidate
<1>12. ASSUME NEW c \in Callers, LookupReturns(c) PROVE TypeOK'
  BY <1>12 DEF LookupReturns, Return
<1>13. CASE Tick
  <2>1. now' = now + 1 /\ UNCHANGED <<serverVars, cacheVars, refreshMu, pc, loopVars, standing>>
    BY <1>13 DEF Tick
  <2>2. QED
    BY <2>1
<1>14. CASE UNCHANGED vars
  BY <1>14 DEF vars
<1>15. QED
  BY <1>1, <1>2, <1>3, <1>4, <1>5, <1>6, <1>7, <1>8, <1>9, <1>10, <1>11,
     <1>12, <1>13, <1>14 DEF Next, TokenStep, LookupStep

(* refreshMu keeps the callers apart between the recheck and the store.    *)
LEMMA NextRefresh == TypeOK /\ TokenInv /\ [Next]_vars => RefreshInv'
<1> SUFFICES ASSUME TypeOK, TokenInv, [Next]_vars PROVE RefreshInv'
  OBVIOUS
<1> USE TokenAssumption DEF TypeOK, Tokens, TokenInv, RefreshInv, CacheInv, CacheValid, serverVars, cacheVars, loopVars
<1>1. ASSUME NEW c \in Callers, UseCached(c) PROVE RefreshInv'
  BY <1>1 DEF UseCached
<1>2. ASSUME NEW c \in Callers, CacheMiss(c) PROVE RefreshInv'
  BY <1>2 DEF CacheMiss
<1>3. ASSUME NEW c \in Callers, LockRefresh(c) PROVE RefreshInv'
  BY <1>3 DEF LockRefresh
<1>4. ASSUME NEW c \in Callers, Recheck(c) PROVE RefreshInv'
  BY <1>4 DEF Recheck
<1>5. ASSUME NEW c \in Callers, NEW l \in Lifetimes, Grant(c, l) PROVE RefreshInv'
  <2>1. issued + 1 \in Tokens /\ refreshMu = c /\ validUntil'[issued + 1] = now + l
    BY <1>5 DEF Grant
  <2>2. \A d \in Callers : using[d] < issued + 1 /\ refused[d] < issued + 1
    OBVIOUS
  <2>3. pc' = [pc EXCEPT ![c] = "response"] /\ issued' = issued + 1 /\ life' = l
    BY <1>5 DEF Grant
  <2>4. UNCHANGED <<now, token, expiresAt, refreshMu, using, refused>>
    BY <1>5 DEF Grant
  <2>5. pc[c] = "request" /\ ~CacheValid
    BY <1>5 DEF Grant
  <2>6. now + l <= (now + l) + MaxLatency
    OBVIOUS
  <2>7. \A d \in Callers : d # c => pc'[d] \notin {"request", "response", "recheck"}
    BY <2>1, <2>3
  <2>8. QED
    BY <2>1, <2>2, <2>3, <2>4, <2>5, <2>6, <2>7
<1>6. ASSUME NEW c \in Callers, StoreToken(c) PROVE RefreshInv'
  BY <1>6 DEF StoreToken
<1>7. ASSUME NEW c \in Callers, IssueFails(c) PROVE RefreshInv'
  BY <1>7 DEF IssueFails, Return
<1>8. ASSUME NEW c \in Callers, BeginLookup(c) PROVE RefreshInv'
  BY <1>8 DEF BeginLookup
<1>9. ASSUME NEW c \in Callers, NotFound(c) PROVE RefreshInv'
  BY <1>9 DEF NotFound
<1>10. ASSUME NEW c \in Callers, Rejected(c) PROVE RefreshInv'
  BY <1>10 DEF Rejected
<1>11. ASSUME NEW c \in Callers, Invalidate(c) PROVE RefreshInv'
  BY <1>11 DEF Invalidate
<1>12. ASSUME NEW c \in Callers, LookupReturns(c) PROVE RefreshInv'
  BY <1>12 DEF LookupReturns, Return
<1>13. CASE Tick
  <2>1. now' = now + 1 /\ UNCHANGED <<serverVars, cacheVars, refreshMu, pc, loopVars, standing>>
    BY <1>13 DEF Tick
  <2>2. ASSUME NEW c \in Callers, pc[c] \in {"request", "response"} PROVE ~CacheValid'
    <3>1. ~CacheValid
      BY <2>2
    <3>2. QED
      BY <2>1, <3>1
  <2>3. ASSUME NEW c \in Callers, pc[c] = "response"
        PROVE  /\ validUntil[issued] <= now + 1 + life
               /\ now + 1 + life <= validUntil[issued] + MaxLatency
    <3>1. now < validUntil[issued] - life + MaxLatency
      BY <1>13, <2>3 DEF Tick
    <3>2. issued \in Tokens /\ validUntil[issued] <= now + life
      BY <2>3
    <3>3. validUntil[issued] \in Nat
      BY <3>2
    <3>4. QED
      BY <3>1, <3>2, <3>3
  <2>4. QED
    BY <2>1, <2>2, <2>3
<1>14. CASE UNCHANGED vars
  BY <1>14 DEF vars
<1>15. QED
  BY <1>1, <1>2, <1>3, <1>4, <1>5, <1>6, <1>7, <1>8, <1>9, <1>10, <1>11,
     <1>12, <1>13, <1>14 DEF Next, TokenStep, LookupStep

LEMMA NextCache == TypeOK /\ TokenInv /\ [Next]_vars => CacheInv'
<1> SUFFICES ASSUME TypeOK, TokenInv, [Next]_vars PROVE CacheInv'
  OBVIOUS
<1> USE TokenAssumption DEF TypeOK, Tokens, TokenInv, RefreshInv, CacheInv, serverVars, cacheVars, loopVars
<1>1. ASSUME NEW c \in Callers, UseCached(c) PROVE CacheInv'
  BY <1>1 DEF UseCached
<1>2. ASSUME NEW c \in Callers, CacheMiss(c) PROVE CacheInv'
  BY <1>2 DEF CacheMiss
<1>3. ASSUME NEW c \in Callers, LockRefresh(c) PROVE CacheInv'
  BY <1>3 DEF LockRefresh
<1>4. ASSUME NEW c \in Callers, Recheck(c) PROVE CacheInv'
  BY <1>4 DEF Recheck
<1>5. ASSUME NEW c \in Callers, NEW l \in Lifetimes, Grant(c, l) PROVE CacheInv'
  BY <1>5 DEF Grant
<1>6. ASSUME NEW c \in Callers, StoreToken(c) PROVE CacheInv'
  BY <1>6 DEF StoreToken
<1>7. ASSUME NEW c \in Callers, IssueFails(c) PROVE CacheInv'
  BY <1>7 DEF IssueFails, Return
<1>8. ASSUME NEW c \in Callers, BeginLookup(c) PROVE CacheInv'
  BY <1>8 DEF BeginLookup
<1>9. ASSUME NEW c \in Callers, NotFound(c) PROVE CacheInv'
  BY <1>9 DEF NotFound
<1>10. ASSUME NEW c \in Callers, Rejected(c) PROVE CacheInv'
  BY <1>10 DEF Rejected
<1>11. ASSUME NEW c \in Callers, Invalidate(c) PROVE CacheInv'
  BY <1>11 DEF Invalidate
<1>12. ASSUME NEW c \in Callers, LookupReturns(c) PROVE CacheInv'
  BY <1>12 DEF LookupReturns, Return
<1>13. CASE Tick
  BY <1>13 DEF Tick
<1>14. CASE UNCHANGED vars
  BY <1>14 DEF vars
<1>15. QED
  BY <1>1, <1>2, <1>3, <1>4, <1>5, <1>6, <1>7, <1>8, <1>9, <1>10, <1>11,
     <1>12, <1>13, <1>14 DEF Next, TokenStep, LookupStep

LEMMA NextRefusal == TypeOK /\ TokenInv /\ [Next]_vars => RefusalInv'
<1> SUFFICES ASSUME TypeOK, TokenInv, [Next]_vars PROVE RefusalInv'
  OBVIOUS
<1> USE TokenAssumption DEF TypeOK, Tokens, TokenInv, RefreshInv, CacheInv, RefusalInv, CacheValid, serverVars, cacheVars, loopVars
<1>1. ASSUME NEW c \in Callers, UseCached(c) PROVE RefusalInv'
  <2>1. token # 0 /\ using' = [using EXCEPT ![c] = token]
    BY <1>1 DEF UseCached
  <2>2. pc[c] = "token" /\ pc' = [pc EXCEPT ![c] = "lookup"]
    BY <1>1 DEF UseCached
  <2>3. UNCHANGED <<token, refused, attempt>>
    BY <1>1 DEF UseCached
  <2>4. QED
    BY <2>1, <2>2, <2>3
<1>2. ASSUME NEW c \in Callers, CacheMiss(c) PROVE RefusalInv'
  BY <1>2 DEF CacheMiss
<1>3. ASSUME NEW c \in Callers, LockRefresh(c) PROVE RefusalInv'
  BY <1>3 DEF LockRefresh
<1>4. ASSUME NEW c \in Callers, Recheck(c) PROVE RefusalInv'
  <2>1. pc[c] = "recheck" /\ UNCHANGED <<token, refused, attempt>>
    BY <1>4 DEF Recheck
  <2>2. \/ /\ token # 0 /\ using' = [using EXCEPT ![c] = token]
           /\ pc' = [pc EXCEPT ![c] = "lookup"]
        \/ using' = using /\ pc' = [pc EXCEPT ![c] = "request"]
    BY <1>4 DEF Recheck
  <2>3. QED
    BY <2>1, <2>2
<1>5. ASSUME NEW c \in Callers, NEW l \in Lifetimes, Grant(c, l) PROVE RefusalInv'
  BY <1>5 DEF Grant
<1>6. ASSUME NEW c \in Callers, StoreToken(c) PROVE RefusalInv'
  <2>1. pc[c] = "response" /\ token' = issued /\ UNCHANGED <<refused, attempt>>
    BY <1>6 DEF StoreToken
  <2>2. using' = [using EXCEPT ![c] = issued] /\ pc' = [pc EXCEPT ![c] = "lookup"]
    BY <1>6 DEF StoreToken
  <2>3. issued # 0 /\ \A d \in Callers : refused[d] < issued
    BY <2>1
  <2>4. QED
    BY <2>1, <2>2, <2>3
<1>7. ASSUME NEW c \in Callers, IssueFails(c) PROVE RefusalInv'
  BY <1>7 DEF IssueFails, Return
<1>8. ASSUME NEW c \in Callers, BeginLookup(c) PROVE RefusalInv'
  BY <1>8 DEF BeginLookup
<1>9. ASSUME NEW c \in Callers, NotFound(c) PROVE RefusalInv'
  BY <1>9 DEF NotFound
<1>10. ASSUME NEW c \in Callers, Rejected(c) PROVE RefusalInv'
  BY <1>10 DEF Rejected
<1>11. ASSUME NEW c \in Callers, Invalidate(c) PROVE RefusalInv'
  BY <1>11 DEF Invalidate
<1>12. ASSUME NEW c \in Callers, LookupReturns(c) PROVE RefusalInv'
  BY <1>12 DEF LookupReturns, Return
<1>13. CASE Tick
  BY <1>13 DEF Tick
<1>14. CASE UNCHANGED vars
  BY <1>14 DEF vars
<1>15. QED
  BY <1>1, <1>2, <1>3, <1>4, <1>5, <1>6, <1>7, <1>8, <1>9, <1>10, <1>11,
     <1>12, <1>13, <1>14 DEF Next, TokenStep, LookupStep

(* Only a token that a caller saw rejected leaves the cache before its end. *)
LEMMA NextStanding == TypeOK /\ TokenInv /\ [Next]_vars => StandingInv'
<1> SUFFICES ASSUME TypeOK, TokenInv, [Next]_vars PROVE StandingInv'
  OBVIOUS
<1> USE TokenAssumption DEF TypeOK, Tokens, TokenInv, RefreshInv, CacheInv, RefusalInv, StandingInv, serverVars, cacheVars, loopVars
<1>1. ASSUME NEW c \in Callers, UseCached(c) PROVE StandingInv'
  BY <1>1 DEF UseCached
<1>2. ASSUME NEW c \in Callers, CacheMiss(c) PROVE StandingInv'
  BY <1>2 DEF CacheMiss
<1>3. ASSUME NEW c \in Callers, LockRefresh(c) PROVE StandingInv'
  BY <1>3 DEF LockRefresh
<1>4. ASSUME NEW c \in Callers, Recheck(c) PROVE StandingInv'
  BY <1>4 DEF Recheck
<1>5. ASSUME NEW c \in Callers, NEW l \in Lifetimes, Grant(c, l) PROVE StandingInv'
  BY <1>5 DEF Grant
<1>6. ASSUME NEW c \in Callers, StoreToken(c) PROVE StandingInv'
  BY <1>6 DEF StoreToken
<1>7. ASSUME NEW c \in Callers, IssueFails(c) PROVE StandingInv'
  BY <1>7 DEF IssueFails, Return
<1>8. ASSUME NEW c \in Callers, BeginLookup(c) PROVE StandingInv'
  BY <1>8 DEF BeginLookup
<1>9. ASSUME NEW c \in Callers, NotFound(c) PROVE StandingInv'
  BY <1>9 DEF NotFound
<1>10. ASSUME NEW c \in Callers, Rejected(c) PROVE StandingInv'
  BY <1>10 DEF Rejected
<1>11. ASSUME NEW c \in Callers, Invalidate(c) PROVE StandingInv'
  BY <1>11 DEF Invalidate
<1>12. ASSUME NEW c \in Callers, LookupReturns(c) PROVE StandingInv'
  BY <1>12 DEF LookupReturns, Return
<1>13. CASE Tick
  BY <1>13 DEF Tick
<1>14. CASE UNCHANGED vars
  BY <1>14 DEF vars
<1>15. QED
  BY <1>1, <1>2, <1>3, <1>4, <1>5, <1>6, <1>7, <1>8, <1>9, <1>10, <1>11,
     <1>12, <1>13, <1>14 DEF Next, TokenStep, LookupStep

-----------------------------------------------------------------------------
(* Every reachable state satisfies the inductive invariant.                *)
THEOREM TokenInvariant == Spec => [](TypeOK /\ TokenInv)
<1>1. TypeOK /\ TokenInv /\ [Next]_vars => (TypeOK /\ TokenInv)'
  BY NextType, NextRefresh, NextCache, NextRefusal, NextStanding DEF TokenInv
<1>2. QED
  BY InitInv, <1>1, PTL DEF Spec

(* ServiceTokenClient and lookupNode keep their variables well typed.      *)
THEOREM TypeCorrect == Spec => []TypeOK
BY TokenInvariant, PTL

(* lookupNode never sends a rejected token again when it retries.          *)
THEOREM RetryTheorem == Spec => []RetryUsesNewToken
<1>1. TypeOK /\ TokenInv => RetryUsesNewToken
  BY DEF TokenInv, RefusalInv, RetryUsesNewToken
<1>2. QED
  BY TokenInvariant, <1>1, PTL

(* Token never replaces a usable token, nor a newer one by an older one.   *)
THEOREM RefreshTheorem == Spec => NoWastedRefresh
<1>1. TypeOK /\ TokenInv /\ [Next]_vars
        => [token' # token /\ token' # 0 => ~CacheValid /\ token < token']_vars
  <2> SUFFICES ASSUME TypeOK, TokenInv, Next, token' # token, token' # 0
               PROVE  ~CacheValid /\ token < token'
    BY DEF vars
  <2>1. PICK c \in Callers : StoreToken(c)
    BY DEF Next, TokenStep, LookupStep, BeginLookup, LockRefresh, UseCached, CacheMiss,
           Recheck, IssueFails, Grant, NotFound, Rejected, Invalidate, LookupReturns,
           Tick, cacheVars
  <2>2. QED
    BY <2>1 DEF StoreToken, TokenInv, RefreshInv
<1>2. QED
  BY TokenInvariant, <1>1, PTL DEF Spec, NoWastedRefresh

(* A late rejection never makes Token ask auth-service to replace a token  *)
(* that nobody saw rejected, before its end comes near (auth.go:83-92).    *)
THEOREM GrantTheorem == Spec => NoNeedlessGrant
<1>1. TypeOK /\ TokenInv /\ [Next]_vars
        => [issued' # issued => standing = 0 \/ validUntil[standing] <= now + Skew]_vars
  <2> SUFFICES ASSUME TypeOK, TokenInv, Next, issued' # issued, standing # 0
               PROVE  validUntil[standing] <= now + Skew
    BY DEF vars
  <2>1. PICK c \in Callers : \E l \in Lifetimes : Grant(c, l)
    BY Zenon DEF Next, TokenStep, LookupStep, BeginLookup, LockRefresh, UseCached, CacheMiss,
           Recheck, IssueFails, StoreToken, NotFound, Rejected, Invalidate, LookupReturns,
           Tick, serverVars
  <2>2. ~CacheValid
    BY <2>1 DEF Grant, TokenInv, RefreshInv
  <2>3. token # 0 /\ standing = token /\ validUntil[token] <= expiresAt
    BY DEF TokenInv, StandingInv
  <2>4. token \in Tokens /\ validUntil[token] \in Nat
    BY <2>3, TokenAssumption DEF TypeOK, Tokens
  <2>5. QED
    BY <2>2, <2>3, <2>4, TokenAssumption DEF CacheValid, TypeOK
<1>2. QED
  BY TokenInvariant, <1>1, PTL DEF Spec, NoNeedlessGrant

(* A token taken by an attempt is still accepted by auth-service.          *)
THEOREM FreshTheorem == Spec => FreshWhenTaken
<1>1. TypeOK /\ TokenInv /\ [Next]_vars
        => [\A c \in Callers : pc[c] # "lookup" /\ pc'[c] = "lookup"
                                 => now < validUntil[using'[c]]]_vars
  <2> SUFFICES ASSUME TypeOK, TokenInv, Next, NEW c \in Callers,
                      pc[c] # "lookup", pc'[c] = "lookup"
               PROVE  now < validUntil[using'[c]]
    BY DEF vars
  <2> USE TokenAssumption DEF TypeOK, Tokens, TokenInv, RefreshInv, CacheInv
  <2>1. UseCached(c) \/ Recheck(c) \/ StoreToken(c)
    <3>1. ASSUME NEW d \in Callers, pc' = [pc EXCEPT ![d] = "lookup"] PROVE d = c
      BY <3>1
    <3>2. ASSUME NEW d \in Callers, NEW p \in {"idle", "token", "lock", "recheck", "request",
                                               "response", "invalidate"}
          PROVE  pc' # [pc EXCEPT ![d] = p]
      BY <3>2
    <3> HIDE DEF TypeOK, TokenInv, RefreshInv, CacheInv
    <3>3. \A d \in Callers : UseCached(d) \/ Recheck(d) \/ StoreToken(d) => d = c
      BY <3>1, <3>2 DEF UseCached, Recheck, StoreToken
    <3>4. \A d \in Callers :
            ~(BeginLookup(d) \/ LockRefresh(d) \/ CacheMiss(d) \/ IssueFails(d) \/ NotFound(d)
              \/ Rejected(d) \/ Invalidate(d) \/ LookupReturns(d)
              \/ \E l \in Lifetimes : Grant(d, l))
      BY <3>2 DEF BeginLookup, LockRefresh, CacheMiss, IssueFails, Grant, NotFound, Rejected,
                 Invalidate, LookupReturns, Return
    <3>5. ~Tick
      BY DEF Tick
    <3> QED BY <3>3, <3>4, <3>5 DEF Next, TokenStep, LookupStep
  <2>2. CASE CacheValid /\ using'[c] = token
    BY <2>2 DEF CacheValid
  <2>3. CASE StoreToken(c)
    BY <2>3 DEF StoreToken
  <2>4. QED
    BY <2>1, <2>2, <2>3 DEF UseCached, Recheck
<1>2. QED
  BY TokenInvariant, <1>1, PTL DEF Spec, FreshWhenTaken
=============================================================================
