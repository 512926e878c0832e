--------------------------- MODULE ServiceToken ---------------------------
(***************************************************************************)
(* websockify-go: the cached client-credentials token of the VNC gateway   *)
(* (ServiceTokenClient in auth.go) and its user, lookupNode of             *)
(* vncproxy.go, run by one goroutine per connecting browser.               *)
(*                                                                         *)
(* Tokens are numbered in the order auth-service issues them; 0 stands for *)
(* the empty string.  auth-service counts a token's life from the moment   *)
(* it issues it, the client from the moment it has read the response.      *)
(***************************************************************************)
EXTENDS Integers

CONSTANTS Callers,     \* goroutines that run lookupNode
          NoCaller,    \* holder of a free refreshMu
          Skew,        \* serviceTokenRefreshSkew, in seconds
          Lifetimes,   \* the values of expires_in
          MaxLatency,  \* longest time a response of auth-service is under way
          MaxTokens,   \* bound of the tokens issued
          MaxTime      \* bound of the clock

ASSUME TokenAssumption ==
  /\ NoCaller \notin Callers
  /\ Skew \in Nat /\ MaxLatency \in Nat /\ MaxLatency <= Skew
  /\ Lifetimes \subseteq Nat /\ \A l \in Lifetimes : l > MaxLatency
  /\ MaxTokens \in Nat /\ MaxTime \in Nat

Tokens == 1..MaxTokens

VARIABLES now,        \* the clock, in seconds
          issued,     \* number of tokens auth-service has issued
          validUntil, \* when auth-service stops to accept each token
          life,       \* expires_in of the last token issued
          token,      \* c.token
          expiresAt,  \* c.expiresAt
          refreshMu,  \* the caller that holds the refresh lock, or NoCaller
          pc,         \* what each caller does next
          using,      \* the token each caller's attempt uses
          attempt,    \* lookupNode's loop variable
          refused,    \* the token whose rejection a caller has seen, or 0
          \* History, read by a property only:
          standing    \* the last token stored, or 0 once it has been rejected

cacheVars  == <<token, expiresAt>>
serverVars == <<issued, validUntil, life>>
loopVars   == <<using, attempt, refused>>
vars == <<now, serverVars, cacheVars, refreshMu, pc, loopVars, standing>>

Init ==
  /\ now = 0
  /\ issued = 0
  /\ validUntil = [n \in Tokens |-> 0]
  /\ life = 0
  /\ token = 0 /\ expiresAt = 0
  /\ refreshMu = NoCaller
  /\ pc = [c \in Callers |-> "idle"]
  /\ using = [c \in Callers |-> 0]
  /\ attempt = [c \in Callers |-> 0]
  /\ refused = [c \in Callers |-> 0]
  /\ standing = 0

(* Mutant of CacheValid: the skew is forgotten.                            *)
NotExpired == token # 0 /\ now < expiresAt

(* cachedToken *)
CacheValid == token # 0 /\ now + Skew < expiresAt

(* The caller leaves lookupNode; its local variables go.                   *)
Return(c) ==
  /\ pc' = [pc EXCEPT ![c] = "idle"]
  /\ using' = [using EXCEPT ![c] = 0]
  /\ attempt' = [attempt EXCEPT ![c] = 0]
  /\ refused' = [refused EXCEPT ![c] = 0]

-----------------------------------------------------------------------------
(* Token *)

(* The attempt takes the cached token under the read lock.                 *)
UseCached(c) ==
  /\ pc[c] = "token"
  /\ CacheValid
  /\ using' = [using EXCEPT ![c] = token]
  /\ pc' = [pc EXCEPT ![c] = "lookup"]
  /\ UNCHANGED <<now, serverVars, cacheVars, refreshMu, attempt, refused, standing>>

(* The cache is empty or about to expire: queue for refreshMu.             *)
CacheMiss(c) ==
  /\ pc[c] = "token"
  /\ ~CacheValid
  /\ pc' = [pc EXCEPT ![c] = "lock"]
  /\ UNCHANGED <<now, serverVars, cacheVars, refreshMu, loopVars, standing>>

LockRefresh(c) ==
  /\ pc[c] = "lock"
  /\ refreshMu = NoCaller
  /\ refreshMu' = c
  /\ pc' = [pc EXCEPT ![c] = "recheck"]
  /\ UNCHANGED <<now, serverVars, cacheVars, loopVars, standing>>

(* Mutant of Recheck: a caller that waited for refreshMu always refreshes. *)
RefreshAnyway(c) ==
  /\ pc[c] = "recheck"
  /\ pc' = [pc EXCEPT ![c] = "request"]
  /\ UNCHANGED <<now, serverVars, cacheVars, refreshMu, loopVars, standing>>

(* The recheck: another caller has refreshed meanwhile, or this one asks   *)
(* auth-service.                                                           *)
Recheck(c) ==
  /\ pc[c] = "recheck"
  /\ \/ /\ CacheValid
        /\ using' = [using EXCEPT ![c] = token]
        /\ refreshMu' = NoCaller
        /\ pc' = [pc EXCEPT ![c] = "lookup"]
     \/ /\ ~CacheValid
        /\ pc' = [pc EXCEPT ![c] = "request"]
        /\ UNCHANGED <<using, refreshMu>>
  /\ UNCHANGED <<now, serverVars, cacheVars, attempt, refused, standing>>

(* auth-service issues a token; its response is under way.                 *)
Grant(c, l) ==
  /\ pc[c] = "request"
  /\ issued < MaxTokens
  /\ issued' = issued + 1
  /\ validUntil' = [validUntil EXCEPT ![issued + 1] = now + l]
  /\ life' = l
  /\ pc' = [pc EXCEPT ![c] = "response"]
  /\ UNCHANGED <<now, cacheVars, refreshMu, loopVars, standing>>

(* issue stores the token and its expiry, counted from now.                *)
StoreToken(c) ==
  /\ pc[c] = "response"
  /\ token' = issued
  /\ expiresAt' = now + life
  /\ using' = [using EXCEPT ![c] = issued]
  /\ refreshMu' = NoCaller
  /\ pc' = [pc EXCEPT ![c] = "lookup"]
  /\ standing' = issued
  /\ UNCHANGED <<now, serverVars, attempt, refused>>

(* Mutant of IssueFails: the error path does not unlock refreshMu.         *)
IssueFailsLocked(c) ==
  /\ pc[c] \in {"request", "response"}
  /\ Return(c)
  /\ UNCHANGED <<now, serverVars, cacheVars, refreshMu, standing>>

(* The request, the response or the caller's context fails: lookupNode     *)
(* returns the error and the deferred Unlock runs.                         *)
IssueFails(c) ==
  /\ pc[c] \in {"request", "response"}
  /\ refreshMu' = NoCaller
  /\ Return(c)
  /\ UNCHANGED <<now, serverVars, cacheVars, standing>>

-----------------------------------------------------------------------------
(* lookupNode *)

BeginLookup(c) ==
  /\ pc[c] = "idle"
  /\ pc' = [pc EXCEPT ![c] = "token"]
  /\ UNCHANGED <<now, serverVars, cacheVars, refreshMu, loopVars, standing>>

(* cluster-manager does not know the VM yet: sleep and try again.          *)
NotFound(c) ==
  /\ pc[c] = "lookup"
  /\ attempt[c] < 2
  /\ attempt' = [attempt EXCEPT ![c] = @ + 1]
  /\ pc' = [pc EXCEPT ![c] = "token"]
  /\ UNCHANGED <<now, serverVars, cacheVars, refreshMu, using, refused, standing>>

(* 401 or 403 on the first attempt: the token is to be dropped.            *)
Rejected(c) ==
  /\ pc[c] = "lookup"
  /\ attempt[c] = 0
  /\ refused' = [refused EXCEPT ![c] = using[c]]
  /\ standing' = IF using[c] = standing THEN 0 ELSE standing
  /\ pc' = [pc EXCEPT ![c] = "invalidate"]
  /\ UNCHANGED <<now, serverVars, cacheVars, refreshMu, using, attempt>>

(* Mutant of Invalidate: the cache is left as it is.                       *)
InvalidateNothing(c) ==
  /\ pc[c] = "invalidate"
  /\ attempt' = [attempt EXCEPT ![c] = @ + 1]
  /\ pc' = [pc EXCEPT ![c] = "token"]
  /\ UNCHANGED <<now, serverVars, cacheVars, refreshMu, using, refused, standing>>

(* Mutant of Invalidate: whatever is cached is dropped.                    *)
InvalidateAny(c) ==
  /\ pc[c] = "invalidate"
  /\ token' = 0 /\ expiresAt' = 0
  /\ attempt' = [attempt EXCEPT ![c] = @ + 1]
  /\ pc' = [pc EXCEPT ![c] = "token"]
  /\ UNCHANGED <<now, serverVars, refreshMu, using, refused, standing>>

(* Invalidate removes the cached token only if it is the rejected one.     *)
Invalidate(c) ==
  /\ pc[c] = "invalidate"
  /\ IF token = using[c] THEN token' = 0 /\ expiresAt' = 0 ELSE UNCHANGED cacheVars
  /\ attempt' = [attempt EXCEPT ![c] = @ + 1]
  /\ pc' = [pc EXCEPT ![c] = "token"]
  /\ UNCHANGED <<now, serverVars, refreshMu, using, refused, standing>>

(* A node name, or an answer that is not retried.                          *)
LookupReturns(c) ==
  /\ pc[c] = "lookup"
  /\ Return(c)
  /\ UNCHANGED <<now, serverVars, cacheVars, refreshMu, standing>>

(* A second passes, not over the time a response may be under way.         *)
Tick ==
  /\ now < MaxTime
  /\ (\E c \in Callers : pc[c] = "response") =>
       now < validUntil[issued] - life + MaxLatency
  /\ now' = now + 1
  /\ UNCHANGED <<serverVars, cacheVars, refreshMu, pc, loopVars, standing>>

TokenStep(c) ==
  \/ UseCached(c) \/ CacheMiss(c) \/ Recheck(c) \/ StoreToken(c) \/ IssueFails(c)
  \/ \E l \in Lifetimes : Grant(c, l)

LookupStep(c) == NotFound(c) \/ Rejected(c) \/ Invalidate(c) \/ LookupReturns(c)

Next ==
  \/ \E c \in Callers : BeginLookup(c) \/ LockRefresh(c) \/ TokenStep(c) \/ LookupStep(c)
  \/ Tick

Spec == Init /\ [][Next]_vars

(* Goroutines run, HTTP calls return (the clients have timeouts) and       *)
(* sync.Mutex does not starve a waiter.                                    *)
FairSpec ==
  Spec /\ \A c \in Callers : /\ WF_vars(TokenStep(c) \/ LookupStep(c))
                             /\ SF_vars(LockRefresh(c))

-----------------------------------------------------------------------------
TypeOK ==
  /\ now \in Nat
  /\ issued \in 0..MaxTokens
  /\ validUntil \in [Tokens -> Nat]
  /\ life \in Nat
  /\ token \in 0..MaxTokens
  /\ expiresAt \in Nat
  /\ refreshMu \in Callers \union {NoCaller}
  /\ pc \in [Callers -> {"idle", "token", "lock", "recheck", "request", "response",
                         "lookup", "invalidate"}]
  /\ using \in [Callers -> 0..MaxTokens]
  /\ attempt \in [Callers -> {0, 1, 2}]
  /\ refused \in [Callers -> 0..MaxTokens]
  /\ standing \in 0..MaxTokens

(* The two locks let one caller at a time contact auth-service: a token in *)
(* the cache that may still be used is never replaced by another one, and  *)
(* no older token ever replaces a newer one.                               *)
NoWastedRefresh ==
  [][token' # token /\ token' # 0 => ~CacheValid /\ token < token']_vars

(* A rejection that comes late costs nobody the token that has replaced    *)
(* the rejected one: auth-service is asked for another token only when the *)
(* last one that was stored has itself been rejected, or ends within the   *)
(* skew ("that newer token is preserved", auth.go:83-84).                  *)
NoNeedlessGrant ==
  [][issued' # issued => standing = 0 \/ validUntil[standing] <= now + Skew]_vars

(* A retry after a rejection never sends the rejected token again, however *)
(* the refreshes of other callers interleave with it.                      *)
RetryUsesNewToken ==
  \A c \in Callers : pc[c] = "lookup" /\ refused[c] # 0 => using[c] # refused[c]

(* A token is still accepted by auth-service when an attempt takes it,     *)
(* although the client starts its clock late: the skew covers the latency. *)
FreshWhenTaken ==
  [][\A c \in Callers : pc[c] # "lookup" /\ pc'[c] = "lookup"
                          => now < validUntil[using'[c]]]_vars

(* Every lookup ends: failed requests release refreshMu, and the retries   *)
(* are bounded.                                                            *)
LookupEnds == \A c \in Callers : pc[c] # "idle" ~> pc[c] = "idle"

(* What the proofs add.  Past refreshMu there is only its holder, who      *)
(* found no usable token; a response brings a token newer than all others, *)
(* with a known delay.                                                     *)
RefreshInv ==
  \A c \in Callers :
    /\ pc[c] \in {"recheck", "request", "response"} => refreshMu = c
    /\ pc[c] \in {"request", "response"} => ~CacheValid
    /\ pc[c] = "response" =>
         /\ issued # 0 /\ token < issued
         /\ \A d \in Callers : using[d] < issued /\ refused[d] < issued
         /\ life \in Lifetimes
         /\ validUntil[issued] <= now + life
         /\ now + life <= validUntil[issued] + MaxLatency

CacheInv ==
  /\ token <= issued
  /\ \A c \in Callers : using[c] <= issued /\ refused[c] <= issued
  /\ token # 0 => expiresAt <= validUntil[token] + MaxLatency

(* A refused token has left the cache, or its caller is about to drop it.  *)
RefusalInv ==
  \A c \in Callers :
    /\ pc[c] \in {"lookup", "invalidate"} => using[c] # 0
    /\ pc[c] = "idle" => refused[c] = 0 /\ attempt[c] = 0
    /\ pc[c] = "invalidate" => refused[c] = using[c] /\ attempt[c] = 0
    /\ refused[c] # 0 /\ pc[c] # "invalidate" =>
         /\ token # refused[c] /\ attempt[c] # 0
         /\ pc[c] = "lookup" => using[c] # refused[c]

(* A standing token is in the cache, with an end that is not too early;    *)
(* one that a caller is about to drop does not stand.                      *)
StandingInv ==
  /\ standing # 0 => standing = token /\ validUntil[token] <= expiresAt
  /\ \A c \in Callers : pc[c] = "invalidate" => using[c] # standing

TokenInv == RefreshInv /\ CacheInv /\ RefusalInv /\ StandingInv
=============================================================================
