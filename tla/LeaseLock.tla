----------------------------- MODULE LeaseLock -----------------------------
(***************************************************************************)
(* What the services of labforge expect of one Redis lock key: a lease.    *)
(* At most one client owns the key; a client inside the protected block    *)
(* owns the key unless its lease ran out; leaving the block gives the key  *)
(* back only if the client still owns it.  Time, tokens and Redis replies  *)
(* do not appear here: RedisLock is the detailed specification and         *)
(* implements this one.                                                    *)
(***************************************************************************)

CONSTANTS Clients,  \* threads of all service processes that use the key
          NoClient  \* the owner of a free key

VARIABLES owner,    \* the client the key is leased to, or NoClient
          inside    \* the clients running the protected block

vars == <<owner, inside>>

Init == owner = NoClient /\ inside = {}

(* A client outside the block gets a free key and enters the block.        *)
Acquire(c) ==
  /\ owner = NoClient
  /\ c \notin inside
  /\ owner' = c
  /\ inside' = inside \union {c}

(* The block ended: the key is freed only if it is still this client's.    *)
Release(c) ==
  /\ c \in inside
  /\ inside' = inside \ {c}
  /\ owner' = IF owner = c THEN NoClient ELSE owner

(* The block was left by an exception or a crash: the key stays leased.    *)
Abandon(c) ==
  /\ c \in inside
  /\ inside' = inside \ {c}
  /\ UNCHANGED owner

(* The lease runs out, whether or not its owner is still inside.           *)
Expire ==
  /\ owner # NoClient
  /\ owner' = NoClient
  /\ UNCHANGED inside

Next == \/ \E c \in Clients : Acquire(c) \/ Release(c) \/ Abandon(c)
        \/ Expire

Spec == Init /\ [][Next]_vars
=============================================================================
