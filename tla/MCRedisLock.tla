---------------------------- MODULE MCRedisLock ----------------------------
(* One key, three clients, a lease of three seconds and requests that take *)
(* up to two: the clock is long enough for three leases in a row.          *)
EXTENDS RedisLock, TLC

Symmetry == Permutations(Clients)
=============================================================================
