-------------------------- MODULE MCServiceToken --------------------------
(* Callers that look up nodes over and over while tokens with a short and  *)
(* a long life expire, are revoked and are refreshed.                      *)
EXTENDS ServiceToken, TLC

Symmetry == Permutations(Callers)
=============================================================================
