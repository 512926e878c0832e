---------------------------- MODULE MCVncGateway ----------------------------
(* A connection that comes, relays, loses its access, fails and ends, and  *)
(* a shutdown of the gateway at any time.                                  *)
EXTENDS VncGateway
=============================================================================
