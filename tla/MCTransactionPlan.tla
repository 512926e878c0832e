------------------------- MODULE MCTransactionPlan -------------------------
(* One VM with two devices and two networks: VMs share nothing but         *)
(* networks.  The template has a device on a bridge of its own.            *)
EXTENDS TransactionPlan

CONSTANTS v1, n1, n2, tmpl, Clean

MCVMs == <<v1>>
MCNets == <<n1, n2>>
MCTemplate == [k \in Numbers |-> IF k = 0 THEN tmpl ELSE None]

Conn(num, n) == [num |-> num, net |-> n]

MCWishes ==
  [nets : {None, <<>>, <<Conn(None, n1)>>, <<Conn(1, n1)>>,
           <<Conn(0, n1), Conn(1, n2)>>, <<Conn(0, n2), Conn(None, n1)>>,
           <<Conn(1, n1), Conn(None, n1)>>},
   clean : Clean, running : BOOLEAN]
=============================================================================
