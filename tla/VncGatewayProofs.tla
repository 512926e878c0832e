-------------------------- MODULE VncGatewayProofs --------------------------
(***************************************************************************)
(* Theorems about the connections of the VNC gateway, for any finite set   *)
(* of them and any number of access checks without an answer.              *)
(***************************************************************************)
EXTENDS VncGateway, FiniteSetTheorems, TLAPS

LEMMA NextType == TypeOK /\ [Next]_vars => TypeOK'
<1> SUFFICES ASSUME TypeOK, [Next]_vars PROVE TypeOK'
  OBVIOUS
<1> USE GatewayAssumption DEF TypeOK, peerVars, gateVars, Goto, Legs, Threads, Closers
<1>1. ASSUME NEW c \in Conns, Request(c) \/ Serve(c) PROVE TypeOK'
  <2>1. CASE Request(c) \/ CheckAccess(c) \/ OpenConsole(c)
    BY <2>1 DEF Request, CheckAccess, OpenConsole
  <2>2. CASE Upgrade(c) \/ Negotiate(c) \/ SetupFails(c)
    BY <2>2 DEF Upgrade, Negotiate, SetupFails
  <2>3. CASE Count(c) \/ Register(c)
    BY <2>3 DEF Count, Register
  <2>4. CASE Unregister(c) \/ Uncount(c)
    BY <2>4 DEF Unregister, Uncount
  <2>5. QED
    BY <1>1, <2>1, <2>2, <2>3, <2>4 DEF Serve
<1>2. ASSUME NEW c \in Conns, SendClose(c) PROVE TypeOK'
  BY <1>2 DEF SendClose
<1>3. ASSUME NEW c \in Conns, Revalidate(c) PROVE TypeOK'
  <2>1. CASE AskAccess(c)
    BY <2>1 DEF AskAccess
  <2>2. CASE AnswerAccess(c)
    BY <2>2 DEF AnswerAccess, EnterClose
  <2>3. CASE AccessUnknown(c)
    BY <2>3 DEF AccessUnknown
  <2>4. QED
    BY <1>3, <2>1, <2>2, <2>3 DEF Revalidate
<1>4. ASSUME NEW c \in Conns, NEW r \in Threads, Fails(c, r) \/ Ends(c, r)
      PROVE  TypeOK'
  <2>1. CASE Fails(c, r)
    BY <2>1 DEF Fails, EnterClose
  <2>2. CASE Ends(c, r)
    <3>1. threads' \in [Conns -> SUBSET Threads]
      BY <2>2 DEF Ends
    <3>2. stage' \in [Conns -> {"new", "access", "console", "upgrade", "negotiate", "count",
                               "register", "relay", "unregister", "uncount", "over"}]
      BY <2>2 DEF Ends
    <3>3. QED
      BY <2>2, <3>1, <3>2 DEF Ends
  <2>3. QED
    BY <1>4, <2>1, <2>2
<1>5. ASSUME NEW c \in Conns, Revoke(c) \/ ShutdownPeer(c) PROVE TypeOK'
  BY <1>5 DEF Revoke, ShutdownPeer, EnterClose
<1>6. CASE Shutdown \/ ShutdownEnds
  BY <1>6 DEF Shutdown, ShutdownEnds
<1>7. CASE UNCHANGED vars
  BY <1>7 DEF vars
<1>8. QED
  BY <1>1, <1>2, <1>3, <1>4, <1>5, <1>6, <1>7 DEF Next

(* The counter follows the stages: one request at a time is counted or     *)
(* given up, all others leave the set as it is.                            *)
LEMMA CountStep ==
  ASSUME TypeOK, GatewayInv, [Next]_vars PROVE CountInv'
<1> USE DEF TypeOK, peerVars, gateVars, Goto, GatewayInv
<1>0. IsFiniteSet(Counted)
  BY GatewayAssumption, FS_Subset DEF Counted
<1>1. ASSUME NEW c \in Conns, Count(c) PROVE CountInv'
  <2>1. Counted' = Counted \union {c} /\ c \notin Counted
    BY <1>1 DEF Count, Counted
  <2>2. Cardinality(Counted') = Cardinality(Counted) + 1
    BY <1>0, <2>1, FS_AddElement
  <2>3. QED
    BY <1>1, <2>2 DEF Count, CountInv
<1>2. ASSUME NEW c \in Conns, Uncount(c) PROVE CountInv'
  <2>1. Counted' = Counted \ {c} /\ c \in Counted
    BY <1>2 DEF Uncount, Counted
  <2>2. Cardinality(Counted') = Cardinality(Counted) - 1
    BY <1>0, <2>1, FS_RemoveElement
  <2>3. QED
    BY <1>2, <2>2 DEF Uncount, CountInv
<1>3. ASSUME NEW c \in Conns,
             \/ Request(c) \/ CheckAccess(c) \/ OpenConsole(c) \/ Upgrade(c)
             \/ Negotiate(c) \/ SetupFails(c) \/ Register(c) \/ Unregister(c)
      PROVE  CountInv'
  <2>1. Counted' = Counted
    BY <1>3 DEF Request, CheckAccess, OpenConsole, Upgrade, Negotiate, SetupFails,
                Register, Unregister, Counted
  <2>2. QED
    BY <1>3, <2>1 DEF Request, CheckAccess, OpenConsole, Upgrade, Negotiate,
                      SetupFails, Register, Unregister, CountInv
<1>4. ASSUME NEW c \in Conns, NEW r \in Threads, Ends(c, r) PROVE CountInv'
  <2>1. r = "Proxmox" => stage[c] = "relay"
    BY <1>4 DEF Ends, Serves, PeerInv
  <2>2. Counted' = Counted
    BY <1>4, <2>1 DEF Ends, Counted
  <2>3. QED
    BY <1>4, <2>1, <2>2 DEF Ends, CountInv
<1>5. ASSUME UNCHANGED <<stage, peers, connection>> PROVE CountInv'
  BY <1>5 DEF CountInv, Counted
<1>6. QED
  <2>1. ASSUME NEW c \in Conns, SendClose(c) \/ Revalidate(c) \/ Revoke(c) \/ ShutdownPeer(c)
        PROVE  CountInv'
    BY <1>5, <2>1 DEF SendClose, Revalidate, AskAccess, AnswerAccess, AccessUnknown,
                      Revoke, ShutdownPeer
  <2>2. ASSUME NEW c \in Conns, NEW r \in Threads, Fails(c, r) PROVE CountInv'
    BY <1>5, <2>2 DEF Fails
  <2>3. CASE Shutdown \/ ShutdownEnds
    BY <1>5, <2>3 DEF Shutdown, ShutdownEnds
  <2>4. CASE UNCHANGED vars
    BY <1>5, <2>4 DEF vars
  <2>5. QED
    BY <1>1, <1>2, <1>3, <1>4, <2>1, <2>2, <2>3, <2>4 DEF Next, Serve

(* Whoever calls Close, an open websocket of a closed peer has a closer.   *)
LEMMA PeerStep ==
  ASSUME TypeOK, GatewayInv, [Next]_vars PROVE PeerInv' /\ NoOpenLeft'
<1> USE DEF TypeOK, peerVars, gateVars, Goto, GatewayInv, PeerInv, NoOpenLeft, Legs
<1>1. ASSUME NEW c \in Conns, Request(c) \/ CheckAccess(c) \/ OpenConsole(c)
      PROVE  PeerInv' /\ NoOpenLeft'
  BY <1>1 DEF Request, CheckAccess, OpenConsole
<1>2. ASSUME NEW c \in Conns, Upgrade(c) \/ Negotiate(c) \/ SetupFails(c)
      PROVE  PeerInv' /\ NoOpenLeft'
  BY <1>2 DEF Upgrade, Negotiate, SetupFails
<1>3. ASSUME NEW c \in Conns, Count(c) \/ Register(c) \/ Unregister(c) \/ Uncount(c)
      PROVE  PeerInv' /\ NoOpenLeft'
  BY <1>3 DEF Count, Register, Unregister, Uncount
<1>4. ASSUME NEW c \in Conns, SendClose(c) PROVE PeerInv' /\ NoOpenLeft'
  BY <1>4 DEF SendClose, ShutNext
<1>5. ASSUME NEW c \in Conns, NEW r \in Threads, Fails(c, r)
      PROVE  PeerInv' /\ NoOpenLeft'
  BY <1>5 DEF Fails, Serves, EnterClose, Threads
<1>6. ASSUME NEW c \in Conns, NEW r \in Threads, Ends(c, r)
      PROVE  PeerInv' /\ NoOpenLeft'
  BY <1>6 DEF Ends, Serves
<1>7. ASSUME NEW c \in Conns, Revalidate(c) PROVE PeerInv' /\ NoOpenLeft'
  BY <1>7 DEF Revalidate, AskAccess, AnswerAccess, AccessUnknown, Serves, EnterClose
<1>8. ASSUME NEW c \in Conns, ShutdownPeer(c) PROVE PeerInv' /\ NoOpenLeft'
  BY <1>8 DEF ShutdownPeer, EnterClose
<1>9. CASE Shutdown
  BY <1>9 DEF Shutdown, CountInv
<1>10. QED
  <2>1. ASSUME NEW c \in Conns, Revoke(c) PROVE PeerInv' /\ NoOpenLeft'
    BY <2>1 DEF Revoke
  <2>2. CASE ShutdownEnds \/ UNCHANGED vars
    BY <2>2 DEF ShutdownEnds, vars
  <2>3. QED
    BY <1>1, <1>2, <1>3, <1>4, <1>5, <1>6, <1>7, <1>8, <1>9, <2>1, <2>2 DEF Next, Serve

-----------------------------------------------------------------------------
(* The variables keep their types.                                         *)
THEOREM TypeCorrect == Spec => []TypeOK
<1>1. Init => TypeOK
  BY GatewayAssumption DEF Init, TypeOK
<1>2. QED
  BY <1>1, NextType, PTL DEF Spec

(* The inductive invariant of the goroutines, the table and the counter.   *)
THEOREM GatewayInvariant == Spec => []GatewayInv
<1>1. Init => GatewayInv
  <2>1. Init => Counted = {}
    BY DEF Init, Counted
  <2>2. QED
    BY <2>1, FS_EmptySet DEF Init, GatewayInv, NoOpenLeft, CountInv, PeerInv
<1>2. TypeOK /\ GatewayInv /\ [Next]_vars => GatewayInv'
  BY CountStep, PeerStep DEF GatewayInv
<1>3. QED
  BY <1>1, <1>2, TypeCorrect, PTL DEF Spec

(* Every way out of a connection closes both its websockets (SetupFails,   *)
(* and peer.Close by whichever goroutine).                                 *)
THEOREM NoOpenLeftTheorem == Spec => []NoOpenLeft
BY GatewayInvariant, PTL DEF GatewayInv

(* The counter of ServeHTTP is never below the size of h.peers.            *)
THEOREM PeersCountedTheorem == Spec => []PeersCounted
<1>1. TypeOK /\ GatewayInv => PeersCounted
  <2> SUFFICES ASSUME TypeOK, GatewayInv PROVE PeersCounted
    OBVIOUS
  <2>1. peers \subseteq Counted
    BY DEF TypeOK, GatewayInv, CountInv, Counted
  <2>2. IsFiniteSet(Counted)
    BY GatewayAssumption, FS_Subset DEF Counted
  <2>3. QED
    BY <2>1, <2>2, FS_Subset DEF GatewayInv, CountInv, PeersCounted
<1>2. QED
  BY <1>1, TypeCorrect, GatewayInvariant, PTL

(* CompareAndSwap lets one caller of peer.Close into its body.             *)
THEOREM ClosedOnceTheorem == Spec => ClosedOnce
<1>1. TypeOK /\ [Next]_vars
        => [\A c \in Conns : closed[c] => closer'[c] \in {closer[c], "none"}]_vars
  <2> SUFFICES ASSUME TypeOK, Next, NEW d \in Conns, closed[d]
      PROVE  closer'[d] \in {closer[d], "none"}
    BY DEF vars
  <2> USE DEF TypeOK, peerVars
  <2>1. ASSUME NEW c \in Conns, Request(c) \/ Serve(c)
        PROVE  closer' = closer
    BY <2>1 DEF Request, Serve, CheckAccess, OpenConsole, Upgrade, Negotiate, SetupFails,
                Count, Register, Unregister, Uncount
  <2>2. ASSUME NEW c \in Conns, SendClose(c) PROVE closer'[d] \in {closer[d], "none"}
    BY <2>2 DEF SendClose
  <2>3. ASSUME NEW c \in Conns, NEW r \in Threads, Fails(c, r) \/ Ends(c, r)
        PROVE  closer'[d] = closer[d]
    BY <2>3 DEF Fails, Ends, EnterClose
  <2>4. ASSUME NEW c \in Conns, Revalidate(c) \/ Revoke(c) \/ ShutdownPeer(c)
        PROVE  closer'[d] = closer[d]
    BY <2>4 DEF Revalidate, AskAccess, AnswerAccess, AccessUnknown, Revoke, ShutdownPeer,
                EnterClose
  <2>5. CASE Shutdown \/ ShutdownEnds
    BY <2>5 DEF Shutdown, ShutdownEnds
  <2>6. QED
    BY <2>1, <2>2, <2>3, <2>4, <2>5 DEF Next
<1>2. QED
  BY <1>1, TypeCorrect, PTL DEF Spec, ClosedOnce
=============================================================================
