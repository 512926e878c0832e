----------------------------- MODULE VncGateway -----------------------------
(***************************************************************************)
(* websockify-go: the life of the VNC connections of the gateway           *)
(* (WebsocketVncProxyHandler in vncproxy.go).                              *)
(*                                                                         *)
(* ServeHTTP checks the access, opens the console on Proxmox, accepts the  *)
(* browser's websocket and registers a peer.  Four goroutines serve the    *)
(* peer: the heartbeat, the revalidation of access, and a pipe for each    *)
(* direction, the one from Proxmox being ServeHTTP itself.  Each of them,  *)
(* and the Close of the handler, may call the peer's Close.                *)
(* When a heartbeat is overdue is left open here: it may fail any time.    *)
(***************************************************************************)
EXTENDS Integers, FiniteSets

CONSTANTS Conns,     \* connections, one request of a browser each
          MaxFaults  \* bound of the access checks that bring no answer

Legs    == {"client", "Proxmox"}
Threads == {"heartbeat", "access"} \union Legs
Closers == Threads \union {"gateway"}

ASSUME GatewayAssumption == IsFiniteSet(Conns) /\ MaxFaults \in Nat

VARIABLES
  stage,      \* how far ServeHTTP has come for each connection
  open,       \* websockets that nobody has closed: pairs of a connection and a leg
  threads,    \* goroutines that serve each peer
  closed,     \* p.closed; p.done is closed with it
  closer,     \* who is inside the body of the peer's Close, or "none"
  asked,      \* what the access check under way will say, or "none"
  allowed,    \* connections that deployment-api grants the access
  peers,      \* h.peers
  connection, \* h.connection
  gateway,    \* "up", "closing" and, when Close has returned, "down"
  left,       \* peers of Close's snapshot that are still to be closed
  faults

peerVars == <<threads, closed, closer, asked>>
gateVars == <<gateway, left>>
vars == <<stage, open, peerVars, allowed, peers, connection, gateVars, faults>>

Init ==
  /\ stage = [c \in Conns |-> "new"]
  /\ open = {}
  /\ threads = [c \in Conns |-> {}]
  /\ closed = [c \in Conns |-> FALSE]
  /\ closer = [c \in Conns |-> "none"]
  /\ asked = [c \in Conns |-> "none"]
  /\ allowed = Conns
  /\ peers = {}
  /\ connection = 0
  /\ gateway = "up" /\ left = {}
  /\ faults = 0

Goto(c, place) == stage' = [stage EXCEPT ![c] = place]

-----------------------------------------------------------------------------
(* ServeHTTP *)

(* A request for a console arrives and its access is asked for.            *)
Request(c) ==
  /\ stage[c] = "new"
  /\ Goto(c, "access")
  /\ UNCHANGED <<open, peerVars, allowed, peers, connection, gateVars, faults>>

(* The answer, if there is one, decides; otherwise the request fails.      *)
CheckAccess(c) ==
  /\ stage[c] = "access"
  /\ \/ c \in allowed /\ Goto(c, "console")
     \/ Goto(c, "over")
  /\ UNCHANGED <<open, peerVars, allowed, peers, connection, gateVars, faults>>

(* lookupNode and OpenConsole: the websocket to Proxmox is there or not.   *)
OpenConsole(c) ==
  /\ stage[c] = "console"
  /\ \/ Goto(c, "upgrade") /\ open' = open \union {<<c, "Proxmox">>}
     \/ Goto(c, "over") /\ UNCHANGED open
  /\ UNCHANGED <<peerVars, allowed, peers, connection, gateVars, faults>>

Upgrade(c) ==
  /\ stage[c] = "upgrade"
  /\ Goto(c, "negotiate")
  /\ open' = open \union {<<c, "client">>}
  /\ UNCHANGED <<peerVars, allowed, peers, connection, gateVars, faults>>

Negotiate(c) ==
  /\ stage[c] = "negotiate"
  /\ Goto(c, "count")
  /\ UNCHANGED <<open, peerVars, allowed, peers, connection, gateVars, faults>>

(* Mutant of SetupFails: the console is not closed.                        *)
ConsoleStaysOpen(c) ==
  /\ stage[c] \in {"upgrade", "negotiate"}
  /\ Goto(c, "over")
  /\ open' = open \ {<<c, "client">>}
  /\ UNCHANGED <<peerVars, allowed, peers, connection, gateVars, faults>>

(* The upgrade or the RFB negotiation with the browser fails.              *)
SetupFails(c) ==
  /\ stage[c] \in {"upgrade", "negotiate"}
  /\ Goto(c, "over")
  /\ open' = open \ ({c} \X Legs)
  /\ UNCHANGED <<peerVars, allowed, peers, connection, gateVars, faults>>

(* atomic.AddInt64(&h.connection, 1) *)
Count(c) ==
  /\ stage[c] = "count"
  /\ connection' = connection + 1
  /\ Goto(c, "register")
  /\ UNCHANGED <<open, peerVars, allowed, peers, gateVars, faults>>

(* addPeer, and the goroutines start.                                      *)
Register(c) ==
  /\ stage[c] = "register"
  /\ peers' = peers \union {c}
  /\ threads' = [threads EXCEPT ![c] = Threads]
  /\ Goto(c, "relay")
  /\ UNCHANGED <<open, closed, closer, asked, allowed, connection, gateVars, faults>>

(* The deferred calls, the last one first: delPeer ...                     *)
Unregister(c) ==
  /\ stage[c] = "unregister"
  /\ peers' = peers \ {c}
  /\ Goto(c, "uncount")
  /\ UNCHANGED <<open, peerVars, allowed, connection, gateVars, faults>>

(* ... and atomic.AddInt64(&h.connection, -1).                             *)
Uncount(c) ==
  /\ stage[c] = "uncount"
  /\ connection' = connection - 1
  /\ Goto(c, "over")
  /\ UNCHANGED <<open, peerVars, allowed, peers, gateVars, faults>>

-----------------------------------------------------------------------------
(* peer.Close *)

(* Mutant of EnterClose: the flag is set without a comparison.             *)
EnterAlways(c, r) ==
  /\ closed' = [closed EXCEPT ![c] = TRUE]
  /\ closer' = [closer EXCEPT ![c] = r]

(* CompareAndSwap lets the first caller in; the others return at once.     *)
EnterClose(c, r) ==
  /\ closed' = [closed EXCEPT ![c] = TRUE]
  /\ closer' = IF closed[c] THEN closer ELSE [closer EXCEPT ![c] = r]

(* Mutant of ShutNext: the browser's websocket is forgotten.               *)
ShutProxmox(c) == {<<c, "Proxmox">>} \intersect open

(* Proxmox gets its close frame first, then the browser.                   *)
ShutNext(c) ==
  IF <<c, "Proxmox">> \in open THEN {<<c, "Proxmox">>}
                               ELSE {<<c, "client">>} \intersect open

SendClose(c) ==
  /\ closer[c] # "none"
  /\ open' = open \ ShutNext(c)
  /\ closer' = IF ShutNext(c) = {} THEN [closer EXCEPT ![c] = "none"] ELSE closer
  /\ UNCHANGED <<stage, threads, closed, asked, allowed, peers, connection, gateVars,
                 faults>>

-----------------------------------------------------------------------------
(* The goroutines of a peer *)

Serves(r, c) == r \in threads[c] /\ closer[c] # r

(* A pipe meets an error, a message that is not binary or a websocket that *)
(* is closed; the heartbeat cannot send a ping or misses a pong.           *)
Fails(c, r) ==
  /\ r # "access"
  /\ Serves(r, c)
  /\ ~closed[c]
  /\ EnterClose(c, r)
  /\ UNCHANGED <<stage, open, threads, asked, allowed, peers, connection, gateVars,
                 faults>>

(* Mutant of AskAccess: the ticker is read once only.                      *)
AskAccessOnce(c) ==
  /\ Serves("access", c) /\ ~closed[c]
  /\ asked[c] = "none" /\ faults = 0
  /\ asked' = [asked EXCEPT ![c] = IF c \in allowed THEN "granted" ELSE "denied"]
  /\ UNCHANGED <<stage, open, threads, closed, closer, allowed, peers, connection,
                 gateVars, faults>>

(* revalidateAccess: deployment-api is asked; its answer is under way.     *)
AskAccess(c) ==
  /\ Serves("access", c)
  /\ asked[c] = "none"
  /\ asked' = [asked EXCEPT ![c] = IF c \in allowed THEN "granted" ELSE "denied"]
  /\ UNCHANGED <<stage, open, threads, closed, closer, allowed, peers, connection,
                 gateVars, faults>>

(* validateAccess: a 4xx closes the peer, anything else does nothing.      *)
AnswerAccess(c) ==
  /\ Serves("access", c)
  /\ asked[c] # "none"
  /\ asked' = [asked EXCEPT ![c] = "none"]
  /\ IF asked[c] = "denied" THEN EnterClose(c, "access") ELSE UNCHANGED <<closed, closer>>
  /\ UNCHANGED <<stage, open, threads, allowed, peers, connection, gateVars, faults>>

(* No answer, or a 5xx.                                                    *)
AccessUnknown(c) ==
  /\ Serves("access", c)
  /\ asked[c] # "none"
  /\ faults < MaxFaults
  /\ faults' = faults + 1
  /\ asked' = [asked EXCEPT ![c] = "none"]
  /\ UNCHANGED <<stage, open, threads, closed, closer, allowed, peers, connection,
                 gateVars>>

(* A goroutine ends: the pipes on an error, which the websockets give them *)
(* at the latest when they are closed, the two loops on p.done.  ServeHTTP *)
(* goes on when the pipe from Proxmox has ended.                           *)
Ends(c, r) ==
  /\ Serves(r, c)
  /\ closed[c]
  /\ r = "access" => asked[c] = "none"
  /\ threads' = [threads EXCEPT ![c] = @ \ {r}]
  /\ IF r = "Proxmox" THEN Goto(c, "unregister") ELSE UNCHANGED stage
  /\ UNCHANGED <<open, closed, closer, asked, allowed, peers, connection, gateVars,
                 faults>>

-----------------------------------------------------------------------------
(* The handler's Close, which anyone who owns the handler may call at any  *)
(* time.  The program itself does not get there: main defers it behind     *)
(* ListenAndServe, whose error ends the process at once (log.Fatal).       *)

(* closeOnce; peerSnapshot *)
Shutdown ==
  /\ gateway = "up"
  /\ gateway' = "closing"
  /\ left' = peers
  /\ UNCHANGED <<stage, open, peerVars, allowed, peers, connection, faults>>

AtPeer == \E c \in Conns : closer[c] = "gateway"

(* Mutant of ShutdownPeer: peers that are busy are passed by.              *)
ShutdownIdle(c) ==
  /\ c \in left
  /\ ~AtPeer
  /\ left' = left \ {c}
  /\ IF asked[c] = "none" THEN EnterClose(c, "gateway") ELSE UNCHANGED <<closed, closer>>
  /\ UNCHANGED <<stage, open, threads, asked, allowed, peers, connection, gateway,
                 faults>>

ShutdownPeer(c) ==
  /\ c \in left
  /\ ~AtPeer
  /\ left' = left \ {c}
  /\ EnterClose(c, "gateway")
  /\ UNCHANGED <<stage, open, threads, asked, allowed, peers, connection, gateway,
                 faults>>

ShutdownEnds ==
  /\ gateway = "closing"
  /\ left = {} /\ ~AtPeer
  /\ gateway' = "down"
  /\ UNCHANGED <<stage, open, peerVars, allowed, peers, connection, left, faults>>

(* deployment-api withdraws the access; it is not given back here.         *)
Revoke(c) ==
  /\ c \in allowed
  /\ allowed' = allowed \ {c}
  /\ UNCHANGED <<stage, open, peerVars, peers, connection, gateVars, faults>>

-----------------------------------------------------------------------------
Serve(c) ==
  \/ CheckAccess(c) \/ OpenConsole(c) \/ Upgrade(c) \/ Negotiate(c) \/ SetupFails(c)
  \/ Count(c) \/ Register(c) \/ Unregister(c) \/ Uncount(c)

Revalidate(c) == AskAccess(c) \/ AnswerAccess(c) \/ AccessUnknown(c)

Next ==
  \/ \E c \in Conns : \/ Request(c) \/ Serve(c) \/ SendClose(c) \/ Revalidate(c)
                      \/ Revoke(c) \/ ShutdownPeer(c)
                      \/ \E r \in Threads : Fails(c, r) \/ Ends(c, r)
  \/ Shutdown \/ ShutdownEnds

Spec == Init /\ [][Next]_vars

(* Goroutines run, requests and writes end at their time-outs, a closed    *)
(* websocket ends the pipe that reads it, and the ticker of the            *)
(* revalidation keeps ticking.  Nothing makes a pipe or a heartbeat fail.  *)
PipeReadsClosed(c, r) == r \in Legs => <<c, r>> \notin open

FairSpec ==
  /\ Spec
  /\ \A c \in Conns :
       /\ WF_vars(Serve(c)) /\ WF_vars(SendClose(c)) /\ WF_vars(Revalidate(c))
       /\ \A r \in Threads : SF_vars(PipeReadsClosed(c, r) /\ Ends(c, r))
  /\ WF_vars(ShutdownEnds \/ \E c \in Conns : ShutdownPeer(c))

-----------------------------------------------------------------------------
TypeOK ==
  /\ stage \in [Conns -> {"new", "access", "console", "upgrade", "negotiate", "count",
                          "register", "relay", "unregister", "uncount", "over"}]
  /\ open \subseteq Conns \X Legs
  /\ threads \in [Conns -> SUBSET Threads]
  /\ closed \in [Conns -> BOOLEAN]
  /\ closer \in [Conns -> Closers \union {"none"}]
  /\ asked \in [Conns -> {"none", "granted", "denied"}]
  /\ allowed \subseteq Conns
  /\ peers \subseteq Conns
  /\ connection \in Int
  /\ gateway \in {"up", "closing", "down"}
  /\ left \subseteq Conns
  /\ faults \in 0..MaxFaults

(* Whichever way a connection ends, neither of its websockets stays open   *)
(* when ServeHTTP has returned, unless another goroutine is just about to  *)
(* close it; and a peer that is marked closed is never abandoned half-way. *)
NoOpenLeft ==
  \A c \in Conns : (stage[c] = "over" \/ closed[c]) /\ ({c} \X Legs) \intersect open # {}
                     => closer[c] # "none"

(* The body of a peer's Close runs once, whoever calls it at the same      *)
(* time: nobody enters a peer that is closed.                              *)
ClosedOnce ==
  [][\A c \in Conns : closed[c] => closer'[c] \in {closer[c], "none"}]_vars

(* The counter that the logs show is never below the number of peers in    *)
(* the table, although the two change in separate steps.                   *)
PeersCounted == Cardinality(peers) <= connection

(* What the proofs add: goroutines, entries of the table and closed flags  *)
(* exist only once ServeHTTP has come to its relay, which it leaves when   *)
(* the peer is closed; the counter counts the requests in between.         *)
Counted == {c \in Conns : stage[c] \in {"register", "relay", "unregister", "uncount"}}

CountInv ==
  /\ connection = Cardinality(Counted)
  /\ \A c \in peers : stage[c] \in {"relay", "unregister"}

PeerInv ==
  \A c \in Conns :
    /\ stage[c] \in {"new", "access", "console"} => ({c} \X Legs) \intersect open = {}
    /\ c \in left \/ threads[c] # {} \/ closed[c]
         => stage[c] \in {"relay", "unregister", "uncount", "over"}
    /\ "Proxmox" \in threads[c] => stage[c] = "relay"
    /\ closer[c] # "none" => closed[c]
    /\ stage[c] \in {"unregister", "uncount"} => closed[c]

GatewayInv == NoOpenLeft /\ CountInv /\ PeerInv

(* A relay whose access is withdrawn gets closed, although checks fail.    *)
RevokedCloses ==
  \A c \in Conns : c \notin allowed /\ stage[c] = "relay" ~> closed[c]

(* A closed peer leaves nothing behind: no goroutine, no websocket, no     *)
(* entry in the table.                                                     *)
ClosedLeaves ==
  \A c \in Conns : closed[c] ~> /\ stage[c] = "over" /\ threads[c] = {}
                                /\ ({c} \X Legs) \intersect open = {}

(* What the handler promises to an owner that closes it: Close ends, and   *)
(* every peer of its snapshot is closed, whoever else closes peers at the  *)
(* same time.                                                              *)
ShutdownCloses ==
  /\ gateway = "closing" ~> gateway = "down"
  /\ \A c \in Conns : c \in left ~> closed[c]
=============================================================================
