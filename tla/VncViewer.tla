------------------------------ MODULE VncViewer ------------------------------
(***************************************************************************)
(* The browser's end of a VNC connection: the Svelte components NoVNC and  *)
(* RFB of single-vnc-page.  NoVNC renders one RFB component per value of   *)
(* key; the RFB component owns one noVNC object, which connects once and   *)
(* is useless after it has disconnected.  NoVNC replaces it by counting    *)
(* key up after a delay.  JavaScript runs one callback at a time, so each  *)
(* action is a callback with the flush of Svelte that follows it.          *)
(***************************************************************************)
EXTENDS Integers

CONSTANTS InitialReconnectDelay,  \* seconds
          MaximumReconnectDelay,  \* seconds
          MaxFailures             \* bound: connections that fail or are lost

ASSUME ViewerAssumption ==
  /\ InitialReconnectDelay \in Nat \ {0}
  /\ MaximumReconnectDelay \in Nat
  /\ InitialReconnectDelay <= MaximumReconnectDelay
  /\ MaxFailures \in Nat

VARIABLES
  mounted,         \* NoVNC is on the page
  connected,       \* NoVNC's flag, shown in the header
  key,             \* names the RFB component on the page
  reconnectDelay,
  reconnectTimer,  \* seconds left, or NoTimer
  rfb,             \* state of the noVNC object of each key
  active,          \* keys whose component still listens to its noVNC object
  failures,
  \* History, read by properties only:
  tries,           \* reconnections since the page was opened or last connected
  since            \* seconds since the present noVNC object has disconnected

noVNCVars == <<mounted, connected, key, reconnectDelay, reconnectTimer>>
rfbVars == <<rfb, active>>
historyVars == <<tries, since>>
viewerVars == <<noVNCVars, rfbVars, failures, historyVars>>

NoTimer == -1
Keys == 0 .. MaxFailures
Lower(a, b) == IF a <= b THEN a ELSE b

(* The states of a noVNC object (_rfbConnectionState).                     *)
RfbStates == {"none", "connecting", "connected", "disconnecting", "disconnected"}

(* The RFB component of key k is mounted: its noVNC object connects.       *)
Mount(objects, k) == [objects EXCEPT ![k] = "connecting"]

ViewerInit ==
  /\ mounted = TRUE
  /\ connected = FALSE
  /\ key = 0
  /\ reconnectDelay = InitialReconnectDelay
  /\ reconnectTimer = NoTimer
  /\ rfb = Mount([k \in Keys |-> "none"], 0)
  /\ active = {0}
  /\ failures = 0
  /\ tries = 0
  /\ since = 0

-----------------------------------------------------------------------------
(* NoVNC *)

(* Mutant of ScheduledTimer: no further attempt once the delay has reached *)
(* its maximum.                                                            *)
GivingUpTimer(conn) ==
  IF \/ ~mounted \/ conn \/ reconnectTimer # NoTimer
     \/ reconnectDelay = MaximumReconnectDelay
  THEN reconnectTimer
  ELSE reconnectDelay

(* scheduleReconnect, for the value conn of connected.                     *)
ScheduledTimer(conn) ==
  IF ~mounted \/ conn \/ reconnectTimer # NoTimer
  THEN reconnectTimer
  ELSE reconnectDelay

(* Mutant of UpdateConnect: the reconnection is scheduled before the flag  *)
(* is set.                                                                 *)
UpdateConnectLate(state) ==
  /\ connected' = state
  /\ IF state
     THEN /\ reconnectDelay' = InitialReconnectDelay
          /\ reconnectTimer' = NoTimer
     ELSE /\ reconnectTimer' = ScheduledTimer(connected)
          /\ UNCHANGED reconnectDelay

UpdateConnect(state) ==
  /\ connected' = state
  /\ IF state
     THEN /\ reconnectDelay' = InitialReconnectDelay
          /\ reconnectTimer' = NoTimer
     ELSE /\ reconnectTimer' = ScheduledTimer(state)
          /\ UNCHANGED reconnectDelay

(* Mutant of NextDelay: no backoff.                                        *)
SameDelay == reconnectDelay

NextDelay == Lower(2 * reconnectDelay, MaximumReconnectDelay)

-----------------------------------------------------------------------------
(* The RFB component *)

(* Mutant of Disconnected: the cleanup forgets to disconnect.              *)
StillConnected(k) == rfb

(* RFB.disconnect of noVNC: it closes the websocket, whose end is reported *)
(* later; a disconnected object ignores the call.                          *)
Disconnected(k) ==
  IF rfb[k] \in {"connecting", "connected"}
  THEN [rfb EXCEPT ![k] = "disconnecting"]
  ELSE rfb

HandleConnect(k) ==
  IF k \in active THEN UpdateConnect(TRUE) /\ UNCHANGED <<mounted, key>>
  ELSE UNCHANGED noVNCVars

HandleDisconnect(k) ==
  IF k \in active THEN UpdateConnect(FALSE) /\ UNCHANGED <<mounted, key>>
  ELSE UNCHANGED noVNCVars

(* The handshake of RFB ends well.                                         *)
Connect ==
  /\ rfb[key] = "connecting"
  /\ rfb' = [rfb EXCEPT ![key] = "connected"]
  /\ HandleConnect(key)
  /\ tries' = 0
  /\ UNCHANGED <<active, failures, since>>

(* The gateway refuses or ends the connection, the network does, or noVNC  *)
(* cannot go on: it disconnects and says so in one callback (_fail, and    *)
(* the close event of the websocket).                                      *)
Lose ==
  /\ rfb[key] \in {"connecting", "connected"}
  /\ failures < MaxFailures
  /\ failures' = failures + 1
  /\ rfb' = [rfb EXCEPT ![key] = "disconnected"]
  /\ HandleDisconnect(key)
  /\ since' = 0
  /\ UNCHANGED <<active, tries>>

(* The websocket of an object that was told to disconnect is closed, or    *)
(* noVNC has waited for it long enough.                                    *)
Closed(k) ==
  /\ rfb[k] = "disconnecting"
  /\ rfb' = [rfb EXCEPT ![k] = "disconnected"]
  /\ HandleDisconnect(k)
  /\ since' = IF k = key THEN 0 ELSE since
  /\ UNCHANGED <<active, failures, tries>>

(* Mutant of TimerFires: setInterval in place of setTimeout, and the       *)
(* callback does not look at the flag.                                     *)
IntervalFires ==
  /\ reconnectTimer = 0
  /\ key < MaxFailures
  /\ key' = key + 1
  /\ reconnectDelay' = NextDelay
  /\ active' = (active \ {key}) \union {key + 1}
  /\ rfb' = Mount(Disconnected(key), key + 1)
  /\ tries' = tries + 1
  /\ since' = 0
  /\ UNCHANGED <<reconnectTimer, mounted, connected, failures>>

(* The callback of the timer.  A new key makes Svelte destroy the RFB      *)
(* component, which stops listening and disconnects, and mount another.    *)
TimerFires ==
  /\ reconnectTimer = 0
  /\ reconnectTimer' = NoTimer
  /\ IF mounted /\ ~connected
     THEN /\ key' = key + 1
          /\ reconnectDelay' = NextDelay
          /\ active' = (active \ {key}) \union {key + 1}
          /\ rfb' = Mount(Disconnected(key), key + 1)
          /\ tries' = tries + 1
          /\ since' = 0
     ELSE UNCHANGED <<key, reconnectDelay, rfbVars, historyVars>>
  /\ UNCHANGED <<mounted, connected, failures>>

(* NoVNC leaves the page: its own cleanup, then that of its RFB component. *)
Unmount ==
  /\ mounted
  /\ mounted' = FALSE
  /\ reconnectTimer' = NoTimer
  /\ active' = active \ {key}
  /\ rfb' = Disconnected(key)
  /\ UNCHANGED <<connected, key, reconnectDelay, failures, historyVars>>

(* A second passes while nothing is connected.  A timer may be late.       *)
Tick ==
  /\ mounted
  /\ rfb[key] = "disconnected"
  /\ reconnectTimer > 0 \/ since < MaximumReconnectDelay
  /\ reconnectTimer' = IF reconnectTimer > 0 THEN reconnectTimer - 1 ELSE reconnectTimer
  /\ since' = Lower(since + 1, MaximumReconnectDelay)
  /\ UNCHANGED <<mounted, connected, key, reconnectDelay, rfbVars, failures, tries>>

ViewerNext ==
  \/ Connect
  \/ Lose
  \/ \E k \in Keys : Closed(k)
  \/ TimerFires
  \/ Unmount
  \/ Tick

ViewerSpec == ViewerInit /\ [][ViewerNext]_viewerVars

-----------------------------------------------------------------------------
ViewerTypeOK ==
  /\ mounted \in BOOLEAN
  /\ connected \in BOOLEAN
  /\ key \in Keys
  /\ reconnectDelay \in InitialReconnectDelay .. MaximumReconnectDelay
  /\ reconnectTimer \in NoTimer .. MaximumReconnectDelay
  /\ rfb \in [Keys -> RfbStates]
  /\ active \in SUBSET Keys
  /\ failures \in 0 .. MaxFailures
  /\ tries \in 0 .. MaxFailures
  /\ since \in 0 .. MaximumReconnectDelay

(* While the viewer is on the page it is connected and says so, or it is   *)
(* connecting, or it is going to try again: no order of connections,       *)
(* losses and timers leaves it idle, or with a timer that would replace a  *)
(* connection that works (NoVNC.svelte 31-39, 47-68; RFB.svelte 34-52).    *)
AlwaysTrying ==
  mounted =>
    \/ rfb[key] = "connected" /\ connected /\ reconnectTimer = NoTimer
    \/ rfb[key] = "connecting" /\ ~connected /\ reconnectTimer = NoTimer
    \/ rfb[key] = "disconnected" /\ ~connected /\ reconnectTimer # NoTimer

(* "Recreate noVNC only after a real disconnect" (NoVNC.svelte:54): a new  *)
(* RFB component never replaces one that is connected or still connecting. *)
ReconnectOnlyDead ==
  [][key' # key => rfb[key] = "disconnected" /\ ~connected]_viewerVars

(* The first delay, doubled n times.                                       *)
Doubled[n \in 0 .. MaxFailures] ==
  IF n = 0 THEN InitialReconnectDelay ELSE 2 * Doubled[n - 1]

(* "Backoff avoids a reconnect storm" (NoVNC.svelte:54-55): between a lost *)
(* connection and the next attempt lies a time that doubles with each      *)
(* attempt since the last connection, up to the maximum.                   *)
NoStorm ==
  [][key' # key => since >= Lower(Doubled[tries], MaximumReconnectDelay)]_viewerVars

(* When failures end, the viewer is connected again without the user's     *)
(* help, and stays so (the page promises it, Pages.hs:735).                *)
ComesBack == <>[](connected \/ ~mounted)

(* A viewer that has left the page leaves nothing behind that could        *)
(* connect or be told of a connection: its noVNC objects are disconnected  *)
(* or about to be, and no timer is set (NoVNC.svelte 73-76; RFB.svelte     *)
(* 43-54).                                                                 *)
GoneQuiet ==
  ~mounted => /\ \A k \in Keys : rfb[k] \notin {"connecting", "connected"}
              /\ active = {}
              /\ reconnectTimer = NoTimer

=============================================================================
