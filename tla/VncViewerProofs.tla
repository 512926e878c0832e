--------------------------- MODULE VncViewerProofs ---------------------------
(***************************************************************************)
(* What holds of the viewer for every bound of failures and every pair of  *)
(* delays, together with the texts that are pasted.                        *)
(***************************************************************************)
EXTENDS VncPage, SequenceTheorems, WellFoundedInduction, TLAPS

(* One noVNC object after another: those before the present key are dead,  *)
(* those behind it do not exist yet, and only the component on the page    *)
(* listens.  Each object but the last was lost, so there are as many keys  *)
(* as failures.                                                            *)
OneByOne ==
  /\ active = IF mounted THEN {key} ELSE {}
  /\ \A k \in Keys : k < key => rfb[k] = "disconnected"
  /\ \A k \in Keys : key < k => rfb[k] = "none"
  /\ key <= failures
  /\ tries <= key
  /\ mounted /\ rfb[key] = "disconnected" => key < failures

ViewerInv == ViewerTypeOK /\ OneByOne /\ AlwaysTrying /\ GoneQuiet

LEMMA ViewerInitInv == ViewerInit => ViewerInv
<1> SUFFICES ASSUME ViewerInit PROVE ViewerInv
  OBVIOUS
<1> USE ViewerAssumption DEF ViewerInit, Mount, Keys, NoTimer, RfbStates
<1>1. ViewerTypeOK
  <2>1. rfb \in [Keys -> RfbStates]
    OBVIOUS
  <2>2. /\ key \in Keys /\ active \in SUBSET Keys
        /\ failures \in 0 .. MaxFailures /\ tries \in 0 .. MaxFailures
    OBVIOUS
  <2>3. /\ reconnectDelay \in InitialReconnectDelay .. MaximumReconnectDelay
        /\ reconnectTimer \in NoTimer .. MaximumReconnectDelay
        /\ since \in 0 .. MaximumReconnectDelay
    OBVIOUS
  <2>4. mounted \in BOOLEAN /\ connected \in BOOLEAN
    OBVIOUS
  <2> QED BY <2>1, <2>2, <2>3, <2>4 DEF ViewerTypeOK
<1>2. OneByOne
  BY DEF OneByOne
<1>3. AlwaysTrying /\ GoneQuiet
  BY DEF AlwaysTrying, GoneQuiet
<1> QED BY <1>1, <1>2, <1>3 DEF ViewerInv

(* What the present noVNC object and the flags are while the viewer is on  *)
(* the page.                                                               *)
LEMMA OnThePage ==
  ASSUME ViewerInv
  PROVE  /\ key \in Keys /\ key \in Nat /\ Keys \subseteq Nat
         /\ rfb \in [Keys -> RfbStates]
         /\ \A k \in Keys : rfb[k] \in {"connecting", "connected"} => k = key /\ mounted
         /\ \A k \in active : k = key /\ mounted
         /\ mounted => rfb[key] # "none"
BY ViewerAssumption DEF ViewerInv, ViewerTypeOK, OneByOne, AlwaysTrying, GoneQuiet, Keys, RfbStates

LEMMA ConnectStep ==
  ASSUME ViewerInv, Connect
  PROVE  ViewerInv'
<1> USE ViewerAssumption, OnThePage DEF ViewerInv
<1>1. mounted /\ key \in active /\ rfb[key] = "connecting"
  BY DEF Connect, OneByOne
<1>2. /\ connected' = TRUE /\ reconnectDelay' = InitialReconnectDelay
      /\ reconnectTimer' = NoTimer
      /\ UNCHANGED <<mounted, key, active, failures, since>>
      /\ tries' = 0
  BY <1>1 DEF Connect, HandleConnect, UpdateConnect
<1>3. rfb' = [rfb EXCEPT ![key] = "connected"]
  BY DEF Connect
<1>4. rfb' \in [Keys -> RfbStates] /\ rfb'[key] = "connected"
  BY <1>3 DEF RfbStates
<1>5. \A k \in Keys : k # key => rfb'[k] = rfb[k]
  BY <1>3
<1>6. ViewerTypeOK'
  BY <1>2, <1>4 DEF ViewerTypeOK, NoTimer
<1>7. OneByOne'
  BY <1>2, <1>4, <1>5 DEF OneByOne, ViewerTypeOK, Keys
<1>8. AlwaysTrying' /\ GoneQuiet'
  BY <1>1, <1>2, <1>4 DEF AlwaysTrying, GoneQuiet
<1> QED BY <1>6, <1>7, <1>8

LEMMA LoseStep ==
  ASSUME ViewerInv, Lose
  PROVE  ViewerInv'
<1> USE ViewerAssumption, OnThePage DEF ViewerInv
<1>1. mounted /\ key \in active /\ reconnectTimer = NoTimer
  BY DEF Lose, OneByOne, AlwaysTrying
<1>2. /\ connected' = FALSE /\ reconnectTimer' = reconnectDelay
      /\ UNCHANGED <<mounted, key, active, reconnectDelay, tries>>
      /\ failures < MaxFailures /\ failures' = failures + 1
      /\ since' = 0
  BY <1>1 DEF Lose, HandleDisconnect, UpdateConnect, ScheduledTimer
<1>3. rfb' = [rfb EXCEPT ![key] = "disconnected"]
  BY DEF Lose
<1>4. rfb' \in [Keys -> RfbStates] /\ rfb'[key] = "disconnected"
  BY <1>3 DEF RfbStates
<1>5. \A k \in Keys : k # key => rfb'[k] = rfb[k]
  BY <1>3
<1>6. reconnectDelay \in Nat \ {0} /\ reconnectTimer' # NoTimer
  BY <1>2 DEF ViewerTypeOK, NoTimer
<1>7. ViewerTypeOK'
  <2>1. failures' \in 0 .. MaxFailures /\ reconnectTimer' \in NoTimer .. MaximumReconnectDelay
    BY <1>2 DEF ViewerTypeOK, NoTimer
  <2>2. since' \in 0 .. MaximumReconnectDelay
    BY <1>2
  <2> QED BY <1>2, <1>4, <2>1, <2>2 DEF ViewerTypeOK
<1>8. OneByOne'
  BY <1>2, <1>4, <1>5 DEF OneByOne, ViewerTypeOK, Keys
<1>9. AlwaysTrying' /\ GoneQuiet'
  BY <1>1, <1>2, <1>4, <1>6 DEF AlwaysTrying, GoneQuiet
<1> QED BY <1>7, <1>8, <1>9

LEMMA ClosedStep ==
  ASSUME ViewerInv, NEW k \in Keys, Closed(k)
  PROVE  ViewerInv'
<1> USE ViewerAssumption, OnThePage DEF ViewerInv
<1>1. rfb[k] = "disconnecting" /\ rfb' = [rfb EXCEPT ![k] = "disconnected"]
  BY DEF Closed
<1>2. k = key
  BY <1>1 DEF ViewerTypeOK, OneByOne, Keys
<1>3. ~mounted /\ UNCHANGED <<noVNCVars, active, failures, tries>> /\ since' = 0
  <2>1. ~mounted
    BY <1>1, <1>2 DEF AlwaysTrying
  <2>2. k \notin active
    BY <2>1 DEF OneByOne
  <2> QED BY <1>2, <2>1, <2>2 DEF Closed, HandleDisconnect, UpdateConnect
<1>4. rfb' \in [Keys -> RfbStates] /\ rfb'[key] = "disconnected"
  BY <1>1, <1>2 DEF RfbStates
<1>5. \A j \in Keys : j # key => rfb'[j] = rfb[j]
  BY <1>1, <1>2
<1>6. ViewerTypeOK'
  BY <1>3, <1>4 DEF noVNCVars, ViewerTypeOK
<1>7. OneByOne'
  BY <1>3, <1>4, <1>5 DEF noVNCVars, OneByOne, ViewerTypeOK, Keys
<1>8. AlwaysTrying' /\ GoneQuiet'
  BY <1>3, <1>4, <1>5 DEF noVNCVars, AlwaysTrying, GoneQuiet
<1> QED BY <1>6, <1>7, <1>8

LEMMA TimerFiresStep ==
  ASSUME ViewerInv, TimerFires
  PROVE  ViewerInv'
<1> USE ViewerAssumption, OnThePage DEF ViewerInv
<1>1. reconnectTimer = 0 /\ reconnectTimer' = NoTimer
      /\ UNCHANGED <<mounted, connected, failures>>
  BY DEF TimerFires
<1>2. mounted /\ rfb[key] = "disconnected" /\ ~connected
  BY <1>1 DEF AlwaysTrying, GoneQuiet, NoTimer
<1>3. /\ key' = key + 1 /\ reconnectDelay' = NextDelay
      /\ active' = (active \ {key}) \union {key + 1}
      /\ rfb' = [rfb EXCEPT ![key + 1] = "connecting"]
      /\ tries' = tries + 1 /\ since' = 0
  BY <1>2 DEF TimerFires, Disconnected, Mount
<1>4. key + 1 \in Keys /\ key + 1 <= failures
  BY <1>2 DEF OneByOne, ViewerTypeOK, Keys
<1>5. rfb' \in [Keys -> RfbStates] /\ rfb'[key'] = "connecting"
  BY <1>3, <1>4 DEF RfbStates
<1>6. \A j \in Keys : j # key + 1 => rfb'[j] = rfb[j]
  BY <1>3
<1>7. reconnectDelay' \in InitialReconnectDelay .. MaximumReconnectDelay
  BY <1>3 DEF NextDelay, Lower, ViewerTypeOK
<1>8. active' = {key'}
  BY <1>2, <1>3 DEF OneByOne
<1>9. ViewerTypeOK'
  BY <1>1, <1>3, <1>4, <1>5, <1>7, <1>8 DEF ViewerTypeOK, NoTimer, OneByOne, Keys
<1>10. OneByOne'
  <2>1. \A j \in Keys : j < key' => rfb'[j] = "disconnected"
    BY <1>2, <1>3, <1>6 DEF OneByOne, Keys
  <2>2. \A j \in Keys : key' < j => rfb'[j] = "none"
    BY <1>3, <1>6 DEF OneByOne, Keys
  <2>3. key' <= failures' /\ tries' <= key'
    BY <1>1, <1>3, <1>4 DEF OneByOne, ViewerTypeOK
  <2> QED BY <1>1, <1>2, <1>5, <1>8, <2>1, <2>2, <2>3 DEF OneByOne, Keys
<1>11. AlwaysTrying' /\ GoneQuiet'
  BY <1>1, <1>2, <1>5 DEF AlwaysTrying, GoneQuiet
<1> QED BY <1>9, <1>10, <1>11

LEMMA UnmountStep ==
  ASSUME ViewerInv, Unmount
  PROVE  ViewerInv'
<1> USE ViewerAssumption, OnThePage DEF ViewerInv
<1>1. /\ mounted /\ mounted' = FALSE /\ reconnectTimer' = NoTimer
      /\ active' = active \ {key} /\ rfb' = Disconnected(key)
      /\ UNCHANGED <<connected, key, reconnectDelay, failures, tries, since>>
  BY DEF Unmount, historyVars
<1>2. active' = {}
  BY <1>1 DEF OneByOne
<1>3. rfb' \in [Keys -> RfbStates]
  BY <1>1 DEF Disconnected, RfbStates
<1>4. rfb'[key] \in {"disconnecting", "disconnected"}
  BY <1>1 DEF Disconnected, RfbStates
<1>5. \A j \in Keys : j # key => rfb'[j] = rfb[j]
  BY <1>1 DEF Disconnected
<1>6. ViewerTypeOK'
  <2>1. reconnectTimer' \in NoTimer .. MaximumReconnectDelay
    BY <1>1 DEF NoTimer
  <2> QED BY <1>1, <1>2, <1>3, <2>1 DEF ViewerTypeOK
<1>7. OneByOne'
  BY <1>1, <1>2, <1>5 DEF OneByOne, ViewerTypeOK, Keys
<1>8. AlwaysTrying' /\ GoneQuiet'
  BY <1>1, <1>2, <1>4, <1>5 DEF AlwaysTrying, GoneQuiet
<1> QED BY <1>6, <1>7, <1>8

LEMMA TickStep ==
  ASSUME ViewerInv, Tick
  PROVE  ViewerInv'
<1> USE ViewerAssumption, OnThePage DEF ViewerInv
<1>1. /\ reconnectTimer' = IF reconnectTimer > 0 THEN reconnectTimer - 1 ELSE reconnectTimer
      /\ since' = Lower(since + 1, MaximumReconnectDelay)
      /\ UNCHANGED <<mounted, connected, key, reconnectDelay, rfb, active, failures, tries>>
  BY DEF Tick, rfbVars
<1>2. reconnectTimer' \in NoTimer .. MaximumReconnectDelay
      /\ (reconnectTimer' = NoTimer <=> reconnectTimer = NoTimer)
  BY <1>1 DEF ViewerTypeOK, NoTimer
<1>3. since' \in 0 .. MaximumReconnectDelay
  BY <1>1 DEF ViewerTypeOK, Lower
<1>4. ViewerTypeOK'
  BY <1>1, <1>2, <1>3 DEF ViewerTypeOK
<1>5. OneByOne'
  BY <1>1 DEF OneByOne
<1>6. AlwaysTrying' /\ GoneQuiet'
  BY <1>1, <1>2 DEF AlwaysTrying, GoneQuiet
<1> QED BY <1>4, <1>5, <1>6

LEMMA ViewerStep ==
  ASSUME ViewerInv, ViewerNext
  PROVE  ViewerInv'
BY ConnectStep, LoseStep, ClosedStep, TimerFiresStep, UnmountStep, TickStep DEF ViewerNext

(* No step of a text touches the viewer.                                   *)
LEMMA TextStep ==
  ASSUME PageNext
  PROVE  ViewerNext \/ UNCHANGED viewerVars
BY DEF PageNext, OnPage, SendBuffer, SendFromClipboard, ClipboardRead, ClipboardDenied,
       KeyDue, NextChar

LEMMA ViewerStutter ==
  ASSUME ViewerInv, UNCHANGED viewerVars
  PROVE  ViewerInv'
BY DEF ViewerInv, ViewerTypeOK, OneByOne, AlwaysTrying, GoneQuiet, viewerVars, noVNCVars,
       rfbVars, historyVars

(* The invariant of the viewer on a page where texts are pasted            *)
(* (NoVNC.svelte, RFB.svelte).                                             *)
THEOREM ViewerInvariant == PageSpec => []ViewerInv
<1>1. PageInit => ViewerInv
  BY ViewerInitInv DEF PageInit
<1>2. ViewerInv /\ [PageNext]_pageVars => ViewerInv'
  BY ViewerStep, TextStep, ViewerStutter DEF pageVars
<1> QED BY <1>1, <1>2, PTL DEF PageSpec

(* The state of the viewer keeps its types; in particular the key, which   *)
(* nothing bounds in the code, grows by one per failure at most.           *)
THEOREM ViewerTypes == PageSpec => []ViewerTypeOK
<1>1. ViewerInv => ViewerTypeOK
  BY DEF ViewerInv
<1> QED BY <1>1, ViewerInvariant, PTL

(* While it is on the page the viewer is connected and says so, or is      *)
(* connecting, or has a timer to try again (NoVNC.svelte 31-68).           *)
THEOREM AlwaysTryingTheorem == PageSpec => []AlwaysTrying
<1>1. ViewerInv => AlwaysTrying
  BY DEF ViewerInv
<1> QED BY <1>1, ViewerInvariant, PTL

(* Nothing is left of a viewer that is not on the page (NoVNC.svelte       *)
(* 73-76, RFB.svelte 43-54).                                               *)
THEOREM GoneQuietTheorem == PageSpec => []GoneQuiet
<1>1. ViewerInv => GoneQuiet
  BY DEF ViewerInv
<1> QED BY <1>1, ViewerInvariant, PTL

(* A connection is replaced only after it was lost (NoVNC.svelte 54, 61).  *)
THEOREM ReconnectTheorem == PageSpec => ReconnectOnlyDead
<1>1. ASSUME ViewerInv, [PageNext]_pageVars
      PROVE  [key' # key => rfb[key] = "disconnected" /\ ~connected]_viewerVars
  <2>1. CASE UNCHANGED viewerVars
    BY <2>1
  <2>2. ASSUME ViewerNext, key' # key PROVE rfb[key] = "disconnected" /\ ~connected
    <3>1. TimerFires
      BY <2>2 DEF ViewerNext, Connect, Lose, Closed, Unmount, Tick, HandleConnect,
         HandleDisconnect, UpdateConnect, noVNCVars
    <3>2. reconnectTimer = 0 /\ mounted
      BY <1>1, <2>2, <3>1 DEF TimerFires
    <3> QED BY <1>1, <3>2 DEF ViewerInv, AlwaysTrying, NoTimer
  <2> QED BY <1>1, <2>1, <2>2, TextStep DEF pageVars
<1> QED BY <1>1, ViewerInvariant, PTL DEF PageSpec, ReconnectOnlyDead

-----------------------------------------------------------------------------
(* The delays *)

(* Induction over the natural numbers, for a set of them.                  *)
LEMMA NatSet ==
  ASSUME NEW T, 0 \in T, \A n \in Nat : n \in T => n + 1 \in T
  PROVE  Nat \subseteq T
<1> DEFINE R == OpToRel(<, Nat)
           B == Nat \ T
<1>1. IsWellFoundedOn(R, Nat)
  BY NatLessThanWellFounded
<1>2. SUFFICES ASSUME B # {} PROVE FALSE
  OBVIOUS
<1>3. PICK x \in B : \A y \in B : <<y, x>> \notin R
  <2> HIDE DEF R
  <2> QED BY <1>1, <1>2, WFMin
<1>4. x - 1 \in Nat /\ x - 1 \in T
  <2>1. x # 0 OBVIOUS
  <2>2. x - 1 \in Nat BY <2>1
  <2>3. <<x - 1, x>> \in R
    BY <2>2 DEF OpToRel
  <2> QED BY <1>3, <2>2, <2>3
<1> QED BY <1>4

(* The recursive function Doubled, as far as n.                            *)
Doubling(f, n) ==
  f = [i \in 0 .. n |-> IF i = 0 THEN InitialReconnectDelay ELSE 2 * f[i - 1]]

LEMMA DoublingExists ==
  ASSUME NEW n \in Nat
  PROVE  \E f : Doubling(f, n)
<1> DEFINE T == {m \in Nat : \E f : Doubling(f, m)}
<1>1. 0 \in T
  <2> DEFINE f == [i \in 0 .. 0 |-> InitialReconnectDelay]
  <2>1. Doubling(f, 0)
    BY DEF Doubling
  <2> QED BY <2>1
<1>2. ASSUME NEW m \in Nat, m \in T PROVE m + 1 \in T
  <2>1. PICK f : Doubling(f, m)
    BY <1>2
  <2>2. \A i \in 0 .. m : f[i] = IF i = 0 THEN InitialReconnectDelay ELSE 2 * f[i - 1]
    BY <2>1 DEF Doubling
  <2> DEFINE g == [i \in 0 .. m + 1 |-> IF i = m + 1 THEN 2 * f[m] ELSE f[i]]
  <2>3. /\ g[m + 1] = 2 * f[m] /\ \A i \in 0 .. m : g[i] = f[i]
        /\ g = [i \in 0 .. m + 1 |-> g[i]]
    OBVIOUS
  <2> HIDE DEF g
  <2>4. ASSUME NEW i \in 0 .. m + 1
        PROVE  g[i] = IF i = 0 THEN InitialReconnectDelay ELSE 2 * g[i - 1]
    <3>1. CASE i = m + 1
      <4>1. i # 0 /\ i - 1 = m /\ m \in 0 .. m
        BY <3>1
      <4> QED BY <3>1, <4>1, <2>3
    <3>2. CASE i # m + 1
      <4>1. i \in 0 .. m /\ (i # 0 => i - 1 \in 0 .. m)
        BY <3>2
      <4> QED BY <4>1, <2>2, <2>3
    <3> QED BY <3>1, <3>2
  <2>5. Doubling(g, m + 1)
    BY <2>3, <2>4 DEF Doubling
  <2> QED BY <2>5
<1>3. Nat \subseteq T
  <2> HIDE DEF T
  <2> QED BY <1>1, <1>2, NatSet
<1> QED BY <1>3

LEMMA DoubledValues ==
  /\ Doubled[0] = InitialReconnectDelay
  /\ \A n \in 0 .. MaxFailures : n > 0 => Doubled[n] = 2 * Doubled[n - 1]
  /\ \A n \in 0 .. MaxFailures : Doubled[n] \in Nat
<1>1. MaxFailures \in Nat /\ InitialReconnectDelay \in Nat
  BY ViewerAssumption
<1>2. Doubling(Doubled, MaxFailures)
  <2>1. \E f : Doubling(f, MaxFailures)
    BY <1>1, DoublingExists
  <2> QED BY <2>1 DEF Doubling, Doubled
<1>3. /\ Doubled[0] = InitialReconnectDelay
      /\ \A n \in 0 .. MaxFailures : n > 0 => Doubled[n] = 2 * Doubled[n - 1]
  <2>1. \A n \in 0 .. MaxFailures :
          Doubled[n] = IF n = 0 THEN InitialReconnectDelay ELSE 2 * Doubled[n - 1]
    BY <1>2, Zenon DEF Doubling
  <2> QED BY <1>1, <2>1
<1> DEFINE T == {n \in Nat : n <= MaxFailures => Doubled[n] \in Nat}
<1>4. 0 \in T
  BY <1>1, <1>3
<1>5. ASSUME NEW n \in Nat, n \in T PROVE n + 1 \in T
  BY <1>1, <1>3, <1>5
<1>6. Nat \subseteq T
  <2> HIDE DEF T
  <2> QED BY <1>4, <1>5, NatSet
<1> QED BY <1>1, <1>3, <1>6

(* The delay is the first one doubled with each attempt; a running timer   *)
(* and the time since the connection was lost make up the delay.           *)
DelayInv ==
  /\ reconnectDelay = Lower(Doubled[tries], MaximumReconnectDelay)
  /\ reconnectTimer # NoTimer => since + reconnectTimer >= reconnectDelay

LEMMA DelayStep ==
  ASSUME ViewerInv, DelayInv, ViewerNext
  PROVE  DelayInv'
<1>1. /\ reconnectDelay \in InitialReconnectDelay .. MaximumReconnectDelay
      /\ reconnectTimer \in NoTimer .. MaximumReconnectDelay
      /\ since \in 0 .. MaximumReconnectDelay /\ tries \in 0 .. MaxFailures
  BY DEF ViewerInv, ViewerTypeOK
<1>2. /\ InitialReconnectDelay \in Nat \ {0} /\ MaximumReconnectDelay \in Nat
      /\ InitialReconnectDelay <= MaximumReconnectDelay /\ NoTimer = -1
  BY ViewerAssumption DEF NoTimer
<1>3. CASE Connect
  <2>1. /\ reconnectDelay' = InitialReconnectDelay /\ reconnectTimer' = NoTimer /\ tries' = 0
    BY <1>3 DEF ViewerInv, Connect, HandleConnect, UpdateConnect, OneByOne, GoneQuiet, ViewerTypeOK
  <2> QED BY <1>2, <2>1, DoubledValues DEF DelayInv, Lower
<1>4. CASE Lose \/ \E k \in Keys : Closed(k)
  <2>1. reconnectDelay' = reconnectDelay /\ tries' = tries
    BY <1>4 DEF Lose, Closed, HandleDisconnect, UpdateConnect, noVNCVars
  <2>2. CASE Lose
    <3>1. since' = 0 /\ reconnectTimer' \in {reconnectTimer, reconnectDelay}
      BY <2>2 DEF Lose, HandleDisconnect, UpdateConnect, ScheduledTimer, noVNCVars
    <3>2. reconnectTimer = NoTimer
      BY <2>2, OnThePage DEF Lose, ViewerInv, AlwaysTrying
    <3> QED BY <1>1, <1>2, <2>1, <3>1, <3>2 DEF DelayInv
  <2>3. CASE \E k \in Keys : Closed(k)
    <3>1. PICK k \in Keys : Closed(k)
      BY <2>3
    <3>2. reconnectTimer' \in {reconnectTimer, reconnectDelay} /\ since' \in {0, since}
      BY <3>1 DEF Closed, HandleDisconnect, UpdateConnect, ScheduledTimer, noVNCVars
    <3>3. reconnectTimer = NoTimer
      <4>1. rfb[k] = "disconnecting" /\ k = key
        BY <3>1, OnThePage DEF Closed, ViewerInv, OneByOne
      <4> QED BY <4>1 DEF ViewerInv, AlwaysTrying, GoneQuiet
    <3>4. since' = 0
      BY <3>1, OnThePage DEF Closed, ViewerInv, OneByOne
    <3> QED BY <1>1, <1>2, <2>1, <3>2, <3>3, <3>4 DEF DelayInv
  <2> QED BY <1>4, <2>2, <2>3
<1>5. CASE Unmount
  BY <1>5 DEF Unmount, noVNCVars, historyVars, DelayInv
<1>6. CASE TimerFires
  <2>1. mounted /\ ~connected
    BY <1>2, <1>6 DEF TimerFires, ViewerInv, AlwaysTrying, GoneQuiet
  <2>2. /\ reconnectTimer' = NoTimer /\ tries' = tries + 1
        /\ reconnectDelay' = Lower(2 * reconnectDelay, MaximumReconnectDelay)
    BY <1>6, <2>1 DEF TimerFires, NextDelay
  <2>3. tries' \in 0 .. MaxFailures
    BY TimerFiresStep, <1>6 DEF ViewerInv, ViewerTypeOK
  <2>4. Doubled[tries + 1] = 2 * Doubled[tries] /\ Doubled[tries] \in Nat
    BY <1>1, <2>2, <2>3, DoubledValues
  <2> QED BY <1>1, <1>2, <2>2, <2>4 DEF DelayInv, Lower
<1>7. CASE Tick
  BY <1>1, <1>2, <1>7 DEF Tick, DelayInv, Lower
<1> QED BY <1>3, <1>4, <1>5, <1>6, <1>7 DEF ViewerNext

LEMMA DelayInitInv == ViewerInit => DelayInv
BY ViewerAssumption, DoubledValues DEF ViewerInit, DelayInv, Lower

THEOREM DelayInvariant == PageSpec => []DelayInv
<1>1. PageInit => DelayInv
  BY DelayInitInv DEF PageInit
<1>2. ViewerInv /\ DelayInv /\ [PageNext]_pageVars => DelayInv'
  <2>1. ViewerInv /\ DelayInv /\ UNCHANGED viewerVars => DelayInv'
    BY DEF viewerVars, noVNCVars, historyVars, DelayInv
  <2> QED BY <2>1, DelayStep, TextStep DEF pageVars
<1> QED BY <1>1, <1>2, ViewerInvariant, PTL DEF PageSpec

(* Between a lost connection and the next attempt lie at least the first   *)
(* delay doubled with every attempt since, or the maximum, whenever the    *)
(* browser runs its timers (NoVNC.svelte 54-68).                           *)
THEOREM NoStormTheorem == PageSpec => NoStorm
<1>1. ASSUME ViewerInv, DelayInv, [PageNext]_pageVars
      PROVE  [key' # key => since >= Lower(Doubled[tries], MaximumReconnectDelay)]_viewerVars
  <2>1. CASE UNCHANGED viewerVars
    BY <2>1
  <2>2. ASSUME ViewerNext, key' # key
        PROVE  since >= Lower(Doubled[tries], MaximumReconnectDelay)
    <3>1. TimerFires
      BY <2>2 DEF ViewerNext, Connect, Lose, Closed, Unmount, Tick, HandleConnect,
         HandleDisconnect, UpdateConnect, noVNCVars
    <3>2. reconnectTimer = 0
      BY <3>1 DEF TimerFires
    <3> QED BY <1>1, <3>2 DEF ViewerInv, ViewerTypeOK, DelayInv, NoTimer
  <2> QED BY <1>1, <2>1, <2>2, TextStep DEF pageVars
<1> QED BY <1>1, ViewerInvariant, DelayInvariant, PTL DEF PageSpec, NoStorm

-----------------------------------------------------------------------------
(* The texts *)

(* How far a text has been typed: up to the character before the next, or  *)
(* the one before that while its key is still to be sent.                  *)
Due(x) == IF x.key THEN x.next - 2 ELSE x.next - 1

Upto(x, n) == {i \in KeyPlaces(x.str) : i <= n}

Standing(r, k) == r[k] \in {"connected", "disconnecting", "disconnected"}

(* Text x, of which the keys s have arrived, when the noVNC objects are r. *)
TextOK(x, s, r) ==
  /\ x.stage \in {"idle", "reading"} => ~x.whole /\ ~x.key /\ s = <<>>
  /\ x.stage = "done" => ~x.key
  /\ x.key => x.next > 1
  /\ x.whole =>
       /\ Standing(r, x.inst)
       /\ x.next <= Len(x.str) + 1
       /\ x.stage = "done" => x.next = Len(x.str) + 1
       /\ x.key => x.str[x.next - 1] \notin Controls
       /\ InOrder(s)
       /\ \E n \in 0 .. Due(x) : Arrived(s) = Upto(x, n) /\ (r[x.inst] = "connected" => n = Due(x))

(* A text that has the machine to itself knows how its Shift key stands.   *)
Alone(x) == x.whole /\ x.clean /\ x.solo

CaseOK(x, s, r, down) ==
  Alone(x) =>
    /\ \A i \in DOMAIN s : x.str[s[i].at] \notin Controls =>
         s[i].shift = NeedsShift(x.str[s[i].at])
    /\ x.stage = "typing" =>
         /\ r[x.inst] = "connected" => down = x.shift_state
         /\ x.key => x.shift_state = NeedsShift(x.str[x.next - 1])

SoloInv ==
  \A t, u \in Texts :
    t # u /\ text[t].solo /\ text[t].stage = "typing" /\ text[u].stage = "typing" =>
      text[t].inst # text[u].inst

TextInv == \A t \in Texts : TextOK(text[t], typed[t], rfb)
CaseInv == \A t \in Texts : CaseOK(text[t], typed[t], rfb, shiftDown)

PageInv == TypeOK /\ ViewerInv /\ TextInv /\ CaseInv /\ SoloInv

(* One more key.                                                           *)
LEMMA Appended ==
  ASSUME NEW s \in Seq(KeyPress), NEW e \in KeyPress
  PROVE  /\ Append(s, e) \in Seq(KeyPress)
         /\ DOMAIN Append(s, e) = DOMAIN s \union {Len(s) + 1}
         /\ \A i \in DOMAIN s : Append(s, e)[i] = s[i]
         /\ Append(s, e)[Len(s) + 1] = e
         /\ Arrived(Append(s, e)) = Arrived(s) \union {e.at}
         /\ InOrder(s) /\ (\A i \in Arrived(s) : i < e.at) => InOrder(Append(s, e))
<1> DEFINE z == Append(s, e)
<1>1. /\ z \in Seq(KeyPress) /\ DOMAIN z = 1 .. Len(s) + 1 /\ DOMAIN s = 1 .. Len(s)
      /\ \A i \in DOMAIN s : z[i] = s[i]
      /\ z[Len(s) + 1] = e /\ Len(s) \in Nat
  OBVIOUS
<1> HIDE DEF z
<1>2. DOMAIN z = DOMAIN s \union {Len(s) + 1}
  BY <1>1
<1>3. Arrived(z) = Arrived(s) \union {e.at}
  BY <1>1, <1>2 DEF Arrived
<1>4. ASSUME InOrder(s), \A i \in Arrived(s) : i < e.at, NEW i \in DOMAIN z, NEW j \in DOMAIN z,
             i < j
      PROVE  z[i].at < z[j].at
  <2>1. i \in DOMAIN s /\ z[i] = s[i] /\ s[i].at \in Arrived(s)
    BY <1>1, <1>4 DEF Arrived
  <2>2. CASE j \in DOMAIN s
    BY <1>1, <1>4, <2>1, <2>2 DEF InOrder
  <2>3. CASE j = Len(s) + 1
    BY <1>1, <1>4, <2>1, <2>3
  <2> QED BY <1>2, <2>2, <2>3
<1> QED BY <1>1, <1>2, <1>3, <1>4 DEF z, InOrder

(* What one call of sendString does with text x, whose state was taken     *)
(* from others.                                                            *)
Stops(x, y, s, z) ==
  /\ x.next > Len(x.str)
  /\ y.stage = "done" /\ y.next = x.next /\ y.key = x.key /\ y.shift_state = x.shift_state
  /\ z = s /\ shiftDown' = shiftDown

Passes(x, y, s, z) ==
  /\ x.next <= Len(x.str) /\ x.str[x.next] \in Controls
  /\ y.stage = x.stage /\ y.next = x.next + 1 /\ y.key = x.key
  /\ y.shift_state = x.shift_state
  /\ z = IF x.str[x.next] = "newline" /\ Live(x.inst)
         THEN Append(s, [at |-> x.next, shift |-> shiftDown]) ELSE s
  /\ shiftDown' = shiftDown

Types(x, y, s, z) ==
  /\ x.next <= Len(x.str) /\ x.str[x.next] \notin Controls
  /\ y.stage = x.stage /\ y.next = x.next + 1 /\ y.key
  /\ y.shift_state = NeedsShift(x.str[x.next])
  /\ z = s
  /\ shiftDown' = IF Live(x.inst) /\ NeedsShift(x.str[x.next]) # x.shift_state
                  THEN NeedsShift(x.str[x.next]) ELSE shiftDown

Sends(x, y, s, z) ==
  /\ y \in PastedText /\ z \in Seq(KeyPress)
  /\ y.inst = x.inst /\ y.str = x.str /\ y.whole = x.whole
  /\ y.clean = x.clean /\ y.solo = x.solo
  /\ Stops(x, y, s, z) \/ Passes(x, y, s, z) \/ Types(x, y, s, z)

LEMMA SendStringStep ==
  ASSUME NEW t \in Texts, NEW x \in PastedText, NEW others \in [Texts -> PastedText],
         typed \in [Texts -> Seq(KeyPress)], shiftDown \in BOOLEAN,
         SendString(t, x, others)
  PROVE  /\ text' \in [Texts -> PastedText] /\ typed' \in [Texts -> Seq(KeyPress)]
         /\ shiftDown' \in BOOLEAN
         /\ \A u \in Texts \ {t} : text'[u] = others[u] /\ typed'[u] = typed[u]
         /\ Sends(x, text'[t], typed[t], typed'[t])
<1>1. x.next \in Nat \ {0} /\ x.str \in Seq(Characters) /\ x.shift_state \in BOOLEAN
  <2>1. x.next \in Nat \ {0} /\ x.shift_state \in BOOLEAN /\ x.str \in Contents \union {<<>>}
    BY DEF PastedText
  <2>2. Contents \subseteq Seq(Characters) /\ <<>> \in Seq(Characters)
    BY PageAssumption
  <2> QED BY <2>1, <2>2
<1>2. CASE x.next > Len(x.str)
  <2> DEFINE y == [x EXCEPT !.stage = "done"]
  <2>1. /\ y \in PastedText /\ y.stage = "done" /\ y.next = x.next /\ y.key = x.key
        /\ y.shift_state = x.shift_state /\ y.inst = x.inst /\ y.str = x.str
        /\ y.whole = x.whole /\ y.clean = x.clean /\ y.solo = x.solo
    BY DEF PastedText
  <2>2. text' = [others EXCEPT ![t] = y] /\ shiftDown' = shiftDown /\ typed' = typed
    BY <1>2 DEF SendString
  <2> HIDE DEF y
  <2>3. text'[t] = y /\ text' \in [Texts -> PastedText]
        /\ \A u \in Texts \ {t} : text'[u] = others[u]
    BY <2>1, <2>2
  <2> QED BY <1>2, <2>1, <2>2, <2>3 DEF Sends, Stops
<1>3. CASE x.next <= Len(x.str)
  <2> DEFINE c == x.str[x.next]
             k == [at |-> x.next, shift |-> shiftDown]
  <2>1. c \in Characters /\ k \in KeyPress
    BY <1>1, <1>3 DEF KeyPress
  <2>2. CASE c \in Controls
    <3> DEFINE n == x.next + 1
               y == [x EXCEPT !.next = n]
    <3>0. n \in Nat \ {0}
      BY <1>1
    <3> HIDE DEF n
    <3>1. /\ y \in PastedText /\ y.stage = x.stage /\ y.next = n /\ y.key = x.key
          /\ y.shift_state = x.shift_state /\ y.inst = x.inst /\ y.str = x.str
          /\ y.whole = x.whole /\ y.clean = x.clean /\ y.solo = x.solo
      BY <3>0 DEF PastedText
    <3>2. /\ text' = [others EXCEPT ![t] = y] /\ shiftDown' = shiftDown
          /\ IF c = "newline" THEN KeyArrives(t, x.inst, x.next) ELSE UNCHANGED typed
      BY <1>1, <1>3, <2>2 DEF SendString, n
    <3> HIDE DEF y
    <3>3. text'[t] = y /\ text' \in [Texts -> PastedText]
          /\ \A u \in Texts \ {t} : text'[u] = others[u]
      BY <3>1, <3>2
    <3>4. typed' = IF c = "newline" /\ Live(x.inst)
                   THEN [typed EXCEPT ![t] = Append(typed[t], k)] ELSE typed
      BY <3>2 DEF KeyArrives
    <3>5. Append(typed[t], k) \in Seq(KeyPress)
      BY <2>1
    <3> HIDE DEF k
    <3>6. /\ typed'[t] = IF c = "newline" /\ Live(x.inst) THEN Append(typed[t], k) ELSE typed[t]
          /\ typed' \in [Texts -> Seq(KeyPress)]
          /\ \A u \in Texts \ {t} : typed'[u] = typed[u]
      BY <3>4, <3>5
    <3>7. typed'[t] \in Seq(KeyPress)
      BY <3>6
    <3>8. Passes(x, y, typed[t], typed'[t])
      BY <1>3, <2>2, <3>1, <3>2, <3>6 DEF Passes, k, n
    <3> QED BY <3>1, <3>2, <3>3, <3>6, <3>7, <3>8 DEF Sends
  <2>3. CASE c \notin Controls
    <3> DEFINE n == x.next + 1
               b == NeedsShift(c)
               y == [x EXCEPT !.next = n, !.key = TRUE, !.shift_state = b]
    <3>0. n \in Nat \ {0} /\ b \in BOOLEAN
      BY <1>1 DEF NeedsShift
    <3> HIDE DEF n, b
    <3>1. /\ y \in PastedText /\ y.stage = x.stage /\ y.next = n /\ y.key
          /\ y.shift_state = b /\ y.inst = x.inst /\ y.str = x.str
          /\ y.whole = x.whole /\ y.clean = x.clean /\ y.solo = x.solo
      BY <3>0 DEF PastedText
    <3>2. text' = [others EXCEPT ![t] = y] /\ typed' = typed /\ ShiftArrives(x, c)
      BY <1>1, <1>3, <2>3 DEF SendString, n, b
    <3> HIDE DEF y
    <3>3. text'[t] = y /\ text' \in [Texts -> PastedText]
          /\ \A u \in Texts \ {t} : text'[u] = others[u]
      BY <3>1, <3>2
    <3>4. shiftDown' \in BOOLEAN
      BY <3>0, <3>2 DEF ShiftArrives, b
    <3>5. Types(x, y, typed[t], typed'[t])
      BY <1>3, <2>3, <3>1, <3>2 DEF Types, ShiftArrives, n, b
    <3> QED BY <3>1, <3>2, <3>3, <3>4, <3>5 DEF Sends
  <2> QED BY <2>2, <2>3
<1> QED BY <1>1, <1>2, <1>3

LEMMA UptoNext ==
  ASSUME NEW x \in PastedText, NEW i \in Nat \ {0}, i <= Len(x.str)
  PROVE  /\ x.str[i] # "return" => Upto(x, i) = Upto(x, i - 1) \union {i}
         /\ x.str[i] = "return" => Upto(x, i) = Upto(x, i - 1)
<1>1. x.str \in Seq(Characters)
  <2>1. x.str \in Contents \union {<<>>}
    BY DEF PastedText
  <2>2. Contents \subseteq Seq(Characters) /\ <<>> \in Seq(Characters)
    BY PageAssumption
  <2> QED BY <2>1, <2>2
<1>2. DOMAIN x.str = 1 .. Len(x.str) /\ Len(x.str) \in Nat
  BY <1>1
<1> QED BY <1>2 DEF Upto, KeyPlaces

(* A call of sendString for a text whose last key was sent.                *)
LEMMA SendIntact ==
  ASSUME NEW x \in PastedText, NEW y, NEW s \in Seq(KeyPress), NEW z, shiftDown \in BOOLEAN,
         Sends(x, y, s, z), TextOK(x, s, rfb), x.stage = "typing", ~x.key
  PROVE  TextOK(y, z, rfb)
<1>1. /\ y.inst = x.inst /\ y.str = x.str /\ y.whole = x.whole /\ y.stage \in {"typing", "done"}
      /\ y.stage = "done" => ~y.key
  BY DEF Sends, Stops, Passes, Types
<1>2. x.next \in Nat \ {0}
  BY DEF PastedText
<1>11. y.key => y.next > 1
  <2>1. y.key => Types(x, y, s, z)
    BY DEF Sends, Stops, Passes
  <2>2. Types(x, y, s, z) => y.next = x.next + 1
    BY DEF Types
  <2> QED BY <1>2, <2>1, <2>2
<1> SUFFICES ASSUME x.whole
             PROVE  /\ y.next <= Len(y.str) + 1
                    /\ y.stage = "done" => y.next = Len(y.str) + 1
                    /\ y.key => y.str[y.next - 1] \notin Controls
                    /\ InOrder(z)
                    /\ \E n \in 0 .. Due(y) : /\ Arrived(z) = Upto(y, n)
                                              /\ rfb[y.inst] = "connected" => n = Due(y)
  BY <1>1, <1>11 DEF TextOK
<1>3. /\ Standing(rfb, x.inst) /\ x.next <= Len(x.str) + 1 /\ InOrder(s)
  BY DEF TextOK
<1>4. PICK n \in 0 .. Due(x) : Arrived(s) = Upto(x, n) /\ (rfb[x.inst] = "connected" => n = Due(x))
  BY DEF TextOK
<1>5. Due(x) = x.next - 1
  BY DEF Due
<1>6. \A m : Upto(y, m) = Upto(x, m)
  BY <1>1 DEF Upto
<1>7. Len(x.str) \in Nat
  BY PageAssumption DEF PastedText
<1>8. CASE Stops(x, y, s, z)
  <2>1. Due(y) = Due(x)
    BY <1>8 DEF Stops, Due
  <2>2. x.next = Len(x.str) + 1
    BY <1>2, <1>3, <1>7, <1>8 DEF Stops
  <2> QED BY <1>1, <1>3, <1>4, <1>6, <1>8, <2>1, <2>2 DEF Stops
<1>9. CASE Types(x, y, s, z)
  <2>1. Due(y) = Due(x)
    BY <1>2, <1>5, <1>9 DEF Types, Due
  <2>2. y.next = x.next + 1 /\ y.next - 1 = x.next /\ y.next <= Len(y.str) + 1
    BY <1>1, <1>2, <1>7, <1>9 DEF Types
  <2>3. y.str[y.next - 1] \notin Controls
    BY <1>1, <1>9, <2>2 DEF Types
  <2>4. z = s /\ y.stage = "typing"
    BY <1>9 DEF Types
  <2> QED BY <1>1, <1>3, <1>4, <1>6, <2>1, <2>2, <2>3, <2>4
<1>10. CASE Passes(x, y, s, z)
  <2>1. Due(y) = x.next /\ ~y.key /\ y.stage = "typing"
    BY <1>2, <1>10 DEF Passes, Due
  <2>2. y.next = x.next + 1 /\ x.next <= Len(x.str) /\ y.next <= Len(y.str) + 1
    BY <1>1, <1>2, <1>7, <1>10 DEF Passes
  <2>3. CASE x.str[x.next] = "newline" /\ Live(x.inst)
    <3> DEFINE k == [at |-> x.next, shift |-> shiftDown]
    <3>1. z = Append(s, k) /\ k \in KeyPress /\ k.at = x.next
      BY <1>2, <1>10, <2>3 DEF Passes, KeyPress
    <3> HIDE DEF k
    <3>2. Arrived(s) = Upto(x, x.next - 1)
      BY <1>4, <1>5, <2>3 DEF Live
    <3>3. \A i \in Arrived(s) : i < x.next
      <4>1. \A i \in Upto(x, x.next - 1) : i \in DOMAIN x.str /\ i <= x.next - 1
        BY DEF Upto, KeyPlaces
      <4>2. DOMAIN x.str = 1 .. Len(x.str)
        BY PageAssumption DEF PastedText
      <4> QED BY <1>2, <1>7, <3>2, <4>1, <4>2
    <3>4. Arrived(z) = Arrived(s) \union {x.next} /\ InOrder(z)
      BY <1>3, <3>1, <3>3, Appended
    <3>5. Upto(x, x.next) = Upto(x, x.next - 1) \union {x.next}
      BY <1>2, <2>2, <2>3, UptoNext
    <3>6. Arrived(z) = Upto(x, x.next) /\ InOrder(z)
      BY <3>2, <3>4, <3>5
    <3>7. x.next \in 0 .. Due(y)
      BY <1>2, <2>1
    <3> QED BY <1>6, <2>1, <2>2, <3>6, <3>7
  <2>4. CASE ~(x.str[x.next] = "newline" /\ Live(x.inst))
    <3>1. z = s
      BY <1>10, <2>4 DEF Passes
    <3>2. CASE ~Live(x.inst)
      <4>1. n \in 0 .. Due(y)
        BY <1>2, <1>5, <2>1
      <4> QED BY <1>1, <1>3, <1>4, <1>6, <2>1, <2>2, <3>1, <3>2, <4>1 DEF Live
    <3>3. CASE Live(x.inst)
      <4>1. x.str[x.next] = "return"
        BY <1>10, <2>4, <3>3 DEF Passes, Controls
      <4>2. Arrived(s) = Upto(x, x.next)
        BY <1>2, <1>4, <1>5, <2>2, <3>3, <4>1, UptoNext DEF Live
      <4>3. x.next \in 0 .. Due(y)
        BY <1>2, <2>1
      <4> QED BY <1>3, <1>6, <2>1, <2>2, <3>1, <4>2, <4>3
    <3> QED BY <3>2, <3>3
  <2> QED BY <2>3, <2>4
<1> QED BY <1>8, <1>9, <1>10 DEF Sends

LEMMA SendCase ==
  ASSUME NEW x \in PastedText, NEW y, NEW s \in Seq(KeyPress), NEW z, shiftDown \in BOOLEAN,
         Sends(x, y, s, z), CaseOK(x, s, rfb, shiftDown), x.stage = "typing", ~x.key
  PROVE  CaseOK(y, z, rfb, shiftDown')
<1>1. /\ y.inst = x.inst /\ y.str = x.str /\ Alone(y) = Alone(x)
  BY DEF Sends, Alone
<1>2. x.next \in Nat \ {0} /\ x.shift_state \in BOOLEAN
  BY DEF PastedText
<1> SUFFICES ASSUME Alone(x)
             PROVE  /\ \A i \in DOMAIN z : y.str[z[i].at] \notin Controls =>
                         z[i].shift = NeedsShift(y.str[z[i].at])
                    /\ y.stage = "typing" =>
                         /\ rfb[y.inst] = "connected" => shiftDown' = y.shift_state
                         /\ y.key => y.shift_state = NeedsShift(y.str[y.next - 1])
  BY <1>1 DEF CaseOK
<1>3. /\ \A i \in DOMAIN s : x.str[s[i].at] \notin Controls =>
           s[i].shift = NeedsShift(x.str[s[i].at])
      /\ rfb[x.inst] = "connected" => shiftDown = x.shift_state
  BY DEF CaseOK
<1>4. CASE Stops(x, y, s, z)
  BY <1>1, <1>3, <1>4 DEF Stops
<1>5. CASE Types(x, y, s, z)
  <2>1. y.next - 1 = x.next
    BY <1>2, <1>5 DEF Types
  <2> QED BY <1>1, <1>3, <1>5, <2>1 DEF Types, Live
<1>6. CASE Passes(x, y, s, z)
  <2>1. ASSUME NEW i \in DOMAIN z, y.str[z[i].at] \notin Controls
        PROVE  z[i].shift = NeedsShift(y.str[z[i].at])
    <3>1. CASE z = s
      BY <1>1, <1>3, <2>1, <3>1
    <3>2. CASE z # s
      <4> DEFINE k == [at |-> x.next, shift |-> shiftDown]
      <4>1. z = Append(s, k) /\ k \in KeyPress /\ k.at = x.next /\ x.str[x.next] \in Controls
        BY <1>2, <1>6, <3>2 DEF Passes, KeyPress
      <4> HIDE DEF k
      <4>2. i # Len(s) + 1
        BY <1>1, <2>1, <4>1, Appended
      <4>3. i \in DOMAIN s /\ z[i] = s[i]
        BY <2>1, <4>1, <4>2, Appended
      <4> QED BY <1>1, <1>3, <2>1, <4>3
    <3> QED BY <3>1, <3>2
  <2>2. y.shift_state = x.shift_state /\ shiftDown' = shiftDown /\ ~y.key
    BY <1>6 DEF Passes
  <2> QED BY <1>1, <1>3, <2>1, <2>2
<1> QED BY <1>4, <1>5, <1>6 DEF Sends

(* Two texts that are typed into live connections share the one there is,  *)
(* so that a text that has the machine to itself sees no Shift of another. *)
LEMMA SendOthers ==
  ASSUME ViewerInv, NEW x \in PastedText, NEW y, NEW s, NEW z, Sends(x, y, s, z),
         NEW u \in PastedText, NEW k, CaseOK(u, k, rfb, shiftDown),
         u.solo /\ u.stage = "typing" => u.inst # x.inst
  PROVE  CaseOK(u, k, rfb, shiftDown')
<1>1. shiftDown' = shiftDown \/ Live(x.inst)
  BY DEF Sends, Stops, Passes, Types
<1>2. \A i, j \in Keys : rfb[i] = "connected" /\ rfb[j] = "connected" => i = j
  BY OnThePage
<1>3. x.inst \in Keys /\ u.inst \in Keys
  BY DEF PastedText
<1> QED BY <1>1, <1>2, <1>3 DEF CaseOK, Alone, Live

-----------------------------------------------------------------------------
(* The steps of the page *)

(* One call of sendString for text t, in state x.                          *)
LEMMA SendStep ==
  ASSUME NEW t \in Texts, NEW x \in PastedText, NEW others \in [Texts -> PastedText],
         PageInv, UNCHANGED viewerVars, SendString(t, x, others),
         x.stage = "typing", ~x.key,
         TextOK(x, typed[t], rfb), CaseOK(x, typed[t], rfb, shiftDown),
         \A u \in Texts \ {t} :
           /\ TextOK(others[u], typed[u], rfb) /\ CaseOK(others[u], typed[u], rfb, shiftDown)
           /\ others[u].solo /\ others[u].stage = "typing" => others[u].inst # x.inst
           /\ x.solo /\ others[u].stage = "typing" => others[u].inst # x.inst
           /\ \A v \in Texts \ {t} :
                u # v /\ others[u].solo /\ others[u].stage = "typing"
                      /\ others[v].stage = "typing" => others[u].inst # others[v].inst
  PROVE  PageInv'
<1>1. /\ typed \in [Texts -> Seq(KeyPress)] /\ shiftDown \in BOOLEAN /\ ViewerInv
      /\ ViewerTypeOK
  BY DEF PageInv, TypeOK
<1>2. ViewerInv' /\ ViewerTypeOK' /\ rfb' = rfb
  BY <1>1, ViewerStutter DEF viewerVars, rfbVars, ViewerInv
<1>3. /\ text' \in [Texts -> PastedText] /\ typed' \in [Texts -> Seq(KeyPress)]
      /\ shiftDown' \in BOOLEAN
      /\ \A u \in Texts \ {t} : text'[u] = others[u] /\ typed'[u] = typed[u]
      /\ Sends(x, text'[t], typed[t], typed'[t])
  BY <1>1, SendStringStep
<1>4. TypeOK'
  BY <1>2, <1>3 DEF TypeOK
<1>5. /\ TextOK(text'[t], typed'[t], rfb) /\ CaseOK(text'[t], typed'[t], rfb, shiftDown')
  BY <1>1, <1>3, SendIntact, SendCase
<1>6. \A u \in Texts \ {t} : CaseOK(text'[u], typed'[u], rfb, shiftDown')
  <2> SUFFICES ASSUME NEW u \in Texts \ {t} PROVE CaseOK(others[u], typed[u], rfb, shiftDown')
    BY <1>3
  <2>1. others[u] \in PastedText
    OBVIOUS
  <2> QED BY <1>1, <1>3, <2>1, SendOthers
<1>7. TextInv' /\ CaseInv'
  BY <1>2, <1>3, <1>5, <1>6 DEF TextInv, CaseInv
<1>8. SoloInv'
  <2>1. text'[t].inst = x.inst /\ text'[t].solo = x.solo
    BY <1>3 DEF Sends
  <2> QED BY <1>3, <2>1 DEF SoloInv
<1> QED BY <1>2, <1>4, <1>7, <1>8 DEF PageInv

LEMMA NextCharStep ==
  ASSUME PageInv, NEW t \in Texts, NextChar(t)
  PROVE  PageInv'
<1>1. /\ text[t].stage = "typing" /\ ~text[t].key /\ SendString(t, text[t], text)
      /\ UNCHANGED viewerVars
  BY DEF NextChar
<1>2. text \in [Texts -> PastedText] /\ text[t] \in PastedText
  BY DEF PageInv, TypeOK
<1> QED BY <1>1, <1>2, SendStep DEF PageInv, TextInv, CaseInv, SoloInv

LEMMA BeginStep ==
  ASSUME PageInv, NEW t \in Texts, NEW k \in Keys, NEW str \in Contents,
         text[t].stage \in {"idle", "reading"}, Begin(t, k, str), UNCHANGED viewerVars
  PROVE  PageInv'
<1> DEFINE x == [NoText EXCEPT !.stage = "typing", !.inst = k, !.str = str,
                               !.whole = Live(k), !.clean = ~shiftDown,
                               !.solo = TypedInto(k) = {}]
           others == [u \in Texts |->
                        IF u \in TypedInto(k) THEN [text[u] EXCEPT !.solo = FALSE] ELSE text[u]]
<1>1. text \in [Texts -> PastedText] /\ shiftDown \in BOOLEAN
  BY DEF PageInv, TypeOK
<1>2. x.stage = "typing" /\ x.inst = k /\ x.str = str /\ x.next = 1
      /\ x.shift_state = FALSE /\ x.key = FALSE
      /\ (x.whole <=> Live(k)) /\ (x.clean <=> ~shiftDown) /\ (x.solo <=> TypedInto(k) = {})
  BY DEF NoText
<1>3. x \in PastedText
  <2> DEFINE a == Live(k)
             b == ~shiftDown
             c == TypedInto(k) = {}
  <2>1. a \in BOOLEAN /\ b \in BOOLEAN /\ c \in BOOLEAN
    BY DEF Live
  <2> HIDE DEF a, b, c
  <2>2. [NoText EXCEPT !.stage = "typing", !.inst = k, !.str = str,
                       !.whole = a, !.clean = b, !.solo = c] \in PastedText
    <3>1. NoText \in PastedText
      BY ViewerAssumption DEF NoText, PastedText, Keys
    <3> QED BY <2>1, <3>1 DEF PastedText
  <2> QED BY <2>2 DEF a, b, c
<1>4. SendString(t, x, others)
  BY DEF Begin
<1>5. \A u \in Texts :
        LET o == IF u \in TypedInto(k) THEN [text[u] EXCEPT !.solo = FALSE] ELSE text[u]
        IN  /\ o \in PastedText
            /\ o.stage = text[u].stage /\ o.inst = text[u].inst /\ o.str = text[u].str
            /\ o.next = text[u].next /\ o.shift_state = text[u].shift_state
            /\ o.key = text[u].key /\ o.whole = text[u].whole /\ o.clean = text[u].clean
            /\ o.solo => text[u].solo /\ u \notin TypedInto(k)
  <2> SUFFICES ASSUME NEW u \in Texts, NEW w \in PastedText, w = text[u]
               PROVE  LET o == IF u \in TypedInto(k) THEN [w EXCEPT !.solo = FALSE] ELSE w
                      IN  /\ o \in PastedText
                          /\ o.stage = w.stage /\ o.inst = w.inst /\ o.str = w.str
                          /\ o.next = w.next /\ o.shift_state = w.shift_state
                          /\ o.key = w.key /\ o.whole = w.whole /\ o.clean = w.clean
                          /\ o.solo => w.solo /\ u \notin TypedInto(k)
    BY <1>1
  <2> QED BY DEF PastedText
<1>6. /\ others \in [Texts -> PastedText]
      /\ \A u \in Texts :
           /\ others[u].stage = text[u].stage /\ others[u].inst = text[u].inst
           /\ others[u].str = text[u].str /\ others[u].next = text[u].next
           /\ others[u].shift_state = text[u].shift_state /\ others[u].key = text[u].key
           /\ others[u].whole = text[u].whole /\ others[u].clean = text[u].clean
           /\ others[u].solo => text[u].solo /\ u \notin TypedInto(k)
  BY <1>5
<1> HIDE DEF x, others
<1>7. typed[t] = <<>>
  BY DEF PageInv, TextInv, TextOK
<1>8. TextOK(x, typed[t], rfb)
  <2>1. Arrived(<<>>) = {} /\ InOrder(<<>>)
    BY DEF Arrived, InOrder
  <2>2. Due(x) = 0
    BY <1>2 DEF Due
  <2>3. Upto(x, 0) = {}
    <3>1. DOMAIN str = 1 .. Len(str) /\ Len(str) \in Nat
      BY PageAssumption
    <3> QED BY <1>2, <3>1 DEF Upto, KeyPlaces
  <2>4. Len(str) \in Nat
    BY PageAssumption
  <2>5. Live(k) => Standing(rfb, k)
    BY DEF Live, Standing
  <2>6. Arrived(typed[t]) = Upto(x, 0)
    BY <1>7, <2>1, <2>3
  <2>7. 0 \in 0 .. Due(x)
    BY <2>2
  <2>8. \E n \in 0 .. Due(x) :
          /\ Arrived(typed[t]) = Upto(x, n)
          /\ rfb[x.inst] = "connected" => n = Due(x)
    BY <2>2, <2>6, <2>7
  <2>9. InOrder(typed[t])
    BY <1>7, <2>1
  <2> QED BY <1>2, <2>4, <2>5, <2>8, <2>9 DEF TextOK
<1>9. CaseOK(x, typed[t], rfb, shiftDown)
  <2>1. DOMAIN typed[t] = {}
    BY <1>7
  <2>2. Alone(x) => shiftDown = FALSE
    BY <1>1, <1>2 DEF Alone
  <2>3. Alone(x) => shiftDown = x.shift_state
    BY <1>2, <2>2
  <2> QED BY <1>2, <2>1, <2>3 DEF CaseOK
<1>10. ASSUME NEW u \in Texts \ {t}
       PROVE  /\ TextOK(others[u], typed[u], rfb)
              /\ CaseOK(others[u], typed[u], rfb, shiftDown)
  <2>1. TextOK(text[u], typed[u], rfb) /\ CaseOK(text[u], typed[u], rfb, shiftDown)
    BY DEF PageInv, TextInv, CaseInv
  <2>2. TextOK(others[u], typed[u], rfb)
    BY <1>6, <2>1 DEF TextOK, Due, Upto
  <2>3. CaseOK(others[u], typed[u], rfb, shiftDown)
    BY <1>6, <2>1 DEF CaseOK, Alone
  <2> QED BY <2>2, <2>3
<1>11. ASSUME NEW u \in Texts \ {t}
       PROVE  /\ others[u].solo /\ others[u].stage = "typing" => others[u].inst # x.inst
              /\ x.solo /\ others[u].stage = "typing" => others[u].inst # x.inst
              /\ \A v \in Texts \ {t} :
                   u # v /\ others[u].solo /\ others[u].stage = "typing"
                         /\ others[v].stage = "typing" => others[u].inst # others[v].inst
  <2>1. others[u].stage = "typing" => (text[u].inst = k <=> u \in TypedInto(k))
    BY <1>6 DEF TypedInto
  <2>2. SoloInv
    BY DEF PageInv
  <2> QED BY <1>2, <1>6, <2>1, <2>2 DEF SoloInv
<1> QED BY <1>2, <1>3, <1>4, <1>6, <1>8, <1>9, <1>10, <1>11, SendStep

(* The keys s of text x that have arrived when the 50 ms of a key are over. *)
KeyArrived(x, s) ==
  IF Live(x.inst) THEN Append(s, [at |-> x.next - 1, shift |-> shiftDown]) ELSE s

(* What becomes of text x then.                                            *)
Sent(x, y) ==
  /\ y.stage = x.stage /\ y.inst = x.inst /\ y.str = x.str /\ y.next = x.next
  /\ y.shift_state = x.shift_state /\ ~y.key
  /\ y.whole <=> x.whole
  /\ Alone(y) <=> Alone(x)

LEMMA KeyIntact ==
  ASSUME NEW x \in PastedText, NEW y \in PastedText, NEW s \in Seq(KeyPress),
         shiftDown \in BOOLEAN, TextOK(x, s, rfb), x.key, Sent(x, y)
  PROVE  KeyArrived(x, s) \in Seq(KeyPress) /\ TextOK(y, KeyArrived(x, s), rfb)
<1> DEFINE z == KeyArrived(x, s)
<1>0. /\ y.stage = x.stage /\ y.inst = x.inst /\ y.str = x.str /\ y.next = x.next
      /\ ~y.key /\ (y.whole <=> x.whole)
      /\ z = IF Live(x.inst) THEN Append(s, [at |-> x.next - 1, shift |-> shiftDown]) ELSE s
  BY DEF Sent, KeyArrived
<1> HIDE DEF z
<1>1. x.next \in Nat /\ x.next > 1 /\ x.next - 1 \in Nat \ {0} /\ x.stage = "typing"
  BY DEF PastedText, TextOK
<1>2. [at |-> x.next - 1, shift |-> shiftDown] \in KeyPress
  BY <1>1 DEF KeyPress
<1>3. z \in Seq(KeyPress)
  BY <1>0, <1>2
<1>4. Due(x) = x.next - 2 /\ Due(y) = x.next - 1
  BY <1>0 DEF Due
<1>5. \A m : Upto(y, m) = Upto(x, m)
  BY <1>0 DEF Upto
<1>6. ASSUME x.whole
      PROVE  /\ InOrder(z)
             /\ \E n \in 0 .. Due(y) : /\ Arrived(z) = Upto(x, n)
                                       /\ rfb[x.inst] = "connected" => n = Due(y)
  <2>1. /\ InOrder(s) /\ x.next <= Len(x.str) + 1 /\ x.str[x.next - 1] \notin Controls
    BY <1>6 DEF TextOK
  <2>2. PICK n \in 0 .. Due(x) : Arrived(s) = Upto(x, n) /\ (rfb[x.inst] = "connected" => n = Due(x))
    BY <1>6 DEF TextOK
  <2>3. CASE ~Live(x.inst)
    <3>1. z = s /\ n \in 0 .. Due(y)
      BY <1>0, <1>1, <1>4, <2>3
    <3> QED BY <2>1, <2>2, <2>3, <3>1 DEF Live
  <2>4. CASE Live(x.inst)
    <3> DEFINE k == [at |-> x.next - 1, shift |-> shiftDown]
               p == x.next - 1
    <3>1. z = Append(s, k) /\ k \in KeyPress /\ k.at = p
      BY <1>0, <1>2, <2>4
    <3>2. p \in Nat \ {0} /\ p - 1 = Due(x) /\ p = Due(y) /\ p \in 0 .. Due(y)
      BY <1>1, <1>4
    <3>3. Len(x.str) \in Nat
      BY PageAssumption DEF PastedText
    <3>4. p <= Len(x.str)
      BY <1>1, <2>1, <3>3
    <3>5. x.str[p] # "return"
      BY <2>1 DEF Controls
    <3> HIDE DEF k, p
    <3>6. Arrived(s) = Upto(x, p - 1)
      BY <2>2, <2>4, <3>2 DEF Live
    <3>7. \A i \in Arrived(s) : i < p
      <4>1. \A i \in Upto(x, p - 1) : i \in DOMAIN x.str /\ i <= p - 1
        BY DEF Upto, KeyPlaces
      <4>2. DOMAIN x.str = 1 .. Len(x.str)
        BY PageAssumption DEF PastedText
      <4> QED BY <3>2, <3>3, <3>6, <4>1, <4>2
    <3>8. Arrived(z) = Arrived(s) \union {p} /\ InOrder(z)
      BY <2>1, <3>1, <3>7, Appended
    <3>9. Upto(x, p) = Upto(x, p - 1) \union {p}
      BY <3>2, <3>4, <3>5, UptoNext
    <3> QED BY <3>2, <3>6, <3>8, <3>9
  <2> QED BY <2>3, <2>4
<1>7. x.whole => Standing(rfb, x.inst) /\ x.next <= Len(x.str) + 1
  BY DEF TextOK
<1> QED BY <1>0, <1>1, <1>3, <1>5, <1>6, <1>7 DEF TextOK, z

LEMMA KeyCase ==
  ASSUME NEW x \in PastedText, NEW y \in PastedText, NEW s \in Seq(KeyPress),
         shiftDown \in BOOLEAN, TextOK(x, s, rfb), CaseOK(x, s, rfb, shiftDown), x.key,
         Sent(x, y)
  PROVE  CaseOK(y, KeyArrived(x, s), rfb, shiftDown)
<1> DEFINE z == KeyArrived(x, s)
<1>0. /\ y.stage = x.stage /\ y.inst = x.inst /\ y.str = x.str /\ y.next = x.next
      /\ y.shift_state = x.shift_state /\ ~y.key /\ (Alone(y) <=> Alone(x))
      /\ z = IF Live(x.inst) THEN Append(s, [at |-> x.next - 1, shift |-> shiftDown]) ELSE s
  BY DEF Sent, KeyArrived
<1> HIDE DEF z
<1>1. x.next - 1 \in Nat \ {0} /\ x.stage = "typing"
  BY DEF PastedText, TextOK
<1> SUFFICES ASSUME Alone(x)
             PROVE  /\ \A i \in DOMAIN z : x.str[z[i].at] \notin Controls =>
                         z[i].shift = NeedsShift(x.str[z[i].at])
                    /\ rfb[x.inst] = "connected" => shiftDown = x.shift_state
  BY <1>0 DEF CaseOK, z
<1>2. /\ \A i \in DOMAIN s : x.str[s[i].at] \notin Controls =>
           s[i].shift = NeedsShift(x.str[s[i].at])
      /\ rfb[x.inst] = "connected" => shiftDown = x.shift_state
      /\ x.shift_state = NeedsShift(x.str[x.next - 1])
  BY <1>1 DEF CaseOK
<1>3. CASE Live(x.inst)
  <2> DEFINE k == [at |-> x.next - 1, shift |-> shiftDown]
  <2>1. z = Append(s, k) /\ k \in KeyPress /\ k.at = x.next - 1 /\ k.shift = shiftDown
    BY <1>0, <1>1, <1>3 DEF KeyPress
  <2>2. shiftDown = NeedsShift(x.str[x.next - 1])
    BY <1>2, <1>3 DEF Live
  <2> HIDE DEF k
  <2>3. ASSUME NEW i \in DOMAIN z, x.str[z[i].at] \notin Controls
        PROVE  z[i].shift = NeedsShift(x.str[z[i].at])
    <3>1. CASE i \in DOMAIN s
      BY <1>2, <2>1, <2>3, <3>1, Appended
    <3>2. CASE i = Len(s) + 1
      BY <2>1, <2>2, <3>2, Appended
    <3> QED BY <2>1, <3>1, <3>2, Appended
  <2> QED BY <1>2, <2>3
<1>4. CASE ~Live(x.inst)
  BY <1>0, <1>2, <1>4
<1> QED BY <1>3, <1>4

LEMMA KeyDueStep ==
  ASSUME PageInv, NEW t \in Texts, KeyDue(t)
  PROVE  PageInv'
<1>1. /\ text \in [Texts -> PastedText] /\ typed \in [Texts -> Seq(KeyPress)]
      /\ shiftDown \in BOOLEAN /\ ViewerInv /\ ViewerTypeOK
  BY DEF PageInv, TypeOK
<1>2. ViewerInv' /\ ViewerTypeOK' /\ rfb' = rfb
  BY <1>1, ViewerStutter DEF KeyDue, viewerVars, rfbVars, ViewerInv
<1>3. /\ text[t].key /\ text' = [text EXCEPT ![t].key = FALSE] /\ shiftDown' = shiftDown
      /\ KeyArrives(t, text[t].inst, text[t].next - 1)
  BY DEF KeyDue
<1> DEFINE z == KeyArrived(text[t], typed[t])
           y == [text[t] EXCEPT !.key = FALSE]
<1>4. typed' = [typed EXCEPT ![t] = z]
  BY <1>1, <1>3 DEF KeyArrives, KeyArrived
<1>5. \A x \in PastedText :
        [x EXCEPT !.key = FALSE] \in PastedText /\ Sent(x, [x EXCEPT !.key = FALSE])
        /\ ([x EXCEPT !.key = FALSE].solo <=> x.solo)
  BY DEF PastedText, Sent, Alone
<1>6. y \in PastedText /\ Sent(text[t], y) /\ (y.solo <=> text[t].solo)
  BY <1>1, <1>5
<1>7. text' = [text EXCEPT ![t] = y]
  BY <1>3
<1>8. TextOK(text[t], typed[t], rfb) /\ CaseOK(text[t], typed[t], rfb, shiftDown)
  BY DEF PageInv, TextInv, CaseInv
<1> HIDE DEF y
<1>9. text[t] \in PastedText /\ typed[t] \in Seq(KeyPress)
  BY <1>1
<1>10. z \in Seq(KeyPress) /\ TextOK(y, z, rfb)
  BY <1>1, <1>3, <1>6, <1>8, <1>9, KeyIntact
<1>11. CaseOK(y, z, rfb, shiftDown)
  BY <1>1, <1>3, <1>6, <1>8, <1>9, KeyCase
<1> HIDE DEF z
<1>12. /\ text' \in [Texts -> PastedText] /\ text'[t] = y
       /\ \A u \in Texts \ {t} : text'[u] = text[u]
       /\ typed' \in [Texts -> Seq(KeyPress)] /\ typed'[t] = z
       /\ \A u \in Texts \ {t} : typed'[u] = typed[u]
  BY <1>1, <1>4, <1>6, <1>7, <1>10
<1>13. TypeOK'
  BY <1>1, <1>2, <1>3, <1>12 DEF TypeOK
<1>14. TextInv' /\ CaseInv'
  BY <1>2, <1>3, <1>10, <1>11, <1>12 DEF PageInv, TextInv, CaseInv
<1>15. SoloInv'
  BY <1>6, <1>12 DEF PageInv, SoloInv, Sent
<1> QED BY <1>2, <1>13, <1>14, <1>15 DEF PageInv

(* A text that is not being typed changes its stage.                       *)
LEMMA WaitingStep ==
  ASSUME PageInv, NEW t \in Texts, text[t].stage \in {"idle", "reading"}, NEW y \in PastedText,
         y.stage \in {"reading", "done"}, y.str = text[t].str, ~y.key, ~y.whole,
         text' = [text EXCEPT ![t] = y], UNCHANGED <<shiftDown, typed, viewerVars>>
  PROVE  PageInv'
<1>1. /\ text \in [Texts -> PastedText] /\ typed \in [Texts -> Seq(KeyPress)]
      /\ shiftDown \in BOOLEAN /\ ViewerInv /\ ViewerTypeOK
  BY DEF PageInv, TypeOK
<1>2. /\ ViewerInv' /\ ViewerTypeOK' /\ rfb' = rfb
      /\ shiftDown' = shiftDown /\ typed' = typed
  BY <1>1, ViewerStutter DEF viewerVars, rfbVars, ViewerInv
<1>3. /\ text' \in [Texts -> PastedText] /\ text'[t] = y
      /\ \A u \in Texts \ {t} : text'[u] = text[u]
  BY <1>1
<1>4. TypeOK'
  BY <1>1, <1>2, <1>3 DEF TypeOK
<1>5. TextOK(y, typed[t], rfb)
  BY DEF PageInv, TextInv, TextOK
<1>6. CaseOK(y, typed[t], rfb, shiftDown)
  BY DEF CaseOK, Alone
<1>7. TextInv' /\ CaseInv'
  BY <1>2, <1>3, <1>5, <1>6 DEF PageInv, TextInv, CaseInv
<1>8. SoloInv'
  BY <1>3 DEF PageInv, SoloInv
<1> QED BY <1>2, <1>4, <1>7, <1>8 DEF PageInv

LEMMA ClipboardSteps ==
  ASSUME PageInv, NEW t \in Texts, SendFromClipboard(t) \/ ClipboardDenied(t)
  PROVE  PageInv'
<1>1. /\ text \in [Texts -> PastedText] /\ key \in Keys
      /\ text[t].stage \in {"idle", "reading"} => ~text[t].key /\ ~text[t].whole
  BY DEF PageInv, TypeOK, ViewerTypeOK, TextInv, TextOK
<1>2. \A x \in PastedText, k \in Keys :
        LET w == [x EXCEPT !.stage = "reading", !.inst = k]
        IN  /\ w \in PastedText /\ w.stage = "reading" /\ w.str = x.str
            /\ w.key = x.key /\ w.whole = x.whole
  BY DEF PastedText
<1>3. \A x \in PastedText :
        LET w == [x EXCEPT !.stage = "done"]
        IN  /\ w \in PastedText /\ w.stage = "done" /\ w.str = x.str
            /\ w.key = x.key /\ w.whole = x.whole
  BY DEF PastedText
<1>4. CASE SendFromClipboard(t)
  <2> DEFINE y == [text[t] EXCEPT !.stage = "reading", !.inst = key]
  <2>1. /\ y \in PastedText /\ y.stage = "reading" /\ y.str = text[t].str
        /\ y.key = text[t].key /\ y.whole = text[t].whole
    BY <1>1, <1>2
  <2>2. /\ text[t].stage = "idle" /\ text' = [text EXCEPT ![t] = y]
        /\ UNCHANGED <<shiftDown, typed, viewerVars>>
    BY <1>1, <1>4 DEF SendFromClipboard
  <2> HIDE DEF y
  <2> QED BY <1>1, <2>1, <2>2, WaitingStep
<1>5. CASE ClipboardDenied(t)
  <2> DEFINE y == [text[t] EXCEPT !.stage = "done"]
  <2>1. /\ y \in PastedText /\ y.stage = "done" /\ y.str = text[t].str
        /\ y.key = text[t].key /\ y.whole = text[t].whole
    BY <1>1, <1>3
  <2>2. /\ text[t].stage = "reading" /\ text' = [text EXCEPT ![t] = y]
        /\ UNCHANGED <<shiftDown, typed, viewerVars>>
    BY <1>1, <1>5 DEF ClipboardDenied
  <2> HIDE DEF y
  <2> QED BY <1>1, <2>1, <2>2, WaitingStep
<1> QED BY <1>4, <1>5

(* A connection that once stood never stands again when it is lost.        *)
LEMMA StandingStays ==
  ASSUME ViewerInv, ViewerNext, NEW k \in Keys, Standing(rfb, k)
  PROVE  Standing(rfb', k) /\ (rfb'[k] = "connected" => rfb[k] = "connected")
<1>1. rfb \in [Keys -> RfbStates] /\ key \in Keys /\ Keys \subseteq Nat
  BY OnThePage
<1>2. CASE Connect \/ Lose
  BY <1>1, <1>2 DEF Connect, Lose, Standing
<1>3. CASE \E j \in Keys : Closed(j)
  BY <1>1, <1>3 DEF Closed, Standing
<1>4. CASE Unmount
  BY <1>1, <1>4 DEF Unmount, Disconnected, Standing
<1>5. CASE TimerFires
  <2>1. k # key + 1
    <3>1. key < k => rfb[k] = "none"
      BY DEF ViewerInv, OneByOne
    <3> QED BY <1>1, <3>1 DEF Standing
  <2> QED BY <1>1, <1>5, <2>1 DEF TimerFires, Mount, Disconnected, Standing, rfbVars
<1>6. CASE Tick
  BY <1>6 DEF Tick, rfbVars
<1> QED BY <1>2, <1>3, <1>4, <1>5, <1>6 DEF ViewerNext

LEMMA ViewerOnPage ==
  ASSUME PageInv, OnPage(ViewerNext)
  PROVE  PageInv'
<1>1. /\ text \in [Texts -> PastedText] /\ typed \in [Texts -> Seq(KeyPress)]
      /\ shiftDown \in BOOLEAN /\ ViewerInv
  BY DEF PageInv, TypeOK
<1>2. ViewerNext /\ text' = text /\ typed' = typed
      /\ shiftDown' = (shiftDown /\ rfb'[key'] = "connected")
  BY DEF OnPage
<1>3. ViewerInv'
  BY <1>1, <1>2, ViewerStep
<1>4. ViewerTypeOK'
  BY <1>3 DEF ViewerInv
<1>5. TypeOK'
  BY <1>1, <1>2, <1>4 DEF TypeOK
<1>6. \A k \in Keys : rfb'[k] = "connected" => k = key'
  BY <1>3, ViewerAssumption
     DEF ViewerInv, ViewerTypeOK, OneByOne, AlwaysTrying, GoneQuiet, Keys, RfbStates
<1>7. ASSUME NEW t \in Texts
      PROVE  TextOK(text[t], typed[t], rfb') /\ CaseOK(text[t], typed[t], rfb', shiftDown')
  <2>1. TextOK(text[t], typed[t], rfb) /\ CaseOK(text[t], typed[t], rfb, shiftDown)
    BY DEF PageInv, TextInv, CaseInv
  <2>2. text[t].inst \in Keys
    BY <1>1 DEF PastedText
  <2>3. text[t].whole => /\ Standing(rfb', text[t].inst)
                         /\ rfb'[text[t].inst] = "connected" => rfb[text[t].inst] = "connected"
    BY <1>1, <1>2, <2>1, <2>2, StandingStays DEF TextOK
  <2>4. TextOK(text[t], typed[t], rfb')
    BY <2>1, <2>3 DEF TextOK
  <2>5. Alone(text[t]) /\ rfb'[text[t].inst] = "connected" =>
          /\ rfb[text[t].inst] = "connected"
          /\ shiftDown' = shiftDown
    BY <1>1, <1>2, <1>6, <2>2, <2>3 DEF Alone
  <2>6. CaseOK(text[t], typed[t], rfb', shiftDown')
    BY <2>1, <2>5 DEF CaseOK
  <2> QED BY <2>4, <2>6
<1>8. TextInv' /\ CaseInv'
  BY <1>2, <1>7 DEF TextInv, CaseInv
<1>9. SoloInv'
  BY <1>2 DEF PageInv, SoloInv
<1> QED BY <1>3, <1>5, <1>8, <1>9 DEF PageInv

LEMMA PageInitInv == PageInit => PageInv
<1> SUFFICES ASSUME PageInit PROVE PageInv
  OBVIOUS
<1>1. ViewerInv
  BY ViewerInitInv DEF PageInit
<1>2. NoText \in PastedText
  BY ViewerAssumption DEF NoText, PastedText, Keys
<1>3. <<>> \in Seq(KeyPress)
  OBVIOUS
<1>4. \A t \in Texts : text[t] = NoText /\ typed[t] = <<>>
  BY DEF PageInit
<1>5. TypeOK
  BY <1>1, <1>2, <1>3 DEF PageInit, TypeOK, ViewerInv
<1>6. TextOK(NoText, <<>>, rfb) /\ CaseOK(NoText, <<>>, rfb, shiftDown)
  BY DEF NoText, TextOK, CaseOK, Alone
<1>7. SoloInv
  BY <1>4 DEF SoloInv, NoText
<1> QED BY <1>1, <1>4, <1>5, <1>6, <1>7 DEF PageInv, TextInv, CaseInv

LEMMA PageStep == PageInv /\ [PageNext]_pageVars => PageInv'
<1> SUFFICES ASSUME PageInv, [PageNext]_pageVars PROVE PageInv'
  OBVIOUS
<1>1. CASE OnPage(ViewerNext)
  BY <1>1, ViewerOnPage
<1>2. ASSUME NEW t \in Texts, SendBuffer(t) PROVE PageInv'
  <2>1. key \in Keys
    BY DEF PageInv, TypeOK, ViewerTypeOK
  <2> QED BY <1>2, <2>1, BeginStep DEF SendBuffer
<1>3. ASSUME NEW t \in Texts, ClipboardRead(t) PROVE PageInv'
  <2>1. text[t].inst \in Keys
    BY DEF PageInv, TypeOK, PastedText
  <2> QED BY <1>3, <2>1, BeginStep DEF ClipboardRead
<1>4. ASSUME NEW t \in Texts, SendFromClipboard(t) \/ ClipboardDenied(t) PROVE PageInv'
  BY <1>4, ClipboardSteps
<1>5. ASSUME NEW t \in Texts, KeyDue(t) PROVE PageInv'
  BY <1>5, KeyDueStep
<1>6. ASSUME NEW t \in Texts, NextChar(t) PROVE PageInv'
  BY <1>6, NextCharStep
<1>7. CASE UNCHANGED pageVars
  <2>1. UNCHANGED viewerVars /\ text' = text /\ typed' = typed /\ shiftDown' = shiftDown
    BY <1>7 DEF pageVars, pasteVars
  <2>2. ViewerInv'
    BY <2>1, ViewerStutter DEF PageInv
  <2>3. rfb' = rfb
    BY <2>1 DEF viewerVars, rfbVars
  <2> QED BY <2>1, <2>2, <2>3 DEF PageInv, TypeOK, ViewerInv, TextInv, CaseInv, SoloInv
<1> QED BY <1>1, <1>2, <1>3, <1>4, <1>5, <1>6, <1>7 DEF PageNext

-----------------------------------------------------------------------------
(* What holds of every page *)

(* How far each text has been typed, how it stands with Shift and with the *)
(* other texts, in every state of the page (RFB.svelte 72-107).            *)
THEOREM PageInvariant == PageSpec => []PageInv
<1>1. PageInit => PageInv
  BY PageInitInv
<1>2. PageInv /\ [PageNext]_pageVars => PageInv'
  BY PageStep
<1> QED BY <1>1, <1>2, PTL DEF PageSpec

(* The values of the variables of the viewer and of its texts.             *)
THEOREM PageTypes == PageSpec => []TypeOK
<1>1. PageInv => TypeOK
  BY DEF PageInv
<1> QED BY <1>1, PageInvariant, PTL

(* A text begun on a standing connection arrives in its order and without  *)
(* a gap, cut off only by the loss of the connection, whatever other texts *)
(* and reconnections it meets: one chain of callbacks types it, and the    *)
(* next call of sendString is made only after the key of the last          *)
(* (RFB.svelte 72-107).                                                    *)
THEOREM PasteTheorem == PageSpec => []PasteIntact
<1>1. ASSUME PageInv PROVE PasteIntact
  <2> SUFFICES ASSUME NEW t \in Texts, text[t].whole
               PROVE  /\ InOrder(typed[t])
                      /\ \E n \in 0 .. Len(text[t].str) :
                           Arrived(typed[t]) = {i \in KeyPlaces(text[t].str) : i <= n}
                      /\ text[t].stage = "done" /\ Live(text[t].inst) =>
                           Arrived(typed[t]) = KeyPlaces(text[t].str)
    BY DEF PasteIntact
  <2>1. text[t] \in PastedText /\ TextOK(text[t], typed[t], rfb)
    BY <1>1 DEF PageInv, TypeOK, TextInv
  <2>2. Len(text[t].str) \in Nat /\ DOMAIN text[t].str = 1 .. Len(text[t].str)
    <3>1. text[t].str \in Contents \union {<<>>}
      BY <2>1 DEF PastedText
    <3>2. Contents \subseteq Seq(Characters) /\ <<>> \in Seq(Characters)
      BY PageAssumption
    <3>3. text[t].str \in Seq(Characters)
      BY <3>1, <3>2
    <3> QED BY <3>3
  <2>3. text[t].next \in Nat \ {0}
    BY <2>1 DEF PastedText
  <2>4. /\ InOrder(typed[t]) /\ text[t].next <= Len(text[t].str) + 1
        /\ text[t].stage = "done" => ~text[t].key /\ text[t].next = Len(text[t].str) + 1
    BY <2>1 DEF TextOK
  <2>5. PICK n \in 0 .. Due(text[t]) :
               /\ Arrived(typed[t]) = Upto(text[t], n)
               /\ rfb[text[t].inst] = "connected" => n = Due(text[t])
    BY <2>1 DEF TextOK
  <2>6. n \in 0 .. Len(text[t].str)
    BY <2>2, <2>3, <2>4 DEF Due
  <2>7. ASSUME text[t].stage = "done", Live(text[t].inst)
        PROVE  Arrived(typed[t]) = KeyPlaces(text[t].str)
    <3>1. n = Len(text[t].str)
      BY <2>2, <2>3, <2>4, <2>5, <2>7 DEF Due, Live
    <3>2. Upto(text[t], n) = KeyPlaces(text[t].str)
      BY <2>2, <3>1 DEF Upto, KeyPlaces
    <3> QED BY <2>5, <3>2
  <2> QED BY <2>4, <2>5, <2>6, <2>7 DEF Upto
<1> QED BY <1>1, PageInvariant, PTL

(* A text that meets no other text, and found Shift up, arrives with every *)
(* character in its case: while the connection stands its shift_state is   *)
(* the Shift of the machine (RFB.svelte 83-105).                           *)
THEOREM CaseTheorem == PageSpec => []CaseKept
<1>1. ASSUME PageInv PROVE CaseKept
  <2> SUFFICES ASSUME NEW t \in Texts, text[t].whole, text[t].clean, text[t].solo
               PROVE  CaseOf(t)
    BY DEF CaseKept
  <2>1. CaseOK(text[t], typed[t], rfb, shiftDown) /\ typed[t] \in Seq(KeyPress)
    BY <1>1 DEF PageInv, CaseInv, TypeOK
  <2>2. DOMAIN typed[t] = 1 .. Len(typed[t])
    BY <2>1
  <2> QED BY <2>1, <2>2 DEF CaseOK, Alone, CaseOf
<1> QED BY <1>1, PageInvariant, PTL

=============================================================================
