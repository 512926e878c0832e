------------------------------- MODULE VncPage -------------------------------
(***************************************************************************)
(* The viewer together with the texts its user pastes (RFB.svelte).  A     *)
(* text is typed character by character: sendString presses or releases    *)
(* Shift if need be, sends the key 50 ms later and calls itself 200 ms     *)
(* later.  Nothing stops it, and every text has a shift_state of its own   *)
(* while the machine has one Shift key.  The lengths of the delays matter  *)
(* only through their order: a key goes before the next call.              *)
(***************************************************************************)
EXTENDS VncViewer, Sequences, SequencesExt

CONSTANTS Texts,     \* bound: the pastes of a behaviour
          Contents,  \* what a text may consist of: sequences of Characters
          MaxField   \* the input field takes that many characters

VARIABLES
  text,       \* the state of each paste
  shiftDown,  \* whether the machine sees Shift pressed
  typed       \* the keys of each text that reached the machine

pasteVars == <<text, shiftDown, typed>>
pageVars == <<viewerVars, pasteVars>>

(* A lower-case letter, a character that needs Shift, \n and \r.           *)
Characters == {"small", "capital", "newline", "return"}

ASSUME PageAssumption == Contents \subseteq Seq(Characters) /\ MaxField \in Nat

NeedsShift(c) == c = "capital"
Controls == {"newline", "return"}

(* stage: where the paste is.  inst: the RFB component it was begun in.    *)
(* next: the index of the character sendString takes next.  key: the       *)
(* callback that sends the key is pending.  The last three fields are      *)
(* history: the connection stood when the text was begun; Shift was up     *)
(* then; no other text was typed meanwhile.                                *)
NoText == [stage |-> "idle", inst |-> 0, str |-> <<>>, next |-> 1,
           shift_state |-> FALSE, key |-> FALSE,
           whole |-> FALSE, clean |-> FALSE, solo |-> FALSE]

PageInit ==
  /\ ViewerInit
  /\ text = [t \in Texts |-> NoText]
  /\ shiftDown = FALSE
  /\ typed = [t \in Texts |-> <<>>]

-----------------------------------------------------------------------------
(* noVNC sends a key only while it is connected.                           *)
Live(k) == rfb[k] = "connected"

(* A key of text t at place i arrives, with Shift as the machine sees it.  *)
KeyArrives(t, k, i) ==
  typed' = IF Live(k)
           THEN [typed EXCEPT ![t] = Append(@, [at |-> i, shift |-> shiftDown])]
           ELSE typed

(* Mutant of ShiftArrives: Shift is never released.                        *)
ShiftStays(x, c) ==
  shiftDown' = IF Live(x.inst) /\ NeedsShift(c) /\ ~x.shift_state
               THEN TRUE
               ELSE shiftDown

(* sendString presses Shift before the first of several characters that    *)
(* need it and releases it before the first that does not.                 *)
ShiftArrives(x, c) ==
  shiftDown' = IF Live(x.inst) /\ NeedsShift(c) # x.shift_state
               THEN NeedsShift(c)
               ELSE shiftDown

(* One call of sendString for text t, whose state is x; others is the      *)
(* state of the texts apart from t.                                        *)
SendString(t, x, others) ==
  IF x.next > Len(x.str)
  THEN /\ text' = [others EXCEPT ![t] = [x EXCEPT !.stage = "done"]]
       /\ UNCHANGED <<shiftDown, typed>>
  ELSE LET c == x.str[x.next] IN
       IF c \in Controls
       THEN /\ text' = [others EXCEPT ![t] = [x EXCEPT !.next = @ + 1]]
            /\ IF c = "newline" THEN KeyArrives(t, x.inst, x.next) ELSE UNCHANGED typed
            /\ UNCHANGED shiftDown
       ELSE /\ text' = [others EXCEPT ![t] =
                          [x EXCEPT !.next = @ + 1, !.key = TRUE,
                                    !.shift_state = NeedsShift(c)]]
            /\ ShiftArrives(x, c)
            /\ UNCHANGED typed

(* The texts that are being typed into component k.                        *)
TypedInto(k) == {u \in Texts : text[u].stage = "typing" /\ text[u].inst = k}

(* The first call of sendString, made where str becomes known.             *)
Begin(t, k, str) ==
  LET first == [NoText EXCEPT !.stage = "typing", !.inst = k, !.str = str,
                              !.whole = Live(k), !.clean = ~shiftDown,
                              !.solo = TypedInto(k) = {}]
      others == [u \in Texts |->
                   IF u \in TypedInto(k) THEN [text[u] EXCEPT !.solo = FALSE] ELSE text[u]]
  IN SendString(t, first, others)

-----------------------------------------------------------------------------
(* The button of the input field, which holds no line breaks.              *)
SendBuffer(t) ==
  /\ mounted
  /\ text[t].stage = "idle"
  /\ \E str \in Contents :
       /\ Len(str) \in 1 .. MaxField
       /\ ToSet(str) \intersect Controls = {}
       /\ Begin(t, key, str)
  /\ UNCHANGED viewerVars

(* The button of the clipboard, which the browser reads asynchronously.    *)
SendFromClipboard(t) ==
  /\ mounted
  /\ text[t].stage = "idle"
  /\ text' = [text EXCEPT ![t].stage = "reading", ![t].inst = key]
  /\ UNCHANGED <<shiftDown, typed, viewerVars>>

ClipboardRead(t) ==
  /\ text[t].stage = "reading"
  /\ \E str \in Contents : Begin(t, text[t].inst, str)
  /\ UNCHANGED viewerVars

ClipboardDenied(t) ==
  /\ text[t].stage = "reading"
  /\ text' = [text EXCEPT ![t].stage = "done"]
  /\ UNCHANGED <<shiftDown, typed, viewerVars>>

(* The callback after 50 ms.                                               *)
KeyDue(t) ==
  /\ text[t].key
  /\ KeyArrives(t, text[t].inst, text[t].next - 1)
  /\ text' = [text EXCEPT ![t].key = FALSE]
  /\ UNCHANGED <<shiftDown, viewerVars>>

(* Mutant of NextChar: the next call is not later than the key.            *)
NextCharEarly(t) ==
  /\ text[t].stage = "typing"
  /\ SendString(t, text[t], text)
  /\ UNCHANGED viewerVars

(* The callback after 200 ms, or after 50 ms behind a control character.   *)
NextChar(t) ==
  /\ text[t].stage = "typing"
  /\ ~text[t].key
  /\ SendString(t, text[t], text)
  /\ UNCHANGED viewerVars

(* A step A of the viewer.  A machine forgets the keys of a connection     *)
(* that has ended.                                                         *)
OnPage(A) ==
  /\ A
  /\ shiftDown' = (shiftDown /\ rfb'[key'] = "connected")
  /\ UNCHANGED <<text, typed>>

PageNext ==
  \/ OnPage(ViewerNext)
  \/ \E t \in Texts :
       \/ SendBuffer(t)
       \/ SendFromClipboard(t)
       \/ ClipboardRead(t)
       \/ ClipboardDenied(t)
       \/ KeyDue(t)
       \/ NextChar(t)

PageSpec == PageInit /\ [][PageNext]_pageVars

(* The browser runs its callbacks, an attempt to connect ends, and noVNC   *)
(* waits three seconds at most for a websocket to close.  Nobody is        *)
(* obliged to use the page or to leave it.                                 *)
PageFairness ==
  /\ WF_pageVars(OnPage(Connect))
  /\ WF_pageVars(OnPage(TimerFires))
  /\ WF_pageVars(OnPage(Tick))
  /\ \A k \in Keys : WF_pageVars(OnPage(Closed(k)))
  /\ \A t \in Texts : WF_pageVars(KeyDue(t)) /\ WF_pageVars(NextChar(t))

FairPageSpec == PageSpec /\ PageFairness

-----------------------------------------------------------------------------
PastedText ==
  [stage : {"idle", "reading", "typing", "done"}, inst : Keys,
   str : Contents \union {<<>>}, next : Nat \ {0},
   shift_state : BOOLEAN, key : BOOLEAN,
   whole : BOOLEAN, clean : BOOLEAN, solo : BOOLEAN]

KeyPress == [at : Nat \ {0}, shift : BOOLEAN]

TypeOK ==
  /\ ViewerTypeOK
  /\ shiftDown \in BOOLEAN
  /\ text \in [Texts -> PastedText]
  /\ typed \in [Texts -> Seq(KeyPress)]

(* The places of a text that become keys: all but \r.                      *)
KeyPlaces(str) == {i \in DOMAIN str : str[i] # "return"}

(* The places of the keys that arrived, and whether they did so in order.  *)
Arrived(keys) == {keys[i].at : i \in DOMAIN keys}
InOrder(keys) == \A i, j \in DOMAIN keys : i < j => keys[i].at < keys[j].at

(* A text that was begun on a standing connection reaches the machine in   *)
(* its order and without a gap, however it is interleaved with other texts *)
(* and with the loss of the connection, which cuts it off; if the          *)
(* connection stands, nothing of it is lost (RFB.svelte 72-107).           *)
PasteIntact ==
  \A t \in Texts :
    text[t].whole =>
      LET places == KeyPlaces(text[t].str) IN
      /\ InOrder(typed[t])
      /\ \E n \in 0 .. Len(text[t].str) : Arrived(typed[t]) = {i \in places : i <= n}
      /\ text[t].stage = "done" /\ Live(text[t].inst) => Arrived(typed[t]) = places

CaseOf(t) ==
  \A i \in 1 .. Len(typed[t]) :
    LET c == text[t].str[typed[t][i].at] IN
      c \notin Controls => typed[t][i].shift = NeedsShift(c)

(* If no other text is typed meanwhile and Shift was up before, every      *)
(* character arrives with Shift as it needs it, although each text tracks  *)
(* Shift on its own (RFB.svelte 83-105).                                   *)
CaseKept ==
  \A t \in Texts : text[t].whole /\ text[t].clean /\ text[t].solo => CaseOf(t)

=============================================================================
