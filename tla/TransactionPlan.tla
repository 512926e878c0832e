--------------------------- MODULE TransactionPlan ---------------------------
(***************************************************************************)
(* The planner and the executor of transactions on PVE                     *)
(* (libraries/proxmox-deploy-toolkit), as their two users run them: the    *)
(* command line proxmox-compose, whose user may edit the configuration     *)
(* between runs and repeats them at will, and the handlers of jobservice.  *)
(*                                                                         *)
(* A transaction is planned from the configuration and the state of PVE,   *)
(* then executed action by action.  An action may fail or the process may  *)
(* die, the rest of the transaction is then lost, and the next one is      *)
(* planned from what it left.                                              *)
(*                                                                         *)
(* A network is made in two steps: it is declared, and a reload of the     *)
(* cluster's SDN or of the node's network applies everything declared so   *)
(* far.  It is removed in the same way.                                    *)
(***************************************************************************)
EXTENDS Integers, Sequences, SequencesExt

CONSTANTS VMs,       \* sequence of the configured VMs
          Nets,      \* sequence of the configured networks
          Numbers,   \* numbers of network devices of a VM
          Wishes,    \* what the configuration may ask of a VM
          Template,  \* the network devices of a VM just cloned
          None,      \* no network, no number
          MaxRuns,   \* bound of the transactions
          MaxFaults, \* bound of the actions that fail
          MaxEdits   \* bound of the edits of the configuration

VMSet    == ToSet(VMs)
NetSet   == ToSet(Nets)
Kinds    == {"sdn", "bridge"}
Devices  == [Numbers -> NetSet \union {None} \union {Template[k] : k \in Numbers}]
NoDevice == [k \in Numbers |-> None]
Given(w) == w.nets # None

(* Explicit numbers of one VM differ; a network is connected by a number   *)
(* or by the first number that is free.  There are no more networks of a   *)
(* VM than numbers: otherwise the planning throws "Network ID overflow!"   *)
(* and there is no transaction.                                            *)
ASSUME PlanAssumption ==
  /\ VMs \in Seq(VMSet) /\ Nets \in Seq(NetSet)
  /\ Numbers \subseteq Nat /\ IsFiniteSet(Numbers)
  /\ Template \in [Numbers -> {Template[k] : k \in Numbers}]
  /\ None \notin NetSet /\ None \notin Numbers /\ None \notin {"up", "down"}
  /\ \A w \in Wishes :
       /\ w.clean \in BOOLEAN /\ w.running \in BOOLEAN
       /\ Given(w) => /\ w.nets \in Seq([num : Numbers \union {None}, net : NetSet])
                      /\ Len(w.nets) <= Cardinality(Numbers)
                      /\ \A i, j \in DOMAIN w.nets :
                           w.nets[i].num = w.nets[j].num => i = j \/ w.nets[i].num = None
  /\ MaxRuns \in Nat /\ MaxFaults \in Nat /\ MaxEdits \in Nat

VARIABLES
  wish,        \* configuration: what each VM shall be
  kind,        \* configuration: the kind of each network
  user,        \* the program that runs the transactions
  listsPending,\* PVE: its lists show what is declared, not what is applied
  vm,          \* PVE: "absent", "cloned" and not configured yet, or "ready"
  nic,         \* PVE: the network of each device of each VM
  on,          \* PVE: the VM is running
  net,         \* PVE: "absent", "declared", "applied", or "removing"
  target,      \* of the last transaction: "up", "down", or None
  todo,        \* its actions still to be executed
  outcome,     \* "run", "done", or "failed"
  seen,        \* what its planning saw of PVE
  ignored,     \* an action of it had no effect, which the executor ignored
  runs, faults, edits

input  == <<kind, user, listsPending>>
pve    == <<vm, nic, on, net>>
bounds == <<runs, faults, edits>>
vars   == <<wish, input, pve, target, todo, outcome, seen, ignored, bounds>>

Look == [vm |-> vm, nic |-> nic, net |-> net]

Init ==
  /\ wish \in [VMSet -> Wishes]
  /\ kind \in [NetSet -> Kinds]
  /\ user \in {"compose", "jobservice"}
  /\ listsPending \in BOOLEAN
  /\ vm = [v \in VMSet |-> "absent"]
  /\ nic = [v \in VMSet |-> NoDevice]
  /\ on = [v \in VMSet |-> FALSE]
  /\ net = [n \in NetSet |-> "absent"]
  /\ target = None /\ todo = <<>> /\ outcome = "done"
  /\ seen = Look /\ ignored = FALSE
  /\ runs = 0 /\ faults = 0 /\ edits = 0

-----------------------------------------------------------------------------
(* The planner *)

Listed(n) == net[n] \in IF listsPending THEN {"declared", "applied"}
                                        ELSE {"applied", "removing"}

Act(op, item) == [op |-> op, item |-> item, num |-> None, net |-> None]

Gather(Op(_), s) == FlattenSeq([i \in DOMAIN s |-> Op(s[i])])

(* NetworkExists and NetworkNotExists.                                     *)
NetworkExists(n) ==
  IF Listed(n) THEN <<>> ELSE <<Act("create", n), Act("apply", kind[n])>>
NetworkNotExists(n) ==
  IF Listed(n) THEN <<Act("remove", n), Act("apply", kind[n])>> ELSE <<>>

(* VMExists: a VM that PVE knows is left as it is.                         *)
VMExists(v) ==
  IF vm[v] # "absent" THEN <<>> ELSE <<Act("clone", v), Act("configure", v)>>

(* Mutant of VMNotExists: a VM is known by its configuration.              *)
VMNotReady(v) == IF vm[v] = "ready" THEN <<Act("destroy", v)>> ELSE <<>>

VMNotExists(v) == IF vm[v] # "absent" THEN <<Act("destroy", v)>> ELSE <<>>

(* NetworksRemoved, for VMs to be cleaned or without any network.          *)
NetworksRemoved(v) ==
  IF wish[v].clean \/ wish[v].nets = <<>> THEN <<Act("clean", v)>> ELSE <<>>

(* enumerateNetworks: devices without a number get the first free ones.    *)
Enumerate(nets) ==
  LET explicit == {nets[i].num : i \in DOMAIN nets}
      e[i \in 0..Len(nets)] ==
        IF i = 0 THEN <<>>
        ELSE LET taken == explicit \union {e[i - 1][j].num : j \in 1..(i - 1)}
                 first == CHOOSE k \in Numbers \ taken :
                            \A l \in Numbers \ taken : k <= l
             IN Append(e[i - 1], [nets[i] EXCEPT !.num = IF @ = None THEN first ELSE @])
  IN e[Len(nets)]

Declared(v) == IF Given(wish[v]) THEN Enumerate(wish[v].nets) ELSE <<>>

Attach(v, c) == [op |-> "attach", item |-> v, num |-> c.num, net |-> c.net]
Detach(v, k) == [op |-> "detach", item |-> v, num |-> k, net |-> None]

(* Mutant of NetworkConnected: connected anew without a look at the VM.    *)
AttachAlways(v, c) == <<Attach(v, c)>>

(* Mutant of NetworkConnected: other devices on the network stay.          *)
AttachOnly(v, c) == IF nic[v][c.num] = c.net THEN <<>> ELSE <<Attach(v, c)>>

(* Other devices on the network are detached before it is attached.        *)
NetworkConnected(v, c) ==
  IF nic[v][c.num] = c.net THEN <<>>
  ELSE LET others == SetToSeq({k \in Numbers : nic[v][k] = c.net})
       IN Append([i \in DOMAIN others |-> Detach(v, others[i])], Attach(v, c))

Connections(v) == Gather(LAMBDA c : NetworkConnected(v, c), Declared(v))

(* genericPowerFunction.                                                   *)
Power(v, up) ==
  IF vm[v] = "absent" THEN IF up /\ wish[v].running THEN <<Act("start", v)>> ELSE <<>>
  ELSE LET goal == up /\ wish[v].running IN
       IF on[v] = goal THEN <<>> ELSE <<Act(IF on[v] THEN "stop" ELSE "start", v)>>

(* Mutant of UpPlan: VMs are cleaned after their networks are connected.   *)
UpCleanLast ==
  Gather(NetworkExists, Nets) \o Gather(VMExists, VMs) \o Gather(Connections, VMs)
    \o Gather(NetworksRemoved, VMs) \o Gather(LAMBDA v : Power(v, TRUE), VMs)

(* planTransactionStages gives the order.                                  *)
UpPlan ==
  Gather(NetworkExists, Nets) \o Gather(VMExists, VMs)
    \o Gather(NetworksRemoved, VMs) \o Gather(Connections, VMs)
    \o Gather(LAMBDA v : Power(v, TRUE), VMs)

(* Mutant of DownPlan: the networks go first.                              *)
DownNetsFirst ==
  Gather(NetworkNotExists, Reverse(Nets))
    \o Gather(LAMBDA v : Power(v, FALSE), Reverse(VMs)) \o Gather(VMNotExists, Reverse(VMs))

DownPlan ==
  Gather(LAMBDA v : Power(v, FALSE), Reverse(VMs)) \o Gather(VMNotExists, Reverse(VMs))
    \o Gather(NetworkNotExists, Reverse(Nets))

(* Mutant of LeaveLast: the first of equal reloads stays.                  *)
LeaveFirst(a, s) ==
  FlattenSeq([i \in DOMAIN s |->
    IF s[i] = a /\ \E j \in 1..(i - 1) : s[j] = a THEN <<>> ELSE <<s[i]>>])

(* leaveLastItem: jobservice keeps the last of equal reloads only.         *)
LeaveLast(a, s) ==
  FlattenSeq([i \in DOMAIN s |->
    IF s[i] = a /\ \E j \in (i + 1)..Len(s) : s[j] = a THEN <<>> ELSE <<s[i]>>])

Squeeze(s) ==
  IF user = "compose" THEN s
  ELSE LeaveLast(Act("apply", "bridge"), LeaveLast(Act("apply", "sdn"), s))

Plan(goal) ==
  /\ outcome # "run"
  /\ runs < MaxRuns
  /\ runs' = runs + 1
  /\ target' = goal
  /\ todo' = Squeeze(IF goal = "up" THEN UpPlan ELSE DownPlan)
  /\ outcome' = "run"
  /\ seen' = Look
  /\ ignored' = FALSE
  /\ UNCHANGED <<wish, input, pve, faults, edits>>

-----------------------------------------------------------------------------
(* The executor *)

(* A network that is listed is not created, one that is not is not removed. *)
CreateNetwork(n) ==
  /\ net' = [net EXCEPT ![n] = IF Listed(n) THEN @ ELSE "declared"]
  /\ UNCHANGED <<vm, nic, on>>

RemoveNetwork(n) ==
  /\ net' = [net EXCEPT ![n] = IF ~Listed(n) THEN @
                               ELSE IF @ = "declared" THEN "absent" ELSE "removing"]
  /\ UNCHANGED <<vm, nic, on>>

Reloaded(k) ==
  [n \in NetSet |-> CASE kind[n] = k /\ net[n] = "declared" -> "applied"
                      [] kind[n] = k /\ net[n] = "removing" -> "absent"
                      [] OTHER -> net[n]]

Apply(k) == net' = Reloaded(k) /\ UNCHANGED <<vm, nic, on>>

Clone(v) ==
  /\ vm' = [vm EXCEPT ![v] = IF @ = "absent" THEN "cloned" ELSE @]
  /\ nic' = [nic EXCEPT ![v] = IF vm[v] = "absent" THEN Template ELSE @]
  /\ UNCHANGED <<on, net>>

(* AllocateDisk, ConfigureVM and SetVMDisplay.                             *)
Configure(v) ==
  /\ vm' = [vm EXCEPT ![v] = IF @ = "absent" THEN @ ELSE "ready"]
  /\ UNCHANGED <<nic, on, net>>

(* RemoveNetworks, DetachNetwork, AttachNetwork.                           *)
SetDevices(v, devices) ==
  /\ nic' = [nic EXCEPT ![v] = IF vm[v] = "absent" THEN @ ELSE devices]
  /\ UNCHANGED <<vm, on, net>>

SetPower(v, power) ==
  /\ on' = [on EXCEPT ![v] = vm[v] # "absent" /\ power]
  /\ UNCHANGED <<vm, nic, net>>

DestroyVM(v) ==
  /\ vm' = [vm EXCEPT ![v] = "absent"]
  /\ nic' = [nic EXCEPT ![v] = NoDevice]
  /\ UNCHANGED <<on, net>>

Effect(a) ==
  \/ a.op = "create"    /\ CreateNetwork(a.item)
  \/ a.op = "remove"    /\ RemoveNetwork(a.item)
  \/ a.op = "apply"     /\ Apply(a.item)
  \/ a.op = "clone"     /\ Clone(a.item)
  \/ a.op = "configure" /\ Configure(a.item)
  \/ a.op = "clean"     /\ SetDevices(a.item, NoDevice)
  \/ a.op = "detach"    /\ SetDevices(a.item, [nic[a.item] EXCEPT ![a.num] = None])
  \/ a.op = "attach"    /\ SetDevices(a.item, [nic[a.item] EXCEPT ![a.num] = a.net])
  \/ a.op = "start"     /\ SetPower(a.item, TRUE)
  \/ a.op = "stop"      /\ SetPower(a.item, FALSE)
  \/ a.op = "destroy"   /\ DestroyVM(a.item)

(* PVE refuses to declare an SDN network again (for a bridge the executor  *)
(* looks at what is pending), to remove one twice, and to destroy a VM     *)
(* that is running.                                                        *)
Refused(a) ==
  \/ a.op = "create"  /\ ~Listed(a.item) /\ net[a.item] = "declared" /\ kind[a.item] = "sdn"
  \/ a.op = "remove"  /\ Listed(a.item) /\ net[a.item] = "removing"
  \/ a.op = "destroy" /\ on[a.item]

Running == outcome = "run" /\ todo # <<>>

ExecuteAction ==
  /\ Running
  /\ ~Refused(Head(todo))
  /\ Effect(Head(todo))
  /\ todo' = Tail(todo)
  /\ UNCHANGED <<wish, input, target, outcome, seen, ignored, bounds>>

(* The results of these calls are not looked at, or only give a warning.   *)
ActionIgnored ==
  /\ Running
  /\ Head(todo).op \in {"clean", "detach", "stop"}
  /\ faults < MaxFaults
  /\ faults' = faults + 1
  /\ todo' = Tail(todo)
  /\ ignored' = TRUE
  /\ UNCHANGED <<wish, input, pve, target, outcome, seen, runs, edits>>

Give(result) == todo' = <<>> /\ outcome' = result

(* The action throws, with or without an effect, or the process dies.      *)
ActionFails ==
  /\ Running
  /\ \/ /\ Refused(Head(todo))
        /\ UNCHANGED <<pve, faults>>
     \/ /\ ~Refused(Head(todo))
        /\ faults < MaxFaults
        /\ faults' = faults + 1
        /\ Effect(Head(todo)) \/ UNCHANGED pve
  /\ Give("failed")
  /\ UNCHANGED <<wish, input, target, seen, ignored, runs, edits>>

Finish ==
  /\ outcome = "run" /\ todo = <<>>
  /\ Give("done")
  /\ UNCHANGED <<wish, input, pve, target, seen, ignored, bounds>>

-----------------------------------------------------------------------------
(* The rest of the world *)

(* A guest shuts itself down.                                              *)
GuestStops(v) ==
  /\ on[v]
  /\ on' = [on EXCEPT ![v] = FALSE]
  /\ UNCHANGED <<wish, input, vm, nic, net, target, todo, outcome, seen, ignored, bounds>>

(* Another transaction reloads the networks of one kind.                   *)
OthersApply(k) ==
  /\ net # Reloaded(k)
  /\ net' = Reloaded(k)
  /\ UNCHANGED <<wish, input, vm, nic, on, target, todo, outcome, seen, ignored, bounds>>

(* The user of proxmox-compose edits its file.                             *)
Edit(v, w) ==
  /\ user = "compose" /\ outcome # "run"
  /\ w # wish[v]
  /\ edits < MaxEdits
  /\ edits' = edits + 1
  /\ wish' = [wish EXCEPT ![v] = w]
  /\ outcome' = "failed"
  /\ UNCHANGED <<input, pve, target, todo, seen, ignored, runs, faults>>

Next ==
  \/ Plan("up") \/ Plan("down")
  \/ ExecuteAction \/ ActionIgnored \/ ActionFails \/ Finish
  \/ \E v \in VMSet : GuestStops(v) \/ \E w \in Wishes : Edit(v, w)
  \/ \E k \in Kinds : OthersApply(k)

Spec == Init /\ [][Next]_vars

-----------------------------------------------------------------------------
Actions ==
  [op : {"create", "remove", "apply", "clone", "configure", "clean", "detach",
         "attach", "start", "stop", "destroy"},
   item : VMSet \union NetSet \union Kinds,
   num : Numbers \union {None}, net : NetSet \union {None}]

TypeOK ==
  /\ wish \in [VMSet -> Wishes]
  /\ kind \in [NetSet -> Kinds]
  /\ user \in {"compose", "jobservice"}
  /\ listsPending \in BOOLEAN
  /\ vm \in [VMSet -> {"absent", "cloned", "ready"}]
  /\ nic \in [VMSet -> Devices]
  /\ on \in [VMSet -> BOOLEAN]
  /\ net \in [NetSet -> {"absent", "declared", "applied", "removing"}]
  /\ target \in {"up", "down", None}
  /\ todo \in Seq(Actions)
  /\ outcome \in {"run", "done", "failed"}
  /\ seen \in [vm : [VMSet -> {"absent", "cloned", "ready"}], nic : [VMSet -> Devices],
              net : [NetSet -> {"absent", "declared", "applied", "removing"}]]
  /\ ignored \in BOOLEAN
  /\ runs \in 0..MaxRuns /\ faults \in 0..MaxFaults /\ edits \in 0..MaxEdits

Completed(goal) == target = goal /\ outcome = "done"

Fresh(v) == seen.vm[v] = "absent"

Pending(n) == seen.net[n] \in {"declared", "removing"}

Connected(v) == \A i \in DOMAIN Declared(v) :
                  LET c == Declared(v)[i] IN nic[v][c.num] = c.net

(* Whatever reloads are left out, a VM is attached to a network only when  *)
(* that is applied; but for one that an interrupted transaction had left   *)
(* between its declaration and a reload.  The devices that a clone brings  *)
(* with it are those of the template.                                      *)
AttachLive ==
  [][\A v \in VMSet, k \in Numbers :
       vm[v] # "absent" /\ nic'[v][k] # nic[v][k] /\ nic'[v][k] \in NetSet =>
         net[nic'[v][k]] = "applied" \/ Pending(nic'[v][k])]_vars

(* A complete deployment leaves every VM configured, but for one that an   *)
(* interrupted transaction had cloned: nothing configures that any more.   *)
(* It has made each missing VM with the connections declared; of the       *)
(* template's devices it has left those that were not declared anew, or    *)
(* none when they are to be cleaned.                                       *)
FreshComplete ==
  Completed("up") => \A v \in VMSet :
    /\ vm[v] = "ready" \/ seen.vm[v] = "cloned"
    /\ Fresh(v) =>
         /\ Connected(v)
         /\ ~ignored => \A k \in Numbers :
              (\A i \in DOMAIN Declared(v) : Declared(v)[i].num # k) =>
                nic[v][k] = IF wish[v].clean \/ wish[v].nets = <<>> THEN None ELSE Template[k]

(* No network is declared twice for the VM, and none of its devices whose  *)
(* network has to change sits on the network of another.                   *)
Untangled(v) ==
  \A i, j \in DOMAIN Declared(v) : i # j =>
    LET c == Declared(v)[i]  d == Declared(v)[j] IN
    c.net # d.net /\ seen.nic[v][c.num] # d.net

(* A complete deployment moves the devices of a VM that existed to the     *)
(* networks declared, and no second device stays where one was moved to.   *)
(* What fitted before stays; but not in a VM that is to be cleaned, since  *)
(* the plan compares the devices as they were before the cleaning.         *)
ExistingReconnected ==
  Completed("up") /\ ~ignored => \A v \in VMSet :
    ~Fresh(v) /\ Untangled(v) => \A i \in DOMAIN Declared(v) :
      LET c == Declared(v)[i]
          fits == seen.nic[v][c.num] = c.net
      IN /\ ~(fits /\ wish[v].clean) => nic[v][c.num] = c.net
         /\ ~fits => \A k \in Numbers : nic[v][k] = c.net => k = c.num

(* A complete destruction leaves no VM and no network, whatever earlier    *)
(* transactions that were interrupted had left; but for networks that were *)
(* declared or removed without a reload, of which PVE may not tell.        *)
DownLeavesNothing ==
  Completed("down") =>
    /\ \A v \in VMSet : vm[v] = "absent"
    /\ \A n \in NetSet : net[n] = "absent" \/ Pending(n)

(* A network is removed only when no VM has a device on it.                *)
RemoveUnused ==
  [][\A n \in NetSet : net[n] = "applied" /\ net'[n] # "applied" =>
       \A v \in VMSet, k \in Numbers : nic[v][k] # n]_vars

(* After a complete deployment that made every VM there is nothing to do   *)
(* but to start VMs again that stopped.                                    *)
UpSettles ==
  /\ Completed("up") /\ ~ignored
  /\ \A n \in NetSet : ~Pending(n)
  /\ \A v \in VMSet : Fresh(v) /\ ~wish[v].clean /\ wish[v].nets # <<>>
  => \A i \in DOMAIN UpPlan : UpPlan[i].op = "start"
=============================================================================
