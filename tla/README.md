# Verification of labforge

Labforge gives students stands of virtual machines on a Proxmox cluster (PVE).
This directory holds TLA+ specifications of the parts of it where concurrency
and failure decide whether the system is right, the TLC configurations that
check them on small instances, and proofs for all instances. Paths below are
relative to the root of the repository.

## 1. The system

| Component | State | Operations | Hard behaviour | What makes it correct |
|---|---|---|---|---|
| `libraries/redis-utils` (`Redis.Lock`) | one Redis key per lock, with an expiry | `redisNXLockWrapper`, two older wrappers | lease ends under a live holder; holders are told apart by a second; an exception skips the unlock | one holder until the lease ends; nobody removes another holder's key |
| `jobservice-api` | table `TaskData` (status, conflict key, times) | `sendMessage`, `setTaskStatus`, `deleteTask`, `deleteTaskGroup`, `isTaskReachedStatus`, the janitor `dropHangedTasks` | row and message are written separately; conflict key is checked, then inserted; the janitor races with workers | every row leaves in the end; a running task can be stopped |
| `jobservice`, pipeline (`App/Commands.hs`) | `TQueue`, worker threads, counter `deploymentsC`, Redis locks | consume, limit, lock, `raceTask` (run, cancel, finish), resend with delay | everything at once: redelivery, crashes between ack and publish, cancellation at any time | one worker per task, one task per lock, exact counter, no task lost or starved |
| `jobservice`, handlers | local variables only | `allocateNode`, `deployInstance`, `destroyInstance`, power, snapshot, rollback, image usage | several services are called one after the other, any call may fail, the handler may be stopped anywhere | no VM or network is left behind; a deployed stand is complete |
| `deployment-api` | instances, used VMIDs and bridges, templates, logs | group requests, reservation of ids, patches, deletion | reservations are made while other stands are created and destroyed | ids are not shared |
| `deployment-api`, VM ports | rate keys in Redis | `takeVMPortSnapshot`, `deleteVMPortSnapshot`, `rollbackVMPort`, power | a request looks at the machine, the locks and the queue one after the other, and the handler works later; a rate key is looked for and set in two calls | one task per user; the quota; nobody removes another's snapshot |
| `deployment-api`, task pool | bounded queue of group requests | `Pool.hs` | loss at a restart | see section 7 |
| `libraries/proxmox-deploy-toolkit` | none | planning of a transaction from a configuration and the state of PVE, its execution | partial execution and planning again; lists of PVE that are out of date when an action runs | order of VMs and networks; what a complete transaction leaves; a repetition has nothing to do |
| `proxmox-compose` | a file of VMIDs | `up` and `down` of a configuration that its user edits | the same planner, run again and again | the same |
| `libraries/proxmox-api`, `api-common`, `keycloak-api` | token variables | HTTP clients with retries | repeated requests | see section 7 |
| `cluster-manager` | table of nodes | choice of a node, lookups | stale load | see section 7 |
| `auth-service` | one token variable | a proxy of Keycloak | | see section 7 |
| `websockify-go`, service token | cached token and two locks | `Token`, `Invalidate`, `lookupNode` | many goroutines share one token that expires and is revoked | no wasted refresh, no stale token, nobody blocked |
| `websockify-go`, VNC proxy | table of peers, counter, two websockets per peer | connect, relay, heartbeat, revalidation of access, shutdown | four goroutines per connection and a shutdown | every reason to close closes the connection |
| `single-vnc-page` (`NoVNC.svelte`, `RFB.svelte`) | flags and a timer of the viewer, one noVNC object per attempt, the texts being typed | connect, lose, reconnect with backoff, leave, paste | events of an old noVNC object arrive after it was replaced; texts are typed by timers that nothing stops | the viewer comes back; it never replaces a connection that works; a text arrives whole |
| `frontend-server`, `kroki-proxy`, `proxmox-fs-agent` | none that others rely on | pages, a cache of pictures, an agent | | |

How they interact. A teacher's request reaches `deployment-api`, whose task
pool inserts the missing instances and sends one allocation per stand to
`jobservice-api`. That writes a row and publishes a message to RabbitMQ.
`jobservice` consumes it, takes the Redis lock of the task, calls
`deployment-api` for VMIDs and network names, stores the configuration and
sends a deploy task; the deploy task plans and executes a transaction on PVE
and sets the state of the stand. Destruction goes the same way and ends with
the deletion of the row. Browsers reach the VMs through `websockify-go`, which
asks `auth-service` for a token, `cluster-manager` for the node and
`deployment-api` for the right of access. The viewer in the browser connects to
that gateway, and connects again whenever the gateway closes. Students and
teachers also take, delete and roll back snapshots of single machines through
`deployment-api`, which turns each request into a task of `jobservice`.

## 2. Modules

| Module | Models | Built on |
|---|---|---|
| `LeaseLock` | what a user of a lock key may rely on (abstract) | |
| `RedisLock` | `redisNXLockWrapper`, every Redis call a step | implements `LeaseLock` |
| `TaskLifecycle` | what the queue promises of one task (abstract) | |
| `TaskQueue` | `jobservice-api`'s rows, RabbitMQ, the threads of `jobservice` | implements `TaskLifecycle`; uses a lock key as `LeaseLock` describes it |
| `StandLifecycle` | the handlers of allocation, deployment and destruction with the tables of `deployment-api` and the objects on PVE | relies on the exclusion that `TaskQueue` shows |
| `TransactionPlan` | planner and executor of transactions on PVE, run by `proxmox-compose` or by `jobservice` | |
| `ServiceToken` | `ServiceTokenClient` and `lookupNode` of `websockify-go` | |
| `VncGateway` | the VNC connections of `websockify-go`: set-up, goroutines, `Close`, revalidation, shutdown | |
| `VmPorts` | snapshots of one machine: the requests to `deployment-api`, the conflict key, the handlers | takes the queue's exclusion of handlers as given |
| `VncViewer` | the browser's VNC viewer: `NoVNC`, `RFB` and the noVNC objects | |
| `VncPage` | the viewer together with the texts its user pastes | extends `VncViewer` |
| `RedisLockProofs`, `TaskQueueProofs`, `ServiceTokenProofs`, `VncGatewayProofs`, `VmPortsProofs`, `StandLifecycleProofs`, `TransactionPlanProofs` | theorems and proofs | the module of that name |
| `VncViewerProofs` | theorems about the viewer and the texts on its page | `VncPage` |
| `MC...` | instances for TLC | the module of that name |

Some definitions are marked "Mutant of X" in their comment. They are plausible
errors in X, kept next to it; replacing X by one makes a property fail, which
shows that the property depends on that piece of code.

### RedisLock

`libraries/redis-utils/src/Redis/Lock.hs`, lines 26-41. A client reads the
clock (`ReadClock`), computes the value of the key (the second its lease is
meant to end), sends `SET NX EX` (`SetNX`, or `Locked`, which any reply but `OK`
leads to, also when the key is free), runs the block and sends the unlock script (`Unlock`), which removes the key if its
value is the client's; an exception in the block skips that (`Throw`). The key
disappears at its time (`ExpireKey`) and the clock runs (`Tick`). The code has
no token of its own for each holder: the value is a second, and two clients may
compute the same. What saves it is the order of events: a key set after an
earlier lease ran out has a value greater than the earlier client's. That is
`LockInv`, and it needs that a `SET` reaches Redis before the lease it computed
would have ended (constant `LockTime`; leases in the code are 600 s and 5 s).

### TaskQueue

The variables are the table (`rows`), the progress of each request
(`request`), the place of each message (`msg`), the program counter, task and
key of each worker, the Redis keys (`owner`), and the counter. Each call to
the database, to Redis and to the broker is a step, in the order of
`jobservice/src/App/Commands.hs`: `f` (lines 132-181) compares the counter with
the limit before the lock for a deployment and after it for a destruction;
`genericFormattedLock` (60-75) resends the task or does nothing when the lock
is taken; `raceTask` (86-130) reads the status, races the handler with
`waitForCancel` under `raceLock`, deletes the row and acknowledges. Messages
that are neither acknowledged nor rejected are `parked` until a restart.
`DropHanged` is the janitor of `jobservice-api/src/App/Commands.hs:55-62`.
`Crash` is the death and restart of `jobservice`.

Abstractions: a handler is one state, `run`, that ends at any time (its steps
are in `StandLifecycle`); the broker is up; a call that is retried is one step
that succeeds or fails after its retries; every message carries the key of its
task, as those of the API do; no exception kills a worker thread other than
with the process. The last is nearly so in the code: `raceTask` catches what a
handler throws, but not an exception of the acknowledgement behind it, which
would leave the counter one too high for ever.

`Conflict` gives the conflict key of each request. The instances let all tasks
carry one key, which any caller of the API may send: requests may then be
refused, and since the key is looked for in one call and the row inserted in
another, all orders of accepted requests remain possible as well. `TasksSettle`
states what becomes of every task: one that `f` resends is settled or lost in a
crash; any other may also be skipped because of its lock and then stays parked.

### StandLifecycle

Rows and ids of `deployment-api` (`state`, `config`, `usedBy`), objects on PVE
(`made`), waiting tasks, and the handlers' local variables (`cfg`, `todo`). One
action per call of a handler: `ReadInstance`, the requests for ids,
`PatchConfig`, `SendDeploy` for `allocateNode`; `Mark`, `Plan`,
`ExecuteAction`, `FinishDeploy`, `FinishDestroy`, `DeleteInstance` for the
other two; `Fail` for the error branch.

`requestDeploymentVMID` and `requestDeploymentNetworks` are alike, and so one
set of actions stands for both (`ForVMs` tells which). `RequestIds` finds the row
and lists what PVE does not know (`ahead`); then, for one id after the other, the
ids of the stand are counted (`Enough`) and the id is looked for (`LookAtId`, the
branches of `helper`), and a free one (`picked`) is inserted by another call
(`InsertId`), whose foreign key needs the row. `TakeIds` returns what the stand
holds when that is enough; `ReleaseIds` is the end of the list. A request may
break off anywhere, keeps what it has inserted, and is repeated by `retryClientC`
or by the next allocation, which then has only the rest to take.

A call may fail without effect (`CallFails`), be carried out with its answer
lost (`AnswerLost`: the configuration is stored, the deployment is sent or the
row is gone, and the handler goes to its error branch), an action on PVE may fail
either way (`ActionFails`), every status update may be lost (its result is
ignored by all handlers), a handler may stop anywhere (`Stop`) or die with the
process and all others (`Crash`), and its task may be withdrawn (`Withdraw`) or
stay unanswered (`SkipLocked`). The handlers of power, snapshot and rollback use
lock keys of their own and so overlap with the others; the status `Failed` that
their error branch writes is `ServiceFails`. Such a handler may have read the
stand at any earlier time of its row, when it had no configuration, so the write
may come at any time. It harms nothing that the properties speak of, but a stand
that works is shown as `Failed`. The variable `stale` holds the stands whose last
status update was lost or whose handler was stopped after setting a status:
`StuckExplained` says that nothing else leaves a stand `Deploying` or
`Destroying` with no handler behind it.

`StandsSettle` speaks of stands that have a task (`Pending`). The group request
sends the allocation of a new stand once and ignores the result, so a stand
whose allocation could not be sent stays `Created`; the property shows that no
other failing call leaves one behind.

Abstractions: handlers of one lock key exclude each other (the case of an
expired lease stays in `TaskQueue`), and with them the allocations, so the lock
of five seconds around an insertion never meets another; the server works on a
request for ids only while its client waits (in the code Warp would finish a
request whose client is gone); a call that is repeated after it was carried out
is left out (a second `PATCH` or a second deploy message says the same, a second
`DELETE` finds no row, unless the stand was created again within the pause of
1.5 s); the stages of a transaction that change no object's existence (power,
disks, cloud configuration, connections) are left out here, `TransactionPlan` has
them; zones and bridges exist. Nobody deletes an instance by hand:
`deleteDeploymentInstance` is called by `jobservice` alone.

The variable `mixed` remembers that an allocation has stored ids it reserved
for an earlier row of the same stand: the stand was destroyed and created again
in between, and the deletion has released those ids. From then on ids may be
shared; the properties say what holds before. This is a hazard of the code, not
of the model: allocation and destruction use different locks.

### TransactionPlan

`Proxmox/Deploy/Transaction.hs` of `libraries/proxmox-deploy-toolkit`. The first
half are functions from the configuration and the state of PVE to a sequence of
actions: `UpPlan` and `DownPlan` give the order of the stages
(`planTransactionStages`, 658-694), and each stage has an operator that gives its
actions (`planTransactionActions`, 696-876): `NetworkExists`, `VMExists`,
`NetworksRemoved`, `NetworkConnected`, `Power`, and their counterparts for the
destruction. The second half executes the actions one by one (222-653).

The variable `user` tells who runs it. `jobservice` drops all equal reloads but
the last (`leaveLastItem`, `LeaveLast`); `proxmox-compose` executes everything,
and its user may edit the configuration between two runs (`Edit`). A network is
declared, then applied by a reload, which applies whatever else is declared;
another transaction may reload too (`OthersApply`). `listsPending` leaves open
whether the lists of PVE that planner and executor read show what is declared or
what is applied. An action may fail with or without its effect, and the rest of
the transaction is lost; the results of cleaning, detaching and stopping are
ignored by the code (`ActionIgnored`). `seen` is the state of PVE when the last
transaction was planned; the properties use it to tell the VMs that a
transaction made from those it found.

Abstractions: planning is one step (in the code several reads of PVE, while the
lock of the stand keeps other deployments away, but not the handlers of power
and snapshots); disks, cloud configuration and display are one action,
`configure`; every VM has its VMID and its template exists; networks that are
only looked up, snapshots, and one network name in two zones are left out;
delays are left out.

### ServiceToken

`websockify-go/auth.go`, 32-133, and `lookupNode` of `vncproxy.go`, 305-326.
Callers look into the cache under the read lock, queue for `refreshMu`, look
again, ask `auth-service` and store the answer; a rejected token is dropped if
it is still the cached one, and the attempt is repeated. Tokens are numbered;
the server counts their life from the moment of issue, the client from the
moment it reads the answer. `MaxLatency <= Skew` is an assumption: the time-out
of the HTTP client is 10 s by default, the skew is 30 s. `standing` is history:
the token that was stored last, until it is itself rejected. `NoNeedlessGrant`
says with it that a rejection that comes late, when another caller has already
fetched a newer token, does not make anybody fetch a third.

### VncGateway

`websockify-go/vncproxy.go`. `stage` is how far `ServeHTTP` (380-487) has come:
access check, console on Proxmox, upgrade, RFB negotiation, the counter, the
table of peers, the relay and the deferred calls. `threads` are the goroutines
that serve a peer; `Fails` is any reason of a pipe or of the heartbeat to call
`peer.Close` (61-80), which `EnterClose` and `SendClose` take apart: the
compare-and-swap that lets one caller in, and the two close frames. The
revalidation asks (`AskAccess`) and gets its answer later (`AnswerAccess`), so
that the access may change in between (`Revoke`). `Shutdown` takes the snapshot
of the peers, `ShutdownPeer` closes them one by one.

`Shutdown` is `VNCProxyHandler.Close`, and the program never reaches it: `main`
defers it (`main.go:38`) and leaves through `log.Fatal`, which skips deferred
calls, or by a signal. `ShutdownCloses` is therefore a contract of the type, for
a `main` that would call it; the other properties of the gateway do not need
it, and hold with it and without it.

Abstractions: a websocket is open or closed, and a close frame closes it;
relayed data are left out; the heartbeat may fail at any time and need not. A
peer that registers after the snapshot is not closed by the shutdown; the
properties do not claim it.

### VmPorts

`deployment-api/src/Api/Deployment.hs`: `takeVMPortSnapshot`,
`deleteVMPortSnapshot`, `rollbackVMPort`; `jobservice/src/Handler/Snapshot.hs`.
`stage` is how far a request has come: the rate key of requests without a name
(`noname`) and the choice of a name, the rate key of snapshots (`rate`), the
list of snapshots and the policy (`ListSnapshots` with `MayTake`, `MayDelete`,
`MayRollback`), the question whether the stand is locked (`AskLock`), the rate
key of requests (`request`), and the conflict key and the row of `sendMessage`
(`CheckConflict`, `InsertRow`). `redisRateLockWrapper` is two steps, `CheckRate`
and `SetRate`, and a key may expire at any time. The handler plans
(`StartTask`), acts on the machine (`Execute`), deletes its row and unlocks.

`slipped` and `blind` are history: the pairs of requests of one user that were
between the request key and their answer at a time, and the requests whose
handler found other snapshots than the request had read. The code promises a
quota and one task for each user and machine, and keeps neither in every
interleaving. `OneTaskPerUser` and `QuotaExplained` say exactly when it fails
to: without a gap in the rate key a user has one task, and the quota is exceeded
by no more than the snapshots that were taken on an old list.

Abstractions: one virtual machine; the access check is left out; the lease of
the handlers' lock does not expire (`TaskQueue` has that); locks held by tasks
of other kinds are a refused request (`Fail`); a `POST` that is retried is not
doubled; names are the numbers of `snap1`, `snap2`, and so on, of which a user
may also ask for one directly; the lists shown to users change nothing.

### VncViewer and VncPage

`single-vnc-page/src/lib`. `connected`, `key`, `reconnectDelay` and
`reconnectTimer` are the variables of `NoVNC.svelte`, `rfb` is the connection
state of the noVNC object of each `key`, and `active` the set of keys whose
component still listens to it (`active` of `RFB.svelte`). JavaScript runs one
callback at a time: every action is a callback with the flush of Svelte behind
it. `Connect` and `Lose` are the events `connect` and `disconnect` with
`updateConnect`; `TimerFires` is the callback of `scheduleReconnect`, whose new
key makes Svelte destroy one component and mount another; `Unmount` is the two
clean-ups. A connection that noVNC gives up itself (`_fail`) passes through
"disconnecting" to "disconnected" and reports it in one callback, and is `Lose`
as well. Only a clean-up leaves an object "disconnecting", until its websocket
has closed or noVNC has waited for it long enough (`Closed`). `since` and `tries`
are history.

`VncPage` adds `sendString` of `RFB.svelte`: `SendBuffer` and
`SendFromClipboard` begin a text, `KeyDue` and `NextChar` are its two timers.
Each text has a `shift_state` of its own, the machine one Shift key
(`shiftDown`). Nothing stops a text when its connection ends; noVNC drops what
is sent then.

Abstractions: of the delays of a text only the order counts (the key goes 50 ms
after Shift, the next call comes 150 ms later), timers of the viewer run in
seconds and may be late; a machine forgets Shift when its connection ends; the
states of a noVNC object are those of the noVNC that is bundled in
`frontend-server/static/js/vnc.js`; the title, the quality and Ctrl+Alt+Del are
left out. `App.svelte` never removes `NoVNC`, so `Unmount` states what the
component promises to any page that does.

## 3. Runs

Two or three clients, workers or callers are enough for every race in the
code, which is always between two of them; a third shows that a successor's
successor is not confused with the first. All counters that TLC needs are
bounds of failures, requests or time, named `Max...` in the modules.

| Run | Instance | Shows |
|---|---|---|
| `redis_lock` | 3 clients, leases of 3 s, requests up to 2 s | `RedisLock` implements `LeaseLock` |
| `queue_faults` | deploy and destroy of one stand, 2 workers, limit 1, 2 crashes, 1 expired lease, 1 failed call | exclusion, exact counter, one worker per task, refinement of `TaskLifecycle` |
| `queue_live` | the same tasks, 1 crash, 1 failed call, fairness | resent tasks settle, others settle or are parked, rows leave, deleted tasks stop |
| `deployment_limit`, `cancelled_runs` | small instances | disagreements of code and documentation, section 6 |
| `stand_pair` | 2 stands of 2 VMs each, 3 VMIDs, 2 workers, 2 rows each, 1 destroy request, 1 call that fails or loses its answer, 1 stop, crash, withdrawal or foreign `Failed` | configurations are disjoint, no ids reserved for nothing, no orphans, a deployed stand is complete, every stuck stand is explained |
| `stand_settles` | 1 stand of a VM and a network, created twice, 2 VMIDs, 1 network name, 2 destroy requests, 1 call that fails or loses its answer, fairness | every created stand with a task is deployed, fails or goes, unless the update of its status was lost |
| `service_token` | 2 callers, 3 tokens, 3 s, fairness | no wasted refresh, no newer token dropped, no repeated rejected token, no expired token taken, every lookup ends |
| `transaction_plan` | 1 VM with 2 devices, 2 networks of either kind, 28 configurations, both users, 3 transactions, 2 faults, 1 edit | what a complete transaction leaves in new VMs and in those it found, order of networks and connections, a repetition has nothing to do |
| `vnc_gateway` | 1 connection, 2 checks without an answer, a shutdown, fairness | no websocket left open, one run of `Close`, withdrawn access and a shutdown close a relay, nothing remains |
| `vm_ports` | 1 machine, 2 requests of a student and 1 of a teacher, quota 1, 2 names, own snapshots may be deleted | two tasks of one user and an exceeded quota are explained, a teacher's snapshot is deleted by a student only on an old list |
| `vnc_page` | 3 failures, delays of 1 to 3 s, 2 texts out of 3 contents, fairness | the viewer is never idle, replaces only dead connections, backs off, comes back, leaves nothing behind; texts arrive whole and in the right case |

In `transaction_plan` a third transaction follows two that may have broken off,
which is how far the code's own repairs reach; VMs of a transaction share only
the networks, and two networks with two devices are enough for every way in
which the connections of one VM can get into each other's way.

Connections of the gateway share only the counter, the table and the loop of the
shutdown, so one connection and all its goroutines show the races; the proofs
cover any number of them.

In `vm_ports` the two requests of one user are what the conflict key and the
rate keys are about, and with a quota of 1 two of them exceed it; the teacher's
request changes the machine behind both. In `vnc_page` delays of 1, 2 and 3 s
show the doubling and the maximum, and three failures a loss before, during and
after it; two texts are enough to interleave, and the contents hold a change of
Shift, a line break before a shifted character and a character that is skipped.

In `stand_pair` three VMIDs for two stands of two VMs are too few for both, and
more than one needs: requests meet ids that others hold, top up what an earlier
one has left, and come to the end of the list. Networks are taken by the same
actions, and `stand_settles` has one. A third token in `service_token` is one
that a late rejection of the first could cost.

The type invariants are proved.

Every model is checked with `CHECK_DEADLOCK FALSE`: requests, failures and time
are bounded, so a behaviour ends when they are used up; in the program, too, a
queue without tasks has nothing to do.

Symmetry is used in safety runs only.

## 4. Fairness

- `TaskQueue!Fairness`: a thread that can go on does (GHC's scheduler); a
  request that has inserted its row goes on to publish; the broker and the
  `TQueue` are FIFO, hence strong fairness of a delivery and of a hand-out;
  Redis expires the keys of dead holders; the janitor comes every five seconds.
  Nothing obliges a handler to end or a user to act. `HandlersEnd` is an
  antecedent of the properties that need it, and `DeletedTaskStops` does not.
- `StandLifecycle!FairSpec`: handlers run, and a waiting message is taken in
  the end (strong, for the same reason; a message that meets a taken lock is
  sent again or parked).
- `ServiceToken!FairSpec`: goroutines run, HTTP calls return because their
  clients have time-outs, and `sync.Mutex` hands itself to a waiter after a
  millisecond (strong fairness of `LockRefresh`).
- `VncGateway!FairSpec`: goroutines run, requests and writes end at their
  time-outs, and a websocket that was closed ends the pipe that reads it; the
  loops may choose their ticker for a while when `p.done` is closed too, hence
  strong fairness of `Ends`. Checks of access may fail only `MaxFaults` times.
- `VncPage!FairPageSpec`: the browser runs the callbacks of timers, an attempt
  to connect ends (it either connects or fails, and failures are bounded), and
  noVNC waits three seconds at most for a websocket to close. Nobody is obliged
  to use the page or to leave it. `ComesBack` therefore says that once failures
  end, the viewer is connected without its user's help.

## 5. Proofs

All theorems hold for every value of the constants that meets the assumptions
in the modules (`LockAssumption`, `QueueAssumption`, `TokenAssumption`,
`GatewayAssumption`, `StandAssumption`, `PortAssumption`, `PlanAssumption`,
`ViewerAssumption`, `PageAssumption`). Most are types. `PlanAssumption` also says
that the explicit device numbers of a VM differ and that it has no more networks
than there are numbers: otherwise the planning throws "Network ID overflow!",
and there is no transaction.

- `RedisLockProofs`: `TypeCorrect`, `LockInvariant`, from it `ProtectedTheorem`,
  `OverlapTheorem`, `UnlockTheorem`, and `Refinement`: `Spec => LeaseSpec`.
  `ProtectedUntilTs` alone is not inductive: that a client in the block owns the
  key does not tell what value a key set later has. `LockInv` adds the order of
  values; `SameValueMeansWriter` is the lemma that the comparison in the unlock
  script tells holders apart.
- `TaskQueueProofs`: `TypeCorrect`, `QueueInvariant`, from it
  `ExclusionTheorem`, `CounterTheorem`, `OneWorkerTheorem`, and
  `LifecycleTheorem`: `Spec => LifecycleSpec`. `LeaseInv` says
  that a worker that believes in its lease owns the key, and where it can be
  without one; `MessageInv` that a worker has the only copy of its message;
  `CountInv` where counted workers can be. The counter is a cardinality, for
  which the theorems of `FiniteSetTheorems` on adding and removing one element
  are used. The refinement needs `HoldInv` besides: a worker past its lock is
  inside the block of its task's key, and the message of a task that a worker
  handles is unacknowledged. From it follows the phase of a task (`Phases`). Most
  steps leave all phases and the set of overrun leases alone (`Quiet`,
  `QuietStutters`); the others are one step each of `TaskLifecycle`
  (`PublishAccepts`, `TaskStarts`, `TaskSettles`, `LeaseEnds`, `CrashRestarts`).
- `ServiceTokenProofs`: `TypeCorrect`, `TokenInvariant`, from it `RetryTheorem`,
  `RefreshTheorem`, `GrantTheorem`, `FreshTheorem`. `RefreshInv` says that behind `refreshMu`
  there is only its holder, who found no usable token, and that a response
  carries the newest token; `CacheInv` bounds the error of the client's clock;
  `RefusalInv` says that a refused token has left the cache; `StandingInv` that the
  token stored last is the one in the cache, or has been rejected or ends within
  the skew, so that a caller who misses in the cache has reason to.
- `VncGatewayProofs`: `TypeCorrect`, `GatewayInvariant`, from it
  `NoOpenLeftTheorem`, `PeersCountedTheorem`, `ClosedOnceTheorem`. `CountInv`
  identifies the counter with the number of requests between its two updates
  and places the table's entries among them; `PeerInv` says at which stages
  websockets, goroutines and closers exist. `NoOpenLeft` needs that a request
  goes on behind its relay only when the peer is closed.
- `StandLifecycleProofs`: `TypeCorrect`, `StandInvariant`, from it
  `DisjointTheorem`, `SpareTheorem`, `NoOrphansTheorem`, `DeployedTheorem`,
  `StuckTheorem`. None of the properties is inductive alone; `StandInv` builds
  on parts that each use the ones before. `JobInv`: busy workers have tasks
  that fit their place, and locks exclude. `ConfigInv`: the row and the
  configuration of a stand stay while a handler works with them. `ReserveInv`:
  the ids of a configuration, and those of an allocation whose row is still the
  one it read, are reserved for the stand, which makes configurations disjoint.
  `WorkInv`: what a transaction does not list any more is done, and a handler
  that is about to delete a row has left nothing on PVE; disjointness keeps the
  transactions of two stands out of each other's way. `StatusInv`: a
  destruction has taken the status `Deployed` away, or the update was lost.
  `PickedInv`: the id that a request has found free is still free when it inserts
  it, because allocations exclude each other, and the stand still lacks one.
  `SpareInv`: a stand holds at most as many ids as it has items, also in the
  middle of a request and after one that broke off (`InsertBounded`), so that an
  allocation that finds enough of them is given all of them (`TakeExact`, a
  counting argument on injections). Every part is preserved by every step for itself
  (`TypeStep`, `JobStep`, `ConfigStep`, ...); `Steps` lists the cases.
- `VmPortsProofs`: `TypeCorrect`, `PortInvariant`, from it `OneTaskTheorem`,
  `QuotaTheorem`, `OthersKeptTheorem`. `TaskInv` carries the pairs in `slipped`
  from the request key over the look for the conflict key to the row; `WorkInv`
  says that a handler executes one action at most and that its request was
  allowed by the list it read; `SnapInv` that names identify snapshots. A
  request that acts on the list it read finds room for its snapshot, any other
  is counted in `blind`: the quota theorem is this count, again with the
  theorems on cardinalities.
- `TransactionPlanProofs`: `TypeCorrect`, `TransactionInvariant`, from it
  `FreshTheorem`, `ReconnectedTheorem`, `DownTheorem`, `SettlesTheorem`,
  `UnusedTheorem`, `LiveTheorem`. A property of a complete transaction says
  nothing while one runs, so `TransactionInv` says what PVE and the actions that
  are left add up to. `PlanInv`: every action left is one that the plan asks for.
  `UpOrder` and `DownOrder`: the stages come in their order (`UpRank`,
  `DownRank`). `UpNetInv`, `UpVMInv`, `DownNetInv`: a network or VM is as it
  shall be, or the actions that make it so are left, in their order, also when
  equal reloads but the last were dropped. `UpStageInv`: a later stage is whole
  while an earlier one is under way. `UpMoveInv`, `UpFreshInv`, `UpKeptInv`: a
  device has its network or its connection is left. `AbsentInv` says that a VM
  that does not exist has no devices. The first part of the module are lemmas on
  sequences (`Joined`, `Laid`: the concatenation of the stages keeps the order in
  each and between them) and on the numbering of networks (`Enumerated`), which
  give the invariant when a plan is made (`UpBegins`, `DownBegins`); the second
  follows one executed action at a time.
- `VncViewerProofs`: `ViewerInvariant`, `ViewerTypes`, from it
  `AlwaysTryingTheorem`, `GoneQuietTheorem`, `ReconnectTheorem`, for the viewer
  together with the texts, whose steps leave it alone (`TextStep`). The
  strengthening is `OneByOne`: the noVNC objects before the present key are
  dead, those behind it do not exist, and only the component on the page
  listens, so that no late event of an old object reaches the flags. It also
  counts keys against failures, which keeps `key` in its range.
  `DelayInvariant`, from it `NoStormTheorem`: the delay is the first one doubled
  `tries` times, up to the maximum, and the timer and the time that has passed
  make it up. `PageInvariant`, from it `PageTypes`, `PasteTheorem`,
  `CaseTheorem`: `TextOK` says that of a text that was begun on a standing
  connection exactly the places up to `Due` have arrived, or fewer if the
  connection is gone, in their order; this needs that the next call of
  `sendString` comes after the key of the last. `CaseOK` says that a text that has
  the machine to itself knows how its Shift key stands, `SoloInv` that there is no
  other such text; that a lost connection never stands again (`StandingStays`)
  keeps both across reconnections.

That the doubled delay, the concatenation of stages and the numbering of
networks, which are recursive, are defined and have the values meant is an
induction, which `NatSet` gives in first-order form: a set of numbers that has 0
and with each number the next has all of them (from `WFMin` of
`WellFoundedInduction`, which takes no operator).

The inductive invariants (`LockInv`, `QueueInv`, `HoldInv`, `TokenInv`,
`GatewayInv`, `StandInv`, `PortInv`, `TransactionInv`, `ViewerInv`, `DelayInv`,
`PageInv`) and the invariants `ProtectedUntilTs`, `OverlapOnlyAfterExpiry`,
`OnlyWriterUnlocks` and `PeersCounted` are proved and not among the properties of
the runs; `HoldInv`, `TransactionInv`, `DelayInv` and `PageInv` were checked on the
instances of `queue_faults`, `transaction_plan` and `vnc_page` before they were
proved.

Only model-checked: the liveness properties (`TasksSettle`, `RowsLeave`,
`DeletedTaskStops`, `LookupEnds`, `StandsSettle`, `RevokedCloses`,
`ClosedLeaves`, `ShutdownCloses`, `ComesBack`), since the prover has no rule for
`ENABLED`, and the two runs of section 6. Every invariant and action property of
the other runs is proved.

## 6. Findings

Where code and documentation disagree, a run shows what the code does.

- `deployment_limit`: the limit is compared in one step and the counter
  incremented in another, so more than `CONCURRENT_DEPLOYMENTS` stands may be
  deployed at a time.
- `cancelled_runs`: a cancellation that comes between the check of the status
  and the update to `running` is overwritten, and the task runs.

Other disagreements have no run of their own; the properties are stated so that
they say what the code does.

- A task with a taken conflict key is said to be refused (`dev-guide/api.md:223`).
  The key is looked for and inserted in two calls, so two such tasks may be
  accepted: `OneTaskPerUser` holds only with `slipped`.
- The quota is called a limit of snapshots for each machine
  (`usage-guide/deployment-templates.md:195`). It is compared with a list that is
  old when the snapshot is made: `QuotaExplained`.
- A second deployment of a VM with `clean_networks` removes the declared devices
  and connects none of them again, because it plans the connections from the
  devices the VM had before the cleaning; the documentation says that the devices
  of the template are removed (`usage-guide/deployment-templates.md:156`).
  `ExistingReconnected` therefore keeps what fitted before only in a VM that is
  not to be cleaned.
- A VM that a broken transaction has cloned and not configured exists for the
  next one, which leaves it as it is (a TODO in
  `Proxmox/Deploy/Transaction.hs` says so). `FreshComplete` excepts it.
- The viewer is said to try again every five seconds
  (`user-guide/index.md:100`). It waits two seconds first and twice as long after
  each failure, up to thirty.
- The same page makes the accuracy of pasting a matter of the network. Two texts
  at once, or a text after one that ended in a character with Shift, may arrive
  in the wrong case on a perfect connection, because a text does not release
  Shift when it ends and the next begins with `shift_state` false: `CaseKept`
  needs `clean` and `solo`.

## 7. Not modelled

Access control and its cache; templates, pages and statistics; the switch of
power of a VM port, whose `powerlock` key is also looked for and set in two
calls; the file of VMIDs of `proxmox-compose`; the client libraries, whose
retries appear as calls that succeed or fail; the work of the handlers of power
and image usage on PVE, and of snapshots of several machines at a time, beyond
their way through the queue and their writes of a stand's status; the death of
single threads and a restart of RabbitMQ, which loses the messages (they are not
persistent); the pages of the
frontend, `kroki-proxy` and the agent, which keep no state that others rely on.

## 8. Plan

In this order: the switch of power of VM ports with its handler; the pool of
group requests; nodes of `cluster-manager`; the file of VMIDs of
`proxmox-compose`; the clock of pings and pongs (`VncHeartbeat`). Proofs for these
as they are modelled; of the present modules, that the actions a handler executes
in `StandLifecycle` are those of a plan of `TransactionPlan`.
