# ackin, in TLA+

A verification development of `ackin` (the `cartridge` command and library):
TLA+ models of its core, TLC configurations that check them on small instances,
and machine-checked proofs of its safety: of nodes, events, calls, channels, bases,
clients, helpers and trust. Paths are those
of the repository; "mod.rs" alone is `src/src/host/mod.rs`.

## 1. The system

A *base* is a process that serves one project. It reads the project's
*composition* (a list of *cartridges*, each with config and grant), *plans* every
cartridge from its manifest, and runs each as a *node* process. Nodes talk to
each other directly over Unix sockets (named pipes on Windows): events are calls
with an answer, channels are streams of numbered envelopes. The base never
relays; it hands every node a *directory* that says who it may send what to and
whom it accepts what from, and it replaces nodes when their files change.

### 1.1 Inventory

| Component | Code | State it keeps | Operations |
|---|---|---|---|
| Host lifecycle | `host/mod.rs`, `host/watch.rs` | slots (entry, plan, state, error, sources, directory, generation, running node), listener table, `op` lock | `reconcile`, `replace`, `replace_changed`, `stop`, `rewire`, `start_ready`, `launch`, `stop_slot`, `exited`; `send_to`, `bail`, `gather`, `snapshot` on behalf of callers |
| Planning and catalogue | `host/plan.rs` | none | plan an entry, catalogue, clashes, unmatched events, listeners, directories |
| Node process | `host/process.rs` | child process and group, socket path, monitor task | spawn, connect, apply, wait, shut down, kill the group |
| Base of a project | `host/socket.rs`, `host/mod.rs` (takeover, publish), `cli/host.rs` (daemon) | name `host.sock`, staged sockets, `<run>/<pid>` directories, the inode the base published | look, listen, takeover, publish, accept, stop, unpublish, sweep |
| Connection: calls | `transport/rpc.rs`, loop in `transport/cartridge.rs` | table of waiting calls, bounded queues, permits, cancel tokens | call, push, dispatch, reply, cancel, close |
| Channels | `transport/cartridge.rs` | publisher: numbers, history, subscribers; subscriber: watchers with position and queue, one connection per peer, pumps | publish, join, leave, subscribe, unsubscribe, pump, resume |
| Event dispatch | `transport/cartridge.rs` | directory in force | send, emit, bail, gather, ask; deadlines, refused senders |
| Typed local transport | `transport/typed.rs` | listener with its path and inode | bind under a lock, accept, unlink on drop, rename |
| Node host | `node/`, `lua/` | helpers with their tables of questions and input locks, line pipes, Lua state | spawn a helper, ask, send, answer, read lines, kill; Lua limits |
| Trace and activity | `trace/` | recorder: bounded queue, drop counter, the record in hand; diagnostics: bounded queue, missed lines, the file and its rotated predecessor | record, deliver, retry, drop; note, write, rotate, flush |
| Trust | `trust/`, `cli/trust.rs` | one record of digests per directory, in the user's store | trust, verify, revoke |
| Ledger and loader | `ledger/`, `loader/` | none | scan installed folders, bind needs to who offers them, lay `init.lua` over what is installed |
| run and verify | `host/run.rs` | a private host | choose what one cartridge needs, reconcile, wait until settled, call its contracts, stop |
| Attach and idle | `cli/host.rs`, `cli/client.rs` | clients counted, time of the last to leave | attach, start a daemon, retry, stop when idle |
| ASP | `asp/` | the uses retained for late viewers | collect declarations, admit entities and edges, expand, search, answer as a tool |
| Sandbox | `sandbox/` | none | arguments for the operating system's confinement |
| Settings | `settings/`, `transport/settings.rs` | none | merge the layers, settle and check declared keys, name the source of a value |
| Setup and doctor | `cli/setup.rs` | the files of a project | offer, choose, install, describe, ask, write answers; report |
| Command line, manual, errors | `cli/`, `error/` | none | parse and print |

### 1.2 How the parts interact

* A daemon holds one `Host`. Operations on it (from the command that started it,
  from clients over `host.sock`, from the file watcher) exclude each other by the
  `op` lock, held across awaits. The slots lock is held only for a few lines and
  never across an await, so everything else may happen between.
* The host owns a node through its monitor task, which waits for the process to
  exit or for a stop. An exit comes back by a callback, `Host::exited`, on a task
  of its own and without the `op` lock.
* The host tells a node its directory by a call on the node's control connection.
  Nodes then connect to each other; the token of a connection names its sender.
* A connection is a pair of `Inner`s (`rpc.rs`), each with a reader task, a writer
  task and a bounded queue. Whoever overruns a queue has its connection closed.
* A command on a terminal or on stdio is a client of a base: it attaches, starting one
  if nobody answers, and a base without clients stops after a while.
* A helper's process shares a node's life; its input is one pipe under one lock, which
  questions, sends and answers of several Lua listeners pass.
* Records of trust are files that commands write and bases and nodes read, without a
  lock between them.
* Bases of one project meet only in the file system: they look who answers at
  `host.sock`, bind or rename over it, and remove what they published. Removal
  and binding are made under a lock on the names, except where noted below.

### 1.3 What is hard here, and what makes each part correct

| Part | Hard behaviour | Correct means |
|---|---|---|
| Lifecycle | exits, edits and late answers between any two steps of an operation; a wave that ends together though its launches end apart; partial failure of a launch | no process outside the host's knowledge, one per cartridge; a stop stops all; statuses that fit together; nobody waits for what is served; operations end |
| Wiring | recomputed while nodes run, pushed with a timeout, from plans that may be newer than the nodes | sender and listener agree on an edge; no edge is missing between operations; a node works with the directory computed for it |
| Bases | processes that start, replace, stop and die in any order over shared names; reused inodes; a check and a removal apart | whoever serves holds the name; a successor waits for its predecessor; starts do not eliminate each other |
| Calls | a cancel, a timeout and an answer that cross; a full queue; a loop that waits for a permit | a call ends once with its own answer; nothing is left in a table; an abandoned listener is stopped |
| Attach, idle | a base that stops, is replaced or crashes under a message; a check of idleness and a client that leaves | every message is answered once, is run twice only if its connection was lost, and no base in use stops idle |
| Helpers | writes that time out or are cancelled half way, late answers, an exit under a question | nothing follows half a line but after a cancel, an answer goes to its own question, each call ends |
| Telemetry | full queues, refused and retried records, rotation, faults of the file system, a flush in between | every record is delivered, waiting or counted; a flush covers what was before it; no reader sees a torn line |
| Trust | edits and revocations between reading, checking and running; records half written | only contents that somebody vouched for run; any record above a file authorises it |
| Channels | registration against publication; disconnection at a full queue; a publisher that restarts at number one | no hole while a subscription stands; nothing lost in silence; a subscription comes back |

`PROJECT.json` lists each hazard at its line, with the property that watches it or
the reason none does yet.

## 2. The modules

| Module | Models | Abstract or concrete |
|---|---|---|
| `Wiring` | `plan.rs`: catalogue, clashes, unmatched, listeners, directories | pure operators |
| `Lifecycle` | `mod.rs`, `process.rs`, `watch.rs`: slots, operations, waves, nodes, monitors | state machine, extends `Wiring` |
| `LifecycleProofs` | theorems on `Lifecycle` and on `Dispatch`, which is composed with it | proofs |
| `Dispatch` | prepare, send, emit, bail, gather, ask of `cartridge.rs`; sender, send_to, bail, gather of `mod.rs` | state machine, composed with `Lifecycle` |
| `CallOnce` | what a connection promises of a call, and a helper of a request | abstract specification |
| `Peer` | `rpc.rs` and the connection loop | state machine, implements `CallOnce` |
| `Streams` | publish, subscribe, pump, resume of `cartridge.rs` | state machine |
| `Bases` | `socket.rs`, takeover and publication in `mod.rs`, `typed.rs` binding, `daemon` | state machine |
| `Attach` | `cli/host.rs` (bridge over stdio), `cli/client.rs`, clients and idle stop of `mod.rs` | state machine |
| `Helpers` | spawned helpers of `node/mod.rs` | state machine, implements `CallOnce` |
| `Recorder`, `Diagnostics` | `trace/activity.rs`; the writer of `trace/mod.rs` | state machines |
| `Telemetry` | both, a failed delivery being a line of the other | composition |
| `Trust` | `trust/mod.rs`, `cli/trust.rs`, the reads of planning and of a node | state machine |
| `PeerProofs`, `StreamsProofs`, `BasesProofs`, `AttachProofs`, `HelpersProofs`, `TelemetryProofs`, `TrustProofs` | theorems on those modules | proofs |
| `Settings`, `Ledger`, `Setup` | `transport/settings.rs`, `settings/`; `ledger/`, `loader/entries.rs`, `host/run.rs`; `cli/setup.rs` | pure operators |
| `Asp`, `Uses` | `asp/`: registry, admission, expansion, search, the tool; retained uses | pure operators |
| `SettingsChecks`, `LedgerChecks`, `SetupChecks`, `AspChecks` | what those promise, as named `ASSUME`s over all small inputs | reference definitions |
| `MC*` | instances for TLC | |

### 2.1 Lifecycle

Slots are functions of the cartridge: `entry`, `plan`, `state`, `error`, `seen` (the
`sources` a change is judged against), `dir`, `gen`, `running`. State "none" is a
cartridge without a slot. `proc` gives each process its owner, generation and phase:

    booting -> up -> gone (exited) -> reaped (reported) -> done

`sock` is what a connect to the cartridge's socket path reaches. `held` is the
directory a node works with, `late` those whose push timed out but which the node
will still get to, `slow` the processes that happened to. The operation in progress
is `kind`, `stage` and what it still has to do (`queue`, `todo`, `draining`, `wave`):

| Action | Code |
|---|---|
| `Reconcile`, `Replace`, `ReplaceChanged`, `Stop` | the operations up to their first await |
| `PlanNext` | planning in `replace_locked` |
| `StopTake`, `NodeStopped`, `StopDone` | `stop_slot`; the monitor's stop branch; the await that returns |
| `RebuildSlots`, `InstallPlan`, `FinishStop` | what each operation does to its slots after the stops |
| `Rewire`, `Push`, `TakeLate` | `rewire`: refusals, directories, listeners; each push, or its timeout |
| `StartWave`, `NothingReady` | one turn of the loop of `start_ready` |
| `Spawn`, `Applied`, `LaunchFails`, `WaveDone` | `launch` and `Process::start`; the join of the wave |
| `Exit`, `Report`, `Unlink` | a node exits; the monitor calls `exited`, then removes the socket file |
| `Edit` | somebody edits a manifest or the composition |

One step is what happens under one hold of the slots lock, or one await. What a
plan carries besides wiring (config, grant, hash) is one opaque value, `build`.

### 2.2 Dispatch

`Dispatch` extends `Lifecycle` with events in flight: its steps are those of the
composition (`CompositionStep`, any step of `Lifecycle`), of a call and of one request
of a call. So an event may meet every state a reload, an edit or a late push leads to.

| State | Stands for |
|---|---|
| `call[c]` | one emit, bail, gather or ask: its sender, event and listeners, as `prepare` read them; for the base also the directory it has computed and not yet set |
| `leg[c][i]` | the request to listener `i`: what the sender knows of it (`stage`, `outcome`), what became of it at the listener (`request`), and how often the listener ran (`runs`) |
| `hostDir` | the directory of the base's own context, shared by all its calls |

| Action | Code |
|---|---|
| `Send` | a node's `emit`, `bail` or `gather`: `prepare` reads the directory once. A node's `ask` is a call of one listener |
| `HostSend`, `HostSets`, `HostPrepares` | `Host::sender` up to the release of the slots; `set_directory`; the reads of `bail`, `gather` and `ask`. Other calls of the base come in between |
| `Reach`, `Unreached` | `client`: connected, token refused, nobody within the connect timeout |
| `Arrive`, `Answer` | the "event" branch of `handle`: admitted and run, or refused; the reply |
| `ConnectionLost`, `TimeOut` | a call that ends closed, or by the event's timeout |
| `BailNext`, `Finish` | the loops of `bail` and `gather` |
| `Forget` | bookkeeping: a call that has left no trace is used again |

Of the connection it takes what `CallOnce` promises and `Peer` is shown to keep: a
request is handed over at most once and its caller ends with its answer or without
one. An outcome "refused" is `Unavailable` where the connection was refused and `Failed`
where the event was; the code treats both alike. `current`, `served` and `alone` are kept
for the properties: whether every node still works with the directories the sender
looked at, whether the event was served since the call came, and whether the base had
no other call between computing and reading a directory.

### 2.3 Peer

The caller's table (`pending`), the answers it has handed out but that are not
polled yet (`answer`), the queue of requests and cancels, the listener's permits,
tokens and tasks, and the queue of responses. `Call`, `Enqueue`, `Return` and
`Abandon` are the three stages of `call` and the drop of its future; `Dispatch` is
the reader; `Serve`, `HeedCancel`, `Over` are the connection loop and the end of a
listener. `Responded` and `Abandon` have the full-queue case that closes the
connection. A queue stands for the channel and the socket buffer behind it.

### 2.4 Streams

One publisher, one subscriber, one channel. An envelope is the number that a run of
the publisher gave it. A connection is `out` (the publisher's queue and the wire) and
`in` (the reader's queue before the pump). `Leave`, `Join`, `Announce`, `Left` are the
steps of the publisher's `subscribe` and `unsubscribe` handlers, apart where the
locks are; joining and leaving are themselves announced on the channel with numbers
of their own. `Pump`, `PumpEnds`, `Resume`, `GiveUp` are `pump` and the resubscription
it spawns. `got` and `refused` are kept for the properties only, and so is `start`, where
the subscription began (no number until the first reply says so). `resuming` is a bag:
two pumps may ask to resume from the same number. `Past` is what the subscription is not
for, up to its start or to a number handed over in a former run; the rest is `Owed`.

### 2.5 Bases

Each base is a main task (`at`), an accept task that owns the listener (`accepting`),
and files: the socket file at the name, staged ones beside it, a directory per process.
A file is named by who bound it; inodes are explicit because the code recognises its
own socket by them, and a file system reuses them. Checks and removals that the code
makes apart are apart here (`AcceptEnds`/`AcceptUnlinks`, `Unpublish`/`RemoveName`,
`Sweep`/`RemoveRun`). Steps made under the lock on the names are one action. `lost`
records who was robbed of the name while it listened, for the properties only.

### 2.6 Attach

Bases are `down`, starting, composing, settled or leaving; connections and lines of
the bridge's input are numbered.

| Action | Code |
|---|---|
| `Listen`, `Compose`, `Gone`, `TakeName` (in `BaseStep`) | a base binds, settles, ends; a replacement takes the name |
| `Count`, `IdleStop` (in `BaseStep`) | `stop_when_idle`: the time of the last client is read, then judged |
| `ConnStep`, `Drop` | a connection is served, counted in and out (`client_joined`, the two halves of `client_left`), or closed |
| `Read`, `Deliver`, `LineStep`, `Finish` | a line is read, sent, and sent again after a lost connection; its answer is queued for the writer |
| `Write`, `Break`, `Exit` | the writer task, an output that breaks, the end of the input, which waits for answers |
| `Meddle` | a stop, a crash or a replacement that somebody else asks for |

How bases hand over the name is `Bases`; here a base has it or has not.

### 2.7 Helpers

A line is its head and its tail, what a `write_all` leaves when the pipe fills in
between. `stage` follows each question, send and answer from its entry in the table,
over the lock (`Lock`), the two parts (`WritePart`), a broken or late write
(`WriteFails`, `WriteLate`, `KillLate`), to its `outcome`; `Cancel` drops a listener
wherever it waits. `ReadLine` and `Handled` are the reader task, which hands an answer to
its question and any other line to the Lua handler and waits for it; `ReaderEnds`
fails every question. Helper and handler may do anything, and nothing.

A question is seen by `CallOnce` (`Promise`) as a call that waits from its beginning to its end, whose
listener runs from the moment the helper has read its line whole, and has answered when
the helper said so.

### 2.8 Recorder, Diagnostics, Telemetry

`Recorder` has the bounded queue of activities, the record being sent, its attempts, and
the counter of what was dropped; the counter goes into a record of its own, which may be
refused like any other. `Diagnostics` has the queue of notes, the count of missed lines,
and the file as a sequence of whole and half lines, with its rotated predecessor; each
call to the file system may fail. `Telemetry` runs both, a failed delivery being a line
on the node's stderr that the base notes. `Accounted` counts what the records carry one by one
(`Gaps`: a pair for each activity a record stands for), so that a record that is sent
twice is counted once.

### 2.9 Trust

`store` has a record per directory, which may be absent or half written, `disk` the
versions of files. A command is `Trust`, `Hash`, `RemoveRecord`, `CreateRecord`,
`WriteRecord`, or `Revoke`, `TakeRecord`, `Revoked`; the base plans by `Plan`, `Look`
(one record further out), `Refuse`; a node runs by `Apply`, which reads again what was
planned. `Edit` comes at any moment. A digest is the content itself. `--yolo` and the
files below `~/.cartridge`, for both of which the records are not asked, are left out.

### 2.10 Pure modules

What has no state between calls is a function, and its promises are named `ASSUME`s,
evaluated over every input of small sets beside a run: `SettingsChecks` and
`LedgerChecks` beside `trust`, `SetupChecks` beside `attach`, `AspChecks` beside
`telemetry`. They compare with a definition of another form than the code's (a least
closed set for the walk of `solo`, a field-by-field reading for the merge, reachability
for the expansion) or state a law (applying twice is applying once, nothing is
overwritten, the problems come first).

| Module | Promises |
|---|---|
| `SettingsChecks` | a merge decides field by field; what is applied conforms, and is refused for a value that does not; null restores the default; layers apply in turn; undeclared keys are the uppermost ones |
| `LedgerChecks` | `verify <id>` runs the least closed set of needs, or refuses at a need that is missing or clashed; only the target's contracts are called; every top folder is composed once |
| `SetupChecks` | names offered once and in order; nothing in place is overwritten, also when setup fails half way; a hook is added once; a cartridge is configured with what it answered to all its questions; one failing cartridge leaves all unwritten; what awaits trust is never vouched for |
| `AspChecks` | expansion reaches what the edges reach, within its limits and reporting when it cut; the scheme's owner names an entity; stale is judged against the owner; search asks searchers only and ranks; uses are bounded |

## 3. The runs

| Run | Instance | What it shows |
|---|---|---|
| `lifecycle` | 3 cartridges in a chain of needs, 4 pids, 2 operations, 1 edit, 1 exit, 1 late push | the safety of nodes, slots, status, routes and directories, and the causes of starts and stops |
| `lifecycle_live` | 2 cartridges, 2 operations, 1 exit, with fairness | operations end; an active slot does not keep a node that has gone |
| `dispatch` | 2 cartridges that listen to one event, one of which may cease to; 2 operations, 1 edit, 1 late push; an event of a node or of the base | no listener runs twice for one event; a bail runs a listener only after those before it declined; an event is refused only to a sender with an outdated view; the base says that nobody listens only when nobody did |
| `peer` | 3 calls, queues of 2, 2 permits, with fairness | each call ends once with its own answer (refinement of `CallOnce`), nothing leaks, answers arrive, cancels stop listeners |
| `streams` | 2 connections, queues of 1 and 2, history of 2, 2 envelopes, 1 restart, 2 connects, with fairness | no hole, no silent loss, subscriptions come back |
| `bases` | 2 starting and 1 replacing base, 1 stop, 1 kill, 1 deadline, 1 sweep | the name stays with who serves; replaced bases are gone; somebody serves in the end |
| `attach` | 2 bases, 3 connections, 2 lines of which 1 is a request, 1 fault, with fairness | a message runs twice only when its connection was lost, answers are written once and before the end, an idle base has no client, each line ends |
| `helpers` | 1 question of a listener and 1 from inside the line handler, 1 send, 1 answer, 1 plain line; pipes of 1 place, with fairness | only a cancel tears a line; an answer reaches its question; each question ends once (refinement of `CallOnce`); each call ends |
| `telemetry` | 3 activities of which 1 is refused, a queue of 1, 2 failed attempts; 3 lines, a queue of 1, a file of 2, 1 fault, 1 flush | nothing is unaccounted for; a flush covers what was before it; whole lines. Also `AspChecks` |
| `trust` | a folder in a project, both may be recorded; 2 commands, 2 edits, 2 plans | what runs was vouched for as it was read; any record above authorises; a revocation leaves none. Also `SettingsChecks`, `LedgerChecks` |
| `lifecycle_lost_exit`, `streams_resume` | smaller instances | each finds a behaviour that contradicts a line of the documentation (section 5) |

A configuration that is no run but finds a known exception is named in section 5.

### 3.1 The bounds

* Three cartridges are the least for a wave after a wave and for a rewire that touches
  a running node which is neither replaced nor its peer. The manifests of `MCLifecycle`
  cover: a need met by the base, by an earlier cartridge, by one that fails; a glob need;
  an optional need; a clash; a manifest that cannot be planned. Two operations give every
  ordered pair of operations; an initial composition may list any of the cartridges with any of
  their manifests (one that starts disabled is left to the smaller runs and to edits); an
  edit may touch two manifests at once, as a checkout does, so that `ReplaceChanged` has
  several slots to replace.
  A pid is reused when nothing knows it any longer, so `P >= N + MaxCrashes` suffices.
* Queues of one or two places are both full and not full within a run, and each has a
  case where a second message does not fit. Two permits for three calls make the loop wait.
* `dispatch` has one call at a time, which is used again, and no exits of their own
  (`MaxCrashes = 0`): a node that goes under a call is there through reloads and stops,
  and what a caller sees of any exit is `ConnectionLost`. Two listeners are the least for
  an order; the one that may cease to listen makes edges come and go.
* Two bases and three connections are the least for a message that is sent again over a
  new connection while the old one is still being counted out; one fault, for one of
  stop, crash or replacement under a message. Two edits and two plans let a file change
  between check and run and be planned again; two commands let a revocation meet a
  record half written. A file of two lines rotates within three.
* One restart of a publisher is what makes numbers repeat. Each reconnection consumes a
  connect; `Survives` excepts the state in which the bound is used up.
* `Calm` in `Bases` singles out the runs in which none of the bounded mishaps happened,
  for the properties that speak of undisturbed starts and replacements.
* Deadlock checking is off in every run: a base to which nothing happens any more, once
  the bounds are used up, rightly waits for ever.

### 3.2 Fairness

* `Lifecycle`: weak fairness of the step of whoever holds the `op` lock and of the
  monitors. The runtime polls a task that is ready, and each await of an operation has a
  deadline (startup, shutdown and push timeouts), after which the model's step is the
  failing one. Nothing is assumed of nodes, edits or new operations.
* `Peer`: weak fairness of reader, writer and connection loop, and of a listener whose
  token is cancelled (it is raced against the token by `select!`). A listener need not
  end, and a caller need not give up.
* `Streams`: weak fairness of both runtimes, and of `Up`: a node that was stopped to be
  replaced is started again. Without it the subscriber gives up, which `Survives` admits,
  or waits for its connect timeout, which is not a step the model has to take.
* `Attach`: weak fairness of the tasks of base and bridge, all of whose waits have a
  timeout (calls, attach, settling). Nothing is assumed of who types.
* `Helpers`: weak fairness of each call's own steps (its timers fire), and strong
  fairness of taking the input lock, which the runtime hands out in the order asked. A
  helper need not read, answer or exit.
* `Bases`, `Dispatch`, `Telemetry`, `Trust`: safety only.

## 4. What is proved

Each module with theorems has one inductive invariant, stated in named parts, a lemma per
part and action (or group of actions) that preserves it, and the theorems that follow from
it by PTL. TLC checked every such invariant on an instance before it was proved.

### 4.1 Nodes, in `LifecycleProofs`

`LifecycleProofs` proves, for every number of cartridges, every set of events,
manifests and processes and every bound that satisfies the assumptions of `Wiring`
and `Lifecycle` (the substantial one: `N + MaxCrashes <= P`, so that a pid is free
when a node is spawned):

| Theorem | Says |
|---|---|
| `TypeCorrect` | `Spec => []TypeOK` |
| `StepsFit` | `Spec => []IInv`, the inductive invariant |
| `NoOrphanNodeHolds` | every live process is held by the host for its own cartridge |
| `OneNodeHolds` | no cartridge has two live processes |
| `StopStopsAllHolds` | nothing runs after a stop |
| `NothingHalfDoneHolds` | no slot is starting or stopping between operations |
| `StatusCoherentHolds` | active exactly with a node, failed exactly with an error, and `NothingHalfDone` |
| `StoppedForCauseHolds` | the action property: a serving node is taken only for a cause of its own |

None of the invariants is inductive alone. `NoOrphanNode`, say, needs that a pid which
is spawned anew is held by nobody, that a report finds the slot that runs the reporting
process or none, and that a stage which forgets `wave` or `draining` finds them empty.
`IInv` collects this in four parts:

* `StageInv`: what each stage of an operation leaves empty and what is still to stop;
* `SlotInv`: a slot's state says in which of three places (`running`, `draining`, `wave`)
  its process may be, and a failed slot is one with an error;
* `HeldInv`: a process held for a cartridge was started for it, in a fitting phase;
* `ProcInv`: a process is held from its spawn until its exit was reported or it was
  stopped. So an exit is never charged to a successor.

A lemma per part and action shows that a step preserves it, given `TypeOK` and `IInv`;
the theorems combine them with PTL. `StoppedForCause` needs one more fact about a
reconcile in progress (its `todo` holds only stale slots), kept as a second invariant.

### 4.2 Trust, in `TrustProofs`

`TrustProofs` proves, for any directories, files and versions, any number of commands
and any bound on edits and plannings that satisfy `TrustAssumption` (the manifest and
the entry are two files, what is above a file is a sequence of directories):

| Theorem | Says |
|---|---|
| `TypeCorrect` | `Spec => []TypeOK` |
| `ChecksHold` | `Spec => []IInv`, the inductive invariant |
| `RunsWhatWasVouchedHolds` | a node runs the versions that a record held during that planning |
| `AnyRecordAuthorisesHolds` | any record above a file authorises it, at any depth |
| `RevokedIsGoneHolds` | a revocation that ended left none of the complete records it found |

`RunsWhatWasVouched` speaks of the end of a chain of reads, so `IInv` says where in the
chain the base is: what the records say now is in `vouched` (`StoreInv`), the entry is
checked after the manifest passed and while nothing runs (`CheckInv`), what is planned
passed (`PlannedInv`) and what runs is what was planned (`RunningInv`). For
`AnyRecordAuthorises` it says that the records already passed over do not match, unless
they have changed since (`LookedInv`); for `RevokedIsGone`, that a record not yet removed
is among those the command saw (`StandingInv`). Every step of a command either changes
one record (`StoreKeeps`) or none (`QuietKeeps`), which spares a case per action.

### 4.3 Wiring, in `LifecycleProofs`

| Theorem | Says |
|---|---|
| `EdgesAgreeHolds` | of two active cartridges, the sender has a route exactly where the listener admits it |
| `EdgesCompleteHolds` | between operations no route to an active listener is missing |
| `SettledHolds` | what still waits when an operation ends lacks an active listener of something it needs |
| `DirectoryDeliveredHolds` | a serving node that was never slow works with the directory computed last, or is about to be told |
| `SocketKeptHolds` | the action property: a serving node stays reachable at its path |

Directories agree because those in use were computed together, by one `rewire`. In use
(`InUse`) is every slot that waits, starts, serves or stops, and also the one whose node
exits while it is being replaced: the code looked at its state before the stop
(`wasActive`) and rewires for it although the slot is no longer active. `WiredInv` says
that the directories of what is in use agree, are complete and match the listener table,
except within a rewire, where only those that serve still agree. `HandedInv` follows a
directory from the wave that hands it over to the slot that runs the node; `SocketInv` says
that what a path leads to is a node of that cartridge.

### 4.4 Events, in `LifecycleProofs`

| Theorem | Says |
|---|---|
| `CompositionUndisturbed` | refinement: a step of `Dispatch` is one of `Lifecycle` or leaves its variables alone |
| `RequestsInOrder` | the inductive invariant |
| `NotHandledTwiceHolds` | a listener runs at most once for one event |
| `AskedInOrderHolds` | a listener of a bail runs only after those before it declined |
| `RefusedForCauseHolds` | a refusal means that the sender's view was not current |
| `NobodyForCauseHolds` | "nobody listens" is said only if nobody did, or the shared directory was shared |

By the refinement all theorems of `Lifecycle` hold while events are in flight, and the
last two rest on them: while a call's view is current every node works with its
directory (`UpToDate`), and directories agree (`WiredInv`), so an edge the sender goes by
is one the listener admits (`ViewInv`). For the base's own calls, one that is alone with
the shared directory finds in it the listeners it computed (`NobodyInv`).

### 4.5 Calls, in `PeerProofs`

| Theorem | Says |
|---|---|
| `CallsAgree` | the inductive invariant |
| `TypeCorrect` | `Spec => []TypeOK`, with the bound on permits |
| `NothingLeaksHolds` | no id, token or permit is left behind |
| `EndsOnceHolds` | refinement: `Peer` implements `CallOnce` |

`CallInv` says, for each call, which of table, request queue, task, response queue and
hand it may be in at each stage, each at most once, and that a cancel in the queue is of
a call that was given up. `PermitInv` counts: permits and tasks at work are `InFlight`
together. The step simulation maps a call that is still queueing to one that waits.

### 4.6 Channels, in `StreamsProofs`

| Theorem | Says |
|---|---|
| `StreamsAgree` | the inductive invariant |
| `TypeCorrect` | `Spec => []TypeOK`, with the bounds of all queues |
| `CompleteHolds` | while a subscription stands, all of it that is still in the history was handed over, was refused by a full queue, or is on its way |
| `NoSilentLossHolds` | what a later envelope overtook was refused or had left the history |
| `ResumesSoundlyHolds` | a resubscription starts behind nothing but what was handed over or refused: what remains of `ResumesFromLastTaken` (section 5) |

`Complete` alone says nothing of order, and a replay starts from a position. The
invariant speaks of what is still due (`Due`): the numbers of the history that the
subscription is owed, neither handed over nor refused. On each connection to the present
run of the publisher what is due comes in order (`Wires`): whatever is due below a number
on the wire is on the wire before it. So the pump never moves a position past something due, and
every position that anybody holds is sound (`Positions`, `Requests`): the watcher's
own, those of the pumps that ended and will ask to resume, and those in requests on the
way, however old. A replay from a sound position leaves nothing out, hence a registered
connection carries all that is due (`Whole`). Two more parts are about the beginning:
before `subscribe` nothing of the channel is anywhere (`Idle`), and the first reply on the
connection that `subscribe` used says where the subscription starts (`Answering`).

### 4.7 Bases, in `BasesProofs`

| Theorem | Says |
|---|---|
| `TypeCorrect`, `BasesAgree` | types; the inductive invariant |
| `NameHeldHolds` | whoever serves holds the name until it is asked to stop (but for `lost`) |
| `ReplacedGoneHolds` | a replacement composes only when its predecessor is gone, or a deadline passed |
| `SomeoneServesHolds` | starts and replacements do not eliminate each other |
| `OneUntilAskedHolds` | no two bases have nodes while nobody was asked to stop or interfered |

For `SomeoneServes` the invariant says that, undisturbed, some base is `Responsible` for the
rest: one that found nobody and has yet to bind, one that waits to take the name, or one that
has it and was not asked to stop. Who gives way always gives way to such a base, which
needs that files, places and stops are in step (`CalmFiles`). `OneUntilAsked` is what remains of
`NeverBeside` (section 5): that two bases are never beside each other holds until a replacement, or
anybody, asks one to stop. From then on a start that looked before may bind the name that
the old base gave up, and compose beside it; so one replacement is enough for two.

### 4.8 Clients, in `AttachProofs`

| Theorem | Says |
|---|---|
| `AttachAgrees` | the inductive invariant, with `TypeOK` |
| `TwiceForCauseHolds` | a message is sent twice only over two connections, the first of them closed |
| `AnsweredOnceHolds` | one answer at most, and exactly one before an undisturbed end |
| `IdleForCauseHolds` | the action property: a base stops idle only if nobody was joined for a whole timeout, but for two narrow cases it names |

`TwiceForCause` rests on a closed connection never opening again and on one line attaching
at a time (`AttachInv`: who settles holds the lock). `AnsweredOnce` needs that the queue
of the writer and what is written share no line and hold none twice (`OutputInv`).
`IdleInv` relates the base's clock to its clients: a time that is old belongs to a base
without clients for as long, to one with a client, or to one whose client is counted out and has
not stored its time.

### 4.9 Helpers, in `HelpersProofs`

| Theorem | Says |
|---|---|
| `PipesAgree`, `CoherentHolds` | the inductive invariant; types, one writer at a time, no id left in the table |
| `TornByCancelOnlyHolds` | only a cancel tears a line |
| `AnswersArriveHolds` | an answer read while its question waits goes to it and to no handler |
| `EndsOnceHolds` | refinement: `Helpers` implements `CallOnce` |

The argument goes along the stream of line parts, what the helper has read and what is in the
pipe: each part is judged by the one before it (`Before`), a tail follows its own head, and a head
follows a tail, or the head of a line that was cancelled (`PipeInv`), since whoever fails in the middle
of a line closes the pipe before it lets go of the lock (`EndInv`). For the answers: what a
helper says it says once, and only of a line that went out (`SaidInv`).

For the refinement a question's line read whole for the first time is the run of its listener, its
answer on the helper's stdout the finish, and each way to end (an answer, the end of the
reader, a failed or late write, the timer, a cancel) a settlement; all other steps are
invisible. It needs of the invariant that a line reaches the helper only from a question
that began (`GotInv`), and that a question is handed only an answer that was said (`TableInv`).

### 4.10 Activities and diagnostics, in `TelemetryProofs`

| Theorem | Says |
|---|---|
| `TelemetryInvariant` | the inductive invariant of both, side by side |
| `AccountedHolds` | every activity is queued, sent or counted, exactly once; only a refused record takes a count with it |
| `LogInOrderHolds` | the log has the activities in the order they were recorded; a repetition is identical and follows at once |
| `FlushedIsSettledHolds` | an acknowledged flush leaves nothing noted or counted before it in the queue or the counter |
| `StreamCoherentHolds` | the counter is what it counts, the file stays under its cap, no line follows a torn one |

`Accounted` is a sum, kept by each step only if a record that is sent is either the very same
as before or one that was never sent: what waits is newer than all that was sent
(`QueueIsNewer`), and what was sent is older than what is being sent, or the same (`LogIsOlder`). Then
one lemma on finite sets (`GapsAdded`) says what a new record adds to both sides.
`FlushedIsSettled` follows the flush's note through the queue: what it answers for is in a
file, counted, or queued ahead of it (`Ahead`), and the count is taken with that note too. `SoundSink` is about one state of the writer and is kept by each of its
calls to the file system, failed ones included, however many a line needs.

### 4.11 Assumptions, and what is not proved

Nothing is assumed beyond the named `ASSUME`s, which TLC evaluates in the runs: bounds are
natural numbers and queues have a place; the values that stand for "none" (`None`, `NoBase`,
`NoConn`, `NoInode`) are not among what they stand beside, messages of the recorder included; a subscription asks from one
number or none (`SincesAssumption`); there are inodes for all bases.

Only model-checked are

* liveness under fairness (`OperationEnds`, `ExitNoticed`, `Survives`, the `AnswersArrive` of
  `Peer`, `CancelStops`, `CallEnds`, `LinesEnd`), which is beyond the proof system's backends;
* the pure modules, whose promises are about recursive functions and are evaluated over
  all small inputs.

So every safety property of a run, invariant, action property or refinement, is also
proved. Only proved, and part of no run, are `StopStopsAll`, `Coherent` of `Helpers`, `LogInOrder` of
`TelemetryProofs`, `OneUntilAsked` of `BasesProofs` and `ResumesSoundly` of `StreamsProofs`.

## 5. Where code and documents disagree

Two are runs that expect a violation:

| Run, property | Code | Says otherwise |
|---|---|---|
| `lifecycle_lost_exit`, `ActiveHasNode` | `mod.rs:538` drops the exit of a slot that is still starting; the wave then makes it active | `src/docs/architecture.txt:65` |
| `streams_resume`, `ResumesFromLastTaken` | `cartridge.rs:698` closes on a full queue but goes on delivering what was read | `src/docs/transport.txt:133-134` |

Six more are configurations beside the runs, checked by `tlc -config <file> <module>`:

| Configuration, property | Code | Says otherwise |
|---|---|---|
| `MCLifecycleOwners`, `OneOwnerPerEvent` | `mod.rs:398` never refuses a running slot, though `reconcile` may give it a new plan | `src/docs/transport.txt:23,39` |
| `MCLifecycleLostEdit`, `EditNotLost` | `mod.rs:602` stamps sources later than it read the plan | `src/docs/architecture.txt:144` |
| `MCBasesTwo`, `NeverBeside` | two replacements of one base do not notice each other (`mod.rs:691`) | `src/docs/architecture.txt:162`, `mod.rs:688` |
| `MCBasesSwap`, `ReachedThroughout` | the old base stops before the new one composes (`mod.rs:716`) | `src/docs/architecture.txt:168-171` |
| `MCAttachIdle` (`MCAttach`), `IdleOnlyUnused` | `client_left` counts a client out before it stores the time, and a check in between sees the older time | `mod.rs:213` |
| `MCHelpersTorn` (`MCHelpers`), `LinesWhole` | a listener cancelled in the middle of a write leaves half a line and the lock; the next line is glued to it | `src/src/node/mod.rs:705` |

The pure modules state what the code does where a document says something else:

* `src/docs/settings.txt:31-42` lists the config of an `init.lua` entry as laid over
  `config.lua`; `loader/entries.rs:95-98` lays `config.lua` over the entry
  (`EntryConfig`), as `src/docs/architecture.txt:36-37` has it.
* A null does not restore the default from every layer: one in the project's
  `config.lua` removes the machine's key and is gone (`NullOfTheProjectStopsAtTheMachine`,
  against `src/docs/settings.txt:34-35`).
* An entry of `init.lua` with the id of another installed folder refuses the whole
  composition, since the ids of derived entries count too (`Valid`).
* `verify <id>` refuses a cartridge with a glob need: the ledger matches keys exactly
  (`Resolve`; `src/docs/creating-cartridges.txt:176`).
* A provider that fails only at a deeper level leaves the facts it gave before
  (`FactsOfTheUnavailable`; `src/docs/asp.txt:149`).
* An event named `tool.` and nothing more makes the base refuse its own answer
  (`KeylessTool`).
* `cartridge setup` looks at sixteen replies of a cartridge. A seventeenth is sent for
  and thrown away, without a word, even when it holds the config (`Round`). The
  exception `strayed` makes for `config.lua` never applies, since reading that file
  already asks for its trust (`RunSetups`). And `trust::record` vouches for whatever the
  project holds by then: what is edited after `strayed` looked is vouched for with it.

Two behaviours are in the models without a run of their own. `unpublish` knows its
socket file by inode, compares before it removes by name, and the accept task closes the
socket first: a successor that is given the same inode at once loses its file, against
`mod.rs:118-119` (`lost` in `Bases`). And the base sets the directory of a call on a context
that all its calls share (`mod.rs:828`): a slower one may set an older directory, and a
call then finds no listener for an event that is served (`alone` in `NobodyForCause`).

Where a passing property has an exception for these (`slow` in `DirectoryDelivered`,
`refused` in `NoSilentLoss`, `lost` in `NameHeld`, `Unlink` in `SocketKept`), its comment
says which behaviour the code really has.

## 6. What is not modelled

* Data: parsing of manifests, config and documents, JSON schemas, Lua values, wording,
  the cutting of records to size (`trace/activity_limit.rs`), the text of `asp/render.rs`.
* The line pipes of a node (`node/mod.rs:443-486`) and the limits of a Lua interpreter:
  both are set and enforced in one place, in the VM or the operating system.
* The operating system: credentials of a peer, sandbox, signals, Windows pipes. A
  process group is one process: that `killpg` reaches all of it is taken for granted.
* The commands that only print: manual, list, settings, doctor's layout.
* Several channels, or several subscribers to one: a publisher treats them apart, under
  one lock, and the only coupling (join and leave are announced to all) is in the model
  as the subscriber's own announcements.

## 7. Plan

Modelled first is what everything else relies on: nodes and their lifecycle, events,
the connection, channels, the name of a base; then what stands at its edges: clients and
idleness, helpers, telemetry, trust, and the functions that say what is composed and how
it is configured. To come:

1. What the refinements of `Peer` and `Dispatch` allow to be carried over to their
   composition.
2. The line pipes of a node, and two helpers of one node.
3. `--yolo` and the files below `~/.cartridge` in `Trust`.

Runs are kept to one per question; a module of pure operators shares the run of a module
it is close to.
