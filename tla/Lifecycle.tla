----------------------------- MODULE Lifecycle -----------------------------
(***************************************************************************)
(* The lifecycle of a composition: the base's slots, the operations that   *)
(* change them (reconcile, replace, stop), the waves that start what is    *)
(* ready, the node processes and the monitors that report their exits      *)
(* (src/src/host/mod.rs, plan.rs, process.rs).                             *)
(*                                                                         *)
(* An operation holds the `op' lock from its first step to its last, and   *)
(* the slots lock only inside a step, so nodes exit, monitors report and   *)
(* files are edited between any two of its steps.                          *)
(***************************************************************************)
EXTENDS Wiring, FiniteSets

CONSTANTS
    Manifests,   \* Manifests[i]: what cartridge i's files may be edited to
    Configs,     \* contents of an enabled entry of the composition
    AtStart,     \* what the entries of the composition may be at first
    Broken,      \* a manifest planning refuses
    NoPlan,      \* Option<Plan>::None
    P,           \* process ids 1..P, reused when a process is forgotten
    MaxOps, MaxEdits, MaxCrashes, MaxLate   \* bounds of a run

ASSUME PAssumption == P \in Nat
ASSUME NoPlanAssumption == NoPlan \notin Plan
ASSUME BrokenAssumption == Broken \notin Manifest
ASSUME ManifestsAssumption ==
    Manifests \in [Ids -> SUBSET (Manifest \cup {Broken})]
ASSUME ConfigsAssumption == {"absent", "disabled"} \cap Configs = {}
ASSUME AtStartAssumption == AtStart \subseteq {"absent", "disabled"} \cup Configs
ASSUME BoundsAssumption ==
    /\ {MaxOps, MaxEdits, MaxCrashes, MaxLate} \subseteq Nat
    /\ N + MaxCrashes <= P   \* a launch always finds a free pid

Pids == 1..P
NoPid == 0

Entries == {"absent", "disabled"} \cup Configs
States == {"none", "disabled", "waiting", "starting", "active", "stopping",
           "failed"}
Errors == {"none", "plan", "refused", "launch", "exit"}
Phases == {"done", "booting", "up", "gone", "reaped"}
Stages == {"idle", "plan", "stop", "rewire", "push", "launch"}
Kinds == {"reconcile", "replace", "stop"}
Launches == {"no", "queued", "booting", "ok", "err"}

VARIABLES
    disk,       \* the files: each cartridge's entry and manifest
    \* the slots, by cartridge (state "none": no slot)
    entry, plan, state, error, seen, dir, gen, running,
    listeners,  \* Host.listeners: event -> participants
    \* the node processes, by pid
    proc,       \* owner, generation and phase of a process
    held,       \* the directory the node works with
    late,       \* directories it did not take in time, still on their way
    slow,       \* processes that did not take a directory in time
    sock,       \* by cartridge: the process reached at its socket path
    \* the operation that holds the op lock
    kind, stage, queue, fresh, wasActive, todo, draining, wave,
    left        \* what remains of the bounds

slots == <<entry, plan, state, error, seen, dir, gen, running>>
told == <<held, late, slow>>
procs == <<proc, told, sock>>
operation == <<kind, stage, queue, fresh, wasActive, todo, draining, wave>>
vars == <<disk, slots, listeners, procs, operation, left>>

-----------------------------------------------------------------------------
\* Planning.

Enabled(e) == e \in Configs

\* Events the other enabled entries listen to, as their files stand: what a
\* glob need expands over.
ListenedOnDisk(i) ==
    HostPlan.listen \cup
    UNION {disk[j].manifest.listen :
              j \in {k \in Ids \ {i} : /\ Enabled(disk[k].entry)
                                       /\ disk[k].manifest # Broken}}

PlanOf(i) ==
    LET m == disk[i].manifest IN
    IF m = Broken THEN NoPlan
    ELSE [events |-> m.events,
          needs |-> m.needs \cup m.optional
                      \cup (m.glob \cap ListenedOnDisk(i)),
          optional |-> m.optional,
          listen |-> m.listen,
          build |-> m.build]

\* The plans rewire works with: the base's, and those of the slots that have
\* one and did not fail.
InForce(st) == {HOST} \cup {i \in Ids : /\ plan[i] # NoPlan
                                        /\ \/ st[i] # "failed"
                                           \/ running[i] # NoPid}

PlansOf(S) == [j \in S |-> IF j = HOST THEN HostPlan ELSE plan[j]]

Active == {HOST} \cup {i \in Ids : state[i] = "active"}

\* A waiting slot all of whose required needs have an active listener.
Ready(i) ==
    /\ state[i] = "waiting"
    /\ plan[i] # NoPlan
    /\ \A e \in Required(plan[i]) : listeners[e] \cap Active # {}

\* Sets of slots are gone through in composition order.
IsFirst(x, S) == x \in S /\ \A y \in S : x <= y

NoFresh == [entry |-> "absent", plan |-> NoPlan]

-----------------------------------------------------------------------------
Init ==
    /\ \E e \in [Ids -> AtStart],
          m \in [Ids -> UNION {Manifests[i] : i \in Ids}] :
          /\ \A i \in Ids : m[i] \in Manifests[i]
          /\ disk = [i \in Ids |-> [entry |-> e[i], manifest |-> m[i]]]
    /\ entry = [i \in Ids |-> "absent"]
    /\ plan = [i \in Ids |-> NoPlan]
    /\ state = [i \in Ids |-> "none"]
    /\ error = [i \in Ids |-> "none"]
    /\ seen = [i \in Ids |-> Broken]
    /\ dir = [i \in Ids |-> NoDirectory]
    /\ gen = [i \in Ids |-> 0]
    /\ running = [i \in Ids |-> NoPid]
    /\ listeners = [e \in Events |-> {}]
    /\ proc = [p \in Pids |-> [id |-> HOST, gen |-> 0, phase |-> "done"]]
    /\ held = [p \in Pids |-> NoDirectory]
    /\ late = [p \in Pids |-> {}]
    /\ slow = {}
    /\ sock = [i \in Ids |-> NoPid]
    /\ kind = "reconcile"
    /\ stage = "idle"
    /\ queue = {}
    /\ fresh = [i \in Ids |-> NoFresh]
    /\ wasActive = FALSE
    /\ todo = {}
    /\ draining = [i \in Ids |-> NoPid]
    /\ wave = [i \in Ids |-> [launch |-> "no", pid |-> NoPid]]
    /\ left = [ops |-> MaxOps, edits |-> MaxEdits,
               crashes |-> MaxCrashes, late |-> MaxLate]

-----------------------------------------------------------------------------
\* Operations begin.  Each holds the op lock until stage is idle again.

Begin(k, s) ==
    /\ stage = "idle"
    /\ left.ops > 0
    /\ left' = [left EXCEPT !.ops = @ - 1]
    /\ kind' = k
    /\ stage' = s

\* Mutant: a plan that differs restarts the node as a changed entry does.
StaleByPlan(i, found) == /\ running[i] # NoPid
                         /\ ~ (found.entry = entry[i] /\ found.plan = plan[i])

\* A running slot whose entry is no longer the one it started from, or has no
\* plan any more.
Stale(i, found) == /\ running[i] # NoPid
                   /\ ~ (found.entry = entry[i] /\ found.plan # NoPlan)

\* reconcile reads the entries, plans every enabled one, and finds the
\* running slots whose entry changed, is gone, or has no plan any more.
Reconcile ==
    /\ Begin("reconcile", "stop")
    /\ fresh' = [i \in Ids |->
                    [entry |-> disk[i].entry,
                     plan |-> IF Enabled(disk[i].entry) THEN PlanOf(i)
                                                        ELSE NoPlan]]
    /\ todo' = {i \in Ids : Stale(i, fresh'[i])}
    /\ UNCHANGED <<disk, slots, listeners, procs, queue, wasActive,
                   draining, wave>>

\* replace of one cartridge; an unknown or disabled one is refused at once
\* and changes nothing.
Replace(i) ==
    /\ Begin("replace", "plan")
    /\ Enabled(entry[i])
    /\ queue' = {i}
    /\ UNCHANGED <<disk, slots, listeners, procs, fresh, wasActive, todo,
                   draining, wave>>

\* The watcher saw files change: every enabled slot with a changed source
\* among them is replaced, one after another under one hold of the lock.
ReplaceChanged ==
    /\ Begin("replace", "plan")
    /\ \E S \in SUBSET {i \in Ids : /\ Enabled(entry[i])
                                    /\ seen[i] # disk[i].manifest} :
          /\ Cardinality(S) > 1    \* one alone is Replace
          /\ queue' = S
    /\ UNCHANGED <<disk, slots, listeners, procs, fresh, wasActive, todo,
                   draining, wave>>

Stop ==
    /\ Begin("stop", "stop")
    /\ todo' = {i \in Ids : running[i] # NoPid}
    /\ UNCHANGED <<disk, slots, listeners, procs, queue, fresh, wasActive,
                   draining, wave>>

\* replace_locked: plan the next of the queue from its files.
PlanNext(i) ==
    /\ stage = "plan"
    /\ IsFirst(i, queue)
    /\ fresh' = [fresh EXCEPT ![i] = [entry |-> entry[i], plan |-> PlanOf(i)]]
    /\ wasActive' = (state[i] = "active")
    /\ todo' = {i}
    /\ stage' = "stop"
    /\ UNCHANGED <<disk, slots, listeners, procs, kind, queue, draining,
                   wave, left>>

-----------------------------------------------------------------------------
\* Stopping slots.

Quiet == \A i \in Ids : draining[i] = NoPid

\* Mutant: the generation counts down.
LastGeneration(i) == [gen EXCEPT ![i] = @ - 1]

NextGeneration(i) == [gen EXCEPT ![i] = @ + 1]

\* stop_slot: a new generation, and the running node is taken out.  Slots
\* are stopped one by one, except by stop, which stops them together.
StopTake(i) ==
    /\ stage = "stop"
    /\ i \in todo
    /\ kind = "stop" \/ (Quiet /\ IsFirst(i, todo))
    /\ todo' = todo \ {i}
    /\ gen' = NextGeneration(i)
    /\ running' = [running EXCEPT ![i] = NoPid]
    /\ draining' = [draining EXCEPT ![i] = running[i]]
    /\ state' = IF running[i] # NoPid
                THEN [state EXCEPT ![i] = "stopping"] ELSE state
    /\ UNCHANGED <<disk, entry, plan, error, seen, dir, listeners, procs,
                   kind, stage, queue, fresh, wasActive, wave, left>>

\* Mutant: the node is asked to end and never killed.
NodeStoppedByItself(i) ==
    LET p == draining[i] IN
    /\ p # NoPid
    /\ proc[p].phase = "gone"
    /\ proc' = [proc EXCEPT ![p].phase = "done"]
    /\ sock' = [sock EXCEPT ![i] = NoPid]
    /\ UNCHANGED <<disk, slots, listeners, told, operation, left>>

\* The monitor got the stop: the node ends, by itself or killed with its
\* group after the shutdown timeout, and its socket file is removed.  If the
\* node was already gone, either branch of the monitor's select may win.
NodeStopped(i) ==
    LET p == draining[i] IN
    /\ p # NoPid
    /\ proc[p].phase \in {"up", "gone"}
    /\ proc' = [proc EXCEPT ![p].phase = "done"]
    /\ sock' = [sock EXCEPT ![i] = NoPid]
    /\ UNCHANGED <<disk, slots, listeners, told, operation, left>>

\* Mutant: stop_slot does not await the monitor.
StopUnawaited(i) ==
    /\ draining[i] # NoPid
    /\ draining' = [draining EXCEPT ![i] = NoPid]
    /\ UNCHANGED <<disk, slots, listeners, procs, kind, stage, queue, fresh,
                   wasActive, todo, wave, left>>

\* stop_slot returns once the monitor has ended.
StopDone(i) ==
    /\ draining[i] # NoPid
    /\ proc[draining[i]].phase = "done"
    /\ draining' = [draining EXCEPT ![i] = NoPid]
    /\ UNCHANGED <<disk, slots, listeners, procs, kind, stage, queue, fresh,
                   wasActive, todo, wave, left>>

AllStopped(k) == /\ stage = "stop"
                 /\ kind = k
                 /\ todo = {}
                 /\ Quiet

-----------------------------------------------------------------------------
\* What follows the stops.

\* reconcile rebuilds the slots from what it planned.  A slot still running
\* keeps everything but its plan; any other is a new slot.
RebuildSlots ==
    LET kept == {i \in Ids : running[i] # NoPid /\ fresh[i].plan # NoPlan} IN
    /\ AllStopped("reconcile")
    /\ entry' = [i \in Ids |-> IF i \in kept THEN entry[i]
                                             ELSE fresh[i].entry]
    /\ plan' = [i \in Ids |-> fresh[i].plan]
    /\ state' = [i \in Ids |->
                    IF i \in kept THEN state[i]
                    ELSE CASE fresh[i].entry = "absent" -> "none"
                           [] fresh[i].entry = "disabled" -> "disabled"
                           [] OTHER -> IF fresh[i].plan = NoPlan
                                       THEN "failed" ELSE "waiting"]
    /\ error' = [i \in Ids |->
                    IF i \in kept THEN error[i]
                    ELSE IF Enabled(fresh[i].entry) /\ fresh[i].plan = NoPlan
                         THEN "plan" ELSE "none"]
    /\ seen' = [i \in Ids |-> IF i \in kept THEN seen[i]
                                            ELSE disk[i].manifest]
    /\ dir' = [i \in Ids |-> IF i \in kept THEN dir[i] ELSE NoDirectory]
    /\ gen' = [i \in Ids |-> IF i \in kept THEN gen[i] ELSE 0]
    /\ running' = [i \in Ids |-> IF i \in kept THEN running[i] ELSE NoPid]
    /\ stage' = "rewire"
    /\ fresh' = [i \in Ids |-> NoFresh]
    /\ UNCHANGED <<disk, listeners, procs, kind, queue, wasActive, todo,
                   draining, wave, left>>

\* Mutant: only a cartridge that was not active is rewired.
RewiresInactive(i, new) == ~wasActive

\* A replaced cartridge that was not active, or whose wiring changed, may
\* change what the others listen to and need.
NeedsRewire(i, new) == \/ ~wasActive
                       \/ plan[i] = NoPlan
                       \/ WiringOf(plan[i]) # WiringOf(new)

\* replace_locked once the old node is down.  The sources are stamped now,
\* not when the plan was read.  An unplannable cartridge fails and keeps its
\* old plan; one whose wiring stays as it was needs no rewire.
InstallPlan(i) ==
    LET new == fresh[i].plan IN
    /\ AllStopped("replace")
    /\ IsFirst(i, queue)
    /\ IF new # NoPlan
       THEN /\ seen' = [seen EXCEPT ![i] = disk[i].manifest]
            /\ plan' = [plan EXCEPT ![i] = new]
            /\ state' = [state EXCEPT ![i] = "waiting"]
            /\ error' = [error EXCEPT ![i] = "none"]
            /\ stage' = IF NeedsRewire(i, new) THEN "rewire" ELSE "push"
       ELSE /\ state' = [state EXCEPT ![i] = "failed"]
            /\ error' = [error EXCEPT ![i] = "plan"]
            /\ stage' = "push"
            /\ UNCHANGED <<seen, plan>>
    /\ fresh' = [fresh EXCEPT ![i] = NoFresh]
    /\ wasActive' = FALSE
    /\ UNCHANGED <<disk, entry, dir, gen, running, listeners, procs, kind,
                   queue, todo, draining, wave, left>>

\* Mutant: the stopped slots stay stopping.
FinishStopAsIs ==
    /\ AllStopped("stop")
    /\ sock' = [i \in Ids |-> NoPid]
    /\ stage' = "idle"
    /\ UNCHANGED <<disk, slots, listeners, proc, told, kind, queue, fresh,
                   wasActive, todo, draining, wave, left>>

\* stop: what was stopped would start again; the node directory goes.
FinishStop ==
    /\ AllStopped("stop")
    /\ state' = [i \in Ids |-> IF state[i] = "stopping" THEN "waiting"
                                                      ELSE state[i]]
    /\ sock' = [i \in Ids |-> NoPid]
    /\ stage' = "idle"
    /\ UNCHANGED <<disk, entry, plan, error, seen, dir, gen, running,
                   listeners, proc, told, kind, queue, fresh, wasActive,
                   todo, draining, wave, left>>

-----------------------------------------------------------------------------
\* Wiring.

\* Mutant: a running slot is refused as any other.
RefusedRunning ==
    LET all == PlansOf(InForce(state)) IN
    {i \in Ids : /\ plan[i] # NoPlan
                 /\ \/ i \in Clashes(all)
                    \/ Unmatched(plan[i], Declared(all))}

\* The slots with no node that clash, or listen to or need an event nobody
\* declares.  A running slot is never refused.
Refused ==
    LET all == PlansOf(InForce(state)) IN
    {i \in Ids : /\ running[i] = NoPid
                 /\ plan[i] # NoPlan
                 /\ \/ i \in Clashes(all)
                    \/ Unmatched(plan[i], Declared(all))}

\* Mutant: a running node keeps its directory.
DirectoryOnce(i, plans) ==
    IF plan[i] # NoPlan /\ running[i] = NoPid
    THEN Directory(i, plan[i], plans) ELSE dir[i]

\* The directory a slot gets; one without a plan keeps what it had.
NewDirectory(i, plans) ==
    IF plan[i] # NoPlan THEN Directory(i, plan[i], plans) ELSE dir[i]

\* Mutant: a node that sends nothing new is not told.
ToldRoutes(dirs) ==
    {i \in Ids : running[i] # NoPid /\ dirs[i].routes # dir[i].routes}

\* The nodes to tell: those that run and whose directory changed.
Told(dirs) == {i \in Ids : running[i] # NoPid /\ dirs[i] # dir[i]}

\* rewire: refuse, then recompute every directory and the listeners from
\* what remains.  The running nodes whose directory changed are told.
Rewire ==
    LET st == [i \in Ids |-> IF i \in Refused THEN "failed" ELSE state[i]]
        plans == PlansOf(InForce(st))
        dirs == [i \in Ids |-> NewDirectory(i, plans)] IN
    /\ stage = "rewire"
    /\ state' = st
    /\ error' = [i \in Ids |-> IF i \in Refused THEN "refused" ELSE error[i]]
    /\ dir' = dirs
    /\ listeners' = Listeners(plans)
    /\ todo' = Told(dirs)
    /\ stage' = "push"
    /\ UNCHANGED <<disk, entry, plan, seen, gen, running, procs, kind, queue,
                   fresh, wasActive, draining, wave, left>>

\* One node is handed its directory; a node that is gone is skipped, and one
\* that does not answer within the push timeout is not asked again.
Push(i) ==
    LET p == running[i] IN
    /\ stage = "push"
    /\ IsFirst(i, todo)
    /\ todo' = todo \ {i}
    /\ \/ /\ held' = IF p # NoPid /\ proc[p].phase = "up"
                     THEN [held EXCEPT ![p] = dir[i]] ELSE held
          /\ UNCHANGED <<late, slow, left>>
       \/ /\ p # NoPid /\ proc[p].phase = "up"
          /\ left.late > 0
          /\ left' = [left EXCEPT !.late = @ - 1]
          /\ late' = [late EXCEPT ![p] = @ \cup {dir[i]}]
          /\ slow' = slow \cup {p}
          /\ UNCHANGED held
    /\ UNCHANGED <<disk, slots, listeners, proc, sock, kind, stage, queue,
                   fresh, wasActive, draining, wave>>

\* The node gets to a directory it did not take in time, before or after the
\* ones that followed: each is set by a task of its own.
TakeLate(p) ==
    /\ proc[p].phase = "up"
    /\ \E d \in late[p] : /\ held' = [held EXCEPT ![p] = d]
                          /\ late' = [late EXCEPT ![p] = @ \ {d}]
    /\ UNCHANGED <<disk, slots, listeners, proc, sock, slow, operation, left>>

-----------------------------------------------------------------------------
\* Starting: wave by wave, until nothing waiting is ready.

Pushed == stage = "push" /\ todo = {}

StartWave ==
    LET ready == {i \in Ids : Ready(i)} IN
    /\ Pushed
    /\ ready # {}
    /\ state' = [i \in Ids |-> IF i \in ready THEN "starting" ELSE state[i]]
    /\ gen' = [i \in Ids |-> IF i \in ready THEN gen[i] + 1 ELSE gen[i]]
    /\ error' = [i \in Ids |-> IF i \in ready THEN "none" ELSE error[i]]
    /\ wave' = [i \in Ids |-> IF i \in ready
                               THEN [launch |-> "queued", pid |-> NoPid]
                               ELSE wave[i]]
    /\ stage' = "launch"
    /\ UNCHANGED <<disk, entry, plan, seen, dir, running, listeners, procs,
                   kind, queue, fresh, wasActive, todo, draining, left>>

\* Mutant: one wave, and the operation ends.
OneWave ==
    /\ Pushed
    /\ stage' = "idle"
    /\ queue' = {}
    /\ UNCHANGED <<disk, slots, listeners, procs, kind, fresh, wasActive,
                   todo, draining, wave, left>>

\* Nothing is ready: the operation ends, or replaces the next of its queue.
NothingReady ==
    LET rest == {i \in queue : ~IsFirst(i, queue)} IN
    /\ Pushed
    /\ \A i \in Ids : ~Ready(i)
    /\ IF kind = "replace" /\ rest # {}
       THEN stage' = "plan" /\ queue' = rest
       ELSE stage' = "idle" /\ queue' = {}
    /\ UNCHANGED <<disk, slots, listeners, procs, kind, fresh, wasActive,
                   todo, draining, wave, left>>

\* A pid is free once its monitor has ended and nothing holds its handle.
FreePids ==
    {p \in Pids : /\ proc[p].phase = "done"
                  /\ \A i \in Ids : p \notin {running[i], draining[i],
                                                wave[i].pid}}

\* The socket file left at the path is removed and the node is spawned.
Spawn(i) ==
    /\ wave[i].launch = "queued"
    /\ \E p \in FreePids :
       /\ IsFirst(p, FreePids)
       /\ proc' = [proc EXCEPT ![p] = [id |-> i, gen |-> gen[i],
                                       phase |-> "booting"]]
       /\ wave' = [wave EXCEPT ![i] = [launch |-> "booting", pid |-> p]]
       /\ late' = [late EXCEPT ![p] = {}]
       /\ slow' = slow \ {p}
    /\ sock' = [sock EXCEPT ![i] = NoPid]
    /\ UNCHANGED <<disk, slots, listeners, held, kind, stage, queue, fresh,
                   wasActive, todo, draining, left>>

\* The node binds its socket, the base connects, applies the directory the
\* wave began with, and leaves a monitor with the process.
Applied(i) ==
    LET p == wave[i].pid IN
    /\ wave[i].launch = "booting"
    /\ proc' = [proc EXCEPT ![p].phase = "up"]
    /\ held' = [held EXCEPT ![p] = dir[i]]
    /\ sock' = [sock EXCEPT ![i] = p]
    /\ wave' = [wave EXCEPT ![i].launch = "ok"]
    /\ UNCHANGED <<disk, slots, listeners, late, slow, kind, stage, queue, fresh,
                   wasActive, todo, draining, left>>

\* Mutant: a node that took too long is not killed.
LaunchLeaks(i) ==
    /\ wave[i].launch \in {"queued", "booting"}
    /\ wave' = [wave EXCEPT ![i] = [launch |-> "err", pid |-> NoPid]]
    /\ UNCHANGED <<disk, slots, listeners, procs, kind, stage, queue, fresh,
                   wasActive, todo, draining, left>>

\* It cannot be spawned, exits before it serves, refuses its config, or
\* takes longer than the startup timeout: whatever was started is killed.
LaunchFails(i) ==
    LET p == wave[i].pid IN
    /\ wave[i].launch \in {"queued", "booting"}
    /\ proc' = IF p = NoPid THEN proc
               ELSE [proc EXCEPT ![p].phase = "done"]
    /\ wave' = [wave EXCEPT ![i] = [launch |-> "err", pid |-> NoPid]]
    /\ UNCHANGED <<disk, slots, listeners, told, sock, kind, stage, queue,
                   fresh, wasActive, todo, draining, left>>

\* Every launch of the wave has ended: its outcomes are recorded together.
\* The generations cannot have moved, the op lock is held throughout.
WaveDone ==
    /\ stage = "launch"
    /\ \A i \in Ids : wave[i].launch \notin {"queued", "booting"}
    /\ running' = [i \in Ids |-> IF wave[i].launch = "ok"
                                  THEN wave[i].pid ELSE running[i]]
    /\ state' = [i \in Ids |-> CASE wave[i].launch = "ok" -> "active"
                                 [] wave[i].launch = "err" -> "failed"
                                 [] OTHER -> state[i]]
    /\ error' = [i \in Ids |-> IF wave[i].launch = "err" THEN "launch"
                                                        ELSE error[i]]
    /\ wave' = [i \in Ids |-> [launch |-> "no", pid |-> NoPid]]
    /\ stage' = "push"
    /\ UNCHANGED <<disk, entry, plan, seen, dir, gen, listeners, procs, kind,
                   queue, fresh, wasActive, todo, draining, left>>

-----------------------------------------------------------------------------
\* What happens on its own.

\* A serving node exits.
Exit(p) ==
    /\ left.crashes > 0
    /\ left' = [left EXCEPT !.crashes = @ - 1]
    /\ proc[p].phase = "up"
    /\ proc' = [proc EXCEPT ![p].phase = "gone"]
    /\ sock' = [i \in Ids |-> IF sock[i] = p THEN NoPid ELSE sock[i]]
    /\ UNCHANGED <<disk, slots, listeners, told, operation>>

\* Mutant: the exit is heeded for the generation before.
HeededLate(i, p) == gen[i] = proc[p].gen + 1 /\ state[i] = "active"

\* exited looks for the slot of that id and generation, while it is active.
Heeded(i, p) == gen[i] = proc[p].gen /\ state[i] = "active"

\* Its monitor tells the host (Host::exited).
Report(p) ==
    LET i == proc[p].id IN
    /\ proc[p].phase = "gone"
    /\ proc' = [proc EXCEPT ![p].phase = "reaped"]
    /\ IF Heeded(i, p)
       THEN /\ running' = [running EXCEPT ![i] = NoPid]
            /\ state' = [state EXCEPT ![i] = "failed"]
            /\ error' = [error EXCEPT ![i] = "exit"]
       ELSE UNCHANGED <<running, state, error>>
    /\ UNCHANGED <<disk, entry, plan, seen, dir, gen, listeners, told, sock,
                   operation, left>>

\* The last step of a monitor: remove the socket file, whoever serves it.
Unlink(p) ==
    /\ proc[p].phase = "reaped"
    /\ proc' = [proc EXCEPT ![p].phase = "done"]
    /\ sock' = [sock EXCEPT ![proc[p].id] = NoPid]
    /\ UNCHANGED <<disk, slots, listeners, told, operation, left>>

\* Somebody edits a manifest, two of them together, or the composition.
Edit(i) ==
    /\ left.edits > 0
    /\ left' = [left EXCEPT !.edits = @ - 1]
    /\ \/ \E j \in Ids : \E m \in Manifests[i], n \in Manifests[j] :
             disk' = [disk EXCEPT ![i].manifest = m, ![j].manifest = n]
       \/ \E e \in Entries : disk' = [disk EXCEPT ![i].entry = e]
    /\ disk' # disk
    /\ UNCHANGED <<slots, listeners, procs, operation>>

-----------------------------------------------------------------------------
\* The step of whoever holds the op lock.
HostStep ==
    \/ \E i \in Ids : PlanNext(i) \/ InstallPlan(i) \/ Push(i)
    \/ \E i \in Ids : StopTake(i) \/ NodeStopped(i) \/ StopDone(i)
    \/ \E i \in Ids : Spawn(i) \/ Applied(i) \/ LaunchFails(i)
    \/ RebuildSlots \/ FinishStop \/ Rewire
    \/ StartWave \/ NothingReady \/ WaveDone

MonitorStep == \E p \in Pids : Report(p) \/ Unlink(p)

NodeStep == \E p \in Pids : TakeLate(p)

Environment ==
    \/ Reconcile \/ ReplaceChanged \/ Stop
    \/ \E i \in Ids : Replace(i) \/ Edit(i)
    \/ \E p \in Pids : Exit(p)

Next == HostStep \/ MonitorStep \/ NodeStep \/ Environment

Spec == Init /\ [][Next]_vars

\* The runtime keeps polling the task that holds the lock, whose waits all
\* have deadlines (startup, shutdown and push timeouts), and the monitors.
Fairness == WF_vars(HostStep) /\ WF_vars(MonitorStep)

FairSpec == Spec /\ Fairness

-----------------------------------------------------------------------------
\* Properties.

TypeOK ==
    /\ disk \in [Ids -> [entry: Entries, manifest: Manifest \cup {Broken}]]
    /\ entry \in [Ids -> Entries]
    /\ plan \in [Ids -> Plan \cup {NoPlan}]
    /\ state \in [Ids -> States]
    /\ error \in [Ids -> Errors]
    /\ seen \in [Ids -> Manifest \cup {Broken}]
    /\ gen \in [Ids -> Nat]
    /\ running \in [Ids -> Pids \cup {NoPid}]
    /\ listeners \in [Events -> SUBSET Everyone]
    /\ proc \in [Pids -> [id: Everyone, gen: Nat, phase: Phases]]
    /\ sock \in [Ids -> Pids \cup {NoPid}]
    /\ kind \in Kinds
    /\ stage \in Stages
    /\ queue \in SUBSET Ids
    /\ fresh \in [Ids -> [entry: Entries, plan: Plan \cup {NoPlan}]]
    /\ wasActive \in BOOLEAN
    /\ todo \in SUBSET Ids
    /\ draining \in [Ids -> Pids \cup {NoPid}]
    /\ wave \in [Ids -> [launch: Launches, pid: Pids \cup {NoPid}]]
    /\ left \in [ops: Nat, edits: Nat, crashes: Nat, late: Nat]

Live(p) == proc[p].phase \in {"booting", "up"}

\* The host holds process p for cartridge i: running, being stopped, or
\* being launched.
Holds(i, p) == p \in {running[i], draining[i], wave[i].pid}

\* Every node process that runs is held by the host, under the cartridge it
\* was started for: nothing runs on unknown to the host, however reloads,
\* failed launches and exits interleave (launch, stop_slot, exited).
NoOrphanNode ==
    \A p \in Pids : Live(p) => proc[p].id # HOST /\ Holds(proc[p].id, p)

\* No cartridge runs twice: a replaced node is gone before its successor is
\* spawned, on the same socket path.
OneNodePerCartridge ==
    \A p, q \in Pids :
        Live(p) /\ Live(q) /\ proc[p].id = proc[q].id => p = q

\* Once stop has returned, no node runs until the next operation.
StopStopsAll ==
    stage = "idle" /\ kind = "stop" => \A p \in Pids : ~Live(p)

\* Between operations no slot is left half started or half stopped.
NothingHalfDone ==
    stage = "idle" =>
        /\ \A i \in Ids : /\ state[i] \notin {"starting", "stopping"}
                          /\ draining[i] = NoPid
                          /\ wave[i].launch = "no"
        /\ todo = {}

\* What `status' shows fits together: a slot has a node exactly while it is
\* active, an error exactly while it is failed, and nothing is half done when
\* an operation is over.
StatusCoherent ==
    /\ NothingHalfDone
    /\ \A i \in Ids : /\ state[i] = "active" <=> running[i] # NoPid
                      /\ state[i] = "failed" <=> error[i] # "none"

\* No operation ends while a waiting cartridge has everything it waits for
\* (start_ready goes on until a wave is empty).  Only stop leaves such slots.
Settled ==
    stage = "idle" /\ kind # "stop" =>
        \A i \in Ids :
            state[i] = "waiting" =>
                \E e \in Required(plan[i]) :
                    \A j \in Active \ {HOST} : e \notin plan[j].listen

\* Between two active cartridges, the sender's directory has a listener
\* exactly for the events the listener's directory accepts from it, at every
\* moment, in the middle of an operation too.
EdgesAgree ==
    \A s, l \in Active \ {HOST}, e \in Events :
        <<e, l>> \in dir[s].routes <=> <<s, e>> \in dir[l].accept

\* Between operations no edge between active cartridges is missing: who may
\* send a declared event has a route to everyone active that listens to it.
EdgesComplete ==
    stage = "idle" =>
        \A s, l \in Active \ {HOST}, e \in Events :
            /\ e \in Sends(plan[s])
            /\ e \in plan[l].listen
            /\ \E d \in Active : e \in PlansOf(Active)[d].events
            => <<e, l>> \in dir[s].routes

\* A serving node works with the directory the host computed for it, unless
\* it is about to be told, or once did not take one in time (then nothing
\* tells it again until its directory changes, and an older one may come
\* after a newer).
DirectoryDelivered ==
    \A i \in Ids :
        /\ running[i] # NoPid
        /\ proc[running[i]].phase = "up"
        /\ running[i] \notin slow
        => held[running[i]] = dir[i] \/ (stage = "push" /\ i \in todo)

\* A serving node stays reachable at its socket path until it goes itself:
\* no launch and no stop removes it, only the monitor of a predecessor that
\* exited, which removes the path last (process.rs).
SocketKept ==
    [][\A i \in Ids :
          sock[i] # NoPid /\ sock'[i] # sock[i] =>
              \/ proc'[sock[i]].phase # "up"
              \/ \E p \in Pids : proc[p].id = i /\ Unlink(p)]_vars

\* Why the node of slot i may be taken from it.
Cause(i) ==
    \/ proc[running[i]].phase = "gone"
    \/ kind = "stop"
    \/ kind = "replace" /\ i \in queue
    \/ kind = "reconcile" /\ (\/ fresh[i].plan = NoPlan
                              \/ fresh[i].entry # entry[i])

TakenForCause ==
    \A i \in Ids : running[i] # NoPid /\ running'[i] = NoPid => Cause(i)

\* A node that serves is taken from its slot only for a reason of its own:
\* the host stops, it is the one being replaced, or reconcile found its
\* entry changed or unplannable.  Reloads leave the others running.
StoppedForCause == [][TakenForCause]_vars

\* Every operation ends and frees the op lock.
OperationEnds == stage # "idle" ~> stage = "idle"

\* A cartridge whose node exits while it is active does not stay active on it.
ExitNoticed ==
    \A p \in Pids :
        (proc[p].phase = "gone" /\ \E i \in Ids : running[i] = p)
            ~> ~(\E i \in Ids : running[i] = p)

-----------------------------------------------------------------------------
\* What the documents say and the code does not keep.

\* "One owner per event": no two active cartridges declare the same one.
OneOwnerPerEvent ==
    stage = "idle" =>
        \A i, j \in Active \ {HOST} :
            i # j => plan[i].events \cap plan[j].events = {}

\* A cartridge whose node "exited on its own" is failed: an active slot has
\* a process that serves, or one whose exit is about to be reported.
ActiveHasNode ==
    \A i \in Ids :
        state[i] = "active" => proc[running[i]].phase \in {"up", "gone"}

\* "A changed source restarts its node": a source that no longer counts as
\* changed is the one the plan was read from.
EditNotLost ==
    \A i \in Ids :
        /\ stage = "idle"
        /\ Enabled(entry[i])
        /\ plan[i] # NoPlan
        /\ state[i] = "active"
        /\ seen[i] = disk[i].manifest
        => /\ disk[i].manifest # Broken
           /\ plan[i].build = disk[i].manifest.build
           /\ plan[i].events = disk[i].manifest.events

-----------------------------------------------------------------------------
\* How the steps of the host's operations fit together.  With TypeOK this is
\* inductive, and the safety of the nodes follows from it.

\* What each stage leaves empty, and what is still to be stopped.
StageInv ==
    /\ stage # "launch" => \A i \in Ids : wave[i].launch = "no"
    /\ stage # "stop" => \A i \in Ids : /\ draining[i] = NoPid
                                        /\ state[i] # "stopping"
    /\ stage \notin {"stop", "push"} => todo = {}
    /\ stage = "plan" => kind = "replace"
    /\ stage # "idle" => stage = "stop" \/ kind # "stop"
    /\ stage = "stop" => \A i \in todo : draining[i] = NoPid
    /\ stage = "stop" /\ kind = "replace" =>
          \A i \in Ids :
              /\ i \in todo \/ state[i] = "stopping" => IsFirst(i, queue)
              /\ IsFirst(i, queue) /\ running[i] # NoPid => i \in todo
    /\ stage = "stop" /\ kind = "reconcile" =>
          \A i \in Ids : running[i] # NoPid /\ i \notin todo =>
                             fresh[i].plan # NoPlan
    /\ stage \in {"stop", "idle"} /\ kind = "stop" =>
          \A i \in Ids : running[i] # NoPid => stage = "stop" /\ i \in todo

\* The state of a slot says in which of three places its process may be, and
\* a failed slot is one with an error.
SlotInv ==
    \A i \in Ids :
        /\ state[i] = "active" <=> running[i] # NoPid
        /\ state[i] = "starting" <=> wave[i].launch # "no"
        /\ draining[i] # NoPid => state[i] = "stopping"
        /\ wave[i].launch \in {"booting", "ok"} <=> wave[i].pid # NoPid
        /\ state[i] = "failed" <=> error[i] # "none"

\* A process held for a cartridge was started for it, and one being launched
\* is booting until it is applied.
HeldInv ==
    \A i \in Ids :
        /\ running[i] # NoPid => /\ proc[running[i]].id = i
                                 /\ proc[running[i]].phase # "booting"
        /\ draining[i] # NoPid => /\ proc[draining[i]].id = i
                                  /\ proc[draining[i]].phase # "booting"
        /\ wave[i].pid # NoPid =>
              /\ proc[wave[i].pid].id = i
              /\ proc[wave[i].pid].phase = "booting" <=> wave[i].launch = "booting"

\* A process is held from its spawn until its exit was reported or it was
\* stopped, so an exit is never reported to a slot that runs another one.
ProcInv ==
    \A p \in Pids :
        /\ proc[p].phase # "done" => proc[p].id \in Ids
        /\ proc[p].phase \in {"booting", "up", "gone"} => Holds(proc[p].id, p)

IInv == StageInv /\ SlotInv /\ HeldInv /\ ProcInv
=============================================================================
