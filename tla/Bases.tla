------------------------------- MODULE Bases -------------------------------
(***************************************************************************)
(* The bases of one project and the name they serve it under               *)
(* (src/src/host/socket.rs, mod.rs, cli/host.rs, transport/typed.rs).      *)
(* Each base is a process that runs once: it looks for a base that serves, *)
(* binds the name or takes it over, composes, serves and stops; at any     *)
(* point it may be killed.  The name is a socket file in the project's run *)
(* directory, and `cartridge sweep' collects what killed bases left there. *)
(*                                                                         *)
(* A socket file is named by the base that bound it and recognised by its  *)
(* inode, which the file system may hand out again once the file is gone   *)
(* and the socket closed.                                                  *)
(***************************************************************************)
EXTENDS Naturals, FiniteSets

CONSTANTS
    Base,        \* the processes
    Replacing,   \* those started with --replace
    NoBase,      \* no file at the name, or nobody found
    Inodes,      \* of the file system
    NoInode,
    \* bounds of a run: stops asked for and profiles broken, kills, deadlines
    \* passed, sweeps
    MaxStops, MaxKills, MaxDeadlines, MaxSweeps

ASSUME BaseAssumption == NoBase \notin Base /\ Replacing \subseteq Base
ASSUME InodesAssumption ==
    /\ NoInode \notin Inodes
    /\ IsFiniteSet(Inodes) /\ IsFiniteSet(Base)
    /\ Cardinality(Inodes) >= Cardinality(Base)   \* a bind always finds one
ASSUME BaseBoundsAssumption ==
    {MaxStops, MaxKills, MaxDeadlines, MaxSweeps} \subseteq Nat

VARIABLES
    at,         \* where the main task of a base is
    found,      \* the base it found serving when it looked
    stop,       \* bases asked to stop
    accepting,  \* the accept task of a base, which owns its listener
    ino,        \* inode of the socket file a base bound
    published,  \* inode a base believes it published
    name,       \* whose socket file host.sock is
    staged,     \* bases whose host.sock.<pid> exists
    run,        \* whether the run directory exists
    dirs,       \* bases whose <run>/<pid> exists
    sweeper,    \* cartridge sweep: idle, or about to remove the run directory
    lost,       \* listening bases whose name another one took away
    left        \* what remains of the bounds

files == <<ino, name, staged, run, dirs>>
vars == <<at, found, stop, accepting, published, files, sweeper, lost, left>>

Init ==
    /\ at = [b \in Base |-> "off"]
    /\ found = [b \in Base |-> NoBase]
    /\ stop = {}
    /\ accepting = [b \in Base |-> "no"]
    /\ ino = [b \in Base |-> NoInode]
    /\ published = [b \in Base |-> NoInode]
    /\ name = NoBase
    /\ staged = {}
    /\ run = FALSE
    /\ dirs = {}
    /\ sweeper = "idle"
    /\ lost = {}
    /\ left = [stops |-> MaxStops, kills |-> MaxKills,
               deadlines |-> MaxDeadlines, sweeps |-> MaxSweeps]

-----------------------------------------------------------------------------
Alive(b) == at[b] \notin {"off", "dead"}

\* A base holds its listener from the bind until its accept task dropped it,
\* and all that time the kernel lets clients connect.
Listening(b) == \/ at[b] \in {"staged", "waiting", "bound"}
                \/ accepting[b] \in {"yes", "unlinking"}

Answers(b) == b # NoBase /\ Listening(b)

\* takeover_pending: a live base has its socket staged beside the name.
Pending == \E b \in staged : Alive(b) /\ Listening(b)

\* The inodes of the files there are and of the sockets still open.
InUse(n, S) == {ino[b] : b \in S \cup ({n} \ {NoBase})
                                 \cup {c \in Base : Listening(c)}}

\* sweep, under the lock on the names: socket files nobody answers on.
Swept(n) == IF Answers(n) THEN n ELSE NoBase
SweptStaged == {b \in staged : Listening(b)}
SweptDirs == {b \in dirs : Alive(b)}

-----------------------------------------------------------------------------
\* A base starts.

\* served: whoever accepts at the name.  An accept task that just ended
\* fails the connection, and the command with it.
Look(b) ==
    /\ at[b] = "off"
    /\ Answers(name) => accepting[name] # "no"
    /\ found' = [found EXCEPT ![b] = IF Answers(name) THEN name ELSE NoBase]
    /\ at' = [at EXCEPT ![b] = IF Answers(name) /\ accepting[name] # "yes"
                               THEN "dead" ELSE "looked"]
    /\ run' = TRUE
    /\ UNCHANGED <<stop, accepting, ino, published, name, staged, dirs,
                   sweeper, lost, left>>

\* Host::new, unless a base serves or is about to and this one was not told
\* to replace it: sweep the run directory, make <run>/<pid>.
Refuses(b) == b \notin Replacing /\ (found[b] # NoBase \/ Pending)

Make(b) ==
    /\ at[b] = "looked"
    /\ IF Refuses(b)
       THEN /\ at' = [at EXCEPT ![b] = "dead"]
            /\ UNCHANGED <<name, staged, run, dirs>>
       ELSE /\ at' = [at EXCEPT ![b] = "made"]
            /\ name' = Swept(name)
            /\ staged' = SweptStaged
            /\ dirs' = SweptDirs \cup {b}
            /\ run' = TRUE
    /\ UNCHANGED <<found, stop, accepting, ino, published, sweeper, lost,
                   left>>

Bound(b, n, S) ==
    \E i \in Inodes \ InUse(n, S) : ino' = [ino EXCEPT ![b] = i]

\* Mutant: the file at the name is taken for a stale one, as without the
\* lock, which keeps others out between its bind and its listen.
ListenAnyway(b) ==
    /\ at[b] = "made"
    /\ found[b] = NoBase
    /\ IF run
       THEN /\ Bound(b, NoBase, staged)
            /\ name' = b
            /\ at' = [at EXCEPT ![b] = "bound"]
       ELSE /\ at' = [at EXCEPT ![b] = "leaving"]
            /\ UNCHANGED <<ino, name>>
    /\ UNCHANGED <<found, stop, accepting, published, staged, run, dirs,
                   sweeper, lost, left>>

\* listen, under the lock on the names: a name that answers is refused, a
\* file that does not is replaced.
Listen(b) ==
    /\ at[b] = "made"
    /\ found[b] = NoBase
    /\ IF run /\ ~Answers(name)
       THEN /\ Bound(b, NoBase, staged)
            /\ name' = b
            /\ at' = [at EXCEPT ![b] = "bound"]
       ELSE /\ at' = [at EXCEPT ![b] = "leaving"]
            /\ UNCHANGED <<ino, name>>
    /\ UNCHANGED <<found, stop, accepting, published, staged, run, dirs,
                   sweeper, lost, left>>

-----------------------------------------------------------------------------
\* takeover.

\* The new base binds beside the name and takes the old one's pid.
Stage(b) ==
    /\ at[b] = "made"
    /\ found[b] # NoBase
    /\ IF run
       THEN /\ Bound(b, name, staged)
            /\ staged' = staged \cup {b}
            /\ at' = [at EXCEPT ![b] = "staged"]
       ELSE /\ at' = [at EXCEPT ![b] = "leaving"]
            /\ UNCHANGED <<ino, staged>>
    /\ UNCHANGED <<found, stop, accepting, published, name, run, dirs,
                   sweeper, lost, left>>

\* The profile cannot be read: the old one is left alone.
FrontsFail(b) ==
    /\ at[b] = "made"
    /\ found[b] # NoBase
    /\ at' = [at EXCEPT ![b] = "leaving"]
    /\ UNCHANGED <<found, stop, accepting, published, files, sweeper, lost,
                   left>>

\* It asks the old one to stop, if there still is one to ask.
AskStop(b) ==
    /\ at[b] = "staged"
    /\ stop' = IF Alive(found[b]) THEN stop \cup {found[b]} ELSE stop
    /\ at' = [at EXCEPT ![b] = "waiting"]
    /\ UNCHANGED <<found, accepting, published, files, sweeper, lost, left>>

\* It renames its socket over the name, whoever holds it.
Rename(b) ==
    /\ IF b \in staged
       THEN /\ name' = b
            /\ staged' = staged \ {b}
            /\ at' = [at EXCEPT ![b] = "bound"]
            /\ lost' = IF Answers(name) THEN lost \cup {name} ELSE lost
       ELSE /\ at' = [at EXCEPT ![b] = "leaving"]
            /\ UNCHANGED <<name, staged, lost>>
    /\ UNCHANGED <<found, stop, accepting, ino, published, run, dirs, sweeper>>

\* Mutant: as the document has it, without waiting for the old one to go.
TakeNameAtOnce(b) ==
    /\ at[b] = "waiting"
    /\ Rename(b)
    /\ UNCHANGED left

\* The old process has gone.
TakeName(b) ==
    /\ at[b] = "waiting"
    /\ ~Alive(found[b])
    /\ Rename(b)
    /\ UNCHANGED left

\* It has not within twice the shutdown timeout: no matter.
TakeNameAnyway(b) ==
    /\ at[b] = "waiting"
    /\ Alive(found[b])
    /\ left.deadlines > 0
    /\ left' = [left EXCEPT !.deadlines = @ - 1]
    /\ Rename(b)

-----------------------------------------------------------------------------
\* Serving.

\* publish_listener: remember the file at the name, start to accept.  Then
\* the composition is started.
Publish(b) ==
    /\ at[b] = "bound"
    /\ published' = [published EXCEPT ![b] = IF name = NoBase
                                            THEN NoInode ELSE ino[name]]
    /\ accepting' = [accepting EXCEPT ![b] = "yes"]
    /\ at' = [at EXCEPT ![b] = "composing"]
    /\ UNCHANGED <<found, stop, files, sweeper, lost, left>>

Composed(b) ==
    /\ at[b] = "composing"
    /\ at' = [at EXCEPT ![b] = "serving"]
    /\ UNCHANGED <<found, stop, accepting, published, files, sweeper, lost,
                   left>>

\* The profile was broken since takeover read it: the new base stops as well.
\* A base that started by itself would go on without nodes.
ComposeFails(b) ==
    /\ at[b] = "composing"
    /\ found[b] # NoBase
    /\ left.stops > 0
    /\ left' = [left EXCEPT !.stops = @ - 1]
    /\ at' = [at EXCEPT ![b] = "stopping"]
    /\ UNCHANGED <<found, stop, accepting, published, files, sweeper, lost>>

\* `cartridge stop', a signal, no client for the idle timeout, or the
\* project's directory is gone.
StopAsked(b) ==
    /\ accepting[b] = "yes"
    /\ b \notin stop
    /\ left.stops > 0
    /\ left' = [left EXCEPT !.stops = @ - 1]
    /\ stop' = stop \cup {b}
    /\ UNCHANGED <<at, found, accepting, published, files, sweeper, lost>>

\* The file at the name has the inode i.
IsAt(i) == name # NoBase /\ ino[name] = i

\* Whoever removes the name takes it from whoever listens there.
NameRemovedBy(b) ==
    /\ name' = NoBase
    /\ lost' = IF name # b /\ Answers(name) THEN lost \cup {name} ELSE lost

\* The accept task ends at once, or with the process, and drops the listener,
\* which looks whether the file at the name is its own,
AcceptEnds(b) ==
    /\ accepting[b] = "yes"
    /\ b \in stop \/ at[b] = "leaving"
    /\ accepting' = [accepting EXCEPT ![b] = IF IsAt(ino[b]) THEN "unlinking"
                                             ELSE "ended"]
    /\ UNCHANGED <<at, found, stop, published, files, sweeper, lost, left>>

\* and removes it by its name, before the socket closes.
AcceptUnlinks(b) ==
    /\ accepting[b] = "unlinking"
    /\ accepting' = [accepting EXCEPT ![b] = "ended"]
    /\ NameRemovedBy(b)
    /\ UNCHANGED <<at, found, stop, ino, published, staged, run, dirs,
                   sweeper, left>>

\* The main task stops the nodes,
StopNodes(b) ==
    /\ at[b] = "serving"
    /\ b \in stop
    /\ at' = [at EXCEPT ![b] = "stopping"]
    /\ UNCHANGED <<found, stop, accepting, published, files, sweeper, lost,
                   left>>

\* then, in unpublish, looks whether the name is the file it published
Unpublish(b) ==
    /\ at[b] = "stopping"
    /\ at' = [at EXCEPT ![b] = IF published[b] # NoInode /\ IsAt(published[b])
                               THEN "unpublishing" ELSE "leaving"]
    /\ UNCHANGED <<found, stop, accepting, published, files, sweeper, lost,
                   left>>

\* and removes it.
RemoveName(b) ==
    /\ at[b] = "unpublishing"
    /\ at' = [at EXCEPT ![b] = "leaving"]
    /\ NameRemovedBy(b)
    /\ UNCHANGED <<found, stop, accepting, ino, published, staged, run, dirs,
                   sweeper, left>>

\* Mutant: a base that published nothing removes the name as any other.
LeaveUnlinks(b) ==
    /\ at[b] = "leaving"
    /\ accepting[b] \in {"no", "ended"}
    /\ at' = [at EXCEPT ![b] = "dead"]
    /\ dirs' = dirs \ {b}
    /\ name' = IF published[b] = NoInode THEN NoBase ELSE name
    /\ UNCHANGED <<found, stop, accepting, ino, published, staged, run,
                   sweeper, lost, left>>

\* The process ends, after its accept task.
Leave(b) ==
    /\ at[b] = "leaving"
    /\ accepting[b] \in {"no", "ended"}
    /\ at' = [at EXCEPT ![b] = "dead"]
    /\ dirs' = dirs \ {b}
    /\ UNCHANGED <<found, stop, accepting, ino, published, name, staged, run,
                   sweeper, lost, left>>

Kill(b) ==
    /\ Alive(b)
    /\ left.kills > 0
    /\ left' = [left EXCEPT !.kills = @ - 1]
    /\ at' = [at EXCEPT ![b] = "dead"]
    /\ accepting' = [accepting EXCEPT ![b] = "ended"]
    /\ UNCHANGED <<found, stop, published, files, sweeper, lost>>

-----------------------------------------------------------------------------
\* `cartridge sweep', over this project's run directory.

\* sweep, then run_alive: nobody answers at the name, no live pid has a
\* directory.
Sweep ==
    /\ sweeper = "idle"
    /\ run
    /\ left.sweeps > 0
    /\ left' = [left EXCEPT !.sweeps = @ - 1]
    /\ name' = Swept(name)
    /\ staged' = SweptStaged
    /\ dirs' = SweptDirs
    /\ sweeper' = IF Answers(name) \/ SweptDirs # {} THEN "idle" ELSE "removing"
    /\ UNCHANGED <<at, found, stop, accepting, ino, published, run, lost>>

\* The run directory is removed with all that is in it by now: no lock is
\* held since the look.
RemoveRun ==
    /\ sweeper = "removing"
    /\ sweeper' = "idle"
    /\ run' = FALSE
    /\ name' = NoBase
    /\ staged' = {}
    /\ dirs' = {}
    /\ lost' = lost \cup {b \in Base : Listening(b)}
    /\ UNCHANGED <<at, found, stop, accepting, ino, published, left>>

-----------------------------------------------------------------------------
Starts(b) == Look(b) \/ Make(b) \/ Listen(b)
Replaces(b) == \/ Stage(b) \/ FrontsFail(b) \/ AskStop(b)
               \/ TakeName(b) \/ TakeNameAnyway(b)
Serves(b) == Publish(b) \/ Composed(b) \/ ComposeFails(b)
Ends(b) == \/ AcceptEnds(b) \/ AcceptUnlinks(b)
           \/ StopNodes(b) \/ Unpublish(b) \/ RemoveName(b) \/ Leave(b)

Next == \/ \E b \in Base : \/ Starts(b) \/ Replaces(b) \/ Serves(b) \/ Ends(b)
                           \/ StopAsked(b) \/ Kill(b)
        \/ Sweep \/ RemoveRun

Spec == Init /\ [][Next]_vars

-----------------------------------------------------------------------------
\* Properties.

Places == {"off", "looked", "made", "staged", "waiting", "bound", "composing",
           "serving", "stopping", "unpublishing", "leaving", "dead"}

TypeOK ==
    /\ at \in [Base -> Places]
    /\ found \in [Base -> Base \cup {NoBase}]
    /\ stop \in SUBSET Base
    /\ accepting \in [Base -> {"no", "yes", "unlinking", "ended"}]
    /\ ino \in [Base -> Inodes \cup {NoInode}]
    /\ published \in [Base -> Inodes \cup {NoInode}]
    /\ name \in Base \cup {NoBase}
    /\ staged \in SUBSET Base
    /\ \A b \in staged : at[b] \in {"staged", "waiting", "dead"}
    /\ run \in BOOLEAN
    /\ dirs \in SUBSET Base
    /\ sweeper \in {"idle", "removing"}
    /\ lost \in SUBSET Base
    /\ left \in [stops: Nat, kills: Nat, deadlines: Nat, sweeps: Nat]

\* A base has nodes.
HasNodes(b) == at[b] \in {"composing", "serving", "stopping"}

\* A base that serves holds the name, until it is asked to stop or another
\* takes the name away: of two bases that start together, one binds it and
\* the other is refused (listen, bind_unix, lock_names).
NameHeld ==
    \A b \in Base :
        at[b] \in {"bound", "composing", "serving"} /\ b \notin stop \cup lost
            => name = b

\* Nobody stopped or killed a base, broke the profile, swept, or waited in
\* vain.
Calm == left = [stops |-> MaxStops, kills |-> MaxKills,
                deadlines |-> MaxDeadlines, sweeps |-> MaxSweeps]

\* A replacement composes only when the base it replaces is gone with its
\* nodes, unless it stopped waiting for that.
ReplacedGone ==
    left.deadlines = MaxDeadlines =>
        \A b \in Base : HasNodes(b) /\ found[b] # NoBase => ~Alive(found[b])

\* When every base that was started has arrived somewhere, one of them serves
\* the project under its name: starts and replacements that meet do not
\* eliminate each other.
SomeoneServes ==
    /\ Calm
    /\ \A b \in Base : at[b] \in {"off", "serving", "dead"}
    /\ \E b \in Base : at[b] # "off"
    => \E b \in Base : at[b] = "serving" /\ b \notin stop /\ name = b

-----------------------------------------------------------------------------
\* What the documents and comments say and the code does not keep.

\* "A project is served by one base"; a second one composing beside it would
\* "mean two hosts holding one project's single-writer stores".
NeverBeside ==
    Calm => \A a, b \in Base : HasNodes(a) /\ HasNodes(b) => a = b

\* "A client connecting at any moment reaches a base whose cartridges are
\* active", through a replacement.
ReachedThroughout ==
    Calm /\ (\E b \in Base : at[b] \in {"waiting", "bound"})
        => Answers(name) /\ at[name] = "serving"
=============================================================================
