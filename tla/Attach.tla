------------------------------- MODULE Attach -------------------------------
(***************************************************************************)
(* A client that lives longer than the base it talks to: the bridge of     *)
(* `cartridge mcp` (src/src/cli/host.rs), which turns lines of its stdin   *)
(* into messages, finds or starts a base of the project, waits for its     *)
(* composition, sends a message once more when its connection closed, and  *)
(* writes the answers to its stdout; with the bases' side of it: clients   *)
(* joining and leaving (host/socket.rs connection, host/mod.rs             *)
(* client_joined, client_left) and the stop of a base nobody uses          *)
(* (stop_when_idle). How bases hand the name over is module Bases'; here a *)
(* base holds it or not.                                                   *)
(***************************************************************************)
EXTENDS Integers, Sequences, FiniteSets

CONSTANTS
    Bases,     \* processes that may serve the project, each of them at most once at
               \* a time: one that ended may stand for the next that starts
    First,     \* the one the bridge is attached to at first
    Conns,     \* bound on connections
    Lines,     \* of stdin
    Requests,  \* those of them that want an answer
    Room,      \* of the queue of replies (mcp_reply_queue)
    Faults,    \* bound on stops, crashes, replacements and starts by others of
               \* bases, and on connections that close under a live base
    None

ASSUME AttachAssumption ==
    /\ First \in Bases
    /\ Conns \in Nat \ {0} /\ Room \in Nat \ {0} /\ Faults \in Nat
    /\ Requests \subseteq Lines
    /\ None \notin Bases \cup Lines

VARIABLES
    \* the bases
    base,      \* none, starting, staged, up, ending
    holder,    \* the base that answers at the project's name, or None
    comp,      \* composition: starting, ready, failed (a file was not trusted)
    stamp,     \* idle_since: fresh, or old, a timeout ago
    watch,     \* stop_when_idle: no, or zero when it has read that no client is
               \* joined; raced when one has joined since, which it does not know
    \* connections, those of the bridge
    conn,      \* base, open as the bridge sees it, seat at the base
    \* the bridge
    attached,  \* Backend::attached
    lock,      \* the line that holds its lock across an attach, or None
    poll,      \* locals of that attach: spawned, reloaded, found
    stage,     \* of a line
    peer,      \* the connection it uses
    sends,     \* of a line: where its message was sent, and what became of it there
    replies,   \* the queue before the writer
    written,   \* stdout
    broken,    \* stdout takes no more
    bridge,    \* reading, done
    \* bounds, and what only the properties look at
    faults,
    rested     \* of a base: nobody was joined to it for a whole timeout

bases == <<base, holder, comp>>
idling == <<stamp, watch, rested>>
attaching == <<attached, lock, poll>>
lines == <<stage, peer, sends>>
output == <<replies, written, broken, bridge>>
vars == <<bases, idling, conn, attaching, lines, output, faults>>

Unused == [base |-> None, open |-> FALSE, seat |-> "no"]
Past == [base |-> First, open |-> FALSE, seat |-> "left"]
NoPoll == [spawned |-> FALSE, reloaded |-> FALSE, found |-> 0]

Init ==
    /\ base = [b \in Bases |-> IF b = First THEN "up" ELSE "none"]
    /\ holder = First
    /\ comp = [b \in Bases |-> IF b = First THEN "ready" ELSE "starting"]
    /\ stamp = [b \in Bases |-> "fresh"]
    /\ watch = [b \in Bases |-> "no"]
    /\ conn = [k \in 1..Conns |-> IF k = 1 THEN [base |-> First, open |-> TRUE, seat |-> "in"]
                                  ELSE Unused]
    /\ attached = 1
    /\ lock = None
    /\ poll = NoPoll
    /\ stage = [l \in Lines |-> "unread"]
    /\ peer = [l \in Lines |-> 0]
    /\ sends = [l \in Lines |-> <<>>]
    /\ replies = <<>>
    /\ written = <<>>
    /\ broken = FALSE
    /\ bridge = "reading"
    /\ faults = 0
    /\ rested = [b \in Bases |-> FALSE]

Of(b) == {k \in 1..Conns : conn[k].base = b}
Clients(b) == Cardinality({k \in Of(b) : conn[k].seat = "in"})
Staged == \E b \in Bases : base[b] = "staged"    \* takeover_pending
Serves(b) == base[b] \in {"up", "ending"}

-----------------------------------------------------------------------------
\* The bases.

\* Another command finds that none answers.
Other(b) ==
    /\ base[b] = "none"
    /\ holder = None
    /\ ~Staged
    /\ faults < Faults
    /\ faults' = faults + 1
    /\ base' = [base EXCEPT ![b] = "starting"]
    /\ UNCHANGED <<holder, comp, idling, conn, attaching, lines, output>>

\* daemon: with another one at the name, or about to be, it ends at once.
Listen(b) ==
    /\ base[b] = "starting"
    /\ IF holder = None /\ ~Staged
       THEN base' = [base EXCEPT ![b] = "up"] /\ holder' = b
       ELSE base' = [base EXCEPT ![b] = "none"] /\ UNCHANGED holder
    /\ UNCHANGED <<comp, idling, conn, attaching, lines, output, faults>>

\* reconcile: everything runs, or a cartridge was refused for trust.
Compose(b) ==
    /\ base[b] = "up"
    /\ comp[b] = "starting"
    /\ \E c \in {"ready", "failed"} : comp' = [comp EXCEPT ![b] = c]
    /\ UNCHANGED <<base, holder, idling, conn, attaching, lines, output, faults>>

\* connection: the client is told that it is in, then it is counted.
Join(k) ==
    /\ conn[k].seat = "new"
    /\ conn' = [conn EXCEPT ![k].seat = "in"]
    /\ rested' = [rested EXCEPT ![conn[k].base] = FALSE]
    /\ watch' = [watch EXCEPT ![conn[k].base] = IF @ = "zero" THEN "raced" ELSE @]
    /\ UNCHANGED <<bases, stamp, attaching, lines, output, faults>>

\* client_left: first the count,
Leave(k) ==
    /\ conn[k].seat = "in"
    /\ ~conn[k].open
    /\ conn' = [conn EXCEPT ![k].seat = "leaving"]
    /\ rested' = [rested EXCEPT ![conn[k].base] = FALSE]
    /\ UNCHANGED <<bases, stamp, watch, attaching, lines, output, faults>>

\* then the time.
Left(k) ==
    /\ conn[k].seat = "leaving"
    /\ conn' = [conn EXCEPT ![k] = Past]
    /\ stamp' = [stamp EXCEPT ![conn[k].base] = "fresh"]
    /\ UNCHANGED <<bases, watch, rested, attaching, lines, output, faults>>

\* The idle timeout passes.
Time(b) ==
    /\ base[b] = "up"
    /\ stamp[b] = "fresh" \/ (Clients(b) = 0 /\ ~rested[b])
    /\ stamp' = [stamp EXCEPT ![b] = "old"]
    /\ rested' = [rested EXCEPT ![b] = Clients(b) = 0]
    /\ UNCHANGED <<bases, watch, conn, attaching, lines, output, faults>>

\* Mutant: whoever is attached.
CountAny(b) ==
    /\ base[b] = "up"
    /\ comp[b] # "starting"
    /\ watch[b] = "no"
    /\ watch' = [watch EXCEPT ![b] = "zero"]
    /\ UNCHANGED <<bases, stamp, rested, conn, attaching, lines, output, faults>>

\* idle_for reads the count of clients,
Count(b) ==
    /\ base[b] = "up"
    /\ comp[b] # "starting"
    /\ watch[b] = "no"
    /\ Clients(b) = 0
    /\ watch' = [watch EXCEPT ![b] = "zero"]
    /\ UNCHANGED <<bases, stamp, rested, conn, attaching, lines, output, faults>>

\* A base that stops accepts no more; those connected stay until it has gone.
Ending(b) ==
    /\ base' = [base EXCEPT ![b] = "ending"]
    /\ holder' = IF holder = b THEN None ELSE holder
    /\ UNCHANGED comp

\* and then since when, and the base stops when that is long enough ago.
Idle(b) ==
    /\ base[b] = "up"
    /\ watch[b] # "no"
    /\ watch' = [watch EXCEPT ![b] = "no"]
    /\ IF stamp[b] = "old" THEN Ending(b) ELSE UNCHANGED bases
    /\ UNCHANGED <<stamp, rested, conn, attaching, lines, output, faults>>

\* The process ends, and with it its connections, its composition and its clock.
Closed(b) ==
    /\ base' = [base EXCEPT ![b] = "none"]
    /\ comp' = [comp EXCEPT ![b] = "starting"]
    /\ stamp' = [stamp EXCEPT ![b] = "fresh"]
    /\ watch' = [watch EXCEPT ![b] = "no"]
    /\ rested' = [rested EXCEPT ![b] = FALSE]
    /\ conn' = [k \in 1..Conns |-> IF conn[k].base = b
                                     THEN Past
                                     ELSE conn[k]]

Gone(b) ==
    /\ base[b] = "ending"
    /\ Closed(b)
    /\ UNCHANGED <<holder, attaching, lines, output, faults>>

\* `cartridge stop`, or a replacement that has staged its socket stops it.
Stop(b) ==
    /\ base[b] = "up"
    /\ IF Staged THEN UNCHANGED faults ELSE faults < Faults /\ faults' = faults + 1
    /\ Ending(b)
    /\ UNCHANGED <<idling, conn, attaching, lines, output>>

Crash(b) ==
    /\ Serves(b)
    /\ faults < Faults
    /\ faults' = faults + 1
    /\ holder' = IF holder = b THEN None ELSE holder
    /\ Closed(b)
    /\ UNCHANGED <<attaching, lines, output>>

\* takeover: its socket is bound beside the name, the old base is stopped
\* (Stop), and then it takes the name and composes.
Stage(b) ==
    /\ base[b] = "none"
    /\ holder # None
    /\ ~Staged
    /\ faults < Faults
    /\ faults' = faults + 1
    /\ base' = [base EXCEPT ![b] = "staged"]
    /\ UNCHANGED <<holder, comp, idling, conn, attaching, lines, output>>

TakeName(b) ==
    /\ base[b] = "staged"
    /\ holder = None
    /\ base' = [base EXCEPT ![b] = "up"]
    /\ holder' = b
    /\ UNCHANGED <<comp, idling, conn, attaching, lines, output, faults>>

Drop(k) ==
    /\ conn[k].open
    /\ faults < Faults
    /\ faults' = faults + 1
    /\ conn' = [conn EXCEPT ![k].open = FALSE]
    /\ UNCHANGED <<bases, idling, attaching, lines, output>>

-----------------------------------------------------------------------------
\* A message at its base.

Last(l) == sends[l][Len(sends[l])]
Becomes(l, s) == sends' = [sends EXCEPT ![l][Len(sends[l])].state = s]

\* answer: bail reaches the mcp node once it runs, and none before that or
\* while the nodes stop.
Deliver(l) ==
    /\ sends[l] # <<>>
    /\ Last(l).state = "sent"
    /\ LET k == Last(l).to
           b == conn[k].base
       IN /\ conn[k].seat = "in"
          /\ \/ comp[b] = "ready" /\ Becomes(l, "running")
             \/ (comp[b] # "ready" \/ base[b] = "ending") /\ Becomes(l, "refused")
    /\ UNCHANGED <<bases, idling, conn, attaching, stage, peer, output, faults>>

Finish(l) ==
    /\ sends[l] # <<>>
    /\ Last(l).state = "running"
    /\ LET b == conn[Last(l).to].base
       IN /\ Serves(b)
          /\ Becomes(l, "ran") \/ (base[b] = "ending" /\ Becomes(l, "refused"))
    /\ UNCHANGED <<bases, idling, conn, attaching, stage, peer, output, faults>>

-----------------------------------------------------------------------------
\* The bridge.

Read(l) ==
    /\ bridge = "reading"
    /\ stage[l] = "unread"
    /\ stage' = [stage EXCEPT ![l] = "read"]
    /\ UNCHANGED <<bases, idling, conn, attaching, peer, sends, output, faults>>

\* bail over connection k: nothing is sent over a closed one.
Bail(l, k, sent, lost) ==
    /\ peer' = [peer EXCEPT ![l] = k]
    /\ IF conn[k].open
       THEN /\ sends' = [sends EXCEPT ![l] = Append(@, [to |-> k, state |-> "sent"])]
            /\ stage' = [stage EXCEPT ![l] = sent]
       ELSE /\ stage' = [stage EXCEPT ![l] = lost]
            /\ UNCHANGED sends

\* mcp_bridge_reply: a notification is not answered.
Answered(l) == IF l \in Requests THEN "replying" ELSE "ended"

\* Backend::message waits for the lock, over the attach of another line.
Send(l) ==
    /\ stage[l] = "read"
    /\ lock = None
    /\ Bail(l, attached, "sent", "again")
    /\ UNCHANGED <<bases, idling, conn, attaching, output, faults>>

Ended(l, next) ==
    /\ Becomes(l, "over")
    /\ stage' = [stage EXCEPT ![l] = next]
    /\ UNCHANGED <<bases, idling, conn, attaching, peer, output, faults>>

Waits(l) == stage[l] \in {"sent", "resent"}

\* Mutant: every error is a reason to send again.
FailsAny(l) ==
    /\ Waits(l)
    /\ Last(l).state = "refused" \/ ~conn[peer[l]].open
    /\ Ended(l, IF stage[l] = "sent" THEN "again" ELSE Answered(l))

\* Mutant: the end of the connection does not end the call.
FailsRefused(l) ==
    /\ Waits(l)
    /\ Last(l).state = "refused"
    /\ Ended(l, IF stage[l] = "sent" /\ ~conn[peer[l]].open THEN "again" ELSE Answered(l))

\* The call returns an error, the base's or that its connection ended. If the
\* connection is closed by then, the first such error is not the answer yet.
Fails(l) ==
    /\ Waits(l)
    /\ Last(l).state = "refused" \/ ~conn[peer[l]].open
    /\ Ended(l, IF stage[l] = "sent" /\ ~conn[peer[l]].open THEN "again" ELSE Answered(l))

\* The call returns its value.
Returns(l) ==
    /\ Waits(l)
    /\ Last(l).state = "ran"
    /\ conn[peer[l]].open
    /\ Ended(l, Answered(l))

\* Another line may have attached meanwhile.
Again(l) ==
    /\ stage[l] = "again"
    /\ lock = None
    /\ IF conn[attached].open
       THEN /\ Bail(l, attached, "resent", Answered(l))
            /\ UNCHANGED attaching
       ELSE /\ lock' = l
            /\ stage' = [stage EXCEPT ![l] = "attaching"]
            /\ UNCHANGED <<attached, poll, peer, sends>>
    /\ UNCHANGED <<bases, idling, conn, output, faults>>

\* attach: a base answers.
Found(l) ==
    /\ stage[l] = "attaching"
    /\ holder # None
    /\ \E k \in 1..Conns :
          /\ conn[k].base = None
          /\ \A j \in 1..(k - 1) : conn[j].base # None
          /\ conn' = [conn EXCEPT ![k] = [base |-> holder, open |-> TRUE, seat |-> "new"]]
          /\ poll' = [poll EXCEPT !.found = k]
    /\ stage' = [stage EXCEPT ![l] = "settling"]
    /\ UNCHANGED <<bases, idling, attached, lock, peer, sends, output, faults>>

\* None does, and none is about to: after a grace one is started, once.
Start(l) ==
    /\ stage[l] = "attaching"
    /\ holder = None
    /\ ~poll.spawned
    /\ ~Staged
    /\ poll' = [poll EXCEPT !.spawned = TRUE]
    /\ \E b \in Bases : base[b] = "none" /\ base' = [base EXCEPT ![b] = "starting"]
    /\ UNCHANGED <<holder, comp, idling, conn, attached, lock, lines, output, faults>>

\* startup_timeout.
GiveUp(l) ==
    /\ stage[l] = "attaching"
    /\ lock' = None
    /\ poll' = NoPoll
    /\ stage' = [stage EXCEPT ![l] = Answered(l)]
    /\ UNCHANGED <<bases, idling, conn, attached, peer, sends, output, faults>>

\* settle_remote: a composition that was refused for trust is reloaded, once.
Reload(l) ==
    /\ stage[l] = "settling"
    /\ conn[poll.found].open
    /\ conn[poll.found].seat = "in"
    /\ ~poll.reloaded
    /\ LET b == conn[poll.found].base
       IN /\ comp[b] = "failed"
          /\ \E c \in {"ready", "failed"} : comp' = [comp EXCEPT ![b] = c]
    /\ poll' = [poll EXCEPT !.reloaded = TRUE]
    /\ UNCHANGED <<base, holder, idling, conn, attached, lock, lines, output, faults>>

\* It is settled, or still starting at the deadline, or the connection closed
\* again, which attach does not tell: the message is sent once more.
HandBack(l) ==
    /\ stage[l] = "settling"
    /\ LET k == poll.found
       IN /\ conn[k].open /\ comp[conn[k].base] = "failed" => poll.reloaded
          /\ attached' = k
          /\ Bail(l, k, "resent", Answered(l))
    /\ lock' = None
    /\ poll' = NoPoll
    /\ UNCHANGED <<bases, idling, conn, output, faults>>

Reply(l) ==
    /\ stage[l] = "replying"
    /\ broken \/ Len(replies) < Room
    /\ replies' = IF broken THEN replies ELSE Append(replies, l)
    /\ stage' = [stage EXCEPT ![l] = "ended"]
    /\ UNCHANGED <<bases, idling, conn, attaching, peer, sends, written, broken, bridge, faults>>

Write ==
    /\ replies # <<>>
    /\ replies' = Tail(replies)
    /\ written' = Append(written, Head(replies))
    /\ UNCHANGED <<bases, idling, conn, attaching, lines, broken, bridge, faults>>

\* The writer ends, and what is queued with it; the lines go on.
Break ==
    /\ ~broken
    /\ replies # <<>>
    /\ broken' = TRUE
    /\ replies' = <<>>
    /\ UNCHANGED <<bases, idling, conn, attaching, lines, written, bridge, faults>>

Leaves ==
    /\ bridge' = "done"
    /\ conn' = [k \in 1..Conns |-> [conn[k] EXCEPT !.open = FALSE]]
    /\ UNCHANGED <<bases, idling, attaching, lines, replies, written, broken, faults>>

\* Mutant: what is queued is written, what is still served is not awaited.
ExitAtOnce ==
    /\ bridge = "reading"
    /\ replies = <<>>
    /\ Leaves

\* stdio, after the end of stdin: every line is served and every reply written
\* before it exits.
Exit ==
    /\ bridge = "reading"
    /\ \A l \in Lines : stage[l] \in {"unread", "ended"}
    /\ replies = <<>>
    /\ Leaves

-----------------------------------------------------------------------------

BaseStep(b) ==
    \/ Listen(b) \/ Compose(b) \/ Gone(b) \/ TakeName(b) \/ Count(b) \/ Idle(b)

\* What a user, or time, does to a base.
Meddle(b) == Other(b) \/ Time(b) \/ Stop(b) \/ Crash(b) \/ Stage(b)

ConnStep(k) == Join(k) \/ Leave(k) \/ Left(k)

LineStep(l) ==
    \/ Send(l) \/ Fails(l) \/ Returns(l) \/ Again(l)
    \/ Found(l) \/ Start(l) \/ GiveUp(l) \/ Reload(l) \/ HandBack(l)
    \/ Reply(l)

Next ==
    \/ \E b \in Bases : BaseStep(b) \/ Meddle(b)
    \/ \E k \in 1..Conns : ConnStep(k) \/ Drop(k)
    \/ \E l \in Lines : Read(l) \/ Deliver(l) \/ Finish(l) \/ LineStep(l)
    \/ Write \/ Break \/ Exit

Spec == Init /\ [][Next]_vars

\* Tasks of a process that runs are scheduled, and every wait has its timeout:
\* the calls', the attach's, and that of the settling. A user need do nothing.
FairSpec ==
    /\ Spec
    /\ \A b \in Bases : WF_vars(Listen(b)) /\ WF_vars(Compose(b)) /\ WF_vars(Gone(b)) /\ WF_vars(TakeName(b))
    /\ \A k \in 1..Conns : WF_vars(ConnStep(k))
    /\ \A l \in Lines : WF_vars(Deliver(l)) /\ WF_vars(Finish(l)) /\ WF_vars(LineStep(l))
    /\ WF_vars(Write)

-----------------------------------------------------------------------------
\* Properties.

\* A message is sent twice at most, never twice over one connection, and the
\* second time only after the first connection closed: a base that answers
\* with an error is not asked again (Backend::message).
TwiceForCause ==
    \A l \in Lines :
        /\ Len(sends[l]) <= 2
        /\ Len(sends[l]) = 2 => /\ sends[l][1].to # sends[l][2].to
                                /\ ~conn[sends[l][1].to].open

\* Each request is answered once, whatever became of the bases meanwhile, and
\* the bridge exits only when all those it read are, unless nobody reads them
\* (stdio, mcp_bridge_reply).
AnsweredOnce ==
    /\ \A i, j \in 1..Len(written) : written[i] = written[j] => i = j
    /\ bridge = "done" /\ ~broken =>
           \A l \in Requests : stage[l] = "unread" \/ \E i \in 1..Len(written) : written[i] = l

IdleStop(b) == watch[b] # "no" /\ watch'[b] = "no" /\ base'[b] = "ending"

\* A base stops for want of clients only when it had none for the whole
\* timeout (idle_for), but for two races: a client that joins after the count
\* is read, and one that leaves, whose count is taken off before the time is set.
IdleForCause ==
    [][\A b \in Bases :
          IdleStop(b) =>
              \/ rested[b]
              \/ watch[b] = "raced"
              \/ \E k \in Of(b) : conn[k].seat = "leaving"]_vars

\* What idle_for promises without exception (src/src/host/mod.rs:213): how long
\* the base has served no client, and zero while one is attached.
IdleOnlyUnused ==
    [][\A b \in Bases :
          IdleStop(b) => rested[b]]_vars

\* Every line that is read is dealt with, whatever happens to the bases.
LinesEnd == \A l \in Lines : stage[l] = "read" ~> stage[l] = "ended"

=============================================================================
