------------------------------ MODULE Helpers ------------------------------
(***************************************************************************)
(* A helper program a node spawns (src/src/node/mod.rs): requests, sends   *)
(* and answers to asks that share the helper's stdin under one lock, each  *)
(* write timed; the task that reads its stdout line by line and waits for  *)
(* the Lua handler of a plain line; listeners cancelled while they write.  *)
(*                                                                         *)
(* A line is written in two parts, its head and its tail with the newline: *)
(* what a write_all does when the pipe is full in between.                 *)
(***************************************************************************)
EXTENDS Integers, Sequences, FiniteSets

CONSTANTS
    Requests,  \* handle:request calls of listeners
    Nested,    \* handle:request calls made by the handler of a plain line
    Sends,     \* handle:send calls
    Asks,      \* asks on the helper's stdout
    Notes,     \* plain lines the helper may write: a number
    Room,      \* parts the helper's stdin holds
    OutRoom,   \* lines the helper's stdout holds
    None

ASSUME BoundsAssumption ==
    /\ Notes \in Nat
    /\ Room \in Nat \ {0}
    /\ OutRoom \in Nat \ {0}
ASSUME WritersAssumption ==
    /\ Requests \cap Nested = {}
    /\ (Requests \cup Nested) \cap (Sends \cup Asks) = {}
    /\ Sends \cap Asks = {}

Waiters == Requests \cup Nested
Writers == Waiters \cup Sends \cup Asks
\* Calls of a listener, which a cancel of the listener drops where they wait.
\* The answer of an ask is a task of its own, and so is the reader.
Droppable == Requests \cup Sends

VARIABLES
    \* Spawned
    stdin,    \* the handle still holds the helper's stdin
    pending,  \* requests an answer is still expected for
    \* the calls
    stage,    \* idle, asked, locking, writing, half, killing, waiting, done
    outcome,  \* what the call returned
    replied,  \* waiters handed their answer
    \* the helper
    alive,    \* it runs
    pipe,     \* parts written to its stdin and not read
    text,     \* parts read of the line it is reading
    got,      \* lines it read, each the sequence of its parts' writers
    said,     \* lines it wrote
    out,      \* lines written to its stdout and not read
    \* the task that reads its stdout
    handling, \* the line whose Lua handler runs
    ended     \* it read the end of the stdout

node == <<stdin, pending, stage, outcome, replied>>
helper == <<alive, pipe, text, got, said, out>>
reader == <<handling, ended>>
vars == <<node, helper, reader>>

Reply(r) == [kind |-> "reply", of |-> r]
Ask(a) == [kind |-> "ask", of |-> a]
Note(n) == [kind |-> "note", of |-> n]
Lines == {Reply(r) : r \in Waiters} \cup {Ask(a) : a \in Asks} \cup {Note(n) : n \in 1..Notes}

ASSUME NoneAssumption == None \notin Lines

Stages == {"idle", "asked", "locking", "writing", "half", "killing", "waiting", "done"}
Outcomes == {"none", "ok", "reply", "late", "exited", "closed", "cancelled"}

Init ==
    /\ stdin = TRUE
    /\ pending = {}
    /\ stage = [w \in Writers |-> "idle"]
    /\ outcome = [w \in Writers |-> "none"]
    /\ replied = {}
    /\ alive = TRUE
    /\ pipe = <<>>
    /\ text = <<>>
    /\ got = {}
    /\ said = {}
    /\ out = <<>>
    /\ handling = None
    /\ ended = FALSE

-----------------------------------------------------------------------------
\* The calls.

Holds(w) == stage[w] \in {"writing", "half"}
Locked == \E v \in Writers : Holds(v)
Broken == ~stdin \/ ~alive

End(w, result) ==
    /\ stage' = [stage EXCEPT ![w] = "done"]
    /\ outcome' = [outcome EXCEPT ![w] = result]

\* handle:request puts its id in the table before it writes; a request of a
\* handler is made while the reader waits for that handler.
Request(r) ==
    /\ r \in Waiters
    /\ stage[r] = "idle"
    /\ r \in Nested => handling # None
    /\ pending' = pending \cup {r}
    /\ stage' = [stage EXCEPT ![r] = "locking"]
    /\ UNCHANGED <<stdin, outcome, replied, helper, reader>>

Send(s) ==
    /\ s \in Sends
    /\ stage[s] = "idle"
    /\ stage' = [stage EXCEPT ![s] = "locking"]
    /\ UNCHANGED <<stdin, pending, outcome, replied, helper, reader>>

\* The task of an ask got its answer from the node and goes on to write it.
Answer(a) ==
    /\ stage[a] = "asked"
    /\ stage' = [stage EXCEPT ![a] = "locking"]
    /\ UNCHANGED <<stdin, pending, outcome, replied, helper, reader>>

\* Nobody writes while another holds the lock.
Lock(w) ==
    /\ stage[w] = "locking"
    /\ ~Locked
    /\ stage' = [stage EXCEPT ![w] = "writing"]
    /\ UNCHANGED <<stdin, pending, outcome, replied, helper, reader>>

\* Part by part, as the helper's stdin has room.
Part(w) == <<w, IF stage[w] = "writing" THEN "head" ELSE "tail">>
Written(w) == IF stage[w] = "writing" THEN "half" ELSE IF w \in Waiters THEN "waiting" ELSE "done"

WritePart(w) ==
    /\ Holds(w)
    /\ ~Broken
    /\ Len(pipe) < Room
    /\ pipe' = Append(pipe, Part(w))
    /\ stage' = [stage EXCEPT ![w] = Written(w)]
    /\ outcome' = [outcome EXCEPT ![w] = IF Written(w) = "done" THEN "ok" ELSE @]
    /\ UNCHANGED <<stdin, pending, replied, alive, text, got, said, out, reader>>

\* The stdin was taken by a write that timed out, or the helper is gone. A
\* request takes its id back.
WriteFails(w) ==
    /\ Holds(w)
    /\ Broken
    /\ End(w, "closed")
    /\ pending' = pending \ {w}
    /\ UNCHANGED <<stdin, replied, helper, reader>>

\* Mutant: a write that is late leaves the stdin in place.
WriteLateKeepsStdin(w) ==
    /\ Holds(w)
    /\ ~Broken
    /\ stage' = [stage EXCEPT ![w] = "killing"]
    /\ UNCHANGED <<stdin, pending, outcome, replied, helper, reader>>

\* The timer of the write: the stdin is closed, the lock released, and then
\* the helper killed.
WriteLate(w) ==
    /\ Holds(w)
    /\ ~Broken
    /\ stdin' = FALSE
    /\ stage' = [stage EXCEPT ![w] = "killing"]
    /\ UNCHANGED <<pending, outcome, replied, helper, reader>>

KillLate(w) ==
    /\ stage[w] = "killing"
    /\ alive' = FALSE
    /\ End(w, "late")
    /\ pending' = pending \ {w}
    /\ UNCHANGED <<stdin, replied, pipe, text, got, said, out, reader>>

\* Mutant: the end of the wait is taken for an answer.
ReturnGone(r) ==
    /\ r \in Waiters
    /\ stage[r] = "waiting"
    /\ r \notin pending
    /\ End(r, "reply")
    /\ UNCHANGED <<stdin, pending, replied, helper, reader>>

\* The answer is there.
Return(r) ==
    /\ stage[r] = "waiting"
    /\ r \in replied
    /\ End(r, "reply")
    /\ pending' = pending \ {r}
    /\ UNCHANGED <<stdin, replied, helper, reader>>

\* The reader dropped the table.
Exited(r) ==
    /\ r \in Waiters
    /\ stage[r] = "waiting"
    /\ r \notin pending \cup replied
    /\ End(r, "exited")
    /\ UNCHANGED <<stdin, pending, replied, helper, reader>>

\* Mutant: a request of a handler waits without a timer.
ReplyLateOutside(r) ==
    /\ r \in Requests
    /\ stage[r] = "waiting"
    /\ r \in pending \ replied
    /\ End(r, "late")
    /\ pending' = pending \ {r}
    /\ UNCHANGED <<stdin, replied, helper, reader>>

\* The timer of the answer. An answer that is there wins.
ReplyLate(r) ==
    /\ r \in Waiters
    /\ stage[r] = "waiting"
    /\ r \in pending \ replied
    /\ End(r, "late")
    /\ pending' = pending \ {r}
    /\ UNCHANGED <<stdin, replied, helper, reader>>

\* The listener is cancelled: its call is dropped where it waits. The lock is
\* released, the stdin stays, and nothing takes the id from the table.
Cancel(w) ==
    /\ w \in Droppable
    /\ stage[w] \in {"locking", "writing", "half", "waiting"}
    /\ End(w, "cancelled")
    /\ UNCHANGED <<stdin, pending, replied, helper, reader>>

-----------------------------------------------------------------------------
\* The helper: an external program.

\* It reads its stdin; the tail of a line ends whatever it has read of it.
HelperReads ==
    /\ alive
    /\ pipe # <<>>
    /\ LET w == Head(pipe)[1] IN
       /\ pipe' = Tail(pipe)
       /\ IF Head(pipe)[2] = "head"
          THEN /\ text' = Append(text, w)
               /\ UNCHANGED got
          ELSE /\ text' = <<>>
               /\ got' = got \cup {Append(text, w)}
    /\ UNCHANGED <<alive, said, out, node, reader>>

\* A line that reached it as it was written.
Whole(w) == <<w, w>>

\* It answers a request it read, asks, or says something else.
HelperSays(l) ==
    /\ alive
    /\ ~ended
    /\ l \notin said
    /\ Len(out) < OutRoom
    /\ l.kind = "reply" => Whole(l.of) \in got
    /\ l.kind = "note" => \A n \in 1..(l.of - 1) : Note(n) \in said
    /\ said' = said \cup {l}
    /\ out' = Append(out, l)
    /\ UNCHANGED <<alive, pipe, text, got, node, reader>>

\* It ends, on its own or by handle:kill.
HelperEnds ==
    /\ alive
    /\ alive' = FALSE
    /\ UNCHANGED <<pipe, text, got, said, out, node, reader>>

-----------------------------------------------------------------------------
\* The task that reads the stdout.

\* Mutant: a handler is given every line while one is registered.
NeverAnswered == FALSE

\* A line with the id of a waiting request is its answer.
Answered == out # <<>> /\ Head(out).kind = "reply" /\ Head(out).of \in pending

\* The next line: an answer, an ask whose answer a task of its own writes, or
\* a line for the Lua handler, which the reader waits for.
ReadLine ==
    /\ ~ended
    /\ handling = None
    /\ out # <<>>
    /\ out' = Tail(out)
    /\ LET l == Head(out) IN
       \/ /\ Answered
          /\ pending' = pending \ {l.of}
          /\ replied' = replied \cup {l.of}
          /\ UNCHANGED <<stage, handling>>
       \/ /\ l.kind = "ask"
          /\ stage' = [stage EXCEPT ![l.of] = "asked"]
          /\ UNCHANGED <<pending, replied, handling>>
       \/ /\ ~Answered
          /\ l.kind # "ask"
          /\ handling' = l
          /\ UNCHANGED <<pending, replied, stage>>
    /\ UNCHANGED <<stdin, outcome, alive, pipe, text, got, said, ended>>

\* The handler returns; a request it made has ended.
Handled ==
    /\ handling # None
    /\ \A r \in Nested : stage[r] \in {"idle", "done"}
    /\ handling' = None
    /\ UNCHANGED <<node, helper, ended>>

\* The stdout is at its end, closed by the helper or with it: whoever waits
\* for an answer is told, and nobody reads a line again.
ReaderEnds ==
    /\ ~ended
    /\ handling = None
    /\ out = <<>>
    /\ ended' = TRUE
    /\ pending' = {}
    /\ UNCHANGED <<stdin, stage, outcome, replied, helper, handling>>

-----------------------------------------------------------------------------

\* What the runtime does with a call on its own.
Step(w) ==
    \/ Lock(w) \/ WritePart(w) \/ WriteFails(w) \/ WriteLate(w) \/ KillLate(w)
    \/ Return(w) \/ Exited(w) \/ ReplyLate(w)

Next ==
    \/ \E r \in Waiters : Request(r) \/ Return(r) \/ Exited(r) \/ ReplyLate(r)
    \/ \E s \in Sends : Send(s)
    \/ \E a \in Asks : Answer(a)
    \/ \E w \in Writers : Lock(w) \/ WritePart(w) \/ WriteFails(w) \/ WriteLate(w) \/ KillLate(w)
    \/ \E w \in Droppable : Cancel(w)
    \/ HelperReads
    \/ \E l \in Lines : HelperSays(l)
    \/ HelperEnds
    \/ ReadLine
    \/ Handled
    \/ ReaderEnds

Spec == Init /\ [][Next]_vars

\* The timers fire, a polled call goes on, and the lock is handed out in the
\* order it was asked for, so a call that can take it again and again does.
\* Neither the helper nor the Lua handler need do anything.
Fairness ==
    /\ \A w \in Writers : WF_vars(Step(w))
    /\ \A w \in Writers : SF_vars(Lock(w))

FairSpec == Spec /\ Fairness

-----------------------------------------------------------------------------
\* Properties.

InFlight == {"locking", "writing", "half", "killing", "waiting"}

\* The state is of its type, and what the parts say of one another agrees: one
\* writer at a time, and the table (Spawned::pending) holds only requests in
\* flight or cancelled; an ended request takes its id with it.
Coherent ==
    /\ stdin \in BOOLEAN /\ alive \in BOOLEAN /\ ended \in BOOLEAN
    /\ stage \in [Writers -> Stages]
    /\ outcome \in [Writers -> Outcomes]
    /\ pending \subseteq Waiters /\ replied \subseteq Waiters
    /\ said \subseteq Lines /\ handling \in Lines \cup {None}
    /\ Len(pipe) <= Room /\ Len(out) <= OutRoom
    /\ \A w \in Writers : outcome[w] # "none" <=> stage[w] = "done"
    /\ \A r \in pending : stage[r] \in InFlight \/ outcome[r] = "cancelled"
    /\ \A v, w \in Writers : Holds(v) /\ Holds(w) => v = w

\* A line of a request, a send or an answer reaches the helper as it was
\* written: a torn one was torn by a cancel (Spawned::write closes the stdin of
\* a write that timed out, so that nothing follows its half).
TornByCancelOnly ==
    \A l \in got : l = Whole(l[Len(l)]) \/ \E i \in 1..Len(l) : outcome[l[i]] = "cancelled"

\* What Spawned::write promises of every line (src/src/node/mod.rs:705).
LinesWhole == \A l \in got : l = Whole(l[Len(l)])

\* An answer read while its request waits is the request's: it never goes to
\* the handler of plain lines, and the request neither times out nor fails
\* after it (the id is in the table before the line is written).
AnswersArrive ==
    /\ \A r \in Waiters : handling = Reply(r) => stage[r] = "done"
    /\ \A r \in replied : outcome[r] \in {"none", "reply", "cancelled"}

\* A request is a call too, and promises what a call over a connection does:
\* it ends once, with what the helper answered to the line it read whole, or
\* closed by the end of the helper, or given up by a timer or a cancel.
StageSeen(r) == IF stage[r] \in {"idle", "done"} THEN stage[r] ELSE "waiting"
ResultSeen(r) ==
    CASE outcome[r] = "none" -> "none"
      [] outcome[r] = "reply" -> "ok"
      [] outcome[r] \in {"exited", "closed"} -> "closed"
      [] OTHER -> "abandoned"
WorkSeen(r) ==
    IF Reply(r) \in said THEN "ok" ELSE IF Whole(r) \in got THEN "running" ELSE "none"

Promise == INSTANCE CallOnce WITH
    Calls <- Waiters,
    stage <- [r \in Waiters |-> StageSeen(r)],
    result <- [r \in Waiters |-> ResultSeen(r)],
    work <- [r \in Waiters |-> WorkSeen(r)]
EndsOnce == Promise!Spec

\* A request, a send or an answer to a helper that has begun ends, with a
\* helper that neither reads nor writes, and with a handler that asks the very
\* helper whose line it handles.
CallEnds == \A w \in Writers : stage[w] \in InFlight ~> stage[w] = "done"

=============================================================================
