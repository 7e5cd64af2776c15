---------------------------- MODULE Diagnostics ----------------------------
(***************************************************************************)
(* The diagnostic stream of a process (src/src/trace/mod.rs): lines go     *)
(* through a bounded queue to one thread that writes them to a file it     *)
(* rotates at a cap; what finds the queue full is counted and the count    *)
(* written with the next note; flush waits, for a while, until all it can  *)
(* answer for is written.                                                  *)
(***************************************************************************)
EXTENDS Integers, Sequences, FiniteSets

CONSTANTS
    Lines,      \* lines noted, in order: a number
    QueueRoom,  \* notes the queue holds (host.diagnostics_queue)
    Cap,        \* lines the file holds (host.diagnostics_max_bytes)
    Faults      \* bound on the calls to the filesystem that fail

ASSUME DiagnosticsAssumption ==
    /\ Lines \in Nat
    /\ QueueRoom \in Nat \ {0}
    /\ Cap \in Nat \ {0}
    /\ Faults \in Nat

VARIABLES
    fate,     \* of each line: unborn, refused, queued, counted, written, reported, lost
    notes,    \* the queue: lines, and the note of a flush
    missed,   \* the counter DROPPED
    file,     \* what is at the path
    handle,   \* what the file written to is: the one at the path or the rotated one
    size,     \* Sink::written
    enabled,  \* the output is not given up
    faults,   \* calls to the filesystem that failed
    flush,    \* of the flush at exit: idle, asking, waiting, acked, late
    owed      \* lines noted or counted before the flush began

diagnostics == <<fate, notes, missed, file, handle, size, enabled, faults, flush, owed>>

\* What the queue and the file hold besides lines, which are numbers from 1.
FlushNote == 0
Report == 0
Torn == -1
Settled == {"written", "reported", "lost"}

DiagnosticsInit ==
    /\ fate = [n \in 1..Lines |-> "unborn"]
    /\ notes = <<>>
    /\ missed = 0
    /\ file = <<>>
    /\ handle = "path"
    /\ size = 0
    /\ enabled = TRUE
    /\ faults = 0
    /\ flush = "idle"
    /\ owed = {}

-----------------------------------------------------------------------------

Counted == {n \in 1..Lines : fate[n] = "counted"}
NextLine == CHOOSE n \in 1..Lines : fate[n] = "unborn" /\ \A m \in 1..(n - 1) : fate[m] # "unborn"
MoreLines == \E n \in 1..Lines : fate[n] = "unborn"

\* diagnostic: a caller never waits for room either.
Note ==
    /\ MoreLines
    /\ IF Len(notes) < QueueRoom
       THEN /\ notes' = Append(notes, NextLine)
            /\ fate' = [fate EXCEPT ![NextLine] = "queued"]
       ELSE /\ fate' = [fate EXCEPT ![NextLine] = "refused"]
            /\ UNCHANGED notes
    /\ UNCHANGED <<missed, file, handle, size, enabled, faults, flush, owed>>

CountMissed(n) ==
    /\ fate[n] = "refused"
    /\ fate' = [fate EXCEPT ![n] = "counted"]
    /\ missed' = missed + 1
    /\ UNCHANGED <<notes, file, handle, size, enabled, faults, flush, owed>>

-----------------------------------------------------------------------------
\* Sink::write, as a relation between what the sink is and what it becomes:
\* [file, handle, size, enabled, faults, kept], kept when the line was written.

Sink == [file |-> file, handle |-> handle, size |-> size, enabled |-> enabled,
         faults |-> faults, kept |-> FALSE]

\* The file is full: it is renamed, and a fresh one created. A rename that
\* fails goes unnoticed; without a fresh file the line is dropped.
Rotations(s) ==
    IF s.size = 0 \/ s.size < Cap THEN {[s EXCEPT !.kept = TRUE]}
    ELSE {[s EXCEPT !.file = <<>>, !.handle = "path", !.size = 0, !.kept = TRUE]}
         \cup (IF s.faults < Faults
               THEN {[s EXCEPT !.file = <<>>, !.handle = "rotated", !.faults = @ + 1]}
               ELSE {})

\* Mutant: a part of a line stays where it was written.
AppendsTorn(s, line) ==
    IF ~s.kept THEN {s}
    ELSE {[s EXCEPT !.file = Append(@, line), !.size = @ + 1]}
         \cup (IF s.faults < Faults
               THEN {[s EXCEPT !.file = Append(@, Torn), !.faults = @ + 1, !.kept = FALSE]}
               ELSE {})

\* The line is written, or in part and then cut off again; when it cannot be
\* cut off the output is given up.
Appends(s, line) ==
    IF ~s.kept THEN {s}
    ELSE {[s EXCEPT !.file = Append(@, line), !.size = @ + 1]}
         \cup (IF s.faults < Faults
               THEN {[s EXCEPT !.faults = @ + 1, !.kept = FALSE],
                     [s EXCEPT !.file = Append(@, Torn), !.faults = @ + 1, !.kept = FALSE, !.enabled = FALSE]}
               ELSE {})

Writes(s, line) ==
    IF ~s.enabled THEN {[s EXCEPT !.kept = FALSE]}
    ELSE UNION {Appends(r, line) : r \in Rotations([s EXCEPT !.kept = FALSE])}

\* The count goes first, when there is one.
Reports(s) == IF missed = 0 THEN {[s EXCEPT !.kept = TRUE]} ELSE Writes(s, Report)

\* Mutant: a flush is acknowledged without the count.
DrainAcksFirst ==
    /\ notes # <<>>
    /\ notes' = Tail(notes)
    /\ \E w \in IF Head(notes) = FlushNote THEN {Sink} ELSE Writes(Sink, Head(notes)) :
          /\ file' = w.file
          /\ handle' = w.handle
          /\ size' = w.size
          /\ enabled' = w.enabled
          /\ faults' = w.faults
          /\ fate' = [n \in 1..Lines |->
                IF n = Head(notes) THEN (IF w.kept THEN "written" ELSE "lost") ELSE fate[n]]
    /\ flush' = IF Head(notes) = FlushNote /\ flush = "waiting" THEN "acked" ELSE flush
    /\ UNCHANGED <<missed, owed>>

\* drain: one note. A report that cannot be written takes its count with it.
Drain ==
    /\ notes # <<>>
    /\ notes' = Tail(notes)
    /\ missed' = 0
    /\ \E r \in Reports(Sink) :
       \E w \in IF Head(notes) = FlushNote THEN {r} ELSE Writes(r, Head(notes)) :
          /\ file' = w.file
          /\ handle' = w.handle
          /\ size' = w.size
          /\ enabled' = w.enabled
          /\ faults' = w.faults
          /\ fate' = [n \in 1..Lines |->
                IF n \in Counted THEN (IF r.kept THEN "reported" ELSE "lost")
                ELSE IF n = Head(notes) THEN (IF w.kept THEN "written" ELSE "lost")
                ELSE fate[n]]
    /\ flush' = IF Head(notes) = FlushNote /\ flush = "waiting" THEN "acked" ELSE flush
    /\ UNCHANGED owed

-----------------------------------------------------------------------------

\* flush, at the exit of a command: it answers for what was noted before it.
BeginFlush ==
    /\ flush = "idle"
    /\ flush' = "asking"
    /\ owed' = {n \in 1..Lines : fate[n] \notin {"unborn", "refused"}}
    /\ UNCHANGED <<fate, notes, missed, file, handle, size, enabled, faults>>

\* It tries again and again to find room, and gives up at its deadline.
PushFlush ==
    /\ flush = "asking"
    /\ Len(notes) < QueueRoom
    /\ notes' = Append(notes, FlushNote)
    /\ flush' = "waiting"
    /\ UNCHANGED <<fate, missed, file, handle, size, enabled, faults, owed>>

FlushLate ==
    /\ flush \in {"asking", "waiting"}
    /\ flush' = "late"
    /\ UNCHANGED <<fate, notes, missed, file, handle, size, enabled, faults, owed>>

DiagnosticsNext ==
    \/ Note
    \/ \E n \in 1..Lines : CountMissed(n)
    \/ Drain
    \/ BeginFlush
    \/ PushFlush
    \/ FlushLate

-----------------------------------------------------------------------------

\* A flush that was acknowledged leaves nothing noted or counted before it in
\* the queue or the counter (flush and drain: the count is taken with every
\* note, the one of a flush included).
FlushedIsSettled == flush = "acked" => \A n \in owed : fate[n] \in Settled

\* The counter is what it counts; the file stays under its cap; and no line
\* follows a torn one (Sink::write cuts a partial line off or gives up).
StreamCoherent ==
    /\ missed = Cardinality(Counted)
    /\ Len(file) <= Cap
    /\ enabled /\ handle = "path" => size = Len(file)
    /\ \A i \in 1..Len(file) : file[i] = Torn => i = Len(file) /\ ~enabled

=============================================================================
