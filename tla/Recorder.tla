------------------------------ MODULE Recorder ------------------------------
(***************************************************************************)
(* The activity a node records (src/src/trace/activity.rs): a bounded      *)
(* queue that drops and counts when it is full, and one task that sends    *)
(* each record to the trace writer through the base, retries a failed one  *)
(* in place, and gives up only on one that is refused for good.            *)
(***************************************************************************)
EXTENDS Integers, Sequences, FiniteSets

CONSTANTS
    Records,   \* activities recorded, in order: a number
    Capacity,  \* of the queue
    Unfit,     \* the records the writer refuses for good
    Failures,  \* bound on the attempts that fail
    None

ASSUME RecorderAssumption ==
    /\ Records \in Nat
    /\ Capacity \in Nat \ {0}
    /\ Unfit \subseteq 1..Records
    /\ Failures \in Nat
    /\ None \notin [record : 1..Records, missing : Nat]

VARIABLES
    made,      \* activities recorded so far
    queue,     \* records the task has not taken
    refusing,  \* callers whose record found the queue full and is not counted yet
    dropped,   \* the counter of records dropped
    sending,   \* the record being sent, with the count it carries, or None
    failed,    \* attempts that failed
    log,       \* what the writer appended
    spoilt     \* of the counts, those that went with a refused record

recorder == <<made, queue, refusing, dropped, sending, failed, log, spoilt>>

RecorderInit ==
    /\ made = 0
    /\ queue = <<>>
    /\ refusing = 0
    /\ dropped = 0
    /\ sending = None
    /\ failed = 0
    /\ log = <<>>
    /\ spoilt = 0

-----------------------------------------------------------------------------

\* Recorder::record, by any caller: it never waits for room.
Record ==
    /\ made < Records
    /\ made' = made + 1
    /\ IF Len(queue) < Capacity
       THEN /\ queue' = Append(queue, made')
            /\ UNCHANGED refusing
       ELSE /\ refusing' = refusing + 1
            /\ UNCHANGED queue
    /\ UNCHANGED <<dropped, sending, failed, log, spoilt>>

\* ... and counts what found none.
CountDrop ==
    /\ refusing > 0
    /\ refusing' = refusing - 1
    /\ dropped' = dropped + 1
    /\ UNCHANGED <<made, queue, sending, failed, log, spoilt>>

\* The next record takes the count of those dropped with it.
TakeRecord ==
    /\ sending = None
    /\ queue # <<>>
    /\ sending' = [record |-> Head(queue), missing |-> dropped]
    /\ queue' = Tail(queue)
    /\ dropped' = 0
    /\ UNCHANGED <<made, refusing, failed, log, spoilt>>

\* A trace writer is active, appends it, and its answer comes back.
Deliver ==
    /\ sending # None
    /\ sending.record \notin Unfit
    /\ log' = Append(log, sending)
    /\ sending' = None
    /\ UNCHANGED <<made, queue, refusing, dropped, failed, spoilt>>

\* Mutant: every attempt takes the counter again.
FailCountsAgain(appended) ==
    /\ sending # None
    /\ failed < Failures
    /\ appended => sending.record \notin Unfit
    /\ failed' = failed + 1
    /\ log' = IF appended THEN Append(log, sending) ELSE log
    /\ sending' = [sending EXCEPT !.missing = dropped]
    /\ dropped' = 0
    /\ UNCHANGED <<made, queue, refusing, spoilt>>

\* An attempt fails, before the writer appended or after it: no writer is
\* active, or a connection on the way closed. The same record is sent again.
Fail(appended) ==
    /\ sending # None
    /\ failed < Failures
    /\ appended => sending.record \notin Unfit
    /\ failed' = failed + 1
    /\ log' = IF appended THEN Append(log, sending) ELSE log
    /\ UNCHANGED <<made, queue, refusing, dropped, sending, spoilt>>

\* The writer refuses it for good. It is counted; the count it carried is not.
Reject ==
    /\ sending # None
    /\ failed < Failures
    /\ sending.record \in Unfit
    /\ failed' = failed + 1
    /\ dropped' = dropped + 1
    /\ spoilt' = spoilt + sending.missing
    /\ sending' = None
    /\ UNCHANGED <<made, queue, refusing, log>>

Quiet == Record \/ CountDrop \/ TakeRecord \/ Deliver

\* An attempt that failed writes a line to the node's stderr.
Loud == (\E appended \in BOOLEAN : Fail(appended)) \/ Reject

-----------------------------------------------------------------------------

Sent == {log[i] : i \in 1..Len(log)} \cup (IF sending = None THEN {} ELSE {sending})

\* What the counts of the records sent add up to, one by one: a record sent
\* again carries the same count, and is heard once.
Gaps(sent) == UNION {{e} \X (1..e.missing) : e \in sent}

\* Every activity is queued, sent, or counted: in the counter, by a record that
\* carries it (dropped_before), or by one about to. Only a refused record takes
\* a count with it (activity.rs:91-103).
Accounted ==
    made = Len(queue) + Cardinality(Sent) + refusing + dropped
              + Cardinality(Gaps(Sent)) + spoilt

=============================================================================
