-------------------------------- MODULE Peer --------------------------------
(***************************************************************************)
(* Calls over one connection (src/src/transport/rpc.rs and the connection  *)
(* loop of cartridge.rs): the caller's table of waiting calls, the bounded *)
(* queues in both directions, the listeners a connection runs at most      *)
(* InFlight of at once, and the cancel that follows an abandoned call.     *)
(***************************************************************************)
EXTENDS Integers, Sequences, FiniteSets

CONSTANTS
    Calls,     \* the calls made, by id
    InFlight,  \* listeners a connection runs at once
    Room       \* places of a connection's queue, in each direction

ASSUME InFlightAssumption == InFlight \in Nat \ {0}
ASSUME RoomAssumption == Room \in Nat \ {0}

VARIABLES
    \* the caller
    stage,     \* idle, queueing (the queue is full), waiting, done
    result,    \* what the call returned
    pending,   \* ids an answer is still expected for
    answer,    \* what the table handed the call, before it is polled
    open,      \* the caller's end is not closed
    toServer,  \* requests and cancels, up to the connection loop
    \* the listener's side
    serving,   \* its end is not closed
    permits,   \* of the connection's InFlight
    cancels,   \* ids whose token is registered
    cancelled, \* ids whose token is cancelled
    work,      \* of the listener run for a call
    toCaller   \* responses

caller == <<stage, result, pending, answer, open>>
server == <<serving, permits, cancels, cancelled, work>>
vars == <<caller, toServer, server, toCaller>>

Request(c) == [kind |-> "request", id |-> c]
CancelOf(c) == [kind |-> "cancel", id |-> c]
Response(c, r) == [id |-> c, result |-> r]

Init ==
    /\ stage = [c \in Calls |-> "idle"]
    /\ result = [c \in Calls |-> "none"]
    /\ pending = {}
    /\ answer = [c \in Calls |-> "none"]
    /\ open = TRUE
    /\ toServer = <<>>
    /\ serving = TRUE
    /\ permits = InFlight
    /\ cancels = {}
    /\ cancelled = {}
    /\ work = [c \in Calls |-> "none"]
    /\ toCaller = <<>>

-----------------------------------------------------------------------------
\* The caller.

\* Inner::close: every waiting call is told.
Closed == [c \in Calls |-> IF c \in pending THEN "closed" ELSE answer[c]]

\* call: an id is put in the table, unless the connection closed before.
Call(c) ==
    /\ stage[c] = "idle"
    /\ IF open
       THEN /\ stage' = [stage EXCEPT ![c] = "queueing"]
            /\ pending' = pending \cup {c}
            /\ UNCHANGED result
       ELSE /\ stage' = [stage EXCEPT ![c] = "done"]
            /\ result' = [result EXCEPT ![c] = "closed"]
            /\ UNCHANGED pending
    /\ UNCHANGED <<answer, open, toServer, server, toCaller>>

\* A request waits for room in the queue; other pushes do not.
Enqueue(c) ==
    /\ stage[c] = "queueing"
    /\ open
    /\ Len(toServer) < Room
    /\ toServer' = Append(toServer, Request(c))
    /\ stage' = [stage EXCEPT ![c] = "waiting"]
    /\ UNCHANGED <<result, pending, answer, open, server, toCaller>>

\* The writer ended first.
QueueGone(c) ==
    /\ stage[c] = "queueing"
    /\ ~open
    /\ stage' = [stage EXCEPT ![c] = "done"]
    /\ result' = [result EXCEPT ![c] = "closed"]
    /\ UNCHANGED <<pending, answer, open, toServer, server, toCaller>>

\* Mutant: the response of any call serves the first that waits.
DispatchAny ==
    /\ open
    /\ toCaller # <<>>
    /\ toCaller' = Tail(toCaller)
    /\ IF pending # {}
       THEN LET c == CHOOSE d \in pending : TRUE IN
            /\ pending' = pending \ {c}
            /\ answer' = [answer EXCEPT ![c] = Head(toCaller).result]
       ELSE UNCHANGED <<pending, answer>>
    /\ UNCHANGED <<stage, result, open, toServer, server>>

\* dispatch: a response is handed to the call of its id, if it still waits.
Dispatch ==
    LET r == Head(toCaller) IN
    /\ open
    /\ toCaller # <<>>
    /\ toCaller' = Tail(toCaller)
    /\ pending' = pending \ {r.id}
    /\ answer' = IF r.id \in pending
                 THEN [answer EXCEPT ![r.id] = r.result] ELSE answer
    /\ UNCHANGED <<stage, result, open, toServer, server>>

Return(c) ==
    /\ stage[c] = "waiting"
    /\ answer[c] # "none"
    /\ stage' = [stage EXCEPT ![c] = "done"]
    /\ result' = [result EXCEPT ![c] = answer[c]]
    /\ UNCHANGED <<pending, answer, open, toServer, server, toCaller>>

\* Mutant: an abandoned call stays in the table.
AbandonKeeps(c) ==
    /\ stage[c] \in {"queueing", "waiting"}
    /\ stage' = [stage EXCEPT ![c] = "done"]
    /\ result' = [result EXCEPT ![c] = "abandoned"]
    /\ UNCHANGED <<pending, answer, open, toServer, server, toCaller>>

\* The call's future is dropped, on a timeout or with its caller.  A call
\* still in the table leaves it and sends a cancel; a queue that is full
\* then closes the connection, for every other call on it too.
Abandon(c) ==
    /\ stage[c] \in {"queueing", "waiting"}
    /\ stage' = [stage EXCEPT ![c] = "done"]
    /\ result' = [result EXCEPT ![c] = "abandoned"]
    /\ IF c \in pending /\ Len(toServer) < Room
       THEN /\ toServer' = Append(toServer, CancelOf(c))
            /\ pending' = pending \ {c}
            /\ UNCHANGED <<answer, open>>
       ELSE /\ IF c \in pending
               THEN /\ open' = FALSE
                    /\ answer' = [Closed EXCEPT ![c] = answer[c]]
                    /\ pending' = {}
               ELSE UNCHANGED <<answer, open, pending>>
            /\ UNCHANGED toServer
    /\ UNCHANGED <<server, toCaller>>

\* The last handle is dropped, or the reader reached the end of what the
\* other side flushed.
CallerCloses ==
    /\ open
    /\ open' = FALSE
    /\ answer' = Closed
    /\ pending' = {}
    /\ UNCHANGED <<stage, result, toServer, server, toCaller>>

EndOfFile == ~serving /\ toCaller = <<>> /\ CallerCloses

-----------------------------------------------------------------------------
\* The listener's side.

\* Mutant: a response that finds the queue full is dropped, the connection
\* stays.
RespondedOrDropped(c, r) ==
    /\ toCaller' = IF serving /\ Len(toCaller) < Room
                   THEN Append(toCaller, Response(c, r)) ELSE toCaller
    /\ UNCHANGED serving

\* push: a response that finds the queue full closes the connection.
Responded(c, r) ==
    IF serving /\ Len(toCaller) < Room
    THEN toCaller' = Append(toCaller, Response(c, r)) /\ UNCHANGED serving
    ELSE serving' = FALSE /\ UNCHANGED toCaller

\* The loop takes the next message in order.  A request needs a permit, and
\* until there is one nothing behind it is looked at.
Serve ==
    LET c == Head(toServer).id IN
    /\ toServer # <<>>
    /\ Head(toServer).kind = "request"
    /\ permits > 0
    /\ permits' = permits - 1
    /\ cancels' = cancels \cup {c}
    /\ work' = [work EXCEPT ![c] = "running"]
    /\ toServer' = Tail(toServer)
    /\ UNCHANGED <<caller, serving, cancelled, toCaller>>

\* Mutant: a cancel only forgets the token.
HeedCancelForgets ==
    /\ toServer # <<>>
    /\ Head(toServer).kind = "cancel"
    /\ cancelled' = cancelled \ {Head(toServer).id}
    /\ toServer' = Tail(toServer)
    /\ UNCHANGED <<caller, serving, permits, cancels, work, toCaller>>

HeedCancel ==
    LET c == Head(toServer).id IN
    /\ toServer # <<>>
    /\ Head(toServer).kind = "cancel"
    /\ cancelled' = IF c \in cancels THEN cancelled \cup {c} ELSE cancelled
    /\ toServer' = Tail(toServer)
    /\ UNCHANGED <<caller, serving, permits, cancels, work, toCaller>>

\* The listener is over: its response is pushed, its token dropped and its
\* permit given back.
Over(c, w, r) ==
    /\ work[c] = "running"
    /\ work' = [work EXCEPT ![c] = w]
    /\ Responded(c, r)
    /\ cancels' = cancels \ {c}
    /\ cancelled' = cancelled \ {c}
    /\ permits' = permits + 1
    /\ UNCHANGED <<caller, toServer>>

\* It answers, fails or panics, whenever it likes.
Finish(c) == \E o \in {"ok", "err"} : Over(c, o, o)

\* Its token was cancelled.  The response goes to nobody.
Cut(c) == c \in cancelled /\ Over(c, "cancelled", "err")

\* The node ends or drops the connection.  What its reader had not read is
\* lost; what it had, the loop still goes through.
ServerCloses ==
    /\ serving
    /\ serving' = FALSE
    /\ \E read \in 0..Len(toServer) : toServer' = SubSeq(toServer, 1, read)
    /\ UNCHANGED <<caller, permits, cancels, cancelled, work, toCaller>>

\* The caller closed: the rest of the requests is read, and served.
CallerGone ==
    /\ serving
    /\ ~open
    /\ serving' = FALSE
    /\ UNCHANGED <<caller, toServer, permits, cancels, cancelled, work,
                   toCaller>>

-----------------------------------------------------------------------------
TransportStep ==
    \/ \E c \in Calls : Enqueue(c) \/ QueueGone(c) \/ Return(c)
    \/ Dispatch \/ EndOfFile
    \/ Serve \/ HeedCancel \/ CallerGone

External ==
    \/ \E c \in Calls : Call(c) \/ Abandon(c) \/ Finish(c)
    \/ CallerCloses \/ ServerCloses

Next == TransportStep \/ (\E c \in Calls : Cut(c)) \/ External

Spec == Init /\ [][Next]_vars

\* The tasks of both ends are polled; a listener need never end, nor a caller
\* give up.
FairSpec == /\ Spec
            /\ WF_vars(TransportStep)
            /\ \A c \in Calls : WF_vars(Cut(c))

-----------------------------------------------------------------------------
\* Properties.

Results == {"none", "ok", "err", "closed", "abandoned"}

TypeOK ==
    /\ stage \in [Calls -> {"idle", "queueing", "waiting", "done"}]
    /\ result \in [Calls -> Results]
    /\ pending \in SUBSET Calls
    /\ answer \in [Calls -> {"none", "ok", "err", "closed"}]
    /\ open \in BOOLEAN
    /\ toServer \in Seq([kind: {"request", "cancel"}, id: Calls])
    /\ Len(toServer) <= Room
    /\ serving \in BOOLEAN
    /\ permits \in 0..InFlight
    /\ cancels \in SUBSET Calls
    /\ cancelled \in SUBSET Calls
    /\ work \in [Calls -> {"none", "running", "ok", "err", "cancelled"}]
    /\ toCaller \in Seq([id: Calls, result: {"ok", "err"}])
    /\ Len(toCaller) <= Room

\* Whatever is lost, abandoned or closed, each call ends once, with its own
\* listener's answer or without one.
Promise == INSTANCE CallOnce WITH
    stage <- [c \in Calls |-> IF stage[c] = "queueing" THEN "waiting"
                              ELSE stage[c]]
EndsOnce == Promise!Spec

\* Nothing is left behind: an id is in the table only while its call waits
\* for it, in the tokens only while its listener runs, and every permit not
\* held by a listener is free.
NothingLeaks ==
    /\ \A c \in pending : stage[c] \in {"queueing", "waiting"} /\ open
    /\ cancels = {c \in Calls : work[c] = "running"}
    /\ cancelled \subseteq cancels
    /\ permits = InFlight - Cardinality(cancels)

\* Once its listener has answered, a call that still waits ends: no response
\* is lost without the connection closing.
AnswersArrive ==
    \A c \in Calls :
        work[c] \in {"ok", "err"} /\ stage[c] = "waiting" ~> stage[c] = "done"

\* The listener of an abandoned call stops, over an open connection, unless
\* the loop waits for a permit (and then no cancel is read).
Stuck == toServer # <<>> /\ Head(toServer).kind = "request" /\ permits = 0

CancelStops ==
    \A c \in Calls :
        work[c] = "running" /\ result[c] = "abandoned" /\ open /\ serving
            ~> work[c] # "running" \/ ~ (open /\ serving) \/ Stuck

=============================================================================
