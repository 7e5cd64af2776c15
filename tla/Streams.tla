------------------------------ MODULE Streams ------------------------------
(***************************************************************************)
(* A channel between two nodes (src/src/transport/cartridge.rs): the       *)
(* publisher numbers its envelopes, keeps a bounded history and pushes to  *)
(* whoever is registered; the subscriber's pump queues what arrives for    *)
(* the handler, and resubscribes on a new connection when one ends.        *)
(*                                                                         *)
(* One publisher, which may restart, one subscriber, one channel.  An      *)
(* envelope is the number its run of the publisher gave it.  A connection  *)
(* is two queues: `out', from the publisher's queue to the subscriber's    *)
(* reader, and `in', from the reader to the pump (rpc.rs).                 *)
(***************************************************************************)
EXTENDS Integers, Sequences, FiniteSets, FiniteSetsExt, Bags

CONSTANTS
    Conns,      \* connections, reused once nothing is left of one
    NoConn,     \* an empty connection slot
    HISTORY,    \* envelopes the publisher keeps
    OutCap, InCap,    \* places of a connection's two queues (rpc QUEUE)
    QueueCap,         \* places of the queue before the handler
    Sinces,           \* what subscribe may be asked to start from: {} or {n}
    MaxData, MaxRestarts, MaxConnects   \* bounds of a run

ASSUME CapacityAssumption == {HISTORY, OutCap, InCap, QueueCap} \subseteq Nat \ {0}
ASSUME SincesAssumption ==
    \A s \in Sinces : s \subseteq Nat /\ (s = {} \/ \E n \in s : s = {n})
ASSUME NoConnAssumption == NoConn \notin Conns
ASSUME StreamBoundsAssumption == {MaxData, MaxRestarts, MaxConnects} \subseteq Nat

VARIABLES
    pub,      \* the publisher: whether it is up, its run, its last number
    subs,     \* connections registered for the channel
    conn,     \* the connections
    client,   \* the subscriber's connection slot for the publisher
    pumps,    \* connections whose pump still reads
    resuming, \* where the pumps that ended ask to resume, a bag of numbers
    watcher,  \* whether the subscriber has a watcher for the channel
    last,     \* the highest number the watcher was handed
    queued,   \* envelopes waiting for the handler
    app,      \* the subscribe call: stage, connection, since, answer
    got, refused,  \* <<run, n>> queued for the handler, refused by its queue
    start,    \* the numbers after which the subscription was started
    left      \* what remains of the bounds

wires == <<pub, subs, conn>>
watching == <<watcher, last, queued, got, refused>>
vars == <<wires, client, pumps, resuming, watching, app, start, left>>

Envelope(n) == [kind |-> "channel", n |-> n]
Reply(n) == [kind |-> "reply", n |-> n]

Gone == [pub |-> FALSE, sub |-> FALSE, served |-> FALSE, run |-> 0,
         out |-> <<>>, in |-> <<>>, req |-> <<>>, joined |-> FALSE, seq |-> 0]

Init ==
    /\ pub = [up |-> TRUE, run |-> 0, seq |-> 0]
    /\ subs = {}
    /\ conn = [j \in Conns |-> Gone]
    /\ client = NoConn
    /\ pumps = {}
    /\ resuming = EmptyBag
    /\ watcher = FALSE
    /\ last = 0
    /\ queued = 0
    /\ app = [stage |-> "idle", conn |-> NoConn, since |-> {}, answer |-> {}]
    /\ got = {}
    /\ refused = {}
    /\ start = {}
    /\ left = [data |-> MaxData, restarts |-> MaxRestarts, connects |-> MaxConnects]

-----------------------------------------------------------------------------
\* The publisher.

\* Inner::push: a frame that finds the queue full closes the connection; the
\* writer still flushes what was queued.  What is pushed towards a subscriber
\* that closed is lost.
Pushed(c, frame) ==
    IF ~ (c.pub /\ c.sub) THEN c
    ELSE IF Len(c.out) < OutCap THEN [c EXCEPT !.out = Append(@, frame)]
    ELSE [c EXCEPT !.pub = FALSE]

\* The numbers still in the history.
History == {n \in 1..pub.seq : n > pub.seq - HISTORY}

\* publish_kind, on the connections as they stand in cs and registered in S:
\* number the envelope, push it to all, forget those that failed.
Emitted(cs, S) ==
    [j \in Conns |-> IF j \in S THEN Pushed(cs[j], Envelope(pub.seq + 1))
                                ELSE cs[j]]

Emit(cs, S) ==
    /\ pub' = [pub EXCEPT !.seq = @ + 1]
    /\ conn' = Emitted(cs, S)
    /\ subs' = {j \in S : Emitted(cs, S)[j].pub}

Publish ==
    /\ pub.up
    /\ left.data > 0
    /\ left' = [left EXCEPT !.data = @ - 1]
    /\ Emit(conn, subs)
    /\ UNCHANGED <<client, pumps, resuming, watching, app, start>>

\* Mutant: the replay starts one too late.
ReplayLate(from) == {n \in History : \E s \in from : n > s + 1}

\* join replays what is after `since', when one is given.
Replay(from) == {n \in History : \E s \in from : n > s}

\* The replay is pushed as it fits, in order.
Replayed(c, ns) ==
    LET frames == [k \in 1..Cardinality(ns) |->
                      Envelope(CHOOSE n \in ns :
                                  Cardinality({m \in ns : m < n}) = k - 1)]
        room == OutCap - Len(c.out) IN
    IF ~ (c.pub /\ c.sub) THEN c
    ELSE [c EXCEPT !.out = @ \o SubSeq(frames, 1, Min({room, Len(frames)})),
                   !.pub = Len(frames) <= room]

\* The connection's task takes its requests one at a time.  A connection has
\* at most one subscription to the channel: a request first ends the one it
\* has, which those still registered are told of.
Leave(j) ==
    /\ conn[j].served
    /\ conn[j].req # <<>>
    /\ ~conn[j].joined
    /\ j \in subs
    /\ Emit(conn, subs \ {j})
    /\ UNCHANGED <<client, pumps, resuming, watching, app, start, left>>

\* join, in one critical section: replay and register, so that nothing
\* published falls between the two.
Join(j) ==
    LET r == Head(conn[j].req) IN
    /\ conn[j].served
    /\ conn[j].req # <<>>
    /\ ~conn[j].joined
    /\ j \notin subs
    /\ r.op = "subscribe"
    /\ conn' = [conn EXCEPT ![j] = [Replayed(@, Replay(r.since)) EXCEPT
                                       !.joined = TRUE, !.seq = pub.seq]]
    /\ subs' = subs \cup {j}
    /\ start' = IF r.first /\ r.since = {} THEN start \cup {pub.seq} ELSE start
    /\ UNCHANGED <<pub, client, pumps, resuming, watching, app, left>>

\* Everyone registered is told of the subscription, the new one included; the
\* reply carries the number the channel stood at in join.
Announce(j) ==
    /\ conn[j].served
    /\ conn[j].joined
    /\ pub' = [pub EXCEPT !.seq = @ + 1]
    /\ conn' = [Emitted(conn, subs) EXCEPT
                  ![j] = [Pushed(@, Reply(conn[j].seq)) EXCEPT
                             !.joined = FALSE, !.seq = 0,
                             !.req = Tail(conn[j].req)]]
    /\ subs' = {i \in subs : Emitted(conn, subs)[i].pub}
    /\ UNCHANGED <<client, pumps, resuming, watching, app, start, left>>

\* unsubscribe, once the subscription is left.
Left(j) ==
    /\ conn[j].served
    /\ conn[j].req # <<>>
    /\ j \notin subs
    /\ Head(conn[j].req).op = "unsubscribe"
    /\ conn' = [conn EXCEPT ![j] = [Pushed(@, Reply(0)) EXCEPT
                                       !.req = Tail(conn[j].req)]]
    /\ UNCHANGED <<pub, subs, client, pumps, resuming, watching, app, start, left>>

\* The connection ended, at either end: its task leaves the channel.
Hangup(j) ==
    LET c == [conn EXCEPT ![j].served = FALSE, ![j].pub = FALSE,
                          ![j].req = <<>>] IN
    /\ conn[j].served
    /\ ~conn[j].joined
    /\ ~ (conn[j].pub /\ conn[j].sub)
    /\ IF j \in subs THEN Emit(c, subs \ {j})
       ELSE conn' = c /\ UNCHANGED <<pub, subs>>
    /\ UNCHANGED <<client, pumps, resuming, watching, app, start, left>>

\* The node ends, after flushing its connections or, killed, without.
Down ==
    /\ pub.up
    /\ left.restarts > 0
    /\ left' = [left EXCEPT !.restarts = @ - 1]
    /\ pub' = [pub EXCEPT !.up = FALSE]
    /\ subs' = {}
    /\ \E flushed \in BOOLEAN :
          conn' = [j \in Conns |->
                      [conn[j] EXCEPT !.pub = FALSE, !.served = FALSE,
                                      !.req = <<>>, !.joined = FALSE, !.seq = 0,
                                      !.out = IF flushed THEN @ ELSE <<>>]]
    /\ UNCHANGED <<client, pumps, resuming, watching, app, start>>

\* Its successor numbers from one and has no history.
Up ==
    /\ ~pub.up
    /\ pub' = [up |-> TRUE, run |-> pub.run + 1, seq |-> 0]
    /\ UNCHANGED <<subs, conn, client, pumps, resuming, watching, app, start, left>>

-----------------------------------------------------------------------------
\* The subscriber's connections.

Free(j) == /\ ~conn[j].sub
           /\ ~conn[j].served
           /\ conn[j].in = <<>>
           /\ j \notin pumps
           /\ ~ (app.stage = "calling" /\ app.conn = j)

\* connect_client: the connection in the slot, or a new one if it has closed.
\* The slot is locked while connecting.
Reached(k) == IF client # NoConn /\ conn[client].sub THEN k = client
              ELSE Free(k) /\ pub.up /\ left.connects > 0

\* The slot's connection, with a request pushed onto it.  A new one gets its
\* pump.
Asked(k, reqs) ==
    LET c == IF Free(k) THEN [Gone EXCEPT !.pub = TRUE, !.sub = TRUE,
                                          !.served = TRUE, !.run = pub.run]
                        ELSE conn[k] IN
    /\ client' = k
    /\ conn' = [conn EXCEPT ![k] = [c EXCEPT !.req = IF c.served THEN @ \o reqs
                                                                 ELSE @]]
    /\ left' = IF Free(k) THEN [left EXCEPT !.connects = @ - 1] ELSE left

Opened(k) == pumps \cup {k}

\* Some other call of this node reaches the publisher, reconnecting if needed.
Use(k) ==
    /\ Reached(k)
    /\ Free(k)
    /\ Asked(k, <<>>)
    /\ pumps' = Opened(k)
    /\ UNCHANGED <<pub, subs, resuming, watching, app, start>>

\* The reader: envelopes go to the pump's queue, replies to their caller.  The
\* first on this connection is the one subscribe waits for.
Read(j) ==
    LET c == conn[j]
        frame == Head(c.out) IN
    /\ c.sub
    /\ c.out # <<>>
    /\ IF frame.kind = "channel"
       THEN /\ Len(c.in) < InCap
            /\ conn' = [conn EXCEPT ![j].out = Tail(@),
                                    ![j].in = Append(@, frame.n)]
            /\ UNCHANGED app
       ELSE /\ conn' = [conn EXCEPT ![j].out = Tail(@)]
            /\ app' = IF app.stage = "calling" /\ app.conn = j /\ app.answer = {}
                      THEN [app EXCEPT !.answer = {frame.n}] ELSE app
    /\ UNCHANGED <<pub, subs, client, pumps, resuming, watching, start, left>>

\* Nothing more comes: the reader closes the connection.
EndOfFile(j) ==
    /\ conn[j].sub
    /\ ~conn[j].pub
    /\ conn[j].out = <<>>
    /\ conn' = [conn EXCEPT ![j].sub = FALSE]
    /\ UNCHANGED <<pub, subs, client, pumps, resuming, watching, app, start, left>>

\* The pump hands the next envelope to the watcher.  A full queue closes the
\* connection, but what its reader had already queued is still gone through.
Pump(j) ==
    LET c == conn[j]
        e == <<c.run, Head(c.in)>> IN
    /\ j \in pumps
    /\ c.in # <<>>
    /\ IF watcher /\ queued < QueueCap
       THEN /\ queued' = queued + 1
            /\ last' = Max({last, e[2]})
            /\ got' = got \cup {e}
            /\ conn' = [conn EXCEPT ![j].in = Tail(@)]
            /\ UNCHANGED refused
       ELSE /\ refused' = IF watcher THEN refused \cup {e} ELSE refused
            /\ conn' = [conn EXCEPT ![j].in = Tail(@),
                                    ![j].sub = @ /\ ~watcher,
                                    ![j].out = IF watcher THEN <<>> ELSE @]
            /\ UNCHANGED <<queued, last, got>>
    /\ UNCHANGED <<pub, subs, client, pumps, resuming, watcher, app, start, left>>

\* The handler takes the next.
Take ==
    /\ queued > 0
    /\ queued' = queued - 1
    /\ UNCHANGED <<wires, client, pumps, resuming, watcher, last, got, refused,
                   app, start, left>>

\* Mutant: the pump of a connection that ended just ends.
PumpForgets(j) ==
    /\ j \in pumps
    /\ ~conn[j].sub
    /\ conn[j].in = <<>>
    /\ pumps' = pumps \ {j}
    /\ UNCHANGED <<wires, client, resuming, watching, app, start, left>>

\* Mutant: it resumes one envelope too far.
PumpEndsPast(j) ==
    /\ j \in pumps
    /\ ~conn[j].sub
    /\ conn[j].in = <<>>
    /\ pumps' = pumps \ {j}
    /\ resuming' = IF watcher THEN resuming (+) SetToBag({last + 1}) ELSE resuming
    /\ conn' = [conn EXCEPT ![j].run = 0]
    /\ UNCHANGED <<pub, subs, client, watching, app, start, left>>

\* The connection has ended: if there is a watcher, resume after the last
\* number it was handed.
PumpEnds(j) ==
    /\ j \in pumps
    /\ ~conn[j].sub
    /\ conn[j].in = <<>>
    /\ pumps' = pumps \ {j}
    /\ resuming' = IF watcher THEN resuming (+) SetToBag({last}) ELSE resuming
    /\ conn' = [conn EXCEPT ![j].run = 0]
    /\ UNCHANGED <<pub, subs, client, watching, app, start, left>>

\* It asks on whatever connection it reaches; what becomes of the call is
\* not looked at, the pump of that connection cares for the rest.
Resume(s, k) ==
    /\ BagIn(s, resuming)
    /\ Reached(k)
    /\ Asked(k, <<[op |-> "subscribe", since |-> {s},
                    first |-> FALSE]>>)
    /\ pumps' = Opened(k)
    /\ resuming' = resuming (-) SetToBag({s})
    /\ UNCHANGED <<pub, subs, watching, app, start>>

\* The publisher stays unreachable for the connect timeout.
GiveUp(s) ==
    /\ BagIn(s, resuming)
    /\ ~pub.up
    /\ client = NoConn \/ ~conn[client].sub
    /\ resuming' = resuming (-) SetToBag({s})
    /\ watcher' = FALSE
    /\ queued' = IF watcher /\ queued < QueueCap THEN queued + 1 ELSE queued
    /\ UNCHANGED <<wires, client, pumps, last, got, refused, app, start, left>>

-----------------------------------------------------------------------------
\* The subscriber's own calls.

\* subscribe: the watcher is there before the request leaves.
Subscribe(k) ==
    /\ app.stage = "idle"
    /\ Reached(k)
    /\ \E s \in Sinces :
          /\ Asked(k, <<[op |-> "subscribe", since |-> s, first |-> TRUE]>>)
          /\ last' = IF s = {} THEN 0 ELSE Min(s)
          /\ app' = [stage |-> "calling", conn |-> k, since |-> s,
                     answer |-> {}]
          /\ start' = s
    /\ watcher' = TRUE
    /\ pumps' = Opened(k)
    /\ UNCHANGED <<pub, subs, resuming, queued, got, refused>>

\* Without a replay the subscription stands where the channel stood; with
\* one, envelopes below the reply's number may still be on their way.
Seeded == IF app.since = {} THEN Max({last} \cup app.answer) ELSE last

Subscribed ==
    /\ app.stage = "calling"
    /\ app.answer # {}
    /\ last' = Seeded
    /\ app' = [app EXCEPT !.stage = "subscribed", !.answer = {}]
    /\ UNCHANGED <<wires, client, pumps, resuming, watcher, queued, got, refused,
                   start, left>>

\* The connection ended before the reply: subscribe fails.
SubscribeFails ==
    /\ app.stage = "calling"
    /\ app.answer = {}
    /\ ~conn[app.conn].sub
    /\ watcher' = FALSE
    /\ app' = [app EXCEPT !.stage = "failed"]
    /\ UNCHANGED <<wires, client, pumps, resuming, last, queued, got, refused,
                   start, left>>

Unsubscribe(k) ==
    /\ app.stage = "subscribed"
    /\ Reached(k)
    /\ Asked(k, <<[op |-> "unsubscribe", since |-> {}, first |-> FALSE]>>)
    /\ pumps' = Opened(k)
    /\ watcher' = FALSE
    /\ app' = [app EXCEPT !.stage = "unsubscribed"]
    /\ UNCHANGED <<pub, subs, resuming, last, queued, got, refused, start>>

-----------------------------------------------------------------------------
PublisherStep == \/ \E j \in Conns : Leave(j) \/ Join(j) \/ Announce(j)
                 \/ \E j \in Conns : Left(j) \/ Hangup(j)

SubscriberStep == \/ \E j \in Conns : Read(j) \/ EndOfFile(j) \/ Pump(j)
                  \/ \E j \in Conns : PumpEnds(j)
                  \/ \E s \in BagToSet(resuming), k \in Conns : Resume(s, k)
                  \/ Take \/ Subscribed \/ SubscribeFails

External == \/ Publish \/ Down \/ Up
           \/ \E k \in Conns : Use(k) \/ Subscribe(k) \/ Unsubscribe(k)
           \/ \E s \in BagToSet(resuming) : GiveUp(s)

Next == PublisherStep \/ SubscriberStep \/ External

Spec == Init /\ [][Next]_vars

\* Both runtimes poll their tasks, the handler returns, and the base starts
\* a node again that it stopped to reload it.
FairSpec == Spec /\ WF_vars(PublisherStep) /\ WF_vars(SubscriberStep)
                 /\ WF_vars(Up)

-----------------------------------------------------------------------------
TypeOK ==
    /\ pub.up \in BOOLEAN /\ pub.run \in 0..MaxRestarts /\ pub.seq \in Nat
    /\ subs \subseteq Conns
    /\ \A j \in Conns :
          /\ {conn[j].pub, conn[j].sub, conn[j].served, conn[j].joined} \subseteq BOOLEAN
          /\ Len(conn[j].out) <= OutCap /\ Len(conn[j].in) <= InCap
    /\ pumps \subseteq Conns /\ BagToSet(resuming) \subseteq Nat
    /\ client \in Conns \cup {NoConn}
    /\ watcher \in BOOLEAN
    /\ last \in Nat /\ queued \in 0..QueueCap
    /\ app.stage \in {"idle", "calling", "subscribed", "failed",
                      "unsubscribed"}
    /\ start \subseteq Nat

\* What the subscription is not for: up to where it started, and, since a
\* position in an earlier run of the publisher is asked for in the next one,
\* up to the last it was handed then.
Past == start \cup {e[2] : e \in {f \in got : f[1] < pub.run}}

Owed(n) == \A m \in Past : n > m

Wire(j) == {conn[j].in[k] : k \in 1..Len(conn[j].in)}
           \cup {conn[j].out[k].n : k \in {m \in 1..Len(conn[j].out) :
                                        conn[j].out[m].kind = "channel"}}

InRun(S) == {e[2] : e \in {f \in S : f[1] = pub.run}}

\* A subscription is complete while it stands: what the publisher still has
\* in its history was handed over, refused by a full queue, or is on the way.
\* Replay and registration leave no hole, nor does a reconnection.
Complete ==
    \A j \in subs :
        conn[j].pub /\ conn[j].sub /\ watcher =>
            \A n \in History :
                Owed(n) => n \in InRun(got) \cup InRun(refused) \cup Wire(j)

\* Nothing is missed in silence: an envelope a later one overtook was refused
\* by a full queue or had left the publisher's history.
NoSilentLoss ==
    \A m \in InRun(got), n \in 1..pub.seq :
        Owed(n) /\ n < m =>
            \/ n \in InRun(got) \cup InRun(refused)
            \/ n \notin History

\* A subscription survives the publisher restarting and its own
\* disconnections: it stands again, or the subscriber gave up on it (or the
\* bound on connections is reached).
Stands == \E j \in subs : conn[j].pub /\ conn[j].sub

Survives == watcher ~> Stands \/ ~watcher \/ left.connects = 0

-----------------------------------------------------------------------------
\* "A subscriber that falls a full queue behind is disconnected and
\* resubscribes from the last envelope it took": what its queue refused comes
\* after the position it resumes from.
ResumesFromLastTaken ==
    \A s \in BagToSet(resuming), e \in refused \ got :
        e[1] = pub.run => s < e[2]
=============================================================================
