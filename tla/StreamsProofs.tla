--------------------------- MODULE StreamsProofs ---------------------------
(***************************************************************************)
(* Theorems about Streams, for every number of connections, every size of  *)
(* the history and of the queues, and every number of envelopes, restarts  *)
(* and reconnections: a subscription that stands has no hole (Complete),   *)
(* and nothing is missed in silence (NoSilentLoss).                        *)
(*                                                                         *)
(* The argument is about one set, what is still due: the numbers of the    *)
(* publisher's history that the subscription is for and that were neither  *)
(* handed over nor refused.  On every connection to the present run of the *)
(* publisher what is due comes in order: whatever is due before a number   *)
(* on the wire is on the wire before it.  So whatever position the         *)
(* subscriber holds (the last it was handed, and what it asked to resume   *)
(* from, however long ago) nothing due is below it, and a replay from      *)
(* there misses nothing.                                                   *)
(***************************************************************************)
EXTENDS Streams, FiniteSetTheorems, SequenceTheorems, TLAPS

-----------------------------------------------------------------------------
\* Types.

Maybe == {{}} \cup {{n} : n \in Nat}
Frame == [kind : {"channel", "reply"}, n : Nat]
Request == [op : {"subscribe", "unsubscribe"}, since : Maybe, first : BOOLEAN]
Connection == [pub : BOOLEAN, sub : BOOLEAN, served : BOOLEAN, run : Nat,
               out : Seq(Frame), in : Seq(Nat), req : Seq(Request),
               joined : BOOLEAN, seq : Nat]
Stage == {"idle", "calling", "subscribed", "failed", "unsubscribed"}

Typed ==
    /\ pub \in [up : BOOLEAN, run : Nat, seq : Nat]
    /\ subs \subseteq Conns
    /\ conn \in [Conns -> Connection]
    /\ client \in Conns \cup {NoConn}
    /\ pumps \subseteq Conns
    /\ BagToSet(resuming) \subseteq Nat
    /\ watcher \in BOOLEAN
    /\ last \in Nat
    /\ queued \in 0..QueueCap
    /\ app \in [stage : Stage, conn : Conns \cup {NoConn}, since : Maybe,
                answer : Maybe]
    /\ got \subseteq Nat \X Nat
    /\ refused \subseteq Nat \X Nat
    /\ start \subseteq Nat
    /\ left \in [data : Nat, restarts : Nat, connects : Nat]

Restarts == pub.run + left.restarts + (IF pub.up THEN 0 ELSE 1) = MaxRestarts

Fits == \A j \in Conns : Len(conn[j].out) <= OutCap /\ Len(conn[j].in) <= InCap

Bounded == Restarts /\ Fits

-----------------------------------------------------------------------------
\* The invariant.

\* What of the history the subscription is for and has not seen.
Missing == {n \in History : Owed(n) /\ n \notin InRun(got) \cup InRun(refused)}

\* What it still waits for.
Due == IF watcher THEN Missing ELSE {}

\* A connection has two ends, a pump and a run of the publisher.
LinkOK(c, j) ==
    /\ c.sub => j \in pumps
    /\ ~c.sub => c.out = <<>>
    /\ c.in # <<>> => j \in pumps
    /\ j \in subs => c.served
    /\ c.pub => c.served
    /\ c.served => pub.up
    /\ c.served /\ j \in pumps => c.run = pub.run
    /\ c.run <= pub.run
    /\ c.joined => c.req # <<>> /\ Head(c.req).op = "subscribe"

Links == \A j \in Conns : LinkOK(conn[j], j)

GotOK == \A e \in got : e[1] <= pub.run /\ (e[1] = pub.run => e[2] <= pub.seq)

\* The numbers on a wire, in the order in which the pump meets them.
Carried(c, n, k) == \E i \in 1..k : c.in[i] = n
Pushes(c, n, k) == \E i \in 1..k : c.out[i].kind = "channel" /\ c.out[i].n = n
Carries(c, n) == Carried(c, n, Len(c.in)) \/ Pushes(c, n, Len(c.out))

Numbered(c, top) ==
    /\ \A k \in 1..Len(c.in) : c.in[k] <= top
    /\ \A k \in 1..Len(c.out) : c.out[k].kind = "channel" => c.out[k].n <= top

Ordered(c, D) ==
    /\ \A k \in 1..Len(c.in), m \in D :
          m < c.in[k] => Carried(c, m, k - 1)
    /\ \A k \in 1..Len(c.out), m \in D :
          c.out[k].kind = "channel" /\ m < c.out[k].n =>
              Carried(c, m, Len(c.in)) \/ Pushes(c, m, k - 1)

WireOK(j) == conn[j].run = pub.run =>
                Numbered(conn[j], pub.seq) /\ Ordered(conn[j], Due)

Wires == \A j \in Conns : WireOK(j)

\* A position: where the subscription started or a number it was handed.
\* Nothing due is up to it.
Marks == {0} \cup start \cup {e[2] : e \in got}
Sound(s) == s \in Marks /\ \A n \in Due : s < n

RequestOK(r) == r.op = "subscribe" => /\ \A s \in r.since : Sound(s)
                                      /\ r.since = {} => r.first

AskedOK(j) == \A k \in 1..Len(conn[j].req) : RequestOK(conn[j].req[k])

Positions ==
    /\ watcher => Sound(last)
    /\ \A s \in BagToSet(resuming) : Sound(s)

Requests == \A j \in Conns : AskedOK(j)

\* What is due is on every connection that is registered and stands.
WholeOK(j) == j \in subs /\ conn[j].pub /\ conn[j].sub =>
                  \A n \in Due : Carries(conn[j], n)

Whole == \A j \in Conns : WholeOK(j)

Seen == \A m \in InRun(got), n \in Missing : m <= n

\* Before subscribe nothing of the channel is anywhere.
Idle ==
    app.stage = "idle" =>
        /\ subs = {}
        /\ BagToSet(resuming) = {}
        /\ ~watcher
        /\ got = {}
        /\ refused = {}
        /\ \A j \in Conns : /\ conn[j].out = <<>>
                            /\ conn[j].in = <<>>
                            /\ conn[j].req = <<>>
                            /\ ~conn[j].joined

\* The first reply on the connection subscribe went out on says where the
\* subscription starts.
NoReply(c, k) == \A i \in 1..k : c.out[i].kind = "channel"

FirstReply(c, S) ==
    /\ \A k \in 1..Len(c.out) :
          c.out[k].kind = "reply" /\ NoReply(c, k - 1) => c.out[k].n \in S
    /\ NoReply(c, Len(c.out)) /\ c.pub /\ c.sub =>
          /\ c.req # <<>>
          /\ Head(c.req).op = "subscribe"
          /\ Head(c.req).since = {}
          /\ Head(c.req).first
          /\ c.joined => c.seq \in S

First(j) == FirstReply(conn[j], start)

Answering ==
    app.stage = "calling" =>
        /\ app.conn \in Conns
        /\ app.since = {} =>
              /\ app.answer \subseteq start
              /\ app.answer = {} => First(app.conn)

IInv == /\ Links /\ Wires /\ Requests /\ Whole
        /\ GotOK /\ Seen /\ Positions /\ Idle /\ Answering

-----------------------------------------------------------------------------
\* The operators of the model.

\* A pushed frame leaves a connection.
LEMMA PushedType ==
    ASSUME NEW c \in Connection, NEW f \in Frame
    PROVE  Pushed(c, f) \in Connection
<1>1. Append(c.out, f) \in Seq(Frame) BY DEF Connection
<1>2. \A o \in Seq(Frame) : [c EXCEPT !.out = o] \in Connection BY DEF Connection
<1>3. [c EXCEPT !.pub = FALSE] \in Connection BY DEF Connection
<1>4. QED BY <1>1, <1>2, <1>3 DEF Pushed

LEMMA FramesType ==
    ASSUME NEW n \in Nat
    PROVE  Envelope(n) \in Frame /\ Reply(n) \in Frame
BY DEF Envelope, Reply, Frame

\* What a pushed frame does to each field.
LEMMA PushedFields ==
    ASSUME NEW c \in Connection, NEW f \in Frame
    PROVE  /\ Pushed(c, f).sub = c.sub
           /\ Pushed(c, f).served = c.served
           /\ Pushed(c, f).run = c.run
           /\ Pushed(c, f).in = c.in
           /\ Pushed(c, f).req = c.req
           /\ Pushed(c, f).joined = c.joined
           /\ Pushed(c, f).seq = c.seq
           /\ Pushed(c, f).pub => c.pub
           /\ \/ Pushed(c, f).out = c.out
              \/ c.pub /\ c.sub /\ Pushed(c, f).out = Append(c.out, f)
           /\ Pushed(c, f).pub /\ c.sub => Pushed(c, f).out = Append(c.out, f)
           /\ Len(c.out) <= OutCap => Len(Pushed(c, f).out) <= OutCap
BY CapacityAssumption DEF Pushed, Connection

\* The numbers of an interval one after the other.
LEMMA InARow ==
    ASSUME NEW a \in Nat, NEW b \in Nat, a <= b + 1,
           NEW k \in 1..Cardinality(a..b)
    PROVE  /\ Cardinality(a..b) = b - a + 1
           /\ (CHOOSE n \in a..b : Cardinality({m \in a..b : m < n}) = k - 1)
                 = a + k - 1
<1>1. Cardinality(a..b) = b - a + 1
  <2>1. CASE a <= b BY <2>1, FS_Interval
  <2>2. CASE a = b + 1
    <3>1. a..b = {} BY <2>2
    <3>2. QED BY <3>1, <2>2, FS_EmptySet
  <2>3. QED BY <2>1, <2>2
<1>2. ASSUME NEW n \in a..b
      PROVE  Cardinality({m \in a..b : m < n}) = n - a
  <2>1. {m \in a..b : m < n} = a..(n - 1) BY <1>2
  <2>2. n \in Nat /\ n - 1 \in Int /\ a <= n BY <1>2
  <2>3. Cardinality(a..(n - 1)) = IF a > n - 1 THEN 0 ELSE (n - 1) - a + 1
    BY <2>2, FS_Interval
  <2>4. (IF a > n - 1 THEN 0 ELSE (n - 1) - a + 1) = n - a BY <2>2
  <2>5. QED BY <2>1, <2>3, <2>4
<1>3. a + k - 1 \in a..b BY <1>1
<1>4. Cardinality({m \in a..b : m < a + k - 1}) = k - 1 BY <1>2, <1>3
<1>5. \A n \in a..b : Cardinality({m \in a..b : m < n}) = k - 1
                         => n = a + k - 1
  <2>1. \A n \in a..b : n - a = k - 1 => n = a + k - 1
    <3>1. k \in Int BY <1>1
    <3>2. QED BY <3>1
  <2>2. QED BY <1>2, <2>1
<1>6. QED BY <1>1, <1>3, <1>4, <1>5

\* What join replays after s: the numbers from some a on to the last.
LEMMA ReplayIs ==
    ASSUME Typed, NEW s \in Nat
    PROVE  \E a \in Nat : /\ 0 < a
                          /\ a <= pub.seq + 1
                          /\ Replay({s}) = a..pub.seq
                          /\ \A n \in History : s < n => a <= n
<1>1. pub.seq \in Nat /\ HISTORY \in Nat BY CapacityAssumption DEF Typed
<1> DEFINE x == IF s < pub.seq - HISTORY THEN pub.seq - HISTORY ELSE s
           a == IF x < pub.seq THEN x + 1 ELSE pub.seq + 1
<1>2. x \in Nat /\ a \in Nat /\ 0 < a /\ a <= pub.seq + 1 BY <1>1
<1>3. Replay({s}) = a..pub.seq BY <1>1 DEF Replay, History
<1>4. \A n \in History : s < n => a <= n BY <1>1 DEF History
<1>5. QED BY <1>2, <1>3, <1>4

LEMMA ReplayNone == Replay({}) = {}
BY DEF Replay

\* d is c with as many of the numbers from a to b as fit, in order.
Appends(c, d, a, b) ==
    \E n \in Nat :
        /\ Len(c.out) + n <= OutCap
        /\ a + n - 1 <= b
        /\ d = [c EXCEPT !.out = @ \o [k \in 1..n |-> Envelope(a + k - 1)],
                         !.pub = (a + n - 1 = b)]

\* The replay on a connection.
LEMMA ReplayedIs ==
    ASSUME NEW a \in Nat, NEW b \in Nat, 0 < a, a <= b + 1,
           NEW c \in Connection
    PROVE  c.pub /\ c.sub /\ Len(c.out) <= OutCap
              => Appends(c, Replayed(c, a..b), a, b)
<1> DEFINE size == b - a + 1
           len == Len(c.out)
           room == OutCap - len
           seen(k) == CHOOSE i \in a..b : Cardinality({m \in a..b : m < i}) = k - 1
           frames == [k \in 1..Cardinality(a..b) |->
                         Envelope(seen(k))]
           row == [k \in 1..size |-> Envelope(a + k - 1)]
<1>b. SUFFICES ASSUME c.pub /\ c.sub /\ Len(c.out) <= OutCap
               PROVE  \E n \in Nat :
                         /\ Len(c.out) + n <= OutCap
                         /\ a + n - 1 <= b
                         /\ Replayed(c, a..b) =
                              [c EXCEPT
                                 !.out = @ \o [k \in 1..n |-> Envelope(a + k - 1)],
                                 !.pub = (a + n - 1 = b)]
  BY DEF Appends
<1>0. OutCap \in Nat /\ size \in Nat /\ len \in Nat /\ len <= OutCap
  BY <1>b, CapacityAssumption DEF Connection
<1> HIDE DEF len
<1>1. PICK n \in Nat : /\ size <= room => n = size
                       /\ ~ (size <= room) => n = room
  <2>1. size \in Nat /\ room \in Nat BY <1>0
  <2> HIDE DEF size, room
  <2>2. CASE size <= room BY <2>1, <2>2
  <2>3. CASE ~ (size <= room) BY <2>1, <2>3
  <2>4. QED BY <2>2, <2>3
<1>a. /\ len + n <= OutCap
      /\ a + n - 1 <= b
      /\ n <= size
      /\ (size <= room) <=> (a + n - 1 = b)
      /\ room \in Nat
  BY <1>0, <1>1
<1>2. Cardinality(a..b) = size
  <2>1. CASE a <= b BY <2>1, FS_Interval
  <2>2. CASE a = b + 1
    <3>1. a..b = {} BY <2>2
    <3>2. QED BY <3>1, <2>2, FS_EmptySet
  <2>3. QED BY <2>1, <2>2
<1>3. frames = row
  <2>1. \A k \in 1..Cardinality(a..b) : seen(k) = a + k - 1
    BY InARow
  <2> HIDE DEF seen
  <2>2. QED BY <1>2, <2>1
<1>4. Len(row) = size /\ row \in Seq(Frame)
  <2>1. \A k \in 1..size : Envelope(a + k - 1) \in Frame BY FramesType
  <2>2. QED BY <1>0, <2>1
<1>5. Min({room, size}) = n
  <2> HIDE DEF room, size
  <2>1. n \in {room, size} /\ \A y \in {room, size} : n <= y
    BY <1>0, <1>1, <1>a
  <2>2. \A x \in {room, size} : (\A y \in {room, size} : x <= y) => x = n
    BY <1>0, <1>1, <1>a
  <2>3. QED BY <2>1, <2>2 DEF Min
<1>6. SubSeq(row, 1, n) = [k \in 1..n |-> Envelope(a + k - 1)]
  <2>1. n <= size BY <1>a
  <2>2. QED BY <1>0, <1>1, <1>4, <2>1
<1>7. Len(c.out) + n <= OutCap /\ a + n - 1 <= b BY <1>a DEF len
<1>9. Replayed(c, a..b) = [c EXCEPT !.out = @ \o SubSeq(frames, 1, Min({room, Len(frames)})),
                                    !.pub = Len(frames) <= room]
  BY <1>b DEF Replayed, len
<1>10. Replayed(c, a..b) = [c EXCEPT !.out = @ \o SubSeq(row, 1, n),
                                     !.pub = (size <= room)]
  <2> HIDE DEF frames, row, size, room
  <2>1. QED BY <1>3, <1>4, <1>5, <1>9
<1>11. QED
  <2> HIDE DEF frames, row, size, room
  <2>1. (size <= room) = (a + n - 1 = b) BY <1>a
  <2>2. [c EXCEPT !.out = @ \o SubSeq(row, 1, n), !.pub = (size <= room)]
           = [c EXCEPT !.out = @ \o [k \in 1..n |-> Envelope(a + k - 1)],
                       !.pub = (a + n - 1 = b)]
    BY <1>6, <2>1
  <2>3. QED BY <1>7, <1>10, <2>2

-----------------------------------------------------------------------------
\* Sequences.

LEMMA Appended ==
    ASSUME NEW S, NEW s \in Seq(S), NEW e \in S
    PROVE  /\ Append(s, e) \in Seq(S)
           /\ Len(s) \in Nat
           /\ Len(Append(s, e)) = Len(s) + 1
           /\ \A i \in 1..Len(s) : Append(s, e)[i] = s[i]
           /\ Append(s, e)[Len(s) + 1] = e
OBVIOUS

LEMMA HeadAndTail ==
    ASSUME NEW S, NEW s \in Seq(S), s # <<>>
    PROVE  /\ Len(s) \in Nat \ {0}
           /\ Head(s) = s[1]
           /\ Head(s) \in S
           /\ Tail(s) \in Seq(S)
           /\ Len(Tail(s)) = Len(s) - 1
           /\ \A i \in 1..(Len(s) - 1) : Tail(s)[i] = s[i + 1]
OBVIOUS

LEMMA NotEmpty ==
    ASSUME NEW S, NEW s \in Seq(S), s # <<>>
    PROVE  \E l \in Nat : Len(s) = l + 1
<1>1. Len(s) \in Nat \ {0} OBVIOUS
<1>2. Len(s) - 1 \in Nat /\ Len(s) = (Len(s) - 1) + 1 BY <1>1
<1>3. QED BY <1>2

LEMMA Concatenated ==
    \A s \in Seq(Frame), t \in Seq(Frame) :
        /\ Len(s \o t) = Len(s) + Len(t)
        /\ \A i \in 1..Len(s) : (s \o t)[i] = s[i]
        /\ \A i \in 1..Len(t) : (s \o t)[Len(s) + i] = t[i]
OBVIOUS

-----------------------------------------------------------------------------
\* The wire of one connection: what a step does to the order on it.

LEMMA WireType ==
    ASSUME NEW c \in Connection
    PROVE  /\ c.in \in Seq(Nat) /\ c.out \in Seq(Frame)
           /\ Len(c.in) \in Nat /\ Len(c.out) \in Nat
           /\ \A k \in 1..Len(c.in) : c.in[k] \in Nat
           /\ \A k \in 1..Len(c.out) : c.out[k] \in Frame
           /\ \A k \in 1..Len(c.out) :
                 c.out[k].n \in Nat /\ c.out[k].kind \in {"channel", "reply"}
<1>1. c.in \in Seq(Nat) /\ c.out \in Seq(Frame) BY DEF Connection
<1>2. \A k \in 1..Len(c.out) : c.out[k] \in Frame BY <1>1
<1>3. QED BY <1>1, <1>2 DEF Frame

\* Numbers beyond the last do not disturb what is on the wire.
LEMMA Undisturbed ==
    ASSUME NEW c \in Connection, NEW d \in Connection,
           d.in = c.in, d.out = c.out,
           NEW top \in Nat, NEW new \in Nat, NEW D \in SUBSET Nat,
           NEW E \in SUBSET Nat, top <= new,
           \A m \in E : m \in D \/ m > top,
           Numbered(c, top), Ordered(c, D)
    PROVE  Numbered(d, new) /\ Ordered(d, E)
<1>1. /\ \A k \in 1..Len(c.in) : c.in[k] \in Nat
      /\ \A k \in 1..Len(c.out) : c.out[k].n \in Nat
  BY WireType
<1>2. Numbered(d, new) BY <1>1 DEF Numbered
<1>3. Ordered(d, E) BY <1>1 DEF Numbered, Ordered, Carried, Pushes
<1>4. QED BY <1>2, <1>3

\* An envelope with the next number.
LEMMA EnvelopePushed ==
    ASSUME NEW c \in Connection, NEW d \in Connection, NEW top \in Nat,
           d.in = c.in, d.out = Append(c.out, Envelope(top + 1)),
           NEW D \in SUBSET Nat, NEW E \in SUBSET Nat,
           E \subseteq D \cup {top + 1},
           Numbered(c, top), Ordered(c, D), \A n \in D : Carries(c, n)
    PROVE  /\ Numbered(d, top + 1)
           /\ Ordered(d, E)
           /\ \A n \in E : Carries(d, n)
<1> DEFINE e == Envelope(top + 1)
<1>1. /\ \A k \in 1..Len(c.in) : c.in[k] \in Nat
      /\ \A k \in 1..Len(c.out) : c.out[k].n \in Nat
      /\ Len(c.in) \in Nat
      /\ c.out \in Seq(Frame)
  BY WireType
<1>2. e \in Frame /\ e.kind = "channel" /\ e.n = top + 1
  BY DEF Envelope, Frame
<1>3. /\ Len(d.out) = Len(c.out) + 1
      /\ Len(c.out) \in Nat
      /\ \A i \in 1..Len(c.out) : d.out[i] = c.out[i]
      /\ d.out[Len(c.out) + 1] = e
  BY <1>1, <1>2, Appended
<1> HIDE DEF e
<1>a. PICK l \in Nat : l = Len(c.out)
  BY <1>3
<1>b. /\ l \in 0..(l + 1) /\ l + 1 \in 1..(l + 1)
      /\ \A i \in 1..(l + 1) : i \in 1..l \/ i = l + 1
      /\ \A i \in 1..l : i \in 1..(l + 1)
  OBVIOUS
<1>4. Numbered(d, top + 1)
  <2>1. \A k \in 1..Len(d.in) : d.in[k] <= top + 1
    BY <1>1 DEF Numbered
  <2>2. \A k \in 1..l : c.out[k].kind = "channel" => c.out[k].n <= top + 1
    BY <1>1, <1>a DEF Numbered
  <2>3. \A k \in 1..Len(d.out) : d.out[k].kind = "channel" => d.out[k].n <= top + 1
    BY <1>2, <1>3, <1>a, <1>b, <2>2
  <2>4. QED BY <2>1, <2>3 DEF Numbered
<1>5. \A n \in E : Carries(d, n)
  <2>1. ASSUME NEW n \in D, n \in E PROVE Carries(d, n)
    <3>1. Carries(c, n) BY <2>1
    <3>2. CASE Carried(c, n, Len(c.in)) BY <3>2 DEF Carries, Carried
    <3>3. CASE Pushes(c, n, Len(c.out))
      BY <1>3, <1>a, <1>b, <3>3 DEF Carries, Pushes
    <3>4. QED BY <3>1, <3>2, <3>3 DEF Carries
  <2>2. Carries(d, top + 1)
    BY <1>2, <1>3, <1>a, <1>b DEF Carries, Pushes
  <2>3. QED BY <2>1, <2>2
<1>6. Ordered(d, E)
  <2>1. ASSUME NEW k \in 1..Len(d.in), NEW m \in E, m < d.in[k]
        PROVE  Carried(d, m, k - 1)
    BY <1>1, <2>1 DEF Numbered, Ordered, Carried
  <2>2. ASSUME NEW k \in 1..Len(d.out), NEW m \in E,
               d.out[k].kind = "channel", m < d.out[k].n
        PROVE  Carried(d, m, Len(d.in)) \/ Pushes(d, m, k - 1)
    <3>1. CASE k \in 1..Len(c.out)
      <4>1. m < c.out[k].n /\ c.out[k].n <= top /\ c.out[k].kind = "channel"
        BY <1>3, <2>2, <3>1 DEF Numbered
      <4>2. m \in D
        <5>1. m \in Nat /\ c.out[k].n \in Nat BY <1>1, <3>1
        <5>2. m # top + 1 BY <4>1, <5>1
        <5>3. QED BY <5>2
      <4>3. Carried(c, m, Len(c.in)) \/ Pushes(c, m, k - 1)
        BY <3>1, <4>1, <4>2 DEF Ordered
      <4>4. \A i \in 1..(k - 1) : d.out[i] = c.out[i] BY <1>3, <3>1
      <4>5. QED BY <4>3, <4>4 DEF Carried, Pushes
    <3>2. CASE k = Len(c.out) + 1
      <4>1. m \in D BY <1>2, <1>3, <2>2, <3>2
      <4>2. Carries(c, m) BY <4>1
      <4>3. QED BY <1>3, <3>2, <4>2 DEF Carries, Carried, Pushes
    <3>3. QED BY <1>3, <3>1, <3>2
  <2>3. QED BY <2>1, <2>2 DEF Ordered
<1>7. QED BY <1>4, <1>5, <1>6

\* A reply is not of the channel.
LEMMA ReplyPushed ==
    ASSUME NEW c \in Connection, NEW d \in Connection, NEW r \in Nat,
           d.in = c.in, d.out = Append(c.out, Reply(r)),
           NEW top \in Nat, NEW D \in SUBSET Nat,
           Numbered(c, top), Ordered(c, D)
    PROVE  /\ Numbered(d, top)
           /\ Ordered(d, D)
           /\ \A n \in D : Carries(c, n) => Carries(d, n)
<1> DEFINE e == Reply(r)
<1>1. c.out \in Seq(Frame) /\ Len(c.in) \in Nat
  BY DEF Connection
<1>2. e \in Frame /\ e.kind = "reply"
  BY DEF Reply, Frame
<1>3. /\ Len(d.out) = Len(c.out) + 1
      /\ Len(c.out) \in Nat
      /\ \A i \in 1..Len(c.out) : d.out[i] = c.out[i]
      /\ d.out[Len(c.out) + 1] = e
  BY <1>1, <1>2, Appended
<1> HIDE DEF e
<1>4. Numbered(d, top) BY <1>2, <1>3 DEF Numbered
<1>5. \A n \in D : Carries(c, n) => Carries(d, n)
  BY <1>3 DEF Carries, Carried, Pushes
<1>6. Ordered(d, D)
  <2>1. ASSUME NEW k \in 1..Len(d.in), NEW m \in D, m < d.in[k]
        PROVE  Carried(d, m, k - 1)
    BY <2>1 DEF Ordered, Carried
  <2>2. ASSUME NEW k \in 1..Len(d.out), NEW m \in D,
               d.out[k].kind = "channel", m < d.out[k].n
        PROVE  Carried(d, m, Len(d.in)) \/ Pushes(d, m, k - 1)
    <3>1. k \in 1..Len(c.out) BY <1>2, <1>3, <2>2
    <3>2. Carried(c, m, Len(c.in)) \/ Pushes(c, m, k - 1)
      BY <1>3, <2>2, <3>1 DEF Ordered
    <3>3. \A i \in 1..(k - 1) : d.out[i] = c.out[i] BY <1>3, <3>1
    <3>4. QED BY <3>2, <3>3 DEF Carried, Pushes
  <2>3. QED BY <2>1, <2>2 DEF Ordered
<1>7. QED BY <1>4, <1>5, <1>6

\* A replay of the n numbers from a on, where nothing due is below a.
Replays(c, d, a, n) ==
    /\ d.in = c.in
    /\ \E t \in Seq(Frame) : /\ Len(t) = n
                             /\ \A k \in 1..n : t[k] = Envelope(a + k - 1)
                             /\ d.out = c.out \o t

LEMMA ReplayPushed ==
    ASSUME NEW c \in Connection, NEW d \in Connection,
           NEW a \in Nat, NEW n \in Nat, NEW top \in Nat, a + n - 1 <= top,
           Replays(c, d, a, n),
           NEW D \in SUBSET Nat, \A m \in D : a <= m /\ m <= top,
           Numbered(c, top), Ordered(c, D)
    PROVE  /\ Numbered(d, top)
           /\ Ordered(d, D)
           /\ a + n - 1 = top => \A m \in D : Carries(d, m)
<1>0. PICK t \in Seq(Frame) : /\ Len(t) = n
                              /\ \A k \in 1..n : t[k] = Envelope(a + k - 1)
                              /\ d.out = c.out \o t
  BY DEF Replays
<1>d. d.in = c.in BY DEF Replays
<1>1. /\ c.out \in Seq(Frame) /\ Len(c.in) \in Nat
      /\ \A k \in 1..Len(c.in) : c.in[k] \in Nat
      /\ \A k \in 1..Len(c.out) : c.out[k].n \in Nat
  BY WireType
<1>2. \A k \in 1..n : t[k].kind = "channel" /\ t[k].n = a + k - 1
  BY <1>0 DEF Envelope
<1>3. PICK l \in Nat : l = Len(c.out) BY <1>1
<1>4. /\ Len(d.out) = l + n
      /\ \A i \in 1..l : d.out[i] = c.out[i]
      /\ \A i \in 1..n : d.out[l + i] = t[i]
  <2>1. \A o \in Seq(Frame) :
           /\ Len(o \o t) = Len(o) + Len(t)
           /\ \A i \in 1..Len(o) : (o \o t)[i] = o[i]
           /\ \A i \in 1..Len(t) : (o \o t)[Len(o) + i] = t[i]
    BY Concatenated
  <2>2. PICK o \in Seq(Frame) : o = c.out BY <1>1
  <2>3. d.out = o \o t /\ Len(o) = l /\ Len(t) = n BY <1>0, <1>3, <2>2
  <2>4. QED BY <1>0, <2>1, <2>2, <2>3
<1>5. \A i \in 1..n : d.out[l + i].kind = "channel" /\ d.out[l + i].n = a + i - 1
  BY <1>2, <1>4
<1>a. \A k \in 1..Len(d.out) :
         \/ k \in 1..l /\ d.out[k] = c.out[k]
         \/ \E i \in 1..n : /\ k = l + i
                            /\ d.out[k].kind = "channel"
                            /\ d.out[k].n = a + i - 1
  <2>1. ASSUME NEW k \in 1..(l + n), k \notin 1..l
        PROVE  \E i \in 1..n : k = l + i
    <3>1. k - l \in 1..n /\ k = l + (k - l) BY <1>3, <2>1
    <3>2. QED BY <3>1
  <2>2. ASSUME NEW k \in 1..Len(d.out)
        PROVE  \/ k \in 1..l /\ d.out[k] = c.out[k]
               \/ \E i \in 1..n : /\ k = l + i
                                  /\ d.out[k].kind = "channel"
                                  /\ d.out[k].n = a + i - 1
    <3>1. k \in 1..(l + n) BY <1>4
    <3>2. CASE k \in 1..l BY <1>4, <3>2
    <3>3. CASE k \notin 1..l
      <4>1. PICK i \in 1..n : k = l + i BY <2>1, <3>1, <3>3
      <4>2. QED BY <1>5, <4>1
    <3>4. QED BY <3>2, <3>3
  <2>3. QED BY <2>2
<1>b. Numbered(d, top)
  <2>1. \A k \in 1..Len(d.in) : d.in[k] <= top BY <1>d DEF Numbered
  <2>2. \A k \in 1..l : c.out[k].kind = "channel" => c.out[k].n <= top
    BY <1>3 DEF Numbered
  <2>3. \A i \in 1..n : a + i - 1 <= top OBVIOUS
  <2>4. QED BY <1>a, <2>1, <2>2, <2>3 DEF Numbered
<1>6. \A m \in D, i \in 1..n : m < a + i - 1 => Pushes(d, m, l + i - 1)
  <2> SUFFICES ASSUME NEW m \in D, NEW i \in 1..n, m < a + i - 1
               PROVE  Pushes(d, m, l + i - 1)
    OBVIOUS
  <2>1. m - a + 1 \in 1..n /\ m - a + 1 < i /\ a + (m - a + 1) - 1 = m
    OBVIOUS
  <2>2. PICK x \in 1..n : x < i /\ a + x - 1 = m BY <2>1
  <2>3. l + x \in 1..(l + i - 1) BY <1>3, <2>2
  <2>4. d.out[l + x].kind = "channel" /\ d.out[l + x].n = m
    BY <1>5, <2>2
  <2>5. QED BY <2>3, <2>4 DEF Pushes
<1>7. Ordered(d, D)
  <2>1. ASSUME NEW k \in 1..Len(d.in), NEW m \in D, m < d.in[k]
        PROVE  Carried(d, m, k - 1)
    BY <1>d, <2>1 DEF Ordered, Carried
  <2>2. ASSUME NEW k \in 1..Len(d.out), NEW m \in D,
               d.out[k].kind = "channel", m < d.out[k].n
        PROVE  Carried(d, m, Len(d.in)) \/ Pushes(d, m, k - 1)
    <3>1. CASE k \in 1..l /\ d.out[k] = c.out[k]
      <4>1. Carried(c, m, Len(c.in)) \/ Pushes(c, m, k - 1)
        BY <1>3, <2>2, <3>1 DEF Ordered
      <4>2. \A i \in 1..(k - 1) : d.out[i] = c.out[i] BY <1>3, <1>4, <3>1
      <4>3. QED BY <1>d, <4>1, <4>2 DEF Carried, Pushes
    <3>2. CASE \E i \in 1..n : k = l + i /\ d.out[k].n = a + i - 1
      <4>1. PICK i \in 1..n : k = l + i /\ d.out[k].n = a + i - 1 BY <3>2
      <4>2. m < a + i - 1 BY <2>2, <4>1
      <4>3. Pushes(d, m, l + i - 1) BY <1>6, <4>2
      <4>4. QED BY <4>1, <4>3
    <3>3. QED BY <1>a, <2>2, <3>1, <3>2
  <2>3. QED BY <2>1, <2>2 DEF Ordered
<1>8. ASSUME a + n - 1 = top, NEW m \in D PROVE Carries(d, m)
  <2>1. m - a + 1 \in 1..n /\ a + (m - a + 1) - 1 = m BY <1>8
  <2>2. PICK x \in 1..n : a + x - 1 = m BY <2>1
  <2>3. l + x \in 1..(l + n) BY <1>3, <2>2
  <2>4. d.out[l + x].kind = "channel" /\ d.out[l + x].n = m BY <1>5, <2>2
  <2>5. QED BY <1>4, <2>3, <2>4 DEF Carries, Pushes
<1>9. QED BY <1>b, <1>7, <1>8

\* The reader moves an envelope from one queue to the other.
LEMMA EnvelopeRead ==
    ASSUME NEW c \in Connection, NEW d \in Connection,
           c.out # <<>>, c.out[1].kind = "channel",
           d.in = Append(c.in, c.out[1].n), d.out = Tail(c.out),
           NEW top \in Nat, NEW D \in SUBSET Nat,
           Numbered(c, top), Ordered(c, D)
    PROVE  /\ Numbered(d, top)
           /\ Ordered(d, D)
           /\ \A n \in D : Carries(c, n) => Carries(d, n)
<1>1. PICK x \in Nat : x = c.out[1].n
  <2>1. c.out \in Seq(Frame) BY WireType
  <2>2. c.out[1] \in Frame BY <2>1, HeadAndTail
  <2>3. QED BY <2>2 DEF Frame
<1>2. PICK l \in Nat : l = Len(c.in) BY WireType
<1>3. /\ Len(d.in) = l + 1
      /\ \A i \in 1..l : d.in[i] = c.in[i]
      /\ d.in[l + 1] = x
  <2>1. c.in \in Seq(Nat) BY WireType
  <2>2. d.in = Append(c.in, x) BY <1>1
  <2>3. QED BY <1>2, <2>1, <2>2, Appended
<1>4. PICK o \in Nat : Len(c.out) = o + 1
  BY WireType, NotEmpty
<1>5. Len(d.out) = o /\ \A i \in 1..o : d.out[i] = c.out[i + 1]
  <2>1. c.out \in Seq(Frame) BY WireType
  <2>2. /\ Len(Tail(c.out)) = Len(c.out) - 1
        /\ \A i \in 1..(Len(c.out) - 1) : Tail(c.out)[i] = c.out[i + 1]
    BY <2>1, HeadAndTail
  <2>3. QED BY <1>4, <2>2
<1>6. Numbered(d, top)
  <2>1. x <= top BY <1>1, <1>4 DEF Numbered
  <2>2. \A k \in 1..l : c.in[k] <= top BY <1>2 DEF Numbered
  <2>3. \A k \in 1..o : c.out[k + 1].kind = "channel" => c.out[k + 1].n <= top
    BY <1>4 DEF Numbered
  <2>4. \A k \in 1..Len(d.in) : k \in 1..l \/ k = l + 1 BY <1>3
  <2>5. QED BY <1>3, <1>5, <2>1, <2>2, <2>3, <2>4 DEF Numbered
<1>7. \A n \in D : Carried(c, n, l) => Carried(d, n, l)
  BY <1>3 DEF Carried
<1>8. ASSUME NEW n \in D, NEW k \in 1..(o + 1), Pushes(c, n, k)
      PROVE  Carried(d, n, l + 1) \/ Pushes(d, n, k - 1)
  <2>1. PICK i \in 1..k : c.out[i].kind = "channel" /\ c.out[i].n = n
    BY <1>8 DEF Pushes
  <2>2. CASE i = 1
    <3>1. d.in[l + 1] = n BY <1>1, <1>3, <2>1, <2>2
    <3>2. l + 1 \in 1..(l + 1) OBVIOUS
    <3>3. QED BY <3>1, <3>2 DEF Carried
  <2>3. CASE i # 1
    <3>1. i - 1 \in 1..(k - 1) /\ i - 1 \in 1..o BY <1>8, <2>3
    <3>2. d.out[i - 1] = c.out[i] BY <1>5, <3>1
    <3>3. QED BY <2>1, <3>1, <3>2 DEF Pushes
  <2>4. QED BY <2>2, <2>3
<1>9. \A n \in D : Carries(c, n) => Carries(d, n)
  <2>1. ASSUME NEW n \in D, Carried(c, n, l) PROVE Carried(d, n, l + 1)
    <3>1. PICK i \in 1..l : d.in[i] = n BY <1>7, <2>1 DEF Carried
    <3>2. i \in 1..(l + 1) OBVIOUS
    <3>3. QED BY <3>1, <3>2 DEF Carried
  <2>2. ASSUME NEW n \in D, Pushes(c, n, o + 1) PROVE Carries(d, n)
    BY <1>3, <1>5, <1>8, <2>2 DEF Carries
  <2>3. QED BY <1>2, <1>3, <1>4, <2>1, <2>2 DEF Carries
<1>10. Ordered(d, D)
  <2>1. ASSUME NEW k \in 1..Len(d.in), NEW m \in D, m < d.in[k]
        PROVE  Carried(d, m, k - 1)
    <3>1. CASE k \in 1..l
      BY <1>2, <1>3, <2>1, <3>1 DEF Ordered, Carried
    <3>2. CASE k = l + 1
      <4>1. 1 \in 1..Len(c.out) BY <1>4
      <4>2. m < c.out[1].n BY <1>1, <1>3, <2>1, <3>2
      <4>3. Carried(c, m, l) \/ Pushes(c, m, 1 - 1)
        BY <1>2, <4>1, <4>2 DEF Ordered
      <4>4. ~Pushes(c, m, 1 - 1) BY DEF Pushes
      <4>5. Carried(d, m, l) BY <1>7, <4>3, <4>4
      <4>6. QED BY <3>2, <4>5
    <3>3. QED BY <1>3, <3>1, <3>2
  <2>2. ASSUME NEW k \in 1..Len(d.out), NEW m \in D,
               d.out[k].kind = "channel", m < d.out[k].n
        PROVE  Carried(d, m, Len(d.in)) \/ Pushes(d, m, k - 1)
    <3>1. k \in 1..o /\ k + 1 \in 1..Len(c.out) BY <1>4, <1>5
    <3>2. c.out[k + 1].kind = "channel" /\ m < c.out[k + 1].n
      BY <1>5, <2>2, <3>1
    <3>3. Carried(c, m, l) \/ Pushes(c, m, k + 1 - 1)
      BY <1>2, <3>1, <3>2 DEF Ordered
    <3>4. CASE Carried(c, m, l)
      BY <1>3, <1>7, <3>4 DEF Carried
    <3>5. CASE Pushes(c, m, k)
      BY <1>3, <1>8, <3>1, <3>5
    <3>6. k + 1 - 1 = k BY <3>1
    <3>7. QED BY <3>3, <3>4, <3>5, <3>6
  <2>3. QED BY <2>1, <2>2 DEF Ordered
<1>11. QED BY <1>6, <1>9, <1>10

\* It hands a reply to its caller.
LEMMA ReplyRead ==
    ASSUME NEW c \in Connection, NEW d \in Connection,
           c.out # <<>>, c.out[1].kind = "reply",
           d.in = c.in, d.out = Tail(c.out),
           NEW top \in Nat, NEW D \in SUBSET Nat,
           Numbered(c, top), Ordered(c, D)
    PROVE  /\ Numbered(d, top)
           /\ Ordered(d, D)
           /\ \A n \in D : Carries(c, n) => Carries(d, n)
<1>4. PICK o \in Nat : Len(c.out) = o + 1
  BY WireType, NotEmpty
<1>5. Len(d.out) = o /\ \A i \in 1..o : d.out[i] = c.out[i + 1]
  <2>1. c.out \in Seq(Frame) BY WireType
  <2>2. /\ Len(Tail(c.out)) = Len(c.out) - 1
        /\ \A i \in 1..(Len(c.out) - 1) : Tail(c.out)[i] = c.out[i + 1]
    BY <2>1, HeadAndTail
  <2>3. QED BY <1>4, <2>2
<1>6. Numbered(d, top)
  <2>1. \A k \in 1..o : c.out[k + 1].kind = "channel" => c.out[k + 1].n <= top
    BY <1>4 DEF Numbered
  <2>2. QED BY <1>5, <2>1 DEF Numbered
<1>8. ASSUME NEW n \in D, NEW k \in 1..(o + 1), Pushes(c, n, k)
      PROVE  Pushes(d, n, k - 1)
  <2>1. PICK i \in 1..k : c.out[i].kind = "channel" /\ c.out[i].n = n
    BY <1>8 DEF Pushes
  <2>2. i - 1 \in 1..(k - 1) /\ i - 1 \in 1..o BY <1>8, <2>1
  <2>3. d.out[i - 1] = c.out[i] BY <1>5, <2>2
  <2>4. QED BY <2>1, <2>2, <2>3 DEF Pushes
<1>9. \A n \in D : Carries(c, n) => Carries(d, n)
  BY <1>4, <1>5, <1>8 DEF Carries, Carried
<1>10. Ordered(d, D)
  <2>1. ASSUME NEW k \in 1..Len(d.in), NEW m \in D, m < d.in[k]
        PROVE  Carried(d, m, k - 1)
    BY <2>1 DEF Ordered, Carried
  <2>2. ASSUME NEW k \in 1..Len(d.out), NEW m \in D,
               d.out[k].kind = "channel", m < d.out[k].n
        PROVE  Carried(d, m, Len(d.in)) \/ Pushes(d, m, k - 1)
    <3>1. k \in 1..o /\ k + 1 \in 1..Len(c.out) BY <1>4, <1>5
    <3>2. c.out[k + 1].kind = "channel" /\ m < c.out[k + 1].n
      BY <1>5, <2>2, <3>1
    <3>3. k + 1 - 1 = k BY <3>1
    <3>4. Carried(c, m, Len(c.in)) \/ Pushes(c, m, k)
      BY <3>1, <3>2, <3>3 DEF Ordered
    <3>5. QED BY <1>8, <3>1, <3>4 DEF Carried
  <2>3. QED BY <2>1, <2>2 DEF Ordered
<1>11. QED BY <1>6, <1>9, <1>10

\* The pump takes the first number; it is no longer due.
LEMMA Pumped ==
    ASSUME NEW c \in Connection, NEW d \in Connection, c.in # <<>>,
           d.in = Tail(c.in), d.out = c.out \/ d.out = <<>>,
           NEW top \in Nat, NEW D \in SUBSET Nat, NEW E \in SUBSET Nat,
           \A m \in E : m \in D /\ m # Head(c.in),
           Numbered(c, top), Ordered(c, D)
    PROVE  /\ Numbered(d, top)
           /\ Ordered(d, E)
           /\ \A n \in E : d.out = c.out /\ Carries(c, n) => Carries(d, n)
<1>1. /\ c.in \in Seq(Nat) /\ c.out \in Seq(Frame)
      /\ d.in \in Seq(Nat) /\ d.out \in Seq(Frame)
  BY WireType
<1>2. PICK l \in Nat : Len(c.in) = l + 1 BY <1>1, NotEmpty
<1>3. /\ Len(d.in) = l
      /\ \A i \in 1..l : d.in[i] = c.in[i + 1]
      /\ Head(c.in) = c.in[1]
  <2>1. /\ Len(Tail(c.in)) = Len(c.in) - 1
        /\ \A i \in 1..(Len(c.in) - 1) : Tail(c.in)[i] = c.in[i + 1]
        /\ Head(c.in) = c.in[1]
    BY <1>1, HeadAndTail
  <2>2. QED BY <1>2, <2>1
<1>4. \A i \in 1..Len(d.out) : d.out = c.out
  BY <1>1
<1>5. Numbered(d, top)
  <2>1. \A k \in 1..l : c.in[k + 1] <= top BY <1>2 DEF Numbered
  <2>2. QED BY <1>3, <1>4, <2>1 DEF Numbered
<1>6. ASSUME NEW n \in E, NEW k \in 1..(l + 1), Carried(c, n, k)
      PROVE  Carried(d, n, k - 1)
  <2>1. PICK i \in 1..k : c.in[i] = n BY <1>6 DEF Carried
  <2>2. i # 1 BY <1>3, <2>1
  <2>3. i - 1 \in 1..(k - 1) /\ i - 1 \in 1..l BY <1>6, <2>1, <2>2
  <2>4. d.in[i - 1] = c.in[i] BY <1>3, <2>3
  <2>5. QED BY <2>1, <2>3, <2>4 DEF Carried
<1>7. \A n \in E : Carried(c, n, l + 1) => Carried(d, n, l)
  <2>1. l + 1 \in 1..(l + 1) /\ l + 1 - 1 = l OBVIOUS
  <2>2. QED BY <1>6, <2>1
<1>8. Ordered(d, E)
  <2>1. ASSUME NEW k \in 1..Len(d.in), NEW m \in E, m < d.in[k]
        PROVE  Carried(d, m, k - 1)
    <3>1. k \in 1..l /\ k + 1 \in 1..Len(c.in) /\ k + 1 - 1 = k
      BY <1>2, <1>3
    <3>2. m \in D /\ m < c.in[k + 1] BY <1>3, <2>1, <3>1
    <3>3. Carried(c, m, k) BY <3>1, <3>2 DEF Ordered
    <3>4. k \in 1..(l + 1) BY <3>1
    <3>5. QED BY <1>6, <3>3, <3>4
  <2>2. ASSUME NEW k \in 1..Len(d.out), NEW m \in E,
               d.out[k].kind = "channel", m < d.out[k].n
        PROVE  Carried(d, m, Len(d.in)) \/ Pushes(d, m, k - 1)
    <3>1. d.out = c.out /\ m \in D BY <1>4
    <3>2. Carried(c, m, l + 1) \/ Pushes(c, m, k - 1)
      BY <1>2, <2>2, <3>1 DEF Ordered
    <3>3. QED BY <1>3, <1>7, <3>1, <3>2 DEF Pushes
  <2>3. QED BY <2>1, <2>2 DEF Ordered
<1>9. \A n \in E : d.out = c.out /\ Carries(c, n) => Carries(d, n)
  BY <1>2, <1>3, <1>7 DEF Carries, Pushes
<1>10. QED BY <1>5, <1>8, <1>9

\* Nothing is left to read.
LEMMA Dropped ==
    ASSUME NEW c \in Connection, NEW d \in Connection,
           d.in = c.in, d.out = <<>>, NEW top \in Nat,
           NEW D \in SUBSET Nat, NEW E \in SUBSET Nat, E \subseteq D,
           Numbered(c, top), Ordered(c, D)
    PROVE  Numbered(d, top) /\ Ordered(d, E)
<1>1. Len(d.out) = 0 /\ \A k \in 1..Len(d.out) : FALSE OBVIOUS
<1>2. QED BY <1>1 DEF Numbered, Ordered, Carried

-----------------------------------------------------------------------------
\* The first reply on a connection.

\* Only envelopes were added, and no request is ahead of the first.
LEMMA FirstKept ==
    ASSUME NEW c \in Connection, NEW d \in Connection, NEW S, NEW T,
           S \subseteq T, FirstReply(c, S),
           Len(c.out) <= Len(d.out),
           \A i \in 1..Len(c.out) : d.out[i] = c.out[i],
           \A i \in 1..Len(d.out) : i > Len(c.out) => d.out[i].kind = "channel",
           d.pub /\ d.sub => /\ c.pub /\ c.sub
                             /\ c.req # <<>> => d.req # <<>> /\ Head(d.req) = Head(c.req),
           NoReply(c, Len(c.out)) /\ d.pub /\ d.sub /\ d.joined =>
              d.seq \in T \/ (c.joined /\ d.seq = c.seq)
    PROVE  FirstReply(d, T)
<1>1. PICK l \in Nat : l = Len(c.out) BY WireType
<1>2. PICK m \in Nat : m = Len(d.out) BY WireType
<1>3. l <= m BY <1>1, <1>2
<1>4. \A k \in 1..m : d.out[k].kind = "reply" => k \in 1..l
  BY <1>1, <1>2
<1>5. \A k \in 0..l : NoReply(d, k) => NoReply(c, k)
  BY <1>1 DEF NoReply
<1>6. ASSUME NEW k \in 1..m, d.out[k].kind = "reply", NoReply(d, k - 1)
      PROVE  d.out[k].n \in T
  <2>1. k \in 1..l /\ d.out[k] = c.out[k] BY <1>1, <1>4, <1>6
  <2>2. k - 1 \in 0..l BY <2>1
  <2>3. c.out[k].n \in S BY <1>1, <1>5, <1>6, <2>1, <2>2 DEF FirstReply
  <2>4. QED BY <2>1, <2>3
<1>7. ASSUME NoReply(d, m) PROVE NoReply(c, l)
  BY <1>1, <1>3, <1>7 DEF NoReply
<1>8. QED BY <1>1, <1>2, <1>6, <1>7 DEF FirstReply

\* A reply was pushed, the first of all or not.
LEMMA FirstAnswered ==
    ASSUME NEW c \in Connection, NEW d \in Connection, NEW r \in Nat, NEW S,
           FirstReply(c, S),
           \/ d.out = Append(c.out, Reply(r))
           \/ d.out = c.out /\ ~ (d.pub /\ d.sub),
           NoReply(c, Len(c.out)) => r \in S \/ d.out = c.out
    PROVE  FirstReply(d, S)
<1>1. CASE d.out = c.out /\ ~ (d.pub /\ d.sub)
  BY <1>1 DEF FirstReply, NoReply
<1>2. CASE d.out = Append(c.out, Reply(r)) /\ d.out # c.out
  <2>1. Reply(r) \in Frame /\ Reply(r).kind = "reply" /\ Reply(r).n = r
    BY DEF Reply, Frame
  <2>2. PICK l \in Nat : l = Len(c.out) BY WireType
  <2>3. /\ Len(d.out) = l + 1
        /\ \A i \in 1..l : d.out[i] = c.out[i]
        /\ d.out[l + 1].kind = "reply" /\ d.out[l + 1].n = r
    <3>1. c.out \in Seq(Frame) BY WireType
    <3>2. QED BY <1>2, <2>1, <2>2, <3>1, Appended
  <2>4. \A k \in 0..l : NoReply(d, k) => NoReply(c, k)
    BY <2>3 DEF NoReply
  <2>5. ~NoReply(d, l + 1)
    <3>1. l + 1 \in 1..(l + 1) OBVIOUS
    <3>2. QED BY <2>3, <3>1 DEF NoReply
  <2>6. ASSUME NEW k \in 1..(l + 1), d.out[k].kind = "reply", NoReply(d, k - 1)
        PROVE  d.out[k].n \in S
    <3>1. CASE k \in 1..l
      <4>1. k - 1 \in 0..l BY <3>1
      <4>2. NoReply(c, k - 1) /\ d.out[k] = c.out[k] BY <2>3, <2>4, <2>6, <3>1, <4>1
      <4>3. QED BY <2>2, <2>6, <3>1, <4>2 DEF FirstReply
    <3>2. CASE k = l + 1
      <4>1. NoReply(c, l) BY <2>4, <2>6, <3>2
      <4>2. QED BY <1>2, <2>2, <2>3, <3>2, <4>1
    <3>3. QED BY <3>1, <3>2
  <2>7. QED BY <2>3, <2>5, <2>6 DEF FirstReply
<1>3. QED BY <1>1, <1>2

\* The reader took an envelope.
LEMMA FirstStands ==
    ASSUME NEW c \in Connection, NEW d \in Connection, NEW S,
           FirstReply(c, S), c.out # <<>>, c.out[1].kind = "channel",
           d.out = Tail(c.out), d.pub = c.pub, d.sub = c.sub, d.req = c.req,
           d.joined = c.joined, d.seq = c.seq
    PROVE  FirstReply(d, S)
<1>1. PICK o \in Nat : Len(c.out) = o + 1 BY WireType, NotEmpty
<1>2. Len(d.out) = o /\ \A i \in 1..o : d.out[i] = c.out[i + 1]
  <2>1. c.out \in Seq(Frame) BY WireType
  <2>2. /\ Len(Tail(c.out)) = Len(c.out) - 1
        /\ \A i \in 1..(Len(c.out) - 1) : Tail(c.out)[i] = c.out[i + 1]
    BY <2>1, HeadAndTail
  <2>3. QED BY <1>1, <2>2
<1>3. ASSUME NEW k \in 0..o, NoReply(d, k) PROVE NoReply(c, k + 1)
  <2>1. ASSUME NEW i \in 1..(k + 1) PROVE c.out[i].kind = "channel"
    <3>1. CASE i = 1 BY <3>1
    <3>2. CASE i # 1
      <4>1. i - 1 \in 1..k /\ i - 1 \in 1..o BY <3>2
      <4>2. d.out[i - 1] = c.out[i] BY <1>2, <4>1
      <4>3. QED BY <1>3, <4>1, <4>2 DEF NoReply
    <3>3. QED BY <3>1, <3>2
  <2>2. QED BY <2>1 DEF NoReply
<1>4. ASSUME NEW k \in 1..o, d.out[k].kind = "reply", NoReply(d, k - 1)
      PROVE  d.out[k].n \in S
  <2>1. k - 1 \in 0..o /\ k - 1 + 1 = k + 1 - 1 /\ k + 1 \in 1..(o + 1) OBVIOUS
  <2>2. NoReply(c, k + 1 - 1) /\ d.out[k] = c.out[k + 1] BY <1>2, <1>3, <1>4, <2>1
  <2>3. QED BY <1>1, <1>4, <2>1, <2>2 DEF FirstReply
<1>5. ASSUME NoReply(d, o) PROVE NoReply(c, Len(c.out))
  <2>1. o \in 0..o OBVIOUS
  <2>2. QED BY <1>1, <1>3, <1>5, <2>1
<1>6. QED BY <1>2, <1>4, <1>5 DEF FirstReply

-----------------------------------------------------------------------------
\* What is due.

LEMMA DueType ==
    ASSUME Typed
    PROVE  /\ Missing \in SUBSET Nat /\ Due \in SUBSET Nat /\ Due \subseteq Missing
           /\ \A n \in Missing : /\ n <= pub.seq
                                 /\ n > pub.seq - HISTORY
                                 /\ Owed(n)
                                 /\ n \notin InRun(got) \cup InRun(refused)
BY CapacityAssumption DEF Typed, Missing, Due, History

\* A step that publishes nothing adds nothing to what is due, and a position
\* stays sound.
LEMMA QuietDue ==
    ASSUME Typed, Typed', pub'.run = pub.run, pub'.seq = pub.seq,
           start \subseteq start', got \subseteq got', refused \subseteq refused',
           watcher' => watcher
    PROVE  /\ Missing' \subseteq Missing
           /\ Due' \subseteq Due
           /\ \A s \in Nat : Sound(s) => Sound(s)'
<1>1. Past \subseteq Past' BY DEF Past
<1>2. \A n \in Nat : Owed(n)' => Owed(n) BY <1>1 DEF Owed
<1>3. History' = History BY DEF History
<1>4. InRun(got) \subseteq InRun(got)' /\ InRun(refused) \subseteq InRun(refused)'
  BY DEF InRun
<1>5. Missing' \subseteq Missing
  BY <1>2, <1>3, <1>4 DEF Missing, History
<1>6. Due' \subseteq Due BY <1>5 DEF Due
<1>7. Marks \subseteq Marks' BY DEF Marks
<1>8. QED BY <1>5, <1>6, <1>7 DEF Sound

\* An envelope makes its own number due and no other, and every position is
\* below it.
LEMMA EmitDue ==
    ASSUME Typed, GotOK, pub' = [pub EXCEPT !.seq = @ + 1],
           UNCHANGED <<got, refused, start, watcher>>
    PROVE  /\ Missing' \subseteq Missing \cup {pub.seq + 1}
           /\ Due' \subseteq Due \cup {pub.seq + 1}
           /\ \A s \in Nat : Sound(s) => Sound(s)'
           /\ GotOK'
           /\ Seen => Seen'
<1>1. /\ pub'.run = pub.run /\ pub'.seq = pub.seq + 1
      /\ pub.seq \in Nat /\ pub.run \in Nat /\ HISTORY \in Nat
      /\ got \subseteq Nat \X Nat /\ start \subseteq Nat
  BY CapacityAssumption DEF Typed
<1>2. Past' = Past /\ InRun(got)' = InRun(got) /\ InRun(refused)' = InRun(refused)
  BY <1>1 DEF Past, InRun
<1>3. \A n : Owed(n)' <=> Owed(n) BY <1>2 DEF Owed
<1>4. History' \subseteq History \cup {pub.seq + 1} BY <1>1 DEF History
<1>5. Missing' \subseteq Missing \cup {pub.seq + 1}
  BY <1>2, <1>3, <1>4 DEF Missing
<1>6. Due' \subseteq Due \cup {pub.seq + 1} BY <1>5 DEF Due
<1>7. ASSUME NEW s \in Nat, Sound(s) PROVE Sound(s)'
  <2>1. s \in Marks' BY <1>7 DEF Sound, Marks
  <2>2. ASSUME pub.seq + 1 \in Due' PROVE s < pub.seq + 1
    <3>1. Owed(pub.seq + 1) BY <1>3, <2>2 DEF Due, Missing
    <3>2. \A m \in Past : m < pub.seq + 1 BY <1>1, <3>1 DEF Owed, Past
    <3>3. CASE s = 0 BY <1>1, <3>3
    <3>4. CASE s \in start BY <3>2, <3>4 DEF Past
    <3>5. ASSUME NEW e \in got, s = e[2] PROVE s < pub.seq + 1
      <4>1. e[1] <= pub.run /\ (e[1] = pub.run => e[2] <= pub.seq)
        BY DEF GotOK
      <4>2. e[1] \in Nat /\ e[2] \in Nat BY <1>1
      <4>3. CASE e[1] = pub.run BY <1>1, <3>5, <4>1, <4>2, <4>3
      <4>4. CASE e[1] < pub.run
        <5>1. e[2] \in Past BY <4>4 DEF Past
        <5>2. QED BY <3>2, <3>5, <5>1
      <4>5. QED BY <1>1, <4>1, <4>2, <4>3, <4>4
    <3>6. QED BY <1>7, <3>3, <3>4, <3>5 DEF Sound, Marks
  <2>3. \A n \in Due' : s < n BY <1>6, <1>7, <2>2 DEF Sound
  <2>4. QED BY <2>1, <2>3 DEF Sound
<1>8. GotOK' BY <1>1 DEF GotOK
<1>9. ASSUME Seen PROVE Seen'
  <2>1. \A m \in InRun(got) : m \in Nat /\ m <= pub.seq
    BY <1>1 DEF GotOK, InRun
  <2>2. QED BY <1>1, <1>2, <1>5, <1>9, <2>1 DEF Seen
<1>10. QED BY <1>5, <1>6, <1>7, <1>8, <1>9

\* A new run of the publisher has published nothing.
LEMMA UpDue ==
    ASSUME Typed, GotOK, pub'.run = pub.run + 1, pub'.seq = 0,
           UNCHANGED <<got, refused, start, watcher>>
    PROVE  /\ Missing' = {}
           /\ Due' = {}
           /\ \A s \in Nat : Sound(s) => Sound(s)'
           /\ GotOK'
<1>1. History' = {} BY DEF History
<1>2. Missing' = {} /\ Due' = {} BY <1>1 DEF Missing, Due
<1>3. \A s \in Nat : Sound(s) => Sound(s)' BY <1>2 DEF Sound, Marks
<1>4. pub.run \in Nat /\ got \subseteq Nat \X Nat BY DEF Typed
<1>5. GotOK' BY <1>4 DEF GotOK
<1>6. QED BY <1>2, <1>3, <1>5

-----------------------------------------------------------------------------
\* What one publication does.

\* The connections as a step finds them when it publishes, in cs, differ from
\* conn at most in being closed.
Like(c, d) == /\ d \in Connection
              /\ d.in = c.in /\ d.out = c.out /\ d.run = c.run /\ d.sub = c.sub
              /\ d.pub => c.pub

LEMMA EmittedType ==
    ASSUME NEW cs \in [Conns -> Connection], NEW S \in SUBSET Conns, Typed
    PROVE  /\ Emitted(cs, S) \in [Conns -> Connection]
           /\ \A j \in Conns :
                 Emitted(cs, S)[j] = IF j \in S THEN Pushed(cs[j], Envelope(pub.seq + 1))
                                                ELSE cs[j]
<1>1. Envelope(pub.seq + 1) \in Frame BY FramesType DEF Typed
<1>2. QED BY <1>1, PushedType DEF Emitted

LEMMA EmittedWire ==
    ASSUME Typed, Links, Wires, Whole,
           NEW cs \in [Conns -> Connection], NEW S \in SUBSET subs,
           NEW j \in Conns, Like(conn[j], cs[j]),
           NEW E \in SUBSET Nat, E \subseteq Due \cup {pub.seq + 1}
    PROVE  LET d == Emitted(cs, S)[j] IN
           /\ d \in Connection
           /\ conn[j].run = pub.run =>
                 Numbered(d, pub.seq + 1) /\ Ordered(d, E)
           /\ j \in S /\ d.pub /\ d.sub => \A n \in E : Carries(d, n)
<1> DEFINE d == Emitted(cs, S)[j]
           e == Envelope(pub.seq + 1)
<1>1. /\ S \in SUBSET Conns /\ pub.seq \in Nat /\ conn[j] \in Connection
      /\ Due \in SUBSET Nat /\ cs[j] \in Connection /\ e \in Frame
  BY DueType, FramesType DEF Typed
<1>2. /\ d = IF j \in S THEN Pushed(cs[j], e) ELSE cs[j]
      /\ d \in Connection
  BY <1>1, EmittedType
<1>3. /\ d.in = conn[j].in
      /\ \/ d.out = conn[j].out
         \/ j \in S /\ conn[j].pub /\ conn[j].sub /\ d.out = Append(conn[j].out, e)
      /\ j \in S /\ d.pub /\ d.sub => /\ conn[j].pub /\ conn[j].sub
                                       /\ d.out = Append(conn[j].out, e)
  BY <1>1, <1>2, PushedFields DEF Like
<1> HIDE DEF d, e
<1>4. ASSUME j \in S, conn[j].pub, conn[j].sub
      PROVE  conn[j].run = pub.run /\ \A n \in Due : Carries(conn[j], n)
  <2>1. j \in subs BY <1>4
  <2>2. LinkOK(conn[j], j) BY DEF Links
  <2>3. QED BY <1>4, <2>1, <2>2 DEF LinkOK, Whole, WholeOK
<1>5. ASSUME conn[j].run = pub.run
      PROVE  Numbered(conn[j], pub.seq) /\ Ordered(conn[j], Due)
  BY <1>5 DEF Wires, WireOK
<1>6. ASSUME j \in S, conn[j].pub, conn[j].sub, d.out = Append(conn[j].out, e)
      PROVE  /\ Numbered(d, pub.seq + 1)
             /\ Ordered(d, E)
             /\ \A n \in E : Carries(d, n)
  <2>1. d.out = Append(conn[j].out, Envelope(pub.seq + 1)) BY <1>6 DEF e
  <2>2. /\ Numbered(conn[j], pub.seq) /\ Ordered(conn[j], Due)
        /\ \A n \in Due : Carries(conn[j], n)
    BY <1>4, <1>5, <1>6
  <2>3. d.in = conn[j].in /\ d \in Connection BY <1>2, <1>3
  <2>4. QED BY <1>1, <2>1, <2>2, <2>3, EnvelopePushed, ZenonT(60)
<1>7. ASSUME conn[j].run = pub.run, d.out = conn[j].out
      PROVE  Numbered(d, pub.seq + 1) /\ Ordered(d, E)
  <2>1. \A m \in E : m \in Due \/ m > pub.seq BY <1>1
  <2>2. pub.seq + 1 \in Nat /\ pub.seq <= pub.seq + 1 BY <1>1
  <2>3. /\ Numbered(conn[j], pub.seq) /\ Ordered(conn[j], Due)
        /\ d.in = conn[j].in /\ d \in Connection
    BY <1>2, <1>3, <1>5, <1>7
  <2>4. QED BY <1>1, <1>7, <2>1, <2>2, <2>3, Undisturbed
<1>8. QED BY <1>2, <1>3, <1>6, <1>7 DEF d

-----------------------------------------------------------------------------
\* Every step keeps the types, and the queues within their bounds.

LEMMA BagFacts ==
    ASSUME NEW B, NEW s
    PROVE  /\ BagToSet(B (+) SetToBag({s})) = BagToSet(B) \cup {s}
           /\ BagToSet(B (-) SetToBag({s})) \subseteq BagToSet(B)
BY DEF BagToSet, SetToBag, (+), (-)

LEMMA GoneType == Gone \in Connection
BY DEF Gone, Connection

\* A connection of which one part was changed.
LEMMA Parts ==
    ASSUME NEW c \in Connection
    PROVE  /\ \A v \in BOOLEAN : [c EXCEPT !.sub = v] \in Connection
           /\ [c EXCEPT !.run = 0] \in Connection
           /\ \A n \in Nat : [c EXCEPT !.pub = TRUE, !.sub = TRUE, !.served = TRUE,
                                      !.run = n] \in Connection
           /\ \A q \in Seq(Request) : [c EXCEPT !.req = q] \in Connection
           /\ [c EXCEPT !.served = FALSE, !.pub = FALSE, !.req = <<>>] \in Connection
           /\ \A q \in Seq(Request) :
                 [c EXCEPT !.joined = FALSE, !.seq = 0, !.req = q] \in Connection
           /\ \A n \in Nat : [c EXCEPT !.joined = TRUE, !.seq = n] \in Connection
           /\ \A o \in Seq(Frame) : [c EXCEPT !.out = o] \in Connection
           /\ \A o \in Seq(Frame), i \in Seq(Nat) :
                 [c EXCEPT !.out = o, !.in = i] \in Connection
           /\ \A i \in Seq(Nat) : [c EXCEPT !.in = i] \in Connection
           /\ \A o \in Seq(Frame), i \in Seq(Nat), v \in BOOLEAN :
                 [c EXCEPT !.in = i, !.sub = v, !.out = o] \in Connection
           /\ \A o \in Seq(Frame), v \in BOOLEAN :
                 [c EXCEPT !.out = o, !.pub = v] \in Connection
           /\ \A o \in Seq(Frame) :
                 [c EXCEPT !.pub = FALSE, !.served = FALSE, !.req = <<>>,
                           !.joined = FALSE, !.seq = 0, !.out = o] \in Connection
<1>1. <<>> \in Seq(Request) OBVIOUS
<1>2. QED BY <1>1 DEF Connection

\* The replay on a connection leaves a connection: the frames after what was
\* queued, as many as fit.
LEMMA JoinReplays ==
    ASSUME Typed, NEW c \in Connection, NEW from \in Maybe,
           Len(c.out) <= OutCap
    PROVE  LET d == Replayed(c, Replay(from)) IN
           /\ d \in Connection
           /\ Len(d.out) <= OutCap
           /\ d.in = c.in /\ d.sub = c.sub /\ d.served = c.served
           /\ d.run = c.run /\ d.req = c.req
           /\ d.pub => c.pub
           /\ \/ d = c /\ (from = {} \/ ~ (c.pub /\ c.sub))
              \/ /\ c.pub /\ c.sub
                 /\ \E s \in from, a \in Nat, n \in Nat, t \in Seq(Frame) :
                       /\ a + n - 1 <= pub.seq
                       /\ Len(t) = n
                       /\ \A k \in 1..n : t[k] = Envelope(a + k - 1)
                       /\ d.out = c.out \o t
                       /\ \A m \in History : s < m => a <= m
                       /\ d.pub => a + n - 1 = pub.seq
<1> DEFINE d == Replayed(c, Replay(from))
<1>1. CASE ~ (c.pub /\ c.sub) BY <1>1 DEF Replayed
<1>2. CASE c.pub /\ c.sub /\ from = {}
  <2>1. Replay(from) = 1..0 BY <1>2, ReplayNone
  <2>2. PICK n \in Nat :
           /\ 1 + n - 1 <= 0
           /\ d = [c EXCEPT !.out = @ \o [k \in 1..n |-> Envelope(1 + k - 1)],
                            !.pub = (1 + n - 1 = 0)]
    <3>1. 0 < 1 /\ 1 <= 0 + 1 /\ 1 \in Nat /\ 0 \in Nat OBVIOUS
    <3>2. d = Replayed(c, 1..0) BY <2>1
    <3> HIDE DEF d
    <3>3. Appends(c, d, 1, 0) BY <1>2, <3>1, <3>2, ReplayedIs
    <3>4. QED BY <3>3 DEF Appends
  <2>3. n = 0 BY <2>2
  <2>4. c.out \o [k \in 1..0 |-> Envelope(1 + k - 1)] = c.out
    <3>1. [k \in 1..0 |-> Envelope(1 + k - 1)] = <<>> OBVIOUS
    <3>2. c.out \in Seq(Frame) BY WireType
    <3>3. QED BY <3>1, <3>2
  <2> HIDE DEF d
  <2>5. /\ d = [c EXCEPT !.out = c.out \o [k \in 1..0 |-> Envelope(1 + k - 1)],
                       !.pub = (1 + 0 - 1 = 0)]
        /\ 1 + 0 - 1 = 0
    BY <2>2, <2>3
  <2>a. d = [c EXCEPT !.out = c.out, !.pub = TRUE] BY <2>4, <2>5
  <2>6. d = c BY <1>2, <2>a DEF Connection
  <2>7. QED BY <1>2, <2>6 DEF d
<1>3. CASE c.pub /\ c.sub /\ from # {}
  <2>1. PICK s \in Nat : from = {s} BY <1>3 DEF Maybe
  <2>2. PICK a \in Nat : /\ 0 < a
                         /\ a <= pub.seq + 1
                         /\ Replay(from) = a..pub.seq
                         /\ \A n \in History : s < n => a <= n
    BY <2>1, ReplayIs
  <2>3. pub.seq \in Nat BY DEF Typed
  <2>4. PICK n \in Nat :
           /\ Len(c.out) + n <= OutCap
           /\ a + n - 1 <= pub.seq
           /\ d = [c EXCEPT !.out = @ \o [k \in 1..n |-> Envelope(a + k - 1)],
                            !.pub = (a + n - 1 = pub.seq)]
    <3>1. d = Replayed(c, a..pub.seq) BY <2>2
    <3> HIDE DEF d
    <3>2. Appends(c, d, a, pub.seq) BY <1>3, <2>2, <2>3, <3>1, ReplayedIs
    <3>3. QED BY <3>2 DEF Appends
  <2> DEFINE t == [k \in 1..n |-> Envelope(a + k - 1)]
  <2>5. t \in Seq(Frame) /\ Len(t) = n /\ \A k \in 1..n : t[k] = Envelope(a + k - 1)
    <3>1. \A k \in 1..n : a + k - 1 \in Nat OBVIOUS
    <3>2. \A k \in 1..n : Envelope(a + k - 1) \in Frame BY <3>1, FramesType
    <3>3. QED BY <3>2
  <2>6. d = [c EXCEPT !.out = c.out \o t, !.pub = (a + n - 1 = pub.seq)] BY <2>4
  <2> HIDE DEF t, d
  <2>7. c.out \in Seq(Frame) /\ c.out \o t \in Seq(Frame) BY <2>5, WireType
  <2>8. PICK o \in Seq(Frame) : o = c.out \o t BY <2>7
  <2>9. PICK v \in BOOLEAN : v <=> a + n - 1 = pub.seq OBVIOUS
  <2>10. d = [c EXCEPT !.out = o, !.pub = v] BY <2>6, <2>8, <2>9
  <2>11. /\ d \in Connection /\ d.out = o /\ d.pub = v
         /\ d.in = c.in /\ d.sub = c.sub /\ d.served = c.served
         /\ d.run = c.run /\ d.req = c.req
    BY <2>10 DEF Connection
  <2>12. Len(d.out) <= OutCap
    <3>1. Len(c.out \o t) = Len(c.out) + Len(t) BY <2>5, <2>7, Concatenated
    <3>a. Len(d.out) = Len(c.out) + n BY <2>5, <2>8, <2>11, <3>1
    <3>2. QED BY <2>4, <3>a
  <2>13. s \in from BY <2>1
  <2>14. \E x \in from, y \in Nat, z \in Nat, u \in Seq(Frame) :
            /\ y + z - 1 <= pub.seq
            /\ Len(u) = z
            /\ \A k \in 1..z : u[k] = Envelope(y + k - 1)
            /\ d.out = c.out \o u
            /\ \A m \in History : x < m => y <= m
            /\ d.pub => y + z - 1 = pub.seq
    BY <2>2, <2>4, <2>5, <2>8, <2>9, <2>11, <2>13
  <2>15. QED BY <1>3, <2>11, <2>12, <2>14 DEF d
<1>4. QED BY <1>1, <1>2, <1>3

\* What a request does to the connection it is pushed onto.
LEMMA AskedFacts ==
    ASSUME Typed, NEW k \in Conns, NEW reqs \in Seq(Request),
           Reached(k), Asked(k, reqs)
    PROVE  \E d \in Connection :
              /\ conn' = [conn EXCEPT ![k] = d]
              /\ client' \in Conns \cup {NoConn}
              /\ left' \in [data : Nat, restarts : Nat, connects : Nat]
              /\ left'.restarts = left.restarts
              /\ Free(k) => /\ pub.up
                            /\ d.pub /\ d.sub /\ d.served /\ ~d.joined
                            /\ d.run = pub.run
                            /\ d.out = <<>> /\ d.in = <<>>
                            /\ d.req = reqs
              /\ ~Free(k) => /\ d.pub = conn[k].pub /\ d.sub = conn[k].sub
                             /\ d.served = conn[k].served
                             /\ d.run = conn[k].run
                             /\ d.joined = conn[k].joined
                             /\ d.seq = conn[k].seq
                             /\ d.out = conn[k].out /\ d.in = conn[k].in
                             /\ d.req = IF conn[k].served
                                        THEN conn[k].req \o reqs ELSE conn[k].req
<1>1. /\ conn \in [Conns -> Connection] /\ conn[k] \in Connection
      /\ left \in [data : Nat, restarts : Nat, connects : Nat]
      /\ pub.run \in Nat
  BY DEF Typed
<1>2. CASE Free(k)
  <2> DEFINE c == [Gone EXCEPT !.pub = TRUE, !.sub = TRUE, !.served = TRUE,
                               !.run = pub.run]
             d == [c EXCEPT !.req = <<>> \o reqs]
  <2>1. <<>> \o reqs = reqs OBVIOUS
  <2>2. c.served /\ c.req = <<>> BY DEF Gone
  <2>3. /\ d.pub /\ d.sub /\ d.served /\ ~d.joined /\ d.run = pub.run
        /\ d.out = <<>> /\ d.in = <<>> /\ d.req = reqs
    BY <2>1 DEF Gone
  <2>4. d \in Connection
    <3>1. c \in Connection BY <1>1, GoneType, Parts
    <3>2. d = [c EXCEPT !.req = reqs] BY <2>1
    <3> HIDE DEF c, d
    <3>3. QED BY <3>1, <3>2, Parts
  <2>5. conn' = [conn EXCEPT ![k] = d]
    BY <1>2, <2>2 DEF Asked
  <2>6. pub.up /\ left.connects > 0 /\ left' = [left EXCEPT !.connects = @ - 1]
    BY <1>2 DEF Asked, Reached, Free
  <2>7. left' \in [data : Nat, restarts : Nat, connects : Nat]
        /\ left'.restarts = left.restarts
    BY <1>1, <2>6
  <2>8. client' \in Conns \cup {NoConn} BY DEF Asked
  <2> HIDE DEF d
  <2>9. QED BY <1>2, <2>3, <2>4, <2>5, <2>6, <2>7, <2>8
<1>3. CASE ~Free(k)
  <2> DEFINE q == IF conn[k].served THEN conn[k].req \o reqs ELSE conn[k].req
             d == [conn[k] EXCEPT !.req = q]
  <2>1. conn[k].req \in Seq(Request) BY <1>1 DEF Connection
  <2>2. q \in Seq(Request) BY <2>1
  <2>3. conn' = [conn EXCEPT ![k] = d] BY <1>3 DEF Asked
  <2> HIDE DEF q
  <2>4. /\ d \in Connection
        /\ d.pub = conn[k].pub /\ d.sub = conn[k].sub
        /\ d.served = conn[k].served /\ d.run = conn[k].run
        /\ d.joined = conn[k].joined /\ d.seq = conn[k].seq
        /\ d.out = conn[k].out /\ d.in = conn[k].in /\ d.req = q
    BY <1>1, <2>2 DEF Connection
  <2>5. left' = left /\ client' = k BY <1>3 DEF Asked
  <2> HIDE DEF d
  <2>6. QED BY <1>1, <1>3, <2>3, <2>4, <2>5 DEF q
<1>4. QED BY <1>2, <1>3

\* A publication keeps the types.
LEMMA EmitTyped ==
    ASSUME Typed, Bounded, NEW cs \in [Conns -> Connection], NEW S \in SUBSET Conns,
           \A j \in Conns : Len(cs[j].out) <= OutCap /\ Len(cs[j].in) <= InCap,
           Emit(cs, S)
    PROVE  /\ pub' \in [up : BOOLEAN, run : Nat, seq : Nat]
           /\ pub'.up = pub.up /\ pub'.run = pub.run
           /\ conn' \in [Conns -> Connection]
           /\ subs' \in SUBSET S
           /\ \A j \in Conns : /\ Len(conn'[j].out) <= OutCap
                               /\ Len(conn'[j].in) <= InCap
<1>1. Envelope(pub.seq + 1) \in Frame BY FramesType DEF Typed
<1>2. conn' = Emitted(cs, S) /\ pub' = [pub EXCEPT !.seq = @ + 1] /\ subs' \in SUBSET S
  BY DEF Emit
<1>3. ASSUME NEW j \in Conns
      PROVE  Len(conn'[j].out) <= OutCap /\ Len(conn'[j].in) <= InCap
  <2>1. conn'[j] = IF j \in S THEN Pushed(cs[j], Envelope(pub.seq + 1)) ELSE cs[j]
    BY <1>2, EmittedType
  <2>2. QED BY <1>1, <2>1, PushedFields
<1>4. /\ pub' \in [up : BOOLEAN, run : Nat, seq : Nat]
      /\ pub'.up = pub.up /\ pub'.run = pub.run
  BY <1>2 DEF Typed
<1>5. conn' \in [Conns -> Connection] BY <1>2, EmittedType
<1>6. QED BY <1>2, <1>3, <1>4, <1>5

-----------------------------------------------------------------------------
\* What each step does to the connection it is about.

Alters(j, d) == d \in Connection /\ conn' = [conn EXCEPT ![j] = d]

Same(c, d) == /\ d.pub = c.pub /\ d.sub = c.sub /\ d.served = c.served
              /\ d.run = c.run /\ d.joined = c.joined /\ d.seq = c.seq
              /\ d.req = c.req

LEMMA Altered ==
    ASSUME Typed, NEW j \in Conns, NEW d, Alters(j, d)
    PROVE  /\ conn' \in [Conns -> Connection]
           /\ conn'[j] = d
           /\ \A i \in Conns : i # j => conn'[i] = conn[i]
BY DEF Typed, Alters

LEMMA RequestFacts ==
    ASSUME Typed, NEW j \in Conns, conn[j].req # <<>>
    PROVE  /\ conn[j] \in Connection
           /\ Head(conn[j].req) \in Request
           /\ Tail(conn[j].req) \in Seq(Request)
           /\ Len(conn[j].req) \in Nat \ {0}
           /\ Head(conn[j].req) = conn[j].req[1]
<1>1. conn[j] \in Connection /\ conn[j].req \in Seq(Request)
  BY DEF Typed, Connection
<1>2. QED BY <1>1, HeadAndTail

\* join
LEMMA JoinEffect ==
    ASSUME Typed, Bounded, NEW j \in Conns, Join(j)
    PROVE  LET r == Head(conn[j].req)
               e == Replayed(conn[j], Replay(r.since))
               d == [e EXCEPT !.joined = TRUE, !.seq = pub.seq] IN
           /\ Alters(j, d)
           /\ e \in Connection /\ r \in Request /\ r.op = "subscribe"
           /\ r.since \in Maybe
           /\ d.pub = e.pub /\ d.sub = e.sub /\ d.served = e.served /\ d.run = e.run
           /\ d.out = e.out /\ d.in = e.in /\ d.req = e.req
           /\ d.joined /\ d.seq = pub.seq
           /\ Len(conn[j].out) <= OutCap
           /\ start' \subseteq Nat /\ start \subseteq start'
<1> DEFINE r == Head(conn[j].req)
           e == Replayed(conn[j], Replay(r.since))
           d == [e EXCEPT !.joined = TRUE, !.seq = pub.seq]
<1>1. r \in Request /\ conn[j] \in Connection BY RequestFacts DEF Join
<1>2. r.since \in Maybe /\ r.op = "subscribe" BY <1>1 DEF Request, Join
<1>3. Len(conn[j].out) <= OutCap BY DEF Bounded, Fits
<1>4. e \in Connection BY <1>1, <1>2, <1>3, JoinReplays
<1>5. conn' = [conn EXCEPT ![j] = d] BY DEF Join
<1>6. pub.seq \in Nat BY DEF Typed
<1>7. start' \subseteq Nat /\ start \subseteq start' BY <1>6 DEF Typed, Join
<1> HIDE DEF e, r
<1>8. /\ d \in Connection
      /\ d.pub = e.pub /\ d.sub = e.sub /\ d.served = e.served /\ d.run = e.run
      /\ d.out = e.out /\ d.in = e.in /\ d.req = e.req
      /\ d.joined /\ d.seq = pub.seq
  BY <1>4, <1>6 DEF Connection
<1>9. QED BY <1>1, <1>2, <1>3, <1>4, <1>5, <1>7, <1>8 DEF Alters, e, r

\* unsubscribe
LEMMA LeftEffect ==
    ASSUME Typed, NEW j \in Conns, Left(j)
    PROVE  LET c == conn[j]
               e == Pushed(c, Reply(0))
               d == [e EXCEPT !.req = Tail(@)] IN
           /\ Alters(j, d)
           /\ e \in Connection /\ c \in Connection
           /\ d.pub = e.pub /\ d.sub = e.sub /\ d.served = e.served /\ d.run = e.run
           /\ d.out = e.out /\ d.in = e.in /\ d.joined = e.joined /\ d.seq = e.seq
           /\ d.req = Tail(c.req) /\ c.req # <<>> /\ Head(c.req).op = "unsubscribe"
<1> DEFINE c == conn[j]
           e == Pushed(c, Reply(0))
           d == [e EXCEPT !.req = Tail(@)]
<1>1. /\ c \in Connection /\ Tail(c.req) \in Seq(Request)
      /\ c.req # <<>> /\ Head(c.req).op = "unsubscribe"
  BY RequestFacts DEF Left
<1>2. Reply(0) \in Frame BY FramesType
<1>3. e \in Connection /\ e.req = c.req BY <1>1, <1>2, PushedType, PushedFields
<1>4. conn' = [conn EXCEPT ![j] = d]
  BY <1>3 DEF Left
<1> HIDE DEF e, c
<1>5. /\ d \in Connection
      /\ d.pub = e.pub /\ d.sub = e.sub /\ d.served = e.served /\ d.run = e.run
      /\ d.out = e.out /\ d.in = e.in /\ d.joined = e.joined /\ d.seq = e.seq
      /\ d.req = Tail(c.req)
  BY <1>1, <1>3 DEF Connection
<1>6. QED BY <1>1, <1>3, <1>4, <1>5 DEF Alters, e, c

\* The reader.
LEMMA ReadEffect ==
    ASSUME Typed, Bounded, NEW j \in Conns, Read(j)
    PROVE  LET c == conn[j] IN
           \E d :
              /\ Alters(j, d)
              /\ c \in Connection /\ c.sub /\ c.out # <<>>
              /\ Same(c, d) /\ d.out = Tail(c.out)
              /\ Len(d.out) <= OutCap /\ Len(d.in) <= InCap
              /\ \/ /\ c.out[1].kind = "channel"
                    /\ d.in = Append(c.in, c.out[1].n)
                    /\ app' = app
                 \/ /\ c.out[1].kind = "reply"
                    /\ d.in = c.in
                    /\ app' = IF app.stage = "calling" /\ app.conn = j /\ app.answer = {}
                              THEN [app EXCEPT !.answer = {c.out[1].n}] ELSE app
<1> DEFINE c == conn[j]
<1>1. c \in Connection /\ c.sub /\ c.out # <<>> BY DEF Typed, Read
<1>2. c.out \in Seq(Frame) /\ c.in \in Seq(Nat) /\ Len(c.in) \in Nat
  BY <1>1, WireType
<1>3. /\ Head(c.out) = c.out[1] /\ Head(c.out) \in Frame /\ Tail(c.out) \in Seq(Frame)
      /\ Len(Tail(c.out)) = Len(c.out) - 1
  BY <1>1, <1>2, HeadAndTail
<1>4. c.out[1].n \in Nat /\ c.out[1].kind \in {"channel", "reply"}
  BY <1>3 DEF Frame
<1>5. Len(c.out) <= OutCap /\ Len(c.in) <= InCap /\ Len(c.out) \in Nat
  BY <1>1, WireType DEF Bounded, Fits
<1>6. OutCap \in Nat /\ InCap \in Nat BY CapacityAssumption
<1>7. CASE c.out[1].kind = "channel"
  <2> DEFINE d == [c EXCEPT !.out = Tail(@), !.in = Append(@, c.out[1].n)]
  <2>1. Append(c.in, c.out[1].n) \in Seq(Nat)
        /\ Len(Append(c.in, c.out[1].n)) = Len(c.in) + 1
    BY <1>2, <1>4, Appended
  <2>2. /\ d \in Connection /\ Same(c, d) /\ d.out = Tail(c.out)
        /\ d.in = Append(c.in, c.out[1].n)
    BY <1>1, <1>3, <2>1 DEF Connection, Same
  <2>3. conn' = [conn EXCEPT ![j] = d] /\ app' = app /\ Len(c.in) < InCap
    BY <1>3, <1>7 DEF Read, Typed
  <2>4. Len(d.out) <= OutCap BY <1>3, <1>5, <1>6, <2>2
  <2>5. Len(d.in) <= InCap BY <1>2, <1>6, <2>1, <2>2, <2>3
  <2> HIDE DEF d
  <2>6. QED BY <1>1, <1>7, <2>2, <2>3, <2>4, <2>5 DEF Alters
<1>8. CASE c.out[1].kind = "reply"
  <2> DEFINE d == [c EXCEPT !.out = Tail(@)]
  <2>1. /\ d \in Connection /\ Same(c, d) /\ d.out = Tail(c.out) /\ d.in = c.in
    BY <1>1, <1>3 DEF Connection, Same
  <2>2. /\ conn' = [conn EXCEPT ![j] = d]
        /\ app' = IF app.stage = "calling" /\ app.conn = j /\ app.answer = {}
                  THEN [app EXCEPT !.answer = {c.out[1].n}] ELSE app
    BY <1>3, <1>8 DEF Read, Typed
  <2>3. Len(d.out) <= OutCap BY <1>3, <1>5, <1>6, <2>1
  <2> HIDE DEF d
  <2>4. QED BY <1>1, <1>5, <1>8, <2>1, <2>2, <2>3 DEF Alters
<1>9. QED BY <1>4, <1>7, <1>8

\* The pump.
LEMMA PumpEffect ==
    ASSUME Typed, Bounded, NEW j \in Conns, Pump(j)
    PROVE  LET c == conn[j] IN
           \E d :
              /\ Alters(j, d)
              /\ c \in Connection /\ j \in pumps /\ c.in # <<>>
              /\ d.pub = c.pub /\ d.served = c.served /\ d.run = c.run
              /\ d.joined = c.joined /\ d.seq = c.seq /\ d.req = c.req
              /\ d.in = Tail(c.in)
              /\ Len(d.out) <= OutCap /\ Len(d.in) <= InCap
              /\ \/ d.sub = c.sub /\ d.out = c.out
                 \/ watcher /\ ~d.sub /\ d.out = <<>>
<1> DEFINE c == conn[j]
<1>1. c \in Connection /\ c.in # <<>> /\ j \in pumps BY DEF Typed, Pump
<1>2. c.out \in Seq(Frame) /\ c.in \in Seq(Nat) BY <1>1, WireType
<1>3. Tail(c.in) \in Seq(Nat) /\ Len(Tail(c.in)) = Len(c.in) - 1
  BY <1>1, <1>2, HeadAndTail
<1>4. Len(c.out) <= OutCap /\ Len(c.in) <= InCap /\ Len(c.in) \in Nat
  BY <1>1, WireType DEF Bounded, Fits
<1>5. OutCap \in Nat /\ InCap \in Nat BY CapacityAssumption
<1>6. CASE ~watcher \/ queued < QueueCap
  <2> DEFINE d == [c EXCEPT !.in = Tail(@)]
  <2>1. /\ d \in Connection /\ Same(c, d) /\ d.out = c.out /\ d.in = Tail(c.in)
    BY <1>1, <1>3 DEF Connection, Same
  <2>2. conn' = [conn EXCEPT ![j] = d]
    <3>1. CASE watcher /\ queued < QueueCap BY <3>1 DEF Pump
    <3>2. CASE ~watcher
      <4>1. conn' = [conn EXCEPT ![j].in = Tail(@), ![j].sub = @ /\ ~watcher,
                                 ![j].out = IF watcher THEN <<>> ELSE @]
        BY <3>2 DEF Pump
      <4>2. conn' = [conn EXCEPT ![j] = [c EXCEPT !.in = Tail(@), !.sub = (c.sub /\ ~watcher),
                                 !.out = c.out]]
        BY <3>2, <4>1 DEF Typed
      <4>3. [c EXCEPT !.in = Tail(@), !.sub = (c.sub /\ ~watcher), !.out = c.out] = d
        BY <1>1, <3>2 DEF Connection
      <4>4. QED BY <4>2, <4>3
    <3>3. QED BY <1>6, <3>1, <3>2
  <2>3. Len(d.in) <= InCap BY <1>3, <1>4, <1>5, <2>1
  <2> HIDE DEF d
  <2>4. QED BY <1>1, <1>4, <2>1, <2>2, <2>3 DEF Alters, Same
<1>7. CASE watcher /\ ~ (queued < QueueCap)
  <2> DEFINE d == [c EXCEPT !.in = Tail(@), !.sub = FALSE, !.out = <<>>]
  <2>1. <<>> \in Seq(Frame) /\ Len(<<>>) = 0 OBVIOUS
  <2>2. /\ d \in Connection /\ d.out = <<>> /\ d.in = Tail(c.in) /\ ~d.sub
        /\ d.pub = c.pub /\ d.served = c.served /\ d.run = c.run
        /\ d.joined = c.joined /\ d.seq = c.seq /\ d.req = c.req
    BY <1>1, <1>3, <2>1 DEF Connection
  <2>3. conn' = [conn EXCEPT ![j] = d]
    <3>1. conn' = [conn EXCEPT ![j].in = Tail(@), ![j].sub = @ /\ ~watcher,
                               ![j].out = IF watcher THEN <<>> ELSE @]
      BY <1>7 DEF Pump
    <3>2. (c.sub /\ ~watcher) = FALSE BY <1>7
    <3>3. QED BY <1>7, <3>1, <3>2 DEF Typed
  <2>4. Len(d.in) <= InCap BY <1>3, <1>4, <1>5, <2>2
  <2>5. Len(d.out) <= OutCap BY <1>5, <2>1, <2>2
  <2> HIDE DEF d
  <2>6. QED BY <1>1, <1>7, <2>2, <2>3, <2>4, <2>5 DEF Alters
<1>8. QED BY <1>6, <1>7

\* The announcement of a subscription: an envelope to all, then the reply.
LEMMA AnnounceEffect ==
    ASSUME Typed, Bounded, Links, NEW j \in Conns, Announce(j)
    PROVE  LET e == Emitted(conn, subs)[j]
               f == Pushed(e, Reply(conn[j].seq))
               d == [f EXCEPT !.joined = FALSE, !.seq = 0, !.req = Tail(conn[j].req)] IN
           /\ conn' = [Emitted(conn, subs) EXCEPT ![j] = d]
           /\ conn' \in [Conns -> Connection]
           /\ e \in Connection /\ d \in Connection /\ f \in Connection
           /\ d.pub = f.pub /\ d.sub = f.sub /\ d.served = f.served /\ d.run = f.run
           /\ d.out = f.out /\ d.in = f.in /\ ~d.joined /\ d.req = Tail(conn[j].req)
           /\ Len(d.out) <= OutCap /\ Len(d.in) <= InCap
           /\ conn[j] \in Connection /\ conn[j].joined
           /\ Emitted(conn, subs) \in [Conns -> Connection]
           /\ subs' \in SUBSET subs
<1> DEFINE e == Emitted(conn, subs)[j]
           f == Pushed(e, Reply(conn[j].seq))
           d == [f EXCEPT !.joined = FALSE, !.seq = 0, !.req = Tail(conn[j].req)]
<1>1. /\ conn \in [Conns -> Connection] /\ subs \in SUBSET Conns
      /\ conn[j] \in Connection /\ conn[j].joined /\ pub.seq \in Nat
  BY DEF Typed, Announce
<1>2. conn[j].req # <<>> BY <1>1 DEF Links, LinkOK
<1>3. Tail(conn[j].req) \in Seq(Request) /\ conn[j].seq \in Nat
  BY <1>1, <1>2, RequestFacts DEF Connection
<1>4. Emitted(conn, subs) \in [Conns -> Connection]
      /\ e = IF j \in subs THEN Pushed(conn[j], Envelope(pub.seq + 1)) ELSE conn[j]
  BY <1>1, EmittedType
<1>5. e \in Connection BY <1>4
<1>6. Reply(conn[j].seq) \in Frame /\ Envelope(pub.seq + 1) \in Frame
  BY <1>1, <1>3, FramesType
<1>7. Len(e.out) <= OutCap /\ Len(e.in) <= InCap
  BY <1>1, <1>4, <1>6, PushedFields DEF Bounded, Fits
<1>8. f \in Connection /\ Len(f.out) <= OutCap /\ Len(f.in) <= InCap
  BY <1>5, <1>6, <1>7, PushedType, PushedFields
<1>9. conn' = [Emitted(conn, subs) EXCEPT ![j] = d] BY DEF Announce
<1> HIDE DEF e, f
<1>10. /\ d \in Connection
       /\ d.pub = f.pub /\ d.sub = f.sub /\ d.served = f.served /\ d.run = f.run
       /\ d.out = f.out /\ d.in = f.in /\ ~d.joined /\ d.req = Tail(conn[j].req)
  BY <1>3, <1>8 DEF Connection
<1> HIDE DEF d
<1>11. conn' \in [Conns -> Connection] BY <1>4, <1>9, <1>10
<1>12. subs' \in SUBSET subs BY DEF Announce
<1>13. QED BY <1>1, <1>4, <1>5, <1>8, <1>9, <1>10, <1>11, <1>12 DEF d, f, e

\* What the connections become when one of them ended.
Ended(j) == [conn EXCEPT ![j].served = FALSE, ![j].pub = FALSE, ![j].req = <<>>]

LEMMA EndedFacts ==
    ASSUME Typed, NEW j \in Conns
    PROVE  /\ Ended(j) \in [Conns -> Connection]
           /\ \A i \in Conns : i # j => Ended(j)[i] = conn[i]
           /\ LET d == Ended(j)[j] IN
              /\ ~d.served /\ ~d.pub /\ d.req = <<>>
              /\ d.sub = conn[j].sub /\ d.run = conn[j].run
              /\ d.out = conn[j].out /\ d.in = conn[j].in
              /\ d.joined = conn[j].joined /\ d.seq = conn[j].seq
<1> DEFINE d == [conn[j] EXCEPT !.served = FALSE, !.pub = FALSE, !.req = <<>>]
<1>1. conn \in [Conns -> Connection] /\ conn[j] \in Connection BY DEF Typed
<1>2. Ended(j) = [conn EXCEPT ![j] = d] BY <1>1 DEF Ended
<1>3. d \in Connection BY <1>1, Parts
<1>4. /\ ~d.served /\ ~d.pub /\ d.req = <<>>
      /\ d.sub = conn[j].sub /\ d.run = conn[j].run
      /\ d.out = conn[j].out /\ d.in = conn[j].in
      /\ d.joined = conn[j].joined /\ d.seq = conn[j].seq
  BY <1>1 DEF Connection
<1> HIDE DEF d
<1>5. QED BY <1>1, <1>2, <1>3, <1>4

\* A node that goes down, on one connection.
LEMMA DownEffect ==
    ASSUME Typed, NEW j \in Conns, Down
    PROVE  /\ conn'[j] \in Connection /\ conn[j] \in Connection
           /\ ~conn'[j].pub /\ ~conn'[j].served /\ ~conn'[j].joined
           /\ conn'[j].req = <<>>
           /\ conn'[j].sub = conn[j].sub /\ conn'[j].run = conn[j].run
           /\ conn'[j].in = conn[j].in
           /\ conn'[j].out = conn[j].out \/ conn'[j].out = <<>>
<1>1. conn[j] \in Connection BY DEF Typed
<1>2. PICK flushed \in BOOLEAN :
         conn'[j] = [conn[j] EXCEPT !.pub = FALSE, !.served = FALSE,
                                    !.req = <<>>, !.joined = FALSE, !.seq = 0,
                                    !.out = IF flushed THEN @ ELSE <<>>]
  BY DEF Down
<1>3. \E o \in Seq(Frame) :
         /\ o = conn[j].out \/ o = <<>>
         /\ conn'[j] = [conn[j] EXCEPT !.pub = FALSE, !.served = FALSE,
                                       !.req = <<>>, !.joined = FALSE, !.seq = 0,
                                       !.out = o]
  <2>1. conn[j].out \in Seq(Frame) /\ <<>> \in Seq(Frame) BY <1>1, WireType
  <2>2. QED BY <1>2, <2>1
<1>4. PICK o \in Seq(Frame) :
         /\ o = conn[j].out \/ o = <<>>
         /\ conn'[j] = [conn[j] EXCEPT !.pub = FALSE, !.served = FALSE,
                                       !.req = <<>>, !.joined = FALSE, !.seq = 0,
                                       !.out = o]
  BY <1>3
<1>5. conn'[j] \in Connection
  <2>1. [conn[j] EXCEPT !.pub = FALSE, !.served = FALSE, !.req = <<>>,
                        !.joined = FALSE, !.seq = 0, !.out = o] \in Connection
    BY <1>1, Parts
  <2>2. QED BY <1>4, <2>1
<1>6. /\ ~conn'[j].pub /\ ~conn'[j].served /\ ~conn'[j].joined
      /\ conn'[j].req = <<>>
      /\ conn'[j].sub = conn[j].sub /\ conn'[j].run = conn[j].run
      /\ conn'[j].in = conn[j].in
      /\ conn'[j].out = o
  BY <1>1, <1>4 DEF Connection
<1>7. QED BY <1>1, <1>4, <1>5, <1>6

\* One connection was altered, within the bounds.
LEMMA AltersTyped ==
    ASSUME Typed, Fits, NEW j \in Conns, NEW d, Alters(j, d),
           Len(d.out) <= OutCap, Len(d.in) <= InCap
    PROVE  conn' \in [Conns -> Connection] /\ Fits'
<1>1. /\ conn' \in [Conns -> Connection] /\ conn'[j] = d
      /\ \A i \in Conns : i # j => conn'[i] = conn[i]
  BY Altered
<1>2. Fits' BY <1>1 DEF Fits
<1>3. QED BY <1>1, <1>2

\* Nothing more comes.
LEMMA EndOfFileEffect ==
    ASSUME Typed, Bounded, NEW j \in Conns, EndOfFile(j)
    PROVE  \E d : /\ Alters(j, d)
                  /\ conn[j] \in Connection
                  /\ d.pub = conn[j].pub /\ ~d.sub /\ d.served = conn[j].served
                  /\ d.run = conn[j].run /\ d.joined = conn[j].joined
                  /\ d.seq = conn[j].seq /\ d.req = conn[j].req
                  /\ d.out = conn[j].out /\ d.out = <<>> /\ d.in = conn[j].in
                  /\ Len(d.out) <= OutCap /\ Len(d.in) <= InCap
<1> DEFINE d == [conn[j] EXCEPT !.sub = FALSE]
<1>1. /\ conn \in [Conns -> Connection] /\ conn[j] \in Connection
      /\ conn[j].out = <<>> /\ ~conn[j].pub
      /\ conn' = [conn EXCEPT ![j] = d]
  BY DEF Typed, EndOfFile
<1>2. d \in Connection BY <1>1, Parts
<1>3. /\ d.pub = conn[j].pub /\ ~d.sub /\ d.served = conn[j].served
      /\ d.run = conn[j].run /\ d.joined = conn[j].joined
      /\ d.seq = conn[j].seq /\ d.req = conn[j].req
      /\ d.out = conn[j].out /\ d.in = conn[j].in
  BY <1>1 DEF Connection
<1>4. Len(conn[j].out) <= OutCap /\ Len(conn[j].in) <= InCap BY DEF Bounded, Fits
<1> HIDE DEF d
<1>5. QED BY <1>1, <1>2, <1>3, <1>4 DEF Alters

\* The pump of a connection that ended.
LEMMA PumpEndsEffect ==
    ASSUME Typed, Bounded, NEW j \in Conns, PumpEnds(j)
    PROVE  \E d : /\ Alters(j, d)
                  /\ conn[j] \in Connection
                  /\ d.pub = conn[j].pub /\ d.sub = conn[j].sub
                  /\ d.served = conn[j].served
                  /\ d.run = 0 /\ d.joined = conn[j].joined
                  /\ d.seq = conn[j].seq /\ d.req = conn[j].req
                  /\ d.out = conn[j].out /\ d.in = conn[j].in
                  /\ ~conn[j].sub /\ conn[j].in = <<>>
                  /\ Len(d.out) <= OutCap /\ Len(d.in) <= InCap
<1> DEFINE d == [conn[j] EXCEPT !.run = 0]
<1>1. /\ conn \in [Conns -> Connection] /\ conn[j] \in Connection
      /\ conn[j].in = <<>> /\ ~conn[j].sub
      /\ conn' = [conn EXCEPT ![j] = d]
  BY DEF Typed, PumpEnds
<1>2. d \in Connection BY <1>1, Parts
<1>3. /\ d.pub = conn[j].pub /\ d.sub = conn[j].sub
      /\ d.served = conn[j].served
      /\ d.run = 0 /\ d.joined = conn[j].joined
      /\ d.seq = conn[j].seq /\ d.req = conn[j].req
      /\ d.out = conn[j].out /\ d.in = conn[j].in
  BY <1>1 DEF Connection
<1>4. Len(conn[j].out) <= OutCap /\ Len(conn[j].in) <= InCap BY DEF Bounded, Fits
<1> HIDE DEF d
<1>5. QED BY <1>1, <1>2, <1>3, <1>4 DEF Alters

\* A request towards the publisher.
LEMMA AskedTyped ==
    ASSUME Typed, Bounded, NEW k \in Conns, NEW reqs \in Seq(Request),
           Reached(k), Asked(k, reqs), UNCHANGED pub
    PROVE  /\ conn' \in [Conns -> Connection] /\ Bounded'
           /\ client' \in Conns \cup {NoConn}
           /\ left' \in [data : Nat, restarts : Nat, connects : Nat]
<1>1. PICK d \in Connection :
          /\ conn' = [conn EXCEPT ![k] = d]
          /\ client' \in Conns \cup {NoConn}
          /\ left' \in [data : Nat, restarts : Nat, connects : Nat]
          /\ left'.restarts = left.restarts
          /\ (d.out = <<>> /\ d.in = <<>>) \/ (d.out = conn[k].out /\ d.in = conn[k].in)
  BY AskedFacts
<1>2. Len(<<>>) = 0 /\ 0 <= OutCap /\ 0 <= InCap
  <2>1. OutCap \in Nat /\ InCap \in Nat BY CapacityAssumption
  <2>2. QED BY <2>1
<1>3. Len(conn[k].out) <= OutCap /\ Len(conn[k].in) <= InCap BY DEF Bounded, Fits
<1>4. Len(d.out) <= OutCap /\ Len(d.in) <= InCap BY <1>1, <1>2, <1>3
<1>5. Alters(k, d) BY <1>1 DEF Alters
<1>6. conn' \in [Conns -> Connection] /\ Fits' BY <1>4, <1>5, AltersTyped DEF Bounded
<1>7. Restarts' BY <1>1 DEF Bounded, Restarts
<1>8. QED BY <1>1, <1>6, <1>7 DEF Bounded

\* What the subscriber asks for.
LEMMA RequestsType ==
    /\ \A s \in Nat : /\ {s} \in Maybe
                      /\ <<[op |-> "subscribe", since |-> {s},
                            first |-> FALSE]>> \in Seq(Request)
    /\ \A s \in Sinces : /\ s \in Maybe
                         /\ <<[op |-> "subscribe", since |-> s,
                               first |-> TRUE]>> \in Seq(Request)
    /\ <<[op |-> "unsubscribe", since |-> {}, first |-> FALSE]>> \in Seq(Request)
    /\ <<>> \in Seq(Request)
<1>1. \A r \in Request : <<r>> \in Seq(Request) OBVIOUS
<1>2. \A s \in Nat : {s} \in Maybe BY DEF Maybe
<1>3. \A s \in Sinces : s \in Maybe BY SincesAssumption DEF Maybe
<1>4. {} \in Maybe BY DEF Maybe
<1>5. \A s \in Maybe : /\ [op |-> "subscribe", since |-> s, first |-> FALSE] \in Request
                       /\ [op |-> "subscribe", since |-> s, first |-> TRUE] \in Request
                       /\ [op |-> "unsubscribe", since |-> s, first |-> FALSE] \in Request
  BY DEF Request
<1>6. <<>> \in Seq(Request) OBVIOUS
<1>7. QED BY <1>1, <1>2, <1>3, <1>4, <1>5, <1>6


\* A step that publishes.
LEMMA EmittingTyped ==
    ASSUME Typed, Bounded, NEW cs \in [Conns -> Connection], NEW S \in SUBSET Conns,
           \A j \in Conns : Len(cs[j].out) <= OutCap /\ Len(cs[j].in) <= InCap,
           Emit(cs, S), left' \in [data : Nat, restarts : Nat, connects : Nat],
           left'.restarts = left.restarts,
           UNCHANGED <<client, pumps, resuming, watching, app, start>>
    PROVE  Typed' /\ Bounded'
<1>1. /\ pub' \in [up : BOOLEAN, run : Nat, seq : Nat]
      /\ pub'.up = pub.up /\ pub'.run = pub.run
      /\ conn' \in [Conns -> Connection]
      /\ subs' \subseteq Conns
      /\ Fits'
  BY EmitTyped DEF Fits
<1>2. Typed' BY <1>1 DEF Typed, watching
<1>3. Restarts' BY <1>1 DEF Bounded, Restarts
<1>4. QED BY <1>1, <1>2, <1>3 DEF Bounded

LEMMA TypedStep ==
    ASSUME Typed, Bounded, Links, [Next]_vars
    PROVE  Typed' /\ Bounded'
<1>0. /\ Restarts /\ Fits
      /\ \A j \in Conns : Len(conn[j].out) <= OutCap /\ Len(conn[j].in) <= InCap
  BY DEF Bounded, Fits
<1>1. CASE Publish
  <2>1. /\ left' \in [data : Nat, restarts : Nat, connects : Nat]
        /\ left'.restarts = left.restarts
    BY <1>1 DEF Publish, Typed
  <2>2. conn \in [Conns -> Connection] /\ subs \in SUBSET Conns BY DEF Typed
  <2>3. /\ Emit(conn, subs)
        /\ UNCHANGED <<client, pumps, resuming, watching, app, start>>
    BY <1>1 DEF Publish
  <2>4. QED BY <1>0, <2>1, <2>2, <2>3, EmittingTyped
<1>2. ASSUME NEW j \in Conns, Leave(j) PROVE Typed' /\ Bounded'
  <2>1. /\ left' \in [data : Nat, restarts : Nat, connects : Nat]
        /\ left'.restarts = left.restarts
    BY <1>2 DEF Leave, Typed
  <2>2. conn \in [Conns -> Connection] /\ subs \ {j} \in SUBSET Conns BY DEF Typed
  <2>3. /\ Emit(conn, subs \ {j})
        /\ UNCHANGED <<client, pumps, resuming, watching, app, start>>
    BY <1>2 DEF Leave
  <2>4. QED BY <1>0, <2>1, <2>2, <2>3, EmittingTyped
<1>3. ASSUME NEW j \in Conns, Join(j) PROVE Typed' /\ Bounded'
  <2> DEFINE e == Replayed(conn[j], Replay(Head(conn[j].req).since))
             d == [e EXCEPT !.joined = TRUE, !.seq = pub.seq]
  <2>1. /\ Alters(j, d) /\ d.out = e.out /\ d.in = e.in
        /\ Head(conn[j].req).since \in Maybe
        /\ start' \subseteq Nat
    BY <1>3, JoinEffect
  <2>2. Len(e.out) <= OutCap /\ e.in = conn[j].in
    <3>1. conn[j] \in Connection BY DEF Typed
    <3>2. QED BY <1>0, <2>1, <3>1, JoinReplays
  <2>3. Len(d.out) <= OutCap /\ Len(d.in) <= InCap BY <1>0, <2>1, <2>2
  <2> HIDE DEF d, e
  <2>4. conn' \in [Conns -> Connection] /\ Fits' BY <1>0, <2>1, <2>3, AltersTyped
  <2>5. Typed' BY <1>3, <2>1, <2>4 DEF Join, Typed, watching
  <2>6. Restarts' BY <1>0, <1>3 DEF Join, Restarts
  <2>7. QED BY <2>4, <2>5, <2>6 DEF Bounded
<1>4. ASSUME NEW j \in Conns, Announce(j) PROVE Typed' /\ Bounded'
  <2> DEFINE E == Emitted(conn, subs)
             f == Pushed(E[j], Reply(conn[j].seq))
             d == [f EXCEPT !.joined = FALSE, !.seq = 0, !.req = Tail(conn[j].req)]
  <2>1. /\ conn' = [E EXCEPT ![j] = d]
        /\ conn' \in [Conns -> Connection]
        /\ Len(d.out) <= OutCap /\ Len(d.in) <= InCap
        /\ E \in [Conns -> Connection]
        /\ subs' \in SUBSET subs
    BY <1>4, AnnounceEffect
  <2>2. pub' = [pub EXCEPT !.seq = @ + 1] BY <1>4 DEF Announce
  <2>3. ASSUME NEW i \in Conns PROVE Len(E[i].out) <= OutCap /\ Len(E[i].in) <= InCap
    <3>1. /\ conn \in [Conns -> Connection] /\ subs \in SUBSET Conns
          /\ conn[i] \in Connection /\ pub.seq \in Nat
      BY DEF Typed
    <3>2. E[i] = IF i \in subs THEN Pushed(conn[i], Envelope(pub.seq + 1)) ELSE conn[i]
      BY <3>1, EmittedType
    <3>3. Envelope(pub.seq + 1) \in Frame BY <3>1, FramesType
    <3> HIDE DEF E
    <3>4. QED BY <1>0, <3>1, <3>2, <3>3, PushedFields
  <2> HIDE DEF d, E
  <2>4. Fits'
    <3>1. \A i \in Conns : conn'[i] = IF i = j THEN d ELSE E[i] BY <2>1
    <3>2. QED BY <2>1, <2>3, <3>1 DEF Fits
  <2>5. Typed' BY <1>4, <2>1, <2>2 DEF Announce, Typed, watching
  <2>6. Restarts' BY <1>0, <1>4, <2>2 DEF Announce, Restarts, Typed
  <2>7. QED BY <2>4, <2>5, <2>6 DEF Bounded
<1>5. ASSUME NEW j \in Conns, Left(j) PROVE Typed' /\ Bounded'
  <2> DEFINE e == Pushed(conn[j], Reply(0))
             d == [e EXCEPT !.req = Tail(@)]
  <2>1. Alters(j, d) /\ conn[j] \in Connection /\ d.out = e.out /\ d.in = e.in
    BY <1>5, LeftEffect
  <2>2. Len(e.out) <= OutCap /\ e.in = conn[j].in
    <3>1. Reply(0) \in Frame BY FramesType
    <3>2. QED BY <1>0, <2>1, <3>1, PushedFields
  <2>3. Len(d.out) <= OutCap /\ Len(d.in) <= InCap BY <1>0, <2>1, <2>2
  <2> HIDE DEF d, e
  <2>4. conn' \in [Conns -> Connection] /\ Fits' BY <1>0, <2>1, <2>3, AltersTyped
  <2>5. Typed' BY <1>5, <2>4 DEF Left, Typed, watching
  <2>6. Restarts' BY <1>0, <1>5 DEF Left, Restarts
  <2>7. QED BY <2>4, <2>5, <2>6 DEF Bounded
<1>6. ASSUME NEW j \in Conns, Hangup(j) PROVE Typed' /\ Bounded'
  <2>0. /\ UNCHANGED <<client, pumps, resuming, watching, app, start, left>>
        /\ j \in subs => Emit(Ended(j), subs \ {j})
        /\ j \notin subs => conn' = Ended(j) /\ UNCHANGED <<pub, subs>>
    BY <1>6 DEF Hangup, Ended
  <2>1. /\ Ended(j) \in [Conns -> Connection]
        /\ \A i \in Conns : Len(Ended(j)[i].out) <= OutCap /\ Len(Ended(j)[i].in) <= InCap
    BY <1>0, EndedFacts
  <2>2. CASE j \in subs
    <3>1. /\ left' \in [data : Nat, restarts : Nat, connects : Nat]
          /\ left'.restarts = left.restarts
          /\ subs \ {j} \in SUBSET Conns
      BY <2>0 DEF Typed
    <3>2. QED BY <2>0, <2>1, <2>2, <3>1, EmittingTyped
  <2>3. CASE j \notin subs
    <3>1. Typed' BY <2>0, <2>1, <2>3 DEF Typed, watching
    <3>2. Fits' BY <2>0, <2>1, <2>3 DEF Fits
    <3>3. Restarts' BY <1>0, <2>0, <2>3 DEF Restarts
    <3>4. QED BY <3>1, <3>2, <3>3 DEF Bounded
  <2>4. QED BY <2>2, <2>3
<1>7. CASE Down
  <2>1. ASSUME NEW j \in Conns
        PROVE  /\ conn'[j] \in Connection
               /\ Len(conn'[j].out) <= OutCap /\ Len(conn'[j].in) <= InCap
    <3>1. /\ conn'[j] \in Connection
          /\ conn'[j].in = conn[j].in
          /\ conn'[j].out = conn[j].out \/ conn'[j].out = <<>>
      BY <1>7, DownEffect
    <3>2. Len(<<>>) = 0 /\ 0 <= OutCap
      <4>1. OutCap \in Nat BY CapacityAssumption
      <4>2. QED BY <4>1
    <3>3. QED BY <1>0, <3>1, <3>2
  <2>2. conn' \in [Conns -> Connection]
    <3>1. conn' = [j \in Conns |-> conn'[j]] BY <1>7 DEF Down
    <3>2. QED BY <2>1, <3>1
  <2>3. Fits' BY <2>1 DEF Fits
  <2>4. /\ pub.up /\ left.restarts > 0
        /\ left' = [left EXCEPT !.restarts = @ - 1]
        /\ pub' = [pub EXCEPT !.up = FALSE]
        /\ subs' = {}
        /\ UNCHANGED <<client, pumps, resuming, watching, app, start>>
    BY <1>7 DEF Down
  <2>5. Typed'
    <3>1. left' \in [data : Nat, restarts : Nat, connects : Nat]
      BY <2>4 DEF Typed
    <3>2. pub' \in [up : BOOLEAN, run : Nat, seq : Nat] BY <2>4 DEF Typed
    <3>3. QED BY <2>2, <2>4, <3>1, <3>2 DEF Typed, watching
  <2>6. Restarts' BY <1>0, <2>4 DEF Restarts, Typed
  <2>7. QED BY <2>3, <2>5, <2>6 DEF Bounded
<1>8. CASE Up
  <2>1. Typed' BY <1>8 DEF Up, Typed, watching
  <2>2. Restarts' BY <1>0, <1>8 DEF Up, Restarts, Typed
  <2>3. Fits' BY <1>0, <1>8 DEF Up, Fits
  <2>4. QED BY <2>1, <2>2, <2>3 DEF Bounded
<1>9. ASSUME NEW k \in Conns, Use(k) PROVE Typed' /\ Bounded'
  <2>1. /\ conn' \in [Conns -> Connection] /\ Bounded'
        /\ client' \in Conns \cup {NoConn}
        /\ left' \in [data : Nat, restarts : Nat, connects : Nat]
    BY <1>9, AskedTyped, RequestsType DEF Use
  <2>2. Typed' BY <1>9, <2>1 DEF Use, Typed, watching, Opened
  <2>3. QED BY <2>1, <2>2
<1>10. ASSUME NEW j \in Conns, Read(j) PROVE Typed' /\ Bounded'
  <2>1. PICK d : /\ Alters(j, d)
                 /\ Len(d.out) <= OutCap /\ Len(d.in) <= InCap
                 /\ conn[j] \in Connection /\ conn[j].out # <<>>
                 /\ \/ app' = app
                    \/ app' = IF app.stage = "calling" /\ app.conn = j /\ app.answer = {}
                              THEN [app EXCEPT !.answer = {conn[j].out[1].n}] ELSE app
    BY <1>10, ReadEffect
  <2>2. conn' \in [Conns -> Connection] /\ Fits' BY <1>0, <2>1, AltersTyped
  <2>3. app' \in [stage : Stage, conn : Conns \cup {NoConn}, since : Maybe,
                  answer : Maybe]
    <3>1. conn[j].out[1].n \in Nat
      <4>1. conn[j].out \in Seq(Frame) BY <2>1, WireType
      <4>2. conn[j].out[1] \in Frame BY <2>1, <4>1, HeadAndTail
      <4>3. QED BY <4>2 DEF Frame
    <3>2. PICK n \in Nat : n = conn[j].out[1].n BY <3>1
    <3>3. {n} \in Maybe BY DEF Maybe
    <3>4. QED BY <2>1, <3>2, <3>3 DEF Typed
  <2>4. Typed' BY <1>10, <2>2, <2>3 DEF Read, Typed, watching
  <2>5. Restarts' BY <1>0, <1>10 DEF Read, Restarts
  <2>6. QED BY <2>2, <2>4, <2>5 DEF Bounded
<1>11. ASSUME NEW j \in Conns, EndOfFile(j) PROVE Typed' /\ Bounded'
  <2>1. PICK d : Alters(j, d) /\ Len(d.out) <= OutCap /\ Len(d.in) <= InCap
    BY <1>11, EndOfFileEffect
  <2>2. conn' \in [Conns -> Connection] /\ Fits' BY <1>0, <2>1, AltersTyped
  <2>3. Typed' BY <1>11, <2>2 DEF EndOfFile, Typed, watching
  <2>4. Restarts' BY <1>0, <1>11 DEF EndOfFile, Restarts
  <2>5. QED BY <2>2, <2>3, <2>4 DEF Bounded
<1>12. ASSUME NEW j \in Conns, Pump(j) PROVE Typed' /\ Bounded'
  <2>1. PICK d : /\ Alters(j, d) /\ Len(d.out) <= OutCap /\ Len(d.in) <= InCap
                 /\ conn[j] \in Connection /\ conn[j].in # <<>>
    BY <1>12, PumpEffect
  <2>2. conn' \in [Conns -> Connection] /\ Fits' BY <1>0, <2>1, AltersTyped
  <2>3. PICK h \in Nat, r \in Nat : h = Head(conn[j].in) /\ r = conn[j].run
    <3>1. conn[j].in \in Seq(Nat) BY <2>1, WireType
    <3>2. Head(conn[j].in) \in Nat BY <2>1, <3>1, HeadAndTail
    <3>3. conn[j].run \in Nat BY <2>1 DEF Connection
    <3>4. QED BY <3>2, <3>3
  <2>4. Max({last, h}) \in Nat
    <3>1. last \in Nat BY DEF Typed
    <3>2. \E x \in {last, h} : \A y \in {last, h} : x >= y BY <3>1
    <3>3. QED BY <3>1, <3>2 DEF Max
  <2>5. /\ queued' \in 0..QueueCap /\ last' \in Nat
        /\ got' \subseteq Nat \X Nat /\ refused' \subseteq Nat \X Nat
    <3>1. <<r, h>> \in Nat \X Nat /\ QueueCap \in Nat BY CapacityAssumption
    <3>2. CASE watcher /\ queued < QueueCap
      <4>1. /\ queued' = queued + 1 /\ last' = Max({last, h})
            /\ got' = got \cup {<<r, h>>} /\ refused' = refused
        BY <1>12, <2>3, <3>2 DEF Pump
      <4>2. QED BY <2>4, <3>1, <3>2, <4>1 DEF Typed
    <3>3. CASE ~(watcher /\ queued < QueueCap)
      <4>1. /\ queued' = queued /\ last' = last /\ got' = got
            /\ refused' = IF watcher THEN refused \cup {<<r, h>>} ELSE refused
        BY <1>12, <2>3, <3>3 DEF Pump
      <4>2. QED BY <3>1, <4>1 DEF Typed
    <3>4. QED BY <3>2, <3>3
  <2>6. UNCHANGED <<pub, subs, client, pumps, resuming, watcher, app, start, left>>
    BY <1>12 DEF Pump
  <2>7. Typed' BY <2>2, <2>5, <2>6 DEF Typed
  <2>8. Restarts' BY <1>0, <2>6 DEF Restarts
  <2>9. QED BY <2>2, <2>7, <2>8 DEF Bounded
<1>13. ASSUME NEW j \in Conns, PumpEnds(j) PROVE Typed' /\ Bounded'
  <2>1. PICK d : Alters(j, d) /\ Len(d.out) <= OutCap /\ Len(d.in) <= InCap
    BY <1>13, PumpEndsEffect
  <2>2. conn' \in [Conns -> Connection] /\ Fits' BY <1>0, <2>1, AltersTyped
  <2>3. BagToSet(resuming)' \subseteq Nat
    <3>1. resuming' = IF watcher THEN resuming (+) SetToBag({last}) ELSE resuming
      BY <1>13 DEF PumpEnds
    <3>2. BagToSet(resuming (+) SetToBag({last})) = BagToSet(resuming) \cup {last}
      BY BagFacts
    <3>3. BagToSet(resuming) \subseteq Nat /\ last \in Nat BY DEF Typed
    <3>4. QED BY <3>1, <3>2, <3>3
  <2>4. Typed' BY <1>13, <2>2, <2>3 DEF PumpEnds, Typed, watching
  <2>5. Restarts' BY <1>0, <1>13 DEF PumpEnds, Restarts
  <2>6. QED BY <2>2, <2>4, <2>5 DEF Bounded
<1>14. CASE Take
  <2>1. queued' \in 0..QueueCap
    <3>1. QueueCap \in Nat BY CapacityAssumption
    <3>2. QED BY <1>14, <3>1 DEF Take, Typed
  <2>2. UNCHANGED <<wires, client, pumps, resuming, watcher, last, got, refused,
                    app, start, left>>
    BY <1>14 DEF Take
  <2>3. QED BY <1>0, <2>1, <2>2 DEF Typed, Bounded, Restarts, Fits, wires
<1>15. ASSUME NEW s \in BagToSet(resuming), NEW k \in Conns, Resume(s, k)
       PROVE  Typed' /\ Bounded'
  <2>1. <<[op |-> "subscribe", since |-> {s}, first |-> FALSE]>> \in Seq(Request)
    BY RequestsType DEF Typed
  <2>2. /\ conn' \in [Conns -> Connection] /\ Bounded'
        /\ client' \in Conns \cup {NoConn}
        /\ left' \in [data : Nat, restarts : Nat, connects : Nat]
    BY <1>15, <2>1, AskedTyped DEF Resume
  <2>3. BagToSet(resuming)' \subseteq Nat BY <1>15, BagFacts DEF Resume, Typed
  <2>4. Typed' BY <1>15, <2>2, <2>3 DEF Resume, Typed, watching, Opened
  <2>5. QED BY <2>2, <2>4
<1>16. ASSUME NEW s \in BagToSet(resuming), GiveUp(s) PROVE Typed' /\ Bounded'
  <2>1. BagToSet(resuming)' \subseteq Nat BY <1>16, BagFacts DEF GiveUp, Typed
  <2>2. queued' \in 0..QueueCap
    <3>1. QueueCap \in Nat BY CapacityAssumption
    <3>2. QED BY <1>16, <3>1 DEF GiveUp, Typed
  <2>3. /\ watcher' = FALSE
        /\ UNCHANGED <<wires, client, pumps, last, got, refused, app, start, left>>
    BY <1>16 DEF GiveUp
  <2>4. QED BY <1>0, <2>1, <2>2, <2>3 DEF Typed, Bounded, Restarts, Fits, wires
<1>17. ASSUME NEW k \in Conns, Subscribe(k) PROVE Typed' /\ Bounded'
  <2>1. PICK s \in Sinces :
           /\ Asked(k, <<[op |-> "subscribe", since |-> s, first |-> TRUE]>>)
           /\ last' = IF s = {} THEN 0 ELSE Min(s)
           /\ app' = [stage |-> "calling", conn |-> k, since |-> s,
                      answer |-> {}]
           /\ start' = s
    BY <1>17 DEF Subscribe
  <2>2. /\ Reached(k) /\ watcher' = TRUE /\ pumps' = pumps \cup {k}
        /\ UNCHANGED <<pub, subs, resuming, queued, got, refused>>
    BY <1>17 DEF Subscribe, Opened
  <2>3. /\ s \in Maybe /\ {} \in Maybe
        /\ <<[op |-> "subscribe", since |-> s, first |-> TRUE]>> \in Seq(Request)
    BY RequestsType DEF Maybe
  <2>4. /\ conn' \in [Conns -> Connection] /\ Bounded'
        /\ client' \in Conns \cup {NoConn}
        /\ left' \in [data : Nat, restarts : Nat, connects : Nat]
    BY <2>1, <2>2, <2>3, AskedTyped
  <2>5. last' \in Nat /\ start' \subseteq Nat
    <3>1. CASE s = {} BY <2>1, <3>1
    <3>2. CASE s # {}
      <4>1. PICK n \in Nat : s = {n} BY <2>3, <3>2 DEF Maybe
      <4>2. Min({n}) = n BY DEF Min
      <4>3. QED BY <2>1, <3>2, <4>1, <4>2
    <3>3. QED BY <3>1, <3>2
  <2>6. app' \in [stage : Stage, conn : Conns \cup {NoConn}, since : Maybe,
                  answer : Maybe]
    BY <2>1, <2>3 DEF Stage
  <2>7. Typed' BY <2>2, <2>4, <2>5, <2>6 DEF Typed
  <2>8. QED BY <2>4, <2>7
<1>18. CASE Subscribed
  <2>1. Seeded \in Nat
    <3>1. CASE app.since # {} BY <3>1 DEF Seeded, Typed
    <3>2. CASE app.since = {}
      <4>1. app.answer \in Maybe /\ last \in Nat /\ app.answer # {}
        BY <1>18 DEF Typed, Subscribed
      <4>2. PICK n \in Nat : app.answer = {n} BY <4>1 DEF Maybe
      <4>3. {last} \cup {n} = {last, n} OBVIOUS
      <4>4. \E x \in {last, n} : \A y \in {last, n} : x >= y BY <4>1
      <4>5. Max({last, n}) \in Nat BY <4>1, <4>4 DEF Max
      <4>6. QED BY <3>2, <4>2, <4>3, <4>5 DEF Seeded
    <3>3. QED BY <3>1, <3>2
  <2>2. app' \in [stage : Stage, conn : Conns \cup {NoConn}, since : Maybe,
                  answer : Maybe]
    <3>1. {} \in Maybe BY DEF Maybe
    <3>2. QED BY <1>18, <3>1 DEF Subscribed, Typed, Stage
  <2>3. /\ last' = Seeded
        /\ UNCHANGED <<wires, client, pumps, resuming, watcher, queued, got, refused,
                       start, left>>
    BY <1>18 DEF Subscribed
  <2>4. QED BY <1>0, <2>1, <2>2, <2>3 DEF Typed, Bounded, Restarts, Fits, wires
<1>19. CASE SubscribeFails
  <2>1. app' \in [stage : Stage, conn : Conns \cup {NoConn}, since : Maybe,
                  answer : Maybe]
    BY <1>19 DEF SubscribeFails, Typed, Stage
  <2>2. /\ watcher' = FALSE
        /\ UNCHANGED <<wires, client, pumps, resuming, last, queued, got, refused,
                       start, left>>
    BY <1>19 DEF SubscribeFails
  <2>3. QED BY <1>0, <2>1, <2>2 DEF Typed, Bounded, Restarts, Fits, wires
<1>20. ASSUME NEW k \in Conns, Unsubscribe(k) PROVE Typed' /\ Bounded'
  <2>1. /\ Reached(k) /\ watcher' = FALSE /\ pumps' = pumps \cup {k}
        /\ Asked(k, <<[op |-> "unsubscribe", since |-> {}, first |-> FALSE]>>)
        /\ app' = [app EXCEPT !.stage = "unsubscribed"]
        /\ UNCHANGED <<pub, subs, resuming, last, queued, got, refused, start>>
    BY <1>20 DEF Unsubscribe, Opened
  <2>2. /\ conn' \in [Conns -> Connection] /\ Bounded'
        /\ client' \in Conns \cup {NoConn}
        /\ left' \in [data : Nat, restarts : Nat, connects : Nat]
    BY <2>1, RequestsType, AskedTyped
  <2>3. app' \in [stage : Stage, conn : Conns \cup {NoConn}, since : Maybe,
                  answer : Maybe]
    BY <2>1 DEF Typed, Stage
  <2>4. Typed' BY <2>1, <2>2, <2>3 DEF Typed
  <2>5. QED BY <2>2, <2>4
<1>21. CASE UNCHANGED vars
  BY <1>0, <1>21 DEF vars, wires, watching, Typed, Bounded, Restarts, Fits
<1>22. QED
  BY <1>1, <1>2, <1>3, <1>4, <1>5, <1>6, <1>7, <1>8, <1>9, <1>10, <1>11, <1>12,
     <1>13, <1>14, <1>15, <1>16, <1>17, <1>18, <1>19, <1>20, <1>21
  DEF Next, PublisherStep, SubscriberStep, External


-----------------------------------------------------------------------------
\* What a step that publishes nothing leaves as it was.

\* The publisher's numbers stand, and the subscriber only learns.
Quiet == /\ pub'.run = pub.run /\ pub'.seq = pub.seq
         /\ start \subseteq start' /\ got \subseteq got' /\ refused \subseteq refused'
         /\ watcher' => watcher

LEMMA QuietFacts ==
    ASSUME Typed, Typed', Quiet
    PROVE  /\ Missing' \subseteq Missing
           /\ Due' \subseteq Due
           /\ Due \in SUBSET Nat /\ Due' \in SUBSET Nat
           /\ pub.seq \in Nat
           /\ \A s \in Nat : Sound(s) => Sound(s)'
           /\ \A r \in Request : RequestOK(r) => RequestOK(r)'
<1>1. /\ Missing' \subseteq Missing
      /\ Due' \subseteq Due
      /\ \A s \in Nat : Sound(s) => Sound(s)'
  BY QuietDue DEF Quiet
<1>2. Due \in SUBSET Nat /\ pub.seq \in Nat BY DueType DEF Typed
<1>3. \A r \in Request : r.since \subseteq Nat BY DEF Request, Maybe
<1>4. \A r \in Request : RequestOK(r) => RequestOK(r)'
  BY <1>1, <1>3 DEF RequestOK
<1>5. QED BY <1>1, <1>2, <1>4

\* A connection the step is not about.
Untouched(j) == /\ conn'[j] = conn[j]
                /\ j \in pumps' <=> j \in pumps
                /\ j \in subs' => j \in subs

LEMMA UntouchedStep ==
    ASSUME Typed, Typed', Quiet, pub'.up = pub.up,
           NEW j \in Conns, Untouched(j),
           LinkOK(conn[j], j), WireOK(j), AskedOK(j), WholeOK(j)
    PROVE  LinkOK(conn[j], j)' /\ WireOK(j)' /\ AskedOK(j)' /\ WholeOK(j)'
<1>1. /\ Due' \subseteq Due /\ Due \in SUBSET Nat /\ Due' \in SUBSET Nat
      /\ pub.seq \in Nat
      /\ \A r \in Request : RequestOK(r) => RequestOK(r)'
  BY QuietFacts
<1>2. conn[j] \in Connection /\ conn'[j] = conn[j]
      /\ pub'.run = pub.run /\ pub'.seq = pub.seq
  BY DEF Typed, Untouched, Quiet
<1>3. LinkOK(conn[j], j)' BY <1>2 DEF LinkOK, Untouched
<1>4. WireOK(j)'
  <2>1. SUFFICES ASSUME conn[j].run = pub.run
                 PROVE  Numbered(conn[j], pub.seq) /\ Ordered(conn[j], Due')
    BY <1>2 DEF WireOK
  <2>2. Numbered(conn[j], pub.seq) /\ Ordered(conn[j], Due) BY <2>1 DEF WireOK
  <2>3. \A m \in Due' : m \in Due BY <1>1
  <2>4. QED BY <2>2, <2>3 DEF Ordered
<1>5. AskedOK(j)'
  <2>1. \A k \in 1..Len(conn[j].req) : conn[j].req[k] \in Request
    BY <1>2 DEF Connection
  <2>2. QED BY <1>1, <1>2, <2>1 DEF AskedOK
<1>6. WholeOK(j)' BY <1>1, <1>2 DEF WholeOK, Untouched
<1>7. QED BY <1>3, <1>4, <1>5, <1>6

\* Where the step is about one connection, the rest follows.
LEMMA OneTouched ==
    ASSUME Typed, Typed', Quiet, pub'.up = pub.up, Links, Wires, Requests, Whole,
           NEW j \in Conns, \A i \in Conns : i # j => Untouched(i),
           LinkOK(conn[j], j)', WireOK(j)', AskedOK(j)', WholeOK(j)'
    PROVE  Links' /\ Wires' /\ Requests' /\ Whole'
<1>1. ASSUME NEW i \in Conns
      PROVE  LinkOK(conn[i], i)' /\ WireOK(i)' /\ AskedOK(i)' /\ WholeOK(i)'
  <2>1. CASE i = j BY <2>1
  <2>2. CASE i # j
    <3>1. LinkOK(conn[i], i) /\ WireOK(i) /\ AskedOK(i) /\ WholeOK(i)
      BY DEF Links, Wires, Requests, Whole
    <3>2. Untouched(i) BY <2>2
    <3>3. QED BY <3>1, <3>2, UntouchedStep
  <2>3. QED BY <2>1, <2>2
<1>2. QED BY <1>1 DEF Links, Wires, Requests, Whole

LEMMA NoneTouched ==
    ASSUME Typed, Typed', Quiet, pub'.up = pub.up, Links, Wires, Requests, Whole,
           \A i \in Conns : Untouched(i)
    PROVE  Links' /\ Wires' /\ Requests' /\ Whole'
<1>1. ASSUME NEW i \in Conns
      PROVE  LinkOK(conn[i], i)' /\ WireOK(i)' /\ AskedOK(i)' /\ WholeOK(i)'
  <2>1. LinkOK(conn[i], i) /\ WireOK(i) /\ AskedOK(i) /\ WholeOK(i)
    BY DEF Links, Wires, Requests, Whole
  <2>2. Untouched(i) OBVIOUS
  <2>3. QED BY <2>1, <2>2, UntouchedStep
<1>2. QED BY <1>1 DEF Links, Wires, Requests, Whole

\* A quiet step of which the handler learns nothing.
LEMMA NothingLearnt ==
    ASSUME Typed, Typed', Quiet, GotOK, Seen, Positions, got' = got,
           watcher' => last' = last,
           BagToSet(resuming)' \subseteq BagToSet(resuming)
    PROVE  GotOK' /\ Seen' /\ Positions'
<1>1. /\ Missing' \subseteq Missing
      /\ \A s \in Nat : Sound(s) => Sound(s)'
  BY QuietFacts
<1>2. pub'.run = pub.run /\ pub'.seq = pub.seq /\ (watcher' => watcher)
  BY DEF Quiet
<1>3. GotOK' BY <1>2 DEF GotOK
<1>4. Seen'
  <2>1. InRun(got)' = InRun(got) BY <1>2 DEF InRun
  <2>2. QED BY <1>1, <2>1 DEF Seen
<1>5. last \in Nat /\ BagToSet(resuming) \subseteq Nat BY DEF Typed
<1>6. Positions' BY <1>1, <1>2, <1>5 DEF Positions
<1>7. QED BY <1>3, <1>4, <1>6

\* The first reply stays what it was.
LEMMA FirstWider ==
    ASSUME NEW c \in Connection, NEW S, NEW T, S \subseteq T, FirstReply(c, S)
    PROVE  FirstReply(c, T)
BY DEF FirstReply

LEMMA StillAnswering ==
    ASSUME Typed, Typed', Answering, app' = app, start \subseteq start',
           \A i \in Conns : \/ conn'[i] = conn[i]
                            \/ First(i) => First(i)'
                            \/ ~ (app.stage = "calling" /\ app.conn = i
                                                       /\ app.answer = {})
    PROVE  Answering'
<1>1. ASSUME NEW i \in Conns, First(i), app.stage = "calling", app.conn = i,
             app.answer = {}
      PROVE  First(i)'
  <2>1. CASE conn'[i] = conn[i]
    <3>1. conn[i] \in Connection BY DEF Typed
    <3>2. FirstReply(conn[i], start') BY <1>1, <3>1, FirstWider DEF First
    <3>3. QED BY <2>1, <3>2 DEF First
  <2>2. QED BY <1>1, <2>1
<1>2. QED BY <1>1 DEF Answering


-----------------------------------------------------------------------------
\* What a publication leaves as it was.

\* The step numbers one envelope, and the subscriber learns nothing.
Emits == /\ pub' = [pub EXCEPT !.seq = @ + 1]
         /\ UNCHANGED <<got, refused, start, watcher>>

\* As the step finds a connection: as it was, or just closed.
Found(c, d) == \/ d = c
               \/ /\ Like(c, d) /\ ~d.pub /\ ~d.served /\ ~d.joined
                  /\ d.req = <<>>

LEMMA EmitsFacts ==
    ASSUME Typed, GotOK, Emits
    PROVE  /\ Due' \subseteq Due \cup {pub.seq + 1}
           /\ \A s \in Nat : Sound(s) => Sound(s)'
           /\ GotOK'
           /\ Seen => Seen'
           /\ pub'.run = pub.run /\ pub'.up = pub.up
           /\ pub'.seq = pub.seq + 1 /\ pub.seq \in Nat
           /\ \A r \in Request : RequestOK(r) => RequestOK(r)'
<1>1. /\ Due' \subseteq Due \cup {pub.seq + 1}
      /\ \A s \in Nat : Sound(s) => Sound(s)'
      /\ GotOK'
      /\ Seen => Seen'
  BY EmitDue DEF Emits
<1>2. \A r \in Request : r.since \subseteq Nat BY DEF Request, Maybe
<1>3. \A r \in Request : RequestOK(r) => RequestOK(r)'
  BY <1>1, <1>2 DEF RequestOK
<1>4. /\ pub'.run = pub.run /\ pub'.up = pub.up
      /\ pub'.seq = pub.seq + 1 /\ pub.seq \in Nat
  BY DEF Typed, Emits
<1>5. QED BY <1>1, <1>3, <1>4

\* An envelope on a connection, or not: what changes.
LEMMA EmittedFacts ==
    ASSUME Typed, NEW cs \in [Conns -> Connection], NEW S \in SUBSET Conns,
           NEW j \in Conns
    PROVE  LET c == cs[j]
               d == Emitted(cs, S)[j] IN
           /\ c \in Connection /\ d \in Connection
           /\ d.sub = c.sub /\ d.served = c.served /\ d.run = c.run
           /\ d.in = c.in /\ d.req = c.req /\ d.joined = c.joined /\ d.seq = c.seq
           /\ d.pub => c.pub
           /\ \/ d.out = c.out
              \/ /\ c.pub /\ c.sub /\ j \in S
                 /\ d.out = Append(c.out, Envelope(pub.seq + 1))
<1>1. cs[j] \in Connection /\ Envelope(pub.seq + 1) \in Frame
  BY FramesType DEF Typed
<1>2. Emitted(cs, S) \in [Conns -> Connection]
      /\ Emitted(cs, S)[j] = IF j \in S THEN Pushed(cs[j], Envelope(pub.seq + 1))
                                        ELSE cs[j]
  BY EmittedType
<1>3. QED BY <1>1, <1>2, PushedFields

\* An envelope is no reply.
LEMMA EmittedFirst ==
    ASSUME Typed, NEW cs \in [Conns -> Connection], NEW S \in SUBSET Conns,
           NEW j \in Conns, Found(conn[j], cs[j]), First(j)
    PROVE  FirstReply(Emitted(cs, S)[j], start)
<1> DEFINE d == Emitted(cs, S)[j]
           c == conn[j]
<1>1. /\ c \in Connection /\ cs[j] \in Connection /\ d \in Connection
      /\ d.sub = cs[j].sub /\ d.req = cs[j].req
      /\ d.joined = cs[j].joined /\ d.seq = cs[j].seq
      /\ d.pub => cs[j].pub
      /\ \/ d.out = cs[j].out
         \/ d.out = Append(cs[j].out, Envelope(pub.seq + 1))
  <2>1. c \in Connection BY DEF Typed
  <2>2. QED BY <2>1, EmittedFacts
<1>2. /\ cs[j].out = c.out
      /\ d.pub /\ d.sub => /\ c.pub /\ c.sub /\ d.req = c.req
                           /\ d.joined = c.joined /\ d.seq = c.seq
  BY <1>1 DEF Found, Like
<1>3. Envelope(pub.seq + 1) \in Frame /\ Envelope(pub.seq + 1).kind = "channel"
  BY FramesType DEF Typed, Envelope
<1>4. PICK l \in Nat : l = Len(c.out) BY <1>1, WireType
<1>5. /\ Len(d.out) = l \/ Len(d.out) = l + 1
      /\ \A i \in 1..l : d.out[i] = c.out[i]
      /\ Len(d.out) = l + 1 => d.out[l + 1].kind = "channel"
  <2>1. CASE d.out = c.out
    <3>1. l # l + 1 OBVIOUS
    <3>2. QED BY <1>4, <2>1, <3>1
  <2>2. CASE d.out = Append(c.out, Envelope(pub.seq + 1))
    <3>1. c.out \in Seq(Frame) BY <1>1, WireType
    <3>2. QED BY <1>3, <1>4, <2>2, <3>1, Appended
  <2>3. QED BY <1>1, <1>2, <2>1, <2>2
<1>6. /\ Len(c.out) <= Len(d.out)
      /\ \A i \in 1..Len(c.out) : d.out[i] = c.out[i]
      /\ \A i \in 1..Len(d.out) : i > Len(c.out) => d.out[i].kind = "channel"
  BY <1>4, <1>5
<1>7. FirstReply(c, start) BY DEF First
<1> HIDE DEF d, c
<1>8. start \subseteq start OBVIOUS
<1>9. FirstReply(d, start) BY <1>1, <1>2, <1>6, <1>7, <1>8, FirstKept
<1>10. QED BY <1>9 DEF d

\* One connection, where the step does no more to it.
LEMMA EmittedStep ==
    ASSUME Typed, Typed', Links, Wires, Requests, Whole, GotOK, Emits,
           pumps' = pumps,
           NEW cs \in [Conns -> Connection], NEW S \in SUBSET subs,
           NEW j \in Conns, Found(conn[j], cs[j]), j \in S => cs[j] = conn[j],
           conn'[j] = Emitted(cs, S)[j], j \in subs' => j \in S
    PROVE  /\ LinkOK(conn[j], j)' /\ WireOK(j)' /\ AskedOK(j)' /\ WholeOK(j)'
           /\ First(j) => First(j)'
<1> DEFINE d == Emitted(cs, S)[j]
<1>1. /\ Due' \subseteq Due \cup {pub.seq + 1}
      /\ pub'.run = pub.run /\ pub'.up = pub.up
      /\ pub'.seq = pub.seq + 1
      /\ \A r \in Request : RequestOK(r) => RequestOK(r)'
  BY EmitsFacts
<1>2. /\ S \in SUBSET Conns /\ conn[j] \in Connection /\ Due' \in SUBSET Nat
      /\ conn'[j] = d
  BY <1>1, DueType DEF Typed
<1>3. /\ cs[j] \in Connection /\ d \in Connection
      /\ d.sub = cs[j].sub /\ d.served = cs[j].served /\ d.run = cs[j].run
      /\ d.in = cs[j].in /\ d.req = cs[j].req
      /\ d.joined = cs[j].joined /\ d.seq = cs[j].seq
      /\ d.pub => cs[j].pub
      /\ d.out = cs[j].out \/ cs[j].sub
  BY <1>2, EmittedFacts
<1>4. Like(conn[j], cs[j]) BY <1>2 DEF Found, Like
<1>5. /\ conn[j].run = pub.run => Numbered(d, pub.seq + 1) /\ Ordered(d, Due')
      /\ j \in S /\ d.pub /\ d.sub => \A n \in Due' : Carries(d, n)
  BY <1>1, <1>2, <1>4, EmittedWire
<1>6. ASSUME First(j) PROVE First(j)'
  <2>1. FirstReply(d, start) BY <1>2, <1>6, EmittedFirst
  <2>2. start' = start BY DEF Emits
  <2>3. QED BY <1>2, <2>1, <2>2 DEF First
<1> HIDE DEF d
<1>7. LinkOK(conn[j], j)'
  <2>1. LinkOK(conn[j], j) BY DEF Links
  <2>2. QED BY <1>1, <1>2, <1>3, <2>1 DEF LinkOK, Found, Like
<1>8. WireOK(j)' BY <1>1, <1>2, <1>3, <1>4, <1>5 DEF WireOK, Like
<1>9. WholeOK(j)' BY <1>2, <1>5 DEF WholeOK
<1>10. AskedOK(j)'
  <2>1. \A k \in 1..Len(conn[j].req) : conn[j].req[k] \in Request
    BY <1>2 DEF Connection
  <2>2. AskedOK(j) BY DEF Requests
  <2>3. d.req = conn[j].req \/ d.req = <<>> BY <1>3 DEF Found
  <2>4. QED BY <1>1, <1>2, <2>1, <2>2, <2>3 DEF AskedOK
<1>11. QED BY <1>6, <1>7, <1>8, <1>9, <1>10

\* A step that only publishes.
LEMMA PublishedStep ==
    ASSUME Typed, Typed', Links, Wires, Requests, Whole, GotOK, Seen, Positions,
           Answering,
           NEW cs \in [Conns -> Connection], NEW S \in SUBSET subs,
           \A i \in Conns : /\ Found(conn[i], cs[i])
                            /\ i \in S => cs[i] = conn[i],
           Emit(cs, S), UNCHANGED <<pumps, resuming, watching, app, start>>
    PROVE  /\ Links' /\ Wires' /\ Requests' /\ Whole'
           /\ GotOK' /\ Seen' /\ Positions' /\ Answering'
<1>1. Emits BY DEF Emit, Emits, watching
<1>2. conn' = Emitted(cs, S) /\ \A i \in Conns : i \in subs' => i \in S
  BY DEF Emit
<1>3. ASSUME NEW i \in Conns
      PROVE  /\ LinkOK(conn[i], i)' /\ WireOK(i)' /\ AskedOK(i)' /\ WholeOK(i)'
             /\ First(i) => First(i)'
  BY <1>1, <1>2, EmittedStep
<1>4. Links' /\ Wires' /\ Requests' /\ Whole'
  BY <1>3 DEF Links, Wires, Requests, Whole
<1>5. /\ GotOK' /\ Seen' /\ \A s \in Nat : Sound(s) => Sound(s)'
  BY <1>1, EmitsFacts
<1>6. Positions'
  <2>1. last \in Nat /\ BagToSet(resuming) \subseteq Nat BY DEF Typed
  <2>2. UNCHANGED <<last, resuming, watcher>> BY DEF watching
  <2>3. QED BY <1>5, <2>1, <2>2 DEF Positions
<1>7. Answering'
  <2>1. \A i \in Conns : First(i) => First(i)' BY <1>3
  <2>2. QED BY <2>1, StillAnswering
<1>8. QED BY <1>4, <1>5, <1>6, <1>7

-----------------------------------------------------------------------------
\* Quiet steps that touch one connection.

LEMMA TouchedWire ==
    ASSUME Typed, Typed', Quiet, NEW j \in Conns, WholeOK(j),
           conn[j].run = pub.run =>
              Numbered(conn'[j], pub.seq) /\ Ordered(conn'[j], Due),
           \A n \in Due : Carries(conn[j], n) => Carries(conn'[j], n),
           conn'[j].run = conn[j].run,
           conn'[j].pub /\ conn'[j].sub => conn[j].pub /\ conn[j].sub,
           j \in subs' => j \in subs
    PROVE  WireOK(j)' /\ WholeOK(j)'
<1>1. Due' \subseteq Due BY QuietFacts
<1>2. pub'.run = pub.run /\ pub'.seq = pub.seq BY DEF Quiet
<1>3. \A m \in Due' : m \in Due BY <1>1
<1>4. ASSUME conn'[j].run = pub'.run
      PROVE  Numbered(conn'[j], pub'.seq) /\ Ordered(conn'[j], Due')
  <2>1. Numbered(conn'[j], pub.seq) /\ Ordered(conn'[j], Due) BY <1>2, <1>4
  <2>2. Ordered(conn'[j], Due') BY <1>3, <2>1 DEF Ordered
  <2>3. QED BY <1>2, <2>1, <2>2
<1>5. WholeOK(j)' BY <1>3 DEF WholeOK
<1>6. QED BY <1>4, <1>5 DEF WireOK

\* What is queued stays where it is.
LEMMA SameWire ==
    ASSUME Typed, Typed', Quiet, NEW j \in Conns, WireOK(j), WholeOK(j),
           conn'[j].in = conn[j].in, conn'[j].out = conn[j].out,
           conn'[j].run = conn[j].run,
           conn'[j].pub /\ conn'[j].sub => conn[j].pub /\ conn[j].sub,
           j \in subs' => j \in subs
    PROVE  WireOK(j)' /\ WholeOK(j)'
<1>1. conn[j].run = pub.run =>
         Numbered(conn'[j], pub.seq) /\ Ordered(conn'[j], Due)
  BY DEF WireOK, Numbered, Ordered, Carried, Pushes
<1>2. \A n \in Due : Carries(conn[j], n) => Carries(conn'[j], n)
  BY DEF Carries, Carried, Pushes
<1>3. QED BY <1>1, <1>2, TouchedWire

LEMMA SameFirst ==
    ASSUME Typed, Typed', start \subseteq start', NEW j \in Conns,
           conn'[j].out = conn[j].out,
           conn'[j].pub /\ conn'[j].sub =>
              /\ conn[j].pub /\ conn[j].sub
              /\ conn[j].req # <<>> => /\ conn'[j].req # <<>>
                                       /\ Head(conn'[j].req) = Head(conn[j].req)
              /\ conn'[j].joined => conn[j].joined /\ conn'[j].seq = conn[j].seq,
           First(j)
    PROVE  First(j)'
<1>1. conn[j] \in Connection /\ conn'[j] \in Connection BY DEF Typed
<1>2. PICK l \in Nat : l = Len(conn[j].out) BY <1>1, WireType
<1>3. /\ Len(conn[j].out) <= Len(conn'[j].out)
      /\ \A i \in 1..Len(conn[j].out) : conn'[j].out[i] = conn[j].out[i]
      /\ \A i \in 1..Len(conn'[j].out) : i > Len(conn[j].out) =>
            conn'[j].out[i].kind = "channel"
  BY <1>2
<1>4. FirstReply(conn[j], start) BY DEF First
<1>5. PICK c \in Connection : c = conn[j] BY <1>1
<1>6. PICK d \in Connection : d = conn'[j] BY <1>1
<1>7. FirstReply(d, start') BY <1>3, <1>4, <1>5, <1>6, FirstKept
<1>8. QED BY <1>6, <1>7 DEF First

-----------------------------------------------------------------------------
\* Every step keeps the invariant, the part about the time before the
\* subscription aside.

Inner == /\ Links /\ Wires /\ Requests /\ Whole
         /\ GotOK /\ Seen /\ Positions /\ Answering

LEMMA PublishStep ==
    ASSUME Typed, Typed', Inner, Publish
    PROVE  Inner'
<1>1. conn \in [Conns -> Connection] /\ subs \in SUBSET subs BY DEF Typed
<1>2. \A i \in Conns : Found(conn[i], conn[i]) BY DEF Found
<1>3. Emit(conn, subs) /\ UNCHANGED <<pumps, resuming, watching, app, start>>
  BY DEF Publish
<1>4. QED BY <1>1, <1>2, <1>3, PublishedStep DEF Inner

LEMMA LeaveStep ==
    ASSUME Typed, Typed', Inner, NEW j \in Conns, Leave(j)
    PROVE  Inner'
<1>1. conn \in [Conns -> Connection] /\ subs \ {j} \in SUBSET subs BY DEF Typed
<1>2. \A i \in Conns : Found(conn[i], conn[i]) BY DEF Found
<1>3. /\ Emit(conn, subs \ {j})
      /\ UNCHANGED <<pumps, resuming, watching, app, start>>
  BY DEF Leave
<1>4. QED BY <1>1, <1>2, <1>3, PublishedStep DEF Inner

LEMMA HangupStep ==
    ASSUME Typed, Typed', Inner, NEW j \in Conns, Hangup(j)
    PROVE  Inner'
<1> DEFINE d == Ended(j)[j]
<1>1. /\ UNCHANGED <<client, pumps, resuming, watching, app, start, left>>
      /\ j \in subs => Emit(Ended(j), subs \ {j})
      /\ j \notin subs => conn' = Ended(j) /\ UNCHANGED <<pub, subs>>
      /\ ~conn[j].joined
  BY DEF Hangup, Ended
<1>2. /\ Ended(j) \in [Conns -> Connection]
      /\ \A i \in Conns : i # j => Ended(j)[i] = conn[i]
      /\ ~d.served /\ ~d.pub /\ d.req = <<>>
      /\ d.sub = conn[j].sub /\ d.run = conn[j].run
      /\ d.out = conn[j].out /\ d.in = conn[j].in
      /\ d.joined = conn[j].joined /\ d.seq = conn[j].seq
  BY EndedFacts
<1> HIDE DEF d
<1>3. CASE j \in subs
  <2>1. \A i \in Conns : Found(conn[i], Ended(j)[i])
    <3>1. Found(conn[j], d) BY <1>1, <1>2 DEF Found, Like, d
    <3>2. \A i \in Conns : i # j => Found(conn[i], Ended(j)[i])
      BY <1>2 DEF Found
    <3>3. QED BY <3>1, <3>2 DEF d
  <2>2. \A i \in Conns : i \in subs \ {j} => Ended(j)[i] = conn[i] BY <1>2
  <2>3. subs \ {j} \in SUBSET subs OBVIOUS
  <2>4. /\ Emit(Ended(j), subs \ {j})
        /\ UNCHANGED <<pumps, resuming, watching, app, start>>
    BY <1>1, <1>3
  <2>5. QED BY <1>2, <2>1, <2>2, <2>3, <2>4, PublishedStep DEF Inner
<1>4. CASE j \notin subs
  <2>1. conn' = Ended(j) /\ conn'[j] = d /\ UNCHANGED <<pub, subs>>
    BY <1>1, <1>4 DEF d
  <2>2. /\ Quiet /\ pub'.up = pub.up /\ got' = got /\ last' = last
        /\ watcher' = watcher /\ resuming' = resuming /\ app' = app
        /\ start' = start /\ pumps' = pumps
    BY <1>1, <2>1 DEF Quiet, watching
  <2>3. \A i \in Conns : i # j => Untouched(i) BY <1>2, <2>1, <2>2 DEF Untouched
  <2>4. LinkOK(conn[j], j) /\ WireOK(j) /\ WholeOK(j)
    BY DEF Inner, Links, Wires, Whole
  <2>5. LinkOK(conn[j], j)'
    BY <1>1, <1>2, <1>4, <2>1, <2>2, <2>4 DEF LinkOK
  <2>6. WireOK(j)' /\ WholeOK(j)' BY <1>2, <2>1, <2>2, <2>4, SameWire
  <2>7. AskedOK(j)'
    <3>1. Len(<<>>) = 0 OBVIOUS
    <3>2. QED BY <1>2, <2>1, <3>1 DEF AskedOK
  <2>8. Links' /\ Wires' /\ Requests' /\ Whole'
    BY <2>2, <2>3, <2>5, <2>6, <2>7, OneTouched DEF Inner
  <2>9. GotOK' /\ Seen' /\ Positions' BY <2>2, NothingLearnt DEF Inner
  <2>10. Answering'
    <3>1. First(j) => First(j)' BY <1>2, <2>1, <2>2, SameFirst
    <3>2. \A i \in Conns : conn'[i] = conn[i] \/ (First(i) => First(i)')
      BY <2>3, <3>1 DEF Untouched
    <3>3. QED BY <2>2, <3>2, StillAnswering DEF Inner
  <2>11. QED BY <2>8, <2>9, <2>10 DEF Inner
<1>5. QED BY <1>3, <1>4


LEMMA EndOfFileStep ==
    ASSUME Typed, Typed', Bounded, Inner, NEW j \in Conns, EndOfFile(j)
    PROVE  Inner'
<1>1. PICK d : /\ Alters(j, d)
               /\ d.pub = conn[j].pub /\ ~d.sub /\ d.served = conn[j].served
               /\ d.run = conn[j].run /\ d.joined = conn[j].joined
               /\ d.seq = conn[j].seq /\ d.req = conn[j].req
               /\ d.out = conn[j].out /\ d.out = <<>> /\ d.in = conn[j].in
  BY EndOfFileEffect
<1>2. conn'[j] = d /\ \A i \in Conns : i # j => conn'[i] = conn[i]
  BY <1>1, Altered
<1>3. /\ Quiet /\ pub' = pub /\ subs' = subs /\ got' = got /\ last' = last
      /\ watcher' = watcher /\ resuming' = resuming /\ app' = app
      /\ start' = start /\ pumps' = pumps
  BY DEF EndOfFile, Quiet, watching
<1>4. \A i \in Conns : i # j => Untouched(i) BY <1>2, <1>3 DEF Untouched
<1>5. LinkOK(conn[j], j) /\ WireOK(j) /\ WholeOK(j) /\ AskedOK(j)
  BY DEF Inner, Links, Wires, Whole, Requests
<1>6. LinkOK(conn[j], j)' BY <1>1, <1>2, <1>3, <1>5 DEF LinkOK
<1>7. WireOK(j)' /\ WholeOK(j)' BY <1>1, <1>2, <1>3, <1>5, SameWire
<1>8. AskedOK(j)'
  <2>1. conn[j] \in Connection BY DEF Typed
  <2>2. \A k \in 1..Len(conn[j].req) : conn[j].req[k] \in Request
    BY <2>1 DEF Connection
  <2>3. \A r \in Request : RequestOK(r) => RequestOK(r)' BY <1>3, QuietFacts
  <2>4. QED BY <1>1, <1>2, <1>5, <2>2, <2>3 DEF AskedOK
<1>9. Links' /\ Wires' /\ Requests' /\ Whole'
  BY <1>3, <1>4, <1>6, <1>7, <1>8, OneTouched DEF Inner
<1>10. GotOK' /\ Seen' /\ Positions' BY <1>3, NothingLearnt DEF Inner
<1>11. Answering'
  <2>1. First(j) => First(j)' BY <1>1, <1>2, <1>3, SameFirst
  <2>2. QED BY <1>2, <1>3, <2>1, StillAnswering DEF Inner
<1>12. QED BY <1>9, <1>10, <1>11 DEF Inner

LEMMA PumpEndsStep ==
    ASSUME Typed, Typed', Bounded, Inner, NEW j \in Conns, PumpEnds(j)
    PROVE  Inner'
<1>1. PICK d : /\ Alters(j, d)
               /\ d.pub = conn[j].pub /\ d.sub = conn[j].sub
               /\ d.served = conn[j].served
               /\ d.run = 0 /\ d.joined = conn[j].joined
               /\ d.seq = conn[j].seq /\ d.req = conn[j].req
               /\ d.out = conn[j].out /\ d.in = conn[j].in
               /\ ~conn[j].sub /\ conn[j].in = <<>>
  BY PumpEndsEffect
<1>2. conn'[j] = d /\ \A i \in Conns : i # j => conn'[i] = conn[i]
  BY <1>1, Altered
<1>3. /\ Quiet /\ pub' = pub /\ subs' = subs /\ got' = got /\ last' = last
      /\ watcher' = watcher /\ app' = app
      /\ start' = start /\ pumps' = pumps \ {j}
      /\ resuming' = IF watcher THEN resuming (+) SetToBag({last}) ELSE resuming
  BY DEF PumpEnds, Quiet, watching
<1>4. \A i \in Conns : i # j => Untouched(i) BY <1>2, <1>3 DEF Untouched
<1>5. LinkOK(conn[j], j) /\ WireOK(j) /\ WholeOK(j) /\ AskedOK(j)
  BY DEF Inner, Links, Wires, Whole, Requests
<1>6. conn[j].out = <<>> BY <1>1, <1>5 DEF LinkOK
<1>7. LinkOK(conn[j], j)'
  <2>1. pub.run \in Nat BY DEF Typed
  <2>2. QED BY <1>1, <1>2, <1>3, <1>5, <2>1 DEF LinkOK
<1>8. WireOK(j)' /\ WholeOK(j)'
  <2>1. Len(<<>>) = 0 /\ \A k \in 1..Len(<<>>) : FALSE OBVIOUS
  <2>2. conn'[j].in = <<>> /\ conn'[j].out = <<>> BY <1>1, <1>2, <1>6
  <2>3. WireOK(j)' BY <2>1, <2>2 DEF WireOK, Numbered, Ordered
  <2>4. WholeOK(j)' BY <1>1, <1>2 DEF WholeOK
  <2>5. QED BY <2>3, <2>4
<1>9. AskedOK(j)'
  <2>1. conn[j] \in Connection BY DEF Typed
  <2>2. \A k \in 1..Len(conn[j].req) : conn[j].req[k] \in Request
    BY <2>1 DEF Connection
  <2>3. \A r \in Request : RequestOK(r) => RequestOK(r)' BY <1>3, QuietFacts
  <2>4. QED BY <1>1, <1>2, <1>5, <2>2, <2>3 DEF AskedOK
<1>10. Links' /\ Wires' /\ Requests' /\ Whole'
  BY <1>3, <1>4, <1>7, <1>8, <1>9, OneTouched DEF Inner
<1>11. GotOK' /\ Seen' /\ Positions'
  <2>1. GotOK' BY <1>3 DEF Inner, GotOK
  <2>2. /\ Missing' \subseteq Missing
        /\ \A s \in Nat : Sound(s) => Sound(s)'
    BY <1>3, QuietFacts
  <2>3. Seen'
    <3>1. InRun(got)' = InRun(got) BY <1>3 DEF InRun
    <3>2. QED BY <2>2, <3>1 DEF Inner, Seen
  <2>4. last \in Nat /\ BagToSet(resuming) \subseteq Nat BY DEF Typed
  <2>5. Positions BY DEF Inner
  <2>6. BagToSet(resuming (+) SetToBag({last})) = BagToSet(resuming) \cup {last}
    BY BagFacts
  <2>7. \A s \in BagToSet(resuming)' : s \in BagToSet(resuming) \/ (watcher /\ s = last)
    BY <1>3, <2>6
  <2>8. Positions' BY <1>3, <2>2, <2>4, <2>5, <2>7 DEF Positions
  <2>9. QED BY <2>1, <2>3, <2>8
<1>12. Answering'
  <2>1. First(j) => First(j)' BY <1>1, <1>2, <1>3, SameFirst
  <2>2. QED BY <1>2, <1>3, <2>1, StillAnswering DEF Inner
<1>13. QED BY <1>10, <1>11, <1>12 DEF Inner

\* Steps that touch no connection.
LEMMA TakeStep ==
    ASSUME Typed, Typed', Inner, Take
    PROVE  Inner'
<1>1. /\ Quiet /\ pub' = pub /\ subs' = subs /\ conn' = conn /\ got' = got
      /\ last' = last /\ watcher' = watcher /\ resuming' = resuming /\ app' = app
      /\ start' = start /\ pumps' = pumps
  BY DEF Take, Quiet, wires
<1>2. \A i \in Conns : Untouched(i) BY <1>1 DEF Untouched
<1>3. Links' /\ Wires' /\ Requests' /\ Whole' BY <1>1, <1>2, NoneTouched DEF Inner
<1>4. GotOK' /\ Seen' /\ Positions' BY <1>1, NothingLearnt DEF Inner
<1>5. Answering' BY <1>1, StillAnswering DEF Inner
<1>6. QED BY <1>3, <1>4, <1>5 DEF Inner

LEMMA GiveUpStep ==
    ASSUME Typed, Typed', Inner, NEW s \in BagToSet(resuming), GiveUp(s)
    PROVE  Inner'
<1>1. /\ Quiet /\ pub' = pub /\ subs' = subs /\ conn' = conn /\ got' = got
      /\ ~watcher' /\ app' = app
      /\ start' = start /\ pumps' = pumps
      /\ BagToSet(resuming)' \subseteq BagToSet(resuming)
  BY BagFacts DEF GiveUp, Quiet, wires
<1>2. \A i \in Conns : Untouched(i) BY <1>1 DEF Untouched
<1>3. Links' /\ Wires' /\ Requests' /\ Whole' BY <1>1, <1>2, NoneTouched DEF Inner
<1>4. GotOK' /\ Seen' /\ Positions' BY <1>1, NothingLearnt DEF Inner
<1>5. Answering' BY <1>1, StillAnswering DEF Inner
<1>6. QED BY <1>3, <1>4, <1>5 DEF Inner

LEMMA SubscribeFailsStep ==
    ASSUME Typed, Typed', Inner, SubscribeFails
    PROVE  Inner'
<1>1. /\ Quiet /\ pub' = pub /\ subs' = subs /\ conn' = conn /\ got' = got
      /\ ~watcher' /\ resuming' = resuming
      /\ start' = start /\ pumps' = pumps
      /\ app' = [app EXCEPT !.stage = "failed"]
  BY DEF SubscribeFails, Quiet, wires
<1>2. \A i \in Conns : Untouched(i) BY <1>1 DEF Untouched
<1>3. Links' /\ Wires' /\ Requests' /\ Whole' BY <1>1, <1>2, NoneTouched DEF Inner
<1>4. GotOK' /\ Seen' /\ Positions' BY <1>1, NothingLearnt DEF Inner
<1>5. Answering'
  <2>1. app'.stage = "failed" BY <1>1 DEF Typed
  <2>2. QED BY <2>1 DEF Answering
<1>6. QED BY <1>3, <1>4, <1>5 DEF Inner

\* The answer is where the subscription started.
LEMMA SubscribedStep ==
    ASSUME Typed, Typed', Inner, Subscribed
    PROVE  Inner'
<1>1. /\ Quiet /\ pub' = pub /\ subs' = subs /\ conn' = conn /\ got' = got
      /\ watcher' = watcher /\ resuming' = resuming
      /\ start' = start /\ pumps' = pumps
      /\ app.stage = "calling" /\ app.answer # {}
      /\ app' = [app EXCEPT !.stage = "subscribed", !.answer = {}]
      /\ last' = Seeded
  BY DEF Subscribed, Quiet, wires
<1>2. \A i \in Conns : Untouched(i) BY <1>1 DEF Untouched
<1>3. Links' /\ Wires' /\ Requests' /\ Whole' BY <1>1, <1>2, NoneTouched DEF Inner
<1>4. /\ Missing' \subseteq Missing /\ Due' \subseteq Due
      /\ \A s \in Nat : Sound(s) => Sound(s)'
  BY <1>1, QuietFacts
<1>5. GotOK' BY <1>1 DEF Inner, GotOK
<1>6. Seen'
  <2>1. InRun(got)' = InRun(got) BY <1>1 DEF InRun
  <2>2. QED BY <1>4, <2>1 DEF Inner, Seen
<1>7. /\ last \in Nat /\ BagToSet(resuming) \subseteq Nat
      /\ app.answer \in Maybe /\ start \subseteq Nat
  BY DEF Typed
<1>8. ASSUME watcher PROVE Sound(Seeded) /\ Seeded \in Nat
  <2>1. Sound(last) BY <1>8 DEF Inner, Positions
  <2>2. CASE app.since # {} BY <1>7, <2>1, <2>2 DEF Seeded
  <2>3. CASE app.since = {}
    <3>1. PICK n \in Nat : app.answer = {n} BY <1>1, <1>7 DEF Maybe
    <3>2. n \in start BY <1>1, <2>3, <3>1 DEF Inner, Answering
    <3>3. Sound(n)
      <4>1. n \in Marks BY <3>2 DEF Marks
      <4>2. \A m \in Due : n < m
        BY <3>2, DueType DEF Owed, Past
      <4>3. QED BY <4>1, <4>2 DEF Sound
    <3>4. Seeded = Max({last, n})
      <4>1. {last} \cup {n} = {last, n} OBVIOUS
      <4>2. QED BY <2>3, <3>1, <4>1 DEF Seeded
    <3>5. Max({last, n}) \in {last, n}
      <4>1. \E x \in {last, n} : \A y \in {last, n} : x >= y BY <1>7
      <4>2. QED BY <4>1 DEF Max
    <3>6. QED BY <1>7, <2>1, <3>3, <3>4, <3>5
  <2>4. QED BY <2>2, <2>3
<1>9. Positions'
  <2>1. Positions BY DEF Inner
  <2>2. QED BY <1>1, <1>4, <1>7, <1>8, <2>1 DEF Positions
<1>10. Answering'
  <2>1. app'.stage = "subscribed" BY <1>1 DEF Typed
  <2>2. QED BY <2>1 DEF Answering
<1>11. QED BY <1>3, <1>5, <1>6, <1>9, <1>10 DEF Inner

\* A successor: no connection is of its run yet.
LEMMA UpStep ==
    ASSUME Typed, Typed', Inner, Up
    PROVE  Inner'
<1>1. /\ ~pub.up /\ pub' = [up |-> TRUE, run |-> pub.run + 1, seq |-> 0]
      /\ UNCHANGED <<subs, conn, client, pumps, resuming, watching, app, start, left>>
  BY DEF Up
<1>2. pub'.run = pub.run + 1 /\ pub'.seq = 0 /\ pub.run \in Nat
      /\ UNCHANGED <<got, refused, start, watcher, last>>
  BY <1>1 DEF Typed, watching
<1>3. /\ Missing' = {} /\ Due' = {}
      /\ \A s \in Nat : Sound(s) => Sound(s)'
      /\ GotOK'
  BY <1>2, UpDue DEF Inner
<1>4. ASSUME NEW j \in Conns
      PROVE  LinkOK(conn[j], j)' /\ WireOK(j)' /\ AskedOK(j)' /\ WholeOK(j)'
  <2>1. /\ LinkOK(conn[j], j) /\ AskedOK(j) /\ conn[j] \in Connection
        /\ conn'[j] = conn[j]
    BY <1>1 DEF Inner, Links, Requests, Typed
  <2>2. conn[j].run \in Nat /\ conn[j].run <= pub.run BY <2>1 DEF LinkOK, Connection
  <2>3. LinkOK(conn[j], j)' BY <1>1, <1>2, <2>1, <2>2 DEF LinkOK
  <2>4. WireOK(j)' BY <1>2, <2>1, <2>2 DEF WireOK
  <2>5. WholeOK(j)' BY <1>3 DEF WholeOK
  <2>6. AskedOK(j)'
    <3>1. \A k \in 1..Len(conn[j].req) : conn[j].req[k] \in Request
      BY <2>1 DEF Connection
    <3>2. \A r \in Request : r.since \subseteq Nat BY DEF Request, Maybe
    <3>3. \A r \in Request : RequestOK(r) => RequestOK(r)'
      BY <1>3, <3>2 DEF RequestOK
    <3>4. QED BY <2>1, <3>1, <3>3 DEF AskedOK
  <2>7. QED BY <2>3, <2>4, <2>5, <2>6
<1>5. Links' /\ Wires' /\ Requests' /\ Whole'
  BY <1>4 DEF Links, Wires, Requests, Whole
<1>6. Seen' BY <1>3 DEF Seen
<1>7. Positions'
  <2>1. last \in Nat /\ BagToSet(resuming) \subseteq Nat /\ Positions
    BY DEF Typed, Inner
  <2>2. QED BY <1>1, <1>2, <1>3, <2>1 DEF Positions
<1>8. Answering' BY <1>1, <1>2, StillAnswering DEF Inner
<1>9. QED BY <1>3, <1>5, <1>6, <1>7, <1>8 DEF Inner

\* Down, every connection has lost its publisher.
LEMMA DownStep ==
    ASSUME Typed, Typed', Bounded, Inner, Down
    PROVE  Inner'
<1>1. /\ pub'.run = pub.run /\ pub'.seq = pub.seq /\ subs' = {}
      /\ UNCHANGED <<client, pumps, resuming, watching, app, start>>
  BY DEF Down, Typed
<1>2. /\ Quiet /\ got' = got /\ last' = last /\ watcher' = watcher
      /\ resuming' = resuming
  BY <1>1 DEF Quiet, watching
<1>3. ASSUME NEW j \in Conns
      PROVE  /\ LinkOK(conn[j], j)' /\ WireOK(j)' /\ AskedOK(j)' /\ WholeOK(j)'
             /\ First(j) => First(j)'
  <2>1. /\ conn'[j] \in Connection /\ conn[j] \in Connection
        /\ ~conn'[j].pub /\ ~conn'[j].served /\ ~conn'[j].joined
        /\ conn'[j].req = <<>>
        /\ conn'[j].sub = conn[j].sub /\ conn'[j].run = conn[j].run
        /\ conn'[j].in = conn[j].in
        /\ conn'[j].out = conn[j].out \/ conn'[j].out = <<>>
    BY DownEffect
  <2>2. LinkOK(conn[j], j) /\ WireOK(j) /\ WholeOK(j)
    BY DEF Inner, Links, Wires, Whole
  <2>3. LinkOK(conn[j], j)' BY <1>1, <2>1, <2>2 DEF LinkOK
  <2>4. AskedOK(j)'
    <3>1. Len(<<>>) = 0 OBVIOUS
    <3>2. QED BY <2>1, <3>1 DEF AskedOK
  <2>5. WholeOK(j)' BY <2>1 DEF WholeOK
  <2>6. j \notin subs' BY <1>1
  <2>7. CASE conn'[j].out = conn[j].out
    <3>1. WireOK(j)' BY <1>2, <2>1, <2>2, <2>6, <2>7, SameWire
    <3>2. First(j) => First(j)' BY <1>2, <2>1, <2>7, SameFirst DEF Quiet
    <3>3. QED BY <2>3, <2>4, <2>5, <3>1, <3>2
  <2>8. CASE conn'[j].out = <<>>
    <3>1. Due \in SUBSET Nat /\ pub.seq \in Nat BY DueType DEF Typed
    <3>2. conn[j].run = pub.run =>
             Numbered(conn'[j], pub.seq) /\ Ordered(conn'[j], Due')
      <4>1. SUFFICES ASSUME conn[j].run = pub.run
                     PROVE  Numbered(conn'[j], pub.seq) /\ Ordered(conn'[j], Due')
        OBVIOUS
      <4>2. Numbered(conn[j], pub.seq) /\ Ordered(conn[j], Due)
        BY <2>2, <4>1 DEF WireOK
      <4>3. Due' \subseteq Due /\ Due' \in SUBSET Nat BY <1>2, QuietFacts
      <4>4. QED BY <2>1, <2>8, <3>1, <4>2, <4>3, Dropped
    <3>3. WireOK(j)' BY <1>1, <2>1, <3>2 DEF WireOK
    <3>4. First(j)'
      <4>1. Len(<<>>) = 0 /\ \A k \in 1..Len(<<>>) : FALSE OBVIOUS
      <4>2. QED BY <2>1, <2>8, <4>1 DEF First, FirstReply
    <3>5. QED BY <2>3, <2>4, <2>5, <3>3, <3>4
  <2>9. QED BY <2>1, <2>7, <2>8
<1>4. Links' /\ Wires' /\ Requests' /\ Whole'
  BY <1>3 DEF Links, Wires, Requests, Whole
<1>5. GotOK' /\ Seen' /\ Positions' BY <1>2, NothingLearnt DEF Inner
<1>6. Answering' BY <1>1, <1>3, StillAnswering DEF Inner
<1>7. QED BY <1>4, <1>5, <1>6 DEF Inner


\* Requests in a row.
LEMMA RequestsAppended ==
    \A s \in Seq(Request), t \in Seq(Request) :
        /\ \A k \in 1..Len(s \o t) : \/ k \in 1..Len(s) /\ (s \o t)[k] = s[k]
                                     \/ \E i \in 1..Len(t) : (s \o t)[k] = t[i]
        /\ s # <<>> => s \o t # <<>> /\ Head(s \o t) = Head(s)
        /\ s = <<>> => s \o t = t
<1> SUFFICES ASSUME NEW s \in Seq(Request), NEW t \in Seq(Request)
             PROVE  /\ \A k \in 1..Len(s \o t) :
                          \/ k \in 1..Len(s) /\ (s \o t)[k] = s[k]
                          \/ \E i \in 1..Len(t) : (s \o t)[k] = t[i]
                    /\ s # <<>> => s \o t # <<>> /\ Head(s \o t) = Head(s)
                    /\ s = <<>> => s \o t = t
  OBVIOUS
<1>1. /\ Len(s \o t) = Len(s) + Len(t) /\ Len(s) \in Nat /\ Len(t) \in Nat
      /\ \A i \in 1..Len(s) : (s \o t)[i] = s[i]
      /\ \A i \in 1..Len(t) : (s \o t)[Len(s) + i] = t[i]
      /\ s \o t \in Seq(Request)
  OBVIOUS
<1>2. ASSUME NEW k \in 1..Len(s \o t)
      PROVE  \/ k \in 1..Len(s) /\ (s \o t)[k] = s[k]
             \/ \E i \in 1..Len(t) : (s \o t)[k] = t[i]
  <2>1. CASE k \in 1..Len(s) BY <1>1, <2>1
  <2>2. CASE k \notin 1..Len(s)
    <3>1. k - Len(s) \in 1..Len(t) /\ k = Len(s) + (k - Len(s)) BY <1>1, <2>2
    <3>2. (s \o t)[k] = t[k - Len(s)] BY <1>1, <3>1
    <3>3. QED BY <3>1, <3>2
  <2>3. QED BY <2>1, <2>2
<1>3. ASSUME s # <<>> PROVE s \o t # <<>> /\ Head(s \o t) = Head(s)
  <2>1. Len(s) \in Nat \ {0} /\ Head(s) = s[1] BY <1>3, HeadAndTail
  <2>2. (s \o t)[1] = s[1] /\ Len(s \o t) \in Nat \ {0} BY <1>1, <2>1
  <2>3. s \o t # <<>>
    <3>1. Len(<<>>) = 0 OBVIOUS
    <3>2. QED BY <2>2, <3>1
  <2>4. QED BY <1>1, <2>1, <2>2, <2>3, HeadAndTail
<1>4. s = <<>> => s \o t = t OBVIOUS
<1>5. QED BY <1>2, <1>3, <1>4

\* A request on the connection that is reached.
LEMMA AskedStep ==
    ASSUME Typed, Typed', Quiet, pub' = pub, subs' = subs,
           Links, Wires, Requests, Whole,
           NEW k \in Conns, NEW reqs \in Seq(Request),
           Reached(k), Asked(k, reqs), pumps' = pumps \cup {k},
           \A i \in 1..Len(reqs) : RequestOK(reqs[i])'
    PROVE  /\ Links' /\ Wires' /\ Requests' /\ Whole'
           /\ \A i \in Conns : i # k => conn'[i] = conn[i]
           /\ ~Free(k) => (First(k) => First(k)')
<1>1. PICK d \in Connection :
              /\ conn' = [conn EXCEPT ![k] = d]
              /\ Free(k) => /\ pub.up
                            /\ d.pub /\ d.sub /\ d.served /\ ~d.joined
                            /\ d.run = pub.run
                            /\ d.out = <<>> /\ d.in = <<>>
                            /\ d.req = reqs
              /\ ~Free(k) => /\ d.pub = conn[k].pub /\ d.sub = conn[k].sub
                             /\ d.served = conn[k].served
                             /\ d.run = conn[k].run
                             /\ d.joined = conn[k].joined
                             /\ d.seq = conn[k].seq
                             /\ d.out = conn[k].out /\ d.in = conn[k].in
                             /\ d.req = IF conn[k].served
                                        THEN conn[k].req \o reqs ELSE conn[k].req
  BY AskedFacts
<1>2. conn'[k] = d /\ \A i \in Conns : i # k => conn'[i] = conn[i]
  BY <1>1, Altered DEF Alters
<1>3. /\ LinkOK(conn[k], k) /\ WireOK(k) /\ WholeOK(k) /\ AskedOK(k)
      /\ conn[k] \in Connection /\ conn[k].req \in Seq(Request)
  BY DEF Links, Wires, Whole, Requests, Typed, Connection
<1>4. \A i \in Conns : i # k => Untouched(i) BY <1>2 DEF Untouched
<1>5. ~Free(k) => conn[k].sub BY DEF Reached
<1>6. conn[k].req # <<>> /\ ~Free(k) => d.req # <<>> /\ Head(d.req) = Head(conn[k].req)
  BY <1>1, <1>3, RequestsAppended
<1>7. LinkOK(conn[k], k)'
  <2>1. CASE Free(k)
    <3>1. k \notin subs BY <1>3, <2>1 DEF LinkOK, Free
    <3>2. pub.run \in Nat BY DEF Typed
    <3>3. QED BY <1>1, <1>2, <2>1, <3>1, <3>2 DEF LinkOK
  <2>2. CASE ~Free(k)
    BY <1>1, <1>2, <1>3, <1>5, <1>6, <2>2 DEF LinkOK
  <2>3. QED BY <2>1, <2>2
<1>8. WireOK(k)' /\ WholeOK(k)'
  <2>1. CASE Free(k)
    <3>1. k \notin subs BY <1>3, <2>1 DEF LinkOK, Free
    <3>2. Len(<<>>) = 0 /\ \A i \in 1..Len(<<>>) : FALSE OBVIOUS
    <3>3. conn'[k].in = <<>> /\ conn'[k].out = <<>> BY <1>1, <1>2, <2>1
    <3>4. WireOK(k)' BY <3>2, <3>3 DEF WireOK, Numbered, Ordered
    <3>5. WholeOK(k)' BY <3>1 DEF WholeOK
    <3>6. QED BY <3>4, <3>5
  <2>2. CASE ~Free(k)
    BY <1>1, <1>2, <1>3, <2>2, SameWire
  <2>3. QED BY <2>1, <2>2
<1>9. AskedOK(k)'
  <2>1. \A r \in Request : RequestOK(r) => RequestOK(r)' BY QuietFacts
  <2>2. PICK q \in Seq(Request) : q = conn[k].req BY <1>3
  <2>3. PICK p \in Seq(Request) : p = d.req
    <3>1. d \in Connection BY <1>2 DEF Typed
    <3>2. QED BY <3>1 DEF Connection
  <2>4. \A i \in 1..Len(q) : RequestOK(q[i])'
    <3>1. \A i \in 1..Len(q) : q[i] \in Request OBVIOUS
    <3>2. \A i \in 1..Len(q) : RequestOK(q[i]) BY <1>3, <2>2 DEF AskedOK
    <3>3. QED BY <2>1, <3>1, <3>2
  <2>5. p = reqs \/ p = q \/ p = q \o reqs BY <1>1, <2>2, <2>3
  <2>6. \A i \in 1..Len(p) : RequestOK(p[i])'
    <3>1. CASE p = reqs BY <3>1
    <3>2. CASE p = q BY <2>4, <3>2
    <3>3. CASE p = q \o reqs
      <4>1. \A i \in 1..Len(p) : \/ i \in 1..Len(q) /\ p[i] = q[i]
                                 \/ \E m \in 1..Len(reqs) : p[i] = reqs[m]
        BY <3>3, RequestsAppended
      <4>2. QED BY <2>4, <4>1
    <3>4. QED BY <2>5, <3>1, <3>2, <3>3
  <2>7. QED BY <1>2, <2>3, <2>6 DEF AskedOK
<1>10. /\ Links' /\ Wires' /\ Requests' /\ Whole'
  BY <1>4, <1>7, <1>8, <1>9, OneTouched
<1>11. ~Free(k) => (First(k) => First(k)')
  BY <1>1, <1>2, <1>6, SameFirst DEF Quiet
<1>12. QED BY <1>2, <1>10, <1>11


\* A request leaves, and the answer subscribe waits for stays the first.
LEMMA StillAsked ==
    ASSUME Typed, Typed', Inner, Quiet, app'.stage # "calling" \/ app' = app,
           NEW k \in Conns,
           \A i \in Conns : i # k => conn'[i] = conn[i],
           ~Free(k) => (First(k) => First(k)')
    PROVE  Answering'
<1>1. CASE app'.stage # "calling" BY <1>1 DEF Answering
<1>2. CASE app' = app
  <2>1. Free(k) => ~ (app.stage = "calling" /\ app.conn = k) BY DEF Free
  <2>2. \A i \in Conns : \/ conn'[i] = conn[i]
                         \/ First(i) => First(i)'
                         \/ ~ (app.stage = "calling" /\ app.conn = i
                                                    /\ app.answer = {})
    BY <2>1
  <2>3. QED BY <1>2, <2>2, StillAnswering DEF Inner, Quiet
<1>3. QED BY <1>1, <1>2

LEMMA UseStep ==
    ASSUME Typed, Typed', Inner, NEW k \in Conns, Use(k)
    PROVE  Inner'
<1>1. /\ Reached(k) /\ Asked(k, <<>>) /\ pumps' = pumps \cup {k}
      /\ Quiet /\ pub' = pub /\ subs' = subs /\ got' = got /\ last' = last
      /\ resuming' = resuming /\ app' = app
  BY DEF Use, Opened, Quiet, watching
<1>2. <<>> \in Seq(Request) /\ \A i \in 1..Len(<<>>) : RequestOK(<<>>[i])'
  <2>1. Len(<<>>) = 0 OBVIOUS
  <2>2. QED BY <2>1, RequestsType
<1>3. /\ Links' /\ Wires' /\ Requests' /\ Whole'
      /\ \A i \in Conns : i # k => conn'[i] = conn[i]
      /\ ~Free(k) => (First(k) => First(k)')
  BY <1>1, <1>2, AskedStep DEF Inner
<1>4. GotOK' /\ Seen' /\ Positions' BY <1>1, NothingLearnt DEF Inner
<1>5. Answering' BY <1>1, <1>3, StillAsked
<1>6. QED BY <1>3, <1>4, <1>5 DEF Inner

LEMMA ResumeStep ==
    ASSUME Typed, Typed', Inner, NEW s \in BagToSet(resuming), NEW k \in Conns,
           Resume(s, k)
    PROVE  Inner'
<1> DEFINE r == [op |-> "subscribe", since |-> {s}, first |-> FALSE]
           reqs == <<r>>
<1>1. /\ Reached(k) /\ Asked(k, reqs) /\ pumps' = pumps \cup {k}
      /\ Quiet /\ pub' = pub /\ subs' = subs /\ got' = got /\ last' = last
      /\ BagToSet(resuming)' \subseteq BagToSet(resuming) /\ app' = app
  BY BagFacts DEF Resume, Opened, Quiet, watching
<1>2. s \in Nat /\ reqs \in Seq(Request)
  BY RequestsType DEF Typed
<1>3. RequestOK(r)'
  <2>1. Sound(s) BY DEF Inner, Positions
  <2>2. Sound(s)' BY <1>1, <1>2, <2>1, QuietFacts
  <2>3. r.since = {s} OBVIOUS
  <2>4. QED BY <2>2, <2>3 DEF RequestOK
<1> HIDE DEF reqs, r
<1>4. \A i \in 1..Len(reqs) : reqs[i] = r BY DEF reqs
<1>5. \A i \in 1..Len(reqs) : RequestOK(reqs[i])' BY <1>3, <1>4
<1>6. /\ Links' /\ Wires' /\ Requests' /\ Whole'
      /\ \A i \in Conns : i # k => conn'[i] = conn[i]
      /\ ~Free(k) => (First(k) => First(k)')
  BY <1>1, <1>2, <1>5, AskedStep DEF Inner
<1>7. GotOK' /\ Seen' /\ Positions' BY <1>1, NothingLearnt DEF Inner, Quiet
<1>8. Answering' BY <1>1, <1>6, StillAsked
<1>9. QED BY <1>6, <1>7, <1>8 DEF Inner

LEMMA UnsubscribeStep ==
    ASSUME Typed, Typed', Inner, NEW k \in Conns, Unsubscribe(k)
    PROVE  Inner'
<1> DEFINE r == [op |-> "unsubscribe", since |-> {}, first |-> FALSE]
           reqs == <<r>>
<1>1. /\ Reached(k) /\ Asked(k, reqs) /\ pumps' = pumps \cup {k}
      /\ Quiet /\ pub' = pub /\ subs' = subs /\ got' = got /\ ~watcher'
      /\ resuming' = resuming
      /\ app' = [app EXCEPT !.stage = "unsubscribed"]
  BY DEF Unsubscribe, Opened, Quiet
<1>2. reqs \in Seq(Request) BY RequestsType
<1>3. RequestOK(r)' BY DEF RequestOK
<1> HIDE DEF reqs, r
<1>4. \A i \in 1..Len(reqs) : reqs[i] = r BY DEF reqs
<1>5. \A i \in 1..Len(reqs) : RequestOK(reqs[i])' BY <1>3, <1>4
<1>6. /\ Links' /\ Wires' /\ Requests' /\ Whole'
      /\ \A i \in Conns : i # k => conn'[i] = conn[i]
      /\ ~Free(k) => (First(k) => First(k)')
  BY <1>1, <1>2, <1>5, AskedStep DEF Inner
<1>7. GotOK' /\ Seen' /\ Positions' BY <1>1, NothingLearnt DEF Inner
<1>8. Answering'
  <2>1. app'.stage = "unsubscribed" BY <1>1 DEF Typed
  <2>2. QED BY <2>1 DEF Answering
<1>9. QED BY <1>6, <1>7, <1>8 DEF Inner

\* The first request: nothing of the channel is anywhere yet.
LEMMA SubscribeStep ==
    ASSUME Typed, Typed', Inner, Idle, NEW k \in Conns, Subscribe(k)
    PROVE  Inner'
<1>1. PICK s \in Sinces :
         /\ Asked(k, <<[op |-> "subscribe", since |-> s, first |-> TRUE]>>)
         /\ last' = IF s = {} THEN 0 ELSE Min(s)
         /\ app' = [stage |-> "calling", conn |-> k, since |-> s,
                    answer |-> {}]
         /\ start' = s
  BY DEF Subscribe
<1> DEFINE r == [op |-> "subscribe", since |-> s, first |-> TRUE]
           reqs == <<r>>
<1>2. /\ Reached(k) /\ watcher' /\ pumps' = pumps \cup {k}
      /\ UNCHANGED <<pub, subs, resuming, queued, got, refused>>
  BY DEF Subscribe, Opened
<1>3. s \in Maybe /\ reqs \in Seq(Request) /\ Asked(k, reqs)
  BY <1>1, RequestsType
<1>8. r.op = "subscribe" /\ r.since = s /\ r.first OBVIOUS
<1> HIDE DEF reqs, r
<1>7. reqs # <<>> /\ Head(reqs) = r /\ \A i \in 1..Len(reqs) : reqs[i] = r
  BY DEF reqs
<1>4. /\ subs = {} /\ BagToSet(resuming) = {} /\ got = {} /\ refused = {}
      /\ \A j \in Conns : /\ conn[j].out = <<>> /\ conn[j].in = <<>>
                          /\ conn[j].req = <<>> /\ ~conn[j].joined
  BY DEF Subscribe, Idle
<1>5. PICK d \in Connection :
              /\ conn' = [conn EXCEPT ![k] = d]
              /\ Free(k) => /\ pub.up
                            /\ d.pub /\ d.sub /\ d.served /\ ~d.joined
                            /\ d.run = pub.run
                            /\ d.out = <<>> /\ d.in = <<>>
                            /\ d.req = reqs
              /\ ~Free(k) => /\ d.pub = conn[k].pub /\ d.sub = conn[k].sub
                             /\ d.served = conn[k].served
                             /\ d.run = conn[k].run
                             /\ d.joined = conn[k].joined
                             /\ d.seq = conn[k].seq
                             /\ d.out = conn[k].out /\ d.in = conn[k].in
                             /\ d.req = IF conn[k].served
                                        THEN conn[k].req \o reqs ELSE conn[k].req
  BY <1>1, <1>2, <1>3, AskedFacts
<1>6. conn'[k] = d /\ \A i \in Conns : i # k => conn'[i] = conn[i]
  BY <1>5, Altered DEF Alters
<1>9. /\ d.out = <<>> /\ d.in = <<>> /\ ~d.joined
      /\ d.req = reqs \/ d.req = <<>>
      /\ d.served => d.req = reqs
  <2>1. conn[k].req = <<>> /\ <<>> \in Seq(Request) BY <1>4, RequestsType
  <2>2. conn[k].req \o reqs = reqs BY <1>3, <2>1, RequestsAppended
  <2>3. QED BY <1>4, <1>5, <2>2
<1>10. LinkOK(conn[k], k) BY DEF Inner, Links
<1>11. \A n \in Nat : n \in start' \/ n = 0 => Sound(n)'
  <2>1. \A m \in Due' : Owed(m)' /\ m > 0
    BY DEF Due, Missing, History
  <2>2. QED BY <2>1 DEF Sound, Marks, Owed, Past
<1>12. RequestOK(r)'
  <2>1. s \subseteq Nat BY <1>3 DEF Maybe
  <2>2. \A x \in s : Sound(x)' BY <1>1, <1>11, <2>1
  <2>3. QED BY <1>8, <2>2 DEF RequestOK
<1>13. Links'
  <2>1. ASSUME NEW i \in Conns PROVE LinkOK(conn[i], i)'
    <3>1. CASE i = k
      <4>1. ~Free(k) => conn[k].sub BY <1>2 DEF Reached
      <4>2. pub.run \in Nat BY DEF Typed
      <4>3. QED
        BY <1>2, <1>4, <1>5, <1>6, <1>9, <1>10, <3>1, <4>1, <4>2 DEF LinkOK
    <3>2. CASE i # k
      <4>1. LinkOK(conn[i], i) /\ conn'[i] = conn[i] BY <1>6, <3>2 DEF Inner, Links
      <4>2. i \in pumps' <=> i \in pumps BY <1>2, <3>2
      <4>3. QED BY <1>2, <4>1, <4>2 DEF LinkOK
    <3>3. QED BY <3>1, <3>2
  <2>2. QED BY <2>1 DEF Links
<1>14. Wires'
  <2>1. Len(<<>>) = 0 /\ \A i \in 1..Len(<<>>) : FALSE OBVIOUS
  <2>2. \A i \in Conns : conn'[i].in = <<>> /\ conn'[i].out = <<>>
    BY <1>4, <1>6, <1>9
  <2>3. QED BY <2>1, <2>2 DEF Wires, WireOK, Numbered, Ordered
<1>15. Requests'
  <2>1. Len(<<>>) = 0 OBVIOUS
  <2>2. AskedOK(k)'
    <3>1. CASE d.req = <<>> BY <1>6, <2>1, <3>1 DEF AskedOK
    <3>2. CASE d.req = reqs BY <1>6, <1>7, <1>12, <3>2 DEF AskedOK
    <3>3. QED BY <1>9, <3>1, <3>2
  <2>3. \A i \in Conns : i # k => AskedOK(i)' BY <1>4, <1>6, <2>1 DEF AskedOK
  <2>4. QED BY <2>2, <2>3 DEF Requests
<1>16. Whole' BY <1>2, <1>4 DEF Whole, WholeOK
<1>17. GotOK' BY <1>2, <1>4 DEF GotOK
<1>18. Seen' BY <1>2, <1>4 DEF Seen, InRun
<1>19. Positions'
  <2>1. Sound(last)'
    <3>1. CASE s = {}
      <4>1. last' = 0 BY <1>1, <3>1
      <4>2. Sound(0)' BY <1>11
      <4>3. QED BY <4>1, <4>2
    <3>2. CASE s # {}
      <4>1. PICK n \in Nat : s = {n} BY <1>3, <3>2 DEF Maybe
      <4>2. Min({n}) = n BY DEF Min
      <4>3. last' = n BY <1>1, <3>2, <4>1, <4>2
      <4>4. Sound(n)' BY <1>1, <1>11, <4>1
      <4>5. QED BY <4>3, <4>4
    <3>3. QED BY <3>1, <3>2
  <2>2. QED BY <1>2, <1>4, <2>1 DEF Positions
<1>20. Answering'
  <2>1. ASSUME s = {} PROVE FirstReply(d, start')
    <3>1. Len(<<>>) = 0 /\ \A i \in 1..Len(<<>>) : FALSE OBVIOUS
    <3>2. ASSUME d.pub, d.sub PROVE d.req = reqs
      BY <1>5, <1>9, <1>10, <3>2 DEF LinkOK
    <3>3. QED BY <1>7, <1>8, <1>9, <2>1, <3>1, <3>2 DEF FirstReply
  <2>2. app'.conn = k /\ app'.since = s /\ app'.answer = {} BY <1>1
  <2>3. QED BY <1>6, <2>1, <2>2 DEF Answering, First
<1>21. QED BY <1>13, <1>14, <1>15, <1>16, <1>17, <1>18, <1>19, <1>20 DEF Inner


\* The reader.
LEMMA ReadStep ==
    ASSUME Typed, Typed', Bounded, Inner, NEW j \in Conns, Read(j)
    PROVE  Inner'
<1> DEFINE c == conn[j]
<1>1. PICK d :
              /\ Alters(j, d)
              /\ c \in Connection /\ c.sub /\ c.out # <<>>
              /\ Same(c, d) /\ d.out = Tail(c.out)
              /\ \/ /\ c.out[1].kind = "channel"
                    /\ d.in = Append(c.in, c.out[1].n)
                    /\ app' = app
                 \/ /\ c.out[1].kind = "reply"
                    /\ d.in = c.in
                    /\ app' = IF app.stage = "calling" /\ app.conn = j /\ app.answer = {}
                              THEN [app EXCEPT !.answer = {c.out[1].n}] ELSE app
  BY ReadEffect
<1>2. /\ conn'[j] = d /\ d \in Connection
      /\ \A i \in Conns : i # j => conn'[i] = conn[i]
  BY <1>1, Altered DEF Alters
<1>3. /\ Quiet /\ pub' = pub /\ subs' = subs /\ got' = got /\ last' = last
      /\ watcher' = watcher /\ resuming' = resuming
      /\ start' = start /\ pumps' = pumps
  BY DEF Read, Quiet, watching
<1>4. \A i \in Conns : i # j => Untouched(i) BY <1>2, <1>3 DEF Untouched
<1>5. LinkOK(c, j) /\ WireOK(j) /\ WholeOK(j) /\ AskedOK(j)
  BY DEF Inner, Links, Wires, Whole, Requests
<1>6. Due \in SUBSET Nat /\ pub.seq \in Nat BY DueType DEF Typed
<1>7. /\ conn[j].run = pub.run => Numbered(d, pub.seq) /\ Ordered(d, Due)
      /\ conn[j].run = pub.run => \A n \in Due : Carries(c, n) => Carries(d, n)
  <2> SUFFICES ASSUME conn[j].run = pub.run
               PROVE  /\ Numbered(d, pub.seq) /\ Ordered(d, Due)
                      /\ \A n \in Due : Carries(c, n) => Carries(d, n)
    OBVIOUS
  <2>1. Numbered(c, pub.seq) /\ Ordered(c, Due) BY <1>5 DEF WireOK
  <2> HIDE DEF c
  <2>2. CASE c.out[1].kind = "channel"
    <3>1. d.in = Append(c.in, c.out[1].n) BY <1>1, <2>2
    <3>2. QED BY <1>1, <1>2, <1>6, <2>1, <2>2, <3>1, EnvelopeRead, ZenonT(60)
  <2>3. CASE c.out[1].kind = "reply"
    <3>1. d.in = c.in BY <1>1, <2>3
    <3>2. QED BY <1>1, <1>2, <1>6, <2>1, <2>3, <3>1, ReplyRead, ZenonT(60)
  <2>4. QED BY <1>1, <2>2, <2>3
<1>8. LinkOK(conn[j], j)'
  <2>1. j \in pumps BY <1>1, <1>5 DEF LinkOK
  <2>2. QED BY <1>1, <1>2, <1>3, <1>5, <2>1 DEF LinkOK, Same
<1>9. WireOK(j)' BY <1>1, <1>2, <1>3, <1>7, QuietFacts DEF WireOK, Same, Ordered
<1>10. WholeOK(j)'
  <2>1. SUFFICES ASSUME j \in subs, d.pub, d.sub
                 PROVE  \A n \in Due' : Carries(d, n)
    BY <1>2, <1>3 DEF WholeOK
  <2>2. c.pub /\ c.run = pub.run
    BY <1>1, <1>5, <2>1 DEF Same, LinkOK
  <2>3. \A n \in Due : Carries(c, n) BY <1>1, <1>5, <2>1, <2>2 DEF WholeOK
  <2>4. Due' \subseteq Due BY <1>3, QuietFacts
  <2>5. QED BY <1>7, <2>2, <2>3, <2>4
<1>11. AskedOK(j)'
  <2>1. \A k \in 1..Len(conn[j].req) : conn[j].req[k] \in Request
    BY <1>1 DEF Connection
  <2>2. \A r \in Request : RequestOK(r) => RequestOK(r)' BY <1>3, QuietFacts
  <2>3. QED BY <1>1, <1>2, <1>5, <2>1, <2>2 DEF AskedOK, Same
<1>12. Links' /\ Wires' /\ Requests' /\ Whole'
  BY <1>3, <1>4, <1>8, <1>9, <1>10, <1>11, OneTouched DEF Inner
<1>13. GotOK' /\ Seen' /\ Positions' BY <1>3, NothingLearnt DEF Inner
<1>14. Answering'
  <2>1. CASE c.out[1].kind = "channel"
    <3>1. app' = app BY <1>1, <2>1
    <3>2. First(j) => First(j)'
      <4>1. ASSUME FirstReply(c, start) PROVE FirstReply(d, start)
        <5> HIDE DEF c
        <5>1. QED BY <1>1, <1>2, <2>1, <4>1, FirstStands DEF Same
      <4>2. QED BY <1>2, <1>3, <4>1 DEF First
    <3>3. QED BY <1>2, <1>3, <3>1, <3>2, StillAnswering DEF Inner
  <2>2. CASE c.out[1].kind = "reply" /\ app.stage = "calling" /\ app.conn = j
                                     /\ app.answer = {}
    <3>1. PICK n : n = c.out[1].n OBVIOUS
    <3>2. app' = [app EXCEPT !.answer = {n}] BY <1>1, <2>2, <3>1
    <3>3. app'.stage = "calling" /\ app'.conn = j /\ app'.since = app.since
          /\ app'.answer = {n}
      BY <2>2, <3>2 DEF Typed
    <3>4. ASSUME app.since = {} PROVE n \in start
      <4>1. FirstReply(c, start) BY <2>2, <3>4 DEF Inner, Answering, First
      <4>2. NoReply(c, 1 - 1) BY DEF NoReply
      <4>3. 1 \in 1..Len(c.out) BY <1>1, HeadAndTail, WireType
      <4>4. QED BY <2>2, <3>1, <4>1, <4>2, <4>3 DEF FirstReply
    <3>5. QED BY <1>3, <3>3, <3>4 DEF Answering
  <2>3. CASE c.out[1].kind = "reply" /\ ~ (app.stage = "calling" /\ app.conn = j
                                           /\ app.answer = {})
    <3>1. app' = app BY <1>1, <2>3
    <3>2. \A i \in Conns : \/ conn'[i] = conn[i]
                           \/ ~ (app.stage = "calling" /\ app.conn = i
                                                      /\ app.answer = {})
      BY <1>2, <2>3
    <3>3. QED BY <1>3, <3>1, <3>2, StillAnswering DEF Inner
  <2>4. QED BY <1>1, <2>1, <2>2, <2>3
<1>15. QED BY <1>12, <1>13, <1>14 DEF Inner

\* A request less.
LEMMA TailOK ==
    ASSUME Typed, Typed', NEW j \in Conns, AskedOK(j), conn[j].req # <<>>,
           \A r \in Request : RequestOK(r) => RequestOK(r)',
           conn'[j].req = Tail(conn[j].req)
    PROVE  AskedOK(j)'
<1>1. PICK q \in Seq(Request) : q = conn[j].req BY DEF Typed, Connection
<1>2. PICK l \in Nat : Len(q) = l + 1 BY <1>1, NotEmpty
<1>3. /\ Len(Tail(q)) = l
      /\ \A k \in 1..l : Tail(q)[k] = q[k + 1]
  <2>1. /\ Len(Tail(q)) = Len(q) - 1
        /\ \A i \in 1..(Len(q) - 1) : Tail(q)[i] = q[i + 1]
    BY <1>1, HeadAndTail
  <2>2. QED BY <1>2, <2>1
<1>4. \A k \in 1..(l + 1) : q[k] \in Request /\ RequestOK(q[k])
  BY <1>1, <1>2 DEF AskedOK
<1>5. \A k \in 1..l : k + 1 \in 1..(l + 1) OBVIOUS
<1>6. \A k \in 1..l : RequestOK(q[k + 1])' BY <1>4, <1>5
<1>7. conn'[j].req = Tail(q) BY <1>1
<1>8. QED BY <1>3, <1>6, <1>7 DEF AskedOK

\* unsubscribe is answered.
LEMMA LeftStep ==
    ASSUME Typed, Typed', Inner, NEW j \in Conns, Left(j)
    PROVE  Inner'
<1> DEFINE c == conn[j]
           e == Pushed(c, Reply(0))
           d == [e EXCEPT !.req = Tail(@)]
<1>1. /\ Alters(j, d)
      /\ e \in Connection /\ c \in Connection
      /\ d.pub = e.pub /\ d.sub = e.sub /\ d.served = e.served /\ d.run = e.run
      /\ d.out = e.out /\ d.in = e.in /\ d.joined = e.joined /\ d.seq = e.seq
      /\ d.req = Tail(c.req) /\ c.req # <<>> /\ Head(c.req).op = "unsubscribe"
  BY LeftEffect
<1>2. Reply(0) \in Frame BY FramesType
<1>3. /\ e.sub = c.sub /\ e.served = c.served /\ e.run = c.run /\ e.in = c.in
      /\ e.joined = c.joined /\ e.seq = c.seq
      /\ e.pub => c.pub
      /\ \/ e.out = c.out
         \/ c.pub /\ c.sub /\ e.out = Append(c.out, Reply(0))
      /\ e.pub /\ c.sub => e.out = Append(c.out, Reply(0))
  BY <1>1, <1>2, PushedFields
<1>4. /\ conn'[j] = d /\ d \in Connection
      /\ \A i \in Conns : i # j => conn'[i] = conn[i]
  BY <1>1, Altered DEF Alters
<1>5. /\ Quiet /\ pub' = pub /\ subs' = subs /\ got' = got /\ last' = last
      /\ watcher' = watcher /\ resuming' = resuming /\ app' = app
      /\ start' = start /\ pumps' = pumps /\ j \notin subs
  BY DEF Left, Quiet, watching
<1> HIDE DEF d, e
<1>6. \A i \in Conns : i # j => Untouched(i) BY <1>4, <1>5 DEF Untouched
<1>7. LinkOK(c, j) /\ WireOK(j) /\ WholeOK(j) /\ AskedOK(j)
  BY DEF Inner, Links, Wires, Whole, Requests
<1>8. Due \in SUBSET Nat /\ pub.seq \in Nat BY DueType DEF Typed
<1>9. LinkOK(conn[j], j)'
  <2>1. ~c.joined BY <1>1, <1>7 DEF LinkOK
  <2>2. QED BY <1>1, <1>3, <1>4, <1>5, <1>7, <2>1 DEF LinkOK
<1>10. WireOK(j)' /\ WholeOK(j)'
  <2>1. conn[j].run = pub.run => Numbered(d, pub.seq) /\ Ordered(d, Due)
    <3>1. SUFFICES ASSUME c.run = pub.run
                   PROVE  Numbered(d, pub.seq) /\ Ordered(d, Due)
      OBVIOUS
    <3>2. Numbered(c, pub.seq) /\ Ordered(c, Due) BY <1>7, <3>1 DEF WireOK
    <3> HIDE DEF c
    <3>3. CASE d.out = c.out
      <4>1. d.in = c.in BY <1>1, <1>3
      <4>2. QED BY <3>2, <3>3, <4>1 DEF Numbered, Ordered, Carried, Pushes
    <3>4. CASE d.out = Append(c.out, Reply(0))
      <4>1. d.in = c.in /\ 0 \in Nat BY <1>1, <1>3
      <4>2. QED BY <1>1, <1>4, <1>8, <3>2, <3>4, <4>1, ReplyPushed, ZenonT(60)
    <3>5. QED BY <1>1, <1>3, <3>3, <3>4
  <2>2. WireOK(j)'
    BY <1>1, <1>3, <1>4, <1>5, <2>1, QuietFacts DEF WireOK, Ordered
  <2>3. WholeOK(j)' BY <1>5 DEF WholeOK
  <2>4. QED BY <2>2, <2>3
<1>11. AskedOK(j)'
  <2>1. \A r \in Request : RequestOK(r) => RequestOK(r)' BY <1>5, QuietFacts
  <2>2. QED BY <1>1, <1>4, <1>7, <2>1, TailOK
<1>12. Links' /\ Wires' /\ Requests' /\ Whole'
  BY <1>5, <1>6, <1>9, <1>10, <1>11, OneTouched DEF Inner
<1>13. GotOK' /\ Seen' /\ Positions' BY <1>5, NothingLearnt DEF Inner
<1>14. Answering'
  <2>1. First(j) => First(j)'
    <3>1. ASSUME FirstReply(c, start) PROVE FirstReply(d, start)
      <4>1. \/ d.out = Append(c.out, Reply(0))
            \/ d.out = c.out /\ ~ (d.pub /\ d.sub)
        BY <1>1, <1>3
      <4>2. NoReply(c, Len(c.out)) => d.out = c.out
        BY <1>1, <1>3, <3>1 DEF FirstReply
      <4> HIDE DEF c
      <4>3. 0 \in Nat OBVIOUS
      <4>4. QED BY <1>1, <1>4, <3>1, <4>1, <4>2, <4>3, FirstAnswered
    <3>2. QED BY <1>4, <1>5, <3>1 DEF First
  <2>2. QED BY <1>4, <1>5, <2>1, StillAnswering DEF Inner
<1>15. QED BY <1>12, <1>13, <1>14 DEF Inner


\* The pump: what it hands over, or its queue refuses, is due no longer.
LEMMA PumpStep ==
    ASSUME Typed, Typed', Bounded, Inner, NEW j \in Conns, Pump(j)
    PROVE  Inner'
<1> DEFINE c == conn[j]
<1>1. PICK d :
              /\ Alters(j, d)
              /\ c \in Connection /\ j \in pumps /\ c.in # <<>>
              /\ d.pub = c.pub /\ d.served = c.served /\ d.run = c.run
              /\ d.joined = c.joined /\ d.seq = c.seq /\ d.req = c.req
              /\ d.in = Tail(c.in)
              /\ \/ d.sub = c.sub /\ d.out = c.out
                 \/ watcher /\ ~d.sub /\ d.out = <<>>
  BY PumpEffect
<1>2. /\ conn'[j] = d /\ d \in Connection
      /\ \A i \in Conns : i # j => conn'[i] = conn[i]
  BY <1>1, Altered DEF Alters
<1>3. PICK h \in Nat, r \in Nat : h = Head(c.in) /\ h = c.in[1] /\ r = c.run
  <2>1. c.in \in Seq(Nat) /\ c.run \in Nat BY <1>1 DEF Connection
  <2>2. Head(c.in) \in Nat /\ Head(c.in) = c.in[1] BY <1>1, <2>1, HeadAndTail
  <2>3. QED BY <2>1, <2>2
<1>4. /\ pub' = pub /\ subs' = subs /\ watcher' = watcher /\ resuming' = resuming
      /\ app' = app /\ start' = start /\ pumps' = pumps
      /\ \/ /\ watcher /\ got' = got \cup {<<r, h>>} /\ refused' = refused
            /\ last' = Max({last, h})
         \/ /\ watcher /\ got' = got /\ refused' = refused \cup {<<r, h>>}
            /\ last' = last
         \/ ~watcher /\ got' = got /\ refused' = refused /\ last' = last
  <2>1. CASE watcher /\ queued < QueueCap BY <1>3, <2>1 DEF Pump
  <2>2. CASE ~ (watcher /\ queued < QueueCap) BY <1>3, <2>2 DEF Pump
  <2>3. QED BY <2>1, <2>2
<1>5. Quiet BY <1>4 DEF Quiet
<1>6. /\ LinkOK(c, j) /\ WireOK(j) /\ WholeOK(j) /\ AskedOK(j)
      /\ GotOK /\ Seen /\ Positions
  BY DEF Inner, Links, Wires, Whole, Requests
<1>7. /\ Missing' \subseteq Missing /\ Due' \subseteq Due
      /\ Due \in SUBSET Nat /\ Due' \in SUBSET Nat /\ pub.seq \in Nat
      /\ \A s \in Nat : Sound(s) => Sound(s)'
      /\ \A q \in Request : RequestOK(q) => RequestOK(q)'
  BY <1>5, QuietFacts
<1>8. pub.run \in Nat /\ last \in Nat BY DEF Typed
<1>9. r = pub.run /\ watcher => h \notin Missing'
  <2>1. SUFFICES ASSUME r = pub.run, watcher
                 PROVE  h \in InRun(got)' \cup InRun(refused)'
    BY DEF Missing
  <2>2. <<r, h>> \in got' \cup refused' BY <1>4, <2>1
  <2>3. <<r, h>>[1] = pub'.run /\ <<r, h>>[2] = h BY <1>4, <2>1
  <2>4. QED BY <2>2, <2>3 DEF InRun
<1>10. r = pub.run => \A m \in Due' : m \in Due /\ m # h
  BY <1>4, <1>7, <1>9 DEF Due
<1>11. r = pub.run => \A n \in Due : h <= n
  <2>1. SUFFICES ASSUME r = pub.run, NEW n \in Due, n < h PROVE FALSE
    BY <1>7
  <2>2. Ordered(c, Due) BY <1>3, <1>6, <2>1 DEF WireOK
  <2>3. 1 \in 1..Len(c.in) BY <1>1, HeadAndTail, WireType
  <2>4. Carried(c, n, 1 - 1) BY <1>3, <2>1, <2>2, <2>3 DEF Ordered
  <2>5. QED BY <2>4 DEF Carried
<1>12. conn[j].run = pub.run =>
          /\ Numbered(d, pub.seq) /\ Ordered(d, Due')
          /\ \A n \in Due' : d.out = c.out /\ Carries(c, n) => Carries(d, n)
  <2>1. SUFFICES ASSUME c.run = pub.run
                 PROVE  /\ Numbered(d, pub.seq) /\ Ordered(d, Due')
                        /\ \A n \in Due' : d.out = c.out /\ Carries(c, n)
                                              => Carries(d, n)
    OBVIOUS
  <2>2. Numbered(c, pub.seq) /\ Ordered(c, Due) BY <1>6, <2>1 DEF WireOK
  <2>3. \A m \in Due' : m \in Due /\ m # Head(c.in) BY <1>3, <1>10, <2>1
  <2> HIDE DEF c
  <2>4. d.out = c.out \/ d.out = <<>> BY <1>1
  <2>5. /\ c \in Connection /\ d \in Connection /\ c.in # <<>>
        /\ d.in = Tail(c.in)
    BY <1>1, <1>2
  <2>6. pub.seq \in Nat /\ Due \in SUBSET Nat BY <1>7
  <2>7. PICK E \in SUBSET Nat : E = Due' BY <1>7
  <2>8. \A m \in E : m \in Due /\ m # Head(c.in) BY <2>3, <2>7
  <2>9. /\ Numbered(d, pub.seq) /\ Ordered(d, E)
        /\ \A n \in E : d.out = c.out /\ Carries(c, n) => Carries(d, n)
    BY <2>2, <2>4, <2>5, <2>6, <2>8, Pumped
  <2>10. QED BY <2>7, <2>9
<1>13. \A i \in Conns : i # j => Untouched(i) BY <1>2, <1>4 DEF Untouched
<1>14. LinkOK(conn[j], j)'
  BY <1>1, <1>2, <1>4, <1>6 DEF LinkOK
<1>15. WireOK(j)' BY <1>1, <1>2, <1>4, <1>12 DEF WireOK
<1>16. WholeOK(j)'
  <2>1. SUFFICES ASSUME j \in subs, d.pub, d.sub
                 PROVE  \A n \in Due' : Carries(d, n)
    BY <1>2, <1>4 DEF WholeOK
  <2>2. c.pub /\ c.sub /\ d.out = c.out /\ c.run = pub.run
    BY <1>1, <1>6, <2>1 DEF LinkOK
  <2>3. \A n \in Due : Carries(c, n) BY <1>6, <2>1, <2>2 DEF WholeOK
  <2>4. QED BY <1>7, <1>12, <2>2, <2>3
<1>17. AskedOK(j)'
  <2>1. \A k \in 1..Len(conn[j].req) : conn[j].req[k] \in Request
    BY <1>1 DEF Connection
  <2>2. QED BY <1>1, <1>2, <1>6, <1>7, <2>1 DEF AskedOK
<1>18. Links' /\ Wires' /\ Requests' /\ Whole'
  BY <1>4, <1>5, <1>13, <1>14, <1>15, <1>16, <1>17, OneTouched DEF Inner
<1>19. GotOK'
  <2>1. r <= pub.run BY <1>3, <1>6 DEF LinkOK
  <2>2. r = pub.run => h <= pub.seq
    <3>1. 1 \in 1..Len(c.in) BY <1>1, HeadAndTail, WireType
    <3>2. QED BY <1>3, <1>6, <3>1 DEF WireOK, Numbered
  <2>3. \A e \in got' : e \in got \/ e = <<r, h>> BY <1>4
  <2>4. QED BY <1>4, <1>6, <2>1, <2>2, <2>3 DEF GotOK
<1>20. Seen'
  <2>1. SUFFICES ASSUME NEW m \in InRun(got)', NEW n \in Missing' PROVE m <= n
    BY DEF Seen
  <2>2. m \in InRun(got) \/ (watcher /\ r = pub.run /\ m = h)
    BY <1>4 DEF InRun
  <2>3. CASE m \in InRun(got) BY <1>6, <1>7, <2>3 DEF Seen
  <2>4. CASE watcher /\ r = pub.run /\ m = h
    <3>1. n \in Due BY <1>7, <2>4 DEF Due
    <3>2. QED BY <1>11, <2>4, <3>1
  <2>5. QED BY <2>2, <2>3, <2>4
<1>21. Positions'
  <2>1. ASSUME watcher PROVE Sound(last)'
    <3>1. Sound(last) BY <1>6, <2>1 DEF Positions
    <3>2. PICK p \in Nat : p = last BY <1>8
    <3>3. Sound(p)' BY <1>7, <3>1, <3>2
    <3>4. CASE last' = p BY <3>3, <3>4
    <3>5. CASE last' # p
      <4>1. got' = got \cup {<<r, h>>} /\ last' = Max({p, h})
        BY <1>4, <2>1, <3>2, <3>5
      <4>2. Max({p, h}) \in {p, h}
        <5>1. \E x \in {p, h} : \A y \in {p, h} : x >= y OBVIOUS
        <5>2. QED BY <5>1 DEF Max
      <4>3. last' = h BY <3>5, <4>1, <4>2
      <4>a. <<r, h>> \in got' /\ <<r, h>>[1] = r /\ <<r, h>>[2] = h BY <4>1
      <4>4. h \in Marks'
        <5>1. h \in {e[2] : e \in got'} BY <4>a
        <5>2. QED BY <5>1 DEF Marks
      <4>5. \A n \in Due' : h < n
        <5>1. CASE r = pub.run BY <1>7, <1>10, <1>11, <5>1
        <5>2. CASE r # pub.run
          <6>1. r < pub.run BY <1>3, <1>6, <1>8, <5>2 DEF LinkOK
          <6>2. h \in Past'
            <7>1. <<r, h>> \in {f \in got' : f[1] < pub'.run}
              BY <1>4, <4>a, <6>1
            <7>2. h \in {e[2] : e \in {f \in got' : f[1] < pub'.run}}
              BY <4>a, <7>1
            <7>3. QED BY <7>2 DEF Past
          <6>3. QED BY <6>2 DEF Due, Missing, Owed
        <5>3. QED BY <5>1, <5>2
      <4>6. QED BY <4>3, <4>4, <4>5 DEF Sound
    <3>6. QED BY <3>4, <3>5
  <2>2. BagToSet(resuming) \subseteq Nat BY DEF Typed
  <2>3. QED BY <1>4, <1>6, <1>7, <2>1, <2>2 DEF Positions
<1>22. Answering'
  <2>1. First(j) => First(j)'
    <3>1. CASE d.out = c.out /\ d.sub = c.sub
      BY <1>1, <1>2, <1>4, <3>1, SameFirst
    <3>2. CASE d.out = <<>> /\ ~d.sub
      <4>1. Len(<<>>) = 0 /\ \A k \in 1..Len(<<>>) : FALSE OBVIOUS
      <4>2. QED BY <1>2, <3>2, <4>1 DEF First, FirstReply
    <3>3. QED BY <1>1, <3>1, <3>2
  <2>2. QED BY <1>2, <1>4, <2>1, StillAnswering DEF Inner
<1>23. QED BY <1>18, <1>19, <1>20, <1>21, <1>22 DEF Inner


\* join: nothing due is below the replay, and nothing is due at all when the
\* subscription starts here.
LEMMA JoinStep ==
    ASSUME Typed, Typed', Bounded, Inner, NEW j \in Conns, Join(j)
    PROVE  Inner'
<1> DEFINE c == conn[j]
           r == Head(c.req)
           e == Replayed(c, Replay(r.since))
           d == [e EXCEPT !.joined = TRUE, !.seq = pub.seq]
<1>1. /\ Alters(j, d)
      /\ e \in Connection /\ r \in Request /\ r.op = "subscribe"
      /\ r.since \in Maybe
      /\ d.pub = e.pub /\ d.sub = e.sub /\ d.served = e.served /\ d.run = e.run
      /\ d.out = e.out /\ d.in = e.in /\ d.req = e.req
      /\ d.joined /\ d.seq = pub.seq
      /\ Len(c.out) <= OutCap
      /\ start' \subseteq Nat /\ start \subseteq start'
  BY JoinEffect
<1>2. c \in Connection BY DEF Typed
<1>3. /\ e.in = c.in /\ e.sub = c.sub /\ e.served = c.served
      /\ e.run = c.run /\ e.req = c.req
      /\ e.pub => c.pub
      /\ \/ e = c /\ (r.since = {} \/ ~ (c.pub /\ c.sub))
         \/ /\ c.pub /\ c.sub
            /\ \E s \in r.since, a \in Nat, n \in Nat, t \in Seq(Frame) :
                  /\ a + n - 1 <= pub.seq
                  /\ Len(t) = n
                  /\ \A k \in 1..n : t[k] = Envelope(a + k - 1)
                  /\ e.out = c.out \o t
                  /\ \A m \in History : s < m => a <= m
                  /\ e.pub => a + n - 1 = pub.seq
  BY <1>1, <1>2, JoinReplays, ZenonT(60)
<1>4. /\ conn'[j] = d /\ d \in Connection
      /\ \A i \in Conns : i # j => conn'[i] = conn[i]
  BY <1>1, Altered DEF Alters
<1>5. /\ pub' = pub /\ got' = got /\ last' = last /\ refused' = refused
      /\ watcher' = watcher /\ resuming' = resuming /\ app' = app
      /\ pumps' = pumps /\ subs' = subs \cup {j} /\ c.served /\ ~c.joined
      /\ c.req # <<>>
      /\ r.first /\ r.since = {} => pub.seq \in start'
  BY DEF Join, watching
<1>6. Quiet BY <1>1, <1>5 DEF Quiet
<1> HIDE DEF d, e, r
<1>7. \A i \in Conns : i # j => Untouched(i) BY <1>4, <1>5 DEF Untouched
<1>8. LinkOK(c, j) /\ WireOK(j) /\ AskedOK(j) /\ RequestOK(r)
  <2>1. LinkOK(c, j) /\ WireOK(j) /\ AskedOK(j)
    BY DEF Inner, Links, Wires, Requests
  <2>2. 1 \in 1..Len(c.req) /\ r = c.req[1] BY <1>5, RequestFacts DEF r
  <2>3. QED BY <2>1, <2>2 DEF AskedOK
<1>9. /\ Due' \subseteq Due /\ Due \in SUBSET Nat /\ Due' \in SUBSET Nat
      /\ pub.seq \in Nat
      /\ \A q \in Request : RequestOK(q) => RequestOK(q)'
  BY <1>6, QuietFacts
<1>10. \A n \in Due' : n <= pub.seq /\ n \in History /\ \A m \in start' : m < n
  BY <1>5 DEF Due, Missing, History, Owed, Past
<1>11. ASSUME c.pub, c.sub
       PROVE  /\ c.run = pub.run
              /\ Numbered(d, pub.seq) /\ Ordered(d, Due')
              /\ d.pub => \A n \in Due' : Carries(d, n)
  <2>1. c.run = pub.run BY <1>5, <1>8, <1>11 DEF LinkOK
  <2>2. Numbered(c, pub.seq) /\ Ordered(c, Due) BY <1>8, <2>1 DEF WireOK
  <2>3. Ordered(c, Due') BY <1>9, <2>2 DEF Ordered
  <2>4. CASE e = c /\ r.since = {}
    <3>1. pub.seq \in start' BY <1>1, <1>5, <1>8, <2>4 DEF RequestOK
    <3>2. \A n \in Due' : FALSE BY <1>9, <1>10, <3>1
    <3>3. d.in = c.in /\ d.out = c.out BY <1>1, <2>4
    <3>4. Numbered(d, pub.seq) BY <2>2, <3>3 DEF Numbered
    <3>5. QED BY <2>1, <3>2, <3>4 DEF Ordered
  <2>5. CASE \E s \in r.since, a \in Nat, n \in Nat, t \in Seq(Frame) :
                  /\ a + n - 1 <= pub.seq
                  /\ Len(t) = n
                  /\ \A k \in 1..n : t[k] = Envelope(a + k - 1)
                  /\ e.out = c.out \o t
                  /\ \A m \in History : s < m => a <= m
                  /\ e.pub => a + n - 1 = pub.seq
    <3>1. PICK s \in r.since, a \in Nat, n \in Nat, t \in Seq(Frame) :
                  /\ a + n - 1 <= pub.seq
                  /\ Len(t) = n
                  /\ \A k \in 1..n : t[k] = Envelope(a + k - 1)
                  /\ e.out = c.out \o t
                  /\ \A m \in History : s < m => a <= m
                  /\ e.pub => a + n - 1 = pub.seq
      BY <2>5
    <3>2. \A m \in Due' : s < m BY <1>1, <1>8, <1>9 DEF RequestOK, Sound
    <3>3. PICK E \in SUBSET Nat : E = Due' BY <1>9
    <3>4. \A m \in E : a <= m /\ m <= pub.seq BY <1>10, <3>1, <3>2, <3>3
    <3>5. d.in = c.in /\ d.out = c.out \o t BY <1>1, <1>3, <3>1
    <3>6. Numbered(c, pub.seq) /\ Ordered(c, E) BY <2>2, <2>3, <3>3
    <3>7. \A k \in 1..n : t[k] = Envelope(a + k - 1) BY <3>1
    <3>8. Len(t) = n /\ a + n - 1 <= pub.seq BY <3>1
    <3>b. Replays(c, d, a, n) BY <3>5, <3>7, <3>8 DEF Replays
    <3>a. c \in Connection /\ d \in Connection /\ pub.seq \in Nat
      BY <1>2, <1>4, <1>9
    <3> HIDE DEF c
    <3>9. /\ Numbered(d, pub.seq)
          /\ Ordered(d, E)
          /\ a + n - 1 = pub.seq => \A m \in E : Carries(d, m)
      BY <3>a, <3>4, <3>6, <3>8, <3>b, ReplayPushed
    <3>10. QED BY <1>1, <2>1, <3>1, <3>3, <3>9
  <2>6. QED BY <1>3, <1>11, <2>4, <2>5
<1>12. LinkOK(conn[j], j)'
  <2>1. c.sub \/ (e = c) BY <1>3
  <2>2. ~c.sub => c.out = <<>> BY <1>8 DEF LinkOK
  <2>3. Head(c.req) = r BY DEF r
  <2>4. QED BY <1>1, <1>3, <1>4, <1>5, <1>8, <2>1, <2>2, <2>3 DEF LinkOK
<1>13. WireOK(j)'
  <2>1. SUFFICES ASSUME c.run = pub.run
                 PROVE  Numbered(d, pub.seq) /\ Ordered(d, Due')
    BY <1>1, <1>3, <1>4, <1>5 DEF WireOK
  <2>2. CASE c.pub /\ c.sub BY <1>11, <2>2
  <2>3. CASE ~ (c.pub /\ c.sub)
    <3>1. Numbered(c, pub.seq) /\ Ordered(c, Due) BY <1>8, <2>1 DEF WireOK
    <3>2. d.in = c.in /\ d.out = c.out BY <1>1, <1>3, <2>3
    <3>3. QED BY <1>9, <3>1, <3>2 DEF Numbered, Ordered, Carried, Pushes
  <2>4. QED BY <2>2, <2>3
<1>14. WholeOK(j)'
  <2>1. SUFFICES ASSUME d.pub, d.sub PROVE \A n \in Due' : Carries(d, n)
    BY <1>4 DEF WholeOK
  <2>2. c.pub /\ c.sub BY <1>1, <1>3, <2>1
  <2>3. QED BY <1>11, <2>1, <2>2
<1>15. AskedOK(j)'
  <2>1. \A k \in 1..Len(c.req) : c.req[k] \in Request BY <1>2 DEF Connection
  <2>2. d.req = c.req BY <1>1, <1>3
  <2>3. QED BY <1>4, <1>8, <1>9, <2>1, <2>2 DEF AskedOK
<1>16. Links' /\ Wires' /\ Requests' /\ Whole'
  BY <1>5, <1>6, <1>7, <1>12, <1>13, <1>14, <1>15, OneTouched DEF Inner
<1>17. GotOK' /\ Seen' /\ Positions' BY <1>5, <1>6, NothingLearnt DEF Inner
<1>18. Answering'
  <2>1. First(j) => First(j)'
    <3>1. SUFFICES ASSUME FirstReply(c, start) PROVE FirstReply(d, start')
      BY <1>4 DEF First
    <3>2. PICK l \in Nat : l = Len(c.out) BY <1>2, WireType
    <3>3. /\ l <= Len(d.out)
          /\ \A i \in 1..l : d.out[i] = c.out[i]
          /\ \A i \in 1..Len(d.out) : i > l => d.out[i].kind = "channel"
      <4>1. CASE e = c BY <1>1, <3>2, <4>1
      <4>2. CASE \E s \in r.since, a \in Nat, n \in Nat, t \in Seq(Frame) :
                  /\ a + n - 1 <= pub.seq
                  /\ Len(t) = n
                  /\ \A k \in 1..n : t[k] = Envelope(a + k - 1)
                  /\ e.out = c.out \o t
                  /\ \A m \in History : s < m => a <= m
                  /\ e.pub => a + n - 1 = pub.seq
        <5>1. PICK n \in Nat, a \in Nat, t \in Seq(Frame) :
                  /\ Len(t) = n
                  /\ \A k \in 1..n : t[k] = Envelope(a + k - 1)
                  /\ e.out = c.out \o t
          BY <4>2
        <5>2. \A k \in 1..n : t[k].kind = "channel" BY <5>1 DEF Envelope
        <5>3. PICK o \in Seq(Frame) : o = c.out BY <1>2, WireType
        <5>4. /\ Len(o \o t) = Len(o) + Len(t)
              /\ \A i \in 1..Len(o) : (o \o t)[i] = o[i]
              /\ \A i \in 1..Len(t) : (o \o t)[Len(o) + i] = t[i]
          BY Concatenated
        <5>5. d.out = o \o t /\ Len(o) = l /\ Len(t) = n BY <1>1, <3>2, <5>1, <5>3
        <5>6. /\ Len(d.out) = l + n
              /\ \A i \in 1..l : d.out[i] = c.out[i]
              /\ \A i \in 1..n : d.out[l + i].kind = "channel"
          BY <5>2, <5>3, <5>4, <5>5
        <5>7. ASSUME NEW i \in 1..(l + n), i > l PROVE d.out[i].kind = "channel"
          <6>1. i - l \in 1..n /\ i = l + (i - l) BY <5>7
          <6>2. QED BY <5>6, <6>1
        <5>8. l <= l + n OBVIOUS
        <5>9. QED BY <5>6, <5>7, <5>8
      <4>3. QED BY <1>3, <4>1, <4>2
    <3>4. NoReply(c, Len(c.out)) /\ d.pub /\ d.sub => d.seq \in start'
      BY <1>1, <1>3, <1>5, <3>1 DEF FirstReply, r
    <3>5. d.pub /\ d.sub => c.pub /\ c.sub /\ d.req = c.req BY <1>1, <1>3
    <3>6. start \subseteq start' BY <1>1
    <3>7. /\ Len(c.out) <= Len(d.out)
          /\ \A i \in 1..Len(c.out) : d.out[i] = c.out[i]
          /\ \A i \in 1..Len(d.out) : i > Len(c.out) => d.out[i].kind = "channel"
      BY <3>2, <3>3
    <3> HIDE DEF c
    <3>8. QED BY <1>2, <1>4, <3>1, <3>4, <3>5, <3>6, <3>7, FirstKept
  <2>2. QED BY <1>1, <1>4, <1>5, <2>1, StillAnswering DEF Inner
<1>19. QED BY <1>16, <1>17, <1>18 DEF Inner

\* The announcement of a subscription, and its reply.
LEMMA AnnounceStep ==
    ASSUME Typed, Typed', Bounded, Inner, NEW j \in Conns, Announce(j)
    PROVE  Inner'
<1> DEFINE c == conn[j]
           E == Emitted(conn, subs)
           e == E[j]
           f == Pushed(e, Reply(c.seq))
           d == [f EXCEPT !.joined = FALSE, !.seq = 0, !.req = Tail(c.req)]
<1>1. /\ conn' = [E EXCEPT ![j] = d]
      /\ conn' \in [Conns -> Connection]
      /\ e \in Connection /\ d \in Connection /\ f \in Connection
      /\ d.pub = f.pub /\ d.sub = f.sub /\ d.served = f.served /\ d.run = f.run
      /\ d.out = f.out /\ d.in = f.in /\ ~d.joined /\ d.req = Tail(c.req)
      /\ c \in Connection /\ c.joined
      /\ E \in [Conns -> Connection]
  BY AnnounceEffect DEF Inner
<1>2. conn'[j] = d /\ \A i \in Conns : i # j => conn'[i] = E[i] BY <1>1
<1>3. /\ Emits /\ pumps' = pumps /\ app' = app /\ start' = start
      /\ resuming' = resuming /\ last' = last /\ watcher' = watcher
      /\ subs' = {i \in subs : E[i].pub}
  BY DEF Announce, Emits, watching
<1>4. conn \in [Conns -> Connection] /\ subs \in SUBSET subs /\ subs \in SUBSET Conns
  BY DEF Typed
<1>5. c.seq \in Nat /\ Reply(c.seq) \in Frame BY <1>1, FramesType DEF Connection
<1>6. /\ e.sub = c.sub /\ e.served = c.served /\ e.run = c.run
      /\ e.in = c.in /\ e.req = c.req /\ e.joined = c.joined /\ e.seq = c.seq
      /\ e.pub => c.pub
      /\ \/ e.out = c.out
         \/ c.pub /\ c.sub /\ e.out = Append(c.out, Envelope(pub.seq + 1))
  BY <1>4, EmittedFacts
<1>7. /\ f.sub = e.sub /\ f.served = e.served /\ f.run = e.run /\ f.in = e.in
      /\ f.pub => e.pub
      /\ \/ f.out = e.out
         \/ e.pub /\ e.sub /\ f.out = Append(e.out, Reply(c.seq))
      /\ f.pub /\ e.sub => f.out = Append(e.out, Reply(c.seq))
  BY <1>1, <1>5, PushedFields
<1>8. /\ Due' \subseteq Due \cup {pub.seq + 1}
      /\ \A s \in Nat : Sound(s) => Sound(s)'
      /\ GotOK'
      /\ Seen'
      /\ pub'.run = pub.run /\ pub'.up = pub.up
      /\ pub'.seq = pub.seq + 1 /\ pub.seq \in Nat
      /\ \A r \in Request : RequestOK(r) => RequestOK(r)'
  BY <1>3, EmitsFacts DEF Inner
<1>9. PICK D \in SUBSET Nat : D = Due' BY <1>8, DueType
<1>10. Found(conn[j], conn[j]) /\ Like(conn[j], conn[j])
  BY <1>1 DEF Found, Like
<1>11. LinkOK(c, j) /\ AskedOK(j)
  BY DEF Inner, Links, Requests
<1>12. /\ c.run = pub.run => Numbered(e, pub.seq + 1) /\ Ordered(e, D)
       /\ j \in subs /\ e.pub /\ e.sub => \A n \in D : Carries(e, n)
  BY <1>4, <1>8, <1>9, <1>10, EmittedWire DEF Inner
<1>13. First(j) => FirstReply(e, start)
  BY <1>4, <1>10, EmittedFirst
<1>14. ASSUME NEW i \in Conns, i # j
       PROVE  /\ LinkOK(conn[i], i)' /\ WireOK(i)' /\ AskedOK(i)' /\ WholeOK(i)'
              /\ First(i) => First(i)'
  <2>1. Found(conn[i], conn[i]) BY DEF Found
  <2>2. conn'[i] = Emitted(conn, subs)[i] BY <1>2, <1>14
  <2>3. i \in subs' => i \in subs BY <1>3
  <2>4. QED BY <1>3, <1>4, <2>1, <2>2, <2>3, EmittedStep DEF Inner
<1> HIDE DEF d, f, e, E
<1>15. c.req # <<>> BY <1>1, <1>11 DEF LinkOK
<1>16. ASSUME c.run = pub.run
       PROVE  /\ Numbered(d, pub.seq + 1) /\ Ordered(d, D)
              /\ j \in subs /\ d.pub /\ d.sub => \A n \in D : Carries(d, n)
  <2>1. Numbered(e, pub.seq + 1) /\ Ordered(e, D) BY <1>12, <1>16
  <2>2. CASE f.out = Append(e.out, Reply(c.seq))
    <3>1. d.in = e.in /\ d.out = Append(e.out, Reply(c.seq)) BY <1>1, <1>7, <2>2
    <3>2. pub.seq + 1 \in Nat BY <1>8
    <3>3. /\ Numbered(d, pub.seq + 1) /\ Ordered(d, D)
          /\ \A n \in D : Carries(e, n) => Carries(d, n)
      BY <1>1, <1>5, <2>1, <3>1, <3>2, ReplyPushed
    <3>4. QED BY <1>1, <1>7, <1>12, <3>3
  <2>3. CASE f.out = e.out /\ ~ (f.pub /\ e.sub)
    <3>1. d.in = e.in /\ d.out = e.out /\ ~ (d.pub /\ d.sub)
      BY <1>1, <1>7, <2>3
    <3>2. QED BY <2>1, <3>1 DEF Numbered, Ordered, Carried, Pushes
  <2>4. QED BY <1>7, <2>2, <2>3
<1>17. LinkOK(conn[j], j)'
  BY <1>1, <1>2, <1>3, <1>6, <1>7, <1>8, <1>11 DEF LinkOK
<1>18. WireOK(j)'
  BY <1>1, <1>2, <1>6, <1>7, <1>8, <1>9, <1>16 DEF WireOK
<1>19. WholeOK(j)'
  <2>1. SUFFICES ASSUME j \in subs, e.pub, d.pub, d.sub
                 PROVE  \A n \in D : Carries(d, n)
    BY <1>2, <1>3, <1>9 DEF WholeOK, e
  <2>2. c.run = pub.run BY <1>1, <1>6, <1>7, <1>11, <2>1 DEF LinkOK
  <2>3. QED BY <1>16, <2>1, <2>2
<1>20. AskedOK(j)' BY <1>1, <1>2, <1>8, <1>11, <1>15, TailOK
<1>21. First(j) => First(j)'
  <2>1. SUFFICES ASSUME FirstReply(e, start) PROVE FirstReply(d, start)
    BY <1>2, <1>3, <1>13 DEF First
  <2>2. \/ d.out = Append(e.out, Reply(c.seq))
        \/ d.out = e.out /\ ~ (d.pub /\ d.sub)
    BY <1>1, <1>7
  <2>3. NoReply(e, Len(e.out)) => c.seq \in start \/ d.out = e.out
    BY <1>1, <1>6, <1>7, <2>1 DEF FirstReply
  <2>4. QED BY <1>1, <1>5, <2>1, <2>2, <2>3, FirstAnswered
<1>22. Links' /\ Wires' /\ Requests' /\ Whole'
  BY <1>14, <1>17, <1>18, <1>19, <1>20 DEF Links, Wires, Requests, Whole
<1>23. Positions'
  <2>1. last \in Nat /\ BagToSet(resuming) \subseteq Nat /\ Positions
    BY DEF Typed, Inner
  <2>2. QED BY <1>3, <1>8, <2>1 DEF Positions
<1>24. Answering'
  <2>1. \A i \in Conns : First(i) => First(i)' BY <1>14, <1>21
  <2>2. QED BY <1>3, <2>1, StillAnswering DEF Inner
<1>25. QED BY <1>8, <1>22, <1>23, <1>24 DEF Inner


-----------------------------------------------------------------------------
\* Before subscribe, nothing of the channel comes to be anywhere.

Bare(c) == c.out = <<>> /\ c.in = <<>> /\ c.req = <<>> /\ ~c.joined

Nothing == /\ subs = {} /\ BagToSet(resuming) = {} /\ ~watcher
           /\ got = {} /\ refused = {}
           /\ \A j \in Conns : Bare(conn[j])

LEMMA NothingStays ==
    ASSUME Nothing, subs' = {}, BagToSet(resuming)' = {}, ~watcher',
           got' = got, refused' = refused,
           \A j \in Conns : Bare(conn[j]) => Bare(conn'[j])
    PROVE  Nothing'
BY DEF Nothing, Bare

LEMMA IdleStep ==
    ASSUME Typed, Typed', Bounded, Links, Idle, [Next]_vars
    PROVE  Idle'
<1> SUFFICES ASSUME app'.stage = "idle" PROVE Nothing'
  BY DEF Idle, Nothing, Bare
<1>a. Idle <=> (app.stage = "idle" => Nothing) BY DEF Idle, Nothing, Bare
<1>b. conn \in [Conns -> Connection] /\ {} \in SUBSET Conns BY DEF Typed
<1>1. CASE Publish
  <2>1. Nothing /\ Emit(conn, {}) /\ UNCHANGED <<resuming, watching>>
    BY <1>1, <1>a DEF Publish, Nothing
  <2>2. \A j \in Conns : conn'[j] = conn[j] BY <2>1 DEF Emit, Emitted
  <2>3. subs' = {} BY <2>1 DEF Emit
  <2>4. QED BY <2>1, <2>2, <2>3 DEF Nothing, watching
<1>2. ASSUME NEW j \in Conns, Leave(j) \/ Join(j) \/ Announce(j) \/ Left(j)
      PROVE  Nothing'
  <2>1. app.stage = "idle" BY <1>2 DEF Leave, Join, Announce, Left
  <2>2. Bare(conn[j]) BY <1>a, <2>1 DEF Nothing
  <2>3. QED BY <1>2, <2>2 DEF Leave, Join, Announce, Left, Bare
<1>3. ASSUME NEW j \in Conns, Hangup(j) PROVE Nothing'
  <2>1. /\ Nothing /\ UNCHANGED <<resuming, watching>>
        /\ conn' = Ended(j) /\ UNCHANGED subs
    BY <1>3, <1>a DEF Hangup, Ended, Nothing
  <2>2. \A i \in Conns : Bare(conn[i]) => Bare(conn'[i])
    BY <2>1, EndedFacts DEF Bare
  <2>3. QED BY <2>1, <2>2, NothingStays DEF Nothing, watching
<1>4. CASE Down
  <2>1. /\ Nothing /\ UNCHANGED <<resuming, watching>> /\ subs' = {}
    BY <1>4, <1>a DEF Down
  <2>2. \A i \in Conns : Bare(conn[i]) => Bare(conn'[i])
    BY <1>4, DownEffect DEF Bare
  <2>3. QED BY <2>1, <2>2, NothingStays DEF Nothing, watching
<1>5. CASE Up
  <2>1. Nothing /\ UNCHANGED <<resuming, watching, subs, conn>>
    BY <1>5, <1>a DEF Up
  <2>2. QED BY <2>1 DEF Nothing, watching
<1>6. ASSUME NEW k \in Conns, Use(k) PROVE Nothing'
  <2>1. /\ Nothing /\ UNCHANGED <<resuming, watching, subs>>
        /\ Reached(k) /\ Asked(k, <<>>) /\ Free(k)
    BY <1>6, <1>a DEF Use
  <2>2. PICK reqs \in Seq(Request) : reqs = <<>> BY RequestsType
  <2>a. Reached(k) /\ Asked(k, reqs) /\ Free(k) BY <2>1, <2>2
  <2>b. PICK d \in Connection :
              /\ conn' = [conn EXCEPT ![k] = d]
              /\ Free(k) => /\ pub.up
                            /\ d.pub /\ d.sub /\ d.served /\ ~d.joined
                            /\ d.run = pub.run
                            /\ d.out = <<>> /\ d.in = <<>>
                            /\ d.req = reqs
    BY <2>a, AskedFacts
  <2>3. /\ conn' = [conn EXCEPT ![k] = d]
        /\ ~d.joined /\ d.out = <<>> /\ d.in = <<>> /\ d.req = <<>>
    BY <2>2, <2>a, <2>b
  <2>4. \A i \in Conns : Bare(conn[i]) => Bare(conn'[i])
    BY <1>b, <2>3 DEF Bare
  <2>5. QED BY <2>1, <2>4, NothingStays DEF Nothing, watching
<1>7. ASSUME NEW j \in Conns, Read(j) PROVE Nothing'
  <2>1. app.stage = "idle" BY <1>7 DEF Read, Typed
  <2>2. Bare(conn[j]) BY <1>a, <2>1 DEF Nothing
  <2>3. QED BY <1>7, <2>2 DEF Read, Bare
<1>8. ASSUME NEW j \in Conns, EndOfFile(j) PROVE Nothing'
  <2>1. Nothing /\ UNCHANGED <<resuming, watching, subs>>
    BY <1>8, <1>a DEF EndOfFile
  <2>2. PICK d : /\ Alters(j, d)
                 /\ d.joined = conn[j].joined /\ d.req = conn[j].req
                 /\ d.out = conn[j].out /\ d.in = conn[j].in
    BY <1>8, EndOfFileEffect
  <2>3. \A i \in Conns : Bare(conn[i]) => Bare(conn'[i])
    BY <2>2, Altered DEF Bare
  <2>4. QED BY <2>1, <2>3, NothingStays DEF Nothing, watching
<1>9. ASSUME NEW j \in Conns, Pump(j) PROVE Nothing'
  <2>1. app.stage = "idle" BY <1>9 DEF Pump
  <2>2. Bare(conn[j]) BY <1>a, <2>1 DEF Nothing
  <2>3. QED BY <1>9, <2>2 DEF Pump, Bare
<1>10. ASSUME NEW j \in Conns, PumpEnds(j) PROVE Nothing'
  <2>1. Nothing /\ UNCHANGED <<watching, subs>> BY <1>10, <1>a DEF PumpEnds
  <2>2. resuming' = resuming BY <1>10, <2>1 DEF PumpEnds, Nothing
  <2>3. PICK d : /\ Alters(j, d)
                 /\ d.joined = conn[j].joined /\ d.req = conn[j].req
                 /\ d.out = conn[j].out /\ d.in = conn[j].in
    BY <1>10, PumpEndsEffect
  <2>4. \A i \in Conns : Bare(conn[i]) => Bare(conn'[i])
    BY <2>3, Altered DEF Bare
  <2>5. QED BY <2>1, <2>2, <2>4, NothingStays DEF Nothing, watching
<1>11. CASE Take
  <2>1. Nothing /\ UNCHANGED <<resuming, subs, conn, watcher, got, refused>>
    BY <1>11, <1>a DEF Take, wires
  <2>2. QED BY <2>1 DEF Nothing
<1>12. ASSUME NEW s \in BagToSet(resuming), NEW k \in Conns,
              Resume(s, k)
       PROVE  Nothing'
  <2>1. app.stage = "idle" BY <1>12 DEF Resume
  <2>2. QED BY <1>12, <1>a, <2>1 DEF Nothing
<1>13. ASSUME NEW s \in BagToSet(resuming), GiveUp(s) PROVE Nothing'
  <2>1. app.stage = "idle" BY <1>13 DEF GiveUp
  <2>2. QED BY <1>13, <1>a, <2>1 DEF Nothing
<1>14. ASSUME NEW k \in Conns, Subscribe(k) \/ Unsubscribe(k) PROVE Nothing'
  <2>1. CASE Subscribe(k)
    <3>1. app'.stage = "calling" BY <2>1 DEF Subscribe
    <3>2. QED BY <3>1
  <2>2. CASE Unsubscribe(k)
    <3>1. app'.stage = "unsubscribed" BY <2>2 DEF Unsubscribe, Typed
    <3>2. QED BY <3>1
  <2>3. QED BY <1>14, <2>1, <2>2
<1>15. CASE Subscribed \/ SubscribeFails
  <2>1. app'.stage # "idle" BY <1>15 DEF Subscribed, SubscribeFails, Typed
  <2>2. QED BY <2>1
<1>16. CASE UNCHANGED vars
  BY <1>16, <1>a DEF vars, wires, watching, Nothing
<1>17. QED
  BY <1>1, <1>2, <1>3, <1>4, <1>5, <1>6, <1>7, <1>8, <1>9, <1>10, <1>11, <1>12,
     <1>13, <1>14, <1>15, <1>16
  DEF Next, PublisherStep, SubscriberStep, External

-----------------------------------------------------------------------------
\* The theorems.

LEMMA AgreedAtFirst ==
    ASSUME Init
    PROVE  Typed /\ Bounded /\ IInv
<1>1. Typed
  <2>1. [j \in Conns |-> Gone] \in [Conns -> Connection] BY GoneType
  <2>2. BagToSet(EmptyBag) = {} BY DEF BagToSet, EmptyBag, SetToBag
  <2>3. {} \in Maybe /\ "idle" \in Stage BY DEF Maybe, Stage
  <2>4. 0 \in 0..QueueCap BY CapacityAssumption
  <2>5. pub \in [up : BOOLEAN, run : Nat, seq : Nat] BY DEF Init
  <2>6. conn \in [Conns -> Connection] BY <2>1 DEF Init
  <2>7. BagToSet(resuming) \subseteq Nat BY <2>2 DEF Init
  <2>8. app \in [stage : Stage, conn : Conns \cup {NoConn}, since : Maybe,
                 answer : Maybe]
    BY <2>3 DEF Init
  <2>9. left \in [data : Nat, restarts : Nat, connects : Nat]
    BY StreamBoundsAssumption DEF Init
  <2>10. /\ subs \subseteq Conns /\ client \in Conns \cup {NoConn}
         /\ pumps \subseteq Conns /\ watcher \in BOOLEAN /\ last \in Nat
         /\ queued \in 0..QueueCap /\ got \subseteq Nat \X Nat
         /\ refused \subseteq Nat \X Nat /\ start \subseteq Nat
    BY <2>4 DEF Init
  <2>11. QED BY <2>5, <2>6, <2>7, <2>8, <2>9, <2>10 DEF Typed
<1>2. \A j \in Conns : conn[j] = Gone BY DEF Init
<1>3. /\ Gone.out = <<>> /\ Gone.in = <<>> /\ Gone.req = <<>>
      /\ ~Gone.pub /\ ~Gone.sub /\ ~Gone.served /\ ~Gone.joined /\ Gone.run = 0
  BY DEF Gone
<1>4. Len(<<>>) = 0 /\ \A k \in 1..Len(<<>>) : FALSE OBVIOUS
<1>5. Bounded
  <2>1. Restarts BY StreamBoundsAssumption DEF Init, Restarts
  <2>2. Fits BY <1>2, <1>3, <1>4, CapacityAssumption DEF Fits
  <2>3. QED BY <2>1, <2>2 DEF Bounded
<1>6. Links BY <1>2, <1>3 DEF Init, Links, LinkOK
<1>7. Wires BY <1>2, <1>3, <1>4 DEF Wires, WireOK, Numbered, Ordered
<1>8. Requests BY <1>2, <1>3, <1>4 DEF Requests, AskedOK
<1>9. BagToSet(resuming) = {} BY DEF Init, BagToSet, EmptyBag, SetToBag
<1>10. Whole /\ GotOK /\ Seen BY DEF Init, Whole, WholeOK, GotOK, Seen, InRun
<1>11. Positions BY <1>9 DEF Init, Positions
<1>12. Idle BY <1>2, <1>3, <1>9 DEF Init, Idle
<1>13. Answering BY DEF Init, Answering
<1>14. QED BY <1>1, <1>5, <1>6, <1>7, <1>8, <1>10, <1>11, <1>12, <1>13 DEF IInv

LEMMA InnerStep ==
    ASSUME Typed, Typed', Bounded, Inner, Idle, [Next]_vars
    PROVE  Inner'
<1>1. CASE UNCHANGED vars
  <2>1. /\ Quiet /\ pub' = pub /\ subs' = subs /\ conn' = conn /\ got' = got
        /\ last' = last /\ watcher' = watcher /\ resuming' = resuming
        /\ app' = app /\ start' = start /\ pumps' = pumps
    BY <1>1 DEF vars, wires, watching, Quiet
  <2>2. \A i \in Conns : Untouched(i) BY <2>1 DEF Untouched
  <2>3. Links' /\ Wires' /\ Requests' /\ Whole'
    BY <2>1, <2>2, NoneTouched DEF Inner
  <2>4. GotOK' /\ Seen' /\ Positions' BY <2>1, NothingLearnt DEF Inner
  <2>5. Answering' BY <2>1, StillAnswering DEF Inner
  <2>6. QED BY <2>3, <2>4, <2>5 DEF Inner
<1>2. CASE PublisherStep
  BY <1>2, LeaveStep, JoinStep, AnnounceStep, LeftStep, HangupStep
  DEF PublisherStep
<1>3. CASE SubscriberStep
  BY <1>3, ReadStep, EndOfFileStep, PumpStep, PumpEndsStep, ResumeStep, TakeStep,
     SubscribedStep, SubscribeFailsStep
  DEF SubscriberStep
<1>4. CASE External
  BY <1>4, PublishStep, DownStep, UpStep, UseStep, SubscribeStep, UnsubscribeStep,
     GiveUpStep
  DEF External
<1>5. QED BY <1>1, <1>2, <1>3, <1>4 DEF Next

\* The inductive invariant: what is due is on its way or replayed, in order, on
\* every connection to the present run, and every position held is below it
\* (publish_kind, join, the pump and its resubscription).
THEOREM StreamsAgree == Spec => [](Typed /\ Bounded /\ IInv)
<1>1. Init => Typed /\ Bounded /\ IInv BY AgreedAtFirst
<1>2. Typed /\ Bounded /\ IInv /\ [Next]_vars => (Typed /\ Bounded /\ IInv)'
  <2> SUFFICES ASSUME Typed, Bounded, IInv, [Next]_vars
               PROVE  (Typed /\ Bounded /\ IInv)'
    OBVIOUS
  <2>1. Inner /\ Idle /\ Links BY DEF IInv, Inner
  <2>2. Typed' /\ Bounded' BY <2>1, TypedStep
  <2>3. Inner' BY <2>1, <2>2, InnerStep
  <2>4. Idle' BY <2>1, <2>2, IdleStep
  <2>5. QED BY <2>2, <2>3, <2>4 DEF IInv, Inner
<1>3. QED BY <1>1, <1>2, PTL DEF Spec

\* Every variable keeps its type and every queue its bound.
THEOREM TypeCorrect == Spec => []TypeOK
<1>1. Typed /\ Bounded => TypeOK
  <2> SUFFICES ASSUME Typed, Bounded PROVE TypeOK OBVIOUS
  <2>1. pub.run \in 0..MaxRestarts
    <3>1. pub.run + left.restarts + (IF pub.up THEN 0 ELSE 1) = MaxRestarts
      BY DEF Bounded, Restarts
    <3>2. pub.run \in Nat /\ left.restarts \in Nat /\ MaxRestarts \in Nat
      BY StreamBoundsAssumption DEF Typed
    <3>3. QED BY <3>1, <3>2
  <2>2. ASSUME NEW j \in Conns
        PROVE  /\ {conn[j].pub, conn[j].sub, conn[j].served, conn[j].joined}
                     \subseteq BOOLEAN
               /\ Len(conn[j].out) <= OutCap /\ Len(conn[j].in) <= InCap
    <3>1. conn[j] \in Connection BY DEF Typed
    <3>2. {conn[j].pub, conn[j].sub, conn[j].served, conn[j].joined} \subseteq BOOLEAN
      BY <3>1 DEF Connection
    <3>3. QED BY <3>2 DEF Bounded, Fits
  <2>3. QED BY <2>1, <2>2 DEF Typed, TypeOK, Stage
<1>2. QED BY <1>1, StreamsAgree, PTL

\* While a subscription stands, everything the publisher's history still has
\* of it was handed over, refused by a full queue, or is on the way: replay
\* and registration leave no hole (join), nor does a resubscription.
THEOREM CompleteHolds == Spec => []Complete
<1>1. Typed /\ IInv => Complete
  <2> SUFFICES ASSUME Typed, IInv, NEW j \in subs, conn[j].pub, conn[j].sub, watcher,
                      NEW n \in History, Owed(n),
                      n \notin InRun(got) \cup InRun(refused)
               PROVE  n \in Wire(j)
    BY DEF Complete
  <2>1. n \in Due BY DEF Due, Missing
  <2>2. j \in Conns BY DEF Typed
  <2>3. Carries(conn[j], n) BY <2>1, <2>2 DEF IInv, Whole, WholeOK
  <2>4. QED BY <2>3 DEF Carries, Carried, Pushes, Wire
<1>2. QED BY <1>1, StreamsAgree, PTL

\* An envelope that a later one overtook was refused by a full queue or had
\* left the history: nothing is missed in silence.
THEOREM NoSilentLossHolds == Spec => []NoSilentLoss
<1>1. Typed /\ IInv => NoSilentLoss
  <2> SUFFICES ASSUME Typed, IInv, NEW m \in InRun(got), NEW n \in 1..pub.seq,
                      Owed(n), n < m, n \in History,
                      n \notin InRun(got) \cup InRun(refused)
               PROVE  FALSE
    BY DEF NoSilentLoss
  <2>1. n \in Missing BY DEF Missing
  <2>2. m <= n BY <2>1 DEF IInv, Seen
  <2>3. m \in Nat BY DEF InRun, Typed
  <2>4. n \in Nat BY DEF History, Typed
  <2>5. QED BY <2>2, <2>3, <2>4
<1>2. QED BY <1>1, StreamsAgree, PTL

\* What the history has up to a position that a pump asks to resume from.
ResumesSoundly ==
    watcher => \A s \in BagToSet(resuming), n \in History :
                   Owed(n) /\ n <= s => n \in InRun(got) \cup InRun(refused)

\* A resubscription, however late it is made, starts behind nothing but what
\* was handed over, what a full queue refused (which ResumesFromLastTaken
\* finds), and what a new run of the publisher numbered like an old one
\* (Owed).  cartridge.rs:693-736.
THEOREM ResumesSoundlyHolds == Spec => []ResumesSoundly
<1>1. Typed /\ IInv => ResumesSoundly
  <2> SUFFICES ASSUME Typed, IInv, watcher, NEW s \in BagToSet(resuming), NEW n \in History,
                      Owed(n), n <= s, n \notin InRun(got) \cup InRun(refused)
               PROVE  FALSE
    BY DEF ResumesSoundly
  <2>1. n \in Due BY DEF Due, Missing
  <2>2. s < n BY <2>1 DEF IInv, Positions, Sound
  <2>3. s \in Nat /\ n \in Nat BY DEF Typed, History
  <2>4. QED BY <2>2, <2>3
<1>2. QED BY <1>1, StreamsAgree, PTL
=============================================================================
