---------------------------- MODULE AttachProofs ----------------------------
(***************************************************************************)
(* Theorems about a bridge and the bases it attaches to, for any bases,    *)
(* lines and connections, and any number of stops, crashes, replacements   *)
(* and connections that close: how often a message is sent, how often it   *)
(* is answered, and when a base stops for want of clients.                 *)
(***************************************************************************)
EXTENDS Attach, FiniteSetTheorems, SequenceTheorems, TLAPS

Connections == [base : Bases \cup {None}, open : BOOLEAN,
                seat : {"no", "new", "in", "leaving", "left"}]
Sending == [to : 1 .. Conns, state : {"sent", "running", "refused", "ran", "over"}]
Stages == {"unread", "read", "sent", "again", "attaching", "settling", "resent",
           "replying", "ended"}

BasesTypeOK ==
    /\ base \in [Bases -> {"none", "starting", "staged", "up", "ending"}]
    /\ holder \in Bases \cup {None}
    /\ comp \in [Bases -> {"starting", "ready", "failed"}]
    /\ stamp \in [Bases -> {"fresh", "old"}]
    /\ watch \in [Bases -> {"no", "zero", "raced"}]
    /\ rested \in [Bases -> BOOLEAN]
    /\ conn \in [1 .. Conns -> Connections]

LinesTypeOK ==
    /\ attached \in 1 .. Conns
    /\ lock \in Lines \cup {None}
    /\ poll \in [spawned : BOOLEAN, reloaded : BOOLEAN, found : 0 .. Conns]
    /\ stage \in [Lines -> Stages]
    /\ peer \in [Lines -> 0 .. Conns]
    /\ sends \in [Lines -> Seq(Sending)]

OutputTypeOK ==
    /\ replies \in Seq(Lines) /\ Len(replies) <= Room
    /\ written \in Seq(Lines)
    /\ broken \in BOOLEAN
    /\ bridge \in {"reading", "done"}
    /\ faults \in 0 .. Faults

TypeOK == BasesTypeOK /\ LinesTypeOK /\ OutputTypeOK

-----------------------------------------------------------------------------
(* The connection was made.                                                *)
Used(k) == conn[k].base # None

(* What the sends of a line are at each stage of it.                       *)
SendsOK(l) ==
    /\ Len(sends[l]) <= 2
    /\ \A i \in 1 .. Len(sends[l]) : Used(sends[l][i].to)
    /\ stage[l] \in {"unread", "read"} => Len(sends[l]) = 0
    /\ stage[l] = "sent" => Len(sends[l]) = 1 /\ sends[l][1].to = peer[l]
    /\ stage[l] \in {"again", "attaching", "settling"} =>
           Len(sends[l]) <= 1 /\ (Len(sends[l]) = 1 => ~conn[sends[l][1].to].open)
    /\ stage[l] = "resent" => Len(sends[l]) >= 1
    /\ Len(sends[l]) = 2 => ~conn[sends[l][1].to].open /\ sends[l][1].to # sends[l][2].to

SendsInv == \A l \in Lines : SendsOK(l)

(* One line attaches at a time, and what it found is a connection.         *)
AttachInv ==
    /\ Used(attached)
    /\ \A l \in Lines : stage[l] \in {"attaching", "settling"} => lock = l
    /\ \A l \in Lines : stage[l] = "settling" => poll.found \in 1 .. Conns /\ Used(poll.found)

(* What is queued or written is of requests that are over, each once, and  *)
(* each of those is there unless the output broke; the bridge is done when *)
(* nothing is left to do.                                                  *)
OutputInv ==
    /\ \A l \in Lines : stage[l] = "replying" => l \in Requests
    /\ \A i \in 1 .. Len(replies) : stage[replies[i]] = "ended"
    /\ \A i \in 1 .. Len(written) : stage[written[i]] = "ended"
    /\ \A i, j \in 1 .. Len(replies) : replies[i] = replies[j] => i = j
    /\ \A i, j \in 1 .. Len(written) : written[i] = written[j] => i = j
    /\ \A i \in 1 .. Len(replies), j \in 1 .. Len(written) : replies[i] # written[j]
    /\ ~broken => \A l \in Requests : stage[l] = "ended" =>
                      \/ \E i \in 1 .. Len(replies) : replies[i] = l
                      \/ \E i \in 1 .. Len(written) : written[i] = l
    /\ bridge = "done" => replies = <<>> /\ \A l \in Lines : stage[l] \in {"unread", "ended"}

(* The clock of a base against its clients: who has read that none is      *)
(* joined knows it until one joins, and a base whose time is up had none   *)
(* for all of it, or has one on its way out.                               *)
Joined(b) == \E k \in 1 .. Conns : conn[k].base = b /\ conn[k].seat = "in"
IdleInv ==
    \A b \in Bases :
        /\ watch[b] = "zero" => ~Joined(b)
        /\ rested[b] => ~Joined(b)
        /\ stamp[b] = "old" => rested[b] \/ Joined(b) \/ \E k \in Of(b) : conn[k].seat = "leaving"

IInv == SendsInv /\ AttachInv /\ OutputInv /\ IdleInv

-----------------------------------------------------------------------------
(* What is in a queue after something was put at its end, or taken from    *)
(* its head.                                                               *)
LEMMA Appended ==
    ASSUME NEW S, NEW q \in Seq(S), NEW m \in S
    PROVE  /\ Append(q, m) \in Seq(S)
           /\ Len(q) \in Nat /\ Len(Append(q, m)) = Len(q) + 1
           /\ \A i \in 1 .. Len(q) : Append(q, m)[i] = q[i]
           /\ Append(q, m)[Len(q) + 1] = m
  BY AppendProperties, LenProperties

LEMMA Taken ==
    ASSUME NEW S, NEW q \in Seq(S), q # <<>>
    PROVE  /\ Head(q) \in S /\ Tail(q) \in Seq(S)
           /\ Len(q) \in Nat \ {0} /\ Len(Tail(q)) = Len(q) - 1
           /\ Head(q) = q[1]
           /\ \A i \in 1 .. Len(Tail(q)) : i + 1 \in 1 .. Len(q) /\ Tail(q)[i] = q[i + 1]
<1>1. /\ Head(q) \in S /\ Tail(q) \in Seq(S)
      /\ Len(Tail(q)) = Len(q) - 1
      /\ Head(q) = q[1]
      /\ \A i \in 1 .. Len(Tail(q)) : Tail(q)[i] = q[i + 1]
  BY HeadTailProperties
<1>2. Len(q) \in Nat \ {0}
  BY EmptySeq, LenProperties
<1> QED BY <1>1, <1>2

(* A message at its base: what became of it, not where it was sent.        *)
LEMMA BecomesProperties ==
    ASSUME TypeOK, NEW l \in Lines, Len(sends[l]) >= 1,
           NEW s \in {"sent", "running", "refused", "ran", "over"}, Becomes(l, s)
    PROVE  /\ sends' \in [Lines -> Seq(Sending)]
           /\ \A m \in Lines : /\ Len(sends'[m]) = Len(sends[m])
                               /\ \A i \in 1 .. Len(sends[m]) : sends'[m][i].to = sends[m][i].to
<1> DEFINE n == Len(sends[l])
           e == [sends[l][n] EXCEPT !.state = s]
<1>1. /\ sends \in [Lines -> Seq(Sending)] /\ sends[l] \in Seq(Sending) /\ n \in 1 .. Len(sends[l])
  BY LenProperties DEF TypeOK, LinesTypeOK
<1>2. sends[l][n] \in Sending
  BY <1>1, ElementOfSeq
<1>3. e \in Sending /\ e.to = sends[l][n].to
  BY <1>2 DEF Sending
<1>4. sends' = [sends EXCEPT ![l] = [sends[l] EXCEPT ![n] = e]]
  BY DEF Becomes
<1> HIDE DEF n, e
<1>5. /\ [sends[l] EXCEPT ![n] = e] \in Seq(Sending)
      /\ Len([sends[l] EXCEPT ![n] = e]) = Len(sends[l])
      /\ \A j \in 1 .. Len(sends[l]) : [sends[l] EXCEPT ![n] = e][j] = IF j = n THEN e ELSE sends[l][j]
  BY <1>1, <1>3, ExceptSeq
<1>6. sends'[l] = [sends[l] EXCEPT ![n] = e] /\ \A m \in Lines \ {l} : sends'[m] = sends[m]
  BY <1>1, <1>4
<1>7. sends' \in [Lines -> Seq(Sending)]
  BY <1>1, <1>4, <1>5
<1>8. ASSUME NEW i \in 1 .. Len(sends[l]) PROVE sends'[l][i].to = sends[l][i].to
  BY <1>3, <1>5, <1>6
<1> QED BY <1>5, <1>6, <1>7, <1>8

(* A base has no clients when none is joined to it.                        *)
LEMMA NoClients ==
    ASSUME TypeOK, NEW b \in Bases
    PROVE  Clients(b) = 0 <=> ~Joined(b)
<1> DEFINE S == {k \in Of(b) : conn[k].seat = "in"}
<1>1. Conns \in Nat
  BY AttachAssumption
<1>2. IsFiniteSet(1 .. Conns) /\ S \subseteq 1 .. Conns
  BY <1>1, FS_Interval DEF Of
<1>3. IsFiniteSet(S)
  BY <1>2, FS_Subset
<1>4. Cardinality(S) = 0 <=> S = {}
  BY <1>3, FS_EmptySet
<1>5. Clients(b) = Cardinality(S)
  BY DEF Clients
<1>6. S = {} <=> ~Joined(b)
  BY DEF Joined, Of
<1> QED BY <1>4, <1>5, <1>6

(* What is of use here of a base's own step, a user's, or a connection's.  *)
Outside ==
    \/ \E b \in Bases : BaseStep(b) \/ Meddle(b)
    \/ \E k \in 1 .. Conns : ConnStep(k) \/ Drop(k)

(* The bridge takes no part in one.                                        *)
LEMMA OutsideUnchanged ==
    ASSUME TypeOK, Outside
    PROVE  /\ UNCHANGED <<attaching, lines, output>>
           /\ faults' \in 0 .. Faults
<1>1. faults \in 0 .. Faults /\ Faults \in Nat
  BY AttachAssumption DEF TypeOK, OutputTypeOK
<1>2. \/ \E b \in Bases : \/ Other(b) \/ Listen(b) \/ Stage(b) \/ TakeName(b) \/ Compose(b) \/ Count(b)
                          \/ Time(b) \/ Idle(b) \/ Stop(b) \/ Gone(b) \/ Crash(b)
      \/ \E k \in 1 .. Conns : Join(k) \/ Leave(k) \/ Left(k) \/ Drop(k)
  BY DEF Outside, BaseStep, Meddle, ConnStep
<1>3. UNCHANGED <<attaching, lines, output>>
  BY <1>2 DEF Other, Listen, Stage, TakeName, Compose, Count, Time, Idle, Stop, Gone, Crash,
              Join, Leave, Left, Drop
<1>4. faults' = faults \/ (faults < Faults /\ faults' = faults + 1)
  BY <1>2 DEF Other, Listen, Stage, TakeName, Compose, Count, Time, Idle, Stop, Gone, Crash,
              Join, Leave, Left, Drop
<1> QED BY <1>1, <1>3, <1>4

(* What becomes of a connection otherwise.                                 *)
LEMMA ConnMoves ==
    ASSUME TypeOK, NEW k \in 1 .. Conns, Join(k) \/ Leave(k) \/ Left(k) \/ Drop(k)
    PROVE  \E c \in Connections :
               /\ conn' = [conn EXCEPT ![k] = c]
               /\ c.base # None \/ c.base = conn[k].base
               /\ c.open => conn[k].open
<1>1. conn[k] \in Connections
  BY DEF TypeOK, BasesTypeOK
<1>2. Past \in Connections /\ Past.base # None /\ ~Past.open
  BY AttachAssumption DEF Past, Connections
<1>3. CASE Join(k)
  <2> DEFINE c == [conn[k] EXCEPT !.seat = "in"]
  <2>1. c \in Connections /\ c.base = conn[k].base /\ c.open = conn[k].open
    BY <1>1 DEF Connections
  <2>2. conn' = [conn EXCEPT ![k] = c]
    BY <1>3 DEF Join
  <2> QED BY <2>1, <2>2
<1>4. CASE Leave(k)
  <2> DEFINE c == [conn[k] EXCEPT !.seat = "leaving"]
  <2>1. c \in Connections /\ c.base = conn[k].base /\ c.open = conn[k].open
    BY <1>1 DEF Connections
  <2>2. conn' = [conn EXCEPT ![k] = c]
    BY <1>4 DEF Leave
  <2> QED BY <2>1, <2>2
<1>5. CASE Left(k)
  BY <1>2, <1>5 DEF Left
<1>6. CASE Drop(k)
  <2> DEFINE c == [conn[k] EXCEPT !.open = FALSE]
  <2>1. c \in Connections /\ c.base = conn[k].base /\ ~c.open
    BY <1>1 DEF Connections
  <2>2. conn' = [conn EXCEPT ![k] = c]
    BY <1>6 DEF Drop
  <2> QED BY <2>1, <2>2
<1> QED BY <1>3, <1>4, <1>5, <1>6

LEMMA TypeOutside ==
    ASSUME TypeOK, Outside
    PROVE  TypeOK'
<1>0. BasesTypeOK
  BY DEF TypeOK
<1>1. Past \in Connections
  BY AttachAssumption DEF Past, Connections
<1>2. ASSUME NEW b \in Bases, Other(b) \/ Listen(b) \/ Stage(b) \/ TakeName(b) PROVE BasesTypeOK'
  BY <1>0, <1>2 DEF Other, Listen, Stage, TakeName, BasesTypeOK, idling
<1>3. ASSUME NEW b \in Bases, Compose(b) \/ Count(b) PROVE BasesTypeOK'
  BY <1>0, <1>3 DEF Compose, Count, BasesTypeOK, idling, bases
<1>4. ASSUME NEW b \in Bases, Time(b) PROVE BasesTypeOK'
  BY <1>0, <1>4 DEF Time, BasesTypeOK, bases
<1>5. ASSUME NEW b \in Bases, Ending(b)
      PROVE  /\ base' \in [Bases -> {"none", "starting", "staged", "up", "ending"}]
             /\ holder' \in Bases \cup {None}
             /\ comp' = comp
  BY <1>0, <1>5 DEF Ending, BasesTypeOK
<1>6. ASSUME NEW b \in Bases, Stop(b) PROVE BasesTypeOK'
  <2>1. Ending(b)
    BY <1>6 DEF Stop
  <2> QED BY <1>0, <1>5, <1>6, <2>1 DEF Stop, BasesTypeOK, idling
<1>7. ASSUME NEW b \in Bases, Idle(b) PROVE BasesTypeOK'
  <2>1. Ending(b) \/ UNCHANGED bases
    BY <1>7 DEF Idle
  <2>2. watch' \in [Bases -> {"no", "zero", "raced"}] /\ UNCHANGED <<stamp, rested, conn>>
    BY <1>0, <1>7 DEF Idle, BasesTypeOK
  <2> QED BY <1>0, <1>5, <2>1, <2>2 DEF BasesTypeOK, bases
<1>8. ASSUME NEW b \in Bases, Closed(b)
      PROVE  /\ base' \in [Bases -> {"none", "starting", "staged", "up", "ending"}]
             /\ comp' \in [Bases -> {"starting", "ready", "failed"}]
             /\ stamp' \in [Bases -> {"fresh", "old"}]
             /\ watch' \in [Bases -> {"no", "zero", "raced"}]
             /\ rested' \in [Bases -> BOOLEAN]
             /\ conn' \in [1 .. Conns -> Connections]
  BY <1>0, <1>1, <1>8 DEF Closed, BasesTypeOK
<1>9. ASSUME NEW b \in Bases, Gone(b) \/ Crash(b) PROVE BasesTypeOK'
  <2>1. Closed(b) /\ holder' \in Bases \cup {None}
    BY <1>0, <1>9 DEF Gone, Crash, BasesTypeOK
  <2> QED BY <1>8, <2>1 DEF BasesTypeOK
<1>10. ASSUME NEW k \in 1 .. Conns, Join(k) \/ Leave(k) \/ Left(k) \/ Drop(k) PROVE BasesTypeOK'
  <2>1. conn[k] \in Connections
    BY <1>0 DEF BasesTypeOK
  <2>2. UNCHANGED bases
    BY <1>10 DEF Join, Leave, Left, Drop
  <2>3. conn' \in [1 .. Conns -> Connections]
    BY <1>0, <1>10, ConnMoves DEF BasesTypeOK
  <2>4. stamp' \in [Bases -> {"fresh", "old"}] /\ rested' \in [Bases -> BOOLEAN]
    BY <1>0, <1>10 DEF Join, Leave, Left, Drop, BasesTypeOK, idling
  <2>5. watch' \in [Bases -> {"no", "zero", "raced"}]
    BY <1>0, <1>10 DEF Join, Leave, Left, Drop, BasesTypeOK, idling
  <2> QED BY <1>0, <2>2, <2>3, <2>4, <2>5 DEF BasesTypeOK, bases
<1>11. BasesTypeOK'
  BY <1>2, <1>3, <1>4, <1>6, <1>7, <1>9, <1>10 DEF Outside, BaseStep, Meddle, ConnStep
<1> QED BY <1>11, OutsideUnchanged DEF TypeOK, LinesTypeOK, OutputTypeOK, attaching, lines, output

(* A connection is made once, and one that closed never opens again.       *)
Ages ==
    \A k \in 1 .. Conns : Used(k) => Used(k)' /\ (conn'[k].open => conn[k].open)

LEMMA AgesOutside ==
    ASSUME TypeOK, Outside
    PROVE  Ages
<1> USE DEF Ages, Used
<1>1. conn \in [1 .. Conns -> Connections] /\ Past.base # None /\ ~Past.open
  BY AttachAssumption DEF Past, TypeOK, BasesTypeOK
<1>2. ASSUME NEW b \in Bases, BaseStep(b) \/ Meddle(b)
      PROVE  conn' = conn \/ Closed(b)
  BY <1>2 DEF BaseStep, Meddle, Other, Listen, Stage, TakeName, Compose, Count, Time, Idle,
              Stop, Gone, Crash
<1>3. ASSUME NEW b \in Bases, Closed(b) PROVE Ages
  BY <1>1, <1>3 DEF Closed
<1>4. ASSUME NEW k \in 1 .. Conns, Join(k) \/ Leave(k) \/ Left(k) \/ Drop(k) PROVE Ages
  BY <1>1, <1>4, ConnMoves
<1> QED BY <1>2, <1>3, <1>4 DEF Outside, ConnStep

(* The sends of a line stay right while connections age.                   *)
LEMMA SendsAge ==
    ASSUME TypeOK, SendsInv, Ages, UNCHANGED <<stage, peer>>,
           \A l \in Lines : /\ Len(sends'[l]) = Len(sends[l])
                           /\ \A i \in 1 .. Len(sends[l]) : sends'[l][i].to = sends[l][i].to
    PROVE  SendsInv'
<1> SUFFICES ASSUME NEW l \in Lines PROVE SendsOK(l)'
  BY DEF SendsInv
<1>1. \A i \in 1 .. Len(sends[l]) : sends[l][i].to \in 1 .. Conns /\ Used(sends[l][i].to)
  <2>1. sends[l] \in Seq(Sending)
    BY DEF TypeOK, LinesTypeOK
  <2>2. \A i \in 1 .. Len(sends[l]) : sends[l][i] \in Sending
    BY <2>1, ElementOfSeq
  <2> QED BY <2>2 DEF Sending, SendsInv, SendsOK
<1>2. Len(sends[l]) \in Nat
  BY LenProperties DEF TypeOK, LinesTypeOK
<1>3. \A i \in 1 .. Len(sends[l]) : Used(sends[l][i].to)' /\ (conn'[sends[l][i].to].open => conn[sends[l][i].to].open)
  BY <1>1 DEF Ages
<1> QED BY <1>1, <1>2, <1>3 DEF SendsInv, SendsOK, Used

(* The clock of a base, whoever joins, leaves or stops it.                 *)
LEMMA IdleOutside ==
    ASSUME TypeOK, IdleInv, Outside
    PROVE  IdleInv'
<1> USE DEF IdleInv, Joined, Of
<1>0. /\ watch \in [Bases -> {"no", "zero", "raced"}] /\ stamp \in [Bases -> {"fresh", "old"}]
      /\ rested \in [Bases -> BOOLEAN] /\ conn \in [1 .. Conns -> Connections]
  BY DEF TypeOK, BasesTypeOK
<1>1. ASSUME UNCHANGED <<idling, conn>> PROVE IdleInv'
  BY <1>1 DEF idling
<1>2. ASSUME NEW b \in Bases,
             Other(b) \/ Listen(b) \/ Stage(b) \/ TakeName(b) \/ Compose(b) \/ Stop(b)
      PROVE  IdleInv'
  BY <1>1, <1>2 DEF Other, Listen, Stage, TakeName, Compose, Stop
<1>3. ASSUME NEW b \in Bases, Count(b) PROVE IdleInv'
  <2>1. ~Joined(b)
    BY <1>3, NoClients DEF Count
  <2> QED BY <1>0, <1>3, <2>1 DEF Count
<1>4. ASSUME NEW b \in Bases, Idle(b) PROVE IdleInv'
  BY <1>0, <1>4 DEF Idle
<1>5. ASSUME NEW b \in Bases, Time(b) PROVE IdleInv'
  <2>1. rested'[b] <=> ~Joined(b)
    BY <1>0, <1>5, NoClients DEF Time
  <2>2. /\ UNCHANGED <<watch, conn>>
        /\ \A c \in Bases \ {b} : rested'[c] = rested[c] /\ stamp'[c] = stamp[c]
    BY <1>0, <1>5 DEF Time
  <2> QED BY <2>1, <2>2
<1>6. ASSUME NEW b \in Bases, Closed(b) PROVE IdleInv'
  <2>1. Past.seat = "left"
    BY DEF Past
  <2>2. watch'[b] = "no" /\ stamp'[b] = "fresh" /\ ~rested'[b]
    BY <1>0, <1>6 DEF Closed
  <2>3. ASSUME NEW c \in Bases \ {b}
        PROVE  /\ watch'[c] = watch[c] /\ stamp'[c] = stamp[c] /\ rested'[c] = rested[c]
               /\ Joined(c)' => Joined(c)
               /\ Joined(c) => Joined(c)'
               /\ (\E k \in Of(c) : conn[k].seat = "leaving") => (\E k \in Of(c) : conn[k].seat = "leaving")'
    BY <1>0, <1>6, <2>1 DEF Closed
  <2> QED BY <2>2, <2>3
<1>7. ASSUME NEW b \in Bases, Gone(b) \/ Crash(b) PROVE IdleInv'
  BY <1>6, <1>7 DEF Gone, Crash
<1>8. ASSUME NEW k \in 1 .. Conns, Join(k) PROVE IdleInv'
  <2>1. conn[k] \in Connections
    BY <1>0
  <2>2. /\ conn'[k].base = conn[k].base /\ conn'[k].seat = "in" /\ conn[k].seat = "new"
        /\ \A j \in 1 .. Conns \ {k} : conn'[j] = conn[j]
        /\ stamp' = stamp
    BY <1>0, <1>8, <2>1 DEF Join, Connections
  <2>3. ASSUME NEW b \in Bases, b = conn[k].base
        PROVE  watch'[b] # "zero" /\ ~rested'[b] /\ Joined(b)'
    BY <1>0, <1>8, <2>2, <2>3 DEF Join
  <2>4. ASSUME NEW b \in Bases, b # conn[k].base
        PROVE  /\ watch'[b] = watch[b] /\ rested'[b] = rested[b]
               /\ Joined(b)' <=> Joined(b)
               /\ (\E j \in Of(b) : conn[j].seat = "leaving") => (\E j \in Of(b) : conn[j].seat = "leaving")'
    BY <1>0, <1>8, <2>2, <2>4 DEF Join
  <2> QED BY <2>2, <2>3, <2>4
<1>9. ASSUME NEW k \in 1 .. Conns, Leave(k) PROVE IdleInv'
  <2>1. conn[k] \in Connections
    BY <1>0
  <2>2. /\ conn'[k].base = conn[k].base /\ conn'[k].seat = "leaving" /\ conn[k].seat = "in"
        /\ \A j \in 1 .. Conns \ {k} : conn'[j] = conn[j]
        /\ UNCHANGED <<stamp, watch>>
    BY <1>0, <1>9, <2>1 DEF Leave, Connections
  <2>3. ASSUME NEW b \in Bases, b = conn[k].base
        PROVE  /\ watch[b] # "zero" /\ ~rested'[b]
               /\ (\E j \in Of(b) : conn[j].seat = "leaving")'
    BY <1>0, <1>9, <2>2, <2>3 DEF Leave
  <2>4. ASSUME NEW b \in Bases, b # conn[k].base
        PROVE  /\ rested'[b] = rested[b]
               /\ Joined(b)' <=> Joined(b)
               /\ (\E j \in Of(b) : conn[j].seat = "leaving") => (\E j \in Of(b) : conn[j].seat = "leaving")'
    BY <1>0, <1>9, <2>2, <2>4 DEF Leave
  <2> QED BY <2>2, <2>3, <2>4
<1>10. ASSUME NEW k \in 1 .. Conns, Left(k) PROVE IdleInv'
  <2>1. /\ conn'[k].seat = "left" /\ conn[k].seat = "leaving"
        /\ \A j \in 1 .. Conns \ {k} : conn'[j] = conn[j]
        /\ UNCHANGED <<rested, watch>>
    BY <1>0, <1>10 DEF Left, Past
  <2>2. \A b \in Bases : Joined(b)' <=> Joined(b)
    BY <2>1
  <2>3. ASSUME NEW b \in Bases, b = conn[k].base PROVE stamp'[b] = "fresh"
    BY <1>0, <1>10, <2>3 DEF Left
  <2>4. ASSUME NEW b \in Bases, b # conn[k].base
        PROVE  /\ stamp'[b] = stamp[b]
               /\ (\E j \in Of(b) : conn[j].seat = "leaving") => (\E j \in Of(b) : conn[j].seat = "leaving")'
    BY <1>0, <1>10, <2>1, <2>4 DEF Left
  <2> QED BY <2>1, <2>2, <2>3, <2>4
<1>11. ASSUME NEW k \in 1 .. Conns, Drop(k) PROVE IdleInv'
  <2>1. conn[k] \in Connections
    BY <1>0
  <2>2. /\ \A j \in 1 .. Conns : conn'[j].base = conn[j].base /\ conn'[j].seat = conn[j].seat
        /\ UNCHANGED <<stamp, rested, watch>>
    BY <1>0, <1>11, <2>1 DEF Drop, Connections, idling
  <2> QED BY <2>2
<1> QED BY <1>2, <1>3, <1>4, <1>5, <1>7, <1>8, <1>9, <1>10, <1>11
        DEF Outside, BaseStep, Meddle, ConnStep

(* Why a base that stops by itself may.                                    *)
LEMMA IdleStopCause ==
    ASSUME TypeOK, IdleInv, Next, NEW b \in Bases, IdleStop(b)
    PROVE  \/ rested[b]
           \/ watch[b] = "raced"
           \/ \E k \in Of(b) : conn[k].seat = "leaving"
<1>0. watch \in [Bases -> {"no", "zero", "raced"}] /\ base \in [Bases -> {"none", "starting", "staged", "up", "ending"}]
  BY DEF TypeOK, BasesTypeOK
<1>1. watch'[b] # watch[b] /\ watch'[b] = "no" /\ base'[b] = "ending"
  BY DEF IdleStop
<1>2. ASSUME NEW c \in Bases, BaseStep(c) \/ Meddle(c) PROVE c = b /\ Idle(b)
  <2>1. CASE watch' = watch
    BY <1>1, <2>1
  <2>2. CASE Count(c)
    BY <1>0, <1>1, <2>2 DEF Count
  <2>3. CASE Closed(c)
    BY <1>0, <1>1, <2>3 DEF Closed
  <2>4. CASE Idle(c)
    BY <1>0, <1>1, <2>4 DEF Idle
  <2> QED BY <1>2, <2>1, <2>2, <2>3, <2>4
          DEF BaseStep, Meddle, Other, Listen, Stage, TakeName, Compose, Time, Stop, Gone, Crash, idling
<1>3. ASSUME NEW k \in 1 .. Conns, ConnStep(k) \/ Drop(k) PROVE FALSE
  BY <1>0, <1>1, <1>3 DEF ConnStep, Join, Leave, Left, Drop, idling
<1>4. ASSUME NEW l \in Lines, Read(l) \/ Deliver(l) \/ Finish(l) \/ LineStep(l) PROVE FALSE
  <2>1. UNCHANGED idling
    BY <1>4 DEF Read, Deliver, Finish, LineStep, Send, Fails, Returns, Ended, Again, Found, Start,
                GiveUp, Reload, HandBack, Reply
  <2> QED BY <1>1, <2>1 DEF idling
<1>5. ASSUME Write \/ Break \/ Exit PROVE FALSE
  BY <1>1, <1>5 DEF Write, Break, Exit, Leaves, idling
<1>6. Idle(b)
  BY <1>2, <1>3, <1>4, <1>5 DEF Next
<1>7. stamp[b] = "old" /\ watch[b] # "no"
  BY <1>0, <1>1, <1>6 DEF Idle, bases, TypeOK, BasesTypeOK
<1> QED BY <1>0, <1>7 DEF IdleInv

-----------------------------------------------------------------------------
(* A line asks over a connection.                                          *)
LEMMA BailProperties ==
    ASSUME TypeOK, NEW l \in Lines, NEW k \in 1 .. Conns, NEW sent \in Stages, NEW lost \in Stages,
           Bail(l, k, sent, lost)
    PROVE  /\ peer' \in [Lines -> 0 .. Conns] /\ stage' \in [Lines -> Stages]
           /\ sends' \in [Lines -> Seq(Sending)]
           /\ peer'[l] = k
           /\ \A m \in Lines \ {l} : peer'[m] = peer[m] /\ stage'[m] = stage[m] /\ sends'[m] = sends[m]
           /\ conn[k].open =>
                 /\ stage'[l] = sent
                 /\ Len(sends'[l]) = Len(sends[l]) + 1
                 /\ \A i \in 1 .. Len(sends[l]) : sends'[l][i] = sends[l][i]
                 /\ sends'[l][Len(sends[l]) + 1].to = k
           /\ ~conn[k].open => stage'[l] = lost /\ sends'[l] = sends[l]
<1> DEFINE r == [to |-> k, state |-> "sent"]
<1>1. /\ peer \in [Lines -> 0 .. Conns] /\ stage \in [Lines -> Stages]
      /\ sends \in [Lines -> Seq(Sending)] /\ sends[l] \in Seq(Sending)
  BY DEF TypeOK, LinesTypeOK
<1>2. r \in Sending /\ r.to = k
  BY DEF Sending
<1> HIDE DEF r
<1>3. /\ Append(sends[l], r) \in Seq(Sending) /\ Len(sends[l]) \in Nat
      /\ Len(Append(sends[l], r)) = Len(sends[l]) + 1
      /\ \A i \in 1 .. Len(sends[l]) : Append(sends[l], r)[i] = sends[l][i]
      /\ Append(sends[l], r)[Len(sends[l]) + 1] = r
  BY <1>1, <1>2, Appended
<1>4. peer' = [peer EXCEPT ![l] = k] /\ k \in 0 .. Conns
  BY AttachAssumption DEF Bail
<1>5. CASE conn[k].open
  <2>1. sends' = [sends EXCEPT ![l] = Append(sends[l], r)] /\ stage' = [stage EXCEPT ![l] = sent]
    BY <1>1, <1>5 DEF Bail, r
  <2> QED BY <1>1, <1>2, <1>3, <1>4, <1>5, <2>1
<1>6. CASE ~conn[k].open
  <2>1. sends' = sends /\ stage' = [stage EXCEPT ![l] = lost]
    BY <1>6 DEF Bail
  <2> QED BY <1>1, <1>4, <1>6, <2>1
<1> QED BY <1>5, <1>6

(* What a line must be, however its last step left it, once the others     *)
(* are as they were.                                                       *)
LEMMA SendsOne ==
    ASSUME TypeOK, SendsInv, NEW l \in Lines, Ages, SendsOK(l)',
           \A m \in Lines \ {l} : /\ peer'[m] = peer[m] /\ stage'[m] = stage[m]
                                 /\ sends'[m] = sends[m]
    PROVE  SendsInv'
<1> SUFFICES ASSUME NEW m \in Lines \ {l} PROVE SendsOK(m)'
  BY DEF SendsInv
<1>1. sends[m] \in Seq(Sending) /\ Len(sends[m]) \in Nat
  BY LenProperties DEF TypeOK, LinesTypeOK
<1>2. \A i \in 1 .. Len(sends[m]) : sends[m][i].to \in 1 .. Conns /\ Used(sends[m][i].to)
  <2>1. \A i \in 1 .. Len(sends[m]) : sends[m][i] \in Sending
    BY <1>1, ElementOfSeq
  <2> QED BY <2>1 DEF Sending, SendsInv, SendsOK
<1>3. \A i \in 1 .. Len(sends[m]) : Used(sends[m][i].to)' /\ (conn'[sends[m][i].to].open => conn[sends[m][i].to].open)
  BY <1>2 DEF Ages
<1>4. SendsOK(m)
  BY DEF SendsInv
<1> QED BY <1>1, <1>2, <1>3, <1>4 DEF SendsOK, Used

(* The clocks see nothing of a step of the bridge, not even a connection   *)
(* that is made.                                                           *)
LEMMA IdleInside ==
    ASSUME TypeOK, IdleInv, UNCHANGED idling,
           \/ \A k \in 1 .. Conns : conn'[k].base = conn[k].base /\ conn'[k].seat = conn[k].seat
           \/ \E k \in 1 .. Conns : /\ ~Used(k) /\ conn'[k].seat = "new"
                                   /\ \A j \in 1 .. Conns \ {k} : conn'[j] = conn[j]
    PROVE  IdleInv'
<1>1. None \notin Bases
  BY AttachAssumption
<1>2. ASSUME NEW b \in Bases
      PROVE  /\ Joined(b)' <=> Joined(b)
             /\ (\E k \in Of(b) : conn[k].seat = "leaving") => (\E k \in Of(b) : conn[k].seat = "leaving")'
  BY <1>1 DEF Joined, Of, Used
<1> QED BY <1>2 DEF IdleInv, idling

(* The output and the lock see of a step of a line only its stage.         *)
LEMMA OutputStage ==
    ASSUME TypeOK, OutputInv, NEW l \in Lines, stage[l] # "ended", bridge = "reading",
           UNCHANGED output, \A m \in Lines \ {l} : stage'[m] = stage[m],
           stage'[l] = "replying" => l \in Requests, stage'[l] = "ended" => l \notin Requests
    PROVE  OutputInv'
<1>1. /\ \A i \in 1 .. Len(replies) : replies[i] \in Lines
      /\ \A i \in 1 .. Len(written) : written[i] \in Lines
  BY ElementOfSeq DEF TypeOK, OutputTypeOK
<1>2. Requests \subseteq Lines
  BY AttachAssumption
<1> QED BY <1>1, <1>2 DEF OutputInv, output

LEMMA AttachStage ==
    ASSUME TypeOK, AttachInv, Ages, NEW l \in Lines, UNCHANGED attaching,
           \A m \in Lines \ {l} : stage'[m] = stage[m],
           stage'[l] \notin {"attaching", "settling"} \/ stage'[l] = stage[l]
    PROVE  AttachInv'
<1>1. attached \in 1 .. Conns
  BY DEF TypeOK, LinesTypeOK
<1> QED BY <1>1 DEF AttachInv, Ages, attaching

(* A line of a step of its own is neither unread nor over, so the bridge   *)
(* has not left.                                                           *)
LEMMA Busy ==
    ASSUME OutputInv, TypeOK, NEW l \in Lines, stage[l] \notin {"unread", "ended"}
    PROVE  bridge = "reading"
  BY DEF OutputInv, TypeOK, OutputTypeOK

LEMMA ReadStep ==
    ASSUME TypeOK, IInv, NEW l \in Lines, Read(l)
    PROVE  TypeOK' /\ IInv'
<1>1. /\ UNCHANGED <<bases, idling, conn, attaching, peer, sends, output, faults>>
      /\ stage' = [stage EXCEPT ![l] = "read"] /\ stage[l] = "unread" /\ bridge = "reading"
      /\ stage \in [Lines -> Stages]
  BY DEF Read, TypeOK, LinesTypeOK
<1>2. /\ stage' \in [Lines -> Stages] /\ stage'[l] = "read"
      /\ \A m \in Lines \ {l} : stage'[m] = stage[m]
  BY <1>1 DEF Stages
<1>3. TypeOK'
  BY <1>1, <1>2 DEF TypeOK, BasesTypeOK, LinesTypeOK, OutputTypeOK, bases, idling, attaching, output
<1>4. Ages
  BY <1>1 DEF Ages, Used
<1>5. SendsOK(l)'
  BY <1>1, <1>2 DEF IInv, SendsInv, SendsOK, Used
<1>6. SendsInv'
  BY <1>1, <1>2, <1>4, <1>5, SendsOne DEF IInv
<1>7. AttachInv'
  BY <1>1, <1>2, <1>4, AttachStage DEF IInv
<1>8. OutputInv'
  BY <1>1, <1>2, OutputStage DEF IInv
<1>9. IdleInv'
  BY <1>1, IdleInside DEF IInv
<1> QED BY <1>3, <1>6, <1>7, <1>8, <1>9 DEF IInv

LEMMA AtBaseStep ==
    ASSUME TypeOK, IInv, NEW l \in Lines, Deliver(l) \/ Finish(l)
    PROVE  TypeOK' /\ IInv'
<1>1. /\ UNCHANGED <<bases, idling, conn, attaching, stage, peer, output, faults>>
      /\ sends[l] # <<>>
      /\ Becomes(l, "running") \/ Becomes(l, "ran") \/ Becomes(l, "refused")
  BY DEF Deliver, Finish
<1>2. Len(sends[l]) >= 1
  BY <1>1, EmptySeq DEF TypeOK, LinesTypeOK
<1>3. /\ sends' \in [Lines -> Seq(Sending)]
      /\ \A m \in Lines : /\ Len(sends'[m]) = Len(sends[m])
                          /\ \A i \in 1 .. Len(sends[m]) : sends'[m][i].to = sends[m][i].to
  BY <1>1, <1>2, BecomesProperties
<1>4. TypeOK'
  BY <1>1, <1>3 DEF TypeOK, BasesTypeOK, LinesTypeOK, OutputTypeOK, bases, idling, attaching, output
<1>5. Ages
  BY <1>1 DEF Ages, Used
<1>6. SendsInv'
  BY <1>1, <1>3, <1>5, SendsAge DEF IInv
<1>7. AttachInv' /\ OutputInv'
  BY <1>1 DEF IInv, AttachInv, OutputInv, attaching, output, Used
<1>8. IdleInv'
  BY <1>1, IdleInside DEF IInv
<1> QED BY <1>4, <1>6, <1>7, <1>8 DEF IInv

LEMMA SendStep ==
    ASSUME TypeOK, IInv, NEW l \in Lines, Send(l)
    PROVE  TypeOK' /\ IInv'
<1>1. /\ UNCHANGED <<bases, idling, conn, attaching, output, faults>>
      /\ stage[l] = "read" /\ Bail(l, attached, "sent", "again")
      /\ attached \in 1 .. Conns
  BY DEF Send, TypeOK, LinesTypeOK
<1>2. /\ peer' \in [Lines -> 0 .. Conns] /\ stage' \in [Lines -> Stages]
      /\ sends' \in [Lines -> Seq(Sending)]
      /\ peer'[l] = attached
      /\ \A m \in Lines \ {l} : peer'[m] = peer[m] /\ stage'[m] = stage[m] /\ sends'[m] = sends[m]
      /\ conn[attached].open =>
            /\ stage'[l] = "sent"
            /\ Len(sends'[l]) = Len(sends[l]) + 1
            /\ \A i \in 1 .. Len(sends[l]) : sends'[l][i] = sends[l][i]
            /\ sends'[l][Len(sends[l]) + 1].to = attached
      /\ ~conn[attached].open => stage'[l] = "again" /\ sends'[l] = sends[l]
  <2>1. "sent" \in Stages /\ "again" \in Stages
    BY DEF Stages
  <2> QED BY <1>1, <2>1, BailProperties
<1>3. TypeOK'
  BY <1>1, <1>2 DEF TypeOK, BasesTypeOK, LinesTypeOK, OutputTypeOK, bases, idling, attaching, output
<1>4. Ages
  BY <1>1 DEF Ages, Used
<1>5. SendsOK(l)'
  <2>1. Len(sends[l]) = 0 /\ Used(attached)
    BY <1>1 DEF IInv, SendsInv, SendsOK, AttachInv
  <2>2. CASE conn[attached].open
    <3>1. Len(sends'[l]) = 1 /\ sends'[l][1].to = attached
      BY <2>1, <2>2, <1>2
    <3> QED BY <3>1, <2>1, <2>2, <1>1, <1>2 DEF SendsOK, Used
  <2>3. CASE ~conn[attached].open
    BY <2>1, <2>3, <1>1, <1>2 DEF SendsOK, Used
  <2> QED BY <2>2, <2>3
<1>6. SendsInv'
  BY <1>2, <1>4, <1>5, SendsOne DEF IInv
<1>7. stage'[l] \in {"sent", "again"}
  BY <1>2
<1>8. AttachInv'
  BY <1>1, <1>2, <1>4, <1>7, AttachStage DEF IInv
<1>9. OutputInv'
  BY <1>1, <1>2, <1>7, Busy, OutputStage DEF IInv
<1>10. IdleInv'
  BY <1>1, IdleInside DEF IInv
<1> QED BY <1>3, <1>6, <1>8, <1>9, <1>10 DEF IInv

(* A call ends, for good or to be made again over another connection.      *)
LEMMA EndedStep ==
    ASSUME TypeOK, IInv, NEW l \in Lines, Fails(l) \/ Returns(l)
    PROVE  TypeOK' /\ IInv'
<1>1. /\ UNCHANGED <<bases, idling, conn, attaching, peer, output, faults>>
      /\ stage[l] \in {"sent", "resent"} /\ Becomes(l, "over")
      /\ stage' = [stage EXCEPT ![l] = stage'[l]]
      /\ stage'[l] = Answered(l) \/ (stage'[l] = "again" /\ stage[l] = "sent" /\ ~conn[peer[l]].open)
      /\ stage \in [Lines -> Stages]
  <2>1. stage \in [Lines -> Stages]
    BY DEF TypeOK, LinesTypeOK
  <2>2. PICK s : /\ stage' = [stage EXCEPT ![l] = s]
                 /\ s = Answered(l) \/ (s = "again" /\ stage[l] = "sent" /\ ~conn[peer[l]].open)
    BY DEF Fails, Returns, Ended
  <2> QED BY <2>1, <2>2 DEF Fails, Returns, Ended, Waits
<1>2. Answered(l) \in {"replying", "ended"} /\ (Answered(l) = "replying" <=> l \in Requests)
  BY DEF Answered
<1>3. /\ stage' \in [Lines -> Stages]
      /\ \A m \in Lines \ {l} : stage'[m] = stage[m]
  BY <1>1, <1>2 DEF Stages
<1>4. Len(sends[l]) >= 1
  BY <1>1 DEF IInv, SendsInv, SendsOK
<1>5. /\ sends' \in [Lines -> Seq(Sending)]
      /\ \A m \in Lines : /\ Len(sends'[m]) = Len(sends[m])
                          /\ \A i \in 1 .. Len(sends[m]) : sends'[m][i].to = sends[m][i].to
  BY <1>1, <1>4, BecomesProperties
<1>6. TypeOK'
  BY <1>1, <1>3, <1>5 DEF TypeOK, BasesTypeOK, LinesTypeOK, OutputTypeOK, bases, idling, attaching, output
<1>7. Ages
  BY <1>1 DEF Ages, Used
<1>8. SendsInv'
  <2> SUFFICES ASSUME NEW m \in Lines PROVE SendsOK(m)'
    BY DEF SendsInv
  <2>1. SendsOK(m) /\ Len(sends[m]) \in Nat
    BY LenProperties DEF IInv, SendsInv, TypeOK, LinesTypeOK
  <2>2. m # l => stage'[m] = stage[m]
    BY <1>3
  <2>3. m = l => stage'[m] \in {"replying", "ended"} \/ (stage'[m] = "again" /\ stage[m] = "sent" /\ ~conn[peer[m]].open)
    BY <1>1, <1>2
  <2> QED BY <2>1, <2>2, <2>3, <1>1, <1>5 DEF SendsOK, Used
<1>9. AttachInv'
  BY <1>1, <1>2, <1>3, <1>7, AttachStage DEF IInv
<1>10. OutputInv'
  BY <1>1, <1>2, <1>3, Busy, OutputStage DEF IInv
<1>11. IdleInv'
  BY <1>1, IdleInside DEF IInv
<1> QED BY <1>6, <1>8, <1>9, <1>10, <1>11 DEF IInv

(* A message is sent again over a connection that is open, so not over the *)
(* one of the first time.                                                  *)
LEMMA BailAgain ==
    ASSUME TypeOK, IInv, NEW l \in Lines, NEW k \in 1 .. Conns, Used(k), UNCHANGED conn,
           stage[l] \in {"again", "settling"}, Bail(l, k, "resent", Answered(l))
    PROVE  /\ peer' \in [Lines -> 0 .. Conns] /\ stage' \in [Lines -> Stages]
           /\ sends' \in [Lines -> Seq(Sending)]
           /\ \A m \in Lines \ {l} : stage'[m] = stage[m]
           /\ stage'[l] = "resent" \/ stage'[l] = Answered(l)
           /\ SendsInv'
<1>1. "resent" \in Stages /\ Answered(l) \in Stages /\ Answered(l) \in {"replying", "ended"}
  BY DEF Stages, Answered
<1>2. /\ peer' \in [Lines -> 0 .. Conns] /\ stage' \in [Lines -> Stages]
      /\ sends' \in [Lines -> Seq(Sending)]
      /\ \A m \in Lines \ {l} : peer'[m] = peer[m] /\ stage'[m] = stage[m] /\ sends'[m] = sends[m]
      /\ conn[k].open =>
            /\ stage'[l] = "resent"
            /\ Len(sends'[l]) = Len(sends[l]) + 1
            /\ \A i \in 1 .. Len(sends[l]) : sends'[l][i] = sends[l][i]
            /\ sends'[l][Len(sends[l]) + 1].to = k
      /\ ~conn[k].open => stage'[l] = Answered(l) /\ sends'[l] = sends[l]
  BY <1>1, BailProperties
<1>3. Ages
  BY DEF Ages, Used
<1>4. /\ Len(sends[l]) \in Nat /\ Len(sends[l]) <= 1
      /\ Len(sends[l]) = 0 \/ Len(sends[l]) = 1
      /\ Len(sends[l]) = 1 => ~conn[sends[l][1].to].open /\ Used(sends[l][1].to)
      /\ \A i \in 1 .. Len(sends[l]) : Used(sends[l][i].to)
  <2>1. Len(sends[l]) \in Nat
    BY LenProperties DEF TypeOK, LinesTypeOK
  <2>2. SendsOK(l)
    BY DEF IInv, SendsInv
  <2>3. Len(sends[l]) <= 1 /\ (Len(sends[l]) = 1 => ~conn[sends[l][1].to].open)
    BY <2>2 DEF SendsOK
  <2>4. \A i \in 1 .. Len(sends[l]) : Used(sends[l][i].to)
    BY <2>2 DEF SendsOK
  <2>5. Len(sends[l]) = 0 \/ Len(sends[l]) = 1
    <3>1. Len(sends[l]) <= 1
      BY <2>2 DEF SendsOK
    <3>2. \A n \in Nat : n <= 1 => n = 0 \/ n = 1
      OBVIOUS
    <3> QED BY <2>1, <3>1, <3>2, Zenon
  <2>6. Len(sends[l]) = 1 => Used(sends[l][1].to)
    BY <2>4
  <2> QED BY <2>1, <2>3, <2>4, <2>5, <2>6
<1>5. SendsOK(l)'
  <2>1. CASE ~conn[k].open
    BY <1>1, <1>2, <1>4, <2>1 DEF SendsOK, Used
  <2>2. CASE conn[k].open /\ Len(sends[l]) = 0
    <3>1. Len(sends'[l]) = 1 /\ sends'[l][1].to = k
      BY <1>2, <2>2
    <3> QED BY <3>1, <1>2, <2>2 DEF SendsOK, Used
  <2>3. CASE conn[k].open /\ Len(sends[l]) = 1
    <3>1. Len(sends'[l]) = 2 /\ sends'[l][1] = sends[l][1] /\ sends'[l][2].to = k
      BY <1>2, <2>3
    <3>2. sends[l][1].to # k
      BY <1>4, <2>3
    <3> QED BY <3>1, <3>2, <1>2, <1>4, <2>3 DEF SendsOK, Used
  <2> QED BY <1>4, <2>1, <2>2, <2>3
<1>6. SendsInv'
  BY <1>2, <1>3, <1>5, SendsOne DEF IInv
<1> QED BY <1>2, <1>6

LEMMA AgainStep ==
    ASSUME TypeOK, IInv, NEW l \in Lines, Again(l)
    PROVE  TypeOK' /\ IInv'
<1>1. /\ UNCHANGED <<bases, idling, conn, output, faults>>
      /\ stage[l] = "again" /\ lock = None
      /\ attached \in 1 .. Conns /\ Used(attached)
  BY DEF Again, TypeOK, LinesTypeOK, IInv, AttachInv
<1>2. Ages
  BY <1>1 DEF Ages, Used
<1>3. IdleInv'
  BY <1>1, IdleInside DEF IInv
<1>4. Answered(l) \in {"replying", "ended"} /\ (Answered(l) = "replying" <=> l \in Requests)
  BY DEF Answered
<1>5. bridge = "reading"
  BY <1>1, Busy DEF IInv
<1>6. CASE conn[attached].open
  <2>1. Bail(l, attached, "resent", Answered(l)) /\ UNCHANGED attaching
    BY <1>6 DEF Again
  <2>2. /\ peer' \in [Lines -> 0 .. Conns] /\ stage' \in [Lines -> Stages]
        /\ sends' \in [Lines -> Seq(Sending)]
        /\ \A m \in Lines \ {l} : stage'[m] = stage[m]
        /\ stage'[l] = "resent" \/ stage'[l] = Answered(l)
        /\ SendsInv'
    BY <1>1, <2>1, BailAgain
  <2>3. TypeOK'
    BY <1>1, <2>1, <2>2 DEF TypeOK, BasesTypeOK, LinesTypeOK, OutputTypeOK, bases, idling, attaching, output
  <2>4. AttachInv'
    BY <1>2, <1>4, <2>1, <2>2, AttachStage DEF IInv
  <2>5. OutputInv'
    BY <1>1, <1>4, <1>5, <2>2, OutputStage DEF IInv
  <2> QED BY <1>3, <2>2, <2>3, <2>4, <2>5 DEF IInv
<1>7. CASE ~conn[attached].open
  <2>1. /\ lock' = l /\ stage' = [stage EXCEPT ![l] = "attaching"]
        /\ UNCHANGED <<attached, poll, peer, sends>>
    BY <1>7 DEF Again
  <2>2. /\ stage' \in [Lines -> Stages] /\ stage'[l] = "attaching"
        /\ \A m \in Lines \ {l} : stage'[m] = stage[m]
    BY <2>1 DEF TypeOK, LinesTypeOK, Stages
  <2>3. TypeOK'
    BY <1>1, <2>1, <2>2 DEF TypeOK, BasesTypeOK, LinesTypeOK, OutputTypeOK, bases, idling, attaching, output
  <2>4. SendsOK(l)'
    BY <1>1, <2>1, <2>2 DEF IInv, SendsInv, SendsOK, Used
  <2>5. SendsInv'
    BY <1>2, <2>1, <2>2, <2>4, SendsOne DEF IInv
  <2>6. AttachInv'
    <3>1. \A m \in Lines : stage[m] \notin {"attaching", "settling"}
      BY <1>1, AttachAssumption DEF IInv, AttachInv
    <3> QED BY <3>1, <1>1, <2>1, <2>2 DEF AttachInv, Used
  <2>7. OutputInv'
    BY <1>1, <1>5, <2>2, OutputStage DEF IInv
  <2> QED BY <1>3, <2>3, <2>5, <2>6, <2>7 DEF IInv
<1> QED BY <1>6, <1>7

LEMMA FoundStep ==
    ASSUME TypeOK, IInv, NEW l \in Lines, Found(l)
    PROVE  TypeOK' /\ IInv'
<1>1. /\ UNCHANGED <<bases, idling, attached, lock, peer, sends, output, faults>>
      /\ stage[l] = "attaching" /\ stage' = [stage EXCEPT ![l] = "settling"]
      /\ holder \in Bases /\ holder # None
      /\ conn \in [1 .. Conns -> Connections]
      /\ poll \in [spawned : BOOLEAN, reloaded : BOOLEAN, found : 0 .. Conns]
      /\ lock = l
  BY DEF Found, TypeOK, LinesTypeOK, BasesTypeOK, IInv, AttachInv
<1>2. PICK k \in 1 .. Conns :
         /\ ~Used(k)
         /\ conn' = [conn EXCEPT ![k] = [base |-> holder, open |-> TRUE, seat |-> "new"]]
         /\ poll' = [poll EXCEPT !.found = k]
  BY DEF Found, Used
<1>3. /\ stage' \in [Lines -> Stages] /\ stage'[l] = "settling"
      /\ \A m \in Lines \ {l} : stage'[m] = stage[m]
  BY <1>1 DEF TypeOK, LinesTypeOK, Stages
<1>4. [base |-> holder, open |-> TRUE, seat |-> "new"] \in Connections
  BY <1>1 DEF Connections
<1>5. /\ conn' \in [1 .. Conns -> Connections] /\ Used(k)' /\ conn'[k].seat = "new"
      /\ \A j \in 1 .. Conns \ {k} : conn'[j] = conn[j]
  BY <1>1, <1>2, <1>4 DEF Used
<1>6. poll' \in [spawned : BOOLEAN, reloaded : BOOLEAN, found : 0 .. Conns] /\ poll'.found = k
  <2>1. k \in 0 .. Conns
    BY AttachAssumption
  <2> QED BY <1>1, <1>2, <2>1
<1>7. TypeOK'
  BY <1>1, <1>3, <1>5, <1>6 DEF TypeOK, BasesTypeOK, LinesTypeOK, OutputTypeOK, bases, idling, output
<1>8. Ages
  BY <1>2, <1>5 DEF Ages, Used
<1>9. SendsInv'
  <2>1. \A i \in 1 .. Len(sends[l]) : sends[l][i].to \in 1 .. Conns
    <3>1. sends[l] \in Seq(Sending)
      BY DEF TypeOK, LinesTypeOK
    <3>2. \A i \in 1 .. Len(sends[l]) : sends[l][i] \in Sending
      BY <3>1, ElementOfSeq
    <3> QED BY <3>2 DEF Sending
  <2>2. SendsOK(l) /\ Len(sends[l]) \in Nat
    BY LenProperties DEF IInv, SendsInv, TypeOK, LinesTypeOK
  <2>3. SendsOK(l)'
    BY <1>1, <1>3, <1>8, <2>1, <2>2 DEF SendsOK, Ages
  <2> QED BY <1>1, <1>3, <1>8, <2>3, SendsOne DEF IInv
<1>10. AttachInv'
  <2>1. Used(attached)'
    <3>1. attached \in 1 .. Conns /\ Used(attached) /\ attached' = attached
      BY <1>1 DEF IInv, AttachInv, TypeOK, LinesTypeOK
    <3> QED BY <3>1, <1>8 DEF Ages, Used
  <2>2. \A m \in Lines : stage'[m] \in {"attaching", "settling"} => m = l
    BY <1>1, <1>3 DEF IInv, AttachInv
  <2> QED BY <2>1, <2>2, <1>1, <1>3, <1>5, <1>6 DEF AttachInv, Used
<1>11. OutputInv'
  BY <1>1, <1>3, Busy, OutputStage DEF IInv
<1>12. IdleInv'
  BY <1>1, <1>2, <1>5, IdleInside DEF IInv
<1> QED BY <1>7, <1>9, <1>10, <1>11, <1>12 DEF IInv

(* The attach starts a base, or has one reload.                            *)
LEMMA StartStep ==
    ASSUME TypeOK, IInv, NEW l \in Lines, Start(l) \/ Reload(l)
    PROVE  TypeOK' /\ IInv'
<1>1. UNCHANGED <<idling, conn, attached, lock, lines, output, faults>>
  BY DEF Start, Reload
<1>2. base' \in [Bases -> {"none", "starting", "staged", "up", "ending"}] /\ holder' = holder
  BY DEF Start, Reload, TypeOK, BasesTypeOK
<1>3. comp' \in [Bases -> {"starting", "ready", "failed"}]
  BY DEF Start, Reload, TypeOK, BasesTypeOK
<1>4. poll' \in [spawned : BOOLEAN, reloaded : BOOLEAN, found : 0 .. Conns] /\ poll'.found = poll.found
  BY DEF Start, Reload, TypeOK, LinesTypeOK
<1>5. TypeOK'
  BY <1>1, <1>2, <1>3, <1>4 DEF TypeOK, BasesTypeOK, LinesTypeOK, OutputTypeOK, idling, lines, output
<1>6. IInv'
  <2>1. SendsInv' /\ AttachInv' /\ OutputInv'
    BY <1>1, <1>4 DEF IInv, SendsInv, SendsOK, Used, AttachInv, OutputInv, lines, output
  <2>2. IdleInv'
    BY <1>1, IdleInside DEF IInv
  <2> QED BY <2>1, <2>2 DEF IInv
<1> QED BY <1>5, <1>6

LEMMA GiveUpStep ==
    ASSUME TypeOK, IInv, NEW l \in Lines, GiveUp(l)
    PROVE  TypeOK' /\ IInv'
<1>1. /\ UNCHANGED <<bases, idling, conn, attached, peer, sends, output, faults>>
      /\ stage[l] = "attaching" /\ lock' = None /\ poll' = NoPoll
      /\ stage' = [stage EXCEPT ![l] = Answered(l)]
      /\ lock = l
  BY DEF GiveUp, IInv, AttachInv
<1>2. Answered(l) \in {"replying", "ended"} /\ (Answered(l) = "replying" <=> l \in Requests)
  BY DEF Answered
<1>3. /\ stage' \in [Lines -> Stages] /\ stage'[l] = Answered(l)
      /\ \A m \in Lines \ {l} : stage'[m] = stage[m]
  BY <1>1, <1>2 DEF TypeOK, LinesTypeOK, Stages
<1>4. TypeOK'
  <2>1. NoPoll \in [spawned : BOOLEAN, reloaded : BOOLEAN, found : 0 .. Conns]
    BY AttachAssumption DEF NoPoll
  <2> QED BY <2>1, <1>1, <1>3 DEF TypeOK, BasesTypeOK, LinesTypeOK, OutputTypeOK, bases, idling, output
<1>5. Ages
  BY <1>1 DEF Ages, Used
<1>6. SendsInv'
  <2>1. SendsOK(l)'
    BY <1>1, <1>2, <1>3 DEF IInv, SendsInv, SendsOK, Used
  <2> QED BY <2>1, <1>1, <1>3, <1>5, SendsOne DEF IInv
<1>7. AttachInv'
  BY <1>1, <1>2, <1>3 DEF IInv, AttachInv, Used
<1>8. OutputInv'
  BY <1>1, <1>2, <1>3, Busy, OutputStage DEF IInv
<1>9. IdleInv'
  BY <1>1, IdleInside DEF IInv
<1> QED BY <1>4, <1>6, <1>7, <1>8, <1>9 DEF IInv

LEMMA HandBackStep ==
    ASSUME TypeOK, IInv, NEW l \in Lines, HandBack(l)
    PROVE  TypeOK' /\ IInv'
<1>1. /\ UNCHANGED <<bases, idling, conn, output, faults>>
      /\ stage[l] = "settling" /\ lock = l
      /\ attached' = poll.found /\ lock' = None /\ poll' = NoPoll
      /\ Bail(l, poll.found, "resent", Answered(l))
      /\ poll.found \in 1 .. Conns /\ Used(poll.found)
  BY DEF HandBack, IInv, AttachInv
<1>2. Answered(l) \in {"replying", "ended"} /\ (Answered(l) = "replying" <=> l \in Requests)
  BY DEF Answered
<1>3. /\ peer' \in [Lines -> 0 .. Conns] /\ stage' \in [Lines -> Stages]
      /\ sends' \in [Lines -> Seq(Sending)]
      /\ \A m \in Lines \ {l} : stage'[m] = stage[m]
      /\ stage'[l] = "resent" \/ stage'[l] = Answered(l)
      /\ SendsInv'
  BY <1>1, BailAgain
<1>4. TypeOK'
  <2>1. NoPoll \in [spawned : BOOLEAN, reloaded : BOOLEAN, found : 0 .. Conns]
    BY AttachAssumption DEF NoPoll
  <2> QED BY <2>1, <1>1, <1>3 DEF TypeOK, BasesTypeOK, LinesTypeOK, OutputTypeOK, bases, idling, output
<1>5. AttachInv'
  BY <1>1, <1>2, <1>3 DEF IInv, AttachInv, Used
<1>6. OutputInv'
  BY <1>1, <1>2, <1>3, Busy, OutputStage DEF IInv
<1>7. IdleInv'
  BY <1>1, IdleInside DEF IInv
<1> QED BY <1>3, <1>4, <1>5, <1>6, <1>7 DEF IInv

LEMMA ReplyStep ==
    ASSUME TypeOK, IInv, NEW l \in Lines, Reply(l)
    PROVE  TypeOK' /\ IInv'
<1>1. /\ UNCHANGED <<bases, idling, conn, attaching, peer, sends, written, broken, bridge, faults>>
      /\ stage[l] = "replying" /\ stage' = [stage EXCEPT ![l] = "ended"]
      /\ replies \in Seq(Lines) /\ Len(replies) \in Nat
      /\ stage \in [Lines -> Stages]
  BY LenProperties DEF Reply, TypeOK, LinesTypeOK, OutputTypeOK
<1>2. /\ stage' \in [Lines -> Stages] /\ stage'[l] = "ended"
      /\ \A m \in Lines \ {l} : stage'[m] = stage[m]
  BY <1>1 DEF Stages
<1>3. Ages
  BY <1>1 DEF Ages, Used
<1>4. SendsInv'
  <2>1. SendsOK(l)'
    BY <1>1, <1>2 DEF IInv, SendsInv, SendsOK, Used
  <2> QED BY <2>1, <1>1, <1>2, <1>3, SendsOne DEF IInv
<1>5. AttachInv'
  BY <1>1, <1>2, <1>3, AttachStage DEF IInv
<1>6. IdleInv'
  BY <1>1, IdleInside DEF IInv
<1>7. bridge = "reading"
  BY <1>1, Busy DEF IInv
<1>8. /\ \A i \in 1 .. Len(replies) : replies[i] \in Lines /\ replies[i] # l /\ stage'[replies[i]] = "ended"
      /\ \A i \in 1 .. Len(written) : written[i] \in Lines /\ written[i] # l /\ stage'[written[i]] = "ended"
  <2>1. /\ \A i \in 1 .. Len(replies) : replies[i] \in Lines
        /\ \A i \in 1 .. Len(written) : written[i] \in Lines
    BY ElementOfSeq DEF TypeOK, OutputTypeOK
  <2> QED BY <2>1, <1>1, <1>2 DEF IInv, OutputInv
<1>9. Requests \subseteq Lines
  BY AttachAssumption
<1>10. CASE broken
  <2>1. UNCHANGED replies
    BY <1>10 DEF Reply
  <2>2. TypeOK'
    BY <1>1, <1>2, <2>1 DEF TypeOK, BasesTypeOK, LinesTypeOK, OutputTypeOK, bases, idling, attaching
  <2>3. OutputInv'
    BY <1>1, <1>2, <1>7, <1>8, <1>10, <2>1 DEF IInv, OutputInv
  <2> QED BY <1>4, <1>5, <1>6, <2>2, <2>3 DEF IInv
<1>11. CASE ~broken
  <2>1. replies' = Append(replies, l) /\ Len(replies) < Room
    BY <1>11 DEF Reply
  <2>2. /\ replies' \in Seq(Lines) /\ Len(replies') = Len(replies) + 1
        /\ \A i \in 1 .. Len(replies) : replies'[i] = replies[i]
        /\ replies'[Len(replies) + 1] = l
    BY <1>1, <2>1, Appended
  <2>3. Len(replies') <= Room
    BY <1>1, <2>1, <2>2, AttachAssumption
  <2>4. TypeOK'
    BY <1>1, <1>2, <2>2, <2>3 DEF TypeOK, BasesTypeOK, LinesTypeOK, OutputTypeOK, bases, idling, attaching
  <2>5. ASSUME NEW i \in 1 .. Len(replies')
        PROVE  \/ i \in 1 .. Len(replies) /\ replies'[i] = replies[i]
               \/ i = Len(replies) + 1 /\ replies'[i] = l
    BY <1>1, <2>2
  <2>6. /\ Len(replies) + 1 \in 1 .. Len(replies')
        /\ \A i \in 1 .. Len(replies) : i \in 1 .. Len(replies')
    BY <1>1, <2>2
  <2>7. \A m \in Requests : stage'[m] = "ended" =>
            \/ \E i \in 1 .. Len(replies') : replies'[i] = m
            \/ \E i \in 1 .. Len(written) : written[i] = m
    <3> SUFFICES ASSUME NEW m \in Requests, stage'[m] = "ended"
                 PROVE  \/ \E i \in 1 .. Len(replies') : replies'[i] = m
                        \/ \E i \in 1 .. Len(written) : written[i] = m
      OBVIOUS
    <3>1. CASE m = l
      BY <3>1, <2>2, <2>6
    <3>2. CASE m # l
      BY <3>2, <1>2, <1>9, <1>11, <2>2, <2>6 DEF IInv, OutputInv
    <3> QED BY <3>1, <3>2
  <2>8. \A i, j \in 1 .. Len(replies') : replies'[i] = replies'[j] => i = j
    BY <1>8, <2>5 DEF IInv, OutputInv
  <2>9. \A i \in 1 .. Len(replies') : /\ stage'[replies'[i]] = "ended"
                                     /\ \A j \in 1 .. Len(written) : replies'[i] # written[j]
    BY <1>2, <1>8, <2>5 DEF IInv, OutputInv
  <2>10. \A m \in Lines : stage'[m] = "replying" => m \in Requests
    BY <1>2 DEF IInv, OutputInv
  <2>11. \A i, j \in 1 .. Len(written) : written[i] = written[j] => i = j
    BY DEF IInv, OutputInv
  <2>12. OutputInv'
    BY <1>1, <1>7, <1>8, <2>7, <2>8, <2>9, <2>10, <2>11 DEF OutputInv
  <2> QED BY <1>4, <1>5, <1>6, <2>4, <2>12 DEF IInv
<1> QED BY <1>10, <1>11

LEMMA WriteStep ==
    ASSUME TypeOK, IInv, Write
    PROVE  TypeOK' /\ IInv'
<1> DEFINE l == Head(replies)
<1>1. /\ UNCHANGED <<bases, idling, conn, attaching, lines, broken, bridge, faults>>
      /\ replies # <<>> /\ replies' = Tail(replies) /\ written' = Append(written, l)
      /\ replies \in Seq(Lines) /\ written \in Seq(Lines) /\ Len(replies) <= Room
  BY DEF Write, TypeOK, OutputTypeOK
<1>2. /\ l \in Lines /\ replies' \in Seq(Lines)
      /\ Len(replies) \in Nat \ {0} /\ Len(replies') = Len(replies) - 1
      /\ l = replies[1]
      /\ \A i \in 1 .. Len(replies') : i + 1 \in 1 .. Len(replies) /\ replies'[i] = replies[i + 1]
  BY <1>1, Taken
<1> HIDE DEF l
<1>3. /\ written' \in Seq(Lines) /\ Len(written) \in Nat /\ Len(written') = Len(written) + 1
      /\ \A i \in 1 .. Len(written) : written'[i] = written[i]
      /\ written'[Len(written) + 1] = l
  BY <1>1, <1>2, Appended
<1>4. 1 \in 1 .. Len(replies) /\ Len(replies') <= Room
  BY <1>1, <1>2, AttachAssumption
<1>5. TypeOK'
  BY <1>1, <1>2, <1>3, <1>4
  DEF TypeOK, BasesTypeOK, LinesTypeOK, OutputTypeOK, bases, idling, attaching, lines
<1>6. SendsInv' /\ AttachInv'
  BY <1>1 DEF IInv, SendsInv, SendsOK, Used, AttachInv, lines, attaching
<1>7. IdleInv'
  BY <1>1, IdleInside DEF IInv
<1>8. OutputInv'
  <2>1. ASSUME NEW i \in 1 .. Len(written')
        PROVE  \/ i \in 1 .. Len(written) /\ written'[i] = written[i]
               \/ i = Len(written) + 1 /\ written'[i] = l
    BY <1>3
  <2>2. /\ stage[l] = "ended"
        /\ \A i \in 1 .. Len(written) : written[i] # l
        /\ \A i \in 1 .. Len(replies') : replies'[i] # l
    BY <1>2, <1>4 DEF IInv, OutputInv
  <2>12. \A i \in 1 .. Len(replies'), j \in 1 .. Len(written) : replies'[i] # written[j]
    <3>1. \A i \in 1 .. Len(replies), j \in 1 .. Len(written) : replies[i] # written[j]
      BY DEF IInv, OutputInv
    <3> QED BY <3>1, <1>2
  <2>3. \A i \in 1 .. Len(written') : stage[written'[i]] = "ended"
    BY <2>1, <2>2 DEF IInv, OutputInv
  <2>4. \A i, j \in 1 .. Len(written') : written'[i] = written'[j] => i = j
    BY <2>1, <2>2 DEF IInv, OutputInv
  <2>5. \A i \in 1 .. Len(replies'), j \in 1 .. Len(written') : replies'[i] # written'[j]
    BY <2>1, <2>2, <2>12
  <2>6. \A i \in 1 .. Len(replies') : stage[replies'[i]] = "ended"
    BY <1>2 DEF IInv, OutputInv
  <2>7. \A i, j \in 1 .. Len(replies') : replies'[i] = replies'[j] => i = j
    <3>1. \A i, j \in 1 .. Len(replies) : replies[i] = replies[j] => i = j
      BY DEF IInv, OutputInv
    <3> QED BY <3>1, <1>2
  <2>8. ASSUME ~broken, NEW m \in Requests, stage[m] = "ended"
        PROVE  \/ \E i \in 1 .. Len(replies') : replies'[i] = m
               \/ \E i \in 1 .. Len(written') : written'[i] = m
    <3>1. CASE m = l
      <4>1. Len(written) + 1 \in 1 .. Len(written')
        BY <1>3
      <4> QED BY <3>1, <4>1, <1>3
    <3>2. CASE m # l
      <4>1. CASE \E i \in 1 .. Len(written) : written[i] = m
        BY <4>1, <1>3
      <4>2. CASE \E i \in 1 .. Len(replies) : replies[i] = m
        <5>1. PICK i \in 1 .. Len(replies) : replies[i] = m
          BY <4>2
        <5>2. i # 1
          BY <3>2, <5>1, <1>2
        <5>3. i - 1 \in 1 .. Len(replies') /\ (i - 1) + 1 = i
          BY <5>2, <1>2
        <5> QED BY <5>1, <5>3, <1>2
      <4> QED BY <2>8, <4>1, <4>2 DEF IInv, OutputInv
    <3> QED BY <3>1, <3>2
  <2>9. bridge # "done"
    BY <1>1 DEF IInv, OutputInv
  <2>10. stage' = stage /\ broken' = broken /\ bridge' = bridge
    BY <1>1 DEF lines
  <2>11. \A m \in Lines : stage[m] = "replying" => m \in Requests
    BY DEF IInv, OutputInv
  <2> QED BY <2>3, <2>4, <2>5, <2>6, <2>7, <2>8, <2>9, <2>10, <2>11 DEF OutputInv
<1> QED BY <1>5, <1>6, <1>7, <1>8 DEF IInv

(* The output breaks, or the bridge leaves.                                *)
LEMMA LeaveStep ==
    ASSUME TypeOK, IInv, Break \/ Exit
    PROVE  TypeOK' /\ IInv'
<1>1. /\ UNCHANGED <<bases, idling, attaching, lines, written, faults>>
      /\ replies' = <<>>
  BY DEF Break, Exit, Leaves
<1>2. <<>> \in Seq(Lines) /\ Len(<<>>) = 0
  BY EmptySeq
<1>3. CASE Break
  <2>1. UNCHANGED <<conn, bridge>> /\ broken'
    BY <1>3 DEF Break
  <2>2. TypeOK'
    BY <1>1, <1>2, <1>3, AttachAssumption
    DEF Break, TypeOK, BasesTypeOK, LinesTypeOK, OutputTypeOK, bases, idling, attaching, lines
  <2>3. SendsInv' /\ AttachInv'
    BY <1>1, <2>1 DEF IInv, SendsInv, SendsOK, Used, AttachInv, lines, attaching
  <2>4. IdleInv'
    BY <1>1, <2>1, IdleInside DEF IInv
  <2>5. OutputInv'
    BY <1>1, <1>2, <2>1 DEF IInv, OutputInv, lines
  <2> QED BY <2>2, <2>3, <2>4, <2>5 DEF IInv
<1>4. CASE Exit
  <2>1. /\ bridge' = "done" /\ broken' = broken /\ replies = <<>>
        /\ conn' = [k \in 1 .. Conns |-> [conn[k] EXCEPT !.open = FALSE]]
        /\ \A l \in Lines : stage[l] \in {"unread", "ended"}
    BY <1>4 DEF Exit, Leaves
  <2>2. ASSUME NEW k \in 1 .. Conns
        PROVE  /\ conn'[k] \in Connections /\ conn'[k].base = conn[k].base
               /\ conn'[k].seat = conn[k].seat /\ ~conn'[k].open
    <3>1. conn[k] \in Connections
      BY DEF TypeOK, BasesTypeOK
    <3> QED BY <3>1, <2>1 DEF Connections
  <2>3. TypeOK'
    <3>1. conn' \in [1 .. Conns -> Connections]
      BY <2>1, <2>2
    <3>2. BasesTypeOK' /\ LinesTypeOK'
      BY <3>1, <1>1 DEF TypeOK, BasesTypeOK, LinesTypeOK, bases, idling, attaching, lines
    <3>3. OutputTypeOK'
      BY <1>1, <1>2, <2>1, AttachAssumption DEF TypeOK, OutputTypeOK
    <3> QED BY <3>2, <3>3 DEF TypeOK
  <2>4. Ages
    BY <2>2 DEF Ages, Used
  <2>5. SendsInv'
    BY <1>1, <2>4, SendsAge DEF IInv, lines
  <2>6. AttachInv'
    <3>1. attached \in 1 .. Conns
      BY DEF TypeOK, LinesTypeOK
    <3> QED BY <3>1, <1>1, <2>1, <2>2 DEF IInv, AttachInv, Used, lines, attaching
  <2>7. IdleInv'
    BY <1>1, <2>2, IdleInside DEF IInv
  <2>8. OutputInv'
    BY <1>1, <2>1 DEF IInv, OutputInv, lines
  <2> QED BY <2>3, <2>5, <2>6, <2>7, <2>8 DEF IInv
<1> QED BY <1>3, <1>4

-----------------------------------------------------------------------------
LEMMA OutsideStep ==
    ASSUME TypeOK, IInv, Outside
    PROVE  TypeOK' /\ IInv'
<1>1. UNCHANGED <<attaching, lines, output>> /\ Ages
  BY OutsideUnchanged, AgesOutside
<1>2. TypeOK'
  BY TypeOutside
<1>3. SendsInv'
  BY <1>1, SendsAge DEF IInv, lines
<1>4. AttachInv'
  <2>1. attached \in 1 .. Conns
    BY DEF TypeOK, LinesTypeOK
  <2> QED BY <2>1, <1>1 DEF IInv, AttachInv, Ages, attaching, lines
<1>5. OutputInv'
  BY <1>1 DEF IInv, OutputInv, lines, output
<1>6. IdleInv'
  BY IdleOutside DEF IInv
<1> QED BY <1>2, <1>3, <1>4, <1>5, <1>6 DEF IInv

LEMMA IInvInit == Init => TypeOK /\ IInv
<1> SUFFICES ASSUME Init PROVE TypeOK /\ IInv
  OBVIOUS
<1>1. First \in Bases /\ First # None /\ Conns \in Nat \ {0} /\ Room \in Nat \ {0} /\ Faults \in Nat
  BY AttachAssumption
<1>2. <<>> \in Seq(Lines) /\ <<>> \in Seq(Sending) /\ Len(<<>>) = 0
  BY EmptySeq
<1>3. /\ conn \in [1 .. Conns -> Connections] /\ 1 \in 1 .. Conns
      /\ conn[1] = [base |-> First, open |-> TRUE, seat |-> "in"]
      /\ \A k \in 1 .. Conns : k # 1 => conn[k] = Unused
  <2>1. Unused \in Connections /\ [base |-> First, open |-> TRUE, seat |-> "in"] \in Connections
    BY <1>1 DEF Unused, Connections
  <2> QED BY <2>1, <1>1 DEF Init
<1>4. BasesTypeOK
  BY <1>1, <1>3 DEF Init, BasesTypeOK
<1>5. LinesTypeOK
  BY <1>1, <1>2 DEF Init, LinesTypeOK, NoPoll, Stages
<1>6. OutputTypeOK
  <2>1. 0 <= Room /\ 0 \in 0 .. Faults
    BY <1>1
  <2> QED BY <2>1, <1>2 DEF Init, OutputTypeOK
<1>7. SendsInv
  BY <1>2 DEF Init, SendsInv, SendsOK
<1>8. AttachInv
  BY <1>1, <1>3 DEF Init, AttachInv, Used
<1>9. OutputInv
  <2>1. Len(replies) = 0 /\ Len(written) = 0 /\ bridge = "reading"
    BY <1>2 DEF Init
  <2>2. \A l \in Lines : stage[l] = "unread"
    BY DEF Init
  <2>3. Requests \subseteq Lines
    BY AttachAssumption
  <2> QED BY <2>1, <2>2, <2>3 DEF OutputInv
<1>10. IdleInv
  BY DEF Init, IdleInv
<1> QED BY <1>4, <1>5, <1>6, <1>7, <1>8, <1>9, <1>10 DEF TypeOK, IInv

LEMMA IInvNext ==
    ASSUME TypeOK, IInv, [Next]_vars
    PROVE  TypeOK' /\ IInv'
<1>1. CASE UNCHANGED vars
  <2> USE <1>1 DEF vars, bases, idling, attaching, lines, output
  <2>1. TypeOK'
    BY DEF TypeOK, BasesTypeOK, LinesTypeOK, OutputTypeOK
  <2>2. SendsInv' /\ AttachInv' /\ OutputInv'
    BY DEF IInv, SendsInv, SendsOK, AttachInv, OutputInv, Used
  <2>3. IdleInv'
    BY IdleInside DEF IInv
  <2> QED BY <2>1, <2>2, <2>3 DEF IInv
<1>2. CASE Outside
  BY <1>2, OutsideStep
<1>3. ASSUME NEW l \in Lines, Read(l) \/ Deliver(l) \/ Finish(l) PROVE TypeOK' /\ IInv'
  BY <1>3, ReadStep, AtBaseStep
<1>4. ASSUME NEW l \in Lines, LineStep(l) PROVE TypeOK' /\ IInv'
  BY <1>4, SendStep, EndedStep, AgainStep, FoundStep, StartStep, GiveUpStep, HandBackStep, ReplyStep
  DEF LineStep
<1>5. CASE Write
  BY <1>5, WriteStep
<1>6. CASE Break \/ Exit
  BY <1>6, LeaveStep
<1> QED BY <1>1, <1>2, <1>3, <1>4, <1>5, <1>6 DEF Next, Outside

(* The bridge, its connections and the bases agree (src/src/cli/host.rs:   *)
(* Backend, attach, stdio; src/src/host/mod.rs: idle_for): the inductive   *)
(* invariant.                                                              *)
THEOREM AttachAgrees == Spec => [](TypeOK /\ IInv)
<1>1. TypeOK /\ IInv /\ [Next]_vars => TypeOK' /\ IInv'
  BY IInvNext
<1> QED BY IInvInit, <1>1, PTL DEF Spec

(* A message is sent twice at most, never twice over one connection, and   *)
(* the second time only after the first connection closed                  *)
(* (Backend::message).                                                     *)
THEOREM TwiceForCauseHolds == Spec => []TwiceForCause
<1>1. TypeOK /\ IInv => TwiceForCause
  BY DEF IInv, SendsInv, SendsOK, TwiceForCause
<1> QED BY <1>1, AttachAgrees, PTL

(* A request is answered once at most, and the bridge leaves only when all *)
(* it read are answered, unless the output broke (stdio).                  *)
THEOREM AnsweredOnceHolds == Spec => []AnsweredOnce
<1>1. TypeOK /\ IInv => AnsweredOnce
  <2> SUFFICES ASSUME TypeOK, IInv PROVE AnsweredOnce
    OBVIOUS
  <2>1. ASSUME bridge = "done", ~broken, NEW l \in Requests
        PROVE  stage[l] = "unread" \/ \E i \in 1 .. Len(written) : written[i] = l
    <3>1. replies = <<>> /\ Len(replies) = 0 /\ l \in Lines
      BY <2>1, EmptySeq, AttachAssumption DEF IInv, OutputInv
    <3>2. ~ \E i \in 1 .. Len(replies) : replies[i] = l
      BY <3>1
    <3> QED BY <2>1, <3>1, <3>2 DEF IInv, OutputInv
  <2> QED BY <2>1 DEF AnsweredOnce, IInv, OutputInv
<1> QED BY <1>1, AttachAgrees, PTL

(* A base stops by itself only when nobody was joined to it for a whole    *)
(* timeout, but for a client that joins between its two reads, or one on   *)
(* its way out (idle_for, stop_when_idle).                                 *)
THEOREM IdleForCauseHolds == Spec => IdleForCause
<1> DEFINE Cause == \A b \in Bases :
                        IdleStop(b) =>
                            \/ rested[b]
                            \/ watch[b] = "raced"
                            \/ \E k \in Of(b) : conn[k].seat = "leaving"
<1>1. TypeOK /\ IInv /\ [Next]_vars => [Cause]_vars
  BY IdleStopCause DEF IInv
<1> QED BY <1>1, AttachAgrees, PTL DEF Spec, IdleForCause
=============================================================================
