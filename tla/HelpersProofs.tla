--------------------------- MODULE HelpersProofs ---------------------------
(***************************************************************************)
(* Theorems about a helper's pipes, for any requests, sends, asks and      *)
(* notes and pipes of any room: which lines can reach the helper torn,     *)
(* where the answers it writes go, and how a request ends.                 *)
(***************************************************************************)
EXTENDS Helpers, SequenceTheorems, TLAPS

Parts == Writers \X {"head", "tail"}

CallsTypeOK ==
    /\ stdin \in BOOLEAN
    /\ stage \in [Writers -> Stages]
    /\ outcome \in [Writers -> Outcomes]
    /\ pending \in SUBSET Waiters
    /\ replied \in SUBSET Waiters

HelperTypeOK ==
    /\ alive \in BOOLEAN
    /\ pipe \in Seq(Parts) /\ Len(pipe) <= Room
    /\ text \in Seq(Writers)
    /\ got \in SUBSET (Seq(Writers) \ {<<>>})
    /\ said \in SUBSET Lines
    /\ out \in Seq(Lines) /\ Len(out) <= OutRoom

ReaderTypeOK ==
    /\ handling \in Lines \cup {None}
    /\ ended \in BOOLEAN

Typed == CallsTypeOK /\ HelperTypeOK /\ ReaderTypeOK

-----------------------------------------------------------------------------
(* The part that precedes the i-th of the pipe in the stream the helper    *)
(* reads: what it has read of a line counts as the head it read last.      *)
Before(i) ==
    IF i > 1 THEN pipe[i - 1]
    ELSE IF text = <<>> THEN <<None, "tail">>
    ELSE <<text[Len(text)], "head">>

(* The part written last.                                                  *)
LastPart == Before(Len(pipe) + 1)

(* The line of this writer went out in full.                               *)
Sent(w) == stage[w] \in {"waiting", "done"}

(* One writer at a time, and a call that has an outcome is over.           *)
LockInv ==
    /\ \A v, w \in Writers : Holds(v) /\ Holds(w) => v = w
    /\ \A w \in Writers : outcome[w] # "none" <=> stage[w] = "done"

(* A tail follows its head, and a head follows a tail or the head of a     *)
(* line that was cancelled.                                                *)
PipeInv ==
    \A i \in 1 .. Len(pipe) :
        /\ pipe[i][2] = "tail" => Before(i) = <<pipe[i][1], "head">> /\ Sent(pipe[i][1])
        /\ pipe[i][2] = "head" /\ Before(i)[2] = "head" => outcome[Before(i)[1]] = "cancelled"

(* The part written last is the head of the line being written, unless     *)
(* nothing is written after it, or it was cancelled.                       *)
EndInv ==
    /\ LastPart[2] = "head" =>
          stage[LastPart[1]] = "half" \/ outcome[LastPart[1]] = "cancelled" \/ Broken
    /\ \A w \in Writers : stage[w] = "half" => LastPart = <<w, "head">>

(* What the helper has read, and is reading.                               *)
GotInv ==
    /\ \A i \in 1 .. Len(text) : i < Len(text) => outcome[text[i]] = "cancelled"
    /\ \A l \in got :
          /\ Sent(l[Len(l)])
          /\ l = Whole(l[Len(l)]) \/ \E i \in 1 .. Len(l) : outcome[l[i]] = "cancelled"

(* What is on its way from the helper is there once, and said; an ask      *)
(* becomes a call when it is read; an answer is of a line that went out.   *)
SaidInv ==
    /\ \A i \in 1 .. Len(out) : out[i] \in said
    /\ \A i, j \in 1 .. Len(out) : out[i] = out[j] => i = j
    /\ \A a \in Asks : stage[a] = "idle"
                       \/ (Ask(a) \in said /\ \A i \in 1 .. Len(out) : out[i] # Ask(a))
    /\ \A r \in Waiters : Reply(r) \in said => Sent(r)

(* The table of waiting requests against the requests, and the answers     *)
(* that left the pipe against both.                                        *)
TableInv ==
    /\ \A r \in Waiters : stage[r] \in InFlight /\ ~ended => r \in pending \cup replied
    /\ \A r \in pending : stage[r] \in InFlight \/ outcome[r] = "cancelled"
    /\ \A r \in replied :
          /\ stage[r] = "waiting" \/ outcome[r] \in {"reply", "cancelled"}
          /\ Reply(r) \in said /\ \A i \in 1 .. Len(out) : out[i] # Reply(r)
    /\ \A r \in Waiters : handling = Reply(r) => stage[r] = "done"

IInv == LockInv /\ PipeInv /\ EndInv /\ GotInv /\ SaidInv /\ TableInv

-----------------------------------------------------------------------------
(* What is in a queue after something was put at its end, or taken from    *)
(* its head.                                                               *)
LEMMA Appended ==
    ASSUME NEW S, NEW q \in Seq(S), NEW m \in S
    PROVE  /\ Append(q, m) \in Seq(S)
           /\ Len(q) \in Nat /\ Len(Append(q, m)) = Len(q) + 1
           /\ \A i \in 1 .. Len(q) : Append(q, m)[i] = q[i]
           /\ Append(q, m)[Len(q) + 1] = m
  BY AppendProperties, LenProperties

LEMMA Taken ==
    ASSUME NEW S, NEW q \in Seq(S), q # <<>>
    PROVE  /\ Head(q) \in S /\ Tail(q) \in Seq(S)
           /\ Len(q) \in Nat \ {0} /\ Len(Tail(q)) = Len(q) - 1
           /\ Head(q) = q[1]
           /\ \A i \in 1 .. Len(Tail(q)) : i + 1 \in 1 .. Len(q) /\ Tail(q)[i] = q[i + 1]
<1>1. /\ Head(q) \in S /\ Tail(q) \in Seq(S)
      /\ Len(Tail(q)) = Len(q) - 1
      /\ Head(q) = q[1]
      /\ \A i \in 1 .. Len(Tail(q)) : Tail(q)[i] = q[i + 1]
  BY HeadTailProperties
<1>2. Len(q) \in Nat \ {0}
  BY EmptySeq, LenProperties
<1> QED BY <1>1, <1>2

(* The kinds of lines are apart.                                           *)
LEMMA Apart ==
    /\ \A l \in Lines : /\ l.kind = "ask" => l.of \in Asks /\ l = Ask(l.of)
                        /\ l.kind = "reply" => l.of \in Waiters /\ l = Reply(l.of)
                        /\ l.kind \in {"ask", "reply", "note"}
    /\ \A r, q : Reply(r) # Ask(q) /\ (Reply(r) = Reply(q) => r = q)
    /\ \A r : Reply(r).kind = "reply" /\ Reply(r).of = r
    /\ \A r : Ask(r).kind = "ask" /\ Ask(r).of = r
    /\ \A r \in Waiters : r \in Writers /\ Reply(r) \in Lines /\ r \notin Asks
    /\ \A a \in Asks : a \in Writers /\ Ask(a) \in Lines /\ a \notin Waiters
    /\ Droppable \cap Asks = {} /\ Droppable \subseteq Writers
<1>1. ASSUME NEW l \in Lines
      PROVE  /\ l.kind = "ask" => l.of \in Asks /\ l = Ask(l.of)
             /\ l.kind = "reply" => l.of \in Waiters /\ l = Reply(l.of)
             /\ l.kind \in {"ask", "reply", "note"}
  <2>1. CASE l \in {Reply(r) : r \in Waiters}
    BY <2>1 DEF Reply
  <2>2. CASE l \in {Ask(a) : a \in Asks}
    BY <2>2 DEF Ask
  <2>3. CASE l \in {Note(n) : n \in 1 .. Notes}
    BY <2>3 DEF Note
  <2> QED BY <2>1, <2>2, <2>3 DEF Lines
<1>2. \A r, q : Reply(r) # Ask(q)
  BY DEF Reply, Ask
<1>3. ASSUME NEW r, NEW q, Reply(r) = Reply(q) PROVE r = q
  <2>1. Reply(r).of = r /\ Reply(q).of = q
    BY DEF Reply
  <2> QED BY <2>1, <1>3
<1>4. /\ \A r : Reply(r).kind = "reply" /\ Reply(r).of = r
      /\ \A r : Ask(r).kind = "ask" /\ Ask(r).of = r
  BY DEF Reply, Ask
<1>5. /\ \A r \in Waiters : r \in Writers /\ Reply(r) \in Lines /\ r \notin Asks
      /\ \A a \in Asks : a \in Writers /\ Ask(a) \in Lines /\ a \notin Waiters
      /\ Droppable \cap Asks = {} /\ Droppable \subseteq Writers
  BY WritersAssumption DEF Lines, Waiters, Writers, Droppable
<1> QED BY <1>1, <1>2, <1>3, <1>4, <1>5

(* The parts before a part of the pipe are writers' or nobody's.           *)
LEMMA BeforeType ==
    ASSUME Typed
    PROVE  \A i \in 1 .. Len(pipe) + 1 : Before(i) \in Parts \/ Before(i) = <<None, "tail">>
<1>1. Len(pipe) \in Nat /\ Len(text) \in Nat /\ pipe \in Seq(Parts) /\ text \in Seq(Writers)
  BY LenProperties DEF Typed, HelperTypeOK
<1>2. ASSUME NEW i \in 1 .. Len(pipe) + 1
      PROVE  Before(i) \in Parts \/ Before(i) = <<None, "tail">>
  <2>1. CASE i > 1
    <3>1. i - 1 \in 1 .. Len(pipe)
      BY <2>1, <1>1, <1>2
    <3> QED BY <3>1, <2>1, <1>1, ElementOfSeq DEF Before
  <2>2. CASE ~(i > 1) /\ text # <<>>
    <3>1. Len(text) \in 1 .. Len(text)
      BY <2>2, <1>1, EmptySeq
    <3>2. text[Len(text)] \in Writers
      BY <3>1, <1>1, ElementOfSeq
    <3> QED BY <2>2, <3>2 DEF Before, Parts
  <2> QED BY <2>1, <2>2 DEF Before
<1> QED BY <1>2

(* A step of a call that moves no part of a line.                          *)
LEMMA CallMoves ==
    ASSUME Typed, IInv, NEW w \in Writers, NEW s \in Stages, NEW o \in Outcomes,
           stage' = [stage EXCEPT ![w] = s], outcome' = [outcome EXCEPT ![w] = o],
           UNCHANGED <<pipe, text, got, said, out, handling, ended, replied>>,
           stdin' \in BOOLEAN, alive' \in BOOLEAN, Broken => Broken',
           stage[w] # "done", s # "idle", s # "half", s = "done" <=> o # "none",
           Sent(w) => s = "done", s = "writing" => ~Locked,
           stage[w] = "half" => Broken' \/ o = "cancelled",
           stage[w] = "idle" => w \notin Asks,
           pending' \in SUBSET Waiters, \A r \in Waiters \ {w} : r \in pending' <=> r \in pending,
           w \in Waiters /\ s \in InFlight /\ ~ended => w \in pending' \cup replied,
           w \in pending' => s \in InFlight \/ o = "cancelled",
           w \in replied => o \in {"reply", "cancelled"}
    PROVE  Typed' /\ IInv'
<1>1. Typed'
  BY DEF Typed, CallsTypeOK, HelperTypeOK, ReaderTypeOK
<1>2. /\ stage \in [Writers -> Stages] /\ outcome \in [Writers -> Outcomes]
      /\ stage'[w] = s /\ outcome'[w] = o
      /\ \A v \in Writers \ {w} : stage'[v] = stage[v] /\ outcome'[v] = outcome[v]
  BY DEF Typed, CallsTypeOK
<1>3. /\ outcome[w] # "cancelled"
      /\ \A v \in Writers : outcome[v] = "cancelled" => outcome'[v] = "cancelled"
      /\ \A v \in Writers : Sent(v) => Sent(v)'
  BY <1>2 DEF IInv, LockInv, Sent
<1>4. Before(1)' = Before(1) /\ (\A i \in 1 .. Len(pipe) + 1 : Before(i)' = Before(i)) /\ LastPart' = LastPart
  BY DEF Before, LastPart
<1>5. /\ \A i \in 1 .. Len(pipe) : pipe[i] \in Parts
      /\ \A i \in 1 .. Len(text) : text[i] \in Writers
      /\ \A l \in got : /\ Len(l) \in 1 .. Len(l)
                        /\ \A i \in 1 .. Len(l) : l[i] \in Writers
  BY ElementOfSeq, EmptySeq, LenProperties DEF Typed, HelperTypeOK
<1>6. Len(pipe) \in Nat /\ Len(text) \in Nat
  BY LenProperties DEF Typed, HelperTypeOK
<1>7. LockInv'
  BY <1>2 DEF IInv, LockInv, Holds, Locked
<1>8. PipeInv'
  <2> SUFFICES ASSUME NEW i \in 1 .. Len(pipe)
               PROVE  /\ pipe[i][2] = "tail" => Before(i) = <<pipe[i][1], "head">> /\ Sent(pipe[i][1])'
                      /\ pipe[i][2] = "head" /\ Before(i)[2] = "head" => outcome'[Before(i)[1]] = "cancelled"
    BY <1>4, <1>6 DEF PipeInv
  <2>1. pipe[i] \in Parts /\ (Before(i) \in Parts \/ Before(i) = <<None, "tail">>)
    BY <1>5, <1>6, BeforeType
  <2> QED BY <2>1, <1>3 DEF IInv, PipeInv, Parts
<1>9. EndInv'
  <2>1. LastPart \in Parts \/ LastPart = <<None, "tail">>
    BY <1>6, BeforeType DEF LastPart
  <2> QED BY <2>1, <1>2, <1>3, <1>4 DEF IInv, EndInv, Parts
<1>10. GotInv'
  <2>1. \A i \in 1 .. Len(text) : i < Len(text) => outcome'[text[i]] = "cancelled"
    BY <1>3, <1>5 DEF IInv, GotInv
  <2>2. ASSUME NEW l \in got
        PROVE  /\ Sent(l[Len(l)])'
               /\ l = Whole(l[Len(l)]) \/ \E i \in 1 .. Len(l) : outcome'[l[i]] = "cancelled"
    BY <1>3, <1>5 DEF IInv, GotInv
  <2> QED BY <2>1, <2>2 DEF GotInv, Whole
<1>11. SaidInv'
  BY <1>2, <1>3, Apart DEF IInv, SaidInv
<1>12. TableInv'
  BY <1>2, <1>3, Apart, <1>1 DEF IInv, TableInv, LockInv, Typed, CallsTypeOK
<1> QED BY <1>1, <1>7, <1>8, <1>9, <1>10, <1>11, <1>12 DEF IInv

(* Every such step of a call.                                              *)
LEMMA CallStep ==
    ASSUME Typed, IInv, NEW w \in Writers,
           \/ w \in Waiters /\ (Request(w) \/ Return(w) \/ Exited(w) \/ ReplyLate(w))
           \/ w \in Sends /\ Send(w)
           \/ w \in Asks /\ Answer(w)
           \/ Lock(w) \/ WriteFails(w) \/ WriteLate(w) \/ KillLate(w)
           \/ Cancel(w)
    PROVE  Typed' /\ IInv'
<1> USE DEF node, helper, reader, Holds, Sent, Broken, Stages, Outcomes, InFlight, End
<1>1. /\ stdin \in BOOLEAN /\ alive \in BOOLEAN /\ pending \in SUBSET Waiters
      /\ stage \in [Writers -> Stages] /\ outcome \in [Writers -> Outcomes]
      /\ outcome = [outcome EXCEPT ![w] = outcome[w]]
  BY DEF Typed, CallsTypeOK, HelperTypeOK
<1>2. /\ stage[w] # "done" => outcome[w] = "none"
      /\ w \in Waiters /\ stage[w] \in InFlight /\ ~ended => w \in pending \cup replied
      /\ w \in replied => stage[w] = "waiting" \/ outcome[w] \in {"reply", "cancelled"}
      /\ w \in pending => w \in Waiters /\ (stage[w] \in InFlight \/ outcome[w] = "cancelled")
  BY <1>1 DEF IInv, LockInv, TableInv
<1>3. /\ w \in Asks => w \notin Waiters /\ w \notin Droppable /\ w \notin Sends
      /\ w \in Sends => w \notin Waiters
  BY WritersAssumption, Apart DEF Waiters
<1>4. CASE w \in Waiters /\ Request(w)
  BY <1>1, <1>2, <1>3, <1>4, CallMoves DEF Request
<1>5. CASE w \in Waiters /\ Return(w)
  BY <1>1, <1>2, <1>3, <1>5, CallMoves DEF Return
<1>6. CASE w \in Waiters /\ Exited(w)
  BY <1>1, <1>2, <1>3, <1>6, CallMoves DEF Exited
<1>7. CASE w \in Waiters /\ ReplyLate(w)
  BY <1>1, <1>2, <1>3, <1>7, CallMoves DEF ReplyLate
<1>8. CASE w \in Sends /\ Send(w)
  BY <1>1, <1>2, <1>3, <1>8, CallMoves DEF Send
<1>9. CASE w \in Asks /\ Answer(w)
  BY <1>1, <1>2, <1>3, <1>9, CallMoves DEF Answer
<1>10. CASE Lock(w)
  BY <1>1, <1>2, <1>3, <1>10, CallMoves DEF Lock
<1>11. CASE WriteFails(w)
  BY <1>1, <1>2, <1>3, <1>11, CallMoves DEF WriteFails
<1>12. CASE WriteLate(w)
  BY <1>1, <1>2, <1>3, <1>12, CallMoves DEF WriteLate
<1>13. CASE KillLate(w)
  BY <1>1, <1>2, <1>3, <1>13, CallMoves DEF KillLate
<1>14. CASE Cancel(w)
  BY <1>1, <1>2, <1>3, <1>14, CallMoves DEF Cancel
<1> QED BY <1>4, <1>5, <1>6, <1>7, <1>8, <1>9, <1>10, <1>11, <1>12, <1>13, <1>14

(* A part of a line is written: nobody else writes, so the head is the     *)
(* part written last when its tail is.                                     *)
LEMMA WriteStep ==
    ASSUME Typed, IInv, NEW w \in Writers, WritePart(w)
    PROVE  Typed' /\ IInv'
<1>0. PICK n \in Nat \ {0} : n = Len(pipe) + 1
  BY LenProperties DEF Typed, HelperTypeOK
<1>1. /\ stage \in [Writers -> Stages] /\ outcome \in [Writers -> Outcomes]
      /\ pipe \in Seq(Parts) /\ Part(w) \in Parts
      /\ Written(w) \in {"half", "waiting", "done"}
      /\ Holds(w) /\ ~Broken /\ Len(pipe) < Room
      /\ outcome[w] = "none"
  BY DEF WritePart, Typed, CallsTypeOK, HelperTypeOK, Part, Parts, Written, Holds, IInv, LockInv
<1>2. /\ pipe' \in Seq(Parts) /\ Len(pipe) \in Nat /\ Len(pipe') = n
      /\ \A i \in 1 .. Len(pipe) : pipe'[i] = pipe[i]
      /\ pipe'[n] = Part(w)
  BY <1>0, <1>1, Appended DEF WritePart
<1>3. /\ stage' = [stage EXCEPT ![w] = Written(w)]
      /\ outcome' = [outcome EXCEPT ![w] = IF Written(w) = "done" THEN "ok" ELSE "none"]
      /\ UNCHANGED <<stdin, alive, pending, replied, text, got, said, out, handling, ended>>
  BY <1>1 DEF WritePart, reader
<1>4. /\ stage'[w] = Written(w)
      /\ outcome'[w] = IF Written(w) = "done" THEN "ok" ELSE "none"
      /\ \A v \in Writers \ {w} : stage'[v] = stage[v] /\ outcome'[v] = outcome[v]
  BY <1>1, <1>3
<1>5. /\ \A v \in Writers : outcome[v] = "cancelled" => outcome'[v] = "cancelled"
      /\ \A v \in Writers : Sent(v) => Sent(v)'
  BY <1>1, <1>4 DEF Sent, Holds
<1>6. Typed'
  <2>1. CallsTypeOK'
    BY <1>1, <1>3 DEF Typed, CallsTypeOK, Stages, Outcomes
  <2>2. HelperTypeOK'
    BY <1>0, <1>1, <1>2, <1>3, BoundsAssumption DEF Typed, HelperTypeOK
  <2> QED BY <2>1, <2>2, <1>3 DEF Typed, ReaderTypeOK
<1>7. /\ \A i \in 1 .. n : Before(i)' = Before(i)
      /\ LastPart' = Part(w) /\ Before(n) = LastPart
  <2>1. ASSUME NEW i \in 1 .. n PROVE Before(i)' = Before(i)
    BY <1>0, <1>2, <1>3 DEF Before
  <2>2. n + 1 > 1 /\ (n + 1) - 1 = n
    OBVIOUS
  <2>3. Before(n + 1)' = pipe'[n]
    BY <2>2 DEF Before
  <2> QED BY <2>1, <2>3, <1>0, <1>2 DEF LastPart
<1>8. LastPart \in Parts \/ LastPart = <<None, "tail">>
  BY <1>0, BeforeType DEF LastPart
<1>9. /\ stage[w] = "half" => LastPart = <<w, "head">>
      /\ stage[w] = "writing" /\ LastPart[2] = "head" => outcome[LastPart[1]] = "cancelled"
  <2>1. ASSUME NEW v \in Writers, stage[v] = "half" PROVE v = w
    BY <2>1, <1>1 DEF IInv, LockInv, Holds
  <2> QED BY <2>1, <1>1, <1>8 DEF IInv, EndInv, Parts
<1>10. LockInv'
  BY <1>1, <1>4 DEF IInv, LockInv, Holds
<1>11. PipeInv'
  <2> SUFFICES ASSUME NEW i \in 1 .. n
               PROVE  /\ pipe'[i][2] = "tail" => Before(i) = <<pipe'[i][1], "head">> /\ stage'[pipe'[i][1]] \in {"waiting", "done"}
                      /\ pipe'[i][2] = "head" /\ Before(i)[2] = "head" => outcome'[Before(i)[1]] = "cancelled"
    BY <1>2, <1>7 DEF PipeInv, Sent
  <2>1. CASE i = n
    <3>1. CASE stage[w] = "writing"
      <4>1. Part(w)[2] = "head"
        BY <3>1 DEF Part
      <4>2. LastPart[2] = "head" => LastPart[1] \in Writers
        BY <1>8 DEF Parts
      <4> QED BY <2>1, <1>2, <1>5, <1>7, <1>9, <3>1, <4>1, <4>2
    <3>2. CASE stage[w] = "half"
      <4>1. Part(w)[1] = w /\ Part(w)[2] = "tail"
        BY <3>2 DEF Part
      <4>2. stage'[w] \in {"waiting", "done"}
        BY <1>4, <3>2 DEF Written
      <4> QED BY <2>1, <1>2, <1>7, <1>9, <3>2, <4>1, <4>2
    <3> QED BY <3>1, <3>2, <1>1 DEF Holds
  <2>2. CASE i # n
    <3>1. i \in 1 .. Len(pipe) /\ pipe'[i] = pipe[i]
      BY <1>0, <1>2, <2>2
    <3>2. pipe[i] \in Parts /\ (Before(i) \in Parts \/ Before(i) = <<None, "tail">>)
      BY <1>0, <1>1, <1>2, <3>1, ElementOfSeq, BeforeType
    <3> QED BY <3>1, <3>2, <1>5, <1>7 DEF IInv, PipeInv, Parts, Sent
  <2> QED BY <2>1, <2>2
<1>12. EndInv'
  <2>1. Part(w)[2] = "head" => stage'[w] = "half" /\ Part(w)[1] = w
    BY <1>1, <1>4 DEF Part, Written, Holds
  <2>2. ASSUME NEW v \in Writers, stage'[v] = "half" PROVE Part(w) = <<v, "head">>
    <3>1. CASE v = w
      BY <2>2, <3>1, <1>1, <1>4 DEF Part, Written, Holds
    <3>2. CASE v # w
      BY <2>2, <3>2, <1>1, <1>4 DEF IInv, LockInv, Holds
    <3> QED BY <3>1, <3>2
  <2> QED BY <2>1, <2>2, <1>7 DEF EndInv
<1>13. GotInv'
  <2>1. /\ \A i \in 1 .. Len(text) : text[i] \in Writers
        /\ \A l \in got : /\ Len(l) \in 1 .. Len(l)
                          /\ \A i \in 1 .. Len(l) : l[i] \in Writers
    BY ElementOfSeq, EmptySeq, LenProperties DEF Typed, HelperTypeOK
  <2>2. \A i \in 1 .. Len(text) : i < Len(text) => outcome'[text[i]] = "cancelled"
    BY <2>1, <1>5 DEF IInv, GotInv
  <2>3. ASSUME NEW l \in got
        PROVE  /\ Sent(l[Len(l)])'
               /\ l = Whole(l[Len(l)]) \/ \E i \in 1 .. Len(l) : outcome'[l[i]] = "cancelled"
    BY <2>1, <1>5 DEF IInv, GotInv
  <2> QED BY <2>2, <2>3, <1>3 DEF GotInv, Whole
<1>14. SaidInv'
  BY <1>1, <1>3, <1>4, <1>5, Apart DEF IInv, SaidInv, Holds
<1>15. TableInv'
  <2>1. w \in Waiters => stage'[w] \in {"half", "waiting"}
    BY <1>1, <1>4 DEF Written
  <2> QED BY <2>1, <1>1, <1>3, <1>4, Apart DEF IInv, TableInv, Holds, InFlight, Typed, CallsTypeOK
<1> QED BY <1>6, <1>10, <1>11, <1>12, <1>13, <1>14, <1>15 DEF IInv

(* The helper reads the next part: the part before each in the pipe stays  *)
(* the same, until a tail ends the line.                                   *)
LEMMA ReadStep ==
    ASSUME Typed, IInv, HelperReads
    PROVE  Typed' /\ IInv'
<1>1. /\ pipe \in Seq(Parts) /\ pipe # <<>> /\ text \in Seq(Writers) /\ Len(text) \in Nat
      /\ stage \in [Writers -> Stages] /\ outcome \in [Writers -> Outcomes]
      /\ UNCHANGED <<stdin, alive, pending, stage, outcome, replied, said, out, handling, ended>>
  BY LenProperties DEF HelperReads, node, reader, Typed, HelperTypeOK, CallsTypeOK
<1>2. PICK n \in Nat : Len(pipe) = n + 1
  <2>1. Len(pipe) \in Nat \ {0}
    BY <1>1, Taken
  <2>2. Len(pipe) - 1 \in Nat /\ Len(pipe) = (Len(pipe) - 1) + 1
    BY <2>1
  <2> QED BY <2>2
<1>3. PICK w \in Writers, k \in {"head", "tail"} : pipe[1] = <<w, k>> /\ Head(pipe) = <<w, k>>
  <2>1. Head(pipe) \in Parts /\ Head(pipe) = pipe[1]
    BY <1>1, Taken
  <2> QED BY <2>1 DEF Parts
<1>4. /\ pipe' \in Seq(Parts) /\ Len(pipe') = n
      /\ \A i \in 1 .. n : i + 1 \in 1 .. Len(pipe) /\ pipe'[i] = pipe[i + 1]
  BY <1>1, <1>2, Taken DEF HelperReads
<1>5. LockInv' /\ SaidInv' /\ TableInv'
  BY <1>1 DEF IInv, LockInv, Holds, SaidInv, Sent, TableInv
<1>6. \A i \in 1 .. n + 1 : i > 1 => Before(i)' = pipe[i] /\ pipe[i] = Before(i + 1)
  BY <1>2, <1>4 DEF Before
<1>7. Before(n + 2) = LastPart /\ LastPart' = Before(n + 1)'
  BY <1>2, <1>4 DEF LastPart
<1>8. Before(2) = <<w, k>>
  BY <1>3 DEF Before
<1>9. CASE k = "head"
  <2>1. text' = Append(text, w) /\ UNCHANGED got
    BY <1>3, <1>9 DEF HelperReads
  <2>2. /\ text' \in Seq(Writers) /\ Len(text') = Len(text) + 1
        /\ \A i \in 1 .. Len(text) : text'[i] = text[i]
        /\ text'[Len(text) + 1] = w
    BY <1>1, <2>1, Appended
  <2>3. Before(1)' = <<w, "head">>
    BY <2>2, <1>1, EmptySeq DEF Before
  <2>4. \A i \in 1 .. n + 1 : Before(i)' = Before(i + 1)
    BY <1>6, <1>8, <1>9, <2>3
  <2>5. LastPart' = LastPart
    BY <1>7, <2>4
  <2>6. Typed'
    BY <1>1, <1>2, <1>4, <2>1, <2>2, BoundsAssumption
    DEF Typed, CallsTypeOK, HelperTypeOK, ReaderTypeOK
  <2>7. PipeInv'
    <3>1. ASSUME NEW i \in 1 .. n
          PROVE  /\ pipe'[i][2] = "tail" => Before(i)' = <<pipe'[i][1], "head">>
                                            /\ stage[pipe'[i][1]] \in {"waiting", "done"}
                 /\ pipe'[i][2] = "head" /\ Before(i)'[2] = "head" =>
                       outcome[Before(i)'[1]] = "cancelled"
      <4>1. Before(i)' = Before(i + 1) /\ pipe'[i] = pipe[i + 1] /\ i + 1 \in 1 .. Len(pipe)
        BY <1>4, <2>4
      <4> QED BY <4>1 DEF IInv, PipeInv, Sent
    <3> QED BY <3>1, <1>1, <1>4 DEF PipeInv, Sent
  <2>8. EndInv'
    BY <2>5, <1>1 DEF IInv, EndInv, Broken
  <2>9. GotInv'
    <3>1. text # <<>> => outcome[text[Len(text)]] = "cancelled"
      <4> SUFFICES ASSUME text # <<>> PROVE outcome[text[Len(text)]] = "cancelled"
        OBVIOUS
      <4>1. Before(1) = <<text[Len(text)], "head">>
        BY DEF Before
      <4>2. pipe[1][2] = "head" /\ 1 \in 1 .. Len(pipe)
        BY <1>2, <1>3, <1>9
      <4> QED BY <4>1, <4>2 DEF IInv, PipeInv
    <3>2. ASSUME NEW i \in 1 .. Len(text) PROVE outcome[text[i]] = "cancelled"
      <4>1. text # <<>>
        BY EmptySeq
      <4> QED BY <4>1, <3>1, <1>1 DEF IInv, GotInv
    <3>3. \A i \in 1 .. Len(text') : i < Len(text') => outcome'[text'[i]] = "cancelled"
      BY <3>2, <2>2, <1>1
    <3> QED BY <3>3, <2>1, <1>1 DEF IInv, GotInv, Sent, Whole
  <2> QED BY <1>5, <2>6, <2>7, <2>8, <2>9 DEF IInv
<1>10. CASE k = "tail"
  <2> DEFINE line == Append(text, w)
  <2>1. text' = <<>> /\ got' = got \cup {line}
    BY <1>3, <1>10 DEF HelperReads
  <2>2. Before(1) = <<w, "head">> /\ Sent(w)
    BY <1>2, <1>3, <1>10 DEF IInv, PipeInv
  <2>3. text # <<>> /\ text[Len(text)] = w /\ Len(text) \in 1 .. Len(text)
    BY <2>2, <1>1, EmptySeq DEF Before
  <2>4. /\ line \in Seq(Writers) /\ Len(line) = Len(text) + 1
        /\ \A i \in 1 .. Len(text) : line[i] = text[i]
        /\ line[Len(line)] = w
    BY <1>1, Appended
  <2>5. line # <<>>
    BY <2>4, <1>1, EmptySeq
  <2> HIDE DEF line
  <2>6. Before(1)' = <<None, "tail">>
    BY <2>1 DEF Before
  <2>7. Typed'
    <3>1. <<>> \in Seq(Writers) /\ Len(pipe') <= Room
      BY <1>2, <1>4, BoundsAssumption DEF Typed, HelperTypeOK
    <3> QED BY <3>1, <1>1, <1>4, <2>1, <2>4, <2>5
            DEF Typed, CallsTypeOK, HelperTypeOK, ReaderTypeOK
  <2>8. PipeInv'
    <3>1. ASSUME NEW i \in 1 .. n
          PROVE  /\ pipe'[i][2] = "tail" => Before(i)' = <<pipe'[i][1], "head">>
                                            /\ stage[pipe'[i][1]] \in {"waiting", "done"}
                 /\ pipe'[i][2] = "head" /\ Before(i)'[2] = "head" =>
                       outcome[Before(i)'[1]] = "cancelled"
      <4>1. /\ pipe[i + 1][2] = "tail" => Before(i + 1) = <<pipe[i + 1][1], "head">>
                                           /\ stage[pipe[i + 1][1]] \in {"waiting", "done"}
            /\ pipe[i + 1][2] = "head" /\ Before(i + 1)[2] = "head" =>
                  outcome[Before(i + 1)[1]] = "cancelled"
        BY <1>4 DEF IInv, PipeInv, Sent
      <4>2. CASE i = 1
        BY <4>1, <4>2, <2>6, <1>4, <1>8, <1>10
      <4>3. CASE i # 1
        <5>1. i > 1 /\ i \in 1 .. n + 1
          BY <4>3
        <5>2. Before(i)' = Before(i + 1) /\ pipe'[i] = pipe[i + 1]
          BY <5>1, <1>4, <1>6
        <5> QED BY <5>2, <4>1
      <4> QED BY <4>2, <4>3
    <3> QED BY <3>1, <1>1, <1>4 DEF PipeInv, Sent
  <2>9. EndInv'
    <3>1. LastPart' = LastPart \/ (LastPart'[2] = "tail" /\ LastPart[2] = "tail")
      <4>1. CASE n = 0
        <5>1. LastPart = <<w, k>>
          BY <4>1, <1>7, <1>8
        <5>2. LastPart' = <<None, "tail">>
          BY <4>1, <1>7, <2>6
        <5> QED BY <5>1, <5>2, <1>10
      <4>2. CASE n # 0
        BY <4>2, <1>6, <1>7
      <4> QED BY <4>1, <4>2
    <3> QED BY <3>1, <1>1 DEF IInv, EndInv, Broken
  <2>10. GotInv'
    <3>1. line = Whole(w) \/ \E i \in 1 .. Len(line) : outcome[line[i]] = "cancelled"
      <4>1. CASE Len(text) = 1
        <5>1. line[1] = w /\ line[2] = w /\ Len(line) = 2
          BY <4>1, <2>3, <2>4
        <5>2. Whole(w) \in Seq(Writers) /\ Len(Whole(w)) = 2 /\ Whole(w)[1] = w /\ Whole(w)[2] = w
          BY DEF Whole
        <5> QED BY <5>1, <5>2, <2>4, SeqEqual
      <4>2. CASE Len(text) # 1
        <5>0. Len(line) = Len(text) + 1
          BY <2>4
        <5>3. PICK m \in Nat : m = Len(text)
          BY <1>1, LenProperties
        <5>4. m \in 1 .. m /\ m # 1
          BY <2>3, <4>2, <5>3
        <5>5. 1 \in 1 .. m /\ 1 < m /\ 1 \in 1 .. m + 1
          BY <5>4
        <5>1. 1 \in 1 .. Len(text) /\ 1 < Len(text) /\ 1 \in 1 .. Len(line)
          BY <5>0, <5>3, <5>5
        <5>2. line[1] = text[1] /\ outcome[text[1]] = "cancelled"
          BY <5>1, <2>4 DEF IInv, GotInv
        <5> QED BY <5>1, <5>2
      <4> QED BY <4>1, <4>2
    <3>2. \A l \in got' :
             /\ Sent(l[Len(l)])
             /\ l = Whole(l[Len(l)]) \/ \E i \in 1 .. Len(l) : outcome[l[i]] = "cancelled"
      BY <3>1, <2>1, <2>2, <2>4 DEF IInv, GotInv
    <3> QED BY <3>2, <2>1, <1>1 DEF GotInv, Sent, Whole
  <2> QED BY <1>5, <2>7, <2>8, <2>9, <2>10 DEF IInv
<1> QED BY <1>3, <1>9, <1>10

(* The helper writes a line, of a request it read whole if it answers one. *)
LEMMA SayStep ==
    ASSUME Typed, IInv, NEW l \in Lines, HelperSays(l)
    PROVE  Typed' /\ IInv'
<1>1. /\ UNCHANGED <<stdin, alive, pending, stage, outcome, replied, pipe, text, got, handling, ended>>
      /\ l \notin said /\ said' = said \cup {l} /\ out' = Append(out, l)
      /\ out \in Seq(Lines) /\ Len(out) < OutRoom
  BY DEF HelperSays, node, reader, Typed, HelperTypeOK
<1>2. /\ out' \in Seq(Lines) /\ Len(out) \in Nat /\ Len(out') = Len(out) + 1
      /\ \A i \in 1 .. Len(out) : out'[i] = out[i]
      /\ out'[Len(out) + 1] = l
  BY <1>1, Appended
<1>3. ASSUME NEW i \in 1 .. Len(out')
      PROVE  (i \in 1 .. Len(out) /\ out'[i] = out[i] /\ out[i] \in said /\ out'[i] # l)
             \/ (i = Len(out) + 1 /\ out'[i] = l)
  BY <1>1, <1>2 DEF IInv, SaidInv
<1>4. Typed'
  BY <1>1, <1>2, BoundsAssumption DEF Typed, CallsTypeOK, HelperTypeOK, ReaderTypeOK
<1>5. LockInv' /\ PipeInv' /\ EndInv' /\ GotInv'
  BY <1>1 DEF IInv, LockInv, Holds, PipeInv, EndInv, LastPart, Before, Broken, GotInv, Sent, Whole
<1>6. ASSUME NEW r \in Waiters, Reply(r) = l PROVE Sent(r)
  <2>1. Whole(r) \in got
    BY <1>6, Apart DEF HelperSays
  <2>2. Len(Whole(r)) = 2 /\ Whole(r)[2] = r
    BY DEF Whole
  <2> QED BY <2>1, <2>2 DEF IInv, GotInv
<1>7. SaidInv'
  <2>1. \A i \in 1 .. Len(out') : out'[i] \in said'
    BY <1>1, <1>3
  <2>2. \A i, j \in 1 .. Len(out') : out'[i] = out'[j] => i = j
    BY <1>3 DEF IInv, SaidInv
  <2>3. \A a \in Asks : stage[a] = "idle"
                        \/ (Ask(a) \in said' /\ \A i \in 1 .. Len(out') : out'[i] # Ask(a))
    BY <1>1, <1>3 DEF IInv, SaidInv
  <2>4. \A r \in Waiters : Reply(r) \in said' => Sent(r)
    BY <1>1, <1>6 DEF IInv, SaidInv
  <2> QED BY <2>1, <2>2, <2>3, <2>4, <1>1 DEF SaidInv, Sent
<1>8. TableInv'
  <2>1. \A r \in replied : /\ Reply(r) \in said'
                           /\ \A i \in 1 .. Len(out') : out'[i] # Reply(r)
    BY <1>1, <1>3 DEF IInv, TableInv
  <2> QED BY <2>1, <1>1 DEF IInv, TableInv
<1> QED BY <1>4, <1>5, <1>7, <1>8 DEF IInv

(* The reader takes the next line.                                         *)
LEMMA ReadLineStep ==
    ASSUME Typed, IInv, ReadLine
    PROVE  Typed' /\ IInv'
<1> DEFINE l == Head(out)
<1>1. /\ UNCHANGED <<stdin, alive, outcome, pipe, text, got, said, ended>>
      /\ ~ended /\ handling = None /\ out # <<>>
      /\ out \in Seq(Lines) /\ out' = Tail(out)
      /\ stage \in [Writers -> Stages]
  BY DEF ReadLine, Typed, HelperTypeOK, CallsTypeOK
<1>2. /\ l \in Lines /\ out' \in Seq(Lines) /\ l = out[1] /\ 1 \in 1 .. Len(out)
      /\ Len(out) \in Nat \ {0} /\ Len(out') = Len(out) - 1
      /\ \A i \in 1 .. Len(out') : i + 1 \in 1 .. Len(out) /\ out'[i] = out[i + 1]
  BY <1>1, Taken
<1> HIDE DEF l
<1>3. ASSUME NEW i \in 1 .. Len(out')
      PROVE  /\ out'[i] \in said /\ out'[i] # l
             /\ \A m : (\A j \in 1 .. Len(out) : out[j] # m) => out'[i] # m
  BY <1>2 DEF IInv, SaidInv
<1>4. \A i, j \in 1 .. Len(out') : out'[i] = out'[j] => i = j
  BY <1>2 DEF IInv, SaidInv
<1>5. l \in said
  BY <1>2 DEF IInv, SaidInv
<1>6. HelperTypeOK'
  BY <1>1, <1>2, BoundsAssumption DEF Typed, HelperTypeOK
<1>7. ASSUME UNCHANGED stage
      PROVE  LockInv' /\ PipeInv' /\ EndInv' /\ GotInv' /\ SaidInv'
  <2>1. LockInv' /\ PipeInv' /\ EndInv' /\ GotInv'
    BY <1>1, <1>7 DEF IInv, LockInv, Holds, PipeInv, EndInv, LastPart, Before, Broken, GotInv, Sent, Whole
  <2>2. SaidInv'
    BY <1>1, <1>3, <1>4, <1>7 DEF IInv, SaidInv, Sent
  <2> QED BY <2>1, <2>2
<1>8. CASE /\ Answered
           /\ pending' = pending \ {l.of} /\ replied' = replied \cup {l.of}
           /\ UNCHANGED <<stage, handling>>
  <2>1. l.of \in Waiters /\ l = Reply(l.of) /\ l.of \in pending
    BY <1>2, <1>8, Apart DEF Answered, l
  <2>2. Sent(l.of)
    BY <1>5, <2>1 DEF IInv, SaidInv
  <2>3. stage[l.of] = "waiting" \/ outcome[l.of] = "cancelled"
    BY <2>1, <2>2 DEF IInv, TableInv, Sent, InFlight
  <2>4. TableInv'
    <3>1. \A r \in Waiters : stage[r] \in InFlight /\ ~ended => r \in pending' \cup replied'
      BY <1>8 DEF IInv, TableInv
    <3>2. \A r \in pending' : stage[r] \in InFlight \/ outcome[r] = "cancelled"
      BY <1>8 DEF IInv, TableInv
    <3>3. \A r \in replied' :
             /\ stage[r] = "waiting" \/ outcome[r] \in {"reply", "cancelled"}
             /\ Reply(r) \in said /\ \A i \in 1 .. Len(out') : out'[i] # Reply(r)
      BY <1>3, <1>5, <1>8, <2>1, <2>3 DEF IInv, TableInv
    <3> QED BY <3>1, <3>2, <3>3, <1>1, <1>8 DEF IInv, TableInv
  <2> QED BY <2>1, <2>4, <1>1, <1>6, <1>7, <1>8 DEF IInv, Typed, CallsTypeOK, ReaderTypeOK
<1>9. CASE /\ l.kind = "ask"
           /\ stage' = [stage EXCEPT ![l.of] = "asked"]
           /\ UNCHANGED <<pending, replied, handling>>
  <2>1. PICK a \in Asks : l.of = a /\ l = Ask(a) /\ a \in Writers /\ a \notin Waiters
    BY <1>2, <1>9, Apart
  <2>2. stage[a] = "idle" /\ outcome[a] = "none"
    BY <1>2, <2>1 DEF IInv, SaidInv, LockInv
  <2>3. /\ stage' \in [Writers -> Stages] /\ stage'[a] = "asked"
        /\ \A v \in Writers \ {a} : stage'[v] = stage[v]
    BY <1>1, <1>9, <2>1 DEF Stages
  <2>4. \A v \in Writers : Sent(v) => Sent(v)'
    BY <2>2, <2>3 DEF Sent
  <2>5. /\ \A i \in 1 .. Len(pipe) : pipe[i] \in Parts
        /\ \A k \in got : Len(k) \in 1 .. Len(k) /\ \A i \in 1 .. Len(k) : k[i] \in Writers
        /\ Len(pipe) \in Nat
    BY ElementOfSeq, EmptySeq, LenProperties DEF Typed, HelperTypeOK
  <2>6. \A i \in 1 .. Len(pipe) + 1 : Before(i)' = Before(i)
    BY <1>1 DEF Before
  <2>7. LockInv'
    BY <1>1, <2>2, <2>3 DEF IInv, LockInv, Holds
  <2>8. PipeInv'
    <3>1. \A i \in 1 .. Len(pipe) : pipe[i][1] \in Writers
      BY <2>5 DEF Parts
    <3> QED BY <3>1, <1>1, <2>4, <2>5, <2>6 DEF IInv, PipeInv
  <2>9. EndInv'
    <3>1. LastPart' = LastPart
      BY <1>1 DEF LastPart, Before
    <3>2. LastPart \in Parts \/ LastPart = <<None, "tail">>
      BY <2>5, BeforeType DEF LastPart
    <3> QED BY <3>1, <3>2, <1>1, <2>2, <2>3 DEF IInv, EndInv, Broken, Parts
  <2>10. GotInv'
    BY <1>1, <2>4, <2>5 DEF IInv, GotInv, Whole
  <2>11. SaidInv'
    <3>1. Ask(a) \in said /\ \A i \in 1 .. Len(out') : out'[i] # Ask(a)
      BY <1>3, <1>5, <2>1
    <3>2. ASSUME NEW b \in Asks
          PROVE  stage'[b] = "idle"
                 \/ (Ask(b) \in said /\ \A i \in 1 .. Len(out') : out'[i] # Ask(b))
      <4>1. CASE b = a
        BY <3>1, <4>1
      <4>2. CASE b # a
        <5>1. stage'[b] = stage[b]
          BY <2>3, <4>2 DEF Writers
        <5>2. stage[b] = "idle"
              \/ (Ask(b) \in said /\ \A i \in 1 .. Len(out) : out[i] # Ask(b))
          BY DEF IInv, SaidInv
        <5>3. CASE \A i \in 1 .. Len(out) : out[i] # Ask(b)
          <6>1. \A i \in 1 .. Len(out') : out'[i] # Ask(b)
            BY <1>3, <5>3
          <6> QED BY <5>1, <5>2, <6>1
        <5> QED BY <5>1, <5>2, <5>3
      <4> QED BY <4>1, <4>2
    <3>3. \A r \in Waiters : Reply(r) \in said => Sent(r)'
      BY <2>4, Apart DEF IInv, SaidInv
    <3> QED BY <3>2, <3>3, <1>1, <1>3, <1>4 DEF SaidInv
  <2>12. TableInv'
    <3>1. \A r \in Waiters : stage'[r] = stage[r]
      BY <2>1, <2>3, Apart
    <3>2. pending \subseteq Waiters /\ replied \subseteq Waiters
      BY DEF Typed, CallsTypeOK
    <3> QED BY <3>1, <3>2, <1>1, <1>3, <1>9 DEF IInv, TableInv
  <2> QED BY <2>3, <2>7, <2>8, <2>9, <2>10, <2>11, <2>12, <1>1, <1>6, <1>9
          DEF IInv, Typed, CallsTypeOK, ReaderTypeOK
<1>10. CASE /\ ~Answered /\ l.kind # "ask" /\ handling' = l
            /\ UNCHANGED <<pending, replied, stage>>
  <2>1. ASSUME NEW r \in Waiters, l = Reply(r) PROVE stage[r] = "done"
    <3>1. r \notin pending
      BY <2>1, <1>1, <1>10, Apart DEF Answered, l
    <3>2. r \notin replied
      BY <2>1, <1>2 DEF IInv, TableInv
    <3>3. Sent(r)
      BY <2>1, <1>5 DEF IInv, SaidInv
    <3> QED BY <3>1, <3>2, <3>3, <1>1 DEF IInv, TableInv, Sent, InFlight
  <2>2. TableInv'
    BY <2>1, <1>1, <1>3, <1>10 DEF IInv, TableInv
  <2> QED BY <2>2, <1>1, <1>2, <1>6, <1>7, <1>10 DEF IInv, Typed, CallsTypeOK, ReaderTypeOK
<1> QED BY <1>8, <1>9, <1>10 DEF ReadLine, l

(* The helper ends, the handler returns, the reader ends.                  *)
LEMMA EndStep ==
    ASSUME Typed, IInv, HelperEnds \/ Handled \/ ReaderEnds
    PROVE  Typed' /\ IInv'
<1> USE DEF node, helper, reader
<1>0. /\ UNCHANGED <<stdin, stage, outcome, replied, pipe, text, got, said, out>>
      /\ alive' \in BOOLEAN /\ (alive' = alive \/ ~alive')
  BY DEF HelperEnds, Handled, ReaderEnds, Typed, HelperTypeOK
<1>1. /\ UNCHANGED <<stdin, stage, outcome, replied, pipe, text, got, said, out>>
      /\ alive' \in BOOLEAN
      /\ Broken => Broken'
  BY <1>0 DEF Broken
<1>2. LockInv' /\ PipeInv' /\ EndInv' /\ GotInv' /\ SaidInv'
  <2>1. LockInv' /\ PipeInv' /\ GotInv' /\ SaidInv'
    BY <1>1 DEF IInv, LockInv, Holds, PipeInv, Before, GotInv, SaidInv, Sent, Whole
  <2>2. LastPart' = LastPart
    BY <1>1 DEF LastPart, Before
  <2>3. EndInv'
    <3>1. stage' = stage /\ outcome' = outcome /\ (Broken => Broken')
      BY <1>1
    <3> QED BY <3>1, <2>2 DEF IInv, EndInv
  <2> QED BY <2>1, <2>3
<1>3. Typed'
  BY <1>1 DEF HelperEnds, Handled, ReaderEnds, Typed, CallsTypeOK, HelperTypeOK, ReaderTypeOK
<1>4. TableInv'
  <2>1. \A r \in Waiters : Reply(r) # None
    BY NoneAssumption, Apart
  <2> QED BY <2>1, <1>1 DEF HelperEnds, Handled, ReaderEnds, IInv, TableInv
<1> QED BY <1>2, <1>3, <1>4 DEF IInv

-----------------------------------------------------------------------------
LEMMA IInvInit == Init => Typed /\ IInv
<1> SUFFICES ASSUME Init PROVE Typed /\ IInv
  OBVIOUS
<1>1. Len(<<>>) = 0 /\ <<>> \in Seq(Parts) /\ <<>> \in Seq(Writers) /\ <<>> \in Seq(Lines)
  BY EmptySeq
<1>2. Typed
  <2>1. CallsTypeOK /\ ReaderTypeOK
    BY DEF Init, CallsTypeOK, ReaderTypeOK, Stages, Outcomes
  <2>2. HelperTypeOK
    BY <1>1, BoundsAssumption DEF Init, HelperTypeOK
  <2> QED BY <2>1, <2>2 DEF Typed
<1>3. LastPart = <<None, "tail">>
  BY <1>1 DEF Init, LastPart, Before
<1>4. \A r \in Waiters : Reply(r) # None
  BY NoneAssumption, Apart
<1>5. LockInv /\ PipeInv /\ GotInv /\ SaidInv /\ TableInv
  BY <1>1, <1>4, Apart DEF Init, LockInv, Holds, PipeInv, GotInv, SaidInv, TableInv, InFlight
<1>6. EndInv
  BY <1>3 DEF Init, EndInv
<1> QED BY <1>2, <1>5, <1>6 DEF IInv

LEMMA IInvNext ==
    ASSUME Typed, IInv, [Next]_vars
    PROVE  Typed' /\ IInv'
<1>1. CASE UNCHANGED vars
  BY <1>1 DEF vars, node, helper, reader, Typed, CallsTypeOK, HelperTypeOK, ReaderTypeOK,
              IInv, LockInv, Holds, PipeInv, EndInv, LastPart, Before, Broken, GotInv, Sent,
              Whole, SaidInv, TableInv
<1>2. CASE Next
  <2>1. Sends \subseteq Writers
    BY DEF Writers
  <2>2. CASE \E r \in Waiters : Request(r) \/ Return(r) \/ Exited(r) \/ ReplyLate(r)
    BY <2>2, CallStep, Apart
  <2>3. CASE \E s \in Sends : Send(s)
    BY <2>3, <2>1, CallStep
  <2>4. CASE \E a \in Asks : Answer(a)
    BY <2>4, CallStep, Apart
  <2>5. CASE \E w \in Writers : Lock(w) \/ WriteFails(w) \/ WriteLate(w) \/ KillLate(w)
    BY <2>5, CallStep
  <2>6. CASE \E w \in Writers : WritePart(w)
    BY <2>6, WriteStep
  <2>7. CASE \E w \in Droppable : Cancel(w)
    BY <2>7, CallStep, Apart
  <2>8. CASE HelperReads
    BY <2>8, ReadStep
  <2>9. CASE \E l \in Lines : HelperSays(l)
    BY <2>9, SayStep
  <2>10. CASE ReadLine
    BY <2>10, ReadLineStep
  <2>11. CASE HelperEnds \/ Handled \/ ReaderEnds
    BY <2>11, EndStep
  <2> QED BY <1>2, <2>2, <2>3, <2>4, <2>5, <2>6, <2>7, <2>8, <2>9, <2>10, <2>11 DEF Next
<1> QED BY <1>1, <1>2

(* The parts of a helper's pipes, the calls and the table of waiting       *)
(* requests agree (src/src/node/mod.rs:598-792: the helper, its handle,    *)
(* the reading task): the inductive invariant.                             *)
THEOREM PipesAgree == Spec => [](Typed /\ IInv)
<1>1. Typed /\ IInv /\ [Next]_vars => Typed' /\ IInv'
  BY IInvNext
<1> QED BY IInvInit, <1>1, PTL DEF Spec

(* The state is of its type, one call writes at a time, and an ended       *)
(* request took its id with it unless it was cancelled.                    *)
THEOREM CoherentHolds == Spec => []Coherent
<1>1. Typed /\ IInv => Coherent
  BY DEF Typed, CallsTypeOK, HelperTypeOK, ReaderTypeOK, IInv, LockInv, TableInv, Coherent
<1> QED BY <1>1, PipesAgree, PTL

(* A line reaches the helper as it was written, or a cancel tore it        *)
(* (Spawned::write closes the stdin of a write that timed out).            *)
THEOREM TornByCancelOnlyHolds == Spec => []TornByCancelOnly
<1>1. IInv => TornByCancelOnly
  BY DEF IInv, GotInv, TornByCancelOnly
<1> QED BY <1>1, PipesAgree, PTL

(* An answer read while its request waits is that request's: it goes to no *)
(* handler, and the request ends with it unless it is cancelled.           *)
THEOREM AnswersArriveHolds == Spec => []AnswersArrive
<1>1. Typed /\ IInv => AnswersArrive
  <2> SUFFICES ASSUME Typed, IInv PROVE AnswersArrive
    OBVIOUS
  <2>1. ASSUME NEW r \in replied PROVE outcome[r] \in {"none", "reply", "cancelled"}
    <3>1. r \in Writers
      BY Apart DEF Typed, CallsTypeOK
    <3> QED BY <3>1 DEF IInv, TableInv, LockInv
  <2> QED BY <2>1 DEF IInv, TableInv, AnswersArrive
<1> QED BY <1>1, PipesAgree, PTL

-----------------------------------------------------------------------------
(* The refinement: a helper keeps what CallOnce promises of a request.     *)

(* The functions CallOnce is instantiated with.                            *)
Stage == [r \in Waiters |-> StageSeen(r)]
Result == [r \in Waiters |-> ResultSeen(r)]
Work == [r \in Waiters |-> WorkSeen(r)]

(* A call is seen to have a result when it is over.                        *)
LEMMA SeenOver ==
    ASSUME Typed, IInv, NEW r \in Waiters
    PROVE  /\ r \in Writers /\ stage[r] \in Stages
           /\ stage[r] # "done" => outcome[r] = "none" /\ ResultSeen(r) = "none"
<1>1. r \in Writers
  BY Apart
<1> QED BY <1>1 DEF Typed, CallsTypeOK, IInv, LockInv, ResultSeen

(* A step that changes nothing a call is seen by is no step of CallOnce.   *)
LEMMA UnseenStep ==
    ASSUME UNCHANGED <<got, said>>,
           \A r \in Waiters : StageSeen(r)' = StageSeen(r) /\ outcome'[r] = outcome[r]
    PROVE  UNCHANGED Promise!vars
<1>1. \A r \in Waiters : ResultSeen(r)' = ResultSeen(r) /\ WorkSeen(r)' = WorkSeen(r)
  BY DEF ResultSeen, WorkSeen
<1>2. Stage' = Stage /\ Result' = Result /\ Work' = Work
  BY <1>1 DEF Stage, Result, Work
<1> QED BY <1>2 DEF Promise!vars, Stage, Result, Work

(* A request that ends settles its call.                                   *)
LEMMA SettleStep ==
    ASSUME Typed, IInv, NEW r \in Waiters, NEW o \in {"reply", "exited", "closed", "late", "cancelled"},
           stage[r] \in InFlight, End(r, o), UNCHANGED <<got, said>>,
           o = "reply" => r \in replied
    PROVE  Promise!Next
<1> DEFINE seen == IF o = "reply" THEN "ok" ELSE IF o \in {"exited", "closed"} THEN "closed" ELSE "abandoned"
<1>1. /\ stage \in [Writers -> Stages] /\ outcome \in [Writers -> Outcomes] /\ r \in Writers
      /\ Waiters \subseteq Writers
  BY Apart DEF Typed, CallsTypeOK
<1>2. /\ StageSeen(r) = "waiting" /\ StageSeen(r)' = "done" /\ ResultSeen(r)' = seen
  BY <1>1 DEF End, StageSeen, ResultSeen, InFlight
<1>3. \A q \in Waiters \ {r} : StageSeen(q)' = StageSeen(q) /\ ResultSeen(q)' = ResultSeen(q)
  BY <1>1 DEF End, StageSeen, ResultSeen
<1>4. seen \in {"closed", "abandoned"} \cup ({Work[r]} \cap {"ok", "err"})
  <2>1. o = "reply" => Reply(r) \in said
    BY DEF IInv, TableInv
  <2>2. o = "reply" => Work[r] = "ok"
    BY <2>1 DEF Work, WorkSeen
  <2> QED BY <2>2
<1>5. Work' = Work
  BY DEF Work, WorkSeen
<1>6. Stage[r] = "waiting" /\ Stage' = [Stage EXCEPT ![r] = "done"] /\ Result' = [Result EXCEPT ![r] = seen]
  BY <1>2, <1>3 DEF Stage, Result
<1>7. Promise!Settle(r)
  BY <1>4, <1>5, <1>6 DEF Promise!Settle, Promise!Answers, Stage, Result, Work
<1> QED BY <1>7 DEF Promise!Next

(* The steps of a call.                                                    *)
LEMMA PromiseCallStep ==
    ASSUME Typed, IInv, NEW w \in Writers,
           \/ w \in Waiters /\ (Request(w) \/ Return(w) \/ Exited(w) \/ ReplyLate(w))
           \/ w \in Sends /\ Send(w)
           \/ w \in Asks /\ Answer(w)
           \/ Lock(w) \/ WritePart(w) \/ WriteFails(w) \/ WriteLate(w) \/ KillLate(w)
           \/ Cancel(w)
    PROVE  [Promise!Next]_(Promise!vars)
<1>1. /\ stage \in [Writers -> Stages] /\ outcome \in [Writers -> Outcomes]
      /\ Waiters \subseteq Writers /\ Waiters \cap (Sends \cup Asks) = {}
  BY Apart, WritersAssumption DEF Typed, CallsTypeOK, Waiters
<1>2. UNCHANGED <<got, said>>
  BY DEF Request, Return, Exited, ReplyLate, Send, Answer, Lock, WritePart, WriteFails,
         WriteLate, KillLate, Cancel, helper
<1>3. CASE w \notin Waiters
  <2>1. \A r \in Waiters : stage'[r] = stage[r] /\ outcome'[r] = outcome[r]
    BY <1>1, <1>3 DEF Request, Return, Exited, ReplyLate, Send, Answer, Lock, WritePart,
         WriteFails, WriteLate, KillLate, Cancel, End
  <2> QED BY <1>2, <2>1, UnseenStep DEF StageSeen
<1>4. CASE w \in Waiters /\ Request(w)
  <2>1. /\ stage[w] = "idle" /\ stage' = [stage EXCEPT ![w] = "locking"] /\ outcome' = outcome
    BY <1>4 DEF Request
  <2>2. StageSeen(w) = "idle" /\ StageSeen(w)' = "waiting"
    BY <1>1, <2>1 DEF StageSeen
  <2>3. \A q \in Waiters \ {w} : StageSeen(q)' = StageSeen(q)
    BY <1>1, <2>1 DEF StageSeen
  <2>4. Result' = Result /\ Work' = Work
    BY <1>2, <2>1 DEF Result, ResultSeen, Work, WorkSeen
  <2>5. Stage[w] = "idle" /\ Stage' = [Stage EXCEPT ![w] = "waiting"]
    BY <1>4, <2>2, <2>3 DEF Stage
  <2>6. Promise!Ask(w)
    BY <2>4, <2>5 DEF Promise!Ask, Stage, Result, Work
  <2> QED BY <1>4, <2>6 DEF Promise!Next
<1>5. CASE w \in Waiters /\ (Lock(w) \/ WritePart(w) \/ WriteLate(w))
  <2>1. /\ stage[w] \in {"locking", "writing", "half"}
        /\ \E s \in {"writing", "half", "waiting", "killing"} : stage' = [stage EXCEPT ![w] = s]
        /\ \A r \in Waiters : outcome'[r] = outcome[r]
    BY <1>1, <1>5 DEF Lock, WritePart, WriteLate, Holds, Written
  <2>2. \A r \in Waiters : StageSeen(r)' = StageSeen(r)
    BY <1>1, <1>5, <2>1 DEF StageSeen
  <2> QED BY <1>2, <2>1, <2>2, UnseenStep
<1>6. CASE w \in Waiters /\ (Return(w) \/ Exited(w) \/ ReplyLate(w) \/ WriteFails(w) \/ KillLate(w) \/ Cancel(w))
  BY <1>2, <1>6, SettleStep DEF Return, Exited, ReplyLate, WriteFails, KillLate, Cancel, Holds, InFlight
<1>7. CASE Send(w) \/ Answer(w)
  <2>1. w \notin Waiters \/ ~Send(w)
    BY <1>1 DEF Send
  <2>2. Answer(w) /\ w \in Waiters => \A r \in Waiters : StageSeen(r)' = StageSeen(r) /\ outcome'[r] = outcome[r]
    BY <1>1 DEF Answer, StageSeen
  <2> QED BY <1>2, <1>3, <1>7, <2>1, <2>2, UnseenStep
<1> QED BY <1>3, <1>4, <1>5, <1>6, <1>7

(* The helper reads: a request whose line it reads whole for the first     *)
(* time reaches its listener.                                              *)
LEMMA PromiseReadStep ==
    ASSUME Typed, IInv, HelperReads, Typed', IInv'
    PROVE  [Promise!Next]_(Promise!vars)
<1>1. UNCHANGED <<said, stage, outcome>>
  BY DEF HelperReads, node
<1>2. Stage' = Stage /\ Result' = Result
  BY <1>1 DEF Stage, Result, StageSeen, ResultSeen
<1>3. got \subseteq got' /\ \E l : got' \subseteq got \cup {l}
  BY DEF HelperReads
<1>4. CASE \A r \in Waiters : Whole(r) \in got' => Whole(r) \in got \/ Reply(r) \in said
  <2>1. Work' = Work
    BY <1>1, <1>3, <1>4 DEF Work, WorkSeen, Whole
  <2> QED BY <1>2, <2>1 DEF Promise!vars, Stage, Result, Work
<1>5. ASSUME NEW r \in Waiters, Whole(r) \in got', Whole(r) \notin got, Reply(r) \notin said
      PROVE  Promise!Next
  <2>1. \A q \in Waiters \ {r} : Whole(q) \in got' <=> Whole(q) \in got
    <3>1. \A q : Whole(q) = Whole(r) => q = r
      BY DEF Whole
    <3> QED BY <3>1, <1>3, <1>5
  <2>2. Work[r] = "none" /\ Work' = [Work EXCEPT ![r] = "running"]
    <3>1. WorkSeen(r) = "none" /\ WorkSeen(r)' = "running"
      BY <1>1, <1>5 DEF WorkSeen, Whole
    <3>2. \A q \in Waiters \ {r} : WorkSeen(q)' = WorkSeen(q)
      BY <1>1, <2>1 DEF WorkSeen, Whole
    <3> QED BY <3>1, <3>2 DEF Work
  <2>3. Stage[r] # "idle"
    <3>1. Len(Whole(r)) = 2 /\ Whole(r)[2] = r
      BY DEF Whole
    <3>2. Sent(r)
      BY <1>1, <1>5, <3>1 DEF IInv, GotInv, Sent
    <3> QED BY <3>2 DEF Sent, Stage, StageSeen
  <2>4. Promise!Run(r)
    BY <1>2, <2>2, <2>3 DEF Promise!Run, Stage, Result, Work
  <2> QED BY <2>4 DEF Promise!Next
<1> QED BY <1>4, <1>5

(* The helper writes: the answer of a request is what its listener came to.*)
LEMMA PromiseSayStep ==
    ASSUME Typed, IInv, NEW l \in Lines, HelperSays(l)
    PROVE  [Promise!Next]_(Promise!vars)
<1>1. UNCHANGED <<got, stage, outcome>> /\ said' = said \cup {l} /\ l \notin said
  BY DEF HelperSays, node
<1>2. Stage' = Stage /\ Result' = Result
  BY <1>1 DEF Stage, Result, StageSeen, ResultSeen
<1>3. CASE \A r \in Waiters : l # Reply(r)
  <2>1. Work' = Work
    BY <1>1, <1>3 DEF Work, WorkSeen
  <2> QED BY <1>2, <2>1 DEF Promise!vars, Stage, Result, Work
<1>4. ASSUME NEW r \in Waiters, l = Reply(r) PROVE Promise!Next
  <2>1. Whole(r) \in got
    BY <1>4, Apart DEF HelperSays
  <2>2. \A q \in Waiters \ {r} : Reply(q) # l
    BY <1>4, Apart
  <2>3. WorkSeen(r) = "running" /\ WorkSeen(r)' = "ok"
    BY <1>1, <1>4, <2>1 DEF WorkSeen
  <2>4. \A q \in Waiters \ {r} : WorkSeen(q)' = WorkSeen(q)
    BY <1>1, <2>2 DEF WorkSeen
  <2>5. Work[r] = "running" /\ Work' = [Work EXCEPT ![r] = "ok"]
    BY <2>3, <2>4 DEF Work
  <2>6. Promise!Finish(r)
    BY <1>2, <2>5 DEF Promise!Finish, Promise!Answers, Stage, Result, Work
  <2> QED BY <2>6 DEF Promise!Next
<1> QED BY <1>3, <1>4

(* The reader, the handler and the end of the helper end no request.       *)
LEMMA PromiseReaderStep ==
    ASSUME Typed, IInv, ReadLine \/ Handled \/ ReaderEnds \/ HelperEnds \/ UNCHANGED vars
    PROVE  UNCHANGED Promise!vars
<1>1. UNCHANGED <<got, said, outcome>>
  BY DEF ReadLine, Handled, ReaderEnds, HelperEnds, vars, node, helper, reader
<1>2. CASE UNCHANGED stage
  BY <1>1, <1>2, UnseenStep DEF StageSeen
<1>3. CASE ~UNCHANGED stage
  <2>1. /\ out # <<>> /\ Head(out).kind = "ask"
        /\ stage' = [stage EXCEPT ![Head(out).of] = "asked"]
    BY <1>3 DEF ReadLine, Handled, ReaderEnds, HelperEnds, vars, node
  <2>2. Head(out).of \in Asks /\ Head(out).of \notin Waiters
    BY <2>1, Taken, Apart DEF Typed, HelperTypeOK
  <2>3. \A r \in Waiters : stage'[r] = stage[r]
    BY <2>1, <2>2, Apart DEF Typed, CallsTypeOK
  <2> QED BY <1>1, <2>3, UnseenStep DEF StageSeen
<1> QED BY <1>2, <1>3

LEMMA PromiseInit == Init => Promise!Init
<1> SUFFICES ASSUME Init PROVE Promise!Init
  OBVIOUS
<1>1. \A r \in Waiters : StageSeen(r) = "idle" /\ ResultSeen(r) = "none" /\ WorkSeen(r) = "none"
  BY Apart DEF Init, StageSeen, ResultSeen, WorkSeen
<1> QED BY <1>1 DEF Promise!Init

LEMMA PromiseStep ==
    ASSUME Typed, IInv, [Next]_vars
    PROVE  [Promise!Next]_(Promise!vars)
<1>1. CASE \E w \in Writers :
              \/ w \in Waiters /\ (Request(w) \/ Return(w) \/ Exited(w) \/ ReplyLate(w))
              \/ w \in Sends /\ Send(w)
              \/ w \in Asks /\ Answer(w)
              \/ Lock(w) \/ WritePart(w) \/ WriteFails(w) \/ WriteLate(w) \/ KillLate(w)
              \/ Cancel(w)
  BY <1>1, PromiseCallStep
<1>2. CASE HelperReads
  BY <1>2, IInvNext, PromiseReadStep DEF Next
<1>3. CASE \E l \in Lines : HelperSays(l)
  BY <1>3, PromiseSayStep
<1>4. CASE ReadLine \/ Handled \/ ReaderEnds \/ HelperEnds \/ UNCHANGED vars
  BY <1>4, PromiseReaderStep
<1>5. Waiters \subseteq Writers /\ Sends \subseteq Writers /\ Asks \subseteq Writers /\ Droppable \subseteq Writers
  BY Apart DEF Writers
<1> QED BY <1>1, <1>2, <1>3, <1>4, <1>5 DEF Next

(* A request to a helper ends once, with what the helper answered to the   *)
(* line it read whole, or closed, or given up: a helper implements         *)
(* CallOnce.  node/mod.rs:649-792 (the reading task, Spawned::write).      *)
THEOREM EndsOnceHolds == Spec => EndsOnce
<1>1. Typed /\ IInv /\ [Next]_vars => [Promise!Next]_(Promise!vars)
  BY PromiseStep
<1> QED BY <1>1, PromiseInit, PipesAgree, PTL DEF Spec, EndsOnce, Promise!Spec

=============================================================================
