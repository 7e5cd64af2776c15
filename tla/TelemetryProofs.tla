-------------------------- MODULE TelemetryProofs --------------------------
(***************************************************************************)
(* Theorems about the recorder and the diagnostics of a base, for any      *)
(* number of activities and lines, any capacities and caps, and any number *)
(* of attempts and of calls to the filesystem that fail.                   *)
(***************************************************************************)
EXTENDS Telemetry, FiniteSetTheorems, SequenceTheorems, TLAPS

Message == [record : 1..Records, missing : Nat]

RecorderTyped ==
    /\ made \in 0..Records
    /\ queue \in Seq(1..Records)
    /\ refusing \in Nat
    /\ dropped \in Nat
    /\ sending \in Message \cup {None}
    /\ failed \in Nat
    /\ log \in Seq(Message)
    /\ spoilt \in Nat

\* What waits in the queue is newer than all that was sent, in its order.
QueueIsNewer ==
    /\ \A i \in 1..Len(queue) : queue[i] <= made
    /\ \A i, j \in 1..Len(queue) : i < j => queue[i] < queue[j]
    /\ \A e \in Sent : e.record <= made /\ \A i \in 1..Len(queue) : e.record < queue[i]

\* What was appended is in the order it was recorded, a repetition included.
LogInOrder == \A i, j \in 1..Len(log) : i < j => log[i] = log[j] \/ log[i].record < log[j].record

\* What the writer has is older than what is sent, unless it is the same.
LogIsOlder ==
    /\ LogInOrder
    /\ \A i \in 1..Len(log) : log[i].record \notin Unfit
    /\ \A e \in Sent : sending # None => e = sending \/ e.record < sending.record

FiniteSent == IsFiniteSet(Sent) /\ IsFiniteSet(Gaps(Sent))

RecorderInv == RecorderTyped /\ QueueIsNewer /\ LogIsOlder /\ FiniteSent /\ Accounted

-----------------------------------------------------------------------------

\* What is appended is the last element, and nothing else changes.
LEMMA Appended ==
    ASSUME NEW S, NEW q \in Seq(S), NEW e \in S
    PROVE  /\ Append(q, e) \in Seq(S) /\ Len(q) \in Nat
           /\ Len(Append(q, e)) = Len(q) + 1
           /\ \A i \in 1..Len(q) + 1 : Append(q, e)[i] = IF i = Len(q) + 1 THEN e ELSE q[i]
OBVIOUS

\* The tail is what follows the head.
LEMMA Shifted ==
    ASSUME NEW S, NEW q \in Seq(S), q # <<>>
    PROVE  /\ Len(q) \in Nat \ {0} /\ Tail(q) \in Seq(S) /\ Len(Tail(q)) = Len(q) - 1
           /\ \A i \in 1..Len(Tail(q)) : Tail(q)[i] = q[i + 1] /\ i + 1 \in 1..Len(q)
           /\ Head(q) = q[1] /\ 1 \in 1..Len(q)
<1>1. Len(q) \in Nat \ {0} /\ Tail(q) \in Seq(S) /\ Len(Tail(q)) = Len(q) - 1 /\ Head(q) = q[1]
  BY EmptySeq
<1>2. \A i \in 1..Len(Tail(q)) : Tail(q)[i] = q[i + 1]
  OBVIOUS
<1> QED BY <1>1, <1>2

\* A record sent for the first time adds itself and its count, and no more.
LEMMA GapsAdded ==
    ASSUME NEW S, IsFiniteSet(S), IsFiniteSet(Gaps(S)), NEW e \in Message, e \notin S
    PROVE  /\ IsFiniteSet(S \cup {e})
           /\ Cardinality(S \cup {e}) = Cardinality(S) + 1
           /\ IsFiniteSet(Gaps(S \cup {e}))
           /\ Cardinality(Gaps(S \cup {e})) = Cardinality(Gaps(S)) + e.missing
<1> DEFINE own == {e} \X (1..e.missing)
<1>1. PICK n \in Nat : n = e.missing
  BY DEF Message
<1>2. IsFiniteSet(own) /\ Cardinality(own) = n
  <2>1. IsFiniteSet({e}) /\ Cardinality({e}) = 1
    BY FS_Singleton
  <2>2. IsFiniteSet(1..n) /\ Cardinality(1..n) = n
    <3>1. 1 \in Int /\ n \in Int
      OBVIOUS
    <3>2. IsFiniteSet(1..n) /\ Cardinality(1..n) = IF 1 > n THEN 0 ELSE n - 1 + 1
      BY ONLY <3>1, FS_Interval, Zenon
    <3> QED BY <3>2
  <2>3. IsFiniteSet({e} \X (1..n)) /\ Cardinality({e} \X (1..n)) = Cardinality({e}) * Cardinality(1..n)
    BY ONLY <2>1, <2>2, FS_Product, Zenon
  <2>4. Cardinality({e} \X (1..n)) = 1 * n
    BY <2>1, <2>2, <2>3, Zenon
  <2> QED BY <1>1, <2>3, <2>4
<1>3. Gaps(S \cup {e}) = Gaps(S) \cup own
  BY DEF Gaps
<1>4. Gaps(S) \cap own = {}
  BY DEF Gaps
<1>5. /\ IsFiniteSet(Gaps(S) \cup own)
      /\ Cardinality(Gaps(S) \cup own) = Cardinality(Gaps(S)) + Cardinality(own) - Cardinality(Gaps(S) \cap own)
  BY <1>2, FS_Union
<1>6. Cardinality(Gaps(S) \cap own) = 0
  BY <1>4, FS_EmptySet
<1>7. Cardinality(Gaps(S)) \in Nat
  BY FS_CardinalityType
<1>8. IsFiniteSet(S \cup {e}) /\ Cardinality(S \cup {e}) = Cardinality(S) + 1
  BY FS_AddElement
<1> HIDE DEF own
<1>9. Cardinality(Gaps(S \cup {e})) = Cardinality(Gaps(S)) + n - 0
  BY <1>2, <1>3, <1>5, <1>6, Zenon
<1>10. Cardinality(Gaps(S)) + n - 0 = Cardinality(Gaps(S)) + n
  BY <1>7
<1>11. IsFiniteSet(Gaps(S \cup {e}))
  BY <1>3, <1>5
<1>12. Cardinality(Gaps(S \cup {e})) = Cardinality(Gaps(S)) + e.missing
  BY <1>1, <1>9, <1>10, Zenon
<1> QED BY <1>8, <1>11, <1>12, Zenon

LEMMA NoneIsNoMessage == None \notin Message
BY RecorderAssumption DEF Message

LEMMA RecorderInitially == RecorderInit => RecorderInv
<1> SUFFICES ASSUME RecorderInit PROVE RecorderInv
  OBVIOUS
<1>1. RecorderTyped
  BY RecorderAssumption DEF RecorderInit, RecorderTyped
<1>2. Sent = {} /\ Gaps(Sent) = {}
  BY DEF RecorderInit, Sent, Gaps
<1>3. FiniteSent /\ Cardinality(Sent) = 0 /\ Cardinality(Gaps(Sent)) = 0
  BY <1>2, FS_EmptySet DEF FiniteSent
<1>4. QueueIsNewer /\ LogIsOlder
  BY <1>2 DEF RecorderInit, QueueIsNewer, LogIsOlder, LogInOrder
<1>5. Accounted
  BY <1>3 DEF RecorderInit, Accounted
<1> QED BY <1>1, <1>3, <1>4, <1>5 DEF RecorderInv

LEMMA SentAreMessages == RecorderTyped => \A e \in Sent : e \in Message
BY ElementOfSeq DEF RecorderTyped, Sent

\* A step that sends nothing new and forgets nothing leaves what was sent.
LEMMA SentStays ==
    ASSUME FiniteSent, Sent' = Sent
    PROVE  /\ FiniteSent'
           /\ Cardinality(Sent)' = Cardinality(Sent)
           /\ Cardinality(Gaps(Sent))' = Cardinality(Gaps(Sent))
BY DEF FiniteSent, Gaps

LEMMA AccountOf ==
    ASSUME FiniteSent, Sent' = Sent, Accounted
    PROVE  \E a, b \in Nat :
              /\ made = Len(queue) + a + refusing + dropped + b + spoilt
              /\ made' = Len(queue') + a + refusing' + dropped' + b + spoilt' => Accounted'
<1>1. Cardinality(Sent) \in Nat /\ Cardinality(Gaps(Sent)) \in Nat
  BY FS_CardinalityType DEF FiniteSent
<1>2. Cardinality(Sent)' = Cardinality(Sent) /\ Cardinality(Gaps(Sent))' = Cardinality(Gaps(Sent))
  BY SentStays
<1> QED BY <1>1, <1>2, Zenon DEF Accounted

LEMMA RecordKeeps == RecorderInv /\ Record => RecorderInv'
<1> SUFFICES ASSUME RecorderInv, Record PROVE RecorderInv'
  OBVIOUS
<1>1. /\ RecorderTyped /\ QueueIsNewer /\ LogIsOlder /\ FiniteSent /\ Accounted
      /\ Cardinality(Sent) \in Nat /\ Cardinality(Gaps(Sent)) \in Nat
  BY FS_CardinalityType DEF RecorderInv, FiniteSent
<1>2. Sent' = Sent
  BY DEF Record, Sent
<1>3. /\ made \in Nat /\ made' = made + 1 /\ made + 1 \in 1..Records
      /\ queue \in Seq(1..Records) /\ Len(queue) \in Nat /\ refusing \in Nat /\ dropped \in Nat
      /\ spoilt \in Nat
  BY <1>1, RecorderAssumption DEF Record, RecorderTyped
<1>4. \A e \in Sent : e.record \in Int /\ e.record <= made
  BY <1>1, SentAreMessages DEF QueueIsNewer, Message
<1>5. LogIsOlder'
  BY <1>1, <1>2 DEF LogIsOlder, LogInOrder, Record
<1>6. CASE Len(queue) < Capacity
  <2>1. queue' = Append(queue, made + 1) /\ refusing' = refusing
    BY <1>3, <1>6 DEF Record
  <2>2. /\ queue' \in Seq(1..Records) /\ Len(queue') = Len(queue) + 1
        /\ \A i \in 1..Len(queue') : queue'[i] = IF i = Len(queue) + 1 THEN made + 1 ELSE queue[i]
        /\ \A i \in 1..Len(queue) : queue[i] \in 1..Records
    <3>1. \A i \in 1..Len(queue) : queue[i] \in 1..Records
      BY <1>3, ElementOfSeq
    <3>2. /\ Append(queue, made + 1) \in Seq(1..Records)
          /\ Len(Append(queue, made + 1)) = Len(queue) + 1
          /\ \A i \in 1..Len(queue) + 1 :
                Append(queue, made + 1)[i] = IF i = Len(queue) + 1 THEN made + 1 ELSE queue[i]
      <4>1. queue \in Seq(1..Records) /\ made + 1 \in 1..Records
        BY <1>3
      <4> QED BY ONLY <4>1, Appended
    <3> QED BY <2>1, <3>1, <3>2, Zenon
  <2>3. RecorderTyped'
    BY <1>1, <1>3, <2>1, <2>2, RecorderAssumption DEF Record, RecorderTyped
  <2>4. QueueIsNewer'
    <3>1. \A i \in 1..Len(queue') : queue'[i] <= made'
      BY <1>1, <1>3, <2>2 DEF QueueIsNewer
    <3>2. \A i, j \in 1..Len(queue') : i < j => queue'[i] < queue'[j]
      BY <1>1, <1>3, <2>2 DEF QueueIsNewer
    <3>3. \A e \in Sent : e.record <= made' /\ \A i \in 1..Len(queue') : e.record < queue'[i]
      BY <1>1, <1>3, <1>4, <2>2 DEF QueueIsNewer
    <3> QED BY <1>2, <3>1, <3>2, <3>3 DEF QueueIsNewer
  <2>5. Accounted'
    <3>1. PICK a, b \in Nat :
             /\ made = Len(queue) + a + refusing + dropped + b + spoilt
             /\ made' = Len(queue') + a + refusing' + dropped' + b + spoilt' => Accounted'
      BY <1>1, <1>2, AccountOf
    <3>2. dropped' = dropped /\ spoilt' = spoilt
      BY DEF Record
    <3> QED BY <1>3, <2>1, <2>2, <3>1, <3>2
  <2> QED BY <1>1, <1>2, <1>5, <2>3, <2>4, <2>5, SentStays DEF RecorderInv
<1>7. CASE ~(Len(queue) < Capacity)
  <2>1. queue' = queue /\ refusing' = refusing + 1
    BY <1>7 DEF Record
  <2>2. RecorderTyped'
    BY <1>1, <1>3, <2>1, RecorderAssumption DEF Record, RecorderTyped
  <2>3. \A i \in 1..Len(queue) : queue[i] \in 1..Records
    BY <1>3, ElementOfSeq
  <2>4. QueueIsNewer'
    BY <1>1, <1>2, <1>3, <1>4, <2>1, <2>3, RecorderAssumption DEF QueueIsNewer
  <2>5. Accounted'
    <3>1. PICK a, b \in Nat :
             /\ made = Len(queue) + a + refusing + dropped + b + spoilt
             /\ made' = Len(queue') + a + refusing' + dropped' + b + spoilt' => Accounted'
      BY <1>1, <1>2, AccountOf
    <3>2. dropped' = dropped /\ spoilt' = spoilt
      BY DEF Record
    <3> QED BY <1>3, <2>1, <3>1, <3>2
  <2> QED BY <1>1, <1>2, <1>5, <2>2, <2>4, <2>5, SentStays DEF RecorderInv
<1> QED BY <1>6, <1>7

LEMMA CountDropKeeps == RecorderInv /\ CountDrop => RecorderInv'
<1> SUFFICES ASSUME RecorderInv, CountDrop PROVE RecorderInv'
  OBVIOUS
<1>1. /\ RecorderTyped /\ QueueIsNewer /\ LogIsOlder /\ FiniteSent /\ Accounted
      /\ Cardinality(Sent) \in Nat /\ Cardinality(Gaps(Sent)) \in Nat
  BY FS_CardinalityType DEF RecorderInv, FiniteSent
<1>2. Sent' = Sent
  BY DEF CountDrop, Sent
<1>3. RecorderTyped'
  BY <1>1 DEF CountDrop, RecorderTyped
<1>4. QueueIsNewer' /\ LogIsOlder'
  BY <1>1, <1>2 DEF CountDrop, QueueIsNewer, LogIsOlder, LogInOrder
<1>5. /\ made \in Nat /\ Len(queue) \in Nat /\ refusing \in Nat /\ dropped \in Nat /\ spoilt \in Nat
  BY <1>1, RecorderAssumption DEF RecorderTyped
<1>6. Accounted'
  <2>1. PICK a, b \in Nat :
           /\ made = Len(queue) + a + refusing + dropped + b + spoilt
           /\ made' = Len(queue') + a + refusing' + dropped' + b + spoilt' => Accounted'
    BY <1>1, <1>2, AccountOf
  <2>2. made' = made /\ queue' = queue /\ refusing' = refusing - 1 /\ dropped' = dropped + 1 /\ spoilt' = spoilt
    BY DEF CountDrop
  <2> QED BY <1>5, <2>1, <2>2
<1> QED BY <1>1, <1>2, <1>3, <1>4, <1>6, SentStays DEF RecorderInv

LEMMA TakeRecordKeeps == RecorderInv /\ TakeRecord => RecorderInv'
<1> SUFFICES ASSUME RecorderInv, TakeRecord PROVE RecorderInv'
  OBVIOUS
<1> DEFINE taken == [record |-> Head(queue), missing |-> dropped]
<1>1. /\ RecorderTyped /\ QueueIsNewer /\ LogIsOlder /\ FiniteSent /\ Accounted
      /\ Cardinality(Sent) \in Nat /\ Cardinality(Gaps(Sent)) \in Nat
  BY FS_CardinalityType DEF RecorderInv, FiniteSent
<1>2. /\ made \in Nat /\ refusing \in Nat /\ dropped \in Nat /\ spoilt \in Nat /\ queue \in Seq(1..Records)
      /\ queue # <<>> /\ queue' = Tail(queue) /\ sending = None /\ sending' = taken /\ dropped' = 0
      /\ log' = log /\ made' = made /\ refusing' = refusing /\ spoilt' = spoilt
  BY <1>1, RecorderAssumption DEF TakeRecord, RecorderTyped
<1>3. /\ Len(queue) \in Nat \ {0} /\ Len(queue') = Len(queue) - 1 /\ queue' \in Seq(1..Records)
      /\ \A i \in 1..Len(queue') : queue'[i] = queue[i + 1] /\ i + 1 \in 1..Len(queue)
      /\ \A i \in 1..Len(queue) : queue[i] \in 1..Records
      /\ Head(queue) = queue[1] /\ 1 \in 1..Len(queue)
  BY <1>2, Shifted, ElementOfSeq
<1>4. taken \in Message /\ taken # None /\ taken.record = queue[1] /\ taken.missing = dropped
  BY <1>2, <1>3, NoneIsNoMessage DEF Message
<1> HIDE DEF taken
<1>5. Sent' = Sent \cup {taken}
  BY <1>2, <1>4 DEF Sent
<1>6. /\ \A e \in Sent : e.record \in Int /\ e.record < queue[1] /\ e.record <= made
      /\ taken \notin Sent
  BY <1>1, <1>3, <1>4, SentAreMessages DEF QueueIsNewer, Message
<1>7. /\ FiniteSent'
      /\ Cardinality(Sent') = Cardinality(Sent) + 1
      /\ Cardinality(Gaps(Sent')) = Cardinality(Gaps(Sent)) + dropped
  BY <1>1, <1>4, <1>5, <1>6, GapsAdded DEF FiniteSent, Gaps
<1>8. RecorderTyped'
  BY <1>1, <1>2, <1>3, <1>4 DEF TakeRecord, RecorderTyped
<1>9. QueueIsNewer'
  <2>1. /\ \A i \in 1..Len(queue') : queue'[i] <= made' /\ queue[1] < queue'[i]
        /\ queue[1] <= made'
    BY <1>1, <1>2, <1>3 DEF QueueIsNewer
  <2>2. \A i, j \in 1..Len(queue') : i < j => queue'[i] < queue'[j]
    <3>1. \A i, j \in 1..Len(queue) : i < j => queue[i] < queue[j]
      BY <1>1 DEF QueueIsNewer
    <3>2. PICK n \in Nat : n = Len(queue)
      BY <1>3
    <3>3. \A i, j \in 1..Len(queue') : i < j => i + 1 < j + 1 /\ i + 1 \in 1..n /\ j + 1 \in 1..n
      BY <1>3, <3>2
    <3> QED BY <1>3, <3>1, <3>2, <3>3
  <2>3. \A i \in 1..Len(queue') : queue'[i] \in Int
    BY <1>3
  <2>4. \A e \in Sent' : e.record <= made' /\ \A i \in 1..Len(queue') : e.record < queue'[i]
    BY <1>2, <1>3, <1>4, <1>5, <1>6, <2>1, <2>3
  <2> QED BY <2>1, <2>2, <2>4 DEF QueueIsNewer
<1>10. LogIsOlder'
  BY <1>1, <1>2, <1>4, <1>5, <1>6 DEF LogIsOlder, LogInOrder
<1>11. Accounted'
  BY <1>1, <1>2, <1>3, <1>7 DEF Accounted
<1> QED BY <1>7, <1>8, <1>9, <1>10, <1>11 DEF RecorderInv

\* The record that was sent is appended, and may be sent again.
LEMMA AppendedIsSent ==
    ASSUME RecorderInv, sending # None, sending.record \notin Unfit, log' = Append(log, sending),
           sending' \in {None, sending}
    PROVE  /\ Sent' = Sent /\ log' \in Seq(Message) /\ LogIsOlder'
<1>1. /\ log \in Seq(Message) /\ sending \in Message /\ Len(log) \in Nat
      /\ LogIsOlder
  BY DEF RecorderInv, RecorderTyped
<1>2. /\ log' \in Seq(Message) /\ Len(log') = Len(log) + 1
      /\ \A i \in 1..Len(log') : log'[i] = IF i = Len(log) + 1 THEN sending ELSE log[i]
  BY <1>1
<1>3. Sent' = Sent
  <2>1. {log'[i] : i \in 1..Len(log')} = {log[i] : i \in 1..Len(log)} \cup {sending}
    BY <1>1, <1>2
  <2> QED BY <2>1 DEF Sent
<1>4. LogInOrder'
  <2>1. \A i \in 1..Len(log) : log[i] = sending \/ log[i].record < sending.record
    BY <1>1 DEF LogIsOlder, Sent
  <2>2. \A i, j \in 1..Len(log') :
           i < j => i \in 1..Len(log) /\ (j \in 1..Len(log) \/ j = Len(log) + 1)
    BY <1>1, <1>2
  <2>3. \A i, j \in 1..Len(log) : i < j => log[i] = log[j] \/ log[i].record < log[j].record
    BY <1>1 DEF LogIsOlder, LogInOrder
  <2>4. \A i, j \in 1..Len(log') : i < j => log'[i] = log'[j] \/ log'[i].record < log'[j].record
    BY <1>1, <1>2, <2>1, <2>2, <2>3
  <2> QED BY <2>4 DEF LogInOrder
<1>5. LogIsOlder'
  BY <1>1, <1>2, <1>3, <1>4 DEF LogIsOlder
<1> QED BY <1>2, <1>3, <1>5

LEMMA DeliverKeeps == RecorderInv /\ Deliver => RecorderInv'
<1> SUFFICES ASSUME RecorderInv, Deliver PROVE RecorderInv'
  OBVIOUS
<1>1. RecorderTyped /\ QueueIsNewer /\ LogIsOlder /\ FiniteSent /\ Accounted
  BY DEF RecorderInv
<1>2. Sent' = Sent /\ log' \in Seq(Message) /\ LogIsOlder'
  BY AppendedIsSent DEF Deliver
<1>3. RecorderTyped'
  BY <1>1, <1>2 DEF Deliver, RecorderTyped
<1>4. QueueIsNewer'
  BY <1>1, <1>2 DEF Deliver, QueueIsNewer
<1>5. Accounted'
  BY <1>1, <1>2, SentStays DEF Deliver, Accounted
<1> QED BY <1>1, <1>2, <1>3, <1>4, <1>5, SentStays DEF RecorderInv

LEMMA FailKeeps == ASSUME RecorderInv, NEW appended \in BOOLEAN, Fail(appended) PROVE RecorderInv'
<1>1. RecorderTyped /\ QueueIsNewer /\ LogIsOlder /\ FiniteSent /\ Accounted
  BY DEF RecorderInv
<1>2. Sent' = Sent /\ log' \in Seq(Message) /\ LogIsOlder'
  <2>1. CASE appended
    BY <2>1, AppendedIsSent DEF Fail
  <2>2. CASE ~appended
    BY <1>1, <2>2 DEF Fail, Sent, RecorderTyped, LogIsOlder, LogInOrder
  <2> QED BY <2>1, <2>2
<1>3. RecorderTyped'
  BY <1>1, <1>2 DEF Fail, RecorderTyped
<1>4. QueueIsNewer'
  BY <1>1, <1>2 DEF Fail, QueueIsNewer
<1>5. Accounted'
  BY <1>1, <1>2, SentStays DEF Fail, Accounted
<1> QED BY <1>1, <1>2, <1>3, <1>4, <1>5, SentStays DEF RecorderInv

LEMMA RejectKeeps == RecorderInv /\ Reject => RecorderInv'
<1> SUFFICES ASSUME RecorderInv, Reject PROVE RecorderInv'
  OBVIOUS
<1>1. RecorderTyped /\ QueueIsNewer /\ LogIsOlder /\ FiniteSent /\ Accounted
  BY DEF RecorderInv
<1>2. /\ sending \in Message /\ sending # None /\ sending' = None /\ log' = log
      /\ sending.record \in Unfit /\ sending.missing \in Nat
      /\ \A i \in 1..Len(log) : log[i].record \notin Unfit
  BY <1>1 DEF Reject, RecorderTyped, LogIsOlder, Message
<1>3. Sent = Sent' \cup {sending} /\ sending \notin Sent'
  BY <1>2 DEF Sent
<1>4. FiniteSent'
  <2>1. Sent' \in SUBSET Sent /\ Gaps(Sent') \in SUBSET Gaps(Sent)
    BY <1>3 DEF Gaps
  <2>2. IsFiniteSet(Sent') /\ IsFiniteSet(Gaps(Sent'))
    BY <1>1, <2>1, FS_Subset DEF FiniteSent
  <2> QED BY <2>2 DEF FiniteSent, Gaps
<1>5. /\ Cardinality(Sent) = Cardinality(Sent') + 1
      /\ Cardinality(Gaps(Sent)) = Cardinality(Gaps(Sent')) + sending.missing
      /\ Cardinality(Sent') \in Nat /\ Cardinality(Gaps(Sent')) \in Nat
  BY <1>2, <1>3, <1>4, GapsAdded, FS_CardinalityType DEF FiniteSent, Gaps
<1>6. RecorderTyped'
  BY <1>1, <1>2 DEF Reject, RecorderTyped
<1>7. QueueIsNewer' /\ LogIsOlder'
  BY <1>1, <1>2, <1>3 DEF Reject, QueueIsNewer, LogIsOlder, LogInOrder
<1>8. /\ made \in Nat /\ Len(queue) \in Nat /\ refusing \in Nat /\ dropped \in Nat /\ spoilt \in Nat
  BY <1>1, RecorderAssumption DEF RecorderTyped
<1>9. Accounted'
  <2>1. PICK a, b \in Nat :
           /\ a = Cardinality(Sent') /\ b = Cardinality(Gaps(Sent'))
    BY <1>5
  <2>2. made = Len(queue) + (a + 1) + refusing + dropped + (b + sending.missing) + spoilt
    BY <1>1, <1>5, <2>1, Zenon DEF Accounted
  <2>3. /\ made' = made /\ queue' = queue /\ refusing' = refusing /\ dropped' = dropped + 1
        /\ spoilt' = spoilt + sending.missing
    BY DEF Reject
  <2>4. made' = Len(queue') + a + refusing' + dropped' + b + spoilt'
    BY <1>2, <1>8, <2>2, <2>3
  <2>5. a = Cardinality(Sent)' /\ b = Cardinality(Gaps(Sent))'
    BY <2>1 DEF Gaps
  <2> QED BY <2>4, <2>5, Zenon DEF Accounted
<1> QED BY <1>4, <1>6, <1>7, <1>9 DEF RecorderInv

\* Whatever the recorder does, its invariant goes on.
LEMMA RecorderKeeps ==
    ASSUME RecorderInv, Quiet \/ Loud \/ UNCHANGED recorder
    PROVE  RecorderInv'
<1>1. CASE UNCHANGED recorder
  BY <1>1 DEF recorder, RecorderInv, RecorderTyped, QueueIsNewer, LogIsOlder, LogInOrder, FiniteSent,
                   Accounted, Sent, Gaps
<1>2. CASE Quiet
  BY <1>2, RecordKeeps, CountDropKeeps, TakeRecordKeeps, DeliverKeeps DEF Quiet
<1>3. CASE Loud
  BY <1>3, FailKeeps, RejectKeeps DEF Loud
<1> QED BY <1>1, <1>2, <1>3

-----------------------------------------------------------------------------
(***************************************************************************)
(* The diagnostics.                                                        *)
(***************************************************************************)

StreamTyped ==
    /\ fate \in [1..Lines -> {"unborn", "refused", "queued", "counted"} \cup Settled]
    /\ notes \in Seq(0..Lines)
    /\ missed \in Nat
    /\ flush \in {"idle", "asking", "waiting", "acked", "late"}
    /\ owed \in SUBSET (1..Lines)

SinkRecord ==
    [file : Seq(Torn..Lines), handle : {"path", "rotated"}, size : Nat, enabled : BOOLEAN,
     faults : Nat, kept : BOOLEAN]

\* A sink whose file is full of whole lines, except for one it was given up with.
SoundSink(s) ==
    /\ s \in SinkRecord
    /\ Len(s.file) <= Cap
    /\ s.enabled /\ s.handle = "path" => s.size = Len(s.file)
    /\ s.handle = "rotated" => s.size >= Cap
    /\ \A i \in 1..Len(s.file) : s.file[i] = Torn => i = Len(s.file) /\ ~s.enabled

CountedAreMissed == missed = Cardinality(Counted)

\* Lines are noted in their order, so the next one is the first that is not.
NotedInOrder == \E b \in 0..Lines : \A n \in 1..Lines : fate[n] = "unborn" <=> n > b

QueuedAreNotes ==
    /\ \A n \in 1..Lines : fate[n] = "queued" => \E i \in 1..Len(notes) : notes[i] = n
    /\ \A i \in 1..Len(notes) : notes[i] # FlushNote => fate[notes[i]] # "unborn"

\* What a flush answers for is settled, counted, or queued before its note.
Ahead(k) ==
    /\ \A i \in 1..Len(notes) : notes[i] = FlushNote <=> i = k
    /\ \A n \in owed : \/ fate[n] \in Settled \cup {"counted"}
                       \/ fate[n] = "queued" /\ \E i \in 1..(k - 1) : notes[i] = n

FlushIsOwed ==
    /\ flush \in {"idle", "asking"} => \A i \in 1..Len(notes) : notes[i] # FlushNote
    /\ flush = "asking" => \A n \in owed : fate[n] \in Settled \cup {"counted", "queued"}
    /\ flush = "waiting" => \E k \in 1..Len(notes) : Ahead(k)
    /\ FlushedIsSettled

StreamInv ==
    /\ StreamTyped
    /\ SoundSink(Sink)
    /\ CountedAreMissed
    /\ NotedInOrder
    /\ QueuedAreNotes
    /\ FlushIsOwed

LEMMA TornIsNoLine == Torn \in Torn..Lines /\ (\A line \in 0..Lines : line \in Torn..Lines /\ line # Torn)
BY DiagnosticsAssumption DEF Torn

\* The sink at rest: what the variables hold is what a sound sink holds.
LEMMA SinkOf ==
    ASSUME NEW s, SoundSink(s), file' = s.file, handle' = s.handle, size' = s.size,
           enabled' = s.enabled, faults' = s.faults
    PROVE  SoundSink(Sink)'
<1>1. /\ Sink'.file = s.file /\ Sink'.handle = s.handle /\ Sink'.size = s.size
      /\ Sink'.enabled = s.enabled /\ Sink' \in SinkRecord
  BY DEF Sink, SoundSink, SinkRecord
<1>2. SoundSink(Sink')
  BY <1>1 DEF SoundSink
<1> QED BY <1>2 DEF SoundSink, SinkRecord, Torn

LEMMA SinkStays ==
    ASSUME SoundSink(Sink), UNCHANGED <<file, handle, size, enabled, faults>>
    PROVE  SoundSink(Sink)'
BY SinkOf DEF Sink

\* A full file is renamed or, when no other can be made, not written to.
LEMMA RotationsSound ==
    ASSUME NEW s, SoundSink(s), s.enabled, NEW r \in Rotations([s EXCEPT !.kept = FALSE])
    PROVE  SoundSink(r) /\ r.enabled /\ (r.kept => r.handle = "path" /\ r.size < Cap)
<1> DEFINE t == [s EXCEPT !.kept = FALSE]
<1>1. Cap \in Nat \ {0} /\ Lines \in Nat
  BY DiagnosticsAssumption
<1>2. /\ t \in SinkRecord /\ t.file = s.file /\ t.handle = s.handle /\ t.size = s.size
      /\ t.enabled = TRUE /\ t.size \in Nat /\ t.handle \in {"path", "rotated"} /\ t.faults \in Nat
  BY DEF SoundSink, SinkRecord
<1>3. SoundSink(t)
  BY <1>2 DEF SoundSink
<1>4. <<>> \in Seq(Torn..Lines) /\ Len(<<>>) = 0
  OBVIOUS
<1> HIDE DEF t
<1>5. CASE t.size = 0 \/ t.size < Cap
  <2>1. r = [t EXCEPT !.kept = TRUE]
    BY <1>5 DEF Rotations, t
  <2>2. /\ r \in SinkRecord /\ r.file = t.file /\ r.handle = t.handle /\ r.size = t.size /\ r.enabled = TRUE
    BY <1>2, <2>1 DEF SinkRecord
  <2>3. r.handle = "path" /\ r.size < Cap
    BY <1>1, <1>2, <1>3, <1>5, <2>2 DEF SoundSink
  <2> QED BY <1>2, <1>3, <2>2, <2>3 DEF SoundSink
<1>6. CASE ~(t.size = 0 \/ t.size < Cap)
  <2>1. \/ r = [t EXCEPT !.file = <<>>, !.handle = "path", !.size = 0, !.kept = TRUE]
        \/ r = [t EXCEPT !.file = <<>>, !.handle = "rotated", !.faults = @ + 1]
    BY <1>6 DEF Rotations, t
  <2>2. CASE r = [t EXCEPT !.file = <<>>, !.handle = "path", !.size = 0, !.kept = TRUE]
    <3>1. r \in SinkRecord /\ r.file = <<>> /\ r.handle = "path" /\ r.size = 0 /\ r.enabled = TRUE
      BY <1>2, <1>4, <2>2 DEF SinkRecord
    <3> QED BY <1>1, <1>4, <3>1 DEF SoundSink
  <2>3. CASE r = [t EXCEPT !.file = <<>>, !.handle = "rotated", !.faults = @ + 1]
    <3>1. /\ r \in SinkRecord /\ r.file = <<>> /\ r.handle = "rotated" /\ r.size = t.size
          /\ r.enabled = TRUE /\ r.kept = FALSE
      <4>1. t \in SinkRecord /\ t.kept = FALSE /\ t.faults + 1 \in Nat
        BY <1>2 DEF SinkRecord, t
      <4>2. r = [t EXCEPT !.file = <<>>, !.handle = "rotated", !.faults = t.faults + 1]
        BY <2>3, <4>1 DEF SinkRecord
      <4>3. r \in SinkRecord
        BY <1>4, <4>1, <4>2 DEF SinkRecord
      <4> QED BY <1>2, <4>1, <4>2, <4>3 DEF SinkRecord
    <3> QED BY <1>1, <1>2, <1>4, <1>6, <3>1 DEF SoundSink
  <2> QED BY <2>1, <2>2, <2>3
<1> QED BY <1>5, <1>6

\* A line is written whole, cut off again, or the last one ever.
LEMMA AppendsSound ==
    ASSUME NEW r, SoundSink(r), r.enabled, r.kept => r.handle = "path" /\ r.size < Cap,
           NEW line \in 0..Lines, NEW w \in Appends(r, line)
    PROVE  SoundSink(w)
<1>1. Cap \in Nat \ {0} /\ Lines \in Nat
  BY DiagnosticsAssumption
<1>2. /\ r \in SinkRecord /\ r.file \in Seq(Torn..Lines) /\ r.size \in Nat /\ r.faults \in Nat
      /\ r.enabled = TRUE
  BY DEF SoundSink, SinkRecord
<1>3. CASE ~r.kept
  BY <1>3 DEF Appends
<1>4. CASE r.kept
  <2>1. r.handle = "path" /\ r.size < Cap /\ r.size = Len(r.file) /\ Len(r.file) \in Nat
    BY <1>2, <1>4 DEF SoundSink
  <2>2. \A e \in Torn..Lines :
           /\ Append(r.file, e) \in Seq(Torn..Lines) /\ Len(Append(r.file, e)) = Len(r.file) + 1
           /\ \A i \in 1..Len(r.file) + 1 :
                 Append(r.file, e)[i] = IF i = Len(r.file) + 1 THEN e ELSE r.file[i]
    BY <1>2, Appended
  <2>3. \A i \in 1..Len(r.file) : r.file[i] # Torn
    BY <1>2 DEF SoundSink
  <2>4. line \in Torn..Lines /\ line # Torn /\ Torn \in Torn..Lines
    BY TornIsNoLine
  <2>5. \/ w = [r EXCEPT !.file = Append(@, line), !.size = @ + 1]
        \/ w = [r EXCEPT !.faults = @ + 1, !.kept = FALSE]
        \/ w = [r EXCEPT !.file = Append(@, Torn), !.faults = @ + 1, !.kept = FALSE, !.enabled = FALSE]
    BY <1>4 DEF Appends
  <2>6. CASE w = [r EXCEPT !.file = Append(@, line), !.size = @ + 1]
    <3>1. /\ w \in SinkRecord /\ w.file = Append(r.file, line) /\ w.size = r.size + 1
          /\ w.handle = "path" /\ w.enabled = TRUE
      <4>1. Append(r.file, line) \in Seq(Torn..Lines) /\ r.size + 1 \in Nat
        BY <1>2, <2>2, <2>4
      <4>2. w = [r EXCEPT !.file = Append(r.file, line), !.size = r.size + 1]
        BY <1>2, <2>6 DEF SinkRecord
      <4>3. w \in SinkRecord
        BY <1>2, <4>1, <4>2 DEF SinkRecord
      <4> QED BY <1>2, <2>1, <4>2, <4>3 DEF SinkRecord
    <3>2. \A i \in 1..Len(w.file) : w.file[i] # Torn
      BY <2>1, <2>2, <2>3, <2>4, <3>1
    <3>3. Len(w.file) = w.size /\ Len(w.file) <= Cap
      BY <1>1, <2>1, <2>2, <2>4, <3>1
    <3> QED BY <3>1, <3>2, <3>3 DEF SoundSink
  <2>7. CASE w = [r EXCEPT !.faults = @ + 1, !.kept = FALSE]
    <3>1. /\ w \in SinkRecord /\ w.file = r.file /\ w.size = r.size /\ w.handle = r.handle
          /\ w.enabled = r.enabled
      <4>1. r.faults + 1 \in Nat
        BY <1>2
      <4>2. w = [r EXCEPT !.faults = r.faults + 1, !.kept = FALSE]
        BY <1>2, <2>7 DEF SinkRecord
      <4>3. w \in SinkRecord
        BY <1>2, <4>1, <4>2 DEF SinkRecord
      <4> QED BY <1>2, <4>2, <4>3 DEF SinkRecord
    <3> QED BY <3>1 DEF SoundSink
  <2>8. CASE w = [r EXCEPT !.file = Append(@, Torn), !.faults = @ + 1, !.kept = FALSE, !.enabled = FALSE]
    <3>1. /\ w \in SinkRecord /\ w.file = Append(r.file, Torn) /\ w.size = r.size
          /\ w.handle = "path" /\ w.enabled = FALSE
      <4>1. Append(r.file, Torn) \in Seq(Torn..Lines) /\ r.faults + 1 \in Nat
        BY <1>2, <2>2, <2>4
      <4>2. w = [r EXCEPT !.file = Append(r.file, Torn), !.faults = r.faults + 1, !.kept = FALSE,
                          !.enabled = FALSE]
        BY <1>2, <2>8 DEF SinkRecord
      <4>3. w \in SinkRecord
        BY <1>2, <4>1, <4>2 DEF SinkRecord
      <4> QED BY <1>2, <2>1, <4>2, <4>3 DEF SinkRecord
    <3>2. \A i \in 1..Len(w.file) : w.file[i] = Torn => i = Len(w.file)
      BY <2>1, <2>2, <2>3, <2>4, <3>1
    <3>3. Len(w.file) <= Cap
      BY <1>1, <2>1, <2>2, <2>4, <3>1
    <3> QED BY <3>1, <3>2, <3>3 DEF SoundSink
  <2> QED BY <2>5, <2>6, <2>7, <2>8
<1> QED BY <1>3, <1>4

LEMMA WritesSound ==
    ASSUME NEW s, SoundSink(s), NEW line \in 0..Lines, NEW w \in Writes(s, line)
    PROVE  SoundSink(w)
<1>1. CASE ~s.enabled
  <2>1. w = [s EXCEPT !.kept = FALSE]
    BY <1>1 DEF Writes
  <2>2. /\ w \in SinkRecord /\ w.file = s.file /\ w.size = s.size /\ w.handle = s.handle
        /\ w.enabled = s.enabled
    BY <2>1 DEF SoundSink, SinkRecord
  <2> QED BY <2>2 DEF SoundSink
<1>2. CASE s.enabled
  <2>1. PICK r \in Rotations([s EXCEPT !.kept = FALSE]) : w \in Appends(r, line)
    BY <1>2 DEF Writes
  <2>2. SoundSink(r) /\ r.enabled /\ (r.kept => r.handle = "path" /\ r.size < Cap)
    BY <1>2, RotationsSound
  <2> QED BY <2>1, <2>2, AppendsSound
<1> QED BY <1>1, <1>2

LEMMA ReportsSound ==
    ASSUME NEW s, SoundSink(s), NEW r \in Reports(s)
    PROVE  SoundSink(r)
<1>1. CASE missed = 0
  <2>1. r = [s EXCEPT !.kept = TRUE]
    BY <1>1 DEF Reports
  <2>2. /\ r \in SinkRecord /\ r.file = s.file /\ r.size = s.size /\ r.handle = s.handle
        /\ r.enabled = s.enabled
    BY <2>1 DEF SoundSink, SinkRecord
  <2> QED BY <2>2 DEF SoundSink
<1>2. CASE missed # 0
  <2>1. Report \in 0..Lines
    BY DiagnosticsAssumption DEF Report
  <2> QED BY <1>2, <2>1, WritesSound DEF Reports
<1> QED BY <1>1, <1>2

-----------------------------------------------------------------------------

LEMMA NextLineIs ==
    ASSUME StreamTyped, NotedInOrder, MoreLines
    PROVE  /\ NextLine \in 1..Lines /\ fate[NextLine] = "unborn"
           /\ \A m \in 1..Lines : fate[m] = "unborn" <=> m > NextLine - 1
<1>1. PICK b \in 0..Lines : \A n \in 1..Lines : fate[n] = "unborn" <=> n > b
  BY DEF NotedInOrder
<1>2. b + 1 \in 1..Lines
  BY <1>1, DiagnosticsAssumption DEF MoreLines
<1>3. fate[b + 1] = "unborn" /\ \A m \in 1..(b + 1 - 1) : fate[m] # "unborn"
  BY <1>1, <1>2, DiagnosticsAssumption
<1>4. NextLine \in 1..Lines /\ fate[NextLine] = "unborn" /\ \A m \in 1..(NextLine - 1) : fate[m] # "unborn"
  BY <1>2, <1>3 DEF NextLine
<1>5. NextLine = b + 1
  <2>1. NextLine > b
    BY <1>1, <1>4
  <2>2. ~(NextLine > b + 1)
    <3> SUFFICES ASSUME NextLine > b + 1 PROVE FALSE
      OBVIOUS
    <3>1. b + 1 \in 1..(NextLine - 1)
      BY <1>2, <1>4, DiagnosticsAssumption
    <3> QED BY <1>3, <1>4, <3>1
  <2> QED BY <1>2, <1>4, <2>1, <2>2, DiagnosticsAssumption
<1> QED BY <1>1, <1>4, <1>5, DiagnosticsAssumption

\* A step that leaves the lines alone leaves what is counted alone.
LEMMA CountStays ==
    ASSUME CountedAreMissed, missed' = missed, Counted' = Counted
    PROVE  CountedAreMissed'
BY DEF CountedAreMissed, Counted

LEMMA NoteKeeps == StreamInv /\ Note => StreamInv'
<1> SUFFICES ASSUME StreamInv, Note PROVE StreamInv'
  OBVIOUS
<1>1. /\ StreamTyped /\ SoundSink(Sink) /\ CountedAreMissed /\ NotedInOrder /\ QueuedAreNotes
      /\ FlushIsOwed
  BY DEF StreamInv
<1>2. PICK next \in 1..Lines :
        /\ next = NextLine /\ fate[next] = "unborn"
        /\ \A m \in 1..Lines : fate[m] = "unborn" <=> m > next - 1
  BY <1>1, NextLineIs DEF Note
<1>3. PICK new \in {"queued", "refused"} :
        /\ fate' = [fate EXCEPT ![next] = new]
        /\ new = "queued" => notes' = Append(notes, next)
        /\ new = "refused" => notes' = notes
  BY <1>2 DEF Note
<1>4. /\ missed' = missed /\ flush' = flush /\ owed' = owed
      /\ UNCHANGED <<file, handle, size, enabled, faults>>
  BY DEF Note
<1>5. /\ notes \in Seq(0..Lines) /\ next \in 0..Lines /\ Lines \in Nat /\ Len(notes) \in Nat
      /\ fate \in [1..Lines -> {"unborn", "refused", "queued", "counted"} \cup Settled]
  BY <1>1, DiagnosticsAssumption DEF StreamTyped
<1>6. \A n \in 1..Lines : fate'[n] = IF n = next THEN new ELSE fate[n]
  BY <1>3, <1>5
<1>7. /\ notes' \in Seq(0..Lines)
      /\ Len(notes') \in Nat /\ Len(notes') >= Len(notes)
      /\ \A i \in 1..Len(notes) : notes'[i] = notes[i]
      /\ \A i \in 1..Len(notes') : i \in 1..Len(notes) \/ notes'[i] = next
      /\ new = "queued" => Len(notes) + 1 \in 1..Len(notes') /\ notes'[Len(notes) + 1] = next
  <2>1. CASE new = "queued"
    <3>1. /\ Append(notes, next) \in Seq(0..Lines) /\ Len(Append(notes, next)) = Len(notes) + 1
          /\ \A i \in 1..Len(notes) + 1 :
                Append(notes, next)[i] = IF i = Len(notes) + 1 THEN next ELSE notes[i]
      BY <1>5, Appended
    <3>2. PICK q \in Seq(0..Lines) : q = notes'
      BY <1>3, <2>1, <3>1
    <3>3. /\ Len(q) = Len(notes) + 1
          /\ \A i \in 1..Len(notes) + 1 : q[i] = IF i = Len(notes) + 1 THEN next ELSE notes[i]
      BY <1>3, <2>1, <3>1, <3>2
    <3> QED BY ONLY <1>5, <3>2, <3>3
  <2>2. CASE new = "refused"
    BY <1>3, <1>5, <2>2
  <2> QED BY <1>3, <2>1, <2>2
<1>8. StreamTyped'
  BY <1>1, <1>3, <1>4, <1>5, <1>7 DEF StreamTyped, Settled
<1>9. CountedAreMissed'
  <2>1. Counted' = Counted
    BY <1>2, <1>3, <1>6 DEF Counted
  <2> QED BY <1>1, <1>4, <2>1, CountStays
<1>10. NotedInOrder'
  <2>1. next \in 0..Lines /\ \A n \in 1..Lines : fate'[n] = "unborn" <=> n > next
    BY <1>2, <1>3, <1>5, <1>6
  <2> QED BY <2>1 DEF NotedInOrder
<1>11. QueuedAreNotes'
  <2>1. ASSUME NEW n \in 1..Lines, fate'[n] = "queued"
        PROVE  \E i \in 1..Len(notes') : notes'[i] = n
    <3>1. CASE n = next
      BY <1>3, <1>6, <1>7, <2>1, <3>1
    <3>2. CASE n # next
      <4>1. PICK i \in 1..Len(notes) : notes[i] = n
        BY <1>1, <1>6, <2>1, <3>2 DEF QueuedAreNotes
      <4>2. notes'[i] = n
        BY <1>7, <4>1
      <4>3. i \in 1..Len(notes')
        BY <1>5, <1>7
      <4> QED BY <4>2, <4>3
    <3> QED BY <3>1, <3>2
  <2>2. ASSUME NEW i \in 1..Len(notes'), notes'[i] # FlushNote
        PROVE  fate'[notes'[i]] # "unborn"
    <3>1. CASE notes'[i] = next
      BY <1>3, <1>6, <3>1
    <3>2. CASE notes'[i] # next
      <4>1. i \in 1..Len(notes) /\ notes'[i] = notes[i]
        BY <1>7, <2>2, <3>2
      <4>2. notes[i] \in 1..Lines /\ fate[notes[i]] # "unborn"
        BY <1>1, <1>5, <2>2, <4>1, ElementOfSeq DEF QueuedAreNotes, FlushNote
      <4> QED BY <1>6, <3>2, <4>1, <4>2
    <3> QED BY <3>1, <3>2
  <2> QED BY <2>1, <2>2 DEF QueuedAreNotes
<1>12. FlushIsOwed'
  <2>1. next # FlushNote
    BY <1>5 DEF FlushNote
  <2>2. \A n \in 1..Lines : fate[n] # "unborn" => fate'[n] = fate[n]
    BY <1>2, <1>6
  <2>3. owed \subseteq 1..Lines
    BY <1>1 DEF StreamTyped
  <2>4. flush' \in {"idle", "asking"} => \A i \in 1..Len(notes') : notes'[i] # FlushNote
    BY <1>1, <1>4, <1>7, <2>1 DEF FlushIsOwed
  <2>5. flush' = "asking" => \A n \in owed' : fate'[n] \in Settled \cup {"counted", "queued"}
    BY <1>1, <1>4, <2>2, <2>3 DEF FlushIsOwed, Settled
  <2>6. flush' = "waiting" => \E k \in 1..Len(notes') : Ahead(k)'
    <3> SUFFICES ASSUME flush = "waiting" PROVE \E k \in 1..Len(notes') : Ahead(k)'
      BY <1>4
    <3>1. PICK k \in 1..Len(notes) : Ahead(k)
      BY <1>1 DEF FlushIsOwed
    <3>2. k \in 1..Len(notes') /\ \A i \in 1..(k - 1) : i \in 1..Len(notes)
      BY <1>5, <1>7
    <3>3. \A i \in 1..Len(notes') : notes'[i] = FlushNote <=> i = k
      BY <1>7, <2>1, <3>1, <3>2 DEF Ahead
    <3>4. \A n \in owed : \/ fate'[n] \in Settled \cup {"counted"}
                          \/ fate'[n] = "queued" /\ \E i \in 1..(k - 1) : notes'[i] = n
      <4> SUFFICES ASSUME NEW n \in owed
                   PROVE  \/ fate'[n] \in Settled \cup {"counted"}
                          \/ fate'[n] = "queued" /\ \E i \in 1..(k - 1) : notes'[i] = n
        OBVIOUS
      <4>1. \/ fate[n] \in Settled \cup {"counted"}
            \/ fate[n] = "queued" /\ \E i \in 1..(k - 1) : notes[i] = n
        BY <3>1 DEF Ahead
      <4>2. fate'[n] = fate[n]
        BY <2>2, <2>3, <4>1 DEF Settled
      <4> QED BY <1>7, <3>2, <4>1, <4>2
    <3> QED BY <1>4, <3>2, <3>3, <3>4 DEF Ahead
  <2>7. FlushedIsSettled'
    BY <1>1, <1>4, <2>2, <2>3 DEF FlushIsOwed, FlushedIsSettled, Settled
  <2> QED BY <2>4, <2>5, <2>6, <2>7 DEF FlushIsOwed
<1>13. SoundSink(Sink)'
  BY <1>1, <1>4, SinkStays
<1> QED BY <1>8, <1>9, <1>10, <1>11, <1>12, <1>13 DEF StreamInv

LEMMA CountMissedKeeps == ASSUME StreamInv, NEW line \in 1..Lines, CountMissed(line) PROVE StreamInv'
<1>1. /\ StreamTyped /\ SoundSink(Sink) /\ CountedAreMissed /\ NotedInOrder /\ QueuedAreNotes
      /\ FlushIsOwed
  BY DEF StreamInv
<1>2. /\ fate[line] = "refused" /\ fate' = [fate EXCEPT ![line] = "counted"] /\ missed' = missed + 1
      /\ notes' = notes /\ flush' = flush /\ owed' = owed
      /\ UNCHANGED <<file, handle, size, enabled, faults>>
  BY DEF CountMissed
<1>3. /\ fate \in [1..Lines -> {"unborn", "refused", "queued", "counted"} \cup Settled]
      /\ owed \subseteq 1..Lines /\ missed \in Nat /\ Lines \in Nat
  BY <1>1, DiagnosticsAssumption DEF StreamTyped
<1>4. \A n \in 1..Lines : fate'[n] = IF n = line THEN "counted" ELSE fate[n]
  BY <1>2, <1>3
<1>5. StreamTyped'
  BY <1>1, <1>2, <1>3 DEF StreamTyped, Settled
<1>6. CountedAreMissed'
  <2>1. Counted' = Counted \cup {line} /\ line \notin Counted
    BY <1>2, <1>4 DEF Counted
  <2>2. IsFiniteSet(Counted)
    <3>1. IsFiniteSet(1..Lines)
      BY <1>3, FS_Interval
    <3> QED BY <3>1, FS_Subset DEF Counted
  <2>3. Cardinality(Counted \cup {line}) = Cardinality(Counted) + 1
    BY <2>1, <2>2, FS_AddElement
  <2>4. missed' = Cardinality(Counted')
    BY <1>1, <1>2, <2>1, <2>3 DEF CountedAreMissed
  <2> QED BY <2>4 DEF CountedAreMissed, Counted
<1>7. NotedInOrder'
  <2>1. \A n \in 1..Lines : fate'[n] = "unborn" <=> fate[n] = "unborn"
    BY <1>2, <1>4
  <2> QED BY <1>1, <2>1 DEF NotedInOrder
<1>8. QueuedAreNotes'
  <2>1. \A n \in 1..Lines : fate'[n] = "queued" => \E i \in 1..Len(notes') : notes'[i] = n
    BY <1>1, <1>2, <1>4 DEF QueuedAreNotes
  <2>2. \A i \in 1..Len(notes) : notes[i] # FlushNote => notes[i] \in 1..Lines
    <3>1. notes \in Seq(0..Lines)
      BY <1>1 DEF StreamTyped
    <3>2. \A i \in 1..Len(notes) : notes[i] \in 0..Lines
      BY <3>1, ElementOfSeq
    <3> QED BY <1>3, <3>2 DEF FlushNote
  <2>3. \A i \in 1..Len(notes') : notes'[i] # FlushNote => fate'[notes'[i]] # "unborn"
    BY <1>1, <1>2, <1>4, <2>2 DEF QueuedAreNotes
  <2> QED BY <2>1, <2>3 DEF QueuedAreNotes
<1>9. FlushIsOwed'
  <2>1. flush' = "waiting" => \E k \in 1..Len(notes') : Ahead(k)'
    BY <1>1, <1>2, <1>3, <1>4 DEF FlushIsOwed, Ahead, Settled
  <2>2. flush' = "asking" => \A n \in owed' : fate'[n] \in Settled \cup {"counted", "queued"}
    BY <1>1, <1>2, <1>3, <1>4 DEF FlushIsOwed, Settled
  <2>3. FlushedIsSettled'
    BY <1>1, <1>2, <1>3, <1>4 DEF FlushIsOwed, FlushedIsSettled, Settled
  <2>4. flush' \in {"idle", "asking"} => \A i \in 1..Len(notes') : notes'[i] # FlushNote
    BY <1>1, <1>2 DEF FlushIsOwed
  <2> QED BY <2>1, <2>2, <2>3, <2>4 DEF FlushIsOwed
<1>10. SoundSink(Sink)'
  BY <1>1, <1>2, SinkStays
<1> QED BY <1>5, <1>6, <1>7, <1>8, <1>9, <1>10 DEF StreamInv

\* One note leaves the queue and everything counted is settled with it.
LEMMA DrainKeeps == StreamInv /\ Drain => StreamInv'
<1> SUFFICES ASSUME StreamInv, Drain PROVE StreamInv'
  OBVIOUS
<1>1. /\ StreamTyped /\ SoundSink(Sink) /\ CountedAreMissed /\ NotedInOrder /\ QueuedAreNotes
      /\ FlushIsOwed
  BY DEF StreamInv
<1>2. /\ notes \in Seq(0..Lines) /\ Lines \in Nat /\ owed \subseteq 1..Lines
      /\ fate \in [1..Lines -> {"unborn", "refused", "queued", "counted"} \cup Settled]
  BY <1>1, DiagnosticsAssumption DEF StreamTyped
<1>3. /\ notes # <<>> /\ notes' = Tail(notes) /\ missed' = 0 /\ owed' = owed
      /\ flush' = IF Head(notes) = FlushNote /\ flush = "waiting" THEN "acked" ELSE flush
  BY DEF Drain
<1>4. PICK head \in 0..Lines : head = notes[1] /\ head = Head(notes)
  BY <1>2, <1>3, Shifted, ElementOfSeq
<1>5. PICK n \in Nat \ {0} : n = Len(notes)
  BY <1>2, <1>3, Shifted
<1>6. /\ notes' \in Seq(0..Lines) /\ Len(notes') = n - 1
      /\ \A i \in 1..(n - 1) : notes'[i] = notes[i + 1] /\ i + 1 \in 1..n
  BY <1>2, <1>3, <1>5, Shifted
<1>7. PICK r \in Reports(Sink) : \E w \in IF head = FlushNote THEN {r} ELSE Writes(r, head) :
        /\ file' = w.file /\ handle' = w.handle /\ size' = w.size /\ enabled' = w.enabled /\ faults' = w.faults
        /\ fate' = [m \in 1..Lines |->
                IF m \in Counted THEN (IF r.kept THEN "reported" ELSE "lost")
                ELSE IF m = head THEN (IF w.kept THEN "written" ELSE "lost")
                ELSE fate[m]]
  BY <1>4 DEF Drain
<1>8. PICK w \in IF head = FlushNote THEN {r} ELSE Writes(r, head) :
        /\ file' = w.file /\ handle' = w.handle /\ size' = w.size /\ enabled' = w.enabled /\ faults' = w.faults
        /\ fate' = [m \in 1..Lines |->
                IF m \in Counted THEN (IF r.kept THEN "reported" ELSE "lost")
                ELSE IF m = head THEN (IF w.kept THEN "written" ELSE "lost")
                ELSE fate[m]]
  BY <1>7
<1>9. SoundSink(Sink)'
  <2>1. SoundSink(r)
    BY <1>1, ReportsSound
  <2>2. SoundSink(w)
    BY <1>4, <2>1, WritesSound
  <2> QED BY <1>8, <2>2, SinkOf
<1>10. /\ fate' \in [1..Lines -> {"unborn", "refused", "queued", "counted"} \cup Settled]
       /\ \A m \in 1..Lines : \/ fate'[m] \in Settled /\ (fate[m] \in Settled \cup {"counted"} \/ m = head)
                              \/ fate'[m] = fate[m] /\ m # head /\ fate[m] # "counted"
  BY <1>2, <1>8 DEF Counted, Settled
<1>11. StreamTyped'
  BY <1>1, <1>3, <1>6, <1>10 DEF StreamTyped
<1>12. CountedAreMissed'
  <2>1. Counted' = {}
    BY <1>10 DEF Counted, Settled
  <2> QED BY <1>3, <2>1, FS_EmptySet DEF CountedAreMissed, Counted
<1>13. \A i \in 1..n : notes[i] # FlushNote => notes[i] \in 1..Lines /\ fate[notes[i]] # "unborn"
  BY <1>1, <1>2, <1>5, ElementOfSeq DEF QueuedAreNotes, FlushNote
<1>14. \A m \in 1..Lines : fate'[m] = "unborn" <=> fate[m] = "unborn"
  <2>1. 1 \in 1..n
    BY <1>5
  <2>2. \A m \in 1..Lines : m = head => fate[m] # "unborn"
    BY <1>4, <1>13, <2>1 DEF FlushNote
  <2> QED BY <1>10, <2>2 DEF Settled
<1>15. NotedInOrder'
  BY <1>1, <1>14 DEF NotedInOrder
<1>16. QueuedAreNotes'
  <2>1. ASSUME NEW m \in 1..Lines, fate'[m] = "queued"
        PROVE  \E i \in 1..Len(notes') : notes'[i] = m
    <3>1. fate[m] = "queued" /\ m # head
      BY <1>10, <2>1 DEF Settled
    <3>2. PICK i \in 1..n : notes[i] = m
      BY <1>1, <1>5, <3>1 DEF QueuedAreNotes
    <3>3. i # 1 /\ i - 1 \in 1..(n - 1) /\ i - 1 + 1 = i
      BY <1>4, <1>5, <3>1, <3>2
    <3> QED BY <1>6, <3>2, <3>3
  <2>2. ASSUME NEW i \in 1..Len(notes'), notes'[i] # FlushNote
        PROVE  fate'[notes'[i]] # "unborn"
    <3>1. i \in 1..(n - 1) /\ notes'[i] = notes[i + 1] /\ i + 1 \in 1..n
      BY <1>6
    <3> QED BY <1>13, <1>14, <2>2, <3>1
  <2> QED BY <2>1, <2>2 DEF QueuedAreNotes
<1>17. FlushIsOwed'
  <2>1. \A m \in 1..Lines : fate[m] \in Settled \cup {"counted"} => fate'[m] \in Settled
    BY <1>10 DEF Settled
  <2>2. flush' \in {"idle", "asking"} => \A i \in 1..Len(notes') : notes'[i] # FlushNote
    <3> SUFFICES ASSUME flush' \in {"idle", "asking"}, NEW i \in 1..Len(notes')
                 PROVE  notes'[i] # FlushNote
      OBVIOUS
    <3>1. flush \in {"idle", "asking"}
      BY <1>3
    <3>2. notes'[i] = notes[i + 1] /\ i + 1 \in 1..Len(notes)
      BY <1>5, <1>6
    <3> QED BY <1>1, <3>1, <3>2 DEF FlushIsOwed
  <2>3. flush' = "asking" => \A m \in owed' : fate'[m] \in Settled \cup {"counted", "queued"}
    BY <1>1, <1>2, <1>3, <1>10 DEF FlushIsOwed, Settled
  <2>4. CASE flush = "waiting"
    <3>1. PICK k \in 1..n : Ahead(k)
      BY <1>1, <1>5, <2>4 DEF FlushIsOwed
    <3>2. head = FlushNote <=> k = 1
      BY <1>4, <1>5, <3>1 DEF Ahead
    <3>3. CASE k = 1
      <4>1. flush' = "acked"
        BY <1>3, <1>4, <2>4, <3>2, <3>3
      <4>2. \A m \in owed : fate[m] \in Settled \cup {"counted"}
        BY <3>1, <3>3 DEF Ahead
      <4>3. FlushedIsSettled'
        BY <1>2, <1>3, <2>1, <4>2 DEF FlushedIsSettled, Settled
      <4> QED BY <4>1, <4>3 DEF FlushIsOwed
    <3>4. CASE k # 1
      <4>1. flush' = "waiting"
        BY <1>3, <1>4, <2>4, <3>2, <3>4
      <4>2. k - 1 \in 1..(n - 1)
        BY <3>4
      <4>3. \A i \in 1..(n - 1) : notes'[i] = FlushNote <=> i = k - 1
        <5>1. \A i \in 1..n : notes[i] = FlushNote <=> i = k
          BY <1>5, <3>1 DEF Ahead
        <5> QED BY <1>6, <5>1
      <4>4. ASSUME NEW m \in owed
            PROVE  \/ fate'[m] \in Settled \cup {"counted"}
                   \/ fate'[m] = "queued" /\ \E i \in 1..(k - 1 - 1) : notes'[i] = m
        <5>1. m \in 1..Lines
          BY <1>2
        <5>2. CASE fate[m] \in Settled \cup {"counted"} \/ m = head
          BY <1>10, <2>1, <5>1, <5>2
        <5>3. CASE ~(fate[m] \in Settled \cup {"counted"} \/ m = head)
          <6>1. fate[m] = "queued" /\ fate'[m] = fate[m]
            BY <1>10, <3>1, <5>1, <5>3 DEF Ahead
          <6>2. PICK i \in 1..(k - 1) : notes[i] = m
            BY <3>1, <5>3 DEF Ahead
          <6>3. i # 1
            BY <1>4, <5>3, <6>2
          <6>4. i - 1 \in 1..(k - 1 - 1) /\ i - 1 \in 1..(n - 1) /\ i - 1 + 1 = i
            BY <6>2, <6>3
          <6>5. notes'[i - 1] = m
            BY <1>6, <6>2, <6>4
          <6> QED BY <6>1, <6>4, <6>5
        <5> QED BY <5>2, <5>3
      <4>5. Ahead(k - 1)'
        BY <1>3, <1>6, <4>3, <4>4 DEF Ahead
      <4>6. \E j \in 1..Len(notes') : Ahead(j)'
        BY <1>6, <4>2, <4>5
      <4> QED BY <4>1, <4>6 DEF FlushIsOwed, FlushedIsSettled
    <3> QED BY <3>3, <3>4
  <2>5. CASE flush # "waiting"
    <3>1. flush' = flush
      BY <1>3, <2>5
    <3>2. FlushedIsSettled'
      BY <1>1, <1>2, <1>3, <2>1, <3>1 DEF FlushIsOwed, FlushedIsSettled
    <3> QED BY <2>2, <2>3, <2>5, <3>1, <3>2 DEF FlushIsOwed
  <2> QED BY <2>4, <2>5
<1> QED BY <1>9, <1>11, <1>12, <1>15, <1>16, <1>17 DEF StreamInv

LEMMA FlushKeeps ==
    ASSUME StreamInv, BeginFlush \/ PushFlush \/ FlushLate
    PROVE  StreamInv'
<1>1. /\ StreamTyped /\ SoundSink(Sink) /\ CountedAreMissed /\ NotedInOrder /\ QueuedAreNotes
      /\ FlushIsOwed
  BY DEF StreamInv
<1>2. /\ fate' = fate /\ missed' = missed /\ UNCHANGED <<file, handle, size, enabled, faults>>
  BY DEF BeginFlush, PushFlush, FlushLate
<1>3. /\ fate \in [1..Lines -> {"unborn", "refused", "queued", "counted"} \cup Settled]
      /\ notes \in Seq(0..Lines) /\ Len(notes) \in Nat /\ Lines \in Nat /\ owed \subseteq 1..Lines
  BY <1>1, DiagnosticsAssumption DEF StreamTyped
<1>4. SoundSink(Sink)' /\ CountedAreMissed' /\ NotedInOrder'
  BY <1>1, <1>2, SinkStays DEF CountedAreMissed, Counted, NotedInOrder
<1>5. CASE BeginFlush
  <2>1. /\ flush = "idle" /\ flush' = "asking" /\ notes' = notes
        /\ owed' = {n \in 1..Lines : fate[n] \notin {"unborn", "refused"}}
    BY <1>5 DEF BeginFlush
  <2>2. StreamTyped'
    BY <1>1, <1>2, <2>1 DEF StreamTyped
  <2>3. FlushIsOwed'
    BY <1>1, <1>2, <1>3, <2>1 DEF FlushIsOwed, FlushedIsSettled
  <2>4. QueuedAreNotes'
    BY <1>1, <1>2, <2>1 DEF QueuedAreNotes
  <2> QED BY <1>4, <2>2, <2>3, <2>4 DEF StreamInv
<1>6. CASE PushFlush
  <2>1. /\ flush = "asking" /\ flush' = "waiting" /\ owed' = owed /\ notes' = Append(notes, FlushNote)
    BY <1>6 DEF PushFlush
  <2>2. PICK k \in Nat : k = Len(notes) + 1
    BY <1>3
  <2>3. PICK q \in Seq(0..Lines) :
           /\ q = notes' /\ Len(q) = k
           /\ \A i \in 1..k : q[i] = IF i = k THEN FlushNote ELSE notes[i]
    <3>1. FlushNote \in 0..Lines
      BY <1>3 DEF FlushNote
    <3>2. /\ Append(notes, FlushNote) \in Seq(0..Lines) /\ Len(Append(notes, FlushNote)) = Len(notes) + 1
          /\ \A i \in 1..Len(notes) + 1 :
                Append(notes, FlushNote)[i] = IF i = Len(notes) + 1 THEN FlushNote ELSE notes[i]
      <4>1. notes \in Seq(0..Lines)
        BY <1>3
      <4> QED BY ONLY <3>1, <4>1, Appended
    <3> QED BY <2>1, <2>2, <3>2
  <2>4. \A i \in 1..(k - 1) : i \in 1..k /\ i # k /\ i \in 1..Len(notes) /\ q[i] = notes[i]
    BY <1>3, <2>2, <2>3
  <2>5. \A i \in 1..Len(notes) : i \in 1..(k - 1)
    BY <1>3, <2>2
  <2>6. StreamTyped'
    BY <1>1, <1>2, <2>1, <2>3 DEF StreamTyped
  <2>7. QueuedAreNotes'
    <3>1. \A n \in 1..Lines : fate[n] = "queued" => \E i \in 1..k : q[i] = n
      BY <1>1, <2>4, <2>5 DEF QueuedAreNotes
    <3>2. \A i \in 1..k : q[i] # FlushNote => i \in 1..(k - 1)
      BY <2>2, <2>3
    <3>3. \A i \in 1..k : q[i] # FlushNote => fate[q[i]] # "unborn"
      BY <1>1, <2>4, <3>2 DEF QueuedAreNotes
    <3> QED BY <1>2, <2>3, <3>1, <3>3 DEF QueuedAreNotes
  <2>8. FlushIsOwed'
    <3>1. \A i \in 1..k : q[i] = FlushNote <=> i = k
      <4>1. \A i \in 1..(k - 1) : notes[i] # FlushNote
        BY <1>1, <2>1, <2>4 DEF FlushIsOwed
      <4>2. \A i \in 1..k : i = k \/ i \in 1..(k - 1)
        BY <2>2
      <4> QED BY <2>3, <2>4, <4>1, <4>2
    <3>2. \A n \in owed : \/ fate[n] \in Settled \cup {"counted"}
                          \/ fate[n] = "queued" /\ \E i \in 1..(k - 1) : q[i] = n
      BY <1>1, <1>3, <2>1, <2>4, <2>5 DEF FlushIsOwed, QueuedAreNotes
    <3>3. Ahead(k)'
      BY <1>2, <2>1, <2>3, <3>1, <3>2 DEF Ahead
    <3>4. k \in 1..Len(notes')
      BY <1>3, <2>2, <2>3
    <3> QED BY <2>1, <3>3, <3>4 DEF FlushIsOwed, FlushedIsSettled
  <2> QED BY <1>4, <2>6, <2>7, <2>8 DEF StreamInv
<1>7. CASE FlushLate
  <2>1. flush' = "late" /\ notes' = notes /\ owed' = owed
    BY <1>7 DEF FlushLate
  <2>2. StreamTyped' /\ QueuedAreNotes' /\ FlushIsOwed'
    BY <1>1, <1>2, <2>1 DEF StreamTyped, QueuedAreNotes, FlushIsOwed, FlushedIsSettled
  <2> QED BY <1>4, <2>2 DEF StreamInv
<1> QED BY <1>5, <1>6, <1>7

LEMMA StreamInitially == DiagnosticsInit => StreamInv
<1> SUFFICES ASSUME DiagnosticsInit PROVE StreamInv
  OBVIOUS
<1>1. Lines \in Nat /\ Cap \in Nat \ {0}
  BY DiagnosticsAssumption
<1>2. StreamTyped
  BY <1>1 DEF DiagnosticsInit, StreamTyped
<1>3. SoundSink(Sink)
  BY <1>1 DEF DiagnosticsInit, SoundSink, Sink, SinkRecord
<1>4. CountedAreMissed
  <2>1. Counted = {}
    BY DEF DiagnosticsInit, Counted
  <2> QED BY <2>1, FS_EmptySet DEF DiagnosticsInit, CountedAreMissed
<1>5. NotedInOrder
  <2>1. 0 \in 0..Lines /\ \A n \in 1..Lines : fate[n] = "unborn" <=> n > 0
    BY <1>1 DEF DiagnosticsInit
  <2> QED BY <2>1 DEF NotedInOrder
<1>6. QueuedAreNotes /\ FlushIsOwed
  BY DEF DiagnosticsInit, QueuedAreNotes, FlushIsOwed, FlushedIsSettled
<1> QED BY <1>2, <1>3, <1>4, <1>5, <1>6 DEF StreamInv

\* Whatever the stream does, its invariant goes on.
LEMMA StreamKeeps ==
    ASSUME StreamInv, DiagnosticsNext \/ UNCHANGED diagnostics
    PROVE  StreamInv'
<1>1. CASE UNCHANGED diagnostics
  <2>1. /\ fate' = fate /\ notes' = notes /\ missed' = missed /\ flush' = flush /\ owed' = owed
        /\ UNCHANGED <<file, handle, size, enabled, faults>>
    BY <1>1 DEF diagnostics
  <2>2. SoundSink(Sink)'
    BY <2>1, SinkStays DEF StreamInv
  <2> QED BY <2>1, <2>2 DEF StreamInv, StreamTyped, CountedAreMissed, Counted, NotedInOrder, QueuedAreNotes,
                           FlushIsOwed, FlushedIsSettled, Ahead
<1>2. CASE DiagnosticsNext
  BY <1>2, NoteKeeps, CountMissedKeeps, DrainKeeps, FlushKeeps DEF DiagnosticsNext
<1> QED BY <1>1, <1>2

-----------------------------------------------------------------------------
(***************************************************************************)
(* The two together.                                                       *)
(***************************************************************************)

Inv == RecorderInv /\ StreamInv

\* Every step of the base is one of the recorder or leaves it alone, and one of
\* the stream or leaves it alone; so both invariants go on side by side.
THEOREM TelemetryInvariant == Spec => []Inv
<1>1. Init => Inv
  BY RecorderInitially, StreamInitially DEF Init, Inv
<1>2. Inv /\ [Next]_vars => Inv'
  <2> SUFFICES ASSUME Inv, [Next]_vars PROVE Inv'
    OBVIOUS
  <2>1. /\ Quiet \/ Loud \/ UNCHANGED recorder
        /\ DiagnosticsNext \/ UNCHANGED diagnostics
    BY DEF Next, Told, DiagnosticsNext, vars
  <2> QED BY <2>1, RecorderKeeps, StreamKeeps DEF Inv
<1> QED BY <1>1, <1>2, PTL DEF Spec

\* Every activity is in the queue, sent, or in one count exactly; a count is
\* lost only with a record that is refused (activity.rs:91-103).
THEOREM AccountedHolds == Spec => []Accounted
<1>1. Inv => Accounted
  BY DEF Inv, RecorderInv
<1> QED BY <1>1, TelemetryInvariant, PTL

\* Activities are appended in the order they were recorded, and one that is
\* appended again, after an answer was lost, is the same with the same count:
\* who reads the log can tell a repetition (activity.rs:94-110).
THEOREM LogInOrderHolds == Spec => []LogInOrder
<1>1. Inv => LogInOrder
  BY DEF Inv, RecorderInv, LogIsOlder
<1> QED BY <1>1, TelemetryInvariant, PTL

\* A flush that was acknowledged leaves nothing it answers for in the queue or
\* the counter, whatever is noted, counted, torn or rotated meanwhile.
THEOREM FlushedIsSettledHolds == Spec => []FlushedIsSettled
<1>1. Inv => FlushedIsSettled
  BY DEF Inv, StreamInv, FlushIsOwed
<1> QED BY <1>1, TelemetryInvariant, PTL

\* The counter counts what it stands for, the file stays under its cap and a
\* torn line is its last (Sink::write).
THEOREM StreamCoherentHolds == Spec => []StreamCoherent
<1>1. Inv => StreamCoherent
  <2> SUFFICES ASSUME SoundSink(Sink), CountedAreMissed PROVE StreamCoherent
    BY DEF Inv, StreamInv
  <2>1. Sink.file = file /\ Sink.handle = handle /\ Sink.size = size /\ Sink.enabled = enabled
    BY DEF Sink
  <2> QED BY <2>1 DEF SoundSink, CountedAreMissed, StreamCoherent
<1> QED BY <1>1, TelemetryInvariant, PTL
=============================================================================
