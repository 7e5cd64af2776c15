----------------------------- MODULE PeerProofs -----------------------------
(***************************************************************************)
(* Theorems about calls over a connection, for any calls and any number of *)
(* permits and places: what a connection promises of a call (CallOnce) is  *)
(* what the table of waiting calls, the two queues and the cancels keep.   *)
(***************************************************************************)
EXTENDS Peer, FiniteSetTheorems, SequenceTheorems, TLAPS

Messages == [kind : {"request", "cancel"}, id : Calls]
Responses == [id : Calls, result : {"ok", "err"}]

CallerTypeOK ==
    /\ stage \in [Calls -> {"idle", "queueing", "waiting", "done"}]
    /\ result \in [Calls -> Results]
    /\ pending \in SUBSET Calls
    /\ answer \in [Calls -> {"none", "ok", "err", "closed"}]
    /\ open \in BOOLEAN

WiresTypeOK ==
    /\ toServer \in Seq(Messages)
    /\ Len(toServer) <= Room
    /\ toCaller \in Seq(Responses)
    /\ Len(toCaller) <= Room

ServerTypeOK ==
    /\ serving \in BOOLEAN
    /\ permits \in Nat
    /\ cancels \in SUBSET Calls
    /\ cancelled \in SUBSET Calls
    /\ work \in [Calls -> {"none", "running", "ok", "err", "cancelled"}]

(* TypeOK without the bound on the permits, which needs NothingLeaks.      *)
Typed == CallerTypeOK /\ WiresTypeOK /\ ServerTypeOK

-----------------------------------------------------------------------------
(* What is in a queue after a message was put at its end, or taken from    *)
(* its head.                                                               *)
LEMMA Appended ==
    ASSUME NEW S, NEW q \in Seq(S), NEW m \in S
    PROVE  /\ Append(q, m) \in Seq(S)
           /\ Len(Append(q, m)) = Len(q) + 1
           /\ \A i \in 1 .. Len(Append(q, m)) :
                 \/ i \in 1 .. Len(q) /\ Append(q, m)[i] = q[i]
                 \/ i = Len(q) + 1 /\ Append(q, m)[i] = m
<1>1. /\ Append(q, m) \in Seq(S)
      /\ Len(Append(q, m)) = Len(q) + 1
      /\ \A i \in 1 .. Len(q) : Append(q, m)[i] = q[i]
      /\ Append(q, m)[Len(q) + 1] = m
  BY AppendProperties
<1>2. Len(q) \in Nat
  BY LenProperties
<1> QED BY <1>1, <1>2

LEMMA Taken ==
    ASSUME NEW S, NEW q \in Seq(S), q # <<>>
    PROVE  /\ Head(q) \in S /\ Tail(q) \in Seq(S)
           /\ Len(q) \in Nat \ {0} /\ Len(Tail(q)) = Len(q) - 1
           /\ Head(q) = q[1]
           /\ \A i \in 1 .. Len(Tail(q)) : i + 1 \in 1 .. Len(q) /\ Tail(q)[i] = q[i + 1]
<1>1. /\ Head(q) \in S /\ Tail(q) \in Seq(S)
      /\ Len(Tail(q)) = Len(q) - 1
      /\ \A i \in 1 .. Len(Tail(q)) : Tail(q)[i] = q[i + 1]
  BY HeadTailProperties
<1>2. Len(q) \in Nat \ {0}
  BY EmptySeq
<1>3. Head(q) = q[1]
  OBVIOUS
<1> QED BY <1>1, <1>2, <1>3

LEMMA Prefix ==
    ASSUME NEW S, NEW q \in Seq(S), NEW n \in 0 .. Len(q)
    PROVE  /\ SubSeq(q, 1, n) \in Seq(S) /\ Len(SubSeq(q, 1, n)) = n
           /\ \A i \in 1 .. n : i \in 1 .. Len(q) /\ SubSeq(q, 1, n)[i] = q[i]
<1>1. Len(q) \in Nat /\ \A i \in 1 .. n : i \in 1 .. Len(q) /\ q[i] \in S
  BY LenProperties, ElementOfSeq
<1>2. /\ SubSeq(q, 1, n) \in Seq(S)
      /\ Len(SubSeq(q, 1, n)) = IF 1 <= n THEN n - 1 + 1 ELSE 0
      /\ \A i \in 1 .. n - 1 + 1 : SubSeq(q, 1, n)[i] = q[1 + i - 1]
  BY <1>1, SubSeqProperties
<1> QED BY <1>1, <1>2

-----------------------------------------------------------------------------
LEMMA TypedInit == Init => Typed
<1> SUFFICES ASSUME Init PROVE Typed
  OBVIOUS
<1>1. <<>> \in Seq(Messages) /\ <<>> \in Seq(Responses) /\ Len(<<>>) = 0
  BY EmptySeq
<1> QED
  BY <1>1, InFlightAssumption, RoomAssumption
  DEF Init, Typed, CallerTypeOK, WiresTypeOK, ServerTypeOK, Results

(* The steps of the caller.                                                *)
LEMMA TypedCaller ==
    ASSUME Typed,
           \/ \E c \in Calls : \/ Call(c) \/ Enqueue(c) \/ QueueGone(c)
                               \/ Return(c) \/ Abandon(c)
           \/ Dispatch \/ CallerCloses
    PROVE  Typed'
<1> USE DEF Typed
<1>1. ServerTypeOK'
  BY DEF Call, Enqueue, QueueGone, Return, Abandon, Dispatch, CallerCloses, server, ServerTypeOK
<1>2. Closed \in [Calls -> {"none", "ok", "err", "closed"}]
  BY DEF Closed, CallerTypeOK
<1>3. ASSUME NEW c \in Calls, Call(c) \/ QueueGone(c) \/ Return(c) PROVE Typed'
  BY <1>1, <1>3 DEF Call, QueueGone, Return, CallerTypeOK, WiresTypeOK, Results
<1>4. ASSUME NEW c \in Calls, NEW m \in Messages,
             toServer' = Append(toServer, m), Len(toServer) < Room, UNCHANGED toCaller
      PROVE  WiresTypeOK'
  <2>1. toServer' \in Seq(Messages) /\ Len(toServer') = Len(toServer) + 1
    BY <1>4, Appended DEF WiresTypeOK
  <2>2. Len(toServer) \in Nat
    BY LenProperties DEF WiresTypeOK
  <2> QED BY <1>4, <2>1, <2>2, RoomAssumption DEF WiresTypeOK
<1>5. ASSUME NEW c \in Calls, Enqueue(c) PROVE Typed'
  <2>1. WiresTypeOK'
    BY <1>4, <1>5 DEF Enqueue, Request, Messages
  <2> QED BY <1>1, <1>5, <2>1 DEF Enqueue, CallerTypeOK
<1>6. ASSUME NEW c \in Calls, Abandon(c) PROVE Typed'
  <2>1. CASE c \in pending /\ Len(toServer) < Room
    <3>1. WiresTypeOK'
      BY <1>4, <1>6, <2>1 DEF Abandon, CancelOf, Messages
    <3> QED BY <1>1, <1>6, <2>1, <3>1 DEF Abandon, CallerTypeOK, Results
  <2>2. CASE ~(c \in pending /\ Len(toServer) < Room)
    BY <1>1, <1>2, <1>6, <2>2 DEF Abandon, CallerTypeOK, WiresTypeOK, Results
  <2> QED BY <2>1, <2>2
<1>7. CASE Dispatch
  <2>1. /\ toCaller # <<>> /\ toCaller' = Tail(toCaller) /\ UNCHANGED toServer
    BY <1>7 DEF Dispatch
  <2>2. /\ Head(toCaller) \in Responses /\ toCaller' \in Seq(Responses)
        /\ Len(toCaller) \in Nat /\ Len(toCaller') = Len(toCaller) - 1
    BY <2>1, Taken DEF WiresTypeOK
  <2>3. WiresTypeOK'
    BY <2>1, <2>2, RoomAssumption DEF WiresTypeOK
  <2> QED BY <1>1, <1>7, <2>2, <2>3 DEF Dispatch, CallerTypeOK, Responses
<1>8. CASE CallerCloses
  BY <1>1, <1>2, <1>8 DEF CallerCloses, CallerTypeOK, WiresTypeOK
<1> QED BY <1>3, <1>5, <1>6, <1>7, <1>8

(* The steps of the listener's side.                                       *)
LEMMA TypedServer ==
    ASSUME Typed,
           \/ \E c \in Calls : Cut(c) \/ Finish(c)
           \/ Serve \/ HeedCancel \/ CallerGone \/ ServerCloses
    PROVE  Typed'
<1> USE DEF Typed
<1>1. CallerTypeOK'
  BY DEF Cut, Finish, Over, Serve, HeedCancel, CallerGone, ServerCloses, caller, CallerTypeOK
<1>2. toServer # <<>> =>
        /\ Head(toServer) \in Messages /\ Tail(toServer) \in Seq(Messages)
        /\ Len(Tail(toServer)) <= Room
  <2> SUFFICES ASSUME toServer # <<>>
               PROVE  /\ Head(toServer) \in Messages /\ Tail(toServer) \in Seq(Messages)
                      /\ Len(Tail(toServer)) <= Room
    OBVIOUS
  <2>1. /\ Head(toServer) \in Messages /\ Tail(toServer) \in Seq(Messages)
        /\ Len(toServer) \in Nat /\ Len(Tail(toServer)) = Len(toServer) - 1
    BY Taken DEF WiresTypeOK
  <2> QED BY <2>1, RoomAssumption DEF WiresTypeOK
<1>3. ASSUME NEW c \in Calls, NEW w \in {"ok", "err", "cancelled"}, NEW r \in {"ok", "err"},
             Over(c, w, r)
      PROVE  Typed'
  <2>1. Response(c, r) \in Responses
    BY DEF Response, Responses
  <2>2. Len(toCaller) \in Nat
    BY LenProperties DEF WiresTypeOK
  <2>3. WiresTypeOK' /\ serving' \in BOOLEAN
    <3>1. CASE serving /\ Len(toCaller) < Room
      <4>1. toCaller' = Append(toCaller, Response(c, r)) /\ UNCHANGED <<toServer, serving>>
        BY <1>3, <3>1 DEF Over, Responded
      <4>2. toCaller' \in Seq(Responses) /\ Len(toCaller') = Len(toCaller) + 1
        BY <2>1, <4>1, Appended DEF WiresTypeOK
      <4> QED BY <2>2, <3>1, <4>1, <4>2, RoomAssumption DEF WiresTypeOK, ServerTypeOK
    <3>2. CASE ~(serving /\ Len(toCaller) < Room)
      BY <1>3, <3>2 DEF Over, Responded, WiresTypeOK
    <3> QED BY <3>1, <3>2
  <2> QED BY <1>1, <1>3, <2>3 DEF Over, ServerTypeOK
<1>4. ASSUME NEW c \in Calls, Cut(c) \/ Finish(c) PROVE Typed'
  BY <1>3, <1>4 DEF Cut, Finish
<1>5. CASE Serve
  BY <1>1, <1>2, <1>5 DEF Serve, Messages, WiresTypeOK, ServerTypeOK
<1>6. CASE HeedCancel
  BY <1>1, <1>2, <1>6 DEF HeedCancel, Messages, WiresTypeOK, ServerTypeOK
<1>7. CASE CallerGone
  BY <1>1, <1>7 DEF CallerGone, WiresTypeOK, ServerTypeOK
<1>8. CASE ServerCloses
  <2>1. PICK n \in 0 .. Len(toServer) : toServer' = SubSeq(toServer, 1, n)
    BY <1>8 DEF ServerCloses
  <2>2. toServer' \in Seq(Messages) /\ Len(toServer') = n /\ Len(toServer) \in Nat
    BY <2>1, Prefix, LenProperties DEF WiresTypeOK
  <2>3. serving' = FALSE /\ UNCHANGED <<permits, cancels, cancelled, work, toCaller>>
    BY <1>8 DEF ServerCloses
  <2>4. Len(toServer') <= Room
    BY <2>2, RoomAssumption DEF WiresTypeOK
  <2> QED BY <1>1, <2>2, <2>3, <2>4 DEF WiresTypeOK, ServerTypeOK
<1> QED BY <1>4, <1>5, <1>6, <1>7, <1>8

LEMMA TypedStep == Typed /\ [Next]_vars => Typed'
<1>1. Typed /\ UNCHANGED vars => Typed'
  BY DEF vars, caller, server, Typed, CallerTypeOK, WiresTypeOK, ServerTypeOK
<1> QED BY <1>1, TypedCaller, TypedServer DEF Next, TransportStep, External, EndOfFile

-----------------------------------------------------------------------------
(* The inductive invariant.  What waits in the queue to the listeners: a   *)
(* request that was made once and not served yet, the cancel of a call     *)
(* that was given up.                                                      *)
ToServerInv ==
    /\ \A i \in 1 .. Len(toServer) :
          toServer[i].kind = "request" =>
              stage[toServer[i].id] \in {"waiting", "done"} /\ work[toServer[i].id] = "none"
    /\ \A i \in 1 .. Len(toServer) :
          toServer[i].kind = "cancel" => result[toServer[i].id] = "abandoned"
    /\ \A i, j \in 1 .. Len(toServer) :
          /\ toServer[i].kind = "request" /\ toServer[j].kind = "request"
          /\ toServer[i].id = toServer[j].id
          => i = j

(* What is on its way back, and what the table handed a call, is what the  *)
(* listener answered, unless the call was given up and the listener cut.   *)
AnswerInv ==
    /\ \A i \in 1 .. Len(toCaller) :
          \/ work[toCaller[i].id] = toCaller[i].result
          \/ work[toCaller[i].id] = "cancelled"
    /\ \A c \in Calls : answer[c] \in {"ok", "err"} => work[c] = answer[c]
    /\ \A c \in Calls : work[c] = "cancelled" => result[c] = "abandoned"

(* What each stage of a call rules out.                                    *)
StageInv ==
    /\ \A c \in Calls : stage[c] \in {"idle", "queueing"} => work[c] = "none"
    /\ \A c \in Calls : stage[c] = "idle" => answer[c] = "none"
    /\ \A c \in Calls : result[c] = "abandoned" => stage[c] = "done"
    /\ \A c \in pending : answer[c] = "none"

TableInv == \A c \in pending : stage[c] \in {"queueing", "waiting"} /\ open

TokenInv ==
    /\ cancels = {c \in Calls : work[c] = "running"}
    /\ cancelled \subseteq cancels
    /\ \A c \in cancelled : result[c] = "abandoned"

PermitInv ==
    /\ IsFiniteSet(cancels)
    /\ permits = InFlight - Cardinality(cancels)

CallInv == ToServerInv /\ AnswerInv /\ StageInv /\ TableInv /\ TokenInv
IInv == CallInv /\ PermitInv

LEMMA InvInit == Init => IInv
<1> SUFFICES ASSUME Init PROVE IInv
  OBVIOUS
<1>1. Len(<<>>) = 0 /\ cancels = {} /\ IsFiniteSet({}) /\ Cardinality({}) = 0
  BY EmptySeq, FS_EmptySet DEF Init
<1>2. PermitInv
  BY <1>1, InFlightAssumption DEF Init, PermitInv
<1> QED
  BY <1>1, <1>2
  DEF Init, IInv, CallInv, ToServerInv, AnswerInv, StageInv, TableInv, TokenInv

(* A queue that lost messages keeps what is said of each it still has.     *)
LEMMA QueueShrinks ==
    ASSUME Typed, ToServerInv, NEW k \in {0, 1}, toServer' \in Seq(Messages),
           \A i \in 1 .. Len(toServer') :
              i + k \in 1 .. Len(toServer) /\ toServer'[i] = toServer[i + k],
           UNCHANGED <<stage, result, work>>
    PROVE  ToServerInv'
<1>1. \A i \in 1 .. Len(toServer') : i \in Int /\ i + k \in Int
  OBVIOUS
<1>2. ASSUME NEW i \in 1 .. Len(toServer'), NEW j \in 1 .. Len(toServer'),
             toServer'[i].kind = "request", toServer'[j].kind = "request",
             toServer'[i].id = toServer'[j].id
      PROVE  i = j
  <2>1. /\ i + k \in 1 .. Len(toServer) /\ toServer'[i] = toServer[i + k]
        /\ j + k \in 1 .. Len(toServer) /\ toServer'[j] = toServer[j + k]
    OBVIOUS
  <2>2. i + k = j + k
    BY <1>2, <2>1 DEF ToServerInv
  <2> QED BY <1>1, <2>2
<1>3. \A i \in 1 .. Len(toServer') :
          /\ toServer'[i].kind = "request" =>
                stage[toServer'[i].id] \in {"waiting", "done"} /\ work[toServer'[i].id] = "none"
          /\ toServer'[i].kind = "cancel" => result[toServer'[i].id] = "abandoned"
  BY DEF ToServerInv
<1> QED BY <1>2, <1>3 DEF ToServerInv

LEMMA CallerKeeps ==
    ASSUME Typed, CallInv,
           \/ \E c \in Calls : \/ Call(c) \/ Enqueue(c) \/ QueueGone(c)
                               \/ Return(c) \/ Abandon(c)
           \/ Dispatch \/ CallerCloses
    PROVE  CallInv'
<1> USE DEF Typed, CallInv
<1>1. /\ \A i \in 1 .. Len(toServer) : toServer[i].id \in Calls
      /\ \A i \in 1 .. Len(toCaller) : toCaller[i].id \in Calls
  <2>1. /\ \A i \in 1 .. Len(toServer) : toServer[i] \in Messages
        /\ \A i \in 1 .. Len(toCaller) : toCaller[i] \in Responses
    BY ElementOfSeq DEF WiresTypeOK
  <2> QED BY <2>1 DEF Messages, Responses
<1>2. ASSUME NEW c \in Calls, Call(c) PROVE CallInv'
  <2>1. toServer' = toServer /\ toCaller' = toCaller /\ work' = work /\ answer' = answer
    BY <1>2 DEF Call, server
  <2>2. ToServerInv'
    BY <1>1, <1>2, <2>1 DEF Call, ToServerInv, StageInv, CallerTypeOK
  <2> QED BY <1>1, <1>2, <2>1, <2>2
    DEF Call, server, AnswerInv, StageInv, TableInv, TokenInv, CallerTypeOK
<1>3. ASSUME NEW c \in Calls, Enqueue(c) PROVE CallInv'
  <2>1. Request(c) \in Messages /\ Request(c).kind = "request" /\ Request(c).id = c
    BY DEF Request, Messages
  <2>2. toServer' = Append(toServer, Request(c)) /\ Len(toServer) \in Nat
    BY <1>3, LenProperties DEF Enqueue, WiresTypeOK
  <2>3. /\ Len(toServer') = Len(toServer) + 1
        /\ \A i \in 1 .. Len(toServer') :
              \/ i \in 1 .. Len(toServer) /\ toServer'[i] = toServer[i]
              \/ i = Len(toServer) + 1 /\ toServer'[i] = Request(c)
    BY <2>1, <2>2, Appended DEF WiresTypeOK
  <2>4. \A i \in 1 .. Len(toServer) : toServer[i].kind = "request" => toServer[i].id # c
    BY <1>3 DEF Enqueue, ToServerInv
  <2>5. stage' = [stage EXCEPT ![c] = "waiting"] /\ UNCHANGED <<work, result>>
    BY <1>3 DEF Enqueue, server
  <2>6. work[c] = "none" /\ stage[c] = "queueing"
    BY <1>3 DEF Enqueue, StageInv
  <2>7. ToServerInv'
    BY <1>1, <2>1, <2>2, <2>3, <2>4, <2>5, <2>6 DEF ToServerInv, CallerTypeOK
  <2> QED BY <1>1, <1>3, <2>7
    DEF Enqueue, server, AnswerInv, StageInv, TableInv, TokenInv, CallerTypeOK
<1>4. ASSUME NEW c \in Calls, QueueGone(c) PROVE CallInv'
  <2>1. toServer' = toServer /\ toCaller' = toCaller /\ work' = work /\ answer' = answer
    BY <1>4 DEF QueueGone, server
  <2>2. ToServerInv'
    BY <1>1, <1>4, <2>1 DEF QueueGone, ToServerInv, StageInv, CallerTypeOK
  <2>3. result[c] # "abandoned" /\ work[c] = "none"
    BY <1>4 DEF QueueGone, StageInv
  <2> QED BY <1>1, <1>4, <2>1, <2>2, <2>3
    DEF QueueGone, server, AnswerInv, StageInv, TableInv, TokenInv, CallerTypeOK
<1>5. ASSUME NEW c \in Calls, Return(c) PROVE CallInv'
  <2>1. toServer' = toServer /\ toCaller' = toCaller /\ work' = work /\ answer' = answer
    BY <1>5 DEF Return, server
  <2>2. result[c] # "abandoned" /\ c \notin pending
    BY <1>5 DEF Return, StageInv
  <2>3. ToServerInv'
    BY <1>1, <1>5, <2>1, <2>2 DEF Return, ToServerInv, CallerTypeOK
  <2> QED BY <1>1, <1>5, <2>1, <2>2, <2>3
    DEF Return, server, AnswerInv, StageInv, TableInv, TokenInv, CallerTypeOK
<1>6. ASSUME NEW c \in Calls, Abandon(c) PROVE CallInv'
  <2>1. /\ stage' = [stage EXCEPT ![c] = "done"]
        /\ result' = [result EXCEPT ![c] = "abandoned"]
        /\ UNCHANGED <<server, toCaller>>
    BY <1>6 DEF Abandon
  <2>2. CASE c \in pending /\ Len(toServer) < Room
    <3>1. CancelOf(c) \in Messages /\ CancelOf(c).kind = "cancel" /\ CancelOf(c).id = c
      BY DEF CancelOf, Messages
    <3>2. toServer' = Append(toServer, CancelOf(c)) /\ Len(toServer) \in Nat
      BY <1>6, <2>2, LenProperties DEF Abandon, WiresTypeOK
    <3>3. /\ Len(toServer') = Len(toServer) + 1
          /\ \A i \in 1 .. Len(toServer') :
                \/ i \in 1 .. Len(toServer) /\ toServer'[i] = toServer[i]
                \/ i = Len(toServer) + 1 /\ toServer'[i] = CancelOf(c)
      BY <3>1, <3>2, Appended DEF WiresTypeOK
    <3>4. ToServerInv'
      BY <1>1, <2>1, <3>1, <3>2, <3>3 DEF server, ToServerInv, CallerTypeOK
    <3>5. pending' = pending \ {c} /\ UNCHANGED <<answer, open>>
      BY <1>6, <2>2 DEF Abandon
    <3> QED BY <1>1, <2>1, <3>4, <3>5
      DEF server, AnswerInv, StageInv, TableInv, TokenInv, CallerTypeOK
  <2>3. CASE ~(c \in pending /\ Len(toServer) < Room)
    <3>1. toServer' = toServer
      BY <1>6, <2>3 DEF Abandon
    <3>2. ToServerInv'
      BY <1>1, <2>1, <3>1 DEF server, ToServerInv, CallerTypeOK
    <3>3. CASE c \in pending
      <4>1. pending' = {} /\ answer' = [Closed EXCEPT ![c] = answer[c]]
        BY <1>6, <2>3, <3>3 DEF Abandon
      <4>2. \A d \in Calls : answer'[d] \in {answer[d], "closed"} /\ (d \notin pending => answer'[d] = answer[d])
        BY <3>3, <4>1 DEF Closed, CallerTypeOK
      <4> QED BY <1>1, <2>1, <3>2, <4>1, <4>2
        DEF server, AnswerInv, StageInv, TableInv, TokenInv, CallerTypeOK
    <3>4. CASE c \notin pending
      <4>1. UNCHANGED <<answer, open, pending>>
        BY <1>6, <2>3, <3>4 DEF Abandon
      <4> QED BY <1>1, <2>1, <3>2, <3>4, <4>1
        DEF server, AnswerInv, StageInv, TableInv, TokenInv, CallerTypeOK
    <3> QED BY <3>3, <3>4
  <2> QED BY <2>2, <2>3
<1>7. CASE Dispatch
  <2> DEFINE r == Head(toCaller)
  <2>1. /\ toCaller # <<>> /\ toCaller' = Tail(toCaller) /\ pending' = pending \ {r.id}
        /\ answer' = IF r.id \in pending THEN [answer EXCEPT ![r.id] = r.result] ELSE answer
        /\ UNCHANGED <<stage, result, open, toServer, server>>
    BY <1>7 DEF Dispatch
  <2>2. /\ r \in Responses /\ r = toCaller[1] /\ Len(toCaller) \in Nat \ {0}
        /\ Len(toCaller') = Len(toCaller) - 1
        /\ \A i \in 1 .. Len(toCaller') : i + 1 \in 1 .. Len(toCaller) /\ toCaller'[i] = toCaller[i + 1]
    BY <2>1, Taken DEF WiresTypeOK
  <2>3. ToServerInv' /\ TableInv' /\ TokenInv'
    BY <1>1, <2>1 DEF server, ToServerInv, TableInv, TokenInv
  <2>4. r.id \in pending => work[r.id] = r.result
    <3>1. 1 \in 1 .. Len(toCaller)
      BY <2>2
    <3> QED BY <2>2, <3>1 DEF AnswerInv, StageInv, TableInv, CallerTypeOK
  <2>5. StageInv'
    BY <2>1, <2>2, <2>3 DEF server, StageInv, TableInv, CallerTypeOK, Responses
  <2>6. AnswerInv'
    BY <1>1, <2>1, <2>2, <2>4 DEF server, AnswerInv, CallerTypeOK, Responses
  <2> QED BY <2>3, <2>5, <2>6
<1>8. CASE CallerCloses
  <2>1. /\ UNCHANGED <<stage, result, toServer, server, toCaller>>
        /\ pending' = {} /\ \A d \in Calls : answer'[d] \in {answer[d], "closed"} /\ (d \notin pending => answer'[d] = answer[d])
    BY <1>8 DEF CallerCloses, Closed
  <2>2. ToServerInv' /\ TableInv' /\ TokenInv'
    BY <1>1, <2>1 DEF server, ToServerInv, TableInv, TokenInv
  <2>3. \A c \in Calls : stage[c] = "idle" => c \notin pending
    BY DEF TableInv
  <2> QED BY <1>1, <2>1, <2>2, <2>3 DEF server, AnswerInv, StageInv
<1> QED BY <1>2, <1>3, <1>4, <1>5, <1>6, <1>7, <1>8

LEMMA ServerKeeps ==
    ASSUME Typed, CallInv,
           \/ \E c \in Calls : Cut(c) \/ Finish(c)
           \/ Serve \/ HeedCancel \/ CallerGone \/ ServerCloses
    PROVE  CallInv'
<1> USE DEF Typed, CallInv
<1>1. UNCHANGED caller
  BY DEF Cut, Finish, Over, Serve, HeedCancel, CallerGone, ServerCloses
<1>2. TableInv'
  BY <1>1 DEF caller, TableInv
<1>3. toServer # <<>> =>
        /\ Head(toServer) \in Messages /\ Head(toServer) = toServer[1]
        /\ Len(toServer) \in Nat \ {0}
        /\ Tail(toServer) \in Seq(Messages)
        /\ Len(Tail(toServer)) = Len(toServer) - 1
        /\ \A i \in 1 .. Len(Tail(toServer)) :
              i + 1 \in 1 .. Len(toServer) /\ Tail(toServer)[i] = toServer[i + 1]
  BY Taken DEF WiresTypeOK
<1>4. \A i \in 1 .. Len(toCaller) : toCaller[i].id \in Calls
  <2>1. \A i \in 1 .. Len(toCaller) : toCaller[i] \in Responses
    BY ElementOfSeq DEF WiresTypeOK
  <2> QED BY <2>1 DEF Responses
<1>5. ASSUME NEW c \in Calls, NEW w \in {"ok", "err", "cancelled"}, NEW r \in {"ok", "err"},
             Over(c, w, r), w # r => w = "cancelled" /\ result[c] = "abandoned"
      PROVE  CallInv'
  <2>1. /\ work[c] = "running" /\ work' = [work EXCEPT ![c] = w] /\ toServer' = toServer
        /\ cancels' = cancels \ {c} /\ cancelled' = cancelled \ {c}
        /\ UNCHANGED <<stage, result, pending, answer, open>>
    BY <1>5 DEF Over, caller
  <2>2. ToServerInv'
    BY <2>1 DEF ToServerInv, ServerTypeOK
  <2>3. StageInv' /\ TokenInv'
    BY <2>1 DEF StageInv, TokenInv, ServerTypeOK
  <2>4. \A i \in 1 .. Len(toCaller) :
            \/ work'[toCaller[i].id] = toCaller[i].result
            \/ work'[toCaller[i].id] = "cancelled"
    <3> SUFFICES ASSUME NEW i \in 1 .. Len(toCaller)
                 PROVE  \/ work'[toCaller[i].id] = toCaller[i].result
                        \/ work'[toCaller[i].id] = "cancelled"
      OBVIOUS
    <3>1. toCaller[i] \in Responses
      BY ElementOfSeq DEF WiresTypeOK
    <3> QED BY <2>1, <3>1 DEF AnswerInv, ServerTypeOK, Responses
  <2>5. \A i \in 1 .. Len(toCaller') :
            \/ work'[toCaller'[i].id] = toCaller'[i].result
            \/ work'[toCaller'[i].id] = "cancelled"
    <3>1. CASE serving /\ Len(toCaller) < Room
      <4>1. /\ Response(c, r) \in Responses
            /\ Response(c, r).id = c /\ Response(c, r).result = r
        BY DEF Response, Responses
      <4>2. toCaller' = Append(toCaller, Response(c, r))
        BY <1>5, <3>1 DEF Over, Responded
      <4>3. \A i \in 1 .. Len(toCaller') :
                \/ i \in 1 .. Len(toCaller) /\ toCaller'[i] = toCaller[i]
                \/ toCaller'[i] = Response(c, r)
        BY <4>1, <4>2, Appended DEF WiresTypeOK
      <4>4. work'[c] = w
        BY <2>1 DEF ServerTypeOK
      <4> QED BY <1>5, <2>4, <4>1, <4>3, <4>4
    <3>2. CASE ~(serving /\ Len(toCaller) < Room)
      BY <1>5, <2>4, <3>2 DEF Over, Responded
    <3> QED BY <3>1, <3>2
  <2>6. AnswerInv'
    BY <1>5, <2>1, <2>5 DEF AnswerInv, ServerTypeOK
  <2> QED BY <1>2, <2>2, <2>3, <2>6
<1>6. ASSUME NEW c \in Calls, Finish(c) PROVE CallInv'
  <2>1. PICK o \in {"ok", "err"} : Over(c, o, o)
    BY <1>6 DEF Finish
  <2>2. o \in {"ok", "err", "cancelled"}
    BY <2>1
  <2> QED BY <1>5, <2>1, <2>2
<1>7. ASSUME NEW c \in Calls, Cut(c) PROVE CallInv'
  BY <1>5, <1>7 DEF Cut, TokenInv
<1>8. CASE Serve
  <2> DEFINE c == Head(toServer).id
  <2>1. /\ toServer # <<>> /\ Head(toServer).kind = "request" /\ toServer' = Tail(toServer)
        /\ cancels' = cancels \cup {c} /\ work' = [work EXCEPT ![c] = "running"]
        /\ UNCHANGED <<stage, result, pending, answer, open, cancelled, toCaller>>
    BY <1>8 DEF Serve, caller
  <2>2. 1 \in 1 .. Len(toServer) /\ c \in Calls
    BY <1>3, <2>1 DEF Messages
  <2>3. work[c] = "none" /\ stage[c] \in {"waiting", "done"}
    BY <1>3, <2>1, <2>2 DEF ToServerInv
  <2>4. \A i \in 2 .. Len(toServer) : toServer[i].kind = "request" => toServer[i].id # c
    <3> SUFFICES ASSUME NEW i \in 2 .. Len(toServer), toServer[i].kind = "request",
                        toServer[i].id = c
                 PROVE  FALSE
      OBVIOUS
    <3>1. i \in 1 .. Len(toServer) /\ i # 1
      BY <1>3, <2>1
    <3> QED BY <1>3, <2>1, <2>2, <3>1 DEF ToServerInv
  <2>5. ToServerInv'
    <3>1. \A i \in 1 .. Len(toServer') :
              /\ i + 1 \in 1 .. Len(toServer) /\ i + 1 \in 2 .. Len(toServer)
              /\ toServer'[i] = toServer[i + 1]
      BY <1>3, <2>1
    <3>2. \A i \in 1 .. Len(toServer') :
              /\ toServer'[i].kind = "request" =>
                    /\ stage[toServer'[i].id] \in {"waiting", "done"}
                    /\ toServer'[i].id # c /\ work[toServer'[i].id] = "none"
              /\ toServer'[i].kind = "cancel" => result[toServer'[i].id] = "abandoned"
      BY <2>4, <3>1 DEF ToServerInv
    <3>3. \A i, j \in 1 .. Len(toServer') :
              /\ toServer'[i].kind = "request" /\ toServer'[j].kind = "request"
              /\ toServer'[i].id = toServer'[j].id
              => i = j
      <4> SUFFICES ASSUME NEW i \in 1 .. Len(toServer'), NEW j \in 1 .. Len(toServer'),
                          toServer'[i].kind = "request", toServer'[j].kind = "request",
                          toServer'[i].id = toServer'[j].id
                   PROVE  i = j
        OBVIOUS
      <4>1. i + 1 = j + 1
        BY <3>1 DEF ToServerInv
      <4> QED BY <4>1
    <3> QED BY <2>1, <3>2, <3>3 DEF ToServerInv, ServerTypeOK
  <2>6. \A i \in 1 .. Len(toCaller) : toCaller[i].id # c
    <3> SUFFICES ASSUME NEW i \in 1 .. Len(toCaller), toCaller[i].id = c PROVE FALSE
      OBVIOUS
    <3>1. toCaller[i] \in Responses
      BY ElementOfSeq DEF WiresTypeOK
    <3> QED BY <2>3, <3>1 DEF AnswerInv, Responses
  <2>7. answer[c] \notin {"ok", "err"}
    BY <2>2, <2>3 DEF AnswerInv
  <2>8. AnswerInv'
    BY <1>4, <2>1, <2>2, <2>6, <2>7 DEF AnswerInv, ServerTypeOK
  <2>9. StageInv' /\ TokenInv'
    BY <2>1, <2>2, <2>3 DEF StageInv, TokenInv, ServerTypeOK
  <2> QED BY <1>2, <2>5, <2>8, <2>9
<1>9. CASE HeedCancel
  <2> DEFINE c == Head(toServer).id
  <2>1. /\ toServer # <<>> /\ Head(toServer).kind = "cancel" /\ toServer' = Tail(toServer)
        /\ cancelled' = IF c \in cancels THEN cancelled \cup {c} ELSE cancelled
        /\ UNCHANGED <<stage, result, pending, answer, open, cancels, work, toCaller>>
    BY <1>9 DEF HeedCancel, caller
  <2>2. ToServerInv'
    BY <1>3, <2>1, QueueShrinks
  <2>3. result[c] = "abandoned"
    <3>1. 1 \in 1 .. Len(toServer)
      BY <1>3, <2>1
    <3> QED BY <1>3, <2>1, <3>1 DEF ToServerInv
  <2> QED BY <1>2, <2>1, <2>2, <2>3 DEF AnswerInv, StageInv, TokenInv
<1>10. CASE CallerGone \/ ServerCloses
  <2>1. ToServerInv'
    <3>1. CASE CallerGone
      BY <3>1 DEF CallerGone, caller, ToServerInv
    <3>2. CASE ServerCloses
      <4>1. PICK n \in 0 .. Len(toServer) : toServer' = SubSeq(toServer, 1, n)
        BY <3>2 DEF ServerCloses
      <4>2. UNCHANGED <<stage, result, work>>
        BY <3>2 DEF ServerCloses, caller
      <4>3. /\ toServer' \in Seq(Messages) /\ Len(toServer') = n
            /\ \A i \in 1 .. n : i \in 1 .. Len(toServer) /\ toServer'[i] = toServer[i]
        BY <4>1, Prefix DEF WiresTypeOK
      <4>4. \A i \in 1 .. Len(toServer') :
                i + 0 \in 1 .. Len(toServer) /\ toServer'[i] = toServer[i + 0]
        BY <4>3
      <4> QED BY <4>2, <4>3, <4>4, QueueShrinks
    <3> QED BY <1>10, <3>1, <3>2
  <2>2. UNCHANGED <<stage, result, pending, answer, open, cancels, cancelled, work, toCaller>>
    BY <1>1, <1>10 DEF CallerGone, ServerCloses, caller
  <2> QED BY <1>2, <2>1, <2>2 DEF AnswerInv, StageInv, TokenInv
<1> QED BY <1>6, <1>7, <1>8, <1>9, <1>10

(* A permit leaves with a listener and comes back with it.                 *)
LEMMA PermitsKeep ==
    ASSUME Typed, IInv, [Next]_vars
    PROVE  PermitInv'
<1> USE DEF Typed, IInv, CallInv, PermitInv
<1>1. CASE UNCHANGED <<cancels, permits>>
  BY <1>1
<1>2. CASE Serve
  <2> DEFINE c == Head(toServer).id
  <2>1. /\ toServer # <<>> /\ Head(toServer).kind = "request"
        /\ cancels' = cancels \cup {c} /\ permits' = permits - 1
    BY <1>2 DEF Serve
  <2>2. c \notin cancels
    <3>1. Head(toServer) = toServer[1] /\ 1 \in 1 .. Len(toServer)
      BY <2>1, Taken DEF WiresTypeOK
    <3> QED BY <2>1, <3>1 DEF ToServerInv, TokenInv
  <2>3. IsFiniteSet(cancels') /\ Cardinality(cancels') = Cardinality(cancels) + 1
    BY <2>1, <2>2, FS_AddElement
  <2>4. Cardinality(cancels) \in Nat
    BY FS_CardinalityType
  <2> QED BY <2>1, <2>3, <2>4, InFlightAssumption
<1>3. ASSUME NEW c \in Calls, Cut(c) \/ Finish(c) PROVE PermitInv'
  <2>1. cancels' = cancels \ {c} /\ permits' = permits + 1 /\ c \in cancels
    BY <1>3 DEF Cut, Finish, Over, TokenInv
  <2>2. IsFiniteSet(cancels') /\ Cardinality(cancels') = Cardinality(cancels) - 1
    BY <2>1, FS_RemoveElement
  <2>3. Cardinality(cancels) \in Nat
    BY FS_CardinalityType
  <2> QED BY <2>1, <2>2, <2>3, InFlightAssumption
<1>4. UNCHANGED <<cancels, permits>> \/ Serve \/ \E c \in Calls : Cut(c) \/ Finish(c)
  BY DEF Next, TransportStep, External, Call, Enqueue, QueueGone, Return, Abandon, Dispatch,
         EndOfFile, CallerCloses, HeedCancel, CallerGone, ServerCloses, vars, server
<1> QED BY <1>1, <1>2, <1>3, <1>4

LEMMA InvStep == Typed /\ IInv /\ [Next]_vars => IInv'
<1> SUFFICES ASSUME Typed, IInv, [Next]_vars PROVE IInv'
  OBVIOUS
<1>1. CASE UNCHANGED vars
  <2>1. CallInv'
    BY <1>1 DEF vars, caller, server, IInv, CallInv, ToServerInv, AnswerInv, StageInv, TableInv, TokenInv
  <2> QED BY <2>1, PermitsKeep DEF IInv
<1>2. CASE Next
  <2>1. CallInv'
    BY <1>2, CallerKeeps, ServerKeeps DEF IInv, Next, TransportStep, External, EndOfFile
  <2> QED BY <2>1, PermitsKeep DEF IInv
<1> QED BY <1>1, <1>2

(* The table, the queues, the answers and the tokens agree at every step.  *)
THEOREM CallsAgree == Spec => [](Typed /\ IInv)
<1>1. Init => Typed /\ IInv
  BY TypedInit, InvInit
<1>2. Typed /\ IInv /\ [Next]_vars => (Typed /\ IInv)'
  BY TypedStep, InvStep
<1> QED BY <1>1, <1>2, PTL DEF Spec

(* TypeOK, with the bound on the permits.                                  *)
THEOREM TypeCorrect == Spec => []TypeOK
<1>1. Typed /\ IInv => TypeOK
  <2> SUFFICES ASSUME Typed, IInv PROVE TypeOK
    OBVIOUS
  <2>1. permits \in 0 .. InFlight
    <3>1. Cardinality(cancels) \in Nat
      BY FS_CardinalityType DEF IInv, PermitInv
    <3> QED BY <3>1, InFlightAssumption DEF Typed, ServerTypeOK, IInv, PermitInv
  <2> QED BY <2>1 DEF Typed, CallerTypeOK, WiresTypeOK, ServerTypeOK, TypeOK, Messages, Responses
<1> QED BY <1>1, CallsAgree, PTL

(* Nothing is left behind: not an id in the table, not a token, not a      *)
(* permit, however calls are abandoned, cut and closed.  rpc.rs:296-314,   *)
(* cartridge.rs:856-919.                                                   *)
THEOREM NothingLeaksHolds == Spec => []NothingLeaks
<1>1. IInv => NothingLeaks
  BY DEF IInv, CallInv, TableInv, TokenInv, PermitInv, NothingLeaks
<1> QED BY <1>1, CallsAgree, PTL

-----------------------------------------------------------------------------
(* The refinement: a connection keeps what CallOnce promises of a call.    *)
Mapped == [c \in Calls |-> IF stage[c] = "queueing" THEN "waiting" ELSE stage[c]]

LEMMA PromiseInit == Init => Promise!Init
BY DEF Init, Promise!Init

LEMMA PromiseStep ==
    ASSUME Typed, IInv, [Next]_vars
    PROVE  [Promise!Next]_(Promise!vars)
<1> USE DEF Typed, IInv, CallInv, Promise!vars
<1>1. ASSUME NEW c \in Calls, Call(c) PROVE Promise!Ask(c)
  BY <1>1 DEF Call, server, CallerTypeOK, Promise!Ask
<1>2. ASSUME NEW c \in Calls, Enqueue(c) PROVE UNCHANGED Promise!vars
  BY <1>2 DEF Enqueue, server, CallerTypeOK
<1>3. ASSUME NEW c \in Calls, QueueGone(c) PROVE Promise!Settle(c)
  BY <1>3 DEF QueueGone, server, CallerTypeOK, Promise!Settle
<1>4. ASSUME NEW c \in Calls, Return(c) PROVE Promise!Settle(c)
  <2>1. answer[c] \in {"closed"} \cup ({work[c]} \cap {"ok", "err"})
    BY <1>4 DEF Return, AnswerInv, CallerTypeOK
  <2> QED BY <1>4, <2>1 DEF Return, server, CallerTypeOK, Promise!Settle, Promise!Answers
<1>5. ASSUME NEW c \in Calls, Abandon(c) PROVE Promise!Settle(c)
  <2>1. stage[c] \in {"queueing", "waiting"} /\ stage' = [stage EXCEPT ![c] = "done"]
        /\ result' = [result EXCEPT ![c] = "abandoned"] /\ UNCHANGED work
    BY <1>5 DEF Abandon, server
  <2> QED BY <2>1 DEF CallerTypeOK, Promise!Settle
<1>6. CASE Dispatch \/ CallerCloses \/ HeedCancel \/ CallerGone \/ ServerCloses
  BY <1>6 DEF Dispatch, CallerCloses, HeedCancel, CallerGone, ServerCloses, caller, server
<1>7. CASE Serve
  <2> DEFINE c == Head(toServer).id
  <2>1. /\ toServer # <<>> /\ Head(toServer).kind = "request"
        /\ work' = [work EXCEPT ![c] = "running"] /\ UNCHANGED <<stage, result>>
    BY <1>7 DEF Serve, caller
  <2>2. Head(toServer) \in Messages /\ Head(toServer) = toServer[1] /\ 1 \in 1 .. Len(toServer)
    BY <2>1, Taken DEF WiresTypeOK
  <2>3. c \in Calls /\ work[c] = "none" /\ stage[c] \in {"waiting", "done"}
    BY <2>1, <2>2 DEF ToServerInv, Messages
  <2>4. Promise!Run(c)
    BY <2>1, <2>3 DEF Promise!Run
  <2> QED BY <2>3, <2>4 DEF Promise!Next
<1>8. ASSUME NEW c \in Calls, Finish(c) PROVE Promise!Finish(c)
  BY <1>8 DEF Finish, Over, caller, Promise!Finish, Promise!Answers
<1>9. ASSUME NEW c \in Calls, Cut(c) PROVE Promise!Cancel(c)
  BY <1>9 DEF Cut, Over, caller, TokenInv, Promise!Cancel
<1>10. CASE UNCHANGED vars
  BY <1>10 DEF vars, caller, server
<1> QED BY <1>1, <1>2, <1>3, <1>4, <1>5, <1>6, <1>7, <1>8, <1>9, <1>10
  DEF Next, TransportStep, External, EndOfFile, Promise!Next

(* Each call ends once, with its own listener's answer or without one, and *)
(* only the listener of an abandoned call is cut short: a connection       *)
(* implements CallOnce.  rpc.rs (call, Waiting, dispatch), the connection  *)
(* loop of cartridge.rs.                                                   *)
THEOREM EndsOnceHolds == Spec => EndsOnce
<1>1. Typed /\ IInv /\ [Next]_vars => [Promise!Next]_(Promise!vars)
  BY PromiseStep
<1> QED BY <1>1, PromiseInit, CallsAgree, PTL DEF Spec, EndsOnce, Promise!Spec

=============================================================================
