----------------------------- MODULE BasesProofs -----------------------------
(***************************************************************************)
(* Theorems about the bases of a project, for any number of them, of those *)
(* that replace, of stops, kills, deadlines passed and sweeps.             *)
(***************************************************************************)
EXTENDS Bases, TLAPS

(* What is left of a bound is at most the bound, and a base that stages    *)
(* its socket has found the one to replace.                                *)
Bounded ==
    /\ left.stops <= MaxStops /\ left.kills <= MaxKills
    /\ left.deadlines <= MaxDeadlines /\ left.sweeps <= MaxSweeps
    /\ \A b \in Base : at[b] \in {"staged", "waiting"} => found[b] # NoBase

LEMMA TypeInit == Init => TypeOK /\ Bounded
<1>1. MaxStops \in Nat /\ MaxKills \in Nat /\ MaxDeadlines \in Nat /\ MaxSweeps \in Nat
  BY BaseBoundsAssumption
<1>2. Init => left \in [stops : Nat, kills : Nat, deadlines : Nat, sweeps : Nat] /\ Bounded
  BY <1>1 DEF Init, Bounded
<1> QED BY <1>2 DEF Init, TypeOK, Places

LEMMA TypeStep == TypeOK /\ Bounded /\ [Next]_vars => (TypeOK /\ Bounded)'
<1> SUFFICES ASSUME TypeOK, Bounded, [Next]_vars PROVE (TypeOK /\ Bounded)'
  OBVIOUS
<1> USE BaseBoundsAssumption, BaseAssumption DEF TypeOK, Bounded, Places, files
<1>1. ASSUME NEW b \in Base, Look(b) PROVE (TypeOK /\ Bounded)'
  BY <1>1 DEF Look, Answers
<1>2. ASSUME NEW b \in Base, Make(b) PROVE (TypeOK /\ Bounded)'
  <2>1. CASE Refuses(b)
    BY <1>2, <2>1 DEF Make
  <2>2. CASE ~Refuses(b)
    <3>1. /\ at[b] = "looked" /\ at' = [at EXCEPT ![b] = "made"]
          /\ name' \in {name, NoBase} /\ staged' \subseteq staged /\ dirs' \subseteq dirs \cup {b}
          /\ run' \in BOOLEAN
          /\ UNCHANGED <<found, stop, accepting, ino, published, sweeper, lost, left>>
      BY <1>2, <2>2 DEF Make, Swept, SweptStaged, SweptDirs
    <3> QED BY <3>1
  <2> QED BY <2>1, <2>2
<1>3. ASSUME NEW b \in Base, Listen(b) PROVE (TypeOK /\ Bounded)'
  BY <1>3 DEF Listen, Bound
<1>4. ASSUME NEW b \in Base, Stage(b) PROVE (TypeOK /\ Bounded)'
  BY <1>4 DEF Stage, Bound
<1>5. ASSUME NEW b \in Base, FrontsFail(b) \/ AskStop(b) PROVE (TypeOK /\ Bounded)'
  BY <1>5 DEF FrontsFail, AskStop, Alive
<1>6. ASSUME NEW b \in Base, TakeName(b) PROVE (TypeOK /\ Bounded)'
  BY <1>6 DEF TakeName, Rename, Answers
<1>7. ASSUME NEW b \in Base, TakeNameAnyway(b) PROVE (TypeOK /\ Bounded)'
  BY <1>7 DEF TakeNameAnyway, Rename, Answers
<1>8. ASSUME NEW b \in Base, Serves(b) PROVE (TypeOK /\ Bounded)'
  BY <1>8 DEF Serves, Publish, Composed, ComposeFails
<1>9. ASSUME NEW b \in Base, AcceptEnds(b) \/ AcceptUnlinks(b) PROVE (TypeOK /\ Bounded)'
  BY <1>9 DEF AcceptEnds, AcceptUnlinks, NameRemovedBy, Answers
<1>10. ASSUME NEW b \in Base, StopNodes(b) \/ Unpublish(b) \/ RemoveName(b) \/ Leave(b)
       PROVE  (TypeOK /\ Bounded)'
  BY <1>10 DEF StopNodes, Unpublish, RemoveName, Leave, NameRemovedBy, Answers
<1>11. ASSUME NEW b \in Base, StopAsked(b) \/ Kill(b) PROVE (TypeOK /\ Bounded)'
  BY <1>11 DEF StopAsked, Kill
<1>12. CASE Sweep
  BY <1>12 DEF Sweep, Swept, SweptStaged, SweptDirs
<1>13. CASE RemoveRun
  BY <1>13 DEF RemoveRun
<1>14. CASE UNCHANGED vars
  BY <1>14 DEF vars
<1> QED BY <1>1, <1>2, <1>3, <1>4, <1>5, <1>6, <1>7, <1>8, <1>9, <1>10, <1>11, <1>12, <1>13, <1>14
  DEF Next, Starts, Replaces, Ends

(* The bases, their files and the name are of their types, and a socket    *)
(* staged beside the name belongs to a base that waits to take it, or      *)
(* died.  socket.rs:290, mod.rs:691-735.                                   *)
THEOREM TypeCorrect == Spec => []TypeOK
<1>1. TypeOK /\ Bounded /\ [Next]_vars => (TypeOK /\ Bounded)'
  BY TypeStep
<1> QED BY TypeInit, <1>1, PTL DEF Spec

-----------------------------------------------------------------------------
(* The inductive invariant.  A base accepts only once it holds a socket of *)
(* the name, until it ends or was asked to stop; whoever was found serving *)
(* had begun to accept.                                                    *)
PlaceInv ==
    \A b \in Base :
        /\ at[b] \in {"off", "looked", "made", "staged", "waiting", "bound"}
               => accepting[b] = "no" /\ b \notin stop
        /\ accepting[b] \in {"yes", "unlinking"} => Alive(b)
        /\ at[b] \in {"composing", "serving"} /\ b \notin stop => accepting[b] = "yes"
        /\ found[b] # NoBase => accepting[found[b]] # "no"

(* A base that bound the name found nobody, or somebody who is gone.       *)
ReplaceInv ==
    left.deadlines = MaxDeadlines =>
        \A b \in Base : (at[b] = "bound" \/ HasNodes(b)) /\ found[b] # NoBase => ~Alive(found[b])

LEMMA PlaceStep == TypeOK /\ Bounded /\ PlaceInv /\ [Next]_vars => PlaceInv'
<1> SUFFICES ASSUME TypeOK, Bounded, PlaceInv, [Next]_vars PROVE PlaceInv'
  OBVIOUS
<1> USE BaseAssumption DEF TypeOK, PlaceInv, files, Alive
<1>1. ASSUME NEW b \in Base, Look(b) PROVE PlaceInv'
  BY <1>1 DEF Look, Answers
<1>2. ASSUME NEW b \in Base, Make(b) \/ Listen(b) \/ Stage(b) \/ FrontsFail(b) PROVE PlaceInv'
  BY <1>2 DEF Make, Listen, Stage, FrontsFail
<1>3. ASSUME NEW b \in Base, AskStop(b) PROVE PlaceInv'
  BY <1>3 DEF AskStop, Bounded
<1>4. ASSUME NEW b \in Base, TakeName(b) \/ TakeNameAnyway(b) PROVE PlaceInv'
  BY <1>4 DEF TakeName, TakeNameAnyway, Rename
<1>5. ASSUME NEW b \in Base, Serves(b) PROVE PlaceInv'
  BY <1>5 DEF Serves, Publish, Composed, ComposeFails
<1>6. ASSUME NEW b \in Base, AcceptEnds(b) \/ AcceptUnlinks(b) PROVE PlaceInv'
  BY <1>6 DEF AcceptEnds, AcceptUnlinks
<1>7. ASSUME NEW b \in Base, StopNodes(b) \/ Unpublish(b) \/ RemoveName(b) \/ Leave(b)
      PROVE  PlaceInv'
  BY <1>7 DEF StopNodes, Unpublish, RemoveName, Leave
<1>8. ASSUME NEW b \in Base, StopAsked(b) \/ Kill(b) PROVE PlaceInv'
  BY <1>8 DEF StopAsked, Kill
<1>9. CASE Sweep \/ RemoveRun
  BY <1>9 DEF Sweep, RemoveRun
<1>10. CASE UNCHANGED vars
  BY <1>10 DEF vars
<1> QED BY <1>1, <1>2, <1>3, <1>4, <1>5, <1>6, <1>7, <1>8, <1>9, <1>10
  DEF Next, Starts, Replaces, Ends

(* A base that should hold the name listens, so whoever takes the name     *)
(* away finds that it answers.                                             *)
LEMMA NameStep == TypeOK /\ PlaceInv /\ NameHeld /\ [Next]_vars => NameHeld'
<1> SUFFICES ASSUME TypeOK, PlaceInv, NameHeld, [Next]_vars PROVE NameHeld'
  OBVIOUS
<1> DEFINE Holder(b) == at[b] \in {"bound", "composing", "serving"} /\ b \notin stop \cup lost
<1>1. \A b \in Base : Holder(b) => name = b /\ Answers(name) /\ accepting[b] \in {"no", "yes"}
  BY BaseAssumption DEF TypeOK, PlaceInv, NameHeld, Answers, Listening
<1> USE DEF TypeOK, NameHeld, files
<1>2. ASSUME NEW b \in Base, Look(b) \/ Stage(b) \/ FrontsFail(b) \/ AskStop(b) PROVE NameHeld'
  BY <1>2 DEF Look, Stage, FrontsFail, AskStop
<1>3. ASSUME NEW b \in Base, Make(b) PROVE NameHeld'
  BY <1>1, <1>3 DEF Make, Swept
<1>4. ASSUME NEW b \in Base, Listen(b) PROVE NameHeld'
  BY <1>1, <1>4 DEF Listen
<1>5. ASSUME NEW b \in Base, TakeName(b) \/ TakeNameAnyway(b) PROVE NameHeld'
  BY <1>1, <1>5 DEF TakeName, TakeNameAnyway, Rename
<1>6. ASSUME NEW b \in Base, Serves(b) PROVE NameHeld'
  BY <1>6 DEF Serves, Publish, Composed, ComposeFails
<1>7. ASSUME NEW b \in Base, AcceptEnds(b) PROVE NameHeld'
  BY <1>7 DEF AcceptEnds
<1>8. ASSUME NEW b \in Base, AcceptUnlinks(b) PROVE NameHeld'
  BY <1>1, <1>8 DEF AcceptUnlinks, NameRemovedBy
<1>9. ASSUME NEW b \in Base, StopNodes(b) \/ Unpublish(b) \/ Leave(b) PROVE NameHeld'
  BY <1>9 DEF StopNodes, Unpublish, Leave
<1>10. ASSUME NEW b \in Base, RemoveName(b) PROVE NameHeld'
  BY <1>1, <1>10 DEF RemoveName, NameRemovedBy
<1>11. ASSUME NEW b \in Base, StopAsked(b) \/ Kill(b) PROVE NameHeld'
  BY <1>11 DEF StopAsked, Kill
<1>12. CASE Sweep
  BY <1>1, <1>12 DEF Sweep, Swept
<1>13. CASE RemoveRun
  BY <1>1, <1>13 DEF RemoveRun, Answers
<1>14. CASE UNCHANGED vars
  BY <1>14 DEF vars
<1> QED BY <1>2, <1>3, <1>4, <1>5, <1>6, <1>7, <1>8, <1>9, <1>10, <1>11, <1>12, <1>13, <1>14
  DEF Next, Starts, Replaces, Ends

(* Who has gone stays gone, and the name is bound only after that.         *)
LEMMA ReplaceStep == TypeOK /\ Bounded /\ PlaceInv /\ ReplaceInv /\ [Next]_vars => ReplaceInv'
<1> SUFFICES ASSUME TypeOK, Bounded, PlaceInv, ReplaceInv, [Next]_vars,
                    left'.deadlines = MaxDeadlines,
                    NEW c \in Base, (at[c] = "bound" \/ HasNodes(c))', found'[c] # NoBase
             PROVE  ~Alive(found[c])' /\ found'[c] = found[c]
  BY DEF ReplaceInv, Alive
<1> USE BaseAssumption, BaseBoundsAssumption DEF TypeOK, files, HasNodes
<1>1. \A b \in Base : found[b] # NoBase => at[found[b]] # "off"
  BY DEF PlaceInv
<1>2. \A b \in Base : at[b] = "dead" => at'[b] = "dead"
  BY DEF Next, Starts, Replaces, Serves, Ends, Look, Make, Listen, Stage, FrontsFail, AskStop,
         TakeName, TakeNameAnyway, Rename, Publish, Composed, ComposeFails, AcceptEnds,
         AcceptUnlinks, StopNodes, Unpublish, RemoveName, Leave, StopAsked, Kill, Alive, Sweep,
         RemoveRun, vars
<1>3. left.deadlines = MaxDeadlines
  BY DEF Bounded, Next, Starts, Replaces, Serves, Ends, Look, Make, Listen, Stage, FrontsFail,
         AskStop, TakeName, TakeNameAnyway, Rename, Publish, Composed, ComposeFails, AcceptEnds,
         AcceptUnlinks, StopNodes, Unpublish, RemoveName, Leave, StopAsked, Kill, Sweep,
         RemoveRun, vars
<1>4. ~ \E b \in Base : TakeNameAnyway(b)
  BY <1>3 DEF TakeNameAnyway
<1>5. found'[c] = found[c]
  BY DEF Next, Starts, Replaces, Serves, Ends, Look, Make, Listen, Stage, FrontsFail, AskStop,
         TakeName, TakeNameAnyway, Rename, Publish, Composed, ComposeFails, AcceptEnds,
         AcceptUnlinks, StopNodes, Unpublish, RemoveName, Leave, StopAsked, Kill, Sweep,
         RemoveRun, vars
<1>6. CASE at[c] = "bound" \/ HasNodes(c)
  BY <1>1, <1>2, <1>3, <1>5, <1>6 DEF ReplaceInv, Alive
<1>7. CASE ~(at[c] = "bound" \/ HasNodes(c))
  <2>1. Listen(c) \/ TakeName(c)
    BY <1>4, <1>7 DEF Next, Starts, Replaces, Serves, Ends, Look, Make, Stage, FrontsFail,
         AskStop, Publish, Composed, ComposeFails, AcceptEnds, AcceptUnlinks, StopNodes,
         Unpublish, RemoveName, Leave, StopAsked, Kill, Sweep, RemoveRun, vars,
         Listen, TakeName, Rename
  <2> QED BY <1>1, <1>2, <1>5, <2>1 DEF Listen, TakeName, Alive
<1> QED BY <1>6, <1>7

-----------------------------------------------------------------------------
(* When nobody interferes, some base always answers for the rest: one that *)
(* found nobody and has not bound yet, one that is about to take the name, *)
(* or one that has it and was not asked to stop.                           *)
Responsible(b) ==
    \/ at[b] \in {"looked", "made"} /\ found[b] = NoBase
    \/ at[b] \in {"staged", "waiting"}
    \/ at[b] \in {"bound", "composing", "serving"} /\ name = b /\ b \notin stop

(* Files and places stay in step, and whoever was asked to stop has one    *)
(* waiting for it to go.                                                   *)
CalmFiles ==
    /\ sweeper = "idle"
    /\ \A b \in Base :
          /\ at[b] # "off" => run
          /\ at[b] \in {"staged", "waiting"} => b \in staged
          /\ b \in stop /\ Alive(b) => \E c \in Base : at[c] = "waiting" /\ found[c] = b
          /\ at[b] \in {"stopping", "unpublishing"} => b \in stop
          /\ accepting[b] \in {"yes", "unlinking"} /\ b \notin stop
                 => at[b] \in {"composing", "serving"}

SomeoneAnswersFor == (\E b \in Base : at[b] # "off") => \E b \in Base : Responsible(b)

CalmInv == Calm => CalmFiles /\ SomeoneAnswersFor

(* What nobody interfering leaves of the steps.                            *)
Undisturbed(b) ==
    \/ Look(b) \/ Make(b) \/ Listen(b) \/ Stage(b) \/ FrontsFail(b) \/ AskStop(b) \/ TakeName(b)
    \/ Publish(b) \/ Composed(b) \/ AcceptEnds(b) \/ AcceptUnlinks(b) \/ StopNodes(b)
    \/ Unpublish(b) \/ RemoveName(b) \/ Leave(b)

LEMMA CalmSteps ==
    ASSUME TypeOK, Bounded, CalmInv, Calm', [Next]_vars
    PROVE  Calm /\ ((\E b \in Base : Undisturbed(b)) \/ UNCHANGED vars)
<1> USE BaseBoundsAssumption DEF TypeOK, Bounded, Calm
<1>1. /\ left'.stops = MaxStops /\ left'.kills = MaxKills
      /\ left'.deadlines = MaxDeadlines /\ left'.sweeps = MaxSweeps
  OBVIOUS
<1>2. ASSUME NEW b \in Base, TakeNameAnyway(b) \/ ComposeFails(b) \/ StopAsked(b) \/ Kill(b)
      PROVE  FALSE
  BY <1>1, <1>2 DEF TakeNameAnyway, ComposeFails, StopAsked, Kill
<1>3. ~Sweep
  BY <1>1 DEF Sweep
<1>4. ASSUME RemoveRun PROVE FALSE
  BY <1>4 DEF RemoveRun, CalmInv, CalmFiles
<1>5. (\E b \in Base : Undisturbed(b)) \/ UNCHANGED vars
  BY <1>2, <1>3, <1>4 DEF Next, Starts, Replaces, Serves, Ends, Undisturbed
<1>6. UNCHANGED left
  BY <1>5 DEF Undisturbed, Look, Make, Listen, Stage, FrontsFail, AskStop, TakeName, Publish,
     Composed, AcceptEnds, AcceptUnlinks, StopNodes, Unpublish, RemoveName, Leave, vars
<1> QED BY <1>1, <1>5, <1>6

LEMMA CalmFilesStep ==
    ASSUME TypeOK, Bounded, PlaceInv, CalmFiles, NEW b \in Base, Undisturbed(b)
    PROVE  CalmFiles'
<1> USE BaseAssumption DEF TypeOK, PlaceInv, CalmFiles, files, Alive
<1>1. CASE Look(b)
  BY <1>1 DEF Look, Answers
<1>2. CASE Make(b)
  <2>1. CASE Refuses(b)
    BY <1>2, <2>1 DEF Make
  <2>2. CASE ~Refuses(b)
    BY <1>2, <2>2 DEF Make, SweptStaged, Listening
  <2> QED BY <2>1, <2>2
<1>3. CASE Listen(b) \/ Stage(b) \/ FrontsFail(b)
  BY <1>3 DEF Listen, Stage, FrontsFail
<1>4. CASE AskStop(b)
  BY <1>4 DEF AskStop
<1>5. CASE TakeName(b)
  BY <1>5 DEF TakeName, Rename
<1>6. CASE Publish(b) \/ Composed(b)
  BY <1>6 DEF Publish, Composed
<1>7. CASE AcceptEnds(b) \/ AcceptUnlinks(b)
  BY <1>7 DEF AcceptEnds, AcceptUnlinks
<1>8. CASE StopNodes(b) \/ Unpublish(b) \/ RemoveName(b) \/ Leave(b)
  BY <1>8 DEF StopNodes, Unpublish, RemoveName, Leave
<1> QED BY <1>1, <1>2, <1>3, <1>4, <1>5, <1>6, <1>7, <1>8 DEF Undisturbed

LEMMA ResponsibleStep ==
    ASSUME TypeOK, Bounded, PlaceInv, CalmFiles, SomeoneAnswersFor, Calm,
           NEW b \in Base, Undisturbed(b)
    PROVE  SomeoneAnswersFor'
<1> USE BaseAssumption DEF TypeOK, PlaceInv, files, Alive
<1>1. ASSUME NEW c \in Base, c \in stop, Alive(c) PROVE \E d \in Base : at[d] = "waiting" /\ found[d] = c
  BY <1>1 DEF CalmFiles
<1>2. ASSUME NEW c \in Base, at[c] # "off" PROVE \E d \in Base : Responsible(d)
  BY <1>2 DEF SomeoneAnswersFor
<1>3. CASE Look(b)
  <2>1. CASE Answers(name)
    <3>1. name \in Base /\ at[name] # "off" /\ name # b
      BY <1>3, <2>1 DEF Answers, Listening, Look
    <3>2. PICK d \in Base : Responsible(d)
      BY <1>2, <3>1
    <3>3. Responsible(d)'
      BY <1>3, <3>2 DEF Look, Responsible
    <3> QED BY <3>3 DEF SomeoneAnswersFor
  <2>2. CASE ~Answers(name)
    <3>1. Responsible(b)'
      BY <1>3, <2>2 DEF Look, Responsible
    <3> QED BY <3>1 DEF SomeoneAnswersFor
  <2> QED BY <2>1, <2>2
<1>4. CASE Make(b)
  <2>1. PICK d \in Base : Responsible(d)
    BY <1>2, <1>4 DEF Make
  <2>2. CASE Refuses(b)
    <3>1. CASE d = b
      <4>1. PICK c \in staged : Alive(c) /\ Listening(c)
        BY <1>4, <2>1, <2>2, <3>1 DEF Make, Responsible, Refuses, Pending
      <4>2. c # b /\ at[c] \in {"staged", "waiting"}
        BY <1>4, <4>1 DEF Make
      <4>3. Responsible(c)'
        BY <1>4, <2>2, <4>2 DEF Make, Responsible
      <4> QED BY <4>3 DEF SomeoneAnswersFor
    <3>2. CASE d # b
      <4>1. Responsible(d)'
        BY <1>4, <2>1, <2>2, <3>2 DEF Make, Responsible
      <4> QED BY <4>1 DEF SomeoneAnswersFor
    <3> QED BY <3>1, <3>2
  <2>3. CASE ~Refuses(b)
    <3>1. Responsible(d)'
      <4>1. at' = [at EXCEPT ![b] = "made"] /\ name' = Swept(name) /\ UNCHANGED <<found, stop>>
        BY <1>4, <2>3 DEF Make
      <4>2. d # b /\ at[d] \in {"bound", "composing", "serving"} /\ name = d /\ d \notin stop
               => name' = d
        BY <4>1 DEF Swept, Answers, Listening
      <4> QED BY <1>4, <2>1, <4>1, <4>2 DEF Make, Responsible
    <3> QED BY <3>1 DEF SomeoneAnswersFor
  <2> QED BY <2>2, <2>3
<1>5. CASE Listen(b)
  <2>1. run
    BY <1>5 DEF Listen, CalmFiles
  <2>2. CASE Answers(name)
    <3>1. name \in Base /\ name # b /\ at' = [at EXCEPT ![b] = "leaving"]
          /\ UNCHANGED <<name, found, stop>>
      BY <1>5, <2>2 DEF Listen, Answers, Listening
    <3>2. CASE Responsible(name)
      <4>1. Responsible(name)'
        BY <3>1, <3>2 DEF Responsible
      <4> QED BY <3>1, <4>1 DEF SomeoneAnswersFor
    <3>3. CASE ~Responsible(name)
      <4>1. name \in stop /\ Alive(name)
        BY <2>2, <3>1, <3>3 DEF Answers, Listening, Responsible, CalmFiles
      <4>2. PICK d \in Base : at[d] = "waiting" /\ found[d] = name
        BY <1>1, <3>1, <4>1
      <4>3. Responsible(d)'
        BY <1>5, <3>1, <4>2 DEF Listen, Responsible
      <4> QED BY <4>3 DEF SomeoneAnswersFor
    <3> QED BY <3>2, <3>3
  <2>3. CASE ~Answers(name)
    <3>1. Responsible(b)'
      BY <1>5, <2>1, <2>3 DEF Listen, Responsible
    <3> QED BY <3>1 DEF SomeoneAnswersFor
  <2> QED BY <2>2, <2>3
<1>6. CASE Stage(b) \/ FrontsFail(b)
  <2>1. PICK d \in Base : Responsible(d)
    BY <1>2, <1>6 DEF Stage, FrontsFail
  <2>2. Responsible(d)'
    BY <1>6, <2>1 DEF Stage, FrontsFail, Responsible
  <2> QED BY <2>2 DEF SomeoneAnswersFor
<1>7. CASE AskStop(b)
  <2>1. Responsible(b)'
    BY <1>7 DEF AskStop, Responsible
  <2> QED BY <2>1 DEF SomeoneAnswersFor
<1>8. CASE TakeName(b)
  <2>1. Responsible(b)'
    BY <1>8 DEF TakeName, Rename, Responsible, CalmFiles
  <2> QED BY <2>1 DEF SomeoneAnswersFor
<1>9. CASE Publish(b) \/ Composed(b) \/ AcceptEnds(b)
  <2>1. PICK d \in Base : Responsible(d)
    BY <1>2, <1>9 DEF Publish, Composed, AcceptEnds
  <2>2. Responsible(d)'
    BY <1>9, <2>1 DEF Publish, Composed, AcceptEnds, Responsible
  <2> QED BY <2>2 DEF SomeoneAnswersFor
<1>10. CASE StopNodes(b) \/ Unpublish(b) \/ Leave(b)
  <2>1. PICK d \in Base : Responsible(d)
    BY <1>2, <1>10 DEF StopNodes, Unpublish, Leave
  <2>2. Responsible(d)'
    BY <1>10, <2>1 DEF StopNodes, Unpublish, Leave, Responsible
  <2> QED BY <2>2 DEF SomeoneAnswersFor
<1>11. CASE AcceptUnlinks(b) \/ RemoveName(b)
  <2>1. PICK d \in Base : Responsible(d)
    BY <1>2, <1>11 DEF AcceptUnlinks, RemoveName
  <2>2. CASE b \in stop
    <3>1. PICK c \in Base : at[c] = "waiting" /\ found[c] = b
      BY <1>1, <1>11, <2>2 DEF AcceptUnlinks, RemoveName
    <3>2. Responsible(c)'
      BY <1>11, <3>1 DEF AcceptUnlinks, RemoveName, Responsible
    <3> QED BY <3>2 DEF SomeoneAnswersFor
  <2>3. CASE b \notin stop
    <3>1. accepting[b] = "unlinking" /\ at[b] \in {"composing", "serving"}
      BY <1>11, <2>3 DEF AcceptUnlinks, RemoveName, CalmFiles
    <3> QED BY <2>3, <3>1
  <2> QED BY <2>2, <2>3
<1> QED BY <1>3, <1>4, <1>5, <1>6, <1>7, <1>8, <1>9, <1>10, <1>11 DEF Undisturbed

LEMMA CalmStep ==
    TypeOK /\ Bounded /\ PlaceInv /\ CalmInv /\ [Next]_vars => CalmInv'
<1> SUFFICES ASSUME TypeOK, Bounded, PlaceInv, CalmInv, [Next]_vars, Calm'
             PROVE  CalmFiles' /\ SomeoneAnswersFor'
  BY DEF CalmInv
<1>1. /\ Calm /\ CalmFiles /\ SomeoneAnswersFor
      /\ (\E b \in Base : Undisturbed(b)) \/ UNCHANGED vars
  BY CalmSteps DEF CalmInv
<1>2. CASE \E b \in Base : Undisturbed(b)
  BY <1>1, <1>2, CalmFilesStep, ResponsibleStep
<1>3. CASE UNCHANGED vars
  BY <1>1, <1>3 DEF vars, files, CalmFiles, SomeoneAnswersFor, Responsible, Alive
<1> QED BY <1>1, <1>2, <1>3

-----------------------------------------------------------------------------
(* While nobody was asked to stop either, by a replacement say, whoever    *)
(* was found serving does so still and no base has lost the name.          *)
UnaskedInv ==
    Calm /\ stop = {} =>
        /\ lost = {}
        /\ \A b \in Base : /\ at[b] # "waiting"
                           /\ accepting[b] \in {"no", "yes"}
                           /\ found[b] # NoBase => Alive(found[b])

(* Then no two bases have nodes: of those that start together one composes.*)
OneUntilAsked ==
    Calm /\ stop = {} => \A a, b \in Base : HasNodes(a) /\ HasNodes(b) => a = b

LEMMA UnaskedStep ==
    ASSUME TypeOK, Bounded, PlaceInv, CalmInv, UnaskedInv, [Next]_vars
    PROVE  UnaskedInv'
<1> SUFFICES ASSUME Calm', stop' = {}
             PROVE  /\ lost' = {}
                    /\ \A b \in Base : /\ at'[b] # "waiting"
                                       /\ accepting'[b] \in {"no", "yes"}
                                       /\ found'[b] # NoBase => Alive(found[b])'
  BY DEF UnaskedInv
<1>1. Calm /\ CalmFiles /\ ((\E b \in Base : Undisturbed(b)) \/ UNCHANGED vars)
  BY CalmSteps DEF CalmInv
<1> USE BaseAssumption DEF TypeOK, Alive
<1>2. stop = {}
  BY <1>1 DEF Undisturbed, Look, Make, Listen, Stage, FrontsFail, AskStop, TakeName, Rename,
     Publish, Composed, AcceptEnds, AcceptUnlinks, StopNodes, Unpublish, RemoveName, Leave, vars
<1>3. /\ lost = {}
      /\ \A b \in Base : /\ at[b] \notin {"waiting", "stopping", "unpublishing"}
                         /\ accepting[b] \in {"no", "yes"}
                         /\ found[b] # NoBase => found[b] \in Base /\ Alive(found[b])
                         /\ accepting[b] = "yes" => at[b] \in {"composing", "serving"}
                         /\ found[b] # NoBase => accepting[found[b]] = "yes"
  BY <1>1, <1>2 DEF UnaskedInv, CalmFiles, PlaceInv
<1>4. ASSUME NEW b \in Base, Look(b)
      PROVE  /\ lost' = {}
             /\ \A c \in Base : /\ at'[c] # "waiting" /\ accepting'[c] \in {"no", "yes"}
                                /\ found'[c] # NoBase => Alive(found[c])'
  BY <1>3, <1>4 DEF Look, Answers
<1>5. ASSUME NEW b \in Base,
             Make(b) \/ Listen(b) \/ Stage(b) \/ FrontsFail(b) \/ Publish(b) \/ Composed(b) \/ Leave(b)
      PROVE  /\ lost' = {}
             /\ \A c \in Base : /\ at'[c] # "waiting" /\ accepting'[c] \in {"no", "yes"}
                                /\ found'[c] # NoBase => Alive(found[c])'
  <2>1. /\ \A c \in Base \ {b} : at'[c] = at[c] /\ accepting'[c] = accepting[c]
        /\ at'[b] # "waiting" /\ accepting'[b] \in {accepting[b], "yes"}
        /\ at'[b] = "dead" => at[b] \notin {"composing", "serving"}
        /\ at'[b] # "off"
        /\ found' = found /\ lost' = lost
    BY <1>5 DEF Make, Listen, Stage, FrontsFail, Publish, Composed, Leave
  <2> QED BY <1>3, <2>1
<1>6. ASSUME NEW b \in Base, AskStop(b) PROVE FALSE
  BY <1>3, <1>6 DEF AskStop, Bounded
<1>7. ASSUME NEW b \in Base,
             \/ TakeName(b) \/ AcceptEnds(b) \/ AcceptUnlinks(b) \/ StopNodes(b)
             \/ Unpublish(b) \/ RemoveName(b)
      PROVE  FALSE
  BY <1>2, <1>3, <1>7 DEF TakeName, AcceptEnds, AcceptUnlinks, StopNodes, Unpublish, RemoveName
<1>8. CASE UNCHANGED vars
  BY <1>3, <1>8 DEF vars
<1> QED BY <1>1, <1>4, <1>5, <1>6, <1>7, <1>8 DEF Undisturbed

-----------------------------------------------------------------------------
IInv == PlaceInv /\ NameHeld /\ ReplaceInv /\ CalmInv /\ UnaskedInv

LEMMA InvInit == Init => IInv
BY BaseAssumption DEF Init, IInv, PlaceInv, NameHeld, ReplaceInv, HasNodes, CalmInv, CalmFiles,
   SomeoneAnswersFor, Alive, UnaskedInv

(* Places, the name, the replaced and the responsible agree at every step. *)
THEOREM BasesAgree == Spec => [](TypeOK /\ Bounded /\ IInv)
<1>1. Init => TypeOK /\ Bounded /\ IInv
  BY TypeInit, InvInit
<1>2. TypeOK /\ Bounded /\ IInv /\ [Next]_vars => (TypeOK /\ Bounded /\ IInv)'
  BY TypeStep, PlaceStep, NameStep, ReplaceStep, CalmStep, UnaskedStep DEF IInv
<1> QED BY <1>1, <1>2, PTL DEF Spec

(* A base that serves holds the name until it is asked to stop or somebody *)
(* takes it away, with any number of bases that start, replace, sweep and  *)
(* die.  socket.rs:203-322, mod.rs:643-735.                                *)
THEOREM NameHeldHolds == Spec => []NameHeld
<1>1. IInv => NameHeld
  BY DEF IInv
<1> QED BY <1>1, BasesAgree, PTL

(* A replacement composes only when the one it replaces is gone, unless it *)
(* stopped waiting.  mod.rs:691-735.                                       *)
THEOREM ReplacedGoneHolds == Spec => []ReplacedGone
<1>1. IInv => ReplacedGone
  BY DEF IInv, ReplaceInv, ReplacedGone
<1> QED BY <1>1, BasesAgree, PTL

(* Starts and replacements that meet never eliminate each other, however   *)
(* many there are.  socket.rs, mod.rs:691-735, cli/host.rs.                *)
THEOREM SomeoneServesHolds == Spec => []SomeoneServes
<1>1. IInv => SomeoneServes
  BY DEF IInv, CalmInv, SomeoneAnswersFor, Responsible, SomeoneServes
<1> QED BY <1>1, BasesAgree, PTL

(* One base per project, however many are started together: as long as     *)
(* nobody was asked to stop or interfered, no two of them have nodes.      *)
(* socket.rs:272-322, cli/host.rs (the second one refuses).                *)
THEOREM OneUntilAskedHolds == Spec => []OneUntilAsked
<1>1. TypeOK /\ IInv => OneUntilAsked
  <2> SUFFICES ASSUME TypeOK, IInv, Calm, stop = {}, NEW a \in Base, HasNodes(a)
               PROVE  name = a
    BY DEF OneUntilAsked
  <2>1. at[a] \in {"composing", "serving"} /\ lost = {}
    BY DEF IInv, CalmInv, CalmFiles, UnaskedInv, HasNodes
  <2> QED BY <2>1 DEF IInv, NameHeld
<1> QED BY <1>1, BasesAgree, PTL

=============================================================================
