-------------------------- MODULE LifecycleProofs --------------------------
(***************************************************************************)
(* Theorems about the lifecycle, for every composition, every manifest and *)
(* any number of processes, operations, edits and exits; and, from the     *)
(* second part on, about events sent while the composition changes, for    *)
(* any number of calls in flight and any callers.                          *)
(***************************************************************************)
EXTENDS Dispatch, TLAPS

LEMMA HostPlanIsPlan == HostPlan \in Plan
BY AspToolAssumption, BuildsAssumption DEF HostPlan, Plan

\* Planning an entry yields a plan or a refusal.
LEMMA PlanOfType == ASSUME TypeOK, NEW i \in Ids
                    PROVE PlanOf(i) \in Plan \cup {NoPlan}
<1> DEFINE m == disk[i].manifest
<1>1. CASE m = Broken
  BY <1>1 DEF PlanOf
<1>2. CASE m # Broken
  <2>1. m \in Manifest
    BY <1>2 DEF TypeOK
  <2> QED
    BY <1>2, <2>1 DEF PlanOf, Manifest, Plan
<1> QED BY <1>1, <1>2

LEMMA TypeInit == Init => TypeOK
<1> SUFFICES ASSUME Init PROVE TypeOK
  OBVIOUS
<1>1. disk \in [Ids -> [entry: Entries, manifest: Manifest \cup {Broken}]]
  <2>1. PICK e \in [Ids -> AtStart], m \in [Ids -> UNION {Manifests[i] : i \in Ids}] :
           /\ \A i \in Ids : m[i] \in Manifests[i]
           /\ disk = [i \in Ids |-> [entry |-> e[i], manifest |-> m[i]]]
    BY DEF Init
  <2>2. \A i \in Ids : m[i] \in Manifest \cup {Broken}
    BY <2>1, ManifestsAssumption
  <2>3. \A i \in Ids : e[i] \in Entries
    BY <2>1, AtStartAssumption DEF Entries
  <2> QED BY <2>1, <2>2, <2>3
<1> QED
  BY <1>1, BoundsAssumption DEF Init, TypeOK, NoFresh, Entries, States, Errors,
     Phases, Stages, Kinds, Launches, Everyone

\* What a phase change and a bound counted down leave of the types.
LEMMA PhaseType == ASSUME TypeOK, NEW p \in Pids, NEW f \in Phases,
                          proc' = [proc EXCEPT ![p].phase = f]
                   PROVE proc' \in [Pids -> [id: Everyone, gen: Nat, phase: Phases]]
BY DEF TypeOK

LEMMA BeginType == ASSUME TypeOK, NEW k \in Kinds, NEW s \in Stages, Begin(k, s)
                   PROVE /\ left' \in [ops: Nat, edits: Nat, crashes: Nat, late: Nat]
                         /\ kind' \in Kinds
                         /\ stage' \in Stages
<1>1. left \in [ops: Nat, edits: Nat, crashes: Nat, late: Nat]
  BY DEF TypeOK
<1> QED BY <1>1 DEF Begin

LEMMA SpendType ==
    ASSUME left \in [ops: Nat, edits: Nat, crashes: Nat, late: Nat],
           NEW f \in {"ops", "edits", "crashes", "late"},
           left[f] > 0, left' = [left EXCEPT ![f] = @ - 1]
    PROVE left' \in [ops: Nat, edits: Nat, crashes: Nat, late: Nat]
OBVIOUS

\* An edit leaves files that some manifest describes.
LEMMA DiskType ==
    ASSUME disk \in [Ids -> [entry: Entries, manifest: Manifest \cup {Broken}]],
           NEW i \in Ids,
           \/ \E j \in Ids : \E m \in Manifests[i], n \in Manifests[j] :
                 disk' = [disk EXCEPT ![i].manifest = m, ![j].manifest = n]
           \/ \E e \in Entries : disk' = [disk EXCEPT ![i].entry = e]
    PROVE disk' \in [Ids -> [entry: Entries, manifest: Manifest \cup {Broken}]]
<1>1. \A j \in Ids : Manifests[j] \subseteq Manifest \cup {Broken}
  BY ManifestsAssumption
<1>2. CASE \E j \in Ids : \E m \in Manifests[i], n \in Manifests[j] :
               disk' = [disk EXCEPT ![i].manifest = m, ![j].manifest = n]
  <2>1. PICK j \in Ids, m \in Manifest \cup {Broken}, n \in Manifest \cup {Broken} :
               disk' = [disk EXCEPT ![i].manifest = m, ![j].manifest = n]
    BY <1>1, <1>2
  <2> QED BY <2>1
<1>3. CASE \E e \in Entries : disk' = [disk EXCEPT ![i].entry = e]
  BY <1>3
<1> QED BY <1>2, <1>3

LEMMA TypeStep == TypeOK /\ [Next]_vars => TypeOK'
<1> SUFFICES ASSUME TypeOK, [Next]_vars PROVE TypeOK'
  OBVIOUS
<1> USE DEF TypeOK, slots, procs, operation
<1>1. CASE Reconcile
  <2>1. \A i \in Ids : PlanOf(i) \in Plan \cup {NoPlan}
    BY PlanOfType
  <2>2. Begin("reconcile", "stop")
    BY <1>1 DEF Reconcile
  <2>3. fresh' \in [Ids -> [entry: Entries, plan: Plan \cup {NoPlan}]]
    BY <1>1, <2>1 DEF Reconcile
  <2>4. todo' \in SUBSET Ids
    BY <1>1 DEF Reconcile
  <2> QED
    BY <1>1, <2>2, <2>3, <2>4, BeginType DEF Reconcile, Stages, Kinds
<1>2. CASE ReplaceChanged
  <2>1. Begin("replace", "plan")
    BY <1>2 DEF ReplaceChanged
  <2> QED
    BY <1>2, <2>1, BeginType DEF ReplaceChanged, Stages, Kinds
<1>3. CASE Stop
  <2>1. Begin("stop", "stop")
    BY <1>3 DEF Stop
  <2> QED
    BY <1>3, <2>1, BeginType DEF Stop, Stages, Kinds
<1>4. ASSUME NEW i \in Ids, Replace(i) PROVE TypeOK'
  <2>1. Begin("replace", "plan")
    BY <1>4 DEF Replace
  <2> QED
    BY <1>4, <2>1, BeginType DEF Replace, Stages, Kinds
<1>5. ASSUME NEW i \in Ids, Edit(i) PROVE TypeOK'
  <2>1. left' \in [ops: Nat, edits: Nat, crashes: Nat, late: Nat]
    BY <1>5, SpendType DEF Edit
  <2>2. disk' \in [Ids -> [entry: Entries, manifest: Manifest \cup {Broken}]]
    BY <1>5, DiskType DEF Edit
  <2> QED BY <1>5, <2>1, <2>2 DEF Edit
<1>6. ASSUME NEW p \in Pids, Exit(p) PROVE TypeOK'
  <2>1. left' \in [ops: Nat, edits: Nat, crashes: Nat, late: Nat]
    BY <1>6, SpendType DEF Exit
  <2>2. proc' \in [Pids -> [id: Everyone, gen: Nat, phase: Phases]]
    BY <1>6, PhaseType DEF Exit, Phases
  <2> QED BY <1>6, <2>1, <2>2 DEF Exit
<1>7. ASSUME NEW i \in Ids, PlanNext(i) PROVE TypeOK'
  BY <1>7, PlanOfType DEF PlanNext, Stages
<1>8. ASSUME NEW i \in Ids, InstallPlan(i) PROVE TypeOK'
  <2>1. fresh' \in [Ids -> [entry: Entries, plan: Plan \cup {NoPlan}]]
    BY <1>8 DEF InstallPlan, NoFresh, Entries
  <2>2. /\ seen' \in [Ids -> Manifest \cup {Broken}]
        /\ plan' \in [Ids -> Plan \cup {NoPlan}]
    <3>1. /\ fresh[i].plan \in Plan \cup {NoPlan}
          /\ disk[i].manifest \in Manifest \cup {Broken}
      OBVIOUS
    <3>2. CASE fresh[i].plan # NoPlan
      BY <1>8, <3>1, <3>2 DEF InstallPlan
    <3>3. CASE fresh[i].plan = NoPlan
      BY <1>8, <3>3 DEF InstallPlan
    <3> QED BY <3>2, <3>3
  <2>3. /\ state' \in [Ids -> States]
        /\ error' \in [Ids -> Errors]
        /\ stage' \in Stages
    BY <1>8 DEF InstallPlan, Stages, States, Errors
  <2> QED
    BY <1>8, <2>1, <2>2, <2>3 DEF InstallPlan
<1>9. ASSUME NEW i \in Ids, Push(i) PROVE TypeOK'
  <2>1. left' \in [ops: Nat, edits: Nat, crashes: Nat, late: Nat]
    BY <1>9, SpendType DEF Push
  <2> QED BY <1>9, <2>1 DEF Push
<1>10. ASSUME NEW i \in Ids, StopTake(i) PROVE TypeOK'
  BY <1>10 DEF StopTake, NextGeneration, States
<1>11. ASSUME NEW i \in Ids, NodeStopped(i) PROVE TypeOK'
  <2>1. draining[i] \in Pids
    BY <1>11 DEF NodeStopped
  <2>2. proc' \in [Pids -> [id: Everyone, gen: Nat, phase: Phases]]
    BY <1>11, <2>1, PhaseType DEF NodeStopped, Phases
  <2> QED BY <1>11, <2>2 DEF NodeStopped
<1>12. ASSUME NEW i \in Ids, StopDone(i) PROVE TypeOK'
  BY <1>12 DEF StopDone
<1>13. ASSUME NEW i \in Ids, Spawn(i) PROVE TypeOK'
  BY <1>13 DEF Spawn, FreePids, Phases, Launches, Everyone
<1>14. ASSUME NEW i \in Ids, Applied(i) PROVE TypeOK'
  <2>1. wave' \in [Ids -> [launch: Launches, pid: Pids \cup {NoPid}]]
    BY <1>14 DEF Applied, Launches
  <2>2. proc' \in [Pids -> [id: Everyone, gen: Nat, phase: Phases]]
    <3>1. proc \in [Pids -> [id: Everyone, gen: Nat, phase: Phases]]
      BY DEF TypeOK
    <3>2. proc' = [proc EXCEPT ![wave[i].pid].phase = "up"]
      BY <1>14 DEF Applied
    <3> QED BY <3>1, <3>2 DEF Phases
  <2> QED BY <1>14, <2>1, <2>2 DEF Applied
<1>15. ASSUME NEW i \in Ids, LaunchFails(i) PROVE TypeOK'
  <2>1. wave' \in [Ids -> [launch: Launches, pid: Pids \cup {NoPid}]]
    BY <1>15 DEF LaunchFails, Launches
  <2>2. wave[i].pid = NoPid \/ wave[i].pid \in Pids
    OBVIOUS
  <2>3. proc' \in [Pids -> [id: Everyone, gen: Nat, phase: Phases]]
    BY <1>15, <2>2, PhaseType DEF LaunchFails, Phases
  <2> QED BY <1>15, <2>1, <2>3 DEF LaunchFails
<1>16. CASE RebuildSlots
  BY <1>16 DEF RebuildSlots, States, Errors, Stages, NoFresh, Entries
<1>17. CASE FinishStop
  BY <1>17 DEF FinishStop, States, Stages
<1>18. CASE Rewire
  BY <1>18 DEF Rewire, States, Errors, Stages, Listeners, PlansOf, InForce,
     Everyone, Told
<1>19. CASE StartWave
  BY <1>19 DEF StartWave, States, Errors, Stages, Launches
<1>20. CASE NothingReady
  BY <1>20 DEF NothingReady, Stages
<1>21. CASE WaveDone
  BY <1>21 DEF WaveDone, States, Errors, Stages, Launches
<1>22. ASSUME NEW p \in Pids, Report(p) PROVE TypeOK'
  <2>1. proc' \in [Pids -> [id: Everyone, gen: Nat, phase: Phases]]
    BY <1>22, PhaseType DEF Report, Phases
  <2>2. /\ running' \in [Ids -> Pids \cup {NoPid}]
        /\ state' \in [Ids -> States]
        /\ error' \in [Ids -> Errors]
    BY <1>22 DEF Report, States, Errors
  <2> QED BY <1>22, <2>1, <2>2 DEF Report
<1>23. ASSUME NEW p \in Pids, Unlink(p) PROVE TypeOK'
  <2>1. proc' \in [Pids -> [id: Everyone, gen: Nat, phase: Phases]]
    BY <1>23, PhaseType DEF Unlink, Phases
  <2> QED BY <1>23, <2>1 DEF Unlink
<1>24. ASSUME NEW p \in Pids, TakeLate(p) PROVE TypeOK'
  BY <1>24 DEF TakeLate
<1>25. CASE UNCHANGED vars
  BY <1>25 DEF vars
<1> QED
  BY <1>1, <1>2, <1>3, <1>4, <1>5, <1>6, <1>7, <1>8, <1>9, <1>10, <1>11,
     <1>12, <1>13, <1>14, <1>15, <1>16, <1>17, <1>18, <1>19, <1>20, <1>21,
     <1>22, <1>23, <1>24, <1>25
  DEF Next, HostStep, MonitorStep, NodeStep, Environment

\* The state is always well formed, whatever the files and the processes do.
THEOREM TypeCorrect == Spec => []TypeOK
BY TypeInit, TypeStep, PTL DEF Spec

-----------------------------------------------------------------------------
\* The steps of the operations fit together.

\* The functions the inductive invariant speaks of, as TypeOK types them.
Maps ==
    /\ running \in [Ids -> Pids \cup {NoPid}]
    /\ draining \in [Ids -> Pids \cup {NoPid}]
    /\ wave \in [Ids -> [launch: Launches, pid: Pids \cup {NoPid}]]
    /\ state \in [Ids -> States]
    /\ error \in [Ids -> Errors]
    /\ proc \in [Pids -> [id: Everyone, gen: Nat, phase: Phases]]

LEMMA MapsOfType == TypeOK => Maps
BY DEF TypeOK, Maps

LEMMA NoPidIsNone == NoPid \notin Pids
BY DEF NoPid, Pids

\* At most one of a set comes first.
LEMMA FirstIsOne == ASSUME NEW S \in SUBSET Ids, NEW i, NEW j,
                           IsFirst(i, S), IsFirst(j, S)
                    PROVE i = j
<1>1. i \in Int /\ j \in Int /\ i <= j /\ j <= i
  BY NAssumption DEF IsFirst, Ids
<1> QED BY <1>1

LEMMA InvInit == Init => IInv
<1> SUFFICES ASSUME Init PROVE IInv
  OBVIOUS
<1> USE DEF Init
<1>1. StageInv
  BY DEF StageInv
<1>2. SlotInv
  BY DEF SlotInv
<1>3. HeldInv
  BY DEF HeldInv
<1>4. ProcInv
  BY DEF ProcInv
<1> QED BY <1>1, <1>2, <1>3, <1>4 DEF IInv

\* A step that leaves the operation, the slots and what processes are held
\* alone keeps the invariant.
LEMMA InvUnchanged ==
    ASSUME IInv, UNCHANGED <<wave, stage, draining, state, todo, kind, queue,
                             fresh, running, proc, error>>
    PROVE IInv'
BY DEF IInv, StageInv, SlotInv, HeldInv, ProcInv, Holds, IsFirst

\* Between operations nothing is stopping, stopped or launched, so an
\* operation that begins finds every place empty.
LEMMA InvBegin ==
    ASSUME IInv,
           \/ Reconcile \/ ReplaceChanged \/ Stop
           \/ \E i \in Ids : Replace(i)
    PROVE IInv'
<1>1. /\ stage = "idle"
      /\ UNCHANGED <<wave, draining, state, running, proc, error>>
  BY DEF Begin, Reconcile, ReplaceChanged, Stop, Replace, slots, procs
<1>2. (SlotInv /\ HeldInv /\ ProcInv)'
  BY <1>1 DEF IInv, SlotInv, HeldInv, ProcInv, Holds
<1>3. StageInv'
  <2>1. CASE Reconcile
    <3>1. \A i \in Ids : running[i] # NoPid /\ i \notin todo' =>
                             fresh'[i].plan # NoPlan
      BY <2>1 DEF Reconcile, Stale
    <3> QED BY <1>1, <2>1, <3>1 DEF Reconcile, Begin, IInv, StageInv
  <2>2. CASE ReplaceChanged
    BY <1>1, <2>2 DEF ReplaceChanged, Begin, IInv, StageInv
  <2>3. CASE Stop
    BY <1>1, <2>3 DEF Stop, Begin, IInv, StageInv
  <2>4. CASE \E i \in Ids : Replace(i)
    BY <1>1, <2>4 DEF Replace, Begin, IInv, StageInv
  <2> QED BY <2>1, <2>2, <2>3, <2>4
<1> QED BY <1>2, <1>3 DEF IInv

LEMMA InvPlanNext == ASSUME TypeOK, IInv, NEW i \in Ids, PlanNext(i) PROVE IInv'
<1>1. (SlotInv /\ HeldInv /\ ProcInv)'
  BY DEF PlanNext, slots, procs, IInv, SlotInv, HeldInv, ProcInv, Holds
<1>2. \A j \in Ids : IsFirst(j, queue) => j = i
  BY FirstIsOne DEF PlanNext, TypeOK
<1>3. StageInv'
  BY <1>2 DEF PlanNext, slots, procs, IInv, StageInv, IsFirst
<1> QED BY <1>1, <1>3 DEF IInv

\* A slot is taken from running to draining, never over a node that drains.
LEMMA InvStopTake == ASSUME TypeOK, IInv, NEW i \in Ids, StopTake(i) PROVE IInv'
<1> USE MapsOfType, NoPidIsNone DEF Maps
<1>1. /\ draining[i] = NoPid
      /\ \A j \in Ids : wave[j].launch = "no"
  BY DEF StopTake, IInv, StageInv
<1>2. StageInv'
  BY <1>1 DEF StopTake, slots, procs, IInv, StageInv, SlotInv, IsFirst
<1>3. SlotInv'
  BY <1>1 DEF StopTake, slots, procs, IInv, SlotInv
<1>4. HeldInv'
  BY <1>1 DEF StopTake, slots, procs, IInv, HeldInv
<1>5. ProcInv'
  BY <1>1 DEF StopTake, slots, procs, IInv, ProcInv, Holds
<1> QED BY <1>2, <1>3, <1>4, <1>5 DEF IInv

LEMMA InvNodeStopped ==
    ASSUME TypeOK, IInv, NEW i \in Ids, NodeStopped(i) PROVE IInv'
<1> USE MapsOfType, NoPidIsNone DEF Maps
<1>1. (StageInv /\ SlotInv)'
  BY DEF NodeStopped, slots, operation, IInv, StageInv, SlotInv, IsFirst
<1>2. \A j \in Ids : wave[j].pid = NoPid
  BY DEF NodeStopped, IInv, StageInv, SlotInv
<1>3. HeldInv'
  BY <1>2 DEF NodeStopped, slots, operation, IInv, HeldInv
<1>4. ProcInv'
  BY DEF NodeStopped, slots, operation, IInv, ProcInv, Holds
<1> QED BY <1>1, <1>3, <1>4 DEF IInv

LEMMA InvStopDone ==
    ASSUME TypeOK, IInv, NEW i \in Ids, StopDone(i) PROVE IInv'
<1> USE MapsOfType, NoPidIsNone DEF Maps
<1>1. (StageInv /\ SlotInv)'
  BY DEF StopDone, slots, procs, IInv, StageInv, SlotInv, IsFirst
<1>2. (HeldInv /\ ProcInv)'
  BY DEF StopDone, slots, procs, IInv, HeldInv, ProcInv, Holds
<1> QED BY <1>1, <1>2 DEF IInv

\* Every node that still runs has a plan when the slots are rebuilt, so no
\* new slot replaces one with a node.
LEMMA InvRebuildSlots == ASSUME TypeOK, IInv, RebuildSlots PROVE IInv'
<1> USE MapsOfType, NoPidIsNone DEF Maps
<1>1. \A i \in Ids : /\ running[i] # NoPid => fresh[i].plan # NoPlan
                     /\ draining[i] = NoPid
                     /\ wave[i].launch = "no"
                     /\ wave[i].pid = NoPid
  BY DEF RebuildSlots, AllStopped, Quiet, IInv, StageInv, SlotInv
<1>2. UNCHANGED <<running, draining, wave, proc, kind, todo>>
  BY <1>1 DEF RebuildSlots, procs
<1>3. \A i \in Ids : running[i] # NoPid => /\ state'[i] = state[i]
                                           /\ error'[i] = error[i]
  BY <1>1 DEF RebuildSlots
<1>4. \A i \in Ids :
          running[i] = NoPid =>
              /\ state'[i] \notin {"active", "starting", "stopping"}
              /\ state'[i] = "failed" <=> error'[i] # "none"
  <2> SUFFICES ASSUME NEW i \in Ids, running[i] = NoPid
               PROVE /\ state'[i] \notin {"active", "starting", "stopping"}
                     /\ state'[i] = "failed" <=> error'[i] # "none"
    OBVIOUS
  <2> DEFINE f == fresh[i]
  <2>1. f.entry \in Entries
    BY DEF TypeOK
  <2>2. /\ state'[i] = CASE f.entry = "absent" -> "none"
                         [] f.entry = "disabled" -> "disabled"
                         [] OTHER -> IF f.plan = NoPlan
                                     THEN "failed" ELSE "waiting"
        /\ error'[i] = IF Enabled(f.entry) /\ f.plan = NoPlan
                       THEN "plan" ELSE "none"
    BY DEF RebuildSlots
  <2> HIDE DEF f
  <2> QED BY <2>1, <2>2, ConfigsAssumption DEF Enabled, Entries
<1>5. StageInv'
  BY <1>1, <1>2, <1>3, <1>4 DEF RebuildSlots, AllStopped, IInv, StageInv, SlotInv
<1>6. SlotInv'
  BY <1>1, <1>2, <1>3, <1>4 DEF IInv, SlotInv
<1>7. (HeldInv /\ ProcInv)'
  BY <1>2 DEF IInv, HeldInv, ProcInv, Holds
<1> QED BY <1>5, <1>6, <1>7 DEF IInv

\* The replaced slot has no node left when its new plan is installed.
LEMMA InvInstallPlan ==
    ASSUME TypeOK, IInv, NEW i \in Ids, InstallPlan(i) PROVE IInv'
<1> USE MapsOfType, NoPidIsNone DEF Maps
<1>1. /\ running[i] = NoPid
      /\ todo = {}
      /\ \A j \in Ids : /\ draining[j] = NoPid
                        /\ wave[j].launch = "no"
                        /\ state[j] = "stopping" => j = i
  <2>1. \A j \in Ids : state[j] = "stopping" => IsFirst(j, queue)
    BY DEF InstallPlan, AllStopped, IInv, StageInv
  <2>2. queue \in SUBSET Ids
    BY DEF TypeOK
  <2> QED BY <2>1, <2>2, FirstIsOne DEF InstallPlan, AllStopped, Quiet, IInv, StageInv
<1>2. UNCHANGED <<running, draining, wave, proc, kind, todo>>
  BY DEF InstallPlan, procs
<1>3. /\ state'[i] \in {"waiting", "failed"}
      /\ state'[i] = "failed" <=> error'[i] # "none"
      /\ stage' \in {"rewire", "push"}
      /\ \A j \in Ids \ {i} : state'[j] = state[j] /\ error'[j] = error[j]
  BY DEF InstallPlan
<1>4. StageInv'
  BY <1>1, <1>2, <1>3 DEF InstallPlan, AllStopped, IInv, StageInv
<1>5. SlotInv'
  BY <1>1, <1>2, <1>3 DEF IInv, SlotInv
<1>6. (HeldInv /\ ProcInv)'
  BY <1>2 DEF IInv, HeldInv, ProcInv, Holds
<1> QED BY <1>4, <1>5, <1>6 DEF IInv

LEMMA InvFinishStop == ASSUME TypeOK, IInv, FinishStop PROVE IInv'
<1> USE MapsOfType, NoPidIsNone DEF Maps
<1>1. /\ todo = {}
      /\ \A i \in Ids : /\ running[i] = NoPid
                        /\ draining[i] = NoPid
                        /\ wave[i].launch = "no"
  BY DEF FinishStop, AllStopped, Quiet, IInv, StageInv
<1>2. StageInv'
  BY <1>1 DEF FinishStop, IInv, StageInv
<1>3. SlotInv'
  BY <1>1 DEF FinishStop, IInv, SlotInv
<1>4. (HeldInv /\ ProcInv)'
  BY DEF FinishStop, IInv, HeldInv, ProcInv, Holds
<1> QED BY <1>2, <1>3, <1>4 DEF IInv

\* Only slots without a node are refused.
LEMMA InvRewire == ASSUME TypeOK, IInv, Rewire PROVE IInv'
<1> USE MapsOfType, NoPidIsNone DEF Maps
<1>1. \A i \in Ids : /\ draining[i] = NoPid
                     /\ wave[i].launch = "no"
  BY DEF Rewire, IInv, StageInv
<1>2. \A i \in Ids :
          \/ state'[i] = state[i] /\ error'[i] = error[i]
          \/ running[i] = NoPid /\ state'[i] = "failed" /\ error'[i] = "refused"
  BY DEF Rewire, Refused
<1>3. UNCHANGED <<running, draining, wave, proc, kind, queue, fresh>>
      /\ stage = "rewire" /\ stage' = "push"
  BY DEF Rewire, procs
<1>4. StageInv'
  BY <1>1, <1>2, <1>3 DEF IInv, StageInv
<1>5. SlotInv'
  BY <1>1, <1>2, <1>3 DEF IInv, SlotInv
<1>6. (HeldInv /\ ProcInv)'
  BY <1>3 DEF IInv, HeldInv, ProcInv, Holds
<1> QED BY <1>4, <1>5, <1>6 DEF IInv

LEMMA InvPush == ASSUME IInv, NEW i \in Ids, Push(i) PROVE IInv'
<1>1. StageInv'
  BY DEF Push, slots, IInv, StageInv
<1>2. (SlotInv /\ HeldInv /\ ProcInv)'
  BY DEF Push, slots, IInv, SlotInv, HeldInv, ProcInv, Holds
<1> QED BY <1>1, <1>2 DEF IInv

LEMMA InvStartWave == ASSUME TypeOK, IInv, StartWave PROVE IInv'
<1> USE MapsOfType, NoPidIsNone DEF Maps
<1>1. \A i \in Ids : /\ draining[i] = NoPid
                     /\ wave[i].launch = "no"
                     /\ wave[i].pid = NoPid
  BY DEF StartWave, Pushed, IInv, StageInv, SlotInv
<1>2. \A i \in Ids :
          \/ UNCHANGED <<state[i], error[i], wave[i]>>
          \/ /\ state[i] = "waiting"
             /\ state'[i] = "starting"
             /\ error'[i] = "none"
             /\ wave'[i] = [launch |-> "queued", pid |-> NoPid]
  BY DEF StartWave, Ready
<1>3. /\ UNCHANGED <<running, draining, proc, kind, queue, fresh, todo>>
      /\ stage = "push" /\ stage' = "launch" /\ todo = {}
  BY DEF StartWave, Pushed, procs
<1>4. StageInv'
  BY <1>1, <1>2, <1>3 DEF IInv, StageInv
<1>5. SlotInv'
  BY <1>1, <1>2, <1>3 DEF IInv, SlotInv
<1>6. (HeldInv /\ ProcInv)'
  BY <1>1, <1>2, <1>3 DEF IInv, HeldInv, ProcInv, Holds
<1> QED BY <1>4, <1>5, <1>6 DEF IInv

LEMMA InvNothingReady == ASSUME IInv, NothingReady PROVE IInv'
<1>1. StageInv'
  BY DEF NothingReady, Pushed, slots, procs, IInv, StageInv
<1>2. (SlotInv /\ HeldInv /\ ProcInv)'
  BY DEF NothingReady, slots, procs, IInv, SlotInv, HeldInv, ProcInv, Holds
<1> QED BY <1>1, <1>2 DEF IInv

\* A free pid is in no place, so the node spawned under it is in just one.
LEMMA InvSpawn == ASSUME TypeOK, IInv, NEW i \in Ids, Spawn(i) PROVE IInv'
<1> USE MapsOfType, NoPidIsNone DEF Maps
<1>1. PICK p \in FreePids :
          /\ proc' = [proc EXCEPT ![p] = [id |-> i, gen |-> gen[i],
                                          phase |-> "booting"]]
          /\ wave' = [wave EXCEPT ![i] = [launch |-> "booting", pid |-> p]]
  BY DEF Spawn
<1>2. /\ p \in Pids
      /\ \A j \in Ids : /\ running[j] # p
                        /\ draining[j] # p
                        /\ wave[j].pid # p
  BY DEF FreePids
<1>3. /\ wave[i].launch = "queued" /\ wave[i].pid = NoPid
      /\ UNCHANGED <<running, draining, state, error, kind, stage, queue,
                     fresh, todo>>
      /\ stage = "launch"
  BY DEF Spawn, slots, IInv, StageInv, SlotInv
<1>4. StageInv'
  BY <1>1, <1>3 DEF IInv, StageInv
<1>5. SlotInv'
  BY <1>1, <1>2, <1>3 DEF IInv, SlotInv
<1>6. HeldInv'
  BY <1>1, <1>2, <1>3 DEF IInv, HeldInv
<1>7. ProcInv'
  BY <1>1, <1>2, <1>3 DEF IInv, ProcInv, Holds
<1> QED BY <1>4, <1>5, <1>6, <1>7 DEF IInv

LEMMA InvApplied == ASSUME TypeOK, IInv, NEW i \in Ids, Applied(i) PROVE IInv'
<1> USE MapsOfType, NoPidIsNone DEF Maps
<1>1. /\ wave[i].pid \in Pids
      /\ proc[wave[i].pid].id = i
      /\ stage = "launch"
  BY DEF Applied, IInv, StageInv, SlotInv, HeldInv
<1>2. UNCHANGED <<running, draining, state, error, kind, stage, queue, fresh,
                  todo>>
  BY DEF Applied, slots
<1>3. StageInv'
  BY <1>1, <1>2 DEF Applied, IInv, StageInv
<1>4. SlotInv'
  BY <1>1, <1>2 DEF Applied, IInv, SlotInv
<1>5. HeldInv'
  BY <1>1, <1>2 DEF Applied, IInv, HeldInv
<1>6. ProcInv'
  BY <1>1, <1>2 DEF Applied, IInv, ProcInv, Holds
<1> QED BY <1>3, <1>4, <1>5, <1>6 DEF IInv

LEMMA InvLaunchFails ==
    ASSUME TypeOK, IInv, NEW i \in Ids, LaunchFails(i) PROVE IInv'
<1> USE MapsOfType, NoPidIsNone DEF Maps
<1>1. /\ wave[i].pid # NoPid => wave[i].pid \in Pids /\ proc[wave[i].pid].id = i
      /\ stage = "launch"
      /\ wave' = [wave EXCEPT ![i] = [launch |-> "err", pid |-> NoPid]]
  BY DEF LaunchFails, IInv, StageInv, HeldInv
<1>2. UNCHANGED <<running, draining, state, error, kind, stage, queue, fresh,
                  todo>>
  BY DEF LaunchFails, slots
<1>3. StageInv'
  BY <1>1, <1>2 DEF IInv, StageInv
<1>4. SlotInv'
  BY <1>1, <1>2 DEF LaunchFails, IInv, SlotInv
<1>5. HeldInv'
  BY <1>1, <1>2 DEF LaunchFails, IInv, HeldInv
<1>6. ProcInv'
  BY <1>1, <1>2 DEF LaunchFails, IInv, ProcInv, Holds
<1> QED BY <1>3, <1>4, <1>5, <1>6 DEF IInv

LEMMA InvWaveDone == ASSUME TypeOK, IInv, WaveDone PROVE IInv'
<1> USE MapsOfType, NoPidIsNone DEF Maps
<1>1. /\ stage = "launch" /\ stage' = "push" /\ kind # "stop" /\ todo = {}
      /\ \A i \in Ids : draining[i] = NoPid /\ state[i] # "stopping"
      /\ UNCHANGED <<draining, proc, kind, queue, fresh, todo>>
  BY DEF WaveDone, procs, IInv, StageInv
<1>2. \A i \in Ids : wave'[i].launch = "no" /\ wave'[i].pid = NoPid
  BY DEF WaveDone
<1>3. \A i \in Ids :
          \/ /\ wave[i].launch = "ok" /\ wave[i].pid # NoPid
             /\ running[i] = NoPid /\ running'[i] = wave[i].pid
             /\ state'[i] = "active" /\ error'[i] = "none"
          \/ /\ wave[i].launch = "err" /\ wave[i].pid = NoPid
             /\ running[i] = NoPid /\ running'[i] = NoPid
             /\ state'[i] = "failed" /\ error'[i] # "none"
          \/ /\ wave[i].launch = "no" /\ wave[i].pid = NoPid
             /\ state[i] # "starting"
             /\ UNCHANGED <<running[i], state[i], error[i]>>
  <2> SUFFICES ASSUME NEW i \in Ids
               PROVE \/ /\ wave[i].launch = "ok" /\ wave[i].pid # NoPid
                        /\ running[i] = NoPid /\ running'[i] = wave[i].pid
                        /\ state'[i] = "active" /\ error'[i] = "none"
                     \/ /\ wave[i].launch = "err" /\ wave[i].pid = NoPid
                        /\ running[i] = NoPid /\ running'[i] = NoPid
                        /\ state'[i] = "failed" /\ error'[i] # "none"
                     \/ /\ wave[i].launch = "no" /\ wave[i].pid = NoPid
                        /\ state[i] # "starting"
                        /\ UNCHANGED <<running[i], state[i], error[i]>>
    OBVIOUS
  <2>1. wave[i].launch \in {"ok", "err", "no"}
    BY DEF WaveDone, Launches
  <2> QED BY <2>1 DEF WaveDone, IInv, SlotInv
<1>4. StageInv'
  BY <1>1, <1>2, <1>3 DEF IInv, StageInv
<1>5. SlotInv'
  BY <1>1, <1>2, <1>3 DEF IInv, SlotInv
<1>6. HeldInv'
  BY <1>1, <1>2, <1>3 DEF IInv, HeldInv
<1>7. ProcInv'
  BY <1>1, <1>2, <1>3 DEF IInv, ProcInv, HeldInv, Holds
<1> QED BY <1>4, <1>5, <1>6, <1>7 DEF IInv

LEMMA InvExit == ASSUME TypeOK, IInv, NEW p \in Pids, Exit(p) PROVE IInv'
<1> USE MapsOfType, NoPidIsNone DEF Maps
<1>1. (StageInv /\ SlotInv)'
  BY DEF Exit, slots, operation, IInv, StageInv, SlotInv, IsFirst
<1>2. HeldInv'
  BY DEF Exit, slots, operation, IInv, HeldInv
<1>3. ProcInv'
  BY DEF Exit, slots, operation, IInv, ProcInv, Holds
<1> QED BY <1>1, <1>2, <1>3 DEF IInv

\* An exit that is heeded is that of the very node in the slot: a process
\* whose exit was not reported is held for its cartridge, and an active slot
\* holds none but the running one.
LEMMA InvReport == ASSUME TypeOK, IInv, NEW p \in Pids, Report(p) PROVE IInv'
<1> USE MapsOfType, NoPidIsNone DEF Maps
<1> DEFINE i == proc[p].id
<1>1. i \in Ids /\ Holds(i, p)
  BY DEF Report, IInv, ProcInv
<1>2. CASE Heeded(i, p)
  <2>1. /\ running[i] = p
        /\ state' = [state EXCEPT ![i] = "failed"]
        /\ error' = [error EXCEPT ![i] = "exit"]
        /\ running' = [running EXCEPT ![i] = NoPid]
        /\ proc' = [proc EXCEPT ![p].phase = "reaped"]
    BY <1>1, <1>2 DEF Report, Heeded, Holds, IInv, SlotInv
  <2>2. UNCHANGED <<wave, draining, kind, stage, queue, fresh, todo>>
    BY DEF Report, operation
  <2>3. StageInv'
    BY <1>1, <1>2, <2>1, <2>2 DEF IInv, StageInv, IsFirst
  <2>4. SlotInv'
    BY <1>1, <1>2, <2>1, <2>2 DEF Heeded, IInv, SlotInv
  <2>5. HeldInv'
    BY <1>1, <2>1, <2>2 DEF Report, IInv, HeldInv
  <2>6. ProcInv'
    BY <1>1, <2>1, <2>2 DEF IInv, ProcInv, Holds
  <2> QED BY <2>3, <2>4, <2>5, <2>6 DEF IInv
<1>3. CASE ~Heeded(i, p)
  <2>1. /\ UNCHANGED <<wave, stage, draining, state, todo, kind, queue, fresh,
                       running, error>>
        /\ proc' = [proc EXCEPT ![p].phase = "reaped"]
    BY <1>3 DEF Report, operation
  <2>2. (StageInv /\ SlotInv)'
    BY <2>1 DEF IInv, StageInv, SlotInv, IsFirst
  <2>3. HeldInv'
    BY <2>1 DEF Report, IInv, HeldInv
  <2>4. ProcInv'
    BY <1>1, <2>1 DEF IInv, ProcInv, Holds
  <2> QED BY <2>2, <2>3, <2>4 DEF IInv
<1> QED BY <1>2, <1>3

LEMMA InvUnlink == ASSUME TypeOK, IInv, NEW p \in Pids, Unlink(p) PROVE IInv'
<1> USE MapsOfType, NoPidIsNone DEF Maps
<1>1. (StageInv /\ SlotInv)'
  BY DEF Unlink, slots, operation, IInv, StageInv, SlotInv, IsFirst
<1>2. HeldInv'
  BY DEF Unlink, slots, operation, IInv, HeldInv
<1>3. ProcInv'
  BY DEF Unlink, slots, operation, IInv, ProcInv, Holds
<1> QED BY <1>1, <1>2, <1>3 DEF IInv

LEMMA InvStep == TypeOK /\ IInv /\ [Next]_vars => IInv'
<1> SUFFICES ASSUME TypeOK, IInv, [Next]_vars PROVE IInv'
  OBVIOUS
<1>1. CASE Reconcile \/ ReplaceChanged \/ Stop \/ \E i \in Ids : Replace(i)
  BY <1>1, InvBegin
<1>2. CASE \E i \in Ids : PlanNext(i) \/ InstallPlan(i) \/ Push(i)
  BY <1>2, InvPlanNext, InvInstallPlan, InvPush
<1>3. CASE \E i \in Ids : StopTake(i) \/ NodeStopped(i) \/ StopDone(i)
  BY <1>3, InvStopTake, InvNodeStopped, InvStopDone
<1>4. CASE \E i \in Ids : Spawn(i) \/ Applied(i) \/ LaunchFails(i)
  BY <1>4, InvSpawn, InvApplied, InvLaunchFails
<1>5. CASE RebuildSlots \/ FinishStop \/ Rewire
  BY <1>5, InvRebuildSlots, InvFinishStop, InvRewire
<1>6. CASE StartWave \/ NothingReady \/ WaveDone
  BY <1>6, InvStartWave, InvNothingReady, InvWaveDone
<1>7. CASE \E p \in Pids : Exit(p) \/ Report(p) \/ Unlink(p)
  BY <1>7, InvExit, InvReport, InvUnlink
<1>8. CASE (\E i \in Ids : Edit(i)) \/ NodeStep
  BY <1>8, InvUnchanged DEF Edit, NodeStep, TakeLate, slots, procs, operation
<1>9. CASE UNCHANGED vars
  BY <1>9, InvUnchanged DEF vars, slots, procs, operation
<1> QED
  BY <1>1, <1>2, <1>3, <1>4, <1>5, <1>6, <1>7, <1>8, <1>9
  DEF Next, HostStep, MonitorStep, NodeStep, Environment

\* Whatever the order of steps, a node is in at most one place of its slot,
\* the place its slot's state names, and no exit is taken for another's.
THEOREM StepsFit == Spec => [](TypeOK /\ IInv)
<1>1. Init => TypeOK /\ IInv
  BY TypeInit, InvInit
<1>2. TypeOK /\ IInv /\ [Next]_vars => (TypeOK /\ IInv)'
  BY TypeStep, InvStep
<1> QED BY <1>1, <1>2, PTL DEF Spec

-----------------------------------------------------------------------------
\* What follows from the invariant.

\* Nothing that was spawned is ever unknown to the host while it runs.
THEOREM NoOrphanNodeHolds == Spec => []NoOrphanNode
<1>1. TypeOK /\ IInv => NoOrphanNode
  <2> SUFFICES ASSUME TypeOK, IInv, NEW p \in Pids, Live(p)
               PROVE proc[p].id # HOST /\ Holds(proc[p].id, p)
    BY DEF NoOrphanNode
  <2>1. proc[p].id \in Ids /\ Holds(proc[p].id, p)
    BY DEF Live, IInv, ProcInv
  <2> QED BY <2>1, NAssumption DEF Ids, HOST
<1> QED BY <1>1, StepsFit, PTL

\* A replaced node is down before the next of its cartridge is spawned.
THEOREM OneNodeHolds == Spec => []OneNodePerCartridge
<1>1. TypeOK /\ IInv => OneNodePerCartridge
  <2> SUFFICES ASSUME TypeOK, IInv, NEW p \in Pids, NEW q \in Pids,
                      Live(p), Live(q), proc[p].id = proc[q].id
               PROVE p = q
    BY DEF OneNodePerCartridge
  <2> DEFINE i == proc[p].id
  <2>1. i \in Ids /\ Holds(i, p) /\ Holds(i, q)
    BY DEF Live, IInv, ProcInv
  <2>2. /\ running[i] # NoPid => state[i] = "active"
        /\ draining[i] # NoPid => state[i] = "stopping"
        /\ wave[i].pid # NoPid => state[i] = "starting"
    BY <2>1, MapsOfType DEF Maps, IInv, SlotInv
  <2> QED BY <2>1, <2>2, NoPidIsNone DEF Holds
<1> QED BY <1>1, StepsFit, PTL

\* A stopped host has no node left, whoever exited or failed meanwhile.
THEOREM StopStopsAllHolds == Spec => []StopStopsAll
<1>1. TypeOK /\ IInv => StopStopsAll
  <2> SUFFICES ASSUME TypeOK, IInv, stage = "idle", kind = "stop",
                      NEW p \in Pids, Live(p)
               PROVE FALSE
    BY DEF StopStopsAll
  <2>1. \A i \in Ids : /\ running[i] = NoPid
                       /\ draining[i] = NoPid
                       /\ wave[i].pid = NoPid
    BY DEF IInv, StageInv, SlotInv
  <2>2. proc[p].id \in Ids /\ Holds(proc[p].id, p)
    BY DEF Live, IInv, ProcInv
  <2> QED BY <2>1, <2>2, NoPidIsNone DEF Holds
<1> QED BY <1>1, StepsFit, PTL

\* No operation ends in the middle of a start or a stop.
THEOREM NothingHalfDoneHolds == Spec => []NothingHalfDone
<1>1. TypeOK /\ IInv => NothingHalfDone
  BY DEF NothingHalfDone, IInv, StageInv, SlotInv
<1> QED BY <1>1, StepsFit, PTL

\* The status shown is coherent at every step, and nothing is half done when
\* an operation is over.
THEOREM StatusCoherentHolds == Spec => []StatusCoherent
<1>1. TypeOK /\ IInv => StatusCoherent
  BY DEF StatusCoherent, NothingHalfDone, IInv, StageInv, SlotInv
<1> QED BY <1>1, StepsFit, PTL

-----------------------------------------------------------------------------
\* An action property: a serving node is taken from its slot only for a
\* reason of its own.

\* reconcile stops only what is stale, until the stops are done.
StaleInv ==
    stage = "stop" /\ kind = "reconcile" =>
        \A i \in todo : fresh[i].plan = NoPlan \/ fresh[i].entry # entry[i]

LEMMA StaleStep == IInv /\ StaleInv /\ [Next]_vars => StaleInv'
<1> SUFFICES ASSUME IInv, StaleInv, [Next]_vars,
                    stage' = "stop", kind' = "reconcile"
             PROVE (\A i \in todo : fresh[i].plan = NoPlan
                                   \/ fresh[i].entry # entry[i])'
  BY DEF StaleInv
<1> USE DEF slots, procs, operation
<1>1. CASE Reconcile
  BY <1>1 DEF Reconcile, Stale
<1>2. CASE ReplaceChanged \/ Stop \/ \E i \in Ids : Replace(i)
  BY <1>2 DEF ReplaceChanged, Stop, Replace, Begin
<1>3. CASE \E i \in Ids : PlanNext(i) \/ InstallPlan(i) \/ Push(i)
  BY <1>3 DEF PlanNext, InstallPlan, Push, IInv, StageInv
<1>4. CASE \E i \in Ids : StopTake(i)
  BY <1>4 DEF StopTake, StaleInv
<1>5. CASE \E i \in Ids : NodeStopped(i) \/ StopDone(i)
  BY <1>5 DEF NodeStopped, StopDone, StaleInv
<1>6. CASE \E i \in Ids : Spawn(i) \/ Applied(i) \/ LaunchFails(i)
  BY <1>6 DEF Spawn, Applied, LaunchFails, StaleInv
<1>7. CASE RebuildSlots \/ FinishStop \/ Rewire
  BY <1>7 DEF RebuildSlots, FinishStop, Rewire
<1>8. CASE StartWave \/ NothingReady \/ WaveDone
  BY <1>8 DEF StartWave, NothingReady, WaveDone
<1>9. CASE \E p \in Pids : Exit(p) \/ Report(p) \/ Unlink(p)
  BY <1>9 DEF Exit, Report, Unlink, StaleInv
<1>10. CASE (\E i \in Ids : Edit(i)) \/ NodeStep
  BY <1>10 DEF Edit, NodeStep, TakeLate, StaleInv
<1>11. CASE UNCHANGED vars
  BY <1>11 DEF vars, StaleInv
<1> QED
  BY <1>1, <1>2, <1>3, <1>4, <1>5, <1>6, <1>7, <1>8, <1>9, <1>10, <1>11
  DEF Next, HostStep, MonitorStep, NodeStep, Environment

\* A reload, a stop or an exit of one cartridge leaves the others serving:
\* only stop_slot and a heeded exit take a node from its slot.
THEOREM StoppedForCauseHolds == Spec => StoppedForCause
<1>1. TypeOK /\ IInv /\ StaleInv /\ [Next]_vars => TakenForCause
  <2> SUFFICES ASSUME TypeOK, IInv, StaleInv, [Next]_vars,
                      NEW i \in Ids, running[i] # NoPid, running'[i] = NoPid
               PROVE Cause(i)
    BY DEF TakenForCause
  <2> USE MapsOfType DEF Maps, slots, procs, operation
  <2>1. CASE StopTake(i)
    BY <2>1 DEF StopTake, Cause, StaleInv, IInv, StageInv, IsFirst, Kinds, TypeOK
  <2>2. CASE \E j \in Ids : StopTake(j) /\ j # i
    BY <2>2 DEF StopTake
  <2>3. CASE \E p \in Pids : Report(p)
    <3>1. PICK p \in Pids : Report(p)
      BY <2>3
    <3>2. i = proc[p].id /\ Heeded(i, p)
      BY <3>1 DEF Report, IInv, ProcInv
    <3>3. Holds(i, p)
      BY <3>1, <3>2 DEF Report, IInv, ProcInv
    <3>4. running[i] = p
      BY <3>2, <3>3, NoPidIsNone DEF Heeded, Holds, IInv, SlotInv
    <3> QED BY <3>1, <3>4 DEF Report, Cause
  <2>4. CASE RebuildSlots
    <3>1. fresh[i].plan # NoPlan
      BY <2>4 DEF RebuildSlots, AllStopped, IInv, StageInv
    <3> QED BY <2>4, <3>1 DEF RebuildSlots
  <2>5. CASE WaveDone
    BY <2>5 DEF WaveDone, IInv, SlotInv
  <2>6. CASE UNCHANGED running
    BY <2>6
  <2>7. \/ \E j \in Ids : StopTake(j)
        \/ \E p \in Pids : Report(p)
        \/ RebuildSlots \/ WaveDone
        \/ UNCHANGED running
    BY DEF Next, HostStep, MonitorStep, NodeStep, TakeLate, Environment,
       vars, Reconcile, Replace,
       ReplaceChanged, Stop, Edit, Exit, PlanNext, InstallPlan, Push,
       NodeStopped, StopDone, Spawn, Applied, LaunchFails, FinishStop, Rewire,
       StartWave, NothingReady, Unlink
  <2> QED BY <2>1, <2>2, <2>3, <2>4, <2>5, <2>6, <2>7
<1>2. Init => StaleInv
  BY DEF Init, StaleInv
<1>3. Spec => []StaleInv
  BY <1>2, StaleStep, StepsFit, PTL DEF Spec
<1> QED BY <1>1, <1>3, StepsFit, PTL DEF Spec, StoppedForCause

-----------------------------------------------------------------------------
\* Wiring: the directories of the cartridges in use were computed together.

\* The slots that have a node, had one, or may get one without being wired
\* again; a node that exits while it is replaced leaves its slot failed, and
\* the slot is started again as it was.
InUse ==
    {i \in Ids :
        \/ state[i] \in {"waiting", "starting", "active", "stopping"}
        \/ stage = "stop" /\ kind = "replace" /\ wasActive /\ IsFirst(i, queue)}

Serves == {i \in Ids : state[i] = "active"}

PlannedInv == \A i \in InUse : plan[i] # NoPlan

Agree(S) ==
    \A s, l \in S, e \in Events :
        <<e, l>> \in dir[s].routes <=> <<s, e>> \in dir[l].accept

\* No edge is missing, and the listeners are those of the plans.
Complete(S) ==
    \A s, l \in S, e \in Events :
        /\ e \in Sends(plan[s])
        /\ e \in plan[l].listen
        /\ e \in HostPlan.events \/ \E d \in S : e \in plan[d].events
        => <<e, l>> \in dir[s].routes

Listed(S) == \A l \in S : \A e \in plan[l].listen : l \in listeners[e]

\* Between the plans' change and the rewiring only those that serve agree.
WiredInv == /\ PlannedInv
            /\ Agree(Serves)
            /\ stage # "rewire" => Agree(InUse) /\ Complete(InUse) /\ Listed(InUse)

LEMMA ServesInUse == Serves \subseteq InUse
BY DEF Serves, InUse

LEMMA WiredInit == Init => WiredInv
<1> SUFFICES ASSUME Init PROVE WiredInv
  OBVIOUS
<1>1. InUse = {} /\ Serves = {}
  BY DEF Init, InUse, Serves
<1> QED BY <1>1 DEF WiredInv, PlannedInv, Agree, Complete, Listed

\* What takes nothing into use and changes no plan and no directory.
LEMMA WiredKept ==
    ASSUME WiredInv, InUse' \subseteq InUse,
           UNCHANGED <<dir, plan, listeners>>,
           stage = "rewire" => stage' = "rewire" /\ Serves' \subseteq Serves
    PROVE WiredInv'
<1>1. PlannedInv' /\ Agree(Serves)'
  <2>1. PlannedInv'
    BY DEF WiredInv, PlannedInv
  <2>2. CASE stage = "rewire"
    BY <2>1, <2>2 DEF WiredInv, Agree
  <2>3. CASE stage # "rewire"
    <3>1. Agree(InUse) /\ Serves' \subseteq InUse'
      BY <2>3 DEF WiredInv, Serves, InUse
    <3> QED BY <2>1, <3>1 DEF Agree
  <2> QED BY <2>2, <2>3
<1>2. ASSUME stage' # "rewire" PROVE Agree(InUse)' /\ Complete(InUse)' /\ Listed(InUse)'
  <2>1. Agree(InUse) /\ Complete(InUse) /\ Listed(InUse)
    BY <1>2 DEF WiredInv
  <2>2. Agree(InUse)'
    BY <2>1 DEF Agree
  <2>3. Complete(InUse)'
    BY <2>1 DEF Complete
  <2>4. Listed(InUse)'
    BY <2>1 DEF Listed
  <2> QED BY <2>2, <2>3, <2>4
<1> QED BY <1>1, <1>2 DEF WiredInv

\* rewire computes both ends of every edge from the same plans.
LEMMA WiredRewire == ASSUME TypeOK, IInv, WiredInv, Rewire PROVE WiredInv'
<1> DEFINE st == [i \in Ids |-> IF i \in Refused THEN "failed" ELSE state[i]]
           plans == PlansOf(InForce(st))
<1>1. /\ dir' = [i \in Ids |-> NewDirectory(i, plans)]
      /\ state' = st
      /\ listeners' = Listeners(plans)
      /\ stage = "rewire" /\ stage' = "push"
      /\ UNCHANGED plan
  BY DEF Rewire
<1>2. \A i \in InUse' : /\ i \in Ids
                        /\ plan[i] # NoPlan
                        /\ i \in InForce(st)
                        /\ i # HOST
                        /\ plans[i] = plan[i]
                        /\ dir'[i] = Directory(i, plan[i], plans)
  <2> SUFFICES ASSUME NEW i \in InUse' PROVE
                        /\ i \in Ids
                        /\ plan[i] # NoPlan
                        /\ i \in InForce(st)
                        /\ i # HOST
                        /\ plans[i] = plan[i]
                        /\ dir'[i] = Directory(i, plan[i], plans)
    OBVIOUS
  <2>1. /\ i \in Ids
        /\ state'[i] \in {"waiting", "starting", "active", "stopping"}
    BY <1>1 DEF InUse
  <2>2. i # HOST
    BY <2>1, NAssumption DEF Ids, HOST
  <2>3. st[i] # "failed" /\ st[i] = state[i]
    BY <1>1, <2>1
  <2>4. i \in InUse
    BY <1>1, <2>1, <2>3 DEF InUse
  <2>5. plan[i] # NoPlan
    BY <2>4 DEF WiredInv, PlannedInv
  <2>6. i \in InForce(st)
    BY <2>1, <2>3, <2>5 DEF InForce
  <2>7. plans[i] = plan[i]
    BY <2>2, <2>6 DEF PlansOf
  <2>8. dir'[i] = Directory(i, plan[i], plans)
    BY <1>1, <2>1, <2>5 DEF NewDirectory
  <2> QED BY <2>1, <2>2, <2>5, <2>6, <2>7, <2>8
<1>3. DOMAIN plans = InForce(st)
  BY DEF PlansOf
<1>4. DOMAIN Catalogue(plans) = Declared(plans)
  BY DEF Catalogue
<1>5. /\ HOST \in InForce(st)
      /\ plans[HOST] = HostPlan
  BY DEF PlansOf, InForce
<1> HIDE DEF st, plans
<1>6. \A s, l \in InUse', e \in Events :
         <<e, l>> \in dir'[s].routes <=> /\ e \in Declared(plans)
                                         /\ e \in Sends(plan[s])
                                         /\ e \in plan[l].listen
  <2> SUFFICES ASSUME NEW s \in InUse', NEW l \in InUse', NEW e \in Events
               PROVE <<e, l>> \in dir'[s].routes <=> /\ e \in Declared(plans)
                                                 /\ e \in Sends(plan[s])
                                                 /\ e \in plan[l].listen
    OBVIOUS
  <2>1. /\ s \in DOMAIN plans /\ l \in DOMAIN plans
        /\ plans[s] = plan[s] /\ plans[l] = plan[l]
        /\ dir'[s] = Directory(s, plan[s], plans)
    BY <1>2, <1>3
  <2> QED BY <1>4, <2>1 DEF Directory
<1>7. \A s, l \in InUse', e \in Events :
         <<s, e>> \in dir'[l].accept <=> /\ e \in Declared(plans)
                                         /\ e \in Sends(plan[s])
                                         /\ e \in plan[l].listen
  <2> SUFFICES ASSUME NEW s \in InUse', NEW l \in InUse', NEW e \in Events
               PROVE <<s, e>> \in dir'[l].accept <=> /\ e \in Declared(plans)
                                                 /\ e \in Sends(plan[s])
                                                 /\ e \in plan[l].listen
    OBVIOUS
  <2>1. /\ s \in DOMAIN plans /\ l \in DOMAIN plans
        /\ plans[s] = plan[s] /\ plans[l] = plan[l]
        /\ dir'[l] = Directory(l, plan[l], plans)
    BY <1>2, <1>3
  <2> QED BY <1>4, <2>1 DEF Directory
<1>8. Agree(InUse)'
  BY <1>6, <1>7 DEF Agree
<1>9. Complete(InUse)'
  <2> SUFFICES ASSUME NEW s \in InUse', NEW l \in InUse', NEW e \in Events,
                      e \in Sends(plan[s]), e \in plan[l].listen,
                      \/ e \in HostPlan.events
                      \/ \E d \in InUse' : e \in plan[d].events
               PROVE <<e, l>> \in dir'[s].routes
    BY <1>1 DEF Complete
  <2>1. e \in Declared(plans)
    BY <1>2, <1>3, <1>5 DEF Declared
  <2> QED BY <2>1, <1>6
<1>10. Listed(InUse)'
  <2> SUFFICES ASSUME NEW l \in InUse', NEW e \in plan[l].listen
               PROVE l \in listeners'[e]
    BY <1>1 DEF Listed
  <2>1. e \in Events
    BY <1>2 DEF TypeOK, Plan
  <2> QED BY <1>1, <1>2, <1>3, <2>1 DEF Listeners
<1>11. PlannedInv'
  BY <1>1, <1>2 DEF PlannedInv
<1>12. Agree(Serves)'
  <2>1. Serves' \subseteq InUse'
    BY DEF Serves, InUse
  <2> QED BY <1>8, <2>1 DEF Agree
<1> QED BY <1>8, <1>9, <1>10, <1>11, <1>12 DEF WiredInv

\* reconcile keeps only running slots, with the directories they had; what it
\* planned anew waits for the rewiring.
LEMMA WiredRebuild == ASSUME TypeOK, IInv, WiredInv, RebuildSlots PROVE WiredInv'
<1> USE MapsOfType, NoPidIsNone DEF Maps
<1>1. stage' = "rewire"
  BY DEF RebuildSlots
<1>2. \A i \in Ids : running[i] # NoPid <=> state[i] = "active"
  BY DEF IInv, SlotInv
<1>3. \A i \in Ids : running[i] = NoPid =>
                        state'[i] \in {"none", "disabled", "failed", "waiting"}
  BY DEF RebuildSlots
<1>4. PlannedInv'
  <2> SUFFICES ASSUME NEW i \in Ids,
                      state'[i] \in {"waiting", "starting", "active", "stopping"}
               PROVE fresh[i].plan # NoPlan
    BY <1>1 DEF PlannedInv, InUse, RebuildSlots
  <2>1. CASE running[i] # NoPid
    BY <2>1 DEF RebuildSlots, AllStopped, IInv, StageInv
  <2>2. CASE running[i] = NoPid
    BY <2>2 DEF RebuildSlots
  <2> QED BY <2>1, <2>2
<1>5. \A i \in Serves' : i \in Serves /\ dir'[i] = dir[i]
  <2> SUFFICES ASSUME NEW i \in Ids, state'[i] = "active"
               PROVE state[i] = "active" /\ dir'[i] = dir[i]
    BY DEF Serves
  <2>1. running[i] # NoPid
    BY <1>3
  <2>2. fresh[i].plan # NoPlan
    BY <2>1 DEF RebuildSlots, AllStopped, IInv, StageInv
  <2> QED BY <1>2, <2>1, <2>2 DEF RebuildSlots
<1>6. Agree(Serves)'
  BY <1>5 DEF WiredInv, Agree
<1> QED BY <1>1, <1>4, <1>6 DEF WiredInv

\* A replaced cartridge that goes on without being rewired was in use, with
\* the wiring its new plan has.
LEMMA WiredInstall ==
    ASSUME TypeOK, IInv, WiredInv, NEW i \in Ids, InstallPlan(i)
    PROVE WiredInv'
<1> USE MapsOfType, NoPidIsNone DEF Maps
<1>1. /\ stage = "stop" /\ kind = "replace"
      /\ stage' \in {"rewire", "push"}
      /\ UNCHANGED <<dir, listeners>>
      /\ IsFirst(i, queue)
      /\ todo = {}
  BY DEF InstallPlan, AllStopped
<1>2. \A j \in Ids : j # i => plan'[j] = plan[j] /\ state'[j] = state[j]
  BY DEF InstallPlan, TypeOK
<1>3. \/ state'[i] = "failed" /\ plan' = plan
      \/ /\ state'[i] = "waiting"
         /\ plan'[i] = fresh[i].plan
         /\ fresh[i].plan # NoPlan
         /\ stage' = IF NeedsRewire(i, fresh[i].plan) THEN "rewire" ELSE "push"
  BY DEF InstallPlan, TypeOK
<1>4. \A j \in Ids : j \in InUse' /\ j # i => j \in InUse
  BY <1>1, <1>2 DEF InUse
<1>5. PlannedInv'
  <2> SUFFICES ASSUME NEW j \in InUse' PROVE plan'[j] # NoPlan
    BY DEF PlannedInv
  <2>1. j \in Ids
    BY DEF InUse
  <2>2. CASE j # i
    BY <1>2, <1>4, <2>1, <2>2 DEF WiredInv, PlannedInv
  <2>3. CASE j = i
    <3>1. state'[i] # "failed"
      BY <1>1, <2>3 DEF InUse
    <3> QED BY <1>3, <2>3, <3>1
  <2> QED BY <2>2, <2>3
<1>6. Serves' \subseteq Serves
  BY <1>2, <1>3 DEF Serves
<1>7. Agree(Serves)'
  BY <1>1, <1>6 DEF WiredInv, Agree
<1>8. ASSUME stage' # "rewire"
      PROVE Agree(InUse)' /\ Complete(InUse)' /\ Listed(InUse)'
  <2>1. Agree(InUse) /\ Complete(InUse) /\ Listed(InUse)
    BY <1>1 DEF WiredInv
  <2>2. \A j \in InUse' : /\ j \in InUse
                          /\ plan'[j].events = plan[j].events
                          /\ Sends(plan'[j]) = Sends(plan[j])
                          /\ plan'[j].listen = plan[j].listen
    <3> SUFFICES ASSUME NEW j \in InUse', j = i
                 PROVE /\ j \in InUse
                       /\ plan'[j].events = plan[j].events
                       /\ Sends(plan'[j]) = Sends(plan[j])
                       /\ plan'[j].listen = plan[j].listen
      BY <1>2, <1>4 DEF InUse
    <3>1. state'[i] # "failed"
      BY <1>1 DEF InUse
    <3>2. ~NeedsRewire(i, fresh[i].plan) /\ plan'[i] = fresh[i].plan
      BY <1>3, <1>8, <3>1
    <3>3. /\ wasActive
          /\ WiringOf(plan'[i]) = WiringOf(plan[i])
      BY <3>2 DEF NeedsRewire
    <3> QED BY <1>1, <3>3 DEF InUse, WiringOf, Sends
  <2>3. Agree(InUse)'
    BY <1>1, <2>1, <2>2 DEF Agree
  <2>4. Complete(InUse)'
    <3> SUFFICES ASSUME NEW s \in InUse', NEW l \in InUse', NEW e \in Events,
                        e \in Sends(plan'[s]), e \in plan'[l].listen,
                        \/ e \in HostPlan.events
                        \/ \E d \in InUse' : e \in plan'[d].events
                 PROVE <<e, l>> \in dir[s].routes
      BY <1>1 DEF Complete
    <3>1. /\ e \in Sends(plan[s]) /\ e \in plan[l].listen
          /\ \/ e \in HostPlan.events
             \/ \E d \in InUse : e \in plan[d].events
      BY <2>2
    <3> QED BY <2>1, <2>2, <3>1 DEF Complete
  <2>5. Listed(InUse)'
    BY <1>1, <2>1, <2>2 DEF Listed
  <2> QED BY <2>3, <2>4, <2>5
<1> QED BY <1>5, <1>7, <1>8 DEF WiredInv

LEMMA WiredStep == TypeOK /\ IInv /\ WiredInv /\ [Next]_vars => WiredInv'
<1> SUFFICES ASSUME TypeOK, IInv, WiredInv, [Next]_vars PROVE WiredInv'
  OBVIOUS
<1> USE MapsOfType, NoPidIsNone DEF Maps, slots, procs, operation
<1>1. CASE RebuildSlots \/ Rewire \/ \E i \in Ids : InstallPlan(i)
  BY <1>1, WiredRebuild, WiredRewire, WiredInstall
<1>2. CASE Reconcile \/ ReplaceChanged \/ Stop \/ \E i \in Ids : Replace(i)
  <2>1. /\ UNCHANGED <<dir, plan, listeners, state, wasActive>>
        /\ stage = "idle" /\ ~ (stage' = "stop" /\ kind' = "replace")
    BY <1>2 DEF Reconcile, ReplaceChanged, Stop, Replace, Begin
  <2> QED BY <2>1, WiredKept DEF InUse
<1>3. ASSUME NEW i \in Ids, PlanNext(i) PROVE WiredInv'
  <2>1. /\ UNCHANGED <<dir, plan, listeners, state, queue>>
        /\ stage = "plan" /\ IsFirst(i, queue)
        /\ wasActive' = (state[i] = "active")
    BY <1>3 DEF PlanNext
  <2>2. \A j \in Ids : IsFirst(j, queue)' => j = i
    BY <2>1, FirstIsOne DEF TypeOK, IsFirst
  <2> QED BY <2>1, <2>2, WiredKept DEF InUse
<1>4. ASSUME NEW i \in Ids, StopTake(i) PROVE WiredInv'
  <2>1. /\ UNCHANGED <<dir, plan, listeners, stage, kind, wasActive, queue>>
        /\ stage = "stop"
    BY <1>4 DEF StopTake
  <2>2. \A j \in Ids : \/ state'[j] = state[j]
                       \/ state[j] = "active" /\ state'[j] = "stopping"
    <3>1. running[i] # NoPid => state[i] = "active"
      BY DEF IInv, SlotInv
    <3>2. state' = state \/ (running[i] # NoPid
                             /\ state' = [state EXCEPT ![i] = "stopping"])
      BY <1>4 DEF StopTake
    <3>3. state \in [Ids -> States]
      OBVIOUS
    <3> QED BY <3>1, <3>2, <3>3
  <2>3. InUse' \subseteq InUse
    BY <2>1, <2>2 DEF InUse, IsFirst
  <2> QED BY <2>1, <2>3, WiredKept
<1>5. CASE \/ \E i \in Ids : Push(i) \/ NodeStopped(i) \/ StopDone(i)
           \/ \E i \in Ids : Spawn(i) \/ Applied(i) \/ LaunchFails(i) \/ Edit(i)
           \/ \E p \in Pids : Unlink(p) \/ TakeLate(p) \/ Exit(p)
           \/ UNCHANGED vars
  <2>1. UNCHANGED <<dir, plan, listeners, state, stage, kind, wasActive, queue>>
    BY <1>5 DEF Push, NodeStopped, StopDone, Spawn, Applied, LaunchFails, Edit,
       Unlink, TakeLate, Exit, vars
  <2> QED BY <2>1, WiredKept DEF InUse, Serves, IsFirst
<1>6. CASE FinishStop \/ StartWave \/ NothingReady \/ WaveDone
  <2>1. /\ UNCHANGED <<dir, plan, listeners>>
        /\ stage # "rewire" /\ stage' # "stop"
    BY <1>6 DEF FinishStop, AllStopped, StartWave, NothingReady, Pushed, WaveDone
  <2>2. \A j \in Ids : state'[j] \in {"waiting", "starting", "active", "stopping"}
                         => state[j] \in {"waiting", "starting", "active", "stopping"}
    <3>1. CASE FinishStop \/ NothingReady
      BY <3>1 DEF FinishStop, NothingReady
    <3>2. CASE StartWave
      BY <3>2 DEF StartWave, Ready
    <3>3. CASE WaveDone
      BY <3>3 DEF WaveDone, IInv, SlotInv
    <3> QED BY <1>6, <3>1, <3>2, <3>3
  <2> QED BY <2>1, <2>2, WiredKept DEF InUse
<1>7. CASE \E p \in Pids : Report(p)
  <2>1. UNCHANGED <<dir, plan, listeners, stage, kind, wasActive, queue>>
    BY <1>7 DEF Report
  <2>2. \A j \in Ids : state'[j] = state[j] \/ state'[j] = "failed"
    BY <1>7 DEF Report, TypeOK
  <2>3. InUse' \subseteq InUse /\ Serves' \subseteq Serves
    BY <2>1, <2>2 DEF InUse, Serves, IsFirst
  <2> QED BY <2>1, <2>3, WiredKept
<1> QED
  BY <1>1, <1>2, <1>3, <1>4, <1>5, <1>6, <1>7
  DEF Next, HostStep, MonitorStep, NodeStep, Environment

LEMMA Wired == Spec => []WiredInv
BY WiredInit, WiredStep, StepsFit, PTL DEF Spec

\* However plans change and nodes come and go, between two active cartridges
\* the sender has a route exactly where the listener admits it.
THEOREM EdgesAgreeHolds == Spec => []EdgesAgree
<1>1. WiredInv => EdgesAgree
  BY DEF WiredInv, Agree, Serves, EdgesAgree, Active
<1> QED BY <1>1, Wired, PTL

\* Once an operation has ended, whoever may send a declared event has a route
\* to every active listener.
THEOREM EdgesCompleteHolds == Spec => []EdgesComplete
<1>1. WiredInv => EdgesComplete
  <2> SUFFICES ASSUME WiredInv, stage = "idle",
                      NEW s \in Active \ {HOST}, NEW l \in Active \ {HOST},
                      NEW e \in Events,
                      e \in Sends(plan[s]), e \in plan[l].listen,
                      \E d \in Active : e \in PlansOf(Active)[d].events
               PROVE <<e, l>> \in dir[s].routes
    BY DEF EdgesComplete
  <2>1. Complete(InUse)
    BY DEF WiredInv
  <2>2. s \in InUse /\ l \in InUse
    BY DEF Active, InUse
  <2>3. e \in HostPlan.events \/ \E d \in InUse : e \in plan[d].events
    BY DEF PlansOf, Active, InUse
  <2> QED BY <2>1, <2>2, <2>3 DEF Complete
<1> QED BY <1>1, Wired, PTL

\* When an operation ends, what still waits lacks an active listener of
\* something it needs: the last wave found nothing ready, and the listeners
\* it went by are those of the plans.
THEOREM SettledHolds == Spec => []Settled
<1>1. Init => Settled
  BY DEF Init, Settled
<1>2. TypeOK /\ IInv /\ WiredInv /\ Settled /\ [Next]_vars => Settled'
  <2> SUFFICES ASSUME TypeOK, IInv, WiredInv, Settled, [Next]_vars,
                      stage' = "idle", kind' # "stop",
                      NEW i \in Ids, state'[i] = "waiting"
               PROVE (\E e \in Required(plan[i]) :
                         \A j \in Active \ {HOST} : e \notin plan[j].listen)'
    BY DEF Settled
  <2> USE DEF slots, procs, operation
  <2>1. CASE NothingReady
    <3>1. /\ stage # "rewire" /\ state[i] = "waiting" /\ ~Ready(i)
          /\ UNCHANGED <<plan, state>>
      BY <2>1 DEF NothingReady, Pushed
    <3>2. plan[i] # NoPlan /\ Listed(InUse)
      BY <3>1 DEF WiredInv, PlannedInv, InUse
    <3>3. PICK e \in Required(plan[i]) : listeners[e] \cap Active = {}
      BY <3>1, <3>2 DEF Ready
    <3>4. \A j \in Active \ {HOST} : j \in InUse
      BY DEF Active, InUse
    <3>5. \A j \in Active \ {HOST} : e \notin plan[j].listen
      BY <3>2, <3>3, <3>4 DEF Listed
    <3>6. Active' = Active
      BY <3>1 DEF Active
    <3> QED BY <3>1, <3>5, <3>6
  <2>2. CASE \/ \E p \in Pids : Report(p) \/ Unlink(p) \/ TakeLate(p) \/ Exit(p)
             \/ \E j \in Ids : Edit(j)
             \/ UNCHANGED vars
    <3>1. /\ UNCHANGED <<stage, kind, plan>>
          /\ \A j \in Ids : state'[j] = state[j] \/ state'[j] = "failed"
      BY <2>2 DEF Report, Unlink, TakeLate, Exit, Edit, vars, TypeOK
    <3>2. state[i] = "waiting" /\ Active' \subseteq Active
      BY <3>1 DEF Active
    <3>3. PICK e \in Required(plan[i]) :
             \A j \in Active \ {HOST} : e \notin plan[j].listen
      BY <3>1, <3>2 DEF Settled
    <3> QED BY <3>1, <3>2, <3>3
  <2>3. CASE \E j \in Ids : \/ Push(j) \/ NodeStopped(j) \/ StopDone(j)
                            \/ Spawn(j) \/ Applied(j) \/ LaunchFails(j)
                            \/ StopTake(j)
    BY <2>3, MapsOfType, NoPidIsNone
    DEF Push, NodeStopped, StopDone, Spawn, Applied, LaunchFails, StopTake,
        IInv, StageInv, Maps
  <2>4. CASE \/ Reconcile \/ ReplaceChanged \/ Stop \/ Rewire \/ RebuildSlots
             \/ StartWave \/ WaveDone \/ FinishStop
             \/ \E j \in Ids : Replace(j) \/ PlanNext(j) \/ InstallPlan(j)
    BY <2>4 DEF Reconcile, ReplaceChanged, Stop, Replace, Begin, Rewire,
       RebuildSlots, StartWave, WaveDone, FinishStop, AllStopped, PlanNext,
       InstallPlan
  <2> QED
    BY <2>1, <2>2, <2>3, <2>4
    DEF Next, HostStep, MonitorStep, NodeStep, Environment
<1> QED BY <1>1, <1>2, StepsFit, Wired, PTL DEF Spec

-----------------------------------------------------------------------------
\* What the nodes were handed.

\* A launched node has the directory its wave began with until it runs for
\* its slot, and only one that once was slow has any on its way.
HandedInv ==
    /\ DOMAIN held = Pids /\ DOMAIN late = Pids
    /\ \A p \in Pids : late[p] # {} => p \in slow
    /\ \A i \in Ids :
          /\ wave[i].launch = "ok"
          /\ proc[wave[i].pid].phase = "up"
          /\ wave[i].pid \notin slow
          => held[wave[i].pid] = dir[i]
    /\ DirectoryDelivered

LEMMA HandedInit == Init => HandedInv
BY DEF Init, HandedInv, DirectoryDelivered

\* What hands out nothing, starts nothing and spares who was to be told.
LEMMA HandedKept ==
    ASSUME HandedInv, UNCHANGED <<held, late, slow, wave, dir>>,
           \A i \in Ids : running'[i] \in {running[i], NoPid},
           \A p \in Pids : proc'[p].phase = "up" => proc[p].phase = "up",
           running \in [Ids -> Pids \cup {NoPid}],
           wave \in [Ids -> [launch: Launches, pid: Pids \cup {NoPid}]],
           \A i \in Ids : wave[i].launch = "ok" => wave[i].pid # NoPid,
           stage # "push" \/ todo = {} \/ UNCHANGED <<stage, todo>>
    PROVE HandedInv'
<1>1. (\A i \in Ids :
          /\ wave[i].launch = "ok"
          /\ proc[wave[i].pid].phase = "up"
          /\ wave[i].pid \notin slow
          => held[wave[i].pid] = dir[i])'
  BY DEF HandedInv
<1>2. DirectoryDelivered'
  <2> SUFFICES ASSUME NEW i \in Ids, running'[i] # NoPid,
                      proc'[running'[i]].phase = "up", running'[i] \notin slow
               PROVE held[running'[i]] = dir[i] \/ (stage' = "push" /\ i \in todo')
    BY DEF DirectoryDelivered
  <2>1. /\ running'[i] = running[i] /\ running[i] \in Pids
        /\ proc[running[i]].phase = "up"
    OBVIOUS
  <2>2. held[running[i]] = dir[i] \/ (stage = "push" /\ i \in todo)
    BY <2>1 DEF HandedInv, DirectoryDelivered
  <2> QED BY <2>1, <2>2
<1> QED BY <1>1, <1>2 DEF HandedInv

LEMMA HandedPush ==
    ASSUME TypeOK, IInv, HandedInv, NEW i \in Ids, Push(i) PROVE HandedInv'
<1> USE MapsOfType, NoPidIsNone DEF Maps
<1> DEFINE p == running[i]
<1>1. /\ stage = "push" /\ todo' = todo \ {i}
      /\ UNCHANGED <<wave, dir, running, proc, stage>>
  BY DEF Push, slots
<1>2. \A j \in Ids : wave[j].launch = "no"
  BY <1>1 DEF IInv, StageInv
<1>3. \A j \in Ids : j # i /\ running[j] # NoPid => running[j] # p
  BY DEF IInv, HeldInv
<1>4. /\ DOMAIN held' = Pids /\ DOMAIN late' = Pids
      /\ \A q \in Pids : late'[q] # {} => q \in slow'
  BY DEF HandedInv, Push
<1>5. \A j \in Ids : j # i /\ running[j] # NoPid => held'[running[j]] = held[running[j]]
  BY <1>3 DEF HandedInv, Push
<1>6. \/ proc[p].phase # "up" \/ p = NoPid \/ held'[p] = dir[i] \/ p \in slow'
  BY DEF HandedInv, Push
<1>7. slow \subseteq slow'
  BY DEF Push
<1>8. DirectoryDelivered'
  <2> SUFFICES ASSUME NEW j \in Ids, running[j] # NoPid,
                      proc[running[j]].phase = "up", running[j] \notin slow'
               PROVE held'[running[j]] = dir[j] \/ j \in todo'
    BY <1>1 DEF DirectoryDelivered
  <2>1. CASE j = i
    BY <1>6, <2>1
  <2>2. CASE j # i
    BY <1>1, <1>5, <1>7, <2>2 DEF HandedInv, DirectoryDelivered
  <2> QED BY <2>1, <2>2
<1> QED BY <1>1, <1>2, <1>4, <1>8 DEF HandedInv

LEMMA HandedSpawn ==
    ASSUME TypeOK, IInv, HandedInv, NEW i \in Ids, Spawn(i) PROVE HandedInv'
<1> USE MapsOfType, NoPidIsNone DEF Maps
<1>1. PICK p \in FreePids :
         /\ proc' = [proc EXCEPT ![p] = [id |-> i, gen |-> gen[i],
                                         phase |-> "booting"]]
         /\ wave' = [wave EXCEPT ![i] = [launch |-> "booting", pid |-> p]]
         /\ late' = [late EXCEPT ![p] = {}]
         /\ slow' = slow \ {p}
  BY DEF Spawn
<1>2. UNCHANGED <<held, dir, running, stage, todo>>
  BY DEF Spawn, slots
<1>3. p \in Pids /\ \A j \in Ids : p # running[j] /\ p # wave[j].pid
  BY DEF FreePids
<1>4. \A q \in Pids : late'[q] # {} => q \in slow'
  BY <1>1, <1>3 DEF HandedInv
<1>5. (\A j \in Ids :
          /\ wave[j].launch = "ok"
          /\ proc[wave[j].pid].phase = "up"
          /\ wave[j].pid \notin slow
          => held[wave[j].pid] = dir[j])'
  <2> SUFFICES ASSUME NEW j \in Ids, wave'[j].launch = "ok",
                      proc'[wave'[j].pid].phase = "up", wave'[j].pid \notin slow'
               PROVE held[wave'[j].pid] = dir[j]
    BY <1>2
  <2>1. j # i /\ wave'[j] = wave[j]
    BY <1>1
  <2>2. wave[j].pid \in Pids /\ wave[j].pid # p
    BY <1>3, <2>1 DEF IInv, SlotInv
  <2>3. proc[wave[j].pid].phase = "up" /\ wave[j].pid \notin slow
    BY <1>1, <2>1, <2>2
  <2> QED BY <2>1, <2>3 DEF HandedInv
<1>6. DirectoryDelivered'
  <2> SUFFICES ASSUME NEW j \in Ids, running[j] # NoPid,
                      proc'[running[j]].phase = "up", running[j] \notin slow'
               PROVE held[running[j]] = dir[j] \/ (stage = "push" /\ j \in todo)
    BY <1>2 DEF DirectoryDelivered
  <2>1. running[j] \in Pids /\ running[j] # p
    BY <1>3
  <2>2. proc[running[j]].phase = "up" /\ running[j] \notin slow
    BY <1>1, <2>1
  <2> QED BY <2>2 DEF HandedInv, DirectoryDelivered
<1>7. DOMAIN held' = Pids /\ DOMAIN late' = Pids
  BY <1>1, <1>2 DEF HandedInv
<1> QED BY <1>4, <1>5, <1>6, <1>7 DEF HandedInv

LEMMA HandedApplied ==
    ASSUME TypeOK, IInv, HandedInv, NEW i \in Ids, Applied(i) PROVE HandedInv'
<1> USE MapsOfType, NoPidIsNone DEF Maps
<1> DEFINE p == wave[i].pid
<1>1. /\ wave[i].launch = "booting"
      /\ proc' = [proc EXCEPT ![p].phase = "up"]
      /\ held' = [held EXCEPT ![p] = dir[i]]
      /\ wave' = [wave EXCEPT ![i].launch = "ok"]
      /\ UNCHANGED <<dir, running, late, slow, stage, todo>>
  BY DEF Applied, slots
<1>2. /\ p \in Pids /\ proc[p].id = i /\ proc[p].phase = "booting"
      /\ running[i] = NoPid
  <2>1. p # NoPid /\ state[i] = "starting" /\ running[i] = NoPid
    BY <1>1 DEF IInv, SlotInv
  <2>2. p \in Pids
    BY <2>1
  <2>3. proc[p].id = i /\ proc[p].phase = "booting"
    BY <1>1, <2>1 DEF IInv, HeldInv
  <2> QED BY <2>1, <2>2, <2>3
<1>3. \A j \in Ids : j # i => p # wave[j].pid
  BY <1>2 DEF IInv, HeldInv
<1>4. \A j \in Ids : p # running[j]
  BY <1>2 DEF IInv, HeldInv
<1>5. (\A j \in Ids :
          /\ wave[j].launch = "ok"
          /\ proc[wave[j].pid].phase = "up"
          /\ wave[j].pid \notin slow
          => held[wave[j].pid] = dir[j])'
  <2> SUFFICES ASSUME NEW j \in Ids, wave'[j].launch = "ok",
                      proc'[wave'[j].pid].phase = "up", wave'[j].pid \notin slow
               PROVE held'[wave'[j].pid] = dir[j]
    BY <1>1
  <2>1. CASE j = i
    BY <1>1, <1>2, <2>1 DEF HandedInv
  <2>2. CASE j # i
    <3>1. wave'[j] = wave[j] /\ wave[j].pid \in Pids /\ wave[j].pid # p
      BY <1>1, <1>3, <2>2 DEF IInv, SlotInv
    <3>2. proc[wave[j].pid].phase = "up" /\ held'[wave[j].pid] = held[wave[j].pid]
      BY <1>1, <3>1 DEF HandedInv
    <3> QED BY <3>1, <3>2 DEF HandedInv
  <2> QED BY <2>1, <2>2
<1>6. DirectoryDelivered'
  <2> SUFFICES ASSUME NEW j \in Ids, running[j] # NoPid,
                      proc'[running[j]].phase = "up", running[j] \notin slow
               PROVE held'[running[j]] = dir[j] \/ (stage = "push" /\ j \in todo)
    BY <1>1 DEF DirectoryDelivered
  <2>1. running[j] \in Pids /\ running[j] # p
    BY <1>4
  <2>2. proc[running[j]].phase = "up" /\ held'[running[j]] = held[running[j]]
    BY <1>1, <2>1 DEF HandedInv
  <2> QED BY <2>2 DEF HandedInv, DirectoryDelivered
<1> QED BY <1>1, <1>5, <1>6 DEF HandedInv

LEMMA HandedWave == ASSUME TypeOK, IInv, HandedInv, WaveDone PROVE HandedInv'
<1> USE MapsOfType, NoPidIsNone DEF Maps
<1>1. /\ running' = [j \in Ids |-> IF wave[j].launch = "ok"
                                   THEN wave[j].pid ELSE running[j]]
      /\ \A j \in Ids : wave'[j].launch = "no"
      /\ stage = "launch"
      /\ UNCHANGED <<held, late, slow, proc, dir>>
  BY DEF WaveDone, procs, told
<1>2. DirectoryDelivered'
  <2> SUFFICES ASSUME NEW j \in Ids, running'[j] # NoPid,
                      proc[running'[j]].phase = "up", running'[j] \notin slow
               PROVE held[running'[j]] = dir[j]
    BY <1>1 DEF DirectoryDelivered
  <2>1. CASE wave[j].launch = "ok"
    BY <1>1, <2>1 DEF HandedInv
  <2>2. CASE wave[j].launch # "ok"
    BY <1>1, <2>2 DEF HandedInv, DirectoryDelivered
  <2> QED BY <2>1, <2>2
<1> QED BY <1>1, <1>2 DEF HandedInv

LEMMA HandedRewire == ASSUME TypeOK, IInv, HandedInv, Rewire PROVE HandedInv'
<1>1. /\ stage = "rewire" /\ stage' = "push"
      /\ todo' = Told(dir')
      /\ UNCHANGED <<held, late, slow, proc, wave, running>>
  BY DEF Rewire, procs, told
<1>2. \A j \in Ids : wave[j].launch = "no"
  BY <1>1 DEF IInv, StageInv
<1>3. DirectoryDelivered'
  <2> SUFFICES ASSUME NEW j \in Ids, running[j] # NoPid,
                      proc[running[j]].phase = "up", running[j] \notin slow
               PROVE held[running[j]] = dir'[j] \/ j \in todo'
    BY <1>1 DEF DirectoryDelivered
  <2>1. held[running[j]] = dir[j]
    BY <1>1 DEF HandedInv, DirectoryDelivered
  <2>2. j \in todo' \/ dir'[j] = dir[j]
    BY <1>1 DEF Told
  <2> QED BY <2>1, <2>2
<1> QED BY <1>1, <1>2, <1>3 DEF HandedInv

LEMMA HandedRebuild == ASSUME TypeOK, IInv, HandedInv, RebuildSlots PROVE HandedInv'
<1> USE MapsOfType, NoPidIsNone DEF Maps
<1>1. /\ stage = "stop"
      /\ UNCHANGED <<held, late, slow, proc, wave>>
      /\ \A j \in Ids : wave[j].launch = "no"
  BY DEF RebuildSlots, AllStopped, procs, told, IInv, StageInv
<1>2. \A j \in Ids : running'[j] # NoPid =>
                        running'[j] = running[j] /\ dir'[j] = dir[j]
  BY DEF RebuildSlots
<1>3. DirectoryDelivered'
  BY <1>1, <1>2 DEF HandedInv, DirectoryDelivered
<1> QED BY <1>1, <1>3 DEF HandedInv

LEMMA HandedTake ==
    ASSUME TypeOK, IInv, HandedInv, NEW p \in Pids, TakeLate(p) PROVE HandedInv'
<1> USE MapsOfType, NoPidIsNone DEF Maps
<1>1. PICK d \in late[p] : /\ held' = [held EXCEPT ![p] = d]
                           /\ late' = [late EXCEPT ![p] = @ \ {d}]
  BY DEF TakeLate
<1>2. UNCHANGED <<slow, proc, wave, running, dir, stage, todo>>
  BY DEF TakeLate, slots, operation
<1>3. p \in slow
  BY <1>1 DEF HandedInv
<1>4. \A q \in Pids : q # p => held'[q] = held[q]
  BY <1>1 DEF HandedInv
<1>5. (\A j \in Ids :
          /\ wave[j].launch = "ok"
          /\ proc[wave[j].pid].phase = "up"
          /\ wave[j].pid \notin slow
          => held[wave[j].pid] = dir[j])'
  <2> SUFFICES ASSUME NEW j \in Ids, wave[j].launch = "ok",
                      proc[wave[j].pid].phase = "up", wave[j].pid \notin slow
               PROVE held'[wave[j].pid] = dir[j]
    BY <1>2
  <2>1. wave[j].pid \in Pids /\ wave[j].pid # p
    BY <1>3 DEF IInv, SlotInv
  <2> QED BY <1>4, <2>1 DEF HandedInv
<1>6. DirectoryDelivered'
  <2> SUFFICES ASSUME NEW j \in Ids, running[j] # NoPid,
                      proc[running[j]].phase = "up", running[j] \notin slow
               PROVE held'[running[j]] = dir[j] \/ (stage = "push" /\ j \in todo)
    BY <1>2 DEF DirectoryDelivered
  <2>1. running[j] \in Pids /\ running[j] # p
    BY <1>3
  <2> QED BY <1>4, <2>1 DEF HandedInv, DirectoryDelivered
<1>7. /\ DOMAIN held' = Pids /\ DOMAIN late' = Pids
      /\ \A q \in Pids : late'[q] # {} => q \in slow
  BY <1>1 DEF HandedInv
<1> QED BY <1>2, <1>5, <1>6, <1>7 DEF HandedInv

LEMMA HandedStep == TypeOK /\ IInv /\ HandedInv /\ [Next]_vars => HandedInv'
<1> SUFFICES ASSUME TypeOK, IInv, HandedInv, [Next]_vars PROVE HandedInv'
  OBVIOUS
<1> USE MapsOfType, NoPidIsNone DEF Maps, slots, procs, told, operation
<1>1. CASE \/ RebuildSlots \/ Rewire \/ WaveDone
           \/ \E i \in Ids : Push(i) \/ Spawn(i) \/ Applied(i)
           \/ NodeStep
  BY <1>1, HandedRebuild, HandedRewire, HandedWave, HandedPush, HandedSpawn,
     HandedApplied, HandedTake DEF NodeStep
<1>2. \A i \in Ids : wave[i].launch = "ok" => wave[i].pid # NoPid
  BY DEF IInv, SlotInv
<1>3. CASE UNCHANGED vars
  BY <1>2, <1>3, HandedKept DEF vars
<1>4. CASE Reconcile \/ ReplaceChanged \/ Stop \/ \E i \in Ids : Replace(i)
  <2>1. stage = "idle" /\ UNCHANGED <<held, late, slow, wave, dir, running, proc>>
    BY <1>4 DEF Reconcile, ReplaceChanged, Stop, Replace, Begin
  <2> QED BY <1>2, <2>1, HandedKept
<1>5. CASE \/ \E i \in Ids : PlanNext(i) \/ InstallPlan(i) \/ Edit(i)
           \/ FinishStop \/ StartWave \/ NothingReady
  <2>1. CASE StartWave
    <3>1. /\ UNCHANGED <<held, late, slow, dir, running, proc>>
          /\ todo = {}
          /\ \A i \in Ids : wave'[i] = wave[i] \/ wave'[i].launch = "queued"
      BY <2>1 DEF StartWave, Pushed
    <3>2. DirectoryDelivered'
      BY <3>1 DEF HandedInv, DirectoryDelivered
    <3>3. (\A i \in Ids :
              /\ wave[i].launch = "ok"
              /\ proc[wave[i].pid].phase = "up"
              /\ wave[i].pid \notin slow
              => held[wave[i].pid] = dir[i])'
      BY <3>1 DEF HandedInv
    <3> QED BY <3>1, <3>2, <3>3 DEF HandedInv
  <2>2. CASE \/ \E i \in Ids : PlanNext(i) \/ InstallPlan(i) \/ Edit(i)
             \/ FinishStop \/ NothingReady
    <3>1. /\ UNCHANGED <<held, late, slow, wave, dir, running, proc>>
          /\ stage # "push" \/ todo = {} \/ UNCHANGED <<stage, todo>>
      BY <2>2 DEF PlanNext, InstallPlan, AllStopped, Edit, FinishStop,
         NothingReady, Pushed
    <3> QED BY <1>2, <3>1, HandedKept
  <2> QED BY <1>5, <2>1, <2>2
<1>6. CASE \E i \in Ids : StopTake(i) \/ StopDone(i) \/ NodeStopped(i)
  <2>1. UNCHANGED <<held, late, slow, wave, dir, stage>>
    BY <1>6 DEF StopTake, StopDone, NodeStopped
  <2>2. stage # "push" \/ UNCHANGED todo
    BY <1>6 DEF StopTake, StopDone, NodeStopped
  <2>3. \A i \in Ids : running'[i] \in {running[i], NoPid}
    BY <1>6 DEF StopTake, StopDone, NodeStopped
  <2>4. ASSUME NEW p \in Pids, proc'[p].phase = "up" PROVE proc[p].phase = "up"
    <3>1. CASE UNCHANGED proc
      BY <2>4, <3>1
    <3>2. ASSUME NEW i \in Ids, NodeStopped(i) PROVE proc[p].phase = "up"
      <4>1. PICK q \in Pids : proc' = [proc EXCEPT ![q].phase = "done"]
        BY <3>2 DEF NodeStopped
      <4> QED BY <2>4, <4>1
    <3> QED BY <1>6, <3>1, <3>2 DEF StopTake, StopDone
  <2> QED BY <1>2, <2>1, <2>2, <2>3, <2>4, HandedKept
<1>7. CASE \E i \in Ids : LaunchFails(i)
  <2>1. PICK i \in Ids : LaunchFails(i)
    BY <1>7
  <2>2. /\ UNCHANGED <<held, late, slow, dir, running, stage, todo>>
        /\ \A p \in Pids : proc'[p].phase = "up" => proc[p].phase = "up"
        /\ \A j \in Ids : wave'[j] = wave[j] \/ wave'[j].launch = "err"
    BY <2>1 DEF LaunchFails
  <2>3. DirectoryDelivered'
    BY <2>2 DEF HandedInv, DirectoryDelivered
  <2>4. (\A j \in Ids :
            /\ wave[j].launch = "ok"
            /\ proc[wave[j].pid].phase = "up"
            /\ wave[j].pid \notin slow
            => held[wave[j].pid] = dir[j])'
    BY <1>2, <2>2 DEF HandedInv
  <2> QED BY <2>2, <2>3, <2>4 DEF HandedInv
<1>8. CASE \E p \in Pids : Exit(p) \/ Report(p) \/ Unlink(p)
  <2>1. UNCHANGED <<held, late, slow, wave, dir, stage, todo>>
    BY <1>8 DEF Exit, Report, Unlink
  <2>2. \A i \in Ids : running'[i] \in {running[i], NoPid}
    BY <1>8 DEF Exit, Report, Unlink
  <2>3. \A p \in Pids : proc'[p].phase = "up" => proc[p].phase = "up"
    BY <1>8 DEF Exit, Report, Unlink
  <2> QED BY <1>2, <2>1, <2>2, <2>3, HandedKept
<1> QED
  BY <1>1, <1>3, <1>4, <1>5, <1>6, <1>7, <1>8
  DEF Next, HostStep, MonitorStep, Environment

\* A serving node that was never slow has the directory the host computed for
\* it last, or is about to be told.
THEOREM DirectoryDeliveredHolds == Spec => []DirectoryDelivered
<1>1. HandedInv => DirectoryDelivered
  BY DEF HandedInv
<1> QED BY <1>1, HandedInit, HandedStep, StepsFit, PTL DEF Spec

-----------------------------------------------------------------------------
\* Socket paths.

\* The process reached at the path of a cartridge is one of its own.
SocketInv ==
    /\ DOMAIN sock = Ids
    /\ \A i \in Ids : sock[i] # NoPid =>
          sock[i] \in Pids /\ proc[sock[i]].id = i /\ proc[sock[i]].phase = "up"

LEMMA SocketInit == Init => SocketInv
BY DEF Init, SocketInv

\* A path is cleared, or what it leads to stays as it was.
LEMMA SocketLost ==
    ASSUME SocketInv, DOMAIN sock' = Ids,
           \A i \in Ids : sock'[i] # NoPid =>
               sock'[i] = sock[i] /\ proc'[sock[i]] = proc[sock[i]]
    PROVE SocketInv'
BY DEF SocketInv

LEMMA SocketStep == TypeOK /\ IInv /\ SocketInv /\ [Next]_vars => SocketInv'
<1> SUFFICES ASSUME TypeOK, IInv, SocketInv, [Next]_vars PROVE SocketInv'
  OBVIOUS
<1> USE MapsOfType, NoPidIsNone DEF Maps, slots, procs, told, operation
<1>1. CASE UNCHANGED <<sock, proc>>
  BY <1>1, SocketLost DEF SocketInv
<1>2. ASSUME NEW i \in Ids, NodeStopped(i) PROVE SocketInv'
  <2>1. \A j \in Ids : j # i => sock[j] # draining[i]
    BY <1>2 DEF NodeStopped, SocketInv, IInv, HeldInv
  <2>2. /\ proc' = [proc EXCEPT ![draining[i]].phase = "done"]
        /\ sock' = [sock EXCEPT ![i] = NoPid]
    BY <1>2 DEF NodeStopped
  <2> QED BY <2>1, <2>2, SocketLost DEF SocketInv
<1>3. CASE FinishStop
  BY <1>3, SocketLost DEF FinishStop
<1>4. ASSUME NEW i \in Ids, Spawn(i) PROVE SocketInv'
  <2>1. PICK p \in FreePids :
           proc' = [proc EXCEPT ![p] = [id |-> i, gen |-> gen[i],
                                       phase |-> "booting"]]
    BY <1>4 DEF Spawn
  <2>2. \A j \in Ids : sock[j] # NoPid => sock[j] # p
    BY DEF FreePids, SocketInv
  <2>3. sock' = [sock EXCEPT ![i] = NoPid]
    BY <1>4 DEF Spawn
  <2> QED BY <2>1, <2>2, <2>3, SocketLost DEF SocketInv
<1>5. ASSUME NEW i \in Ids, Applied(i) PROVE SocketInv'
  <2> DEFINE p == wave[i].pid
  <2>1. /\ proc' = [proc EXCEPT ![p].phase = "up"]
        /\ sock' = [sock EXCEPT ![i] = p]
    BY <1>5 DEF Applied
  <2>2. p \in Pids /\ proc[p].id = i
    BY <1>5 DEF Applied, IInv, SlotInv, HeldInv
  <2> QED BY <2>1, <2>2 DEF SocketInv
<1>6. ASSUME NEW i \in Ids, LaunchFails(i) PROVE SocketInv'
  <2> DEFINE p == wave[i].pid
  <2>1. p # NoPid => proc[p].phase = "booting"
    BY <1>6 DEF LaunchFails, IInv, SlotInv, HeldInv
  <2>2. UNCHANGED sock /\ proc' = IF p = NoPid THEN proc
                                  ELSE [proc EXCEPT ![p].phase = "done"]
    BY <1>6 DEF LaunchFails
  <2>3. \A j \in Ids : sock[j] # NoPid => proc'[sock[j]] = proc[sock[j]]
    BY <2>1, <2>2 DEF SocketInv
  <2> QED BY <2>2, <2>3, SocketLost DEF SocketInv
<1>7. ASSUME NEW p \in Pids, Exit(p) PROVE SocketInv'
  <2>1. /\ proc' = [proc EXCEPT ![p].phase = "gone"]
        /\ sock' = [i \in Ids |-> IF sock[i] = p THEN NoPid ELSE sock[i]]
    BY <1>7 DEF Exit
  <2> QED BY <2>1, SocketLost DEF SocketInv
<1>8. ASSUME NEW p \in Pids, Report(p) PROVE SocketInv'
  <2>1. /\ proc' = [proc EXCEPT ![p].phase = "reaped"]
        /\ UNCHANGED sock
        /\ proc[p].phase = "gone"
    BY <1>8 DEF Report
  <2> QED BY <2>1, SocketLost DEF SocketInv
<1>9. ASSUME NEW p \in Pids, Unlink(p) PROVE SocketInv'
  <2>1. /\ proc' = [proc EXCEPT ![p].phase = "done"]
        /\ sock' = [sock EXCEPT ![proc[p].id] = NoPid]
        /\ proc[p].phase = "reaped"
    BY <1>9 DEF Unlink
  <2>2. \A j \in Ids : sock[j] # NoPid => proc'[sock[j]] = proc[sock[j]]
    BY <2>1 DEF SocketInv
  <2> QED BY <2>1, <2>2, SocketLost DEF SocketInv
<1> QED
  BY <1>1, <1>2, <1>3, <1>4, <1>5, <1>6, <1>7, <1>8, <1>9
  DEF Next, HostStep, MonitorStep, NodeStep, Environment, TakeLate, vars,
      Reconcile, Replace, ReplaceChanged, Stop, Edit, PlanNext, InstallPlan,
      Push, StopTake, StopDone, RebuildSlots, Rewire, StartWave, NothingReady,
      WaveDone

\* A serving node stays reachable at its path until it goes, or the monitor of
\* a predecessor that exited removes the path: launching and stopping clear
\* only the path of a cartridge whose node is not serving.
THEOREM SocketKeptHolds == Spec => SocketKept
<1> DEFINE Kept ==
       \A i \in Ids :
          sock[i] # NoPid /\ sock'[i] # sock[i] =>
              \/ proc'[sock[i]].phase # "up"
              \/ \E p \in Pids : proc[p].id = i /\ Unlink(p)
<1>1. TypeOK /\ IInv /\ SocketInv /\ [Next]_vars => Kept
  <2> SUFFICES ASSUME TypeOK, IInv, SocketInv, [Next]_vars,
                      NEW i \in Ids, sock[i] # NoPid, sock'[i] # sock[i],
                      proc'[sock[i]].phase = "up"
               PROVE \E p \in Pids : proc[p].id = i /\ Unlink(p)
    OBVIOUS
  <2> USE MapsOfType, NoPidIsNone DEF Maps, slots, procs, told, operation
  <2>1. /\ sock[i] \in Pids /\ proc[sock[i]].id = i /\ proc[sock[i]].phase = "up"
        /\ DOMAIN sock = Ids
    BY DEF SocketInv
  <2>2. sock[i] \in {running[i], draining[i], wave[i].pid}
    BY <2>1 DEF IInv, ProcInv, Holds
  <2>3. ASSUME NEW j \in Ids, NodeStopped(j) PROVE FALSE
    <3>1. /\ proc' = [proc EXCEPT ![draining[j]].phase = "done"]
          /\ sock' = [sock EXCEPT ![j] = NoPid]
          /\ draining[j] # NoPid
      BY <2>3 DEF NodeStopped
    <3>2. j = i
      BY <2>1, <3>1
    <3>3. draining[i] # NoPid /\ running[i] = NoPid /\ wave[i].pid = NoPid
      BY <3>1, <3>2 DEF IInv, SlotInv
    <3>4. sock[i] = draining[i]
      BY <2>2, <3>3
    <3> QED BY <2>1, <3>1, <3>2, <3>4
  <2>4. CASE FinishStop
    <3>1. running[i] = NoPid /\ draining[i] = NoPid /\ wave[i].pid = NoPid
      BY <2>4 DEF FinishStop, AllStopped, Quiet, IInv, StageInv, SlotInv
    <3> QED BY <2>2, <3>1
  <2>5. ASSUME NEW j \in Ids, Spawn(j) PROVE FALSE
    <3>1. j = i /\ wave[i].launch = "queued"
      BY <2>1, <2>5 DEF Spawn
    <3>2. running[i] = NoPid /\ draining[i] = NoPid /\ wave[i].pid = NoPid
      BY <3>1 DEF IInv, SlotInv
    <3> QED BY <2>2, <3>2
  <2>6. ASSUME NEW j \in Ids, Applied(j) PROVE FALSE
    <3>1. j = i /\ wave[i].launch = "booting"
      BY <2>1, <2>6 DEF Applied
    <3>2. /\ running[i] = NoPid /\ draining[i] = NoPid
          /\ proc[wave[i].pid].phase = "booting"
      BY <3>1 DEF IInv, SlotInv, HeldInv
    <3> QED BY <2>1, <2>2, <3>2
  <2>7. ASSUME NEW p \in Pids, Exit(p) PROVE FALSE
    <3>1. sock[i] = p /\ proc' = [proc EXCEPT ![p].phase = "gone"]
      BY <2>7 DEF Exit
    <3> QED BY <2>1, <3>1
  <2>8. ASSUME NEW p \in Pids, Unlink(p) PROVE proc[p].id = i
    BY <2>1, <2>8 DEF Unlink
  <2>9. \/ FinishStop
        \/ \E j \in Ids : NodeStopped(j) \/ Spawn(j) \/ Applied(j)
        \/ \E p \in Pids : Exit(p) \/ Unlink(p)
        \/ UNCHANGED sock
    BY DEF Next, HostStep, MonitorStep, NodeStep, Environment, TakeLate, vars,
       Reconcile, Replace, ReplaceChanged, Stop, Edit, PlanNext, InstallPlan,
       Push, StopTake, StopDone, RebuildSlots, Rewire, StartWave, NothingReady,
       WaveDone, LaunchFails, Report
  <2> QED BY <2>3, <2>4, <2>5, <2>6, <2>7, <2>8, <2>9
<1>2. Spec => []SocketInv
  BY SocketInit, SocketStep, StepsFit, PTL DEF Spec
<1> QED BY <1>1, <1>2, StepsFit, PTL DEF Spec, SocketKept
-----------------------------------------------------------------------------
(***************************************************************************)
(* Events (Dispatch).  A step of Dispatch is one of the lifecycle or leaves *)
(* its variables alone, so what is proved above holds of it too.           *)
(***************************************************************************)

CallRecord ==
    [stage: {"idle", "computed", "prepared", "asking", "done"},
     from: Everyone, gen: Nat, kind: {"bail", "gather"}, event: Events,
     listeners: SUBSET Ids, routes: SUBSET (Events \X Ids),
     result: {"none", "nobody", "rows", "answered", "raised", "declined"},
     current: BOOLEAN, served: BOOLEAN, alone: BOOLEAN]

LegRecord ==
    [stage: {"no", "connecting", "waiting", "over"}, outcome: Outcomes,
     gen: Nat, request: {"none", "sent", "running", "done"}, runs: Nat]

Typed ==
    /\ call \in [Calls -> CallRecord]
    /\ leg \in [Calls -> [Ids -> LegRecord]]
    /\ hostDir \in SUBSET (Events \X Ids)

\* The directories route events to participants, and a node that does not
\* serve yet has none on its way.
DirsInv ==
    /\ DOMAIN held = Pids /\ DOMAIN late = Pids
    /\ \A i \in Ids : dir[i].routes \subseteq Events \X Everyone
    /\ \A p \in Pids : /\ held[p].routes \subseteq Events \X Everyone
                       /\ \A d \in late[p] : d.routes \subseteq Events \X Everyone
                       /\ proc[p].phase = "booting" => late[p] = {}

-----------------------------------------------------------------------------
\* The composition is the one of Lifecycle: calls only look at it.

LEMMA StepOfComposition == [NextDispatch]_allVars => [Next]_vars
<1> USE DEF allVars, dispatch
<1>1. CallStep => UNCHANGED vars
  BY DEF CallStep, Send, HostSend, HostSets, HostPrepares, BailNext, Finish,
     Forget
<1>2. RequestStep => UNCHANGED vars
  <2> SUFFICES ASSUME NEW c \in Calls, NEW i \in Ids,
                      \/ Reach(c, i) \/ Unreached(c, i) \/ Arrive(c, i)
                      \/ Answer(c, i) \/ ConnectionLost(c, i) \/ TimeOut(c, i)
               PROVE UNCHANGED vars
    BY DEF RequestStep
  <2>1. \E l : LegStep(c, i, l)
    BY DEF Reach, Unreached, Arrive, Answer, ConnectionLost, TimeOut
  <2> QED BY <2>1 DEF LegStep
<1> QED BY <1>1, <1>2 DEF NextDispatch, CompositionStep

\* Sending events disturbs nothing the lifecycle promises.
THEOREM CompositionUndisturbed == SpecDispatch => Spec
<1>1. InitDispatch => Init
  BY DEF InitDispatch
<1> QED BY <1>1, StepOfComposition, PTL DEF SpecDispatch, Spec

LEMMA DirsInit == Init => DirsInv
BY DEF Init, DirsInv, NoDirectory

LEMMA DirsStep == TypeOK /\ IInv /\ DirsInv /\ [Next]_vars => DirsInv'
<1> SUFFICES ASSUME TypeOK, IInv, DirsInv, [Next]_vars PROVE DirsInv'
  OBVIOUS
<1> USE MapsOfType, NoPidIsNone DEF Maps, slots, procs, told, operation
<1>1. CASE UNCHANGED <<dir, held, late>> /\ \A p \in Pids :
              proc'[p].phase = "booting" => proc[p].phase = "booting"
  BY <1>1 DEF DirsInv
<1>2. CASE Rewire
  <2>1. \A i \in Ids : \A pl, plans :
           DOMAIN plans \subseteq Everyone =>
              Directory(i, pl, plans).routes \subseteq Events \X Everyone
    BY DEF Directory
  <2> DEFINE st == [i \in Ids |-> IF i \in Refused THEN "failed" ELSE state[i]]
             plans == PlansOf(InForce(st))
  <2>2. DOMAIN plans \subseteq Everyone
    BY DEF PlansOf, InForce, Everyone
  <2>3. dir' = [i \in Ids |-> NewDirectory(i, plans)] /\ UNCHANGED <<held, late, proc>>
    BY <1>2 DEF Rewire
  <2> HIDE DEF st, plans
  <2>4. \A i \in Ids : dir'[i].routes \subseteq Events \X Everyone
    BY <2>1, <2>2, <2>3 DEF NewDirectory, DirsInv
  <2> QED BY <2>3, <2>4 DEF DirsInv
<1>3. CASE RebuildSlots
  BY <1>3 DEF RebuildSlots, DirsInv, NoDirectory
<1>4. ASSUME NEW i \in Ids, Push(i) PROVE DirsInv'
  <2>1. UNCHANGED <<dir, proc>> /\ DOMAIN held' = Pids /\ DOMAIN late' = Pids
    BY <1>4 DEF Push, DirsInv
  <2>2. \A p \in Pids : held'[p] \in {held[p], dir[i]}
    BY <1>4 DEF Push, DirsInv
  <2>3. \A p \in Pids : \/ late'[p] = late[p]
                        \/ proc[p].phase = "up" /\ late'[p] = late[p] \cup {dir[i]}
    BY <1>4 DEF Push, DirsInv
  <2> QED BY <2>1, <2>2, <2>3 DEF DirsInv
<1>5. ASSUME NEW i \in Ids, Spawn(i) PROVE DirsInv'
  <2>1. PICK p \in FreePids :
           /\ proc' = [proc EXCEPT ![p] = [id |-> i, gen |-> gen[i],
                                           phase |-> "booting"]]
           /\ late' = [late EXCEPT ![p] = {}]
    BY <1>5 DEF Spawn
  <2>2. UNCHANGED <<dir, held>>
    BY <1>5 DEF Spawn
  <2> QED BY <2>1, <2>2 DEF DirsInv
<1>6. ASSUME NEW i \in Ids, Applied(i) PROVE DirsInv'
  <2>1. /\ proc' = [proc EXCEPT ![wave[i].pid].phase = "up"]
        /\ held' = [held EXCEPT ![wave[i].pid] = dir[i]]
        /\ UNCHANGED <<dir, late>>
    BY <1>6 DEF Applied
  <2> QED BY <2>1 DEF DirsInv
<1>7. ASSUME NEW p \in Pids, TakeLate(p) PROVE DirsInv'
  <2>1. PICK d \in late[p] : /\ held' = [held EXCEPT ![p] = d]
                             /\ late' = [late EXCEPT ![p] = @ \ {d}]
    BY <1>7 DEF TakeLate
  <2>2. UNCHANGED <<dir, proc>>
    BY <1>7 DEF TakeLate
  <2> QED BY <2>1, <2>2 DEF DirsInv
<1>8. CASE \/ \E i \in Ids : LaunchFails(i) \/ NodeStopped(i)
           \/ \E p \in Pids : Exit(p) \/ Report(p) \/ Unlink(p)
  <2>1. /\ UNCHANGED <<dir, held, late>>
        /\ \A p \in Pids : proc'[p].phase = "booting" => proc[p].phase = "booting"
    <3>1. CASE \E i \in Ids : LaunchFails(i)
      BY <3>1 DEF LaunchFails
    <3>2. CASE \E i \in Ids : NodeStopped(i)
      BY <3>2 DEF NodeStopped
    <3>3. CASE \E p \in Pids : Exit(p) \/ Report(p) \/ Unlink(p)
      BY <3>3 DEF Exit, Report, Unlink
    <3> QED BY <1>8, <3>1, <3>2, <3>3
  <2> QED BY <1>1, <2>1
<1>9. CASE \/ Reconcile \/ ReplaceChanged \/ Stop \/ StartWave \/ WaveDone
           \/ NothingReady \/ FinishStop \/ UNCHANGED vars
           \/ \E i \in Ids : \/ Replace(i) \/ Edit(i) \/ PlanNext(i)
                             \/ InstallPlan(i) \/ StopTake(i) \/ StopDone(i)
  <2>1. UNCHANGED <<dir, held, late, proc>>
    BY <1>9 DEF Reconcile, ReplaceChanged, Stop, StartWave, WaveDone,
       NothingReady, FinishStop, vars, Replace, Edit, PlanNext, InstallPlan,
       StopTake, StopDone
  <2> QED BY <1>1, <2>1
<1> QED
  BY <1>2, <1>3, <1>4, <1>5, <1>6, <1>7, <1>8, <1>9
  DEF Next, HostStep, MonitorStep, NodeStep, Environment

LEMMA Surroundings == SpecDispatch => [](TypeOK /\ IInv /\ WiredInv /\ DirsInv)
<1>1. Spec => []DirsInv
  BY DirsInit, DirsStep, StepsFit, PTL DEF Spec
<1> QED BY <1>1, CompositionUndisturbed, StepsFit, Wired, PTL

-----------------------------------------------------------------------------
\* Types.

LEMMA NoCallTyped == NoCall \in CallRecord /\ NoLeg \in LegRecord
BY AspToolAssumption
DEF NoCall, CallRecord, NoLeg, LegRecord, Outcomes, Everyone, HOST

\* What a step changes of a call leaves a call.
LEMMA CallUpdates ==
    ASSUME NEW r \in CallRecord,
           NEW s \in {"idle", "computed", "prepared", "asking", "done"}
    PROVE /\ [r EXCEPT !.stage = s, !.routes = {}] \in CallRecord
          /\ \A x \in {"none", "nobody", "rows", "answered", "raised", "declined"} :
                [r EXCEPT !.stage = s, !.result = x] \in CallRecord
          /\ \A A \in SUBSET Ids :
                [r EXCEPT !.stage = s, !.listeners = A] \in CallRecord
          /\ \A b \in BOOLEAN : [r EXCEPT !.alone = b] \in CallRecord
          /\ \A a, b \in BOOLEAN :
                [r EXCEPT !.current = a, !.served = b] \in CallRecord
<1>1. /\ [r EXCEPT !.stage = s, !.routes = {}] \in CallRecord
      /\ \A A \in SUBSET Ids :
            [r EXCEPT !.stage = s, !.listeners = A] \in CallRecord
  BY DEF CallRecord
<1>2. \A x \in {"none", "nobody", "rows", "answered", "raised", "declined"} :
         [r EXCEPT !.stage = s, !.result = x] \in CallRecord
  BY DEF CallRecord
<1>3. \A b \in BOOLEAN : [r EXCEPT !.alone = b] \in CallRecord
  BY DEF CallRecord
<1>4. \A a, b \in BOOLEAN : [r EXCEPT !.current = a, !.served = b] \in CallRecord
  BY DEF CallRecord
<1> QED BY <1>1, <1>2, <1>3, <1>4

LEMMA TypedInit == InitDispatch => Typed
BY NoCallTyped DEF InitDispatch, Typed

LEMMA FirstAskedTyped == \A k, L : FirstAsked(k, L) \in [Ids -> LegRecord]
BY NoCallTyped DEF FirstAsked, LegRecord

LEMMA LegTyped ==
    ASSUME Typed, NEW c \in Calls, NEW i \in Ids, NEW l \in LegRecord,
           LegStep(c, i, l)
    PROVE Typed'
BY DEF Typed, LegStep

\* What a request may turn into.
LEMMA LegOfStep ==
    ASSUME TypeOK, Typed, NEW c \in Calls, NEW i \in Ids,
           \/ Reach(c, i) \/ Unreached(c, i) \/ Arrive(c, i)
           \/ Answer(c, i) \/ ConnectionLost(c, i) \/ TimeOut(c, i)
    PROVE \E l \in LegRecord : LegStep(c, i, l)
<1>1. leg[c][i] \in LegRecord
  BY DEF Typed
<1>2. \A o \in Outcomes : /\ Over(leg[c][i], o) \in LegRecord
                          /\ Ended(leg[c][i], o) \in LegRecord
  BY <1>1 DEF Over, Ended, LegRecord
<1>3. CASE Reach(c, i)
  <2>1. PICK q \in Pids :
           \/ LegStep(c, i, [leg[c][i] EXCEPT !.stage = "waiting",
                                  !.gen = proc[q].gen, !.request = "sent"])
           \/ LegStep(c, i, Over(leg[c][i], "refused"))
    BY <1>3 DEF Reach
  <2>2. proc[q].gen \in Nat
    BY DEF TypeOK
  <2>3. [leg[c][i] EXCEPT !.stage = "waiting", !.gen = proc[q].gen,
                          !.request = "sent"] \in LegRecord
    BY <1>1, <2>2 DEF LegRecord
  <2> QED BY <1>2, <2>1, <2>3 DEF Outcomes
<1>4. CASE Unreached(c, i) \/ TimeOut(c, i)
  BY <1>2, <1>4 DEF Unreached, TimeOut, Outcomes
<1>5. CASE Arrive(c, i)
  <2> DEFINE l == leg[c][i]
  <2>1. [l EXCEPT !.request = "running", !.runs = @ + 1] \in LegRecord
    <3>1. l \in LegRecord /\ l.runs + 1 \in Nat
      BY <1>1 DEF LegRecord
    <3> HIDE DEF l
    <3>2. \A n \in Nat : [l EXCEPT !.request = "running", !.runs = n] \in LegRecord
      BY <3>1 DEF LegRecord
    <3> QED BY <3>1, <3>2
  <2>2. [Ended(leg[c][i], "refused") EXCEPT !.request = "done"] \in LegRecord
    <3>1. Ended(leg[c][i], "refused") \in LegRecord
      BY <1>2 DEF Outcomes
    <3> QED BY <3>1 DEF LegRecord
  <2> QED BY <1>5, <2>1, <2>2 DEF Arrive
<1>6. CASE Answer(c, i)
  <2>1. PICK o \in {"answered", "declined", "failed"} :
          LegStep(c, i, [Ended(leg[c][i], o) EXCEPT !.request = "done"])
    BY <1>6 DEF Answer
  <2>2. Ended(leg[c][i], o) \in LegRecord
    BY <1>2 DEF Outcomes
  <2>3. [Ended(leg[c][i], o) EXCEPT !.request = "done"] \in LegRecord
    BY <2>2 DEF LegRecord
  <2> QED BY <2>1, <2>3
<1>7. CASE ConnectionLost(c, i)
  <2>1. PICK read \in BOOLEAN :
          LegStep(c, i, [Over(leg[c][i], "unavailable") EXCEPT
                            !.request = IF @ = "sent" /\ ~read THEN "done"
                                                               ELSE @])
    BY <1>7 DEF ConnectionLost
  <2>2. Over(leg[c][i], "unavailable") \in LegRecord
    BY <1>2 DEF Outcomes
  <2>3. [Over(leg[c][i], "unavailable") EXCEPT
            !.request = IF @ = "sent" /\ ~read THEN "done" ELSE @] \in LegRecord
    BY <2>2 DEF LegRecord
  <2> QED BY <2>1, <2>3
<1> QED BY <1>3, <1>4, <1>5, <1>6, <1>7

LEMMA SendTyped ==
    ASSUME TypeOK, DirsInv, Typed, NEW c \in Calls, NEW p \in Pids, Send(c, p)
    PROVE Typed'
<1>1. PICK e \in {r[1] : r \in held[p].routes}, k \in {"bail", "gather"} :
         LET L == {j \in Ids : <<e, j>> \in held[p].routes} IN
          /\ call' = [call EXCEPT ![c] =
                [NoCall EXCEPT !.stage = "asking", !.from = proc[p].id,
                     !.gen = proc[p].gen, !.kind = k, !.event = e,
                     !.listeners = L, !.current = Delivered]]
          /\ leg' = [leg EXCEPT ![c] = FirstAsked(k, L)]
  BY DEF Send
<1> DEFINE L == {j \in Ids : <<e, j>> \in held[p].routes}
<1>2. e \in Events
  BY DEF DirsInv
<1>3. proc[p].id \in Everyone /\ proc[p].gen \in Nat
  BY DEF TypeOK
<1>4. Delivered \in BOOLEAN
  BY DEF Delivered
<1>5. [NoCall EXCEPT !.stage = "asking", !.from = proc[p].id,
                     !.gen = proc[p].gen, !.kind = k, !.event = e,
                     !.listeners = L, !.current = Delivered] \in CallRecord
  BY <1>2, <1>3, <1>4, NoCallTyped DEF CallRecord
<1>6. call' \in [Calls -> CallRecord]
  BY <1>1, <1>5 DEF Typed
<1>7. leg' \in [Calls -> [Ids -> LegRecord]]
  BY <1>1, FirstAskedTyped DEF Typed
<1>8. UNCHANGED hostDir
  BY DEF Send
<1> QED BY <1>6, <1>7, <1>8 DEF Typed

LEMMA HostSendTyped ==
    ASSUME TypeOK, Typed, NEW c \in Calls, HostSend(c) PROVE Typed'
<1> DEFINE declared == Declared(PlansOf(InForce(state) \ {HOST}))
           routes == {r \in declared \X Ids : r[2] \in ServedBy(r[1])}
           others == {d \in Calls : call[d].stage \in {"computed", "prepared"}}
<1>1. PICK e \in Events \cap declared, k \in {"bail", "gather"} :
          call' = [d \in Calls |->
             IF d = c
             THEN [NoCall EXCEPT !.stage = "computed", !.kind = k,
                       !.event = e, !.routes = routes,
                       !.served = ServedBy(e) # {}, !.alone = others = {}]
             ELSE [call[d] EXCEPT !.alone = @ /\ d \notin others]]
  BY DEF HostSend
<1>2. declared \subseteq Events
  <2>1. \A i \in InForce(state) \ {HOST} : plan[i] \in Plan
    BY DEF InForce, TypeOK
  <2> QED BY <2>1 DEF Declared, PlansOf, Plan
<1>3. routes \in SUBSET (Events \X Ids)
  BY <1>2
<1>4. \A served, alone \in BOOLEAN :
         [NoCall EXCEPT !.stage = "computed", !.kind = k, !.event = e,
              !.routes = routes, !.served = served, !.alone = alone] \in CallRecord
  BY <1>3, NoCallTyped DEF CallRecord
<1>5. \A d \in Calls, alone \in BOOLEAN :
         [call[d] EXCEPT !.alone = alone] \in CallRecord
  BY CallUpdates DEF Typed
<1> HIDE DEF declared, routes, others
<1>6. call' \in [Calls -> CallRecord]
  BY <1>1, <1>4, <1>5
<1>7. UNCHANGED <<leg, hostDir>>
  BY DEF HostSend
<1> QED BY <1>6, <1>7 DEF Typed

LEMMA TypedStep == TypeOK /\ DirsInv /\ Typed /\ [NextDispatch]_allVars => Typed'
<1> SUFFICES ASSUME TypeOK, DirsInv, Typed, [NextDispatch]_allVars PROVE Typed'
  OBVIOUS
<1>1. CASE RequestStep
  BY <1>1, LegOfStep, LegTyped DEF RequestStep
<1>2. ASSUME NEW c \in Calls, \/ \E p \in Pids : Send(c, p)
                              \/ HostSend(c)
      PROVE Typed'
  BY <1>2, SendTyped, HostSendTyped
<1>3. ASSUME NEW c \in Calls, HostSets(c) PROVE Typed'
  <2>1. /\ hostDir' = call[c].routes
        /\ call' = [call EXCEPT ![c] = [@ EXCEPT !.stage = "prepared", !.routes = {}]]
        /\ UNCHANGED leg
    BY <1>3 DEF HostSets, Typed
  <2>2. call[c].routes \in SUBSET (Events \X Ids)
    BY DEF Typed, CallRecord
  <2> QED BY <2>1, <2>2, CallUpdates DEF Typed
<1>4. ASSUME NEW c \in Calls, HostPrepares(c) PROVE Typed'
  <2> DEFINE L == {i \in Ids : <<call[c].event, i>> \in hostDir}
  <2>1. CASE L = {}
    <3>1. /\ call' = [call EXCEPT ![c] = [@ EXCEPT !.stage = "done", !.result = "nobody"]]
          /\ UNCHANGED <<leg, hostDir>>
      BY <1>4, <2>1 DEF HostPrepares, Typed
    <3> QED BY <3>1, CallUpdates DEF Typed
  <2>2. CASE L # {}
    <3>1. PICK A \in Asked(call[c].kind, L) :
             /\ call' = [call EXCEPT ![c].stage = "asking", ![c].listeners = A]
             /\ leg' = [leg EXCEPT ![c] = FirstAsked(call[c].kind, A)]
             /\ UNCHANGED hostDir
      BY <1>4, <2>2 DEF HostPrepares
    <3>2. A \in SUBSET Ids
      BY DEF Asked
    <3>3. call' \in [Calls -> CallRecord]
      <4>1. call' = [call EXCEPT ![c] = [@ EXCEPT !.stage = "asking", !.listeners = A]]
        BY <3>1 DEF Typed
      <4> QED BY <3>2, <4>1, CallUpdates DEF Typed
    <3>4. leg' \in [Calls -> [Ids -> LegRecord]]
      BY <3>1, FirstAskedTyped DEF Typed
    <3> QED BY <3>1, <3>3, <3>4 DEF Typed
  <2> QED BY <2>1, <2>2
<1>5. ASSUME NEW c \in Calls, BailNext(c) PROVE Typed'
  <2>1. PICK i \in Ids : leg' = [leg EXCEPT ![c][i].stage = "connecting"]
    BY <1>5 DEF BailNext, Rest, Typed, CallRecord
  <2>2. [leg[c][i] EXCEPT !.stage = "connecting"] \in LegRecord
    <3>1. leg[c][i] \in LegRecord
      BY DEF Typed
    <3> QED BY <3>1 DEF LegRecord
  <2>3. leg' = [leg EXCEPT ![c] = [@ EXCEPT ![i] = [leg[c][i] EXCEPT !.stage = "connecting"]]]
    BY <2>1 DEF Typed
  <2>4. UNCHANGED <<call, hostDir>>
    BY <1>5 DEF BailNext
  <2> QED BY <2>2, <2>3, <2>4 DEF Typed
<1>6. ASSUME NEW c \in Calls, Finish(c) PROVE Typed'
  <2>1. PICK r \in {"rows", "answered", "raised", "declined"} :
          call' = [call EXCEPT ![c].stage = "done", ![c].result = r]
    BY <1>6 DEF Finish
  <2>2. UNCHANGED <<leg, hostDir>>
    BY <1>6 DEF Finish
  <2>3. call' = [call EXCEPT ![c] = [@ EXCEPT !.stage = "done", !.result = r]]
    BY <2>1 DEF Typed
  <2> QED BY <2>2, <2>3, CallUpdates DEF Typed
<1>7. ASSUME NEW c \in Calls, Forget(c) PROVE Typed'
  BY <1>7, NoCallTyped DEF Forget, Typed
<1>8. CASE CompositionStep
  <2>1. \A c \in Calls, current, served \in BOOLEAN :
           [call[c] EXCEPT !.current = current, !.served = served] \in CallRecord
    BY CallUpdates DEF Typed
  <2>2. call' \in [Calls -> CallRecord]
    BY <1>8, <2>1 DEF CompositionStep
  <2> QED BY <1>8, <2>2 DEF CompositionStep, Typed
<1>9. CASE UNCHANGED allVars
  BY <1>9 DEF allVars, dispatch, Typed
<1> QED
  BY <1>1, <1>2, <1>3, <1>4, <1>5, <1>6, <1>7, <1>8, <1>9
  DEF NextDispatch, CallStep

-----------------------------------------------------------------------------
\* One request, and the order of a bail.

\* A request is handed over once: what has not run is not sent, on its way or
\* cut short, and only a listener that is done has declined.
LegOK(l) ==
    /\ l.stage = "over" <=> l.outcome # "none"
    /\ l.stage \in {"no", "connecting"} => l.request = "none"
    /\ l.stage = "waiting" => l.request \in {"sent", "running"}
    /\ l.request \in {"none", "sent"} => l.runs = 0
    /\ l.runs <= 1
    /\ l.outcome = "declined" => l.request = "done"

RequestsInv == \A c \in Calls, i \in Ids : LegOK(leg[c][i])

\* Nobody is asked before a call has its listeners, and of a bail nobody
\* before all that come earlier declined.
OrderInv ==
    \A c \in Calls :
        /\ call[c].stage \in {"idle", "computed", "prepared"} =>
              \A i \in Ids : leg[c][i].stage = "no"
        /\ call[c].kind = "bail" =>
              \A i, j \in Ids :
                 i < j /\ i \in call[c].listeners /\ leg[c][j].stage # "no"
                    => leg[c][i].outcome = "declined"

\* What a call keeps when only its view of the composition is noted.
LEMMA NotedOnly ==
    \A r \in CallRecord, a, b \in BOOLEAN :
        LET u == [r EXCEPT !.current = a, !.served = b]
            v == [r EXCEPT !.alone = a] IN
        /\ u.stage = r.stage /\ u.kind = r.kind /\ u.listeners = r.listeners
        /\ u.from = r.from /\ u.event = r.event /\ u.routes = r.routes
        /\ u.result = r.result /\ u.alone = r.alone
        /\ u.current = a /\ u.served = b
        /\ v.stage = r.stage /\ v.kind = r.kind /\ v.listeners = r.listeners
        /\ v.from = r.from /\ v.event = r.event /\ v.routes = r.routes
        /\ v.result = r.result /\ v.current = r.current /\ v.served = r.served
        /\ v.alone = a
BY DEF CallRecord

LEMMA OrderInit == InitDispatch => RequestsInv /\ OrderInv
BY DEF InitDispatch, RequestsInv, OrderInv, LegOK, NoCall, NoLeg

\* Every step of a request keeps it in order; a declined one stays declined.
LEMMA LegProgress ==
    ASSUME Typed, RequestsInv, NEW c \in Calls, NEW i \in Ids,
           \/ Reach(c, i) \/ Unreached(c, i) \/ Arrive(c, i)
           \/ Answer(c, i) \/ ConnectionLost(c, i) \/ TimeOut(c, i)
    PROVE \E l : /\ LegStep(c, i, l)
                 /\ LegOK(l)
                 /\ leg[c][i].stage # "no"
                 /\ leg[c][i].outcome = "declined" => l.outcome = "declined"
<1> DEFINE o == leg[c][i]
<1>1. o \in LegRecord /\ LegOK(o)
  BY DEF Typed, RequestsInv
<1>2. CASE Reach(c, i)
  <2>1. /\ o.stage = "connecting"
        /\ \E q \in Pids :
             \/ LegStep(c, i, [o EXCEPT !.stage = "waiting",
                                    !.gen = proc[q].gen, !.request = "sent"])
             \/ LegStep(c, i, Over(o, "refused"))
    BY <1>2 DEF Reach
  <2> HIDE DEF o
  <2>2. \A g : LegOK([o EXCEPT !.stage = "waiting", !.gen = g, !.request = "sent"])
    BY <1>1, <2>1 DEF LegOK, LegRecord
  <2>3. LegOK(Over(o, "refused"))
    BY <1>1, <2>1 DEF LegOK, LegRecord, Over
  <2>4. o.outcome # "declined"
    BY <1>1, <2>1 DEF LegOK
  <2> QED BY <2>1, <2>2, <2>3, <2>4 DEF o
<1>3. CASE Unreached(c, i) \/ TimeOut(c, i)
  <2>1. /\ o.stage \in {"connecting", "waiting"}
        /\ LegStep(c, i, Over(o, "unavailable")) \/ LegStep(c, i, Over(o, "timed_out"))
    BY <1>3 DEF Unreached, TimeOut
  <2> HIDE DEF o
  <2>2. LegOK(Over(o, "unavailable")) /\ LegOK(Over(o, "timed_out"))
    BY <1>1, <2>1 DEF LegOK, LegRecord, Over
  <2>3. o.outcome # "declined"
    BY <1>1, <2>1 DEF LegOK
  <2> QED BY <2>1, <2>2, <2>3 DEF o
<1>4. CASE Arrive(c, i)
  <2>1. /\ o.request = "sent"
        /\ \/ LegStep(c, i, [o EXCEPT !.request = "running", !.runs = @ + 1])
           \/ LegStep(c, i, [Ended(o, "refused") EXCEPT !.request = "done"])
    BY <1>4 DEF Arrive
  <2> HIDE DEF o
  <2>2. LegOK([o EXCEPT !.request = "running", !.runs = @ + 1])
    BY <1>1, <2>1 DEF LegOK, LegRecord
  <2>3. LegOK([Ended(o, "refused") EXCEPT !.request = "done"])
    BY <1>1, <2>1 DEF LegOK, LegRecord, Ended, Over
  <2>4. o.outcome # "declined" /\ o.stage # "no"
    BY <1>1, <2>1 DEF LegOK
  <2> QED BY <2>1, <2>2, <2>3, <2>4 DEF o
<1>5. CASE Answer(c, i)
  <2>1. /\ o.request = "running"
        /\ \E x \in {"answered", "declined", "failed"} :
             LegStep(c, i, [Ended(o, x) EXCEPT !.request = "done"])
    BY <1>5 DEF Answer
  <2> HIDE DEF o
  <2>2. \A x \in {"answered", "declined", "failed"} :
           LegOK([Ended(o, x) EXCEPT !.request = "done"])
    BY <1>1, <2>1 DEF LegOK, LegRecord, Ended, Over
  <2>3. o.outcome # "declined" /\ o.stage # "no"
    BY <1>1, <2>1 DEF LegOK
  <2> QED BY <2>1, <2>2, <2>3 DEF o
<1>6. CASE ConnectionLost(c, i)
  <2>1. /\ o.stage = "waiting"
        /\ \E read \in BOOLEAN :
             LegStep(c, i, [Over(o, "unavailable") EXCEPT
                               !.request = IF @ = "sent" /\ ~read THEN "done"
                                                                  ELSE @])
    BY <1>6 DEF ConnectionLost
  <2> HIDE DEF o
  <2>2. \A read \in BOOLEAN :
           LegOK([Over(o, "unavailable") EXCEPT
                     !.request = IF @ = "sent" /\ ~read THEN "done" ELSE @])
    BY <1>1, <2>1 DEF LegOK, LegRecord, Over
  <2>3. o.outcome # "declined"
    BY <1>1, <2>1 DEF LegOK
  <2> QED BY <2>1, <2>2, <2>3 DEF o
<1> QED BY <1>2, <1>3, <1>4, <1>5, <1>6

LEMMA OrderRequest ==
    ASSUME Typed, RequestsInv, OrderInv, RequestStep
    PROVE RequestsInv' /\ OrderInv'
<1>a. PICK c \in Calls, i \in Ids :
         \/ Reach(c, i) \/ Unreached(c, i) \/ Arrive(c, i)
         \/ Answer(c, i) \/ ConnectionLost(c, i) \/ TimeOut(c, i)
  BY DEF RequestStep
<1>1. PICK l :
         /\ LegStep(c, i, l)
         /\ LegOK(l)
         /\ leg[c][i].stage # "no"
         /\ leg[c][i].outcome = "declined" => l.outcome = "declined"
  BY <1>a, LegProgress
<1>2. UNCHANGED call /\ leg' = [leg EXCEPT ![c][i] = l]
  BY <1>1 DEF LegStep
<1>3. \A d \in Calls, j \in Ids :
         leg'[d][j] = IF d = c /\ j = i THEN l ELSE leg[d][j]
  BY <1>2 DEF Typed
<1>4. RequestsInv'
  BY <1>1, <1>3 DEF RequestsInv
<1>5. OrderInv'
  <2> SUFFICES ASSUME NEW d \in Calls
               PROVE /\ call[d].stage \in {"idle", "computed", "prepared"} =>
                            \A j \in Ids : leg'[d][j].stage = "no"
                     /\ call[d].kind = "bail" =>
                            \A j, k \in Ids :
                               j < k /\ j \in call[d].listeners /\ leg'[d][k].stage # "no"
                                  => leg'[d][j].outcome = "declined"
    BY <1>2 DEF OrderInv
  <2>1. \A j \in Ids : /\ leg'[d][j].stage # "no" => leg[d][j].stage # "no"
                       /\ leg[d][j].outcome = "declined"
                             => leg'[d][j].outcome = "declined"
    BY <1>1, <1>3
  <2> QED BY <2>1 DEF OrderInv
<1> QED BY <1>4, <1>5

\* The first of a bail is asked, with nobody before it.
LEMMA FirstOfBail ==
    ASSUME NEW L \in SUBSET Ids, NEW k
    PROVE LET f == FirstAsked(k, L) IN
          /\ \A i \in Ids : LegOK(f[i])
          /\ k = "bail" => \A i, j \in Ids :
                i < j /\ i \in L => f[j].stage = "no"
<1> DEFINE f == FirstAsked(k, L)
<1>1. \A i \in Ids : LegOK(f[i])
  BY DEF FirstAsked, LegOK, NoLeg
<1>2. ASSUME k = "bail", NEW i \in Ids, NEW j \in Ids, i < j, i \in L
      PROVE f[j].stage = "no"
  <2>1. ~IsFirst(j, L)
    BY <1>2, NAssumption DEF IsFirst, Ids
  <2> QED BY <1>2, <2>1 DEF FirstAsked, NoLeg
<1> QED BY <1>1, <1>2

LEMMA OrderBailNext ==
    ASSUME Typed, RequestsInv, OrderInv, NEW c \in Calls, BailNext(c)
    PROVE RequestsInv' /\ OrderInv'
<1>1. PICK n \in Rest(c) : /\ IsFirst(n, Rest(c))
                           /\ leg' = [leg EXCEPT ![c][n].stage = "connecting"]
  BY DEF BailNext
<1>2. /\ UNCHANGED call
      /\ call[c].stage = "asking"
      /\ Open(c) = {}
      /\ OutcomesOf(c) \subseteq {"none", "declined"}
  BY DEF BailNext, Settles
<1>3. n \in Ids /\ leg[c][n].stage = "no"
  BY DEF Rest, Typed, CallRecord
<1>4. \A d \in Calls, j \in Ids :
         leg'[d][j] = IF d = c /\ j = n
                      THEN [leg[c][n] EXCEPT !.stage = "connecting"] ELSE leg[d][j]
  BY <1>1, <1>3 DEF Typed
<1>5. LegOK([leg[c][n] EXCEPT !.stage = "connecting"])
  <2> DEFINE o == leg[c][n]
  <2>1. o \in LegRecord /\ LegOK(o) /\ o.stage = "no"
    BY <1>3 DEF Typed, RequestsInv
  <2> HIDE DEF o
  <2>2. LegOK([o EXCEPT !.stage = "connecting"])
    BY <2>1 DEF LegOK, LegRecord
  <2> QED BY <2>2 DEF o
<1>6. RequestsInv'
  BY <1>4, <1>5 DEF RequestsInv
<1>7. ASSUME NEW i \in Ids, i < n, i \in call[c].listeners
      PROVE leg[c][i].outcome = "declined"
  <2>1. i \notin Rest(c)
    BY <1>1, <1>3, <1>7, NAssumption DEF IsFirst, Ids
  <2>2. leg[c][i].stage \notin {"no", "connecting", "waiting"}
    BY <1>2, <1>7, <2>1 DEF Rest, Open
  <2>3. leg[c][i].stage = "over"
    BY <2>2 DEF Typed, LegRecord
  <2>4. leg[c][i].outcome # "none"
    BY <2>3 DEF RequestsInv, LegOK
  <2> QED BY <1>2, <1>7, <2>4 DEF OutcomesOf
<1>8. OrderInv'
  <2> SUFFICES ASSUME NEW d \in Calls
               PROVE /\ call[d].stage \in {"idle", "computed", "prepared"} =>
                            \A j \in Ids : leg'[d][j].stage = "no"
                     /\ call[d].kind = "bail" =>
                            \A j, k \in Ids :
                               j < k /\ j \in call[d].listeners /\ leg'[d][k].stage # "no"
                                  => leg'[d][j].outcome = "declined"
    BY <1>2 DEF OrderInv
  <2>1. CASE d # c
    BY <1>4, <2>1 DEF OrderInv
  <2>2. CASE d = c
    <3>1. \A j \in Ids : leg'[c][j].outcome = leg[c][j].outcome
      <4>1. [leg[c][n] EXCEPT !.stage = "connecting"].outcome = leg[c][n].outcome
        BY <1>3 DEF Typed, LegRecord
      <4> QED BY <1>4, <4>1
    <3>2. \A k \in Ids : leg'[c][k].stage # "no" => k = n \/ leg[c][k].stage # "no"
      BY <1>4
    <3> QED BY <1>2, <1>7, <2>2, <3>1, <3>2 DEF OrderInv
  <2> QED BY <2>1, <2>2
<1> QED BY <1>6, <1>8

\* A call that begins, and one that ends, keep the order.
LEMMA OrderCall ==
    ASSUME Typed, RequestsInv, OrderInv, CallStep
    PROVE RequestsInv' /\ OrderInv'
<1>1. PICK c \in Calls : \/ \E p \in Pids : Send(c, p)
                         \/ HostSend(c) \/ HostSets(c) \/ HostPrepares(c)
                         \/ BailNext(c) \/ Finish(c) \/ Forget(c)
  BY DEF CallStep
<1>2. CASE BailNext(c)
  BY <1>2, OrderBailNext
<1>3. ASSUME NEW L \in SUBSET Ids, NEW k,
             leg' = [leg EXCEPT ![c] = FirstAsked(k, L)],
             \A d \in Calls : d # c => call'[d] = call[d],
             call'[c].stage = "asking", call'[c].kind = k,
             call'[c].listeners = L
      PROVE RequestsInv' /\ OrderInv'
  <2>1. \A d \in Calls : leg'[d] = IF d = c THEN FirstAsked(k, L) ELSE leg[d]
    BY <1>3 DEF Typed
  <2>2. RequestsInv'
    BY <2>1, FirstOfBail DEF RequestsInv
  <2>3. OrderInv'
    <3> SUFFICES ASSUME NEW d \in Calls
                 PROVE /\ call'[d].stage \in {"idle", "computed", "prepared"} =>
                              \A i \in Ids : leg'[d][i].stage = "no"
                       /\ call'[d].kind = "bail" =>
                              \A i, j \in Ids :
                                 i < j /\ i \in call'[d].listeners /\ leg'[d][j].stage # "no"
                                    => leg'[d][i].outcome = "declined"
      BY DEF OrderInv
    <3>1. CASE d # c
      BY <1>3, <2>1, <3>1 DEF OrderInv
    <3>2. CASE d = c
      BY <1>3, <2>1, <3>2, FirstOfBail
    <3> QED BY <3>1, <3>2
  <2> QED BY <2>2, <2>3
<1>4. ASSUME NEW p \in Pids, Send(c, p) PROVE RequestsInv' /\ OrderInv'
  <2>1. PICK e \in {r[1] : r \in held[p].routes}, k \in {"bail", "gather"} :
         LET L == {j \in Ids : <<e, j>> \in held[p].routes} IN
          /\ call' = [call EXCEPT ![c] =
                [NoCall EXCEPT !.stage = "asking", !.from = proc[p].id,
                     !.gen = proc[p].gen, !.kind = k, !.event = e,
                     !.listeners = L, !.current = Delivered]]
          /\ leg' = [leg EXCEPT ![c] = FirstAsked(k, L)]
    BY <1>4 DEF Send
  <2> DEFINE L == {j \in Ids : <<e, j>> \in held[p].routes}
  <2>2. /\ call'[c].stage = "asking" /\ call'[c].kind = k /\ call'[c].listeners = L
        /\ \A d \in Calls : d # c => call'[d] = call[d]
    BY <2>1 DEF Typed, NoCall
  <2> QED BY <1>3, <2>1, <2>2
<1>5. CASE HostPrepares(c) /\ {i \in Ids : <<call[c].event, i>> \in hostDir} # {}
  <2> DEFINE L == {i \in Ids : <<call[c].event, i>> \in hostDir}
  <2>1. PICK A \in Asked(call[c].kind, L) :
           /\ call' = [call EXCEPT ![c].stage = "asking", ![c].listeners = A]
           /\ leg' = [leg EXCEPT ![c] = FirstAsked(call[c].kind, A)]
    BY <1>5 DEF HostPrepares
  <2>2. A \in SUBSET Ids
    BY DEF Asked
  <2>3. /\ call'[c].stage = "asking" /\ call'[c].kind = call[c].kind
        /\ call'[c].listeners = A
        /\ \A d \in Calls : d # c => call'[d] = call[d]
    BY <2>1 DEF Typed, CallRecord
  <2> QED BY <1>3, <2>1, <2>2, <2>3
<1>6. CASE Forget(c)
  <2>1. /\ \A d \in Calls : call'[d] = IF d = c THEN NoCall ELSE call[d]
        /\ \A d \in Calls : leg'[d] = IF d = c THEN [i \in Ids |-> NoLeg] ELSE leg[d]
    BY <1>6 DEF Forget, Typed
  <2>2. LegOK(NoLeg) /\ NoLeg.stage = "no"
    BY DEF LegOK, NoLeg
  <2>3. RequestsInv'
    BY <2>1, <2>2 DEF RequestsInv
  <2>4. OrderInv'
    BY <2>1, <2>2 DEF OrderInv
  <2> QED BY <2>3, <2>4
<1>7. CASE \/ HostSend(c) \/ HostSets(c) \/ Finish(c)
           \/ HostPrepares(c) /\ {i \in Ids : <<call[c].event, i>> \in hostDir} = {}
  <2>1. UNCHANGED leg
    BY <1>7 DEF HostSend, HostSets, Finish, HostPrepares
  <2>2. \A d \in Calls :
           \/ /\ call'[d].kind = call[d].kind
              /\ call'[d].listeners = call[d].listeners
              /\ call'[d].stage \in {"idle", "computed", "prepared"} =>
                    call[d].stage \in {"idle", "computed", "prepared"}
           \/ d = c /\ call[c].stage = "idle"
    <3>1. CASE HostSend(c)
      <4>1. \A d \in Calls : d # c => \E b \in BOOLEAN : call'[d] = [call[d] EXCEPT !.alone = b]
        BY <3>1 DEF HostSend
      <4>2. call[c].stage = "idle"
        BY <3>1 DEF HostSend
      <4>3. ASSUME NEW d \in Calls, d # c
            PROVE /\ call'[d].kind = call[d].kind
                  /\ call'[d].listeners = call[d].listeners
                  /\ call'[d].stage = call[d].stage
        <5>1. PICK b \in BOOLEAN : call'[d] = [call[d] EXCEPT !.alone = b]
          BY <4>1, <4>3
        <5>2. call[d] \in CallRecord
          BY DEF Typed
        <5> QED BY <5>1, <5>2, NotedOnly
      <4> QED BY <4>2, <4>3
    <3>2. CASE HostSets(c)
      BY <3>2 DEF HostSets, Typed, CallRecord
    <3>3. CASE Finish(c)
      BY <3>3 DEF Finish, Typed, CallRecord
    <3>4. CASE HostPrepares(c) /\ {i \in Ids : <<call[c].event, i>> \in hostDir} = {}
      BY <3>4 DEF HostPrepares, Typed, CallRecord
    <3> QED BY <1>7, <3>1, <3>2, <3>3, <3>4
  <2>3. OrderInv'
    BY <2>1, <2>2 DEF OrderInv
  <2> QED BY <2>1, <2>3 DEF RequestsInv
<1> QED BY <1>1, <1>2, <1>4, <1>5, <1>6, <1>7

LEMMA OrderStep ==
    Typed /\ RequestsInv /\ OrderInv /\ [NextDispatch]_allVars
        => RequestsInv' /\ OrderInv'
<1> SUFFICES ASSUME Typed, RequestsInv, OrderInv, [NextDispatch]_allVars
             PROVE RequestsInv' /\ OrderInv'
  OBVIOUS
<1>1. CASE CompositionStep \/ UNCHANGED allVars
  <2>1. UNCHANGED leg
    BY <1>1 DEF CompositionStep, allVars, dispatch
  <2>2. \A c \in Calls : UNCHANGED <<call[c].stage, call[c].kind, call[c].listeners>>
    <3>1. \A c \in Calls : \/ call'[c] = call[c]
                          \/ \E a, b \in BOOLEAN : call'[c] = [call[c] EXCEPT !.current = a, !.served = b]
      BY <1>1 DEF CompositionStep, allVars, dispatch
    <3> SUFFICES ASSUME NEW c \in Calls,
                        NEW a \in BOOLEAN, NEW b \in BOOLEAN,
                        call'[c] = [call[c] EXCEPT !.current = a, !.served = b]
                 PROVE UNCHANGED <<call[c].stage, call[c].kind, call[c].listeners>>
      BY <3>1
    <3>2. call[c] \in CallRecord
      BY DEF Typed
    <3> QED BY <3>2, NotedOnly
  <2> QED BY <2>1, <2>2 DEF RequestsInv, OrderInv
<1> QED BY <1>1, OrderRequest, OrderCall DEF NextDispatch

\* The inductive invariant of calls and their requests: a listener runs after
\* its request was sent, once, and a bail asks in the order of its listeners.
THEOREM RequestsInOrder == SpecDispatch => [](Typed /\ RequestsInv /\ OrderInv)
BY TypedInit, TypedStep, OrderInit, OrderStep, Surroundings, PTL DEF SpecDispatch

\* No listener is run twice for one event, however often its node is
\* reloaded and connections are lost.
THEOREM NotHandledTwiceHolds == SpecDispatch => []NotHandledTwice
<1>1. RequestsInv => NotHandledTwice
  BY DEF RequestsInv, LegOK, NotHandledTwice
<1> QED BY <1>1, RequestsInOrder, PTL

\* A listener of a bail runs only after all before it declined.
THEOREM AskedInOrderHolds == SpecDispatch => []AskedInOrder
<1>1. Typed /\ RequestsInv /\ OrderInv => AskedInOrder
  <2> SUFFICES ASSUME Typed, RequestsInv, OrderInv,
                      NEW c \in Calls, NEW i \in Ids, NEW j \in Ids,
                      call[c].kind = "bail", i < j, i \in call[c].listeners,
                      leg[c][j].runs > 0
               PROVE leg[c][i].outcome = "declined" /\ leg[c][i].request = "done"
    BY DEF AskedInOrder
  <2>1. leg[c][j].stage # "no"
    BY DEF RequestsInv, LegOK
  <2>2. leg[c][i].outcome = "declined"
    BY <2>1 DEF OrderInv
  <2> QED BY <2>2 DEF RequestsInv, LegOK
<1> QED BY <1>1, RequestsInOrder, PTL

-----------------------------------------------------------------------------
\* A sender with a current view.

\* Every node that starts or serves works with the directory computed last.
UpToDate ==
    \A p \in Pids :
        /\ proc[p].phase \in {"booting", "up"} =>
              \A d \in late[p] : d = dir[proc[p].id]
        /\ proc[p].phase = "up" => held[p] = dir[proc[p].id]

\* While a call's view is current, whoever it may ask is routed to, and
\* whoever was sent its request admits it.
CurrentOK(c) ==
    /\ call[c].stage \in {"asking", "done"}
    /\ call[c].from \in Ids
    /\ UpToDate
    /\ \A i \in call[c].listeners : <<call[c].event, i>> \in dir[call[c].from].routes
    /\ \A i \in Ids :
          /\ leg[c][i].stage # "no" => i \in call[c].listeners
          /\ leg[c][i].request = "sent"
                => <<call[c].from, call[c].event>> \in dir[i].accept
          /\ leg[c][i].outcome # "refused"

ViewInv == \A c \in Calls : call[c].current => CurrentOK(c)

\* A node that serves is that of a cartridge in use.
LEMMA UpInUse ==
    ASSUME TypeOK, IInv, NEW p \in Pids, proc[p].phase = "up"
    PROVE /\ proc[p].id \in Ids
          /\ proc[p].id \in InUse
          /\ stage = "rewire" => proc[p].id \in Serves
<1> USE MapsOfType, NoPidIsNone DEF Maps
<1> DEFINE i == proc[p].id
<1>1. i \in Ids /\ Holds(i, p)
  BY DEF IInv, ProcInv
<1>2. CASE running[i] = p
  <2>1. state[i] = "active"
    BY <1>1, <1>2 DEF IInv, SlotInv
  <2> QED BY <1>1, <2>1 DEF InUse, Serves
<1>3. CASE draining[i] = p
  <2>1. state[i] = "stopping" /\ stage = "stop"
    BY <1>1, <1>3 DEF IInv, SlotInv, StageInv
  <2> QED BY <1>1, <2>1 DEF InUse
<1>4. CASE wave[i].pid = p
  <2>1. wave[i].launch # "no"
    BY <1>1, <1>4 DEF IInv, SlotInv
  <2>2. state[i] = "starting" /\ stage = "launch"
    BY <1>1, <2>1 DEF IInv, SlotInv, StageInv
  <2> QED BY <1>1, <2>2 DEF InUse
<1> QED BY <1>1, <1>2, <1>3, <1>4 DEF Holds

\* So two nodes that serve see an edge between them alike.
LEMMA UpAgree ==
    ASSUME TypeOK, IInv, WiredInv, NEW p \in Pids, NEW q \in Pids,
           proc[p].phase = "up", proc[q].phase = "up", NEW e \in Events,
           <<e, proc[q].id>> \in dir[proc[p].id].routes
    PROVE <<proc[p].id, e>> \in dir[proc[q].id].accept
<1>1. CASE stage = "rewire"
  <2>1. proc[p].id \in Serves /\ proc[q].id \in Serves /\ Agree(Serves)
    BY <1>1, UpInUse DEF WiredInv
  <2> QED BY <2>1 DEF Agree
<1>2. CASE stage # "rewire"
  <2>1. proc[p].id \in InUse /\ proc[q].id \in InUse /\ Agree(InUse)
    BY <1>2, UpInUse DEF WiredInv
  <2> QED BY <2>1 DEF Agree
<1> QED BY <1>1, <1>2

\* As long as no directory changes, nobody falls behind.
LEMMA UpToDateStep ==
    ASSUME TypeOK, IInv, DirsInv, UpToDate, Next, dir' = dir
    PROVE UpToDate'
<1> USE MapsOfType, NoPidIsNone DEF Maps, slots, procs, told, operation
<1>1. ASSUME NEW i \in Ids, Push(i) PROVE UpToDate'
  <2>1. UNCHANGED proc
    BY <1>1 DEF Push
  <2>2. \A p \in Pids : held'[p] # held[p] \/ late'[p] # late[p] => p = running[i] /\ p # NoPid
    BY <1>1 DEF Push, DirsInv
  <2>3. running[i] # NoPid => proc[running[i]].id = i
    BY DEF IInv, HeldInv
  <2>4. \A p \in Pids : held'[p] \in {held[p], dir[i]} /\ late'[p] \subseteq late[p] \cup {dir[i]}
    BY <1>1 DEF Push, DirsInv
  <2> QED BY <2>1, <2>2, <2>3, <2>4 DEF UpToDate
<1>2. ASSUME NEW p \in Pids, TakeLate(p) PROVE UpToDate'
  <2>1. PICK d \in late[p] : /\ held' = [held EXCEPT ![p] = d]
                             /\ late' = [late EXCEPT ![p] = @ \ {d}]
    BY <1>2 DEF TakeLate
  <2>2. UNCHANGED proc
    BY <1>2 DEF TakeLate
  <2>3. proc[p].phase = "up" => d = dir[proc[p].id]
    BY <2>1 DEF UpToDate
  <2> QED BY <2>1, <2>2, <2>3 DEF UpToDate, DirsInv
<1>3. ASSUME NEW i \in Ids, Spawn(i) PROVE UpToDate'
  <2>1. PICK p \in FreePids :
           /\ proc' = [proc EXCEPT ![p] = [id |-> i, gen |-> gen[i],
                                           phase |-> "booting"]]
           /\ late' = [late EXCEPT ![p] = {}]
    BY <1>3 DEF Spawn
  <2>2. UNCHANGED held
    BY <1>3 DEF Spawn
  <2> QED BY <2>1, <2>2 DEF UpToDate, DirsInv
<1>4. ASSUME NEW i \in Ids, Applied(i) PROVE UpToDate'
  <2> DEFINE p == wave[i].pid
  <2>1. /\ proc' = [proc EXCEPT ![p].phase = "up"]
        /\ held' = [held EXCEPT ![p] = dir[i]]
        /\ UNCHANGED late
        /\ wave[i].launch = "booting"
    BY <1>4 DEF Applied
  <2>2. p \in Pids /\ proc[p].id = i /\ proc[p].phase = "booting"
    BY <2>1 DEF IInv, SlotInv, HeldInv
  <2> HIDE DEF p
  <2>3. \A q \in Pids : q # p => proc'[q] = proc[q] /\ held'[q] = held[q]
    BY <2>1 DEF DirsInv
  <2>4. proc'[p].id = i /\ held'[p] = dir[i]
    BY <2>1, <2>2 DEF DirsInv
  <2>5. \A d \in late[p] : d = dir[i]
    BY <2>2 DEF UpToDate
  <2> QED BY <2>1, <2>3, <2>4, <2>5 DEF UpToDate
<1>5. CASE /\ UNCHANGED <<held, late>>
           /\ \A p \in Pids : proc'[p].phase \in {"booting", "up"} => proc'[p] = proc[p]
  BY <1>5 DEF UpToDate
<1>6. CASE \E i \in Ids : LaunchFails(i) \/ NodeStopped(i)
  <2>1. UNCHANGED <<held, late>>
    BY <1>6 DEF LaunchFails, NodeStopped
  <2>2. \A p \in Pids : proc'[p].phase \in {"booting", "up"} => proc'[p] = proc[p]
    BY <1>6 DEF LaunchFails, NodeStopped
  <2> QED BY <1>5, <2>1, <2>2
<1>7. CASE \E p \in Pids : Exit(p) \/ Report(p) \/ Unlink(p)
  <2>1. UNCHANGED <<held, late>>
    BY <1>7 DEF Exit, Report, Unlink
  <2>2. \A p \in Pids : proc'[p].phase \in {"booting", "up"} => proc'[p] = proc[p]
    BY <1>7 DEF Exit, Report, Unlink
  <2> QED BY <1>5, <2>1, <2>2
<1>8. CASE \/ Reconcile \/ ReplaceChanged \/ Stop \/ StartWave \/ WaveDone
           \/ NothingReady \/ FinishStop \/ RebuildSlots \/ Rewire
           \/ \E i \in Ids : \/ Replace(i) \/ Edit(i) \/ PlanNext(i)
                             \/ InstallPlan(i) \/ StopTake(i) \/ StopDone(i)
  <2>1. UNCHANGED <<held, late, proc>>
    BY <1>8 DEF Reconcile, ReplaceChanged, Stop, StartWave, WaveDone,
       NothingReady, FinishStop, RebuildSlots, Rewire, Replace, Edit, PlanNext,
       InstallPlan, StopTake, StopDone
  <2> QED BY <1>5, <2>1
<1> QED
  BY <1>1, <1>2, <1>3, <1>4, <1>6, <1>7, <1>8
  DEF Next, HostStep, MonitorStep, NodeStep, Environment

\* What a request with a current view may turn into.
LEMMA CurrentRequest ==
    ASSUME TypeOK, IInv, WiredInv, Typed, RequestsInv, NEW c \in Calls,
           CurrentOK(c), NEW i \in Ids,
           \/ Reach(c, i) \/ Unreached(c, i) \/ Arrive(c, i)
           \/ Answer(c, i) \/ ConnectionLost(c, i) \/ TimeOut(c, i)
    PROVE \E l : /\ LegStep(c, i, l)
                 /\ l.outcome # "refused"
                 /\ leg[c][i].stage # "no"
                 /\ l.request = "sent" =>
                       <<call[c].from, call[c].event>> \in dir[i].accept
<1> DEFINE o == leg[c][i]
           admitted == <<call[c].from, call[c].event>> \in dir[i].accept
<1>1. /\ o \in LegRecord /\ LegOK(o)
      /\ o.outcome # "refused"
      /\ o.request = "sent" => admitted
      /\ call[c].from # HOST
      /\ call[c].event \in Events
  <2>1. o \in LegRecord /\ LegOK(o)
    BY DEF Typed, RequestsInv
  <2>2. o.outcome # "refused" /\ (o.request = "sent" => admitted)
    BY DEF CurrentOK
  <2>3. call[c].from # HOST
    BY NAssumption DEF CurrentOK, Ids, HOST
  <2>4. call[c].event \in Events
    BY DEF Typed, CallRecord
  <2> QED BY <2>1, <2>2, <2>3, <2>4
<1>2. CASE Reach(c, i)
  <2>1. PICK q \in Pids :
          /\ proc[q].phase = "up" /\ proc[q].id = i
          /\ \/ LegStep(c, i, [o EXCEPT !.stage = "waiting",
                                  !.gen = proc[q].gen, !.request = "sent"])
             \/ ~Knows(q, c)
    BY <1>2 DEF Reach
  <2>2. PICK p \in Pids : proc[p].phase = "up" /\ proc[p].id = call[c].from
    BY <1>1, <1>2 DEF Reach, SenderUp, Serving
  <2>3. i \in call[c].listeners /\ o.stage = "connecting"
    BY <1>2 DEF Reach, CurrentOK
  <2>4. admitted
    BY <1>1, <2>1, <2>2, <2>3, UpAgree DEF CurrentOK
  <2>5. held[q] = dir[i]
    BY <2>1 DEF CurrentOK, UpToDate
  <2>6. Knows(q, c)
    BY <2>4, <2>5 DEF Knows
  <2> HIDE DEF o
  <2>7. [o EXCEPT !.stage = "waiting", !.gen = proc[q].gen,
                  !.request = "sent"].outcome # "refused"
    BY <1>1 DEF LegRecord
  <2> QED BY <2>1, <2>3, <2>4, <2>6, <2>7 DEF o
<1>3. CASE Unreached(c, i) \/ TimeOut(c, i)
  <2>1. /\ o.stage \in {"connecting", "waiting"}
        /\ LegStep(c, i, Over(o, "unavailable")) \/ LegStep(c, i, Over(o, "timed_out"))
    BY <1>3 DEF Unreached, TimeOut
  <2> HIDE DEF o
  <2>2. \A x \in {"unavailable", "timed_out"} :
           Over(o, x).outcome = x /\ Over(o, x).request = o.request
    BY <1>1 DEF LegRecord, Over
  <2> QED BY <1>1, <2>1, <2>2 DEF o
<1>4. CASE Arrive(c, i)
  <2>1. PICK q \in Serving(i, o.gen) :
          IF Admits(q, c)
          THEN LegStep(c, i, [o EXCEPT !.request = "running", !.runs = @ + 1])
          ELSE LegStep(c, i, [Ended(o, "refused") EXCEPT !.request = "done"])
    BY <1>4 DEF Arrive
  <2>2. o.request = "sent"
    BY <1>4 DEF Arrive
  <2>3. held[q] = dir[i]
    BY DEF Serving, CurrentOK, UpToDate
  <2>4. Admits(q, c)
    BY <1>1, <2>2, <2>3 DEF Admits
  <2> HIDE DEF o
  <2>5. LET l == [o EXCEPT !.request = "running", !.runs = @ + 1] IN
           l.outcome = o.outcome /\ l.request = "running"
    BY <1>1 DEF LegRecord
  <2>6. o.stage # "no"
    BY <1>1, <2>2 DEF LegOK
  <2> QED BY <1>1, <2>1, <2>4, <2>5, <2>6 DEF o
<1>5. CASE Answer(c, i)
  <2>1. PICK x \in {"answered", "declined", "failed"} :
           LegStep(c, i, [Ended(o, x) EXCEPT !.request = "done"])
    BY <1>5 DEF Answer
  <2>2. o.request = "running"
    BY <1>5 DEF Answer
  <2> HIDE DEF o
  <2>3. LET l == [Ended(o, x) EXCEPT !.request = "done"] IN
           l.outcome \in {o.outcome, x} /\ l.request = "done"
    BY <1>1 DEF LegRecord, Ended, Over
  <2>4. o.stage # "no"
    BY <1>1, <2>2 DEF LegOK
  <2> QED BY <1>1, <2>1, <2>3, <2>4 DEF o
<1>6. CASE ConnectionLost(c, i)
  <2>1. PICK read \in BOOLEAN :
           LegStep(c, i, [Over(o, "unavailable") EXCEPT
                             !.request = IF @ = "sent" /\ ~read THEN "done" ELSE @])
    BY <1>6 DEF ConnectionLost
  <2>2. o.stage = "waiting"
    BY <1>6 DEF ConnectionLost
  <2> HIDE DEF o
  <2>3. LET l == [Over(o, "unavailable") EXCEPT
                     !.request = IF @ = "sent" /\ ~read THEN "done" ELSE @] IN
           l.outcome = "unavailable" /\ l.request \in {o.request, "done"}
    BY <1>1 DEF LegRecord, Over
  <2> QED BY <1>1, <2>1, <2>2, <2>3 DEF o
<1> QED BY <1>2, <1>3, <1>4, <1>5, <1>6

LEMMA ViewRequest ==
    ASSUME TypeOK, IInv, WiredInv, Typed, RequestsInv, ViewInv, RequestStep
    PROVE ViewInv'
<1>1. PICK c \in Calls, i \in Ids :
         \/ Reach(c, i) \/ Unreached(c, i) \/ Arrive(c, i)
         \/ Answer(c, i) \/ ConnectionLost(c, i) \/ TimeOut(c, i)
  BY DEF RequestStep
<1>2. \E l : LegStep(c, i, l)
  BY <1>1 DEF Reach, Unreached, Arrive, Answer, ConnectionLost, TimeOut
<1>3. UNCHANGED <<proc, held, late, dir, call>>
      /\ \A d \in Calls : d # c => leg'[d] = leg[d]
  BY <1>2 DEF LegStep, vars, slots, procs, told, Typed
<1>4. UpToDate => UpToDate'
  BY <1>3 DEF UpToDate
<1> SUFFICES ASSUME NEW d \in Calls, call[d].current PROVE CurrentOK(d)'
  BY <1>3 DEF ViewInv
<1>5. CurrentOK(d)
  BY DEF ViewInv
<1>6. CASE d # c
  BY <1>3, <1>4, <1>5, <1>6 DEF CurrentOK
<1>7. CASE d = c
  <2>1. PICK l : /\ LegStep(c, i, l)
                 /\ l.outcome # "refused"
                 /\ leg[c][i].stage # "no"
                 /\ l.request = "sent" =>
                       <<call[c].from, call[c].event>> \in dir[i].accept
    BY <1>1, <1>5, <1>7, CurrentRequest
  <2>2. \A j \in Ids : leg'[c][j] = IF j = i THEN l ELSE leg[c][j]
    BY <2>1 DEF LegStep, Typed
  <2>3. \A j \in Ids :
          /\ leg'[c][j].stage # "no" => j \in call[c].listeners
          /\ leg'[c][j].request = "sent"
                => <<call[c].from, call[c].event>> \in dir[j].accept
          /\ leg'[c][j].outcome # "refused"
    BY <1>5, <1>7, <2>1, <2>2 DEF CurrentOK
  <2> QED BY <1>3, <1>4, <1>5, <1>7, <2>3 DEF CurrentOK
<1> QED BY <1>6, <1>7

\* A sender whose view is current when it sends.
LEMMA ViewSend ==
    ASSUME TypeOK, IInv, DirsInv, Typed, NEW c \in Calls, NEW p \in Pids,
           Send(c, p), call'[c].current
    PROVE CurrentOK(c)'
<1>1. PICK e \in {r[1] : r \in held[p].routes}, k \in {"bail", "gather"} :
         LET L == {j \in Ids : <<e, j>> \in held[p].routes} IN
          /\ call' = [call EXCEPT ![c] =
                [NoCall EXCEPT !.stage = "asking", !.from = proc[p].id,
                     !.gen = proc[p].gen, !.kind = k, !.event = e,
                     !.listeners = L, !.current = Delivered]]
          /\ leg' = [leg EXCEPT ![c] = FirstAsked(k, L)]
  BY DEF Send
<1> DEFINE L == {j \in Ids : <<e, j>> \in held[p].routes}
<1>2. /\ call'[c].stage = "asking" /\ call'[c].from = proc[p].id
      /\ call'[c].event = e /\ call'[c].listeners = L
  BY <1>1 DEF Typed, NoCall
<1>3. call'[c].current = Delivered
  BY <1>1 DEF Typed, NoCall
<1>4. Delivered
  BY <1>3
<1>5. UNCHANGED <<proc, held, late, dir>> /\ proc[p].phase = "up"
  BY DEF Send, vars, slots, procs, told
<1>6. UpToDate'
  BY <1>4, <1>5 DEF Delivered, DirsInv, UpToDate
<1>7. proc[p].id \in Ids /\ held[p] = dir[proc[p].id]
  BY <1>4, <1>5 DEF IInv, ProcInv, Delivered
<1>8. leg'[c] = FirstAsked(k, L)
  BY <1>1 DEF Typed
<1> HIDE DEF L
<1>9. \A i \in Ids :
          /\ leg'[c][i].stage # "no" => i \in L
          /\ leg'[c][i].request = "none"
          /\ leg'[c][i].outcome = "none"
  BY <1>8 DEF FirstAsked, NoLeg
<1>10. \A i \in L : <<e, i>> \in dir[proc[p].id].routes
  BY <1>7 DEF L
<1> QED BY <1>2, <1>5, <1>6, <1>7, <1>9, <1>10 DEF CurrentOK, L

LEMMA ViewCall ==
    ASSUME TypeOK, IInv, DirsInv, Typed, RequestsInv, ViewInv, CallStep
    PROVE ViewInv'
<1>1. PICK c \in Calls : \/ \E p \in Pids : Send(c, p)
                         \/ HostSend(c) \/ HostSets(c) \/ HostPrepares(c)
                         \/ BailNext(c) \/ Finish(c) \/ Forget(c)
  BY DEF CallStep
<1>2. UNCHANGED <<proc, held, late, dir>>
  BY <1>1 DEF Send, HostSend, HostSets, HostPrepares, BailNext, Finish, Forget,
     vars, slots, procs, told
<1>3. UpToDate => UpToDate'
  BY <1>2 DEF UpToDate
<1> SUFFICES ASSUME NEW d \in Calls, call'[d].current PROVE CurrentOK(d)'
  BY DEF ViewInv
<1>4. ASSUME call[d].current,
             UNCHANGED <<call[d].from, call[d].event, call[d].listeners, leg[d]>>,
             call'[d].stage \in {"asking", "done"}
      PROVE CurrentOK(d)'
  <2>1. CurrentOK(d)
    BY <1>4 DEF ViewInv
  <2> QED BY <1>2, <1>3, <1>4, <2>1 DEF CurrentOK
<1>5. call[d].current => call[d].stage \in {"asking", "done"}
  BY DEF ViewInv, CurrentOK
<1>6. ASSUME NEW p \in Pids, Send(c, p) PROVE CurrentOK(d)'
  <2>1. CASE d = c
    BY <1>6, <2>1, ViewSend
  <2>2. CASE d # c
    BY <1>4, <1>5, <1>6, <2>2 DEF Send, Typed
  <2> QED BY <2>1, <2>2
<1>7. CASE HostSend(c)
  <2>1. d # c
    <3> SUFFICES ASSUME d = c PROVE FALSE
      OBVIOUS
    <3> DEFINE declared == Declared(PlansOf(InForce(state) \ {HOST}))
               routes == {r \in declared \X Ids : r[2] \in ServedBy(r[1])}
               others == {x \in Calls : call[x].stage \in {"computed", "prepared"}}
    <3>1. PICK e \in Events \cap declared, k \in {"bail", "gather"} :
             call'[c] = [NoCall EXCEPT !.stage = "computed", !.kind = k,
                            !.event = e, !.routes = routes,
                            !.served = ServedBy(e) # {}, !.alone = others = {}]
      BY <1>7 DEF HostSend
    <3> HIDE DEF declared, routes, others
    <3>2. call'[c].current = FALSE
      BY <3>1 DEF NoCall
    <3> QED BY <3>2
  <2>2. PICK b \in BOOLEAN : call'[d] = [call[d] EXCEPT !.alone = b]
    BY <1>7, <2>1 DEF HostSend
  <2>3. call[d] \in CallRecord /\ leg' = leg
    BY <1>7 DEF Typed, HostSend
  <2>4. /\ call'[d].current = call[d].current
        /\ UNCHANGED <<call[d].from, call[d].event, call[d].listeners, call[d].stage>>
    <3>1. /\ [call[d] EXCEPT !.alone = b].current = call[d].current
          /\ [call[d] EXCEPT !.alone = b].from = call[d].from
          /\ [call[d] EXCEPT !.alone = b].event = call[d].event
          /\ [call[d] EXCEPT !.alone = b].listeners = call[d].listeners
          /\ [call[d] EXCEPT !.alone = b].stage = call[d].stage
      BY <2>3 DEF CallRecord
    <3> QED BY <2>2, <3>1, Zenon
  <2>5. UNCHANGED leg[d]
    BY <2>3
  <2> QED BY <1>4, <1>5, <2>4, <2>5
<1>8. CASE HostSets(c)
  <2>1. call[c].stage = "computed" /\ leg' = leg
        /\ call'[c].current = call[c].current
    BY <1>8 DEF HostSets, Typed, CallRecord
  <2>2. d # c
    BY <1>5, <2>1
  <2>3. call'[d] = call[d]
    BY <1>8, <2>2 DEF HostSets, Typed
  <2> QED BY <1>4, <1>5, <2>1, <2>3
<1>9. CASE HostPrepares(c)
  <2>1. call[c].stage = "prepared" /\ call'[c].current = call[c].current
    <3>1. \/ call' = [call EXCEPT ![c].stage = "done", ![c].result = "nobody"]
          \/ \E A : call' = [call EXCEPT ![c].stage = "asking", ![c].listeners = A]
      BY <1>9 DEF HostPrepares
    <3>2. call[c] \in CallRecord
      BY DEF Typed
    <3>3. call'[c].current = call[c].current
      BY <3>1, <3>2 DEF Typed, CallRecord
    <3> QED BY <1>9, <3>3 DEF HostPrepares
  <2>2. d # c
    BY <1>5, <2>1
  <2>3. call'[d] = call[d] /\ leg'[d] = leg[d]
    BY <1>9, <2>2 DEF HostPrepares, Typed
  <2> QED BY <1>4, <1>5, <2>3
<1>10. CASE BailNext(c)
  <2>1. CASE d # c
    <3>1. call' = call /\ leg'[d] = leg[d]
      BY <1>10, <2>1 DEF BailNext, Typed
    <3> QED BY <1>4, <1>5, <3>1
  <2>2. CASE d = c
    <3>1. PICK n \in Rest(c) : leg' = [leg EXCEPT ![c][n].stage = "connecting"]
      BY <1>10 DEF BailNext
    <3>2. call' = call /\ CurrentOK(c)
      BY <1>10, <2>2 DEF BailNext, ViewInv
    <3>3. n \in call[c].listeners /\ n \in Ids
      BY DEF Rest, Typed, CallRecord
    <3>4. \A i \in Ids : /\ leg'[c][i].request = leg[c][i].request
                         /\ leg'[c][i].outcome = leg[c][i].outcome
                         /\ i # n => leg'[c][i].stage = leg[c][i].stage
      BY <3>1, <3>3 DEF Typed, LegRecord
    <3> QED BY <1>2, <1>3, <2>2, <3>2, <3>3, <3>4 DEF CurrentOK
  <2> QED BY <2>1, <2>2
<1>11. CASE Finish(c)
  <2>1. /\ leg' = leg
        /\ call'[d].current = call[d].current
        /\ UNCHANGED <<call[d].from, call[d].event, call[d].listeners>>
        /\ call'[d].stage \in {call[d].stage, "done"}
    <3>1. PICK r : call' = [call EXCEPT ![c].stage = "done", ![c].result = r]
      BY <1>11 DEF Finish
    <3>2. leg' = leg
      BY <1>11 DEF Finish
    <3>3. call \in [Calls -> CallRecord]
      BY DEF Typed
    <3> QED BY <3>1, <3>2, <3>3 DEF CallRecord
  <2> QED BY <1>4, <1>5, <2>1
<1>12. CASE Forget(c)
  <2>1. d # c
    BY <1>12 DEF Forget, NoCall, Typed
  <2>2. call'[d] = call[d] /\ leg'[d] = leg[d]
    BY <1>12, <2>1 DEF Forget, Typed
  <2> QED BY <1>4, <1>5, <2>2
<1> QED
  BY <1>1, <1>6, <1>7, <1>8, <1>9, <1>10, <1>11, <1>12

LEMMA ViewStep ==
    TypeOK /\ IInv /\ WiredInv /\ DirsInv /\ Typed /\ RequestsInv /\ ViewInv
        /\ [NextDispatch]_allVars => ViewInv'
<1> SUFFICES ASSUME TypeOK, IInv, WiredInv, DirsInv, Typed, RequestsInv, ViewInv,
                    [NextDispatch]_allVars
             PROVE ViewInv'
  OBVIOUS
<1>1. CASE CompositionStep
  <2> SUFFICES ASSUME NEW c \in Calls, call'[c].current PROVE CurrentOK(c)'
    BY DEF ViewInv
  <2>1. /\ leg' = leg
        /\ call'[c] = [call[c] EXCEPT
                         !.current = @ /\ dir' = dir,
                         !.served = @ /\ \E e \in {call[c].event} :
                                            ServedBy(e)' # {}]
    BY <1>1 DEF CompositionStep
  <2>2. call[c] \in CallRecord
    BY DEF Typed
  <2>3. PICK a \in BOOLEAN, b \in BOOLEAN :
           /\ call'[c] = [call[c] EXCEPT !.current = a, !.served = b]
           /\ a => call[c].current /\ dir' = dir
    BY <2>1
  <2>4. /\ call'[c].current = a
        /\ UNCHANGED <<call[c].from, call[c].event, call[c].listeners, call[c].stage>>
    BY <2>2, <2>3, NotedOnly
  <2>5. call[c].current /\ dir' = dir
    BY <2>3, <2>4
  <2>6. CurrentOK(c)
    BY <2>5 DEF ViewInv
  <2>7. UpToDate'
    BY <1>1, <2>5, <2>6, UpToDateStep DEF CompositionStep, CurrentOK
  <2> QED BY <2>1, <2>4, <2>5, <2>6, <2>7 DEF CurrentOK
<1>2. CASE UNCHANGED allVars
  BY <1>2 DEF allVars, dispatch, vars, slots, procs, told, ViewInv, CurrentOK,
     UpToDate
<1> QED BY <1>1, <1>2, ViewRequest, ViewCall DEF NextDispatch

LEMMA ViewInit == InitDispatch => ViewInv
BY DEF InitDispatch, ViewInv, NoCall

\* A listener refuses only a sender whose view was not current: where every
\* node has its directory and none has changed since, the edge a sender goes
\* by is one the listener's directory admits.
THEOREM RefusedForCauseHolds == SpecDispatch => []RefusedForCause
<1>1. ViewInv => RefusedForCause
  BY DEF ViewInv, CurrentOK, RefusedForCause
<1> QED
  BY <1>1, ViewInit, ViewStep, RequestsInOrder, Surroundings, PTL DEF SpecDispatch

-----------------------------------------------------------------------------
\* The base's own calls.

Preparing(c) == call[c].stage \in {"computed", "prepared"}

\* A call that is alone with the shared directory finds in it the listeners
\* there were when it computed it.
AloneOK(c) ==
    /\ Preparing(c) => \A d \in Calls : d # c => ~Preparing(d)
    /\ call[c].stage = "computed" /\ call[c].served =>
          \E i \in Ids : <<call[c].event, i>> \in call[c].routes
    /\ call[c].stage = "prepared" /\ call[c].served =>
          \E i \in Ids : <<call[c].event, i>> \in hostDir
    /\ call[c].result = "nobody" => ~call[c].served

NobodyInv == \A c \in Calls : call[c].alone => AloneOK(c)

LEMMA NobodyInit == InitDispatch => NobodyInv
BY DEF InitDispatch, NobodyInv, NoCall

LEMMA NobodyHostSend ==
    ASSUME Typed, NobodyInv, NEW c \in Calls, HostSend(c) PROVE NobodyInv'
<1> DEFINE declared == Declared(PlansOf(InForce(state) \ {HOST}))
           routes == {r \in declared \X Ids : r[2] \in ServedBy(r[1])}
           others == {d \in Calls : Preparing(d)}
<1>1. PICK e \in Events \cap declared, k \in {"bail", "gather"} :
          call' = [d \in Calls |->
             IF d = c
             THEN [NoCall EXCEPT !.stage = "computed", !.kind = k,
                       !.event = e, !.routes = routes,
                       !.served = ServedBy(e) # {}, !.alone = others = {}]
             ELSE [call[d] EXCEPT !.alone = @ /\ d \notin others]]
  BY DEF HostSend, Preparing
<1>2. ServedBy(e) # {} => \E i \in Ids : <<e, i>> \in routes
  BY DEF ServedBy
<1>3. UNCHANGED hostDir /\ call[c].stage = "idle"
  BY DEF HostSend
<1> HIDE DEF declared, routes, others
<1>4. /\ call'[c].stage = "computed" /\ call'[c].event = e
      /\ call'[c].routes = routes /\ call'[c].result = "none"
  BY <1>1 DEF NoCall
<1>5. /\ call'[c].served => ServedBy(e) # {}
      /\ call'[c].alone => others = {}
  BY <1>1 DEF NoCall
<1>6. ASSUME NEW d \in Calls, d # c
      PROVE /\ UNCHANGED <<call[d].stage, call[d].event, call[d].routes, call[d].result>>
            /\ call'[d].served => call[d].served
            /\ call'[d].alone => call[d].alone /\ d \notin others
  <2>1. PICK b \in BOOLEAN : /\ call'[d] = [call[d] EXCEPT !.alone = b]
                             /\ b => call[d].alone /\ d \notin others
    BY <1>1, <1>6
  <2>2. call[d] \in CallRecord
    BY DEF Typed
  <2>3. /\ [call[d] EXCEPT !.alone = b].stage = call[d].stage
        /\ [call[d] EXCEPT !.alone = b].event = call[d].event
        /\ [call[d] EXCEPT !.alone = b].routes = call[d].routes
        /\ [call[d] EXCEPT !.alone = b].result = call[d].result
        /\ [call[d] EXCEPT !.alone = b].served = call[d].served
        /\ [call[d] EXCEPT !.alone = b].alone = b
    BY <2>2 DEF CallRecord
  <2>4. UNCHANGED <<call[d].stage, call[d].event, call[d].routes, call[d].result>>
    BY <2>1, <2>3
  <2>5. call'[d].served => call[d].served
    BY <2>1, <2>3
  <2>6. call'[d].alone => call[d].alone /\ d \notin others
    BY <2>1, <2>3
  <2> QED BY <2>4, <2>5, <2>6
<1>7. \A d \in Calls : d # c => (Preparing(d)' <=> Preparing(d))
  BY <1>6 DEF Preparing
<1> SUFFICES ASSUME NEW d \in Calls, call'[d].alone PROVE AloneOK(d)'
  BY DEF NobodyInv
<1>8. CASE d = c
  <2>1. \A x \in Calls : x # c => ~Preparing(x)'
    BY <1>5, <1>7, <1>8 DEF others
  <2> QED BY <1>2, <1>4, <1>5, <1>8, <2>1 DEF AloneOK
<1>9. CASE d # c
  <2>1. ~Preparing(d)' /\ AloneOK(d)
    BY <1>6, <1>7, <1>9 DEF others, NobodyInv
  <2> QED BY <1>6, <1>9, <2>1 DEF AloneOK, Preparing
<1> QED BY <1>8, <1>9

LEMMA NobodyStep == Typed /\ NobodyInv /\ [NextDispatch]_allVars => NobodyInv'
<1> SUFFICES ASSUME Typed, NobodyInv, [NextDispatch]_allVars PROVE NobodyInv'
  OBVIOUS
<1>1. ASSUME NEW c \in Calls, HostSend(c) PROVE NobodyInv'
  BY <1>1, NobodyHostSend
<1>2. ASSUME NEW c \in Calls, HostSets(c) PROVE NobodyInv'
  <2>1. /\ call[c].stage = "computed"
        /\ hostDir' = call[c].routes
        /\ call'[c].stage = "prepared"
        /\ UNCHANGED <<call[c].event, call[c].result, call[c].served, call[c].alone>>
        /\ \A d \in Calls : d # c => call'[d] = call[d]
    BY <1>2 DEF HostSets, Typed, CallRecord
  <2>2. \A d \in Calls : Preparing(d)' <=> Preparing(d)
    BY <2>1 DEF Preparing
  <2> SUFFICES ASSUME NEW d \in Calls, call'[d].alone PROVE AloneOK(d)'
    BY DEF NobodyInv
  <2>3. AloneOK(d)
    BY <2>1 DEF NobodyInv
  <2>4. CASE d = c
    BY <2>1, <2>2, <2>3, <2>4 DEF AloneOK
  <2>5. CASE d # c
    <3>1. ~Preparing(d)
      BY <2>1, <2>3, <2>5 DEF AloneOK, Preparing
    <3> QED BY <2>1, <2>2, <2>3, <2>5, <3>1 DEF AloneOK, Preparing
  <2> QED BY <2>4, <2>5
<1>3. ASSUME NEW c \in Calls, HostPrepares(c) PROVE NobodyInv'
  <2> DEFINE L == {i \in Ids : <<call[c].event, i>> \in hostDir}
  <2>1. /\ call[c].stage = "prepared" /\ UNCHANGED hostDir
        /\ \/ /\ L = {}
              /\ call' = [call EXCEPT ![c].stage = "done", ![c].result = "nobody"]
           \/ \E A : call' = [call EXCEPT ![c].stage = "asking", ![c].listeners = A]
    BY <1>3 DEF HostPrepares
  <2>2. /\ call'[c].stage \notin {"computed", "prepared"}
        /\ UNCHANGED <<call[c].event, call[c].served, call[c].alone>>
        /\ call'[c].result = call[c].result \/ L = {}
        /\ \A d \in Calls : d # c => call'[d] = call[d]
    BY <2>1 DEF Typed, CallRecord
  <2>3. \A d \in Calls : Preparing(d)' => Preparing(d)
    BY <2>2 DEF Preparing
  <2> SUFFICES ASSUME NEW d \in Calls, call'[d].alone PROVE AloneOK(d)'
    BY DEF NobodyInv
  <2>4. AloneOK(d)
    BY <2>2 DEF NobodyInv
  <2>5. CASE d = c
    <3>1. call[c].served => L # {}
      BY <2>1, <2>4, <2>5 DEF AloneOK
    <3> QED BY <2>2, <2>4, <2>5, <3>1 DEF AloneOK, Preparing
  <2>6. CASE d # c
    BY <2>1, <2>2, <2>3, <2>4, <2>6 DEF AloneOK, Preparing
  <2> QED BY <2>5, <2>6
<1>4. ASSUME NEW c \in Calls, NEW p \in Pids, Send(c, p) PROVE NobodyInv'
  <2>1. /\ call'[c].stage = "asking" /\ call'[c].alone = FALSE
        /\ UNCHANGED hostDir
        /\ \A d \in Calls : d # c => call'[d] = call[d]
    BY <1>4 DEF Send, Typed, NoCall
  <2>2. \A d \in Calls : Preparing(d)' => Preparing(d)
    BY <2>1 DEF Preparing
  <2> QED BY <2>1, <2>2 DEF NobodyInv, AloneOK, Preparing
<1>5. ASSUME NEW c \in Calls, BailNext(c) PROVE NobodyInv'
  BY <1>5 DEF BailNext, NobodyInv, AloneOK, Preparing
<1>6. ASSUME NEW c \in Calls, Finish(c) PROVE NobodyInv'
  <2>1. PICK r \in {"rows", "answered", "raised", "declined"} :
          call' = [call EXCEPT ![c].stage = "done", ![c].result = r]
    BY <1>6 DEF Finish
  <2>2. /\ call'[c].stage = "done" /\ call'[c].result # "nobody"
        /\ UNCHANGED <<call[c].alone, hostDir>>
        /\ \A d \in Calls : d # c => call'[d] = call[d]
    BY <1>6, <2>1 DEF Finish, Typed, CallRecord
  <2>3. \A d \in Calls : Preparing(d)' => Preparing(d)
    BY <2>2 DEF Preparing
  <2> QED BY <2>2, <2>3 DEF NobodyInv, AloneOK, Preparing
<1>7. ASSUME NEW c \in Calls, Forget(c) PROVE NobodyInv'
  <2>1. /\ call'[c].stage = "idle" /\ call'[c].alone = FALSE
        /\ UNCHANGED hostDir
        /\ \A d \in Calls : d # c => call'[d] = call[d]
    BY <1>7 DEF Forget, Typed, NoCall
  <2>2. \A d \in Calls : Preparing(d)' => Preparing(d)
    BY <2>1 DEF Preparing
  <2> QED BY <2>1, <2>2 DEF NobodyInv, AloneOK, Preparing
<1>8. CASE RequestStep
  <2>1. UNCHANGED <<call, hostDir>>
    <3>1. PICK c \in Calls, i \in Ids :
             \/ Reach(c, i) \/ Unreached(c, i) \/ Arrive(c, i)
             \/ Answer(c, i) \/ ConnectionLost(c, i) \/ TimeOut(c, i)
      BY <1>8 DEF RequestStep
    <3>2. \E l : LegStep(c, i, l)
      BY <3>1 DEF Reach, Unreached, Arrive, Answer, ConnectionLost, TimeOut
    <3> QED BY <3>2 DEF LegStep
  <2> QED BY <2>1 DEF NobodyInv, AloneOK, Preparing
<1>9. CASE CompositionStep
  <2>1. UNCHANGED hostDir
    BY <1>9 DEF CompositionStep
  <2>2. ASSUME NEW c \in Calls
        PROVE /\ UNCHANGED <<call[c].stage, call[c].event, call[c].routes, call[c].result>>
              /\ call'[c].served => call[c].served
              /\ call'[c].alone => call[c].alone
    <3>1. PICK a \in BOOLEAN, b \in BOOLEAN :
             /\ call'[c] = [call[c] EXCEPT !.current = a, !.served = b]
             /\ b => call[c].served
      BY <1>9 DEF CompositionStep
    <3>2. call[c] \in CallRecord
      BY DEF Typed
    <3> DEFINE u == [call[c] EXCEPT !.current = a, !.served = b]
    <3>3. /\ u.stage = call[c].stage /\ u.event = call[c].event
          /\ u.routes = call[c].routes /\ u.result = call[c].result
          /\ u.alone = call[c].alone /\ u.served = b
      BY <3>2 DEF CallRecord
    <3>4. UNCHANGED <<call[c].stage, call[c].event, call[c].routes, call[c].result>>
      BY <3>1, <3>3
    <3>5. call'[c].served => call[c].served
      BY <3>1, <3>3
    <3>6. call'[c].alone => call[c].alone
      BY <3>1, <3>3
    <3> QED BY <3>4, <3>5, <3>6
  <2>3. \A c \in Calls : Preparing(c)' <=> Preparing(c)
    BY <2>2 DEF Preparing
  <2> QED BY <2>1, <2>2, <2>3 DEF NobodyInv, AloneOK
<1>10. CASE UNCHANGED allVars
  BY <1>10 DEF allVars, dispatch, NobodyInv, AloneOK, Preparing
<1> QED
  BY <1>1, <1>2, <1>3, <1>4, <1>5, <1>6, <1>7, <1>8, <1>9, <1>10
  DEF NextDispatch, CallStep

\* The base says that nobody listens only if at some moment of the call nobody
\* active did, or another call had the shared directory too.
THEOREM NobodyForCauseHolds == SpecDispatch => []NobodyForCause
<1>1. NobodyInv => NobodyForCause
  BY DEF NobodyInv, AloneOK, NobodyForCause
<1> QED BY <1>1, NobodyInit, NobodyStep, RequestsInOrder, PTL DEF SpecDispatch
=============================================================================
