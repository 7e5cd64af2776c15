------------------------------ MODULE Telemetry ------------------------------
(***************************************************************************)
(* A node's activity and the base's diagnostics together: what the task of *)
(* the recorder says of an attempt that failed is a line of the node's     *)
(* stderr, which the base notes (src/src/host/process.rs:168-186) in the   *)
(* stream its other lines go through, and records as no activity.          *)
(***************************************************************************)
EXTENDS Recorder, Diagnostics

CONSTANT Others  \* lines noted by anybody else

vars == <<recorder, diagnostics>>

Noted == Cardinality({n \in 1..Lines : fate[n] # "unborn"})

Init == RecorderInit /\ DiagnosticsInit

\* The failure is told; the line is noted like any other.
Told == Loud /\ Note

Next ==
    \/ Quiet /\ UNCHANGED diagnostics
    \/ Told
    \/ /\ Noted - failed < Others
       /\ Note
       /\ UNCHANGED recorder
    \/ /\ (\E n \in 1..Lines : CountMissed(n)) \/ Drain \/ BeginFlush \/ PushFlush \/ FlushLate
       /\ UNCHANGED recorder

Spec == Init /\ [][Next]_vars
=============================================================================
