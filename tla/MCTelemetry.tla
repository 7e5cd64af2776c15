---------------------------- MODULE MCTelemetry ----------------------------
(***************************************************************************)
(* Three activities over a queue of one, two failed attempts, one other    *)
(* line, one call to the filesystem that fails, one flush.  With it, the   *)
(* promises of ASP and of the uses it retains over small inputs.           *)
(***************************************************************************)
EXTENDS Telemetry, AspChecks
=============================================================================
