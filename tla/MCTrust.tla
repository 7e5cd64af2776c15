------------------------------ MODULE MCTrust ------------------------------
(***************************************************************************)
(* A cartridge in a folder of a project: the folder and the project may    *)
(* both be recorded.  With it, the promises of the settings and of the      *)
(* ledger over small inputs.                                               *)
(***************************************************************************)
EXTENDS Trust, LedgerChecks, SettingsChecks

Nested == [m |-> <<"inner", "outer">>, e |-> <<"inner", "outer">>, o |-> <<"outer">>]
=============================================================================
