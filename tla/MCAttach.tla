------------------------------ MODULE MCAttach ------------------------------
(***************************************************************************)
(* A bridge with two lines, and a second base.  The promises of setup are  *)
(* evaluated beside it.                                                    *)
(***************************************************************************)
EXTENDS Attach, SetupChecks
=============================================================================
