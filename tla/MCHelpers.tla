----------------------------- MODULE MCHelpers -----------------------------
(***************************************************************************)
(* A helper with a request of a listener, one of its line handler, a send, *)
(* an ask and a plain line.                                                *)
(***************************************************************************)
EXTENDS Helpers
=============================================================================
