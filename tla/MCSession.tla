----------------------------- MODULE MCSession ------------------------------
(***************************************************************************)
(* Session on small instances.  The cfg files give every constant a value. *)
(***************************************************************************)
EXTENDS Session
=============================================================================
