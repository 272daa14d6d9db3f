----------------------------- MODULE MCDispatch -----------------------------
(* Small instances of the accepting worker process. *)
EXTENDS Dispatch
=============================================================================
