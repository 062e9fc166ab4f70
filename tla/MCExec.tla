------------------------------- MODULE MCExec -------------------------------
(* Instance of ExecSession. *)
EXTENDS ExecSession
=============================================================================
