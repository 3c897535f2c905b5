------------------------------- MODULE Callers -------------------------------
(* The goroutines that use a session manager, or one of its breakers. *)
CONSTANT Caller
=============================================================================
