------------------------------- MODULE Threads -------------------------------
(* The threads of the program that uses a server or the C library. *)
CONSTANT Thread
=============================================================================
