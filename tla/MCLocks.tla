------------------------------ MODULE MCLocks -------------------------------
(***************************************************************************)
(* The locks of the server with a few goroutines and banks, and every      *)
(* request there is.                                                       *)
(***************************************************************************)
EXTENDS Locks

AllRequests == Handlers
=============================================================================
