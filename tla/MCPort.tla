------------------------------- MODULE MCPort -------------------------------
(***************************************************************************)
(* Model values for Port: two threads, of which one reads the time.        *)
(***************************************************************************)
EXTENDS Port

CONSTANTS t1, t2
=============================================================================
