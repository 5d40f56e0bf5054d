------------------------------ MODULE MCLocks -------------------------------
(* A small instance of Locks for TLC.                                        *)
EXTENDS Locks

CONSTANTS t1, t2        \* threads
=============================================================================
