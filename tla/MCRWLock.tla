------------------------------ MODULE MCRWLock ------------------------------
(* Five threads: two readers and three writers can meet. The lock has no      *)
(* unbounded state, so there is no other bound.                              *)
EXTENDS RWLock
=============================================================================
