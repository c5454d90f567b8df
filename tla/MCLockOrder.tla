----------------------------- MODULE MCLockOrder -----------------------------
(* Every activity runs, each once at a time: two that are alike take the     *)
(* locks in the same order and cannot wait for each other in a circle.       *)
EXTENDS LockOrder
==============================================================================
