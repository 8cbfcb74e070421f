----------------------------- MODULE MCSpinlock -----------------------------
(* Small instances of Spinlock for TLC. *)
EXTENDS Spinlock, TLC

CONSTANTS lock

MCRank == (ptable :> 2) @@ (lock :> 1)
=============================================================================
