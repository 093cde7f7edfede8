------------------------------ MODULE MCSynch ------------------------------
(***************************************************************************)
(* Synch with one lock and its condition variables.                        *)
(***************************************************************************)
EXTENDS Synch

CONSTANT l1

LockOf == [c \in Cond |-> l1]
=============================================================================
