------------------------------ MODULE MCRefBase ------------------------------
(***************************************************************************)
(* Instances of RefBase for TLC.  The threads that did not make the object *)
(* are interchangeable.                                                    *)
(***************************************************************************)
EXTENDS RefBase, TLC

CONSTANTS t1, t2, t3

OtherThreads == Permutations(Threads \ {Creator})
==============================================================================
