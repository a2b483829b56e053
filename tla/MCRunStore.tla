----------------------------- MODULE MCRunStore -----------------------------
(***************************************************************************)
(* RunStore on small instances.  Runs and workers are interchangeable in   *)
(* every definition, so the safety runs quotient by their permutations;    *)
(* the runs that check liveness do not.                                    *)
(***************************************************************************)
EXTENDS RunStore, TLC

Symmetry == Permutations(Runs) \cup Permutations(Workers)
=============================================================================
