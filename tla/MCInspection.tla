---------------------------- MODULE MCInspection ----------------------------
(* Small instances of HTTPS inspection.                                    *)
EXTENDS Inspection, TLC

Symmetry == Permutations(Calls) \cup Permutations(Clients)
=============================================================================
