----------------------------- MODULE MCPageLoad -----------------------------
(* Tasks and pages are interchangeable: no property names one of them.     *)
EXTENDS PageLoad, TLC

Symmetry == Permutations(Tasks) \cup Permutations(Pages)
=============================================================================
