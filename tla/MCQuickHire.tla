---------------------------- MODULE MCQuickHire ----------------------------
(* QuickHire for TLC. *)
EXTENDS QuickHire, TLC

\* Workers and request slots are interchangeable: no operator, property or
\* constant tells two of them apart.
Symmetry == Permutations(Workers) \cup Permutations(Requests)

=============================================================================
