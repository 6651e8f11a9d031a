---------------------------- MODULE MCDetectorRuns ----------------------------
(* Two runs after an earlier one, one at a time or both at once.           *)
EXTENDS DetectorRuns, TLC

CONSTANTS p, q

\* A prover that decides all of two properties, and one that runs into its time
\* limit on the first.
MCVerdict == {<<"covered", "covered">>, <<"covered", "unreachable">>, <<"open", "covered">>}

\* Designs of the first property only, and of both.
MCInit == /\ ids \in [Design -> {{1}, {1, 2}}]
          /\ Init

MCSpec == MCInit /\ [][Next]_vars

Symmetry == Permutations({p, q})
===============================================================================
