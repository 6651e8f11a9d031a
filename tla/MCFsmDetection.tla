---------------------------- MODULE MCFsmDetection ----------------------------
(* Three registers, two workers.                                           *)
EXTENDS FsmDetection

\* A counter, a register that has one constant source only, and one whose analysis
\* fails.
MCCounter == [sources |-> 2, controlLoop |-> TRUE, counter |-> TRUE, states |-> 1]
MCOneSource == [sources |-> 1, controlLoop |-> TRUE, counter |-> FALSE, states |-> 1]

MCAnalyses == {MCCounter, MCOneSource, Failure}
===============================================================================
