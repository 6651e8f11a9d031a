--------------------------- MODULE FsmDetectionSpec ---------------------------
(***************************************************************************)
(* What Graph::identify_fsms (src/graph.cc) promises its caller: the       *)
(* registers under the given top that the analysis accepts, each once, or  *)
(* an exception when the analysis of one of them fails.  All in one step,  *)
(* as if there were no threads.                                            *)
(***************************************************************************)
EXTENDS Naturals, FiniteSets, Functions

CONSTANTS
    Task,           \* the registers
    Analyses,       \* what the analysis of a register can come to
    Failure         \* the analysis that ends in a failed assertion

VARIABLES
    under,          \* the registers below top
    analysis,       \* what the analysis of each register comes to
    outcome,        \* "running", "returned" or "threw"
    found           \* the vector that is returned

vars == <<under, analysis, outcome, found>>

\* More than one constant drives it, it feeds back through a control node, and it
\* counts or takes at least two values.
Accepts(a) == /\ a # Failure
              /\ a.sources > 1
              /\ a.controlLoop
              /\ a.counter \/ a.states >= 2

Machines == {t \in under : Accepts(analysis[t])}

\* The ways to list a finite set without repetition.
Listings(S) == {f \in [1..Cardinality(S) -> S] : IsInjective(f)}

Init == /\ under \in SUBSET Task
        /\ analysis \in [Task -> Analyses]
        /\ outcome = "running"
        /\ found = <<>>

Return == /\ outcome = "running"
          /\ \A t \in under : analysis[t] # Failure
          /\ outcome' = "returned"
          /\ found' \in Listings(Machines)
          /\ UNCHANGED <<under, analysis>>

Throw == /\ outcome = "running"
         /\ \E t \in under : analysis[t] = Failure
         /\ outcome' = "threw"
         /\ UNCHANGED <<under, analysis, found>>

Spec == Init /\ [][Return \/ Throw]_vars
===============================================================================
