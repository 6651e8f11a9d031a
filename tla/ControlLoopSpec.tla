---------------------------- MODULE ControlLoopSpec ----------------------------
(***************************************************************************)
(* What reachable_control_loop(from, to) of src/graph.cc promises: one     *)
(* answer, given once, that says whether some walk from "from" to "to"     *)
(* goes through a control node.  docs/main.tex (section "FSM Extraction")  *)
(* asks for a loop that contains a control vertex, the case from = to.     *)
(***************************************************************************)
EXTENDS Reachability

CONSTANT NoAnswer          \* the caller is still waiting

VARIABLES
    succ,                  \* the graph, fixed once it is built
    control,               \* the nodes whose type has the Control flag
    from, to,              \* the two arguments
    answer                 \* what the call has returned

vars == <<succ, control, from, to, answer>>

\* The nodes on a walk that starts in start and goes through a node of ctl.
Behind(g, ctl, start) ==
    ReachableFrom(g, ReachableFrom(g, {start}) \cap ctl)

Init == /\ succ \in Graph
        /\ control \in SUBSET Node
        /\ from \in Node
        /\ to \in Node
        /\ answer = NoAnswer

Reply == /\ answer = NoAnswer
         /\ answer' = (to \in Behind(succ, control, from))
         /\ UNCHANGED <<succ, control, from, to>>

Spec == Init /\ [][Reply]_vars

LiveSpec == Spec /\ WF_vars(Reply)

\* Every call returns.
Answered == <>(answer # NoAnswer)
===============================================================================
