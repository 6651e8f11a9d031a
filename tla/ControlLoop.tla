------------------------------ MODULE ControlLoop ------------------------------
(***************************************************************************)
(* reachable_control_loop (src/graph.cc:287), the two pass search that     *)
(* decides whether a register feeds back into itself through a control     *)
(* node and so may be a state machine.                                     *)
(*                                                                         *)
(* The first pass labels the control nodes reachable from the origin.  The *)
(* second spreads that label along the edges; a node that gets its label   *)
(* after it was visited is taken out of the visited set, to be visited     *)
(* again.  It is that un-visiting on which both termination and            *)
(* completeness turn.                                                      *)
(*                                                                         *)
(* The working queue of the code is a FIFO that holds a node once per edge *)
(* it was reached by.  frontier is the set of the nodes in it: a second    *)
(* copy of a node is dropped by the visited test, so what is abstracted    *)
(* is the order, and every order is explored.                              *)
(***************************************************************************)
EXTENDS Reachability

CONSTANT NoAnswer

ASSUME NoAnswerAssumption == NoAnswer \notin BOOLEAN

VARIABLES
    succ, control, from, to,    \* the frozen graph and the arguments
    pc,                         \* "enter", "label", "colour" or "done"
    frontier,                   \* working_set
    visited,                    \* visited
    reached,                    \* reachable_control_nodes
    answer                      \* the value returned

inputs == <<succ, control, from, to>>
vars == <<succ, control, from, to, pc, frontier, visited, reached, answer>>

PC == {"enter", "label", "colour", "done"}

-------------------------------------------------------------------------------
(* Slips that are easy to make in this code, kept to show that the         *)
(* properties below notice them.                                           *)
LabelWhenVisited(n) == {n} \cap control \cap visited
NeverRevisit(n) == visited \cup {n}
RevisitEveryHead(n) == (visited \cup {n}) \ succ[n]
-------------------------------------------------------------------------------
\* The origin is a register or another named variable: identify_registers only
\* marks nodes whose type is exactly Net or Variable, never a Control one.
Init == /\ succ \in Graph
        /\ control \in SUBSET Node
        /\ from \in Node \ control
        /\ to \in Node
        /\ pc = "enter"
        /\ frontier = {from}
        /\ visited = {}
        /\ reached = {}
        /\ answer = NoAnswer

Return(value) == /\ pc' = "done"
                 /\ answer' = value

\* The edge case: an origin that drives nothing.
NoSuccessor == /\ pc = "enter"
               /\ succ[from] = {}
               /\ Return(FALSE)
               /\ UNCHANGED <<inputs, frontier, visited, reached>>

Enter == /\ pc = "enter"
         /\ succ[from] # {}
         /\ pc' = "label"
         /\ UNCHANGED <<inputs, frontier, visited, reached, answer>>

\* First pass, one node popped.  A control node is recorded before the visited
\* test.
Labelled(n) == {n} \cap control

LabelSkip(n) == /\ pc = "label"
                /\ n \in frontier \cap visited
                /\ frontier' = frontier \ {n}
                /\ reached' = reached \cup Labelled(n)
                /\ UNCHANGED <<inputs, pc, visited, answer>>

LabelVisit(n) == /\ pc = "label"
                 /\ n \in frontier \ visited
                 /\ frontier' = (frontier \ {n}) \cup succ[n]
                 /\ reached' = reached \cup Labelled(n)
                 /\ visited' = visited \cup {n}
                 /\ UNCHANGED <<inputs, pc, answer>>

\* The second pass starts over from the origin but keeps the labels.
SecondPass == /\ pc = "label"
              /\ frontier = {}
              /\ pc' = "colour"
              /\ frontier' = {from}
              /\ visited' = {}
              /\ UNCHANGED <<inputs, reached, answer>>

\* The successors of n that get their label when n is visited, and the nodes
\* that have been visited once that is done.
Coloured(n) == IF n \in reached THEN succ[n] \ reached ELSE {}
VisitedAfter(n) == (visited \cup {n}) \ Coloured(n)

Found(n) == /\ pc = "colour"
            /\ n \in frontier
            /\ n = to
            /\ n \in reached
            /\ Return(TRUE)
            /\ frontier' = frontier \ {n}
            /\ UNCHANGED <<inputs, visited, reached>>

ColourSkip(n) == /\ pc = "colour"
                 /\ n \in frontier \cap visited
                 /\ ~(n = to /\ n \in reached)
                 /\ frontier' = frontier \ {n}
                 /\ UNCHANGED <<inputs, pc, visited, reached, answer>>

ColourVisit(n) == /\ pc = "colour"
                  /\ n \in frontier \ visited
                  /\ ~(n = to /\ n \in reached)
                  /\ frontier' = (frontier \ {n}) \cup succ[n]
                  /\ reached' = reached \cup Coloured(n)
                  /\ visited' = VisitedAfter(n)
                  /\ UNCHANGED <<inputs, pc, answer>>

Exhausted == /\ pc = "colour"
             /\ frontier = {}
             /\ Return(FALSE)
             /\ UNCHANGED <<inputs, frontier, visited, reached>>

Pop(n) == \/ LabelSkip(n) \/ LabelVisit(n)
          \/ Found(n) \/ ColourSkip(n) \/ ColourVisit(n)

Next == \/ NoSuccessor \/ Enter \/ SecondPass \/ Exhausted
        \/ \E n \in Node : Pop(n)

Spec == Init /\ [][Next]_vars

\* The search is a loop of one thread: it never waits for anything.
FairSpec == Spec /\ WF_vars(Next)
-------------------------------------------------------------------------------
TypeOK == /\ succ \in Graph
          /\ control \subseteq Node
          /\ from \in Node
          /\ to \in Node
          /\ pc \in PC
          /\ frontier \subseteq Node
          /\ visited \subseteq Node
          /\ reached \subseteq Node
          /\ answer \in BOOLEAN \cup {NoAnswer}

\* The promise: one answer, in one step.
Walks == INSTANCE ControlLoopSpec

\* The answer is TRUE exactly when some walk from the origin to the target goes
\* through a control node, whatever the order in which the edges of a node were
\* created and however often a node had to be visited again.
Correct == answer # NoAnswer => answer = (to \in Walks!Behind(succ, control, from))

\* The search implements the one step specification.
Implements == Walks!Spec

\* The search returns although it makes visited nodes unvisited (docs/main.tex
\* says of the colouring that it ends).
Terminates == <>(pc = "done")

-------------------------------------------------------------------------------
(* The inductive invariant behind Correct.                                 *)

Reach == ReachableFrom(succ, {from})
Sources == Reach \cap control
Through == ReachableFrom(succ, Sources)

\* What was visited or waits is reachable, and the successors of a visited node
\* were visited or wait.
SearchInv == /\ frontier \cup visited \subseteq Reach
             /\ pc \in {"label", "colour"} =>
                    /\ from \in frontier \cup visited
                    /\ \A n \in visited : succ[n] \subseteq frontier \cup visited

\* During the first pass exactly the control nodes visited so far are labelled.
LabelInv == pc = "label" => reached = visited \cap control

\* During the second pass every label is justified, and a labelled node that was
\* visited, and not made unvisited since, has passed its label on.
ColourInv == pc = "colour" => /\ Sources \subseteq reached
                              /\ reached \subseteq Through
                              /\ \A n \in visited \cap reached : succ[n] \subseteq reached
                              /\ to \notin visited \cap reached

EnterInv == pc = "enter" => frontier = {from} /\ visited = {} /\ reached = {}

AnswerInv == (answer = NoAnswer) <=> (pc # "done")

Inv == /\ TypeOK
       /\ from \notin control
       /\ EnterInv
       /\ SearchInv
       /\ LabelInv
       /\ ColourInv
       /\ AnswerInv
       /\ Correct
===============================================================================
