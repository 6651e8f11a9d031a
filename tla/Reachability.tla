----------------------------- MODULE Reachability -----------------------------
(***************************************************************************)
(* The graph vocabulary that the specifications of src/graph.cc share.     *)
(* A graph is a successor function: succ[n] is the set of nodes that the   *)
(* outgoing edges (Node::edges_to) of n lead to.                           *)
(*                                                                         *)
(* Reachability is the least closed set, written as the intersection of    *)
(* all of them: no recursion, so TLAPS can reason about it, and no path,   *)
(* so it is independent of every search in the code it is compared with.   *)
(***************************************************************************)
CONSTANT Node       \* the nodes of the dependency graph

Graph == [Node -> SUBSET Node]

\* A set of nodes that no edge of the graph leaves.
Closed(succ, C) == \A n \in C : succ[n] \subseteq C

\* Every node on a walk, possibly of no edge, that starts in S.
ReachableFrom(succ, S) ==
    {n \in Node : \A C \in SUBSET Node : S \subseteq C /\ Closed(succ, C) => n \in C}

\* Every node on a walk of at least one edge that starts at n.
After(succ, n) == ReachableFrom(succ, succ[n])
===============================================================================
