---------------------------- MODULE MCConstDriver ----------------------------
(* Every small circuit around a register v.                                *)
EXTENDS ConstDriver, TLC

CONSTANTS v, w, x, c, k     \* three nodes to search, a constant, a control node

Variable == [type |-> {"Variable"}, op |-> FALSE, named |-> TRUE]
Assign == [type |-> {"Assign"}, op |-> FALSE, named |-> FALSE]
Ternary == [type |-> {"Control", "Assign"}, op |-> FALSE, named |-> FALSE]
Wire == [type |-> {"Net"}, op |-> FALSE, named |-> TRUE]
Sum == [type |-> {"Net"}, op |-> TRUE, named |-> FALSE]
Concat == [type |-> {"Net"}, op |-> FALSE, named |-> FALSE]
Instance == [type |-> {"Module"}, op |-> FALSE, named |-> TRUE]
Constant == [type |-> {"Constant"}, op |-> FALSE, named |-> FALSE]
Control == [type |-> {"Control"}, op |-> FALSE, named |-> FALSE]

\* The kinds a node other than a register, a constant or a control node can have.
Kinds == {Variable, Assign, Ternary, Wire, Sum, Concat, Instance}

Circuit(kind) == (v :> Variable) @@ (w :> Variable) @@ (x :> kind) @@ (c :> Constant) @@ (k :> Control)

\* Every edge between two sorts of nodes, none of them a slice.
Wires(heads, tails) == {[from |-> f, to |-> t, slice |-> FALSE] : f \in heads, t \in tails}

\* Control nodes drive only v and x; nothing drives a constant.
Possible == {e \in Wires({v, w, x, c}, {v, w, x}) \cup Wires({k}, {v, x}) : e.from # e.to}

\* One edge into v may be a slice.
Sliced(es) ==
    {es} \cup {(es \ {e}) \cup {[e EXCEPT !.slice = TRUE]} : e \in es \cap Wires({w, c}, {v})}

MCInit == /\ info \in {Circuit(kind) : kind \in Kinds}
          /\ edges \in UNION {Sliced(es) : es \in SUBSET Possible}
          /\ root = v
          /\ Init

MCSpec == MCInit /\ [][Next]_vars
=============================================================================
