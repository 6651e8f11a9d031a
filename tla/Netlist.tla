-------------------------------- MODULE Netlist --------------------------------
(***************************************************************************)
(* The graph of src/graph.hh as a value: the nodes and edges in the order  *)
(* they were made, named by their index, and the addresses of the symbols  *)
(* that nodes are looked up by.                                            *)
(***************************************************************************)
EXTENDS Naturals, Sequences, FiniteSets, TLC

Null == 0

EmptyGraph == [node |-> <<>>, edge |-> <<>>, key |-> <<>>]

\* A node that nothing is known of yet.
Blank == [name |-> "", type |-> {"Net"}, op |-> "Ignore", value |-> 0,
          event |-> "None", port |-> "None", parent |-> Null, children |-> <<>>,
          members |-> <<>>, genBlocks |-> 0]

Newest(g) == Len(g.node)

\* The end of add_node: a node that has a parent becomes one more child of it.
Adopt(g, n) == IF g.node[n].parent = Null THEN g
               ELSE [g EXCEPT !.node[g.node[n].parent].children = Append(@, n)]

\* add_node with an id from get_free_id.
AddNode(g, n) == Adopt([g EXCEPT !.node = Append(@, n)], Len(g.node) + 1)

HasNode(g, key) == key \in DOMAIN g.key

\* alias_node: std::unordered_map::emplace leaves a key that is there as it is.
Alias(g, key, at) == IF HasNode(g, key) THEN g ELSE [g EXCEPT !.key = (key :> at) @@ @]

\* Node::update of a known node: update(NodeType, ...) leaves out what comes after the
\* type, so that the parent stays.
Update(old, n) == [old EXCEPT !.name = n.name, !.type = n.type]

\* add_node with the address of a symbol.
AddKeyed(g, key, n) ==
    IF HasNode(g, key)
    THEN Adopt([g EXCEPT !.node[g.key[key]] = Update(@, n)], g.key[key])
    ELSE Alias(AddNode(g, n), key, Len(g.node) + 1)

AddEdge(g, from, to, type) == [g EXCEPT !.edge = Append(@, [from |-> from, to |-> to, type |-> type])]

-------------------------------------------------------------------------------
EdgesTo(g, n) == {i \in DOMAIN g.edge : g.edge[i].from = n}
EdgesFrom(g, n) == {i \in DOMAIN g.edge : g.edge[i].to = n}

HasType(g, n, type) == type \in g.node[n].type

IsAssign(e) == e.type \in {"Blocking", "NonBlocking"}
IsControl(e) == e.type \in {"Control", "False"}

RECURSIVE ChildOf(_, _, _)
ChildOf(g, n, p) == /\ g.node[n].parent # Null
                    /\ g.node[n].parent = p \/ ChildOf(g, g.node[n].parent, p)

\* handle_name: the names from the root down.  That none of them is empty is asserted.
RECURSIVE HandleName(_, _)
HandleName(g, n) == IF n = Null THEN <<>> ELSE Append(HandleName(g, g.node[n].parent), g.node[n].name)

\* The first node of a scope with a name, and Null when there is none.
FirstNamed(g, scope, name) ==
    LET hits == {i \in DOMAIN scope : g.node[scope[i]].name = name}
    IN  IF hits = {} THEN Null ELSE scope[CHOOSE i \in hits : \A j \in hits : i <= j]

\* A slip that is easy to make, kept to show that a property of Extraction notices it: the
\* search is not narrowed.
RECURSIVE Unscoped(_, _, _)
Unscoped(g, scope, names) ==
    IF Len(names) = 1 THEN FirstNamed(g, scope, Head(names)) ELSE Unscoped(g, scope, Tail(names))

\* select: the first node of the scope that has the first name hides all others that
\* have it, and the search goes on among its children.
RECURSIVE SelectIn(_, _, _)
SelectIn(g, scope, names) ==
    LET first == FirstNamed(g, scope, Head(names))
    IN  IF first = Null \/ Len(names) = 1 THEN first
        ELSE SelectIn(g, g.node[first].children, Tail(names))

SelectNode(g, names) == SelectIn(g, [i \in DOMAIN g.node |-> i], names)

\* The nodes a breadth first search from S meets, when it may go from n to step[n].
RECURSIVE Closure(_, _)
Closure(step, S) == LET T == S \cup UNION {step[n] : n \in S}
                    IN  IF T = S THEN S ELSE Closure(step, T)

\* Every edge.
Successors(g) == [n \in DOMAIN g.node |-> {g.edge[i].to : i \in EdgesTo(g, n)}]

\* Graph::reachable: a node that drives nothing reaches nothing.
Reachable(g, from, to) == Successors(g)[from] # {} /\ to \in Closure(Successors(g), {from})
===============================================================================
