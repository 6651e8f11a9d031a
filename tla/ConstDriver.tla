------------------------------ MODULE ConstDriver ------------------------------
(***************************************************************************)
(* constant_driver (src/graph.cc:177), the depth first search backwards    *)
(* from a register that collects the edges by which constants reach it and *)
(* gives up as soon as something else does.  Graph::get_constant_source    *)
(* and Graph::constant_driver return its two results.                      *)
(*                                                                         *)
(* The recursion is an explicit stack of calls.  edges_from is an          *)
(* unordered_set, so a call may examine its edges in any order; the set of *)
(* nodes entered and the set of constant edges are shared by all calls.    *)
(***************************************************************************)
EXTENDS Naturals, Sequences, FiniteSets, Reachability

CONSTANT NoAnswer

ASSUME FiniteGraph == IsFiniteSet(Node)

VARIABLES
    info,           \* of each node: its type flags, whether it has an operator,
                    \* whether it has a name
    edges,          \* the edges of the graph: from, to, slice
    root,           \* the argument of the outermost call
    stack,          \* the calls: node, edges left to examine, result so far
    entered,        \* self_assignment_nodes
    constSources,   \* const_sources
    answer          \* what the outermost call returned

inputs == <<info, edges, root>>
vars == <<inputs, stack, entered, constSources, answer>>

Flags == {"Constant", "Net", "Variable", "Control", "Module", "Assign"}
Info == [type : SUBSET Flags, op : BOOLEAN, named : BOOLEAN]
Edge == [from : Node, to : Node, slice : BOOLEAN]

-------------------------------------------------------------------------------
(* Slips that are easy to make in this code, kept to show that the         *)
(* properties below notice them.                                           *)
EnterAgain(n) == FALSE
AssignNeedsSource(frame) == frame.result /\ constSources # {}
KeepSources(ok) == constSources

-------------------------------------------------------------------------------
HasType(n, flag) == flag \in info[n].type

EdgesFrom(n) == {e \in edges : e.to = n}

Call(n) == [node |-> n, todo |-> EdgesFrom(n), result |-> TRUE]

Top == stack[Len(stack)]

ReplaceTop(frame) == [stack EXCEPT ![Len(stack)] = frame]

\* A node of the loop group: some call has entered it already.
InLoopGroup(n) == n \in entered

\* The nodes the search goes through: assignments, variables, named nets, and the
\* nets of an operator of at most two operands.
Follows(n) == \/ HasType(n, "Assign")
              \/ HasType(n, "Variable")
              \/ /\ HasType(n, "Net")
                 /\ \/ info[n].op /\ Cardinality(EdgesFrom(n)) <= 2
                    \/ info[n].named

\* The branches of the if chain that come after the nodes that are followed.
SkipsControl(n) == ~Follows(n) /\ ~HasType(n, "Net") /\ HasType(n, "Control")
IsConstant(n) == ~Follows(n) /\ ~HasType(n, "Net") /\ ~HasType(n, "Control") /\ HasType(n, "Constant")

\* A call is over when it has failed or examined every edge.
Finished(frame) == ~frame.result \/ frame.todo = {}

\* It is registers that the callers ask about.
Init == /\ info \in [Node -> Info]
        /\ edges \in SUBSET Edge
        /\ root \in Node
        /\ HasType(root, "Variable")
        /\ stack = <<Call(root)>>
        /\ entered = {root}
        /\ constSources = {}
        /\ answer = NoAnswer

\* A slice, a node of the loop group, and the node that controls whether to
\* assign are passed over.
PassOver(e) == /\ \/ e.slice
                  \/ InLoopGroup(e.from)
                  \/ SkipsControl(e.from)
               /\ stack' = ReplaceTop([Top EXCEPT !.todo = @ \ {e}])
               /\ UNCHANGED <<inputs, entered, constSources, answer>>

Recurse(e) == /\ ~e.slice
              /\ ~InLoopGroup(e.from)
              /\ Follows(e.from)
              /\ stack' = Append(ReplaceTop([Top EXCEPT !.todo = @ \ {e}]), Call(e.from))
              /\ entered' = entered \cup {e.from}
              /\ UNCHANGED <<inputs, constSources, answer>>

Collect(e) == /\ ~e.slice
              /\ ~InLoopGroup(e.from)
              /\ IsConstant(e.from)
              /\ constSources' = constSources \cup {e}
              /\ stack' = ReplaceTop([Top EXCEPT !.todo = @ \ {e}])
              /\ UNCHANGED <<inputs, entered, answer>>

GiveUp(e) == /\ ~e.slice
             /\ ~InLoopGroup(e.from)
             /\ ~Follows(e.from) /\ ~SkipsControl(e.from) /\ ~IsConstant(e.from)
             /\ stack' = ReplaceTop([Top EXCEPT !.result = FALSE])
             /\ UNCHANGED <<inputs, entered, constSources, answer>>

Examine == /\ stack # <<>>
           /\ ~Finished(Top)
           /\ \E e \in Top.todo : PassOver(e) \/ Recurse(e) \/ Collect(e) \/ GiveUp(e)

\* Every edge comes from a control node and from nothing else.
OnlyControls(n) == \A e \in EdgesFrom(n) : info[e.from].type = {"Control"}

\* What the call returns.  That some constant was found is asked of the set all
\* calls share, not of the part this call has added.
Succeeds(frame) == /\ frame.result
                   /\ ~OnlyControls(frame.node)
                   /\ constSources # {} \/ HasType(frame.node, "Assign")

\* The sources that are left when the call returns ok.
SourcesLeft(ok) == IF ok THEN constSources ELSE {}

\* The calls below the one on top, told what it returned.
Below(ok) == LET rest == SubSeq(stack, 1, Len(stack) - 1)
             IN  IF ok \/ rest = <<>> THEN rest
                 ELSE [rest EXCEPT ![Len(rest)].result = FALSE]

ReturnWith(ok) == /\ stack' = Below(ok)
                  /\ answer' = IF Len(stack) = 1 THEN ok ELSE answer

\* A node that nothing drives fails at once, before the sources are looked at.
ReturnUndriven == /\ stack # <<>>
                  /\ EdgesFrom(Top.node) = {}
                  /\ ReturnWith(FALSE)
                  /\ UNCHANGED <<inputs, entered, constSources>>

Return == /\ stack # <<>>
          /\ EdgesFrom(Top.node) # {}
          /\ Finished(Top)
          /\ ReturnWith(Succeeds(Top))
          /\ constSources' = SourcesLeft(Succeeds(Top))
          /\ UNCHANGED <<inputs, entered>>

Next == Examine \/ ReturnUndriven \/ Return

Spec == Init /\ [][Next]_vars

-------------------------------------------------------------------------------
(* The same question, asked of the whole graph at once.                    *)

\* The nodes the search may go through, as a graph from a node to what drives it.
Drivers == [n \in Node |-> {e.from : e \in {d \in EdgesFrom(n) : ~d.slice /\ Follows(d.from)}}]

Cone == ReachableFrom(Drivers, {root})

\* The edges by which constants reach the root.
ConstantEdges == {e \in edges : e.to \in Cone /\ ~e.slice /\ IsConstant(e.from)}

\* A node of the cone that rules the root out whatever is examined first.
Spoiled(n) == \/ EdgesFrom(n) = {}
              \/ OnlyControls(n)
              \/ \E e \in EdgesFrom(n) \ {d \in edges : d.slice} :
                    ~Follows(e.from) /\ ~SkipsControl(e.from) /\ ~IsConstant(e.from)

\* src/graph.hh:205: a caller may do with the set of constants alone, since it is
\* empty when the node is not driven by constants; and when it is not empty it is
\* complete, whatever order the calls examined their edges in.
\* A driver that is no constant is never overlooked.
SourcesExact == answer # NoAnswer =>
    /\ constSources = IF answer THEN ConstantEdges ELSE {}
    /\ answer => \A n \in Cone : ~Spoiled(n)

\* A design in which every variable and net of the cone has a constant of its own,
\* directly or by way of nodes that drive nothing else, as a register with a reset value
\* has, is recognised in every order.
OwnDrivers(n) ==
    ReachableFrom([m \in Node |-> {f \in Drivers[m] \ {root} : Cardinality({e \in edges : e.from = f}) = 1}], {n})

OwnConstant(n) == \E m \in OwnDrivers(n) : \E e \in EdgesFrom(m) : ~e.slice /\ IsConstant(e.from)

ResetStyle == \A n \in Cone : /\ ~Spoiled(n)
                             /\ \/ HasType(n, "Assign")
                                \/ OwnConstant(n)
                                \/ n = root /\ ConstantEdges # {}

ResetStyleFound == answer # NoAnswer /\ ResetStyle => answer = TRUE

\* No node is entered by two calls that are both still running: the search does
\* not follow a loop of the graph for ever.
NoReentry == \A i, j \in 1..Len(stack) : stack[i].node = stack[j].node => i = j
===============================================================================
