------------------------------ MODULE Extraction ------------------------------
(***************************************************************************)
(* A state machine read off the source text: src/parser.cc lowers a module *)
(* to the graph, Graph::identify_registers and the task of identify_fsms   *)
(* (src/graph.cc) find the register and the constants it is driven by,     *)
(* Graph::is_counter tells counters from the rest, and                     *)
(* FSMResult::extract_fsm_arcs (src/fsm.cc) looks for the transitions.     *)
(*                                                                         *)
(* The containers keyed by address are gone through in any order: a choice *)
(* of the action, or of the operator that gives the set of outcomes.       *)
(***************************************************************************)
EXTENDS Lowering, Circuit

CONSTANT Programs   \* the modules to read: members, and what is said of them below

VARIABLES
    program,
    pending,        \* the members that are not parsed yet, each with the node it hangs below
    graph,
    phase,
    reg,            \* the register that is looked at, Null before
    constSrc,       \* const_src_: its constant edges
    isCounter,      \* is_counter_
    comparisons,    \* comp_edges that are left to look at
    syntaxArc       \* syntax_arc_, by value

vars == <<program, pending, graph, phase, reg, constSrc, isCounter, comparisons, syntaxArc>>

TopModule == [kind |-> "ModuleInstance", name |-> "top", members |-> program.members]

-------------------------------------------------------------------------------
(* Slips that are easy to make in this code, kept to show that the         *)
(* properties below notice them.                                           *)
BelowControl(g, assign, control) == ChildOf(g, assign, control)
RightBelow(g, assign, control) == g.node[assign].parent = control
AnyDriver(g, n) == EdgesFrom(g, n) # {}

-------------------------------------------------------------------------------
(* Registers.                                                              *)

\* The types are compared as a whole, so that a register is not marked again.
IsRegister(g, n) ==
    /\ g.node[n].name # ""
    /\ g.node[n].type \in {{"Net"}, {"Variable"}}
    /\ EdgesFrom(g, n) # {}
    /\ \A i \in EdgesFrom(g, n) :
          ~(HasType(g, g.edge[i].from, "Assign") /\ g.edge[i].type = "Blocking")

WithRegisters(g) ==
    [g EXCEPT !.node = [n \in DOMAIN @ |->
        IF IsRegister(g, n) THEN [@[n] EXCEPT !.type = @ \cup {"Register"}] ELSE @[n]]]

Registers(g) == {n \in DOMAIN g.node : HasType(g, n, "Register")}

-------------------------------------------------------------------------------
(* The constants that drive a register, by the closure that ConstDriver    *)
(* shows constant_driver to compute.                                       *)

Follows(g, n) ==
    \/ HasType(g, n, "Assign")
    \/ HasType(g, n, "Variable")
    \/ /\ HasType(g, n, "Net")
       /\ \/ g.node[n].op # "Ignore" /\ Cardinality(EdgesFrom(g, n)) <= 2
          \/ g.node[n].name # ""

SkipsControl(g, n) == ~Follows(g, n) /\ ~HasType(g, n, "Net") /\ HasType(g, n, "Control")
IsConstant(g, n) == ~Follows(g, n) /\ ~HasType(g, n, "Net") /\ HasType(g, n, "Constant")

\* The edges into n that are looked at.
Drivers(g, n) == {i \in EdgesFrom(g, n) : g.edge[i].type # "Slice"}

Cone(g, r) ==
    Closure([n \in DOMAIN g.node |-> {g.edge[i].from : i \in {j \in Drivers(g, n) : Follows(g, g.edge[j].from)}}], {r})

ConstantEdges(g, r) == {i \in DOMAIN g.edge : /\ g.edge[i].to \in Cone(g, r)
                                              /\ g.edge[i].type # "Slice"
                                              /\ IsConstant(g, g.edge[i].from)}

OnlyControls(g, n) == \A i \in EdgesFrom(g, n) : g.node[g.edge[i].from].type = {"Control"}

Spoiled(g, n) ==
    \/ EdgesFrom(g, n) = {}
    \/ OnlyControls(g, n)
    \/ \E i \in Drivers(g, n) : LET m == g.edge[i].from
                                IN  ~Follows(g, m) /\ ~SkipsControl(g, m) /\ ~IsConstant(g, m)

\* What is entered from n only: it drives nothing else.
OwnDrivers(g, r, n) ==
    Closure([m \in DOMAIN g.node |->
               {f \in {g.edge[i].from : i \in Drivers(g, m)} \ {r} : Follows(g, f) /\ Cardinality(EdgesTo(g, f)) = 1}],
            {n})

\* A node whose call succeeds in whatever order the edges come (ConstDriver:
\* ResetStyleFound).
Settled(g, r, n) ==
    \/ HasType(g, n, "Assign")
    \/ n = r /\ ConstantEdges(g, r) # {}
    \/ \E m \in OwnDrivers(g, r, n) : \E i \in Drivers(g, m) : IsConstant(g, g.edge[i].from)

\* What get_constant_source may return.
Sources(g, r) ==
    CASE \E n \in Cone(g, r) : Spoiled(g, n) -> {{}}
      [] \A n \in Cone(g, r) : ~Spoiled(g, n) /\ Settled(g, r, n) -> {ConstantEdges(g, r)}
      [] OTHER -> {{}, ConstantEdges(g, r)}

\* has_control_loop: a walk through a control node, as ControlLoop shows.
HasControlLoop(g, n) ==
    \E c \in Closure(Successors(g), Successors(g)[n]) :
        HasType(g, c, "Control") /\ Reachable(g, c, n)

-------------------------------------------------------------------------------
(* Counters.                                                               *)

ValueFrom(g, i) == g.node[g.edge[i].from].value

IsCounterOp(g, n) == g.node[n].type = {"Net"} /\ g.node[n].op \in {"Add", "Subtract"}

\* An assignment of a sum that the target goes into.
TakesSum(g, target, n) ==
    /\ HasType(g, n, "Assign")
    /\ \E i \in EdgesFrom(g, n) : /\ ~IsControl(g.edge[i])
                                  /\ IsCounterOp(g, g.edge[i].from)
                                  /\ Reachable(g, target, g.edge[i].from)

InOrder(g, n) == SelectSeq([i \in DOMAIN g.edge |-> i], LAMBDA i : g.edge[i].from = n)

\* What n drives and nothing else does.
SoleTargets(g, n) ==
    SelectSeq([k \in DOMAIN InOrder(g, n) |-> g.edge[InOrder(g, n)[k]].to],
              LAMBDA m : Cardinality(EdgesFrom(g, m)) <= 1)

\* is_counter_: the breadth first search gives up as soon as it meets the target.
RECURSIVE FeedsCounter(_, _, _, _)
FeedsCounter(g, target, queue, visited) ==
    /\ queue # <<>>
    /\ Head(queue) # target
    /\ IF Head(queue) \in visited THEN FeedsCounter(g, target, Tail(queue), visited)
       ELSE \/ TakesSum(g, target, Head(queue))
            \/ FeedsCounter(g, target, Tail(queue) \o SoleTargets(g, Head(queue)), visited \cup {Head(queue)})

\* A constant that is an operand of a sum, or assigned to what goes into one.
IsArithmetic(g, r, i) ==
    LET to == g.edge[i].to
        assigned == g.edge[CHOOSE e \in EdgesTo(g, to) : TRUE].to
    IN  IF g.node[to].type = {"Net"} THEN IsCounterOp(g, to)
        ELSE FeedsCounter(g, r, <<assigned>>, {})

\* Slip: one value besides the step is not enough.
TwoBesides(g, r, kept) ==
    LET arithmetic == {i \in kept : IsArithmetic(g, r, i)}
    IN  arithmetic # {} /\ Cardinality(kept) - Cardinality(arithmetic) > 1

\* is_counter when kept has the edge that is taken for each value.
CounterVerdict(g, r, kept) ==
    LET arithmetic == {i \in kept : IsArithmetic(g, r, i)}
    IN  \/ \E i \in kept : g.node[g.edge[i].to].type = {"Net"} /\ ~IsCounterOp(g, g.edge[i].to)
        \/ arithmetic # {} /\ Cardinality(kept) - Cardinality(arithmetic) >= 1

\* Of the edges of one value the one that the unordered_set has first.
Kept(g, srcs) ==
    LET values == {ValueFrom(g, i) : i \in srcs}
    IN  {{pick[v] : v \in values} :
            pick \in {p \in [values -> srcs] : \A v \in values : ValueFrom(g, p[v]) = v}}

CounterVerdicts(g, r, srcs) == {CounterVerdict(g, r, kept) : kept \in Kept(g, srcs)}

\* unique_states: one state for each value.
UniqueStates(g, srcs) == {ValueFrom(g, i) : i \in srcs}

-------------------------------------------------------------------------------
(* Comparisons.                                                            *)

\* A search that comes back to where it was never ends.
Endless == -1

OneDriver(g, n) == Cardinality(EdgesFrom(g, n)) = 1

\* get_direct_const from the node n: Null when there is none.
RECURSIVE DirectConstFrom(_, _, _)
DirectConstFrom(g, n, behind) ==
    CASE n \in behind -> Endless
      [] n \notin behind /\ g.node[n].type = {"Constant"} -> n
      [] n \notin behind /\ g.node[n].type # {"Constant"} /\ ~OneDriver(g, n) -> Null
      [] OTHER -> DirectConstFrom(g, g.edge[CHOOSE i \in EdgesFrom(g, n) : TRUE].from, behind \cup {n})

DirectConst(g, n) == DirectConstFrom(g, n, {})

\* What a comparison may be with: whichever operand is met first.
ComparedWith(g, c) == {DirectConst(g, g.edge[i].from) : i \in EdgesFrom(g, c)} \ {Null, Endless}

\* What comp_cond asks of the edge i, and what it finds for the operands, until it has a
\* constant.
IsEqual(g, i) == IsAssign(g.edge[i]) /\ g.node[g.edge[i].to].op = "Equal"
Operands(g, c) == {DirectConst(g, g.edge[e].from) : e \in {f \in EdgesFrom(g, c) : IsAssign(g.edge[f])}}
IsComparison(g, i) == IsEqual(g, i) /\ Operands(g, g.edge[i].to) \ {Null, Endless} # {}

\* comp_terminate
EndsChain(g, i) ==
    /\ IsAssign(g.edge[i])
    /\ \/ g.node[g.edge[i].to].op # "Ignore"
       \/ Cardinality(EdgesFrom(g, g.edge[i].to)) > 1

\* find_connection_cond with the two: edges from the nodes that a search reaches which
\* does not go on where the chain ends.
EqualEdges(g, r) ==
    LET met == Closure([n \in DOMAIN g.node |->
                          {g.edge[i].to : i \in {e \in EdgesTo(g, n) : ~EndsChain(g, e)}}], {r})
    IN  {i \in DOMAIN g.edge : g.edge[i].from \in met /\ IsEqual(g, i)}

ComparisonEdges(g, r) == {i \in EqualEdges(g, r) : IsComparison(g, i)}

\* Whether the search for an operand of some comparison may, or must, go on for ever.
MayHang(g, r) == \E i \in EqualEdges(g, r) : Endless \in Operands(g, g.edge[i].to)
MustHang(g, r) == \E i \in EqualEdges(g, r) : Endless \in Operands(g, g.edge[i].to) /\ ~IsComparison(g, i)

\* counter_values: what a counter is compared with, and what it is assigned.
CounterValues(g, r, srcs) ==
    {g.node[n].value : n \in UNION {ComparedWith(g, g.edge[i].to) : i \in ComparisonEdges(g, r)}}
    \cup {ValueFrom(g, i) : i \in {e \in srcs : HasType(g, g.edge[e].to, "Assign")}}

-------------------------------------------------------------------------------
(* Arcs.                                                                   *)

\* The one edge from n, when there is one only.
Only(g, n) == CHOOSE i \in EdgesTo(g, n) : TRUE
GoesOn(g, n) == Cardinality(EdgesTo(g, n)) = 1 /\ IsAssign(g.edge[Only(g, n)])

RECURSIVE EndOfChain(_, _)
EndOfChain(g, n) == IF GoesOn(g, n) THEN EndOfChain(g, g.edge[Only(g, n)].to) ELSE n

\* A control node that is no negation, and has a parent.
Controls(g, n) == /\ HasType(g, n, "Control")
                  /\ g.node[n].op \notin {"LogicalNot", "BitwiseNot"}
                  /\ g.node[n].parent # Null

\* From a named wire the search goes on to named nets and reductions, and through
\* whatever has one assignment as its only fan-out.
WireStep(g, i) ==
    LET n == g.edge[i].to
    IN  /\ ~Controls(g, n) /\ IsAssign(g.edge[i]) /\ ~HasType(g, n, "Control")
        /\ \/ g.node[n].name # ""
           \/ g.node[n].op \in {"BinaryAnd", "BinaryOr"}
           \/ GoesOn(g, n)

WireControls(g, wire) ==
    LET met == Closure([n \in DOMAIN g.node |->
                          {g.edge[i].to : i \in {e \in EdgesTo(g, n) : WireStep(g, e)}}], {wire})
    IN  {n \in UNION {Successors(g)[m] : m \in met} : Controls(g, n)}

\* node_comp_control_set for the comparison c.
ControlSet(g, c) ==
    IF HasType(g, c, "Control") THEN {c}
    ELSE LET end == EndOfChain(g, c)
         IN  IF g.node[end].name = "" THEN {g.edge[Only(g, c)].to} ELSE WireControls(g, end)

\* The assertion that a condition has 1 fan-out.
FanOutHolds(g, c) == HasType(g, c, "Control") \/ Cardinality(EdgesTo(g, c)) = 1

\* Below the control, and not below its negation.
UnderControl(g, assign, control) ==
    LET negations == {g.edge[i].to : i \in {e \in EdgesTo(g, control) : g.edge[e].type = "False"}}
    IN  /\ ChildOf(g, assign, control)
        /\ \A n \in negations : ~ChildOf(g, assign, n)

\* The sources assigned under some control of the comparison c.
Targets(g, srcs, c) ==
    {i \in srcs : \E n \in ControlSet(g, c) : UnderControl(g, g.edge[i].to, n)}

-------------------------------------------------------------------------------
Init == /\ program \in Programs
        /\ pending = Below(<<TopModule>>, Null)
        /\ graph = EmptyGraph
        /\ phase = "parse"
        /\ reg = Null
        /\ constSrc = {}
        /\ isCounter = FALSE
        /\ comparisons = {}
        /\ syntaxArc = {}

ParseMember == /\ phase = "parse"
               /\ pending # <<>>
               /\ LET m == Head(pending).member
                      parent == Head(pending).parent
                  IN  /\ graph' = Member(graph, m, parent)
                      /\ \E array \in ArrayNames(graph', m, parent) :
                            pending' = Within(graph', m, parent, array) \o Tail(pending)
               /\ UNCHANGED <<program, phase, reg, constSrc, isCounter, comparisons, syntaxArc>>

IdentifyRegisters == /\ phase = "parse"
                     /\ pending = <<>>
                     /\ graph' = WithRegisters(graph)
                     /\ phase' = "detect"
                     /\ UNCHANGED <<program, pending, reg, constSrc, isCounter, comparisons, syntaxArc>>

\* The registers below the top module, which identify_fsms is called with.
Candidates == {r \in Registers(graph) : ChildOf(graph, r, graph.key["top"])}

\* One of them, with what get_constant_source and is_counter say of it.
Examine(r, srcs) ==
    /\ phase = "detect"
    /\ reg' = r
    /\ constSrc' = srcs
    /\ UNCHANGED <<program, pending, graph, syntaxArc>>

Accept(r, srcs, counter) ==
    /\ Examine(r, srcs)
    /\ Cardinality(srcs) > 1
    /\ HasControlLoop(graph, r)
    /\ counter \/ Cardinality(UniqueStates(graph, srcs)) >= 2
    /\ isCounter' = counter
    /\ \/ /\ counter \/ ~MustHang(graph, r)
          /\ comparisons' = IF counter THEN {} ELSE ComparisonEdges(graph, r)
          /\ phase' = "extract"
       \/ /\ ~counter /\ MayHang(graph, r)
          /\ comparisons' = {}
          /\ phase' = "hangs"

Reject(r, srcs, counter) ==
    /\ Examine(r, srcs)
    /\ \/ Cardinality(srcs) <= 1
       \/ ~HasControlLoop(graph, r)
       \/ ~counter /\ Cardinality(UniqueStates(graph, srcs)) < 2
    /\ phase' = "rejected"
    /\ UNCHANGED <<isCounter, comparisons>>

Compare(i) ==
    LET c == graph.edge[i].to
    IN  /\ phase = "extract"
        /\ FanOutHolds(graph, c)
        /\ \E from \in ComparedWith(graph, c) :
              syntaxArc' = syntaxArc \cup {<<graph.node[from].value, ValueFrom(graph, e)>> :
                                                e \in Targets(graph, constSrc, c)}
        /\ comparisons' = comparisons \ {i}
        /\ UNCHANGED <<program, pending, graph, phase, reg, constSrc, isCounter>>

AssertionFails(i) ==
    /\ phase = "extract"
    /\ ~FanOutHolds(graph, graph.edge[i].to)
    /\ phase' = "failed"
    /\ UNCHANGED <<program, pending, graph, reg, constSrc, isCounter, comparisons, syntaxArc>>

Extracted == /\ phase = "extract"
             /\ comparisons = {}
             /\ phase' = "done"
             /\ UNCHANGED <<program, pending, graph, reg, constSrc, isCounter, comparisons, syntaxArc>>

Next == \/ ParseMember \/ IdentifyRegisters \/ Extracted
        \/ \E r \in Candidates : \E srcs \in Sources(graph, r) :
              \E counter \in CounterVerdicts(graph, r, srcs) : Accept(r, srcs, counter) \/ Reject(r, srcs, counter)
        \/ \E i \in comparisons : Compare(i) \/ AssertionFails(i)

Spec == Init /\ [][Next]_vars

-------------------------------------------------------------------------------
Examined == phase \notin {"parse", "detect"}

\* The register s of a program after one clock edge from the value v.
After(v, x, rst, any) ==
    Clock(program.members, [s |-> v, x |-> x, rst |-> rst, any |-> any]
                           @@ [name \in {"p", "q"} |-> [a |-> 0, b |-> 0]]
                           @@ [name \in {"n", "t", "s1", "w0", "w1", "y0", "y1", "y2", "y3"} |-> 0]).s

\* What a machine with the values V shows: those out of the range of a word are one, and
\* an unknown value is 0.
Shown(V) == {InRange(v) : v \in V} \cup (IF program.style = "unknown" THEN {0} ELSE {})

\* A register that is assigned constants as its own value demands is a state machine
\* with just those states if there are two of them, however the source is written:
\* with one process or two, through wires or not, with names or with numbers, in an
\* instance or in a generate block.
MachineFound ==
    Examined /\ ~program.counter =>
        /\ reg = graph.key["s"] =>
              /\ (phase # "rejected") <=> (Cardinality(Shown(program.assigned)) >= 2)
              /\ UniqueStates(graph, constSrc) = Shown(program.assigned)
        /\ phase # "rejected" => reg = graph.key["s"] /\ ~isCounter

\* The register is looked at, unless it was used before it was declared.  Its name is that
\* of the design, except in a generate block, whose own name is dropped, and in an array
\* that has no name.  And below the top module select finds every node by its handle
\* name, unless the names of two generate blocks were dropped that have a wire of the
\* same name.
NamesResolve ==
    phase = "detect" =>
        /\ graph.key["s"] \in Candidates <=> program.place # "late"
        /\ program.place \notin {"late", "generate", "twins", "unnamed"} =>
               HandleName(graph, graph.key["s"]) = program.path
        /\ program.place # "twins" =>
               \A n \in DOMAIN graph.node :
                   ChildOf(graph, n, graph.key["top"])
                   /\ (\A i \in DOMAIN HandleName(graph, n) : HandleName(graph, n)[i] # "")
                       => SelectNode(graph, HandleName(graph, n)) = n

\* The analysis comes to its end: the search for what a register is compared with, unless
\* that is a register that only drives itself; and the assertion of src/fsm.cc:118 holds,
\* that a comparison which is no item of a case has one fan-out, unless a case is over
\* the comparison.
AnalysisEnds == /\ program.style # "toggle" => phase # "hangs"
                /\ program.style # "flag" => phase # "failed"

\* The values of a word of four bits that are shown as v.
ShownAs(v) == IF v = -1 THEN 8..15 ELSE {v}

\* src/fsm.cc:102: every arc is a transition that the register can make.
ZeroFalsePositive ==
    phase = "done" =>
        \A arc \in syntaxArc : \E v \in ShownAs(arc[1]), x, rst \in {0, 1}, any \in {0, 3} :
            InRange(After(v, x, rst, any)) = arc[2]

\* It is, unless a wire is negated, a case hangs below a default, or the register is
\* compared with the complement of a constant.
ArcsPossible == program.style \notin {"negated", "inner", "complement"} => ZeroFalsePositive

\* When the register is compared by a case, by a chain of conditions or through wires
\* that drive something else too, every change from a compared state to another is
\* among the arcs.
ArcsComplete ==
    phase = "done" /\ ~program.counter /\ program.branches /\ program.constant # "wide"
    /\ program.style \in {"case", "default", "chain", "wires"} =>
        \A v, x \in {0, 1} :
            After(v, x, 0, 0) # v => <<v, After(v, x, 0, 0)>> \in syntaxArc

\* A register that a constant is added to or taken from is a counter unless it is also
\* assigned that constant, and the values to check are its limit and what it is
\* assigned, never the step.
CounterExact ==
    Examined /\ program.counter /\ program.step \notin program.assigned =>
        /\ phase # "rejected" /\ isCounter
        /\ CounterValues(graph, reg, constSrc) = {program.limit} \cup program.assigned
===============================================================================
