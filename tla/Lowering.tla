------------------------------- MODULE Lowering -------------------------------
(***************************************************************************)
(* From the syntax tree that slang writes to the graph: the parse_...      *)
(* functions of src/parser.cc, one operator per kind of tree, each from a  *)
(* graph and a tree to the graph that comes of it.                         *)
(*                                                                         *)
(* A tree is a record with its kind.  A symbol is its name, which stands   *)
(* for its address too.  The functions for expressions return a node: Lower *)
(* gives [graph, at], where at is Null for what returns nullptr.           *)
(***************************************************************************)
EXTENDS Netlist, Literals

Made(g) == [graph |-> g, at |-> Newest(g)]
At(g, n) == [graph |-> g, at |-> n]

OpNode(op) == [Blank EXCEPT !.op = op]
Constant(name, value) == [Blank EXCEPT !.name = name, !.type = {"Constant"}, !.value = value]
ControlNode(parent) == [Blank EXCEPT !.type = {"Control"}, !.parent = parent]

\* The operators the analyses tell apart; any other leaves the op at Ignore.
BinaryOps == {"Add", "Subtract", "Equal"}
UnaryOps == {"LogicalNot", "BitwiseNot", "BinaryAnd", "BinaryOr"}
OpIn(ops, op) == IF op \in ops THEN op ELSE "Ignore"

-------------------------------------------------------------------------------
(* Expressions.                                                            *)

\* A symbol that is not known yet becomes a constant, if it is one, or an empty node
\* that its declaration is to fill in.
NamedValue(g, e) ==
    LET new == IF e.constant THEN Constant(e.name, NumLiteral(e.text)) ELSE Blank
    IN  IF HasNode(g, e.name) THEN At(g, g.key[e.name])
        ELSE At(AddKeyed(g, e.name, new), Newest(g) + 1)

\* parent is the node of the statement, port or call that the expression is directly in,
\* and Null for the operand of another expression.  Only a call keeps it.
RECURSIVE Lower(_, _, _)

\* Some operands in turn: the graph, and the node of each.
RECURSIVE LowerAll(_, _, _)
LowerAll(g, es, parent) ==
    IF es = <<>> THEN [graph |-> g, at |-> <<>>]
    ELSE LET first == Lower(g, Head(es), parent)
             rest == LowerAll(first.graph, Tail(es), parent)
         IN  [graph |-> rest.graph, at |-> <<first.at>> \o rest.at]

\* An edge of one type from each of some nodes, to another.
RECURSIVE Join(_, _, _, _)
Join(g, froms, to, type) ==
    IF froms = <<>> THEN g
    ELSE Join(AddEdge(g, Head(froms), to, type), Tail(froms), to, type)

\* All of args.at drive the node n, or a new one.
Drive(args, n) == At(Join(args.graph, args.at, n, "Blocking"), n)
DriveNew(args, node) == Drive([args EXCEPT !.graph = AddNode(@, node)], Newest(args.graph) + 1)

Operation(g, operands, op) == DriveNew(LowerAll(g, operands, Null), OpNode(op))

\* The node of a concatenation is made before those of its operands.
Concatenation(g, operands) == Drive(LowerAll(AddNode(g, Blank), operands, Null), Newest(g) + 1)

\* Whoever picks a slice drives the whole value, by an edge of its own type.
Sliced(args) == At(Join(args.graph, Tail(args.at), args.at[1], "Slice"), args.at[1])
ElementSelect(g, e) == Sliced(LowerAll(g, <<e.value, e.selector>>, Null))
RangeSelect(g, e) == Sliced(LowerAll(g, <<e.value, e.left, e.right>>, Null))

\* The predicate drives a control node; that and both values drive the result.
Predicated(args) ==
    LET control == Newest(args.graph) + 1
    IN  [graph |-> AddEdge(AddNode(args.graph, ControlNode(Null)), args.at[1], control, "Blocking"),
         at |-> [args.at EXCEPT ![1] = control]]

Ternary(g, e) == DriveNew(Predicated(LowerAll(g, <<e.pred, e.left, e.right>>, Null)),
                          [OpNode("Ternary") EXCEPT !.type = {"Control", "Assign"}])

\* Neither a change of width nor a number of copies leaves a trace.
Conversion(g, e) == Lower(g, e.operand, Null)
Replication(g, e) == Lower(g, e.concat, Null)

\* A call is not looked into: what it is given drives one node.  That is told its parent
\* only after it was added, so it is not among the children.  It is the parent of the
\* calls among its arguments.  That every argument yields a node is a precondition
\* here: for one that is left out the code adds an edge to no node.
CallNode(g, parent) == [AddNode(g, Blank) EXCEPT !.node[Newest(g) + 1].parent = parent]
Call(g, e, parent) == Drive(LowerAll(CallNode(g, parent), e.arguments, Newest(g) + 1), Newest(g) + 1)

\* What field names; the assertion that there is such a member is a precondition here.
MemberOf(value, field) == At(value.graph, value.graph.node[value.at].members[field])

Lower(g, e, parent) ==
    CASE e.kind = "NamedValue" -> NamedValue(g, e)
      [] e.kind = "IntegerLiteral" -> Made(AddNode(g, Constant("", NumLiteral(e.text))))
      [] e.kind = "BinaryOp" -> Operation(g, <<e.left, e.right>>, OpIn(BinaryOps, e.op))
      [] e.kind = "UnaryOp" -> Operation(g, <<e.operand>>, OpIn(UnaryOps, e.op))
      [] e.kind = "ConditionalOp" -> Ternary(g, e)
      [] e.kind = "Concatenation" -> Concatenation(g, e.operands)
      [] e.kind = "ElementSelect" -> ElementSelect(g, e)
      [] e.kind = "RangeSelect" -> RangeSelect(g, e)
      [] e.kind = "MemberAccess" -> MemberOf(Lower(g, e.value, Null), e.field)
      [] e.kind = "Conversion" -> Conversion(g, e)
      [] e.kind = "Replication" -> Replication(g, e)
      [] e.kind = "Call" -> Call(g, e, parent)
      [] e.kind = "EmptyArgument" -> At(g, Null)

-------------------------------------------------------------------------------
(* Statements, below the node parent.  That a condition, and an expression  *)
(* of a case, yields a node is asserted in the code, and assumed here.      *)

\* A slip that is easy to make, kept to show that the properties of Extraction notice it.
UncontrolledAssignment(g, n, parent, left, right, nonBlocking) ==
    LET driven == AddEdge(g, right, n, "Blocking")
        assigned == AddEdge(driven, n, left, IF nonBlocking THEN "NonBlocking" ELSE "Blocking")
    IN  [assigned EXCEPT !.node[n].parent = parent]

\* add_assignment_node for the node n made for the assignment.
AddAssignment(g, n, parent, left, right, nonBlocking) ==
    LET driven == AddEdge(g, right, n, "Blocking")
        controlled == IF right # parent /\ parent # Null /\ HasType(g, parent, "Control")
                      THEN AddEdge(driven, parent, n, "Control") ELSE driven
        assigned == AddEdge(controlled, n, left, IF nonBlocking THEN "NonBlocking" ELSE "Blocking")
    IN  [assigned EXCEPT !.node[n].parent = parent]

\* Member by member for a packed struct, all of them through one node, since they are
\* given one id.
RECURSIVE AssignMembers(_, _, _, _, _, _, _)
AssignMembers(g, n, parent, left, right, nonBlocking, names) ==
    IF names = {} THEN g
    ELSE LET name == CHOOSE m \in names : TRUE
             done == AddAssignment(g, n, parent, g.node[left].members[name],
                                   g.node[right].members[name], nonBlocking)
         IN  AssignMembers(done, n, parent, left, right, nonBlocking, names \ {name})

\* What has no right hand side, as the port of an instance, is driven by the parent.
AssignSides(g, parent, left, right, nonBlocking) ==
    LET members == DOMAIN g.node[right].members
    IN  IF members = {} THEN AddAssignment(g, Newest(g), parent, left, right, nonBlocking)
        ELSE AssignMembers(g, Newest(g), parent, left, right, nonBlocking, members)

Assigned(sides, parent, nonBlocking) ==
    AssignSides(AddNode(sides.graph, [Blank EXCEPT !.type = {"Assign"}]), parent, sides.at[1],
                IF sides.at[2] = Null THEN parent ELSE sides.at[2], nonBlocking)

Assignment(g, s, parent) == Assigned(LowerAll(g, <<s.left, s.right>>, parent), parent, s.nonBlocking)

RECURSIVE Statement(_, _, _)

StatementBelow(control, s) == Statement(control.graph, s, control.at)

\* A statement inside another is controlled by that, when it is lowered.
Nested(g, parent, n) ==
    IF parent # Null /\ HasType(g, parent, "Control") THEN AddEdge(g, parent, n, "Control") ELSE g

\* The branches hang below the control node of the condition, and below its negation.
Else(g, s, control) ==
    LET negated == AddNode(g, [ControlNode(control) EXCEPT !.op = "LogicalNot"])
    IN  IF s.kind = "None" THEN g
        ELSE Statement(AddEdge(negated, control, Newest(g) + 1, "False"), s, Newest(g) + 1)

Branches(cond, s, parent) ==
    LET control == Newest(cond.graph) + 1
        made == AddNode(cond.graph, ControlNode(parent))
        true == Statement(AddEdge(made, cond.at, control, "Blocking"), s.ifTrue, control)
    IN  Nested(Else(true, s.ifFalse, control), parent, control)

Conditional(g, s, parent) == Branches(Lower(g, s.cond, parent), s, parent)

\* One item of a case: the expressions drive a node, that and the condition a control
\* node, and the statement hangs below it.
Matched(joined, cond, parent) ==
    DriveNew([joined EXCEPT !.at = <<@, cond>>], [ControlNode(parent) EXCEPT !.op = "Equal"])

CaseItem(g, item, cond, parent) ==
    StatementBelow(Matched(DriveNew(LowerAll(g, item.expressions, parent), [Blank EXCEPT !.parent = parent]), cond, parent),
                   item.stmt)

RECURSIVE CaseItems(_, _, _, _)
CaseItems(g, items, cond, parent) ==
    IF items = <<>> THEN g
    ELSE CaseItems(CaseItem(g, Head(items), cond, parent), Tail(items), cond, parent)

Default(g, s, cond, parent) ==
    IF s.kind = "None" THEN g
    ELSE StatementBelow(DriveNew([graph |-> g, at |-> <<cond>>], ControlNode(parent)), s)

Items(cond, s, parent) ==
    Nested(Default(CaseItems(cond.graph, s.items, cond.at, parent), s.default, cond.at, parent), parent, cond.at)

Case(g, s, parent) == Items(Lower(g, s.expr, parent), s, parent)

RECURSIVE Statements(_, _, _)
Statements(g, list, parent) ==
    IF list = <<>> THEN g
    ELSE Statements(Statement(g, Head(list), parent), Tail(list), parent)

\* The body of a loop is lowered once: a part of a signal stands for all of it.
ForLoop(g, s, parent) == Statement(g, s.body, parent)

\* A block gets a node of its own, but what is in it hangs below the parent.
Statement(g, s, parent) ==
    CASE s.kind = "Assignment" -> Assignment(g, s, parent)
      [] s.kind = "Conditional" -> Conditional(g, s, parent)
      [] s.kind = "Case" -> Case(g, s, parent)
      [] s.kind = "List" -> Statements(g, s.list, parent)
      [] s.kind = "Block" -> Statement(AddNode(g, [Blank EXCEPT !.parent = parent]), s.body, parent)
      [] s.kind = "ForLoop" -> ForLoop(g, s, parent)
      [] s.kind = "Call" -> Call(g, s, parent).graph
      [] s.kind \in {"None", "VariableDeclaration"} -> g

-------------------------------------------------------------------------------
(* Members of a module.                                                    *)

\* The event of a process stays with the signal.
Mark(signal, edge) == [signal.graph EXCEPT !.node[signal.at].event = edge]

RECURSIVE Events(_, _, _)
Events(g, events, parent) ==
    IF events = <<>> THEN g
    ELSE Events(Mark(Lower(g, Head(events).expr, parent), Head(events).edge), Tail(events), parent)

\* The members of a packed struct are nodes of their own.
RECURSIVE AddMembers(_, _, _)
AddMembers(g, n, names) ==
    IF names = {} THEN g
    ELSE LET name == CHOOSE m \in names : TRUE
             made == AddNode(g, [Blank EXCEPT !.name = name, !.parent = n])
         IN  AddMembers([made EXCEPT !.node[n].members = (name :> Newest(made)) @@ @], n, names \ {name})

\* The connection of a port: an assignment, or an expression that is then assigned.
AssignTo(value, n) ==
    IF value.at = Null THEN value.graph
    ELSE AddEdge(DriveNew([value EXCEPT !.at = <<@>>], [Blank EXCEPT !.type = {"Assign"}]).graph,
                 Newest(value.graph) + 1, n, "Blocking")

Connect(g, n, connection) ==
    CASE connection.kind = "None" -> g
      [] connection.kind = "Assignment" -> Assignment(g, connection, n)
      [] OTHER -> AssignTo(Lower(g, connection, n), n)

\* A port shares its node with the variable inside, by a second address.
Aliased(g, key, n) == IF key = "" THEN g ELSE Alias(g, key, n)

Direct(g, m, n) == IF m.kind = "Port" THEN [g EXCEPT !.node[n].port = m.direction] ELSE g

Declared(g, m) ==
    LET n == g.key[m.symbol]
        whole == AddMembers(g, n, m.members \ DOMAIN g.node[n].members)
    IN  Direct(Connect(Aliased(whole, m.internal, n), n, m.connection), m, n)

Net(g, m, parent) ==
    Declared(AddKeyed(g, m.symbol, [Blank EXCEPT !.name = m.name, !.type = {"Variable"}, !.parent = parent]), m)

Parameter(g, m, parent) ==
    LET declared == AddKeyed(g, m.symbol, [Constant(m.name, 0) EXCEPT !.parent = parent])
    IN  [declared EXCEPT !.node[declared.key[m.symbol]].value = NumLiteral(m.text)]

ContinuousAssignment(g, m, parent) == Assignment(g, m.assignment, parent)
ProceduralBlock(g, m, parent) ==
    Statement(Events(AddNode(g, [Blank EXCEPT !.parent = parent]), m.events, parent), m.body, parent)

\* The node of an instance; its members, parsed next, hang below it.
Instance(g, m, parent) ==
    AddKeyed(g, m.name, [Blank EXCEPT !.name = m.name, !.type = {"Module"}, !.parent = parent])

\* A genvar is known to its scope by name.
Genvar(g, m, parent) ==
    LET made == AddNode(g, [Blank EXCEPT !.name = m.name])
    IN  [made EXCEPT !.node[parent].members = (m.name :> Newest(made)) @@ @]

\* The blocks of an array that has no name are counted, those of others are not.
BlockArray(g, m, parent) == IF m.name = "" THEN [g EXCEPT !.node[parent].genBlocks = @ + 1] ELSE g

RECURSIVE ParseParameters(_, _)
ParseParameters(g, params) ==
    IF params = <<>> THEN g ELSE ParseParameters(Parameter(g, Head(params), Null), Tail(params))

\* The number of a block is the value of the first parameter that is a genvar of
\* the scope, or of the first parameter.  The block is a module without a definition, named by
\* the array and the number; without parameters there is none.
NumberedModule(g, array, number, parent) ==
    AddNode(g, [Blank EXCEPT !.name = array \o "[" \o ToString(number) \o "]", !.type = {"Module"},
                             !.parent = parent])

\* Slip: the first parameter, whatever the genvars of the scope are.
FirstParameter(g, params, genvars, array, parent) ==
    NumberedModule(ParseParameters(g, params), array, NumLiteral(params[1].text), parent)

BlockOf(g, params, genvars, array, parent) ==
    LET upTo == IF genvars = {} THEN Len(params) ELSE CHOOSE i \in genvars : \A j \in genvars : i <= j
        number == NumLiteral(params[IF genvars = {} THEN 1 ELSE upTo].text)
    IN  IF params = <<>> THEN g
        ELSE NumberedModule(ParseParameters(g, SubSeq(params, 1, upTo)), array, number, parent)

ParametersOf(m) == SelectSeq(m.members, LAMBDA p : p.kind = "Parameter")

ArrayBlock(g, m, parent) ==
    LET params == ParametersOf(m)
    IN  BlockOf(g, params, {i \in DOMAIN params : params[i].name \in DOMAIN g.node[parent].members}, m.array, parent)

\* What leaves the graph as it is: a generate block, whose members are parsed next, a
\* gate, and the kinds nobody cares about.
NoNode == {"GenerateBlock", "Gate", "TypeAlias", "StatementBlock", "Subroutine"}

Member(g, m, parent) ==
    CASE m.kind \in {"Net", "Variable", "Port"} -> Net(g, m, parent)
      [] m.kind = "Parameter" -> Parameter(g, m, parent)
      [] m.kind = "ContinuousAssign" -> ContinuousAssignment(g, m, parent)
      [] m.kind = "ProceduralBlock" -> ProceduralBlock(g, m, parent)
      [] m.kind = "ModuleInstance" -> Instance(g, m, parent)
      [] m.kind = "Genvar" -> Genvar(g, m, parent)
      [] m.kind = "GenerateBlockArray" -> BlockArray(g, m, parent)
      [] m.kind = "ArrayBlock" -> ArrayBlock(g, m, parent)
      [] m.kind \in NoNode -> g

-------------------------------------------------------------------------------
(* What is parsed next: the members of m, each with the node it hangs      *)
(* below.  after is the graph that m gave.                                 *)
Below(members, parent) == [i \in DOMAIN members |-> [member |-> members[i], parent |-> parent]]

Instantiated(m) == IF m.instantiated THEN m.members ELSE <<>>

Within(after, m, parent, array) ==
    CASE m.kind = "ModuleInstance" -> Below(m.members, after.key[m.name])
      [] m.kind = "GenerateBlock" -> Below(Instantiated(m), parent)
      [] m.kind = "GenerateBlockArray" ->
            Below([i \in DOMAIN m.blocks |-> [array |-> array, kind |-> "ArrayBlock"] @@ m.blocks[i]], parent)
      [] m.kind = "ArrayBlock" ->
            IF ParametersOf(m) = <<>> THEN <<>> ELSE Below(Instantiated(m), Newest(after))
      [] OTHER -> <<>>

\* The name of an array: for one that has none the code keeps a view of a string that is
\* gone, so that its name is whatever is left there.
ArrayNames(after, m, parent) ==
    CASE m.kind = "GenerateBlockArray" /\ m.name = "" ->
            {"genblk" \o ToString(after.node[parent].genBlocks), "freed"}
      [] m.kind = "GenerateBlockArray" /\ m.name # "" -> {m.name}
      [] OTHER -> {""}
===============================================================================
