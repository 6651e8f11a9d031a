-------------------------------- MODULE Circuit --------------------------------
(***************************************************************************)
(* What a syntax tree means: the values a register can take from one clock *)
(* edge to the next.  This is the language, not the program, and is here   *)
(* to be compared with what the program reads off the graph.  An unknown   *)
(* value is any value, a call gives back what it is given, and there are   *)
(* two copies of one bit in a replication.                                 *)
(***************************************************************************)
EXTENDS Integers, Sequences

Word == 0..3

Truth(b) == IF b THEN 1 ELSE 0

RECURSIVE Value(_, _)
Value(now, e) ==
    CASE e.kind = "NamedValue" -> IF e.constant THEN e.value ELSE now[e.name]
      [] e.kind = "IntegerLiteral" -> IF e.known THEN e.value ELSE now["any"]
      [] e.kind = "Conversion" -> Value(now, e.operand)   \* of one width to another that has room
      [] e.kind = "MemberAccess" -> Value(now, e.value)[e.field]
      [] e.kind = "Concatenation" -> (2 * Value(now, e.operands[1]) + Value(now, e.operands[2])) % 4
      [] e.kind = "ElementSelect" -> (Value(now, e.value) \div 2 ^ Value(now, e.selector)) % 2
      [] e.kind = "RangeSelect" -> (Value(now, e.value) \div 2 ^ Value(now, e.right))
                                   % 2 ^ (Value(now, e.left) - Value(now, e.right) + 1)
      [] e.kind = "Replication" -> 3 * Value(now, e.concat)
      [] e.kind = "Call" -> Value(now, e.arguments[1])
      [] e.kind = "UnaryOp" /\ e.op = "LogicalNot" -> Truth(Value(now, e.operand) = 0)
      [] e.kind = "UnaryOp" /\ e.op = "BitwiseNot" -> 3 - Value(now, e.operand)
      [] e.kind = "ConditionalOp" -> Value(now, IF Value(now, e.pred) # 0 THEN e.left ELSE e.right)
      [] e.kind = "BinaryOp" ->
            LET left == Value(now, e.left)
                right == Value(now, e.right)
            IN  CASE e.op = "Equal" -> Truth(left = right)
                  [] e.op = "And" -> Truth(left # 0 /\ right # 0)
                  [] e.op = "Add" -> (left + right) % 4
                  [] e.op = "Subtract" -> (left - right) % 4

\* Statements run on the values that are there now and those that the clock edge will
\* bring; only a nonblocking assignment leaves the first alone.
With(values, left, value) ==
    IF left.kind = "MemberAccess" THEN [values EXCEPT ![left.value.name][left.field] = value]
    ELSE [values EXCEPT ![left.name] = value]

Assign(run, s) ==
    LET value == Value(run.now, s.right)
    IN  [now |-> IF s.nonBlocking THEN run.now ELSE With(run.now, s.left, value),
         next |-> With(run.next, s.left, value)]

RECURSIVE Execute(_, _)
Execute(run, s) ==
    CASE s.kind = "Assignment" -> Assign(run, s)
      [] s.kind = "Conditional" -> Execute(run, IF Value(run.now, s.cond) # 0 THEN s.ifTrue ELSE s.ifFalse)
      [] s.kind = "Case" ->
            LET hit == {i \in DOMAIN s.items : \E j \in DOMAIN s.items[i].expressions :
                            Value(run.now, s.items[i].expressions[j]) = Value(run.now, s.expr)}
            IN  Execute(run, IF hit = {} THEN s.default
                             ELSE s.items[CHOOSE i \in hit : \A j \in hit : i <= j].stmt)
      [] s.kind \in {"Block", "ForLoop"} -> Execute(run, s.body)
      [] s.kind = "List" -> IF s.list = <<>> THEN run
                            ELSE Execute(Execute(run, Head(s.list)), [s EXCEPT !.list = Tail(@)])
      [] s.kind \in {"None", "VariableDeclaration", "Call"} -> run

\* The members of a module in turn, written so that none reads what a later one drives.
RECURSIVE RunMembers(_, _)
RunMembers(run, members) ==
    IF members = <<>> THEN run
    ELSE LET m == Head(members)
             after == CASE m.kind = "ContinuousAssign" -> Execute(run, m.assignment)
                        [] m.kind = "ProceduralBlock" -> Execute(run, m.body)
                        [] m.kind = "ModuleInstance" -> RunMembers(run, m.members)
                        [] m.kind = "GenerateBlock" ->
                              IF m.instantiated THEN RunMembers(run, m.members) ELSE run
                        [] m.kind = "GenerateBlockArray" -> RunMembers(run, m.blocks)
                        [] OTHER -> run
         IN  RunMembers(after, Tail(members))

Clock(members, now) == RunMembers([now |-> now, next |-> now], members).next
================================================================================
