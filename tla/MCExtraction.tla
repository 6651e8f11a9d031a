----------------------------- MODULE MCExtraction -----------------------------
(* Modules with one register s, an input x and a reset, in the styles that     *)
(* state machines and counters are written in.                                 *)
EXTENDS Extraction

\* Trees.
None == [kind |-> "None"]
Ref(name) == [kind |-> "NamedValue", name |-> name, constant |-> FALSE, value |-> 0]

\* Numbers as slang prints them: 2'b00, 2'sh1, 2'o2, 3, and two that are out of range.
Text(k) ==
    CASE k = 0 -> [base |-> "b", digits |-> <<0, 0>>]
      [] k = 1 -> [base |-> "h", digits |-> <<1>>]
      [] k = 2 -> [base |-> "o", digits |-> <<2>>]
      [] k = 3 -> [base |-> "none", digits |-> <<3>>]
      [] k = 9 -> [base |-> "b", digits |-> <<1, 0, 0, 1>>]
      [] k = 12 -> [base |-> "d", digits |-> <<1, 2>>]

Enum(k) == [kind |-> "NamedValue", name |-> <<"A", "B", "C">>[k + 1], constant |-> TRUE, text |-> Text(k), value |-> k]
Number(k) == [kind |-> "IntegerLiteral", text |-> Text(k), known |-> TRUE, value |-> k]
X == [kind |-> "IntegerLiteral", text |-> [base |-> "none", digits |-> <<Unknown>>], known |-> FALSE]
Binary(op, left, right) == [kind |-> "BinaryOp", op |-> op, left |-> left, right |-> right]
Convert(e) == [kind |-> "Conversion", operand |-> e]
Field(name, field) == [kind |-> "MemberAccess", value |-> Ref(name), field |-> field]
Concat(e, f) == [kind |-> "Concatenation", operands |-> <<e, f>>]
Bit(e, i) == [kind |-> "ElementSelect", value |-> e, selector |-> i]
Bits(e, left, right) == [kind |-> "RangeSelect", value |-> e, left |-> left, right |-> right]
Twice(e) == [kind |-> "Replication", concat |-> e]
CallOf(e) == [kind |-> "Call", arguments |-> <<e>>]
Choice(pred, left, right) == [kind |-> "ConditionalOp", pred |-> pred, left |-> left, right |-> right]
Not(e) == [kind |-> "UnaryOp", op |-> "LogicalNot", operand |-> e]
Complement(e) == [kind |-> "UnaryOp", op |-> "BitwiseNot", operand |-> e]
SetTo(left, e, nonBlocking) == [kind |-> "Assignment", left |-> left, right |-> e, nonBlocking |-> nonBlocking]
Set(name, e, nonBlocking) == SetTo(Ref(name), e, nonBlocking)
If(cond, then, else) == [kind |-> "Conditional", cond |-> cond, ifTrue |-> then, ifFalse |-> else]
Switch(expr, items, default) == [kind |-> "Case", expr |-> expr, items |-> items, default |-> default]
Item(e, stmt) == [expressions |-> <<e>>, stmt |-> stmt]
List(list) == [kind |-> "List", list |-> list]
Loop(body) == [kind |-> "ForLoop", body |-> body]

Declare(kind, name) == [kind |-> kind, symbol |-> name, name |-> name, members |-> {}, internal |-> "",
                        connection |-> None, direction |-> "Input"]
WireTo(left, e) == [kind |-> "ContinuousAssign", assignment |-> SetTo(left, e, FALSE)]
Wire(name, e) == WireTo(Ref(name), e)
Struct(name) == [Declare("Variable", name) EXCEPT !.members = {"a", "b"}]
ParameterOf(symbol, name, k) == [kind |-> "Parameter", symbol |-> symbol, name |-> name, text |-> Text(k)]
Parameters == [i \in 1..3 |-> ParameterOf(<<"A", "B", "C">>[i], <<"A", "B", "C">>[i], i - 1)]
Generate(instantiated, members) ==
    [kind |-> "GenerateBlock", instantiated |-> instantiated, members |-> members]
Blocks(name, blocks) == [kind |-> "GenerateBlockArray", name |-> name, blocks |-> blocks]
Comb(body) == [kind |-> "ProceduralBlock", events |-> <<>>, body |-> body]
Clocked(body) == [kind |-> "ProceduralBlock", events |-> <<[expr |-> Ref("clk"), edge |-> "Posedge"]>>,
                  body |-> [kind |-> "Block", body |-> body]]

\* One process that changes s, or one for its next value n and one for the clock.
Reset(reset, stmt) == IF reset THEN If(Ref("rst"), Set("s", Number(0), TRUE), stmt) ELSE stmt

Processes(two, reset, stmt) ==
    IF two THEN <<Comb(List(<<Set("n", Ref("s"), FALSE), stmt>>)), Clocked(Reset(reset, Set("s", Ref("n"), TRUE)))>>
    ELSE <<Clocked(Reset(reset, stmt))>>

\* Where the register is: in the top module, before or after what uses it; in an
\* instance, as an output port that is known inside by another address and is connected
\* to o outside; in a generate block, beside one that is left out or one with a wire of
\* the same name; in block 0 of an array, of which block 1 has a wire of that name.
Ports == <<Declare("Port", "clk"), Declare("Port", "rst"), Declare("Port", "x")>>

OutputPort == [Declare("Port", "s") EXCEPT !.symbol = "s_port", !.internal = "s", !.direction = "Out",
                                           !.connection = Set("o", [kind |-> "EmptyArgument"], FALSE)]

Variables == [i \in 1..6 |-> Declare("Variable", <<"n", "t", "y0", "y1", "y2", "y3">>[i])]
Register == Declare("Variable", "s")
Twin == [Register EXCEPT !.symbol = "s1"]

Array(name, members) ==
    Blocks(name, <<Generate(TRUE, <<ParameterOf("k0", "K", 3), ParameterOf("i0", "i", 0), Register>> \o members),
                   Generate(TRUE, <<ParameterOf("k1", "K", 3), ParameterOf("i1", "i", 1), Twin>>)>>)

Inline(name, members) ==
    Blocks(name, <<Generate(TRUE, <<ParameterOf("i0", "i", 0), ParameterOf("k0", "K", 3), Register>> \o members)>>)

InModule(place, members) ==
    CASE place = "top" -> <<Register>> \o Variables \o members
      [] place = "late" -> Variables \o members \o <<Register>>
      [] place = "instance" ->
            <<Declare("Net", "o"), [kind |-> "ModuleInstance", name |-> "dut",
                                    members |-> <<OutputPort>> \o Variables \o members]>>
      [] place = "generate" -> Variables \o <<Generate(TRUE, <<Register>> \o members),
                                              Generate(FALSE, <<Wire("s", Number(3))>>)>>
      [] place = "twins" -> Variables \o <<Generate(TRUE, <<Register>> \o members), Generate(TRUE, <<Twin>>)>>
      [] place = "array" -> Variables \o <<[kind |-> "Genvar", name |-> "i"], Array("g", members)>>
      [] place = "inline" -> Variables \o <<Inline("g", members)>>
      [] place = "unnamed" -> Variables \o <<[kind |-> "Genvar", name |-> "i"], Array("", members)>>

Path(place) ==
    CASE place \in {"top", "late"} -> <<"top", "s">>
      [] place = "instance" -> <<"top", "dut", "s">>
      [] place \in {"generate", "twins"} -> <<"top", "b", "s">>
      [] place \in {"array", "inline"} -> <<"top", "g[0]", "s">>
      [] place = "unnamed" -> <<"top", "genblk1[0]", "s">>

Whole(place, members) == Ports \o <<[kind |-> "Gate"]>> \o InModule(place, members)

-------------------------------------------------------------------------------
\* What is done in a state: to which states, and by which statement; also is an output.
Bodies == {[to |-> {1}, how |-> "also"], [to |-> {2}, how |-> "when"],
           [to |-> {0, 2}, how |-> "either"], [to |-> {1, 2}, how |-> "either"],
           [to |-> {0, 1}, how |-> "choice"]}

Lowest(S) == CHOOSE v \in S : \A w \in S : v <= w
Highest(S) == CHOOSE v \in S : \A w \in S : v >= w

Doing(body, const(_), to(_), also) ==
    LET low == const(Lowest(body.to))
        high == const(Highest(body.to))
    IN  CASE body.how = "also" -> List(<<Loop(also), CallOf(Ref("s")), to(low)>>)
          [] body.how = "when" -> If(CallOf(Ref("x")), to(low), None)
          [] body.how = "either" -> If(Ref("x"), to(low), to(high))
          [] body.how = "choice" -> to(Choice(Ref("x"), low, high))

\* The states 0 and 1 told apart in the given style; b0 and b1 are what is done there.
Decide(style, const(_), b0, b1, rest) ==
    LET is(k) == Binary("Equal", Ref("s"), const(k))
    IN  CASE style = "case" -> Switch(Ref("s"), <<Item(const(0), b0), Item(const(1), b1)>>, None)
          [] style \in {"default", "unknown"} -> Switch(Ref("s"), <<Item(const(0), b0), Item(const(1), b1)>>, rest)
          [] style = "complement" ->
                LET other(k) == Binary("Equal", Ref("s"), Complement(Number(3 - k)))
                IN  If(other(0), b0, If(other(1), b1, None))
          [] style = "toggle" -> If(is(0), b0, If(Binary("Equal", Ref("s"), Ref("t")), b1, None))
          [] style = "chain" -> If(is(0), b0, If(is(1), b1, None))
          [] style \in {"wires", "once", "struct"} -> If(Ref("w0"), b0, If(Ref("w1"), b1, None))
          [] style = "negated" -> If(Not(Ref("w0")), b1, b0)
          [] style = "and" -> If(is(0), b0, If(Binary("And", is(1), Ref("x")), b1, None))
          [] style = "inner" -> Switch(Ref("s"), <<Item(const(0), b0)>>, Switch(Ref("x"), <<Item(Number(0), b1)>>, rest))
          [] style = "flag" -> Switch(is(0), <<Item(Number(1), b0)>>, b1)

Styles == {"case", "default", "chain", "wires", "once", "struct", "negated", "and", "inner", "flag"}
OddStyles == {"unknown", "complement", "toggle"}

\* The wires, and what else they and the register drive.
Wires(style, const(_)) ==
    LET wire(w, k) == Wire(w, Binary("Equal", Convert(const(k)), Ref("s")))
        both == <<Declare("Net", "w0"), Declare("Net", "w1"), wire("w0", 0), wire("w1", 1)>>
    IN  CASE style \in {"wires", "negated"} ->
                both \o <<Wire("y0", Concat(Ref("w0"), Bits(Ref("s"), Number(1), Number(1)))), Wire("y1", Twice(Ref("w1"))),
                          Wire("y2", Bit(Ref("s"), Ref("x")))>>
          [] style = "once" -> both
          [] style = "struct" ->
                <<Struct("p"), Struct("q"), WireTo(Field("q", "a"), Ref("s")), WireTo(Field("q", "b"), Ref("x")),
                  WireTo(Ref("p"), Ref("q")), Declare("Net", "w0"), Declare("Net", "w1"),
                  Wire("w0", Binary("Equal", Field("p", "a"), const(0))),
                  Wire("w1", Binary("Equal", Field("p", "a"), const(1))),
                  Wire("y0", Ref("w0")), Wire("y1", Ref("w1"))>>
          [] style = "toggle" -> <<Clocked(Set("t", Complement(Ref("t")), TRUE))>>
          [] OTHER -> <<>>

Machine(style, two, reset, constant, place, body0, body1) ==
    LET wide(k) == <<0, 9, 12>>[k + 1]
        const(k) == CASE constant = "number" -> Number(k)
                      [] constant = "wide" -> Number(wide(k))
                      [] OTHER -> Enum(k)
        to(e) == IF two THEN Set("n", e, FALSE) ELSE Set("s", e, TRUE)
        do(body) == Doing(body, const, to, Set("y3", Number(1), ~two))
        members == Wires(style, const)
                   \o Processes(two, reset, Decide(style, const, do(body0), do(body1), IF style = "unknown" THEN to(X) ELSE to(const(0))))
        values == body0.to \cup body1.to \cup (IF reset \/ style \in {"default", "inner"} THEN {0} ELSE {})
    IN  [members |-> Whole(place, IF constant = "parameter" THEN Parameters \o members ELSE members),
         style |-> style, constant |-> constant, place |-> place, path |-> Path(place),
         counter |-> FALSE, step |-> 0, limit |-> 0,
         branches |-> "choice" \notin {body0.how, body1.how},
         assigned |-> IF constant = "wide" THEN {wide(v) : v \in values} ELSE values]

\* A counter starts over at its limit.
Counter(op, two, first, step, limit) ==
    LET change(e) == IF two THEN Set("n", e, FALSE) ELSE Set("s", e, TRUE)
        stmt == If(Binary("Equal", Ref("s"), Number(limit)), change(Number(first)),
                   change(Binary(op, Ref("s"), Number(step))))
    IN  [members |-> Whole("top", Processes(two, TRUE, stmt)),
         style |-> "counter", constant |-> "number", place |-> "top", path |-> Path("top"), counter |-> TRUE, step |-> step, limit |-> limit,
         branches |-> TRUE, assigned |-> {0, first}]

Few == {body \in Bodies : body.to \in {{1}, {0, 2}}}

\* Every style with every way to write the rest, except that the ways to write a
\* constant and to place the register are not combined, and are seen with fewer bodies.
MCPrograms ==
    {Machine(style, two, reset, constant, "top", body0, body1) :
        style \in Styles, two, reset \in BOOLEAN, constant \in {"number", "enum"}, body0, body1 \in Bodies}
    \cup {Machine(style, TRUE, TRUE, "parameter", "instance", body0, body1) :
            style \in Styles, body0, body1 \in Bodies}
    \cup {Machine(style, two, TRUE, "wide", "top", body0, body1) :
            style \in Styles, two \in BOOLEAN, body0, body1 \in Few}
    \cup {Machine(style, two, reset, "number", "top", body0, body1) :
            style \in OddStyles, two, reset \in BOOLEAN, body0, body1 \in Few}
    \cup {Machine(style, two, TRUE, "number", place, body0, body1) :
            style \in {"case", "wires", "struct"}, two \in BOOLEAN, body0, body1 \in Few,
            place \in {"late", "generate", "twins", "array", "inline", "unnamed"}}
    \cup {Counter(op, two, first, step, limit) :
            op \in {"Add", "Subtract"}, two \in BOOLEAN, first \in {0, 1, 3}, step \in {1, 2}, limit \in {2, 3}}
===============================================================================
