------------------------------- MODULE MCDetector -------------------------------
(* Ports are clk, data, rst and rst_n, in this order.                       *)
EXTENDS Detector, TLC

CONSTANTS a, b, c, d

\* Sinks without an event, and with events in every order of two.
MCSinks == {<<>>, <<"none", "posedge">>, <<"none", "negedge">>, <<"posedge", "negedge">>}

Design(nodes, name, definition, parent) ==
    [name |-> [n \in nodes |-> name[n]], definition |-> [n \in nodes |-> definition[n]],
     parent |-> [n \in nodes |-> parent[n]], ports |-> [n \in nodes |-> {1, 3}],
     registers |-> nodes, machines |-> nodes, counters |-> {}, emptyCounters |-> {},
     branching |-> {}, endless |-> {}]

Names == (a :> "top") @@ (b :> "u1") @@ (c :> "u2")
Definitions == (a :> "top") @@ (b :> "sub") @@ (c :> "sub")
Below == (a :> NoNode) @@ (b :> a) @@ (c :> a)

\* One module, with any ports; the pins are what varies.
Plain(pinsOf) == [Design({a}, Names, Definitions, Below) EXCEPT !.ports = (a :> pinsOf)]

Counting == [Plain({3, 4}) EXCEPT !.counters = {a}, !.emptyCounters = {a}]

TwoTops == Design({a, b}, Names, Definitions, (a :> NoNode) @@ (b :> NoNode))

MCHierarchies ==
    {Design({a, b}, Names, Definitions, Below),
     \* two instances of one module
     Design({a, b, c}, Names, Definitions, Below),
     \* two modules that nothing instantiates
     TwoTops,
     \* a block of a generate array, which has no definition
     Design({a, b}, Names, (a :> "top") @@ (b :> NoDefinition), Below),
     \* one module u1, and two instances of another that have this name
     Design({a, b, c, d}, Names @@ (d :> "u1"),
            (a :> "top") @@ (b :> "sub") @@ (c :> "u1") @@ (d :> "sub"), Below @@ (d :> c)),
     \* a module sub, and a generate block of this name
     Design({a, b, c}, (a :> "top") @@ (b :> "u1") @@ (c :> "sub"),
            (a :> "top") @@ (b :> "sub") @@ (c :> NoDefinition), Below),
     \* nothing but nodes below others, and nothing at all
     Design({}, Names, Definitions, Below),
     \* a machine in one of the instances only
     [Design({a, b, c}, Names, (a :> "top") @@ (b :> "sub") @@ (c :> "other"), Below)
        EXCEPT !.machines = {c}],
     [Design({a, b}, Names, Definitions, Below) EXCEPT !.registers = {}, !.machines = {}],
     \* a machine, or a counter, that cannot be analyzed below one of two tops, and a
     \* counter beside a machine
     [TwoTops EXCEPT !.branching = {b}],
     [TwoTops EXCEPT !.endless = {b}],
     [TwoTops EXCEPT !.endless = {b}, !.counters = {b}],
     [Design({a, b}, Names, Definitions, Below) EXCEPT !.counters = {b}]}

Installed == [slang |-> "unset", beside |-> TRUE, inCwd |-> FALSE, onPath |-> "none",
              hardware |-> 4, jasper |-> TRUE, parses |-> TRUE]

Usual == /\ sinks = [n \in Name |-> <<"none", "posedge">>]
         /\ userClock = NoName /\ userReset = NoName /\ userType = "Default"

\* The sources and the machine it runs on vary, then the hierarchy and the top, then
\* the pins; only the reset pins have events that are looked at.
MCStart == /\ options \in [top : {NoTop}, cpus : {{}, {0}, {2}},
                           source : {"json", "files", "list", "list of missing files"},
                           merge : {FALSE}]
           /\ env \in [slang : {"unset", "empty", "set"}, beside : BOOLEAN, inCwd : BOOLEAN,
                       onPath : {"none", "slang", "slang-driver"}, hardware : Cores,
                       jasper : {TRUE}, parses : BOOLEAN]
           /\ design = Plain({1, 3})
           /\ Usual

MCTops == /\ options \in [top : {NoTop} \cup TopNames, cpus : {{}}, source : {"files"},
                          merge : BOOLEAN]
          /\ env \in {Installed, [Installed EXCEPT !.jasper = FALSE]}
          /\ design \in MCHierarchies
          /\ Usual

MCPins == /\ PinInit
          /\ options = [top |-> NoTop, cpus |-> {}, source |-> "files", merge |-> FALSE]
          /\ env = Installed
          /\ design \in {Plain(pinsOf) : pinsOf \in SUBSET Name} \cup {Counting}
          /\ userClock \in {NoName, 1, 2}
          /\ \A n \in Name \ ResetNames : sinks[n] = <<"none", "posedge">>

MCInit == (MCStart \/ MCTops \/ MCPins) /\ Init

MCSpec == MCInit /\ [][Next]_allVars

MCDesigns == MCHierarchies \cup {Plain(pinsOf) : pinsOf \in SUBSET Name} \cup {Counting}
===============================================================================
