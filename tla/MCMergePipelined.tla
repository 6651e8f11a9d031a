--------------------------- MODULE MCMergePipelined ---------------------------
(* Four machines and a counter.                                            *)
EXTENDS MergePipelined

CONSTANTS a, b, c, d, e

Machines == {a, b, c, d}

\* The machines in a fixed order, since any of them may be pipelined into any other;
\* the counter behind them or in their midst.
Orders == {<<a, b, c, d, e>>, <<a, b, e, c, d>>}

\* The registers copied into one another: every one into one other at most, but for the
\* first; the counter may stand before or behind one.
Copies ==
    {{p \in Machines \X Machines : p[2] = f[p[1]] /\ p[1] # p[2]} \cup more :
        f \in [Machines -> Machines],
        more \in {{}, {<<a, b>>}, {<<a, e>>, <<e, b>>}}}

Routes == INSTANCE Reachability WITH Node <- Fsm

\* A route leads through the registers in between, so there is a pair for every walk.
PairsOf(copies) ==
    LET into == [f \in Fsm |-> {g \in Fsm : <<f, g>> \in copies}]
    IN  {p \in Fsm \X Fsm : p[2] \in Routes!After(into, p[1])}

Pipelines == {PairsOf(copies) : copies \in Copies}

MCInit == /\ order \in Orders
          /\ pipelined \in Pipelines
          /\ Init

MCSpec == MCInit /\ [][Next]_vars
===============================================================================
