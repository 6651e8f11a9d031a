-------------------------------- MODULE MCReport --------------------------------
(* Machines over a few constants, two of which have the same value and one  *)
(* of which is no state.                                                   *)
EXTENDS Report

CONSTANTS f, g, m, n, o, x

\* The second machine may be a counter, with or without a value to be checked; as a
\* state machine it has a constant of the first one or one of its own.  The first one may
\* be compared with a constant that is never assigned to it.
MCInit ==
    /\ value = (m :> 0) @@ (n :> 1) @@ (o :> 1) @@ (x :> 2)
    /\ states \in {(f :> {m, n}) @@ (g :> s) : s \in {{}, {m}, {o}}}
    /\ arcs \in {(f :> a) @@ (g :> {}) : a \in {{}, {<<m, o>>, <<o, m>>}, {<<m, o>>, <<x, m>>}}}
    /\ isCounter \in {(f :> FALSE) @@ (g :> c) : c \in BOOLEAN}
    /\ Init
    /\ CrossInit
    /\ ReportInit

\* The prover reaches nothing, everything, or all that is not about one of the states.
Without(c) == {i \in DOMAIN properties : c \notin {properties[i].state1, properties[i].state2}}
MCVerdicts == {{}, DOMAIN properties} \cup {Without(c) : c \in Constant}

\* Each machine has no edge more than it needs, or one from every constant that it could
\* have and another one from each state.
CouldHave(t) == {c \in Constant : isCounter[t] \/ \E d \in states[t] : value[c] = value[d]}
MCSources == {[t \in Task |-> SetToSeq(states[t])],
              [t \in Task |-> SetToSeq(CouldHave(t)) \o SetToSeq(states[t])]}

MCMain == Main(AllFamilies, MCVerdicts, MCSources)

MCNext == (Next /\ UNCHANGED <<crossVars, reportVars>>) \/ MCMain

MCSpec == MCInit /\ [][MCNext]_allVars

\* The caller of create_properties and every worker of it are threads of their own.  A
\* task locks the mutex once per property, a bounded number of times, so that no other is
\* kept from it for ever.  Main is one thread.
MCFairSpec == /\ MCSpec
              /\ WF_allVars(Caller /\ UNCHANGED <<crossVars, reportVars>>)
              /\ \A w \in Worker : WF_allVars(Work(w) /\ UNCHANGED <<crossVars, reportVars>>)
              /\ WF_allVars(MCMain)
===============================================================================
