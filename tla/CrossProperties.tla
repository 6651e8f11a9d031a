---------------------------- MODULE CrossProperties ----------------------------
(***************************************************************************)
(* VerilogModule::add_cross_properties (src/codegen.cc:220): the pairs of  *)
(* states of coupled machines get a property each, which the prover is to  *)
(* say whether both can hold at once.  It runs after create_properties, on *)
(* the map and the ids that one left behind.                               *)
(*                                                                         *)
(* The groups, and the machines of a group, are in unordered containers    *)
(* and come in any order.                                                  *)
(***************************************************************************)
EXTENDS PropertyGen, FiniteSetsExt

VARIABLES
    pc,             \* where main is: "create", then "crossing", then "crossed"
    coupled,        \* groups: the pairs of coupled machines
    crossId,        \* id_count of add_cross_properties
    groupsLeft,     \* the keys of groups still to come
    from, to,       \* node_from and node_to
    othersLeft,     \* the machines of the group of from still to come
    combosLeft,     \* the pairs of states of from and to still to come
    addedPairs      \* added_pairs

crossVars == <<pc, coupled, crossId, groupsLeft, from, to, othersLeft, combosLeft, addedPairs>>
createVars == <<callerVars, poolVars, inputs, step, holder, count, seen, idCount, id, left>>

-------------------------------------------------------------------------------
(* Slips that are easy to make in this code, kept to show that the         *)
(* properties below notice them.                                           *)
ReuseLastId == IF DOMAIN properties = {} THEN 0 ELSE Max(DOMAIN properties)
-------------------------------------------------------------------------------
Group(f) == {p[2] : p \in {q \in coupled : q[1] = f}}

CrossInit == /\ coupled = {}
             /\ pc = "create"
             /\ crossId = 0
             /\ groupsLeft = {}
             /\ from = NoTask /\ to = NoTask
             /\ othersLeft = {} /\ combosLeft = {}
             /\ addedPairs = {}

\* "get the maximum id count", which is 0 when there is no property, and one more.
FirstId == IF DOMAIN properties = {} THEN 1 ELSE Max(DOMAIN properties) + 1

\* The call, with what group_fsms has returned.
Start(groups) == /\ loop = "returned"
                 /\ pc = "create"
                 /\ coupled' = groups
                 /\ groupsLeft' = {p[1] : p \in groups}
                 /\ crossId' = FirstId
                 /\ pc' = "crossing"
                 /\ UNCHANGED <<createVars, from, to, othersLeft, combosLeft, addedPairs, properties>>

\* Cross properties are about machines that are no counters.
Crossed(f) == ~isCounter[f]

NextGroup == /\ pc = "crossing"
             /\ othersLeft = {} /\ combosLeft = {}
             /\ \E f \in groupsLeft :
                   /\ groupsLeft' = groupsLeft \ {f}
                   /\ from' = f
                   /\ othersLeft' = IF Crossed(f) THEN Group(f) ELSE {}
             /\ UNCHANGED <<pc, crossId, to, combosLeft, addedPairs, properties>>

NextOther == /\ combosLeft = {}
             /\ \E f \in othersLeft :
                   /\ othersLeft' = othersLeft \ {f}
                   /\ to' = f
                   /\ combosLeft' = IF Crossed(f) THEN states[from] \X states[f] ELSE {}
             /\ UNCHANGED <<pc, crossId, groupsLeft, from, addedPairs, properties>>

\* unique_states is in the order of the values.
Before(c, d) == \/ value[c[1]] < value[d[1]]
                \/ value[c[1]] = value[d[1]] /\ value[c[2]] <= value[d[2]]
ComesNext(c) == \A d \in combosLeft : Before(c, d)

\* What is remembered of a pair of states: the two constants, in both orders.
Remembered(m, n) == {<<m, n>>, <<n, m>>}

\* A property that nothing is expected of.
Property(m, n) == [var1 |-> from, state1 |-> m, var2 |-> to, state2 |-> n,
                   shouldBeValid |-> FALSE, delay |-> 0]

SkipCombo(c) == /\ c \in addedPairs
                /\ UNCHANGED <<crossId, addedPairs, properties>>

AddCombo(c) == /\ c \notin addedPairs
               /\ properties' = Emplaced(properties, crossId, Property(c[1], c[2]))
               /\ addedPairs' = addedPairs \cup Remembered(c[1], c[2])
               /\ crossId' = crossId + 1

NextCombo == /\ \E c \in combosLeft : /\ ComesNext(c)
                                      /\ combosLeft' = combosLeft \ {c}
                                      /\ SkipCombo(c) \/ AddCombo(c)
             /\ UNCHANGED <<pc, groupsLeft, from, to, othersLeft>>

Done == /\ pc = "crossing"
        /\ groupsLeft = {} /\ othersLeft = {} /\ combosLeft = {}
        /\ pc' = "crossed"
        /\ UNCHANGED <<crossId, groupsLeft, from, to, othersLeft, combosLeft, addedPairs, properties>>

Crossing == /\ NextGroup \/ NextOther \/ NextCombo \/ Done
            /\ UNCHANGED <<createVars, coupled>>

-------------------------------------------------------------------------------
Cross == DOMAIN properties \ Own

\* The properties about the states m of f and n of g, whichever way round.
About(f, m, g, n) ==
    {i \in Cross : LET p == Key(properties[i])
                   IN  \/ p = [var1 |-> f, state1 |-> m, var2 |-> g, state2 |-> n]
                       \/ p = [var1 |-> g, state1 |-> n, var2 |-> f, state2 |-> m]}

Linked(f, g) == {<<f, g>>, <<g, f>>} \cap coupled # {} /\ ~isCounter[f] /\ ~isCounter[g]

OwnConstants == \A f, g \in Task : f # g => states[f] \cap states[g] = {}

\* Nothing is said of counters, nor of machines that are not coupled; and when no two
\* machines share a constant node, every pair of states of coupled machines gets one
\* property, and not one for each direction of the coupling.
EveryPairOnce ==
    /\ \A i \in Cross : Linked(properties[i].var1, properties[i].var2)
    /\ pc = "crossed" /\ OwnConstants =>
          \A f, g \in Task : Linked(f, g) =>
              \A m \in states[f], n \in states[g] : Cardinality(About(f, m, g, n)) = 1
===============================================================================
