---------------------------- MODULE MergePipelined ----------------------------
(***************************************************************************)
(* merge_pipelined_fsm (src/fsm.cc:308): state machines that only copy     *)
(* another one a clock cycle later are merged into the first of the chain. *)
(*                                                                         *)
(* The function keeps pointers into the vector it then erases from.  So    *)
(* the vector is modelled as memory: cell[i] is the object at address i,   *)
(* erase moves the objects behind the erased one down by one cell, and     *)
(* the cell behind the new end keeps the state machine it held (node_ is a *)
(* raw pointer, which neither a move nor a destructor changes).  The       *)
(* pairs, the groups and the members of a group are kept in unordered      *)
(* containers: they are gone through in any order.                         *)
(*                                                                         *)
(* The arcs of a state machine are abstracted to the set of the machines   *)
(* they were extracted from.                                               *)
(***************************************************************************)
EXTENDS Naturals, Sequences, FiniteSets, Functions

CONSTANTS
    Fsm,            \* the state variables of the machines found
    Counters        \* those that are counters

ASSUME CountersAssumption == IsFiniteSet(Fsm) /\ Counters \subseteq Fsm

VARIABLES
    order,          \* fsm_result as it is passed in
    pipelined,      \* the pairs for which is_pipelined is true
    pc,             \* "group", "merge", "erase", "done" or "failed"
    pairs,          \* the entries of pipelined_fsm not yet looked at
    rootOf,         \* fsm_root: the group of a cell, 0 if it has none
    groups,         \* fsms: root and members of each group, as cells
    cell, size,     \* fsm_result
    todo,           \* the groups left in the loop over fsms
    victims         \* the members left in the loop over the group at hand

vars == <<order, pipelined, pc, pairs, rootOf, groups, cell, size, todo, victims>>

N == Cardinality(Fsm)
Cell == 1..N

\* A group with one more member.
With(group, root, i) == [root |-> root, members |-> group.members \cup {i}]

-------------------------------------------------------------------------------
(* Slips that are easy to make in this code, kept to show that the         *)
(* properties below notice them.                                           *)
PipesCounters(i) == {j \in Cell \ {i} : <<order[i], order[j]>> \in pipelined}
EraseRootToo(g) == groups[g].members
UpgradeNothing(from, to) == /\ rootOf[from] = 0
                            /\ rootOf[to] # 0
                            /\ groups' = [groups EXCEPT ![rootOf[to]] = With(@, @.root, from)]
                            /\ UNCHANGED rootOf
-------------------------------------------------------------------------------
Smallest(S) == CHOOSE i \in S : \A j \in S : i <= j

\* The cells of the machines that the one in cell i is pipelined into.
Pipes(i) == {j \in Cell \ {i} : /\ order[i] \notin Counters
                                /\ order[j] \notin Counters
                                /\ <<order[i], order[j]>> \in pipelined}

\* pipelined_fsm: the first of them in the order of the vector, since emplace does
\* not replace an entry.
PipelinedFsm == {<<i, Smallest(Pipes(i))>> : i \in {k \in Cell : Pipes(k) # {}}}

Init == /\ order \in {f \in [Cell -> Fsm] : IsInjective(f)}
        /\ pipelined \in SUBSET (Fsm \X Fsm)
        /\ pairs = PipelinedFsm
        /\ pc = IF pairs = {} THEN "done" ELSE "group"
        /\ rootOf = [i \in Cell |-> 0]
        /\ groups = <<>>
        /\ cell = [i \in Cell |-> [node |-> order[i], arcs |-> {order[i]}]]
        /\ size = N
        /\ todo = {}
        /\ victims = {}

-------------------------------------------------------------------------------
(* Grouping, one entry of pipelined_fsm at a time.                         *)

\* "need to merge everything"
Extend(from, to) ==
    /\ rootOf[from] # 0
    /\ groups' = [groups EXCEPT ![rootOf[from]] = With(@, @.root, to)]
    /\ rootOf' = IF rootOf[to] = 0 THEN [rootOf EXCEPT ![to] = rootOf[from]] ELSE rootOf

\* "upgrade the root": fsm_root learns nothing of the new root.
Upgrade(from, to) ==
    /\ rootOf[from] = 0
    /\ rootOf[to] # 0
    /\ groups' = [groups EXCEPT ![rootOf[to]] = With(@, from, from)]
    /\ UNCHANGED rootOf

\* "new stuff"
NewGroup(from, to) ==
    /\ rootOf[from] = 0
    /\ rootOf[to] = 0
    /\ groups' = Append(groups, [root |-> from, members |-> {from, to}])
    /\ rootOf' = [rootOf EXCEPT ![from] = Len(groups'), ![to] = Len(groups')]

Group == /\ pc = "group"
         /\ \E p \in pairs :
               /\ Extend(p[1], p[2]) \/ Upgrade(p[1], p[2]) \/ NewGroup(p[1], p[2])
               /\ pairs' = pairs \ {p}
         /\ UNCHANGED <<order, pipelined, pc, cell, size, todo, victims>>

StartMerge == /\ pc = "group"
              /\ pairs = {}
              /\ pc' = "merge"
              /\ todo' = DOMAIN groups
              /\ UNCHANGED <<order, pipelined, pairs, rootOf, groups, cell, size, victims>>

-------------------------------------------------------------------------------
(* Merging and erasing, one group at a time.                               *)

Merged(g) == groups[g].members \ {groups[g].root}

\* The root takes the arcs of every other member, as they are now.
ArcsOf(g) == UNION {cell[i].arcs : i \in groups[g].members}

Merge == /\ pc = "merge"
         /\ \E g \in todo :
               /\ cell' = [cell EXCEPT ![groups[g].root] = [node |-> @.node, arcs |-> ArcsOf(g)]]
               /\ todo' = todo \ {g}
         /\ UNCHANGED <<order, pipelined, pc, pairs, rootOf, groups, size, victims>>

StartErase == /\ pc = "merge"
              /\ todo = {}
              /\ pc' = "erase"
              /\ todo' = DOMAIN groups
              /\ UNCHANGED <<order, pipelined, pairs, rootOf, groups, cell, size, victims>>

NextGroup == /\ pc = "erase"
             /\ victims = {}
             /\ \E g \in todo :
                   /\ victims' = Merged(g)
                   /\ todo' = todo \ {g}
             /\ UNCHANGED <<order, pipelined, pc, pairs, rootOf, groups, cell, size>>

\* std::find compares *child, what the cell holds by now, with the vector.
Matches(i) == {j \in 1..size : cell[j].node = cell[i].node}

\* vector::erase: what is behind at moves down, the last cell is left behind.
Erase(at) == /\ cell' = [i \in Cell |-> IF at <= i /\ i < size THEN cell[i + 1] ELSE cell[i]]
             /\ size' = size - 1

EraseChild == /\ pc = "erase"
              /\ \E i \in victims :
                    /\ Matches(i) # {}
                    /\ Erase(Smallest(Matches(i)))
                    /\ victims' = victims \ {i}
              /\ UNCHANGED <<order, pipelined, pc, pairs, rootOf, groups, todo>>

\* assert_(pos != fsm_result.end())
CannotFind == /\ pc = "erase"
              /\ \E i \in victims : Matches(i) = {}
              /\ pc' = "failed"
              /\ UNCHANGED <<order, pipelined, pairs, rootOf, groups, cell, size, todo, victims>>

Done == /\ pc = "erase"
        /\ todo = {}
        /\ victims = {}
        /\ pc' = "done"
        /\ UNCHANGED <<order, pipelined, pairs, rootOf, groups, cell, size, todo, victims>>

Next == Group \/ StartMerge \/ Merge \/ StartErase \/ NextGroup \/ EraseChild \/ CannotFind \/ Done

Spec == Init /\ [][Next]_vars

-------------------------------------------------------------------------------
\* The machine in cell i and those that it is pipelined into, one after the other: a
\* route leads through the registers in between (fsm.cc:287), so a first stage is
\* pipelined into all the others.
Stages(i) == {i} \cup Pipes(i)

\* Nothing comes before the machine in cell h or branches off behind it.
IsPipeline(h) ==
    /\ Pipes(h) # {}
    /\ \A i \in Cell : Pipes(i) \cap Stages(h) # {} => i \in Stages(h)
    /\ \A i \in Pipes(h) : Pipes(i) \subseteq Pipes(h)
    /\ \A i, j \in Pipes(h) : i # j => (j \in Pipes(i) <=> i \notin Pipes(j))

\* Its stages stand in the vector in the order of the pipeline, but for the first one.
InVectorOrder(h) == \A i \in Pipes(h) : \A j \in Pipes(i) : i < j

MergedButNotErased == pc = "erase" /\ todo = DOMAIN groups /\ victims = {} /\ size = N

Left == {cell[i].node : i \in 1..size}

\* Only what is pipelined is merged: no counter is, and every member of a group is
\* linked to another one.
GroupsAreLinked ==
    \A g \in DOMAIN groups : \A i \in groups[g].members :
        /\ order[i] \notin Counters
        /\ \E j \in groups[g].members \ {i} : <<i, j>> \in PipelinedFsm \/ <<j, i>> \in PipelinedFsm

\* The stages of a pipeline of up to three machines become one group, whatever order the
\* pairs came out of the hash map in, and its root has the arcs of all of them.  The root
\* is the first stage when the vector has the others in their order (it need not be
\* otherwise: "upgrade the root" takes the second stage for the root when it comes last).
ShortPipelineMerged ==
    MergedButNotErased => \A h \in Cell : IsPipeline(h) /\ Cardinality(Stages(h)) <= 3
        => \E g \in DOMAIN groups :
              /\ groups[g].members = Stages(h)
              /\ cell[groups[g].root].arcs = {order[i] : i \in Stages(h)}
              /\ InVectorOrder(h) => groups[g].root = h

\* When one machine is pipelined into one other, and nothing else is, exactly the
\* second is erased and the first has the arcs of both.
OnePairExact ==
    pc = "done" => \A i, j \in Cell : PipelinedFsm = {<<i, j>>} =>
        /\ Left = Fsm \ {order[j]}
        /\ \A k \in 1..size : cell[k].arcs =
              IF cell[k].node = order[i] THEN {order[i], order[j]} ELSE {cell[k].node}

\* src/fsm.cc:359: "delete the fsm that's been merged".
OnlyMergedErased ==
    pc = "done" => Fsm \ Left \subseteq {order[i] : i \in UNION {Merged(g) : g \in DOMAIN groups}}
===============================================================================
