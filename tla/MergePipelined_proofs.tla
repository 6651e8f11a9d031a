------------------------- MODULE MergePipelined_proofs -------------------------
(***************************************************************************)
(* merge_pipelined_fsm for any number of state machines, in any order of   *)
(* the hash maps: what it groups is linked, a short pipeline is merged     *)
(* whole, and a single pair is merged exactly.  Beyond that it erases the  *)
(* wrong machines, as the run about OnlyMergedErased shows.                *)
(***************************************************************************)
EXTENDS MergePipelined, FiniteSetTheorems, FunctionTheorems, WellFoundedInduction, TLAPS

TypeOK == /\ order \in [Cell -> Fsm]
          /\ \A i, j \in Cell : order[i] = order[j] => i = j
          /\ pairs \subseteq PipelinedFsm
          /\ rootOf \in [Cell -> Nat]
          /\ groups \in Seq([root : Cell, members : SUBSET Cell])
          /\ cell \in [Cell -> [node : Fsm, arcs : SUBSET Fsm]]
          /\ size \in 0..N
          /\ todo \subseteq DOMAIN groups
          /\ pc \in {"group", "merge", "erase", "done", "failed"}

\* What has been written so far, in each of the loops.
LoopsInv == /\ pc = "group" => todo = {} /\ cell = [i \in Cell |-> [node |-> order[i], arcs |-> {order[i]}]]
            /\ pc # "group" => pairs = {}

\* A machine that has a root is a member of its group, and so is the root.
RootsInv == /\ \A i \in Cell : rootOf[i] # 0 => rootOf[i] \in DOMAIN groups /\ i \in groups[rootOf[i]].members
            /\ \A g \in DOMAIN groups : groups[g].root \in groups[g].members

-------------------------------------------------------------------------------
\* A pipeline of two or three machines: the one in cell i is the first stage, the one in
\* cell p the first of the others in the vector.  The pairs of the pipeline all have p at
\* one end, so p is what its group grows around.
Others(i, p) == Stages(i) \ {p}

Chain(i, p) == /\ i \in Cell /\ p \in Cell /\ i # p
               /\ p \in Stages(i)
               /\ <<i, p>> \in PipelinedFsm
               /\ \A x \in Others(i, p) : <<x, p>> \in PipelinedFsm \/ <<p, x>> \in PipelinedFsm
               /\ \A x, y \in Others(i, p) : x # i /\ y # i => x = y
               /\ \A x, y \in Cell : <<x, y>> \in PipelinedFsm /\ {x, y} \cap Stages(i) # {}
                     => /\ {x, y} \subseteq Stages(i)
                        /\ x = p \/ y = p
                        /\ <<y, x>> \notin PipelinedFsm

\* The first stage is pipelined into the second one, and that into the last.
InOrder(i, p) == \A x \in Others(i, p) : x # i => <<p, x>> \in PipelinedFsm

\* The stages other than p whose pair is in the group by now, and p with the first of them.
Taken(i, p) == {x \in Others(i, p) : <<x, p>> \notin pairs /\ <<p, x>> \notin pairs}
Touched(i, p) == Taken(i, p) \cup {x \in {p} : Taken(i, p) # {}}

\* They are in one group, which is 0 when there is none, and nothing else is.
GroupOf(i, p, g) ==
    /\ \A x \in Stages(i) \ Touched(i, p) : rootOf[x] = 0
    /\ \A h \in DOMAIN groups \ {g} : groups[h].members \cap Stages(i) = {}
    /\ IF Taken(i, p) = {} THEN g = 0
       ELSE /\ g \in DOMAIN groups
            /\ groups[g].members = Touched(i, p)
            /\ rootOf[p] = g
            /\ InOrder(i, p) /\ i \in Taken(i, p) => groups[g].root = i

ArcsOfAll(S) == {order[j] : j \in S}

\* The arcs of the pipeline before and after its group is merged.
ArcsIn(i, p, g) ==
    /\ pc = "merge" =>
          /\ \A x \in Stages(i) : x # groups[g].root => cell[x].arcs = {order[x]}
          /\ cell[groups[g].root].arcs =
                IF g \in todo THEN {order[groups[g].root]} ELSE ArcsOfAll(Stages(i))
    /\ pc = "erase" /\ todo = DOMAIN groups => cell[groups[g].root].arcs = ArcsOfAll(Stages(i))

ChainInv == \A i, p \in Cell : Chain(i, p) => \E g \in 0..Len(groups) : GroupOf(i, p, g) /\ ArcsIn(i, p, g)

-------------------------------------------------------------------------------
\* The vector when the pair <<i, j>> is all there is: as it was, with the arcs of the
\* second machine merged into the first, and with the second machine erased.
AsFound == [k \in Cell |-> [node |-> order[k], arcs |-> {order[k]}]]

AsMerged(i, j) == [k \in Cell |-> [node |-> order[k],
                                   arcs |-> IF k = i THEN {order[i], order[j]} ELSE {order[k]}]]

AsErased(i, j) == [k \in Cell |-> IF j <= k /\ k < N THEN AsMerged(i, j)[k + 1] ELSE AsMerged(i, j)[k]]

OnlyGroup(i, j) == <<[root |-> i, members |-> {i, j}]>>

PairInv == \A i, j \in Cell : PipelinedFsm = {<<i, j>>} =>
    /\ pc = "group" => /\ cell = AsFound /\ size = N
                       /\ \/ pairs = {<<i, j>>} /\ groups = <<>> /\ rootOf[i] = 0 /\ rootOf[j] = 0
                          \/ pairs = {} /\ groups = OnlyGroup(i, j)
    /\ pc # "group" => groups = OnlyGroup(i, j)
    /\ pc = "merge" => /\ cell = IF todo = {} THEN AsMerged(i, j) ELSE AsFound
                       /\ size = N
    /\ pc = "erase" => IF todo = {} /\ victims = {}
                       THEN cell = AsErased(i, j) /\ size = N - 1
                       ELSE /\ cell = AsMerged(i, j) /\ size = N
                            /\ victims = (IF todo = {} THEN {j} ELSE {})
    /\ pc = "done" => cell = AsErased(i, j) /\ size = N - 1
    /\ pc # "failed"

\* No group has been erased before the loop that does it.
VictimsInv == /\ pc \in {"group", "merge"} => victims = {}
              /\ pc = "erase" /\ todo = DOMAIN groups => victims = {}

Inv == TypeOK /\ LoopsInv /\ RootsInv /\ GroupsAreLinked /\ ChainInv /\ PairInv /\ VictimsInv

-------------------------------------------------------------------------------
LEMMA CellType == N \in Nat /\ Cell \subseteq Nat /\ IsFiniteSet(Cell) /\ Cardinality(Cell) = N /\ 0 \notin Cell
<1>1. N \in Nat
  BY CountersAssumption, FS_CardinalityType DEF N
<1>2. IsFiniteSet(Cell) /\ Cardinality(Cell) = N
  BY <1>1, FS_Interval DEF Cell
<1> QED
  BY <1>1, <1>2 DEF Cell

LEMMA LeastElement ==
    ASSUME NEW T \in SUBSET Nat, T # {}
    PROVE  \E x \in T : \A y \in T : x <= y
<1> DEFINE F == {0..n : n \in T}
           R == StrictSubsetOrdering(Nat)
<1>1. IsWellFoundedOn(R, FiniteSubsetsOf(Nat))
  BY FS_StrictSubsetOrderingWellFounded
<1>2. \A n \in Nat : IsFiniteSet(0..n) /\ 0..n \in SUBSET Nat
  BY FS_Interval
<1>3. F \subseteq FiniteSubsetsOf(Nat) /\ F # {}
  BY <1>2 DEF FiniteSubsetsOf
<1> HIDE DEF F, R
<1>4. \E x \in F : \A y \in F : ~(<<y, x>> \in R)
  BY <1>1, <1>3, WFMin
<1> USE DEF F, R
<1>5. PICK n \in T : \A k \in T : <<0..k, 0..n>> \notin StrictSubsetOrdering(Nat)
  BY <1>4
<1>6. ASSUME NEW k \in T, k < n PROVE FALSE
  <2>1. 0..k \subseteq 0..n /\ 0..k # 0..n
    BY <1>6
  <2>2. 0..k \in SUBSET Nat /\ 0..n \in SUBSET Nat
    BY <1>2
  <2> HIDE DEF F, R
  <2>3. <<0..k, 0..n>> \in StrictSubsetOrdering(Nat)
    BY <2>1, <2>2, Zenon DEF StrictSubsetOrdering
  <2> QED
    BY <2>3, <1>5
<1> QED
  BY <1>6

LEMMA SmallestIn ==
    ASSUME NEW S \in SUBSET Cell, S # {}
    PROVE  Smallest(S) \in S
BY CellType, LeastElement DEF Smallest

\* An entry of pipelined_fsm is about two machines that are no counters, and is the only
\* one of its first machine.
LEMMA Entries ==
    /\ \A p \in PipelinedFsm : /\ p = <<p[1], p[2]>>
                               /\ p[1] \in Cell /\ p[2] \in Cell /\ p[1] # p[2]
                               /\ p[2] \in Pipes(p[1])
                               /\ order[p[1]] \notin Counters /\ order[p[2]] \notin Counters
    /\ \A p, q \in PipelinedFsm : p[1] = q[1] => p = q
    /\ \A i \in Cell : Pipes(i) # {} => <<i, Smallest(Pipes(i))>> \in PipelinedFsm
<1>1. ASSUME NEW p \in PipelinedFsm
      PROVE  /\ p[1] \in Cell /\ p[2] \in Pipes(p[1])
             /\ p = <<p[1], p[2]>> /\ p[2] = Smallest(Pipes(p[1]))
  <2>1. PICK i \in Cell : Pipes(i) # {} /\ p = <<i, Smallest(Pipes(i))>>
    BY DEF PipelinedFsm
  <2>2. Pipes(i) \subseteq Cell
    BY DEF Pipes
  <2>3. Smallest(Pipes(i)) \in Pipes(i)
    BY <2>1, <2>2, SmallestIn
  <2> QED
    BY <2>1, <2>3
<1>2. \A i \in Cell : \A j \in Pipes(i) : j \in Cell /\ i # j /\ order[i] \notin Counters /\ order[j] \notin Counters
  BY DEF Pipes
<1>3. \A i \in Cell : Pipes(i) # {} => <<i, Smallest(Pipes(i))>> \in PipelinedFsm
  BY DEF PipelinedFsm
<1> QED
  BY <1>1, <1>2, <1>3

LEMMA InputsKept ==
    ASSUME UNCHANGED <<order, pipelined>>
    PROVE  /\ PipelinedFsm' = PipelinedFsm
           /\ \A i : Pipes(i)' = Pipes(i)
           /\ \A i : Stages(i)' = Stages(i)
           /\ \A i, p : (Chain(i, p)' <=> Chain(i, p)) /\ (InOrder(i, p)' <=> InOrder(i, p))
<1>1. \A i : Pipes(i)' = Pipes(i)
  BY DEF Pipes
<1>2. PipelinedFsm' = PipelinedFsm
  BY <1>1 DEF PipelinedFsm
<1>3. \A i : Stages(i)' = Stages(i)
  BY <1>1 DEF Stages
<1>4. ASSUME NEW i, NEW p PROVE (Chain(i, p)' <=> Chain(i, p)) /\ (InOrder(i, p)' <=> InOrder(i, p))
  <2>1. Stages(i)' = Stages(i)
    BY <1>3
  <2> HIDE DEF PipelinedFsm, Stages
  <2> QED
    BY <1>2, <2>1 DEF Chain, InOrder, Others
<1> QED
  BY <1>1, <1>2, <1>3, <1>4

LEMMA InitInv == Init => Inv
<1> SUFFICES ASSUME Init PROVE Inv
  OBVIOUS
<1> USE DEF Init
<1>1. order \in [Cell -> Fsm] /\ \A i, j \in Cell : order[i] = order[j] => i = j
  BY DEF IsInjective
<1>2. TypeOK
  BY <1>1, CellType DEF TypeOK
<1>3. LoopsInv /\ RootsInv /\ GroupsAreLinked
  BY DEF LoopsInv, RootsInv, GroupsAreLinked
<1>4. ChainInv
  <2> SUFFICES ASSUME NEW i \in Cell, NEW p \in Cell, Chain(i, p)
               PROVE  \E g \in 0..Len(groups) : GroupOf(i, p, g) /\ ArcsIn(i, p, g)
    BY DEF ChainInv
  <2>1. Taken(i, p) = {} /\ Stages(i) \subseteq Cell
    BY DEF Taken, Others, Chain, Stages, Pipes
  <2>2. GroupOf(i, p, 0) /\ ArcsIn(i, p, 0)
    BY <2>1 DEF GroupOf, ArcsIn
  <2> QED
    BY <2>2
<1>5. PairInv
  <2> SUFFICES ASSUME NEW i \in Cell, NEW j \in Cell, PipelinedFsm = {<<i, j>>}
               PROVE  /\ pc = "group"
                      /\ cell = AsFound /\ size = N
                      /\ pairs = {<<i, j>>} /\ groups = <<>> /\ rootOf[i] = 0 /\ rootOf[j] = 0
    BY DEF PairInv
  <2> QED
    BY DEF AsFound
<1>6. VictimsInv
  BY DEF VictimsInv
<1> QED
  BY <1>2, <1>3, <1>4, <1>5, <1>6 DEF Inv

-------------------------------------------------------------------------------
(* Grouping: the group that takes the two machines of an entry.            *)

Target(i, j) == IF rootOf[i] # 0 THEN rootOf[i]
                ELSE IF rootOf[j] # 0 THEN rootOf[j] ELSE Len(groups) + 1

Members(g) == IF g \in DOMAIN groups THEN groups[g].members ELSE {}

Entered(i, j) == LET g == Target(i, j)
                     r == IF rootOf[i] # 0 THEN groups[g].root ELSE i
                 IN  /\ g \in Nat \ {0} /\ r \in Cell
                     /\ groups' \in Seq([root : Cell, members : SUBSET Cell])
                     /\ DOMAIN groups' = DOMAIN groups \cup {g}
                     /\ \A h \in DOMAIN groups \ {g} : groups'[h] = groups[h]
                     /\ groups'[g].root = r
                     /\ groups'[g].members = Members(g) \cup {i, j}
                     /\ rootOf' \in [Cell -> Nat]
                     /\ \A x \in Cell \ {i, j} : rootOf'[x] = rootOf[x]
                     /\ \A x \in {i, j} : IF rootOf[x] # 0 THEN rootOf'[x] = rootOf[x]
                                          ELSE rootOf'[x] \in {0, g}
                     /\ rootOf'[j] # 0
                     /\ rootOf[j] = 0 => rootOf'[i] # 0

LEMMA GroupEffect ==
    ASSUME TypeOK, RootsInv, NEW i \in Cell, NEW j \in Cell, i # j,
           Extend(i, j) \/ Upgrade(i, j) \/ NewGroup(i, j)
    PROVE  Entered(i, j)
<1> DEFINE GroupType == [root : Cell, members : SUBSET Cell]
<1>0. groups \in Seq(GroupType) /\ rootOf \in [Cell -> Nat] /\ Len(groups) \in Nat
      /\ DOMAIN groups = 1..Len(groups) /\ 0 \notin DOMAIN groups
  BY DEF TypeOK
<1>a. \A h \in DOMAIN groups : groups[h] \in GroupType
  <2> HIDE DEF GroupType
  <2> QED
    BY <1>0
<1>1. CASE Extend(i, j)
  <2> USE DEF Extend
  <2> DEFINE g == rootOf[i]
  <2>1. g \in DOMAIN groups /\ g # 0 /\ i \in groups[g].members
    BY <1>1 DEF RootsInv
  <2>2. Target(i, j) = g /\ Members(g) = groups[g].members
    BY <1>1, <2>1 DEF Target, Members
  <2> HIDE DEF g
  <2>3. groups' = [groups EXCEPT ![g] = [root |-> groups[g].root, members |-> groups[g].members \cup {j}]]
    BY <1>1 DEF With, g
  <2>4. [root |-> groups[g].root, members |-> groups[g].members \cup {j}] \in GroupType
    BY <1>a, <2>1
  <2>5. /\ groups' \in Seq(GroupType) /\ DOMAIN groups' = DOMAIN groups \cup {g}
        /\ \A h \in DOMAIN groups \ {g} : groups'[h] = groups[h]
        /\ groups'[g] = [root |-> groups[g].root, members |-> groups[g].members \cup {j}]
    BY <1>0, <2>1, <2>3, <2>4
  <2>6. /\ rootOf' \in [Cell -> Nat]
        /\ \A x \in Cell \ {i, j} : rootOf'[x] = rootOf[x]
        /\ \A x \in {i, j} : IF rootOf[x] # 0 THEN rootOf'[x] = rootOf[x] ELSE rootOf'[x] \in {0, g}
        /\ rootOf'[j] # 0 /\ rootOf'[i] # 0
    BY <1>0, <1>1, <2>1 DEF g
  <2>7. groups'[g].root = groups[g].root /\ groups'[g].members = groups[g].members \cup {i, j}
    BY <2>1, <2>5
  <2>8. groups[g].root \in Cell /\ g \in Nat
    BY <1>0, <1>a, <2>1
  <2> QED
    BY <1>1, <2>1, <2>2, <2>5, <2>6, <2>7, <2>8 DEF Entered, g
<1>2. CASE Upgrade(i, j)
  <2> USE DEF Upgrade
  <2> DEFINE g == rootOf[j]
  <2>1. g \in DOMAIN groups /\ g # 0 /\ j \in groups[g].members
    BY <1>2 DEF RootsInv
  <2>2. Target(i, j) = g /\ Members(g) = groups[g].members
    BY <1>2, <2>1 DEF Target, Members
  <2> HIDE DEF g
  <2>3. groups' = [groups EXCEPT ![g] = [root |-> i, members |-> groups[g].members \cup {i}]]
    BY <1>2 DEF With, g
  <2>4. [root |-> i, members |-> groups[g].members \cup {i}] \in GroupType
    BY <1>a, <2>1
  <2>5. /\ groups' \in Seq(GroupType) /\ DOMAIN groups' = DOMAIN groups \cup {g}
        /\ \A h \in DOMAIN groups \ {g} : groups'[h] = groups[h]
        /\ groups'[g] = [root |-> i, members |-> groups[g].members \cup {i}]
    BY <1>0, <2>1, <2>3, <2>4
  <2>6. groups'[g].root = i /\ groups'[g].members = groups[g].members \cup {i, j} /\ g \in Nat
    BY <1>0, <2>1, <2>5
  <2> QED
    BY <1>0, <1>2, <2>1, <2>2, <2>5, <2>6 DEF Entered, g
<1>3. CASE NewGroup(i, j)
  <2> USE DEF NewGroup
  <2> DEFINE g == Len(groups) + 1
             new == [root |-> i, members |-> {i, j}]
  <2>1. Target(i, j) = g /\ Members(g) = {} /\ g \notin DOMAIN groups /\ g \in Nat \ {0}
    BY <1>0, <1>3 DEF Target, Members
  <2>2. new \in GroupType /\ groups' = Append(groups, new) /\ Len(groups') = g
    BY <1>0, <1>3
  <2>3. new.root = i /\ new.members = {i, j}
    OBVIOUS
  <2>4. rootOf' = [rootOf EXCEPT ![i] = g, ![j] = g]
    BY <1>3, <2>2
  <2> HIDE DEF new
  <2>5. /\ groups' \in Seq(GroupType) /\ DOMAIN groups' = DOMAIN groups \cup {g}
        /\ \A h \in DOMAIN groups \ {g} : groups'[h] = groups[h]
        /\ groups'[g] = new
    BY <1>0, <2>2
  <2> HIDE DEF g
  <2>6. /\ rootOf' \in [Cell -> Nat] /\ rootOf'[i] = g /\ rootOf'[j] = g
        /\ \A x \in Cell \ {i, j} : rootOf'[x] = rootOf[x]
    BY <1>0, <2>1, <2>4
  <2> QED
    BY <1>3, <2>1, <2>3, <2>5, <2>6 DEF Entered
<1> QED
  BY <1>1, <1>2, <1>3

LEMMA GroupTypes ==
    ASSUME Inv, Group
    PROVE  /\ TypeOK' /\ LoopsInv' /\ RootsInv' /\ GroupsAreLinked' /\ VictimsInv'
           /\ \E i, j \in Cell : <<i, j>> \in pairs /\ pairs' = pairs \ {<<i, j>>} /\ i # j /\ Entered(i, j)
<1>1. PICK p \in pairs : /\ Extend(p[1], p[2]) \/ Upgrade(p[1], p[2]) \/ NewGroup(p[1], p[2])
                         /\ pairs' = pairs \ {p}
  BY DEF Group
<1>2. p \in PipelinedFsm
  BY DEF Inv, TypeOK
<1> DEFINE i == p[1]
           j == p[2]
           g == Target(i, j)
<1>3. /\ p = <<i, j>> /\ i \in Cell /\ j \in Cell /\ i # j
      /\ order[i] \notin Counters /\ order[j] \notin Counters
  BY <1>2, Entries
<1>4. Extend(i, j) \/ Upgrade(i, j) \/ NewGroup(i, j)
  BY <1>1
<1> HIDE DEF i, j
<1>5. Entered(i, j)
  BY <1>3, <1>4, GroupEffect DEF Inv
<1>6. /\ g \in Nat \ {0} /\ groups' \in Seq([root : Cell, members : SUBSET Cell])
      /\ DOMAIN groups' = DOMAIN groups \cup {g}
      /\ \A h \in DOMAIN groups \ {g} : groups'[h] = groups[h]
      /\ groups'[g].members = Members(g) \cup {i, j}
      /\ rootOf' \in [Cell -> Nat]
      /\ \A x \in Cell \ {i, j} : rootOf'[x] = rootOf[x]
      /\ \A x \in {i, j} : IF rootOf[x] # 0 THEN rootOf'[x] = rootOf[x] ELSE rootOf'[x] \in {0, g}
  BY <1>5 DEF Entered
<1>7. groups'[g].root = IF rootOf[i] # 0 THEN groups[g].root ELSE i
  BY <1>5 DEF Entered
<1> HIDE DEF g
<1>8. UNCHANGED <<order, pipelined, pc, cell, size, todo, victims>> /\ pc = "group"
  BY DEF Group
<1>9. PipelinedFsm' = PipelinedFsm
  BY <1>8, InputsKept
<1>10. pairs' \subseteq pairs /\ todo' = {}
  BY <1>1, <1>8 DEF Inv, LoopsInv
<1>11. TypeOK'
  BY <1>6, <1>8, <1>9, <1>10 DEF Inv, TypeOK
<1>12. LoopsInv' /\ VictimsInv'
  BY <1>8 DEF Inv, LoopsInv, VictimsInv
<1>13. RootsInv'
  <2>1. \A h \in DOMAIN groups : groups[h].members \subseteq groups'[h].members
    BY <1>6 DEF Members
  <2>2. ASSUME NEW x \in Cell, rootOf'[x] # 0
        PROVE  rootOf'[x] \in DOMAIN groups' /\ x \in groups'[rootOf'[x]].members
    <3>1. CASE rootOf'[x] = rootOf[x]
      <4>1. rootOf[x] \in DOMAIN groups /\ x \in groups[rootOf[x]].members
        BY <2>2, <3>1 DEF Inv, RootsInv
      <4> QED
        BY <1>6, <2>1, <3>1, <4>1
    <3>2. CASE rootOf'[x] # rootOf[x]
      BY <1>6, <2>2, <3>2
    <3> QED
      BY <3>1, <3>2
  <2>3. ASSUME NEW h \in DOMAIN groups' PROVE groups'[h].root \in groups'[h].members
    <3>1. CASE h # g
      BY <1>6, <3>1 DEF Inv, RootsInv
    <3>2. CASE h = g /\ rootOf[i] = 0
      BY <1>6, <1>7, <3>2
    <3>3. CASE h = g /\ rootOf[i] # 0
      <4>1. g \in DOMAIN groups
        BY <1>3, <3>3 DEF g, Target, Inv, RootsInv
      <4> QED
        BY <1>7, <2>1, <3>3, <4>1 DEF Inv, RootsInv
    <3> QED
      BY <3>1, <3>2, <3>3
  <2> QED
    BY <2>2, <2>3 DEF RootsInv
<1>14. GroupsAreLinked'
  <2> SUFFICES ASSUME NEW h \in DOMAIN groups', NEW x \in groups'[h].members
               PROVE  /\ order[x] \notin Counters
                      /\ \E y \in groups'[h].members \ {x} : <<x, y>> \in PipelinedFsm \/ <<y, x>> \in PipelinedFsm
    BY <1>8, <1>9 DEF GroupsAreLinked
  <2>1. CASE x \in {i, j} /\ h = g
    BY <1>2, <1>3, <1>6, <2>1
  <2>2. CASE h \in DOMAIN groups /\ x \in groups[h].members
    <3>1. /\ order[x] \notin Counters
          /\ \E y \in groups[h].members \ {x} : <<x, y>> \in PipelinedFsm \/ <<y, x>> \in PipelinedFsm
      BY <2>2 DEF Inv, GroupsAreLinked
    <3>2. groups[h].members \subseteq groups'[h].members
      BY <1>6, <2>2 DEF Members
    <3> QED
      BY <3>1, <3>2
  <2> QED
    BY <1>6, <2>1, <2>2 DEF Members
<1>15. <<i, j>> \in pairs /\ pairs' = pairs \ {<<i, j>>}
  BY <1>1, <1>3
<1> QED
  BY <1>3, <1>5, <1>11, <1>12, <1>13, <1>14, <1>15

LEMMA ChainFacts ==
    ASSUME Inv, NEW i \in Cell, NEW p \in Cell, Chain(i, p)
    PROVE  /\ i # p /\ i \in Others(i, p) /\ p \notin Others(i, p)
           /\ Stages(i) \subseteq Cell /\ Stages(i) = Others(i, p) \cup {p}
           /\ Taken(i, p) \subseteq Others(i, p)
           /\ Touched(i, p) = Taken(i, p) \cup (IF Taken(i, p) = {} THEN {} ELSE {p})
<1>1. i # p /\ p \in Stages(i)
  BY DEF Chain
<1>2. i \in Stages(i) /\ Stages(i) \subseteq Cell
  BY DEF Stages, Pipes
<1>3. Taken(i, p) \subseteq Others(i, p)
  BY DEF Taken
<1>4. Touched(i, p) = Taken(i, p) \cup (IF Taken(i, p) = {} THEN {} ELSE {p})
  BY DEF Touched
<1> QED
  BY <1>1, <1>2, <1>3, <1>4 DEF Others

\* A pair of the pipeline puts the one of its ends that is not p into the group.
LEMMA PairTakes ==
    ASSUME Inv, NEW i \in Cell, NEW p \in Cell, Chain(i, p),
           NEW u \in Cell, NEW v \in Cell, <<u, v>> \in pairs, pairs' = pairs \ {<<u, v>>},
           u # v, Stages(i)' = Stages(i)
    PROVE  \/ u \notin Stages(i) /\ v \notin Stages(i) /\ Taken(i, p)' = Taken(i, p)
           \/ \E x \in Others(i, p) : /\ x \notin Taken(i, p)
                                      /\ Taken(i, p)' = Taken(i, p) \cup {x}
                                      /\ {u, v} = {x, p}
                                      /\ x = i => u = i
                                      /\ InOrder(i, p) /\ x # i => u = p
<1>1. <<u, v>> \in PipelinedFsm
  BY DEF Inv, TypeOK
<1>2. Others(i, p)' = Others(i, p)
  BY DEF Others
<1>3. Taken(i, p)' = {x \in Others(i, p) : <<x, p>> \notin pairs' /\ <<p, x>> \notin pairs'}
  BY <1>2 DEF Taken
<1>4. CASE u \notin Stages(i) /\ v \notin Stages(i)
  <2>1. \A x \in Others(i, p) : <<x, p>> # <<u, v>> /\ <<p, x>> # <<u, v>>
    BY <1>4, ChainFacts
  <2> QED
    BY <1>3, <1>4, <2>1 DEF Taken
<1>5. CASE {u, v} \cap Stages(i) # {}
  <2>1. {u, v} \subseteq Stages(i) /\ (u = p \/ v = p) /\ <<v, u>> \notin PipelinedFsm
    BY <1>1, <1>5 DEF Chain
  <2>2. PICK x \in Others(i, p) : {u, v} = {x, p}
    BY <2>1, ChainFacts
  <2>3. pairs \subseteq PipelinedFsm
    BY DEF Inv, TypeOK
  <2>4. x \notin Taken(i, p)
    BY <2>1, <2>2, ChainFacts DEF Taken
  <2>5. \A y \in Others(i, p) : y \in Taken(i, p)' <=> y \in Taken(i, p) \/ y = x
    <3>1. <<x, p>> \notin pairs' /\ <<p, x>> \notin pairs'
      BY <2>1, <2>2, <2>3, ChainFacts
    <3>2. \A y \in Others(i, p) \ {x} : <<y, p>> # <<u, v>> /\ <<p, y>> # <<u, v>>
      BY <2>2, ChainFacts
    <3> QED
      BY <1>3, <3>1, <3>2 DEF Taken
  <2>6. Taken(i, p)' = Taken(i, p) \cup {x}
    BY <1>3, <2>5 DEF Taken
  <2>7. x = i => u = i
    BY <2>1, <2>2, ChainFacts DEF Chain
  <2>8. InOrder(i, p) /\ x # i => u = p
    BY <1>1, <2>1, <2>2, ChainFacts DEF InOrder
  <2> QED
    BY <2>2, <2>4, <2>6, <2>7, <2>8
<1> QED
  BY <1>4, <1>5

LEMMA GroupChain ==
    ASSUME Inv, Group
    PROVE  ChainInv'
<1>1. PICK u \in Cell, v \in Cell : /\ <<u, v>> \in pairs /\ pairs' = pairs \ {<<u, v>>}
                                    /\ u # v /\ Entered(u, v)
  BY GroupTypes
<1>2. UNCHANGED <<order, pipelined, pc, cell, size, todo, victims>> /\ pc = "group"
  BY DEF Group
<1> DEFINE t == Target(u, v)
<1>3. /\ t \in Nat \ {0}
      /\ DOMAIN groups' = DOMAIN groups \cup {t}
      /\ \A h \in DOMAIN groups \ {t} : groups'[h] = groups[h]
      /\ groups'[t].root = IF rootOf[u] # 0 THEN groups[t].root ELSE u
      /\ groups'[t].members = Members(t) \cup {u, v}
      /\ \A x \in Cell \ {u, v} : rootOf'[x] = rootOf[x]
      /\ \A x \in {u, v} : IF rootOf[x] # 0 THEN rootOf'[x] = rootOf[x] ELSE rootOf'[x] \in {0, t}
      /\ rootOf'[v] # 0
      /\ rootOf[v] = 0 => rootOf'[u] # 0
  BY <1>1 DEF Entered
<1>5. /\ rootOf[u] # 0 => t = rootOf[u] /\ t \in DOMAIN groups /\ u \in groups[t].members
      /\ rootOf[u] = 0 /\ rootOf[v] # 0 => t = rootOf[v] /\ t \in DOMAIN groups /\ v \in groups[t].members
      /\ rootOf[u] = 0 /\ rootOf[v] = 0 => t \notin DOMAIN groups
  BY DEF Target, Inv, RootsInv, TypeOK
<1>6. DOMAIN groups' = 1..Len(groups') /\ Len(groups') \in Nat /\ 0 \notin DOMAIN groups
  BY GroupTypes DEF TypeOK, Inv
<1> HIDE DEF t
<1> SUFFICES ASSUME NEW i \in Cell, NEW p \in Cell, Chain(i, p)
             PROVE  (\E g \in 0..Len(groups) : GroupOf(i, p, g) /\ ArcsIn(i, p, g))'
  BY <1>2, InputsKept DEF ChainInv
<1> DEFINE S == Stages(i)
           T == Taken(i, p)
           O == Others(i, p)
           InO == InOrder(i, p)
<1>7. S' = S /\ (InO' <=> InO)
  BY <1>2, InputsKept
<1>8. Touched(i, p)' = T' \cup (IF T' = {} THEN {} ELSE {p})
  BY DEF Touched
<1>9. Touched(i, p) = T \cup (IF T = {} THEN {} ELSE {p})
  BY DEF Touched
<1>10. i # p /\ i \in O /\ p \notin O /\ S \subseteq Cell /\ S = O \cup {p} /\ T \subseteq O
  BY ChainFacts
<1>11. PICK g \in 0..Len(groups) : GroupOf(i, p, g)
  BY DEF Inv, ChainInv
<1>12. /\ \A x \in S \ (T \cup (IF T = {} THEN {} ELSE {p})) : rootOf[x] = 0
       /\ \A h \in DOMAIN groups \ {g} : groups[h].members \cap S = {}
       /\ IF T = {} THEN g = 0
          ELSE /\ g \in DOMAIN groups
               /\ groups[g].members = T \cup {p}
               /\ rootOf[p] = g
               /\ InO /\ i \in T => groups[g].root = i
  BY <1>9, <1>11 DEF GroupOf
<1>13. \/ u \notin S /\ v \notin S /\ T' = T
       \/ \E x \in O : /\ x \notin T /\ T' = T \cup {x} /\ {u, v} = {x, p}
                       /\ x = i => u = i
                       /\ InO /\ x # i => u = p
  BY <1>1, <1>7, PairTakes
<1> HIDE DEF S, T, O, InO
<1> SUFFICES \E k \in 0..Len(groups') :
                /\ \A x \in S \ (T' \cup (IF T' = {} THEN {} ELSE {p})) : rootOf'[x] = 0
                /\ \A h \in DOMAIN groups' \ {k} : groups'[h].members \cap S = {}
                /\ IF T' = {} THEN k = 0
                   ELSE /\ k \in DOMAIN groups'
                        /\ groups'[k].members = T' \cup {p}
                        /\ rootOf'[p] = k
                        /\ InO /\ i \in T' => groups'[k].root = i
  <2>1. PICK k \in 0..Len(groups') :
                /\ \A x \in S \ (T' \cup (IF T' = {} THEN {} ELSE {p})) : rootOf'[x] = 0
                /\ \A h \in DOMAIN groups' \ {k} : groups'[h].members \cap S = {}
                /\ IF T' = {} THEN k = 0
                   ELSE /\ k \in DOMAIN groups'
                        /\ groups'[k].members = T' \cup {p}
                        /\ rootOf'[p] = k
                        /\ InO /\ i \in T' => groups'[k].root = i
    OBVIOUS
  <2>2. GroupOf(i, p, k)' /\ ArcsIn(i, p, k)'
    BY <1>2, <1>7, <1>8, <2>1 DEF GroupOf, ArcsIn, S, T, InO
  <2> QED
    BY <2>1, <2>2
<1>14. CASE u \notin S /\ v \notin S /\ T' = T
  <2>2. t # g
    BY <1>3, <1>5, <1>10, <1>12, <1>14
  <2>3. \A h \in DOMAIN groups' \ {g} : groups'[h].members \cap S = {}
    BY <1>3, <1>12, <1>14, <2>2 DEF Members
  <2>4. \A x \in S : rootOf'[x] = rootOf[x]
    BY <1>3, <1>10, <1>14
  <2>5. g \in DOMAIN groups => g \in DOMAIN groups' /\ groups'[g] = groups[g]
    BY <1>3, <2>2
  <2>6. g \in 0..Len(groups')
    BY <1>6, <1>12, <2>5
  <2> QED
    BY <1>10, <1>12, <1>14, <2>3, <2>4, <2>5, <2>6
<1>15. ASSUME NEW x \in O, x \notin T, T' = T \cup {x}, {u, v} = {x, p},
              x = i => u = i, InO /\ x # i => u = p
       PROVE  \E k \in 0..Len(groups') :
                /\ \A y \in S \ (T' \cup (IF T' = {} THEN {} ELSE {p})) : rootOf'[y] = 0
                /\ \A h \in DOMAIN groups' \ {k} : groups'[h].members \cap S = {}
                /\ IF T' = {} THEN k = 0
                   ELSE /\ k \in DOMAIN groups'
                        /\ groups'[k].members = T' \cup {p}
                        /\ rootOf'[p] = k
                        /\ InO /\ i \in T' => groups'[k].root = i
  <2>1. rootOf[x] = 0 /\ x \in S /\ x # p /\ p \in S /\ T' # {}
    BY <1>10, <1>12, <1>15
  <2>2. \A y \in S \ (T' \cup {p}) : rootOf'[y] = 0
    BY <1>3, <1>10, <1>12, <1>15
  <2>3. CASE T # {}
    <3>1. rootOf[p] = g /\ g \in DOMAIN groups /\ g # 0 /\ groups[g].members = T \cup {p}
      BY <1>6, <1>12, <2>3
    <3>2. t = g
      BY <1>5, <1>15, <2>1, <3>1
    <3>3. groups'[g].members = T' \cup {p}
      BY <1>3, <1>15, <3>1, <3>2 DEF Members
    <3>4. rootOf'[p] = g
      BY <1>3, <1>15, <3>1
    <3>5. InO /\ i \in T' => groups'[g].root = i
      <4>1. CASE x = i
        BY <1>3, <1>15, <2>1, <3>2, <4>1
      <4>2. CASE x # i
        BY <1>3, <1>12, <1>15, <2>3, <3>1, <3>2, <4>2
      <4> QED
        BY <4>1, <4>2
    <3>6. \A h \in DOMAIN groups' \ {g} : groups'[h].members \cap S = {}
      BY <1>3, <1>12, <3>2
    <3> QED
      BY <1>3, <1>6, <2>1, <2>2, <3>2, <3>3, <3>4, <3>5, <3>6
  <2>4. CASE T = {}
    <3>1. rootOf[p] = 0 /\ t \notin DOMAIN groups /\ g = 0
      BY <1>5, <1>10, <1>12, <1>15, <2>1, <2>4
    <3>2. groups'[t].members = T' \cup {p}
      BY <1>3, <1>15, <2>4, <3>1 DEF Members
    <3>3. rootOf'[p] = t
      BY <1>3, <1>15, <2>1, <3>1
    <3>4. InO /\ i \in T' => groups'[t].root = i
      BY <1>3, <1>15, <2>1, <2>4, <3>1
    <3>5. \A h \in DOMAIN groups' \ {t} : groups'[h].members \cap S = {}
      BY <1>3, <1>6, <1>12, <3>1
    <3> QED
      BY <1>3, <1>6, <2>1, <2>2, <3>2, <3>3, <3>4, <3>5
  <2> QED
    BY <2>3, <2>4
<1> QED
  BY <1>13, <1>14, <1>15

LEMMA GroupPair ==
    ASSUME Inv, Group
    PROVE  PairInv'
<1> SUFFICES ASSUME NEW i \in Cell, NEW j \in Cell, PipelinedFsm = {<<i, j>>}
             PROVE  /\ pc' = "group" /\ cell' = AsFound' /\ size' = N
                    /\ pairs' = {} /\ groups' = OnlyGroup(i, j)
  BY InputsKept DEF PairInv, Group
<1>1. /\ pc = "group" /\ cell = AsFound /\ size = N
      /\ pairs = {} \/ (pairs = {<<i, j>>} /\ groups = <<>> /\ rootOf[i] = 0 /\ rootOf[j] = 0)
  BY DEF Group, Inv, PairInv
<1>2. PICK p \in pairs : /\ Extend(p[1], p[2]) \/ Upgrade(p[1], p[2]) \/ NewGroup(p[1], p[2])
                         /\ pairs' = pairs \ {p}
  BY DEF Group
<1>3. /\ p = <<i, j>> /\ groups = <<>> /\ rootOf[i] = 0 /\ rootOf[j] = 0 /\ pairs' = {}
      /\ Extend(i, j) \/ Upgrade(i, j) \/ NewGroup(i, j)
  BY <1>1, <1>2
<1>4. groups' = Append(<<>>, [root |-> i, members |-> {i, j}])
  BY <1>3 DEF Extend, Upgrade, NewGroup
<1>5. groups' = OnlyGroup(i, j)
  BY <1>4 DEF OnlyGroup
<1>6. UNCHANGED <<order, pc, cell, size>>
  BY DEF Group
<1>7. AsFound' = AsFound
  BY <1>6 DEF AsFound
<1> QED
  BY <1>1, <1>3, <1>5, <1>6, <1>7

LEMMA GroupStep ==
    ASSUME Inv, Group
    PROVE  Inv'
BY GroupTypes, GroupChain, GroupPair DEF Inv

-------------------------------------------------------------------------------
(* The loops after that leave the groups alone.                            *)

LEMMA GroupsKept ==
    ASSUME Inv, UNCHANGED <<order, pipelined, pairs, rootOf, groups>>
    PROVE  /\ RootsInv' /\ GroupsAreLinked'
           /\ \A i, p \in Cell : Chain(i, p)' => Chain(i, p)
           /\ \A i, p, g : GroupOf(i, p, g)' = GroupOf(i, p, g)
           /\ PipelinedFsm' = PipelinedFsm
           /\ \A i : Stages(i)' = Stages(i)
           /\ AsFound' = AsFound
           /\ \A i, j : AsMerged(i, j)' = AsMerged(i, j) /\ AsErased(i, j)' = AsErased(i, j)
<1>1. RootsInv' /\ GroupsAreLinked'
  BY InputsKept DEF Inv, RootsInv, GroupsAreLinked
<1>2. ASSUME NEW i, NEW p PROVE Taken(i, p)' = Taken(i, p) /\ Touched(i, p)' = Touched(i, p)
  <2>1. Others(i, p)' = Others(i, p)
    BY InputsKept DEF Others
  <2>2. Taken(i, p)' = Taken(i, p)
    BY <2>1 DEF Taken
  <2> QED
    BY <2>2 DEF Touched
<1>3. \A i, p, g : GroupOf(i, p, g)' = GroupOf(i, p, g)
  <2> SUFFICES ASSUME NEW i, NEW p, NEW g PROVE GroupOf(i, p, g)' = GroupOf(i, p, g)
    OBVIOUS
  <2>1. /\ Taken(i, p)' = Taken(i, p) /\ Touched(i, p)' = Touched(i, p)
        /\ Stages(i)' = Stages(i) /\ (InOrder(i, p)' <=> InOrder(i, p))
    BY <1>2, InputsKept
  <2> HIDE DEF Stages, Taken, Touched, InOrder
  <2> QED
    BY <2>1 DEF GroupOf
<1>4. AsFound' = AsFound /\ \A i, j : AsMerged(i, j)' = AsMerged(i, j)
  BY DEF AsFound, AsMerged
<1>5. \A i, j : AsErased(i, j)' = AsErased(i, j)
  BY <1>4 DEF AsErased
<1> QED
  BY <1>1, <1>3, <1>4, <1>5, InputsKept

\* When all entries are grouped the machines of a pipeline are one group.
LEMMA WholeGroup ==
    ASSUME Inv, pairs = {}, NEW i \in Cell, NEW p \in Cell, Chain(i, p), NEW g, GroupOf(i, p, g)
    PROVE  /\ g \in DOMAIN groups /\ groups[g].members = Stages(i)
           /\ groups[g].root \in Stages(i)
           /\ InOrder(i, p) => groups[g].root = i
           /\ \A h \in DOMAIN groups \ {g} : groups[h].members \cap Stages(i) = {}
<1>1. Taken(i, p) = Others(i, p)
  BY DEF Taken
<1>a. /\ i \in Others(i, p) /\ Stages(i) = Others(i, p) \cup {p}
      /\ Touched(i, p) = Taken(i, p) \cup (IF Taken(i, p) = {} THEN {} ELSE {p})
  BY ChainFacts
<1>2. i \in Taken(i, p) /\ Touched(i, p) = Stages(i)
  BY <1>1, <1>a
<1>3. /\ g \in DOMAIN groups /\ groups[g].members = Stages(i)
      /\ InOrder(i, p) => groups[g].root = i
      /\ \A h \in DOMAIN groups \ {g} : groups[h].members \cap Stages(i) = {}
  BY <1>2 DEF GroupOf
<1> QED
  BY <1>3 DEF Inv, RootsInv

LEMMA StartMergeStep ==
    ASSUME Inv, StartMerge
    PROVE  Inv'
<1>1. /\ pc = "group" /\ pairs = {} /\ pc' = "merge" /\ todo' = DOMAIN groups
      /\ UNCHANGED <<order, pipelined, pairs, rootOf, groups, cell, size, victims>>
  BY DEF StartMerge
<1>2. cell = [k \in Cell |-> [node |-> order[k], arcs |-> {order[k]}]]
  BY <1>1 DEF Inv, LoopsInv
<1>3. TypeOK' /\ LoopsInv' /\ VictimsInv'
  BY <1>1, GroupsKept DEF Inv, TypeOK, LoopsInv, VictimsInv
<1>4. ChainInv'
  <2> SUFFICES ASSUME NEW i \in Cell, NEW p \in Cell, Chain(i, p)
               PROVE  (\E g \in 0..Len(groups) : GroupOf(i, p, g) /\ ArcsIn(i, p, g))'
    BY <1>1, GroupsKept DEF ChainInv
  <2>1. PICK g \in 0..Len(groups) : GroupOf(i, p, g)
    BY DEF Inv, ChainInv
  <2>2. g \in DOMAIN groups /\ groups[g].root \in Stages(i)
    BY <1>1, <2>1, WholeGroup
  <2>3. Stages(i)' = Stages(i) /\ Stages(i) \subseteq Cell
    BY <1>1, GroupsKept, ChainFacts
  <2>4. ArcsIn(i, p, g)'
    BY <1>1, <1>2, <2>2, <2>3 DEF ArcsIn
  <2>5. GroupOf(i, p, g)'
    BY <1>1, <2>1, GroupsKept
  <2> QED
    BY <1>1, <2>4, <2>5
<1>5. PairInv'
  <2> SUFFICES ASSUME NEW i \in Cell, NEW j \in Cell, PipelinedFsm = {<<i, j>>}
               PROVE  groups' = OnlyGroup(i, j) /\ todo' # {} /\ cell' = AsFound' /\ size' = N
    BY <1>1, GroupsKept DEF PairInv
  <2>1. cell = AsFound /\ size = N /\ groups = OnlyGroup(i, j)
    BY <1>1 DEF Inv, PairInv
  <2>2. DOMAIN OnlyGroup(i, j) = {1}
    BY DEF OnlyGroup
  <2> QED
    BY <1>1, <2>1, <2>2, GroupsKept
<1> QED
  BY <1>1, <1>3, <1>4, <1>5, GroupsKept DEF Inv

LEMMA OnlyGroupFacts ==
    ASSUME Inv, NEW i \in Cell, NEW j \in Cell, PipelinedFsm = {<<i, j>>}, groups = OnlyGroup(i, j)
    PROVE  /\ i # j /\ DOMAIN groups = {1} /\ groups[1].root = i /\ groups[1].members = {i, j}
           /\ Merged(1) = {j}
<1>1. i # j
  BY Entries
<1>2. groups[1] = [root |-> i, members |-> {i, j}] /\ DOMAIN groups = {1}
  BY DEF OnlyGroup
<1> QED
  BY <1>1, <1>2 DEF Merged

LEMMA MergeStep ==
    ASSUME Inv, Merge
    PROVE  Inv'
<1>1. /\ pc = "merge" /\ pc' = pc
      /\ UNCHANGED <<order, pipelined, pairs, rootOf, groups, size, victims>>
  BY DEF Merge
<1>2. PICK h \in todo : /\ cell' = [cell EXCEPT ![groups[h].root] = [node |-> @.node, arcs |-> ArcsOf(h)]]
                        /\ todo' = todo \ {h}
  BY DEF Merge
<1>3. pairs = {} /\ victims = {}
  BY <1>1 DEF Inv, LoopsInv, VictimsInv
<1>4. /\ h \in DOMAIN groups /\ groups[h].root \in Cell /\ groups[h].members \subseteq Cell
      /\ groups[h].root \in groups[h].members
      /\ cell \in [Cell -> [node : Fsm, arcs : SUBSET Fsm]]
  <2> DEFINE GroupType == [root : Cell, members : SUBSET Cell]
  <2>1. h \in DOMAIN groups /\ groups \in Seq(GroupType)
    BY DEF Inv, TypeOK
  <2> HIDE DEF GroupType
  <2>2. groups[h] \in GroupType
    BY <2>1
  <2> USE DEF GroupType
  <2> QED
    BY <2>1, <2>2 DEF Inv, TypeOK, RootsInv
<1>5. ArcsOf(h) \subseteq Fsm
  BY <1>4 DEF ArcsOf
<1> DEFINE r == groups[h].root
           new == [node |-> cell[r].node, arcs |-> ArcsOf(h)]
<1>6. new \in [node : Fsm, arcs : SUBSET Fsm] /\ cell' = [cell EXCEPT ![r] = new]
      /\ new.arcs = ArcsOf(h) /\ new.node = cell[r].node
  BY <1>2, <1>4, <1>5
<1>r. r \in Cell
  BY <1>4
<1> HIDE DEF r, new
<1>7. /\ cell' \in [Cell -> [node : Fsm, arcs : SUBSET Fsm]]
      /\ cell'[r] = new /\ \A x \in Cell \ {r} : cell'[x] = cell[x]
  BY <1>4, <1>6, <1>r
<1>8. TypeOK' /\ LoopsInv' /\ VictimsInv'
  BY <1>1, <1>2, <1>3, <1>7, GroupsKept DEF Inv, TypeOK, LoopsInv, VictimsInv
<1>9. ChainInv'
  <2> SUFFICES ASSUME NEW i \in Cell, NEW p \in Cell, Chain(i, p)
               PROVE  (\E g \in 0..Len(groups) : GroupOf(i, p, g) /\ ArcsIn(i, p, g))'
    BY <1>1, GroupsKept DEF ChainInv
  <2>1. PICK g \in 0..Len(groups) : GroupOf(i, p, g) /\ ArcsIn(i, p, g)
    BY DEF Inv, ChainInv
  <2>2. /\ g \in DOMAIN groups /\ groups[g].members = Stages(i) /\ groups[g].root \in Stages(i)
        /\ \A k \in DOMAIN groups \ {g} : groups[k].members \cap Stages(i) = {}
    BY <1>3, <2>1, WholeGroup
  <2>a. Stages(i)' = Stages(i) /\ Stages(i) \subseteq Cell
    BY <1>1, GroupsKept, ChainFacts
  <2>3. ArcsOfAll(Stages(i))' = ArcsOfAll(Stages(i))
    BY <1>1, <2>a DEF ArcsOfAll
  <2> DEFINE root == groups[g].root
  <2>4. /\ \A x \in Stages(i) : x # root => cell[x].arcs = {order[x]}
        /\ cell[root].arcs = IF g \in todo THEN {order[root]} ELSE ArcsOfAll(Stages(i))
    BY <1>1, <2>1 DEF ArcsIn
  <2>5. GroupOf(i, p, g)'
    BY <1>1, <2>1, GroupsKept
  <2>b. root \in Stages(i)
    BY <2>2
  <2> HIDE DEF root
  <2>6. /\ \A x \in Stages(i) : x # root => cell'[x].arcs = {order[x]}
        /\ cell'[root].arcs = IF g \in todo' THEN {order[root]} ELSE ArcsOfAll(Stages(i))
    <3>1. CASE h = g
      <4>1. r = root /\ g \notin todo'
        BY <1>2, <3>1 DEF r, root
      <4>2. ArcsOf(h) = UNION {cell[x].arcs : x \in Stages(i)}
        BY <2>2, <3>1 DEF ArcsOf
      <4>3. \A x \in Stages(i) : cell[x].arcs = {order[x]}
        BY <1>2, <2>4, <3>1
      <4>4. ArcsOf(h) = ArcsOfAll(Stages(i))
        BY <4>2, <4>3 DEF ArcsOfAll
      <4> QED
        BY <1>6, <1>7, <2>a, <2>b, <2>4, <4>1, <4>4
    <3>2. CASE h # g
      <4>1. r \notin Stages(i)
        BY <1>4, <2>2, <3>2 DEF r
      <4> QED
        BY <1>2, <1>7, <2>a, <2>b, <2>4, <3>2, <4>1
    <3> QED
      BY <3>1, <3>2
  <2>7. ArcsIn(i, p, g)'
    BY <1>1, <2>a, <2>3, <2>6 DEF ArcsIn, root
  <2> QED
    BY <1>1, <2>1, <2>5, <2>7
<1>10. PairInv'
  <2> SUFFICES ASSUME NEW i \in Cell, NEW j \in Cell, PipelinedFsm = {<<i, j>>}
               PROVE  groups' = OnlyGroup(i, j) /\ todo' = {} /\ cell' = AsMerged(i, j) /\ size' = N
    BY <1>1, GroupsKept DEF PairInv
  <2>1. groups = OnlyGroup(i, j) /\ size = N
    BY <1>1 DEF Inv, PairInv
  <2>2. i # j /\ DOMAIN groups = {1} /\ groups[1].root = i /\ groups[1].members = {i, j}
    BY <2>1, OnlyGroupFacts
  <2>3. todo \subseteq {1} /\ h = 1 /\ todo' = {} /\ r = i
    BY <1>2, <1>4, <2>2 DEF Inv, TypeOK, r
  <2>4. cell = AsFound
    BY <1>1, <1>2 DEF Inv, PairInv
  <2>5. ArcsOf(h) = {order[i], order[j]}
    <3>1. cell[i].arcs = {order[i]} /\ cell[j].arcs = {order[j]}
      BY <2>4 DEF AsFound
    <3> QED
      BY <2>2, <2>3, <3>1 DEF ArcsOf
  <2>6. new = [node |-> order[i], arcs |-> {order[i], order[j]}]
    BY <2>3, <2>4, <2>5 DEF new, AsFound
  <2>7. cell' = AsMerged(i, j)
    BY <1>6, <2>3, <2>4, <2>6 DEF AsFound, AsMerged
  <2> QED
    BY <1>1, <2>1, <2>3, <2>7
<1> QED
  BY <1>1, <1>8, <1>9, <1>10, GroupsKept DEF Inv

LEMMA StartEraseStep ==
    ASSUME Inv, StartErase
    PROVE  Inv'
<1>1. /\ pc = "merge" /\ todo = {} /\ pc' = "erase" /\ todo' = DOMAIN groups
      /\ UNCHANGED <<order, pipelined, pairs, rootOf, groups, cell, size, victims>>
  BY DEF StartErase
<1>2. pairs = {} /\ victims = {}
  BY <1>1 DEF Inv, LoopsInv, VictimsInv
<1>3. TypeOK' /\ LoopsInv' /\ VictimsInv'
  BY <1>1, <1>2, GroupsKept DEF Inv, TypeOK, LoopsInv, VictimsInv
<1>4. ChainInv'
  <2> SUFFICES ASSUME NEW i \in Cell, NEW p \in Cell, Chain(i, p)
               PROVE  (\E g \in 0..Len(groups) : GroupOf(i, p, g) /\ ArcsIn(i, p, g))'
    BY <1>1, GroupsKept DEF ChainInv
  <2>1. PICK g \in 0..Len(groups) : GroupOf(i, p, g) /\ ArcsIn(i, p, g)
    BY DEF Inv, ChainInv
  <2>a. g \in DOMAIN groups
    BY <1>2, <2>1, WholeGroup
  <2>2. cell[groups[g].root].arcs = ArcsOfAll(Stages(i))
    BY <1>1, <2>1 DEF ArcsIn
  <2>3. Stages(i)' = Stages(i)
    BY <1>1, GroupsKept
  <2>4. ArcsOfAll(Stages(i))' = ArcsOfAll(Stages(i))
    BY <1>1, <2>3 DEF ArcsOfAll
  <2>5. ArcsIn(i, p, g)'
    BY <1>1, <2>2, <2>4 DEF ArcsIn
  <2>6. GroupOf(i, p, g)'
    BY <1>1, <2>1, GroupsKept
  <2> QED
    BY <1>1, <2>5, <2>6
<1>5. PairInv'
  <2> SUFFICES ASSUME NEW i \in Cell, NEW j \in Cell, PipelinedFsm = {<<i, j>>}
               PROVE  /\ groups' = OnlyGroup(i, j) /\ todo' # {} /\ victims' = {}
                      /\ cell' = AsMerged(i, j) /\ size' = N
    BY <1>1, GroupsKept DEF PairInv
  <2>1. cell = AsMerged(i, j) /\ size = N /\ groups = OnlyGroup(i, j)
    BY <1>1 DEF Inv, PairInv
  <2> QED
    BY <1>1, <1>2, <2>1, OnlyGroupFacts
<1> QED
  BY <1>1, <1>3, <1>4, <1>5, GroupsKept DEF Inv

\* Once a group is being erased nothing more is said of the pipelines than that each is
\* a group.
LEMMA ErasingKeepsChains ==
    ASSUME Inv, UNCHANGED <<order, pipelined, pairs, rootOf, groups>>,
           pc' # "merge", pc' = "erase" => todo' # DOMAIN groups
    PROVE  ChainInv'
<1> SUFFICES ASSUME NEW i \in Cell, NEW p \in Cell, Chain(i, p)
             PROVE  (\E g \in 0..Len(groups) : GroupOf(i, p, g) /\ ArcsIn(i, p, g))'
  BY GroupsKept DEF ChainInv
<1>1. PICK g \in 0..Len(groups) : GroupOf(i, p, g)
  BY DEF Inv, ChainInv
<1>2. GroupOf(i, p, g)'
  BY <1>1, GroupsKept
<1>3. ArcsIn(i, p, g)'
  BY DEF ArcsIn
<1> QED
  BY <1>2, <1>3

LEMMA NextGroupStep ==
    ASSUME Inv, NextGroup
    PROVE  Inv'
<1>1. /\ pc = "erase" /\ victims = {} /\ pc' = pc
      /\ UNCHANGED <<order, pipelined, pairs, rootOf, groups, cell, size>>
  BY DEF NextGroup
<1>2. PICK h \in todo : victims' = Merged(h) /\ todo' = todo \ {h}
  BY DEF NextGroup
<1>3. h \in DOMAIN groups /\ todo' # DOMAIN groups /\ todo \subseteq DOMAIN groups
  BY <1>2 DEF Inv, TypeOK
<1>4. TypeOK' /\ LoopsInv' /\ VictimsInv'
  BY <1>1, <1>2, <1>3, GroupsKept DEF Inv, TypeOK, LoopsInv, VictimsInv
<1>5. ChainInv'
  BY <1>1, <1>3, ErasingKeepsChains
<1>6. PairInv'
  <2> SUFFICES ASSUME NEW i \in Cell, NEW j \in Cell, PipelinedFsm = {<<i, j>>}
               PROVE  /\ groups' = OnlyGroup(i, j) /\ todo' = {} /\ victims' = {j}
                      /\ cell' = AsMerged(i, j) /\ size' = N
    BY <1>1, GroupsKept DEF PairInv
  <2>1. cell = AsMerged(i, j) /\ size = N /\ groups = OnlyGroup(i, j)
    BY <1>1, <1>2 DEF Inv, PairInv
  <2> QED
    BY <1>1, <1>2, <1>3, <2>1, OnlyGroupFacts
<1> QED
  BY <1>1, <1>4, <1>5, <1>6, GroupsKept DEF Inv

\* With one pair the machine to erase is found where it was.
LEMMA PairFound ==
    ASSUME Inv, pc = "erase", victims # {}, NEW i \in Cell, NEW j \in Cell, PipelinedFsm = {<<i, j>>}
    PROVE  /\ victims = {j} /\ todo = {} /\ cell = AsMerged(i, j) /\ size = N
           /\ groups = OnlyGroup(i, j) /\ Matches(j) = {j}
<1>1. /\ victims = {j} /\ todo = {} /\ cell = AsMerged(i, j) /\ size = N
      /\ groups = OnlyGroup(i, j)
  BY DEF Inv, PairInv
<1>2. \A k \in Cell : cell[k].node = order[k]
  BY <1>1 DEF AsMerged
<1>3. Matches(j) = {k \in Cell : order[k] = order[j]}
  BY <1>1, <1>2 DEF Matches, Cell
<1>4. Matches(j) = {j}
  BY <1>3 DEF Inv, TypeOK
<1> QED
  BY <1>1, <1>4

LEMMA EraseChildStep ==
    ASSUME Inv, EraseChild
    PROVE  Inv'
<1>1. /\ pc = "erase" /\ pc' = pc /\ todo' = todo
      /\ UNCHANGED <<order, pipelined, pairs, rootOf, groups>>
  BY DEF EraseChild
<1>2. PICK v \in victims : /\ Matches(v) # {}
                           /\ Erase(Smallest(Matches(v)))
                           /\ victims' = victims \ {v}
  BY DEF EraseChild
<1>3. todo # DOMAIN groups
  BY <1>1, <1>2 DEF Inv, VictimsInv
<1>4. cell \in [Cell -> [node : Fsm, arcs : SUBSET Fsm]] /\ size \in 0..N /\ size # 0
  BY <1>2 DEF Inv, TypeOK, Matches
<1>5. size' = size - 1 /\ size' \in 0..N
  BY <1>2, <1>4, CellType DEF Erase
<1>6. cell' \in [Cell -> [node : Fsm, arcs : SUBSET Fsm]]
  <2>1. \A k \in Cell : k < size => k + 1 \in Cell
    BY <1>4, CellType DEF Cell
  <2>2. \E at : cell' = [k \in Cell |-> IF at <= k /\ k < size THEN cell[k + 1] ELSE cell[k]]
    BY <1>2 DEF Erase
  <2> QED
    BY <1>4, <2>1, <2>2
<1>7. TypeOK' /\ LoopsInv' /\ VictimsInv'
  BY <1>1, <1>3, <1>5, <1>6, GroupsKept DEF Inv, TypeOK, LoopsInv, VictimsInv
<1>8. ChainInv'
  BY <1>1, <1>3, ErasingKeepsChains
<1>9. PairInv'
  <2> SUFFICES ASSUME NEW i \in Cell, NEW j \in Cell, PipelinedFsm = {<<i, j>>}
               PROVE  /\ groups' = OnlyGroup(i, j) /\ todo' = {} /\ victims' = {}
                      /\ cell' = AsErased(i, j) /\ size' = N - 1
    BY <1>1, GroupsKept DEF PairInv
  <2>1. /\ victims = {j} /\ todo = {} /\ cell = AsMerged(i, j) /\ size = N
        /\ groups = OnlyGroup(i, j) /\ Matches(j) = {j} /\ v = j
    BY <1>1, <1>2, PairFound
  <2>2. Smallest(Matches(v)) = j
    BY <2>1, SmallestIn
  <2>3. cell' = [k \in Cell |-> IF j <= k /\ k < N THEN AsMerged(i, j)[k + 1] ELSE AsMerged(i, j)[k]]
    BY <1>2, <2>1, <2>2 DEF Erase
  <2> QED
    BY <1>1, <1>2, <1>5, <2>1, <2>3 DEF AsErased
<1> QED
  BY <1>1, <1>7, <1>8, <1>9, GroupsKept DEF Inv

LEMMA CannotFindStep ==
    ASSUME Inv, CannotFind
    PROVE  Inv'
<1>1. /\ pc = "erase" /\ pc' = "failed"
      /\ UNCHANGED <<order, pipelined, pairs, rootOf, groups, cell, size, todo, victims>>
      /\ \E v \in victims : Matches(v) = {}
  BY DEF CannotFind
<1>2. TypeOK' /\ LoopsInv' /\ VictimsInv'
  BY <1>1, GroupsKept DEF Inv, TypeOK, LoopsInv, VictimsInv
<1>3. ChainInv'
  BY <1>1, ErasingKeepsChains
<1>4. \A i, j \in Cell : PipelinedFsm # {<<i, j>>}
  BY <1>1, PairFound
<1>5. PairInv'
  BY <1>1, <1>4, GroupsKept DEF PairInv
<1> QED
  BY <1>1, <1>2, <1>3, <1>5, GroupsKept DEF Inv

LEMMA DoneStep ==
    ASSUME Inv, Done
    PROVE  Inv'
<1>1. /\ pc = "erase" /\ todo = {} /\ victims = {} /\ pc' = "done"
      /\ UNCHANGED <<order, pipelined, pairs, rootOf, groups, cell, size, todo, victims>>
  BY DEF Done
<1>2. TypeOK' /\ LoopsInv' /\ VictimsInv'
  BY <1>1, GroupsKept DEF Inv, TypeOK, LoopsInv, VictimsInv
<1>3. ChainInv'
  BY <1>1, ErasingKeepsChains
<1>4. PairInv'
  <2> SUFFICES ASSUME NEW i \in Cell, NEW j \in Cell, PipelinedFsm = {<<i, j>>}
               PROVE  groups' = OnlyGroup(i, j) /\ cell' = AsErased(i, j) /\ size' = N - 1
    BY <1>1, GroupsKept DEF PairInv
  <2> QED
    BY <1>1 DEF Inv, PairInv
<1> QED
  BY <1>1, <1>2, <1>3, <1>4, GroupsKept DEF Inv

LEMMA Stutter ==
    ASSUME Inv, UNCHANGED vars
    PROVE  Inv'
<1>1. UNCHANGED <<order, pipelined, pc, pairs, rootOf, groups, cell, size, todo, victims>>
  BY DEF vars
<1>2. TypeOK' /\ LoopsInv' /\ VictimsInv'
  BY <1>1, GroupsKept DEF Inv, TypeOK, LoopsInv, VictimsInv
<1>3. ChainInv'
  <2> SUFFICES ASSUME NEW i \in Cell, NEW p \in Cell, Chain(i, p)
               PROVE  (\E g \in 0..Len(groups) : GroupOf(i, p, g) /\ ArcsIn(i, p, g))'
    BY <1>1, GroupsKept DEF ChainInv
  <2>1. PICK g \in 0..Len(groups) : GroupOf(i, p, g) /\ ArcsIn(i, p, g)
    BY DEF Inv, ChainInv
  <2>2. Stages(i)' = Stages(i)
    BY <1>1, GroupsKept
  <2>3. ArcsOfAll(Stages(i))' = ArcsOfAll(Stages(i))
    BY <1>1, <2>2 DEF ArcsOfAll
  <2>4. ArcsIn(i, p, g)'
    BY <1>1, <2>1, <2>2, <2>3 DEF ArcsIn
  <2>5. GroupOf(i, p, g)'
    BY <1>1, <2>1, GroupsKept
  <2> QED
    BY <1>1, <2>4, <2>5
<1>4. PairInv'
  BY <1>1, GroupsKept DEF PairInv, Inv
<1> QED
  BY <1>1, <1>2, <1>3, <1>4, GroupsKept DEF Inv

\* The invariant of the merging: whatever machines are pipelined into each other, and
\* in whatever order the hash maps give the pairs, the groups and their members.
THEOREM Invariance == Spec => []Inv
<1>1. Init => Inv
  BY InitInv
<1>2. Inv /\ [Next]_vars => Inv'
  <2> SUFFICES ASSUME Inv, [Next]_vars PROVE Inv'
    OBVIOUS
  <2> QED
    BY GroupStep, StartMergeStep, MergeStep, StartEraseStep, NextGroupStep, EraseChildStep,
       CannotFindStep, DoneStep, Stutter DEF Next
<1> QED
  BY <1>1, <1>2, PTL DEF Spec

\* Whatever is grouped, and so merged, is pipelined: never a counter, and never a
\* machine that nothing links to another of its group.
THEOREM Linked == Spec => []GroupsAreLinked
BY Invariance, PTL DEF Inv

-------------------------------------------------------------------------------
(* A single pair.                                                          *)

LEMMA EveryFsmFound ==
    ASSUME Inv
    PROVE  \A s \in Fsm : \E k \in Cell : order[k] = s
<1>1. order \in Injection(Cell, Fsm)
  BY DEF Inv, TypeOK, Injection, IsInjective
<1>2. IsFiniteSet(Fsm) /\ Cardinality(Cell) = Cardinality(Fsm)
  BY CountersAssumption, CellType DEF N
<1>3. order \in Surjection(Cell, Fsm)
  BY <1>1, <1>2, FS_Injection
<1> QED
  BY <1>3 DEF Surjection

LEMMA PairExact ==
    ASSUME Inv
    PROVE  OnePairExact
<1> SUFFICES ASSUME pc = "done", NEW i \in Cell, NEW j \in Cell, PipelinedFsm = {<<i, j>>}
             PROVE  /\ Left = Fsm \ {order[j]}
                    /\ \A k \in 1..size : cell[k].arcs =
                          IF cell[k].node = order[i] THEN {order[i], order[j]} ELSE {cell[k].node}
  BY DEF OnePairExact
<1> DEFINE from(k) == IF j <= k THEN k + 1 ELSE k
<1>1. cell = AsErased(i, j) /\ size = N - 1
  BY DEF Inv, PairInv
<1>2. N \in Nat /\ j \in 1..N /\ Cell = 1..N
  BY CellType DEF Cell
<1>3. /\ \A c, d \in Cell : order[c] = order[d] => c = d
      /\ order \in [Cell -> Fsm]
  BY DEF Inv, TypeOK
<1>4. ASSUME NEW k \in 1..size
      PROVE  /\ from(k) \in Cell \ {j}
             /\ cell[k].node = order[from(k)]
             /\ cell[k].arcs = IF from(k) = i THEN {order[i], order[j]} ELSE {order[from(k)]}
  <2>1. from(k) \in Cell \ {j} /\ k \in Cell /\ k < N
    BY <1>1, <1>2
  <2>2. cell[k] = AsMerged(i, j)[from(k)]
    BY <1>1, <2>1 DEF AsErased
  <2> HIDE DEF from
  <2> QED
    BY <2>1, <2>2 DEF AsMerged
<1>5. \A c \in Cell \ {j} : \E k \in 1..size : from(k) = c
  <2> SUFFICES ASSUME NEW c \in Cell \ {j} PROVE \E k \in 1..size : from(k) = c
    OBVIOUS
  <2>1. CASE c < j
    <3>1. c \in 1..size /\ from(c) = c
      BY <1>1, <1>2, <2>1
    <3> QED
      BY <3>1
  <2>2. CASE c > j
    <3>1. c - 1 \in 1..size /\ from(c - 1) = c
      BY <1>1, <1>2, <2>2
    <3> QED
      BY <3>1
  <2> QED
    BY <1>2, <2>1, <2>2
<1> HIDE DEF from
<1>6. Left = {order[c] : c \in Cell \ {j}}
  <2>1. Left = {cell[k].node : k \in 1..size}
    BY DEF Left
  <2>2. \A k \in 1..size : \E c \in Cell \ {j} : cell[k].node = order[c]
    BY <1>4
  <2>3. \A c \in Cell \ {j} : \E k \in 1..size : cell[k].node = order[c]
    BY <1>4, <1>5
  <2> QED
    BY <2>1, <2>2, <2>3
<1>7. Left = Fsm \ {order[j]}
  BY <1>3, <1>6, EveryFsmFound
<1>8. \A k \in 1..size : cell[k].node = order[i] <=> from(k) = i
  BY <1>3, <1>4
<1> QED
  BY <1>4, <1>7, <1>8

\* One machine pipelined into one other, in any number of others: the second and no
\* other is erased, wherever it was in the vector, and the first has the arcs of both.
THEOREM OnePair == Spec => []OnePairExact
<1>1. Inv => OnePairExact
  BY PairExact
<1> QED
  BY <1>1, Invariance, PTL

-------------------------------------------------------------------------------
(* A pipeline of up to three machines.                                     *)

LEMMA AtMostThree ==
    ASSUME NEW S \in SUBSET Cell, Cardinality(S) <= 3,
           NEW a \in S, NEW b \in S, NEW c \in S, NEW d \in S,
           a # b, a # c, a # d, b # c, b # d, c # d
    PROVE  FALSE
<1>1. IsFiniteSet(S)
  BY CellType, FS_Subset
<1>2. IsFiniteSet({a}) /\ Cardinality({a}) = 1
  BY FS_Singleton
<1>3. IsFiniteSet({a} \cup {b}) /\ Cardinality({a} \cup {b}) = 2
  BY <1>2, FS_AddElement
<1>4. IsFiniteSet({a} \cup {b} \cup {c}) /\ Cardinality({a} \cup {b} \cup {c}) = 3
  BY <1>3, FS_AddElement
<1>5. Cardinality({a} \cup {b} \cup {c} \cup {d}) = 4
  <2>1. \A T : IsFiniteSet(T) /\ d \notin T => Cardinality(T \cup {d}) = Cardinality(T) + 1
    BY FS_AddElement
  <2>2. d \notin {a} \cup {b} \cup {c}
    OBVIOUS
  <2>3. Cardinality({a} \cup {b} \cup {c} \cup {d}) = Cardinality({a} \cup {b} \cup {c}) + 1
    BY <1>4, <2>1, <2>2, Zenon
  <2> QED
    BY <1>4, <2>3
<1>6. Cardinality({a} \cup {b} \cup {c} \cup {d}) <= Cardinality(S)
  BY <1>1, FS_Subset
<1>7. Cardinality(S) \in Nat
  BY <1>1, FS_CardinalityType
<1> QED
  BY <1>5, <1>6, <1>7

\* What is read off PipelinedFsm about who is pipelined into whom.
LEMMA FirstPipe ==
    ASSUME NEW x \in Cell, NEW y \in Cell, <<x, y>> \in PipelinedFsm
    PROVE  y \in Pipes(x) /\ y = Smallest(Pipes(x))
<1>1. PICK k \in Cell : Pipes(k) # {} /\ <<x, y>> = <<k, Smallest(Pipes(k))>>
  BY DEF PipelinedFsm
<1> QED
  BY <1>1, SmallestIn DEF Pipes

\* A pipeline of up to three stages is a Chain.
LEMMA ShortIsChain ==
    ASSUME NEW i \in Cell, IsPipeline(i), Cardinality(Stages(i)) <= 3
    PROVE  \E p \in Cell : Chain(i, p) /\ (InVectorOrder(i) => InOrder(i, p))
<1> DEFINE p == Smallest(Pipes(i))
<1>1. \A x \in Cell : Pipes(x) \in SUBSET Cell /\ x \notin Pipes(x)
  BY DEF Pipes
<1>2. /\ Pipes(i) # {}
      /\ \A x \in Cell : Pipes(x) \cap Stages(i) # {} => x \in Stages(i)
      /\ \A x \in Pipes(i) : Pipes(x) \subseteq Pipes(i)
      /\ \A x, y \in Pipes(i) : x # y => (y \in Pipes(x) <=> x \notin Pipes(y))
  BY DEF IsPipeline
<1>3. Stages(i) = {i} \cup Pipes(i)
  BY DEF Stages
<1>4. p \in Pipes(i) /\ p \in Cell /\ p # i /\ <<i, p>> \in PipelinedFsm
  BY <1>1, <1>2, SmallestIn, Entries
<1>5. \A y \in Cell : <<i, y>> \in PipelinedFsm => y = p
  BY FirstPipe
<1> HIDE DEF p
<1>6. \A x, y \in Others(i, p) : x # i /\ y # i => x = y
  <2> SUFFICES ASSUME NEW x \in Others(i, p), NEW y \in Others(i, p), x # i, y # i, x # y PROVE FALSE
    OBVIOUS
  <2>1. x \in Pipes(i) /\ y \in Pipes(i) /\ x # p /\ y # p
    BY <1>3 DEF Others
  <2>2. Stages(i) \in SUBSET Cell
    BY <1>1, <1>3
  <2>3. {i, p, x, y} \subseteq Stages(i)
    BY <1>3, <1>4, <2>1
  <2>4. i \in Stages(i) /\ p \in Stages(i) /\ x \in Stages(i) /\ y \in Stages(i)
    BY <2>3
  <2> QED
    BY <1>4, <2>1, <2>2, <2>4, AtMostThree
\* A stage other than the first is pipelined into one other at most, the one left.
<1>7. ASSUME NEW x \in Pipes(i), NEW y \in Pipes(x)
      PROVE  /\ x \in Cell /\ y \in Pipes(i) /\ x # y /\ x \notin Pipes(y)
             /\ Pipes(x) = {y}
             /\ <<x, y>> \in PipelinedFsm /\ (x = p \/ y = p)
  <2>1. x \in Cell /\ y \in Pipes(i) /\ x # y /\ x \notin Pipes(y)
    BY <1>1, <1>2
  <2>2. x # i /\ y # i
    BY <1>1, <2>1
  <2>3. x = p \/ y = p
    BY <1>3, <1>6, <2>1, <2>2 DEF Others
  <2>4. ASSUME NEW z \in Pipes(x) PROVE z = y
    <3>1. z \in Pipes(i) /\ z # x /\ z # i
      BY <1>1, <1>2, <2>1
    <3>2. x = p \/ z = p
      BY <1>3, <1>6, <2>2, <3>1 DEF Others
    <3> QED
      BY <1>3, <1>6, <2>1, <2>2, <2>3, <3>1, <3>2 DEF Others
  <2>5. Pipes(x) = {y}
    BY <2>4
  <2>6. Smallest({y}) = y
    <3>1. {y} \in SUBSET Cell /\ {y} # {}
      BY <1>1, <2>1
    <3> QED
      BY <3>1, SmallestIn
  <2>7. <<x, y>> \in PipelinedFsm
    BY <2>1, <2>5, <2>6, Entries
  <2> QED
    BY <2>1, <2>3, <2>5, <2>7
<1>8. \A x \in Others(i, p) : <<x, p>> \in PipelinedFsm \/ <<p, x>> \in PipelinedFsm
  <2> SUFFICES ASSUME NEW x \in Others(i, p), x # i
               PROVE  <<x, p>> \in PipelinedFsm \/ <<p, x>> \in PipelinedFsm
    BY <1>4
  <2>1. x \in Pipes(i) /\ x # p
    BY <1>3 DEF Others
  <2>2. p \in Pipes(x) \/ x \in Pipes(p)
    BY <1>2, <1>4, <2>1
  <2> QED
    BY <1>4, <1>7, <2>1, <2>2
<1>9. ASSUME NEW x \in Cell, NEW y \in Cell, <<x, y>> \in PipelinedFsm, {x, y} \cap Stages(i) # {}
      PROVE  {x, y} \subseteq Stages(i) /\ (x = p \/ y = p) /\ <<y, x>> \notin PipelinedFsm
  <2>1. y \in Pipes(x) /\ y = Smallest(Pipes(x))
    BY <1>9, FirstPipe
  <2>2. x \in Stages(i)
    BY <1>2, <1>9, <2>1
  <2>3. <<y, x>> \in PipelinedFsm => x \in Pipes(y)
    BY FirstPipe
  <2>4. CASE x = i
    <3>1. y = p /\ y \in Stages(i)
      BY <1>3, <1>4, <1>5, <1>9, <2>4
    <3>2. i \notin Pipes(p)
      BY <1>1, <1>2, <1>4
    <3> QED
      BY <2>2, <2>3, <2>4, <3>1, <3>2
  <2>5. CASE x \in Pipes(i)
    BY <1>3, <1>7, <2>1, <2>2, <2>3, <2>5
  <2> QED
    BY <1>3, <2>2, <2>4, <2>5
<1>10. Chain(i, p)
  <2>1. p \in Stages(i)
    BY <1>3, <1>4
  <2> HIDE DEF PipelinedFsm, Stages
  <2> QED
    BY <1>4, <1>6, <1>8, <1>9, <2>1 DEF Chain
<1>11. InVectorOrder(i) => InOrder(i, p)
  <2> SUFFICES ASSUME InVectorOrder(i), NEW x \in Others(i, p), x # i PROVE <<p, x>> \in PipelinedFsm
    BY DEF InOrder
  <2>1. x \in Pipes(i) /\ x # p
    BY <1>3 DEF Others
  <2>2. p <= x
    <3>1. Pipes(i) \in SUBSET Nat
      BY <1>1, CellType
    <3>2. \E y \in Pipes(i) : \A z \in Pipes(i) : y <= z
      BY <1>2, <3>1, LeastElement
    <3> QED
      BY <2>1, <3>2 DEF p, Smallest
  <2>3. p \notin Pipes(x)
    <3>1. p \in Pipes(x) => x < p
      BY <2>1 DEF InVectorOrder
    <3>2. p \in Nat /\ x \in Nat
      BY <1>1, <1>4, <2>1, CellType
    <3> QED
      BY <2>2, <3>1, <3>2
  <2> QED
    BY <1>2, <1>4, <1>7, <2>1, <2>3
<1> QED
  BY <1>4, <1>10, <1>11

LEMMA ShortMerged ==
    ASSUME Inv
    PROVE  ShortPipelineMerged
<1> SUFFICES ASSUME MergedButNotErased, NEW i \in Cell, IsPipeline(i), Cardinality(Stages(i)) <= 3
             PROVE  \E g \in DOMAIN groups :
                       /\ groups[g].members = Stages(i)
                       /\ cell[groups[g].root].arcs = {order[j] : j \in Stages(i)}
                       /\ InVectorOrder(i) => groups[g].root = i
  BY DEF ShortPipelineMerged
<1>1. PICK p \in Cell : Chain(i, p) /\ (InVectorOrder(i) => InOrder(i, p))
  BY ShortIsChain
<1>2. PICK g \in 0..Len(groups) : GroupOf(i, p, g) /\ ArcsIn(i, p, g)
  BY <1>1 DEF Inv, ChainInv
<1>3. pc = "erase" /\ todo = DOMAIN groups /\ pairs = {}
  BY DEF MergedButNotErased, Inv, LoopsInv
<1>4. /\ g \in DOMAIN groups /\ groups[g].members = Stages(i)
      /\ InOrder(i, p) => groups[g].root = i
  BY <1>1, <1>2, <1>3, WholeGroup
<1>5. cell[groups[g].root].arcs = ArcsOfAll(Stages(i))
  BY <1>2, <1>3 DEF ArcsIn
<1> QED
  BY <1>1, <1>4, <1>5 DEF ArcsOfAll

\* A pipeline of two or three machines, each pipelined into all behind it, is one group
\* whose root gets the arcs of all of them, whatever order its pairs came out of the hash
\* map in and whatever else is grouped in between.  When the vector has them in order the
\* root is the first stage.
THEOREM ShortPipelines == Spec => []ShortPipelineMerged
<1>1. Inv => ShortPipelineMerged
  BY ShortMerged
<1> QED
  BY <1>1, Invariance, PTL
===============================================================================
