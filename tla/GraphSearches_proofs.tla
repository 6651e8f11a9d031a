-------------------------- MODULE GraphSearches_proofs --------------------------
(***************************************************************************)
(* The searches of src/graph.cc for every graph, every order of its edges  *)
(* and every question: reachable_control_loop, then those that keep a work *)
(* list.                                                                   *)
(*                                                                         *)
(* docs/main.tex says of the first that its correctness "can be proved by  *)
(* induction on the graph"; the proof here is by an inductive invariant of *)
(* the search instead, and holds for infinite graphs too.  The others are  *)
(* about finite graphs, since has_path counts its pops against the edges.  *)
(***************************************************************************)
EXTENDS ControlLoop, Searches, FiniteSetTheorems, WellFoundedInduction, TLAPS

\* What is reachable is the least set that holds the origins and that no edge leaves: a
\* search may mark its origins and follow any edge, and one that has run dry has missed
\* nothing.
LEMMA ReachableLeast ==
    ASSUME NEW graph \in Graph, NEW S \in SUBSET Node
    PROVE  /\ S \subseteq ReachableFrom(graph, S) /\ ReachableFrom(graph, S) \subseteq Node
           /\ Closed(graph, ReachableFrom(graph, S))
           /\ \A C \in SUBSET Node : S \subseteq C /\ Closed(graph, C) => ReachableFrom(graph, S) \subseteq C
<1>1. ASSUME NEW n \in ReachableFrom(graph, S), NEW m \in graph[n]
      PROVE  m \in ReachableFrom(graph, S)
  <2>1. n \in Node /\ m \in Node
    BY DEF ReachableFrom, Graph
  <2>2. ASSUME NEW C \in SUBSET Node, S \subseteq C, Closed(graph, C)
        PROVE  m \in C
    <3>1. n \in C
      BY <2>2 DEF ReachableFrom
    <3> QED
      BY <2>2, <3>1 DEF Closed
  <2> QED
    BY <2>1, <2>2 DEF ReachableFrom
<1>2. Closed(graph, ReachableFrom(graph, S))
  BY <1>1 DEF Closed
<1> QED
  BY <1>2 DEF ReachableFrom

\* Nothing is reachable from nowhere.
LEMMA ReachableEmpty ==
    ASSUME NEW graph \in Graph
    PROVE  ReachableFrom(graph, {}) = {}
BY ReachableLeast DEF Closed

\* The sets the invariant speaks of are made of nodes.
LEMMA ReachTypes ==
    ASSUME TypeOK
    PROVE  /\ {from} \in SUBSET Node
           /\ Reach \in SUBSET Node
           /\ from \in Reach
           /\ Closed(succ, Reach)
           /\ Sources \in SUBSET Node
           /\ Through \in SUBSET Node
           /\ Sources \subseteq Through
           /\ Closed(succ, Through)
           /\ Through \subseteq Reach
           /\ Walks!Behind(succ, control, from) = Through
<1>1. succ \in Graph /\ {from} \in SUBSET Node
  BY DEF TypeOK
<1>2. Reach \in SUBSET Node /\ from \in Reach /\ Closed(succ, Reach)
  BY <1>1, ReachableLeast DEF Reach
<1>3. Sources \in SUBSET Node /\ Sources \subseteq Reach
  BY <1>2 DEF Sources
<1>4. Through \in SUBSET Node /\ Sources \subseteq Through /\ Closed(succ, Through)
  BY <1>1, <1>3, ReachableLeast DEF Through
<1>5. Through \subseteq Reach
  BY <1>1, <1>2, <1>3, ReachableLeast DEF Through
<1>6. Walks!Behind(succ, control, from) = Through
  BY DEF Walks!Behind, Walks!ReachableFrom, Walks!Closed, Through, Sources, Reach,
         ReachableFrom, Closed
<1> QED
  BY <1>1, <1>2, <1>3, <1>4, <1>5, <1>6

-------------------------------------------------------------------------------
LEMMA InitInv == Init => Inv
<1> SUFFICES ASSUME Init PROVE Inv
  OBVIOUS
<1>1. TypeOK
  BY DEF Init, TypeOK, PC
<1>2. from \in Reach
  BY <1>1, ReachTypes
<1> QED
  BY <1>1, <1>2 DEF Init, Inv, EnterInv, SearchInv, LabelInv, ColourInv, AnswerInv, Correct

-------------------------------------------------------------------------------
(* One lemma per action.  The sets of the invariant depend on the frozen   *)
(* inputs only.                                                            *)

LEMMA Frozen ==
    ASSUME UNCHANGED inputs
    PROVE  /\ succ' = succ /\ control' = control /\ from' = from /\ to' = to
           /\ Reach' = Reach
           /\ Sources' = Sources
           /\ Through' = Through
BY DEF inputs, Reach, Sources, Through

\* Correct, said with the sets of the invariant.
LEMMA CorrectThrough ==
    ASSUME TypeOK
    PROVE  Correct <=> (answer # NoAnswer => answer = (to \in Through))
BY ReachTypes DEF Correct

LEMMA CorrectThroughNext ==
    ASSUME TypeOK, UNCHANGED inputs, answer' # NoAnswer => answer' = (to \in Through)
    PROVE  Correct'
<1>1. Walks!Behind(succ, control, from)' = Walks!Behind(succ, control, from)
  BY Frozen
<1>2. to' = to
  BY Frozen
<1> QED
  BY <1>1, <1>2, ReachTypes DEF Correct

\* An origin that drives nothing reaches only itself, and it is no control node.
LEMMA NoSuccessorInv == Inv /\ NoSuccessor => Inv'
<1> SUFFICES ASSUME Inv, NoSuccessor PROVE Inv'
  OBVIOUS
<1> USE DEF NoSuccessor, Return
<1>1. TypeOK
  BY DEF Inv
<1>2. UNCHANGED inputs
  OBVIOUS
<1>3. TypeOK'
  BY <1>1, <1>2, Frozen DEF TypeOK, PC
<1>4. Reach \subseteq {from}
  <2>1. Closed(succ, {from})
    BY DEF Closed
  <2> QED
    BY <1>1, <2>1, ReachableLeast DEF Reach, TypeOK
<1>5. Through = {}
  BY <1>1, <1>4, ReachableEmpty DEF Through, Sources, Inv, TypeOK
<1>6. Correct'
  <2>1. answer' = FALSE
    OBVIOUS
  <2>2. (to \in Through) = FALSE
    BY <1>5
  <2>3. answer' = (to \in Through)
    BY ONLY <2>1, <2>2
  <2> QED
    BY ONLY <1>1, <1>2, <2>3, CorrectThroughNext
<1> QED
  BY <1>1, <1>2, <1>3, <1>6, Frozen, NoAnswerAssumption
     DEF Inv, EnterInv, SearchInv, LabelInv, ColourInv, AnswerInv
LEMMA EnterPass == Inv /\ Enter => Inv'
<1> SUFFICES ASSUME Inv, Enter PROVE Inv'
  OBVIOUS
<1> USE DEF Enter
<1>1. TypeOK /\ TypeOK'
  BY Frozen DEF Inv, TypeOK, PC
<1>2. Correct'
  BY <1>1, CorrectThroughNext DEF Inv, AnswerInv
<1> QED
  BY <1>1, <1>2, Frozen DEF Inv, EnterInv, SearchInv, LabelInv, ColourInv, AnswerInv

\* A second copy of a node adds nothing: its label is there already.
LEMMA LabelSkipInv == Inv => \A n \in Node : LabelSkip(n) => Inv'
<1> SUFFICES ASSUME Inv, NEW n \in Node, LabelSkip(n) PROVE Inv'
  OBVIOUS
<1> USE DEF LabelSkip, Labelled
<1>1. TypeOK /\ TypeOK'
  BY Frozen DEF Inv, TypeOK, PC
<1>2. Correct'
  BY <1>1, CorrectThroughNext DEF Inv, AnswerInv
<1>3. reached' = visited' \cap control'
  BY Frozen DEF Inv, LabelInv
<1>4. SearchInv'
  BY Frozen DEF Inv, SearchInv
<1> QED
  BY <1>1, <1>2, <1>3, <1>4, Frozen DEF Inv, EnterInv, LabelInv, ColourInv, AnswerInv

LEMMA LabelVisitInv == Inv => \A n \in Node : LabelVisit(n) => Inv'
<1> SUFFICES ASSUME Inv, NEW n \in Node, LabelVisit(n) PROVE Inv'
  OBVIOUS
<1> USE DEF LabelVisit, Labelled
<1>1. TypeOK /\ TypeOK'
  BY Frozen DEF Inv, TypeOK, PC, Graph
<1>2. Correct'
  BY <1>1, CorrectThroughNext DEF Inv, AnswerInv
<1>3. reached' = visited' \cap control'
  BY Frozen DEF Inv, LabelInv
<1>4. SearchInv'
  <2>1. n \in Reach
    BY DEF Inv, SearchInv
  <2>2. succ[n] \subseteq Reach
    BY <1>1, <2>1, ReachTypes DEF Closed
  <2> QED
    BY <2>1, <2>2, Frozen DEF Inv, SearchInv
<1> QED
  BY <1>1, <1>2, <1>3, <1>4, Frozen DEF Inv, EnterInv, LabelInv, ColourInv, AnswerInv

\* When the queue runs dry, what was visited is all that is reachable.
LEMMA DryQueue ==
    ASSUME TypeOK, SearchInv, pc \in {"label", "colour"}, frontier = {}
    PROVE  visited = Reach
<1>1. Closed(succ, visited)
  BY DEF SearchInv, Closed
<1>2. Reach \subseteq visited
  BY <1>1, ReachableLeast DEF Reach, SearchInv, TypeOK
<1> QED
  BY <1>2 DEF SearchInv

LEMMA SecondPassInv == Inv /\ SecondPass => Inv'
<1> SUFFICES ASSUME Inv, SecondPass PROVE Inv'
  OBVIOUS
<1> USE DEF SecondPass
<1>1. TypeOK /\ TypeOK'
  BY Frozen DEF Inv, TypeOK, PC
<1>2. Correct'
  BY <1>1, CorrectThroughNext DEF Inv, AnswerInv
<1>3. reached = Sources
  BY <1>1, DryQueue DEF Inv, LabelInv, Sources
<1>4. SearchInv'
  BY <1>1, ReachTypes, Frozen DEF SearchInv
<1>5. ColourInv'
  BY <1>1, <1>3, ReachTypes, Frozen DEF ColourInv
<1> QED
  BY <1>1, <1>2, <1>4, <1>5, Frozen DEF Inv, EnterInv, LabelInv, AnswerInv

\* A label is justified, so finding the target labelled is a walk.
LEMMA FoundInv == Inv => \A n \in Node : Found(n) => Inv'
<1> SUFFICES ASSUME Inv, NEW n \in Node, Found(n) PROVE Inv'
  OBVIOUS
<1> USE DEF Found, Return
<1>1. TypeOK /\ TypeOK'
  BY Frozen DEF Inv, TypeOK, PC
<1>2. Correct'
  <2>1. to \in Through
    BY DEF Inv, ColourInv
  <2>2. (to \in Through) = TRUE
    BY <2>1
  <2>3. answer' = TRUE
    OBVIOUS
  <2>4. answer' = (to \in Through)
    BY ONLY <2>2, <2>3
  <2>5. UNCHANGED inputs
    OBVIOUS
  <2> QED
    BY ONLY <1>1, <2>4, <2>5, CorrectThroughNext
<1> QED
  BY <1>1, <1>2, Frozen, NoAnswerAssumption
     DEF Inv, EnterInv, SearchInv, LabelInv, ColourInv, AnswerInv

LEMMA ColourSkipInv == Inv => \A n \in Node : ColourSkip(n) => Inv'
<1> SUFFICES ASSUME Inv, NEW n \in Node, ColourSkip(n) PROVE Inv'
  OBVIOUS
<1> USE DEF ColourSkip
<1>1. TypeOK /\ TypeOK'
  BY Frozen DEF Inv, TypeOK, PC
<1>2. Correct'
  BY <1>1, CorrectThroughNext DEF Inv, AnswerInv
<1>3. SearchInv'
  BY Frozen DEF Inv, SearchInv
<1>4. ColourInv'
  BY Frozen DEF Inv, ColourInv
<1> QED
  BY <1>1, <1>2, <1>3, <1>4, Frozen DEF Inv, EnterInv, LabelInv, AnswerInv

\* Visiting a node passes its label on; the heads that were visited without one
\* leave the visited set, which is what keeps the third part of ColourInv true.
LEMMA ColourVisitInv == Inv => \A n \in Node : ColourVisit(n) => Inv'
<1> SUFFICES ASSUME Inv, NEW n \in Node, ColourVisit(n) PROVE Inv'
  OBVIOUS
<1> USE DEF ColourVisit, Coloured, VisitedAfter
<1>1. TypeOK /\ TypeOK'
  BY Frozen DEF Inv, TypeOK, PC, Graph
<1>2. Correct'
  BY <1>1, CorrectThroughNext DEF Inv, AnswerInv
<1>3. SearchInv'
  <2>1. n \in Reach
    BY DEF Inv, SearchInv
  <2>2. succ[n] \subseteq Reach
    BY <1>1, <2>1, ReachTypes DEF Closed
  <2>3. frontier' \cup visited' = (frontier \cup visited) \cup succ[n]
    BY DEF Inv, ColourInv
  <2> QED
    BY <2>1, <2>2, <2>3, Frozen DEF Inv, SearchInv
<1>4. ColourInv'
  <2>1. reached' \subseteq Through
    BY <1>1, ReachTypes DEF Inv, ColourInv, Closed
  <2>2. \A m \in visited' \cap reached' : succ[m] \subseteq reached'
    BY DEF Inv, ColourInv
  <2>3. to \notin visited' \cap reached'
    BY DEF Inv, ColourInv
  <2> QED
    BY <2>1, <2>2, <2>3, Frozen DEF Inv, ColourInv
<1> QED
  BY <1>1, <1>2, <1>3, <1>4, Frozen DEF Inv, EnterInv, LabelInv, AnswerInv

\* When the second pass runs dry the labels are closed under the edges, so they
\* are all of Through and the target is not among them.
LEMMA ExhaustedInv == Inv /\ Exhausted => Inv'
<1> SUFFICES ASSUME Inv, Exhausted PROVE Inv'
  OBVIOUS
<1> USE DEF Exhausted, Return
<1>1. TypeOK /\ TypeOK'
  BY Frozen DEF Inv, TypeOK, PC
<1>2. to \notin Through
  <2>1. visited = Reach
    BY <1>1, DryQueue DEF Inv
  <2>2. reached \subseteq visited
    BY <1>1, <2>1, ReachTypes DEF Inv, ColourInv
  <2>3. Closed(succ, reached)
    BY <2>2 DEF Inv, ColourInv, Closed
  <2>4. Through \subseteq reached
    BY <1>1, <2>3, ReachTypes, ReachableLeast DEF Through, Inv, ColourInv, TypeOK
  <2> QED
    BY <2>2, <2>4 DEF Inv, ColourInv
<1>3. Correct'
  <2>1. (to \in Through) = FALSE
    BY <1>2
  <2>2. answer' = FALSE
    OBVIOUS
  <2>3. answer' = (to \in Through)
    BY ONLY <2>1, <2>2
  <2>4. UNCHANGED inputs
    OBVIOUS
  <2> QED
    BY ONLY <1>1, <2>3, <2>4, CorrectThroughNext
<1> QED
  BY <1>1, <1>3, Frozen, NoAnswerAssumption
     DEF Inv, EnterInv, SearchInv, LabelInv, ColourInv, AnswerInv

-------------------------------------------------------------------------------
\* The search keeps its invariant: labels are justified, and no labelled node is
\* left visited with an unlabelled successor.
THEOREM Invariance == Spec => []Inv
<1>1. Inv /\ [Next]_vars => Inv'
  <2> SUFFICES ASSUME Inv, [Next]_vars PROVE Inv'
    OBVIOUS
  <2>1. CASE NoSuccessor
    BY <2>1, NoSuccessorInv
  <2>2. CASE Enter
    BY <2>2, EnterPass
  <2>3. CASE SecondPass
    BY <2>3, SecondPassInv
  <2>4. CASE Exhausted
    BY <2>4, ExhaustedInv
  <2>5. ASSUME NEW n \in Node, Pop(n) PROVE Inv'
    BY <2>5, LabelSkipInv, LabelVisitInv, FoundInv, ColourSkipInv, ColourVisitInv DEF Pop
  <2>6. CASE UNCHANGED vars
    <3>1. UNCHANGED inputs
      BY <2>6 DEF vars, inputs
    <3>2. TypeOK
      BY DEF Inv
    <3>3. Correct'
      BY <2>6, <3>1, <3>2, CorrectThrough, CorrectThroughNext DEF Inv, vars
    <3> QED
      BY <2>6, <3>1, <3>3, Frozen
         DEF vars, Inv, TypeOK, EnterInv, SearchInv, LabelInv, ColourInv, AnswerInv
  <2> QED
    BY <2>1, <2>2, <2>3, <2>4, <2>5, <2>6 DEF Next
<1> QED
  BY InitInv, <1>1, PTL DEF Spec

\* The answer of has_control_loop and of the grouping test is right for every
\* graph: TRUE exactly when a walk through a control node exists.
THEOREM Correctness == Spec => []Correct
<1>1. Inv => Correct
  BY DEF Inv
<1> QED
  BY <1>1, Invariance, PTL

\* Two passes over the graph implement one step that answers the question.
THEOREM Refinement == Spec => Implements
<1>1. Init => Walks!Init
  BY DEF Init, Walks!Init, Walks!Graph, Graph
<1>2. Inv /\ Inv' /\ [Next]_vars => [Walks!Reply]_(Walks!vars)
  <2> SUFFICES ASSUME Inv, Inv', [Next]_vars PROVE Walks!Reply \/ UNCHANGED Walks!vars
    OBVIOUS
  <2> USE DEF Walks!vars
  <2>1. UNCHANGED inputs
    BY DEF inputs, Next, vars, Pop, NoSuccessor, Enter, SecondPass, Exhausted,
           LabelSkip, LabelVisit, Found, ColourSkip, ColourVisit
  <2>2. CASE answer' = answer
    BY <2>1, <2>2, Frozen
  <2>3. CASE answer' # answer
    <3>1. answer = NoAnswer /\ answer' # NoAnswer
      BY <2>3, NoAnswerAssumption
         DEF Inv, AnswerInv, Next, vars, Pop, NoSuccessor, Enter, SecondPass, Exhausted, Return,
             LabelSkip, LabelVisit, Found, ColourSkip, ColourVisit
    <3>2. answer' = (to \in Walks!Behind(succ, control, from))'
      BY <3>1 DEF Inv, Correct
    <3>3. (to \in Walks!Behind(succ, control, from))' = (to \in Walks!Behind(succ, control, from))
      BY <2>1, Frozen
    <3> QED
      BY <2>1, <3>1, <3>2, <3>3, Frozen DEF Walks!Reply
  <2> QED
    BY <2>2, <2>3
<1> QED
  BY <1>1, <1>2, Invariance, PTL DEF Spec, Implements, Walks!Spec

-------------------------------------------------------------------------------
(* Why the search ends.                                                    *)

Grows(S, T) == S \subseteq T /\ S # T

\* Every step goes on to a later stage, or there are more labels, or as many and more
\* visited nodes, or as many of both and fewer nodes that wait.
PassRank == [enter |-> 0, label |-> 1, colour |-> 2, done |-> 3]
Closer == \/ PassRank[pc] < PassRank[pc']
          \/ /\ pc' = pc
             /\ \/ Grows(reached, reached')
                \/ reached' = reached /\ Grows(visited, visited')
                \/ reached' = reached /\ visited' = visited /\ Grows(frontier', frontier)

\* docs/main.tex says of the colouring that it ends: there is an order in which every
\* step descends, although a node is made unvisited time and again.  On a finite graph
\* nothing descends in it for ever, so that the number of steps is bounded.
THEOREM EveryStepCloser == Spec => [][Closer]_vars
<1>1. Inv /\ Next => Closer
  <2> SUFFICES ASSUME Inv, Next PROVE Closer
    OBVIOUS
  <2>1. NoSuccessor \/ Enter \/ SecondPass \/ Exhausted => PassRank[pc] < PassRank[pc']
    BY DEF PassRank, NoSuccessor, Enter, SecondPass, Exhausted, Return
  <2>2. ASSUME NEW n \in Node, LabelSkip(n) PROVE Closer
    <3>1. pc = "label" /\ n \in visited /\ reached' = reached \cup ({n} \cap control)
      BY <2>2 DEF LabelSkip, Labelled
    <3>2. reached' = reached
      BY <3>1 DEF Inv, LabelInv
    <3> QED
      BY <2>2, <3>2 DEF LabelSkip, Closer, Grows
  <2>3. ASSUME NEW n \in Node, LabelVisit(n) PROVE Closer
    BY <2>3 DEF LabelVisit, Closer, Grows
  <2>4. ASSUME NEW n \in Node, Found(n) PROVE Closer
    BY <2>4 DEF Found, Return, Closer, PassRank
  <2>5. ASSUME NEW n \in Node, ColourSkip(n) PROVE Closer
    BY <2>5 DEF ColourSkip, Closer, Grows
  <2>6. ASSUME NEW n \in Node, ColourVisit(n) PROVE Closer
    <3>1. CASE Coloured(n) = {}
      BY <2>6, <3>1 DEF ColourVisit, VisitedAfter, Closer, Grows
    <3>2. CASE Coloured(n) # {}
      <4>1. Grows(reached, reached \cup Coloured(n))
        BY <3>2 DEF Coloured, Grows
      <4> QED
        BY <2>6, <4>1 DEF ColourVisit, Closer
    <3> QED
      BY <3>1, <3>2
  <2> QED
    BY <2>1, <2>2, <2>3, <2>4, <2>5, <2>6 DEF Next, Pop, Closer
<1>2. Inv /\ [Next]_vars => [Closer]_vars
  BY <1>1
<1> QED
  BY <1>2, Invariance, PTL DEF Spec

-------------------------------------------------------------------------------
(* Loops over a list, which are recursive functions: they have a run.      *)

LEMMA Smallest ==
    ASSUME NEW T \in SUBSET Nat, T # {}
    PROVE  \E x \in T : \A y \in T : x <= y
<1> DEFINE F == {0..n : n \in T}
           R == StrictSubsetOrdering(Nat)
<1>1. IsWellFoundedOn(R, FiniteSubsetsOf(Nat))
  BY FS_StrictSubsetOrderingWellFounded
<1>2. \A n \in Nat : IsFiniteSet(0..n) /\ 0..n \in SUBSET Nat
  BY FS_Interval
<1>3. F \subseteq FiniteSubsetsOf(Nat) /\ F # {}
  BY <1>2 DEF FiniteSubsetsOf
<1> HIDE DEF F, R
<1>4. \E x \in F : \A y \in F : ~(<<y, x>> \in R)
  BY <1>1, <1>3, WFMin
<1> USE DEF F, R
<1>5. PICK n \in T : \A k \in T : <<0..k, 0..n>> \notin StrictSubsetOrdering(Nat)
  BY <1>4
<1>6. ASSUME NEW k \in T, k < n PROVE FALSE
  <2>1. 0..k \subseteq 0..n /\ 0..k # 0..n
    BY <1>6
  <2>2. 0..k \in SUBSET Nat /\ 0..n \in SUBSET Nat
    BY <1>2
  <2> HIDE DEF F, R
  <2>3. <<0..k, 0..n>> \in StrictSubsetOrdering(Nat)
    BY <2>1, <2>2, Zenon DEF StrictSubsetOrdering
  <2> QED
    BY <2>3, <1>5
<1> QED
  BY <1>6

LEMMA Upwards ==
    ASSUME NEW T, 0 \in T, \A k \in Nat : k \in T => k + 1 \in T
    PROVE  Nat \subseteq T
<1> SUFFICES ASSUME ~(Nat \subseteq T) PROVE FALSE
  OBVIOUS
<1> DEFINE Missing == Nat \ T
<1>1. Missing \in SUBSET Nat /\ Missing # {}
  OBVIOUS
<1> HIDE DEF Missing
<1>2. PICK k \in Missing : \A i \in Missing : k <= i
  BY <1>1, Smallest
<1>3. k \in Nat \ {0} /\ k \notin T
  BY <1>2 DEF Missing
<1>4. k - 1 \in Nat /\ k - 1 \notin T
  BY <1>3
<1> QED
  BY <1>2, <1>3, <1>4 DEF Missing

\* The first n rounds of a loop that starts with b and does F in each.
IsRun(g, n, b, F) == \A k \in 0..n : g[k] = IF k = 0 THEN b ELSE F[k][g[k - 1]]

LEMMA OneRun ==
    ASSUME NEW X, NEW b \in X, NEW F \in [Nat -> [X -> X]]
    PROVE  \A n \in Nat : \E g \in [Nat -> X] : IsRun(g, n, b, F)
<1> DEFINE T == {n \in Nat : \E g \in [Nat -> X] : IsRun(g, n, b, F)}
<1>1. 0 \in T
  <2> DEFINE g == [k \in Nat |-> b]
  <2>1. g \in [Nat -> X] /\ IsRun(g, 0, b, F)
    BY DEF IsRun
  <2> QED
    BY <2>1
<1>2. ASSUME NEW n \in Nat, n \in T PROVE n + 1 \in T
  <2>1. PICK g \in [Nat -> X] : IsRun(g, n, b, F)
    BY <1>2
  <2> DEFINE x == F[n + 1][g[n]]
             h == [k \in Nat |-> IF k = n + 1 THEN x ELSE g[k]]
  <2>2. x \in X
    OBVIOUS
  <2> HIDE DEF x
  <2>3. h \in [Nat -> X] /\ h[n + 1] = x /\ \A k \in 0..n : h[k] = g[k]
    BY <2>2
  <2> HIDE DEF h
  <2>4. ASSUME NEW k \in 0..(n + 1) PROVE h[k] = IF k = 0 THEN b ELSE F[k][h[k - 1]]
    <3>1. CASE k = n + 1
      BY <2>3, <3>1 DEF x
    <3>2. CASE k \in 0..n
      <4>1. k # 0 => k - 1 \in 0..n
        BY <3>2
      <4> QED
        BY <2>1, <2>3, <3>2, <4>1 DEF IsRun
    <3> QED
      BY <3>1, <3>2
  <2>5. IsRun(h, n + 1, b, F)
    BY <2>4 DEF IsRun
  <2> QED
    BY <2>3, <2>5
<1> HIDE DEF T
<1>3. Nat \subseteq T
  BY <1>1, <1>2, Upwards
<1> QED
  BY <1>3 DEF T

LEMMA RunsAgree ==
    ASSUME NEW X, NEW b \in X, NEW F \in [Nat -> [X -> X]],
           NEW m \in Nat, NEW n \in Nat, m <= n, NEW g, NEW h,
           IsRun(g, m, b, F), IsRun(h, n, b, F)
    PROVE  g[m] = h[m]
<1> DEFINE T == {k \in Nat : k <= m => g[k] = h[k]}
<1>1. 0 \in T
  BY DEF IsRun
<1>2. ASSUME NEW k \in Nat, k \in T PROVE k + 1 \in T
  <2> SUFFICES ASSUME k + 1 <= m PROVE g[k + 1] = h[k + 1]
    OBVIOUS
  <2>1. k + 1 \in 0..m /\ k + 1 \in 0..n /\ k + 1 # 0 /\ (k + 1) - 1 = k
    OBVIOUS
  <2>2. g[k] = h[k]
    BY <1>2
  <2>3. g[k + 1] = F[k + 1][g[k]] /\ h[k + 1] = F[k + 1][h[k]]
    BY <2>1 DEF IsRun
  <2> QED
    BY <2>2, <2>3
<1> HIDE DEF T
<1>3. m \in T
  BY <1>1, <1>2, Upwards
<1> QED
  BY <1>3 DEF T

IsLoop(g, b, F) == \A n \in Nat : g[n] = IF n = 0 THEN b ELSE F[n][g[n - 1]]

\* A loop that never ends has a run, which stays in the set it starts in.
LEMMA Rounds ==
    ASSUME NEW X, NEW b \in X, NEW F \in [Nat -> [X -> X]]
    PROVE  \E g \in [Nat -> X] : IsLoop(g, b, F)
<1> DEFINE Run(n) == CHOOSE g \in [Nat -> X] : IsRun(g, n, b, F)
           r == [n \in Nat |-> Run(n)]
           g == [n \in Nat |-> r[n][n]]
<1>1. \A n \in Nat : r[n] \in [Nat -> X] /\ IsRun(r[n], n, b, F)
  <2>1. \A n \in Nat : Run(n) \in [Nat -> X] /\ IsRun(Run(n), n, b, F)
    BY OneRun
  <2> HIDE DEF Run
  <2> QED
    BY <2>1
<1> HIDE DEF r
<1>2. g \in [Nat -> X] /\ \A n \in Nat : g[n] = r[n][n]
  BY <1>1
<1> HIDE DEF g
<1>3. ASSUME NEW n \in Nat PROVE g[n] = IF n = 0 THEN b ELSE F[n][g[n - 1]]
  <2>1. r[n][n] = IF n = 0 THEN b ELSE F[n][r[n][n - 1]]
    BY <1>1 DEF IsRun
  <2>2. ASSUME n # 0 PROVE r[n - 1][n - 1] = r[n][n - 1]
    BY <1>1, <2>2, n - 1 \in Nat, n - 1 <= n, RunsAgree
  <2>3. n # 0 => n - 1 \in Nat
    OBVIOUS
  <2> QED
    BY <1>2, <2>1, <2>2, <2>3
<1> QED
  BY <1>2, <1>3 DEF IsLoop

-------------------------------------------------------------------------------
(* The loop over the edges of a node, and the nodes within a distance.     *)

\* What a loop over the edges pushes: the nodes at the end of the edges chosen, in some
\* order, and no more nodes than there are edges.
LEMMA TargetsChosen ==
    ASSUME NEW edges \in Seq(EdgeTo), NEW places
    PROVE  /\ Targets(edges, places) \in Seq(Node)
           /\ ToSet(Targets(edges, places)) = {edges[i].to : i \in DOMAIN edges \cap places}
           /\ Len(Targets(edges, places)) <= Len(edges)
<1> DEFINE N == Len(edges)
           X == Seq(Node)
           G(i, x) == IF i \in places THEN Append(x, edges[i].to) ELSE x
<1>0. /\ N \in Nat /\ DOMAIN edges = 1..N /\ <<>> \in X
      /\ \A i \in 1..N : edges[i].to \in Node
  <2>1. N \in Nat /\ DOMAIN edges = 1..N /\ \A i \in 1..N : edges[i] \in EdgeTo
    OBVIOUS
  <2> QED
    BY <2>1 DEF EdgeTo
<1>1. \A i \in 1..N : \A x \in X : G(i, x) \in X
  BY <1>0
<1> HIDE DEF N, X, G
<1>2. PICK g \in [0..N -> X] : g = [i \in 0..N |-> IF i = 0 THEN <<>> ELSE G(i, g[i - 1])]
  <2> DEFINE F == [i \in Nat |-> [x \in X |-> IF i \in 1..N THEN G(i, x) ELSE x]]
  <2>1. F \in [Nat -> [X -> X]]
    BY <1>1
  <2>2. \A i \in 1..N : \A x \in X : F[i][x] = G(i, x)
    BY <1>0
  <2> HIDE DEF F
  <2>3. PICK r \in [Nat -> X] : IsLoop(r, <<>>, F)
    BY <1>0, <2>1, Rounds
  <2> DEFINE g == [i \in 0..N |-> r[i]]
  <2>4. g \in [0..N -> X]
    BY <1>0
  <2>5. ASSUME NEW i \in 0..N PROVE g[i] = IF i = 0 THEN <<>> ELSE G(i, g[i - 1])
    <3>1. i \in Nat /\ g[i] = r[i]
      BY <1>0
    <3>2. i # 0 => i \in 1..N /\ i - 1 \in 0..N /\ g[i - 1] = r[i - 1] /\ r[i - 1] \in X
      BY <1>0
    <3> HIDE DEF g
    <3> QED
      BY <2>2, <2>3, <3>1, <3>2 DEF IsLoop
  <2>6. g = [i \in 0..N |-> IF i = 0 THEN <<>> ELSE G(i, g[i - 1])]
    BY <2>4, <2>5
  <2> HIDE DEF g
  <2> QED
    BY <2>4, <2>6
<1> DEFINE pushed[i \in 0..N] == IF i = 0 THEN <<>> ELSE G(i, pushed[i - 1])
<1>3. pushed = [i \in 0..N |-> IF i = 0 THEN <<>> ELSE G(i, pushed[i - 1])]
  BY <1>2
<1>4. Targets(edges, places) = pushed[N]
  BY DEF Targets, pushed, N, G
<1> HIDE DEF pushed
<1> DEFINE Good(i) == /\ pushed[i] \in Seq(Node)
                      /\ ToSet(pushed[i]) = {edges[j].to : j \in (1..i) \cap places}
                      /\ Len(pushed[i]) <= i
           T == {i \in Nat : i <= N => Good(i)}
<1>5. 0 \in T
  <2>1. pushed[0] = <<>>
    BY <1>0, <1>3
  <2>2. ToSet(<<>>) = {} /\ (1..0) \cap places = {}
    BY DEF ToSet
  <2>3. <<>> \in Seq(Node) /\ Len(<<>>) = 0
    OBVIOUS
  <2>4. {edges[j].to : j \in (1..0) \cap places} = {}
    BY <2>2
  <2>5. Good(0)
    BY <2>1, <2>2, <2>3, <2>4
  <2> HIDE DEF Good
  <2> QED
    BY <2>5
<1>6. ASSUME NEW k \in Nat, k \in T PROVE k + 1 \in T
  <2> SUFFICES ASSUME k + 1 <= N PROVE Good(k + 1)
    OBVIOUS
  <2>1. k + 1 \in 1..N /\ k + 1 \in 0..N /\ (k + 1) - 1 = k /\ k + 1 # 0
    BY <1>0
  <2>2. Good(k)
    BY <1>6, <1>0
  <2>3. pushed[k + 1] = G(k + 1, pushed[k])
    BY <1>3, <2>1
  <2>4. 1..(k + 1) = (1..k) \cup {k + 1}
    OBVIOUS
  <2>5. CASE k + 1 \notin places
    BY <2>2, <2>3, <2>4, <2>5 DEF G
  <2>6. CASE k + 1 \in places
    <3> DEFINE s == pushed[k]
               e == edges[k + 1].to
    <3>1. pushed[k + 1] = Append(s, e) /\ e \in Node /\ s \in Seq(Node)
      BY <1>0, <2>1, <2>2, <2>3, <2>6 DEF G
    <3>2. {edges[j].to : j \in (1..(k + 1)) \cap places} = {edges[j].to : j \in (1..k) \cap places} \cup {e}
      BY <2>4, <2>6
    <3> HIDE DEF s, e
    <3>3. ToSet(Append(s, e)) = ToSet(s) \cup {e}
      <4>1. /\ DOMAIN Append(s, e) = (DOMAIN s) \cup {Len(s) + 1}
            /\ Append(s, e)[Len(s) + 1] = e
            /\ \A i \in DOMAIN s : Append(s, e)[i] = s[i]
        BY <3>1
      <4> QED
        BY <4>1 DEF ToSet
    <3>4. Append(s, e) \in Seq(Node) /\ Len(Append(s, e)) = Len(s) + 1
      BY <3>1
    <3>5. ToSet(s) = {edges[j].to : j \in (1..k) \cap places} /\ Len(s) <= k /\ Len(s) \in Nat
      BY <2>2, <3>1 DEF s
    <3>6. ToSet(pushed[k + 1]) = {edges[j].to : j \in (1..(k + 1)) \cap places}
      BY <3>1, <3>2, <3>3, <3>5
    <3>7. Len(pushed[k + 1]) <= k + 1
      BY <3>1, <3>4, <3>5
    <3> QED
      BY <3>1, <3>4, <3>6, <3>7
  <2> QED
    BY <2>5, <2>6
<1> HIDE DEF T, Good
<1>7. N \in T
  BY <1>0, <1>5, <1>6, Upwards
<1> QED
  BY <1>0, <1>4, <1>7 DEF T, Good, N

\* The nodes within a distance, one edge at a time.
LEMMA NearSteps ==
    ASSUME NEW g \in Graph, query.from \in Node
    PROVE  /\ Near(g) \in [Nat -> SUBSET Node]
           /\ Near(g)[0] = {query.from}
           /\ \A d \in Nat : Near(g)[d + 1] = Near(g)[d] \cup UNION {g[n] : n \in Near(g)[d]}
<1> DEFINE X == SUBSET Node
           G(x) == x \cup UNION {g[n] : n \in x}
           b == {query.from}
<1>1. b \in X /\ \A x \in X : G(x) \in X
  BY DEF Graph
<1> HIDE DEF X, G, b
<1>2. PICK r \in [Nat -> X] : r = [d \in Nat |-> IF d = 0 THEN b ELSE G(r[d - 1])]
  <2> DEFINE F == [i \in Nat |-> [x \in X |-> G(x)]]
  <2>1. F \in [Nat -> [X -> X]]
    BY <1>1
  <2>2. \A i \in Nat : \A x \in X : F[i][x] = G(x)
    OBVIOUS
  <2> HIDE DEF F
  <2>3. PICK r \in [Nat -> X] : IsLoop(r, b, F)
    BY <1>1, <2>1, Rounds
  <2>4. ASSUME NEW d \in Nat PROVE r[d] = IF d = 0 THEN b ELSE G(r[d - 1])
    <3>1. d # 0 => r[d - 1] \in X
      OBVIOUS
    <3> QED
      BY <2>2, <2>3, <3>1 DEF IsLoop
  <2>5. r = [d \in Nat |-> IF d = 0 THEN b ELSE G(r[d - 1])]
    BY <2>4
  <2> QED
    BY <2>5
<1> DEFINE near[d \in Nat] == IF d = 0 THEN b ELSE G(near[d - 1])
<1>3. near = [d \in Nat |-> IF d = 0 THEN b ELSE G(near[d - 1])]
  BY <1>2
<1>4. Near(g) = near
  BY DEF Near, near, G, b
<1> HIDE DEF near
<1>5. near[0] = b
  BY <1>3
<1>6. \A d \in Nat : near[d + 1] = G(near[d])
  <2> TAKE d \in Nat
  <2>1. d + 1 \in Nat /\ d + 1 # 0 /\ (d + 1) - 1 = d
    OBVIOUS
  <2> QED
    BY <1>3, <2>1
<1>7. near \in [Nat -> X]
  <2> DEFINE T == {d \in Nat : near[d] \in X}
  <2>1. 0 \in T
    BY <1>1, <1>5
  <2>2. \A d \in Nat : d \in T => d + 1 \in T
    BY <1>1, <1>6
  <2> HIDE DEF T
  <2>3. Nat \subseteq T
    BY <2>1, <2>2, Upwards
  <2>4. \A d \in Nat : near[d] \in X
    BY <2>3 DEF T
  <2> QED
    BY <1>3, <2>4
<1> QED
  BY <1>4, <1>5, <1>6, <1>7 DEF X, G, b

-------------------------------------------------------------------------------
(* Lists.                                                                  *)

\* The last element of a stack, and what is below it.
LEMMA StackTop ==
    ASSUME NEW S, NEW s \in Seq(S), s # <<>>
    PROVE  /\ Front(s) \in Seq(S) /\ Last(s) \in S
           /\ Len(s) \in Nat \ {0} /\ Len(Front(s)) = Len(s) - 1
           /\ DOMAIN s = 1..Len(s) /\ DOMAIN Front(s) = 1..(Len(s) - 1)
           /\ Last(s) = s[Len(s)] /\ \A i \in 1..(Len(s) - 1) : Front(s)[i] = s[i]
           /\ ToSet(s) = ToSet(Front(s)) \cup {Last(s)}
<1>1. Len(s) \in Nat \ {0} /\ DOMAIN s = 1..Len(s) /\ Last(s) = s[Len(s)] /\ Last(s) \in S
  BY DEF Last
<1>2. /\ Front(s) \in Seq(S) /\ Len(Front(s)) = Len(s) - 1
      /\ \A i \in 1..(Len(s) - 1) : Front(s)[i] = s[i]
  BY <1>1 DEF Front
<1>3. DOMAIN Front(s) = 1..(Len(s) - 1)
  BY <1>2
<1>4. 1..Len(s) = 1..(Len(s) - 1) \cup {Len(s)}
  BY <1>1
<1>5. ToSet(s) = ToSet(Front(s)) \cup {Last(s)}
  BY <1>1, <1>2, <1>3, <1>4 DEF ToSet
<1> QED
  BY <1>1, <1>2, <1>3, <1>5

\* The first element of a queue, and what is behind it.
LEMMA QueueHead ==
    ASSUME NEW S, NEW s \in Seq(S), s # <<>>
    PROVE  /\ Tail(s) \in Seq(S) /\ Head(s) \in S
           /\ Len(s) \in Nat \ {0} /\ Len(Tail(s)) = Len(s) - 1
           /\ DOMAIN s = 1..Len(s) /\ DOMAIN Tail(s) = 1..(Len(s) - 1)
           /\ Head(s) = s[1] /\ \A i \in 1..(Len(s) - 1) : Tail(s)[i] = s[i + 1]
           /\ ToSet(s) = ToSet(Tail(s)) \cup {Head(s)}
<1>1. Len(s) \in Nat \ {0} /\ DOMAIN s = 1..Len(s) /\ Head(s) = s[1] /\ Head(s) \in S
  OBVIOUS
<1>2. /\ Tail(s) \in Seq(S) /\ Len(Tail(s)) = Len(s) - 1
      /\ \A i \in 1..(Len(s) - 1) : Tail(s)[i] = s[i + 1]
  BY <1>1
<1>3. DOMAIN Tail(s) = 1..(Len(s) - 1)
  BY <1>2
<1>4. ASSUME NEW i \in 1..Len(s), i # 1 PROVE i - 1 \in DOMAIN Tail(s) /\ s[i] = Tail(s)[i - 1]
  BY <1>1, <1>2, <1>3, <1>4
<1>5. ToSet(s) \subseteq ToSet(Tail(s)) \cup {Head(s)}
  <2> SUFFICES ASSUME NEW i \in 1..Len(s) PROVE s[i] \in ToSet(Tail(s)) \cup {Head(s)}
    BY <1>1 DEF ToSet
  <2>1. CASE i = 1
    BY <1>1, <2>1
  <2>2. CASE i # 1
    <3>1. i - 1 \in DOMAIN Tail(s) /\ s[i] = Tail(s)[i - 1]
      BY <1>4, <2>2
    <3> QED
      BY <3>1 DEF ToSet
  <2> QED
    BY <2>1, <2>2
<1>6. ToSet(Tail(s)) \cup {Head(s)} \subseteq ToSet(s)
  <2>1. \A i \in 1..(Len(s) - 1) : i + 1 \in 1..Len(s)
    BY <1>1
  <2>2. 1 \in 1..Len(s)
    BY <1>1
  <2> QED
    BY <1>1, <1>2, <1>3, <2>1, <2>2 DEF ToSet
<1> QED
  BY <1>1, <1>2, <1>3, <1>5, <1>6

\* One list behind another.
LEMMA Joined ==
    ASSUME NEW S, NEW s \in Seq(S), NEW t \in Seq(S)
    PROVE  /\ s \o t \in Seq(S) /\ Len(s) \in Nat /\ Len(t) \in Nat
           /\ Len(s \o t) = Len(s) + Len(t)
           /\ DOMAIN (s \o t) = 1..(Len(s) + Len(t)) /\ DOMAIN s = 1..Len(s) /\ DOMAIN t = 1..Len(t)
           /\ \A i \in 1..Len(s) : (s \o t)[i] = s[i]
           /\ \A i \in 1..Len(t) : (s \o t)[Len(s) + i] = t[i]
           /\ ToSet(s \o t) = ToSet(s) \cup ToSet(t)
<1>1. /\ s \o t \in Seq(S) /\ Len(s) \in Nat /\ Len(t) \in Nat
      /\ Len(s \o t) = Len(s) + Len(t)
      /\ DOMAIN s = 1..Len(s) /\ DOMAIN t = 1..Len(t)
  OBVIOUS
<1>2. DOMAIN (s \o t) = 1..(Len(s) + Len(t))
  BY <1>1
<1>3. \A i \in 1..Len(s) : (s \o t)[i] = s[i]
  BY <1>1
<1>4. \A i \in 1..Len(t) : (s \o t)[Len(s) + i] = t[i]
  BY <1>1
<1>5. \A i \in 1..(Len(s) + Len(t)) : i \in 1..Len(s) \/ (i - Len(s) \in 1..Len(t) /\ Len(s) + (i - Len(s)) = i)
  BY <1>1
<1>6. ToSet(s \o t) \subseteq ToSet(s) \cup ToSet(t)
  BY <1>1, <1>2, <1>3, <1>4, <1>5 DEF ToSet
<1>7. ToSet(s) \cup ToSet(t) \subseteq ToSet(s \o t)
  <2>1. \A i \in 1..Len(s) : i \in 1..(Len(s) + Len(t))
    BY <1>1
  <2>2. \A i \in 1..Len(t) : Len(s) + i \in 1..(Len(s) + Len(t))
    BY <1>1
  <2> QED
    BY <1>1, <1>2, <1>3, <1>4, <2>1, <2>2 DEF ToSet
<1> QED
  BY <1>1, <1>2, <1>3, <1>4, <1>6, <1>7

-------------------------------------------------------------------------------
(* What the searches follow, and what they push.                           *)

\* The four graphs: every edge, the edges that are not control, those that
\* in_direct_assign_chain goes along, and those that route goes along.
Anywhere == Along(EdgeTo)
Data == Along(DataEdges)
Chained == Along({e \in DataEdges : type[e.to] = "Assign" /\ NumDirectAssign(e.to) = 1})
Allowing == Along({e \in EdgeTo : Allowed(e) /\ e.to # query.to})

Stack == IF Bounded THEN Anywhere ELSE Data

AskedType == /\ out \in [Node -> Seq(EdgeTo)]
             /\ query \in [search : Stacked \cup Queued, from : Node, to : Node, depth : Nat]

LEMMA Edges ==
    ASSUME AskedType, NEW n \in Node
    PROVE  /\ out[n] \in Seq(EdgeTo) /\ Len(out[n]) \in Nat /\ DOMAIN out[n] = 1..Len(out[n])
           /\ \A i \in DOMAIN out[n] : out[n][i] \in EdgeTo /\ out[n][i].to \in Node
<1>1. out[n] \in Seq(EdgeTo)
  BY DEF AskedType
<1>2. Len(out[n]) \in Nat /\ DOMAIN out[n] = 1..Len(out[n]) /\ \A i \in DOMAIN out[n] : out[n][i] \in EdgeTo
  BY <1>1
<1> QED
  BY <1>1, <1>2 DEF EdgeTo

LEMMA AlongEdges ==
    ASSUME AskedType, NEW S
    PROVE  /\ Along(S) \in Graph
           /\ \A n \in Node : Along(S)[n] = {out[n][i].to : i \in {j \in DOMAIN out[n] : out[n][j] \in S}}
<1>1. ASSUME NEW n \in Node
      PROVE  {e.to : e \in ToSet(out[n]) \cap S} = {out[n][i].to : i \in {j \in DOMAIN out[n] : out[n][j] \in S}}
  BY DEF ToSet
<1>2. ASSUME NEW n \in Node
      PROVE  {out[n][i].to : i \in {j \in DOMAIN out[n] : out[n][j] \in S}} \in SUBSET Node
  BY Edges
<1>3. \A n \in Node : Along(S)[n] = {out[n][i].to : i \in {j \in DOMAIN out[n] : out[n][j] \in S}}
  BY <1>1 DEF Along
<1> QED
  BY <1>2, <1>3 DEF Along, Graph

LEMMA Graphs ==
    ASSUME AskedType
    PROVE  /\ Anywhere \in Graph /\ Data \in Graph /\ Chained \in Graph /\ Allowing \in Graph
           /\ Stack \in Graph
BY AlongEdges DEF Anywhere, Data, Chained, Allowing, Stack

\* What each search pushes.
LEMMA Pushes ==
    ASSUME AskedType, NEW n \in Node
    PROVE  /\ Unvisited(n) \in Seq(Node) /\ ToSet(Unvisited(n)) = Stack[n] \ seen
           /\ Len(Unvisited(n)) <= Len(out[n])
           /\ Sinks(n) \in Seq(Node) /\ ToSet(Sinks(n)) = Data[n]
           /\ ChainedTo(n) \in Seq(Node) /\ ToSet(ChainedTo(n)) = Chained[n]
           /\ Followed(n) \in Seq(Node) /\ ToSet(Followed(n)) \subseteq Allowing[n]
           /\ Between(n, query.to) = {} => ToSet(Followed(n)) = Allowing[n]
<1>0. /\ out[n] \in Seq(EdgeTo)
      /\ \A i \in DOMAIN out[n] : out[n][i] \in EdgeTo /\ out[n][i].to \in Node
  BY Edges
<1>1. /\ Unvisited(n) \in Seq(Node) /\ ToSet(Unvisited(n)) = Stack[n] \ seen
      /\ Len(Unvisited(n)) <= Len(out[n])
  <2> DEFINE places == {i \in DOMAIN out[n] : out[n][i].to \notin seen /\ Follows(out[n][i])}
  <2>1. Unvisited(n) = Targets(out[n], places)
    BY DEF Unvisited
  <2>2. {out[n][i].to : i \in DOMAIN out[n] \cap places} = Stack[n] \ seen
    <3>1. CASE Bounded
      <4>1. Stack[n] = {out[n][i].to : i \in {j \in DOMAIN out[n] : out[n][j] \in EdgeTo}}
        BY <3>1, AlongEdges DEF Stack, Anywhere
      <4> QED
        BY <1>0, <3>1, <4>1 DEF Follows
    <3>2. CASE ~Bounded
      <4>1. Stack[n] = {out[n][i].to : i \in {j \in DOMAIN out[n] : out[n][j] \in DataEdges}}
        BY <3>2, AlongEdges DEF Stack, Data
      <4> QED
        BY <1>0, <3>2, <4>1 DEF Follows, DataEdges
    <3> QED
      BY <3>1, <3>2
  <2> HIDE DEF places
  <2> QED
    BY <1>0, <2>1, <2>2, TargetsChosen
<1>2. Sinks(n) \in Seq(Node) /\ ToSet(Sinks(n)) = Data[n]
  <2> DEFINE places == {i \in DOMAIN out[n] : NotControl(out[n][i])}
  <2>1. Sinks(n) = Targets(out[n], places)
    BY DEF Sinks
  <2>2. {out[n][i].to : i \in DOMAIN out[n] \cap places} = Data[n]
    <3>1. Data[n] = {out[n][i].to : i \in {j \in DOMAIN out[n] : out[n][j] \in DataEdges}}
      BY AlongEdges DEF Data
    <3> QED
      BY <1>0, <3>1 DEF DataEdges
  <2> HIDE DEF places
  <2> QED
    BY <1>0, <2>1, <2>2, TargetsChosen
<1>3. ChainedTo(n) \in Seq(Node) /\ ToSet(ChainedTo(n)) = Chained[n]
  <2> DEFINE places == {i \in DOMAIN out[n] : NotControl(out[n][i]) /\ OnlyAssignment(out[n][i].to)}
             S == {e \in DataEdges : type[e.to] = "Assign" /\ NumDirectAssign(e.to) = 1}
  <2>1. ChainedTo(n) = Targets(out[n], places)
    BY DEF ChainedTo
  <2>2. {out[n][i].to : i \in DOMAIN out[n] \cap places} = Chained[n]
    <3>1. Chained[n] = {out[n][i].to : i \in {j \in DOMAIN out[n] : out[n][j] \in S}}
      BY AlongEdges DEF Chained
    <3> QED
      BY <1>0, <3>1 DEF DataEdges, OnlyAssignment
  <2> HIDE DEF places
  <2> QED
    BY <1>0, <2>1, <2>2, TargetsChosen
<1>4. /\ Followed(n) \in Seq(Node) /\ ToSet(Followed(n)) \subseteq Allowing[n]
      /\ Between(n, query.to) = {} => ToSet(Followed(n)) = Allowing[n]
  <2> DEFINE places == {i \in Looked(n) : out[n][i].to # query.to /\ Allowed(out[n][i])}
             S == {e \in EdgeTo : Allowed(e) /\ e.to # query.to}
  <2>1. Followed(n) = Targets(out[n], places)
    BY DEF Followed
  <2>2. Allowing[n] = {out[n][i].to : i \in {j \in DOMAIN out[n] : out[n][j] \in S}}
    BY AlongEdges DEF Allowing
  <2>3. {out[n][i].to : i \in DOMAIN out[n] \cap places} \subseteq Allowing[n]
    BY <1>0, <2>2 DEF Looked
  <2>4. Between(n, query.to) = {} => {out[n][i].to : i \in DOMAIN out[n] \cap places} = Allowing[n]
    BY <1>0, <2>2 DEF Looked
  <2> HIDE DEF places, S
  <2> QED
    BY <1>0, <2>1, <2>3, <2>4, TargetsChosen
<1> QED
  BY <1>1, <1>2, <1>3, <1>4

\* The question is not changed, and with it neither what there is to be reached.
LEMMA Unchanged ==
    ASSUME UNCHANGED asked
    PROVE  /\ UNCHANGED <<out, type, query, Bounded>>
           /\ Anywhere' = Anywhere /\ Data' = Data /\ Chained' = Chained
           /\ Allowing' = Allowing /\ Stack' = Stack
           /\ \A g : Reached(g)' = Reached(g)
           /\ \A g : Near(g)' = Near(g)
           /\ \A m, n : Between(m, n)' = Between(m, n)
<1>1. UNCHANGED <<out, type, query, Bounded>>
  BY DEF asked, Bounded
<1>2. Anywhere' = Anywhere /\ Data' = Data
  BY <1>1 DEF Anywhere, Data, Along, DataEdges, NotControl
<1>3. \A m, n : Between(m, n)' = Between(m, n)
  BY <1>1 DEF Between
<1>4. \A n : NumDirectAssign(n)' = NumDirectAssign(n)
  BY <1>1 DEF NumDirectAssign, Between
<1>5. Chained' = Chained
  BY <1>1, <1>4 DEF Chained, Along, DataEdges, NotControl
<1>6. Allowing' = Allowing
  BY <1>1 DEF Allowing, Along, Allowed
<1>7. Stack' = Stack
  BY <1>1, <1>2 DEF Stack
<1>8. \A g : Reached(g)' = Reached(g)
  BY <1>1 DEF Reached
<1>9. \A g : Near(g)' = Near(g)
  BY <1>1 DEF Near
<1> QED
  BY <1>1, <1>2, <1>3, <1>5, <1>6, <1>7, <1>8, <1>9

-------------------------------------------------------------------------------
(* The types of the searches.                                              *)

Levelled == query.search \in {"find_sinks", "route"}

\* A node waits in the queue of find_sinks and route only once it has a level.
SearchType == /\ AskedType
              /\ stage \in {"search", "trace", "done", "failed"}
              /\ work \in Seq(Node)
              /\ seen \in SUBSET Node
              /\ DOMAIN level \subseteq Node /\ \A n \in DOMAIN level : level[n] \in Nat
              /\ Levelled => ToSet(work) \subseteq DOMAIN level
              /\ DOMAIN trace \subseteq Node /\ \A n \in DOMAIN trace : trace[n] \in Node
              /\ found \in BOOLEAN
              /\ pops \in Nat
              /\ result \in Seq(Node)
              /\ at \in Node
              /\ path \in Seq(Node)

\* What a queue consists of, once its first node is taken.
LEMMA Taken ==
    ASSUME SearchType, work # <<>>
    PROVE  /\ First \in Node /\ First \in ToSet(work) /\ Rest \in Seq(Node)
           /\ ToSet(work) = ToSet(Rest) \cup {First}
           /\ Levelled => First \in DOMAIN level /\ level[First] \in Nat
           /\ Data[First] \subseteq Node /\ Chained[First] \subseteq Node /\ Allowing[First] \subseteq Node
<1>1. /\ First \in Node /\ First \in ToSet(work) /\ Rest \in Seq(Node)
      /\ ToSet(work) = ToSet(Rest) \cup {First}
  BY QueueHead DEF SearchType, First, Rest
<1>2. Levelled => First \in DOMAIN level /\ level[First] \in Nat
  BY <1>1 DEF SearchType
<1>3. Data[First] \subseteq Node /\ Chained[First] \subseteq Node /\ Allowing[First] \subseteq Node
  BY <1>1, Graphs DEF SearchType, Graph
<1> QED
  BY <1>1, <1>2, <1>3

\* emplace: the new keys get the value, the old ones keep theirs.
LEMMA EmplacedMap ==
    ASSUME NEW map, NEW keys, NEW v
    PROVE  /\ DOMAIN Emplaced(map, keys, v) = DOMAIN map \cup keys
           /\ \A k \in DOMAIN map : Emplaced(map, keys, v)[k] = map[k]
           /\ \A k \in keys \ DOMAIN map : Emplaced(map, keys, v)[k] = v
BY DEF Emplaced

LEMMA EmplacedType ==
    ASSUME NEW map, NEW keys, NEW V, NEW v \in V, \A k \in DOMAIN map : map[k] \in V
    PROVE  \A k \in DOMAIN Emplaced(map, keys, v) : Emplaced(map, keys, v)[k] \in V
<1>1. \A k \in DOMAIN Emplaced(map, keys, v) :
          Emplaced(map, keys, v)[k] = IF k \in DOMAIN map THEN map[k] ELSE v
  BY DEF Emplaced
<1> QED
  BY <1>1

LEMMA SearchTypeInit == SearchInit => SearchType
<1> SUFFICES ASSUME SearchInit PROVE SearchType
  OBVIOUS
<1>0. /\ work = <<query.from>> /\ seen = {} /\ level = [n \in {query.from} |-> 0]
      /\ trace = <<>> /\ pops = 0 /\ result = <<>> /\ at = query.to /\ path = <<>>
  BY DEF SearchInit
<1>9. found = (query.search = "chain" /\ query.from = query.to)
  BY DEF SearchInit
<1>10. stage = IF found THEN "done" ELSE "search"
  BY DEF SearchInit
<1>1. AskedType
  BY Zenon DEF SearchInit, AskedType
<1>2. query.from \in Node /\ query.to \in Node
  BY <1>1 DEF AskedType
<1>3. work \in Seq(Node) /\ ToSet(work) = {query.from}
  <2>1. work \in Seq(Node) /\ DOMAIN work = {1} /\ work[1] = query.from
    BY <1>0, <1>2
  <2> QED
    BY <2>1 DEF ToSet
<1>4. DOMAIN level = {query.from} /\ \A n \in DOMAIN level : level[n] \in Nat
  BY <1>0
<1>5. DOMAIN trace = {}
  BY <1>0
<1>6. stage \in {"search", "trace", "done", "failed"} /\ found \in BOOLEAN
  BY <1>9, <1>10
<1>7. pops \in Nat /\ result \in Seq(Node) /\ path \in Seq(Node) /\ seen \in SUBSET Node
  BY <1>0
<1>8. at \in Node
  BY <1>0, <1>2
<1> QED
  BY <1>1, <1>2, <1>3, <1>4, <1>5, <1>6, <1>7, <1>8 DEF SearchType

LEMMA SearchTypeStep ==
    ASSUME SearchType, [SearchNext]_searchVars
    PROVE  SearchType'
<1>0. CASE UNCHANGED searchVars
  BY <1>0, Unchanged DEF searchVars, asked, SearchType, AskedType, Levelled
<1>1. CASE PopLast
  <2>1. /\ UNCHANGED <<asked, stage, level, trace, result, at, path>> /\ work # <<>>
        /\ query.search \in Stacked /\ pops' = pops + 1
        /\ \/ work' = Front(work) /\ seen' = seen /\ found' = TRUE
           \/ /\ work' = Front(work) \o Unvisited(Last(work))
              /\ seen' = Visit(Last(work)) /\ found' = found
    BY <1>1 DEF PopLast, Searching
  <2>2. AskedType' /\ ~Levelled'
    BY <2>1 DEF asked, AskedType, SearchType, Levelled, Stacked
  <2>3. Front(work) \in Seq(Node) /\ Last(work) \in Node
    BY <2>1, StackTop DEF SearchType
  <2>4. Unvisited(Last(work)) \in Seq(Node)
    BY <2>3, Pushes DEF SearchType
  <2>5. Front(work) \o Unvisited(Last(work)) \in Seq(Node)
    BY <2>3, <2>4, Joined
  <2>6. work' \in Seq(Node)
    BY <2>1, <2>3, <2>5
  <2>7. seen' \in SUBSET Node
    BY <2>1, <2>3 DEF SearchType, Visit
  <2>8. pops' \in Nat
    BY <2>1 DEF SearchType
  <2>9. found' \in BOOLEAN
    BY <2>1, Zenon DEF SearchType
  <2> QED
    BY <2>1, <2>2, <2>6, <2>7, <2>8, <2>9 DEF SearchType
<1>2. CASE PassVisited
  <2>0. /\ UNCHANGED <<asked, stage, seen, level, trace, found, pops, result, at, path>> /\ work # <<>>
        /\ work' = Rest
    BY <1>2, Zenon DEF PassVisited, Dequeue, Searching
  <2>1. AskedType' /\ Levelled' = Levelled
    BY <2>0 DEF asked, AskedType, SearchType, Levelled
  <2> QED
    BY <2>0, <2>1, Taken DEF SearchType
<1>3. CASE PassDeep
  <2>0. /\ UNCHANGED <<asked, stage, level, trace, found, pops, result, at, path>> /\ work # <<>>
        /\ work' = Rest /\ seen' = Visit(First)
    BY <1>3, Zenon DEF PassDeep, Dequeue, Searching
  <2>1. AskedType' /\ Levelled' = Levelled
    BY <2>0 DEF asked, AskedType, SearchType, Levelled
  <2> QED
    BY <2>0, <2>1, Taken DEF SearchType, Visit
<1>4. CASE ExpandSinks
  <2>0. /\ UNCHANGED <<asked, stage, trace, found, pops, at, path>> /\ work # <<>>
        /\ query.search \in {"find_sinks"} /\ work' = Rest \o Sinks(First) /\ seen' = Visit(First)
        /\ level' = Emplaced(level, ToSet(Sinks(First)), level[First] + 1)
        /\ result' = Append(result, First)
    BY <1>4, Zenon DEF ExpandSinks, Dequeue, Searching
  <2>1. AskedType' /\ Levelled' /\ Levelled
    BY <2>0 DEF asked, AskedType, SearchType, Levelled
  <2>2. Sinks(First) \in Seq(Node) /\ ToSet(Sinks(First)) \subseteq Node
    BY <2>0, Taken, Pushes DEF SearchType
  <2>3. work' \in Seq(Node) /\ ToSet(work') = ToSet(Rest) \cup ToSet(Sinks(First))
    BY <2>0, <2>2, Taken, Joined
  <2>4. /\ DOMAIN level' = DOMAIN level \cup ToSet(Sinks(First))
        /\ \A n \in DOMAIN level' : level'[n] \in Nat
    <3> DEFINE keys == ToSet(Sinks(First))
               v == level[First] + 1
    <3>1. level' = Emplaced(level, keys, v)
      BY <2>0
    <3>2. v \in Nat
      BY <2>0, <2>1, Taken
    <3> HIDE DEF keys, v
    <3>3. DOMAIN level' = DOMAIN level \cup keys /\ \A n \in DOMAIN level' : level'[n] \in Nat
      BY <3>1, <3>2, EmplacedMap, EmplacedType DEF SearchType
    <3> QED
      BY <3>3 DEF keys
  <2>5. result' \in Seq(Node) /\ seen' \in SUBSET Node
    BY <2>0, Taken DEF SearchType, Visit
  <2> QED
    BY <2>0, <2>1, <2>2, <2>3, <2>4, <2>5, Taken DEF SearchType
<1>5. CASE ExpandChain
  <2>0. /\ UNCHANGED <<asked, stage, level, trace, pops, result, at, path>> /\ work # <<>>
        /\ query.search \in {"chain"} /\ work' = Rest \o ChainedTo(First) /\ seen' = Visit(First)
        /\ found' = (query.to \in ToSet(Sinks(First)))
    BY <1>5, Zenon DEF ExpandChain, Dequeue, Searching
  <2>1. AskedType' /\ ~Levelled'
    BY <2>0 DEF asked, AskedType, SearchType, Levelled
  <2>2. ChainedTo(First) \in Seq(Node)
    BY <2>0, Taken, Pushes DEF SearchType
  <2>3. work' \in Seq(Node)
    BY <2>0, <2>2, Taken, Joined
  <2>4. seen' \in SUBSET Node /\ found' \in BOOLEAN
    BY <2>0, Taken DEF SearchType, Visit
  <2> QED
    BY <2>0, <2>1, <2>3, <2>4 DEF SearchType
<1>6. CASE ExpandRoute
  <2>0. /\ UNCHANGED <<asked, stage, pops, result, at, path>> /\ work # <<>>
        /\ query.search \in {"route"} /\ work' = Rest \o Followed(First) /\ seen' = Visit(First)
        /\ level' = Emplaced(level, ToSet(Followed(First)), level[First] + 1)
        /\ trace' = Traced(First) /\ found' = (Between(First, query.to) # {})
    BY <1>6, Zenon DEF ExpandRoute, Dequeue, Searching
  <2>1. AskedType' /\ Levelled' /\ Levelled
    BY <2>0 DEF asked, AskedType, SearchType, Levelled
  <2>2. Followed(First) \in Seq(Node) /\ ToSet(Followed(First)) \subseteq Node
    BY <2>0, Taken, Pushes DEF SearchType
  <2>3. work' \in Seq(Node) /\ ToSet(work') = ToSet(Rest) \cup ToSet(Followed(First))
    BY <2>0, <2>2, Taken, Joined
  <2>4. /\ DOMAIN level' = DOMAIN level \cup ToSet(Followed(First))
        /\ \A n \in DOMAIN level' : level'[n] \in Nat
    <3> DEFINE keys == ToSet(Followed(First))
               v == level[First] + 1
    <3>1. level' = Emplaced(level, keys, v)
      BY <2>0
    <3>2. v \in Nat
      BY <2>0, <2>1, Taken
    <3> HIDE DEF keys, v
    <3>3. DOMAIN level' = DOMAIN level \cup keys /\ \A n \in DOMAIN level' : level'[n] \in Nat
      BY <3>1, <3>2, EmplacedMap, EmplacedType DEF SearchType
    <3> QED
      BY <3>3 DEF keys
  <2>5. DOMAIN trace' \subseteq Node /\ \A n \in DOMAIN trace' : trace'[n] \in Node
    <3>1. {out[First][i].to : i \in Looked(First)} \subseteq Node
      BY <2>0, Taken, Edges DEF SearchType, Looked
    <3> DEFINE keys == {out[First][i].to : i \in Looked(First)}
    <3>2. trace' = Emplaced(trace, keys, First) /\ keys \subseteq Node /\ First \in Node
      BY <2>0, <3>1, Taken DEF Traced
    <3> HIDE DEF keys
    <3>3. DOMAIN trace' = DOMAIN trace \cup keys
      BY <3>2, EmplacedMap
    <3>4. \A n \in DOMAIN trace : trace[n] \in Node
      BY DEF SearchType
    <3>5. \A n \in DOMAIN Emplaced(trace, keys, First) : Emplaced(trace, keys, First)[n] \in Node
      BY <3>2, <3>4, EmplacedType, Zenon
    <3> QED
      BY <3>2, <3>3, <3>5 DEF SearchType
  <2>6. seen' \in SUBSET Node /\ found' \in BOOLEAN
    BY <2>0, Taken DEF SearchType, Visit
  <2> QED
    BY <2>0, <2>1, <2>2, <2>3, <2>4, <2>5, <2>6, Taken DEF SearchType
<1>7. CASE LoopEnds
  <2>1. AskedType' /\ Levelled' = Levelled
    BY <1>7 DEF LoopEnds, asked, AskedType, SearchType, Levelled
  <2> QED
    BY <1>7, <2>1 DEF LoopEnds, SearchType
<1>8. CASE TraceBack
  <2> USE <1>8 DEF TraceBack
  <2>1. AskedType' /\ Levelled' = Levelled
    BY DEF asked, AskedType, SearchType, Levelled
  <2>2. path' \in Seq(Node) /\ at' \in Node
    BY DEF SearchType
  <2> QED
    BY <2>1, <2>2 DEF SearchType
<1>9. CASE TraceEnds
  <2>1. AskedType' /\ Levelled' = Levelled
    BY <1>9 DEF TraceEnds, asked, AskedType, SearchType, Levelled
  <2> QED
    BY <1>9, <2>1 DEF TraceEnds, SearchType
<1> QED
  BY <1>0, <1>1, <1>2, <1>3, <1>4, <1>5, <1>6, <1>7, <1>8, <1>9 DEF SearchNext

-------------------------------------------------------------------------------
(* has_path.                                                               *)

\* The nodes marked and stacked are reached, and nothing that a marked node leads to is
\* missing.
StackInv ==
    query.search \in Stacked =>
        /\ seen \cup ToSet(work) \subseteq Reached(Stack)
        /\ found => query.to \in Reached(Stack)
        /\ ~found => /\ query.from \in seen \cup ToSet(work)
                     /\ \A n \in seen : n # query.to /\ Stack[n] \subseteq seen \cup ToSet(work)
        /\ ~found /\ stage # "search" => work = <<>> \/ ~WithinBound

EdgesOf(V) == UNION {{n} \X DOMAIN out[n] : n \in V}

\* A marked node that is still on the stack has nothing left to push: its successors are
\* marked, or lie above it and will be when it is popped.  So every push has an edge of
\* its own, and the pops can be counted by the edges.
CountInv ==
    Bounded /\ NoSelfLoop =>
        /\ ~found => \A i \in DOMAIN work : work[i] \in seen =>
               \A m \in Stack[work[i]] : m \in seen \/ \E j \in DOMAIN work : j > i /\ work[j] = m
        /\ pops + Len(work) <= 1 + Cardinality(EdgesOf(seen))

\* What is reachable from the origin.
LEMMA ReachedLeast ==
    ASSUME AskedType, NEW g \in Graph
    PROVE  /\ query.from \in Reached(g) /\ Reached(g) \in SUBSET Node
           /\ \A n \in Reached(g) : g[n] \subseteq Reached(g)
           /\ \A C \in SUBSET Node : query.from \in C /\ (\A n \in C : g[n] \subseteq C) => Reached(g) \subseteq C
<1>1. {query.from} \in SUBSET Node
  BY DEF AskedType
<1>2. /\ {query.from} \subseteq Reached(g) /\ Reached(g) \subseteq Node
      /\ Closed(g, Reached(g))
      /\ \A C \in SUBSET Node : {query.from} \subseteq C /\ Closed(g, C) => Reached(g) \subseteq C
  BY <1>1, ReachableLeast DEF Reached
<1> QED
  BY <1>2 DEF Closed

LEMMA Interval == \A n \in Nat : IsFiniteSet(1..n) /\ Cardinality(1..n) = n
<1> SUFFICES ASSUME NEW n \in Nat PROVE IsFiniteSet(1..n) /\ Cardinality(1..n) = n
  OBVIOUS
<1>1. 1 \in Int /\ n \in Int
  OBVIOUS
<1>2. IsFiniteSet(1..n) /\ Cardinality(1..n) = IF 1 > n THEN 0 ELSE n - 1 + 1
  BY <1>1, FS_Interval
<1> QED
  BY <1>2

LEMMA EdgesFinite ==
    ASSUME AskedType, NEW V \in SUBSET Node
    PROVE  /\ IsFiniteSet(EdgesOf(V)) /\ Cardinality(EdgesOf(V)) \in Nat
           /\ NumEdges \in Nat /\ Cardinality(EdgesOf(V)) <= NumEdges
<1>1. \A n \in Node : IsFiniteSet({n} \X DOMAIN out[n])
  <2> TAKE n \in Node
  <2>1. Len(out[n]) \in Nat /\ DOMAIN out[n] = 1..Len(out[n])
    BY Edges
  <2>2. IsFiniteSet(DOMAIN out[n]) /\ IsFiniteSet({n})
    BY <2>1, Interval, FS_Singleton
  <2> QED
    BY <2>2, FS_Product
<1>2. IsFiniteSet(EdgesOf(Node))
  <2> DEFINE F == {{n} \X DOMAIN out[n] : n \in Node}
             f == [n \in Node |-> {n} \X DOMAIN out[n]]
  <2>1. f \in Surjection(Node, F)
    BY DEF Surjection
  <2>2. IsFiniteSet(F)
    BY <2>1, NodeAssumption, FS_Surjection
  <2>3. \A T \in F : IsFiniteSet(T)
    BY <1>1
  <2> HIDE DEF F
  <2>4. IsFiniteSet(UNION F)
    BY <2>2, <2>3, FS_UNION
  <2> QED
    BY <2>4 DEF F, EdgesOf
<1>3. EdgesOf(V) \in SUBSET EdgesOf(Node)
  BY DEF EdgesOf
<1>4. IsFiniteSet(EdgesOf(V)) /\ Cardinality(EdgesOf(V)) <= Cardinality(EdgesOf(Node))
  BY <1>2, <1>3, FS_Subset
<1>5. Cardinality(EdgesOf(V)) \in Nat /\ Cardinality(EdgesOf(Node)) \in Nat
  BY <1>2, <1>4, FS_CardinalityType
<1>6. NumEdges = Cardinality(EdgesOf(Node))
  BY DEF NumEdges, EdgesOf
<1> QED
  BY <1>4, <1>5, <1>6

LEMMA EdgesOfMore ==
    ASSUME AskedType, NEW V \in SUBSET Node, NEW n \in Node
    PROVE  Cardinality(EdgesOf(V \cup {n})) =
               Cardinality(EdgesOf(V)) + IF n \in V THEN 0 ELSE Len(out[n])
<1>1. Cardinality(EdgesOf(V)) \in Nat /\ IsFiniteSet(EdgesOf(V))
  BY EdgesFinite
<1>2. CASE n \in V
  <2>1. V \cup {n} = V
    BY <1>2
  <2> QED
    BY <1>1, <1>2, <2>1
<1>3. CASE n \notin V
  <2> DEFINE P == {n} \X DOMAIN out[n]
  <2>1. Len(out[n]) \in Nat /\ DOMAIN out[n] = 1..Len(out[n])
    BY Edges
  <2>2. /\ IsFiniteSet(DOMAIN out[n]) /\ Cardinality(DOMAIN out[n]) = Len(out[n])
        /\ IsFiniteSet({n}) /\ Cardinality({n}) = 1
    BY <2>1, Interval, FS_Singleton
  <2>3. IsFiniteSet(P) /\ Cardinality(P) = 1 * Len(out[n])
    BY <2>2, FS_Product
  <2>4. EdgesOf(V \cup {n}) = EdgesOf(V) \cup P
    BY DEF EdgesOf
  <2>5. EdgesOf(V) \cap P = {}
    BY <1>3 DEF EdgesOf
  <2> HIDE DEF P
  <2>6. Cardinality(EdgesOf(V) \cap P) = 0
    BY <2>5, FS_EmptySet
  <2>7. Cardinality(EdgesOf(V) \cup P) =
            Cardinality(EdgesOf(V)) + Cardinality(P) - Cardinality(EdgesOf(V) \cap P)
    BY <1>1, <2>3, FS_Union
  <2>8. Cardinality(P) = Len(out[n])
    BY <2>1, <2>3
  <2>9. Cardinality(EdgesOf(V) \cup P) = Cardinality(EdgesOf(V)) + Len(out[n])
    <3> DEFINE c == Cardinality(EdgesOf(V))
               l == Len(out[n])
    <3>1. c \in Nat /\ l \in Nat /\ Cardinality(EdgesOf(V) \cup P) = c + l - 0
      BY <1>1, <2>1, <2>6, <2>7, <2>8
    <3> HIDE DEF c, l
    <3>2. c + l - 0 = c + l
      BY <3>1
    <3> QED
      BY <3>1, <3>2 DEF c, l
  <2> QED
    BY <1>3, <2>4, <2>9, Zenon
<1> QED
  BY <1>2, <1>3

\* The steps that do no work: the loop ends, or the trace is followed back.
Idle == /\ UNCHANGED <<asked, work, seen, level, trace, found, pops, result>>
        /\ stage' # "search" => stage # "search" \/ found \/ work = <<>> \/ ~WithinBound

LEMMA Steps ==
    ASSUME [SearchNext]_searchVars
    PROVE  Idle \/ PopLast \/ PassVisited \/ PassDeep \/ ExpandSinks \/ ExpandChain \/ ExpandRoute
<1>1. UNCHANGED searchVars => Idle
  BY DEF searchVars, Idle
<1>2. LoopEnds => Idle
  BY Zenon DEF LoopEnds, Idle
<1>3. TraceBack => Idle
  BY DEF TraceBack, Idle
<1>4. TraceEnds => Idle
  BY DEF TraceEnds, Idle
<1> QED
  BY <1>1, <1>2, <1>3, <1>4, Zenon DEF SearchNext

\* What a step does that takes the first node of the queue.
LEMMA QueueSteps ==
    ASSUME PassVisited \/ PassDeep \/ ExpandSinks \/ ExpandChain \/ ExpandRoute
    PROVE  /\ UNCHANGED asked /\ query.search \in Queued /\ work # <<>>
           /\ ~found /\ stage = "search" /\ UNCHANGED stage
<1>1. PassVisited => /\ UNCHANGED asked /\ query.search \in Queued /\ work # <<>>
                     /\ ~found /\ stage = "search" /\ UNCHANGED stage
  BY Zenon DEF PassVisited, Dequeue, Searching
<1>2. PassDeep => /\ UNCHANGED asked /\ query.search \in {"find_sinks", "route"} /\ work # <<>>
                  /\ ~found /\ stage = "search" /\ UNCHANGED stage
  BY Zenon DEF PassDeep, Dequeue, Searching
<1>3. ExpandSinks => /\ UNCHANGED asked /\ query.search \in {"find_sinks"} /\ work # <<>>
                     /\ ~found /\ stage = "search" /\ UNCHANGED stage
  BY Zenon DEF ExpandSinks, Dequeue, Searching
<1>4. ExpandChain => /\ UNCHANGED asked /\ query.search \in {"chain"} /\ work # <<>>
                     /\ ~found /\ stage = "search" /\ UNCHANGED stage
  BY Zenon DEF ExpandChain, Dequeue, Searching
<1>5. ExpandRoute => /\ UNCHANGED asked /\ query.search \in {"route"} /\ work # <<>>
                     /\ ~found /\ stage = "search" /\ UNCHANGED stage
  BY Zenon DEF ExpandRoute, Dequeue, Searching
<1>6. {"find_sinks", "route"} \subseteq Queued /\ {"find_sinks"} \subseteq Queued
      /\ {"chain"} \subseteq Queued /\ {"route"} \subseteq Queued
  BY DEF Queued
<1> QED
  BY <1>1, <1>2, <1>3, <1>4, <1>5, <1>6, Zenon

\* The one step of a stack.
LEMMA StackSteps ==
    ASSUME PopLast
    PROVE  /\ UNCHANGED asked /\ query.search \in Stacked /\ work # <<>>
           /\ ~found /\ stage = "search" /\ UNCHANGED stage /\ pops' = pops + 1
           /\ IF Last(work) = query.to
              THEN found' /\ work' = Front(work) /\ seen' = seen
              ELSE ~found' /\ work' = Front(work) \o Unvisited(Last(work)) /\ seen' = seen \cup {Last(work)}
BY Zenon DEF PopLast, Searching, Visit

\* The searches that use a stack do not use a queue.
LEMMA Apart == \A s : ~(s \in Stacked /\ s \in Queued)
BY DEF Stacked, Queued

LEMMA StackInit == SearchInit => StackInv /\ CountInv
<1> SUFFICES ASSUME SearchInit PROVE StackInv /\ CountInv
  OBVIOUS
<1>1. SearchType
  BY SearchTypeInit
<1>2. work = <<query.from>> /\ seen = {} /\ pops = 0
  BY DEF SearchInit
<1>3. query.search \in Stacked => ~found /\ stage = "search"
  BY DEF SearchInit, Stacked
<1>4. query.from \in Node /\ Stack \in Graph
  BY <1>1, Graphs DEF SearchType, AskedType
<1>5. Len(work) = 1 /\ ToSet(work) = {query.from}
  <2>1. Len(work) = 1 /\ DOMAIN work = {1} /\ work[1] = query.from
    BY <1>2
  <2> QED
    BY <2>1 DEF ToSet
<1>6. query.from \in Reached(Stack)
  BY <1>1, <1>4, ReachedLeast DEF SearchType
<1>7. StackInv
  BY <1>2, <1>3, <1>5, <1>6 DEF StackInv
<1>8. Cardinality(EdgesOf(seen)) \in Nat
  BY <1>1, <1>2, EdgesFinite DEF SearchType
<1>9. CountInv
  BY <1>2, <1>5, <1>8 DEF CountInv
<1> QED
  BY <1>7, <1>9

LEMMA StackStep ==
    ASSUME SearchType, StackInv, [SearchNext]_searchVars
    PROVE  StackInv'
<1> SUFFICES ASSUME query.search' \in Stacked PROVE StackInv'
  BY DEF StackInv
<1>1. CASE Idle
  <2>1. UNCHANGED <<asked, work, seen, found, pops>>
    BY <1>1 DEF Idle
  <2>2. UNCHANGED <<query, Bounded>> /\ Stack' = Stack /\ Reached(Stack)' = Reached(Stack)
    BY <2>1, Unchanged DEF Reached
  <2>3. WithinBound' = WithinBound
    BY <2>1, <2>2 DEF WithinBound
  <2>4. query.search \in Stacked
    BY <2>2
  <2>5. ~found /\ stage' # "search" => work = <<>> \/ ~WithinBound
    BY <1>1, <2>4 DEF Idle, StackInv
  <2> QED
    BY <2>1, <2>2, <2>3, <2>4, <2>5 DEF StackInv
<1>2. CASE PopLast
  <2>1. UNCHANGED asked /\ query.search \in Stacked /\ work # <<>> /\ ~found /\ stage' = "search"
    BY <1>2, StackSteps
  <2>2. UNCHANGED query /\ Stack' = Stack /\ Reached(Stack)' = Reached(Stack)
    BY <2>1, Unchanged DEF Reached
  <2>3. /\ Front(work) \in Seq(Node) /\ Last(work) \in Node
        /\ ToSet(work) = ToSet(Front(work)) \cup {Last(work)}
    BY <2>1, StackTop DEF SearchType
  <2>4. /\ seen \cup ToSet(work) \subseteq Reached(Stack)
        /\ query.from \in seen \cup ToSet(work)
        /\ \A n \in seen : n # query.to /\ Stack[n] \subseteq seen \cup ToSet(work)
    BY <2>1 DEF StackInv
  <2>5. CASE Last(work) = query.to
    <3>1. found' /\ work' = Front(work) /\ seen' = seen
      BY <1>2, <2>5, StackSteps
    <3> QED
      BY <2>2, <2>3, <2>4, <2>5, <3>1 DEF StackInv
  <2>6. CASE Last(work) # query.to
    <3> DEFINE top == Last(work)
               new == Unvisited(top)
    <3>1. ~found' /\ work' = Front(work) \o new /\ seen' = seen \cup {top}
      BY <1>2, <2>6, StackSteps
    <3>2. new \in Seq(Node) /\ ToSet(new) = Stack[top] \ seen
      BY <2>3, Pushes DEF SearchType
    <3> HIDE DEF new
    <3>3. ToSet(work') = ToSet(Front(work)) \cup (Stack[top] \ seen)
      BY <2>3, <3>1, <3>2, Joined
    <3>4. Stack \in Graph
      BY Graphs DEF SearchType
    <3>5. Stack[top] \subseteq Reached(Stack)
      BY <2>3, <2>4, <3>4, ReachedLeast DEF SearchType
    <3> HIDE DEF top
    <3>6. ToSet(work) = ToSet(Front(work)) \cup {top} /\ top # query.to
      BY <2>3, <2>6 DEF top
    <3>7. seen' \cup ToSet(work') \subseteq Reached(Stack)
      BY <2>4, <3>1, <3>3, <3>5, <3>6
    <3>8. query.from \in seen' \cup ToSet(work')
      BY <2>4, <3>1, <3>3, <3>6
    <3>9. ASSUME NEW n \in seen' PROVE n # query.to /\ Stack[n] \subseteq seen' \cup ToSet(work')
      BY <2>4, <3>1, <3>3, <3>6
    <3> QED
      BY <2>1, <2>2, <3>1, <3>7, <3>8, <3>9 DEF StackInv
  <2> QED
    BY <2>5, <2>6
<1>3. CASE PassVisited \/ PassDeep \/ ExpandSinks \/ ExpandChain \/ ExpandRoute
  <2>1. query.search \in Queued /\ UNCHANGED query
    BY <1>3, QueueSteps, Unchanged
  <2> QED
    BY <2>1, Apart
<1> QED
  BY <1>1, <1>2, <1>3, Steps

LEMMA CountStep ==
    ASSUME SearchType, CountInv, [SearchNext]_searchVars
    PROVE  CountInv'
<1>1. CASE Idle
  <2>1. UNCHANGED <<asked, work, seen, found, pops>>
    BY <1>1 DEF Idle
  <2>2. UNCHANGED <<out, Bounded>> /\ Stack' = Stack /\ NoSelfLoop' = NoSelfLoop
    BY <2>1, Unchanged DEF NoSelfLoop
  <2>3. EdgesOf(seen)' = EdgesOf(seen)
    BY <2>1, <2>2 DEF EdgesOf
  <2> QED
    BY <2>1, <2>2, <2>3 DEF CountInv
<1>2. CASE PopLast
  <2>1. UNCHANGED asked /\ work # <<>> /\ ~found /\ pops' = pops + 1
    BY <1>2, StackSteps
  <2>2. UNCHANGED <<out, Bounded>> /\ Stack' = Stack /\ NoSelfLoop' = NoSelfLoop
    BY <2>1, Unchanged DEF NoSelfLoop
  <2> SUFFICES ASSUME Bounded, NoSelfLoop
               PROVE  /\ ~found' => \A i \in DOMAIN work' : work'[i] \in seen' =>
                            \A m \in Stack[work'[i]] : m \in seen' \/ \E j \in DOMAIN work' : j > i /\ work'[j] = m
                      /\ pops' + Len(work') <= 1 + Cardinality(EdgesOf(seen'))
    <3>1. EdgesOf(seen)' = EdgesOf(seen')
      BY <2>2 DEF EdgesOf
    <3> QED
      BY <2>2, <3>1 DEF CountInv
  <2> DEFINE L == Len(work)
             top == Last(work)
             new == Unvisited(top)
  <2>3. /\ Front(work) \in Seq(Node) /\ top \in Node
        /\ L \in Nat \ {0} /\ Len(Front(work)) = L - 1
        /\ DOMAIN work = 1..L /\ DOMAIN Front(work) = 1..(L - 1)
        /\ top = work[L] /\ \A i \in 1..(L - 1) : Front(work)[i] = work[i]
    BY <2>1, StackTop DEF SearchType
  <2>4. /\ \A i \in 1..L : work[i] \in seen =>
               \A m \in Stack[work[i]] : m \in seen \/ \E j \in 1..L : j > i /\ work[j] = m
        /\ pops + L <= 1 + Cardinality(EdgesOf(seen)) /\ pops \in Nat
    BY <2>1, <2>3 DEF CountInv, SearchType
  <2>5. Cardinality(EdgesOf(seen)) \in Nat
    BY EdgesFinite DEF SearchType
  <2>6. CASE top = query.to
    <3>1. found' /\ work' = Front(work) /\ seen' = seen
      BY <1>2, <2>6, StackSteps
    <3> QED
      BY <2>1, <2>3, <2>4, <2>5, <3>1
  <2>7. CASE top # query.to
    <3>1. work' = Front(work) \o new /\ seen' = seen \cup {top}
      BY <1>2, <2>7, StackSteps
    <3>2. new \in Seq(Node) /\ ToSet(new) = Stack[top] \ seen /\ Len(new) <= Len(out[top])
      BY <2>3, Pushes DEF SearchType
    <3>3. top \notin Stack[top]
      <4>1. Stack[top] = {out[top][i].to : i \in {j \in DOMAIN out[top] : out[top][j] \in EdgeTo}}
        BY <2>3, AlongEdges DEF Stack, Anywhere, SearchType
      <4>2. Between(top, top) = {}
        BY <2>3 DEF NoSelfLoop
      <4> QED
        BY <4>1, <4>2 DEF Between
    <3>4. Len(out[top]) \in Nat
      BY <2>3, Edges DEF SearchType
    <3>5. /\ Cardinality(EdgesOf(seen')) =
               Cardinality(EdgesOf(seen)) + IF top \in seen THEN 0 ELSE Len(out[top])
      BY <2>3, <3>1, EdgesOfMore DEF SearchType
    <3> HIDE DEF new
    <3>6. /\ Len(new) \in Nat /\ Len(work') = L - 1 + Len(new)
          /\ DOMAIN work' = 1..(L - 1 + Len(new))
          /\ \A i \in 1..(L - 1) : work'[i] = work[i]
          /\ \A k \in 1..Len(new) : work'[L - 1 + k] = new[k]
      BY <2>3, <3>1, <3>2, Joined
    <3>7. \A m \in ToSet(new) : \E k \in 1..Len(new) : new[k] = m
      BY <3>2 DEF ToSet
    <3>8. \A k \in 1..Len(new) : new[k] \in ToSet(new)
      BY <3>2 DEF ToSet
    <3> HIDE DEF L, top
    <3>9. pops' + Len(work') <= 1 + Cardinality(EdgesOf(seen'))
      <4>1. CASE top \in seen
        <5>1. \A m \in Stack[top] : m \in seen
          <6>1. L \in 1..L /\ \A j \in 1..L : ~(j > L)
            BY <2>3
          <6> QED
            BY <2>3, <2>4, <4>1, <6>1
        <5>2. Len(new) = 0
          <6>1. 1 \notin 1..Len(new)
            BY <3>2, <3>8, <5>1
          <6> QED
            BY <3>6, <6>1
        <5> QED
          BY <2>1, <2>3, <2>4, <2>5, <3>5, <3>6, <4>1, <5>2
      <4>2. CASE top \notin seen
        BY <2>1, <2>3, <2>4, <2>5, <3>2, <3>4, <3>5, <3>6, <4>2
      <4> QED
        BY <4>1, <4>2
    <3>10. ASSUME NEW i \in DOMAIN work', work'[i] \in seen', NEW m \in Stack[work'[i]]
           PROVE  m \in seen' \/ \E j \in DOMAIN work' : j > i /\ work'[j] = m
      <4>1. CASE i \in 1..(L - 1)
        <5>1. work'[i] = work[i] /\ i \in 1..L
          BY <2>3, <3>6, <4>1
        <5>2. CASE work[i] \in seen
          <6>1. m \in seen \/ \E j \in 1..L : j > i /\ work[j] = m
            BY <2>4, <3>10, <5>1, <5>2
          <6>2. ASSUME NEW j \in 1..L, j > i, work[j] = m
                PROVE  m \in seen' \/ \E k \in DOMAIN work' : k > i /\ work'[k] = m
            <7>1. CASE j = L
              BY <2>3, <3>1, <6>2, <7>1
            <7>2. CASE j \in 1..(L - 1)
              <8>1. j \in DOMAIN work' /\ work'[j] = work[j]
                BY <2>3, <3>6, <7>2
              <8> QED
                BY <6>2, <8>1
            <7> QED
              BY <2>3, <6>2, <7>1, <7>2
          <6> QED
            BY <3>1, <6>1, <6>2
        <5>3. CASE work[i] = top
          <6>1. m \in seen \/ m \in ToSet(new)
            BY <3>2, <3>10, <5>1, <5>3
          <6>2. ASSUME NEW k \in 1..Len(new), new[k] = m
                PROVE  \E j \in DOMAIN work' : j > i /\ work'[j] = m
            <7>1. L - 1 + k \in DOMAIN work' /\ L - 1 + k > i
              BY <2>3, <3>6, <4>1
            <7>2. work'[L - 1 + k] = m
              BY <3>6, <6>2
            <7> QED
              BY <7>1, <7>2
          <6> QED
            BY <3>1, <3>7, <6>1, <6>2
        <5> QED
          BY <3>1, <3>10, <5>1, <5>2, <5>3
      <4>2. CASE i \notin 1..(L - 1)
        <5>1. i - (L - 1) \in 1..Len(new) /\ i = L - 1 + (i - (L - 1))
          BY <2>3, <3>6, <3>10, <4>2
        <5>2. work'[i] \in ToSet(new)
          BY <3>6, <3>8, <5>1
        <5> QED
          BY <3>1, <3>2, <3>3, <3>10, <5>2
      <4> QED
        BY <4>1, <4>2
    <3> QED
      BY <3>9, <3>10
  <2> QED
    BY <2>6, <2>7
<1>3. CASE PassVisited \/ PassDeep \/ ExpandSinks \/ ExpandChain \/ ExpandRoute
  <2>1. query.search \in Queued /\ UNCHANGED query
    BY <1>3, QueueSteps, Unchanged
  <2>2. ~Bounded'
    BY <2>1 DEF Bounded, Queued
  <2> QED
    BY <2>2 DEF CountInv
<1> QED
  BY <1>1, <1>2, <1>3, Steps

\* Two ways to say yes or no.
LEMMA SameAnswer ==
    ASSUME NEW b \in BOOLEAN, NEW x, NEW S, b => x \in S, ~b => x \notin S
    PROVE  b = (x \in S)
<1>1. CASE b = TRUE
  BY <1>1
<1>2. CASE b = FALSE
  BY <1>2
<1> QED
  BY <1>1, <1>2

\* has_path, when it is done.
LEMMA HasPathAnswers == SearchType /\ StackInv /\ CountInv => HasPathExact
<1> SUFFICES ASSUME SearchType, StackInv, CountInv PROVE HasPathExact
  OBVIOUS
<1>0. AskedType /\ Stack \in Graph /\ work \in Seq(Node)
  BY Graphs DEF SearchType
<1>1. ASSUME query.search \in Stacked, stage = "done", ~found, work = <<>>
      PROVE  query.to \notin Reached(Stack)
  <2>1. ToSet(work) = {}
    BY <1>1 DEF ToSet
  <2>2. query.from \in seen /\ \A n \in seen : n # query.to /\ Stack[n] \subseteq seen
    BY <1>1, <2>1 DEF StackInv
  <2>3. Reached(Stack) \subseteq seen
    BY <1>0, <2>2, ReachedLeast DEF SearchType
  <2> QED
    BY <2>2, <2>3
<1>2. ASSUME Done("has_path")
      PROVE  /\ found => query.to \in Reached(Along(EdgeTo))
             /\ NoSelfLoop /\ query.depth > NumEdges => found = (query.to \in Reached(Along(EdgeTo)))
  <2>1. stage = "done" /\ query.search = "has_path" /\ Bounded /\ query.search \in Stacked
    BY <1>2 DEF Done, Bounded, Stacked
  <2>2. Stack = Along(EdgeTo)
    BY <2>1 DEF Stack, Anywhere
  <2>3. found => query.to \in Reached(Along(EdgeTo))
    BY <2>1, <2>2 DEF StackInv
  <2>4. ASSUME NoSelfLoop, query.depth > NumEdges, ~found PROVE work = <<>>
    <3>1. work = <<>> \/ ~(pops < query.depth)
      BY <2>1, <2>4 DEF StackInv, WithinBound
    <3>2. pops + Len(work) <= 1 + Cardinality(EdgesOf(seen))
      BY <2>1, <2>4 DEF CountInv
    <3>3. /\ Cardinality(EdgesOf(seen)) \in Nat /\ NumEdges \in Nat
          /\ Cardinality(EdgesOf(seen)) <= NumEdges
      BY EdgesFinite DEF SearchType
    <3>4. pops \in Nat /\ query.depth \in Nat /\ Len(work) \in Nat /\ (Len(work) = 0 => work = <<>>)
      BY <1>0 DEF SearchType, AskedType
    <3> QED
      BY <2>4, <3>1, <3>2, <3>3, <3>4
  <2>5. ASSUME NoSelfLoop, query.depth > NumEdges
        PROVE  found = (query.to \in Reached(Along(EdgeTo)))
    <3>1. ~found => query.to \notin Reached(Along(EdgeTo))
      BY <1>1, <2>1, <2>2, <2>4, <2>5
    <3>2. found \in BOOLEAN
      BY Zenon DEF SearchType
    <3> QED
      BY <2>3, <3>1, <3>2, SameAnswer, Zenon
  <2> QED
    BY <2>3, <2>5
<1>3. ASSUME Done("has_path if")
      PROVE  found = (query.to \in Reached(Along(DataEdges)))
  <2>1. stage = "done" /\ ~Bounded /\ query.search \in Stacked
    BY <1>3 DEF Done, Bounded, Stacked
  <2>2. Stack = Along(DataEdges)
    BY <2>1 DEF Stack, Data
  <2>3. ~found => work = <<>>
    BY <2>1 DEF StackInv, WithinBound
  <2>4. ~found => query.to \notin Reached(Along(DataEdges))
    BY <1>1, <2>1, <2>2, <2>3
  <2>5. found => query.to \in Reached(Along(DataEdges))
    BY <2>1, <2>2 DEF StackInv
  <2>6. found \in BOOLEAN
    BY Zenon DEF SearchType
  <2> QED
    BY <2>4, <2>5, <2>6, SameAnswer, Zenon
<1> QED
  BY <1>2, <1>3 DEF HasPathExact

-------------------------------------------------------------------------------
(* in_direct_assign_chain.                                                 *)

\* The nodes marked and waiting are reached along assignments with one driver, and no
\* marked one leads to the target.
ChainInv ==
    query.search = "chain" =>
        /\ found => query.from = query.to \/ \E n \in Reached(Chained) : query.to \in Data[n]
        /\ ~found => /\ query.from # query.to
                     /\ query.from \in seen \cup ToSet(work)
                     /\ seen \cup ToSet(work) \subseteq Reached(Chained)
                     /\ \A n \in seen : query.to \notin Data[n] /\ Chained[n] \subseteq seen \cup ToSet(work)
                     /\ stage # "search" => work = <<>>

LEMMA ChainInit == SearchInit => ChainInv
<1> SUFFICES ASSUME SearchInit, query.search = "chain" PROVE ChainInv
  BY DEF ChainInv
<1>1. SearchType
  BY SearchTypeInit
<1>2. work = <<query.from>> /\ seen = {}
  BY DEF SearchInit
<1>3. /\ ~found => query.from # query.to /\ stage = "search"
      /\ found => query.from = query.to
  BY DEF SearchInit
<1>4. query.from \in Node /\ Chained \in Graph
  BY <1>1, Graphs DEF SearchType, AskedType
<1>5. ToSet(work) = {query.from}
  <2>1. DOMAIN work = {1} /\ work[1] = query.from
    BY <1>2
  <2> QED
    BY <2>1 DEF ToSet
<1>6. query.from \in Reached(Chained)
  BY <1>1, <1>4, ReachedLeast DEF SearchType
<1> QED
  BY <1>2, <1>3, <1>5, <1>6 DEF ChainInv

LEMMA ChainStep ==
    ASSUME SearchType, ChainInv, [SearchNext]_searchVars
    PROVE  ChainInv'
<1> SUFFICES ASSUME query.search' = "chain" PROVE ChainInv'
  BY DEF ChainInv
<1>0. Chained \in Graph
  BY Graphs DEF SearchType
<1>1. CASE Idle
  <2>1. UNCHANGED <<asked, work, seen, found>>
    BY <1>1 DEF Idle
  <2>2. UNCHANGED query /\ Chained' = Chained /\ Data' = Data /\ Reached(Chained)' = Reached(Chained)
    BY <2>1, Unchanged DEF Reached
  <2>3. query.search = "chain" /\ WithinBound
    BY <2>2 DEF WithinBound, Bounded
  <2>4. ~found /\ stage' # "search" => work = <<>>
    BY <1>1, <2>3 DEF Idle, ChainInv
  <2> QED
    BY <2>1, <2>2, <2>3, <2>4 DEF ChainInv
<1>2. CASE PopLast
  <2>1. query.search \in Stacked /\ UNCHANGED query
    BY <1>2, StackSteps, Unchanged
  <2> QED
    BY <2>1 DEF Stacked
<1>3. CASE PassVisited \/ PassDeep \/ ExpandSinks \/ ExpandChain \/ ExpandRoute
  <2>1. UNCHANGED asked /\ work # <<>> /\ ~found /\ stage' = "search"
    BY <1>3, QueueSteps
  <2>2. UNCHANGED query /\ Chained' = Chained /\ Data' = Data /\ Reached(Chained)' = Reached(Chained)
    BY <2>1, Unchanged DEF Reached
  <2>3. /\ query.search = "chain"
        /\ query.from # query.to
        /\ query.from \in seen \cup ToSet(work)
        /\ seen \cup ToSet(work) \subseteq Reached(Chained)
        /\ \A n \in seen : query.to \notin Data[n] /\ Chained[n] \subseteq seen \cup ToSet(work)
    BY <2>1, <2>2 DEF ChainInv
  <2>4. /\ First \in Node /\ Rest \in Seq(Node)
        /\ ToSet(work) = ToSet(Rest) \cup {First}
    BY <2>1, Taken
  <2>5. CASE PassVisited
    <3>1. First \in seen /\ work' = Rest /\ UNCHANGED <<seen, found>>
      BY <2>5, Zenon DEF PassVisited
    <3> QED
      BY <2>1, <2>2, <2>3, <2>4, <3>1 DEF ChainInv
  <2>6. CASE ExpandChain
    <3>1. /\ work' = Rest \o ChainedTo(First) /\ seen' = seen \cup {First}
          /\ found' = (query.to \in ToSet(Sinks(First)))
      BY <2>6, Zenon DEF ExpandChain, Visit
    <3>2. /\ ChainedTo(First) \in Seq(Node) /\ ToSet(ChainedTo(First)) = Chained[First]
          /\ ToSet(Sinks(First)) = Data[First]
      BY <2>4, Pushes DEF SearchType
    <3>3. ToSet(work') = ToSet(Rest) \cup Chained[First]
      BY <2>4, <3>1, <3>2, Joined
    <3>4. Chained[First] \subseteq Reached(Chained) /\ First \in Reached(Chained)
      BY <1>0, <2>3, <2>4, ReachedLeast DEF SearchType
    <3>5. found' => \E n \in Reached(Chained) : query.to \in Data[n]
      BY <3>1, <3>2, <3>4
    <3>6. ASSUME ~found', NEW n \in seen'
          PROVE  query.to \notin Data[n] /\ Chained[n] \subseteq seen' \cup ToSet(work')
      <4>1. query.to \notin Data[First]
        BY <3>1, <3>2, <3>6
      <4> QED
        BY <2>3, <2>4, <3>1, <3>3, <4>1
    <3>7. /\ query.from \in seen' \cup ToSet(work')
          /\ seen' \cup ToSet(work') \subseteq Reached(Chained)
      BY <2>3, <2>4, <3>1, <3>3, <3>4
    <3> QED
      BY <2>1, <2>2, <2>3, <3>5, <3>6, <3>7 DEF ChainInv
  <2>7. PassDeep => query.search \in {"find_sinks", "route"}
    BY Zenon DEF PassDeep, Dequeue, Searching
  <2>8. ExpandSinks => query.search \in {"find_sinks"}
    BY Zenon DEF ExpandSinks, Dequeue, Searching
  <2>9. ExpandRoute => query.search \in {"route"}
    BY Zenon DEF ExpandRoute, Dequeue, Searching
  <2> QED
    BY <1>3, <2>3, <2>5, <2>6, <2>7, <2>8, <2>9
<1> QED
  BY <1>1, <1>2, <1>3, Steps

\* in_direct_assign_chain, when it is done.
LEMMA ChainAnswers == SearchType /\ ChainInv => ChainExact
<1> SUFFICES ASSUME SearchType, ChainInv, Done("chain") PROVE ChainExact
  BY DEF ChainExact
<1>1. query.search = "chain" /\ stage # "search"
  BY DEF Done
<1>2. Chained \in Graph
  BY Graphs DEF SearchType
<1>3. ASSUME ~found
      PROVE  query.from # query.to /\ ~\E n \in Reached(Chained) : query.to \in Data[n]
  <2>1. ToSet(work) = {}
    BY <1>1, <1>3 DEF ChainInv, ToSet
  <2>2. /\ query.from # query.to /\ query.from \in seen
        /\ \A n \in seen : query.to \notin Data[n] /\ Chained[n] \subseteq seen
    BY <1>1, <1>3, <2>1 DEF ChainInv
  <2>3. Reached(Chained) \subseteq seen
    BY <1>2, <2>2, ReachedLeast DEF SearchType
  <2> QED
    BY <2>2, <2>3
<1>4. found => query.from = query.to \/ \E n \in Reached(Chained) : query.to \in Data[n]
  BY <1>1 DEF ChainInv
<1> DEFINE yes == query.from = query.to \/ \E n \in Reached(Chained) : query.to \in Data[n]
<1>5. found <=> yes
  BY <1>3, <1>4
<1>6. found = yes
  <2>1. found \in BOOLEAN
    BY Zenon DEF SearchType
  <2> HIDE DEF yes
  <2> QED
    BY <1>5, <2>1
<1> QED
  BY <1>6 DEF ChainExact, Chained, Data

-------------------------------------------------------------------------------
(* find_sinks and route take the nodes in the order of their distance.     *)

\* The graph that one of the two goes along.
Ahead == IF query.search = "find_sinks" THEN Data ELSE Allowing

\* A node has a level once it was queued, and is within that distance.
LevelInv == /\ query.from \in DOMAIN level /\ level[query.from] = 0
            /\ seen \subseteq DOMAIN level /\ DOMAIN level \subseteq seen \cup ToSet(work)
            /\ \A n \in DOMAIN level : n \in Near(Ahead)[level[n]]

\* The queue is in the order of the levels, as far as the first copy of a node goes, and
\* holds at most two of them.
OrderInv == /\ \A m \in ToSet(work) \ seen : /\ \A n \in DOMAIN level : level[n] <= level[m] + 1
                                             /\ \A n \in seen : level[n] <= level[m]
            /\ \A i, j \in DOMAIN work : i < j =>
                  \/ work[j] \in seen
                  \/ level[work[i]] <= level[work[j]]
                  \/ \E k \in DOMAIN work : k < i /\ work[k] = work[j]

WaveInv == Levelled => LevelInv /\ OrderInv

LEMMA NearGrows ==
    ASSUME AskedType, NEW g \in Graph, NEW d \in Nat, NEW e \in Nat, d <= e
    PROVE  Near(g)[d] \subseteq Near(g)[e]
<1>0. /\ Near(g) \in [Nat -> SUBSET Node]
      /\ \A k \in Nat : Near(g)[k] \subseteq Near(g)[k + 1]
  BY NearSteps DEF AskedType
<1> DEFINE T == {k \in Nat : Near(g)[d] \subseteq Near(g)[d + k]}
<1>1. 0 \in T
  OBVIOUS
<1>2. ASSUME NEW k \in Nat, k \in T PROVE k + 1 \in T
  <2>1. d + k \in Nat /\ d + (k + 1) = (d + k) + 1
    OBVIOUS
  <2> QED
    BY <1>0, <1>2, <2>1
<1> HIDE DEF T
<1>3. e - d \in T
  BY <1>1, <1>2, Upwards
<1>4. d + (e - d) = e
  OBVIOUS
<1> QED
  BY <1>3, <1>4 DEF T

LEMMA NearReached ==
    ASSUME AskedType, NEW g \in Graph
    PROVE  \A d \in Nat : Near(g)[d] \subseteq Reached(g)
<1>0. /\ Near(g)[0] = {query.from}
      /\ \A k \in Nat : Near(g)[k + 1] = Near(g)[k] \cup UNION {g[n] : n \in Near(g)[k]}
  BY NearSteps DEF AskedType
<1>1. query.from \in Reached(g) /\ \A n \in Reached(g) : g[n] \subseteq Reached(g)
  BY ReachedLeast
<1> DEFINE T == {d \in Nat : Near(g)[d] \subseteq Reached(g)}
<1>2. 0 \in T
  BY <1>0, <1>1
<1>3. \A k \in Nat : k \in T => k + 1 \in T
  BY <1>0, <1>1
<1> HIDE DEF T
<1>4. Nat \subseteq T
  BY <1>2, <1>3, Upwards
<1> QED
  BY <1>4 DEF T

LEMMA WaveInit == SearchInit => WaveInv
<1> SUFFICES ASSUME SearchInit PROVE LevelInv /\ OrderInv
  BY DEF WaveInv
<1>1. SearchType
  BY SearchTypeInit
<1>2. work = <<query.from>> /\ seen = {} /\ level = [n \in {query.from} |-> 0]
  BY DEF SearchInit
<1>3. Len(work) = 1 /\ DOMAIN work = {1} /\ work[1] = query.from
  BY <1>2
<1>4. ToSet(work) = {query.from}
  BY <1>3 DEF ToSet
<1>5. DOMAIN level = {query.from} /\ level[query.from] = 0
  BY <1>2
<1>6. query.from \in Node /\ Ahead \in Graph
  BY <1>1, Graphs DEF SearchType, AskedType, Ahead
<1>7. query.from \in Near(Ahead)[0]
  BY <1>6, NearSteps
<1>8. LevelInv
  BY <1>2, <1>4, <1>5, <1>7 DEF LevelInv
<1>9. OrderInv
  BY <1>2, <1>3, <1>4, <1>5 DEF OrderInv
<1> QED
  BY <1>8, <1>9

\* Whatever is done with the first node: marked, and some of its successors queued, none
\* when it was marked before.
LEMMA WaveStep ==
    ASSUME SearchType, SearchType', Levelled, WaveInv, UNCHANGED asked, work # <<>>,
           NEW new \in Seq(Node), ToSet(new) \subseteq Ahead[First],
           First \in seen => new = <<>>,
           work' = Rest \o new, seen' = seen \cup {First},
           DOMAIN level' = DOMAIN level \cup ToSet(new),
           \A n \in DOMAIN level : level'[n] = level[n],
           \A n \in ToSet(new) \ DOMAIN level : level'[n] = level[First] + 1
    PROVE  WaveInv'
<1> DEFINE r == Len(Rest)
           d == level[First]
           keys == ToSet(new)
<1>0. /\ First \in Node /\ First \in ToSet(work) /\ Rest \in Seq(Node)
      /\ ToSet(work) = ToSet(Rest) \cup {First}
      /\ First \in DOMAIN level /\ d \in Nat
  BY Taken
<1>1. /\ r \in Nat /\ DOMAIN work = 1..(r + 1) /\ DOMAIN Rest = 1..r
      /\ work[1] = First /\ \A i \in 1..r : Rest[i] = work[i + 1]
  BY QueueHead DEF SearchType, First, Rest
<1>2. /\ Len(new) \in Nat /\ DOMAIN work' = 1..(r + Len(new))
      /\ \A i \in 1..r : work'[i] = work[i + 1]
      /\ \A i \in 1..Len(new) : work'[r + i] = new[i]
      /\ ToSet(work') = ToSet(Rest) \cup keys
  BY <1>0, <1>1, Joined
<1>3. \A i \in 1..Len(new) : new[i] \in keys
  BY DEF ToSet
<1>4. /\ DOMAIN level' = DOMAIN level \cup keys
      /\ \A n \in DOMAIN level : level'[n] = level[n]
      /\ \A n \in keys \ DOMAIN level : level'[n] = d + 1
  OBVIOUS
<1>5. keys # {} => First \notin seen
  BY DEF ToSet
<1>6. LevelInv /\ OrderInv
  BY DEF WaveInv
<1>7. Ahead \in Graph
  BY Graphs DEF SearchType, Ahead
<1>8. UNCHANGED query /\ Near(Ahead)' = Near(Ahead)
  <2>1. UNCHANGED query /\ Ahead' = Ahead
    BY Unchanged DEF Ahead
  <2> QED
    BY <2>1 DEF Near
<1>9. \A n \in DOMAIN level : level[n] \in Nat
  BY DEF SearchType
<1> HIDE DEF r, d, keys
<1>10. \A i \in 1..r : i + 1 \in 1..(r + 1)
  BY <1>1
<1>11. ToSet(Rest) \subseteq DOMAIN level
  BY <1>0 DEF SearchType, Levelled
<1>12. \A m \in ToSet(Rest) : \E i \in 1..r : work'[i] = m /\ work[i + 1] = m
  BY <1>1, <1>2 DEF ToSet
<1>13. \A m \in ToSet(Rest) \ seen' : d <= level[m]
  <2> TAKE m \in ToSet(Rest) \ seen'
  <2>1. PICK i \in 1..r : work[i + 1] = m
    BY <1>12
  <2>2. 1 \in DOMAIN work /\ i + 1 \in DOMAIN work /\ 1 < i + 1 /\ \A k \in DOMAIN work : ~(k < 1)
    BY <1>1, <2>1
  <2>3. work[i + 1] \in seen \/ level[work[1]] <= level[work[i + 1]]
    BY <1>6, <2>2 DEF OrderInv
  <2> QED
    BY <1>1, <2>1, <2>3 DEF d
<1>14. keys # {} => \A n \in DOMAIN level : level[n] <= d + 1
  BY <1>0, <1>5, <1>6 DEF OrderInv, d
<1>15. keys # {} => \A n \in seen : level[n] <= d
  BY <1>0, <1>5, <1>6 DEF OrderInv, d
<1>16. \A m \in ToSet(work') \ seen' : m \in ToSet(Rest) \/ m \in keys \ DOMAIN level
  BY <1>0, <1>2, <1>6 DEF LevelInv
<1>17. LevelInv'
  <2>1. /\ query'.from \in DOMAIN level' /\ level'[query'.from] = 0
        /\ seen' \subseteq DOMAIN level' /\ DOMAIN level' \subseteq seen' \cup ToSet(work')
    BY <1>0, <1>2, <1>4, <1>6, <1>8 DEF LevelInv
  <2>2. ASSUME NEW n \in DOMAIN level' PROVE n \in Near(Ahead)[level'[n]]
    <3>1. CASE n \in DOMAIN level
      BY <1>4, <1>6, <3>1 DEF LevelInv
    <3>2. CASE n \in keys \ DOMAIN level
      <4>1. First \in Near(Ahead)[d] /\ n \in Ahead[First]
        BY <1>0, <1>6, <3>2 DEF LevelInv, d, keys
      <4>2. n \in Near(Ahead)[d + 1]
        <5>1. Near(Ahead)[d + 1] = Near(Ahead)[d] \cup UNION {Ahead[m] : m \in Near(Ahead)[d]}
          BY <1>0, <1>7, NearSteps DEF SearchType, AskedType
        <5> QED
          BY <4>1, <5>1
      <4> QED
        BY <1>4, <3>2, <4>2
    <3> QED
      BY <1>4, <2>2, <3>1, <3>2
  <2> QED
    BY <1>8, <2>1, <2>2 DEF LevelInv
<1>18. ASSUME NEW m \in ToSet(work') \ seen'
       PROVE  /\ \A n \in DOMAIN level' : level'[n] <= level'[m] + 1
              /\ \A n \in seen' : level'[n] <= level'[m]
  <2>1. CASE m \in ToSet(Rest)
    <3>1. d <= level[m] /\ level'[m] = level[m] /\ level[m] \in Nat /\ m \in ToSet(work) \ seen
      BY <1>0, <1>4, <1>9, <1>11, <1>13, <1>18, <2>1
    <3>2. ASSUME NEW n \in DOMAIN level PROVE level'[n] <= level'[m] + 1
      BY <1>4, <1>6, <3>1 DEF OrderInv
    <3>3. ASSUME NEW n \in keys \ DOMAIN level PROVE level'[n] <= level'[m] + 1
      BY <1>0, <1>4, <3>1
    <3>4. ASSUME NEW n \in seen PROVE level'[n] <= level'[m]
      BY <1>4, <1>6, <3>1 DEF OrderInv, LevelInv
    <3>5. level'[First] <= level'[m]
      BY <1>0, <1>4, <3>1 DEF d
    <3> QED
      BY <1>4, <3>2, <3>3, <3>4, <3>5
  <2>2. CASE m \in keys \ DOMAIN level
    <3>1. level'[m] = d + 1 /\ keys # {}
      BY <1>4, <2>2
    <3>2. ASSUME NEW n \in DOMAIN level PROVE level'[n] <= d + 1
      BY <1>4, <1>14, <3>1
    <3>3. ASSUME NEW n \in keys \ DOMAIN level PROVE level'[n] <= d + 1 + 1
      BY <1>0, <1>4
    <3>4. seen' \subseteq DOMAIN level
      BY <1>0, <1>6 DEF LevelInv
    <3>5. \A n \in DOMAIN level : level'[n] \in Nat /\ level'[n] <= d + 1 + 1
      BY <1>0, <1>4, <1>9, <3>2
    <3> QED
      BY <1>4, <3>1, <3>2, <3>3, <3>4, <3>5
  <2> QED
    BY <1>16, <2>1, <2>2
<1>19. ASSUME NEW i \in 1..r, NEW j \in 1..r, i < j
       PROVE  \/ work'[j] \in seen'
              \/ level'[work'[i]] <= level'[work'[j]]
              \/ \E k \in DOMAIN work' : k < i /\ work'[k] = work'[j]
  <2>1. i + 1 \in DOMAIN work /\ j + 1 \in DOMAIN work /\ i + 1 < j + 1
    BY <1>1, <1>10, <1>19
  <2>2. \/ work[j + 1] \in seen
        \/ level[work[i + 1]] <= level[work[j + 1]]
        \/ \E k \in DOMAIN work : k < i + 1 /\ work[k] = work[j + 1]
    BY <1>6, <2>1 DEF OrderInv
  <2>3. work'[i] = work[i + 1] /\ work'[j] = work[j + 1]
    BY <1>2
  <2>4. work[i + 1] \in DOMAIN level /\ work[j + 1] \in DOMAIN level
    BY <1>1, <1>11 DEF ToSet
  <2>5. ASSUME NEW k \in DOMAIN work, k < i + 1, work[k] = work[j + 1]
        PROVE  work'[j] \in seen' \/ \E l \in DOMAIN work' : l < i /\ work'[l] = work'[j]
    <3>1. CASE k = 1
      BY <1>1, <2>3, <2>5, <3>1
    <3>2. CASE k # 1
      <4>1. k - 1 \in 1..r /\ k - 1 < i /\ k - 1 \in DOMAIN work' /\ (k - 1) + 1 = k
        BY <1>1, <1>2, <2>5, <3>2
      <4>2. work'[k - 1] = work[k]
        BY <1>2, <4>1
      <4> QED
        BY <2>3, <2>5, <4>1, <4>2
    <3> QED
      BY <3>1, <3>2
  <2> QED
    BY <1>4, <2>2, <2>3, <2>4, <2>5
<1>20. ASSUME NEW i \in DOMAIN work', NEW j \in DOMAIN work', i < j, j \notin 1..r,
              work'[j] \notin seen'
       PROVE  \/ level'[work'[i]] <= level'[work'[j]]
              \/ \E k \in DOMAIN work' : k < i /\ work'[k] = work'[j]
  <2>1. j - r \in 1..Len(new) /\ r + (j - r) = j
    BY <1>1, <1>2, <1>20
  <2>2. work'[j] \in keys
    BY <1>2, <1>3, <2>1
  <2>3. work'[j] \in ToSet(work') \ seen'
    BY <1>2, <1>20, <2>2
  <2>4. \A k \in DOMAIN work' : work'[k] \in DOMAIN level \cup keys
    BY <1>2, <1>11 DEF ToSet
  <2>5. CASE work'[j] \in keys \ DOMAIN level
    <3>1. level'[work'[j]] = d + 1
      BY <1>4, <2>5
    <3>2. CASE work'[i] \in DOMAIN level
      BY <1>4, <1>14, <2>2, <3>1, <3>2
    <3>3. CASE work'[i] \in keys \ DOMAIN level
      BY <1>0, <1>4, <3>1, <3>3
    <3> QED
      BY <2>4, <3>2, <3>3
  <2>6. CASE work'[j] \in ToSet(Rest)
    <3>1. PICK k \in 1..r : work'[k] = work'[j]
      BY <1>12, <2>6
    <3>2. k \in DOMAIN work'
      BY <1>1, <1>2
    <3>3. CASE k < i
      BY <3>1, <3>2, <3>3
    <3>4. CASE k = i
      <4>1. level'[work'[j]] \in Nat
        BY <1>4, <1>9, <1>11, <2>6
      <4> QED
        BY <3>1, <3>4, <4>1
    <3>5. CASE k > i
      <4>1. i \in 1..r /\ i < k
        BY <1>1, <1>2, <1>20, <3>5
      <4> QED
        <5>1. \/ work'[k] \in seen'
              \/ level'[work'[i]] <= level'[work'[k]]
              \/ \E l \in DOMAIN work' : l < i /\ work'[l] = work'[k]
          BY <1>19, <4>1
        <5> QED
          BY <1>20, <3>1, <5>1
    <3>6. i \in Nat /\ k \in Nat
      BY <1>1, <1>2
    <3> QED
      BY <3>3, <3>4, <3>5, <3>6
  <2> QED
    BY <1>16, <2>3, <2>5, <2>6
<1>21. OrderInv'
  <2>1. ASSUME NEW i \in DOMAIN work', NEW j \in DOMAIN work', i < j
        PROVE  \/ work'[j] \in seen'
               \/ level'[work'[i]] <= level'[work'[j]]
               \/ \E k \in DOMAIN work' : k < i /\ work'[k] = work'[j]
    <3>1. CASE j \in 1..r
      <4>1. i \in 1..r
        BY <1>1, <1>2, <2>1, <3>1
      <4> QED
        BY <1>19, <2>1, <3>1, <4>1
    <3>2. CASE j \notin 1..r
      BY <1>20, <2>1, <3>2
    <3> QED
      BY <3>1, <3>2
  <2> QED
    BY <1>18, <2>1 DEF OrderInv
<1> QED
  BY <1>17, <1>21 DEF WaveInv

\* The same, when the levels are emplaced.
LEMMA Emplacing ==
    ASSUME NEW keys, level' = Emplaced(level, keys, level[First] + 1)
    PROVE  /\ DOMAIN level' = DOMAIN level \cup keys
           /\ \A n \in DOMAIN level : level'[n] = level[n]
           /\ \A n \in keys \ DOMAIN level : level'[n] = level[First] + 1
<1> DEFINE v == level[First] + 1
<1>1. level' = Emplaced(level, keys, v)
  OBVIOUS
<1> HIDE DEF v
<1>2. /\ DOMAIN Emplaced(level, keys, v) = DOMAIN level \cup keys
      /\ \A n \in DOMAIN level : Emplaced(level, keys, v)[n] = level[n]
      /\ \A n \in keys \ DOMAIN level : Emplaced(level, keys, v)[n] = v
  BY EmplacedMap, Zenon
<1> QED
  BY <1>1, <1>2 DEF v

\* The two ways to pass over a node.
LEMMA Passing ==
    ASSUME SearchType, PassVisited \/ PassDeep
    PROVE  /\ work' = Rest /\ Rest = Rest \o <<>> /\ seen' = seen \cup {First}
           /\ UNCHANGED <<asked, stage, level, trace, found, result>>
           /\ PassVisited => First \in seen /\ seen' = seen
           /\ PassDeep => First \notin seen /\ TooDeep(First)
<1>1. work # <<>>
  BY QueueSteps
<1>2. Rest \in Seq(Node)
  BY <1>1, Taken
<1>3. Rest = Rest \o <<>>
  BY <1>2
<1>4. PassVisited => /\ work' = Rest /\ First \in seen /\ seen' = seen
                     /\ UNCHANGED <<asked, stage, level, trace, found, result>>
  BY Zenon DEF PassVisited
<1>5. PassDeep => /\ work' = Rest /\ First \notin seen /\ TooDeep(First) /\ seen' = seen \cup {First}
                  /\ UNCHANGED <<asked, stage, level, trace, found, result>>
  BY Zenon DEF PassDeep, Visit
<1>6. ~(PassVisited /\ PassDeep)
  BY <1>4, <1>5, Zenon
<1>7. First \in seen => seen = seen \cup {First}
  OBVIOUS
<1> QED
  BY <1>3, <1>4, <1>5, <1>6, <1>7

LEMMA WaveNext ==
    ASSUME SearchType, WaveInv, [SearchNext]_searchVars
    PROVE  WaveInv'
<1> SUFFICES ASSUME Levelled' PROVE WaveInv'
  BY DEF WaveInv
<1>0. SearchType'
  BY SearchTypeStep
<1>1. CASE Idle
  <2>1. UNCHANGED <<asked, work, seen, level>>
    BY <1>1 DEF Idle
  <2>2. UNCHANGED query /\ Ahead' = Ahead
    BY <2>1, Unchanged DEF Ahead
  <2>3. Near(Ahead)' = Near(Ahead)
    BY <2>2 DEF Near
  <2>4. LevelInv /\ OrderInv
    BY <2>2 DEF WaveInv, Levelled
  <2> QED
    BY <2>1, <2>2, <2>3, <2>4 DEF WaveInv, LevelInv, OrderInv
<1>2. CASE PopLast
  <2>1. query.search \in Stacked /\ UNCHANGED query
    BY <1>2, StackSteps, Unchanged
  <2> QED
    BY <2>1 DEF Stacked, Levelled
<1>3. ASSUME PassVisited \/ PassDeep \/ ExpandSinks \/ ExpandChain \/ ExpandRoute
      PROVE  UNCHANGED asked /\ work # <<>> /\ Levelled /\ UNCHANGED query
  <2>1. UNCHANGED asked /\ work # <<>>
    BY <1>3, QueueSteps
  <2>2. UNCHANGED query
    BY <2>1, Unchanged
  <2> QED
    BY <2>1, <2>2 DEF Levelled
<1>4. CASE PassVisited \/ PassDeep
  <2>1. /\ work' = Rest \o <<>> /\ seen' = seen \cup {First} /\ level' = level
    BY <1>4, Passing
  <2>2. <<>> \in Seq(Node) /\ ToSet(<<>>) = {}
    BY DEF ToSet
  <2>3. /\ ToSet(<<>>) \subseteq Ahead[First] /\ DOMAIN level' = DOMAIN level \cup ToSet(<<>>)
        /\ \A n \in DOMAIN level : level'[n] = level[n]
        /\ \A n \in ToSet(<<>>) \ DOMAIN level : level'[n] = level[First] + 1
    BY <2>1, <2>2
  <2>4. UNCHANGED asked /\ work # <<>> /\ Levelled
    BY <1>3, <1>4
  <2> QED
    BY <1>0, <2>1, <2>2, <2>3, <2>4, WaveStep
<1>5. CASE ExpandSinks
  <2>1. UNCHANGED asked /\ work # <<>> /\ Levelled
    BY <1>3, <1>5
  <2>2. /\ query.search = "find_sinks" /\ First \notin seen
        /\ work' = Rest \o Sinks(First) /\ seen' = seen \cup {First}
        /\ level' = Emplaced(level, ToSet(Sinks(First)), level[First] + 1)
    <3>1. /\ query.search \in {"find_sinks"} /\ First \notin seen
          /\ work' = Rest \o Sinks(First) /\ seen' = seen \cup {First}
          /\ level' = Emplaced(level, ToSet(Sinks(First)), level[First] + 1)
      BY <1>5, Zenon DEF ExpandSinks, Dequeue, Searching, Visit
    <3> QED
      BY <3>1
  <2>3. Sinks(First) \in Seq(Node) /\ ToSet(Sinks(First)) \subseteq Ahead[First]
    BY <2>1, <2>2, Taken, Pushes DEF Ahead, SearchType
  <2>4. /\ DOMAIN level' = DOMAIN level \cup ToSet(Sinks(First))
        /\ \A n \in DOMAIN level : level'[n] = level[n]
        /\ \A n \in ToSet(Sinks(First)) \ DOMAIN level : level'[n] = level[First] + 1
    BY <2>2, Emplacing
  <2> QED
    BY <1>0, <2>1, <2>2, <2>3, <2>4, WaveStep
<1>6. CASE ExpandChain
  <2>1. query.search \in {"chain"}
    BY <1>6, Zenon DEF ExpandChain, Dequeue, Searching
  <2> QED
    BY <1>3, <1>6, <2>1 DEF Levelled
<1>7. CASE ExpandRoute
  <2>1. UNCHANGED asked /\ work # <<>> /\ Levelled
    BY <1>3, <1>7
  <2>2. /\ query.search = "route" /\ First \notin seen
        /\ work' = Rest \o Followed(First) /\ seen' = seen \cup {First}
        /\ level' = Emplaced(level, ToSet(Followed(First)), level[First] + 1)
    <3>1. /\ query.search \in {"route"} /\ First \notin seen
          /\ work' = Rest \o Followed(First) /\ seen' = seen \cup {First}
          /\ level' = Emplaced(level, ToSet(Followed(First)), level[First] + 1)
      BY <1>7, Zenon DEF ExpandRoute, Dequeue, Searching, Visit
    <3> QED
      BY <3>1
  <2>3. Followed(First) \in Seq(Node) /\ ToSet(Followed(First)) \subseteq Ahead[First]
    BY <2>1, <2>2, Taken, Pushes DEF Ahead, SearchType
  <2>4. /\ DOMAIN level' = DOMAIN level \cup ToSet(Followed(First))
        /\ \A n \in DOMAIN level : level'[n] = level[n]
        /\ \A n \in ToSet(Followed(First)) \ DOMAIN level : level'[n] = level[First] + 1
    BY <2>2, Emplacing
  <2> QED
    BY <1>0, <2>1, <2>2, <2>3, <2>4, WaveStep
<1> QED
  BY <1>1, <1>2, <1>4, <1>5, <1>6, <1>7, Steps

\* Every node that n leads to has been queued, at the level behind that of n at most.
Widened(n) == \A m \in Ahead[n] : m \in DOMAIN level /\ level[m] <= level[n] + 1

\* When a node is taken out and all it leads to is queued, or when it is too deep for
\* that, the nodes within the depth stay widened.
LEMMA WidenedStep ==
    ASSUME SearchType, Levelled, WaveInv, UNCHANGED asked, work # <<>>,
           NEW keys, DOMAIN level' = DOMAIN level \cup keys,
           \A n \in DOMAIN level : level'[n] = level[n],
           \A n \in keys \ DOMAIN level : level'[n] = level[First] + 1
    PROVE  /\ \A n \in DOMAIN level : TooDeep(n)' = TooDeep(n) /\ (Widened(n) => Widened(n)')
           /\ \A n : n = First /\ n \notin seen /\ keys = Ahead[n] => Widened(n)'
<1>1. UNCHANGED query /\ Ahead' = Ahead
  BY Unchanged DEF Ahead
<1>2. /\ First \in DOMAIN level /\ First \in ToSet(work) /\ level[First] \in Nat
      /\ \A n \in DOMAIN level : level[n] \in Nat
  BY Taken DEF SearchType
<1>3. ASSUME NEW n \in DOMAIN level
      PROVE  TooDeep(n)' = TooDeep(n) /\ (Widened(n) => Widened(n)')
  BY <1>1 DEF TooDeep, Widened
<1>4. ASSUME NEW n, n = First, n \notin seen, keys = Ahead[n] PROVE Widened(n)'
  <2>1. \A m \in DOMAIN level : level[m] <= level[n] + 1
    BY <1>2, <1>4 DEF WaveInv, OrderInv
  <2>2. level'[n] = level[n]
    BY <1>2, <1>4
  <2>3. ASSUME NEW m \in keys PROVE m \in DOMAIN level' /\ level'[m] <= level[n] + 1
    <3>1. CASE m \in DOMAIN level
      BY <2>1, <3>1
    <3>2. CASE m \notin DOMAIN level
      BY <1>2, <1>4, <3>2
    <3> QED
      BY <3>1, <3>2
  <2> QED
    BY <1>1, <1>4, <2>2, <2>3 DEF Widened
<1> QED
  BY <1>3, <1>4

\* A search that ends with an empty queue has met what is within the depth, and nothing
\* else: the level of a node is its distance.
LEMMA Drained ==
    ASSUME SearchType, Levelled, WaveInv, work = <<>>,
           \A n \in seen : ~TooDeep(n) => Widened(n)
    PROVE  /\ DOMAIN level = seen
           /\ \A d \in Nat : query.depth = 0 \/ d <= query.depth =>
                 Near(Ahead)[d] = {n \in seen : level[n] <= d}
           /\ InDepth(Ahead) = {n \in seen : ~TooDeep(n)}
<1>1. Ahead \in Graph /\ AskedType
  BY Graphs DEF Ahead, SearchType
<1>2. /\ Near(Ahead) \in [Nat -> SUBSET Node] /\ Near(Ahead)[0] = {query.from}
      /\ \A d \in Nat : Near(Ahead)[d + 1] = Near(Ahead)[d] \cup UNION {Ahead[n] : n \in Near(Ahead)[d]}
  BY <1>1, NearSteps DEF AskedType
<1>3. /\ DOMAIN level = seen /\ query.from \in seen /\ level[query.from] = 0
      /\ \A n \in seen : level[n] \in Nat /\ n \in Near(Ahead)[level[n]]
  <2>1. ToSet(work) = {}
    BY DEF ToSet
  <2> QED
    BY <2>1 DEF WaveInv, LevelInv, SearchType
<1>4. query.depth \in Nat
  BY <1>1 DEF AskedType
<1> DEFINE Met(d) == \A n \in Near(Ahead)[d] : n \in seen /\ level[n] <= d
           T == {d \in Nat : query.depth = 0 \/ d <= query.depth => Met(d)}
<1>5. 0 \in T
  BY <1>2, <1>3
<1>6. ASSUME NEW d \in Nat, d \in T PROVE d + 1 \in T
  <2> SUFFICES ASSUME query.depth = 0 \/ d + 1 <= query.depth, NEW n \in Near(Ahead)[d + 1]
               PROVE  n \in seen /\ level[n] <= d + 1
    OBVIOUS
  <2>1. Met(d)
    BY <1>4, <1>6
  <2>2. CASE n \in Near(Ahead)[d]
    BY <1>3, <2>1, <2>2
  <2>3. CASE n \notin Near(Ahead)[d]
    <3>1. PICK m \in Near(Ahead)[d] : n \in Ahead[m]
      BY <1>2, <2>3
    <3>2. m \in seen /\ level[m] <= d /\ level[m] \in Nat
      BY <1>3, <2>1
    <3>3. ~TooDeep(m)
      BY <1>4, <3>2 DEF TooDeep
    <3>4. n \in DOMAIN level /\ level[n] <= level[m] + 1
      BY <3>1, <3>2, <3>3 DEF Widened
    <3> QED
      BY <1>3, <3>2, <3>4
  <2> QED
    BY <2>2, <2>3
<1> HIDE DEF T
<1>7. Nat \subseteq T
  BY <1>5, <1>6, Upwards
<1>8. ASSUME NEW d \in Nat, query.depth = 0 \/ d <= query.depth
      PROVE  Near(Ahead)[d] = {n \in seen : level[n] <= d}
  <2>1. Near(Ahead)[d] \subseteq {n \in seen : level[n] <= d}
    BY <1>7, <1>8 DEF T
  <2>2. ASSUME NEW n \in seen, level[n] <= d PROVE n \in Near(Ahead)[d]
    BY <1>1, <1>3, <2>2, NearGrows
  <2> QED
    BY <2>1, <2>2
<1>9. InDepth(Ahead) = {n \in seen : ~TooDeep(n)}
  <2>1. CASE query.depth = 0
    <3>1. \A n \in seen : ~TooDeep(n)
      BY <2>1 DEF TooDeep
    <3>2. seen \subseteq Reached(Ahead)
      BY <1>1, <1>3, NearReached
    <3>3. \A n \in seen : Ahead[n] \subseteq seen
      BY <1>3, <3>1 DEF Widened
    <3>4. Reached(Ahead) \subseteq seen
      BY <1>1, <1>3, <3>3, ReachedLeast DEF SearchType
    <3> QED
      BY <2>1, <3>1, <3>2, <3>4 DEF InDepth
  <2>2. CASE query.depth # 0
    <3>1. Near(Ahead)[query.depth] = {n \in seen : level[n] <= query.depth}
      BY <1>4, <1>8
    <3>2. \A n \in seen : level[n] <= query.depth <=> ~TooDeep(n)
      BY <1>3, <1>4, <2>2 DEF TooDeep
    <3> QED
      BY <2>2, <3>1, <3>2 DEF InDepth
  <2> QED
    BY <2>1, <2>2
<1> QED
  BY <1>3, <1>8, <1>9

-------------------------------------------------------------------------------
(* find_sinks.                                                             *)

\* The result is what was marked within the depth, each node once, by level.
SinksInv ==
    query.search = "find_sinks" =>
        /\ ~found /\ (stage # "search" => work = <<>>)
        /\ \A n \in seen : ~TooDeep(n) => Widened(n)
        /\ ToSet(result) = {n \in seen : ~TooDeep(n)}
        /\ \A i, j \in DOMAIN result : i < j =>
              result[i] # result[j] /\ level[result[i]] <= level[result[j]]

LEMMA SinksInit == SearchInit => SinksInv
<1> SUFFICES ASSUME SearchInit, query.search = "find_sinks" PROVE SinksInv
  BY DEF SinksInv
<1>1. ~found /\ stage = "search" /\ result = <<>> /\ seen = {}
  BY DEF SearchInit
<1>2. DOMAIN result = {} /\ ToSet(result) = {}
  BY <1>1 DEF ToSet
<1> QED
  BY <1>1, <1>2 DEF SinksInv

LEMMA SinksStep ==
    ASSUME SearchType, WaveInv, SinksInv, [SearchNext]_searchVars
    PROVE  SinksInv'
<1> SUFFICES ASSUME query.search' = "find_sinks" PROVE SinksInv'
  BY DEF SinksInv
<1>1. CASE Idle
  <2>1. UNCHANGED <<asked, work, seen, level, found, result>>
    BY <1>1 DEF Idle
  <2>2. UNCHANGED query /\ Ahead' = Ahead
    BY <2>1, Unchanged DEF Ahead
  <2>3. \A n : TooDeep(n)' = TooDeep(n) /\ Widened(n)' = Widened(n)
    BY <2>1, <2>2 DEF TooDeep, Widened
  <2>4. query.search = "find_sinks" /\ WithinBound
    BY <2>2 DEF WithinBound, Bounded
  <2>5. stage' # "search" => work = <<>>
    BY <1>1, <2>4 DEF Idle, SinksInv
  <2> QED
    BY <2>1, <2>2, <2>3, <2>4, <2>5 DEF SinksInv
<1>2. CASE PopLast
  <2>1. query.search \in Stacked /\ UNCHANGED query
    BY <1>2, StackSteps, Unchanged
  <2> QED
    BY <2>1 DEF Stacked
<1>3. CASE PassVisited \/ PassDeep \/ ExpandSinks \/ ExpandChain \/ ExpandRoute
  <2>1. UNCHANGED asked /\ work # <<>> /\ ~found /\ stage' = "search"
    BY <1>3, QueueSteps
  <2>2. UNCHANGED query /\ query.search = "find_sinks" /\ Levelled
    BY <2>1, Unchanged DEF Levelled
  <2>3. /\ \A n \in seen : ~TooDeep(n) => Widened(n)
        /\ ToSet(result) = {n \in seen : ~TooDeep(n)}
        /\ \A i, j \in DOMAIN result : i < j =>
              result[i] # result[j] /\ level[result[i]] <= level[result[j]]
    BY <2>2 DEF SinksInv
  <2>4. seen \subseteq DOMAIN level /\ First \in DOMAIN level
    BY <2>1, <2>2, Taken DEF WaveInv, LevelInv
  <2>5. result \in Seq(Node)
    BY DEF SearchType
  <2>6. CASE PassVisited \/ PassDeep
    <3>1. /\ UNCHANGED <<level, found, result>> /\ seen' = seen \cup {First}
          /\ PassVisited => seen' = seen
          /\ PassDeep => TooDeep(First)
      BY <2>6, Passing
    <3>2. \A n : TooDeep(n)' = (query.depth > 0 /\ level[n] > query.depth)
      BY <2>2, <3>1 DEF TooDeep
    <3>3. Ahead' = Ahead
      BY <2>1, Unchanged DEF Ahead
    <3>4. \A n : TooDeep(n)' = TooDeep(n) /\ Widened(n)' = Widened(n)
      BY <2>2, <3>1, <3>2, <3>3 DEF TooDeep, Widened
    <3>5. \A n \in seen' : n \in seen \/ TooDeep(n)
      BY <2>6, <3>1
    <3>6. seen \subseteq seen'
      BY <3>1
    <3> QED
      BY <2>1, <2>3, <3>1, <3>4, <3>5, <3>6 DEF SinksInv
  <2>7. CASE ExpandSinks
    <3>1. /\ First \notin seen /\ ~TooDeep(First) /\ seen' = seen \cup {First}
          /\ level' = Emplaced(level, ToSet(Sinks(First)), level[First] + 1)
          /\ result' = Append(result, First) /\ UNCHANGED found
      BY <2>7, Zenon DEF ExpandSinks, Dequeue, Searching, Visit
    <3>2. ToSet(Sinks(First)) = Ahead[First]
      BY <2>1, <2>2, Taken, Pushes DEF Ahead, SearchType
    <3>3. /\ DOMAIN level' = DOMAIN level \cup ToSet(Sinks(First))
          /\ \A n \in DOMAIN level : level'[n] = level[n]
          /\ \A n \in ToSet(Sinks(First)) \ DOMAIN level : level'[n] = level[First] + 1
      BY <3>1, Emplacing
    <3>4. PICK h \in DOMAIN level : h = First
      BY <2>4
    <3>5. /\ \A n \in DOMAIN level : TooDeep(n)' = TooDeep(n) /\ (Widened(n) => Widened(n)')
          /\ Widened(h)'
      BY <2>1, <2>2, <3>1, <3>2, <3>3, <3>4, WidenedStep
    <3>6. seen' = seen \cup {h} /\ result' = Append(result, h) /\ h \notin seen /\ ~TooDeep(h) /\ h \in ToSet(work)
      BY <2>1, <3>1, <3>4, Taken
    <3>7. \A n \in seen' : ~TooDeep(n)' => Widened(n)'
      BY <2>3, <2>4, <3>5, <3>6
    <3>8. /\ Len(result) \in Nat /\ DOMAIN result = 1..Len(result)
          /\ DOMAIN result' = 1..(Len(result) + 1) /\ result'[Len(result) + 1] = h
          /\ \A i \in DOMAIN result : result'[i] = result[i]
      BY <2>5, <3>6
    <3>9. ToSet(result') = ToSet(result) \cup {h}
      <4>1. 1..(Len(result) + 1) = 1..Len(result) \cup {Len(result) + 1}
        BY <3>8
      <4> QED
        BY <3>8, <4>1 DEF ToSet
    <3>10. ToSet(result') = {n \in seen' : ~TooDeep(n)'}
      BY <2>3, <2>4, <3>5, <3>6, <3>9
    <3>11. \A i \in DOMAIN result : result[i] \in seen
      BY <2>3 DEF ToSet
    <3>12. \A n \in seen : level[n] <= level[h]
      BY <2>2, <3>6 DEF WaveInv, OrderInv
    <3>13. ASSUME NEW i \in DOMAIN result', NEW j \in DOMAIN result', i < j
           PROVE  result'[i] # result'[j] /\ level'[result'[i]] <= level'[result'[j]]
      <4>1. i \in DOMAIN result /\ (j \in DOMAIN result \/ j = Len(result) + 1)
        BY <3>8, <3>13
      <4>2. result[i] \in seen /\ result'[i] = result[i] /\ level'[result[i]] = level[result[i]]
        BY <2>4, <3>3, <3>8, <3>11, <4>1
      <4>3. CASE j \in DOMAIN result
        BY <2>3, <2>4, <3>3, <3>8, <3>11, <3>13, <4>1, <4>2, <4>3
      <4>4. CASE j = Len(result) + 1
        BY <3>3, <3>6, <3>8, <3>12, <4>2, <4>4
      <4> QED
        BY <4>1, <4>3, <4>4
    <3> QED
      BY <2>1, <3>1, <3>7, <3>10, <3>13, Zenon DEF SinksInv
  <2>8. ExpandChain => query.search \in {"chain"}
    BY Zenon DEF ExpandChain, Dequeue, Searching
  <2>9. ExpandRoute => query.search \in {"route"}
    BY Zenon DEF ExpandRoute, Dequeue, Searching
  <2> QED
    BY <1>3, <2>2, <2>6, <2>7, <2>8, <2>9
<1> QED
  BY <1>1, <1>2, <1>3, Steps

\* find_sinks, when it is done.
LEMMA SinksAnswer == SearchType /\ WaveInv /\ SinksInv => SinksNearestFirst
<1> SUFFICES ASSUME SearchType, WaveInv, SinksInv, Done("find_sinks") PROVE SinksNearestFirst
  BY DEF SinksNearestFirst
<1>1. query.search = "find_sinks" /\ stage # "search" /\ Levelled
  BY DEF Done, Levelled
<1>2. Ahead = Along(DataEdges) /\ Ahead \in Graph /\ AskedType
  BY <1>1, Graphs DEF Ahead, Data, SearchType
<1>3. /\ work = <<>>
      /\ \A n \in seen : ~TooDeep(n) => Widened(n)
      /\ ToSet(result) = {n \in seen : ~TooDeep(n)}
      /\ \A i, j \in DOMAIN result : i < j =>
            result[i] # result[j] /\ level[result[i]] <= level[result[j]]
  BY <1>1 DEF SinksInv
<1>4. /\ DOMAIN level = seen
      /\ \A d \in Nat : query.depth = 0 \/ d <= query.depth => Near(Ahead)[d] = {n \in seen : level[n] <= d}
      /\ InDepth(Ahead) = {n \in seen : ~TooDeep(n)}
  BY <1>1, <1>3, Drained
<1>5. query.depth \in Nat /\ \A n \in seen : level[n] \in Nat
  BY <1>2, <1>4 DEF AskedType, SearchType
<1>6. ASSUME NEW i \in DOMAIN result, NEW j \in DOMAIN result, i < j,
             NEW d \in Nat, result[j] \in Near(Ahead)[d]
      PROVE  result[i] \in Near(Ahead)[d]
  <2>1. /\ result[i] \in seen /\ result[j] \in seen /\ ~TooDeep(result[i])
        /\ level[result[i]] <= level[result[j]]
    BY <1>3, <1>6 DEF ToSet
  <2>2. CASE query.depth = 0 \/ d <= query.depth
    <3>1. Near(Ahead)[d] = {n \in seen : level[n] <= d}
      BY <1>4, <2>2
    <3> QED
      BY <1>5, <1>6, <2>1, <3>1
  <2>3. CASE ~(query.depth = 0 \/ d <= query.depth)
    <3>1. level[result[i]] <= query.depth
      BY <1>5, <2>1, <2>3 DEF TooDeep
    <3>2. result[i] \in Near(Ahead)[query.depth]
      BY <1>4, <1>5, <2>1, <3>1
    <3> QED
      BY <1>2, <1>5, <2>3, <3>2, NearGrows
  <2> QED
    BY <2>2, <2>3
<1>7. \A d \in 0..Cardinality(Node) : d \in Nat
  BY NodeAssumption, FS_CardinalityType
<1>8. ToSet(result) = InDepth(Along(DataEdges))
  BY <1>2, <1>3, <1>4
<1> QED
  BY <1>2, <1>3, <1>6, <1>7, <1>8 DEF SinksNearestFirst

-------------------------------------------------------------------------------
(* route and is_pipelined.                                                 *)

\* The target is met once it is traced, and until then no node that was looked at leads
\* to it; every trace is along an edge from where route stood.
RouteInv ==
    query.search = "route" =>
        /\ ~found => \A n \in seen : ~TooDeep(n) => Between(n, query.to) = {} /\ Widened(n)
        /\ ~found /\ stage # "search" => work = <<>>
        /\ found <=> query.to \in DOMAIN trace
        /\ DOMAIN level \subseteq DOMAIN trace \cup {query.from}
        /\ \A m \in DOMAIN trace : /\ Between(trace[m], m) # {}
                                   /\ trace[m] \in seen /\ ~TooDeep(trace[m])

\* The path leads from behind at to the target, along the trace.
TraceInv ==
    /\ stage # "failed"
    /\ stage = "trace" => query.search = "route"
    /\ query.search = "route" =>
          /\ stage = "search" \/ query.to \notin DOMAIN trace => path = <<>>
          /\ stage = "done" /\ query.to \in DOMAIN trace => at = query.from
          /\ stage = "trace" => query.to \in DOMAIN trace /\ at \in DOMAIN trace \cup {query.from}
          /\ path = <<>> => at = query.to
          /\ path # <<>> => path[Len(path)] = query.to /\ path[1] \in DOMAIN trace /\ trace[path[1]] = at
          /\ \A i \in DOMAIN path : /\ path[i] \in DOMAIN trace \ {query.from}
                                    /\ i > 1 => trace[path[i]] = path[i - 1]

LEMMA RouteInit == SearchInit => RouteInv /\ TraceInv
<1> SUFFICES ASSUME SearchInit PROVE RouteInv /\ TraceInv
  OBVIOUS
<1>1. /\ seen = {} /\ level = [n \in {query.from} |-> 0]
      /\ trace = <<>> /\ path = <<>> /\ at = query.to
      /\ query.search = "route" => ~found /\ stage = "search"
      /\ stage \in {"search", "done"}
  BY DEF SearchInit
<1>2. DOMAIN trace = {} /\ DOMAIN path = {} /\ DOMAIN level = {query.from}
  BY <1>1
<1>3. RouteInv
  BY <1>1, <1>2 DEF RouteInv
<1>4. TraceInv
  BY <1>1, <1>2 DEF TraceInv
<1> QED
  BY <1>3, <1>4

\* The loop over the edges of a node looks at one to the target if there is one, and
\* then at no other behind it.
LEMMA Looking ==
    ASSUME AskedType, NEW n \in Node
    PROVE  /\ \A m : m \in {out[n][i].to : i \in Looked(n)} => Between(n, m) # {}
           /\ query.to \in {out[n][i].to : i \in Looked(n)} <=> Between(n, query.to) # {}
           /\ ToSet(Followed(n)) \subseteq {out[n][i].to : i \in Looked(n)}
<1>0. out[n] \in Seq(EdgeTo) /\ DOMAIN out[n] = 1..Len(out[n]) /\ Len(out[n]) \in Nat
  BY Edges
<1>1. \A i \in Looked(n) : i \in DOMAIN out[n]
  BY DEF Looked
<1>2. ASSUME NEW i \in Looked(n) PROVE Between(n, out[n][i].to) # {}
  BY <1>1 DEF Between
<1>3. ASSUME Between(n, query.to) # {} PROVE query.to \in {out[n][i].to : i \in Looked(n)}
  <2>1. Between(n, query.to) \in SUBSET Nat
    BY <1>0 DEF Between
  <2>2. PICK i \in Between(n, query.to) : \A j \in Between(n, query.to) : i <= j
    BY <1>3, <2>1, Smallest
  <2>3. i \in Looked(n) /\ out[n][i].to = query.to
    BY <2>2 DEF Looked, Between
  <2> QED
    BY <2>3
<1>4. ToSet(Followed(n)) \subseteq {out[n][i].to : i \in Looked(n)}
  <2> DEFINE places == {i \in Looked(n) : out[n][i].to # query.to /\ Allowed(out[n][i])}
  <2>1. Followed(n) = Targets(out[n], places)
    BY DEF Followed
  <2> HIDE DEF places
  <2>2. ToSet(Followed(n)) = {out[n][i].to : i \in DOMAIN out[n] \cap places}
    BY <1>0, <2>1, TargetsChosen
  <2> QED
    BY <2>2 DEF places
<1> QED
  BY <1>2, <1>3, <1>4

LEMMA RouteStep ==
    ASSUME SearchType, WaveInv, RouteInv, [SearchNext]_searchVars
    PROVE  RouteInv'
<1> SUFFICES ASSUME query.search' = "route" PROVE RouteInv'
  BY DEF RouteInv
<1>1. CASE Idle
  <2>1. UNCHANGED <<asked, work, seen, level, trace, found>>
    BY <1>1 DEF Idle
  <2>2. UNCHANGED <<query, out>> /\ Ahead' = Ahead
    BY <2>1, Unchanged DEF Ahead
  <2>3. \A m, n : TooDeep(n)' = TooDeep(n) /\ Widened(n)' = Widened(n) /\ Between(m, n)' = Between(m, n)
    BY <2>1, <2>2 DEF TooDeep, Widened, Between
  <2>4. query.search = "route" /\ WithinBound
    BY <2>2 DEF WithinBound, Bounded
  <2>5. ~found /\ stage' # "search" => work = <<>>
    BY <1>1, <2>4 DEF Idle, RouteInv
  <2>6. /\ \A n : Between(n, query.to)' = Between(n, query.to)
        /\ \A m : Between(trace[m], m)' = Between(trace[m], m)
        /\ \A m : TooDeep(trace[m])' = TooDeep(trace[m])
    BY <2>1, <2>2 DEF TooDeep, Between
  <2> QED
    BY <2>1, <2>2, <2>3, <2>4, <2>5, <2>6 DEF RouteInv
<1>2. CASE PopLast
  <2>1. query.search \in Stacked /\ UNCHANGED query
    BY <1>2, StackSteps, Unchanged
  <2> QED
    BY <2>1 DEF Stacked
<1>3. CASE PassVisited \/ PassDeep \/ ExpandSinks \/ ExpandChain \/ ExpandRoute
  <2>1. UNCHANGED asked /\ work # <<>> /\ ~found /\ stage' = "search"
    BY <1>3, QueueSteps
  <2>2. UNCHANGED <<query, out>> /\ query.search = "route" /\ Levelled
    BY <2>1, Unchanged DEF Levelled
  <2>3. /\ \A n \in seen : ~TooDeep(n) => Between(n, query.to) = {} /\ Widened(n)
        /\ query.to \notin DOMAIN trace
        /\ DOMAIN level \subseteq DOMAIN trace \cup {query.from}
        /\ \A m \in DOMAIN trace : /\ Between(trace[m], m) # {}
                                   /\ trace[m] \in seen /\ ~TooDeep(trace[m])
    BY <2>1, <2>2 DEF RouteInv
  <2>4. seen \subseteq DOMAIN level
    BY <2>2 DEF WaveInv, LevelInv
  <2>5. PICK h \in DOMAIN level : h = First /\ h \in Node
    BY <2>1, <2>2, Taken
  <2>6. CASE PassVisited \/ PassDeep
    <3>1. /\ UNCHANGED <<level, found, trace>> /\ seen' = seen \cup {h}
          /\ PassVisited => seen' = seen
          /\ PassDeep => TooDeep(h)
      BY <2>5, <2>6, Passing
    <3>2. Ahead' = Ahead
      BY <2>1, Unchanged DEF Ahead
    <3>3. /\ \A n : TooDeep(n)' = TooDeep(n) /\ Widened(n)' = Widened(n)
          /\ \A n : Between(n, query.to)' = Between(n, query.to)
          /\ \A m : Between(trace[m], m)' = Between(trace[m], m) /\ TooDeep(trace[m])' = TooDeep(trace[m])
      BY <2>2, <3>1, <3>2 DEF TooDeep, Widened, Between
    <3>4. \A n \in seen' : n \in seen \/ TooDeep(n)
      BY <2>6, <3>1
    <3>5. seen \subseteq seen'
      BY <3>1
    <3> QED
      BY <2>1, <2>2, <2>3, <3>1, <3>3, <3>4, <3>5 DEF RouteInv
  <2>7. CASE ExpandRoute
    <3> DEFINE keys == {out[h][i].to : i \in Looked(h)}
               new == ToSet(Followed(h))
    <3>1. /\ First \notin seen /\ ~TooDeep(First) /\ seen' = seen \cup {First}
          /\ level' = Emplaced(level, ToSet(Followed(First)), level[First] + 1)
          /\ trace' = Traced(First) /\ found' = (Between(First, query.to) # {})
      BY <2>7, Zenon DEF ExpandRoute, Dequeue, Searching, Visit
    <3>2. /\ h \notin seen /\ ~TooDeep(h) /\ seen' = seen \cup {h}
          /\ trace' = Emplaced(trace, keys, h)
          /\ found' <=> Between(h, query.to) # {}
      BY <2>5, <3>1 DEF Traced
    <3>3. /\ DOMAIN level' = DOMAIN level \cup new
          /\ \A n \in DOMAIN level : level'[n] = level[n]
          /\ \A n \in new \ DOMAIN level : level'[n] = level[First] + 1
      BY <2>5, <3>1, Emplacing
    <3>4. /\ \A m \in keys : Between(h, m) # {}
          /\ query.to \in keys <=> Between(h, query.to) # {}
          /\ new \subseteq keys
      BY <2>5, Looking DEF SearchType
    <3>5. Between(h, query.to) = {} => new = Ahead[h]
      BY <2>2, <2>5, Pushes DEF SearchType, Ahead
    <3> HIDE DEF keys, new
    <3>6. /\ \A n \in DOMAIN level : TooDeep(n)' = TooDeep(n) /\ (Widened(n) => Widened(n)')
          /\ Between(h, query.to) = {} => Widened(h)'
      BY <2>1, <2>2, <2>5, <3>2, <3>3, <3>5, WidenedStep
    <3>7. /\ DOMAIN trace' = DOMAIN trace \cup keys
          /\ \A m \in DOMAIN trace : trace'[m] = trace[m]
          /\ \A m \in keys \ DOMAIN trace : trace'[m] = h
      <4>1. /\ DOMAIN Emplaced(trace, keys, h) = DOMAIN trace \cup keys
            /\ \A m \in DOMAIN trace : Emplaced(trace, keys, h)[m] = trace[m]
            /\ \A m \in keys \ DOMAIN trace : Emplaced(trace, keys, h)[m] = h
        BY EmplacedMap, Zenon
      <4> QED
        BY <3>2, <4>1
    <3>8. \A m, n : Between(m, n)' = Between(m, n)
      BY <2>2 DEF Between
    <3>9. found' <=> query.to \in DOMAIN trace'
      BY <2>3, <3>2, <3>4, <3>7
    <3>10. DOMAIN level' \subseteq DOMAIN trace' \cup {query.from}
      BY <2>3, <3>3, <3>4, <3>7
    <3>11. ASSUME NEW m \in DOMAIN trace'
           PROVE  /\ Between(trace'[m], m) # {}
                  /\ trace'[m] \in seen' /\ ~TooDeep(trace[m])'
      <4>1. CASE m \in DOMAIN trace
        <5>1. trace'[m] = trace[m] /\ trace[m] \in seen /\ trace[m] \in DOMAIN level
          BY <2>3, <2>4, <3>7, <4>1
        <5>2. PICK b \in DOMAIN level : b = trace[m] /\ b = trace'[m]
          BY <5>1
        <5>3. ~TooDeep(b)'
          BY <2>3, <3>6, <4>1, <5>2
        <5>4. ~TooDeep(trace[m])'
          BY <5>2, <5>3 DEF TooDeep
        <5> QED
          BY <2>3, <3>2, <4>1, <5>1, <5>4
      <4>2. CASE m \in keys \ DOMAIN trace
        <5>1. trace'[m] = h /\ Between(h, m) # {} /\ h \in seen' /\ ~TooDeep(h)'
          BY <2>5, <3>2, <3>4, <3>6, <3>7, <4>2
        <5>2. ~TooDeep(trace[m])'
          BY <5>1 DEF TooDeep
        <5> QED
          BY <5>1, <5>2
      <4> QED
        BY <3>7, <3>11, <4>1, <4>2
    <3>12. ASSUME ~found', NEW n \in seen', ~TooDeep(n)'
           PROVE  Between(n, query.to) = {} /\ Widened(n)'
      BY <2>3, <2>4, <3>2, <3>6, <3>12
    <3>13. /\ \A n : Between(n, query.to)' = Between(n, query.to)
           /\ \A m : Between(trace[m], m)' = Between(trace'[m], m)
      BY <2>2 DEF Between
    <3> QED
      BY <2>1, <2>2, <3>9, <3>10, <3>11, <3>12, <3>13 DEF RouteInv
  <2>8. ExpandChain => query.search \in {"chain"}
    BY Zenon DEF ExpandChain, Dequeue, Searching
  <2>9. ExpandSinks => query.search \in {"find_sinks"}
    BY Zenon DEF ExpandSinks, Dequeue, Searching
  <2> QED
    BY <1>3, <2>2, <2>6, <2>7, <2>8, <2>9
<1> QED
  BY <1>1, <1>2, <1>3, Steps

\* The steps that are not about the trace leave the path alone.
LEMMA Elsewhere ==
    ASSUME PopLast \/ PassVisited \/ PassDeep \/ ExpandSinks \/ ExpandChain \/ ExpandRoute
    PROVE  UNCHANGED <<query, stage, at, path>> /\ stage = "search"
<1>1. PopLast => UNCHANGED <<query, stage, at, path>> /\ stage = "search"
  BY DEF PopLast, asked, Searching
<1>2. PassVisited => UNCHANGED <<query, stage, at, path>> /\ stage = "search"
  BY DEF PassVisited, asked, Dequeue, Searching
<1>3. PassDeep => UNCHANGED <<query, stage, at, path>> /\ stage = "search"
  BY DEF PassDeep, asked, Dequeue, Searching
<1>4. ExpandSinks => UNCHANGED <<query, stage, at, path>> /\ stage = "search"
  BY DEF ExpandSinks, asked, Dequeue, Searching
<1>5. ExpandChain => UNCHANGED <<query, stage, at, path>> /\ stage = "search"
  BY DEF ExpandChain, asked, Dequeue, Searching
<1>6. ExpandRoute => UNCHANGED <<query, stage, at, path>> /\ stage = "search"
  BY DEF ExpandRoute, asked, Dequeue, Searching
<1> QED
  BY <1>1, <1>2, <1>3, <1>4, <1>5, <1>6

\* One node more in front of a path.
LEMMA Longer ==
    ASSUME NEW S, NEW p \in Seq(S), NEW a \in S
    PROVE  /\ Len(<<a>> \o p) = Len(p) + 1 /\ DOMAIN (<<a>> \o p) = 1..(Len(p) + 1)
           /\ DOMAIN p = 1..Len(p) /\ Len(p) \in Nat /\ <<a>> \o p # <<>>
           /\ (<<a>> \o p)[1] = a
           /\ \A i \in 1..Len(p) : (<<a>> \o p)[i + 1] = p[i]
<1>1. <<a>> \in Seq(S) /\ Len(<<a>>) = 1 /\ <<a>>[1] = a /\ Len(p) \in Nat
  OBVIOUS
<1>2. /\ <<a>> \o p \in Seq(S) /\ Len(<<a>> \o p) = 1 + Len(p)
      /\ DOMAIN (<<a>> \o p) = 1..(1 + Len(p)) /\ DOMAIN p = 1..Len(p)
      /\ (<<a>> \o p)[1] = a
      /\ \A i \in 1..Len(p) : (<<a>> \o p)[1 + i] = p[i]
  BY <1>1, Joined
<1>3. <<a>> \o p # <<>>
  BY <1>1, <1>2
<1> QED
  BY <1>1, <1>2, <1>3

LEMMA TraceStep ==
    ASSUME SearchType, WaveInv, RouteInv, TraceInv, [SearchNext]_searchVars
    PROVE  TraceInv'
<1>0. path \in Seq(Node) /\ at \in Node
  BY DEF SearchType
<1>1. CASE PopLast \/ PassVisited \/ PassDeep \/ ExpandSinks \/ ExpandChain \/ ExpandRoute
  <2>1. UNCHANGED <<query, stage, at, path>> /\ stage = "search"
    BY <1>1, Elsewhere
  <2>2. query.search = "route" => path = <<>> /\ at = query.to /\ DOMAIN path = {}
    BY <2>1 DEF TraceInv
  <2> QED
    BY <2>1, <2>2 DEF TraceInv
<1>2. CASE UNCHANGED searchVars
  BY <1>2 DEF searchVars, asked, TraceInv
<1>3. CASE LoopEnds
  <2>1. /\ UNCHANGED <<query, trace, at, path>> /\ stage = "search"
        /\ stage' = IF query.search = "route" /\ query.to \in DOMAIN trace THEN "trace" ELSE "done"
    BY <1>3 DEF LoopEnds, asked
  <2>2. query.search = "route" => path = <<>> /\ at = query.to /\ DOMAIN path = {}
    BY <2>1 DEF TraceInv
  <2> QED
    BY <2>1, <2>2 DEF TraceInv
<1>4. CASE TraceBack
  <2>1. /\ UNCHANGED <<query, trace, stage>> /\ stage = "trace"
        /\ at # query.from /\ at \in DOMAIN trace
        /\ path' = <<at>> \o path /\ at' = trace[at]
    BY <1>4 DEF TraceBack, asked
  <2>2. /\ query.search = "route" /\ query.to \in DOMAIN trace
        /\ path = <<>> => at = query.to
        /\ path # <<>> => path[Len(path)] = query.to /\ path[1] \in DOMAIN trace /\ trace[path[1]] = at
        /\ \A i \in DOMAIN path : /\ path[i] \in DOMAIN trace \ {query.from}
                                  /\ i > 1 => trace[path[i]] = path[i - 1]
    BY <2>1 DEF TraceInv
  <2>3. at' \in DOMAIN trace \cup {query.from}
    <3>1. trace[at] \in seen
      BY <2>1, <2>2 DEF RouteInv
    <3>2. seen \subseteq DOMAIN level /\ DOMAIN level \subseteq DOMAIN trace \cup {query.from}
      BY <2>2 DEF WaveInv, LevelInv, RouteInv, Levelled
    <3> QED
      BY <2>1, <3>1, <3>2
  <2>4. /\ Len(path') = Len(path) + 1 /\ DOMAIN path' = 1..(Len(path) + 1)
        /\ DOMAIN path = 1..Len(path) /\ Len(path) \in Nat /\ path' # <<>>
        /\ path'[1] = at
        /\ \A i \in 1..Len(path) : path'[i + 1] = path[i]
    BY <1>0, <2>1, Longer
  <2>5. path'[Len(path')] = query.to
    <3>1. CASE path = <<>>
      BY <2>2, <2>4, <3>1
    <3>2. CASE path # <<>>
      <4>1. Len(path) \in 1..Len(path)
        BY <1>0, <3>2
      <4> QED
        BY <2>2, <2>4, <3>2, <4>1
    <3> QED
      BY <3>1, <3>2
  <2>6. ASSUME NEW i \in DOMAIN path'
        PROVE  /\ path'[i] \in DOMAIN trace \ {query.from}
               /\ i > 1 => trace[path'[i]] = path'[i - 1]
    <3>1. CASE i = 1
      BY <2>1, <2>4, <3>1
    <3>2. CASE i # 1
      <4>1. i - 1 \in 1..Len(path) /\ (i - 1) + 1 = i
        BY <2>4, <3>2
      <4>2. path'[i] = path[i - 1]
        BY <2>4, <4>1
      <4>3. path[i - 1] \in DOMAIN trace \ {query.from}
        BY <2>2, <2>4, <4>1
      <4>4. CASE i = 2
        <5>1. path # <<>>
          BY <2>4, <4>1
        <5> QED
          BY <2>2, <2>4, <4>2, <4>3, <4>4, <5>1
      <4>5. CASE i # 2
        <5>1. i - 2 \in 1..Len(path) /\ (i - 2) + 1 = i - 1 /\ i - 1 > 1 /\ (i - 1) - 1 = i - 2
          BY <2>4, <4>1, <4>5
        <5>2. path'[i - 1] = path[i - 2]
          BY <2>4, <5>1
        <5>3. trace[path[i - 1]] = path[i - 2]
          BY <2>2, <2>4, <4>1, <5>1
        <5> QED
          BY <4>2, <4>3, <5>2, <5>3
      <4> QED
        BY <4>4, <4>5
    <3> QED
      BY <3>1, <3>2
  <2> QED
    BY <2>1, <2>2, <2>3, <2>4, <2>5, <2>6 DEF TraceInv
<1>5. CASE TraceEnds
  <2>1. /\ UNCHANGED <<query, trace, at, path>> /\ stage = "trace"
        /\ at = query.from \/ at \notin DOMAIN trace
        /\ stage' = IF at = query.from THEN "done" ELSE "failed"
    BY <1>5 DEF TraceEnds, asked
  <2>2. query.search = "route" /\ at \in DOMAIN trace \cup {query.from}
    BY <2>1 DEF TraceInv
  <2>3. stage' = "done" /\ at = query.from
    BY <2>1, <2>2
  <2> QED
    BY <2>1, <2>2, <2>3 DEF TraceInv
<1> QED
  BY <1>1, <1>2, <1>3, <1>4, <1>5 DEF SearchNext

\* What route knows when it is done.
LEMMA RouteFacts ==
    ASSUME SearchType, WaveInv, RouteInv, TraceInv, Done("route"), query.from # query.to
    PROVE  /\ path \in Seq(Node) /\ Len(path) \in Nat /\ DOMAIN path = 1..Len(path)
           /\ path # <<>> <=> \E n \in Routed : Between(n, query.to) # {}
           /\ path # <<>> => path[Len(path)] = query.to /\ Len(path) \in 1..Len(path)
           /\ \A i \in 1..Len(path) : /\ path[i] # query.from
                                      /\ \A before : before = (IF i = 1 THEN query.from ELSE path[i - 1]) =>
                                             Between(before, path[i]) # {} /\ before \in Routed
<1>1. query.search = "route" /\ stage = "done" /\ Levelled
  BY DEF Done, Levelled
<1>2. path \in Seq(Node) /\ AskedType
  BY DEF SearchType
<1>3. Len(path) \in Nat /\ DOMAIN path = 1..Len(path) /\ (path # <<>> => Len(path) \in 1..Len(path) /\ 1 \in 1..Len(path))
  BY <1>2
<1>4. Ahead = Allowing /\ Allowing \in Graph /\ Routed = InDepth(Allowing)
  BY <1>1, <1>2, Graphs DEF Ahead, Routed, Allowing
<1>5. ASSUME NEW n \in seen, ~TooDeep(n) PROVE n \in Routed
  <2>1. n \in DOMAIN level /\ n \in Near(Allowing)[level[n]] /\ level[n] \in Nat
    BY <1>1, <1>4 DEF WaveInv, LevelInv, SearchType
  <2>2. CASE query.depth = 0
    BY <1>2, <1>4, <2>1, <2>2, NearReached DEF InDepth
  <2>3. CASE query.depth # 0
    <3>1. query.depth \in Nat /\ level[n] <= query.depth
      BY <1>2, <1>5, <2>1, <2>3 DEF AskedType, TooDeep
    <3> QED
      BY <1>2, <1>4, <2>1, <2>3, <3>1, NearGrows DEF InDepth
  <2> QED
    BY <2>2, <2>3
<1>6. /\ found <=> query.to \in DOMAIN trace
      /\ \A m \in DOMAIN trace : Between(trace[m], m) # {} /\ trace[m] \in Routed
  BY <1>1, <1>5 DEF RouteInv
<1>7. ASSUME ~found, NEW n \in Routed PROVE Between(n, query.to) = {}
  <2>1. work = <<>> /\ \A m \in seen : ~TooDeep(m) => Between(m, query.to) = {} /\ Widened(m)
    BY <1>1, <1>7 DEF RouteInv
  <2>2. Routed = {m \in seen : ~TooDeep(m)}
    BY <1>1, <1>4, <2>1, Drained
  <2> QED
    BY <2>1, <2>2
<1>8. path # <<>> <=> query.to \in DOMAIN trace
  BY <1>1 DEF TraceInv
<1>9. path # <<>> <=> \E n \in Routed : Between(n, query.to) # {}
  BY <1>6, <1>7, <1>8
<1>10. path # <<>> => path[Len(path)] = query.to
  BY <1>1 DEF TraceInv
<1>11. ASSUME NEW i \in 1..Len(path), NEW before, before = (IF i = 1 THEN query.from ELSE path[i - 1])
       PROVE  Between(before, path[i]) # {} /\ before \in Routed
  <2>1. path[i] \in DOMAIN trace
    BY <1>1, <1>3 DEF TraceInv
  <2>2. trace[path[i]] = before
    <3>1. path # <<>>
      BY <1>3
    <3>2. CASE i = 1
      BY <1>1, <1>8, <1>11, <3>1, <3>2 DEF TraceInv
    <3>3. CASE i # 1
      BY <1>1, <1>3, <1>11, <3>3 DEF TraceInv
    <3> QED
      BY <3>2, <3>3
  <2> QED
    BY <1>6, <2>1, <2>2
<1>12. \A i \in 1..Len(path) : path[i] # query.from
  BY <1>1, <1>3 DEF TraceInv
<1> QED
  BY <1>2, <1>3, <1>9, <1>10, <1>11, <1>12

\* route, when it is done.
LEMMA RouteAnswer == SearchType /\ WaveInv /\ RouteInv /\ TraceInv => RouteExact
<1> SUFFICES ASSUME SearchType, WaveInv, RouteInv, TraceInv PROVE RouteExact
  OBVIOUS
<1> SUFFICES ASSUME Done("route"), query.from # query.to
             PROVE  /\ (path # <<>>) = \E n \in Routed : Between(n, query.to) # {}
                    /\ \A i \in 1..Len(path) :
                          LET before == IF i = 1 THEN query.from ELSE path[i - 1]
                          IN  Between(before, path[i]) # {} /\ before \in Routed
  BY DEF RouteExact, TraceInv
<1>1. (path # <<>>) = \E n \in Routed : Between(n, query.to) # {}
  BY RouteFacts
<1>2. ASSUME NEW i \in 1..Len(path)
      PROVE  LET before == IF i = 1 THEN query.from ELSE path[i - 1]
             IN  Between(before, path[i]) # {} /\ before \in Routed
  BY RouteFacts
<1> QED
  BY <1>1, <1>2

\* The edge that is_pipelined looks at is one of those between the two nodes.
LEMMA FirstOne ==
    ASSUME AskedType, NEW m \in Node, NEW n, Between(m, n) # {}
    PROVE  \E i \in Between(m, n) : FirstEdge(m, n) = out[m][i]
<1>1. Between(m, n) \in SUBSET Nat
  BY Edges DEF Between
<1>2. \E i \in Between(m, n) : \A j \in Between(m, n) : i <= j
  BY <1>1, Smallest
<1> QED
  BY <1>2 DEF FirstEdge

\* is_pipelined, when route is done.
LEMMA PipelinedAnswer == SearchType /\ WaveInv /\ RouteInv /\ TraceInv => PipelinedExact
<1> DEFINE last == {n \in Routed : Between(n, query.to) # {}}
           Clocked(n) == {i \in Between(n, query.to) : out[n][i].type = "NonBlocking"}
<1> SUFFICES ASSUME SearchType, WaveInv, RouteInv, TraceInv, Done("route"), query.from # query.to
             PROVE  /\ IsPipelined => \E n \in last \ {query.from} : Clocked(n) # {}
                    /\ (/\ last # {} /\ query.from \notin last
                        /\ \A n \in last : Clocked(n) = Between(n, query.to)) => IsPipelined
  BY DEF PipelinedExact
<1>1. /\ path \in Seq(Node) /\ Len(path) \in Nat
      /\ path # <<>> <=> \E n \in Routed : Between(n, query.to) # {}
      /\ path # <<>> => path[Len(path)] = query.to /\ Len(path) \in 1..Len(path)
  BY RouteFacts
<1>2. ASSUME NEW i \in 1..(Len(path) - 1)
      PROVE  /\ path[i] \in Node /\ path[i] # query.from
             /\ Between(path[i], path[i + 1]) # {} /\ path[i] \in Routed
  <2>1. /\ i \in 1..Len(path) /\ i + 1 \in 1..Len(path)
        /\ path[i] = (IF i + 1 = 1 THEN query.from ELSE path[(i + 1) - 1])
    BY <1>1
  <2> QED
    BY <1>1, <2>1, RouteFacts
<1>3. ASSUME IsPipelined PROVE \E n \in last \ {query.from} : Clocked(n) # {}
  <2>1. PICK i \in 1..(Len(path) - 1) :
            path[i + 1] = query.to /\ FirstEdge(path[i], path[i + 1]).type = "NonBlocking"
    BY <1>3 DEF IsPipelined
  <2>2. PICK j \in Between(path[i], query.to) : FirstEdge(path[i], query.to) = out[path[i]][j]
    BY <1>2, <2>1, FirstOne DEF SearchType
  <2>3. path[i] \in last \ {query.from} /\ j \in Clocked(path[i])
    BY <1>2, <2>1, <2>2
  <2> QED
    BY <2>3
<1>4. ASSUME last # {}, query.from \notin last, \A n \in last : Clocked(n) = Between(n, query.to)
      PROVE  IsPipelined
  <2>1. path # <<>> /\ path[Len(path)] = query.to /\ Len(path) \in 1..Len(path)
    BY <1>1, <1>4
  <2>2. Len(path) # 1
    <3> SUFFICES ASSUME Len(path) = 1 PROVE FALSE
      OBVIOUS
    <3>1. Between(query.from, path[1]) # {} /\ query.from \in Routed
      BY <2>1, RouteFacts
    <3> QED
      BY <1>4, <2>1, <3>1
  <2> DEFINE L == Len(path)
             i == L - 1
  <2>3. i \in 1..(L - 1) /\ i + 1 = L
    <3>1. L \in Nat /\ L \in 1..L /\ L # 1
      BY <1>1, <2>1, <2>2
    <3> HIDE DEF L
    <3> QED
      BY <3>1
  <2> HIDE DEF i
  <2>4. path[i] \in last /\ Between(path[i], query.to) # {} /\ path[i] \in Node
    BY <1>2, <2>1, <2>3
  <2>5. PICK j \in Between(path[i], query.to) : FirstEdge(path[i], query.to) = out[path[i]][j]
    BY <2>4, FirstOne DEF SearchType
  <2>6. out[path[i]][j].type = "NonBlocking"
    BY <1>4, <2>4
  <2>7. path[i + 1] = query.to /\ FirstEdge(path[i], path[i + 1]).type = "NonBlocking"
    BY <2>1, <2>3, <2>5, <2>6
  <2> QED
    BY <2>3, <2>7 DEF IsPipelined
<1> QED
  BY <1>3, <1>4

-------------------------------------------------------------------------------
(* Why the searches end.                                                   *)

\* The trace leads from level to level towards the origin, also over a node that was
\* traced by an edge that route then did not take: the first one to look at a node is
\* no farther from the origin than the one that puts it in the queue.
NearerInv ==
    query.search = "route" =>
        \A m \in DOMAIN level \ {query.from} : m \in DOMAIN trace => level[trace[m]] < level[m]

LEMMA NearerStep ==
    ASSUME SearchType, WaveInv, RouteInv, NearerInv, [SearchNext]_searchVars
    PROVE  NearerInv'
<1> SUFFICES ASSUME query.search' = "route" PROVE NearerInv'
  BY DEF NearerInv
<1>1. CASE UNCHANGED <<query, level, trace>>
  BY <1>1 DEF NearerInv
<1>2. CASE PopLast
  <2>1. query.search \in Stacked /\ UNCHANGED query
    BY <1>2, StackSteps, Unchanged
  <2> QED
    BY <2>1 DEF Stacked
<1>3. CASE ExpandSinks \/ ExpandChain
  <2>1. UNCHANGED query
    BY <1>3, QueueSteps, Unchanged
  <2>2. ExpandChain => query.search \in {"chain"}
    BY Zenon DEF ExpandChain, Dequeue, Searching
  <2>3. ExpandSinks => query.search \in {"find_sinks"}
    BY Zenon DEF ExpandSinks, Dequeue, Searching
  <2> QED
    BY <1>3, <2>1, <2>2, <2>3
<1>4. CASE ExpandRoute
  <2>1. UNCHANGED <<asked, query>> /\ work # <<>> /\ query.search = "route" /\ Levelled
    BY <1>4, QueueSteps, Unchanged DEF Levelled
  <2>2. PICK h \in DOMAIN level : h = First /\ h \in Node /\ h \in ToSet(work)
    BY <2>1, Taken
  <2> DEFINE keys == {out[h][i].to : i \in Looked(h)}
             new == ToSet(Followed(h))
  <2>3. /\ First \notin seen
        /\ level' = Emplaced(level, ToSet(Followed(First)), level[First] + 1)
        /\ trace' = Traced(First)
    BY <1>4, Zenon DEF ExpandRoute, Dequeue, Searching
  <2>4. h \in ToSet(work) \ seen /\ trace' = Emplaced(trace, keys, h)
    BY <2>2, <2>3 DEF Traced
  <2>5. /\ DOMAIN level' = DOMAIN level \cup new
        /\ \A n \in DOMAIN level : level'[n] = level[n]
        /\ \A n \in new \ DOMAIN level : level'[n] = level[h] + 1
    BY <2>2, <2>3, Emplacing
  <2> HIDE DEF keys, new
  <2>6. /\ DOMAIN trace' = DOMAIN trace \cup keys
        /\ \A m \in DOMAIN trace : trace'[m] = trace[m]
        /\ \A m \in keys \ DOMAIN trace : trace'[m] = h
    <3>1. /\ DOMAIN Emplaced(trace, keys, h) = DOMAIN trace \cup keys
          /\ \A m \in DOMAIN trace : Emplaced(trace, keys, h)[m] = trace[m]
          /\ \A m \in keys \ DOMAIN trace : Emplaced(trace, keys, h)[m] = h
      BY EmplacedMap, Zenon
    <3> QED
      BY <2>4, <3>1
  <2>7. /\ \A n \in seen : n \in DOMAIN level /\ level[n] <= level[h]
        /\ DOMAIN level \subseteq DOMAIN trace \cup {query.from}
        /\ \A m \in DOMAIN trace : trace[m] \in seen
        /\ \A n \in DOMAIN level : level[n] \in Nat
    BY <2>1, <2>4 DEF WaveInv, LevelInv, OrderInv, RouteInv, SearchType
  <2>8. ASSUME NEW m \in DOMAIN level' \ {query.from}, m \in DOMAIN trace'
        PROVE  level'[trace'[m]] < level'[m]
    <3>1. CASE m \in DOMAIN level
      <4>1. m \in DOMAIN trace /\ trace'[m] = trace[m] /\ trace[m] \in DOMAIN level
        BY <2>6, <2>7, <2>8, <3>1
      <4>2. level[trace[m]] < level[m]
        BY <2>1, <2>8, <3>1, <4>1 DEF NearerInv
      <4> QED
        BY <2>5, <3>1, <4>1, <4>2
    <3>2. CASE m \notin DOMAIN level
      <4>1. level'[m] = level[h] + 1
        BY <2>5, <2>8, <3>2
      <4>2. trace'[m] \in DOMAIN level /\ level[trace'[m]] <= level[h]
        <5>1. CASE m \in DOMAIN trace
          BY <2>6, <2>7, <5>1
        <5>2. CASE m \notin DOMAIN trace
          BY <2>2, <2>6, <2>7, <2>8, <5>2
        <5> QED
          BY <5>1, <5>2
      <4>3. level'[trace'[m]] = level[trace'[m]] /\ level[trace'[m]] \in Nat /\ level[h] \in Nat
        BY <2>2, <2>5, <2>7, <4>2
      <4> QED
        BY <4>1, <4>2, <4>3
    <3> QED
      BY <3>1, <3>2
  <2> QED
    BY <2>1, <2>8 DEF NearerInv
<1>5. CASE Idle
  BY <1>1, <1>5, Unchanged DEF Idle
<1>6. CASE PassVisited \/ PassDeep
  <2>1. UNCHANGED <<level, trace>>
    BY <1>6, Passing
  <2>2. UNCHANGED query
    BY <1>6, QueueSteps, Unchanged
  <2> QED
    BY <1>1, <2>1, <2>2
<1> QED
  BY <1>2, <1>3, <1>4, <1>5, <1>6, Steps

\* Where the copies of visited nodes are that are still on the stack.
Stale == {i \in DOMAIN work : work[i] \in seen}

\* Every step goes on to a later stage, or meets the target, or visits a node, or has
\* fewer entries that it will pass over; and the trace comes to a node that has a level,
\* and from there to ever lower levels.
StageRank == [search |-> 0, trace |-> 1, done |-> 2, failed |-> 2]
SearchCloser ==
    \/ StageRank[stage] < StageRank[stage']
    \/ /\ stage = "search" /\ stage' = "search"
       /\ \/ ~found /\ found'
          \/ found' = found /\ Grows(seen, seen')
          \/ /\ found' = found /\ seen' = seen
             /\ IF query.search \in Stacked THEN Grows(Stale', Stale) ELSE Len(work') < Len(work)
    \/ /\ stage = "trace" /\ stage' = "trace" /\ UNCHANGED level
       /\ at' \in DOMAIN level /\ (at \in DOMAIN level => level[at'] < level[at])

LEMMA StackCloser == ASSUME SearchType, SearchType', PopLast PROVE SearchCloser
<1>0. found \in BOOLEAN /\ found' \in BOOLEAN
  BY DEF SearchType
<1>1. /\ UNCHANGED query /\ query.search \in Stacked /\ work # <<>> /\ work \in Seq(Node)
      /\ ~found /\ stage = "search" /\ stage' = "search"
      /\ IF Last(work) = query.to
         THEN found' /\ work' = Front(work) /\ seen' = seen
         ELSE ~found' /\ work' = Front(work) \o Unvisited(Last(work)) /\ seen' = seen \cup {Last(work)}
  BY StackSteps, Unchanged DEF SearchType
<1> DEFINE n == Last(work)
<1>2. CASE n = query.to \/ n \notin seen
  <2>1. CASE n = query.to
    <3>1. ~found /\ found' /\ stage = "search" /\ stage' = "search"
      BY <1>1, <2>1
    <3> QED
      BY <3>1 DEF SearchCloser
  <2>2. CASE n # query.to /\ n \notin seen
    <3>1. found' = found
      BY <1>0, <1>1, <2>2
    <3>2. Grows(seen, seen') /\ stage = "search" /\ stage' = "search"
      BY <1>1, <2>2 DEF Grows
    <3> QED
      BY <3>1, <3>2 DEF SearchCloser
  <2> QED
    BY <1>2, <2>1, <2>2
<1>3. CASE n # query.to /\ n \in seen
  <2>1. /\ Front(work) \in Seq(Node) /\ n \in Node /\ Len(work) \in Nat \ {0}
        /\ Len(Front(work)) = Len(work) - 1
        /\ DOMAIN work = 1..Len(work) /\ DOMAIN Front(work) = 1..(Len(work) - 1)
        /\ n = work[Len(work)] /\ \A i \in 1..(Len(work) - 1) : Front(work)[i] = work[i]
    BY <1>1, StackTop
  <2>2. /\ Unvisited(n) \in Seq(Node) /\ \A m \in ToSet(Unvisited(n)) : m \notin seen
    BY <2>1, Pushes DEF SearchType
  <2> DEFINE f == Front(work)
             u == Unvisited(n)
  <2>3. /\ work' = f \o u /\ seen' = seen /\ found' = found
        /\ stage = "search" /\ stage' = "search" /\ query' = query
    <3>1. ~found' /\ work' = f \o u /\ seen' = seen \cup {n}
      BY <1>1, <1>3
    <3>2. seen \cup {n} = seen
      BY <1>3
    <3>3. found' = found
      BY <1>0, <1>1, <3>1
    <3> QED
      BY <1>1, <3>1, <3>2, <3>3
  <2> HIDE DEF f, u, n
  <2>4. /\ DOMAIN (f \o u) = 1..(Len(f) + Len(u)) /\ Len(u) \in Nat /\ Len(f) = Len(work) - 1
        /\ \A i \in 1..Len(f) : (f \o u)[i] = f[i]
        /\ \A i \in 1..Len(u) : (f \o u)[Len(f) + i] = u[i] /\ u[i] \notin seen
    <3>1. f \in Seq(Node) /\ u \in Seq(Node)
      BY <2>1, <2>2 DEF f, u
    <3>2. \A i \in 1..Len(u) : u[i] \in ToSet(u)
      BY <3>1 DEF ToSet
    <3> QED
      <4>1. /\ DOMAIN (f \o u) = 1..(Len(f) + Len(u)) /\ Len(u) \in Nat
            /\ DOMAIN f = 1..Len(f)
            /\ \A i \in 1..Len(f) : (f \o u)[i] = f[i]
            /\ \A i \in 1..Len(u) : (f \o u)[Len(f) + i] = u[i]
        BY <3>1, Joined
      <4>2. Len(f) = Len(work) - 1
        BY <2>1 DEF f
      <4>3. \A i \in 1..Len(u) : u[i] \notin seen
        BY <2>2, <3>2 DEF u
      <4> QED
        BY <4>1, <4>2, <4>3
  <2>5. ASSUME NEW i \in DOMAIN work', work'[i] \in seen
        PROVE  i \in DOMAIN work /\ work[i] \in seen /\ i # Len(work)
    <3>1. CASE i \in 1..Len(f)
      BY <2>1, <2>3, <2>4, <2>5, <3>1 DEF f
    <3>2. CASE i \notin 1..Len(f)
      <4>1. i - Len(f) \in 1..Len(u) /\ Len(f) + (i - Len(f)) = i
        BY <2>1, <2>3, <2>4, <2>5, <3>2
      <4> QED
        BY <2>3, <2>4, <2>5, <4>1
    <3> QED
      BY <3>1, <3>2
  <2>6. Stale' \subseteq Stale /\ Len(work) \notin Stale'
    BY <2>3, <2>5 DEF Stale
  <2>7. Len(work) \in Stale
    BY <1>3, <2>1 DEF Stale, n
  <2>8. Grows(Stale', Stale)
    BY <2>6, <2>7 DEF Grows
  <2> QED
    BY <1>1, <2>3, <2>8 DEF SearchCloser
<1> QED
  BY <1>2, <1>3

LEMMA QueueCloser ==
    ASSUME SearchType, SearchType',
           PassVisited \/ PassDeep \/ ExpandSinks \/ ExpandChain \/ ExpandRoute
    PROVE  SearchCloser
<1>1. /\ UNCHANGED query /\ query.search \notin Stacked /\ work # <<>> /\ ~found
      /\ stage = "search" /\ stage' = "search"
  BY QueueSteps, Unchanged, Apart
<1>2. CASE PassVisited
  <2>1. work' = Tail(work) /\ seen' = seen /\ found' = found
    BY <1>2, Passing DEF Rest
  <2>2. Len(work') < Len(work)
    BY <1>1, <2>1, QueueHead DEF SearchType
  <2> QED
    BY <1>1, <2>1, <2>2 DEF SearchCloser
<1>3. CASE PassDeep \/ ExpandSinks \/ ExpandChain \/ ExpandRoute
  <2>1. PassDeep => seen' = seen \cup {First} /\ First \notin seen
    BY Zenon DEF PassDeep, Visit
  <2>2. ExpandSinks => seen' = seen \cup {First} /\ First \notin seen
    BY Zenon DEF ExpandSinks, Visit
  <2>3. ExpandChain => seen' = seen \cup {First} /\ First \notin seen
    BY Zenon DEF ExpandChain, Visit
  <2>4. ExpandRoute => seen' = seen \cup {First} /\ First \notin seen
    BY Zenon DEF ExpandRoute, Visit
  <2>5. seen' = seen \cup {First} /\ First \notin seen
    BY <1>3, <2>1, <2>2, <2>3, <2>4
  <2>6. Grows(seen, seen')
    BY <2>5 DEF Grows
  <2>7. found' = found \/ found'
    <3>1. found \in BOOLEAN /\ found' \in BOOLEAN
      BY DEF SearchType
    <3> QED
      BY <1>1, <3>1
  <2> QED
    BY <1>1, <2>6, <2>7 DEF SearchCloser
<1> QED
  BY <1>2, <1>3

LEMMA TraceCloser ==
    ASSUME SearchType, WaveInv, RouteInv, TraceInv, NearerInv, LoopEnds \/ TraceBack \/ TraceEnds
    PROVE  SearchCloser
<1>1. CASE LoopEnds
  BY <1>1 DEF LoopEnds, SearchCloser, StageRank
<1>2. CASE TraceEnds
  BY <1>2 DEF TraceEnds, SearchCloser, StageRank
<1>3. CASE TraceBack
  <2>1. /\ stage = "trace" /\ stage' = "trace" /\ UNCHANGED level
        /\ at # query.from /\ at \in DOMAIN trace /\ at' = trace[at]
    BY <1>3 DEF TraceBack
  <2>2. query.search = "route" /\ Levelled
    BY <2>1 DEF TraceInv, Levelled
  <2>3. at' \in DOMAIN level
    BY <2>1, <2>2 DEF RouteInv, WaveInv, LevelInv
  <2>4. at \in DOMAIN level => level[at'] < level[at]
    BY <2>1, <2>2 DEF NearerInv
  <2> QED
    BY <2>1, <2>3, <2>4 DEF SearchCloser
<1> QED
  BY <1>1, <1>2, <1>3

-------------------------------------------------------------------------------
(* What the searches answer.                                               *)

\* The inductive invariant of the state machine that runs them.
SearchesInv ==
    SearchType /\ StackInv /\ CountInv /\ ChainInv /\ WaveInv /\ SinksInv /\ RouteInv /\ TraceInv

\* Each search keeps its part of the invariant, on every graph and for every question.
THEOREM SearchInvariance == SearchSpec => []SearchesInv
<1>1. SearchInit => SearchesInv
  BY SearchTypeInit, StackInit, ChainInit, WaveInit, SinksInit, RouteInit DEF SearchesInv
<1>2. SearchesInv /\ [SearchNext]_searchVars => SearchesInv'
  BY SearchTypeStep, StackStep, CountStep, ChainStep, WaveNext, SinksStep, RouteStep, TraceStep
     DEF SearchesInv
<1> QED
  BY <1>1, <1>2, PTL DEF SearchSpec

\* has_path and in_direct_assign_chain say yes when there is such a path and only then,
\* although the one marks a node after its successors are pushed, so that a node is on
\* the stack more than once; counting pops, has_path misses no path when max_depth is
\* more than the number of edges.
THEOREM Answers == SearchSpec => []AnswersExact
<1>1. SearchesInv => AnswersExact
  BY HasPathAnswers, ChainAnswers DEF SearchesInv, AnswersExact
<1> QED
  BY <1>1, SearchInvariance, PTL

\* find_sinks returns the nodes within max_depth, once each and the nearer ones first:
\* get_reset_pin may take the first event among them.
THEOREM SinksOrder == SearchSpec => []SinksNearestFirst
<1>1. SearchesInv => SinksNearestFirst
  BY SinksAnswer DEF SearchesInv
<1> QED
  BY <1>1, SearchInvariance, PTL

\* route returns a path exactly when there is one within max_depth, its path is a walk
\* of the graph, and the trace always leads back to where it began.
THEOREM RouteFound == SearchSpec => []RouteExact
<1>1. SearchesInv => RouteExact
  BY RouteAnswer DEF SearchesInv
<1> QED
  BY <1>1, SearchInvariance, PTL

\* is_pipelined says so only of a pair with a non-blocking copy between them, and of
\* every pair that has no other kind.
THEOREM PipelinedFound == SearchSpec => []PipelinedExact
<1>1. SearchesInv => PipelinedExact
  BY PipelinedAnswer DEF SearchesInv
<1> QED
  BY <1>1, SearchInvariance, PTL

\* The levels fall along the trace: no two nodes of a path that route returns are one.
THEOREM TraceDescends == SearchSpec => []NearerInv
<1>1. SearchInit => NearerInv
  <2> SUFFICES ASSUME SearchInit PROVE NearerInv
    OBVIOUS
  <2>1. trace = <<>>
    BY DEF SearchInit
  <2> QED
    BY <2>1 DEF NearerInv
<1>2. SearchesInv /\ NearerInv /\ [SearchNext]_searchVars => NearerInv'
  BY NearerStep DEF SearchesInv
<1> QED
  BY <1>1, <1>2, SearchInvariance, PTL DEF SearchSpec

\* Every search ends on a finite graph, whatever loops it has: there is an order in which
\* every step descends, although has_path puts a node on its stack that it has visited,
\* and route follows a trace that other edges were written into than those it took.
THEOREM EverySearchEnds == SearchSpec => [][SearchCloser]_searchVars
<1>1. SearchesInv /\ SearchesInv' /\ NearerInv /\ [SearchNext]_searchVars => [SearchCloser]_searchVars
  BY StackCloser, QueueCloser, TraceCloser DEF SearchesInv, SearchNext
<1> QED
  BY <1>1, SearchInvariance, TraceDescends, PTL DEF SearchSpec
===============================================================================
