--------------------------- MODULE ConstDriver_proofs ---------------------------
(***************************************************************************)
(* constant_driver on any graph, in any order of the edges: no node is     *)
(* entered by two calls, and a search that succeeds has overlooked nothing *)
(* although every call may stop early and all of them share their sets.    *)
(***************************************************************************)
EXTENDS ConstDriver, SequenceTheorems, FiniteSetTheorems, TLAPS

\* What is reachable is the least set that holds the origins and that no edge leaves: a
\* search may mark its origins and follow any edge, and one that has run dry has missed
\* nothing.
LEMMA ReachableLeast ==
    ASSUME NEW g \in Graph, NEW S \in SUBSET Node
    PROVE  /\ S \subseteq ReachableFrom(g, S) /\ ReachableFrom(g, S) \subseteq Node
           /\ Closed(g, ReachableFrom(g, S))
           /\ \A C \in SUBSET Node : S \subseteq C /\ Closed(g, C) => ReachableFrom(g, S) \subseteq C
<1>1. ASSUME NEW n \in ReachableFrom(g, S), NEW m \in g[n]
      PROVE  m \in ReachableFrom(g, S)
  <2>1. n \in Node /\ m \in Node
    BY DEF ReachableFrom, Graph
  <2>2. ASSUME NEW C \in SUBSET Node, S \subseteq C, Closed(g, C)
        PROVE  m \in C
    <3>1. n \in C
      BY <2>2 DEF ReachableFrom
    <3> QED
      BY <2>2, <3>1 DEF Closed
  <2> QED
    BY <2>1, <2>2 DEF ReachableFrom
<1>2. Closed(g, ReachableFrom(g, S))
  BY <1>1 DEF Closed
<1> QED
  BY <1>2 DEF ReachableFrom

Frame == [node : Node, todo : SUBSET Edge, result : BOOLEAN]

TypeOK == /\ info \in [Node -> Info]
          /\ edges \in SUBSET Edge
          /\ root \in Node
          /\ stack \in Seq(Frame)
          /\ entered \in SUBSET Node
          /\ constSources \in SUBSET edges

\* The calls are about different nodes, and only the innermost can have failed.
StackInv == /\ stack # <<>> => stack[1].node = root /\ answer = NoAnswer
            /\ stack = <<>> => answer \in BOOLEAN
            /\ \A i \in 1..Len(stack) : /\ stack[i].node \in entered
                                        /\ stack[i].todo \subseteq EdgesFrom(stack[i].node)
            /\ \A i \in 1..Len(stack) : i < Len(stack) =>
                  stack[i].result /\ EdgesFrom(stack[i].node) # {}
            /\ NoReentry

\* Nothing was entered or collected that is not behind the root.
ConeInv == /\ root \in entered
           /\ entered \subseteq Cone
           /\ \A n \in entered : Follows(n)
           /\ constSources \subseteq ConstantEdges

Failed == IF stack = <<>> THEN answer = FALSE ELSE ~Top.result

Handled(e) == \/ e.slice
              \/ e.from \in entered
              \/ SkipsControl(e.from)
              \/ IsConstant(e.from) /\ e \in constSources

\* The call for n still has to examine e.
Pending(n, e) == \E i \in 1..Len(stack) : stack[i].node = n /\ e \in stack[i].todo

OnStack(n) == \E i \in 1..Len(stack) : stack[i].node = n

Driven(n) == EdgesFrom(n) # {} /\ ~OnlyControls(n)

\* As long as nothing has failed, every edge of a node that was entered is dealt with or
\* will be, and a node whose call has returned has a driver that is no control node.
SearchInv == Failed \/ \A n \in entered : /\ \A e \in EdgesFrom(n) : Pending(n, e) \/ Handled(e)
                                          /\ OnStack(n) \/ Driven(n)

AnswerInv == stack = <<>> /\ answer = FALSE => constSources = {}

Inv == TypeOK /\ StackInv /\ ConeInv /\ SearchInv /\ AnswerInv

-------------------------------------------------------------------------------
(* The stack.                                                              *)

LEMMA ReplaceLast ==
    ASSUME NEW S, NEW s \in Seq(S), s # <<>>, NEW a \in S, NEW t, t = [s EXCEPT ![Len(s)] = a]
    PROVE  /\ t \in Seq(S) /\ Len(t) = Len(s) /\ t # <<>>
           /\ Len(s) \in 1..Len(s)
           /\ t[Len(s)] = a
           /\ \A i \in 1..Len(s) : i # Len(s) => t[i] = s[i]
<1>1. Len(s) \in Nat \ {0}
  BY EmptySeq
<1>2. Len(s) \in 1..Len(s)
  BY <1>1
<1> QED
  BY <1>1, <1>2, ExceptSeq, LenProperties

LEMMA PushCall ==
    ASSUME NEW S, NEW s \in Seq(S), NEW b \in S, NEW t, t = Append(s, b)
    PROVE  /\ t \in Seq(S) /\ Len(t) = Len(s) + 1 /\ Len(s) \in Nat /\ t # <<>>
           /\ t[Len(t)] = b
           /\ \A i \in 1..Len(s) : t[i] = s[i]
OBVIOUS

LEMMA OneLess == \A k \in Nat \ {0} : (IF 1 <= k - 1 THEN (k - 1) - 1 + 1 ELSE 0) = k - 1
OBVIOUS

LEMMA PopCall ==
    ASSUME NEW S, NEW s \in Seq(S), s # <<>>, NEW t, t = SubSeq(s, 1, Len(s) - 1)
    PROVE  /\ t \in Seq(S) /\ Len(t) = Len(s) - 1 /\ Len(s) \in Nat \ {0}
           /\ t = <<>> <=> Len(s) = 1
           /\ \A i \in 1..(Len(s) - 1) : t[i] = s[i]
<1>1. Len(s) \in Nat \ {0}
  BY EmptySeq
<1>2. \A i \in 1..(Len(s) - 1) : s[i] \in S
  BY <1>1, ElementOfSeq
<1>3. /\ t \in Seq(S)
      /\ Len(t) = IF 1 <= Len(s) - 1 THEN (Len(s) - 1) - 1 + 1 ELSE 0
      /\ \A i \in 1..((Len(s) - 1) - 1 + 1) : t[i] = s[1 + i - 1]
  BY <1>1, <1>2, SubSeqProperties
<1>4. Len(t) = Len(s) - 1
  <2>1. (IF 1 <= Len(s) - 1 THEN (Len(s) - 1) - 1 + 1 ELSE 0) = Len(s) - 1
    BY <1>1, OneLess, Zenon
  <2> QED
    BY <1>3, <2>1, Zenon
<1>5. \A i \in 1..(Len(s) - 1) : t[i] = s[i]
  <2> SUFFICES ASSUME NEW i \in 1..(Len(s) - 1) PROVE t[i] = s[i]
    OBVIOUS
  <2>1. 1 + i - 1 = i /\ i \in 1..((Len(s) - 1) - 1 + 1)
    BY <1>1
  <2> QED
    BY <1>3, <2>1, Zenon
<1>6. t = <<>> => Len(t) = 0
  BY EmptySeq
<1>7. Len(t) = 0 => t = <<>>
  BY <1>3, EmptySeq
<1> QED
  BY <1>1, <1>3, <1>4, <1>5, <1>6, <1>7

\* What is said of the graph alone does not change.
LEMMA GraphFrame ==
    ASSUME UNCHANGED inputs
    PROVE  /\ Cone' = Cone
           /\ ConstantEdges' = ConstantEdges
           /\ \A n : /\ EdgesFrom(n)' = EdgesFrom(n)
                     /\ Follows(n)' = Follows(n)
                     /\ SkipsControl(n)' = SkipsControl(n)
                     /\ IsConstant(n)' = IsConstant(n)
                     /\ OnlyControls(n)' = OnlyControls(n)
                     /\ Driven(n)' = Driven(n)
<1> USE DEF inputs
<1>1. ASSUME NEW n PROVE /\ EdgesFrom(n)' = EdgesFrom(n)
                         /\ HasType(n, "Net")' = HasType(n, "Net")
                         /\ HasType(n, "Control")' = HasType(n, "Control")
                         /\ Follows(n)' = Follows(n)
  BY DEF EdgesFrom, Follows, HasType
<1>2. ASSUME NEW n PROVE /\ SkipsControl(n)' = SkipsControl(n)
                         /\ IsConstant(n)' = IsConstant(n)
                         /\ OnlyControls(n)' = OnlyControls(n)
  BY <1>1 DEF SkipsControl, IsConstant, OnlyControls, HasType, EdgesFrom, Follows
<1>3. Cone' = Cone
  BY DEF Cone, Drivers, ReachableFrom, Closed, EdgesFrom, Follows, HasType
<1>4. ConstantEdges' = ConstantEdges
  BY <1>3 DEF ConstantEdges, IsConstant, Follows, HasType, EdgesFrom
<1> QED
  BY <1>1, <1>2, <1>3, <1>4 DEF Driven

LEMMA DriversGraph ==
    ASSUME edges \in SUBSET Edge
    PROVE  Drivers \in Graph
BY DEF Drivers, Graph, EdgesFrom, Edge

\* The cone is the root and what drives a node of it.
LEMMA ConeClosed ==
    ASSUME TypeOK
    PROVE  /\ root \in Cone /\ Cone \subseteq Node
           /\ \A n \in Cone : \A e \in EdgesFrom(n) : ~e.slice /\ Follows(e.from) => e.from \in Cone
<1>1. Drivers \in Graph /\ {root} \in SUBSET Node
  BY DriversGraph DEF TypeOK
<1>2. root \in Cone /\ Cone \subseteq Node /\ Closed(Drivers, Cone)
  BY <1>1, ReachableLeast DEF Cone
<1>3. ASSUME NEW n \in Cone, NEW e \in EdgesFrom(n), ~e.slice, Follows(e.from)
      PROVE  e.from \in Cone
  <2>1. e.from \in Drivers[n]
    BY <1>2, <1>3 DEF Drivers
  <2> QED
    BY <1>2, <2>1 DEF Closed
<1> QED
  BY <1>2, <1>3

-------------------------------------------------------------------------------
LEMMA InitInv == Init => Inv
<1> SUFFICES ASSUME Init PROVE Inv
  OBVIOUS
<1>1. Call(root) \in Frame
  BY DEF Init, Call, Frame, EdgesFrom
<1>2. /\ stack \in Seq(Frame) /\ Len(stack) = 1 /\ stack # <<>>
      /\ stack[1] = Call(root)
  BY <1>1 DEF Init
<1>3. TypeOK
  BY <1>2 DEF Init, TypeOK
<1>4. \A i \in 1..Len(stack) : i = 1
  BY <1>2
<1>5. Call(root).node = root /\ Call(root).todo = EdgesFrom(root)
  BY DEF Call
<1>6. StackInv
  BY <1>2, <1>4, <1>5 DEF Init, StackInv, NoReentry
<1>7. ConeInv
  BY <1>3, ConeClosed DEF Init, ConeInv, Follows
<1>8. SearchInv
  BY <1>2, <1>5 DEF Init, SearchInv, Pending, OnStack
<1> QED
  BY <1>2, <1>3, <1>6, <1>7, <1>8 DEF Inv, AnswerInv

\* A call that examines an edge.
LEMMA TopFacts ==
    ASSUME Inv, stack # <<>>
    PROVE  /\ stack \in Seq(Frame) /\ Len(stack) \in Nat /\ Len(stack) \in 1..Len(stack)
           /\ Top = stack[Len(stack)] /\ Top \in Frame
           /\ Top.node \in entered /\ Top.todo \subseteq EdgesFrom(Top.node)
           /\ answer = NoAnswer
<1>1. stack \in Seq(Frame) /\ Len(stack) \in Nat /\ Len(stack) \in 1..Len(stack)
  BY DEF Inv, TypeOK
<1> QED
  BY <1>1 DEF Top, Inv, StackInv

\* Examining an edge without a call leaves a stack on which nothing but the innermost
\* call has changed, and that one stays about its node.
LEMMA ReplaceTopInv ==
    ASSUME Inv, stack # <<>>, UNCHANGED <<inputs, entered, answer>>,
           NEW f \in Frame, f.node = Top.node, f.todo \subseteq Top.todo, stack' = ReplaceTop(f)
    PROVE  /\ stack' \in Seq(Frame) /\ Len(stack') = Len(stack) /\ stack' # <<>> /\ Top' = f
           /\ StackInv'
           /\ \A n : OnStack(n)' <=> OnStack(n)
           /\ \A n, e : Pending(n, e) => Pending(n, e)' \/ (n = Top.node /\ e \in Top.todo \ f.todo)
<1> DEFINE top == Len(stack)
<1>1. /\ stack' \in Seq(Frame) /\ Len(stack') = top /\ stack' # <<>>
      /\ top \in 1..top
      /\ stack'[top] = f
      /\ \A i \in 1..top : i # top => stack'[i] = stack[i]
  BY TopFacts, ReplaceLast DEF ReplaceTop
<1>2. Top' = f
  BY <1>1 DEF Top
<1>3. \A i \in 1..top : stack'[i].node = stack[i].node /\ stack'[i].todo \subseteq stack[i].todo
  BY <1>1, TopFacts
<1>4. StackInv'
  <2>1. \A n : EdgesFrom(n)' = EdgesFrom(n)
    BY GraphFrame
  <2>2. \A i \in 1..top : i < top => stack'[i] = stack[i]
    BY <1>1
  <2>3. 1 \in 1..top /\ root' = root
    BY <1>1 DEF inputs
  <2> QED
    BY <1>1, <1>3, <2>1, <2>2, <2>3 DEF Inv, StackInv, NoReentry
<1>5. \A n : OnStack(n)' <=> OnStack(n)
  BY <1>1, <1>3 DEF OnStack
<1>6. ASSUME NEW n, NEW e, Pending(n, e), ~(n = Top.node /\ e \in Top.todo \ f.todo)
      PROVE  Pending(n, e)'
  <2>1. PICK i \in 1..top : stack[i].node = n /\ e \in stack[i].todo
    BY <1>6 DEF Pending
  <2>2. stack'[i].node = n /\ e \in stack'[i].todo
    <3>1. CASE i = top
      BY <1>1, <1>6, <2>1, <3>1, TopFacts
    <3>2. CASE i # top
      BY <1>1, <2>1, <3>2
    <3> QED
      BY <3>1, <3>2
  <2> QED
    BY <1>1, <2>1, <2>2 DEF Pending
<1> QED
  BY <1>1, <1>2, <1>4, <1>5, <1>6

\* The edge is dealt with.
LEMMA ExamineStep ==
    ASSUME Inv, stack # <<>>, ~Finished(Top), NEW e \in Top.todo, PassOver(e) \/ Collect(e)
    PROVE  Inv'
<1> DEFINE f == [Top EXCEPT !.todo = @ \ {e}]
<1>1. Top \in Frame /\ Top.node \in entered /\ e \in EdgesFrom(Top.node) /\ Top.result
  BY TopFacts DEF Finished
<1>2. f \in Frame /\ f.node = Top.node /\ f.todo = Top.todo \ {e} /\ f.result = Top.result
  BY <1>1 DEF Frame
<1>3. /\ stack' = ReplaceTop(f) /\ UNCHANGED <<inputs, entered, answer>>
      /\ constSources \subseteq constSources'
  BY DEF PassOver, Collect
<1> HIDE DEF f
<1>4. /\ stack' \in Seq(Frame) /\ stack' # <<>> /\ Top' = f
      /\ StackInv'
      /\ \A n : OnStack(n)' <=> OnStack(n)
      /\ \A n, d : Pending(n, d) => Pending(n, d)' \/ (n = Top.node /\ d = e)
  <2>1. f.todo \subseteq Top.todo /\ \A d : d \in Top.todo \ f.todo => d = e
    BY <1>2
  <2> QED
    BY <1>2, <1>3, <2>1, ReplaceTopInv
<1>5. e \in edges
  BY <1>1 DEF EdgesFrom
<1>6. constSources' \subseteq constSources \cup {e} /\ (e \in constSources' \ constSources => ~e.slice /\ IsConstant(e.from))
  BY DEF PassOver, Collect
<1>7. TypeOK'
  BY <1>3, <1>4, <1>5, <1>6 DEF inputs, Inv, TypeOK
<1>8. ConeInv'
  <2>1. e.to \in Cone
    BY <1>1 DEF EdgesFrom, Inv, ConeInv
  <2>2. constSources' \subseteq ConstantEdges
    BY <1>5, <1>6, <2>1 DEF ConstantEdges, Inv, ConeInv
  <2> QED
    BY <1>3, <2>2, GraphFrame DEF inputs, Inv, ConeInv
<1>9. Handled(e)'
  BY <1>3, GraphFrame DEF PassOver, Collect, Handled, InLoopGroup
<1>10. \A d : Handled(d) => Handled(d)'
  BY <1>3, GraphFrame DEF Handled
<1>11. SearchInv'
  <2>1. ~Failed
    BY <1>1 DEF Failed
  <2>2. \A n \in entered : \A d \in EdgesFrom(n) : Pending(n, d)' \/ Handled(d)'
    BY <1>4, <1>9, <1>10, <2>1 DEF Inv, SearchInv
  <2>3. \A n \in entered : OnStack(n)' \/ Driven(n)'
    BY <1>3, <1>4, <2>1, GraphFrame DEF Inv, SearchInv
  <2>4. entered' = entered /\ \A n : EdgesFrom(n)' = EdgesFrom(n)
    BY <1>3, GraphFrame
  <2> QED
    BY <2>2, <2>3, <2>4 DEF SearchInv
<1> QED
  BY <1>4, <1>7, <1>8, <1>11 DEF Inv, AnswerInv

\* The call fails, whatever it has still to examine.
LEMMA GiveUpStep ==
    ASSUME Inv, stack # <<>>, NEW e \in Top.todo, GiveUp(e)
    PROVE  Inv'
<1> DEFINE f == [Top EXCEPT !.result = FALSE]
<1>1. f \in Frame /\ f.node = Top.node /\ f.todo \subseteq Top.todo /\ f.result = FALSE
  BY TopFacts DEF Frame
<1>2. stack' = ReplaceTop(f) /\ UNCHANGED <<inputs, entered, constSources, answer>>
  BY DEF GiveUp
<1> HIDE DEF f
<1>3. stack' \in Seq(Frame) /\ stack' # <<>> /\ Top' = f /\ StackInv'
  BY <1>1, <1>2, ReplaceTopInv
<1>4. TypeOK'
  BY <1>2, <1>3 DEF inputs, Inv, TypeOK
<1>5. ConeInv'
  BY <1>2, GraphFrame DEF inputs, Inv, ConeInv
<1>6. SearchInv'
  BY <1>1, <1>3 DEF SearchInv, Failed
<1> QED
  BY <1>3, <1>4, <1>5, <1>6 DEF Inv, AnswerInv

\* A node is entered that no call has entered before.
LEMMA RecurseStep ==
    ASSUME Inv, stack # <<>>, ~Finished(Top), NEW e \in Top.todo, Recurse(e)
    PROVE  Inv'
<1> DEFINE f == [Top EXCEPT !.todo = @ \ {e}]
           s == ReplaceTop(f)
           m == e.from
           top == Len(stack)
<1>1. Top \in Frame /\ Top.node \in entered /\ e \in EdgesFrom(Top.node) /\ Top.result
  BY TopFacts DEF Finished
<1>2. f \in Frame /\ f.node = Top.node /\ f.todo = Top.todo \ {e} /\ f.result
  BY <1>1 DEF Frame
<1>3. /\ stack' = Append(s, Call(m)) /\ entered' = entered \cup {m}
      /\ UNCHANGED <<inputs, constSources, answer>>
      /\ m \notin entered /\ Follows(m) /\ ~e.slice
  BY DEF Recurse, InLoopGroup
<1>4. m \in Node /\ Call(m) \in Frame /\ Call(m).node = m /\ Call(m).todo = EdgesFrom(m) /\ Call(m).result
  BY <1>1 DEF Call, Frame, EdgesFrom, Edge, Inv, TypeOK
<1> HIDE DEF f, m
<1>5. /\ s \in Seq(Frame) /\ Len(s) = top /\ top \in 1..top /\ top \in Nat
      /\ s[top] = f
      /\ \A i \in 1..top : i # top => s[i] = stack[i]
  BY <1>2, TopFacts, ReplaceLast DEF ReplaceTop
<1> HIDE DEF s
<1>6. /\ stack' \in Seq(Frame) /\ Len(stack') = top + 1 /\ stack' # <<>>
      /\ stack'[top + 1] = Call(m)
      /\ \A i \in 1..top : stack'[i] = s[i]
  BY <1>3, <1>4, <1>5, PushCall
<1>7. \A i \in 1..top : /\ stack'[i].node = stack[i].node
                        /\ stack'[i].todo \subseteq stack[i].todo
                        /\ stack'[i].result
  <2>1. \A i \in 1..top : i # top => stack[i].result
    BY <1>5 DEF Inv, StackInv
  <2> QED
    BY <1>2, <1>5, <1>6, <2>1, TopFacts
<1>8. 1..(top + 1) = 1..top \cup {top + 1} /\ top + 1 \notin 1..top
  BY <1>5
<1>9. Top' = Call(m)
  BY <1>6 DEF Top
<1>10. TypeOK'
  BY <1>3, <1>4, <1>6 DEF inputs, Inv, TypeOK
<1>11. m \in Cone
  BY <1>1, <1>3, ConeClosed DEF Inv, ConeInv, m
<1>12. ConeInv'
  BY <1>3, <1>11, GraphFrame DEF inputs, Inv, ConeInv
<1>13. \A n : EdgesFrom(n)' = EdgesFrom(n)
  BY <1>3, GraphFrame
<1>14. StackInv'
  <2>1. \A i \in 1..(top + 1) : /\ stack'[i].node \in entered'
                                /\ stack'[i].todo \subseteq EdgesFrom(stack'[i].node)
    BY <1>3, <1>4, <1>6, <1>7, <1>8 DEF Inv, StackInv
  <2>2. \A i \in 1..(top + 1) : i < top + 1 => stack'[i].result /\ EdgesFrom(stack'[i].node) # {}
    <3>1. \A i \in 1..(top + 1) : i < top + 1 => i \in 1..top
      BY <1>5
    <3>2. \A i \in 1..top : EdgesFrom(stack[i].node) # {}
      <4>1. EdgesFrom(stack[top].node) # {}
        BY <1>1, TopFacts
      <4>2. \A i \in 1..top : i = top \/ i < top
        BY <1>5
      <4> QED
        BY <4>1, <4>2 DEF Inv, StackInv
    <3> QED
      BY <1>7, <3>1, <3>2
  <2>3. \A i, j \in 1..(top + 1) : stack'[i].node = stack'[j].node => i = j
    <3>1. \A i \in 1..top : stack'[i].node # m
      BY <1>3, <1>7 DEF Inv, StackInv
    <3>2. \A i, j \in 1..top : stack'[i].node = stack'[j].node => i = j
      BY <1>7 DEF Inv, StackInv, NoReentry
    <3> QED
      BY <1>4, <1>6, <1>8, <3>1, <3>2
  <2>4. stack'[1].node = root' /\ answer' = NoAnswer
    <3>1. 1 \in 1..top
      BY <1>5
    <3> QED
      BY <1>3, <1>7, <3>1, TopFacts DEF inputs, Inv, StackInv
  <2> QED
    BY <1>6, <1>13, <2>1, <2>2, <2>3, <2>4 DEF StackInv, NoReentry
<1>15. SearchInv'
  <2>1. ~Failed
    BY <1>1 DEF Failed
  <2>2. \A n : OnStack(n) => OnStack(n)'
    BY <1>6, <1>7, <1>8 DEF OnStack
  <2>3. OnStack(m)' /\ \A d \in EdgesFrom(m) : Pending(m, d)'
    BY <1>4, <1>6, <1>8 DEF OnStack, Pending
  <2>4. ASSUME NEW n, NEW d, Pending(n, d), d # e PROVE Pending(n, d)'
    <3>1. PICK i \in 1..top : stack[i].node = n /\ d \in stack[i].todo
      BY <2>4 DEF Pending
    <3>2. stack'[i].node = n /\ d \in stack'[i].todo
      BY <1>2, <1>5, <1>6, <2>4, <3>1, TopFacts
    <3> QED
      BY <1>6, <1>8, <3>1, <3>2 DEF Pending
  <2>5. Handled(e)' /\ \A d : Handled(d) => Handled(d)'
    BY <1>3, GraphFrame DEF Handled, m
  <2>6. \A n \in entered' : \A d \in EdgesFrom(n) : Pending(n, d)' \/ Handled(d)'
    BY <1>3, <2>1, <2>3, <2>4, <2>5 DEF Inv, SearchInv
  <2>7. \A n \in entered' : OnStack(n)' \/ Driven(n)'
    BY <1>3, <2>1, <2>2, <2>3, GraphFrame DEF Inv, SearchInv
  <2> QED
    BY <1>13, <2>6, <2>7 DEF SearchInv
<1> QED
  BY <1>6, <1>10, <1>12, <1>14, <1>15 DEF Inv, AnswerInv

-------------------------------------------------------------------------------
(* Returning.                                                              *)

\* Whatever the call returns, the stack below it stays sound, and if it has failed so
\* has the call below.
LEMMA PopInv ==
    ASSUME Inv, stack # <<>>, NEW ok \in BOOLEAN, ReturnWith(ok), UNCHANGED <<inputs, entered>>
    PROVE  /\ stack' \in Seq(Frame) /\ StackInv'
           /\ Len(stack') < Len(stack)
           /\ stack' = <<>> <=> Len(stack) = 1
           /\ ~ok => Failed'
           /\ stack' = <<>> => answer' = ok
           /\ ok => /\ \A n, d : Pending(n, d) => Pending(n, d)' \/ d \in Top.todo
                    /\ \A n : OnStack(n) => OnStack(n)' \/ n = Top.node
<1> DEFINE top == Len(stack)
           rest == SubSeq(stack, 1, top - 1)
           f == [rest[top - 1] EXCEPT !.result = FALSE]
<1>1. /\ rest \in Seq(Frame) /\ Len(rest) = top - 1 /\ top \in Nat \ {0}
      /\ rest = <<>> <=> top = 1
      /\ \A i \in 1..(top - 1) : rest[i] = stack[i]
  BY TopFacts, PopCall
<1>2. /\ stack' = IF ok \/ rest = <<>> THEN rest ELSE [rest EXCEPT ![Len(rest)].result = FALSE]
      /\ answer' = IF top = 1 THEN ok ELSE answer
  BY DEF ReturnWith, Below
<1> HIDE DEF rest
<1>3. /\ stack' \in Seq(Frame) /\ Len(stack') = top - 1 /\ (stack' = <<>> <=> top = 1)
      /\ \A i \in 1..(top - 1) : /\ stack'[i].node = stack[i].node
                                 /\ stack'[i].todo = stack[i].todo
                                 /\ i < top - 1 => stack'[i].result = stack[i].result
      /\ ~ok /\ top # 1 => ~stack'[top - 1].result
  <2>1. CASE ok \/ rest = <<>>
    BY <1>1, <1>2, <2>1
  <2>2. CASE ~(ok \/ rest = <<>>)
    <3>1. top - 1 \in 1..(top - 1) /\ rest[top - 1] \in Frame
      BY <1>1, <2>2
    <3>2. f \in Frame /\ f.node = rest[top - 1].node /\ f.todo = rest[top - 1].todo /\ ~f.result
      BY <3>1 DEF Frame
    <3>3. stack' = [rest EXCEPT ![Len(rest)] = f]
      BY <1>1, <1>2, <2>2
    <3> HIDE DEF f
    <3>4. /\ stack' \in Seq(Frame) /\ Len(stack') = Len(rest) /\ stack' # <<>>
          /\ stack'[Len(rest)] = f
          /\ \A i \in 1..Len(rest) : i # Len(rest) => stack'[i] = rest[i]
      BY <1>1, <2>2, <3>2, <3>3, ReplaceLast
    <3> QED
      BY <1>1, <2>2, <3>1, <3>2, <3>4
  <2> QED
    BY <2>1, <2>2
<1>4. \A i \in 1..(top - 1) : i \in 1..top /\ i < top
  BY <1>1
<1>5. StackInv'
  <2>1. \A n : EdgesFrom(n)' = EdgesFrom(n)
    BY GraphFrame
  <2>2. \A i \in 1..(top - 1) : /\ stack'[i].node \in entered
                                /\ stack'[i].todo \subseteq EdgesFrom(stack'[i].node)
                                /\ i < top - 1 => stack'[i].result
                                /\ EdgesFrom(stack'[i].node) # {}
    BY <1>3, <1>4 DEF Inv, StackInv
  <2>3. \A i, j \in 1..(top - 1) : stack'[i].node = stack'[j].node => i = j
    BY <1>3, <1>4 DEF Inv, StackInv, NoReentry
  <2>4. stack' # <<>> => stack'[1].node = root /\ answer' = NoAnswer
    <3>1. top # 1 => 1 \in 1..(top - 1)
      BY <1>1
    <3> QED
      BY <1>2, <1>3, <3>1 DEF Inv, StackInv
  <2>5. stack' = <<>> => answer' \in BOOLEAN
    BY <1>2, <1>3
  <2> QED
    BY <1>3, <2>1, <2>2, <2>3, <2>4, <2>5 DEF inputs, StackInv, NoReentry
<1>6. ~ok => Failed'
  BY <1>2, <1>3 DEF Failed, Top
<1>7. ASSUME ok, NEW n, NEW d, Pending(n, d), d \notin Top.todo
      PROVE  Pending(n, d)'
  <2>1. PICK i \in 1..top : stack[i].node = n /\ d \in stack[i].todo
    BY <1>7 DEF Pending
  <2>2. i \in 1..(top - 1)
    BY <1>1, <1>7, <2>1, TopFacts
  <2> QED
    BY <1>3, <2>1, <2>2 DEF Pending
<1>8. ASSUME ok, NEW n, OnStack(n), n # Top.node
      PROVE  OnStack(n)'
  <2>1. PICK i \in 1..top : stack[i].node = n
    BY <1>8 DEF OnStack
  <2>2. i \in 1..(top - 1)
    BY <1>1, <1>8, <2>1, TopFacts
  <2> QED
    BY <1>3, <2>1, <2>2 DEF OnStack
<1>9. Len(stack') < top
  BY <1>1, <1>3
<1> QED
  BY <1>2, <1>3, <1>5, <1>6, <1>7, <1>8, <1>9

\* When it is the root that nothing drives, nothing was collected.
LEMMA ReturnUndrivenStep ==
    ASSUME Inv, ReturnUndriven
    PROVE  Inv'
<1>1. /\ stack # <<>> /\ EdgesFrom(Top.node) = {} /\ ReturnWith(FALSE)
      /\ UNCHANGED <<inputs, entered, constSources>>
  BY DEF ReturnUndriven
<1>2. /\ stack' \in Seq(Frame) /\ StackInv' /\ Failed'
      /\ stack' = <<>> <=> Len(stack) = 1
  BY <1>1, PopInv
<1>3. TypeOK'
  BY <1>1, <1>2 DEF inputs, Inv, TypeOK
<1>4. ConeInv'
  BY <1>1, GraphFrame DEF inputs, Inv, ConeInv
<1>5. SearchInv'
  BY <1>2 DEF SearchInv
<1>6. AnswerInv'
  <2> SUFFICES ASSUME Len(stack) = 1 PROVE constSources = {}
    BY <1>1, <1>2 DEF AnswerInv
  <2>1. Top.node = root
    BY <1>1 DEF Top, Inv, StackInv
  <2>2. Drivers[root] = {}
    BY <1>1, <2>1 DEF Drivers, Inv, TypeOK
  <2>3. Cone \subseteq {root}
    <3>1. Closed(Drivers, {root})
      BY <2>2 DEF Closed
    <3>2. Drivers \in Graph /\ {root} \in SUBSET Node
      BY DriversGraph DEF Inv, TypeOK
    <3> QED
      BY <3>1, <3>2, ReachableLeast DEF Cone
  <2>4. ConstantEdges = {}
    BY <1>1, <2>1, <2>3 DEF ConstantEdges, EdgesFrom
  <2> QED
    BY <2>4 DEF Inv, ConeInv
<1> QED
  BY <1>2, <1>3, <1>4, <1>5, <1>6 DEF Inv

LEMMA ReturnStep ==
    ASSUME Inv, Return
    PROVE  Inv'
<1> DEFINE ok == Succeeds(Top)
<1>1. /\ stack # <<>> /\ EdgesFrom(Top.node) # {} /\ Finished(Top)
      /\ ReturnWith(ok) /\ constSources' = IF ok THEN constSources ELSE {}
      /\ UNCHANGED <<inputs, entered>>
  BY DEF Return, SourcesLeft
<1>2. Top.result \in BOOLEAN /\ ok \in BOOLEAN
  BY <1>1, TopFacts DEF Frame, Succeeds
<1>3. ok => Top.result /\ ~OnlyControls(Top.node) /\ Top.todo = {}
  BY <1>1 DEF Succeeds, Finished
<1> HIDE DEF ok
<1>4. /\ stack' \in Seq(Frame) /\ StackInv'
      /\ ~ok => Failed'
      /\ stack' = <<>> => answer' = ok
      /\ ok => /\ \A n, d : Pending(n, d) => Pending(n, d)' \/ d \in Top.todo
               /\ \A n : OnStack(n) => OnStack(n)' \/ n = Top.node
  BY <1>1, <1>2, PopInv
<1>5. TypeOK'
  BY <1>1, <1>4 DEF inputs, Inv, TypeOK
<1>6. ConeInv'
  BY <1>1, GraphFrame DEF inputs, Inv, ConeInv
<1>7. SearchInv'
  <2>1. CASE ~ok
    BY <1>4, <2>1 DEF SearchInv
  <2>2. CASE ok
    <3>1. ~Failed
      BY <1>1, <1>3, <2>2 DEF Failed
    <3>2. \A d : Handled(d) => Handled(d)'
      BY <1>1, <2>2, GraphFrame DEF Handled
    <3>3. \A n \in entered : \A d \in EdgesFrom(n) : Pending(n, d)' \/ Handled(d)'
      BY <1>3, <1>4, <2>2, <3>1, <3>2 DEF Inv, SearchInv
    <3>4. Driven(Top.node)
      BY <1>1, <1>3, <2>2 DEF Driven
    <3>5. \A n \in entered : OnStack(n)' \/ Driven(n)'
      BY <1>1, <1>4, <2>2, <3>1, <3>4, GraphFrame DEF Inv, SearchInv
    <3>6. entered' = entered /\ \A n : EdgesFrom(n)' = EdgesFrom(n)
      BY <1>1, GraphFrame
    <3> QED
      BY <3>3, <3>5, <3>6 DEF SearchInv
  <2> QED
    BY <2>1, <2>2
<1>8. AnswerInv'
  BY <1>1, <1>2, <1>4 DEF AnswerInv
<1> QED
  BY <1>4, <1>5, <1>6, <1>7, <1>8 DEF Inv

LEMMA NextInv == Inv /\ [Next]_vars => Inv'
<1> SUFFICES ASSUME Inv, [Next]_vars PROVE Inv'
  OBVIOUS
<1>1. CASE Examine
  <2>1. PICK e \in Top.todo : PassOver(e) \/ Recurse(e) \/ Collect(e) \/ GiveUp(e)
    BY <1>1 DEF Examine
  <2> QED
    BY <1>1, <2>1, ExamineStep, RecurseStep, GiveUpStep DEF Examine
<1>2. CASE UNCHANGED vars
  <2>1. UNCHANGED <<inputs, stack, entered, constSources, answer>>
    BY <1>2 DEF vars
  <2>2. TypeOK' /\ AnswerInv'
    BY <2>1 DEF inputs, Inv, TypeOK, AnswerInv
  <2>3. StackInv' /\ ConeInv'
    BY <2>1, GraphFrame DEF inputs, Inv, StackInv, NoReentry, ConeInv
  <2>4. Failed' = Failed /\ \A n, e : /\ Pending(n, e)' = Pending(n, e)
                                      /\ OnStack(n)' = OnStack(n)
                                      /\ Handled(e)' = Handled(e)
    BY <2>1, GraphFrame DEF Failed, Top, Pending, OnStack, Handled
  <2>5. SearchInv'
    BY <2>1, <2>4, GraphFrame DEF Inv, SearchInv
  <2> QED
    BY <2>2, <2>3, <2>5 DEF Inv
<1> QED
  BY <1>1, <1>2, ReturnUndrivenStep, ReturnStep DEF Next

\* The invariant holds throughout every search.
THEOREM Invariance == Spec => []Inv
<1>1. Init => Inv
  BY InitInv
<1>2. Inv /\ [Next]_vars => Inv'
  BY NextInv
<1> QED
  BY <1>1, <1>2, PTL DEF Spec

\* The recursion follows no loop of the graph.
THEOREM Termination == Spec => []NoReentry
<1>1. Inv => NoReentry
  BY DEF Inv, StackInv
<1> QED
  BY <1>1, Invariance, PTL

\* Every step enters a node, or returns from a call, or the innermost call fails, or has
\* one edge less to examine.
Grows(S, T) == S \subseteq T /\ S # T
Closer == \/ Grows(entered, entered')
          \/ entered' = entered /\ Len(stack') < Len(stack)
          \/ /\ entered' = entered /\ Len(stack') = Len(stack)
             /\ \/ Top.result /\ ~Top'.result
                \/ Top'.result = Top.result /\ Grows(Top'.todo, Top.todo)

\* The search ends on every graph that fits into memory, as every step descends in an
\* order in which nothing descends for ever.
THEOREM EveryStepCloser == Spec => [][Closer]_vars
<1>1. ASSUME Inv, stack # <<>>, ~Finished(Top), NEW e \in Top.todo,
             PassOver(e) \/ Collect(e) \/ Recurse(e) \/ GiveUp(e)
      PROVE  Closer
  <2>1. Top \in Frame /\ Top.todo \subseteq EdgesFrom(Top.node) /\ Top.result
    BY <1>1, TopFacts DEF Finished
  <2>2. CASE PassOver(e) \/ Collect(e)
    <3> DEFINE f == [Top EXCEPT !.todo = @ \ {e}]
    <3>1. f \in Frame /\ f.node = Top.node /\ f.todo = Top.todo \ {e} /\ f.result = Top.result
      BY <2>1 DEF Frame
    <3>2. stack' = ReplaceTop(f) /\ UNCHANGED <<inputs, entered, answer>>
      BY <2>2 DEF PassOver, Collect
    <3> HIDE DEF f
    <3>3. f.todo \subseteq Top.todo
      BY <3>1
    <3>4. Len(stack') = Len(stack) /\ Top' = f
      BY <1>1, <3>1, <3>2, <3>3, ReplaceTopInv
    <3>5. Grows(f.todo, Top.todo)
      BY <1>1, <3>1 DEF Grows
    <3> QED
      BY <3>1, <3>2, <3>4, <3>5 DEF Closer
  <2>3. CASE Recurse(e)
    <3>1. entered' = entered \cup {e.from} /\ e.from \notin entered
      BY <2>3 DEF Recurse, InLoopGroup
    <3> QED
      BY <3>1 DEF Closer, Grows
  <2>4. CASE GiveUp(e)
    <3> DEFINE f == [Top EXCEPT !.result = FALSE]
    <3>1. f \in Frame /\ f.node = Top.node /\ f.todo \subseteq Top.todo /\ ~f.result
      BY <2>1 DEF Frame
    <3>2. stack' = ReplaceTop(f) /\ UNCHANGED <<inputs, entered, answer>>
      BY <2>4 DEF GiveUp
    <3> HIDE DEF f
    <3>3. Len(stack') = Len(stack) /\ Top' = f
      BY <1>1, <3>1, <3>2, ReplaceTopInv
    <3> QED
      BY <2>1, <3>1, <3>2, <3>3 DEF Closer
  <2> QED
    BY <1>1, <2>2, <2>3, <2>4
<1>2. ASSUME Inv, stack # <<>>, NEW ok \in BOOLEAN, ReturnWith(ok), UNCHANGED <<inputs, entered>>
      PROVE  Closer
  BY <1>2, PopInv DEF Closer
<1>3. Inv /\ Examine => Closer
  BY <1>1 DEF Examine
<1>4. Inv /\ ReturnUndriven => Closer
  BY <1>2 DEF ReturnUndriven
<1>5. Inv /\ Return => Closer
  <2>1. Inv /\ stack # <<>> => Succeeds(Top) \in BOOLEAN
    BY DEF Succeeds
  <2> QED
    BY <1>2, <2>1 DEF Return
<1>6. Inv /\ [Next]_vars => [Closer]_vars
  BY <1>3, <1>4, <1>5 DEF Next
<1> QED
  BY <1>6, Invariance, PTL DEF Spec

\* When every edge of the nodes entered is dealt with, they are the whole cone and no
\* constant that drives it is left out.
LEMMA AllExamined ==
    ASSUME Inv, \A n \in entered : \A e \in EdgesFrom(n) : Handled(e)
    PROVE  Cone = entered /\ constSources = ConstantEdges
<1>1. Closed(Drivers, entered)
  <2> SUFFICES ASSUME NEW n \in entered, NEW m \in Drivers[n] PROVE m \in entered
    BY DEF Closed
  <2>1. n \in Node
    BY DEF Inv, TypeOK
  <2>2. PICK e \in EdgesFrom(n) : ~e.slice /\ Follows(e.from) /\ m = e.from
    BY <2>1 DEF Drivers
  <2>3. Handled(e)
    OBVIOUS
  <2> QED
    BY <2>2, <2>3 DEF Handled, SkipsControl, IsConstant
<1>2. Cone = entered
  <2>1. /\ Drivers \in Graph /\ {root} \in SUBSET Node
        /\ entered \in SUBSET Node /\ {root} \subseteq entered /\ entered \subseteq Cone
    BY DriversGraph DEF Inv, TypeOK, ConeInv
  <2>2. Cone \subseteq entered
    BY <1>1, <2>1, ReachableLeast DEF Cone
  <2> QED
    BY <2>1, <2>2
<1>3. ConstantEdges \subseteq constSources
  <2> SUFFICES ASSUME NEW e \in ConstantEdges PROVE e \in constSources
    OBVIOUS
  <2>1. e \in EdgesFrom(e.to) /\ e.to \in entered /\ ~e.slice /\ IsConstant(e.from)
    BY <1>2 DEF ConstantEdges, EdgesFrom
  <2>2. Handled(e)
    BY <2>1
  <2> QED
    BY <2>1, <2>2 DEF Handled, IsConstant, SkipsControl, Inv, ConeInv
<1> QED
  BY <1>2, <1>3 DEF Inv, ConeInv

\* A search that has succeeded has examined every edge of the cone.
LEMMA SuccessEnters ==
    ASSUME Inv, stack = <<>>, answer = TRUE
    PROVE  \A n \in entered : Driven(n) /\ \A e \in EdgesFrom(n) : Handled(e)
<1>1. ~Failed
  BY DEF Failed
<1>2. Len(stack) = 0
  OBVIOUS
<1>3. \A n, e : ~Pending(n, e) /\ ~OnStack(n)
  BY <1>2 DEF Pending, OnStack
<1> QED
  BY <1>1, <1>3 DEF Inv, SearchInv

LEMMA InvSourcesExact == Inv => SourcesExact
<1> SUFFICES ASSUME Inv, answer # NoAnswer
             PROVE  /\ constSources = IF answer THEN ConstantEdges ELSE {}
                    /\ answer => \A n \in Cone : ~Spoiled(n)
  BY DEF SourcesExact
<1>1. stack = <<>> /\ answer \in BOOLEAN
  BY DEF Inv, StackInv
<1>2. CASE answer = FALSE
  BY <1>1, <1>2 DEF Inv, AnswerInv
<1>3. CASE answer = TRUE
  <2>1. /\ Cone = entered /\ constSources = ConstantEdges
        /\ \A n \in entered : Driven(n) /\ \A e \in EdgesFrom(n) : Handled(e)
    BY <1>1, <1>3, SuccessEnters, AllExamined
  <2>2. \A n \in entered : Follows(n)
    BY DEF Inv, ConeInv
  <2>4. ASSUME NEW n \in Cone PROVE ~Spoiled(n)
    <3>1. Driven(n) /\ \A e \in EdgesFrom(n) : Handled(e)
      BY <2>1
    <3>2. ASSUME NEW e \in EdgesFrom(n), ~e.slice
          PROVE  Follows(e.from) \/ SkipsControl(e.from) \/ IsConstant(e.from)
      BY <2>2, <3>1, <3>2 DEF Handled
    <3>3. \A e \in EdgesFrom(n) : e.slice => e \in {d \in edges : d.slice}
      BY DEF EdgesFrom
    <3> QED
      BY <3>1, <3>2, <3>3 DEF Spoiled, Driven
  <2> QED
    BY <1>3, <2>1, <2>4 DEF Inv, ConeInv
<1> QED
  BY <1>1, <1>2, <1>3

\* A search that succeeds returns every edge by which a constant reaches the register and
\* overlooks no driver that is none; one that fails returns nothing.
THEOREM Exactness == Spec => []SourcesExact
BY InvSourcesExact, Invariance, PTL

-------------------------------------------------------------------------------
(* Registers in the style of a reset.                                      *)

\* A call was made from the one below it, for the source of an edge into its node.
CallerInv == \A i \in 1..Len(stack) : i # 1 =>
                 \E e \in edges : e.from = stack[i].node /\ e.to = stack[i - 1].node

\* Such a register is not given up.
ResetInv == ResetStyle => ~Failed

ResetStyleInv == Inv /\ CallerInv /\ ResetInv

LEMMA FiniteEdges ==
    ASSUME NEW es \in SUBSET Edge
    PROVE  IsFiniteSet(es)
<1> DEFINE P == (Node \X Node) \X BOOLEAN
           pair == [e \in Edge |-> <<<<e.from, e.to>>, e.slice>>]
<1>1. IsFiniteSet(BOOLEAN)
  <2>1. IsFiniteSet({TRUE} \cup {FALSE}) /\ BOOLEAN = {TRUE} \cup {FALSE}
    BY FS_Singleton, FS_AddElement
  <2> QED
    BY <2>1, Zenon
<1>2. IsFiniteSet(P)
  BY <1>1, FiniteGraph, FS_Product
<1>3. pair \in Injection(Edge, P)
  <2>1. pair \in [Edge -> P]
    BY DEF Edge
  <2>2. ASSUME NEW d \in Edge, NEW e \in Edge, pair[d] = pair[e] PROVE d = e
    <3>1. d.from = e.from /\ d.to = e.to /\ d.slice = e.slice
      BY <2>2
    <3> QED
      BY <3>1 DEF Edge
  <2> QED
    BY <2>1, <2>2 DEF Injection, IsInjective
<1>4. IsFiniteSet(Edge)
  BY <1>2, <1>3, FS_Injection
<1> QED
  BY <1>4, FS_Subset

LEMMA OnlyEdge ==
    ASSUME TypeOK, NEW f, Cardinality({e \in edges : e.from = f}) = 1,
           NEW d \in edges, NEW e \in edges, d.from = f, e.from = f
    PROVE  d = e
<1> DEFINE S == {x \in edges : x.from = f}
<1>1. IsFiniteSet(S)
  BY FiniteEdges DEF TypeOK
<1>2. PICK x : S = {x}
  BY <1>1, FS_Singleton
<1> QED
  BY <1>2

OwnGraph == [m \in Node |-> {f \in Drivers[m] \ {root} : Cardinality({e \in edges : e.from = f}) = 1}]

\* When a call has examined every edge, the calls for the nodes that drive nothing but
\* its own node, directly or in turn, have returned.
LEMMA OwnReturned ==
    ASSUME Inv, CallerInv, stack # <<>>, Top.result, Top.todo = {}
    PROVE  \A m \in OwnDrivers(Top.node) : m \in entered /\ (OnStack(m) => m = Top.node)
<1> DEFINE n == Top.node
           C == {m \in entered : OnStack(m) => m = n}
           top == Len(stack)
<1>1. /\ n \in entered /\ entered \subseteq Node /\ top \in Nat /\ stack[top].node = n /\ top \in 1..top
      /\ \A i, j \in 1..top : stack[i].node = stack[j].node => i = j
      /\ stack[1].node = root
  BY TopFacts DEF Inv, TypeOK, StackInv, NoReentry
<1>2. OwnGraph \in Graph
  BY DriversGraph DEF OwnGraph, Graph, Inv, TypeOK
<1>3. Closed(OwnGraph, C)
  <2> SUFFICES ASSUME NEW m \in C, NEW f \in OwnGraph[m] PROVE f \in C
    BY DEF Closed
  <2>1. m \in Node /\ f \in Drivers[m] /\ f # root /\ Cardinality({e \in edges : e.from = f}) = 1
    BY <1>1 DEF OwnGraph
  <2>2. PICK e \in EdgesFrom(m) : ~e.slice /\ Follows(e.from) /\ f = e.from
    BY <2>1 DEF Drivers
  <2>3. ~Pending(m, e)
    <3> SUFFICES ASSUME NEW i \in 1..top, stack[i].node = m, e \in stack[i].todo PROVE FALSE
      BY DEF Pending
    <3>1. m = n
      BY DEF OnStack
    <3>2. i = top
      BY <1>1, <3>1
    <3> QED
      BY <3>2 DEF Top
  <2>4. Handled(e)
    BY <2>3 DEF Failed, Inv, SearchInv
  <2>5. f \in entered
    BY <2>2, <2>4 DEF Handled, SkipsControl, IsConstant
  <2>6. ASSUME OnStack(f) PROVE FALSE
    <3>1. PICK i \in 1..top : stack[i].node = f
      BY <2>6 DEF OnStack
    <3>2. i # 1
      BY <1>1, <2>1, <3>1
    <3>3. PICK d \in edges : d.from = f /\ d.to = stack[i - 1].node
      BY <3>1, <3>2 DEF CallerInv
    <3>4. d = e /\ e.to = m
      BY <2>1, <2>2, <3>3, OnlyEdge DEF EdgesFrom, Inv
    <3>5. stack[i - 1].node = m /\ i - 1 \in 1..top /\ i - 1 # top
      BY <1>1, <3>1, <3>2, <3>3, <3>4
    <3>6. m = n
      BY <3>5 DEF OnStack
    <3> QED
      BY <1>1, <3>5, <3>6
  <2> QED
    BY <2>5, <2>6
<1>4. OwnDrivers(n) \subseteq C
  <2>1. {n} \subseteq C /\ C \in SUBSET Node /\ {n} \in SUBSET Node
    BY <1>1
  <2> HIDE DEF C, n
  <2>2. ReachableFrom(OwnGraph, {n}) \subseteq C
    BY <1>2, <1>3, <2>1, ReachableLeast
  <2> QED
    BY <2>2 DEF OwnDrivers, OwnGraph
<1> QED
  BY <1>4

LEMMA OwnConstantFound ==
    ASSUME Inv, CallerInv, stack # <<>>, Top.result, Top.todo = {}, OwnConstant(Top.node)
    PROVE  constSources # {}
<1>0. PICK m \in OwnDrivers(Top.node) : \E e \in EdgesFrom(m) : ~e.slice /\ IsConstant(e.from)
  BY DEF OwnConstant
<1>1. PICK e \in EdgesFrom(m) : ~e.slice /\ IsConstant(e.from)
  BY <1>0
<1>2. m \in entered /\ (OnStack(m) => m = Top.node)
  BY OwnReturned
<1>3. ~Pending(m, e)
  <2> SUFFICES ASSUME NEW i \in 1..Len(stack), stack[i].node = m, e \in stack[i].todo PROVE FALSE
    BY DEF Pending
  <2>1. stack[i].node = stack[Len(stack)].node
    BY <1>2 DEF OnStack, Top
  <2>2. i = Len(stack)
    BY <2>1, TopFacts DEF Inv, StackInv, NoReentry
  <2> QED
    BY <2>2 DEF Top
<1>4. Handled(e)
  BY <1>2, <1>3 DEF Failed, Inv, SearchInv
<1> QED
  BY <1>1, <1>4 DEF Handled, IsConstant, SkipsControl, Inv, ConeInv

\* When the outermost call has examined every edge, all constants are collected.
LEMMA RootFound ==
    ASSUME Inv, stack # <<>>, Top.result, Top.todo = {}, Top.node = root
    PROVE  constSources = ConstantEdges
<1>1. Len(stack) \in 1..Len(stack) /\ Len(stack) \in Nat /\ 1 \in 1..Len(stack)
  BY TopFacts
<1>2. Len(stack) = 1
  BY <1>1 DEF Inv, StackInv, NoReentry, Top
<1>3. \A n, e : ~Pending(n, e)
  BY <1>2 DEF Pending, Top
<1> QED
  BY <1>3, AllExamined DEF Failed, Inv, SearchInv

LEMMA ResetStyleFrame ==
    ASSUME UNCHANGED inputs
    PROVE  ResetStyle' = ResetStyle
<1> USE DEF inputs
<1>1. Drivers' = Drivers /\ Cone' = Cone /\ ConstantEdges' = ConstantEdges
  BY GraphFrame DEF Drivers, EdgesFrom, Follows, HasType
<1>2. ASSUME NEW n PROVE Spoiled(n)' = Spoiled(n)
  <2>1. /\ EdgesFrom(n)' = EdgesFrom(n) /\ OnlyControls(n)' = OnlyControls(n)
        /\ \A m : Follows(m)' = Follows(m) /\ SkipsControl(m)' = SkipsControl(m) /\ IsConstant(m)' = IsConstant(m)
    BY GraphFrame
  <2> QED
    BY <2>1 DEF Spoiled
<1>3. ASSUME NEW n PROVE OwnConstant(n)' = OwnConstant(n)
  <2>1. OwnDrivers(n)' = OwnDrivers(n)
    BY <1>1 DEF OwnDrivers, ReachableFrom, Closed
  <2>2. \A m : EdgesFrom(m)' = EdgesFrom(m) /\ IsConstant(m)' = IsConstant(m)
    BY GraphFrame
  <2> QED
    BY <2>1, <2>2 DEF OwnConstant
<1> QED
  BY <1>1, <1>2, <1>3 DEF ResetStyle, HasType

LEMMA CallerStep ==
    ASSUME ResetStyleInv, [Next]_vars
    PROVE  CallerInv'
<1> DEFINE top == Len(stack)
<1>1. CASE UNCHANGED vars
  BY <1>1 DEF vars, inputs, ResetStyleInv, CallerInv
<1>2. ASSUME stack # <<>>, edges' = edges, NEW k \in Nat, k <= top, Len(stack') = k,
             \A i \in 1..k : stack'[i].node = stack[i].node
      PROVE  CallerInv'
  <2>1. top \in Nat
    BY <1>2, TopFacts DEF ResetStyleInv
  <2> SUFFICES ASSUME NEW i \in 1..k, i # 1
               PROVE  \E e \in edges : e.from = stack'[i].node /\ e.to = stack'[i - 1].node
    BY <1>2 DEF CallerInv
  <2>2. i \in 1..top /\ i - 1 \in 1..k
    BY <1>2, <2>1
  <2> QED
    BY <1>2, <2>2 DEF ResetStyleInv, CallerInv
<1>3. ASSUME stack # <<>>, NEW f \in Frame, f.node = Top.node
      PROVE  LET s == ReplaceTop(f)
             IN  s \in Seq(Frame) /\ Len(s) = top /\ \A i \in 1..top : s[i].node = stack[i].node
  <2>1. /\ ReplaceTop(f) \in Seq(Frame) /\ Len(ReplaceTop(f)) = top
        /\ ReplaceTop(f)[top] = f
        /\ \A i \in 1..top : i # top => ReplaceTop(f)[i] = stack[i]
    BY <1>3, TopFacts, ReplaceLast DEF ReplaceTop, ResetStyleInv
  <2> QED
    BY <1>3, <2>1, TopFacts DEF ResetStyleInv
<1>4. ASSUME Examine PROVE CallerInv'
  <2>1. PICK e \in Top.todo : PassOver(e) \/ Recurse(e) \/ Collect(e) \/ GiveUp(e)
    BY <1>4 DEF Examine
  <2> DEFINE f == [Top EXCEPT !.todo = @ \ {e}]
             g == [Top EXCEPT !.result = FALSE]
  <2>2. stack # <<>> /\ Top \in Frame /\ e \in EdgesFrom(Top.node) /\ top \in Nat
    BY <1>4, TopFacts DEF Examine, ResetStyleInv
  <2>3. f \in Frame /\ f.node = Top.node /\ g \in Frame /\ g.node = Top.node
    BY <2>2 DEF Frame
  <2> HIDE DEF f, g
  <2>4. CASE PassOver(e) \/ Collect(e) \/ GiveUp(e)
    <3>1. edges' = edges /\ (stack' = ReplaceTop(f) \/ stack' = ReplaceTop(g))
      BY <2>4 DEF PassOver, Collect, GiveUp, inputs, f, g
    <3> QED
      BY <1>2, <1>3, <2>2, <2>3, <3>1
  <2>5. CASE Recurse(e)
    <3> DEFINE s == ReplaceTop(f)
    <3>1. edges' = edges /\ stack' = Append(s, Call(e.from))
      BY <2>5 DEF Recurse, inputs, f
    <3>2. s \in Seq(Frame) /\ Len(s) = top /\ \A i \in 1..top : s[i].node = stack[i].node
      BY <1>3, <2>2, <2>3
    <3>3. Call(e.from) \in Frame /\ Call(e.from).node = e.from /\ e \in edges /\ e.to = Top.node
      BY <2>2 DEF Call, Frame, EdgesFrom, Edge, ResetStyleInv, Inv, TypeOK
    <3> HIDE DEF s
    <3>4. /\ Len(stack') = top + 1 /\ stack'[top + 1] = Call(e.from)
          /\ \A i \in 1..top : stack'[i] = s[i]
      BY <3>1, <3>2, <3>3, PushCall
    <3> SUFFICES ASSUME NEW i \in 1..(top + 1), i # 1
                 PROVE  \E d \in edges : d.from = stack'[i].node /\ d.to = stack'[i - 1].node
      BY <3>1, <3>4 DEF CallerInv
    <3>5. CASE i = top + 1
      <4>1. i - 1 = top /\ top \in 1..top
        BY <2>2, <3>5
      <4>2. stack'[i - 1].node = Top.node
        BY <3>2, <3>4, <4>1 DEF Top
      <4> QED
        BY <3>3, <3>4, <3>5, <4>2
    <3>6. CASE i # top + 1
      <4>1. i \in 1..top /\ i - 1 \in 1..top
        BY <2>2, <3>6
      <4> QED
        BY <3>2, <3>4, <4>1 DEF ResetStyleInv, CallerInv
    <3> QED
      BY <3>5, <3>6
  <2> QED
    BY <2>1, <2>4, <2>5
<1>5. ASSUME stack # <<>>, edges' = edges, NEW ok, ReturnWith(ok) PROVE CallerInv'
  <2> DEFINE rest == SubSeq(stack, 1, top - 1)
  <2>0. stack \in Seq(Frame)
    BY DEF ResetStyleInv, Inv, TypeOK
  <2>1. /\ rest \in Seq(Frame) /\ Len(rest) = top - 1 /\ top \in Nat \ {0}
        /\ \A i \in 1..(top - 1) : rest[i] = stack[i]
    BY <1>5, <2>0, PopCall
  <2>2. stack' = IF ok \/ rest = <<>> THEN rest ELSE [rest EXCEPT ![Len(rest)].result = FALSE]
    BY <1>5 DEF ReturnWith, Below
  <2> HIDE DEF rest
  <2>3. CASE ok \/ rest = <<>>
    BY <1>2, <1>5, <2>1, <2>2, <2>3
  <2>4. CASE ~(ok \/ rest = <<>>)
    <3> DEFINE f == [rest[top - 1] EXCEPT !.result = FALSE]
    <3>1. top - 1 \in 1..(top - 1) /\ rest[top - 1] \in Frame
      BY <2>1, <2>4
    <3>2. f \in Frame /\ f.node = rest[top - 1].node
      BY <3>1 DEF Frame
    <3>3. stack' = [rest EXCEPT ![Len(rest)] = f]
      BY <2>1, <2>2, <2>4
    <3> HIDE DEF f
    <3>4. /\ Len(stack') = Len(rest) /\ stack'[Len(rest)] = f
          /\ \A i \in 1..Len(rest) : i # Len(rest) => stack'[i] = rest[i]
      BY <2>1, <2>4, <3>2, <3>3, ReplaceLast
    <3>5. top - 1 \in Nat /\ top - 1 <= top /\ Len(stack') = top - 1
          /\ \A i \in 1..(top - 1) : stack'[i].node = stack[i].node
      BY <2>1, <3>1, <3>2, <3>4
    <3> QED
      BY <1>2, <1>5, <3>5
  <2> QED
    BY <2>3, <2>4
<1>6. CASE ReturnUndriven \/ Return
  <2>1. stack # <<>> /\ edges' = edges /\ \E ok \in {FALSE, Succeeds(Top)} : ReturnWith(ok)
    BY <1>6 DEF ReturnUndriven, Return, inputs
  <2> QED
    BY <1>5, <2>1
<1> QED
  BY <1>1, <1>4, <1>6 DEF Next

LEMMA ResetStep ==
    ASSUME ResetStyleInv, [Next]_vars
    PROVE  ResetInv'
<1> SUFFICES ASSUME ResetStyle PROVE ~Failed'
  <2>1. UNCHANGED inputs
    BY DEF Next, Examine, PassOver, Recurse, Collect, GiveUp, ReturnUndriven, Return, vars
  <2> QED
    BY <2>1, ResetStyleFrame DEF ResetInv
<1>1. ~Failed /\ \A n \in entered : ~Spoiled(n)
  BY DEF ResetStyleInv, ResetInv, Inv, ConeInv, ResetStyle
<1>2. CASE UNCHANGED vars
  BY <1>1, <1>2 DEF vars, Failed, Top
<1>3. ASSUME stack # <<>>, NEW e \in Top.todo
      PROVE  ~GiveUp(e) /\ EdgesFrom(Top.node) # {}
  <2>1. Top.node \in entered /\ e \in EdgesFrom(Top.node)
    BY <1>3, TopFacts DEF ResetStyleInv
  <2>2. ~Spoiled(Top.node)
    BY <1>1, <2>1
  <2> QED
    BY <2>1, <2>2 DEF Spoiled, GiveUp
<1>4. CASE Examine
  <2>1. PICK e \in Top.todo : PassOver(e) \/ Recurse(e) \/ Collect(e)
    BY <1>3, <1>4 DEF Examine
  <2> DEFINE f == [Top EXCEPT !.todo = @ \ {e}]
  <2>2. /\ stack # <<>> /\ stack \in Seq(Frame) /\ Top \in Frame /\ Top.result /\ e \in EdgesFrom(Top.node)
        /\ Len(stack) \in Nat
    BY <1>4, TopFacts DEF Examine, Finished, ResetStyleInv
  <2>3. f \in Frame /\ f.result
    BY <2>2 DEF Frame
  <2> HIDE DEF f
  <2>4. /\ ReplaceTop(f) \in Seq(Frame) /\ Len(ReplaceTop(f)) = Len(stack) /\ ReplaceTop(f) # <<>>
        /\ ReplaceTop(f)[Len(stack)] = f
    BY <2>2, <2>3, ReplaceLast DEF ReplaceTop
  <2>5. CASE PassOver(e) \/ Collect(e)
    <3>1. stack' = ReplaceTop(f)
      BY <2>5 DEF PassOver, Collect, f
    <3>2. stack' # <<>> /\ Top' = f
      BY <2>4, <3>1 DEF Top
    <3> QED
      BY <2>3, <3>2 DEF Failed
  <2>6. CASE Recurse(e)
    <3>1. stack' = Append(ReplaceTop(f), Call(e.from))
      BY <2>6 DEF Recurse, f
    <3>2. Call(e.from) \in Frame /\ Call(e.from).result
      BY <2>2 DEF Call, Frame, EdgesFrom, Edge, ResetStyleInv, Inv, TypeOK
    <3>3. stack' # <<>> /\ stack'[Len(stack')] = Call(e.from)
      BY <2>4, <3>1, <3>2, PushCall
    <3> QED
      BY <3>2, <3>3 DEF Failed, Top
  <2> QED
    BY <2>1, <2>5, <2>6
<1>5. ASSUME ReturnUndriven PROVE FALSE
  <2>1. stack # <<>> /\ EdgesFrom(Top.node) = {}
    BY <1>5 DEF ReturnUndriven
  <2>2. Top.node \in entered
    BY <2>1, TopFacts DEF ResetStyleInv
  <2> QED
    BY <1>1, <2>1, <2>2 DEF Spoiled
<1>6. CASE Return
  <2>1. stack # <<>> /\ Finished(Top) /\ ReturnWith(Succeeds(Top))
    BY <1>6 DEF Return
  <2>2. Top.result /\ Top.todo = {} /\ Top.node \in entered /\ Top.node \in Cone
    BY <1>1, <2>1, TopFacts DEF Failed, Finished, ResetStyleInv, Inv, ConeInv
  <2>3. ~OnlyControls(Top.node)
    BY <1>1, <2>2 DEF Spoiled
  <2>4. constSources # {} \/ HasType(Top.node, "Assign")
    <3>1. CASE OwnConstant(Top.node)
      BY <2>1, <2>2, <3>1, OwnConstantFound DEF ResetStyleInv
    <3>2. CASE Top.node = root /\ ConstantEdges # {}
      BY <2>1, <2>2, <3>2, RootFound DEF ResetStyleInv
    <3> QED
      BY <2>2, <3>1, <3>2 DEF ResetStyle
  <2>5. Succeeds(Top)
    BY <2>2, <2>3, <2>4 DEF Succeeds
  <2> DEFINE rest == SubSeq(stack, 1, Len(stack) - 1)
  <2>6. stack' = rest /\ answer' = IF Len(stack) = 1 THEN Succeeds(Top) ELSE answer
    BY <2>1, <2>5 DEF ReturnWith, Below
  <2>7. /\ rest \in Seq(Frame) /\ Len(rest) = Len(stack) - 1 /\ Len(stack) \in Nat \ {0}
        /\ rest = <<>> <=> Len(stack) = 1
        /\ \A i \in 1..(Len(stack) - 1) : rest[i] = stack[i]
    BY <2>1, TopFacts, PopCall DEF ResetStyleInv
  <2> HIDE DEF rest
  <2>8. CASE Len(stack) = 1
    BY <2>5, <2>6, <2>7, <2>8 DEF Failed
  <2>9. CASE Len(stack) # 1
    <3>1. Len(rest) \in 1..Len(stack) /\ Len(rest) < Len(stack) /\ Len(rest) \in 1..(Len(stack) - 1)
      BY <2>7, <2>9
    <3>2. rest[Len(rest)].result
      BY <2>7, <3>1 DEF ResetStyleInv, Inv, StackInv
    <3> QED
      BY <2>6, <2>7, <2>9, <3>2 DEF Failed, Top
  <2> QED
    BY <2>8, <2>9
<1> QED
  BY <1>2, <1>4, <1>5, <1>6 DEF Next

\* In a design written with resets no call of constant_driver fails.
THEOREM ResetStyles == Spec => []ResetStyleInv
<1>1. Init => ResetStyleInv
  <2> SUFFICES ASSUME Init PROVE CallerInv /\ ResetInv
    BY InitInv DEF ResetStyleInv
  <2>1. Len(stack) = 1 /\ stack # <<>> /\ Top = Call(root)
    BY DEF Init, Top
  <2>2. CallerInv
    BY <2>1 DEF CallerInv
  <2>3. ~Failed
    BY <2>1 DEF Failed, Call
  <2> QED
    BY <2>2, <2>3 DEF ResetInv
<1>2. ResetStyleInv /\ [Next]_vars => ResetStyleInv'
  BY NextInv, CallerStep, ResetStep DEF ResetStyleInv
<1> QED
  BY <1>1, <1>2, PTL DEF Spec

\* A register whose every driver has a constant of its own is recognised, in every graph
\* and whatever edges the calls examine first.
THEOREM Recognition == Spec => []ResetStyleFound
<1>1. ResetStyleInv => ResetStyleFound
  <2> SUFFICES ASSUME ResetStyleInv, answer # NoAnswer, ResetStyle PROVE answer = TRUE
    BY DEF ResetStyleFound
  <2> QED
    BY DEF ResetStyleInv, ResetInv, Failed, Inv, StackInv
<1> QED
  BY <1>1, ResetStyles, PTL
===============================================================================
