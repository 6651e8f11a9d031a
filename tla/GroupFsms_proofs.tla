---------------------------- MODULE GroupFsms_proofs ----------------------------
(***************************************************************************)
(* group_fsms for any graph, any machines and any number of workers: what  *)
(* is returned are the pairs with a path between them, and no task         *)
(* outlives the call although the caller never waits for all of them.      *)
(***************************************************************************)
EXTENDS GroupFsms, FiniteSetTheorems, TLAPS

\* What is reachable is the least set that holds the origins and that no edge leaves: a
\* search may mark its origins and follow any edge, and one that has run dry has missed
\* nothing.
LEMMA ReachableLeast ==
    ASSUME NEW g \in Graph, NEW S \in SUBSET Node
    PROVE  /\ S \subseteq ReachableFrom(g, S) /\ ReachableFrom(g, S) \subseteq Node
           /\ Closed(g, ReachableFrom(g, S))
           /\ \A C \in SUBSET Node : S \subseteq C /\ Closed(g, C) => ReachableFrom(g, S) \subseteq C
<1>1. ASSUME NEW n \in ReachableFrom(g, S), NEW m \in g[n]
      PROVE  m \in ReachableFrom(g, S)
  <2>1. n \in Node /\ m \in Node
    BY DEF ReachableFrom, Graph
  <2>2. ASSUME NEW C \in SUBSET Node, S \subseteq C, Closed(g, C)
        PROVE  m \in C
    <3>1. n \in C
      BY <2>2 DEF ReachableFrom
    <3> QED
      BY <2>2, <3>1 DEF Closed
  <2> QED
    BY <2>1, <2>2 DEF ReachableFrom
<1>2. Closed(g, ReachableFrom(g, S))
  BY <1>1 DEF Closed
<1> QED
  BY <1>2 DEF ReachableFrom

\* Starting from what is reachable reaches nothing new.
LEMMA ReachableMonotone ==
    ASSUME NEW g \in Graph, NEW S \in SUBSET Node,
           NEW T \in SUBSET Node, T \subseteq ReachableFrom(g, S)
    PROVE  ReachableFrom(g, T) \subseteq ReachableFrom(g, S)
BY ReachableLeast

\* Nothing is reachable from nowhere.
LEMMA ReachableEmpty ==
    ASSUME NEW g \in Graph
    PROVE  ReachableFrom(g, {}) = {}
BY ReachableLeast DEF Closed

-------------------------------------------------------------------------------
(* What the loop of ParallelFor keeps by itself, whatever its tasks do, as *)
(* long as it passes over no item: every task is in one place only, and    *)
(* what the caller has collected is there.                                 *)

\* A task waits in the queue, or one worker runs it, or its outcome is known.
PoolInv == /\ Range(futures) = Task \ remaining
           /\ queued \subseteq Range(futures)
           /\ \A w \in Worker : running[w] # NoTask => running[w] \in Range(futures) \ queued
           /\ \A v, w \in Worker : running[v] = running[w] /\ running[v] # NoTask => v = w
           /\ \A t \in Task : outcome[t] # "pending" =>
                 /\ t \in Range(futures) \ queued
                 /\ \A w \in Worker : running[w] # t

\* How far the caller has come with its futures.
CallerInv == /\ loop # "push" => remaining = {}
             /\ loop = "push" => next = 1
             /\ loop = "get" =>
                   \A i \in 1..Len(futures) : i < next => outcome[futures[i]] = "value"
             /\ loop = "returned" =>
                   \A i \in 1..Len(futures) : outcome[futures[i]] = "value"
             /\ loop = "threw" =>
                   \E i \in 1..Len(futures) : outcome[futures[i]] = "exception"

LoopInv == ParallelForType /\ PoolInv /\ CallerInv

\* Appending a future to the vector.
LEMMA AppendFuture ==
    ASSUME NEW S, NEW s \in Seq(S), NEW e \in S
    PROVE  Range(Append(s, e)) = Range(s) \cup {e}
<1>1. /\ Append(s, e) \in Seq(S)
      /\ DOMAIN Append(s, e) = 1..(Len(s) + 1)
      /\ \A i \in 1..Len(s) : Append(s, e)[i] = s[i]
      /\ Append(s, e)[Len(s) + 1] = e
  OBVIOUS
<1>2. DOMAIN s = 1..Len(s) /\ Len(s) \in Nat
  OBVIOUS
<1>3. 1..(Len(s) + 1) = 1..Len(s) \cup {Len(s) + 1}
  BY <1>2
<1> QED
  BY <1>1, <1>2, <1>3, Zenon DEF Range

LEMMA LoopInit == ParallelForInit => LoopInv
<1> SUFFICES ASSUME ParallelForInit PROVE LoopInv
  OBVIOUS
<1> USE DEF ParallelForInit
<1>1. ParallelForType
  BY DEF ParallelForType, Phase
<1>2. PoolInv
  BY DEF PoolInv, Range
<1>3. CallerInv
  BY DEF CallerInv
<1> QED
  BY <1>1, <1>2, <1>3 DEF LoopInv

LEMMA LoopPush ==
    ASSUME LoopInv, NEW t \in Task, Push(t)
    PROVE  LoopInv'
<1> USE DEF Push
<1>1. ParallelForType'
  BY DEF LoopInv, ParallelForType
<1>2. Range(futures') = Range(futures) \cup {t} /\ t \notin Range(futures)
  BY AppendFuture DEF LoopInv, ParallelForType, PoolInv
<1>3. PoolInv'
  BY <1>2 DEF LoopInv, PoolInv
<1>4. CallerInv'
  BY DEF LoopInv, CallerInv
<1> QED
  BY <1>1, <1>3, <1>4 DEF LoopInv

\* The moves of the caller after the loop leave the pool alone.
LEMMA LoopCollect ==
    ASSUME LoopInv, NEW phase \in {"wait", "get"}, AllPushed(phase) \/ Collect
    PROVE  LoopInv' /\ UNCHANGED <<remaining, futures, poolVars>>
<1> USE DEF poolVars
<1>1. UNCHANGED <<remaining, futures, poolVars>>
  BY DEF AllPushed, Collect, Wait, AllWaited, Get, Rethrow, AllGot
<1>2. Len(futures) \in Nat /\ next \in Nat \ {0}
  BY DEF LoopInv, ParallelForType
<1>3. ParallelForType'
  BY <1>1, <1>2 DEF AllPushed, Collect, Wait, AllWaited, Get, Rethrow, AllGot,
                    LoopInv, ParallelForType, Phase, Gone
<1>4. PoolInv'
  BY <1>1 DEF LoopInv, PoolInv
<1>5. CallerInv'
  <2>1. CASE AllPushed(phase)
    BY <2>1, <1>1, <1>2 DEF AllPushed, LoopInv, CallerInv
  <2>2. CASE Wait \/ AllWaited
    BY <2>2, <1>1, <1>2 DEF Wait, AllWaited, LoopInv, CallerInv
  <2>3. CASE Get
    BY <2>3, <1>1, <1>2 DEF Get, LoopInv, CallerInv
  <2>4. CASE Rethrow
    <3>1. next \in 1..Len(futures)
      BY <2>4, <1>2 DEF Rethrow
    <3> QED
      BY <3>1, <2>4, <1>1 DEF Rethrow, LoopInv, CallerInv
  <2>5. CASE AllGot
    BY <2>5, <1>1, <1>2 DEF AllGot, LoopInv, CallerInv
  <2> QED
    BY <2>1, <2>2, <2>3, <2>4, <2>5 DEF Collect
<1> QED
  BY <1>1, <1>3, <1>4, <1>5 DEF LoopInv

\* A worker that takes a task is the only one that runs it.
LEMMA LoopTake ==
    ASSUME LoopInv, NEW w \in Worker, NEW t \in Task, Take(w, t)
    PROVE  LoopInv'
<1> USE DEF Take, callerVars
<1>1. running' = [running EXCEPT ![w] = t] /\ running \in [Worker -> Task \cup {NoTask}]
  BY DEF LoopInv, ParallelForType
<1>2. \A v \in Worker : running'[v] = IF v = w THEN t ELSE running[v]
  BY <1>1
<1>3. ParallelForType'
  BY <1>1 DEF LoopInv, ParallelForType
<1>4. t \in Range(futures) /\ t # NoTask /\ outcome[t] = "pending"
  BY NoTaskAssumption DEF LoopInv, PoolInv
<1>5. \A v \in Worker : running[v] # t
  BY <1>4 DEF LoopInv, PoolInv
<1>6. PoolInv'
  BY <1>2, <1>4, <1>5 DEF LoopInv, PoolInv
<1>7. CallerInv'
  BY DEF LoopInv, CallerInv
<1> QED
  BY <1>3, <1>6, <1>7 DEF LoopInv

\* When it lays the task down the outcome is known for the first time, so that nothing
\* the caller has collected changes.
LEMMA LoopFinish ==
    ASSUME LoopInv, NEW w \in Worker, NEW how \in {"value", "exception"}, Finish(w, how)
    PROVE  /\ LoopInv'
           /\ \A t \in Task : outcome'[t] = IF t = running[w] THEN how ELSE outcome[t]
<1> USE DEF Finish, callerVars
<1> DEFINE t == running[w]
<1>1. /\ t \in Task
      /\ running' = [running EXCEPT ![w] = NoTask] /\ running \in [Worker -> Task \cup {NoTask}]
      /\ outcome' = [outcome EXCEPT ![t] = how] /\ outcome \in [Task -> {"pending", "value", "exception"}]
  BY DEF LoopInv, ParallelForType
<1>2. /\ \A v \in Worker : running'[v] = IF v = w THEN NoTask ELSE running[v]
      /\ \A u \in Task : outcome'[u] = IF u = t THEN how ELSE outcome[u]
  BY <1>1
<1>3. ParallelForType'
  BY <1>1 DEF LoopInv, ParallelForType
<1>4. outcome[t] = "pending" /\ t \in Range(futures) \ queued
  BY <1>1 DEF LoopInv, PoolInv
<1>5. \A v \in Worker : running[v] = t => v = w
  BY <1>1, NoTaskAssumption DEF LoopInv, PoolInv
<1> HIDE DEF t
<1>6. PoolInv'
  BY <1>1, <1>2, <1>4, <1>5, NoTaskAssumption DEF LoopInv, PoolInv
<1>7. CallerInv'
  <2>1. Len(futures) \in Nat /\ \A i \in 1..Len(futures) : futures[i] \in Task
    BY DEF LoopInv, ParallelForType
  <2>2. \A u \in Task : outcome[u] # "pending" => outcome'[u] = outcome[u]
    BY <1>2, <1>4
  <2> QED
    BY <2>1, <2>2 DEF LoopInv, CallerInv
<1> QED
  BY <1>2, <1>3, <1>6, <1>7 DEF LoopInv, t

LEMMA LoopStutter == LoopInv /\ UNCHANGED <<callerVars, poolVars>> => LoopInv'
BY DEF LoopInv, ParallelForType, PoolInv, CallerInv, callerVars, poolVars

\* A call that returns has the value of every task.
LEMMA LoopReturned ==
    ASSUME LoopInv, loop = "returned"
    PROVE  \A t \in Task : outcome[t] = "value"
<1>1. Range(futures) = Task
  BY DEF LoopInv, PoolInv, CallerInv
<1>2. futures \in Seq(Task) /\ \A i \in 1..Len(futures) : outcome[futures[i]] = "value"
  BY DEF LoopInv, ParallelForType, CallerInv
<1> QED
  BY <1>1, <1>2 DEF Range

-------------------------------------------------------------------------------
Steps == {"new", "count", "counting", "decide", "return", "done"}

\* Where a task is follows where the loop has it.
StepInv == \A t \in Task : /\ step[t] = "new" <=> t \in remaining \cup queued
                           /\ step[t] = "done" <=> outcome[t] # "pending"
                           /\ outcome[t] # "exception"

\* Whoever is between reading the counter and writing it holds the mutex, and what it
\* has read is still so.
MutexInv == \A t \in Task : /\ holder = t <=> step[t] = "counting"
                            /\ step[t] = "counting" => seen[t] = count

Counted == {t \in Task : step[t] \notin {"new", "count", "counting"}}
CountInv == IsFiniteSet(Counted) /\ count = Cardinality(Counted)

\* A task that has decided has put its pair in just when it is coupled.
DecisionInv == \A t \in Task :
    t \in coupled <=> step[t] \in {"return", "done"} /\ Coupled(t[1], t[2])

\* The pairs of the futures that the caller has come past.
Collected == {t \in coupled : \E i \in 1..Len(futures) : i < next /\ futures[i] = t}

ResultInv == /\ loop \in {"push", "get", "returned"}
             /\ loop = "push" => result = {}
             /\ loop = "get" => result = Collected
             /\ loop = "returned" => result = coupled

Inv == /\ TypeOK
       /\ LoopInv
       /\ StepInv
       /\ MutexInv
       /\ CountInv
       /\ DecisionInv
       /\ ResultInv

\* What is reachable from a node is the node and what comes after it.
LEMMA ReachableAfter ==
    ASSUME NEW g \in Graph, NEW n \in Node
    PROVE  ReachableFrom(g, {n}) = {n} \cup After(g, n)
<1>1. g[n] \in SUBSET Node
  BY DEF Graph
<1>2. After(g, n) \subseteq Node /\ g[n] \subseteq After(g, n) /\ Closed(g, After(g, n))
  BY <1>1, ReachableLeast DEF After
<1>3. ReachableFrom(g, {n}) \subseteq {n} \cup After(g, n)
  <2>1. Closed(g, {n} \cup After(g, n))
    BY <1>2 DEF Closed
  <2> QED
    BY <1>2, <2>1, ReachableLeast
<1>4. n \in ReachableFrom(g, {n}) /\ g[n] \subseteq ReachableFrom(g, {n})
  BY ReachableLeast DEF Closed
<1>5. After(g, n) \subseteq ReachableFrom(g, {n})
  BY <1>1, <1>4, ReachableMonotone DEF After
<1> QED
  BY <1>3, <1>4, <1>5

\* For two different nodes the edge case of the search makes no difference.
LEMMA ReachableIsAfter ==
    ASSUME succ \in Graph, NEW m \in Node, NEW n \in Node, m # n
    PROVE  Reachable(m, n) <=> n \in After(succ, m)
<1>1. Reachable(m, n) => n \in After(succ, m)
  BY ReachableAfter DEF Reachable
<1>2. ASSUME n \in After(succ, m) PROVE succ[m] # {}
  BY <1>2, ReachableEmpty DEF After
<1> QED
  BY <1>1, <1>2, ReachableAfter DEF Reachable

-------------------------------------------------------------------------------
LEMMA InitInv == Init => Inv
<1> SUFFICES ASSUME Init PROVE Inv
  OBVIOUS
<1>1. LoopInv
  BY LoopInit DEF Init
<1>2. TypeOK
  BY <1>1 DEF Init, TypeOK, LoopInv
<1>3. StepInv
  BY DEF Init, ParallelForInit, StepInv
<1>4. MutexInv
  BY NoTaskAssumption DEF Init, MutexInv
<1>5. Counted = {}
  BY DEF Init, Counted
<1>6. CountInv
  BY <1>5, FS_EmptySet DEF Init, CountInv
<1>7. DecisionInv /\ ResultInv
  BY DEF Init, ParallelForInit, DecisionInv, ResultInv
<1> QED
  BY <1>1, <1>2, <1>3, <1>4, <1>6, <1>7 DEF Inv

\* What the moves of the caller leave alone.
LEMMA CallerFrame ==
    ASSUME Inv, UNCHANGED <<inputs, taskVars>>
    PROVE  (MutexInv /\ CountInv /\ DecisionInv)'
<1> USE DEF inputs, taskVars
<1>1. Counted' = Counted
  BY DEF Counted
<1>2. CountInv'
  BY <1>1 DEF Inv, CountInv
<1>3. MutexInv' /\ DecisionInv'
  BY DEF Inv, MutexInv, DecisionInv, Coupled, Reachable
<1> QED
  BY <1>2, <1>3

LEMMA PushStep ==
    ASSUME Inv, NEW t \in Task, PushPair(t)
    PROVE  Inv'
<1> USE DEF PushPair
<1>1. LoopInv'
  BY LoopPush DEF Inv
<1>2. TypeOK'
  BY <1>1 DEF inputs, taskVars, Inv, TypeOK, LoopInv
<1>3. StepInv'
  BY DEF Push, taskVars, Inv, StepInv
<1>4. ResultInv'
  BY DEF Push, Inv, ResultInv
<1> QED
  BY <1>1, <1>2, <1>3, <1>4, CallerFrame DEF Inv

\* The caller begins to get, gets the value of one task, or returns with all of them.
LEMMA CollectStep ==
    ASSUME Inv, LeaveLoop \/ GetPair \/ Return
    PROVE  Inv'
<1>1. /\ LoopInv'
      /\ UNCHANGED <<remaining, futures, poolVars, inputs, taskVars>>
  BY LoopCollect DEF Inv, LeaveLoop, GetPair, Return, Collect
<1>2. /\ futures \in Seq(Task) /\ Len(futures) \in Nat
      /\ next \in Nat \ {0}
      /\ coupled' = coupled /\ coupled \subseteq Task
  BY <1>1 DEF taskVars, Inv, TypeOK, ParallelForType
<1>3. result' \subseteq Task
  BY <1>2 DEF LeaveLoop, GetPair, Return, Inv, TypeOK
<1>4. TypeOK'
  BY <1>1, <1>3 DEF inputs, taskVars, Inv, TypeOK, LoopInv
<1>5. StepInv'
  BY <1>1 DEF poolVars, taskVars, Inv, StepInv
<1>6. ResultInv'
  <2>1. CASE LeaveLoop
    <3>1. loop = "push" /\ loop' = "get" /\ next' = 1 /\ futures' = futures /\ result' = {}
      BY <2>1 DEF LeaveLoop, AllPushed, Inv, ResultInv, LoopInv, CallerInv
    <3>2. Collected' = {}
      BY <3>1, <1>2 DEF Collected
    <3> QED
      BY <3>1, <3>2 DEF ResultInv
  <2>2. CASE GetPair
    <3>1. /\ loop = "get" /\ loop' = "get" /\ next' = next + 1 /\ futures' = futures
          /\ result = Collected
          /\ result' = result \cup ({futures[next]} \cap coupled)
          /\ next \in 1..Len(futures)
      BY <2>2, <1>2 DEF GetPair, Get, Inv, ResultInv
    <3>2. \A i \in 1..Len(futures) : i < next + 1 <=> i < next \/ i = next
      BY <1>2
    <3>3. Collected' = {t \in coupled : \E i \in 1..Len(futures) : i < next + 1 /\ futures[i] = t}
      BY <3>1, <1>2 DEF Collected
    <3>4. Collected' = Collected \cup ({futures[next]} \cap coupled)
      BY <3>1, <3>2, <3>3 DEF Collected
    <3> QED
      BY <3>1, <3>4 DEF ResultInv
  <2>3. CASE Return
    <3>1. /\ loop = "get" /\ loop' = "returned" /\ result' = Collected
          /\ next > Len(futures) /\ remaining = {}
      BY <2>3 DEF Return, AllGot, Inv, ResultInv, LoopInv, CallerInv
    <3>2. coupled \subseteq Range(futures)
      BY <3>1, <1>2 DEF Inv, LoopInv, PoolInv
    <3>3. \A t \in coupled : \E i \in 1..Len(futures) : futures[i] = t
      BY <3>2, <1>2 DEF Range
    <3>4. Collected = coupled
      BY <3>1, <3>3, <1>2 DEF Collected
    <3> QED
      BY <3>1, <3>4, <1>2 DEF ResultInv
  <2> QED
    BY <2>1, <2>2, <2>3
<1> QED
  BY <1>1, <1>4, <1>5, <1>6, CallerFrame DEF Inv

-------------------------------------------------------------------------------
(* The workers.                                                            *)

LEMMA BeginStep ==
    ASSUME Inv, NEW w \in Worker, NEW t \in Task, Begin(w, t)
    PROVE  Inv'
<1> USE DEF Begin, Goto, inputs
<1>1. LoopInv'
  BY LoopTake DEF Inv
<1>2. /\ step' \in [Task -> Steps]
      /\ \A u \in Task : step'[u] = IF u = t THEN "count" ELSE step[u]
  BY DEF Inv, TypeOK, Steps
<1>3. step[t] = "new" /\ t \notin remaining
  BY DEF Take, Inv, StepInv, LoopInv, PoolInv
<1>4. TypeOK'
  BY <1>1, <1>2 DEF Inv, TypeOK, LoopInv, Steps
<1>5. StepInv'
  BY <1>2, <1>3 DEF Take, callerVars, Inv, StepInv
<1>6. MutexInv' /\ DecisionInv'
  BY <1>2, <1>3 DEF Inv, MutexInv, DecisionInv, Coupled, Reachable
<1>7. Counted' = Counted
  BY <1>2, <1>3 DEF Counted
<1>8. CountInv' /\ ResultInv'
  BY <1>7 DEF Take, callerVars, Inv, CountInv, ResultInv, Collected
<1> QED
  BY <1>1, <1>4, <1>5, <1>6, <1>8 DEF Inv

LEMMA EndStep ==
    ASSUME Inv, NEW w \in Worker, NEW t \in Task, End(w, t)
    PROVE  Inv'
<1> USE DEF End, Goto, inputs
<1>1. LoopInv' /\ \A u \in Task : outcome'[u] = IF u = t THEN "value" ELSE outcome[u]
  BY LoopFinish DEF Inv
<1>2. /\ step' \in [Task -> Steps]
      /\ \A u \in Task : step'[u] = IF u = t THEN "done" ELSE step[u]
  BY DEF Inv, TypeOK, Steps
<1>3. TypeOK'
  BY <1>1, <1>2 DEF Inv, TypeOK, LoopInv, Steps
<1>4. StepInv'
  BY <1>1, <1>2 DEF Finish, callerVars, Inv, StepInv
<1>5. MutexInv' /\ DecisionInv'
  BY <1>2 DEF Inv, MutexInv, DecisionInv, Coupled, Reachable
<1>6. Counted' = Counted
  BY <1>2 DEF Counted
<1>7. CountInv' /\ ResultInv'
  BY <1>6 DEF Finish, callerVars, Inv, CountInv, ResultInv, Collected
<1> QED
  BY <1>1, <1>3, <1>4, <1>5, <1>7 DEF Inv

\* A task that goes from one place inside the lambda to another.
LEMMA BodyFrame ==
    ASSUME Inv, NEW t \in Task, NEW there \in Steps \ {"new", "done"},
           step[t] \notin {"new", "done"}, Goto(t, there), UNCHANGED <<callerVars, poolVars>>
    PROVE  /\ LoopInv'
           /\ StepInv'
           /\ step' \in [Task -> Steps]
           /\ \A u \in Task : step'[u] = IF u = t THEN there ELSE step[u]
<1>1. /\ step' \in [Task -> Steps]
      /\ \A u \in Task : step'[u] = IF u = t THEN there ELSE step[u]
  BY DEF Goto, Inv, TypeOK, Steps
<1>2. LoopInv'
  BY LoopStutter DEF Inv
<1>3. StepInv'
  BY <1>1 DEF Inv, StepInv, callerVars, poolVars
<1> QED
  BY <1>1, <1>2, <1>3

LEMMA LockCountStep ==
    ASSUME Inv, NEW t \in Task, LockCount(t)
    PROVE  Inv'
<1> USE DEF LockCount, inputs
<1>1. LoopInv' /\ StepInv'
  BY BodyFrame DEF Steps
<1>2. /\ step' \in [Task -> Steps]
      /\ \A u \in Task : step'[u] = IF u = t THEN "counting" ELSE step[u]
  BY BodyFrame DEF Steps
<1>3. TypeOK'
  BY <1>1, <1>2 DEF Inv, TypeOK, LoopInv, Steps
<1>4. MutexInv'
  BY <1>2, NoTaskAssumption DEF Inv, TypeOK, MutexInv, MutexFree
<1>5. DecisionInv'
  BY <1>2 DEF Inv, DecisionInv, Coupled, Reachable
<1>6. Counted' = Counted
  BY <1>2 DEF Counted
<1>7. CountInv' /\ ResultInv'
  BY <1>6 DEF callerVars, Inv, CountInv, ResultInv, Collected
<1> QED
  BY <1>1, <1>3, <1>4, <1>5, <1>7 DEF Inv

\* What the task read was still the counter, since it alone held the mutex.
LEMMA CountUpStep ==
    ASSUME Inv, NEW t \in Task, CountUp(t)
    PROVE  Inv'
<1> USE DEF CountUp, Unlock, inputs
<1>1. LoopInv' /\ StepInv'
  BY BodyFrame DEF Steps
<1>2. /\ step' \in [Task -> Steps]
      /\ \A u \in Task : step'[u] = IF u = t THEN "decide" ELSE step[u]
  BY BodyFrame DEF Steps
<1>3. seen[t] = count /\ holder = t /\ count \in Nat
  BY DEF Inv, MutexInv, TypeOK
<1>4. TypeOK'
  BY <1>1, <1>2, <1>3 DEF Inv, TypeOK, LoopInv, Steps
<1>5. MutexInv'
  BY <1>2, <1>3, NoTaskAssumption DEF Inv, MutexInv
<1>6. DecisionInv'
  BY <1>2 DEF Inv, DecisionInv, Coupled, Reachable
<1>7. Counted' = Counted \cup {t} /\ t \notin Counted
  BY <1>2 DEF Counted
<1>8. CountInv'
  BY <1>3, <1>7, FS_AddElement DEF Inv, CountInv
<1>9. ResultInv'
  BY DEF callerVars, Inv, ResultInv, Collected
<1> QED
  BY <1>1, <1>4, <1>5, <1>6, <1>8, <1>9 DEF Inv

\* The pair goes in before the task ends, so that no future the caller has come past
\* is about it.
LEMMA DecideStep ==
    ASSUME Inv, NEW t \in Task, Decide(t)
    PROVE  Inv'
<1> USE DEF Decide, inputs
<1>1. LoopInv' /\ StepInv'
  BY BodyFrame DEF Steps
<1>2. /\ step' \in [Task -> Steps]
      /\ \A u \in Task : step'[u] = IF u = t THEN "return" ELSE step[u]
  BY BodyFrame DEF Steps
<1>3. TypeOK'
  BY <1>1, <1>2 DEF Inv, TypeOK, LoopInv, Steps
<1>4. MutexInv'
  BY <1>2 DEF Inv, MutexInv
<1>5. DecisionInv'
  <2>1. \A u \in Task : Coupled(u[1], u[2])' = Coupled(u[1], u[2])
    BY DEF Coupled, Reachable
  <2>2. \A u \in Task : u \in coupled' <=> u \in coupled \/ (u = t /\ Coupled(t[1], t[2]))
    OBVIOUS
  <2> QED
    BY <1>2, <2>1, <2>2 DEF Inv, DecisionInv
<1>6. Counted' = Counted
  BY <1>2 DEF Counted
<1>7. CountInv'
  BY <1>6 DEF Inv, CountInv
<1>8. outcome[t] = "pending"
  BY DEF Inv, StepInv, TypeOK, ParallelForType
<1>9. ResultInv'
  <2>1. UNCHANGED <<loop, futures, next, result>>
    BY DEF callerVars
  <2>2. CASE loop = "get"
    <3>1. \A i \in 1..Len(futures) : i < next => futures[i] # t
      BY <1>8, <2>2 DEF Inv, LoopInv, CallerInv
    <3>2. Collected' = Collected
      BY <2>1, <3>1 DEF Collected
    <3> QED
      BY <2>1, <2>2, <3>2 DEF Inv, ResultInv
  <2>3. loop # "returned"
    BY <1>8, LoopReturned DEF Inv
  <2> QED
    BY <2>1, <2>2, <2>3 DEF Inv, ResultInv
<1> QED
  BY <1>1, <1>3, <1>4, <1>5, <1>7, <1>9 DEF Inv

-------------------------------------------------------------------------------
LEMMA NextInv == Inv /\ [Next]_vars => Inv'
<1> SUFFICES ASSUME Inv, [Next]_vars PROVE Inv'
  OBVIOUS
<1>1. CASE Caller
  BY <1>1, PushStep, CollectStep DEF Caller
<1>2. ASSUME NEW w \in Worker, Work(w) PROVE Inv'
  BY <1>2, BeginStep, EndStep, LockCountStep, CountUpStep, DecideStep DEF Work
<1>3. CASE UNCHANGED vars
  <2>1. LoopInv'
    BY <1>3, LoopStutter DEF Inv, vars
  <2>2. TypeOK'
    BY <1>3, <2>1 DEF vars, inputs, taskVars, Inv, TypeOK, LoopInv
  <2>3. StepInv' /\ ResultInv'
    BY <1>3 DEF vars, callerVars, poolVars, taskVars, Inv, StepInv, ResultInv, Collected
  <2> QED
    BY <1>3, <2>1, <2>2, <2>3, CallerFrame DEF vars, Inv
<1> QED
  BY <1>1, <1>2, <1>3 DEF Next

\* The invariant holds throughout every call.
THEOREM Invariance == Spec => []Inv
<1>1. Init => Inv
  BY InitInv
<1>2. Inv /\ [Next]_vars => Inv'
  BY NextInv
<1> QED
  BY <1>1, <1>2, PTL DEF Spec

\* The value of every task is there when the call is over, so that every task is done.
LEMMA InvNoUse == Inv => NoUseAfterReturn
<1> SUFFICES ASSUME Inv, loop \in Gone, NEW t \in Task PROVE step[t] = "done"
  BY DEF NoUseAfterReturn
<1>1. loop = "returned"
  BY DEF Gone, Inv, ResultInv
<1>2. outcome[t] = "value"
  BY <1>1, LoopReturned DEF Inv
<1> QED
  BY <1>2 DEF Inv, StepInv

\* No task is left to use the mutex and the counter of a frame that is gone.
THEOREM NoUse == Spec => []NoUseAfterReturn
BY InvNoUse, Invariance, PTL

LEMMA InvGroupsExact == Inv => GroupsExact
<1> SUFFICES ASSUME Inv, loop = "returned"
             PROVE  /\ count = Cardinality(Task)
                    /\ fastMode => result = {t \in Task : t[2] \in After(succ, t[1])}
  BY DEF GroupsExact
<1>1. \A t \in Task : step[t] = "done"
  BY InvNoUse DEF NoUseAfterReturn, Gone
<1>2. Counted = Task
  BY <1>1 DEF Counted
<1>3. result = {t \in Task : Coupled(t[1], t[2])}
  BY <1>1 DEF Inv, TypeOK, ResultInv, DecisionInv
<1>4. \A t \in Task : t[1] \in Node /\ t[2] \in Node /\ t[1] # t[2]
  BY MachinesAssumption
<1>5. succ \in Graph
  BY DEF Inv, TypeOK
<1>6. ASSUME fastMode, NEW t \in Task PROVE Coupled(t[1], t[2]) <=> t[2] \in After(succ, t[1])
  BY <1>4, <1>5, <1>6, ReachableIsAfter DEF Coupled
<1> QED
  BY <1>2, <1>3, <1>6 DEF Inv, CountInv

\* The map holds the pairs with a path between them, and every pair was counted once.
THEOREM Exactness == Spec => []GroupsExact
BY InvGroupsExact, Invariance, PTL

-------------------------------------------------------------------------------
(* The threads never wait for each other in a circle.                      *)

\* A task that has begun and is not done has a worker that runs it.
Attended == \A t \in Task : step[t] \notin {"new", "done"} => \E w \in Worker : running[w] = t

LEMMA AttendedStep == Inv /\ Attended /\ [Next]_vars => Attended'
<1> SUFFICES ASSUME Inv, Attended, [Next]_vars PROVE Attended'
  OBVIOUS
<1>1. running \in [Worker -> Task \cup {NoTask}] /\ step \in [Task -> Steps]
  BY DEF Inv, TypeOK, ParallelForType, Steps
<1>2. CASE UNCHANGED <<step, running>>
  BY <1>2 DEF Attended
<1>3. Caller \/ UNCHANGED vars => UNCHANGED <<step, running>>
  BY DEF Caller, PushPair, Push, LeaveLoop, AllPushed, GetPair, Get, Return, AllGot,
         vars, poolVars, taskVars
<1>4. ASSUME NEW w \in Worker, NEW t \in Task, Begin(w, t) PROVE Attended'
  <2>1. /\ \A v \in Worker : running'[v] = IF v = w THEN t ELSE running[v]
        /\ \A u \in Task : step'[u] = IF u = t THEN "count" ELSE step[u]
        /\ running[w] = NoTask
    BY <1>1, <1>4 DEF Begin, Take, Goto
  <2> QED
    BY <2>1, NoTaskAssumption DEF Attended
<1>5. ASSUME NEW w \in Worker, NEW t \in Task, End(w, t) PROVE Attended'
  <2>1. /\ \A v \in Worker : running'[v] = IF v = w THEN NoTask ELSE running[v]
        /\ \A u \in Task : step'[u] = IF u = t THEN "done" ELSE step[u]
        /\ running[w] = t
    BY <1>1, <1>5 DEF End, Finish, Goto
  <2> QED
    BY <2>1 DEF Attended
<1>6. ASSUME NEW w \in Worker, NEW t \in Task, running[w] = t, LockCount(t) \/ CountUp(t) \/ Decide(t)
      PROVE  Attended'
  <2>1. /\ running' = running
        /\ \A u \in Task : u # t => step'[u] = step[u]
    BY <1>1, <1>6 DEF LockCount, CountUp, Decide, Goto, poolVars
  <2> QED
    BY <1>6, <2>1 DEF Attended
<1> QED
  BY <1>2, <1>3, <1>4, <1>5, <1>6 DEF Next, Work

\* When Caller, and when a worker, has a step to take.
CallerCan == \/ loop = "push"
             \/ loop = "get" /\ (next > Len(futures) \/ outcome[futures[next]] # "pending")
WorkerCan(w) == IF running[w] = NoTask THEN queued # {}
                ELSE step[running[w]] = "count" => MutexFree
NeverStuck == loop \notin Gone => CallerCan \/ \E w \in Worker : WorkerCan(w)

LEMMA InvNeverStuck == ASSUME Worker # {} PROVE Inv /\ Attended => NeverStuck
<1> SUFFICES ASSUME Inv, Attended, loop \notin Gone, ~CallerCan
             PROVE  \E w \in Worker : WorkerCan(w)
  BY DEF NeverStuck
<1>1. loop = "get" /\ next \in 1..Len(futures) /\ outcome[futures[next]] = "pending"
  BY DEF CallerCan, Gone, Inv, TypeOK, ParallelForType, ResultInv
<1>2. PICK t \in Task : t \in Range(futures) /\ outcome[t] = "pending"
  BY <1>1 DEF Inv, TypeOK, ParallelForType, Range
<1>3. CASE holder # NoTask
  <2>1. holder \in Task /\ step[holder] = "counting"
    BY <1>3 DEF Inv, TypeOK, MutexInv
  <2>2. PICK v \in Worker : running[v] = holder
    BY <2>1 DEF Attended
  <2> QED
    BY <1>3, <2>1, <2>2 DEF WorkerCan
<1>4. CASE holder = NoTask /\ t \in queued
  BY <1>4 DEF WorkerCan, MutexFree
<1>5. CASE holder = NoTask /\ t \notin queued
  <2>1. step[t] \notin {"new", "done"}
    BY <1>1, <1>2, <1>5 DEF Inv, LoopInv, PoolInv, StepInv
  <2>2. PICK w \in Worker : running[w] = t
    BY <2>1 DEF Attended
  <2> QED
    BY <1>5, <2>2, NoTaskAssumption DEF WorkerCan, MutexFree
<1> QED
  BY <1>3, <1>4, <1>5

\* group_fsms does not hang, as long as there is a thread in the pool: until it is over
\* the caller can go on or a worker can, since what the caller waits for is queued or
\* run, and whoever holds the mutex is run and waits for nothing.
THEOREM NoDeadlock == ASSUME Worker # {} PROVE Spec => []NeverStuck
<1>1. Init => Attended
  BY DEF Init, Attended
<1>2. Spec => []Attended
  BY <1>1, AttendedStep, Invariance, PTL DEF Spec
<1>3. Inv /\ Attended => NeverStuck
  BY InvNeverStuck
<1> QED
  BY <1>2, <1>3, Invariance, PTL
===============================================================================
