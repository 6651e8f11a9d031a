--------------------------- MODULE Report_proofs ---------------------------
(***************************************************************************)
(* Report and the modules it is composed of, for any number of machines,   *)
(* states, arcs and workers.  Three invariants, each on top of the one     *)
(* before: Inv, while the tasks of create_properties run; MainInv, which   *)
(* also holds of the map in all later stages of main; and PrintInv, for    *)
(* what has been printed of it.                                            *)
(***************************************************************************)
EXTENDS Report, FunctionTheorems, FiniteSetTheorems, WellFoundedInduction, TLAPS

-------------------------------------------------------------------------------
(* What the loop of ParallelFor keeps by itself, whatever its tasks do, as *)
(* long as it passes over no item: every task is in one place only, and    *)
(* what the caller has collected is there.                                 *)

\* A task waits in the queue, or one worker runs it, or its outcome is known.
PoolInv == /\ Range(futures) = Task \ remaining
           /\ queued \subseteq Range(futures)
           /\ \A w \in Worker : running[w] # NoTask => running[w] \in Range(futures) \ queued
           /\ \A v, w \in Worker : running[v] = running[w] /\ running[v] # NoTask => v = w
           /\ \A t \in Task : outcome[t] # "pending" =>
                 /\ t \in Range(futures) \ queued
                 /\ \A w \in Worker : running[w] # t

\* How far the caller has come with its futures.
CallerInv == /\ loop # "push" => remaining = {}
             /\ loop = "push" => next = 1
             /\ loop = "get" =>
                   \A i \in 1..Len(futures) : i < next => outcome[futures[i]] = "value"
             /\ loop = "returned" =>
                   \A i \in 1..Len(futures) : outcome[futures[i]] = "value"
             /\ loop = "threw" =>
                   \E i \in 1..Len(futures) : outcome[futures[i]] = "exception"

LoopInv == ParallelForType /\ PoolInv /\ CallerInv

\* Appending a future to the vector.
LEMMA AppendFuture ==
    ASSUME NEW S, NEW s \in Seq(S), NEW e \in S
    PROVE  Range(Append(s, e)) = Range(s) \cup {e}
<1>1. /\ Append(s, e) \in Seq(S)
      /\ DOMAIN Append(s, e) = 1..(Len(s) + 1)
      /\ \A i \in 1..Len(s) : Append(s, e)[i] = s[i]
      /\ Append(s, e)[Len(s) + 1] = e
  OBVIOUS
<1>2. DOMAIN s = 1..Len(s) /\ Len(s) \in Nat
  OBVIOUS
<1>3. 1..(Len(s) + 1) = 1..Len(s) \cup {Len(s) + 1}
  BY <1>2
<1> QED
  BY <1>1, <1>2, <1>3, Zenon DEF Range

LEMMA LoopInit == ParallelForInit => LoopInv
<1> SUFFICES ASSUME ParallelForInit PROVE LoopInv
  OBVIOUS
<1> USE DEF ParallelForInit
<1>1. ParallelForType
  BY DEF ParallelForType, Phase
<1>2. PoolInv
  BY DEF PoolInv, Range
<1>3. CallerInv
  BY DEF CallerInv
<1> QED
  BY <1>1, <1>2, <1>3 DEF LoopInv

LEMMA LoopPush ==
    ASSUME LoopInv, NEW t \in Task, Push(t)
    PROVE  LoopInv'
<1> USE DEF Push
<1>1. ParallelForType'
  BY DEF LoopInv, ParallelForType
<1>2. Range(futures') = Range(futures) \cup {t} /\ t \notin Range(futures)
  BY AppendFuture DEF LoopInv, ParallelForType, PoolInv
<1>3. PoolInv'
  BY <1>2 DEF LoopInv, PoolInv
<1>4. CallerInv'
  BY DEF LoopInv, CallerInv
<1> QED
  BY <1>1, <1>3, <1>4 DEF LoopInv

\* The moves of the caller after the loop leave the pool alone.
LEMMA LoopCollect ==
    ASSUME LoopInv, NEW phase \in {"wait", "get"}, AllPushed(phase) \/ Collect
    PROVE  LoopInv' /\ UNCHANGED <<remaining, futures, poolVars>>
<1> USE DEF poolVars
<1>1. UNCHANGED <<remaining, futures, poolVars>>
  BY DEF AllPushed, Collect, Wait, AllWaited, Get, Rethrow, AllGot
<1>2. Len(futures) \in Nat /\ next \in Nat \ {0}
  BY DEF LoopInv, ParallelForType
<1>3. ParallelForType'
  BY <1>1, <1>2 DEF AllPushed, Collect, Wait, AllWaited, Get, Rethrow, AllGot,
                    LoopInv, ParallelForType, Phase, Gone
<1>4. PoolInv'
  BY <1>1 DEF LoopInv, PoolInv
<1>5. CallerInv'
  <2>1. CASE AllPushed(phase)
    BY <2>1, <1>1, <1>2 DEF AllPushed, LoopInv, CallerInv
  <2>2. CASE Wait \/ AllWaited
    BY <2>2, <1>1, <1>2 DEF Wait, AllWaited, LoopInv, CallerInv
  <2>3. CASE Get
    BY <2>3, <1>1, <1>2 DEF Get, LoopInv, CallerInv
  <2>4. CASE Rethrow
    <3>1. next \in 1..Len(futures)
      BY <2>4, <1>2 DEF Rethrow
    <3> QED
      BY <3>1, <2>4, <1>1 DEF Rethrow, LoopInv, CallerInv
  <2>5. CASE AllGot
    BY <2>5, <1>1, <1>2 DEF AllGot, LoopInv, CallerInv
  <2> QED
    BY <2>1, <2>2, <2>3, <2>4, <2>5 DEF Collect
<1> QED
  BY <1>1, <1>3, <1>4, <1>5 DEF LoopInv

\* A worker that takes a task is the only one that runs it.
LEMMA LoopTake ==
    ASSUME LoopInv, NEW w \in Worker, NEW t \in Task, Take(w, t)
    PROVE  LoopInv'
<1> USE DEF Take, callerVars
<1>1. running' = [running EXCEPT ![w] = t] /\ running \in [Worker -> Task \cup {NoTask}]
  BY DEF LoopInv, ParallelForType
<1>2. \A v \in Worker : running'[v] = IF v = w THEN t ELSE running[v]
  BY <1>1
<1>3. ParallelForType'
  BY <1>1 DEF LoopInv, ParallelForType
<1>4. t \in Range(futures) /\ t # NoTask /\ outcome[t] = "pending"
  BY NoTaskAssumption DEF LoopInv, PoolInv
<1>5. \A v \in Worker : running[v] # t
  BY <1>4 DEF LoopInv, PoolInv
<1>6. PoolInv'
  BY <1>2, <1>4, <1>5 DEF LoopInv, PoolInv
<1>7. CallerInv'
  BY DEF LoopInv, CallerInv
<1> QED
  BY <1>3, <1>6, <1>7 DEF LoopInv

\* When it lays the task down the outcome is known for the first time, so that nothing
\* the caller has collected changes.
LEMMA LoopFinish ==
    ASSUME LoopInv, NEW w \in Worker, NEW how \in {"value", "exception"}, Finish(w, how)
    PROVE  /\ LoopInv'
           /\ \A t \in Task : outcome'[t] = IF t = running[w] THEN how ELSE outcome[t]
<1> USE DEF Finish, callerVars
<1> DEFINE t == running[w]
<1>1. /\ t \in Task
      /\ running' = [running EXCEPT ![w] = NoTask] /\ running \in [Worker -> Task \cup {NoTask}]
      /\ outcome' = [outcome EXCEPT ![t] = how] /\ outcome \in [Task -> {"pending", "value", "exception"}]
  BY DEF LoopInv, ParallelForType
<1>2. /\ \A v \in Worker : running'[v] = IF v = w THEN NoTask ELSE running[v]
      /\ \A u \in Task : outcome'[u] = IF u = t THEN how ELSE outcome[u]
  BY <1>1
<1>3. ParallelForType'
  BY <1>1 DEF LoopInv, ParallelForType
<1>4. outcome[t] = "pending" /\ t \in Range(futures) \ queued
  BY <1>1 DEF LoopInv, PoolInv
<1>5. \A v \in Worker : running[v] = t => v = w
  BY <1>1, NoTaskAssumption DEF LoopInv, PoolInv
<1> HIDE DEF t
<1>6. PoolInv'
  BY <1>1, <1>2, <1>4, <1>5, NoTaskAssumption DEF LoopInv, PoolInv
<1>7. CallerInv'
  <2>1. Len(futures) \in Nat /\ \A i \in 1..Len(futures) : futures[i] \in Task
    BY DEF LoopInv, ParallelForType
  <2>2. \A u \in Task : outcome[u] # "pending" => outcome'[u] = outcome[u]
    BY <1>2, <1>4
  <2> QED
    BY <2>1, <2>2 DEF LoopInv, CallerInv
<1> QED
  BY <1>2, <1>3, <1>6, <1>7 DEF LoopInv, t

LEMMA LoopStutter == LoopInv /\ UNCHANGED <<callerVars, poolVars>> => LoopInv'
BY DEF LoopInv, ParallelForType, PoolInv, CallerInv, callerVars, poolVars

\* A call that returns has the value of every task.
LEMMA LoopReturned ==
    ASSUME LoopInv, loop = "returned"
    PROVE  \A t \in Task : outcome[t] = "value"
<1>1. Range(futures) = Task
  BY DEF LoopInv, PoolInv, CallerInv
<1>2. futures \in Seq(Task) /\ \A i \in 1..Len(futures) : outcome[futures[i]] = "value"
  BY DEF LoopInv, ParallelForType, CallerInv
<1> QED
  BY <1>1, <1>2 DEF Range

-------------------------------------------------------------------------------
Steps == {"new", "count", "counting", "loop", "emplacing", "done"}

\* Where a task is follows where the loop has it; a task that ended has written all.
StepInv == \A t \in Task : /\ step[t] = "new" <=> t \in remaining \cup queued
                           /\ step[t] = "done" <=> outcome[t] # "pending"
                           /\ step[t] = "done" => left[t] = {}
                           /\ outcome[t] # "exception"

\* Whoever is between taking an id and counting it holds the mutex, the id is still the
\* first free one, and there is a property to enter.
MutexInv == /\ \A t \in Task : holder = t <=> step[t] \in {"counting", "emplacing"}
            /\ \A t \in Task : step[t] = "emplacing" => id[t] = idCount /\ left[t] # {}

\* What was written so far.
Written == UNION {Wanted(f) \ left[f] : f \in Task}

\* The map holds just that, each property once, with the mark it should have.
MapInv == /\ DOMAIN properties = 0..(idCount - 1)
          /\ \A i \in DOMAIN properties : properties[i] = Marked(Key(properties[i]))
          /\ {Key(properties[i]) : i \in DOMAIN properties} = Written
          /\ \A i, j \in DOMAIN properties : Key(properties[i]) = Key(properties[j]) => i = j

Machines == \A f \in Task : Machine(f)

Inv == /\ TypeOK
       /\ LoopInv
       /\ Machines
       /\ StepInv
       /\ MutexInv
       /\ MapInv

\* A property tells which machine it is about.
LEMMA WantedShape ==
    ASSUME NEW f \in Task, NEW p \in Wanted(f)
    PROVE  /\ p.var1 = f
           /\ p.var2 \in {NoTask, f}
           /\ Key(p) = p
           /\ Key(Marked(p)) = p
<1>1. CASE p \in Singles(f)
  BY <1>1 DEF Singles, Key, Marked
<1>2. CASE p \in Transitions(f)
  BY <1>2 DEF Transitions, Key, Marked
<1> QED
  BY <1>1, <1>2 DEF Wanted

-------------------------------------------------------------------------------
LEMMA InitInv == Init => Inv
<1> SUFFICES ASSUME Init PROVE Inv
  OBVIOUS
<1>1. LoopInv
  BY LoopInit DEF Init
<1>2. \A f \in Task : left[f] = Wanted(f)
  BY DEF Init
<1>3. TypeOK
  BY <1>1 DEF Init, TypeOK, LoopInv, AllWanted
<1>4. StepInv
  BY DEF Init, ParallelForInit, StepInv
<1>5. MutexInv
  BY NoTaskAssumption DEF Init, MutexInv
<1>6. Written = {}
  BY <1>2 DEF Written
<1>7. DOMAIN properties = {} /\ 0..(idCount - 1) = {}
  BY DEF Init
<1>8. MapInv
  BY <1>6, <1>7 DEF MapInv
<1> QED
  BY <1>1, <1>3, <1>4, <1>5, <1>8 DEF Inv, Init, Machines

\* Of what the map holds nothing changes when neither it nor what is left does.
LEMMA MapFrame ==
    ASSUME Inv, UNCHANGED <<inputs, idCount, left, properties>>
    PROVE  MapInv' /\ Machines'
<1> USE DEF inputs
<1>1. Machines'
  BY DEF Inv, Machines, Machine
<1>2. \A f \in Task : Wanted(f)' = Wanted(f)
  BY DEF Wanted, Singles, Transitions
<1>3. Written' = Written
  BY <1>2 DEF Written
<1>4. ASSUME NEW p PROVE Marked(p)' = Marked(p) /\ Key(p)' = Key(p)
  BY DEF Marked, ShouldBeValid, SameArc, Key
<1>5. MapInv'
  BY <1>3, <1>4 DEF Inv, MapInv
<1> QED
  BY <1>1, <1>5

LEMMA TypeFrame ==
    ASSUME Inv, UNCHANGED inputs, LoopInv',
           step' \in [Task -> Steps], holder' \in Task \cup {NoTask},
           count' \in Nat, idCount' \in Nat, seen' \in [Task -> Nat], id' \in [Task -> Nat],
           left' \in [Task -> SUBSET AllWanted], \A f \in Task : left'[f] \subseteq Wanted(f)
    PROVE  TypeOK'
<1> USE DEF inputs
<1>1. \A f \in Task : Wanted(f)' = Wanted(f)
  BY DEF Wanted, Singles, Transitions
<1>2. AllWanted' = AllWanted
  BY <1>1 DEF AllWanted
<1>3. /\ left' \in [Task -> SUBSET AllWanted']
      /\ \A f \in Task : left'[f] \subseteq Wanted(f)'
  BY <1>1, <1>2
<1> HIDE DEF inputs
<1>4. (isCounter \in [Task -> BOOLEAN] /\ states \in [Task -> SUBSET Constant]
         /\ arcs \in [Task -> SUBSET (Constant \X Constant)])'
  BY DEF Inv, TypeOK, inputs
<1> QED
  BY <1>3, <1>4 DEF TypeOK, LoopInv, Steps

-------------------------------------------------------------------------------
(* The calling thread.  It touches nothing that the tasks know.            *)

LEMMA PushStep ==
    ASSUME Inv, NEW t \in Task, PushFsm(t)
    PROVE  Inv'
<1> USE DEF PushFsm, taskVars
<1>1. LoopInv'
  BY LoopPush DEF Inv
<1>2. TypeOK'
  BY <1>1, TypeFrame DEF Inv, TypeOK, Steps
<1>3. MapInv' /\ Machines'
  BY MapFrame
<1>4. StepInv'
  BY DEF Push, Inv, StepInv
<1>5. MutexInv'
  BY DEF Inv, MutexInv
<1> QED
  BY <1>1, <1>2, <1>3, <1>4, <1>5 DEF Inv

LEMMA CollectStep ==
    ASSUME Inv, LeaveLoop \/ Collect, UNCHANGED <<inputs, taskVars>>
    PROVE  Inv'
<1> USE DEF taskVars
<1>1. LoopInv' /\ UNCHANGED <<remaining, futures, poolVars>>
  BY LoopCollect DEF Inv, LeaveLoop
<1>2. TypeOK'
  BY <1>1, TypeFrame DEF Inv, TypeOK, Steps
<1>3. MapInv' /\ Machines'
  BY MapFrame
<1>4. StepInv'
  BY <1>1 DEF poolVars, Inv, StepInv
<1>5. MutexInv'
  BY DEF Inv, MutexInv
<1> QED
  BY <1>1, <1>2, <1>3, <1>4, <1>5 DEF Inv

-------------------------------------------------------------------------------
(* A worker takes a task up and lays it down.                              *)

LEMMA BeginStep ==
    ASSUME Inv, NEW w \in Worker, NEW t \in Task, Begin(w, t)
    PROVE  Inv'
<1> USE DEF Begin, Goto
<1>1. LoopInv'
  BY LoopTake DEF Inv
<1>2. /\ step' \in [Task -> Steps]
      /\ \A u \in Task : step'[u] = IF u = t THEN "count" ELSE step[u]
  BY DEF Inv, TypeOK, Steps
<1>3. TypeOK'
  BY <1>1, <1>2, TypeFrame DEF Inv, TypeOK
<1>4. MapInv' /\ Machines'
  BY MapFrame
<1>5. step[t] = "new" /\ t \notin remaining
  BY DEF Take, Inv, StepInv, LoopInv, PoolInv
<1>6. StepInv'
  BY <1>2, <1>5 DEF Take, callerVars, Inv, StepInv
<1>7. MutexInv'
  BY <1>2, <1>5 DEF Inv, MutexInv
<1> QED
  BY <1>1, <1>3, <1>4, <1>6, <1>7 DEF Inv

LEMMA EndStep ==
    ASSUME Inv, NEW w \in Worker, NEW t \in Task, End(w, t)
    PROVE  Inv'
<1> USE DEF End, Goto
<1>1. LoopInv' /\ \A u \in Task : outcome'[u] = IF u = t THEN "value" ELSE outcome[u]
  BY LoopFinish DEF Inv
<1>2. /\ step' \in [Task -> Steps]
      /\ \A u \in Task : step'[u] = IF u = t THEN "done" ELSE step[u]
  BY DEF Inv, TypeOK, Steps
<1>3. TypeOK'
  BY <1>1, <1>2, TypeFrame DEF Inv, TypeOK
<1>4. MapInv' /\ Machines'
  BY MapFrame
<1>5. StepInv'
  BY <1>1, <1>2 DEF Finish, callerVars, Inv, StepInv
<1>6. MutexInv'
  BY <1>2 DEF Inv, MutexInv
<1> QED
  BY <1>1, <1>3, <1>4, <1>5, <1>6 DEF Inv

-------------------------------------------------------------------------------
(* The steps of the lambda.                                                *)

\* A task that goes from one place inside the lambda to another.
LEMMA BodyFrame ==
    ASSUME Inv, NEW t \in Task, NEW there \in Steps \ {"new", "done"},
           step[t] \notin {"new", "done"}, Goto(t, there),
           \A u \in Task : u # t => left'[u] = left[u],
           UNCHANGED <<callerVars, poolVars>>
    PROVE  /\ LoopInv'
           /\ StepInv'
           /\ step' \in [Task -> Steps]
           /\ \A u \in Task : step'[u] = IF u = t THEN there ELSE step[u]
<1>1. /\ step' \in [Task -> Steps]
      /\ \A u \in Task : step'[u] = IF u = t THEN there ELSE step[u]
  BY DEF Goto, Inv, TypeOK, Steps
<1>2. LoopInv'
  BY LoopStutter DEF Inv
<1>3. StepInv'
  BY <1>1 DEF Inv, StepInv, callerVars, poolVars
<1> QED
  BY <1>1, <1>2, <1>3

LEMMA LockCountStep ==
    ASSUME Inv, NEW t \in Task, LockCount(t)
    PROVE  Inv'
<1> USE DEF LockCount
<1>1. LoopInv' /\ StepInv'
  BY BodyFrame DEF Steps
<1>2. /\ step' \in [Task -> Steps]
      /\ \A u \in Task : step'[u] = IF u = t THEN "counting" ELSE step[u]
  BY BodyFrame DEF Steps
<1>3. TypeOK'
  BY <1>1, <1>2, TypeFrame DEF Inv, TypeOK
<1>4. MapInv' /\ Machines'
  BY MapFrame
<1>5. MutexInv'
  BY <1>2, NoTaskAssumption DEF Inv, MutexInv, MutexFree
<1> QED
  BY <1>1, <1>3, <1>4, <1>5 DEF Inv

LEMMA CountUpStep ==
    ASSUME Inv, NEW t \in Task, CountUp(t)
    PROVE  Inv'
<1> USE DEF CountUp, Unlock
<1>1. LoopInv' /\ StepInv'
  BY BodyFrame DEF Steps
<1>2. /\ step' \in [Task -> Steps]
      /\ \A u \in Task : step'[u] = IF u = t THEN "loop" ELSE step[u]
  BY BodyFrame DEF Steps
<1>3. TypeOK'
  BY <1>1, <1>2, TypeFrame DEF Inv, TypeOK
<1>4. MapInv' /\ Machines'
  BY MapFrame
<1>5. MutexInv'
  BY <1>2, NoTaskAssumption DEF Inv, MutexInv
<1> QED
  BY <1>1, <1>3, <1>4, <1>5 DEF Inv

LEMMA LockIdStep ==
    ASSUME Inv, NEW t \in Task, LockId(t)
    PROVE  Inv'
<1> USE DEF LockId
<1>1. LoopInv' /\ StepInv'
  BY BodyFrame DEF Steps
<1>2. /\ step' \in [Task -> Steps]
      /\ \A u \in Task : step'[u] = IF u = t THEN "emplacing" ELSE step[u]
  BY BodyFrame DEF Steps
<1>3. /\ id' \in [Task -> Nat]
      /\ \A u \in Task : id'[u] = IF u = t THEN idCount ELSE id[u]
  BY DEF Inv, TypeOK
<1>4. TypeOK'
  BY <1>1, <1>2, <1>3, TypeFrame DEF Inv, TypeOK
<1>5. MapInv' /\ Machines'
  BY MapFrame
<1>6. MutexInv'
  BY <1>2, <1>3, NoTaskAssumption DEF Inv, MutexInv, MutexFree
<1> QED
  BY <1>1, <1>4, <1>5, <1>6 DEF Inv

\* The id that the task took is still free, so that emplace enters the property.
LEMMA EmplaceStep ==
    ASSUME Inv, NEW t \in Task, Emplace(t)
    PROVE  Inv'
<1> DEFINE p == NextWanted(t)
           n == idCount
<1>1. /\ id[t] = n /\ n \in Nat /\ holder = t
      /\ left[t] # {} /\ left[t] \subseteq Wanted(t)
      /\ DOMAIN properties = 0..(n - 1)
  BY DEF Emplace, Inv, MutexInv, TypeOK, MapInv
<1>2. p \in left[t]
  BY <1>1 DEF NextWanted
<1>3. p \in Wanted(t) /\ p.var1 = t /\ Key(Marked(p)) = p
  BY <1>1, <1>2, WantedShape
<1> HIDE DEF p
<1>4. /\ idCount' = n + 1
      /\ holder' = NoTask
      /\ Goto(t, "loop")
      /\ UNCHANGED <<callerVars, poolVars, inputs, count, seen, id>>
  BY <1>1 DEF Emplace, NextId, Unlock
<1>5. /\ left' \in [Task -> SUBSET AllWanted]
      /\ \A u \in Task : left'[u] = IF u = t THEN left[u] \ {p} ELSE left[u]
  BY DEF Emplace, Inv, TypeOK, p
<1>6. /\ DOMAIN properties' = 0..n
      /\ \A i \in 0..(n - 1) : properties'[i] = properties[i]
      /\ properties'[n] = Marked(p)
  <2>1. properties' = [i \in 0..(n - 1) \cup {n} |-> IF i \in 0..(n - 1) THEN properties[i] ELSE Marked(p)]
    BY <1>1 DEF Emplace, Emplaced, p
  <2>2. 0..(n - 1) \cup {n} = 0..n /\ n \notin 0..(n - 1)
    BY <1>1
  <2> HIDE DEF n
  <2> QED
    BY <2>1, <2>2
<1>7. LoopInv' /\ StepInv' /\ step' \in [Task -> Steps]
      /\ \A u \in Task : step'[u] = IF u = t THEN "loop" ELSE step[u]
  BY <1>4, <1>5, BodyFrame DEF Steps, Emplace
<1>8. TypeOK'
  <2>1. \A f \in Task : left'[f] \subseteq Wanted(f)
    BY <1>5 DEF Inv, TypeOK
  <2> QED
    BY <1>1, <1>4, <1>5, <1>7, <2>1, TypeFrame DEF Inv, TypeOK
<1>9. Machines'
  BY <1>4 DEF inputs, Inv, Machines, Machine
<1>10. MutexInv'
  BY <1>1, <1>4, <1>5, <1>7, NoTaskAssumption DEF Inv, MutexInv
<1>11. \A f \in Task : Wanted(f)' = Wanted(f)
  BY <1>4 DEF inputs, Wanted, Singles, Transitions
<1>12. p \notin Written
  <2> SUFFICES ASSUME NEW f \in Task, p \in Wanted(f) \ left[f] PROVE FALSE
    BY DEF Written
  <2>1. f = t
    BY <1>3, WantedShape
  <2> QED
    BY <1>2, <2>1
<1>13. Written' = Written \cup {p}
  BY <1>2, <1>3, <1>5, <1>11 DEF Written
<1>14. ASSUME NEW q PROVE Marked(q)' = Marked(q)
  BY <1>4 DEF inputs, Marked, ShouldBeValid, SameArc
<1>15. MapInv'
  <2>1. 0..n = 0..(n - 1) \cup {n} /\ idCount' - 1 = n
    BY <1>1, <1>4
  <2>2. /\ \A i \in 0..(n - 1) : Key(properties'[i]) = Key(properties[i])
        /\ Key(properties'[n]) = p
    BY <1>3, <1>6
  <2>3. /\ \A i \in 0..(n - 1) : Key(properties[i]) # p /\ properties[i] = Marked(Key(properties[i]))
        /\ {Key(properties[i]) : i \in 0..(n - 1)} = Written
        /\ \A i, j \in 0..(n - 1) : Key(properties[i]) = Key(properties[j]) => i = j
    BY <1>1, <1>12 DEF Inv, MapInv
  <2> HIDE DEF n
  <2>4. {Key(properties'[i]) : i \in 0..n} = Written \cup {p}
    BY <2>1, <2>2, <2>3
  <2>5. \A i, j \in 0..n : Key(properties'[i]) = Key(properties'[j]) => i = j
    BY <2>1, <2>2, <2>3
  <2>6. \A i \in 0..n : properties'[i] = Marked(Key(properties'[i]))
    BY <1>6, <2>1, <2>2, <2>3
  <2> QED
    BY <1>6, <1>13, <1>14, <2>1, <2>4, <2>5, <2>6 DEF MapInv, Key
<1> QED
  BY <1>7, <1>8, <1>9, <1>10, <1>15 DEF Inv

-------------------------------------------------------------------------------
LEMMA NextInv == Inv /\ [Next]_vars => Inv'
<1> SUFFICES ASSUME Inv, [Next]_vars PROVE Inv'
  OBVIOUS
<1>1. CASE Caller
  BY <1>1, PushStep, CollectStep DEF Caller
<1>2. ASSUME NEW w \in Worker, Work(w) PROVE Inv'
  BY <1>2, BeginStep, EndStep, LockCountStep, CountUpStep, LockIdStep, EmplaceStep DEF Work, Body
<1>3. CASE UNCHANGED vars
  <2>1. LoopInv'
    BY <1>3, LoopStutter DEF Inv, vars
  <2>2. TypeOK'
    BY <1>3, <2>1, TypeFrame DEF vars, taskVars, Inv, TypeOK, Steps
  <2>3. MapInv' /\ Machines'
    BY <1>3, MapFrame DEF vars, taskVars
  <2>4. StepInv' /\ MutexInv'
    BY <1>3 DEF vars, callerVars, poolVars, taskVars, Inv, StepInv, MutexInv
  <2> QED
    BY <2>1, <2>2, <2>3, <2>4 DEF Inv
<1> QED
  BY <1>1, <1>2, <1>3 DEF Next

\* The invariant holds throughout every call.
THEOREM Invariance == Spec => []Inv
<1>1. Init => Inv
  BY InitInv
<1>2. Inv /\ [Next]_vars => Inv'
  BY NextInv
<1> QED
  BY <1>1, <1>2, PTL DEF Spec

-------------------------------------------------------------------------------
(* The threads never wait for each other in a circle.                      *)

\* A task that has begun and is not done has a worker that runs it.
Attended == \A t \in Task : step[t] \notin {"new", "done"} => \E w \in Worker : running[w] = t

LEMMA AttendedStep == Inv /\ Attended /\ [Next]_vars => Attended'
<1> SUFFICES ASSUME Inv, Attended, [Next]_vars PROVE Attended'
  OBVIOUS
<1>1. running \in [Worker -> Task \cup {NoTask}] /\ step \in [Task -> Steps]
  BY DEF Inv, TypeOK, ParallelForType, Steps
<1>2. CASE UNCHANGED <<step, running>>
  BY <1>2 DEF Attended
<1>3. Caller \/ UNCHANGED vars => UNCHANGED <<step, running>>
  BY DEF Caller, PushFsm, Push, LeaveLoop, AllPushed, Collect, Wait, AllWaited, Get, Rethrow,
         AllGot, vars, poolVars, taskVars
<1>4. ASSUME NEW w \in Worker, NEW t \in Task, Begin(w, t) PROVE Attended'
  <2>1. /\ \A v \in Worker : running'[v] = IF v = w THEN t ELSE running[v]
        /\ \A u \in Task : step'[u] = IF u = t THEN "count" ELSE step[u]
        /\ running[w] = NoTask
    BY <1>1, <1>4 DEF Begin, Take, Goto
  <2> QED
    BY <2>1, NoTaskAssumption DEF Attended
<1>5. ASSUME NEW w \in Worker, NEW t \in Task, End(w, t) PROVE Attended'
  <2>1. /\ \A v \in Worker : running'[v] = IF v = w THEN NoTask ELSE running[v]
        /\ \A u \in Task : step'[u] = IF u = t THEN "done" ELSE step[u]
        /\ running[w] = t
    BY <1>1, <1>5 DEF End, Finish, Goto
  <2> QED
    BY <2>1 DEF Attended
<1>6. ASSUME NEW w \in Worker, NEW t \in Task, running[w] = t, Body(t)
      PROVE  Attended'
  <2>1. /\ running' = running
        /\ \A u \in Task : u # t => step'[u] = step[u]
    BY <1>1, <1>6 DEF Body, LockCount, CountUp, LockId, Emplace, Goto, poolVars
  <2> QED
    BY <1>6, <2>1 DEF Attended
<1> QED
  BY <1>2, <1>3, <1>4, <1>5, <1>6 DEF Next, Work

\* When the caller, and when a worker, has a step to take.
CallerCan == \/ loop = "push"
             \/ loop \in {"wait", "get"} /\ (next > Len(futures) \/ outcome[futures[next]] # "pending")
WorkerCan(w) ==
    LET f == running[w]
    IN  IF f = NoTask THEN queued # {}
        ELSE step[f] = "count" \/ (step[f] = "loop" /\ left[f] # {}) => MutexFree
NeverStuck == loop \notin Gone => CallerCan \/ \E w \in Worker : WorkerCan(w)

LEMMA InvNeverStuck == ASSUME Worker # {} PROVE Inv /\ Attended => NeverStuck
<1> SUFFICES ASSUME Inv, Attended, loop \notin Gone, ~CallerCan
             PROVE  \E w \in Worker : WorkerCan(w)
  BY DEF NeverStuck
<1>1. loop \in {"wait", "get"} /\ next \in 1..Len(futures) /\ outcome[futures[next]] = "pending"
  BY DEF CallerCan, Gone, Inv, TypeOK, ParallelForType, Phase
<1>2. PICK t \in Task : t \in Range(futures) /\ outcome[t] = "pending"
  BY <1>1 DEF Inv, TypeOK, ParallelForType, Range
<1>3. CASE holder # NoTask
  <2>1. holder \in Task /\ step[holder] \in {"counting", "emplacing"}
    BY <1>3 DEF Inv, TypeOK, MutexInv
  <2>2. PICK v \in Worker : running[v] = holder
    BY <2>1 DEF Attended
  <2> QED
    BY <1>3, <2>1, <2>2 DEF WorkerCan
<1>4. CASE holder = NoTask /\ t \in queued
  BY <1>4 DEF WorkerCan, MutexFree
<1>5. CASE holder = NoTask /\ t \notin queued
  <2>1. step[t] \notin {"new", "done"}
    BY <1>1, <1>2, <1>5 DEF Inv, LoopInv, PoolInv, StepInv
  <2>2. PICK w \in Worker : running[w] = t
    BY <2>1 DEF Attended
  <2> QED
    BY <1>5, <2>2, NoTaskAssumption DEF WorkerCan, MutexFree
<1> QED
  BY <1>3, <1>4, <1>5

\* create_properties does not hang, as long as there is a thread in the pool: until it is over
\* the caller can go on or a worker can, since what the caller waits for is queued or
\* run, and whoever holds the mutex is run and waits for nothing.
THEOREM NoDeadlock == ASSUME Worker # {} PROVE Spec => []NeverStuck
<1>1. Init => Attended
  BY DEF Init, Attended
<1>2. Spec => []Attended
  BY <1>1, AttendedStep, Invariance, PTL DEF Spec
<1>3. Inv /\ Attended => NeverStuck
  BY InvNeverStuck
<1> QED
  BY <1>2, <1>3, Invariance, PTL

-------------------------------------------------------------------------------
(* What the map says when create_properties has returned, and whatever     *)
(* about two machines is entered after that.                               *)

OwnIds == 0..(idCount - 1)
CrossIds == DOMAIN properties \ OwnIds

\* create_properties as its tasks see it, without the map.
TasksInv == TypeOK /\ LoopInv /\ Machines /\ StepInv /\ MutexInv

\* What create_properties wrote is there, each property once.
OwnInv == /\ OwnIds \subseteq DOMAIN properties
          /\ \A i \in OwnIds : properties[i] = Marked(Key(properties[i]))
          /\ {Key(properties[i]) : i \in OwnIds} = Written
          /\ \A i, j \in OwnIds : Key(properties[i]) = Key(properties[j]) => i = j

\* The rest of the map is about two machines.
OthersInv == \A i \in CrossIds : properties[i].var2 \notin {NoTask, properties[i].var1}

MapOK == TasksInv /\ OwnInv /\ OthersInv

LEMMA InvMapOK == Inv => MapOK
BY DEF Inv, MapInv, MapOK, TasksInv, OwnInv, OthersInv, OwnIds, CrossIds

\* Every property that create_properties wrote is one that a machine wants.
LEMMA OwnAreWanted ==
    ASSUME MapOK
    PROVE  /\ Own = OwnIds
           /\ Cross = CrossIds
           /\ \A i \in OwnIds : Key(properties[i]) \in AllWanted
<1>1. ASSUME NEW i \in OwnIds
      PROVE  Key(properties[i]) \in AllWanted /\ properties[i].var2 \in {NoTask, properties[i].var1}
  <2>1. Key(properties[i]) \in Written
    BY DEF MapOK, OwnInv
  <2>2. PICK f \in Task : Key(properties[i]) \in Wanted(f)
    BY <2>1 DEF Written
  <2>3. Key(properties[i]) \in AllWanted
    BY <2>2 DEF AllWanted
  <2>4. Key(properties[i]).var2 \in {NoTask, Key(properties[i]).var1}
    BY <2>2, WantedShape
  <2> QED
    BY <2>3, <2>4 DEF Key
<1>2. Own = OwnIds
  BY <1>1 DEF MapOK, OwnInv, OthersInv, Own, CrossIds
<1> QED
  BY <1>1, <1>2 DEF Cross, CrossIds

\* When the call has returned nothing is left to be written.
LEMMA AllWritten ==
    ASSUME TasksInv, loop = "returned"
    PROVE  Written = AllWanted
<1>1. \A t \in Task : outcome[t] = "value"
  BY LoopReturned DEF TasksInv
<1>2. \A t \in Task : left[t] = {}
  BY <1>1 DEF TasksInv, StepInv
<1> QED
  BY <1>2 DEF Written, AllWanted

\* The ids of create_properties and the properties that are wanted are as many.
LEMMA OwnBijection ==
    ASSUME MapOK, loop = "returned"
    PROVE  /\ {Key(properties[i]) : i \in OwnIds} = AllWanted
           /\ [i \in OwnIds |-> Key(properties[i])] \in Bijection(OwnIds, AllWanted)
           /\ IsFiniteSet(AllWanted)
           /\ idCount = Cardinality(AllWanted)
<1> DEFINE key == [i \in OwnIds |-> Key(properties[i])]
<1>1. {Key(properties[i]) : i \in OwnIds} = AllWanted
  BY AllWritten DEF MapOK, OwnInv
<1>2. key \in [OwnIds -> AllWanted]
  BY OwnAreWanted
<1>3. \A i, j \in OwnIds : key[i] = key[j] => i = j
  BY DEF MapOK, OwnInv
<1>4. \A p \in AllWanted : \E i \in OwnIds : key[i] = p
  BY <1>1
<1>5. key \in Bijection(OwnIds, AllWanted)
  BY <1>2, <1>3, <1>4, Fun_IsBij
<1>6. ExistsBijection(OwnIds, AllWanted)
  BY <1>5 DEF ExistsBijection
<1>7. idCount \in Nat
  BY DEF MapOK, TasksInv, TypeOK
<1>8. IsFiniteSet(OwnIds) /\ Cardinality(OwnIds) = idCount
  BY <1>7, FS_Interval DEF OwnIds
<1> QED
  BY <1>1, <1>5, <1>6, <1>8, FS_Bijection

LEMMA OwnComplete == MapOK => Complete
BY OwnBijection, OwnAreWanted DEF Complete, OwnIds

LEMMA OwnArcsExpected == MapOK => ArcsExpected
<1> SUFFICES ASSUME MapOK, loop = "returned",
                    NEW f \in Task, ~isCounter[f], NEW m \in states[f], NEW n \in states[f]
             PROVE  (\E a \in arcs[f] : value[a[1]] = value[m] /\ value[a[2]] = value[n])
                    <=> \E i \in DOMAIN properties :
                           /\ Key(properties[i]) = [var1 |-> f, state1 |-> m, var2 |-> f, state2 |-> n]
                           /\ properties[i].shouldBeValid
  BY Zenon DEF ArcsExpected
<1> DEFINE p == [var1 |-> f, state1 |-> m, var2 |-> f, state2 |-> n]
<1>1. p \in AllWanted
  BY DEF AllWanted, Wanted, Transitions
<1>2. ShouldBeValid(p) <=> \E a \in arcs[f] : value[a[1]] = value[m] /\ value[a[2]] = value[n]
  <2>1. n # NoState
    BY NoStateAssumption DEF MapOK, TasksInv, TypeOK
  <2> QED
    BY <2>1 DEF ShouldBeValid, SameArc
<1>3. PICK i \in OwnIds : Key(properties[i]) = p
  BY <1>1, OwnBijection
<1>4. /\ \A j \in DOMAIN properties : Key(properties[j]) = p => j \in OwnIds
      /\ \A j \in OwnIds : j \in DOMAIN properties /\ properties[j] = Marked(Key(properties[j]))
  <2>1. \A j \in DOMAIN properties : Key(properties[j]) = p => j \in Own
    BY DEF Key, Own
  <2> QED
    BY <2>1, OwnAreWanted DEF MapOK, OwnInv
<1>5. \A j \in DOMAIN properties : Key(properties[j]) = p =>
         (properties[j].shouldBeValid <=> ShouldBeValid(p))
  <2> SUFFICES ASSUME NEW j \in DOMAIN properties, Key(properties[j]) = p
               PROVE  properties[j].shouldBeValid <=> ShouldBeValid(p)
    OBVIOUS
  <2>1. properties[j] = Marked(p)
    BY <1>4
  <2>2. Marked(p).shouldBeValid <=> ShouldBeValid(p)
    BY DEF Marked
  <2> QED
    BY <2>1, <2>2
<1> HIDE DEF p
<1>6. i \in DOMAIN properties
  BY <1>3, <1>4
<1> QED
  BY <1>2, <1>3, <1>5, <1>6 DEF p

\* No property is lost and none is written twice, and the ids have no gaps, however the
\* tasks of the machines take turns.
THEOREM Completeness == Spec => []Complete
BY OwnComplete, InvMapOK, Invariance, PTL

\* A transition within a machine is expected exactly when it was read off the source.
THEOREM Expectation == Spec => []ArcsExpected
BY OwnArcsExpected, InvMapOK, Invariance, PTL

-------------------------------------------------------------------------------
(* add_cross_properties.  The map keeps what create_properties has left    *)
(* there, and the ids of the cross properties lie behind.                  *)

\* How far main has come, and the ids that are free.
StageInv == /\ pc = "create" => /\ DOMAIN properties = OwnIds
                                /\ coupled = {} /\ addedPairs = {}
            /\ pc # "create" => loop = "returned"
            /\ pc = "crossing" => /\ crossId \in Nat
                                  /\ \A i \in DOMAIN properties : i \in Nat /\ i < crossId

\* What the loops have in hand is about coupled machines that are no counters.
LoopsInv == /\ coupled \subseteq {p \in Task \X Task : p[1] # p[2]}
            /\ othersLeft \subseteq Group(from)
            /\ othersLeft # {} => Crossed(from)
            /\ combosLeft # {} => /\ to \in Group(from) /\ Crossed(from) /\ Crossed(to)
                                  /\ combosLeft \subseteq states[from] \X states[to]
            /\ pc # "crossing" => groupsLeft = {} /\ othersLeft = {} /\ combosLeft = {}

CrossProperty(f, m, g, n) == [var1 |-> f, state1 |-> m, var2 |-> g, state2 |-> n,
                              shouldBeValid |-> FALSE, delay |-> 0]

\* The constants that a property is about.
PairOf(p) == <<p.state1, p.state2>>

\* A cross property is about two coupled machines, and its constants are remembered.
EntriesInv == \A i \in CrossIds : \E f, g \in Task : \E m \in states[f], n \in states[g] :
                 /\ f # g /\ Linked(f, g)
                 /\ properties[i] = CrossProperty(f, m, g, n)
                 /\ Remembered(m, n) \subseteq addedPairs

\* What is remembered has a property, and only one.
RememberedInv == /\ \A c \in addedPairs : \E i \in CrossIds : c \in Remembered(properties[i].state1, properties[i].state2)
                 /\ \A i, j \in CrossIds :
                       PairOf(properties[i]) \in Remembered(properties[j].state1, properties[j].state2) => i = j

\* A pair of states that is not remembered is still to come.
ProgressInv == \A f, g \in Task : <<f, g>> \in coupled /\ Crossed(f) /\ Crossed(g) =>
                  \A m \in states[f], n \in states[g] :
                     \/ f \in groupsLeft
                     \/ f = from /\ g \in othersLeft
                     \/ f = from /\ g = to /\ <<m, n>> \in combosLeft
                     \/ <<m, n>> \in addedPairs

CrossInv == LoopsInv /\ EntriesInv /\ RememberedInv /\ ProgressInv

MainInv == TasksInv /\ OwnInv /\ StageInv /\ CrossInv

\* Before the groups are known this is the invariant of create_properties.
LEMMA CreateInv ==
    ASSUME pc = "create" => DOMAIN properties = OwnIds
    PROVE  /\ Inv /\ pc = "create" => TasksInv /\ OwnInv
           /\ TasksInv /\ OwnInv /\ pc = "create" => Inv
BY DEF Inv, TasksInv, MapInv, OwnInv, OwnIds

LEMMA InitMain == Init /\ CrossInit => MainInv
<1> SUFFICES ASSUME Init, CrossInit PROVE MainInv
  OBVIOUS
<1>1. Inv
  BY InitInv
<1>2. DOMAIN properties = OwnIds
  BY <1>1 DEF Inv, MapInv, OwnIds
<1>3. TasksInv /\ OwnInv
  BY <1>1, <1>2, CreateInv DEF CrossInit
<1>4. StageInv
  BY <1>2 DEF CrossInit, StageInv
<1>5. CrossInv
  BY <1>2 DEF CrossInit, CrossInv, LoopsInv, EntriesInv, RememberedInv, ProgressInv, CrossIds
<1> QED
  BY <1>3, <1>4, <1>5 DEF MainInv

\* Once the call has returned no task is left to take a step.
LEMMA NoTaskLeft ==
    ASSUME TasksInv, loop = "returned", Next
    PROVE  FALSE
<1>1. \A t \in Task : outcome[t] = "value"
  BY LoopReturned DEF TasksInv
<1>2. queued = {} /\ \A w \in Worker : running[w] \notin Task
  BY <1>1 DEF TasksInv, LoopInv, PoolInv, ParallelForType
<1>3. ~Caller
  BY DEF Caller, PushFsm, Push, LeaveLoop, AllPushed, Collect, Wait, AllWaited, Get, Rethrow, AllGot
<1>4. ASSUME NEW w \in Worker, Work(w) PROVE FALSE
  BY <1>2, <1>4 DEF Work, Begin, Take, End
<1> QED
  BY <1>3, <1>4 DEF Next

\* A step of create_properties.
LEMMA CreateStep ==
    ASSUME MainInv, Next, UNCHANGED <<crossVars, reportVars>>
    PROVE  MainInv'
<1> USE DEF crossVars
<1>1. pc = "create"
  BY NoTaskLeft DEF MainInv, StageInv
<1>2. DOMAIN properties = OwnIds /\ coupled = {} /\ addedPairs = {}
  BY <1>1 DEF MainInv, StageInv
<1>3. Inv
  BY <1>1, <1>2, CreateInv DEF MainInv
<1>4. Inv'
  BY <1>3, NextInv
<1>5. DOMAIN properties' = OwnIds'
  BY <1>4 DEF Inv, MapInv, OwnIds
<1>6. TasksInv' /\ OwnInv'
  BY <1>4, <1>5 DEF Inv, TasksInv, MapInv, OwnInv
<1>7. StageInv'
  BY <1>1, <1>2, <1>5 DEF StageInv
<1>8. CrossInv'
  <2>1. LoopsInv
    BY DEF MainInv, CrossInv
  <2>2. othersLeft = {} /\ combosLeft = {} /\ groupsLeft = {}
    BY <1>1, <2>1 DEF LoopsInv
  <2> QED
    BY <1>1, <1>2, <1>5, <2>2 DEF CrossInv, LoopsInv, EntriesInv, RememberedInv, ProgressInv, CrossIds
<1> QED
  BY <1>6, <1>7, <1>8 DEF MainInv

\* What main does leaves the tasks and what they wrote alone.
LEMMA OwnFrame ==
    ASSUME MainInv, UNCHANGED createVars,
           \A i \in DOMAIN properties : i \in DOMAIN properties' /\ properties'[i] = properties[i]
    PROVE  /\ TasksInv' /\ OwnInv'
           /\ OwnIds' = OwnIds
           /\ \A f, g : Crossed(f)' = Crossed(f) /\ (Linked(f, g) /\ coupled' = coupled => Linked(f, g)')
<1> USE DEF createVars, inputs
<1>1. LoopInv'
  BY LoopStutter DEF MainInv, TasksInv
<1>2. \A f \in Task : Wanted(f)' = Wanted(f)
  BY DEF Wanted, Singles, Transitions
<1>3. AllWanted' = AllWanted /\ Written' = Written
  BY <1>2 DEF AllWanted, Written
<1>4. TypeOK'
  BY <1>1, <1>2, <1>3 DEF MainInv, TasksInv, TypeOK, LoopInv
<1>5. Machines'
  BY DEF MainInv, TasksInv, Machines, Machine
<1>6. StepInv' /\ MutexInv'
  BY DEF MainInv, TasksInv, callerVars, poolVars, StepInv, MutexInv
<1>7. ASSUME NEW p PROVE Marked(p)' = Marked(p) /\ Key(p)' = Key(p)
  BY DEF Marked, ShouldBeValid, SameArc, Key
<1>8. OwnIds' = OwnIds
  BY DEF OwnIds
<1>9. \A i \in OwnIds : i \in DOMAIN properties' /\ properties'[i] = properties[i]
  BY DEF MainInv, OwnInv
<1>10. OwnInv'
  BY <1>3, <1>7, <1>8, <1>9 DEF MainInv, OwnInv, Key
<1>11. \A f, g : Crossed(f)' = Crossed(f) /\ (Linked(f, g) /\ coupled' = coupled => Linked(f, g)')
  BY DEF Crossed, Linked
<1> QED
  BY <1>1, <1>4, <1>5, <1>6, <1>8, <1>10, <1>11 DEF TasksInv

\* The loops come to every machine of the groups.
LEMMA StartStep ==
    ASSUME MainInv, NEW groups \in AllFamilies, Start(groups)
    PROVE  MainInv'
<1> USE DEF Start, AllFamilies
<1>1. /\ DOMAIN properties = OwnIds /\ loop = "returned"
      /\ addedPairs = {} /\ groupsLeft = {} /\ othersLeft = {} /\ combosLeft = {}
  BY DEF MainInv, StageInv, CrossInv, LoopsInv
<1>2. TasksInv' /\ OwnInv' /\ OwnIds' = OwnIds
  BY OwnFrame
<1>3. crossId' \in Nat /\ \A i \in OwnIds : i < crossId'
  <2>1. idCount \in Nat
    BY DEF MainInv, TasksInv, TypeOK
  <2>2. CASE idCount = 0
    BY <1>1, <2>2 DEF FirstId, OwnIds
  <2>3. CASE idCount # 0
    <3>1. idCount - 1 \in OwnIds /\ \A i \in OwnIds : idCount - 1 >= i
      BY <2>1, <2>3 DEF OwnIds
    <3>2. Max(OwnIds) \in OwnIds /\ \A i \in OwnIds : Max(OwnIds) >= i
      BY <3>1 DEF Max
    <3>3. crossId' = Max(OwnIds) + 1
      BY <1>1, <3>1 DEF FirstId
    <3> QED
      BY <2>1, <3>2, <3>3 DEF OwnIds
  <2> QED
    BY <2>2, <2>3
<1>4. StageInv'
  BY <1>1, <1>2, <1>3 DEF createVars, callerVars, StageInv, OwnIds
<1>5. LoopsInv'
  BY <1>1 DEF LoopsInv, Group
<1>6. EntriesInv' /\ RememberedInv'
  BY <1>1, <1>2 DEF EntriesInv, RememberedInv, CrossIds
<1>7. ProgressInv'
  BY DEF ProgressInv
<1> QED
  BY <1>2, <1>4, <1>5, <1>6, <1>7 DEF MainInv, CrossInv

\* Whatever main does that leaves the map and what is remembered alone.
LEMMA MapKept ==
    ASSUME MainInv, UNCHANGED <<createVars, coupled, addedPairs, properties>>
    PROVE  /\ TasksInv' /\ OwnInv' /\ EntriesInv' /\ RememberedInv'
           /\ OwnIds' = OwnIds /\ CrossIds' = CrossIds
           /\ \A f : Crossed(f)' = Crossed(f) /\ Group(f)' = Group(f)
<1>1. /\ TasksInv' /\ OwnInv' /\ OwnIds' = OwnIds /\ CrossIds' = CrossIds
      /\ \A f, g : Crossed(f)' = Crossed(f) /\ (Linked(f, g) => Linked(f, g)')
  BY OwnFrame DEF CrossIds
<1>2. EntriesInv'
  BY <1>1 DEF MainInv, CrossInv, EntriesInv, Remembered, CrossProperty, createVars, inputs
<1>3. RememberedInv'
  BY <1>1 DEF MainInv, CrossInv, RememberedInv, Remembered, PairOf
<1> QED
  BY <1>1, <1>2, <1>3 DEF Group

\* A stage of main that comes after the loops, or skips them.
LEMMA StageStep ==
    ASSUME MainInv, UNCHANGED <<createVars, properties, coupled, crossId, groupsLeft, from, to,
                                othersLeft, combosLeft, addedPairs>>,
           pc = "crossing" => groupsLeft = {} /\ othersLeft = {} /\ combosLeft = {},
           pc' \notin {"create", "crossing"}, loop = "returned"
    PROVE  MainInv'
<1>1. /\ TasksInv' /\ OwnInv' /\ EntriesInv' /\ RememberedInv'
      /\ \A f : Crossed(f)' = Crossed(f) /\ Group(f)' = Group(f)
  BY MapKept
<1>2. StageInv'
  BY DEF StageInv, createVars, callerVars
<1>3. LoopsInv'
  BY <1>1 DEF MainInv, CrossInv, LoopsInv, createVars, inputs
<1>4. ProgressInv'
  BY <1>1 DEF MainInv, CrossInv, ProgressInv, createVars, inputs
<1> QED
  BY <1>1, <1>2, <1>3, <1>4 DEF MainInv, CrossInv

LEMMA NextGroupStep ==
    ASSUME MainInv, NextGroup, UNCHANGED <<createVars, coupled>>
    PROVE  MainInv'
<1> USE DEF NextGroup
<1>1. /\ TasksInv' /\ OwnInv' /\ EntriesInv' /\ RememberedInv' /\ OwnIds' = OwnIds
      /\ \A f : Crossed(f)' = Crossed(f) /\ Group(f)' = Group(f)
  BY MapKept
<1>2. PICK f \in groupsLeft : /\ groupsLeft' = groupsLeft \ {f}
                              /\ from' = f
                              /\ othersLeft' = IF Crossed(f) THEN Group(f) ELSE {}
  OBVIOUS
<1>3. StageInv'
  BY <1>1 DEF MainInv, StageInv, createVars, callerVars
<1>4. LoopsInv'
  BY <1>1, <1>2 DEF MainInv, CrossInv, LoopsInv
<1>5. ProgressInv'
  <2> SUFFICES ASSUME NEW d \in Task, NEW g \in Task, <<d, g>> \in coupled, Crossed(d), Crossed(g),
                      NEW m \in states[d], NEW n \in states[g]
               PROVE  \/ d \in groupsLeft'
                      \/ d = from' /\ g \in othersLeft'
                      \/ <<m, n>> \in addedPairs
    BY <1>1 DEF ProgressInv, createVars, inputs
  <2>1. \/ d \in groupsLeft
        \/ <<m, n>> \in addedPairs
    BY DEF MainInv, CrossInv, ProgressInv
  <2>2. d = f => g \in othersLeft'
    BY <1>2 DEF Group
  <2> QED
    BY <1>2, <2>1, <2>2
<1> QED
  BY <1>1, <1>3, <1>4, <1>5 DEF MainInv, CrossInv

LEMMA NextOtherStep ==
    ASSUME MainInv, NextOther, UNCHANGED <<createVars, coupled>>
    PROVE  MainInv'
<1> USE DEF NextOther
<1>1. /\ TasksInv' /\ OwnInv' /\ EntriesInv' /\ RememberedInv' /\ OwnIds' = OwnIds
      /\ \A f : Crossed(f)' = Crossed(f) /\ Group(f)' = Group(f)
  BY MapKept
<1>2. PICK g \in othersLeft : /\ othersLeft' = othersLeft \ {g}
                              /\ to' = g
                              /\ combosLeft' = IF Crossed(g) THEN states[from] \X states[g] ELSE {}
  OBVIOUS
<1>3. StageInv'
  BY <1>1 DEF MainInv, StageInv, createVars, callerVars
<1>4. LoopsInv'
  <2>1. pc = "crossing" /\ g \in Group(from) /\ Crossed(from) /\ othersLeft' \subseteq Group(from)
    BY <1>2 DEF MainInv, CrossInv, LoopsInv
  <2>2. states' = states
    BY DEF createVars, inputs
  <2> QED
    BY <1>1, <1>2, <2>1, <2>2 DEF MainInv, CrossInv, LoopsInv
<1>5. ProgressInv'
  <2> SUFFICES ASSUME NEW d \in Task, NEW h \in Task, <<d, h>> \in coupled, Crossed(d), Crossed(h),
                      NEW m \in states[d], NEW n \in states[h]
               PROVE  \/ d \in groupsLeft
                      \/ d = from /\ h \in othersLeft'
                      \/ d = from /\ h = to' /\ <<m, n>> \in combosLeft'
                      \/ <<m, n>> \in addedPairs
    BY <1>1 DEF ProgressInv, createVars, inputs
  <2>1. \/ d \in groupsLeft
        \/ d = from /\ h \in othersLeft
        \/ <<m, n>> \in addedPairs
    BY DEF MainInv, CrossInv, ProgressInv
  <2> QED
    BY <1>2, <2>1
<1> QED
  BY <1>1, <1>3, <1>4, <1>5 DEF MainInv, CrossInv

\* A pair that was met the other way round is passed over; any other gets a property
\* under the next id, which is free, and is remembered both ways round.
LEMMA NextComboStep ==
    ASSUME MainInv, NextCombo, UNCHANGED <<createVars, coupled>>
    PROVE  MainInv'
<1> USE DEF NextCombo
<1>1. PICK c \in combosLeft : /\ combosLeft' = combosLeft \ {c}
                              /\ SkipCombo(c) \/ AddCombo(c)
  OBVIOUS
<1>2. /\ from \in Task /\ to \in Task /\ from # to
      /\ Crossed(from) /\ Crossed(to) /\ <<from, to>> \in coupled
      /\ combosLeft \subseteq states[from] \X states[to]
      /\ pc = "crossing" /\ loop = "returned"
  BY DEF MainInv, StageInv, CrossInv, LoopsInv, Group
<1>3. PICK m \in states[from], n \in states[to] : c = <<m, n>>
  BY <1>2
<1>4. states' = states /\ isCounter' = isCounter /\ loop' = loop /\ idCount' = idCount
  BY DEF createVars, callerVars, inputs
<1>5. LoopsInv'
  BY <1>1, <1>2, <1>4 DEF MainInv, CrossInv, LoopsInv, Group, Crossed
<1>6. addedPairs \subseteq addedPairs' /\ c \in addedPairs'
  BY <1>1, <1>3 DEF SkipCombo, AddCombo, Remembered
<1>7. ProgressInv'
  <2> SUFFICES ASSUME NEW d \in Task, NEW g \in Task, <<d, g>> \in coupled, Crossed(d), Crossed(g),
                      NEW k \in states[d], NEW l \in states[g]
               PROVE  \/ d \in groupsLeft
                      \/ d = from /\ g \in othersLeft
                      \/ d = from /\ g = to /\ <<k, l>> \in combosLeft'
                      \/ <<k, l>> \in addedPairs'
    BY <1>4 DEF ProgressInv, Crossed
  <2>1. \/ d \in groupsLeft
        \/ d = from /\ g \in othersLeft
        \/ d = from /\ g = to /\ <<k, l>> \in combosLeft
        \/ <<k, l>> \in addedPairs
    BY DEF MainInv, CrossInv, ProgressInv
  <2> QED
    BY <1>1, <1>6, <2>1
<1>8. CASE SkipCombo(c)
  <2>1. TasksInv' /\ OwnInv' /\ EntriesInv' /\ RememberedInv' /\ OwnIds' = OwnIds
    BY <1>8, MapKept DEF SkipCombo
  <2>2. StageInv'
    BY <1>2, <1>4, <1>8 DEF MainInv, StageInv, SkipCombo
  <2> QED
    BY <1>5, <1>7, <2>1, <2>2 DEF MainInv, CrossInv
<1>9. CASE AddCombo(c)
  <2> DEFINE p == CrossProperty(from, m, to, n)
             R == Remembered(m, n)
  <2>1. /\ <<m, n>> \notin addedPairs
        /\ properties' = Emplaced(properties, crossId, p)
        /\ addedPairs' = addedPairs \cup R
        /\ crossId' = crossId + 1
    BY <1>3, <1>9 DEF AddCombo, Property, CrossProperty
  <2>2. crossId \in Nat /\ \A i \in DOMAIN properties : i \in Nat /\ i < crossId
    BY <1>2 DEF MainInv, StageInv
  <2>3. crossId \notin DOMAIN properties /\ crossId \notin OwnIds
    BY <2>2 DEF MainInv, OwnInv
  <2>4. /\ DOMAIN properties' = DOMAIN properties \cup {crossId}
        /\ \A i \in DOMAIN properties : properties'[i] = properties[i]
        /\ properties'[crossId] = p
    BY <2>1, <2>3 DEF Emplaced
  <2>5. TasksInv' /\ OwnInv' /\ OwnIds' = OwnIds
    BY <2>4, OwnFrame
  <2>6. \A d, g : Linked(d, g) => Linked(d, g)'
    BY <2>4, OwnFrame
  <2>7. CrossIds' = CrossIds \cup {crossId} /\ crossId \notin CrossIds
    BY <2>3, <2>4, <2>5 DEF CrossIds
  <2>8. \A i \in CrossIds : properties'[i] = properties[i]
    BY <2>4 DEF CrossIds
  <2>9. StageInv'
    BY <1>2, <1>4, <2>1, <2>2, <2>4 DEF StageInv
  <2>10. EntriesInv'
    <3> SUFFICES ASSUME NEW i \in CrossIds'
                 PROVE  (\E d, g \in Task : \E k \in states[d], l \in states[g] :
                           /\ d # g /\ Linked(d, g)
                           /\ properties[i] = CrossProperty(d, k, g, l)
                           /\ Remembered(k, l) \subseteq addedPairs)'
      BY DEF EntriesInv
    <3>1. CASE i = crossId
      <4>1. Linked(from, to)'
        BY <1>2, <2>6 DEF Linked, Crossed
      <4> QED
        BY <1>2, <1>4, <2>1, <2>4, <3>1, <4>1 DEF CrossProperty, Remembered
    <3>2. CASE i \in CrossIds
      <4>1. PICK d \in Task, g \in Task : \E k \in states[d], l \in states[g] :
                           /\ d # g /\ Linked(d, g)
                           /\ properties[i] = CrossProperty(d, k, g, l)
                           /\ Remembered(k, l) \subseteq addedPairs
        BY <3>2 DEF MainInv, CrossInv, EntriesInv
      <4>2. PICK k \in states[d], l \in states[g] :
                           /\ d # g /\ Linked(d, g)
                           /\ properties[i] = CrossProperty(d, k, g, l)
                           /\ Remembered(k, l) \subseteq addedPairs
        BY <4>1
      <4>3. /\ k \in states'[d] /\ l \in states'[g]
            /\ properties'[i] = CrossProperty(d, k, g, l)
            /\ Remembered(k, l) \subseteq addedPairs'
        BY <1>4, <1>6, <2>8, <3>2, <4>2
      <4>4. Linked(d, g)'
        BY <2>6, <4>2
      <4> QED
        BY <4>2, <4>3, <4>4 DEF CrossProperty, Remembered
    <3> QED
      BY <2>7, <3>1, <3>2
  <2>11. p.state1 = m /\ p.state2 = n
    BY DEF CrossProperty
  <2>12. \A i \in CrossIds : PairOf(properties[i]) \in addedPairs
                             /\ Remembered(properties[i].state1, properties[i].state2) \subseteq addedPairs
    <3> SUFFICES ASSUME NEW i \in CrossIds
                 PROVE  /\ PairOf(properties[i]) \in addedPairs
                        /\ Remembered(properties[i].state1, properties[i].state2) \subseteq addedPairs
      OBVIOUS
    <3>1. PICK d, g, k, l : /\ properties[i] = CrossProperty(d, k, g, l)
                            /\ Remembered(k, l) \subseteq addedPairs
      BY DEF MainInv, CrossInv, EntriesInv
    <3>2. properties[i].state1 = k /\ properties[i].state2 = l
      BY <3>1 DEF CrossProperty
    <3> QED
      BY <3>1, <3>2 DEF Remembered, PairOf
  <2>13. \A d \in addedPairs' : \E i \in CrossIds' : d \in Remembered(properties'[i].state1, properties'[i].state2)
    <3>1. ASSUME NEW d \in addedPairs
          PROVE  \E i \in CrossIds : d \in Remembered(properties[i].state1, properties[i].state2)
      BY DEF MainInv, CrossInv, RememberedInv
    <3>2. ASSUME NEW d \in addedPairs
          PROVE  \E i \in CrossIds : d \in Remembered(properties'[i].state1, properties'[i].state2)
      BY <2>8, <3>1
    <3>3. ASSUME NEW d \in R
          PROVE  d \in Remembered(properties'[crossId].state1, properties'[crossId].state2)
      BY <2>4, <2>11
    <3> QED
      BY <2>1, <2>7, <3>2, <3>3
  <2>14. <<n, m>> \notin addedPairs
    <3> SUFFICES ASSUME <<n, m>> \in addedPairs PROVE FALSE
      OBVIOUS
    <3>1. PICK i \in CrossIds : <<n, m>> \in Remembered(properties[i].state1, properties[i].state2)
      BY DEF MainInv, CrossInv, RememberedInv
    <3>2. <<m, n>> \in Remembered(properties[i].state1, properties[i].state2)
      BY <3>1 DEF Remembered
    <3> QED
      BY <2>1, <2>12, <3>2
  <2>15. ASSUME NEW i \in CrossIds', NEW j \in CrossIds',
                PairOf(properties'[i]) \in Remembered(properties'[j].state1, properties'[j].state2)
         PROVE  i = j
    <3>1. CASE i \in CrossIds /\ j \in CrossIds
      BY <2>8, <2>15, <3>1 DEF MainInv, CrossInv, RememberedInv
    <3>2. CASE i \in CrossIds /\ j = crossId
      <4>1. PairOf(properties[i]) \in addedPairs /\ PairOf(properties[i]) \in R
        BY <2>4, <2>8, <2>11, <2>12, <2>15, <3>2
      <4> QED
        BY <2>1, <2>14, <4>1 DEF Remembered
    <3>3. CASE i = crossId /\ j \in CrossIds
      <4>1. <<m, n>> \in addedPairs
        BY <2>4, <2>8, <2>11, <2>12, <2>15, <3>3 DEF PairOf
      <4> QED
        BY <2>1, <4>1
    <3> QED
      BY <2>7, <3>1, <3>2, <3>3
  <2>16. RememberedInv'
    BY <2>13, <2>15 DEF RememberedInv, Remembered, PairOf
  <2> QED
    BY <1>5, <1>7, <2>5, <2>9, <2>10, <2>16 DEF MainInv, CrossInv
<1> QED
  BY <1>1, <1>8, <1>9

-------------------------------------------------------------------------------
LEMMA MainStep == MainInv /\ [ReportNext]_allVars => MainInv'
<1> SUFFICES ASSUME MainInv, [ReportNext]_allVars PROVE MainInv'
  OBVIOUS
<1> USE DEF Kept, vars, taskVars, createVars
<1>1. CASE Next /\ UNCHANGED <<crossVars, reportVars>>
  BY <1>1, CreateStep
<1>2. CASE UNCHANGED allVars
  <2>1. TasksInv' /\ OwnInv' /\ EntriesInv' /\ RememberedInv' /\ OwnIds' = OwnIds
        /\ \A f : Crossed(f)' = Crossed(f) /\ Group(f)' = Group(f)
    BY <1>2, MapKept DEF allVars, crossVars
  <2>2. StageInv'
    BY <1>2, <2>1 DEF MainInv, StageInv, allVars, crossVars, callerVars
  <2>3. LoopsInv' /\ ProgressInv'
    BY <1>2, <2>1 DEF MainInv, CrossInv, LoopsInv, ProgressInv, allVars, crossVars, inputs
  <2> QED
    BY <2>1, <2>2, <2>3 DEF MainInv, CrossInv
<1>3. ASSUME NEW groups \in AllFamilies, Couple(groups) PROVE MainInv'
  BY <1>3, StartStep DEF Couple
<1>4. CASE Crossing /\ UNCHANGED reportVars
  <2>1. CASE Done
    BY <1>4, <2>1, StageStep DEF Crossing, Done, MainInv, StageInv
  <2> QED
    BY <1>4, <2>1, NextGroupStep, NextOtherStep, NextComboStep DEF Crossing
<1>5. CASE DoNotCouple
  BY <1>5, StageStep DEF DoNotCouple
<1>6. ASSUME pc \notin {"create", "crossing"}, pc' \notin {"create", "crossing"}, Kept
      PROVE  MainInv'
  BY <1>6, StageStep DEF MainInv, StageInv
<1>7. ASSUME NEW reached, Prove(reached) PROVE MainInv'
  BY <1>6, <1>7 DEF Prove, ReadyToPrint
<1>8. CASE DoNotProve
  BY <1>6, <1>8 DEF DoNotProve, ReadyToPrint
<1>9. CASE Printing
  BY <1>6, <1>9 DEF Printing, PrintFsm, GroupFsm, GroupFails, AllPrinted, AllGrouped, PrintGroups, NoJson
<1>10. ASSUME NEW source, WriteJson(source) PROVE MainInv'
  BY <1>6, <1>10 DEF WriteJson
<1> QED
  BY <1>1, <1>2, <1>3, <1>4, <1>5, <1>7, <1>8, <1>9, <1>10 DEF ReportNext, Main

\* The map is as it should be throughout a run of the detector.
THEOREM MapInvariance == ReportSpec => []MainInv
<1>1. Init /\ CrossInit /\ ReportInit => MainInv
  BY InitMain
<1>2. MainInv /\ [ReportNext]_allVars => MainInv'
  BY MainStep
<1> QED
  BY <1>1, <1>2, PTL DEF ReportSpec

-------------------------------------------------------------------------------
\* The map is then as the properties about it want it, in every stage of main.
LEMMA MainMapOK == MainInv => MapOK
<1> SUFFICES ASSUME MainInv, NEW i \in CrossIds
             PROVE  properties[i].var2 \notin {NoTask, properties[i].var1}
  BY DEF MainInv, MapOK, OthersInv
<1>1. PICK f, g, m, n : g \in Task /\ f # g /\ properties[i] = CrossProperty(f, m, g, n)
  BY DEF MainInv, CrossInv, EntriesInv
<1> QED
  BY <1>1, NoTaskAssumption DEF CrossProperty

\* What create_properties has left in the map stays there: the cross properties take
\* ids of their own.
THEOREM CompletenessKept == ReportSpec => []Complete
BY MainMapOK, OwnComplete, MapInvariance, PTL

\* The cross properties change nothing about which transitions are expected.
THEOREM ExpectationKept == ReportSpec => []ArcsExpected
BY MainMapOK, OwnArcsExpected, MapInvariance, PTL

LEMMA LinkedWhenDone ==
    ASSUME MainInv, pc = "crossed", NEW f \in Task, NEW g \in Task, Linked(f, g),
           NEW m \in states[f], NEW n \in states[g]
    PROVE  \E i \in CrossIds : PairOf(properties[i]) \in Remembered(m, n)
<1>1. groupsLeft = {} /\ othersLeft = {} /\ combosLeft = {}
  BY DEF MainInv, CrossInv, LoopsInv
<1>2. <<m, n>> \in addedPairs \/ <<n, m>> \in addedPairs
  BY <1>1 DEF MainInv, CrossInv, ProgressInv, Linked, Crossed
<1>3. PICK c \in Remembered(m, n) : c \in addedPairs
  BY <1>2 DEF Remembered
<1>4. PICK i \in CrossIds : c \in Remembered(properties[i].state1, properties[i].state2)
  BY <1>3 DEF MainInv, CrossInv, RememberedInv
<1>5. PairOf(properties[i]) \in Remembered(m, n)
  BY <1>3, <1>4 DEF Remembered, PairOf
<1> QED
  BY <1>5

LEMMA MainEveryPairOnce == MainInv => EveryPairOnce
<1> SUFFICES ASSUME MainInv PROVE EveryPairOnce
  OBVIOUS
<1>1. Cross = CrossIds
  BY MainMapOK, OwnAreWanted
<1>2. ASSUME NEW i \in Cross
      PROVE  Linked(properties[i].var1, properties[i].var2)
  <2>1. PICK f, g, m, n : Linked(f, g) /\ properties[i] = CrossProperty(f, m, g, n)
    BY <1>1, <1>2 DEF MainInv, CrossInv, EntriesInv
  <2> QED
    BY <2>1 DEF CrossProperty
<1>3. ASSUME pc = "crossed", OwnConstants, NEW f \in Task, NEW g \in Task, Linked(f, g),
             NEW m \in states[f], NEW n \in states[g]
      PROVE  Cardinality(About(f, m, g, n)) = 1
  <2>1. PICK i \in CrossIds : PairOf(properties[i]) \in Remembered(m, n)
    BY <1>3, LinkedWhenDone
  <2>2. PICK d \in Task, h \in Task : \E k \in states[d], l \in states[h] :
           d # h /\ properties[i] = CrossProperty(d, k, h, l)
    BY DEF MainInv, CrossInv, EntriesInv
  <2>3. PICK k \in states[d], l \in states[h] : properties[i] = CrossProperty(d, k, h, l)
    BY <2>2
  <2>4. \/ k = m /\ l = n
        \/ k = n /\ l = m
    BY <2>1, <2>3 DEF Remembered, PairOf, CrossProperty
  <2>5. \/ k = m /\ l = n /\ d = f /\ h = g
        \/ k = n /\ l = m /\ d = g /\ h = f
    BY <1>3, <2>3, <2>4 DEF OwnConstants
  <2>6. i \in About(f, m, g, n)
    BY <1>1, <2>3, <2>5 DEF About, Key, CrossProperty
  <2>7. ASSUME NEW j \in About(f, m, g, n) PROVE j = i
    <3>1. j \in CrossIds
      BY <1>1 DEF About
    <3>2. PairOf(properties[j]) \in Remembered(m, n)
      BY DEF About, Key, PairOf, Remembered
    <3>3. PairOf(properties[j]) \in Remembered(properties[i].state1, properties[i].state2)
      BY <2>1, <3>2 DEF Remembered, PairOf
    <3> QED
      BY <3>1, <3>3 DEF MainInv, CrossInv, RememberedInv
  <2>8. About(f, m, g, n) = {i}
    BY <2>6, <2>7
  <2> QED
    BY <2>8, FS_Singleton
<1> QED
  BY <1>2, <1>3 DEF EveryPairOnce

\* Whatever order the groups and the machines of a group come in, every pair of states of
\* coupled machines gets one property.
THEOREM PairsOnce == ReportSpec => []EveryPairOnce
BY MainEveryPairOnce, MapInvariance, PTL

-------------------------------------------------------------------------------
(* What main prints.  The map does not change any more, and of a machine   *)
(* that is no counter it has a property for each state and each pair of    *)
(* states.                                                                 *)

\* The properties about one machine, as print_out_fsm finds them.
LEMMA OwnOfMachine ==
    ASSUME MainInv, pc # "create", NEW f \in Task, ~isCounter[f]
    PROVE  /\ \A i \in HeadsOf(f) : i \in OwnIds /\ Key(properties[i]) \in Singles(f)
           /\ \A i \in EntriesOf(f) : i \in OwnIds /\ Key(properties[i]) \in Transitions(f)
           /\ \A p \in Singles(f) : \E i \in HeadsOf(f) : Key(properties[i]) = p
           /\ \A p \in Transitions(f) : \E i \in EntriesOf(f) : Key(properties[i]) = p
<1>1. MapOK /\ loop = "returned" /\ OwnIds \subseteq DOMAIN properties
  BY MainMapOK DEF MainInv, StageInv, OwnInv
<1>2. ASSUME NEW i \in PropertiesOf(f), properties[i].var2 \in {NoTask, f}
      PROVE  i \in OwnIds /\ Key(properties[i]) \in Wanted(f)
  <2>1. i \in DOMAIN properties /\ properties[i].var1 = f
    BY DEF PropertiesOf
  <2>2. i \in OwnIds
    BY <1>1, <1>2, <2>1 DEF MapOK, OthersInv, CrossIds
  <2>3. PICK g \in Task : Key(properties[i]) \in Wanted(g)
    BY <1>1, <2>2, OwnAreWanted DEF AllWanted
  <2>4. g = f
    BY <2>1, <2>3, WantedShape DEF Key
  <2> QED
    BY <2>2, <2>3, <2>4
<1>3. \A p \in Singles(f) : p.var1 = f /\ p.var2 = NoTask /\ p \in AllWanted
  BY DEF Singles, AllWanted, Wanted
<1>4. \A p \in Transitions(f) : p.var1 = f /\ p.var2 = f /\ p \in AllWanted
  BY DEF Transitions, AllWanted, Wanted
<1>5. ASSUME NEW p \in AllWanted, p.var1 = f
      PROVE  \E i \in PropertiesOf(f) : Key(properties[i]) = p /\ properties[i].var2 = p.var2
  <2>1. PICK i \in OwnIds : Key(properties[i]) = p
    BY <1>1, OwnBijection
  <2> QED
    BY <1>1, <1>5, <2>1 DEF Key, PropertiesOf
<1>6. \A i \in HeadsOf(f) : i \in OwnIds /\ Key(properties[i]) \in Singles(f)
  <2> SUFFICES ASSUME NEW i \in HeadsOf(f)
               PROVE  i \in OwnIds /\ Key(properties[i]) \in Singles(f)
    OBVIOUS
  <2>1. i \in PropertiesOf(f) /\ properties[i].var2 = NoTask
    BY DEF HeadsOf
  <2>2. Key(properties[i]) \in Wanted(f) /\ Key(properties[i]).var2 = NoTask
    BY <1>2, <2>1 DEF Key
  <2> QED
    BY <1>2, <1>4, <2>1, <2>2, NoTaskAssumption DEF Wanted
<1>7. \A i \in EntriesOf(f) : i \in OwnIds /\ Key(properties[i]) \in Transitions(f)
  <2> SUFFICES ASSUME NEW i \in EntriesOf(f)
               PROVE  i \in OwnIds /\ Key(properties[i]) \in Transitions(f)
    OBVIOUS
  <2>1. i \in PropertiesOf(f) /\ properties[i].var2 = f
    BY DEF EntriesOf
  <2>2. Key(properties[i]) \in Wanted(f) /\ Key(properties[i]).var2 = f
    BY <1>2, <2>1 DEF Key
  <2> QED
    BY <1>2, <1>3, <2>1, <2>2, NoTaskAssumption DEF Wanted
<1>8. \A p \in Singles(f) : \E i \in HeadsOf(f) : Key(properties[i]) = p
  BY <1>3, <1>5 DEF HeadsOf
<1>9. \A p \in Transitions(f) : \E i \in EntriesOf(f) : Key(properties[i]) = p
  BY <1>4, <1>5 DEF EntriesOf
<1> QED
  BY <1>6, <1>7, <1>8, <1>9

\* The same of its states: every one has a head, and only one, and every pair an entry.
LEMMA StatesOfMachine ==
    ASSUME MainInv, pc # "create", NEW f \in Task, ~isCounter[f]
    PROVE  /\ \A i \in HeadsOf(f) : properties[i].state1 \in states[f]
           /\ \A m \in states[f] : \E i \in HeadsOf(f) : properties[i].state1 = m
           /\ \A i, j \in HeadsOf(f) : properties[i].state1 = properties[j].state1 => i = j
           /\ \A i \in EntriesOf(f) : properties[i].state1 \in states[f] /\ properties[i].state2 \in states[f]
           /\ \A m, n \in states[f] : \E i \in EntriesOf(f) :
                 properties[i].state1 = m /\ properties[i].state2 = n
           /\ \A i, j \in EntriesOf(f) :
                 PairOf(properties[i]) = PairOf(properties[j]) => i = j
<1>1. \A i, j \in OwnIds : Key(properties[i]) = Key(properties[j]) => i = j
  BY DEF MainInv, OwnInv
<1>2. ASSUME NEW i \in HeadsOf(f)
      PROVE  /\ i \in OwnIds
             /\ properties[i].state1 \in states[f]
             /\ Key(properties[i]) = [var1 |-> f, state1 |-> properties[i].state1, var2 |-> NoTask, state2 |-> NoState]
  <2>1. i \in OwnIds /\ Key(properties[i]) \in Singles(f)
    BY OwnOfMachine
  <2>2. PICK m \in states[f] : Key(properties[i]) = [var1 |-> f, state1 |-> m, var2 |-> NoTask, state2 |-> NoState]
    BY <2>1 DEF Singles
  <2>3. properties[i].state1 = m
    BY <2>2 DEF Key
  <2> QED
    BY <2>1, <2>2, <2>3
<1>3. ASSUME NEW i \in EntriesOf(f)
      PROVE  /\ i \in OwnIds
             /\ properties[i].state1 \in states[f] /\ properties[i].state2 \in states[f]
             /\ Key(properties[i]) = [var1 |-> f, state1 |-> properties[i].state1,
                                      var2 |-> f, state2 |-> properties[i].state2]
  <2>1. i \in OwnIds /\ Key(properties[i]) \in Transitions(f)
    BY OwnOfMachine
  <2>2. PICK m \in states[f], n \in states[f] :
           Key(properties[i]) = [var1 |-> f, state1 |-> m, var2 |-> f, state2 |-> n]
    BY <2>1 DEF Transitions
  <2>3. properties[i].state1 = m /\ properties[i].state2 = n
    BY <2>2 DEF Key
  <2> QED
    BY <2>1, <2>2, <2>3
<1>4. ASSUME NEW m \in states[f]
      PROVE  \E i \in HeadsOf(f) : properties[i].state1 = m
  <2> DEFINE p == [var1 |-> f, state1 |-> m, var2 |-> NoTask, state2 |-> NoState]
  <2>1. p \in Singles(f)
    BY DEF Singles
  <2>2. PICK i \in HeadsOf(f) : Key(properties[i]) = p
    BY <2>1, OwnOfMachine
  <2> QED
    BY <2>2 DEF Key
<1>5. ASSUME NEW m \in states[f], NEW n \in states[f]
      PROVE  \E i \in EntriesOf(f) : properties[i].state1 = m /\ properties[i].state2 = n
  <2> DEFINE p == [var1 |-> f, state1 |-> m, var2 |-> f, state2 |-> n]
  <2>1. p \in Transitions(f)
    BY DEF Transitions
  <2>2. PICK i \in EntriesOf(f) : Key(properties[i]) = p
    BY <2>1, OwnOfMachine
  <2> QED
    BY <2>2 DEF Key
<1>6. \A i, j \in HeadsOf(f) : properties[i].state1 = properties[j].state1 => i = j
  BY <1>1, <1>2
<1>7. ASSUME NEW i \in EntriesOf(f), NEW j \in EntriesOf(f), PairOf(properties[i]) = PairOf(properties[j])
      PROVE  i = j
  <2>1. properties[i].state1 = properties[j].state1 /\ properties[i].state2 = properties[j].state2
    BY <1>7 DEF PairOf
  <2>2. Key(properties[i]) = Key(properties[j])
    BY <1>3, <2>1
  <2> QED
    BY <1>1, <1>3, <2>2
<1> QED
  BY <1>2, <1>3, <1>4, <1>5, <1>6, <1>7

\* So print_out_fsm finds what it looks up.
LEMMA NeverHeadless ==
    ASSUME MainInv, pc # "create", NEW f \in Task
    PROVE  /\ ~Headless(f)
           /\ ~Skips(f) => ~PrintFails(f)
           /\ Skips(f) => isCounter[f] /\ states[f] = {}
<1>1. ~Headless(f)
  <2> SUFFICES ASSUME ~isCounter[f], NEW i \in EntriesOf(f)
               PROVE  \E h \in HeadsOf(f) : properties[h].state1 = properties[i].state1
    BY DEF Headless
  <2>1. properties[i].state1 \in states[f]
    BY StatesOfMachine
  <2> QED
    BY <2>1, StatesOfMachine
<1>2. ASSUME Skips(f) PROVE isCounter[f] /\ states[f] = {}
  <2>1. ASSUME NEW m \in states[f] PROVE FALSE
    <3> DEFINE p == [var1 |-> f, state1 |-> m, var2 |-> NoTask, state2 |-> NoState]
    <3>1. p \in AllWanted
      BY DEF AllWanted, Wanted, Singles
    <3>2. PICK i \in OwnIds : Key(properties[i]) = p
      BY <3>1, MainMapOK, OwnBijection DEF MainInv, StageInv
    <3>3. i \in PropertiesOf(f)
      BY <3>2 DEF PropertiesOf, Key, MainInv, OwnInv
    <3> QED
      BY <1>2, <3>3 DEF Skips, HasProperty
  <2>2. states[f] = {}
    BY <2>1
  <2> QED
    BY <2>2 DEF MainInv, TasksInv, Machines, Machine, TypeOK
<1> QED
  BY <1>1, <1>2 DEF PrintFails, Skips, HasProperty

-------------------------------------------------------------------------------
(* The JSON file.  The lists are written by loops, which are recursive     *)
(* functions on an interval: what holds at the start and is kept by a      *)
(* round of the loop holds at its end.                                     *)

LEMMA Smallest ==
    ASSUME NEW T \in SUBSET Nat, T # {}
    PROVE  \E x \in T : \A y \in T : x <= y
<1> DEFINE F == {0..n : n \in T}
           R == StrictSubsetOrdering(Nat)
<1>1. IsWellFoundedOn(R, FiniteSubsetsOf(Nat))
  BY FS_StrictSubsetOrderingWellFounded
<1>2. \A n \in Nat : IsFiniteSet(0..n) /\ 0..n \in SUBSET Nat
  BY FS_Interval
<1>3. F \subseteq FiniteSubsetsOf(Nat) /\ F # {}
  BY <1>2 DEF FiniteSubsetsOf
<1> HIDE DEF F, R
<1>4. \E x \in F : \A y \in F : ~(<<y, x>> \in R)
  BY <1>1, <1>3, WFMin
<1> USE DEF F, R
<1>5. PICK n \in T : \A k \in T : <<0..k, 0..n>> \notin StrictSubsetOrdering(Nat)
  BY <1>4
<1>6. ASSUME NEW k \in T, k < n PROVE FALSE
  <2>1. 0..k \subseteq 0..n /\ 0..k # 0..n
    BY <1>6
  <2>2. 0..k \in SUBSET Nat /\ 0..n \in SUBSET Nat
    BY <1>2
  <2> HIDE DEF F, R
  <2>3. <<0..k, 0..n>> \in StrictSubsetOrdering(Nat)
    BY <2>1, <2>2, Zenon DEF StrictSubsetOrdering
  <2> QED
    BY <2>3, <1>5
<1> QED
  BY <1>6

LEMMA Upwards ==
    ASSUME NEW N \in Nat, NEW T, 0 \in T, \A k \in 1..N : k - 1 \in T => k \in T
    PROVE  0..N \subseteq T
<1> SUFFICES ASSUME ~(0..N \subseteq T) PROVE FALSE
  OBVIOUS
<1> DEFINE Missing == (0..N) \ T
<1>1. Missing \in SUBSET Nat /\ Missing # {}
  OBVIOUS
<1> HIDE DEF Missing
<1>2. PICK k \in Missing : \A i \in Missing : k <= i
  BY <1>1, Smallest
<1>3. k \in 1..N /\ k \notin T
  BY <1>2 DEF Missing
<1>4. k - 1 \in 0..N /\ k - 1 \notin T
  BY <1>3
<1> QED
  BY <1>2, <1>3, <1>4 DEF Missing

IsRun(g, N, b, F) == \A k \in 0..N : g[k] = IF k = 0 THEN b ELSE F[k][g[k - 1]]

\* A loop of N rounds has a run, which stays in the set it starts in.
LEMMA Rounds ==
    ASSUME NEW N \in Nat, NEW X, NEW b \in X, NEW F \in [1..N -> [X -> X]]
    PROVE  \E g \in [0..N -> X] : IsRun(g, N, b, F)
<1> USE DEF IsRun
<1> DEFINE Run(n, g) == IsRun(g, n, b, F)
           T == {n \in 0..N : \E g \in [0..n -> X] : Run(n, g)}
<1>1. 0 \in T
  <2> DEFINE g == [k \in 0..0 |-> b]
  <2>1. g \in [0..0 -> X] /\ Run(0, g)
    OBVIOUS
  <2> HIDE DEF g
  <2>2. 0 \in 0..N
    OBVIOUS
  <2> QED
    BY <2>1, <2>2
<1>2. ASSUME NEW n \in 1..N, n - 1 \in T PROVE n \in T
  <2>1. PICK g \in [0..(n - 1) -> X] : Run(n - 1, g)
    BY <1>2
  <2> DEFINE x == F[n][g[n - 1]]
             h == [k \in 0..n |-> IF k = n THEN x ELSE g[k]]
  <2>2. x \in X
    OBVIOUS
  <2>3. h \in [0..n -> X] /\ h[n] = x /\ \A k \in 0..(n - 1) : h[k] = g[k]
    BY <2>2
  <2>4. ASSUME NEW k \in 0..n PROVE h[k] = IF k = 0 THEN b ELSE F[k][h[k - 1]]
    <3>1. CASE k = n
      <4>1. h[n - 1] = g[n - 1]
        BY <2>3
      <4> QED
        BY <2>3, <3>1, <4>1
    <3>2. CASE k \in 0..(n - 1)
      <4>1. g[k] = IF k = 0 THEN b ELSE F[k][g[k - 1]]
        BY <2>1, <3>2
      <4>2. k # 0 => k - 1 \in 0..(n - 1)
        BY <3>2
      <4> HIDE DEF h
      <4> QED
        BY <2>3, <3>2, <4>1, <4>2
    <3> QED
      BY <3>1, <3>2
  <2> HIDE DEF h
  <2>5. Run(n, h) /\ n \in 0..N
    BY <2>4
  <2> QED
    BY <2>3, <2>5
<1> HIDE DEF T
<1>3. 0..N \subseteq T
  BY <1>1, <1>2, Upwards
<1>4. N \in T
  BY <1>3
<1> QED
  BY <1>4 DEF T

-------------------------------------------------------------------------------
Elements == Writer!Closers \cup {"value"}

Token == Writer!Openers \cup Elements \cup {Writer!Comma}

LEMMA Tokens ==
    /\ \A t \in Writer!Openers : t \notin Elements /\ t \notin Writer!Closers /\ t # Writer!Comma
    /\ \A t \in Elements : t \notin Writer!Openers /\ t # Writer!Comma
    /\ Writer!Comma \notin Writer!Openers /\ Writer!Comma \notin Writer!Closers
    /\ "[" \in Writer!Openers /\ "{" \in Writer!Openers
    /\ "]" \in Writer!Closers /\ "}" \in Writer!Closers /\ "value" \notin Writer!Closers
BY Zenon DEF Elements, Writer!Openers, Writer!Closers, Writer!Comma

\* A writer after some element at the given depth: the flag says whether what was
\* written last wants a comma before the next element.
At(d) == {w \in [out : Seq(Token), indent : {d}, end : BOOLEAN] :
             /\ Len(w.out) > 0
             /\ w.out[Len(w.out)] \in (IF w.end THEN Elements ELSE Writer!Openers)
             /\ Writer!CommasFit(w.out)}

LEMMA AppendFits ==
    ASSUME NEW out \in Seq(Token), Writer!CommasFit(out), NEW t \in Token,
           Len(out) > 0 => Writer!Fits(out[Len(out)], t)
    PROVE  /\ Append(out, t) \in Seq(Token) /\ Len(Append(out, t)) = Len(out) + 1
           /\ Append(out, t)[Len(Append(out, t))] = t
           /\ Writer!CommasFit(Append(out, t))
<1>1. /\ Append(out, t) \in Seq(Token) /\ Len(Append(out, t)) = Len(out) + 1
      /\ Append(out, t)[Len(out) + 1] = t
      /\ \A i \in 1..Len(out) : Append(out, t)[i] = out[i]
  OBVIOUS
<1>2. ASSUME NEW i \in 1..(Len(Append(out, t)) - 1)
      PROVE  Writer!Fits(Append(out, t)[i], Append(out, t)[i + 1])
  <2>1. CASE i = Len(out)
    BY <1>1, <2>1
  <2>2. CASE i # Len(out)
    <3>1. i \in 1..(Len(out) - 1) /\ i \in 1..Len(out) /\ i + 1 \in 1..Len(out)
      BY <1>1, <2>2
    <3>2. Writer!Fits(out[i], out[i + 1])
      BY <3>1 DEF Writer!CommasFit
    <3> QED
      BY <1>1, <3>1, <3>2
  <2> QED
    BY <2>1, <2>2
<1> QED
  BY <1>1, <1>2 DEF Writer!CommasFit

\* end() and the token after it.
LEMMA ElementFits ==
    ASSUME NEW d \in Int, NEW w \in At(d), NEW t \in Writer!Openers \cup {"value"}
    PROVE  LET out == Append(Writer!Separate(w).out, t)
           IN  /\ out \in Seq(Token) /\ Len(out) > 0 /\ out[Len(out)] = t
               /\ Writer!CommasFit(out)
<1> DEFINE s == Writer!Separate(w).out
<1>1. w.out \in Seq(Token) /\ w.end \in BOOLEAN
  BY DEF At
<1>2. s = IF w.end THEN Append(w.out, Writer!Comma) ELSE w.out
  BY DEF Writer!Separate
<1> HIDE DEF s
<1>3. /\ s \in Seq(Token) /\ Writer!CommasFit(s) /\ Len(s) > 0
      /\ s[Len(s)] \in Writer!Openers \cup {Writer!Comma}
  <2>1. CASE w.end
    <3>1. Writer!Fits(w.out[Len(w.out)], Writer!Comma)
      BY <2>1, Tokens DEF At, Writer!Fits, Token
    <3>2. Writer!Comma \in Token /\ Len(w.out) \in Nat
      BY <1>1 DEF Token
    <3> QED
      BY <1>1, <1>2, <2>1, <3>1, <3>2, AppendFits DEF At
  <2>2. CASE ~w.end
    BY <1>1, <1>2, <2>2 DEF At
  <2> QED
    BY <2>1, <2>2
<1>4. Writer!Fits(s[Len(s)], t) /\ t \in Token
  BY <1>3, Tokens DEF Writer!Fits, Token, Elements
<1>5. Len(s) \in Nat
  BY <1>3
<1>6. LET out == Append(s, t)
      IN  out \in Seq(Token) /\ Len(out) > 0 /\ out[Len(out)] = t /\ Writer!CommasFit(out)
  BY <1>3, <1>4, <1>5, AppendFits
<1> QED
  BY <1>6 DEF s

LEMMA StepFits ==
    ASSUME NEW d \in Int, NEW w \in At(d)
    PROVE  /\ Writer!Write(w) \in At(d)
           /\ Writer!StartArray(w) \in At(d + 2)
           /\ Writer!StartObject(w) \in At(d + 2)
           /\ Writer!EndArray(w) \in At(d - 2)
           /\ Writer!EndObject(w) \in At(d - 2)
<1>1. Writer!Write(w) \in At(d)
  <2> DEFINE out == Append(Writer!Separate(w).out, "value")
  <2>1. out \in Seq(Token) /\ Len(out) > 0 /\ out[Len(out)] = "value" /\ Writer!CommasFit(out)
    BY ElementFits
  <2>2. Writer!Write(w) = [out |-> out, indent |-> d, end |-> TRUE]
    BY DEF Writer!Write, Writer!Put, At
  <2> HIDE DEF out
  <2> QED
    BY <2>1, <2>2 DEF At, Elements
<1>2. ASSUME NEW t \in Writer!Openers PROVE Writer!Start(w, t) \in At(d + 2)
  <2> DEFINE out == Append(Writer!Separate(w).out, t)
  <2>1. out \in Seq(Token) /\ Len(out) > 0 /\ out[Len(out)] = t /\ Writer!CommasFit(out)
    BY ElementFits
  <2>2. Writer!Separate(w).indent = d /\ Writer!Separate(w).end = FALSE
    BY DEF Writer!Separate, At
  <2>3. Writer!Start(w, t) = [out |-> out, indent |-> d + 2, end |-> FALSE]
    BY <2>2 DEF Writer!Start, Writer!Put
  <2> HIDE DEF out
  <2> QED
    BY <2>1, <2>3 DEF At
<1>3. ASSUME NEW t \in Writer!Closers PROVE Writer!End(w, t) \in At(d - 2)
  <2>1. w.out \in Seq(Token) /\ w.indent = d /\ t \in Token /\ Len(w.out) > 0 /\ t \in Elements
        /\ Len(w.out) \in Nat
    BY DEF At, Token, Elements
  <2>2. Writer!Fits(w.out[Len(w.out)], t) /\ Writer!CommasFit(w.out)
    BY Tokens DEF At, Writer!Fits, Elements
  <2> DEFINE out == Append(w.out, t)
  <2>3. out \in Seq(Token) /\ Len(out) > 0 /\ out[Len(out)] = t /\ Writer!CommasFit(out)
    BY <2>1, <2>2, AppendFits
  <2>4. Writer!End(w, t) = [out |-> out, indent |-> d - 2, end |-> TRUE]
    BY <2>1 DEF Writer!End, Writer!Put
  <2> HIDE DEF out
  <2> QED
    BY <2>1, <2>3, <2>4 DEF At
<1> QED
  BY <1>1, <1>2, <1>3, Tokens, Zenon
  DEF Writer!StartArray, Writer!StartObject, Writer!EndArray, Writer!EndObject

LEMMA StateFits ==
    ASSUME NEW d \in Int, NEW w \in At(d)
    PROVE  WriteState(w) \in At(d)
<1>1. Writer!StartObject(w) \in At(d + 2) /\ d + 2 \in Int
  BY StepFits
<1>2. Writer!Write(Writer!StartObject(w)) \in At(d + 2)
  BY <1>1, StepFits
<1> DEFINE v == Writer!Write(Writer!Write(Writer!StartObject(w)))
<1>3. v \in At(d + 2)
  BY <1>2, <1>1, StepFits
<1> HIDE DEF v
<1>4. Writer!EndObject(v) \in At((d + 2) - 2)
  BY <1>3, <1>1, StepFits
<1>5. (d + 2) - 2 = d
  OBVIOUS
<1> QED
  BY <1>4, <1>5 DEF WriteState, v

LEMMA StatesFit ==
    ASSUME NEW d \in Int, NEW w \in At(d), NEW S, Len(S) \in Nat
    PROVE  WriteStates(w, S) \in At(d)
<1> DEFINE N == Len(S)
           X == At(d + 2)
           b == Writer!StartArray(w)
<1>0. N \in Nat
  OBVIOUS
<1>1. b \in X
  BY StepFits
<1>2. \A k \in 1..N : \A x \in X : WriteState(x) \in X
  BY StateFits
<1> HIDE DEF N, X, b
<1>3. PICK g \in [0..N -> X] : g = [k \in 0..N |-> IF k = 0 THEN b ELSE WriteState(g[k - 1])]
  <2> DEFINE F == [k \in 1..N |-> [x \in X |-> WriteState(x)]]
  <2>1. F \in [1..N -> [X -> X]]
    BY <1>2
  <2> HIDE DEF F
  <2>2. PICK g \in [0..N -> X] : IsRun(g, N, b, F)
    BY <1>1, <2>1, <1>0, Rounds
  <2>3. ASSUME NEW k \in 0..N PROVE g[k] = IF k = 0 THEN b ELSE WriteState(g[k - 1])
    <3>1. k # 0 => k \in 1..N /\ g[k - 1] \in X
      BY <1>0
    <3> QED
      BY <2>2, <3>1 DEF F, IsRun
  <2>4. g = [k \in 0..N |-> IF k = 0 THEN b ELSE WriteState(g[k - 1])]
    BY <2>3
  <2> QED
    BY <2>4
<1> DEFINE after[k \in 0..N] == IF k = 0 THEN b ELSE WriteState(after[k - 1])
<1>4. after = [k \in 0..N |-> IF k = 0 THEN b ELSE WriteState(after[k - 1])]
  BY <1>3
<1> HIDE DEF after
<1>5. after[N] \in X
  <2> DEFINE T == {k \in 0..N : after[k] \in X}
  <2>1. 0 \in T
    BY <1>0, <1>1, <1>4
  <2>2. \A k \in 1..N : k - 1 \in T => k \in T
    BY <1>0, <1>2, <1>4
  <2> HIDE DEF T
  <2>3. 0..N \subseteq T
    BY <1>0, <2>1, <2>2, Upwards
  <2>4. N \in T
    BY <1>0, <2>3
  <2> QED
    BY <2>4 DEF T
<1>6. WriteStates(w, S) = Writer!EndArray(after[N])
  BY DEF WriteStates, after, N, b
<1>7. d + 2 \in Int /\ (d + 2) - 2 = d
  OBVIOUS
<1>8. Writer!EndArray(after[N]) \in At((d + 2) - 2)
  BY <1>5, <1>7, StepFits DEF X
<1> QED
  BY <1>6, <1>7, <1>8

LEMMA LinksFit ==
    ASSUME NEW d \in Int, NEW w \in At(d), NEW S, Cardinality(S) \in Nat
    PROVE  WriteLinks(w, S) \in At(d)
<1> DEFINE N == Cardinality(S)
           X == At(d + 2)
           b == Writer!StartArray(w)
<1>0. N \in Nat
  OBVIOUS
<1>1. b \in X
  BY StepFits
<1>2. \A k \in 1..N : \A x \in X : Writer!Write(x) \in X
  BY StepFits
<1> HIDE DEF N, X, b
<1>3. PICK g \in [0..N -> X] : g = [k \in 0..N |-> IF k = 0 THEN b ELSE Writer!Write(g[k - 1])]
  <2> DEFINE F == [k \in 1..N |-> [x \in X |-> Writer!Write(x)]]
  <2>1. F \in [1..N -> [X -> X]]
    BY <1>2
  <2> HIDE DEF F
  <2>2. PICK g \in [0..N -> X] : IsRun(g, N, b, F)
    BY <1>1, <2>1, <1>0, Rounds
  <2>3. ASSUME NEW k \in 0..N PROVE g[k] = IF k = 0 THEN b ELSE Writer!Write(g[k - 1])
    <3>1. k # 0 => k \in 1..N /\ g[k - 1] \in X
      BY <1>0
    <3> QED
      BY <2>2, <3>1 DEF F, IsRun
  <2>4. g = [k \in 0..N |-> IF k = 0 THEN b ELSE Writer!Write(g[k - 1])]
    BY <2>3
  <2> QED
    BY <2>4
<1> DEFINE after[k \in 0..N] == IF k = 0 THEN b ELSE Writer!Write(after[k - 1])
<1>4. after = [k \in 0..N |-> IF k = 0 THEN b ELSE Writer!Write(after[k - 1])]
  BY <1>3
<1> HIDE DEF after
<1>5. after[N] \in X
  <2> DEFINE T == {k \in 0..N : after[k] \in X}
  <2>1. 0 \in T
    BY <1>0, <1>1, <1>4
  <2>2. \A k \in 1..N : k - 1 \in T => k \in T
    BY <1>0, <1>2, <1>4
  <2> HIDE DEF T
  <2>3. 0..N \subseteq T
    BY <1>0, <2>1, <2>2, Upwards
  <2>4. N \in T
    BY <1>0, <2>3
  <2> QED
    BY <2>4 DEF T
<1>6. WriteLinks(w, S) = Writer!EndArray(after[N])
  BY DEF WriteLinks, after, N, b
<1>7. d + 2 \in Int /\ (d + 2) - 2 = d
  OBVIOUS
<1>8. Writer!EndArray(after[N]) \in At((d + 2) - 2)
  BY <1>5, <1>7, StepFits DEF X
<1> QED
  BY <1>6, <1>7, <1>8

LEMMA FsmFits ==
    ASSUME NEW d \in Int, NEW w \in At(d), NEW f, NEW source,
           Len(source[f]) \in Nat, Cardinality(Group(f)) \in Nat
    PROVE  WriteFsm(w, f, source) \in At(d)
<1> DEFINE u == Writer!Write(Writer!StartObject(w))
           v == WriteLinks(WriteStates(u, source[f]), Group(f))
<1>0. d + 2 \in Int
  OBVIOUS
<1>1. Writer!StartObject(w) \in At(d + 2)
  BY StepFits
<1>2. u \in At(d + 2)
  BY <1>0, <1>1, StepFits
<1> HIDE DEF u
<1>3. v \in At(d + 2)
  BY <1>0, <1>2, StatesFit, LinksFit
<1> HIDE DEF v
<1>4. Writer!EndObject(v) \in At((d + 2) - 2)
  BY <1>0, <1>3, StepFits
<1>5. (d + 2) - 2 = d
  OBVIOUS
<1> QED
  BY <1>4, <1>5 DEF WriteFsm, u, v

LEMMA EmptyFits == Writer!StartArray(Writer!NewWriter) \in At(2)
<1> SUFFICES ASSUME NEW t \in Writer!Openers PROVE Writer!Start(Writer!NewWriter, t) \in At(2)
  BY Tokens, Zenon DEF Writer!StartArray
<1> DEFINE empty == <<>>
           out == Append(empty, t)
<1>1. empty \in Seq(Token) /\ Len(empty) = 0 /\ Writer!CommasFit(empty) /\ t \in Token
  BY DEF Token, Writer!CommasFit
<1>2. Writer!Start(Writer!NewWriter, t) = [out |-> out, indent |-> 2, end |-> FALSE]
  BY DEF Writer!Start, Writer!Put, Writer!Separate, Writer!NewWriter
<1> HIDE DEF empty
<1>3. out \in Seq(Token) /\ Len(out) = 1 /\ out[1] = t
  BY <1>1
<1>4. out \in Seq(Token) /\ Len(out) > 0 /\ out[Len(out)] = t /\ Writer!CommasFit(out)
  BY <1>3 DEF Writer!CommasFit
<1> HIDE DEF out
<1> QED
  BY <1>2, <1>4 DEF At

\* The file is whole and its commas are where they should be, whatever was found.
LEMMA DocumentFits ==
    ASSUME NEW source \in [Task -> Seq(Constant)],
           \A f \in Task : Cardinality(Group(f)) \in Nat
    PROVE  Document(source) \in At(0)
<1> DEFINE order == SetToSeq(Task)
<1>a. \A k \in 1..Cardinality(Task) : order[k] \in Task
  <2>1. ExistsBijection(1..Cardinality(Task), Task)
    BY FiniteAssumption, FS_CardinalityType
  <2>2. PICK g \in [1..Cardinality(Task) -> Task] : IsInjective(g)
    BY <2>1 DEF ExistsBijection, Bijection, Injection
  <2>3. order \in [1..Cardinality(Task) -> Task]
    BY <2>2 DEF SetToSeq
  <2> HIDE DEF order
  <2> QED
    BY <2>3
<1>b. \A f \in Task : Len(source[f]) \in Nat
  <2>1. \A f \in Task : source[f] \in Seq(Constant)
    OBVIOUS
  <2> QED
    BY <2>1
<1> HIDE DEF order
<1> DEFINE N == Cardinality(Task)
           X == At(2)
           b == Writer!StartArray(Writer!NewWriter)
<1>0. N \in Nat
  BY FiniteAssumption, FS_CardinalityType
<1>1. b \in X
  BY EmptyFits
<1>2. \A k \in 1..N : \A x \in X : WriteFsm(x, order[k], source) \in X
  BY <1>a, <1>b, FsmFits DEF N
<1> HIDE DEF N, X, b
<1>3. PICK g \in [0..N -> X] : g = [k \in 0..N |-> IF k = 0 THEN b ELSE WriteFsm(g[k - 1], order[k], source)]
  <2> DEFINE F == [k \in 1..N |-> [x \in X |-> WriteFsm(x, order[k], source)]]
  <2>1. F \in [1..N -> [X -> X]]
    BY <1>2
  <2> HIDE DEF F
  <2>2. PICK g \in [0..N -> X] : IsRun(g, N, b, F)
    BY <1>1, <2>1, <1>0, Rounds
  <2>3. ASSUME NEW k \in 0..N PROVE g[k] = IF k = 0 THEN b ELSE WriteFsm(g[k - 1], order[k], source)
    <3>1. k # 0 => k \in 1..N /\ g[k - 1] \in X
      BY <1>0
    <3> QED
      BY <2>2, <3>1 DEF F, IsRun
  <2>4. g = [k \in 0..N |-> IF k = 0 THEN b ELSE WriteFsm(g[k - 1], order[k], source)]
    BY <2>3
  <2> QED
    BY <2>4
<1> DEFINE after[k \in 0..N] == IF k = 0 THEN b ELSE WriteFsm(after[k - 1], order[k], source)
<1>4. after = [k \in 0..N |-> IF k = 0 THEN b ELSE WriteFsm(after[k - 1], order[k], source)]
  BY <1>3
<1> HIDE DEF after
<1>5. after[N] \in X
  <2> DEFINE T == {k \in 0..N : after[k] \in X}
  <2>1. 0 \in T
    BY <1>0, <1>1, <1>4
  <2>2. \A k \in 1..N : k - 1 \in T => k \in T
    BY <1>0, <1>2, <1>4
  <2> HIDE DEF T
  <2>3. 0..N \subseteq T
    BY <1>0, <2>1, <2>2, Upwards
  <2>4. N \in T
    BY <1>0, <2>3
  <2> QED
    BY <2>4 DEF T
<1>6. Document(source) = Writer!EndArray(after[N])
  BY DEF Document, after, N, b, order
<1>7. \A d \in Int : \A w \in At(d) : Writer!EndArray(w) \in At(d - 2)
  BY StepFits
<1>8. Writer!EndArray(after[N]) \in At(2 - 2)
  BY <1>5, <1>7 DEF X
<1> QED
  BY <1>6, <1>8

-------------------------------------------------------------------------------
\* What main has written so far was made of the map, the verdicts and the groups as
\* they are, and main fails only where a counter has no property.
VerdictsInv == /\ computeCoupled \in BOOLEAN /\ formal \in BOOLEAN
               /\ toPrint \subseteq Task
               /\ valid \subseteq DOMAIN properties
               /\ ~formal => valid = {}
               /\ pc \in {"create", "crossing", "crossed", "print", "grouping", "json", "done", "failed"}
               /\ pc = "grouping" => computeCoupled /\ (toPrint # {} => formal)

NothingYet == pc \in {"create", "crossing", "crossed"} => ~formal /\ printed = <<>> /\ grouped = <<>>

PrintedInv == /\ DOMAIN printed \subseteq Task
              /\ \A f \in DOMAIN printed : printed[f] = IF Skips(f) THEN {} ELSE Listing(f)

GroupedInv == /\ pc = "print" => grouped = <<>>
              /\ formal => \A f \in DOMAIN grouped : f \in Task /\ grouped[f] = CrossOf(f)
              /\ formal /\ computeCoupled /\ pc = "grouping" => Task \ toPrint \subseteq DOMAIN grouped
              /\ formal /\ computeCoupled /\ pc \in {"json", "done"} => Task \subseteq DOMAIN grouped

JsonInv == /\ json # <<>> => pc = "done"
           /\ Writer!CommasFit(json)

PrintInv == /\ VerdictsInv /\ NothingYet /\ PrintedInv /\ GroupedInv
            /\ FailsOnlyForEmptyCounter /\ JsonInv

BeforePrint == {"create", "crossing", "crossed"}

LEMMA Frame ==
    ASSUME UNCHANGED <<properties, isCounter, formal, valid>>, NEW f
    PROVE  /\ Skips(f)' = Skips(f)
           /\ Listing(f)' = Listing(f)
           /\ CrossOf(f)' = CrossOf(f)
<1>1. PropertiesOf(f)' = PropertiesOf(f)
  BY DEF PropertiesOf
<1>2. EntriesOf(f)' = EntriesOf(f) /\ HeadsOf(f)' = HeadsOf(f)
  BY <1>1 DEF EntriesOf, HeadsOf
<1>3. Listed(f)' = Listed(f)
  BY <1>2 DEF Listed
<1>4. \A m : NextStates(f, m)' = NextStates(f, m)
  BY <1>2 DEF NextStates, IsPrinted, Unreached
<1>5. Listing(f)' = Listing(f)
  BY <1>3, <1>4 DEF Listing, Unreached
<1> QED
  BY <1>1, <1>5 DEF Skips, HasProperty, CrossOf

\* Before main prints there is nothing to check.
LEMMA EarlyStep ==
    ASSUME PrintInv, pc \in BeforePrint, pc' \in BeforePrint, computeCoupled' \in BOOLEAN,
           UNCHANGED <<formal, valid, toPrint, printed, grouped, json>>
    PROVE  PrintInv'
<1>1. /\ formal' = FALSE /\ valid' = {} /\ printed' = <<>> /\ grouped' = <<>> /\ json' = <<>>
      /\ Writer!CommasFit(json)'
  BY DEF PrintInv, VerdictsInv, NothingYet, JsonInv, BeforePrint
<1>2. VerdictsInv'
  BY <1>1 DEF PrintInv, VerdictsInv, BeforePrint
<1>3. NothingYet' /\ PrintedInv' /\ GroupedInv'
  BY <1>1 DEF NothingYet, PrintedInv, GroupedInv, BeforePrint
<1>4. FailsOnlyForEmptyCounter' /\ JsonInv'
  BY <1>1 DEF FailsOnlyForEmptyCounter, JsonInv, BeforePrint
<1> QED
  BY <1>2, <1>3, <1>4 DEF PrintInv

LEMMA ProveStep ==
    ASSUME PrintInv, pc = "crossed", Kept, ReadyToPrint, UNCHANGED <<printed, grouped, json>>,
           \/ formal' = TRUE /\ valid' \subseteq DOMAIN properties
           \/ UNCHANGED <<formal, valid>>
    PROVE  PrintInv'
<1> USE DEF Kept, ReadyToPrint, vars, taskVars
<1>1. /\ printed' = <<>> /\ grouped' = <<>> /\ json' = <<>>
      /\ Writer!CommasFit(json)' /\ pc' = "print"
  BY DEF PrintInv, VerdictsInv, NothingYet, JsonInv
<1>2. VerdictsInv'
  BY <1>1 DEF PrintInv, VerdictsInv
<1>3. NothingYet' /\ PrintedInv' /\ GroupedInv'
  BY <1>1 DEF NothingYet, PrintedInv, GroupedInv
<1>4. FailsOnlyForEmptyCounter' /\ JsonInv'
  BY <1>1 DEF FailsOnlyForEmptyCounter, JsonInv
<1> QED
  BY <1>2, <1>3, <1>4 DEF PrintInv

\* The steps after that, which leave the map and the verdicts alone.
LateStep == /\ PrintInv /\ pc \notin BeforePrint /\ pc' \notin BeforePrint
            /\ UNCHANGED <<formal, valid>> /\ Kept

LEMMA LateFrame ==
    ASSUME LateStep
    PROVE  /\ NothingYet'
           /\ printed' = printed => PrintedInv'
           /\ grouped' = grouped => (formal => \A f \in DOMAIN grouped : f \in Task /\ grouped[f] = CrossOf(f))'
           /\ json = <<>> /\ json' = json => JsonInv'
           /\ json # <<>> => pc = "done"
<1> USE DEF LateStep, Kept, vars, taskVars, inputs
<1>1. \A f : Skips(f)' = Skips(f) /\ Listing(f)' = Listing(f) /\ CrossOf(f)' = CrossOf(f)
  BY Frame
<1>2. NothingYet'
  BY DEF NothingYet, BeforePrint
<1>3. printed' = printed => PrintedInv'
  BY <1>1 DEF PrintInv, PrintedInv
<1>4. grouped' = grouped => (formal => \A f \in DOMAIN grouped : f \in Task /\ grouped[f] = CrossOf(f))'
  BY <1>1 DEF PrintInv, GroupedInv
<1>5. json # <<>> => pc = "done"
  BY DEF PrintInv, JsonInv
<1>6. json = <<>> /\ json' = json => JsonInv'
  BY DEF PrintInv, JsonInv
<1> QED
  BY <1>2, <1>3, <1>4, <1>5, <1>6

LEMMA PrintFsmStep ==
    ASSUME MainInv, PrintInv, NEW f \in Task, PrintFsm(f)
    PROVE  PrintInv'
<1> USE DEF PrintFsm
<1>1. pc' = "print"
  BY NeverHeadless
<1>2. LateStep
  BY <1>1 DEF LateStep, BeforePrint
<1>3. \A t : Skips(t)' = Skips(t) /\ Listing(t)' = Listing(t)
  BY <1>2, Frame DEF LateStep, Kept, vars, inputs, taskVars
<1>4. PrintedInv'
  BY <1>3 DEF PrintInv, PrintedInv, Emplaced
<1>5. VerdictsInv'
  BY <1>1 DEF PrintInv, VerdictsInv, Kept, vars, taskVars
<1>6. json = <<>> /\ grouped = <<>> /\ grouped' = grouped
  BY <1>2, LateFrame DEF PrintInv, GroupedInv
<1>7. GroupedInv'
  BY <1>1, <1>6 DEF GroupedInv
<1>8. FailsOnlyForEmptyCounter'
  BY <1>1 DEF FailsOnlyForEmptyCounter
<1> QED
  BY <1>2, <1>4, <1>5, <1>6, <1>7, <1>8, LateFrame DEF PrintInv

LEMMA GroupFsmStep ==
    ASSUME MainInv, PrintInv, NEW f \in Task, GroupFsm(f)
    PROVE  PrintInv'
<1> USE DEF GroupFsm
<1>1. LateStep /\ pc' = "grouping"
  BY DEF LateStep, BeforePrint
<1>2. \A t : CrossOf(t)' = CrossOf(t)
  BY <1>1, Frame DEF LateStep, Kept, vars, inputs, taskVars
<1>3. formal /\ computeCoupled
  BY DEF PrintInv, VerdictsInv
<1>4. /\ DOMAIN grouped' = DOMAIN grouped \cup {f}
      /\ \A t \in DOMAIN grouped' : t \in Task /\ grouped'[t] = CrossOf(t)
      /\ Task \ toPrint \subseteq DOMAIN grouped
  BY <1>3 DEF PrintInv, GroupedInv, Emplaced
<1>5. GroupedInv'
  BY <1>1, <1>2, <1>4 DEF GroupedInv
<1>6. VerdictsInv'
  BY <1>1, <1>3 DEF PrintInv, VerdictsInv, Kept, vars, taskVars
<1>7. FailsOnlyForEmptyCounter'
  BY <1>1 DEF FailsOnlyForEmptyCounter
<1>8. json = <<>> /\ json' = json
  BY <1>1, LateFrame
<1> QED
  BY <1>1, <1>5, <1>6, <1>7, <1>8, LateFrame DEF PrintInv

LEMMA GroupFailsStep ==
    ASSUME MainInv, PrintInv, NEW f \in Task, GroupFails(f)
    PROVE  PrintInv'
<1> USE DEF GroupFails
<1>1. LateStep /\ pc' = "failed"
  BY DEF LateStep, BeforePrint
<1>2. formal /\ computeCoupled
  BY DEF PrintInv, VerdictsInv
<1>3. isCounter[f] /\ states[f] = {}
  BY NeverHeadless DEF SomeProperty, Skips
<1>4. FailsOnlyForEmptyCounter'
  BY <1>2, <1>3 DEF FailsOnlyForEmptyCounter, Kept, vars, taskVars, inputs
<1>5. VerdictsInv'
  BY <1>1, <1>2 DEF PrintInv, VerdictsInv, Kept, vars, taskVars
<1>6. GroupedInv'
  BY <1>1, LateFrame DEF GroupedInv
<1>7. json = <<>> /\ json' = json
  BY <1>1, LateFrame
<1> QED
  BY <1>1, <1>4, <1>5, <1>6, <1>7, LateFrame DEF PrintInv

LEMMA LoopEnds ==
    ASSUME PrintInv, AllPrinted \/ AllGrouped \/ PrintGroups \/ NoJson
    PROVE  PrintInv'
<1> USE DEF AllPrinted, AllGrouped, PrintGroups, NoJson
<1>1. LateStep /\ pc' \in {"grouping", "json", "done"} /\ UNCHANGED <<printed, json>>
  BY DEF LateStep, BeforePrint
<1>2. json = <<>>
  BY <1>1, LateFrame
<1>3. VerdictsInv'
  BY DEF PrintInv, VerdictsInv, Kept, vars, taskVars
<1>4. FailsOnlyForEmptyCounter'
  BY <1>1 DEF FailsOnlyForEmptyCounter
<1>5. GroupedInv'
  <2>1. CASE PrintGroups
    BY <1>1, <2>1 DEF GroupedInv, LateStep
  <2>2. CASE ~PrintGroups
    <3>1. UNCHANGED <<grouped, formal>> /\ computeCoupled' = computeCoupled
      BY <2>2 DEF Kept
    <3>2. (formal => \A f \in DOMAIN grouped : f \in Task /\ grouped[f] = CrossOf(f))'
      BY <1>1, <3>1, LateFrame
    <3> QED
      BY <2>2, <3>1, <3>2 DEF PrintInv, VerdictsInv, GroupedInv
  <2> QED
    BY <2>1, <2>2
<1> QED
  BY <1>1, <1>2, <1>3, <1>4, <1>5, LateFrame DEF PrintInv

LEMMA JsonStep ==
    ASSUME MainInv, PrintInv, NEW source \in [Task -> Seq(Constant)], WriteJson(source)
    PROVE  PrintInv'
<1> USE DEF WriteJson
<1>1. \A f : Cardinality(Group(f)) \in Nat
  <2> SUFFICES ASSUME NEW f PROVE Cardinality(Group(f)) \in Nat
    OBVIOUS
  <2>1. Group(f) \subseteq Task
    BY DEF Group, MainInv, CrossInv, LoopsInv
  <2> QED
    BY <2>1, FiniteAssumption, FS_Subset, FS_CardinalityType
<1>2. Document(source) \in At(0)
  BY <1>1, DocumentFits
<1>3. Writer!IsWhole(Document(source)) /\ Writer!CommasFit(Document(source).out)
  BY <1>2 DEF At, Writer!IsWhole
<1>4. LateStep /\ pc' = "done" /\ UNCHANGED <<printed, grouped>>
  BY <1>3 DEF LateStep, BeforePrint
<1>5. JsonInv'
  BY <1>3, <1>4 DEF JsonInv
<1>6. VerdictsInv'
  BY <1>4 DEF PrintInv, VerdictsInv, Kept, vars, taskVars
<1>7. FailsOnlyForEmptyCounter'
  BY <1>4 DEF FailsOnlyForEmptyCounter
<1>8. (formal => \A f \in DOMAIN grouped : f \in Task /\ grouped[f] = CrossOf(f))'
  BY <1>4, LateFrame
<1>9. GroupedInv'
  BY <1>4, <1>8 DEF PrintInv, GroupedInv, Kept
<1> QED
  BY <1>4, <1>5, <1>6, <1>7, <1>9, LateFrame DEF PrintInv

LEMMA CrossingStep ==
    ASSUME MainInv, PrintInv, Crossing, UNCHANGED reportVars
    PROVE  PrintInv'
<1>1. pc = "crossing"
  BY DEF Crossing, NextGroup, NextOther, NextCombo, Done, MainInv, CrossInv, LoopsInv
<1>2. pc' \in {"crossing", "crossed"}
  BY <1>1 DEF Crossing, NextGroup, NextOther, NextCombo, Done
<1> QED
  BY <1>1, <1>2, EarlyStep DEF BeforePrint, reportVars, PrintInv, VerdictsInv

LEMMA PrintStep == MainInv /\ PrintInv /\ [ReportNext]_allVars => PrintInv'
<1> SUFFICES ASSUME MainInv, PrintInv, [ReportNext]_allVars PROVE PrintInv'
  OBVIOUS
<1>1. CASE Next /\ UNCHANGED <<crossVars, reportVars>>
  <2>1. pc = "create"
    BY <1>1, NoTaskLeft DEF MainInv, StageInv
  <2> QED
    BY <1>1, <2>1, EarlyStep DEF BeforePrint, crossVars, reportVars, PrintInv, VerdictsInv
<1>2. CASE UNCHANGED allVars
  <2> USE <1>2 DEF allVars, reportVars, crossVars, vars, taskVars, inputs
  <2>1. \A f : Skips(f)' = Skips(f) /\ Listing(f)' = Listing(f) /\ CrossOf(f)' = CrossOf(f)
    BY Frame
  <2>2. PrintedInv' /\ GroupedInv'
    BY <2>1 DEF PrintInv, PrintedInv, GroupedInv
  <2>3. VerdictsInv' /\ NothingYet' /\ JsonInv' /\ FailsOnlyForEmptyCounter'
    BY DEF PrintInv, VerdictsInv, NothingYet, JsonInv, FailsOnlyForEmptyCounter
  <2> QED
    BY <2>2, <2>3 DEF PrintInv
<1>3. ASSUME NEW groups, Couple(groups) PROVE PrintInv'
  BY <1>3, EarlyStep DEF Couple, Start, BeforePrint
<1>4. CASE DoNotCouple
  BY <1>4, EarlyStep DEF DoNotCouple, BeforePrint, reportVars, PrintInv, VerdictsInv
<1>5. CASE Crossing /\ UNCHANGED reportVars
  BY <1>5, CrossingStep
<1>6. ASSUME NEW reached \in AllVerdicts, Prove(reached) PROVE PrintInv'
  BY <1>6, ProveStep DEF Prove, AllVerdicts
<1>7. CASE DoNotProve
  BY <1>7, ProveStep DEF DoNotProve
<1>8. CASE Printing
  BY <1>8, PrintFsmStep, GroupFsmStep, GroupFailsStep, LoopEnds DEF Printing
<1>9. ASSUME NEW source \in [Task -> Seq(Constant)], WriteJson(source) PROVE PrintInv'
  BY <1>9, JsonStep
<1> QED
  BY <1>1, <1>2, <1>3, <1>4, <1>5, <1>6, <1>7, <1>8, <1>9 DEF ReportNext, Main

\* In every stage of main what is written agrees with what it is made of.
THEOREM PrintInvariance == ReportSpec => [](MainInv /\ PrintInv)
<1>1. Init /\ CrossInit /\ ReportInit => MainInv
  BY InitMain
<1>2. ASSUME CrossInit, ReportInit PROVE PrintInv
  <2> USE <1>2 DEF CrossInit, ReportInit
  <2>1. VerdictsInv /\ NothingYet /\ FailsOnlyForEmptyCounter
    BY DEF VerdictsInv, NothingYet, FailsOnlyForEmptyCounter
  <2>2. PrintedInv /\ GroupedInv
    BY DEF PrintedInv, GroupedInv
  <2>3. JsonInv
    BY DEF JsonInv, Writer!CommasFit
  <2> QED
    BY <2>1, <2>2, <2>3 DEF PrintInv
<1>3. MainInv /\ [ReportNext]_allVars => MainInv'
  BY MainStep
<1>4. MainInv /\ PrintInv /\ [ReportNext]_allVars => PrintInv'
  BY PrintStep
<1> QED
  BY <1>1, <1>2, <1>3, <1>4, PTL DEF ReportSpec

\* The assertions of main hold but for a counter without a value, after a proof and
\* with groups asked for.
THEOREM OnlyFailure == ReportSpec => []FailsOnlyForEmptyCounter
BY PrintInvariance, PTL DEF PrintInv

\* The file is well-formed for any number of machines, states and links.
THEOREM JsonFile == ReportSpec => []JsonWellFormed
<1>1. PrintInv => JsonWellFormed
  BY DEF PrintInv, JsonInv, JsonWellFormed
<1> QED
  BY <1>1, PrintInvariance, PTL

-------------------------------------------------------------------------------
\* A property about two machines is printed under the first one of them.
LEMMA MainPairsExact == MainInv /\ PrintInv => PairsExact
<1> SUFFICES ASSUME MainInv, PrintInv, formal
             PROVE  /\ \A f \in DOMAIN grouped : \A i \in grouped[f] : i \in valid /\ i \in Cross
                    /\ \A f, g \in DOMAIN grouped : f # g => grouped[f] \cap grouped[g] = {}
                    /\ pc = "done" /\ computeCoupled => UNION {grouped[f] : f \in Task} = Cross \cap valid
  BY DEF PairsExact
<1>1. \A f \in DOMAIN grouped : f \in Task /\ grouped[f] = CrossOf(f)
  BY DEF PrintInv, GroupedInv
<1>2. \A f : \A i \in CrossOf(f) : i \in valid /\ i \in Cross /\ properties[i].var1 = f
  BY DEF CrossOf, PropertiesOf, Cross, Own
<1>3. \A f, g \in DOMAIN grouped : f # g => grouped[f] \cap grouped[g] = {}
  BY <1>1, <1>2
<1>4. ASSUME NEW i \in Cross \cap valid PROVE properties[i].var1 \in Task /\ i \in CrossOf(properties[i].var1)
  <2>1. i \in CrossIds
    BY MainMapOK, OwnAreWanted
  <2>2. PICK f \in Task, g \in Task : f # g /\ \E m, n : properties[i] = CrossProperty(f, m, g, n)
    BY <2>1 DEF MainInv, CrossInv, EntriesInv
  <2>3. properties[i].var1 = f /\ properties[i].var2 = g
    BY <2>2 DEF CrossProperty
  <2> QED
    BY <2>2, <2>3, NoTaskAssumption DEF CrossOf, PropertiesOf, Cross
<1>5. ASSUME pc = "done", computeCoupled PROVE UNION {grouped[f] : f \in Task} = Cross \cap valid
  <2>1. \A f \in Task : grouped[f] = CrossOf(f)
    BY <1>1, <1>5 DEF PrintInv, GroupedInv
  <2> QED
    BY <1>2, <1>4, <2>1
<1> QED
  BY <1>1, <1>2, <1>3, <1>5

\* What is listed under a state is what the source says comes next, and what the prover
\* has found.
LEMMA MarksExact ==
    ASSUME MainInv, PrintInv, pc # "create", NEW f \in Task, ~isCounter[f],
           NEW m \in states[f], NEW n \in Constant
    PROVE  {e \in NextStates(f, m) : e.state = n} =
              IF n \in states[f] /\ (Expects(f, m, n) \/ Reached(f, m, n))
              THEN {[state |-> n, unreachable |-> formal /\ ~Reached(f, m, n)]}
              ELSE {}
<1> DEFINE marks == {e \in NextStates(f, m) : e.state = n}
           Line(j) == [state |-> properties[j].state2, unreachable |-> Unreached(j)]
<1>1. marks = {Line(j) : j \in {k \in EntriesOf(f) : /\ properties[k].state1 = m
                                                     /\ properties[k].state2 = n /\ IsPrinted(k)}}
  BY DEF NextStates
<1>2. CASE n \notin states[f]
  <2>1. ASSUME NEW k \in EntriesOf(f) PROVE properties[k].state2 # n
    <3>1. properties[k].state2 \in states[f]
      BY StatesOfMachine
    <3> QED
      BY <1>2, <3>1
  <2>2. marks = {}
    BY <1>1, <2>1
  <2> QED
    BY <1>2, <2>2
<1>3. CASE n \in states[f]
  <2>1. PICK i \in EntriesOf(f) : properties[i].state1 = m /\ properties[i].state2 = n
    BY <1>3, StatesOfMachine
  <2>2. \A k \in EntriesOf(f) : properties[k].state1 = m /\ properties[k].state2 = n => k = i
    BY <2>1, StatesOfMachine DEF PairOf
  <2>3. i \in OwnIds /\ properties[i] = Marked(Key(properties[i]))
    BY <2>1, OwnOfMachine DEF MainInv, OwnInv
  <2>4. Key(properties[i]) = [var1 |-> f, state1 |-> m, var2 |-> f, state2 |-> n]
    BY <2>1 DEF Key, EntriesOf, PropertiesOf
  <2>5. properties[i].shouldBeValid <=> Expects(f, m, n)
    <3>1. properties[i].shouldBeValid = ShouldBeValid(Key(properties[i]))
      BY <2>3 DEF Marked
    <3>2. ShouldBeValid(Key(properties[i])) <=> \E a \in arcs[f] : SameArc(a, m, n)
      BY <2>4, NoStateAssumption DEF ShouldBeValid
    <3> QED
      BY <3>1, <3>2 DEF Expects, SameArc
  <2>6. i \in valid <=> Reached(f, m, n)
    <3>1. ASSUME NEW j \in valid, Key(properties[j]) = [var1 |-> f, state1 |-> m, var2 |-> f, state2 |-> n]
          PROVE  j = i
      <4>1. j \in EntriesOf(f) /\ properties[j].state1 = m /\ properties[j].state2 = n
        BY <3>1 DEF Key, EntriesOf, PropertiesOf, PrintInv, VerdictsInv
      <4> QED
        BY <2>2, <4>1
    <3> QED
      BY <2>4, <3>1 DEF Reached
  <2>7. IsPrinted(i) <=> Expects(f, m, n) \/ Reached(f, m, n)
    BY <2>5, <2>6 DEF IsPrinted, PrintInv, VerdictsInv
  <2>8. Unreached(i) = (formal /\ ~Reached(f, m, n))
    BY <2>6 DEF Unreached
  <2>9. Line(i) = [state |-> n, unreachable |-> formal /\ ~Reached(f, m, n)]
    BY <2>1, <2>8
  <2>10. marks = IF IsPrinted(i) THEN {Line(i)} ELSE {}
    BY <1>1, <2>1, <2>2
  <2> QED
    BY <1>3, <2>7, <2>9, <2>10
<1> QED
  BY <1>2, <1>3

LEMMA MainPrintedExact == MainInv /\ PrintInv => PrintedExact
<1> SUFFICES ASSUME MainInv, PrintInv, NEW f \in DOMAIN printed, ~isCounter[f]
             PROVE  /\ {l.state : l \in printed[f]} = states[f]
                    /\ Cardinality(printed[f]) = Cardinality(states[f])
                    /\ \A l \in printed[f] : \A n \in Constant :
                          {e \in l.next : e.state = n} =
                             IF n \in states[f] /\ (Expects(f, l.state, n) \/ Reached(f, l.state, n))
                             THEN {[state |-> n, unreachable |-> formal /\ ~Reached(f, l.state, n)]}
                             ELSE {}
  BY DEF PrintedExact
<1>1. pc # "create" /\ f \in Task
  BY DEF PrintInv, NothingYet, PrintedInv
<1>2. printed[f] = Listing(f)
  BY <1>1, NeverHeadless DEF PrintInv, PrintedInv
<1> DEFINE Line(h) == [state |-> properties[h].state1, unreachable |-> Unreached(h),
                       next |-> NextStates(f, properties[h].state1)]
<1>3. Listed(f) = HeadsOf(f)
  <2>1. ASSUME NEW h \in HeadsOf(f)
        PROVE  \E i \in EntriesOf(f) : properties[i].state1 = properties[h].state1
    <3> DEFINE m == properties[h].state1
    <3>1. m \in states[f]
      BY <1>1, StatesOfMachine
    <3> HIDE DEF m
    <3>2. PICK i \in EntriesOf(f) : properties[i].state1 = m /\ properties[i].state2 = m
      BY <1>1, <3>1, StatesOfMachine
    <3> QED
      BY <3>2 DEF m
  <2> QED
    BY <2>1 DEF Listed
<1>4. Listing(f) = {Line(h) : h \in HeadsOf(f)}
  BY <1>3 DEF Listing
<1>5. \A l \in printed[f] : \E h \in HeadsOf(f) : l = Line(h) /\ l.state = properties[h].state1
                                                /\ l.next = NextStates(f, l.state)
  BY <1>2, <1>4
<1>6. \A l \in printed[f] : l.state \in states[f]
  BY <1>1, <1>5, StatesOfMachine
<1>7. \A m \in states[f] : \E l \in printed[f] : l.state = m
  <2> SUFFICES ASSUME NEW m \in states[f] PROVE \E l \in printed[f] : l.state = m
    OBVIOUS
  <2>1. PICK h \in HeadsOf(f) : properties[h].state1 = m
    BY <1>1, StatesOfMachine
  <2>2. Line(h) \in printed[f] /\ Line(h).state = m
    BY <1>2, <1>4, <2>1
  <2> QED
    BY <2>2
<1>8. \A k, l \in printed[f] : k.state = l.state => k = l
  BY <1>1, <1>5, StatesOfMachine
<1>9. {l.state : l \in printed[f]} = states[f]
  BY <1>6, <1>7
<1>10. Cardinality(printed[f]) = Cardinality(states[f])
  <2> DEFINE state == [l \in printed[f] |-> l.state]
  <2>1. state \in Bijection(printed[f], states[f])
    BY <1>6, <1>7, <1>8, Fun_IsBij
  <2>2. ExistsBijection(states[f], printed[f])
    BY <2>1, Fun_ExistsBijSymmetric DEF ExistsBijection
  <2>3. IsFiniteSet(states[f])
    BY <1>1, FiniteAssumption, FS_Subset DEF MainInv, TasksInv, TypeOK
  <2> QED
    BY <2>2, <2>3, FS_Bijection
<1>11. ASSUME NEW l \in printed[f], NEW n \in Constant
       PROVE  {e \in l.next : e.state = n} =
                 IF n \in states[f] /\ (Expects(f, l.state, n) \/ Reached(f, l.state, n))
                 THEN {[state |-> n, unreachable |-> formal /\ ~Reached(f, l.state, n)]}
                 ELSE {}
  <2>1. l.next = NextStates(f, l.state) /\ l.state \in states[f]
    BY <1>5, <1>6
  <2> QED
    BY <1>1, <2>1, MarksExact
<1> QED
  BY <1>9, <1>10, <1>11

\* What is printed of any machine is exact.
THEOREM Listings == ReportSpec => []PrintedExact
BY MainPrintedExact, PrintInvariance, PTL

\* So is what is printed of the coupled ones.
THEOREM Pairings == ReportSpec => []PairsExact
BY MainPairsExact, PrintInvariance, PTL
===============================================================================
