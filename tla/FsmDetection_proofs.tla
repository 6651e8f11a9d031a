-------------------------- MODULE FsmDetection_proofs --------------------------
(***************************************************************************)
(* identify_fsms for any number of registers and of workers: the shared    *)
(* counter and the shared vector are exact, no task outlives the call, and *)
(* the call does what FsmDetectionSpec says.                               *)
(***************************************************************************)
EXTENDS FsmDetection, FiniteSetTheorems, TLAPS

\* Appending a new element to a sequence.
LEMMA AppendRange ==
    ASSUME NEW S, NEW s \in Seq(S), NEW e \in S
    PROVE  Range(Append(s, e)) = Range(s) \cup {e}
<1>1. /\ Append(s, e) \in Seq(S)
      /\ DOMAIN Append(s, e) = 1..(Len(s) + 1)
      /\ \A i \in 1..Len(s) : Append(s, e)[i] = s[i]
      /\ Append(s, e)[Len(s) + 1] = e
  OBVIOUS
<1>2. DOMAIN s = 1..Len(s) /\ Len(s) \in Nat
  OBVIOUS
<1>3. 1..(Len(s) + 1) = 1..Len(s) \cup {Len(s) + 1}
  BY <1>2
<1> QED
  BY <1>1, <1>2, <1>3, Zenon DEF Range

\* Appending, as AppendResult writes it.
LEMMA AppendAsFunction ==
    ASSUME NEW S, NEW s \in Seq(S), NEW e \in S
    PROVE  Append(s, e) = [i \in 1..(Len(s) + 1) |-> IF i = Len(s) + 1 THEN e ELSE s[i]]
<1> DEFINE n == Len(s) + 1
           f == [i \in 1..n |-> IF i = n THEN e ELSE s[i]]
           a == Append(s, e)
<1>1. n \in Nat /\ a \in [1..n -> S]
  <2>1. a \in Seq(S) /\ Len(a) = n
    OBVIOUS
  <2>2. n \in Nat
    OBVIOUS
  <2> HIDE DEF n, a
  <2> QED
    BY <2>1, <2>2
<1>2. a[n] = e /\ \A i \in 1..n : i # n => a[i] = s[i]
  OBVIOUS
<1>3. \A i \in 1..n : a[i] = f[i]
  BY <1>2
<1> HIDE DEF n, a
<1>4. a = [i \in 1..n |-> a[i]]
  BY <1>1
<1>5. a = f
  BY <1>1, <1>3, <1>4
<1> QED
  BY <1>5 DEF n, a

LEMMA AppendInjective ==
    ASSUME NEW S, NEW s \in Seq(S), NEW e \in S, IsInjective(s), e \notin Range(s)
    PROVE  IsInjective(Append(s, e))
BY DEF IsInjective, Range

-------------------------------------------------------------------------------
LEMMA InitInv == Init => Inv
<1> SUFFICES ASSUME Init PROVE Inv
  OBVIOUS
<1> USE DEF Init, ParallelForInit
<1>1. TypeOK
  BY DEF TypeOK, ParallelForType, Phase, Steps
<1>2. PoolInv
  BY NoTaskAssumption DEF PoolInv, Range
<1>3. CollectInv
  BY DEF CollectInv, Gone
<1>4. MutexInv
  BY NoTaskAssumption DEF MutexInv
<1>5. VerdictInv
  BY DEF VerdictInv
<1>6. Listed = {} /\ Counted = {}
  BY DEF Listed, Counted
<1>7. ResultInv
  BY <1>6, FS_EmptySet DEF ResultInv, Range, IsInjective
<1>8. CountExact
  BY <1>6, FS_EmptySet DEF CountExact
<1> QED
  BY <1>1, <1>2, <1>3, <1>4, <1>5, <1>7, <1>8 DEF Inv

-------------------------------------------------------------------------------
(* The calling thread.  It touches nothing that the tasks know.            *)

LEMMA CallerFrame ==
    ASSUME Inv, UNCHANGED <<outcome, inputs, taskVars>>
    PROVE  (MutexInv /\ VerdictInv /\ ResultInv /\ CountExact)'
<1> USE DEF inputs, taskVars
<1>1. Listed' = Listed /\ Counted' = Counted
  BY DEF Listed, Counted, Accepts
<1>2. MutexInv'
  BY DEF Inv, MutexInv
<1>3. VerdictInv'
  BY DEF Inv, VerdictInv, Accepts
<1>4. ResultInv' /\ CountExact'
  BY <1>1 DEF Inv, ResultInv, CountExact
<1> QED
  BY <1>2, <1>3, <1>4

LEMMA PushStep ==
    ASSUME Inv, NEW t \in Task, PushRegister(t)
    PROVE  Inv'
<1> USE DEF PushRegister, Push, inputs, taskVars
<1>1. TypeOK'
  BY DEF Inv, TypeOK, ParallelForType
<1>2. Range(futures') = Range(futures) \cup {t}
  BY AppendRange DEF Inv, TypeOK, ParallelForType
<1>3. step[t] = "new" /\ t \notin Range(futures)
  BY DEF Inv, PoolInv
<1>4. PoolInv'
  BY <1>2, <1>3 DEF Inv, TypeOK, ParallelForType, PoolInv
<1>5. CollectInv'
  BY DEF Inv, CollectInv, Gone
<1> QED
  BY <1>1, <1>4, <1>5, CallerFrame DEF Inv

LEMMA SkipStep ==
    ASSUME Inv, NEW t \in Task, SkipRegister(t)
    PROVE  Inv'
<1> USE DEF SkipRegister, Skip, poolVars, inputs, taskVars
<1>1. TypeOK'
  BY DEF Inv, TypeOK, ParallelForType
<1>2. PoolInv'
  BY DEF Inv, TypeOK, ParallelForType, PoolInv
<1>3. CollectInv'
  BY DEF Inv, CollectInv, Gone
<1> QED
  BY <1>1, <1>2, <1>3, CallerFrame DEF Inv

\* The moves of the caller after the loop leave the pool alone.
LEMMA CollectStep ==
    ASSUME Inv, Caller
    PROVE  Inv'
<1> USE DEF inputs, taskVars, poolVars
<1>1. UNCHANGED <<remaining, futures, poolVars, inputs, taskVars>>
  BY DEF Caller, LeaveLoop, AllPushed, Collect, Wait, AllWaited, Get, Rethrow, AllGot
<1>2. TypeOK'
  BY <1>1 DEF Caller, LeaveLoop, AllPushed, Collect, Wait, AllWaited, Get, Rethrow, AllGot,
              Inv, TypeOK, ParallelForType, Phase, Gone
<1>3. PoolInv'
  BY <1>1 DEF Inv, PoolInv
<1>4. Len(futures) \in Nat /\ next \in Nat \ {0}
  BY DEF Inv, TypeOK, ParallelForType
<1>5. CollectInv'
  <2>1. CASE LeaveLoop
    BY <2>1, <1>1, <1>4 DEF LeaveLoop, AllPushed, Inv, CollectInv, Gone
  <2>2. CASE Wait
    BY <2>2, <1>1, <1>4 DEF Wait, Inv, CollectInv, Gone
  <2>3. CASE AllWaited
    BY <2>3, <1>1, <1>4 DEF AllWaited, Inv, CollectInv, Gone
  <2>4. CASE Get
    BY <2>4, <1>1, <1>4 DEF Get, Inv, CollectInv, Gone
  <2>5. CASE Rethrow
    <3>1. next \in 1..Len(futures)
      BY <2>5, <1>4 DEF Rethrow
    <3> QED
      BY <3>1, <2>5, <1>1, <1>4 DEF Rethrow, Inv, CollectInv, Gone
  <2>6. CASE AllGot
    BY <2>6, <1>1, <1>4 DEF AllGot, Inv, CollectInv, Gone
  <2> QED
    BY <2>1, <2>2, <2>3, <2>4, <2>5, <2>6 DEF Caller, Collect
<1> QED
  BY <1>1, <1>2, <1>3, <1>5, CallerFrame DEF Inv

-------------------------------------------------------------------------------
(* A worker takes a task up and lays it down.                              *)

LEMMA BeginStep ==
    ASSUME Inv, NEW w \in Worker, NEW t \in Task, Begin(w, t)
    PROVE  Inv'
<1> USE DEF Begin, Take, Goto, inputs, callerVars
<1>1. step[t] = "new" /\ t \in Range(futures)
  BY DEF Inv, PoolInv
<1>2. /\ step' = [step EXCEPT ![t] = "count"]
      /\ step \in [Task -> Steps]
      /\ running' = [running EXCEPT ![w] = t]
      /\ running \in [Worker -> Task \cup {NoTask}]
  BY DEF Inv, TypeOK, ParallelForType
<1>3. TypeOK'
  BY DEF Inv, TypeOK, ParallelForType, Steps
<1>4. PoolInv'
  <2>1. \A v \in Worker : running[v] # t
    BY <1>1, NoTaskAssumption DEF Inv, PoolInv
  <2>2. \A v \in Worker : running'[v] = IF v = w THEN t ELSE running[v]
    BY <1>2
  <2>3. \A u \in Task : step'[u] = IF u = t THEN "count" ELSE step[u]
    BY <1>2
  <2>4. \A v \in Worker : running[v] # NoTask => running[v] \in Task
    BY <1>2
  <2> QED
    BY <1>1, <2>1, <2>2, <2>3, <2>4 DEF Inv, PoolInv
<1>5. CollectInv'
  BY DEF Inv, CollectInv
<1>6. Listed' = Listed /\ Counted' = Counted
  BY <1>1, <1>2 DEF Listed, Counted, Accepts
<1>7. MutexInv'
  BY <1>1, <1>2 DEF Inv, MutexInv
<1>8. VerdictInv'
  BY <1>1, <1>2 DEF Inv, VerdictInv, Accepts
<1>9. ResultInv' /\ CountExact'
  BY <1>6 DEF Inv, ResultInv, CountExact
<1> QED
  BY <1>3, <1>4, <1>5, <1>7, <1>8, <1>9 DEF Inv

LEMMA EndStep ==
    ASSUME Inv, NEW w \in Worker, NEW t \in Task, End(w, t)
    PROVE  Inv'
<1> USE DEF End, Finish, Goto, inputs, callerVars
<1>1. /\ step[t] \in {"return", "raise"}
      /\ running[w] = t
      /\ t # NoTask
  BY NoTaskAssumption
<1>2. /\ step' = [step EXCEPT ![t] = "done"]
      /\ step \in [Task -> Steps]
      /\ running' = [running EXCEPT ![w] = NoTask]
      /\ running \in [Worker -> Task \cup {NoTask}]
      /\ outcome \in [Task -> {"pending", "value", "exception"}]
  BY DEF Inv, TypeOK, ParallelForType
<1>3. PICK how \in {"value", "exception"} :
          /\ outcome' = [outcome EXCEPT ![t] = how]
          /\ how = "value" => step[t] = "return"
          /\ how = "exception" => step[t] = "raise"
  BY <1>1
<1>4. outcome[t] = "pending"
  BY <1>1 DEF Inv, PoolInv
<1>5. /\ \A v \in Worker : running'[v] = IF v = w THEN NoTask ELSE running[v]
      /\ \A u \in Task : step'[u] = IF u = t THEN "done" ELSE step[u]
      /\ \A u \in Task : outcome'[u] = IF u = t THEN how ELSE outcome[u]
      /\ \A v \in Worker : running[v] # NoTask => running[v] \in Task
  BY <1>2, <1>3
<1>6. TypeOK'
  BY <1>1, <1>2, <1>3 DEF Inv, TypeOK, ParallelForType, Steps
<1>7. PoolInv'
  BY <1>1, <1>3, <1>5 DEF Inv, PoolInv
<1>8. CollectInv'
  <2>1. /\ Len(futures) \in Nat
        /\ \A i \in 1..Len(futures) : futures[i] \in Task
    BY DEF Inv, TypeOK, ParallelForType
  <2>2. \A u \in Task : outcome[u] # "pending" => outcome'[u] = outcome[u]
    BY <1>4, <1>5
  <2> QED
    BY <2>1, <2>2 DEF Inv, CollectInv
<1>9. Listed' = Listed /\ Counted' = Counted
  <2>1. step[t] = "raise" => analysis[t] = Failure
    BY DEF Inv, VerdictInv
  <2> QED
    BY <1>1, <1>5, <2>1 DEF Listed, Counted, Accepts
<1>10. MutexInv'
  BY <1>1, <1>5 DEF Inv, MutexInv
<1>11. VerdictInv'
  BY <1>1, <1>3, <1>5 DEF Inv, VerdictInv, Accepts
<1>12. ResultInv' /\ CountExact'
  BY <1>9 DEF Inv, ResultInv, CountExact
<1> QED
  BY <1>6, <1>7, <1>8, <1>10, <1>11, <1>12 DEF Inv

-------------------------------------------------------------------------------
(* The steps of the lambda.                                                *)

\* A task that goes from one place inside the lambda to another, which leaves the
\* pool and the caller as they are.
LEMMA BodyFrame ==
    ASSUME Inv, NEW t \in Task, NEW there \in Steps \ {"new", "done"},
           step[t] \notin {"new", "done"}, Goto(t, there),
           UNCHANGED <<callerVars, poolVars, inputs>>
    PROVE  /\ PoolInv'
           /\ CollectInv'
           /\ ParallelForType'
           /\ step' \in [Task -> Steps]
           /\ \A u \in Task : step'[u] = IF u = t THEN there ELSE step[u]
<1> USE DEF Goto, callerVars, poolVars, inputs
<1>1. /\ step' \in [Task -> Steps]
      /\ \A u \in Task : step'[u] = IF u = t THEN there ELSE step[u]
  BY DEF Inv, TypeOK
<1>2. ParallelForType'
  BY DEF Inv, TypeOK, ParallelForType
<1>3. PoolInv'
  <2>1. \A w \in Worker : running[w] # NoTask => running[w] \in Task
    BY DEF Inv, TypeOK, ParallelForType
  <2> QED
    BY <1>1, <2>1 DEF Inv, PoolInv
<1>4. CollectInv'
  BY DEF Inv, CollectInv
<1> QED
  BY <1>1, <1>2, <1>3, <1>4

LEMMA LockCountStep ==
    ASSUME Inv, NEW t \in Task, LockCount(t)
    PROVE  Inv'
<1> USE DEF LockCount, inputs
<1>1. PoolInv' /\ CollectInv' /\ ParallelForType'
  BY BodyFrame DEF Steps
<1>2. /\ step' \in [Task -> Steps]
      /\ \A u \in Task : step'[u] = IF u = t THEN "counting" ELSE step[u]
  BY BodyFrame DEF Steps
<1>3. TypeOK'
  BY <1>1, <1>2 DEF Inv, TypeOK
<1>4. Listed' = Listed /\ Counted' = Counted
  BY <1>2 DEF Listed, Counted, Accepts
<1>5. MutexInv'
  BY <1>2, NoTaskAssumption DEF Inv, TypeOK, MutexInv, MutexFree
<1>6. VerdictInv'
  BY <1>2 DEF Inv, VerdictInv, Accepts, poolVars
<1>7. ResultInv' /\ CountExact'
  BY <1>4 DEF Inv, ResultInv, CountExact
<1> QED
  BY <1>1, <1>3, <1>5, <1>6, <1>7 DEF Inv

\* What the task wrote is one more than what it read, and what it read was still
\* the counter, since it alone held the mutex.
LEMMA CountUpStep ==
    ASSUME Inv, NEW t \in Task, CountUp(t)
    PROVE  Inv'
<1> USE DEF CountUp, Unlock, inputs
<1>1. PoolInv' /\ CollectInv' /\ ParallelForType'
  BY BodyFrame DEF Steps
<1>2. /\ step' \in [Task -> Steps]
      /\ \A u \in Task : step'[u] = IF u = t THEN "analyse" ELSE step[u]
  BY BodyFrame DEF Steps
<1>3. seen[t] = count /\ holder = t /\ count \in Nat
  BY DEF Inv, MutexInv, TypeOK
<1>4. TypeOK'
  BY <1>1, <1>2, <1>3 DEF Inv, TypeOK
<1>5. Listed' = Listed
  BY <1>2 DEF Listed, Accepts
<1>6. Counted' = Counted \cup {t} /\ t \notin Counted
  BY <1>2 DEF Counted
<1>7. IsFiniteSet(Counted)
  BY TaskAssumption, FS_Subset DEF Counted
<1>8. CountExact'
  BY <1>3, <1>6, <1>7, FS_AddElement DEF Inv, CountExact
<1>9. MutexInv'
  BY <1>2, <1>3, NoTaskAssumption DEF Inv, MutexInv
<1>10. VerdictInv'
  BY <1>2 DEF Inv, VerdictInv, Accepts, poolVars
<1>11. ResultInv'
  BY <1>5 DEF Inv, ResultInv
<1> QED
  BY <1>1, <1>4, <1>8, <1>9, <1>10, <1>11 DEF Inv

LEMMA AnalyseStep ==
    ASSUME Inv, NEW t \in Task, Analyse(t)
    PROVE  Inv'
<1> USE DEF Analyse, inputs
<1> DEFINE verdict == IF analysis[t] = Failure THEN "raise"
                      ELSE IF Accepts(analysis[t]) THEN "result" ELSE "return"
<1>1. verdict \in Steps \ {"new", "done"}
  BY DEF Steps
<1>2. PoolInv' /\ CollectInv' /\ ParallelForType'
  BY <1>1, BodyFrame
<1>3. /\ step' \in [Task -> Steps]
      /\ \A u \in Task : step'[u] = IF u = t THEN verdict ELSE step[u]
  BY <1>1, BodyFrame
<1>4. TypeOK'
  BY <1>2, <1>3 DEF Inv, TypeOK
<1>5. Counted' = Counted
  BY <1>3 DEF Counted
<1>6. Listed' = Listed
  BY <1>3 DEF Listed, Accepts
<1>7. MutexInv'
  BY <1>3, NoTaskAssumption DEF Inv, MutexInv
<1>8. VerdictInv'
  BY <1>3 DEF Inv, VerdictInv, Accepts, poolVars
<1>9. ResultInv' /\ CountExact'
  BY <1>5, <1>6 DEF Inv, ResultInv, CountExact
<1> QED
  BY <1>2, <1>4, <1>7, <1>8, <1>9 DEF Inv

LEMMA LockResultStep ==
    ASSUME Inv, NEW t \in Task, LockResult(t)
    PROVE  Inv'
<1> USE DEF LockResult, inputs
<1>1. PoolInv' /\ CollectInv' /\ ParallelForType'
  BY BodyFrame DEF Steps
<1>2. /\ step' \in [Task -> Steps]
      /\ \A u \in Task : step'[u] = IF u = t THEN "appending" ELSE step[u]
  BY BodyFrame DEF Steps
<1>3. TypeOK'
  <2>1. Len(result) + 1 \in Nat
    BY DEF Inv, TypeOK
  <2> QED
    BY <1>1, <1>2, <2>1 DEF Inv, TypeOK
<1>4. Listed' = Listed /\ Counted' = Counted
  BY <1>2 DEF Listed, Counted, Accepts
<1>5. MutexInv'
  BY <1>2, NoTaskAssumption DEF Inv, TypeOK, MutexInv, MutexFree
<1>6. VerdictInv'
  BY <1>2 DEF Inv, VerdictInv, Accepts, poolVars
<1>7. ResultInv' /\ CountExact'
  BY <1>4 DEF Inv, ResultInv, CountExact
<1> QED
  BY <1>1, <1>3, <1>5, <1>6, <1>7 DEF Inv

\* The slot the task chose is still the first free one, so that nothing that was
\* appended before is overwritten.
LEMMA AppendResultStep ==
    ASSUME Inv, NEW t \in Task, AppendResult(t)
    PROVE  Inv'
<1> USE DEF AppendResult, Unlock, inputs
<1>1. PoolInv' /\ CollectInv' /\ ParallelForType'
  BY BodyFrame DEF Steps
<1>2. /\ step' \in [Task -> Steps]
      /\ \A u \in Task : step'[u] = IF u = t THEN "return" ELSE step[u]
  BY BodyFrame DEF Steps
<1>3. slot[t] = Len(result) + 1 /\ holder = t /\ result \in Seq(Task)
  BY DEF Inv, MutexInv, TypeOK
<1>4. result' = Append(result, t)
  <2>1. result' = [i \in 1..(Len(result) + 1) |-> IF i = Len(result) + 1 THEN t ELSE result[i]]
    BY <1>3
  <2> QED
    BY <1>3, <2>1, AppendAsFunction
<1>5. TypeOK'
  BY <1>1, <1>2, <1>3, <1>4 DEF Inv, TypeOK
<1>6. Counted' = Counted
  BY <1>2 DEF Counted
<1>7. Listed' = Listed \cup {t} /\ t \notin Listed
  BY <1>2 DEF Inv, VerdictInv, Listed, Accepts
<1>8. IsFiniteSet(Listed)
  BY TaskAssumption, FS_Subset DEF Listed
<1>9. ResultInv'
  <2>1. /\ IsInjective(result)
        /\ Range(result) = Listed
        /\ Len(result) = Cardinality(Listed)
    BY DEF Inv, ResultInv
  <2>2. IsInjective(Append(result, t))
    BY <1>3, <1>7, <2>1, AppendInjective
  <2>3. Range(Append(result, t)) = Listed \cup {t}
    BY <1>3, <2>1, AppendRange
  <2>4. Len(Append(result, t)) = Cardinality(Listed \cup {t})
    <3>1. Len(Append(result, t)) = Len(result) + 1
      BY <1>3
    <3>2. Cardinality(Listed \cup {t}) = Cardinality(Listed) + 1
      BY <1>7, <1>8, FS_AddElement
    <3> QED
      BY <2>1, <3>1, <3>2
  <2> QED
    BY <1>4, <1>7, <2>2, <2>3, <2>4 DEF ResultInv
<1>10. MutexInv'
  BY <1>2, <1>3, NoTaskAssumption DEF Inv, MutexInv
<1>11. VerdictInv'
  BY <1>2 DEF Inv, VerdictInv, Accepts, poolVars
<1>12. CountExact'
  BY <1>6 DEF Inv, CountExact
<1> QED
  BY <1>1, <1>5, <1>9, <1>10, <1>11, <1>12 DEF Inv

-------------------------------------------------------------------------------
LEMMA StepInv == Inv /\ [Next]_vars => Inv'
<1> SUFFICES ASSUME Inv, [Next]_vars PROVE Inv'
  OBVIOUS
<1>1. ASSUME NEW t \in Task, PushRegister(t) \/ SkipRegister(t) PROVE Inv'
  BY <1>1, PushStep, SkipStep
<1>2. CASE Caller
  BY <1>2, CollectStep
<1>3. ASSUME NEW w \in Worker, Work(w) PROVE Inv'
  <2>1. PICK t \in Task : Begin(w, t) \/ End(w, t) \/ Body(t)
    BY <1>3 DEF Work
  <2> QED
    BY <2>1, BeginStep, EndStep, LockCountStep, CountUpStep, AnalyseStep,
       LockResultStep, AppendResultStep DEF Body
<1>4. CASE UNCHANGED vars
  <2>1. Listed' = Listed /\ Counted' = Counted
    BY <1>4 DEF vars, inputs, taskVars, Listed, Counted, Accepts
  <2>2. (TypeOK /\ PoolInv /\ CollectInv)'
    BY <1>4 DEF vars, callerVars, poolVars, inputs, taskVars, Inv, TypeOK,
                ParallelForType, PoolInv, CollectInv
  <2>3. (MutexInv /\ VerdictInv)'
    BY <1>4 DEF vars, callerVars, poolVars, inputs, taskVars, Inv, MutexInv,
                VerdictInv, Accepts
  <2>4. (ResultInv /\ CountExact)'
    BY <1>4, <2>1 DEF vars, taskVars, Inv, ResultInv, CountExact
  <2> QED
    BY <2>2, <2>3, <2>4 DEF Inv
<1> QED
  BY <1>1, <1>2, <1>3, <1>4 DEF Next

\* The invariant holds throughout every call.
THEOREM Invariance == Spec => []Inv
<1>1. Init => Inv
  BY InitInv
<1>2. Inv /\ [Next]_vars => Inv'
  BY StepInv
<1> QED
  BY <1>1, <1>2, PTL DEF Spec

\* The progress counter of identify_fsms never loses an increment.
THEOREM Counting == Spec => []CountExact
<1>1. Inv => CountExact
  BY DEF Inv
<1> QED
  BY <1>1, Invariance, PTL

\* When the call is over every future is ready, so that every task is done; a task
\* that holds the mutex is not.
LEMMA InvNoUse == Inv => NoUseAfterReturn
<1> SUFFICES ASSUME Inv, loop \in Gone PROVE NoUseAfterReturn
  BY DEF NoUseAfterReturn
<1>1. remaining = {} /\ under = Range(futures)
  BY DEF Inv, CollectInv, PoolInv, TypeOK, Gone
<1>2. \A i \in 1..Len(futures) : outcome[futures[i]] # "pending"
  BY DEF Inv, CollectInv
<1>3. futures \in Seq(Task)
  BY DEF Inv, TypeOK, ParallelForType
<1>4. \A t \in under : step[t] = "done"
  BY <1>1, <1>2, <1>3 DEF Range, Inv, PoolInv
<1>5. \A t \in Task : step[t] # "new" => t \in under
  BY <1>1 DEF Inv, PoolInv
<1>6. holder = NoTask
  <2>1. ASSUME holder \in Task PROVE FALSE
    BY <1>4, <1>5, <2>1 DEF Inv, MutexInv
  <2> QED
    BY <2>1 DEF Inv, TypeOK
<1> QED
  BY <1>4, <1>6 DEF NoUseAfterReturn

\* No task of identify_fsms is left to use the mutex, the counter or the result
\* once the call has returned or thrown.
THEOREM NoUse == Spec => []NoUseAfterReturn
BY InvNoUse, Invariance, PTL

-------------------------------------------------------------------------------
(* The call does in the end what FsmDetectionSpec does in one step.        *)

\* When the caller has got every future, the vector lists the machines.
LEMMA ReturnListing ==
    ASSUME Inv, AllGot
    PROVE  /\ \A t \in under : analysis[t] # Failure
           /\ result \in Detection!Listings(Detection!Machines)
<1>1. /\ remaining = {} /\ under = Range(futures) /\ under \subseteq Task
      /\ next > Len(futures) /\ next \in Nat /\ futures \in Seq(Task)
  BY DEF AllGot, Inv, CollectInv, PoolInv, TypeOK, ParallelForType
<1>2. \A i \in 1..Len(futures) : outcome[futures[i]] = "value"
  BY <1>1 DEF AllGot, Inv, CollectInv
<1>3. \A t \in under : outcome[t] = "value"
  BY <1>1, <1>2 DEF Range
<1>4. \A t \in under : step[t] = "done" /\ analysis[t] # Failure
  BY <1>1, <1>3 DEF Inv, PoolInv, VerdictInv
<1>5. \A t \in Task : step[t] # "new" => t \in under
  BY <1>1 DEF Inv, PoolInv
<1>6. Listed = Detection!Machines
  BY <1>1, <1>4, <1>5 DEF Listed, Accepts, Detection!Machines, Detection!Accepts
<1>7. /\ result \in Seq(Task)
      /\ IsInjective(result)
      /\ Range(result) = Listed
      /\ Len(result) = Cardinality(Listed)
  BY DEF Inv, TypeOK, ResultInv
<1>8. result \in [1..Cardinality(Listed) -> Listed]
  <2>1. result \in [1..Len(result) -> Task]
    BY <1>7
  <2>2. \A i \in 1..Len(result) : result[i] \in Listed
    BY <1>7, <2>1 DEF Range
  <2> QED
    BY <1>7, <2>1, <2>2
<1>9. Detection!Cardinality(Listed) = Cardinality(Listed)
  BY DEF Cardinality, Detection!Cardinality
<1>10. Detection!IsInjective(result)
  BY <1>7 DEF IsInjective, Detection!IsInjective
<1>11. result \in Detection!Listings(Listed)
  BY <1>8, <1>9, <1>10 DEF Detection!Listings
<1> QED
  BY <1>4, <1>6, <1>11

LEMMA InitRefines == Init => Detection!Init
BY DEF Init, ParallelForInit, Gone, Detection!Init

LEMMA StepRefines ==
    ASSUME Inv, [Next]_vars
    PROVE  [Detection!Return \/ Detection!Throw]_Detection!vars
<1> DEFINE found == IF loop = "returned" THEN result ELSE <<>>
           ended == IF loop \in Gone THEN loop ELSE "running"
<1>1. CASE AllGot /\ UNCHANGED <<inputs, taskVars>>
  <2>1. loop = "get" /\ loop' = "returned" /\ result' = result
    BY <1>1 DEF AllGot, taskVars
  <2>2. Detection!Return
    BY <1>1, <2>1, ReturnListing DEF inputs, Gone, Detection!Return
  <2> QED
    BY <2>2
<1>2. CASE Rethrow /\ UNCHANGED <<inputs, taskVars>>
  <2>1. loop = "get" /\ loop' = "threw"
    BY <1>2 DEF Rethrow
  <2>2. next \in 1..Len(futures) /\ futures \in Seq(Task)
    BY <1>2 DEF Rethrow, Inv, TypeOK, ParallelForType
  <2>3. futures[next] \in under
    BY <2>1, <2>2 DEF Range, Inv, PoolInv
  <2>4. analysis[futures[next]] = Failure
    BY <1>2, <2>2 DEF Rethrow, Inv, VerdictInv
  <2>5. Detection!Throw
    BY <1>2, <2>1, <2>3, <2>4 DEF inputs, Gone, Detection!Throw
  <2> QED
    BY <2>5
<1>3. ASSUME /\ UNCHANGED inputs
             /\ loop = loop' \/ {loop, loop'} \cap Gone = {}
             /\ loop = "returned" => result' = result
      PROVE  UNCHANGED Detection!vars
  BY <1>3 DEF inputs, Gone, Detection!vars
<1>4. ASSUME NEW t \in Task, PushRegister(t) \/ SkipRegister(t)
      PROVE  UNCHANGED Detection!vars
  BY <1>3, <1>4 DEF PushRegister, Push, SkipRegister, Skip, taskVars
<1>5. CASE Caller
  <2>1. CASE LeaveLoop \/ Wait \/ AllWaited \/ Get
    BY <1>3, <1>5, <2>1 DEF Caller, LeaveLoop, AllPushed, Wait, AllWaited, Get, taskVars, Gone
  <2> QED
    BY <1>1, <1>2, <1>5, <2>1 DEF Caller, Collect
<1>6. ASSUME NEW w \in Worker, Work(w)
      PROVE  UNCHANGED Detection!vars
  <2>1. UNCHANGED <<inputs, loop>>
    BY <1>6 DEF Work, Begin, Take, End, Finish, Body, LockCount, CountUp, Analyse,
                LockResult, AppendResult, callerVars
  <2>2. ASSUME loop = "returned" PROVE result' = result
    <3>1. \A t \in under : step[t] = "done"
      BY <2>2, InvNoUse DEF NoUseAfterReturn, Gone
    <3>2. \A t \in Task : step[t] # "appending"
      BY <2>2, <3>1 DEF Inv, PoolInv, CollectInv
    <3> QED
      BY <1>6, <3>2 DEF Work, Begin, End, Body, LockCount, CountUp, Analyse,
                        LockResult, AppendResult
  <2> QED
    BY <1>3, <2>1, <2>2
<1>7. CASE UNCHANGED vars
  BY <1>3, <1>7 DEF vars, callerVars, taskVars
<1> QED
  BY <1>4, <1>5, <1>6, <1>7 DEF Next

\* identify_fsms returns the accepted registers, each once, or throws because the
\* analysis of one failed, whatever its threads do.
THEOREM Refinement == Spec => Implements
<1>1. Init => Detection!Init
  BY InitRefines
<1>2. Inv /\ [Next]_vars => [Detection!Return \/ Detection!Throw]_Detection!vars
  BY StepRefines
<1> QED
  BY <1>1, <1>2, Invariance, PTL DEF Spec, Implements, Detection!Spec

-------------------------------------------------------------------------------
(* The threads never wait for each other in a circle.                      *)

\* A task that was pushed waits in the queue, or has a worker that runs it, or is done.
Attended == \A t \in Range(futures) : \/ t \in queued
                                      \/ \E w \in Worker : running[w] = t
                                      \/ step[t] = "done"

LEMMA AttendedStep == Inv /\ Attended /\ [Next]_vars => Attended'
<1> SUFFICES ASSUME Inv, Attended, [Next]_vars PROVE Attended'
  OBVIOUS
<1>1. /\ running \in [Worker -> Task \cup {NoTask}] /\ step \in [Task -> Steps]
      /\ Range(futures) \subseteq Task
  BY DEF Inv, TypeOK, ParallelForType, PoolInv
<1>2. CASE UNCHANGED <<futures, queued, running, step>>
  BY <1>2 DEF Attended
<1>3. ASSUME NEW t \in Task, PushRegister(t) PROVE Attended'
  <2>1. futures' = Append(futures, t) /\ queued' = queued \cup {t} /\ UNCHANGED <<running, step>>
    BY <1>3 DEF PushRegister, Push, taskVars
  <2>2. Range(futures') = Range(futures) \cup {t}
    BY <2>1, AppendRange DEF Inv, TypeOK, ParallelForType
  <2> QED
    BY <2>1, <2>2 DEF Attended
<1>4. ASSUME NEW t \in Task, SkipRegister(t) PROVE UNCHANGED <<futures, queued, running, step>>
  BY <1>4 DEF SkipRegister, Skip, poolVars, taskVars
<1>5. Caller \/ UNCHANGED vars => UNCHANGED <<futures, queued, running, step>>
  BY DEF Caller, LeaveLoop, AllPushed, Collect, Wait, AllWaited, Get, Rethrow, AllGot,
         vars, callerVars, poolVars, taskVars
<1>6. ASSUME NEW w \in Worker, NEW t \in Task, Begin(w, t) PROVE Attended'
  <2>1. /\ \A v \in Worker : running'[v] = IF v = w THEN t ELSE running[v]
        /\ \A u \in Task : step'[u] = IF u = t THEN "count" ELSE step[u]
        /\ running[w] = NoTask /\ queued' = queued \ {t} /\ futures' = futures
    BY <1>1, <1>6 DEF Begin, Take, Goto, callerVars
  <2> QED
    BY <1>1, <2>1, NoTaskAssumption DEF Attended, Inv, PoolInv
<1>7. ASSUME NEW w \in Worker, NEW t \in Task, End(w, t) PROVE Attended'
  <2>1. /\ \A v \in Worker : running'[v] = IF v = w THEN NoTask ELSE running[v]
        /\ \A u \in Task : step'[u] = IF u = t THEN "done" ELSE step[u]
        /\ running[w] = t /\ UNCHANGED <<futures, queued>>
    BY <1>1, <1>7 DEF End, Finish, Goto, callerVars
  <2> QED
    BY <1>1, <2>1 DEF Attended
<1>8. ASSUME NEW w \in Worker, NEW t \in Task, running[w] = t, Body(t)
      PROVE  Attended'
  <2>1. /\ UNCHANGED <<futures, queued, running>>
        /\ \A u \in Task : u # t => step'[u] = step[u]
    BY <1>1, <1>8 DEF Body, LockCount, CountUp, Analyse, LockResult, AppendResult, Goto,
                      callerVars, poolVars
  <2> QED
    BY <1>1, <1>8, <2>1 DEF Attended
<1> QED
  BY <1>2, <1>3, <1>4, <1>5, <1>6, <1>7, <1>8 DEF Next, Work

\* When the caller, and when a worker, has a step to take.
CallerCan == \/ loop = "push"
             \/ loop \in {"wait", "get"} /\ (next > Len(futures) \/ outcome[futures[next]] # "pending")
WorkerCan(w) == IF running[w] = NoTask THEN queued # {}
                ELSE step[running[w]] \in {"count", "result"} => MutexFree
NeverStuck == loop \notin Gone => CallerCan \/ \E w \in Worker : WorkerCan(w)

LEMMA InvNeverStuck == ASSUME Worker # {} PROVE Inv /\ Attended => NeverStuck
<1> SUFFICES ASSUME Inv, Attended, loop \notin Gone, ~CallerCan
             PROVE  \E w \in Worker : WorkerCan(w)
  BY DEF NeverStuck
<1>1. loop \in {"wait", "get"} /\ next \in 1..Len(futures) /\ outcome[futures[next]] = "pending"
  BY DEF CallerCan, Gone, Inv, TypeOK, ParallelForType, Phase
<1>2. PICK t \in Task : t \in Range(futures) /\ outcome[t] = "pending"
  BY <1>1 DEF Inv, TypeOK, ParallelForType, Range
<1>3. CASE holder # NoTask
  <2>1. holder \in Task /\ step[holder] \in {"counting", "appending"}
    BY <1>3 DEF Inv, TypeOK, MutexInv
  <2>2. holder \in Range(futures) /\ holder \notin queued
    BY <2>1 DEF Inv, PoolInv
  <2>3. PICK v \in Worker : running[v] = holder
    BY <2>1, <2>2 DEF Attended
  <2> QED
    BY <1>3, <2>1, <2>3 DEF WorkerCan
<1>4. CASE holder = NoTask /\ t \in queued
  BY <1>4 DEF WorkerCan, MutexFree
<1>5. CASE holder = NoTask /\ t \notin queued
  <2>1. step[t] # "done"
    BY <1>2 DEF Inv, PoolInv
  <2>2. PICK w \in Worker : running[w] = t
    BY <1>2, <1>5, <2>1 DEF Attended
  <2> QED
    BY <1>5, <2>2, NoTaskAssumption DEF WorkerCan, MutexFree
<1> QED
  BY <1>3, <1>4, <1>5

\* identify_fsms does not hang, as long as there is a thread in the pool: until it is over
\* the caller can go on or a worker can, since what the caller waits for is queued or
\* run, and whoever holds the mutex is run and waits for nothing.
THEOREM NoDeadlock == ASSUME Worker # {} PROVE Spec => []NeverStuck
<1>1. Init => Attended
  BY DEF Init, ParallelForInit, Attended, Range
<1>2. Spec => []Attended
  BY <1>1, AttendedStep, Invariance, PTL DEF Spec
<1>3. Inv /\ Attended => NeverStuck
  BY InvNeverStuck
<1> QED
  BY <1>2, <1>3, Invariance, PTL
===============================================================================
