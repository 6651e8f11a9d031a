----------------------------- MODULE FsmDetection -----------------------------
(***************************************************************************)
(* Graph::identify_fsms (src/graph.cc:579): every register is analysed by  *)
(* a task of its own; the tasks share a progress counter and the result    *)
(* vector, both guarded by one mutex, all three locals of the caller.      *)
(*                                                                         *)
(* mutex.lock() and the read that follows it are one step, and so are the  *)
(* write and mutex.unlock(): the thread that holds the mutex commutes with *)
(* every other up to there.  The read and the write stay apart, so that an *)
(* update could be lost.  The analysis itself only reads the graph; what   *)
(* it comes to is chosen in the initial state.                             *)
(***************************************************************************)
EXTENDS ParallelFor, FiniteSets

CONSTANTS
    Analyses,       \* what the analysis of a register can come to
    Failure         \* the analysis that ends in a failed assertion

ASSUME TaskAssumption == IsFiniteSet(Task)

VARIABLES
    under,          \* the registers below top, all of them when top is null
    analysis,       \* what the analysis of each register comes to
    step,           \* where each task is
    holder,         \* the task that holds the mutex
    count, seen,    \* the progress counter, and what each task read of it
    result, slot    \* the result vector, and where each task will append

inputs == <<under, analysis>>
taskVars == <<step, holder, count, seen, result, slot>>
vars == <<callerVars, poolVars, inputs, taskVars>>

Steps == {"new", "count", "counting", "analyse", "result", "appending",
          "return", "raise", "done"}

-------------------------------------------------------------------------------
(* Slips that are easy to make in this code, kept to show that the         *)
(* properties below notice them.                                           *)
NoMutex == TRUE
GetAtOnce == AllPushed("get")
KeepMutex == holder' = holder

-------------------------------------------------------------------------------
Init == /\ ParallelForInit
        /\ under \in SUBSET Task
        /\ analysis \in [Task -> Analyses]
        /\ step = [t \in Task |-> "new"]
        /\ holder = NoTask
        /\ count = 0
        /\ seen = [t \in Task |-> 0]
        /\ result = <<>>
        /\ slot = [t \in Task |-> 0]

Goto(t, there) == step' = [step EXCEPT ![t] = there]

MutexFree == holder = NoTask

Unlock == holder' = NoTask

\* The calling thread: for (auto reg : registers), then wait and get.
PushRegister(t) == t \in under /\ Push(t) /\ UNCHANGED <<inputs, taskVars>>

SkipRegister(t) == t \notin under /\ Skip(t) /\ UNCHANGED <<inputs, taskVars>>

LeaveLoop == AllPushed("wait")

Caller == /\ \/ LeaveLoop
             \/ Collect
          /\ UNCHANGED <<inputs, taskVars>>

\* A worker calls the lambda of task t.
Begin(w, t) == /\ Take(w, t)
               /\ Goto(t, "count")
               /\ UNCHANGED <<inputs, holder, count, seen, result, slot>>

\* mutex.lock(); count++ reads the counter ...
LockCount(t) == /\ step[t] = "count"
                /\ MutexFree
                /\ holder' = t
                /\ seen' = [seen EXCEPT ![t] = count]
                /\ Goto(t, "counting")
                /\ UNCHANGED <<callerVars, poolVars, inputs, count, result, slot>>

\* ... and writes it, for the progress bar to show; mutex.unlock().
CountUp(t) == /\ step[t] = "counting"
              /\ count' = seen[t] + 1
              /\ Unlock
              /\ Goto(t, "analyse")
              /\ UNCHANGED <<callerVars, poolVars, inputs, seen, result, slot>>

\* More than one constant drives it, it feeds back through a control node, and it
\* counts or takes at least two values.
Accepts(a) == /\ a.sources > 1
              /\ a.controlLoop
              /\ a.counter \/ a.states >= 2

\* get_constant_source, has_control_loop, is_counter and unique_states, with the
\* early return when one of them rules the register out.
Analyse(t) == /\ step[t] = "analyse"
              /\ Goto(t, IF analysis[t] = Failure THEN "raise"
                         ELSE IF Accepts(analysis[t]) THEN "result" ELSE "return")
              /\ UNCHANGED <<callerVars, poolVars, inputs, holder, count, seen, result, slot>>

\* mutex.lock(); result.emplace_back(fsm) finds the end of the vector ...
LockResult(t) == /\ step[t] = "result"
                 /\ MutexFree
                 /\ holder' = t
                 /\ slot' = [slot EXCEPT ![t] = Len(result) + 1]
                 /\ Goto(t, "appending")
                 /\ UNCHANGED <<callerVars, poolVars, inputs, count, seen, result>>

\* ... and puts the machine there; mutex.unlock().
AppendResult(t) == /\ step[t] = "appending"
                   /\ result' = [i \in 1..slot[t] |-> IF i = slot[t] THEN t ELSE result[i]]
                   /\ Unlock
                   /\ Goto(t, "return")
                   /\ UNCHANGED <<callerVars, poolVars, inputs, count, seen, slot>>

\* The lambda is left and the future becomes ready.
End(w, t) == /\ running[w] = t
             /\ \/ step[t] = "return" /\ Finish(w, "value")
                \/ step[t] = "raise" /\ Finish(w, "exception")
             /\ Goto(t, "done")
             /\ UNCHANGED <<inputs, holder, count, seen, result, slot>>

Body(t) == \/ LockCount(t) \/ CountUp(t) \/ Analyse(t)
           \/ LockResult(t) \/ AppendResult(t)

Work(w) == \E t \in Task : Begin(w, t) \/ End(w, t) \/ (running[w] = t /\ Body(t))

Next == \/ \E t \in Task : PushRegister(t) \/ SkipRegister(t)
        \/ Caller
        \/ \E w \in Worker : Work(w)

Spec == Init /\ [][Next]_vars

\* The caller and every worker are threads of their own: each goes on as long as
\* it can.  A task locks the mutex twice at most, so that nobody is kept from it
\* for ever, and weak fairness is enough.
CallerStep == (\E t \in Task : PushRegister(t) \/ SkipRegister(t)) \/ Caller

FairSpec == /\ Spec
            /\ WF_vars(CallerStep)
            /\ \A w \in Worker : WF_vars(Work(w))

-------------------------------------------------------------------------------
TypeOK == /\ ParallelForType
          /\ under \subseteq Task
          /\ analysis \in [Task -> Analyses]
          /\ step \in [Task -> Steps]
          /\ holder \in Task \cup {NoTask}
          /\ count \in Nat
          /\ seen \in [Task -> Nat]
          /\ result \in Seq(Task)
          /\ slot \in [Task -> Nat]

\* The promise, kept as if there were no threads: the accepted registers, each
\* once, or the exception of a failed analysis.
Detection == INSTANCE FsmDetectionSpec
    WITH found   <- IF loop = "returned" THEN result ELSE <<>>,
         outcome <- IF loop \in Gone THEN loop ELSE "running"

Implements == Detection!Spec

\* The progress bar is told every register exactly once: the counter is the
\* number of tasks that are past it, and no increment is lost.
Counted == {t \in Task : step[t] \notin {"new", "count", "counting"}}

CountExact == count = Cardinality(Counted)

\* Once the call is over, by return or by exception, no task is left that could
\* still use the locals of the call it captured by reference.
NoUseAfterReturn ==
    loop \in Gone => /\ \A t \in under : step[t] = "done"
                     /\ holder = NoTask

\* The call ends: no thread waits for the mutex or for a future for ever.
Terminates == <>(loop \in Gone)
-------------------------------------------------------------------------------
(* The inductive invariant behind NoUseAfterReturn, CountExact and          *)
(* Implements.                                                              *)

\* A future per register the loop has come to; a task is queued, then run by one
\* worker, then done, and its future is ready exactly when it is done.
PoolInv == /\ Range(futures) = under \ remaining
           /\ queued \subseteq Range(futures)
           /\ \A t \in queued : step[t] = "new"
           /\ \A t \in Task : step[t] # "new" => t \in Range(futures)
           /\ \A w \in Worker : running[w] # NoTask => step[running[w]] \notin {"new", "done"}
           /\ \A v, w \in Worker : running[v] = running[w] /\ running[v] # NoTask => v = w
           /\ \A t \in Task : outcome[t] = "pending" <=> step[t] # "done"

\* How far the caller has come with its futures.
CollectInv == /\ loop # "push" => remaining = {}
              /\ loop = "push" => next = 1
              /\ loop = "wait" =>
                    \A i \in 1..Len(futures) : i < next => outcome[futures[i]] # "pending"
              /\ loop \in {"get"} \cup Gone =>
                    \A i \in 1..Len(futures) : outcome[futures[i]] # "pending"
              /\ loop = "get" =>
                    \A i \in 1..Len(futures) : i < next => outcome[futures[i]] = "value"
              /\ loop = "returned" =>
                    \A i \in 1..Len(futures) : outcome[futures[i]] = "value"
              /\ loop = "threw" =>
                    \E i \in 1..Len(futures) : outcome[futures[i]] = "exception"

\* Whoever is between a read and a write holds the mutex, and what it has read is
\* still so.
MutexInv == /\ \A t \in Task : holder = t <=> step[t] \in {"counting", "appending"}
            /\ \A t \in Task : step[t] = "counting" => seen[t] = count
            /\ \A t \in Task : step[t] = "appending" => slot[t] = Len(result) + 1

\* What is known of the analysis of a task from where it is.
VerdictInv == \A t \in Task :
    /\ step[t] \in {"result", "appending"} => analysis[t] # Failure /\ Accepts(analysis[t])
    /\ step[t] = "raise" => analysis[t] = Failure
    /\ step[t] = "return" => analysis[t] # Failure
    /\ outcome[t] = "value" => analysis[t] # Failure
    /\ outcome[t] = "exception" => analysis[t] = Failure

\* The result vector so far.
Listed == {t \in Task : /\ step[t] \in {"return", "done"}
                        /\ analysis[t] # Failure
                        /\ Accepts(analysis[t])}

ResultInv == /\ IsInjective(result)
             /\ Range(result) = Listed
             /\ Len(result) = Cardinality(Listed)

Inv == /\ TypeOK
       /\ PoolInv
       /\ CollectInv
       /\ MutexInv
       /\ VerdictInv
       /\ ResultInv
       /\ CountExact
===============================================================================
