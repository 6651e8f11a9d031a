------------------------------- MODULE GroupFsms -------------------------------
(***************************************************************************)
(* Graph::group_fsms (src/graph.cc:672): for every ordered pair of state   *)
(* machines a task decides whether the first is coupled with the second;   *)
(* the caller collects the pairs in the order it pushed them.              *)
(*                                                                         *)
(* The tasks share the progress counter and its mutex only; what a task    *)
(* finds is in its future.  Unlike identify_fsms the caller gets at once,  *)
(* without a loop of wait() before.                                        *)
(***************************************************************************)
EXTENDS ParallelFor, Reachability, FiniteSets

CONSTANT
    Machines        \* the state variables of the machines found

ASSUME MachinesAssumption ==
    /\ Machines \subseteq Node
    /\ Task = {p \in Machines \X Machines : p[1] # p[2]}

VARIABLES
    succ,           \* the graph
    fastMode,       \* the argument fast_mode, true in the detector
    step,           \* where each task is
    holder,         \* the task that holds the mutex
    count, seen,    \* the progress counter, and what each task read of it
    coupled,        \* what each task returned: its pair is in or not
    result          \* the pairs put into the map

inputs == <<succ, fastMode>>
taskVars == <<step, holder, count, seen, coupled>>
vars == <<callerVars, poolVars, inputs, taskVars, result>>

-------------------------------------------------------------------------------
(* Slips that are easy to make in this code, kept to show that the         *)
(* properties below notice them.                                           *)
Backwards(from, to) == succ[to] # {} /\ from \in ReachableFrom(succ, {to})
KeepMutex == holder' = holder
ReturnOneShort == /\ loop = "get"
                  /\ next >= Len(futures)
                  /\ loop' = "returned"
                  /\ UNCHANGED <<remaining, futures, next, poolVars, inputs, taskVars, result>>
-------------------------------------------------------------------------------
Init == /\ ParallelForInit
        /\ succ \in Graph
        /\ fastMode \in BOOLEAN
        /\ step = [t \in Task |-> "new"]
        /\ holder = NoTask
        /\ count = 0
        /\ seen = [t \in Task |-> 0]
        /\ coupled = {}
        /\ result = {}

\* Graph::reachable, a breadth first search: its edge case, then the target among
\* the nodes it visits, the origin included.
Reachable(from, to) == succ[from] # {} /\ to \in ReachableFrom(succ, {from})

\* coupled_fsms.  Without fast mode what reachable_control_loop returns is dropped
\* and "coupled" stays false.
Coupled(from, to) == fastMode /\ Reachable(from, to)

MutexFree == holder = NoTask

Unlock == holder' = NoTask

Goto(t, there) == step' = [step EXCEPT ![t] = there]

PushPair(t) == Push(t) /\ UNCHANGED <<inputs, taskVars, result>>

LeaveLoop == AllPushed("get") /\ UNCHANGED <<inputs, taskVars, result>>

\* result[f].emplace(t), unless the future holds null pointers.
GetPair == /\ Get
           /\ result' = result \cup ({futures[next]} \cap coupled)
           /\ UNCHANGED <<inputs, taskVars>>

Return == AllGot /\ UNCHANGED <<inputs, taskVars, result>>

Begin(w, t) == /\ Take(w, t)
               /\ Goto(t, "count")
               /\ UNCHANGED <<inputs, holder, count, seen, coupled, result>>

LockCount(t) == /\ step[t] = "count"
                /\ MutexFree
                /\ holder' = t
                /\ seen' = [seen EXCEPT ![t] = count]
                /\ Goto(t, "counting")
                /\ UNCHANGED <<callerVars, poolVars, inputs, count, coupled, result>>

CountUp(t) == /\ step[t] = "counting"
              /\ count' = seen[t] + 1
              /\ Unlock
              /\ Goto(t, "decide")
              /\ UNCHANGED <<callerVars, poolVars, inputs, seen, coupled, result>>

Decide(t) == /\ step[t] = "decide"
             /\ coupled' = IF Coupled(t[1], t[2]) THEN coupled \cup {t} ELSE coupled
             /\ Goto(t, "return")
             /\ UNCHANGED <<callerVars, poolVars, inputs, holder, count, seen, result>>

End(w, t) == /\ running[w] = t
             /\ step[t] = "return"
             /\ Finish(w, "value")
             /\ Goto(t, "done")
             /\ UNCHANGED <<inputs, holder, count, seen, coupled, result>>

Caller == (\E t \in Task : PushPair(t)) \/ LeaveLoop \/ GetPair \/ Return

Work(w) == \E t \in Task : \/ Begin(w, t)
                           \/ running[w] = t /\ (LockCount(t) \/ CountUp(t) \/ Decide(t))
                           \/ End(w, t)

Next == Caller \/ \E w \in Worker : Work(w)

Spec == Init /\ [][Next]_vars

\* The caller and every worker are threads of their own, and a task locks the
\* mutex once.
FairSpec == Spec /\ WF_vars(Caller) /\ \A w \in Worker : WF_vars(Work(w))

-------------------------------------------------------------------------------
TypeOK == /\ ParallelForType
          /\ succ \in Graph
          /\ fastMode \in BOOLEAN
          /\ step \in [Task -> {"new", "count", "counting", "decide", "return", "done"}]
          /\ holder \in Task \cup {NoTask}
          /\ count \in Nat
          /\ seen \in [Task -> Nat]
          /\ coupled \subseteq Task
          /\ result \subseteq Task

\* In the detector's mode the map holds the pairs with a path between them, all of
\* them and no other, and every pair was counted once, although each was decided by
\* a thread of its own.
GroupsExact ==
    loop = "returned" =>
        /\ count = Cardinality(Task)
        /\ fastMode => result = {t \in Task : t[2] \in After(succ, t[1])}

\* The tasks use a mutex and a counter of the caller's frame: none is left when the
\* frame is gone, although the caller never waits for all of them first.
NoUseAfterReturn == loop \in Gone => \A t \in Task : step[t] = "done"

Terminates == <>(loop \in Gone)
===============================================================================
