------------------------------ MODULE ParallelFor ------------------------------
(***************************************************************************)
(* The loop that identify_fsms, group_fsms (src/graph.cc) and              *)
(* create_properties (src/codegen.cc) share: push one task per item into a *)
(* thread pool, keep the futures in a vector, then collect them in order.  *)
(*                                                                         *)
(* The pool is cxxpool, which is not part of the sources: from its use it  *)
(* owes the loop that a pushed task is run once, by one of num_cpus        *)
(* workers, and that its future becomes ready when the task has returned   *)
(* or thrown.  Which queued task a worker takes is left open.              *)
(*                                                                         *)
(* What the tasks do is added by the modules that extend this one.  The    *)
(* locals that a task captures by reference (mutex, counters, result) live *)
(* until the loop has "returned" or "threw".                               *)
(***************************************************************************)
EXTENDS Naturals, Sequences, Functions

CONSTANTS
    Task,           \* the items of the loop, one task each
    Worker,         \* the threads of the pool
    NoTask          \* an idle worker, a free mutex

ASSUME NoTaskAssumption == NoTask \notin Task

VARIABLES
    remaining,      \* the items the loop has not come to
    futures,        \* the vector "tasks", one future per task pushed
    loop,           \* where the calling thread is
    next,           \* the future that it waits for or gets next
    queued,         \* the tasks no worker has taken
    running,        \* the task of each worker
    outcome         \* the shared state of each future

callerVars == <<remaining, futures, loop, next>>
poolVars == <<queued, running, outcome>>

Gone == {"returned", "threw"}
Phase == {"push", "wait", "get"} \cup Gone

ParallelForType ==
    /\ remaining \subseteq Task
    /\ futures \in Seq(Task)
    /\ loop \in Phase
    /\ next \in Nat \ {0}
    /\ queued \subseteq Task
    /\ running \in [Worker -> Task \cup {NoTask}]
    /\ outcome \in [Task -> {"pending", "value", "exception"}]

ParallelForInit ==
    /\ remaining = Task
    /\ futures = <<>>
    /\ loop = "push"
    /\ next = 1
    /\ queued = {}
    /\ running = [w \in Worker |-> NoTask]
    /\ outcome = [t \in Task |-> "pending"]

-------------------------------------------------------------------------------
(* The calling thread.                                                     *)

Push(t) == /\ loop = "push"
           /\ t \in remaining
           /\ remaining' = remaining \ {t}
           /\ futures' = Append(futures, t)
           /\ queued' = queued \cup {t}
           /\ UNCHANGED <<loop, next, running, outcome>>

\* An item the loop passes over.
Skip(t) == /\ loop = "push"
           /\ t \in remaining
           /\ remaining' = remaining \ {t}
           /\ UNCHANGED <<futures, loop, next, poolVars>>

\* The loop is over; phase says whether a loop of wait() comes before the loop of
\* get(), as it does in identify_fsms and create_properties.
AllPushed(phase) == /\ loop = "push"
                    /\ remaining = {}
                    /\ loop' = phase
                    /\ UNCHANGED <<remaining, futures, next, poolVars>>

Wait == /\ loop = "wait"
        /\ next <= Len(futures)
        /\ outcome[futures[next]] # "pending"
        /\ next' = next + 1
        /\ UNCHANGED <<remaining, futures, loop, poolVars>>

AllWaited == /\ loop = "wait"
             /\ next > Len(futures)
             /\ loop' = "get"
             /\ next' = 1
             /\ UNCHANGED <<remaining, futures, poolVars>>

Get == /\ loop = "get"
       /\ next <= Len(futures)
       /\ outcome[futures[next]] = "value"
       /\ next' = next + 1
       /\ UNCHANGED <<remaining, futures, loop, poolVars>>

\* get() rethrows what the task threw, and the loop's locals are destroyed.
Rethrow == /\ loop = "get"
           /\ next <= Len(futures)
           /\ outcome[futures[next]] = "exception"
           /\ loop' = "threw"
           /\ UNCHANGED <<remaining, futures, next, poolVars>>

AllGot == /\ loop = "get"
          /\ next > Len(futures)
          /\ loop' = "returned"
          /\ UNCHANGED <<remaining, futures, next, poolVars>>

Collect == Wait \/ AllWaited \/ Get \/ Rethrow \/ AllGot

-------------------------------------------------------------------------------
(* The pool.                                                               *)

Take(w, t) == /\ running[w] = NoTask
              /\ t \in queued
              /\ queued' = queued \ {t}
              /\ running' = [running EXCEPT ![w] = t]
              /\ UNCHANGED <<callerVars, outcome>>

Finish(w, how) == /\ running[w] # NoTask
                  /\ running' = [running EXCEPT ![w] = NoTask]
                  /\ outcome' = [outcome EXCEPT ![running[w]] = how]
                  /\ UNCHANGED <<callerVars, queued>>
===============================================================================
