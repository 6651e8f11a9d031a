------------------------------ MODULE PropertyGen ------------------------------
(***************************************************************************)
(* VerilogModule::create_properties (src/codegen.cc:143): one task per     *)
(* state machine writes its properties into one map, under ids drawn from  *)
(* one counter; mutex, counters and map belong to the caller.              *)
(*                                                                         *)
(* As in FsmDetection, locking and the read after it are one step, and so  *)
(* are the write and unlocking.                                            *)
(***************************************************************************)
EXTENDS ParallelFor, FiniteSets

CONSTANTS
    Constant,       \* the constant nodes of the graph
    Value,          \* the values they may have
    NoState         \* the second state of a property about one state

ASSUME NoStateAssumption == NoState \notin Constant

\* The graph is in memory: its nodes can be counted.
ASSUME FiniteAssumption == IsFiniteSet(Task) /\ IsFiniteSet(Constant)

VARIABLES
    value,          \* Node::value of each constant node
    isCounter,      \* FSMResult::is_counter of each machine
    states,         \* unique_states of each machine, counter_values of a counter
    arcs,           \* syntax_arc of each machine
    step,           \* where each task is
    holder,         \* the task that holds the mutex
    count, seen,    \* the progress counter, and what each task read of it
    idCount, id,    \* the next free id, and the one each task took
    left,           \* the properties each task has yet to write
    properties      \* properties_: a function on the ids in use

inputs == <<value, isCounter, states, arcs>>
taskVars == <<step, holder, count, seen, idCount, id, left, properties>>
vars == <<callerVars, poolVars, inputs, taskVars>>

-------------------------------------------------------------------------------
(* Slips that are easy to make in this code, kept to show that the         *)
(* properties below notice them.                                           *)
NoMutex == TRUE
KeepMutex == holder' = holder
SameNode(arc, from, to) == arc = <<from, to>>
-------------------------------------------------------------------------------
\* The constants of one machine differ in their values: unique_states keeps one
\* node per value.  Only a counter may have none of them.  An arc may be between any two
\* constants of the graph: it starts at one that the register is compared with, which
\* need not have the value of a state, and merging brings in the arcs of another machine.
Machine(f) == /\ \A m, n \in states[f] : value[m] = value[n] => m = n
              /\ states[f] = {} => isCounter[f]

\* The properties a machine gets, without the mark of an expected one.
Singles(f) == {[var1 |-> f, state1 |-> n, var2 |-> NoTask, state2 |-> NoState] : n \in states[f]}
Transitions(f) == {[var1 |-> f, state1 |-> m, var2 |-> f, state2 |-> n] : m \in states[f], n \in states[f]}
Wanted(f) == IF isCounter[f] THEN Singles(f) ELSE Singles(f) \cup Transitions(f)

Init == /\ ParallelForInit
        /\ value \in [Constant -> Value]
        /\ isCounter \in [Task -> BOOLEAN]
        /\ states \in [Task -> SUBSET Constant]
        /\ arcs \in [Task -> SUBSET (Constant \X Constant)]
        /\ \A f \in Task : Machine(f)
        /\ step = [f \in Task |-> "new"]
        /\ holder = NoTask
        /\ count = 0
        /\ seen = [f \in Task |-> 0]
        /\ idCount = 0
        /\ id = [f \in Task |-> 0]
        /\ left = [f \in Task |-> Wanted(f)]
        /\ properties = <<>>

Goto(f, there) == step' = [step EXCEPT ![f] = there]

MutexFree == holder = NoTask

Unlock == holder' = NoTask

PushFsm(f) == Push(f) /\ UNCHANGED <<inputs, taskVars>>

LeaveLoop == AllPushed("wait")

Caller == /\ (\E f \in Task : PushFsm(f)) \/ ((LeaveLoop \/ Collect) /\ UNCHANGED <<inputs, taskVars>>)

Begin(w, f) == /\ Take(w, f)
               /\ Goto(f, "count")
               /\ UNCHANGED <<inputs, holder, count, seen, idCount, id, left, properties>>

LockCount(f) == /\ step[f] = "count"
                /\ MutexFree
                /\ holder' = f
                /\ seen' = [seen EXCEPT ![f] = count]
                /\ Goto(f, "counting")
                /\ UNCHANGED <<callerVars, poolVars, inputs, count, idCount, id, left, properties>>

CountUp(f) == /\ step[f] = "counting"
              /\ count' = seen[f] + 1
              /\ Unlock
              /\ Goto(f, "loop")
              /\ UNCHANGED <<callerVars, poolVars, inputs, seen, idCount, id, left, properties>>

\* The next property of the machine: single states before transitions, otherwise
\* in the fixed order of the loops.
NextWanted(f) == IF left[f] \cap Singles(f) # {}
                 THEN CHOOSE p \in left[f] : p \in Singles(f)
                 ELSE CHOOSE p \in left[f] : TRUE

\* mutex.lock(); the id is id_count++ ...
LockId(f) == /\ step[f] = "loop"
             /\ left[f] # {}
             /\ MutexFree
             /\ holder' = f
             /\ id' = [id EXCEPT ![f] = idCount]
             /\ Goto(f, "emplacing")
             /\ UNCHANGED <<callerVars, poolVars, inputs, count, seen, idCount, left, properties>>

\* Arcs are compared by the values of their ends.
SameArc(arc, from, to) == value[arc[1]] = value[from] /\ value[arc[2]] = value[to]

\* A state of a machine that is no counter is expected to be reached, and so is a
\* transition that was read off the source; what is said of a counter is not.
ShouldBeValid(p) ==
    /\ ~isCounter[p.var1]
    /\ p.state2 = NoState \/ \E a \in arcs[p.var1] : SameArc(a, p.state1, p.state2)

Marked(p) == [var1 |-> p.var1, state1 |-> p.state1, var2 |-> p.var2, state2 |-> p.state2,
              shouldBeValid |-> ShouldBeValid(p), delay |-> IF p.var2 = NoTask THEN 0 ELSE 1]

\* std::map::emplace leaves an entry that is there as it is.
Emplaced(map, key, p) == [i \in DOMAIN map \cup {key} |-> IF i \in DOMAIN map THEN map[i] ELSE p]

NextId(f) == id[f] + 1

\* ... and the property is entered under it; mutex.unlock().
Emplace(f) == /\ step[f] = "emplacing"
              /\ idCount' = NextId(f)
              /\ properties' = Emplaced(properties, id[f], Marked(NextWanted(f)))
              /\ left' = [left EXCEPT ![f] = @ \ {NextWanted(f)}]
              /\ Unlock
              /\ Goto(f, "loop")
              /\ UNCHANGED <<callerVars, poolVars, inputs, count, seen, id>>

\* The lambda is left; a counter that is compared with nothing gets no property.
End(w, f) == /\ running[w] = f
             /\ step[f] = "loop"
             /\ left[f] = {}
             /\ Finish(w, "value")
             /\ Goto(f, "done")
             /\ UNCHANGED <<inputs, holder, count, seen, idCount, id, left, properties>>

Body(f) == LockCount(f) \/ CountUp(f) \/ LockId(f) \/ Emplace(f)

Work(w) == \E f \in Task : Begin(w, f) \/ (running[w] = f /\ Body(f)) \/ End(w, f)

Next == Caller \/ \E w \in Worker : Work(w)

Spec == Init /\ [][Next]_vars

-------------------------------------------------------------------------------
AllWanted == UNION {Wanted(f) : f \in Task}

\* The properties about one machine; add_cross_properties adds those about two.
Own == {i \in DOMAIN properties : properties[i].var2 \in {NoTask, properties[i].var1}}

Key(p) == [var1 |-> p.var1, state1 |-> p.state1, var2 |-> p.var2, state2 |-> p.state2]

TypeOK == /\ ParallelForType
          /\ isCounter \in [Task -> BOOLEAN]
          /\ states \in [Task -> SUBSET Constant]
          /\ arcs \in [Task -> SUBSET (Constant \X Constant)]
          /\ step \in [Task -> {"new", "count", "counting", "loop", "emplacing", "done"}]
          /\ holder \in Task \cup {NoTask}
          /\ count \in Nat /\ idCount \in Nat
          /\ seen \in [Task -> Nat] /\ id \in [Task -> Nat]
          /\ left \in [Task -> SUBSET AllWanted]
          /\ \A f \in Task : left[f] \subseteq Wanted(f)

\* An id is the name of a property in the log of the prover.  When the call has returned
\* the ids are dense, and every property is there under one of them and only one: none
\* was lost to an entry that was there before.
Complete ==
    loop = "returned" =>
        /\ Own = 0..(idCount - 1)
        /\ {Key(properties[i]) : i \in Own} = AllWanted
        /\ idCount = Cardinality(AllWanted)

\* A transition from one state of a machine to another is expected exactly when an arc
\* read off the source has their values, although arcs and states may name different
\* nodes, and the map is written by many tasks.  An arc with an end that has the value of
\* no state gets no property at all (codegen.cc:192-205 goes through the states).
ArcsExpected ==
    loop = "returned" =>
        \A f \in Task : ~isCounter[f] =>
            \A m, n \in states[f] :
                (\E a \in arcs[f] : value[a[1]] = value[m] /\ value[a[2]] = value[n])
                <=> \E i \in DOMAIN properties :
                       /\ Key(properties[i]) = [var1 |-> f, state1 |-> m, var2 |-> f, state2 |-> n]
                       /\ properties[i].shouldBeValid
===============================================================================
