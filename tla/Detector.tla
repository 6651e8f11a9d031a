-------------------------------- MODULE Detector --------------------------------
(***************************************************************************)
(* One run of the detector (tools/detector.cc:243), from its options to    *)
(* the script of the prover: finding slang, the number of threads, the     *)
(* sources, the top module (the constructor of VerilogModule,              *)
(* src/codegen.cc:85), the machines below it, the pins (PinAnalysis), and  *)
(* the wrapper (VerilogModule::str) that the script is run on.  Each stage *)
(* may end the run with an exception.                                      *)
(*                                                                         *)
(* What is in a stage is modelled elsewhere: Extraction has the parsing    *)
(* and the detection, DetectorRuns the two programs that are run, Report   *)
(* what is printed.                                                        *)
(***************************************************************************)
EXTENDS PinAnalysis, FiniteSetsExt

CONSTANTS
    Designs,        \* the designs: records of functions on their module nodes
    NoNode,         \* the parent of a node that has none, and no top
    NoDefinition,   \* a module node without module_def
    TopNames,       \* what may be given to --top
    NoTop,          \* --top is not given
    Cores           \* numbers of threads, 0 among them

ASSUME DesignsAssumption ==
    \A d \in Designs : LET nodes == DOMAIN d.name
                      IN  /\ IsFiniteSet(nodes) /\ NoNode \notin nodes
                          /\ d.ports \in [nodes -> SUBSET Name]
                          /\ d.registers \subseteq nodes
                          /\ d.machines \subseteq d.registers /\ d.counters \subseteq d.machines
                          /\ d.emptyCounters \subseteq d.counters
                          /\ d.branching \subseteq d.machines \ d.counters
                          /\ d.endless \subseteq d.machines

ASSUME OptionsAssumption == /\ NoDefinition \notin TopNames /\ NoTop \notin TopNames
                            /\ Cores \subseteq Nat

VARIABLES
    design,         \* the design in the sources
    options,        \* --top, -n, -m and the kind of the -i files
    env,            \* what is installed, and whether the sources, or the JSON, parse
    slang,          \* the SLANG variable after detect_slang, then what get_slang returns
    workers,        \* _num_cpu
    root,           \* root_module_
    fsms,           \* the machines; each is named after the module node it is in
    wrapper         \* fsm_wrapper.sv: the module it instantiates, its ports, its clock

given == <<design, options, env, sinks, userClock, userReset, userType, formal>>
pins == <<clockName, resetName, resetType, warned, script>>
stages == <<slang, workers, root, fsms, wrapper>>
allVars == <<pc, ports, given, pins, stages>>

-------------------------------------------------------------------------------
(* Slips that are easy to make in this code, kept to show that the         *)
(* properties below notice them.                                           *)
AnyCandidate(n) == TRUE
AlwaysWraps == TRUE
-------------------------------------------------------------------------------
Nodes == DOMAIN design.name

NoWrapper == [dut |-> NoDefinition, ports |-> {}, clock |-> NoName]

Init == /\ PinInit
        /\ design \in Designs
        /\ options \in [top : TopNames \cup {NoTop}, cpus : {{}} \cup {{n} : n \in Cores},
                       source : {"json", "files", "list", "list of missing files"},
                       merge : BOOLEAN]
        /\ env \in [slang : {"unset", "empty", "set"}, beside : BOOLEAN, inCwd : BOOLEAN,
                   onPath : {"none", "slang", "slang-driver"}, hardware : Cores,
                   jasper : BOOLEAN, parses : BOOLEAN]
        /\ ports = {}
        /\ pc = "start"
        /\ slang = env.slang
        /\ workers = 0
        /\ root = NoNode
        /\ fsms = {}
        /\ wrapper = NoWrapper

-------------------------------------------------------------------------------
(* Before the design is parsed.                                            *)

\* detect_slang: setenv does not replace a variable that is there, empty or not.
DetectSlang == /\ At("start", "threads")
               /\ slang' = CASE slang # "unset" -> slang
                             [] env.beside -> "beside"
                             [] env.inCwd -> "in cwd"
                             [] OTHER -> slang
               /\ UNCHANGED <<ports, given, pins, workers, root, fsms, wrapper>>

HalfTheCores(n) == Max({1, n \div 2})

\* set_num_cpus, and get_num_cpus when it was not called.
SetThreads == /\ At("threads", "sources")
              /\ workers' = CASE options.cpus = {} -> HalfTheCores(env.hardware)
                              [] options.cpus = {0} -> env.hardware
                              [] OTHER -> Max(options.cpus)
              /\ UNCHANGED <<ports, given, pins, slang, root, fsms, wrapper>>

\* One file that ends in .json has been made by slang before; the parser throws when it
\* is not there or is no JSON.
ReadJson == /\ At("sources", IF env.parses THEN "top" ELSE "failed")
            /\ options.source = "json"
            /\ UNCHANGED <<ports, given, pins, stages>>

\* SourceManager: a file list is replaced by its lines, each of which has to exist.
ReadList == /\ At("sources", "failed")
            /\ options.source = "list of missing files"
            /\ UNCHANGED <<ports, given, pins, stages>>

\* get_slang: an empty variable counts as none.
FoundSlang == IF slang \in {"unset", "empty"} THEN env.onPath ELSE slang

\* parse_verilog.
RunSlang == /\ At("sources", IF FoundSlang # "none" /\ env.parses THEN "top" ELSE "failed")
            /\ options.source \in {"files", "list"}
            /\ slang' = FoundSlang
            /\ UNCHANGED <<ports, given, pins, workers, root, fsms, wrapper>>

-------------------------------------------------------------------------------
(* The constructor of VerilogModule.                                       *)

IsAsked(n) == options.top \in {design.name[n], design.definition[n]} \ {NoTop}

Candidates == {n \in Nodes : design.parent[n] = NoNode \/ IsAsked(n)}

IsDefined(n) == design.definition[n] # NoDefinition

\* Candidates are kept under the name of their definition, or their own if they have
\* none; of two without a definition, the first is kept.
KeyOf(n) == IF IsDefined(n) THEN design.definition[n] ELSE design.name[n]

SameKey(m, n) == m # n /\ KeyOf(m) = KeyOf(n)

\* "has instantiated multiple times. Use instance name instead"
Twice == \E m, n \in Candidates : IsDefined(m) /\ IsDefined(n) /\ SameKey(m, n)

\* A candidate without a definition that has the name of another's: it takes the place
\* when it comes first, and then the other is one too many.
Shadowed(n) == ~IsDefined(n) /\ \E m \in Candidates : IsDefined(m) /\ SameKey(m, n)

Keys == {KeyOf(n) : n \in Candidates}

\* Several candidates without --top: the first of a hash map.
Eligible(n) == \/ options.top = NoTop
               \/ Cardinality(Keys) = 1
               \/ KeyOf(n) = options.top

ChooseTop == /\ At("top", "detect")
             /\ ~Twice
             /\ \E n \in Candidates :
                   /\ Eligible(n) /\ ~Shadowed(n)
                   /\ root' = n
                   /\ ports' = design.ports[n]
             /\ UNCHANGED <<given, pins, slang, workers, fsms, wrapper>>

NoTopFound == /\ At("top", "failed")
              /\ \/ Twice
                 \/ \E n \in Candidates : Shadowed(n)
                 \/ \A n \in Candidates : ~Eligible(n)
              /\ UNCHANGED <<ports, given, pins, stages>>

-------------------------------------------------------------------------------
(* identify_fsms(m.top()) and identify_fsm_arcs.                           *)

Ancestors(n) ==
    LET above[m \in Nodes \cup {NoNode}] ==
            IF m = NoNode THEN {} ELSE {m} \cup above[design.parent[m]]
    IN  above[n]

BelowTop(n) == root \in Ancestors(n)

Machines == {n \in design.machines : BelowTop(n)}

\* A task per register below the top waits for a worker of the pool; and a task that
\* looks for the arcs of a machine never ends when a comparison of it is fed by a ring
\* of wires (get_direct_const), which identify_fsm_arcs waits for before it gets any
\* exception.
NeverDetects == \/ workers = 0 /\ \E n \in design.registers : BelowTop(n)
                \/ (Machines \cap design.endless) \ design.counters # {}

WaitForEver == /\ At("detect", "stuck")
               /\ NeverDetects
               /\ UNCHANGED <<ports, given, pins, stages>>

\* "condition has 1 fan-out": what a task has thrown is thrown again by its future.
Rethrow == /\ At("detect", "failed")
           /\ ~NeverDetects
           /\ Machines \cap design.branching # {}
           /\ UNCHANGED <<ports, given, pins, stages>>

Detect == /\ At("detect", "merge")
          /\ ~NeverDetects
          /\ Machines \cap design.branching = {}
          /\ fsms' = Machines
          /\ UNCHANGED <<ports, given, pins, slang, workers, root, wrapper>>

\* Counters are never merged, and of the others one is left.
Mergings == {left \in SUBSET fsms :
                /\ fsms \cap design.counters \subseteq left
                /\ left \subseteq design.counters => fsms \subseteq design.counters}

\* With -m; then the options about the pins are set.
Merge == /\ At("merge", "clock")
         /\ fsms' \in IF options.merge THEN Mergings ELSE {fsms}
         /\ clockName' = userClock
         /\ resetName' = userReset
         /\ resetType' = userType
         /\ UNCHANGED <<ports, given, warned, script, slang, workers, root, wrapper>>

\* "cannot find fsm when merging", which takes four machines (MergePipelined.CannotFind).
Mergeable(machines) == Cardinality(machines \ design.counters) >= 4

CannotMerge == /\ At("merge", "failed")
               /\ options.merge
               /\ Mergeable(fsms)
               /\ UNCHANGED <<ports, given, pins, stages>>

AnalyzePins == PinNext /\ UNCHANGED <<design, options, env, stages>>

-------------------------------------------------------------------------------
(* create_properties and after.                                            *)

\* The values of a counter are the constants it is compared with (comp_const).
EndlessCounters == fsms \cap design.counters \cap design.endless

CountForEver == /\ At("properties", "stuck")
                /\ EndlessCounters # {}
                /\ UNCHANGED <<ports, given, pins, stages>>

\* "No FSM detected"
NoFsm == /\ At("properties", "failed")
         /\ fsms = {}
         /\ UNCHANGED <<ports, given, pins, stages>>

HasMachines == EndlessCounters = {} /\ fsms # {}

WithoutProver == /\ At("properties", "printed")
                 /\ HasMachines
                 /\ ~formal
                 /\ UNCHANGED <<ports, given, pins, stages>>

\* run_process looks for the prover first.
FindProver == /\ At("properties", IF env.jasper THEN "wrapper" ELSE "failed")
              /\ HasMachines
              /\ formal
              /\ UNCHANGED <<ports, given, pins, stages>>

\* A counter that is compared with nothing has no property to be written.
HasProperties == \E n \in fsms : n \notin design.emptyCounters

\* VerilogModule::str, with the assertions on the definition and, in each property, on
\* the clock.
CanBeWrapped == /\ design.definition[root] # NoDefinition
                /\ HasProperties => clockName # NoName

WriteWrapper == /\ At("wrapper", "script")
                /\ CanBeWrapped
                /\ wrapper' = [dut |-> design.definition[root], ports |-> ports,
                               clock |-> IF HasProperties THEN clockName ELSE NoName]
                /\ UNCHANGED <<ports, given, pins, slang, workers, root, fsms>>

CannotWrap == /\ At("wrapper", "failed")
              /\ ~CanBeWrapped
              /\ UNCHANGED <<ports, given, pins, stages>>

Next == \/ DetectSlang \/ SetThreads \/ ReadJson \/ ReadList \/ RunSlang
        \/ ChooseTop \/ NoTopFound \/ WaitForEver \/ Rethrow \/ Detect \/ Merge \/ CannotMerge
        \/ AnalyzePins \/ CountForEver
        \/ NoFsm \/ WithoutProver \/ FindProver \/ WriteWrapper \/ CannotWrap

Spec == Init /\ [][Next]_allVars

-------------------------------------------------------------------------------
Placed == {n \in Nodes : root \in Ancestors(n)}

CouldBeTop(n) == design.parent[n] = NoNode \/ IsAsked(n)

NothingHas(definition) == \A n \in Nodes : design.definition[n] # definition

ManyTops == \E m, n \in Nodes : m # n /\ CouldBeTop(m) /\ CouldBeTop(n)

\* Why a run may fail to find its top: there is no module at all; nothing has the name
\* that was asked for, and more than one could be taken for it; a module is twice where
\* the top could be; or a block there has the name of a module.
BadTop ==
    \/ \A n \in Nodes : design.parent[n] # NoNode
    \/ options.top # NoTop /\ (\A n \in Nodes : ~IsAsked(n)) /\ ManyTops
    \/ \E m, n \in Nodes : /\ m # n /\ IsDefined(n)
                           /\ design.definition[m] = design.definition[n]
                           /\ design.parent[n] = NoNode \/ (IsAsked(m) /\ IsAsked(n))
    \/ \E m, n \in Nodes : /\ ~IsDefined(n) /\ CouldBeTop(n)
                           /\ design.definition[m] = design.name[n]

NoResetPort == userReset = NoName /\ ports \cap ResetNames = {}

\* Why a run may fail once it has a top: nothing below it, the pins, the prover.
BadBelow ==
    \/ Placed \cap design.machines = {}
    \/ userClock \notin ports \cup {NoName} \/ userReset \notin ports \cup {NoName}
    \/ userType # "None" /\ NoResetPort
    \/ formal /\ ~env.jasper
    \/ formal /\ design.definition[root] = NoDefinition
    \/ formal /\ userClock = NoName /\ ports \cap ClockNames = {}

\* What is wrong with the input, in the order it is met.
BadInput ==
    \/ options.source = "list of missing files"
    \/ ~env.parses
    \/ options.source # "json" /\ env.slang = "empty" /\ env.onPath = "none"
    \/ options.source # "json" /\ env.slang = "unset" /\ ~env.beside /\ ~env.inCwd
                               /\ env.onPath = "none"
    \/ root = NoNode /\ BadTop
    \/ root # NoNode /\ BadBelow

\* The failures that the repository's own words do not allow for.
\* src/codegen.cc:102 says to use the instance name: with another module that could be
\* the top, one that is asked for by the name of its instance is "not found" (:118).
AskedByInstance == NothingHas(options.top) /\ (\E n \in Nodes : IsAsked(n)) /\ ManyTops

\* src/fsm.cc:118 takes it that a condition has one fan-out.
BranchingCondition == Placed \cap design.branching # {}

\* src/fsm.cc:364 takes it that a machine to be erased is still there.
MergeLosesOne == options.merge /\ Mergeable(Placed \cap design.machines)

\* README.md:59 says to use -R none if there is no reset: the script wants one
\* (src/codegen.cc:485).
NoneButNoReset == formal /\ userType = "None" /\ NoResetPort

\* src/codegen.cc:388 says that a default posedge reset is used: the script wants a type
\* (:489).
NoDefaultType == formal /\ userType = "Default" /\ resetName \notin NegResetNames \cup {NoName}
                        /\ Heard = <<>>

Departure ==
    \/ root = NoNode /\ AskedByInstance
    \/ root # NoNode /\ (BranchingCondition \/ MergeLosesOne \/ NoneButNoReset \/ NoDefaultType)

\* A run fails for what is wrong with its input or in one of the five ways that contradict
\* the repository's own words, and for nothing else.  It never ends only if it was told to
\* use all cores of a machine that counts none, or has a machine below its top that
\* is compared with a ring of wires.
StopsForAReason ==
    /\ pc = "failed" => BadInput \/ Departure
    /\ pc = "stuck" => \/ options.cpus = {0} /\ env.hardware = 0
                       \/ Placed \cap design.endless # {}

\* The top is the module that was asked for if there is one of that definition; only
\* when nothing has the name is another one taken in its place.
RootIsAsked ==
    root # NoNode /\ options.top # NoTop =>
        IsAsked(root) \/ \A n \in Nodes : ~IsAsked(n)

\* The levels of the reset that there is a reason for: the user's, the first event's, and
\* the one its name tells.
Hints == {level \in {"high", "low"} :
            \/ userType = IF level = "high" THEN "Posedge" ELSE "Negedge"
            \/ Heard # <<>> /\ (level = "high") = (Heard[1] = "posedge")
            \/ level = "low" /\ resetName \in NegResetNames}

\* What is proved is about the module that was chosen and pins that the wrapper passes on,
\* those of the user if he named any.  The level of the reset is not made up, though
\* nothing is said of which hint comes first (ResetTypeHonoured says what the README
\* does), and only -R none leaves the reset line unfinished.
ScriptFitsWrapper ==
    pc = "proved" =>
        /\ wrapper.dut = design.definition[root] /\ wrapper.dut # NoDefinition
        /\ script.clock \in wrapper.ports /\ userClock \in {NoName, script.clock}
        /\ wrapper.clock \in {NoName, script.clock}
        /\ \/ /\ script.reset \in wrapper.ports /\ userReset \in {NoName, script.reset}
              /\ script.active \in Hints
           \/ userType = "None" /\ script.active = "unfinished"

\* README.md:59: "reset type: `-R high` or `-R low`. If there is no reset or don't care,
\* use `-R none`."  What the user says of the reset is what the prover is told.
ResetTypeHonoured ==
    pc = "proved" => /\ userType = "Posedge" => script.active = "high"
                     /\ userType = "Negedge" => script.active = "low"
                     /\ userType = "None" => script.active # "unfinished"
===============================================================================
