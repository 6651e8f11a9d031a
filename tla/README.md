# Verification of pastafarian

pastafarian finds the finite state machines in a SystemVerilog design. The
driver (`tools/detector.cc`) has slang turn the design into JSON, lowers the
JSON to a graph of signals, assignments, constants and control nodes, looks for
registers that are driven by constants and feed back into themselves through a
control node, reads the transitions off the graph, writes cover properties for
states, transitions and pairs of states of coupled machines, and, with
`--formal`, has JasperGold decide which of them are reachable.

This directory has TLA+ modules of that program, TLC configurations that check
them on small instances, and proofs that TLAPS checks. Source paths below are
relative to the root of the repository.

## 1. Inventory

| Component | Code | State | Operations | What makes it hard |
|---|---|---|---|---|
| Graph store | `src/graph.hh`, `Graph::get_node`, `select` | `nodes_`, `nodes_map_`, a cache, the next free id | `add_node`, `update`, `alias_node`, `get_node`, `add_edge`, `child_of`, `handle_name`, `select` | a symbol may be referred to before it is declared; names need not be unique |
| Literals | `parse_num_literal` | - | text to 64 bits | unknown digits, overflow |
| AST lowering | `src/parser.cc` | the graph | `parse_dispatch`, one `parse_*` per AST kind | recursion with a `parent` that means different things; generate blocks |
| Registers | `Graph::identify_registers` | the type of a node | one pass over the nodes | - |
| Constant sources | `constant_driver` | nodes entered, constant edges, both shared by all calls | recursive search | the order of an `unordered_set`, failure in the middle |
| Control loop | `reachable_control_loop` | queue, visited set, labels | two passes | visited nodes become unvisited |
| Path queries | `has_path`, `find_sinks`, `in_direct_assign_chain`, `route` | a work list, visited set, depths or a trace | one loop each | each has its own meaning of a depth and its own moment of looking at `visited` |
| Counters | `Graph::is_counter` | - | searches | heuristics |
| Detection | `Graph::identify_fsms` | progress counter, result vector, a mutex, futures | a task per register | threads, exceptions |
| Arcs | `FSMResult::extract_fsm_arcs`, `identify_fsm_arcs` | `syntax_arc_` | searches, a task per machine | incomplete by design, "zero false positive" |
| Merging | `is_pipelined`, `merge_pipelined_fsm` | pairs, groups, the vector of machines | grouping, merging, erasing | hash order, pointers into a vector that shrinks |
| Grouping | `Graph::group_fsms` | a task per pair, futures | `coupled_fsms`, `reachable` | threads |
| Top module | the constructor of `VerilogModule` | `root_module_`, ports | choice among candidates | definition names, instance names, hash order |
| Properties | `VerilogModule::create_properties` | id counter, map of properties, a mutex | a task per machine | threads |
| Cross properties | `VerilogModule::add_cross_properties` | ids, set of pairs | one loop | hash order, shared constants |
| Pins | `analyze_pins`, `analyze_reset`, `create_command_file` | clock, reset, type of the reset | heuristics, then the script | several sources of one value |
| External tools | `parse_verilog`, `JasperGoldGeneration` | files under fixed names in the temporary directory | run, read the log | other runs, time limits, a prover that dies |
| Printout | `print_out_fsm`, `print_grouped_fsm`, `print_grouped_fsm_formal`, `output_json`, `JSONWriter` | the properties, a stack of open objects and arrays | one pass over the machines | properties of two kinds in one map; assertions |
| Driver | `main` of `tools/detector.cc` | - | the stages in order | every stage may throw |

The components interact through plain calls in the order of the table, on one
graph that is frozen once it is lowered. Concurrency is inside four calls
(`identify_fsms`, `identify_fsm_arcs`, `group_fsms`, `create_properties`), each
of which starts a thread pool, hands it lambdas that capture its locals by
reference, and waits; the tasks of `identify_fsm_arcs` share nothing. The only
state that outlives a run of the program is in the files of the temporary
directory.

What has to be right, by component:

- control loop: the answer is TRUE exactly when a walk through a control node
  exists, in every order of the edges, and the search ends;
- constant sources: all constants or none, no driver that is no constant is
  overlooked, the recursion ends;
- path queries: they answer what they are asked within their bounds and end;
- lowering, names, counters, arcs: a state machine is found however it is
  written, with just its states and under a name that leads back to it; every
  arc is a transition of the source and the usual styles lose none; counters are
  told apart, whatever order the hash maps have;
- detection, grouping, property generation: the result is that of a sequential
  run, counters are exact, no task outlives the locals it captured, nobody waits
  for ever;
- merging: exactly the machines that were merged are erased;
- cross properties: one property per pair of states of coupled machines;
- pins: the prover is told a level of the reset that there is a reason for (the user's,
  if he gave one), about a pin that the wrapper has;
- external tools: a verdict that is printed is one the prover has given, about
  this design, in this run;
- printout: just what the source expects and the prover has reached, and a JSON
  file that is one;
- driver: a run fails only for a reason that is in its input, or where the code is known
  to depart from what the repository says of it.

`PROJECT.json` has the full list of hazards with their lines.

## 2. Modules

| Module | Models | Composes |
|---|---|---|
| `Reachability` | graphs as functions to successor sets; the nodes reachable from a set, defined as the least closed set | |
| `ControlLoopSpec` | what `reachable_control_loop` promises, in one step | `Reachability` |
| `ControlLoop` | `reachable_control_loop`, one action per turn of its two loops | refines `ControlLoopSpec` |
| `ConstDriver` | `constant_driver`, the recursion as a stack of calls | `Reachability` |
| `ConstDriver_proofs` | termination, exactness and recognition of resets of `ConstDriver` | |
| `Searches` | `has_path` in both forms, `find_sinks`, `in_direct_assign_chain`, `route`, and `is_pipelined` on what `route` returns | `Reachability` |
| `GraphSearches_proofs` | invariant, correctness and refinement of `ControlLoop`; all safety of `Searches` | |
| `ParallelFor` | pushing tasks into a pool and collecting their futures | extended by `FsmDetection`, `GroupFsms`, `PropertyGen` |
| `FsmDetectionSpec` | what `identify_fsms` promises, without threads | |
| `FsmDetection` | `identify_fsms`: the caller, the workers, the tasks | `ParallelFor`, refines `FsmDetectionSpec` |
| `FsmDetection_proofs` | invariant of `FsmDetection` and what follows from it | |
| `GroupFsms` | `group_fsms`, `coupled_fsms`, `reachable` | `ParallelFor`, `Reachability` |
| `GroupFsms_proofs` | its result, its counter, no use after return | |
| `PropertyGen` | `create_properties` | `ParallelFor` |
| `CrossProperties` | `add_cross_properties` on what `create_properties` left | extends `PropertyGen` |
| `JSONWriter` | `json::JSONWriter`, on tokens | |
| `Report` | the second half of `main`: coupling, proof, printout, groups, JSON file | extends `CrossProperties`, uses `JSONWriter` |
| `Report_proofs` | all safety of `PropertyGen`, `CrossProperties`, `JSONWriter` and `Report` | |
| `MergePipelined` | `merge_pipelined_fsm`, `merge_fsm` | |
| `MergePipelined_proofs` | what is grouped, and what is merged exactly | |
| `Literals` | `parse_num_literal` | |
| `Netlist` | the graph as a value: `add_node`, `update`, `alias_node`, `add_edge`, `child_of`, `reachable`, `handle_name`, `select` | |
| `Lowering` | the `parse_...` functions, one operator per kind of syntax tree | `Netlist`, `Literals` |
| `Circuit` | what a syntax tree means: the language, not the program | |
| `Extraction` | from the members of a module to its state machine: the lowering, `identify_registers`, the task of `identify_fsms`, `is_counter`, `extract_fsm_arcs`, `counter_values` | `Lowering`, compared with `Circuit` |
| `PinAnalysis` | `analyze_pins`, `analyze_reset`, the clock and reset part of the script | |
| `Detector` | the first half of `main`: environment, threads, sources, top module, detection, pins, wrapper, script | extends `PinAnalysis` |
| `Detector_proofs` | why a run fails, the top it takes, the script it writes | |
| `DetectorRuns` | `parse_verilog`, `run_process`, `parse_result`, the marks of `print_out_fsm`, several runs on one temporary directory | |
| `DetectorRuns_proofs` | whose verdicts are printed, for any number of runs | |

`MC...` modules give the constants their values and, where the full set of
initial states is too large, restrict it. The modules that are mutated have a
section of slips: plausible mistakes in the operators that follow, each a variant
of one operator under which a property fails.

### How the state corresponds to the code

- **ControlLoop.** `frontier` is `working_set`. The queue holds a node once per
  edge; a second copy is dropped by the visited test, so the set of its members
  is kept and every order is explored, which also covers every order of
  `edges_to`. `visited`, `reached` are `visited`, `reachable_control_nodes`.
- **ConstDriver.** `stack` has one frame per call with the edges still to
  examine and the local `result`; `entered` is `self_assignment_nodes`,
  `constSources` is `const_sources`. Both are shared by all calls, as in the
  code. `edges_from` is an unordered set, so any edge may be next. Its callers
  ask about registers, so the root is a variable.
- **Searches.** `out` keeps the order of `edges_to`, since an edge that comes
  first is met first. `work` is the stack or the queue, `level` is `known_depth`
  or `level_nodes`, `pops` the count of `has_path`. One turn of a loop is one
  action, and so is each step back along `trace`.
- **ParallelFor.** `futures` is the vector `tasks`, `loop` the place of the
  calling thread, `queued`, `running`, `outcome` are the pool. A task starts
  when a worker takes it, in any order.
- **FsmDetection, GroupFsms, PropertyGen.** `step` is the place of each task in
  its lambda. A read and the write that follows it are two steps, so that an
  update can be lost; taking the mutex is one step with the read after it and
  releasing it one step with the write before it, because the thread that holds
  it commutes with the others there.
- **MergePipelined.** `cell[i]` is the object at index i of the memory of
  `fsm_result`, and `size` its length. Pointers are indices. `erase` moves
  objects down and leaves the cell behind the end as it was: `node_` is a raw
  pointer that moving and destroying leave alone. Arcs are abstracted to the
  machines they came from. Which pairs are pipelined is an input; since `is_pipelined`
  follows a route of up to 16 nodes, the first of three stages is pipelined into the
  third one too, and `MCMergePipelined` makes the pairs from the walks through registers
  that are copied into one another.
- **Literals, Netlist, Lowering.** Nodes and edges are named by the index in the
  order they were made; `key` is `nodes_map_`. A tree is a record with its kind,
  a symbol its name, which stands for the address too; a path is a sequence of
  names. A literal is its base and digits. `Lower` returns the graph and the node
  that the function in the code returns. The recursion is that of the code; the
  members of an instance or a generate block are put before those that follow it
  in `pending` instead of being parsed in the same step. The name of an array
  without one is a view of a string that is gone: any name.
- **Extraction.** One register at a time is looked at, from the lowering to its
  arcs. `constant_driver` and `reachable_control_loop` appear by what the runs
  `const_driver` and `graph_searches` show of them: the constants of the cone or
  nothing (`SourcesExact`), certainly the constants when `ResetStyleFound`
  applies, and a walk through a control node. Where a container is ordered by
  address, every choice is taken: which edge `is_counter` keeps of a value, which
  operand a comparison is found with. Arcs are kept by value, which is what
  `make_unique_result` leaves of them. A search for the constant of a comparison
  that goes round in a loop is the phase `hangs`.
- **PropertyGen.** Nothing is assumed of the ends of an arc: `const_from` is whatever the
  register is compared with (`src/fsm.cc:183`), and merging adds the arcs of one machine
  to those of another without its states (`:254-259`), so an end need not have the value
  of a state.
- **CrossProperties.** The nested loops, one action per turn; the containers
  that are unordered come in any order.
- **Report.** `properties` is the map that the two stages before have filled. What
  is printed of a machine is the set of states with the marks under each; the
  text around it is left out. `json` is the tokens with their commas, with one object per
  edge from a constant, of which there may be several to a state. The groups
  and the verdicts are open, since `GroupFsms` and `DetectorRuns` have them.
- **Detector, PinAnalysis.** `pc` is the stage. `env` and `options` are what the
  code asks the file system, the environment and the command line for. Names of
  ports are numbers in alphabetical order (`ports` is a `std::map`); what
  `find_sinks` returns is the list of the events it meets. `_num_cpu` is
  `workers`. What the later stages cannot cope with is in the design: `branching`, the
  machines with a condition of several fan-outs (the assertion at `src/fsm.cc:118`, which
  the future throws again in `main`: `Rethrow`); `endless`, those compared with a ring of
  wires (`src/fsm.cc:24`), whose task, or for a counter whose list of values, never ends
  (`WaitForEver`, `CountForEver`); `counters` without a value. A pool of no workers is
  `WaitForEver` too. `Merge` may take away any machines but counters and the last one, and
  `CannotMerge` is the assertion at `src/fsm.cc:364`, for as many machines as it takes.
- **DetectorRuns.** `json`, `wrapper`, `project` are the files. A log line is an
  id with a verdict. A design is named after the run it was given to.

## 3. Runs

Passing runs:

| Run | Bounds | Shows |
|---|---|---|
| `graph_searches` | the two pass search on every simple graph of 4 nodes, one of them a control node, target the origin or another node; the searches with a work list on 768 graphs of 4 nodes with loops, double edges, self loops and detours, the two inner nodes of four combinations of types, and depths from none to more than the edges | the two pass search implements `ControlLoopSpec` (`Implements`), `Terminates`, and `Inv` of the proofs; `AnswersExact`, `SinksNearestFirst`, `RouteExact`, `PipelinedExact`, `Ends` |
| `const_driver` | a register, an inner variable, a third node of every kind, a constant, a control node; every graph, one edge may be a slice | `SourcesExact`, `ResetStyleFound`, `NoReentry` |
| `fsm_detection` | 3 registers, 2 workers, analyses that accept, reject and fail | `Inv`, `NoUseAfterReturn`, `Implements`, `Terminates` |
| `extraction` | 2570 modules: thirteen styles of a state machine of up to 3 states with one or two processes, with and without reset, constants as numbers of every base, enumeration names or parameters, some out of range or unknown; the register in the top module, an instance, a generate block or an array of them; counters up and down with every start, step and limit of a few | `MachineFound`, `NamesResolve`, `AnalysisEnds`, `ArcsPossible`, `ArcsComplete`, `CounterExact` |
| `group` | 2 machines in every simple graph of 3 nodes, 2 workers | `GroupsExact`, `NoUseAfterReturn`, `Terminates` |
| `merge` | 4 machines and a counter, each register copied into one other at most, or the first into two, one of them perhaps behind the counter, with a pair for every walk along the copies; two orders of the vector | `GroupsAreLinked`, `ShortPipelineMerged`, `OnePairExact` |
| `report` | 2 machines, one of them perhaps a counter, over 3 constants of 2 values and one that is no state of either but that an arc may start at; 2 workers; every coupling; a prover that reaches nothing, everything, or all but what is about one state | `Complete`, `ArcsExpected`, `EveryPairOnce`, `PrintedExact`, `FailsOnlyForEmptyCounter`, `PairsExact`, `JsonWellFormed`, `Ends` |
| `detector` | everything that may be installed; 13 hierarchies of up to 4 modules with every `--top`, with and without `-m`, with names that coincide, machines the analysis chokes on and counters; 4 ports (clock, data, two resets) with every choice of the user | `StopsForAReason`, `RootIsAsked`, `ScriptFitsWrapper` |
| `detector_runs` | 2 runs after an earlier one, one at a time or at once, 2 properties; a prover that decides everything and one that runs into its time limit, and may die anywhere | `VerdictsExact`, `NothingFromEarlier` |

Why these bounds are enough to be interesting: a visited node that becomes
unvisited needs a cycle and a side branch; a lost update needs two workers and
two tasks, and a queued task that is still there when another has failed needs a
third; an order of the hash map that splits a pipeline needs four stages, one
that moves its root needs three; a pointer that goes stale needs two erased machines; an arc that is
missed or made up needs two compared states, a nested condition and a third
state to go to; a bound on pops that differs from a bound on nodes needs a node
that is pushed twice; two constants of one value need a third of another; a top
that is not the one asked for needs two modules and one instance of one.

Restrictions, all in the `MC` modules: `MCReport` gives the first machine two
states and the second one or none, and the prover the verdicts in the table
(`MCVerdicts`); a counter is written with the constants it has or with all
(`MCSources`). `MCDetector` varies the environment, the hierarchy and the pins one
after the other (`MCStart`, `MCTops`, `MCPins`), since no stage looks at two of
them but the wrapper. `MCGraphSearches` makes one call, of the two pass search or of one
with a work list: they share nothing. `MCDetectorRuns` has the prover's three verdicts. `MCExtraction`
combines styles, bodies and processes fully and shows the odd constants and the
odd places with fewer bodies. `merge`, `const_driver` and `graph_searches` start from
the graphs in the table.

What the extraction run leaves to the exceptions it names, because the code
promises no more:

- `NamesResolve` is not asked of a register that is used before it is declared
  (style `late`: it is updated through the overload that drops the parent,
  `src/graph.hh:117`, and is in no module), nor of the name of a generate block, which the
  handle name leaves out, of two blocks with a signal of one name, and of an array
  without a name;
- `AnalysisEnds` is not asked of a comparison with a register that only toggles
  itself (`src/fsm.cc:24` goes round for ever) nor of a `case` over a comparison
  (`case (s == A)`), on which the assertion at `src/fsm.cc:118` fails;
- `ArcsPossible` is not asked of a wire that is negated, a `case` below a
  default and a comparison with a complement: the run `zero_false_positive` has
  these;
- `ArcsComplete` is about cases, chains of conditions and wires that are used more
  than once. What is written through a wire that is used once, with `&&`, with
  `?:` or through a packed struct loses arcs, which the comment at
  `src/fsm.cc:102` allows;
- `CounterExact` leaves out counters that are also assigned their step: whether
  they are recognised depends on the hash map at `src/graph.cc:440`.

Runs that find a violation, each about a sentence of the code, listed under
"findings" in `PROJECT.json`:

| Run | Sentence | Shows |
|---|---|---|
| `merge_erases_others` | `src/fsm.cc:359`, "delete the fsm that's been merged" | with three stages a pointer into the vector that is being erased from names another machine, and that is erased |
| `zero_false_positive` | `src/fsm.cc:102`, "zero false positive" | `if (!w) s <= B` with `w = (s == A)`, when `w` is used elsewhere too, gives the arc from A to B; so does the comparison of another signal in a case below a default; and a comparison with `~A` counts as one with A |
| `reset_type_ignored` | `README.md:59`, "reset type: `-R high` or `-R low`. If there is no reset or don't care, use `-R none`." | `-R high` and `-R low` are replaced by the level of the first event the reset is used in, since `src/codegen.cc:369`, "skip if it already has value", skips only for `None` (`:381`); with `-R none` the line `reset -expression` of the script is begun and not ended, so the next command is read as its expression |

Seen while modelling, and not run:

- `docs/main.tex:159` has every loop of a state variable pass a control edge;
  the search (`src/graph.cc:324`) is content with one loop that does.
- Algorithm 1, at `docs/main.tex:255`, asks for more than zero constant sources;
  the code asks for more than one edge (`src/graph.cc:607`), and later for two
  distinct states.
- `docs/main.tex:157` asks that every source be a constant or the variable
  itself. `src/graph.cc:247` reads the set that the earlier calls have already
  filled, so whether a variable with only constants for sources is accepted
  depends on the order of an `unordered_set`.
- `src/fsm.cc:364` asserts that a machine is found when it is erased; with four
  stages a stale pointer can name one that is gone (`MergeLosesOne`). `src/fsm.cc:325`
  says union find; groups that a later pair links are never united. And "upgrade the
  root" (`:337-341`) knows only the pair at hand: in the vector order a, c, b of a
  pipeline a, b, c, when the pair (a, c) comes before (b, c), b becomes the root and the
  head a is erased. `ShortPipelineMerged` says which machine is the root only when the
  other stages stand in the vector in the order of the pipeline.
- `README.md:53` says that the tool will "verify the reachability for each state and arcs".
  A property is made for an arc between states (`src/codegen.cc:192-205`). An arc that
  starts at a value which is only compared with, never assigned, gets none;
  `ArcsExpected` is about the others, and says so.
- `docs/main.tex:235` couples two machines by a path that contains a control
  edge. The fast mode (`src/graph.cc:661`), the only one the detector uses,
  couples them by any path; the answer of the thorough search is dropped
  (`src/graph.cc:663`), so without the fast mode nothing is coupled.
- `src/codegen.cc:253` remembers a pair by its two constants and not by the
  machines: machines over one enumeration lose cross properties to each other.
  `EveryPairOnce` is about machines with constants of their own.
- A counter without a value to check has no property; with `-c` and `--formal`
  the assertion of `get_property` then ends the run before the JSON file is
  written (`FailsOnlyForEmptyCounter`).
- `README.md:54` marks what is proven unreachable; with a time limit, what was
  not decided is printed the same way (`tools/detector.cc:77`).
- `src/parser.cc:49` says random filename; the name is fixed.
- `src/codegen.cc:102` says "Use instance name instead" of a module that is
  instantiated twice. The candidates are kept under the names of definitions
  (`:98`), so among several the name of an instance is never found (`:118`;
  `AskedByInstance`). A name that is both a module's and that of two instances of another
  module is refused, with the same message, although only one module has it (`:93`).
- After the warning "Using default posedge reset" (`src/codegen.cc:388`) the type
  stays what it was: `Default` then fails the assertion at `:489` (`NoDefaultType`), and a
  pin that is named active low stays low. "need to make sure that it's not inverted"
  (`:380`) is still to be done there: the events of a pin that is inverted on its way are
  those of its inverse, and the level is taken from them as it is (`Hints`).
  `README.md:59` offers `-R none` where there is no reset; `:485` asserts a reset pin
  before it looks at the type (`NoneButNoReset`).
- `src/fsm.cc:118` asserts that a condition has one fan-out (`BranchingCondition`).
- With a JSON file for input and `--formal`, the script reads the wrapper and no
  source (`src/codegen.cc:466`).
- `src/parser.cc:702` gives the members of a generate block the module for a
  parent, so that its name is in no handle name. `src/parser.cc:741` keeps a view
  of a temporary string for the name of an array without one; and only those
  arrays count, while the language numbers every generate construct.
- `parse_num_literal` (`src/parser.cc:132`) keeps what follows the quote, so a
  minus sign before the size of a literal is dropped.
- `start_object` with a name writes a stray quote (`src/util.cc:258`); nothing
  calls it.

No run checks for deadlock: every one of these calls ends, and its last state
has no successor. Where the end has to be reached, `Terminates` or `Ends` says so,
and `StopsForAReason` says when the detector stops half way. It keeps two lists apart.
`BadInput` is what is wrong with the input: files, slang, the top, pins, the prover.
`Departure` is the failures that contradict the repository's own words, five named ones
(`AskedByInstance`, `BranchingCondition`, `MergeLosesOne`, `NoneButNoReset`,
`NoDefaultType`), each of which is met in the run: without any one of them the property
is violated. So a pass means that there is no sixth within the bounds, and the theorem
that there is none at all.

`ScriptFitsWrapper` does not say which hint of the level of the reset (`Hints`: the user's,
the first event's, the name's) comes first, only that the level has one, that pins the
user names are those that are used, and that only `-R none` leaves the line unfinished.
What the README promises is `ResetTypeHonoured`, in the run that finds it violated.

### Fairness

`ControlLoop` and `Searches` are one thread in a loop that never waits: weak
fairness of `Next`. In `FsmDetection`, `GroupFsms` and `PropertyGen` the caller and
every worker are threads of the operating system, each with weak fairness of its
own. That is enough although they compete for a mutex: every task locks it a
bounded number of times, so no thread is overtaken for ever. `MCReport` adds weak
fairness of `main`, which is one thread after `create_properties` has returned.
Nothing else is assumed fair; in `DetectorRuns` the prover may die or a run stop
at any place.

## 4. Proofs

`ReachableLeast`, which opens the proofs about searches of graphs, says that
`ReachableFrom`, the intersection of all closed sets, contains its start, is closed
and is the least such set. No induction is needed for that.

**`GraphSearches_proofs`** is about two modules. Of `ControlLoop`, for every set of
nodes and every graph:

- `Invariance`: `Spec => []Inv`;
- `Correctness`: `Spec => []Correct`, the answer is TRUE exactly when the target
  is behind a control node;
- `Refinement`: `Spec => Implements`, the search implements `ControlLoopSpec`;
- `EveryStepCloser`: `Spec => [][Closer]_vars`, every step descends in one order.

`Correct` is not inductive. `Inv` adds what each pass knows: the successors of a
visited node were visited or wait (`SearchInv`); in the first pass the labels
are the visited control nodes (`LabelInv`); in the second every label is
justified and *a labelled node that is visited has passed its label on*
(`ColourInv`). The last part is what un-visiting keeps true: a node that gets
its label late is taken out of the visited set in the same step. When the queue
is empty, the visited nodes are closed, so they are all that is reachable, so
the labelled nodes are closed under successors and contain the reachable control
nodes, so they contain everything behind one. `docs/main.tex` says that the colouring
ends; `Closer` is why, although nodes are made unvisited: each step leads to a later
stage, or to more labels, or to as many and more visited nodes, or to the same and
fewer that wait. A node is un-visited only in a step that labels one.

Of `Searches`, for every finite graph, every order of the edges and every question:

- `SearchInvariance`: `SearchSpec => []SearchesInv`;
- `Answers`: `SearchSpec => []AnswersExact`;
- `SinksOrder`: `SearchSpec => []SinksNearestFirst`;
- `RouteFound`: `SearchSpec => []RouteExact`;
- `PipelinedFound`: `SearchSpec => []PipelinedExact`;
- `TraceDescends`: `SearchSpec => []NearerInv`, a path of `route` has no node twice;
- `EverySearchEnds`: `SearchSpec => [][SearchCloser]_searchVars`.

`SearchesInv` has a part for each search. `StackInv` and `ChainInv` are as above:
marked nodes lead to marked or waiting ones. `CountInv` is about `has_path`, which
marks a node after it has pushed its successors, so that a node can be on the stack
several times and its bound is on pops and not on depth. *The successors of a marked
node that is still on the stack are marked, or lie above it*; so when it is popped it
has nothing left to push, every push has an edge of its own, and the pops so far with
the nodes that wait are one more than the edges of the marked nodes at most. A node
with an edge to itself would break that, and then the bound can be reached before the
search is through: it is the premise of the property.

`WaveInv` is about `find_sinks` and `route`. `LevelInv`: a node has a level once it
was queued, and is within that distance. `OrderInv`: the levels in the queue never go
down *up to the first copy of each node*, and differ by one at most, so a level that
was given first is never too high although `emplace` does not lower it. With what is
marked being widened (`Widened`), a queue that has run dry leaves in `level` the
distances themselves (`Drained`); that is the order of the result, and that nothing
within the depth is missing. `RouteInv` ties `trace` to that: the target is traced
exactly when it is found, and each trace is along an edge from a node within the
depth. `TraceInv`: the path leads from behind `at` to the target, and `at` is traced
or the origin, which is why the assertion "unable to compute trace" never fails.

`SearchCloser` is the order in which the searches descend. While they search, a step
finds the target, or marks a node, or takes something from the list. Only `has_path`
can make its list longer without that: with an edge from a node to itself a copy of
the node comes back up before its other successors, and these are pushed again. So
for the two with a stack it is the copies of marked nodes on it (`Stale`) that get
fewer. On the way back `level` falls from each node to the one it was traced from
(`NearerInv`), although `route` writes the trace of a node when it first looks at it,
before the predicate is asked, and may reach it by another edge later: who looks
first has been at the head of the queue first, and by `OrderInv` no later head has a
lower level.

The distances (`Near`) and the loop over the edges of a node (`Targets`) are recursive
functions. That these have values is proved too (`Rounds`, from the least round that
a run does not have), and then what they are (`NearSteps`, `TargetsChosen`).

**`ConstDriver_proofs`**, for every graph and every order of its edges:

- `Termination`: `Spec => []NoReentry`, no node is in two calls;
- `Exactness`: `Spec => []SourcesExact`;
- `Recognition`: `Spec => []ResetStyleFound`, for every finite graph;
- `EveryStepCloser`: `Spec => [][Closer]_vars`, each step enters a node, returns from
  a call, ends it, or leaves it one edge less: the recursion ends.

A call may stop at its first bad edge and leave edges unexamined, and the sets
are shared. `SearchInv` bridges that: either the innermost call *has failed*, and
then so will every call below it, or *every edge of every node that was entered
is still to be examined by a call on the stack or has been dealt with*, and a
node whose call has returned has a driver that is no control node. When the stack
is empty and the answer TRUE, the nodes entered are closed under the edges that
are followed; `ReachableLeast` makes them the whole cone. `AnswerInv`: a failure
has emptied the set, except where nothing drives the root, and then there was
nothing to collect.

`Recognition` is about calls that do *not* fail although the set they share may be
empty when they start. `ResetInv` says that in a design written with resets none
does, and `Return` is the step it turns on: a call that ends without a constant in
the set would fail. `OwnConstantFound` is why there is one: the nodes behind this
one that drive nothing else (`OwnDrivers`) can have been entered only through it,
because `CallerInv` has every call made for an edge into the call below. So they
are off the stack, so all their edges were dealt with, so the constant among them
was collected. That needs the graph to be finite, for a node that drives one node
is defined by a cardinality.

**`FsmDetection_proofs`**, for every set of registers and of workers:

- `Invariance`: `Spec => []Inv`;
- `Counting`: `Spec => []CountExact`, the progress counter loses no increment;
- `NoUse`: `Spec => []NoUseAfterReturn`;
- `Refinement`: `Spec => Implements`, the call does what `FsmDetectionSpec` does;
- `NoDeadlock`: `Spec => []NeverStuck`, if there is a worker.

Here `Inv` has five parts besides the types and `CountExact`. `MutexInv`: the
task between a read and a write is the one that holds the mutex, *and what it has
read is still so*; hence no lost update. `PoolInv`: a task is queued, run by one
worker, then done, and its future is ready exactly when it is done, so that a
caller that has waited for all futures has waited for all tasks. `CollectInv`:
how far the caller has come in its vector of futures. `VerdictInv`: what the
place of a task says about its register. `ResultInv`: the vector lists the
registers accepted so far, each once. Only `AllGot` and `Rethrow` are steps of
`FsmDetectionSpec`; there `NoUseAfterReturn` is what makes every later step a
stutter, since nothing can change the vector any more.

`NeverStuck`, here and in the two other loops: until the call is over its caller can
go on or some worker can. TLC finds no deadlock with two workers; the theorem is for
any number but none, since a pool without threads keeps its caller waiting for ever
(`Detector` shows when that comes about). It rests on `Attended`: a task that has
begun has a worker that runs it. So the task that the caller waits for is queued or
run, and if it is the mutex it waits for, the holder is run and waits for nothing.
`CallerCan` and `WorkerCan` are the guards written out, as the prover has no means for
`ENABLED`.

The next two begin with lemmas about the loop of `ParallelFor` that hold for any
tasks: each of its actions keeps `LoopInv`, by which a task waits in the queue, or one
worker runs it, or its outcome is known, and what the caller has collected is there.

**`GroupFsms_proofs`**, for every graph, every set of machines and any workers:

- `NoUse`: `Spec => []NoUseAfterReturn`;
- `Exactness`: `Spec => []GroupsExact`;
- `NoDeadlock`: `Spec => []NeverStuck`, if there is a worker.

The caller gets without waiting first. That no task outlives it rests on a part
of the invariant that says no outcome is an exception: then `get` is never left
early. `CountInv` counts the tasks past the counter; `DecisionInv`: a pair is in
`coupled` just when its task has decided and there is a path; `ResultInv`: the map
holds the pairs of the futures collected so far.

**`Report_proofs`**, for any number of machines, states, arcs and workers, any
groups and any verdicts; `Spec` is `create_properties` alone, `ReportSpec` the
whole second half of `main`:

- `Completeness`, `Expectation`: `Spec => []Complete`, `Spec => []ArcsExpected`, and
  the same of `ReportSpec` (`CompletenessKept`, `ExpectationKept`);
- `PairsOnce`: `ReportSpec => []EveryPairOnce`;
- `Listings`, `Pairings`: `ReportSpec => []PrintedExact` and `[]PairsExact`;
- `OnlyFailure`: `ReportSpec => []FailsOnlyForEmptyCounter`;
- `JsonFile`: `ReportSpec => []JsonWellFormed`;
- `NoDeadlock`: `Spec => []NeverStuck`, if there is a worker.

There are three invariants, each on top of the one before. `Inv` is about the tasks.
Its `MutexInv`: a task between taking an id and counting it holds the mutex, *and
the id is still the first free one*, so that `emplace` never meets an entry. Its
`MapInv`: the map holds just the properties written so far, each once, with its
mark. At the end the map is a bijection between ids and properties, which gives the
count. `ArcsExpected` is an equivalence: between two states a transition is expected just
when some arc has their values. That an arc finds its property although it may name other
nodes than the states do uses that the constants of one machine differ in their values;
of its ends nothing is assumed, and one with the value of no state finds none.

`MainInv` is about the map in the stages after. What `create_properties` wrote is
told from the cross properties by its second variable and stays as it was
(`OwnInv`), since the ids of the others begin above all of its own (`StageInv`).
`RememberedInv`: a pair of constants is in `added_pairs` just when one property has
it, in one order or the other. `ProgressInv`: a pair of states that is not
remembered is still to come in one of the loops, whatever order the groups come in;
when they are done, none is.

`PrintInv` is about the output. The JSON file is written in one go by loops within
loops, so there the argument is not about steps: `At(d)` is the set of writers that
are d levels deep with a text whose neighbouring tokens fit, each call of
`JSONWriter` leads from one of these sets to another, and `Rounds`, a loop of any
number of rounds stays in the set that each of its rounds stays in, is proved from
the least round that would leave it.

**`MergePipelined_proofs`**, for any finite set of machines in any order, and every
order of the hash maps:

- `Linked`: `Spec => []GroupsAreLinked`;
- `OnePair`: `Spec => []OnePairExact`;
- `ShortPipelines`: `Spec => []ShortPipelineMerged`, with the pair from the first stage to
  the third that a real pipeline has.

`RootsInv`, that a machine with a root is in the group of that root, is all that
`Linked` needs besides types. `ChainInv` is about a pipeline of two or three
machines (`Chain`). `pipelined_fsm` keeps one entry per machine, the first in the vector, so
of three pairs of a pipeline two are looked at, and both have one stage p in common: the
one of the second and the third that comes first in the vector. The stages whose pair
was looked at (`Touched`) are in one group, *and p has its root*, so the pair that comes
last finds it, whichever that is; once merged the arcs of the root are those of all. The
root is the first stage if p is the second one (`InOrder`).
`PairInv` follows the whole vector when there
is only one pair: what is erased is the cell of its second machine, wherever it is,
and the objects behind it move down by one. With two pairs this is false, which is
the finding of `merge_erases_others`.

**`Detector_proofs`**, for any designs, options, ports, events and machine to run on:

- `Failures`: `Spec => []StopsForAReason`;
- `AskedTop`: `Spec => []RootIsAsked`;
- `Scripts`: `Spec => []ScriptFitsWrapper`.

The invariant is what each stage has settled for the later ones: `StartInv` (the
variable for slang, and that a pool has a worker unless it was left to a machine
that counts no core), `TopInv`, `FsmsInv` (what is merged were all machines below the
top, so that a failure there has its reason in the design; merging removes no last one),
`PinInv` (a pin is a port, or it was neither named nor there; the type of the reset
is a function of what the user said, the name and the events), `WrapperInv` and
`ScriptInv`. `FailInv` and `StuckInv` are the two ways to stop: a failure needs a reason
among those of `BadInput` and `Departure`, an analysis without end a pool of nobody or a
machine that is compared with a ring of wires. The assumptions about designs are that a
hierarchy is finite and that machines are in it. Nothing is assumed of names: `TopMissing` and `TopIsAsked` go
through the ways in which those of modules, instances and blocks coincide.

**`DetectorRuns_proofs`**, for any number of runs and of properties:

- `Freshness`: `Spec => []NothingFromEarlier`;
- `Verdicts`: `Spec => []VerdictsExact`.

`FilesInv`: by the time a run comes to read a file, what earlier runs had left in
it is gone, and stays gone whatever the other runs do. `AloneInv`: if no other run
has started, each file is the run's own, and the log holds just what its prover
has said. A step of another run falsifies the premise, so it needs no case.

The assumptions are the named ones of the modules: `NoAnswer` is not a Boolean,
`NoTask` is not a task, `NoState` not a constant, the sets of tasks, of machines and
of their constants, the graph of `ConstDriver` and the hierarchies of `Detector` are
finite (they are containers of a program that has them in memory), names of ports
are ordered as numbers, numbers of cores are natural, the names of `DetectorRuns`
differ, and a prover says covered, unreachable or nothing. TLC evaluates them on
every run.

Where induction over a number is needed (the rounds of a loop, the least cell of a
set), it is in the form of a least element of a set of numbers, since the induction
theorems of the library take an operator.

Only model-checked:

- those of `Extraction`: it and `Lowering`, `Netlist` and `Circuit` recurse over syntax
  trees with recursive operators, which no theorem may reach;
- all liveness (`Terminates`, `Ends`), which the prover has no means for. What it
  rests on is proved where it is a matter of single steps: the searches descend
  (`EveryStepCloser`, `EverySearchEnds`), the parallel loops are never stuck
  (`NoDeadlock`).

## 5. What is not modelled

- The option parser and `get_token_values`, the columns and colours of the
  printout, path and string helpers: text.
- The text of the wrapper and of the script beyond its pins.
- cxxpool, slang, JasperGold: not in the repository; they are modelled from how
  they are used and marked external.
- `has_loop`, `copy_node`, `remove_node`: not called by the program; the cache of
  `select`, which only saves time as long as the graph does not change.
- Of the syntax trees: real and string literals, the definition of an instance,
  and how an address or a name is cut from its token.
- The progress bar: vendored, output only.

## 6. Plan

Done: lowering with names and literals, the analysis of a register, the path
queries, the parallel stages, merging, properties, pins, external tools, and the
driver from its options to its output; proofs of every safety property of the searches
of graphs, the three parallel loops, merging, cross properties,
printout and JSON file, the driver with its pins, and the files that runs share, and
that the searches descend and the loops are never stuck.

Left, in this order:

1. The parts of `Extraction` after the lowering as functions, so that `is_counter`
   and the arcs can be reasoned about.
2. String and real literals, and states that are strings.
