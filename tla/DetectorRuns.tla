----------------------------- MODULE DetectorRuns -----------------------------
(***************************************************************************)
(* The detector and the two programs it runs, slang (parse_verilog in      *)
(* src/parser.cc) and JasperGold (run_process and parse_result in          *)
(* src/codegen.cc): what goes through files under fixed names in the       *)
(* temporary directory, which earlier runs have used and other runs may be *)
(* using.                                                                  *)
(*                                                                         *)
(* slang and JasperGold are not part of the sources: slang writes one      *)
(* file, the prover one log line per property it has decided, in any       *)
(* order.  It may run into the time limit of a property, and it may die.   *)
(*                                                                         *)
(* A design is named after the run that it was given to.                   *)
(***************************************************************************)
EXTENDS Naturals, FiniteSets

CONSTANTS
    Process,        \* the runs of the detector
    Earlier,        \* the run that was over before them
    None,           \* no file, or a run that has parsed nothing yet
    Id,             \* the ids of properties
    Verdict         \* what a prover can say of the properties of a design: a set of
                    \* functions from ids to "covered", "unreachable" and "open"

Design == Process \cup {Earlier}

Line == [id : Id, verdict : {"covered", "unreachable", "open"}]
Project == [owner : Design, lines : SUBSET Line]

ASSUME NamesAssumption == /\ Earlier \notin Process
                          /\ None \notin Design
                          /\ None \notin Project

ASSUME VerdictAssumption == Verdict \subseteq [Id -> {"covered", "unreachable", "open"}]

VARIABLES
    ids,            \* the ids of the properties each design gets
    truth,          \* what the prover makes of each of them in its time limit
    pc,             \* where each run is
    json,           \* output.json: whose design, and whether it is all there
    wrapper,        \* fsm_wrapper.sv and fsm_jg.tcl: the design they are about
    project,        \* fsm_jg: the run that made it, and the lines of its first log
    parsed,         \* the design each run has parsed
    proving,        \* the design each run's prover works on, None if it does not run
    said,           \* the properties the prover has logged
    died,           \* whether the prover of each run has died
    valid           \* Property::valid of each run, as the set of valid ids

inputs == <<ids, truth>>
files == <<json, wrapper, project>>
vars == <<inputs, files, pc, parsed, proving, said, died, valid>>

-------------------------------------------------------------------------------
(* Slips that are easy to make in this code, kept to show that the         *)
(* properties below notice them.                                           *)
KeepProject(p) == project' = project
ReadEverything(p, line) == TRUE
-------------------------------------------------------------------------------
Lines(d) == {[id |-> i, verdict |-> truth[d][i]] : i \in {j \in ids[d] : truth[d][j] # "open"}}

\* The files may be there, from a run that is over.
Init == /\ ids \in [Design -> {S \in SUBSET Id : S # {}}]
        /\ truth \in [Design -> Verdict]
        /\ pc = [p \in Process |-> "start"]
        /\ json \in {None, [design |-> Earlier, complete |-> TRUE]}
        /\ wrapper \in {None, Earlier}
        /\ project \in {None, [owner |-> Earlier, lines |-> Lines(Earlier)]}
        /\ parsed = [p \in Process |-> None]
        /\ proving = [p \in Process |-> None]
        /\ said = [p \in Process |-> {}]
        /\ died = [p \in Process |-> FALSE]
        /\ valid = [p \in Process |-> {}]

Step(p, here, there) == /\ pc[p] = here
                        /\ pc' = [pc EXCEPT ![p] = there]

Own == <<parsed, proving, said, died, valid>>

-------------------------------------------------------------------------------
(* parse_verilog: the command runs to its end.                             *)

SlangOpens(p) == /\ Step(p, "start", "slang")
                 /\ json' = [design |-> p, complete |-> FALSE]
                 /\ UNCHANGED <<inputs, wrapper, project, Own>>

SlangWrites(p) == /\ Step(p, "slang", "parse")
                  /\ json' = [design |-> p, complete |-> TRUE]
                  /\ UNCHANGED <<inputs, wrapper, project, Own>>

\* "Unable to parse": slang reports an error.
SlangFails(p) == /\ Step(p, "slang", "failed")
                 /\ UNCHANGED <<inputs, files, Own>>

\* Parser::parse reads the file under its name.
ParseJson(p) == /\ Step(p, "parse", "generate")
                /\ json.complete
                /\ parsed' = [parsed EXCEPT ![p] = json.design]
                /\ UNCHANGED <<inputs, files, proving, said, died, valid>>

\* "unable to parse the JSON file"
ParseFails(p) == /\ Step(p, "parse", "failed")
                 /\ ~json.complete
                 /\ UNCHANGED <<inputs, files, Own>>

-------------------------------------------------------------------------------
(* JasperGoldGeneration::run.                                              *)

CreateCommandFile(p) == /\ Step(p, "generate", "remove")
                        /\ wrapper' = parsed[p]
                        /\ UNCHANGED <<inputs, json, project, Own>>

DropProject(p) == project' = None

RemoveProject(p) == /\ Step(p, "remove", "call")
                    /\ DropProject(p)
                    /\ UNCHANGED <<inputs, json, wrapper, Own>>

\* The prover reads the script, and logs to session_0 if the project is new.
StartProver(p) == /\ Step(p, "call", "proving")
                  /\ proving' = [proving EXCEPT ![p] = wrapper]
                  /\ project' = IF project = None THEN [owner |-> p, lines |-> {}] ELSE project
                  /\ UNCHANGED <<inputs, json, wrapper, parsed, said, died, valid>>

Logged(p, line) == IF project # None /\ project.owner = p
                   THEN [project EXCEPT !.lines = @ \cup {line}]
                   ELSE project

ProverSays(p) == /\ pc[p] = "proving"
                 /\ \E line \in Lines(proving[p]) :
                       /\ line.id \notin said[p]
                       /\ said' = [said EXCEPT ![p] = @ \cup {line.id}]
                       /\ project' = Logged(p, line)
                 /\ UNCHANGED <<inputs, json, wrapper, pc, parsed, proving, died, valid>>

\* Every property was decided or ran into its time limit.
ProverEnds(p) == /\ Step(p, "proving", "read")
                 /\ {line.id : line \in Lines(proving[p])} = said[p]
                 /\ UNCHANGED <<inputs, files, Own>>

\* Without a license, or killed: what subprocess::call returns is not looked at.
ProverDies(p) == /\ Step(p, "proving", "read")
                 /\ died' = [died EXCEPT ![p] = TRUE]
                 /\ UNCHANGED <<inputs, files, parsed, proving, said, valid>>

\* A line counts as valid unless the word "unreachable" is in it.
Confirms(p, line) == line.verdict # "unreachable"

ParseResult(p) == /\ Step(p, "read", "printed")
                  /\ project # None
                  /\ {line.id : line \in project.lines} \subseteq ids[parsed[p]]
                  /\ valid' = [valid EXCEPT ![p] =
                        {line.id : line \in {l \in project.lines : Confirms(p, l)}}]
                  /\ UNCHANGED <<inputs, files, parsed, proving, said, died>>

\* The log does not exist, or names a property that the design has not.
ParseResultFails(p) == /\ Step(p, "read", "failed")
                       /\ \/ project = None
                          \/ /\ project # None
                             /\ ~({line.id : line \in project.lines} \subseteq ids[parsed[p]])
                       /\ UNCHANGED <<inputs, files, Own>>

Run(p) == \/ SlangOpens(p) \/ SlangWrites(p) \/ SlangFails(p)
          \/ ParseJson(p) \/ ParseFails(p)
          \/ CreateCommandFile(p) \/ RemoveProject(p)
          \/ StartProver(p) \/ ProverSays(p) \/ ProverEnds(p) \/ ProverDies(p)
          \/ ParseResult(p) \/ ParseResultFails(p)

Next == \E p \in Process : Run(p)

Spec == Init /\ [][Next]_vars

-------------------------------------------------------------------------------
\* print_out_fsm marks a state, or an expected arc, that is not valid.
Unreachable(p) == ids[parsed[p]] \ valid[p]

\* No other run has touched the files yet.
Alone(p) == \A q \in Process \ {p} : pc[q] = "start"

\* A run that is alone never calls anything reachable that the prover did not cover in
\* this run, whatever files an earlier run has left and wherever the prover died; and
\* when the prover decides everything and lives, what is printed is what it found.
VerdictsExact ==
    \A p \in Process : pc[p] = "printed" /\ Alone(p) =>
        /\ \A i \in valid[p] : truth[p][i] = "covered"
        /\ ~died[p] /\ (\A i \in ids[p] : truth[p][i] # "open") =>
              Unreachable(p) = {i \in ids[p] : truth[p][i] = "unreachable"}

\* Whatever other runs do to the files at the same time, what a run calls reachable was
\* covered by a prover that one of them has started: no verdict of an earlier run lives.
NothingFromEarlier ==
    \A p \in Process : pc[p] = "printed" =>
        \A i \in valid[p] : \E q \in Process : i \in ids[q] /\ truth[q][i] = "covered"
===============================================================================
