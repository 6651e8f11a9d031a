-------------------------------- MODULE Report --------------------------------
(***************************************************************************)
(* What the detector makes of the properties (tools/detector.cc:356): it   *)
(* couples the machines when asked to, has the properties proved when      *)
(* asked to, then prints each machine, the groups and the JSON file.       *)
(*                                                                         *)
(* create_properties and add_cross_properties are the stages before it, so *)
(* that what is printed is made of the map they really leave behind.  The  *)
(* groups and the verdicts of the prover are open; how they come about is  *)
(* in GroupFsms and DetectorRuns.  An option is chosen where main first    *)
(* looks at it.                                                            *)
(***************************************************************************)
EXTENDS CrossProperties, SequencesExt

Writer == INSTANCE JSONWriter

VARIABLES
    computeCoupled, \* -c
    formal,         \* --formal
    valid,          \* the ids of the properties with Property::valid
    toPrint,        \* the machines the loop in progress has not come to
    printed,        \* what print_out_fsm has printed of each machine
    grouped,        \* what the groups that were printed say of each machine
    json            \* the JSON file, as the tokens that were written

reportVars == <<computeCoupled, formal, valid, toPrint, printed, grouped, json>>
allVars == <<vars, crossVars, reportVars>>

-------------------------------------------------------------------------------
(* Slips that are easy to make in this code, kept to show that the         *)
(* properties below notice them.                                           *)
AnyPair(f) == {i \in DOMAIN properties : properties[i].var1 = f /\ properties[i].var2 # NoTask}
NeverSkips(f) == FALSE
WithRefuted(f) == {i \in Cross : properties[i].var1 = f}
-------------------------------------------------------------------------------
ReportInit == /\ computeCoupled = FALSE /\ formal = FALSE
              /\ valid = {}
              /\ toPrint = {}
              /\ printed = <<>> /\ grouped = <<>> /\ json = <<>>

ReadyToPrint == pc' = "print" /\ toPrint' = Task

\* fsm_groups = group_fsms(fsms); add_cross_properties(fsm_groups).
Couple(groups) == /\ Start(groups)
                  /\ computeCoupled' = TRUE
                  /\ UNCHANGED <<formal, valid, toPrint, printed, grouped, json>>

DoNotCouple == /\ loop = "returned"
               /\ pc = "create"
               /\ pc' = "crossed"
               /\ UNCHANGED <<vars, coupled, crossId, groupsLeft, from, to, othersLeft,
                              combosLeft, addedPairs, reportVars>>

Kept == UNCHANGED <<vars, coupled, crossId, groupsLeft, from, to, othersLeft, combosLeft,
                    addedPairs, computeCoupled>>

\* JasperGoldGeneration::run, with the verdicts it has found in the log.
Prove(reached) == /\ pc = "crossed"
                  /\ formal' = TRUE
                  /\ valid' = reached
                  /\ ReadyToPrint
                  /\ Kept /\ UNCHANGED <<printed, grouped, json>>

DoNotProve == /\ pc = "crossed"
              /\ ReadyToPrint
              /\ Kept /\ UNCHANGED <<formal, valid, printed, grouped, json>>

-------------------------------------------------------------------------------
(* print_out_fsm.                                                          *)

\* get_property(node) and has_property(node).
PropertiesOf(f) == {i \in DOMAIN properties : properties[i].var1 = f}
HasProperty(f) == PropertiesOf(f) # {}

\* What sort_fsm_result lists under a state.
EntriesOf(f) == {i \in PropertiesOf(f) : properties[i].var2 = f}

\* The properties about one state, and for a counter all there are.
HeadsOf(f) == IF isCounter[f] THEN PropertiesOf(f)
              ELSE {i \in PropertiesOf(f) : properties[i].var2 = NoTask}

Unreached(i) == formal /\ i \notin valid

\* should_print_next.
IsPrinted(i) == properties[i].shouldBeValid \/ (formal /\ i \in valid)

NextStates(f, m) ==
    {[state |-> properties[i].state2, unreachable |-> Unreached(i)] :
        i \in {j \in EntriesOf(f) : properties[j].state1 = m /\ IsPrinted(j)}}

\* A state of a machine is listed when something is listed under it.
Listed(f) == {h \in HeadsOf(f) : isCounter[f] \/ \E i \in EntriesOf(f) : properties[i].state1 = properties[h].state1}

Listing(f) ==
    {[state |-> properties[h].state1, unreachable |-> Unreached(h),
      next |-> IF isCounter[f] THEN {} ELSE NextStates(f, properties[h].state1)] : h \in Listed(f)}

\* states.at(node) throws when there is no property about the state alone.
Headless(f) == /\ ~isCounter[f]
               /\ \E i \in EntriesOf(f) : \A h \in HeadsOf(f) : properties[h].state1 # properties[i].state1

\* A counter that is compared with nothing has no property, and only its name is printed.
Skips(f) == ~HasProperty(f)

\* The assertion of get_property(node), and states.at(node).
PrintFails(f) == PropertiesOf(f) = {} \/ Headless(f)

PrintFsm(f) == /\ pc = "print"
               /\ f \in toPrint
               /\ printed' = Emplaced(printed, f, IF Skips(f) THEN {} ELSE Listing(f))
               /\ toPrint' = toPrint \ {f}
               /\ pc' = IF ~Skips(f) /\ PrintFails(f) THEN "failed" ELSE "print"
               /\ UNCHANGED <<formal, valid, grouped, json>> /\ Kept

AllPrinted == /\ pc = "print"
              /\ toPrint = {}
              /\ pc' = IF computeCoupled THEN "grouping" ELSE "json"
              /\ toPrint' = IF computeCoupled /\ formal THEN Task ELSE {}
              /\ UNCHANGED <<formal, valid, printed, grouped, json>> /\ Kept

-------------------------------------------------------------------------------
(* print_grouped_fsm_formal and print_grouped_fsm.                         *)

\* The assertion of get_property(node).
SomeProperty(f) == HasProperty(f)

\* The properties about the machine and another one that the prover has reached.
CrossOf(f) == {i \in PropertiesOf(f) : properties[i].var2 \notin {f, NoTask} /\ i \in valid}

GroupFsm(f) == /\ pc = "grouping"
               /\ f \in toPrint
               /\ SomeProperty(f)
               /\ grouped' = Emplaced(grouped, f, CrossOf(f))
               /\ toPrint' = toPrint \ {f}
               /\ UNCHANGED <<pc, formal, valid, printed, json>> /\ Kept

GroupFails(f) == /\ pc = "grouping"
                 /\ f \in toPrint
                 /\ ~SomeProperty(f)
                 /\ pc' = "failed"
                 /\ UNCHANGED <<formal, valid, toPrint, printed, grouped, json>> /\ Kept

AllGrouped == /\ pc = "grouping"
              /\ formal
              /\ toPrint = {}
              /\ pc' = "json"
              /\ UNCHANGED <<formal, valid, toPrint, printed, grouped, json>> /\ Kept

\* Without the prover the groups are printed as they are.
PrintGroups == /\ pc = "grouping"
               /\ ~formal
               /\ grouped' = [f \in {p[1] : p \in coupled} |-> Group(f)]
               /\ pc' = "json"
               /\ UNCHANGED <<formal, valid, toPrint, printed, json>> /\ Kept

-------------------------------------------------------------------------------
(* output_json.                                                            *)

\* What const_src may hold, as the constants that its edges come from, in the order they
\* are gone through: they have the values of the states, and one constant may be there
\* for many edges.  Those of a counter are not looked at.
IsSource(f, edges) == \/ isCounter[f]
                      \/ {value[edges[i]] : i \in DOMAIN edges} = {value[n] : n \in states[f]}

\* One object for an edge, with the value and the name of its constant.
WriteState(w) == Writer!EndObject(Writer!Write(Writer!Write(Writer!StartObject(w))))

\* The lists of a machine: its states, and the machines it is linked to.
WriteStates(w, edges) ==
    LET after[k \in 0..Len(edges)] ==
            IF k = 0 THEN Writer!StartArray(w) ELSE WriteState(after[k - 1])
    IN  Writer!EndArray(after[Len(edges)])

WriteLinks(w, S) ==
    LET after[k \in 0..Cardinality(S)] ==
            IF k = 0 THEN Writer!StartArray(w) ELSE Writer!Write(after[k - 1])
    IN  Writer!EndArray(after[Cardinality(S)])

WriteFsm(w, f, source) ==
    Writer!EndObject(WriteLinks(WriteStates(Writer!Write(Writer!StartObject(w)), source[f]), Group(f)))

Document(source) ==
    LET order == SetToSeq(Task)
        after[k \in 0..Cardinality(Task)] ==
            IF k = 0 THEN Writer!StartArray(Writer!NewWriter)
                     ELSE WriteFsm(after[k - 1], order[k], source)
    IN  Writer!EndArray(after[Cardinality(Task)])

\* str() asserts that the document is whole.
WriteJson(source) == /\ pc = "json"
                     /\ \A f \in Task : IsSource(f, source[f])
                     /\ json' = Document(source).out
                     /\ pc' = IF Writer!IsWhole(Document(source)) THEN "done" ELSE "failed"
                     /\ UNCHANGED <<formal, valid, toPrint, printed, grouped>> /\ Kept

NoJson == /\ pc = "json"
          /\ pc' = "done"
          /\ UNCHANGED <<formal, valid, toPrint, printed, grouped, json>> /\ Kept

Printing == \/ \E f \in Task : PrintFsm(f) \/ GroupFsm(f) \/ GroupFails(f)
            \/ AllPrinted \/ AllGrouped \/ PrintGroups \/ NoJson

\* What main does after create_properties, with the groups and the verdicts that
\* the stages which are modelled elsewhere may come to.
Main(families, verdicts, sources) == \/ \E groups \in families : Couple(groups)
                                     \/ DoNotCouple
                                     \/ Crossing /\ UNCHANGED reportVars
                                     \/ \E reached \in verdicts : Prove(reached)
                                     \/ DoNotProve
                                     \/ Printing
                                     \/ \E source \in sources : WriteJson(source)

AllVerdicts == SUBSET DOMAIN properties
AllFamilies == SUBSET {p \in Task \X Task : p[1] # p[2]}

ReportNext == \/ Next /\ UNCHANGED <<crossVars, reportVars>>
              \/ Main(AllFamilies, AllVerdicts, [Task -> Seq(Constant)])

ReportSpec == /\ Init /\ CrossInit /\ ReportInit
              /\ [][ReportNext]_allVars

-------------------------------------------------------------------------------
\* What is printed of a state machine is each of its states once, with the states that
\* the source says come next, and with --formal those the prover has found as well; and
\* none but a transition within the machine, although properties about two machines
\* are in the same map.
Expects(f, m, n) == \E a \in arcs[f] : value[a[1]] = value[m] /\ value[a[2]] = value[n]

Reached(f, m, n) ==
    \E i \in valid : Key(properties[i]) = [var1 |-> f, state1 |-> m, var2 |-> f, state2 |-> n]

PrintedExact ==
    \A f \in DOMAIN printed : ~isCounter[f] =>
        /\ {l.state : l \in printed[f]} = states[f]
        /\ Cardinality(printed[f]) = Cardinality(states[f])
        /\ \A l \in printed[f] : \A n \in Constant :
              LET marks == {e \in l.next : e.state = n}
              IN  IF n \in states[f] /\ (Expects(f, l.state, n) \/ Reached(f, l.state, n))
                  THEN marks = {[state |-> n, unreachable |-> formal /\ ~Reached(f, l.state, n)]}
                  ELSE marks = {}

\* The run ends in an assertion only after a proof, with groups asked for, and only when
\* a counter has no value to be checked; what it would have written is lost.
FailsOnlyForEmptyCounter ==
    pc = "failed" => formal /\ computeCoupled /\ \E f \in Task : isCounter[f] /\ states[f] = {}

\* The pairs of states printed under a machine are those of coupled machines that the
\* prover has reached, and a pair is not printed again under the other machine.
PairsExact ==
    formal =>
        /\ \A f \in DOMAIN grouped : \A i \in grouped[f] : i \in valid /\ i \in Cross
        /\ \A f, g \in DOMAIN grouped : f # g => grouped[f] \cap grouped[g] = {}
        /\ pc = "done" /\ computeCoupled => UNION {grouped[f] : f \in Task} = Cross \cap valid

\* The JSON file is one: elements have a comma between them and nowhere else, whatever
\* is empty, and every list of it is closed.
JsonWellFormed == Writer!CommasFit(json) /\ (json # <<>> => pc = "done")

\* Every run ends: no thread waits for the mutex or for a future for ever, and main
\* comes to the end of its loops.
Ends == <>(pc \in {"done", "failed"})
===============================================================================
