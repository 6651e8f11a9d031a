--------------------------- MODULE DetectorRuns_proofs ---------------------------
(***************************************************************************)
(* However many runs of the detector share the files of the temporary      *)
(* directory, no verdict of an earlier run survives; and the run that has  *)
(* them for itself prints what its prover found.                           *)
(***************************************************************************)
EXTENDS DetectorRuns, TLAPS

\* Where a run is once slang has opened its file, the file has been parsed, the script
\* has been written, the project has been removed, the prover has been started.
Opened == {"slang", "parse", "generate", "remove", "call", "proving", "read", "printed"}
Parsed == {"generate", "remove", "call", "proving", "read", "printed"}
Written == {"remove", "call", "proving", "read", "printed"}
Removed == {"call", "proving", "read", "printed"}
Started == {"proving", "read", "printed"}
Place == Opened \cup {"start", "failed"}

TypeOK == /\ ids \in [Design -> SUBSET Id]
          /\ truth \in [Design -> Verdict]
          /\ pc \in [Process -> Place]
          /\ parsed \in [Process -> Design \cup {None}]
          /\ proving \in [Process -> Design \cup {None}]
          /\ said \in [Process -> SUBSET Id]
          /\ died \in [Process -> BOOLEAN]
          /\ valid \in [Process -> SUBSET Id]

\* What the provers of the present runs can log.
NewLines == UNION {Lines(q) : q \in Process}

Sound(i) == \E q \in Process : i \in ids[q] /\ truth[q][i] = "covered"

\* What is left of earlier runs is gone from each file before the run comes to read it.
FilesInv ==
    \A p \in Process :
        /\ pc[p] \in Opened => json \in [design : Process, complete : BOOLEAN]
        /\ pc[p] \in Parsed => parsed[p] \in Process
        /\ pc[p] \in Written => wrapper \in Process
        /\ pc[p] \in Removed => \/ project = None
                                \/ project \in [owner : Process, lines : SUBSET NewLines]
        /\ pc[p] \in Started => proving[p] \in Process
        /\ pc[p] = "printed" => \A i \in valid[p] : Sound(i)

Decided(p) == {line.id : line \in Lines(p)}
LinesSaid(p) == {line \in Lines(p) : line.id \in said[p]}

\* What a run finds in the files that no other run has touched.
AloneInv ==
    \A p \in Process : Alone(p) =>
        /\ pc[p] \in Opened => json.design = p
        /\ pc[p] \in Parsed => parsed[p] = p
        /\ pc[p] \in Written => wrapper = p
        /\ pc[p] \in Started => proving[p] = p
        /\ pc[p] \in (Opened \cup {"start"}) \ Started => said[p] = {}
        /\ pc[p] = "call" => project = None
        /\ pc[p] \in {"proving", "read"} => project = [owner |-> p, lines |-> LinesSaid(p)]
        /\ pc[p] \in {"read", "printed"} => died[p] \/ Decided(p) = said[p]
        /\ pc[p] = "printed" =>
              valid[p] = {line.id : line \in {l \in LinesSaid(p) : Confirms(p, l)}}

Inv == TypeOK /\ FilesInv /\ AloneInv

-------------------------------------------------------------------------------
LEMMA InitInv == Init => Inv
<1> SUFFICES ASSUME Init PROVE Inv
  OBVIOUS
<1>1. TypeOK
  BY DEF Init, TypeOK, Place
<1>2. \A p \in Process : pc[p] = "start" /\ said[p] = {}
  BY DEF Init
<1>3. FilesInv
  BY <1>2 DEF FilesInv, Opened, Parsed, Written, Removed, Started
<1>4. AloneInv
  BY <1>2 DEF AloneInv, Opened, Parsed, Written, Removed, Started
<1> QED
  BY <1>1, <1>3, <1>4 DEF Inv

\* A step of one run: the others stay where they are, and no other run is alone any more.
LEMMA Moves ==
    ASSUME Inv, NEW p \in Process, NEW here, NEW there \in Place, there # "start", Step(p, here, there)
    PROVE  /\ pc' \in [Process -> Place]
           /\ pc[p] = here /\ pc'[p] = there
           /\ \A q \in Process \ {p} : pc'[q] = pc[q]
           /\ \A q \in Process : Alone(q)' => q = p /\ Alone(q)
BY DEF Step, Alone, Inv, TypeOK

\* A line of a design is about one of its properties, and says what the prover makes of it.
LEMMA LineFacts ==
    ASSUME TypeOK, NEW d \in Design
    PROVE  /\ Lines(d) \subseteq Line
           /\ \A line \in Lines(d) : /\ line.id \in ids[d]
                                     /\ line.verdict = truth[d][line.id]
                                     /\ line.verdict \in {"covered", "unreachable"}
           /\ \A i \in ids[d] : truth[d][i] # "open" => \E line \in Lines(d) : line.id = i
<1>1. /\ ids[d] \subseteq Id
      /\ \A i \in Id : truth[d][i] \in {"covered", "unreachable", "open"}
  BY VerdictAssumption DEF TypeOK
<1>2. \A line \in Lines(d) : \E i \in ids[d] : truth[d][i] # "open" /\ line = [id |-> i, verdict |-> truth[d][i]]
  BY DEF Lines
<1>3. \A i \in ids[d] : truth[d][i] # "open" => [id |-> i, verdict |-> truth[d][i]] \in Lines(d)
  BY DEF Lines
<1>4. ASSUME NEW line \in Lines(d)
      PROVE  /\ line \in Line /\ line.id \in ids[d] /\ line.verdict = truth[d][line.id]
             /\ line.verdict \in {"covered", "unreachable"}
  <2>1. PICK i \in ids[d] : truth[d][i] # "open" /\ line = [id |-> i, verdict |-> truth[d][i]]
    BY <1>2
  <2>2. i \in Id /\ truth[d][i] \in {"covered", "unreachable"}
    BY <1>1, <2>1
  <2>3. line.id = i /\ line.verdict = truth[d][i]
    BY <2>1
  <2> QED
    BY <2>1, <2>2, <2>3 DEF Line
<1>5. ASSUME NEW i \in ids[d], truth[d][i] # "open" PROVE \E line \in Lines(d) : line.id = i
  <2>1. [id |-> i, verdict |-> truth[d][i]].id = i
    OBVIOUS
  <2> QED
    BY <1>3, <1>5, <2>1, Zenon
<1> QED
  BY <1>4, <1>5

-------------------------------------------------------------------------------
(* slang and the parser.                                                   *)

LEMMA OpenStep ==
    ASSUME Inv, NEW p \in Process, SlangOpens(p) \/ SlangWrites(p)
    PROVE  Inv'
<1>1. /\ UNCHANGED <<inputs, wrapper, project, Own>>
      /\ json' \in [design : Process, complete : BOOLEAN] /\ json'.design = p
  <2>1. CASE SlangOpens(p)
    BY <2>1 DEF SlangOpens
  <2>2. CASE SlangWrites(p)
    BY <2>2 DEF SlangWrites
  <2> QED
    BY <2>1, <2>2
<1>2. /\ pc' \in [Process -> Place]
      /\ pc[p] \in {"start", "slang"} /\ pc'[p] \in {"slang", "parse"}
      /\ \A q \in Process \ {p} : pc'[q] = pc[q]
      /\ \A q \in Process : Alone(q)' => q = p /\ Alone(q)
  <2>1. CASE SlangOpens(p)
    BY <2>1, Moves DEF SlangOpens, Place, Opened
  <2>2. CASE SlangWrites(p)
    BY <2>2, Moves DEF SlangWrites, Place, Opened
  <2> QED
    BY <2>1, <2>2
<1> USE DEF inputs, Own
<1>3. TypeOK'
  BY <1>1, <1>2 DEF Inv, TypeOK
<1>4. FilesInv'
  BY <1>1, <1>2 DEF Inv, FilesInv, Opened, Parsed, Written, Removed, Started, NewLines, Lines, Sound
<1>5. AloneInv'
  BY <1>1, <1>2 DEF Inv, AloneInv, Opened, Parsed, Written, Removed, Started
<1> QED
  BY <1>3, <1>4, <1>5 DEF Inv

\* A run that gives up leaves the files to the others.
LEMMA FailStep ==
    ASSUME Inv, NEW p \in Process, SlangFails(p) \/ ParseFails(p) \/ ParseResultFails(p)
    PROVE  Inv'
<1>1. UNCHANGED <<inputs, files, Own>>
  BY DEF SlangFails, ParseFails, ParseResultFails
<1>2. /\ pc' \in [Process -> Place]
      /\ pc'[p] = "failed"
      /\ \A q \in Process \ {p} : pc'[q] = pc[q]
      /\ \A q \in Process : Alone(q)' => q = p /\ Alone(q)
  <2>1. "failed" \in Place
    BY DEF Place
  <2>2. \A here : Step(p, here, "failed") =>
            /\ pc' \in [Process -> Place]
            /\ pc'[p] = "failed"
            /\ \A q \in Process \ {p} : pc'[q] = pc[q]
            /\ \A q \in Process : Alone(q)' => q = p /\ Alone(q)
    BY <2>1, Moves
  <2> QED
    BY <2>2 DEF SlangFails, ParseFails, ParseResultFails
<1> USE DEF inputs, files, Own
<1>3. TypeOK'
  BY <1>1, <1>2 DEF Inv, TypeOK
<1>4. FilesInv'
  BY <1>1, <1>2 DEF Inv, FilesInv, Opened, Parsed, Written, Removed, Started, NewLines, Lines, Sound
<1>5. AloneInv'
  BY <1>1, <1>2 DEF Inv, AloneInv, Opened, Parsed, Written, Removed, Started
<1> QED
  BY <1>3, <1>4, <1>5 DEF Inv

LEMMA ParseJsonStep ==
    ASSUME Inv, NEW p \in Process, ParseJson(p)
    PROVE  Inv'
<1>1. /\ UNCHANGED <<inputs, files, proving, said, died, valid>>
      /\ parsed' = [parsed EXCEPT ![p] = json.design]
  BY DEF ParseJson
<1>2. /\ pc' \in [Process -> Place]
      /\ pc[p] = "parse" /\ pc'[p] = "generate"
      /\ \A q \in Process \ {p} : pc'[q] = pc[q]
      /\ \A q \in Process : Alone(q)' => q = p /\ Alone(q)
  BY Moves DEF ParseJson, Place, Opened
<1> USE DEF inputs, files
<1>3. json \in [design : Process, complete : BOOLEAN] /\ json.design \in Process
  BY <1>2 DEF Inv, FilesInv, Opened
<1>4. TypeOK'
  BY <1>1, <1>2, <1>3 DEF Inv, TypeOK, Design
<1>5. FilesInv'
  BY <1>1, <1>2, <1>3 DEF Inv, TypeOK, FilesInv, Opened, Parsed, Written, Removed, Started, NewLines, Lines, Sound
<1>6. AloneInv'
  BY <1>1, <1>2 DEF Inv, TypeOK, AloneInv, Opened, Parsed, Written, Removed, Started
<1> QED
  BY <1>4, <1>5, <1>6 DEF Inv

-------------------------------------------------------------------------------
(* JasperGoldGeneration::run.                                              *)

LEMMA CreateStep ==
    ASSUME Inv, NEW p \in Process, CreateCommandFile(p)
    PROVE  Inv'
<1>1. UNCHANGED <<inputs, json, project, Own>> /\ wrapper' = parsed[p]
  BY DEF CreateCommandFile
<1>2. /\ pc' \in [Process -> Place]
      /\ pc[p] = "generate" /\ pc'[p] = "remove"
      /\ \A q \in Process \ {p} : pc'[q] = pc[q]
      /\ \A q \in Process : Alone(q)' => q = p /\ Alone(q)
  BY Moves DEF CreateCommandFile, Place, Opened
<1> USE DEF inputs, Own
<1>3. parsed[p] \in Process
  BY <1>2 DEF Inv, FilesInv, Parsed
<1>4. TypeOK'
  BY <1>1, <1>2 DEF Inv, TypeOK
<1>5. FilesInv'
  BY <1>1, <1>2, <1>3 DEF Inv, FilesInv, Opened, Parsed, Written, Removed, Started, NewLines, Lines, Sound
<1>6. AloneInv'
  BY <1>1, <1>2 DEF Inv, AloneInv, Opened, Parsed, Written, Removed, Started
<1> QED
  BY <1>4, <1>5, <1>6 DEF Inv

LEMMA RemoveStep ==
    ASSUME Inv, NEW p \in Process, RemoveProject(p)
    PROVE  Inv'
<1>1. UNCHANGED <<inputs, json, wrapper, Own>> /\ project' = None
  BY DEF RemoveProject, DropProject
<1>2. /\ pc' \in [Process -> Place]
      /\ pc[p] = "remove" /\ pc'[p] = "call"
      /\ \A q \in Process \ {p} : pc'[q] = pc[q]
      /\ \A q \in Process : Alone(q)' => q = p /\ Alone(q)
  BY Moves DEF RemoveProject, Place, Opened
<1> USE DEF inputs, Own
<1>3. TypeOK'
  BY <1>1, <1>2 DEF Inv, TypeOK
<1>4. FilesInv'
  BY <1>1, <1>2 DEF Inv, FilesInv, Opened, Parsed, Written, Removed, Started, NewLines, Lines, Sound
<1>5. AloneInv'
  BY <1>1, <1>2 DEF Inv, AloneInv, Opened, Parsed, Written, Removed, Started
<1> QED
  BY <1>3, <1>4, <1>5 DEF Inv

LEMMA StartStep ==
    ASSUME Inv, NEW p \in Process, StartProver(p)
    PROVE  Inv'
<1>1. /\ UNCHANGED <<inputs, json, wrapper, parsed, said, died, valid>>
      /\ proving' = [proving EXCEPT ![p] = wrapper]
      /\ project' = IF project = None THEN [owner |-> p, lines |-> {}] ELSE project
  BY DEF StartProver
<1>2. /\ pc' \in [Process -> Place]
      /\ pc[p] = "call" /\ pc'[p] = "proving"
      /\ \A q \in Process \ {p} : pc'[q] = pc[q]
      /\ \A q \in Process : Alone(q)' => q = p /\ Alone(q)
  BY Moves DEF StartProver, Place, Opened
<1> USE DEF inputs
<1>3. wrapper \in Process
  BY <1>2 DEF Inv, FilesInv, Written
<1>4. TypeOK'
  BY <1>1, <1>2, <1>3 DEF Inv, TypeOK, Design
<1>5. FilesInv'
  <2>1. NewLines' = NewLines /\ \A i : Sound(i)' = Sound(i)
    BY <1>1 DEF NewLines, Lines, Sound
  <2>2. project' = None \/ project' \in [owner : Process, lines : SUBSET NewLines]
    BY <1>1, <1>2 DEF Inv, FilesInv, Removed
  <2> QED
    BY <1>1, <1>2, <1>3, <2>1, <2>2 DEF Inv, TypeOK, FilesInv, Opened, Parsed, Written, Removed, Started
<1>6. AloneInv'
  <2> SUFFICES ASSUME Alone(p), Alone(p)'
               PROVE  /\ json'.design = p /\ parsed'[p] = p /\ wrapper' = p /\ proving'[p] = p
                      /\ project' = [owner |-> p, lines |-> LinesSaid(p)']
    BY <1>2 DEF AloneInv, Opened, Parsed, Written, Removed, Started
  <2>1. json.design = p /\ parsed[p] = p /\ wrapper = p /\ said[p] = {} /\ project = None
    BY <1>2 DEF Inv, AloneInv, Opened, Parsed, Written, Started
  <2>2. LinesSaid(p)' = {}
    BY <1>1, <2>1 DEF LinesSaid
  <2> QED
    BY <1>1, <2>1, <2>2 DEF Inv, TypeOK
<1> QED
  BY <1>4, <1>5, <1>6 DEF Inv

\* The prover logs a line about the design it was started on.
LEMMA SayStep ==
    ASSUME Inv, NEW p \in Process, ProverSays(p)
    PROVE  Inv'
<1>1. PICK line \in Lines(proving[p]) :
          /\ line.id \notin said[p]
          /\ said' = [said EXCEPT ![p] = @ \cup {line.id}]
          /\ project' = Logged(p, line)
  BY DEF ProverSays
<1>2. pc[p] = "proving" /\ UNCHANGED <<inputs, json, wrapper, pc, parsed, proving, died, valid>>
  BY DEF ProverSays
<1> USE DEF inputs
<1>3. proving[p] \in Process /\ proving[p] \in Design
  BY <1>2 DEF Inv, FilesInv, Started, Design
<1>4. line \in NewLines /\ line.id \in Id
  BY <1>1, <1>3, LineFacts DEF NewLines, Line, Inv
<1>5. TypeOK'
  BY <1>1, <1>2, <1>4 DEF Inv, TypeOK
<1>6. FilesInv'
  <2>1. NewLines' = NewLines /\ \A i : Sound(i)' = Sound(i)
    BY <1>2 DEF NewLines, Lines, Sound
  <2>2. project = None \/ project \in [owner : Process, lines : SUBSET NewLines]
    BY <1>2 DEF Inv, FilesInv, Removed
  <2>3. project' = None \/ project' \in [owner : Process, lines : SUBSET NewLines]
    BY <1>1, <1>4, <2>2 DEF Logged
  <2> QED
    BY <1>2, <2>1, <2>3 DEF Inv, FilesInv
<1>7. AloneInv'
  <2>1. \A q \in Process : Alone(q)' => q = p /\ Alone(q)
    BY <1>2 DEF Alone
  <2> SUFFICES ASSUME Alone(p)
               PROVE  /\ json'.design = p /\ parsed'[p] = p /\ wrapper' = p /\ proving'[p] = p
                      /\ project' = [owner |-> p, lines |-> LinesSaid(p)']
    BY <1>2, <2>1 DEF AloneInv, Opened, Parsed, Written, Removed, Started
  <2>2. /\ json.design = p /\ parsed[p] = p /\ wrapper = p /\ proving[p] = p
        /\ project = [owner |-> p, lines |-> LinesSaid(p)]
    BY <1>2 DEF Inv, AloneInv, Opened, Parsed, Written, Started
  <2>3. project \in Project /\ project # None
    BY <2>2, <1>3, LineFacts, NamesAssumption DEF Project, LinesSaid, Inv
  <2>4. project' = [owner |-> p, lines |-> LinesSaid(p) \cup {line}]
    BY <1>1, <2>2, <2>3 DEF Logged
  <2>5. LinesSaid(p)' = LinesSaid(p) \cup {line}
    <3>1. \A k, l \in Lines(p) : k.id = l.id => k = l
      BY <1>3, <2>2, LineFacts DEF Inv, Line
    <3>2. Lines(p)' = Lines(p) /\ said'[p] = said[p] \cup {line.id} /\ line \in Lines(p)
      BY <1>1, <1>2, <2>2 DEF Lines, Inv, TypeOK
    <3> QED
      BY <3>1, <3>2 DEF LinesSaid
  <2> QED
    BY <1>2, <2>2, <2>4, <2>5
<1> QED
  BY <1>5, <1>6, <1>7 DEF Inv

LEMMA ProverEndStep ==
    ASSUME Inv, NEW p \in Process, ProverEnds(p) \/ ProverDies(p)
    PROVE  Inv'
<1>1. /\ UNCHANGED <<inputs, files, parsed, proving, said, valid>>
      /\ died' \in [Process -> BOOLEAN]
      /\ died'[p] \/ Decided(proving[p]) = said[p]
  BY DEF ProverEnds, ProverDies, Own, Decided, Inv, TypeOK
<1>2. /\ pc' \in [Process -> Place]
      /\ pc[p] = "proving" /\ pc'[p] = "read"
      /\ \A q \in Process \ {p} : pc'[q] = pc[q]
      /\ \A q \in Process : Alone(q)' => q = p /\ Alone(q)
  <2>1. CASE ProverEnds(p)
    BY <2>1, Moves DEF ProverEnds, Place, Opened
  <2>2. CASE ProverDies(p)
    BY <2>2, Moves DEF ProverDies, Place, Opened
  <2> QED
    BY <2>1, <2>2
<1> USE DEF inputs, files
<1>3. TypeOK'
  BY <1>1, <1>2 DEF Inv, TypeOK
<1>4. FilesInv'
  BY <1>1, <1>2 DEF Inv, FilesInv, Opened, Parsed, Written, Removed, Started, NewLines, Lines, Sound
<1>5. AloneInv'
  <2> SUFFICES ASSUME Alone(p)
               PROVE  /\ json'.design = p /\ parsed'[p] = p /\ wrapper' = p /\ proving'[p] = p
                      /\ project' = [owner |-> p, lines |-> LinesSaid(p)']
                      /\ died'[p] \/ Decided(p)' = said'[p]
    BY <1>2 DEF AloneInv, Opened, Parsed, Written, Removed, Started
  <2>1. /\ json.design = p /\ parsed[p] = p /\ wrapper = p /\ proving[p] = p
        /\ project = [owner |-> p, lines |-> LinesSaid(p)]
    BY <1>2 DEF Inv, AloneInv, Opened, Parsed, Written, Started
  <2>2. LinesSaid(p)' = LinesSaid(p) /\ Decided(p)' = Decided(p)
    BY <1>1 DEF LinesSaid, Decided, Lines
  <2> QED
    BY <1>1, <2>1, <2>2
<1> QED
  BY <1>3, <1>4, <1>5 DEF Inv

LEMMA ReadStep ==
    ASSUME Inv, NEW p \in Process, ParseResult(p)
    PROVE  Inv'
<1> DEFINE v == {line.id : line \in {l \in project.lines : Confirms(p, l)}}
<1>1. /\ UNCHANGED <<inputs, files, parsed, proving, said, died>>
      /\ project # None
      /\ {line.id : line \in project.lines} \subseteq ids[parsed[p]]
      /\ valid' = [valid EXCEPT ![p] = v]
  BY DEF ParseResult
<1>2. /\ pc' \in [Process -> Place]
      /\ pc[p] = "read" /\ pc'[p] = "printed"
      /\ \A q \in Process \ {p} : pc'[q] = pc[q]
      /\ \A q \in Process : Alone(q)' => q = p /\ Alone(q)
  BY Moves DEF ParseResult, Place, Opened
<1> USE DEF inputs, files
<1>3. project \in [owner : Process, lines : SUBSET NewLines]
  BY <1>1, <1>2 DEF Inv, FilesInv, Removed
<1>4. \A i \in v : i \in Id /\ Sound(i)
  <2> SUFFICES ASSUME NEW line \in project.lines, Confirms(p, line)
               PROVE  line.id \in Id /\ Sound(line.id)
    OBVIOUS
  <2>1. PICK q \in Process : line \in Lines(q)
    BY <1>3 DEF NewLines
  <2>2. /\ line \in Line /\ line.id \in ids[q]
        /\ line.verdict = truth[q][line.id] /\ line.verdict \in {"covered", "unreachable"}
    BY <2>1, LineFacts DEF Inv, Design
  <2> QED
    BY <2>2 DEF Sound, Confirms, Line
<1> HIDE DEF v
<1>5. TypeOK'
  BY <1>1, <1>2, <1>4 DEF Inv, TypeOK
<1>6. FilesInv'
  <2>1. NewLines' = NewLines /\ \A i : Sound(i)' = Sound(i)
    BY <1>1 DEF NewLines, Lines, Sound
  <2> QED
    BY <1>1, <1>2, <1>4, <2>1 DEF Inv, TypeOK, FilesInv, Opened, Parsed, Written, Removed, Started
<1>7. AloneInv'
  <2> SUFFICES ASSUME Alone(p)
               PROVE  /\ json'.design = p /\ parsed'[p] = p /\ wrapper' = p /\ proving'[p] = p
                      /\ died'[p] \/ Decided(p)' = said'[p]
                      /\ valid'[p] = {line.id : line \in {l \in LinesSaid(p)' : Confirms(p, l)}}
    BY <1>2 DEF AloneInv, Opened, Parsed, Written, Removed, Started, Confirms
  <2>1. /\ json.design = p /\ parsed[p] = p /\ wrapper = p /\ proving[p] = p
        /\ project = [owner |-> p, lines |-> LinesSaid(p)]
        /\ died[p] \/ Decided(p) = said[p]
    BY <1>2 DEF Inv, AloneInv, Opened, Parsed, Written, Started
  <2>2. LinesSaid(p)' = LinesSaid(p) /\ Decided(p)' = Decided(p)
    BY <1>1 DEF LinesSaid, Decided, Lines
  <2>3. valid'[p] = v
    BY <1>1 DEF Inv, TypeOK
  <2>4. project.lines = LinesSaid(p)
    BY <2>1
  <2> QED
    BY <1>1, <2>1, <2>2, <2>3, <2>4 DEF v
<1> QED
  BY <1>5, <1>6, <1>7 DEF Inv

-------------------------------------------------------------------------------
LEMMA NextInv == Inv /\ [Next]_vars => Inv'
<1> SUFFICES ASSUME Inv, [Next]_vars PROVE Inv'
  OBVIOUS
<1>1. ASSUME NEW p \in Process, Run(p) PROVE Inv'
  BY <1>1, OpenStep, FailStep, ParseJsonStep, CreateStep, RemoveStep, StartStep, SayStep,
     ProverEndStep, ReadStep DEF Run
<1>2. CASE UNCHANGED vars
  <2> USE <1>2 DEF vars, inputs, files
  <2>1. TypeOK'
    BY DEF Inv, TypeOK
  <2>2. FilesInv'
    BY DEF Inv, FilesInv, NewLines, Lines, Sound
  <2>3. AloneInv'
    BY DEF Inv, AloneInv, Alone, LinesSaid, Decided, Lines, Confirms
  <2> QED
    BY <2>1, <2>2, <2>3 DEF Inv
<1> QED
  BY <1>1, <1>2 DEF Next

\* The invariant holds throughout, however many runs there are.
THEOREM Invariance == Spec => []Inv
<1> QED
  BY InitInv, NextInv, PTL DEF Spec

\* No verdict of a run that was over before is ever printed as one of this run.
THEOREM Freshness == Spec => []NothingFromEarlier
<1>1. Inv => NothingFromEarlier
  BY DEF Inv, FilesInv, Sound, NothingFromEarlier
<1> QED
  BY <1>1, Invariance, PTL

LEMMA InvVerdictsExact == Inv => VerdictsExact
<1> SUFFICES ASSUME Inv, NEW p \in Process, pc[p] = "printed", Alone(p)
             PROVE  /\ \A i \in valid[p] : truth[p][i] = "covered"
                    /\ ~died[p] /\ (\A i \in ids[p] : truth[p][i] # "open") =>
                          Unreachable(p) = {i \in ids[p] : truth[p][i] = "unreachable"}
  BY DEF VerdictsExact
<1>1. /\ parsed[p] = p
      /\ died[p] \/ Decided(p) = said[p]
      /\ valid[p] = {line.id : line \in {l \in LinesSaid(p) : Confirms(p, l)}}
  BY DEF Inv, AloneInv, Parsed
<1>2. p \in Design /\ \A line \in Lines(p) : /\ line.id \in ids[p]
                                             /\ line.verdict = truth[p][line.id]
                                             /\ line.verdict \in {"covered", "unreachable"}
  BY LineFacts DEF Inv, Design
<1>3. \A i \in ids[p] : truth[p][i] # "open" => \E line \in Lines(p) : line.id = i
  BY LineFacts DEF Inv, Design
<1>4. \A i \in valid[p] : i \in ids[p] /\ truth[p][i] = "covered"
  BY <1>1, <1>2 DEF LinesSaid, Confirms
<1>5. ASSUME ~died[p], \A i \in ids[p] : truth[p][i] # "open"
      PROVE  Unreachable(p) = {i \in ids[p] : truth[p][i] = "unreachable"}
  <2>1. ASSUME NEW i \in ids[p], truth[p][i] # "unreachable" PROVE i \in valid[p]
    <3>1. PICK line \in Lines(p) : line.id = i
      BY <1>3, <1>5
    <3>2. line \in LinesSaid(p) /\ Confirms(p, line)
      BY <1>1, <1>2, <1>5, <2>1, <3>1 DEF LinesSaid, Decided, Confirms
    <3> QED
      BY <1>1, <3>1, <3>2
  <2> QED
    BY <1>1, <1>4, <2>1 DEF Unreachable
<1> QED
  BY <1>4, <1>5

\* The run that has the files for itself calls nothing reachable that its prover did not
\* cover, and prints exactly what a prover that decides everything has found.
THEOREM Verdicts == Spec => []VerdictsExact
BY InvVerdictsExact, Invariance, PTL
===============================================================================
