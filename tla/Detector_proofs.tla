----------------------------- MODULE Detector_proofs -----------------------------
(***************************************************************************)
(* One run of the detector for any designs, options, ports and machines to *)
(* run on: it fails only for what is wrong with its input or in one of the *)
(* five ways that contradict the repository's own words, takes the top     *)
(* that was asked for, and hands the prover pins that the wrapper has, with*)
(* a level of the reset that somebody or something has told.  What a merge *)
(* leaves and what the machines below the top are is not looked into: the  *)
(* proofs hold whatever Ancestors is.                                      *)
(***************************************************************************)
EXTENDS Detector, FiniteSetTheorems, WellFoundedInduction, TLAPS

\* The values of pc, from the last stages to the first.
AfterAnalysis == {"properties", "printed", "wrapper", "script", "reset line", "proved"}
AfterReset == {"polarity", "analyze"} \cup AfterAnalysis
AfterClock == {"reset"} \cup AfterReset
AfterMerge == {"clock"} \cup AfterClock
Rooted == {"detect", "stuck", "merge"} \cup AfterMerge
Unrooted == {"start", "threads", "sources", "top"}

Lines == [clock : Name \cup {NoName}, reset : Name \cup {NoName},
          active : {"nothing", "unfinished", "high", "low"}]

InputOK ==
    /\ design \in Designs
    /\ options.top \in TopNames \cup {NoTop}
    /\ options.cpus \in {{}} \cup {{n} : n \in Cores}
    /\ options.source \in {"json", "files", "list", "list of missing files"}
    /\ env.slang \in {"unset", "empty", "set"}
    /\ env.onPath \in {"none", "slang", "slang-driver"}
    /\ env.hardware \in Cores
    /\ userClock \in Name \cup {NoName} /\ userReset \in Name \cup {NoName}
    /\ userType \in ResetTypes

TypeOK == /\ InputOK
          /\ ports \subseteq Name
          /\ root \in Nodes \cup {NoNode}
          /\ clockName \in Name \cup {NoName} /\ resetName \in Name \cup {NoName}
          /\ resetType \in ResetTypes
          /\ script \in Lines
          /\ pc \in Unrooted \cup Rooted \cup {"failed"}

\* What detect_slang leaves in the variable.
Detected == CASE env.slang # "unset" -> env.slang
              [] env.beside -> "beside"
              [] env.inCwd -> "in cwd"
              [] OTHER -> env.slang

StartInv == /\ pc = "start" => slang = env.slang
            /\ pc \in {"threads", "sources"} => slang = Detected
            /\ pc \in {"sources", "top", "detect"} /\ workers = 0 =>
                  options.cpus = {0} /\ env.hardware = 0

TopInv == /\ pc \in Unrooted => root = NoNode
          /\ pc \in Rooted => root \in Nodes /\ ports = design.ports[root]

\* A merge takes no last machine away.
FsmsInv == /\ pc = "merge" => fsms = Placed \cap design.machines
           /\ pc \in {"merge"} \cup AfterMerge =>
                 /\ fsms \subseteq Placed \cap design.machines
                 /\ fsms = {} => Placed \cap design.machines = {}

\* Why a run may fail, and why it may never end.
Reason == BadInput \/ Departure

NoEnd == \/ options.cpus = {0} /\ env.hardware = 0
         \/ Placed \cap design.endless # {}

\* A pin that was looked for is a port, or neither named nor there.
IsFound(pin, user, names) == /\ pin \in ports \cup {NoName} /\ user \in {NoName, pin}
                             /\ pin = NoName => user = NoName /\ ports \cap names = {}

\* The type of the reset before and after analyze_reset.
NamedType == IF resetName \in NegResetNames /\ userType = "Default" THEN "Negedge" ELSE userType

FinalType == IF NamedType # "None" /\ Heard # <<>>
             THEN IF Heard[1] = "posedge" THEN "Posedge" ELSE "Negedge"
             ELSE NamedType

PinInv == /\ pc = "clock" => clockName = userClock
          /\ pc \in {"clock", "reset"} => resetName = userReset
          /\ pc \in {"clock", "reset", "polarity"} => resetType = userType
          /\ pc \in AfterClock => IsFound(clockName, userClock, ClockNames)
          /\ pc \in AfterReset => IsFound(resetName, userReset, ResetNames)
          /\ pc = "analyze" => resetType = NamedType
          /\ pc \in AfterAnalysis => /\ resetType = FinalType
                                     /\ userType # "None" => resetName # NoName

WrapperInv == /\ pc \in {"wrapper", "script", "reset line", "proved"} => formal
              /\ pc \in {"script", "reset line", "proved"} =>
                    /\ wrapper.dut = design.definition[root] /\ wrapper.dut # NoDefinition
                    /\ wrapper.ports = ports
                    /\ wrapper.clock \in {NoName, clockName}

ScriptInv == /\ pc \in {"reset line", "proved"} => script.clock = clockName /\ clockName # NoName
             /\ pc # "proved" => script.active = "nothing"
             /\ pc = "proved" =>
                   /\ resetName # NoName /\ resetType # "Default"
                   /\ resetType = "None" => script.active = "unfinished"
                   /\ resetType # "None" => /\ script.reset = resetName
                                            /\ script.active = IF resetType = "Posedge" THEN "high" ELSE "low"

Inv == /\ TypeOK
       /\ StartInv
       /\ TopInv
       /\ FsmsInv
       /\ PinInv
       /\ WrapperInv
       /\ ScriptInv
       /\ StopsForAReason
       /\ RootIsAsked

-------------------------------------------------------------------------------
\* Some element of a set of numbers is below all others.
LEMMA LeastElement ==
    ASSUME NEW T \in SUBSET Nat, T # {}
    PROVE  \E x \in T : \A y \in T : x <= y
<1> DEFINE F == {0..n : n \in T}
           R == StrictSubsetOrdering(Nat)
<1>1. IsWellFoundedOn(R, FiniteSubsetsOf(Nat))
  BY FS_StrictSubsetOrderingWellFounded
<1>2. \A n \in Nat : IsFiniteSet(0..n) /\ 0..n \in SUBSET Nat
  BY FS_Interval
<1>3. F \subseteq FiniteSubsetsOf(Nat) /\ F # {}
  BY <1>2 DEF FiniteSubsetsOf
<1> HIDE DEF F, R
<1>4. \E x \in F : \A y \in F : ~(<<y, x>> \in R)
  BY <1>1, <1>3, WFMin
<1> USE DEF F, R
<1>5. PICK n \in T : \A k \in T : <<0..k, 0..n>> \notin StrictSubsetOrdering(Nat)
  BY <1>4
<1>6. ASSUME NEW k \in T, k < n PROVE FALSE
  <2>1. 0..k \subseteq 0..n /\ 0..k # 0..n
    BY <1>6
  <2>2. 0..k \in SUBSET Nat /\ 0..n \in SUBSET Nat
    BY <1>2
  <2> HIDE DEF F, R
  <2>3. <<0..k, 0..n>> \in StrictSubsetOrdering(Nat)
    BY <2>1, <2>2, Zenon DEF StrictSubsetOrdering
  <2> QED
    BY <2>3, <1>5
<1> QED
  BY <1>6

\* A pin that is looked for by its names is found among the ports if one of them is there.
LEMMA PickFinds ==
    ASSUME ports \subseteq Name, NEW names \in SUBSET Name
    PROVE  /\ Pick(names) \in ports \cup {NoName}
           /\ Pick(names) = NoName <=> ports \cap names = {}
<1>1. ports \cap names \in SUBSET Nat /\ NoName \notin Name
  BY PinNamesAssumption
<1>2. ASSUME ports \cap names # {}
      PROVE  Smallest(ports \cap names) \in ports \cap names
  BY <1>1, <1>2, LeastElement DEF Smallest
<1> QED
  BY <1>1, <1>2 DEF Pick

\* The pool has a worker unless it is left to a machine that counts no core.
LEMMA SomeWorker ==
    ASSUME options.cpus \in {{}} \cup {{n} : n \in Cores}, env.hardware \in Cores, SetThreads,
           workers' = 0
    PROVE  options.cpus = {0} /\ env.hardware = 0
<1>1. Cores \subseteq Nat
  BY OptionsAssumption
<1>2. CASE options.cpus = {}
  <2> DEFINE half == env.hardware \div 2
  <2>1. half \in Nat
    <3>1. \A h \in Nat : h \div 2 \in Nat
      OBVIOUS
    <3>2. env.hardware \in Nat
      BY <1>1
    <3> QED
      BY <3>1, <3>2
  <2> HIDE DEF half
  <2>2. Max({1, half}) \in {1, half} /\ Max({1, half}) >= 1
    <3>1. \E x \in {1, half} : \A y \in {1, half} : x >= y
      BY <2>1
    <3> QED
      BY <2>1, <3>1 DEF Max
  <2>3. workers' = Max({1, half})
    BY <1>2 DEF SetThreads, HalfTheCores, half
  <2> QED
    BY <2>2, <2>3
<1>3. CASE options.cpus = {0}
  BY <1>3 DEF SetThreads
<1>4. CASE options.cpus # {} /\ options.cpus # {0}
  <2>1. PICK n \in Cores : options.cpus = {n}
    BY <1>4
  <2>2. n \in Nat /\ n # 0
    BY <1>1, <1>4, <2>1
  <2>3. Max({n}) = n
    BY <2>2 DEF Max
  <2> QED
    BY <1>4, <2>1, <2>2, <2>3 DEF SetThreads
<1> QED
  BY <1>2, <1>3, <1>4

-------------------------------------------------------------------------------
LEMMA InitInv == Init => Inv
<1> SUFFICES ASSUME Init PROVE Inv
  OBVIOUS
<1> USE DEF Init, PinInit
<1>1. TypeOK
  <2>1. InputOK
    BY DEF InputOK
  <2> QED
    BY <2>1 DEF TypeOK, Lines, ResetTypes, NoScript, Unrooted
<1>2. StartInv
  BY DEF StartInv
<1>3. TopInv /\ FsmsInv /\ PinInv /\ WrapperInv
  BY DEF TopInv, FsmsInv, PinInv, WrapperInv, Unrooted, Rooted, AfterMerge, AfterClock,
         AfterReset, AfterAnalysis
<1>4. ScriptInv
  BY DEF ScriptInv, NoScript
<1>5. StopsForAReason /\ RootIsAsked
  BY DEF StopsForAReason, RootIsAsked
<1> QED
  BY <1>1, <1>2, <1>3, <1>4, <1>5 DEF Inv

\* What is said of the input and of the top stays so while they do.
LEMMA InputKept ==
    ASSUME UNCHANGED <<design, options, root>>
    PROVE  /\ Placed' = Placed
           /\ Nodes' = Nodes
           /\ BadTop' = BadTop
           /\ AskedByInstance' = AskedByInstance
           /\ RootIsAsked' = RootIsAsked
<1>1. Nodes' = Nodes
  BY DEF Nodes
<1>2. \A n : Ancestors(n)' = Ancestors(n)
  BY <1>1 DEF Ancestors
<1>3. Placed' = Placed
  BY <1>1, <1>2 DEF Placed
<1>4. BadTop' = BadTop /\ RootIsAsked' = RootIsAsked
  BY <1>1 DEF BadTop, RootIsAsked, ManyTops, CouldBeTop, IsAsked, IsDefined
<1>5. AskedByInstance' = AskedByInstance
  BY <1>1 DEF AskedByInstance, NothingHas, ManyTops, CouldBeTop, IsAsked
<1> QED
  BY <1>1, <1>3, <1>4, <1>5

LEMMA ReasonKept ==
    ASSUME UNCHANGED <<design, options, env, root, ports, sinks, userClock, userReset, userType,
                       formal, resetName>>
    PROVE  Reason' = Reason /\ NoEnd' = NoEnd
<1>1. /\ Placed' = Placed /\ Nodes' = Nodes /\ BadTop' = BadTop
      /\ AskedByInstance' = AskedByInstance
  BY InputKept
<1>2. Heard' = Heard
  BY DEF Heard
<1>3. BadBelow' = BadBelow
  BY <1>1 DEF BadBelow, NoResetPort
<1>4. BadInput' = BadInput
  BY <1>1, <1>3 DEF BadInput
<1>5. Departure' = Departure
  BY <1>1, <1>2 DEF Departure, BranchingCondition, MergeLosesOne, Mergeable, NoneButNoReset,
                    NoDefaultType, NoResetPort
<1> QED
  BY <1>1, <1>4, <1>5 DEF Reason, NoEnd

\* A stage that ends the run for a reason.
LEMMA FailInv ==
    ASSUME Inv, pc # "proved", pc' = "failed", UNCHANGED <<ports, given, pins, root>>, Reason
    PROVE  Inv'
<1> USE DEF given, pins
<1>1. TypeOK'
  <2>1. Nodes' = Nodes /\ InputOK'
    BY InputKept DEF Inv, TypeOK, InputOK
  <2> QED
    BY <2>1 DEF Inv, TypeOK
<1>2. StartInv' /\ PinInv' /\ TopInv' /\ FsmsInv' /\ WrapperInv'
  BY DEF StartInv, PinInv, TopInv, FsmsInv, WrapperInv, Unrooted, Rooted, AfterMerge, AfterClock,
         AfterReset, AfterAnalysis
<1>3. ScriptInv'
  BY DEF Inv, ScriptInv
<1>4. StopsForAReason'
  BY ReasonKept DEF StopsForAReason, Reason
<1>5. RootIsAsked'
  BY InputKept DEF Inv
<1> QED
  BY <1>1, <1>2, <1>3, <1>4, <1>5 DEF Inv

-------------------------------------------------------------------------------
(* Before the design is parsed.                                            *)

LEMMA BeforeParsing ==
    ASSUME Inv, DetectSlang \/ SetThreads \/ ((ReadJson \/ RunSlang) /\ pc' = "top")
    PROVE  Inv'
<1> USE DEF At, given, pins, stages
<1>1. /\ UNCHANGED <<design, options, env, root, ports, sinks, userClock, userReset, userType,
                     formal, clockName, resetName, resetType, script>>
      /\ pc \in Unrooted /\ pc' \in Unrooted
  BY DEF DetectSlang, SetThreads, ReadJson, RunSlang, Unrooted
<1>2. Nodes' = Nodes /\ InputOK' /\ RootIsAsked'
  BY <1>1, InputKept DEF Inv, TypeOK, InputOK
<1>3. TypeOK'
  BY <1>1, <1>2 DEF Inv, TypeOK
<1>4. StartInv'
  <2>1. CASE DetectSlang
    <3>1. slang = env.slang
      BY <2>1 DEF DetectSlang, Inv, StartInv
    <3> QED
      BY <2>1, <3>1, <1>1 DEF DetectSlang, StartInv, Detected
  <2>2. CASE SetThreads
    <3>1. pc = "threads" /\ pc' = "sources" /\ slang = Detected /\ slang' = slang
      BY <2>2 DEF SetThreads, Inv, StartInv
    <3>2. Detected' = Detected
      BY <1>1 DEF Detected
    <3>3. workers' = 0 => options.cpus = {0} /\ env.hardware = 0
      BY <2>2, SomeWorker DEF Inv, TypeOK, InputOK
    <3> QED
      BY <1>1, <3>1, <3>2, <3>3 DEF StartInv
  <2>3. CASE (ReadJson \/ RunSlang) /\ pc' = "top"
    <3>1. pc = "sources" /\ pc' = "top" /\ workers' = workers
      BY <2>3 DEF ReadJson, RunSlang
    <3> QED
      BY <1>1, <3>1 DEF Inv, StartInv
  <2> QED
    BY <2>1, <2>2, <2>3
<1>5. TopInv' /\ FsmsInv' /\ PinInv' /\ WrapperInv'
  BY <1>1 DEF Inv, TopInv, FsmsInv, PinInv, WrapperInv, Unrooted, Rooted, AfterMerge, AfterClock,
              AfterReset, AfterAnalysis
<1>6. ScriptInv' /\ StopsForAReason'
  BY <1>1 DEF Inv, ScriptInv, StopsForAReason, Unrooted
<1> QED
  BY <1>2, <1>3, <1>4, <1>5, <1>6 DEF Inv

\* Parsing ends a run without slang, with sources that are not there or not accepted.
LEMMA NotParsed ==
    ASSUME Inv, ReadList \/ ((ReadJson \/ RunSlang) /\ pc' # "top")
    PROVE  Inv'
<1> USE DEF At, given, pins, stages
<1>1. pc = "sources" /\ pc' = "failed" /\ UNCHANGED <<ports, given, pins, root>>
  BY DEF ReadList, ReadJson, RunSlang
<1>2. Reason
  <2>1. CASE ReadList
    BY <2>1 DEF ReadList, Reason, BadInput
  <2>2. CASE ~env.parses
    BY <2>2 DEF Reason, BadInput
  <2>3. CASE RunSlang /\ pc' # "top" /\ env.parses
    <3>1. FoundSlang = "none" /\ options.source # "json"
      BY <2>3 DEF RunSlang
    <3>2. slang = Detected
      BY <1>1 DEF Inv, StartInv
    <3>3. env.slang \in {"unset", "empty", "set"}
      BY DEF Inv, TypeOK, InputOK
    <3>4. slang \in {"unset", "empty"} /\ env.onPath = "none"
      BY <3>1, <3>2, <3>3 DEF FoundSlang, Detected
    <3>5. env.slang = "empty" \/ (env.slang = "unset" /\ ~env.beside /\ ~env.inCwd)
      BY <3>2, <3>3, <3>4 DEF Detected
    <3> QED
      BY <3>1, <3>4, <3>5 DEF Reason, BadInput
  <2>4. CASE ReadJson /\ pc' # "top"
    BY <1>1, <2>2, <2>4 DEF ReadJson
  <2> QED
    BY <2>1, <2>2, <2>3, <2>4
<1> QED
  BY <1>1, <1>2, FailInv

-------------------------------------------------------------------------------
(* The choice of the top.                                                  *)

\* All candidates are under one key when there is but one.
LEMMA OneKey ==
    ASSUME Inv, Cardinality(Keys) = 1, NEW m \in Candidates, NEW n \in Candidates
    PROVE  KeyOf(m) = KeyOf(n)
<1>1. IsFiniteSet(Nodes)
  BY DesignsAssumption DEF Inv, TypeOK, InputOK, Nodes
<1>2. IsFiniteSet(Candidates)
  BY <1>1, FS_Subset DEF Candidates
<1> DEFINE f == [k \in Candidates |-> KeyOf(k)]
<1>3. f \in Surjection(Candidates, Keys)
  BY DEF Surjection, Keys
<1>4. IsFiniteSet(Keys)
  BY <1>2, <1>3, FS_Surjection
<1>5. \E x : Keys = {x}
  BY <1>4, FS_Singleton
<1> QED
  BY <1>5 DEF Keys

\* What is taken for the top has the name that was asked for, unless nothing has.
LEMMA TopIsAsked ==
    ASSUME Inv, ~Twice, options.top # NoTop,
           NEW n \in Candidates, Eligible(n), ~Shadowed(n),
           NEW m \in Nodes, IsAsked(m)
    PROVE  IsAsked(n)
<1>1. options.top # NoDefinition
  BY OptionsAssumption DEF Inv, TypeOK, InputOK
<1>2. \A k : IsAsked(k) <=> options.top \in {design.name[k], design.definition[k]}
  BY DEF IsAsked
<1>3. m \in Candidates
  BY DEF Candidates
<1>4. CASE KeyOf(n) = options.top
  BY <1>2, <1>4 DEF KeyOf
<1>5. CASE Cardinality(Keys) = 1
  <2>1. KeyOf(m) = KeyOf(n)
    BY <1>3, <1>5, OneKey
  <2>2. CASE IsDefined(m) /\ IsDefined(n)
    BY <1>3, <2>1, <2>2 DEF Twice, SameKey
  <2>3. CASE IsDefined(m) /\ ~IsDefined(n)
    BY <1>3, <2>1, <2>3 DEF Shadowed, SameKey
  <2>4. CASE ~IsDefined(m)
    <3>1. KeyOf(m) = options.top
      BY <1>1, <1>2, <2>4 DEF KeyOf, IsDefined
    <3> QED
      BY <1>2, <2>1, <3>1 DEF KeyOf
  <2> QED
    BY <2>2, <2>3, <2>4
<1> QED
  BY <1>4, <1>5 DEF Eligible

LEMMA TopChosen ==
    ASSUME Inv, ChooseTop
    PROVE  Inv'
<1> USE DEF At, given, pins
<1>1. /\ UNCHANGED <<design, options, env, sinks, userClock, userReset, userType,
                     formal, clockName, resetName, resetType, script, workers>>
      /\ pc = "top" /\ pc' = "detect"
  BY DEF ChooseTop
<1>2. root' \in Nodes /\ ports' = design.ports[root'] /\ root' \in Candidates
      /\ Eligible(root') /\ ~Shadowed(root') /\ ~Twice
  BY DEF ChooseTop, Candidates
<1>3. Nodes' = Nodes /\ InputOK'
  BY <1>1 DEF Inv, TypeOK, InputOK, Nodes
<1>4. TypeOK'
  <2>1. design.ports \in [Nodes -> SUBSET Name]
    BY DesignsAssumption DEF Inv, TypeOK, InputOK, Nodes
  <2>2. ports' \subseteq Name
    BY <1>2, <2>1
  <2> QED
    BY <1>1, <1>2, <1>3, <2>2 DEF Inv, TypeOK, Rooted
<1>5. StartInv' /\ ScriptInv' /\ StopsForAReason'
  BY <1>1 DEF Inv, StartInv, ScriptInv, StopsForAReason
<1>6. TopInv'
  BY <1>1, <1>2, <1>3 DEF TopInv, Unrooted
<1>7. FsmsInv' /\ PinInv' /\ WrapperInv'
  BY <1>1 DEF FsmsInv, PinInv, WrapperInv, AfterMerge, AfterClock, AfterReset, AfterAnalysis
<1>8. RootIsAsked'
  <2>1. ASSUME options.top # NoTop, NEW m \in Nodes, IsAsked(m)
        PROVE  IsAsked(root')
    BY <1>2, <2>1, TopIsAsked
  <2>2. \A k : IsAsked(k)' = IsAsked(k)
    BY <1>1 DEF IsAsked
  <2>3. IsAsked(root)' <=> IsAsked(root')
    BY <1>1 DEF IsAsked
  <2> QED
    BY <1>1, <1>3, <2>1, <2>2, <2>3 DEF RootIsAsked
<1> QED
  BY <1>4, <1>5, <1>6, <1>7, <1>8 DEF Inv

\* Without a top the run ends, for one of the reasons about the hierarchy.
LEMMA TopMissing ==
    ASSUME Inv, NoTopFound
    PROVE  Inv'
<1> USE DEF At, given, pins, stages
<1>1. pc = "top" /\ pc' = "failed" /\ UNCHANGED <<ports, given, pins, root>>
  BY DEF NoTopFound
<1>2. root = NoNode
  BY <1>1 DEF Inv, TopInv, Unrooted
<1>3. \A k : k \in Candidates <=> k \in Nodes /\ CouldBeTop(k)
  BY DEF Candidates, CouldBeTop
<1>4. BadTop \/ AskedByInstance
  <2>1. CASE Twice
    <3>1. PICK m, n \in Candidates : IsDefined(m) /\ IsDefined(n) /\ SameKey(m, n)
      BY <2>1 DEF Twice
    <3>2. m # n /\ design.definition[m] = design.definition[n]
      BY <3>1 DEF SameKey, KeyOf
    <3> QED
      BY <1>3, <3>1, <3>2 DEF BadTop, CouldBeTop
  <2>2. CASE \E n \in Candidates : Shadowed(n)
    <3>1. PICK m, n \in Candidates : ~IsDefined(n) /\ IsDefined(m) /\ SameKey(m, n)
      BY <2>2 DEF Shadowed
    <3>2. design.definition[m] = design.name[n]
      BY <3>1 DEF SameKey, KeyOf
    <3> QED
      BY <1>3, <3>1, <3>2 DEF BadTop
  <2>3. CASE \A n \in Candidates : ~Eligible(n)
    <3>1. CASE Candidates = {}
      BY <1>3, <3>1 DEF BadTop, CouldBeTop
    <3>2. CASE Candidates # {}
      <4>1. options.top # NoTop /\ Cardinality(Keys) # 1
        BY <2>3, <3>2 DEF Eligible
      <4>2. \A n \in Nodes : design.definition[n] # options.top
        <5>1. SUFFICES ASSUME NEW n \in Nodes, design.definition[n] = options.top PROVE FALSE
          OBVIOUS
        <5>2. options.top # NoDefinition
          BY <4>1, OptionsAssumption DEF Inv, TypeOK, InputOK
        <5>3. n \in Candidates /\ KeyOf(n) = options.top
          BY <4>1, <5>1, <5>2 DEF Candidates, IsAsked, KeyOf, IsDefined
        <5> QED
          BY <2>3, <5>3 DEF Eligible
      <4>3. \E m, n \in Candidates : m # n
        <5>1. SUFFICES ASSUME \A m, n \in Candidates : m = n PROVE FALSE
          OBVIOUS
        <5>2. PICK n \in Candidates : TRUE
          BY <3>2
        <5>3. Keys = {KeyOf(n)}
          BY <5>1 DEF Keys
        <5> QED
          BY <4>1, <5>3, FS_Singleton
      <4> QED
        BY <1>3, <4>1, <4>2, <4>3 DEF BadTop, AskedByInstance, NothingHas, ManyTops
    <3> QED
      BY <3>1, <3>2
  <2> QED
    BY <2>1, <2>2, <2>3 DEF NoTopFound
<1> QED
  BY <1>1, <1>2, <1>4, FailInv DEF Reason, BadInput, Departure

-------------------------------------------------------------------------------
(* Detection, merging and the pins.                                        *)

\* A step of a later stage changes nothing that the earlier ones have settled.
LEMMA LaterStep ==
    ASSUME Inv, pc \in Rooted, pc' \in Rooted \ {"stuck"},
           UNCHANGED <<ports, given, root>>
    PROVE  /\ InputOK' /\ RootIsAsked' /\ StopsForAReason'
           /\ TopInv'
           /\ Placed' = Placed
<1> USE DEF given
<1>1. Nodes' = Nodes /\ Placed' = Placed /\ RootIsAsked'
  BY InputKept DEF Inv
<1>2. InputOK'
  BY DEF Inv, TypeOK, InputOK
<1>3. StopsForAReason'
  BY DEF StopsForAReason, Rooted, AfterMerge, AfterClock, AfterReset, AfterAnalysis
<1>4. TopInv'
  BY <1>1 DEF Inv, TopInv, Unrooted, Rooted, AfterMerge, AfterClock, AfterReset, AfterAnalysis
<1> QED
  BY <1>1, <1>2, <1>3, <1>4

LEMMA HasTop ==
    ASSUME Inv, pc \in Rooted
    PROVE  root \in Nodes /\ root # NoNode /\ ports \subseteq Name
BY DesignsAssumption DEF Inv, TypeOK, InputOK, TopInv, Nodes

\* A stage that never ends.
LEMMA StuckInv ==
    ASSUME Inv, pc \in Rooted, pc # "proved", pc' = "stuck", UNCHANGED <<ports, given, pins, stages>>, NoEnd
    PROVE  Inv'
<1> USE DEF given, pins, stages
<1>1. Nodes' = Nodes /\ InputOK' /\ RootIsAsked'
  BY InputKept DEF Inv, TypeOK, InputOK
<1>2. TypeOK'
  BY <1>1 DEF Inv, TypeOK, Rooted
<1>3. StartInv' /\ ScriptInv'
  BY DEF Inv, StartInv, ScriptInv
<1>4. StopsForAReason'
  BY ReasonKept DEF StopsForAReason, NoEnd
<1>5. TopInv'
  BY <1>1 DEF Inv, TopInv, Unrooted, Rooted
<1>6. FsmsInv' /\ PinInv' /\ WrapperInv'
  BY DEF FsmsInv, PinInv, WrapperInv, AfterMerge, AfterClock, AfterReset, AfterAnalysis
<1> QED
  BY <1>1, <1>2, <1>3, <1>4, <1>5, <1>6 DEF Inv

\* The machines below the top are those that are placed.
LEMMA MachinesPlaced == Inv => Machines = Placed \cap design.machines
BY DesignsAssumption DEF Inv, TypeOK, InputOK, Machines, Placed, BelowTop, Nodes

\* The detection never ends without a worker, or with a machine that is compared with a ring
\* of wires; and it ends with the exception of a task.
LEMMA NotDetected ==
    ASSUME Inv, WaitForEver \/ Rethrow
    PROVE  Inv'
<1> USE DEF At, given, pins, stages
<1>1. pc = "detect" /\ UNCHANGED <<ports, given, pins, stages>>
  BY DEF WaitForEver, Rethrow
<1>2. root # NoNode
  BY <1>1, HasTop DEF Rooted
<1>3. CASE WaitForEver
  <2>1. ASSUME workers = 0 PROVE NoEnd
    BY <1>1, <2>1 DEF Inv, StartInv, NoEnd
  <2>2. ASSUME (Machines \cap design.endless) \ design.counters # {} PROVE NoEnd
    BY <2>2, MachinesPlaced DEF NoEnd
  <2>3. NoEnd /\ pc' = "stuck"
    BY <1>3, <2>1, <2>2 DEF WaitForEver, NeverDetects
  <2> QED
    BY <1>1, <2>3, StuckInv DEF Rooted
<1>4. CASE Rethrow
  <2>1. pc' = "failed" /\ Machines \cap design.branching # {}
    BY <1>4 DEF Rethrow
  <2>2. Reason
    BY <1>2, <2>1, MachinesPlaced DEF Reason, Departure, BranchingCondition
  <2> QED
    BY <1>1, <2>1, <2>2, FailInv
<1> QED
  BY <1>3, <1>4

LEMMA MachinesFound ==
    ASSUME Inv, Detect
    PROVE  Inv'
<1> USE DEF At, given, pins
<1>1. /\ UNCHANGED <<design, options, env, root, ports, sinks, userClock, userReset, userType,
                     formal, clockName, resetName, resetType, script>>
      /\ pc = "detect" /\ pc' = "merge"
      /\ fsms' = Placed \cap design.machines
  BY MachinesPlaced DEF Detect
<1>2. InputOK' /\ RootIsAsked' /\ StopsForAReason' /\ TopInv' /\ Placed' = Placed
  BY <1>1, LaterStep DEF Rooted
<1>3. TypeOK'
  BY <1>1, <1>2 DEF Inv, TypeOK, Rooted, Nodes
<1>4. FsmsInv'
  BY <1>1, <1>2 DEF FsmsInv
<1>5. StartInv' /\ PinInv' /\ WrapperInv' /\ ScriptInv'
  BY <1>1 DEF Inv, StartInv, PinInv, WrapperInv, ScriptInv, AfterMerge, AfterClock, AfterReset,
              AfterAnalysis
<1> QED
  BY <1>2, <1>3, <1>4, <1>5 DEF Inv

LEMMA Merged ==
    ASSUME Inv, Merge
    PROVE  Inv'
<1> USE DEF At, given
<1>1. /\ UNCHANGED <<design, options, env, root, ports, sinks, userClock, userReset, userType,
                     formal, script>>
      /\ pc = "merge" /\ pc' = "clock"
      /\ clockName' = userClock /\ resetName' = userReset /\ resetType' = userType
  BY DEF Merge
<1>2. InputOK' /\ RootIsAsked' /\ StopsForAReason' /\ TopInv' /\ Placed' = Placed
  BY <1>1, LaterStep DEF Rooted, AfterMerge
<1>3. TypeOK'
  BY <1>1, <1>2 DEF Inv, TypeOK, InputOK, Rooted, AfterMerge, Nodes
<1>4. FsmsInv'
  <2>1. fsms' \subseteq fsms /\ (fsms' = {} => fsms = {})
    <3>1. fsms' \in Mergings \/ fsms' = fsms
      BY DEF Merge
    <3>2. ASSUME fsms' \in Mergings PROVE fsms' \subseteq fsms /\ (fsms' = {} => fsms = {})
      BY <3>2 DEF Mergings
    <3> QED
      BY <3>1, <3>2
  <2> QED
    BY <1>1, <1>2, <2>1 DEF Inv, FsmsInv
<1>5. StartInv' /\ WrapperInv' /\ ScriptInv'
  BY <1>1 DEF Inv, StartInv, WrapperInv, ScriptInv
<1>6. PinInv'
  BY <1>1 DEF PinInv, AfterClock, AfterReset, AfterAnalysis
<1> QED
  BY <1>2, <1>3, <1>4, <1>5, <1>6 DEF Inv

\* The assertion of a merge, and a counter whose values are never all found.
LEMMA NotMerged ==
    ASSUME Inv, CannotMerge \/ CountForEver
    PROVE  Inv'
<1> USE DEF At, given, pins, stages
<1>1. CASE CannotMerge
  <2>1. /\ pc = "merge" /\ pc' = "failed" /\ UNCHANGED <<ports, given, pins, root>>
        /\ options.merge /\ Mergeable(fsms)
    BY <1>1 DEF CannotMerge
  <2>2. root # NoNode /\ fsms = Placed \cap design.machines
    BY <2>1, HasTop DEF Rooted, Inv, FsmsInv
  <2>3. Reason
    BY <2>1, <2>2 DEF Reason, Departure, MergeLosesOne
  <2> QED
    BY <2>1, <2>3, FailInv
<1>2. CASE CountForEver
  <2>1. /\ pc = "properties" /\ pc' = "stuck" /\ UNCHANGED <<ports, given, pins, stages>>
        /\ EndlessCounters # {}
    BY <1>2 DEF CountForEver
  <2>2. fsms \subseteq Placed
    BY <2>1 DEF Inv, FsmsInv, AfterMerge, AfterClock, AfterReset, AfterAnalysis
  <2>3. NoEnd
    BY <2>1, <2>2 DEF NoEnd, EndlessCounters
  <2> QED
    BY <2>1, <2>3, StuckInv DEF Rooted, AfterMerge, AfterClock, AfterReset, AfterAnalysis
<1> QED
  BY <1>1, <1>2

\* A step of analyze_pins, from one stage to another, leaves all but the pins as it was.
LEMMA PinStep ==
    ASSUME Inv, UNCHANGED <<design, options, env, stages, inputs, script>>,
           pc \in {"clock", "reset", "polarity", "analyze"},
           pc' \in {"reset", "polarity", "analyze", "properties"},
           PinInv', clockName' \in Name \cup {NoName}, resetName' \in Name \cup {NoName},
           resetType' \in ResetTypes
    PROVE  Inv'
<1> USE DEF given, inputs, stages
<1>1. pc \in AfterMerge /\ pc \in Rooted /\ pc' \in Rooted \ {"stuck"} /\ pc' \in AfterMerge
  BY DEF Rooted, AfterMerge, AfterClock, AfterReset, AfterAnalysis
<1>2. InputOK' /\ RootIsAsked' /\ StopsForAReason' /\ TopInv' /\ Placed' = Placed
  BY <1>1, LaterStep
<1>3. TypeOK'
  BY <1>1, <1>2 DEF Inv, TypeOK, Nodes
<1>4. FsmsInv'
  BY <1>1, <1>2 DEF Inv, FsmsInv
<1>5. StartInv' /\ WrapperInv' /\ ScriptInv'
  BY DEF Inv, StartInv, WrapperInv, ScriptInv
<1> QED
  BY <1>2, <1>3, <1>4, <1>5 DEF Inv

LEMMA ClockAnalyzed ==
    ASSUME Inv, UNCHANGED <<design, options, env, stages>>,
           FindClock \/ CheckClock
    PROVE  Inv'
<1> USE DEF At, inputs, stages
<1>1. pc = "clock" /\ clockName = userClock /\ resetName = userReset /\ resetType = userType
  BY DEF FindClock, CheckClock, Inv, PinInv
<1>2. /\ clockName \in Name \cup {NoName} /\ resetName \in Name \cup {NoName}
      /\ resetType \in ResetTypes /\ ports \subseteq Name
  BY DEF Inv, TypeOK
<1>3. CASE FindClock
  <2>1. /\ Pick(ClockNames) \in ports \cup {NoName}
        /\ Pick(ClockNames) = NoName <=> ports \cap ClockNames = {}
    BY <1>2, PickFinds, PinNamesAssumption
  <2>2. /\ UNCHANGED <<inputs, resetName, resetType, warned, script>>
        /\ pc' = "reset" /\ clockName' = Pick(ClockNames) /\ userClock = NoName
    BY <1>1, <1>3 DEF FindClock
  <2>3. PinInv'
    BY <1>1, <2>1, <2>2 DEF PinInv, IsFound, AfterClock, AfterReset, AfterAnalysis
  <2> QED
    BY <1>1, <1>2, <2>1, <2>2, <2>3, PinStep
<1>4. CASE CheckClock /\ clockName \in ports
  <2>1. pc' = "reset" /\ UNCHANGED <<inputs, clockName, resetName, resetType, warned, script>>
        /\ clockName # NoName
    BY <1>4 DEF CheckClock
  <2>2. PinInv'
    BY <1>1, <1>4, <2>1 DEF PinInv, IsFound, AfterClock, AfterReset, AfterAnalysis
  <2> QED
    BY <1>1, <1>2, <2>1, <2>2, PinStep
<1>5. CASE CheckClock /\ clockName \notin ports
  <2>1. /\ pc' = "failed" /\ UNCHANGED <<ports, given, pins, root>> /\ clockName # NoName
    BY <1>5 DEF CheckClock, given, pins
  <2>2. root # NoNode
    BY <1>1, HasTop DEF Rooted, AfterMerge
  <2>3. BadBelow
    BY <1>1, <1>5, <2>1 DEF BadBelow
  <2> QED
    BY <1>1, <2>1, <2>2, <2>3, FailInv DEF Reason, BadInput
<1> QED
  BY <1>3, <1>4, <1>5

LEMMA ResetFound ==
    ASSUME Inv, UNCHANGED <<design, options, env, stages>>,
           FindReset \/ CheckReset
    PROVE  Inv'
<1> USE DEF At, inputs, stages
<1>1. pc = "reset" /\ resetName = userReset /\ resetType = userType
      /\ IsFound(clockName, userClock, ClockNames)
  BY DEF FindReset, CheckReset, Inv, PinInv, AfterClock
<1>2. /\ clockName \in Name \cup {NoName} /\ resetName \in Name \cup {NoName}
      /\ resetType \in ResetTypes /\ ports \subseteq Name
  BY DEF Inv, TypeOK
<1>3. CASE FindReset
  <2>1. /\ Pick(ResetNames) \in ports \cup {NoName}
        /\ Pick(ResetNames) = NoName <=> ports \cap ResetNames = {}
    BY <1>2, PickFinds, PinNamesAssumption
  <2>2. /\ UNCHANGED <<inputs, clockName, resetType, warned, script>>
        /\ pc' = "polarity" /\ resetName' = Pick(ResetNames) /\ userReset = NoName
    BY <1>1, <1>3 DEF FindReset
  <2>3. PinInv'
    BY <1>1, <2>1, <2>2 DEF PinInv, IsFound, AfterClock, AfterReset, AfterAnalysis
  <2> QED
    BY <1>1, <1>2, <2>1, <2>2, <2>3, PinStep
<1>4. CASE CheckReset /\ resetName \in ports
  <2>1. pc' = "polarity" /\ UNCHANGED <<inputs, clockName, resetName, resetType, warned, script>>
        /\ resetName # NoName
    BY <1>4 DEF CheckReset
  <2>2. PinInv'
    BY <1>1, <1>4, <2>1 DEF PinInv, IsFound, AfterClock, AfterReset, AfterAnalysis
  <2> QED
    BY <1>1, <1>2, <2>1, <2>2, PinStep
<1>5. CASE CheckReset /\ resetName \notin ports
  <2>1. /\ pc' = "failed" /\ UNCHANGED <<ports, given, pins, root>> /\ resetName # NoName
    BY <1>5 DEF CheckReset, given, pins
  <2>2. root # NoNode
    BY <1>1, HasTop DEF Rooted, AfterMerge, AfterClock
  <2>3. BadBelow
    BY <1>1, <1>5, <2>1 DEF BadBelow
  <2> QED
    BY <1>1, <2>1, <2>2, <2>3, FailInv DEF Reason, BadInput
<1> QED
  BY <1>3, <1>4, <1>5

LEMMA ResetNamed ==
    ASSUME Inv, UNCHANGED <<design, options, env, stages>>, NameTells
    PROVE  Inv'
<1> USE DEF At, inputs, stages
<1>1. /\ pc = "polarity" /\ resetType = userType
      /\ IsFound(clockName, userClock, ClockNames) /\ IsFound(resetName, userReset, ResetNames)
  BY DEF NameTells, Inv, PinInv, AfterClock, AfterReset
<1>2. /\ clockName \in Name \cup {NoName} /\ resetName \in Name \cup {NoName}
      /\ resetType \in ResetTypes
  BY DEF Inv, TypeOK
<1>3. /\ UNCHANGED <<inputs, clockName, resetName, warned, script>> /\ pc' = "analyze"
      /\ resetType' = NamedType
  BY <1>1 DEF NameTells, NamedType
<1>4. NamedType \in ResetTypes
  BY <1>1, <1>2 DEF NamedType, ResetTypes
<1>5. NamedType' = NamedType
  BY <1>3 DEF NamedType
<1>6. PinInv'
  BY <1>1, <1>3, <1>5 DEF PinInv, IsFound, AfterClock, AfterReset, AfterAnalysis
<1> QED
  BY <1>1, <1>2, <1>3, <1>4, <1>6, PinStep

\* analyze_reset ends with the level that the events tell, if there are any.
LEMMA ResetAnalyzed ==
    ASSUME Inv, UNCHANGED <<design, options, env, stages>>,
           SkipReset \/ NoResetPin \/ HearEvent \/ HearNothing
    PROVE  Inv'
<1> USE DEF At, inputs, stages
<1>1. /\ pc = "analyze" /\ resetType = NamedType
      /\ IsFound(clockName, userClock, ClockNames) /\ IsFound(resetName, userReset, ResetNames)
  BY DEF SkipReset, NoResetPin, HearEvent, HearNothing, Inv, PinInv, AfterClock, AfterReset
<1>2. /\ clockName \in Name \cup {NoName} /\ resetName \in Name \cup {NoName}
      /\ resetType \in ResetTypes
  BY DEF Inv, TypeOK
<1>3. NamedType # "None" <=> userType # "None"
  BY DEF NamedType
<1>4. CASE NoResetPin
  <2>1. /\ pc' = "failed" /\ UNCHANGED <<ports, given, pins, root>>
        /\ resetName = NoName /\ userType # "None"
    BY <1>1, <1>3, <1>4 DEF NoResetPin, SkipsAnalysis, given, pins
  <2>2. root # NoNode
    BY <1>1, HasTop DEF Rooted, AfterMerge, AfterClock, AfterReset
  <2>3. BadBelow
    BY <1>1, <2>1 DEF BadBelow, NoResetPort, IsFound
  <2> QED
    BY <1>1, <2>1, <2>2, <2>3, FailInv DEF Reason, BadInput
<1>5. CASE SkipReset \/ HearEvent \/ HearNothing
  <2>1. /\ UNCHANGED <<inputs, clockName, resetName, script>> /\ pc' = "properties"
        /\ resetType' = FinalType /\ (userType # "None" => resetName # NoName)
    <3>1. CASE SkipReset
      BY <1>1, <1>3, <3>1 DEF SkipReset, SkipsAnalysis, FinalType
    <3>2. CASE HearEvent
      BY <1>1, <1>3, <3>2 DEF HearEvent, SkipsAnalysis, FinalType
    <3>3. CASE HearNothing
      BY <1>1, <1>3, <3>3 DEF HearNothing, SkipsAnalysis, FinalType
    <3> QED
      BY <1>5, <3>1, <3>2, <3>3
  <2>2. FinalType \in ResetTypes
    BY <1>1, <1>2 DEF FinalType, ResetTypes
  <2>3. FinalType' = FinalType
    BY <2>1 DEF FinalType, NamedType, Heard
  <2>4. PinInv'
    BY <1>1, <2>1, <2>3 DEF PinInv, IsFound, AfterClock, AfterReset, AfterAnalysis
  <2> QED
    BY <1>1, <1>2, <2>1, <2>2, <2>4, PinStep
<1> QED
  BY <1>4, <1>5

-------------------------------------------------------------------------------
(* The wrapper and the script.                                             *)

\* A stage after analyze_pins leaves the pins as they are.
LEMMA LastStep ==
    ASSUME Inv, UNCHANGED <<ports, given, root, fsms, workers, slang, clockName, resetName, resetType>>,
           pc \in AfterAnalysis, pc' \in AfterAnalysis \ {"properties"},
           script' \in Lines, WrapperInv', ScriptInv'
    PROVE  Inv'
<1> USE DEF given
<1>1. pc \in Rooted /\ pc' \in Rooted \ {"stuck"} /\ pc \in AfterMerge /\ pc' \in AfterMerge
  <2>1. pc' # "stuck"
    BY DEF AfterAnalysis
  <2> QED
    BY <2>1 DEF Rooted, AfterMerge, AfterClock, AfterReset
<1>2. InputOK' /\ RootIsAsked' /\ StopsForAReason' /\ TopInv' /\ Placed' = Placed
  BY <1>1, LaterStep
<1>3. TypeOK'
  BY <1>1, <1>2 DEF Inv, TypeOK, Nodes
<1>4. FsmsInv'
  BY <1>1, <1>2 DEF Inv, FsmsInv, AfterAnalysis
<1>5. StartInv'
  BY DEF StartInv, AfterAnalysis
<1>6. PinInv'
  <2>1. FinalType' = FinalType
    BY DEF FinalType, NamedType, Heard
  <2> QED
    BY <2>1 DEF Inv, PinInv, IsFound, AfterClock, AfterReset, AfterAnalysis
<1> QED
  BY <1>2, <1>3, <1>4, <1>5, <1>6 DEF Inv

\* What is known of the pins from then on.
LEMMA PinsKnown ==
    ASSUME Inv, pc \in AfterAnalysis
    PROVE  /\ IsFound(clockName, userClock, ClockNames) /\ IsFound(resetName, userReset, ResetNames)
           /\ resetType = FinalType /\ (userType # "None" => resetName # NoName)
           /\ root # NoNode
<1>1. pc \in AfterReset /\ pc \in AfterClock /\ pc \in Rooted
  BY DEF Rooted, AfterMerge, AfterClock, AfterReset
<1> QED
  BY <1>1, HasTop DEF Inv, PinInv

\* Nothing to print, or nothing to prove.
LEMMA Printing ==
    ASSUME Inv, NoFsm \/ WithoutProver
    PROVE  Inv'
<1> USE DEF At, given, pins, stages
<1>1. CASE NoFsm
  <2>1. /\ pc = "properties" /\ pc' = "failed" /\ UNCHANGED <<ports, given, pins, root>>
        /\ fsms = {}
    BY <1>1 DEF NoFsm
  <2>2. root # NoNode
    BY <2>1, PinsKnown DEF AfterAnalysis
  <2>3. BadBelow
    BY <2>1 DEF Inv, FsmsInv, BadBelow, AfterMerge, AfterClock, AfterReset, AfterAnalysis
  <2> QED
    BY <2>1, <2>2, <2>3, FailInv DEF Reason, BadInput
<1>2. CASE WithoutProver
  <2>1. /\ pc = "properties" /\ pc' = "printed"
        /\ UNCHANGED <<ports, given, root, fsms, workers, slang, clockName, resetName, resetType,
                       script>>
    BY <1>2 DEF WithoutProver
  <2>2. script' \in Lines
    BY <2>1 DEF Inv, TypeOK
  <2>3. WrapperInv' /\ ScriptInv'
    BY <2>1 DEF Inv, WrapperInv, ScriptInv
  <2> QED
    BY <2>1, <2>2, <2>3, LastStep DEF AfterAnalysis
<1> QED
  BY <1>1, <1>2

LEMMA ProverFound ==
    ASSUME Inv, FindProver
    PROVE  Inv'
<1> USE DEF At, given, pins, stages
<1>1. /\ pc = "properties" /\ formal
      /\ UNCHANGED <<ports, given, pins, root, fsms, workers, slang>>
  BY DEF FindProver
<1>2. CASE env.jasper
  <2>1. pc' = "wrapper"
    BY <1>2 DEF FindProver
  <2>2. script' \in Lines
    BY <1>1 DEF Inv, TypeOK
  <2>3. WrapperInv' /\ ScriptInv'
    BY <1>1, <2>1 DEF Inv, WrapperInv, ScriptInv
  <2> QED
    BY <1>1, <2>1, <2>2, <2>3, LastStep DEF AfterAnalysis
<1>3. CASE ~env.jasper
  <2>1. pc' = "failed" /\ root # NoNode
    BY <1>1, <1>3, PinsKnown DEF FindProver, AfterAnalysis
  <2>2. BadBelow
    BY <1>1, <1>3 DEF BadBelow
  <2> QED
    BY <1>1, <2>1, <2>2, FailInv DEF Reason, BadInput
<1> QED
  BY <1>2, <1>3

LEMMA Wrapped ==
    ASSUME Inv, WriteWrapper \/ CannotWrap
    PROVE  Inv'
<1> USE DEF At, given, pins, stages
<1>1. /\ pc = "wrapper"
      /\ UNCHANGED <<ports, given, pins, root, fsms, workers, slang>>
  BY DEF WriteWrapper, CannotWrap
<1>2. formal /\ root # NoNode /\ IsFound(clockName, userClock, ClockNames)
  BY <1>1, PinsKnown DEF Inv, WrapperInv, AfterAnalysis
<1>3. CASE WriteWrapper
  <2>1. pc' = "script" /\ CanBeWrapped
    BY <1>3 DEF WriteWrapper
  <2>2. /\ wrapper'.dut = design.definition[root] /\ wrapper'.ports = ports
        /\ wrapper'.clock \in {NoName, clockName}
    BY <1>3 DEF WriteWrapper
  <2>3. script' \in Lines
    BY <1>1 DEF Inv, TypeOK
  <2>4. WrapperInv'
    BY <1>1, <1>2, <2>1, <2>2 DEF CanBeWrapped, WrapperInv
  <2>5. ScriptInv'
    BY <1>1, <2>1 DEF Inv, ScriptInv
  <2> QED
    BY <1>1, <2>1, <2>3, <2>4, <2>5, LastStep DEF AfterAnalysis
<1>4. CASE CannotWrap
  <2>1. pc' = "failed" /\ ~CanBeWrapped
    BY <1>4 DEF CannotWrap
  <2>2. BadBelow
    BY <1>2, <2>1 DEF CanBeWrapped, BadBelow, IsFound
  <2> QED
    BY <1>1, <1>2, <2>1, <2>2, FailInv DEF Reason, BadInput
<1> QED
  BY <1>3, <1>4

LEMMA ClockWritten ==
    ASSUME Inv, UNCHANGED <<design, options, env, stages>>, WriteClock \/ NoClock
    PROVE  Inv'
<1> USE DEF At, inputs, given, stages
<1>1. /\ pc = "script"
      /\ UNCHANGED <<inputs, clockName, resetName, resetType, warned>>
  BY DEF WriteClock, NoClock
<1>2. formal /\ root # NoNode /\ IsFound(clockName, userClock, ClockNames)
  BY <1>1, PinsKnown DEF Inv, WrapperInv, AfterAnalysis
<1>3. CASE WriteClock
  <2>1. /\ pc' = "reset line" /\ clockName # NoName
        /\ script' = [script EXCEPT !.clock = clockName]
    BY <1>3 DEF WriteClock
  <2>2. script \in Lines /\ clockName \in Name \cup {NoName}
    BY DEF Inv, TypeOK
  <2>3. script' \in Lines /\ script'.clock = clockName /\ script'.active = script.active
    BY <2>1, <2>2 DEF Lines
  <2>4. WrapperInv'
    BY <1>1, <2>1 DEF Inv, WrapperInv
  <2>5. ScriptInv'
    BY <1>1, <2>1, <2>3 DEF Inv, ScriptInv
  <2> QED
    BY <1>1, <2>1, <2>3, <2>4, <2>5, LastStep DEF AfterAnalysis
<1>4. CASE NoClock
  <2>1. pc' = "failed" /\ clockName = NoName /\ UNCHANGED <<ports, given, pins, root>>
    BY <1>4 DEF NoClock, pins
  <2>2. BadBelow
    BY <1>2, <2>1 DEF BadBelow, IsFound
  <2> QED
    BY <1>1, <1>2, <2>1, <2>2, FailInv DEF Reason, BadInput
<1> QED
  BY <1>3, <1>4

LEMMA ResetWritten ==
    ASSUME Inv, UNCHANGED <<design, options, env, stages>>, WriteReset \/ ResetUnknown
    PROVE  Inv'
<1> USE DEF At, inputs, given, stages
<1>1. /\ pc = "reset line"
      /\ UNCHANGED <<inputs, clockName, resetName, resetType, warned>>
  BY DEF WriteReset, ResetUnknown
<1>2. /\ formal /\ root # NoNode
      /\ IsFound(resetName, userReset, ResetNames) /\ resetType = FinalType
  BY <1>1, PinsKnown DEF Inv, WrapperInv, AfterAnalysis
<1>3. script \in Lines /\ resetName \in Name \cup {NoName} /\ resetType \in ResetTypes
  BY DEF Inv, TypeOK
<1>4. CASE WriteReset
  <2>1. pc' = "proved" /\ resetName # NoName /\ resetType # "Default"
    BY <1>4 DEF WriteReset, TypeKnown
  <2>2. /\ script' \in Lines
        /\ script'.clock = script.clock
        /\ resetType = "None" => script'.active = "unfinished"
        /\ resetType # "None" => /\ script'.reset = resetName
                                 /\ script'.active = IF resetType = "Posedge" THEN "high" ELSE "low"
    <3>1. CASE resetType = "None"
      <4>1. script' = [script EXCEPT !.active = "unfinished"]
        BY <1>4, <3>1 DEF WriteReset
      <4> QED
        BY <1>3, <3>1, <4>1 DEF Lines
    <3>2. CASE resetType = "Posedge"
      <4>1. script' = [script EXCEPT !.reset = resetName, !.active = "high"]
        BY <1>4, <3>2 DEF WriteReset
      <4> QED
        BY <1>3, <3>2, <4>1 DEF Lines
    <3>3. CASE resetType # "None" /\ resetType # "Posedge"
      <4>1. script' = [script EXCEPT !.reset = resetName, !.active = "low"]
        BY <1>4, <3>3 DEF WriteReset
      <4> QED
        BY <1>3, <3>3, <4>1 DEF Lines
    <3> QED
      BY <3>1, <3>2, <3>3
  <2>3. WrapperInv'
    BY <1>1, <2>1 DEF Inv, WrapperInv
  <2>4. ScriptInv'
    BY <1>1, <2>1, <2>2 DEF Inv, ScriptInv
  <2> QED
    BY <1>1, <2>1, <2>2, <2>3, <2>4, LastStep DEF AfterAnalysis
<1>5. CASE ResetUnknown
  <2>1. pc' = "failed" /\ UNCHANGED <<ports, given, pins, root>>
    BY <1>5 DEF ResetUnknown, pins
  <2>2. BadBelow \/ NoneButNoReset \/ NoDefaultType
    <3>1. CASE resetName = NoName
      BY <1>2, <3>1 DEF BadBelow, NoneButNoReset, NoResetPort, IsFound
    <3>2. CASE resetName # NoName /\ resetType = "Default"
      <4>1. NamedType # "None" /\ Heard = <<>> /\ NamedType = "Default"
        BY <1>2, <3>2 DEF FinalType
      <4>2. userType = "Default" /\ resetName \notin NegResetNames
        BY <4>1 DEF NamedType
      <4> QED
        BY <1>2, <3>2, <4>1, <4>2 DEF NoDefaultType
    <3> QED
      BY <1>5, <3>1, <3>2 DEF ResetUnknown, TypeKnown
  <2> QED
    BY <1>1, <1>2, <2>1, <2>2, FailInv DEF Reason, BadInput, Departure
<1> QED
  BY <1>4, <1>5

-------------------------------------------------------------------------------
LEMMA Stuttering == Inv /\ UNCHANGED allVars => Inv'
<1> SUFFICES ASSUME Inv, UNCHANGED allVars PROVE Inv'
  OBVIOUS
<1> USE DEF allVars, given, pins, stages
<1>1. /\ Nodes' = Nodes /\ Placed' = Placed /\ RootIsAsked'
      /\ Reason' = Reason /\ NoEnd' = NoEnd
  BY InputKept, ReasonKept DEF Inv
<1>2. FinalType' = FinalType /\ NamedType' = NamedType /\ Detected' = Detected
  BY DEF FinalType, NamedType, Heard, Detected
<1>3. InputOK'
  BY DEF Inv, TypeOK, InputOK
<1>4. TypeOK'
  BY <1>1, <1>3 DEF Inv, TypeOK
<1>5. StartInv' /\ TopInv' /\ FsmsInv' /\ PinInv'
  BY <1>1, <1>2 DEF Inv, StartInv, TopInv, FsmsInv, PinInv, IsFound
<1>6. WrapperInv' /\ ScriptInv' /\ StopsForAReason'
  BY <1>1 DEF Inv, WrapperInv, ScriptInv, StopsForAReason, Reason, NoEnd
<1> QED
  BY <1>1, <1>4, <1>5, <1>6 DEF Inv

LEMMA NextInv == Inv /\ Next => Inv'
<1> SUFFICES ASSUME Inv, Next PROVE Inv'
  OBVIOUS
<1>1. CASE DetectSlang \/ SetThreads
  BY <1>1, BeforeParsing
<1>2. CASE ReadList
  BY <1>2, NotParsed
<1>3. CASE ReadJson \/ RunSlang
  BY <1>3, BeforeParsing, NotParsed
<1>4. CASE ChooseTop
  BY <1>4, TopChosen
<1>5. CASE NoTopFound
  BY <1>5, TopMissing
<1>6. CASE WaitForEver \/ Rethrow
  BY <1>6, NotDetected
<1>7. CASE Detect
  BY <1>7, MachinesFound
<1>8. CASE Merge
  BY <1>8, Merged
<1>9. CASE AnalyzePins
  <2>1. UNCHANGED <<design, options, env, stages>> /\ PinNext
    BY <1>9 DEF AnalyzePins
  <2>2. CASE FindClock \/ CheckClock
    BY <2>1, <2>2, ClockAnalyzed
  <2>3. CASE FindReset \/ CheckReset
    BY <2>1, <2>3, ResetFound
  <2>4. CASE NameTells
    BY <2>1, <2>4, ResetNamed
  <2>5. CASE SkipReset \/ NoResetPin \/ HearEvent \/ HearNothing
    BY <2>1, <2>5, ResetAnalyzed
  <2>6. CASE WriteClock \/ NoClock
    BY <2>1, <2>6, ClockWritten
  <2>7. CASE WriteReset \/ ResetUnknown
    BY <2>1, <2>7, ResetWritten
  <2> QED
    BY <2>1, <2>2, <2>3, <2>4, <2>5, <2>6, <2>7 DEF PinNext
<1>13. CASE CannotMerge \/ CountForEver
  BY <1>13, NotMerged
<1>10. CASE NoFsm \/ WithoutProver
  BY <1>10, Printing
<1>11. CASE FindProver
  BY <1>11, ProverFound
<1>12. CASE WriteWrapper \/ CannotWrap
  BY <1>12, Wrapped
<1> QED
  BY <1>1, <1>2, <1>3, <1>4, <1>5, <1>6, <1>7, <1>8, <1>9, <1>10, <1>11, <1>12, <1>13 DEF Next

\* In every run of main, whatever its input, the pins, the wrapper and the script are as
\* far as the stage says.
THEOREM Invariance == Spec => []Inv
<1>1. Init => Inv
  BY InitInv
<1>2. Inv /\ [Next]_allVars => Inv'
  BY NextInv, Stuttering
<1> QED
  BY <1>1, <1>2, PTL DEF Spec

\* main throws only for what is wrong with its input or in one of the named ways that
\* contradict the repository, and never ends only when it was told to use all cores of a
\* machine that counts none, or when a register below the top is compared with a ring of wires.
THEOREM Failures == Spec => []StopsForAReason
<1>1. Inv => StopsForAReason
  BY DEF Inv
<1> QED
  BY <1>1, Invariance, PTL

\* The constructor of VerilogModule takes a module with the name that was asked for as
\* long as there is one.
THEOREM AskedTop == Spec => []RootIsAsked
<1>1. Inv => RootIsAsked
  BY DEF Inv
<1> QED
  BY <1>1, Invariance, PTL

\* The invariant says what the script is made of; it remains to put it together.
LEMMA InvFits == Inv => ScriptFitsWrapper
<1> SUFFICES ASSUME Inv, pc = "proved" PROVE ScriptFitsWrapper
  BY DEF ScriptFitsWrapper
<1>1. /\ IsFound(clockName, userClock, ClockNames) /\ IsFound(resetName, userReset, ResetNames)
      /\ resetType = FinalType
  BY PinsKnown DEF AfterAnalysis
<1>2. /\ script.clock = clockName /\ clockName # NoName
      /\ resetName # NoName /\ resetType # "Default"
      /\ resetType = "None" => script.active = "unfinished"
      /\ resetType # "None" => /\ script.reset = resetName
                               /\ script.active = IF resetType = "Posedge" THEN "high" ELSE "low"
  BY DEF Inv, ScriptInv
<1>3. userType \in ResetTypes /\ resetType \in ResetTypes
  BY DEF Inv, TypeOK, InputOK
<1>4. resetType = "None" => userType = "None"
  BY <1>1 DEF FinalType, NamedType
<1>5. ASSUME resetType # "None" PROVE script.active \in Hints
  <2>1. \/ script.active = "high" /\ resetType = "Posedge"
        \/ script.active = "low" /\ resetType = "Negedge"
    BY <1>2, <1>3, <1>5 DEF ResetTypes
  <2>2. CASE NamedType # "None" /\ Heard # <<>>
    <3>1. resetType = IF Heard[1] = "posedge" THEN "Posedge" ELSE "Negedge"
      BY <1>1, <2>2 DEF FinalType
    <3>2. (script.active = "high") = (Heard[1] = "posedge")
      BY <2>1, <3>1
    <3> QED
      BY <2>1, <2>2, <3>2 DEF Hints
  <2>3. CASE resetType = NamedType /\ resetType = userType
    BY <2>1, <2>3 DEF Hints
  <2>4. CASE resetType = NamedType /\ resetType # userType
    <3>1. resetName \in NegResetNames /\ resetType = "Negedge"
      BY <2>4 DEF NamedType
    <3> QED
      BY <2>1, <3>1 DEF Hints
  <2> QED
    BY <1>1, <2>2, <2>3, <2>4 DEF FinalType
<1>6. /\ wrapper.dut = design.definition[root] /\ wrapper.dut # NoDefinition
      /\ wrapper.ports = ports
      /\ wrapper.clock \in {NoName, clockName}
  BY DEF Inv, WrapperInv
<1> QED
  BY <1>1, <1>2, <1>4, <1>5, <1>6 DEF ScriptFitsWrapper, IsFound

\* The script that create_command_file writes names ports that the wrapper has, those of the
\* user if he named any; the level of the reset in it was told by its events, by the user or
\* by its name, whichever the code listens to.  Only -R none leaves it out, with the line
\* unfinished.
THEOREM Scripts == Spec => []ScriptFitsWrapper
BY InvFits, Invariance, PTL
===============================================================================
