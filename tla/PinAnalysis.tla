------------------------------ MODULE PinAnalysis ------------------------------
(***************************************************************************)
(* Which pins are clock and reset, and which level of the reset is active: *)
(* VerilogModule::analyze_pins and analyze_reset (src/codegen.cc:333) make *)
(* it out of what the user said, the names of the ports and the events the *)
(* reset is used in; JasperGoldGeneration::create_command_file             *)
(* (src/codegen.cc:458) writes it into the script of the prover.  Detector  *)
(* has the stages before, between and after.                               *)
(*                                                                         *)
(* A name is its number in alphabetical order, the order of std::map.      *)
(* What find_sinks returns for a port is the list of the events of the     *)
(* nodes, in the order of its breadth first search.                        *)
(***************************************************************************)
EXTENDS Naturals, Sequences, FiniteSets, SequencesExt

CONSTANTS
    Name,           \* the names of ports
    ClockNames,     \* clock_names
    ResetNames,     \* reset_names
    NegResetNames,  \* neg_reset_names
    NoName,         \* the empty string
    Sinks           \* what find_sinks can return: sequences of events

ASSUME PinNamesAssumption == /\ Name \subseteq Nat
                             /\ ClockNames \cup ResetNames \cup NegResetNames \subseteq Name
                             /\ NoName \notin Name

Events == {"none", "posedge", "negedge"}
ResetTypes == {"Default", "None", "Posedge", "Negedge"}

VARIABLES
    ports,          \* the ports of the design
    sinks,          \* the events a port is used in
    userClock,      \* --clock
    userReset,      \* --reset
    userType,       \* -R, "Default" when it is not given
    formal,         \* --formal
    pc,             \* what comes next
    clockName,      \* clock_name_
    resetName,      \* reset_name_
    resetType,      \* reset_type_
    warned,         \* "Unable to find reset type. Using default posedge reset"
    script          \* the clock and the reset line of fsm_jg.tcl, in parts

inputs == <<ports, sinks, userClock, userReset, userType, formal>>
vars == <<inputs, pc, clockName, resetName, resetType, warned, script>>

-------------------------------------------------------------------------------
(* Slips that are easy to make in this code, kept to show that the         *)
(* properties below notice them.                                           *)
NeverSkips == FALSE
-------------------------------------------------------------------------------
NoScript == [clock |-> NoName, reset |-> NoName, active |-> "nothing"]

Smallest(S) == CHOOSE n \in S : \A m \in S : n <= m

\* What main hands over, whichever ports the top turns out to have.
PinInit == /\ sinks \in [Name -> Sinks]
           /\ userClock \in Name \cup {NoName}
           /\ userReset \in Name \cup {NoName}
           /\ userType \in ResetTypes
           /\ formal \in BOOLEAN
           /\ clockName = NoName /\ resetName = NoName
           /\ resetType = "Default"
           /\ warned = FALSE
           /\ script = NoScript

At(here, there) == pc = here /\ pc' = there

\* The first port with one of the names, if there is one.
Pick(names) == IF ports \cap names = {} THEN NoName ELSE Smallest(ports \cap names)

-------------------------------------------------------------------------------
(* analyze_pins.                                                           *)

FindClock == /\ clockName = NoName
             /\ At("clock", "reset")
             /\ clockName' = Pick(ClockNames)
             /\ UNCHANGED <<inputs, resetName, resetType, warned, script>>

CheckClock == /\ clockName # NoName
              /\ At("clock", IF clockName \in ports THEN "reset" ELSE "failed")
              /\ UNCHANGED <<inputs, clockName, resetName, resetType, warned, script>>

FindReset == /\ resetName = NoName
             /\ At("reset", "polarity")
             /\ resetName' = Pick(ResetNames)
             /\ UNCHANGED <<inputs, clockName, resetType, warned, script>>

CheckReset == /\ resetName # NoName
              /\ At("reset", IF resetName \in ports THEN "polarity" ELSE "failed")
              /\ UNCHANGED <<inputs, clockName, resetName, resetType, warned, script>>

\* The name of the pin says that it is active low, unless the user has said more.
NameTells == /\ At("polarity", "analyze")
             /\ resetType' = IF resetName \in NegResetNames /\ resetType = "Default"
                             THEN "Negedge" ELSE resetType
             /\ UNCHANGED <<inputs, clockName, resetName, warned, script>>

-------------------------------------------------------------------------------
(* analyze_reset.                                                          *)

\* "skip if it already has value"
SkipsAnalysis == resetType = "None"

SkipReset == /\ SkipsAnalysis
             /\ At("analyze", "properties")
             /\ UNCHANGED <<inputs, clockName, resetName, resetType, warned, script>>

\* assert_(!reset_name_.empty())
NoResetPin == /\ ~SkipsAnalysis
              /\ resetName = NoName
              /\ At("analyze", "failed")
              /\ UNCHANGED <<inputs, clockName, resetName, resetType, warned, script>>

EventsOf(nodes) == SelectSeq(nodes, LAMBDA e : e # "none")

Heard == EventsOf(sinks[resetName])

\* The first node with an event decides.  A name that is not empty is a port here,
\* so that "not found in top" is never said.
HearEvent == /\ ~SkipsAnalysis
             /\ resetName # NoName
             /\ Heard # <<>>
             /\ At("analyze", "properties")
             /\ resetType' = IF Heard[1] = "posedge" THEN "Posedge" ELSE "Negedge"
             /\ UNCHANGED <<inputs, clockName, resetName, warned, script>>

HearNothing == /\ ~SkipsAnalysis
               /\ resetName # NoName
               /\ Heard = <<>>
               /\ At("analyze", "properties")
               /\ warned' = TRUE
               /\ UNCHANGED <<inputs, clockName, resetName, resetType, script>>

-------------------------------------------------------------------------------
(* create_command_file.                                                    *)

WriteClock == /\ clockName # NoName
              /\ At("script", "reset line")
              /\ script' = [script EXCEPT !.clock = clockName]
              /\ UNCHANGED <<inputs, clockName, resetName, resetType, warned>>

NoClock == /\ clockName = NoName
           /\ At("script", "failed")
           /\ UNCHANGED <<inputs, clockName, resetName, resetType, warned, script>>

\* The type has to be known, since analyze_reset may have left it as it was.
TypeKnown == resetType # "Default"

\* "reset -expression " and, unless there is none, the pin, negated when it is low.
WriteReset == /\ resetName # NoName
              /\ TypeKnown
              /\ At("reset line", "proved")
              /\ script' = CASE resetType = "None" -> [script EXCEPT !.active = "unfinished"]
                             [] resetType = "Posedge" -> [script EXCEPT !.reset = resetName,
                                                                         !.active = "high"]
                             [] OTHER -> [script EXCEPT !.reset = resetName, !.active = "low"]
              /\ UNCHANGED <<inputs, clockName, resetName, resetType, warned>>

\* The two assertions before it.
ResetUnknown == /\ resetName = NoName \/ ~TypeKnown
                /\ At("reset line", "failed")
                /\ UNCHANGED <<inputs, clockName, resetName, resetType, warned, script>>

PinNext == \/ FindClock \/ CheckClock \/ FindReset \/ CheckReset \/ NameTells
           \/ SkipReset \/ NoResetPin \/ HearEvent \/ HearNothing
           \/ WriteClock \/ NoClock \/ WriteReset \/ ResetUnknown
===============================================================================
