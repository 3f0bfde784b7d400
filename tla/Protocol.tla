------------------------------- MODULE Protocol -------------------------------
(***************************************************************************)
(* What a verification run promises, without the engine: assertion rows are *)
(* gathered; once every constraint has one the verdict is taken from all of *)
(* them, once; after that no row is added, and the run is sealed.  Its      *)
(* directory goes through the stages of RunStages.                          *)
(***************************************************************************)
EXTENDS Verdicts, RunStages

CONSTANTS Constraint, HappyPath, NoFile
VARIABLES evidence, verdict

protocolVars == <<stage, evidence, verdict>>

Init == StagesInit /\ evidence = {} /\ verdict = NoFile

Create ==
  /\ Enter
  /\ UNCHANGED <<evidence, verdict>>

Gather ==
  /\ stage = "open"
  /\ evidence \subseteq evidence'
  /\ UNCHANGED <<stage, verdict>>

Decide ==
  /\ Conclude
  /\ \A c \in Constraint : RowsOf(evidence, c) # {}
  /\ verdict' = BuildVerdict(evidence, Constraint, HappyPath)
  /\ UNCHANGED evidence

SealRun ==
  /\ OpenManifest \/ CloseManifest
  /\ UNCHANGED <<evidence, verdict>>

Next == Create \/ Gather \/ Decide \/ SealRun

Spec == Init /\ [][Next]_protocolVars
===============================================================================
