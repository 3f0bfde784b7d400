------------------------------- MODULE RunStages -------------------------------
(***************************************************************************)
(* The life of one run directory, as far as somebody who looks at it from   *)
(* outside can tell: which of verdict.json and manifest.json are there.     *)
(* Whoever writes a run (verify(), diff_runs(), a job of the server) goes   *)
(* through these stages in this order and may stop after any of them;       *)
(* whoever reads runs relies on nothing else.                               *)
(*                                                                         *)
(*   open     create() has returned       decided  verdict.json             *)
(*   torn     manifest.json, empty        sealed   manifest.json, complete  *)
(***************************************************************************)

VARIABLE stage

Stages == {"absent", "open", "decided", "torn", "sealed"}

Enter == stage = "absent" /\ stage' = "open"
Conclude == stage = "open" /\ stage' = "decided"
OpenManifest == stage = "decided" /\ stage' = "torn"
CloseManifest == stage = "torn" /\ stage' = "sealed"

StagesInit == stage = "absent"
StagesNext == Enter \/ Conclude \/ OpenManifest \/ CloseManifest
StagesSpec == StagesInit /\ [][StagesNext]_stage
===============================================================================
