--------------------------- MODULE OfflineStages ---------------------------
(***************************************************************************)
(* The offline stages: the pipeline of IntentPipeline runs, or the file    *)
(* shells of FileShells, or one of the evaluators of OfflineEvaluators is  *)
(* called.  They share no state, so one of them at a time is enough.       *)
(***************************************************************************)
EXTENDS IntentPipeline, FileShells, OfflineEvaluators

StagesInit == Init /\ ShellsInit /\ ((call = NoCall /\ answer = <<>>) \/ Called)

StagesNext ==
  \/ call = NoCall /\ ShellsInit /\ Next /\ UNCHANGED <<shellVars, call, answer>>
  \/ call = NoCall /\ Init /\ ShellsNext /\ UNCHANGED <<vars, call, answer>>
  \/ Evaluate /\ UNCHANGED <<vars, shellVars>>

StagesSpec == StagesInit /\ [][StagesNext]_<<vars, shellVars, call, answer>>
=============================================================================
