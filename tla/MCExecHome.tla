----------------------------- MODULE MCExecHome -----------------------------
(***************************************************************************)
(* The home query of MCExecutor.tla, whose answers define one response and *)
(* whose plans are among those the optimizer could have chosen.            *)
(***************************************************************************)
EXTENDS MCExecutor

ASSUME OneResponse == SoundAnswers
ASSUME PlansFit == SoundPlans
=============================================================================
