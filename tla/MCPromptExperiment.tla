------------------------- MODULE MCPromptExperiment -------------------------
(* Instances of PromptExperiment for TLC.  Liveness is checked in the same  *)
(* run, so symmetry is not used; what a run scores decides something only   *)
(* where the candidate is validated.                                       *)
EXTENDS PromptExperiment

Scores ==
  [r \in Run |->
     IF r[2] = "VALIDATION" /\ r[4] = "CANDIDATE" THEN IF r[1] = 1 THEN {0, 2} ELSE {1}
                                                  ELSE {0}]
=============================================================================
