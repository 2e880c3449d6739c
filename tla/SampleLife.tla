------------------------------ MODULE SampleLife ------------------------------
(***************************************************************************)
(* What the outcome ledger promises about one scheduled sample, told       *)
(* without tables, runs or transactions: the only lives a sample can have. *)
(*                                                                         *)
(*   NONE -> DUE -> FROZEN -> PENDING -> SCORE | ABSTAIN                   *)
(*               -> EMPTY  -> SKIPPED                                      *)
(*               -> UNAVAILABLE                                            *)
(*                                                                         *)
(* SCORE, ABSTAIN, SKIPPED and UNAVAILABLE are final.  One step may move   *)
(* several samples: a plan schedules a day, a cycle is accepted whole, a   *)
(* maturation batch scores several at once.                                *)
(***************************************************************************)

CONSTANT Sample

VARIABLE life   \* the stage each sample has reached

Stage == {"NONE", "DUE", "FROZEN", "EMPTY", "UNAVAILABLE", "SKIPPED",
          "PENDING", "SCORE", "ABSTAIN"}

Final == {"UNAVAILABLE", "SKIPPED", "SCORE", "ABSTAIN"}

Follows == {<<"NONE", "DUE">>, <<"DUE", "FROZEN">>, <<"DUE", "EMPTY">>,
            <<"DUE", "UNAVAILABLE">>, <<"EMPTY", "SKIPPED">>,
            <<"FROZEN", "PENDING">>, <<"PENDING", "SCORE">>,
            <<"PENDING", "ABSTAIN">>}

Init == life = [s \in Sample |-> "NONE"]

Advance ==
    /\ life' \in [Sample -> Stage]
    /\ \A s \in Sample : life'[s] = life[s] \/ <<life[s], life'[s]>> \in Follows

Spec == Init /\ [][Advance]_life
===============================================================================
