--------------------------- MODULE MCDarwinWeights ---------------------------
(* Instances of DarwinWeights for TLC. *)
EXTENDS DarwinWeights, TLC

CONSTANTS a, b

FirstLeads == (a :> {1}) @@ (b :> {0})
PublishTwice == {"PUBLISH"} \X {1, 2}
Interchangeable == Permutations(Publisher)
===============================================================================
