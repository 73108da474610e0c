--------------------------- MODULE MCClaimLane ---------------------------
(***************************************************************************)
(* A small instance of ClaimLane: the model_turn slots of one session's    *)
(* threads, and brains to claim them.                                      *)
(***************************************************************************)
EXTENDS ClaimLane

MCSessionOf == [slot \in Slots |-> CHOOSE s \in Sessions : TRUE]

MCKindOf == [slot \in Slots |-> "model_turn"]

MCServes == [c \in Claimants |-> "model_turn"]
==========================================================================
