------------------------------ MODULE MCReplay ------------------------------
(***************************************************************************)
(* Replay on two lines with one narrative, or on three lines.               *)
(***************************************************************************)
EXTENDS Replay

MCNarrative == [l \in Line |-> IF l <= 2 THEN "rent" ELSE "fee"]
MCPayment   == [l \in Line |-> l]
=============================================================================
