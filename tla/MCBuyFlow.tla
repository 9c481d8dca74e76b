----------------------------- MODULE MCBuyFlow ------------------------------
(***************************************************************************)
(* BuyFlow for TLC, in stories: one purchase with every trouble the bounds *)
(* allow, or two in which the first goes on while the second is made, of   *)
(* which PayU decides at most one.                                         *)
(***************************************************************************)
EXTENDS BuyFlow, TLC

CONSTANTS p1, p2

VARIABLE story

MCInit ==
    /\ FlowInit
    /\ story \in {"one", "two"}
    /\ page = "here"
    /\ story = "two" => mode.official # mode.payu

MCNext ==
    /\ FlowNext
    /\ story = "one" => psp'[p2] = "none"
    /\ story = "two" => psp'[p2] \in {"none", "open"} /\ troubles' = 0 /\ expired' = {}
    /\ mode.payu \/ UNCHANGED page          \* only the hand-off names a listing
    /\ UNCHANGED story

MCSpec ==
    /\ MCInit /\ [][MCNext]_<<flow, story>>
    /\ \A t \in Slots : WF_flow(Execute(t)) /\ WF_flow(GoesOn(t))
=============================================================================
