--------------------------- MODULE MCConditionDesk ---------------------------
(* ConditionDesk for TLC: a buyer and a seller, one or two sets of terms. *)
EXTENDS ConditionDesk, TLC

CONSTANTS buyer, seller, cash, tokens, price, Quantities

MCParties == {buyer, seller}
MCTerms == {[buyer |-> buyer, seller |-> seller, tokens |-> n, cash |-> n * price] : n \in Quantities}
MCCash == (buyer :> cash @@ seller :> 0)
MCTokens == (buyer :> 0 @@ seller :> tokens)
Alike == Permutations(DeskCalls)
=============================================================================
