---------------------------- MODULE MCEdgeMarket ----------------------------
(* EdgeMarket for TLC: two listings to swap, and an id nobody has listed yet. *)
(* Of what the first request changes, a row of the fixed listing may stay     *)
(* under way.  Meanwhile no instance is thrown away, nobody swaps, and no     *)
(* third request begins.                                                      *)
EXTENDS EdgeMarket, TLC

CONSTANTS fixed, s2, own, inv

MCInstances == Permutations(Instances)
MCSeedHoldings ==
    [a \in {fixed, s2} |-> IF a = fixed THEN [h \in {own, inv} |-> IF h = own THEN 2 ELSE 1]
                                        ELSE [h \in {inv} |-> 1]]
MCStragglers == {{}, {<<"prop", fixed, own>>}, {<<"bal", fixed, inv>>}}

Started(i) == {w \in underway'[i] \ underway[i] : ~w.back}
Lasting == \E i \in Instances : underway[i] # {}
MCNext ==
    /\ Next
    /\ \A i \in Instances : \A w \in Started(i) : requests = 1 /\ RowPut(store, w.row) # store
    /\ Lasting => /\ recycles' = recycles /\ requests' <= 2
                  /\ \A i \in Instances : mem'[i].swaps = mem[i].swaps
MCSpec == Init /\ [][MCNext]_vars
=============================================================================
