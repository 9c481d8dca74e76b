--------------------------- MODULE MCEdgePayments ---------------------------
(* EdgePayments for TLC: interchangeable instances, and fewer requests of a *)
(* payer whose account affords nothing, or once a request's body brought a  *)
(* payment or an odd status.                                                *)
EXTENDS EdgePayments, TLC

CONSTANTS MaxPoorRequests, MaxOddRequests
VARIABLES
    afforded,   \* what the account affords at first
    odd         \* a body was kept, or put a payment where no other handler does

MCBodies == {Collected(st) : st \in {"PENDING", "RELEASED"}} \cup {Confirmed(NoPay, t) : t \in {0, 1}}
Alike == Permutations(Instances)
Odd(old, new) ==
    /\ old # new
    /\ \/ old = NoPay /\ new \in Bodies
       \/ new.st = "RELEASED" /\ ~new.tid
       \/ new.st = "PENDING" /\ old # NoPay

MCInit == Init /\ afforded = funds /\ odd = FALSE
MCNext ==
    /\ Next /\ UNCHANGED afforded
    /\ odd' = (odd \/ \E i \in Instances, p \in Payments :
                          Loaded(i) /\ job'[i] # job[i] /\ Odd(Pay(i, p), Pay(i, p)'))
    /\ afforded = 0 => requests' <= MaxPoorRequests
    /\ odd' => requests' <= MaxOddRequests
MCSpec == MCInit /\ [][MCNext]_<<vars, afforded, odd>>
=============================================================================
