---------------------------- MODULE MCMockServer ----------------------------
(* MockServer for TLC: one seeded listing, partly sold, and one to register. *)
EXTENDS MockServer

CONSTANTS s1, d1, own, inv

MCSeedHoldings == [a \in {s1} |-> [h \in {own, inv} |-> IF h = own THEN 3 ELSE 1]]
MCBodies == {[NoPay EXCEPT !.st = st, !.asset = s1, !.by = inv] : st \in {"CONFIRMED", "RELEASED"}}
=============================================================================
