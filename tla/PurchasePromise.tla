--------------------------- MODULE PurchasePromise ---------------------------
(***************************************************************************)
(* What a purchase promises, whoever serves it: it is asked for, somebody  *)
(* vouches for its money, and the settlement rail delivers it, at most     *)
(* once and never before somebody vouched.  Who may vouch is the server's  *)
(* affair: the bank, the provider, an operator, or the body of a request   *)
(* the server takes at its word.                                           *)
(***************************************************************************)
EXTENDS Naturals

CONSTANT Payments
VARIABLES
    asked,      \* payments that were created
    vouched,    \* payments whose money somebody vouched for
    deliveries  \* how often the rail moved tokens for each payment

vars == <<asked, vouched, deliveries>>

Init ==
    /\ asked = {} /\ vouched = {}
    /\ deliveries = [p \in Payments |-> 0]

\* Payments are created, and somebody vouches for some that there are; one that
\* comes with a request's body may say at once that it was paid.
Hear(new, paid) ==
    /\ paid \subseteq asked \cup new
    /\ asked' = asked \cup new /\ vouched' = vouched \cup paid /\ UNCHANGED deliveries

\* A backfill may deliver several at once.
Deliver(ps) ==
    /\ ps # {} /\ ps \subseteq vouched /\ \A p \in ps : deliveries[p] = 0
    /\ deliveries' = [p \in Payments |-> deliveries[p] + IF p \in ps THEN 1 ELSE 0]
    /\ UNCHANGED <<asked, vouched>>

Next ==
    \/ \E new, paid \in SUBSET Payments : Hear(new, paid)
    \/ \E ps \in SUBSET Payments : Deliver(ps)

Spec == Init /\ [][Next]_vars
=============================================================================
