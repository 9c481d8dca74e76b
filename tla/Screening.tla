----------------------------- MODULE Screening -----------------------------
(***************************************************************************)
(* The fraud rules of the two servers at the two places they are asked:    *)
(* when a collect is made and again when it is approved.  One server and   *)
(* its book of payments; amounts in units of ten thousand rupees with the  *)
(* thresholds and weights of the code, the counts of payments scaled down. *)
(***************************************************************************)
EXTENDS Integers, SequencesExt, FiniteSetsExt

CONSTANTS
    Payers, Keys, Amounts,
    velWarn, velBlock, structCount, RecentKept,  \* 5, 8, 3 and 10 in the code
    MaxPayments                                  \* bound
VARIABLES
    server,       \* "api" or "mock"
    kycStatus,    \* of each payer: "none" is no record
    book,         \* payments in the order made
    npciIdem      \* the payment a key stands for, or 0

screenVars == <<server, kycStatus, book, npciIdem>>

highValue == 50
elevated == 20
structFloor == 18
structCeil == 20
total24h == 100
blockScore == 70
Vpas == {"clean", "risky", "mimic"}   \* what the handles look like
Ages == <<"minutes", "hours", "days">>
\* The local part of the payer's handle is what the request gives: a name, or none.
Locals == Payers \cup {"nobody"}

ScreenInit ==
    /\ server \in {"api", "mock"}
    /\ kycStatus \in [Payers -> {"none", "VERIFIED", "REJECTED"}]
    /\ book = <<>> /\ npciIdem = [k \in Keys |-> 0]
-----------------------------------------------------------------------------
(* payerHistory *)
Failed(p) == p.status \in {"FAILED_FRAUD_BLOCKED", "FAILED_KYC_NOT_VERIFIED", "FAILED_INSUFFICIENT_FUNDS"}
Counts_Confirmed(p) == p.status = "CONFIRMED" \* (mutant: only paid ones feed the velocity)
Counts(p) == ~Failed(p)
\* Payments counted for payer, his own and those paid from a handle with his
\* name in it, other than the one at place except, by age.
CountedFor(payer, p) == payer \in {p.payer, p.local}
Others(payer, except, ages) ==
    {i \in DOMAIN book \ {except} : CountedFor(payer, book[i]) /\ Counts(book[i]) /\ book[i].age \in ages}
InBand(a) == a > structFloor /\ a <= structCeil
First(S, n) == {i \in S : Cardinality({j \in S : j < i}) < n}
AmountsOf(S) == MapThenSumSet(LAMBDA i : book[i].amount, S)

payerHistory(payer, except) ==
    LET day == Others(payer, except, {"minutes", "hours"}) IN
    [count10m |-> Cardinality(Others(payer, except, {"minutes"})), total |-> AmountsOf(day),
     band |-> Cardinality({i \in First(day, RecentKept) : InBand(book[i].amount)}),
     verified |-> kycStatus[payer] = "VERIFIED" \/ (server = "mock" /\ kycStatus[payer] = "none")]

computeRiskScore(amount, vpa, night, h) ==
    LET if(c, w) == IF c THEN w ELSE 0
        band == h.band + if(InBand(amount), 1)
    IN  if(amount > highValue, 30) + if(amount > elevated /\ amount <= highValue, 15)
        + if(band >= structCount, 40)
        + if(h.count10m >= velBlock, 70) + if(h.count10m >= velWarn /\ h.count10m < velBlock, 40)
        + if(h.total + amount > total24h, 20)
        + if(vpa = "risky", 40) + if(vpa = "mimic", 15)
        + if(~h.verified, 25) + if(night /\ amount > elevated, 10)

\* What the whole book of the last day says, kept to compare with.
Truth(payer, except) ==
    LET day == Others(payer, except, {"minutes", "hours"}) IN
    [band |-> Cardinality({i \in day : InBand(book[i].amount)}), day |-> Cardinality(day)]
-----------------------------------------------------------------------------
(* Handlers *)
\* POST /api/npci/collect.  A key already known answers with its payment; a
\* blocked payment is recorded, but not under the key.
Collect(k, payer, amount, vpa, local, night) ==
    /\ npciIdem[k] = 0 /\ Len(book) < MaxPayments
    /\ LET blocked == computeRiskScore(amount, vpa, night, payerHistory(payer, 0)) >= blockScore
       IN  /\ book' = Append(book, [payer |-> payer, local |-> local, amount |-> amount, vpa |-> vpa, age |-> "minutes",
                                    key |-> k, told |-> FALSE, status |-> IF blocked THEN "FAILED_FRAUD_BLOCKED" ELSE "PENDING",
                                    truth |-> Truth(payer, 0)])
           /\ npciIdem' = IF blocked THEN npciIdem ELSE [npciIdem EXCEPT ![k] = Len(book) + 1]
    /\ UNCHANGED <<server, kycStatus>>

\* A payee without a verified record: the API refuses one without a record
\* too.  The refusal is recorded under the key.
CollectForUnverified(k, payer, amount) ==
    /\ npciIdem[k] = 0 /\ Len(book) < MaxPayments
    /\ book' = Append(book, [payer |-> payer, local |-> "nobody", amount |-> amount, vpa |-> "clean", age |-> "minutes",
                             key |-> k, told |-> FALSE, status |-> "FAILED_KYC_NOT_VERIFIED", truth |-> Truth(payer, 0)])
    /\ npciIdem' = [npciIdem EXCEPT ![k] = Len(book) + 1]
    /\ UNCHANGED <<server, kycStatus>>

\* POST /api/npci/payments/:id/approve: the payer may be named in the body.
MayPay(payer, own) ==
    LET known == IF kycStatus[payer] # "none" THEN kycStatus[payer] ELSE kycStatus[own]
    IN  known = "VERIFIED" \/ (server = "mock" /\ known = "none")
Rescreened_Not(i, payer, night) == FALSE \* (mutant: screened when collected only)
Rescreened(i, payer, night) ==
    computeRiskScore(book[i].amount, book[i].vpa, night, payerHistory(payer, i)) >= blockScore
Approve(i, payer, night, funds) ==
    /\ book[i].status = "PENDING"
    /\ LET to(status) == book' = [book EXCEPT ![i].status = status] IN
       IF book[i].age # "minutes" THEN to("EXPIRED")
       ELSE IF ~MayPay(payer, book[i].payer) THEN to("FAILED_KYC_NOT_VERIFIED")
       ELSE IF Rescreened(i, payer, night) THEN to("FAILED_FRAUD_BLOCKED")
       ELSE IF ~funds THEN to("FAILED_INSUFFICIENT_FUNDS")
       ELSE book' = [book EXCEPT ![i] = [@ EXCEPT !.status = "CONFIRMED", !.payer = payer, !.truth = Truth(payer, i)]]
    /\ UNCHANGED <<server, kycStatus, npciIdem>>

\* POST /api/npci/callback of the API writes the status it is given, whatever it was.
Callback(i, status) ==
    /\ server = "api" /\ book' = [book EXCEPT ![i].status = status, ![i].told = TRUE]
    /\ UNCHANGED <<server, kycStatus, npciIdem>>

Decide(payer, status) == kycStatus' = [kycStatus EXCEPT ![payer] = status] /\ UNCHANGED <<server, book, npciIdem>>
\* Ten minutes, then a day pass.
Older(a) == IF a = "minutes" THEN "hours" ELSE "days"
Wait ==
    /\ \E i \in DOMAIN book : book[i].age # "days"
    /\ book' = [i \in DOMAIN book |-> [book[i] EXCEPT !.age = Older(@)]]
    /\ UNCHANGED <<server, kycStatus, npciIdem>>

ScreenNext ==
    \/ \E k \in Keys, p \in Payers, a \in Amounts :
        \/ \E v \in Vpas, l \in Locals, n \in BOOLEAN : Collect(k, p, a, v, l, n)
        \/ CollectForUnverified(k, p, a)
    \/ \E i \in DOMAIN book, p \in Payers, n \in BOOLEAN, f \in BOOLEAN : Approve(i, p, n, f)
    \/ \E i \in DOMAIN book, s \in {"PENDING", "CONFIRMED", "FAILED_FRAUD_BLOCKED"} : Callback(i, s)
    \/ \E p \in Payers, s \in {"VERIFIED", "REJECTED"} : Decide(p, s)
    \/ Wait
-----------------------------------------------------------------------------
\* No payer has more payments made within ten minutes that did not fail than
\* the velocity rule allows, whichever of them were approved, in what order
\* and as whose, counting those whose status no callback has set.
VelocityHolds ==
    \A p \in Payers :
        Cardinality({i \in DOMAIN book : /\ book[i].payer = p /\ ~Failed(book[i]) /\ ~book[i].told
                                         /\ book[i].age = "minutes"}) <= velBlock

\* Of payers for whom no more payments are counted in a day than the rules look
\* back at (payments of others, from handles with his name, take places too),
\* none gets a high-value payment through after structCount payments just
\* below the reporting band, at collect or at approval, unless a callback says so.
StructuringIsSeen ==
    \A i \in DOMAIN book : ~book[i].told /\ book[i].amount > highValue /\ book[i].status \in {"PENDING", "CONFIRMED"}
        /\ book[i].truth.day <= RecentKept => book[i].truth.band < structCount

\* A key stands for one payment that did not fail, callbacks apart.
OnePerKey ==
    \A i, j \in DOMAIN book : i # j /\ book[i].key = book[j].key =>
        \E n \in {i, j} : Failed(book[n]) \/ book[n].told

PaymentsAreScreened == VelocityHolds /\ StructuringIsSeen /\ OnePerKey
=============================================================================
