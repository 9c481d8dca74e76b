------------------------------ MODULE MockServer ------------------------------
(***************************************************************************)
(* The development server (mock-api-server.js): one Express process that   *)
(* keeps listings, holdings, pledges, swaps and payments in memory.  A     *)
(* handler runs to its end unless it awaits; it awaits the payment         *)
(* provider when it reconciles and the settlement rail after it settled,   *)
(* and other requests run in between.  A restart loses all of it and       *)
(* brings the seeded listings back; clients then upload what they hold.    *)
(* What a request's body brings is taken at its word: the status a webhook *)
(* names, the payment reattach stores, the receipts and the listing a      *)
(* transfer is shown.                                                      *)
(*                                                                         *)
(* Left out: who asks (a refusal changes nothing, and the guards on the    *)
(* caller are about persons, not states), idempotency keys (they only      *)
(* repeat an answer), rupee accounts.  Open choices: KYC, fraud score,     *)
(* expiry, and whether the payer's account affords a payment.  A payment   *)
(* buys one token.                                                         *)
(***************************************************************************)
EXTENDS Integers, FiniteSetsExt

CONSTANTS
    Seeded,       \* listings the process starts with
    Drafts,       \* listings users may register
    People,
    Originator,   \* originator1, who holds the seeded listings
    SeedHoldings, \* holdings of each seeded listing
    Supply,       \* supply of a minted or auto-created listing
    Amounts,      \* tokens a transfer, a pledge or a swap may name
    Loans, Swaps, Payments,
    Bodies,       \* payments a request's body may bring
    MaxRequests,  \* bound: requests
    MaxRestarts   \* bound: restarts

Assets == Seeded \cup Drafts
SumOf(f) == MapThenSumSet(LAMBDA h : f[h], DOMAIN f)
PayRecords ==
    [st : {"none", "PENDING", "CONFIRMED", "RELEASED", "DECLINED", "EXPIRED", "REFUNDED",
           "FAILED_KYC_NOT_VERIFIED", "FAILED_FRAUD_BLOCKED", "FAILED_INSUFFICIENT_FUNDS",
           "FAILED_AMOUNT_MISMATCH"},
     asset : Assets \cup {"none"}, by : People, umi : BOOLEAN, tid : BOOLEAN]

ASSUME MockServerConstants ==
    /\ Originator \in People /\ Supply \in Nat /\ Amounts \subseteq Nat \ {0}
    /\ IsFiniteSet(People) /\ IsFiniteSet(Loans) /\ IsFiniteSet(Payments)
    /\ \A r \in Bodies : r \in PayRecords /\ r.st # "none" /\ r.asset \in Assets
    /\ \A a \in Seeded : \E hs \in SUBSET People : SeedHoldings[a] \in [hs -> Nat]
    /\ MaxRequests \in Nat /\ MaxRestarts \in Nat

VARIABLES
    prop,     \* listings
    bal,      \* balance records of each listing
    loans, swaps,
    pays,     \* payments
    asking,   \* reconciliations waiting for the provider
    posting,  \* payments on their way to the rail
    psp,      \* payments paid at the provider
    rail,     \* keys the rail has executed, and what it delivered
    kept,     \* payments clients keep across a restart
    told,     \* holdings the seeds and the blocks add up to
    made,     \* tokens of each listing ever brought to life (history)
    offbook,  \* listings whose holdings changed without a block (history)
    reissued, \* listings minted again (history)
    moved,    \* tokens settled for each payment since the start (history)
    vouched,  \* payments whose money somebody vouched for (history)
    issued,   \* payment ids in use
    requests, restarts

market == <<prop, bal, loans, swaps>>
books == <<told, made, offbook, reissued>>
inflight == <<asking, posting, psp, rail>>
history == <<moved, vouched, issued>>
bounds == <<requests, restarts>>
vars == <<market, pays, inflight, kept, books, history, bounds>>
-----------------------------------------------------------------------------
(* Listings and holdings *)
NoPay == [st |-> "none", asset |-> "none", by |-> Originator, umi |-> FALSE, tid |-> FALSE]
NoProp == [st |-> "none", val |-> "PENDING", owner |-> Originator, total |-> 0,
           before |-> "none", loose |-> FALSE]
Listed(o, n, loose) ==
    [NoProp EXCEPT !.st = "TOKENIZED", !.val = "VALIDATED", !.owner = o, !.total = n, !.loose = loose]
Tradeable(p) == p.st = "TOKENIZED"

\* Object spread: the left argument wins.
Over(new, old) ==
    [x \in DOMAIN new \cup DOMAIN old |-> IF x \in DOMAIN new THEN new[x] ELSE old[x]]
Empty == [x \in {} |-> 0]
Only(h, n) == [x \in {h} |-> n]
Held(b, h) == IF h \in DOMAIN b THEN b[h] ELSE 0
Moved(b, from, to, n) ==
    IF from = to THEN b
    ELSE Over([h \in {from, to} |-> IF h = to THEN Held(b, to) + n ELSE Held(b, from) - n], b)

\* (mutant: what others hold is not taken off)
supplyHeadroom_Uncapped(b, except, total) == total
supplyHeadroom(b, except, total) ==
    Max({0, total - SumOf([h \in DOMAIN b \ {except} |-> b[h]])})

drunixLockedTokens(a, h) ==
    SumOf([l \in {k \in Loans : loans[k].st = "ACTIVE" /\ loans[k].asset = a /\ loans[k].by = h} |-> loans[l].n])

\* drunixAppend: the block of a movement, as far as holdings are concerned.
\* (mutant: the block leaves out the receiver)
Told_Sender(t, a, from, to, n) == [t EXCEPT ![a][from] = @ - n]
Told(t, a, from, to, n) ==
    [t EXCEPT ![a] = [h \in People |-> @[h] + (IF h = to THEN n ELSE 0) - (IF h = from THEN n ELSE 0)]]

Request == requests < MaxRequests /\ requests' = requests + 1 /\ UNCHANGED restarts
NoPayment == UNCHANGED <<pays, inflight, history, kept>>
-----------------------------------------------------------------------------
(* A listing's life *)
Register(a, o) ==
    /\ Request /\ prop[a].st = "none"
    /\ prop' = [prop EXCEPT ![a] = [NoProp EXCEPT !.st = "DRAFT", !.owner = o]]
    /\ UNCHANGED <<bal, loans, swaps, books>> /\ NoPayment

Validate(a, decision) ==
    /\ Request /\ prop[a].st = "DRAFT"
    /\ prop' = [prop EXCEPT ![a].val = decision]
    /\ UNCHANGED <<bal, loans, swaps, books>> /\ NoPayment

\* Supply and status are written before a second mint is refused.
Mint(a, n) ==
    LET o == prop[a].owner
    IN  /\ Request /\ prop[a].st \notin {"none", "TOKENIZED"} /\ prop[a].val = "VALIDATED"
        /\ prop' = [prop EXCEPT ![a].total = n, ![a].st = "TOKENIZED"]
        /\ reissued' = IF prop[a].st = "DRAFT" THEN reissued ELSE reissued \cup {a}
        /\ IF o \in DOMAIN bal[a] THEN UNCHANGED <<bal, told, made>>
           ELSE /\ bal' = [bal EXCEPT ![a] = Over(Only(o, n), @)]
                /\ told' = [told EXCEPT ![a][o] = @ + n]
                /\ made' = [made EXCEPT ![a] = @ + n]
        /\ UNCHANGED <<loans, swaps, offbook>> /\ NoPayment

Freeze(a) ==
    /\ Request /\ prop[a].st \notin {"none", "FROZEN"}
    /\ prop' = [prop EXCEPT ![a].before = prop[a].st, ![a].st = "FROZEN"]
    /\ UNCHANGED <<bal, loans, swaps, books>> /\ NoPayment

Unfreeze(a) ==
    /\ Request /\ prop[a].st = "FROZEN"
    /\ prop' = [prop EXCEPT ![a].st = IF prop[a].before = "none" THEN "TOKENIZED" ELSE prop[a].before,
                            ![a].before = "none"]
    /\ UNCHANGED <<bal, loans, swaps, books>> /\ NoPayment

\* Holders are bought out; no block says so.
Delete(a) ==
    LET o == prop[a].owner
        out == SumOf([h \in DOMAIN bal[a] \ {o} |-> bal[a][h]])
        zero == [h \in DOMAIN bal[a] |-> IF h = o THEN bal[a][h] ELSE 0]
    IN  /\ Request /\ prop[a].st # "none"
        /\ prop' = [prop EXCEPT ![a].st = "WITHDRAWN"]
        /\ bal' = [bal EXCEPT ![a] = IF out > 0 THEN Over(Only(o, Held(zero, o) + out), zero) ELSE zero]
        /\ offbook' = IF out > 0 THEN offbook \cup {a} ELSE offbook
        /\ UNCHANGED <<loans, swaps, told, made, reissued>> /\ NoPayment
-----------------------------------------------------------------------------
(* Transfers, and the holdings they heal *)
\* What a request's body may bring of a payment: what a client kept, a fresh
\* answer, or anything else with the payment's id.
Late == {"CONFIRMED", "RELEASED"}
Copies(p) == ({kept[p], pays[p]} \cup Bodies) \ {NoPay}
Receipts(a, from) ==
    {r \in UNION {{p} \X Copies(p) : p \in Payments} : r[2].st \in Late /\ r[2].asset = a /\ r[2].by = from}
\* A payment that is taken is one from now on, of the status it says.
Takes(ps, late) ==
    issued' = issued \cup ps /\ vouched' = vouched \cup late /\ UNCHANGED moved

\* The listing a transfer works on, with its holdings: the one there is, the
\* body's, or one made up on the spot.
Listings(a, from) ==
    IF prop[a].st # "none" THEN {<<prop[a], bal[a]>>}
    ELSE {<<Listed(from, Supply, TRUE), Over(Only(from, Supply), bal[a])>>}
         \cup {<<Listed(s[1], s[2], TRUE), bal[a]>> : s \in People \X ({Supply} \cup Amounts)}

Restored(R) ==
    [p \in Payments |-> IF pays[p] = NoPay /\ \E r \in R : r[1] = p
                        THEN (CHOOSE r \in R : r[1] = p)[2] ELSE pays[p]]
New(R) == {p \in Payments : pays[p] = NoPay /\ \E r \in R : r[1] = p}

\* Listing and holdings as they are left, whatever was moved out of them, and
\* the payments of the receipts.
Leave(a, p, healed, b, R) ==
    /\ prop' = [prop EXCEPT ![a] = p] /\ bal' = [bal EXCEPT ![a] = b]
    /\ made' = [made EXCEPT ![a] = @ + SumOf(healed) - SumOf(bal[a])]
    /\ offbook' = IF healed = bal[a] THEN offbook ELSE offbook \cup {a}
    /\ pays' = Restored(R) /\ Takes(New(R), New(R)) /\ UNCHANGED <<loans, swaps, reissued, inflight, kept>>

\* (mutant: pledged tokens may be spent)
Spendable_Pledged(b, a, h) == b[h]
Spendable(b, a, h) == b[h] - drunixLockedTokens(a, h)
Spend(a, p, b, from, to, n, R) ==
    IF Spendable(b, a, from) >= n
    THEN Leave(a, p, b, Moved(b, from, to, n), R) /\ told' = Told(told, a, from, to, n)
    ELSE Leave(a, p, b, b, R) /\ UNCHANGED told

\* The receipts may name any number of tokens, and one may be shown twice.
Transfer(a, from, to, n) ==
    /\ Request /\ from # to
    /\ \E l \in Listings(a, from) :
          LET p == l[1]
              b == l[2]
              room == supplyHeadroom(b, from, p.total)
              Healed(k) == Over(Only(from, k), b)
          IN  \/ /\ prop[a].st = "none"     \* refused: but the listing is there now
                 /\ Leave(a, p, b, b, {}) /\ UNCHANGED told
              \/ /\ Tradeable(p) /\ from \in DOMAIN b
                 /\ Spend(a, p, b, from, to, n, {})
              \/ /\ Tradeable(p) /\ from \notin DOMAIN b
                 /\ \E R \in SUBSET Receipts(a, from) \ {{}}, k \in Min({1, room})..room :
                       IF k >= n THEN Spend(a, p, Healed(k), from, to, n, R)
                       ELSE Leave(a, p, b, b, R) /\ UNCHANGED told
              \/ /\ Tradeable(p) /\ from \notin DOMAIN b
                 /\ from \in {p.owner, Originator} \/ p.loose
                 /\ Spend(a, p, Healed(room), from, to, n, {})
-----------------------------------------------------------------------------
(* Pledges and swaps *)
NoLoan == [st |-> "none", by |-> Originator, asset |-> "none", n |-> 0]
Pledge(l, h, a, n) ==
    /\ Request /\ loans[l] = NoLoan /\ prop[a].total > 0
    /\ drunixLockedTokens(a, h) + n <= Held(bal[a], h) \div 2
    /\ loans' = [loans EXCEPT ![l] = [st |-> "ACTIVE", by |-> h, asset |-> a, n |-> n]]
    /\ UNCHANGED <<prop, bal, swaps, books>> /\ NoPayment
Repay(l) ==
    /\ Request /\ loans[l].st = "ACTIVE"
    /\ loans' = [loans EXCEPT ![l].st = "REPAID"]
    /\ UNCHANGED <<prop, bal, swaps, books>> /\ NoPayment

NoSwap == [st |-> "none", from |-> Originator, to |-> Originator,
           give |-> "none", gt |-> 0, get |-> "none", rt |-> 0]
Covers(h, a, n) == h \in DOMAIN bal[a] /\ bal[a][h] >= n + drunixLockedTokens(a, h)
Swappable(s) ==
    /\ Tradeable(prop[s.give]) /\ Tradeable(prop[s.get])
    /\ Covers(s.from, s.give, s.gt) /\ Covers(s.to, s.get, s.rt)
\* (mutant: a proposal is not checked again when it is accepted)
StillSwappable_Trusted(s) == TRUE
StillSwappable(s) == Swappable(s)

Propose(w, s) ==
    /\ Request /\ swaps[w] = NoSwap /\ s.from # s.to /\ s.give # s.get /\ Swappable(s)
    /\ swaps' = [swaps EXCEPT ![w] = s]
    /\ UNCHANGED <<prop, bal, loans, books>> /\ NoPayment
Accept(w) ==
    LET s == swaps[w]
    IN  /\ Request /\ s.st = "PROPOSED" /\ StillSwappable(s)
        /\ bal' = [bal EXCEPT ![s.give] = Moved(@, s.from, s.to, s.gt),
                              ![s.get] = Moved(@, s.to, s.from, s.rt)]
        /\ told' = Told(Told(told, s.give, s.from, s.to, s.gt), s.get, s.to, s.from, s.rt)
        /\ swaps' = [swaps EXCEPT ![w].st = "SETTLED"]
        /\ UNCHANGED <<prop, loans, made, offbook, reissued>> /\ NoPayment
Cancel(w) ==
    /\ Request /\ swaps[w].st = "PROPOSED"
    /\ swaps' = [swaps EXCEPT ![w].st = "CANCELLED"]
    /\ UNCHANGED <<prop, bal, loans, books>> /\ NoPayment
-----------------------------------------------------------------------------
(* Payments *)
Offered(a) == Held(bal[a], prop[a].owner)
Collect(p, a, h) ==
    /\ Request /\ p \notin issued /\ issued' = issued \cup {p}
    /\ prop[a].st # "none" => Offered(a) >= 1
    /\ \E st \in {"PENDING", "FAILED_KYC_NOT_VERIFIED", "FAILED_FRAUD_BLOCKED"} :
          pays' = [pays EXCEPT ![p] = [NoPay EXCEPT !.st = st, !.asset = a, !.by = h]]
    /\ UNCHANGED <<market, books, inflight, kept, moved, vouched>>

PayAtProvider(p) ==
    /\ p \in issued \ psp /\ psp' = psp \cup {p} /\ vouched' = vouched \cup {p}
    /\ UNCHANGED <<market, pays, asking, posting, rail, kept, books, moved, issued, bounds>>
Reports(p) == IF p \in psp THEN {"success", "mismatch"} ELSE {"failure", "pending"}

Set(p, r) == [pays EXCEPT ![p] = r]
Vouched(p) == vouched' = vouched \cup {p} /\ UNCHANGED <<moved, issued>>
\* A handler that only writes the payment.
Writes(p, r) ==
    /\ pays' = Set(p, r) /\ UNCHANGED <<market, books, inflight, kept>>

\* settleConfirmedPayment up to its first await, on a payment as it stands.
\* (mutant: a released payment settles again)
Settles_Again(r) == r.st \in {"CONFIRMED", "RELEASED"}
Settles(r) == r.st = "CONFIRMED"
settleConfirmedPayment(p, r) ==
    LET a == r.asset
        o == prop[a].owner
    IN  IF Settles(r) /\ prop[a].st # "none" /\ Held(bal[a], o) >= 1
        THEN /\ bal' = [bal EXCEPT ![a] = Moved(@, o, r.by, 1)]
             /\ told' = Told(told, a, o, r.by, 1)
             /\ pays' = Set(p, [r EXCEPT !.st = "RELEASED", !.tid = TRUE])
             /\ posting' = posting \cup {<<p, "settle">>}
             /\ moved' = [moved EXCEPT ![p] = @ + 1]
             /\ UNCHANGED <<prop, loans, swaps, made, offbook, reissued>>
        ELSE pays' = Set(p, r) /\ UNCHANGED <<market, books, posting, moved>>

AfterReport(r, s) ==
    CASE r.st = "PENDING" /\ s = "success" -> [r EXCEPT !.st = "CONFIRMED"]
      [] r.st = "PENDING" /\ s = "failure" -> [r EXCEPT !.st = "DECLINED"]
      [] OTHER -> r

PayuCallback(p, s) ==
    /\ Request /\ pays[p] # NoPay /\ s \in Reports(p)
    /\ IF s = "mismatch"
       THEN /\ pays' = Set(p, [pays[p] EXCEPT !.st = "FAILED_AMOUNT_MISMATCH"])
            /\ UNCHANGED <<market, books, posting, moved>>
       ELSE settleConfirmedPayment(p, AfterReport(pays[p], s))
    /\ UNCHANGED <<asking, psp, rail, kept, vouched, issued>>

Reconcile(p) ==
    /\ Request /\ pays[p] # NoPay /\ asking' = asking \cup {p}
    /\ UNCHANGED <<market, pays, posting, psp, rail, kept, books, history>>
\* The answer meets the payment as it is by now.
ProviderAnswers(p, s) ==
    /\ p \in asking /\ asking' = asking \ {p} /\ s \in Reports(p)
    /\ settleConfirmedPayment(p, IF s = "mismatch" /\ pays[p].st = "PENDING"
                                 THEN [pays[p] EXCEPT !.st = "FAILED_AMOUNT_MISMATCH"]
                                 ELSE AfterReport(pays[p], s))
    /\ UNCHANGED <<psp, rail, kept, vouched, issued, bounds>>

Settle(p) ==
    /\ Request /\ Settles(pays[p]) /\ settleConfirmedPayment(p, pays[p])
    /\ UNCHANGED <<asking, psp, rail, kept, vouched, issued>>

Get(p) ==
    /\ Request /\ pays[p].st = "PENDING" /\ Writes(p, [pays[p] EXCEPT !.st = "EXPIRED"])
    /\ UNCHANGED history
Reattach(p) ==
    /\ Request /\ pays[p] = NoPay
    /\ \E r \in Copies(p) : Writes(p, r) /\ Takes({p}, IF r.st \in Late THEN {p} ELSE {})

Approve(p) ==
    /\ Request /\ pays[p].st = "PENDING"
    /\ \/ Writes(p, [pays[p] EXCEPT !.st = "CONFIRMED"]) /\ Vouched(p)
       \/ /\ \E st \in {"EXPIRED", "FAILED_KYC_NOT_VERIFIED", "FAILED_FRAUD_BLOCKED",
                        "FAILED_INSUFFICIENT_FUNDS"} : Writes(p, [pays[p] EXCEPT !.st = st])
          /\ UNCHANGED history
Decline(p) ==
    /\ Request /\ pays[p].st = "PENDING" /\ Writes(p, [pays[p] EXCEPT !.st = "DECLINED"])
    /\ UNCHANGED history

Release(p) ==
    /\ Request /\ pays[p].st = "CONFIRMED"
    /\ pays' = Set(p, [pays[p] EXCEPT !.st = "RELEASED", !.tid = TRUE])
    /\ posting' = IF pays[p].umi THEN posting ELSE posting \cup {<<p, "release">>}
    /\ UNCHANGED <<market, books, asking, psp, rail, kept, history>>

Refundable == {"PENDING", "CONFIRMED", "FAILED_INSUFFICIENT_FUNDS", "FAILED_KYC_NOT_VERIFIED",
               "EXPIRED", "DECLINED"}
Refund(p) ==
    /\ Request /\ pays[p].st \in Refundable /\ Writes(p, [pays[p] EXCEPT !.st = "REFUNDED"])
    /\ UNCHANGED history

\* A webhook moves an open payment only; the payer may post one as well as the bank,
\* or have one played.
Webhook(p, st) ==
    /\ Request /\ pays[p].st = "PENDING"
    /\ Writes(p, [pays[p] EXCEPT !.st = st]) /\ Takes({}, IF st = "CONFIRMED" THEN {p} ELSE {})
WebhookTest(p) ==
    /\ Request /\ pays[p].st = "PENDING"
    /\ Writes(p, [pays[p] EXCEPT !.st = "CONFIRMED"]) /\ Vouched(p)
-----------------------------------------------------------------------------
(* The rail, and restarts *)
Backfill ==
    LET ps == {p \in Payments : pays[p].st = "RELEASED" /\ ~pays[p].umi}
    IN  /\ Request /\ ps # {}
        /\ posting' = posting \cup {<<p, "backfill">> : p \in ps}
        /\ UNCHANGED <<market, pays, asking, psp, rail, kept, books, history>>

\* Whatever brings it there, a payment is one operation to the rail.
\* (mutant: the way it came is part of the key)
RailKey_Way(p, way) == <<p, way>>
RailKey(p, way) == p
Delivered(p, way) ==
    rail' = [keys |-> rail.keys \cup {RailKey(p, way)},
             dvps |-> [rail.dvps EXCEPT ![p] = @ + IF RailKey(p, way) \in rail.keys THEN 0 ELSE 1]]
\* Settled, settled with the answer lost, or refused, skipped or out of reach.
commitSettlementToRail(p, way) ==
    /\ <<p, way>> \in posting /\ posting' = posting \ {<<p, way>>}
    /\ \/ ~pays[p].umi /\ Delivered(p, way) /\ pays' = Set(p, [pays[p] EXCEPT !.umi = TRUE])
       \/ (way = "settle" \/ ~pays[p].umi) /\ Delivered(p, way) /\ UNCHANGED pays
       \/ UNCHANGED <<pays, rail>>
    /\ UNCHANGED <<market, asking, psp, kept, books, history, bounds>>

SeedProp == [a \in Assets |-> IF a \in Seeded THEN Listed(Originator, SumOf(SeedHoldings[a]), FALSE)
                              ELSE NoProp]
SeedBal == [a \in Assets |-> IF a \in Seeded THEN SeedHoldings[a] ELSE Empty]
SeedTold == [a \in Assets |-> [h \in People |-> Held(SeedBal[a], h)]]
SeedMade == [a \in Assets |-> SumOf(SeedBal[a])]

Restart ==
    /\ restarts < MaxRestarts /\ restarts' = restarts + 1
    /\ prop' = SeedProp /\ bal' = SeedBal /\ told' = SeedTold /\ made' = SeedMade
    /\ loans' = [l \in Loans |-> NoLoan] /\ swaps' = [w \in Swaps |-> NoSwap]
    /\ kept' = [p \in Payments |-> IF pays[p] = NoPay THEN kept[p] ELSE pays[p]]
    /\ pays' = [p \in Payments |-> NoPay] /\ moved' = [p \in Payments |-> 0]
    /\ asking' = {} /\ posting' = {} /\ offbook' = {} /\ reissued' = {}
    /\ UNCHANGED <<psp, rail, vouched, issued, requests>>
-----------------------------------------------------------------------------
Init ==
    /\ prop = SeedProp /\ bal = SeedBal /\ told = SeedTold /\ made = SeedMade
    /\ loans = [l \in Loans |-> NoLoan] /\ swaps = [w \in Swaps |-> NoSwap]
    /\ pays = [p \in Payments |-> NoPay] /\ kept = pays
    /\ asking = {} /\ posting = {} /\ psp = {} /\ offbook = {} /\ reissued = {}
    /\ rail = [keys |-> {}, dvps |-> [p \in Payments |-> 0]]
    /\ moved = [p \in Payments |-> 0] /\ vouched = {} /\ issued = {}
    /\ requests = 0 /\ restarts = 0

Offers(a, b) ==
    [st : {"PROPOSED"}, from : People, to : People, give : {a}, gt : Amounts, get : {b}, rt : Amounts]
Listing(a) ==
    \/ \E o \in People : a \in Drafts /\ Register(a, o)
    \/ \E d \in {"VALIDATED", "REJECTED"} : Validate(a, d)
    \/ \E n \in {Supply} \cup Amounts : Mint(a, n)
    \/ Freeze(a) \/ Unfreeze(a) \/ Delete(a)
Trading(a) ==
    \/ \E h, g \in People, n \in Amounts : Transfer(a, h, g, n)
    \/ \E l \in Loans, h \in People, n \in Amounts : Pledge(l, h, a, n)
    \/ \E w \in Swaps, b \in Assets : \E s \in Offers(a, b) : Propose(w, s)
Paying(p) ==
    \/ \E a \in Assets, h \in People : Collect(p, a, h)
    \/ PayAtProvider(p) \/ Reconcile(p) \/ Settle(p) \/ Get(p) \/ Reattach(p)
    \/ Approve(p) \/ Decline(p) \/ Release(p) \/ Refund(p) \/ WebhookTest(p)
    \/ \E s \in {"success", "failure", "pending", "mismatch"} : PayuCallback(p, s) \/ ProviderAnswers(p, s)
    \/ \E st \in {"CONFIRMED", "DECLINED", "EXPIRED"} : Webhook(p, st)
    \/ \E way \in {"settle", "release", "backfill"} : commitSettlementToRail(p, way)
Next ==
    \/ \E a \in Assets : Listing(a) \/ Trading(a)
    \/ \E l \in Loans : Repay(l)
    \/ \E w \in Swaps : Accept(w) \/ Cancel(w)
    \/ \E p \in Payments : Paying(p)
    \/ Backfill \/ Restart

Spec == Init /\ [][Next]_vars
-----------------------------------------------------------------------------
PropRecords ==
    [st : {"none", "DRAFT", "TOKENIZED", "FROZEN", "WITHDRAWN"}, val : {"PENDING", "VALIDATED", "REJECTED"},
     owner : People, total : Nat, before : {"none", "DRAFT", "TOKENIZED", "WITHDRAWN"}, loose : BOOLEAN]
Holdings == \A a \in Assets : DOMAIN bal[a] \subseteq People /\ \A h \in DOMAIN bal[a] : bal[a][h] \in Nat

\* The type invariant: no holding below zero, however stale the offer, the
\* payment or the pledge that is acted on.
TypeOK ==
    /\ Holdings
    /\ prop \in [Assets -> PropRecords]
    /\ \A l \in Loans : loans[l].st \in {"none", "ACTIVE", "REPAID"} /\ loans[l].n \in Nat
    /\ \A w \in Swaps : swaps[w].st \in {"none", "PROPOSED", "SETTLED", "CANCELLED"}
    /\ pays \in [Payments -> PayRecords] /\ kept \in [Payments -> PayRecords]
    /\ asking \subseteq issued /\ \A q \in posting : q[1] \in issued
    /\ requests \in 0..MaxRequests /\ restarts \in 0..MaxRestarts

\* Transfers, swaps, settlements and buy-outs move tokens and never make any;
\* healing a lost balance, whatever the receipts say, hands out at most what is
\* left of the supply.
HoldingsAddUp ==
    \A a \in Assets : /\ SumOf(bal[a]) = made[a]
                      /\ a \notin reissued => SumOf(bal[a]) <= prop[a].total

\* Replaying the blocks over the seeds gives every holding, but for listings
\* that were healed from a client or bought out (no block says so).
LedgerTellsHoldings ==
    \A a \in Assets \ offbook : \A h \in People : told[a][h] = Held(bal[a], h)

\* Every listing's holdings add up to what was issued of it, and the chain tells them.
HoldingsAreTold == TypeOK /\ HoldingsAddUp /\ LedgerTellsHoldings

\* A transfer or a swap never touches a listing that is frozen or withdrawn,
\* and never leaves its sender with less than is pledged.  (Settling a
\* payment and buying holders out look at neither.)
PledgesAndHaltsHold ==
    [][told' # told /\ moved' = moved /\ restarts' = restarts =>
          \A a \in Assets : \A h \in DOMAIN bal[a] :
              Held(bal'[a], h) < bal[a][h] =>
                  Tradeable(prop[a]) /\ Held(bal'[a], h) >= drunixLockedTokens(a, h)]_vars

\* While the process lives a payment settles at most once, and once its
\* tokens have moved nothing refunds, declines or expires it, whatever
\* callback, reconciliation or webhook answers late.
SettledStaysSettled ==
    \A p \in Payments :
        /\ moved[p] <= 1
        /\ moved[p] = 1 => pays[p].st \in {"RELEASED", "FAILED_AMOUNT_MISMATCH"}

\* Across restarts, backfills and uploads from clients the rail still
\* delivers a purchase once, and never one that nobody vouched for: not the
\* provider, the payer, an operator, nor the body of some request.
Promise == INSTANCE PurchasePromise WITH
    asked <- issued, deliveries <- rail.dvps
ServerKeepsThePromise == Promise!Spec
=============================================================================
