---------------------------- MODULE EdgePayments ----------------------------
(***************************************************************************)
(* Payments in the serverless API (frontend/api/index.js): several warm    *)
(* instances, each with its own memory and its own /tmp file, one request  *)
(* at a time each, and one database they share (db_real.js, postgres).     *)
(*                                                                         *)
(* Every request starts by loading: the database rows, then this           *)
(* instance's file over them, then the database's payment bundle merged    *)
(* payment by payment (initState).  A handler changes memory and, where    *)
(* the code does, writes the file, the rows or the bundle; the bundle is   *)
(* written whole and awaited, so other instances run in between, and so is *)
(* every call to the settlement rail.                                      *)
(*                                                                         *)
(* A request's body is taken at its word in many places: a callback or a   *)
(* webhook names the status, settle, approve and reattach store the copy   *)
(* of an unknown payment that comes with the request, and a transfer       *)
(* stores the receipts it is shown.  Bodies and Said are what they may     *)
(* bring.                                                                  *)
(*                                                                         *)
(* Left out: bank references, wording, audit entries, the 200-payment      *)
(* limit of the bundle.  Times only order the stamps of one payment, and   *)
(* no body is stamped later than the present; whether a collect request    *)
(* has expired, a fraud score or a KYC record refuses it, is an open       *)
(* choice.  One asset, one seller, a buyer for every payment, one token    *)
(* each.  The row writes of a save, which nobody waits for, are taken as   *)
(* done at once (EdgeMarket has the late ones).                            *)
(***************************************************************************)
EXTENDS Naturals, Sequences, FiniteSetsExt

CONSTANTS
    Instances,    \* warm lambdas
    Payments,     \* payment ids to be minted
    Keys,         \* idempotency keys of collect requests
    Seller,
    Supply,       \* tokens the seller starts with
    Openings,     \* what the payer's account may hold at first, in payments
    Said,         \* statuses a callback or a webhook may name
    Bodies,       \* payments a request's body may bring
    MaxRequests,  \* bound: requests
    MaxRecycles   \* bound: instances thrown away

VARIABLES
    mem,      \* the module variables of each instance
    file,     \* /tmp of each instance
    store,    \* the shared database: payment bundle and balance rows
    job,      \* what each instance is doing
    psp,      \* payments paid at the payment provider
    rail,     \* idempotency keys the rail has executed, and what it moved
    moved,    \* tokens settleConfirmedPayment moved for each payment (history)
    vouched,  \* payments whose money somebody vouched for (history)
    issued,   \* payment ids in use
    funds,    \* what the payer's seeded account affords
    requests, recycles

copies == <<mem, file, store>>
history == <<moved, vouched, issued>>
bounds == <<funds, requests, recycles>>
vars == <<copies, job, psp, rail, history, bounds>>
-----------------------------------------------------------------------------
(* Payments and their copies *)
Failed == {"FAILED_KYC_NOT_VERIFIED", "FAILED_FRAUD_BLOCKED", "FAILED_INSUFFICIENT_FUNDS",
           "FAILED_AMOUNT_MISMATCH", "FAILED_PROVIDER"}
Statuses == {"none", "PENDING", "CONFIRMED", "RELEASED", "DECLINED", "EXPIRED", "REFUNDED"} \cup Failed
Late == {"CONFIRMED", "RELEASED"}
Records == [st : Statuses, conf : Nat, rel : Nat, tid : BOOLEAN, umi : BOOLEAN,
            prov : {"payu", "setu", "icici"}]
ASSUME EdgePaymentsConstants ==
    /\ IsFiniteSet(Instances)
    /\ Supply \in Nat /\ Openings \subseteq Nat /\ Seller \notin Payments
    /\ Said \subseteq Statuses \ {"none"} /\ \A r \in Bodies : r \in Records /\ r.st # "none"
    /\ MaxRequests \in Nat /\ MaxRecycles \in Nat

NoPay == [st |-> "none", conf |-> 0, rel |-> 0, tid |-> FALSE, umi |-> FALSE, prov |-> "payu"]
Collected(st) == [NoPay EXCEPT !.st = st]
Confirmed(r, t) == [r EXCEPT !.st = "CONFIRMED", !.conf = t]

\* Object spread: the left argument wins.
Over(new, old) ==
    [x \in DOMAIN new \cup DOMAIN old |-> IF x \in DOMAIN new THEN new[x] ELSE old[x]]
Empty == [x \in {} |-> 0]
Held(bal, h) == IF h \in DOMAIN bal THEN bal[h] ELSE 0

NoBundle == [pay |-> [p \in Payments |-> NoPay], purse |-> Empty]
Cold == [pay |-> NoBundle.pay, purse |-> Empty, idem |-> {}, bal |-> Empty]
NoFile == [npci |-> NoBundle, on |-> FALSE, idem |-> {}, hasIdem |-> FALSE, bal |-> Empty]

Stamp(r) == IF r.conf > 0 THEN r.conf ELSE r.rel
\* (mutant: the merge takes the older copy)
NewerOf_Older(a, b) == IF Stamp(a) <= Stamp(b) THEN a ELSE b
NewerOf(a, b) == IF Stamp(a) >= Stamp(b) THEN a ELSE b
Merged(a, b) == IF b = NoPay THEN a ELSE IF a = NoPay THEN b ELSE NewerOf(a, b)

loadAllPersisted(i) ==
    LET f == file[i]
    IN  [pay |-> IF f.on THEN f.npci.pay ELSE mem[i].pay,
         purse |-> IF f.on THEN f.npci.purse ELSE mem[i].purse,
         idem |-> IF f.on /\ f.hasIdem THEN f.idem ELSE mem[i].idem,
         bal |-> IF f.bal # Empty THEN f.bal ELSE store.bal]
initState(i) ==
    LET m == loadAllPersisted(i)
    IN  [m EXCEPT !.pay = [p \in Payments |-> Merged(m.pay[p], store.npci.pay[p])],
                  !.purse = Over(Over(m.purse, store.npci.purse), [x \in {"payer"} |-> funds])]

Bundle(m) == [pay |-> m.pay, purse |-> m.purse]
persistNpciState(i, m) ==
    /\ store' = [store EXCEPT !.npci = Bundle(m)]
    /\ file' = [file EXCEPT ![i].npci = Bundle(m), ![i].on = TRUE, ![i].hasIdem = FALSE]
saveAllPersisted(i, m) ==
    /\ store' = [store EXCEPT !.bal = Over(m.bal, @)]
    /\ file' = [file EXCEPT ![i] = [npci |-> Bundle(m), on |-> TRUE, idem |-> m.idem,
                                    hasIdem |-> TRUE, bal |-> m.bal]]
-----------------------------------------------------------------------------
(* A request: load, handle, then the awaited steps that are left *)
Idle == [at |-> "idle", ps |-> {}, todo |-> <<>>]
Loaded(i) == job[i].at = "loaded"
Begin(i) ==
    /\ job[i].at = "idle" /\ requests < MaxRequests /\ requests' = requests + 1
    /\ mem' = [mem EXCEPT ![i] = initState(i)]
    /\ job' = [job EXCEPT ![i] = [Idle EXCEPT !.at = "loaded"]]
    /\ UNCHANGED <<file, store, psp, rail, history, funds, recycles>>

\* Reads, refusals and everything that changes nothing.
Answer(i) ==
    /\ Loaded(i) /\ job' = [job EXCEPT ![i] = Idle]
    /\ UNCHANGED <<copies, psp, rail, history, bounds>>

Then(i, ps, todo) ==
    job' = [job EXCEPT ![i] = IF todo = <<>> THEN Idle
                              ELSE [at |-> "run", ps |-> ps, todo |-> todo]]
Unsaved == UNCHANGED <<file, store>>
Handle(i, p, r, todo) ==
    /\ mem' = [mem EXCEPT ![i].pay[p] = r] /\ Unsaved
    /\ Then(i, {p}, todo) /\ UNCHANGED <<psp, rail, moved, bounds>>
HandleSaved(i, p, m, todo) ==
    /\ mem' = [mem EXCEPT ![i] = m] /\ saveAllPersisted(i, m)
    /\ Then(i, {p}, todo) /\ UNCHANGED <<psp, rail, moved, bounds>>

Vouched(ps) == vouched' = vouched \cup ps /\ UNCHANGED issued
Same == UNCHANGED <<vouched, issued>>
\* A status is written as it comes: it may be the word that the money is there.
Word(p, st) == Vouched(IF st \in Late THEN {p} ELSE {})
Pay(i, p) == mem[i].pay[p]
\* A time later than every stamp of the payment that is left.
Now(p) ==
    LET left == {store.npci.pay[p]} \cup {mem[i].pay[p] : i \in Instances}
                  \cup {file[i].npci.pay[p] : i \in Instances}
    IN  1 + Max({r.conf : r \in left} \cup {r.rel : r \in left})
Known(i, p) == Pay(i, p) # NoPay
With(i, p, r, key) == [mem[i] EXCEPT !.pay[p] = r, !.idem = @ \cup key]

\* What the body of a request may hold of a payment: an answer of another
\* instance, or anything else with the payment's id.
BodyCopies(p) ==
    ({mem[j].pay[p] : j \in Instances} \ {NoPay}) \cup {r \in Bodies : r.conf <= Now(p) /\ r.rel <= Now(p)}
\* The payment a handler works on: its own, or failing that the body's,
\* which is a payment from now on, of the status it says.
Healed(i, p) == IF Known(i, p) THEN {Pay(i, p)} ELSE BodyCopies(p)
Takes(p, r) ==
    /\ issued' = issued \cup {p}
    /\ vouched' = vouched \cup IF r.st \in Late THEN {p} ELSE {}
-----------------------------------------------------------------------------
(* Creating a payment *)
Collect(i, k, p) ==
    /\ Loaded(i) /\ p \notin issued /\ issued' = issued \cup {p} /\ UNCHANGED vouched
    /\ <<k>> \notin mem[i].idem /\ Held(mem[i].bal, Seller) >= 1
    /\ Unsaved /\ UNCHANGED <<psp, rail, moved, bounds>>
    /\ \/ /\ mem' = [mem EXCEPT ![i] = With(i, p, Collected("PENDING"), {<<k>>})]
          /\ Then(i, {p}, <<"persist">>)
       \/ /\ mem' = [mem EXCEPT ![i] = With(i, p, Collected("FAILED_KYC_NOT_VERIFIED"), {<<k>>})]
          /\ Then(i, {p}, <<>>)
       \/ /\ mem' = [mem EXCEPT ![i] = With(i, p, Collected("FAILED_FRAUD_BLOCKED"), {})]
          /\ Then(i, {p}, <<"persist">>)

\* The payer pays at the provider's page: nobody here learns of it yet.
PayAtProvider(p) ==
    /\ p \in issued \ psp /\ psp' = psp \cup {p} /\ Vouched({p})
    /\ UNCHANGED <<copies, job, rail, moved, bounds>>

\* A provider reports success, or an amount, only of what was paid.
Reports(p) == IF p \in psp THEN {"success", "mismatch"} ELSE {"failure", "pending"}
AfterReport(p, r, s) ==
    CASE s = "success" /\ r.st = "PENDING" -> Confirmed(r, Now(p))
      [] s = "failure" /\ r.st = "PENDING" -> [r EXCEPT !.st = "DECLINED"]
      [] OTHER -> r

PayuCallback(i, p, s) ==
    LET r == [AfterReport(p, Pay(i, p), s) EXCEPT !.prov = "payu"]
    IN  /\ Loaded(i) /\ Known(i, p) /\ s \in Reports(p) /\ <<"payu", p, s>> \notin mem[i].idem
        /\ Same
        /\ IF s = "mismatch"
           THEN Handle(i, p, [r EXCEPT !.st = "FAILED_AMOUNT_MISMATCH"], <<"persist">>)
           ELSE HandleSaved(i, p, With(i, p, r, {<<"payu", p, s>>}),
                    IF r.st = "CONFIRMED" THEN <<"persist", "settle">> ELSE <<"persist">>)

\* POST payu/reconcile: the provider is asked, an open payment follows its
\* answer, and a confirmed one is settled.
Reconcile(i, p, s) ==
    LET open == Pay(i, p).st = "PENDING"
        r == IF open /\ s = "mismatch" THEN [Pay(i, p) EXCEPT !.st = "FAILED_AMOUNT_MISMATCH"]
             ELSE AfterReport(p, Pay(i, p), s)
        todo == IF r.st = "CONFIRMED" THEN <<"settle">> ELSE <<>>
    IN  /\ Loaded(i) /\ Known(i, p) /\ Pay(i, p).prov = "payu" /\ s \in Reports(p)
        /\ r # Pay(i, p) \/ r.st = "CONFIRMED"
        /\ Same
        /\ IF r # Pay(i, p) THEN HandleSaved(i, p, With(i, p, r, {}), todo)
           ELSE Handle(i, p, r, todo)

SettleRoute(i, p) ==
    /\ Loaded(i)
    /\ \E r \in Healed(i, p) :
          /\ Known(i, p) \/ r.st \in Late
          /\ Takes(p, r) /\ Handle(i, p, r, <<"settle">>)

Get(i, p) ==
    /\ Loaded(i) /\ Pay(i, p).st = "PENDING" /\ Same
    /\ Handle(i, p, [Pay(i, p) EXCEPT !.st = "EXPIRED"], <<>>)

Reattach(i, p) ==
    /\ Loaded(i) /\ ~Known(i, p)
    /\ \E r \in BodyCopies(p) : Takes(p, r) /\ Handle(i, p, r, <<"persist">>)

\* POST transfers: a payment on a receipt that is not known here is written down
\* as confirmed or released, whether or not the transfer is then made and saved.
TransferReceipt(i, p, st) ==
    LET r == [Collected(st) EXCEPT !.prov = "setu"]
    IN  /\ Loaded(i) /\ ~Known(i, p) /\ st \in Late /\ Takes(p, r)
        /\ Handle(i, p, r, <<>>) \/ HandleSaved(i, p, With(i, p, r, {}), <<>>)
-----------------------------------------------------------------------------
(* The payer's answer in the UPI app *)
Affords(m) == m.purse["payer"] >= 1
\* A body's copy is kept even if there is nothing to approve in it.
ApproveFails(i, p) ==
    /\ Loaded(i)
    /\ \E r \in Healed(i, p) :
        /\ Takes(p, r)
        /\ \/ ~Known(i, p) /\ r.st # "PENDING" /\ Handle(i, p, r, <<>>)
           \/ /\ r.st = "PENDING"
              /\ \/ \E why \in {"EXPIRED", "FAILED_KYC_NOT_VERIFIED"} :
                       Handle(i, p, [r EXCEPT !.st = why], <<>>)
                 \/ Handle(i, p, [r EXCEPT !.st = "FAILED_FRAUD_BLOCKED"], <<"persist">>)
                 \/ /\ ~Affords(mem[i])
                    /\ Handle(i, p, [r EXCEPT !.st = "FAILED_INSUFFICIENT_FUNDS"], <<>>)
Approve(i, p) ==
    /\ Loaded(i)
    /\ \E r \in Healed(i, p) :
        /\ r.st = "PENDING" /\ Affords(mem[i]) /\ Takes(p, Confirmed(r, Now(p)))
        /\ HandleSaved(i, p, [With(i, p, Confirmed(r, Now(p)), {}) EXCEPT !.purse["payer"] = @ - 1],
                       <<"persist">>)

Decline(i, p) ==
    /\ Loaded(i) /\ Pay(i, p).st = "PENDING" /\ Same
    /\ Handle(i, p, [Pay(i, p) EXCEPT !.st = "DECLINED"], <<>>)
Timeout(i, p) ==
    /\ Loaded(i) /\ Known(i, p) /\ Same
    /\ Handle(i, p, [Pay(i, p) EXCEPT !.st = "EXPIRED"], <<>>)
-----------------------------------------------------------------------------
(* Settling, releasing, refunding *)
\* (mutant: an open payment settles too)
Settles_Open(r) == r.st \in {"CONFIRMED", "PENDING"}
Settles(r) == r.st = "CONFIRMED"

\* (mutant: the seller's balance is not checked)
SellerHolds_Any(bal) == TRUE
SellerHolds(bal) == Held(bal, Seller) >= 1
Working(i, step) == job[i].at = "run" /\ Head(job[i].todo) = step
Rest(i) == Tail(job[i].todo)
\* settleConfirmedPayment up to its first await.
settleConfirmedPayment(i) ==
    /\ Working(i, "settle")
    /\ \E p \in job[i].ps :
          LET r == Pay(i, p)
              bal == mem[i].bal
          IN  IF Settles(r) /\ SellerHolds(bal)
              THEN /\ mem' = [mem EXCEPT
                        ![i].pay[p] = [r EXCEPT !.st = "RELEASED", !.tid = TRUE, !.rel = Now(p)],
                        ![i].bal = Over([h \in {Seller, p} |-> IF h = p THEN Held(bal, p) + 1
                                                               ELSE bal[Seller] - 1], bal)]
                   /\ moved' = [moved EXCEPT ![p] = @ + 1]
                   /\ Then(i, {p}, <<"persist", "saveAll", "rail", "persist">>)
              ELSE /\ Then(i, {}, <<>>) /\ UNCHANGED <<mem, moved>>
    /\ UNCHANGED <<file, store, psp, rail, vouched, issued, bounds>>

Release(i, p) ==
    LET r == Pay(i, p)
    IN  /\ Loaded(i) /\ r.st = "CONFIRMED"
        /\ mem' = [mem EXCEPT
              ![i].pay[p] = [r EXCEPT !.st = "RELEASED", !.tid = TRUE, !.rel = Now(p)],
              ![i].purse = Over([x \in {"payee"} |-> Held(mem[i].purse, "payee") + 1], @)]
        /\ Then(i, IF r.umi THEN {} ELSE {p}, <<"rail", "persist">>)
        /\ Same /\ Unsaved /\ UNCHANGED <<psp, rail, moved, bounds>>

Refundable == {"PENDING", "CONFIRMED", "FAILED_INSUFFICIENT_FUNDS", "FAILED_KYC_NOT_VERIFIED",
               "EXPIRED", "DECLINED"}
Refund(i, p) ==
    LET r == Pay(i, p)
    IN  /\ Loaded(i) /\ r.st \in Refundable
        /\ mem' = [mem EXCEPT
              ![i].pay[p] = [r EXCEPT !.st = "REFUNDED"],
              ![i].purse["payer"] = IF r.st = "CONFIRMED" THEN @ + 1 ELSE @]
        /\ Then(i, {p}, <<"persist">>)
        /\ Same /\ Unsaved /\ UNCHANGED <<psp, rail, moved, bounds>>
-----------------------------------------------------------------------------
(* Callbacks and webhooks *)
\* POST callback: whoever calls names the status.
Callback(i, p, st) ==
    /\ Loaded(i) /\ Known(i, p) /\ Word(p, st)
    /\ HandleSaved(i, p, With(i, p, [Pay(i, p) EXCEPT !.st = st], {}), <<>>)

allowedTransitions(from) ==
    CASE from = "PENDING" -> {"CONFIRMED", "FAILED_PROVIDER", "DECLINED", "EXPIRED", "FAILED_AMOUNT_MISMATCH"}
      [] from = "CONFIRMED" -> {"RELEASED", "REFUNDED"}
      [] from \in {"FAILED_PROVIDER", "DECLINED", "EXPIRED"} -> {"REFUNDED"}
      [] OTHER -> Statuses
\* Signed by a bank, or posted unsigned by payer, payee, a supervisor or an originator.
\* Only a word for word repetition is known again; another bank reference makes it new.
Webhook(i, p, st) ==
    LET r == Pay(i, p)
    IN  /\ Loaded(i) /\ Known(i, p) /\ Word(p, st)
        /\ st = r.st \/ st \in allowedTransitions(r.st)
        /\ HandleSaved(i, p, With(i, p, [r EXCEPT !.st = st, !.prov = "setu",
                                         !.conf = IF @ = 0 /\ st = "CONFIRMED" THEN Now(p) ELSE @], {}),
                       <<"persist">>)
\* It names another amount than the payment's.
WebhookMismatch(i, p) ==
    /\ Loaded(i) /\ Known(i, p) /\ Same
    /\ HandleSaved(i, p, With(i, p, [Pay(i, p) EXCEPT !.st = "FAILED_AMOUNT_MISMATCH", !.prov = "setu"], {}), <<>>)

\* A webhook is played for a test: no transition table.
WebhookTest(i, p, st) ==
    LET r == [Pay(i, p) EXCEPT !.prov = IF st = "FAILED_PROVIDER" THEN "icici" ELSE "setu"]
    IN  /\ Loaded(i) /\ Known(i, p)
        /\ Vouched(IF st = "CONFIRMED" THEN {p} ELSE {})
        /\ HandleSaved(i, p, With(i, p, IF st = "CONFIRMED" THEN Confirmed(r, Now(p))
                                        ELSE [r EXCEPT !.st = st], {}), <<>>)
-----------------------------------------------------------------------------
(* The rail, the writes, and instances thrown away *)
\* Both posts carry the payment id, whatever the transfer is called.
\* (mutant: every settlement is an operation of its own)
RailKey_Attempt(p) == <<p, moved[p]>>
RailKey(p) == p
New(key, p) == IF <<key, RailKey(p)>> \in rail.keys THEN 0 ELSE 1

Posted(keys, ps) ==
    rail' = [keys |-> rail.keys \cup {<<k, RailKey(p)>> : k \in keys, p \in ps},
             funds |-> [p \in Payments |-> rail.funds[p]
                          + IF p \in ps /\ "fund" \in keys THEN New("fund", p) ELSE 0],
             dvps |-> [p \in Payments |-> rail.dvps[p]
                          + IF p \in ps /\ "dvp" \in keys THEN New("dvp", p) ELSE 0]]
\* Settled, refused, settled with the answer lost, or out of reach.
commitSettlementToRail(i) ==
    /\ Working(i, "rail") /\ Then(i, job[i].ps, Rest(i))
    /\ \/ /\ Posted({"fund", "dvp"}, job[i].ps)
          /\ mem' = [mem EXCEPT ![i].pay = [p \in Payments |->
                        IF p \in job[i].ps THEN [@[p] EXCEPT !.umi = TRUE] ELSE @[p]]]
       \/ /\ \E keys \in {{"fund"}, {"fund", "dvp"}, {}} : Posted(keys, job[i].ps)
          /\ UNCHANGED mem
    /\ UNCHANGED <<file, store, psp, history, bounds>>

Backfill(i) ==
    LET ps == {p \in Payments : Pay(i, p).st = "RELEASED" /\ ~Pay(i, p).umi}
    IN  /\ Loaded(i) /\ ps # {}
        /\ Then(i, ps, <<"rail", "persist", "saveAll">>)
        /\ UNCHANGED <<copies, psp, rail, history, bounds>>

Persist(i) ==
    /\ Working(i, "persist") /\ Then(i, job[i].ps, Rest(i)) /\ persistNpciState(i, mem[i])
    /\ UNCHANGED <<mem, psp, rail, history, bounds>>
SaveAll(i) ==
    /\ Working(i, "saveAll") /\ Then(i, job[i].ps, Rest(i)) /\ saveAllPersisted(i, mem[i])
    /\ UNCHANGED <<mem, psp, rail, history, bounds>>

Recycle(i) ==
    /\ recycles < MaxRecycles /\ recycles' = recycles + 1
    /\ mem' = [mem EXCEPT ![i] = Cold] /\ file' = [file EXCEPT ![i] = NoFile]
    /\ job' = [job EXCEPT ![i] = Idle]
    /\ UNCHANGED <<store, psp, rail, history, funds, requests>>
-----------------------------------------------------------------------------
Init ==
    /\ mem = [i \in Instances |-> Cold] /\ file = [i \in Instances |-> NoFile]
    /\ store = [npci |-> NoBundle, bal |-> [h \in {Seller} |-> Supply]]
    /\ job = [i \in Instances |-> Idle] /\ psp = {}
    /\ rail = [keys |-> {}, funds |-> [p \in Payments |-> 0], dvps |-> [p \in Payments |-> 0]]
    /\ moved = [p \in Payments |-> 0] /\ vouched = {} /\ issued = {}
    /\ funds \in Openings /\ requests = 0 /\ recycles = 0

Buyer(i, p) ==
    \/ \E k \in Keys : Collect(i, k, p)
    \/ SettleRoute(i, p) \/ Get(i, p) \/ Reattach(i, p)
    \/ \E st \in Late : TransferReceipt(i, p, st)
    \/ ApproveFails(i, p) \/ Approve(i, p) \/ Decline(i, p)
    \/ Release(i, p) \/ Refund(i, p)
Provider(i, p) ==
    \/ \E s \in {"success", "failure", "pending", "mismatch"} : PayuCallback(i, p, s) \/ Reconcile(i, p, s)
    \/ Timeout(i, p) \/ WebhookMismatch(i, p)
    \/ \E st \in Said : Callback(i, p, st) \/ Webhook(i, p, st)
    \/ \E st \in {"CONFIRMED", "FAILED_PROVIDER", "FAILED_AMOUNT_MISMATCH"} : WebhookTest(i, p, st)
Runs(i) ==
    \/ settleConfirmedPayment(i) \/ commitSettlementToRail(i) \/ Persist(i) \/ SaveAll(i)
Next ==
    \/ \E p \in Payments : PayAtProvider(p)
    \/ \E i \in Instances :
          \/ Begin(i) \/ Answer(i) \/ Runs(i) \/ Backfill(i) \/ Recycle(i)
          \/ \E p \in Payments : Buyer(i, p) \/ Provider(i, p)

Spec == Init /\ [][Next]_vars
-----------------------------------------------------------------------------
Holders == Payments \cup {Seller}
Steps == {"persist", "saveAll", "settle", "rail"}
Counts(f) == DOMAIN f \subseteq Holders \cup {"payer", "payee"} /\ \A x \in DOMAIN f : f[x] \in Nat

\* The type invariant: no account and no holding below zero, in any copy.
TypeOK ==
    /\ \A i \in Instances :
          /\ mem[i].pay \in [Payments -> Records] /\ file[i].npci.pay \in [Payments -> Records]
          /\ Counts(mem[i].purse) /\ Counts(mem[i].bal)
          /\ Counts(file[i].npci.purse) /\ Counts(file[i].bal)
          /\ job[i].at \in {"idle", "loaded", "run"} /\ job[i].ps \subseteq Payments
          /\ \A n \in 1..Len(job[i].todo) : job[i].todo[n] \in Steps
    /\ store.npci.pay \in [Payments -> Records] /\ Counts(store.npci.purse) /\ Counts(store.bal)
    /\ psp \subseteq Payments /\ vouched \subseteq Payments /\ issued \subseteq Payments
    /\ moved \in [Payments -> Nat] /\ rail.funds \in [Payments -> Nat] /\ rail.dvps \in [Payments -> Nat]
    /\ requests \in 0..MaxRequests /\ recycles \in 0..MaxRecycles

\* No copy of a payment, in the database or in any instance however stale,
\* says confirmed or released, and no token has moved for it, unless the mock
\* bank debited it, the provider was paid, a webhook was played for it, or the
\* body of some request said so.  Merging, reloading, reconciling, refunding
\* and settling never make a confirmation nobody spoke.
TokensFollowWord ==
    \A p \in Payments \ vouched :
        /\ moved[p] = 0
        /\ store.npci.pay[p].st \notin Late
        /\ \A i \in Instances : mem[i].pay[p].st \notin Late /\ file[i].npci.pay[p].st \notin Late

\* No account and no holding goes below zero in any copy, and no copy of a payment is
\* confirmed, nor a token moved, unless somebody vouched for it.  (EdgePayments)
PaymentsAreSound == TypeOK /\ TokensFollowWord

\* While an instance lives, neither its memory nor its file goes behind a copy of a
\* payment it once wrote down: loading its own file over the rows and merging the
\* bundle of an instance that had not heard of a confirmation does not undo the
\* confirmation here.  Of one it only read the bundle of, or was brought by a
\* client, this is not so: another instance's older bundle replaces it whole.
NeverForgets ==
    [][\A i \in Instances, p \in Payments :
          recycles' = recycles =>
              /\ Stamp(mem'[i].pay[p]) >= Stamp(file[i].npci.pay[p])
              /\ Stamp(file'[i].npci.pay[p]) >= Stamp(file[i].npci.pay[p])]_vars

\* However often, from however many instances and with whatever answers lost
\* a purchase is settled, the rail delivers it once, and never one that nobody
\* vouched for.
Promise == INSTANCE PurchasePromise WITH
    asked <- issued, deliveries <- rail.dvps
RailKeepsThePromise == Promise!Spec

\* settleConfirmedPayment "is idempotent, so the browser path re-running it
\* later is harmless": tokens move at most once for a payment.
SettledOnce == \A p \in Payments : moved[p] <= 1
=============================================================================
