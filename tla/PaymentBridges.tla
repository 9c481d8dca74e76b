--------------------------- MODULE PaymentBridges ---------------------------
(***************************************************************************)
(* Two ways of paying that end outside the rail, alike in                  *)
(* frontend/api/index.js and mock-api-server.js.                           *)
(*                                                                         *)
(* The bridge to PayU: the signed form a payer's browser carries there,    *)
(* the signed result it carries back (four shapes, any order, repeated,    *)
(* cut short, altered on the way), and verify_payment, which asks PayU     *)
(* directly.  A hash is the sequence of fields it is made from: no field   *)
(* contains the separator, and SHA-512 is taken to be injective.  What     *)
(* becomes of a CONFIRMED payment is in EdgePayments and MockServer; here  *)
(* settling is one step, and the server's other payment routes, which take *)
(* a payment at PayU like any other, set its status.  Sums are in thousandths of a rupee.              *)
(*                                                                         *)
(* The testnet escrows: a record per payment id in one process's memory,   *)
(* opened by anyone signed in, confirmed and released by its parties and   *)
(* the supervisors.  Opening one under an id in use replaces it; no status *)
(* has to come before another.                                             *)
(***************************************************************************)
EXTENDS Integers, Sequences, SequencesExt

CONSTANTS
    Amounts,    \* amountINR as requested
    Ids,        \* what PayU calls its attempts (mihpayid)
    None,
    People,     \* those who are signed in
    SUPERVISORY,\* of them, the supervisors
    PaymentIds  \* the escrows

VARIABLES
    server,     \* "api" or "mock"
    pay,        \* the payment: status ("none" once forgotten), amountINR, provider
    checkout,   \* the form, or NoForm
    payu,       \* PayU's book: outcome, amount, shape of its hashes
    post,       \* results PayU has sent, which the browser may deliver
    idem,       \* webhookIds handled
    asking,     \* what verify_payment found while its answer is on the way
    page,       \* the page shown at the end of the last delivery, and whose word it is
    refused,    \* a result was turned away with 403 though nothing was wrong with it (history)
    by,         \* who gave the payment its status: PayU, this side, or nobody yet (history)
    testnetPayments, \* id -> record, or None
    opened,     \* ids in the order they were first opened
    shown,      \* the last answer about an escrow
    acted       \* who moved a record since it was opened (history)

bridgeVars == <<server, pay, checkout, payu, post, idem, asking, page, refused, by>>
escrowVars == <<testnetPayments, opened, shown, acted>>

NoForm == [hash |-> <<>>]
NoPage == [says |-> "nothing", by |-> "nobody"]
Statuses == {"PENDING", "CONFIRMED", "RELEASED", "DECLINED", "EXPIRED", "FAILED", "REFUNDED", "FAILED_AMOUNT_MISMATCH"}
Nothing == "nothing"
Shapes == [additional_charges : {"", "12.50"}, splitInfo : {"", "split"}]
Udf == <<"asset", "tokens", "upiTxnId", "payeeVpa", "idemKey">>
Salt == "SALT"

BridgeInit ==
    /\ server \in {"api", "mock"} /\ pay \in [status : {"PENDING"}, amountINR : Amounts, provider : {"payu"}]
    /\ checkout = NoForm /\ payu = [outcome |-> "none", amount |-> 0, shape |-> [additional_charges |-> "", splitInfo |-> ""]]
    /\ post = {} /\ idem = {} /\ asking = Nothing /\ page = NoPage /\ refused = FALSE /\ by = "nobody"
-----------------------------------------------------------------------------
(* Hashes *)
payuRequestHash(f) ==
    <<"key", "txnid", f.amount, "productinfo", "firstname", "email">> \o Udf \o [n \in 1..5 |-> ""] \o <<Salt>>

payuResponseHash(salt, status, amount, additionalCharges, splitInfo) ==
    (IF additionalCharges = "" THEN <<>> ELSE <<additionalCharges>>) \o <<salt, status>>
    \o (IF splitInfo = "" THEN <<>> ELSE <<splitInfo>>)
    \o [n \in 1..5 |-> ""] \o Reverse(Udf) \o <<"email", "firstname", "productinfo", amount, "txnid", "key">>

variants_GenericOnly(m) == {<<"", "">>} \* (mutant: the one shape we expect)
variants(m) == {<<a, s>> : a \in {"", m.additional_charges}, s \in {"", m.splitInfo}}
verifyPayUResponse(m) == \E v \in variants(m) : m.hash = payuResponseHash(Salt, m.status, m.amount, v[1], v[2])

\* Rupees with two decimals: what is left of a thousandth is rounded away.
toFixed2(x) == ((x + 5) \div 10) * 10
-----------------------------------------------------------------------------
(* PayU, by the formulas its documentation gives. *)
Documented(f) == <<"key", "txnid", f.amount, "productinfo", "firstname", "email", Udf[1], Udf[2], Udf[3], Udf[4], Udf[5],
                   "", "", "", "", "", "SALT">>
Signed(status) ==
    LET tail == <<"", "", "", "", "", "idemKey", "payeeVpa", "upiTxnId", "tokens", "asset",
                  "email", "firstname", "productinfo", payu.amount, "txnid", "key">>
        mid == IF payu.shape.splitInfo = "" THEN <<"SALT", status>> ELSE <<"SALT", status, payu.shape.splitInfo>>
    IN  (IF payu.shape.additional_charges = "" THEN mid ELSE <<payu.shape.additional_charges>> \o mid) \o tail
Result(status, id) ==
    [status |-> status, id |-> id, amount |-> payu.amount, additional_charges |-> payu.shape.additional_charges,
     splitInfo |-> payu.shape.splitInfo, hash |-> Signed(status), whole |-> TRUE]

PayUTakesForm(shape) ==
    /\ checkout # NoForm /\ payu.outcome = "none" /\ checkout.hash = Documented(checkout)
    /\ payu' = [outcome |-> "pending", amount |-> checkout.amount, shape |-> shape]
    /\ UNCHANGED <<server, pay, checkout, post, idem, asking, page, refused, by>>
PayUDecides(outcome) ==
    /\ payu.outcome = "pending" /\ payu' = [payu EXCEPT !.outcome = outcome]
    /\ UNCHANGED <<server, pay, checkout, post, idem, asking, page, refused, by>>
PayUSends(id) ==
    /\ payu.outcome # "none" /\ post' = post \cup {Result(payu.outcome, id)}
    /\ UNCHANGED <<server, pay, checkout, payu, idem, asking, page, refused, by>>
-----------------------------------------------------------------------------
buildPayUCheckout ==
    /\ checkout = NoForm
    /\ LET amount == toFixed2(pay.amountINR) IN
       checkout' = [amount |-> amount, of |-> pay.amountINR, hash |-> payuRequestHash([amount |-> amount])]
    /\ UNCHANGED <<server, pay, payu, post, idem, asking, page, refused, by>>

Within(a, b) == a - b <= 10 /\ b - a <= 10
\* What a report of PayU's makes of a payment.
After(status, amount) ==
    CASE ~Within(amount, pay.amountINR) -> [pay EXCEPT !.status = "FAILED_AMOUNT_MISMATCH"]
      [] Within(amount, pay.amountINR) /\ status = "success" /\ pay.status = "PENDING" -> [pay EXCEPT !.status = "CONFIRMED"]
      [] Within(amount, pay.amountINR) /\ status = "failure" /\ pay.status = "PENDING" -> [pay EXCEPT !.status = "DECLINED"]
      [] OTHER -> pay

\* Of a confirmed payment the page is shown once settling has been tried.
payuCallbackHtml(p) ==
    CASE p.status \in {"CONFIRMED", "RELEASED"} -> "Payment confirmed"
      [] p.status = "DECLINED" -> "No money was taken"
      [] p.status = "none" -> "Payment not found"
      [] OTHER -> "Payment pending"
Heard(status, amount) == by' = IF After(status, amount).status # pay.status THEN "payu" ELSE by

\* GET or POST /api/npci/payu/callback
PayUCallback(m) ==
    LET id == <<m.status, m.id>> IN
    /\ IF ~verifyPayUResponse(m)
       THEN refused' = (refused \/ m.whole) /\ page' = [says |-> "rejected", by |-> "payu"] /\ UNCHANGED <<pay, idem, by>>
       ELSE /\ UNCHANGED refused
            /\ IF pay.status = "none" \/ id \in idem THEN UNCHANGED <<pay, idem, by>>
               ELSE /\ pay' = [After(m.status, m.amount) EXCEPT !.provider = "payu"] /\ Heard(m.status, m.amount)
                    /\ idem' = IF Within(m.amount, pay.amountINR) THEN idem \cup {id} ELSE idem
            /\ page' = [says |-> payuCallbackHtml(pay'), by |-> by']
    /\ UNCHANGED <<server, checkout, payu, post, asking>>

\* The browser's copy with another status in it; the API reads a body for
\* three seconds and takes what has come by then, without the hash at the end.
Altered(m) == [m EXCEPT !.status = IF @ = "success" THEN "failure" ELSE "success", !.whole = FALSE]
CutShort(m) == [m EXCEPT !.hash = <<>>, !.whole = FALSE]
Delivered(m) == {m, Altered(m)} \cup IF server = "api" THEN {CutShort(m)} ELSE {}

\* reconcilePayuPayment: PayU is asked, and the answer meets the payment as it is then.
Ask ==
    /\ checkout # NoForm /\ asking = Nothing /\ payu.outcome # "none" /\ asking' = payu.outcome
    /\ pay.status # "none" /\ pay.provider = "payu"
    /\ UNCHANGED <<server, pay, checkout, payu, post, idem, page, refused, by>>
Answer ==
    /\ asking # Nothing /\ asking' = Nothing
    /\ IF pay.status = "PENDING" THEN pay' = After(asking, payu.amount) /\ Heard(asking, payu.amount) ELSE UNCHANGED <<pay, by>>
    /\ UNCHANGED <<server, checkout, payu, post, idem, page, refused>>
Unreachable == asking # Nothing /\ asking' = Nothing /\ UNCHANGED <<server, pay, checkout, payu, post, idem, page, refused, by>>
-----------------------------------------------------------------------------
(* What the rest of the server does to the payment meanwhile: none of it asks who holds the money. *)
DecidedHere(p) == pay' = p /\ by' = "here" /\ UNCHANGED <<server, checkout, payu, post, page, refused>>
Becomes(status) == DecidedHere([pay EXCEPT !.status = status]) /\ UNCHANGED <<idem, asking>>

\* FAILED stands for what the checks of approve may find wrong.
Approve(status) == pay.status = "PENDING" /\ status \in {"CONFIRMED", "FAILED", "EXPIRED"} /\ Becomes(status)
Decline == pay.status = "PENDING" /\ Becomes("DECLINED")
Refund == pay.status \in {"PENDING", "CONFIRMED", "FAILED", "EXPIRED", "DECLINED"} /\ Becomes("REFUNDED")
\* Of the API only: a timeout, and a callback with any status.
Timeout == server = "api" /\ pay.status # "none" /\ Becomes("EXPIRED")
Callback(status) == server = "api" /\ pay.status # "none" /\ Becomes(status)

\* The webhook, which the payer too may post; the API's goes by a table of
\* transitions, where what is not in the table is let through.
MayBecome(from) ==
    CASE server = "mock" -> IF from = "PENDING" THEN {"CONFIRMED", "DECLINED", "EXPIRED"} ELSE {}
      [] from = "PENDING" -> {"CONFIRMED", "FAILED", "DECLINED", "EXPIRED", "FAILED_AMOUNT_MISMATCH"}
      [] from = "CONFIRMED" -> {"RELEASED", "REFUNDED", "FAILED_AMOUNT_MISMATCH"}
      [] from \in {"FAILED", "DECLINED", "EXPIRED"} -> {"REFUNDED", "FAILED_AMOUNT_MISMATCH"}
      [] OTHER -> Statuses
Webhook(status) ==
    /\ pay.status # "none" /\ status \in MayBecome(pay.status)
    /\ DecidedHere([pay EXCEPT !.status = status, !.provider = IF server = "api" THEN "setu" ELSE @])
    /\ UNCHANGED <<idem, asking>>

\* A process that starts again holds no payment, and takes the copy a request
\* brings (reattach, approve and settle) as it is.
Restart ==
    /\ pay.status # "none" /\ checkout # NoForm /\ asking' = Nothing /\ idem' \in {idem, {}}
    /\ DecidedHere([pay EXCEPT !.status = "none"])
Reattach(status, amount) ==
    /\ pay.status = "none" /\ UNCHANGED <<idem, asking>>
    /\ DecidedHere([status |-> status, amountINR |-> amount, provider |-> "payu"])
Settle ==
    /\ pay.status = "CONFIRMED" /\ pay' = [pay EXCEPT !.status = "RELEASED"]
    /\ UNCHANGED <<server, checkout, payu, post, idem, asking, page, refused, by>>

BridgeNext ==
    \/ buildPayUCheckout \/ Ask \/ Answer \/ Unreachable \/ Settle
    \/ Decline \/ Refund \/ Timeout \/ Restart
    \/ \E s \in Statuses : Approve(s) \/ Callback(s) \/ Webhook(s) \/ \E a \in Amounts : Reattach(s, a)
    \/ \E shape \in Shapes : PayUTakesForm(shape)
    \/ \E o \in {"success", "failure"} : PayUDecides(o)
    \/ \E id \in Ids : PayUSends(id)
    \/ \E m \in post : \E d \in Delivered(m) : PayUCallback(d)
-----------------------------------------------------------------------------
(* Escrows *)
Quiet == [to |-> None, status |-> None, ids |-> {}]
EscrowInit ==
    /\ testnetPayments = [i \in PaymentIds |-> None] /\ opened = <<>> /\ shown = Quiet
    /\ acted = [i \in PaymentIds |-> {}]

Shows(p, status, ids) == shown' = [to |-> p, status |-> status, ids |-> ids]
Initiate(p, i, from, to) ==
    /\ testnetPayments' = [testnetPayments EXCEPT ![i] = [initiatedBy |-> p, from |-> from, to |-> to, status |-> "PENDING"]]
    /\ opened' = IF testnetPayments[i] = None THEN Append(opened, i) ELSE opened
    /\ acted' = [acted EXCEPT ![i] = {}] /\ Shows(p, "PENDING", {i})

testnetDenied_Anyone(p, i) == FALSE \* (mutant: the id is enough)
testnetDenied(p, i) ==
    LET rec == testnetPayments[i] IN p \notin {rec.initiatedBy, rec.from, rec.to} \cup SUPERVISORY
Move(p, i, status) ==
    /\ UNCHANGED opened
    /\ IF testnetPayments[i] = None \/ testnetDenied(p, i)
       THEN Shows(p, None, {}) /\ UNCHANGED <<testnetPayments, acted>>
       ELSE /\ testnetPayments' = [testnetPayments EXCEPT ![i].status = status]
            /\ acted' = [acted EXCEPT ![i] = @ \cup {p}] /\ Shows(p, status, {i})
Confirm(p, i) == Move(p, i, "CONFIRMED")
Release(p, i) == Move(p, i, "RELEASED")

\* A read of an id nobody opened answers with the first escrow there is.
Get(p, i) ==
    /\ UNCHANGED <<testnetPayments, opened, acted>>
    /\ LET x == IF testnetPayments[i] # None THEN i ELSE IF opened = <<>> THEN None ELSE Head(opened) IN
       IF x = None THEN Shows(p, None, {}) ELSE Shows(p, testnetPayments[x].status, {x})
List(p) ==
    /\ UNCHANGED <<testnetPayments, opened, acted>>
    /\ Shows(p, None, {i \in ToSet(opened) : p \in SUPERVISORY \/ testnetPayments[i].initiatedBy = p})

EscrowNext ==
    \E p \in People :
        \/ List(p)
        \/ \E i \in PaymentIds : Confirm(p, i) \/ Release(p, i) \/ Get(p, i)
        \/ \E i \in PaymentIds, from, to \in People : Initiate(p, i, from, to)
-----------------------------------------------------------------------------
\* What PayU's reports make of the payment is what PayU's book says,
\* whichever of them came first and however often, and whatever this side has
\* written in between: confirmed only when PayU took the money, declined only
\* when it did not, and never a mismatch of sums, for all the rounding to
\* paise, unless a copy brought another sum.  A result PayU signed is never
\* turned away, in any of its shapes.  No page claims a payment that PayU did
\* not take, and none denies one that it did, unless this side decided so:
\* approved, declined, or told by a webhook, a callback or a copy.
PaymentsAreAsPayUSays ==
    /\ by = "payu" =>
        /\ pay.status \in {"CONFIRMED", "RELEASED"} => payu.outcome = "success"
        /\ pay.status = "DECLINED" => payu.outcome = "failure"
        /\ pay.status = "FAILED_AMOUNT_MISMATCH" => pay.amountINR # checkout.of
    /\ by = "nobody" => pay.status = "PENDING"
    /\ ~refused
    /\ page.says = "Payment confirmed" => payu.outcome = "success" \/ page.by = "here"
    /\ page.says = "No money was taken" => payu.outcome = "failure" \/ page.by = "here"

\* What has been done to a record since it was opened, its parties and the
\* supervisors did, though it may have been opened over another's under the
\* same id; nobody's doing means it is still pending; and a status that is
\* answered for a step is the one on record.
EscrowsAreTheirs ==
    /\ \A i \in PaymentIds :
        IF testnetPayments[i] = None THEN acted[i] = {}
        ELSE LET rec == testnetPayments[i] IN
             /\ acted[i] \subseteq {rec.initiatedBy, rec.from, rec.to} \cup SUPERVISORY
             /\ acted[i] = {} <=> rec.status = "PENDING"
    /\ shown.status # None => \A i \in shown.ids : testnetPayments[i].status = shown.status
=============================================================================
