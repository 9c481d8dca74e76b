------------------------------- MODULE BuyFlow -------------------------------
(***************************************************************************)
(* The purchase screen of a property page (components/SimpleBuyFlow.jsx)   *)
(* talking to the API through lib/api.js.                                  *)
(*                                                                         *)
(* One React component, several asynchronous functions: the buttons start  *)
(* startPayment, approve and decline, and an effect that runs whenever the *)
(* screen returns to the form resumes a PayU purchase whose hand-off is in *)
(* localStorage.  Each runs in a slot, with at most one request out, and   *)
(* between a request and its answer the buyer may press another button,    *)
(* the page may be reloaded and the other slots go on.  A request may be   *)
(* given up on and still reach the server, and the server keeps payments   *)
(* in memory only.  The server side is mock-api-server.js, its handlers    *)
(* reduced to one token per purchase.                                      *)
(***************************************************************************)
EXTENDS Naturals, FiniteSets

CONSTANTS
    Pays,           \* payment ids
    Properties,     \* the listings a page may show
    Slots,          \* asynchronous functions running at once
    ForSale,        \* tokens the seller starts with
    ReconcileAt,    \* polls before PayU is asked (3 in the code)
    MaxErrors,      \* failed polls before giving up (10 in the code)
    MaxPolls,       \* polls before giving up (60 in the code)
    MaxTroubles,    \* bound: requests given up on, reloads, restarts, other buyers
    None

ASSUME BuyFlowAssumption ==
    /\ {ForSale, ReconcileAt, MaxErrors, MaxPolls} \subseteq Nat \ {0}
    /\ MaxTroubles \in Nat
    /\ IsFiniteSet(Pays) /\ IsFiniteSet(Slots) /\ None \notin Pays

VARIABLES
    screen,     \* step
    shown,      \* the payment the component holds
    about,      \* the payment "Nothing was bought" is about
    note,       \* the payment whose end is reported next to the form
    handoff,    \* localStorage aasthi_payu_pending
    page,       \* the listing on the page
    thread,     \* the asynchronous functions
    pays,       \* npciPayments of the server
    remaining,  \* tokens the seller still holds
    psp,        \* what PayU decided
    late,       \* requests nobody waits for any more
    expired,    \* payments older than five minutes
    mode,       \* PayU switched on, and whether the caller is an official
    delivered,  \* times tokens were moved for a payment (history)
    declined,   \* payments the buyer pressed Decline on (history)
    lost,       \* payments one of whose requests was given up on (history)
    troubles

browser == <<screen, shown, about, note, handoff, page, thread>>
server == <<pays, remaining, delivered>>
world == <<psp, expired, mode, declined>>
flow == <<browser, server, world, late, lost, troubles>>

Statuses == {"none", "PENDING", "CONFIRMED", "RELEASED", "DECLINED", "EXPIRED", "FAILED", "REFUNDED"}
Copies == [id : Pays \cup {None}, st : Statuses, tid : BOOLEAN]
NoCopy == [id |-> None, st |-> "none", tid |-> FALSE]
Unknown(p) == [id |-> p, st |-> "none", tid |-> FALSE]

Busy == {"paying", "confirming", "transferring"}
Screens == Busy \cup {"form", "payu", "pending", "success", "error"}
Legs == {"approve", "transfer", "release"}
Loop == {"get", "wait", "reconcile", "settle", "receipt"}
JobKinds == Legs \cup Loop \cup {"idle", "collect", "decline", "refund"}

NoJob == [job |-> "idle", op |-> "none", again |-> FALSE, sent |-> FALSE, code |-> 0, copy |-> NoCopy, got |-> NoCopy,
         seen |-> "none", poll |-> FALSE, cancelled |-> FALSE, polls |-> 0, asked |-> FALSE]

FlowTypeOK ==
    /\ screen \in Screens /\ shown \in Copies /\ about \in Pays \cup {None} /\ note \in Pays \cup {None} /\ page \in Properties
    /\ handoff \in [id : Pays, asset : Properties] \cup {None}
    /\ \A t \in Slots : /\ thread[t].job \in JobKinds /\ thread[t].op \in JobKinds \cup {"none", "reattach"}
                        /\ thread[t].copy \in Copies /\ thread[t].got \in Copies
                        /\ thread[t].job = "idle" => thread[t] = NoJob
    /\ pays \in [Pays -> Copies] /\ remaining \in 0..ForSale /\ psp \in [Pays -> {"none", "open", "success", "failure"}]
    /\ expired \subseteq Pays /\ delivered \in [Pays -> Nat]
    /\ \A p \in Pays : (pays[p].st = "RELEASED") <=> pays[p].tid

-----------------------------------------------------------------------------
(* The server: what a handler may make of the rows, and its answer.  The   *)
(* synchronous part of a handler is one step.                              *)

Result(code, p, row, sold) == [code |-> code, p |-> p, row |-> row, sold |-> sold]
Refuse(code, p) == Result(code, p, pays[p], 0)
To(p, st) == [pays[p] EXCEPT !.st = st]
Settled_(p) == [id |-> p, st |-> "RELEASED", tid |-> TRUE]

settle_NoMemory(p) ==               \* (mutant: the already-settled path is missing)
    IF pays[p].st = "none" THEN Refuse(404, p)
    ELSE IF pays[p].st \notin {"CONFIRMED", "RELEASED"} \/ remaining = 0 THEN Refuse(409, p)
    ELSE Result(200, p, Settled_(p), 1)

settle(p) ==
    IF pays[p].st = "none" THEN Refuse(404, p)
    ELSE IF pays[p].st = "RELEASED" THEN Refuse(200, p)
    ELSE IF pays[p].st # "CONFIRMED" \/ remaining = 0 THEN Refuse(409, p)
    ELSE Result(200, p, Settled_(p), 1)

(* A payment PayU confirms is settled in the same step when it can be.     *)
confirmAndSettle(p) ==
    IF remaining = 0 THEN Result(200, p, To(p, "CONFIRMED"), 0) ELSE Result(200, p, Settled_(p), 1)

collect ==
    LET fresh == {p \in Pays : psp[p] = "none"} IN
    (IF remaining = 0 THEN {} ELSE {Result(200, p, [Unknown(p) EXCEPT !.st = "PENDING"], 0) : p \in fresh})
        \cup {Result(400, None, NoCopy, 0)}

approve(p) ==
    IF pays[p].st = "none" THEN {Refuse(404, p)}
    ELSE IF pays[p].st # "PENDING" THEN {Refuse(400, p)}
    ELSE IF p \in expired THEN {Result(400, p, To(p, "EXPIRED"), 0)}
    ELSE {Result(400, p, To(p, "FAILED"), 0), Result(200, p, To(p, "CONFIRMED"), 0)}

(* POST /api/transfers takes the sender from the caller, so a buyer who    *)
(* asks for the seller's tokens asks for a transfer to himself.            *)
transfer(p) == IF mode.official /\ remaining > 0 THEN Result(200, p, pays[p], 1) ELSE Refuse(400, p)

release_Later(p) ==                 \* (mutant: the transfer's id is not kept)
    IF pays[p].st = "none" THEN Refuse(404, p)
    ELSE IF pays[p].st # "CONFIRMED" THEN Refuse(400, p)
    ELSE Result(200, p, To(p, "RELEASED"), 0)

release(p) ==
    IF pays[p].st = "none" THEN Refuse(404, p)
    ELSE IF pays[p].st # "CONFIRMED" THEN Refuse(400, p)
    ELSE Result(200, p, Settled_(p), 0)

reattach(c) == IF pays[c.id].st = "none" THEN Result(200, c.id, c, 0) ELSE Refuse(200, c.id)

decline(p) == IF pays[p].st = "PENDING" THEN Result(200, p, To(p, "DECLINED"), 0) ELSE Refuse(400, p)

refund(p) == IF pays[p].st \in {"none", "RELEASED"} THEN Refuse(400, p) ELSE Result(200, p, To(p, "REFUNDED"), 0)

get(p) ==
    IF pays[p].st = "none" THEN Refuse(404, p)
    ELSE IF pays[p].st = "PENDING" /\ p \in expired THEN Result(200, p, To(p, "EXPIRED"), 0)
    ELSE Refuse(200, p)

(* PayU may be out of reach (502), have nothing to say yet, or have        *)
(* decided.                                                                *)
reconcile(p) ==
    IF pays[p].st = "none" THEN {Refuse(404, p)}
    ELSE {Refuse(502, p),
          IF (pays[p].st = "PENDING" /\ psp[p] = "success") \/ pays[p].st = "CONFIRMED" THEN confirmAndSettle(p)
          ELSE IF pays[p].st = "PENDING" /\ psp[p] = "failure" THEN Result(200, p, To(p, "DECLINED"), 0)
          ELSE Refuse(200, p)}

Handled(op, c) ==
    CASE op = "collect" -> collect
      [] op = "approve" -> approve(c.id)
      [] op = "reconcile" -> reconcile(c.id)
      [] op = "transfer" -> {transfer(c.id)}
      [] op = "release" -> {release(c.id)}
      [] op = "reattach" -> {reattach(c)}
      [] op = "decline" -> {decline(c.id)}
      [] op = "refund" -> {refund(c.id)}
      [] op = "get" -> {get(c.id)}
      [] op \in {"settle", "receipt"} -> {settle(c.id)}

Apply(r) ==
    IF r.p = None THEN UNCHANGED <<server, psp>>
    ELSE /\ pays' = [pays EXCEPT ![r.p] = r.row]
         /\ remaining' = remaining - r.sold
         /\ delivered' = [delivered EXCEPT ![r.p] = @ + r.sold]
         /\ psp' = IF psp[r.p] = "none" THEN [psp EXCEPT ![r.p] = "open"] ELSE psp

-----------------------------------------------------------------------------
(* The component.  An effect with the dependency [step]: a change of the   *)
(* screen cancels the poll that runs, and arriving at the form with no     *)
(* payment and a fresh hand-off starts one.                                *)

Cut(s, th) ==
    [t \in Slots |-> IF th[t].poll /\ s # screen THEN [th[t] EXCEPT !.cancelled = TRUE] ELSE th[t]]

Ask(f, op, c) == [f EXCEPT !.op = op, !.sent = TRUE, !.code = 0, !.copy = c, !.got = NoCopy]
Sends(f, job, c) == [Ask(f, job, c) EXCEPT !.job = job, !.again = FALSE]
Poll(f) == [Sends(f, "get", f.copy) EXCEPT !.polls = @ + 1]

Mount(th, h) ==
    \/ \E u \in Slots : /\ th[u] = NoJob
                        /\ thread' = [th EXCEPT ![u] = Poll([NoJob EXCEPT !.poll = TRUE, !.copy = Unknown(h.id)])]
                        /\ handoff' = h
    \/ thread' = th /\ handoff' = None          \* older than the confirmation window

Show(s, sh, th, h) ==
    /\ screen' = s /\ shown' = sh
    /\ IF s = "form" /\ screen # "form" /\ sh = NoCopy /\ h # None
       THEN Mount(Cut(s, th), h)
       ELSE thread' = Cut(s, th) /\ handoff' = h

Go(s, sh, th, h) == Show(s, sh, th, h) /\ about' = IF s = screen THEN about ELSE None
Fail(p, th) == Show("error", shown, th, handoff) /\ about' = p

Start(f) == {[thread EXCEPT ![t] = f] : t \in {u \in Slots : thread[u] = NoJob}}
Keep == UNCHANGED <<note, page>>
Elsewhere == UNCHANGED <<server, world, late, lost, troubles>>

Buy ==                                                              \* startPayment
    /\ screen = "form"
    /\ \E th \in Start(Sends(NoJob, "collect", NoCopy)) : Go("paying", shown, th, handoff)
    /\ Keep /\ Elsewhere

Approve ==
    /\ screen = "pending"
    /\ \E th \in Start(Sends([NoJob EXCEPT !.seen = shown.st], "approve", shown)) : Go("confirming", shown, th, handoff)
    /\ Keep /\ Elsewhere

Decline ==
    /\ screen = "pending"
    /\ thread' \in Start(Sends([NoJob EXCEPT !.seen = shown.st], "decline", shown))
    /\ declined' = declined \cup {shown.id}
    /\ UNCHANGED <<screen, shown, about, handoff, psp, expired, mode, server, late, lost, troubles>> /\ Keep

Countdown ==
    /\ screen = "pending" /\ shown.id \in expired
    /\ Fail(shown.id, thread)
    /\ Keep /\ Elsewhere

TryAgain == screen \in {"error", "payu"} /\ Go("form", NoCopy, thread, None) /\ Keep /\ Elsewhere
BuyMore == screen = "success" /\ Go("form", NoCopy, thread, handoff) /\ Keep /\ Elsewhere

Trouble == troubles < MaxTroubles /\ troubles' = troubles + 1

(* A reload, or the way back from PayU: every function is gone, what it    *)
(* asked for may still arrive.                                             *)
Reload ==
    /\ IF screen = "payu" THEN UNCHANGED troubles ELSE Trouble
    /\ page' \in Properties
    /\ late' = late \cup {[op |-> thread[t].op, copy |-> thread[t].copy] : t \in {u \in Slots : thread[u].sent /\ thread[u].op # "get"}}
    /\ lost' = lost \cup ({thread[t].copy.id : t \in {u \in Slots : thread[u].job # "idle"}} \ {None})
    /\ screen' = "form" /\ shown' = NoCopy /\ about' = None /\ note' = None
    /\ LET blank == [t \in Slots |-> NoJob] IN
       IF handoff = None THEN thread' = blank /\ UNCHANGED handoff ELSE Mount(blank, handoff)
    /\ UNCHANGED <<server, world>>

-----------------------------------------------------------------------------
(* A function goes on when its answer is there.                            *)

Here(t) == thread[t].op # "none" /\ ~thread[t].sent
Ok(t) == thread[t].code = 200
With(t, f) == [thread EXCEPT ![t] = f]
Ends(t) == With(t, NoJob)
Stays(t, f) == thread' = With(t, f) /\ UNCHANGED <<screen, shown, about, handoff>> /\ Keep

Collected(t) ==
    /\ Here(t) /\ thread[t].job = "collect"
    /\ IF ~Ok(t) THEN Fail(None, Ends(t))
       ELSE IF mode.payu THEN Go("payu", thread[t].got, Ends(t), [id |-> thread[t].got.id, asset |-> page])
       ELSE Go("pending", thread[t].got, Ends(t), handoff)
    /\ Keep

RetryOn(job) == IF job = "transfer" THEN {404, 400} ELSE {404}
Retries_Always(t) ==                \* (mutant: not only once)
    thread[t].op = thread[t].job /\ thread[t].code \in RetryOn(thread[t].job)
Retries(t) == thread[t].op = thread[t].job /\ ~thread[t].again /\ thread[t].code \in RetryOn(thread[t].job)

(* The server lost it: hand back our copy and ask once more.               *)
Retry(t) ==
    /\ Here(t) /\ thread[t].job \in Legs
    /\ \/ Retries(t) /\ Stays(t, Ask(thread[t], "reattach", thread[t].copy))
       \/ thread[t].op = "reattach" /\ Ok(t) /\ Stays(t, [Ask(thread[t], thread[t].job, thread[t].copy) EXCEPT !.again = TRUE])

failWithRefund(t) ==
    /\ Here(t) /\ thread[t].job \in Legs /\ ~Ok(t) /\ ~Retries(t)
    /\ LET after == IF thread[t].seen = "CONFIRMED" THEN Sends(thread[t], "refund", thread[t].copy) ELSE NoJob IN
       Fail(thread[t].copy.id, With(t, after))
    /\ Keep

Next_(t, copy, job) == With(t, Sends(thread[t], job, copy))

Approved(t) ==
    /\ Here(t) /\ thread[t].job = "approve" /\ thread[t].op = "approve" /\ Ok(t)
    /\ Go("transferring", thread[t].got, Next_(t, thread[t].got, "transfer"), handoff)
    /\ Keep

Transferred(t) ==
    /\ Here(t) /\ thread[t].job = "transfer" /\ thread[t].op = "transfer" /\ Ok(t)
    /\ Stays(t, Sends(thread[t], "release", thread[t].copy))

Released(t) ==
    /\ Here(t) /\ thread[t].job = "release" /\ thread[t].op = "release" /\ Ok(t)
    /\ Go("success", thread[t].got, Ends(t), handoff)
    /\ Keep

Answered(t) ==                  \* decline and the refund of failWithRefund: the answer is not looked at
    /\ Here(t) /\ thread[t].job \in {"decline", "refund"}
    /\ IF thread[t].job = "decline" THEN Fail(thread[t].copy.id, Ends(t)) ELSE Go(screen, shown, Ends(t), handoff)
    /\ Keep

(* What the poll makes of a payment.  f is the function as it stands.      *)
WaitsOn(f) == [f EXCEPT !.job = "wait", !.op = "none", !.code = 0, !.got = NoCopy]

Resume_AllButPending(t, f, pay) ==  \* (mutant: RELEASED is reported as an end without tokens)
    LET over == pay.st # "PENDING" \/ f.polls >= MaxPolls
        next == IF over THEN NoJob ELSE WaitsOn(f)
    IN  /\ Go(IF next = NoJob THEN "form" ELSE screen, shown, With(t, next), IF over THEN None ELSE handoff)
        /\ note' = IF next = NoJob /\ pay.st # "PENDING" THEN pay.id ELSE note
        /\ UNCHANGED page

Resume(t, f, pay) ==
    LET over == pay.st # "PENDING" \/ f.polls >= MaxPolls
        mine == handoff # None /\ handoff.asset = page
        next == IF pay.st = "RELEASED" THEN Sends(f, "receipt", pay)
                ELSE IF pay.st = "CONFIRMED" /\ mine THEN Sends(f, "settle", pay)
                ELSE IF pay.tid THEN Sends(f, "receipt", pay)
                ELSE IF over THEN NoJob ELSE WaitsOn(f)
        sh == IF (next.job = "receipt") \/ (next = NoJob /\ pay.st # "PENDING") THEN pay ELSE shown
    IN  /\ Go(IF next = NoJob THEN "form" ELSE screen, sh, With(t, next), IF over THEN None ELSE handoff)
        /\ note' = IF next = NoJob /\ pay.st # "PENDING" THEN pay.id ELSE note
        /\ UNCHANGED page

Polled(t) ==
    /\ Here(t) /\ thread[t].job = "get"
    /\ IF thread[t].cancelled THEN Stays(t, NoJob)
       ELSE IF ~Ok(t) THEN
           Stays(t, IF thread[t].polls >= MaxErrors THEN NoJob ELSE WaitsOn(thread[t]))
       ELSE \/ /\ thread[t].got.st = "PENDING" /\ thread[t].polls >= ReconcileAt
               /\ Stays(t, Sends(thread[t], "reconcile", thread[t].got))
            \/ /\ thread[t].got.st = "PENDING" => thread[t].polls < ReconcileAt \/ thread[t].asked
               /\ Resume(t, thread[t], thread[t].got)

PollAgain(t) ==
    /\ thread[t].job = "wait"
    /\ Stays(t, IF thread[t].cancelled THEN NoJob ELSE Poll(thread[t]))

Reconciled(t) ==
    /\ Here(t) /\ thread[t].job = "reconcile"
    /\ IF ~Ok(t) THEN Resume(t, thread[t], thread[t].copy)
       ELSE IF thread[t].cancelled THEN Stays(t, NoJob)
       ELSE Resume(t, [thread[t] EXCEPT !.asked = TRUE], thread[t].got)

SettleAnswered_AnyAnswer(t) ==      \* (mutant: an answer is taken for a yes)
    /\ Here(t) /\ thread[t].job = "settle"
    /\ IF thread[t].cancelled THEN Stays(t, NoJob) ELSE Go("success", thread[t].copy, Ends(t), handoff)
    /\ Keep

SettleAnswered(t) ==
    /\ Here(t) /\ thread[t].job = "settle"
    /\ IF Ok(t) /\ thread[t].cancelled THEN Stays(t, NoJob)
       ELSE IF Ok(t) THEN Go("success", thread[t].got, Ends(t), handoff)
       ELSE Go("transferring", thread[t].copy, Next_(t, thread[t].copy, "transfer"), handoff)
    /\ Keep

ReceiptAnswered(t) ==
    /\ Here(t) /\ thread[t].job = "receipt"
    /\ IF ~Ok(t) THEN Go("success", shown, Ends(t), handoff)
       ELSE IF thread[t].cancelled THEN Stays(t, NoJob)
       ELSE Go("success", thread[t].got, Ends(t), handoff)
    /\ Keep

GoesOn(t) ==
    /\ \/ Collected(t) \/ Retry(t) \/ failWithRefund(t) \/ Approved(t) \/ Transferred(t) \/ Released(t) \/ Answered(t)
       \/ Polled(t) \/ PollAgain(t) \/ Reconciled(t) \/ SettleAnswered(t) \/ ReceiptAnswered(t)
    /\ Elsewhere

-----------------------------------------------------------------------------
(* The server and the world outside.                                       *)

Execute(t) ==
    /\ thread[t].sent
    /\ \E r \in Handled(thread[t].op, thread[t].copy) :
           /\ Apply(r)
           /\ thread' = With(t, [thread[t] EXCEPT !.sent = FALSE, !.code = r.code, !.got = r.row])
    /\ UNCHANGED <<screen, shown, about, handoff, expired, mode, declined, late, lost, troubles>> /\ Keep

Late(c) ==
    /\ \E r \in Handled(c.op, c.copy) : Apply(r)
    /\ late' = late \ {c}
    /\ UNCHANGED <<browser, expired, mode, declined, lost, troubles>>

(* The browser stops waiting: the request was dropped on its way, or it is *)
(* under way or carried out and only its answer is missing.                *)
GiveUp(t) ==
    /\ thread[t].sent /\ Trouble
    /\ thread' = With(t, [thread[t] EXCEPT !.sent = FALSE, !.code = 0])
    /\ late' \in {late, late \cup {c \in {[op |-> thread[t].op, copy |-> thread[t].copy]} : c.op # "get"}}
    /\ lost' = lost \cup ({thread[t].copy.id} \ {None})
    /\ UNCHANGED <<screen, shown, about, handoff, server, world>> /\ Keep

(* Payments and holdings are memory only.                                  *)
Restart ==
    /\ Trouble
    /\ pays' = [p \in Pays |-> Unknown(p)] /\ remaining' = ForSale /\ late' = {}
    /\ thread' = [t \in Slots |-> IF thread[t].sent THEN [thread[t] EXCEPT !.sent = FALSE, !.code = 0] ELSE thread[t]]
    /\ lost' = {p \in Pays : psp[p] # "none"}
    /\ UNCHANGED <<screen, shown, about, handoff, delivered, world>> /\ Keep

Decides(p) ==
    /\ mode.payu /\ psp[p] = "open" /\ pays[p].st = "PENDING"
    /\ psp' \in {[psp EXCEPT ![p] = "success"], [psp EXCEPT ![p] = "failure"]}
    /\ UNCHANGED <<browser, server, expired, mode, declined, late, lost, troubles>>

Callback(p) ==
    /\ psp[p] \in {"success", "failure"} /\ pays[p].st = "PENDING"
    /\ \/ psp[p] = "success" /\ Apply(confirmAndSettle(p))
       \/ psp[p] = "success" /\ Apply(Result(200, p, To(p, "CONFIRMED"), 0))   \* the bank's webhook settles nothing
       \/ psp[p] = "failure" /\ Apply(Result(200, p, To(p, "DECLINED"), 0))
    /\ UNCHANGED <<browser, expired, mode, declined, late, lost, troubles>>

FiveMinutes(p) ==
    /\ pays[p].st = "PENDING" /\ p \notin expired
    /\ expired' = expired \cup {p}
    /\ UNCHANGED <<browser, server, psp, mode, declined, late, lost, troubles>>

OthersBuy ==
    /\ Trouble /\ remaining > 0
    /\ remaining' \in 0..(remaining - 1)
    /\ UNCHANGED <<browser, pays, delivered, world, late, lost>>

FlowInit ==
    /\ screen = "form" /\ shown = NoCopy /\ about = None /\ note = None /\ handoff = None /\ page \in Properties
    /\ thread = [t \in Slots |-> NoJob] /\ late = {} /\ lost = {}
    /\ pays = [p \in Pays |-> Unknown(p)] /\ remaining = ForSale /\ delivered = [p \in Pays |-> 0]
    /\ psp = [p \in Pays |-> "none"] /\ expired = {} /\ declined = {}
    /\ mode \in [payu : BOOLEAN, official : BOOLEAN]
    /\ troubles = 0

FlowNext ==
    \/ Buy \/ Approve \/ Decline \/ Countdown \/ TryAgain \/ BuyMore \/ Reload
    \/ \E t \in Slots : GoesOn(t) \/ Execute(t) \/ GiveUp(t)
    \/ \E c \in late : Late(c)
    \/ \E p \in Pays : Decides(p) \/ Callback(p) \/ FiveMinutes(p)
    \/ Restart \/ OthersBuy

(* A request is answered or timed out, and a function whose answer is      *)
(* there goes on.                                                          *)
FlowSpec ==
    /\ FlowInit /\ [][FlowNext]_flow
    /\ \A t \in Slots : WF_flow(Execute(t)) /\ WF_flow(GoesOn(t))

-----------------------------------------------------------------------------
(* Properties *)

Quiet == \A t \in Slots : thread[t] = NoJob

(* The seller's tokens leave at most once for a payment, whichever of the  *)
(* callback, the reconciliation, the settlement and the browser's own      *)
(* transfer comes first, as long as no request of that payment was given   *)
(* up on and the server kept its memory.                                   *)
MovedOnce == \A p \in Pays \ lost : delivered[p] <= 1

(* The screen that says the tokens are recorded shows a payment whose      *)
(* tokens have moved.                                                      *)
SuccessIsReal == screen = "success" /\ lost = {} => delivered[shown.id] > 0

(* What the buyer is told did not happen, did not: tokens of a purchase    *)
(* "Nothing was bought" is about stay where they were once every function  *)
(* has ended, unless Decline and Approve were both pressed, and those of a *)
(* resumed payment that "ended as ... No tokens were transferred" do too   *)
(* ("telling the buyer otherwise is the worst thing this screen can do").  *)
(* Requests given up on are left out.                                      *)
ErrorIsTrue ==
    lost = {} =>
        /\ screen = "error" /\ Quiet /\ about # None /\ about \notin declined => delivered[about] = 0
        /\ note # None => delivered[note] = 0

(* What the buyer is told, of success and of failure, is so.               *)
WordsAreTrue == FlowTypeOK /\ SuccessIsReal /\ ErrorIsTrue

(* No spinner turns for ever.                                              *)
BusyEnds == (screen \in Busy) ~> (screen \notin Busy)

(* "If money was taken by the test provider it is reversed by the same     *)
(* flow that took it" (the hint under "Nothing was bought").               *)
MoneyIsReversed ==
    screen = "error" /\ Quiet /\ lost = {} /\ about # None
        => pays[about].st # "CONFIRMED"
=============================================================================
