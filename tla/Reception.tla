----------------------------- MODULE Reception -----------------------------
(***************************************************************************)
(* One request at a time put to the serverless API and to the mock server: *)
(* the verdict of the gates (module Gates) and, for the reads, what the    *)
(* answer holds: payments in full, receipts with the handles masked,       *)
(* records of callbacks, the names of a listing's holders, the listing.    *)
(***************************************************************************)
EXTENDS Gates

CONSTANTS Payments   \* payments both servers hold
VARIABLES
    deployment,      \* the API's configuration
    asked,           \* the request
    api, mock        \* the two answers: verdict and what is shown

vars == <<deployment, asked, api, mock>>

Nothing == [op |-> "none"]
NoAnswer == [verdict |-> 0, shown |-> {}]
Open == {"utr", "catalogue", "detail"}
Views == Open \cup {"list", "trace", "webhooks", "book"}
\* Operator views and who-am-I; umi is any call passed on to the rail.
Desks == {"ops", "insights", "diagnostics", "me", "umi"}

NoListing == [status |-> "none"]
Listing == [status : {"DRAFT", "TOKENIZED", "FROZEN"}, checked : BOOLEAN, removed : BOOLEAN]

\* What each operation names: a payment, a subject, a listing, a callback's signature.
Requests(c) ==
    LET ask(op, p, s, g, l) == [op |-> op, cred |-> c, pay |-> p, subject |-> s, signed |-> g, listing |-> l] IN
    {ask(op, p, None, FALSE, NoListing) :
        op \in PAYMENT_SCOPED \cup BODY_PAYMENT_PATHS \cup UNLISTED \cup {"utr", "trace"}, p \in Payments}
    \cup {ask(op, p, None, g, NoListing) : op \in WEBHOOK_PATHS, p \in Payments, g \in BOOLEAN}
    \cup {ask(op, None, s, FALSE, NoListing) : op \in OwnerOps \cup KYC_BODY_SUBJECT, s \in Demo \cup Persons}
    \cup {ask(op, None, None, FALSE, NoListing) : op \in {"orgs", "invite", "mint", "backfill", "list", "webhooks", "book"} \cup Desks}
    \cup {ask(op, None, None, FALSE, l) : op \in {"catalogue", "detail"}, l \in Listing}

Init == deployment \in Deployment /\ asked = Nothing /\ api = NoAnswer /\ mock = NoAnswer

\* Reads other than a payment's own have no gate but the signing in.
Gate(q) == [q EXCEPT !.op = IF q.op \in Open \cup Desks THEN "catalogue" ELSE IF q.op \in Views THEN "orgs" ELSE q.op]
-----------------------------------------------------------------------------
(* What an answer holds *)
Full(p) == <<"payment", p>>
utrReceiptView(p) == <<"receipt", p>>
Audit(p) == <<"callback", p>>

utrEntitled_Anyone(u, p) == TRUE \* (mutant: holding a reference is enough)
utrEntitled(u, p) == Party(u, p) \/ u.role \in SUPERVISORY
paymentsVisibleTo(u) == {p \in Payments : Party(u, p) \/ u.role \in SUPERVISORY}

listingIsPublic(l) == ~l.removed /\ (l.status # "DRAFT" \/ l.checked)
visibleListing(u, l, supervising) == ~l.removed /\ (listingIsPublic(l) \/ supervising \/ u.id = "originator1")

\* namesFor: whether the names of the holders go out; supervising: who sees every listing.
Shown(u, q, namesFor, supervising) ==
    CASE q.op = "utr" -> {IF utrEntitled(u, q.pay) THEN Full(q.pay) ELSE utrReceiptView(q.pay)}
      [] q.op = "payGet" -> {Full(q.pay)}
      [] q.op = "list" -> {Full(p) : p \in paymentsVisibleTo(u)}
      [] q.op = "trace" -> {Full(p) : p \in paymentsVisibleTo(u) \cap {q.pay}}
      [] q.op = "webhooks" -> {Audit(p) : p \in paymentsVisibleTo(u)}
      [] q.op = "book" -> IF u.role \in SUPERVISORY THEN {Full(p) : p \in Payments} ELSE {}
      [] q.op = "detail" -> {<<"listing", q.listing>>} \cup (IF namesFor THEN {<<"holders">>} ELSE {})
      [] q.op = "catalogue" -> IF visibleListing(u, q.listing, supervising) THEN {<<"listing", q.listing>>} ELSE {}
      [] OTHER -> {}

\* A demo role is a costume, not a credential.
mayRead_InCostume(env, c, u) == env.demo \/ c.key \/ u.role \in {"regulator", "registrar"} \* (mutant: any role will do)
mayRead(env, c, u) ==
    \/ env.demo \/ c.key \/ u.entitled
    \/ u.person = None /\ u.role \in {"regulator", "registrar"}
opsRole(c, u) == c.key \/ u.role \in {"registrar", "regulator", "admin"}
insightsAuth(c, u) == c.key \/ u.role \in SUPERVISORY
Forwarded(u) == {<<"as", u.id, u.role>>}

ApiDesk(env, q) ==
    LET u == getUser(env, q.cred)
        opens(may, status) == [verdict |-> IF may THEN 200 ELSE status, shown |-> {}]
    IN  CASE q.op = "ops" -> opens(opsRole(q.cred, u), 403)
          [] q.op = "insights" -> opens(insightsAuth(q.cred, u), 401)
          [] q.op = "diagnostics" -> opens(mayRead(env, q.cred, u), 403)
          [] q.op = "me" -> opens(u.id # None, 401)
          [] q.op = "umi" -> [verdict |-> 200, shown |->
                 IF u.id # None /\ (q.cred.bearer.kind # "none" \/ q.cred.header # None) THEN Forwarded(u) ELSE {}]

ApiAnswer(env, q) ==
    LET u == getUser(env, q.cred)  v == Verdict(env, Gate(q)) IN
    IF q.op \in Desks THEN ApiDesk(env, q) ELSE
    [verdict |-> v, shown |-> IF v # 200 THEN {} ELSE
        Shown(u, q, Decoded(env, q.cred.bearer).is # "nothing", u.id \in {"registrar1", "regulator1"} \/ u.key)]

\* optionalAuth: only a bearer is looked at; without one the caller is the public.
optionalAuth(c) == IF c.bearer.kind = "none" THEN Anonymous ELSE authenticate(c)
MockUser(q) == IF q.op \in Open THEN optionalAuth(q.cred) ELSE authenticate(q.cred)
\* What decodeClerkOrMockToken makes of a bearer alone, without the header.
Carried(b) ==
    CASE b.kind = "demo" -> AsDemo(b.who)
      [] b.kind \in {"session", "unsigned"} -> User(OrElse(Claims[b.who], "investor1"), "investor")
      [] OTHER -> Anonymous
MockDesk(q) ==
    LET v == MockVerdict([q EXCEPT !.op = "orgs"])  u == authenticate(q.cred)  who == Carried(q.cred.bearer)
        opens(may, status) == [verdict |-> IF may THEN 200 ELSE status, shown |-> {}]
    IN  CASE q.op = "ops" -> opens(v = 200 /\ opsRole(q.cred, u), IF v = 200 THEN 403 ELSE v)
          [] q.op = "insights" -> opens(insightsAuth(q.cred, who), 401)
          [] q.op = "diagnostics" -> opens(FALSE, 404)
          [] q.op = "me" -> opens(v = 200, v)
          [] q.op = "umi" -> [verdict |-> 200, shown |->
                 IF who # Anonymous THEN Forwarded(who)
                 ELSE IF q.cred.header # None THEN Forwarded(AsDemo(q.cred.header)) ELSE {}]

MockAnswer(q) ==
    IF q.op \in Desks THEN MockDesk(q) ELSE
    LET v == IF q.op \in Open THEN 200 ELSE MockVerdict(Gate(q))
        u == MockUser(q)
    IN  [verdict |-> v, shown |-> IF v # 200 THEN {} ELSE Shown(u, q, u # Anonymous, u.role \in SUPERVISORY \/ u.key)]

Ask(c) ==
    /\ asked = Nothing
    /\ \E q \in Requests(c) : asked' = q /\ api' = ApiAnswer(deployment, q) /\ mock' = MockAnswer(q)
    /\ UNCHANGED deployment
Done == asked # Nothing /\ asked' = Nothing /\ api' = NoAnswer /\ mock' = NoAnswer /\ UNCHANGED deployment

Next == Done \/ \E c \in Credentials : Ask(c)
-----------------------------------------------------------------------------
\* Who a credential proves its bearer to be, were there no demo mode.
Proved(c) == IF c.bearer.kind = "session" THEN c.bearer.who ELSE None
Stranger == ~asked.cred.key /\ (Proved(asked.cred) = None)

\* In a deployment with an issuer and without demo identities, a caller who
\* proves nothing, an unreadable or unsigned bearer included, is shown no
\* payment beyond a masked receipt, no callback, no holder's name, no listing
\* in the catalogue that a registrar has not checked and no operator view,
\* and reaches the rail as nobody.  A payment he writes only by a signed
\* webhook, or by the two routes the API lists nowhere: those let him in as
\* they let in everyone but the bare operator key.
NothingForStrangers ==
    asked # Nothing /\ ~deployment.demo /\ deployment.issuer /\ Stranger =>
        /\ \A s \in api.shown : s[1] \notin {"payment", "callback", "holders", "as"}
        /\ asked.op \in Desks \ {"umi"} => api.verdict # 200
        /\ asked.op = "catalogue" /\ api.shown # {} => listingIsPublic(asked.listing)
        /\ api.verdict = 200 /\ asked.op \in PAYMENT_SCOPED \cup BODY_PAYMENT_PATHS \cup WEBHOOK_PATHS => asked.signed
        /\ asked.op \in UNLISTED => api.verdict = 200

\* Both servers give one verdict (for the operators' queue and who-am-I: let
\* in or not) and show the same, as index.js says of its table ("this table is that same set, so both servers agree on who may
\* read what"), for every caller the two take for the same person by a token
\* both can read.  A signed callback that also brings the operator key is
\* refused by the API only; a registrar is shown unchecked drafts by the API
\* only.
SamePerson(env, q) == q.cred.bearer.kind # "unreadable" /\ getUser(env, q.cred) = MockUser(q)
ServersAgree ==
    /\ asked # Nothing /\ asked.op \in AUTH_REQUIRED \cup Views \cup {"ops", "me"} /\ SamePerson(deployment, asked)
    /\ ~(asked.signed /\ asked.cred.key) /\ ~(asked.op = "catalogue" /\ MockUser(asked).id = "registrar1")
    => IF asked.op \in Desks THEN (api.verdict = 200) = (mock.verdict = 200) ELSE api = mock

\* Outside demo mode, whoever wears a demo role without being named an
\* operator and without the key does not read the error log, which names
\* real people.
CostumesOpenNoLog ==
    asked # Nothing /\ asked.op = "diagnostics" /\ ~deployment.demo /\ ~asked.cred.key =>
        LET u == getUser(deployment, asked.cred) IN u.person # None /\ ~u.entitled => api.verdict = 403

RecordsAreTheirs == NothingForStrangers /\ ServersAgree /\ CostumesOpenNoLog
=============================================================================
