-------------------------------- MODULE Gates --------------------------------
(***************************************************************************)
(* Who a request is from, and whether it is let through to its handler, as *)
(* decided by the serverless API (frontend/api/index.js: getUser and the   *)
(* refusals at the top of handler) and, route by route, by the mock server *)
(* (mock-api-server.js: authMiddleware and the gates it chains).  Pure     *)
(* operators: the modules that model handlers use them.                    *)
(*                                                                         *)
(* A bearer token is one of: none, a demo token for an identity, a session *)
(* the issuer signed for a person, an unsigned three-part token naming a   *)
(* person, or something nobody can read, as an expired one is to the former.*)
(* A request names what it does (op) and whose record or which payment it  *)
(* is about.                                                               *)
(***************************************************************************)
LOCAL INSTANCE Naturals

CONSTANTS
    None,
    Persons,     \* accounts at the identity provider
    Named,       \* the persons SUPERVISOR_EMAILS or SUPERVISOR_CLERK_IDS name
    Claims,      \* person -> the identity its session carries, or None
    Aliases      \* person -> the identity IDENTITY_ALIASES pins it to, or None

Demo == {"originator1", "registrar1", "investor1", "investor2", "regulator1"}

ASSUME GatesConstants ==
    /\ Named \subseteq Persons /\ Persons \cap Demo = {} /\ None \notin Persons \cup Demo
    /\ Claims \in [Persons -> Demo \cup {None}] /\ Aliases \in [Persons -> Demo \cup {None}]

RoleOf(i) == CASE i = "originator1" -> "originator" [] i = "registrar1" -> "registrar"
               [] i = "regulator1" -> "regulator" [] OTHER -> "investor"

(* A deployment: DEMO_AUTH, DEMO_ROLE_SWITCH, CLERK_ISSUER configured. *)
Deployment == [demo : BOOLEAN, switch : BOOLEAN, issuer : BOOLEAN]

Bearers == {[kind |-> "none", who |-> None], [kind |-> "unreadable", who |-> None]}
    \cup [kind : {"demo"}, who : Demo] \cup [kind : {"session", "unsigned"}, who : Persons]
Credentials == [bearer : Bearers, header : Demo \cup {None}, key : BOOLEAN]

User(i, role) == [id |-> i, role |-> role, person |-> None, key |-> FALSE, entitled |-> FALSE]
AsDemo(i) == User(i, RoleOf(i))
Anonymous == User(None, "anonymous")
OrElse(i, default) == IF i = None THEN default ELSE i
-----------------------------------------------------------------------------
(* The serverless API *)

\* What decodeToken makes of a bearer: a demo identity, a person, or nothing.
Decoded(env, b) ==
    CASE b.kind = "demo" /\ env.demo -> [is |-> "demo", who |-> b.who]
      [] b.kind = "session" -> [is |-> "person", who |-> b.who]
      [] b.kind = "unsigned" /\ ~env.issuer -> [is |-> "person", who |-> b.who]
      [] OTHER -> [is |-> "nothing", who |-> None]

\* No bearer anyone can stand behind: the operator key, else the demo header, else nobody.
Unproved(env, c) ==
    IF c.key THEN [AsDemo(OrElse(c.header, "regulator1")) EXCEPT !.key = TRUE]
    ELSE IF env.demo THEN AsDemo(OrElse(c.header, "investor1"))
    ELSE Anonymous

personalIdentity(p) == OrElse(Aliases[p], p)

\* A signed-in person: an identity asked for, the one the session carries,
\* an operator's, or their own.
SignedIn(env, c, p) ==
    LET entitled == env.demo \/ c.key \/ p \in Named
        wears(i, e) == [AsDemo(i) EXCEPT !.person = p, !.entitled = e]
    IN  CASE c.header # None /\ (entitled \/ env.switch) ->
                 [wears(c.header, entitled) EXCEPT !.key = c.key]
          [] Claims[p] # None -> wears(Claims[p], TRUE)
          [] entitled -> [wears("regulator1", TRUE) EXCEPT !.key = c.key]
          [] OTHER -> [User(personalIdentity(p), "investor") EXCEPT !.person = p]

getUser(env, c) ==
    LET d == Decoded(env, c.bearer) IN
    CASE d.is = "demo" -> AsDemo(d.who)
      [] d.is = "person" -> SignedIn(env, c, d.who)
      [] OTHER -> Unproved(env, c)
-----------------------------------------------------------------------------
(* Operations and the tables of the gates *)
Reads == {"kycGet", "wallet", "loans", "nav", "payGet", "orgs", "catalogue"}
SUPERVISORY == {"regulator", "admin"}
KYC_BODY_SUBJECT == {"digiInit", "digiCallback", "digiPull"}
PAYMENT_SCOPED == {"payGet", "approve", "decline", "refund", "reattach", "release", "settle"}
WEBHOOK_PATHS == {"webhook", "webhookTest"}
BODY_PAYMENT_PATHS == {"reconcile"}
KEY_WRITABLE == {"backfill", "migrate"}
\* Routes of the API that write the payment a request names and are in none of
\* its tables: POST /api/npci/callback and /payments/:id/timeout.  The mock has neither.
UNLISTED == {"callback", "timeout"}
OWNER_SCOPED(op) ==
    CASE op \in {"kycGet", "kycPut", "wallet"} -> SUPERVISORY \cup {"registrar"}
      [] op \in {"loans", "nav"} -> SUPERVISORY
      [] OTHER -> {}
OwnerOps == {"kycGet", "kycPut", "wallet", "loans", "nav"}
\* The part of the table whose operations the gates tell apart, and orgs and mint for the rest.
AUTH_REQUIRED == OwnerOps \cup KYC_BODY_SUBJECT \cup PAYMENT_SCOPED \cup WEBHOOK_PATHS
                 \cup BODY_PAYMENT_PATHS \cup {"orgs", "invite", "mint", "escrow"}
Ops == AUTH_REQUIRED \cup KEY_WRITABLE \cup UNLISTED \cup {"catalogue"}

\* A payment the server holds: who pays, who is paid.
Payment(payer, payee) == [payer |-> payer, payee |-> payee]
Party(u, p) == u.id # None /\ u.id \in {p.payer, p.payee}

paymentOwner(u, requested) ==
    IF requested = None \/ requested = u.id \/ u.role \notin SUPERVISORY
    THEN OrElse(u.id, "investor1") ELSE requested

\* Gates that ask whose payment it is all accept the parties, supervisors and the originator.
paymentViolation_ByHeader(u, q) == \* (mutant: the payer is the identity the browser names)
    q.pay # None /\ q.cred.header \notin {q.pay.payer, q.pay.payee} /\ u.role \notin SUPERVISORY \cup {"originator"}
paymentViolation(u, q) ==
    q.pay # None /\ ~Party(u, q.pay) /\ u.role \notin SUPERVISORY \cup {"originator"}
webhookViolation(u, q) == ~q.signed /\ paymentViolation(u, q)
kycSubjectViolation(u, q) ==
    q.subject # None /\ q.subject # u.id /\ u.role \notin SUPERVISORY \cup {"registrar"}
ownershipViolation(u, q) ==
    q.subject # u.id /\ u.role \notin OWNER_SCOPED(q.op) \cup SUPERVISORY
operatorKeyWriteRefusal_Named(u, op) == \* (mutant: a key that names an identity may act as it)
    op \notin Reads /\ u.key /\ u.id = "regulator1" /\ u.person = None /\ op \notin KEY_WRITABLE
operatorKeyWriteRefusal(u, op) ==
    op \notin Reads /\ u.key /\ u.person = None /\ op \notin KEY_WRITABLE

\* The verdict at the top of handler: let in, or the status it is refused with.
Verdict(env, q) ==
    LET u == getUser(env, q.cred)
        identified == q.cred.bearer.kind # "none" \/ q.cred.key \/ (env.demo /\ q.cred.header # None)
        calledBack == q.op \in WEBHOOK_PATHS /\ q.signed
    IN  CASE ~identified /\ ~calledBack /\ q.op \in AUTH_REQUIRED -> 401
          [] operatorKeyWriteRefusal(u, q.op) -> 403
          [] q.op \in WEBHOOK_PATHS /\ webhookViolation(u, q) -> 403
          [] q.op \in BODY_PAYMENT_PATHS \cup PAYMENT_SCOPED /\ paymentViolation(u, q) -> 403
          [] q.op \in KYC_BODY_SUBJECT /\ kycSubjectViolation(u, q) -> 403
          [] q.op \in OwnerOps /\ ownershipViolation(u, q) -> 403
          [] OTHER -> 200
-----------------------------------------------------------------------------
(* The mock server *)
Callback == User("bank-callback", "webhook")

\* authenticate: any demo token, any session; what cannot be read is who the header says.
authenticate(c) ==
    CASE c.bearer.kind = "none" /\ c.key -> [AsDemo(OrElse(c.header, "regulator1")) EXCEPT !.key = TRUE]
      [] c.bearer.kind = "none" -> Anonymous
      [] c.bearer.kind = "demo" -> AsDemo(c.bearer.who)
      [] c.bearer.kind \in {"session", "unsigned"} /\ c.header = None ->
             [User(OrElse(Claims[c.bearer.who], "investor1"), "investor") EXCEPT !.person = c.bearer.who]
      [] c.bearer.kind \in {"session", "unsigned"} -> [AsDemo(c.header) EXCEPT !.person = c.bearer.who]
      [] OTHER -> AsDemo(OrElse(c.header, "investor1"))

\* ownershipGate, paymentGate, webhookGate, bodyPaymentGate, kycSubjectGate, chained.
MockVerdict(q) ==
    LET u == authenticate(q.cred)
        mine == q.pay = None \/ Party(u, q.pay) \/ u.role \in SUPERVISORY \cup {"originator"}
        about == q.subject = u.id
    IN  CASE q.op \in UNLISTED -> 404
          [] q.op \in WEBHOOK_PATHS /\ q.signed -> 200
          [] u = Anonymous -> 401
          [] u.key /\ q.op \notin Reads \cup {"backfill"} -> 403
          [] q.op \in OwnerOps /\ ~about /\ u.role \notin OWNER_SCOPED(q.op) -> 403
          [] q.op \in PAYMENT_SCOPED \cup WEBHOOK_PATHS \cup BODY_PAYMENT_PATHS /\ ~mine -> 403
          [] q.op \in KYC_BODY_SUBJECT /\ q.subject # None /\ ~about
                 /\ u.role \notin SUPERVISORY \cup {"registrar"} -> 403
          [] OTHER -> 200
=============================================================================
