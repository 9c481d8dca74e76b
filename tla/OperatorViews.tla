--------------------------- MODULE OperatorViews ---------------------------
(***************************************************************************)
(* The views an operator or the public is given of the whole system: the   *)
(* operations queue, the insights report with its verdicts, the deployment *)
(* status and the page that says what is live.  Each is put together from  *)
(* the server's own books and from answers of the settlement rail awaited  *)
(* at different moments, any of which may be refused, late or lost while   *)
(* the books and the rail go on.                                           *)
(***************************************************************************)
EXTENDS Integers, FiniteSetsExt

CONSTANTS
    Instructions,        \* failed instructions the rail may list
    Buyer, Shortfall,    \* of each
    MaxChanges           \* bound on what happens while a view is made
VARIABLES
    site,                \* the server: "api" or "mock", is the rail configured, is PayU
    books,               \* its own: stuck payments, drafts, blocks tampered with, tokens sold
    umi,                 \* the rail
    view,                \* the request: what it is, what it has read, its answer
    witnessed, changes   \* all books and rails since it began; bound

opsVars == <<site, books, umi, view, witnessed, changes>>

Issued == 10000
Unread == [how |-> "unread"]
Lost == [how |-> "lost"]
Refused == [how |-> "refused"]
Said(x) == [how |-> "read", is |-> x]
Known(g) == g.how = "read"
\* What each view asks the rail for; the parts are awaited together.
Parts == [ops |-> {"instructions"}, status |-> {"health", "reconciliation"}, trust |-> {"interop"},
          insights |-> {"reconciliation", "instructions", "chain"}]
Views == DOMAIN Parts
NoView == [of |-> "none"]

\* The site, the books and the rail as they may be found.
Books == [stuck : BOOLEAN, drafts : 0..1, tampered : BOOLEAN, sold : {9000, 10000, 10004, 10100}]
Rail == [up : BOOLEAN, closed : BOOLEAN, failed : SUBSET Instructions, chain : {"valid", "broken"}, conserved : BOOLEAN,
         capped : BOOLEAN, evm : {"configured", "not"}]
ViewInit ==
    /\ site \in [kind : {"api", "mock"}, rail : BOOLEAN, payu : BOOLEAN]
    /\ books = [stuck |-> FALSE, drafts |-> 0, tampered |-> FALSE, sold |-> 9000]
    /\ umi = [up |-> TRUE, closed |-> FALSE, failed |-> Instructions, chain |-> "valid", conserved |-> TRUE, capped |-> TRUE, evm |-> "not"]
    /\ view = NoView /\ witnessed = {} /\ changes = 0
-----------------------------------------------------------------------------
\* The mock sends no identity with its reads: a rail that is closed to
\* strangers refuses them.
Read(r, part) ==
    IF r.closed /\ site.kind = "mock" /\ part # "health" THEN Refused
    ELSE CASE part = "instructions" -> Said(r.failed)
           [] part = "health" -> Said("healthy")
           [] part = "interop" -> Said(r.evm)
           [] part = "reconciliation" -> Said([conserved |-> r.conserved, capped |-> r.capped, chain |-> r.chain])
           [] part = "chain" -> Said(r.chain)

\* The queues are made before the rail is asked.
Ask(v) ==
    /\ view = NoView
    /\ view' = [of |-> v, stuck |-> books.stuck, drafts |-> books.drafts, got |-> [p \in Parts[v] |-> Unread], answer |-> NoView]
    /\ witnessed' = {<<books, umi>>} /\ UNCHANGED <<site, books, umi, changes>>
Part(p, said) == view' = [view EXCEPT !.got[p] = said] /\ UNCHANGED <<site, books, umi, witnessed, changes>>
Waiting == view # NoView /\ view.answer = NoView
RailAnswers == Waiting /\ site.rail /\ umi.up /\ \E p \in DOMAIN view.got : view.got[p] = Unread /\ Part(p, Read(umi, p))
\* Unreachable, or aborted by its timer.
RailIsLost == Waiting /\ \E p \in DOMAIN view.got : view.got[p] = Unread /\ Part(p, Lost)
-----------------------------------------------------------------------------
\* Failed for want of cash, by buyer: how many, and the largest gap.
recoverable(failed) ==
    {[buyer |-> b, instructions |-> Cardinality({i \in failed : Buyer[i] = b}),
      largest |-> FoldSet(LAMBDA i, m : IF Shortfall[i] > m THEN Shortfall[i] ELSE m, 0, {i \in failed : Buyer[i] = b})] :
        b \in {Buyer[i] : i \in failed}}
ops(got) ==
    [of |-> "ops", stuck |-> view.stuck, drafts |-> view.drafts, blocksValid |-> ~books.tampered,
     reachable |-> got.instructions # Lost,
     failed |-> IF Known(got.instructions) THEN Cardinality(got.instructions.is) ELSE 0,
     recoverable |-> IF Known(got.instructions) THEN recoverable(got.instructions.is) ELSE {}]

ledgerValid_OrAbsent(got) == IF Known(got.reconciliation) THEN got.reconciliation.is.chain ELSE "valid" \* (mutant: fine unless it says otherwise)
ledgerValid(got) == IF Known(got.reconciliation) THEN got.reconciliation.is.chain ELSE "unknown"
railDeploymentStatus(got) ==
    [of |-> "status", reachable |-> \E p \in DOMAIN got : Known(got[p]), ledger |-> ledgerValid(got)]

evmKnown_Not(got) == IF Known(got.interop) THEN got.interop.is ELSE "not" \* (mutant: no answer is no connector)
evmKnown(got) == IF Known(got.interop) THEN got.interop.is ELSE "unknown"
integrationStatus(got) == [of |-> "trust", evm |-> evmKnown(got), payments |-> IF site.payu THEN "live" ELSE "simulated"]

\* Percent with one decimal, in tenths: 1000 is all of the tokens.
pctAllocated == (1000 * books.sold + Issued \div 2) \div Issued
\* One part lost leaves the report without the rail; a part refused, without
\* that part.  A check whose part is missing is not on the list, but for the
\* reconciliation, without which the report does not say all is well.
Gathered(got) == \A p \in DOMAIN got : got[p] # Lost
integrityChecks(got) ==
    /\ Gathered(got) /\ Known(got.reconciliation)
    /\ got.reconciliation.is.conserved /\ got.reconciliation.is.capped
    /\ Known(got.chain) => got.chain.is = "valid"
    /\ pctAllocated <= 1000
buildInsights(got) == [of |-> "insights", available |-> Gathered(got) /\ Known(got.reconciliation), allHold |-> integrityChecks(got),
                       chainRead |-> Gathered(got) /\ Known(got.chain)]

Show ==
    /\ Waiting /\ \A p \in DOMAIN view.got : view.got[p] # Unread
    /\ view' = [view EXCEPT !.answer = CASE view.of = "ops" -> ops(view.got) [] view.of = "status" -> railDeploymentStatus(view.got)
                                         [] view.of = "trust" -> integrationStatus(view.got) [] view.of = "insights" -> buildInsights(view.got)]
    /\ UNCHANGED <<site, books, umi, witnessed, changes>>
Close == view # NoView /\ ~Waiting /\ view' = NoView /\ witnessed' = {} /\ UNCHANGED <<site, books, umi, changes>>

\* Meanwhile: another request changes the books, or the rail moves on.
Meanwhile ==
    /\ changes < MaxChanges /\ changes' = changes + 1
    /\ \/ \E b \in Books : books' = b /\ UNCHANGED umi
       \/ \E r \in Rail : umi' = r /\ UNCHANGED books
    /\ witnessed' = IF Waiting THEN witnessed \cup {<<books', umi'>>} ELSE witnessed
    /\ UNCHANGED <<site, view>>

ViewNext == (\E v \in Views : Ask(v)) \/ RailAnswers \/ RailIsLost \/ Show \/ Close \/ Meanwhile
-----------------------------------------------------------------------------
\* Whatever happens while it is made, each thing a view says was so at some
\* moment since it was asked for; a rail that did not answer is unknown,
\* never fine and never absent; and "All invariants hold" is said only of a
\* rail that reported money and supply conserved and, if the chain could be
\* read, valid, with no property sold beyond its tokens by more than the
\* rounding of the percentage.
ViewsAreTrue ==
    LET a == view.answer
        Was(P(_, _)) == \E w \in witnessed : P(w[1], w[2])
        Heard(p) == Known(view.got[p])
    IN  ~Waiting /\ view # NoView =>
        CASE a.of = "ops" ->
                /\ Was(LAMBDA b, r : b.stuck = a.stuck /\ b.drafts = a.drafts)
                /\ Was(LAMBDA b, r : a.blocksValid = ~b.tampered)
                /\ a.reachable => site.rail /\ Was(LAMBDA b, r : r.up)
                /\ Heard("instructions") => Was(LAMBDA b, r : a.failed = Cardinality(r.failed) /\ a.recoverable = recoverable(r.failed))
          [] a.of = "status" ->
                /\ a.reachable => site.rail /\ Was(LAMBDA b, r : r.up)
                /\ a.ledger # "unknown" => Heard("reconciliation") /\ Was(LAMBDA b, r : a.ledger = r.chain)
          [] a.of = "trust" ->
                /\ a.evm # "unknown" => Heard("interop") /\ Was(LAMBDA b, r : a.evm = r.evm)
                /\ a.payments = "live" => site.payu
          [] a.of = "insights" ->
                a.allHold => /\ Was(LAMBDA b, r : r.up /\ r.conserved /\ r.capped)
                             /\ a.chainRead => Was(LAMBDA b, r : r.chain = "valid")
                             /\ Was(LAMBDA b, r : b.sold <= Issued + Issued \div 2000)
=============================================================================
