# AasthiChain: a TLA+ verification project

AasthiChain tokenises property and other assets, settles them against central bank
money and keeps a hash-linked block ledger of what happened. Three programs hold the
logic: the Go gateway `src/drunix-gateway` (ledger, settlement rail, desks), the
serverless API `src/frontend/api` (payments, listings, accounts, on many instances) and
its single-process twin `src/mock-api-server.js`; a React application talks to the last
two. This project models them as TLA+ state machines, checks those with TLC on small
instances, and proves with TLAPS, for every instance, properties of the Go ledger and desk,
of all that a trade goes through (keys, settlement rail, supply, offer book), of the API's
payments and market, of accounts and signing keys, of the purchase dialog and of the
single-process server.

Modules, configurations and proofs are in this directory. `PROJECT.json` lists the runs,
the source lines of every definition, the hazards and the theorems. To repeat a check:

    tlc -workers 2 -config LedgerChain.cfg LedgerChain.tla
    tlapm EdgePayments_proofs.tla

1. [Inventory](#1-inventory)
2. [Plan](#2-plan)
3. [The modules and the code](#3-the-modules-and-the-code)
4. [Runs](#4-runs)
5. [Where the code and its documents disagree](#5-where-the-code-and-its-documents-disagree)
6. [Proofs](#6-proofs)
7. [What is not modelled](#7-what-is-not-modelled)

## 1. Inventory

### The Go gateway

One gateway process serves HTTP requests on many goroutines. Each component is a Go
struct with a mutex of its own; Postgres holds the durable copy. At boot `main.go`
opens the store, then the chain, attaches the rail to its tables, seeds positions, makes
the desks, and restores from the chain what has no table. The hard behaviours come from
three places: a handler holds a lock, lets go of it, and continues on what it has read;
memory moves first and tables later, row by row, by writes that may fail, or succeed
although the caller sees an error; a restart rebuilds memory from tables and blocks that
were written at other moments.

| Component | State | Operations | Hard behaviours | What makes it correct |
|---|---|---|---|---|
| **Block ledger** `chain.go`, `chain_store.go` | blocks, retry queue, sealed flag; table `umi_block` | Append, flush, boot with replay, seal, RecoverTruncate | failed and ambiguous writes, crash between write and retry, edited history, repair in two locked halves | nothing committed is lost, the queue is ordered, an appending chain replays, history is not rewritten |
| **Outbox, relay, durability gate** `outbox*.go`, `events.go`, `umi_server.go` | table `umi_outbox`, subscribers | rows written with the block, claim, deliver, mark; refuse requests while a block waits | commit fails after the consumer was called; outage while requests are in flight | row iff block, at least once, eventual delivery |
| **Settlement rail** `umi.go`, `umi_store.go` | wallets, positions, ISIN register, instructions, servicing, revision; tables `umi_*` | FundWallet, AssignISIN, SettleDvP, dry run, servicing on two bases, restart | writes after the unlock in any order, half-failed requests | money and tokens conserved, tables catch up, stored settlements whole, records anchored |
| **Supply cap** `umi.go`, `assetclass.go` | authorised, derived, retired; position book | SeedPosition, RestateSupply, RetireCredits | read under one lock, write under another | seeds within the cap, a declared cap final, retirement exact and durable |
| **Condition desk** `conditional.go` | conditions, reservations | Open, Present, Cancel, expire, Tick | status checked, lock dropped, money moved; timer against callers | reservations backed, released means moved, records true, nothing stranded |
| **Idempotency** `idempotency*.go` | map and table of keys | Begin, Complete, Release, expiry, boot | retries racing each other, the table failing, dying in flight | one settlement, one answer, own answer |
| **Offer book** `marketplace.go`, `chainstate.go` | offers; three kinds of block | CreateOffer, CancelOffer, TakeOffer, RestoreOffers | units held while settlement runs unlocked; restart | never oversold, status follows units, blocks rebuild the book |
| Netting, work orders, mandates, custody, baskets, CBDC ledger, corridors, cards, oracle, registers, pipeline, anchors | see `PROJECT.json` | | | not modelled, section 7 |

### The two JavaScript servers

`frontend/api/index.js` is one handler that any number of warm instances run. An
instance keeps module variables and a `/tmp` file; the instances share a database, which
is Postgres, a key-value store, or a GitHub repository written through its contents API.
Every request loads first and most save afterwards, whole, with awaits in between.
`mock-api-server.js` is one Express process with everything in memory: its handlers only
interleave where they await the rail or a payment provider, and a restart loses all.

| Component | State | Hard behaviours | What makes it correct |
|---|---|---|---|
| **Payments** (collect, UPI answer, PayU callback and reconcile, webhook, settle, release, refund) | a copy of every payment in each memory, each file and the shared bundle; the rail's keys | stale copies merged by time stamp; whole-bundle writes; bodies taken at their word, copies of payments among them; lost answers of the rail | no confirmed copy nobody vouched for, nothing an instance wrote down is forgotten, the rail delivers once and never what nobody vouched for |
| **Market** (register, validate, mint, transfer, freeze, withdraw, pledge, swap) | listings, holdings, loans, swaps, their rows | rows saved one by one, by several instances, and unawaited, so that they may land late | answered writes are found again but for what a late write undoes, transfers reach the rows, pledged tokens stay |
| **Single-process server** | all of that in one memory, and a chain of its own | awaits in settle; restart and healing from clients | holdings add up and are told by the chain, settled stays settled, pledges and halts hold |
| **Accounts** (sessions, organisations, invitations, codes; signing keys) | rows or per-instance maps; cached keys | every query an await; rotation while a fetch is out | members were asked in, a code works once, guesses are rationed, a new key is found |
| **Who may read what** | gate tables of both servers | two implementations of one rule | people see what is theirs |
| **KYC, rent, votes, histories, fraud rules, PayU bridge, escrow, verification report, operator views, proxies and diagnostics, traffic, assistant, GitHub store** | one store each | overlapping requests, outside answers late or lost | see the runs |

### The web application

| Component | Hard behaviours | What makes it correct |
|---|---|---|
| **Purchase dialog** `SimpleBuyFlow.jsx` | polls that overlap, a page left for PayU and resumed, answers lost while the server acted | tokens move once, the words on the screen are so, the dialog ends |
| **Request memo** `lib/api.js` | reads in flight across a write | memory is not older than its fifteen seconds |
| **Session of a tab** | a late answer after a role switch or sign-out | the tab is who it says it is |
| **Live pages, listing screens, wallet page** | event stream, polls and memo in any order; remembered figures over the server's | pages follow the rail and show what was asked for |

## 2. Plan

The order is that of the damage a failure does: what everything else is recorded in,
what moves money, what decides whether it moves, then who is told.

| Step | Modules | State |
|---|---|---|
| 1 | `LedgerChain` | checked; seven theorems |
| 2 | `UMIRail`, `SupplyCap`, `OfferBook` | checked; four theorems, which state every property the run checks of them |
| 3 | `ConditionDesk` | checked; four theorems |
| 4 | `Idempotency` | checked; two theorems |
| 5 | `EdgePayments` with the abstract `PurchasePromise` | checked; three theorems, one of them the refinement |
| 6 | `MockServer` against the same `PurchasePromise`, `EdgeMarket` | checked; four theorems about `MockServer`, one of them the refinement, three about `EdgeMarket` |
| 7 | `BuyFlow` and the other parts of the browser | checked; a theorem about `BuyFlow` |
| 8 | `Accounts`, `SigningKeys`, `Gates`, `Reception` and the services | checked; two theorems, about `Accounts` and `SigningKeys` |
| 9 | `GithubStore` | a violated claim |
| 10 | proofs about the pages of the browser and the services | open |
| 11 | custody, netting, work orders, mandates, the payment gateway, the CBDC ledger and corridors, the transaction pipeline | open |

Composition: `UMIRail` takes blocks to be durable and `LedgerChain` says how far they
are; `OfferBook` takes both for granted; `ConditionDesk` and `SupplyCap` look inside the
rail's lock where `UMIRail` treats it as one step. `EdgePayments`, `MockServer` and
`BuyFlow` each see the rail as a set of idempotency keys, which is what `Idempotency`
shows it to be. Composing them in one state space is out of TLC's reach; each therefore
names what it takes from the others.

## 3. The modules and the code

Every module states one component, its bounds as CONSTANTS (each named in the
declaration's comment) and its assumptions as a named ASSUME. `MC*.tla` gives TLC
symmetry and model values, a `.cfg` an instance, `*_proofs.tla` theorems. Definitions
named `X_Something`, marked `(mutant: ...)`, are wrong versions of the definition `X`
below them: exchanging one for the other must break a property of a run, which shows the
property depends on that line of code.

### The Go gateway

**LedgerChain.** `blocks`, `pending`, `sealed` are the fields of Chain; `disk` and
`outbox` the rows; `told` what consumers have seen; `repair` is RecoverTruncate between
its halves, `wedged` the mutex left locked by a panic, `misrepaired` (history) a repair
that cut at another index than the broken block's. `Append` holds `c.mu` for its whole
body, database calls included, so `AppendBlock` is one action: flush the queue until the
first failure, then try the new block whatever the flush did, then queue it or not. A
database call succeeds, fails, or succeeds while the caller sees an error. What
interleaves is requests between gate (`Admit`) and append (`Record`), appends of routes
without a gate, the halves of a repair, the relay, crash and boot, and edits of stored
rows (`Tamper`). A hash is a fresh number.

**UMIRail.** Money moves in memory under `r.mu`; counters, block and writes follow after
the unlock. A request is one atomic step and a list `todo` of later ones, and everything
else may come between: `FundWallet`, `AssignISIN`, `SettleDvP`, `RefuseDvP`, `DryRunDvP`,
`ReadRegister` then `PayOut`, and after the unlock `Counters`, `AppendBlock`, `BackFill`,
`Write`, which is one transaction with the revision guard of every row. `Crash`, `Boot`
and `BootBlind` (LoadSnapshot failed, the store stays attached) end and begin a process.

**SupplyCap.** The position book has its own lock, so `SeedPosition`, `RestateSupply` and
`RetireCredits` read it in one step and write it in another, while `r.mu` is taken in
between; settlement's leg holds `r.mu` across both. `Boot` rebuilds the cap.

**ConditionDesk.** The desk's lock and the rail's are never held together, so each locked
section is a step: `Open`, `Reserve`, `Register`; `Present`, `Verify`, `Settle` or
`SettleRefused`, `Consume`, `Release`; `Cancel`, `Unreserve`, `Close`; `Tick`, `Expire`.
`SettleDvP` stands for the rest of the rail, `Elapse` for a deadline. `crossed` and
`lapsed` (history) are conditions two calls were on at once, and conditions whose
delivery failed. The desk keeps nothing durable.

**Idempotency.** `Request`, `Claim` (INSERT ... ON CONFLICT DO NOTHING), `Get`, `Mirror`,
`Memory` are the parts of Begin; `Run` and `Refuse` the handler; `Complete`, `Record`,
`Release`, `Drop` the end; `ClaimFails` the fallback to memory, with or without the row
having been written. The body is its fingerprint; as in the code, the caller's identity
is not part of it.

**OfferBook.** A listing reads the position, then takes the book's lock; a take holds
units, settles without the lock, then fills or restores (`Take`, `SettleDvP`, `Fill`,
`Restore`). `Trade` moves tokens outside the book; `Restart` replays the blocks with
`ProjectOffers`, a fold over the chain as in chainstate.go.

### The JavaScript servers

**EdgePayments.** `mem[i]` is what an instance's module variables hold of payments,
purses and balances, `file[i]` its `/tmp` file, `store` the shared bundle and rows. An
instance runs one request at a time: `Begin` loads exactly as initState does (rows, the
file over them, the bundle merged payment by payment by `Stamp`), a handler changes
memory and saves as its code does, and `job[i].todo` holds the awaited steps that are
left: `Persist`, `SaveAll`, `settleConfirmedPayment`, `commitSettlementToRail`. Other
instances run in between. Many handlers take a body at its word, and the model lets them:
`Callback` sets whatever status it names, `Webhook` any the transition table lets through
and SUCCESS at once, and `Healed`, the payment that settle, approve and reattach work on,
is the instance's own copy or else any of `BodyCopies` (a CONFIRMED one that nobody ever
paid among them); `TransferReceipt` is a transfer that stores the receipts it is shown.
The rail answers, refuses, answers to nobody, or is out of reach. History: `vouched` are
the payments somebody vouched for (the provider was paid, the mock bank debited, an
operator played the webhook, or a body said CONFIRMED or RELEASED), `moved` what settle
moved. That a body is enough is the code's; what is checked is that nothing else confirms.

**PurchasePromise** is the abstract specification of a purchase: asked for,
vouched for, delivered by the rail at most once and never before somebody vouched.
`EdgePayments` implements it with `asked <- issued, deliveries <- rail.dvps` and `vouched`
itself, `MockServer` alike.

**EdgeMarket.** Loading prefers the instance's own file to the rows. `saveAllPersisted`
writes the file at once; its row writes, which nobody waits for, take effect, are lost
when the instance is frozen after its answer, or stay `underway`: such a write reaches its
row later or never (`Lands`), and then puts what it wrote into the instance's file and
memory over whatever they hold by then (`Returns`, as saveProperty and saveBalance of
db_real.js do after their query). Transfers, registrations and withdrawals
then await their rows one by one (`Continue`), other instances running in between. A
transfer's `asked` and `on` differ where the code falls back to the fixed listing for an
unknown id. History: `left` is what an instance's last answered write left, `owed` what a
transfer owes to the rows.

**MockServer.** A handler is one action unless it awaits: `asking` are payments being
reconciled, `posting` those whose settlement is at the rail. `Restart` loses memory and
what clients then send heals it: `kept` are the payments they keep, and reattach stores
these or any other of `Bodies`. A webhook confirms a PENDING payment on its word alone,
and a transfer takes the receipts and the listing it is shown. `told` is what a replay of
the blocks gives.

**Accounts** gives every query of a handler a step (`Arrive`, then the steps of its kind,
then `Return`), in database mode and in memory mode; `MockAccounts` is the same surface
in one process. **SigningKeys** is clerkjwt.mjs. **Gates** is pure operators, the tables
of both servers over operations; **Reception** puts one request to both servers and says
what comes back; `UNLISTED` are the two payment routes that are in no table.
**KycDesk**, **HolderServices**, **Screening** (a payment counts for its payer and for
whoever its handle is named after; a `Callback` tells a payment's status unscreened),
**PaymentBridges** (PayU, with what this side does to the same payment meanwhile, `by`
being who decided last, and the testnet escrows with a next-state relation of their
own), **Verification** (a report reads the validator, waits for the documents, and reads
the validator again; with the pincode check, which has a next-state relation of its own),
**OperatorViews**, **FrontDoor** (handler and diagnostics; proxies and event
stream with a relation of their own), **Traffic**, **Assistant** are one service each;
what is awaited is a step boundary. **GithubStore** is github_db.js: `op[i]` is a save
between reading the file, asking for its sha and the PUT, with its two retries.

### The web application

**BuyFlow** has the component's state (`screen`, `shown`, the hand-off in localStorage),
two slots for its asynchronous functions, each with at most one request out, and the
server's rows. `Execute` runs a request at the server, `GoesOn` hands its answer to the
function that waits; a request may be given up on and still execute. **ApiClient**,
**WebSession**, **LivePages** and **CachedScreens** are the memo, the tab's identity, the
two pages that follow the chain, and the screens that merge the server's answers with what
the browser remembers (catalogue, listing page; the wallet, with a relation of its own).

## 4. Runs

Components that share no state are checked in one run: the MC module picks a `topic` at
the start and runs that component only. Variables of the same name serve the components
that have one, in `MCServices` and `MCScreens` registers `v1`, `v2`, ... do
(`INSTANCE ... WITH mem <- v1, ...`); what a topic does not use stays constant. That is
the sum of the components' state spaces, not their product, and a property of the run says
of each topic what its module states. `...Narrow` in an MC module names what a topic leaves out.

Requests, faults and crashes are bounded, so a model stops when its budget is spent;
`CHECK_DEADLOCK FALSE` in every configuration is for that. None of these programs has a
state where it must stop.

| Run | Instance | Shows |
|---|---|---|
| `ledger` | 2 requests, heights 0..2, 3 blocks, 4 database faults, a crash, an edited row | `NothingLost`: a running process has every block it committed in storage or in the queue. `PendingInOrder`. `OutboxIffBlock`: rows and blocks come and go together. `UnsealedReplays`: a chain that accepts blocks verifies. `StoredNeverRewritten`: only the part after a break is ever removed |
| `ledger_live` | 1 request, 2 faults, a crash, an edited row | `EventuallyDelivered` under the relay's fairness |
| `desk` | 2 callers and the timer, 2 conditions of 1 or 2 tokens, 4 calls | `ReservedWithinBalance`, `ReleasedHasMoved`, `RecordIsTrue`, and `NothingStranded` under fairness |
| `settlement` | topics keys (2 keys, 2 bodies, 2 clients, 4 requests, a fault, a crash, an expiry), rail (3 participants, 3 requests, a fault, a crash, a blind boot), supply (3 calls, a crash), offers (2 offers, 3 requests, a trade, a restart) | `KeysDecide`: a key settles once, with one answer, its own. `NothingMadeOrLost`, `TablesCatchUp`: conservation until a crash, whole and anchored stored settlements, revisions above the stored ones. `SupplyIsKept`. `OffersAreTrue` |
| `edge_payments` | 2 instances, 1 payment, 4 requests (2 of a payer who can afford nothing, 3 once a body brought a payment or put it in a status no other handler would), an instance recycled; bodies PENDING, RELEASED, or CONFIRMED with and without a stamp | `PaymentsAreSound`: no copy confirmed and no token moved that nobody vouched for. `NeverForgets`. `RailKeepsThePromise` |
| `edge_market` | 2 instances, a seeded listing, a second, one to register, 3 requests, a recycle; of what the first request changes, one row write may stay under way, during which nobody is recycled or swaps and no third request begins | `WritesAreSound`: what an instance answered it finds again, unless an earlier write of the same row was still under way. `TransfersReachTheRows`. `PledgesHold` |
| `mock` | a seeded listing and a draft, 2 people, a loan, a swap, a payment, 5 requests, a restart | `HoldingsAreTold`, `SettledStaysSettled`, `PledgesAndHaltsHold`, `ServerKeepsThePromise` |
| `buyflow` | one purchase with every trouble, or two at a time; 2 polls, 2 errors | `MovedOnce`: tokens move at most once for a payment no answer of which was lost. `WordsAreTrue`: success and error screens say what happened. `BusyEnds` under fairness |
| `services` | 18 topics: report, gates, kyc, rent, votes, history, fraud, diagnostics, proxy, operators, orgs, codes, payu (this side decides the payment at most twice), pincode, escrow, visits, sightings, assistant | `ReportsCanBeTrusted`, `RecordsAreTheirs`, `HoldersAreServed`, `PaymentsAreScreened`, `FailuresAreFound`: for each topic the property of its module |
| `screens` | 9 topics: sessions, orgs, codes (2 instances, 2 overlapping requests, 4 in all, a failed query, with and without a database), keys, memo, tab, live, listings, wallet | `MembersWereAskedIn`: a member founded the organisation or was invited as he joined. `CredentialsAreGood`. `PagesAreFresh`. `PeopleAreRight` |
| `buyflow_money` | as `buyflow` | `MoneyIsReversed` is violated, section 5 |
| `github_shared` | 2 instances, 2 files of 2 records, 3 saves | `WrittenIsShared` is violated, section 5 |

**Why the bounds are enough to be interesting.** A height gap needs two queued blocks and
a third that gets through: three blocks and three faults, with one to spare for the relay.
Lost updates need two requests in flight, and a third to see them. A revision that resumes
too low needs a write, a crash and another write. A double release needs two calls on one
condition; a reservation eaten by another needs a second condition of the same buyer and
unequal amounts. Overselling needs two takes and a listing. A payment that settles twice
in the API needs two instances, a stale copy and four requests: collect, confirm, and a
settle on each. A row written over in the market needs two instances of which one has
loaded before the other saved. A freeze that a late write undoes needs a write of the
first request under way while the second is answered. A save lost in the GitHub store
needs one instance between its read and its sha. A resumed purchase that meets another
needs two slots. Every action and every disjunct of every module fires in the runs. They
are bounds all the same: what needs three concurrent requests on one object, two crashes,
or two assets is seen by the proofs where there are any, and otherwise by none.

**Fairness.** `ledger_live`: the relay's ticker goroutine (outbox_relay.go, Start) runs
for the life of the process and retries without limit, so delivery of a row that stays
undelivered is weakly fair, including that a consumer accepts and the marking commits in
the end. No request, crash or repair is fair. `desk`: `Tick` is weakly fair because
main.go runs it every minute, and each caller's next step because a handler that began is
a running goroutine. Nobody is obliged to begin a call and no deadline is obliged to pass.
`buyflow`: a request that was sent is executed or given up on (the client's time limit),
and a function whose answer is there goes on (the event loop); no button is ever obliged
to be pressed.

**Conditioned properties.** Some properties name the circumstances they hold in (`crashes
= 0`, `~misrepaired`, `crossed`, `Decided`, `recycles' = recycles`, `lost`, `reissued`,
`offbook`, `Contested`, `told`, `by`). Each condition is there because the unconditioned
statement fails; the next section says how.

**Stated, not run.** `DeliveredWasTold` of `LedgerChain` is proved (section 6) and not
repeated by a run. `OutageIsBounded` (`LedgerChain`), `ReservedUntilLapse`
(`ConditionDesk`) hold on the instances above and are kept in their modules as further
statements. `Conserved`, `SupplyCovered`, `LegsMoveOnce`, `NoSecondSettlement`,
`WithdrawnIsClosed` and `SettledOnce` are what a document or comment says and the code
does not do; section 5 has the behaviours.

## 5. Where the code and its documents disagree

Found while modelling. Two are runs in which TLC prints the behaviour:

| Statement | What the code does |
|---|---|
| `MoneyIsReversed`: "If money was taken by the test provider it is reversed by the same flow that took it." (SimpleBuyFlow.jsx:416) | failWithRefund tests the payment its closure captured when the button was pressed, still PENDING, so refundPayment is never called. Every ordinary demo-UPI buyer gets there: POST /api/transfers takes the sender from the caller, so the buyer's first leg is a transfer to himself, refused |
| `WrittenIsShared`: "real DB shared across lambdas", "Retry on 409 conflict" (github_db.js:5, :67) | the sha is asked for after the file was read, and a retry sends the same content with the new sha: a save that lands in between is written over, with no failure at all |

The others were met with the models; most are why a property carries a condition, and
taking the condition away makes TLC find them.

### The Go gateway

| Statement | What the code does |
|---|---|
| `Conserved`: Reconcile's "This must never happen" (umi.go:1633) | wallet and funded total are two transactions (umi.go:940); a crash in between restores a rail that does not reconcile |
| `SupplyCovered`: "outstanding + retired never exceeds authorised" (docs/CARBON.md:131) | SeedPosition compares outstanding alone with the cap (umi.go:758) |
| `LegsMoveOnce`: a closed condition is refused (conditional.go) | two presentations that both read OPEN settle twice (conditional.go:352) |
| `NoSecondSettlement` (idempotency.go:20) | a lost claim whose row is then released goes on without a row (idempotency.go:147) |
| `WithdrawnIsClosed` (marketplace.go:29) | a fill writes FILLED over CANCELLED, and a failed take turns FILLED into OPEN (marketplace.go:315) |
| blocks are stored in order | Append writes its own block even when the flush before it failed (chain.go:229); a crash then leaves a height gap, and the next boot seals the chain |
| a live subscriber sees what is stored | it is told of a block whose write failed (chain.go:250); after a crash that height belongs to another block |
| a repair leaves a chain that replays | the broken block's height is used as an index (chain.go:337): with a gap it cuts at another place, or panics with `c.mu` held |
| the retry queue drains | only an append flushes it; FlushPending is called by a test alone (chain.go:289), and the strict gate refuses the appends of money routes |
| a settlement is stored whole or not at all | a later mutation writes whole balances: it may store half of a settlement whose own write failed |
| tables and memory agree when no failure is reported | only `commit` counts a failed write; the helpers that save one wallet or one position drop the error |
| each payout points at its block | the in-memory history back-fills the last n records, which may be another payment's (umi.go:1498); stored rows are right |
| a restart resumes above the stored revision | unless LoadSnapshot fails: the store stays attached and the revision starts at zero (umi.go:526) |
| a dry run changes nothing | it registers the ISIN in memory, and a refused one takes a revision (umi.go:1155) |
| no seed exceeds the cap | two overlapping seeds do (umi.go:758) |
| retired tokens stay retired; a restated cap is kept | RetireCredits writes no position row and RestateSupply no cap: after a restart the tokens are back and the cap is inferred from positions |
| an open condition is reserved | a failed delivery lifts the reservation and leaves the condition OPEN (conditional.go:500) |
| a closed condition's record is what happened | a cancellation overtaken by a release reads REFUNDED after the legs moved; Tick can expire a condition that is settling |
| an idempotent retry gets an answer | a process that dies in flight leaves a row that refuses retries for 24 hours |
| the book never sells a token twice | a crash between settlement and UMI_OFFER_TAKEN lists sold units again; a listing during a take counts units that are leaving |

### Payments of the serverless API (index.js) and PayU

| Statement | What the code does |
|---|---|
| `SettledOnce`: settleConfirmedPayment "is idempotent" (index.js:746, :2910) | per instance only: two instances that each hold the payment CONFIRMED both move the tokens. The rail still delivers once, which is the property that is checked and proved |
| "Only allow forward transitions" (index.js ~3386) | the table lacks RELEASED, so a late SUCCESS webhook makes it CONFIRMED again and it settles again |
| a confirmation seen is not forgotten | the bundle is written whole. With three instances: one collects and persists, another approves and persists, the first loads CONFIRMED, a third writes its older bundle over the store, the first loads again and forgets. So `NeverForgets` speaks of what an instance's own file once held |
| declined, timed out, expired on reading | memory only, and undone by the next load; timeout has no status guard |
| one payment, one outcome | a refund on one instance races a stale CONFIRMED on another; POST /api/npci/callback sets any status; FAILED_AMOUNT_MISMATCH has no status guard |
| "No money was taken" (index.js ~1370, mock ~2315) | a payment declined here while the payer is at PayU stays DECLINED after PayU's success, and the page says so |
| a genuine callback is accepted | the body is read for three seconds; a slow one is refused with 403 |

| a purchase settles after its money | a body's word is enough: POST /api/npci/callback sets any status (index.js:3244); a webhook of the payer or payee needs no signature and its SUCCESS is taken as it comes (:2095, :3377; mock :3060); settle, approve and reattach store the copy of an unknown payment that the body brings, whatever its status (:2982, :3022, :3047; mock :2786). Such a payment is CONFIRMED and delivered with no money behind it. So the checked properties say `vouched` where one would like to say paid |
| a payment made over PayU is confirmed by PayU | approve has no check of the provider (index.js:3042): a PayU payment can be approved here, and webhook, callback, refund and timeout decide it as well; hence `by` |

### Market of the serverless API, and the single-process server

| Statement | What the code does |
|---|---|
| an answered write stays | saveAllPersisted waits for no row (index.js:142). A write that is still under way when a later request is answered can put the old listing or holding back, in the row and then in the instance's file and memory (db_real.js:376, :482): an answered freeze is gone. A transfer that waited for its receipt's row goes on with what it had looked up, though a late write has closed the listing meanwhile |
| a receipt names what was bought | a transfer of what its sender does not hold takes the receipts in the body at their word, tokens and payments of them, and creates the listing the body describes (mock :1416, :1466); only the listing's headroom bounds them |
| instances share the rows | one with a `/tmp` file never sees another's writes; row-by-row writes of two instances mix, and holdings may then exceed the supply |
| a transfer names its listing | an unknown id falls back to the fixed listing, and pledges are looked up under the id that was named |
| a withdrawal is saved | it awaits the listing's row only; Mint overwrites the owner's balance and saves after awaiting the rail; pledges, swaps, votes, rent and the chain are in memory only; GET of a listing calls saveProperty with one argument; the catalogue is never seeded in database modes |
| "Only a Regulator or Registrar can lift a freeze." (mock ~1380) | Mint on a FROZEN listing answers 409 and still sets TOKENIZED and the total |
| "Loan-locked tokens cannot be sold or swapped." (~3259) | settling a payment moves pledged tokens, also of frozen or withdrawn listings; DELETE buys holders out with no block and looks at no pledge |
| a deed is registered once | two concurrent registrations both pass; a collect is accepted on a frozen listing |
| saves of the GitHub store | a failed read is an empty file, and the next save wipes the other records; a cached copy up to 30 s old is the base; a failed save stays in the cached object and is published by the next; failures are answered true; without a token saves go nowhere |

### Accounts, who reads what, services

| Subject | What the code does |
|---|---|
| accounts with a database | two overlapping accepts or verifies both succeed and make two member rows; misses are counted per instance; two concurrent key creations make two keys; a failed query after the organisation's row leaves it without an owner; upsertProjectConfig is an unguarded read-modify-write |
| sign-out | another instance's session remains in memory mode; the mock removes the row but its bearer stays accepted; a key set fetched before a rotation refuses a good token once |
| "both servers agree on who may read what" (index.js ~1897) | a signed callback that carries the operator's key is refused by the API and accepted by the mock; the mock ignores the key on public reads; a registrar sees drafts in the API's catalogue only; an unreadable bearer shows holders' names on the mock and passes as anonymous on the API; a DRAFT listing's page is public on both; anonymous operations are 403 here and 401 there; the mock forwards unproven identity headers to the rail |
| KYC | PUT is in memory only and undone by a file load ("a real decision recorded ... stays what it is" ~1722); the DigiLocker state is not checked when missing or on another instance, and never consumed; one failed anchor empties the evidence list |
| testnet escrow | opening replaces an existing id, confirm and release have no status guard, an unknown id reads the first payment |
| routes without credentials | POST /api/npci/callback and /api/npci/payments/:id/timeout are in no table of requiresAuth (index.js:3244, :3156) and write payments for anybody; `NothingForStrangers` names them |
| verification report | the validator is read before the documents are asked for and again after (index.js:5501, :5520; mock :1123, :1145): a validation in between yields a failed "independence" of a listing whose validator was never its owner; a rail that answers null gives no warning: "Every verification check passed"; insights drop a refused chain check silently |
| fraud rules | payments by others from a handle named like the payer count as the payer's (index.js:1497) and fill the ten recent amounts; a callback makes a payment CONFIRMED unscreened; recentINR looks at the oldest ten where fraud.go says newest first; the mock counts a missing KYC record as verified; the NEW_ACCOUNT rule is absent; an approval that heals a payment stores it unscreened when it is not PENDING |
| votes and rent | tokens that move after a vote can vote again; the paid-out rent may be a paisa low |
| diagnostics, operators | a handler that throws is recorded twice; answers by `.end()` are not recorded; a refused read of the instructions shows a reachable rail with none |
| traffic | a page view counts in both stores when a later query fails; unique visitors can exceed views; a sighting across midnight moves the last day back |
| assistant | a failed read of the rail is told as "No settlement instruction exists"; a panel with over 12 messages is refused for good; the mock's rate limit trusts X-Forwarded-For |
| proxies | the API relays documents as text and scrubs URLs in them, so bytes no longer match their CID; it has no timeout, and the mock clears its own once headers arrive; the event stream registers its close handler after an awaited fetch |

### The web application

| Subject | What the code does |
|---|---|
| memo "Any write empties the memo" (api.js ~75) | a GET in flight across a write fills it again with older data; an older read's end deletes a newer read's entry; the key is the path only |
| session | a late /api/auth/me after sign-out restores the session; UserButton's sign-out leaves aasthi_user; a role switch before the answer is overwritten |
| live pages | a block event within fifteen seconds is answered from the memo; a reload that overtakes loadOlder leaves a gap; "Chain replayed from genesis" is said on a failed load; a late bell answer shows the previous identity's notifications |
| listing screens, wallet | a late answer of an earlier filter overwrites; the failure path ignores the filter and shows a made-up listing; a removed listing is painted back; a transfer's refresh puts the previous person's wallet on the page; recordBuy counts twice |
| purchase dialog | a lost answer moves tokens twice, or says none moved when they did; a resume may take a confirmed payment of another listing; after ten failed polls "Checking your PayU payment..." stays; Decline pressed with Approve shows "No money was taken." over a purchase that completed; the time limit is cleared once headers arrive |

## 6. Proofs

Every theorem is proved from the assumptions named in its module (`ChainBounds`,
`ChainNulls`; `DeskConstants`; `IdemConstants`; `RailConstants`, `CapConstants` and
`BookConstants`, which `MCSettlement` assumes of its constants; `EdgePaymentsConstants`;
`MockServerConstants`; `EdgeMarketConstants`; `AccountsConstants` and `GatesConstants`;
`BuyFlowAssumption`; `SigningKeys` needs none): bounds are natural numbers, the sets a maximum,
a sum or a count is taken over are finite, null values differ from real ones. So they hold for every number of instances, clients, payments, blocks, faults and
crashes.

| Theorem | States |
|---|---|
| `Gateway_proofs!TypeCorrect` | `Spec => []TypeOK` |
| `Gateway_proofs!DeliveryIsTold` | `Spec => []DeliveredWasTold` |
| `Gateway_proofs!QueueInOrder` | `Spec => []PendingInOrder` |
| `Gateway_proofs!BlocksSurvive` | `Spec => []NothingLost` |
| `Gateway_proofs!OutboxMatchesLedger` | `Spec => []OutboxIffBlock` |
| `Gateway_proofs!OpenChainReplays` | `Spec => []UnsealedReplays` |
| `Gateway_proofs!StorageIsAppendOnly` | `Spec => StoredNeverRewritten` |
| `Gateway_proofs!DeskTypesHold` | `DeskSpec => []DeskTypeOK`: no balance goes negative |
| `Gateway_proofs!ReservationsAreBacked` | `DeskSpec => []ReservedWithinBalance` |
| `Gateway_proofs!ReleasesAreReal` | `DeskSpec => []ReleasedHasMoved` |
| `Gateway_proofs!RecordsAreTrue` | `DeskSpec => []RecordIsTrue` |
| `Settlement_proofs!TypeCorrect` | `Spec => []TypeOK` |
| `Settlement_proofs!KeysAreDecided` | `Spec => []KeysDecide` |
| `Settlement_proofs!NothingIsMadeOrLost` | `MCSpec => []NothingMadeOrLost`: types, money and tokens of the rail |
| `TokenBooks_proofs!TablesDoCatchUp` | `MCSpec => []TablesCatchUp`: five properties of the rail's tables, types and stored positions of the supply |
| `TokenBooks_proofs!SupplyStaysKept` | `MCSpec => SupplyIsKept`: what every step does to the supply |
| `TokenBooks_proofs!OffersStayTrue` | `MCSpec => []OffersAreTrue`: types and four properties of the offer book |
| `EdgePayments_proofs!PaymentsStaySound` | `Spec => []PaymentsAreSound` |
| `EdgePayments_proofs!CopiesAreKept` | `Spec => NeverForgets` |
| `EdgePayments_proofs!PromiseIsKept` | `Spec => Promise!Spec`: the payments of the API implement `PurchasePromise` |
| `MockServer_proofs!PaymentsStaySettled` | `Spec => []SettledStaysSettled` |
| `MockServer_proofs!PurchasesAreKept` | `Spec => ServerKeepsThePromise`: the single-process server implements `PurchasePromise` |
| `MockServer_proofs!HoldingsAreCounted` | `Spec => []HoldingsAreTold`, type correctness included |
| `MockServer_proofs!HaltsAndPledgesHold` | `Spec => PledgesAndHaltsHold` |
| `EdgeMarket_proofs!AnsweredWritesAreFound` | `Spec => []WritesAreSound`, type correctness included |
| `EdgeMarket_proofs!AnsweredTransfersAreInTheRows` | `Spec => []TransfersReachTheRows` |
| `EdgeMarket_proofs!PledgesStay` | `Spec => PledgesHold` |
| `EdgeMarket_proofs!TokensMoveOnce` | `FlowSpec => []MovedOnce` |
| `Accounts_proofs!MembersAreAskedIn` | `Spec => []MembersWereAskedIn` |
| `Accounts_proofs!CredentialsStayGood` | `MCSpec => []CredentialsAreGood`: types, single use and rationed guesses of the accounts, and the signing keys |

**LedgerChain.** `DeliveryIsTold` is inductive with `TypeOK`: an append never touches an
existing row and adds undelivered ones, a repair only removes, `told` only grows.
`StorageIsAppendOnly` follows from `TypeOK` and the shape of the inserts, for misaligned
repairs too. The others need `IInv`, which is `TypeOK /\ QueueOrdered /\ DiskByHeight /\
HashesMinted /\ (~misrepaired => Aligned)`. The last conjunct has its condition because
the code cuts its slice at a height: once a repair has cut at an index that was not the
broken block's, the process and its tables differ. `Aligned` adds what makes the
properties inductive:

- `Contiguous`: in a chain that takes blocks, heights are positions. A new block takes
  `len(c.Blocks)` as its height, so without this it could fall on a stored one and
  `ON CONFLICT DO NOTHING` would drop it silently.
- `Covered` and `Linked`: the process knows every stored block, and a hash names one
  block. Together they say that the row at a height is the block of that height.
- `KeptStored` and `Ascending`: the prefix a repair keeps of a sealed chain is already
  stored, and the slice's prefix and the rows below the broken height are the same
  blocks. Hence a repair, which clears the retry queue, drops nothing it keeps.
- `HashesMinted`: the hash of the next block is new.

Replay and repair need one induction, that links alone fix the heights of a prefix that
replays (`ReplayedPrefix`; `verifyLocked` never compares heights). It is done by a least
counterexample (`LeastOfSet`), from the library's fact that `<` is well founded.

**ConditionDesk.** `DeskInv` is `DeskTypeOK /\ ReservedWithinBalance /\ ReleasedHasMoved /\
SettledCallHasMoved`. The four need each other: a settlement keeps reservations within
balances only because the clamp lifts at least what the payment takes away or leaves
nothing reserved, and because DvPs look at what is not reserved; a status of RELEASED is
written from a call's local memory, so the invariant has to say what that memory knows.
`RecordsAreTrue` adds `RecordInv`: a condition no two calls ever met on is `Attended`,
which is that at most one call is on it; if one is, legs and status fit the place it has
reached (`DeskFits`), and if none is, the record is true. A step on another condition leaves
both alone; a second call arriving puts the condition in `crossed`.

**Idempotency.** `KeyInv`, for each key that one store decides alone: at most one call
holds the key, the record is its own and stays unfinished while it runs (`OneHolder`);
money has moved only if the holder has its result (`Moved`); an answer is out only if
there is no holder, and all answers are the record's (`Answered`). As a record never goes
away while a call is on the key, no later call can hold it.

**Settlement rail.** `Spec` above is that of the keys alone; the other theorems of
`Settlement_proofs`, and those of `TokenBooks_proofs`, are about `MCSpec`, whose
behaviours are each about one of the four parts, so each part has its invariant,
conditional on the topic. `MoneyInv` makes conservation inductive: `ServicingByBasis`
fixes every holder's share before it takes `r.mu`, so what a request carries has to be
said, namely that its weights leave the payer out and are not all zero. The shares then do
not exceed what is paid out, whatever rounding does (`SharesTotal`, from `FiniteSums`),
and what they add up to is what the payer gives. The tables need `RailInv`. The steps a
request has left form one of fifteen lists (`Plans`), and the list says what the request
still has in hand: instructions before their block exists, rows that no write has taken
yet (`JobsInv`). Two requests may write the rows of one wallet in the wrong order, so the
invariant is about all rows of a wallet, the stored one and those in hand: the newest says
what memory says (`MirrorInv`), and the guard on `rev` keeps an older one from replacing
it. `RevInv` bounds revisions by the process's; `StoredInv` says that what is stored has
its legs and names its block. A boot that read the tables finds no request under way, so
the stored rows are the newest; a blind one, or a failed write, ends the claim, as it does
in the code.

**Supply.** The same argument about the position book (`SupplyInv`): the newest row of a
holder says what the book says, unless a call has changed the tokens and has not stamped
its row yet (`Caught`, `Unstamped`), or retirements have taken tokens, which the code
writes as a block and not as a row. While calls come one at a time, what a seed was told of
the cap and of the others' tokens is still so when it writes (`StillTrue`): that is the
part of `SupplyStep` which the two locks put at risk.

**Offer book.** `BookInv`, offer by offer. The units of an offer are left in it, held by a
take, or settled (`Counted`, a sum over clients), so none is settled twice before a
restart. `Told`, the fold over the blocks, is what a restart would make of the book;
`Agreed` says that while requests come one at a time an offer is what is told of it, but
for the units the one take under way holds, and that its status is as before the take: a
withdrawal may come in between and changes both. `CoveredAll` adds those units to what a
seller's open offers need. An identifier is given out in the book and in the blocks at once
(`GivenOut`), which is why counting goes on where it was after a restart. The fold is taken
over a sequence of any length without induction over an operator: `ProjectOffers` unfolds
to a function on sets of positions (`ProjectIsReplay`), one more block is one more
application of `Replay` (`ReplayedNext`), and that a block leaves what the earlier ones told
alone is another smallest counterexample (`ReplaysAgree`).

**EdgePayments.** The invariant says of every copy of a payment, in a memory, a file or
the bundle (`SoundCopy`), that there is none before the payment was created and that none
is confirmed or released before somebody vouched for it; of an instance, that its memory
is not behind its own file (`Ahead`) and that a step at the rail is left only of a request
whose payments were vouched for (`SoundJob`); of the rail, that it delivered a payment
once if it knows its key, else never (`SoundRail`). Every clause but the rail's is about
one instance, so a step is examined at the instance that takes it (`OneInstance`); that is
also what makes any number of instances no harder than one. `Ahead` is where the time
stamps matter: `Now` is later than every copy left (`NowIsLater`, from the finiteness of
`Instances`), a merge never returns an older copy than its first argument, and a copy a
body brings is taken only where there is none. What is taken from a body is created and,
if it says so, vouched for in the same step (`TakenGrows`, `WordGrows`), after which it is
a copy like any other: the argument never looks at where a copy came from. `Inductive`
proves with the invariant that a step which recycles no instance moves no copy behind its
file, which is `NeverForgets`. For the refinement, `Collect`, the provider's report, and
every body that is taken are `Hear` or a stutter, `commitSettlementToRail` is `Deliver` of
those of its payments the rail has no key of, or a stutter, and nothing else touches what
the promise is about.

**MockServer.** Two invariants, because payments and listings meet in few steps. `PayInv`
is to the payments what `SoundCopy` is to the API's: of the payments in memory and of
those that clients keep, none before it was asked for and none confirmed or released
before somebody vouched; what is being posted to the rail was vouched for; the rail
delivered once what it has the key of; and what has moved is closed (`SoundMoves`), which
with the guard of settleConfirmedPayment gives `PaymentsStaySettled`. `MarketInv` says
listing by listing (`SoundListing`) that the holdings add up to what was made and, unless
the listing was issued a second time, stay within its supply, and that the blocks tell
them, unless it was healed or bought out. It is not inductive without `Unissued`: a draft,
also one that was frozen as a draft, has no holdings yet. Without it, minting, which
writes the owner's balance, could replace tokens that others hold. Each handler then has a
lemma of its own (`SpendSound`, `AcceptSound`, `HealedSound`, ...) for the listings it
writes, and `OneListing` says that the others stay. `HaltsAndPledgesHold` takes from these
lemmas that whoever loses tokens in a step outside payments keeps what
`drunixLockedTokens` counts.

`SumOf` folds over the domain of a balance record, which grows and shrinks as people come
and go. `BookSum` extends a record by zeros to all of `People`, and the laws (`SplitTotal`,
`SameTotal`, `TotalType`, `WiderTotal`) are about `Total(f, T)`, the sum of `f` over any
finite set `T`. They are in `FiniteSums`, and proved without induction over an operator:
take a smallest finite set that breaks the law (`SmallestSet`, from the library's fact that
strict inclusion is well founded on the subsets of a finite set), remove one element, and
the law of the smaller set gives the contradiction.

**EdgeMarket.** `IInv` has three parts. `Types` is needed in full (`HeadroomIsNat`,
`LockedIsNat`): what the sender of a transfer is taken to hold may be computed from the
supply, so that no holding goes negative depends on sums of holdings and pledges being
numbers. `Sound` follows one instance: what its last answered write left (`left`) is in
its file, hence in its memory once that is loaded; while a transfer waits for its rows,
its memory has all of `left`, so the row writes change nothing in the file that was
promised; while it is between its two writes, the sender's holding is in memory; and its
row writes under way say nothing else than `left` (`Agree`), which is why `left` leaves
out what an older one contradicts (`Contested`). `Fits` follows one owed holding: the
amount is still in the memory of the instance that owes it, which has no write of another
amount under way, and in the row once that instance is past writing it, so it is in the
row when the answer makes it due. Row writes by others end the debt or do not touch it
(`StillFits`), so a step is examined at the instance that takes it (`OneInstance`). The
handlers come down to a few shapes (`AnsweredKeeps`, `StartedKeeps`, `SavedKeeps`,
`BalanceSavedKeeps`, ...), and the branches of a transfer to `Moves`. A late write is two
steps of its own: it changes a row that nobody is owed anything else of (`LandsKeeps`),
and what it then puts into file and memory is what `left` has of it, if anything
(`PutHolds`, `ReturnsKeeps`).

**Purchase dialog.** `MovedInv`, for any number of payments and of functions running at
once. What a function knows is said of it alone (`Fn`): what it asks goes with what it is
doing, its answer is about the payment it asked about, and nothing names a payment that
was never asked for (`Known`), so a payment begun later starts clean. The two ways of
paying need different arguments. With PayU the row tells: as long as no request of a
payment was given up on, its tokens have moved once if it is RELEASED and never otherwise,
and money that came is never taken back, so the browser's own transfer, which follows a
refused settlement, finds nothing left to move (`PayuFn`). Without it the row tells
nothing, since the browser moves the tokens before it releases the payment, and the
argument is that one function at most is about to move them (`Claims`, `Singly`): the
purchase whose answer is there, the screen that offers Approve, or the function Approve
began, each of which ends the one before. Both say nothing of payments in `lost`, of which
an answer is missing: there the tokens can move twice (section 5). A step of the page keeps
the server's rows and a request keeps the page, and one lemma for each says what the other
half may then count on (`PageGoes`, `ApplyIs`).

**Accounts.** Every query of a handler is a step, so each invariant says what a request
still knows when it goes on. `AskedInv` (members): what a request has in hand when it adds
a member is an invitation it claimed, in rows that never lose one (`Accepting`,
`Founding`, `Inviting`); no two rows of a store have a number, because requests have none
in common and a request writes one row (`Fresh`, `Numbered`). Inviting needs a member with
the right who is still there when the invitation is written: nothing removes members.
Single use is `UsedInv` with a database: a thing an answered request used up is `Spent` in
the rows and stays so, and a request in flight that is about to use something finds it
unspent at the moment of its update, which tells it so; hence the second is told
"wrong", and the requests that began later (`before`) never see it. Without a database
reading and writing are one step of the event loop, so more holds, that a code verifies
once even if requests overlap (`CodesLone`) and that an invitation admits once
(`JoinsLone`): what is deleted has no copy, and its number is not issued again
(`Unseen`). `GuessInv` counts for each address the verdicts told and the requests past
the check of the misses (`Waiting`): together at most the limit, and with a database
`Cardinality(Slots) - 1` more, since up to that many others may have passed the check
when the last miss is counted. The same count against `Trying` bounds the counters.

**SigningKeys.** A key id is never used again once retired. `Timely` says of a key set
that it is of a call's time: a key published all along is in it, and what is in it was
published at some moment of the call. The fetch a call has started, and the cache after
it, are timely for it (`CallOK`); another fetch begun later only brings a later set. A
call that found its key without asking relies on `RingOK`: an answer on its way has every
cached key that is still published, although it may have been sent before the call came.

**Only model-checked.** Everything else in section 4. Liveness (`EventuallyDelivered`,
`NothingStranded`, `BusyEnds`) is beyond the prover. Not out of reach, only not proved, are
the properties of the browser (`WordsAreTrue`, `PagesAreFresh`,
`PeopleAreRight`) and those of the services (`ReportsCanBeTrusted`, `RecordsAreTheirs`,
`HoldersAreServed`, `PaymentsAreScreened`, `FailuresAreFound`).

## 7. What is not modelled

`PROJECT.json` lists every component with the reason. Of the Go gateway: netting, work
orders, mandates beyond what a presentation needs, custody across chains, baskets, the
CBDC ledger, corridors, cards and recourse, the registers, the transaction pipeline,
anchors, analytics; and the programs around it: payment gateway, API gateway, chaincode,
contracts, agent harness, deployment. Of the web application: pages that only show what
the modelled ones are given.

In the components that are modelled, these are left out: message formats and wording
(except where a property is about the words shown), compliance checks that only refuse (a
nondeterministic refusal stands for them), row limits, statistics, views that change
nothing. Times only order stamps. Hash collisions and clock skew are assumed away; two
gateway processes on one database are not considered, as the rail keeps its working set in
memory. Outside services (PayU, DigiLocker, the identity provider, GitHub, the models
behind the assistant) are modelled by what the code sees of them: any answer it handles,
late, or none.
