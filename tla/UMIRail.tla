------------------------------ MODULE UMIRail ------------------------------
(***************************************************************************)
(* The settlement rail (umi.go) and its durable mirror (umi_store.go).     *)
(*                                                                         *)
(* Money moves in memory under r.mu; what follows (counters, block,        *)
(* database writes) runs after the unlock.  A request is therefore one     *)
(* atomic step under the lock and a list `todo` of later steps, between    *)
(* which other requests, failed writes and crashes may come.               *)
(*                                                                         *)
(* A wallet or position nobody has touched is a zero balance at revision 0 *)
(* (an upsert of any revision passes its guard).  The chain is the list of *)
(* the blocks requests append, durable here: what can be lost of it is the *)
(* subject of LedgerChain.                                                 *)
(***************************************************************************)
EXTENDS Naturals, Sequences, FiniteSetsExt

CONSTANTS
    Participants, Assets,
    Clients,        \* requests being served at the same time
    Seeded,         \* participants seeded with a holding of every asset
    Holding,        \* tokens of that holding
    MaxCash,        \* bound: paise in one funding, trade or distribution
    MaxTokens,      \* bound: tokens in one trade
    MaxTokenDays,   \* bound: weight of a holder on the time-weighted basis
    MaxOps,         \* bound: requests
    MaxFaults,      \* bound: failed or ambiguous database writes
    MaxCrashes,     \* bound: process crashes
    MaxBlindBoots,  \* bound: boots whose snapshot could not be read
    WithDryRuns,    \* are requests that only ask (dryRun) among those sent
    Nobody          \* the parties of a refused instruction are left out

VARIABLES
    up,             \* the process runs
    balance,        \* r.wallets[p].BalancePaise
    funded,         \* r.fundedPaise
    pos,            \* r.securities: tokens by asset and holder
    isins,          \* r.isins
    instructions,   \* r.instructions
    servicing,      \* r.servicing, oldest first
    rev,            \* r.rev
    persistFailures,\* r.persistFailures
    chain,          \* ids of the requests whose block was appended, by height
    db,             \* the umi_* tables
    job,            \* each client's request: what is left to do, and its locals
    ops, faults, crashes, blindBoots

\* what the code needs of the constants; somebody takes part, and the bounds are numbers
RailConstants ==
    /\ IsFiniteSet(Participants) /\ Participants # {} /\ IsFiniteSet(Assets)
    /\ Seeded \subseteq Participants
    /\ Holding \in Nat \ {0} /\ MaxCash \in Nat /\ MaxTokens \in Nat /\ MaxTokenDays \in Nat

memory == <<balance, funded, pos, isins, instructions, servicing, rev, persistFailures>>
vars == <<up, balance, funded, pos, isins, instructions, servicing, rev, persistFailures,
          chain, db, job, ops, faults, crashes, blindBoots>>
-----------------------------------------------------------------------------
(* Rows, mutations, requests *)

WalletRow   == [who : Participants, bal : Nat, rev : Nat]
PositionRow == [asset : Assets, who : Participants, tokens : Nat, rev : Nat]
Parties     == Participants \cup {Nobody}
Instruction == [id : Nat, asset : Assets, seller : Parties, buyer : Parties,
                status : {"SETTLED", "FAILED"}, rev : Nat, block : Nat]
Payout      == [run : Nat, holder : Participants, rev : Nat, block : Nat]
Mutation    == [wallets : SUBSET WalletRow, positions : SUBSET PositionRow,
                isins : SUBSET Assets, instructions : SUBSET Instruction,
                servicing : SUBSET Payout, funded : Nat]
EmptyMutation == [wallets |-> {}, positions |-> {}, isins |-> {}, instructions |-> {},
                  servicing |-> {}, funded |-> 0]

Steps == {"pay", "write", "counters", "block", "backfill"}
Distribution == [payer : Participants, gross : Nat, weights : [Participants -> Nat]]
Job == [todo : Seq(Steps), id : Nat, m : Mutation, si : SUBSET Instruction,
        pay : SUBSET Distribution, recs : Seq(Payout), commits : BOOLEAN]
Idle == [todo |-> <<>>, id |-> 0, m |-> EmptyMutation, si |-> {}, pay |-> {}, recs |-> <<>>,
         commits |-> FALSE]

Request == [asset : Assets, seller : Participants, buyer : Participants,
            tokens : 1..MaxTokens, cash : 1..MaxCash,
            dryRun : IF WithDryRuns THEN BOOLEAN ELSE {FALSE}, autoAssign : BOOLEAN]

Total(f) == MapThenSumSet(LAMBDA x : f[x], DOMAIN f)

\* a client begins a request: the id stands for nextID's
Begin(c) ==
    /\ up /\ job[c].todo = <<>> /\ ops < MaxOps
    /\ ops' = ops + 1

\* what the client's request does next
Comes(c, step) == up /\ job[c].todo # <<>> /\ Head(job[c].todo) = step
-----------------------------------------------------------------------------
(* What each request does under r.mu *)

\* FundWallet: the wallet, the counters and the block are written separately.
FundWallet(c, p, paise) ==
    /\ Begin(c)
    /\ balance' = [balance EXCEPT ![p] = @ + paise]
    /\ funded' = funded + paise
    /\ rev' = rev + 1
    /\ job' = [job EXCEPT ![c] = [Idle EXCEPT
           !.todo = <<"write", "counters", "write", "block">>, !.id = ops',
           !.m.wallets = {[who |-> p, bal |-> balance[p] + paise, rev |-> rev + 1]}]]
    /\ UNCHANGED <<up, pos, isins, instructions, servicing, persistFailures, chain, db,
                   faults, crashes, blindBoots>>

AssignISIN(c, a) ==
    /\ Begin(c)
    /\ isins' = isins \cup {a}
    /\ job' = [job EXCEPT ![c] =
           IF a \in isins THEN Idle
           ELSE [Idle EXCEPT !.todo = <<"write", "block">>, !.id = ops', !.m.isins = {a}]]
    /\ UNCHANGED <<up, balance, funded, pos, instructions, servicing, rev, persistFailures,
                   chain, db, faults, crashes, blindBoots>>

\* refused before the register is looked at
RefusedEarly(q) == q.seller = q.buyer

\* the register, and the asset added to it when the request says so
Unregistered(q) == q.asset \notin isins /\ ~q.autoAssign
Registered(q) == IF RefusedEarly(q) \/ Unregistered(q) THEN isins ELSE isins \cup {q.asset}

\* (mutant: the buyer's cash is not looked at)
Short_TokensOnly(q) == pos[q.asset][q.seller] < q.tokens

Short(q) == pos[q.asset][q.seller] < q.tokens \/ balance[q.buyer] < q.cash

Settles(q) == ~RefusedEarly(q) /\ ~Unregistered(q) /\ ~Short(q)

\* (mutant: the seller's tokens are not taken away)
Moved_Copied(q) == [pos EXCEPT ![q.asset][q.buyer] = @ + q.tokens]

Moved(q) == [pos EXCEPT ![q.asset][q.seller] = @ - q.tokens, ![q.asset][q.buyer] = @ + q.tokens]

Paid(q) == [balance EXCEPT ![q.buyer] = @ - q.cash, ![q.seller] = @ + q.cash]

InstructionOf(q, status, r) ==
    [id |-> ops + 1, asset |-> q.asset, status |-> status, rev |-> r, block |-> 0,
     seller |-> IF status = "FAILED" THEN Nobody ELSE q.seller,
     buyer |-> IF status = "FAILED" THEN Nobody ELSE q.buyer]

\* (mutant: the securities leg is left to a later write)
Legs_CashOnly(q) ==
    [EmptyMutation EXCEPT
        !.wallets = {[who |-> q.buyer, bal |-> Paid(q)[q.buyer], rev |-> rev + 1],
                     [who |-> q.seller, bal |-> Paid(q)[q.seller], rev |-> rev + 2]},
        !.isins = Registered(q) \ isins]

\* the rows of one settlement, stamped in this order
Legs(q) ==
    [EmptyMutation EXCEPT
        !.wallets = {[who |-> q.buyer, bal |-> Paid(q)[q.buyer], rev |-> rev + 1],
                     [who |-> q.seller, bal |-> Paid(q)[q.seller], rev |-> rev + 2]},
        !.positions = {[asset |-> q.asset, who |-> q.seller, rev |-> rev + 3,
                        tokens |-> Moved(q)[q.asset][q.seller]],
                       [asset |-> q.asset, who |-> q.buyer, rev |-> rev + 4,
                        tokens |-> Moved(q)[q.asset][q.buyer]]},
        !.isins = Registered(q) \ isins]

\* (mutant: the answer is sent before the block and the write)
AfterSettling_AnswerFirst == <<"counters", "block">>

AfterSettling == <<"counters", "block", "write">>

SettleDvP(c, q) ==
    /\ Begin(c)
    /\ ~q.dryRun /\ Settles(q)
    /\ pos' = Moved(q)
    /\ balance' = Paid(q)
    /\ isins' = Registered(q)
    /\ rev' = rev + 5
    /\ LET si == InstructionOf(q, "SETTLED", rev + 5) IN
       /\ instructions' = instructions \cup {si}
       /\ job' = [job EXCEPT ![c] = [Idle EXCEPT !.todo = AfterSettling, !.id = ops',
                                     !.m = Legs(q), !.si = {si}, !.commits = TRUE]]
    /\ UNCHANGED <<up, funded, servicing, persistFailures, chain, db, faults, crashes, blindBoots>>

\* SettleDvP's fail(): nothing moves, the refusal is recorded and anchored.
RefuseDvP(c, q) ==
    /\ Begin(c)
    /\ ~q.dryRun /\ ~Settles(q)
    /\ isins' = Registered(q)
    /\ rev' = rev + 1
    /\ LET si == InstructionOf(q, "FAILED", rev + 1) IN
       /\ instructions' = instructions \cup {si}
       /\ job' = [job EXCEPT ![c] = [Idle EXCEPT
              !.todo = <<"write", "counters", "write", "block", "write">>, !.id = ops',
              !.m.isins = Registered(q) \ isins, !.si = {si}]]
    /\ UNCHANGED <<up, balance, funded, pos, servicing, persistFailures, chain, db,
                   faults, crashes, blindBoots>>

\* A dry run registers the asset whatever the answer, and writes the register
\* only when the answer is yes.
DryRunDvP(c, q) ==
    /\ Begin(c)
    /\ q.dryRun
    /\ isins' = Registered(q)
    /\ IF Settles(q)
       THEN /\ job' = [job EXCEPT ![c] = [Idle EXCEPT !.todo = <<"write">>, !.id = ops',
                                          !.m.isins = Registered(q) \ isins]]
            /\ UNCHANGED rev
       ELSE rev' = rev + 1 /\ UNCHANGED job
    /\ UNCHANGED <<up, balance, funded, pos, instructions, servicing, persistFailures, chain,
                   db, faults, crashes, blindBoots>>
-----------------------------------------------------------------------------
(* ServicingByBasis: the register is read before the lock is taken *)

Holders(a, payer) == {h \in Participants \ {payer} : pos[a][h] > 0}

\* snapshot basis: the tokens held; time-weighted: token-days of the same holders
\* (which fall back to the snapshot when they are all zero)
WeightsOf(a, payer) ==
    LET H == Holders(a, payer)
        held == [p \in Participants |-> IF p \in H THEN pos[a][p] ELSE 0]
        days == {w \in [Participants -> 0..MaxTokenDays] :
                    Total(w) > 0 /\ \A p \in Participants \ H : w[p] = 0}
    IN {held} \cup days

ReadRegister(c, a, payer, gross) ==
    /\ Begin(c)
    /\ Holders(a, payer) # {}
    /\ \E w \in WeightsOf(a, payer) :
        job' = [job EXCEPT ![c] = [Idle EXCEPT !.todo = <<"pay">>, !.id = ops',
                    !.pay = {[payer |-> payer, gross |-> gross, weights |-> w]}]]
    /\ UNCHANGED <<up, memory, chain, db, faults, crashes, blindBoots>>

Share(d, h) == (d.gross * d.weights[h]) \div Total(d.weights)

Payees(d) == {h \in Participants : Share(d, h) > 0}

\* (mutant: the payer is debited the whole amount, dust included)
Debit_Gross(d) == d.gross

Debit(d) == Total([h \in Payees(d) |-> Share(d, h)])

AfterPaying(d) ==
    [p \in Participants |->
        IF p = d.payer THEN balance[p] - Debit(d) ELSE balance[p] + Share(d, p)]

IsListing(s, S) == {s[i] : i \in DOMAIN s} = S /\ Len(s) = Cardinality(S)

\* r.mu is taken: the payer is checked now, the split was fixed before.
PayOut(c) ==
    /\ Comes(c, "pay")
    /\ \E d \in job[c].pay :
        IF balance[d.payer] < d.gross
        THEN job' = [job EXCEPT ![c] = Idle] /\ UNCHANGED <<balance, rev, servicing>>
        ELSE /\ balance' = AfterPaying(d)
             /\ \E names \in [1..Cardinality(Payees(d)) -> Payees(d)] :
                LET n == Len(names)
                    row(p, r) == [who |-> p, bal |-> AfterPaying(d)[p], rev |-> r]
                    recs == [i \in 1..n |-> [run |-> job[c].id, holder |-> names[i],
                                             rev |-> rev + 1 + n + i, block |-> 0]]
                IN /\ IsListing(names, Payees(d))
                   /\ rev' = rev + 1 + 2 * n
                   /\ servicing' = servicing \o recs
                   /\ job' = [job EXCEPT ![c] = [Idle EXCEPT
                          !.todo = <<"counters", "block", "backfill", "write">>, !.id = job[c].id,
                          !.m.wallets = {row(d.payer, rev + 1)}
                              \cup {row(names[i], rev + 1 + i) : i \in 1..n},
                          !.recs = recs, !.commits = TRUE]]
    /\ UNCHANGED <<up, funded, pos, isins, instructions, persistFailures, chain, db,
                   ops, faults, crashes, blindBoots>>
-----------------------------------------------------------------------------
(* What each request does after the unlock *)

Done(j) == [j EXCEPT !.todo = Tail(j.todo)]

\* metaCounters and pMeta read the totals as they are now
Counters(c) ==
    /\ Comes(c, "counters")
    /\ job' = [job EXCEPT ![c] = [Done(@) EXCEPT !.m.funded = funded]]
    /\ UNCHANGED <<up, memory, chain, db, ops, faults, crashes, blindBoots>>

At(height, x) == [x EXCEPT !.block = height]

\* (mutant: the rows are taken before the anchor is filled in)
Anchored_Before(j, height) ==
    [j EXCEPT !.si = {At(height, si) : si \in j.si},
              !.recs = [i \in DOMAIN j.recs |-> At(height, j.recs[i])],
              !.m.instructions = j.si,
              !.m.servicing = {j.recs[i] : i \in DOMAIN j.recs}]

\* the rows that name their block, filled in once it is known
Anchored(j, height) ==
    [j EXCEPT !.si = {At(height, si) : si \in j.si},
              !.m.instructions = {At(height, si) : si \in j.si},
              !.recs = [i \in DOMAIN j.recs |-> At(height, j.recs[i])],
              !.m.servicing = {At(height, j.recs[i]) : i \in DOMAIN j.recs}]

AppendBlock(c) ==
    LET j == job[c]
        height == Len(chain) + 1
    IN /\ Comes(c, "block")
       /\ chain' = Append(chain, j.id)
       /\ instructions' = (instructions \ j.si) \cup {At(height, si) : si \in j.si}
       /\ job' = [job EXCEPT ![c] = Done(Anchored(j, height))]
       /\ UNCHANGED <<up, balance, funded, pos, isins, servicing, rev, persistFailures, db, ops,
                      faults, crashes, blindBoots>>

\* The lock is taken again: the run's payouts are taken to be the last ones.
BackFill(c) ==
    LET j == job[c]
        first == Len(servicing) - Len(j.recs) + 1
    IN /\ Comes(c, "backfill")
       /\ servicing' = [i \in DOMAIN servicing |->
              IF i >= first THEN At(j.recs[1].block, servicing[i]) ELSE servicing[i]]
       /\ job' = [job EXCEPT ![c] = Done(j)]
       /\ UNCHANGED <<up, balance, funded, pos, isins, instructions, rev, persistFailures, chain,
                      db, ops, faults, crashes, blindBoots>>

\* (mutant: the last write to arrive wins)
Newer_LastWins(row, stored) == TRUE

\* WHERE umi_wallet.rev < EXCLUDED.rev
Newer(row, stored) == stored.rev < row.rev

\* UMIStore.Apply: every row of the mutation, or none
Apply(d, m) ==
    [wallet |-> [p \in Participants |->
        LET rows == {w \in m.wallets : w.who = p /\ Newer(w, d.wallet[p])} IN
        IF rows = {} THEN d.wallet[p] ELSE CHOOSE w \in rows : TRUE],
     position |-> [a \in Assets |-> [p \in Participants |->
        LET rows == {t \in m.positions :
                        t.asset = a /\ t.who = p /\ Newer(t, d.position[a][p])} IN
        IF rows = {} THEN d.position[a][p] ELSE CHOOSE t \in rows : TRUE]],
     isins |-> d.isins \cup m.isins,
     instructions |-> d.instructions \cup m.instructions,
     servicing |-> d.servicing \cup m.servicing,
     funded |-> IF m.funded > d.funded THEN m.funded ELSE d.funded]

\* One transaction.  Only commit counts a failure; the Save helpers drop it.
Write(c, outcome) ==
    LET j == job[c] IN
    /\ Comes(c, "write")
    /\ IF outcome = "ok" THEN UNCHANGED faults ELSE faults < MaxFaults /\ faults' = faults + 1
    /\ db' = IF outcome = "failed" THEN db ELSE Apply(db, j.m)
    /\ persistFailures' =
           persistFailures + (IF outcome # "ok" /\ j.commits THEN 1 ELSE 0)
    /\ job' = [job EXCEPT ![c] =
           IF Len(j.todo) = 1 THEN Idle ELSE [Done(j) EXCEPT !.m = EmptyMutation]]
    /\ UNCHANGED <<up, balance, funded, pos, isins, instructions, servicing, rev, chain, ops,
                   crashes, blindBoots>>
-----------------------------------------------------------------------------
(* Crash and boot *)

\* a process that has read nothing from its store
Empty ==
    /\ balance' = [p \in Participants |-> 0] /\ funded' = 0
    /\ pos' = [a \in Assets |-> [p \in Participants |-> 0]]
    /\ isins' = {} /\ instructions' = {} /\ servicing' = <<>>
    /\ rev' = 0 /\ persistFailures' = 0

Crash ==
    /\ up /\ crashes < MaxCrashes
    /\ up' = FALSE /\ crashes' = crashes + 1
    /\ Empty
    /\ job' = [c \in Clients |-> Idle]
    /\ UNCHANGED <<chain, db, ops, faults, blindBoots>>

\* (mutant: only the wallets' revisions count)
LoadedRevs_WalletsOnly == {db.wallet[p].rev : p \in Participants}

\* LoadSnapshot reads positions WHERE tokens > 0
LoadedRevs ==
    {db.wallet[p].rev : p \in Participants}
    \cup {db.position[x[1]][x[2]].rev :
              x \in {y \in Assets \X Participants : db.position[y[1]][y[2]].tokens > 0}}
    \cup {si.rev : si \in db.instructions} \cup {s.rev : s \in db.servicing}

\* WithStore: the tables become the working set
Boot ==
    /\ ~up
    /\ up' = TRUE
    /\ balance' = [p \in Participants |-> db.wallet[p].bal]
    /\ funded' = db.funded
    /\ pos' = [a \in Assets |-> [p \in Participants |-> db.position[a][p].tokens]]
    /\ isins' = db.isins
    /\ instructions' = db.instructions
    /\ \E s \in [1..Cardinality(db.servicing) -> db.servicing] :
        /\ IsListing(s, db.servicing)
        /\ \A i, k \in DOMAIN s : i < k => s[i].rev < s[k].rev
        /\ servicing' = s
    /\ rev' = CHOOSE r \in LoadedRevs : \A q \in LoadedRevs : q <= r
    /\ persistFailures' = 0
    /\ UNCHANGED <<chain, db, job, ops, faults, crashes, blindBoots>>

\* LoadSnapshot fails: the rail opens empty, the store stays attached.
BootBlind ==
    /\ ~up /\ blindBoots < MaxBlindBoots
    /\ up' = TRUE /\ blindBoots' = blindBoots + 1
    /\ Empty
    /\ UNCHANGED <<chain, db, job, ops, faults, crashes>>
-----------------------------------------------------------------------------
\* The opening positions have been seeded and their rows are written.
Init ==
    /\ up = TRUE
    /\ balance = [p \in Participants |-> 0] /\ funded = 0
    /\ pos = [a \in Assets |-> [p \in Participants |-> IF p \in Seeded THEN Holding ELSE 0]]
    /\ isins = {} /\ instructions = {} /\ servicing = <<>>
    /\ rev = 1 /\ persistFailures = 0 /\ chain = <<>>
    /\ db = [wallet |-> [p \in Participants |-> [who |-> p, bal |-> 0, rev |-> 0]],
             position |-> [a \in Assets |-> [p \in Participants |->
                 [asset |-> a, who |-> p, tokens |-> pos[a][p],
                  rev |-> IF p \in Seeded THEN 1 ELSE 0]]],
             isins |-> {}, instructions |-> {}, servicing |-> {}, funded |-> 0]
    /\ job = [c \in Clients |-> Idle]
    /\ ops = 0 /\ faults = 0 /\ crashes = 0 /\ blindBoots = 0

UnderLock(c) ==
    \/ \E p \in Participants, paise \in 1..MaxCash : FundWallet(c, p, paise)
    \/ \E a \in Assets : AssignISIN(c, a)
    \/ \E q \in Request : SettleDvP(c, q) \/ RefuseDvP(c, q) \/ DryRunDvP(c, q)
    \/ \E a \in Assets, payer \in Participants, gross \in 1..MaxCash :
           ReadRegister(c, a, payer, gross)
    \/ PayOut(c)

AfterUnlock(c) ==
    \/ Counters(c) \/ AppendBlock(c) \/ BackFill(c)
    \/ \E outcome \in {"ok", "failed", "unknown"} : Write(c, outcome)

Next ==
    \/ \E c \in Clients : UnderLock(c) \/ AfterUnlock(c)
    \/ Crash \/ Boot \/ BootBlind

Spec == Init /\ [][Next]_vars
-----------------------------------------------------------------------------
(* Properties *)

TypeOK ==
    /\ up \in BOOLEAN
    /\ balance \in [Participants -> Nat] /\ funded \in Nat
    /\ pos \in [Assets -> [Participants -> Nat]]
    /\ isins \subseteq Assets /\ instructions \subseteq Instruction
    /\ servicing \in Seq(Payout)
    /\ rev \in Nat /\ persistFailures \in Nat /\ chain \in Seq(Nat)
    /\ db \in [wallet : [Participants -> WalletRow],
               position : [Assets -> [Participants -> PositionRow]],
               isins : SUBSET Assets, instructions : SUBSET Instruction,
               servicing : SUBSET Payout, funded : Nat]
    /\ job \in [Clients -> Job]
    /\ ops \in Nat /\ faults \in Nat /\ crashes \in Nat /\ blindBoots \in Nat

\* Until a crash, no paisa is created or destroyed by fundings, trades and distributions
\* in any interleaving, dust included: the wallets hold what was funded (Reconcile).
CashConserved == crashes = 0 => Total(balance) = funded

\* Until a crash, no trade changes how many tokens of an asset exist (SettleDvP).
TokensConserved == crashes = 0 => \A a \in Assets : Total(pos[a]) = Holding * Cardinality(Seeded)

Quiet == up /\ \A c \in Clients : job[c].todo = <<>>

Mirrored ==
    /\ \A p \in Participants : db.wallet[p].bal = balance[p]
    /\ \A a \in Assets, p \in Participants : db.position[a][p].tokens = pos[a][p]
    /\ db.funded = funded
    /\ db.instructions = instructions

\* Writes may arrive in any order: once every request is answered, and no write failed
\* and no boot was blind, the tables hold what memory holds, also after a restart
\* (umi_store.go, the rev guards).
MirrorCatchesUp == Quiet /\ faults = 0 /\ blindBoots = 0 => Mirrored

\* A settled instruction the tables know has all four of its legs there, at its
\* own revision or a later one, whatever was lost (UMIStore.Apply).
StoredSettlementIsWhole ==
    \A si \in db.instructions : si.status = "SETTLED" =>
        /\ db.wallet[si.buyer].rev >= si.rev - 4
        /\ db.wallet[si.seller].rev >= si.rev - 3
        /\ db.position[si.asset][si.seller].rev >= si.rev - 2
        /\ db.position[si.asset][si.buyer].rev >= si.rev - 1

\* Revisions resume above every stored one, so that no write made after a restart
\* is dropped as stale (WithStore: "Resume above the highest persisted revision"),
\* unless a boot could not read its snapshot, which keeps the store and starts at zero.
RevAboveStore ==
    up /\ blindBoots = 0 =>
        /\ \A p \in Participants : db.wallet[p].rev <= rev
        /\ \A a \in Assets, p \in Participants : db.position[a][p].rev <= rev

\* An instruction whose request was answered, and none of whose writes failed,
\* is in the tables: a crash after the answer does not forget it.
AnsweredIsStored ==
    faults = 0 =>
        \A si \in instructions :
            \/ si \in db.instructions
            \/ \E c \in Clients : job[c].todo # <<>> /\ job[c].id = si.id

\* Every stored record names the block of its own request (ServicingByBasis: "a
\* restart can still point each payout at the block that proves it").
StoredRowsAreAnchored ==
    /\ \A si \in db.instructions : si.block \in DOMAIN chain /\ chain[si.block] = si.id
    /\ \A s \in db.servicing : s.block \in DOMAIN chain /\ chain[s.block] = s.run

\* Reconcile: what the wallets hold is what was funded, restarts included ("settlement
\* engine created or destroyed central bank money. This must never happen"), which is
\* checked and does not hold.
Conserved == up => Total(balance) = funded
=============================================================================
