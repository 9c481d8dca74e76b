---------------------------- MODULE MCSettlement ----------------------------
(***************************************************************************)
(* What a trade goes through on the Go side, for TLC and for the proofs:   *)
(* the idempotency keys, the settlement rail, the supply cap and the offer *)
(* book.  None of the four modules reads another's state, so a behaviour   *)
(* runs one of them, its topic, and variables of the same name serve for   *)
(* each in turn; those of the other parts stay NoRecord.  For TLC clients  *)
(* are alike, and so are keys, which are also the seeded participants.     *)
(***************************************************************************)
EXTENDS Idempotency, TLC

CONSTANTS
    Topics,         \* the parts a behaviour may be about
    Participants, Assets, Seeded, Holding, MaxCash, MaxTokens, MaxTokenDays, MaxOps, MaxBlindBoots, WithDryRuns,
    Nobody,         \* the rail's constants
    Owners, Operations, Owner, Opening, MaxQuantity,   \* those of the supply
    Supply, MaxOffers, MaxTrades                        \* those of the offers
VARIABLES
    topic,
    up, pos, rev, db, job, ops, chain, overlapped,      \* of more than one part
    balance, funded, isins, instructions, servicing, persistFailures, blindBoots,
    mu, authorised, derived, retired, pinned, retiredBlocks,
    offers, seq, held, sold, withdrawn, trades

Rail == INSTANCE UMIRail
Cap == INSTANCE SupplyCap WITH Holders <- Owners, MaxTokens <- MaxQuantity, call <- job
Book == INSTANCE OfferBook WITH Holders <- Owners, call <- job, requests <- ops, MaxRequests <- MaxOps

ASSUME RailIsSetUp == Rail!RailConstants
ASSUME SupplyIsSetUp == Cap!CapConstants
ASSUME OffersAreSetUp == Book!BookConstants

keys   == <<durable, mem, table, call, settled, answers, fellBack, days, requests>>
rail   == <<balance, funded, isins, instructions, servicing, persistFailures, blindBoots>>
supply == <<mu, authorised, derived, retired, pinned, retiredBlocks>>
market == <<offers, seq, held, sold, withdrawn, trades>>
shared == <<up, pos, rev, db, job, ops, chain, overlapped>>
everything == <<topic, keys, faults, crashes, rail, supply, market, shared>>

NoRail == /\ balance = NoRecord /\ funded = NoRecord /\ isins = NoRecord /\ instructions = NoRecord
          /\ servicing = NoRecord /\ persistFailures = NoRecord /\ blindBoots = NoRecord
NoSupply == /\ mu = NoRecord /\ authorised = NoRecord /\ derived = NoRecord /\ retired = NoRecord
            /\ pinned = NoRecord /\ retiredBlocks = NoRecord
NoMarket == /\ offers = NoRecord /\ seq = NoRecord /\ held = NoRecord /\ sold = NoRecord
            /\ withdrawn = NoRecord /\ trades = NoRecord
NoBook == up = NoRecord /\ pos = NoRecord /\ rev = NoRecord /\ db = NoRecord
NoRequest == job = NoRecord /\ ops = NoRecord
----------------------------------------------------------------------------
RailBegins == Rail!Init /\ NoSupply /\ NoMarket /\ overlapped = NoRecord
SupplyBegins == Cap!Init /\ NoRail /\ NoMarket /\ chain = NoRecord
MarketBegins == Book!Init /\ NoRail /\ NoSupply /\ NoBook
KeysBegin == NoRail /\ NoSupply /\ NoMarket /\ NoBook /\ NoRequest /\ chain = NoRecord /\ overlapped = NoRecord

MCInit ==
    /\ topic \in Topics
    /\ Init /\ (topic # "keys" => durable)
    /\ CASE topic = "rail" -> RailBegins
         [] topic = "supply" -> SupplyBegins
         [] topic = "offers" -> MarketBegins
         [] OTHER -> KeysBegin
MCNext ==
    /\ \/ topic = "rail" /\ Rail!Next /\ UNCHANGED <<keys, supply, market, overlapped>>
       \/ topic = "supply" /\ Cap!Next /\ UNCHANGED <<keys, faults, rail, market, chain>>
       \/ topic = "offers" /\ Book!Next /\ UNCHANGED <<keys, faults, rail, supply, up, pos, rev, db>>
       \/ topic = "keys" /\ Next /\ UNCHANGED <<rail, supply, market, shared>>
    /\ UNCHANGED topic
MCSpec == MCInit /\ [][MCNext]_everything
MCSymmetry == {f @@ g : f \in Permutations(Clients), g \in Permutations(Keys)}
----------------------------------------------------------------------------
\* Until a crash neither money nor tokens are made or lost on the rail, in any
\* interleaving of trades, fundings and distributions.  (UMIRail)
NothingMadeOrLost ==
    topic = "rail" => Rail!TypeOK /\ Rail!CashConserved /\ Rail!TokensConserved

\* The rail's tables hold settled instructions whole and anchored, catch up with its
\* memory, and forget nothing that was answered; revisions resume above the stored
\* ones; and the stored positions catch up with the book of supplies.
\* (UMIRail, SupplyCap)
TablesCatchUp ==
    /\ topic = "rail" =>
          /\ Rail!MirrorCatchesUp /\ Rail!StoredSettlementIsWhole /\ Rail!AnsweredIsStored
          /\ Rail!RevAboveStore /\ Rail!StoredRowsAreAnchored
    /\ topic = "supply" => Cap!TypeOK /\ Cap!StoreMatchesBook

\* Every step keeps the supply: no seed exceeds the cap, a declared cap is final,
\* retirement is exact and survives a restart.  (SupplyCap)
SupplyIsKept ==
    [][topic = "supply" => Cap!SupplyStep]_everything

\* Offers are never oversold, say what is left of them, are backed, and are what the
\* ledger says.  (OfferBook)
OffersAreTrue ==
    topic = "offers" =>
        Book!TypeOK /\ Book!NeverOversold /\ Book!StatusFollowsUnits /\ Book!OffersBacked /\ Book!LedgerAgrees
=============================================================================
