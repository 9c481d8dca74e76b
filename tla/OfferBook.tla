----------------------------- MODULE OfferBook -----------------------------
(***************************************************************************)
(* The secondary market (marketplace.go): offers to sell one asset, kept   *)
(* under a lock of their own, taken by buyers whose settlement runs        *)
(* outside that lock, and rebuilt at boot from the three kinds of block    *)
(* they commit (chainstate.go, ProjectOffers and RestoreOffers).           *)
(*                                                                         *)
(* A take is three steps: units are held, SettleDvP runs, the fill is      *)
(* committed or the units are restored.  SettleDvP fails on what is left   *)
(* out here (cash, authority, compliance) as it likes.  Prices are left    *)
(* out, and the positions and the committed blocks survive a crash: the    *)
(* modules UMIRail and LedgerChain say how far that is so.                 *)
(***************************************************************************)
EXTENDS Naturals, Sequences, SequencesExt, FiniteSetsExt

CONSTANTS
    Holders,
    Clients,      \* requests served at the same time
    Supply,       \* tokens each holder starts with
    MaxOffers,    \* bound: offers
    MaxRequests,  \* bound: listings and takes
    MaxTrades,    \* bound: settlements that did not come from the book
    MaxCrashes    \* bound: restarts

BookConstants ==
    /\ Holders # {} /\ IsFiniteSet(Clients) /\ Supply \in Nat /\ MaxOffers \in Nat

VARIABLES
    offers,    \* the live book: id -> offer, or NoOffer
    seq,
    held,      \* tokens of each holder
    chain,     \* the offer blocks, oldest first
    call,      \* each client's request
    sold,      \* tokens settled against each offer (history)
    withdrawn, \* offers whose seller was told they are cancelled (history)
    overlapped,\* some request began while another was in progress (history)
    requests, trades, crashes

book == <<offers, seq, chain>>
history == <<sold, withdrawn>>
reqs == <<overlapped, requests>>
budget == <<reqs, trades, crashes>>
vars == <<book, held, call, history, budget>>
-----------------------------------------------------------------------------
Ids == 1..MaxOffers
Someone == CHOOSE h \in Holders : TRUE
NoOffer == [seller |-> Someone, total |-> 0, remaining |-> 0, status |-> "NONE"]
Statuses == {"NONE", "OPEN", "FILLED", "CANCELLED"}
Listed(seller, n) == [seller |-> seller, total |-> n, remaining |-> n, status |-> "OPEN"]

Points == {"idle", "list", "settle", "fill", "restore"}
Idle == [at |-> "idle", id |-> 0, who |-> Someone, tokens |-> 0, dryRun |-> FALSE, seen |-> 0]
Begin(c, request) ==
    /\ call[c].at = "idle" /\ requests < MaxRequests
    /\ requests' = requests + 1 /\ UNCHANGED <<trades, crashes>>
    /\ overlapped' = (overlapped \/ \E b \in Clients : call[b].at # "idle")
    /\ call' = [call EXCEPT ![c] = request]
Goes(c, step) == call' = [call EXCEPT ![c].at = step]
Finish(c) == call' = [call EXCEPT ![c] = Idle]

Block(type, id, o) ==
    [type |-> type, id |-> id, seller |-> o.seller, tokens |-> o.remaining, status |-> o.status]

\* Sum over the offers of a holder that are open.
Committed(seller) ==
    MapThenSumSet(LAMBDA id : offers[id].remaining,
                  {id \in Ids : offers[id].status = "OPEN" /\ offers[id].seller = seller})
-----------------------------------------------------------------------------
(* Listing and withdrawing *)

\* CreateOffer reads the position before it takes the book's lock.
CreateOffer(c, seller, n) ==
    /\ Begin(c, [Idle EXCEPT !.at = "list", !.who = seller, !.tokens = n, !.seen = held[seller]])
    /\ UNCHANGED <<book, held, history>>

\* (mutant: the newest offer is not counted yet)
committedLocked_Behind(seller) ==
    MapThenSumSet(LAMBDA id : offers[id].remaining,
                  {id \in Ids : id # seq /\ offers[id].status = "OPEN" /\ offers[id].seller = seller})

committedLocked(seller) == Committed(seller)

Register(c) ==
    /\ call[c].at = "list"
    /\ LET r == call[c]
           o == Listed(r.who, r.tokens) IN
       IF r.seen < committedLocked(r.who) + r.tokens
       THEN UNCHANGED book
       ELSE /\ seq < MaxOffers
            /\ seq' = seq + 1
            /\ offers' = [offers EXCEPT ![seq + 1] = o]
            /\ chain' = Append(chain, Block("LISTED", seq + 1, o))
    /\ Finish(c)
    /\ UNCHANGED <<held, history, budget>>

CancelOffer(id, who) ==
    /\ offers[id].status = "OPEN" /\ offers[id].seller = who
    /\ offers' = [offers EXCEPT ![id].status = "CANCELLED"]
    /\ chain' = Append(chain, Block("CANCELLED", id, offers'[id]))
    /\ withdrawn' = withdrawn \cup {id}
    /\ UNCHANGED <<seq, held, call, sold, budget>>
-----------------------------------------------------------------------------
(* TakeOffer *)

\* (mutant: compared with what was listed, not with what is left)
Takes_Total(o, n) == n <= o.total

Takes(o, n) == n <= o.remaining

Take(c, id, buyer, n, dryRun) ==
    /\ offers[id].status = "OPEN" /\ offers[id].seller # buyer /\ Takes(offers[id], n)
    /\ Begin(c, [Idle EXCEPT !.at = "settle", !.id = id, !.who = buyer, !.tokens = n, !.dryRun = dryRun])
    /\ offers' = [offers EXCEPT ![id].remaining = @ - n]
    /\ UNCHANGED <<seq, chain, held, history>>

Moves(seller, buyer, n) ==
    /\ n <= held[seller]
    /\ held' = [held EXCEPT ![seller] = @ - n, ![buyer] = @ + n]

SettleDvP(c) ==
    /\ call[c].at = "settle"
    /\ LET r == call[c] IN
       \/ /\ ~r.dryRun /\ Moves(offers[r.id].seller, r.who, r.tokens)
          /\ sold' = [sold EXCEPT ![r.id] = @ + r.tokens]
          /\ Goes(c, "fill")
       \/ Goes(c, "restore") /\ UNCHANGED <<held, sold>>
    /\ UNCHANGED <<book, withdrawn, budget>>

\* (mutant: an offer filled and failed in the same breath stays FILLED)
Restored_Filled(o, n) == [o EXCEPT !.remaining = @ + n]

Restored(o, n) ==
    [o EXCEPT !.remaining = @ + n, !.status = IF @ = "FILLED" THEN "OPEN" ELSE @]

Restore(c) ==
    /\ call[c].at = "restore"
    /\ offers' = [offers EXCEPT ![call[c].id] = Restored(@, call[c].tokens)]
    /\ Finish(c)
    /\ UNCHANGED <<seq, chain, held, history, budget>>

Filled(o) == IF o.remaining = 0 THEN [o EXCEPT !.status = "FILLED"] ELSE o

Fill(c) ==
    /\ call[c].at = "fill"
    /\ LET id == call[c].id IN
       /\ offers' = [offers EXCEPT ![id] = Filled(@)]
       /\ chain' = Append(chain, Block("TAKEN", id, offers'[id]))
    /\ Finish(c)
    /\ UNCHANGED <<seq, held, history, budget>>
-----------------------------------------------------------------------------
(* The rest of the rail, and the restart *)

Trade(seller, buyer, n) ==
    /\ trades < MaxTrades /\ trades' = trades + 1
    /\ seller # buyer /\ Moves(seller, buyer, n)
    /\ UNCHANGED <<book, call, history, reqs, crashes>>

\* (mutant: a fill's status is not read back)
Replay_Open(b, blk) ==
    IF blk.type = "LISTED"
    THEN [b EXCEPT ![blk.id] = Listed(blk.seller, blk.tokens)]
    ELSE IF blk.type = "TAKEN"
    THEN [b EXCEPT ![blk.id].remaining = blk.tokens]
    ELSE [b EXCEPT ![blk.id].status = "CANCELLED"]

Replay(b, blk) ==
    IF blk.type = "LISTED"
    THEN [b EXCEPT ![blk.id] = Listed(blk.seller, blk.tokens)]
    ELSE IF blk.type = "TAKEN"
    THEN [b EXCEPT ![blk.id].remaining = blk.tokens, ![blk.id].status = blk.status]
    ELSE [b EXCEPT ![blk.id].status = "CANCELLED"]

ProjectOffers == FoldLeft(Replay, [id \in Ids |-> NoOffer], chain)

\* the process dies; RestoreOffers rebuilds the book, and nextID goes on above it
Restart ==
    /\ crashes < MaxCrashes /\ crashes' = crashes + 1
    /\ offers' = ProjectOffers
    /\ seq' = Max({0} \cup {id \in Ids : ProjectOffers[id] # NoOffer})
    /\ call' = [c \in Clients |-> Idle]
    /\ UNCHANGED <<chain, held, history, reqs, trades>>
-----------------------------------------------------------------------------
Init ==
    /\ offers = [id \in Ids |-> NoOffer] /\ seq = 0 /\ chain = <<>>
    /\ held = [h \in Holders |-> Supply]
    /\ call = [c \in Clients |-> Idle]
    /\ sold = [id \in Ids |-> 0] /\ withdrawn = {}
    /\ overlapped = FALSE /\ requests = 0 /\ trades = 0 /\ crashes = 0

Next ==
    \/ \E c \in Clients :
        \/ \E h \in Holders, n \in 1..Supply : CreateOffer(c, h, n)
        \/ Register(c)
        \/ \E id \in Ids, h \in Holders, n \in 1..Supply, dryRun \in BOOLEAN : Take(c, id, h, n, dryRun)
        \/ SettleDvP(c) \/ Restore(c) \/ Fill(c)
    \/ \E id \in Ids, h \in Holders : CancelOffer(id, h)
    \/ \E h, i \in Holders, n \in 1..Supply : Trade(h, i, n)
    \/ Restart

Spec == Init /\ [][Next]_vars
-----------------------------------------------------------------------------
(* Properties *)

TypeOK ==
    /\ offers \in [Ids -> [seller : Holders, total : Nat, remaining : Nat, status : Statuses]]
    /\ seq \in 0..MaxOffers
    /\ held \in [Holders -> Nat]
    /\ \A i \in DOMAIN chain : chain[i].id \in 1..seq
    /\ call \in [Clients -> [at : Points, id : 0..MaxOffers, who : Holders, tokens : Nat,
                             dryRun : BOOLEAN, seen : Nat]]
    /\ sold \in [Ids -> Nat] /\ withdrawn \subseteq 1..seq /\ overlapped \in BOOLEAN

Touches(c, id) == call[c].at \in {"settle", "fill", "restore"} /\ call[c].id = id
Quiet(id) == \A c \in Clients : ~Touches(c, id)

\* "two buyers racing for the last tokens cannot both be filled": until a restart, no
\* more is settled against an offer than it lists.  (A restart between a settlement and
\* its block puts the sold units back on sale.)
NeverOversold == crashes = 0 => \A id \in Ids : sold[id] <= offers[id].total

\* Until a restart, and with no take of it under way, an offer that is FILLED has sold
\* everything, one that is OPEN has something left, and what is left is what has not been
\* sold, whatever takes race, fail or are dry runs (TakeOffer).
StatusFollowsUnits ==
    crashes = 0 => \A id \in 1..seq : Quiet(id) =>
        /\ offers[id].remaining + sold[id] = offers[id].total
        /\ offers[id].status = "FILLED" => offers[id].remaining = 0
        /\ offers[id].status = "OPEN" => offers[id].remaining > 0

\* "a holder cannot offer the same token twice": while requests come one at a time and
\* only the book moves tokens, a seller's open offers are covered by what the seller
\* holds (committedLocked).
OffersBacked ==
    ~overlapped /\ trades = 0 /\ crashes = 0 => \A h \in Holders : Committed(h) <= held[h]

\* "Every offer being served is reconstructable from the ledger, with the same seller,
\* the same remaining size and the same status" (CheckOffers), while requests come one
\* at a time, with withdrawals in the middle of them and restarts anywhere.
LedgerAgrees ==
    ~overlapped => \A id \in Ids : Quiet(id) => offers[id] = ProjectOffers[id]

\* CancelOffer "withdraws an offer", and an offer that is cancelled is closed: nobody
\* takes one whose seller was told it is cancelled, which is checked and does not hold.
WithdrawnIsClosed ==
    [][\A c \in Clients :
        call[c].at = "idle" /\ call'[c].at = "settle" => call'[c].id \notin withdrawn]_vars
=============================================================================
