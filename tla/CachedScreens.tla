--------------------------- MODULE CachedScreens ---------------------------
(***************************************************************************)
(* The screens that merge the server's answers with what the browser       *)
(* remembers (useLocalCache.js): the listings and the wallet.  They share  *)
(* no state and have a next-state relation each.                           *)
(*                                                                         *)
(* Listings (useProperties.js): the catalogue under a status filter and a  *)
(* listing's page, each read again when its key changes and merged with    *)
(* the listings made and removed in this browser.                          *)
(*                                                                         *)
(* Wallet (Wallet.jsx): one listing, a browser used by several people.     *)
(* The page shows the larger of the server's figure and the remembered     *)
(* one, a transfer sends the purchase receipts along, and a server that    *)
(* has lost the holder's row makes it again from them.                     *)
(***************************************************************************)
EXTENDS Integers, Sequences, SequencesExt, FiniteSetsExt, Functions

CONSTANTS
    None,
    Ids, Demo, MaxReads, MaxEdits,                              \* listings
    People, totalTokens, Amounts, MaxBuys, MaxAsks, MaxTransfers \* wallet

VARIABLES
    server,         \* id -> its status, or None
    cache, removed, \* localStorage: listings created here, and those removed
    filter, list,   \* the catalogue: id -> [status, cached], or None; and its source
    source,
    page, property, error,  \* a listing's page: [id, had], whose it is and whether it took over a
                    \* page that showed something; what it shows
    reads,          \* reads in flight: [n, kind, key, pc, answer, had]
    asked, latest,  \* reads sent so far; kind -> the last of its kind
    shownBy,        \* kind -> the read its screen shows, and its outcome (history)
    edits

screenVars == <<server, cache, removed, filter, list, source, page, property, error, reads, asked, latest, shownBy, edits>>
browser == <<cache, removed>>
screens == <<list, source, property, error, shownBy>>

Statuses == {"DRAFT", "TOKENIZED"}
Filters == Statuses \cup {"any"}
NoList == [i \in Ids |-> None]

ScreensInit ==
    /\ server \in [Ids -> {None, "TOKENIZED"}] /\ cache = [i \in Ids |-> None] /\ removed = {}
    /\ filter = "any" /\ list = NoList /\ source = "none" /\ page = [id |-> None, had |-> FALSE] /\ property = None /\ error = FALSE
    /\ reads = {} /\ asked = 0 /\ latest = [k \in {"list", "page"} |-> 0]
    /\ shownBy = [k \in {"list", "page"} |-> [n |-> 0, ok |-> FALSE]] /\ edits = 0

\* The effect on the key, or a refresh: a read of it.
Reads(kind, key, had) ==
    /\ asked < MaxReads /\ asked' = asked + 1 /\ latest' = [latest EXCEPT ![kind] = asked + 1]
    /\ reads' = reads \cup {[n |-> asked + 1, kind |-> kind, key |-> key, pc |-> "waiting", answer |-> NoList, had |-> had]}
Browse(f) == Reads("list", f, FALSE) /\ filter' = f /\ UNCHANGED <<server, browser, screens, page, edits>>
OpenPage(i) ==
    /\ page' = [id |-> i, had |-> IF page.id = i THEN page.had ELSE property # None] /\ Reads("page", i, page'.had)
    /\ UNCHANGED <<server, browser, filter, screens, edits>>
\* The server answers; the answer is on its way.
Serve(r) ==
    /\ r.pc = "waiting" /\ UNCHANGED <<server, browser, filter, page, screens, asked, latest, edits>>
    /\ \E a \in {"failed", "listed"} :
          /\ IF a = "listed" /\ r.kind = "page" THEN server[r.key] # None ELSE TRUE
          /\ reads' = (reads \ {r}) \cup {[r EXCEPT !.pc = a, !.answer = IF a = "listed" THEN server ELSE NoList]}

----------------------------------------------------------------------------
\* The server's listings, and those remembered here that it does not list.
mergeProperties(listed) ==
    [i \in Ids |-> IF listed[i] # None THEN [status |-> listed[i], cached |-> FALSE]
                   ELSE IF cache[i] # None /\ i \notin removed THEN [status |-> cache[i], cached |-> TRUE] ELSE None]
Filtered_None(f, merged) == merged \* (mutant: the filter is the server's business)
Filtered(f, merged) == [i \in Ids |-> IF merged[i] = None THEN None ELSE IF f \in {"any", merged[i].status} THEN merged[i] ELSE None]
Listed(f, server_) == [i \in Ids |-> IF f \in {"any", server_[i]} THEN server_[i] ELSE None]

\* Without the server: what is remembered, whatever the filter, or one known listing.
Fallback == [i \in Ids |-> IF i \notin removed /\ cache[i] # None THEN [status |-> cache[i], cached |-> TRUE] ELSE None]
Known == [i \in Ids |-> IF i = Demo THEN [status |-> "TOKENIZED", cached |-> FALSE] ELSE None]

Arrived(r) == r \in reads /\ r.pc # "waiting" /\ reads' = reads \ {r}
Shows(r, ok) == shownBy' = [shownBy EXCEPT ![r.kind] = [n |-> r.n, ok |-> ok]]
fetchProperties(r) ==
    /\ r.kind = "list" /\ Arrived(r) /\ UNCHANGED <<server, browser, filter, page, property, error, asked, latest, edits>>
    /\ IF r.pc = "listed"
       THEN list' = Filtered(r.key, mergeProperties(Listed(r.key, r.answer))) /\ source' = "server" /\ Shows(r, TRUE)
       ELSE /\ Shows(r, FALSE)
            /\ IF Fallback # NoList THEN list' = Fallback /\ source' = "cache" ELSE list' = Known /\ source' = "demo"

\* A listing made here is brought up to date where it is remembered; a page the
\* server does not answer for shows what is remembered, or what was there, or the
\* known listing under the name asked for.
fetchProperty(r) ==
    /\ r.kind = "page" /\ Arrived(r) /\ UNCHANGED <<server, removed, filter, page, list, source, asked, latest, edits>>
    /\ IF r.pc = "listed"
       THEN /\ property' = [id |-> r.key, status |-> r.answer[r.key]] /\ error' = FALSE /\ Shows(r, TRUE)
            /\ cache' = IF cache[r.key] = None THEN cache ELSE [cache EXCEPT ![r.key] = r.answer[r.key]]
       ELSE /\ UNCHANGED cache
            /\ IF cache[r.key] # None THEN property' = [id |-> r.key, status |-> cache[r.key]] /\ error' = FALSE /\ Shows(r, TRUE)
               ELSE /\ error' = TRUE /\ Shows(r, FALSE)
                    /\ property' = IF r.had THEN property ELSE [id |-> r.key, status |-> "TOKENIZED"]

----------------------------------------------------------------------------
Edit == edits < MaxEdits /\ edits' = edits + 1
saveProperty(i) ==
    /\ Edit /\ server[i] = None /\ cache[i] = None /\ i \notin removed
    /\ server' = [server EXCEPT ![i] = "DRAFT"] /\ cache' = [cache EXCEPT ![i] = "DRAFT"]
    /\ UNCHANGED <<removed, filter, page, screens, reads, asked, latest>>
rememberRemoved_ListOnly(i) == removed' = removed \cup {i} /\ UNCHANGED cache \* (mutant: the cached copy stays)
rememberRemoved(i) == removed' = removed \cup {i} /\ cache' = [cache EXCEPT ![i] = None]
RemoveListing(i) ==
    /\ Edit /\ server[i] # None /\ server' = [server EXCEPT ![i] = None] /\ rememberRemoved(i)
    /\ Reads("list", filter, FALSE) /\ UNCHANGED <<filter, page, screens>>
\* Someone else's change.
Moves(i, s) ==
    /\ Edit /\ server[i] # s /\ server' = [server EXCEPT ![i] = s] /\ UNCHANGED <<browser, filter, page, screens, reads, asked, latest>>

ScreensNext ==
    \/ \E f \in Filters : Browse(f)
    \/ \E i \in Ids : OpenPage(i) \/ saveProperty(i) \/ RemoveListing(i) \/ \E s \in Statuses \cup {None} : Moves(i, s)
    \/ \E r \in reads : Serve(r) \/ fetchProperties(r) \/ fetchProperty(r)

----------------------------------------------------------------------------
InTurn(kind) == shownBy[kind].ok /\ shownBy[kind].n = latest[kind]

\* A listing removed in this browser is in none of its copies, so only a server that
\* lists it can show it; a catalogue that was answered has only the status asked
\* for, also of what is remembered here, and a page is of the listing whose page it
\* is, when the answer shown is the one to the last question asked.
\* (rememberRemoved, mergeProperties, fetchProperties, fetchProperty)
ListingsAreTrue ==
    /\ \A i \in removed : cache[i] = None
    /\ InTurn("list") => \A i \in Ids : IF list[i] = None THEN TRUE ELSE filter \in {"any", list[i].status}
    /\ InTurn("page") => property.id = page.id

-----------------------------------------------------------------------------
(* The wallet *)
VARIABLES
    rows, unsold,      \* the server: holder -> balance or None; the originator's row
    bought,            \* purchases the server settled: [who, n, told]
    overlay,           \* localStorage: holder -> [balance, receipts], or None
    me, shownWallet,   \* the page: whose it is, what it shows: [who, n, server, floor]
    fetches, fetched,  \* wallet reads in flight: [n, who, answer]; how many were sent
    sending,           \* transfers in flight: [id, from, to, n, receipts, pc]
    sentHere, presses  \* holder -> tokens a transfer took off the overlay; transfers pressed (history)

walletVars == <<rows, unsold, bought, overlay, me, shownWallet, fetches, fetched, sending, sentHere, presses>>
browserVars == <<overlay, me, shownWallet, fetches, fetched>>

WalletInit ==
    /\ rows = [p \in People |-> None] /\ unsold = totalTokens /\ bought = <<>> /\ overlay = [p \in People |-> None]
    /\ me \in People /\ shownWallet = None /\ fetches = {} /\ fetched = 0 /\ sending = {}
    /\ sentHere = [p \in People |-> 0] /\ presses = 0

Held(p) == IF rows[p] = None THEN 0 ELSE rows[p]
Credited(p, n) == [rows EXCEPT ![p] = Held(p) + n]

\* A purchase settles on the server; the browser hears of it later, or never.
Buy(n) ==
    /\ Len(bought) < MaxBuys /\ unsold >= n /\ unsold' = unsold - n /\ rows' = Credited(me, n)
    /\ bought' = Append(bought, [who |-> me, n |-> n, told |-> FALSE])
    /\ UNCHANGED <<browserVars, sending, sentHere, presses>>
recordBuy(i) ==
    /\ ~bought[i].told /\ bought' = [bought EXCEPT ![i].told = TRUE]
    /\ LET p == bought[i].who  h == IF overlay[p] = None THEN [balance |-> 0, receipts |-> {}] ELSE overlay[p] IN
       overlay' = [overlay EXCEPT ![p] = [balance |-> h.balance + bought[i].n, receipts |-> h.receipts \cup {i}]]
    /\ UNCHANGED <<rows, unsold, me, shownWallet, fetches, fetched, sending, sentHere, presses>>

\* A cold instance does not have the holder's row.
Cold(p) == rows[p] # None /\ rows' = [rows EXCEPT ![p] = None] /\ UNCHANGED <<unsold, bought, browserVars, sending, sentHere, presses>>

----------------------------------------------------------------------------
Asks(who) ==
    /\ fetched < MaxAsks /\ fetched' = fetched + 1 /\ fetches' = fetches \cup {[n |-> fetched + 1, who |-> who, answer |-> None]}
fetchWallet == Asks(me) /\ UNCHANGED <<rows, unsold, bought, overlay, me, shownWallet, sending, sentHere, presses>>
Switch(p) == p # me /\ me' = p /\ Asks(p) /\ UNCHANGED <<rows, unsold, bought, overlay, shownWallet, sending, sentHere, presses>>
WalletServed(f) ==
    /\ f.answer = None /\ fetches' = (fetches \ {f}) \cup {[f EXCEPT !.answer = Held(f.who)]}
    /\ UNCHANGED <<rows, unsold, bought, overlay, me, shownWallet, fetched, sending, sentHere, presses>>

Remembered(p) == IF overlay[p] = None THEN 0 ELSE overlay[p].balance
BoughtHere(p) == FoldSeq(LAMBDA b, n : IF b.who = p /\ b.told THEN b.n + n ELSE n, 0, bought)

Merged_Server(served, local) == served \* (mutant: the server's figure always wins)
Merged(served, local) == IF served < local THEN local ELSE served
\* A remembered figure no larger than the server's is set to it.
syncHoldingFromServer(p, served) ==
    overlay' = IF overlay[p] # None /\ served > 0 /\ Remembered(p) > 0 /\ served >= Remembered(p)
               THEN [overlay EXCEPT ![p].balance = served] ELSE overlay
WalletAnswered(f) ==
    /\ f.answer # None /\ fetches' = fetches \ {f}
    /\ shownWallet' = [who |-> f.who, n |-> Merged(f.answer, Remembered(f.who)), server |-> f.answer,
                       floor |-> BoughtHere(f.who) - sentHere[f.who]]
    /\ syncHoldingFromServer(f.who, f.answer)
    /\ UNCHANGED <<rows, unsold, bought, me, fetched, sending, sentHere, presses>>
WalletFailed(f) ==
    /\ fetches' = fetches \ {f} /\ shownWallet' = None
    /\ UNCHANGED <<rows, unsold, bought, overlay, me, fetched, sending, sentHere, presses>>

----------------------------------------------------------------------------
\* The page checks against what it shows, whoever that is of, or remembers.
effectiveBalance == Merged(IF shownWallet = None THEN 0 ELSE shownWallet.n, Remembered(me))
handleTransfer(to, n) ==
    /\ to # me /\ presses < MaxTransfers /\ presses' = presses + 1 /\ n <= effectiveBalance
    /\ sending' = sending \cup {[id |-> presses + 1, from |-> me, to |-> to, n |-> n, pc |-> "out",
                                 receipts |-> IF overlay[me] = None THEN {} ELSE overlay[me].receipts]}
    /\ UNCHANGED <<rows, unsold, bought, browserVars, sentHere>>

supplyHeadroom(p) == totalTokens - unsold - MapThenSumSet(Held, People \ {p})
verifiedTokens(receipts) == MapThenSumSet(LAMBDA i : bought[i].n, receipts)
Healable_Receipts(t) == verifiedTokens(t.receipts) \* (mutant: what the receipts say)
Healable(t) == Min({verifiedTokens(t.receipts), supplyHeadroom(t.from)})
\* A holder with a row spends it; one without gets it back from the receipts first.
Spendable(t) == IF rows[t.from] # None THEN rows[t.from] ELSE Healable(t)
Becomes(t, pc) == sending' = (sending \ {t}) \cup {[t EXCEPT !.pc = pc]}
TransferServed(t) ==
    /\ t.pc = "out" /\ UNCHANGED <<unsold, bought, browserVars, sentHere, presses>>
    /\ IF Spendable(t) >= t.n
       THEN rows' = [rows EXCEPT ![t.from] = Spendable(t) - t.n, ![t.to] = Held(t.to) + t.n] /\ Becomes(t, "sent")
       ELSE Becomes(t, "refused") /\ UNCHANGED rows

adjustHolding(p, n) == overlay' = IF overlay[p] = None THEN overlay ELSE [overlay EXCEPT ![p].balance = Max({0, @ - n})]
TransferAnswered(t) ==
    /\ t.pc = "sent" /\ adjustHolding(t.from, t.n) /\ sentHere' = [sentHere EXCEPT ![t.from] = @ + t.n]
    /\ sending' = sending \ {t} /\ Asks(t.from) /\ UNCHANGED <<rows, unsold, bought, me, shownWallet, presses>>
\* Refused, or the answer is lost on its way.
TransferFailed(t) == sending' = sending \ {t} /\ UNCHANGED <<rows, unsold, bought, browserVars, sentHere, presses>>

WalletNext ==
    \/ fetchWallet
    \/ \E n \in Amounts : Buy(n) \/ \E to \in People : handleTransfer(to, n)
    \/ \E p \in People : Cold(p) \/ Switch(p)
    \/ \E i \in DOMAIN bought : recordBuy(i)
    \/ \E f \in fetches : WalletServed(f) \/ WalletAnswered(f) \/ WalletFailed(f)
    \/ \E t \in sending : TransferServed(t) \/ TransferAnswered(t) \/ TransferFailed(t)

----------------------------------------------------------------------------
\* The wallet shows no less than the server answered, nor than what was bought in
\* this browser by that person and not sent from it; and no sequence of purchases,
\* lost rows, receipts and transfers makes more tokens than the listing has.
\* (Wallet.jsx fetchWallet and handleTransfer, useLocalCache, POST /api/transfers)
WalletsAreReal ==
    /\ IF shownWallet = None THEN TRUE
       ELSE shownWallet.n >= shownWallet.server /\ shownWallet.n >= shownWallet.floor
    /\ unsold + MapThenSumSet(Held, People) <= totalTokens
=============================================================================
