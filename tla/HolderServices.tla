--------------------------- MODULE HolderServices ---------------------------
(***************************************************************************)
(* What the holders of a tokenised listing are served, by the serverless   *)
(* API and the mock server alike: rent shared out among them, votes        *)
(* weighted by what they hold, the views of the listing and of a wallet    *)
(* that are computed from the balances, and the history of transfers read  *)
(* page by page.  Money is in paise.                                       *)
(***************************************************************************)
EXTENDS Integers, SequencesExt, FiniteSetsExt

CONSTANTS
    People, Originator,           \* holders, and the one who listed the property
    Supply, Price,                \* tokens minted, and what one is worth
    Rents, MaxRents,              \* rents shared out, at most so many times
    MaxVotes, MaxTransfers,       \* bounds
    PageSizes

VARIABLES
    balances,                     \* tokens of each person
    yieldBalances,                \* rent credited to each
    creditLoans,                  \* tokens pledged by each
    chain,                        \* blocks of these two kinds
    proposal, votes,              \* one governance proposal; votes so far (bound)
    transfers, clock,             \* transfers in order made, with the millisecond of each
    reader                        \* someone reading the history of one owner

holderVars == <<balances, yieldBalances, creditLoans, chain, proposal, votes, transfers, clock, reader>>

NoProposal == [status |-> "none"]
Idle == [at |-> "idle"]
quorumPct == 20

HolderInit ==
    /\ balances = [p \in People |-> IF p = Originator THEN Supply ELSE 0]
    /\ yieldBalances = [p \in People |-> 0] /\ creditLoans = [p \in People |-> 0]
    /\ chain = <<>> /\ proposal = NoProposal /\ votes = 0
    /\ transfers = <<>> /\ clock = 0 /\ reader = Idle

Total(f) == MapThenSumSet(LAMBDA p : f[p], DOMAIN f)
Holders == {p \in People : balances[p] > 0}
drunixAppend(b) == chain' = Append(chain, b)
-----------------------------------------------------------------------------
(* Rent *)
\* floor(amount * (n / total) * 100) / 100 in floating point: a product that
\* is a whole number of paise may come out a hair below it.
Shares_Rounded(amount, n, total) == {(amount * n + total - 1) \div total} \* (mutant: rounded up)
Shares(amount, n, total) ==
    LET s == (amount * n) \div total
    IN  {s} \cup (IF (amount * n) % total = 0 /\ s > 0 THEN {s - 1} ELSE {})

Distribute(amount) ==
    /\ Cardinality({i \in DOMAIN chain : chain[i].kind = "yield"}) < MaxRents
    /\ Holders # {}
    /\ \E share \in [Holders -> 0..amount] :
        /\ \A h \in Holders : share[h] \in Shares(amount, balances[h], Total(balances))
        /\ yieldBalances' = [p \in People |-> yieldBalances[p] + (IF p \in Holders THEN share[p] ELSE 0)]
        /\ drunixAppend([kind |-> "yield", amount |-> Total(share), asked |-> amount, holders |-> Cardinality(Holders)])
    /\ UNCHANGED <<balances, creditLoans, proposal, votes, transfers, clock, reader>>
-----------------------------------------------------------------------------
(* Governance *)
Propose ==
    /\ proposal = NoProposal
    /\ proposal' = [status |-> "OPEN", votes |-> <<>>, cast |-> {}]
    /\ UNCHANGED <<balances, yieldBalances, creditLoans, chain, votes, transfers, clock, reader>>

\* A second vote replaces the first.
Recorded_Added(v, p, choice, n) == Append(v, [who |-> p, choice |-> choice, weight |-> n]) \* (mutant: counted again)
Recorded(v, p, choice, n) == Append(SelectSeq(v, LAMBDA x : x.who # p), [who |-> p, choice |-> choice, weight |-> n])
Tally(v, choice) == FoldSeq(LAMBDA x, sum : sum + (IF x.choice = choice THEN x.weight ELSE 0), 0, v)

Vote(p, choice) ==
    /\ votes < MaxVotes /\ votes' = votes + 1
    /\ proposal.status = "OPEN" /\ balances[p] > 0
    /\ LET v == Recorded(proposal.votes, p, choice, balances[p])
           yes == Tally(v, "YES")  no == Tally(v, "NO")
           resolved == (yes + no) * 100 >= quorumPct * Supply
           status == IF ~resolved THEN "OPEN" ELSE IF yes > no THEN "ACCEPTED" ELSE "REJECTED"
       IN  /\ proposal' = [status |-> status, votes |-> v,
                           cast |-> {c \in proposal.cast : c[1] # p} \cup {<<p, choice, balances[p]>>}]
           /\ IF resolved THEN drunixAppend([kind |-> "governance", yes |-> yes, no |-> no, status |-> status])
              ELSE UNCHANGED chain
    /\ UNCHANGED <<balances, yieldBalances, creditLoans, transfers, clock, reader>>
-----------------------------------------------------------------------------
(* Tokens *)
\* A recipient has to be someone: he holds tokens, has a KYC record or is an
\* official; all of People are.
recipientProblem(to) == to \notin People
Transfer(from, to, n) ==
    /\ Len(transfers) < MaxTransfers /\ from # to /\ ~recipientProblem(to)
    /\ balances[from] - creditLoans[from] >= n
    /\ balances' = [balances EXCEPT ![from] = @ - n, ![to] = @ + n]
    /\ transfers' = Append(transfers, [from |-> from, to |-> to, at |-> clock])
    /\ UNCHANGED <<yieldBalances, creditLoans, chain, proposal, votes, clock, reader>>
Tick == clock < MaxTransfers /\ clock' = clock + 1 /\ UNCHANGED <<balances, yieldBalances, creditLoans, chain, proposal, votes, transfers, reader>>

Pledge(p) ==
    /\ creditLoans[p] = 0 /\ balances[p] >= 2
    /\ creditLoans' = [creditLoans EXCEPT ![p] = balances[p] \div 2]
    /\ UNCHANGED <<balances, yieldBalances, chain, proposal, votes, transfers, clock, reader>>
-----------------------------------------------------------------------------
(* Views *)
Least(a, b) == IF a < b THEN a ELSE b
Most(a, b) == IF a > b THEN a ELSE b
subscriptionOf ==
    LET available == balances[Originator]  investors == Holders \ {Originator}
        full == available = 0 /\ investors # {}
    IN  [sold |-> Most(0, Least(Supply, Supply - available)), available |-> available, investors |-> Cardinality(investors),
         phase |-> IF full THEN "secondary" ELSE "primary",
         completedAt |-> IF full THEN FoldSeq(LAMBDA t, m : Most(t.at, m), 0, transfers) ELSE 0]
wallet(p) == balances[p] * Price
\* Half the worth of the pledged tokens was lent; a hundredth more is due.
Due(p) == (creditLoans[p] * Price) \div 2 + (creditLoans[p] * Price) \div 200
drunixNav(p) == wallet(p) + yieldBalances[p] - Due(p)
-----------------------------------------------------------------------------
(* History, newest first; a stable sort keeps those of one millisecond in  *)
(* the order made.                                                         *)
Before(i, j) == transfers[i].at > transfers[j].at \/ (transfers[i].at = transfers[j].at /\ i < j)
Of(owner) == {i \in DOMAIN transfers : owner \in {transfers[i].from, transfers[i].to}}
History(owner) == SetToSortSeq(Of(owner), Before)
Start_At(list, mark) == IF Contains(list, mark) THEN CHOOSE k \in DOMAIN list : list[k] = mark ELSE 1 \* (mutant: off by one)
Start(list, mark) == IF Contains(list, mark) THEN 1 + (CHOOSE k \in DOMAIN list : list[k] = mark) ELSE 1

Open(owner) ==
    /\ reader = Idle
    /\ reader' = [at |-> "reading", owner |-> owner, mark |-> 0, shown |-> <<>>, there |-> Of(owner)]
    /\ UNCHANGED <<balances, yieldBalances, creditLoans, chain, proposal, votes, transfers, clock>>
ReadPage(size) ==
    /\ reader.at = "reading"
    /\ LET list == History(reader.owner)  start == Start(list, reader.mark)
           page == SubSeq(list, start, Least(start + size - 1, Len(list)))
           hasMore == start + size - 1 < Len(list)
       IN  reader' = [reader EXCEPT !.shown = @ \o page, !.at = IF hasMore THEN @ ELSE "read",
                                    !.mark = IF hasMore /\ page # <<>> THEN Last(page) ELSE 0]
    /\ UNCHANGED <<balances, yieldBalances, creditLoans, chain, proposal, votes, transfers, clock>>
Close == reader.at = "read" /\ reader' = Idle /\ UNCHANGED <<balances, yieldBalances, creditLoans, chain, proposal, votes, transfers, clock>>

Serve ==
    \/ \E a \in Rents : Distribute(a)
    \/ Propose
    \/ \E p \in People, c \in {"YES", "NO"} : Vote(p, c)
    \/ \E p \in People : Pledge(p) \/ Open(p)
    \/ \E n \in PageSizes : ReadPage(n)
    \/ Close
Trade == Tick \/ \E f, t \in People, n \in 1..Supply : Transfer(f, t, n)
HolderNext == Serve \/ Trade
-----------------------------------------------------------------------------
HoldersTypeOK ==
    /\ balances \in [People -> 0..Supply] /\ yieldBalances \in [People -> Nat] /\ creditLoans \in [People -> 0..Supply]
    /\ proposal.status \in {"none", "OPEN", "ACCEPTED", "REJECTED"}

\* Rent: the wallets hold what the blocks say was shared out, no rent shares
\* out more than it is, and all that stays behind is at most a paisa for
\* each holder.
RentIsShared ==
    LET rents == SelectSeq(chain, LAMBDA b : b.kind = "yield") IN
    /\ Total(yieldBalances) = FoldSeq(LAMBDA b, sum : sum + b.amount, 0, rents)
    /\ \A i \in DOMAIN rents : rents[i].amount <= rents[i].asked /\ rents[i].asked - rents[i].amount <= rents[i].holders

\* Votes: a proposal is decided once, by at least a fifth of the supply and
\* as the votes last cast by each person say, whatever was traded in between;
\* until then the votes are short of the quorum.
DecidedByHolders ==
    LET decisions == SelectSeq(chain, LAMBDA b : b.kind = "governance")
        Cast(c) == MapThenSumSet(LAMBDA x : x[3], {x \in proposal.cast : x[2] = c})
        yes == Cast("YES")  no == Cast("NO")
    IN  /\ Len(decisions) = (IF proposal.status \in {"ACCEPTED", "REJECTED"} THEN 1 ELSE 0)
        /\ proposal.status = "OPEN" => 100 * (yes + no) < quorumPct * Supply
        /\ decisions # <<>> =>
            /\ decisions[1] = [kind |-> "governance", yes |-> yes, no |-> no, status |-> proposal.status]
            /\ 100 * (yes + no) >= quorumPct * Supply /\ (proposal.status = "ACCEPTED" <=> yes > no)

\* History: who follows the bookmarks to the end has been shown every
\* transfer there was when he opened it, and none twice, whatever is
\* transferred while he reads.
PagesMissNothing ==
    reader.at = "read" => reader.there \subseteq Range(reader.shown) /\ IsInjective(reader.shown)

\* Views: what a listing says is sold is what its investors hold, and the
\* net worths of all holders are the supply's worth, the rent and the debts.
ViewsAgree ==
    /\ subscriptionOf.sold = Total([p \in People \ {Originator} |-> balances[p]])
    /\ subscriptionOf.phase = "secondary" => subscriptionOf.sold = Supply
    /\ Total([p \in People |-> drunixNav(p) + Due(p)]) = Supply * Price + Total(yieldBalances)

HoldersAreServed == RentIsShared /\ DecidedByHolders /\ PagesMissNothing /\ ViewsAgree
=============================================================================
