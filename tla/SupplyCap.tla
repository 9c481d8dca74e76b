----------------------------- MODULE SupplyCap -----------------------------
(***************************************************************************)
(* Who may create and destroy tokens of one asset: SeedPosition and        *)
(* RestateSupply (umi.go), RetireCredits (assetclass.go), next to          *)
(* settlement, on a position book with a lock of its own                   *)
(* (MemorySecurities) inside a rail whose lock r.mu they hold only at      *)
(* times, with the rows they write and what a restart rebuilds from them.  *)
(*                                                                         *)
(* A call is a client at a step `at`.  `authorised` is 0 while the asset   *)
(* is unknown (a recorded cap is positive).  The proof-of-backing gate is  *)
(* absent, as it is for an asset nobody has stated backing for.            *)
(***************************************************************************)
EXTENDS Naturals, FiniteSetsExt

CONSTANTS
    Holders,
    Clients,      \* calls served at the same time
    Operations,   \* which of "seed", "restate", "retire", "settle" are called
    Owner,        \* the participant main.go seeds
    Opening,      \* tokens of that seed; 0: the asset is unknown at first
    MaxTokens,    \* bound: tokens named in one call
    MaxOps,       \* bound: calls
    MaxCrashes,   \* bound: process crashes
    Nobody        \* r.mu is free

CapConstants ==
    /\ IsFiniteSet(Holders) /\ IsFiniteSet(Clients) /\ Owner \in Holders
    /\ Opening \in Nat /\ MaxTokens \in Nat

VARIABLES
    up,           \* the process runs
    mu,           \* the call that holds r.mu across a step, or Nobody
    pos,          \* the position book, for this asset
    authorised,   \* r.authorised
    derived,      \* r.derived: the cap was inferred from restored positions
    retired,      \* r.retired
    pinned,       \* the figure RestateSupply last pinned (0: none), never forgotten
    rev,          \* r.rev
    retiredBlocks,\* tokens in the chain's UMI_CARBON_RETIRED blocks
    db,           \* umi_position rows, and the highest revision of other tables
    call,         \* each client's call
    overlapped,   \* some call began while another was in progress (history)
    ops, crashes

vars == <<up, mu, pos, authorised, derived, retired, pinned, rev, retiredBlocks, db, call,
          overlapped, ops, crashes>>
count == <<overlapped, ops>>
-----------------------------------------------------------------------------
At == {"idle", "check", "set", "snap", "write", "reset", "pin", "count", "anchor", "moved"}
Row  == [tokens : Nat, rev : Nat]
Idle == [at |-> "idle", h |-> Owner, to |-> Owner, n |-> 0, cap |-> 0, rows |-> {}, last |-> 0]

Total(f) == MapThenSumSet(LAMBDA x : f[x], DOMAIN f)
Outstanding == Total(pos)

\* (mutant: the write is absolute, so nobody else's tokens are counted)
Others_None(h) == 0

Others(h) == Outstanding - pos[h]

Begin(c, op) ==
    /\ up /\ call[c].at = "idle" /\ op \in Operations /\ ops < MaxOps
    /\ ops' = ops + 1
    /\ overlapped' = (overlapped \/ \E b \in Clients : call[b].at # "idle")
Goes(c, to) == call' = [call EXCEPT ![c] = to]
Then(c, step) == Goes(c, [call[c] EXCEPT !.at = step])
Is(c, step) == up /\ call[c].at = step
-----------------------------------------------------------------------------
(* SeedPosition: the cap under r.mu, the check and the write without it *)

\* The declared figure is refused once one was declared before.
Redeclares(declared) == authorised # 0 /\ declared \notin {0, authorised} /\ ~derived

CapAfter(n, declared) ==
    IF declared # 0 THEN declared ELSE IF authorised # 0 THEN authorised ELSE n

\* (mutant: an inferred cap stays open to correction after it was corrected)
DerivedAfter_Forever(declared) == derived

DerivedAfter(declared) == IF declared # 0 THEN FALSE ELSE derived

SeedPosition(c, h, n, declared) ==
    /\ Begin(c, "seed") /\ mu = Nobody
    /\ IF Redeclares(declared)
       THEN UNCHANGED <<authorised, derived, call>>
       ELSE /\ authorised' = CapAfter(n, declared)
            /\ derived' = DerivedAfter(declared)
            /\ Goes(c, [Idle EXCEPT !.at = "check", !.h = h, !.n = n, !.cap = CapAfter(n, declared)])
    /\ UNCHANGED <<up, mu, pos, retired, pinned, rev, retiredBlocks, db, crashes>>

SeedCheck(c) ==
    /\ Is(c, "check")
    /\ IF Others(call[c].h) + call[c].n > call[c].cap THEN Goes(c, Idle) ELSE Then(c, "set")
    /\ UNCHANGED <<up, mu, pos, authorised, derived, retired, pinned, rev, retiredBlocks, db,
                   count, crashes>>

SeedSet(c) ==
    /\ Is(c, "set")
    /\ pos' = [pos EXCEPT ![call[c].h] = call[c].n]
    /\ Then(c, "snap")
    /\ UNCHANGED <<up, mu, authorised, derived, retired, pinned, rev, retiredBlocks, db, count, crashes>>

\* (mutant: the row holds what was asked for, not what the book says)
Snapshot_AsAsked(c, h, r) == [h |-> h, tokens |-> call[c].n, rev |-> r]

\* snapPositions, under r.mu
Snapshot(c, h, r) == [h |-> h, tokens |-> pos[h], rev |-> r]

SeedSnap(c) ==
    /\ Is(c, "snap") /\ mu = Nobody
    /\ rev' = rev + 1
    /\ Goes(c, [call[c] EXCEPT !.at = "write", !.rows = {Snapshot(c, call[c].h, rev + 1)}])
    /\ UNCHANGED <<up, mu, pos, authorised, derived, retired, pinned, retiredBlocks, db, count, crashes>>
-----------------------------------------------------------------------------
(* RestateSupply: the book is read, the excess burned, the cap pinned *)

RestateSupply(c, h, n) ==
    /\ Begin(c, "restate")
    /\ LET excess == IF Outstanding > n THEN Outstanding - n ELSE 0 IN
       IF Others(h) > n \/ excess > pos[h]
       THEN UNCHANGED call
       ELSE Goes(c, [Idle EXCEPT !.at = IF excess > 0 THEN "reset" ELSE "pin",
                                 !.h = h, !.n = pos[h] - excess, !.cap = n])
    /\ UNCHANGED <<up, mu, pos, authorised, derived, retired, pinned, rev, retiredBlocks, db, crashes>>

RestateSet(c) ==
    /\ Is(c, "reset")
    /\ pos' = [pos EXCEPT ![call[c].h] = call[c].n]
    /\ Then(c, "pin")
    /\ UNCHANGED <<up, mu, authorised, derived, retired, pinned, rev, retiredBlocks, db, count, crashes>>

RestatePin(c) ==
    /\ Is(c, "pin") /\ mu = Nobody
    /\ authorised' = call[c].cap /\ pinned' = call[c].cap
    /\ derived' = FALSE
    /\ rev' = rev + 1
    /\ Goes(c, [call[c] EXCEPT !.at = "write", !.rows = {Snapshot(c, call[c].h, rev + 1)}])
    /\ UNCHANGED <<up, mu, pos, retired, retiredBlocks, db, count, crashes>>
-----------------------------------------------------------------------------
(* RetireCredits: burned in the book, counted under r.mu, then anchored; no row is written *)

\* (mutant: what is asked for is counted, what is left is not looked at)
Burned_Clamped(h, n) == [pos EXCEPT ![h] = IF @ >= n THEN @ - n ELSE 0]

\* Burn, checked and debited under the book's own lock
Burned(h, n) == IF pos[h] >= n THEN [pos EXCEPT ![h] = @ - n] ELSE pos

RetireCredits(c, h, n) ==
    /\ Begin(c, "retire")
    /\ pos' = Burned(h, n)
    /\ IF pos' # pos THEN Goes(c, [Idle EXCEPT !.at = "count", !.h = h, !.n = n])
                     ELSE UNCHANGED call
    /\ UNCHANGED <<up, mu, authorised, derived, retired, pinned, rev, retiredBlocks, db, crashes>>

RetireCount(c) ==
    /\ Is(c, "count") /\ mu = Nobody
    /\ retired' = retired + call[c].n
    /\ Then(c, "anchor")
    /\ UNCHANGED <<up, mu, pos, authorised, derived, pinned, rev, retiredBlocks, db, count, crashes>>

RetireAnchor(c) ==
    /\ Is(c, "anchor")
    /\ retiredBlocks' = retiredBlocks + call[c].n
    /\ Goes(c, Idle)
    /\ UNCHANGED <<up, mu, pos, authorised, derived, retired, pinned, rev, db, count, crashes>>
-----------------------------------------------------------------------------
(* Settlement's securities leg: Move, then the rows' snapshot, r.mu held throughout *)

\* (mutant: the seller's tokens are not checked)
CanMove_Unchecked(h, n) == TRUE

CanMove(h, n) == pos[h] >= n

Settle(c, from, to, n) ==
    /\ Begin(c, "settle") /\ mu = Nobody
    /\ from # to /\ CanMove(from, n)
    /\ mu' = c
    /\ pos' = [pos EXCEPT ![from] = @ - n, ![to] = @ + n]
    /\ Goes(c, [Idle EXCEPT !.at = "moved", !.h = from, !.to = to, !.n = n])
    /\ UNCHANGED <<up, authorised, derived, retired, pinned, rev, retiredBlocks, db, crashes>>

SettleSnap(c) ==
    /\ Is(c, "moved")
    /\ mu' = Nobody
    /\ rev' = rev + 5
    /\ Goes(c, [call[c] EXCEPT !.at = "write", !.last = rev + 5,
           !.rows = {[h |-> call[c].h, tokens |-> pos[call[c].h], rev |-> rev + 3],
                     [h |-> call[c].to, tokens |-> pos[call[c].to], rev |-> rev + 4]}])
    /\ UNCHANGED <<up, pos, authorised, derived, retired, pinned, retiredBlocks, db, count, crashes>>

\* one transaction over the call's rows, each guarded by its revision
Write(c) ==
    /\ Is(c, "write")
    /\ db' = [position |-> [h \in Holders |->
                  LET news == {r \in call[c].rows : r.h = h /\ r.rev > db.position[h].rev} IN
                  IF news = {} THEN db.position[h]
                  ELSE LET r == CHOOSE x \in news : TRUE IN [tokens |-> r.tokens, rev |-> r.rev]],
              other |-> IF call[c].last > db.other THEN call[c].last ELSE db.other]
    /\ Goes(c, Idle)
    /\ UNCHANGED <<up, mu, pos, authorised, derived, retired, pinned, rev, retiredBlocks, count, crashes>>
-----------------------------------------------------------------------------
Crash ==
    /\ up /\ crashes < MaxCrashes
    /\ up' = FALSE /\ crashes' = crashes + 1
    /\ mu' = Nobody /\ call' = [c \in Clients |-> Idle]
    /\ pos' = [h \in Holders |-> 0] /\ authorised' = 0 /\ derived' = FALSE /\ retired' = 0 /\ rev' = 0
    /\ UNCHANGED <<pinned, retiredBlocks, db, count>>

\* (mutant: retired supply is not counted against the restored cap)
RestoredCap_PositionsOnly == Total([h \in Holders |-> db.position[h].tokens])

\* the restored positions, and the retirements replayed from the chain
RestoredCap == Total([h \in Holders |-> db.position[h].tokens]) + retiredBlocks

LoadedRevs == {0, db.other} \cup
              {db.position[h].rev : h \in {g \in Holders : db.position[g].tokens > 0}}

Boot ==
    /\ ~up
    /\ up' = TRUE
    /\ pos' = [h \in Holders |-> db.position[h].tokens]
    /\ authorised' = RestoredCap
    /\ derived' = (\E h \in Holders : db.position[h].tokens > 0)
    /\ retired' = retiredBlocks
    /\ rev' = CHOOSE r \in LoadedRevs : \A q \in LoadedRevs : q <= r
    /\ UNCHANGED <<mu, pinned, retiredBlocks, db, call, count, crashes>>

\* main.go has seeded the owner, and the row is written.
Init ==
    /\ up = TRUE /\ mu = Nobody
    /\ pos = [h \in Holders |-> IF h = Owner THEN Opening ELSE 0]
    /\ authorised = Opening /\ derived = FALSE /\ retired = 0 /\ pinned = 0
    /\ rev = IF Opening > 0 THEN 1 ELSE 0
    /\ retiredBlocks = 0
    /\ db = [position |-> [h \in Holders |-> IF h = Owner /\ Opening > 0
                                             THEN [tokens |-> Opening, rev |-> 1]
                                             ELSE [tokens |-> 0, rev |-> 0]], other |-> 0]
    /\ call = [c \in Clients |-> Idle]
    /\ overlapped = FALSE /\ ops = 0 /\ crashes = 0

Quantities == 1..MaxTokens

Next ==
    \/ \E c \in Clients, h \in Holders, n \in Quantities :
        \/ \E declared \in {0} \cup Quantities : SeedPosition(c, h, n, declared)
        \/ RestateSupply(c, h, n)
        \/ RetireCredits(c, h, n)
        \/ \E to \in Holders : Settle(c, h, to, n)
    \/ \E c \in Clients :
        \/ SeedCheck(c) \/ SeedSet(c) \/ SeedSnap(c)
        \/ RestateSet(c) \/ RestatePin(c)
        \/ RetireCount(c) \/ RetireAnchor(c)
        \/ SettleSnap(c) \/ Write(c)
    \/ Crash \/ Boot

Spec == Init /\ [][Next]_vars
-----------------------------------------------------------------------------
(* Properties *)

CallState == [at : At, h : Holders, to : Holders, n : Nat, cap : Nat, last : Nat,
              rows : SUBSET [h : Holders, tokens : Nat, rev : Nat]]

TypeOK ==
    /\ up \in BOOLEAN /\ mu \in Clients \cup {Nobody}
    /\ pos \in [Holders -> Nat]
    /\ authorised \in Nat /\ derived \in BOOLEAN /\ retired \in Nat /\ pinned \in Nat
    /\ rev \in Nat /\ retiredBlocks \in Nat
    /\ db \in [position : [Holders -> Row], other : Nat]
    /\ call \in [Clients -> CallState]
    /\ overlapped \in BOOLEAN /\ ops \in Nat /\ crashes \in Nat

Quiet == up /\ \A c \in Clients : call[c].at = "idle"

\* SeedPosition: "no seed may push the asset's outstanding total above that cap", as
\* long as no two calls were ever in progress at once.  (The check reads the book and
\* the write comes later, both outside r.mu: two overlapping seeds can exceed it.)
SeedStaysWithinCap ==
    \A c \in Clients : SeedSet(c) /\ ~overlapped => Outstanding' <= authorised

\* While the process runs, a recorded cap changes only by a restatement or by the one
\* correction an inferred cap allows, which uses that right up (r.derived: "a derived
\* cap can be corrected once by an explicit declaration. A declared one cannot").
DeclaredIsFinal ==
    up /\ up' /\ authorised # 0 /\ authorised' # authorised
        => ~derived' /\ (derived \/ pinned' = authorised')

\* Settlements and retirements, interleaved with each other and with seeds and
\* restatements, neither create tokens nor consume one twice: what is held, retired or
\* being retired changes only by a seed's or a restatement's write.
Burning == Total([c \in Clients |-> IF call[c].at = "count" THEN call[c].n ELSE 0])
Accounted == Outstanding + retired + Burning
RetirementIsExact ==
    up /\ up' /\ Accounted' # Accounted => \E c \in Clients : SeedSet(c) \/ RestateSet(c)

\* A restart forgets no anchored retirement and frees none of its headroom
\* (docs/CARBON.md 8: "retired totals survive a restore, otherwise a restart would
\* silently re-authorise retired supply").
RetiredSurvives ==
    ~up /\ up' => retired' = retiredBlocks /\ Total(pos') + retired' <= authorised'

\* What every step keeps.
SupplyStep == SeedStaysWithinCap /\ DeclaredIsFinal /\ RetirementIsExact /\ RetiredSurvives

\* With calls interleaved and their rows written in any order, the stored positions
\* are the book's once every call has ended (snapPositions and the rev guard), unless
\* a retirement, which writes no row, or a restart came between.
StoreMatchesBook ==
    Quiet /\ crashes = 0 /\ retired = 0 => \A h \in Holders : db.position[h].tokens = pos[h]

\* docs/CARBON.md: "outstanding + retired never exceeds authorised", which is checked
\* and does not hold: a seed compares outstanding alone with the cap.
SupplyCovered == Quiet => Outstanding + retired <= authorised
=============================================================================
