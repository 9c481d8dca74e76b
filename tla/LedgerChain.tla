---------------------------- MODULE LedgerChain ----------------------------
(***************************************************************************)
(* The block ledger of the settlement rail: DrunixChain (chain.go), its    *)
(* Postgres home (chain_store.go), the transactional outbox written with   *)
(* every block (outbox.go), the relay that drains it (outbox_relay.go) and *)
(* the durability gate in front of the money routes (umi_server.go).       *)
(*                                                                         *)
(* One gateway process.  Every method of the chain holds c.mu for its whole*)
(* body, the database calls included, so each is one action; what          *)
(* interleaves is requests between their gate and their append, the two    *)
(* halves of RecoverTruncate, the relay, crashes and restarts.             *)
(*                                                                         *)
(* A block's hash is a fresh number (collision-freedom is assumed) and its *)
(* transactions are abstracted to `kind` (whether a second outbox topic    *)
(* applies) and `sound` (whether merkle root and hash still match).        *)
(***************************************************************************)
EXTENDS Naturals, Sequences, FiniteSets

CONSTANTS
    Clients,      \* concurrent money requests, each behind the durability gate
    MaxHeight,    \* bound: highest block height
    MaxMinted,    \* bound: blocks ever cut, the lost ones included
    MaxFaults,    \* bound: failed or ambiguous database calls
    MaxCrashes,   \* bound: process crashes
    MaxTampers,   \* bound: edits of stored rows made behind the program's back
    NoBlock,      \* no row of umi_block at this height
    NoRow         \* no row of umi_outbox under this key

Heights == 0..MaxHeight
Hashes  == 1..MaxMinted
GenesisPrevHash == 0
Kinds   == {"plain", "settled"}
Topics  == {"ledger.block", "umi.settled"}
Keys    == Topics \X Heights              \* (topic, dedupe_key), one txn per block

Block == [height : Heights, hash : Hashes, prev : 0..MaxMinted,
          kind : Kinds, sound : BOOLEAN]
Row   == [hash : Hashes, delivered : BOOLEAN]

ASSUME ChainBounds ==
    /\ MaxHeight \in Nat \ {0} /\ MaxMinted \in Nat \ {0}
    /\ MaxFaults \in Nat /\ MaxCrashes \in Nat /\ MaxTampers \in Nat
    /\ IsFiniteSet(Clients)
ASSUME ChainNulls == NoBlock \notin Block /\ NoRow \notin Row

VARIABLES
    mode,       \* "down", "store" (database attached) or "memory"
    blocks,     \* c.Blocks
    pending,    \* c.pending: committed in memory, durable write failed
    sealed,     \* c.sealed
    wedged,     \* c.mu was left locked by a panic inside RecoverTruncate
    disk,       \* table umi_block, by height
    outbox,     \* table umi_outbox, by (topic, dedupe_key)
    told,       \* (topic, hash) pairs consumers and live subscribers have seen
    pc,         \* each client: "idle" or "admitted" (past the gate)
    repair,     \* RecoverTruncate: "idle", or "cut" between truncation and append
    misrepaired,\* some truncation cut at an index that was not the broken one's
    minted, faults, crashes, tampers

ledger == <<blocks, pending, sealed, disk, outbox>>
budget == <<faults, crashes, tampers>>
vars == <<mode, blocks, pending, sealed, wedged, disk, outbox, told, pc, repair,
          misrepaired, minted, faults, crashes, tampers>>
-----------------------------------------------------------------------------
(* Blocks and their outbox rows *)

TopicsOf(b) == {"ledger.block"} \cup (IF b.kind = "settled" THEN {"umi.settled"} ELSE {})

TipHash(bs) == IF bs = <<>> THEN GenesisPrevHash ELSE bs[Len(bs)].hash

\* verifyLocked's three checks on the block at index i
Replays(bs, i) ==
    /\ bs[i].prev = (IF i = 1 THEN GenesisPrevHash ELSE bs[i-1].hash)
    /\ bs[i].sound

Valid(bs) == \A i \in DOMAIN bs : Replays(bs, i)

\* verifyLocked stops at index i; its BrokenAt is that block's own height.
FirstBroken(bs, i) == ~Replays(bs, i) /\ \A j \in 1..(i-1) : Replays(bs, j)

\* INSERT ... ON CONFLICT (height) DO NOTHING, for each block of the set bs
InsertBlocks(d, bs) ==
    [h \in Heights |->
        IF d[h] # NoBlock \/ ~\E b \in bs : b.height = h
        THEN d[h] ELSE CHOOSE b \in bs : b.height = h]

\* (mutant: a retried block's events are not written)
InsertRows_Newest(o, bs) ==
    [k \in Keys |->
        LET causes == {b \in bs : /\ b.height = k[2] /\ k[1] \in TopicsOf(b)
                                  /\ \A c \in bs : c.height <= b.height} IN
        IF o[k] # NoRow \/ causes = {}
        THEN o[k] ELSE [hash |-> (CHOOSE b \in causes : TRUE).hash, delivered |-> FALSE]]

\* the same transactions' INSERT INTO umi_outbox ... ON CONFLICT DO NOTHING
InsertRows(o, bs) ==
    [k \in Keys |->
        LET causes == {b \in bs : b.height = k[2] /\ k[1] \in TopicsOf(b)} IN
        IF o[k] # NoRow \/ causes = {}
        THEN o[k] ELSE [hash |-> (CHOOSE b \in causes : TRUE).hash, delivered |-> FALSE]]

\* ORDER BY height: s lists the stored blocks of d, lowest first
IsReplayOf(s, d) ==
    /\ \A i, j \in DOMAIN s : i < j => s[i].height < s[j].height
    /\ \A h \in Heights : d[h] # NoBlock => \E i \in DOMAIN s : s[i] = d[h]

Stored == {disk[h] : h \in {g \in Heights : disk[g] # NoBlock}}
-----------------------------------------------------------------------------
(* AppendBlockWithEvents: committed, refused, or committed although the     *)
(* caller saw an error (a timeout on COMMIT).                               *)
Outcomes == {"ok", "failed", "unknown"}
Cost(o)  == IF o = "ok" THEN 0 ELSE 1

\* flushPendingLocked: the n oldest reach storage, then the first failure
\* stops the flush (none when n is the whole queue).
FlushRuns ==
    {f \in [n : 0..Len(pending), stop : Outcomes] : (f.stop = "ok") <=> (f.n = Len(pending))}
Flushed(f) ==
    {pending[i] : i \in 1..f.n} \cup
    (IF f.stop = "unknown" THEN {pending[f.n + 1]} ELSE {})

\* (mutant: the block whose retry failed is popped as well)
Waiting_PopsFailed(f) == SubSeq(pending, f.n + 2, Len(pending))

Waiting(f) == SubSeq(pending, f.n + 1, Len(pending))

\* (mutant: the newest block goes to the head of the retry queue)
Enqueue_AtHead(q, b) == <<b>> \o q

Enqueue(q, b) == Append(q, b)

\* (mutant: the height counts the new block itself)
CutBlock_OffByOne(bs, k) ==
    [height |-> Len(bs) + 1, hash |-> minted + 1, prev |-> TipHash(bs),
     kind |-> k, sound |-> TRUE]

CutBlock(bs, k) ==
    [height |-> Len(bs), hash |-> minted + 1, prev |-> TipHash(bs),
     kind |-> k, sound |-> TRUE]

\* Append with a store: flush what waits, then try the new block whatever the
\* flush did; queue it if its write failed; tell live subscribers at once only
\* when it was not persisted.
AppendDurable(k) ==
    /\ mode = "store"
    /\ \E f \in FlushRuns, o \in Outcomes :
        LET b == CutBlock(blocks, k)
            written == Flushed(f) \cup (IF o = "failed" THEN {} ELSE {b})
        IN /\ faults + Cost(f.stop) + Cost(o) <= MaxFaults
           /\ faults' = faults + Cost(f.stop) + Cost(o)
           /\ disk' = InsertBlocks(disk, written)
           /\ outbox' = InsertRows(outbox, written)
           /\ pending' = IF o = "ok" THEN Waiting(f) ELSE Enqueue(Waiting(f), b)
           /\ blocks' = Append(blocks, b)
           /\ told' = IF o = "ok" THEN told ELSE told \cup {<<"ledger.block", b.hash>>}

\* Append with no store attached: the block lives only in this process.
AppendInMemory(k) ==
    /\ mode = "memory"
    /\ blocks' = Append(blocks, CutBlock(blocks, k))
    /\ UNCHANGED <<pending, disk, outbox, told, faults>>

AppendBlock(k) ==
    /\ ~sealed /\ ~wedged
    /\ Len(blocks) <= MaxHeight /\ minted < MaxMinted
    /\ minted' = minted + 1
    /\ AppendDurable(k) \/ AppendInMemory(k)
    /\ UNCHANGED <<mode, sealed, wedged, misrepaired, crashes, tampers>>
-----------------------------------------------------------------------------
(* Requests *)

\* (mutant: UMI_DURABILITY=best-effort by default)
chainDegraded_BestEffort == FALSE

chainDegraded == pending # <<>>

\* durabilityGate and sealedLedgerGate in front of a money route
Admit(c) ==
    /\ mode # "down" /\ ~sealed /\ ~wedged
    /\ ~chainDegraded
    /\ pc[c] = "idle"
    /\ pc' = [pc EXCEPT ![c] = "admitted"]
    /\ UNCHANGED <<mode, ledger, wedged, told, repair, misrepaired, minted, budget>>

\* the admitted request has moved its money and records it
Record(c) ==
    /\ pc[c] = "admitted"
    /\ \E k \in Kinds : AppendBlock(k)
    /\ pc' = [pc EXCEPT ![c] = "idle"]
    /\ UNCHANGED repair

\* a route that commits a block without the durability gate (ISIN assignment)
RecordUngated ==
    /\ AppendBlock("plain")
    /\ UNCHANGED <<pc, repair>>
-----------------------------------------------------------------------------
(* RecoverTruncate *)

\* (mutant: the delete starts one block too early)
Discarded_OneMore(g, h) == g + 1 >= h

\* DeleteBlocksAbove(h-1): one transaction over both tables
Discarded(g, h) == g >= h

BlocksBelow(h) == [g \in Heights |-> IF Discarded(g, h) THEN NoBlock ELSE disk[g]]

\* (mutant: the discarded blocks' events are left behind)
RowsBelow_All(h) == outbox

RowsBelow(h) == [k \in Keys |-> IF Discarded(k[2], h) THEN NoRow ELSE outbox[k]]

\* The height of the first broken block is used as an index into Blocks.
RecoverCut ==
    /\ mode = "store" /\ ~wedged /\ repair = "idle"
    /\ \E brk \in DOMAIN blocks, o \in Outcomes :
        LET broken == blocks[brk].height IN
        /\ FirstBroken(blocks, brk)
        /\ broken > 0
        /\ broken <= Len(blocks)
        /\ faults + Cost(o) <= MaxFaults
        /\ faults' = faults + Cost(o)
        /\ IF o = "failed" THEN UNCHANGED <<disk, outbox>>
           ELSE disk' = BlocksBelow(broken) /\ outbox' = RowsBelow(broken)
        /\ IF o = "ok"
           THEN /\ blocks' = SubSeq(blocks, 1, broken)
                /\ pending' = <<>>
                /\ sealed' = FALSE
                /\ repair' = "cut"
                /\ misrepaired' = (misrepaired \/ brk # broken + 1)
           ELSE UNCHANGED <<blocks, pending, sealed, repair, misrepaired>>
    /\ UNCHANGED <<mode, wedged, told, pc, minted, crashes, tampers>>

\* Blocks[broken:] with broken past the end panics while c.mu is held.
RecoverPanic ==
    /\ mode = "store" /\ ~wedged /\ repair = "idle"
    /\ \E brk \in DOMAIN blocks :
        FirstBroken(blocks, brk) /\ blocks[brk].height > Len(blocks)
    /\ wedged' = TRUE
    /\ UNCHANGED <<mode, ledger, told, pc, repair, misrepaired, minted, budget>>

\* the lock was released in between: LEDGER_TRUNCATED is an ordinary append
RecoverAppend ==
    /\ repair = "cut"
    /\ AppendBlock("plain")
    /\ repair' = "idle"
    /\ UNCHANGED pc
-----------------------------------------------------------------------------
(* Boot, crash, tampering, relay *)

Start(m, bs) ==
    /\ mode = "down"
    /\ mode' = m
    /\ blocks' = bs
    /\ UNCHANGED <<wedged, told, pc, repair, misrepaired, crashes, tampers>>

\* NewChainWithStore on an empty database: genesis is cut through Append, before
\* any subscriber is attached
BootFresh ==
    /\ Stored = {} /\ minted < MaxMinted
    /\ \E o \in Outcomes :
        LET g == CutBlock(<<>>, "plain")
            written == IF o = "failed" THEN {} ELSE {g}
        IN /\ faults + Cost(o) <= MaxFaults
           /\ faults' = faults + Cost(o)
           /\ disk' = InsertBlocks(disk, written)
           /\ outbox' = InsertRows(outbox, written)
           /\ pending' = IF o = "ok" THEN <<>> ELSE <<g>>
           /\ Start("store", <<g>>)
    /\ minted' = minted + 1
    /\ sealed' = FALSE

\* (mutant: contents are checked at boot but the links are not)
Unverified_ContentsOnly(s) == \E i \in DOMAIN s : ~s[i].sound

Unverified(s) == ~Valid(s)

\* NewChainWithStore on stored history: replay, verify, seal if it does not replay
BootReplay ==
    /\ Stored # {}
    /\ \E n \in 1..(MaxHeight + 1) : \E s \in [1..n -> Stored] :
        /\ IsReplayOf(s, disk)
        /\ Start("store", s)
        /\ sealed' = Unverified(s)
    /\ pending' = <<>>
    /\ UNCHANGED <<disk, outbox, minted, faults>>

\* the database does not answer at boot: a fresh chain, in memory for this run
BootWithoutStore ==
    /\ faults < MaxFaults /\ minted < MaxMinted
    /\ Start("memory", <<CutBlock(<<>>, "plain")>>)
    /\ faults' = faults + 1
    /\ minted' = minted + 1
    /\ pending' = <<>> /\ sealed' = FALSE
    /\ UNCHANGED <<disk, outbox>>

Crash ==
    /\ mode # "down" /\ crashes < MaxCrashes
    /\ crashes' = crashes + 1
    /\ mode' = "down"
    /\ blocks' = <<>> /\ pending' = <<>> /\ sealed' = FALSE /\ wedged' = FALSE
    /\ pc' = [c \in Clients |-> "idle"] /\ repair' = "idle"
    /\ UNCHANGED <<disk, outbox, told, misrepaired, minted, faults, tampers>>

\* a stored block's contents are edited in the database
Tamper(h) ==
    /\ tampers < MaxTampers /\ disk[h] # NoBlock
    /\ tampers' = tampers + 1
    /\ disk' = [disk EXCEPT ![h].sound = FALSE]
    /\ UNCHANGED <<mode, blocks, pending, sealed, wedged, outbox, told, pc, repair,
                   misrepaired, minted, faults, crashes>>

Undelivered == {k \in Keys : outbox[k] # NoRow /\ ~outbox[k].delivered}

\* (mutant: a row nothing can deliver counts as delivered)
Dispatch_Nothing(batch) == told

\* what the consumers have seen once the rows of `batch` were handed over
Dispatch(batch) == told \cup {<<k[1], outbox[k].hash>> : k \in batch}

\* (mutant: the UPDATE that marks a row is missing)
Mark_None(batch) == outbox

Mark(batch) ==
    [k \in Keys |-> IF k \in batch THEN [outbox[k] EXCEPT !.delivered = TRUE] ELSE outbox[k]]

\* ProcessPending: the rows of `batch` were handed to their consumers and
\* accepted (the others' errors leave them as they were); the marks are kept
\* only if the transaction commits.
Relay(batch, committed) ==
    /\ mode = "store" /\ batch # {} /\ batch \subseteq Undelivered
    /\ told' = Dispatch(batch)
    /\ IF committed
       THEN outbox' = Mark(batch) /\ UNCHANGED faults
       ELSE /\ faults < MaxFaults /\ faults' = faults + 1
            /\ UNCHANGED outbox
    /\ UNCHANGED <<mode, blocks, pending, sealed, wedged, disk, pc, repair,
                   misrepaired, minted, crashes, tampers>>
-----------------------------------------------------------------------------
Init ==
    /\ mode = "down" /\ blocks = <<>> /\ pending = <<>>
    /\ sealed = FALSE /\ wedged = FALSE
    /\ disk = [h \in Heights |-> NoBlock]
    /\ outbox = [k \in Keys |-> NoRow]
    /\ told = {}
    /\ pc = [c \in Clients |-> "idle"] /\ repair = "idle" /\ misrepaired = FALSE
    /\ minted = 0 /\ faults = 0 /\ crashes = 0 /\ tampers = 0

Boot == BootFresh \/ BootReplay \/ BootWithoutStore

Next ==
    \/ \E c \in Clients : Admit(c) \/ Record(c)
    \/ RecordUngated
    \/ RecoverCut \/ RecoverPanic \/ RecoverAppend
    \/ Boot \/ Crash
    \/ \E h \in Heights : Tamper(h)
    \/ \E batch \in SUBSET Undelivered, committed \in BOOLEAN : Relay(batch, committed)

Spec == Init /\ [][Next]_vars

\* The relay's ticker keeps handing out the rows, and the consumers accept them in the
\* end.  Nobody is obliged to send a request.
Fairness == \A k \in Keys : WF_vars(k \in Undelivered /\ Relay({k}, TRUE))

FairSpec == Spec /\ Fairness
-----------------------------------------------------------------------------
(* Properties *)

TypeOK ==
    /\ mode \in {"down", "store", "memory"}
    /\ blocks \in Seq(Block) /\ pending \in Seq(Block)
    /\ sealed \in BOOLEAN /\ wedged \in BOOLEAN /\ misrepaired \in BOOLEAN
    /\ disk \in [Heights -> Block \cup {NoBlock}]
    /\ outbox \in [Keys -> Row \cup {NoRow}]
    /\ told \subseteq Topics \X Hashes
    /\ pc \in [Clients -> {"idle", "admitted"}]
    /\ repair \in {"idle", "cut"}
    /\ minted \in 0..MaxMinted
    /\ faults \in Nat /\ crashes \in Nat /\ tampers \in Nat

IsStored(b) == b.height \in Heights /\ disk[b.height] # NoBlock /\ disk[b.height].hash = b.hash

\* A block committed in memory is never lost by a running process: whatever
\* writes failed, it is in storage or still queued for retry (chain.go, Append
\* and flushPendingLocked).
NothingLost ==
    mode = "store" /\ ~sealed /\ ~misrepaired =>
        \A i \in DOMAIN blocks :
            IsStored(blocks[i]) \/ \E j \in DOMAIN pending : pending[j] = blocks[i]

\* The retry queue holds committed blocks in the order they were cut, so a
\* flush can never store a later queued block before an earlier one.
PendingInOrder ==
    /\ \A i, j \in DOMAIN pending : i < j => pending[i].height < pending[j].height
    /\ \A i \in DOMAIN pending : \E j \in DOMAIN blocks : blocks[j] = pending[i]

\* A block and the outbox rows it implies exist together or not at all, through
\* failed writes, ambiguous commits, crashes and aligned repairs (outbox.go).
OutboxIffBlock ==
    ~misrepaired =>
        \A t \in Topics, h \in Heights :
            IF disk[h] # NoBlock /\ t \in TopicsOf(disk[h])
            THEN outbox[<<t, h>>] # NoRow /\ outbox[<<t, h>>].hash = disk[h].hash
            ELSE outbox[<<t, h>>] = NoRow

\* At-least-once: a row is marked delivered only after its consumer accepted it
\* (outbox_relay.go).
DeliveredWasTold ==
    \A k \in Keys : outbox[k] # NoRow /\ outbox[k].delivered => <<k[1], outbox[k].hash>> \in told

\* A process that still appends holds a chain that replays (NewChainWithStore
\* seals one that does not; a repair reopens only the part that does).
UnsealedReplays ==
    mode # "down" /\ ~sealed /\ ~misrepaired => Valid(blocks)

\* What a storage outage can leave unrecorded is bounded by the requests in
\* flight when it began: the gate admits no settlement while a block waits.
SettledPending == {i \in DOMAIN pending : pending[i].kind = "settled"}
OutageIsBounded ==
    Cardinality(SettledPending) + Cardinality({c \in Clients : pc[c] = "admitted"})
        <= Cardinality(Clients)

\* A stored block is never replaced by another one, and is removed only when it
\* lies at or after the break of a history that does not replay (chain.go:324
\* "Nothing before the break is touched").
StoredNeverRewritten ==
    [][\A h \in Heights : disk[h] # NoBlock =>
          \/ disk'[h] # NoBlock /\ disk'[h].hash = disk[h].hash /\ disk'[h].kind = disk[h].kind
          \/ /\ disk'[h] = NoBlock
             /\ \E i \in DOMAIN blocks : FirstBroken(blocks, i) /\ h >= blocks[i].height]_vars

\* Every stored consequence reaches its consumer, while the process runs with
\* its database (or its block is discarded by a repair).
EventuallyDelivered ==
    \A k \in Keys : (mode = "store" /\ k \in Undelivered) ~> (k \notin Undelivered \/ mode # "store")
=============================================================================
