--------------------------- MODULE Gateway_proofs ---------------------------
(***************************************************************************)
(* Theorems about what the gateway on the Go side keeps by itself, for     *)
(* every value of the constants.                                           *)
(*                                                                         *)
(* Chain (LedgerChain): first the types; then that the block ledger loses  *)
(* nothing and keeps its outbox in step with its blocks, from an inductive *)
(* invariant.                                                              *)
(*                                                                         *)
(* Conditional settlement desk (ConditionDesk): DeskInv is inductive: no   *)
(* reservation exceeds its balance, a released condition has moved its     *)
(* legs, also while the call that moves them is on its way, and the record *)
(* of a condition that no two calls meet on is true.                       *)
(***************************************************************************)
EXTENDS LedgerChain, ConditionDesk, FiniteSetTheorems, WellFoundedInduction, TLAPS

USE DEF Heights, Hashes, Kinds, Topics, GenesisPrevHash

-----------------------------------------------------------------------------
(* What the helpers return *)

(* The hash a new block links to is a hash: that of the last block in memory, or
   the genesis hash of an empty chain (DrunixChain.Append reading prevHash). *)
LEMMA TipHashType ==
    ASSUME NEW bs \in Seq(Block) PROVE TipHash(bs) \in 0..MaxMinted
<1>1. CASE bs = <<>>
  BY <1>1, ChainBounds DEF TipHash
<1>2. CASE bs # <<>>
  <2>1. Len(bs) \in DOMAIN bs
    BY <1>2
  <2>2. bs[Len(bs)] \in Block
    BY <2>1
  <2>3. QED
    BY <1>2, <2>2, ChainBounds DEF TipHash, Block
<1>3. QED
  BY <1>1, <1>2

(* The empty chain and the one-block chain are chains: what a boot starts with. *)
LEMMA ShortSeq ==
    /\ <<>> \in Seq(Block) /\ Len(<<>>) = 0
    /\ \A b \in Block : <<b>> \in Seq(Block)
OBVIOUS

(* The block Append builds from a block type, its contents and the tip is a
   block. *)
LEMMA CutBlockType ==
    ASSUME NEW bs \in Seq(Block), NEW k \in Kinds, minted \in Nat,
           Len(bs) <= MaxHeight, minted < MaxMinted
    PROVE  CutBlock(bs, k) \in Block
<1>1. Len(bs) \in 0..MaxHeight /\ minted + 1 \in 1..MaxMinted
  BY ChainBounds
<1>2. QED
  BY <1>1, TipHashType DEF CutBlock, Block

(* flushPendingLocked writes blocks off the front of the queue, and what still
   waits after it is a queue of blocks. *)
LEMMA FlushedType ==
    ASSUME pending \in Seq(Block), NEW f \in FlushRuns
    PROVE  Flushed(f) \subseteq Block /\ Waiting(f) \in Seq(Block)
<1>1. f.n \in 0..Len(pending) /\ (f.stop = "ok" <=> f.n = Len(pending))
  BY DEF FlushRuns
<1>2. QED
  BY <1>1 DEF Flushed, Waiting

(* Storing blocks by height keeps the table a table of blocks
   (AppendBlockWithEvents, the umi_block half of its transaction). *)
LEMMA InsertBlocksType ==
    ASSUME NEW d \in [Heights -> Block \cup {NoBlock}], NEW bs \in SUBSET Block
    PROVE  InsertBlocks(d, bs) \in [Heights -> Block \cup {NoBlock}]
<1>1. SUFFICES ASSUME NEW h \in Heights
               PROVE  InsertBlocks(d, bs)[h] \in Block \cup {NoBlock}
  BY DEF InsertBlocks
<1>2. CASE d[h] # NoBlock \/ ~\E b \in bs : b.height = h
  BY <1>2 DEF InsertBlocks
<1>3. CASE ~(d[h] # NoBlock \/ ~\E b \in bs : b.height = h)
  <2>1. (CHOOSE b \in bs : b.height = h) \in bs
    BY <1>3
  <2>2. QED
    BY <1>3, <2>1 DEF InsertBlocks
<1>4. QED
  BY <1>2, <1>3

(* Adding the outbox rows of stored blocks keeps the outbox a table of rows
   (AppendBlockWithEvents, the umi_outbox half). *)
LEMMA InsertRowsType ==
    ASSUME NEW o \in [Keys -> Row \cup {NoRow}], NEW bs \in SUBSET Block
    PROVE  InsertRows(o, bs) \in [Keys -> Row \cup {NoRow}]
<1>1. SUFFICES ASSUME NEW k \in Keys
               PROVE  InsertRows(o, bs)[k] \in Row \cup {NoRow}
  BY DEF InsertRows
<1> DEFINE causes == {b \in bs : b.height = k[2] /\ k[1] \in TopicsOf(b)}
<1>2. CASE o[k] # NoRow \/ causes = {}
  BY <1>2 DEF InsertRows
<1>3. CASE ~(o[k] # NoRow \/ causes = {})
  <2>1. (CHOOSE b \in causes : TRUE) \in Block
    BY <1>3
  <2>2. [hash |-> (CHOOSE b \in causes : TRUE).hash, delivered |-> FALSE] \in Row
    BY <2>1 DEF Block, Row
  <2>3. QED
    BY <1>3, <2>2 DEF InsertRows
<1>4. QED
  BY <1>2, <1>3

-----------------------------------------------------------------------------
(* Type correctness *)

(* Append as a whole, flush, own write, queue, memory and live subscribers,
   keeps every variable it touches in its type. *)
LEMMA AppendBlockType ==
    ASSUME TypeOK, NEW k \in Kinds, AppendBlock(k)
    PROVE  /\ blocks' \in Seq(Block) /\ pending' \in Seq(Block)
           /\ disk' \in [Heights -> Block \cup {NoBlock}]
           /\ outbox' \in [Keys -> Row \cup {NoRow}]
           /\ told' \subseteq Topics \X Hashes
           /\ minted' \in 0..MaxMinted /\ faults' \in Nat
           /\ UNCHANGED <<mode, sealed, wedged, misrepaired, crashes, tampers>>
<1> DEFINE b == CutBlock(blocks, k)
<1>1. b \in Block
  BY CutBlockType, ChainBounds DEF TypeOK, AppendBlock
<1>2. CASE AppendDurable(k)
  <2>1. PICK f \in FlushRuns, o \in Outcomes :
          LET written == Flushed(f) \cup (IF o = "failed" THEN {} ELSE {b})
          IN /\ faults' = faults + Cost(f.stop) + Cost(o)
             /\ disk' = InsertBlocks(disk, written)
             /\ outbox' = InsertRows(outbox, written)
             /\ pending' = IF o = "ok" THEN Waiting(f) ELSE Append(Waiting(f), b)
             /\ blocks' = Append(blocks, b)
             /\ told' = IF o = "ok" THEN told ELSE told \cup {<<"ledger.block", b.hash>>}
    BY <1>2 DEF AppendDurable, Enqueue
  <2> DEFINE written == Flushed(f) \cup (IF o = "failed" THEN {} ELSE {b})
  <2>2. written \subseteq Block /\ Waiting(f) \in Seq(Block)
    BY <1>1, FlushedType DEF TypeOK
  <2>3. disk' \in [Heights -> Block \cup {NoBlock}]
    BY <2>1, <2>2, InsertBlocksType DEF TypeOK
  <2>4. outbox' \in [Keys -> Row \cup {NoRow}]
    BY <2>1, <2>2, InsertRowsType DEF TypeOK
  <2>5. pending' \in Seq(Block) /\ blocks' \in Seq(Block)
    BY <1>1, <2>1, <2>2 DEF TypeOK
  <2>6. told' \subseteq Topics \X Hashes
    BY <1>1, <2>1 DEF TypeOK, Block
  <2>7. Cost(f.stop) \in Nat /\ Cost(o) \in Nat
    BY DEF Cost
  <2>8. faults' \in Nat
    BY <2>1, <2>7 DEF TypeOK
  <2>9. QED
    BY <2>3, <2>4, <2>5, <2>6, <2>8, ChainBounds DEF TypeOK, AppendBlock
<1>3. CASE AppendInMemory(k)
  BY <1>1, <1>3, ChainBounds DEF TypeOK, AppendBlock, AppendInMemory
<1>4. QED
  BY <1>2, <1>3 DEF AppendBlock

(* DeleteBlocksAbove leaves a table of blocks and a table of rows. *)
LEMMA CutTypes ==
    ASSUME TypeOK, NEW h \in Nat
    PROVE  /\ BlocksBelow(h) \in [Heights -> Block \cup {NoBlock}]
           /\ RowsBelow(h) \in [Keys -> Row \cup {NoRow}]
BY DEF TypeOK, BlocksBelow, RowsBelow

(* The genesis block of an empty database, stored or queued, is type correct. *)
LEMMA GenesisType ==
    ASSUME TypeOK, minted < MaxMinted
    PROVE  CutBlock(<<>>, "plain") \in Block
<1>1. minted + 1 \in 1..MaxMinted /\ 0 \in 0..MaxHeight /\ 0 \in 0..MaxMinted
  BY ChainBounds DEF TypeOK
<1>2. Len(<<>>) = 0
  OBVIOUS
<1>3. CutBlock(<<>>, "plain") =
        [height |-> 0, hash |-> minted + 1, prev |-> 0, kind |-> "plain", sound |-> TRUE]
  BY Zenon, <1>2 DEF CutBlock, TipHash
<1>4. [height |-> 0, hash |-> minted + 1, prev |-> 0, kind |-> "plain", sound |-> TRUE] \in Block
  <2> DEFINE g == minted + 1
  <2>1. \A x \in Hashes : [height |-> 0, hash |-> x, prev |-> 0, kind |-> "plain", sound |-> TRUE] \in Block
    BY <1>1 DEF Block
  <2>2. QED
    BY <1>1, <2>1
<1>5. QED
  BY Zenon, <1>3, <1>4

(* NewChainWithStore keeps types in each of its outcomes: no database, an empty
   one, a history that replays and one that seals the chain. *)
LEMMA BootType ==
    ASSUME TypeOK, Boot
    PROVE  TypeOK'
<1> USE ChainBounds
<1>1. CASE BootFresh
  <2> DEFINE g == CutBlock(<<>>, "plain")
  <2>1. g \in Block
    BY <1>1, GenesisType DEF BootFresh
  <2>2. PICK o \in Outcomes :
          LET written == IF o = "failed" THEN {} ELSE {g}
          IN /\ faults' = faults + Cost(o)
             /\ disk' = InsertBlocks(disk, written)
             /\ outbox' = InsertRows(outbox, written)
             /\ pending' = IF o = "ok" THEN <<>> ELSE <<g>>
             /\ Start("store", <<g>>)
    BY <1>1 DEF BootFresh
  <2>3. disk' \in [Heights -> Block \cup {NoBlock}]
    BY <2>1, <2>2, InsertBlocksType DEF TypeOK
  <2>4. outbox' \in [Keys -> Row \cup {NoRow}]
    BY <2>1, <2>2, InsertRowsType DEF TypeOK
  <2>5. /\ pending' \in Seq(Block) /\ blocks' \in Seq(Block)
        /\ faults' \in Nat /\ minted' \in 0..MaxMinted /\ sealed' = FALSE
    BY <1>1, <2>1, <2>2, ShortSeq DEF TypeOK, BootFresh, Start, Cost
  <2>6. QED
    BY <2>2, <2>3, <2>4, <2>5 DEF TypeOK, Start
<1>2. CASE BootReplay
  <2>1. PICK n \in 1..(MaxHeight + 1) : \E s \in [1..n -> Stored] :
                Start("store", s) /\ sealed' = Unverified(s)
    BY <1>2 DEF BootReplay
  <2>2. PICK s \in [1..n -> Stored] : Start("store", s) /\ sealed' = Unverified(s)
    BY <2>1
  <2>3. Stored \subseteq Block
    BY DEF Stored, TypeOK
  <2>4. s \in Seq(Block)
    BY <2>2, <2>3
  <2>5. Unverified(s) \in BOOLEAN
    BY DEF Unverified, Valid
  <2>6. QED
    BY <1>2, <2>2, <2>4, <2>5 DEF TypeOK, BootReplay, Start
<1>3. CASE BootWithoutStore
  <2>1. CutBlock(<<>>, "plain") \in Block
    BY <1>3, GenesisType DEF BootWithoutStore
  <2>2. blocks' \in Seq(Block) /\ pending' \in Seq(Block)
    BY <1>3, <2>1, ShortSeq DEF BootWithoutStore, Start
  <2>3. faults' \in Nat /\ minted' \in 0..MaxMinted
    BY <1>3 DEF TypeOK, BootWithoutStore
  <2>4. sealed' \in BOOLEAN
    BY <1>3 DEF BootWithoutStore
  <2>5. QED
    BY <1>3, <2>2, <2>3, <2>4 DEF TypeOK, BootWithoutStore, Start
<1>4. QED
  BY <1>1, <1>2, <1>3 DEF Boot

(* The first half of RecoverTruncate, the cut under the lock, keeps types: the
   chain that stays is a prefix and the queue is empty. *)
LEMMA RecoverCutType ==
    ASSUME TypeOK, RecoverCut
    PROVE  TypeOK'
<1>1. PICK brk \in DOMAIN blocks, o \in Outcomes :
        LET broken == blocks[brk].height IN
        /\ broken <= Len(blocks)
        /\ faults' = faults + Cost(o)
        /\ IF o = "failed" THEN UNCHANGED <<disk, outbox>>
           ELSE disk' = BlocksBelow(broken) /\ outbox' = RowsBelow(broken)
        /\ IF o = "ok"
           THEN /\ blocks' = SubSeq(blocks, 1, broken)
                /\ pending' = <<>>
                /\ sealed' = FALSE
                /\ repair' = "cut"
                /\ misrepaired' = (misrepaired \/ brk # broken + 1)
           ELSE UNCHANGED <<blocks, pending, sealed, repair, misrepaired>>
  BY Zenon DEF RecoverCut
<1> DEFINE broken == blocks[brk].height
<1>3. broken \in Nat /\ broken <= Len(blocks)
  <2>1. blocks[brk] \in Block
    BY DEF TypeOK
  <2>2. QED
    BY <1>1, <2>1, ChainBounds DEF Block
<1>4. disk' \in [Heights -> Block \cup {NoBlock}] /\ outbox' \in [Keys -> Row \cup {NoRow}]
  BY <1>1, <1>3, CutTypes DEF TypeOK
<1>5. blocks' \in Seq(Block) /\ pending' \in Seq(Block)
  <2>1. SubSeq(blocks, 1, broken) \in Seq(Block)
    BY <1>3 DEF TypeOK
  <2>2. <<>> \in Seq(Block)
    OBVIOUS
  <2>3. QED
    BY <1>1, <2>1, <2>2 DEF TypeOK
<1>6. /\ sealed' \in BOOLEAN /\ repair' \in {"idle", "cut"}
      /\ misrepaired' \in BOOLEAN /\ faults' \in Nat
  <2>1. sealed' \in BOOLEAN /\ repair' \in {"idle", "cut"}
    BY <1>1 DEF TypeOK
  <2>2. misrepaired' \in BOOLEAN
    BY Zenon, <1>1 DEF TypeOK
  <2>3. faults' \in Nat
    BY <1>1 DEF TypeOK, Cost
  <2>4. QED
    BY <2>1, <2>2, <2>3
<1>7. QED
  BY <1>4, <1>5, <1>6 DEF TypeOK, RecoverCut

(* Whatever is appended, flushed, delivered, repaired, edited, lost or restarted,
   the chain in memory and its queue are sequences of blocks, the tables hold one
   block and one row per key, and every counter is a number: chain.go, outbox.go
   and chain_store.go as a whole. *)
THEOREM TypeCorrect == Spec => []TypeOK
<1>1. Init => TypeOK
  <2> SUFFICES ASSUME Init PROVE TypeOK
    OBVIOUS
  <2>1. blocks \in Seq(Block) /\ pending \in Seq(Block)
    BY ShortSeq DEF Init
  <2>2. /\ disk \in [Heights -> Block \cup {NoBlock}]
        /\ outbox \in [Keys -> Row \cup {NoRow}]
        /\ pc \in [Clients -> {"idle", "admitted"}]
    BY DEF Init
  <2>3. sealed \in BOOLEAN /\ wedged \in BOOLEAN /\ misrepaired \in BOOLEAN
    BY DEF Init
  <2>4. QED
    BY ChainBounds, <2>1, <2>2, <2>3 DEF Init, TypeOK
<1>2. TypeOK /\ [Next]_vars => TypeOK'
  <2> SUFFICES ASSUME TypeOK, [Next]_vars PROVE TypeOK'
    OBVIOUS
  <2> USE ChainBounds
  <2>1. ASSUME NEW c \in Clients, Admit(c) PROVE TypeOK'
    BY <2>1 DEF TypeOK, Admit, ledger, budget
  <2>2. ASSUME NEW c \in Clients, Record(c) PROVE TypeOK'
    <3>1. PICK k \in Kinds : AppendBlock(k)
      BY <2>2 DEF Record
    <3>2. QED
      BY <2>2, <3>1, AppendBlockType DEF TypeOK, Record
  <2>3. ASSUME RecordUngated PROVE TypeOK'
    BY <2>3, AppendBlockType DEF TypeOK, RecordUngated
  <2>4. ASSUME RecoverCut PROVE TypeOK'
    BY <2>4, RecoverCutType
  <2>5. ASSUME RecoverPanic PROVE TypeOK'
    BY <2>5 DEF TypeOK, RecoverPanic, ledger, budget
  <2>6. ASSUME RecoverAppend PROVE TypeOK'
    BY <2>6, AppendBlockType DEF TypeOK, RecoverAppend
  <2>7. ASSUME Boot PROVE TypeOK'
    BY <2>7, BootType
  <2>8. ASSUME Crash PROVE TypeOK'
    <3>1. blocks' \in Seq(Block) /\ pending' \in Seq(Block)
      BY <2>8, ShortSeq DEF Crash
    <3>2. sealed' \in BOOLEAN /\ wedged' \in BOOLEAN
      BY <2>8 DEF Crash
    <3>3. pc' \in [Clients -> {"idle", "admitted"}]
      BY <2>8 DEF Crash
    <3>4. QED
      BY <2>8, <3>1, <3>2, <3>3 DEF TypeOK, Crash
  <2>9. ASSUME NEW h \in Heights, Tamper(h) PROVE TypeOK'
    <3>1. disk' \in [Heights -> Block \cup {NoBlock}]
      BY <2>9, ZenonT(90) DEF TypeOK, Tamper, Block
    <3>2. QED
      BY <2>9, <3>1, SMTT(40) DEF TypeOK, Tamper
  <2>10. ASSUME NEW batch \in SUBSET Undelivered, NEW committed \in BOOLEAN,
                Relay(batch, committed)
         PROVE  TypeOK'
    <3>1. \A k \in batch : k \in Keys /\ outbox[k] \in Row
      BY DEF TypeOK, Undelivered
    <3>2. told' \subseteq Topics \X Hashes
      BY <2>10, <3>1 DEF TypeOK, Relay, Dispatch, Row, Keys
    <3>3. Mark(batch) \in [Keys -> Row \cup {NoRow}]
      BY <3>1 DEF TypeOK, Mark, Row
    <3>4. QED
      BY <2>10, <3>2, <3>3 DEF TypeOK, Relay
  <2>11. CASE UNCHANGED vars
    BY <2>11 DEF TypeOK, vars
  <2>12. QED
    BY <2>1, <2>2, <2>3, <2>4, <2>5, <2>6, <2>7, <2>8, <2>9, <2>10, <2>11 DEF Next
<1>3. QED
  BY <1>1, <1>2, PTL DEF Spec
------------------------------------------------------------------------------
(* Delivery *)

(* Storing more blocks leaves every row that was there as it was, and a row it
   adds has not been delivered. *)
LEMMA InsertedIsUndelivered ==
    ASSUME NEW o, NEW bs, NEW k \in Keys,
           InsertRows(o, bs)[k] # NoRow, InsertRows(o, bs)[k].delivered
    PROVE  o[k] # NoRow /\ InsertRows(o, bs)[k] = o[k]
<1> DEFINE causes == {b \in bs : b.height = k[2] /\ k[1] \in TopicsOf(b)}
           row    == [hash |-> (CHOOSE b \in causes : TRUE).hash, delivered |-> FALSE]
<1>1. InsertRows(o, bs)[k] = IF o[k] # NoRow \/ causes = {} THEN o[k] ELSE row
  BY DEF InsertRows
<1>2. ~row.delivered
  OBVIOUS
<1>3. QED
  BY <1>1, <1>2

(* Whoever has been told stays told, and a row that is delivered after a step was
   delivered before it under the same hash, for every step but the relay's. *)
LEMMA OnlyRelayDelivers ==
    ASSUME TypeOK, DeliveredWasTold, told \subseteq told',
           \A k \in Keys : outbox'[k] # NoRow /\ outbox'[k].delivered
                              => outbox[k] # NoRow /\ outbox'[k] = outbox[k]
    PROVE  DeliveredWasTold'
BY DEF DeliveredWasTold

(* Append tells more and inserts rows, and does nothing else to either. *)
LEMMA AppendTells ==
    ASSUME TypeOK, DeliveredWasTold, NEW k \in Kinds, AppendBlock(k)
    PROVE  DeliveredWasTold'
<1>1. CASE AppendDurable(k)
  <2>1. PICK bs : outbox' = InsertRows(outbox, bs)
    BY <1>1 DEF AppendDurable
  <2>2. told \subseteq told'
    BY <1>1 DEF AppendDurable
  <2>3. QED
    BY <2>1, <2>2, InsertedIsUndelivered, OnlyRelayDelivers
<1>2. CASE AppendInMemory(k)
  BY <1>2, OnlyRelayDelivers DEF AppendInMemory
<1>3. QED
  BY <1>1, <1>2 DEF AppendBlock

(* At least once, never zero times: through failed commits, retries, repairs and
   restarts a row is marked delivered only after its consumer has had it, for
   any number of clients, blocks and faults (outbox.go ProcessPending). *)
THEOREM DeliveryIsTold == Spec => []DeliveredWasTold
<1>1. Init => DeliveredWasTold
  BY DEF Init, DeliveredWasTold
<1>2. TypeOK /\ DeliveredWasTold /\ [Next]_vars => DeliveredWasTold'
  <2> SUFFICES ASSUME TypeOK, DeliveredWasTold, [Next]_vars PROVE DeliveredWasTold'
    OBVIOUS
  <2>1. ASSUME UNCHANGED <<outbox, told>> PROVE DeliveredWasTold'
    BY <2>1 DEF DeliveredWasTold
  <2>2. ASSUME NEW c \in Clients, Admit(c) \/ Record(c) PROVE DeliveredWasTold'
    <3>1. CASE Admit(c)
      BY <2>1, <3>1 DEF Admit, ledger
    <3>2. CASE Record(c)
      BY <3>2, AppendTells DEF Record
    <3>3. QED
      BY <2>2, <3>1, <3>2
  <2>3. ASSUME RecordUngated \/ RecoverAppend PROVE DeliveredWasTold'
    BY <2>3, AppendTells DEF RecordUngated, RecoverAppend, Kinds
  <2>4. ASSUME RecoverCut PROVE DeliveredWasTold'
    <3>1. \/ UNCHANGED outbox
          \/ \E h : outbox' = RowsBelow(h)
      BY <2>4 DEF RecoverCut
    <3>2. told' = told
      BY <2>4 DEF RecoverCut
    <3>3. QED
      BY <3>1, <3>2, OnlyRelayDelivers DEF RowsBelow
  <2>5. ASSUME RecoverPanic \/ Crash \/ (\E h \in Heights : Tamper(h)) PROVE DeliveredWasTold'
    BY <2>1, <2>5 DEF RecoverPanic, Crash, Tamper, ledger
  <2>6. ASSUME Boot PROVE DeliveredWasTold'
    <3>1. CASE BootFresh
      <4>1. PICK bs : outbox' = InsertRows(outbox, bs)
        BY <3>1 DEF BootFresh
      <4>2. told' = told
        BY <3>1 DEF BootFresh, Start
      <4>3. QED
        BY <4>1, <4>2, InsertedIsUndelivered, OnlyRelayDelivers
    <3>2. CASE BootReplay \/ BootWithoutStore
      BY <2>1, <3>2 DEF BootReplay, BootWithoutStore, Start
    <3>3. QED
      BY <2>6, <3>1, <3>2 DEF Boot
  <2>7. ASSUME NEW batch \in SUBSET Undelivered, NEW committed \in BOOLEAN,
               Relay(batch, committed)
        PROVE  DeliveredWasTold'
    <3>1. told' = told \cup {<<k[1], outbox[k].hash>> : k \in batch}
      BY <2>7 DEF Relay, Dispatch
    <3>2. outbox' = outbox \/ outbox' = Mark(batch)
      BY <2>7 DEF Relay
    <3>3. ASSUME NEW k \in Keys, outbox'[k] # NoRow, outbox'[k].delivered
          PROVE  <<k[1], outbox'[k].hash>> \in told'
      <4>1. CASE k \in batch
        <5>1. outbox[k] \in Row
          BY <4>1 DEF Undelivered, TypeOK
        <5>2. outbox'[k].hash = outbox[k].hash
          BY <3>2, <5>1 DEF Mark, Row
        <5>3. QED
          BY <3>1, <4>1, <5>2
      <4>2. CASE k \notin batch
        BY <3>1, <3>2, <3>3, <4>2 DEF Mark, DeliveredWasTold
      <4>3. QED
        BY <4>1, <4>2
    <3>4. QED
      BY <3>3 DEF DeliveredWasTold
  <2>8. CASE UNCHANGED vars
    BY <2>1, <2>8 DEF vars
  <2>9. QED
    BY <2>2, <2>3, <2>4, <2>5, <2>6, <2>7, <2>8 DEF Next
<1>3. QED
  BY <1>1, <1>2, TypeCorrect, PTL DEF Spec

------------------------------------------------------------------------------
(* The inductive invariant *)

\* every block this process or its database holds
Known == {blocks[i] : i \in DOMAIN blocks} \cup Stored

\* what waits is older than the next block to be cut
QueueOrdered ==
    /\ PendingInOrder
    /\ \A i \in DOMAIN pending : pending[i].height < Len(blocks)

DiskByHeight == \A h \in Heights : disk[h] # NoBlock => disk[h].height = h

HashesMinted == \A b \in Known : b.hash <= minted /\ b.prev <= minted

\* a hash names one block up to its contents, and links lead one height down
Linked ==
    /\ \A b \in Known : b.prev = GenesisPrevHash => b.height = 0
    /\ \A b, c \in Known :
        /\ b.hash = c.hash => b.height = c.height /\ b.kind = c.kind
        /\ b.prev = c.hash => b.height = c.height + 1

\* a chain that takes blocks has no gap
Contiguous == mode # "down" /\ ~sealed => \A i \in DOMAIN blocks : blocks[i].height = i - 1

Ascending == \A i, j \in DOMAIN blocks : i < j => blocks[i].height < blocks[j].height

\* the process knows every block its database holds
Covered ==
    mode = "store" => \A h \in Heights : disk[h] # NoBlock =>
        \E i \in DOMAIN blocks : blocks[i].hash = disk[h].hash

\* what a repair will keep of a sealed chain is stored
KeptStored ==
    mode = "store" /\ sealed =>
        \A i \in DOMAIN blocks : (\A j \in 1..i : Replays(blocks, j)) => IsStored(blocks[i])

Aligned ==
    /\ Linked /\ Contiguous /\ Ascending /\ Covered /\ KeptStored
    /\ UnsealedReplays /\ NothingLost /\ OutboxIffBlock

IInv == /\ TypeOK /\ QueueOrdered /\ DiskByHeight /\ HashesMinted
        /\ ~misrepaired => Aligned
------------------------------------------------------------------------------
(* Arithmetic and chains *)

\* Every set of numbers that is not empty has a least one: induction without an
\* operator parameter, used for chains of unknown length.
LEMMA LeastOfSet ==
    ASSUME NEW T, T \subseteq Nat, T # {} PROVE \E x \in T : \A y \in T : x <= y
<1> DEFINE R == {ss \in Nat \X Nat : ss[1] < ss[2]}
<1>1. IsWellFoundedOn(R, Nat)
  BY NatLessThanWellFounded DEF OpToRel
<1>2. PICK x \in T : \A y \in T : ~ (<<y, x>> \in R)
  BY <1>1, WFMin
<1>3. \A y \in T : y \in Nat /\ x \in Nat /\ (y < x => <<y, x>> \in R)
  OBVIOUS
<1>4. \A y \in T : ~(y < x)
  BY <1>2, <1>3
<1>5. \A y \in T : x <= y
  BY <1>3, <1>4
<1>6. QED
  BY <1>5

\* In a prefix that replays, heights count from zero: the links alone fix them
\* (verifyLocked never looks at a height).
LEMMA ReplayedPrefix ==
    ASSUME NEW bs \in Seq(Block), NEW n \in 0..Len(bs),
           \A j \in 1..n : Replays(bs, j),
           \A i \in DOMAIN bs : bs[i].prev = GenesisPrevHash => bs[i].height = 0,
           \A i, j \in DOMAIN bs : bs[i].prev = bs[j].hash => bs[i].height = bs[j].height + 1
    PROVE  \A i \in 1..n : bs[i].height = i - 1
<1> DEFINE Bad == {i \in 1..n : bs[i].height # i - 1}
<1>1. SUFFICES ASSUME Bad # {} PROVE FALSE
  OBVIOUS
<1>2. PICK m \in Bad : \A y \in Bad : m <= y
  <2>1. Bad \subseteq Nat
    OBVIOUS
  <2>2. QED
    BY Zenon, <1>1, <2>1, LeastOfSet
<1>3. m \in 1..n /\ m \in DOMAIN bs /\ bs[m].height # m - 1 /\ Replays(bs, m)
  BY <1>2
<1>4. CASE m = 1
  BY <1>3, <1>4 DEF Replays
<1>5. CASE m # 1
  <2>1. m - 1 \in 1..n /\ m - 1 \in DOMAIN bs /\ m - 1 \notin Bad
    BY <1>2, <1>3, <1>5
  <2>2. bs[m - 1].height = (m - 1) - 1
    BY <2>1
  <2>3. bs[m].prev = bs[m - 1].hash
    BY <1>3, <1>5 DEF Replays
  <2>4. bs[m].height = bs[m - 1].height + 1
    BY <1>3, <2>1, <2>3
  <2>5. bs[m].height = (m - 1) - 1 + 1
    BY <2>2, <2>4
  <2>6. QED
    BY <1>3, <2>5
<1>6. QED
  BY <1>4, <1>5
------------------------------------------------------------------------------
(* What is known after a step *)

\* two copies of one block: only its contents may differ
Same(b, c) ==
    b.height = c.height /\ b.hash = c.hash /\ b.prev = c.prev /\ b.kind = c.kind

\* Everything known is a block.
LEMMA KnownAreBlocks == ASSUME TypeOK PROVE Known \subseteq Block
BY DEF TypeOK, Known, Stored

\* What is known after a step is what its chain and its table hold then.
LEMMA KnownNext ==
    ASSUME NEW S, \A i \in DOMAIN blocks' : blocks'[i] \in S,
           \A h \in Heights : disk'[h] # NoBlock => disk'[h] \in S
    PROVE  Known' \subseteq S
BY DEF Known, Stored

\* A step that cuts no block and at most forgets or edits some keeps hashes
\* minted and links aligned.
LEMMA NothingNew ==
    ASSUME HashesMinted, minted' = minted,
           \A b \in Known' : \E c \in Known : Same(b, c)
    PROVE  HashesMinted' /\ (Linked => Linked')
<1>1. HashesMinted'
  BY DEF HashesMinted, Same
<1>2. ASSUME Linked PROVE Linked'
  <2>1. \A b \in Known' : b.prev = GenesisPrevHash => b.height = 0
    BY <1>2 DEF Linked, Same
  <2>2. ASSUME NEW b \in Known', NEW c \in Known'
        PROVE  /\ b.hash = c.hash => b.height = c.height /\ b.kind = c.kind
               /\ b.prev = c.hash => b.height = c.height + 1
    <3>1. PICK b0 \in Known, c0 \in Known : Same(b, b0) /\ Same(c, c0)
      OBVIOUS
    <3>2. QED
      BY <1>2, <3>1 DEF Linked, Same
  <2>3. QED
    BY <2>1, <2>2 DEF Linked
<1>3. QED
  BY <1>1, <1>2

\* the block continues a chain of known blocks, or starts one
Follows(b) ==
    \/ b.prev = GenesisPrevHash /\ b.height = 0
    \/ \E c \in Known : b.prev = c.hash /\ b.height = c.height + 1

\* A step that cuts one block keeps hashes minted, and links aligned if the block
\* follows what is known: its hash is new, so nothing links to it yet.
LEMMA OneNew ==
    ASSUME TypeOK, TypeOK', HashesMinted, NEW b \in Block, Known' \subseteq Known \cup {b},
           minted' = minted + 1, b.hash = minted + 1, b.prev <= minted
    PROVE  HashesMinted' /\ (Linked /\ Follows(b) => Linked')
<1>1. \A c \in Known : c \in Block /\ c.hash \in Nat /\ c.hash >= 1 /\ c.prev \in Nat
                       /\ c.hash <= minted /\ c.prev <= minted /\ c.height \in Nat
  BY KnownAreBlocks, ChainBounds DEF HashesMinted, Block
<1>2. minted \in Nat /\ b.prev \in Nat /\ b.height \in Nat
  BY ChainBounds DEF TypeOK, Block
<1>3. HashesMinted'
  BY <1>1, <1>2 DEF HashesMinted
<1>4. ASSUME Linked, Follows(b) PROVE Linked'
  <2>1. \/ b.prev = 0 /\ b.height = 0
        \/ \E c \in Known : b.prev = c.hash /\ b.height = c.height + 1
    BY <1>4 DEF Follows
  <2>2. \A x \in Known' : x.prev = 0 => x.height = 0
    BY <1>1, <1>4, <2>1 DEF Linked
  <2>3. ASSUME NEW x \in Known', NEW y \in Known'
        PROVE  /\ x.hash = y.hash => x.height = y.height /\ x.kind = y.kind
               /\ x.prev = y.hash => x.height = y.height + 1
    <3>1. CASE x \in Known /\ y \in Known
      BY <1>4, <3>1 DEF Linked
    <3>2. CASE x \in Known /\ y = b
      BY <1>1, <1>2, <3>2
    <3>3. CASE x = b /\ y = b
      BY <1>2, <3>3
    <3>4. CASE x = b /\ y \in Known
      <4>1. x.hash # y.hash
        BY <1>1, <1>2, <3>4
      <4>2. ASSUME x.prev = y.hash PROVE x.height = y.height + 1
        <5>1. PICK c \in Known : b.prev = c.hash /\ b.height = c.height + 1
          BY <1>1, <2>1, <3>4, <4>2
        <5>2. y.height = c.height
          BY <1>4, <3>4, <4>2, <5>1 DEF Linked
        <5>3. QED
          BY <3>4, <5>1, <5>2
      <4>3. QED
        BY <4>1, <4>2
    <3>5. QED
      BY <3>1, <3>2, <3>3, <3>4
  <2>4. QED
    BY <2>2, <2>3 DEF Linked
<1>5. QED
  BY <1>3, <1>4
------------------------------------------------------------------------------
(* Storing blocks with their rows *)

\* the rows of table o are those the blocks of table d imply
RowsOf(o, d) ==
    \A t \in Topics, h \in Heights :
        IF d[h] # NoBlock /\ t \in TopicsOf(d[h])
        THEN o[<<t, h>>] # NoRow /\ o[<<t, h>>].hash = d[h].hash
        ELSE o[<<t, h>>] = NoRow

\* blocks of W can be stored in table d: one for a height, and no other there
Fits(W, d) ==
    \A x \in W : /\ \A y \in W : x.height = y.height => x = y
                 /\ d[x.height] # NoBlock => d[x.height].hash = x.hash /\ d[x.height].kind = x.kind

\* What AppendBlockWithEvents stores was there or is one of the blocks given to it,
\* and what was there stays.
LEMMA StoredOrOld ==
    ASSUME NEW d, NEW W, NEW h \in Heights
    PROVE  /\ d[h] # NoBlock => InsertBlocks(d, W)[h] = d[h]
           /\ \/ InsertBlocks(d, W)[h] = d[h]
              \/ InsertBlocks(d, W)[h] \in W /\ InsertBlocks(d, W)[h].height = h
<1>1. InsertBlocks(d, W)[h] = IF d[h] # NoBlock \/ ~\E b \in W : b.height = h
                              THEN d[h] ELSE CHOOSE b \in W : b.height = h
  BY DEF InsertBlocks
<1>2. CASE d[h] # NoBlock \/ ~\E b \in W : b.height = h
  BY <1>1, <1>2
<1>3. CASE ~(d[h] # NoBlock \/ ~\E b \in W : b.height = h)
  <2>1. (CHOOSE b \in W : b.height = h) \in W /\ (CHOOSE b \in W : b.height = h).height = h
    BY <1>3
  <2>2. InsertBlocks(d, W)[h] = CHOOSE b \in W : b.height = h
    BY <1>1, <1>3
  <2>3. QED
    BY <1>3, <2>1, <2>2
<1>4. QED
  BY <1>2, <1>3

\* Blocks that fit are all found in the table afterwards.
LEMMA AllStored ==
    ASSUME NEW d, NEW W \in SUBSET Block, Fits(W, d), NEW x \in W
    PROVE  /\ InsertBlocks(d, W)[x.height] # NoBlock
           /\ InsertBlocks(d, W)[x.height].hash = x.hash
           /\ InsertBlocks(d, W)[x.height].kind = x.kind
<1>1. x.height \in Heights /\ x # NoBlock
  BY ChainNulls DEF Block
<1>2. CASE d[x.height] # NoBlock
  BY <1>1, <1>2, StoredOrOld DEF Fits
<1>3. CASE d[x.height] = NoBlock
  <2>1. InsertBlocks(d, W)[x.height] = CHOOSE b \in W : b.height = x.height
    BY <1>1, <1>3 DEF InsertBlocks
  <2>2. (CHOOSE b \in W : b.height = x.height) = x
    BY DEF Fits
  <2>3. QED
    BY <1>1, <2>1, <2>2
<1>4. QED
  BY <1>2, <1>3

\* Blocks that fit are stored with exactly their rows.
LEMMA InsertKeepsRows ==
    ASSUME NEW d, NEW o, NEW W \in SUBSET Block, Fits(W, d), RowsOf(o, d)
    PROVE  RowsOf(InsertRows(o, W), InsertBlocks(d, W))
<1> DEFINE d2 == InsertBlocks(d, W)
           o2 == InsertRows(o, W)
<1>1. SUFFICES ASSUME NEW t \in Topics, NEW h \in Heights
               PROVE  IF d2[h] # NoBlock /\ t \in TopicsOf(d2[h])
                      THEN o2[<<t, h>>] # NoRow /\ o2[<<t, h>>].hash = d2[h].hash
                      ELSE o2[<<t, h>>] = NoRow
  BY DEF RowsOf
<1> DEFINE causes == {b \in W : b.height = h /\ t \in TopicsOf(b)}
           row    == [hash |-> (CHOOSE b \in causes : TRUE).hash, delivered |-> FALSE]
<1>2. <<t, h>> \in Keys /\ <<t, h>>[1] = t /\ <<t, h>>[2] = h
  BY DEF Keys
<1>3. o2[<<t, h>>] = IF o[<<t, h>>] # NoRow \/ causes = {} THEN o[<<t, h>>] ELSE row
  BY <1>2 DEF InsertRows
<1>4. CASE d[h] # NoBlock
  <2>1. d2[h] = d[h]
    BY <1>4, StoredOrOld
  <2>2. CASE t \in TopicsOf(d[h])
    <3>1. o[<<t, h>>] # NoRow /\ o[<<t, h>>].hash = d[h].hash
      BY <1>4, <2>2 DEF RowsOf
    <3>2. QED
      BY <1>3, <1>4, <2>1, <2>2, <3>1
  <2>3. CASE t \notin TopicsOf(d[h])
    <3>1. o[<<t, h>>] = NoRow
      BY <1>4, <2>3 DEF RowsOf
    <3>2. \A b \in W : b.height = h => b.kind = d[h].kind
      BY <1>4 DEF Fits
    <3>3. causes = {}
      BY <2>3, <3>2 DEF TopicsOf
    <3>4. QED
      BY <1>3, <2>1, <2>3, <3>1, <3>3
  <2>4. QED
    BY <2>2, <2>3
<1>5. CASE d[h] = NoBlock
  <2>1. o[<<t, h>>] = NoRow
    BY <1>5 DEF RowsOf
  <2>2. CASE \E x \in W : x.height = h
    <3>1. PICK x \in W : x.height = h
      BY <2>2
    <3>2. d2[h] \in W /\ d2[h].height = h
      <4>1. d2[h] # NoBlock
        BY <3>1, AllStored
      <4>2. QED
        BY <1>5, <4>1, StoredOrOld
    <3>3. d2[h] # NoBlock
      BY <3>2, ChainNulls
    <3>4. \A b \in W : b.height = h => b = d2[h]
      BY <3>2 DEF Fits
    <3>5. CASE t \in TopicsOf(d2[h])
      <4>1. causes = {d2[h]}
        BY <3>2, <3>4, <3>5
      <4>2. (CHOOSE b \in causes : TRUE) = d2[h]
        BY <4>1
      <4>3. o2[<<t, h>>] = row
        BY <1>3, <2>1, <4>1
      <4>4. row \in Row
        BY <3>2, <4>2 DEF Row, Block
      <4>5. row # NoRow
        BY <4>4, ChainNulls
      <4>6. row.hash = d2[h].hash
        BY <4>2
      <4>7. QED
        BY <3>3, <3>5, <4>3, <4>5, <4>6
    <3>6. CASE t \notin TopicsOf(d2[h])
      <4>1. causes = {}
        BY <3>4, <3>6
      <4>2. QED
        BY <1>3, <2>1, <3>6, <4>1
    <3>7. QED
      BY <3>5, <3>6
  <2>3. CASE ~\E x \in W : x.height = h
    <3>1. d2[h] = d[h] /\ causes = {}
      BY <2>3, StoredOrOld
    <3>2. QED
      BY <1>3, <1>5, <2>1, <3>1
  <2>4. QED
    BY <2>2, <2>3
<1>6. QED
  BY <1>4, <1>5
------------------------------------------------------------------------------
(* Steps that cut no block *)

\* the same rows under the same keys, whatever their delivery marks
SameRows ==
    \A k \in Keys : /\ outbox'[k] = NoRow <=> outbox[k] = NoRow
                    /\ outbox[k] # NoRow => outbox'[k].hash = outbox[k].hash

\* Requests at the gate, a repair that panics, and the relay leave the ledger as it
\* is, delivery marks apart.
LEMMA LedgerStill ==
    ASSUME IInv, TypeOK', SameRows,
           UNCHANGED <<mode, blocks, pending, sealed, disk, misrepaired, minted>>
    PROVE  IInv'
<1>1. QueueOrdered' /\ DiskByHeight' /\ HashesMinted'
  BY DEF IInv, QueueOrdered, PendingInOrder, DiskByHeight, HashesMinted, Known, Stored
<1>2. ASSUME ~misrepaired PROVE Aligned'
  <2>1. Aligned
    BY <1>2 DEF IInv
  <2>2. Linked' /\ Contiguous' /\ Ascending' /\ Covered'
    BY <2>1 DEF Aligned, Linked, Known, Stored, Contiguous, Ascending, Covered
  <2>3. KeptStored' /\ UnsealedReplays' /\ NothingLost'
    BY <2>1 DEF Aligned, KeptStored, UnsealedReplays, NothingLost, IsStored, Valid, Replays
  <2>4. OutboxIffBlock'
    <3>1. OutboxIffBlock /\ ~misrepaired
      BY <1>2, <2>1 DEF Aligned
    <3>2. ASSUME NEW t \in Topics, NEW h \in Heights
          PROVE  /\ outbox'[<<t, h>>] = NoRow <=> outbox[<<t, h>>] = NoRow
                 /\ outbox[<<t, h>>] # NoRow => outbox'[<<t, h>>].hash = outbox[<<t, h>>].hash
      BY DEF SameRows, Keys
    <3>3. QED
      BY <3>1, <3>2 DEF OutboxIffBlock
  <2>5. QED
    BY <2>2, <2>3, <2>4 DEF Aligned
<1>3. QED
  BY <1>1, <1>2 DEF IInv

\* A crash keeps the tables, and a process that is down has no chain to be wrong.
LEMMA CrashKeeps == ASSUME IInv, TypeOK', Crash PROVE IInv'
<1>1. /\ mode' = "down" /\ blocks' = <<>> /\ pending' = <<>>
      /\ UNCHANGED <<disk, outbox, misrepaired, minted>>
  BY DEF Crash
<1>2. Known' \subseteq Known
  BY <1>1 DEF Known, Stored
<1>3. HashesMinted' /\ (Linked => Linked')
  BY <1>1, <1>2, NothingNew DEF IInv, Same
<1>4. QueueOrdered' /\ DiskByHeight'
  BY <1>1 DEF IInv, QueueOrdered, PendingInOrder, DiskByHeight
<1>5. Contiguous' /\ Covered' /\ KeptStored' /\ UnsealedReplays' /\ NothingLost'
  BY <1>1 DEF Contiguous, Covered, KeptStored, UnsealedReplays, NothingLost
<1>6. Ascending'
  BY <1>1 DEF Ascending
<1>7. OutboxIffBlock => OutboxIffBlock'
  BY <1>1 DEF OutboxIffBlock
<1>8. QED
  BY <1>1, <1>3, <1>4, <1>5, <1>6, <1>7 DEF IInv, Aligned

\* An edit of a stored row touches what the row says, not which block it is.
LEMMA TamperKeeps == ASSUME IInv, TypeOK', NEW g \in Heights, Tamper(g) PROVE IInv'
<1>1. /\ disk[g] # NoBlock
      /\ disk' = [disk EXCEPT ![g].sound = FALSE]
      /\ UNCHANGED <<mode, blocks, pending, sealed, outbox, misrepaired, minted>>
  BY DEF Tamper
<1>2. ASSUME NEW h \in Heights
      PROVE  /\ disk'[h] # NoBlock <=> disk[h] # NoBlock
             /\ disk[h] # NoBlock => Same(disk'[h], disk[h]) /\ disk[h] \in Block
  <2>1. disk \in [Heights -> Block \cup {NoBlock}]
    BY DEF IInv, TypeOK
  <2>2. \A b \in Block : [b EXCEPT !.sound = FALSE] \in Block /\ Same([b EXCEPT !.sound = FALSE], b)
    BY DEF Block, Same
  <2>3. CASE h = g
    BY <1>1, <2>1, <2>2, <2>3, ChainNulls
  <2>4. CASE h # g
    BY <1>1, <2>1, <2>4 DEF Same
  <2>5. QED
    BY <2>3, <2>4
<1>3. \A b \in Known' : \E c \in Known : Same(b, c)
  <2>1. SUFFICES ASSUME NEW b \in Known' PROVE \E c \in Known : Same(b, c)
    OBVIOUS
  <2>2. CASE \E i \in DOMAIN blocks : b = blocks[i]
    BY <2>2 DEF Known, Same
  <2>3. CASE \E h \in Heights : disk'[h] # NoBlock /\ b = disk'[h]
    BY <1>2, <2>3 DEF Known, Stored
  <2>4. QED
    BY <1>1, <2>2, <2>3 DEF Known, Stored
<1>4. HashesMinted' /\ (Linked => Linked')
  BY <1>1, <1>3, NothingNew DEF IInv
<1>5. QueueOrdered'
  BY <1>1 DEF IInv, QueueOrdered, PendingInOrder
<1>6. DiskByHeight'
  BY <1>2 DEF IInv, DiskByHeight, Same
<1>7. ASSUME ~misrepaired PROVE Aligned'
  <2>1. Aligned
    BY <1>7 DEF IInv
  <2>2. \A b \in Block : IsStored(b)' <=> IsStored(b)
    BY <1>2 DEF IsStored, Same
  <2>3. \A i \in DOMAIN blocks : blocks[i] \in Block
    BY DEF IInv, TypeOK
  <2>4. Contiguous' /\ Ascending' /\ UnsealedReplays'
    BY <1>1, <2>1 DEF Aligned, Contiguous, Ascending, UnsealedReplays, Valid, Replays
  <2>5. Covered'
    BY <1>1, <1>2, <2>1 DEF Aligned, Covered, Same
  <2>6. KeptStored'
    BY <1>1, <2>1, <2>2, <2>3 DEF Aligned, KeptStored, Replays
  <2>7. NothingLost'
    BY <1>1, <2>1, <2>2, <2>3 DEF Aligned, NothingLost
  <2>8. OutboxIffBlock'
    BY <1>1, <1>2, <2>1 DEF Aligned, OutboxIffBlock, TopicsOf, Same
  <2>9. QED
    BY <1>4, <2>1, <2>4, <2>5, <2>6, <2>7, <2>8 DEF Aligned
<1>8. QED
  BY <1>1, <1>4, <1>5, <1>6, <1>7 DEF IInv
------------------------------------------------------------------------------
(* Append *)

\* What Append does with a database: pick which waiting blocks reach storage, and
\* whether the new one does.
LEMMA AppendCases ==
    ASSUME TypeOK, NEW k \in Kinds, AppendDurable(k)
    PROVE  \E f \in FlushRuns, o \in Outcomes :
             LET b == CutBlock(blocks, k)
                 written == Flushed(f) \cup (IF o = "failed" THEN {} ELSE {b})
             IN /\ disk' = InsertBlocks(disk, written)
                /\ outbox' = InsertRows(outbox, written)
                /\ pending' = IF o = "ok" THEN Waiting(f) ELSE Append(Waiting(f), b)
                /\ blocks' = Append(blocks, b)
BY DEF AppendDurable, Enqueue

\* The chain is extended by one block that follows it.
LEMMA ChainGrows ==
    ASSUME IInv, TypeOK', NEW k \in Kinds, AppendBlock(k)
    PROVE  LET b == CutBlock(blocks, k) IN
           /\ b \in Block /\ b.height = Len(blocks) /\ b.hash = minted + 1
           /\ b.prev = TipHash(blocks) /\ b.sound /\ b.prev <= minted
           /\ blocks' = Append(blocks, b)
           /\ UNCHANGED <<mode, sealed, misrepaired>> /\ minted' = minted + 1
           /\ mode # "down" /\ ~sealed
           /\ Contiguous => Follows(b)
           /\ Contiguous => Contiguous'
           /\ Contiguous => Ascending'
           /\ Valid(blocks) => Valid(blocks')
<1> DEFINE b == CutBlock(blocks, k)
<1>1. b \in Block
  BY CutBlockType, ChainBounds DEF IInv, TypeOK, AppendBlock
<1>2. /\ b.height = Len(blocks) /\ b.hash = minted + 1
      /\ b.prev = TipHash(blocks) /\ b.sound
  BY DEF CutBlock
<1>3. /\ blocks' = Append(blocks, b) /\ mode # "down"
      /\ UNCHANGED <<mode, sealed, misrepaired>> /\ minted' = minted + 1 /\ ~sealed
  BY DEF AppendBlock, AppendDurable, AppendInMemory
<1>4. blocks \in Seq(Block) /\ minted \in Nat
  BY ChainBounds DEF IInv, TypeOK
<1>5. CASE blocks = <<>>
  <2>1. Len(blocks) = 0 /\ TipHash(blocks) = 0
    BY <1>5 DEF TipHash
  <2>2. Len(blocks') = 1 /\ blocks'[1] = b /\ DOMAIN blocks' = 1..1
    BY <1>1, <1>3, <1>4, <2>1
  <2>3. b.prev <= minted /\ Follows(b)
    BY <1>2, <1>4, <2>1 DEF Follows
  <2>4. Contiguous' /\ Ascending'
    BY <1>2, <2>1, <2>2 DEF Contiguous, Ascending
  <2>5. Valid(blocks')
    BY <1>2, <2>1, <2>2 DEF Valid, Replays
  <2>6. QED
    BY <1>1, <1>2, <1>3, <2>3, <2>4, <2>5
<1>6. CASE blocks # <<>>
  <2> DEFINE n == Len(blocks)
  <2>1. n \in Nat /\ n >= 1 /\ n \in DOMAIN blocks /\ TipHash(blocks) = blocks[n].hash
    BY <1>4, <1>6 DEF TipHash
  <2>2. /\ Len(blocks') = n + 1 /\ blocks'[n + 1] = b /\ DOMAIN blocks' = 1..(n + 1)
        /\ \A i \in 1..n : blocks'[i] = blocks[i]
        /\ DOMAIN blocks = 1..n
    BY <1>1, <1>3, <1>4
  <2>3. blocks[n] \in Known
    BY <2>1 DEF Known
  <2>4. b.prev <= minted
    BY <1>2, <2>1, <2>3 DEF IInv, HashesMinted
  <2>5. ASSUME Contiguous PROVE Follows(b) /\ Contiguous' /\ Ascending'
    <3>1. \A i \in 1..n : blocks[i].height = i - 1
      BY <1>3, <2>2, <2>5 DEF Contiguous
    <3>2. \A i \in 1..(n + 1) : blocks'[i].height = i - 1
      BY <1>2, <2>1, <2>2, <3>1
    <3>3. Contiguous'
      BY <2>2, <3>2 DEF Contiguous
    <3>4. Ascending'
      BY <2>1, <2>2, <3>2 DEF Ascending
    <3>5. b.prev = blocks[n].hash /\ b.height = blocks[n].height + 1
      BY <1>2, <2>1, <2>2, <3>1
    <3>6. QED
      BY <2>3, <3>3, <3>4, <3>5 DEF Follows
  <2>6. ASSUME Valid(blocks) PROVE Valid(blocks')
    <3>1. ASSUME NEW i \in 1..n PROVE Replays(blocks', i)
      <4>1. Replays(blocks, i)
        BY <2>2, <2>6 DEF Valid
      <4>2. CASE i = 1
        BY <2>2, <4>1, <4>2 DEF Replays
      <4>3. CASE i # 1
        <5>1. i - 1 \in 1..n
          BY <2>1, <4>3
        <5>2. QED
          BY <2>2, <4>1, <4>3, <5>1 DEF Replays
      <4>4. QED
        BY <4>2, <4>3
    <3>2. Replays(blocks', n + 1)
      <4>1. n + 1 # 1 /\ n + 1 - 1 = n /\ n \in 1..n
        BY <2>1
      <4>2. blocks'[n] = blocks[n]
        BY <2>2, <4>1
      <4>3. QED
        BY <1>2, <2>1, <2>2, <4>1, <4>2 DEF Replays
    <3>3. QED
      BY <2>1, <2>2, <3>1, <3>2 DEF Valid
  <2>7. QED
    BY <1>1, <1>2, <1>3, <2>4, <2>5, <2>6
<1>7. QED
  BY <1>5, <1>6
\* What a flush writes was waiting, and what still waits was waiting behind it.
LEMMA FlushSplits ==
    ASSUME pending \in Seq(Block), NEW f \in FlushRuns
    PROVE  /\ f.n \in 0..Len(pending)
           /\ Flushed(f) \subseteq {pending[i] : i \in DOMAIN pending}
           /\ Waiting(f) \in Seq(Block) /\ Len(Waiting(f)) = Len(pending) - f.n
           /\ \A i \in DOMAIN Waiting(f) : i + f.n \in DOMAIN pending /\ Waiting(f)[i] = pending[i + f.n]
           /\ \A i \in DOMAIN pending :
                 \/ pending[i] \in Flushed(f)
                 \/ i - f.n \in DOMAIN Waiting(f) /\ Waiting(f)[i - f.n] = pending[i]
<1>1. f.n \in 0..Len(pending) /\ f.stop \in Outcomes /\ (f.stop = "ok" <=> f.n = Len(pending))
  BY DEF FlushRuns
<1>2. Flushed(f) \subseteq {pending[i] : i \in DOMAIN pending}
  <2>1. f.stop = "unknown" => f.n + 1 \in DOMAIN pending
    BY <1>1
  <2>2. \A i \in 1..f.n : i \in DOMAIN pending
    BY <1>1
  <2>3. QED
    BY <2>1, <2>2 DEF Flushed
<1>3. /\ Waiting(f) \in Seq(Block) /\ Len(Waiting(f)) = Len(pending) - f.n
      /\ \A i \in DOMAIN Waiting(f) : i + f.n \in DOMAIN pending /\ Waiting(f)[i] = pending[i + f.n]
  BY <1>1, SMTT(40) DEF Waiting
<1>4. ASSUME NEW i \in DOMAIN pending
      PROVE  \/ pending[i] \in Flushed(f)
             \/ i - f.n \in DOMAIN Waiting(f) /\ Waiting(f)[i - f.n] = pending[i]
  <2>1. CASE i <= f.n
    <3>1. i \in 1..f.n
      BY <1>1, <2>1
    <3>2. QED
      BY <3>1 DEF Flushed
  <2>2. CASE ~(i <= f.n)
    <3>1. i - f.n \in DOMAIN Waiting(f) /\ (i - f.n) + f.n = i
      BY <1>1, <1>3, <2>2
    <3>2. QED
      BY <1>3, <3>1
  <2>3. QED
    BY <2>1, <2>2
<1>5. QED
  BY <1>1, <1>2, <1>3, <1>4

\* Append with no database: one more block in memory, nothing else.
LEMMA AppendInMemoryKeeps ==
    ASSUME IInv, TypeOK', NEW k \in Kinds, AppendBlock(k), AppendInMemory(k)
    PROVE  IInv'
<1> DEFINE b == CutBlock(blocks, k)
<1>1. /\ b \in Block /\ b.height = Len(blocks) /\ b.hash = minted + 1 /\ b.prev <= minted
      /\ blocks' = Append(blocks, b)
      /\ UNCHANGED <<mode, sealed, misrepaired>> /\ minted' = minted + 1 /\ ~sealed
      /\ Contiguous => Follows(b) /\ Contiguous' /\ Ascending'
      /\ Valid(blocks) => Valid(blocks')
  BY ChainGrows
<1>2. mode = "memory" /\ mode # "store" /\ mode # "down" /\ UNCHANGED <<pending, disk, outbox>>
  BY DEF AppendInMemory
<1>3. /\ Len(blocks) \in Nat /\ Len(blocks') = Len(blocks) + 1
      /\ \A i \in DOMAIN blocks : i \in DOMAIN blocks' /\ blocks'[i] = blocks[i]
      /\ \A i \in DOMAIN blocks' : i \in DOMAIN blocks \/ blocks'[i] = b
  BY <1>1, SMTT(40) DEF IInv, TypeOK
<1>4. Known' \subseteq Known \cup {b}
  <2>1. ASSUME NEW i \in DOMAIN blocks' PROVE blocks'[i] \in Known \cup {b}
    <3>1. CASE i \in DOMAIN blocks
      BY <1>3, <3>1 DEF Known
    <3>2. CASE blocks'[i] = b
      BY <3>2
    <3>3. QED
      BY <1>3, <3>1, <3>2
  <2>2. \A h \in Heights : disk'[h] # NoBlock => disk'[h] \in Known \cup {b}
    BY <1>2 DEF Known, Stored
  <2>3. QED
    BY <2>1, <2>2, KnownNext
<1>5. HashesMinted' /\ (Linked /\ Follows(b) => Linked')
  BY <1>1, <1>4, OneNew DEF IInv
<1>6. QueueOrdered'
  <2>1. \A i \in DOMAIN pending : pending[i] \in Block
    BY DEF IInv, TypeOK
  <2>2. \A c \in Block : c.height \in Nat
    BY ChainBounds DEF Block
  <2>3. QED
    BY <1>2, <1>3, <2>1, <2>2 DEF IInv, QueueOrdered, PendingInOrder
<1>7. DiskByHeight'
  BY <1>2 DEF IInv, DiskByHeight
<1>8. ASSUME ~misrepaired PROVE Aligned'
  <2>1. Aligned
    BY <1>8 DEF IInv
  <2>2. Linked' /\ Contiguous' /\ Ascending'
    BY <1>1, <1>5, <2>1 DEF Aligned
  <2>3. Covered' /\ KeptStored' /\ NothingLost'
    BY <1>1, <1>2 DEF Covered, KeptStored, NothingLost
  <2>4. UnsealedReplays'
    BY <1>1, <1>2, <1>8, <2>1 DEF Aligned, UnsealedReplays
  <2>5. OutboxIffBlock'
    BY <1>1, <1>2, <2>1 DEF Aligned, OutboxIffBlock
  <2>6. QED
    BY <2>2, <2>3, <2>4, <2>5 DEF Aligned
<1>9. QED
  BY <1>1, <1>5, <1>6, <1>7, <1>8 DEF IInv
\* The queue stays ordered when a flush takes its head and the new block joins it.
LEMMA QueueAfter ==
    ASSUME TypeOK, QueueOrdered, NEW f \in FlushRuns, NEW b \in Block,
           b.height = Len(blocks), blocks' = Append(blocks, b),
           pending' = Waiting(f) \/ pending' = Append(Waiting(f), b)
    PROVE  QueueOrdered'
<1> DEFINE w == Waiting(f)
<1>1. blocks \in Seq(Block) /\ pending \in Seq(Block)
  BY DEF TypeOK
<1>2. /\ f.n \in Nat /\ w \in Seq(Block)
      /\ \A i \in DOMAIN w : i + f.n \in DOMAIN pending /\ w[i] = pending[i + f.n]
  BY <1>1, FlushSplits
<1>3. \A c \in Block : c.height \in Nat
  BY ChainBounds DEF Block
<1>4. /\ Len(blocks) \in Nat /\ Len(blocks') = Len(blocks) + 1
      /\ \A i \in DOMAIN blocks : i \in DOMAIN blocks' /\ blocks'[i] = blocks[i]
      /\ Len(blocks) + 1 \in DOMAIN blocks' /\ blocks'[Len(blocks) + 1] = b
  BY <1>1
<1>5. ASSUME NEW i \in DOMAIN w
      PROVE  /\ w[i].height \in Nat /\ w[i].height < Len(blocks)
             /\ \E j \in DOMAIN blocks' : blocks'[j] = w[i]
             /\ \A j \in DOMAIN w : i < j => w[i].height < w[j].height
  <2>1. w[i] \in Block /\ i + f.n \in DOMAIN pending /\ w[i] = pending[i + f.n]
    BY <1>2
  <2>2. \E j \in DOMAIN blocks : blocks[j] = w[i]
    BY <2>1 DEF QueueOrdered, PendingInOrder
  <2>3. ASSUME NEW j \in DOMAIN w, i < j PROVE w[i].height < w[j].height
    <3>1. j + f.n \in DOMAIN pending /\ w[j] = pending[j + f.n] /\ i + f.n < j + f.n
      BY <1>2, <2>3
    <3>2. QED
      BY <2>1, <3>1 DEF QueueOrdered, PendingInOrder
  <2>4. QED
    BY <1>3, <1>4, <2>1, <2>2, <2>3 DEF QueueOrdered
<1>6. CASE pending' = w
  BY <1>4, <1>5, <1>6 DEF QueueOrdered, PendingInOrder
<1>7. CASE pending' = Append(w, b)
  <2>1. /\ DOMAIN w = 1..Len(w) /\ DOMAIN pending' = 1..(Len(w) + 1) /\ Len(w) \in Nat
        /\ \A i \in DOMAIN w : pending'[i] = w[i]
        /\ pending'[Len(w) + 1] = b
    BY <1>2, <1>7
  <2>2. \A i \in DOMAIN pending' : i \in DOMAIN w \/ i = Len(w) + 1
    BY <2>1
  <2>3. \A i \in DOMAIN pending' : /\ pending'[i].height < Len(blocks')
                                  /\ \E j \in DOMAIN blocks' : blocks'[j] = pending'[i]
    BY <1>4, <1>5, <2>1, <2>2
  <2>4. ASSUME NEW i \in DOMAIN pending', NEW j \in DOMAIN pending', i < j
        PROVE  pending'[i].height < pending'[j].height
    <3>1. i \in DOMAIN w
      BY <2>1, <2>2, <2>4
    <3>2. CASE j \in DOMAIN w
      BY <1>5, <2>1, <2>4, <3>1, <3>2
    <3>3. CASE j = Len(w) + 1
      BY <1>5, <2>1, <3>1, <3>3
    <3>4. QED
      BY <2>2, <3>2, <3>3
  <2>5. QED
    BY <2>3, <2>4 DEF QueueOrdered, PendingInOrder
<1>8. QED
  BY <1>6, <1>7

\* Blocks of a chain without gaps fit the table that chain covers: at each height they
\* are the block the chain has there.
LEMMA ChainFits ==
    ASSUME TypeOK, Linked, Contiguous, Covered, DiskByHeight, mode = "store", ~sealed,
           NEW b \in Block, b.height = Len(blocks),
           NEW W \in SUBSET Block,
           W \subseteq {blocks[i] : i \in DOMAIN blocks} \cup {b}
    PROVE  Fits(W, disk)
<1>1. \A i \in DOMAIN blocks : blocks[i].height = i - 1 /\ blocks[i] \in Known
  BY DEF Contiguous, Known
<1>2. blocks \in Seq(Block) /\ \A i \in DOMAIN blocks : i \in Nat /\ i <= Len(blocks)
  BY DEF TypeOK
<1>3. ASSUME NEW x \in W, NEW y \in W, x.height = y.height PROVE x = y
  <2>1. \A z \in W : z = b \/ \E i \in DOMAIN blocks : z = blocks[i] /\ z.height = i - 1
    BY <1>1
  <2>2. QED
    BY <1>2, <1>3, <2>1
<1>4. ASSUME NEW x \in W, disk[x.height] # NoBlock
      PROVE  disk[x.height].hash = x.hash /\ disk[x.height].kind = x.kind
  <2> DEFINE h == x.height
  <2>1. h \in Heights /\ disk[h].height = h /\ disk[h] \in Known
    BY <1>4 DEF Block, DiskByHeight, Known, Stored
  <2>2. PICK i \in DOMAIN blocks : blocks[i].hash = disk[h].hash
    BY <1>4, <2>1 DEF Covered
  <2>3. blocks[i].height = h /\ blocks[i].kind = disk[h].kind
    BY <1>1, <2>1, <2>2 DEF Linked
  <2>4. x = blocks[i]
    <3>1. x = b \/ \E j \in DOMAIN blocks : x = blocks[j] /\ x.height = j - 1
      BY <1>1
    <3>2. x.height = i - 1
      BY <1>1, <2>3
    <3>3. QED
      BY <1>2, <3>1, <3>2
  <2>5. QED
    BY <2>2, <2>3, <2>4
<1>5. QED
  BY <1>3, <1>4 DEF Fits
\* Append with a database, whatever of the flush and of its own write fails.
LEMMA AppendDurableKeeps ==
    ASSUME IInv, TypeOK', NEW k \in Kinds, AppendBlock(k), AppendDurable(k)
    PROVE  IInv'
<1> DEFINE b == CutBlock(blocks, k)
<1>1. /\ b \in Block /\ b.height = Len(blocks) /\ b.hash = minted + 1 /\ b.prev <= minted
      /\ blocks' = Append(blocks, b)
      /\ UNCHANGED <<mode, sealed, misrepaired>> /\ minted' = minted + 1 /\ ~sealed
      /\ Contiguous => Follows(b) /\ Contiguous' /\ Ascending'
      /\ Valid(blocks) => Valid(blocks')
  BY ChainGrows
<1>2. PICK f \in FlushRuns, o \in Outcomes :
        LET written == Flushed(f) \cup (IF o = "failed" THEN {} ELSE {b})
        IN /\ disk' = InsertBlocks(disk, written)
           /\ outbox' = InsertRows(outbox, written)
           /\ pending' = IF o = "ok" THEN Waiting(f) ELSE Append(Waiting(f), b)
  BY AppendCases DEF IInv
<1> DEFINE written == Flushed(f) \cup (IF o = "failed" THEN {} ELSE {b})
           queue   == {pending[i] : i \in DOMAIN pending}
           chain   == {blocks[i] : i \in DOMAIN blocks}
<1>3. /\ disk' = InsertBlocks(disk, written)
      /\ outbox' = InsertRows(outbox, written)
      /\ pending' = IF o = "ok" THEN Waiting(f) ELSE Append(Waiting(f), b)
      /\ mode = "store"
  BY <1>2 DEF AppendDurable
<1>4. pending \in Seq(Block) /\ blocks \in Seq(Block) /\ TypeOK
  BY DEF IInv, TypeOK
<1>5. Flushed(f) \subseteq queue
  BY <1>4, FlushSplits
<1>6. queue \subseteq chain /\ chain \subseteq Block
  BY <1>4 DEF IInv, QueueOrdered, PendingInOrder
<1>7. written \subseteq chain \cup {b} /\ written \in SUBSET Block
  BY <1>1, <1>5, <1>6
<1>8. /\ Len(blocks) \in Nat
      /\ \A i \in DOMAIN blocks : i \in DOMAIN blocks' /\ blocks'[i] = blocks[i]
      /\ \A i \in DOMAIN blocks' : i \in DOMAIN blocks \/ blocks'[i] = b
      /\ Len(blocks) + 1 \in DOMAIN blocks' /\ blocks'[Len(blocks) + 1] = b
  BY <1>1, <1>4
<1>9. \A h \in Heights : \/ disk'[h] = disk[h]
                         \/ disk'[h] \in written /\ disk'[h].height = h
  BY <1>3, StoredOrOld
<1>10. Known' \subseteq Known \cup {b}
  <2>1. chain \subseteq Known
    BY DEF Known
  <2>2. \A i \in DOMAIN blocks' : blocks'[i] \in Known \cup {b}
    BY <1>8, <2>1
  <2>3. \A h \in Heights : disk'[h] # NoBlock => disk'[h] \in Known \cup {b}
    BY <1>7, <1>9, <2>1 DEF Known, Stored
  <2>4. QED
    BY <2>2, <2>3, KnownNext
<1>11. HashesMinted' /\ (Linked /\ Follows(b) => Linked')
  BY <1>1, <1>10, OneNew DEF IInv
<1>12. QueueOrdered'
  BY <1>1, <1>3, <1>4, QueueAfter DEF IInv
<1>13. DiskByHeight'
  BY <1>9 DEF IInv, DiskByHeight
<1>14. ASSUME ~misrepaired PROVE Aligned'
  <2>1. Aligned
    BY <1>14 DEF IInv
  <2>2. Linked' /\ Contiguous' /\ Ascending' /\ KeptStored'
    BY <1>1, <1>11, <2>1 DEF Aligned, KeptStored
  <2>3. UnsealedReplays'
    BY <1>1, <1>3, <1>14, <2>1 DEF Aligned, UnsealedReplays
  <2>4. Covered'
    <3>1. ASSUME NEW h \in Heights, disk'[h] # NoBlock
          PROVE  \E i \in DOMAIN blocks' : blocks'[i].hash = disk'[h].hash
      <4>1. CASE disk'[h] = disk[h]
        BY <1>3, <1>8, <2>1, <3>1, <4>1 DEF Aligned, Covered
      <4>2. CASE disk'[h] \in written
        <5>1. \E i \in DOMAIN blocks' : blocks'[i] = disk'[h]
          BY <1>7, <1>8, <4>2
        <5>2. QED
          BY <5>1
      <4>3. QED
        BY <1>9, <4>1, <4>2
    <3>2. QED
      BY <3>1 DEF Covered
  <2>5. Fits(written, disk)
    BY <1>1, <1>3, <1>4, <1>7, <2>1, ChainFits DEF IInv, Aligned
  <2>6. \A x \in written : disk'[x.height] # NoBlock /\ disk'[x.height].hash = x.hash
    BY <1>3, <1>7, <2>5, AllStored
  <2>7. NothingLost'
    <3>1. SUFFICES ASSUME NEW i \in DOMAIN blocks'
                   PROVE  \/ /\ blocks'[i].height \in Heights
                             /\ disk'[blocks'[i].height] # NoBlock
                             /\ disk'[blocks'[i].height].hash = blocks'[i].hash
                          \/ \E j \in DOMAIN pending' : pending'[j] = blocks'[i]
      BY DEF NothingLost, IsStored
    <3>2. CASE blocks'[i] \in written
      <4>1. blocks'[i].height \in Heights
        BY <1>7, <3>2 DEF Block
      <4>2. QED
        BY <2>6, <3>2, <4>1
    <3>3. CASE i \in DOMAIN blocks /\ IsStored(blocks[i])
      <4>1. /\ blocks[i].height \in Heights /\ disk[blocks[i].height] # NoBlock
            /\ disk[blocks[i].height].hash = blocks[i].hash
        BY <3>3 DEF IsStored
      <4>2. disk'[blocks[i].height] = disk[blocks[i].height]
        BY <1>3, <4>1, StoredOrOld
      <4>3. QED
        BY <1>8, <3>3, <4>1, <4>2
    <3>4. CASE \E j \in DOMAIN Waiting(f) : Waiting(f)[j] = blocks'[i]
      <4>1. PICK j \in DOMAIN Waiting(f) : Waiting(f)[j] = blocks'[i]
        BY <3>4
      <4>2. Waiting(f) \in Seq(Block)
        BY <1>4, FlushSplits
      <4>3. j \in DOMAIN pending' /\ pending'[j] = Waiting(f)[j]
        BY <1>1, <1>3, <4>1, <4>2
      <4>4. QED
        BY <4>1, <4>3
    <3>5. CASE blocks'[i] = b
      <4>1. CASE o = "failed" \/ o = "unknown"
        <5>1. Waiting(f) \in Seq(Block) /\ pending' = Append(Waiting(f), b)
          BY <1>3, <1>4, <4>1, FlushSplits
        <5>2. Len(Waiting(f)) + 1 \in DOMAIN pending' /\ pending'[Len(Waiting(f)) + 1] = b
          BY <5>1
        <5>3. QED
          BY <3>5, <5>2
      <4>2. CASE o = "ok"
        BY <3>2, <3>5, <4>2
      <4>3. QED
        BY <4>1, <4>2 DEF Outcomes
    <3>6. CASE i \in DOMAIN blocks /\ ~IsStored(blocks[i])
      <4>1. PICK j \in DOMAIN pending : pending[j] = blocks[i]
        BY <1>1, <1>3, <1>14, <2>1, <3>6 DEF Aligned, NothingLost
      <4>2. \/ pending[j] \in Flushed(f)
            \/ j - f.n \in DOMAIN Waiting(f) /\ Waiting(f)[j - f.n] = pending[j]
        BY <1>4, FlushSplits
      <4>3. blocks'[i] = blocks[i]
        BY <1>8, <3>6
      <4>4. QED
        BY <3>2, <3>4, <4>1, <4>2, <4>3
    <3>7. QED
      BY <1>8, <3>3, <3>5, <3>6
  <2>8. OutboxIffBlock'
    <3>1. RowsOf(outbox, disk)
      BY <1>14, <2>1 DEF Aligned, OutboxIffBlock, RowsOf
    <3>2. RowsOf(outbox', disk')
      BY <1>3, <1>7, <2>5, <3>1, InsertKeepsRows
    <3>3. QED
      BY <3>2 DEF OutboxIffBlock, RowsOf
  <2>9. QED
    BY <2>2, <2>3, <2>4, <2>7, <2>8 DEF Aligned
<1>15. QED
  BY <1>1, <1>11, <1>12, <1>13, <1>14 DEF IInv
------------------------------------------------------------------------------
(* Boot *)

\* What holds of a table and the chain that was just loaded or begun.
LEMMA GenesisFacts ==
    ASSUME TypeOK, minted < MaxMinted
    PROVE  LET g == CutBlock(<<>>, "plain") IN
           /\ g \in Block /\ g.height = 0 /\ g.hash = minted + 1 /\ g.prev = 0
           /\ g.sound /\ g.prev <= minted /\ Follows(g)
<1> DEFINE g == CutBlock(<<>>, "plain")
<1>1. Len(<<>>) = 0 /\ minted \in Nat
  BY ChainBounds DEF TypeOK
<1>2. g.height = 0 /\ g.hash = minted + 1 /\ g.prev = 0 /\ g.sound
  BY <1>1 DEF CutBlock, TipHash
<1>3. g \in Block
  BY GenesisType
<1>4. g.prev <= minted /\ Follows(g)
  BY <1>1, <1>2 DEF Follows
<1>5. QED
  BY <1>2, <1>3, <1>4

\* A chain of its genesis alone has no gap, ascends and replays.
LEMMA GenesisChain ==
    ASSUME NEW g \in Block, g.height = 0, g.prev = 0, g.sound, blocks' = <<g>>
    PROVE  Contiguous' /\ Ascending' /\ Valid(blocks')
<1>1. DOMAIN blocks' = 1..1 /\ blocks'[1] = g
  OBVIOUS
<1>2. QED
  BY <1>1 DEF Contiguous, Ascending, Valid, Replays

\* A process that finds an empty database, whatever becomes of its first write.
LEMMA BootFreshKeeps == ASSUME IInv, TypeOK', BootFresh PROVE IInv'
<1> DEFINE g == CutBlock(<<>>, "plain")
<1>1. /\ g \in Block /\ g.height = 0 /\ g.hash = minted + 1 /\ g.prev = 0
      /\ g.sound /\ g.prev <= minted /\ Follows(g)
  BY GenesisFacts DEF IInv, BootFresh
<1>2. PICK o \in Outcomes :
        LET written == IF o = "failed" THEN {} ELSE {g}
        IN /\ disk' = InsertBlocks(disk, written)
           /\ outbox' = InsertRows(outbox, written)
           /\ pending' = IF o = "ok" THEN <<>> ELSE <<g>>
           /\ Start("store", <<g>>)
  BY DEF BootFresh
<1> DEFINE written == IF o = "failed" THEN {} ELSE {g}
<1>3. /\ disk' = InsertBlocks(disk, written) /\ outbox' = InsertRows(outbox, written)
      /\ pending' = IF o = "ok" THEN <<>> ELSE <<g>>
      /\ blocks' = <<g>> /\ mode' = "store" /\ sealed' = FALSE
      /\ misrepaired' = misrepaired /\ minted' = minted + 1
  BY <1>2 DEF Start, BootFresh
<1>4. \A h \in Heights : disk[h] = NoBlock
  BY DEF BootFresh, Stored
<1>5. written \in SUBSET Block /\ written \subseteq {g} /\ Fits(written, disk)
  <2>1. written \subseteq {g}
    OBVIOUS
  <2>2. 0 \in Heights
    BY <1>1 DEF Block
  <2>3. QED
    BY <1>1, <1>4, <2>1, <2>2 DEF Fits
<1>6. \A h \in Heights : disk'[h] # NoBlock => disk'[h] = g /\ h = 0
  BY <1>1, <1>3, <1>4, <1>5, StoredOrOld
<1>7. Known' \subseteq Known \cup {g}
  <2>1. \A i \in DOMAIN blocks' : blocks'[i] \in Known \cup {g}
    BY <1>3
  <2>2. QED
    BY <1>6, <2>1, KnownNext
<1>8. HashesMinted' /\ (Linked => Linked')
  BY <1>1, <1>3, <1>7, OneNew DEF IInv
<1>9. Contiguous' /\ Ascending' /\ Valid(blocks')
  BY <1>1, <1>3, GenesisChain
<1>10. DOMAIN blocks' = 1..1 /\ blocks'[1] = g /\ Len(blocks') = 1
  BY <1>3
<1>11. QueueOrdered'
  <2>1. CASE o = "ok"
    BY <1>3, <2>1 DEF QueueOrdered, PendingInOrder
  <2>2. CASE o # "ok"
    <3>1. DOMAIN pending' = 1..1 /\ pending'[1] = g
      BY <1>3, <2>2
    <3>2. QED
      BY <1>1, <1>10, <3>1 DEF QueueOrdered, PendingInOrder
  <2>3. QED
    BY <2>1, <2>2
<1>12. DiskByHeight'
  BY <1>1, <1>6 DEF DiskByHeight
<1>13. Covered' /\ KeptStored' /\ UnsealedReplays'
  <2>1. 1 \in DOMAIN blocks' /\ blocks'[1] = g
    BY <1>10
  <2>2. Covered'
    BY <1>6, <2>1 DEF Covered
  <2>3. KeptStored' /\ UnsealedReplays'
    BY <1>3, <1>9 DEF KeptStored, UnsealedReplays
  <2>4. QED
    BY <2>2, <2>3
<1>14. NothingLost'
  <2>1. CASE o = "ok"
    <3>1. g \in written
      BY <2>1
    <3>2. disk'[0] # NoBlock /\ disk'[0].hash = g.hash /\ 0 \in Heights
      <4>1. 0 \in Heights
        BY <1>1 DEF Block
      <4>2. QED
        BY <1>1, <1>3, <1>5, <3>1, <4>1, AllStored
    <3>3. QED
      BY <1>1, <1>10, <3>2 DEF NothingLost, IsStored
  <2>2. CASE o # "ok"
    <3>1. 1 \in DOMAIN pending' /\ pending'[1] = g
      BY <1>3, <2>2
    <3>2. QED
      BY <1>10, <3>1 DEF NothingLost
  <2>3. QED
    BY <2>1, <2>2
<1>15. OutboxIffBlock => OutboxIffBlock'
  <2>1. CASE misrepaired
    BY <1>3, <2>1 DEF OutboxIffBlock
  <2>2. CASE ~misrepaired
    <3>1. OutboxIffBlock => RowsOf(outbox, disk)
      BY <2>2 DEF OutboxIffBlock, RowsOf
    <3>2. RowsOf(outbox, disk) => RowsOf(outbox', disk')
      BY <1>3, <1>5, InsertKeepsRows
    <3>3. RowsOf(outbox', disk') => OutboxIffBlock'
      BY DEF OutboxIffBlock, RowsOf
    <3>4. QED
      BY <3>1, <3>2, <3>3
  <2>3. QED
    BY <2>1, <2>2
<1>16. QED
  BY <1>3, <1>8, <1>9, <1>11, <1>12, <1>13, <1>14, <1>15 DEF IInv, Aligned

\* A process whose database does not answer runs in memory and touches no table.
LEMMA BootWithoutStoreKeeps == ASSUME IInv, TypeOK', BootWithoutStore PROVE IInv'
<1> DEFINE g == CutBlock(<<>>, "plain")
<1>1. /\ g \in Block /\ g.height = 0 /\ g.hash = minted + 1 /\ g.prev = 0
      /\ g.sound /\ g.prev <= minted /\ Follows(g)
  BY GenesisFacts DEF IInv, BootWithoutStore
<1>2. /\ blocks' = <<g>> /\ pending' = <<>> /\ mode' = "memory" /\ sealed' = FALSE
      /\ UNCHANGED <<disk, outbox, misrepaired>> /\ minted' = minted + 1
  BY DEF BootWithoutStore, Start
<1>3. Known' \subseteq Known \cup {g}
  <2>1. \A i \in DOMAIN blocks' : blocks'[i] \in Known \cup {g}
    BY <1>2
  <2>2. \A h \in Heights : disk'[h] # NoBlock => disk'[h] \in Known \cup {g}
    BY <1>2 DEF Known, Stored
  <2>3. QED
    BY <2>1, <2>2, KnownNext
<1>4. HashesMinted' /\ (Linked => Linked')
  BY <1>1, <1>2, <1>3, OneNew DEF IInv
<1>5. Contiguous' /\ Ascending' /\ Valid(blocks')
  BY <1>1, <1>2, GenesisChain
<1>6. QueueOrdered' /\ DiskByHeight'
  BY <1>2 DEF IInv, QueueOrdered, PendingInOrder, DiskByHeight
<1>7. Covered' /\ KeptStored' /\ NothingLost' /\ UnsealedReplays'
  BY <1>2, <1>5 DEF Covered, KeptStored, NothingLost, UnsealedReplays
<1>8. OutboxIffBlock => OutboxIffBlock'
  BY <1>2 DEF OutboxIffBlock
<1>9. QED
  BY <1>2, <1>4, <1>5, <1>6, <1>7, <1>8 DEF IInv, Aligned

\* A process that replays its stored history: if it verifies, its heights count from
\* zero and the chain takes blocks; if not, it is sealed.
LEMMA BootReplayKeeps == ASSUME IInv, TypeOK', BootReplay PROVE IInv'
<1>1. PICK n \in 1..(MaxHeight + 1) : \E s \in [1..n -> Stored] :
            IsReplayOf(s, disk) /\ Start("store", s) /\ sealed' = Unverified(s)
  BY DEF BootReplay
<1>2. PICK s \in [1..n -> Stored] :
            IsReplayOf(s, disk) /\ Start("store", s) /\ sealed' = Unverified(s)
  BY <1>1
<1>3. /\ blocks' = s /\ mode' = "store" /\ sealed' = ~Valid(s) /\ pending' = <<>>
      /\ UNCHANGED <<disk, outbox, misrepaired, minted>>
  BY <1>2 DEF Start, BootReplay, Unverified
<1>4. s \in Seq(Block) /\ DOMAIN s = 1..n /\ Len(s) = n /\ n \in Nat
  <2>1. Stored \subseteq Block
    BY DEF IInv, TypeOK, Stored
  <2>2. n \in Nat
    BY ChainBounds
  <2>3. QED
    BY <1>2, <2>1, <2>2
<1>5. \A i \in DOMAIN s : s[i] \in Stored
  BY <1>2, <1>4
<1>6. Known' \subseteq Known
  <2>1. \A i \in DOMAIN blocks' : blocks'[i] \in Known
    BY <1>3, <1>5 DEF Known
  <2>2. \A h \in Heights : disk'[h] # NoBlock => disk'[h] \in Known
    BY <1>3 DEF Known, Stored
  <2>3. QED
    BY <2>1, <2>2, KnownNext
<1>7. HashesMinted' /\ (Linked => Linked')
  BY <1>3, <1>6, NothingNew DEF IInv, Same
<1>8. QueueOrdered' /\ DiskByHeight'
  BY <1>3 DEF IInv, QueueOrdered, PendingInOrder, DiskByHeight
<1>9. ASSUME Linked, Valid(s) PROVE Contiguous'
  <2>1. \A i \in DOMAIN s : s[i] \in Known
    BY <1>5 DEF Known
  <2>2. \A i \in DOMAIN s : s[i].prev = GenesisPrevHash => s[i].height = 0
    BY <1>9, <2>1 DEF Linked
  <2>3. \A i, j \in DOMAIN s : s[i].prev = s[j].hash => s[i].height = s[j].height + 1
    BY <1>9, <2>1 DEF Linked
  <2>4. n \in 0..Len(s) /\ \A j \in 1..n : Replays(s, j)
    BY <1>4, <1>9 DEF Valid
  <2>5. \A i \in 1..n : s[i].height = i - 1
    BY <1>4, <2>2, <2>3, <2>4, ReplayedPrefix
  <2>6. QED
    BY <1>3, <1>4, <2>5 DEF Contiguous
<1>10. Ascending' /\ Covered'
  BY <1>2, <1>3 DEF Ascending, Covered, IsReplayOf
<1>11. \A i \in DOMAIN s : IsStored(s[i])
  <2>1. SUFFICES ASSUME NEW i \in DOMAIN s PROVE IsStored(s[i])
    OBVIOUS
  <2>2. PICK h \in Heights : disk[h] # NoBlock /\ s[i] = disk[h]
    BY <1>5 DEF Stored
  <2>3. s[i].height = h
    BY <2>2 DEF IInv, DiskByHeight
  <2>4. QED
    BY <2>2, <2>3 DEF IsStored
<1>12. KeptStored' /\ NothingLost'
  BY <1>3, <1>11 DEF KeptStored, NothingLost, IsStored
<1>13. UnsealedReplays'
  BY <1>3 DEF UnsealedReplays
<1>14. OutboxIffBlock => OutboxIffBlock'
  BY <1>3 DEF OutboxIffBlock
<1>15. Linked => Contiguous'
  BY <1>3, <1>9 DEF Contiguous
<1>16. QED
  BY <1>3, <1>7, <1>8, <1>10, <1>12, <1>13, <1>14, <1>15 DEF IInv, Aligned
------------------------------------------------------------------------------
(* RecoverTruncate *)

\* Deleting from a height on, in both tables, keeps rows and blocks together.
LEMMA CutKeepsRows ==
    ASSUME NEW g \in Nat, RowsOf(outbox, disk)
    PROVE  RowsOf(RowsBelow(g), BlocksBelow(g))
<1>1. SUFFICES ASSUME NEW t \in Topics, NEW h \in Heights
               PROVE  IF BlocksBelow(g)[h] # NoBlock /\ t \in TopicsOf(BlocksBelow(g)[h])
                      THEN /\ RowsBelow(g)[<<t, h>>] # NoRow
                           /\ RowsBelow(g)[<<t, h>>].hash = BlocksBelow(g)[h].hash
                      ELSE RowsBelow(g)[<<t, h>>] = NoRow
  BY DEF RowsOf
<1>2. <<t, h>> \in Keys /\ <<t, h>>[2] = h
  BY DEF Keys
<1>3. BlocksBelow(g)[h] = IF Discarded(h, g) THEN NoBlock ELSE disk[h]
  BY DEF BlocksBelow
<1>4. RowsBelow(g)[<<t, h>>] = IF Discarded(h, g) THEN NoRow ELSE outbox[<<t, h>>]
  BY <1>2 DEF RowsBelow
<1>5. CASE Discarded(h, g)
  BY <1>3, <1>4, <1>5
<1>6. CASE ~Discarded(h, g)
  BY <1>3, <1>4, <1>6 DEF RowsOf
<1>7. QED
  BY <1>5, <1>6

\* What a prefix holds of a chain: the blocks before the cut, which replay if they did.
LEMMA PrefixOf ==
    ASSUME NEW bs \in Seq(Block), NEW n \in 0..Len(bs)
    PROVE  /\ SubSeq(bs, 1, n) \in Seq(Block) /\ Len(SubSeq(bs, 1, n)) = n
           /\ DOMAIN SubSeq(bs, 1, n) = 1..n
           /\ \A i \in 1..n : SubSeq(bs, 1, n)[i] = bs[i] /\ i \in DOMAIN bs
           /\ (\A i \in 1..n : Replays(bs, i)) => Valid(SubSeq(bs, 1, n))
<1> DEFINE p == SubSeq(bs, 1, n)
<1>1. /\ p \in Seq(Block) /\ Len(p) = n /\ DOMAIN p = 1..n
      /\ \A i \in 1..n : p[i] = bs[i] /\ i \in DOMAIN bs
  OBVIOUS
<1>2. ASSUME \A i \in 1..n : Replays(bs, i) PROVE Valid(p)
  <2>1. ASSUME NEW i \in 1..n PROVE Replays(p, i)
    <3>1. CASE i = 1
      BY <1>1, <1>2, <3>1 DEF Replays
    <3>2. CASE i # 1
      <4>1. i - 1 \in 1..n
        BY <3>2
      <4>2. QED
        BY <1>1, <1>2, <3>2, <4>1 DEF Replays
    <3>3. QED
      BY <3>1, <3>2
  <2>2. QED
    BY <1>1, <2>1 DEF Valid
<1>3. QED
  BY <1>1, <1>2

\* A repair, whatever its delete answers.  The invariant makes the height of the broken
\* block usable: heights ascend, so what is deleted starts where the chain breaks.
LEMMA RecoverCutKeeps == ASSUME IInv, TypeOK', RecoverCut PROVE IInv'
<1>1. PICK brk \in DOMAIN blocks, o \in Outcomes :
        LET broken == blocks[brk].height IN
        /\ FirstBroken(blocks, brk) /\ broken > 0 /\ broken <= Len(blocks)
        /\ IF o = "failed" THEN UNCHANGED <<disk, outbox>>
           ELSE disk' = BlocksBelow(broken) /\ outbox' = RowsBelow(broken)
        /\ IF o = "ok"
           THEN /\ blocks' = SubSeq(blocks, 1, broken)
                /\ pending' = <<>>
                /\ sealed' = FALSE
                /\ repair' = "cut"
                /\ misrepaired' = (misrepaired \/ brk # broken + 1)
           ELSE UNCHANGED <<blocks, pending, sealed, repair, misrepaired>>
  BY Zenon DEF RecoverCut
<1> DEFINE broken == blocks[brk].height
<1>2. /\ FirstBroken(blocks, brk) /\ broken > 0 /\ broken <= Len(blocks)
      /\ mode = "store" /\ mode' = mode /\ minted' = minted
  BY <1>1 DEF RecoverCut
<1>3. /\ o = "failed" => UNCHANGED <<disk, outbox>>
      /\ o # "failed" => disk' = BlocksBelow(broken) /\ outbox' = RowsBelow(broken)
      /\ o = "ok" => /\ blocks' = SubSeq(blocks, 1, broken) /\ pending' = <<>> /\ sealed' = FALSE
                     /\ misrepaired' = (misrepaired \/ brk # broken + 1)
      /\ o # "ok" => UNCHANGED <<blocks, pending, sealed, misrepaired>>
  BY <1>1
<1>4. blocks \in Seq(Block) /\ broken \in 0..Len(blocks) /\ broken \in Nat /\ brk \in Nat
  <2>1. blocks \in Seq(Block) /\ blocks[brk] \in Block
    BY DEF IInv, TypeOK
  <2>2. broken \in Nat
    BY <2>1, ChainBounds DEF Block
  <2>3. QED
    BY <1>2, <2>1, <2>2
<1> HIDE DEF broken
<1>5. \A h \in Heights : /\ disk'[h] # NoBlock => disk'[h] = disk[h]
                         /\ o # "failed" => (disk'[h] # NoBlock => h < broken)
                         /\ o # "failed" /\ h < broken => disk'[h] = disk[h]
  <2>1. CASE o = "failed"
    BY <1>3, <2>1
  <2>2. CASE o # "failed"
    <3>1. \A h \in Heights : disk'[h] = IF h >= broken THEN NoBlock ELSE disk[h]
      BY <1>3, <2>2 DEF BlocksBelow, Discarded
    <3>2. \A h \in Heights : h \in Nat
      BY ChainBounds
    <3>3. QED
      BY <1>4, <3>1, <3>2
  <2>3. QED
    BY <2>1, <2>2
<1>6. \A i \in DOMAIN blocks' : i \in DOMAIN blocks /\ blocks'[i] = blocks[i]
  BY <1>3, <1>4, PrefixOf
<1>7. Known' \subseteq Known
  <2>1. \A i \in DOMAIN blocks' : blocks'[i] \in Known
    BY <1>6 DEF Known
  <2>2. \A h \in Heights : disk'[h] # NoBlock => disk'[h] \in Known
    BY <1>5 DEF Known, Stored
  <2>3. QED
    BY <2>1, <2>2, KnownNext
<1>8. HashesMinted' /\ (Linked => Linked')
  BY <1>2, <1>7, NothingNew DEF IInv, Same
<1>9. DiskByHeight'
  BY <1>5 DEF IInv, DiskByHeight
<1>10. QueueOrdered'
  BY <1>3 DEF IInv, QueueOrdered, PendingInOrder
<1>11. ASSUME ~misrepaired' PROVE Aligned'
  <2>1. ~misrepaired /\ Aligned /\ (o = "ok" => brk = broken + 1)
    <3>1. ~misrepaired
      <4>1. CASE o = "ok"
        BY <1>3, <1>11, <4>1
      <4>2. CASE o # "ok"
        BY <1>3, <1>11, <4>2
      <4>3. QED
        BY <4>1, <4>2
    <3>2. Aligned
      BY Zenon, <3>1 DEF IInv
    <3>3. o = "ok" => brk = broken + 1
      BY Zenon, <1>3, <1>11
    <3>4. QED
      BY Zenon, <3>1, <3>2, <3>3
  <2>2. sealed
    <3>1. ~Valid(blocks)
      BY <1>2 DEF Valid, FirstBroken
    <3>2. QED
      BY <1>2, <2>1, <3>1 DEF Aligned, UnsealedReplays
  <2>3. \A i \in DOMAIN blocks : blocks[i] \in Block /\ blocks[i].height \in Nat /\ i \in Nat
    <3>1. \A c \in Block : c.height \in Nat
      BY ChainBounds DEF Block
    <3>2. \A i \in DOMAIN blocks : blocks[i] \in Block /\ i \in Nat
      BY <1>4
    <3>3. QED
      BY <3>1, <3>2
  <2>4. \A i \in DOMAIN blocks : (\A j \in 1..i : Replays(blocks, j)) => i < brk
    <3>1. SUFFICES ASSUME NEW i \in DOMAIN blocks, \A j \in 1..i : Replays(blocks, j), ~(i < brk)
                   PROVE  FALSE
      OBVIOUS
    <3>2. brk \in 1..i
      BY <1>4, <2>3, <3>1
    <3>3. QED
      BY <1>2, <3>1, <3>2 DEF FirstBroken
  <2>5. \A i \in DOMAIN blocks : i < brk <=> blocks[i].height < broken
    <3>1. \A i \in DOMAIN blocks : i < brk => blocks[i].height < broken
      BY <2>1 DEF Aligned, Ascending, broken
    <3>2. \A i \in DOMAIN blocks : brk < i => broken < blocks[i].height
      BY <2>1 DEF Aligned, Ascending, broken
    <3>3. QED
      BY <1>4, <2>3, <3>1, <3>2 DEF broken
  <2>6. \A i \in DOMAIN blocks : (\A j \in 1..i : Replays(blocks, j))
           => /\ blocks[i].height \in Heights /\ disk'[blocks[i].height] # NoBlock
              /\ disk'[blocks[i].height].hash = blocks[i].hash
    <3>1. SUFFICES ASSUME NEW i \in DOMAIN blocks, \A j \in 1..i : Replays(blocks, j)
                   PROVE  /\ blocks[i].height \in Heights /\ disk'[blocks[i].height] # NoBlock
                          /\ disk'[blocks[i].height].hash = blocks[i].hash
      OBVIOUS
    <3>2. /\ blocks[i].height \in Heights /\ disk[blocks[i].height] # NoBlock
          /\ disk[blocks[i].height].hash = blocks[i].hash
      BY <1>2, <2>1, <2>2, <3>1 DEF Aligned, KeptStored, IsStored
    <3>3. blocks[i].height < broken
      BY <2>4, <2>5, <3>1
    <3>4. disk'[blocks[i].height] = disk[blocks[i].height]
      BY <1>3, <1>5, <3>2, <3>3
    <3>5. QED
      BY <3>2, <3>4
  <2>7. OutboxIffBlock'
    <3>1. RowsOf(outbox, disk)
      BY <2>1 DEF Aligned, OutboxIffBlock, RowsOf
    <3>2. RowsOf(outbox', disk')
      BY <1>3, <1>4, <3>1, CutKeepsRows
    <3>3. QED
      BY <3>2 DEF OutboxIffBlock, RowsOf
  <2>8. CASE o # "ok"
    <3>1. UNCHANGED <<blocks, pending, sealed, misrepaired>> /\ sealed'
      BY <1>3, <2>2, <2>8
    <3>2. Contiguous' /\ UnsealedReplays' /\ NothingLost'
      BY <3>1 DEF Contiguous, UnsealedReplays, NothingLost
    <3>3. Ascending'
      BY <2>1, <3>1 DEF Aligned, Ascending
    <3>4. Covered'
      BY <1>2, <1>5, <2>1, <3>1 DEF Aligned, Covered
    <3>5. KeptStored'
      <4>1. ASSUME NEW i \in DOMAIN blocks', \A j \in 1..i : Replays(blocks', j)
            PROVE  /\ blocks'[i].height \in Heights /\ disk'[blocks'[i].height] # NoBlock
                   /\ disk'[blocks'[i].height].hash = blocks'[i].hash
        BY <2>6, <3>1, <4>1
      <4>2. QED
        BY <4>1 DEF KeptStored, IsStored, Replays
    <3>6. QED
      BY <1>8, <2>1, <2>7, <3>2, <3>3, <3>4, <3>5 DEF Aligned
  <2>9. CASE o = "ok"
    <3>1. /\ blocks' = SubSeq(blocks, 1, broken) /\ ~sealed' /\ brk = broken + 1
          /\ o # "failed"
      BY <1>3, <2>1, <2>9
    <3>2. \A i \in 1..broken : i < brk /\ Replays(blocks, i)
      BY <1>2, <1>4, <3>1 DEF FirstBroken
    <3>3. /\ DOMAIN blocks' = 1..broken /\ Valid(blocks')
          /\ \A i \in 1..broken : blocks'[i] = blocks[i] /\ i \in DOMAIN blocks
      BY <1>4, <3>1, <3>2, PrefixOf
    <3>4. \A i \in 1..broken : blocks[i].height = i - 1
      <4>1. \A i \in DOMAIN blocks : blocks[i] \in Known
        BY DEF Known
      <4>2. \A i \in DOMAIN blocks : blocks[i].prev = GenesisPrevHash => blocks[i].height = 0
        BY <2>1, <4>1 DEF Aligned, Linked
      <4>3. \A i, j \in DOMAIN blocks :
               blocks[i].prev = blocks[j].hash => blocks[i].height = blocks[j].height + 1
        BY <2>1, <4>1 DEF Aligned, Linked
      <4>4. QED
        BY <1>4, <3>2, <4>2, <4>3, ReplayedPrefix
    <3>5. \A i \in DOMAIN blocks' : blocks'[i].height = i - 1 /\ i \in Nat
      BY <3>3, <3>4
    <3>6. Contiguous' /\ Ascending'
      BY <3>5 DEF Contiguous, Ascending
    <3>7. UnsealedReplays' /\ KeptStored'
      BY <3>1, <3>3 DEF UnsealedReplays, KeptStored
    <3>8. Covered'
      <4>1. ASSUME NEW h \in Heights, disk'[h] # NoBlock
            PROVE  \E i \in DOMAIN blocks' : blocks'[i].hash = disk'[h].hash
        <5>1. disk'[h] = disk[h] /\ h < broken /\ disk[h] # NoBlock
          BY <1>5, <3>1, <4>1
        <5>2. PICK i \in DOMAIN blocks : blocks[i].hash = disk[h].hash
          BY <1>2, <2>1, <5>1 DEF Aligned, Covered
        <5>3. blocks[i].height = h
          <6>1. blocks[i] \in Known /\ disk[h] \in Known
            BY <5>1 DEF Known, Stored
          <6>2. blocks[i].height = disk[h].height /\ disk[h].height = h
            BY <2>1, <5>1, <5>2, <6>1 DEF Aligned, Linked, IInv, DiskByHeight
          <6>3. QED
            BY <6>2
        <5>4. i < brk
          BY <2>5, <5>1, <5>3
        <5>5. i \in 1..broken
          BY <1>4, <2>3, <3>1, <5>4
        <5>6. QED
          BY <3>3, <5>1, <5>2, <5>5
      <4>2. QED
        BY <4>1 DEF Covered
    <3>9. NothingLost'
      <4>1. ASSUME NEW i \in DOMAIN blocks'
            PROVE  /\ blocks'[i].height \in Heights /\ disk'[blocks'[i].height] # NoBlock
                   /\ disk'[blocks'[i].height].hash = blocks'[i].hash
        <5>1. i \in 1..broken /\ blocks'[i] = blocks[i] /\ i \in DOMAIN blocks
          BY <3>3
        <5>2. \A j \in 1..i : Replays(blocks, j)
          BY <1>4, <3>2, <5>1
        <5>3. QED
          BY <2>6, <5>1, <5>2
      <4>2. QED
        BY <4>1 DEF NothingLost, IsStored
    <3>10. QED
      BY <1>8, <2>1, <2>7, <3>6, <3>7, <3>8, <3>9 DEF Aligned
  <2>10. QED
    BY <2>8, <2>9
<1>12. QED
  BY <1>8, <1>9, <1>10, <1>11 DEF IInv
------------------------------------------------------------------------------
(* The invariant *)

\* The relay's marks touch only rows that exist, and only their delivery flag.
LEMMA MarkKeepsRows ==
    ASSUME TypeOK, NEW batch, batch \subseteq Undelivered, outbox' = Mark(batch)
    PROVE  SameRows
<1>1. ASSUME NEW k \in Keys
      PROVE  /\ outbox'[k] = NoRow <=> outbox[k] = NoRow
             /\ outbox[k] # NoRow => outbox'[k].hash = outbox[k].hash
  <2>1. CASE k \in batch
    <3>1. outbox[k] \in Row
      BY <2>1 DEF Undelivered, TypeOK
    <3>2. outbox'[k] = [outbox[k] EXCEPT !.delivered = TRUE]
      BY <2>1 DEF Mark
    <3>3. outbox'[k] \in Row /\ outbox'[k].hash = outbox[k].hash
      BY <3>1, <3>2 DEF Row
    <3>4. QED
      BY <3>1, <3>3, ChainNulls
  <2>2. CASE k \notin batch
    BY <2>2 DEF Mark
  <2>3. QED
    BY <2>1, <2>2
<1>2. QED
  BY <1>1 DEF SameRows

\* Every block appended, with a store or without, keeps the invariant.
LEMMA AppendBlockKeeps == ASSUME IInv, TypeOK', NEW k \in Kinds, AppendBlock(k) PROVE IInv'
<1>1. AppendDurable(k) \/ AppendInMemory(k)
  BY DEF AppendBlock
<1>2. QED
  BY <1>1, AppendDurableKeeps, AppendInMemoryKeeps

\* The ledger is empty before the first boot.
LEMMA InitiallyOrdered == ASSUME Init, TypeOK PROVE IInv
<1>1. /\ blocks = <<>> /\ pending = <<>> /\ mode = "down" /\ misrepaired = FALSE
      /\ \A h \in Heights : disk[h] = NoBlock
      /\ \A k \in Keys : outbox[k] = NoRow
  BY DEF Init
<1>2. Known = {}
  BY <1>1 DEF Known, Stored
<1>3. QueueOrdered /\ DiskByHeight /\ HashesMinted
  BY <1>1, <1>2 DEF QueueOrdered, PendingInOrder, DiskByHeight, HashesMinted
<1>4. Linked /\ Contiguous /\ Ascending /\ Covered /\ KeptStored
  BY <1>1, <1>2 DEF Linked, Contiguous, Ascending, Covered, KeptStored
<1>5. UnsealedReplays /\ NothingLost
  BY <1>1 DEF UnsealedReplays, NothingLost
<1>6. OutboxIffBlock
  <2>1. \A t \in Topics, h \in Heights : <<t, h>> \in Keys
    BY DEF Keys
  <2>2. QED
    BY <1>1, <2>1 DEF OutboxIffBlock
<1>7. QED
  BY <1>3, <1>4, <1>5, <1>6 DEF IInv, Aligned

\* One step of the system keeps the invariant, action by action.
LEMMA StepKeeps == ASSUME IInv, TypeOK', [Next]_vars PROVE IInv'
<1>1. TypeOK
  BY Zenon DEF IInv
<1>2. (outbox' = outbox) => SameRows
  BY DEF SameRows
<1>3. ASSUME NEW c \in Clients, Admit(c) \/ Record(c) PROVE IInv'
  <2>1. CASE Admit(c)
    BY <1>2, <2>1, LedgerStill DEF Admit, ledger
  <2>2. CASE Record(c)
    BY <2>2, AppendBlockKeeps DEF Record
  <2>3. QED
    BY <1>3, <2>1, <2>2
<1>4. ASSUME RecordUngated \/ RecoverAppend PROVE IInv'
  <2>1. "plain" \in Kinds
    OBVIOUS
  <2>2. AppendBlock("plain")
    BY Zenon, <1>4 DEF RecordUngated, RecoverAppend
  <2>3. QED
    BY <2>1, <2>2, AppendBlockKeeps
<1>5. CASE RecoverCut
  BY <1>5, RecoverCutKeeps
<1>6. CASE RecoverPanic
  BY <1>2, <1>6, LedgerStill DEF RecoverPanic, ledger
<1>7. CASE Boot
  BY <1>7, BootFreshKeeps, BootReplayKeeps, BootWithoutStoreKeeps DEF Boot
<1>8. CASE Crash
  BY <1>8, CrashKeeps
<1>9. ASSUME NEW h \in Heights, Tamper(h) PROVE IInv'
  BY <1>9, TamperKeeps
<1>10. ASSUME NEW batch \in SUBSET Undelivered, NEW committed \in BOOLEAN,
              Relay(batch, committed)
       PROVE  IInv'
  <2>1. /\ batch \subseteq Undelivered
        /\ outbox' = outbox \/ outbox' = Mark(batch)
        /\ UNCHANGED <<mode, blocks, pending, sealed, disk, misrepaired, minted>>
    BY <1>10 DEF Relay
  <2>2. SameRows
    BY <1>1, <1>2, <2>1, MarkKeepsRows
  <2>3. QED
    BY <2>1, <2>2, LedgerStill
<1>11. CASE UNCHANGED vars
  BY <1>2, <1>11, LedgerStill DEF vars
<1>12. QED
  BY <1>3, <1>4, <1>5, <1>6, <1>7, <1>8, <1>9, <1>10, <1>11 DEF Next

\* IInv holds in every reachable state.
LEMMA Inductive == Spec => []IInv
<1>1. Init /\ TypeOK => IInv
  BY InitiallyOrdered
<1>2. IInv /\ TypeOK' /\ [Next]_vars => IInv'
  BY StepKeeps
<1>3. QED
  BY <1>1, <1>2, TypeCorrect, PTL DEF Spec
------------------------------------------------------------------------------
(* What follows from it *)

\* The retry queue of failed writes holds committed blocks in the order they
\* were cut, whatever flushes, refusals and repairs happened (chain.go, Append
\* and flushPendingLocked).
THEOREM QueueInOrder == Spec => []PendingInOrder
<1>1. IInv => PendingInOrder
  BY DEF IInv, QueueOrdered
<1>2. QED
  BY <1>1, Inductive, PTL

\* A running process that takes blocks never loses one: each is stored or still
\* queued, for any number of failures, crashes and edits behind its back, until a
\* repair cuts at an index that is not the broken block's own (chain.go).
THEOREM BlocksSurvive == Spec => []NothingLost
<1>1. IInv => NothingLost
  BY DEF IInv, Aligned, NothingLost
<1>2. QED
  BY <1>1, Inductive, PTL

\* Blocks and the outbox rows they imply exist together or not at all
\* (outbox.go, AppendBlockWithEvents and DeleteBlocksAbove).
THEOREM OutboxMatchesLedger == Spec => []OutboxIffBlock
<1>1. IInv => OutboxIffBlock
  BY DEF IInv, Aligned, OutboxIffBlock
<1>2. QED
  BY <1>1, Inductive, PTL

\* A process that still appends holds a chain that replays: boot seals the
\* others, and an aligned repair reopens only the part that does (chain.go,
\* NewChainWithStore and RecoverTruncate).
THEOREM OpenChainReplays == Spec => []UnsealedReplays
<1>1. IInv => UnsealedReplays
  BY DEF IInv, Aligned, UnsealedReplays
<1>2. QED
  BY <1>1, Inductive, PTL

\* what one step leaves of every stored block
StoredKept ==
    \A h \in Heights : disk[h] # NoBlock =>
        \/ disk'[h] # NoBlock /\ disk'[h].hash = disk[h].hash /\ disk'[h].kind = disk[h].kind
        \/ /\ disk'[h] = NoBlock
           /\ \E i \in DOMAIN blocks : FirstBroken(blocks, i) /\ h >= blocks[i].height

\* No step replaces a stored block by another, and the only one that removes
\* blocks is a repair, at or after the break (chain_store.go, chain.go:324).
THEOREM StorageIsAppendOnly == Spec => StoredNeverRewritten
<1>1. ASSUME disk' = disk PROVE StoredKept
  BY <1>1 DEF StoredKept
<1>2. ASSUME NEW W, disk' = InsertBlocks(disk, W) PROVE StoredKept
  BY <1>2, StoredOrOld DEF StoredKept
<1>3. ASSUME NEW k, AppendBlock(k) PROVE StoredKept
  <2>1. disk' = disk \/ \E W : disk' = InsertBlocks(disk, W)
    BY Zenon, <1>3 DEF AppendBlock, AppendDurable, AppendInMemory
  <2>2. QED
    BY <1>1, <1>2, <2>1
<1>4. ASSUME RecoverCut PROVE StoredKept
  <2>1. PICK brk \in DOMAIN blocks :
            FirstBroken(blocks, brk) /\ (disk' = disk \/ disk' = BlocksBelow(blocks[brk].height))
    BY Zenon, <1>4 DEF RecoverCut
  <2>2. CASE disk' = BlocksBelow(blocks[brk].height)
    BY <2>1, <2>2 DEF BlocksBelow, Discarded, StoredKept
  <2>3. QED
    BY <1>1, <2>1, <2>2
<1>5. ASSUME TypeOK, NEW g \in Heights, Tamper(g) PROVE StoredKept
  <2>1. disk \in [Heights -> Block \cup {NoBlock}] /\ disk[g] # NoBlock
        /\ disk' = [disk EXCEPT ![g].sound = FALSE]
    BY <1>5 DEF TypeOK, Tamper
  <2>2. \A b \in Block : LET e == [b EXCEPT !.sound = FALSE] IN
            e \in Block /\ e # NoBlock /\ e.hash = b.hash /\ e.kind = b.kind
    BY ChainNulls DEF Block
  <2>3. \A h \in Heights : disk'[h] = IF h = g THEN [disk[g] EXCEPT !.sound = FALSE] ELSE disk[h]
    BY <2>1
  <2>4. QED
    BY <2>1, <2>2, <2>3 DEF StoredKept
<1>6. TypeOK /\ [Next]_vars => StoredKept
  <2>1. SUFFICES ASSUME TypeOK, [Next]_vars PROVE StoredKept
    OBVIOUS
  <2>2. ASSUME Boot PROVE StoredKept
    <3>1. disk' = disk \/ \E W : disk' = InsertBlocks(disk, W)
      BY Zenon, <2>2 DEF Boot, BootFresh, BootReplay, BootWithoutStore
    <3>2. QED
      BY <1>1, <1>2, <3>1
  <2>3. ASSUME NEW c \in Clients, Admit(c) \/ Record(c) PROVE StoredKept
    BY <1>1, <1>3, <2>3 DEF Admit, ledger, Record
  <2>4. ASSUME RecordUngated \/ RecoverAppend PROVE StoredKept
    BY <1>3, <2>4 DEF RecordUngated, RecoverAppend
  <2>5. ASSUME RecoverPanic \/ Crash \/ UNCHANGED vars PROVE StoredKept
    BY <1>1, <2>5 DEF RecoverPanic, ledger, Crash, vars
  <2>6. ASSUME NEW batch \in SUBSET Undelivered, NEW committed \in BOOLEAN,
               Relay(batch, committed)
        PROVE  StoredKept
    BY <1>1, <2>6 DEF Relay
  <2>7. QED
    BY <1>4, <1>5, <2>1, <2>2, <2>3, <2>4, <2>5, <2>6 DEF Next
<1>7. Spec => [][StoredKept]_vars
  BY <1>6, TypeCorrect, PTL DEF Spec
<1>8. QED
  BY <1>7 DEF StoredNeverRewritten, StoredKept

-----------------------------------------------------------------------------
(* The conditional settlement desk *)

HIDE DEF Heights, Hashes, Kinds, Topics, GenesisPrevHash

\* A call that is past Settle, and before the status is written, has moved the legs of
\* its condition: what makes ReleasedHasMoved inductive.
SettledCallHasMoved ==
    \A c \in Callers : call[c].at \in {"consume", "release"} => legs[call[c].i] > 0

DeskInv == DeskTypeOK /\ ReservedWithinBalance /\ ReleasedHasMoved /\ SettledCallHasMoved

-----------------------------------------------------------------------------
(* What the helpers return *)

\* The clamped subtraction of unreserve and settle gives a balance, and no more.
LEMMA LessBounds ==
    ASSUME NEW m \in Nat, NEW n \in Nat
    PROVE  Less(m, n) \in Nat /\ Less(m, n) <= m /\ (n <= m => Less(m, n) = m - n)
BY DEF Less

\* The fresh call, and terms as the desk's constants declare them.
LEMMA Constants ==
    /\ Idle \in Call
    /\ \A t \in Terms : /\ t.buyer \in Parties /\ t.seller \in Parties
                        /\ t.tokens \in Nat /\ t.cash \in Nat
    /\ Ids \subseteq Nat /\ 1 \in Ids
<1>1. NoTerms \in Terms
  BY DeskConstants, Zenon DEF NoTerms
<1>2. 1 \in Ids /\ Ids \subseteq Nat
  BY DeskConstants DEF Ids
<1>3. Idle \in Call
  BY <1>1, <1>2 DEF Idle, Call, Points, Ends
<1>4. QED
  BY <1>2, <1>3, DeskConstants

\* Going on to a well-formed call keeps the calls, and their history, well formed.
LEMMA GoesType ==
    ASSUME DeskTypeOK, NEW c \in Callers, NEW k \in Call, Goes(c, k)
    PROVE  call' \in [Callers -> Call] /\ crossed' \subseteq Ids
<1>1. Crossing(c, k) \subseteq Ids
  BY DEF Crossing
<1>2. QED
  BY <1>1 DEF DeskTypeOK, Goes

\* Moving cash between wallets that can pay it leaves every wallet with a balance of
\* at least what it had, the payer's less the cash.
LEMMA PaysBounds ==
    ASSUME DeskTypeOK, NEW t \in Terms, balance[t.buyer] >= t.cash, Pays(t)
    PROVE  /\ balance' \in [Parties -> Nat]
           /\ \A p \in Parties : p # t.buyer => balance'[p] >= balance[p]
           /\ balance'[t.buyer] >= balance[t.buyer] - t.cash
BY Constants DEF DeskTypeOK, Pays, Passed

\* Delivering tokens the seller holds keeps every position a count.
LEMMA DeliversType ==
    ASSUME DeskTypeOK, NEW t \in Terms, position[t.seller] >= t.tokens, Delivers(t)
    PROVE  position' \in [Parties -> Nat]
BY Constants DEF DeskTypeOK, Delivers, Passed

\* Lifting a reservation of some wallet raises none.
LEMMA LiftBounds ==
    ASSUME DeskTypeOK, NEW p \in Parties, NEW n \in Nat
    PROVE  LET lifted == [reserved EXCEPT ![p] = Less(@, n)] IN
           /\ lifted \in [Parties -> Nat]
           /\ lifted[p] = Less(reserved[p], n)
           /\ \A q \in Parties : lifted[q] <= reserved[q]
<1>1. reserved[p] \in Nat
  BY DEF DeskTypeOK
<1>2. Less(reserved[p], n) \in Nat /\ Less(reserved[p], n) <= reserved[p]
  BY <1>1, LessBounds
<1>3. QED
  BY <1>2 DEF DeskTypeOK
-----------------------------------------------------------------------------
(* The invariant is preserved, action by action *)

\* A step that changes only the call keeps the invariant if the new call is well
\* formed and past Settle only with its legs moved.
LEMMA OnlyCallMoves ==
    ASSUME DeskInv, NEW c \in Callers, NEW k \in Call, Goes(c, k),
           UNCHANGED <<money, desk, spent, past>>,
           due' \subseteq Ids, calls' \in 0..MaxCalls,
           k.at \in {"consume", "release"} => legs[k.i] > 0
    PROVE  DeskInv'
<1>1. call' \in [Callers -> Call] /\ crossed' \subseteq Ids
  BY GoesType DEF DeskInv
<1>2. DeskTypeOK'
  BY <1>1 DEF DeskInv, DeskTypeOK, money, desk, past
<1>3. SettledCallHasMoved'
  BY DEF DeskInv, DeskTypeOK, SettledCallHasMoved, Goes, past
<1>4. QED
  BY <1>2, <1>3 DEF DeskInv, ReservedWithinBalance, ReleasedHasMoved, money, desk, past

\* Reserving what is available keeps every reservation within its balance.
LEMMA ReserveKeeps ==
    ASSUME DeskInv, NEW c \in Callers, Reserve(c)
    PROVE  DeskInv'
<1> DEFINE t == call[c].t
<1>1. t \in Terms /\ call[c] \in Call
  BY DEF DeskInv, DeskTypeOK, Call
<1>2. [call[c] EXCEPT !.at = "register"] \in Call
  BY <1>1 DEF Call, Points
<1>3. CASE Available(t.buyer) < t.cash
  <2>1. Goes(c, Idle) /\ UNCHANGED <<money, desk, due, spent, past, calls>>
    BY <1>3 DEF Reserve, Is, money
  <2>2. QED
    BY <2>1, OnlyCallMoves, Constants DEF DeskInv, DeskTypeOK, Idle
<1>4. CASE ~(Available(t.buyer) < t.cash)
  <2>1. /\ Goes(c, [call[c] EXCEPT !.at = "register"])
        /\ reserved' = [reserved EXCEPT ![t.buyer] = @ + t.cash]
        /\ UNCHANGED <<balance, position, desk, due, spent, past, calls>>
    BY <1>4 DEF Reserve, Is, Then
  <2>2. reserved' \in [Parties -> Nat] /\ ReservedWithinBalance'
    BY <1>1, <1>4, <2>1, Constants DEF DeskInv, DeskTypeOK, ReservedWithinBalance, Available
  <2>3. call' \in [Callers -> Call] /\ crossed' \subseteq Ids
    BY <1>2, <2>1, GoesType DEF DeskInv
  <2>4. DeskTypeOK'
    BY <2>1, <2>2, <2>3 DEF DeskInv, DeskTypeOK, desk, past
  <2>5. ReleasedHasMoved' /\ SettledCallHasMoved'
    BY <1>2, <2>1 DEF DeskInv, DeskTypeOK, ReleasedHasMoved, SettledCallHasMoved, Goes, desk, past
  <2>6. QED
    BY <2>2, <2>4, <2>5 DEF DeskInv
<1>5. QED
  BY <1>3, <1>4

\* Registering gives the condition terms and the status OPEN.
LEMMA RegisterKeeps ==
    ASSUME DeskInv, NEW c \in Callers, Register(c)
    PROVE  DeskInv'
<1>1. call[c].t \in Terms
  BY DEF DeskInv, DeskTypeOK, Call
<1>2. /\ terms' \in [Ids -> Terms] /\ status' \in [Ids -> Statuses]
      /\ \A i \in Ids : status'[i] = "RELEASED" => status[i] = "RELEASED"
  BY <1>1 DEF DeskInv, DeskTypeOK, Register, Statuses
<1>3. DeskTypeOK'
  BY <1>2, Constants, GoesType DEF DeskInv, DeskTypeOK, Register, Is, money, past
<1>4. QED
  BY <1>2, <1>3, Constants
     DEF DeskInv, ReservedWithinBalance, ReleasedHasMoved, SettledCallHasMoved, DeskTypeOK,
         Register, Is, Goes, Idle, money, past

\* A refused settlement at most lifts the reservation.
LEMMA SettleRefusedKeeps ==
    ASSUME DeskInv, NEW c \in Callers, SettleRefused(c)
    PROVE  DeskInv'
<1> DEFINE t == call[c].t
<1>1. t \in Terms /\ call[c].i \in Ids
  BY DEF DeskInv, DeskTypeOK, Call
<1>2. reserved' \in [Parties -> Nat] /\ \A p \in Parties : reserved'[p] <= reserved[p]
  <2>1. CASE UNCHANGED reserved
    BY <2>1 DEF DeskInv, DeskTypeOK
  <2>2. CASE reserved' = [reserved EXCEPT ![t.buyer] = Less(@, t.cash)]
    BY <1>1, <2>2, Constants, LiftBounds DEF DeskInv
  <2>3. QED
    BY <2>1, <2>2 DEF SettleRefused
<1>3. /\ UNCHANGED <<balance, position, desk, due, spent, legs, calls>>
      /\ Goes(c, Idle) /\ lapsed' \subseteq Ids
  BY <1>1 DEF SettleRefused, Is, Refused, DeskInv, DeskTypeOK
<1>4. DeskTypeOK'
  BY <1>2, <1>3, Constants, GoesType DEF DeskInv, DeskTypeOK, desk
<1>5. ReservedWithinBalance'
  BY <1>2, <1>3 DEF DeskInv, DeskTypeOK, ReservedWithinBalance
<1>6. ReleasedHasMoved' /\ SettledCallHasMoved'
  BY <1>3, Constants
     DEF DeskInv, DeskTypeOK, ReleasedHasMoved, SettledCallHasMoved, Goes, Idle, desk
<1>7. QED
  BY <1>4, <1>5, <1>6 DEF DeskInv

\* Settling lifts the reservation with the cash it pays, and records the legs.
LEMMA SettleKeeps ==
    ASSUME DeskInv, NEW c \in Callers, Settle(c)
    PROVE  DeskInv'
<1> DEFINE t == call[c].t
<1>1. t \in Terms /\ call[c].i \in Ids /\ call[c] \in Call
  BY DEF DeskInv, DeskTypeOK, Call
<1>2. /\ balance[t.buyer] >= t.cash /\ position[t.seller] >= t.tokens
      /\ reserved' = [reserved EXCEPT ![t.buyer] = Less(@, t.cash)]
      /\ Pays(t) /\ Delivers(t)
      /\ legs' = [legs EXCEPT ![call[c].i] = @ + 1]
      /\ UNCHANGED <<desk, due, spent, lapsed, calls>>
  BY DEF Settle, AfterPaying, Is
<1>3. PICK k \in Call : /\ Goes(c, k) /\ k.i = call[c].i
  <2>1. /\ [call[c] EXCEPT !.at = "consume"] \in Call
        /\ [call[c] EXCEPT !.at = "release"] \in Call
    BY <1>1 DEF Call, Points
  <2>2. \/ Goes(c, [call[c] EXCEPT !.at = "consume"])
        \/ Goes(c, [call[c] EXCEPT !.at = "release"])
    BY DEF Settle, Then
  <2>3. QED
    BY <1>1, <2>1, <2>2 DEF Call
<1>4. /\ balance' \in [Parties -> Nat] /\ position' \in [Parties -> Nat]
      /\ \A p \in Parties : p # t.buyer => balance'[p] >= balance[p]
      /\ balance'[t.buyer] >= balance[t.buyer] - t.cash
  BY <1>1, <1>2, PaysBounds, DeliversType DEF DeskInv
<1>5. /\ reserved' \in [Parties -> Nat] /\ reserved'[t.buyer] = Less(reserved[t.buyer], t.cash)
      /\ \A p \in Parties : reserved'[p] <= reserved[p]
  <2>1. t.buyer \in Parties /\ t.cash \in Nat /\ DeskTypeOK
    BY <1>1, Constants DEF DeskInv
  <2>2. reserved' = [reserved EXCEPT ![t.buyer] = Less(@, t.cash)]
    BY <1>2
  <2>3. QED
    BY <2>1, <2>2, LiftBounds
<1>6. ReservedWithinBalance'
  <2> SUFFICES ASSUME NEW p \in Parties PROVE reserved'[p] <= balance'[p]
    BY DEF ReservedWithinBalance
  <2>1. /\ reserved[p] \in Nat /\ balance[p] \in Nat /\ reserved[p] <= balance[p]
        /\ reserved'[p] \in Nat /\ balance'[p] \in Nat /\ t.cash \in Nat
    BY <1>1, <1>4, <1>5, Constants DEF DeskInv, DeskTypeOK, ReservedWithinBalance
  <2>2. CASE p = t.buyer
    BY <1>2, <1>4, <1>5, <2>1, <2>2 DEF Less
  <2>3. CASE p # t.buyer
    BY <1>4, <1>5, <2>1, <2>3
  <2>4. QED
    BY <2>2, <2>3
<1>7. legs' \in [Ids -> Nat] /\ legs'[call[c].i] > 0 /\ \A i \in Ids : legs'[i] >= legs[i]
  BY <1>1, <1>2 DEF DeskInv, DeskTypeOK
<1>8. DeskTypeOK'
  BY <1>2, <1>3, <1>4, <1>5, <1>7, GoesType DEF DeskInv, DeskTypeOK, desk
<1>9. ReleasedHasMoved'
  BY <1>2, <1>7 DEF DeskInv, DeskTypeOK, ReleasedHasMoved, desk
<1>10. SettledCallHasMoved'
  <2> SUFFICES ASSUME NEW e \in Callers, call'[e].at \in {"consume", "release"}
               PROVE  legs'[call'[e].i] > 0
    BY DEF SettledCallHasMoved
  <2>1. CASE e = c
    BY <1>3, <1>7, <2>1 DEF DeskInv, DeskTypeOK, Goes
  <2>2. CASE e # c
    <3>1. call'[e] = call[e] /\ call[e].i \in Ids
      BY <1>3, <2>2 DEF DeskInv, DeskTypeOK, Goes, Call
    <3>2. QED
      BY <1>7, <3>1 DEF DeskInv, DeskTypeOK, SettledCallHasMoved
  <2>3. QED
    BY <2>1, <2>2
<1>11. QED
  BY <1>6, <1>8, <1>9, <1>10 DEF DeskInv

\* Charging the mandate changes the spend and the step.
LEMMA ConsumeKeeps ==
    ASSUME DeskInv, NEW c \in Callers, Consume(c)
    PROVE  DeskInv'
<1>1. [call[c] EXCEPT !.at = "release"] \in Call /\ call[c].t.cash \in Nat
  BY Constants DEF DeskInv, DeskTypeOK, Call, Points
<1>2. /\ Goes(c, [call[c] EXCEPT !.at = "release"])
      /\ spent' = spent + call[c].t.cash
      /\ UNCHANGED <<money, desk, due, past, calls>>
  BY DEF Consume, Then, Is
<1>3. DeskTypeOK'
  BY <1>1, <1>2, GoesType DEF DeskInv, DeskTypeOK, money, desk, past
<1>4. SettledCallHasMoved'
  BY <1>1, <1>2 DEF DeskInv, DeskTypeOK, Call, SettledCallHasMoved, Consume, Is, Goes, past
<1>5. QED
  BY <1>2, <1>3, <1>4 DEF DeskInv, ReservedWithinBalance, ReleasedHasMoved, money, desk, past

\* A released condition is one whose legs moved before.
LEMMA ReleaseKeeps ==
    ASSUME DeskInv, NEW c \in Callers, Release(c)
    PROVE  DeskInv'
<1>1. legs[call[c].i] > 0 /\ call[c].i \in Ids
  BY DEF DeskInv, DeskTypeOK, Call, SettledCallHasMoved, Release, Is
<1>2. /\ status' = [status EXCEPT ![call[c].i] = "RELEASED"]
      /\ Goes(c, Idle)
      /\ UNCHANGED <<money, terms, due, spent, past, calls>>
  BY DEF Release, Is
<1>3. DeskTypeOK'
  BY <1>2, Constants, GoesType DEF DeskInv, DeskTypeOK, Statuses, money, past
<1>4. ReleasedHasMoved'
  BY <1>1, <1>2 DEF DeskInv, DeskTypeOK, ReleasedHasMoved, past
<1>5. SettledCallHasMoved'
  BY <1>2 DEF DeskInv, DeskTypeOK, SettledCallHasMoved, Goes, Idle, past
<1>6. QED
  BY <1>2, <1>3, <1>4, <1>5 DEF DeskInv, ReservedWithinBalance, money

\* Going on to Tick's next condition gives a well-formed call that is not past Settle.
LEMMA GoesOnType ==
    ASSUME DeskTypeOK, NEW c \in Callers, GoesOn(c)
    PROVE  \E k \in Call : Goes(c, k) /\ k.at \in {"idle", "expire"}
<1>1. CASE call[c].todo = {} /\ Goes(c, Idle)
  BY <1>1, Constants DEF Idle
<1>2. ASSUME NEW i \in call[c].todo,
             Goes(c, [Idle EXCEPT !.at = "expire", !.i = i, !.todo = call[c].todo \ {i}])
      PROVE  \E k \in Call : Goes(c, k) /\ k.at \in {"idle", "expire"}
  <2>1. i \in Ids /\ call[c].todo \ {i} \subseteq Ids
    BY DEF DeskTypeOK, Call
  <2>2. [Idle EXCEPT !.at = "expire", !.i = i, !.todo = call[c].todo \ {i}] \in Call
    BY <2>1, Constants DEF Call, Idle, Points
  <2>3. QED
    BY <1>2, <2>2 DEF Idle
<1>3. QED
  BY <1>1, <1>2 DEF GoesOn

\* Looking at an overdue condition changes the call only.
LEMMA ExpireKeeps ==
    ASSUME DeskInv, NEW c \in Callers, Expire(c)
    PROVE  DeskInv'
<1>1. PICK k \in Call : Goes(c, k) /\ k.at \in {"idle", "expire", "unreserve"}
  <2>1. CASE GoesOn(c)
    BY <2>1, GoesOnType DEF DeskInv
  <2>2. CASE Goes(c, [call[c] EXCEPT !.at = "unreserve", !.t = terms[call[c].i], !.end = "EXPIRED"])
    <3>1. [call[c] EXCEPT !.at = "unreserve", !.t = terms[call[c].i], !.end = "EXPIRED"] \in Call
      BY DEF DeskInv, DeskTypeOK, Call, Points, Ends
    <3>2. QED
      BY <2>2, <3>1 DEF DeskInv, DeskTypeOK, Call
  <2>3. QED
    BY <2>1, <2>2 DEF Expire
<1>2. UNCHANGED <<money, desk, due, spent, past, calls>>
  BY DEF Expire, Is
<1>3. QED
  BY <1>1, <1>2, OnlyCallMoves DEF DeskInv, DeskTypeOK

\* Lifting a reservation, clamped, keeps it within the balance.
LEMMA UnreserveKeeps ==
    ASSUME DeskInv, NEW c \in Callers, Unreserve(c)
    PROVE  DeskInv'
<1> DEFINE t == call[c].t
<1>1. t \in Terms /\ [call[c] EXCEPT !.at = "close"] \in Call
  BY DEF DeskInv, DeskTypeOK, Call, Points
<1>2. /\ reserved' = [reserved EXCEPT ![t.buyer] = Less(@, t.cash)]
      /\ Goes(c, [call[c] EXCEPT !.at = "close"])
      /\ UNCHANGED <<balance, position, desk, due, spent, past, calls>>
  BY DEF Unreserve, Then, Is
<1>3. reserved' \in [Parties -> Nat] /\ \A p \in Parties : reserved'[p] <= reserved[p]
  BY <1>1, <1>2, Constants, LiftBounds DEF DeskInv
<1>4. ReservedWithinBalance'
  BY <1>2, <1>3 DEF DeskInv, DeskTypeOK, ReservedWithinBalance
<1>5. DeskTypeOK'
  BY <1>1, <1>2, <1>3, GoesType DEF DeskInv, DeskTypeOK, desk, past
<1>6. ReleasedHasMoved' /\ SettledCallHasMoved'
  BY <1>1, <1>2 DEF DeskInv, DeskTypeOK, Call, ReleasedHasMoved, SettledCallHasMoved, Goes, desk, past
<1>7. QED
  BY <1>4, <1>5, <1>6 DEF DeskInv

\* Ending a condition without a release never records a release.
LEMMA CloseKeeps ==
    ASSUME DeskInv, NEW c \in Callers, Close(c)
    PROVE  DeskInv'
<1>1. call[c].end \in Ends /\ call[c].i \in Ids
  BY DEF DeskInv, DeskTypeOK, Call
<1>2. PICK k \in Call : Goes(c, k) /\ k.at \in {"idle", "expire"}
  BY GoesOnType DEF DeskInv, Close
<1>3. /\ status' = [status EXCEPT ![call[c].i] = call[c].end]
      /\ UNCHANGED <<money, terms, due, spent, past, calls>>
  BY DEF Close, Is
<1>4. DeskTypeOK'
  BY <1>1, <1>2, <1>3, GoesType DEF DeskInv, DeskTypeOK, Statuses, Ends, money, past
<1>5. ReleasedHasMoved'
  BY <1>1, <1>3 DEF DeskInv, DeskTypeOK, ReleasedHasMoved, Ends, past
<1>6. SettledCallHasMoved'
  BY <1>2, <1>3 DEF DeskInv, DeskTypeOK, SettledCallHasMoved, Goes, past
<1>7. QED
  BY <1>3, <1>4, <1>5, <1>6 DEF DeskInv, ReservedWithinBalance, money

\* A DvP pays out of what is not reserved.
LEMMA SettleDvPKeeps ==
    ASSUME DeskInv, NEW t \in Terms, SettleDvP(t)
    PROVE  DeskInv'
<1>1. /\ Available(t.buyer) >= t.cash /\ position[t.seller] >= t.tokens
      /\ Pays(t) /\ Delivers(t) /\ calls' \in 0..MaxCalls
      /\ UNCHANGED <<reserved, desk, due, spent, past, crossed, call>>
  BY DeskConstants DEF SettleDvP, DeskInv, DeskTypeOK
<1>2. balance[t.buyer] >= t.cash + reserved[t.buyer] /\ balance[t.buyer] >= t.cash
  BY <1>1, Constants DEF DeskInv, DeskTypeOK, Available
<1>3. /\ balance' \in [Parties -> Nat] /\ position' \in [Parties -> Nat]
      /\ \A p \in Parties : p # t.buyer => balance'[p] >= balance[p]
      /\ balance'[t.buyer] >= balance[t.buyer] - t.cash
  BY <1>1, <1>2, PaysBounds, DeliversType DEF DeskInv
<1>4. ReservedWithinBalance'
  BY <1>1, <1>2, <1>3, Constants DEF DeskInv, DeskTypeOK, ReservedWithinBalance
<1>5. DeskTypeOK'
  BY <1>1, <1>3 DEF DeskInv, DeskTypeOK, desk, past
<1>6. QED
  BY <1>1, <1>4, <1>5 DEF DeskInv, ReleasedHasMoved, SettledCallHasMoved, desk, past

\* Beginning a call, checking one that was begun, and Tick change the calls only.
LEMMA BeginKeeps ==
    ASSUME DeskInv, NEW c \in Callers,
           \/ \E t \in Terms : Open(c, t)
           \/ \E i \in Ids, agent \in BOOLEAN : Present(c, i, agent)
           \/ \E i \in Ids : Cancel(c, i)
    PROVE  DeskInv'
<1>1. UNCHANGED <<money, desk, due, spent, past>> /\ calls' \in 0..MaxCalls
  <2>1. UNCHANGED <<money, desk, due, spent, past>>
    BY Zenon DEF Open, Present, Cancel
  <2>2. Begin(c)
    BY Zenon DEF Open, Present, Cancel
  <2>3. calls' \in 0..MaxCalls
    BY <2>2, DeskConstants DEF Begin, DeskInv, DeskTypeOK
  <2>4. QED
    BY <2>1, <2>3
<1>2. PICK k \in Call : Goes(c, k) /\ k.at \in {"reserve", "verify", "unreserve"}
  <2>1. ASSUME NEW t \in Terms, Open(c, t)
        PROVE  \E k \in Call : Goes(c, k) /\ k.at \in {"reserve", "verify", "unreserve"}
    <3>1. [Idle EXCEPT !.at = "reserve", !.t = t] \in Call
      BY Constants DEF Call, Idle, Points
    <3>2. QED
      BY <2>1, <3>1 DEF Open, Idle
  <2>2. ASSUME NEW i \in Ids, NEW agent \in BOOLEAN, Present(c, i, agent)
        PROVE  \E k \in Call : Goes(c, k) /\ k.at \in {"reserve", "verify", "unreserve"}
    <3>1. [Idle EXCEPT !.at = "verify", !.t = terms[i], !.i = i, !.agent = agent] \in Call
      BY Constants DEF Call, Idle, Points, DeskInv, DeskTypeOK
    <3>2. QED
      BY <2>2, <3>1 DEF Present, Idle
  <2>3. ASSUME NEW i \in Ids, Cancel(c, i)
        PROVE  \E k \in Call : Goes(c, k) /\ k.at \in {"reserve", "verify", "unreserve"}
    <3>1. [Idle EXCEPT !.at = "unreserve", !.t = terms[i], !.i = i, !.end = "REFUNDED"] \in Call
      BY Constants DEF Call, Idle, Points, Ends, DeskInv, DeskTypeOK
    <3>2. QED
      BY <2>3, <3>1 DEF Cancel, Idle
  <2>4. QED
    BY <2>1, <2>2, <2>3
<1>3. QED
  BY <1>1, <1>2, OnlyCallMoves DEF DeskInv, DeskTypeOK

\* Verify decides where the presentation goes, never past Settle.
LEMMA VerifyKeeps ==
    ASSUME DeskInv, NEW c \in Callers, NEW satisfied \in BOOLEAN, Verify(c, satisfied)
    PROVE  DeskInv'
<1>1. /\ Idle \in Call
      /\ [call[c] EXCEPT !.at = "expire"] \in Call
      /\ [call[c] EXCEPT !.at = "settle"] \in Call
  BY Constants DEF DeskInv, DeskTypeOK, Call, Points
<1>2. \/ Goes(c, Idle)
      \/ Goes(c, [call[c] EXCEPT !.at = "expire"])
      \/ Goes(c, [call[c] EXCEPT !.at = "settle"])
  BY Zenon DEF Verify, Then
<1>3. PICK k \in Call : Goes(c, k) /\ k.at \in {"idle", "expire", "settle"}
  BY <1>1, <1>2 DEF Idle, DeskInv, DeskTypeOK, Call
<1>4. UNCHANGED <<money, desk, due, spent, past, calls>>
  BY DEF Verify, Is
<1>5. QED
  BY <1>3, <1>4, OnlyCallMoves DEF DeskInv, DeskTypeOK

\* Tick takes the first overdue condition and keeps the others for later.
LEMMA TickKeeps ==
    ASSUME DeskInv, Tick
    PROVE  DeskInv'
<1>1. PICK i \in Overdue :
        Goes(Timer, [Idle EXCEPT !.at = "expire", !.i = i, !.todo = Overdue \ {i}])
  BY DEF Tick
<1>2. Overdue \subseteq Ids /\ Timer \in Callers
  BY DEF Overdue, DeskInv, DeskTypeOK, Callers
<1>3. [Idle EXCEPT !.at = "expire", !.i = i, !.todo = Overdue \ {i}] \in Call
  BY <1>2, Constants DEF Call, Idle, Points
<1>4. UNCHANGED <<money, desk, due, spent, past, calls>>
  BY DEF Tick
<1>5. QED
  BY <1>1, <1>2, <1>3, <1>4, OnlyCallMoves DEF DeskInv, DeskTypeOK, Idle
-----------------------------------------------------------------------------
\* DeskInv holds at first and after every step.
LEMMA DeskInductive == DeskSpec => []DeskInv
<1>1. DeskInit => DeskInv
  <2> SUFFICES ASSUME DeskInit PROVE DeskInv
    OBVIOUS
  <2>1. DeskTypeOK
    <3>1. NoTerms \in Terms
      BY Constants DEF Idle, Call
    <3>2. terms \in [Ids -> Terms] /\ status \in [Ids -> Statuses]
      BY <3>1 DEF DeskInit, Statuses
    <3>3. call \in [Callers -> Call]
      BY Constants DEF DeskInit
    <3>4. calls \in 0..MaxCalls
      BY DeskConstants DEF DeskInit
    <3>5. QED
      BY <3>2, <3>3, <3>4, DeskConstants DEF DeskInit, DeskTypeOK
  <2>2. ReservedWithinBalance /\ ReleasedHasMoved /\ SettledCallHasMoved
    BY DeskConstants DEF DeskInit, ReservedWithinBalance, ReleasedHasMoved, SettledCallHasMoved, Idle
  <2>3. QED
    BY <2>1, <2>2 DEF DeskInv
<1>2. DeskInv /\ [DeskNext]_deskVars => DeskInv'
  <2> SUFFICES ASSUME DeskInv, [DeskNext]_deskVars PROVE DeskInv'
    OBVIOUS
  <2>1. ASSUME NEW c \in DeskCalls,
               \/ \E t \in Terms : Open(c, t)
               \/ \E i \in Ids : \/ \E agent \in BOOLEAN : Present(c, i, agent)
                                 \/ Cancel(c, i)
        PROVE  DeskInv'
    <3>1. c \in Callers
      BY DEF Callers
    <3>2. QED
      BY <2>1, <3>1, BeginKeeps
  <2>2. ASSUME NEW c \in Callers, Advance(c) PROVE DeskInv'
    BY <2>2, ReserveKeeps, RegisterKeeps, VerifyKeeps, SettleRefusedKeeps, SettleKeeps,
       ConsumeKeeps, ReleaseKeeps, ExpireKeeps, UnreserveKeeps, CloseKeeps DEF Advance
  <2>3. ASSUME Tick PROVE DeskInv'
    BY <2>3, TickKeeps
  <2>4. ASSUME NEW t \in Terms, SettleDvP(t) PROVE DeskInv'
    BY <2>4, SettleDvPKeeps
  <2>5. ASSUME NEW i \in Ids, Elapse(i) PROVE DeskInv'
    BY <2>5 DEF Elapse, DeskInv, DeskTypeOK, ReservedWithinBalance, ReleasedHasMoved,
                SettledCallHasMoved, money, desk, past
  <2>6. CASE UNCHANGED deskVars
    BY <2>6 DEF DeskInv, DeskTypeOK, ReservedWithinBalance, ReleasedHasMoved,
                SettledCallHasMoved, deskVars, money, desk, past
  <2>7. QED
    BY <2>1, <2>2, <2>3, <2>4, <2>5, <2>6 DEF DeskNext
<1>3. QED
  BY <1>1, <1>2, PTL DEF DeskSpec

\* Balances, reservations and positions stay counts and every call stays well formed,
\* in every interleaving of Open, Present, Cancel, Tick and DvP.
THEOREM DeskTypesHold == DeskSpec => []DeskTypeOK
<1>1. DeskInv => DeskTypeOK
  BY DEF DeskInv
<1>2. QED
  BY <1>1, DeskInductive, PTL

\* However calls race on the desk's and the rail's locks, no wallet's reservation
\* exceeds its balance (reserve and SettleDvP take only what is available; settle and
\* unreserve clamp at zero).
THEOREM ReservationsAreBacked == DeskSpec => []ReservedWithinBalance
<1>1. DeskInv => ReservedWithinBalance
  BY DEF DeskInv
<1>2. QED
  BY <1>1, DeskInductive, PTL

\* A condition recorded as RELEASED has moved its legs (Present writes the status only
\* after settle has succeeded).
THEOREM ReleasesAreReal == DeskSpec => []ReleasedHasMoved
<1>1. DeskInv => ReleasedHasMoved
  BY DEF DeskInv
<1>2. QED
  BY <1>1, DeskInductive, PTL
-----------------------------------------------------------------------------
(* The record of a condition that only one call at a time is on *)

OnIt(c, i) == OnCondition(call[c]) /\ call[c].i = i
ToldTruly(i) == legs[i] = IF status[i] = "RELEASED" THEN 1 ELSE 0

\* What a call at a point between two locked sections may rely on.
DeskFits(at, i) ==
    /\ at = "expire" => ToldTruly(i)
    /\ at \in {"verify", "settle", "unreserve", "close"} => status[i] = "OPEN" /\ legs[i] = 0
    /\ at \in {"consume", "release"} => status[i] = "OPEN" /\ legs[i] = 1

\* One call is on the condition and relies on what is so, or none is and the record is true.
Attended(i) ==
    /\ \A c, d \in Callers : OnIt(c, i) /\ OnIt(d, i) => c = d
    /\ \A c \in Callers : OnIt(c, i) => DeskFits(call[c].at, i)
    /\ (\A c \in Callers : ~OnIt(c, i)) => ToldTruly(i)
RecordInv == \A i \in Ids \ crossed : Attended(i)

LEMMA OnPoints ==
    ASSUME NEW k \in Call
    PROVE  OnCondition(k) <=> k.at \in {"verify", "settle", "consume", "release", "expire", "unreserve", "close"}
BY DEF Call, Points, OnCondition

\* A call moves, and nobody crossed condition i.  If it goes on with i, what it will rely
\* on is so; if it lets go of i, the record is true; if it has nothing to do with i, the
\* record stays, but for its registration.
LEMMA Attends ==
    ASSUME DeskTypeOK, RecordInv, NEW c \in Callers, NEW to \in Call, Goes(c, to), NEW i \in Ids \ crossed',
           OnCondition(to) /\ to.i = i => DeskFits(to.at, i)',
           ~(OnCondition(to) /\ to.i = i) /\ OnIt(c, i) => ToldTruly(i)',
           ~(OnCondition(to) /\ to.i = i) /\ ~OnIt(c, i) =>
               /\ legs'[i] = legs[i]
               /\ status'[i] = status[i] \/ (status[i] = "NONE" /\ status'[i] = "OPEN")
    PROVE  Attended(i)'
<1>1. Attended(i)
  BY DEF RecordInv, Goes
<1>2. call'[c] = to /\ \A d \in Callers : d # c => call'[d] = call[d]
  BY DEF DeskTypeOK, Goes
<1>3. \A d \in Callers : d # c => (OnIt(d, i)' <=> OnIt(d, i))
  BY <1>2 DEF OnIt, OnCondition
<1>4. OnIt(c, i)' <=> OnCondition(to) /\ to.i = i
  BY <1>2 DEF OnIt, OnCondition
<1>5. CASE OnCondition(to) /\ to.i = i
  <2>1. \A d \in Callers : d # c => ~OnIt(d, i)
    BY <1>5 DEF Goes, Crossing, OnIt
  <2>2. \A d \in Callers : OnIt(d, i)' => d = c
    BY <1>3, <2>1
  <2>3. DeskFits(call[c].at, i)'
    BY <1>2, <1>5 DEF DeskFits, ToldTruly
  <2>4. OnIt(c, i)'
    BY <1>4, <1>5
  <2> QED
    BY <2>2, <2>3, <2>4 DEF Attended
<1>6. CASE ~(OnCondition(to) /\ to.i = i) /\ OnIt(c, i)
  <2>1. \A d \in Callers : ~OnIt(d, i)'
    BY <1>1, <1>3, <1>4, <1>6 DEF Attended
  <2> QED
    BY <1>6, <2>1 DEF Attended
<1>7. CASE ~(OnCondition(to) /\ to.i = i) /\ ~OnIt(c, i)
  <2>1. \A d \in Callers : (OnIt(d, i)' <=> OnIt(d, i)) /\ (OnIt(d, i) => call'[d] = call[d])
    BY <1>2, <1>3, <1>4, <1>7
  <2>2. ToldTruly(i) => ToldTruly(i)'
    BY <1>7 DEF ToldTruly
  <2>3. \A d \in Callers : OnIt(d, i)' => DeskFits(call[d].at, i)'
    <3> SUFFICES ASSUME NEW d \in Callers, OnIt(d, i) PROVE DeskFits(call[d].at, i)'
      BY <2>1
    <3>1. DeskFits(call[d].at, i) /\ call'[d] = call[d]
      BY <1>1, <2>1 DEF Attended
    <3> QED
      BY <1>7, <2>2, <3>1 DEF DeskFits
  <2>4. (\A d \in Callers : ~OnIt(d, i)') => ToldTruly(i)'
    BY <1>1, <2>1, <2>2 DEF Attended
  <2>5. \A d, e \in Callers : OnIt(d, i)' /\ OnIt(e, i)' => d = e
    BY <1>1, <2>1 DEF Attended
  <2> QED
    BY <2>3, <2>4, <2>5 DEF Attended
<1> QED
  BY <1>5, <1>6, <1>7

\* A call moves and the desk stays as it was: it needs only what it will rely on.
LEMMA AttendsStill ==
    ASSUME DeskTypeOK, RecordInv, NEW c \in Callers, NEW to \in Call, Goes(c, to), UNCHANGED <<status, legs>>,
           \A i \in Ids : i \notin crossed' /\ OnCondition(to) /\ to.i = i => DeskFits(to.at, i),
           \A i \in Ids : i \notin crossed' /\ OnIt(c, i) /\ ~(OnCondition(to) /\ to.i = i) => ToldTruly(i)
    PROVE  RecordInv'
<1> SUFFICES ASSUME NEW i \in Ids \ crossed' PROVE Attended(i)'
  BY DEF RecordInv
<1>1. OnCondition(to) /\ to.i = i => DeskFits(to.at, i)'
  BY DEF DeskFits, ToldTruly
<1>2. ~(OnCondition(to) /\ to.i = i) /\ OnIt(c, i) => ToldTruly(i)'
  BY DEF ToldTruly
<1> QED
  BY <1>1, <1>2, Attends

\* What a call that is on a condition relies on, by where it is.
LEMMA Relies ==
    ASSUME DeskTypeOK, RecordInv, NEW c \in Callers, NEW i \in Ids \ crossed, OnIt(c, i)
    PROVE  DeskFits(call[c].at, i)
BY DEF RecordInv, Attended

\* A call that is not busy with a condition starts: nobody was on it, or it is crossed.
LEMMA Undisturbed ==
    ASSUME DeskTypeOK, RecordInv, NEW c \in Callers, NEW to \in Call, Goes(c, to), NEW i \in Ids \ crossed',
           OnCondition(to), to.i = i, ~OnIt(c, i)
    PROVE  ToldTruly(i)
<1>1. i \in Ids \ crossed
  BY DEF Goes
<1>2. \A d \in Callers : ~OnIt(d, i)
  BY DEF Goes, Crossing, OnIt
<1> QED
  BY <1>1, <1>2 DEF RecordInv, Attended

\* Once the caller is done with its condition, and what is told of it is true, it goes on
\* to the next one or stops.
LEMMA GoingOn ==
    ASSUME DeskTypeOK, RecordInv, NEW c \in Callers, GoesOn(c), call[c].at \in {"expire", "close"},
           NEW j \in Ids, call[c].i = j, UNCHANGED legs,
           \A i \in Ids : i # j => status'[i] = status[i],
           j \notin crossed => ToldTruly(j)'
    PROVE  RecordInv'
<1> SUFFICES ASSUME NEW i \in Ids \ crossed' PROVE Attended(i)'
  BY DEF RecordInv
<1>1. i \notin crossed
  BY DEF GoesOn, Goes
<1>2. OnIt(c, i) <=> i = j
  BY DEF OnIt, OnCondition
<1>3. CASE Goes(c, Idle)
  BY <1>1, <1>2, <1>3, Attends, Constants DEF OnCondition, Idle
<1>4. ASSUME NEW n \in call[c].todo, Goes(c, [Idle EXCEPT !.at = "expire", !.i = n, !.todo = call[c].todo \ {n}])
      PROVE  Attended(i)'
  <2> DEFINE next == [Idle EXCEPT !.at = "expire", !.i = n, !.todo = call[c].todo \ {n}]
  <2>0. next \in Call /\ next.at = "expire" /\ next.i = n
    BY Constants DEF DeskTypeOK, Call, Points, Idle
  <2> HIDE DEF next
  <2>1. PICK to \in Call : to = next
    BY <2>0
  <2>2. Goes(c, to) /\ to.at = "expire" /\ to.i = n
    BY <1>4, <2>0, <2>1 DEF next
  <2>3. OnCondition(to)
    BY <2>2 DEF OnCondition
  <2>4. ASSUME n = i PROVE ToldTruly(i)'
    <3>1. CASE i = j
      BY <1>1, <3>1
    <3>2. CASE i # j
      <4>1. ToldTruly(i)
        BY <1>2, <2>1, <2>2, <2>3, <2>4, <3>2, Undisturbed
      <4> QED
        BY <3>2, <4>1 DEF ToldTruly
    <3> QED
      BY <3>1, <3>2
  <2>5. n = i => DeskFits(to.at, i)'
    BY <2>2, <2>4 DEF DeskFits
  <2> QED
    BY <1>1, <1>2, <2>2, <2>3, <2>5, Attends
<1> QED
  BY <1>3, <1>4 DEF GoesOn

LEMMA RecordStep ==
    ASSUME DeskTypeOK, RecordInv, NEW c \in Callers, Advance(c)
    PROVE  RecordInv'
<1> DEFINE k == call[c]
<1> PICK i \in Ids : i = k.i
  BY DEF DeskTypeOK, Call
<1>0. /\ k \in Call /\ i \in Ids /\ Idle \in Call /\ k.at \in Points
      /\ \A at \in Points : [k EXCEPT !.at = at] \in Call /\ [k EXCEPT !.at = at].at = at /\ [k EXCEPT !.at = at].i = i
  BY Constants DEF DeskTypeOK, Call
<1>1. ~OnCondition(Idle) /\ Idle.at = "idle"
  BY DEF Idle, OnCondition
<1>2. \A at \in Points : Then(c, at) <=> Goes(c, [k EXCEPT !.at = at])
  BY DEF Then
<1>3. \A n \in Ids : OnIt(c, n) => n = i
  BY DEF OnIt
<1>4. crossed \subseteq crossed' \/ ~(\E to \in Call : Goes(c, to))
  BY DEF Goes
<1>5. ASSUME OnCondition(k), i \notin crossed PROVE DeskFits(k.at, i)
  BY <1>0, <1>5, Relies DEF OnIt
\* A call that lets go of its condition, and changed nothing of it.
<1>6. ASSUME Goes(c, Idle), UNCHANGED <<status, legs>>,
             k.at \in {"reserve", "register", "verify", "settle", "expire"}
      PROVE  RecordInv'
  <2>1. ASSUME NEW n \in Ids, n \notin crossed', OnIt(c, n) PROVE ToldTruly(n)
    <3>1. n = i /\ i \notin crossed /\ OnCondition(k)
      BY <1>3, <1>6, <2>1 DEF Goes, OnIt
    <3>2. DeskFits(k.at, i)
      BY <1>5, <3>1
    <3> QED
      BY <1>6, <3>1, <3>2 DEF DeskFits, ToldTruly, OnCondition
  <2> QED
    BY <1>0, <1>1, <1>6, <2>1, AttendsStill
\* A call that goes on with its condition, and changed nothing of it.
<1>7. ASSUME NEW at \in Points, Goes(c, [k EXCEPT !.at = at]), OnCondition(k), UNCHANGED <<status, legs>>,
             i \notin crossed => DeskFits(at, i), at \notin {"idle", "reserve", "register"}
      PROVE  RecordInv'
  <2> DEFINE to == [k EXCEPT !.at = at]
  <2>1. to \in Call /\ to.at = at /\ to.i = i /\ OnCondition(to) /\ Goes(c, to)
    BY <1>0, <1>7 DEF OnCondition
  <2> HIDE DEF to
  <2>2. crossed \subseteq crossed'
    BY <2>1 DEF Goes
  <2> QED
    BY <1>3, <1>7, <2>1, <2>2, AttendsStill
<1>8. CASE Reserve(c)
  <2>1. k.at = "reserve" /\ UNCHANGED <<status, legs>>
    BY <1>8 DEF Reserve, Is, desk, past
  <2>2. CASE Goes(c, Idle)
    BY <1>6, <2>1, <2>2
  <2>3. CASE Goes(c, [k EXCEPT !.at = "register"])
    <3> DEFINE to == [k EXCEPT !.at = "register"]
    <3>1. to \in Call /\ to.at = "register" /\ Goes(c, to)
      BY <1>0, <2>3 DEF Points
    <3> HIDE DEF to
    <3>2. ~OnCondition(to) /\ \A n \in Ids : ~OnIt(c, n)
      BY <2>1, <3>1 DEF OnCondition, OnIt
    <3> QED
      BY <2>1, <3>1, <3>2, AttendsStill
  <2> QED
    BY <1>8, <2>2, <2>3 DEF Reserve, Then
<1>9. CASE Register(c)
  <2>1. k.at = "register" /\ UNCHANGED legs /\ Goes(c, Idle)
    BY <1>9 DEF Register, Is, past
  <2>2. \A n \in Ids : status'[n] = status[n] \/ (status[n] = "NONE" /\ status'[n] = "OPEN")
    BY <1>9 DEF Register, DeskTypeOK
  <2>3. \A n \in Ids : ~OnIt(c, n)
    BY <2>1 DEF OnIt, OnCondition
  <2> SUFFICES ASSUME NEW n \in Ids \ crossed' PROVE Attended(n)'
    BY DEF RecordInv
  <2> QED
    BY <1>0, <1>1, <2>1, <2>2, <2>3, Attends
<1>10. ASSUME NEW satisfied \in BOOLEAN, Verify(c, satisfied) PROVE RecordInv'
  <2>1. k.at = "verify" /\ OnCondition(k) /\ UNCHANGED <<status, legs>>
    BY <1>10 DEF Verify, Is, OnCondition, desk, past
  <2>2. i \notin crossed => DeskFits("expire", i) /\ DeskFits("settle", i)
    BY <1>5, <2>1 DEF DeskFits, ToldTruly
  <2>3. Goes(c, Idle) \/ Goes(c, [k EXCEPT !.at = "settle"]) \/ Goes(c, [k EXCEPT !.at = "expire"])
    BY <1>10 DEF Verify, Then
  <2>4. "settle" \in Points /\ "expire" \in Points
    BY DEF Points
  <2> QED
    BY <1>6, <1>7, <2>1, <2>2, <2>3, <2>4
<1>11. CASE SettleRefused(c)
  <2>1. k.at = "settle" /\ UNCHANGED <<status, legs>> /\ Goes(c, Idle)
    BY <1>11 DEF SettleRefused, Refused, Is, desk
  <2> QED
    BY <1>6, <2>1
<1>12. CASE Settle(c)
  <2> PICK at \in {"consume", "release"} : at = IF k.agent THEN "consume" ELSE "release"
    OBVIOUS
  <2> DEFINE to == [k EXCEPT !.at = at]
  <2>1. /\ k.at = "settle" /\ OnCondition(k) /\ UNCHANGED status /\ legs' = [legs EXCEPT ![i] = @ + 1]
        /\ Goes(c, to)
    BY <1>12 DEF Settle, Is, Then, OnCondition, desk
  <2>2. at \in Points
    BY DEF Points
  <2>3. to \in Call /\ to.at = at /\ to.i = i
    BY <1>0, <2>2
  <2> HIDE DEF to
  <2>4. OnCondition(to) /\ crossed \subseteq crossed'
    BY <2>1, <2>2, <2>3 DEF OnCondition, Goes
  <2>5. i \notin crossed => DeskFits(at, i)'
    <3>1. i \notin crossed => status[i] = "OPEN" /\ legs[i] = 0
      BY <1>5, <2>1 DEF DeskFits
    <3>2. i \notin crossed => status'[i] = "OPEN" /\ legs'[i] = 1
      BY <1>0, <2>1, <3>1 DEF DeskTypeOK
    <3> QED
      BY <2>2, <3>2 DEF DeskFits
  <2>6. \A n \in Ids : n # i => legs'[n] = legs[n] /\ ~OnIt(c, n)
    BY <1>3, <2>1 DEF DeskTypeOK
  <2> SUFFICES ASSUME NEW n \in Ids \ crossed' PROVE Attended(n)'
    BY DEF RecordInv
  <2> QED
    BY <2>1, <2>3, <2>4, <2>5, <2>6, Attends
<1>13. CASE Consume(c)
  <2>1. k.at = "consume" /\ OnCondition(k) /\ UNCHANGED <<status, legs>> /\ Goes(c, [k EXCEPT !.at = "release"])
    BY <1>13 DEF Consume, Is, Then, OnCondition, desk, past
  <2>2. i \notin crossed => DeskFits("release", i)
    BY <1>5, <2>1 DEF DeskFits
  <2>3. "release" \in Points
    BY DEF Points
  <2> QED
    BY <1>7, <2>1, <2>2, <2>3
<1>14. CASE Release(c)
  <2>1. k.at = "release" /\ OnCondition(k) /\ UNCHANGED legs /\ status' = [status EXCEPT ![i] = "RELEASED"] /\ Goes(c, Idle)
    BY <1>14 DEF Release, Is, OnCondition, past
  <2>2. i \notin crossed => ToldTruly(i)'
    <3>1. i \notin crossed => legs[i] = 1
      BY <1>5, <2>1 DEF DeskFits
    <3>2. status'[i] = "RELEASED"
      BY <1>0, <2>1 DEF DeskTypeOK
    <3> QED
      BY <2>1, <3>1, <3>2 DEF ToldTruly
  <2>3. \A n \in Ids : n # i => status'[n] = status[n] /\ ~OnIt(c, n)
    BY <1>3, <2>1 DEF DeskTypeOK
  <2>4. OnIt(c, i) /\ crossed \subseteq crossed'
    BY <2>1 DEF OnIt, Goes
  <2> SUFFICES ASSUME NEW n \in Ids \ crossed' PROVE Attended(n)'
    BY DEF RecordInv
  <2> QED
    BY <1>0, <1>1, <2>1, <2>2, <2>3, <2>4, Attends
<1>15. CASE Expire(c)
  <2>1. k.at = "expire" /\ OnCondition(k) /\ UNCHANGED <<status, legs>>
    BY <1>15 DEF Expire, Is, OnCondition, desk, past
  <2>2. i \notin crossed => ToldTruly(i)
    BY <1>5, <2>1 DEF DeskFits
  <2>3. CASE IsOpen(i) /\ Goes(c, [k EXCEPT !.at = "unreserve", !.t = terms[i], !.end = "EXPIRED"])
    <3>0. PICK t \in Terms : t = terms[i]
      BY DEF DeskTypeOK
    <3> DEFINE to == [k EXCEPT !.at = "unreserve", !.t = t, !.end = "EXPIRED"]
    <3>1. to \in Call
      <4> HIDE DEF k
      <4> QED
        BY <1>0, ZenonT(90) DEF Call, Points, Ends
    <3>2. to \in Call /\ to.at = "unreserve" /\ to.i = i /\ Goes(c, to)
      <4>1. Goes(c, to)
        BY <2>3, <3>0
      <4> HIDE DEF k
      <4> QED
        BY <1>0, <3>1, <4>1 DEF Call
    <3> HIDE DEF to
    <3>3. OnCondition(to) /\ crossed \subseteq crossed'
      BY <3>2 DEF OnCondition, Goes
    <3>4. i \notin crossed => DeskFits(to.at, i)
      BY <2>2, <2>3, <3>2 DEF DeskFits, ToldTruly, IsOpen
    <3> QED
      BY <1>3, <2>1, <3>2, <3>3, <3>4, AttendsStill
  <2>4. CASE GoesOn(c)
    <3>1. i \notin crossed => ToldTruly(i)'
      BY <2>1, <2>2 DEF ToldTruly
    <3> QED
      BY <1>0, <2>1, <2>4, <3>1, GoingOn
  <2> QED
    BY <1>15, <2>3, <2>4 DEF Expire
<1>16. CASE Unreserve(c)
  <2>1. k.at = "unreserve" /\ OnCondition(k) /\ UNCHANGED <<status, legs>> /\ Goes(c, [k EXCEPT !.at = "close"])
    BY <1>16 DEF Unreserve, Is, Then, OnCondition, desk, past
  <2>2. i \notin crossed => DeskFits("close", i)
    BY <1>5, <2>1 DEF DeskFits
  <2>3. "close" \in Points
    BY DEF Points
  <2> QED
    BY <1>7, <2>1, <2>2, <2>3
<1>17. CASE Close(c)
  <2>1. k.at = "close" /\ OnCondition(k) /\ UNCHANGED legs /\ status' = [status EXCEPT ![i] = k.end] /\ GoesOn(c)
    BY <1>17 DEF Close, Is, OnCondition, past
  <2>2. k.end \in Ends
    BY <1>0 DEF Call
  <2>3. i \notin crossed => ToldTruly(i)'
    <3>1. i \notin crossed => legs[i] = 0
      BY <1>5, <2>1 DEF DeskFits
    <3>2. status'[i] = k.end /\ k.end # "RELEASED"
      BY <1>0, <2>1, <2>2 DEF DeskTypeOK, Ends
    <3> QED
      BY <2>1, <3>1, <3>2 DEF ToldTruly
  <2>4. \A n \in Ids : n # i => status'[n] = status[n]
    BY <2>1 DEF DeskTypeOK
  <2> QED
    BY <1>0, <2>1, <2>3, <2>4, GoingOn
<1> QED
  BY <1>8, <1>9, <1>10, <1>11, <1>12, <1>13, <1>14, <1>15, <1>16, <1>17 DEF Advance

\* A call begins on a condition that is open.
LEMMA RecordBegun ==
    ASSUME DeskTypeOK, RecordInv, NEW c \in Callers, call[c].at = "idle", NEW to \in Call, Goes(c, to), UNCHANGED <<status, legs>>,
           OnCondition(to) => status[to.i] = "OPEN" /\ to.at \in {"verify", "expire", "unreserve"}
    PROVE  RecordInv'
<1>1. \A i \in Ids : ~OnIt(c, i)
  BY DEF OnIt, OnCondition
<1>2. ASSUME NEW i \in Ids, i \notin crossed', OnCondition(to), to.i = i PROVE DeskFits(to.at, i)
  <2>1. ToldTruly(i)
    BY <1>1, <1>2, Undisturbed
  <2> QED
    BY <1>2, <2>1 DEF DeskFits, ToldTruly
<1> QED
  BY <1>1, <1>2, AttendsStill

LEMMA RecordNext ==
    ASSUME DeskTypeOK, RecordInv, [DeskNext]_deskVars
    PROVE  RecordInv'
<1>1. ASSUME NEW c \in DeskCalls, NEW t \in Terms, Open(c, t) PROVE RecordInv'
  <2> DEFINE to == [Idle EXCEPT !.at = "reserve", !.t = t]
  <2>1. to \in Call /\ to.at = "reserve" /\ Goes(c, to) /\ c \in Callers
    BY <1>1, Constants DEF Open, Call, Points, Callers
  <2> HIDE DEF to
  <2>2. call[c].at = "idle" /\ UNCHANGED <<status, legs>> /\ ~OnCondition(to)
    BY <1>1, <2>1 DEF Open, Begin, OnCondition, desk, past
  <2> QED
    BY <2>1, <2>2, RecordBegun
<1>2. ASSUME NEW c \in DeskCalls, NEW i \in Ids, NEW agent \in BOOLEAN, Present(c, i, agent) PROVE RecordInv'
  <2> DEFINE to == [Idle EXCEPT !.at = "verify", !.t = terms[i], !.i = i, !.agent = agent]
  <2>1. terms[i] \in Terms
    BY DEF DeskTypeOK
  <2>2. to \in Call /\ to.at = "verify" /\ to.i = i /\ Goes(c, to) /\ c \in Callers
    BY <1>2, <2>1, Constants DEF Present, Call, Points, Callers
  <2> HIDE DEF to
  <2>3. call[c].at = "idle" /\ UNCHANGED <<status, legs>> /\ status[i] = "OPEN"
    BY <1>2 DEF Present, Begin, IsOpen, desk, past
  <2> QED
    BY <2>2, <2>3, RecordBegun
<1>3. ASSUME NEW c \in DeskCalls, NEW i \in Ids, Cancel(c, i) PROVE RecordInv'
  <2> DEFINE to == [Idle EXCEPT !.at = "unreserve", !.t = terms[i], !.i = i, !.end = "REFUNDED"]
  <2>1. terms[i] \in Terms
    BY DEF DeskTypeOK
  <2>2. to \in Call /\ to.at = "unreserve" /\ to.i = i /\ Goes(c, to) /\ c \in Callers
    BY <1>3, <2>1, Constants DEF Cancel, Call, Points, Ends, Callers
  <2> HIDE DEF to
  <2>3. call[c].at = "idle" /\ UNCHANGED <<status, legs>> /\ status[i] = "OPEN"
    BY <1>3 DEF Cancel, Begin, IsOpen, desk, past
  <2> QED
    BY <2>2, <2>3, RecordBegun
<1>4. CASE Tick
  <2>1. PICK i \in Overdue : Goes(Timer, [Idle EXCEPT !.at = "expire", !.i = i, !.todo = Overdue \ {i}])
    BY <1>4 DEF Tick
  <2> DEFINE to == [Idle EXCEPT !.at = "expire", !.i = i, !.todo = Overdue \ {i}]
  <2>2. Overdue \subseteq Ids /\ status[i] = "OPEN"
    BY DEF Overdue, IsOpen, DeskTypeOK
  <2>3. to \in Call /\ to.at = "expire" /\ to.i = i /\ Goes(Timer, to) /\ Timer \in Callers
    BY <2>1, <2>2, Constants DEF Call, Points, Callers
  <2> HIDE DEF to
  <2>4. call[Timer].at = "idle" /\ UNCHANGED <<status, legs>>
    BY <1>4 DEF Tick, desk, past
  <2> QED
    BY <2>2, <2>3, <2>4, RecordBegun
<1>5. ASSUME UNCHANGED <<status, legs, crossed, call>> PROVE RecordInv'
  BY <1>5 DEF RecordInv, Attended, OnIt, DeskFits, ToldTruly
<1>6. ASSUME NEW t \in Terms, SettleDvP(t) PROVE RecordInv'
  BY <1>5, <1>6 DEF SettleDvP, desk, past
<1>7. ASSUME NEW i \in Ids, Elapse(i) PROVE RecordInv'
  BY <1>5, <1>7 DEF Elapse, desk, past
<1>8. CASE UNCHANGED deskVars
  BY <1>5, <1>8 DEF deskVars, desk, past
<1> QED
  BY <1>1, <1>2, <1>3, <1>4, <1>6, <1>7, <1>8, RecordStep DEF DeskNext

\* A condition that no two calls were ever on at once has moved its legs once if it is
\* RELEASED and no call is on it, else never: with any number of calls, of conditions and
\* of races on the other ones.  (conditional.go, Present reads the status under d.mu and
\* writes it after settle)
THEOREM RecordsAreTrue == DeskSpec => []RecordIsTrue
<1>1. DeskInit => RecordInv
  <2> SUFFICES ASSUME DeskInit, NEW i \in Ids PROVE Attended(i)
    BY DEF RecordInv
  <2>1. \A c \in Callers : call[c] = Idle
    BY DEF DeskInit
  <2>2. \A c \in Callers : ~OnIt(c, i)
    BY <2>1 DEF OnIt, OnCondition, Idle
  <2> QED
    BY <2>2 DEF DeskInit, Attended, ToldTruly
<1>2. DeskTypeOK /\ RecordInv /\ [DeskNext]_deskVars => RecordInv'
  BY RecordNext
<1>3. RecordInv => RecordIsTrue
  <2> SUFFICES ASSUME RecordInv, NEW i \in Ids \ crossed, \A c \in InProgress : call[c].i # i
               PROVE  legs[i] = IF status[i] = "RELEASED" THEN 1 ELSE 0
    BY DEF RecordIsTrue
  <2>1. \A c \in Callers : ~OnIt(c, i)
    BY DEF InProgress, OnIt, OnCondition
  <2> QED
    BY <2>1 DEF RecordInv, Attended, ToldTruly
<1> QED
  BY <1>1, <1>2, <1>3, DeskTypesHold, PTL DEF DeskSpec
=============================================================================
