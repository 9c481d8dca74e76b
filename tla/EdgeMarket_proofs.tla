------------------------- MODULE EdgeMarket_proofs -------------------------
(***************************************************************************)
(* What the market of the serverless API keeps (EdgeMarket), for every     *)
(* number of instances, listings, people, requests and recycled instances. *)
(*                                                                         *)
(* The invariant says of an instance that what it left behind with its     *)
(* last successful write is in its file, and in its memory once that is    *)
(* loaded, and what its memory holds while a transfer is under way         *)
(* (Sound), what its row writes under way say included; and of every       *)
(* holding a transfer owes to the rows how far its instance is with        *)
(* writing it (Fits).  A step is a step of one instance, so it is looked   *)
(* at for that instance only (OneInstance); what the steps do to an        *)
(* instance and the rows comes in a few shapes, one lemma each.            *)
(* The last part is about the buyer's end, the purchase dialog (BuyFlow).  *)
(***************************************************************************)
EXTENDS EdgeMarket, BuyFlow, FiniteSetTheorems, FiniteSums, TLAPS

Keys == Assets \X People
Holdings == UNION {[D -> Nat] : D \in SUBSET Keys}
LoanRecords == [st : {"none", "ACTIVE", "REPAID"}, by : People, asset : Assets, n : Nat]
SwapRecords ==
    {s \in [st : {"none", "PROPOSED", "SETTLED", "CANCELLED"}, from : People, to : People,
            give : Assets, gt : Nat, get : Assets, rt : Nat] :
        s.st = "PROPOSED" => s.from # s.to /\ s.give # s.get}
Shelves == [prop : [Assets -> PropRecords], bal : Holdings]
Memories ==
    [prop : [Assets -> PropRecords], bal : Holdings,
     loans : [Loans -> LoanRecords], swaps : [Swaps -> SwapRecords]]
Reqs == [asked : Assets, on : Assets, from : People, to : People, n : Nat]
\* What a transfer still waits for, from its last write on.
Waits == {Awaited, <<"to", "prop">>, <<"prop">>}
Todos == Waits \cup {<<>>, <<"move">>, <<"seedRailPosition", "saveAll">>, <<"saveAll">>}
Jobs == [at : {"idle", "loaded", "run"}, q : Reqs, todo : Todos]
\* Row writes that nobody waits for.
RowRecords ==
    {r \in [of : {"prop", "bal"}, a : Assets, h : People, p : PropRecords, n : Nat] :
        r.of = "prop" => r.h = Originator}
Writes == [row : RowRecords, back : BOOLEAN]
FewWrites(L) == L \subseteq Writes /\ IsFiniteSet(L) /\ Cardinality(L) <= MaxLate
Dues == UNION {[D -> [n : Nat, by : Instances, due : BOOLEAN]] : D \in SUBSET Keys}
Types ==
    /\ mem \in [Instances -> Memories] /\ file \in [Instances -> Shelves]
    /\ left \in [Instances -> Shelves] /\ store \in Shelves
    /\ job \in [Instances -> Jobs] /\ owed \in Dues
    /\ underway \in [Instances -> SUBSET Writes] /\ \A i \in Instances : FewWrites(underway[i])
    /\ requests \in 0..MaxRequests /\ recycles \in 0..MaxRecycles

\* What the shelf f, or the memory f, has kept of l.
Within(l, f) ==
    /\ \A a \in Assets : l.prop[a] # NoProp => f.prop[a] = l.prop[a]
    /\ \A k \in DOMAIN l.bal : k \in DOMAIN f.bal /\ f.bal[k] = l.bal[k]
\* The row writes L say nothing else than l of what l has.
Says(r, k, n) == r.of = "bal" /\ <<r.a, r.h>> = k => r.n = n
Agrees(l, r) ==
    /\ r.of = "prop" /\ l.prop[r.a] # NoProp => l.prop[r.a] = r.p
    /\ \A k \in DOMAIN l.bal : Says(r, k, l.bal[k])
Agree(l, L) == \A w \in L : Agrees(l, w.row)
Sender(q) == <<q.on, q.from>>
Receiver(q) == <<q.on, q.to>>

\* Of an instance: what it left is on its file, and in its memory once that is
\* loaded, and its row writes under way say the same; a transfer that has to move
\* yet has a sender; one that waits has both parties' holdings in memory, and what
\* it left.
Sound(m, f, l, j, L) ==
    /\ Within(l, f) /\ Agree(l, L) /\ (j.at = "loaded" => Within(l, m))
    /\ j.at = "run" =>
          /\ j.todo # <<>>
          /\ j.todo = <<"move">> =>
                j.q.n > 0 /\ j.q.from # j.q.to /\ Sender(j.q) \in DOMAIN m.bal
          /\ j.todo \in Waits => Within(l, m)
          /\ j.todo \in {Awaited, <<"to", "prop">>} => {Sender(j.q), Receiver(j.q)} \subseteq DOMAIN m.bal

\* Of a holding k owed by an instance with memory m, job j and row writes L under
\* way, when the rows hold r of it: they hold what is owed once it is due, and
\* before that the instance still waits, has the amount in memory, writes nothing
\* else there, and has written it if it is past that.
Fits(o, k, m, j, L, r) ==
    IF o.due THEN r = o.n
    ELSE /\ j.at = "run" /\ j.q.n > 0 /\ j.todo \in Waits
         /\ k \in {Sender(j.q), Receiver(j.q)} /\ k \in DOMAIN m.bal /\ m.bal[k] = o.n
         /\ \A w \in L : Says(w.row, k, o.n)
         /\ k = Sender(j.q) /\ j.todo # Awaited => r = o.n
         /\ k = Receiver(j.q) /\ j.todo = <<"prop">> => r = o.n
IInv ==
    /\ Types
    /\ \A i \in Instances : Sound(mem[i], file[i], left[i], job[i], underway[i])
    /\ \A k \in DOMAIN owed :
          Fits(owed[k], k, mem[owed[k].by], job[owed[k].by], underway[owed[k].by], Held(store.bal, k))
-----------------------------------------------------------------------------
(* Sums and holdings *)

\* What the model adds up is what FiniteSums has the laws of.
LEMMA SumIsNat ==
    ASSUME NEW f, IsFiniteSet(DOMAIN f), \A x \in DOMAIN f : f[x] \in Nat
    PROVE  SumOf(f) \in Nat
<1>1. SumOf(f) = Total(f, DOMAIN f)
  BY Zenon DEF SumOf, MapThenSumSet, MapThenFoldSet, Total, Sums, Adds, Pick
<1>2. QED
  BY <1>1, TotalType

LEMMA KeysAreFinite == IsFiniteSet(Keys)
<1>1. IsFiniteSet(Assets)
  BY EdgeMarketConstants, FS_AddElement DEF Assets
<1>2. QED
  BY <1>1, EdgeMarketConstants, FS_Product DEF Keys

LEMMA HoldingsHold ==
    ASSUME NEW b \in Holdings
    PROVE  /\ DOMAIN b \subseteq Keys /\ IsFiniteSet(DOMAIN b) /\ b \in [DOMAIN b -> Nat]
           /\ \A k : Held(b, k) \in Nat /\ (k \in DOMAIN b => Held(b, k) = b[k] /\ b[k] \in Nat)
           /\ \A k : k \notin DOMAIN b => Held(b, k) = 0
<1>1. PICK D \in SUBSET Keys : b \in [D -> Nat]
  BY DEF Holdings
<1>2. D = DOMAIN b /\ IsFiniteSet(D)
  BY <1>1, KeysAreFinite, FS_Subset
<1>3. QED
  BY <1>1, <1>2 DEF Held

LEMMA IsHoldings ==
    ASSUME NEW D, NEW b, D \subseteq Keys, b \in [D -> Nat] PROVE b \in Holdings
BY DEF Holdings

LEMMA OverHoldings ==
    ASSUME NEW new \in Holdings, NEW old \in Holdings PROVE Over(new, old) \in Holdings
<1>1. /\ DOMAIN new \subseteq Keys /\ DOMAIN old \subseteq Keys
      /\ new \in [DOMAIN new -> Nat] /\ old \in [DOMAIN old -> Nat]
  BY HoldingsHold
<1>2. Over(new, old) \in [DOMAIN new \cup DOMAIN old -> Nat]
  BY <1>1 DEF Over
<1>3. QED
  BY <1>1, <1>2, IsHoldings

LEMMA OneHolding ==
    ASSUME NEW k \in Keys, NEW n \in Nat
    PROVE  /\ Only(k, n) \in Holdings /\ DOMAIN Only(k, n) = {k} /\ Only(k, n)[k] = n
           /\ Empty \in Holdings
<1>1. Only(k, n) \in [{k} -> Nat] /\ Empty \in [{} -> Nat]
  BY DEF Only, Empty
<1>2. QED
  BY <1>1, IsHoldings DEF Only

\* A transfer takes from one holding and gives to another.
LEMMA MovedHeld ==
    ASSUME NEW b, NEW a, NEW from, NEW to, from # to, NEW n, NEW k
    PROVE  Held(Moved(b, a, from, to, n), k) =
               IF k = <<a, from>> THEN Held(b, k) - n
               ELSE IF k = <<a, to>> THEN Held(b, k) + n ELSE Held(b, k)
<1> DEFINE pair == [x \in {<<a, from>>, <<a, to>>} |-> IF x[2] = to THEN Held(b, x) + n ELSE Held(b, x) - n]
<1>1. /\ DOMAIN pair = {<<a, from>>, <<a, to>>} /\ <<a, from>> # <<a, to>>
      /\ pair[<<a, from>>] = Held(b, <<a, from>>) - n /\ pair[<<a, to>>] = Held(b, <<a, to>>) + n
  OBVIOUS
<1>2. Moved(b, a, from, to, n) = Over(pair, b)
  BY DEF Moved
<1> HIDE DEF pair
<1>3. Held(Over(pair, b), k) = IF k \in DOMAIN pair THEN pair[k] ELSE Held(b, k)
  BY DEF Over, Held
<1>4. QED
  BY <1>1, <1>2, <1>3

LEMMA MovedHoldings ==
    ASSUME NEW b \in Holdings, NEW a \in Assets, NEW from \in People, NEW to \in People, from # to,
           NEW n \in Nat, Held(b, <<a, from>>) >= n
    PROVE  /\ Moved(b, a, from, to, n) \in Holdings
           /\ <<a, from>> \in DOMAIN Moved(b, a, from, to, n)
           /\ <<a, to>> \in DOMAIN Moved(b, a, from, to, n)
<1> DEFINE pair == [k \in {<<a, from>>, <<a, to>>} |-> IF k[2] = to THEN Held(b, k) + n ELSE Held(b, k) - n]
<1>1. /\ DOMAIN pair = {<<a, from>>, <<a, to>>} /\ pair = [k \in DOMAIN pair |-> pair[k]]
      /\ pair[<<a, from>>] = Held(b, <<a, from>>) - n /\ pair[<<a, to>>] = Held(b, <<a, to>>) + n
  OBVIOUS
<1>2. Held(b, <<a, from>>) \in Nat /\ Held(b, <<a, to>>) \in Nat
  BY HoldingsHold
<1>3. DOMAIN pair \subseteq Keys
  BY <1>1 DEF Keys
<1>4. Moved(b, a, from, to, n) = Over(pair, b)
  BY DEF Moved
<1> HIDE DEF pair
<1>5. pair \in [DOMAIN pair -> Nat]
  <2>1. \A k \in DOMAIN pair : pair[k] \in Nat
    BY <1>1, <1>2
  <2>2. QED
    BY <1>1, <2>1
<1>6. pair \in Holdings
  BY <1>3, <1>5, IsHoldings
<1>7. Over(pair, b) \in Holdings
  BY <1>6, OverHoldings
<1>8. <<a, from>> \in DOMAIN Over(pair, b) /\ <<a, to>> \in DOMAIN Over(pair, b)
  BY <1>1 DEF Over
<1>9. QED
  BY <1>4, <1>7, <1>8

LEMMA LockedIsNat ==
    ASSUME NEW m \in Memories, NEW a, NEW h PROVE drunixLockedTokens(m, a, h) \in Nat
<1> DEFINE L == {x \in Loans : m.loans[x].st = "ACTIVE" /\ m.loans[x].asset = a /\ m.loans[x].by = h}
           f == [l \in L |-> m.loans[l].n]
<1>1. IsFiniteSet(L)
  BY FS_Subset, EdgeMarketConstants
<1>2. DOMAIN f = L /\ \A l \in L : f[l] \in Nat
  BY DEF Memories, LoanRecords
<1>3. drunixLockedTokens(m, a, h) = SumOf(f)
  BY DEF drunixLockedTokens
<1> HIDE DEF L, f
<1>4. QED
  BY <1>1, <1>2, <1>3, SumIsNat

LEMMA PartSum ==
    ASSUME NEW b \in Holdings, NEW S, S \subseteq DOMAIN b PROVE SumOf([k \in S |-> b[k]]) \in Nat
<1> DEFINE f == [k \in S |-> b[k]]
<1>1. IsFiniteSet(DOMAIN f) /\ \A k \in DOMAIN f : f[k] \in Nat
  BY HoldingsHold, FS_Subset
<1> HIDE DEF f
<1>2. SumOf(f) \in Nat
  BY <1>1, SumIsNat
<1>3. QED
  BY <1>2 DEF f

LEMMA HeadroomIsNat ==
    ASSUME NEW b \in Holdings, NEW a, NEW h, NEW total \in Nat
    PROVE  supplyHeadroom(b, a, h, total) \in Nat
<1> DEFINE s == SumOf([k \in Of(b, a) \ {<<a, h>>} |-> b[k]])
<1>1. Of(b, a) \ {<<a, h>>} \subseteq DOMAIN b
  BY DEF Of
<1>2. s \in Nat
  BY <1>1, PartSum
<1>3. supplyHeadroom(b, a, h, total) = Max({0, total - s})
  BY DEF supplyHeadroom
<1> HIDE DEF s
<1>4. QED
  BY <1>2, <1>3, MaxOfTwo
-----------------------------------------------------------------------------
(* What the handlers start from *)

LEMMA BlankTypes ==
    /\ NoProp \in PropRecords /\ NoLoan \in LoanRecords /\ NoSwap \in SwapRecords
    /\ NoReq \in Reqs /\ Idle \in Jobs /\ Empty \in Holdings /\ DOMAIN Empty = {}
    /\ NoFile \in Shelves /\ Cold \in Memories
<1>1. Originator \in People /\ Fixed \in Assets
  BY EdgeMarketConstants DEF Assets
<1>2. NoProp \in PropRecords
  BY <1>1 DEF NoProp, PropRecords
<1>3. NoLoan \in LoanRecords /\ NoSwap \in SwapRecords
  <2>1. NoLoan \in LoanRecords
    BY <1>1 DEF NoLoan, LoanRecords
  <2>2. NoSwap \in SwapRecords /\ NoSwap.st = "none"
    BY <1>1 DEF NoSwap, SwapRecords
  <2>3. QED
    BY <2>1, <2>2
<1>4. NoReq \in Reqs
  BY <1>1 DEF NoReq, Reqs
<1>5. Idle \in Jobs
  BY <1>4 DEF Idle, Jobs, Todos
<1>6. Empty \in Holdings /\ DOMAIN Empty = {}
  <2>1. Empty \in [{} -> Nat] /\ DOMAIN Empty = {}
    BY DEF Empty
  <2>2. QED
    BY <2>1, IsHoldings
<1>7. NoFile \in Shelves
  BY <1>2, <1>6 DEF NoFile, Shelves
<1>8. Cold \in Memories
  <2>1. NoFile.prop \in [Assets -> PropRecords]
    BY <1>2 DEF NoFile
  <2>2. QED
    BY <1>3, <1>6, <2>1 DEF Cold, Memories
<1>9. QED
  BY <1>2, <1>3, <1>4, <1>5, <1>6, <1>7, <1>8

LEMMA TokenizedType ==
    ASSUME NEW o \in People, NEW n \in Nat
    PROVE  Tokenized(o, n) \in PropRecords /\ Tokenized(o, n).st = "TOKENIZED"
BY BlankTypes DEF Tokenized, PropRecords

LEMMA SeedTypes ==
    /\ SeedProp \in [Assets -> PropRecords] /\ SeedBal \in Holdings
    /\ [prop |-> SeedProp, bal |-> SeedBal] \in Shelves
<1>1. ASSUME NEW a \in Assets PROVE SeedProp[a] \in PropRecords
  <2>1. CASE a \in Seeded
    <3> DEFINE f == SeedHoldings[a]
    <3>1. DOMAIN f \subseteq People /\ \A h \in DOMAIN f : f[h] \in Nat
      BY <2>1, EdgeMarketConstants DEF Seeded
    <3>2. IsFiniteSet(DOMAIN f)
      BY <3>1, EdgeMarketConstants, FS_Subset
    <3> HIDE DEF f
    <3>3. SumOf(f) \in Nat
      BY <3>1, <3>2, SumIsNat
    <3>4. Originator \in People /\ SeedProp[a] = Tokenized(Originator, SumOf(f))
      BY <2>1, EdgeMarketConstants DEF SeedProp, f
    <3>5. QED
      BY <3>3, <3>4, TokenizedType
  <2>2. CASE a \notin Seeded
    BY <2>2, BlankTypes DEF SeedProp
  <2>3. QED
    BY <2>1, <2>2
<1>2. SeedProp \in [Assets -> PropRecords]
  BY <1>1 DEF SeedProp
<1>3. SeedBal \in Holdings
  <2> DEFINE D == {x \in Seeded \X People : x[2] \in DOMAIN SeedHoldings[x[1]]}
  <2>1. D \subseteq Keys /\ \A k \in D : SeedHoldings[k[1]][k[2]] \in Nat
    BY EdgeMarketConstants DEF Keys, Seeded
  <2>2. SeedBal \in [D -> Nat]
    BY <2>1 DEF SeedBal
  <2> HIDE DEF D
  <2>3. QED
    BY <2>1, <2>2, IsHoldings
<1>4. QED
  BY <1>2, <1>3 DEF Shelves

LEMMA BooksType ==
    ASSUME NEW m \in Memories
    PROVE  Books(m) \in Shelves /\ Books(m).prop = m.prop /\ Books(m).bal = m.bal
BY DEF Memories, Shelves, Books

LEMMA WithPropType ==
    ASSUME mem \in [Instances -> Memories], NEW i \in Instances, NEW a \in Assets, NEW p \in PropRecords
    PROVE  /\ WithProp(i, a, p) \in Memories
           /\ WithProp(i, a, p).prop[a] = p /\ WithProp(i, a, p).bal = mem[i].bal
           /\ WithProp(i, a, p).loans = mem[i].loans
           /\ \A b \in Assets \ {a} : WithProp(i, a, p).prop[b] = mem[i].prop[b]
<1> DEFINE m == mem[i]
<1>1. m \in Memories
  OBVIOUS
<1>2. WithProp(i, a, p) = [m EXCEPT !.prop[a] = p]
  BY DEF WithProp
<1> HIDE DEF m
<1>3. QED
  BY <1>1, <1>2 DEF Memories, m

LEMMA WithBalType ==
    ASSUME NEW m \in Memories, NEW b \in Holdings
    PROVE  /\ [m EXCEPT !.bal = b] \in Memories /\ [m EXCEPT !.bal = b].bal = b
           /\ [m EXCEPT !.bal = b].prop = m.prop /\ [m EXCEPT !.bal = b].loans = m.loans
BY DEF Memories

\* An instance loads its file, and the rows where the file has nothing.
LEMMA LoadedTypes ==
    ASSUME Types, NEW i \in Instances, Within(left[i], file[i])
    PROVE  initState(i) \in Memories /\ Within(left[i], initState(i))
<1> DEFINE m == initState(i)
<1>1. getProperties \in [Assets -> PropRecords]
  BY SeedTypes DEF Types, Shelves, getProperties
<1>2. mem[i] \in Memories /\ file[i] \in Shelves /\ store \in Shelves /\ left[i] \in Shelves
  BY DEF Types
<1>3. /\ m.prop = IF file[i].prop # NoFile.prop THEN file[i].prop ELSE getProperties
      /\ m.bal = IF file[i].bal # Empty THEN file[i].bal ELSE store.bal
      /\ m \in Memories
  BY <1>1, <1>2 DEF initState, Memories, Shelves
<1> HIDE DEF m
<1>4. ASSUME NEW a \in Assets, left[i].prop[a] # NoProp PROVE m.prop[a] = left[i].prop[a]
  <2>1. file[i].prop[a] = left[i].prop[a]
    BY <1>4 DEF Within
  <2>2. file[i].prop # NoFile.prop
    BY <1>4, <2>1 DEF NoFile
  <2>3. QED
    BY <1>3, <2>1, <2>2
<1>5. ASSUME NEW k \in DOMAIN left[i].bal PROVE k \in DOMAIN m.bal /\ m.bal[k] = left[i].bal[k]
  <2>1. k \in DOMAIN file[i].bal /\ file[i].bal[k] = left[i].bal[k]
    BY <1>5 DEF Within
  <2>2. file[i].bal # Empty
    BY <2>1, BlankTypes
  <2>3. QED
    BY <1>3, <2>1, <2>2
<1>6. QED
  BY <1>3, <1>4, <1>5 DEF Within, m
-----------------------------------------------------------------------------
(* What is owed *)

DueRecords == [n : Nat, by : Instances, due : BOOLEAN]
LEMMA DuesHold ==
    ASSUME NEW o \in Dues
    PROVE  /\ DOMAIN o \subseteq Keys /\ o \in [DOMAIN o -> DueRecords]
           /\ \A k \in DOMAIN o : o[k].n \in Nat /\ o[k].by \in Instances /\ o[k].due \in BOOLEAN
<1>1. PICK D \in SUBSET Keys : o \in [D -> DueRecords]
  BY DEF Dues, DueRecords
<1>2. QED
  BY <1>1 DEF DueRecords

LEMMA IsDues ==
    ASSUME NEW D, NEW o, D \subseteq Keys, o \in [D -> DueRecords] PROVE o \in Dues
BY DEF Dues, DueRecords

LEMMA OverDues ==
    ASSUME NEW new \in Dues, NEW old \in Dues PROVE Over(new, old) \in Dues
<1>1. /\ DOMAIN new \subseteq Keys /\ DOMAIN old \subseteq Keys
      /\ new \in [DOMAIN new -> DueRecords] /\ old \in [DOMAIN old -> DueRecords]
  BY DuesHold
<1>2. Over(new, old) \in [DOMAIN new \cup DOMAIN old -> DueRecords]
  BY <1>1 DEF Over
<1>3. QED
  BY <1>1, <1>2, IsDues

LEMMA StillOwedHolds ==
    ASSUME owed \in Dues, NEW rows
    PROVE  /\ StillOwed(rows) \in Dues /\ DOMAIN StillOwed(rows) \subseteq DOMAIN owed
           /\ \A k \in DOMAIN StillOwed(rows) :
                 StillOwed(rows)[k] = owed[k] /\ (k \in DOMAIN rows => rows[k] = owed[k].n)
<1> DEFINE D == {x \in DOMAIN owed : x \notin DOMAIN rows \/ rows[x] = owed[x].n}
<1>1. DOMAIN owed \subseteq Keys /\ owed \in [DOMAIN owed -> DueRecords]
  BY DuesHold
<1>2. D \subseteq Keys /\ StillOwed(rows) \in [D -> DueRecords]
  BY <1>1 DEF StillOwed
<1>3. StillOwed(rows) \in Dues
  <2> HIDE DEF D
  <2>1. QED
    BY <1>2, IsDues
<1>4. QED
  BY <1>3 DEF StillOwed

\* A row that is written with what it is owed, or not at all, is as good as before.
LEMMA StillFits ==
    ASSUME NEW o, NEW k, NEW m, NEW j, NEW L, NEW r, NEW s, Fits(o, k, m, j, L, r), s = r \/ s = o.n
    PROVE  Fits(o, k, m, j, L, s)
BY DEF Fits

NotWaiting(i) == job[i].at = "run" => job[i].todo \notin Waits
LEMMA NoneOwed ==
    ASSUME IInv, NEW i \in Instances, NotWaiting(i), NEW k \in DOMAIN owed, owed[k].by = i
    PROVE  owed[k].due
BY DEF IInv, Fits, NotWaiting

\* What one instance does leaves the others sound, and what it does not write is
\* owed as before.
Apart(i) ==
    \A x \in Instances \ {i} :
        /\ mem'[x] = mem[x] /\ file'[x] = file[x] /\ left'[x] = left[x] /\ job'[x] = job[x]
        /\ underway'[x] = underway[x]
AsBefore(i, k) ==
    /\ k \in DOMAIN owed /\ owed'[k] = owed[k] /\ (owed[k].by # i \/ owed[k].due)
    /\ Held(store'.bal, k) = Held(store.bal, k) \/ Held(store'.bal, k) = owed[k].n
FitsNow(k) ==
    Fits(owed'[k], k, mem'[owed'[k].by], job'[owed'[k].by], underway'[owed'[k].by], Held(store'.bal, k))
LEMMA OneInstance ==
    ASSUME IInv, NEW i \in Instances, Types', Apart(i),
           Sound(mem'[i], file'[i], left'[i], job'[i], underway'[i]),
           \A k \in DOMAIN owed' : AsBefore(i, k) \/ FitsNow(k)
    PROVE  IInv'
<1>1. ASSUME NEW x \in Instances PROVE Sound(mem'[x], file'[x], left'[x], job'[x], underway'[x])
  BY DEF Apart, IInv
<1>2. ASSUME NEW k \in DOMAIN owed' PROVE FitsNow(k)
  <2>1. CASE AsBefore(i, k)
    <3> DEFINE o == owed[k]
    <3>1. /\ k \in DOMAIN owed /\ owed'[k] = o /\ (o.by # i \/ o.due)
          /\ Held(store'.bal, k) = Held(store.bal, k) \/ Held(store'.bal, k) = o.n
      BY <2>1 DEF AsBefore
    <3>2. Fits(o, k, mem[o.by], job[o.by], underway[o.by], Held(store.bal, k))
      BY <3>1 DEF IInv
    <3>3. Fits(o, k, mem[o.by], job[o.by], underway[o.by], Held(store'.bal, k))
      BY <3>1, <3>2, StillFits
    <3>4. o.by \in Instances
      BY <3>1, DuesHold DEF IInv, Types
    <3> HIDE DEF o
    <3>5. CASE o.due
      BY <3>1, <3>3, <3>5 DEF Fits, FitsNow
    <3>6. CASE o.by # i
      BY <3>1, <3>3, <3>4, <3>6 DEF Apart, FitsNow
    <3>7. QED
      BY <3>1, <3>5, <3>6
  <2>2. QED
    BY <1>2, <2>1
<1>3. QED
  BY <1>1, <1>2 DEF IInv, FitsNow

LEMMA InitIsSound == Init => IInv
<1> SUFFICES ASSUME Init PROVE IInv
  OBVIOUS
<1>1. Types
  <2>1. Empty \in Dues
    <3>1. Empty \in [{} -> DueRecords]
      BY DEF Empty
    <3>2. QED
      BY <3>1, IsDues
  <2>2. requests \in 0..MaxRequests /\ recycles \in 0..MaxRecycles
    BY EdgeMarketConstants DEF Init
  <2>3. FewWrites({})
    BY FS_EmptySet, EdgeMarketConstants DEF FewWrites
  <2>4. QED
    BY <2>1, <2>2, <2>3, BlankTypes, SeedTypes DEF Init, Types
<1>2. ASSUME NEW i \in Instances PROVE Sound(mem[i], file[i], left[i], job[i], underway[i])
  BY BlankTypes DEF Init, Sound, Within, Agree, Idle
<1>3. DOMAIN owed = {}
  BY BlankTypes DEF Init
<1>4. QED
  BY <1>1, <1>2, <1>3 DEF IInv
-----------------------------------------------------------------------------
(* What a step does to an instance and to the rows *)

LEMMA TodoSteps ==
    /\ Head(Awaited) = "from" /\ Tail(Awaited) = <<"to", "prop">>
    /\ Head(<<"to", "prop">>) = "to" /\ Tail(<<"to", "prop">>) = <<"prop">>
    /\ Head(<<"prop">>) = "prop" /\ Tail(<<"prop">>) = <<>>
    /\ Head(<<"move">>) = "move" /\ Head(<<"saveAll">>) = "saveAll"
    /\ Head(<<"seedRailPosition", "saveAll">>) = "seedRailPosition"
    /\ Tail(<<"seedRailPosition", "saveAll">>) = <<"saveAll">>
BY DEF Awaited

LEMMA TodosDiffer ==
    /\ Awaited # <<>> /\ Awaited # <<"to", "prop">> /\ Awaited # <<"prop">>
    /\ Awaited # <<"move">> /\ Awaited # <<"saveAll">> /\ Awaited # <<"seedRailPosition", "saveAll">>
    /\ <<"to", "prop">> # <<>> /\ <<"to", "prop">> # <<"prop">>
    /\ <<"prop">> # <<>> /\ <<"move">> # <<>> /\ <<"saveAll">> # <<>>
    /\ <<"seedRailPosition", "saveAll">> # <<>>
    /\ <<"move">> \notin Waits /\ <<>> \notin Waits /\ <<"saveAll">> \notin Waits
    /\ <<"seedRailPosition", "saveAll">> \notin Waits
    /\ <<"saveAll">> # <<"move">> /\ <<"seedRailPosition", "saveAll">> # <<"move">>
    /\ <<"to", "prop">> # <<"move">> /\ <<"prop">> # <<"move">>
BY DEF Awaited, Waits
LEMMA ThenJob ==
    ASSUME Types, NEW i \in Instances, NEW q \in Reqs, NEW t \in Todos, Then(i, q, t)
    PROVE  /\ job' \in [Instances -> Jobs] /\ \A x \in Instances \ {i} : job'[x] = job[x]
           /\ job'[i] = IF t = <<>> THEN Idle ELSE [at |-> "run", q |-> q, todo |-> t]
           /\ t = <<>> => job'[i].at = "idle"
           /\ t # <<>> => job'[i].at = "run" /\ job'[i].q = q /\ job'[i].todo = t
<1> DEFINE j == IF t = <<>> THEN Idle ELSE [at |-> "run", q |-> q, todo |-> t]
<1>1. job \in [Instances -> Jobs] /\ job' = [job EXCEPT ![i] = j]
  BY DEF Types, Then
<1>2. j \in Jobs
  BY BlankTypes DEF Jobs
<1>3. t = <<>> => j.at = "idle"
  BY DEF Idle
<1>4. t # <<>> => j.at = "run" /\ j.q = q /\ j.todo = t
  OBVIOUS
<1> HIDE DEF j
<1>5. job' \in [Instances -> Jobs] /\ job'[i] = j /\ \A x \in Instances \ {i} : job'[x] = job[x]
  BY <1>1, <1>2
<1>6. QED
  BY <1>3, <1>4, <1>5 DEF j

\* A handler that changes its own memory only, and answers.
LEMMA AnsweredKeeps ==
    ASSUME IInv, NEW i \in Instances, NEW m \in Memories, NotWaiting(i), HandleInMemory(i, m)
    PROVE  IInv'
<1>1. Types /\ Sound(mem[i], file[i], left[i], job[i], underway[i])
  BY DEF IInv
<1>2. /\ mem' = [mem EXCEPT ![i] = m] /\ Then(i, NoReq, <<>>)
      /\ UNCHANGED <<file, store, owed, underway, left, requests, recycles>>
  BY DEF HandleInMemory, Become, Unsaved, bounds
<1>3. /\ job' \in [Instances -> Jobs] /\ \A x \in Instances \ {i} : job'[x] = job[x]
      /\ job'[i].at = "idle"
  BY <1>1, <1>2, BlankTypes, ThenJob DEF Todos
<1>4. /\ mem' \in [Instances -> Memories] /\ mem'[i] = m
      /\ \A x \in Instances \ {i} : mem'[x] = mem[x]
  BY <1>1, <1>2 DEF Types
<1>5. Types'
  BY <1>1, <1>2, <1>3, <1>4 DEF Types
<1>6. Apart(i)
  BY <1>2, <1>3, <1>4 DEF Apart
<1>7. Sound(mem'[i], file'[i], left'[i], job'[i], underway'[i])
  BY <1>1, <1>2, <1>3 DEF Sound
<1>8. ASSUME NEW k \in DOMAIN owed' PROVE AsBefore(i, k)
  BY <1>2, <1>8, NoneOwed DEF AsBefore
<1>9. QED
  BY <1>5, <1>6, <1>7, <1>8, OneInstance

\* A handler that has something to do after its first wait.
LEMMA StartedKeeps ==
    ASSUME IInv, NEW i \in Instances, NEW m \in Memories, NEW q \in Reqs,
           NEW t \in {<<"seedRailPosition", "saveAll">>, <<"saveAll">>}, NotWaiting(i),
           mem' = [mem EXCEPT ![i] = m], Unsaved, Then(i, q, t), UNCHANGED <<left, bounds>>
    PROVE  IInv'
<1>1. Types /\ Sound(mem[i], file[i], left[i], job[i], underway[i])
  BY DEF IInv
<1>2. UNCHANGED <<file, store, owed, underway, left, requests, recycles>>
  BY DEF Unsaved, bounds
<1>3. t \in Todos /\ t # <<>> /\ t # <<"move">> /\ t \notin Waits
  BY TodosDiffer DEF Todos
<1>4. /\ job' \in [Instances -> Jobs] /\ \A x \in Instances \ {i} : job'[x] = job[x]
      /\ job'[i].at = "run" /\ job'[i].todo = t
  BY <1>1, <1>3, ThenJob, ZenonT(60)
<1>5. /\ mem' \in [Instances -> Memories] /\ \A x \in Instances \ {i} : mem'[x] = mem[x]
  BY <1>1 DEF Types
<1>6. Types'
  BY <1>1, <1>2, <1>4, <1>5 DEF Types
<1>7. Apart(i)
  BY <1>2, <1>4, <1>5 DEF Apart
<1>8. Sound(mem'[i], file'[i], left'[i], job'[i], underway'[i])
  BY <1>1, <1>2, <1>3, <1>4 DEF Sound, Waits
<1>9. ASSUME NEW k \in DOMAIN owed' PROVE AsBefore(i, k)
  BY <1>2, <1>9, NoneOwed DEF AsBefore
<1>10. QED
  BY <1>6, <1>7, <1>8, <1>9, OneInstance

\* What a save leaves in the rows when those of slow are still under way, and
\* what is owed then.
LEMMA RowsHold ==
    ASSUME Types, NEW m \in Memories, NEW slow
    PROVE  /\ Rows(m, store, slow) \in Shelves
           /\ DOMAIN Quick(m, slow) \subseteq DOMAIN m.bal
           /\ \A k \in DOMAIN Quick(m, slow) : Quick(m, slow)[k] = m.bal[k]
           /\ \A k : Held(Rows(m, store, slow).bal, k) =
                       IF k \in DOMAIN Quick(m, slow) THEN Quick(m, slow)[k] ELSE Held(store.bal, k)
<1> DEFINE c == Quick(m, slow)
<1>1. /\ store \in Shelves /\ store.bal \in Holdings /\ store.prop \in [Assets -> PropRecords]
      /\ m.bal \in Holdings /\ m.prop \in [Assets -> PropRecords]
  BY DEF Types, Shelves, Memories
<1>2. DOMAIN c \subseteq DOMAIN m.bal /\ \A k \in DOMAIN c : c[k] = m.bal[k]
  BY DEF Quick
<1>3. c \in Holdings
  <2>1. DOMAIN m.bal \subseteq Keys /\ m.bal \in [DOMAIN m.bal -> Nat]
    BY <1>1, HoldingsHold
  <2>2. c \in [DOMAIN c -> Nat]
    BY <2>1 DEF Quick
  <2> HIDE DEF c
  <2>3. QED
    BY <1>2, <2>1, <2>2, IsHoldings
<1> HIDE DEF c
<1>4. Over(c, store.bal) \in Holdings
  BY <1>1, <1>3, OverHoldings
<1>5. Rows(m, store, slow) \in Shelves /\ Rows(m, store, slow).bal = Over(c, store.bal)
  BY <1>1, <1>4 DEF Rows, Shelves, c
<1>6. \A k : Held(Over(c, store.bal), k) = IF k \in DOMAIN c THEN c[k] ELSE Held(store.bal, k)
  BY DEF Over, Held
<1>7. QED
  BY <1>2, <1>5, <1>6 DEF c

\* The rows of a memory: what they are, and that they are not too many.
LEMMA RowTypes ==
    ASSUME NEW m \in Memories, NEW r \in RowsOf(m)
    PROVE  /\ r \in RowRecords /\ (r.of = "prop" => r.p = m.prop[r.a])
           /\ r.of = "bal" => <<r.a, r.h>> \in DOMAIN m.bal /\ r.n = m.bal[<<r.a, r.h>>]
<1>1. m.bal \in Holdings /\ m.prop \in [Assets -> PropRecords] /\ Originator \in People
  BY EdgeMarketConstants DEF Memories
<1>2. ASSUME NEW a \in Assets, r = PropRow(a, m.prop[a])
      PROVE  r \in RowRecords /\ r.of = "prop" /\ r.p = m.prop[r.a]
  <2>1. m.prop[a] \in PropRecords
    BY <1>1
  <2>2. QED
    BY <1>1, <1>2, <2>1 DEF PropRow, RowRecords
<1>3. ASSUME NEW k \in DOMAIN m.bal, r = BalRow(k, m.bal[k])
      PROVE  r \in RowRecords /\ r.of = "bal" /\ <<r.a, r.h>> = k /\ r.n = m.bal[k]
  <2>1. k \in Assets \X People /\ m.bal[k] \in Nat
    BY <1>1, HoldingsHold DEF Keys
  <2>2. r = [of |-> "bal", a |-> k[1], h |-> k[2], p |-> NoProp, n |-> m.bal[k]]
    BY <1>3 DEF BalRow
  <2>3. NoProp \in PropRecords /\ k[1] \in Assets /\ k[2] \in People /\ <<k[1], k[2]>> = k
    BY <2>1, BlankTypes
  <2>4. QED
    BY <2>1, <2>2, <2>3 DEF RowRecords
<1>4. QED
  BY <1>2, <1>3 DEF RowsOf

LEMMA RowsAreFinite ==
    ASSUME NEW m \in Memories, NEW slow, slow \subseteq RowsOf(m)
    PROVE  IsFiniteSet({[row |-> r, back |-> FALSE] : r \in slow})
<1> DEFINE A == {x \in Assets : m.prop[x] # NoProp}
           D == DOMAIN m.bal
           ps == {PropRow(a, m.prop[a]) : a \in A}
           bs == {BalRow(k, m.bal[k]) : k \in D}
           us == {[row |-> r, back |-> FALSE] : r \in slow}
           f == [a \in A |-> PropRow(a, m.prop[a])]
           g == [k \in D |-> BalRow(k, m.bal[k])]
           h == [r \in slow |-> [row |-> r, back |-> FALSE]]
<1>1. IsFiniteSet(A) /\ IsFiniteSet(D)
  <2>1. IsFiniteSet(Assets)
    BY EdgeMarketConstants, FS_AddElement DEF Assets
  <2>2. m.bal \in Holdings
    BY DEF Memories
  <2>3. QED
    BY <2>1, <2>2, FS_Subset, HoldingsHold
<1>2. IsFiniteSet(ps)
  <2>1. f \in Surjection(A, ps)
    BY DEF Surjection
  <2> HIDE DEF f, ps, A
  <2>2. QED
    BY <1>1, <2>1, FS_Surjection
<1>3. IsFiniteSet(bs)
  <2>1. g \in Surjection(D, bs)
    BY DEF Surjection
  <2> HIDE DEF g, bs, D
  <2>2. QED
    BY <1>1, <2>1, FS_Surjection
<1>4. IsFiniteSet(slow)
  <2>1. RowsOf(m) = ps \cup bs
    BY DEF RowsOf
  <2> HIDE DEF ps, bs
  <2>2. QED
    BY <1>2, <1>3, <2>1, FS_Union, FS_Subset
<1>5. h \in Surjection(slow, us)
  BY DEF Surjection
<1> HIDE DEF h, us
<1>6. IsFiniteSet(us)
  BY <1>4, <1>5, FS_Surjection
<1>7. QED
  BY <1>6 DEF us

\* A save that leaves some of its rows under way.
Under(i, slow) == underway[i] \cup {[row |-> r, back |-> FALSE] : r \in slow}
LEMMA UnderTypes ==
    ASSUME Types, NEW i \in Instances, NEW m \in Memories, NEW slow, slow \subseteq RowsOf(m),
           Cardinality(Under(i, slow)) <= MaxLate
    PROVE  FewWrites(Under(i, slow))
<1> DEFINE us == {[row |-> r, back |-> FALSE] : r \in slow}
<1>1. IsFiniteSet(us)
  BY RowsAreFinite
<1>2. us \subseteq Writes
  <2>1. ASSUME NEW r \in slow PROVE [row |-> r, back |-> FALSE] \in Writes
    <3>1. r \in RowRecords
      BY <2>1, RowTypes
    <3>2. QED
      BY <3>1 DEF Writes
  <2>2. QED
    BY <2>1
<1>3. Under(i, slow) = underway[i] \cup us
  BY DEF Under
<1>4. underway[i] \subseteq Writes /\ IsFiniteSet(underway[i])
  BY DEF Types, FewWrites
<1> HIDE DEF us
<1>5. IsFiniteSet(Under(i, slow)) /\ Under(i, slow) \subseteq Writes
  BY <1>1, <1>2, <1>3, <1>4, FS_Union
<1>6. QED
  BY <1>5 DEF FewWrites

\* What an answer promises of the memory m: all but what is contested.
Promised(i, m) ==
    [prop |-> [a \in Assets |-> IF Contested(i, PropRow(a, m.prop[a])) THEN NoProp ELSE m.prop[a]],
     bal |-> [k \in {x \in DOMAIN m.bal : ~Contested(i, BalRow(x, m.bal[x]))} |-> m.bal[k]]]
LEMMA PromisedHolds ==
    ASSUME Types, NEW i \in Instances, NEW m \in Memories, NEW slow, slow \subseteq RowsOf(m)
    PROVE  /\ Promised(i, m) \in Shelves /\ Within(Promised(i, m), m)
           /\ Within(Promised(i, m), Books(m)) /\ Agree(Promised(i, m), Under(i, slow))
<1> DEFINE l == Promised(i, m)
<1>1. m.bal \in Holdings /\ m.prop \in [Assets -> PropRecords] /\ underway[i] \subseteq Writes
  BY DEF Memories, Types
<1>2. /\ \A a \in Assets : l.prop[a] = IF Contested(i, PropRow(a, m.prop[a])) THEN NoProp ELSE m.prop[a]
      /\ l.prop \in [Assets -> PropRecords]
  BY <1>1, BlankTypes DEF Promised
<1>3. /\ DOMAIN l.bal = {x \in DOMAIN m.bal : ~Contested(i, BalRow(x, m.bal[x]))}
      /\ \A k \in DOMAIN l.bal : l.bal[k] = m.bal[k]
      /\ l.bal = [k \in DOMAIN l.bal |-> m.bal[k]]
  BY DEF Promised
<1>4. DOMAIN m.bal \subseteq Keys /\ \A k \in DOMAIN m.bal : m.bal[k] \in Nat
  BY <1>1, HoldingsHold
<1>5. l = [prop |-> l.prop, bal |-> l.bal]
  BY DEF Promised
<1> HIDE DEF l
<1>6. l.bal \in Holdings
  <2>1. l.bal \in [DOMAIN l.bal -> Nat] /\ DOMAIN l.bal \subseteq Keys
    BY <1>3, <1>4
  <2>2. QED
    BY <2>1, IsHoldings
<1>7. l \in Shelves
  BY <1>2, <1>5, <1>6 DEF Shelves
<1>8. Within(l, m) /\ Within(l, Books(m))
  BY <1>2, <1>3, BooksType DEF Within
<1>9. ASSUME NEW w \in underway[i] PROVE Agrees(l, w.row)
  <2> DEFINE r == w.row
  <2>1. r \in RowRecords
    BY <1>1 DEF Writes
  <2>2. /\ r.of \in {"prop", "bal"} /\ r.a \in Assets /\ r.h \in People
        /\ r.of = "prop" => r.h = Originator
    BY <2>1 DEF RowRecords
  <2>3. \A x : ~Contested(i, x) /\ RowKey(r) = RowKey(x) => r = x
    BY DEF Contested
  <2> HIDE DEF r
  <2>4. ASSUME r.of = "prop", l.prop[r.a] # NoProp PROVE l.prop[r.a] = r.p
    <3> DEFINE x == PropRow(r.a, m.prop[r.a])
    <3>1. ~Contested(i, x) /\ l.prop[r.a] = m.prop[r.a]
      BY <1>2, <2>2, <2>4
    <3>2. RowKey(r) = RowKey(x) /\ x.p = m.prop[r.a]
      BY <2>2, <2>4 DEF RowKey, PropRow
    <3> HIDE DEF x
    <3>3. QED
      BY <2>3, <3>1, <3>2
  <2>5. ASSUME NEW k \in DOMAIN l.bal, r.of = "bal", <<r.a, r.h>> = k PROVE r.n = l.bal[k]
    <3> DEFINE x == BalRow(k, m.bal[k])
    <3>1. ~Contested(i, x) /\ l.bal[k] = m.bal[k]
      BY <1>3, <2>5
    <3>2. k[1] = r.a /\ k[2] = r.h
      BY <2>5
    <3>3. RowKey(r) = RowKey(x) /\ x.n = m.bal[k]
      BY <2>5, <3>2 DEF RowKey, BalRow
    <3> HIDE DEF x
    <3>4. QED
      BY <2>3, <3>1, <3>3
  <2>6. QED
    BY <2>4, <2>5 DEF Agrees, Says, r
<1>10. ASSUME NEW r \in slow PROVE Agrees(l, r)
  <2>1. /\ r \in RowRecords /\ (r.of = "prop" => r.p = m.prop[r.a])
        /\ r.of = "bal" => r.n = m.bal[<<r.a, r.h>>]
    BY <1>10, RowTypes
  <2>2. r.a \in Assets
    BY <2>1 DEF RowRecords
  <2>3. r.of = "prop" /\ l.prop[r.a] # NoProp => l.prop[r.a] = r.p
    BY <1>2, <2>1, <2>2
  <2>4. ASSUME NEW k \in DOMAIN l.bal PROVE Says(r, k, l.bal[k])
    BY <1>3, <2>1 DEF Says
  <2>5. QED
    BY <2>3, <2>4 DEF Agrees
<1>11. Agree(l, Under(i, slow))
  BY <1>9, <1>10 DEF Agree, Under
<1>12. QED
  BY <1>7, <1>8, <1>11 DEF l

LEMMA OwesHold ==
    ASSUME NEW i \in Instances, NEW m \in Memories, NEW q \in Reqs,
           q.n > 0 => {Sender(q), Receiver(q)} \subseteq DOMAIN m.bal
    PROVE  /\ Owes(i, m, q) \in Dues
           /\ \A k \in DOMAIN Owes(i, m, q) :
                 /\ q.n > 0 /\ k \in {Sender(q), Receiver(q)} /\ ~Contested(i, BalRow(k, m.bal[k]))
                 /\ Owes(i, m, q)[k] = [n |-> m.bal[k], by |-> i, due |-> FALSE]
<1>1. q.n \in Nat /\ q.on \in Assets /\ q.from \in People /\ q.to \in People
  BY DEF Reqs
<1>2. CASE q.n = 0
  <2>1. Owes(i, m, q) \in [{} -> DueRecords]
    BY <1>2 DEF Owes, Empty
  <2>2. QED
    BY <2>1, IsDues
<1>3. CASE q.n # 0
  <2> DEFINE D == {x \in {Sender(q), Receiver(q)} : ~Contested(i, BalRow(x, m.bal[x]))}
             o == [k \in D |-> [n |-> m.bal[k], by |-> i, due |-> FALSE]]
  <2>1. q.n > 0 /\ D \subseteq DOMAIN m.bal /\ D \subseteq Keys
    BY <1>1, <1>3 DEF Keys, Sender, Receiver
  <2>2. m.bal \in Holdings
    BY DEF Memories
  <2>3. \A k \in D : m.bal[k] \in Nat
    BY <2>1, <2>2, HoldingsHold
  <2>4. Owes(i, m, q) = o
    BY <1>3 DEF Owes, Sender, Receiver
  <2>5. o \in [D -> DueRecords] /\ \A k \in D : o[k] = [n |-> m.bal[k], by |-> i, due |-> FALSE]
    BY <2>3 DEF DueRecords
  <2>6. DOMAIN o = D
    OBVIOUS
  <2> HIDE DEF o
  <2>7. o \in Dues
    BY <2>1, <2>5, IsDues
  <2>8. QED
    BY <2>1, <2>4, <2>5, <2>6, <2>7
<1>4. QED
  BY <1>2, <1>3

\* What is owed of a save, no row write of the instance says otherwise.
LEMMA OwedIsSaid ==
    ASSUME Types, NEW i \in Instances, NEW m \in Memories, NEW slow, slow \subseteq RowsOf(m),
           NEW k \in DOMAIN m.bal, ~Contested(i, BalRow(k, m.bal[k]))
    PROVE  \A w \in Under(i, slow) : Says(w.row, k, m.bal[k])
<1>1. ASSUME NEW w \in underway[i], w.row.of = "bal", <<w.row.a, w.row.h>> = k PROVE w.row.n = m.bal[k]
  <2> DEFINE r == w.row
             x == BalRow(k, m.bal[k])
  <2>1. k[1] = r.a /\ k[2] = r.h
    BY <1>1
  <2>2. RowKey(r) = RowKey(x) /\ x.n = m.bal[k]
    BY <1>1, <2>1 DEF RowKey, BalRow
  <2>3. r = x
    BY <2>2 DEF Contested
  <2> HIDE DEF r, x
  <2>4. QED
    BY <2>2, <2>3 DEF r
<1>2. ASSUME NEW r \in slow PROVE Says(r, k, m.bal[k])
  BY <1>2, RowTypes DEF Says
<1>3. QED
  BY <1>1, <1>2 DEF Under, Says

\* A handler that saves everything: to its file at once, to the rows perhaps.
LEMMA SavedKeeps ==
    ASSUME IInv, NEW i \in Instances, NEW m \in Memories, NEW q \in Reqs,
           NEW t \in {<<>>, <<"prop">>, Awaited},
           t = Awaited => {Sender(q), Receiver(q)} \subseteq DOMAIN m.bal,
           q.n > 0 => t = Awaited, NotWaiting(i), HandleSaved(i, m, q, t)
    PROVE  IInv'
<1>1. Types /\ Sound(mem[i], file[i], left[i], job[i], underway[i])
  BY DEF IInv
<1> DEFINE l == Promised(i, m)
<1>2. /\ mem' = [mem EXCEPT ![i] = m] /\ Then(i, q, t) /\ left' = [left EXCEPT ![i] = l]
      /\ file' = [file EXCEPT ![i] = Books(m)] /\ UNCHANGED <<requests, recycles>>
  BY DEF HandleSaved, Become, Left, saveAllPersisted, bounds, Promised
<1> DEFINE new == Owes(i, m, q)
<1>3. PICK slow :
        /\ slow \subseteq RowsOf(m) /\ Cardinality(Under(i, slow)) <= MaxLate
        /\ underway' = [underway EXCEPT ![i] = Under(i, slow)]
        /\ \/ store' = Rows(m, store, slow) /\ owed' = Over(new, StillOwed(Quick(m, slow)))
           \/ UNCHANGED store /\ owed' = Over(new, owed)
  <2>1. PICK keys \in Stragglers :
          LET some == {r \in RowsOf(m) : RowKey(r) \in keys}
          IN  /\ Cardinality(Under(i, some)) <= MaxLate
              /\ underway' = [underway EXCEPT ![i] = Under(i, some)]
              /\ \/ store' = Rows(m, store, some) /\ owed' = Over(new, StillOwed(Quick(m, some)))
                 \/ UNCHANGED store /\ owed' = Over(new, owed)
    BY DEF HandleSaved, saveAllPersisted, Under
  <2> DEFINE some == {r \in RowsOf(m) : RowKey(r) \in keys}
  <2>2. some \subseteq RowsOf(m)
    OBVIOUS
  <2> HIDE DEF new
  <2>3. QED
    BY <2>1, <2>2
<1> DEFINE L == Under(i, slow)
<1>4. Books(m) \in Shelves /\ Books(m).prop = m.prop /\ Books(m).bal = m.bal
  BY BooksType
<1>5. /\ l \in Shelves /\ Within(l, m) /\ Within(l, Books(m)) /\ Agree(l, L)
  BY <1>1, <1>3, PromisedHolds
<1>6. FewWrites(L) /\ underway' = [underway EXCEPT ![i] = L]
  BY <1>1, <1>3, UnderTypes
<1> HIDE DEF l, L, new
<1>7. t \in Todos /\ t # <<"move">> /\ t # <<"to", "prop">>
  BY TodosDiffer DEF Todos, Waits
<1>8. /\ job' \in [Instances -> Jobs] /\ \A x \in Instances \ {i} : job'[x] = job[x]
      /\ t = <<>> => job'[i].at = "idle"
      /\ t # <<>> => job'[i].at = "run" /\ job'[i].q = q /\ job'[i].todo = t
  BY <1>1, <1>2, <1>7, ThenJob
<1>9. /\ mem' \in [Instances -> Memories] /\ file' \in [Instances -> Shelves]
      /\ left' \in [Instances -> Shelves]
      /\ mem'[i] = m /\ file'[i] = Books(m) /\ left'[i] = l
      /\ \A x \in Instances \ {i} : mem'[x] = mem[x] /\ file'[x] = file[x] /\ left'[x] = left[x]
  BY <1>1, <1>2, <1>4, <1>5 DEF Types
<1>10. /\ underway' \in [Instances -> SUBSET Writes] /\ \A x \in Instances : FewWrites(underway'[x])
       /\ underway'[i] = L /\ \A x \in Instances \ {i} : underway'[x] = underway[x]
  <2>1. L \subseteq Writes
    BY <1>6 DEF FewWrites
  <2>2. underway \in [Instances -> SUBSET Writes] /\ \A x \in Instances : FewWrites(underway[x])
    BY <1>1 DEF Types
  <2>3. /\ underway' \in [Instances -> SUBSET Writes] /\ underway'[i] = L
        /\ \A x \in Instances \ {i} : underway'[x] = underway[x]
    BY <1>6, <2>1, <2>2
  <2>4. QED
    BY <1>6, <2>2, <2>3
<1>11. Apart(i)
  BY <1>8, <1>9, <1>10 DEF Apart
<1>12. Sound(m, Books(m), l, job'[i], L)
  <2>1. Within(l, Books(m)) /\ Within(l, m) /\ Agree(l, L)
    BY <1>5
  <2>2. CASE t = <<>>
    BY <1>8, <2>1, <2>2 DEF Sound
  <2>3. CASE t # <<>>
    BY <1>7, <1>8, <2>1, <2>3 DEF Sound
  <2>4. QED
    BY <2>2, <2>3
<1>13. q.n > 0 => {Sender(q), Receiver(q)} \subseteq DOMAIN m.bal
  OBVIOUS
<1>14. new \in Dues /\ \A k \in DOMAIN new :
           /\ q.n > 0 /\ k \in {Sender(q), Receiver(q)} /\ ~Contested(i, BalRow(k, m.bal[k]))
           /\ new[k] = [n |-> m.bal[k], by |-> i, due |-> FALSE]
  BY <1>13, OwesHold DEF new
<1>15. ASSUME NEW k \in DOMAIN new, owed'[k] = new[k] PROVE FitsNow(k)
  <2>1. /\ q.n > 0 /\ k \in {Sender(q), Receiver(q)} /\ t = Awaited
        /\ new[k].n = m.bal[k] /\ new[k].by = i /\ new[k].due = FALSE
    BY <1>14, <1>15
  <2>2. t # <<>> /\ t \in Waits /\ t # <<"prop">>
    BY <2>1, TodosDiffer DEF Waits
  <2>3. job'[i].at = "run" /\ job'[i].q = q /\ job'[i].todo = t
    BY <1>8, <2>2
  <2>4. k \in DOMAIN m.bal /\ \A w \in L : Says(w.row, k, m.bal[k])
    BY <1>1, <1>13, <1>14, <1>15, <1>3, <2>1, OwedIsSaid DEF L
  <2>5. Fits(new[k], k, m, job'[i], L, Held(store'.bal, k))
    BY <2>1, <2>2, <2>3, <2>4 DEF Fits
  <2>6. QED
    BY <1>9, <1>15, <1>10, <2>1, <2>5 DEF FitsNow
<1>16. CASE store' = Rows(m, store, slow) /\ owed' = Over(new, StillOwed(Quick(m, slow)))
  <2> DEFINE c == Quick(m, slow)
             old == StillOwed(c)
  <2>1. /\ old \in Dues /\ DOMAIN old \subseteq DOMAIN owed
        /\ \A k \in DOMAIN old : old[k] = owed[k] /\ (k \in DOMAIN c => c[k] = owed[k].n)
    BY <1>1, StillOwedHolds DEF Types
  <2> HIDE DEF old
  <2>2. /\ store' \in Shelves
        /\ \A k : Held(store'.bal, k) = IF k \in DOMAIN c THEN c[k] ELSE Held(store.bal, k)
    BY <1>1, <1>16, RowsHold
  <2>3. owed' = Over(new, old)
    BY <1>16 DEF old
  <2> HIDE DEF c
  <2>4. owed' \in Dues
    BY <1>14, <2>1, <2>3, OverDues
  <2>5. Types'
    BY <1>1, <1>2, <1>8, <1>9, <1>10, <2>2, <2>4 DEF Types
  <2>6. ASSUME NEW k \in DOMAIN owed' PROVE AsBefore(i, k) \/ FitsNow(k)
    <3>1. /\ k \in DOMAIN new \/ k \in DOMAIN old
          /\ k \in DOMAIN new => owed'[k] = new[k]
          /\ k \notin DOMAIN new => owed'[k] = old[k]
      BY <2>3, <2>6 DEF Over
    <3>2. CASE k \in DOMAIN new
      BY <1>15, <3>1, <3>2
    <3>3. CASE k \notin DOMAIN new
      BY <2>1, <2>2, <3>1, <3>3, NoneOwed DEF AsBefore
    <3>4. QED
      BY <3>2, <3>3
  <2>7. QED
    BY <1>9, <1>11, <1>12, <1>10, <2>5, <2>6, OneInstance
<1>17. CASE UNCHANGED store /\ owed' = Over(new, owed)
  <2>1. owed \in Dues
    BY <1>1 DEF Types
  <2>2. owed' \in Dues
    BY <1>14, <1>17, <2>1, OverDues
  <2>3. Types'
    BY <1>1, <1>2, <1>8, <1>9, <1>17, <1>10, <2>2 DEF Types
  <2>4. ASSUME NEW k \in DOMAIN owed' PROVE AsBefore(i, k) \/ FitsNow(k)
    <3>1. /\ k \in DOMAIN new \/ k \in DOMAIN owed
          /\ k \in DOMAIN new => owed'[k] = new[k]
          /\ k \notin DOMAIN new => owed'[k] = owed[k]
      BY <1>17, <2>4 DEF Over
    <3>2. CASE k \in DOMAIN new
      BY <1>15, <3>1, <3>2
    <3>3. CASE k \notin DOMAIN new
      BY <1>17, <3>1, <3>3, NoneOwed DEF AsBefore
    <3>4. QED
      BY <3>2, <3>3
  <2>5. QED
    BY <1>9, <1>11, <1>12, <1>10, <2>3, <2>4, OneInstance
<1>18. QED
  BY <1>16, <1>17, <1>3

\* One row and the file are written: what is owed of that row, it now holds.
WriteRow(i, k, v) ==
    /\ store' = [store EXCEPT !.bal = Over(Only(k, v), @)]
    /\ file' = [file EXCEPT ![i].bal = Over(Only(k, v), @)]
    /\ owed' = StillOwed(Only(k, v))
LEMMA RowWritten ==
    ASSUME Types, NEW i \in Instances, NEW k \in Keys, NEW v \in Nat, WriteRow(i, k, v)
    PROVE  /\ store' \in Shelves /\ file' \in [Instances -> Shelves] /\ owed' \in Dues
           /\ \A x \in Instances \ {i} : file'[x] = file[x]
           /\ file'[i].prop = file[i].prop /\ DOMAIN file'[i].bal = DOMAIN file[i].bal \cup {k}
           /\ file'[i].bal[k] = v /\ \A y \in DOMAIN file[i].bal \ {k} : file'[i].bal[y] = file[i].bal[y]
           /\ \A y : Held(store'.bal, y) = IF y = k THEN v ELSE Held(store.bal, y)
           /\ \A y \in DOMAIN owed' : /\ y \in DOMAIN owed /\ owed'[y] = owed[y]
                                      /\ y = k => owed[y].n = v
<1>1. /\ store \in Shelves /\ store.bal \in Holdings /\ file \in [Instances -> Shelves]
      /\ file[i] \in Shelves /\ file[i].bal \in Holdings /\ owed \in Dues
  BY DEF Types, Shelves
<1>2. Only(k, v) \in Holdings /\ DOMAIN Only(k, v) = {k} /\ Only(k, v)[k] = v
  BY OneHolding
<1> DEFINE b == Over(Only(k, v), store.bal)
           c == Over(Only(k, v), file[i].bal)
<1>3. b \in Holdings /\ c \in Holdings
  BY <1>1, <1>2, OverHoldings
<1>4. \A y : Held(b, y) = IF y = k THEN v ELSE Held(store.bal, y)
  BY <1>2 DEF Over, Held
<1>5. /\ DOMAIN c = DOMAIN file[i].bal \cup {k} /\ c[k] = v
      /\ \A y \in DOMAIN file[i].bal \ {k} : c[y] = file[i].bal[y]
  BY <1>2 DEF Over
<1>6. store' = [store EXCEPT !.bal = b] /\ file' = [file EXCEPT ![i].bal = c]
  BY DEF WriteRow
<1> HIDE DEF b, c
<1>7. store' \in Shelves /\ store'.bal = b
  BY <1>1, <1>3, <1>6 DEF Shelves
<1>8. /\ file' \in [Instances -> Shelves] /\ \A x \in Instances \ {i} : file'[x] = file[x]
      /\ file'[i].prop = file[i].prop /\ file'[i].bal = c
  BY <1>1, <1>3, <1>6 DEF Shelves
<1>9. owed' = StillOwed(Only(k, v))
  BY DEF WriteRow
<1>10. /\ owed' \in Dues
       /\ \A y \in DOMAIN owed' : /\ y \in DOMAIN owed /\ owed'[y] = owed[y]
                                  /\ y = k => owed[y].n = v
  BY <1>1, <1>2, <1>9, StillOwedHolds
<1>11. QED
  BY <1>4, <1>5, <1>7, <1>8, <1>10

\* A transfer writes down what the client has shown that the sender holds.
LEMMA ShownKeeps ==
    ASSUME IInv, NEW i \in Instances, NEW m \in Memories, NEW q \in Reqs, NEW v \in Nat,
           q.n > 0, q.from # q.to, Sender(q) \in DOMAIN m.bal,
           Sender(q) \notin DOMAIN left[i].bal, NotWaiting(i),
           Become(i, m), WriteRow(i, Sender(q), v), Then(i, q, <<"move">>), UNCHANGED <<underway, left, bounds>>
    PROVE  IInv'
<1>1. Types /\ Sound(mem[i], file[i], left[i], job[i], underway[i])
  BY DEF IInv
<1> DEFINE k == Sender(q)
<1>2. k \in Keys
  BY DEF Reqs, Keys, Sender
<1>3. mem' = [mem EXCEPT ![i] = m] /\ UNCHANGED <<underway, left, requests, recycles>>
  BY DEF Become, bounds
<1>4. <<"move">> \in Todos /\ <<"move">> # <<>> /\ <<"move">> \notin Waits
  BY TodosDiffer DEF Todos
<1>5. /\ job' \in [Instances -> Jobs] /\ \A x \in Instances \ {i} : job'[x] = job[x]
      /\ job'[i].at = "run" /\ job'[i].q = q /\ job'[i].todo = <<"move">>
  BY <1>1, <1>4, ThenJob
<1>6. /\ mem' \in [Instances -> Memories] /\ mem'[i] = m
      /\ \A x \in Instances \ {i} : mem'[x] = mem[x]
  BY <1>1, <1>3 DEF Types
<1> HIDE DEF k
<1>7. /\ store' \in Shelves /\ file' \in [Instances -> Shelves] /\ owed' \in Dues
      /\ \A x \in Instances \ {i} : file'[x] = file[x]
      /\ file'[i].prop = file[i].prop /\ DOMAIN file'[i].bal = DOMAIN file[i].bal \cup {k}
      /\ file'[i].bal[k] = v /\ \A y \in DOMAIN file[i].bal \ {k} : file'[i].bal[y] = file[i].bal[y]
      /\ \A y : Held(store'.bal, y) = IF y = k THEN v ELSE Held(store.bal, y)
      /\ \A y \in DOMAIN owed' : y \in DOMAIN owed /\ owed'[y] = owed[y] /\ (y = k => owed[y].n = v)
  BY <1>1, <1>2, RowWritten DEF k
<1>8. Types'
  BY <1>1, <1>3, <1>5, <1>6, <1>7 DEF Types
<1>9. Apart(i)
  BY <1>3, <1>5, <1>6, <1>7 DEF Apart
<1>10. Within(left[i], file'[i])
  BY <1>1, <1>7 DEF Sound, Within, k
<1>11. Sound(mem'[i], file'[i], left'[i], job'[i], underway'[i])
  BY <1>1, <1>3, <1>4, <1>5, <1>6, <1>10 DEF Sound, Waits
<1>12. ASSUME NEW y \in DOMAIN owed' PROVE AsBefore(i, y)
  BY <1>7, <1>12, NoneOwed DEF AsBefore
<1>13. QED
  BY <1>8, <1>9, <1>11, <1>12, OneInstance

\* A transfer that has waited for the sender's row, or the receiver's, goes on to
\* the next.
LEMMA BalanceSavedKeeps ==
    ASSUME IInv, NEW i \in Instances, job[i].at = "run", NEW k,
           \/ job[i].todo = Awaited /\ k = Sender(job[i].q)
           \/ job[i].todo = <<"to", "prop">> /\ k = Receiver(job[i].q),
           saveBalance(i, k), Rest(i), UNCHANGED <<mem, underway, left, bounds>>
    PROVE  IInv'
<1>1. Types /\ Sound(mem[i], file[i], left[i], job[i], underway[i]) /\ job[i] \in Jobs /\ mem[i] \in Memories
  BY DEF IInv, Types
<1> DEFINE q == job[i].q
           was == job[i].todo
           t == Tail(was)
           v == mem[i].bal[k]
<1>2. q \in Reqs /\ mem[i].bal \in Holdings
  BY <1>1 DEF Jobs, Memories
<1>3. {Sender(q), Receiver(q)} \subseteq DOMAIN mem[i].bal /\ Within(left[i], mem[i])
  BY <1>1 DEF Sound, Waits
<1>4. k \in DOMAIN mem[i].bal /\ k \in Keys /\ v \in Nat
  BY <1>2, <1>3, HoldingsHold
<1>5. /\ \/ was = Awaited /\ t = <<"to", "prop">> /\ k = Sender(q)
         \/ was = <<"to", "prop">> /\ t = <<"prop">> /\ k = Receiver(q)
      /\ t \in Todos /\ t \in Waits /\ t # <<>> /\ t # <<"move">> /\ t # Awaited
  <2>1. \/ was = Awaited /\ t = <<"to", "prop">> /\ k = Sender(q)
        \/ was = <<"to", "prop">> /\ t = <<"prop">> /\ k = Receiver(q)
    BY TodoSteps
  <2>2. /\ <<"to", "prop">> \in Todos /\ <<"to", "prop">> \in Waits
        /\ <<"prop">> \in Todos /\ <<"prop">> \in Waits
    BY DEF Todos, Waits
  <2> HIDE DEF q, was, t, v
  <2>3. QED
    BY <2>1, <2>2, TodosDiffer
<1>6. Then(i, q, t) /\ WriteRow(i, k, v) /\ UNCHANGED <<mem, underway, left, requests, recycles>>
  BY DEF Rest, saveBalance, WriteRow, bounds
<1> HIDE DEF q, was, t, v
<1>7. /\ job' \in [Instances -> Jobs] /\ \A x \in Instances \ {i} : job'[x] = job[x]
      /\ job'[i].at = "run" /\ job'[i].q = q /\ job'[i].todo = t
  BY <1>1, <1>2, <1>5, <1>6, ThenJob
<1>8. /\ store' \in Shelves /\ file' \in [Instances -> Shelves] /\ owed' \in Dues
      /\ \A x \in Instances \ {i} : file'[x] = file[x]
      /\ file'[i].prop = file[i].prop /\ DOMAIN file'[i].bal = DOMAIN file[i].bal \cup {k}
      /\ file'[i].bal[k] = v /\ \A y \in DOMAIN file[i].bal \ {k} : file'[i].bal[y] = file[i].bal[y]
      /\ \A y : Held(store'.bal, y) = IF y = k THEN v ELSE Held(store.bal, y)
      /\ \A y \in DOMAIN owed' : y \in DOMAIN owed /\ owed'[y] = owed[y] /\ (y = k => owed[y].n = v)
  BY <1>1, <1>4, <1>6, RowWritten
<1>9. Types'
  BY <1>1, <1>6, <1>7, <1>8 DEF Types
<1>10. Apart(i)
  BY <1>6, <1>7, <1>8 DEF Apart
<1>11. Within(left[i], file'[i])
  BY <1>1, <1>3, <1>8 DEF Sound, Within, v
<1>12. Sound(mem'[i], file'[i], left'[i], job'[i], underway'[i])
  BY <1>1, <1>3, <1>5, <1>6, <1>7, <1>11 DEF Sound
<1>13. ASSUME NEW y \in DOMAIN owed' PROVE AsBefore(i, y) \/ FitsNow(y)
  <2> DEFINE o == owed[y]
  <2>1. y \in DOMAIN owed /\ owed'[y] = o /\ (y = k => o.n = v)
    BY <1>8, <1>13
  <2>2. Held(store'.bal, y) = IF y = k THEN o.n ELSE Held(store.bal, y)
    BY <1>8, <2>1
  <2>3. CASE o.due \/ o.by # i
    BY <2>1, <2>2, <2>3 DEF AsBefore
  <2>4. CASE ~o.due /\ o.by = i
    <3>1. Fits(o, y, mem[i], job[i], underway[i], Held(store.bal, y))
      BY <2>1, <2>4 DEF IInv
    <3> HIDE DEF o
    <3>2. /\ q.n > 0 /\ y \in {Sender(q), Receiver(q)} /\ y \in DOMAIN mem[i].bal /\ mem[i].bal[y] = o.n
          /\ \A w \in underway[i] : Says(w.row, y, o.n)
          /\ y = Sender(q) /\ was # Awaited => Held(store.bal, y) = o.n
      BY <2>4, <3>1 DEF Fits, q, was
    <3>3. y = Sender(q) => Held(store'.bal, y) = o.n
      BY <1>5, <2>2, <3>2, TodosDiffer
    <3>4. y = Receiver(q) /\ t = <<"prop">> => Held(store'.bal, y) = o.n
      BY <1>5, <2>2, TodosDiffer
    <3>5. Fits(o, y, mem[i], job'[i], underway[i], Held(store'.bal, y))
      BY <1>5, <1>7, <2>4, <3>2, <3>3, <3>4 DEF Fits
    <3>6. owed'[y].by = i /\ mem'[i] = mem[i] /\ underway'[i] = underway[i]
      BY <1>6, <2>1, <2>4
    <3>7. QED
      BY <2>1, <3>5, <3>6 DEF FitsNow
  <2>5. QED
    BY <2>3, <2>4
<1>14. QED
  BY <1>9, <1>10, <1>12, <1>13, OneInstance

\* The last write that is waited for, of a transfer or of a listing: the answer
\* follows, and what a transfer owes is due from now on.
LEMMA PropertySavedKeeps ==
    ASSUME IInv, NEW i \in Instances, job[i].at = "run", job[i].todo = <<"prop">>,
           saveProperty(i, job[i].q), Rest(i), UNCHANGED <<mem, underway, left, bounds>>
    PROVE  IInv'
<1>1. Types /\ Sound(mem[i], file[i], left[i], job[i], underway[i]) /\ job[i] \in Jobs /\ mem[i] \in Memories
  BY DEF IInv, Types
<1> DEFINE q == job[i].q
           p == mem[i].prop[q.on]
           ks == {Sender(q), Receiver(q)}
<1>2. q \in Reqs /\ q.on \in Assets /\ p \in PropRecords
  BY <1>1 DEF Jobs, Reqs, Memories
<1>3. Within(left[i], mem[i])
  BY <1>1 DEF Sound, Waits
<1>4. /\ store' = [store EXCEPT !.prop[q.on] = p] /\ file' = [file EXCEPT ![i].prop[q.on] = p]
      /\ owed' = [k \in DOMAIN owed |-> IF q.n > 0 /\ k \in ks /\ owed[k].by = i
                                        THEN [owed[k] EXCEPT !.due = TRUE] ELSE owed[k]]
      /\ UNCHANGED <<mem, underway, left, requests, recycles>>
  BY DEF saveProperty, bounds, Sender, Receiver
<1>5. Then(i, q, <<>>)
  BY TodoSteps DEF Rest
<1>6. left[i].prop[q.on] # NoProp => left[i].prop[q.on] = p
  BY <1>2, <1>3 DEF Within
<1> HIDE DEF p, ks, q
<1>7. job' \in [Instances -> Jobs] /\ (\A x \in Instances \ {i} : job'[x] = job[x]) /\ job'[i].at = "idle"
  BY <1>1, <1>2, <1>5, ThenJob DEF Todos
<1>8. /\ store' \in Shelves /\ store'.bal = store.bal /\ file' \in [Instances -> Shelves]
      /\ \A x \in Instances \ {i} : file'[x] = file[x]
      /\ file'[i].bal = file[i].bal /\ file'[i].prop = [file[i].prop EXCEPT ![q.on] = p]
  BY <1>1, <1>2, <1>4 DEF Types, Shelves
<1>9. /\ owed \in Dues /\ DOMAIN owed \subseteq Keys /\ owed \in [DOMAIN owed -> DueRecords]
  BY <1>1, DuesHold DEF Types
<1>10. owed' \in Dues
  <2>1. owed' \in [DOMAIN owed -> DueRecords]
    BY <1>4, <1>9 DEF DueRecords
  <2>2. QED
    BY <1>9, <2>1, IsDues
<1>11. Types'
  BY <1>1, <1>4, <1>7, <1>8, <1>10 DEF Types
<1>12. Apart(i)
  BY <1>4, <1>7, <1>8 DEF Apart
<1>13. Sound(mem'[i], file'[i], left'[i], job'[i], underway'[i])
  <2>1. Within(left[i], file[i])
    BY <1>1 DEF Sound
  <2>2. file[i].prop \in [Assets -> PropRecords]
    BY <1>1 DEF Types, Shelves
  <2>3. Within(left[i], file'[i])
    BY <1>2, <1>6, <1>8, <2>1, <2>2 DEF Within
  <2>4. QED
    BY <1>1, <1>4, <1>7, <2>3 DEF Sound
<1>14. ASSUME NEW y \in DOMAIN owed' PROVE AsBefore(i, y) \/ FitsNow(y)
  <2> DEFINE o == owed[y]
  <2>1. /\ y \in DOMAIN owed /\ Held(store'.bal, y) = Held(store.bal, y) /\ o \in DueRecords
        /\ owed'[y] = IF q.n > 0 /\ y \in ks /\ o.by = i THEN [o EXCEPT !.due = TRUE] ELSE o
    BY <1>4, <1>8, <1>9, <1>14
  <2>2. Fits(o, y, mem[o.by], job[o.by], underway[o.by], Held(store.bal, y))
    BY <2>1 DEF IInv
  <2>3. o.by = i /\ ~o.due => q.n > 0 /\ y \in ks
    BY <2>2 DEF Fits, q, ks
  <2>4. o.by = i => Held(store.bal, y) = o.n
    BY <2>2, TodosDiffer DEF Fits
  <2> HIDE DEF o
  <2>5. CASE q.n > 0 /\ y \in ks /\ o.by = i
    <3>1. owed'[y].due /\ owed'[y].n = o.n
      BY <2>1, <2>5 DEF DueRecords
    <3>2. QED
      BY <2>1, <2>4, <2>5, <3>1 DEF FitsNow, Fits
  <2>6. CASE ~(q.n > 0 /\ y \in ks /\ o.by = i)
    <3>1. owed'[y] = o
      BY <2>1, <2>6
    <3>2. o.by # i \/ o.due
      BY <2>3, <2>6
    <3>3. QED
      BY <2>1, <3>1, <3>2 DEF AsBefore, o
  <2>7. QED
    BY <2>5, <2>6
<1>15. QED
  BY <1>11, <1>12, <1>13, <1>14, OneInstance

LEMMA BeginKeeps ==
    ASSUME IInv, NEW i \in Instances, Begin(i) PROVE IInv'
<1> DEFINE m == initState(i)
           j == [Idle EXCEPT !.at = "loaded"]
<1>1. Types /\ Sound(mem[i], file[i], left[i], job[i], underway[i])
  BY DEF IInv
<1>2. m \in Memories /\ Within(left[i], m)
  BY <1>1, LoadedTypes DEF Sound
<1>3. j \in Jobs /\ j.at = "loaded"
  BY BlankTypes DEF Jobs
<1> HIDE DEF m, j
<1>4. /\ mem' = [mem EXCEPT ![i] = m] /\ job' = [job EXCEPT ![i] = j] /\ job[i].at = "idle"
      /\ requests < MaxRequests /\ requests' = requests + 1
      /\ UNCHANGED <<file, store, underway, left, owed, recycles>>
  BY DEF Begin, m, j
<1>5. requests' \in 0..MaxRequests
  BY <1>1, <1>4, EdgeMarketConstants DEF Types
<1>6. /\ mem' \in [Instances -> Memories] /\ mem'[i] = m /\ job' \in [Instances -> Jobs] /\ job'[i] = j
      /\ \A x \in Instances \ {i} : mem'[x] = mem[x] /\ job'[x] = job[x]
  BY <1>1, <1>2, <1>3, <1>4 DEF Types
<1>7. Types'
  BY <1>1, <1>4, <1>5, <1>6 DEF Types
<1>8. Apart(i)
  BY <1>4, <1>6 DEF Apart
<1>9. Sound(mem'[i], file'[i], left'[i], job'[i], underway'[i])
  BY <1>1, <1>2, <1>3, <1>4, <1>6 DEF Sound
<1>10. ASSUME NEW k \in DOMAIN owed' PROVE AsBefore(i, k)
  BY <1>4, <1>10, NoneOwed DEF AsBefore, NotWaiting
<1>11. QED
  BY <1>7, <1>8, <1>9, <1>10, OneInstance

\* An instance that is thrown away takes with it what its transfers had not written.
LEMMA RecycleKeeps ==
    ASSUME IInv, NEW i \in Instances, Recycle(i) PROVE IInv'
<1> DEFINE D == {x \in DOMAIN owed : owed[x].due \/ owed[x].by # i}
<1>1. Types
  BY DEF IInv
<1>2. /\ mem' = [mem EXCEPT ![i] = Cold] /\ file' = [file EXCEPT ![i] = NoFile]
      /\ job' = [job EXCEPT ![i] = Idle] /\ left' = [left EXCEPT ![i] = NoFile]
      /\ underway' = [underway EXCEPT ![i] = {}]
      /\ owed' = [k \in D |-> owed[k]] /\ recycles < MaxRecycles /\ recycles' = recycles + 1
      /\ UNCHANGED <<store, requests>>
  BY DEF Recycle
<1>3. /\ mem' \in [Instances -> Memories] /\ file' \in [Instances -> Shelves]
      /\ left' \in [Instances -> Shelves] /\ job' \in [Instances -> Jobs]
      /\ file'[i] = NoFile /\ left'[i] = NoFile /\ job'[i] = Idle
      /\ \A x \in Instances \ {i} :
            mem'[x] = mem[x] /\ file'[x] = file[x] /\ left'[x] = left[x] /\ job'[x] = job[x]
  BY <1>1, <1>2, BlankTypes DEF Types
<1>4. /\ underway' \in [Instances -> SUBSET Writes] /\ \A x \in Instances : FewWrites(underway'[x])
      /\ underway'[i] = {} /\ \A x \in Instances \ {i} : underway'[x] = underway[x]
  <2>1. FewWrites({})
    BY FS_EmptySet, EdgeMarketConstants DEF FewWrites
  <2>2. QED
    BY <1>1, <1>2, <2>1 DEF Types
<1>5. owed' \in Dues
  <2>1. DOMAIN owed \subseteq Keys /\ owed \in [DOMAIN owed -> DueRecords]
    BY <1>1, DuesHold DEF Types
  <2>2. owed' \in [D -> DueRecords] /\ D \subseteq Keys
    BY <1>2, <2>1
  <2> HIDE DEF D
  <2>3. QED
    BY <2>2, IsDues
<1>6. recycles' \in 0..MaxRecycles
  BY <1>1, <1>2, EdgeMarketConstants DEF Types
<1>7. Types'
  BY <1>1, <1>2, <1>3, <1>5, <1>6, <1>4 DEF Types
<1>8. Apart(i)
  BY <1>3, <1>4 DEF Apart
<1>9. Sound(mem'[i], file'[i], left'[i], job'[i], underway'[i])
  BY <1>3, <1>4, BlankTypes DEF Sound, Within, Agree, Idle, NoFile
<1>10. ASSUME NEW k \in DOMAIN owed' PROVE AsBefore(i, k)
  BY <1>2, <1>10 DEF AsBefore
<1>11. QED
  BY <1>7, <1>8, <1>9, <1>10, OneInstance

\* One write fewer under way, or another in its place.
LEMMA FewerWrites ==
    ASSUME NEW L, FewWrites(L), NEW w \in L, NEW x \in Writes
    PROVE  FewWrites(L \ {w}) /\ FewWrites((L \ {w}) \cup {x})
<1> DEFINE S == L \ {w}
<1>1. L \subseteq Writes /\ IsFiniteSet(L) /\ Cardinality(L) <= MaxLate /\ MaxLate \in Nat
  BY EdgeMarketConstants DEF FewWrites
<1>2. S \subseteq Writes /\ IsFiniteSet(S) /\ Cardinality(S) = Cardinality(L) - 1
  BY <1>1, FS_RemoveElement
<1>3. Cardinality(L) \in Nat /\ Cardinality(S) \in Nat
  BY <1>1, <1>2, FS_CardinalityType
<1> HIDE DEF S
<1>4. IsFiniteSet(S \cup {x}) /\ Cardinality(S \cup {x}) <= Cardinality(S) + 1
  <2>1. /\ IsFiniteSet(S \cup {x})
        /\ Cardinality(S \cup {x}) = IF x \in S THEN Cardinality(S) ELSE Cardinality(S) + 1
    BY <1>2, FS_AddElement
  <2>2. QED
    BY <1>3, <2>1
<1>5. Cardinality(S \cup {x}) \in Nat
  BY <1>4, FS_CardinalityType
<1>6. Cardinality(S) <= MaxLate /\ Cardinality(S \cup {x}) <= MaxLate
  BY <1>1, <1>2, <1>3, <1>4, <1>5
<1>7. QED
  BY <1>2, <1>4, <1>6 DEF FewWrites, S

\* A write nobody waits for that gets to its row: the instance is as it was, and
\* what is owed of that row it now holds, or it is not owed any more.
LEMMA LandsKeeps ==
    ASSUME IInv, NEW i \in Instances, NEW w \in underway[i], Lands(i, w) PROVE IInv'
<1> DEFINE r == w.row
           back == [w EXCEPT !.back = TRUE]
           k == <<r.a, r.h>>
           L == (underway[i] \ {w}) \cup {back}
<1>1. Types /\ Sound(mem[i], file[i], left[i], job[i], underway[i]) /\ FewWrites(underway[i])
  BY DEF IInv, Types
<1>2. w \in Writes /\ r \in RowRecords
  BY <1>1 DEF FewWrites, Writes
<1>3. back \in Writes /\ back.row = r
  BY <1>2 DEF Writes
<1>4. /\ r.of \in {"prop", "bal"} /\ r.a \in Assets /\ k \in Keys /\ r.p \in PropRecords /\ r.n \in Nat
  BY <1>2 DEF RowRecords, Keys
<1>5. /\ underway' = [underway EXCEPT ![i] = L] /\ UNCHANGED <<mem, file, job, left, requests, recycles>>
      /\ \/ /\ store' = RowPut(store, r)
            /\ owed' = IF r.of = "prop" THEN owed ELSE StillOwed(Only(k, r.n))
         \/ UNCHANGED <<store, owed>>
  BY DEF Lands, bounds
<1> HIDE DEF back
<1>6. FewWrites(L)
  BY <1>1, <1>3, FewerWrites
<1>7. \A y \in L : \E z \in underway[i] : y.row = z.row
  BY <1>3
<1> HIDE DEF L
<1>8. /\ underway' \in [Instances -> SUBSET Writes] /\ \A y \in Instances : FewWrites(underway'[y])
      /\ underway'[i] = L /\ \A y \in Instances \ {i} : underway'[y] = underway[y]
  BY <1>1, <1>5, <1>6 DEF Types, FewWrites
<1>9. Apart(i)
  BY <1>5, <1>8 DEF Apart
<1>10. Sound(mem[i], file[i], left[i], job[i], L)
  BY <1>1, <1>7 DEF Sound, Agree
<1>11. Sound(mem'[i], file'[i], left'[i], job'[i], underway'[i])
  BY <1>5, <1>8, <1>10
\* What is owed and stays owed fits the rows afterwards.
<1>12. ASSUME NEW y \in DOMAIN owed', y \in DOMAIN owed, owed'[y] = owed[y],
              Held(store'.bal, y) = Held(store.bal, y) \/ Held(store'.bal, y) = owed[y].n
       PROVE  AsBefore(i, y) \/ FitsNow(y)
  <2> DEFINE o == owed[y]
  <2>1. CASE o.by # i
    BY <1>12, <2>1 DEF AsBefore
  <2>2. CASE o.by = i
    <3>1. Fits(o, y, mem[i], job[i], underway[i], Held(store.bal, y))
      BY <1>12, <2>2 DEF IInv
    <3>2. Fits(o, y, mem[i], job[i], underway[i], Held(store'.bal, y))
      BY <1>12, <3>1, StillFits
    <3> HIDE DEF o
    <3>3. Fits(o, y, mem[i], job[i], L, Held(store'.bal, y))
      BY <1>7, <3>2 DEF Fits
    <3>4. owed'[y] = o /\ mem'[i] = mem[i] /\ job'[i] = job[i] /\ underway'[i] = L
      BY <1>5, <1>8, <1>12 DEF o
    <3>5. QED
      BY <2>2, <3>3, <3>4 DEF FitsNow
  <2>3. QED
    BY <2>1, <2>2
<1> DEFINE Fine == store' \in Shelves /\ owed' \in Dues /\ \A y \in DOMAIN owed' :
                       /\ y \in DOMAIN owed /\ owed'[y] = owed[y]
                       /\ Held(store'.bal, y) = Held(store.bal, y) \/ Held(store'.bal, y) = owed[y].n
<1>13. store \in Shelves /\ store.bal \in Holdings /\ owed \in Dues
  BY <1>1 DEF Types, Shelves
<1>14. ASSUME UNCHANGED <<store, owed>> PROVE Fine
  BY <1>13, <1>14
<1>15. ASSUME store' = RowPut(store, r), r.of = "prop", owed' = owed PROVE Fine
  <2>1. store' = [store EXCEPT !.prop[r.a] = r.p]
    BY <1>15 DEF RowPut
  <2>2. store' \in Shelves /\ store'.bal = store.bal
    BY <1>4, <1>13, <2>1 DEF Shelves
  <2>3. QED
    BY <1>13, <1>15, <2>2
<1>16. ASSUME store' = RowPut(store, r), r.of # "prop", owed' = StillOwed(Only(k, r.n)) PROVE Fine
  <2> HIDE DEF r, k
  <2> DEFINE c == Only(k, r.n)
             bal == Over(c, store.bal)
  <2>1. c \in Holdings /\ DOMAIN c = {k} /\ c[k] = r.n
    BY <1>4, OneHolding
  <2>2. bal \in Holdings
    BY <1>13, <2>1, OverHoldings
  <2>3. \A y : Held(bal, y) = IF y = k THEN r.n ELSE Held(store.bal, y)
    BY <2>1 DEF Over, Held
  <2>4. store' = [store EXCEPT !.bal = bal]
    BY <1>16 DEF RowPut, k
  <2> HIDE DEF bal
  <2>5. store' \in Shelves /\ store'.bal = bal
    BY <1>13, <2>2, <2>4 DEF Shelves
  <2>6. /\ owed' \in Dues /\ DOMAIN owed' \subseteq DOMAIN owed
        /\ \A y \in DOMAIN owed' : owed'[y] = owed[y] /\ (y \in DOMAIN c => c[y] = owed[y].n)
    BY <1>13, <1>16, StillOwedHolds
  <2> HIDE DEF c
  <2>7. QED
    BY <2>1, <2>3, <2>5, <2>6
<1>17. Fine
  BY <1>5, <1>14, <1>15, <1>16
<1>18. Types'
  BY <1>1, <1>5, <1>8, <1>17 DEF Types
<1>19. \A y \in DOMAIN owed' : AsBefore(i, y) \/ FitsNow(y)
  BY <1>12, <1>17
<1> HIDE DEF Fine
<1>20. QED
  BY <1>9, <1>11, <1>18, <1>19, OneInstance

\* A write that returns puts its row into the instance's file and memory: what the
\* instance left, and what it owes, it leaves as it is.
LEMMA PutHolds ==
    ASSUME NEW m, NEW r \in RowRecords, m.prop \in [Assets -> PropRecords], m.bal \in Holdings,
           NEW c, c = RowPut(m, r),
           m \in Memories \/ m \in Shelves
    PROVE  /\ m \in Memories => c \in Memories
           /\ m \in Shelves => c \in Shelves
           /\ DOMAIN m.bal \subseteq DOMAIN c.bal
           /\ \A k \in DOMAIN m.bal : c.bal[k] = m.bal[k] \/ (r.of = "bal" /\ <<r.a, r.h>> = k /\ c.bal[k] = r.n)
           /\ \A a \in Assets : c.prop[a] = m.prop[a] \/ (r.of = "prop" /\ r.a = a /\ c.prop[a] = r.p)
<1>1. /\ r.of \in {"prop", "bal"} /\ r.a \in Assets /\ <<r.a, r.h>> \in Keys
      /\ r.p \in PropRecords /\ r.n \in Nat
  BY DEF RowRecords, Keys
<1>2. CASE r.of = "prop"
  <2>1. c = [m EXCEPT !.prop[r.a] = r.p]
    BY <1>2 DEF RowPut
  <2>2. QED
    BY <1>1, <1>2, <2>1 DEF Memories, Shelves
<1>3. CASE r.of = "bal"
  <2> DEFINE k == <<r.a, r.h>>
             one == Only(k, r.n)
             b == Over(one, m.bal)
  <2>1. k \in Keys /\ r.n \in Nat
    BY <1>1
  <2> HIDE DEF k
  <2>2. one \in Holdings /\ DOMAIN one = {k} /\ one[k] = r.n
    BY <2>1, OneHolding
  <2>3. b \in Holdings
    BY <2>2, OverHoldings
  <2>4. /\ DOMAIN m.bal \subseteq DOMAIN b
        /\ \A y \in DOMAIN m.bal : b[y] = IF y = k THEN r.n ELSE m.bal[y]
    BY <2>2 DEF Over
  <2>5. c = [m EXCEPT !.bal = b]
    BY <1>3 DEF RowPut, k
  <2> HIDE DEF b, one
  <2>6. /\ m \in Memories => c \in Memories
        /\ m \in Shelves => c \in Shelves
        /\ c.bal = b /\ c.prop = m.prop
    BY <2>3, <2>5 DEF Memories, Shelves
  <2>7. QED
    BY <1>3, <2>4, <2>6 DEF k
<1>4. QED
  BY <1>1, <1>2, <1>3

LEMMA ReturnsKeeps ==
    ASSUME IInv, NEW i \in Instances, NEW w \in underway[i], Returns(i, w) PROVE IInv'
<1> DEFINE r == w.row
           L == underway[i] \ {w}
           m == RowPut(mem[i], r)
           f == RowPut(file[i], r)
<1>1. /\ Types /\ Sound(mem[i], file[i], left[i], job[i], underway[i]) /\ FewWrites(underway[i])
      /\ mem[i] \in Memories /\ file[i] \in Shelves /\ left[i] \in Shelves
  BY DEF IInv, Types
<1>2. w \in Writes /\ r \in RowRecords
  BY <1>1 DEF FewWrites, Writes
<1>3. /\ underway' = [underway EXCEPT ![i] = L] /\ mem' = [mem EXCEPT ![i] = m]
      /\ file' = [file EXCEPT ![i] = f] /\ UNCHANGED <<store, job, left, owed, requests, recycles>>
  BY DEF Returns, bounds
<1>4. FewWrites(L) /\ L \subseteq underway[i]
  BY <1>1, <1>2, FewerWrites
<1>5. mem[i].prop \in [Assets -> PropRecords] /\ mem[i].bal \in Holdings
  BY <1>1 DEF Memories
<1>6. file[i].prop \in [Assets -> PropRecords] /\ file[i].bal \in Holdings
  BY <1>1 DEF Shelves
<1>7. Agrees(left[i], r)
  BY <1>1 DEF Sound, Agree
<1> HIDE DEF r, L
<1>8. /\ m \in Memories /\ DOMAIN mem[i].bal \subseteq DOMAIN m.bal
      /\ \A k \in DOMAIN mem[i].bal :
            m.bal[k] = mem[i].bal[k] \/ (r.of = "bal" /\ <<r.a, r.h>> = k /\ m.bal[k] = r.n)
      /\ \A a \in Assets : m.prop[a] = mem[i].prop[a] \/ (r.of = "prop" /\ r.a = a /\ m.prop[a] = r.p)
  BY <1>1, <1>2, <1>5, PutHolds
<1>9. /\ f \in Shelves /\ DOMAIN file[i].bal \subseteq DOMAIN f.bal
      /\ \A k \in DOMAIN file[i].bal :
            f.bal[k] = file[i].bal[k] \/ (r.of = "bal" /\ <<r.a, r.h>> = k /\ f.bal[k] = r.n)
      /\ \A a \in Assets : f.prop[a] = file[i].prop[a] \/ (r.of = "prop" /\ r.a = a /\ f.prop[a] = r.p)
  BY <1>1, <1>2, <1>6, PutHolds
<1> HIDE DEF m, f
<1>10. Within(left[i], file[i]) => Within(left[i], f)
  BY <1>7, <1>9 DEF Within, Agrees, Says
<1>11. Within(left[i], mem[i]) => Within(left[i], m)
  BY <1>7, <1>8 DEF Within, Agrees, Says
<1>12. Sound(m, f, left[i], job[i], L)
  BY <1>1, <1>4, <1>8, <1>10, <1>11 DEF Sound, Agree
<1>13. /\ underway' \in [Instances -> SUBSET Writes] /\ \A x \in Instances : FewWrites(underway'[x])
       /\ underway'[i] = L /\ \A x \in Instances \ {i} : underway'[x] = underway[x]
  BY <1>1, <1>3, <1>4 DEF Types, FewWrites
<1>14. /\ mem' \in [Instances -> Memories] /\ file' \in [Instances -> Shelves]
       /\ mem'[i] = m /\ file'[i] = f /\ job'[i] = job[i] /\ left'[i] = left[i]
       /\ \A x \in Instances \ {i} : mem'[x] = mem[x] /\ file'[x] = file[x]
  BY <1>1, <1>3, <1>8, <1>9 DEF Types
<1>15. Types'
  BY <1>1, <1>3, <1>13, <1>14 DEF Types
<1>16. Apart(i)
  BY <1>3, <1>13, <1>14 DEF Apart
<1>17. Sound(mem'[i], file'[i], left'[i], job'[i], underway'[i])
  BY <1>12, <1>13, <1>14
<1>18. ASSUME NEW k \in DOMAIN owed' PROVE AsBefore(i, k) \/ FitsNow(k)
  <2> DEFINE o == owed[k]
             h == Held(store.bal, k)
  <2>1. k \in DOMAIN owed /\ owed'[k] = o /\ Held(store'.bal, k) = h
    BY <1>3, <1>18
  <2>2. CASE o.by # i \/ o.due
    BY <2>1, <2>2 DEF AsBefore
  <2>3. CASE o.by = i /\ ~o.due
    <3>1. Fits(o, k, mem[i], job[i], underway[i], h)
      BY <2>1, <2>3 DEF IInv
    <3> HIDE DEF o, h
    <3>2. /\ k \in DOMAIN mem[i].bal /\ mem[i].bal[k] = o.n
          /\ Says(r, k, o.n) /\ \A y \in L : Says(y.row, k, o.n)
      BY <1>4, <2>3, <3>1 DEF Fits, r
    <3>3. k \in DOMAIN m.bal /\ m.bal[k] = o.n
      BY <1>8, <3>2 DEF Says
    <3>4. Fits(o, k, m, job[i], L, h)
      BY <2>3, <3>1, <3>2, <3>3 DEF Fits
    <3>5. QED
      BY <1>13, <1>14, <2>1, <2>3, <3>4 DEF FitsNow
  <2>4. QED
    BY <2>2, <2>3
<1>19. QED
  BY <1>15, <1>16, <1>17, <1>18, OneInstance
-----------------------------------------------------------------------------
(* The handlers *)

LEMMA LoadedTells ==
    ASSUME IInv, NEW i \in Instances, Loaded(i)
    PROVE  NotWaiting(i) /\ Within(left[i], mem[i])
BY DEF Loaded, NotWaiting, IInv, Sound

LEMMA OnType == ASSUME NEW a \in Assets PROVE On(a) \in Reqs /\ On(a).n = 0 /\ On(a).on = a
BY BlankTypes DEF On, Reqs, NoReq

\* A listing of an instance, and what it knows of its holdings.
LEMMA PropTypes ==
    ASSUME Types, NEW i \in Instances, NEW a \in Assets
    PROVE  /\ mem[i] \in Memories /\ Prop(i, a) \in PropRecords /\ mem[i].bal \in Holdings
           /\ Prop(i, a).owner \in People /\ Prop(i, a).total \in Nat /\ store \in Shelves
           /\ mem[i].loans \in [Loans -> LoanRecords] /\ mem[i].swaps \in [Swaps -> SwapRecords]
BY DEF Types, Memories, Prop, PropRecords

LEMMA RegisterKeeps ==
    ASSUME IInv, NEW i \in Instances, NEW a \in Assets, NEW o \in People, Register(i, a, o) PROVE IInv'
<1> DEFINE p == [NoProp EXCEPT !.st = "DRAFT", !.owner = o]
           m == WithProp(i, a, p)
<1>1. p \in PropRecords
  BY BlankTypes DEF PropRecords
<1>2. m \in Memories
  BY <1>1, WithPropType DEF IInv, Types
<1>3. NotWaiting(i) /\ HandleSaved(i, m, On(a), <<"prop">>)
  BY LoadedTells DEF Register
<1> HIDE DEF m
<1>4. QED
  BY <1>2, <1>3, OnType, SavedKeeps, TodosDiffer

\* Deciding on a listing, freezing and unfreezing it: one record changes.
LEMMA RecordKeeps ==
    ASSUME IInv, NEW i \in Instances, NEW a \in Assets, NEW p \in PropRecords, Loaded(i),
           HandleSaved(i, WithProp(i, a, p), NoReq, <<>>)
    PROVE  IInv'
<1> DEFINE m == WithProp(i, a, p)
<1>1. m \in Memories
  BY WithPropType DEF IInv, Types
<1>2. NotWaiting(i) /\ HandleSaved(i, m, NoReq, <<>>)
  BY LoadedTells
<1>3. NoReq \in Reqs /\ NoReq.n = 0
  BY BlankTypes DEF NoReq
<1> HIDE DEF m
<1>4. QED
  BY <1>1, <1>2, <1>3, SavedKeeps, TodosDiffer

LEMMA DecisionsKeep ==
    ASSUME IInv, NEW i \in Instances, NEW a \in Assets,
           \/ \E d \in {"VALIDATED", "REJECTED"} : Validate(i, a, d)
           \/ Freeze(i, a) \/ Unfreeze(i, a)
    PROVE  IInv'
<1>1. Prop(i, a) \in PropRecords
  BY PropTypes DEF IInv
<1>2. ASSUME NEW d \in {"VALIDATED", "REJECTED"}, Validate(i, a, d) PROVE IInv'
  <2>1. [Prop(i, a) EXCEPT !.val = d] \in PropRecords
    BY <1>1 DEF PropRecords
  <2>2. QED
    BY <1>2, <2>1, RecordKeeps DEF Validate
<1>3. ASSUME Freeze(i, a) PROVE IInv'
  <2>1. [Prop(i, a) EXCEPT !.before = Prop(i, a).st, !.st = "FROZEN"] \in PropRecords
    BY <1>1, <1>3 DEF PropRecords, Freeze
  <2>2. QED
    BY <1>3, <2>1, RecordKeeps DEF Freeze
<1>4. ASSUME Unfreeze(i, a) PROVE IInv'
  <2> DEFINE p == Prop(i, a)
             r == [p EXCEPT !.st = IF p.before = "none" THEN "TOKENIZED" ELSE p.before, !.before = "none"]
  <2>1. r \in PropRecords
    BY <1>1 DEF PropRecords
  <2>2. Loaded(i) /\ HandleSaved(i, WithProp(i, a, r), NoReq, <<>>)
    BY <1>4 DEF Unfreeze
  <2> HIDE DEF r
  <2>3. QED
    BY <2>1, <2>2, RecordKeeps
<1>5. QED
  BY <1>2, <1>3, <1>4

LEMMA MintKeeps ==
    ASSUME IInv, NEW i \in Instances, NEW a \in Assets, NEW o \in People, NEW n \in Amounts,
           Mint(i, a, o, n)
    PROVE  IInv'
<1> DEFINE p == Mintable(i, a, o)
           r == [p EXCEPT !.total = n, !.st = "TOKENIZED"]
           k == <<a, p.owner>>
           m == WithProp(i, a, r)
           b == Over(Only(k, n), m.bal)
           t == <<"seedRailPosition", "saveAll">>
<1>1. Types /\ Prop(i, a) \in PropRecords /\ n \in Nat
  BY PropTypes, EdgeMarketConstants DEF IInv
<1>2. p \in PropRecords /\ r \in PropRecords /\ p.owner \in People
  <2>1. p \in PropRecords
    BY <1>1, BlankTypes DEF Mintable, PropRecords
  <2>2. QED
    BY <1>1, <2>1 DEF PropRecords
<1> HIDE DEF p, r
<1>3. m \in Memories /\ k \in Keys /\ m.bal \in Holdings
  BY <1>1, <1>2, WithPropType DEF Types, Keys, Memories
<1>4. /\ NotWaiting(i)
      /\ \/ HandleInMemory(i, m)
         \/ /\ Become(i, [m EXCEPT !.bal = b]) /\ Unsaved
            /\ Then(i, On(a), t) /\ UNCHANGED <<left, bounds>>
  BY LoadedTells DEF Mint, p, r
<1> HIDE DEF m, k
<1>5. b \in Holdings
  BY <1>1, <1>3, OneHolding, OverHoldings
<1> HIDE DEF b
<1>6. [m EXCEPT !.bal = b] \in Memories
  BY <1>3, <1>5, WithBalType
<1>7. CASE HandleInMemory(i, m)
  BY <1>3, <1>4, <1>7, AnsweredKeeps
<1>8. CASE /\ Become(i, [m EXCEPT !.bal = b]) /\ Unsaved
           /\ Then(i, On(a), t) /\ UNCHANGED <<left, bounds>>
  <2> DEFINE c == [m EXCEPT !.bal = b]
  <2>1. mem' = [mem EXCEPT ![i] = c] /\ c \in Memories
    BY <1>6, <1>8 DEF Become
  <2> HIDE DEF c
  <2>2. On(a) \in Reqs
    BY OnType
  <2>3. QED
    BY <1>4, <1>8, <2>1, <2>2, StartedKeeps
<1>9. QED
  BY <1>4, <1>7, <1>8

LEMMA DeleteKeeps ==
    ASSUME IInv, NEW i \in Instances, NEW a \in Assets, Delete(i, a) PROVE IInv'
<1> DEFINE o == <<a, Prop(i, a).owner>>
           b == mem[i].bal
           S == Of(b, a) \ {o}
           out == SumOf([k \in S |-> b[k]])
           zero == [k \in DOMAIN b |-> IF k \in S THEN 0 ELSE b[k]]
           c == IF out > 0 THEN Over(Only(o, Held(b, o) + out), zero) ELSE zero
           r == [Prop(i, a) EXCEPT !.st = "WITHDRAWN"]
           m == [WithProp(i, a, r) EXCEPT !.bal = c]
<1>1. Types /\ Prop(i, a) \in PropRecords /\ b \in Holdings /\ o \in Keys
  BY PropTypes DEF IInv, Keys
<1>2. r \in PropRecords
  BY <1>1 DEF PropRecords
<1>3. out \in Nat
  <2>1. S \subseteq DOMAIN b
    BY DEF Of
  <2> HIDE DEF b, S
  <2>2. QED
    BY <1>1, <2>1, PartSum
<1>4. NotWaiting(i) /\ HandleSaved(i, m, On(a), <<"prop">>)
  BY LoadedTells DEF Delete
<1> HIDE DEF out, o, S, b
<1>5. zero \in Holdings
  <2>1. b \in [DOMAIN b -> Nat] /\ DOMAIN b \subseteq Keys
    BY <1>1, HoldingsHold
  <2>2. zero \in [DOMAIN b -> Nat]
    BY <2>1
  <2> HIDE DEF zero
  <2>3. QED
    BY <2>1, <2>2, IsHoldings
<1>6. c \in Holdings
  <2> HIDE DEF zero
  <2>1. Held(b, o) + out \in Nat
    BY <1>1, <1>3, HoldingsHold
  <2>2. Only(o, Held(b, o) + out) \in Holdings
    BY <1>1, <2>1, OneHolding
  <2>3. QED
    BY <1>5, <2>2, OverHoldings
<1>7. WithProp(i, a, r) \in Memories
  BY <1>1, <1>2, WithPropType DEF Types
<1> HIDE DEF c, r
<1>8. m \in Memories
  BY <1>6, <1>7, WithBalType
<1> HIDE DEF m
<1>9. QED
  BY <1>4, <1>8, OnType, SavedKeeps, TodosDiffer

\* Moving the tokens, when there are enough that are not pledged.
LEMMA MoveKeeps ==
    ASSUME IInv, NEW i \in Instances, NEW m \in Memories, NEW q \in Reqs, q.n > 0, q.from # q.to,
           Sender(q) \in DOMAIN m.bal, NotWaiting(i), Move(i, m, q)
    PROVE  IInv'
<1> DEFINE b == Moved(m.bal, q.on, q.from, q.to, q.n)
<1>1. /\ q.n \in Nat /\ q.on \in Assets /\ q.from \in People /\ q.to \in People /\ m.bal \in Holdings
      /\ drunixLockedTokens(m, q.asked, q.from) \in Nat
  BY LockedIsNat DEF Reqs, Memories
<1>2. /\ Held(m.bal, <<q.on, q.from>>) = m.bal[<<q.on, q.from>>]
      /\ Held(m.bal, <<q.on, q.from>>) \in Nat
  BY <1>1, HoldingsHold DEF Sender
<1>3. CASE Spendable(m, q) >= q.n
  <2>1. Held(m.bal, <<q.on, q.from>>) >= q.n
    BY <1>1, <1>2, <1>3 DEF Spendable
  <2>2. b \in Holdings /\ {Sender(q), Receiver(q)} \subseteq DOMAIN b
    <3>1. b \in Holdings /\ <<q.on, q.from>> \in DOMAIN b /\ <<q.on, q.to>> \in DOMAIN b
      BY <1>1, <2>1, MovedHoldings
    <3>2. QED
      BY <3>1 DEF Sender, Receiver
  <2> DEFINE c == [m EXCEPT !.bal = b]
  <2>3. HandleSaved(i, c, q, Awaited)
    BY <1>3 DEF Move
  <2> HIDE DEF b
  <2>4. c \in Memories /\ c.bal = b
    BY <2>2, WithBalType
  <2>5. {Sender(q), Receiver(q)} \subseteq DOMAIN c.bal
    BY <2>2, <2>4
  <2> HIDE DEF c
  <2>6. QED
    BY <2>3, <2>4, <2>5, SavedKeeps
<1>4. CASE ~(Spendable(m, q) >= q.n)
  <2>1. HandleInMemory(i, m)
    BY <1>4 DEF Move
  <2>2. QED
    BY <2>1, AnsweredKeeps
<1>5. QED
  BY <1>3, <1>4

\* A transfer, once it is known which listing it works on and what the sender holds.
LEMMA ListingsType ==
    ASSUME Types, NEW i \in Instances, NEW a \in Assets, NEW l \in Listings(i, a)
    PROVE  l.on \in Assets /\ l.p \in PropRecords
<1>1. CASE Prop(i, a) # NoProp
  BY <1>1, PropTypes DEF Listings
<1>2. CASE Prop(i, a) = NoProp /\ l = [on |-> Fixed, p |-> Prop(i, Fixed)]
  <2>1. Fixed \in Assets
    BY EdgeMarketConstants DEF Assets
  <2>2. QED
    BY <1>2, <2>1, PropTypes
<1>3. ASSUME NEW c \in ClientCopies(a),
             l = [on |-> a, p |-> Tokenized(c.owner, IF c.total = 0 THEN Supply ELSE c.total)]
      PROVE  l.on \in Assets /\ l.p \in PropRecords
  <2>1. c \in PropRecords
    BY DEF ClientCopies, Types, Shelves, Memories
  <2>2. c.owner \in People /\ (IF c.total = 0 THEN Supply ELSE c.total) \in Nat
    BY <2>1, EdgeMarketConstants DEF PropRecords
  <2>3. QED
    BY <1>3, <2>2, TokenizedType
<1>4. QED
  BY <1>1, <1>2, <1>3 DEF Listings

\* The memory m, once it knows that the sender of q holds v.
Given(m, q, v) == [m EXCEPT !.bal = Over(Only(Sender(q), v), m.bal)]
LEMMA GivenHolds ==
    ASSUME NEW m \in Memories, NEW q \in Reqs, NEW v \in Nat
    PROVE  /\ Given(m, q, v) \in Memories /\ Sender(q) \in DOMAIN Given(m, q, v).bal
           /\ Given(m, q, v).prop = m.prop /\ Given(m, q, v).loans = m.loans
           /\ \A k \in DOMAIN m.bal \ {Sender(q)} : Held(Given(m, q, v).bal, k) = m.bal[k]
<1> DEFINE b == Over(Only(Sender(q), v), m.bal)
<1>1. Sender(q) \in Keys /\ m.bal \in Holdings
  BY DEF Reqs, Sender, Keys, Memories
<1>2. Only(Sender(q), v) \in Holdings /\ DOMAIN Only(Sender(q), v) = {Sender(q)}
  BY <1>1, OneHolding
<1>3. b \in Holdings
  BY <1>1, <1>2, OverHoldings
<1>4. Sender(q) \in DOMAIN b /\ \A k \in DOMAIN m.bal \ {Sender(q)} : Held(b, k) = m.bal[k]
  BY <1>2 DEF Over, Held
<1>5. Given(m, q, v) = [m EXCEPT !.bal = b]
  BY DEF Given
<1> HIDE DEF b
<1>6. /\ Given(m, q, v) \in Memories /\ Given(m, q, v).bal = b
      /\ Given(m, q, v).prop = m.prop /\ Given(m, q, v).loans = m.loans
  BY <1>3, <1>5, WithBalType
<1>7. QED
  BY <1>4, <1>6

\* What a transfer comes down to: m is the memory once the listing is known, and v
\* what the sender is taken to hold if m has no record of it.
Moves(i, m, q, v) ==
    /\ q.n > 0 /\ q.from # q.to /\ m.bal = mem[i].bal /\ m.loans = mem[i].loans
    /\ \/ HandleInMemory(i, m)
       \/ /\ m.prop[q.on].st = "TOKENIZED"
          /\ \/ Sender(q) \in DOMAIN m.bal /\ Move(i, m, q)
             \/ Sender(q) \notin DOMAIN m.bal /\ Move(i, Given(m, q, v), q)
             \/ /\ Sender(q) \notin DOMAIN m.bal
                /\ Become(i, Given(m, q, v)) /\ WriteRow(i, Sender(q), v)
                /\ Then(i, q, <<"move">>) /\ UNCHANGED <<underway, left, bounds>>
LEMMA TransferMoves ==
    ASSUME Types, NEW i \in Instances, NEW a \in Assets, NEW from \in People, NEW to \in People,
           NEW n \in Amounts, Transfer(i, a, from, to, n)
    PROVE  \E m \in Memories, q \in Reqs, v \in Nat : Moves(i, m, q, v)
<1>1. from # to /\ n \in Nat /\ n > 0
  BY EdgeMarketConstants DEF Transfer
<1>2. PICK l \in Listings(i, a) :
        LET q == [asked |-> a, on |-> l.on, from |-> from, to |-> to, n |-> n]
            m == WithProp(i, l.on, l.p)
            k == <<l.on, from>>
            alias == <<a, from>>
            room == supplyHeadroom(m.bal, l.on, from, l.p.total)
            Known(v) == [m EXCEPT !.bal = Over(Only(k, v), @)]
        IN  IF l.p.st # "TOKENIZED" THEN HandleInMemory(i, m)
            ELSE IF k \in DOMAIN m.bal THEN Move(i, m, q)
            ELSE IF alias \in DOMAIN m.bal THEN Move(i, Known(m.bal[alias]), q)
            ELSE \/ \E told \in Amounts :
                       LET v == Min({told, room})
                       IN  IF v < n THEN HandleInMemory(i, m)
                           ELSE /\ Become(i, Known(v)) /\ owed' = StillOwed(Only(k, v))
                                /\ store' = [store EXCEPT !.bal = Over(Only(k, v), @)]
                                /\ file' = [file EXCEPT ![i].bal = Over(Only(k, v), @)]
                                /\ Then(i, q, <<"move">>) /\ UNCHANGED <<underway, left, bounds>>
                 \/ /\ from \in {l.p.owner, Originator} \/ l.p.loose
                    /\ Move(i, Known(room), q)
                 \/ /\ from \notin {l.p.owner, Originator} /\ ~l.p.loose
                    /\ LET v == IF k \in DOMAIN store.bal THEN store.bal[k] ELSE Held(store.bal, alias)
                       IN  IF v >= n THEN Move(i, Known(v), q) ELSE HandleInMemory(i, m)
  BY DEF Transfer
<1> DEFINE q == [asked |-> a, on |-> l.on, from |-> from, to |-> to, n |-> n]
           m == WithProp(i, l.on, l.p)
           k == Sender(q)
           alias == <<a, from>>
           room == supplyHeadroom(m.bal, l.on, from, l.p.total)
           row == IF k \in DOMAIN store.bal THEN store.bal[k] ELSE Held(store.bal, alias)
           Shown(v) == /\ Become(i, Given(m, q, v)) /\ WriteRow(i, k, v)
                       /\ Then(i, q, <<"move">>) /\ UNCHANGED <<underway, left, bounds>>
<1>3. l.on \in Assets /\ l.p \in PropRecords /\ l.p.total \in Nat
  BY ListingsType DEF PropRecords
<1>4. /\ q \in Reqs /\ q.n = n /\ q.from = from /\ q.to = to /\ q.on = l.on
      /\ k = <<l.on, from>>
  BY <1>1, <1>3 DEF Reqs, Sender
<1>5. /\ m \in Memories /\ m.prop[l.on] = l.p /\ m.bal = mem[i].bal /\ m.loans = mem[i].loans
      /\ m.bal \in Holdings
  BY <1>3, WithPropType, PropTypes DEF Types
<1>6. room \in Nat /\ row \in Nat
  <2>1. store.bal \in Holdings
    BY DEF Types, Shelves
  <2>2. room \in Nat
    BY <1>3, <1>5, HeadroomIsNat
  <2>3. row \in Nat
    BY <2>1, HoldingsHold
  <2>4. QED
    BY <2>2, <2>3
<1>7. \/ HandleInMemory(i, m)
      \/ l.p.st = "TOKENIZED" /\ k \in DOMAIN m.bal /\ Move(i, m, q)
      \/ /\ l.p.st = "TOKENIZED" /\ k \notin DOMAIN m.bal
         /\ \/ alias \in DOMAIN m.bal /\ Move(i, Given(m, q, m.bal[alias]), q)
            \/ \E told \in Amounts : Shown(Min({told, room}))
            \/ Move(i, Given(m, q, room), q)
            \/ Move(i, Given(m, q, row), q)
  BY <1>2, <1>4, Zenon DEF WriteRow, Given
<1> HIDE DEF m, k, alias, room, row, Shown
<1>8. CASE HandleInMemory(i, m) \/ (l.p.st = "TOKENIZED" /\ k \in DOMAIN m.bal /\ Move(i, m, q))
  <2>1. Moves(i, m, q, 0)
    BY <1>1, <1>4, <1>5, <1>8 DEF Moves, k
  <2>2. QED
    BY <1>4, <1>5, <2>1
<1>9. ASSUME l.p.st = "TOKENIZED", k \notin DOMAIN m.bal, NEW v \in Nat, Move(i, Given(m, q, v), q) \/ Shown(v)
      PROVE  \E mm \in Memories, qq \in Reqs, vv \in Nat : Moves(i, mm, qq, vv)
  <2> HIDE DEF q
  <2>1. Moves(i, m, q, v)
    BY <1>1, <1>4, <1>5, <1>9 DEF Moves, k, Shown
  <2>2. QED
    BY <1>4, <1>5, <2>1
<1>10. ASSUME NEW told \in Amounts PROVE Min({told, room}) \in Nat
  <2>1. told \in Nat
    BY EdgeMarketConstants
  <2>2. QED
    BY <1>6, <2>1, MinOfTwo
<1>11. alias \in DOMAIN m.bal => m.bal[alias] \in Nat
  BY <1>5, HoldingsHold
<1> HIDE DEF q
<1>12. QED
  BY <1>6, <1>7, <1>8, <1>9, <1>10, <1>11

LEMMA TransferKeeps ==
    ASSUME IInv, NEW i \in Instances, NEW a \in Assets, NEW from \in People, NEW to \in People,
           NEW n \in Amounts, Transfer(i, a, from, to, n)
    PROVE  IInv'
<1>1. Types /\ NotWaiting(i) /\ Within(left[i], mem[i])
  BY LoadedTells DEF IInv, Transfer
<1>2. PICK m \in Memories, q \in Reqs, v \in Nat : Moves(i, m, q, v)
  BY <1>1, TransferMoves
<1>3. q.n > 0 /\ q.from # q.to /\ DOMAIN left[i].bal \subseteq DOMAIN m.bal
  BY <1>1, <1>2 DEF Moves, Within
<1> DEFINE c == Given(m, q, v)
<1>4. c \in Memories /\ Sender(q) \in DOMAIN c.bal /\ c.prop = m.prop
  BY GivenHolds
<1>5. \/ HandleInMemory(i, m)
      \/ Sender(q) \in DOMAIN m.bal /\ Move(i, m, q)
      \/ Move(i, c, q)
      \/ /\ m.prop[q.on].st = "TOKENIZED" /\ Sender(q) \notin DOMAIN m.bal
         /\ Become(i, c) /\ WriteRow(i, Sender(q), v) /\ Then(i, q, <<"move">>)
         /\ UNCHANGED <<underway, left, bounds>>
  BY <1>2 DEF Moves
<1> HIDE DEF c
<1>6. CASE HandleInMemory(i, m)
  BY <1>1, <1>6, AnsweredKeeps
<1>7. CASE Sender(q) \in DOMAIN m.bal /\ Move(i, m, q)
  BY <1>1, <1>3, <1>7, MoveKeeps
<1>8. CASE Move(i, c, q)
  BY <1>1, <1>3, <1>4, <1>8, MoveKeeps
<1>9. CASE /\ m.prop[q.on].st = "TOKENIZED" /\ Sender(q) \notin DOMAIN m.bal
           /\ Become(i, c) /\ WriteRow(i, Sender(q), v) /\ Then(i, q, <<"move">>)
           /\ UNCHANGED <<underway, left, bounds>>
  <2>1. Sender(q) \notin DOMAIN left[i].bal /\ c.prop[q.on].st = "TOKENIZED"
    BY <1>3, <1>4, <1>9
  <2>2. UNCHANGED <<underway, left, bounds>>
    BY <1>9
  <2>3. QED
    BY <1>1, <1>3, <1>4, <1>9, <2>1, <2>2, ShownKeeps
<1>10. QED
  BY <1>5, <1>6, <1>7, <1>8, <1>9

LEMMA LoanType ==
    ASSUME NEW m \in Memories, NEW l \in Loans, NEW r \in LoanRecords
    PROVE  [m EXCEPT !.loans[l] = r] \in Memories
BY DEF Memories

LEMMA SwapType ==
    ASSUME NEW m \in Memories, NEW w \in Swaps, NEW s \in SwapRecords
    PROVE  [m EXCEPT !.swaps[w] = s] \in Memories
BY DEF Memories

LEMMA PledgesKeep ==
    ASSUME IInv, NEW i \in Instances, NEW l \in Loans,
           \/ \E a \in Assets, h \in People, n \in Amounts : Pledge(i, l, h, a, n)
           \/ Repay(i, l)
    PROVE  IInv'
<1>1. mem[i] \in Memories /\ mem[i].loans[l] \in LoanRecords
  BY DEF IInv, Types, Memories
<1>2. ASSUME NEW a \in Assets, NEW h \in People, NEW n \in Amounts, Pledge(i, l, h, a, n) PROVE IInv'
  <2> DEFINE r == [st |-> "ACTIVE", by |-> h, asset |-> a, n |-> n]
             m == [mem[i] EXCEPT !.loans[l] = r]
  <2>1. r \in LoanRecords
    BY EdgeMarketConstants DEF LoanRecords
  <2>2. NotWaiting(i) /\ HandleInMemory(i, m)
    BY <1>2, LoadedTells DEF Pledge
  <2> HIDE DEF r
  <2>3. m \in Memories
    BY <1>1, <2>1, LoanType
  <2> HIDE DEF m
  <2>4. QED
    BY <2>2, <2>3, AnsweredKeeps
<1>3. ASSUME Repay(i, l) PROVE IInv'
  <2> DEFINE r == [mem[i].loans[l] EXCEPT !.st = "REPAID"]
             m == [mem[i] EXCEPT !.loans[l] = r]
  <2>1. r \in LoanRecords
    BY <1>1 DEF LoanRecords
  <2>2. [mem[i] EXCEPT !.loans[l].st = "REPAID"] = m
    BY <1>1 DEF Memories
  <2>3. NotWaiting(i) /\ HandleInMemory(i, m)
    BY <1>3, <2>2, LoadedTells DEF Repay
  <2> HIDE DEF r
  <2>4. m \in Memories
    BY <1>1, <2>1, LoanType
  <2> HIDE DEF m
  <2>5. QED
    BY <2>3, <2>4, AnsweredKeeps
<1>4. QED
  BY <1>2, <1>3

LEMMA SwapFields ==
    ASSUME NEW s \in SwapRecords
    PROVE  /\ s.from \in People /\ s.to \in People /\ s.give \in Assets /\ s.get \in Assets
           /\ s.gt \in Nat /\ s.rt \in Nat
           /\ s.st = "PROPOSED" => s.from # s.to /\ s.give # s.get
           /\ \A st \in {"SETTLED", "CANCELLED"} : [s EXCEPT !.st = st] \in SwapRecords
<1>1. s \in [st : {"none", "PROPOSED", "SETTLED", "CANCELLED"}, from : People, to : People,
             give : Assets, gt : Nat, get : Assets, rt : Nat]
  BY DEF SwapRecords
<1>2. s.st = "PROPOSED" => s.from # s.to /\ s.give # s.get
  BY DEF SwapRecords
<1>3. ASSUME NEW st \in {"SETTLED", "CANCELLED"} PROVE [s EXCEPT !.st = st] \in SwapRecords
  <2>1. /\ [s EXCEPT !.st = st].st # "PROPOSED"
        /\ [s EXCEPT !.st = st] \in
             [st : {"none", "PROPOSED", "SETTLED", "CANCELLED"}, from : People, to : People,
              give : Assets, gt : Nat, get : Assets, rt : Nat]
    BY <1>1
  <2>2. QED
    BY <2>1 DEF SwapRecords
<1>4. QED
  BY <1>1, <1>2, <1>3

\* What a swap that is still covered does to the holdings.
Swapped(b, s) == Moved(Moved(b, s.give, s.from, s.to, s.gt), s.get, s.to, s.from, s.rt)
LEMMA SwappedHeld ==
    ASSUME NEW b, NEW s, s.from # s.to, s.give # s.get, NEW k
    PROVE  Held(Swapped(b, s), k) =
               IF k = <<s.give, s.from>> THEN Held(b, k) - s.gt
               ELSE IF k = <<s.get, s.to>> THEN Held(b, k) - s.rt
               ELSE IF k = <<s.give, s.to>> THEN Held(b, k) + s.gt
               ELSE IF k = <<s.get, s.from>> THEN Held(b, k) + s.rt
               ELSE Held(b, k)
<1> DEFINE c == Moved(b, s.give, s.from, s.to, s.gt)
<1>1. Held(c, k) = IF k = <<s.give, s.from>> THEN Held(b, k) - s.gt
                   ELSE IF k = <<s.give, s.to>> THEN Held(b, k) + s.gt ELSE Held(b, k)
  BY MovedHeld
<1>2. Swapped(b, s) = Moved(c, s.get, s.to, s.from, s.rt)
  BY DEF Swapped
<1> HIDE DEF c
<1>3. Held(Moved(c, s.get, s.to, s.from, s.rt), k) =
          IF k = <<s.get, s.to>> THEN Held(c, k) - s.rt
          ELSE IF k = <<s.get, s.from>> THEN Held(c, k) + s.rt ELSE Held(c, k)
  BY MovedHeld
<1>4. QED
  BY <1>1, <1>2, <1>3

LEMMA SwappedHoldings ==
    ASSUME NEW m \in Memories, NEW s \in SwapRecords, s.st = "PROPOSED", Swappable(m, s)
    PROVE  Swapped(m.bal, s) \in Holdings
<1> DEFINE b == m.bal
           c == Moved(b, s.give, s.from, s.to, s.gt)
           k1 == <<s.give, s.from>>
           k2 == <<s.get, s.to>>
<1>1. /\ s.from \in People /\ s.to \in People /\ s.give \in Assets /\ s.get \in Assets
      /\ s.gt \in Nat /\ s.rt \in Nat /\ s.from # s.to /\ s.give # s.get /\ b \in Holdings
  BY SwapFields DEF Memories
<1>2. Held(b, k1) >= s.gt /\ Held(b, k2) >= s.rt
  <2>1. drunixLockedTokens(m, s.give, s.from) \in Nat /\ drunixLockedTokens(m, s.get, s.to) \in Nat
    BY LockedIsNat
  <2>2. /\ k1 \in DOMAIN b /\ b[k1] >= s.gt + drunixLockedTokens(m, s.give, s.from)
        /\ k2 \in DOMAIN b /\ b[k2] >= s.rt + drunixLockedTokens(m, s.get, s.to)
    BY DEF Swappable, Covers
  <2> HIDE DEF b, k1, k2
  <2>3. Held(b, k1) = b[k1] /\ Held(b, k2) = b[k2] /\ b[k1] \in Nat /\ b[k2] \in Nat
    BY <1>1, <2>2, HoldingsHold
  <2>4. QED
    BY <1>1, <2>1, <2>2, <2>3
<1> HIDE DEF b
<1>3. c \in Holdings
  BY <1>1, <1>2, MovedHoldings
<1>4. Held(c, k2) = Held(b, k2)
  <2>1. k2 # <<s.give, s.from>> /\ k2 # <<s.give, s.to>>
    BY <1>1
  <2> HIDE DEF k2
  <2>2. QED
    BY <1>1, <2>1, MovedHeld
<1> HIDE DEF c
<1>5. Moved(c, s.get, s.to, s.from, s.rt) \in Holdings
  BY <1>1, <1>2, <1>3, <1>4, MovedHoldings
<1>6. QED
  BY <1>5 DEF Swapped, c, b

LEMMA SwapsKeep ==
    ASSUME IInv, NEW i \in Instances, NEW w \in Swaps,
           \/ \E a, b \in Assets : \E s \in Offers(a, b) : Propose(i, w, s)
           \/ Accept(i, w) \/ Cancel(i, w)
    PROVE  IInv'
<1>1. mem[i] \in Memories /\ mem[i].swaps[w] \in SwapRecords /\ mem[i].swaps \in [Swaps -> SwapRecords]
  BY DEF IInv, Types, Memories
<1>2. ASSUME NEW a \in Assets, NEW b \in Assets, NEW s \in Offers(a, b), Propose(i, w, s) PROVE IInv'
  <2> DEFINE m == [mem[i] EXCEPT !.swaps[w] = s]
  <2>1. /\ s.from # s.to /\ s.give # s.get
        /\ s \in [st : {"none", "PROPOSED", "SETTLED", "CANCELLED"}, from : People, to : People,
                  give : Assets, gt : Nat, get : Assets, rt : Nat]
    BY <1>2, EdgeMarketConstants DEF Propose, Offers
  <2>2. s \in SwapRecords
    BY <2>1 DEF SwapRecords
  <2>3. m \in Memories
    BY <1>1, <2>2, SwapType
  <2>4. NotWaiting(i) /\ HandleInMemory(i, m)
    BY <1>2, LoadedTells DEF Propose
  <2> HIDE DEF m
  <2>5. QED
    BY <2>3, <2>4, AnsweredKeeps
<1>3. ASSUME Accept(i, w) PROVE IInv'
  <2> DEFINE s == mem[i].swaps[w]
             r == [s EXCEPT !.st = "SETTLED"]
             b == Swapped(mem[i].bal, s)
             m1 == [mem[i] EXCEPT !.swaps[w] = r]
             m == [m1 EXCEPT !.bal = b]
  <2>1. Loaded(i) /\ s.st = "PROPOSED" /\ Swappable(mem[i], s)
    BY <1>3 DEF Accept, StillSwappable
  <2>2. [mem[i] EXCEPT !.bal = Moved(Moved(@, s.give, s.from, s.to, s.gt), s.get, s.to, s.from, s.rt),
                       !.swaps[w].st = "SETTLED"] = m
    BY <1>1 DEF Memories, Swapped
  <2>3. NotWaiting(i) /\ HandleSaved(i, m, NoReq, <<>>)
    BY <1>3, <2>1, <2>2, LoadedTells DEF Accept
  <2>4. r \in SwapRecords
    BY <1>1, SwapFields
  <2>5. b \in Holdings
    BY <1>1, <2>1, SwappedHoldings
  <2> HIDE DEF b, r
  <2>6. m1 \in Memories
    BY <1>1, <2>4, SwapType
  <2> HIDE DEF m1
  <2>7. m \in Memories
    BY <2>5, <2>6, WithBalType
  <2>8. NoReq \in Reqs /\ NoReq.n = 0
    BY BlankTypes DEF NoReq
  <2> HIDE DEF m
  <2>9. QED
    BY <2>3, <2>7, <2>8, SavedKeeps, TodosDiffer
<1>4. ASSUME Cancel(i, w) PROVE IInv'
  <2> DEFINE r == [mem[i].swaps[w] EXCEPT !.st = "CANCELLED"]
             m == [mem[i] EXCEPT !.swaps[w] = r]
  <2>1. r \in SwapRecords
    BY <1>1, SwapFields
  <2>2. [mem[i] EXCEPT !.swaps[w].st = "CANCELLED"] = m
    BY <1>1 DEF Memories
  <2>3. NotWaiting(i) /\ HandleInMemory(i, m)
    BY <1>4, <2>2, LoadedTells DEF Cancel
  <2> HIDE DEF r
  <2>4. m \in Memories
    BY <1>1, <2>1, SwapType
  <2> HIDE DEF m
  <2>5. QED
    BY <2>3, <2>4, AnsweredKeeps
<1>5. QED
  BY <1>2, <1>3, <1>4

LEMMA ContinueKeeps ==
    ASSUME IInv, NEW i \in Instances, Continue(i) PROVE IInv'
<1> DEFINE q == job[i].q
           t == job[i].todo
<1>1. /\ Types /\ mem[i] \in Memories /\ q \in Reqs /\ t \in Todos /\ job[i].at = "run"
      /\ Sound(mem[i], file[i], left[i], job[i], underway[i])
  BY DEF IInv, Types, Jobs, Continue
<1>2. t # <<>>
  BY <1>1 DEF Sound
<1>3. NoReq \in Reqs /\ NoReq.n = 0
  BY BlankTypes DEF NoReq
<1>4. ASSUME t = <<"move">> PROVE IInv'
  <2>1. Move(i, mem[i], q) /\ NotWaiting(i)
    BY <1>4, TodoSteps, TodosDiffer DEF Continue, NotWaiting
  <2>2. q.n > 0 /\ q.from # q.to /\ Sender(q) \in DOMAIN mem[i].bal
    BY <1>1, <1>4 DEF Sound
  <2> HIDE DEF q
  <2>3. QED
    BY <1>1, <2>1, <2>2, MoveKeeps
<1>5. ASSUME t = <<"saveAll">> PROVE IInv'
  <2>1. HandleSaved(i, mem[i], NoReq, <<>>) /\ NotWaiting(i)
    BY <1>5, TodoSteps, TodosDiffer DEF Continue, NotWaiting
  <2>2. QED
    BY <1>1, <1>3, <2>1, SavedKeeps, TodosDiffer
<1>6. ASSUME t = <<"seedRailPosition", "saveAll">> PROVE IInv'
  <2>1. /\ Unsaved /\ Then(i, q, <<"saveAll">>) /\ UNCHANGED <<mem, left, bounds>> /\ NotWaiting(i)
    BY <1>6, TodoSteps, TodosDiffer DEF Continue, NotWaiting, Rest
  <2>2. mem' = [mem EXCEPT ![i] = mem[i]]
    BY <1>1, <2>1 DEF Types
  <2>3. UNCHANGED <<left, bounds>>
    BY <2>1
  <2> HIDE DEF q
  <2>4. QED
    BY <1>1, <2>1, <2>2, <2>3, StartedKeeps
<1>7. ASSUME t = Awaited PROVE IInv'
  <2>1. saveBalance(i, Sender(q)) /\ Rest(i) /\ UNCHANGED <<mem, underway, left, bounds>>
    BY <1>7, TodoSteps DEF Continue, Sender
  <2>2. QED
    BY <1>1, <1>7, <2>1, BalanceSavedKeeps
<1>8. ASSUME t = <<"to", "prop">> PROVE IInv'
  <2>1. saveBalance(i, Receiver(q)) /\ Rest(i) /\ UNCHANGED <<mem, underway, left, bounds>>
    BY <1>8, TodoSteps DEF Continue, Receiver
  <2>2. QED
    BY <1>1, <1>8, <2>1, BalanceSavedKeeps
<1>9. ASSUME t = <<"prop">> PROVE IInv'
  <2>1. saveProperty(i, q) /\ Rest(i) /\ UNCHANGED <<mem, underway, left, bounds>>
    BY <1>9, TodoSteps DEF Continue
  <2>2. QED
    BY <1>1, <1>9, <2>1, PropertySavedKeeps
<1>10. QED
  BY <1>1, <1>2, <1>4, <1>5, <1>6, <1>7, <1>8, <1>9 DEF Todos, Waits

LEMMA NextKeeps == IInv /\ [Next]_vars => IInv'
<1> SUFFICES ASSUME IInv, [Next]_vars PROVE IInv'
  OBVIOUS
<1>1. CASE UNCHANGED vars
  BY <1>1 DEF vars, IInv, Types
<1>2. ASSUME NEW i \in Instances, NEW a \in Assets, Listing(i, a) PROVE IInv'
  BY <1>2, RegisterKeeps, DecisionsKeep, MintKeeps, DeleteKeeps DEF Listing
<1>3. ASSUME NEW i \in Instances, NEW a \in Assets, Trading(i, a) PROVE IInv'
  BY <1>3, TransferKeeps, PledgesKeep, SwapsKeep DEF Trading
<1>4. ASSUME NEW i \in Instances, Begin(i) \/ Continue(i) \/ Recycle(i) PROVE IInv'
  BY <1>4, BeginKeeps, ContinueKeeps, RecycleKeeps
<1>5. ASSUME NEW i \in Instances,
             (\E l \in Loans : Repay(i, l)) \/ (\E w \in Swaps : Accept(i, w) \/ Cancel(i, w))
      PROVE  IInv'
  BY <1>5, PledgesKeep, SwapsKeep
<1>6. ASSUME NEW i \in Instances, NEW w \in underway[i], Lands(i, w) \/ Returns(i, w) PROVE IInv'
  BY <1>6, LandsKeeps, ReturnsKeeps
<1>7. QED
  BY <1>1, <1>2, <1>3, <1>4, <1>5, <1>6 DEF Next
-----------------------------------------------------------------------------
(* What the market keeps *)

LEMMA InvImplies == IInv => WritesAreSound /\ TransfersReachTheRows
<1> SUFFICES ASSUME IInv PROVE WritesAreSound /\ TransfersReachTheRows
  OBVIOUS
<1>1. Types
  BY DEF IInv
<1>2. ASSUME NEW b \in Holdings PROVE HoldingsIn(b)
  BY HoldingsHold DEF HoldingsIn, Keys
<1>3. TypeOK
  <2>1. store.bal \in Holdings /\ store.prop \in [Assets -> PropRecords]
    BY <1>1 DEF Types, Shelves
  <2>2. ASSUME NEW i \in Instances
        PROVE  /\ mem[i].bal \in Holdings /\ mem[i].prop \in [Assets -> PropRecords]
               /\ file[i].bal \in Holdings /\ file[i].prop \in [Assets -> PropRecords]
               /\ job[i].at \in {"idle", "loaded", "run"} /\ Cardinality(underway[i]) <= MaxLate
    BY <1>1 DEF Types, Shelves, Memories, Jobs, FewWrites
  <2>3. QED
    BY <1>1, <1>2, <2>1, <2>2 DEF TypeOK, Types
<1>4. WritesAreKept
  BY DEF WritesAreKept, Loaded, IInv, Sound, Within, Held
<1>5. TransfersReachTheRows
  BY DEF TransfersReachTheRows, IInv, Fits
<1>6. QED
  BY <1>3, <1>4, <1>5 DEF WritesAreSound

LEMMA AlwaysIInv == Spec => []IInv
BY InitIsSound, NextKeeps, PTL DEF Spec

(* What an instance has answered with success it finds again when it loads for the
   next request, whatever row writes return in between, unless one of the same row
   with another value was under way already; and no copy of the books holds less
   than nothing. *)
THEOREM AnsweredWritesAreFound == Spec => []WritesAreSound
BY AlwaysIInv, InvImplies, PTL

(* What an answered transfer left of both parties is in the rows, whatever happens
   to its instance, until those rows are written again. *)
THEOREM AnsweredTransfersAreInTheRows == Spec => []TransfersReachTheRows
BY AlwaysIInv, InvImplies, PTL
-----------------------------------------------------------------------------
(* What is pledged stays *)

\* PledgesHold, for one holding of one instance.
HoldsPledge(i, k) ==
    LET p == mem[i].prop[k[1]]
        q == job'[i].q
    IN  job[i].at # "idle" /\ job'[i] # job[i] /\ q.asked = q.on /\ recycles' = recycles
        /\ (q.n > 0 \/ job'[i].at = "idle") /\ mem'[i].prop[k[1]] = p /\ Held(mem'[i].bal, k) < mem[i].bal[k] =>
            /\ job[i].at = "loaded" => p.st = "TOKENIZED"
            /\ Held(mem'[i].bal, k) >= drunixLockedTokens(mem[i], k[1], k[2])
AllHold == \A i \in Instances : \A k \in DOMAIN mem[i].bal : HoldsPledge(i, k)

\* A step of one instance, and a step that takes from nobody.
LEMMA OneHolds ==
    ASSUME Types, NEW i \in Instances, NEW m, mem' = [mem EXCEPT ![i] = m],
           \A k \in DOMAIN mem[i].bal : HoldsPledge(i, k)
    PROVE  AllHold
<1>1. ASSUME NEW x \in Instances, x # i, NEW k \in DOMAIN mem[x].bal PROVE HoldsPledge(x, k)
  <2>1. mem'[x] = mem[x] /\ mem[x].bal \in Holdings
    BY <1>1 DEF Types, Memories
  <2>2. Held(mem[x].bal, k) = mem[x].bal[k] /\ mem[x].bal[k] \in Nat
    BY <2>1, HoldingsHold
  <2>3. QED
    BY <2>1, <2>2 DEF HoldsPledge
<1>2. QED
  BY <1>1 DEF AllHold

LEMMA NobodyLoses ==
    ASSUME Types, NEW i \in Instances, NEW m, mem' = [mem EXCEPT ![i] = m],
           \A k \in DOMAIN mem[i].bal : Held(m.bal, k) = mem[i].bal[k]
    PROVE  AllHold
<1>1. mem'[i] = m /\ mem[i].bal \in Holdings
  BY DEF Types, Memories
<1>2. ASSUME NEW k \in DOMAIN mem[i].bal PROVE HoldsPledge(i, k)
  <2>1. mem[i].bal[k] \in Nat /\ Held(m.bal, k) = mem[i].bal[k]
    BY <1>1, HoldingsHold
  <2>2. QED
    BY <1>1, <2>1 DEF HoldsPledge
<1>3. QED
  BY <1>2, OneHolds

LEMMA SameBooks ==
    ASSUME Types, NEW i \in Instances, NEW m, mem' = [mem EXCEPT ![i] = m], m.bal = mem[i].bal
    PROVE  AllHold
BY NobodyLoses DEF Held

\* A listing's own handlers: none of them counts, or none takes from anybody.
LEMMA ListingHolds ==
    ASSUME Types, NEW i \in Instances, NEW a \in Assets, Listing(i, a) PROVE AllHold
<1>1. ASSUME NEW p, mem' = [mem EXCEPT ![i] = WithProp(i, a, p)] PROVE AllHold
  <2> DEFINE m == WithProp(i, a, p)
  <2>1. m.bal = mem[i].bal
    BY DEF WithProp, Types, Memories
  <2>2. mem' = [mem EXCEPT ![i] = m]
    BY <1>1
  <2> HIDE DEF m
  <2>3. QED
    BY <2>1, <2>2, SameBooks
<1>2. ASSUME NEW m, NEW t \in Todos, t # <<>>, mem' = [mem EXCEPT ![i] = m], Then(i, On(a), t)
      PROVE  AllHold
  <2>1. On(a) \in Reqs /\ On(a).n = 0
    BY OnType
  <2>2. job'[i].at = "run" /\ job'[i].q = On(a)
    BY <1>2, <2>1, ThenJob
  <2>3. \A k \in DOMAIN mem[i].bal : HoldsPledge(i, k)
    BY <2>1, <2>2 DEF HoldsPledge
  <2>4. QED
    BY <1>2, <2>3, OneHolds
<1>3. ASSUME NEW o \in People, Register(i, a, o) PROVE AllHold
  BY <1>1, <1>3 DEF Register, HandleSaved, Become
<1>4. ASSUME NEW d, Validate(i, a, d) PROVE AllHold
  BY <1>1, <1>4 DEF Validate, HandleSaved, Become
<1>5. ASSUME NEW o \in People, NEW n \in Amounts, Mint(i, a, o, n) PROVE AllHold
  <2> DEFINE p == Mintable(i, a, o)
             m == WithProp(i, a, [p EXCEPT !.total = n, !.st = "TOKENIZED"])
             c == [m EXCEPT !.bal = Over(Only(<<a, p.owner>>, n), @)]
  <2>1. CASE HandleInMemory(i, m)
    BY <1>1, <2>1 DEF HandleInMemory, Become
  <2>2. CASE Become(i, c) /\ Then(i, On(a), <<"seedRailPosition", "saveAll">>)
    <3> HIDE DEF c
    <3>1. <<"seedRailPosition", "saveAll">> \in Todos
      BY DEF Todos
    <3>2. QED
      BY <1>2, <2>2, <3>1, TodosDiffer DEF Become
  <2>3. QED
    BY <1>5, <2>1, <2>2 DEF Mint
<1>6. ASSUME Freeze(i, a) PROVE AllHold
  BY <1>1, <1>6 DEF Freeze, HandleSaved, Become
<1>7. ASSUME Unfreeze(i, a) PROVE AllHold
  BY <1>1, <1>7 DEF Unfreeze, HandleSaved, Become
<1>8. ASSUME Delete(i, a) PROVE AllHold
  <2>1. PICK m : HandleSaved(i, m, On(a), <<"prop">>)
    BY <1>8 DEF Delete
  <2>2. mem' = [mem EXCEPT ![i] = m] /\ Then(i, On(a), <<"prop">>)
    BY <2>1 DEF HandleSaved, Become
  <2>3. <<"prop">> \in Todos
    BY DEF Todos, Waits
  <2>4. QED
    BY <1>2, <2>2, <2>3, TodosDiffer
<1>9. QED
  BY <1>3, <1>4, <1>5, <1>6, <1>7, <1>8 DEF Listing

\* The sender of a transfer keeps what is pledged.
LEMMA MoveHolds ==
    ASSUME Types, NEW i \in Instances, NEW m \in Memories, NEW q \in Reqs, Move(i, m, q),
           q.n > 0, q.from # q.to, Sender(q) \in DOMAIN m.bal,
           job[i].at = "loaded" => m.prop[q.on].st = "TOKENIZED",
           m.loans = mem[i].loans, \A k \in DOMAIN mem[i].bal : Held(m.bal, k) = mem[i].bal[k]
    PROVE  AllHold
<1> DEFINE b == Moved(m.bal, q.on, q.from, q.to, q.n)
           c == [m EXCEPT !.bal = b]
           L == drunixLockedTokens(m, q.asked, q.from)
<1>1. /\ q.n \in Nat /\ m.bal \in Holdings /\ mem[i].bal \in Holdings /\ L \in Nat
      /\ q.on \in Assets /\ q.from \in People
  BY LockedIsNat DEF Reqs, Memories, Types
<1>2. CASE ~(Spendable(m, q) >= q.n)
  <2>1. mem' = [mem EXCEPT ![i] = m]
    BY <1>2 DEF Move, HandleInMemory, Become
  <2>2. QED
    BY <2>1, NobodyLoses
<1>3. CASE Spendable(m, q) >= q.n
  <2>1. mem' = [mem EXCEPT ![i] = c] /\ Then(i, q, Awaited)
    BY <1>3 DEF Move, HandleSaved, Become
  <2>2. Awaited \in Todos /\ Awaited # <<>>
    BY TodosDiffer DEF Todos, Waits
  <2>3. job'[i].q = q
    BY <2>1, <2>2, ThenJob
  <2>4. m.bal[Sender(q)] - L >= q.n /\ Held(m.bal, Sender(q)) = m.bal[Sender(q)] /\ m.bal[Sender(q)] \in Nat
    BY <1>1, <1>3, HoldingsHold DEF Spendable, Sender
  <2>5. \A k : Held(b, k) = IF k = Sender(q) THEN Held(m.bal, k) - q.n
                            ELSE IF k = Receiver(q) THEN Held(m.bal, k) + q.n ELSE Held(m.bal, k)
    BY MovedHeld DEF Sender, Receiver
  <2> HIDE DEF b
  <2>6. mem'[i].bal = b /\ mem'[i].prop = m.prop
    BY <2>1 DEF Types, Memories
  <2>7. ASSUME NEW k \in DOMAIN mem[i].bal PROVE HoldsPledge(i, k)
    <3>1. mem[i].bal[k] \in Nat /\ Held(m.bal, k) = mem[i].bal[k]
      BY <1>1, HoldingsHold
    <3>2. CASE k # Sender(q)
      <4>1. ~(Held(b, k) < mem[i].bal[k])
        BY <1>1, <2>5, <3>1, <3>2
      <4>2. QED
        BY <2>6, <4>1 DEF HoldsPledge
    <3>3. CASE k = Sender(q)
      <4>1. Held(b, k) >= L
        BY <1>1, <2>4, <2>5, <3>3
      <4>2. k[1] = q.on /\ k[2] = q.from
        BY <3>3 DEF Sender
      <4>3. L = drunixLockedTokens(mem[i], q.asked, q.from)
        BY DEF drunixLockedTokens
      <4> HIDE DEF L
      <4>4. QED
        BY <2>3, <2>6, <4>1, <4>2, <4>3 DEF HoldsPledge
    <3>4. QED
      BY <3>2, <3>3
  <2>8. QED
    BY <2>1, <2>7, OneHolds
<1>4. QED
  BY <1>2, <1>3

LEMMA TransferHolds ==
    ASSUME Types, NEW i \in Instances, NEW a \in Assets, NEW from \in People, NEW to \in People,
           NEW n \in Amounts, Transfer(i, a, from, to, n)
    PROVE  AllHold
<1>1. PICK m \in Memories, q \in Reqs, v \in Nat : Moves(i, m, q, v)
  BY TransferMoves
<1> DEFINE c == Given(m, q, v)
<1>2. /\ q.n > 0 /\ q.from # q.to /\ m.bal = mem[i].bal /\ m.loans = mem[i].loans
      /\ m.bal \in Holdings
  BY <1>1 DEF Moves, Memories
<1>3. /\ c \in Memories /\ Sender(q) \in DOMAIN c.bal /\ c.prop = m.prop /\ c.loans = m.loans
      /\ \A k \in DOMAIN m.bal \ {Sender(q)} : Held(c.bal, k) = m.bal[k]
  BY GivenHolds
<1>4. \A k \in DOMAIN mem[i].bal : Held(m.bal, k) = mem[i].bal[k]
  BY <1>2 DEF Held
<1>5. \/ HandleInMemory(i, m)
      \/ m.prop[q.on].st = "TOKENIZED" /\ Sender(q) \in DOMAIN m.bal /\ Move(i, m, q)
      \/ m.prop[q.on].st = "TOKENIZED" /\ Sender(q) \notin DOMAIN m.bal /\ Move(i, c, q)
      \/ Sender(q) \notin DOMAIN m.bal /\ Become(i, c)
  BY <1>1 DEF Moves
<1> HIDE DEF c
<1>6. Sender(q) \notin DOMAIN m.bal => \A k \in DOMAIN mem[i].bal : Held(c.bal, k) = mem[i].bal[k]
  BY <1>2, <1>3
<1>7. CASE HandleInMemory(i, m)
  BY <1>4, <1>7, NobodyLoses DEF HandleInMemory, Become
<1>8. CASE m.prop[q.on].st = "TOKENIZED" /\ Sender(q) \in DOMAIN m.bal /\ Move(i, m, q)
  BY <1>2, <1>4, <1>8, MoveHolds
<1>9. CASE m.prop[q.on].st = "TOKENIZED" /\ Sender(q) \notin DOMAIN m.bal /\ Move(i, c, q)
  <2>1. c.loans = mem[i].loans /\ c.prop[q.on].st = "TOKENIZED"
    BY <1>2, <1>3, <1>9
  <2>2. QED
    BY <1>2, <1>3, <1>6, <1>9, <2>1, MoveHolds
<1>10. CASE Sender(q) \notin DOMAIN m.bal /\ Become(i, c)
  BY <1>6, <1>10, NobodyLoses DEF Become
<1>11. QED
  BY <1>5, <1>7, <1>8, <1>9, <1>10

\* Accepting a swap takes from both parties what neither has pledged.
LEMMA AcceptHolds ==
    ASSUME Types, NEW i \in Instances, NEW w \in Swaps, Accept(i, w) PROVE AllHold
<1> DEFINE s == mem[i].swaps[w]
           b == Swapped(mem[i].bal, s)
           k1 == <<s.give, s.from>>
           k2 == <<s.get, s.to>>
           L1 == drunixLockedTokens(mem[i], s.give, s.from)
           L2 == drunixLockedTokens(mem[i], s.get, s.to)
<1>1. mem[i] \in Memories /\ s \in SwapRecords /\ mem[i].bal \in Holdings /\ L1 \in Nat /\ L2 \in Nat
  BY LockedIsNat DEF Types, Memories
<1>2. s.st = "PROPOSED" /\ Swappable(mem[i], s)
  BY DEF Accept, StillSwappable
<1>3. s.from # s.to /\ s.give # s.get /\ s.gt \in Nat /\ s.rt \in Nat
  BY <1>1, <1>2, SwapFields
<1>4. mem' = [mem EXCEPT ![i] = [@ EXCEPT !.bal = b, !.swaps[w].st = "SETTLED"]]
  BY <1>1 DEF Accept, HandleSaved, Become, Swapped
<1>5. mem'[i].bal = b
  BY <1>1, <1>4 DEF Types, Memories
<1>6. /\ mem[i].prop[s.give].st = "TOKENIZED" /\ mem[i].prop[s.get].st = "TOKENIZED"
      /\ mem[i].bal[k1] >= s.gt + L1 /\ mem[i].bal[k2] >= s.rt + L2
  BY <1>2 DEF Swappable, Covers
<1> HIDE DEF b, L1, L2
<1>7. ASSUME NEW k \in DOMAIN mem[i].bal PROVE HoldsPledge(i, k)
  <2> DEFINE h == mem[i].bal[k]
  <2>1. h \in Nat /\ Held(mem[i].bal, k) = h
    BY <1>1, HoldingsHold
  <2>2. Held(b, k) = IF k = k1 THEN h - s.gt ELSE IF k = k2 THEN h - s.rt
                     ELSE IF k = <<s.give, s.to>> THEN h + s.gt
                     ELSE IF k = <<s.get, s.from>> THEN h + s.rt ELSE h
    BY <1>3, <2>1, SwappedHeld DEF b
  <2>3. CASE k = k1
    <3>1. Held(b, k) >= L1 /\ k[1] = s.give /\ k[2] = s.from
      <4>1. Held(b, k) = h - s.gt /\ h = mem[i].bal[k1] /\ k[1] = s.give /\ k[2] = s.from
        BY <2>2, <2>3
      <4>2. h >= s.gt + L1 /\ h \in Nat /\ s.gt \in Nat /\ L1 \in Nat
        BY <1>1, <1>3, <1>6, <2>1, <4>1
      <4> HIDE DEF h, s, k1
      <4>3. QED
        BY <4>1, <4>2
    <3>2. QED
      BY <1>5, <1>6, <3>1 DEF HoldsPledge, L1
  <2>4. CASE k = k2 /\ k # k1
    <3>1. Held(b, k) >= L2 /\ k[1] = s.get /\ k[2] = s.to
      <4>1. Held(b, k) = h - s.rt /\ h = mem[i].bal[k2] /\ k[1] = s.get /\ k[2] = s.to
        BY <2>2, <2>4
      <4>2. h >= s.rt + L2 /\ h \in Nat /\ s.rt \in Nat /\ L2 \in Nat
        BY <1>1, <1>3, <1>6, <2>1, <4>1
      <4> HIDE DEF h, s, k2
      <4>3. QED
        BY <4>1, <4>2
    <3>2. QED
      BY <1>5, <1>6, <3>1 DEF HoldsPledge, L2
  <2>5. CASE k # k1 /\ k # k2
    <3>1. ~(Held(b, k) < h)
      BY <1>3, <2>1, <2>2, <2>5
    <3>2. QED
      BY <1>5, <3>1 DEF HoldsPledge
  <2>6. QED
    BY <2>3, <2>4, <2>5
<1>8. QED
  BY <1>4, <1>7, OneHolds

LEMMA ContinueHolds ==
    ASSUME IInv, NEW i \in Instances, Continue(i) PROVE AllHold
<1> DEFINE q == job[i].q
           t == job[i].todo
<1>1. /\ Types /\ mem[i] \in Memories /\ q \in Reqs /\ t \in Todos /\ job[i].at = "run"
      /\ Sound(mem[i], file[i], left[i], job[i], underway[i])
  BY DEF IInv, Types, Jobs, Continue
<1>2. ASSUME mem' = mem \/ mem' = [mem EXCEPT ![i] = mem[i]] PROVE AllHold
  <2>1. mem' = [mem EXCEPT ![i] = mem[i]]
    BY <1>1, <1>2 DEF Types
  <2>2. QED
    BY <1>1, <2>1, SameBooks
<1>3. CASE Head(t) = "move" /\ Move(i, mem[i], q)
  <2>1. t = <<"move">>
    BY <1>1, <1>3, TodoSteps DEF Todos, Waits, Sound
  <2>2. q.n > 0 /\ q.from # q.to /\ Sender(q) \in DOMAIN mem[i].bal
    BY <1>1, <2>1 DEF Sound
  <2>3. \A k \in DOMAIN mem[i].bal : Held(mem[i].bal, k) = mem[i].bal[k]
    BY DEF Held
  <2> HIDE DEF q
  <2>4. QED
    BY <1>1, <1>3, <2>2, <2>3, MoveHolds
<1>4. CASE ~(Head(t) = "move" /\ Move(i, mem[i], q))
  BY <1>2, <1>4 DEF Continue, HandleSaved, Become
<1>5. QED
  BY <1>3, <1>4

LEMMA StepHolds == IInv /\ [Next]_vars => AllHold \/ UNCHANGED vars
<1> SUFFICES ASSUME IInv, Next PROVE AllHold
  OBVIOUS
<1>1. Types
  BY DEF IInv
<1>2. ASSUME NEW i \in Instances, NEW m, mem' = [mem EXCEPT ![i] = [mem[i] EXCEPT !.loans = m]]
      PROVE  AllHold
  BY <1>1, <1>2, SameBooks DEF Types, Memories
<1>3. ASSUME NEW i \in Instances, NEW m, mem' = [mem EXCEPT ![i] = [mem[i] EXCEPT !.swaps = m]]
      PROVE  AllHold
  BY <1>1, <1>3, SameBooks DEF Types, Memories
<1>4. ASSUME NEW i \in Instances, Begin(i) PROVE AllHold
  <2>1. \A k \in DOMAIN mem[i].bal : HoldsPledge(i, k)
    BY <1>4 DEF Begin, HoldsPledge
  <2>2. QED
    BY <1>1, <1>4, <2>1, OneHolds DEF Begin
<1>5. ASSUME NEW i \in Instances, Recycle(i) PROVE AllHold
  <2>1. recycles' # recycles
    BY <1>1, <1>5 DEF Recycle, Types
  <2>2. \A k \in DOMAIN mem[i].bal : HoldsPledge(i, k)
    BY <2>1 DEF HoldsPledge
  <2>3. QED
    BY <1>1, <1>5, <2>2, OneHolds DEF Recycle
<1>6. ASSUME NEW i \in Instances, NEW a \in Assets, Trading(i, a) PROVE AllHold
  <2>1. ASSUME NEW from \in People, NEW to \in People, NEW n \in Amounts, Transfer(i, a, from, to, n)
        PROVE  AllHold
    BY <1>1, <2>1, TransferHolds
  <2>2. ASSUME NEW l \in Loans, NEW h, NEW n, Pledge(i, l, h, a, n) PROVE AllHold
    BY <1>2, <2>2 DEF Pledge, HandleInMemory, Become
  <2>3. ASSUME NEW w \in Swaps, NEW s, Propose(i, w, s) PROVE AllHold
    BY <1>3, <2>3 DEF Propose, HandleInMemory, Become
  <2>4. QED
    BY <1>6, <2>1, <2>2, <2>3 DEF Trading
<1>7. ASSUME NEW i \in Instances, NEW l \in Loans, Repay(i, l) PROVE AllHold
  BY <1>2, <1>7 DEF Repay, HandleInMemory, Become
<1>8. ASSUME NEW i \in Instances, NEW w \in Swaps, Cancel(i, w) PROVE AllHold
  BY <1>3, <1>8 DEF Cancel, HandleInMemory, Become
<1>9. ASSUME NEW i \in Instances, NEW w, Lands(i, w) \/ Returns(i, w) PROVE AllHold
  <2>1. job' = job
    BY <1>9 DEF Lands, Returns
  <2>2. QED
    BY <2>1 DEF AllHold, HoldsPledge
<1>10. QED
  BY <1>1, <1>4, <1>5, <1>6, <1>7, <1>8, <1>9, ListingHolds, AcceptHolds, ContinueHolds DEF Next

(* Whoever moves tokens on, in one instance's eyes, moves those of a listing that was
   open when it was looked at, and leaves what is pledged. *)
THEOREM PledgesStay == Spec => PledgesHold
<1>1. AllHold => \A i \in Instances : \A k \in DOMAIN mem[i].bal :
          LET p == mem[i].prop[k[1]]
              q == job'[i].q
          IN  job[i].at # "idle" /\ job'[i] # job[i] /\ q.asked = q.on /\ recycles' = recycles
              /\ (q.n > 0 \/ job'[i].at = "idle") /\ mem'[i].prop[k[1]] = p /\ Held(mem'[i].bal, k) < mem[i].bal[k] =>
                  /\ job[i].at = "loaded" => p.st = "TOKENIZED"
                  /\ Held(mem'[i].bal, k) >= drunixLockedTokens(mem[i], k[1], k[2])
  BY DEF AllHold, HoldsPledge
<1>2. QED
  BY <1>1, AlwaysIInv, StepHolds, PTL DEF Spec, PledgesHold

-----------------------------------------------------------------------------
(***************************************************************************)
(* The purchase dialog: tokens move once.                                  *)
(***************************************************************************)
Ops == JobKinds \cup {"none", "reattach"}
Verdicts == {0, 200, 400, 404, 409, 502}
FnRecords ==
    [job : JobKinds, op : Ops, again : BOOLEAN, sent : BOOLEAN, code : Verdicts, copy : Copies, got : Copies,
     seen : Statuses, poll : BOOLEAN, cancelled : BOOLEAN, polls : Nat, asked : BOOLEAN]
Paid == {"CONFIRMED", "RELEASED"}
Heard(f) == f.op # "none" /\ ~f.sent

\* A payment nobody asked the server for is named nowhere.
Known(id) == \A p \in Pays : psp[p] = "none" => id # p

\* What a function asks for goes with what it is doing, and is about a payment
\* unless it is the purchase itself; so is an answer that is a yes.
Coherent(f) ==
    /\ f.op \in (IF f.job \in {"idle", "wait"} THEN {"none"} ELSE {f.job})
                \cup (IF f.job \in Legs THEN {"reattach"} ELSE {})
    /\ f.op = "none" => ~f.sent
    /\ f.job = "idle" => f = NoJob
    /\ f.job = "collect" => f.copy = NoCopy
    /\ f.job \notin {"idle", "collect"} => f.copy.id \in Pays
    /\ Heard(f) /\ f.code = 200 => f.got.id \in Pays /\ (f.job # "collect" => f.got.id = f.copy.id)

\* With PayU, money that came stays with the payment, its settlement is refused only when nothing
\* is left, and then the browser's own transfer moves nothing.
PayuFn(f) ==
    /\ f.job \notin {"approve", "decline", "refund"} /\ f.seen = "none"
    /\ f.copy.id \in Pays \ lost =>
          /\ f.copy.st \in Paid \/ f.job = "settle" => pays[f.copy.id].st \in Paid
          /\ f.got.id = f.copy.id /\ f.got.st \in Paid => pays[f.copy.id].st \in Paid
          /\ f.job = "settle" /\ ~f.sent /\ f.code # 200 => remaining = 0
          /\ f.job \in Legs => f.job = "transfer" /\ remaining = 0 /\ ~(f.op = "transfer" /\ ~f.sent /\ f.code = 200)

Fn(f) ==
    /\ f \in FnRecords /\ Coherent(f)
    /\ Known(f.copy.id) /\ Known(f.got.id)
    /\ f.copy.id \in Pays \ lost /\ Heard(f) => f.code # 0
    /\ IF mode.payu THEN PayuFn(f) ELSE f.job \notin Loop
FnsOK == DOMAIN thread = Slots /\ \A t \in Slots : Fn(thread[t])

RowsOK ==
    /\ pays \in [Pays -> Copies] /\ \A p \in Pays : pays[p].id = p
    /\ delivered \in [Pays -> Nat] /\ remaining \in Nat /\ lost \subseteq Pays
    /\ psp \in [Pays -> {"none", "open", "success", "failure"}] /\ mode \in [payu : BOOLEAN, official : BOOLEAN]
    /\ \A p \in Pays : psp[p] = "none" => pays[p] = Unknown(p) /\ delivered[p] = 0
    /\ \A p \in Pays \ lost : psp[p] # "none" => pays[p].st # "none"
    /\ IF mode.payu THEN \A p \in Pays \ lost : delivered[p] = IF pays[p].st = "RELEASED" THEN 1 ELSE 0
       ELSE \A p \in Pays : psp[p] \in {"none", "open"}

LateOK ==
    \A c \in late :
        \/ c.op = "collect" /\ c.copy = NoCopy
        \/ c.op \in Ops \ {"none", "idle", "wait", "collect"} /\ c.copy \in Copies /\ c.copy.id \in lost /\ Known(c.copy.id)

PageOK ==
    /\ shown \in Copies /\ Known(shown.id) /\ page \in Properties
    /\ handoff \in [id : Pays, asset : Properties] \cup {None} /\ (handoff # None => Known(handoff.id))
    /\ IF mode.payu THEN screen # "pending" ELSE handoff = None /\ (screen = "pending" => shown.id \in Pays)

\* Without PayU, one function at most is about to move the tokens of a payment.
Claims(f, p) ==
    \/ f.job = "collect" /\ ~f.sent /\ f.code = 200 /\ f.got.id = p
    \/ f.job \in Legs /\ f.copy.id = p
HasMoved(f) == f.job = "release" \/ (f.job = "transfer" /\ f.op = "transfer" /\ ~f.sent /\ f.code = 200)
Singly(th, s, sh, p) ==
    /\ \A t, u \in Slots : Claims(th[t], p) /\ Claims(th[u], p) => t = u
    /\ \A t \in Slots : Claims(th[t], p) => ~(s = "pending" /\ sh.id = p) /\ (~HasMoved(th[t]) => delivered[p] = 0)
    /\ s = "pending" /\ sh.id = p => delivered[p] = 0
    /\ delivered[p] <= 1
SinglyOK == ~mode.payu => \A p \in Pays \ lost : Singly(thread, screen, shown, p)

MovedInv == RowsOK /\ LateOK /\ PageOK /\ FnsOK /\ SinglyOK

LEMMA MovedInvSays == MovedInv => MovedOnce
  BY DEF MovedInv, MovedOnce, RowsOK, SinglyOK, Singly

LEMMA NoCopyIsACopy == NoCopy \in Copies /\ \A p \in Pays : Unknown(p) \in Copies /\ Unknown(p).id = p /\ Unknown(p).st = "none"
  BY DEF Copies, NoCopy, Unknown, Statuses

LEMMA NoJobIsFine == Fn(NoJob) /\ \A p \in Pays : ~Claims(NoJob, p)
  <1>1. NoJob \in FnRecords  BY NoCopyIsACopy DEF FnRecords, NoJob, JobKinds, Ops, Verdicts, Statuses
  <1>2. /\ NoJob.job = "idle" /\ NoJob.op = "none" /\ NoJob.sent = FALSE /\ NoJob.copy = NoCopy /\ NoJob.got = NoCopy
        /\ NoJob.seen = "none"
    BY DEF NoJob
  <1>3. NoCopy.id \notin Pays  BY BuyFlowAssumption DEF NoCopy
  <1> QED  BY <1>1, <1>2, <1>3 DEF Fn, Coherent, Heard, Known, PayuFn, Loop, Legs, Claims

LEMMA MovedInitially == FlowInit => MovedInv
  <1> SUFFICES ASSUME FlowInit PROVE MovedInv
    OBVIOUS
  <1>1. RowsOK  BY NoCopyIsACopy, BuyFlowAssumption DEF FlowInit, RowsOK, Unknown
  <1>2. LateOK  BY DEF FlowInit, LateOK
  <1>3. PageOK  BY NoCopyIsACopy, BuyFlowAssumption DEF FlowInit, PageOK, Known, NoCopy
  <1>4. FnsOK  BY NoJobIsFine DEF FlowInit, FnsOK
  <1>5. SinglyOK  BY NoJobIsFine DEF FlowInit, SinglyOK, Singly
  <1> QED  BY <1>1, <1>2, <1>3, <1>4, <1>5 DEF MovedInv

(* What becomes of a function *)

LEMMA FnFields ==
    ASSUME NEW f \in FnRecords
    PROVE  /\ f.job \in JobKinds /\ f.op \in Ops /\ f.again \in BOOLEAN /\ f.sent \in BOOLEAN /\ f.code \in Verdicts
           /\ f.copy \in Copies /\ f.got \in Copies /\ f.seen \in Statuses /\ f.poll \in BOOLEAN
           /\ f.cancelled \in BOOLEAN /\ f.polls \in Nat /\ f.asked \in BOOLEAN
  BY DEF FnRecords

\* g asks op about c, and is f otherwise but for its job.
Asking(g, f, act, op, c) ==
    /\ g \in FnRecords /\ g.job = act /\ g.op = op /\ g.sent /\ g.code = 0 /\ g.copy = c /\ g.got = NoCopy
    /\ g.seen = f.seen /\ g.poll = f.poll /\ g.cancelled = f.cancelled

LEMMA AskIs ==
    ASSUME NEW f \in FnRecords, NEW op \in Ops, NEW c \in Copies
    PROVE  Asking(Ask(f, op, c), f, f.job, op, c)
  <1>1. PICK yes \in BOOLEAN : yes = TRUE  OBVIOUS
  <1>2. PICK zero \in Verdicts : zero = 0  BY DEF Verdicts
  <1>3. PICK g : g = [f EXCEPT !.op = op, !.sent = yes, !.code = zero, !.copy = c, !.got = NoCopy]  OBVIOUS
  <1>4. g = Ask(f, op, c)  BY <1>1, <1>2, <1>3 DEF Ask
  <1>5. g.op = op /\ g.sent = yes /\ g.code = zero /\ g.copy = c /\ g.got = NoCopy  BY <1>3 DEF FnRecords
  <1>6. g.job = f.job /\ g.poll = f.poll /\ g.cancelled = f.cancelled /\ g.seen = f.seen  BY <1>3 DEF FnRecords
  <1>7. NoCopy \in Copies  BY NoCopyIsACopy
  <1>8. g \in FnRecords  BY <1>3, <1>7 DEF FnRecords
  <1>9. Asking(g, f, f.job, op, c)  BY <1>1, <1>2, <1>5, <1>6, <1>8 DEF Asking
  <1> QED  BY <1>4, <1>9

LEMMA SendsIs ==
    ASSUME NEW f \in FnRecords, NEW act \in JobKinds, NEW c \in Copies
    PROVE  Asking(Sends(f, act, c), f, act, act, c)
  <1>1. PICK h : h = Ask(f, act, c)  OBVIOUS
  <1>2. act \in Ops  BY DEF Ops
  <1>3. Asking(h, f, f.job, act, c)  BY <1>1, <1>2, AskIs
  <1>4. PICK no \in BOOLEAN : no = FALSE  OBVIOUS
  <1>5. PICK g : g = [h EXCEPT !.job = act, !.again = no]  OBVIOUS
  <1>6. /\ g \in FnRecords /\ g.job = act /\ g.op = h.op /\ g.sent = h.sent /\ g.code = h.code /\ g.copy = h.copy
        /\ g.got = h.got /\ g.seen = h.seen /\ g.poll = h.poll /\ g.cancelled = h.cancelled
    BY <1>3, <1>5 DEF FnRecords, Asking
  <1>7. Asking(g, f, act, act, c)  BY <1>3, <1>6 DEF Asking
  <1>8. g = Sends(f, act, c)  BY <1>1, <1>4, <1>5 DEF Sends
  <1> QED  BY <1>7, <1>8

\* What may be asked about a payment.
MayAsk(f, act, c) ==
    /\ act \in JobKinds \ {"idle", "wait"} /\ c \in Copies /\ Known(c.id)
    /\ IF act = "collect" THEN c = NoCopy ELSE c.id \in Pays
    /\ IF mode.payu THEN /\ act \notin {"approve", "decline", "refund"} /\ f.seen = "none"
                         /\ c.id \in Pays \ lost =>
                               /\ c.st \in Paid \/ act = "settle" => pays[c.id].st \in Paid
                               /\ act \in Legs => act = "transfer" /\ remaining = 0
       ELSE act \notin Loop

LEMMA SendsIsFine ==
    ASSUME NEW f \in FnRecords, NEW act, NEW c, MayAsk(f, act, c)
    PROVE  /\ Fn(Sends(f, act, c)) /\ (HasMoved(Sends(f, act, c)) <=> act = "release")
           /\ \A p \in Pays : Claims(Sends(f, act, c), p) <=> act \in Legs /\ c.id = p
  <1>1. PICK g : g = Sends(f, act, c)  OBVIOUS
  <1>2. Asking(g, f, act, act, c)  BY <1>1, SendsIs DEF MayAsk
  <1>3. NoCopy.id = None /\ None \notin Pays  BY BuyFlowAssumption DEF NoCopy
  <1>4. Coherent(g)  BY <1>2 DEF Asking, Coherent, Heard, MayAsk, JobKinds, Legs, Loop
  <1>5. mode.payu => PayuFn(g)  BY <1>2, <1>3 DEF Asking, PayuFn, MayAsk
  <1>6. Fn(g)  BY <1>2, <1>3, <1>4, <1>5 DEF Asking, Fn, Known, Heard, MayAsk
  <1>7. HasMoved(g) <=> act = "release"  BY <1>2 DEF Asking, HasMoved
  <1>8. \A p \in Pays : Claims(g, p) <=> act \in Legs /\ c.id = p  BY <1>2 DEF Asking, Claims
  <1> QED  BY <1>1, <1>6, <1>7, <1>8

\* A function that waits before it polls again.
LEMMA WaitsOnIsFine ==
    ASSUME NEW f, Fn(f), f.job \in Loop, ~f.sent, NEW g, g = WaitsOn(f) \/ g = WaitsOn([f EXCEPT !.asked = TRUE])
    PROVE  Fn(g) /\ \A p \in Pays : ~Claims(g, p)
  <1>1. f \in FnRecords /\ f.asked \in BOOLEAN  BY FnFields DEF Fn
  <1>2. PICK yes \in BOOLEAN : yes = TRUE  OBVIOUS
  <1>3. PICK zero \in Verdicts : zero = 0  BY DEF Verdicts
  <1>4. PICK asked \in BOOLEAN : g = [f EXCEPT !.job = "wait", !.op = "none", !.code = zero, !.got = NoCopy, !.asked = asked]
    <2>1. WaitsOn(f) = [f EXCEPT !.job = "wait", !.op = "none", !.code = zero, !.got = NoCopy, !.asked = f.asked]
      BY <1>1, <1>3 DEF WaitsOn, FnRecords
    <2>2. WaitsOn([f EXCEPT !.asked = yes]) = [f EXCEPT !.job = "wait", !.op = "none", !.code = zero, !.got = NoCopy, !.asked = yes]
      BY <1>1, <1>3 DEF WaitsOn, FnRecords
    <2> QED  BY <1>1, <1>2, <2>1, <2>2
  <1>5. "wait" \in JobKinds /\ "none" \in Ops  BY DEF JobKinds, Loop, Ops
  <1>6. /\ g \in FnRecords /\ g.job = "wait" /\ g.op = "none" /\ g.sent = f.sent /\ g.code = zero /\ g.copy = f.copy
        /\ g.got = NoCopy /\ g.seen = f.seen
    BY <1>1, <1>4, <1>5, NoCopyIsACopy DEF FnRecords
  <1>7. NoCopy.id = None /\ None \notin Pays  BY BuyFlowAssumption DEF NoCopy
  <1>8. f.copy.id \in Pays  BY DEF Fn, Coherent, Loop
  <1>9. f.sent = FALSE  BY <1>1, FnFields
  <1>a. Coherent(g)  BY <1>6, <1>8, <1>9 DEF Coherent, Heard, Legs
  <1>b. mode.payu => PayuFn(g)  BY <1>6, <1>7 DEF Fn, PayuFn, Legs
  <1>c. ~mode.payu => f.job \notin Loop  BY DEF Fn
  <1> QED  BY <1>6, <1>7, <1>a, <1>b, <1>c DEF Fn, Known, Heard, Claims, Legs

\* What is said of a function leaves out its counters and marks.
SameWork(g, f) ==
    /\ g.job = f.job /\ g.op = f.op /\ g.sent = f.sent /\ g.code = f.code /\ g.copy = f.copy /\ g.got = f.got
    /\ g.seen = f.seen
LEMMA SameWorkIsFine ==
    ASSUME NEW f, NEW g \in FnRecords, SameWork(g, f), f.job # "idle"
    PROVE  /\ Fn(f) => Fn(g)
           /\ \A p \in Pays : Claims(g, p) <=> Claims(f, p)
           /\ HasMoved(g) <=> HasMoved(f)
  <1>1. ASSUME Fn(f) PROVE Fn(g)
    <2>1. Coherent(g)  BY <1>1 DEF Fn, Coherent, SameWork, Heard
    <2>2. mode.payu => PayuFn(g)  BY <1>1 DEF Fn, PayuFn, SameWork
    <2> QED  BY <1>1, <2>1, <2>2 DEF Fn, Known, SameWork, Heard
  <1> QED  BY <1>1 DEF SameWork, Claims, HasMoved

LEMMA PollIsFine ==
    ASSUME NEW f \in FnRecords, MayAsk(f, "get", f.copy)
    PROVE  Fn(Poll(f)) /\ \A p \in Pays : ~Claims(Poll(f), p)
  <1>1. PICK h : h = Sends(f, "get", f.copy)  OBVIOUS
  <1>2. "get" \in JobKinds /\ f.copy \in Copies  BY FnFields DEF JobKinds, Loop
  <1>3. Asking(h, f, "get", "get", f.copy)  BY <1>1, <1>2, SendsIs
  <1>4. Fn(h) /\ \A p \in Pays : ~Claims(h, p)  BY <1>1, SendsIsFine DEF Legs
  <1>5. PICK n \in Nat : n = h.polls + 1
    <2>1. h.polls \in Nat  BY <1>3, FnFields DEF Asking
    <2> QED  BY <2>1
  <1>6. PICK g : g = [h EXCEPT !.polls = n]  OBVIOUS
  <1>7. g \in FnRecords /\ SameWork(g, h)  BY <1>3, <1>6 DEF FnRecords, Asking, SameWork
  <1>8. h.job # "idle"  BY <1>3 DEF Asking
  <1>9. Fn(g) /\ \A p \in Pays : ~Claims(g, p)  BY <1>4, <1>7, <1>8, SameWorkIsFine
  <1>a. g = Poll(f)
    <2>1. [h EXCEPT !.polls = @ + 1] = [h EXCEPT !.polls = h.polls + 1]  BY <1>3 DEF FnRecords, Asking
    <2> QED  BY <1>1, <1>5, <1>6, <2>1 DEF Poll
  <1> QED  BY <1>9, <1>a

\* The poll that resumes a hand-off.
Resumes(id) == Poll([NoJob EXCEPT !.poll = TRUE, !.copy = Unknown(id)])
LEMMA ResumesIsFine ==
    ASSUME NEW id \in Pays, Known(id), mode.payu
    PROVE  Fn(Resumes(id)) /\ \A p \in Pays : ~Claims(Resumes(id), p)
  <1>1. PICK c \in Copies : c = Unknown(id)  BY NoCopyIsACopy
  <1>2. PICK yes \in BOOLEAN : yes = TRUE  OBVIOUS
  <1>3. PICK f : f = [NoJob EXCEPT !.poll = yes, !.copy = c]  OBVIOUS
  <1>4. NoJob \in FnRecords  BY NoJobIsFine DEF Fn
  <1>5. f \in FnRecords /\ f.copy = c /\ f.seen = NoJob.seen  BY <1>3, <1>4 DEF FnRecords
  <1>6. c.id = id /\ c.st = "none"  BY <1>1, NoCopyIsACopy
  <1>7. MayAsk(f, "get", f.copy)  BY <1>5, <1>6 DEF MayAsk, JobKinds, Loop, Legs, Paid, NoJob
  <1>8. Fn(Poll(f)) /\ \A p \in Pays : ~Claims(Poll(f), p)  BY <1>5, <1>7, PollIsFine
  <1> QED  BY <1>1, <1>2, <1>3, <1>8 DEF Resumes

\* The same leg again, or the payment handed back for it.
LEMMA AskIsFine ==
    ASSUME NEW f, Fn(f), f.job \in Legs, ~f.sent, ~HasMoved(f) \/ f.job = "release", NEW op \in {f.job, "reattach"},
           NEW g, g \in {Ask(f, op, f.copy), [Ask(f, op, f.copy) EXCEPT !.again = TRUE]}
    PROVE  /\ Fn(g) /\ (\A p \in Pays : Claims(g, p) <=> Claims(f, p))
           /\ HasMoved(f) => HasMoved(g)
  <1>1. f \in FnRecords /\ f.copy \in Copies /\ f.job \in JobKinds  BY FnFields DEF Fn
  <1>2. op \in Ops  BY <1>1 DEF Ops
  <1>3. PICK h : h = Ask(f, op, f.copy)  OBVIOUS
  <1>4. Asking(h, f, f.job, op, f.copy)  BY <1>1, <1>2, <1>3, AskIs
  <1>5. NoCopy.id = None /\ None \notin Pays  BY BuyFlowAssumption DEF NoCopy
  <1>6. Fn(h)
    <2>1. Coherent(h)  BY <1>4 DEF Fn, Coherent, Asking, Heard, Legs
    <2>2. mode.payu => PayuFn(h)  BY <1>4, <1>5 DEF Fn, PayuFn, Asking
    <2> QED  BY <1>4, <1>5, <2>1, <2>2 DEF Fn, Known, Asking, Heard
  <1>7. (\A p \in Pays : Claims(h, p) <=> Claims(f, p)) /\ (HasMoved(f) => HasMoved(h))
    BY <1>4 DEF Claims, HasMoved, Asking, Legs
  <1>8. CASE g = h  BY <1>6, <1>7, <1>8
  <1>9. CASE g # h
    <2>1. PICK yes \in BOOLEAN : yes = TRUE  OBVIOUS
    <2>2. g = [h EXCEPT !.again = yes]  BY <1>3, <1>9, <2>1
    <2>3. g \in FnRecords /\ SameWork(g, h)  BY <1>4, <2>2 DEF FnRecords, Asking, SameWork
    <2>4. h.job # "idle"  BY <1>4 DEF Asking, Legs
    <2> QED  BY <1>6, <1>7, <2>3, <2>4, SameWorkIsFine
  <1> QED  BY <1>8, <1>9

-----------------------------------------------------------------------------
(* A step of the page *)

\* The functions are those of th, polls may have been cancelled, and one may
\* have begun that resumes the hand-off h.
Matches(g, f) == g = f \/ (f.poll /\ g = [f EXCEPT !.cancelled = TRUE])
Went(s, sh, th, h) ==
    /\ screen' = s /\ shown' = sh /\ handoff' \in {h, None} /\ DOMAIN thread' = Slots
    /\ \A t \in Slots : Matches(thread'[t], th[t]) \/ (h # None /\ thread'[t] = Resumes(h.id))

LEMMA ShowIs == ASSUME NEW s, NEW sh, NEW th, DOMAIN th = Slots, NEW h, Show(s, sh, th, h) PROVE Went(s, sh, th, h)
  <1>1. \A t \in Slots : Matches(Cut(s, th)[t], th[t])  BY DEF Cut, Matches
  <1>2. DOMAIN Cut(s, th) = Slots  BY DEF Cut
  <1>3. CASE thread' = Cut(s, th) /\ handoff' = h  BY <1>1, <1>2, <1>3 DEF Show, Went
  <1>4. CASE h # None /\ Mount(Cut(s, th), h)
    <2>1. CASE thread' = Cut(s, th) /\ handoff' = None  BY <1>1, <1>2, <2>1 DEF Show, Went
    <2>2. ASSUME NEW u \in Slots, thread' = [Cut(s, th) EXCEPT ![u] = Resumes(h.id)], handoff' = h
          PROVE  Went(s, sh, th, h)
      BY <1>1, <1>2, <1>4, <2>2 DEF Show, Went
    <2> QED  BY <1>4, <2>1, <2>2 DEF Mount, Resumes
  <1> QED  BY <1>3, <1>4 DEF Show

LEMMA MatchIsFine ==
    ASSUME NEW f, Fn(f), NEW g, Matches(g, f)
    PROVE  Fn(g) /\ (\A p \in Pays : Claims(g, p) <=> Claims(f, p)) /\ (HasMoved(g) <=> HasMoved(f))
  <1>1. CASE g = f  BY <1>1
  <1>2. CASE f.poll /\ g = [f EXCEPT !.cancelled = TRUE]
    <2>1. f \in FnRecords  BY DEF Fn
    <2>2. PICK yes \in BOOLEAN : yes = TRUE  OBVIOUS
    <2>3. g = [f EXCEPT !.cancelled = yes]  BY <1>2, <2>2
    <2>4. g \in FnRecords /\ SameWork(g, f)  BY <2>1, <2>3 DEF FnRecords, SameWork
    <2>5. f.job # "idle"  BY <1>2 DEF Fn, Coherent, NoJob
    <2> QED  BY <2>4, <2>5, SameWorkIsFine
  <1> QED  BY <1>1, <1>2 DEF Matches

\* At the next state, a function is what it is there.
LEMMA FnsNext ==
    ASSUME DOMAIN thread' = Slots, \A t \in Slots : \E f : f = thread'[t] /\ Fn(f)'
    PROVE  FnsOK'
  <1>1. ASSUME NEW t \in Slots PROVE Fn(thread[t])'
    <2>1. PICK f : f = thread'[t] /\ Fn(f)'  OBVIOUS
    <2> QED  BY <2>1 DEF Fn, Known, PayuFn
  <1> QED  BY <1>1 DEF FnsOK

LEMMA PageGoes ==
    ASSUME MovedInv, UNCHANGED <<pays, remaining, delivered, psp, mode, late, lost>>, page' \in Properties,
           NEW th, \A t \in Slots : Fn(th[t]), NEW s, NEW sh \in Copies, Known(sh.id),
           NEW h \in [id : Pays, asset : Properties] \cup {None}, h # None => Known(h.id),
           IF mode.payu THEN s # "pending" ELSE h = None /\ (s = "pending" => sh.id \in Pays) /\ \A p \in Pays \ lost : Singly(th, s, sh, p),
           Went(s, sh, th, h)
    PROVE  MovedInv'
  <1>1. \A f : Fn(f)' <=> Fn(f)  BY DEF Fn, Known, PayuFn
  <1>2. \A i : Known(i)' <=> Known(i)  BY DEF Known
  <1>3. ASSUME NEW t \in Slots
        PROVE  /\ Fn(thread'[t])
               /\ \A p \in Pays : Claims(thread'[t], p) => Claims(th[t], p) /\ (HasMoved(th[t]) => HasMoved(thread'[t]))
    <2>1. CASE Matches(thread'[t], th[t])  BY <2>1, MatchIsFine
    <2>2. CASE h # None /\ thread'[t] = Resumes(h.id)
      <3>1. mode.payu /\ h.id \in Pays /\ Known(h.id)  BY <2>2
      <3> QED  BY <2>2, <3>1, ResumesIsFine
    <2> QED  BY <2>1, <2>2 DEF Went
  <1>4. FnsOK'
    <2>1. \A t \in Slots : \E f : f = thread'[t] /\ Fn(f)'  BY <1>1, <1>3
    <2>2. DOMAIN thread' = Slots  BY DEF Went
    <2> QED  BY <2>1, <2>2, FnsNext
  <1>5. RowsOK'  BY DEF MovedInv, RowsOK
  <1>6. LateOK'  BY <1>2 DEF MovedInv, LateOK, Known
  <1>7. PageOK'  BY DEF PageOK, Went, Known
  <1>8. SinglyOK'
    <2>1. ASSUME ~mode.payu, NEW p \in Pays \ lost PROVE Singly(thread', s, sh, p)
      <3>1. Singly(th, s, sh, p)  BY <2>1
      <3> QED  BY <1>3, <3>1 DEF Singly
    <2> QED  BY <2>1 DEF SinglyOK, Singly, Went
  <1> QED  BY <1>4, <1>5, <1>6, <1>7, <1>8 DEF MovedInv

\* One function goes on, and its claim on a payment is the one it had.
LEMMA SinglyWith ==
    ASSUME NEW p, Singly(thread, screen, shown, p), DOMAIN thread = Slots, NEW t \in Slots, NEW g,
           Claims(g, p) => Claims(thread[t], p) /\ (HasMoved(thread[t]) => HasMoved(g)),
           NEW s, NEW sh, s = "pending" /\ sh.id = p => screen = "pending" /\ shown.id = p
    PROVE  Singly(With(t, g), s, sh, p)
  <1>1. \A u \in Slots : With(t, g)[u] = IF u = t THEN g ELSE thread[u]  BY DEF With
  <1> QED  BY <1>1 DEF Singly

PageOnly == UNCHANGED <<pays, remaining, delivered, psp, mode, late, lost>> /\ page' \in Properties

LEMMA FnGoes ==
    ASSUME MovedInv, PageOnly, NEW t \in Slots, NEW g, Fn(g),
           ~mode.payu => \A p \in Pays : Claims(g, p) => Claims(thread[t], p) /\ (HasMoved(thread[t]) => HasMoved(g)),
           NEW s, NEW sh \in Copies, Known(sh.id), s = "pending" => screen = "pending" /\ sh = shown,
           NEW h \in {handoff, None}, Went(s, sh, With(t, g), h)
    PROVE  MovedInv'
  <1>1. DOMAIN thread = Slots /\ \A u \in Slots : Fn(thread[u])  BY DEF MovedInv, FnsOK
  <1>2. PICK th : th = With(t, g)  OBVIOUS
  <1>3. \A u \in Slots : Fn(th[u])  BY <1>1, <1>2 DEF With
  <1>4. h \in [id : Pays, asset : Properties] \cup {None} /\ (h # None => Known(h.id))  BY DEF MovedInv, PageOK
  <1>5. IF mode.payu THEN s # "pending" ELSE h = None /\ (s = "pending" => sh.id \in Pays)  BY DEF MovedInv, PageOK
  <1>6. ASSUME ~mode.payu, NEW p \in Pays \ lost PROVE Singly(th, s, sh, p)
    <2>1. Singly(thread, screen, shown, p)  BY <1>6 DEF MovedInv, SinglyOK
    <2> QED  BY <1>1, <1>2, <1>6, <2>1, SinglyWith
  <1>7. Went(s, sh, th, h)  BY <1>2
  <1> QED  BY <1>3, <1>4, <1>5, <1>6, <1>7, PageGoes DEF PageOnly

LEMMA StaysIs == ASSUME NEW t \in Slots, NEW g, Stays(t, g), FnsOK PROVE Went(screen, shown, With(t, g), handoff)
  <1>1. \A u \in Slots : Matches(With(t, g)[u], With(t, g)[u])  BY DEF Matches
  <1>2. DOMAIN With(t, g) = Slots  BY DEF With, FnsOK
  <1> QED  BY <1>1, <1>2 DEF Stays, Went

LEMMA FnStays ==
    ASSUME MovedInv, PageOnly, NEW t \in Slots, NEW g, Fn(g), Stays(t, g),
           ~mode.payu => \A p \in Pays : Claims(g, p) => Claims(thread[t], p) /\ (HasMoved(thread[t]) => HasMoved(g))
    PROVE  MovedInv'
  <1>1. Went(screen, shown, With(t, g), handoff)  BY StaysIs DEF MovedInv
  <1>2. shown \in Copies /\ Known(shown.id)  BY DEF MovedInv, PageOK
  <1> QED  BY <1>1, <1>2, FnGoes

LEMMA FnEnds ==
    ASSUME MovedInv, PageOnly, NEW t \in Slots, NEW s, NEW sh \in Copies, Known(sh.id),
           s = "pending" => screen = "pending" /\ sh = shown, NEW h \in {handoff, None}, Show(s, sh, Ends(t), h)
    PROVE  MovedInv'
  <1>1. DOMAIN Ends(t) = Slots /\ Ends(t) = With(t, NoJob)  BY DEF Ends, With, MovedInv, FnsOK
  <1>2. Went(s, sh, With(t, NoJob), h)  BY <1>1, ShowIs
  <1> QED  BY <1>2, NoJobIsFine, FnGoes


-----------------------------------------------------------------------------
(* A function goes on *)

LEMMA HereIs ==
    ASSUME MovedInv, NEW t \in Slots
    PROVE  /\ thread[t] \in FnRecords /\ Fn(thread[t]) /\ thread[t].copy \in Copies /\ thread[t].got \in Copies
           /\ Known(thread[t].copy.id) /\ Known(thread[t].got.id) /\ shown \in Copies /\ Known(shown.id)
           /\ (Here(t) => Heard(thread[t]) /\ ~thread[t].sent)
           /\ (thread[t].job \in Loop => mode.payu) /\ (mode.payu => PayuFn(thread[t]) /\ screen # "pending")
  <1>1. Fn(thread[t])  BY DEF MovedInv, FnsOK
  <1>2. thread[t] \in FnRecords  BY <1>1 DEF Fn
  <1>3. thread[t].copy \in Copies /\ thread[t].got \in Copies  BY <1>2, FnFields
  <1>4. shown \in Copies /\ Known(shown.id) /\ (mode.payu => screen # "pending")  BY DEF MovedInv, PageOK
  <1> QED  BY <1>1, <1>2, <1>3, <1>4 DEF Fn, Here, Heard

LEMMA CollectedKeeps ==
    ASSUME MovedInv, PageOnly, NEW t \in Slots, Collected(t) PROVE MovedInv'
  <1>1. PICK f : f = thread[t]  OBVIOUS
  <1>2. f.job = "collect" /\ Heard(f) /\ ~f.sent /\ f.got \in Copies /\ Known(f.got.id) /\ Fn(f)
    BY <1>1, HereIs DEF Collected
  <1>3. CASE ~Ok(t)
    <2>1. Show("error", shown, Ends(t), handoff)  BY <1>3 DEF Collected, Fail
    <2> QED  BY <2>1, HereIs, FnEnds
  <1>4. ASSUME Ok(t) PROVE f.got.id \in Pays /\ f.code = 200
    BY <1>1, <1>2, <1>4 DEF Fn, Coherent, Ok
  <1>5. PICK th : th = Ends(t)  OBVIOUS
  <1>6. DOMAIN th = Slots /\ (\A u \in Slots : Fn(th[u])) /\ \A u \in Slots : th[u] = IF u = t THEN NoJob ELSE thread[u]
    BY <1>5, NoJobIsFine DEF Ends, With, MovedInv, FnsOK
  <1>7. CASE Ok(t) /\ mode.payu
    <2>1. PICK h : h = [id |-> f.got.id, asset |-> page]  OBVIOUS
    <2>2. Show("payu", f.got, th, h)  BY <1>1, <1>5, <1>7, <2>1 DEF Collected, Go
    <2>3. h \in [id : Pays, asset : Properties] /\ Known(h.id)  BY <1>2, <1>4, <1>7, <2>1 DEF MovedInv, PageOK
    <2>4. Went("payu", f.got, th, h)  BY <1>6, <2>2, ShowIs
    <2> QED  BY <1>2, <1>6, <1>7, <2>3, <2>4, PageGoes DEF PageOnly
  <1>8. CASE Ok(t) /\ ~mode.payu
    <2>1. Show("pending", f.got, th, handoff)  BY <1>1, <1>5, <1>8 DEF Collected, Go
    <2>2. Went("pending", f.got, th, handoff)  BY <1>6, <2>1, ShowIs
    <2>3. handoff = None  BY <1>8 DEF MovedInv, PageOK
    <2>4. ASSUME NEW p \in Pays \ lost PROVE Singly(th, "pending", f.got, p)
      <3>1. Singly(thread, screen, shown, p)  BY <1>8 DEF MovedInv, SinglyOK
      <3>2. \A u \in Slots : Claims(th[u], p) => u # t /\ Claims(thread[u], p) /\ th[u] = thread[u]
        BY <1>6, NoJobIsFine
      <3>3. CASE f.got.id = p
        <4>1. Claims(thread[t], p) /\ ~HasMoved(thread[t])  BY <1>1, <1>2, <1>4, <1>8, <3>3 DEF Claims, HasMoved
        <4>2. \A u \in Slots : ~Claims(th[u], p)  BY <3>1, <3>2, <4>1 DEF Singly
        <4>3. delivered[p] = 0  BY <3>1, <4>1 DEF Singly
        <4> QED  BY <4>2, <4>3 DEF Singly
      <3>4. CASE f.got.id # p  BY <3>1, <3>2, <3>4 DEF Singly
      <3> QED  BY <3>3, <3>4
    <2> QED  BY <1>2, <1>4, <1>6, <1>8, <2>2, <2>3, <2>4, PageGoes DEF PageOnly
  <1> QED  BY <1>3, <1>7, <1>8

LEMMA RetryKeeps ==
    ASSUME MovedInv, PageOnly, NEW t \in Slots, Retry(t) PROVE MovedInv'
  <1>1. PICK f : f = thread[t]  OBVIOUS
  <1>2. f.job \in Legs /\ Heard(f) /\ ~f.sent /\ Fn(f) /\ f \in FnRecords
    BY <1>1, HereIs DEF Retry
  <1>3. PICK op \in {f.job, "reattach"} :
            \E g \in {Ask(f, op, f.copy), [Ask(f, op, f.copy) EXCEPT !.again = TRUE]} :
                Stays(t, g) /\ (~HasMoved(f) \/ f.job = "release")
    <2>1. CASE Retries(t) /\ Stays(t, Ask(f, "reattach", f.copy))
      <3>1. f.code # 200  BY <1>1, <2>1 DEF Retries, RetryOn
      <3> QED  BY <2>1, <3>1 DEF HasMoved
    <2>2. CASE f.op = "reattach" /\ Stays(t, [Ask(f, f.job, f.copy) EXCEPT !.again = TRUE])
      BY <2>2 DEF HasMoved
    <2> QED  BY <1>1, <2>1, <2>2 DEF Retry
  <1>4. PICK g \in {Ask(f, op, f.copy), [Ask(f, op, f.copy) EXCEPT !.again = TRUE]} :
            Stays(t, g) /\ (~HasMoved(f) \/ f.job = "release")
    BY <1>3
  <1>5. Fn(g) /\ (\A p \in Pays : Claims(g, p) <=> Claims(f, p)) /\ (HasMoved(f) => HasMoved(g))
    BY <1>2, <1>4, AskIsFine
  <1> QED  BY <1>1, <1>4, <1>5, FnStays

LEMMA FailedKeeps ==
    ASSUME MovedInv, PageOnly, NEW t \in Slots, failWithRefund(t) PROVE MovedInv'
  <1>1. PICK f : f = thread[t]  OBVIOUS
  <1>2. f.job \in Legs /\ Fn(f) /\ f \in FnRecords /\ f.copy \in Copies /\ Known(f.copy.id) /\ f.copy.id \in Pays
    BY <1>1, HereIs DEF failWithRefund, Fn, Coherent, Legs
  <1>3. PICK g : Show("error", shown, With(t, g), handoff)
                 /\ (g = NoJob \/ (g = Sends(f, "refund", f.copy) /\ f.seen = "CONFIRMED"))
    BY <1>1 DEF failWithRefund, Fail
  <1>4. Fn(g) /\ \A p \in Pays : ~Claims(g, p)
    <2>1. CASE g = NoJob  BY <2>1, NoJobIsFine
    <2>2. CASE g = Sends(f, "refund", f.copy) /\ f.seen = "CONFIRMED"
      <3>1. ~mode.payu  BY <1>1, <2>2, HereIs DEF PayuFn
      <3>2. MayAsk(f, "refund", f.copy)  BY <1>2, <3>1 DEF MayAsk, JobKinds, Loop
      <3> QED  BY <1>2, <2>2, <3>2, SendsIsFine DEF Legs
    <2> QED  BY <1>3, <2>1, <2>2
  <1>5. DOMAIN With(t, g) = Slots  BY DEF With, MovedInv, FnsOK
  <1>6. Went("error", shown, With(t, g), handoff)  BY <1>3, <1>5, ShowIs
  <1> QED  BY <1>4, <1>6, HereIs, FnGoes

LEMMA ApprovedKeeps ==
    ASSUME MovedInv, PageOnly, NEW t \in Slots, Approved(t) PROVE MovedInv'
  <1>1. PICK f : f = thread[t]  OBVIOUS
  <1>2. f.job = "approve" /\ Fn(f) /\ f \in FnRecords /\ f.got \in Copies /\ Known(f.got.id) /\ Heard(f) /\ f.code = 200
    BY <1>1, HereIs DEF Approved, Ok
  <1>3. f.got.id \in Pays /\ f.got.id = f.copy.id  BY <1>2 DEF Fn, Coherent
  <1>4. ~mode.payu  BY <1>1, <1>2, HereIs DEF PayuFn
  <1>5. MayAsk(f, "transfer", f.got)  BY <1>2, <1>3, <1>4 DEF MayAsk, JobKinds, Legs, Loop
  <1>6. PICK g : g = Sends(f, "transfer", f.got)  OBVIOUS
  <1>7. Fn(g) /\ \A p \in Pays : Claims(g, p) <=> f.got.id = p  BY <1>2, <1>5, <1>6, SendsIsFine DEF Legs
  <1>8. \A p \in Pays : Claims(g, p) => Claims(f, p) /\ ~HasMoved(f)
    BY <1>2, <1>3, <1>7 DEF Claims, HasMoved, Legs
  <1>9. Show("transferring", f.got, With(t, g), handoff)  BY <1>1, <1>6 DEF Approved, Go, Next_
  <1>a. DOMAIN With(t, g) = Slots  BY DEF With, MovedInv, FnsOK
  <1>b. Went("transferring", f.got, With(t, g), handoff)  BY <1>9, <1>a, ShowIs
  <1> QED  BY <1>1, <1>2, <1>7, <1>8, <1>b, FnGoes

LEMMA TransferredKeeps ==
    ASSUME MovedInv, PageOnly, NEW t \in Slots, Transferred(t) PROVE MovedInv'
  <1>1. PICK f : f = thread[t]  OBVIOUS
  <1>2. /\ f.job = "transfer" /\ f.op = "transfer" /\ Fn(f) /\ f \in FnRecords /\ f.copy \in Copies /\ Known(f.copy.id)
        /\ ~f.sent /\ f.code = 200 /\ f.copy.id \in Pays
    BY <1>1, HereIs DEF Transferred, Ok, Fn, Coherent
  <1>3. MayAsk(f, "release", f.copy)
    <2>1. CASE mode.payu
      <3>1. PayuFn(f)  BY <1>1, <2>1, HereIs
      <3>2. f.copy.id \notin Pays \ lost  BY <1>2, <3>1 DEF PayuFn, Legs
      <3> QED  BY <1>2, <2>1, <3>1, <3>2 DEF MayAsk, JobKinds, Legs, PayuFn
    <2>2. CASE ~mode.payu  BY <1>2, <2>2 DEF MayAsk, JobKinds, Legs, Loop
    <2> QED  BY <2>1, <2>2
  <1>4. PICK g : g = Sends(f, "release", f.copy)  OBVIOUS
  <1>5. Fn(g) /\ HasMoved(g) /\ \A p \in Pays : Claims(g, p) <=> f.copy.id = p
    BY <1>2, <1>3, <1>4, SendsIsFine DEF Legs
  <1>6. \A p \in Pays : Claims(g, p) => Claims(f, p) /\ (HasMoved(f) => HasMoved(g))  BY <1>2, <1>5 DEF Claims, Legs
  <1>7. Stays(t, g)  BY <1>1, <1>4 DEF Transferred
  <1> QED  BY <1>1, <1>5, <1>6, <1>7, FnStays

LEMMA EndingsKeep ==
    ASSUME MovedInv, PageOnly, NEW t \in Slots, Released(t) \/ Answered(t) PROVE MovedInv'
  <1>1. CASE Released(t)
    <2>1. Show("success", thread[t].got, Ends(t), handoff)  BY <1>1 DEF Released, Go
    <2> QED  BY <2>1, HereIs, FnEnds
  <1>2. CASE Answered(t)
    <2>1. Show("error", shown, Ends(t), handoff) \/ Show(screen, shown, Ends(t), handoff)  BY <1>2 DEF Answered, Go, Fail
    <2> QED  BY <2>1, HereIs, FnEnds
  <1> QED  BY <1>1, <1>2

(* The poll *)

\* What a poll may act on: a payment, and what is known of it is so.
Seen(pay) ==
    /\ pay \in Copies /\ Known(pay.id) /\ pay.id \in Pays
    /\ pay.id \in Pays \ lost /\ pay.st \in Paid => pays[pay.id].st \in Paid

\* A function that goes on with the poll, but for what it waits for.
Polling(f) == /\ f \in FnRecords /\ f.seen = "none" /\ Fn(WaitsOn(f)) /\ \A p \in Pays : ~Claims(WaitsOn(f), p)

LEMMA ResumeKeeps ==
    ASSUME MovedInv, PageOnly, mode.payu, NEW t \in Slots, NEW f, Polling(f), NEW pay, Seen(pay), Resume(t, f, pay)
    PROVE  MovedInv'
  <1>1. PICK g, sh, h :
            /\ Show(IF g = NoJob THEN "form" ELSE screen, sh, With(t, g), h) /\ sh \in {pay, shown} /\ h \in {handoff, None}
            /\ \/ g = Sends(f, "receipt", pay)
               \/ g = Sends(f, "settle", pay) /\ pay.st = "CONFIRMED"
               \/ g = NoJob \/ g = WaitsOn(f)
    BY DEF Resume, Go
  <1>2. f \in FnRecords /\ f.seen = "none"  BY DEF Polling
  <1>3. Fn(g)
    <2>1. CASE g = Sends(f, "receipt", pay)
      <3>1. MayAsk(f, "receipt", pay)  BY <1>2 DEF MayAsk, Seen, JobKinds, Loop, Legs
      <3> QED  BY <1>2, <2>1, <3>1, SendsIsFine
    <2>2. CASE g = Sends(f, "settle", pay) /\ pay.st = "CONFIRMED"
      <3>1. MayAsk(f, "settle", pay)  BY <1>2, <2>2 DEF MayAsk, Seen, JobKinds, Loop, Legs, Paid
      <3> QED  BY <1>2, <2>2, <3>1, SendsIsFine
    <2>3. CASE g = NoJob \/ g = WaitsOn(f)  BY <2>3, NoJobIsFine DEF Polling
    <2> QED  BY <1>1, <2>1, <2>2, <2>3
  <1>4. PICK s : s = IF g = NoJob THEN "form" ELSE screen  OBVIOUS
  <1>5. DOMAIN With(t, g) = Slots  BY DEF With, MovedInv, FnsOK
  <1>6. Went(s, sh, With(t, g), h)  BY <1>1, <1>4, <1>5, ShowIs
  <1>7. s # "pending"  BY <1>4, HereIs
  <1>8. sh \in Copies /\ Known(sh.id)  BY <1>1, HereIs DEF Seen
  <1> QED  BY <1>1, <1>3, <1>6, <1>7, <1>8, FnGoes

LEMMA PollingIs ==
    ASSUME MovedInv, NEW t \in Slots, thread[t].job \in Loop, ~thread[t].sent
    PROVE  /\ Polling(thread[t]) /\ Polling([thread[t] EXCEPT !.asked = TRUE]) /\ Seen(thread[t].copy)
           /\ Heard(thread[t]) /\ thread[t].code = 200 => Seen(thread[t].got)
  <1>1. PICK f : f = thread[t]  OBVIOUS
  <1>2. /\ Fn(f) /\ f \in FnRecords /\ f.copy \in Copies /\ f.got \in Copies /\ Known(f.copy.id) /\ Known(f.got.id)
        /\ PayuFn(f) /\ f.job \in Loop /\ ~f.sent
    BY <1>1, HereIs
  <1>3. f.copy.id \in Pays  BY <1>2 DEF Fn, Coherent, Loop
  <1>4. Polling(f)
    <2>1. PICK g : g = WaitsOn(f)  OBVIOUS
    <2>2. Fn(g) /\ \A p \in Pays : ~Claims(g, p)  BY <1>2, <2>1, WaitsOnIsFine
    <2> QED  BY <1>2, <2>1, <2>2 DEF Polling, PayuFn
  <1>5. Polling([f EXCEPT !.asked = TRUE])
    <2>1. PICK yes \in BOOLEAN : yes = TRUE  OBVIOUS
    <2>2. PICK e : e = [f EXCEPT !.asked = yes]  OBVIOUS
    <2>3. e \in FnRecords /\ e.seen = f.seen  BY <1>2, <2>2 DEF FnRecords
    <2>4. PICK g : g = WaitsOn([f EXCEPT !.asked = TRUE])  OBVIOUS
    <2>5. Fn(g) /\ \A p \in Pays : ~Claims(g, p)  BY <1>2, <2>4, WaitsOnIsFine
    <2>6. e = [f EXCEPT !.asked = TRUE]  BY <2>1, <2>2
    <2> QED  BY <1>2, <2>3, <2>4, <2>5, <2>6 DEF Polling, PayuFn
  <1>6. Seen(f.copy)  BY <1>2, <1>3 DEF Seen, PayuFn
  <1>7. ASSUME Heard(f), f.code = 200 PROVE Seen(f.got)
    <2>1. f.got.id \in Pays /\ f.got.id = f.copy.id  BY <1>2, <1>7 DEF Fn, Coherent, Loop
    <2> QED  BY <1>2, <2>1 DEF Seen, PayuFn
  <1> QED  BY <1>1, <1>4, <1>5, <1>6, <1>7

LEMMA GivesUpPolling ==
    ASSUME MovedInv, PageOnly, NEW t \in Slots, Stays(t, NoJob) PROVE MovedInv'
  BY NoJobIsFine, FnStays

LEMMA PolledKeeps ==
    ASSUME MovedInv, PageOnly, NEW t \in Slots, Polled(t) PROVE MovedInv'
  <1>1. PICK f : f = thread[t]  OBVIOUS
  <1>2. f.job = "get" /\ f.job \in Loop /\ ~f.sent /\ Heard(f) /\ mode.payu /\ f \in FnRecords /\ PayuFn(f)
    BY <1>1, HereIs DEF Polled, Loop
  <1>3. Polling(f)  BY <1>1, <1>2, PollingIs
  <1>4. CASE Stays(t, NoJob)  BY <1>4, GivesUpPolling
  <1>5. CASE Stays(t, WaitsOn(f))  BY <1>3, <1>5, FnStays DEF Polling
  <1>6. CASE Ok(t) /\ Stays(t, Sends(f, "reconcile", f.got)) /\ f.got.st = "PENDING"
    <2>1. Seen(f.got)  BY <1>1, <1>2, <1>6, PollingIs DEF Ok
    <2>2. MayAsk(f, "reconcile", f.got)  BY <1>2, <1>6, <2>1 DEF MayAsk, Seen, JobKinds, Loop, Legs, PayuFn, Paid
    <2>3. PICK g : g = Sends(f, "reconcile", f.got)  OBVIOUS
    <2>4. Fn(g)  BY <1>2, <2>2, <2>3, SendsIsFine
    <2> QED  BY <1>2, <1>6, <2>3, <2>4, FnStays
  <1>7. CASE Ok(t) /\ Resume(t, f, f.got)
    <2>1. Seen(f.got)  BY <1>1, <1>2, <1>7, PollingIs DEF Ok
    <2> QED  BY <1>2, <1>3, <1>7, <2>1, ResumeKeeps
  <1> QED  BY <1>1, <1>4, <1>5, <1>6, <1>7 DEF Polled

LEMMA PollAgainKeeps ==
    ASSUME MovedInv, PageOnly, NEW t \in Slots, PollAgain(t) PROVE MovedInv'
  <1>1. PICK f : f = thread[t]  OBVIOUS
  <1>2. f.job = "wait" /\ f.job \in Loop /\ mode.payu /\ f \in FnRecords /\ PayuFn(f) /\ Fn(f)
    BY <1>1, HereIs DEF PollAgain, Loop
  <1>3. ~f.sent  BY <1>2 DEF Fn, Coherent, Legs
  <1>4. CASE Stays(t, NoJob)  BY <1>4, GivesUpPolling
  <1>5. CASE Stays(t, Poll(f))
    <2>1. Seen(f.copy)  BY <1>1, <1>2, <1>3, PollingIs
    <2>2. MayAsk(f, "get", f.copy)  BY <1>2, <2>1 DEF MayAsk, Seen, JobKinds, Loop, Legs, PayuFn
    <2> QED  BY <1>2, <1>5, <2>2, PollIsFine, FnStays
  <1> QED  BY <1>1, <1>4, <1>5 DEF PollAgain

LEMMA ReconciledKeeps ==
    ASSUME MovedInv, PageOnly, NEW t \in Slots, Reconciled(t) PROVE MovedInv'
  <1>1. PICK f : f = thread[t]  OBVIOUS
  <1>2. f.job = "reconcile" /\ f.job \in Loop /\ ~f.sent /\ Heard(f) /\ mode.payu
    BY <1>1, HereIs DEF Reconciled, Loop
  <1>3. Polling(f) /\ Polling([f EXCEPT !.asked = TRUE]) /\ Seen(f.copy)  BY <1>1, <1>2, PollingIs
  <1>4. CASE Stays(t, NoJob)  BY <1>4, GivesUpPolling
  <1>5. CASE Resume(t, f, f.copy)  BY <1>2, <1>3, <1>5, ResumeKeeps
  <1>6. CASE Ok(t) /\ Resume(t, [f EXCEPT !.asked = TRUE], f.got)
    <2>1. Seen(f.got)  BY <1>1, <1>2, <1>6, PollingIs DEF Ok
    <2> QED  BY <1>2, <1>3, <1>6, <2>1, ResumeKeeps
  <1> QED  BY <1>1, <1>4, <1>5, <1>6 DEF Reconciled

LEMMA SettleAnsweredKeeps ==
    ASSUME MovedInv, PageOnly, NEW t \in Slots, SettleAnswered(t) PROVE MovedInv'
  <1>1. PICK f : f = thread[t]  OBVIOUS
  <1>2. /\ f.job = "settle" /\ f.job \in Loop /\ ~f.sent /\ mode.payu /\ PayuFn(f) /\ f \in FnRecords
    BY <1>1, HereIs DEF SettleAnswered, Loop
  <1>3. CASE Stays(t, NoJob)  BY <1>3, GivesUpPolling
  <1>4. CASE Show("success", f.got, Ends(t), handoff)  BY <1>1, <1>4, HereIs, FnEnds
  <1>5. CASE ~Ok(t) /\ Show("transferring", f.copy, With(t, Sends(f, "transfer", f.copy)), handoff)
    <2>1. Seen(f.copy) /\ f.code # 200  BY <1>1, <1>2, <1>5, PollingIs DEF Ok
    <2>2. MayAsk(f, "transfer", f.copy)  BY <1>2, <2>1 DEF MayAsk, Seen, JobKinds, Legs, PayuFn
    <2>3. PICK g : g = Sends(f, "transfer", f.copy)  OBVIOUS
    <2>4. Fn(g)  BY <1>2, <2>2, <2>3, SendsIsFine
    <2>5. DOMAIN With(t, g) = Slots  BY DEF With, MovedInv, FnsOK
    <2>6. Went("transferring", f.copy, With(t, g), handoff)  BY <1>5, <2>3, <2>5, ShowIs
    <2> QED  BY <1>2, <2>1, <2>4, <2>6, FnGoes DEF Seen
  <1> QED  BY <1>1, <1>3, <1>4, <1>5 DEF SettleAnswered, Go, Next_

LEMMA ReceiptAnsweredKeeps ==
    ASSUME MovedInv, PageOnly, NEW t \in Slots, ReceiptAnswered(t) PROVE MovedInv'
  <1>1. CASE Stays(t, NoJob)  BY <1>1, GivesUpPolling
  <1>2. ASSUME NEW sh \in {shown, thread[t].got}, Show("success", sh, Ends(t), handoff) PROVE MovedInv'
    BY <1>2, HereIs, FnEnds
  <1> QED  BY <1>1, <1>2 DEF ReceiptAnswered, Go

LEMMA GoesOnKeeps ==
    ASSUME MovedInv, NEW t \in Slots, GoesOn(t) PROVE MovedInv'
  <1>1. page' = page  BY DEF GoesOn, Collected, Retry, failWithRefund, Approved, Transferred, Released, Answered, Polled,
                          PollAgain, Reconciled, SettleAnswered, ReceiptAnswered, Resume, Stays, Keep
  <1>2. PageOnly  BY <1>1 DEF GoesOn, Elsewhere, server, world, PageOnly, MovedInv, PageOK
  <1> QED  BY <1>2, CollectedKeeps, RetryKeeps, FailedKeeps, ApprovedKeeps, TransferredKeeps, EndingsKeep, PolledKeeps,
              PollAgainKeeps, ReconciledKeeps, SettleAnsweredKeeps, ReceiptAnsweredKeeps DEF GoesOn

-----------------------------------------------------------------------------
(* The buttons *)

LEMMA StartIs ==
    ASSUME MovedInv, NEW f, NEW th \in Start(f)
    PROVE  \E t \in Slots : th = With(t, f) /\ DOMAIN th = Slots /\ thread[t] = NoJob
                            /\ \A u \in Slots : th[u] = IF u = t THEN f ELSE thread[u]
  <1>1. PICK t \in Slots : th = [thread EXCEPT ![t] = f] /\ thread[t] = NoJob  BY DEF Start
  <1>2. DOMAIN thread = Slots  BY DEF MovedInv, FnsOK
  <1> QED  BY <1>1, <1>2 DEF With

LEMMA NewIs ==
    ASSUME NEW st \in Statuses
    PROVE  [NoJob EXCEPT !.seen = st] \in FnRecords /\ [NoJob EXCEPT !.seen = st].seen = st
  BY NoJobIsFine DEF Fn, FnRecords

LEMMA BuyKeeps == ASSUME MovedInv, PageOnly, Buy PROVE MovedInv'
  <1>1. PICK g : g = Sends(NoJob, "collect", NoCopy)  OBVIOUS
  <1>2. MayAsk(NoJob, "collect", NoCopy)
    BY NoCopyIsACopy, BuyFlowAssumption DEF MayAsk, JobKinds, Loop, Legs, NoJob, NoCopy, Known
  <1>3. NoJob \in FnRecords  BY NoJobIsFine DEF Fn
  <1>4. Fn(g) /\ \A p \in Pays : ~Claims(g, p)  BY <1>1, <1>2, <1>3, SendsIsFine DEF Legs
  <1>5. PICK th \in Start(g) : Show("paying", shown, th, handoff)  BY <1>1 DEF Buy, Go
  <1>6. PICK t \in Slots : th = With(t, g) /\ DOMAIN th = Slots  BY <1>5, StartIs
  <1>7. Went("paying", shown, With(t, g), handoff)  BY <1>5, <1>6, ShowIs
  <1>8. shown \in Copies /\ Known(shown.id)  BY DEF MovedInv, PageOK
  <1> QED  BY <1>4, <1>7, <1>8, FnGoes

LEMMA OfferedIs ==
    ASSUME MovedInv, screen = "pending"
    PROVE  /\ ~mode.payu /\ handoff = None /\ shown \in Copies /\ Known(shown.id) /\ shown.id \in Pays /\ shown.st \in Statuses
           /\ \A p \in Pays \ lost : Singly(thread, screen, shown, p)
  BY DEF MovedInv, PageOK, SinglyOK, Copies

LEMMA ApproveKeeps == ASSUME MovedInv, PageOnly, Approve PROVE MovedInv'
  <1>1. PICK f : f = [NoJob EXCEPT !.seen = shown.st]  OBVIOUS
  <1>2. screen = "pending"  BY DEF Approve
  <1>3. f \in FnRecords  BY <1>1, <1>2, OfferedIs, NewIs
  <1>4. MayAsk(f, "approve", shown)  BY <1>2, OfferedIs DEF MayAsk, JobKinds, Loop, Legs
  <1>5. PICK g : g = Sends(f, "approve", shown)  OBVIOUS
  <1>6. Fn(g) /\ ~HasMoved(g) /\ \A p \in Pays : Claims(g, p) <=> shown.id = p  BY <1>3, <1>4, <1>5, SendsIsFine DEF Legs
  <1>7. PICK th \in Start(g) : Show("confirming", shown, th, handoff)  BY <1>1, <1>5 DEF Approve, Go
  <1>8. PICK t \in Slots : DOMAIN th = Slots /\ \A u \in Slots : th[u] = IF u = t THEN g ELSE thread[u]  BY <1>7, StartIs
  <1>9. \A u \in Slots : Fn(th[u])  BY <1>6, <1>8 DEF MovedInv, FnsOK
  <1>a. Went("confirming", shown, th, handoff)  BY <1>7, <1>8, ShowIs
  <1>b. ASSUME NEW p \in Pays \ lost PROVE Singly(th, "confirming", shown, p)
    <2>1. Singly(thread, screen, shown, p)  BY <1>2, OfferedIs
    <2>2. CASE shown.id = p
      <3>1. delivered[p] = 0 /\ \A u \in Slots : ~Claims(thread[u], p)  BY <1>2, <2>1, <2>2 DEF Singly
      <3> QED  BY <1>8, <3>1 DEF Singly
    <2>3. CASE shown.id # p
      <3>1. ~Claims(g, p)  BY <1>6, <2>3
      <3> QED  BY <1>8, <2>1, <3>1 DEF Singly
    <2> QED  BY <2>2, <2>3
  <1> QED  BY <1>2, <1>9, <1>a, <1>b, OfferedIs, PageGoes DEF PageOnly

LEMMA DeclineKeeps == ASSUME MovedInv, PageOnly, Decline PROVE MovedInv'
  <1>1. PICK f : f = [NoJob EXCEPT !.seen = shown.st]  OBVIOUS
  <1>2. screen = "pending"  BY DEF Decline
  <1>3. f \in FnRecords  BY <1>1, <1>2, OfferedIs, NewIs
  <1>4. MayAsk(f, "decline", shown)  BY <1>2, OfferedIs DEF MayAsk, JobKinds, Loop, Legs
  <1>5. PICK g : g = Sends(f, "decline", shown)  OBVIOUS
  <1>6. Fn(g) /\ \A p \in Pays : ~Claims(g, p)  BY <1>3, <1>4, <1>5, SendsIsFine DEF Legs
  <1>7. thread' \in Start(g) /\ UNCHANGED <<screen, shown, handoff>>  BY <1>1, <1>5 DEF Decline
  <1>8. PICK th : th = thread'  OBVIOUS
  <1>9. PICK t \in Slots : th = With(t, g) /\ DOMAIN th = Slots  BY <1>7, <1>8, StartIs
  <1>a. Went(screen, shown, With(t, g), handoff)  BY <1>7, <1>8, <1>9 DEF Went, Matches
  <1> QED  BY <1>2, <1>6, <1>a, OfferedIs, FnGoes

LEMMA TurnsPage ==
    ASSUME MovedInv, PageOnly, NEW s, s # "pending", NEW sh \in Copies, Known(sh.id), NEW h \in {handoff, None},
           Show(s, sh, thread, h)
    PROVE  MovedInv'
  <1>1. DOMAIN thread = Slots /\ \A t \in Slots : Fn(thread[t])  BY DEF MovedInv, FnsOK
  <1>2. Went(s, sh, thread, h)  BY <1>1, ShowIs
  <1>3. h \in [id : Pays, asset : Properties] \cup {None} /\ (h # None => Known(h.id)) /\ (~mode.payu => h = None)
    BY DEF MovedInv, PageOK
  <1>4. ASSUME ~mode.payu, NEW p \in Pays \ lost PROVE Singly(thread, s, sh, p)
    BY <1>4 DEF MovedInv, SinglyOK, Singly
  <1> QED  BY <1>1, <1>2, <1>3, <1>4, PageGoes DEF PageOnly

LEMMA OtherButtonsKeep == ASSUME MovedInv, PageOnly, Countdown \/ TryAgain \/ BuyMore PROVE MovedInv'
  <1>1. Known(NoCopy.id)  BY BuyFlowAssumption DEF Known, NoCopy
  <1>2. shown \in Copies /\ Known(shown.id)  BY DEF MovedInv, PageOK
  <1>3. CASE Countdown
    <2>1. Show("error", shown, thread, handoff)  BY <1>3 DEF Countdown, Fail
    <2> QED  BY <1>2, <2>1, TurnsPage
  <1>4. CASE TryAgain \/ BuyMore
    <2>1. PICK h \in {handoff, None} : Show("form", NoCopy, thread, h)  BY <1>4 DEF TryAgain, BuyMore, Go
    <2> QED  BY <1>1, <2>1, NoCopyIsACopy, TurnsPage
  <1> QED  BY <1>3, <1>4

LEMMA ButtonsKeep == ASSUME MovedInv, Buy \/ Approve \/ Decline \/ Countdown \/ TryAgain \/ BuyMore PROVE MovedInv'
  <1>1. PageOnly
    BY DEF PageOnly, Buy, Approve, Decline, Countdown, TryAgain, BuyMore, Keep, Elsewhere, server, world, MovedInv, PageOK
  <1> QED  BY <1>1, BuyKeeps, ApproveKeeps, DeclineKeeps, OtherButtonsKeep

-----------------------------------------------------------------------------
(* What other steps do to a function *)

LEMMA FnKept ==
    ASSUME NEW f, Fn(f), mode' = mode, \A i : Known(i) => Known(i)',
           f.copy.id \in Pays \ lost' =>
               /\ f.copy.id \notin lost
               /\ mode.payu => (pays[f.copy.id].st \in Paid => pays'[f.copy.id].st \in Paid) /\ (remaining = 0 => remaining' = 0)
    PROVE  Fn(f)'
  <1>1. mode.payu => PayuFn(f)'  BY DEF Fn, PayuFn
  <1> QED  BY <1>1 DEF Fn

LEMMA FnDropped ==
    ASSUME NEW f, Fn(f), f.sent, mode' = mode, \A i : Known(i) => Known(i)', f.copy.id \notin Pays \ lost',
           NEW g, g = [f EXCEPT !.sent = FALSE, !.code = 0]
    PROVE  /\ Fn(g)' /\ \A p \in Pays : Claims(g, p) <=> Claims(f, p)
           /\ HasMoved(g) <=> HasMoved(f)
  <1>1. PICK no \in BOOLEAN : no = FALSE  OBVIOUS
  <1>2. PICK zero \in Verdicts : zero = 0  BY DEF Verdicts
  <1>3. g = [f EXCEPT !.sent = no, !.code = zero]  BY <1>1, <1>2
  <1>4. f \in FnRecords  BY DEF Fn
  <1>5. /\ g \in FnRecords /\ g.job = f.job /\ g.op = f.op /\ g.sent = no /\ g.code = zero /\ g.copy = f.copy /\ g.got = f.got
        /\ g.seen = f.seen
    BY <1>3, <1>4 DEF FnRecords
  <1>6. f.op # "none" /\ f.job # "idle"  BY DEF Fn, Coherent, NoJob
  <1>7. Coherent(g)  BY <1>1, <1>2, <1>5, <1>6 DEF Fn, Coherent, Heard
  <1>8. mode.payu => PayuFn(g)'  BY <1>5 DEF Fn, PayuFn
  <1>9. Fn(g)'  BY <1>5, <1>7, <1>8 DEF Fn
  <1>a. \A p \in Pays : Claims(g, p) <=> Claims(f, p)  BY <1>2, <1>5 DEF Claims
  <1>b. HasMoved(g) <=> HasMoved(f)  BY <1>2, <1>5 DEF HasMoved
  <1> QED  BY <1>9, <1>a, <1>b

LEMMA SaidOf ==
    ASSUME MovedInv, NEW t \in Slots, thread[t].sent
    PROVE  LET f == thread[t] IN
           /\ f.op \in Ops \ {"none", "idle", "wait"} /\ f.job # "idle" /\ f.copy \in Copies /\ Known(f.copy.id)
           /\ IF f.op = "collect" THEN f.copy = NoCopy ELSE f.copy.id \in Pays
  <1>1. PICK f : f = thread[t]  OBVIOUS
  <1>2. f \in FnRecords /\ f.copy \in Copies /\ Known(f.copy.id) /\ Coherent(f) /\ f.sent /\ f.op \in Ops
    BY <1>1, HereIs, FnFields DEF Fn
  <1>3. f.job # "idle" /\ f.op # "none" /\ f.job # "wait"  BY <1>2 DEF Coherent, NoJob, Legs
  <1>4. f.op \in {f.job, "reattach"} /\ (f.op = "reattach" => f.job \in Legs \/ f.job = "reattach")
    BY <1>2, <1>3 DEF Coherent
  <1>5. f.op \notin {"idle", "wait"} /\ (f.op = "collect" <=> f.job = "collect")
    BY <1>3, <1>4 DEF Legs
  <1> QED  BY <1>1, <1>2, <1>3, <1>5 DEF Coherent

LEMMA ReloadKeeps == ASSUME MovedInv, Reload PROVE MovedInv'
  <1>1. /\ page' \in Properties /\ screen' = "form" /\ shown' = NoCopy /\ UNCHANGED <<pays, remaining, delivered, psp, mode>>
        /\ late' = late \cup {[op |-> thread[t].op, copy |-> thread[t].copy] : t \in {u \in Slots : thread[u].sent /\ thread[u].op # "get"}}
        /\ lost' = lost \cup ({thread[t].copy.id : t \in {u \in Slots : thread[u].job # "idle"}} \ {None})
    BY DEF Reload, server, world
  <1>2. \A i : Known(i)' <=> Known(i)  BY <1>1 DEF Known
  <1>3. lost \subseteq lost'  BY <1>1
  <1>4. \A f : Fn(f) => Fn(f)'  BY <1>1, <1>2, <1>3, FnKept
  <1>5. PICK blank : blank = [t \in Slots |-> NoJob]  OBVIOUS
  <1>6. \/ thread' = blank /\ handoff' \in {handoff, None}
        \/ /\ handoff # None /\ handoff' = handoff
           /\ \E u \in Slots : thread' = [blank EXCEPT ![u] = Resumes(handoff.id)]
    BY <1>1, <1>5 DEF Reload, Mount, Resumes
  <1>7. ASSUME handoff # None PROVE mode.payu /\ handoff.id \in Pays /\ Known(handoff.id)
    BY <1>7 DEF MovedInv, PageOK
  <1>8. ASSUME NEW t \in Slots
        PROVE  DOMAIN thread' = Slots /\ (thread'[t] = NoJob \/ (handoff # None /\ thread'[t] = Resumes(handoff.id)))
    BY <1>5, <1>6
  <1>9. ASSUME NEW t \in Slots PROVE Fn(thread'[t]) /\ \A p \in Pays : ~Claims(thread'[t], p)
    <2>1. CASE thread'[t] = NoJob  BY <2>1, NoJobIsFine
    <2>2. CASE handoff # None /\ thread'[t] = Resumes(handoff.id)  BY <1>7, <2>2, ResumesIsFine
    <2> QED  BY <1>8, <2>1, <2>2
  <1>a. FnsOK'
    <2>1. DOMAIN thread' = Slots  BY <1>5, <1>6
    <2>2. \A t \in Slots : \E f : f = thread'[t] /\ Fn(f)'  BY <1>4, <1>9
    <2> QED  BY <2>1, <2>2, FnsNext
  <1>b. lost' \subseteq Pays
    <2>1. \A t \in Slots : thread[t].copy.id \in Pays \cup {None}
      <3>1. ASSUME NEW t \in Slots PROVE thread[t].copy.id \in Pays \cup {None}
        <4>1. thread[t].copy \in Copies  BY HereIs
        <4> QED  BY <4>1 DEF Copies
      <3> QED  BY <3>1
    <2> QED  BY <1>1, <2>1 DEF MovedInv, RowsOK
  <1>c. RowsOK'  BY <1>1, <1>3, <1>b DEF MovedInv, RowsOK
  <1>d. LateOK'
    <2>1. ASSUME NEW t \in Slots, thread[t].sent
          PROVE  \/ thread[t].op = "collect" /\ thread[t].copy = NoCopy
                 \/ /\ thread[t].op \in Ops \ {"none", "idle", "wait", "collect"} /\ thread[t].copy \in Copies
                    /\ thread[t].copy.id \in lost' /\ Known(thread[t].copy.id)
      <3>1. PICK f : f = thread[t]  OBVIOUS
      <3>2. /\ f.op \in Ops \ {"none", "idle", "wait"} /\ f.job # "idle" /\ f.copy \in Copies /\ Known(f.copy.id)
            /\ IF f.op = "collect" THEN f.copy = NoCopy ELSE f.copy.id \in Pays
        BY <2>1, <3>1, SaidOf
      <3>3. f.op # "collect" => f.copy.id \in lost'
        <4>1. None \notin Pays  BY BuyFlowAssumption
        <4> QED  BY <1>1, <3>1, <3>2, <4>1
      <3> QED  BY <3>1, <3>2, <3>3
    <2>2. ASSUME NEW c \in late'
          PROVE  \/ c.op = "collect" /\ c.copy = NoCopy
                 \/ c.op \in Ops \ {"none", "idle", "wait", "collect"} /\ c.copy \in Copies /\ c.copy.id \in lost' /\ Known(c.copy.id)
      <3>1. CASE c \in late  BY <1>3, <3>1 DEF MovedInv, LateOK
      <3>2. CASE c \notin late
        <4>1. PICK t \in Slots : thread[t].sent /\ c = [op |-> thread[t].op, copy |-> thread[t].copy]  BY <1>1, <3>2
        <4>2. c.op = thread[t].op /\ c.copy = thread[t].copy  BY <4>1
        <4> QED  BY <2>1, <4>1, <4>2
      <3> QED  BY <3>1, <3>2
    <2> QED  BY <1>2, <2>2 DEF LateOK
  <1>e. PageOK'
    <2>1. Known(NoCopy.id)  BY BuyFlowAssumption DEF Known, NoCopy
    <2>2. handoff' \in {handoff, None}  BY <1>6
    <2> QED  BY <1>1, <1>2, <2>1, <2>2, NoCopyIsACopy DEF MovedInv, PageOK
  <1>f. SinglyOK'
    <2>1. ASSUME ~mode.payu, NEW p \in Pays \ lost' PROVE Singly(thread, screen, shown, p)'
      <3>1. Singly(thread, screen, shown, p)  BY <1>3, <2>1 DEF MovedInv, SinglyOK
      <3> QED  BY <1>1, <1>9, <3>1 DEF Singly
    <2> QED  BY <1>1, <2>1 DEF SinglyOK
  <1> QED  BY <1>a, <1>c, <1>d, <1>e, <1>f DEF MovedInv

-----------------------------------------------------------------------------
(* The server *)

\* What a handler may make of a row.
Proper(r) ==
    /\ r.p \in Pays /\ r.row \in Copies /\ r.row.id = r.p /\ r.sold \in {0, 1} /\ r.sold <= remaining
    /\ r.p \notin lost =>
          /\ r.row.st # "none"
          /\ mode.payu => /\ pays[r.p].st \in Paid => r.row.st \in Paid
                          /\ pays[r.p].st = "RELEASED" => r.row.st = "RELEASED"
                          /\ r.sold = IF r.row.st = "RELEASED" /\ pays[r.p].st # "RELEASED" THEN 1 ELSE 0
Replies(r, op, c) ==
    /\ r.code \in Verdicts \ {0} /\ r.row \in Copies /\ r.p \in Pays \cup {None}
    /\ IF r.p = None THEN op = "collect" /\ r.code # 200 /\ r.row = NoCopy ELSE Proper(r)
    /\ IF op = "collect" THEN r.p # None => psp[r.p] = "none" /\ r.sold = 0 ELSE r.p = c.id
    /\ r.sold = 1 => (op = "transfer" /\ r.code = 200) \/ op \in Loop
    /\ op = "transfer" /\ r.code = 200 => remaining > 0
    /\ op = "settle" /\ r.code # 200 => pays[c.id].st \notin Paid \/ remaining = 0

\* With PayU, what is asked about a payment that was not given up on.
MayHandle(op, c) ==
    mode.payu /\ c.id \in Pays \ lost =>
        op \in {"get", "reconcile", "settle", "receipt"} \/ (op \in {"transfer", "reattach"} /\ remaining = 0)

LEMMA ResultIs ==
    ASSUME NEW code, NEW p, NEW row, NEW sold
    PROVE  /\ Result(code, p, row, sold).code = code /\ Result(code, p, row, sold).p = p
           /\ Result(code, p, row, sold).row = row /\ Result(code, p, row, sold).sold = sold
  BY DEF Result

LEMMA RowIs ==
    ASSUME MovedInv, NEW p \in Pays, Known(p)
    PROVE  /\ pays[p] \in Copies /\ pays[p].id = p /\ (p \notin lost => pays[p].st # "none") /\ remaining \in Nat
           /\ \A st \in Statuses : To(p, st) \in Copies /\ To(p, st).id = p /\ To(p, st).st = st
           /\ Settled_(p) \in Copies /\ Settled_(p).id = p /\ Settled_(p).st = "RELEASED"
  <1>1. pays[p] \in Copies /\ pays[p].id = p /\ remaining \in Nat  BY DEF MovedInv, RowsOK
  <1>2. psp[p] # "none"  BY DEF Known
  <1>3. p \notin lost => pays[p].st # "none"  BY <1>2 DEF MovedInv, RowsOK
  <1>4. \A st \in Statuses : To(p, st) \in Copies /\ To(p, st).id = p /\ To(p, st).st = st  BY <1>1 DEF To, Copies
  <1>5. Settled_(p) \in Copies /\ Settled_(p).id = p /\ Settled_(p).st = "RELEASED"
    <2>1. PICK yes \in BOOLEAN : yes = TRUE  OBVIOUS
    <2>2. Settled_(p) = [id |-> p, st |-> "RELEASED", tid |-> yes]  BY <2>1 DEF Settled_
    <2> QED  BY <2>2 DEF Copies, Statuses
  <1> QED  BY <1>1, <1>3, <1>4, <1>5

LEMMA RefuseIs ==
    ASSUME MovedInv, NEW p \in Pays, Known(p), NEW code \in Verdicts \ {0}, NEW r, r = Refuse(code, p)
    PROVE  /\ r.code = code /\ r.p = p /\ r.row = pays[p] /\ r.sold = 0 /\ Proper(r) /\ r.p # None
  <1>1. r.code = code /\ r.p = p /\ r.row = pays[p] /\ r.sold = 0  BY ResultIs DEF Refuse
  <1> QED  BY <1>1, RowIs, BuyFlowAssumption DEF Proper

\* A row whose status changes and no tokens with it.
LEMMA TurnsIs ==
    ASSUME MovedInv, NEW p \in Pays, Known(p), NEW code \in Verdicts \ {0}, NEW st \in Statuses \ {"none"},
           NEW r, r = Result(code, p, To(p, st), 0),
           mode.payu /\ p \notin lost =>
               (pays[p].st \in Paid => st \in Paid) /\ (st = "RELEASED" <=> pays[p].st = "RELEASED")
    PROVE  r.code = code /\ r.p = p /\ r.row \in Copies /\ r.row.st = st /\ r.sold = 0 /\ Proper(r) /\ r.p # None
  <1>1. r.code = code /\ r.p = p /\ r.row = To(p, st) /\ r.sold = 0  BY ResultIs
  <1> QED  BY <1>1, RowIs, BuyFlowAssumption DEF Proper

\* A row that is settled.
LEMMA SettlesIs ==
    ASSUME MovedInv, NEW p \in Pays, Known(p), NEW sold \in {0, 1}, sold <= remaining,
           NEW r, r = Result(200, p, Settled_(p), sold),
           mode.payu /\ p \notin lost => sold = 1 /\ pays[p].st # "RELEASED"
    PROVE  r.code = 200 /\ r.p = p /\ r.row \in Copies /\ r.sold = sold /\ Proper(r) /\ r.p # None
  <1>1. r.code = 200 /\ r.p = p /\ r.row = Settled_(p) /\ r.sold = sold  BY ResultIs
  <1> QED  BY <1>1, RowIs, BuyFlowAssumption DEF Proper, Paid

LEMMA CollectReplies ==
    ASSUME MovedInv, NEW c, NEW r \in collect PROVE Replies(r, "collect", c)
  <1>1. CASE r = Result(400, None, NoCopy, 0)
    BY <1>1, ResultIs, NoCopyIsACopy DEF Replies, Verdicts, Loop
  <1>2. ASSUME NEW p \in Pays, psp[p] = "none", r = Result(200, p, [Unknown(p) EXCEPT !.st = "PENDING"], 0)
        PROVE  Replies(r, "collect", c)
    <2>1. PICK row : row = [Unknown(p) EXCEPT !.st = "PENDING"]  OBVIOUS
    <2>2. row \in Copies /\ row.id = p /\ row.st = "PENDING"  BY <2>1, NoCopyIsACopy DEF Copies, Statuses
    <2>3. r.code = 200 /\ r.p = p /\ r.row = row /\ r.sold = 0  BY <1>2, <2>1, ResultIs
    <2>4. pays[p].st = "none"  BY <1>2, NoCopyIsACopy DEF MovedInv, RowsOK
    <2>5. Proper(r)  BY <2>2, <2>3, <2>4 DEF Proper, MovedInv, RowsOK, Paid
    <2> QED  BY <1>2, <2>2, <2>3, <2>5, BuyFlowAssumption DEF Replies, Verdicts, Loop
  <1> QED  BY <1>1, <1>2 DEF collect

LEMMA ApproveReplies ==
    ASSUME MovedInv, NEW c \in Copies, c.id \in Pays, Known(c.id), MayHandle("approve", c), NEW r \in approve(c.id)
    PROVE  Replies(r, "approve", c)
  <1>1. ~(mode.payu /\ c.id \notin lost)  BY DEF MayHandle
  <1>2. CASE r = Refuse(404, c.id) \/ r = Refuse(400, c.id)
    <2>1. PICK code \in {404, 400} : r = Refuse(code, c.id)  BY <1>2
    <2>2. code \in Verdicts \ {0}  BY DEF Verdicts
    <2> QED  BY <2>1, <2>2, RefuseIs, RowIs DEF Replies
  <1>3. ASSUME NEW code \in {400, 200}, NEW st \in {"EXPIRED", "FAILED", "CONFIRMED"}, r = Result(code, c.id, To(c.id, st), 0)
        PROVE  Replies(r, "approve", c)
    <2>1. code \in Verdicts \ {0} /\ st \in Statuses \ {"none"}  BY DEF Verdicts, Statuses
    <2> QED  BY <1>1, <1>3, <2>1, TurnsIs DEF Replies
  <1> QED  BY <1>2, <1>3 DEF approve

LEMMA ReconcileReplies ==
    ASSUME MovedInv, NEW c \in Copies, c.id \in Pays, Known(c.id), NEW r \in reconcile(c.id)
    PROVE  Replies(r, "reconcile", c)
  <1>1. remaining \in Nat  BY RowIs
  <1>2. ASSUME NEW code \in {404, 502, 200}, r = Refuse(code, c.id) PROVE Replies(r, "reconcile", c)
    <2>1. code \in Verdicts \ {0}  BY DEF Verdicts
    <2> QED  BY <1>2, <2>1, RefuseIs, RowIs DEF Replies
  <1>3. ASSUME pays[c.id].st \in {"PENDING", "CONFIRMED"}, r = confirmAndSettle(c.id) PROVE Replies(r, "reconcile", c)
    <2>1. CASE remaining = 0
      <3>1. r = Result(200, c.id, To(c.id, "CONFIRMED"), 0)  BY <1>3, <2>1 DEF confirmAndSettle
      <3> QED  BY <1>3, <3>1, TurnsIs DEF Replies, Verdicts, Statuses, Paid
    <2>2. CASE remaining # 0
      <3>1. r = Result(200, c.id, Settled_(c.id), 1)  BY <1>3, <2>2 DEF confirmAndSettle
      <3>2. 1 <= remaining  BY <1>1, <2>2
      <3> QED  BY <1>3, <3>1, <3>2, SettlesIs DEF Replies, Verdicts, Loop
    <2> QED  BY <2>1, <2>2
  <1>4. ASSUME pays[c.id].st = "PENDING", r = Result(200, c.id, To(c.id, "DECLINED"), 0) PROVE Replies(r, "reconcile", c)
    BY <1>4, TurnsIs DEF Replies, Verdicts, Statuses, Paid
  <1>5. CASE r \in {Refuse(404, c.id), Refuse(502, c.id), Refuse(200, c.id)}  BY <1>2, <1>5
  <1> QED  BY <1>3, <1>4, <1>5 DEF reconcile

LEMMA SettleReplies ==
    ASSUME MovedInv, NEW c \in Copies, c.id \in Pays, Known(c.id), NEW op \in {"settle", "receipt"}, NEW r, r = settle(c.id)
    PROVE  Replies(r, op, c)
  <1>1. remaining \in Nat  BY RowIs
  <1>2. ASSUME NEW code \in {404, 200, 409}, r = Refuse(code, c.id),
               code # 200 => pays[c.id].st \notin Paid \/ remaining = 0
        PROVE  Replies(r, op, c)
    <2>1. code \in Verdicts \ {0}  BY DEF Verdicts
    <2> QED  BY <1>2, <2>1, RefuseIs, RowIs DEF Replies
  <1>3. ASSUME pays[c.id].st = "CONFIRMED", remaining # 0, r = Result(200, c.id, Settled_(c.id), 1) PROVE Replies(r, op, c)
    <2>1. 1 <= remaining  BY <1>1, <1>3
    <2> QED  BY <1>3, <2>1, SettlesIs DEF Replies, Verdicts, Loop
  <1> QED  BY <1>2, <1>3 DEF settle, Paid

LEMMA TransferReplies ==
    ASSUME MovedInv, NEW c \in Copies, c.id \in Pays, Known(c.id), MayHandle("transfer", c), NEW r, r = transfer(c.id)
    PROVE  Replies(r, "transfer", c)
  <1>1. remaining \in Nat  BY RowIs
  <1>2. CASE r = Refuse(400, c.id)  BY <1>2, RefuseIs, RowIs DEF Replies, Verdicts
  <1>3. CASE remaining > 0 /\ r = Result(200, c.id, pays[c.id], 1)
    <2>1. r.code = 200 /\ r.p = c.id /\ r.row = pays[c.id] /\ r.sold = 1  BY <1>3, ResultIs
    <2>2. ~(mode.payu /\ c.id \notin lost)  BY <1>3 DEF MayHandle
    <2>3. Proper(r)  BY <1>1, <1>3, <2>1, <2>2, RowIs DEF Proper
    <2> QED  BY <1>3, <2>1, <2>3, RowIs, BuyFlowAssumption DEF Replies, Verdicts
  <1> QED  BY <1>2, <1>3 DEF transfer

LEMMA LegsReply ==
    ASSUME MovedInv, NEW c \in Copies, c.id \in Pays, Known(c.id), NEW op \in {"release", "decline", "refund"}, MayHandle(op, c),
           NEW r, r = IF op = "release" THEN release(c.id) ELSE IF op = "decline" THEN decline(c.id) ELSE refund(c.id)
    PROVE  Replies(r, op, c)
  <1>1. ~(mode.payu /\ c.id \notin lost)  BY DEF MayHandle
  <1>2. remaining \in Nat  BY RowIs
  <1>3. ASSUME NEW code \in {404, 400}, r = Refuse(code, c.id) PROVE Replies(r, op, c)
    <2>1. code \in Verdicts \ {0}  BY DEF Verdicts
    <2> QED  BY <1>3, <2>1, RefuseIs, RowIs DEF Replies
  <1>4. CASE r = Result(200, c.id, Settled_(c.id), 0)  BY <1>1, <1>2, <1>4, SettlesIs DEF Replies, Verdicts
  <1>5. ASSUME NEW st \in {"DECLINED", "REFUNDED"}, r = Result(200, c.id, To(c.id, st), 0) PROVE Replies(r, op, c)
    <2>1. 200 \in Verdicts \ {0} /\ st \in Statuses \ {"none"}  BY DEF Verdicts, Statuses
    <2> QED  BY <1>1, <1>5, <2>1, TurnsIs DEF Replies
  <1> QED  BY <1>3, <1>4, <1>5 DEF release, decline, refund

LEMMA ReattachReplies ==
    ASSUME MovedInv, NEW c \in Copies, c.id \in Pays, Known(c.id), NEW r, r = reattach(c)
    PROVE  Replies(r, "reattach", c)
  <1>1. CASE r = Refuse(200, c.id)  BY <1>1, RefuseIs, RowIs DEF Replies, Verdicts
  <1>2. CASE pays[c.id].st = "none" /\ r = Result(200, c.id, c, 0)
    <2>1. r.code = 200 /\ r.p = c.id /\ r.row = c /\ r.sold = 0  BY <1>2, ResultIs
    <2>2. c.id \in lost /\ remaining \in Nat  BY <1>2, RowIs
    <2>3. Proper(r)  BY <2>1, <2>2 DEF Proper
    <2> QED  BY <2>1, <2>3, BuyFlowAssumption DEF Replies, Verdicts
  <1> QED  BY <1>1, <1>2 DEF reattach

LEMMA GetReplies ==
    ASSUME MovedInv, NEW c \in Copies, c.id \in Pays, Known(c.id), NEW r, r = get(c.id)
    PROVE  Replies(r, "get", c)
  <1>1. ASSUME NEW code \in {404, 200}, r = Refuse(code, c.id) PROVE Replies(r, "get", c)
    <2>1. code \in Verdicts \ {0}  BY DEF Verdicts
    <2> QED  BY <1>1, <2>1, RefuseIs, RowIs DEF Replies
  <1>2. CASE pays[c.id].st = "PENDING" /\ r = Result(200, c.id, To(c.id, "EXPIRED"), 0)
    BY <1>2, TurnsIs DEF Replies, Verdicts, Statuses, Paid
  <1> QED  BY <1>1, <1>2 DEF get

LEMMA HandledReplies ==
    ASSUME MovedInv, NEW op \in Ops \ {"none", "idle", "wait"}, NEW c \in Copies, Known(c.id),
           IF op = "collect" THEN c = NoCopy ELSE c.id \in Pays, MayHandle(op, c), NEW r \in Handled(op, c)
    PROVE  Replies(r, op, c)
  <1>1. op \in {"collect", "approve", "reconcile", "transfer", "release", "reattach", "decline", "refund", "get", "settle", "receipt"}
    BY DEF Ops, JobKinds, Legs, Loop
  <1>2. CASE op = "collect"  BY <1>2, CollectReplies DEF Handled
  <1>3. CASE op = "approve"  BY <1>3, ApproveReplies DEF Handled
  <1>4. CASE op = "reconcile"  BY <1>4, ReconcileReplies DEF Handled
  <1>5. CASE op = "transfer"  BY <1>5, TransferReplies DEF Handled
  <1>6. CASE op \in {"release", "decline", "refund"}
    <2>1. r = IF op = "release" THEN release(c.id) ELSE IF op = "decline" THEN decline(c.id) ELSE refund(c.id)
      BY <1>6 DEF Handled
    <2> QED  BY <1>6, <2>1, LegsReply
  <1>7. CASE op = "reattach"  BY <1>7, ReattachReplies DEF Handled
  <1>8. CASE op = "get"  BY <1>8, GetReplies DEF Handled
  <1>9. CASE op \in {"settle", "receipt"}
    <2>1. r = settle(c.id)  BY <1>9 DEF Handled
    <2> QED  BY <1>9, <2>1, SettleReplies
  <1> QED  BY <1>1, <1>2, <1>3, <1>4, <1>5, <1>6, <1>7, <1>8, <1>9

LEMMA ApplyIs ==
    ASSUME MovedInv, NEW r, Proper(r), Apply(r), UNCHANGED <<mode, lost>>
    PROVE  /\ \A p \in Pays : /\ pays'[p] = IF p = r.p THEN r.row ELSE pays[p]
                              /\ delivered'[p] = IF p = r.p THEN delivered[p] + r.sold ELSE delivered[p]
                              /\ psp'[p] = IF p = r.p /\ psp[p] = "none" THEN "open" ELSE psp[p]
           /\ (remaining = 0 => remaining' = 0) /\ RowsOK'
           /\ (\A i : Known(i) => Known(i)') /\ \A f : Fn(f) => Fn(f)'
  <1>1. r.p \in Pays /\ r.p # None /\ r.row \in Copies /\ r.row.id = r.p /\ r.sold \in {0, 1} /\ r.sold <= remaining
    BY BuyFlowAssumption DEF Proper
  <1>2. /\ pays' = [pays EXCEPT ![r.p] = r.row] /\ remaining' = remaining - r.sold
        /\ delivered' = [delivered EXCEPT ![r.p] = delivered[r.p] + r.sold]
        /\ psp' = IF psp[r.p] = "none" THEN [psp EXCEPT ![r.p] = "open"] ELSE psp
    BY <1>1 DEF Apply
  <1>3. RowsOK  BY DEF MovedInv
  <1>4. pays' \in [Pays -> Copies] /\ \A p \in Pays : pays'[p] = IF p = r.p THEN r.row ELSE pays[p]
    BY <1>1, <1>2, <1>3 DEF RowsOK
  <1>5. delivered' \in [Pays -> Nat] /\ \A p \in Pays : delivered'[p] = IF p = r.p THEN delivered[p] + r.sold ELSE delivered[p]
    BY <1>1, <1>2, <1>3 DEF RowsOK
  <1>6. /\ psp' \in [Pays -> {"none", "open", "success", "failure"}]
        /\ \A p \in Pays : psp'[p] = IF p = r.p /\ psp[p] = "none" THEN "open" ELSE psp[p]
    <2>1. CASE psp[r.p] = "none"  BY <1>1, <1>2, <1>3, <2>1 DEF RowsOK
    <2>2. CASE psp[r.p] # "none"  BY <1>1, <1>2, <1>3, <2>2 DEF RowsOK
    <2> QED  BY <2>1, <2>2
  <1>7. remaining' \in Nat /\ (remaining = 0 => remaining' = 0)  BY <1>1, <1>2, <1>3 DEF RowsOK
  <1>8. \A p \in Pays : psp'[p] = "none" => psp[p] = "none" /\ p # r.p  BY <1>6
  <1>9. \A i : Known(i) => Known(i)'  BY <1>8 DEF Known
  <1>a. \A p \in Pays \ lost : psp'[p] # "none" => pays'[p].st # "none"
    <2>1. ASSUME NEW p \in Pays \ lost, psp'[p] # "none" PROVE pays'[p].st # "none"
      <3>1. CASE p = r.p  BY <1>4, <2>1, <3>1 DEF Proper
      <3>2. CASE p # r.p  BY <1>3, <1>4, <1>6, <2>1, <3>2 DEF RowsOK
      <3> QED  BY <3>1, <3>2
    <2> QED  BY <2>1
  <1>b. ASSUME mode.payu, NEW p \in Pays \ lost
        PROVE  delivered'[p] = (IF pays'[p].st = "RELEASED" THEN 1 ELSE 0) /\ (pays[p].st \in Paid => pays'[p].st \in Paid)
    <2>1. delivered[p] = IF pays[p].st = "RELEASED" THEN 1 ELSE 0  BY <1>3, <1>b DEF RowsOK
    <2>2. CASE p = r.p
      <3>1. /\ pays[p].st \in Paid => r.row.st \in Paid
            /\ pays[p].st = "RELEASED" => r.row.st = "RELEASED"
            /\ r.sold = IF r.row.st = "RELEASED" /\ pays[p].st # "RELEASED" THEN 1 ELSE 0
        BY <1>b, <2>2 DEF Proper
      <3>2. pays'[p] = r.row /\ delivered'[p] = delivered[p] + r.sold  BY <1>4, <1>5, <2>2
      <3>3. CASE pays[p].st = "RELEASED"  BY <2>1, <3>1, <3>2, <3>3
      <3>4. CASE pays[p].st # "RELEASED"  BY <2>1, <3>1, <3>2, <3>4
      <3> QED  BY <3>3, <3>4
    <2>3. CASE p # r.p  BY <1>4, <1>5, <2>1, <2>3
    <2> QED  BY <2>2, <2>3
  <1>c. RowsOK'
    <2>1. \A p \in Pays : pays'[p].id = p  BY <1>1, <1>3, <1>4 DEF RowsOK
    <2>2. \A p \in Pays : psp'[p] = "none" => pays'[p] = Unknown(p) /\ delivered'[p] = 0  BY <1>3, <1>4, <1>5, <1>8 DEF RowsOK
    <2>3. ~mode.payu => \A p \in Pays : psp'[p] \in {"none", "open"}  BY <1>3, <1>6 DEF RowsOK
    <2>4. lost' \subseteq Pays /\ mode' \in [payu : BOOLEAN, official : BOOLEAN]  BY <1>3 DEF RowsOK
    <2> QED  BY <1>4, <1>5, <1>6, <1>7, <1>a, <1>b, <2>1, <2>2, <2>3, <2>4 DEF RowsOK
  <1>d. ASSUME NEW f, Fn(f) PROVE Fn(f)'  BY <1>7, <1>9, <1>b, <1>d, FnKept
  <1> QED  BY <1>4, <1>5, <1>6, <1>7, <1>9, <1>c, <1>d

LEMMA LateKept ==
    ASSUME MovedInv, \A i : Known(i) => Known(i)', lost \subseteq lost', late' \subseteq late PROVE LateOK'
  BY DEF MovedInv, LateOK

LEMMA PageKept ==
    ASSUME MovedInv, \A i : Known(i) => Known(i)', UNCHANGED <<screen, shown, handoff, page, mode>> PROVE PageOK'
  BY DEF MovedInv, PageOK

LEMMA FnsKept ==
    ASSUME MovedInv, \A f : Fn(f) => Fn(f)', UNCHANGED thread PROVE FnsOK'
  <1>1. DOMAIN thread' = Slots /\ \A t \in Slots : Fn(thread[t])  BY DEF MovedInv, FnsOK
  <1>2. \A t \in Slots : \E f : f = thread'[t] /\ Fn(f)'  BY <1>1
  <1> QED  BY <1>1, <1>2, FnsNext

\* A step of the server nobody on the page waits for.
LEMMA AloneKeeps ==
    ASSUME MovedInv, NEW r, Apply(r), Proper(r), ~mode.payu /\ r.p \notin lost => r.sold = 0,
           UNCHANGED <<screen, shown, handoff, page, thread, mode, lost>>, late' \subseteq late
    PROVE  MovedInv'
  <1>1. /\ RowsOK' /\ (\A i : Known(i) => Known(i)') /\ (\A f : Fn(f) => Fn(f)')
        /\ \A p \in Pays : delivered'[p] = IF p = r.p THEN delivered[p] + r.sold ELSE delivered[p]
    BY ApplyIs
  <1>2. SinglyOK'
    <2>1. ASSUME ~mode.payu, NEW p \in Pays \ lost PROVE Singly(thread, screen, shown, p)'
      <3>1. Singly(thread, screen, shown, p)  BY <2>1 DEF MovedInv, SinglyOK
      <3>2. delivered'[p] = delivered[p]  BY <1>1, <2>1 DEF MovedInv, RowsOK
      <3> QED  BY <3>1, <3>2 DEF Singly
    <2> QED  BY <2>1 DEF SinglyOK
  <1> QED  BY <1>1, <1>2, LateKept, PageKept, FnsKept DEF MovedInv

LEMMA LateKeeps == ASSUME MovedInv, NEW c \in late, Late(c) PROVE MovedInv'
  <1>1. PICK r \in Handled(c.op, c.copy) : Apply(r)  BY DEF Late
  <1>2. UNCHANGED <<screen, shown, handoff, page, thread, mode, lost>> /\ late' \subseteq late  BY DEF Late, browser
  <1>3. \/ c.op = "collect" /\ c.copy = NoCopy
        \/ c.op \in Ops \ {"none", "idle", "wait", "collect"} /\ c.copy \in Copies /\ c.copy.id \in lost /\ Known(c.copy.id)
    BY DEF MovedInv, LateOK
  <1>4. NoCopy.id = None /\ None \notin Pays /\ Known(NoCopy.id) /\ lost \subseteq Pays
    BY BuyFlowAssumption DEF NoCopy, Known, MovedInv, RowsOK
  <1>5. Replies(r, c.op, c.copy)
    <2>1. MayHandle(c.op, c.copy)  BY <1>3, <1>4 DEF MayHandle
    <2>2. "collect" \in Ops \ {"none", "idle", "wait"}  BY DEF Ops, JobKinds
    <2> QED  BY <1>1, <1>3, <1>4, <2>1, <2>2, NoCopyIsACopy, HandledReplies
  <1>6. CASE r.p = None
    <2>1. UNCHANGED <<pays, remaining, delivered, psp>>  BY <1>1, <1>6 DEF Apply, server
    <2>2. \A i : Known(i)' <=> Known(i)  BY <2>1 DEF Known
    <2>3. \A f : Fn(f) => Fn(f)'  BY <1>2, <2>1, <2>2, FnKept
    <2>4. RowsOK' /\ SinglyOK'  BY <1>2, <2>1 DEF MovedInv, RowsOK, SinglyOK, Singly
    <2> QED  BY <1>2, <2>2, <2>3, <2>4, LateKept, PageKept, FnsKept DEF MovedInv
  <1>7. CASE r.p # None
    <2>1. Proper(r)  BY <1>5, <1>7 DEF Replies
    <2>2. ~mode.payu /\ r.p \notin lost => r.sold = 0  BY <1>3, <1>5, <1>7 DEF Replies
    <2> QED  BY <1>1, <1>2, <2>1, <2>2, AloneKeeps
  <1> QED  BY <1>6, <1>7

LEMMA CallbackKeeps == ASSUME MovedInv, NEW p \in Pays, Callback(p) PROVE MovedInv'
  <1>1. psp[p] \in {"success", "failure"} /\ pays[p].st = "PENDING"  BY DEF Callback
  <1>2. mode.payu  BY <1>1 DEF MovedInv, RowsOK
  <1>3. UNCHANGED <<screen, shown, handoff, page, thread, mode, lost>> /\ late' \subseteq late  BY DEF Callback, browser
  <1>4. remaining \in Nat  BY DEF MovedInv, RowsOK
  <1>5. ASSUME NEW st \in {"CONFIRMED", "DECLINED"}, NEW r, r = Result(200, p, To(p, st), 0) PROVE Proper(r)
    <2>1. pays[p] \in Copies /\ pays[p].id = p  BY DEF MovedInv, RowsOK
    <2>2. To(p, st) \in Copies /\ To(p, st).id = p /\ To(p, st).st = st  BY <2>1 DEF To, Copies, Statuses
    <2>3. r.p = p /\ r.row = To(p, st) /\ r.sold = 0  BY <1>5, ResultIs
    <2> QED  BY <1>1, <1>4, <2>2, <2>3 DEF Proper, Paid
  <1>6. ASSUME remaining # 0, NEW r, r = Result(200, p, Settled_(p), 1) PROVE Proper(r)
    <2>1. Known(p)
      BY <1>1 DEF Known
    <2>2. 1 <= remaining  BY <1>4, <1>6
    <2> QED  BY <1>1, <1>6, <2>1, <2>2, SettlesIs
  <1>7. PICK r : Apply(r) /\ \/ r = Result(200, p, To(p, "CONFIRMED"), 0)
                             \/ r = Result(200, p, To(p, "DECLINED"), 0)
                             \/ remaining # 0 /\ r = Result(200, p, Settled_(p), 1)
    BY DEF Callback, confirmAndSettle
  <1>8. Proper(r)  BY <1>5, <1>6, <1>7
  <1> QED  BY <1>2, <1>3, <1>7, <1>8, AloneKeeps

\* The answer a function gets.
Answer(f, r) == [f EXCEPT !.sent = FALSE, !.code = r.code, !.got = r.row]
LEMMA AnsweredIs ==
    ASSUME NEW f, Fn(f), f.sent, NEW r, Replies(r, f.op, f.copy),
           NEW g, g = Answer(f, r)
    PROVE  /\ g \in FnRecords /\ Coherent(g) /\ g.job = f.job /\ g.op = f.op /\ ~g.sent /\ g.code = r.code /\ g.code # 0
           /\ g.copy = f.copy /\ g.got = r.row /\ g.seen = f.seen /\ (f.op = "collect" <=> f.job = "collect")
  <1>1. PICK no \in BOOLEAN : no = FALSE  OBVIOUS
  <1>2. f \in FnRecords /\ Coherent(f)  BY DEF Fn
  <1>3. r.code \in Verdicts /\ r.code # 0 /\ r.row \in Copies  BY DEF Replies
  <1>4. g = [f EXCEPT !.sent = no, !.code = r.code, !.got = r.row]  BY <1>1 DEF Answer
  <1>5. /\ g \in FnRecords /\ g.job = f.job /\ g.op = f.op /\ g.sent = no /\ g.code = r.code /\ g.copy = f.copy
        /\ g.got = r.row /\ g.seen = f.seen
    BY <1>2, <1>3, <1>4 DEF FnRecords
  <1>6. f.op # "none" /\ f.job # "idle" /\ (f.op = "collect" <=> f.job = "collect")
    BY <1>2 DEF Coherent, NoJob, Legs
  <1>7. f.job # "collect" => f.copy.id \in Pays  BY <1>2, <1>6 DEF Coherent
  <1>8. g.code = 200 => r.row.id \in Pays /\ (f.job # "collect" => r.row.id = f.copy.id)
    BY <1>5, <1>6 DEF Replies, Proper
  <1>9. Coherent(g)  BY <1>1, <1>2, <1>5, <1>6, <1>8 DEF Coherent, Heard
  <1> QED  BY <1>1, <1>3, <1>5, <1>6, <1>9

LEMMA ExecuteKeeps == ASSUME MovedInv, NEW t \in Slots, Execute(t) PROVE MovedInv'
  <1>1. PICK f : f = thread[t]  OBVIOUS
  <1>2. f.sent /\ Fn(f) /\ (mode.payu => PayuFn(f)) /\ (f.job \in Loop => mode.payu)  BY <1>1, HereIs DEF Execute
  <1>3. /\ f.op \in Ops \ {"none", "idle", "wait"} /\ f.job # "idle" /\ f.copy \in Copies /\ Known(f.copy.id)
        /\ IF f.op = "collect" THEN f.copy = NoCopy ELSE f.copy.id \in Pays
    BY <1>1, <1>2, SaidOf
  <1>4. PICK r \in Handled(f.op, f.copy) :
            Apply(r) /\ thread' = With(t, Answer(f, r))
    BY <1>1 DEF Execute, Answer
  <1>5. UNCHANGED <<screen, shown, handoff, page, mode, late, lost>>  BY DEF Execute, Keep
  <1>6. None \notin Pays /\ NoCopy.id = None  BY BuyFlowAssumption DEF NoCopy
  <1>7. MayHandle(f.op, f.copy)
    <2>1. ASSUME mode.payu, f.copy.id \in Pays \ lost
          PROVE  f.op \in {"get", "reconcile", "settle", "receipt"} \/ (f.op \in {"transfer", "reattach"} /\ remaining = 0)
      <3>1. f.op \in {f.job} \cup (IF f.job \in Legs THEN {"reattach"} ELSE {}) /\ f.job \in JobKinds
        BY <1>2, <1>3, FnFields DEF Fn, Coherent
      <3>2. f.job \notin {"approve", "decline", "refund"} /\ (f.job \in Legs => f.job = "transfer" /\ remaining = 0)
        BY <1>2, <2>1 DEF PayuFn
      <3>3. f.op # "collect"  BY <1>3, <1>6, <2>1
      <3> QED  BY <1>3, <3>1, <3>2, <3>3 DEF JobKinds, Legs, Loop
    <2> QED  BY <2>1 DEF MayHandle
  <1>8. Replies(r, f.op, f.copy)  BY <1>3, <1>4, <1>7, HandledReplies
  <1>9. PICK g : g = Answer(f, r)  OBVIOUS
  <1>a. /\ g \in FnRecords /\ Coherent(g) /\ g.job = f.job /\ g.op = f.op /\ ~g.sent /\ g.code = r.code /\ g.code # 0
        /\ g.copy = f.copy /\ g.got = r.row /\ g.seen = f.seen /\ (f.op = "collect" <=> f.job = "collect")
    BY <1>2, <1>8, <1>9, AnsweredIs
  <1>b. DOMAIN thread' = Slots /\ \A u \in Slots : thread'[u] = IF u = t THEN g ELSE thread[u]
    BY <1>4, <1>9 DEF With, MovedInv, FnsOK
  <1>c. /\ RowsOK' /\ (\A i : Known(i) => Known(i)') /\ (\A h : Fn(h) => Fn(h)') /\ (remaining = 0 => remaining' = 0)
        /\ \A p \in Pays : delivered'[p] = IF p = r.p THEN delivered[p] + r.sold ELSE delivered[p]
        /\ r.p # None => Known(r.row.id)' /\ pays'[r.p] = r.row
    <2>1. CASE r.p = None
      <3>1. UNCHANGED <<pays, remaining, delivered, psp>>  BY <1>4, <2>1 DEF Apply, server
      <3>2. \A i : Known(i)' <=> Known(i)  BY <3>1 DEF Known
      <3>3. \A h : Fn(h) => Fn(h)'  BY <1>5, <3>1, <3>2, FnKept
      <3>4. RowsOK'  BY <1>5, <3>1 DEF MovedInv, RowsOK
      <3> QED  BY <1>6, <2>1, <3>1, <3>2, <3>3, <3>4
    <2>2. CASE r.p # None
      <3>1. Proper(r)  BY <1>8, <2>2 DEF Replies
      <3>2. /\ \A p \in Pays : /\ pays'[p] = IF p = r.p THEN r.row ELSE pays[p]
                               /\ delivered'[p] = IF p = r.p THEN delivered[p] + r.sold ELSE delivered[p]
                               /\ psp'[p] = IF p = r.p /\ psp[p] = "none" THEN "open" ELSE psp[p]
            /\ (remaining = 0 => remaining' = 0) /\ RowsOK'
            /\ (\A i : Known(i) => Known(i)') /\ \A h : Fn(h) => Fn(h)'
        BY <1>4, <1>5, <3>1, ApplyIs
      <3>3. r.p \in Pays /\ r.row.id = r.p  BY <3>1 DEF Proper
      <3>4. psp'[r.p] # "none" /\ pays'[r.p] = r.row  BY <3>2, <3>3
      <3>5. Known(r.row.id)'  BY <3>3, <3>4 DEF Known
      <3> QED  BY <3>2, <3>4, <3>5
    <2> QED  BY <2>1, <2>2
  <1>d. Fn(g)'
    <2>1. Fn(f)'  BY <1>2, <1>c
    <2>2. Known(g.copy.id)'  BY <1>3, <1>a, <1>c
    <2>3. Known(g.got.id)'
      <3>1. CASE r.p = None  BY <1>6, <1>8, <1>a, <3>1 DEF Replies, Known
      <3>2. CASE r.p # None  BY <1>a, <1>c, <3>2
      <3> QED  BY <3>1, <3>2
    <2>4. ASSUME mode.payu PROVE PayuFn(g)'
      <3>1. PayuFn(f)' /\ PayuFn(f)  BY <1>2, <1>5, <2>1, <2>4 DEF Fn
      <3>2. ASSUME f.copy.id \in Pays \ lost
            PROVE  /\ r.p = f.copy.id /\ pays'[f.copy.id] = r.row
                   /\ f.job = "settle" /\ r.code # 200 => remaining' = 0
                   /\ f.job \in Legs => ~(f.op = "transfer" /\ r.code = 200)
        <4>1. f.op # "collect" /\ r.p = f.copy.id  BY <1>3, <1>6, <1>8, <3>2 DEF Replies
        <4>2. pays'[f.copy.id] = r.row  BY <1>6, <1>c, <3>2, <4>1
        <4>3. ASSUME f.job = "settle", r.code # 200 PROVE remaining' = 0
          <5>1. f.op = "settle"  BY <1>2, <1>3, <4>3 DEF Fn, Coherent, Legs
          <5>2. pays[f.copy.id].st \in Paid  BY <3>1, <3>2, <4>3 DEF PayuFn
          <5> QED  BY <1>8, <1>c, <4>3, <5>1, <5>2 DEF Replies
        <4>4. f.job \in Legs => ~(f.op = "transfer" /\ r.code = 200)
          BY <1>8, <3>1, <3>2 DEF PayuFn, Replies
        <4> QED  BY <4>1, <4>2, <4>3, <4>4
      <3> QED  BY <1>5, <1>a, <3>1, <3>2 DEF PayuFn
    <2>5. Fn(f)' /\ mode' = mode  BY <1>5, <2>1
    <2> QED  BY <1>2, <1>a, <2>2, <2>3, <2>4, <2>5 DEF Fn
  <1>e. FnsOK'
    <2>1. ASSUME NEW u \in Slots PROVE \E h : h = thread'[u] /\ Fn(h)'
      BY <1>b, <1>c, <1>d DEF MovedInv, FnsOK
    <2> QED  BY <1>b, <2>1, FnsNext
  <1>f. SinglyOK'
    <2>1. ASSUME ~mode.payu, NEW p \in Pays \ lost PROVE Singly(thread, screen, shown, p)'
      <3>1. Singly(thread, screen, shown, p) /\ delivered[p] \in Nat  BY <2>1 DEF MovedInv, SinglyOK, RowsOK
      <3>2. f.job \notin Loop /\ f.op \notin Loop  BY <1>2, <1>3, <2>1 DEF Fn, Coherent, Legs, Loop
      <3>3. ASSUME r.p = p, f.op = "collect"
            PROVE  /\ \A u \in Slots : u # t => ~Claims(thread[u], p)
                   /\ shown.id # p /\ delivered'[p] = 0
        <4>1. psp[p] = "none" /\ r.sold = 0  BY <1>6, <1>8, <3>3 DEF Replies
        <4>2. ASSUME NEW u \in Slots, u # t PROVE ~Claims(thread[u], p)
          <5>1. thread[u].copy.id # p /\ thread[u].got.id # p  BY <2>1, <4>1, HereIs DEF Known
          <5> QED  BY <5>1 DEF Claims
        <4>3. shown.id # p  BY <2>1, <4>1, HereIs DEF Known
        <4>4. delivered[p] = 0  BY <2>1, <4>1 DEF MovedInv, RowsOK
        <4> QED  BY <1>c, <3>3, <4>1, <4>2, <4>3, <4>4
      <3>4. ASSUME r.p = p, r.sold = 1
            PROVE  Claims(f, p) /\ Claims(g, p) /\ ~HasMoved(f) /\ HasMoved(g) /\ delivered'[p] = 1 /\ delivered[p] = 0
        <4>1. f.op = "transfer" /\ r.code = 200  BY <1>8, <3>2, <3>4 DEF Replies
        <4>2. f.job = "transfer" /\ f.copy.id = p  BY <1>2, <1>8, <3>4, <4>1 DEF Fn, Coherent, Replies, Legs
        <4>3. Claims(f, p) /\ Claims(g, p) /\ ~HasMoved(f) /\ HasMoved(g)
          BY <1>2, <1>a, <4>1, <4>2 DEF Claims, HasMoved, Legs
        <4>4. delivered[p] = 0  BY <1>1, <3>1, <4>3 DEF Singly
        <4> QED  BY <1>c, <2>1, <3>4, <4>3, <4>4
      <3>5. CASE r.p = p /\ f.op = "collect"
        <4>1. g.job # "release"  BY <1>a, <3>5
        <4> QED  BY <1>5, <1>b, <3>3, <3>5 DEF Singly
      <3>6. CASE r.p = p /\ f.op # "collect"
        <4>1. \A q \in Pays : Claims(g, q) <=> Claims(f, q)  BY <1>2, <1>a, <3>6 DEF Claims
        <4>2. HasMoved(f) => HasMoved(g)  BY <1>2, <1>a DEF HasMoved
        <4>3. CASE r.sold = 1  BY <1>1, <1>5, <1>b, <2>1, <3>1, <3>4, <3>6, <4>1, <4>3 DEF Singly
        <4>4. CASE r.sold # 1
          <5>1. r.sold = 0  BY <1>6, <1>8, <2>1, <3>6, <4>4 DEF Replies, Proper
          <5>2. delivered'[p] = delivered[p]  BY <1>c, <2>1, <3>1, <3>6, <5>1
          <5> QED  BY <1>1, <1>5, <1>b, <2>1, <3>1, <4>1, <4>2, <5>2 DEF Singly
        <4> QED  BY <4>3, <4>4
      <3>7. CASE r.p # p
        <4>1. delivered'[p] = delivered[p]  BY <1>c, <2>1, <3>7
        <4>2. Claims(g, p) => Claims(f, p)
          <5>1. CASE f.job = "collect"
            <6>1. g.code = 200 => r.row.id = r.p  BY <1>8, <1>a DEF Replies, Proper
            <6> QED  BY <1>a, <3>7, <5>1, <6>1 DEF Claims, Legs
          <5>2. CASE f.job # "collect"  BY <1>a, <5>2 DEF Claims
          <5> QED  BY <5>1, <5>2
        <4>3. HasMoved(f) => HasMoved(g)  BY <1>2, <1>a DEF HasMoved
        <4> QED  BY <1>1, <1>5, <1>b, <3>1, <4>1, <4>2, <4>3 DEF Singly
      <3> QED  BY <3>5, <3>6, <3>7
    <2> QED  BY <1>5, <2>1 DEF SinglyOK
  <1>g. LateOK' /\ PageOK'  BY <1>5, <1>c, LateKept, PageKept
  <1> QED  BY <1>c, <1>e, <1>f, <1>g DEF MovedInv

LEMMA GiveUpKeeps == ASSUME MovedInv, NEW t \in Slots, GiveUp(t) PROVE MovedInv'
  <1>1. PICK f : f = thread[t]  OBVIOUS
  <1>2. f.sent /\ Fn(f)  BY <1>1, HereIs DEF GiveUp
  <1>3. /\ f.op \in Ops \ {"none", "idle", "wait"} /\ f.copy \in Copies /\ Known(f.copy.id)
        /\ IF f.op = "collect" THEN f.copy = NoCopy ELSE f.copy.id \in Pays
    BY <1>1, <1>2, SaidOf
  <1>4. PICK g : g = [f EXCEPT !.sent = FALSE, !.code = 0]  OBVIOUS
  <1>5. /\ thread' = With(t, g) /\ UNCHANGED <<screen, shown, handoff, page, pays, remaining, delivered, psp, mode>>
        /\ lost' = lost \cup ({f.copy.id} \ {None})
        /\ late' \in {late, late \cup {c \in {[op |-> f.op, copy |-> f.copy]} : c.op # "get"}}
    BY <1>1, <1>4 DEF GiveUp, server, world, Keep
  <1>6. \A i : Known(i)' <=> Known(i)  BY <1>5 DEF Known
  <1>7. lost \subseteq lost' /\ lost' \subseteq Pays /\ f.copy.id \notin Pays \ lost'
    <2>1. f.copy.id \in Pays \cup {None} /\ None \notin Pays /\ lost \subseteq Pays
      BY <1>3, BuyFlowAssumption DEF Copies, MovedInv, RowsOK
    <2> QED  BY <1>5, <2>1
  <1>8. \A h : Fn(h) => Fn(h)'  BY <1>5, <1>6, <1>7, FnKept
  <1>9. /\ Fn(g)' /\ \A p \in Pays : Claims(g, p) <=> Claims(f, p)
        /\ HasMoved(g) <=> HasMoved(f)
    BY <1>2, <1>4, <1>5, <1>6, <1>7, FnDropped, ZenonT(60)
  <1>a. DOMAIN thread' = Slots /\ \A u \in Slots : thread'[u] = IF u = t THEN g ELSE thread[u]
    BY <1>5 DEF With, MovedInv, FnsOK
  <1>b. FnsOK'
    <2>1. ASSUME NEW u \in Slots PROVE \E h : h = thread'[u] /\ Fn(h)'  BY <1>8, <1>9, <1>a DEF MovedInv, FnsOK
    <2> QED  BY <1>a, <2>1, FnsNext
  <1>c. RowsOK'  BY <1>5, <1>7 DEF MovedInv, RowsOK
  <1>d. PageOK'  BY <1>5, <1>6, PageKept
  <1>e. LateOK'
    <2>1. ASSUME NEW c \in late'
          PROVE  \/ c.op = "collect" /\ c.copy = NoCopy
                 \/ c.op \in Ops \ {"none", "idle", "wait", "collect"} /\ c.copy \in Copies /\ c.copy.id \in lost' /\ Known(c.copy.id)
      <3>1. CASE c \in late  BY <1>7, <3>1 DEF MovedInv, LateOK
      <3>2. CASE c \notin late
        <4>1. c = [op |-> f.op, copy |-> f.copy]  BY <1>5, <3>2
        <4>2. c.op = f.op /\ c.copy = f.copy  BY <4>1
        <4> QED  BY <1>3, <1>7, <4>2
      <3> QED  BY <3>1, <3>2
    <2> QED  BY <1>6, <2>1 DEF LateOK
  <1>f. SinglyOK'
    <2>1. ASSUME ~mode.payu, NEW p \in Pays \ lost' PROVE Singly(thread, screen, shown, p)'
      <3>1. Singly(thread, screen, shown, p)  BY <1>7, <2>1 DEF MovedInv, SinglyOK
      <3> QED  BY <1>1, <1>5, <1>9, <1>a, <3>1 DEF Singly
    <2> QED  BY <1>5, <2>1 DEF SinglyOK
  <1> QED  BY <1>b, <1>c, <1>d, <1>e, <1>f DEF MovedInv

LEMMA RestartKeeps == ASSUME MovedInv, Restart PROVE MovedInv'
  <1>1. /\ pays' = [p \in Pays |-> Unknown(p)] /\ remaining' = ForSale /\ late' = {}
        /\ thread' = [t \in Slots |-> IF thread[t].sent THEN [thread[t] EXCEPT !.sent = FALSE, !.code = 0] ELSE thread[t]]
        /\ lost' = {p \in Pays : psp[p] # "none"}
        /\ UNCHANGED <<screen, shown, handoff, page, delivered, psp, mode>>
    BY DEF Restart, world, Keep
  <1>2. \A i : Known(i)' <=> Known(i)  BY <1>1 DEF Known
  <1>3. \A i : Known(i) => i \notin Pays \ lost'  BY <1>1 DEF Known
  <1>4. \A p \in Pays \ lost' : psp[p] = "none" /\ delivered[p] = 0  BY <1>1 DEF MovedInv, RowsOK
  <1>5. ASSUME NEW t \in Slots PROVE \E h : h = thread'[t] /\ Fn(h)'
    <2>1. PICK f : f = thread[t]  OBVIOUS
    <2>2. Fn(f) /\ Known(f.copy.id) /\ f.copy.id \notin Pays \ lost'  BY <1>3, <2>1, HereIs
    <2>3. CASE f.sent
      <3>1. PICK g : g = [f EXCEPT !.sent = FALSE, !.code = 0]  OBVIOUS
      <3>2. Fn(g)'  BY <1>1, <1>2, <2>2, <2>3, <3>1, FnDropped
      <3>3. thread'[t] = g  BY <1>1, <2>1, <2>3, <3>1
      <3> QED  BY <3>2, <3>3
    <2>4. CASE ~f.sent
      <3>1. thread'[t] = f  BY <1>1, <2>1, <2>4
      <3>2. Fn(f)'  BY <1>1, <1>2, <2>2, FnKept
      <3> QED  BY <3>1, <3>2
    <2> QED  BY <2>3, <2>4
  <1>6. FnsOK'
    <2>1. DOMAIN thread' = Slots  BY <1>1
    <2> QED  BY <1>5, <2>1, FnsNext
  <1>7. RowsOK'  BY <1>1, <1>4, NoCopyIsACopy, BuyFlowAssumption DEF MovedInv, RowsOK
  <1>8. LateOK' /\ PageOK'  BY <1>1, <1>2, PageKept DEF LateOK
  <1>9. SinglyOK'
    <2>1. ASSUME NEW p \in Pays \ lost' PROVE Singly(thread, screen, shown, p)'
      <3>1. \A i : Known(i) => i # p  BY <1>3
      <3>2. ASSUME NEW t \in Slots PROVE ~Claims(thread'[t], p)
        <4>1. PICK f \in FnRecords : f = thread'[t] /\ Known(f.copy.id) /\ Known(f.got.id)
          BY <1>2, <1>5 DEF Fn
        <4> QED  BY <3>1, <4>1 DEF Claims
      <3>3. shown'.id # p
        <4>1. Known(shown.id)  BY DEF MovedInv, PageOK
        <4> QED  BY <1>1, <3>1, <4>1
      <3>4. delivered'[p] = 0  BY <1>1, <1>4
      <3> QED  BY <3>2, <3>3, <3>4 DEF Singly
    <2> QED  BY <2>1 DEF SinglyOK
  <1> QED  BY <1>6, <1>7, <1>8, <1>9 DEF MovedInv

LEMMA WorldKeeps ==
    ASSUME MovedInv, OthersBuy \/ (\E p \in Pays : Decides(p) \/ FiveMinutes(p)) PROVE MovedInv'
  <1>1. UNCHANGED <<screen, shown, handoff, page, thread, pays, delivered, mode, late, lost>>
    BY DEF OthersBuy, Decides, FiveMinutes, browser, server, world
  <1>2. RowsOK  BY DEF MovedInv
  <1>3. /\ psp' \in [Pays -> {"none", "open", "success", "failure"}] /\ (psp' = psp \/ mode.payu)
        /\ \A p \in Pays : psp'[p] = "none" <=> psp[p] = "none"
    <2>1. ASSUME NEW p \in Pays, Decides(p)
          PROVE  /\ psp' \in [Pays -> {"none", "open", "success", "failure"}] /\ mode.payu
                 /\ \A q \in Pays : psp'[q] = "none" <=> psp[q] = "none"
      <3>1. mode.payu /\ psp[p] = "open" /\ psp' \in {[psp EXCEPT ![p] = "success"], [psp EXCEPT ![p] = "failure"]}
        BY <2>1 DEF Decides
      <3>2. CASE psp' = [psp EXCEPT ![p] = "success"]  BY <1>2, <3>1, <3>2 DEF RowsOK
      <3>3. CASE psp' = [psp EXCEPT ![p] = "failure"]  BY <1>2, <3>1, <3>3 DEF RowsOK
      <3> QED  BY <3>1, <3>2, <3>3
    <2>2. CASE psp' = psp  BY <1>2, <2>2 DEF RowsOK
    <2>3. OthersBuy \/ (\E p \in Pays : FiveMinutes(p)) => psp' = psp  BY DEF OthersBuy, FiveMinutes, world
    <2> QED  BY <2>1, <2>2, <2>3
  <1>4. remaining' \in Nat /\ (remaining = 0 => remaining' = 0)
    <2>1. remaining \in Nat  BY <1>2 DEF RowsOK
    <2>2. CASE OthersBuy  BY <2>1, <2>2 DEF OthersBuy
    <2>3. CASE \E p \in Pays : Decides(p) \/ FiveMinutes(p)  BY <2>1, <2>3 DEF Decides, FiveMinutes, server
    <2> QED  BY <2>2, <2>3
  <1>5. \A i : Known(i)' <=> Known(i)  BY <1>3 DEF Known
  <1>6. \A f : Fn(f) => Fn(f)'  BY <1>1, <1>4, <1>5, FnKept
  <1>7. RowsOK'  BY <1>1, <1>2, <1>3, <1>4 DEF RowsOK
  <1>8. SinglyOK'  BY <1>1 DEF MovedInv, SinglyOK, Singly
  <1> QED  BY <1>1, <1>5, <1>6, <1>7, <1>8, LateKept, PageKept, FnsKept DEF MovedInv

LEMMA MovedNext == MovedInv /\ [FlowNext]_flow => MovedInv'
  <1> SUFFICES ASSUME MovedInv, [FlowNext]_flow PROVE MovedInv'
    OBVIOUS
  <1>1. CASE UNCHANGED flow
    <2>1. UNCHANGED <<screen, shown, handoff, page, thread, pays, remaining, delivered, psp, mode, late, lost>>
      BY <1>1 DEF flow, browser, server, world
    <2>2. \A i : Known(i)' <=> Known(i)  BY <2>1 DEF Known
    <2>3. \A f : Fn(f) => Fn(f)'  BY <2>1, <2>2, FnKept
    <2>4. RowsOK' /\ SinglyOK'  BY <2>1 DEF MovedInv, RowsOK, SinglyOK, Singly
    <2> QED  BY <2>1, <2>2, <2>3, <2>4, LateKept, PageKept, FnsKept DEF MovedInv
  <1>2. CASE Buy \/ Approve \/ Decline \/ Countdown \/ TryAgain \/ BuyMore  BY <1>2, ButtonsKeep
  <1>3. CASE Reload  BY <1>3, ReloadKeeps
  <1>4. ASSUME NEW t \in Slots, GoesOn(t) \/ Execute(t) \/ GiveUp(t) PROVE MovedInv'
    BY <1>4, GoesOnKeeps, ExecuteKeeps, GiveUpKeeps
  <1>5. ASSUME NEW c \in late, Late(c) PROVE MovedInv'  BY <1>5, LateKeeps
  <1>6. CASE OthersBuy \/ (\E p \in Pays : Decides(p) \/ FiveMinutes(p))  BY <1>6, WorldKeeps
  <1>7. ASSUME NEW p \in Pays, Callback(p) PROVE MovedInv'  BY <1>7, CallbackKeeps
  <1>8. CASE Restart  BY <1>8, RestartKeeps
  <1> QED  BY <1>1, <1>2, <1>3, <1>4, <1>5, <1>6, <1>7, <1>8 DEF FlowNext

(* Whichever of the callback, the reconciliation, the settlement and the   *)
(* browser's own transfer comes first, the seller's tokens leave at most   *)
(* once for a payment none of whose requests was given up on, for any      *)
(* number of payments, of functions at once and of tokens for sale         *)
(* (components/SimpleBuyFlow.jsx, mock-api-server.js).                     *)
THEOREM TokensMoveOnce == FlowSpec => []MovedOnce
  <1>1. FlowInit => MovedInv  BY MovedInitially
  <1>2. MovedInv /\ [FlowNext]_flow => MovedInv'  BY MovedNext
  <1>3. MovedInv => MovedOnce  BY MovedInvSays
  <1> QED  BY <1>1, <1>2, <1>3, PTL DEF FlowSpec
=============================================================================
