--------------------------- MODULE MockServer_proofs ---------------------------
(***************************************************************************)
(* Theorems about the single-process server (MockServer), for every set of *)
(* people, listings, loans, swaps and payments and every bound.            *)
(*                                                                         *)
(* Payments: PayInv is inductive.  It says, of the payments in memory and  *)
(* of those in the snapshot, that a payment nobody asked for is blank and  *)
(* that one confirmed or released had its money vouched for.  From it      *)
(* follow PaymentsStaySettled and the refinement of PurchasePromise.       *)
(*                                                                         *)
(* Holdings: MarketInv is inductive.  It says, listing by listing, that    *)
(* the holdings add up to what was made, within the supply, and are what   *)
(* replaying the blocks gives.  A listing nothing was issued of yet has no *)
(* holdings (Unissued), halted or not: this is what makes issuing sound.   *)
(* The sums over a balance record are totals over a finite set, whose laws *)
(* are in FiniteSums.                                                      *)
(***************************************************************************)
EXTENDS MockServer, FiniteSetTheorems, FiniteSums, TLAPS

-----------------------------------------------------------------------------
(* Balance records *)

\* What the model adds up is what FiniteSums has the laws of.
LEMMA SumIsTotal == ASSUME NEW f PROVE SumOf(f) = Total(f, DOMAIN f)
BY Zenon DEF SumOf, MapThenSumSet, MapThenFoldSet, Total, Sums, Adds, Pick

IsBook(b) == \E D \in SUBSET People : b \in [D -> Nat]
Books(b, c) == IsBook(b) /\ IsBook(c)

\* What a book holds for somebody, and which books are the same.
LEMMA BookHolds ==
    ASSUME NEW b, IsBook(b)
    PROVE  /\ DOMAIN b \subseteq People /\ IsFiniteSet(DOMAIN b) /\ b \in [DOMAIN b -> Nat]
           /\ \A h : Held(b, h) \in Nat /\ (h \in DOMAIN b => Held(b, h) = b[h] /\ b[h] \in Nat)
           /\ \A h : h \notin DOMAIN b => Held(b, h) = 0
<1>1. PICK D \in SUBSET People : b \in [D -> Nat]
  BY DEF IsBook
<1>2. D = DOMAIN b
  BY <1>1
<1>3. IsFiniteSet(D)
  BY FS_Subset, MockServerConstants
<1>4. QED
  BY <1>1, <1>2, <1>3 DEF Held

\* A book adds up to what it holds for the people.
People_(b) == [h \in People |-> Held(b, h)]
LEMMA BookSum ==
    ASSUME NEW b, IsBook(b)
    PROVE  SumOf(b) = Total(People_(b), People) /\ SumOf(b) \in Nat /\ IsFiniteSet(People)
<1>1. /\ DOMAIN b \subseteq People /\ IsFiniteSet(DOMAIN b)
      /\ \A h : Held(b, h) \in Nat /\ (h \in DOMAIN b => Held(b, h) = b[h])
      /\ \A h : h \notin DOMAIN b => Held(b, h) = 0
  BY BookHolds
<1>2. /\ Alike(b, People_(b), DOMAIN b) /\ \A h \in People : People_(b)[h] \in Int
      /\ \A h \in People \ DOMAIN b : People_(b)[h] = 0
      /\ \A h \in People : People_(b)[h] \in Nat
  BY <1>1 DEF Alike, People_
<1>3. IsFiniteSet(People)
  BY MockServerConstants
<1>4. SumOf(b) = Total(b, DOMAIN b)
  BY SumIsTotal
<1>5. Total(b, DOMAIN b) = Total(People_(b), DOMAIN b)
  BY <1>1, <1>2, SameTotal
<1>6. Total(People_(b), People) = Total(People_(b), DOMAIN b)
  BY <1>1, <1>2, <1>3, WiderTotal
<1>7. Total(People_(b), People) \in Nat
  BY <1>2, <1>3, TotalType
<1>8. QED
  BY <1>3, <1>4, <1>5, <1>6, <1>7

\* Two books that hold the same for everybody but x differ by what x has.
LEMMA SumButOne ==
    ASSUME NEW b, NEW c, Books(b, c), NEW x \in People,
           \A h \in People \ {x} : Held(b, h) = Held(c, h)
    PROVE  SumOf(b) - Held(b, x) = SumOf(c) - Held(c, x)
<1> DEFINE f == People_(b)
           g == People_(c)
<1>1. /\ SumOf(b) = Total(f, People) /\ SumOf(c) = Total(g, People)
      /\ SumOf(b) \in Nat /\ SumOf(c) \in Nat /\ IsFiniteSet(People)
  BY BookSum DEF Books
<1>2. \A h \in People : f[h] = Held(b, h) /\ g[h] = Held(c, h) /\ f[h] \in Nat /\ g[h] \in Nat
  BY BookHolds DEF Books, People_
<1>3. Alike(f, g, People \ {x}) /\ IsFiniteSet(People \ {x})
  BY <1>1, <1>2, FS_RemoveElement DEF Alike
<1> HIDE DEF f, g
<1>4. Total(f, People \ {x}) = Total(g, People \ {x}) /\ Total(f, People \ {x}) \in Nat
  BY <1>2, <1>3, SameTotal, TotalType
<1>5. Total(f, People) = f[x] + Total(f, People \ {x})
  BY <1>1, <1>2, SplitTotal
<1>6. Total(g, People) = g[x] + Total(g, People \ {x})
  BY <1>1, <1>2, SplitTotal
<1>7. f[x] = Held(b, x) /\ g[x] = Held(c, x) /\ f[x] \in Nat /\ g[x] \in Nat
  BY <1>2
<1>8. QED
  BY <1>1, <1>4, <1>5, <1>6, <1>7

LEMMA OverHolds ==
    ASSUME NEW new, NEW old, NEW h
    PROVE  Held(Over(new, old), h) = IF h \in DOMAIN new THEN new[h] ELSE Held(old, h)
BY DEF Over, Held

LEMMA OverBook ==
    ASSUME NEW new, NEW old, Books(new, old) PROVE IsBook(Over(new, old))
<1>1. /\ DOMAIN new \subseteq People /\ DOMAIN old \subseteq People
      /\ new \in [DOMAIN new -> Nat] /\ old \in [DOMAIN old -> Nat]
  BY BookHolds DEF Books
<1>2. DOMAIN new \cup DOMAIN old \in SUBSET People
      /\ Over(new, old) \in [DOMAIN new \cup DOMAIN old -> Nat]
  BY <1>1 DEF Over
<1>3. QED
  BY <1>2 DEF IsBook

LEMMA SmallBooks ==
    ASSUME NEW h \in People, NEW n \in Nat
    PROVE  /\ IsBook(Only(h, n)) /\ DOMAIN Only(h, n) = {h} /\ Only(h, n)[h] = n
           /\ IsBook(Empty) /\ DOMAIN Empty = {} /\ SumOf(Empty) = 0
<1>1. {h} \in SUBSET People /\ Only(h, n) \in [{h} -> Nat] /\ DOMAIN Only(h, n) = {h} /\ Only(h, n)[h] = n
  BY DEF Only
<1>2. {} \in SUBSET People /\ Empty \in [{} -> Nat] /\ DOMAIN Empty = {}
  BY DEF Empty
<1>3. SumOf(Empty) = 0
  BY <1>2, SumIsTotal, PickedTotal, FS_EmptySet
<1>4. QED
  BY <1>1, <1>2, <1>3 DEF IsBook

LEMMA Written ==
    ASSUME NEW b, NEW h \in People, NEW n \in Nat
    PROVE  LET c == Over(Only(h, n), b) IN Held(c, h) = n /\ \A x : x # h => Held(c, x) = Held(b, x)
<1>1. DOMAIN Only(h, n) = {h} /\ Only(h, n)[h] = n
  BY SmallBooks
<1>2. \A x : Held(Over(Only(h, n), b), x) = IF x \in DOMAIN Only(h, n) THEN Only(h, n)[x] ELSE Held(b, x)
  BY OverHolds
<1>3. QED
  BY <1>1, <1>2

\* Somebody new in a book adds what it is given.
LEMMA Opened ==
    ASSUME NEW b, IsBook(b), NEW h \in People, h \notin DOMAIN b, NEW n \in Nat
    PROVE  LET c == Over(Only(h, n), b) IN
           /\ IsBook(c) /\ SumOf(c) = SumOf(b) + n /\ DOMAIN c = DOMAIN b \cup {h}
           /\ Held(c, h) = Held(b, h) + n /\ \A x : x # h => Held(c, x) = Held(b, x)
<1> DEFINE c == Over(Only(h, n), b)
<1>1. IsBook(c)
  BY SmallBooks, OverBook DEF Books
<1>2. Held(c, h) = n /\ Held(b, h) = 0 /\ \A x : x # h => Held(c, x) = Held(b, x)
  BY Written, BookHolds
<1>3. DOMAIN c = DOMAIN b \cup {h}
  BY SmallBooks DEF Over
<1> HIDE DEF c
<1>4. SumOf(b) - Held(b, h) = SumOf(c) - Held(c, h)
  BY <1>1, <1>2, SumButOne DEF Books
<1>5. SumOf(b) \in Nat /\ SumOf(c) \in Nat
  BY <1>1, BookSum
<1>6. SumOf(c) = SumOf(b) + n
  BY <1>2, <1>4, <1>5
<1>7. Held(c, h) = Held(b, h) + n
  BY <1>2
<1>8. QED
  BY <1>1, <1>2, <1>3, <1>6, <1>7 DEF c

\* Tokens that move from one to another add up to the same.
LEMMA MovedBook ==
    ASSUME NEW b, IsBook(b), NEW from \in People, NEW to \in People, NEW n \in Nat, Held(b, from) >= n
    PROVE  LET c == Moved(b, from, to, n) IN
           /\ IsBook(c) /\ SumOf(c) = SumOf(b)
           /\ from # to => /\ Held(c, from) = Held(b, from) - n /\ Held(c, to) = Held(b, to) + n
                           /\ \A x : x \notin {from, to} => Held(c, x) = Held(b, x)
           /\ from = to => c = b
<1>1. CASE from = to
  BY <1>1 DEF Moved
<1>2. CASE from # to
  <2> DEFINE d == [h \in {from, to} |-> IF h = to THEN Held(b, to) + n ELSE Held(b, from) - n]
             c == Over(d, b)
             e == Over(Only(from, Held(b, from) - n), b)
  <2>1. Held(b, from) \in Nat /\ Held(b, to) \in Nat /\ Held(b, from) - n \in Nat /\ Held(b, to) + n \in Nat
    BY BookHolds
  <2>2. d \in [{from, to} -> Nat] /\ {from, to} \in SUBSET People /\ DOMAIN d = {from, to}
        /\ d[to] = Held(b, to) + n /\ d[from] = Held(b, from) - n
    BY <1>2, <2>1
  <2> HIDE DEF d
  <2>3. IsBook(c) /\ IsBook(e)
    BY <2>1, <2>2, OverBook, SmallBooks DEF IsBook, Books
  <2>4. /\ Held(c, from) = Held(b, from) - n /\ Held(c, to) = Held(b, to) + n
        /\ \A x : x \notin {from, to} => Held(c, x) = Held(b, x)
    BY <2>2, OverHolds
  <2>5. Held(e, from) = Held(b, from) - n /\ \A x : x # from => Held(e, x) = Held(b, x)
    BY <2>1, Written
  <2>6. Moved(b, from, to, n) = c
    BY <1>2 DEF Moved, d
  <2> HIDE DEF c, e
  <2>7. SumOf(b) - Held(b, from) = SumOf(e) - Held(e, from)
    BY <2>3, <2>5, SumButOne DEF Books
  <2>8. SumOf(e) - Held(e, to) = SumOf(c) - Held(c, to)
    BY <1>2, <2>3, <2>4, <2>5, SumButOne DEF Books
  <2>9. SumOf(b) \in Nat /\ SumOf(e) \in Nat /\ SumOf(c) \in Nat
    BY <2>3, BookSum
  <2>10. SumOf(c) = SumOf(b)
    BY <1>2, <2>1, <2>4, <2>5, <2>7, <2>8, <2>9
  <2>11. QED
    BY <1>2, <2>3, <2>4, <2>6, <2>10
<1>3. QED
  BY <1>1, <1>2
-----------------------------------------------------------------------------
(* What the market's handlers compute *)

LoanRecords == [st : {"none", "ACTIVE", "REPAID"}, by : People, asset : Assets \cup {"none"}, n : Nat]
SwapRecords ==
    [st : {"none", "PROPOSED", "SETTLED", "CANCELLED"}, from : People, to : People,
     give : Assets \cup {"none"}, gt : Nat, get : Assets \cup {"none"}, rt : Nat]

\* What is left of the supply, for somebody who is not in the book.
LEMMA Headroom ==
    ASSUME NEW b, IsBook(b), NEW h, h \notin DOMAIN b, NEW total \in Nat
    PROVE  /\ supplyHeadroom(b, h, total) \in Nat
           /\ SumOf(b) <= total => supplyHeadroom(b, h, total) = total - SumOf(b)
<1>1. [x \in DOMAIN b \ {h} |-> b[x]] = b
  BY BookHolds
<1>2. supplyHeadroom(b, h, total) = Max({0, total - SumOf(b)})
  BY <1>1 DEF supplyHeadroom
<1>3. SumOf(b) \in Nat
  BY BookSum
<1>4. QED
  BY <1>2, <1>3, MaxOfTwo

LEMMA LockedIsNat ==
    ASSUME loans \in [Loans -> LoanRecords], NEW a, NEW h PROVE drunixLockedTokens(a, h) \in Nat
<1> DEFINE L == {k \in Loans : loans[k].st = "ACTIVE" /\ loans[k].asset = a /\ loans[k].by = h}
           f == [l \in L |-> loans[l].n]
<1>1. IsFiniteSet(L)
  BY FS_Subset, MockServerConstants
<1>2. DOMAIN f = L /\ \A l \in L : f[l] \in Nat
  BY DEF LoanRecords
<1>3. drunixLockedTokens(a, h) = SumOf(f)
  BY DEF drunixLockedTokens
<1> HIDE DEF L, f
<1>4. QED
  BY <1>1, <1>2, <1>3, SumIsTotal, TotalType

\* Holders are bought out by the owner, who ends up with everything.
LEMMA BoughtOut ==
    ASSUME NEW b, IsBook(b), NEW o \in People
    PROVE  LET out == SumOf([h \in DOMAIN b \ {o} |-> b[h]])
               zero == [h \in DOMAIN b |-> IF h = o THEN b[h] ELSE 0]
               c == IF out > 0 THEN Over(Only(o, Held(zero, o) + out), zero) ELSE zero
           IN  /\ IsBook(c) /\ SumOf(c) = SumOf(b)
               /\ out > 0 \/ \A h \in People : Held(c, h) = Held(b, h)
               /\ b = Empty => c = Empty
<1> DEFINE rest == [h \in DOMAIN b \ {o} |-> b[h]]
           out == SumOf(rest)
           zero == [h \in DOMAIN b |-> IF h = o THEN b[h] ELSE 0]
           c == IF out > 0 THEN Over(Only(o, Held(zero, o) + out), zero) ELSE zero
<1>1. /\ DOMAIN b \in SUBSET People /\ b \in [DOMAIN b -> Nat]
      /\ \A h : Held(b, h) \in Nat /\ (h \in DOMAIN b => Held(b, h) = b[h])
      /\ \A h : h \notin DOMAIN b => Held(b, h) = 0
  BY BookHolds
<1>2. /\ IsBook(rest) /\ IsBook(zero) /\ IsBook(Empty) /\ SumOf(Empty) = 0
      /\ \A h : Held(Empty, h) = 0
  <2>1. rest \in [DOMAIN b \ {o} -> Nat] /\ DOMAIN b \ {o} \in SUBSET People /\ zero \in [DOMAIN b -> Nat]
    BY <1>1
  <2>2. IsBook(rest) /\ IsBook(zero)
    BY <1>1, <2>1 DEF IsBook
  <2>3. 0 \in Nat
    OBVIOUS
  <2>4. QED
    BY <2>2, <2>3, SmallBooks DEF Held
<1>3. /\ Held(rest, o) = 0 /\ \A h \in People \ {o} : Held(rest, h) = Held(b, h)
      /\ Held(zero, o) = Held(b, o) /\ \A h \in People \ {o} : Held(zero, h) = 0
      /\ DOMAIN rest = DOMAIN b \ {o}
  BY <1>1 DEF Held
<1>4. b = Empty => rest = Empty /\ zero = Empty
  <2>1. HAVE b = Empty
  <2>2. DOMAIN b = {}
    BY <2>1 DEF Empty
  <2>3. QED
    BY <2>2 DEF Empty
<1> HIDE DEF rest, zero
<1>5. SumOf(b) \in Nat /\ SumOf(rest) \in Nat /\ SumOf(zero) \in Nat
  BY <1>2, BookSum
<1>6. SumOf(b) - Held(b, o) = SumOf(rest) - Held(rest, o)
  BY <1>2, <1>3, SumButOne DEF Books
<1>7. SumOf(zero) - Held(zero, o) = SumOf(Empty) - Held(Empty, o)
  BY <1>2, <1>3, SumButOne DEF Books
<1>8. SumOf(zero) = Held(b, o) /\ SumOf(b) = Held(b, o) + out /\ out \in Nat
  <2>1. /\ Held(b, o) \in Nat /\ Held(zero, o) = Held(b, o) /\ Held(rest, o) = 0
        /\ Held(Empty, o) = 0 /\ SumOf(Empty) = 0
    BY <1>1, <1>2, <1>3
  <2>2. QED
    BY <2>1, <1>5, <1>6, <1>7
<1>9. CASE out > 0
  <2> DEFINE e == Over(Only(o, Held(zero, o) + out), zero)
  <2>1. Held(zero, o) + out \in Nat
    BY <1>1, <1>3, <1>8
  <2>2. IsBook(e)
    BY <1>2, <2>1, SmallBooks, OverBook DEF Books
  <2>3. Held(e, o) = Held(zero, o) + out /\ \A h : h # o => Held(e, h) = Held(zero, h)
    BY <2>1, Written
  <2> HIDE DEF e
  <2>4. SumOf(e) - Held(e, o) = SumOf(zero) - Held(zero, o) /\ SumOf(e) \in Nat
    BY <1>2, <2>2, <2>3, SumButOne, BookSum DEF Books
  <2>5. SumOf(e) = SumOf(b)
    BY <1>1, <1>3, <1>8, <2>3, <2>4
  <2>6. b # Empty
    BY <1>2, <1>4, <1>9
  <2>7. c = e
    BY <1>9 DEF e
  <2> HIDE DEF c, out
  <2>8. QED
    BY <1>9, <2>2, <2>5, <2>6, <2>7 DEF c, out, rest, zero
<1>10. CASE ~(out > 0)
  <2>1. c = zero /\ out = 0
    BY <1>8, <1>10
  <2>2. Total(rest, DOMAIN rest) = 0 /\ IsFiniteSet(DOMAIN rest) /\ \A h \in DOMAIN rest : rest[h] \in Nat
    BY <1>2, <2>1, SumIsTotal, BookHolds
  <2>3. \A h \in DOMAIN rest : Held(rest, h) = 0
    BY <1>2, <2>2, ZeroTotal, BookHolds
  <2>4. \A h \in People : Held(rest, h) = 0
    BY <1>2, <2>3, BookHolds
  <2>5. \A h \in People : Held(zero, h) = Held(b, h)
    BY <1>3, <2>4
  <2>6. SumOf(zero) = SumOf(b)
    BY <1>1, <1>8, <2>1
  <2> HIDE DEF c, out
  <2>7. QED
    BY <1>2, <1>4, <2>1, <2>5, <2>6 DEF c, out, rest, zero
<1>11. QED
  BY <1>9, <1>10
-----------------------------------------------------------------------------
(* Payments *)

Closed == {"RELEASED", "FAILED_AMOUNT_MISMATCH"}
Ways == {"settle", "release", "backfill"}

\* A copy of payment p, when I are issued and the money of M is vouched for.
SoundCopy(r, p, I, M) ==
    /\ r \in PayRecords /\ (p \notin I => r = NoPay) /\ (r # NoPay => r.asset \in Assets)
    /\ r.st \in Late => p \in M
SoundPays(ps, I, M) ==
    ps \in [Payments -> PayRecords] /\ \A p \in Payments : SoundCopy(ps[p], p, I, M)

\* The rail delivered a payment once if it has seen its key, else never.
SoundRail(rl) == rl.dvps = [p \in Payments |-> IF p \in rl.keys THEN 1 ELSE 0]

\* What is on its way to the rail is a payment the server knows, whose money was vouched for.
SoundPosts(po, ps, M) == po \subseteq M \X Ways /\ \A q \in po : ps[q[1]] # NoPay

SoundMoves(mv, ps) ==
    mv \in [Payments -> {0, 1}] /\ \A p \in Payments : mv[p] = 1 => ps[p].st \in Closed

PayInv ==
    /\ SoundPays(pays, issued, vouched) /\ SoundPays(kept, issued, vouched)
    /\ asking \subseteq issued /\ SoundPosts(posting, pays, vouched)
    /\ psp \subseteq vouched /\ vouched \subseteq issued /\ issued \subseteq Payments
    /\ SoundRail(rail) /\ SoundMoves(moved, pays)
-----------------------------------------------------------------------------
LEMMA NoPayRecord == NoPay \in PayRecords /\ NoPay.st = "none"
BY MockServerConstants DEF NoPay, PayRecords

Sts == {"none", "PENDING", "CONFIRMED", "RELEASED", "DECLINED", "EXPIRED", "REFUNDED",
        "FAILED_KYC_NOT_VERIFIED", "FAILED_FRAUD_BLOCKED", "FAILED_INSUFFICIENT_FUNDS",
        "FAILED_AMOUNT_MISMATCH"}

\* A payment in another status.
LEMMA Restated ==
    ASSUME NEW r \in PayRecords, NEW st \in Sts
    PROVE  LET q == [r EXCEPT !.st = st] IN
           q \in PayRecords /\ q.st = st /\ q.asset = r.asset /\ q.by = r.by /\ q.umi = r.umi /\ q.tid = r.tid
BY DEF PayRecords, Sts

LEMMA Released ==
    ASSUME NEW r \in PayRecords
    PROVE  LET q == [r EXCEPT !.st = "RELEASED", !.tid = TRUE] IN
           q \in PayRecords /\ q.st = "RELEASED" /\ q.asset = r.asset /\ q.by = r.by
BY DEF PayRecords

LEMMA OnRail ==
    ASSUME NEW r \in PayRecords
    PROVE  LET q == [r EXCEPT !.umi = TRUE] IN
           q \in PayRecords /\ q.st = r.st /\ q.asset = r.asset /\ q.by = r.by
BY DEF PayRecords

\* A copy of an issued payment may take any status its money was vouched for, where it takes money.
LEMMA RestatedCopy ==
    ASSUME NEW p, NEW I, NEW M, NEW N, NEW r, SoundCopy(r, p, I, M), r # NoPay, M \subseteq N,
           NEW st \in Sts, st \in Late => p \in N
    PROVE  SoundCopy([r EXCEPT !.st = st], p, I, N)
<1> DEFINE q == [r EXCEPT !.st = st]
<1>1. q \in PayRecords /\ q.st = st /\ q.asset = r.asset
  BY Restated DEF SoundCopy
<1> HIDE DEF q
<1>2. p \in I /\ r.asset \in Assets
  BY DEF SoundCopy
<1>3. SoundCopy(q, p, I, N)
  BY <1>1, <1>2 DEF SoundCopy
<1>4. QED
  BY <1>3 DEF q

LEMMA RestatedHere ==
    ASSUME NEW p, NEW I, NEW M, NEW r, SoundCopy(r, p, I, M), r # NoPay, NEW st \in Sts, st \in Late => p \in M
    PROVE  LET q == [r EXCEPT !.st = st] IN SoundCopy(q, p, I, M) /\ q.st = st
<1>1. M \subseteq M /\ r \in PayRecords
  BY DEF SoundCopy
<1>2. QED
  BY <1>1, Restated, RestatedCopy

\* More issued, more vouched for: a copy stays sound.
LEMMA CopyGrows ==
    ASSUME NEW p, NEW I, NEW M, NEW J, NEW N, NEW r, SoundCopy(r, p, I, M), I \subseteq J, M \subseteq N
    PROVE  SoundCopy(r, p, J, N)
BY DEF SoundCopy

LEMMA PaysGrow ==
    ASSUME NEW I, NEW M, NEW J, NEW N, NEW ps, SoundPays(ps, I, M), I \subseteq J, M \subseteq N
    PROVE  SoundPays(ps, J, N)
BY CopyGrows DEF SoundPays

\* One payment is written, soundly, by a handler that leaves the tokens alone.
LEMMA OneWritten ==
    ASSUME PayInv, NEW p \in Payments, NEW r, NEW J \in SUBSET Payments, NEW N \in SUBSET J,
           issued \subseteq J, vouched \subseteq N, SoundCopy(r, p, J, N), r # NoPay \/ r = pays[p]
    PROVE  /\ SoundPays(Set(p, r), J, N) /\ SoundPays(kept, J, N)
           /\ Set(p, r)[p] = r /\ \A q \in Payments \ {p} : Set(p, r)[q] = pays[q]
           /\ moved[p] = 0 \/ r.st \in Closed => SoundMoves(moved, Set(p, r))
           /\ SoundPosts(posting, Set(p, r), N)
<1>1. SoundPays(pays, J, N) /\ SoundPays(kept, J, N)
  BY PaysGrow DEF PayInv
<1>2. pays \in [Payments -> PayRecords] /\ r \in PayRecords /\ SoundMoves(moved, pays)
  BY DEF PayInv, SoundPays, SoundCopy
<1>3. /\ Set(p, r) \in [Payments -> PayRecords]
      /\ Set(p, r)[p] = r /\ \A q \in Payments \ {p} : Set(p, r)[q] = pays[q]
  BY <1>2 DEF Set
<1>4. SoundPays(Set(p, r), J, N)
  BY <1>1, <1>3 DEF SoundPays
<1>5. moved[p] = 0 \/ r.st \in Closed => SoundMoves(moved, Set(p, r))
  BY <1>2, <1>3 DEF SoundMoves
<1>6. SoundPosts(posting, Set(p, r), N)
  <2>1. SoundPosts(posting, pays, vouched) /\ vouched \subseteq Payments
    BY DEF PayInv
  <2>2. ASSUME NEW q \in posting PROVE Set(p, r)[q[1]] # NoPay
    <3>1. q[1] \in Payments /\ pays[q[1]] # NoPay
      BY <2>1 DEF SoundPosts
    <3>2. QED
      BY <1>3, <3>1
  <2>3. posting \subseteq N \X Ways
    BY <2>1 DEF SoundPosts
  <2>4. QED
    BY <2>2, <2>3 DEF SoundPosts
<1>7. QED
  BY <1>1, <1>3, <1>4, <1>5, <1>6

\* What is left of the payments' state once the payments themselves are looked at.
LEMMA PayRest ==
    ASSUME PayInv, NEW J \in SUBSET Payments, NEW N \in SUBSET J, issued \subseteq J, vouched \subseteq N,
           issued' = J, vouched' = N, UNCHANGED <<asking, psp, rail, kept>>,
           SoundPosts(posting', pays', N), SoundPays(pays', J, N), SoundMoves(moved', pays')
    PROVE  PayInv'
<1>1. SoundPays(kept, J, N)
  BY PaysGrow DEF PayInv
<1>2. QED
  BY <1>1 DEF PayInv

\* Settling a payment that may be confirmed: it is released with its money vouched for, and only
\* if it is not closed already.
LEMMA SettleKeeps ==
    ASSUME PayInv, NEW p \in issued, NEW r, SoundCopy(r, p, issued, vouched), settleConfirmedPayment(p, r),
           r.st = "CONFIRMED" => moved[p] = 0, moved[p] = 0 \/ r.st \in Closed,
           r # NoPay \/ r = pays[p]
    PROVE  /\ SoundPays(pays', issued, vouched) /\ SoundMoves(moved', pays')
           /\ SoundPosts(posting', pays', vouched)
<1>1. p \in Payments /\ issued \in SUBSET Payments /\ vouched \in SUBSET issued
  BY DEF PayInv
<1>2. CASE pays' = Set(p, r) /\ UNCHANGED <<posting, moved>>
  BY <1>1, <1>2, OneWritten
<1> DEFINE q == [r EXCEPT !.st = "RELEASED", !.tid = TRUE]
<1>3. CASE /\ r.st = "CONFIRMED" /\ pays' = Set(p, q)
           /\ posting' = posting \cup {<<p, "settle">>} /\ moved' = [moved EXCEPT ![p] = @ + 1]
  <2>1. q \in PayRecords /\ q.st = "RELEASED" /\ q.asset = r.asset
    BY Released DEF SoundCopy
  <2> HIDE DEF q
  <2>0. q # NoPay
    BY <2>1, NoPayRecord
  <2>2. p \in vouched /\ r # NoPay /\ r.asset \in Assets
    BY <1>3, NoPayRecord DEF SoundCopy, Late
  <2>3. SoundCopy(q, p, issued, vouched)
    BY <2>1, <2>2 DEF SoundCopy, Late
  <2>4. SoundPays(Set(p, q), issued, vouched) /\ SoundMoves(moved, Set(p, q)) /\ Set(p, q)[p] = q
        /\ SoundPosts(posting, Set(p, q), vouched)
    BY <1>1, <2>0, <2>1, <2>3, OneWritten DEF Closed
  <2>5. SoundMoves(moved', Set(p, q))
    <3>1. moved \in [Payments -> {0, 1}] /\ moved[p] = 0
      BY <1>3, <2>4 DEF SoundMoves
    <3>2. moved' = [moved EXCEPT ![p] = moved[p] + 1]
      BY <1>3
    <3>3. moved' = [moved EXCEPT ![p] = 1]
      BY <3>1, <3>2
    <3>4. moved' \in [Payments -> {0, 1}] /\ \A x \in Payments \ {p} : moved'[x] = moved[x]
      BY <1>1, <3>1, <3>3
    <3>5. QED
      BY <2>1, <2>4, <3>4 DEF SoundMoves, Closed
  <2>6. SoundPosts(posting', Set(p, q), vouched)
    BY <1>3, <2>0, <2>2, <2>4 DEF Ways, SoundPosts
  <2>7. QED
    BY <1>3, <2>4, <2>5, <2>6
<1>4. QED
  BY <1>2, <1>3 DEF settleConfirmedPayment, Settles
-----------------------------------------------------------------------------
(* Every handler keeps the payments sound *)

LEMMA NoPaymentKeeps == ASSUME PayInv, NoPayment PROVE PayInv'
BY DEF NoPayment, PayInv, inflight, history

\* What a body may bring of a payment is a sound copy once the payment is taken.
LEMMA CopiesAreSound ==
    ASSUME PayInv, NEW p \in Payments, NEW r \in Copies(p), NEW J, NEW N, issued \subseteq J, vouched \subseteq N,
           p \in J, r.st \in Late => p \in N
    PROVE  SoundCopy(r, p, J, N) /\ r # NoPay
<1>1. r # NoPay /\ (r = kept[p] \/ r = pays[p] \/ r \in Bodies)
  BY DEF Copies
<1>2. ASSUME r \in Bodies PROVE r \in PayRecords /\ r.asset \in Assets
  BY <1>2, MockServerConstants
<1>3. ASSUME r = kept[p] \/ r = pays[p] PROVE r \in PayRecords /\ r.asset \in Assets
  BY <1>1, <1>3 DEF PayInv, SoundPays, SoundCopy
<1>4. QED
  BY <1>1, <1>2, <1>3 DEF SoundCopy

\* A handler that writes one payment, soundly, and nothing else of the payments.
LEMMA WritesKeep ==
    ASSUME PayInv, NEW p \in Payments, NEW r, Writes(p, r), NEW J \in SUBSET Payments, NEW N \in SUBSET J,
           issued \subseteq J, vouched \subseteq N, issued' = J, vouched' = N, moved' = moved,
           SoundCopy(r, p, J, N), moved[p] = 0 \/ r.st \in Closed, r # NoPay
    PROVE  PayInv'
<1>1. pays' = Set(p, r) /\ UNCHANGED <<asking, posting, psp, rail, kept>>
  BY DEF Writes, inflight
<1>2. SoundPays(Set(p, r), J, N) /\ SoundMoves(moved, Set(p, r)) /\ SoundPosts(posting, Set(p, r), N)
  BY OneWritten
<1>3. QED
  BY <1>1, <1>2, PayRest

\* An open payment has been asked for and moved nothing.
LEMMA OpenPayment ==
    ASSUME PayInv, NEW p \in Payments
    PROVE  /\ SoundCopy(pays[p], p, issued, vouched)
           /\ pays[p] # NoPay => p \in issued
           /\ pays[p].st \notin Closed => moved[p] = 0
           /\ pays[p].st # "none" => pays[p] # NoPay
           /\ moved[p] = 0 \/ pays[p].st \in Closed
<1>1. SoundCopy(pays[p], p, issued, vouched) /\ moved \in [Payments -> {0, 1}]
      /\ (moved[p] = 1 => pays[p].st \in Closed)
  BY DEF PayInv, SoundPays, SoundMoves
<1>2. moved[p] = 0 \/ moved[p] = 1
  BY <1>1
<1>3. QED
  BY <1>1, <1>2, NoPayRecord DEF SoundCopy

\* An open payment may take any status its money was vouched for, where it takes money.
LEMMA StatusKeeps ==
    ASSUME PayInv, NEW p \in Payments, NEW st \in Sts, Writes(p, [pays[p] EXCEPT !.st = st]),
           pays[p] # NoPay, moved[p] = 0 \/ st \in Closed, st # "none",
           NEW N \in SUBSET issued, vouched \subseteq N, st \in Late => p \in N,
           issued' = issued, vouched' = N, moved' = moved
    PROVE  PayInv'
<1> DEFINE q == [pays[p] EXCEPT !.st = st]
<1>1. SoundCopy(q, p, issued, N) /\ q.st = st
  BY OpenPayment, RestatedCopy, Restated DEF SoundCopy
<1>0. q # NoPay
  BY <1>1, NoPayRecord
<1> HIDE DEF q
<1>2. Writes(p, q) /\ issued \in SUBSET Payments
  BY DEF q, PayInv
<1>3. QED
  BY <1>0, <1>1, <1>2, WritesKeep

LEMMA CollectKeeps ==
    ASSUME PayInv, NEW p \in Payments, NEW a \in Assets, NEW h \in People, Collect(p, a, h)
    PROVE  PayInv'
<1>1. PICK st \in {"PENDING", "FAILED_KYC_NOT_VERIFIED", "FAILED_FRAUD_BLOCKED"} :
        pays' = [pays EXCEPT ![p] = [NoPay EXCEPT !.st = st, !.asset = a, !.by = h]]
  BY DEF Collect
<1> DEFINE q == [NoPay EXCEPT !.st = st, !.asset = a, !.by = h]
           J == issued \cup {p}
<1>2. q \in PayRecords /\ q.st = st /\ q.asset = a
  BY DEF NoPay, PayRecords
<1> HIDE DEF q
<1>0. q # NoPay
  BY <1>2, NoPayRecord
<1>3. SoundCopy(q, p, J, vouched)
  BY <1>2 DEF SoundCopy, Late
<1>4. pays' = Set(p, q) /\ issued' = J /\ vouched' = vouched /\ moved' = moved
      /\ UNCHANGED <<asking, posting, psp, rail, kept>> /\ p \notin issued
  BY <1>1 DEF q, Set, Collect, inflight
<1>5. J \in SUBSET Payments /\ vouched \in SUBSET J /\ issued \subseteq J /\ vouched \subseteq vouched
  BY DEF PayInv
<1>6. moved[p] = 0
  <2>1. pays[p] = NoPay
    BY <1>4, OpenPayment DEF SoundCopy
  <2>2. pays[p].st \notin Closed
    BY <2>1, NoPayRecord DEF Closed
  <2>3. QED
    BY <2>2, OpenPayment
<1> HIDE DEF J
<1>7. SoundPays(Set(p, q), J, vouched) /\ SoundMoves(moved, Set(p, q)) /\ SoundPosts(posting, Set(p, q), vouched)
  BY <1>0, <1>3, <1>5, <1>6, OneWritten
<1>8. QED
  BY <1>4, <1>5, <1>7, PayRest

LEMMA PayAtProviderKeeps == ASSUME PayInv, NEW p \in Payments, PayAtProvider(p) PROVE PayInv'
<1>1. /\ p \in issued /\ psp' = psp \cup {p} /\ vouched' = vouched \cup {p}
      /\ UNCHANGED <<pays, asking, posting, rail, kept, moved, issued>>
  BY DEF PayAtProvider
<1>2. vouched \cup {p} \subseteq issued /\ issued \subseteq Payments
  BY <1>1 DEF PayInv
<1>3. SoundPays(pays, issued, vouched \cup {p}) /\ SoundPays(kept, issued, vouched \cup {p})
  BY PaysGrow DEF PayInv
<1>4. SoundPosts(posting, pays, vouched \cup {p}) /\ psp \cup {p} \subseteq vouched \cup {p}
      /\ asking \subseteq issued /\ SoundRail(rail) /\ SoundMoves(moved, pays)
  BY DEF PayInv, SoundPosts
<1>5. QED
  BY <1>1, <1>2, <1>3, <1>4 DEF PayInv

LEMMA Rewritten ==
    ASSUME PayInv, NEW p \in Payments, pays[p] # NoPay, NEW st \in Sts, st \in Late => p \in vouched
    PROVE  LET q == [pays[p] EXCEPT !.st = st] IN SoundCopy(q, p, issued, vouched) /\ q.st = st
<1>1. SoundCopy(pays[p], p, issued, vouched)
  BY OpenPayment
<1>2. QED
  BY <1>1, RestatedHere

\* What a report makes of a payment is sound, if it was true at the provider.
LEMMA AfterReportSound ==
    ASSUME PayInv, NEW p \in Payments, NEW s \in Reports(p), pays[p] # NoPay
    PROVE  LET r == AfterReport(pays[p], s) IN
           /\ SoundCopy(r, p, issued, vouched) /\ (r.st = "CONFIRMED" => moved[p] = 0)
           /\ moved[p] = 0 \/ r.st \in Closed
           /\ r # NoPay
<1> DEFINE r == AfterReport(pays[p], s)
<1>1. CASE pays[p].st = "PENDING" /\ s = "success"
  <2>1. r = [pays[p] EXCEPT !.st = "CONFIRMED"]
    BY <1>1 DEF AfterReport
  <2>2. p \in vouched
    BY <1>1 DEF Reports, PayInv
  <2>3. SoundCopy(r, p, issued, vouched) /\ r.st = "CONFIRMED"
    <3>1. LET q == [pays[p] EXCEPT !.st = "CONFIRMED"] IN SoundCopy(q, p, issued, vouched) /\ q.st = "CONFIRMED"
      BY <2>2, Rewritten DEF Sts
    <3>2. QED
      BY <2>1, <3>1
  <2>4. moved[p] = 0 /\ r # NoPay
    BY <1>1, <2>3, OpenPayment, NoPayRecord DEF Closed
  <2>5. QED
    BY <2>3, <2>4
<1>2. CASE pays[p].st = "PENDING" /\ s = "failure"
  <2>1. r = [pays[p] EXCEPT !.st = "DECLINED"]
    BY <1>2 DEF AfterReport
  <2>2. SoundCopy(r, p, issued, vouched) /\ r.st = "DECLINED"
    <3>1. LET q == [pays[p] EXCEPT !.st = "DECLINED"] IN SoundCopy(q, p, issued, vouched) /\ q.st = "DECLINED"
      BY Rewritten DEF Sts, Late
    <3>2. QED
      BY <2>1, <3>1
  <2>3. moved[p] = 0 /\ r # NoPay
    BY <1>2, <2>2, OpenPayment, NoPayRecord DEF Closed
  <2>4. QED
    BY <2>2, <2>3
<1>3. CASE ~(pays[p].st = "PENDING" /\ s \in {"success", "failure"})
  <2>1. r = pays[p]
    BY <1>3 DEF AfterReport
  <2>2. QED
    BY <2>1, OpenPayment DEF Closed
<1>4. QED
  BY <1>1, <1>2, <1>3

\* The sums do not match: nothing is confirmed by that.
LEMMA MismatchSound ==
    ASSUME PayInv, NEW p \in Payments, pays[p] # NoPay
    PROVE  LET r == [pays[p] EXCEPT !.st = "FAILED_AMOUNT_MISMATCH"] IN
           SoundCopy(r, p, issued, vouched) /\ r.st = "FAILED_AMOUNT_MISMATCH"
BY Rewritten DEF Sts, Late

LEMMA PayuCallbackKeeps == ASSUME PayInv, NEW p \in Payments, NEW s, PayuCallback(p, s) PROVE PayInv'
<1>1. /\ pays[p] # NoPay /\ s \in Reports(p)
      /\ UNCHANGED <<asking, psp, rail, kept, vouched, issued>>
  BY DEF PayuCallback
<1>2. p \in issued /\ issued \in SUBSET Payments /\ vouched \in SUBSET issued
  BY <1>1, OpenPayment DEF PayInv
<1>3. SoundPays(pays', issued, vouched) /\ SoundMoves(moved', pays') /\ SoundPosts(posting', pays', vouched)
  <2>1. CASE s = "mismatch"
    <3> DEFINE r == [pays[p] EXCEPT !.st = "FAILED_AMOUNT_MISMATCH"]
    <3>1. pays' = Set(p, r) /\ moved' = moved /\ posting' = posting
      BY <2>1 DEF PayuCallback
    <3>2. SoundCopy(r, p, issued, vouched) /\ r.st \in Closed /\ r # NoPay
      BY <1>1, MismatchSound, NoPayRecord DEF Closed
    <3> HIDE DEF r
    <3>3. QED
      BY <1>2, <3>1, <3>2, OneWritten DEF PayInv
  <2>2. CASE s # "mismatch"
    <3> DEFINE r == AfterReport(pays[p], s)
    <3>1. settleConfirmedPayment(p, r)
      BY <2>2 DEF PayuCallback
    <3>2. /\ SoundCopy(r, p, issued, vouched) /\ (r.st = "CONFIRMED" => moved[p] = 0)
          /\ moved[p] = 0 \/ r.st \in Closed
          /\ r # NoPay
      BY <1>1, AfterReportSound
    <3> HIDE DEF r
    <3>3. QED
      BY <1>2, <3>1, <3>2, SettleKeeps
  <2>3. QED
    BY <2>1, <2>2
<1>4. QED
  BY <1>1, <1>3 DEF PayInv

LEMMA ReconcileKeeps == ASSUME PayInv, NEW p \in Payments, Reconcile(p) PROVE PayInv'
<1>1. /\ asking' = asking \cup {p} /\ pays[p] # NoPay
      /\ UNCHANGED <<pays, posting, psp, rail, kept, moved, vouched, issued>>
  BY DEF Reconcile, history
<1>2. asking' \subseteq issued
  BY <1>1, OpenPayment DEF PayInv
<1>3. QED
  BY <1>1, <1>2 DEF PayInv

\* What the provider's answer makes of the payment as it is by now.
Answered(p, s) == IF s = "mismatch" /\ pays[p].st = "PENDING"
                  THEN [pays[p] EXCEPT !.st = "FAILED_AMOUNT_MISMATCH"] ELSE AfterReport(pays[p], s)
LEMMA AnsweredSound ==
    ASSUME PayInv, NEW p \in Payments, NEW s \in Reports(p)
    PROVE  LET r == Answered(p, s) IN
           /\ SoundCopy(r, p, issued, vouched) /\ (r.st = "CONFIRMED" => moved[p] = 0)
           /\ moved[p] = 0 \/ r.st \in Closed
           /\ r # NoPay \/ r = pays[p]
<1> DEFINE r == Answered(p, s)
<1>1. CASE s = "mismatch" /\ pays[p].st = "PENDING"
  <2>1. pays[p] # NoPay /\ r = [pays[p] EXCEPT !.st = "FAILED_AMOUNT_MISMATCH"]
    BY <1>1, NoPayRecord DEF Answered
  <2>2. SoundCopy(r, p, issued, vouched) /\ r.st = "FAILED_AMOUNT_MISMATCH"
    BY <2>1, MismatchSound
  <2>3. QED
    BY <2>2, NoPayRecord DEF Closed
<1>2. CASE ~(s = "mismatch" /\ pays[p].st = "PENDING") /\ pays[p] # NoPay
  <2>1. r = AfterReport(pays[p], s)
    BY <1>2 DEF Answered
  <2>2. QED
    BY <1>2, <2>1, AfterReportSound
<1>3. CASE pays[p] = NoPay
  <2>1. r = pays[p] /\ r.st = "none"
    BY <1>3, NoPayRecord DEF AfterReport, Answered
  <2>2. QED
    BY <2>1, OpenPayment DEF Closed
<1>4. QED
  BY <1>1, <1>2, <1>3

LEMMA ProviderAnswersKeeps == ASSUME PayInv, NEW p \in Payments, NEW s, ProviderAnswers(p, s) PROVE PayInv'
<1> DEFINE r == Answered(p, s)
<1>1. /\ p \in asking /\ asking' = asking \ {p} /\ s \in Reports(p) /\ settleConfirmedPayment(p, r)
      /\ UNCHANGED <<psp, rail, kept, vouched, issued>>
  BY DEF ProviderAnswers, Answered
<1>2. p \in issued
  BY <1>1 DEF PayInv
<1>3. /\ SoundCopy(r, p, issued, vouched) /\ (r.st = "CONFIRMED" => moved[p] = 0)
      /\ moved[p] = 0 \/ r.st \in Closed
      /\ r # NoPay \/ r = pays[p]
  BY <1>1, AnsweredSound
<1> HIDE DEF r
<1>4. SoundPays(pays', issued, vouched) /\ SoundMoves(moved', pays') /\ SoundPosts(posting', pays', vouched)
  BY <1>1, <1>2, <1>3, SettleKeeps
<1>5. asking' \subseteq issued
  BY <1>1 DEF PayInv
<1>6. QED
  BY <1>1, <1>4, <1>5 DEF PayInv

LEMMA SettleRouteKeeps == ASSUME PayInv, NEW p \in Payments, Settle(p) PROVE PayInv'
<1>1. /\ pays[p].st = "CONFIRMED" /\ settleConfirmedPayment(p, pays[p])
      /\ UNCHANGED <<asking, psp, rail, kept, vouched, issued>>
  BY DEF Settle, Settles
<1>2. p \in issued /\ SoundCopy(pays[p], p, issued, vouched) /\ moved[p] = 0
  BY <1>1, OpenPayment DEF Closed
<1>3. SoundPays(pays', issued, vouched) /\ SoundMoves(moved', pays') /\ SoundPosts(posting', pays', vouched)
  BY <1>1, <1>2, SettleKeeps
<1>4. QED
  BY <1>1, <1>3 DEF PayInv

\* A pending payment becomes something else, and somebody may vouch for it.
LEMMA PendingKeeps ==
    ASSUME PayInv, NEW p \in Payments, pays[p].st = "PENDING", NEW st \in Sts, st # "none",
           Writes(p, [pays[p] EXCEPT !.st = st]),
           \/ UNCHANGED history /\ (st \in Late => p \in vouched)
           \/ Vouched(p)
           \/ Takes({}, IF st = "CONFIRMED" THEN {p} ELSE {}) /\ (st = "CONFIRMED" \/ st \notin Late)
    PROVE  PayInv'
<1>1. pays[p] # NoPay /\ moved[p] = 0 /\ p \in issued /\ vouched \in SUBSET issued
  BY OpenPayment DEF Closed, PayInv
<1>2. CASE UNCHANGED history /\ (st \in Late => p \in vouched)
  BY <1>1, <1>2, StatusKeeps DEF history
<1>3. CASE Vouched(p)
  <2>1. vouched' = vouched \cup {p} /\ moved' = moved /\ issued' = issued /\ vouched \cup {p} \in SUBSET issued
    BY <1>1, <1>3 DEF Vouched
  <2>2. QED
    BY <1>1, <2>1, StatusKeeps
<1>4. CASE Takes({}, IF st = "CONFIRMED" THEN {p} ELSE {}) /\ (st = "CONFIRMED" \/ st \notin Late)
  <2>1. PICK N : N = vouched \cup IF st = "CONFIRMED" THEN {p} ELSE {}
    OBVIOUS
  <2>2. vouched' = N /\ moved' = moved /\ issued' = issued
    BY <1>4, <2>1 DEF Takes
  <2>3. N \in SUBSET issued /\ vouched \subseteq N /\ (st \in Late => p \in N)
    BY <1>1, <1>4, <2>1
  <2>4. QED
    BY <1>1, <2>2, <2>3, StatusKeeps
<1>5. QED
  BY <1>2, <1>3, <1>4

\* A payment is taken as the body has it.
LEMMA ReattachKeeps == ASSUME PayInv, NEW p \in Payments, Reattach(p) PROVE PayInv'
<1>1. PICK r \in Copies(p) : Writes(p, r) /\ Takes({p}, IF r.st \in Late THEN {p} ELSE {})
  BY DEF Reattach
<1>2. PICK J, N : J = issued \cup {p} /\ N = vouched \cup IF r.st \in Late THEN {p} ELSE {}
  OBVIOUS
<1>3. issued' = J /\ vouched' = N /\ moved' = moved
  BY <1>1, <1>2 DEF Takes
<1>4. /\ J \in SUBSET Payments /\ N \in SUBSET J /\ issued \subseteq J /\ vouched \subseteq N
      /\ p \in J /\ (r.st \in Late => p \in N)
  BY <1>2 DEF PayInv
<1>5. SoundCopy(r, p, J, N) /\ r # NoPay
  BY <1>4, CopiesAreSound
<1>6. pays[p] = NoPay
  BY DEF Reattach
<1>7. moved[p] = 0
  BY <1>6, OpenPayment, NoPayRecord DEF Closed
<1>8. QED
  BY <1>1, <1>3, <1>4, <1>5, <1>7, WritesKeep

LEMMA ReleaseKeeps == ASSUME PayInv, NEW p \in Payments, Release(p) PROVE PayInv'
<1> DEFINE q == [pays[p] EXCEPT !.st = "RELEASED", !.tid = TRUE]
<1>1. /\ pays[p].st = "CONFIRMED" /\ pays' = Set(p, q)
      /\ posting' = IF pays[p].umi THEN posting ELSE posting \cup {<<p, "release">>}
      /\ UNCHANGED <<asking, psp, rail, kept, moved, vouched, issued>>
  BY DEF Release, history
<1>2. SoundCopy(pays[p], p, issued, vouched) /\ pays[p] # NoPay /\ p \in vouched
  BY <1>1, OpenPayment DEF SoundCopy, Late
<1>3. q \in PayRecords /\ q.st = "RELEASED" /\ q.asset = pays[p].asset
  BY <1>2, Released DEF SoundCopy
<1> HIDE DEF q
<1>4. SoundCopy(q, p, issued, vouched)
  BY <1>2, <1>3 DEF SoundCopy
<1>5. issued \in SUBSET Payments /\ vouched \in SUBSET issued /\ q # NoPay
  BY <1>3, NoPayRecord DEF PayInv
<1>6. /\ SoundPays(Set(p, q), issued, vouched) /\ SoundMoves(moved, Set(p, q))
      /\ SoundPosts(posting, Set(p, q), vouched) /\ Set(p, q)[p] = q
  BY <1>3, <1>4, <1>5, OneWritten DEF Closed
<1>7. SoundPosts(posting', Set(p, q), vouched)
  BY <1>1, <1>2, <1>5, <1>6 DEF SoundPosts, Ways
<1>8. QED
  BY <1>1, <1>5, <1>6, <1>7 DEF PayInv

LEMMA RefundKeeps == ASSUME PayInv, NEW p \in Payments, Refund(p) PROVE PayInv'
<1>1. pays[p].st \in Refundable /\ Writes(p, [pays[p] EXCEPT !.st = "REFUNDED"]) /\ UNCHANGED <<moved, vouched, issued>>
  BY DEF Refund, history
<1>2. pays[p] # NoPay /\ moved[p] = 0 /\ vouched \in SUBSET issued
  BY <1>1, OpenPayment DEF Refundable, Closed, PayInv
<1>3. QED
  BY <1>1, <1>2, StatusKeeps DEF Sts, Late

LEMMA BackfillKeeps == ASSUME PayInv, Backfill PROVE PayInv'
<1>1. /\ posting' = posting \cup {<<p, "backfill">> : p \in {q \in Payments : pays[q].st = "RELEASED" /\ ~pays[q].umi}}
      /\ UNCHANGED <<pays, asking, psp, rail, kept, moved, vouched, issued>>
  BY DEF Backfill, history
<1>2. \A p \in Payments : pays[p].st = "RELEASED" => p \in vouched /\ pays[p] # NoPay
  BY OpenPayment, NoPayRecord DEF SoundCopy, Late
<1>3. SoundPosts(posting', pays, vouched)
  BY <1>1, <1>2 DEF PayInv, Ways, SoundPosts
<1>4. QED
  BY <1>1, <1>3 DEF PayInv

\* The rail delivers what it has no key of.
LEMMA DeliveredOnce ==
    ASSUME SoundRail(rail), NEW p \in Payments, NEW way, Delivered(p, way)
    PROVE  /\ SoundRail(rail')
           /\ p \in rail.keys => rail'.dvps = rail.dvps
           /\ p \notin rail.keys => /\ rail.dvps[p] = 0
                                    /\ rail'.dvps = [q \in Payments |-> rail.dvps[q] + IF q \in {p} THEN 1 ELSE 0]
<1> DEFINE dv == [rail.dvps EXCEPT ![p] = @ + IF p \in rail.keys THEN 0 ELSE 1]
<1>1. rail' = [keys |-> rail.keys \cup {p}, dvps |-> dv]
  BY DEF Delivered, RailKey
<1>2. rail'.keys = rail.keys \cup {p} /\ rail'.dvps = dv
  BY <1>1
<1>3. rail.dvps = [q \in Payments |-> IF q \in rail.keys THEN 1 ELSE 0]
  BY DEF SoundRail
<1>4. dv = [q \in Payments |-> IF q \in rail.keys \cup {p} THEN 1 ELSE 0]
  BY <1>3
<1> HIDE DEF dv
<1>5. SoundRail(rail')
  BY <1>2, <1>4 DEF SoundRail
<1>6. ASSUME p \in rail.keys PROVE rail'.dvps = rail.dvps
  BY <1>2, <1>3, <1>4, <1>6
<1>7. ASSUME p \notin rail.keys
      PROVE  rail.dvps[p] = 0 /\ rail'.dvps = [q \in Payments |-> rail.dvps[q] + IF q \in {p} THEN 1 ELSE 0]
  <2>1. rail.dvps[p] = 0
    BY <1>3, <1>7
  <2>2. \A q \in Payments : rail'.dvps[q] = rail.dvps[q] + IF q \in {p} THEN 1 ELSE 0
    BY <1>2, <1>3, <1>4, <1>7
  <2>3. rail'.dvps = [q \in Payments |-> rail'.dvps[q]]
    BY <1>2, <1>4
  <2>4. QED
    BY <2>1, <2>2, <2>3
<1>8. QED
  BY <1>5, <1>6, <1>7

LEMMA CommitKeeps ==
    ASSUME PayInv, NEW p \in Payments, NEW way, commitSettlementToRail(p, way)
    PROVE  PayInv'
<1>1. /\ posting' \subseteq posting /\ UNCHANGED <<asking, psp, kept, moved, vouched, issued>>
      /\ SoundRail(rail) /\ <<p, way>> \in posting
  BY DEF commitSettlementToRail, history, PayInv
<1>2. SoundRail(rail')
  BY <1>1, DeliveredOnce DEF commitSettlementToRail
<1>0. pays[p] # NoPay /\ p \in issued
  BY <1>1 DEF PayInv, SoundPosts
<1>3. SoundPays(pays', issued, vouched) /\ SoundMoves(moved, pays') /\ SoundPosts(posting, pays', vouched)
  <2>1. CASE UNCHANGED pays
    BY <2>1 DEF PayInv
  <2> DEFINE q == [pays[p] EXCEPT !.umi = TRUE]
  <2>2. CASE pays' = Set(p, q)
    <3>1. SoundCopy(pays[p], p, issued, vouched) /\ (moved[p] = 0 \/ pays[p].st \in Closed)
      BY OpenPayment
    <3>2. q \in PayRecords /\ q.st = pays[p].st /\ q.asset = pays[p].asset
      BY <3>1, OnRail DEF SoundCopy
    <3>0. q # NoPay
      BY <3>1 DEF NoPay, PayRecords, SoundCopy
    <3>3. SoundCopy(q, p, issued, vouched) /\ (moved[p] = 0 \/ q.st \in Closed)
      BY <1>0, <3>1, <3>2 DEF SoundCopy
    <3> HIDE DEF q
    <3>4. issued \in SUBSET Payments /\ vouched \in SUBSET issued
      BY DEF PayInv
    <3>5. QED
      BY <2>2, <3>0, <3>3, <3>4, OneWritten
  <2>3. QED
    BY <2>1, <2>2 DEF commitSettlementToRail
<1>4. SoundPosts(posting', pays', vouched)
  BY <1>1, <1>3 DEF SoundPosts
<1>5. QED
  BY <1>1, <1>2, <1>3, <1>4 DEF PayInv

LEMMA LeaveRest ==
    ASSUME NEW a, NEW p, NEW healed, NEW b, NEW R, Leave(a, p, healed, b, R)
    PROVE  pays' = Restored(R) /\ Takes(New(R), New(R)) /\ UNCHANGED <<inflight, kept>>
BY DEF Leave

LEMMA SpendRest ==
    ASSUME NEW a, NEW p, NEW b, NEW from, NEW to, NEW n, NEW R, Spend(a, p, b, from, to, n, R)
    PROVE  pays' = Restored(R) /\ Takes(New(R), New(R)) /\ UNCHANGED <<inflight, kept>>
BY LeaveRest DEF Spend

LEMMA LeaveDeals ==
    ASSUME NEW a, NEW p, NEW healed, NEW b, NEW R, Leave(a, p, healed, b, R)
    PROVE  UNCHANGED <<loans, swaps>>
BY DEF Leave

LEMMA SpendDeals ==
    ASSUME NEW a, NEW p, NEW b, NEW from, NEW to, NEW n, NEW R, Spend(a, p, b, from, to, n, R)
    PROVE  UNCHANGED <<loans, swaps>>
BY LeaveDeals DEF Spend

\* A transfer takes the payments of some receipts, and that is all it does to payments.
LEMMA TransferTakes ==
    ASSUME NEW a, NEW h, NEW g, NEW n, Transfer(a, h, g, n)
    PROVE  /\ UNCHANGED <<inflight, kept>>
           /\ \E R \in SUBSET Receipts(a, h) : pays' = Restored(R) /\ Takes(New(R), New(R))
<1>1. {} \in SUBSET Receipts(a, h) /\ SUBSET Receipts(a, h) \ {{}} \subseteq SUBSET Receipts(a, h)
  OBVIOUS
<1>2. UNCHANGED <<inflight, kept>>
  BY Zenon, LeaveRest, SpendRest DEF Transfer
<1>3. \E R \in SUBSET Receipts(a, h) : pays' = Restored(R) /\ Takes(New(R), New(R))
  BY ZenonT(90), <1>1, LeaveRest, SpendRest DEF Transfer
<1>4. QED
  BY <1>2, <1>3

\* What the receipts bring is said to be paid for, and taken so.
LEMMA TransferKeeps ==
    ASSUME PayInv, NEW a, NEW h, NEW g, NEW n, Transfer(a, h, g, n)
    PROVE  PayInv'
<1>1. PICK R \in SUBSET Receipts(a, h) : pays' = Restored(R) /\ Takes(New(R), New(R))
  BY TransferTakes
<1>2. PICK J, N : J = issued \cup New(R) /\ N = vouched \cup New(R)
  OBVIOUS
<1>3. issued' = J /\ vouched' = N /\ moved' = moved
  BY <1>1, <1>2 DEF Takes
<1>4. J \in SUBSET Payments /\ N \in SUBSET J /\ issued \subseteq J /\ vouched \subseteq N
  BY <1>2 DEF PayInv, New
<1>5. SoundPays(pays, J, N)
  BY <1>4, PaysGrow DEF PayInv
<1>6. ASSUME NEW p \in Payments
      PROVE  SoundCopy(pays'[p], p, J, N) /\ (pays[p] # NoPay => pays'[p] = pays[p])
  <2>1. CASE pays[p] = NoPay /\ \E r \in R : r[1] = p
    <3> DEFINE c == CHOOSE r \in R : r[1] = p
    <3>1. c \in R /\ c[1] = p /\ pays'[p] = c[2]
      BY <1>1, <2>1 DEF Restored
    <3>2. p \in New(R)
      BY <2>1 DEF New
    <3>3. c[2] \in Copies(c[1])
      BY <3>1 DEF Receipts
    <3> HIDE DEF c
    <3>4. c[2] \in Copies(p) /\ p \in J /\ p \in N
      BY <1>2, <3>1, <3>2, <3>3
    <3>5. SoundCopy(c[2], p, J, N)
      BY <1>4, <3>4, CopiesAreSound
    <3>6. QED
      BY <2>1, <3>1, <3>5
  <2>2. CASE ~(pays[p] = NoPay /\ \E r \in R : r[1] = p)
    <3>1. pays'[p] = pays[p]
      BY <1>1, <2>2 DEF Restored
    <3>2. QED
      BY <1>5, <3>1 DEF SoundPays
  <2>3. QED
    BY <2>1, <2>2
<1>7. SoundPays(pays', J, N)
  <2>1. pays' = [p \in Payments |-> pays'[p]] /\ \A p \in Payments : pays'[p] \in PayRecords
    BY <1>1, <1>6 DEF Restored, SoundCopy
  <2>2. pays' \in [Payments -> PayRecords]
    BY <2>1
  <2>3. QED
    BY <1>6, <2>2 DEF SoundPays
<1>8. SoundMoves(moved, pays')
  <2>1. ASSUME NEW p \in Payments, moved[p] = 1 PROVE pays[p] # NoPay
    BY <2>1, NoPayRecord DEF PayInv, SoundMoves, Closed
  <2>2. QED
    BY <1>6, <2>1 DEF PayInv, SoundMoves
<1>9. SoundPosts(posting, pays', N)
  <2>1. SoundPosts(posting, pays, vouched) /\ vouched \subseteq Payments
    BY DEF PayInv
  <2>2. \A q \in posting : q[1] \in Payments
    BY <2>1 DEF SoundPosts
  <2>3. QED
    BY <1>4, <1>6, <2>1, <2>2 DEF SoundPosts
<1>10. UNCHANGED <<asking, psp, rail, kept, posting>>
  BY TransferTakes DEF inflight
<1>11. QED
  BY <1>3, <1>4, <1>7, <1>8, <1>9, <1>10, PayRest

LEMMA RestartKeeps == ASSUME PayInv, Restart PROVE PayInv'
<1> DEFINE kp == [p \in Payments |-> IF pays[p] = NoPay THEN kept[p] ELSE pays[p]]
           none == [p \in Payments |-> NoPay]
<1>1. /\ pays' = none /\ kept' = kp /\ moved' = [p \in Payments |-> 0]
      /\ asking' = {} /\ posting' = {} /\ UNCHANGED <<psp, rail, vouched, issued>>
  BY DEF Restart
<1>2. SoundPays(none, issued, vouched)
  BY NoPayRecord DEF SoundPays, SoundCopy, Late
<1>3. SoundPays(kp, issued, vouched)
  BY DEF PayInv, SoundPays
<1>4. SoundMoves([p \in Payments |-> 0], none)
  BY DEF SoundMoves
<1> HIDE DEF kp, none
<1>6. SoundPosts({}, none, vouched)
  BY DEF SoundPosts
<1>7. QED
  BY <1>1, <1>2, <1>3, <1>4, <1>6 DEF PayInv

\* The routes and webhooks that only give a pending payment another status.
LEMMA PendingMoves ==
    ASSUME PayInv, NEW p \in Payments,
           \/ Get(p) \/ Approve(p) \/ Decline(p) \/ WebhookTest(p)
           \/ \E st \in {"CONFIRMED", "DECLINED", "EXPIRED"} : Webhook(p, st)
    PROVE  PayInv'
<1>1. CASE Get(p)
  BY <1>1, PendingKeeps DEF Get, Sts, Late
<1>2. CASE Approve(p)
  <2>1. CASE Writes(p, [pays[p] EXCEPT !.st = "CONFIRMED"]) /\ Vouched(p)
    BY <1>2, <2>1, PendingKeeps DEF Approve, Sts
  <2>2. CASE /\ \E st \in {"EXPIRED", "FAILED_KYC_NOT_VERIFIED", "FAILED_FRAUD_BLOCKED",
                           "FAILED_INSUFFICIENT_FUNDS"} : Writes(p, [pays[p] EXCEPT !.st = st])
             /\ UNCHANGED history
    BY <1>2, <2>2, PendingKeeps DEF Approve, Sts, Late
  <2>3. QED
    BY <1>2, <2>1, <2>2 DEF Approve
<1>3. CASE Decline(p)
  BY <1>3, PendingKeeps DEF Decline, Sts, Late
<1>4. CASE WebhookTest(p)
  BY <1>4, PendingKeeps DEF WebhookTest, Sts
<1>5. ASSUME NEW st \in {"CONFIRMED", "DECLINED", "EXPIRED"}, Webhook(p, st) PROVE PayInv'
  <2>1. st \in Sts /\ st # "none" /\ (st = "CONFIRMED" \/ st \notin Late)
    BY DEF Sts, Late
  <2>2. QED
    BY <1>5, <2>1, PendingKeeps DEF Webhook
<1>6. QED
  BY <1>1, <1>2, <1>3, <1>4, <1>5

LEMMA Initially == ASSUME Init PROVE PayInv
<1> DEFINE none == [p \in Payments |-> NoPay]
<1>1. /\ pays = none /\ kept = none /\ moved = [p \in Payments |-> 0]
      /\ asking = {} /\ posting = {} /\ psp = {} /\ vouched = {} /\ issued = {}
      /\ rail.keys = {} /\ rail.dvps = [p \in Payments |-> 0]
  BY DEF Init
<1>2. SoundPays(none, {}, {}) /\ SoundMoves([p \in Payments |-> 0], none)
  BY NoPayRecord DEF SoundPays, SoundCopy, Late, SoundMoves
<1> HIDE DEF none
<1>3. SoundRail(rail) /\ SoundPosts({}, none, {})
  BY <1>1 DEF SoundRail, SoundPosts
<1>4. QED
  BY <1>1, <1>2, <1>3 DEF PayInv

\* Handlers of listings, pledges and swaps do not look at a payment.
LEMMA MarketActions ==
    ASSUME NEW a \in Assets, Listing(a) \/ Trading(a),
           ~\E h, g \in People, n \in Amounts : Transfer(a, h, g, n)
    PROVE  NoPayment
BY Zenon DEF Listing, Trading, Register, Validate, Mint, Freeze, Unfreeze, Delete, Pledge, Propose

LEMMA LoanAndSwapActions ==
    ASSUME (\E l \in Loans : Repay(l)) \/ (\E w \in Swaps : Accept(w) \/ Cancel(w))
    PROVE  NoPayment
BY Zenon DEF Repay, Accept, Cancel

LEMMA Inductive == ASSUME PayInv, [Next]_vars PROVE PayInv'
<1>1. ASSUME NEW a \in Assets, Listing(a) \/ Trading(a) PROVE PayInv'
  <2>1. CASE \E h, g \in People, n \in Amounts : Transfer(a, h, g, n)
    BY <2>1, TransferKeeps
  <2>2. QED
    BY <1>1, <2>1, MarketActions, NoPaymentKeeps
<1>2. ASSUME (\E l \in Loans : Repay(l)) \/ (\E w \in Swaps : Accept(w) \/ Cancel(w)) PROVE PayInv'
  BY <1>2, LoanAndSwapActions, NoPaymentKeeps
<1>3. ASSUME NEW p \in Payments, Paying(p) PROVE PayInv'
  <2>1. ASSUME NEW way, commitSettlementToRail(p, way) PROVE PayInv'
    BY <2>1, CommitKeeps
  <2>2. ASSUME NEW s, PayuCallback(p, s) \/ ProviderAnswers(p, s) PROVE PayInv'
    BY <2>2, PayuCallbackKeeps, ProviderAnswersKeeps
  <2>3. ASSUME NEW a \in Assets, NEW h \in People, Collect(p, a, h) PROVE PayInv'
    BY <2>3, CollectKeeps
  <2>4. CASE PayAtProvider(p) \/ Reconcile(p) \/ Settle(p) \/ Reattach(p) \/ Release(p) \/ Refund(p)
    BY <2>4, PayAtProviderKeeps, ReconcileKeeps, SettleRouteKeeps, ReattachKeeps, ReleaseKeeps, RefundKeeps
  <2>5. QED
    BY <1>3, <2>1, <2>2, <2>3, <2>4, PendingMoves DEF Paying
<1>4. CASE Backfill \/ Restart
  BY <1>4, BackfillKeeps, RestartKeeps
<1>5. CASE UNCHANGED vars
  BY <1>5 DEF vars, inflight, history, PayInv
<1>6. QED
  BY <1>1, <1>2, <1>3, <1>4, <1>5 DEF Next

\* While the process lives a payment settles at most once, and nothing that answers late
\* (callback, reconciliation, webhook, refund, expiry) takes back a payment that settled.
THEOREM PaymentsStaySettled == Spec => []SettledStaysSettled
<1>1. PayInv => SettledStaysSettled
  BY DEF PayInv, SoundMoves, SettledStaysSettled, Closed
<1>2. QED
  BY <1>1, Initially, Inductive, PTL DEF Spec
-----------------------------------------------------------------------------
(* The rail's promise *)

LEMMA HeardIsPromised ==
    ASSUME NEW new \in SUBSET Payments, NEW paid \in SUBSET Payments, paid \subseteq issued \cup new,
           issued' = issued \cup new, vouched' = vouched \cup paid, rail'.dvps = rail.dvps
    PROVE  [Promise!Next]_(Promise!vars)
<1>1. Promise!Hear(new, paid)
  BY DEF Promise!Hear
<1>2. QED
  BY <1>1 DEF Promise!Next

LEMMA StepsArePromised == ASSUME PayInv, [Next]_vars PROVE [Promise!Next]_(Promise!vars)
<1> DEFINE Same3 == issued' = issued /\ vouched' = vouched /\ rail'.dvps = rail.dvps
<1>1. Same3 => [Promise!Next]_(Promise!vars)
  BY DEF Promise!vars
<1>2. ASSUME NEW a \in Assets, Listing(a) \/ Trading(a) PROVE [Promise!Next]_(Promise!vars)
  <2>1. CASE \E h, g \in People, n \in Amounts : Transfer(a, h, g, n)
    <3>1. PICK h, g \in People, n \in Amounts : Transfer(a, h, g, n)
      BY <2>1
    <3>2. PICK R \in SUBSET Receipts(a, h) : Takes(New(R), New(R))
      BY <3>1, TransferTakes
    <3>3. PICK M : M = New(R)
      OBVIOUS
    <3>4. M \in SUBSET Payments
      BY <3>3 DEF New
    <3>5. issued' = issued \cup M /\ vouched' = vouched \cup M
      BY <3>2, <3>3 DEF Takes
    <3>6. rail' = rail
      BY <3>1, TransferTakes DEF inflight
    <3>7. QED
      BY <3>4, <3>5, <3>6, HeardIsPromised
  <2>2. CASE ~\E h, g \in People, n \in Amounts : Transfer(a, h, g, n)
    BY <1>1, <1>2, <2>2, MarketActions DEF NoPayment, inflight, history
  <2>3. QED
    BY <2>1, <2>2
<1>3. ASSUME (\E l \in Loans : Repay(l)) \/ (\E w \in Swaps : Accept(w) \/ Cancel(w)) PROVE Same3
  BY <1>3, LoanAndSwapActions DEF NoPayment, inflight, history
<1>4. ASSUME NEW p \in issued, issued' = issued, rail' = rail, vouched' = vouched \cup {p}
      PROVE  [Promise!Next]_(Promise!vars)
  <2>1. {p} \in SUBSET Payments /\ {p} \subseteq issued \cup {} /\ issued' = issued \cup {}
    BY <1>4 DEF PayInv
  <2>2. QED
    BY <1>4, <2>1, HeardIsPromised
<1>5. ASSUME NEW p \in Payments, NEW a, NEW h, Collect(p, a, h) PROVE [Promise!Next]_(Promise!vars)
  <2>1. issued' = issued \cup {p} /\ vouched' = vouched \cup {} /\ rail' = rail
    BY <1>5 DEF Collect, inflight
  <2>2. {p} \in SUBSET Payments /\ {} \in SUBSET Payments /\ {} \subseteq issued \cup {p}
    OBVIOUS
  <2>3. rail'.dvps = rail.dvps
    BY <2>1
  <2>4. QED
    BY Zenon, <2>1, <2>2, <2>3, HeardIsPromised
<1>6. ASSUME NEW p \in Payments, Approve(p) \/ WebhookTest(p) PROVE [Promise!Next]_(Promise!vars)
  <2>1. rail' = rail /\ pays[p].st = "PENDING" /\ (UNCHANGED history \/ Vouched(p))
    BY <1>6 DEF Approve, WebhookTest, Writes, inflight
  <2>2. p \in issued
    BY <2>1, OpenPayment
  <2>3. QED
    BY <1>1, <1>4, <2>1, <2>2 DEF Vouched, history
<1>7. ASSUME NEW p \in Payments, NEW way, commitSettlementToRail(p, way) PROVE [Promise!Next]_(Promise!vars)
  <2>1. issued' = issued /\ vouched' = vouched /\ p \in vouched /\ SoundRail(rail)
    BY <1>7 DEF commitSettlementToRail, history, PayInv, SoundPosts
  <2>2. CASE rail' = rail
    BY <1>1, <2>1, <2>2
  <2>3. CASE Delivered(p, way)
    <3>1. CASE p \in rail.keys
      BY <1>1, <2>1, <2>3, <3>1, DeliveredOnce
    <3>2. CASE p \notin rail.keys
      <4>1. rail.dvps[p] = 0 /\ rail'.dvps = [q \in Payments |-> rail.dvps[q] + IF q \in {p} THEN 1 ELSE 0]
        BY <2>1, <2>3, <3>2, DeliveredOnce
      <4>2. Promise!Deliver({p})
        BY <2>1, <4>1 DEF Promise!Deliver
      <4>3. QED
        BY <4>2 DEF Promise!Next
    <3>3. QED
      BY <3>1, <3>2
  <2>4. QED
    BY <1>7, <2>2, <2>3 DEF commitSettlementToRail
<1>8. ASSUME NEW p \in Payments, PayAtProvider(p) PROVE [Promise!Next]_(Promise!vars)
  BY <1>4, <1>8 DEF PayAtProvider
<1>9. ASSUME NEW p \in Payments, NEW s, PayuCallback(p, s) \/ ProviderAnswers(p, s) PROVE Same3
  BY <1>9 DEF PayuCallback, ProviderAnswers, inflight, history
<1>10. ASSUME NEW p \in Payments, \/ Reconcile(p) \/ Settle(p) \/ Get(p)
                                  \/ Decline(p) \/ Release(p) \/ Refund(p)
       PROVE  Same3
  BY <1>10 DEF Reconcile, Settle, Get, Decline, Release, Refund, Writes, inflight, history
<1>11. ASSUME NEW p \in Payments, NEW st, Webhook(p, st) PROVE [Promise!Next]_(Promise!vars)
  <2>1. PICK paid : paid = IF st = "CONFIRMED" THEN {p} ELSE {}
    OBVIOUS
  <2>2. /\ rail' = rail /\ pays[p].st = "PENDING"
        /\ issued' = issued \cup {} /\ vouched' = vouched \cup paid
    BY <1>11, <2>1 DEF Webhook, Takes, Writes, inflight
  <2>3. paid \in SUBSET Payments /\ paid \subseteq issued \cup {}
    BY <2>1, <2>2, OpenPayment
  <2>4. QED
    BY <2>2, <2>3, HeardIsPromised
<1>12. ASSUME NEW p \in Payments, Reattach(p) PROVE [Promise!Next]_(Promise!vars)
  <2>1. PICK r \in Copies(p) : Writes(p, r) /\ Takes({p}, IF r.st \in Late THEN {p} ELSE {})
    BY <1>12 DEF Reattach
  <2>2. PICK paid : paid = IF r.st \in Late THEN {p} ELSE {}
    OBVIOUS
  <2>3. issued' = issued \cup {p} /\ vouched' = vouched \cup paid /\ rail' = rail
    BY <2>1, <2>2 DEF Takes, Writes, inflight
  <2>4. paid \in SUBSET Payments /\ paid \subseteq issued \cup {p}
    BY <2>2
  <2>5. QED
    BY <2>3, <2>4, HeardIsPromised
<1>13. ASSUME NEW p \in Payments, Paying(p) PROVE [Promise!Next]_(Promise!vars)
  BY <1>1, <1>5, <1>6, <1>7, <1>8, <1>9, <1>10, <1>11, <1>12, <1>13 DEF Paying
<1>14. CASE Backfill \/ Restart \/ UNCHANGED vars
  BY <1>1, <1>14 DEF Backfill, Restart, vars, inflight, history
<1>15. QED
  BY <1>1, <1>2, <1>3, <1>13, <1>14 DEF Next

\* Through restarts that lose every payment, uploads that bring them back and backfills that
\* post them again, the rail delivers a purchase at most once and never before somebody
\* vouched for its money: the development server implements the promise of a purchase.
THEOREM PurchasesAreKept == Spec => ServerKeepsThePromise
<1>1. Init => PayInv /\ Promise!Init
  BY Initially DEF Init, Promise!Init
<1>2. PayInv /\ [Next]_vars => PayInv'
  BY Inductive
<1>3. PayInv /\ [Next]_vars => [Promise!Next]_(Promise!vars)
  BY StepsArePromised
<1>4. QED
  BY <1>1, <1>2, <1>3, PTL DEF Spec, ServerKeepsThePromise, Promise!Spec
-----------------------------------------------------------------------------
(* The market's invariant *)

\* A listing nothing was issued of yet, halted or not.
Undrawn(p) == p.st \in {"none", "DRAFT"} \/ (p.st = "FROZEN" /\ p.before = "DRAFT")
Unissued(p, b) == Undrawn(p) => b = Empty

\* A listing with its holdings, what the chain tells of them, and what was made of it; it was
\* issued again, or its holdings changed without a block.
SoundListing(p, b, t, m, again, off) ==
    /\ p \in PropRecords /\ IsBook(b) /\ t \in [People -> Int] /\ m = SumOf(b)
    /\ Unissued(p, b)
    /\ ~again => SumOf(b) <= p.total
    /\ ~off => \A h \in People : t[h] = Held(b, h)
IsMap(f) == DOMAIN f = Assets /\ f = [a \in Assets |-> f[a]]
ListingsAreSound ==
    /\ IsMap(prop) /\ IsMap(bal) /\ IsMap(told) /\ IsMap(made)
    /\ \A a \in Assets : SoundListing(prop[a], bal[a], told[a], made[a], a \in reissued, a \in offbook)

\* What an open swap names is there, and it is between two.
OpenSwap(s) == s.st = "PROPOSED" => (s.give \in Assets /\ s.get \in Assets /\ s.from # s.to /\ s.give # s.get)
DealsAreSound ==
    /\ loans \in [Loans -> LoanRecords]
    /\ swaps \in [Swaps -> SwapRecords] /\ \A w \in Swaps : OpenSwap(swaps[w])

Bounded == requests \in 0..MaxRequests /\ restarts \in 0..MaxRestarts
MarketInv == ListingsAreSound /\ DealsAreSound /\ Bounded

LEMMA ListingFacts ==
    ASSUME ListingsAreSound, NEW a \in Assets
    PROVE  /\ SoundListing(prop[a], bal[a], told[a], made[a], a \in reissued, a \in offbook)
           /\ prop[a] \in PropRecords /\ IsBook(bal[a]) /\ prop[a].owner \in People /\ prop[a].total \in Nat
BY DEF ListingsAreSound, SoundListing, PropRecords

\* One listing changes.
Elsewhere(a) ==
    \A x \in Assets \ {a} : /\ prop'[x] = prop[x] /\ bal'[x] = bal[x] /\ told'[x] = told[x] /\ made'[x] = made[x]
                            /\ (x \in reissued' <=> x \in reissued) /\ (x \in offbook' <=> x \in offbook)
AllMaps ==
    IsMap(prop') /\ IsMap(bal') /\ IsMap(told') /\ IsMap(made')
LEMMA OneListing ==
    ASSUME ListingsAreSound, NEW a \in Assets, AllMaps, Elsewhere(a),
           SoundListing(prop'[a], bal'[a], told'[a], made'[a], a \in reissued', a \in offbook')
    PROVE  ListingsAreSound'
<1>1. ASSUME NEW x \in Assets \ {a}
      PROVE  SoundListing(prop'[x], bal'[x], told'[x], made'[x], x \in reissued', x \in offbook')
  <2>1. SoundListing(prop[x], bal[x], told[x], made[x], x \in reissued, x \in offbook)
    BY DEF ListingsAreSound
  <2>2. (x \in reissued') = (x \in reissued) /\ (x \in offbook') = (x \in offbook)
    BY DEF Elsewhere
  <2>3. QED
    BY <2>1, <2>2 DEF Elsewhere
<1>2. \A x \in Assets : SoundListing(prop'[x], bal'[x], told'[x], made'[x], x \in reissued', x \in offbook')
  BY <1>1
<1>3. QED
  BY <1>2 DEF AllMaps, ListingsAreSound

LEMMA ListingsStay == ASSUME ListingsAreSound, UNCHANGED <<prop, bal, books>> PROVE ListingsAreSound'
BY DEF ListingsAreSound, books

\* Only the listing's record changes: its status, its decision, its owner.
LEMMA OneRecord ==
    ASSUME ListingsAreSound, NEW a \in Assets, NEW p \in PropRecords, prop' = [prop EXCEPT ![a] = p],
           UNCHANGED <<bal, books>>, p.total = prop[a].total, Unissued(p, bal[a])
    PROVE  ListingsAreSound'
<1>1. SoundListing(prop[a], bal[a], told[a], made[a], a \in reissued, a \in offbook)
  BY ListingFacts
<1>2. SoundListing(p, bal[a], told[a], made[a], a \in reissued, a \in offbook)
  BY <1>1 DEF SoundListing
<1>3. /\ IsMap(prop) /\ IsMap(bal) /\ IsMap(told) /\ IsMap(made)
      /\ UNCHANGED <<bal, told, made, offbook, reissued>>
  BY DEF ListingsAreSound, books
<1>4. prop'[a] = p /\ IsMap(prop') /\ \A x \in Assets \ {a} : prop'[x] = prop[x]
  BY <1>3 DEF IsMap
<1>5. AllMaps /\ Elsewhere(a)
  BY <1>3, <1>4 DEF AllMaps, Elsewhere, IsMap
<1>6. SoundListing(prop'[a], bal'[a], told'[a], made'[a], a \in reissued', a \in offbook')
  BY <1>2, <1>3, <1>4
<1>7. QED
  BY <1>5, <1>6, OneListing

LEMMA NoPropRecord == NoProp \in PropRecords /\ NoProp.st = "none" /\ NoProp.total = 0
BY MockServerConstants DEF NoProp, PropRecords

LEMMA ListedRecord ==
    ASSUME NEW o \in People, NEW n \in Nat, NEW loose \in BOOLEAN
    PROVE  LET p == Listed(o, n, loose) IN p \in PropRecords /\ p.st = "TOKENIZED" /\ p.total = n /\ p.owner = o
BY MockServerConstants DEF Listed, NoProp, PropRecords

LEMMA RegisterSound == ASSUME ListingsAreSound, NEW a \in Assets, NEW o \in People, Register(a, o)
                       PROVE  ListingsAreSound'
<1> DEFINE p == [NoProp EXCEPT !.st = "DRAFT", !.owner = o]
<1>1. p \in PropRecords /\ p.total = 0
  BY MockServerConstants DEF NoProp, PropRecords
<1>2. prop' = [prop EXCEPT ![a] = p] /\ UNCHANGED <<bal, books>> /\ prop[a].st = "none"
  BY DEF Register
<1> HIDE DEF p
<1>3. bal[a] = Empty
  BY <1>2, ListingFacts DEF SoundListing, Unissued, Undrawn
<1>4. SoundListing(p, bal[a], told[a], made[a], a \in reissued, a \in offbook)
  <2>1. SumOf(Empty) = 0
    <3>1. 0 \in Nat
      OBVIOUS
    <3>2. QED
      BY <3>1, SmallBooks, MockServerConstants
  <2>2. QED
    BY <1>1, <1>3, <2>1, ListingFacts DEF SoundListing, Unissued
<1>5. /\ IsMap(prop) /\ IsMap(bal) /\ IsMap(told) /\ IsMap(made)
      /\ UNCHANGED <<bal, told, made, offbook, reissued>>
  BY <1>2 DEF ListingsAreSound, books
<1>6. prop'[a] = p /\ IsMap(prop') /\ \A x \in Assets \ {a} : prop'[x] = prop[x]
  BY <1>2, <1>5 DEF IsMap
<1>7. AllMaps /\ Elsewhere(a)
  BY <1>5, <1>6 DEF AllMaps, Elsewhere, IsMap
<1>8. SoundListing(prop'[a], bal'[a], told'[a], made'[a], a \in reissued', a \in offbook')
  BY <1>4, <1>5, <1>6
<1>9. QED
  BY <1>7, <1>8, OneListing

LEMMA ValidateSound ==
    ASSUME ListingsAreSound, NEW a \in Assets, NEW d \in {"VALIDATED", "REJECTED"}, Validate(a, d)
    PROVE  ListingsAreSound'
<1> DEFINE p == [prop[a] EXCEPT !.val = d]
<1>1. /\ prop' = [prop EXCEPT ![a] = p] /\ UNCHANGED <<bal, books>>
      /\ prop[a] \in PropRecords /\ prop[a].st = "DRAFT"
  BY ListingFacts DEF Validate
<1>2. p \in PropRecords /\ p.total = prop[a].total
  BY <1>1 DEF PropRecords
<1>3. bal[a] = Empty
  BY <1>1, ListingFacts DEF SoundListing, Unissued, Undrawn
<1> HIDE DEF p
<1>4. QED
  BY <1>1, <1>2, <1>3, OneRecord DEF Unissued

LEMMA FreezeSound == ASSUME ListingsAreSound, NEW a \in Assets, Freeze(a) PROVE ListingsAreSound'
<1> DEFINE p == [prop[a] EXCEPT !.before = prop[a].st, !.st = "FROZEN"]
<1>1. /\ prop' = [prop EXCEPT ![a] = p] /\ UNCHANGED <<bal, books>>
      /\ prop[a] \in PropRecords /\ prop[a].st \notin {"none", "FROZEN"}
  <2>1. prop' = [prop EXCEPT ![a].before = prop[a].st, ![a].st = "FROZEN"]
    BY DEF Freeze
  <2>2. [prop EXCEPT ![a].before = prop[a].st, ![a].st = "FROZEN"] = [prop EXCEPT ![a] = p]
    BY DEF ListingsAreSound, IsMap
  <2>3. QED
    BY <2>1, <2>2, ListingFacts DEF Freeze
<1>2. p \in PropRecords /\ p.total = prop[a].total /\ p.st = "FROZEN" /\ p.before = prop[a].st
  BY <1>1 DEF PropRecords
<1>3. prop[a].st = "DRAFT" => bal[a] = Empty
  BY ListingFacts DEF SoundListing, Unissued, Undrawn
<1>4. Unissued(p, bal[a])
  BY <1>2, <1>3 DEF Unissued, Undrawn
<1> HIDE DEF p
<1>5. QED
  BY <1>1, <1>2, <1>4, OneRecord

LEMMA UnfreezeSound == ASSUME ListingsAreSound, NEW a \in Assets, Unfreeze(a) PROVE ListingsAreSound'
<1> DEFINE st == IF prop[a].before = "none" THEN "TOKENIZED" ELSE prop[a].before
           p == [prop[a] EXCEPT !.st = st, !.before = "none"]
<1>1. /\ prop' = [prop EXCEPT ![a] = p] /\ UNCHANGED <<bal, books>>
      /\ prop[a] \in PropRecords /\ prop[a].st = "FROZEN"
  <2>1. prop' = [prop EXCEPT ![a].st = st, ![a].before = "none"]
    BY DEF Unfreeze
  <2>2. [prop EXCEPT ![a].st = st, ![a].before = "none"] = [prop EXCEPT ![a] = p]
    BY DEF ListingsAreSound, IsMap
  <2>3. QED
    BY <2>1, <2>2, ListingFacts DEF Unfreeze
<1>2. st \in {"DRAFT", "TOKENIZED", "WITHDRAWN"} /\ (st = "DRAFT" => prop[a].before = "DRAFT")
  BY <1>1 DEF PropRecords
<1> HIDE DEF st
<1>3. p \in PropRecords /\ p.total = prop[a].total /\ p.st = st
  BY <1>1, <1>2 DEF PropRecords
<1>4. prop[a].before = "DRAFT" => bal[a] = Empty
  BY <1>1, ListingFacts DEF SoundListing, Unissued, Undrawn
<1>5. Unissued(p, bal[a])
  BY <1>2, <1>3, <1>4 DEF Unissued, Undrawn
<1> HIDE DEF p
<1>6. QED
  BY <1>1, <1>3, <1>5, OneRecord

LEMMA MintSound ==
    ASSUME ListingsAreSound, NEW a \in Assets, NEW n \in Nat, Mint(a, n) PROVE ListingsAreSound'
<1> DEFINE o == prop[a].owner
           p == [prop[a] EXCEPT !.total = n, !.st = "TOKENIZED"]
<1>1. /\ prop' = [prop EXCEPT ![a] = p]
      /\ reissued' = (IF prop[a].st = "DRAFT" THEN reissued ELSE reissued \cup {a}) /\ offbook' = offbook
  <2>1. prop' = [prop EXCEPT ![a].total = n, ![a].st = "TOKENIZED"]
    BY DEF Mint
  <2>2. [prop EXCEPT ![a].total = n, ![a].st = "TOKENIZED"] = [prop EXCEPT ![a] = p]
    BY DEF ListingsAreSound, IsMap
  <2>3. QED
    BY <2>1, <2>2 DEF Mint
<1>2. /\ \/ o \in DOMAIN bal[a] /\ UNCHANGED <<bal, told, made>>
         \/ /\ o \notin DOMAIN bal[a]
            /\ bal' = [bal EXCEPT ![a] = Over(Only(o, n), @)]
            /\ told' = [told EXCEPT ![a][o] = @ + n]
            /\ made' = [made EXCEPT ![a] = @ + n]
  BY DEF Mint
<1>3. /\ IsMap(prop) /\ IsMap(bal) /\ IsMap(told) /\ IsMap(made)
      /\ SoundListing(prop[a], bal[a], told[a], made[a], a \in reissued, a \in offbook) /\ o \in People
  BY ListingFacts DEF ListingsAreSound
<1>4. p \in PropRecords /\ p.total = n /\ p.st = "TOKENIZED"
  BY <1>3 DEF SoundListing, PropRecords
<1>5. ~Undrawn(p) /\ prop'[a] = p
  BY <1>1, <1>3, <1>4 DEF Undrawn, IsMap
<1>6. prop[a].st = "DRAFT" => bal[a] = Empty /\ o \notin DOMAIN bal[a] /\ SumOf(bal[a]) = 0
  <2>1. 0 \in Nat
    OBVIOUS
  <2>2. DOMAIN Empty = {} /\ SumOf(Empty) = 0
    BY <1>3, <2>1, SmallBooks
  <2>3. QED
    BY <1>3, <2>2 DEF SoundListing, Unissued, Undrawn
<1>7. a \notin reissued' => prop[a].st = "DRAFT"
  BY <1>1
<1> HIDE DEF o, p
<1>8. AllMaps /\ Elsewhere(a)
  BY <1>1, <1>2, <1>3 DEF AllMaps, Elsewhere, IsMap
<1>9. SoundListing(prop'[a], bal'[a], told'[a], made'[a], a \in reissued', a \in offbook')
  <2>1. CASE o \in DOMAIN bal[a] /\ UNCHANGED <<bal, told, made>>
    BY <1>1, <1>3, <1>4, <1>5, <1>6, <1>7, <2>1 DEF SoundListing, Unissued
  <2>2. CASE /\ o \notin DOMAIN bal[a]
             /\ bal' = [bal EXCEPT ![a] = Over(Only(o, n), @)]
             /\ told' = [told EXCEPT ![a][o] = @ + n]
             /\ made' = [made EXCEPT ![a] = @ + n]
    <3> DEFINE c == Over(Only(o, n), bal[a])
               t == [told[a] EXCEPT ![o] = @ + n]
    <3>1. bal'[a] = c /\ told'[a] = t /\ made'[a] = made[a] + n
      BY <1>3, <2>2 DEF IsMap
    <3>2. /\ IsBook(c) /\ SumOf(c) = SumOf(bal[a]) + n
          /\ Held(c, o) = Held(bal[a], o) + n /\ \A x : x # o => Held(c, x) = Held(bal[a], x)
      <4>1. IsBook(bal[a]) /\ o \in People /\ o \notin DOMAIN bal[a]
        BY <1>3, <2>2 DEF SoundListing
      <4>2. QED
        BY <4>1, Opened
    <3>3. told[a] \in [People -> Int] /\ Held(bal[a], o) = 0 /\ made[a] = SumOf(bal[a]) /\ SumOf(bal[a]) \in Nat
      BY <1>3, <2>2, BookHolds, BookSum DEF SoundListing
    <3>4. t \in [People -> Int] /\ t[o] = told[a][o] + n /\ \A x \in People \ {o} : t[x] = told[a][x]
      BY <1>3, <3>3
    <3>5. a \notin offbook' => \A h \in People : t[h] = Held(c, h)
      <4>1. ASSUME a \notin offbook PROVE \A h \in People : told[a][h] = Held(bal[a], h)
        BY <1>3, <4>1 DEF SoundListing
      <4>2. ASSUME a \notin offbook, NEW h \in People PROVE t[h] = Held(c, h)
        BY <1>3, <3>2, <3>3, <3>4, <4>1, <4>2
      <4>3. QED
        BY <1>1, <4>2
    <3>6. a \notin reissued' => SumOf(c) <= n
      BY <1>6, <1>7, <3>2
    <3> HIDE DEF c, t
    <3>7. QED
      BY <1>4, <1>5, <3>1, <3>2, <3>3, <3>4, <3>5, <3>6 DEF SoundListing, Unissued
  <2>3. QED
    BY <1>2, <2>1, <2>2
<1>10. QED
  BY <1>8, <1>9, OneListing

LEMMA DeleteSound == ASSUME ListingsAreSound, NEW a \in Assets, Delete(a) PROVE ListingsAreSound' /\ told' = told
<1> DEFINE o == prop[a].owner
           out == SumOf([h \in DOMAIN bal[a] \ {o} |-> bal[a][h]])
           zero == [h \in DOMAIN bal[a] |-> IF h = o THEN bal[a][h] ELSE 0]
           c == IF out > 0 THEN Over(Only(o, Held(zero, o) + out), zero) ELSE zero
           p == [prop[a] EXCEPT !.st = "WITHDRAWN"]
<1>1. /\ prop' = [prop EXCEPT ![a] = p] /\ bal' = [bal EXCEPT ![a] = c]
      /\ offbook' = (IF out > 0 THEN offbook \cup {a} ELSE offbook)
      /\ UNCHANGED <<told, made, reissued>>
  BY DEF Delete
<1>2. /\ IsMap(prop) /\ IsMap(bal) /\ IsMap(told) /\ IsMap(made)
      /\ SoundListing(prop[a], bal[a], told[a], made[a], a \in reissued, a \in offbook) /\ o \in People
  BY ListingFacts DEF ListingsAreSound
<1>3. p \in PropRecords /\ p.total = prop[a].total /\ p.st = "WITHDRAWN"
  BY <1>2 DEF SoundListing, PropRecords
<1>4. /\ IsBook(c) /\ SumOf(c) = SumOf(bal[a])
      /\ out > 0 \/ \A h \in People : Held(c, h) = Held(bal[a], h)
  BY <1>2, BoughtOut DEF SoundListing
<1>5. a \notin offbook' => a \notin offbook /\ ~(out > 0)
  BY <1>1
<1> HIDE DEF c, out, zero, p
<1>6. AllMaps /\ Elsewhere(a) /\ prop'[a] = p /\ bal'[a] = c
  BY <1>1, <1>2 DEF AllMaps, Elsewhere, IsMap
<1>7. SoundListing(p, c, told[a], made[a], a \in reissued, a \in offbook')
  BY <1>2, <1>3, <1>4, <1>5 DEF SoundListing, Unissued, Undrawn
<1>8. SoundListing(prop'[a], bal'[a], told'[a], made'[a], a \in reissued', a \in offbook')
  BY <1>1, <1>6, <1>7
<1>9. QED
  BY <1>1, <1>6, <1>8, OneListing
-----------------------------------------------------------------------------
(* Transfers *)

\* The chain is told of a movement.
Retold(t, from, to, n) == [h \in People |-> t[h] + (IF h = to THEN n ELSE 0) - (IF h = from THEN n ELSE 0)]
LEMMA ToldMoves ==
    ASSUME NEW t \in [People -> Int], NEW from \in People, NEW to \in People, NEW n \in Nat
    PROVE  LET u == Retold(t, from, to, n) IN
           /\ u \in [People -> Int] /\ \A h \in People \ {from, to} : u[h] = t[h]
           /\ from # to => u[from] = t[from] - n /\ u[to] = t[to] + n
           /\ from = to => u = t
<1> DEFINE u == Retold(t, from, to, n)
<1>1. /\ u \in [People -> Int]
      /\ \A h \in People : u[h] = t[h] + (IF h = to THEN n ELSE 0) - (IF h = from THEN n ELSE 0)
  BY DEF Retold
<1> HIDE DEF u
<1>2. from = to => \A h \in People : u[h] = t[h]
  BY <1>1
<1>3. from = to => u = t
  BY <1>1, <1>2
<1>4. \A h \in People \ {from, to} : u[h] = t[h]
  BY <1>1
<1>5. from # to => u[from] = t[from] - n /\ u[to] = t[to] + n
  BY <1>1
<1>6. QED
  BY <1>1, <1>3, <1>4, <1>5 DEF u

LEMMA ToldOne ==
    ASSUME NEW t, NEW a, NEW from, NEW to, NEW n
    PROVE  Told(t, a, from, to, n) = [t EXCEPT ![a] = Retold(t[a], from, to, n)]
BY DEF Told, Retold

\* What a movement makes of a book, it makes of what the chain tells.
LEMMA ToldAndMoved ==
    ASSUME NEW b, IsBook(b), NEW t \in [People -> Int], NEW from \in People, NEW to \in People,
           NEW n \in Nat, from # to, Held(b, from) >= n, \A h \in People : t[h] = Held(b, h)
    PROVE  LET u == Retold(t, from, to, n)
               c == Moved(b, from, to, n)
           IN  \A h \in People : u[h] = Held(c, h)
<1> DEFINE u == Retold(t, from, to, n)
           c == Moved(b, from, to, n)
<1>1. u[from] = t[from] - n /\ u[to] = t[to] + n /\ \A h \in People \ {from, to} : u[h] = t[h]
  BY ToldMoves
<1>2. /\ Held(c, from) = Held(b, from) - n /\ Held(c, to) = Held(b, to) + n
      /\ \A x : x \notin {from, to} => Held(c, x) = Held(b, x)
  BY MovedBook
<1> HIDE DEF u, c
<1>3. QED
  BY <1>1, <1>2 DEF u, c

\* A listing is left with the holdings c, after they were healed.
LEMMA LeaveSound ==
    ASSUME ListingsAreSound, NEW a \in Assets, NEW p \in PropRecords, NEW healed, NEW c, Books(healed, c),
           NEW R, NEW t \in [People -> Int], SumOf(c) = SumOf(healed), Unissued(p, c),
           a \notin reissued => SumOf(c) <= p.total,
           healed = bal[a] /\ a \notin offbook => \A h \in People : t[h] = Held(c, h),
           Leave(a, p, healed, c, R), told' = [told EXCEPT ![a] = t]
    PROVE  ListingsAreSound'
<1>1. /\ prop' = [prop EXCEPT ![a] = p] /\ bal' = [bal EXCEPT ![a] = c]
      /\ made' = [made EXCEPT ![a] = @ + SumOf(healed) - SumOf(bal[a])]
      /\ offbook' = (IF healed = bal[a] THEN offbook ELSE offbook \cup {a})
      /\ reissued' = reissued
  BY DEF Leave
<1>2. /\ IsMap(prop) /\ IsMap(bal) /\ IsMap(told) /\ IsMap(made)
      /\ SoundListing(prop[a], bal[a], told[a], made[a], a \in reissued, a \in offbook)
  BY ListingFacts DEF ListingsAreSound
<1>3. AllMaps /\ Elsewhere(a) /\ prop'[a] = p /\ bal'[a] = c /\ told'[a] = t
      /\ made'[a] = made[a] + SumOf(healed) - SumOf(bal[a])
  BY <1>1, <1>2 DEF AllMaps, Elsewhere, IsMap
<1>4. made[a] = SumOf(bal[a]) /\ SumOf(bal[a]) \in Nat /\ SumOf(healed) \in Nat /\ IsBook(c)
  BY <1>2, BookSum DEF SoundListing, Books
<1>5. made'[a] = SumOf(c)
  BY <1>3, <1>4
<1>6. a \notin offbook' => healed = bal[a] /\ a \notin offbook
  BY <1>1
<1>7. SoundListing(p, c, t, made'[a], a \in reissued, a \in offbook')
  BY <1>4, <1>5, <1>6 DEF SoundListing
<1>8. SoundListing(prop'[a], bal'[a], told'[a], made'[a], a \in reissued', a \in offbook')
  BY <1>1, <1>3, <1>7
<1>9. QED
  BY <1>3, <1>8, OneListing

LEMMA LeaveUntold ==
    ASSUME ListingsAreSound, NEW a \in Assets, NEW p \in PropRecords, NEW b, IsBook(b), NEW R, Unissued(p, b),
           a \notin reissued => SumOf(b) <= p.total, Leave(a, p, b, b, R), told' = told
    PROVE  ListingsAreSound'
<1>1. told[a] \in [People -> Int] /\ told = [told EXCEPT ![a] = told[a]]
      /\ (a \notin offbook => \A h \in People : told[a][h] = Held(bal[a], h))
  <2>1. IsMap(told)
    BY DEF ListingsAreSound
  <2>2. told = [told EXCEPT ![a] = told[a]]
    BY <2>1 DEF IsMap
  <2>3. QED
    BY <2>2, ListingFacts DEF SoundListing
<1>2. QED
  BY <1>1, LeaveSound DEF Books

\* Tokens are spent, or the movement is refused: what is pledged stays, and the chain is told.
SpentFrom(a, b, from, to, n) ==
    /\ bal' = [bal EXCEPT ![a] = Moved(b, from, to, n)] /\ Held(b, from) - n >= drunixLockedTokens(a, from)
LEMMA SpendSound ==
    ASSUME ListingsAreSound, DealsAreSound, NEW a \in Assets, NEW p \in PropRecords, NEW b, IsBook(b),
           NEW from \in DOMAIN b, NEW to \in People, from # to, NEW n \in Nat, NEW R,
           Tradeable(p), a \notin reissued => SumOf(b) <= p.total, Spend(a, p, b, from, to, n, R)
    PROVE  ListingsAreSound' /\ (told' = told \/ SpentFrom(a, b, from, to, n))
<1>1. /\ Unissued(p, b) /\ \A c : Unissued(p, c)
      /\ from \in People /\ b[from] = Held(b, from) /\ Held(b, from) \in Nat
  BY BookHolds DEF Tradeable, Unissued, Undrawn
<1>2. CASE Leave(a, p, b, b, R) /\ UNCHANGED told
  BY <1>1, <1>2, LeaveUntold
<1>3. CASE /\ Spendable(b, a, from) >= n
           /\ Leave(a, p, b, Moved(b, from, to, n), R) /\ told' = Told(told, a, from, to, n)
  <2> DEFINE c == Moved(b, from, to, n)
             t == Retold(told[a], from, to, n)
  <2>1. drunixLockedTokens(a, from) \in Nat
    BY LockedIsNat DEF DealsAreSound
  <2>2. Held(b, from) >= n /\ Held(b, from) - n >= drunixLockedTokens(a, from)
    BY <1>1, <1>3, <2>1 DEF Spendable
  <2>3. IsBook(c) /\ SumOf(c) = SumOf(b)
    BY <1>1, <2>2, MovedBook
  <2>4. /\ told[a] \in [People -> Int]
        /\ a \notin offbook => \A h \in People : told[a][h] = Held(bal[a], h)
    BY ListingFacts DEF SoundListing
  <2>5. t \in [People -> Int]
    BY <1>1, <2>4, ToldMoves
  <2>6. ASSUME b = bal[a], a \notin offbook PROVE \A h \in People : t[h] = Held(c, h)
    BY <1>1, <2>2, <2>4, <2>6, ToldAndMoved
  <2>7. told' = [told EXCEPT ![a] = t] /\ Leave(a, p, b, c, R)
    BY <1>3, ToldOne
  <2>8. SpentFrom(a, b, from, to, n)
    BY <1>3, <2>2 DEF SpentFrom, Leave
  <2> HIDE DEF c, t
  <2>9. ListingsAreSound'
    BY <1>1, <2>3, <2>5, <2>6, <2>7, LeaveSound DEF Books
  <2>10. QED
    BY <2>8, <2>9
<1>4. QED
  BY <1>2, <1>3 DEF Spend

\* The listing a transfer works on: the one there is, or one that is made up of nothing.
LEMMA ListingShown ==
    ASSUME MarketInv, NEW a \in Assets, NEW from \in People, NEW l \in Listings(a, from)
    PROVE  /\ l[1] \in PropRecords /\ IsBook(l[2])
           /\ a \notin reissued => SumOf(l[2]) <= l[1].total
           /\ prop[a].st # "none" => l[1] = prop[a] /\ l[2] = bal[a]
           /\ prop[a].st = "none" => bal[a] = Empty /\ Tradeable(l[1])
<1>1. SoundListing(prop[a], bal[a], told[a], made[a], a \in reissued, a \in offbook)
  BY ListingFacts DEF MarketInv
<1>2. CASE prop[a].st # "none"
  <2>1. l = <<prop[a], bal[a]>>
    BY <1>2 DEF Listings
  <2>2. l[1] = prop[a] /\ l[2] = bal[a]
    BY <2>1
  <2>3. QED
    BY <1>1, <1>2, <2>2 DEF SoundListing
<1>3. CASE prop[a].st = "none"
  <2>1. bal[a] = Empty /\ IsBook(bal[a]) /\ SumOf(bal[a]) = 0 /\ DOMAIN bal[a] = {}
    <3>1. bal[a] = Empty /\ IsBook(bal[a])
      BY <1>1, <1>3 DEF SoundListing, Unissued, Undrawn
    <3>2. 0 \in Nat
      OBVIOUS
    <3>3. QED
      BY <3>1, <3>2, SmallBooks
  <2>2. CASE l = <<Listed(from, Supply, TRUE), Over(Only(from, Supply), bal[a])>>
    <3> DEFINE c == Over(Only(from, Supply), bal[a])
               p == Listed(from, Supply, TRUE)
    <3>0. Supply \in Nat
      BY MockServerConstants
    <3>1. IsBook(c) /\ SumOf(c) = SumOf(bal[a]) + Supply
      BY <2>1, <3>0, Opened
    <3>2. p \in PropRecords /\ p.st = "TOKENIZED" /\ p.total = Supply
      BY <3>0, ListedRecord
    <3>3. l[1] = p /\ l[2] = c
      BY <2>2
    <3> HIDE DEF c, p
    <3>4. QED
      BY <1>3, <2>1, <3>0, <3>1, <3>2, <3>3 DEF Tradeable
  <2>3. ASSUME NEW o \in People, NEW m \in {Supply} \cup Amounts, l = <<Listed(o, m, TRUE), bal[a]>>
        PROVE  /\ l[1] \in PropRecords /\ IsBook(l[2]) /\ SumOf(l[2]) <= l[1].total
               /\ l[2] = bal[a] /\ Tradeable(l[1])
    <3> DEFINE p == Listed(o, m, TRUE)
    <3>1. m \in Nat
      BY MockServerConstants
    <3>2. l[1] = p /\ l[2] = bal[a]
      BY <2>3
    <3>3. p \in PropRecords /\ p.st = "TOKENIZED" /\ p.total = m
      BY <3>1, ListedRecord
    <3> HIDE DEF p
    <3>4. QED
      BY <2>1, <3>1, <3>2, <3>3 DEF Tradeable
  <2>4. CASE \E o \in People, m \in {Supply} \cup Amounts : l = <<Listed(o, m, TRUE), bal[a]>>
    BY <1>3, <2>1, <2>3, <2>4
  <2>5. \/ l = <<Listed(from, Supply, TRUE), Over(Only(from, Supply), bal[a])>>
        \/ \E o \in People, m \in {Supply} \cup Amounts : l = <<Listed(o, m, TRUE), bal[a]>>
    <3>1. \/ l = <<Listed(from, Supply, TRUE), Over(Only(from, Supply), bal[a])>>
          \/ \E s \in People \X ({Supply} \cup Amounts) : l = <<Listed(s[1], s[2], TRUE), bal[a]>>
      BY Zenon, <1>3 DEF Listings
    <3>2. QED
      BY <3>1
  <2>6. QED
    BY <2>2, <2>4, <2>5
<1>4. QED
  BY <1>2, <1>3

\* A sender who is in no book gets at most what is left of the supply.
LEMMA HealedSound ==
    ASSUME NEW b, IsBook(b), NEW from \in People, from \notin DOMAIN b, NEW p \in PropRecords, NEW k \in Nat,
           k <= supplyHeadroom(b, from, p.total), NEW fits \in BOOLEAN, fits => SumOf(b) <= p.total
    PROVE  LET c == Over(Only(from, k), b) IN
           IsBook(c) /\ from \in DOMAIN c /\ (fits => SumOf(c) <= p.total)
<1> DEFINE c == Over(Only(from, k), b)
<1>1. IsBook(c) /\ SumOf(c) = SumOf(b) + k /\ DOMAIN c = DOMAIN b \cup {from}
  BY Opened
<1>2. p.total \in Nat /\ SumOf(b) \in Nat
  BY BookSum DEF PropRecords
<1>3. SumOf(b) <= p.total => supplyHeadroom(b, from, p.total) = p.total - SumOf(b)
  BY <1>2, Headroom
<1> HIDE DEF c
<1>4. fits => SumOf(c) <= p.total
  BY <1>1, <1>2, <1>3
<1>5. QED
  BY <1>1, <1>4 DEF c

\* What a transfer does to a listing and its holdings.  If the chain is told of anything,
\* tokens were spent, by somebody who was in the book or had nothing there.
LEMMA TransferSound ==
    ASSUME MarketInv, PayInv, NEW a \in Assets, NEW from \in People, NEW to \in People, NEW n \in Nat,
           Transfer(a, from, to, n)
    PROVE  /\ ListingsAreSound'
           /\ \/ told' = told
              \/ prop[a].st = "none" /\ bal[a] = Empty /\ \E c : bal' = [bal EXCEPT ![a] = c]
              \/ Tradeable(prop[a]) /\ SpentFrom(a, bal[a], from, to, n) /\ from \in DOMAIN bal[a]
              \/ /\ Tradeable(prop[a]) /\ from \notin DOMAIN bal[a]
                 /\ \E k \in Nat : SpentFrom(a, Over(Only(from, k), bal[a]), from, to, n)
<1> DEFINE Ends == \/ told' = told
                   \/ prop[a].st = "none" /\ bal[a] = Empty /\ \E c : bal' = [bal EXCEPT ![a] = c]
                   \/ Tradeable(prop[a]) /\ SpentFrom(a, bal[a], from, to, n) /\ from \in DOMAIN bal[a]
                   \/ /\ Tradeable(prop[a]) /\ from \notin DOMAIN bal[a]
                      /\ \E k \in Nat : SpentFrom(a, Over(Only(from, k), bal[a]), from, to, n)
<1>0. ListingsAreSound /\ DealsAreSound /\ from # to
  BY DEF MarketInv, Transfer
<1>1. PICK l \in Listings(a, from) :
        LET p == l[1]
            b == l[2]
            room == supplyHeadroom(b, from, p.total)
            Healed(k) == Over(Only(from, k), b)
        IN  \/ prop[a].st = "none" /\ Leave(a, p, b, b, {}) /\ UNCHANGED told
            \/ /\ Tradeable(p) /\ from \in DOMAIN b
               /\ Spend(a, p, b, from, to, n, {})
            \/ /\ Tradeable(p) /\ from \notin DOMAIN b
               /\ \E R \in SUBSET Receipts(a, from) \ {{}}, k \in Min({1, room})..room :
                     IF k >= n THEN Spend(a, p, Healed(k), from, to, n, R)
                     ELSE Leave(a, p, b, b, R) /\ UNCHANGED told
            \/ /\ Tradeable(p) /\ from \notin DOMAIN b
               /\ Spend(a, p, Healed(room), from, to, n, {})
  BY Zenon DEF Transfer
<1> DEFINE p == l[1]
           b == l[2]
<1>2. /\ p \in PropRecords /\ IsBook(b) /\ (a \notin reissued => SumOf(b) <= p.total)
      /\ prop[a].st # "none" => p = prop[a] /\ b = bal[a]
      /\ prop[a].st = "none" => bal[a] = Empty /\ Tradeable(p)
  BY ListingShown
<1> HIDE DEF p, b
<1>3. Tradeable(p) => \A c : Unissued(p, c)
  BY DEF Tradeable, Unissued, Undrawn
<1>4. ASSUME NEW R, Leave(a, p, b, b, R), UNCHANGED told, Tradeable(p) PROVE ListingsAreSound' /\ Ends
  BY <1>0, <1>2, <1>3, <1>4, LeaveUntold
<1>5. CASE prop[a].st = "none" /\ Leave(a, p, b, b, {}) /\ UNCHANGED told
  BY <1>2, <1>4, <1>5
<1>6. ASSUME Tradeable(p), from \in DOMAIN b, Spend(a, p, b, from, to, n, {}) PROVE ListingsAreSound' /\ Ends
  <2>1. ListingsAreSound' /\ (told' = told \/ SpentFrom(a, b, from, to, n))
    BY <1>0, <1>2, <1>6, SpendSound
  <2>2. SpentFrom(a, b, from, to, n) => \E c : bal' = [bal EXCEPT ![a] = c]
    BY DEF SpentFrom
  <2>3. QED
    BY <1>2, <1>6, <2>1, <2>2
<1>7. ASSUME Tradeable(p), from \notin DOMAIN b, NEW k \in Nat, k <= supplyHeadroom(b, from, p.total),
             NEW R, Spend(a, p, Over(Only(from, k), b), from, to, n, R)
      PROVE  ListingsAreSound' /\ Ends
  <2> DEFINE c == Over(Only(from, k), b)
  <2>1. IsBook(c) /\ from \in DOMAIN c /\ (a \notin reissued => SumOf(c) <= p.total)
    <3>1. (a \notin reissued) \in BOOLEAN
      OBVIOUS
    <3>2. QED
      BY <1>2, <1>7, <3>1, HealedSound
  <2>2. Spend(a, p, c, from, to, n, R)
    BY <1>7
  <2> HIDE DEF c
  <2>3. ListingsAreSound' /\ (told' = told \/ SpentFrom(a, c, from, to, n))
    BY <1>0, <1>2, <1>7, <2>1, <2>2, SpendSound
  <2>4. SpentFrom(a, c, from, to, n) => \E d : bal' = [bal EXCEPT ![a] = d]
    BY DEF SpentFrom
  <2>5. CASE prop[a].st = "none"
    BY <1>2, <2>3, <2>4, <2>5
  <2>6. CASE prop[a].st # "none"
    <3>1. p = prop[a] /\ b = bal[a]
      BY <1>2, <2>6
    <3>2. QED
      BY <1>7, <2>3, <3>1 DEF c
  <2>7. QED
    BY <2>5, <2>6
<1>8. ASSUME from \notin DOMAIN b PROVE supplyHeadroom(b, from, p.total) \in Nat
  <2>1. p.total \in Nat
    BY <1>2 DEF PropRecords
  <2>2. QED
    BY <1>2, <1>8, <2>1, Headroom
<1>9. ASSUME Tradeable(p), from \notin DOMAIN b, NEW R,
             NEW k \in Min({1, supplyHeadroom(b, from, p.total)})..supplyHeadroom(b, from, p.total),
             \/ Spend(a, p, Over(Only(from, k), b), from, to, n, R)
             \/ Leave(a, p, b, b, R) /\ UNCHANGED told
      PROVE  ListingsAreSound' /\ Ends
  <2>1. PICK room \in Nat : room = supplyHeadroom(b, from, p.total)
    BY <1>8, <1>9
  <2>2. Min({1, room}) \in Nat
    BY MinOfTwo
  <2>3. k \in Min({1, room})..room
    BY <1>9, <2>1
  <2>4. k \in Nat /\ k <= room
    BY <2>2, <2>3
  <2>5. QED
    BY <1>4, <1>7, <1>9, <2>1, <2>4
<1>10. ASSUME Tradeable(p), from \notin DOMAIN b,
              Spend(a, p, Over(Only(from, supplyHeadroom(b, from, p.total)), b), from, to, n, {})
       PROVE  ListingsAreSound' /\ Ends
  <2>1. supplyHeadroom(b, from, p.total) <= supplyHeadroom(b, from, p.total)
    BY <1>8, <1>10
  <2>2. QED
    BY <1>7, <1>8, <1>10, <2>1
<1>11. QED
  BY <1>1, <1>5, <1>6, <1>9, <1>10 DEF p, b
-----------------------------------------------------------------------------
(* Swaps, settlements and restarts *)

\* Tokens of one listing move from one to another, and the chain is told.
LEMMA BlockSound ==
    ASSUME NEW p, NEW b, NEW t, NEW m, NEW again, NEW off, SoundListing(p, b, t, m, again, off),
           NEW from \in People, NEW to \in People, NEW n \in Nat, Held(b, from) >= n, ~Undrawn(p)
    PROVE  SoundListing(p, Moved(b, from, to, n), Retold(t, from, to, n), m, again, off)
<1> DEFINE c == Moved(b, from, to, n)
           u == Retold(t, from, to, n)
<1>1. IsBook(b) /\ t \in [People -> Int]
  BY DEF SoundListing
<1>2. IsBook(c) /\ SumOf(c) = SumOf(b) /\ u \in [People -> Int]
  BY <1>1, MovedBook, ToldMoves
<1>3. ASSUME \A h \in People : t[h] = Held(b, h) PROVE \A h \in People : u[h] = Held(c, h)
  <2>1. CASE from # to
    BY <1>1, <1>3, <2>1, ToldAndMoved
  <2>2. CASE from = to
    <3>1. c = b /\ u = t
      BY <1>1, <2>2, MovedBook, ToldMoves
    <3>2. QED
      BY <1>3, <3>1
  <2>3. QED
    BY <2>1, <2>2
<1> HIDE DEF c, u
<1>4. SoundListing(p, c, u, m, again, off)
  BY <1>2, <1>3 DEF SoundListing, Unissued
<1>5. QED
  BY <1>4 DEF c, u

\* Settling a payment takes its token from the listing's owner.
LEMMA SettleListings ==
    ASSUME ListingsAreSound, NEW p, NEW r, settleConfirmedPayment(p, r),
           r.st = "CONFIRMED" => r.asset \in Assets /\ r.by \in People
    PROVE  /\ ListingsAreSound' /\ UNCHANGED <<prop, loans, swaps>>
           /\ told' = told \/ moved' = [moved EXCEPT ![p] = @ + 1]
<1>1. CASE UNCHANGED <<market, books>>
  BY <1>1, ListingsStay DEF market, books
<1> DEFINE a == r.asset
           o == prop[a].owner
<1>2. CASE /\ r.st = "CONFIRMED" /\ Held(bal[a], o) >= 1
           /\ bal' = [bal EXCEPT ![a] = Moved(@, o, r.by, 1)] /\ told' = Told(told, a, o, r.by, 1)
           /\ moved' = [moved EXCEPT ![p] = @ + 1]
           /\ UNCHANGED <<prop, loans, swaps, made, offbook, reissued>>
  <2>1. /\ a \in Assets /\ r.by \in People /\ o \in People
        /\ SoundListing(prop[a], bal[a], told[a], made[a], a \in reissued, a \in offbook)
    BY <1>2, ListingFacts
  <2> HIDE DEF o, a
  <2>2. SoundListing(prop[a], Moved(bal[a], o, r.by, 1), Retold(told[a], o, r.by, 1), made[a],
                     a \in reissued, a \in offbook)
    <3>1. ~Undrawn(prop[a])
      <4>1. Held(Empty, o) = 0
        BY DEF Held, Empty
      <4>2. bal[a] # Empty
        BY <1>2, <4>1
      <4>3. QED
        BY <2>1, <4>2 DEF SoundListing, Unissued
    <3>2. QED
      BY <1>2, <2>1, <3>1, BlockSound
  <2>3. told' = [told EXCEPT ![a] = Retold(told[a], o, r.by, 1)]
    BY <1>2, ToldOne
  <2>4. IsMap(prop) /\ IsMap(bal) /\ IsMap(told) /\ IsMap(made)
    BY DEF ListingsAreSound
  <2>5. /\ AllMaps /\ Elsewhere(a)
        /\ bal'[a] = Moved(bal[a], o, r.by, 1) /\ told'[a] = Retold(told[a], o, r.by, 1)
    BY <1>2, <2>1, <2>3, <2>4 DEF AllMaps, Elsewhere, IsMap
  <2>6. SoundListing(prop'[a], bal'[a], told'[a], made'[a], a \in reissued', a \in offbook')
    BY <1>2, <2>2, <2>5
  <2>7. QED
    BY <1>2, <2>1, <2>5, <2>6, OneListing
<1>3. QED
  BY <1>1, <1>2 DEF settleConfirmedPayment, Settles, market

\* An accepted swap moves the tokens of two listings, which are not halted, out of what is not pledged.
LEMMA AcceptSound ==
    ASSUME MarketInv, NEW w \in Swaps, Accept(w)
    PROVE  /\ ListingsAreSound'
           /\ \E a, b \in Assets, h, g \in People, n, m \in Nat :
                 /\ a # b /\ h # g /\ Tradeable(prop[a]) /\ Tradeable(prop[b])
                 /\ bal' = [bal EXCEPT ![a] = Moved(@, h, g, n), ![b] = Moved(@, g, h, m)]
                 /\ Held(bal[a], h) - n >= drunixLockedTokens(a, h) /\ Held(bal[a], h) >= n
                 /\ Held(bal[b], g) - m >= drunixLockedTokens(b, g) /\ Held(bal[b], g) >= m
<1> DEFINE s == swaps[w]
           a == s.give
           b == s.get
           h == s.from
           g == s.to
           n == s.gt
           m == s.rt
<1>1. /\ s.st = "PROPOSED" /\ Tradeable(prop[a]) /\ Tradeable(prop[b])
      /\ h \in DOMAIN bal[a] /\ bal[a][h] >= n + drunixLockedTokens(a, h)
      /\ g \in DOMAIN bal[b] /\ bal[b][g] >= m + drunixLockedTokens(b, g)
      /\ bal' = [bal EXCEPT ![a] = Moved(@, h, g, n), ![b] = Moved(@, g, h, m)]
      /\ told' = Told(Told(told, a, h, g, n), b, g, h, m)
      /\ UNCHANGED <<prop, made, offbook, reissued>>
  BY DEF Accept, StillSwappable, Swappable, Covers
<1>2. /\ a \in Assets /\ b \in Assets /\ a # b /\ h # g /\ h \in People /\ g \in People /\ n \in Nat /\ m \in Nat
      /\ loans \in [Loans -> LoanRecords] /\ ListingsAreSound
  BY <1>1 DEF MarketInv, DealsAreSound, SwapRecords, OpenSwap
<1> HIDE DEF a, b, h, g, n, m, s
<1>3. /\ SoundListing(prop[a], bal[a], told[a], made[a], a \in reissued, a \in offbook)
      /\ SoundListing(prop[b], bal[b], told[b], made[b], b \in reissued, b \in offbook)
      /\ IsBook(bal[a]) /\ IsBook(bal[b])
  BY <1>2, ListingFacts
<1>4. /\ drunixLockedTokens(a, h) \in Nat /\ drunixLockedTokens(b, g) \in Nat
      /\ bal[a][h] = Held(bal[a], h) /\ bal[b][g] = Held(bal[b], g)
      /\ Held(bal[a], h) \in Nat /\ Held(bal[b], g) \in Nat
  BY <1>1, <1>2, <1>3, LockedIsNat, BookHolds
<1>5. /\ Held(bal[a], h) - n >= drunixLockedTokens(a, h) /\ Held(bal[a], h) >= n
      /\ Held(bal[b], g) - m >= drunixLockedTokens(b, g) /\ Held(bal[b], g) >= m
  BY <1>1, <1>2, <1>4
<1>6. /\ SoundListing(prop[a], Moved(bal[a], h, g, n), Retold(told[a], h, g, n), made[a], a \in reissued, a \in offbook)
      /\ SoundListing(prop[b], Moved(bal[b], g, h, m), Retold(told[b], g, h, m), made[b], b \in reissued, b \in offbook)
  <2>1. ~Undrawn(prop[a]) /\ ~Undrawn(prop[b])
    BY <1>1 DEF Tradeable, Undrawn
  <2>2. QED
    BY <1>2, <1>3, <1>5, <2>1, BlockSound
<1>7. IsMap(prop) /\ IsMap(bal) /\ IsMap(told) /\ IsMap(made)
  BY <1>2 DEF ListingsAreSound
<1>8. told' = [told EXCEPT ![a] = Retold(told[a], h, g, n), ![b] = Retold(told[b], g, h, m)]
  <2> DEFINE t1 == [told EXCEPT ![a] = Retold(told[a], h, g, n)]
  <2>1. Told(told, a, h, g, n) = t1
    BY ToldOne
  <2>2. t1[b] = told[b]
    BY <1>2, <1>7 DEF IsMap
  <2>3. Told(t1, b, g, h, m) = [t1 EXCEPT ![b] = Retold(t1[b], g, h, m)]
    BY ToldOne
  <2>4. QED
    BY <1>1, <2>1, <2>2, <2>3
<1>9. /\ IsMap(prop') /\ IsMap(bal') /\ IsMap(told') /\ IsMap(made')
      /\ bal'[a] = Moved(bal[a], h, g, n) /\ told'[a] = Retold(told[a], h, g, n)
      /\ bal'[b] = Moved(bal[b], g, h, m) /\ told'[b] = Retold(told[b], g, h, m)
      /\ \A x \in Assets \ {a, b} : bal'[x] = bal[x] /\ told'[x] = told[x]
  BY <1>1, <1>2, <1>7, <1>8 DEF IsMap
<1>10. ASSUME NEW x \in Assets
       PROVE  SoundListing(prop'[x], bal'[x], told'[x], made'[x], x \in reissued', x \in offbook')
  <2>1. SoundListing(prop[x], bal[x], told[x], made[x], x \in reissued, x \in offbook)
    BY <1>2, ListingFacts
  <2>2. CASE x = a
    BY <1>1, <1>6, <1>9, <2>2
  <2>3. CASE x = b
    BY <1>1, <1>6, <1>9, <2>3
  <2>4. CASE x \notin {a, b}
    BY <1>1, <1>9, <2>1, <2>4
  <2>5. QED
    BY <2>2, <2>3, <2>4
<1>11. ListingsAreSound'
  BY <1>9, <1>10 DEF ListingsAreSound
<1>12. QED
  BY <1>1, <1>2, <1>5, <1>11

\* The listings the process starts with.
LEMMA SeedsSound ==
    ASSUME NEW a \in Assets
    PROVE  SoundListing(SeedProp[a], SeedBal[a], SeedTold[a], SeedMade[a], FALSE, FALSE)
<1>1. SeedTold[a] = [h \in People |-> Held(SeedBal[a], h)] /\ SeedMade[a] = SumOf(SeedBal[a])
  BY DEF SeedTold, SeedMade
<1>2. CASE a \in Seeded
  <2> DEFINE b == SeedHoldings[a]
             p == Listed(Originator, SumOf(b), FALSE)
  <2>1. IsBook(b) /\ SeedBal[a] = b /\ SeedProp[a] = p
    BY <1>2, MockServerConstants DEF IsBook, SeedBal, SeedProp
  <2>2. SumOf(b) \in Nat
    BY <2>1, BookSum
  <2>3. p \in PropRecords /\ p.st = "TOKENIZED" /\ p.total = SumOf(b)
    <3>1. Originator \in People
      BY MockServerConstants
    <3>2. QED
      BY <2>2, <3>1, ListedRecord
  <2> HIDE DEF b, p
  <2>4. \A h : Held(b, h) \in Int
    BY <2>1, BookHolds
  <2>5. QED
    BY <1>1, <2>1, <2>2, <2>3, <2>4 DEF SoundListing, Unissued, Undrawn
<1>3. CASE a \notin Seeded
  <2>1. IsBook(Empty) /\ SumOf(Empty) = 0 /\ SeedBal[a] = Empty /\ SeedProp[a] = NoProp
    <3>1. 0 \in Nat
      OBVIOUS
    <3>2. QED
      BY <1>3, <3>1, SmallBooks, MockServerConstants DEF SeedBal, SeedProp
  <2>2. \A h : Held(Empty, h) \in Int
    BY <2>1, BookHolds
  <2>3. QED
    BY <1>1, <2>1, <2>2, NoPropRecord DEF SoundListing, Unissued
<1>4. QED
  BY <1>2, <1>3

LEMMA SeedsAreMaps == IsMap(SeedProp) /\ IsMap(SeedBal) /\ IsMap(SeedTold) /\ IsMap(SeedMade)
BY DEF IsMap, SeedProp, SeedBal, SeedTold, SeedMade

LEMMA NoDeals ==
    /\ [l \in Loans |-> NoLoan] \in [Loans -> LoanRecords]
    /\ [w \in Swaps |-> NoSwap] \in [Swaps -> SwapRecords] /\ \A w \in Swaps : OpenSwap([v \in Swaps |-> NoSwap][w])
BY MockServerConstants DEF NoLoan, LoanRecords, NoSwap, SwapRecords, OpenSwap

LEMMA RestartMarket == ASSUME MarketInv, Restart PROVE MarketInv'
<1>1. /\ prop' = SeedProp /\ bal' = SeedBal /\ told' = SeedTold /\ made' = SeedMade
      /\ offbook' = {} /\ reissued' = {}
      /\ loans' = [l \in Loans |-> NoLoan] /\ swaps' = [w \in Swaps |-> NoSwap]
      /\ restarts < MaxRestarts /\ restarts' = restarts + 1 /\ requests' = requests
  BY DEF Restart
<1>2. ListingsAreSound'
  <2>1. \A a \in Assets : (a \in {}) = FALSE
    OBVIOUS
  <2>2. \A a \in Assets : SoundListing(SeedProp[a], SeedBal[a], SeedTold[a], SeedMade[a], a \in {}, a \in {})
    BY <2>1, SeedsSound
  <2>3. QED
    BY <1>1, <2>2, SeedsAreMaps DEF ListingsAreSound
<1>3. DealsAreSound'
  BY <1>1, NoDeals DEF DealsAreSound
<1>4. Bounded'
  BY <1>1, MockServerConstants DEF MarketInv, Bounded
<1>5. QED
  BY <1>2, <1>3, <1>4 DEF MarketInv

LEMMA MarketInitially == ASSUME Init PROVE MarketInv
<1>1. /\ prop = SeedProp /\ bal = SeedBal /\ told = SeedTold /\ made = SeedMade
      /\ offbook = {} /\ reissued = {}
      /\ loans = [l \in Loans |-> NoLoan] /\ swaps = [w \in Swaps |-> NoSwap]
      /\ restarts = 0 /\ requests = 0
  BY DEF Init
<1>2. ListingsAreSound
  <2>1. \A a \in Assets : (a \in {}) = FALSE
    OBVIOUS
  <2>2. \A a \in Assets : SoundListing(SeedProp[a], SeedBal[a], SeedTold[a], SeedMade[a], a \in {}, a \in {})
    BY <2>1, SeedsSound
  <2>3. QED
    BY <1>1, <2>2, SeedsAreMaps DEF ListingsAreSound
<1>3. DealsAreSound
  BY <1>1, NoDeals DEF DealsAreSound
<1>4. Bounded
  BY <1>1, MockServerConstants DEF Bounded
<1>5. QED
  BY <1>2, <1>3, <1>4 DEF MarketInv

LEMMA BoundsKept == ASSUME Bounded, Request \/ UNCHANGED bounds PROVE Bounded'
BY MockServerConstants DEF Bounded, Request, bounds

\* Handlers that leave the deals alone.
LEMMA OnlyListings ==
    ASSUME MarketInv, ListingsAreSound', UNCHANGED <<loans, swaps>>, Request \/ UNCHANGED bounds
    PROVE  MarketInv'
BY BoundsKept DEF MarketInv, DealsAreSound

LEMMA OnlyDeals ==
    ASSUME MarketInv, UNCHANGED <<prop, bal, books>>, DealsAreSound', Request
    PROVE  MarketInv'
BY BoundsKept, ListingsStay DEF MarketInv

LEMMA PledgeMarket ==
    ASSUME MarketInv, NEW l \in Loans, NEW h \in People, NEW a \in Assets, NEW n \in Nat, Pledge(l, h, a, n)
    PROVE  MarketInv'
<1> DEFINE r == [st |-> "ACTIVE", by |-> h, asset |-> a, n |-> n]
<1>1. loans' = [loans EXCEPT ![l] = r] /\ UNCHANGED <<prop, bal, swaps, books>> /\ Request
  BY DEF Pledge, NoPayment
<1>2. r \in LoanRecords
  BY DEF LoanRecords
<1> HIDE DEF r
<1>3. DealsAreSound'
  BY <1>1, <1>2 DEF MarketInv, DealsAreSound
<1>4. QED
  BY <1>1, <1>3, OnlyDeals

LEMMA RepayMarket == ASSUME MarketInv, NEW l \in Loans, Repay(l) PROVE MarketInv'
<1> DEFINE r == [loans[l] EXCEPT !.st = "REPAID"]
<1>1. loans' = [loans EXCEPT ![l] = r] /\ UNCHANGED <<prop, bal, swaps, books>> /\ Request
  BY DEF Repay, NoPayment
<1>2. r \in LoanRecords
  BY DEF MarketInv, DealsAreSound, LoanRecords
<1> HIDE DEF r
<1>3. DealsAreSound'
  BY <1>1, <1>2 DEF MarketInv, DealsAreSound
<1>4. QED
  BY <1>1, <1>3, OnlyDeals

LEMMA SwapWritten ==
    ASSUME DealsAreSound, NEW w \in Swaps, NEW s \in SwapRecords, OpenSwap(s),
           swaps' = [swaps EXCEPT ![w] = s], UNCHANGED loans
    PROVE  DealsAreSound'
<1>1. swaps' \in [Swaps -> SwapRecords] /\ swaps'[w] = s /\ \A v \in Swaps \ {w} : swaps'[v] = swaps[v]
  BY DEF DealsAreSound
<1>2. \A v \in Swaps : OpenSwap(swaps'[v])
  BY <1>1 DEF DealsAreSound
<1>3. QED
  BY <1>1, <1>2 DEF DealsAreSound

LEMMA ProposeMarket ==
    ASSUME MarketInv, NEW w \in Swaps, NEW a \in Assets, NEW b \in Assets, NEW s \in Offers(a, b), Propose(w, s)
    PROVE  MarketInv'
<1>1. swaps' = [swaps EXCEPT ![w] = s] /\ UNCHANGED <<prop, bal, loans, books>> /\ Request
  BY DEF Propose, NoPayment
<1>2. s \in SwapRecords /\ OpenSwap(s)
  BY MockServerConstants DEF Propose, Offers, SwapRecords, OpenSwap
<1>3. DealsAreSound'
  BY <1>1, <1>2, SwapWritten DEF MarketInv
<1>4. QED
  BY <1>1, <1>3, OnlyDeals

\* A swap that is over.
LEMMA ClosedSwap ==
    ASSUME DealsAreSound, NEW w \in Swaps, NEW st \in {"SETTLED", "CANCELLED"},
           swaps' = [swaps EXCEPT ![w].st = st], UNCHANGED loans
    PROVE  DealsAreSound'
<1> DEFINE s == [swaps[w] EXCEPT !.st = st]
<1>1. swaps' = [swaps EXCEPT ![w] = s]
  OBVIOUS
<1>2. s \in SwapRecords /\ s.st = st
  BY DEF DealsAreSound, SwapRecords
<1> HIDE DEF s
<1>3. QED
  BY <1>1, <1>2, SwapWritten DEF OpenSwap

LEMMA AcceptMarket == ASSUME MarketInv, NEW w \in Swaps, Accept(w) PROVE MarketInv'
<1>1. swaps' = [swaps EXCEPT ![w].st = "SETTLED"] /\ UNCHANGED loans /\ Request
  BY DEF Accept, NoPayment
<1>2. DealsAreSound'
  BY <1>1, ClosedSwap DEF MarketInv
<1>3. QED
  BY <1>1, <1>2, AcceptSound, BoundsKept DEF MarketInv

LEMMA CancelMarket == ASSUME MarketInv, NEW w \in Swaps, Cancel(w) PROVE MarketInv'
<1>1. swaps' = [swaps EXCEPT ![w].st = "CANCELLED"] /\ UNCHANGED <<prop, bal, loans, books>> /\ Request
  BY DEF Cancel, NoPayment
<1>2. DealsAreSound'
  BY <1>1, ClosedSwap DEF MarketInv
<1>3. QED
  BY <1>1, <1>2, OnlyDeals

LEMMA ListingMarket == ASSUME MarketInv, NEW a \in Assets, Listing(a) PROVE MarketInv'
<1>1. ListingsAreSound
  BY DEF MarketInv
<1>2. UNCHANGED <<loans, swaps>> /\ Request
  BY Zenon DEF Listing, Register, Validate, Mint, Freeze, Unfreeze, Delete, NoPayment
<1>3. ListingsAreSound'
  <2>1. ASSUME NEW n \in {Supply} \cup Amounts PROVE n \in Nat
    BY MockServerConstants
  <2>2. QED
    BY <1>1, <2>1, RegisterSound, ValidateSound, MintSound, FreezeSound, UnfreezeSound, DeleteSound DEF Listing
<1>4. QED
  BY <1>2, <1>3, OnlyListings

LEMMA TradingMarket == ASSUME MarketInv, PayInv, NEW a \in Assets, Trading(a) PROVE MarketInv'
<1>1. ASSUME NEW h \in People, NEW g \in People, NEW n \in Amounts, Transfer(a, h, g, n) PROVE MarketInv'
  <2>1. n \in Nat
    BY MockServerConstants
  <2>2. ListingsAreSound'
    BY <1>1, <2>1, TransferSound
  <2>3. UNCHANGED <<loans, swaps>> /\ Request
    BY Zenon, <1>1, LeaveDeals, SpendDeals DEF Transfer
  <2>4. QED
    BY <2>2, <2>3, OnlyListings
<1>2. ASSUME NEW l \in Loans, NEW h \in People, NEW n \in Amounts, Pledge(l, h, a, n) PROVE MarketInv'
  <2>1. n \in Nat
    BY MockServerConstants
  <2>2. QED
    BY <1>2, <2>1, PledgeMarket
<1>3. QED
  BY <1>1, <1>2, ProposeMarket DEF Trading

\* What a confirmed copy names is there.
LEMMA ConfirmedCopy ==
    ASSUME NEW r, NEW p, NEW I, NEW M, SoundCopy(r, p, I, M), r.st = "CONFIRMED"
    PROVE  r.asset \in Assets /\ r.by \in People
BY NoPayRecord DEF SoundCopy, PayRecords

\* What the payments' handlers do to the market: they settle, or nothing.  If they settle, they count it.
LEMMA PayingMarket ==
    ASSUME MarketInv, PayInv, NEW p \in Payments, Paying(p)
    PROVE  MarketInv' /\ (told' = told \/ moved' = [moved EXCEPT ![p] = @ + 1])
<1> DEFINE Done == MarketInv' /\ (told' = told \/ moved' = [moved EXCEPT ![p] = @ + 1])
<1>0. ListingsAreSound
  BY DEF MarketInv
<1>1. ASSUME UNCHANGED <<market, books>>, Request \/ UNCHANGED bounds PROVE Done
  BY <1>0, <1>1, ListingsStay, OnlyListings DEF market, books
<1>2. ASSUME NEW r, SoundCopy(r, p, issued, vouched), settleConfirmedPayment(p, r),
             Request \/ UNCHANGED bounds
      PROVE  Done
  <2>1. r.st = "CONFIRMED" => r.asset \in Assets /\ r.by \in People
    BY <1>2, ConfirmedCopy
  <2>2. /\ ListingsAreSound' /\ UNCHANGED <<loans, swaps>>
        /\ told' = told \/ moved' = [moved EXCEPT ![p] = @ + 1]
    BY <1>0, <1>2, <2>1, SettleListings
  <2>3. QED
    BY <1>2, <2>2, OnlyListings
<1>3. ASSUME NEW s, PayuCallback(p, s) PROVE Done
  <2>1. pays[p] # NoPay /\ s \in Reports(p) /\ Request
    BY <1>3 DEF PayuCallback
  <2>2. CASE UNCHANGED <<market, books>>
    BY <1>1, <2>1, <2>2
  <2>3. CASE settleConfirmedPayment(p, AfterReport(pays[p], s))
    <3>1. SoundCopy(AfterReport(pays[p], s), p, issued, vouched)
      BY <2>1, AfterReportSound
    <3>2. QED
      BY <1>2, <2>1, <2>3, <3>1
  <2>4. QED
    BY <1>3, <2>2, <2>3 DEF PayuCallback
<1>4. ASSUME NEW s, ProviderAnswers(p, s) PROVE Done
  <2>1. /\ p \in asking /\ s \in Reports(p) /\ settleConfirmedPayment(p, Answered(p, s))
        /\ UNCHANGED bounds
    BY <1>4 DEF ProviderAnswers, Answered
  <2>2. SoundCopy(Answered(p, s), p, issued, vouched)
    BY <2>1, AnsweredSound
  <2>3. QED
    BY <1>2, <2>1, <2>2
<1>5. CASE Settle(p)
  <2>1. settleConfirmedPayment(p, pays[p]) /\ Request
    BY <1>5 DEF Settle
  <2>2. SoundCopy(pays[p], p, issued, vouched)
    BY OpenPayment
  <2>3. QED
    BY <1>2, <2>1, <2>2
<1>6. ASSUME NEW a, NEW h, Collect(p, a, h) PROVE UNCHANGED <<market, books>> /\ Request
  BY Zenon, <1>6 DEF Collect
<1>7. ASSUME \/ PayAtProvider(p) \/ Reconcile(p) \/ Get(p) \/ Reattach(p)
             \/ Approve(p) \/ Decline(p) \/ Release(p) \/ Refund(p) \/ WebhookTest(p)
      PROVE  UNCHANGED <<market, books>> /\ (Request \/ UNCHANGED bounds)
  BY Zenon, <1>7 DEF PayAtProvider, Reconcile, Get, Reattach, Approve, Decline, Release, Refund, WebhookTest, Writes
<1>8. ASSUME NEW s, Webhook(p, s) \/ commitSettlementToRail(p, s)
      PROVE  UNCHANGED <<market, books>> /\ (Request \/ UNCHANGED bounds)
  BY Zenon, <1>8 DEF Webhook, Writes, commitSettlementToRail
<1>9. QED
  BY <1>1, <1>3, <1>4, <1>5, <1>6, <1>7, <1>8 DEF Paying

LEMMA MarketInductive == ASSUME MarketInv, PayInv, [Next]_vars PROVE MarketInv'
<1>1. CASE Backfill
  <2>1. UNCHANGED <<market, books>> /\ Request
    BY <1>1 DEF Backfill
  <2>2. QED
    BY <2>1, ListingsStay, OnlyListings DEF market, books, MarketInv
<1>2. CASE UNCHANGED vars
  BY <1>2, ListingsStay, OnlyListings DEF vars, market, books, MarketInv
<1>3. QED
  BY <1>1, <1>2, ListingMarket, TradingMarket, PayingMarket, RepayMarket, AcceptMarket, CancelMarket, RestartMarket
     DEF Next

\* Whatever is listed, transferred, healed, swapped, settled or bought out, in any order and
\* across restarts: no holding is below zero, what is held of a listing is what was made of it
\* and at most its supply, and replaying the blocks gives the holdings.
THEOREM HoldingsAreCounted == Spec => []HoldingsAreTold
<1>1. MarketInv /\ PayInv => HoldingsAreTold
  <2>1. SUFFICES ASSUME MarketInv, PayInv PROVE HoldingsAreTold
    OBVIOUS
  <2>2. \A a \in Assets : SoundListing(prop[a], bal[a], told[a], made[a], a \in reissued, a \in offbook)
    BY <2>1 DEF MarketInv, ListingsAreSound
  <2>3. Holdings
    BY <2>2, BookHolds DEF Holdings, SoundListing
  <2>4. prop \in [Assets -> PropRecords]
    <3>1. prop = [a \in Assets |-> prop[a]] /\ \A a \in Assets : prop[a] \in PropRecords
      BY <2>1, <2>2 DEF MarketInv, ListingsAreSound, IsMap, SoundListing
    <3>2. QED
      BY <3>1
  <2>5. /\ \A l \in Loans : loans[l].st \in {"none", "ACTIVE", "REPAID"} /\ loans[l].n \in Nat
        /\ \A w \in Swaps : swaps[w].st \in {"none", "PROPOSED", "SETTLED", "CANCELLED"}
    BY <2>1 DEF MarketInv, DealsAreSound, LoanRecords, SwapRecords
  <2>6. /\ pays \in [Payments -> PayRecords] /\ kept \in [Payments -> PayRecords]
        /\ asking \subseteq issued /\ \A q \in posting : q[1] \in issued
    BY <2>1 DEF PayInv, SoundPays, SoundPosts
  <2>7. TypeOK
    BY <2>1, <2>3, <2>4, <2>5, <2>6 DEF TypeOK, MarketInv, Bounded
  <2>8. HoldingsAddUp /\ LedgerTellsHoldings
    BY <2>2 DEF HoldingsAddUp, LedgerTellsHoldings, SoundListing
  <2>9. QED
    BY <2>7, <2>8 DEF HoldingsAreTold
<1>2. Init => MarketInv /\ PayInv
  BY MarketInitially, Initially
<1>3. MarketInv /\ PayInv /\ [Next]_vars => (MarketInv /\ PayInv)'
  BY MarketInductive, Inductive
<1>4. QED
  BY <1>1, <1>2, <1>3, PTL DEF Spec
-----------------------------------------------------------------------------
(* Pledges and halts *)

\* What PledgesAndHaltsHold says of a step that tells the chain something.
Halted ==
    \A a \in Assets : \A h \in DOMAIN bal[a] :
        Held(bal'[a], h) < bal[a][h] => Tradeable(prop[a]) /\ Held(bal'[a], h) >= drunixLockedTokens(a, h)

\* Tokens that were spent come from their sender, out of what is not pledged.
LEMMA SpentHalts ==
    ASSUME MarketInv, NEW a \in Assets, NEW b, IsBook(b), NEW from \in People, NEW to \in People, from # to,
           NEW n \in Nat, Tradeable(prop[a]), SpentFrom(a, b, from, to, n),
           \A h \in DOMAIN bal[a] : Held(b, h) = bal[a][h]
    PROVE  Halted
<1>1. IsMap(bal) /\ drunixLockedTokens(a, from) \in Nat /\ Held(b, from) \in Nat
  BY LockedIsNat, BookHolds DEF MarketInv, ListingsAreSound, DealsAreSound
<1> DEFINE c == Moved(b, from, to, n)
<1>2. /\ bal'[a] = c /\ \A x \in Assets \ {a} : bal'[x] = bal[x]
      /\ Held(b, from) - n >= drunixLockedTokens(a, from) /\ Held(b, from) >= n
  BY <1>1 DEF SpentFrom, IsMap
<1>3. /\ Held(c, from) = Held(b, from) - n /\ Held(c, to) = Held(b, to) + n
      /\ \A x : x \notin {from, to} => Held(c, x) = Held(b, x)
  BY <1>2, MovedBook
<1> HIDE DEF c
<1>4. ASSUME NEW x \in Assets \ {a}, NEW h \in DOMAIN bal[x] PROVE ~(Held(bal'[x], h) < bal[x][h])
  <2>1. IsBook(bal[x])
    BY ListingFacts DEF MarketInv
  <2>2. Held(bal[x], h) = bal[x][h] /\ bal[x][h] \in Nat
    BY <2>1, BookHolds
  <2>3. QED
    BY <1>2, <2>2
<1>5. ASSUME NEW h \in DOMAIN bal[a], Held(c, h) < bal[a][h] PROVE h = from /\ Held(c, h) >= drunixLockedTokens(a, h)
  <2>1. Held(b, h) = bal[a][h] /\ Held(b, h) \in Nat
    BY BookHolds
  <2>2. h = from
    BY <1>3, <1>5, <2>1
  <2>3. QED
    BY <1>2, <1>3, <2>2
<1>6. QED
  BY <1>2, <1>4, <1>5 DEF Halted

LEMMA TransferHalts ==
    ASSUME MarketInv, PayInv, NEW a \in Assets, NEW from \in People, NEW to \in People, NEW n \in Nat,
           Transfer(a, from, to, n), told' # told
    PROVE  Halted
<1>1. IsBook(bal[a]) /\ IsMap(bal) /\ from # to
  BY ListingFacts DEF MarketInv, ListingsAreSound, Transfer
<1>2. \A h \in DOMAIN bal[a] : Held(bal[a], h) = bal[a][h]
  BY <1>1, BookHolds
<1>3. ASSUME bal[a] = Empty, NEW c, bal' = [bal EXCEPT ![a] = c] PROVE Halted
  <2>1. DOMAIN bal[a] = {} /\ \A x \in Assets \ {a} : bal'[x] = bal[x]
    BY <1>1, <1>3 DEF IsMap, Empty
  <2>2. ASSUME NEW x \in Assets \ {a}, NEW h \in DOMAIN bal[x] PROVE ~(Held(bal'[x], h) < bal[x][h])
    <3>1. IsBook(bal[x])
      BY ListingFacts DEF MarketInv
    <3>2. Held(bal[x], h) = bal[x][h] /\ bal[x][h] \in Nat
      BY <3>1, BookHolds
    <3>3. QED
      BY <2>1, <3>2
  <2>3. QED
    BY <2>1, <2>2 DEF Halted
<1>4. CASE Tradeable(prop[a]) /\ SpentFrom(a, bal[a], from, to, n)
  BY <1>1, <1>2, <1>4, SpentHalts
<1>5. ASSUME Tradeable(prop[a]), from \notin DOMAIN bal[a], NEW k \in Nat,
             SpentFrom(a, Over(Only(from, k), bal[a]), from, to, n)
      PROVE  Halted
  <2> DEFINE c == Over(Only(from, k), bal[a])
  <2>1. IsBook(c) /\ \A x : x # from => Held(c, x) = Held(bal[a], x)
    BY <1>1, <1>5, Opened
  <2>2. SpentFrom(a, c, from, to, n)
    BY <1>5
  <2> HIDE DEF c
  <2>3. \A h \in DOMAIN bal[a] : Held(c, h) = bal[a][h]
    BY <1>2, <1>5, <2>1
  <2>4. QED
    BY <1>1, <1>5, <2>1, <2>2, <2>3, SpentHalts
<1>6. QED
  BY <1>3, <1>4, <1>5, TransferSound

\* Both sides of a swap keep what they pledged.
LEMMA AcceptHalts == ASSUME MarketInv, NEW w \in Swaps, Accept(w) PROVE Halted
<1>1. PICK a \in Assets, b \in Assets, h \in People, g \in People, n \in Nat, m \in Nat :
        /\ a # b /\ h # g /\ Tradeable(prop[a]) /\ Tradeable(prop[b])
        /\ bal' = [bal EXCEPT ![a] = Moved(@, h, g, n), ![b] = Moved(@, g, h, m)]
        /\ Held(bal[a], h) - n >= drunixLockedTokens(a, h) /\ Held(bal[a], h) >= n
        /\ Held(bal[b], g) - m >= drunixLockedTokens(b, g) /\ Held(bal[b], g) >= m
  BY AcceptSound
<1>2. IsMap(bal) /\ \A x \in Assets : IsBook(bal[x])
  BY ListingFacts DEF MarketInv, ListingsAreSound
<1>3. /\ bal'[a] = Moved(bal[a], h, g, n) /\ bal'[b] = Moved(bal[b], g, h, m)
      /\ \A x \in Assets \ {a, b} : bal'[x] = bal[x]
  BY <1>1, <1>2 DEF IsMap
<1>4. /\ Held(bal'[a], h) = Held(bal[a], h) - n /\ Held(bal'[a], g) = Held(bal[a], g) + n
      /\ \A x : x \notin {h, g} => Held(bal'[a], x) = Held(bal[a], x)
  <2>1. IsBook(bal[a]) /\ h # g /\ Held(bal[a], h) >= n
    BY <1>1, <1>2
  <2>2. LET c == Moved(bal[a], h, g, n) IN
        /\ Held(c, h) = Held(bal[a], h) - n /\ Held(c, g) = Held(bal[a], g) + n
        /\ \A x : x \notin {h, g} => Held(c, x) = Held(bal[a], x)
    BY <2>1, MovedBook
  <2>3. QED
    BY <1>3, <2>2
<1>5. /\ Held(bal'[b], g) = Held(bal[b], g) - m /\ Held(bal'[b], h) = Held(bal[b], h) + m
      /\ \A x : x \notin {h, g} => Held(bal'[b], x) = Held(bal[b], x)
  <2>1. IsBook(bal[b]) /\ h # g /\ Held(bal[b], g) >= m
    BY <1>1, <1>2
  <2>2. LET c == Moved(bal[b], g, h, m) IN
        /\ Held(c, g) = Held(bal[b], g) - m /\ Held(c, h) = Held(bal[b], h) + m
        /\ \A x : x \notin {g, h} => Held(c, x) = Held(bal[b], x)
    BY <2>1, MovedBook
  <2>3. QED
    BY <1>3, <2>2
<1>6. ASSUME NEW x \in Assets, NEW y \in DOMAIN bal[x], Held(bal'[x], y) < bal[x][y]
      PROVE  Tradeable(prop[x]) /\ Held(bal'[x], y) >= drunixLockedTokens(x, y)
  <2>1. Held(bal[x], y) = bal[x][y] /\ bal[x][y] \in Nat
    BY <1>2, BookHolds
  <2>2. CASE x = a
    <3>1. y = h
      BY <1>4, <1>6, <2>1, <2>2
    <3>2. QED
      BY <1>1, <1>4, <2>2, <3>1
  <2>3. CASE x = b
    <3>1. y = g
      BY <1>5, <1>6, <2>1, <2>3
    <3>2. QED
      BY <1>1, <1>5, <2>3, <3>1
  <2>4. CASE x \notin {a, b}
    BY <1>3, <1>6, <2>1, <2>4
  <2>5. QED
    BY <2>2, <2>3, <2>4
<1>7. QED
  BY <1>6 DEF Halted

\* A mint adds to what is held and takes nothing.
LEMMA MintHalts == ASSUME MarketInv, NEW a \in Assets, NEW n \in Nat, Mint(a, n) PROVE Halted
<1> DEFINE o == prop[a].owner
<1>1. IsMap(bal) /\ o \in People /\ \A x \in Assets : IsBook(bal[x])
  BY ListingFacts DEF MarketInv, ListingsAreSound
<1>2. \/ bal' = bal
      \/ o \notin DOMAIN bal[a] /\ bal' = [bal EXCEPT ![a] = Over(Only(o, n), @)]
  BY DEF Mint
<1> HIDE DEF o
<1>3. ASSUME NEW x \in Assets, NEW h \in DOMAIN bal[x] PROVE Held(bal'[x], h) = bal[x][h] /\ bal[x][h] \in Nat
  <2>1. Held(bal[x], h) = bal[x][h] /\ bal[x][h] \in Nat
    BY <1>1, BookHolds
  <2>2. CASE bal' = bal
    BY <2>1, <2>2
  <2>3. CASE o \notin DOMAIN bal[a] /\ bal' = [bal EXCEPT ![a] = Over(Only(o, n), @)]
    <3>1. \A y : y # o => Held(Over(Only(o, n), bal[a]), y) = Held(bal[a], y)
      BY <1>1, Written
    <3>2. x = a => h # o
      BY <2>3
    <3>3. bal'[x] = IF x = a THEN Over(Only(o, n), bal[a]) ELSE bal[x]
      BY <1>1, <2>3 DEF IsMap
    <3>4. QED
      BY <2>1, <3>1, <3>2, <3>3
  <2>4. QED
    BY <1>2, <2>2, <2>3
<1>4. QED
  BY <1>3 DEF Halted

LEMMA StepsHalt ==
    ASSUME MarketInv, PayInv, [Next]_vars, told' # told, moved' = moved, restarts' = restarts
    PROVE  Halted
<1>1. ASSUME NEW a \in Assets, Listing(a) PROVE Halted
  <2>1. ASSUME NEW n \in {Supply} \cup Amounts, Mint(a, n) PROVE Halted
    <3>1. n \in Nat
      BY MockServerConstants
    <3>2. QED
      BY <2>1, <3>1, MintHalts
  <2>2. CASE (\E o \in People : Register(a, o)) \/ (\E d \in {"VALIDATED", "REJECTED"} : Validate(a, d))
             \/ Freeze(a) \/ Unfreeze(a) \/ Delete(a)
    <3>1. told' = told
      BY Zenon, <2>2 DEF Register, Validate, Freeze, Unfreeze, Delete, books
    <3>2. QED
      BY <3>1
  <2>3. QED
    BY <1>1, <2>1, <2>2 DEF Listing
<1>2. ASSUME NEW a \in Assets, Trading(a) PROVE Halted
  <2>1. ASSUME NEW h \in People, NEW g \in People, NEW n \in Amounts, Transfer(a, h, g, n) PROVE Halted
    <3>1. n \in Nat
      BY MockServerConstants
    <3>2. QED
      BY <2>1, <3>1, TransferHalts
  <2>2. CASE ~\E h, g \in People, n \in Amounts : Transfer(a, h, g, n)
    <3>1. told' = told
      BY Zenon, <1>2, <2>2 DEF Trading, Pledge, Propose, books
    <3>2. QED
      BY <3>1
  <2>3. QED
    BY <2>1, <2>2
<1>3. ASSUME NEW p \in Payments, Paying(p) PROVE Halted
  <2>1. moved[p] \in {0, 1} /\ DOMAIN moved = Payments
    BY DEF PayInv, SoundMoves
  <2>2. moved' # [moved EXCEPT ![p] = @ + 1]
    BY <2>1
  <2>3. told' = told
    BY <1>3, <2>2, PayingMarket
  <2>4. QED
    BY <2>3
<1>4. ASSUME (\E l \in Loans : Repay(l)) \/ (\E w \in Swaps : Cancel(w)) \/ Backfill \/ UNCHANGED vars PROVE told' = told
  BY Zenon, <1>4 DEF Repay, Cancel, Backfill, vars, books
<1>5. ~Restart
  BY DEF Restart, MarketInv, Bounded
<1>6. QED
  BY <1>1, <1>2, <1>3, <1>4, <1>5, AcceptHalts DEF Next

\* Transfers and swaps never touch a listing that is halted, whatever was healed or proposed
\* before, and never leave their sender with less than it has pledged.
THEOREM HaltsAndPledgesHold == Spec => PledgesAndHaltsHold
<1>1. MarketInv /\ PayInv /\ [Next]_vars =>
        [told' # told /\ moved' = moved /\ restarts' = restarts =>
            \A a \in Assets : \A h \in DOMAIN bal[a] :
                Held(bal'[a], h) < bal[a][h] =>
                    Tradeable(prop[a]) /\ Held(bal'[a], h) >= drunixLockedTokens(a, h)]_vars
  BY StepsHalt DEF Halted
<1>2. Init => MarketInv /\ PayInv
  BY MarketInitially, Initially
<1>3. MarketInv /\ PayInv /\ [Next]_vars => (MarketInv /\ PayInv)'
  BY MarketInductive, Inductive
<1>4. QED
  BY <1>1, <1>2, <1>3, PTL DEF Spec, PledgesAndHaltsHold

=============================================================================
