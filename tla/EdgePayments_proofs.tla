------------------------- MODULE EdgePayments_proofs -------------------------
(***************************************************************************)
(* What the payments of the serverless API keep (EdgePayments), for every  *)
(* number of instances, payments, requests and recycled instances.         *)
(*                                                                         *)
(* The invariant says of every copy of a payment, in a memory, a file or   *)
(* the bundle, that there is none before the payment was created and that  *)
(* none is confirmed or released before somebody vouched for it; of an     *)
(* instance, that its memory is not behind its own file and that a step at *)
(* the rail is left only of a request whose payments were vouched for; and *)
(* of the rail, that it delivered a payment once if it knows its key, else *)
(* never.  All but the rail's part is about one instance at a time, so a   *)
(* step of an instance needs to be looked at for that instance only        *)
(* (OneInstance).                                                          *)
(***************************************************************************)
EXTENDS EdgePayments, SequenceTheorems, WellFoundedInduction, TLAPS

\* A copy of payment p, when I are issued and M are vouched for.
SoundCopy(r, p, I, M) ==
    r \in Records /\ (p \notin I => r = NoPay) /\ (p \notin M => r.st \notin Late)
SoundPays(pay, I, M) ==
    pay \in [Payments -> Records] /\ \A p \in Payments : SoundCopy(pay[p], p, I, M)

SoundMem(m, I, M) ==
    /\ m = [pay |-> m.pay, purse |-> m.purse, idem |-> m.idem, bal |-> m.bal]
    /\ SoundPays(m.pay, I, M) /\ Counts(m.purse) /\ Counts(m.bal)
SoundBundle(b, I, M) ==
    /\ b = [pay |-> b.pay, purse |-> b.purse]
    /\ SoundPays(b.pay, I, M) /\ Counts(b.purse)
SoundFile(f, I, M) ==
    /\ f = [npci |-> f.npci, on |-> f.on, idem |-> f.idem, hasIdem |-> f.hasIdem, bal |-> f.bal]
    /\ SoundBundle(f.npci, I, M) /\ Counts(f.bal)
SoundStore(s, I, M) ==
    s = [npci |-> s.npci, bal |-> s.bal] /\ SoundBundle(s.npci, I, M) /\ Counts(s.bal)

\* The memory of an instance is not behind its own file.
Ahead(m, f) == \A p \in Payments : Stamp(m.pay[p]) >= Stamp(f.npci.pay[p])

\* What is left to do of a request; the rail is asked only for payments vouched for.
SoundJob(j, M) ==
    /\ j = [at |-> j.at, ps |-> j.ps, todo |-> j.todo]
    /\ j.at \in {"idle", "loaded", "run"} /\ j.ps \subseteq Payments /\ j.todo \in Seq(Steps)
    /\ j.at = "run" => j.todo # <<>>
    /\ (\E n \in 1..Len(j.todo) : j.todo[n] = "rail") => j.ps \subseteq M

\* The rail delivered a payment once if it has seen its key, else never.
SoundRail(rl) ==
    /\ rl.funds \in [Payments -> Nat]
    /\ rl.dvps = [p \in Payments |-> IF <<"dvp", p>> \in rl.keys THEN 1 ELSE 0]

Instance(m, f, j, I, M) ==
    SoundMem(m, I, M) /\ SoundFile(f, I, M) /\ Ahead(m, f) /\ SoundJob(j, M)
SoundHistory(mv, M) == mv \in [Payments -> Nat] /\ \A p \in Payments \ M : mv[p] = 0
IInv ==
    /\ mem = [i \in Instances |-> mem[i]] /\ file = [i \in Instances |-> file[i]]
    /\ job = [i \in Instances |-> job[i]]
    /\ \A i \in Instances : Instance(mem[i], file[i], job[i], issued, vouched)
    /\ SoundStore(store, issued, vouched) /\ SoundRail(rail) /\ SoundHistory(moved, vouched)
    /\ psp \subseteq vouched /\ vouched \subseteq issued /\ issued \subseteq Payments
    /\ funds \in Nat /\ requests \in 0..MaxRequests /\ recycles \in 0..MaxRecycles
-----------------------------------------------------------------------------
(* Numbers *)

\* Every set of numbers that is not empty has a least one.
LEMMA LeastOfSet ==
    ASSUME NEW T, T \subseteq Nat, T # {} PROVE \E x \in T : \A y \in T : x <= y
<1> DEFINE R == {ss \in Nat \X Nat : ss[1] < ss[2]}
<1>1. IsWellFoundedOn(R, Nat)
  BY NatLessThanWellFounded DEF OpToRel
<1>2. PICK x \in T : \A y \in T : ~ (<<y, x>> \in R)
  BY <1>1, WFMin
<1>3. \A y \in T : y \in Nat /\ x \in Nat /\ (y < x => <<y, x>> \in R)
  OBVIOUS
<1>4. \A y \in T : ~(y < x)
  BY <1>2, <1>3
<1>5. \A y \in T : x <= y
  BY <1>3, <1>4
<1>6. QED
  BY <1>5

\* A function from a finite set to the numbers has a bound.
LEMMA FiniteIsBounded ==
    ASSUME NEW S, IsFiniteSet(S), NEW f \in [S -> Nat]
    PROVE  \E b \in Nat : \A s \in S : f[s] <= b
<1>1. PICK q \in Seq(S) : \A s \in S : \E n \in 1..Len(q) : q[n] = s
  BY DEF IsFiniteSet
<1>0. Len(q) \in Nat /\ \A n \in 1..Len(q) : q[n] \in S /\ f[q[n]] \in Nat
  <2>1. \A n \in 1..Len(q) : q[n] \in S
    BY <1>1, ElementOfSeq
  <2>2. QED
    BY <1>1, <2>1
<1> DEFINE Bounds(n, b) == \A m \in 1..n : f[q[m]] <= b
           Open == {n \in 0..Len(q) : \A b \in Nat : ~Bounds(n, b)}
<1>2. Open = {}
  <2>1. SUFFICES ASSUME Open # {} PROVE FALSE
    OBVIOUS
  <2>2. PICK m \in Open : \A y \in Open : m <= y
    <3>1. Open \subseteq Nat
      OBVIOUS
    <3>2. QED
      BY Zenon, <2>1, <3>1, LeastOfSet
  <2>3. m # 0
    <3>1. Bounds(0, 0)
      OBVIOUS
    <3>2. QED
      BY <2>2, <3>1
  <2>4. Len(q) \in Nat /\ m \in 1..Len(q) /\ m - 1 \in 0..Len(q) /\ m - 1 \notin Open
    <3>1. Len(q) \in Nat
      BY <1>0
    <3>2. m \in 0..Len(q) /\ m \in Nat /\ m # 0
      BY <3>1, <2>2, <2>3
    <3>3. m \in 1..Len(q) /\ m - 1 \in 0..Len(q) /\ m - 1 \in Nat
      BY <3>1, <3>2
    <3>4. m - 1 \notin Open
      <4>1. SUFFICES ASSUME m - 1 \in Open PROVE FALSE
        OBVIOUS
      <4>2. m <= m - 1
        BY <4>1, <2>2
      <4>3. QED
        BY <4>2, <3>2
    <3>5. QED
      BY <3>1, <3>3, <3>4
  <2>5. PICK b \in Nat : Bounds(m - 1, b)
    BY <2>4
  <2> HIDE DEF Open
  <2>6. q[m] \in S /\ f[q[m]] \in Nat
    BY <1>0, <2>4
  <2>7. PICK c \in Nat : c = IF f[q[m]] <= b THEN b ELSE f[q[m]]
    BY <2>6
  <2>8. \A k \in 1..m : f[q[k]] <= c
    <3>1. TAKE k \in 1..m
    <3>2. q[k] \in S /\ f[q[k]] \in Nat
      BY <1>0, <2>4
    <3>3. CASE k = m
      BY <3>3, <2>6, <2>7
    <3>4. CASE k # m
      <4>1. k \in 1..(m - 1)
        BY <3>4, <2>4
      <4>2. f[q[k]] <= b
        BY <4>1, <2>5
      <4>3. QED
        BY <4>2, <3>2, <2>6, <2>7
    <3>5. QED
      BY <3>3, <3>4
  <2>9. QED
    BY <2>2, <2>8 DEF Open
<1>3. PICK b \in Nat : Bounds(Len(q), b)
  <2>1. Len(q) \in 0..Len(q)
    BY <1>1
  <2>2. QED
    BY <2>1, <1>2
<1>4. QED
  BY <1>1, <1>3

\* The largest of a bounded set of numbers is in it, and is its largest.
LEMMA LargestOfSet ==
    ASSUME NEW S, S \subseteq Nat, S # {}, NEW b \in Nat, \A x \in S : x <= b
    PROVE  Max(S) \in S /\ \A x \in S : x <= Max(S)
<1> DEFINE Above == {u \in Nat : \A x \in S : x <= u}
<1>1. PICK u \in Above : \A v \in Above : u <= v
  BY Zenon, LeastOfSet
<1>2. u \in S
  <2>1. SUFFICES ASSUME u \notin S PROVE FALSE
    OBVIOUS
  <2>2. \A x \in S : x \in Nat /\ x <= u /\ x # u
    BY <1>1, <2>1
  <2>3. PICK x \in S : TRUE
    OBVIOUS
  <2>4. u - 1 \in Nat
    BY <1>1, <2>2, <2>3
  <2>5. u - 1 \in Above
    BY <1>1, <2>2, <2>4
  <2>6. QED
    BY <1>1, <2>5
<1>3. \A x \in S : u >= x
  BY <1>1
<1>4. QED
  BY <1>2, <1>3 DEF Max
-----------------------------------------------------------------------------
(* Copies of payments *)

\* The fields of a copy of a payment.
LEMMA Fields ==
    ASSUME NEW r \in Records
    PROVE  /\ r = [st |-> r.st, conf |-> r.conf, rel |-> r.rel, tid |-> r.tid, umi |-> r.umi, prov |-> r.prov]
           /\ r.st \in Statuses /\ r.conf \in Nat /\ r.rel \in Nat /\ Stamp(r) \in Nat
           /\ r.prov \in {"payu", "setu", "icici"}
BY DEF Records, Stamp

\* Fields of the right kinds make a copy of a payment.
LEMMA FieldsAreRecord ==
    ASSUME NEW st \in Statuses, NEW conf \in Nat, NEW rel \in Nat, NEW tid \in BOOLEAN, NEW umi \in BOOLEAN,
           NEW prov \in {"payu", "setu", "icici"}
    PROVE  [st |-> st, conf |-> conf, rel |-> rel, tid |-> tid, umi |-> umi, prov |-> prov] \in Records
BY DEF Records

\* No payment is a copy like any other, older than all.
LEMMA NoPayRecord == NoPay \in Records /\ Stamp(NoPay) = 0 /\ NoPay.st = "none"
<1>1. NoPay \in Records
  BY FieldsAreRecord DEF NoPay, Statuses
<1>2. QED
  BY <1>1 DEF NoPay, Stamp

\* What the handlers do to a copy.
LEMMA Restated ==
    ASSUME NEW r \in Records, NEW s \in Statuses
    PROVE  /\ [r EXCEPT !.st = s] \in Records /\ [r EXCEPT !.st = s].st = s
           /\ Stamp([r EXCEPT !.st = s]) = Stamp(r)
           /\ [r EXCEPT !.st = s].conf = r.conf
BY DEF Records, Stamp

\* Naming another provider changes neither status nor stamp.
LEMMA Reprovided ==
    ASSUME NEW r \in Records, NEW v \in {"payu", "setu", "icici"}
    PROVE  /\ [r EXCEPT !.prov = v] \in Records /\ [r EXCEPT !.prov = v].st = r.st
           /\ Stamp([r EXCEPT !.prov = v]) = Stamp(r) /\ [r EXCEPT !.prov = v].conf = r.conf
           /\ [r EXCEPT !.prov = v].rel = r.rel
BY DEF Records, Stamp

\* Confirming stamps the copy with the time it is confirmed.
LEMMA ConfirmedCopy ==
    ASSUME NEW r \in Records, NEW t \in Nat \ {0}
    PROVE  Confirmed(r, t) \in Records /\ Confirmed(r, t).st = "CONFIRMED" /\ Stamp(Confirmed(r, t)) = t
<1>1. PICK x \in Records : x = [r EXCEPT !.st = "CONFIRMED"]
  BY Restated DEF Statuses
<1>2. Confirmed(r, t) = [x EXCEPT !.conf = t]
  BY <1>1 DEF Confirmed, Records
<1>3. [x EXCEPT !.conf = t] \in Records
  BY DEF Records
<1>4. [x EXCEPT !.conf = t].st = "CONFIRMED" /\ [x EXCEPT !.conf = t].conf = t
  BY <1>1 DEF Records
<1>5. QED
  BY <1>2, <1>3, <1>4 DEF Stamp

Released(r, t) == [r EXCEPT !.st = "RELEASED", !.tid = TRUE, !.rel = t]
\* Releasing at a later time never makes the copy older.
LEMMA ReleasedCopy ==
    ASSUME NEW r \in Records, NEW t \in Nat
    PROVE  /\ Released(r, t) \in Records
           /\ Released(r, t).st = "RELEASED"
           /\ t >= Stamp(r) => Stamp(Released(r, t)) >= Stamp(r)
<1>0. PICK x : x = Released(r, t)
  OBVIOUS
<1>1. PICK y \in Records : y = [r EXCEPT !.st = "RELEASED"]
  BY Restated DEF Statuses
<1>2. PICK z \in Records : z = [y EXCEPT !.tid = TRUE]
  BY DEF Records
<1>3. x = [z EXCEPT !.rel = t]
  BY <1>0, <1>1, <1>2 DEF Records, Released
<1>4. x \in Records
  BY <1>3 DEF Records
<1>5. x.st = "RELEASED" /\ x.conf = r.conf /\ x.rel = t
  BY <1>1, <1>2, <1>3 DEF Records
<1>6. QED
  BY <1>0, <1>4, <1>5, Fields DEF Stamp

\* Marking a copy as settled at the rail changes neither status nor stamp.
LEMMA OnRailCopy ==
    ASSUME NEW r \in Records
    PROVE  /\ [r EXCEPT !.umi = TRUE] \in Records /\ [r EXCEPT !.umi = TRUE].st = r.st
           /\ Stamp([r EXCEPT !.umi = TRUE]) = Stamp(r)
BY DEF Records, Stamp

\* The merge of two sound copies is sound and not older than the first (initState).
LEMMA MergedCopy ==
    ASSUME NEW I, NEW M, NEW p, NEW a, SoundCopy(a, p, I, M), NEW b, SoundCopy(b, p, I, M)
    PROVE  SoundCopy(Merged(a, b), p, I, M) /\ Stamp(Merged(a, b)) >= Stamp(a)
<1>1. a \in Records /\ b \in Records
  BY DEF SoundCopy
<1>2. Stamp(a) \in Nat /\ Stamp(b) \in Nat
  BY <1>1, Fields
<1>3. Merged(a, b) \in {a, b}
  BY DEF Merged, NewerOf
<1>4. Stamp(Merged(a, b)) >= Stamp(a)
  BY <1>2, NoPayRecord DEF Merged, NewerOf
<1>5. QED
  BY <1>3, <1>4
-----------------------------------------------------------------------------
(* Purses *)

\* An empty purse holds nothing below zero,
LEMMA EmptyCounts == Counts(Empty)
BY DEF Counts, Empty

\* nor does one spread over another,
LEMMA OverCounts ==
    ASSUME NEW f, Counts(f), NEW g, Counts(g) PROVE Counts(Over(f, g))
BY DEF Counts, Over

\* nor an account in it, whether it is there or not,
LEMMA HeldCounts ==
    ASSUME NEW f, Counts(f), NEW h PROVE Held(f, h) \in Nat
BY DEF Counts, Held

\* nor a purse of one account,
LEMMA OneCounts ==
    ASSUME NEW h \in Holders \cup {"payer", "payee"}, NEW n \in Nat PROVE Counts([x \in {h} |-> n])
BY DEF Counts

\* nor one in which an account was set to a number.
LEMMA SpentCounts ==
    ASSUME NEW f, Counts(f), NEW h, NEW e, h \in DOMAIN f => e \in Nat
    PROVE  Counts([f EXCEPT ![h] = e])
BY DEF Counts
-----------------------------------------------------------------------------
(* What stays sound as more is issued and vouched for *)

\* A copy stays sound as more is issued and vouched for,
LEMMA CopyGrows ==
    ASSUME NEW I, NEW M, NEW I2, NEW M2, I \subseteq I2, M \subseteq M2, NEW p, NEW r, SoundCopy(r, p, I, M)
    PROVE  SoundCopy(r, p, I2, M2)
BY DEF SoundCopy

\* and a table of copies,
LEMMA PaysGrow ==
    ASSUME NEW I, NEW M, NEW I2, NEW M2, I \subseteq I2, M \subseteq M2, NEW pay, SoundPays(pay, I, M)
    PROVE  SoundPays(pay, I2, M2)
BY CopyGrows DEF SoundPays

\* and what an instance or the database holds.
LEMMA BundleGrows ==
    ASSUME NEW I, NEW M, NEW I2, NEW M2, I \subseteq I2, M \subseteq M2
    PROVE  /\ \A x : SoundMem(x, I, M) => SoundMem(x, I2, M2)
           /\ \A x : SoundFile(x, I, M) => SoundFile(x, I2, M2)
           /\ \A x : SoundStore(x, I, M) => SoundStore(x, I2, M2)
           /\ \A x : SoundJob(x, M) => SoundJob(x, M2)
<1>1. \A x : SoundPays(x, I, M) => SoundPays(x, I2, M2)
  BY PaysGrow
<1>2. \A x : SoundBundle(x, I, M) => SoundBundle(x, I2, M2)
  BY <1>1 DEF SoundBundle
<1>3. \A x : SoundJob(x, M) => SoundJob(x, M2)
  BY DEF SoundJob
<1>4. \A x : SoundMem(x, I, M) => SoundMem(x, I2, M2)
  BY <1>1 DEF SoundMem
<1>5. \A x : SoundFile(x, I, M) => SoundFile(x, I2, M2)
  BY <1>2 DEF SoundFile
<1>6. \A x : SoundStore(x, I, M) => SoundStore(x, I2, M2)
  BY <1>2 DEF SoundStore
<1>7. QED
  BY <1>3, <1>4, <1>5, <1>6

\* Writing one payment of a sound table.
LEMMA PayWritten ==
    ASSUME NEW I, NEW M, NEW I2, NEW M2, I \subseteq I2, M \subseteq M2, NEW pay, SoundPays(pay, I, M),
           NEW p \in Payments, NEW r, SoundCopy(r, p, I2, M2)
    PROVE  SoundPays([pay EXCEPT ![p] = r], I2, M2)
<1>1. r \in Records
  BY DEF SoundCopy
<1>2. [pay EXCEPT ![p] = r] \in [Payments -> Records]
  BY <1>1 DEF SoundPays
<1>3. \A q \in Payments : SoundCopy([pay EXCEPT ![p] = r][q], q, I2, M2)
  <2>1. TAKE q \in Payments
  <2>2. SoundCopy(pay[q], q, I2, M2)
    BY CopyGrows DEF SoundPays
  <2>3. [pay EXCEPT ![p] = r][q] = IF q = p THEN r ELSE pay[q]
    BY DEF SoundPays
  <2>4. QED
    BY <2>2, <2>3
<1>4. QED
  BY <1>2, <1>3 DEF SoundPays
-----------------------------------------------------------------------------
(* What is left to do *)

\* A step that is done leaves less to do, and nothing new at the rail.
LEMMA RestIsSound ==
    ASSUME NEW j, NEW M, SoundJob(j, M), j.at = "run"
    PROVE  /\ Tail(j.todo) \in Seq(Steps)
           /\ (\E n \in 1..Len(Tail(j.todo)) : Tail(j.todo)[n] = "rail") => j.ps \subseteq M
           /\ Head(j.todo) = "rail" => j.ps \subseteq M
<1>1. j.todo \in Seq(Steps) /\ j.todo # <<>>
  BY DEF SoundJob
<1>2. Len(j.todo) \in Nat /\ Len(j.todo) >= 1 /\ Head(j.todo) = j.todo[1]
  BY <1>1, EmptySeq, HeadTailProperties
<1>3. /\ Tail(j.todo) \in Seq(Steps) /\ Len(Tail(j.todo)) = Len(j.todo) - 1
      /\ \A n \in 1..Len(Tail(j.todo)) : Tail(j.todo)[n] = j.todo[n + 1]
  BY <1>1, HeadTailProperties
<1>4. ASSUME NEW n \in 1..Len(Tail(j.todo)), Tail(j.todo)[n] = "rail" PROVE j.ps \subseteq M
  <2>1. n + 1 \in 1..Len(j.todo) /\ j.todo[n + 1] = "rail"
    BY <1>2, <1>3, <1>4
  <2>2. QED
    BY <2>1 DEF SoundJob
<1>5. ASSUME Head(j.todo) = "rail" PROVE j.ps \subseteq M
  BY <1>2, <1>5 DEF SoundJob
<1>6. QED
  BY <1>3, <1>4, <1>5

IdleOr(ps, todo) == IF todo = <<>> THEN Idle ELSE [at |-> "run", ps |-> ps, todo |-> todo]
\* What a handler leaves to do is sound if it asks the rail for paid payments only.
LEMMA ThenIsSound ==
    ASSUME NEW M, NEW ps, NEW todo \in Seq(Steps), ps \subseteq Payments,
           (\E n \in 1..Len(todo) : todo[n] = "rail") => ps \subseteq M
    PROVE  SoundJob(IdleOr(ps, todo), M) /\ SoundJob(Idle, M)
<1>1. <<>> \in Seq(Steps) /\ Len(<<>>) = 0
  OBVIOUS
<1>2. SoundJob(Idle, M)
  BY <1>1 DEF SoundJob, Idle
<1>3. CASE todo # <<>>
  <2>1. PICK j : j = [at |-> "run", ps |-> ps, todo |-> todo]
    OBVIOUS
  <2>2. j.at = "run" /\ j.ps = ps /\ j.todo = todo
    BY <2>1
  <2>3. SoundJob(j, M)
    <3>1. j = [at |-> j.at, ps |-> j.ps, todo |-> j.todo]
      BY <2>1, <2>2
    <3>2. (\E n \in 1..Len(j.todo) : j.todo[n] = "rail") => j.ps \subseteq M
      BY <2>2, Zenon
    <3>3. j.at \in {"idle", "loaded", "run"} /\ j.ps \subseteq Payments
      BY <2>2
    <3>4. j.todo \in Seq(Steps) /\ j.todo # <<>>
      BY <1>3, <2>2, Zenon
    <3>5. QED
      BY <3>1, <3>2, <3>3, <3>4, Zenon DEF SoundJob
  <2>4. IdleOr(ps, todo) = j
    BY <1>3, <2>1, Zenon DEF IdleOr
  <2>5. QED
    BY <1>2, <2>3, <2>4, Zenon
<1>4. QED
  BY <1>2, <1>3 DEF IdleOr
-----------------------------------------------------------------------------
(* The clock *)

\* A time given to a copy of a payment is a time, and later than any stamp in
\* the memory of an instance.
LEMMA NowIsLater ==
    ASSUME IInv, NEW p \in Payments
    PROVE  /\ Now(p) \in Nat \ {0}
           /\ \A i \in Instances : /\ Now(p) > mem[i].pay[p].conf /\ Now(p) > mem[i].pay[p].rel
                                   /\ Now(p) > Stamp(mem[i].pay[p])
<1> DEFINE left == {store.npci.pay[p]} \cup {mem[i].pay[p] : i \in Instances}
                     \cup {file[i].npci.pay[p] : i \in Instances}
           S == {r.conf : r \in left} \cup {r.rel : r \in left}
<1>1. /\ store.npci.pay[p] \in Records
      /\ \A i \in Instances : mem[i].pay[p] \in Records /\ file[i].npci.pay[p] \in Records
  BY DEF IInv, Instance, SoundMem, SoundFile, SoundStore, SoundBundle, SoundPays
<1>2. left \subseteq Records
  BY <1>1
<1>3. S \subseteq Nat
  BY <1>2, Fields
<1>4. store.npci.pay[p] \in left /\ S # {}
  OBVIOUS
<1>5. \A f \in [Instances -> Nat] : \E b \in Nat : \A i \in Instances : f[i] <= b
  BY FiniteIsBounded, EdgePaymentsConstants
<1>6. PICK b1 \in Nat : \A i \in Instances : mem[i].pay[p].conf <= b1
  <2>1. [i \in Instances |-> mem[i].pay[p].conf] \in [Instances -> Nat]
    BY <1>1, Fields
  <2>2. QED
    BY <1>5, <2>1
<1>7. PICK b2 \in Nat : \A i \in Instances : mem[i].pay[p].rel <= b2
  <2>1. [i \in Instances |-> mem[i].pay[p].rel] \in [Instances -> Nat]
    BY <1>1, Fields
  <2>2. QED
    BY <1>5, <2>1
<1>8. PICK b3 \in Nat : \A i \in Instances : file[i].npci.pay[p].conf <= b3
  <2>1. [i \in Instances |-> file[i].npci.pay[p].conf] \in [Instances -> Nat]
    BY <1>1, Fields
  <2>2. QED
    BY <1>5, <2>1
<1>9. PICK b4 \in Nat : \A i \in Instances : file[i].npci.pay[p].rel <= b4
  <2>1. [i \in Instances |-> file[i].npci.pay[p].rel] \in [Instances -> Nat]
    BY <1>1, Fields
  <2>2. QED
    BY <1>5, <2>1
<1>10. PICK b \in Nat : b = b1 + b2 + b3 + b4 + store.npci.pay[p].conf + store.npci.pay[p].rel
  BY <1>1, Fields
<1>11. \A r \in left : r.conf <= b /\ r.rel <= b
  <2>1. store.npci.pay[p].conf \in Nat /\ store.npci.pay[p].rel \in Nat
    BY <1>1, Fields
  <2>2. \A i \in Instances : /\ mem[i].pay[p].conf \in Nat /\ mem[i].pay[p].rel \in Nat
                             /\ file[i].npci.pay[p].conf \in Nat /\ file[i].npci.pay[p].rel \in Nat
    BY <1>1, Fields
  <2>3. store.npci.pay[p].conf <= b /\ store.npci.pay[p].rel <= b
    BY <1>10, <2>1
  <2>4. \A i \in Instances : mem[i].pay[p].conf <= b /\ mem[i].pay[p].rel <= b
    BY <1>6, <1>7, <1>10, <2>1, <2>2
  <2>5. \A i \in Instances : file[i].npci.pay[p].conf <= b /\ file[i].npci.pay[p].rel <= b
    BY <1>8, <1>9, <1>10, <2>1, <2>2
  <2>6. QED
    BY <2>3, <2>4, <2>5
<1>12. \A x \in S : x <= b
  BY <1>11
<1>13. Max(S) \in S /\ \A x \in S : x <= Max(S)
  <2> HIDE DEF S
  <2>1. QED
    BY <1>3, <1>4, <1>12, LargestOfSet
<1>14. Now(p) = 1 + Max(S)
  BY DEF Now
<1>15. \A i \in Instances : mem[i].pay[p].conf \in S /\ mem[i].pay[p].rel \in S
  OBVIOUS
<1> HIDE DEF S
<1>16. Max(S) \in Nat
  BY <1>3, <1>13
<1>17. Now(p) \in Nat \ {0} /\ \A x \in S : x < Now(p)
  BY <1>3, <1>13, <1>14, <1>16
<1>18. \A i \in Instances : Stamp(mem[i].pay[p]) \in S
  BY <1>15 DEF Stamp
<1>19. \A x \in S : Now(p) > x
  BY <1>3, <1>17
<1>20. QED
  BY <1>15, <1>17, <1>18, <1>19
-----------------------------------------------------------------------------
(* A step of one instance *)

\* The loads, saves and handlers of an instance leave no copy behind what its file held.
Keeps(i) ==
    \A p \in Payments : /\ Stamp(mem'[i].pay[p]) >= Stamp(file[i].npci.pay[p])
                        /\ Stamp(file'[i].npci.pay[p]) >= Stamp(file[i].npci.pay[p])

\* What is said of the payments as a whole, and of the rail.
Shared ==
    /\ SoundStore(store, issued, vouched) /\ SoundRail(rail) /\ SoundHistory(moved, vouched)
    /\ psp \subseteq vouched /\ vouched \subseteq issued /\ issued \subseteq Payments
    /\ funds \in Nat /\ requests \in 0..MaxRequests /\ recycles \in 0..MaxRecycles

\* The stamps of the copies of an instance are numbers.
LEMMA FileStamps ==
    ASSUME IInv, NEW i \in Instances, NEW p \in Payments
    PROVE  Stamp(file[i].npci.pay[p]) \in Nat /\ Stamp(mem[i].pay[p]) \in Nat
<1>1. file[i].npci.pay[p] \in Records /\ mem[i].pay[p] \in Records
  BY DEF IInv, Instance, SoundMem, SoundFile, SoundBundle, SoundPays
<1>2. QED
  BY <1>1, Fields

\* One instance steps and the others stay: what is to be shown is about the one.
LEMMA OneInstance ==
    ASSUME IInv, NEW i \in Instances, NEW m, NEW f, NEW j,
           mem' = [mem EXCEPT ![i] = m], file' = [file EXCEPT ![i] = f], job' = [job EXCEPT ![i] = j],
           issued \subseteq issued', vouched \subseteq vouched',
           Instance(m, f, j, issued', vouched'), Shared'
    PROVE  /\ IInv'
           /\ Ahead(m, file[i]) /\ (f = file[i] \/ f.npci.pay = m.pay) => \A k \in Instances : Keeps(k)
<1>1. /\ mem' = [k \in Instances |-> mem'[k]] /\ file' = [k \in Instances |-> file'[k]]
      /\ job' = [k \in Instances |-> job'[k]]
  BY DEF IInv
<1>2. mem'[i] = m /\ file'[i] = f /\ job'[i] = j
  BY DEF IInv
<1>3. \A k \in Instances \ {i} : mem'[k] = mem[k] /\ file'[k] = file[k] /\ job'[k] = job[k]
  BY DEF IInv
<1>4. ASSUME NEW k \in Instances \ {i} PROVE Instance(mem'[k], file'[k], job'[k], issued', vouched')
  <2>1. Instance(mem[k], file[k], job[k], issued, vouched)
    BY DEF IInv
  <2>2. Instance(mem[k], file[k], job[k], issued', vouched')
    BY <2>1, BundleGrows DEF Instance
  <2>3. QED
    BY <1>3, <2>2
<1>5. \A k \in Instances : Instance(mem'[k], file'[k], job'[k], issued', vouched')
  BY <1>2, <1>4
<1>6. IInv'
  BY <1>1, <1>5 DEF IInv, Shared
<1>7. ASSUME Ahead(m, file[i]), f = file[i] \/ f.npci.pay = m.pay PROVE \A k \in Instances : Keeps(k)
  <2>1. ASSUME NEW k \in Instances \ {i} PROVE Keeps(k)
    <3>1. Instance(mem[k], file[k], job[k], issued, vouched)
      BY DEF IInv
    <3>2. QED
      BY <1>3, <3>1, FileStamps DEF Instance, Ahead, Keeps
  <2>2. Keeps(i)
    <3>1. \A p \in Payments : Stamp(m.pay[p]) >= Stamp(file[i].npci.pay[p])
      BY <1>7 DEF Ahead
    <3>2. \A p \in Payments : Stamp(f.npci.pay[p]) >= Stamp(file[i].npci.pay[p])
      BY <1>7, <3>1, FileStamps
    <3>3. QED
      BY <1>2, <3>1, <3>2 DEF Keeps
  <2>3. QED
    BY <2>1, <2>2
<1>8. QED
  BY <1>6, <1>7

Rewritten(f, m) == [f EXCEPT !.npci = Bundle(m), !.on = TRUE, !.hasIdem = FALSE]
\* The bundle, the file and the rows an instance writes are as sound as its memory.
LEMMA SavedIsSound ==
    ASSUME NEW I, NEW M, NEW m, SoundMem(m, I, M), NEW s, SoundStore(s, I, M)
    PROVE  /\ SoundFile([npci |-> Bundle(m), on |-> TRUE, idem |-> m.idem, hasIdem |-> TRUE, bal |-> m.bal], I, M)
           /\ SoundStore([s EXCEPT !.bal = Over(m.bal, @)], I, M)
           /\ SoundStore([s EXCEPT !.npci = Bundle(m)], I, M)
           /\ Bundle(m).pay = m.pay
<1>1. SoundBundle(Bundle(m), I, M) /\ Bundle(m).pay = m.pay
  BY DEF SoundMem, SoundBundle, Bundle
<1>2. Counts(Over(m.bal, s.bal))
  BY OverCounts DEF SoundMem, SoundStore
<1>3. SoundFile([npci |-> Bundle(m), on |-> TRUE, idem |-> m.idem, hasIdem |-> TRUE, bal |-> m.bal], I, M)
  BY <1>1 DEF SoundFile, SoundMem
<1>4. SoundStore([s EXCEPT !.bal = Over(m.bal, @)], I, M)
  BY <1>2 DEF SoundStore
<1>5. SoundStore([s EXCEPT !.npci = Bundle(m)], I, M)
  BY <1>1 DEF SoundStore
<1>6. QED
  BY <1>1, <1>3, <1>4, <1>5

\* A file that took over the bundle of a sound memory is sound.
LEMMA RewrittenIsSound ==
    ASSUME NEW I, NEW M, NEW m, SoundMem(m, I, M), NEW f, SoundFile(f, I, M)
    PROVE  SoundFile(Rewritten(f, m), I, M) /\ Rewritten(f, m).npci = Bundle(m)
<1>1. SoundBundle(Bundle(m), I, M)
  BY DEF SoundMem, SoundBundle, Bundle
<1>2. PICK g : g = Rewritten(f, m)
  OBVIOUS
<1>3. SoundFile(g, I, M) /\ g.npci = Bundle(m)
  BY <1>1, <1>2 DEF SoundFile, Rewritten
<1>4. QED
  BY <1>2, <1>3

\* A handler of instance i leaves memory m, in which only the copy of p is new, saves
\* it or does not, and has todo left.
LEMMA Handled ==
    ASSUME IInv, NEW i \in Instances, NEW p \in Payments, NEW r, NEW m, NEW ps, NEW todo \in Seq(Steps),
           mem' = [mem EXCEPT ![i] = m],
           Unsaved \/ saveAllPersisted(i, m),
           Then(i, ps, todo),
           m = [pay |-> [mem[i].pay EXCEPT ![p] = r], purse |-> m.purse, idem |-> m.idem, bal |-> m.bal],
           Counts(m.purse), Counts(m.bal),
           SoundCopy(r, p, issued', vouched'), Stamp(r) >= Stamp(file[i].npci.pay[p]),
           ps \subseteq Payments, (\E n \in 1..Len(todo) : todo[n] = "rail") => ps \subseteq vouched',
           issued \subseteq issued', vouched \subseteq vouched', vouched' \subseteq issued', issued' \subseteq Payments,
           SoundHistory(moved', vouched'), UNCHANGED <<psp, rail, bounds>>
    PROVE  IInv' /\ \A k \in Instances : Keeps(k)
<1>1. Instance(mem[i], file[i], job[i], issued, vouched) /\ Shared
  BY DEF IInv, Shared
<1>2. m.pay = [mem[i].pay EXCEPT ![p] = r]
  OBVIOUS
<1>3. SoundPays(m.pay, issued', vouched')
  BY <1>1, <1>2, PayWritten DEF Instance, SoundMem
<1>4. SoundMem(m, issued', vouched')
  BY <1>2, <1>3 DEF SoundMem
<1>5. Ahead(m, file[i])
  <2>1. SUFFICES ASSUME NEW q \in Payments PROVE Stamp(m.pay[q]) >= Stamp(file[i].npci.pay[q])
    BY DEF Ahead
  <2>2. CASE q = p
    BY <2>2, <1>1, <1>2 DEF Instance, SoundMem, SoundPays
  <2>3. CASE q # p
    <3>1. m.pay[q] = mem[i].pay[q]
      BY <2>3, <1>1, <1>2 DEF Instance, SoundMem, SoundPays
    <3>2. QED
      BY <3>1, <1>1 DEF Instance, Ahead
  <2>4. QED
    BY <2>2, <2>3
<1>6. PICK j : j = IdleOr(ps, todo) /\ job' = [job EXCEPT ![i] = j]
  BY DEF Then, IdleOr
<1>7. SoundJob(j, vouched')
  BY <1>6, ThenIsSound
<1>8. SoundFile(file[i], issued', vouched') /\ SoundStore(store, issued', vouched')
  BY <1>1, BundleGrows DEF Instance, Shared
<1>9. psp' \subseteq vouched' /\ SoundRail(rail') /\ funds' \in Nat /\ requests' \in 0..MaxRequests /\ recycles' \in 0..MaxRecycles
  BY <1>1 DEF Shared, bounds
<1>10. CASE Unsaved
  <2>1. file' = [file EXCEPT ![i] = file[i]] /\ store' = store
    BY <1>10 DEF Unsaved, IInv
  <2>2. Instance(m, file[i], j, issued', vouched')
    BY <1>4, <1>5, <1>7, <1>8 DEF Instance
  <2>3. Shared'
    BY <2>1, <1>8, <1>9 DEF Shared
  <2>4. QED
    BY <1>5, <1>6, <2>1, <2>2, <2>3, OneInstance
<1>11. CASE saveAllPersisted(i, m)
  <2>1. PICK f : f = [npci |-> Bundle(m), on |-> TRUE, idem |-> m.idem, hasIdem |-> TRUE, bal |-> m.bal]
    OBVIOUS
  <2>2. file' = [file EXCEPT ![i] = f] /\ store' = [store EXCEPT !.bal = Over(m.bal, @)]
    BY <1>11, <2>1 DEF saveAllPersisted
  <2>3. SoundFile(f, issued', vouched') /\ SoundStore(store', issued', vouched') /\ f.npci.pay = m.pay
    <3>1. /\ SoundFile([npci |-> Bundle(m), on |-> TRUE, idem |-> m.idem, hasIdem |-> TRUE, bal |-> m.bal], issued', vouched')
          /\ SoundStore([store EXCEPT !.bal = Over(m.bal, @)], issued', vouched')
          /\ Bundle(m).pay = m.pay
      BY <1>4, <1>8, SavedIsSound
    <3>2. f.npci = Bundle(m)
      BY <2>1
    <3>3. QED
      BY <2>1, <2>2, <3>1, <3>2, Zenon
  <2>4. Ahead(m, f)
    <3>1. \A q \in Payments : Stamp(m.pay[q]) \in Nat
      BY <1>3, Fields DEF SoundPays
    <3>2. QED
      BY <2>3, <3>1 DEF Ahead
  <2>5. Instance(m, f, j, issued', vouched')
    BY <1>4, <1>7, <2>3, <2>4 DEF Instance
  <2>6. Shared'
    BY <2>3, <1>9 DEF Shared
  <2>7. QED
    BY <1>5, <1>6, <2>2, <2>3, <2>5, <2>6, OneInstance
<1>12. QED
  BY <1>10, <1>11

\* The forms in which the handlers write.
LEMMA RecordForms ==
    ASSUME NEW x, x = [pay |-> x.pay, purse |-> x.purse, idem |-> x.idem, bal |-> x.bal], NEW p, NEW r, NEW e,
           NEW y, y = [x EXCEPT !.pay[p] = r] \/ y = [x EXCEPT !.pay[p] = r, !.idem = e]
    PROVE  /\ y = [pay |-> [x.pay EXCEPT ![p] = r], purse |-> y.purse, idem |-> y.idem, bal |-> y.bal]
           /\ y.purse = x.purse /\ y.bal = x.bal
<1>1. y.pay = [x.pay EXCEPT ![p] = r] /\ y.purse = x.purse /\ y.bal = x.bal
  OBVIOUS
<1>2. y = [pay |-> y.pay, purse |-> y.purse, idem |-> y.idem, bal |-> y.bal]
  OBVIOUS
<1>3. QED
  BY <1>1, <1>2

\* m is the memory of i with r as its copy of p.
Wrote(i, p, r, m) == m = [mem[i] EXCEPT !.pay[p] = r] \/ \E key : m = With(i, p, r, key)
\* Such a memory is the old one but for the copy of p and the keys.
LEMMA Forms ==
    ASSUME IInv, NEW i \in Instances, NEW p, NEW r, NEW m, Wrote(i, p, r, m)
    PROVE  /\ m = [pay |-> [mem[i].pay EXCEPT ![p] = r], purse |-> m.purse, idem |-> m.idem, bal |-> m.bal]
           /\ m.purse = mem[i].purse /\ m.bal = mem[i].bal
           /\ Counts(m.purse) /\ Counts(m.bal)
<1>1. SoundMem(mem[i], issued, vouched)
  BY DEF IInv, Instance
<1>2. PICK x : x = mem[i]
  OBVIOUS
<1>3. x = [pay |-> x.pay, purse |-> x.purse, idem |-> x.idem, bal |-> x.bal]
  BY <1>1, <1>2 DEF SoundMem
<1>5. PICK e : m = [x EXCEPT !.pay[p] = r] \/ m = [x EXCEPT !.pay[p] = r, !.idem = e]
  BY <1>2 DEF Wrote, With
<1>6. m = [pay |-> [x.pay EXCEPT ![p] = r], purse |-> m.purse, idem |-> m.idem, bal |-> m.bal] /\ m.purse = x.purse /\ m.bal = x.bal
  BY <1>3, <1>5, RecordForms
<1>7. Counts(x.purse) /\ Counts(x.bal)
  BY <1>1, <1>2 DEF SoundMem
<1>8. QED
  BY <1>2, <1>6, <1>7

\* A handler that writes only the copy of p.
LEMMA HandledCopy ==
    ASSUME IInv, NEW i \in Instances, NEW p \in Payments, NEW r, NEW key, NEW todo \in Seq(Steps),
           Handle(i, p, r, todo) \/ HandleSaved(i, p, With(i, p, r, key), todo),
           SoundCopy(r, p, issued', vouched'), Stamp(r) >= Stamp(file[i].npci.pay[p]),
           \A n \in 1..Len(todo) : todo[n] # "rail",
           issued \subseteq issued', vouched \subseteq vouched', vouched' \subseteq issued', issued' \subseteq Payments
    PROVE  IInv' /\ \A k \in Instances : Keeps(k)
<1>1. PICK m : /\ Wrote(i, p, r, m)
               /\ mem' = [mem EXCEPT ![i] = m] /\ (Unsaved \/ saveAllPersisted(i, m))
               /\ Then(i, {p}, todo) /\ UNCHANGED <<psp, rail, moved, bounds>>
  <2>1. CASE Handle(i, p, r, todo)
    <3>1. PICK m : m = [mem[i] EXCEPT !.pay[p] = r]
      OBVIOUS
    <3>2. mem' = [mem EXCEPT ![i] = m]
      BY <2>1, <3>1 DEF Handle
    <3>3. Wrote(i, p, r, m)
      BY <3>1 DEF Wrote
    <3>4. QED
      BY <2>1, <3>2, <3>3 DEF Handle
  <2>2. CASE HandleSaved(i, p, With(i, p, r, key), todo)
    <3>1. PICK m : m = With(i, p, r, key)
      OBVIOUS
    <3>2. /\ mem' = [mem EXCEPT ![i] = m] /\ saveAllPersisted(i, m)
          /\ Then(i, {p}, todo) /\ UNCHANGED <<psp, rail, moved, bounds>>
      BY <2>2, <3>1, Zenon DEF HandleSaved
    <3>3. Wrote(i, p, r, m)
      BY <3>1, Zenon DEF Wrote
    <3>4. QED
      BY <3>2, <3>3, Zenon
  <2>3. QED
    BY <2>1, <2>2
<1>2. SoundHistory(moved', vouched')
  BY <1>1 DEF IInv, SoundHistory
<1>3. /\ m = [pay |-> [mem[i].pay EXCEPT ![p] = r], purse |-> m.purse, idem |-> m.idem, bal |-> m.bal]
      /\ Counts(m.purse) /\ Counts(m.bal)
  BY <1>1, Forms
<1>4. QED
  BY <1>1, <1>2, <1>3, Handled
Quick == {<<>>, <<"persist">>, <<"settle">>, <<"persist", "settle">>}
\* The todo lists that never ask the rail.
LEMMA QuickSteps == \A t \in Quick : t \in Seq(Steps) /\ \A n \in 1..Len(t) : t[n] # "rail"
<1>1. {"persist", "settle"} \subseteq Steps
  BY DEF Steps
<1>2. <<>> \in Seq(Steps) /\ \A n \in 1..Len(<<>>) : <<>>[n] # "rail"
  OBVIOUS
<1>3. <<"persist">> \in Seq(Steps) /\ \A n \in 1..Len(<<"persist">>) : <<"persist">>[n] # "rail"
  BY <1>1
<1>4. <<"settle">> \in Seq(Steps) /\ \A n \in 1..Len(<<"settle">>) : <<"settle">>[n] # "rail"
  BY <1>1
<1>5. <<"persist", "settle">> \in Seq(Steps)
      /\ \A n \in 1..Len(<<"persist", "settle">>) : <<"persist", "settle">>[n] # "rail"
  BY <1>1
<1>6. QED
  BY <1>2, <1>3, <1>4, <1>5 DEF Quick

\* What an instance's own copy of a payment satisfies.
LEMMA OwnCopy ==
    ASSUME IInv, NEW i \in Instances, NEW p \in Payments
    PROVE  /\ Pay(i, p) \in Records /\ SoundCopy(Pay(i, p), p, issued, vouched)
           /\ Stamp(Pay(i, p)) \in Nat /\ Stamp(file[i].npci.pay[p]) \in Nat
           /\ Stamp(Pay(i, p)) >= Stamp(file[i].npci.pay[p])
           /\ Known(i, p) => p \in issued
           /\ Pay(i, p).st # "none" => Known(i, p)
<1>1. SoundMem(mem[i], issued, vouched) /\ Ahead(mem[i], file[i])
  BY DEF IInv, Instance
<1>2. SoundCopy(Pay(i, p), p, issued, vouched) /\ Pay(i, p) \in Records
  BY <1>1 DEF SoundMem, SoundPays, Pay
<1>3. Stamp(Pay(i, p)) >= Stamp(file[i].npci.pay[p])
  BY <1>1 DEF Ahead, Pay
<1>4. Known(i, p) => p \in issued
  BY <1>2 DEF SoundCopy, Known
<1>5. Pay(i, p).st # "none" => Known(i, p)
  BY NoPayRecord DEF Known
<1>6. QED
  BY <1>2, <1>3, <1>4, <1>5, FileStamps DEF Pay

\* A copy a request's body brings is one of some kind; it is taken only where there is none.
LEMMA BroughtCopy ==
    ASSUME IInv, NEW i \in Instances, NEW p \in Payments, NEW r \in BodyCopies(p), ~Known(i, p)
    PROVE  r \in Records /\ Stamp(r) \in Nat /\ Stamp(r) >= Stamp(file[i].npci.pay[p])
<1>1. r \in Records
  <2>1. \A k \in Instances : mem[k].pay[p] \in Records
    BY OwnCopy DEF Pay
  <2>2. \A x \in Bodies : x \in Records
    BY EdgePaymentsConstants
  <2>3. QED
    BY <2>1, <2>2 DEF BodyCopies
<1>2. Stamp(Pay(i, p)) = 0
  BY NoPayRecord DEF Known
<1>3. QED
  BY <1>1, <1>2, OwnCopy, Fields

\* The copy a handler works on, its own or the one the body brought.
LEMMA HealedCopy ==
    ASSUME IInv, NEW i \in Instances, NEW p \in Payments, NEW r \in Healed(i, p)
    PROVE  r \in Records /\ Stamp(r) \in Nat /\ Stamp(r) >= Stamp(file[i].npci.pay[p])
<1>1. CASE Known(i, p)
  BY <1>1, OwnCopy DEF Healed
<1>2. CASE ~Known(i, p)
  BY <1>2, BroughtCopy DEF Healed
<1>3. QED
  BY <1>1, <1>2

Grows(p) ==
    /\ p \in issued' /\ issued \subseteq issued' /\ vouched \subseteq vouched'
    /\ vouched' \subseteq issued' /\ issued' \subseteq Payments
\* A payment that is taken is issued from then on, and vouched for as it says.
LEMMA TakenGrows ==
    ASSUME IInv, NEW p \in Payments, NEW r, Takes(p, r)
    PROVE  /\ Grows(p) /\ (r.st \in Late => p \in vouched')
           /\ issued' = issued \cup {p} /\ vouched' \in {vouched, vouched \cup {p}}
<1>1. issued' = issued \cup {p} /\ vouched' = vouched \cup IF r.st \in Late THEN {p} ELSE {}
  BY DEF Takes
<1>2. vouched \subseteq issued /\ issued \subseteq Payments
  BY DEF IInv
<1>3. vouched' = vouched \/ vouched' = vouched \cup {p}
  BY <1>1
<1>4. QED
  BY <1>1, <1>2, <1>3 DEF Grows

\* A status that says the money is there vouches for the payment.
LEMMA WordGrows ==
    ASSUME IInv, NEW p \in issued, NEW st, Word(p, st)
    PROVE  /\ Grows(p) /\ (st \in Late => p \in vouched')
           /\ issued' = issued /\ vouched' \in {vouched, vouched \cup {p}}
<1>1. issued' = issued /\ vouched' = vouched \cup IF st \in Late THEN {p} ELSE {}
  BY DEF Word, Vouched
<1>2. vouched \subseteq issued /\ issued \subseteq Payments
  BY DEF IInv
<1>3. vouched' = vouched \/ vouched' = vouched \cup {p}
  BY <1>1
<1>4. QED
  BY <1>1, <1>2, <1>3 DEF Grows

\* A new status is sound if the payment exists and, for one that means money, is vouched for.
LEMMA SoundRestated ==
    ASSUME NEW I, NEW M, NEW p \in I, NEW r \in Records, NEW s \in Statuses, s \in Late => p \in M
    PROVE  SoundCopy([r EXCEPT !.st = s], p, I, M)
BY Restated DEF SoundCopy

\* A copy stays sound under another provider,
LEMMA SoundReprovided ==
    ASSUME NEW I, NEW M, NEW p \in I, NEW r \in Records, SoundCopy(r, p, I, M), NEW v \in {"payu", "setu", "icici"}
    PROVE  SoundCopy([r EXCEPT !.prov = v], p, I, M)
BY Reprovided DEF SoundCopy

\* and confirmed, if somebody vouched for it.
LEMMA SoundConfirmed ==
    ASSUME NEW I, NEW M, NEW p \in I \cap M, NEW r \in Records, NEW t \in Nat \ {0}
    PROVE  SoundCopy(Confirmed(r, t), p, I, M)
BY ConfirmedCopy DEF SoundCopy
-----------------------------------------------------------------------------
(* The handlers *)

\* A handler that issues nothing, vouches for nothing and never asks the rail.
LEMMA QuietHandler ==
    ASSUME IInv, NEW i \in Instances, NEW p \in Payments, NEW r, NEW key, NEW todo \in Quick, Same,
           Handle(i, p, r, todo) \/ HandleSaved(i, p, With(i, p, r, key), todo),
           SoundCopy(r, p, issued, vouched), Stamp(r) >= Stamp(file[i].npci.pay[p])
    PROVE  IInv' /\ \A k \in Instances : Keeps(k)
<1>1. issued' = issued /\ vouched' = vouched /\ vouched \subseteq issued /\ issued \subseteq Payments
  BY DEF Same, IInv
<1>2. SoundCopy(r, p, issued', vouched')
  BY <1>1
<1>3. QED
  BY <1>1, <1>2, HandledCopy, QuickSteps

\* A handler that takes what it is told, and never asks the rail.
LEMMA ToldHandler ==
    ASSUME IInv, NEW i \in Instances, NEW p \in Payments, NEW r \in Records, NEW key, NEW todo \in Quick, Grows(p),
           Handle(i, p, r, todo) \/ HandleSaved(i, p, With(i, p, r, key), todo),
           r.st \in Late => p \in vouched', Stamp(r) >= Stamp(file[i].npci.pay[p])
    PROVE  IInv' /\ \A k \in Instances : Keeps(k)
<1>1. SoundCopy(r, p, issued', vouched')
  BY DEF SoundCopy, Grows
<1>2. QED
  BY <1>1, HandledCopy, QuickSteps DEF Grows

\* What a provider's report makes of this instance's copy.
LEMMA ReportedCopy ==
    ASSUME IInv, NEW i \in Instances, NEW p \in issued, NEW s \in Reports(p)
    PROVE  LET r == AfterReport(p, Pay(i, p), s)
           IN  r \in Records /\ SoundCopy(r, p, issued, vouched) /\ Stamp(r) >= Stamp(file[i].npci.pay[p])
<1>1. p \in Payments /\ psp \subseteq vouched
  BY DEF IInv
<1>2. /\ Pay(i, p) \in Records /\ SoundCopy(Pay(i, p), p, issued, vouched)
      /\ Stamp(Pay(i, p)) \in Nat /\ Stamp(file[i].npci.pay[p]) \in Nat
      /\ Stamp(Pay(i, p)) >= Stamp(file[i].npci.pay[p])
      /\ Now(p) \in Nat \ {0} /\ Now(p) > Stamp(Pay(i, p))
  BY <1>1, OwnCopy, NowIsLater DEF Pay
<1>3. CASE s = "success" /\ Pay(i, p).st = "PENDING"
  <2>1. p \in vouched
    BY <1>1, <1>3 DEF Reports
  <2>2. AfterReport(p, Pay(i, p), s) = Confirmed(Pay(i, p), Now(p))
    BY <1>3 DEF AfterReport
  <2>3. SoundCopy(Confirmed(Pay(i, p), Now(p)), p, issued, vouched)
    BY <1>2, <2>1, SoundConfirmed
  <2>4. Confirmed(Pay(i, p), Now(p)) \in Records /\ Stamp(Confirmed(Pay(i, p), Now(p))) = Now(p)
    BY <1>2, ConfirmedCopy
  <2>5. QED
    BY <1>2, <2>2, <2>3, <2>4
<1>4. CASE s = "failure" /\ Pay(i, p).st = "PENDING"
  <2>1. AfterReport(p, Pay(i, p), s) = [Pay(i, p) EXCEPT !.st = "DECLINED"]
    BY <1>4 DEF AfterReport
  <2>2. PICK x : x = [Pay(i, p) EXCEPT !.st = "DECLINED"]
    OBVIOUS
  <2>3. x \in Records /\ Stamp(x) = Stamp(Pay(i, p))
    BY <1>2, <2>2, Restated DEF Statuses
  <2>4. SoundCopy(x, p, issued, vouched)
    BY <1>2, <2>2, SoundRestated DEF Statuses, Late
  <2>5. QED
    BY <1>2, <2>1, <2>2, <2>3, <2>4
<1>5. CASE ~(s \in {"success", "failure"} /\ Pay(i, p).st = "PENDING")
  <2>1. AfterReport(p, Pay(i, p), s) = Pay(i, p)
    BY <1>5 DEF AfterReport
  <2>2. QED
    BY <1>2, <2>1
<1>6. QED
  BY <1>3, <1>4, <1>5

\* A new payment has no copy anywhere and nobody vouched for it.
LEMMA CollectKeeps ==
    ASSUME IInv, NEW i \in Instances, NEW p \in Payments, NEW k, Collect(i, k, p)
    PROVE  IInv' /\ \A x \in Instances : Keeps(x)
<1>1. /\ p \notin issued /\ issued' = issued \cup {p} /\ vouched' = vouched
      /\ Unsaved /\ UNCHANGED <<psp, rail, moved, bounds>>
  BY DEF Collect
<1> DEFINE Makes(st, key, todo) == mem' = [mem EXCEPT ![i] = With(i, p, Collected(st), key)] /\ Then(i, {p}, todo)
<1>2. PICK st \in {"PENDING", "FAILED_KYC_NOT_VERIFIED", "FAILED_FRAUD_BLOCKED"}, todo \in Quick :
        \E key : Makes(st, key, todo)
  <2>1. <<"persist">> \in Quick /\ <<>> \in Quick
    BY DEF Quick
  <2>2. \/ Makes("PENDING", {<<k>>}, <<"persist">>) \/ Makes("FAILED_KYC_NOT_VERIFIED", {<<k>>}, <<>>)
        \/ Makes("FAILED_FRAUD_BLOCKED", {}, <<"persist">>)
    BY Zenon DEF Collect
  <2> HIDE DEF Makes
  <2>3. QED
    BY <2>1, <2>2
<1>a. PICK key : Makes(st, key, todo)
  BY <1>2
<1>3. PICK m : m = With(i, p, Collected(st), key)
  OBVIOUS
<1>4. Wrote(i, p, Collected(st), m) /\ mem' = [mem EXCEPT ![i] = m]
  BY <1>a, <1>3, Zenon DEF Wrote
<1>5. st \in Statuses \ Late /\ Collected(st) = [NoPay EXCEPT !.st = st]
  BY DEF Statuses, Failed, Late, Collected
<1>6. Collected(st) \in Records /\ Collected(st).st = st /\ Stamp(Collected(st)) = 0
  BY <1>5, Restated, NoPayRecord
<1>7. SoundCopy(Collected(st), p, issued', vouched')
  BY <1>1, <1>5, <1>6 DEF SoundCopy
<1>8. Stamp(Collected(st)) >= Stamp(file[i].npci.pay[p])
  BY <1>1, <1>6, OwnCopy, NoPayRecord DEF Known
<1>9. /\ m = [pay |-> [mem[i].pay EXCEPT ![p] = Collected(st)], purse |-> m.purse, idem |-> m.idem, bal |-> m.bal]
      /\ Counts(m.purse) /\ Counts(m.bal)
  BY <1>4, Forms
<1>10. issued \subseteq issued' /\ vouched \subseteq vouched' /\ vouched' \subseteq issued' /\ issued' \subseteq Payments
  BY <1>1 DEF IInv
<1>11. SoundHistory(moved', vouched')
  BY <1>1 DEF IInv
<1>12. todo \in Seq(Steps) /\ \A n \in 1..Len(todo) : todo[n] # "rail"
  BY QuickSteps
<1>13. QED
  BY <1>1, <1>a, <1>4, <1>7, <1>8, <1>9, <1>10, <1>11, <1>12, Handled

\* A callback reports success, or an amount, only of what was paid at the provider.
LEMMA PayuCallbackKeeps ==
    ASSUME IInv, NEW i \in Instances, NEW p \in Payments, NEW s, PayuCallback(i, p, s)
    PROVE  IInv' /\ \A x \in Instances : Keeps(x)
<1>1. p \in issued /\ Same /\ s \in Reports(p) /\ Pay(i, p) \in Records /\ Now(p) \in Nat \ {0}
  BY OwnCopy, NowIsLater DEF PayuCallback
<1>2. PICK q : q = AfterReport(p, Pay(i, p), s)
  OBVIOUS
<1>3. q \in Records /\ SoundCopy(q, p, issued, vouched) /\ Stamp(q) >= Stamp(file[i].npci.pay[p])
  BY <1>1, <1>2, ReportedCopy
<1>4. PICK r \in Records : r = [q EXCEPT !.prov = "payu"]
  BY <1>3, Reprovided
<1>5. SoundCopy(r, p, issued, vouched) /\ Stamp(r) >= Stamp(file[i].npci.pay[p])
  BY <1>1, <1>3, <1>4, Reprovided, SoundReprovided
<1>6. CASE s = "mismatch"
  <2>1. PICK t : t = [r EXCEPT !.st = "FAILED_AMOUNT_MISMATCH"]
    OBVIOUS
  <2>2. SoundCopy(t, p, issued, vouched) /\ Stamp(t) >= Stamp(file[i].npci.pay[p])
    BY <1>1, <1>5, <2>1, Restated, SoundRestated DEF Statuses, Failed, Late
  <2>3. Handle(i, p, t, <<"persist">>)
    BY <1>2, <1>4, <1>6, <2>1 DEF PayuCallback
  <2>4. QED
    BY <1>1, <2>2, <2>3, QuietHandler DEF Quick
<1>7. CASE s # "mismatch"
  <2>1. PICK todo \in Quick : HandleSaved(i, p, With(i, p, r, {<<"payu", p, s>>}), todo)
    BY <1>2, <1>4, <1>7 DEF PayuCallback, Quick
  <2>2. QED
    BY <1>1, <1>5, <2>1, QuietHandler
<1>8. QED
  BY <1>6, <1>7

\* So does the provider when it is asked.
LEMMA ReconcileKeeps ==
    ASSUME IInv, NEW i \in Instances, NEW p \in Payments, NEW s, Reconcile(i, p, s)
    PROVE  IInv' /\ \A x \in Instances : Keeps(x)
<1>1. p \in issued /\ Same /\ s \in Reports(p) /\ Pay(i, p) \in Records
  BY OwnCopy DEF Reconcile
<1>2. PICK r : r = IF Pay(i, p).st = "PENDING" /\ s = "mismatch" THEN [Pay(i, p) EXCEPT !.st = "FAILED_AMOUNT_MISMATCH"]
                   ELSE AfterReport(p, Pay(i, p), s)
  OBVIOUS
<1>3. SoundCopy(r, p, issued, vouched) /\ Stamp(r) >= Stamp(file[i].npci.pay[p])
  BY <1>1, <1>2, OwnCopy, ReportedCopy, Restated, SoundRestated, ZenonT(90) DEF Statuses, Failed, Late
<1>4. PICK todo \in Quick : todo = IF r.st = "CONFIRMED" THEN <<"settle">> ELSE <<>>
  BY DEF Quick
<1>5. Handle(i, p, r, todo) \/ HandleSaved(i, p, With(i, p, r, {}), todo)
  BY <1>2, <1>4 DEF Reconcile
<1>6. QED
  BY <1>1, <1>3, <1>5, QuietHandler

\* The settle route takes the copy a body brings only where there is none of its own.
LEMMA SettleRouteKeeps ==
    ASSUME IInv, NEW i \in Instances, NEW p \in Payments, SettleRoute(i, p)
    PROVE  IInv' /\ \A x \in Instances : Keeps(x)
<1>1. PICK r \in Healed(i, p) : Handle(i, p, r, <<"settle">>) /\ Takes(p, r)
  BY DEF SettleRoute
<1>2. QED
  BY <1>1, HealedCopy, TakenGrows, ToldHandler DEF Quick

\* Reading, declining and timing out write a status that needs nobody's word.
LEMMA GetKeeps ==
    ASSUME IInv, NEW i \in Instances, NEW p \in Payments, Get(i, p) \/ Decline(i, p) \/ Timeout(i, p)
    PROVE  IInv' /\ \A x \in Instances : Keeps(x)
<1>1. PICK st \in {"EXPIRED", "DECLINED"} : Handle(i, p, [Pay(i, p) EXCEPT !.st = st], <<>>)
  BY Zenon DEF Get, Decline, Timeout
<1>2. p \in issued /\ Same
  BY OwnCopy DEF Get, Decline, Timeout
<1>3. PICK r : r = [Pay(i, p) EXCEPT !.st = st]
  OBVIOUS
<1>4. SoundCopy(r, p, issued, vouched) /\ Stamp(r) >= Stamp(file[i].npci.pay[p])
  BY <1>2, <1>3, OwnCopy, Restated, SoundRestated, ZenonT(90) DEF Statuses, Late
<1>5. QED
  BY <1>1, <1>2, <1>3, <1>4, QuietHandler DEF Quick

\* A copy is reattached only where there is none.
LEMMA ReattachKeeps ==
    ASSUME IInv, NEW i \in Instances, NEW p \in Payments, Reattach(i, p)
    PROVE  IInv' /\ \A x \in Instances : Keeps(x)
<1>1. PICK r \in BodyCopies(p) : Handle(i, p, r, <<"persist">>) /\ Takes(p, r) /\ ~Known(i, p)
  BY DEF Reattach
<1>2. QED
  BY <1>1, BroughtCopy, TakenGrows, ToldHandler DEF Quick

\* So is a payment on a transfer's receipt.
LEMMA TransferReceiptKeeps ==
    ASSUME IInv, NEW i \in Instances, NEW p \in Payments, NEW st, TransferReceipt(i, p, st)
    PROVE  IInv' /\ \A x \in Instances : Keeps(x)
<1>1. PICK q : q = Collected(st)
  OBVIOUS
<1>2. ~Known(i, p) /\ st \in Late /\ st \in Statuses
  BY DEF TransferReceipt, Late, Statuses
<1>3. q \in Records /\ Stamp(q) = 0 /\ q.st = st
  BY <1>1, <1>2, Restated, NoPayRecord DEF Collected
<1>a. PICK r : r = [q EXCEPT !.prov = "setu"]
  OBVIOUS
<1>4. r \in Records /\ r = [q EXCEPT !.prov = "setu"] /\ Stamp(r) = 0
  BY <1>3, <1>a, Reprovided
<1>5. Takes(p, r) /\ (Handle(i, p, r, <<>>) \/ HandleSaved(i, p, With(i, p, r, {}), <<>>))
  BY <1>1, <1>4, Zenon DEF TransferReceipt
<1>6. Stamp(r) >= Stamp(file[i].npci.pay[p])
  BY <1>2, <1>4, OwnCopy, NoPayRecord DEF Known
<1>7. QED
  BY <1>4, <1>5, <1>6, TakenGrows, ToldHandler DEF Quick

\* A refused approval writes a status that needs nobody's word, or keeps the body's.
LEMMA ApproveFailsKeeps ==
    ASSUME IInv, NEW i \in Instances, NEW p \in Payments, ApproveFails(i, p)
    PROVE  IInv' /\ \A x \in Instances : Keeps(x)
<1>1. PICK r \in Healed(i, p) :
        /\ Takes(p, r)
        /\ \/ Handle(i, p, r, <<>>)
           \/ \E st \in {"EXPIRED", "FAILED_KYC_NOT_VERIFIED", "FAILED_FRAUD_BLOCKED", "FAILED_INSUFFICIENT_FUNDS"},
                 todo \in Quick : Handle(i, p, [r EXCEPT !.st = st], todo)
  BY Zenon DEF ApproveFails, Quick
<1>2. r \in Records /\ Stamp(r) \in Nat /\ Stamp(r) >= Stamp(file[i].npci.pay[p])
  BY HealedCopy
<1>3. CASE Handle(i, p, r, <<>>)
  BY <1>1, <1>2, <1>3, TakenGrows, ToldHandler DEF Quick
<1>4. ASSUME NEW st \in {"EXPIRED", "FAILED_KYC_NOT_VERIFIED", "FAILED_FRAUD_BLOCKED", "FAILED_INSUFFICIENT_FUNDS"},
             NEW todo \in Quick, Handle(i, p, [r EXCEPT !.st = st], todo)
      PROVE  IInv' /\ \A x \in Instances : Keeps(x)
  <2>1. PICK x : x = [r EXCEPT !.st = st]
    OBVIOUS
  <2>2. st \in Statuses \ Late
    BY DEF Statuses, Failed, Late
  <2>3. x \in Records /\ x.st \notin Late /\ Stamp(x) = Stamp(r)
    BY <1>2, <2>1, <2>2, Restated
  <2>4. Handle(i, p, x, todo)
    BY <1>4, <2>1
  <2>5. QED
    BY <1>1, <1>2, <2>3, <2>4, TakenGrows, ToldHandler
<1>5. QED
  BY <1>1, <1>3, <1>4

\* An approval vouches for what it confirms.
LEMMA ApproveKeeps ==
    ASSUME IInv, NEW i \in Instances, NEW p \in Payments, Approve(i, p)
    PROVE  IInv' /\ \A x \in Instances : Keeps(x)
<1>1. PICK r \in Healed(i, p) :
        /\ Affords(mem[i]) /\ Takes(p, Confirmed(r, Now(p)))
        /\ HandleSaved(i, p, [With(i, p, Confirmed(r, Now(p)), {}) EXCEPT !.purse["payer"] = @ - 1], <<"persist">>)
  BY Zenon DEF Approve
<1>2. r \in Records /\ Now(p) \in Nat \ {0} /\ Now(p) > Stamp(Pay(i, p))
  BY HealedCopy, NowIsLater DEF Pay
<1>4. PICK c : c = Confirmed(r, Now(p))
  OBVIOUS
<1>3. Grows(p) /\ p \in vouched'
  <2>1. Takes(p, c) /\ c.st \in Late
    BY <1>1, <1>2, <1>4, ConfirmedCopy DEF Late
  <2>2. QED
    BY <2>1, TakenGrows
<1>5. SoundCopy(c, p, issued', vouched') /\ Stamp(c) >= Stamp(file[i].npci.pay[p])
  <2>1. SoundCopy(c, p, issued', vouched')
    BY <1>2, <1>3, <1>4, SoundConfirmed DEF Grows
  <2>2. Stamp(c) = Now(p)
    BY <1>2, <1>4, ConfirmedCopy
  <2>3. QED
    BY <1>2, <2>1, <2>2, OwnCopy
<1>6. PICK w : w = With(i, p, c, {})
  OBVIOUS
<1>7. Wrote(i, p, c, w)
  BY <1>6, Zenon DEF Wrote
<1>8. /\ w = [pay |-> [mem[i].pay EXCEPT ![p] = c], purse |-> w.purse, idem |-> w.idem, bal |-> w.bal]
      /\ w.purse = mem[i].purse /\ Counts(w.purse) /\ Counts(w.bal)
  BY <1>7, Forms
<1>9. PICK m : m = [w EXCEPT !.purse["payer"] = @ - 1]
  OBVIOUS
<1>10. /\ m.pay = [mem[i].pay EXCEPT ![p] = c] /\ m.bal = w.bal
       /\ m.purse = [w.purse EXCEPT !["payer"] = @ - 1]
       /\ m = [pay |-> m.pay, purse |-> m.purse, idem |-> m.idem, bal |-> m.bal]
  BY <1>8, <1>9
<1>11. Counts(m.purse) /\ Counts(m.bal)
  <2>1. "payer" \in DOMAIN w.purse => w.purse["payer"] - 1 \in Nat
    BY <1>1, <1>8 DEF Affords, Counts
  <2>2. PICK e : e = w.purse["payer"] - 1
    OBVIOUS
  <2>3. m.purse = [w.purse EXCEPT !["payer"] = e]
    BY <1>10, <2>2
  <2>4. Counts([w.purse EXCEPT !["payer"] = e])
    BY <1>8, <2>1, <2>2, SpentCounts
  <2>5. QED
    BY <1>8, <1>10, <2>3, <2>4
<1>12. /\ mem' = [mem EXCEPT ![i] = m] /\ saveAllPersisted(i, m) /\ Then(i, {p}, <<"persist">>)
       /\ UNCHANGED <<psp, rail, moved, bounds>>
  BY <1>1, <1>4, <1>6, <1>9, Zenon DEF HandleSaved
<1>13. issued \subseteq issued' /\ vouched \subseteq vouched' /\ vouched' \subseteq issued' /\ issued' \subseteq Payments
  BY <1>3 DEF Grows
<1>14. SoundHistory(moved', vouched')
  BY <1>12, <1>13 DEF IInv, SoundHistory
<1>15. m = [pay |-> [mem[i].pay EXCEPT ![p] = c], purse |-> m.purse, idem |-> m.idem, bal |-> m.bal]
  BY <1>10
<1>16. <<"persist">> \in Seq(Steps) /\ \A n \in 1..Len(<<"persist">>) : <<"persist">>[n] # "rail"
  BY QuickSteps DEF Quick
<1>17. QED
  BY <1>5, <1>11, <1>12, <1>13, <1>14, <1>15, <1>16, Handled

\* A callback writes the status it names.
LEMMA CallbackKeeps ==
    ASSUME IInv, NEW i \in Instances, NEW p \in Payments, NEW st \in Said, Callback(i, p, st)
    PROVE  IInv' /\ \A x \in Instances : Keeps(x)
<1>1. p \in issued /\ Word(p, st) /\ HandleSaved(i, p, With(i, p, [Pay(i, p) EXCEPT !.st = st], {}), <<>>)
  BY OwnCopy DEF Callback
<1>2. PICK r : r = [Pay(i, p) EXCEPT !.st = st]
  OBVIOUS
<1>3. st \in Statuses /\ Pay(i, p) \in Records
  BY EdgePaymentsConstants, OwnCopy
<1>4. r \in Records /\ r.st = st /\ Stamp(r) = Stamp(Pay(i, p))
  BY <1>2, <1>3, Restated
<1>5. HandleSaved(i, p, With(i, p, r, {}), <<>>)
  BY <1>1, <1>2
<1>6. QED
  BY <1>1, <1>4, <1>5, OwnCopy, WordGrows, ToldHandler DEF Quick

\* So does a webhook, stamped when it is the first to confirm.
LEMMA WebhookKeeps ==
    ASSUME IInv, NEW i \in Instances, NEW p \in Payments, NEW st \in Said, Webhook(i, p, st)
    PROVE  IInv' /\ \A x \in Instances : Keeps(x)
<1>1. /\ p \in issued /\ Word(p, st) /\ st \in Statuses /\ Pay(i, p) \in Records
      /\ Stamp(Pay(i, p)) >= Stamp(file[i].npci.pay[p]) /\ Stamp(file[i].npci.pay[p]) \in Nat
      /\ Now(p) \in Nat \ {0} /\ Now(p) > Stamp(Pay(i, p)) /\ Stamp(Pay(i, p)) \in Nat
  BY EdgePaymentsConstants, OwnCopy, NowIsLater DEF Webhook, Pay
<1>o. PICK o \in Records : o = Pay(i, p)
  BY <1>1
<1>2. PICK q \in Records : q = [o EXCEPT !.st = st] /\ q.st = st
  BY <1>1, Restated
<1>3. PICK r : r = [q EXCEPT !.prov = "setu"]
  OBVIOUS
<1>4. r \in Records /\ r = [q EXCEPT !.prov = "setu"] /\ r.st = st
  BY <1>2, <1>3, Reprovided
<1>6. r.conf = o.conf /\ r.rel = o.rel
  BY <1>2, <1>4 DEF Records
<1>7. PICK t : t = IF o.conf = 0 /\ st = "CONFIRMED" THEN Now(p) ELSE o.conf
  OBVIOUS
<1>8. PICK to : to = [r EXCEPT !.conf = t]
  OBVIOUS
<1>9. to = [o EXCEPT !.st = st, !.prov = "setu",
            !.conf = IF @ = 0 /\ st = "CONFIRMED" THEN Now(p) ELSE @]
  BY <1>2, <1>4, <1>7, <1>8 DEF Records
<1>10. HandleSaved(i, p, With(i, p, to, {}), <<"persist">>)
  BY <1>o, <1>9, Zenon DEF Webhook
<1>11. t \in Nat
  BY <1>1, <1>7, Fields
<1>12. to \in Records /\ to.st = st /\ to.conf = t /\ to.rel = r.rel
  BY <1>4, <1>8, <1>11 DEF Records
<1>13. Stamp(to) >= Stamp(Pay(i, p))
  BY <1>o, <1>1, <1>6, <1>7, <1>11, <1>12, Fields DEF Stamp
<1>14. Stamp(to) \in Nat /\ Stamp(to) >= Stamp(file[i].npci.pay[p])
  BY <1>1, <1>12, <1>13, Fields
<1>15. QED
  BY <1>1, <1>10, <1>12, <1>14, WordGrows, ToldHandler DEF Quick

\* One that names another amount closes the payment.
LEMMA WebhookMismatchKeeps ==
    ASSUME IInv, NEW i \in Instances, NEW p \in Payments, WebhookMismatch(i, p)
    PROVE  IInv' /\ \A x \in Instances : Keeps(x)
<1>1. p \in issued /\ Same /\ Pay(i, p) \in Records
  BY OwnCopy DEF WebhookMismatch
<1>2. PICK q \in Records : q = [Pay(i, p) EXCEPT !.st = "FAILED_AMOUNT_MISMATCH"] /\ Stamp(q) = Stamp(Pay(i, p))
  BY <1>1, Restated DEF Statuses, Failed
<1>3. SoundCopy(q, p, issued, vouched)
  BY <1>1, <1>2, SoundRestated DEF Statuses, Failed, Late
<1>a. PICK r : r = [q EXCEPT !.prov = "setu"]
  OBVIOUS
<1>4. r \in Records /\ r = [q EXCEPT !.prov = "setu"] /\ Stamp(r) = Stamp(q)
  BY <1>2, <1>a, Reprovided
<1>5. SoundCopy(r, p, issued, vouched) /\ Stamp(r) >= Stamp(file[i].npci.pay[p])
  BY <1>1, <1>2, <1>3, <1>4, OwnCopy, SoundReprovided
<1>6. r = [Pay(i, p) EXCEPT !.st = "FAILED_AMOUNT_MISMATCH", !.prov = "setu"]
  BY <1>1, <1>2, <1>4 DEF Records
<1>7. HandleSaved(i, p, With(i, p, r, {}), <<>>)
  BY <1>6, Zenon DEF WebhookMismatch
<1>8. QED
  BY <1>1, <1>5, <1>7, QuietHandler DEF Quick

\* The operator who plays a webhook vouches for what it confirms.
LEMMA WebhookTestKeeps ==
    ASSUME IInv, NEW i \in Instances, NEW p \in Payments,
           NEW st \in {"CONFIRMED", "FAILED_PROVIDER", "FAILED_AMOUNT_MISMATCH"}, WebhookTest(i, p, st)
    PROVE  IInv' /\ \A x \in Instances : Keeps(x)
<1>1. /\ p \in issued /\ st \in Statuses
      /\ Pay(i, p) \in Records /\ SoundCopy(Pay(i, p), p, issued, vouched)
      /\ Stamp(Pay(i, p)) >= Stamp(file[i].npci.pay[p]) /\ Stamp(file[i].npci.pay[p]) \in Nat
      /\ Now(p) \in Nat \ {0} /\ Now(p) > Stamp(Pay(i, p)) /\ Stamp(Pay(i, p)) \in Nat
  BY OwnCopy, NowIsLater DEF WebhookTest, Statuses, Failed, Pay
<1>2. issued' = issued /\ vouched' = vouched \cup (IF st = "CONFIRMED" THEN {p} ELSE {})
  BY DEF WebhookTest, Vouched
<1>3. vouched \subseteq vouched' /\ vouched' \subseteq issued' /\ issued' \subseteq Payments /\ (st = "CONFIRMED" => p \in vouched')
  BY <1>1, <1>2 DEF IInv
<1>4. PICK r : r = [Pay(i, p) EXCEPT !.prov = IF st = "FAILED_PROVIDER" THEN "icici" ELSE "setu"]
  OBVIOUS
<1>5. r \in Records /\ Stamp(r) = Stamp(Pay(i, p)) /\ SoundCopy(r, p, issued, vouched)
  BY <1>1, <1>4, Reprovided, SoundReprovided
<1>6. PICK x : x = IF st = "CONFIRMED" THEN Confirmed(r, Now(p)) ELSE [r EXCEPT !.st = st]
  OBVIOUS
<1>7. HandleSaved(i, p, With(i, p, x, {}), <<>>)
  BY <1>4, <1>6, Zenon DEF WebhookTest
<1>8. SoundCopy(x, p, issued', vouched') /\ Stamp(x) >= Stamp(file[i].npci.pay[p])
  <2>1. CASE st = "CONFIRMED"
    <3>1. x = Confirmed(r, Now(p))
      BY <1>6, <2>1
    <3>2. p \in issued' \cap vouched'
      BY <1>1, <1>2, <1>3, <2>1
    <3>3. SoundCopy(x, p, issued', vouched')
      BY <1>1, <1>5, <3>1, <3>2, SoundConfirmed
    <3>4. Stamp(x) = Now(p)
      BY <1>1, <1>5, <3>1, ConfirmedCopy
    <3>5. QED
      BY <1>1, <3>3, <3>4
  <2>2. CASE st # "CONFIRMED"
    <3>1. x = [r EXCEPT !.st = st]
      BY <1>6, <2>2
    <3>2. SoundCopy(x, p, issued', vouched')
      BY <1>1, <1>2, <1>5, <2>2, <3>1, SoundRestated DEF Late
    <3>3. QED
      BY <1>1, <1>5, <3>1, <3>2, Restated
  <2>3. QED
    BY <2>1, <2>2
<1>9. <<>> \in Quick
  BY DEF Quick
<1>10. QED
  BY <1>2, <1>3, <1>7, <1>8, <1>9, HandledCopy, QuickSteps
-----------------------------------------------------------------------------
(* Settling, releasing, refunding *)

\* The todo lists that do ask the rail.
LEMMA LongSteps ==
    /\ <<"persist", "saveAll", "rail", "persist">> \in Seq(Steps)
    /\ <<"rail", "persist">> \in Seq(Steps) /\ <<"rail", "persist", "saveAll">> \in Seq(Steps)
BY DEF Steps

\* A step that only changes what instance i has left to do.
LEMMA IdlesKeep ==
    ASSUME IInv, NEW i \in Instances, NEW ps, NEW todo \in Quick, ps \subseteq Payments, Then(i, ps, todo),
           UNCHANGED <<copies, psp, rail, history, bounds>>
    PROVE  IInv' /\ \A x \in Instances : Keeps(x)
<1>1. PICK m, f, j : m = mem[i] /\ f = file[i] /\ j = IdleOr(ps, todo)
  OBVIOUS
<1>2. mem' = [mem EXCEPT ![i] = m] /\ file' = [file EXCEPT ![i] = f] /\ job' = [job EXCEPT ![i] = j]
  BY <1>1 DEF copies, Then, IdleOr, IInv
<1>3. issued' = issued /\ vouched' = vouched /\ Shared'
  BY DEF copies, history, bounds, IInv, Shared
<1>4. Instance(m, file[i], job[i], issued, vouched)
  BY <1>1 DEF IInv
<1>5. SoundJob(j, vouched)
  BY <1>1, QuickSteps, ThenIsSound
<1>6. Instance(m, f, j, issued', vouched') /\ Ahead(m, file[i])
  BY <1>1, <1>3, <1>4, <1>5 DEF Instance
<1>7. QED
  BY <1>1, <1>2, <1>3, <1>6, OneInstance

\* A confirmed payment is paid, and its released copy is sound.
LEMMA ReleasedSound ==
    ASSUME IInv, NEW i \in Instances, NEW p \in Payments, Pay(i, p).st = "CONFIRMED"
    PROVE  /\ p \in vouched /\ p \in issued
           /\ SoundCopy(Released(Pay(i, p), Now(p)), p, issued, vouched)
           /\ Stamp(Released(Pay(i, p), Now(p))) >= Stamp(file[i].npci.pay[p])
<1>1. p \in vouched /\ p \in issued /\ Pay(i, p) \in Records
  BY OwnCopy, NoPayRecord DEF SoundCopy, Late
<1>2. Now(p) \in Nat /\ Now(p) > Stamp(Pay(i, p)) /\ Stamp(Pay(i, p)) \in Nat
  BY NowIsLater, OwnCopy DEF Pay
<1>3. PICK r : r = Released(Pay(i, p), Now(p))
  OBVIOUS
<1>4. r \in Records /\ r.st = "RELEASED" /\ Stamp(r) >= Stamp(Pay(i, p))
  BY <1>1, <1>2, <1>3, ReleasedCopy
<1>5. Stamp(r) >= Stamp(file[i].npci.pay[p])
  BY <1>4, OwnCopy, Fields
<1>6. QED
  BY <1>1, <1>3, <1>4, <1>5 DEF SoundCopy

\* Two fields of one instance written at once.
LEMMA TwoFields ==
    ASSUME NEW F, NEW S, F = [k \in S |-> F[k]], NEW i \in S,
           F[i] = [pay |-> F[i].pay, purse |-> F[i].purse, idem |-> F[i].idem, bal |-> F[i].bal],
           NEW p, NEW r, NEW b, NEW G
    PROVE  /\ G = [F EXCEPT ![i].pay[p] = r, ![i].bal = b] =>
                 /\ G = [F EXCEPT ![i] = G[i]]
                 /\ G[i] = [pay |-> [F[i].pay EXCEPT ![p] = r], purse |-> F[i].purse, idem |-> F[i].idem, bal |-> b]
           /\ G = [F EXCEPT ![i].pay[p] = r, ![i].purse = b] =>
                 /\ G = [F EXCEPT ![i] = G[i]]
                 /\ G[i] = [pay |-> [F[i].pay EXCEPT ![p] = r], purse |-> b, idem |-> F[i].idem, bal |-> F[i].bal]
<1>1. ASSUME G = [F EXCEPT ![i].pay[p] = r, ![i].bal = b]
      PROVE  /\ G = [F EXCEPT ![i] = G[i]]
             /\ G[i] = [pay |-> [F[i].pay EXCEPT ![p] = r], purse |-> F[i].purse, idem |-> F[i].idem, bal |-> b]
  <2>1. PICK H : H = [F EXCEPT ![i].pay[p] = r]
    OBVIOUS
  <2>2. H = [k \in S |-> H[k]] /\ (\A k \in S : k # i => H[k] = F[k])
        /\ H[i] = [F[i] EXCEPT !.pay[p] = r]
    BY <2>1
  <2>3. H[i] = [pay |-> [F[i].pay EXCEPT ![p] = r], purse |-> F[i].purse, idem |-> F[i].idem, bal |-> F[i].bal]
    BY <2>2
  <2>4. G = [H EXCEPT ![i].bal = b]
    BY <1>1, <2>1
  <2>5. G[i] = [H[i] EXCEPT !.bal = b] /\ (\A k \in S : k # i => G[k] = H[k]) /\ G = [k \in S |-> G[k]]
    BY <2>2, <2>4
  <2>6. G[i] = [pay |-> [F[i].pay EXCEPT ![p] = r], purse |-> F[i].purse, idem |-> F[i].idem, bal |-> b]
    BY <2>3, <2>5
  <2>7. G = [F EXCEPT ![i] = G[i]]
    BY <2>2, <2>5
  <2>8. QED
    BY <2>6, <2>7
<1>2. ASSUME G = [F EXCEPT ![i].pay[p] = r, ![i].purse = b]
      PROVE  /\ G = [F EXCEPT ![i] = G[i]]
             /\ G[i] = [pay |-> [F[i].pay EXCEPT ![p] = r], purse |-> b, idem |-> F[i].idem, bal |-> F[i].bal]
  <2>1. PICK H : H = [F EXCEPT ![i].pay[p] = r]
    OBVIOUS
  <2>2. H = [k \in S |-> H[k]] /\ (\A k \in S : k # i => H[k] = F[k])
        /\ H[i] = [F[i] EXCEPT !.pay[p] = r]
    BY <2>1
  <2>3. H[i] = [pay |-> [F[i].pay EXCEPT ![p] = r], purse |-> F[i].purse, idem |-> F[i].idem, bal |-> F[i].bal]
    BY <2>2
  <2>4. G = [H EXCEPT ![i].purse = b]
    BY <1>2, <2>1
  <2>5. G[i] = [H[i] EXCEPT !.purse = b] /\ (\A k \in S : k # i => G[k] = H[k]) /\ G = [k \in S |-> G[k]]
    BY <2>2, <2>4
  <2>6. G[i] = [pay |-> [F[i].pay EXCEPT ![p] = r], purse |-> b, idem |-> F[i].idem, bal |-> F[i].bal]
    BY <2>3, <2>5
  <2>7. G = [F EXCEPT ![i] = G[i]]
    BY <2>2, <2>5
  <2>8. QED
    BY <2>6, <2>7
<1>3. QED
  BY <1>1, <1>2

\* settleConfirmedPayment releases a confirmed copy, so one vouched for, and only then
\* queues it for the rail; the seller pays a token he holds.
LEMMA SettleKeeps ==
    ASSUME IInv, NEW i \in Instances, settleConfirmedPayment(i)
    PROVE  IInv' /\ \A x \in Instances : Keeps(x)
<1>1. /\ job[i].at = "run" /\ job[i].ps \subseteq Payments
      /\ UNCHANGED <<file, store, psp, rail, vouched, issued, bounds>>
  BY DEF settleConfirmedPayment, Working, IInv, Instance, SoundJob
<1>2. PICK p \in job[i].ps :
        LET r == Pay(i, p)
            bal == mem[i].bal
        IN  IF Settles(r) /\ SellerHolds(bal)
            THEN /\ mem' = [mem EXCEPT
                      ![i].pay[p] = [r EXCEPT !.st = "RELEASED", !.tid = TRUE, !.rel = Now(p)],
                      ![i].bal = Over([h \in {Seller, p} |-> IF h = p THEN Held(bal, p) + 1
                                                             ELSE bal[Seller] - 1], bal)]
                 /\ moved' = [moved EXCEPT ![p] = @ + 1]
                 /\ Then(i, {p}, <<"persist", "saveAll", "rail", "persist">>)
            ELSE /\ Then(i, {}, <<>>) /\ UNCHANGED <<mem, moved>>
  BY Zenon DEF settleConfirmedPayment
<1>3. p \in Payments
  BY <1>1
<1>4. CASE ~(Settles(Pay(i, p)) /\ SellerHolds(mem[i].bal))
  <2>1. Then(i, {}, <<>>) /\ UNCHANGED <<mem, moved>>
    BY <1>2, <1>4, Zenon
  <2>2. UNCHANGED <<copies, psp, rail, history, bounds>>
    BY <1>1, <2>1 DEF copies, history
  <2>3. <<>> \in Quick
    BY DEF Quick
  <2>4. QED
    BY <2>1, <2>2, <2>3, IdlesKeep
<1>5. CASE Settles(Pay(i, p)) /\ SellerHolds(mem[i].bal)
  <2>1. PICK r : r = [Pay(i, p) EXCEPT !.st = "RELEASED", !.tid = TRUE, !.rel = Now(p)]
    OBVIOUS
  <2>2. PICK bal : bal = Over([h \in {Seller, p} |-> IF h = p THEN Held(mem[i].bal, p) + 1
                                                     ELSE mem[i].bal[Seller] - 1], mem[i].bal)
    OBVIOUS
  <2>3. /\ mem' = [mem EXCEPT ![i].pay[p] = r, ![i].bal = bal] /\ moved' = [moved EXCEPT ![p] = @ + 1]
        /\ Then(i, {p}, <<"persist", "saveAll", "rail", "persist">>)
    BY <1>2, <1>5, <2>1, <2>2
  <2>4. PICK m : m = mem'[i]
    OBVIOUS
  <2>5. /\ mem = [k \in Instances |-> mem[k]] /\ Instance(mem[i], file[i], job[i], issued, vouched)
        /\ moved \in [Payments -> Nat] /\ (\A q \in Payments \ vouched : moved[q] = 0)
        /\ vouched \subseteq issued /\ issued \subseteq Payments
    BY DEF IInv, SoundHistory
  <2>6. mem[i] = [pay |-> mem[i].pay, purse |-> mem[i].purse, idem |-> mem[i].idem, bal |-> mem[i].bal]
        /\ Counts(mem[i].purse) /\ Counts(mem[i].bal)
    BY <2>5 DEF Instance, SoundMem
  <2>7. /\ mem' = [mem EXCEPT ![i] = m]
        /\ m = [pay |-> [mem[i].pay EXCEPT ![p] = r], purse |-> mem[i].purse, idem |-> mem[i].idem, bal |-> bal]
    BY <2>3, <2>4, <2>5, <2>6, TwoFields
  <2>8. m = [pay |-> [mem[i].pay EXCEPT ![p] = r], purse |-> m.purse, idem |-> m.idem, bal |-> m.bal]
        /\ m.purse = mem[i].purse /\ m.bal = bal
    BY <2>7
  <2>9. Counts(bal)
    <3>1. Held(mem[i].bal, p) \in Nat
      BY <2>6, HeldCounts
    <3>2. Seller \in DOMAIN mem[i].bal /\ mem[i].bal[Seller] - 1 \in Nat
      BY <1>5, <2>6 DEF SellerHolds, Held, Counts
    <3>3. Counts([h \in {Seller, p} |-> IF h = p THEN Held(mem[i].bal, p) + 1 ELSE mem[i].bal[Seller] - 1])
      BY <1>3, <3>1, <3>2 DEF Counts, Holders
    <3>4. QED
      BY <2>2, <2>6, <3>3, OverCounts
  <2>10. p \in vouched /\ p \in issued /\ SoundCopy(r, p, issued, vouched) /\ Stamp(r) >= Stamp(file[i].npci.pay[p])
    BY <1>3, <1>5, <2>1, ReleasedSound DEF Settles, Released
  <2>12. SoundCopy(r, p, issued', vouched')
    BY <1>1, <2>10
  <2>14. SoundHistory(moved', vouched')
    BY <1>1, <1>3, <2>3, <2>5, <2>10 DEF SoundHistory
  <2>15. Unsaved /\ UNCHANGED <<psp, rail, bounds>> /\ issued' = issued /\ vouched' = vouched
    BY <1>1 DEF Unsaved
  <2>16. /\ issued \subseteq issued' /\ vouched \subseteq vouched' /\ vouched' \subseteq issued' /\ issued' \subseteq Payments
         /\ {p} \subseteq Payments /\ {p} \subseteq vouched'
    BY <1>3, <2>5, <2>10, <2>15
  <2>17. Counts(m.purse) /\ Counts(m.bal)
    BY <2>6, <2>8, <2>9
  <2>18. PICK todo \in Seq(Steps) : Then(i, {p}, todo)
    BY <2>3, LongSteps
  <2>19. QED
    BY <1>3, <2>18, <2>7, <2>8, <2>10, <2>12, <2>14, <2>15, <2>16, <2>17, Handled
<1>6. QED
  BY <1>4, <1>5

\* A release takes place of a confirmed copy only, so the rail may be asked for it.
LEMMA ReleaseKeeps ==
    ASSUME IInv, NEW i \in Instances, NEW p \in Payments, Release(i, p)
    PROVE  IInv' /\ \A x \in Instances : Keeps(x)
<1>1. /\ Pay(i, p).st = "CONFIRMED" /\ Same /\ Unsaved /\ UNCHANGED <<psp, rail, moved, bounds>>
      /\ Then(i, IF Pay(i, p).umi THEN {} ELSE {p}, <<"rail", "persist">>)
  BY DEF Release
<1>2. PICK r : r = Released(Pay(i, p), Now(p))
  OBVIOUS
<1>3. PICK purse : purse = Over([x \in {"payee"} |-> Held(mem[i].purse, "payee") + 1], mem[i].purse)
  OBVIOUS
<1>4. mem' = [mem EXCEPT ![i].pay[p] = r, ![i].purse = purse]
  BY <1>2, <1>3 DEF Release, Released
<1>5. PICK m : m = mem'[i]
  OBVIOUS
<1>6. /\ mem = [k \in Instances |-> mem[k]] /\ Instance(mem[i], file[i], job[i], issued, vouched)
      /\ SoundHistory(moved, vouched) /\ vouched \subseteq issued /\ issued \subseteq Payments
  BY DEF IInv
<1>7. mem[i] = [pay |-> mem[i].pay, purse |-> mem[i].purse, idem |-> mem[i].idem, bal |-> mem[i].bal]
      /\ Counts(mem[i].purse) /\ Counts(mem[i].bal)
  BY <1>6 DEF Instance, SoundMem
<1>8. /\ mem' = [mem EXCEPT ![i] = m]
      /\ m = [pay |-> [mem[i].pay EXCEPT ![p] = r], purse |-> purse, idem |-> mem[i].idem, bal |-> mem[i].bal]
  BY <1>4, <1>5, <1>6, <1>7, TwoFields
<1>9. m = [pay |-> [mem[i].pay EXCEPT ![p] = r], purse |-> m.purse, idem |-> m.idem, bal |-> m.bal]
      /\ m.purse = purse /\ m.bal = mem[i].bal
  BY <1>8
<1>10. Counts(m.purse) /\ Counts(m.bal)
  <2>1. Held(mem[i].purse, "payee") + 1 \in Nat
    BY <1>7, HeldCounts
  <2>2. Counts([x \in {"payee"} |-> Held(mem[i].purse, "payee") + 1])
    BY <2>1, OneCounts
  <2>3. QED
    BY <1>3, <1>7, <1>9, <2>2, OverCounts
<1>11. p \in vouched /\ p \in issued /\ SoundCopy(r, p, issued, vouched) /\ Stamp(r) >= Stamp(file[i].npci.pay[p])
  BY <1>1, <1>2, ReleasedSound
<1>12. issued' = issued /\ vouched' = vouched /\ moved' = moved
  BY <1>1 DEF Same
<1>13. SoundCopy(r, p, issued', vouched') /\ SoundHistory(moved', vouched')
  BY <1>6, <1>11, <1>12
<1>14. PICK todo \in Seq(Steps), ps \in SUBSET {p} : Then(i, ps, todo)
  <2>1. Then(i, {}, <<"rail", "persist">>) \/ Then(i, {p}, <<"rail", "persist">>)
    BY <1>1
  <2>2. QED
    BY <2>1, LongSteps
<1>15. ps \subseteq Payments /\ ps \subseteq vouched' /\ UNCHANGED <<psp, rail, bounds>>
  BY <1>1, <1>11, <1>12, <1>14
<1>16. issued \subseteq issued' /\ vouched \subseteq vouched' /\ vouched' \subseteq issued' /\ issued' \subseteq Payments
  BY <1>6, <1>12
<1>17. QED
  BY <1>1, <1>8, <1>9, <1>10, <1>11, <1>13, <1>14, <1>15, <1>16, Handled

\* A refund leaves the stamps, and gives back at most what the purse can count.
LEMMA RefundKeeps ==
    ASSUME IInv, NEW i \in Instances, NEW p \in Payments, Refund(i, p)
    PROVE  IInv' /\ \A x \in Instances : Keeps(x)
<1>1. /\ Pay(i, p).st \in Refundable /\ Same /\ Unsaved /\ UNCHANGED <<psp, rail, moved, bounds>>
      /\ Then(i, {p}, <<"persist">>)
  BY DEF Refund
<1>2. PICK r : r = [Pay(i, p) EXCEPT !.st = "REFUNDED"]
  OBVIOUS
<1>3. PICK e : e = IF Pay(i, p).st = "CONFIRMED" THEN mem[i].purse["payer"] + 1 ELSE mem[i].purse["payer"]
  OBVIOUS
<1>4. PICK purse : purse = [mem[i].purse EXCEPT !["payer"] = e]
  OBVIOUS
<1>5. /\ mem = [k \in Instances |-> mem[k]] /\ Instance(mem[i], file[i], job[i], issued, vouched)
      /\ SoundHistory(moved, vouched) /\ vouched \subseteq issued /\ issued \subseteq Payments
  BY DEF IInv
<1>6. mem[i] = [pay |-> mem[i].pay, purse |-> mem[i].purse, idem |-> mem[i].idem, bal |-> mem[i].bal]
      /\ Counts(mem[i].purse) /\ Counts(mem[i].bal)
  BY <1>5 DEF Instance, SoundMem
<1>7. mem' = [mem EXCEPT ![i].pay[p] = r, ![i].purse = purse]
  <2>1. mem' = [mem EXCEPT ![i].pay[p] = r, ![i].purse["payer"] = e]
    BY <1>2, <1>3 DEF Refund
  <2>2. QED
    BY <1>4, <1>5, <1>6, <2>1
<1>8. PICK m : m = mem'[i]
  OBVIOUS
<1>9. /\ mem' = [mem EXCEPT ![i] = m]
      /\ m = [pay |-> [mem[i].pay EXCEPT ![p] = r], purse |-> purse, idem |-> mem[i].idem, bal |-> mem[i].bal]
  BY <1>5, <1>6, <1>7, <1>8, TwoFields
<1>10. m = [pay |-> [mem[i].pay EXCEPT ![p] = r], purse |-> m.purse, idem |-> m.idem, bal |-> m.bal]
       /\ m.purse = purse /\ m.bal = mem[i].bal
  BY <1>9
<1>11. Counts(m.purse) /\ Counts(m.bal)
  <2>1. "payer" \in DOMAIN mem[i].purse => e \in Nat
    BY <1>3, <1>6 DEF Counts
  <2>2. Counts([mem[i].purse EXCEPT !["payer"] = e])
    BY <1>6, <2>1, SpentCounts
  <2>3. QED
    BY <1>4, <1>6, <1>10, <2>2
<1>12. p \in issued /\ Pay(i, p) \in Records
  BY <1>1, OwnCopy DEF Refundable
<1>13. SoundCopy(r, p, issued, vouched) /\ Stamp(r) >= Stamp(file[i].npci.pay[p])
  BY <1>2, <1>12, OwnCopy, Restated, SoundRestated DEF Statuses, Late
<1>14. issued' = issued /\ vouched' = vouched /\ moved' = moved /\ UNCHANGED <<psp, rail, bounds>>
  BY <1>1 DEF Same
<1>15. SoundCopy(r, p, issued', vouched') /\ SoundHistory(moved', vouched')
  BY <1>5, <1>13, <1>14
<1>16. issued \subseteq issued' /\ vouched \subseteq vouched' /\ vouched' \subseteq issued' /\ issued' \subseteq Payments
  BY <1>5, <1>14
<1>17. PICK todo \in Quick : Then(i, {p}, todo)
  BY <1>1 DEF Quick
<1>18. todo \in Seq(Steps) /\ \A n \in 1..Len(todo) : todo[n] # "rail"
  BY QuickSteps
<1>19. QED
  BY <1>1, <1>9, <1>10, <1>11, <1>13, <1>14, <1>15, <1>16, <1>17, <1>18, Handled, ZenonT(90)
-----------------------------------------------------------------------------
(* The rail, the writes, the loads *)

\* What the rail executed once it executed.
LEMMA PostedIsSound ==
    ASSUME SoundRail(rail), NEW K, NEW ps, Posted(K, ps)
    PROVE  /\ SoundRail(rail')
           /\ \A p \in Payments : rail'.dvps[p] = IF rail.dvps[p] = 0 /\ "dvp" \in K /\ p \in ps THEN 1 ELSE rail.dvps[p]
<1>1. /\ rail'.keys = rail.keys \cup {<<k, p>> : k \in K, p \in ps}
      /\ rail'.funds = [p \in Payments |-> rail.funds[p] + IF p \in ps /\ "fund" \in K THEN New("fund", p) ELSE 0]
      /\ rail'.dvps = [p \in Payments |-> rail.dvps[p] + IF p \in ps /\ "dvp" \in K THEN New("dvp", p) ELSE 0]
  BY DEF Posted, RailKey
<1>2. \A k, p : New(k, p) \in {0, 1} /\ (New(k, p) = 1 <=> <<k, p>> \notin rail.keys)
  BY DEF New, RailKey
<1>3. rail'.funds \in [Payments -> Nat]
  <2>0. rail.funds \in [Payments -> Nat] /\ \A p : New("fund", p) \in {0, 1}
    BY <1>2 DEF SoundRail
  <2>1. \A p \in Payments : rail.funds[p] \in Nat /\ New("fund", p) \in Nat
    BY <2>0
  <2>2. QED
    BY <1>1, <2>1
<1>4. \A p \in Payments : <<"dvp", p>> \in rail'.keys <=> (<<"dvp", p>> \in rail.keys \/ ("dvp" \in K /\ p \in ps))
  BY <1>1
<1>5. \A p \in Payments : rail.dvps[p] = IF <<"dvp", p>> \in rail.keys THEN 1 ELSE 0
  BY DEF SoundRail
<1>6. \A p \in Payments : rail'.dvps[p] = rail.dvps[p] + IF p \in ps /\ "dvp" \in K THEN New("dvp", p) ELSE 0
  BY <1>1
<1>7. \A p \in Payments :
        /\ rail'.dvps[p] = IF <<"dvp", p>> \in rail'.keys THEN 1 ELSE 0
        /\ rail'.dvps[p] = IF rail.dvps[p] = 0 /\ "dvp" \in K /\ p \in ps THEN 1 ELSE rail.dvps[p]
  <2>1. TAKE p \in Payments
  <2>2. New("dvp", p) = IF <<"dvp", p>> \in rail.keys THEN 0 ELSE 1
    BY DEF New, RailKey
  <2>3. CASE "dvp" \in K /\ p \in ps
    BY <1>4, <1>5, <1>6, <2>2, <2>3
  <2>4. CASE ~("dvp" \in K /\ p \in ps)
    BY <1>4, <1>5, <1>6, <2>4
  <2>5. QED
    BY <2>3, <2>4
<1>8. rail'.dvps = [p \in Payments |-> IF <<"dvp", p>> \in rail'.keys THEN 1 ELSE 0]
  BY <1>1, <1>7
<1>9. QED
  BY <1>3, <1>7, <1>8 DEF SoundRail

\* A step of instance i that changes its memory or nothing, and goes on with the rest.
LEMMA WorkedIsSound ==
    ASSUME IInv, NEW i \in Instances, NEW step, Working(i, step), Then(i, job[i].ps, Rest(i))
    PROVE  /\ \E j : SoundJob(j, vouched) /\ job' = [job EXCEPT ![i] = j]
           /\ job[i].ps \subseteq Payments /\ (step = "rail" => job[i].ps \subseteq vouched)
<1>1. SoundJob(job[i], vouched) /\ job[i].at = "run" /\ Head(job[i].todo) = step
  BY DEF IInv, Instance, Working
<1>2. /\ Rest(i) \in Seq(Steps) /\ job[i].ps \subseteq Payments
      /\ (\E n \in 1..Len(Rest(i)) : Rest(i)[n] = "rail") => job[i].ps \subseteq vouched
      /\ step = "rail" => job[i].ps \subseteq vouched
  BY <1>1, RestIsSound DEF Rest, SoundJob
<1>3. PICK j : j = IdleOr(job[i].ps, Rest(i))
  OBVIOUS
<1>4. SoundJob(j, vouched)
  BY <1>2, <1>3, ThenIsSound
<1>5. job' = [job EXCEPT ![i] = j]
  BY <1>3 DEF Then, IdleOr
<1>6. QED
  BY <1>2, <1>4, <1>5

\* The rail's answer marks paid payments only, and its keys count what it delivered.
LEMMA CommitKeeps ==
    ASSUME IInv, NEW i \in Instances, commitSettlementToRail(i)
    PROVE  IInv' /\ \A x \in Instances : Keeps(x)
<1>1. /\ Working(i, "rail") /\ Then(i, job[i].ps, Rest(i))
      /\ UNCHANGED <<file, store, psp, history, bounds>>
  BY DEF commitSettlementToRail
<1>2. PICK j : SoundJob(j, vouched) /\ job' = [job EXCEPT ![i] = j]
  BY <1>1, WorkedIsSound
<1>3. SoundRail(rail')
  <2>1. \E K : Posted(K, job[i].ps)
    BY Zenon DEF commitSettlementToRail
  <2>2. QED
    BY <2>1, PostedIsSound DEF IInv
<1>4. /\ mem = [k \in Instances |-> mem[k]] /\ file = [k \in Instances |-> file[k]]
      /\ Instance(mem[i], file[i], job[i], issued, vouched)
  BY DEF IInv
<1>5. PICK m : /\ mem' = [mem EXCEPT ![i] = m] /\ SoundMem(m, issued, vouched) /\ Ahead(m, file[i])
  <2>1. CASE UNCHANGED mem
    <3>1. mem' = [mem EXCEPT ![i] = mem[i]]
      BY <1>4, <2>1
    <3>2. QED
      BY <1>4, <3>1 DEF Instance
  <2>2. CASE mem' = [mem EXCEPT ![i].pay = [p \in Payments |->
                        IF p \in job[i].ps THEN [@[p] EXCEPT !.umi = TRUE] ELSE @[p]]]
    <3>1. PICK pay : pay = [p \in Payments |-> IF p \in job[i].ps THEN [mem[i].pay[p] EXCEPT !.umi = TRUE] ELSE mem[i].pay[p]]
      OBVIOUS
    <3>2. mem' = [mem EXCEPT ![i].pay = pay]
      BY <2>2, <3>1
    <3>3. PICK m : m = [mem[i] EXCEPT !.pay = pay]
      OBVIOUS
    <3>4. mem' = [mem EXCEPT ![i] = m]
      BY <3>2, <3>3
    <3>5. SoundMem(mem[i], issued, vouched)
      BY <1>4 DEF Instance
    <3>6. /\ m = [pay |-> m.pay, purse |-> m.purse, idem |-> m.idem, bal |-> m.bal]
          /\ m.pay = pay /\ m.purse = mem[i].purse /\ m.bal = mem[i].bal
      BY <3>3, <3>5 DEF SoundMem
    <3>7. \A p \in Payments : /\ SoundCopy(pay[p], p, issued, vouched) /\ pay[p] \in Records
                              /\ Stamp(pay[p]) = Stamp(mem[i].pay[p])
      <4>1. TAKE p \in Payments
      <4>2. SoundCopy(mem[i].pay[p], p, issued, vouched) /\ mem[i].pay[p] \in Records
        BY <3>5 DEF SoundMem, SoundPays
      <4>3. CASE p \notin job[i].ps
        BY <3>1, <4>2, <4>3
      <4>4. CASE p \in job[i].ps
        <5>1. p \in vouched /\ p \in issued
          BY <1>1, <4>4, WorkedIsSound DEF IInv
        <5>2. PICK x : x = [mem[i].pay[p] EXCEPT !.umi = TRUE]
          OBVIOUS
        <5>3. x \in Records /\ Stamp(x) = Stamp(mem[i].pay[p])
          BY <4>2, <5>2, OnRailCopy
        <5>4. SoundCopy(x, p, issued, vouched)
          BY <5>1, <5>3 DEF SoundCopy
        <5>5. pay[p] = x
          BY <3>1, <4>4, <5>2
        <5>6. QED
          BY <5>3, <5>4, <5>5
      <4>5. QED
        BY <4>3, <4>4
    <3>8. pay \in [Payments -> Records]
      BY <3>1, <3>7
    <3>9. SoundMem(m, issued, vouched)
      BY <3>5, <3>6, <3>7, <3>8 DEF SoundMem, SoundPays
    <3>10. Ahead(m, file[i])
      BY <1>4, <3>6, <3>7 DEF Ahead, Instance
    <3>11. QED
      BY <3>4, <3>9, <3>10
  <2>3. QED
    BY <2>1, <2>2, Zenon DEF commitSettlementToRail
<1>6. PICK f : f = file[i]
  OBVIOUS
<1>7. file' = [file EXCEPT ![i] = f]
  BY <1>1, <1>4, <1>6
<1>8. issued' = issued /\ vouched' = vouched /\ Shared'
  BY <1>1, <1>3 DEF IInv, Shared, history, bounds
<1>9. Instance(m, f, j, issued', vouched')
  BY <1>2, <1>4, <1>5, <1>6, <1>8 DEF Instance
<1>10. QED
  BY <1>2, <1>5, <1>6, <1>7, <1>8, <1>9, OneInstance

\* What is backfilled is released, so it was vouched for.
LEMMA BackfillKeeps ==
    ASSUME IInv, NEW i \in Instances, Backfill(i)
    PROVE  IInv' /\ \A x \in Instances : Keeps(x)
<1>1. PICK ps : ps = {p \in Payments : Pay(i, p).st = "RELEASED" /\ ~Pay(i, p).umi}
  OBVIOUS
<1>2. Then(i, ps, <<"rail", "persist", "saveAll">>) /\ UNCHANGED <<copies, psp, rail, history, bounds>>
  BY <1>1 DEF Backfill
<1>3. ps \subseteq Payments /\ ps \subseteq vouched
  BY <1>1, OwnCopy DEF SoundCopy, Late
<1>4. PICK j : j = IdleOr(ps, <<"rail", "persist", "saveAll">>)
  OBVIOUS
<1>5. SoundJob(j, vouched) /\ job' = [job EXCEPT ![i] = j]
  BY <1>2, <1>3, <1>4, LongSteps, ThenIsSound DEF Then, IdleOr
<1>6. /\ mem = [k \in Instances |-> mem[k]] /\ file = [k \in Instances |-> file[k]]
      /\ Instance(mem[i], file[i], job[i], issued, vouched)
  BY DEF IInv
<1>7. PICK m, f : m = mem[i] /\ f = file[i]
  OBVIOUS
<1>8. mem' = [mem EXCEPT ![i] = m] /\ file' = [file EXCEPT ![i] = f]
  BY <1>2, <1>6, <1>7 DEF copies
<1>9. issued' = issued /\ vouched' = vouched /\ Shared'
  BY <1>2 DEF IInv, Shared, copies, history, bounds
<1>10. Instance(m, f, j, issued', vouched') /\ Ahead(m, file[i])
  BY <1>5, <1>6, <1>7, <1>9 DEF Instance
<1>11. QED
  BY <1>5, <1>7, <1>8, <1>9, <1>10, OneInstance

\* Writing the memory down makes the file what the memory is, never what it is ahead of.
LEMMA WriteKeeps ==
    ASSUME IInv, NEW i \in Instances, Persist(i) \/ SaveAll(i)
    PROVE  IInv' /\ \A x \in Instances : Keeps(x)
<1>1. /\ \E step : Working(i, step) /\ Then(i, job[i].ps, Rest(i))
      /\ UNCHANGED <<mem, psp, rail, history, bounds>>
  BY DEF Persist, SaveAll
<1>2. PICK j : SoundJob(j, vouched) /\ job' = [job EXCEPT ![i] = j]
  BY <1>1, WorkedIsSound
<1>3. /\ mem = [k \in Instances |-> mem[k]] /\ file = [k \in Instances |-> file[k]]
      /\ Instance(mem[i], file[i], job[i], issued, vouched) /\ SoundStore(store, issued, vouched)
  BY DEF IInv
<1>4. PICK m : m = mem[i]
  OBVIOUS
<1>5. SoundMem(m, issued, vouched) /\ SoundFile(file[i], issued, vouched) /\ Ahead(m, file[i])
  BY <1>3, <1>4 DEF Instance
<1>6. PICK f : /\ file' = [file EXCEPT ![i] = f] /\ SoundFile(f, issued, vouched) /\ f.npci = Bundle(m)
               /\ SoundStore(store', issued, vouched)
  <2>1. CASE Persist(i)
    <3>1. PICK f : f = Rewritten(file[i], m)
      OBVIOUS
    <3>2. store' = [store EXCEPT !.npci = Bundle(m)]
          /\ file' = [file EXCEPT ![i].npci = Bundle(m), ![i].on = TRUE, ![i].hasIdem = FALSE]
      BY <1>4, <2>1 DEF Persist, persistNpciState
    <3>3. file' = [file EXCEPT ![i] = f]
      BY <1>3, <1>5, <3>1, <3>2 DEF Rewritten
    <3>4. SoundFile(f, issued, vouched) /\ f.npci = Bundle(m)
      BY <1>5, <3>1, RewrittenIsSound
    <3>5. SoundStore(store', issued, vouched)
      BY <1>3, <1>5, <3>2, SavedIsSound
    <3>6. QED
      BY <3>3, <3>4, <3>5
  <2>2. CASE SaveAll(i)
    <3>1. PICK f : f = [npci |-> Bundle(m), on |-> TRUE, idem |-> m.idem, hasIdem |-> TRUE, bal |-> m.bal]
      OBVIOUS
    <3>2. file' = [file EXCEPT ![i] = f] /\ store' = [store EXCEPT !.bal = Over(m.bal, @)]
      BY <1>4, <2>2, <3>1 DEF SaveAll, saveAllPersisted
    <3>3. f.npci = Bundle(m)
      BY <3>1
    <3>4. SoundFile(f, issued, vouched) /\ SoundStore(store', issued, vouched)
      <4>1. SoundFile([npci |-> Bundle(m), on |-> TRUE, idem |-> m.idem, hasIdem |-> TRUE, bal |-> m.bal], issued, vouched)
            /\ SoundStore([store EXCEPT !.bal = Over(m.bal, @)], issued, vouched)
        BY <1>3, <1>5, SavedIsSound
      <4>2. QED
        BY <3>1, <3>2, <4>1, Zenon
    <3>5. QED
      BY <3>2, <3>3, <3>4
  <2>3. QED
    BY <2>1, <2>2
<1>7. f.npci.pay = m.pay
  BY <1>6 DEF Bundle
<1>8. Ahead(m, f)
  <2>1. \A q \in Payments : Stamp(m.pay[q]) \in Nat
    BY <1>5, Fields DEF SoundMem, SoundPays
  <2>2. QED
    BY <1>7, <2>1 DEF Ahead
<1>9. mem' = [mem EXCEPT ![i] = m]
  BY <1>1, <1>3, <1>4
<1>10. issued' = issued /\ vouched' = vouched /\ Shared'
  BY <1>1, <1>6 DEF IInv, Shared, history, bounds
<1>11. Instance(m, f, j, issued', vouched')
  BY <1>2, <1>5, <1>6, <1>8, <1>10 DEF Instance
<1>12. QED
  BY <1>2, <1>5, <1>6, <1>7, <1>9, <1>10, <1>11, OneInstance

\* Loading: the file or the memory, neither behind the file, merged with a bundle that
\* can only make a copy newer.
LEMMA BeginKeeps ==
    ASSUME IInv, NEW i \in Instances, Begin(i)
    PROVE  IInv' /\ \A x \in Instances : Keeps(x)
<1>1. /\ mem = [k \in Instances |-> mem[k]] /\ file = [k \in Instances |-> file[k]]
      /\ Instance(mem[i], file[i], job[i], issued, vouched) /\ SoundStore(store, issued, vouched)
      /\ funds \in Nat /\ requests \in 0..MaxRequests
  BY DEF IInv
<1>2. /\ SoundMem(mem[i], issued, vouched) /\ SoundFile(file[i], issued, vouched) /\ Ahead(mem[i], file[i])
      /\ SoundBundle(file[i].npci, issued, vouched) /\ SoundBundle(store.npci, issued, vouched) /\ Counts(store.bal)
  BY <1>1 DEF Instance, SoundFile, SoundStore
<1>3. PICK l : l = loadAllPersisted(i)
  OBVIOUS
<1>4. /\ l = [pay |-> l.pay, purse |-> l.purse, idem |-> l.idem, bal |-> l.bal]
      /\ l.pay = (IF file[i].on THEN file[i].npci.pay ELSE mem[i].pay)
      /\ l.purse = (IF file[i].on THEN file[i].npci.purse ELSE mem[i].purse)
      /\ l.bal = (IF file[i].bal # Empty THEN file[i].bal ELSE store.bal)
  BY <1>3 DEF loadAllPersisted
<1>5. SoundPays(l.pay, issued, vouched) /\ Counts(l.purse) /\ Counts(l.bal)
  BY <1>2, <1>4 DEF SoundMem, SoundFile, SoundBundle
<1>6. \A p \in Payments : Stamp(l.pay[p]) >= Stamp(file[i].npci.pay[p])
  <2>1. TAKE p \in Payments
  <2>2. l.pay[p] \in {file[i].npci.pay[p], mem[i].pay[p]}
    BY <1>4
  <2>3. QED
    BY <1>2, <2>2, FileStamps DEF Ahead
<1>7. PICK pay : pay = [p \in Payments |-> Merged(l.pay[p], store.npci.pay[p])]
  OBVIOUS
<1>8. \A p \in Payments : /\ SoundCopy(pay[p], p, issued, vouched) /\ pay[p] \in Records
                          /\ Stamp(pay[p]) >= Stamp(file[i].npci.pay[p])
  <2>1. TAKE p \in Payments
  <2>2. SoundCopy(l.pay[p], p, issued, vouched) /\ SoundCopy(store.npci.pay[p], p, issued, vouched)
    BY <1>2, <1>5 DEF SoundPays, SoundBundle
  <2>3. SoundCopy(pay[p], p, issued, vouched) /\ Stamp(pay[p]) >= Stamp(l.pay[p])
    BY <1>7, <2>2, MergedCopy
  <2>4. pay[p] \in Records /\ l.pay[p] \in Records
    BY <2>2, <2>3 DEF SoundCopy
  <2>5. Stamp(pay[p]) \in Nat /\ Stamp(l.pay[p]) \in Nat
    BY <2>4, Fields
  <2>6. QED
    BY <1>6, <2>3, <2>4, <2>5, FileStamps
<1>9. SoundPays(pay, issued, vouched)
  BY <1>7, <1>8 DEF SoundPays
<1>10. PICK purse : purse = Over(Over(l.purse, store.npci.purse), [x \in {"payer"} |-> funds])
  OBVIOUS
<1>11. Counts(purse)
  <2>1. Counts([x \in {"payer"} |-> funds])
    BY <1>1, OneCounts
  <2>2. Counts(store.npci.purse)
    BY <1>2 DEF SoundBundle
  <2>3. Counts(Over(l.purse, store.npci.purse))
    BY <1>5, <2>2, OverCounts
  <2>4. QED
    BY <1>10, <2>1, <2>3, OverCounts
<1>12. PICK m : m = initState(i)
  OBVIOUS
<1>13. /\ m = [pay |-> m.pay, purse |-> m.purse, idem |-> m.idem, bal |-> m.bal]
       /\ m.pay = pay /\ m.purse = purse /\ m.bal = l.bal
  <2>1. m = [l EXCEPT !.pay = pay, !.purse = purse]
    BY <1>3, <1>7, <1>10, <1>12 DEF initState
  <2>2. QED
    BY <1>4, <2>1
<1>14. SoundMem(m, issued, vouched)
  BY <1>5, <1>9, <1>11, <1>13 DEF SoundMem
<1>15. Ahead(m, file[i])
  BY <1>8, <1>13 DEF Ahead
<1>16. PICK f, j : f = file[i] /\ j = [Idle EXCEPT !.at = "loaded"]
  OBVIOUS
<1>17. SoundJob(j, vouched)
  <2>1. j = [at |-> j.at, ps |-> j.ps, todo |-> j.todo] /\ j.at = "loaded" /\ j.ps = {} /\ j.todo = <<>>
    BY <1>16 DEF Idle
  <2>2. <<>> \in Seq(Steps) /\ (\E n \in 1..Len(j.todo) : j.todo[n] = "rail") => j.ps \subseteq vouched
    BY <2>1
  <2>3. QED
    BY <2>1, <2>2 DEF SoundJob
<1>18. mem' = [mem EXCEPT ![i] = m] /\ file' = [file EXCEPT ![i] = f] /\ job' = [job EXCEPT ![i] = j]
  BY <1>1, <1>12, <1>16 DEF Begin
<1>19. requests' \in 0..MaxRequests
  BY <1>1, EdgePaymentsConstants DEF Begin
<1>20. issued' = issued /\ vouched' = vouched /\ Shared'
  BY <1>19 DEF Begin, IInv, Shared, history
<1>21. Instance(m, f, j, issued', vouched')
  BY <1>1, <1>14, <1>15, <1>16, <1>17, <1>20 DEF Instance
<1>22. QED
  BY <1>15, <1>16, <1>18, <1>20, <1>21, OneInstance

\* An answer leaves every copy alone.
LEMMA AnswerKeeps ==
    ASSUME IInv, NEW i \in Instances, Answer(i)
    PROVE  IInv' /\ \A x \in Instances : Keeps(x)
<1>1. Then(i, {}, <<>>) /\ UNCHANGED <<copies, psp, rail, history, bounds>>
  BY DEF Answer, Then
<1>2. QED
  BY <1>1, IdlesKeep DEF Quick

\* An instance begins with nothing, in memory and on disk.
LEMMA FreshIsSound ==
    ASSUME NEW I, NEW M PROVE Instance(Cold, NoFile, Idle, I, M) /\ SoundBundle(NoBundle, I, M)
<1>1. SoundPays(NoBundle.pay, I, M) /\ NoBundle.pay = [p \in Payments |-> NoPay]
  BY NoPayRecord DEF SoundPays, SoundCopy, NoBundle, Late
<1>2. SoundBundle(NoBundle, I, M)
  BY <1>1, EmptyCounts DEF SoundBundle, NoBundle
<1>3. SoundMem(Cold, I, M) /\ Cold.pay = NoBundle.pay
  BY <1>1, EmptyCounts DEF SoundMem, Cold
<1>4. SoundFile(NoFile, I, M) /\ NoFile.npci.pay = NoBundle.pay
  <2>1. PICK f : f = NoFile
    OBVIOUS
  <2>2. f.npci = NoBundle /\ f.bal = Empty
        /\ f = [npci |-> f.npci, on |-> f.on, idem |-> f.idem, hasIdem |-> f.hasIdem, bal |-> f.bal]
    BY <2>1 DEF NoFile
  <2>3. QED
    BY <1>2, <2>1, <2>2, EmptyCounts DEF SoundFile
<1>5. Ahead(Cold, NoFile)
  BY <1>1, <1>3, <1>4, NoPayRecord DEF Ahead
<1>6. SoundJob(Idle, M)
  <2>1. PICK j : j = Idle
    OBVIOUS
  <2>2. j = [at |-> j.at, ps |-> j.ps, todo |-> j.todo] /\ j.at = "idle" /\ j.ps = {} /\ j.todo = <<>>
    BY <2>1 DEF Idle
  <2>3. <<>> \in Seq(Steps) /\ (\E n \in 1..Len(j.todo) : j.todo[n] = "rail") => j.ps \subseteq M
    BY <2>2
  <2>4. QED
    BY <2>1, <2>2, <2>3 DEF SoundJob
<1>7. QED
  BY <1>2, <1>3, <1>4, <1>5, <1>6 DEF Instance

\* A new instance starts with nothing, whatever the others hold.
LEMMA RecycleSound == ASSUME IInv, NEW i \in Instances, Recycle(i) PROVE IInv'
<1>1. PICK m, f, j : m = Cold /\ f = NoFile /\ j = Idle
  OBVIOUS
<1>2. mem' = [mem EXCEPT ![i] = m] /\ file' = [file EXCEPT ![i] = f] /\ job' = [job EXCEPT ![i] = j]
  BY <1>1 DEF Recycle
<1>3. recycles' \in 0..MaxRecycles
  BY EdgePaymentsConstants DEF Recycle, IInv
<1>4. issued' = issued /\ vouched' = vouched /\ Shared'
  BY <1>3 DEF Recycle, IInv, Shared, history
<1>5. Instance(m, f, j, issued', vouched')
  BY <1>1, FreshIsSound
<1>6. QED
  BY <1>2, <1>4, <1>5, OneInstance

\* Money at the provider changes no copy.
LEMMA ProviderPaidKeeps ==
    ASSUME IInv, NEW p \in Payments, PayAtProvider(p)
    PROVE  IInv' /\ \A x \in Instances : Keeps(x)
<1>1. /\ p \in issued /\ psp' = psp \cup {p} /\ vouched' = vouched \cup {p} /\ issued' = issued
      /\ mem' = mem /\ file' = file /\ store' = store /\ job' = job /\ rail' = rail /\ moved' = moved
      /\ funds' = funds /\ requests' = requests /\ recycles' = recycles
  BY DEF PayAtProvider, Vouched, copies, bounds
<1>2. \A i \in Instances : Instance(mem[i], file[i], job[i], issued', vouched')
  <2>1. TAKE i \in Instances
  <2>2. Instance(mem[i], file[i], job[i], issued, vouched)
    BY DEF IInv
  <2>3. QED
    BY <1>1, <2>2, BundleGrows DEF Instance
<1>3. SoundStore(store, issued', vouched')
  BY <1>1, BundleGrows DEF IInv
<1>4. SoundHistory(moved, vouched')
  BY <1>1 DEF IInv, SoundHistory
<1>5. IInv'
  BY <1>1, <1>2, <1>3, <1>4 DEF IInv
<1>6. \A x \in Instances : Keeps(x)
  <2>1. TAKE x \in Instances
  <2>2. Ahead(mem[x], file[x])
    BY DEF IInv, Instance
  <2>3. QED
    BY <1>1, <2>2, FileStamps DEF Ahead, Keeps
<1>7. QED
  BY <1>5, <1>6
-----------------------------------------------------------------------------
(* The invariant *)

\* Nothing is issued and every copy is empty at first.
LEMMA Initially == ASSUME Init PROVE IInv
<1>1. /\ mem = [i \in Instances |-> mem[i]] /\ file = [i \in Instances |-> file[i]] /\ job = [i \in Instances |-> job[i]]
      /\ \A i \in Instances : mem[i] = Cold /\ file[i] = NoFile /\ job[i] = Idle
  BY DEF Init
<1>2. \A i \in Instances : Instance(mem[i], file[i], job[i], issued, vouched)
  BY <1>1, FreshIsSound
<1>3. SoundStore(store, issued, vouched)
  <2>1. Counts([h \in {Seller} |-> Supply])
    BY EdgePaymentsConstants, OneCounts DEF Holders
  <2>2. store.npci = NoBundle /\ store.bal = [h \in {Seller} |-> Supply] /\ store = [npci |-> store.npci, bal |-> store.bal]
    BY DEF Init
  <2>3. QED
    BY <2>1, <2>2, FreshIsSound DEF SoundStore
<1>4. SoundRail(rail)
  BY DEF Init, SoundRail
<1>5. SoundHistory(moved, vouched)
  BY DEF Init, SoundHistory
<1>6. psp \subseteq vouched /\ vouched \subseteq issued /\ issued \subseteq Payments
  BY DEF Init
<1>7. funds \in Nat /\ requests \in 0..MaxRequests /\ recycles \in 0..MaxRecycles
  BY EdgePaymentsConstants DEF Init
<1>8. QED
  BY <1>1, <1>2, <1>3, <1>4, <1>5, <1>6, <1>7 DEF IInv

\* Every step keeps the invariant, and one that recycles no instance keeps every copy.
LEMMA Inductive ==
    ASSUME IInv, [Next]_vars
    PROVE  IInv' /\ (recycles' = recycles => \A x \in Instances : Keeps(x))
<1>1. CASE UNCHANGED vars
  <2>1. /\ mem' = mem /\ file' = file /\ store' = store /\ job' = job /\ psp' = psp /\ rail' = rail /\ moved' = moved
        /\ vouched' = vouched /\ issued' = issued /\ funds' = funds /\ requests' = requests /\ recycles' = recycles
    BY <1>1 DEF vars, copies, history, bounds
  <2>2. IInv'
    BY <2>1 DEF IInv
  <2>3. ASSUME NEW x \in Instances PROVE Keeps(x)
    <3>1. Ahead(mem[x], file[x])
      BY DEF IInv, Instance
    <3>2. QED
      BY <2>1, <3>1, FileStamps DEF Ahead, Keeps
  <2>4. QED
    BY <2>2, <2>3
<1>2. CASE \E p \in Payments : PayAtProvider(p)
  BY <1>2, ProviderPaidKeeps
<1>3. ASSUME NEW i \in Instances, Begin(i) \/ Answer(i) \/ Runs(i) \/ Backfill(i) PROVE IInv' /\ \A x \in Instances : Keeps(x)
  BY <1>3, BeginKeeps, AnswerKeeps, SettleKeeps, CommitKeeps, WriteKeeps, BackfillKeeps DEF Runs
<1>4. ASSUME NEW i \in Instances, Recycle(i) PROVE IInv' /\ recycles' # recycles
  <2>1. recycles' # recycles
    BY <1>4 DEF Recycle, IInv
  <2>2. QED
    BY <1>4, <2>1, RecycleSound
<1>5. ASSUME NEW i \in Instances, NEW p \in Payments, Buyer(i, p) PROVE IInv' /\ \A x \in Instances : Keeps(x)
  BY <1>5, CollectKeeps, SettleRouteKeeps, GetKeeps, ReattachKeeps, TransferReceiptKeeps, ApproveFailsKeeps, ApproveKeeps,
     ReleaseKeeps, RefundKeeps DEF Buyer
<1>6. ASSUME NEW i \in Instances, NEW p \in Payments, Provider(i, p) PROVE IInv' /\ \A x \in Instances : Keeps(x)
  BY <1>6, PayuCallbackKeeps, ReconcileKeeps, GetKeeps, CallbackKeeps, WebhookKeeps, WebhookMismatchKeeps, WebhookTestKeeps
     DEF Provider
<1>7. QED
  BY <1>1, <1>2, <1>3, <1>4, <1>5, <1>6 DEF Next

\* The invariant implies that the payments are sound.
LEMMA SoundEverywhere == ASSUME IInv PROVE PaymentsAreSound
<1>1. TypeOK
  <2>1. ASSUME NEW i \in Instances
        PROVE  /\ mem[i].pay \in [Payments -> Records] /\ file[i].npci.pay \in [Payments -> Records]
               /\ Counts(mem[i].purse) /\ Counts(mem[i].bal)
               /\ Counts(file[i].npci.purse) /\ Counts(file[i].bal)
               /\ job[i].at \in {"idle", "loaded", "run"} /\ job[i].ps \subseteq Payments
               /\ \A n \in 1..Len(job[i].todo) : job[i].todo[n] \in Steps
    <3>1. SoundMem(mem[i], issued, vouched) /\ SoundFile(file[i], issued, vouched) /\ SoundJob(job[i], vouched)
      BY DEF IInv, Instance
    <3>2. \A n \in 1..Len(job[i].todo) : job[i].todo[n] \in Steps
      BY <3>1, ElementOfSeq DEF SoundJob
    <3>3. QED
      BY <3>1, <3>2 DEF SoundMem, SoundFile, SoundBundle, SoundPays, SoundJob
  <2>2. store.npci.pay \in [Payments -> Records] /\ Counts(store.npci.purse) /\ Counts(store.bal)
    BY DEF IInv, SoundStore, SoundBundle, SoundPays
  <2>3. rail.funds \in [Payments -> Nat] /\ rail.dvps \in [Payments -> Nat]
    BY DEF IInv, SoundRail
  <2>4. moved \in [Payments -> Nat] /\ psp \subseteq Payments /\ vouched \subseteq Payments /\ issued \subseteq Payments
        /\ requests \in 0..MaxRequests /\ recycles \in 0..MaxRecycles
    BY DEF IInv, SoundHistory
  <2>5. QED
    BY <2>1, <2>2, <2>3, <2>4 DEF TypeOK
<1>2. TokensFollowWord
  <2>1. SUFFICES ASSUME NEW p \in Payments \ vouched
                 PROVE  /\ moved[p] = 0 /\ store.npci.pay[p].st \notin Late
                        /\ \A i \in Instances : mem[i].pay[p].st \notin Late /\ file[i].npci.pay[p].st \notin Late
    BY DEF TokensFollowWord
  <2>2. moved[p] = 0
    BY DEF IInv, SoundHistory
  <2>3. SoundCopy(store.npci.pay[p], p, issued, vouched)
    BY DEF IInv, SoundStore, SoundBundle, SoundPays
  <2>4. \A i \in Instances : SoundCopy(mem[i].pay[p], p, issued, vouched) /\ SoundCopy(file[i].npci.pay[p], p, issued, vouched)
    BY DEF IInv, Instance, SoundMem, SoundFile, SoundBundle, SoundPays
  <2>5. QED
    BY <2>2, <2>3, <2>4 DEF SoundCopy, Late
<1>3. QED
  BY <1>1, <1>2 DEF PaymentsAreSound
-----------------------------------------------------------------------------
(* The theorems *)

\* No account and no holding goes below zero in any copy, and no copy of a payment
\* is confirmed or released, nor a token moved for it, unless the bank, the provider,
\* an operator or the body of some request vouched for it, however
\* many instances serve the payments and however stale each is.
THEOREM PaymentsStaySound == Spec => []PaymentsAreSound
<1>1. Init => IInv
  BY Initially
<1>2. IInv /\ [Next]_vars => IInv'
  BY Inductive
<1>3. IInv => PaymentsAreSound
  BY SoundEverywhere
<1>4. QED
  BY <1>1, <1>2, <1>3, PTL DEF Spec

\* While an instance lives, loading its file over the rows and merging the bundle of
\* an instance that knows less never takes back what its own file once held of a
\* payment: neither its memory nor its file goes behind that.
THEOREM CopiesAreKept == Spec => NeverForgets
<1>1. Init => IInv
  BY Initially
<1>2. IInv /\ [Next]_vars => IInv'
  BY Inductive
<1>3. IInv /\ [Next]_vars =>
        [\A i \in Instances, p \in Payments :
            recycles' = recycles =>
                /\ Stamp(mem'[i].pay[p]) >= Stamp(file[i].npci.pay[p])
                /\ Stamp(file'[i].npci.pay[p]) >= Stamp(file[i].npci.pay[p])]_vars
  BY Inductive DEF Keeps
<1>4. QED
  BY <1>1, <1>2, <1>3, PTL DEF Spec, NeverForgets
-----------------------------------------------------------------------------
(* What the rail does is what a purchase promises *)

\* A handler that takes what it is told issues and vouches for its payment at most.
LEMMA TakenIsPromised ==
    ASSUME IInv, NEW p \in Payments, NEW r, Takes(p, r), rail' = rail
    PROVE  [Promise!Next]_(Promise!vars)
<1>1. issued' = issued \cup {p} /\ vouched' \in {vouched, vouched \cup {p}}
  BY TakenGrows
<1>2. PICK paid \in {{}, {p}} : vouched' = vouched \cup paid
  BY <1>1
<1>3. Promise!Hear({p}, paid)
  BY <1>1, <1>2 DEF Promise!Hear
<1>4. QED
  BY <1>2, <1>3 DEF Promise!Next

\* The operator vouches for a payment this instance knows.
LEMMA WebhookTestVouches ==
    ASSUME IInv, NEW i \in Instances, NEW p \in Payments, NEW st, WebhookTest(i, p, st)
    PROVE  /\ p \in issued /\ issued' = issued /\ rail' = rail
           /\ vouched' = vouched \/ vouched' = vouched \cup {p}
<1>1. Known(i, p) /\ Vouched(IF st = "CONFIRMED" THEN {p} ELSE {}) /\ rail' = rail
  BY DEF WebhookTest, HandleSaved
<1>2. QED
  BY <1>1, OwnCopy DEF Vouched

\* The rail delivers what it is asked to and has no key of yet, all of it paid for.
LEMMA CommitDelivers ==
    ASSUME IInv, NEW i \in Instances, commitSettlementToRail(i)
    PROVE  /\ issued' = issued /\ vouched' = vouched
           /\ \E ps \in SUBSET vouched :
                 /\ \A p \in ps : rail.dvps[p] = 0
                 /\ rail'.dvps = [p \in Payments |-> rail.dvps[p] + IF p \in ps THEN 1 ELSE 0]
<1>1. /\ Working(i, "rail") /\ Then(i, job[i].ps, Rest(i)) /\ issued' = issued /\ vouched' = vouched
      /\ \E K : Posted(K, job[i].ps)
  BY Zenon DEF commitSettlementToRail, history
<1>2. job[i].ps \subseteq vouched /\ SoundRail(rail) /\ vouched \subseteq Payments
  BY <1>1, WorkedIsSound DEF IInv
<1>3. PICK K : Posted(K, job[i].ps)
  BY <1>1
<1>4. PICK ps : ps = {p \in job[i].ps : rail.dvps[p] = 0 /\ "dvp" \in K}
  OBVIOUS
<1>5. /\ \A p \in Payments :
            rail'.dvps[p] = IF rail.dvps[p] = 0 /\ "dvp" \in K /\ p \in job[i].ps THEN 1 ELSE rail.dvps[p]
      /\ SoundRail(rail')
  BY <1>2, <1>3, PostedIsSound
<1>6. rail'.dvps \in [Payments -> Nat] /\ rail.dvps \in [Payments -> Nat]
  BY <1>2, <1>5 DEF SoundRail
<1>7. \A p \in Payments : rail'.dvps[p] = rail.dvps[p] + IF p \in ps THEN 1 ELSE 0
  BY <1>4, <1>5, <1>6
<1>8. rail'.dvps = [p \in Payments |-> rail.dvps[p] + IF p \in ps THEN 1 ELSE 0]
  BY <1>6, <1>7
<1>9. ps \in SUBSET vouched /\ \A p \in ps : rail.dvps[p] = 0
  BY <1>2, <1>4
<1>10. QED
  BY <1>1, <1>8, <1>9

\* Every step is a step of the promise, or none of its business.
LEMMA StepsArePromised ==
    ASSUME IInv, [Next]_vars PROVE [Promise!Next]_(Promise!vars)
<1> DEFINE Same3 == issued' = issued /\ vouched' = vouched /\ rail'.dvps = rail.dvps
<1>1. Same3 => [Promise!Next]_(Promise!vars)
  BY DEF Promise!vars
<1>2. ASSUME NEW p \in issued, issued' = issued, rail' = rail, vouched' = vouched \cup {p}
      PROVE  [Promise!Next]_(Promise!vars)
  <2>1. p \in Payments
    BY <1>2 DEF IInv
  <2>2. Promise!Hear({}, {p})
    BY <1>2 DEF Promise!Hear
  <2>3. QED
    BY <2>1, <2>2 DEF Promise!Next
<1>3. ASSUME NEW i \in Instances, NEW k \in Keys, NEW p \in Payments, Collect(i, k, p)
      PROVE  [Promise!Next]_(Promise!vars)
  <2>1. p \notin issued /\ issued' = issued \cup {p} /\ vouched' = vouched /\ rail' = rail
    BY <1>3 DEF Collect
  <2>2. Promise!Hear({p}, {})
    BY <2>1 DEF Promise!Hear
  <2>3. QED
    BY <2>2 DEF Promise!Next
<1>4. ASSUME NEW i \in Instances, commitSettlementToRail(i) PROVE [Promise!Next]_(Promise!vars)
  <2>1. PICK ps \in SUBSET vouched :
          /\ \A p \in ps : rail.dvps[p] = 0
          /\ rail'.dvps = [p \in Payments |-> rail.dvps[p] + IF p \in ps THEN 1 ELSE 0]
    BY <1>4, CommitDelivers
  <2>2. issued' = issued /\ vouched' = vouched /\ ps \in SUBSET Payments /\ rail.dvps \in [Payments -> Nat]
    BY <1>4, CommitDelivers DEF IInv, SoundRail
  <2>3. CASE ps = {}
    <3>1. \A p \in Payments : rail.dvps[p] \in Nat /\ rail.dvps[p] + 0 = rail.dvps[p]
      BY <2>2
    <3>2. rail'.dvps = rail.dvps
      BY <2>1, <2>2, <2>3, <3>1
    <3>3. QED
      BY <1>1, <2>2, <3>2
  <2>4. CASE ps # {}
    BY <2>1, <2>2, <2>4 DEF Promise!Next, Promise!Deliver
  <2>5. QED
    BY <2>3, <2>4
<1>5. CASE UNCHANGED vars
  BY <1>1, <1>5 DEF vars, history
<1>6. ASSUME NEW p \in Payments, PayAtProvider(p) PROVE [Promise!Next]_(Promise!vars)
  BY <1>2, <1>6 DEF PayAtProvider, Vouched
<1>7. ASSUME NEW i \in Instances, Begin(i) \/ Answer(i) \/ Backfill(i) \/ Recycle(i)
      PROVE  Same3
  BY <1>7 DEF Begin, Answer, Backfill, Recycle, history
<1>8. ASSUME NEW i \in Instances, settleConfirmedPayment(i) \/ Persist(i) \/ SaveAll(i) PROVE Same3
  BY Zenon, <1>8 DEF settleConfirmedPayment, Persist, SaveAll, history
<1>9. ASSUME NEW i \in Instances, NEW p \in Payments, Buyer(i, p) PROVE [Promise!Next]_(Promise!vars)
  <2>1. CASE SettleRoute(i, p) \/ Reattach(i, p) \/ ApproveFails(i, p) \/ Approve(i, p)
    <3>1. rail' = rail /\ \E r : Takes(p, r)
      BY Zenon, <2>1 DEF SettleRoute, Reattach, ApproveFails, Approve, Handle, HandleSaved
    <3>2. QED
      BY <3>1, TakenIsPromised
  <2>2. CASE Get(i, p) \/ Decline(i, p) \/ Release(i, p) \/ Refund(i, p)
    <3>1. Same3
      BY <2>2 DEF Get, Decline, Release, Refund, Same, Handle
    <3>2. QED
      BY <1>1, <3>1
  <2>3. ASSUME NEW st, TransferReceipt(i, p, st) PROVE [Promise!Next]_(Promise!vars)
    <3>1. rail' = rail /\ \E r : Takes(p, r)
      BY Zenon, <2>3 DEF TransferReceipt, Handle, HandleSaved
    <3>2. QED
      BY <3>1, TakenIsPromised
  <2>4. QED
    BY <1>3, <1>9, <2>1, <2>2, <2>3 DEF Buyer
<1>10. ASSUME NEW i \in Instances, NEW p \in Payments, Provider(i, p) PROVE [Promise!Next]_(Promise!vars)
  <2>1. ASSUME NEW st, WebhookTest(i, p, st) PROVE [Promise!Next]_(Promise!vars)
    BY <1>1, <1>2, <2>1, WebhookTestVouches
  <2>2. ASSUME NEW s, PayuCallback(i, p, s) \/ Reconcile(i, p, s) PROVE Same3
    BY <2>2 DEF PayuCallback, Reconcile, Same, Handle, HandleSaved
  <2>3. CASE Timeout(i, p) \/ WebhookMismatch(i, p)
    <3>1. Same3
      BY <2>3 DEF Timeout, WebhookMismatch, Same, Handle, HandleSaved
    <3>2. QED
      BY <1>1, <3>1
  <2>4. ASSUME NEW st, Callback(i, p, st) \/ Webhook(i, p, st) PROVE [Promise!Next]_(Promise!vars)
    <3>1. rail' = rail /\ Word(p, st) /\ p \in issued
      BY <2>4, OwnCopy DEF Callback, Webhook, HandleSaved
    <3>2. issued' = issued /\ vouched' \in {vouched, vouched \cup {p}}
      BY <3>1, WordGrows
    <3>3. QED
      BY <1>1, <1>2, <3>1, <3>2
  <2>5. QED
    BY <1>1, <1>10, <2>1, <2>2, <2>3, <2>4 DEF Provider
<1>11. ASSUME NEW i \in Instances, Runs(i) PROVE [Promise!Next]_(Promise!vars)
  BY <1>1, <1>4, <1>8, <1>11 DEF Runs
<1>12. QED
  BY <1>1, <1>5, <1>6, <1>7, <1>9, <1>10, <1>11 DEF Next

\* However many instances settle a purchase, however often, and whatever answers are
\* lost, the rail delivers it at most once and never before somebody vouched for it:
\* the payments of the API implement the promise of a purchase.
THEOREM PromiseIsKept == Spec => RailKeepsThePromise
<1>1. Init => IInv /\ Promise!Init
  BY Initially DEF Init, Promise!Init
<1>2. IInv /\ [Next]_vars => IInv'
  BY Inductive
<1>3. IInv /\ [Next]_vars => [Promise!Next]_(Promise!vars)
  BY StepsArePromised
<1>4. QED
  BY <1>1, <1>2, <1>3, PTL DEF Spec, RailKeepsThePromise, Promise!Spec
=============================================================================
