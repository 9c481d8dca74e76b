----------------------------- MODULE EdgeMarket -----------------------------
(***************************************************************************)
(* The market in the serverless API (frontend/api/index.js): listings,     *)
(* holdings, pledges and swaps on several warm instances.  Each instance   *)
(* has its memory and its /tmp file and handles one request at a time;     *)
(* they share the rows of one database (db_real.js, postgres).             *)
(*                                                                         *)
(* Every request loads first: the instance's file if it has one, else the  *)
(* rows.  A handler changes memory; most then save everything, to the      *)
(* file at once and to the rows without waiting: those row writes take     *)
(* effect, or are lost when the instance is frozen after its answer, or    *)
(* take effect later; and a row write that returns puts what it wrote into *)
(* the instance's file and memory once more, whatever they hold by then.   *)
(* Transfers, registrations and withdrawals then wait for the rows they    *)
(* care about, one by one.  Pledges and swap proposals live in memory      *)
(* alone.                                                                  *)
(*                                                                         *)
(* Left out: who asks, idempotency keys, transfer records, database        *)
(* outages; the rows start with the seeded listing in them.                *)
(***************************************************************************)
EXTENDS Integers, Sequences, FiniteSetsExt

CONSTANTS
    Instances,    \* warm lambdas
    Fixed,        \* the listing every instance knows (PROP-GREEN-VALLEY-PUNE-001)
    Others,       \* ids of other listings
    People,
    Originator,   \* originator1, who owns the fixed listing
    SeedHoldings, \* holdings of the listings the rows start with, Fixed among them
    Supply,       \* supply a client's copy stands for when it names none
    Amounts,      \* tokens a request may name
    Loans, Swaps,
    Stragglers,   \* sets of rows a save may leave under way
    MaxLate,      \* bound: row writes an instance has under way
    MaxRequests,  \* bound: requests
    MaxRecycles   \* bound: instances thrown away

Assets == {Fixed} \cup Others
ASSUME EdgeMarketConstants ==
    /\ Originator \in People /\ Fixed \in DOMAIN SeedHoldings /\ DOMAIN SeedHoldings \subseteq Assets
    /\ \A a \in DOMAIN SeedHoldings : DOMAIN SeedHoldings[a] \subseteq People
    /\ Supply \in Nat /\ Amounts \subseteq Nat \ {0} /\ Fixed \notin Others
    /\ \A a \in DOMAIN SeedHoldings : \A h \in DOMAIN SeedHoldings[a] : SeedHoldings[a][h] \in Nat
    /\ IsFiniteSet(Others) /\ IsFiniteSet(People) /\ IsFiniteSet(Loans)
    /\ MaxLate \in Nat /\ MaxRequests \in Nat /\ MaxRecycles \in Nat

VARIABLES
    mem,      \* each instance's module variables
    file,     \* each instance's /tmp: listings and holdings
    store,    \* the rows: listings and holdings
    job,      \* what each instance is doing
    underway, \* row writes of each instance that nobody waits for
    left,     \* what the last answered write of each instance left (history)
    owed,     \* holdings a transfer owes to the rows, due once answered (history)
    requests, recycles

vars == <<mem, file, store, job, underway, left, owed, requests, recycles>>
bounds == <<requests, recycles>>
-----------------------------------------------------------------------------
(* Listings, holdings and their copies *)
NoProp == [st |-> "none", val |-> "PENDING", owner |-> Originator, total |-> 0,
           before |-> "none", loose |-> FALSE]
SumOf(f) == MapThenSumSet(LAMBDA x : f[x], DOMAIN f)
Tokenized(o, n) == [NoProp EXCEPT !.st = "TOKENIZED", !.val = "VALIDATED", !.owner = o, !.total = n]
NoLoan == [st |-> "none", by |-> Originator, asset |-> Fixed, n |-> 0]
NoSwap == [st |-> "none", from |-> Originator, to |-> Originator,
           give |-> Fixed, gt |-> 0, get |-> Fixed, rt |-> 0]

\* Object spread: the left argument wins.  Holdings are keyed <<listing, holder>>.
Over(new, old) ==
    [x \in DOMAIN new \cup DOMAIN old |-> IF x \in DOMAIN new THEN new[x] ELSE old[x]]
Empty == [x \in {} |-> 0]
Only(k, n) == [x \in {k} |-> n]
Held(b, k) == IF k \in DOMAIN b THEN b[k] ELSE 0
Moved(b, a, from, to, n) ==
    Over([k \in {<<a, from>>, <<a, to>>} |->
             IF k[2] = to THEN Held(b, k) + n ELSE Held(b, k) - n], b)
Of(b, a) == {k \in DOMAIN b : k[1] = a}
supplyHeadroom(b, a, except, total) ==
    Max({0, total - SumOf([k \in Of(b, a) \ {<<a, except>>} |-> b[k]])})

Seeded == DOMAIN SeedHoldings
SeedProp == [a \in Assets |-> IF a \in Seeded THEN Tokenized(Originator, SumOf(SeedHoldings[a])) ELSE NoProp]
SeedBal == [k \in {x \in Seeded \X People : x[2] \in DOMAIN SeedHoldings[x[1]]} |-> SeedHoldings[k[1]][k[2]]]
NoFile == [prop |-> [a \in Assets |-> NoProp], bal |-> Empty]
Cold == [prop |-> NoFile.prop, bal |-> Empty,
         loans |-> [l \in Loans |-> NoLoan], swaps |-> [w \in Swaps |-> NoSwap]]
Books(m) == [prop |-> m.prop, bal |-> m.bal]

\* initState: rows, the fixed listing if they lack it, and the file over them.
getProperties == [store.prop EXCEPT ![Fixed] = IF @ = NoProp THEN SeedProp[Fixed] ELSE @]
initState(i) ==
    [mem[i] EXCEPT
        !.prop = IF file[i].prop # NoFile.prop THEN file[i].prop ELSE getProperties,
        !.bal = IF file[i].bal # Empty THEN file[i].bal ELSE store.bal]

drunixLockedTokens(m, a, h) ==
    SumOf([l \in {x \in Loans : m.loans[x].st = "ACTIVE" /\ m.loans[x].asset = a /\ m.loans[x].by = h} |->
              m.loans[l].n])

\* The rows of a copy, and a copy with one row written.
PropRow(a, p) == [of |-> "prop", a |-> a, h |-> Originator, p |-> p, n |-> 0]
BalRow(k, n) == [of |-> "bal", a |-> k[1], h |-> k[2], p |-> NoProp, n |-> n]
RowsOf(m) ==
    {PropRow(a, m.prop[a]) : a \in {x \in Assets : m.prop[x] # NoProp}}
    \cup {BalRow(k, m.bal[k]) : k \in DOMAIN m.bal}
RowKey(r) == <<r.of, r.a, r.h>>
RowPut(b, r) ==
    IF r.of = "prop" THEN [b EXCEPT !.prop[r.a] = r.p]
    ELSE [b EXCEPT !.bal = Over(Only(<<r.a, r.h>>, r.n), @)]

\* A row write of the instance that says otherwise is still under way.
Contested(i, r) ==
    \E w \in underway[i] : w.row # r /\ RowKey(w.row) = RowKey(r)

\* The rows that are written at once, over what is there.
Quick(m, slow) == [k \in {x \in DOMAIN m.bal : BalRow(x, m.bal[x]) \notin slow} |-> m.bal[k]]
Rows(m, s, slow) ==
    [prop |-> [a \in Assets |-> IF m.prop[a] = NoProp \/ PropRow(a, m.prop[a]) \in slow
                                THEN s.prop[a] ELSE m.prop[a]],
     bal |-> Over(Quick(m, slow), s.bal)]
\* A row that is written with another value is not owed any more.
StillOwed(rows) ==
    [k \in {x \in DOMAIN owed : x \notin DOMAIN rows \/ rows[x] = owed[x].n} |-> owed[k]]
Owes(i, m, q) ==
    IF q.n = 0 THEN Empty
    ELSE [k \in {x \in {<<q.on, q.from>>, <<q.on, q.to>>} : ~Contested(i, BalRow(x, m.bal[x]))} |->
             [n |-> m.bal[k], by |-> i, due |-> FALSE]]

\* The file holds everything at once; some row writes stay under way, and the
\* other rows may not be reached.
saveAllPersisted(i, m, q) ==
    /\ file' = [file EXCEPT ![i] = Books(m)]
    /\ \E keys \in Stragglers :
          LET slow == {r \in RowsOf(m) : RowKey(r) \in keys}
              under == underway[i] \cup {[row |-> r, back |-> FALSE] : r \in slow}
          IN
          /\ Cardinality(under) <= MaxLate /\ underway' = [underway EXCEPT ![i] = under]
          /\ \/ store' = Rows(m, store, slow) /\ owed' = Over(Owes(i, m, q), StillOwed(Quick(m, slow)))
             \/ UNCHANGED store /\ owed' = Over(Owes(i, m, q), owed)
Unsaved == UNCHANGED <<file, store, underway, owed>>
-----------------------------------------------------------------------------
(* A request: load, handle, and the writes it waits for *)
NoReq == [asked |-> Fixed, on |-> Fixed, from |-> Originator, to |-> Originator, n |-> 0]
Idle == [at |-> "idle", q |-> NoReq, todo |-> <<>>]
Loaded(i) == job[i].at = "loaded"
Begin(i) ==
    /\ job[i].at = "idle" /\ requests < MaxRequests /\ requests' = requests + 1
    /\ mem' = [mem EXCEPT ![i] = initState(i)]
    /\ job' = [job EXCEPT ![i] = [Idle EXCEPT !.at = "loaded"]]
    /\ UNCHANGED <<file, store, underway, left, owed, recycles>>

Become(i, m) == mem' = [mem EXCEPT ![i] = m]
Then(i, q, todo) ==
    job' = [job EXCEPT ![i] = IF todo = <<>> THEN Idle ELSE [at |-> "run", q |-> q, todo |-> todo]]
\* Answered with success: the instance should know of it from now on, but for
\* what an earlier row write is about to put back.
Left(i, m) ==
    left' = [left EXCEPT ![i] =
        [prop |-> [a \in Assets |-> IF Contested(i, PropRow(a, m.prop[a])) THEN NoProp ELSE m.prop[a]],
         bal |-> [k \in {x \in DOMAIN m.bal : ~Contested(i, BalRow(x, m.bal[x]))} |-> m.bal[k]]]]

HandleSaved(i, m, q, todo) ==
    /\ Become(i, m) /\ saveAllPersisted(i, m, q) /\ Left(i, m) /\ Then(i, q, todo) /\ UNCHANGED bounds
HandleInMemory(i, m) ==
    /\ Become(i, m) /\ Unsaved /\ Then(i, NoReq, <<>>) /\ UNCHANGED <<left, bounds>>
Prop(i, a) == mem[i].prop[a]
WithProp(i, a, p) == [mem[i] EXCEPT !.prop[a] = p]
On(a) == [NoReq EXCEPT !.asked = a, !.on = a]
-----------------------------------------------------------------------------
(* A listing's life *)
Register(i, a, o) ==
    /\ Loaded(i) /\ \A j \in Instances : Prop(j, a) = NoProp /\ file[j].prop[a] = NoProp
    /\ store.prop[a] = NoProp
    /\ HandleSaved(i, WithProp(i, a, [NoProp EXCEPT !.st = "DRAFT", !.owner = o]), On(a), <<"prop">>)

Validate(i, a, decision) ==
    /\ Loaded(i) /\ Prop(i, a) # NoProp
    /\ HandleSaved(i, WithProp(i, a, [Prop(i, a) EXCEPT !.val = decision]), NoReq, <<>>)

\* A listing the instance has never heard of is made up for the asker.
Mintable(i, a, o) ==
    IF Prop(i, a) # NoProp THEN Prop(i, a)
    ELSE [NoProp EXCEPT !.st = "DRAFT", !.val = "VALIDATED", !.owner = o, !.loose = TRUE]
Mint(i, a, o, n) ==
    LET p == Mintable(i, a, o)
        k == <<a, p.owner>>
        m == WithProp(i, a, [p EXCEPT !.total = n, !.st = "TOKENIZED"])
    IN  /\ Loaded(i) /\ p.st # "TOKENIZED"
        /\ p.val = "VALIDATED" \/ p.loose
        /\ IF Held(m.bal, k) = n THEN HandleInMemory(i, m)   \* 409, but the listing stands
           ELSE /\ Become(i, [m EXCEPT !.bal = Over(Only(k, n), @)]) /\ Unsaved
                /\ Then(i, On(a), <<"seedRailPosition", "saveAll">>) /\ UNCHANGED <<left, bounds>>

\* (mutant: the freeze lives in this instance's memory only)
Freeze_Unsaved(i, a) ==
    LET m == WithProp(i, a, [Prop(i, a) EXCEPT !.before = Prop(i, a).st, !.st = "FROZEN"])
    IN  /\ Loaded(i) /\ Prop(i, a).st \notin {"none", "FROZEN"}
        /\ Become(i, m) /\ Unsaved /\ Left(i, m) /\ Then(i, NoReq, <<>>) /\ UNCHANGED bounds
Freeze(i, a) ==
    /\ Loaded(i) /\ Prop(i, a).st \notin {"none", "FROZEN"}
    /\ HandleSaved(i, WithProp(i, a, [Prop(i, a) EXCEPT !.before = Prop(i, a).st, !.st = "FROZEN"]),
                   NoReq, <<>>)
Unfreeze(i, a) ==
    LET p == Prop(i, a)
    IN  /\ Loaded(i) /\ p.st = "FROZEN"
        /\ HandleSaved(i, WithProp(i, a,
               [p EXCEPT !.st = IF p.before = "none" THEN "TOKENIZED" ELSE p.before, !.before = "none"]),
               NoReq, <<>>)

\* Holders are bought out; only the listing's row is waited for.
Delete(i, a) ==
    LET o == <<a, Prop(i, a).owner>>
        b == mem[i].bal
        out == SumOf([k \in Of(b, a) \ {o} |-> b[k]])
        zero == [k \in DOMAIN b |-> IF k \in Of(b, a) \ {o} THEN 0 ELSE b[k]]
    IN  /\ Loaded(i) /\ Prop(i, a) # NoProp
        /\ HandleSaved(i,
               [WithProp(i, a, [Prop(i, a) EXCEPT !.st = "WITHDRAWN"]) EXCEPT
                   !.bal = IF out > 0 THEN Over(Only(o, Held(b, o) + out), zero) ELSE zero],
               On(a), <<"prop">>)
-----------------------------------------------------------------------------
(* Transfers *)
\* What a client may hold of a listing: an answer of some instance.
ClientCopies(a) == ({mem[j].prop[a] : j \in Instances} \cup {store.prop[a]}) \ {NoProp}
\* The listing a transfer works on: the one named; the client's copy of it;
\* or else the fixed one.
Listings(i, a) ==
    IF Prop(i, a) # NoProp THEN {[on |-> a, p |-> Prop(i, a)]}
    ELSE {[on |-> Fixed, p |-> Prop(i, Fixed)]}
         \cup {[on |-> a, p |-> Tokenized(c.owner, IF c.total = 0 THEN Supply ELSE c.total)] :
                 c \in ClientCopies(a)}

\* (mutant: pledged tokens may be spent)
Spendable_Pledged(m, q) == m.bal[<<q.on, q.from>>]
Spendable(m, q) == m.bal[<<q.on, q.from>>] - drunixLockedTokens(m, q.asked, q.from)
\* (mutant: the receiver's row is not waited for)
Awaited_Sender == <<"from", "prop">>
Awaited == <<"from", "to", "prop">>
Move(i, m, q) ==
    IF Spendable(m, q) >= q.n
    THEN HandleSaved(i, [m EXCEPT !.bal = Moved(@, q.on, q.from, q.to, q.n)], q, Awaited)
    ELSE HandleInMemory(i, m)

\* What the sender holds, when this instance has no record of it: the record
\* under the id named; the receipts the client shows; the unsold rest, for an
\* owner; the row as it is in the database now.
Transfer(i, a, from, to, n) ==
    /\ Loaded(i) /\ from # to
    /\ \E l \in Listings(i, a) :
          LET q == [asked |-> a, on |-> l.on, from |-> from, to |-> to, n |-> n]
              m == WithProp(i, l.on, l.p)
              k == <<l.on, from>>
              alias == <<a, from>>
              room == supplyHeadroom(m.bal, l.on, from, l.p.total)
              Given(v) == [m EXCEPT !.bal = Over(Only(k, v), @)]
          IN  IF l.p.st # "TOKENIZED" THEN HandleInMemory(i, m)
              ELSE IF k \in DOMAIN m.bal THEN Move(i, m, q)
              ELSE IF alias \in DOMAIN m.bal THEN Move(i, Given(m.bal[alias]), q)
              ELSE \/ \E shown \in Amounts :
                         LET v == Min({shown, room})
                         IN  IF v < n THEN HandleInMemory(i, m)
                             ELSE /\ Become(i, Given(v)) /\ owed' = StillOwed(Only(k, v))
                                  /\ store' = [store EXCEPT !.bal = Over(Only(k, v), @)]
                                  /\ file' = [file EXCEPT ![i].bal = Over(Only(k, v), @)]
                                  /\ Then(i, q, <<"move">>) /\ UNCHANGED <<underway, left, bounds>>
                   \/ /\ from \in {l.p.owner, Originator} \/ l.p.loose
                      /\ Move(i, Given(room), q)
                   \/ /\ from \notin {l.p.owner, Originator} /\ ~l.p.loose
                      /\ LET v == IF k \in DOMAIN store.bal THEN store.bal[k] ELSE Held(store.bal, alias)
                         IN  IF v >= n THEN Move(i, Given(v), q) ELSE HandleInMemory(i, m)
-----------------------------------------------------------------------------
(* Pledges and swaps *)
Pledge(i, l, h, a, n) ==
    /\ Loaded(i) /\ Prop(i, a).total > 0 /\ \A j \in Instances : mem[j].loans[l] = NoLoan
    /\ drunixLockedTokens(mem[i], a, h) + n <= Held(mem[i].bal, <<a, h>>) \div 2
    /\ HandleInMemory(i, [mem[i] EXCEPT !.loans[l] = [st |-> "ACTIVE", by |-> h, asset |-> a, n |-> n]])
Repay(i, l) ==
    /\ Loaded(i) /\ mem[i].loans[l].st = "ACTIVE"
    /\ HandleInMemory(i, [mem[i] EXCEPT !.loans[l].st = "REPAID"])

Covers(m, h, a, n) == <<a, h>> \in DOMAIN m.bal /\ m.bal[<<a, h>>] >= n + drunixLockedTokens(m, a, h)
Swappable(m, s) ==
    /\ m.prop[s.give].st = "TOKENIZED" /\ m.prop[s.get].st = "TOKENIZED"
    /\ Covers(m, s.from, s.give, s.gt) /\ Covers(m, s.to, s.get, s.rt)
\* (mutant: a proposal is not checked again when it is accepted)
StillSwappable_Trusted(m, s) == TRUE
StillSwappable(m, s) == Swappable(m, s)
Propose(i, w, s) ==
    /\ Loaded(i) /\ s.from # s.to /\ s.give # s.get /\ Swappable(mem[i], s)
    /\ \A j \in Instances : mem[j].swaps[w] = NoSwap
    /\ HandleInMemory(i, [mem[i] EXCEPT !.swaps[w] = s])
Accept(i, w) ==
    LET s == mem[i].swaps[w]
    IN  /\ Loaded(i) /\ s.st = "PROPOSED" /\ StillSwappable(mem[i], s)
        /\ HandleSaved(i,
               [mem[i] EXCEPT !.bal = Moved(Moved(@, s.give, s.from, s.to, s.gt), s.get, s.to, s.from, s.rt),
                              !.swaps[w].st = "SETTLED"], NoReq, <<>>)
Cancel(i, w) ==
    /\ Loaded(i) /\ mem[i].swaps[w].st = "PROPOSED"
    /\ HandleInMemory(i, [mem[i] EXCEPT !.swaps[w].st = "CANCELLED"])
-----------------------------------------------------------------------------
(* What is waited for, and instances thrown away *)
Rest(i) == Then(i, job[i].q, Tail(job[i].todo))
saveBalance(i, k) ==
    /\ store' = [store EXCEPT !.bal = Over(Only(k, mem[i].bal[k]), @)]
    /\ file' = [file EXCEPT ![i].bal = Over(Only(k, mem[i].bal[k]), @)]
    /\ owed' = StillOwed(Only(k, mem[i].bal[k]))
\* A transfer's last write; its answer follows.
saveProperty(i, q) ==
    LET ks == {<<q.on, q.from>>, <<q.on, q.to>>}
    IN  /\ store' = [store EXCEPT !.prop[q.on] = mem[i].prop[q.on]]
        /\ file' = [file EXCEPT ![i].prop[q.on] = mem[i].prop[q.on]]
        /\ owed' = [k \in DOMAIN owed |->
                       IF q.n > 0 /\ k \in ks /\ owed[k].by = i
                       THEN [owed[k] EXCEPT !.due = TRUE] ELSE owed[k]]
Continue(i) ==
    LET q == job[i].q
        step == Head(job[i].todo)
    IN  /\ job[i].at = "run"
        /\ \/ step = "move" /\ Move(i, mem[i], q)
           \/ step = "saveAll" /\ HandleSaved(i, mem[i], NoReq, <<>>)
           \/ /\ step = "seedRailPosition" /\ Unsaved /\ Rest(i) /\ UNCHANGED <<mem, left, bounds>>
           \/ /\ step = "from" /\ saveBalance(i, <<q.on, q.from>>)
              /\ Rest(i) /\ UNCHANGED <<mem, underway, left, bounds>>
           \/ /\ step = "to" /\ saveBalance(i, <<q.on, q.to>>)
              /\ Rest(i) /\ UNCHANGED <<mem, underway, left, bounds>>
           \/ /\ step = "prop" /\ saveProperty(i, q)
              /\ Rest(i) /\ UNCHANGED <<mem, underway, left, bounds>>

\* An unawaited write gets to its row, or fails ...
Lands(i, w) ==
    /\ w \in underway[i] /\ ~w.back
    /\ underway' = [underway EXCEPT ![i] = (@ \ {w}) \cup {[w EXCEPT !.back = TRUE]}]
    /\ \/ /\ store' = RowPut(store, w.row)
          /\ owed' = IF w.row.of = "prop" THEN owed ELSE StillOwed(Only(<<w.row.a, w.row.h>>, w.row.n))
       \/ UNCHANGED <<store, owed>>
    /\ UNCHANGED <<mem, file, job, left, bounds>>
\* ... and then writes the instance's file and memory over.
Returns(i, w) ==
    /\ w \in underway[i] /\ w.back /\ underway' = [underway EXCEPT ![i] = @ \ {w}]
    /\ mem' = [mem EXCEPT ![i] = RowPut(@, w.row)] /\ file' = [file EXCEPT ![i] = RowPut(@, w.row)]
    /\ UNCHANGED <<store, job, left, owed, bounds>>

\* (A query that outlives its instance counts as one that landed before.)
Recycle(i) ==
    /\ recycles < MaxRecycles /\ recycles' = recycles + 1 /\ mem[i] # Cold
    /\ mem' = [mem EXCEPT ![i] = Cold] /\ file' = [file EXCEPT ![i] = NoFile]
    /\ job' = [job EXCEPT ![i] = Idle] /\ left' = [left EXCEPT ![i] = NoFile]
    /\ underway' = [underway EXCEPT ![i] = {}]
    /\ owed' = [k \in {x \in DOMAIN owed : owed[x].due \/ owed[x].by # i} |-> owed[k]]
    /\ UNCHANGED <<store, requests>>
-----------------------------------------------------------------------------
Init ==
    /\ mem = [i \in Instances |-> Cold] /\ file = [i \in Instances |-> NoFile]
    /\ store = [prop |-> SeedProp, bal |-> SeedBal]
    /\ job = [i \in Instances |-> Idle] /\ underway = [i \in Instances |-> {}]
    /\ left = file /\ owed = Empty /\ requests = 0 /\ recycles = 0

Offers(a, b) ==
    [st : {"PROPOSED"}, from : People, to : People, give : {a}, gt : Amounts, get : {b}, rt : Amounts]
Listing(i, a) ==
    \/ \E o \in People : a \in Others /\ Register(i, a, o)
    \/ \E d \in {"VALIDATED", "REJECTED"} : Validate(i, a, d)
    \/ \E o \in People, n \in Amounts : Mint(i, a, o, n)
    \/ Freeze(i, a) \/ Unfreeze(i, a) \/ Delete(i, a)
Trading(i, a) ==
    \/ \E h, g \in People, n \in Amounts : Transfer(i, a, h, g, n)
    \/ \E l \in Loans, h \in People, n \in Amounts : Pledge(i, l, h, a, n)
    \/ \E w \in Swaps, b \in Assets : \E s \in Offers(a, b) : Propose(i, w, s)
Next ==
    \E i \in Instances :
        \/ Begin(i) \/ Continue(i) \/ Recycle(i)
        \/ \E w \in underway[i] : Lands(i, w) \/ Returns(i, w)
        \/ \E a \in Assets : Listing(i, a) \/ Trading(i, a)
        \/ \E l \in Loans : Repay(i, l)
        \/ \E w \in Swaps : Accept(i, w) \/ Cancel(i, w)

Spec == Init /\ [][Next]_vars
-----------------------------------------------------------------------------
HoldingsIn(b) == DOMAIN b \subseteq Assets \X People /\ \A k \in DOMAIN b : b[k] \in Nat
PropRecords ==
    [st : {"none", "DRAFT", "TOKENIZED", "FROZEN", "WITHDRAWN"},
     val : {"PENDING", "VALIDATED", "REJECTED"}, owner : People, total : Nat,
     before : {"none", "DRAFT", "TOKENIZED", "WITHDRAWN"}, loose : BOOLEAN]
\* The type invariant: in no copy does anybody hold less than nothing.
TypeOK ==
    /\ HoldingsIn(store.bal) /\ \A a \in Assets : store.prop[a] \in PropRecords
    /\ \A i \in Instances :
          /\ HoldingsIn(mem[i].bal) /\ HoldingsIn(file[i].bal)
          /\ \A a \in Assets : mem[i].prop[a] \in PropRecords /\ file[i].prop[a] \in PropRecords
          /\ job[i].at \in {"idle", "loaded", "run"}
          /\ Cardinality(underway[i]) <= MaxLate
    /\ requests \in 0..MaxRequests /\ recycles \in 0..MaxRecycles

\* What an instance has answered with success it finds again when it loads for
\* the next request, but for rows that an earlier write was still under way to
\* when it answered: a freeze that lived in memory only would be gone.
WritesAreKept ==
    \A i \in Instances : Loaded(i) =>
        /\ \A a \in Assets : left[i].prop[a] # NoProp => mem[i].prop[a] = left[i].prop[a]
        /\ \A k \in DOMAIN left[i].bal : Held(mem[i].bal, k) = left[i].bal[k]

\* What an instance answered with success it finds again, unless an unawaited
\* write of an older value was still under way, and no holding goes below zero.
WritesAreSound == TypeOK /\ WritesAreKept

\* A transfer that names a listing this instance knows, and every swap, leaves
\* what is pledged, and moves tokens of open listings only, unless it waited for
\* a row in between, when an older write may close the listing.  (Withdrawing a
\* listing and minting it again look at neither; nor does a late write.)
PledgesHold ==
    [][\A i \in Instances : \A k \in DOMAIN mem[i].bal :
          LET p == mem[i].prop[k[1]]
              q == job'[i].q
          IN  job[i].at # "idle" /\ job'[i] # job[i] /\ q.asked = q.on /\ recycles' = recycles
              /\ (q.n > 0 \/ job'[i].at = "idle") /\ mem'[i].prop[k[1]] = p /\ Held(mem'[i].bal, k) < mem[i].bal[k] =>
                  /\ job[i].at = "loaded" => p.st = "TOKENIZED"
                  /\ Held(mem'[i].bal, k) >= drunixLockedTokens(mem[i], k[1], k[2])]_vars

\* Once a transfer is answered, the rows hold what it left of both parties,
\* whatever becomes of the instance, until somebody writes those rows again.
TransfersReachTheRows ==
    \A k \in DOMAIN owed : owed[k].due => Held(store.bal, k) = owed[k].n
=============================================================================
