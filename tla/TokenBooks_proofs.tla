------------------------- MODULE TokenBooks_proofs -------------------------
(***************************************************************************)
(* What the settlement process says of tokens, for any number of           *)
(* everything: the supply of an asset and the offers of the secondary      *)
(* market; and the tables that rail and supply write                       *)
(* (TablesDoCatchUp, from the invariants of both).                         *)
(*                                                                         *)
(* Supply (SupplyStaysKept, by SupplyInv).  The newest row of a holder     *)
(* says what the book says, unless a call has changed the tokens and has   *)
(* not stamped its row yet.  While calls come one at a time, what a seed   *)
(* was told of the cap and of the others' tokens is still true when it     *)
(* sets its own.                                                           *)
(*                                                                         *)
(* Offers (OffersStayTrue, by BookInv).  The units of an offer are left in *)
(* it, held by a take, or settled.  While requests come one at a time, an  *)
(* offer is what the fold over the blocks tells of it, but for what the    *)
(* one take under way holds; and its seller has what is on offer and what  *)
(* is held.                                                                *)
(***************************************************************************)
EXTENDS Settlement_proofs, MCSettlement, FiniteSums, Sequences, TLAPS

-----------------------------------------------------------------------------
(* The supply: what its calls do, and what stays true of them *)

\* A call on its way: what its step says of it.
CallIs(x) ==
    /\ x.at = "moved" => x.h # x.to
    /\ x.at = "count" => x.n > 0
    /\ x.at # "write" => x.rows = {}
    /\ \A r, s \in x.rows : r.h = s.h => r = s

\* The stored row of a holder and those on their way to it.
RowsOf(x, h) == {[tokens |-> r.tokens, rev |-> r.rev] : r \in {s \in x.rows : s.h = h}}
Stamped(h) == {db.position[h]} \cup UNION {RowsOf(job[c], h) : c \in Clients}

\* A call that has changed the holder's tokens, or may have, and has stamped no row yet.
Unstamped(x, h) ==
    \/ x.at \in {"snap", "pin"} /\ x.h = h
    \/ x.at = "moved" /\ (x.h = h \/ x.to = h)
Caught(h) ==
    \/ \E c \in Clients : Unstamped(job[c], h)
    \/ \E l \in Stamped(h) : Newest(l, Stamped(h)) /\ l.tokens = pos[h]
Retiring == retired # 0 \/ \E c \in Clients : job[c].at = "count"
BelowRev(x) == \A r \in x.rows : r.rev <= rev
RevsInv ==
    crashes = 0 =>
        up /\ (\A h \in Owners : db.position[h].rev <= rev) /\ \A c \in Clients : BelowRev(job[c])

\* What a seed was told of the cap and of the others' tokens, which still holds if it is alone.
StillTrue(x) ==
    /\ x.at \in {"check", "set"} => x.cap = authorised
    /\ x.at = "set" => Cap!Others(x.h) + x.n <= x.cap
AllFree == \A c \in Clients : job[c].at = "idle"
OneAtATime ==
    ~overlapped =>
        /\ \A b, c \in Clients : job[b].at # "idle" /\ job[c].at # "idle" => b = c
        /\ \A c \in Clients : StillTrue(job[c])

SupplyInv ==
    /\ Cap!TypeOK
    /\ \A c \in Clients : CallIs(job[c])
    /\ ~up => AllFree
    /\ RevsInv
    /\ crashes = 0 /\ ~Retiring => \A h \in Owners : Caught(h)
    /\ OneAtATime

LEMMA CapTotal == ASSUME NEW f PROVE Cap!Total(f) = Total(f, DOMAIN f)
BY Zenon DEF Cap!Total, Cap!MapThenSumSet, Cap!MapThenFoldSet, Total, Sums, Adds, Pick

\* A call, and how its fields are set.
Serves(a, h, t, n, p, r, l) == [at |-> a, h |-> h, to |-> t, n |-> n, cap |-> p, rows |-> r, last |-> l]

LEMMA ServesFields ==
    ASSUME NEW a, NEW h, NEW t, NEW n, NEW p, NEW r, NEW l
    PROVE  LET x == Serves(a, h, t, n, p, r, l) IN
           x.at = a /\ x.h = h /\ x.to = t /\ x.n = n /\ x.cap = p /\ x.rows = r /\ x.last = l
BY DEF Serves
LEMMA ServesType ==
    ASSUME NEW a \in Cap!At, NEW h \in Owners, NEW t \in Owners, NEW n \in Nat, NEW p \in Nat, NEW l \in Nat,
           NEW r \in SUBSET [h : Owners, tokens : Nat, rev : Nat]
    PROVE  Serves(a, h, t, n, p, r, l) \in Cap!CallState
BY DEF Serves, Cap!CallState
LEMMA SetAt ==
    ASSUME NEW a, NEW h, NEW t, NEW n, NEW p, NEW r, NEW l, NEW v
    PROVE  [Serves(a, h, t, n, p, r, l) EXCEPT !.at = v] = Serves(v, h, t, n, p, r, l)
BY DEF Serves
LEMMA SetHolder ==
    ASSUME NEW a, NEW h, NEW t, NEW n, NEW p, NEW r, NEW l, NEW v
    PROVE  [Serves(a, h, t, n, p, r, l) EXCEPT !.h = v] = Serves(a, v, t, n, p, r, l)
BY DEF Serves
LEMMA SetOther ==
    ASSUME NEW a, NEW h, NEW t, NEW n, NEW p, NEW r, NEW l, NEW v
    PROVE  [Serves(a, h, t, n, p, r, l) EXCEPT !.to = v] = Serves(a, h, v, n, p, r, l)
BY DEF Serves
LEMMA SetTokens ==
    ASSUME NEW a, NEW h, NEW t, NEW n, NEW p, NEW r, NEW l, NEW v
    PROVE  [Serves(a, h, t, n, p, r, l) EXCEPT !.n = v] = Serves(a, h, t, v, p, r, l)
BY DEF Serves
LEMMA SetCap ==
    ASSUME NEW a, NEW h, NEW t, NEW n, NEW p, NEW r, NEW l, NEW v
    PROVE  [Serves(a, h, t, n, p, r, l) EXCEPT !.cap = v] = Serves(a, h, t, n, v, r, l)
BY DEF Serves
LEMMA SetStamped ==
    ASSUME NEW a, NEW h, NEW t, NEW n, NEW p, NEW r, NEW l, NEW v
    PROVE  [Serves(a, h, t, n, p, r, l) EXCEPT !.rows = v] = Serves(a, h, t, n, p, v, l)
BY DEF Serves
LEMMA SetLast ==
    ASSUME NEW a, NEW h, NEW t, NEW n, NEW p, NEW r, NEW l, NEW v
    PROVE  [Serves(a, h, t, n, p, r, l) EXCEPT !.last = v] = Serves(a, h, t, n, p, r, v)
BY DEF Serves
LEMMA EachServes ==
    ASSUME NEW x \in Cap!CallState
    PROVE  /\ x = Serves(x.at, x.h, x.to, x.n, x.cap, x.rows, x.last)
           /\ x.at \in Cap!At /\ x.h \in Owners /\ x.to \in Owners /\ x.n \in Nat /\ x.cap \in Nat /\ x.last \in Nat
           /\ x.rows \in SUBSET [h : Owners, tokens : Nat, rev : Nat]
BY DEF Serves, Cap!CallState
NoCall == Serves("idle", Owner, Owner, 0, 0, {}, 0)
LEMMA IdleIsNoCall == Cap!Idle = NoCall
BY DEF Cap!Idle, NoCall, Serves
LEMMA Begins ==
    ASSUME NEW a, NEW h, NEW n
    PROVE  [Cap!Idle EXCEPT !.at = a, !.h = h, !.n = n] = Serves(a, h, Owner, n, 0, {}, 0)
<1>1. [Cap!Idle EXCEPT !.at = a] = Serves(a, Owner, Owner, 0, 0, {}, 0)
  BY SetAt, IdleIsNoCall DEF NoCall
<1>2. [Serves(a, Owner, Owner, 0, 0, {}, 0) EXCEPT !.h = h] = Serves(a, h, Owner, 0, 0, {}, 0)
  BY SetHolder
<1>3. [Serves(a, h, Owner, 0, 0, {}, 0) EXCEPT !.n = n] = Serves(a, h, Owner, n, 0, {}, 0)
  BY SetTokens
<1>4. QED
  BY <1>1, <1>2, <1>3, Zenon
LEMMA BeginsCapped ==
    ASSUME NEW a, NEW h, NEW n, NEW p
    PROVE  [Cap!Idle EXCEPT !.at = a, !.h = h, !.n = n, !.cap = p] = Serves(a, h, Owner, n, p, {}, 0)
<1>1. [Cap!Idle EXCEPT !.at = a, !.h = h, !.n = n] = Serves(a, h, Owner, n, 0, {}, 0)
  BY Begins
<1>2. [Serves(a, h, Owner, n, 0, {}, 0) EXCEPT !.cap = p] = Serves(a, h, Owner, n, p, {}, 0)
  BY SetCap
<1>3. QED
  BY <1>1, <1>2, Zenon
LEMMA BeginsMove ==
    ASSUME NEW a, NEW h, NEW t, NEW n
    PROVE  [Cap!Idle EXCEPT !.at = a, !.h = h, !.to = t, !.n = n] = Serves(a, h, t, n, 0, {}, 0)
<1>1. [Cap!Idle EXCEPT !.at = a] = Serves(a, Owner, Owner, 0, 0, {}, 0)
  BY SetAt, IdleIsNoCall DEF NoCall
<1>2. [Serves(a, Owner, Owner, 0, 0, {}, 0) EXCEPT !.h = h] = Serves(a, h, Owner, 0, 0, {}, 0)
  BY SetHolder
<1>3. [Serves(a, h, Owner, 0, 0, {}, 0) EXCEPT !.to = t] = Serves(a, h, t, 0, 0, {}, 0)
  BY SetOther
<1>4. [Serves(a, h, t, 0, 0, {}, 0) EXCEPT !.n = n] = Serves(a, h, t, n, 0, {}, 0)
  BY SetTokens
<1>5. QED
  BY <1>1, <1>2, <1>3, <1>4, Zenon

LEMMA GoesOnTo ==
    ASSUME NEW x \in Cap!CallState, NEW a
    PROVE  [x EXCEPT !.at = a] = Serves(a, x.h, x.to, x.n, x.cap, x.rows, x.last)
<1>1. x = Serves(x.at, x.h, x.to, x.n, x.cap, x.rows, x.last)
  BY EachServes
<1>2. [Serves(x.at, x.h, x.to, x.n, x.cap, x.rows, x.last) EXCEPT !.at = a]
      = Serves(a, x.h, x.to, x.n, x.cap, x.rows, x.last)
  BY SetAt
<1>3. QED
  BY <1>1, <1>2, Zenon
LEMMA StampsOne ==
    ASSUME NEW x \in Cap!CallState, NEW a, NEW r
    PROVE  [x EXCEPT !.at = a, !.rows = r] = Serves(a, x.h, x.to, x.n, x.cap, r, x.last)
<1>1. [x EXCEPT !.at = a] = Serves(a, x.h, x.to, x.n, x.cap, x.rows, x.last)
  BY GoesOnTo
<1>2. [Serves(a, x.h, x.to, x.n, x.cap, x.rows, x.last) EXCEPT !.rows = r] = Serves(a, x.h, x.to, x.n, x.cap, r, x.last)
  BY SetStamped
<1>3. QED
  BY <1>1, <1>2, Zenon
WithRows(x, a, r, l) == [x EXCEPT !.at = a, !.last = l, !.rows = r]
LEMMA StampsBoth ==
    ASSUME NEW x \in Cap!CallState, NEW a, NEW r, NEW l
    PROVE  WithRows(x, a, r, l) = Serves(a, x.h, x.to, x.n, x.cap, r, l)
<1>1. [x EXCEPT !.at = a] = Serves(a, x.h, x.to, x.n, x.cap, x.rows, x.last)
  BY GoesOnTo
<1>2. [Serves(a, x.h, x.to, x.n, x.cap, x.rows, x.last) EXCEPT !.last = l] = Serves(a, x.h, x.to, x.n, x.cap, x.rows, l)
  BY SetLast
<1>3. [Serves(a, x.h, x.to, x.n, x.cap, x.rows, l) EXCEPT !.rows = r] = Serves(a, x.h, x.to, x.n, x.cap, r, l)
  BY SetStamped
<1>4. QED
  BY <1>1, <1>2, <1>3, Zenon DEF WithRows

\* A call goes on to k, or is taken up.
Becomes(c, k) == c \in Clients /\ k \in Cap!CallState /\ job' = [job EXCEPT ![c] = k]
LEMMA CallsBecome ==
    ASSUME NEW c, NEW k, Becomes(c, k), job \in [Clients -> Cap!CallState]
    PROVE  c \in Clients /\ job' \in [Clients -> Cap!CallState] /\ \A d \in Clients : job'[d] = IF d = c THEN k ELSE job[d]
BY DEF Becomes

LEMMA CapSets ==
    ASSUME Cap!CapConstants
    PROVE  /\ IsFiniteSet(Owners) /\ IsFiniteSet(Clients) /\ Owner \in Owners
           /\ Opening \in Nat /\ MaxQuantity \in Nat
<1>1. ASSUME NEW S, Cap!IsFiniteSet(S) PROVE IsFiniteSet(S)
  BY <1>1, Zenon DEF Cap!IsFiniteSet, IsFiniteSet
<1>2. QED
  BY <1>1 DEF Cap!CapConstants

LEMMA NoCallType == ASSUME Cap!CapConstants PROVE NoCall \in Cap!CallState
<1>1. "idle" \in Cap!At /\ Owner \in Owners /\ {} \in SUBSET [h : Owners, tokens : Nat, rev : Nat] /\ 0 \in Nat
  BY CapSets DEF Cap!At
<1>2. QED
  BY <1>1, ServesType DEF NoCall

\* A call that goes on to another step, with what it has.
LEMMA StepType ==
    ASSUME NEW c \in Clients, NEW x \in Cap!CallState, NEW a \in Cap!At, job' = [job EXCEPT ![c] = [x EXCEPT !.at = a]]
    PROVE  Becomes(c, Serves(a, x.h, x.to, x.n, x.cap, x.rows, x.last))
<1>1. Serves(a, x.h, x.to, x.n, x.cap, x.rows, x.last) \in Cap!CallState
  BY EachServes, ServesType
<1>2. job' = [job EXCEPT ![c] = Serves(a, x.h, x.to, x.n, x.cap, x.rows, x.last)]
  BY GoesOnTo
<1>3. QED
  BY <1>1, <1>2 DEF Becomes

\* What there is between steps, each of its kind.
LEMMA SupplyTypes ==
    ASSUME Cap!TypeOK
    PROVE  /\ pos \in [Owners -> Nat] /\ authorised \in Nat /\ derived \in BOOLEAN /\ retired \in Nat /\ pinned \in Nat
           /\ rev \in Nat /\ retiredBlocks \in Nat /\ job \in [Clients -> Cap!CallState]
           /\ db.position \in [Owners -> Cap!Row] /\ db.other \in Nat
           /\ \A h \in Owners : db.position[h].tokens \in Nat /\ db.position[h].rev \in Nat /\ pos[h] \in Nat
           /\ \A c \in Clients : job[c] \in Cap!CallState
<1>1. /\ pos \in [Owners -> Nat] /\ authorised \in Nat /\ derived \in BOOLEAN /\ retired \in Nat /\ pinned \in Nat
      /\ rev \in Nat /\ retiredBlocks \in Nat /\ job \in [Clients -> Cap!CallState]
      /\ db \in [position : [Owners -> Cap!Row], other : Nat]
  BY DEF Cap!TypeOK
<1>2. db.position \in [Owners -> Cap!Row] /\ db.other \in Nat
  BY <1>1
<1>3. \A h \in Owners : db.position[h].tokens \in Nat /\ db.position[h].rev \in Nat
  BY <1>2 DEF Cap!Row
<1>4. QED
  BY <1>1, <1>2, <1>3

LEMMA OutstandingType ==
    ASSUME Cap!CapConstants, Cap!TypeOK
    PROVE  /\ Cap!Outstanding = Total(pos, Owners) /\ Cap!Outstanding \in Nat
           /\ \A h \in Owners : Cap!Others(h) = Cap!Outstanding - pos[h] /\ Cap!Others(h) \in Nat
<1>1. pos \in [Owners -> Nat] /\ IsFiniteSet(Owners)
  BY CapSets DEF Cap!TypeOK
<1>2. Cap!Outstanding = Total(pos, Owners)
  <2>1. DOMAIN pos = Owners
    BY <1>1
  <2>2. QED
    BY <2>1, CapTotal DEF Cap!Outstanding
<1>3. \A h \in Owners : pos[h] \in Nat
  BY <1>1
<1>4. Total(pos, Owners) \in Nat
  BY <1>1, <1>3, TotalType
<1>5. ASSUME NEW h \in Owners PROVE Cap!Others(h) = Cap!Outstanding - pos[h] /\ Cap!Others(h) \in Nat
  <2>1. Total(pos, Owners) = pos[h] + Total(pos, Owners \ {h})
    BY <1>1, <1>3, SplitTotal
  <2>2. Total(pos, Owners \ {h}) \in Nat
    <3>1. IsFiniteSet(Owners \ {h})
      BY <1>1, FS_RemoveElement
    <3>2. QED
      BY <1>3, <3>1, TotalType
  <2>3. pos[h] \in Nat
    BY <1>3
  <2>4. QED
    BY <1>2, <2>1, <2>2, <2>3 DEF Cap!Others
<1>6. QED
  BY <1>2, <1>4, <1>5
-----------------------------------------------------------------------------
(* The supply: what each operation does, in the terms of the invariant *)

LEMMA SeedEffect ==
    ASSUME Cap!CapConstants, Cap!TypeOK, NEW c \in Clients, NEW h \in Owners, NEW n \in 1..MaxQuantity,
           NEW declared \in {0} \cup 1..MaxQuantity, Cap!SeedPosition(c, h, n, declared)
    PROVE  /\ up /\ job[c].at = "idle" /\ n \in Nat /\ declared \in Nat
           /\ \/ UNCHANGED <<authorised, derived, job>>
              \/ /\ authorised' = Cap!CapAfter(n, declared) /\ derived' = Cap!DerivedAfter(declared)
                 /\ ~Cap!Redeclares(declared) /\ authorised' \in Nat /\ derived' \in BOOLEAN
                 /\ Becomes(c, Serves("check", h, Owner, n, authorised', {}, 0))
           /\ overlapped' = (overlapped \/ ~AllFree)
           /\ ops' = ops + 1 /\ UNCHANGED <<up, mu, pos, retired, pinned, rev, retiredBlocks, db, crashes>>
<1>1. /\ up /\ job[c].at = "idle" /\ ops' = ops + 1 /\ overlapped' = (overlapped \/ ~AllFree)
      /\ UNCHANGED <<up, mu, pos, retired, pinned, rev, retiredBlocks, db, crashes>>
  BY DEF Cap!SeedPosition, Cap!Begin, AllFree
<1>2. n \in Nat /\ declared \in Nat
  BY CapSets
<1>3. CASE Cap!Redeclares(declared)
  BY <1>1, <1>2, <1>3 DEF Cap!SeedPosition
<1>4. CASE ~Cap!Redeclares(declared)
  <2>1. /\ authorised' = Cap!CapAfter(n, declared) /\ derived' = Cap!DerivedAfter(declared)
        /\ job' = [job EXCEPT ![c] = [Cap!Idle EXCEPT !.at = "check", !.h = h, !.n = n, !.cap = Cap!CapAfter(n, declared)]]
    BY <1>4, Zenon DEF Cap!SeedPosition, Cap!Goes
  <2>2. authorised' \in Nat /\ derived' \in BOOLEAN
    BY <1>2, <2>1, SupplyTypes DEF Cap!CapAfter, Cap!DerivedAfter
  <2>3. job' = [job EXCEPT ![c] = Serves("check", h, Owner, n, authorised', {}, 0)]
    <3>1. [Cap!Idle EXCEPT !.at = "check", !.h = h, !.n = n, !.cap = authorised'] = Serves("check", h, Owner, n, authorised', {}, 0)
      BY BeginsCapped
    <3>2. QED
      BY <2>1, <3>1
  <2>4. Serves("check", h, Owner, n, authorised', {}, 0) \in Cap!CallState
    <3>1. "check" \in Cap!At /\ Owner \in Owners /\ {} \in SUBSET [h : Owners, tokens : Nat, rev : Nat] /\ 0 \in Nat
      BY CapSets DEF Cap!At
    <3>2. QED
      BY <1>2, <2>2, <3>1, ServesType
  <2>5. QED
    BY <1>1, <1>2, <1>4, <2>1, <2>2, <2>3, <2>4 DEF Becomes
<1>5. QED
  BY <1>3, <1>4

\* A step of a call that is on its way.
LEMMA CheckEffect ==
    ASSUME Cap!CapConstants, Cap!TypeOK, NEW c \in Clients, Cap!SeedCheck(c), NEW x, x = job[c]
    PROVE  /\ up /\ x.at = "check"
           /\ \/ Becomes(c, NoCall)
              \/ /\ Cap!Others(x.h) + x.n <= x.cap
                 /\ Becomes(c, Serves("set", x.h, x.to, x.n, x.cap, x.rows, x.last))
           /\ UNCHANGED <<up, mu, pos, authorised, derived, retired, pinned, rev, retiredBlocks, db, overlapped, ops, crashes>>
<1>1. /\ up /\ x.at = "check"
      /\ UNCHANGED <<up, mu, pos, authorised, derived, retired, pinned, rev, retiredBlocks, db, overlapped, ops, crashes>>
  BY DEF Cap!SeedCheck, Cap!Is, Cap!count
<1>2. x \in Cap!CallState
  BY SupplyTypes
<1>3. CASE Cap!Others(x.h) + x.n > x.cap
  <2>1. job' = [job EXCEPT ![c] = NoCall]
    BY <1>3, IdleIsNoCall DEF Cap!SeedCheck, Cap!Goes
  <2>2. NoCall \in Cap!CallState
    BY NoCallType
  <2>3. QED
    BY <1>1, <2>1, <2>2 DEF Becomes
<1>4. CASE ~(Cap!Others(x.h) + x.n > x.cap)
  <2>1. job' = [job EXCEPT ![c] = [x EXCEPT !.at = "set"]]
    BY <1>4 DEF Cap!SeedCheck, Cap!Then, Cap!Goes
  <2>2. x.h \in Owners /\ x.n \in Nat /\ x.cap \in Nat
    BY <1>2, EachServes
  <2>3. Cap!Others(x.h) \in Nat
    BY <2>2, OutstandingType
  <2>4. Cap!Others(x.h) + x.n <= x.cap
    BY <1>4, <2>2, <2>3
  <2>5. QED
    BY <1>1, <1>2, <2>1, <2>4, StepType DEF Cap!At
<1>5. QED
  BY <1>3, <1>4
\* A seed and a restatement write the book in the same way.
LEMMA SetEffect ==
    ASSUME Cap!TypeOK, NEW c \in Clients, Cap!SeedSet(c) \/ Cap!RestateSet(c), NEW x, x = job[c]
    PROVE  /\ up /\ pos' = [pos EXCEPT ![x.h] = x.n] /\ x \in Cap!CallState
           /\ \/ /\ Cap!SeedSet(c) /\ x.at = "set"
                 /\ Becomes(c, Serves("snap", x.h, x.to, x.n, x.cap, x.rows, x.last))
              \/ /\ Cap!RestateSet(c) /\ x.at = "reset"
                 /\ Becomes(c, Serves("pin", x.h, x.to, x.n, x.cap, x.rows, x.last))
           /\ UNCHANGED <<up, mu, authorised, derived, retired, pinned, rev, retiredBlocks, db, overlapped, ops, crashes>>
<1>1. /\ up /\ pos' = [pos EXCEPT ![x.h] = x.n]
      /\ UNCHANGED <<up, mu, authorised, derived, retired, pinned, rev, retiredBlocks, db, overlapped, ops, crashes>>
  BY DEF Cap!SeedSet, Cap!RestateSet, Cap!Is, Cap!count
<1>2. x \in Cap!CallState
  BY SupplyTypes
<1>3. CASE Cap!SeedSet(c)
  <2>1. x.at = "set" /\ job' = [job EXCEPT ![c] = [x EXCEPT !.at = "snap"]]
    BY <1>3 DEF Cap!SeedSet, Cap!Is, Cap!Then, Cap!Goes
  <2>2. QED
    BY <1>1, <1>2, <1>3, <2>1, StepType DEF Cap!At
<1>4. CASE Cap!RestateSet(c)
  <2>1. x.at = "reset" /\ job' = [job EXCEPT ![c] = [x EXCEPT !.at = "pin"]]
    BY <1>4 DEF Cap!RestateSet, Cap!Is, Cap!Then, Cap!Goes
  <2>2. QED
    BY <1>1, <1>2, <1>4, <2>1, StepType DEF Cap!At
<1>5. QED
  BY <1>3, <1>4

\* And they stamp their row in the same way.
LEMMA SnapEffect ==
    ASSUME Cap!TypeOK, NEW c \in Clients, Cap!SeedSnap(c) \/ Cap!RestatePin(c), NEW x, x = job[c]
    PROVE  /\ up /\ x.at \in {"snap", "pin"} /\ x \in Cap!CallState /\ rev' = rev + 1
           /\ Becomes(c, Serves("write", x.h, x.to, x.n, x.cap, {[h |-> x.h, tokens |-> pos[x.h], rev |-> rev + 1]}, x.last))
           /\ \/ UNCHANGED <<authorised, derived, pinned>>
              \/ authorised' = x.cap /\ pinned' = x.cap /\ derived' = FALSE
           /\ UNCHANGED <<up, mu, pos, retired, retiredBlocks, db, overlapped, ops, crashes>>
<1>1. /\ up /\ x.at \in {"snap", "pin"} /\ rev' = rev + 1
      /\ job' = [job EXCEPT ![c] = [x EXCEPT !.at = "write", !.rows = {Cap!Snapshot(c, x.h, rev + 1)}]]
      /\ \/ UNCHANGED <<authorised, derived, pinned>>
         \/ authorised' = x.cap /\ pinned' = x.cap /\ derived' = FALSE
      /\ UNCHANGED <<up, mu, pos, retired, retiredBlocks, db, overlapped, ops, crashes>>
  BY Zenon DEF Cap!SeedSnap, Cap!RestatePin, Cap!Is, Cap!count, Cap!Goes
<1>2. x \in Cap!CallState
  BY SupplyTypes
<1> DEFINE r == [h |-> x.h, tokens |-> pos[x.h], rev |-> rev + 1]
           k == Serves("write", x.h, x.to, x.n, x.cap, {r}, x.last)
<1>3. Cap!Snapshot(c, x.h, rev + 1) = r
  BY DEF Cap!Snapshot
<1>4. r \in [h : Owners, tokens : Nat, rev : Nat]
  BY <1>2, EachServes, SupplyTypes
<1> HIDE DEF r
<1>5. [x EXCEPT !.at = "write", !.rows = {r}] = k
  BY <1>2, StampsOne
<1>6. k \in Cap!CallState
  <2>1. "write" \in Cap!At /\ {r} \in SUBSET [h : Owners, tokens : Nat, rev : Nat]
    BY <1>4 DEF Cap!At
  <2>2. QED
    BY <1>2, <2>1, EachServes, ServesType
<1> HIDE DEF k
<1>7. Becomes(c, k)
  BY <1>1, <1>3, <1>5, <1>6 DEF Becomes
<1>8. QED
  BY <1>1, <1>2, <1>7 DEF k, r

LEMMA RestateEffect ==
    ASSUME Cap!CapConstants, Cap!TypeOK, NEW c \in Clients, NEW h \in Owners, NEW n \in 1..MaxQuantity,
           Cap!RestateSupply(c, h, n)
    PROVE  /\ up /\ job[c].at = "idle"
           /\ \/ job' = job
              \/ \E a \in {"reset", "pin"}, left \in Nat : Becomes(c, Serves(a, h, Owner, left, n, {}, 0))
           /\ overlapped' = (overlapped \/ ~AllFree)
           /\ ops' = ops + 1
           /\ UNCHANGED <<up, mu, pos, authorised, derived, retired, pinned, rev, retiredBlocks, db, crashes>>
<1> DEFINE excess == IF Cap!Outstanding > n THEN Cap!Outstanding - n ELSE 0
           a == IF excess > 0 THEN "reset" ELSE "pin"
           left == pos[h] - excess
<1>1. /\ up /\ job[c].at = "idle" /\ ops' = ops + 1 /\ overlapped' = (overlapped \/ ~AllFree)
      /\ UNCHANGED <<up, mu, pos, authorised, derived, retired, pinned, rev, retiredBlocks, db, crashes>>
  BY DEF Cap!RestateSupply, Cap!Begin, AllFree
<1>2. IF Cap!Others(h) > n \/ excess > pos[h]
      THEN UNCHANGED job
      ELSE job' = [job EXCEPT ![c] = [Cap!Idle EXCEPT !.at = a, !.h = h, !.n = left, !.cap = n]]
  BY Zenon DEF Cap!RestateSupply, Cap!Goes
<1>3. n \in Nat /\ excess \in Nat /\ pos[h] \in Nat
  BY CapSets, OutstandingType, SupplyTypes
<1>4. a \in {"reset", "pin"} /\ a \in Cap!At
  BY DEF Cap!At
<1> HIDE DEF excess, a
<1>5. CASE Cap!Others(h) > n \/ excess > pos[h]
  BY <1>1, <1>2, <1>5
<1>6. CASE ~(Cap!Others(h) > n \/ excess > pos[h])
  <2>1. left \in Nat
    BY <1>3, <1>6
  <2> HIDE DEF left
  <2>2. [Cap!Idle EXCEPT !.at = a, !.h = h, !.n = left, !.cap = n] = Serves(a, h, Owner, left, n, {}, 0)
    BY BeginsCapped
  <2>3. Serves(a, h, Owner, left, n, {}, 0) \in Cap!CallState
    <3>1. Owner \in Owners /\ {} \in SUBSET [h : Owners, tokens : Nat, rev : Nat] /\ 0 \in Nat
      BY CapSets
    <3>2. QED
      BY <1>3, <1>4, <2>1, <3>1, ServesType
  <2>4. Becomes(c, Serves(a, h, Owner, left, n, {}, 0))
    BY <1>2, <1>6, <2>2, <2>3 DEF Becomes
  <2>5. QED
    BY <1>1, <1>4, <2>1, <2>4
<1>7. QED
  BY <1>5, <1>6
LEMMA RetireEffect ==
    ASSUME Cap!CapConstants, Cap!TypeOK, NEW c \in Clients, NEW h \in Owners, NEW n \in 1..MaxQuantity,
           Cap!RetireCredits(c, h, n)
    PROVE  /\ up /\ job[c].at = "idle" /\ n \in Nat /\ n > 0
           /\ \/ pos' = pos /\ job' = job
              \/ /\ pos[h] >= n /\ pos' = [pos EXCEPT ![h] = @ - n]
                 /\ Becomes(c, Serves("count", h, Owner, n, 0, {}, 0))
           /\ overlapped' = (overlapped \/ ~AllFree)
           /\ ops' = ops + 1
           /\ UNCHANGED <<up, mu, authorised, derived, retired, pinned, rev, retiredBlocks, db, crashes>>
<1>1. /\ up /\ job[c].at = "idle" /\ ops' = ops + 1 /\ overlapped' = (overlapped \/ ~AllFree)
      /\ pos' = Cap!Burned(h, n)
      /\ UNCHANGED <<up, mu, authorised, derived, retired, pinned, rev, retiredBlocks, db, crashes>>
  BY DEF Cap!RetireCredits, Cap!Begin, AllFree
<1>2. n \in Nat /\ n > 0
  BY CapSets
<1>3. CASE pos' = pos
  <2>1. job' = job
    BY <1>3 DEF Cap!RetireCredits
  <2>2. QED
    BY <1>1, <1>2, <1>3, <2>1
<1>4. CASE pos' # pos
  <2>1. pos[h] >= n /\ pos' = [pos EXCEPT ![h] = @ - n]
    BY <1>1, <1>4 DEF Cap!Burned
  <2>2. job' = [job EXCEPT ![c] = [Cap!Idle EXCEPT !.at = "count", !.h = h, !.n = n]]
    BY <1>4, Zenon DEF Cap!RetireCredits, Cap!Goes
  <2>3. [Cap!Idle EXCEPT !.at = "count", !.h = h, !.n = n] = Serves("count", h, Owner, n, 0, {}, 0)
    BY Begins
  <2>4. Serves("count", h, Owner, n, 0, {}, 0) \in Cap!CallState
    <3>1. "count" \in Cap!At /\ Owner \in Owners /\ {} \in SUBSET [h : Owners, tokens : Nat, rev : Nat] /\ 0 \in Nat
      BY CapSets DEF Cap!At
    <3>2. QED
      BY <1>2, <3>1, ServesType
  <2>5. QED
    BY <1>1, <1>2, <2>1, <2>2, <2>3, <2>4 DEF Becomes
<1>5. QED
  BY <1>3, <1>4

LEMMA CountEffect ==
    ASSUME Cap!TypeOK, NEW c \in Clients, Cap!RetireCount(c), NEW x, x = job[c]
    PROVE  /\ up /\ x.at = "count" /\ x \in Cap!CallState /\ retired' = retired + x.n
           /\ Becomes(c, Serves("anchor", x.h, x.to, x.n, x.cap, x.rows, x.last))
           /\ UNCHANGED <<up, mu, pos, authorised, derived, pinned, rev, retiredBlocks, db, overlapped, ops, crashes>>
<1>1. /\ up /\ x.at = "count" /\ retired' = retired + x.n
      /\ job' = [job EXCEPT ![c] = [x EXCEPT !.at = "anchor"]]
      /\ UNCHANGED <<up, mu, pos, authorised, derived, pinned, rev, retiredBlocks, db, overlapped, ops, crashes>>
  BY DEF Cap!RetireCount, Cap!Is, Cap!Then, Cap!Goes, Cap!count
<1>2. x \in Cap!CallState
  BY SupplyTypes
<1>3. QED
  BY <1>1, <1>2, StepType DEF Cap!At

LEMMA AnchorEffect ==
    ASSUME Cap!CapConstants, Cap!TypeOK, NEW c \in Clients, Cap!RetireAnchor(c), NEW x, x = job[c]
    PROVE  /\ up /\ x.at = "anchor" /\ x \in Cap!CallState /\ retiredBlocks' = retiredBlocks + x.n
           /\ Becomes(c, NoCall)
           /\ UNCHANGED <<up, mu, pos, authorised, derived, retired, pinned, rev, db, overlapped, ops, crashes>>
<1>1. /\ up /\ x.at = "anchor" /\ retiredBlocks' = retiredBlocks + x.n /\ job' = [job EXCEPT ![c] = NoCall]
      /\ UNCHANGED <<up, mu, pos, authorised, derived, retired, pinned, rev, db, overlapped, ops, crashes>>
  BY IdleIsNoCall DEF Cap!RetireAnchor, Cap!Is, Cap!Goes, Cap!count
<1>2. x \in Cap!CallState
  BY SupplyTypes
<1>3. QED
  BY <1>1, <1>2, NoCallType DEF Becomes

LEMMA SaleEffect ==
    ASSUME Cap!CapConstants, Cap!TypeOK, NEW c \in Clients, NEW from \in Owners, NEW to \in Owners,
           NEW n \in 1..MaxQuantity, Cap!Settle(c, from, to, n)
    PROVE  /\ up /\ job[c].at = "idle" /\ n \in Nat /\ from # to /\ pos[from] >= n
           /\ pos' = [pos EXCEPT ![from] = @ - n, ![to] = @ + n]
           /\ Becomes(c, Serves("moved", from, to, n, 0, {}, 0))
           /\ mu' = c /\ overlapped' = (overlapped \/ ~AllFree) /\ ops' = ops + 1
           /\ UNCHANGED <<up, authorised, derived, retired, pinned, rev, retiredBlocks, db, crashes>>
<1>1. /\ up /\ job[c].at = "idle" /\ from # to /\ pos[from] >= n
      /\ mu' = c /\ overlapped' = (overlapped \/ ~AllFree) /\ ops' = ops + 1
      /\ UNCHANGED <<up, authorised, derived, retired, pinned, rev, retiredBlocks, db, crashes>>
  BY DEF Cap!Settle, Cap!Begin, Cap!CanMove, AllFree
<1>2. /\ job' = [job EXCEPT ![c] = [Cap!Idle EXCEPT !.at = "moved", !.h = from, !.to = to, !.n = n]]
      /\ pos' = [pos EXCEPT ![from] = @ - n, ![to] = @ + n]
  BY Zenon DEF Cap!Settle, Cap!Goes
<1>3. n \in Nat
  BY CapSets
<1>4. [Cap!Idle EXCEPT !.at = "moved", !.h = from, !.to = to, !.n = n] = Serves("moved", from, to, n, 0, {}, 0)
  BY BeginsMove
<1>5. Serves("moved", from, to, n, 0, {}, 0) \in Cap!CallState
  <2>1. "moved" \in Cap!At /\ {} \in SUBSET [h : Owners, tokens : Nat, rev : Nat] /\ 0 \in Nat
    BY DEF Cap!At
  <2>2. QED
    BY <1>3, <2>1, ServesType
<1>6. Becomes(c, Serves("moved", from, to, n, 0, {}, 0))
  BY <1>2, <1>4, <1>5 DEF Becomes
<1>7. QED
  BY <1>1, <1>2, <1>3, <1>6

LEMMA MovedEffect ==
    ASSUME Cap!TypeOK, NEW c \in Clients, Cap!SettleSnap(c), NEW x, x = job[c]
    PROVE  /\ up /\ x.at = "moved" /\ x \in Cap!CallState /\ rev' = rev + 5 /\ mu' = Nobody
           /\ Becomes(c, Serves("write", x.h, x.to, x.n, x.cap,
                                {[h |-> x.h, tokens |-> pos[x.h], rev |-> rev + 3],
                                 [h |-> x.to, tokens |-> pos[x.to], rev |-> rev + 4]}, rev + 5))
           /\ UNCHANGED <<up, pos, authorised, derived, retired, pinned, retiredBlocks, db, overlapped, ops, crashes>>
<1> DEFINE r == [h |-> x.h, tokens |-> pos[x.h], rev |-> rev + 3]
           s == [h |-> x.to, tokens |-> pos[x.to], rev |-> rev + 4]
<1>1. /\ up /\ x.at = "moved" /\ rev' = rev + 5 /\ mu' = Nobody
      /\ job' = [job EXCEPT ![c] = [x EXCEPT !.at = "write", !.last = rev + 5, !.rows = {r, s}]]
      /\ UNCHANGED <<up, pos, authorised, derived, retired, pinned, retiredBlocks, db, overlapped, ops, crashes>>
  BY Zenon DEF Cap!SettleSnap, Cap!Is, Cap!count, Cap!Goes
<1>2. x \in Cap!CallState /\ rev \in Nat
  BY SupplyTypes
<1>3. {r, s} \in SUBSET [h : Owners, tokens : Nat, rev : Nat]
  BY <1>2, EachServes, SupplyTypes
<1> DEFINE R == {r, s}
           l == rev + 5
<1>4. R \in SUBSET [h : Owners, tokens : Nat, rev : Nat] /\ l \in Nat
  BY <1>2, <1>3
<1> HIDE DEF R, l, r, s
<1>5. WithRows(x, "write", R, l) = Serves("write", x.h, x.to, x.n, x.cap, R, l)
  BY <1>2, StampsBoth
<1>6. Serves("write", x.h, x.to, x.n, x.cap, R, l) \in Cap!CallState
  BY <1>2, <1>4, EachServes, ServesType DEF Cap!At
<1>7. job' = [job EXCEPT ![c] = WithRows(x, "write", R, l)]
  BY <1>1, Zenon DEF WithRows, R, l
<1>8. Becomes(c, Serves("write", x.h, x.to, x.n, x.cap, R, l))
  BY <1>5, <1>6, <1>7 DEF Becomes
<1>9. QED
  BY <1>1, <1>2, <1>8 DEF R, l, r, s

\* What the table holds after a write of x: for each holder its row, or the one x brings if that is newer.
StoresRows(x) ==
    \A h \in Owners :
        /\ \/ db'.position[h] = db.position[h]
           \/ \E r \in x.rows : r.h = h /\ r.rev > db.position[h].rev /\ db'.position[h] = [tokens |-> r.tokens, rev |-> r.rev]
        /\ \A r \in x.rows : r.h = h /\ r.rev > db.position[h].rev => db'.position[h] = [tokens |-> r.tokens, rev |-> r.rev]
LEMMA RowsWritten ==
    ASSUME Cap!CapConstants, Cap!TypeOK, NEW c \in Clients, Cap!Write(c), NEW x, x = job[c], CallIs(x)
    PROVE  /\ up /\ x.at = "write" /\ x \in Cap!CallState /\ Becomes(c, NoCall) /\ StoresRows(x)
           /\ db' \in [position : [Owners -> Cap!Row], other : Nat]
           /\ UNCHANGED <<up, mu, pos, authorised, derived, retired, pinned, rev, retiredBlocks, overlapped, ops, crashes>>
<1> DEFINE News(h) == {r \in x.rows : r.h = h /\ r.rev > db.position[h].rev}
           First(h) == CHOOSE r \in News(h) : TRUE
           Row(h) == IF News(h) = {} THEN db.position[h] ELSE [tokens |-> First(h).tokens, rev |-> First(h).rev]
           last == IF x.last > db.other THEN x.last ELSE db.other
<1>1. /\ up /\ x.at = "write" /\ job' = [job EXCEPT ![c] = NoCall]
      /\ db' = [position |-> [h \in Owners |-> Row(h)], other |-> last]
      /\ UNCHANGED <<up, mu, pos, authorised, derived, retired, pinned, rev, retiredBlocks, overlapped, ops, crashes>>
  BY IdleIsNoCall DEF Cap!Write, Cap!Is, Cap!Goes, Cap!count
<1>2. /\ x \in Cap!CallState /\ x.rows \in SUBSET [h : Owners, tokens : Nat, rev : Nat] /\ x.last \in Nat
      /\ db.position \in [Owners -> Cap!Row] /\ db.other \in Nat
  <2>1. x \in Cap!CallState
    BY SupplyTypes
  <2>2. QED
    BY <2>1, EachServes, SupplyTypes
<1>3. ASSUME NEW h \in Owners, News(h) # {} PROVE First(h) \in News(h)
  BY <1>3
<1>4. ASSUME NEW h \in Owners PROVE Row(h) \in Cap!Row
  <2>1. CASE News(h) = {}
    BY <1>2, <2>1
  <2>2. CASE News(h) # {}
    <3>1. First(h) \in x.rows
      BY <1>3, <2>2
    <3> HIDE DEF First
    <3>2. First(h).tokens \in Nat /\ First(h).rev \in Nat
      BY <1>2, <3>1
    <3>3. QED
      BY <2>2, <3>2 DEF Cap!Row
  <2>3. QED
    BY <2>1, <2>2
<1>5. ASSUME NEW h \in Owners, NEW r \in x.rows, r.h = h, r.rev > db.position[h].rev
      PROVE  Row(h) = [tokens |-> r.tokens, rev |-> r.rev]
  <2>1. r \in News(h) /\ First(h) \in News(h)
    BY <1>3, <1>5
  <2> HIDE DEF First
  <2>2. First(h) = r
    BY <2>1 DEF CallIs
  <2>3. QED
    BY <2>1, <2>2
<1>6. ASSUME NEW h \in Owners
      PROVE  \/ Row(h) = db.position[h]
             \/ \E r \in x.rows : r.h = h /\ r.rev > db.position[h].rev /\ Row(h) = [tokens |-> r.tokens, rev |-> r.rev]
  <2>1. CASE News(h) = {}
    BY <2>1
  <2>2. CASE News(h) # {}
    <3>1. PICK r \in x.rows : r.h = h /\ r.rev > db.position[h].rev
      BY <2>2
    <3>2. QED
      BY <1>5, <3>1
  <2>3. QED
    BY <2>1, <2>2
<1>7. last \in Nat
  BY <1>2
<1> HIDE DEF Row, last
<1>8. /\ \A h \in Owners : db'.position[h] = Row(h)
      /\ db' \in [position : [Owners -> Cap!Row], other : Nat]
  BY <1>1, <1>4, <1>7
<1>9. Becomes(c, NoCall)
  BY <1>1, NoCallType DEF Becomes
<1>10. StoresRows(x)
  BY <1>5, <1>6, <1>8 DEF StoresRows
<1>11. QED
  BY <1>1, <1>2, <1>8, <1>9, <1>10
-----------------------------------------------------------------------------
(* The supply: what a step must leave true of the call it is about *)

\* No row, stored or on its way, is above the process's revision.
LEMMA RevsOn ==
    ASSUME Cap!TypeOK, RevsInv, up, UNCHANGED <<up, crashes, db>>, NEW c, NEW k, Becomes(c, k),
           rev' \in Nat, rev <= rev', \A r \in k.rows : r.rev <= rev' \/ crashes # 0
    PROVE  RevsInv'
<1>1. c \in Clients /\ \A d \in Clients : job'[d] = IF d = c THEN k ELSE job[d]
  BY CallsBecome, SupplyTypes
<1>2. rev \in Nat /\ \A h \in Owners : db.position[h].rev \in Nat
  BY SupplyTypes
<1>3. ASSUME NEW d \in Clients, NEW r \in job[d].rows PROVE r.rev \in Nat
  <2>1. job[d].rows \in SUBSET [h : Owners, tokens : Nat, rev : Nat]
    BY SupplyTypes, EachServes
  <2>2. QED
    BY <1>3, <2>1
<1>4. SUFFICES ASSUME crashes = 0 PROVE /\ \A h \in Owners : db.position[h].rev <= rev'
                                        /\ \A d \in Clients : BelowRev(job[d])'
  BY DEF RevsInv
<1>5. \A h \in Owners : db.position[h].rev <= rev'
  BY <1>2, <1>4 DEF RevsInv
<1>6. ASSUME NEW d \in Clients PROVE BelowRev(job[d])'
  BY <1>1, <1>2, <1>3, <1>4 DEF RevsInv, BelowRev
<1>7. QED
  BY <1>5, <1>6

\* The calls stay what their steps say.
LEMMA CallsOn ==
    ASSUME Cap!TypeOK, \A d \in Clients : CallIs(job[d]), up, up' = up, NEW c, NEW k, Becomes(c, k), CallIs(k)
    PROVE  (\A d \in Clients : CallIs(job[d]))' /\ (~up => AllFree)'
<1>1. \A d \in Clients : job'[d] = IF d = c THEN k ELSE job[d]
  BY CallsBecome, SupplyTypes
<1>2. QED
  BY <1>1

\* Of a holder: another call has changed the tokens meanwhile, this call leaves them and its rows alone,
\* it has changed them and stamped nothing yet, or it has stamped what the book says.
Leaves(k, h) == (\A r \in k.rows : r.h # h) /\ pos'[h] = pos[h]
Stamps(k, h) == \E r \in k.rows : r.h = h /\ r.tokens = pos'[h] /\ r.rev > rev
LEMMA StampedBelow ==
    ASSUME Cap!TypeOK, RevsInv, crashes = 0, NEW h \in Owners
    PROVE  \A y \in Stamped(h) : y.rev \in Nat /\ y.rev <= rev
<1>1. db.position[h].rev \in Nat /\ db.position[h].rev <= rev
  BY SupplyTypes DEF RevsInv
<1>2. ASSUME NEW c \in Clients, NEW y \in RowsOf(job[c], h) PROVE y.rev \in Nat /\ y.rev <= rev
  <2>1. PICK r \in job[c].rows : y = [tokens |-> r.tokens, rev |-> r.rev]
    BY DEF RowsOf
  <2>2. job[c].rows \in SUBSET [h : Owners, tokens : Nat, rev : Nat]
    BY SupplyTypes, EachServes
  <2>3. r.rev \in Nat /\ r.rev <= rev
    BY <2>2 DEF RevsInv, BelowRev
  <2>4. QED
    BY <2>1, <2>3
<1>3. QED
  BY <1>1, <1>2 DEF Stamped
LEMMA CaughtOn ==
    ASSUME Cap!TypeOK, RevsInv, crashes = 0, UNCHANGED db, NEW c, NEW k, Becomes(c, k), CallIs(k), job[c].rows = {},
           NEW h \in Owners, Caught(h),
           \/ Unstamped(k, h)
           \/ Leaves(k, h) /\ ~Unstamped(job[c], h)
           \/ Stamps(k, h)
    PROVE  Caught(h)'
<1>1. c \in Clients /\ \A d \in Clients : job'[d] = IF d = c THEN k ELSE job[d]
  BY CallsBecome, SupplyTypes
<1>2. CASE Unstamped(k, h)
  BY <1>1, <1>2 DEF Caught, Unstamped
<1>3. ASSUME NEW d \in Clients, d # c, Unstamped(job[d], h) PROVE Caught(h)'
  BY <1>1, <1>3 DEF Caught, Unstamped
<1>4. RowsOf(job[c], h) = {}
  BY DEF RowsOf
<1>5. Stamped(h)' = Stamped(h) \cup RowsOf(k, h)
  <2>1. ASSUME NEW d \in Clients PROVE RowsOf(job'[d], h) = IF d = c THEN RowsOf(k, h) ELSE RowsOf(job[d], h)
    BY <1>1
  <2>2. Stamped(h)' = {db.position[h]} \cup UNION {RowsOf(job'[d], h) : d \in Clients}
    BY DEF Stamped, RowsOf
  <2>3. QED
    BY <1>1, <1>4, <2>1, <2>2 DEF Stamped
<1>6. CASE Leaves(k, h) /\ ~Unstamped(job[c], h)
  <2>1. RowsOf(k, h) = {}
    BY <1>6 DEF RowsOf, Leaves
  <2>2. Stamped(h)' = Stamped(h)
    BY <1>5, <2>1
  <2>3. CASE \E d \in Clients : Unstamped(job[d], h)
    BY <1>3, <1>6, <2>3
  <2>4. CASE \E l \in Stamped(h) : Newest(l, Stamped(h)) /\ l.tokens = pos[h]
    BY <1>6, <2>2, <2>4 DEF Caught, Leaves
  <2>5. QED
    BY <2>3, <2>4 DEF Caught
<1>7. CASE Stamps(k, h)
  <2>1. PICK r \in k.rows : r.h = h /\ r.tokens = pos'[h] /\ r.rev > rev
    BY <1>7 DEF Stamps
  <2>2. RowsOf(k, h) = {[tokens |-> r.tokens, rev |-> r.rev]}
    BY <2>1 DEF RowsOf, CallIs
  <2> DEFINE x == [tokens |-> r.tokens, rev |-> r.rev]
             R == Stamped(h) \cup {x}
  <2>3. x.rev = r.rev /\ x.tokens = pos'[h] /\ x.rev \in Nat /\ rev \in Nat
    <3>1. k.rows \in SUBSET [h : Owners, tokens : Nat, rev : Nat]
      BY EachServes DEF Becomes
    <3>2. QED
      BY <2>1, <3>1, SupplyTypes
  <2>4. \A y \in Stamped(h) : y.rev \in Nat /\ y.rev <= rev
    BY StampedBelow
  <2>5. Stamped(h)' = R /\ x \in R
    BY <1>5, <2>2
  <2> HIDE DEF x
  <2>6. Newest(x, R)
    <3>1. \A y \in R : y.rev \in Nat /\ (y = x \/ y.rev <= rev)
      BY <2>3, <2>4
    <3>2. rev < x.rev
      BY <2>1, <2>3
    <3> HIDE DEF R
    <3>3. QED
      BY <2>3, <2>5, <3>1, <3>2, NewRow
  <2>7. \E l \in Stamped(h)' : Newest(l, Stamped(h)') /\ l.tokens = pos'[h]
    BY <2>3, <2>5, <2>6
  <2>8. QED
    BY <2>7 DEF Caught, Newest
<1>8. QED
  BY <1>2, <1>6, <1>7

\* No two calls overlapped as long as each began when nobody was being served.
CountsOverlap == overlapped' = (overlapped \/ ~AllFree)
OneGoesOn(c) == overlapped' = overlapped /\ job[c].at # "idle"
LEMMA AloneOn ==
    ASSUME Cap!TypeOK, OneAtATime, NEW c, NEW k, Becomes(c, k),
           CountsOverlap \/ OneGoesOn(c), (~overlapped => StillTrue(k))'
    PROVE  OneAtATime'
<1>1. c \in Clients /\ \A d \in Clients : job'[d] = IF d = c THEN k ELSE job[d]
  BY CallsBecome, SupplyTypes
<1>2. SUFFICES ASSUME ~overlapped'
               PROVE  /\ \A b, d \in Clients : job'[b].at # "idle" /\ job'[d].at # "idle" => b = d
                      /\ \A d \in Clients : StillTrue(job[d])'
  BY DEF OneAtATime
<1>3. ~overlapped /\ \A d \in Clients : d # c => job[d].at = "idle"
  <2>1. ~overlapped /\ (AllFree \/ job[c].at # "idle")
    <3>1. CASE overlapped
      <4>1. overlapped' = TRUE \/ overlapped' = overlapped
        BY <3>1, Zenon DEF CountsOverlap, OneGoesOn
      <4>2. QED
        BY <1>2, <3>1, <4>1, Zenon
    <3>2. CASE ~overlapped /\ ~AllFree
      <4>1. overlapped' = TRUE \/ job[c].at # "idle"
        BY <3>2, Zenon DEF CountsOverlap, OneGoesOn
      <4>2. QED
        BY <1>2, <3>2, <4>1, Zenon
    <3>3. QED
      BY <3>1, <3>2, Zenon
  <2>2. QED
    BY <1>1, <2>1 DEF AllFree, OneAtATime
<1>4. \A b, d \in Clients : job'[b].at # "idle" /\ job'[d].at # "idle" => b = d
  BY <1>1, <1>3
<1>5. ASSUME NEW d \in Clients, NEW x, x = job'[d] PROVE StillTrue(x)'
  <2>1. CASE d = c
    BY <1>1, <1>2, <1>5, <2>1
  <2>2. CASE d # c
    <3>1. x.at = "idle"
      BY <1>1, <1>3, <1>5, <2>2
    <3>2. QED
      BY <3>1 DEF StillTrue
  <2>3. QED
    BY <2>1, <2>2
<1>6. QED
  BY <1>4, <1>5 DEF StillTrue

LEMMA SupplyOn ==
    ASSUME SupplyInv, up, UNCHANGED <<up, crashes, db>>, NEW c, NEW k, Becomes(c, k), CallIs(k), Cap!TypeOK',
           rev <= rev', \A r \in k.rows : r.rev <= rev',
           CountsOverlap \/ OneGoesOn(c), (~overlapped => StillTrue(k))',
           retired # 0 \/ job[c].at = "count" => retired' # 0, job[c].rows = {},
           ~Retiring' => \A h \in Owners : \/ Unstamped(k, h)
                                           \/ Leaves(k, h) /\ ~Unstamped(job[c], h)
                                           \/ Stamps(k, h)
    PROVE  SupplyInv'
<1>1. Cap!TypeOK /\ (\A d \in Clients : CallIs(job[d])) /\ RevsInv /\ OneAtATime
  BY DEF SupplyInv
<1>2. c \in Clients /\ \A d \in Clients : job'[d] = IF d = c THEN k ELSE job[d]
  BY <1>1, CallsBecome, SupplyTypes
<1>3. (\A d \in Clients : CallIs(job[d]))' /\ (~up => AllFree)'
  BY <1>1, CallsOn
<1>4. RevsInv'
  <2>1. rev' \in Nat
    BY DEF Cap!TypeOK
  <2>2. QED
    BY <1>1, <2>1, RevsOn
<1>5. OneAtATime'
  BY <1>1, AloneOn
<1>6. ASSUME crashes = 0, ~Retiring', NEW h \in Owners PROVE Caught(h)'
  <2>1. ~Retiring
    BY <1>2, <1>6 DEF Retiring
  <2>2. Caught(h)
    BY <1>6, <2>1 DEF SupplyInv
  <2>3. QED
    BY <1>1, <1>6, <2>2, CaughtOn
<1>7. QED
  BY <1>3, <1>4, <1>5, <1>6 DEF SupplyInv

\* A step that leaves the calls, the book and the tables as they are.
LEMMA SupplyStays ==
    ASSUME SupplyInv, UNCHANGED <<up, pos, rev, db, job, retired, authorised, crashes>>, Cap!TypeOK',
           CountsOverlap \/ overlapped' = overlapped
    PROVE  SupplyInv'
<1>1. /\ (\A d \in Clients : CallIs(job[d])) /\ (~up => AllFree) /\ RevsInv /\ OneAtATime
      /\ crashes = 0 /\ ~Retiring => \A h \in Owners : Caught(h)
  BY DEF SupplyInv
<1>2. (\A d \in Clients : CallIs(job[d]))' /\ (~up => AllFree)'
  BY <1>1 DEF AllFree
<1>3. RevsInv'
  BY <1>1 DEF RevsInv, BelowRev
<1>4. Cap!Outstanding' = Cap!Outstanding
  BY DEF Cap!Outstanding
<1>5. ~overlapped' => ~overlapped
  BY DEF CountsOverlap
<1>6. OneAtATime'
  BY <1>1, <1>4, <1>5 DEF OneAtATime, StillTrue, Cap!Others
<1>7. Retiring' = Retiring
  BY DEF Retiring
<1>8. \A h \in Owners : Caught(h)' = Caught(h)
  BY DEF Caught, Stamped
<1>9. QED
  BY <1>1, <1>2, <1>3, <1>6, <1>7, <1>8 DEF SupplyInv

\* What is of its kind after a step that takes a call on.
LEMMA TypesOn ==
    ASSUME Cap!TypeOK, NEW c, NEW k, Becomes(c, k), up' \in BOOLEAN, mu' \in Clients \cup {Nobody}, pos' \in [Owners -> Nat],
           authorised' \in Nat, derived' \in BOOLEAN, retired' \in Nat, pinned' \in Nat, rev' \in Nat, retiredBlocks' \in Nat,
           db' \in [position : [Owners -> Cap!Row], other : Nat], CountsOverlap \/ overlapped' = overlapped,
           ops' \in Nat, crashes' \in Nat
    PROVE  Cap!TypeOK'
<1>1. job' \in [Clients -> Cap!CallState]
  BY CallsBecome, SupplyTypes
<1>2. overlapped' \in BOOLEAN
  <2>1. overlapped \in BOOLEAN
    BY DEF Cap!TypeOK
  <2>2. QED
    BY <2>1, Zenon DEF CountsOverlap
<1>3. Cap!Row' = Cap!Row /\ Cap!CallState' = Cap!CallState
  BY DEF Cap!Row, Cap!CallState
<1>4. QED
  BY <1>1, <1>2, <1>3 DEF Cap!TypeOK

LEMMA SameTypes ==
    ASSUME Cap!TypeOK, UNCHANGED <<up, mu, pos, authorised, derived, retired, pinned, rev, retiredBlocks, db, job, crashes>>,
           CountsOverlap \/ overlapped' = overlapped, ops' \in Nat \/ ops' = ops + 1 \/ ops' = ops
    PROVE  Cap!TypeOK'
<1>1. overlapped' \in BOOLEAN
  <2>1. overlapped \in BOOLEAN
    BY DEF Cap!TypeOK
  <2>2. QED
    BY <2>1, Zenon DEF CountsOverlap
<1>2. ops' \in Nat
  BY DEF Cap!TypeOK
<1>3. QED
  BY <1>1, <1>2 DEF Cap!TypeOK, Cap!Row, Cap!CallState
-----------------------------------------------------------------------------
(* The supply: every step keeps the invariant *)

LEMMA SupplyKinds ==
    ASSUME Cap!TypeOK
    PROVE  /\ up \in BOOLEAN /\ mu \in Clients \cup {Nobody} /\ db \in [position : [Owners -> Cap!Row], other : Nat]
           /\ ops \in Nat /\ crashes \in Nat /\ overlapped \in BOOLEAN
BY DEF Cap!TypeOK

LEMMA KeepsSeed ==
    ASSUME Cap!CapConstants, SupplyInv, NEW c \in Clients, NEW h \in Owners, NEW n \in 1..MaxQuantity,
           NEW declared \in {0} \cup 1..MaxQuantity, Cap!SeedPosition(c, h, n, declared)
    PROVE  SupplyInv'
<1>1. Cap!TypeOK
  BY DEF SupplyInv
<1>2. /\ up /\ job[c].at = "idle" /\ CountsOverlap
      /\ ops' = ops + 1 /\ UNCHANGED <<up, mu, pos, retired, pinned, rev, retiredBlocks, db, crashes>>
  BY <1>1, SeedEffect DEF CountsOverlap
<1>3. CASE UNCHANGED <<authorised, derived, job>>
  <2>1. Cap!TypeOK'
    BY <1>1, <1>2, <1>3, SameTypes
  <2>2. QED
    BY <1>2, <1>3, <2>1, SupplyStays
<1>4. ASSUME NEW k, k = Serves("check", h, Owner, n, authorised', {}, 0), Becomes(c, k),
             authorised' \in Nat, derived' \in BOOLEAN
      PROVE  SupplyInv'
  <2>1. k.at = "check" /\ k.cap = authorised' /\ k.rows = {}
    BY <1>4, ServesFields
  <2>2. Cap!TypeOK'
    BY <1>1, <1>2, <1>4, SupplyTypes, SupplyKinds, TypesOn
  <2>3. CallIs(k) /\ StillTrue(k)' /\ \A r \in k.rows : r.rev <= rev'
    BY <2>1 DEF CallIs, StillTrue
  <2>4. job[c].rows = {}
    BY <1>2 DEF SupplyInv, CallIs
  <2>5. \A g \in Owners : Leaves(k, g) /\ ~Unstamped(job[c], g)
    BY <1>2, <2>1 DEF Leaves, Unstamped
  <2>6. rev <= rev'
    BY <1>1, <1>2, SupplyTypes
  <2>7. QED
    BY <1>2, <1>4, <2>2, <2>3, <2>4, <2>5, <2>6, SupplyOn
<1>5. QED
  BY <1>1, <1>3, <1>4, SeedEffect

LEMMA KeepsCheck ==
    ASSUME Cap!CapConstants, SupplyInv, NEW c \in Clients, Cap!SeedCheck(c)
    PROVE  SupplyInv'
<1> DEFINE x == job[c]
<1>1. Cap!TypeOK
  BY DEF SupplyInv
<1>2. /\ up /\ x.at = "check"
      /\ UNCHANGED <<up, mu, pos, authorised, derived, retired, pinned, rev, retiredBlocks, db, overlapped, ops, crashes>>
  BY <1>1, CheckEffect
<1>3. ASSUME NEW k, Becomes(c, k), k.at \in {"idle", "set"}, k.rows = {}, (~overlapped => StillTrue(k))'
      PROVE  SupplyInv'
  <2>1. Cap!TypeOK'
    BY <1>1, <1>2, <1>3, SupplyTypes, SupplyKinds, TypesOn
  <2>2. CallIs(k) /\ \A r \in k.rows : r.rev <= rev'
    BY <1>3 DEF CallIs
  <2>3. OneGoesOn(c) /\ x.rows = {}
    BY <1>2 DEF OneGoesOn, SupplyInv, CallIs
  <2>4. \A g \in Owners : Leaves(k, g) /\ ~Unstamped(x, g)
    BY <1>2, <1>3 DEF Leaves, Unstamped
  <2>5. rev <= rev'
    BY <1>1, <1>2, SupplyTypes
  <2>6. QED
    BY <1>2, <1>3, <2>1, <2>2, <2>3, <2>4, <2>5, SupplyOn
<1>4. ASSUME Becomes(c, NoCall) PROVE SupplyInv'
  <2>1. NoCall.at = "idle" /\ NoCall.rows = {}
    BY ServesFields DEF NoCall
  <2>2. SUFFICES ASSUME NEW k, k = NoCall PROVE SupplyInv'
    OBVIOUS
  <2>3. StillTrue(k)'
    BY <2>1, <2>2 DEF StillTrue
  <2>4. QED
    BY <1>3, <1>4, <2>1, <2>2, <2>3
<1>5. ASSUME NEW h, h = x.h, NEW k, k = Serves("set", x.h, x.to, x.n, x.cap, x.rows, x.last), Becomes(c, k), Cap!Others(x.h) + x.n <= x.cap
      PROVE  SupplyInv'
  <2>1. k.at = "set" /\ k.h = x.h /\ k.n = x.n /\ k.cap = x.cap /\ k.rows = x.rows
    BY <1>5, ServesFields
  <2>2. x.rows = {}
    BY <1>2 DEF SupplyInv, CallIs
  <2>3. Cap!Others(h)' = Cap!Others(h)
    BY <1>2 DEF Cap!Others, Cap!Outstanding
  <2>4. ~overlapped => x.cap = authorised
    BY <1>2 DEF SupplyInv, OneAtATime, StillTrue
  <2>5. ASSUME ~overlapped' PROVE StillTrue(k)'
    <3>1. ~overlapped
      BY <1>2, <2>5
    <3>2. k.cap = authorised' /\ Cap!Others(h)' + k.n <= k.cap /\ k.h = h
      BY <1>2, <1>5, <2>1, <2>3, <2>4, <3>1
    <3>3. QED
      BY <3>2 DEF StillTrue
  <2>6. QED
    BY <1>3, <1>5, <2>1, <2>2, <2>5
<1>6. QED
  BY <1>1, <1>4, <1>5, CheckEffect

LEMMA KeepsSet ==
    ASSUME Cap!CapConstants, SupplyInv, NEW c \in Clients, Cap!SeedSet(c) \/ Cap!RestateSet(c)
    PROVE  SupplyInv'
<1> DEFINE x == job[c]
<1>1. Cap!TypeOK
  BY DEF SupplyInv
<1>2. /\ up /\ pos' = [pos EXCEPT ![x.h] = x.n] /\ x \in Cap!CallState /\ x.at \in {"set", "reset"}
      /\ \E a \in {"snap", "pin"} : Becomes(c, Serves(a, x.h, x.to, x.n, x.cap, x.rows, x.last))
      /\ UNCHANGED <<up, mu, authorised, derived, retired, pinned, rev, retiredBlocks, db, overlapped, ops, crashes>>
  BY <1>1, SetEffect
<1>3. PICK a \in {"snap", "pin"} : Becomes(c, Serves(a, x.h, x.to, x.n, x.cap, x.rows, x.last))
  BY <1>2
<1>4. x.h \in Owners /\ x.n \in Nat /\ pos \in [Owners -> Nat]
  BY <1>1, <1>2, EachServes, SupplyTypes
<1>5. SUFFICES ASSUME NEW k, k = Serves(a, x.h, x.to, x.n, x.cap, x.rows, x.last), Becomes(c, k) PROVE SupplyInv'
  BY <1>3
<1>6. k.at = a /\ k.h = x.h /\ k.rows = x.rows
  BY <1>5, ServesFields
<1>7. x.rows = {}
  BY <1>2 DEF SupplyInv, CallIs
<1>8. pos' \in [Owners -> Nat] /\ \A g \in Owners : g # x.h => pos'[g] = pos[g]
  BY <1>2, <1>4
<1>9. Cap!TypeOK'
  BY <1>1, <1>2, <1>5, <1>8, SupplyTypes, SupplyKinds, TypesOn
<1>10. CallIs(k) /\ StillTrue(k)' /\ \A r \in k.rows : r.rev <= rev'
  BY <1>3, <1>6, <1>7 DEF CallIs, StillTrue
<1>11. \A g \in Owners : Unstamped(k, g) \/ (Leaves(k, g) /\ ~Unstamped(x, g))
  BY <1>2, <1>3, <1>6, <1>7, <1>8 DEF Unstamped, Leaves
<1>12. OneGoesOn(c) /\ rev <= rev' /\ x.at # "count"
  BY <1>1, <1>2, SupplyTypes DEF OneGoesOn
<1>13. QED
  BY <1>2, <1>5, <1>7, <1>9, <1>10, <1>11, <1>12, SupplyOn

LEMMA KeepsSnap ==
    ASSUME Cap!CapConstants, SupplyInv, NEW c \in Clients, Cap!SeedSnap(c) \/ Cap!RestatePin(c)
    PROVE  SupplyInv'
<1> DEFINE x == job[c]
           r == [h |-> x.h, tokens |-> pos[x.h], rev |-> rev + 1]
<1>1. Cap!TypeOK
  BY DEF SupplyInv
<1>2. /\ up /\ x.at \in {"snap", "pin"} /\ x \in Cap!CallState /\ rev' = rev + 1
      /\ Becomes(c, Serves("write", x.h, x.to, x.n, x.cap, {r}, x.last))
      /\ \/ UNCHANGED <<authorised, derived, pinned>>
         \/ authorised' = x.cap /\ pinned' = x.cap /\ derived' = FALSE
      /\ UNCHANGED <<up, mu, pos, retired, retiredBlocks, db, overlapped, ops, crashes>>
  BY <1>1, SnapEffect
<1>3. r.h = x.h /\ r.tokens = pos[x.h] /\ r.rev = rev + 1 /\ rev \in Nat
  BY <1>1, SupplyTypes
<1> HIDE DEF r
<1>4. SUFFICES ASSUME NEW k, k = Serves("write", x.h, x.to, x.n, x.cap, {r}, x.last), Becomes(c, k) PROVE SupplyInv'
  BY <1>2
<1>5. k.at = "write" /\ k.rows = {r}
  BY <1>4, ServesFields
<1>6. authorised' \in Nat /\ pinned' \in Nat /\ derived' \in BOOLEAN /\ rev' \in Nat
  <2>1. x.cap \in Nat
    BY <1>2, EachServes
  <2>2. authorised \in Nat /\ pinned \in Nat /\ derived \in BOOLEAN
    BY <1>1, SupplyTypes
  <2>3. authorised' \in Nat /\ pinned' \in Nat
    BY <1>2, <2>1, <2>2
  <2>4. derived' = derived \/ derived' = FALSE
    BY <1>2, Zenon
  <2>5. derived' \in BOOLEAN
    BY <2>2, <2>4, Zenon
  <2>6. QED
    BY <1>2, <1>3, <2>3, <2>5
<1>7. Cap!TypeOK'
  BY <1>1, <1>2, <1>4, <1>6, SupplyTypes, SupplyKinds, TypesOn
<1>8. CallIs(k) /\ StillTrue(k)' /\ \A s \in k.rows : s.rev <= rev'
  BY <1>2, <1>3, <1>5 DEF CallIs, StillTrue
<1>9. ASSUME NEW g \in Owners PROVE Stamps(k, g) \/ (Leaves(k, g) /\ ~Unstamped(x, g))
  BY <1>2, <1>3, <1>5 DEF Unstamped, Leaves, Stamps
<1>10. OneGoesOn(c) /\ rev <= rev' /\ x.at # "count" /\ x.rows = {}
  <2>1. x.rows = {}
    BY <1>2 DEF SupplyInv, CallIs
  <2>2. QED
    BY <1>2, <1>3, <2>1 DEF OneGoesOn
<1>11. QED
  BY <1>2, <1>4, <1>7, <1>8, <1>9, <1>10, SupplyOn

LEMMA KeepsRestate ==
    ASSUME Cap!CapConstants, SupplyInv, NEW c \in Clients, NEW h \in Owners, NEW n \in 1..MaxQuantity,
           Cap!RestateSupply(c, h, n)
    PROVE  SupplyInv'
<1>1. Cap!TypeOK
  BY DEF SupplyInv
<1>2. /\ up /\ job[c].at = "idle" /\ CountsOverlap
      /\ \/ job' = job
         \/ \E a \in {"reset", "pin"}, left \in Nat : Becomes(c, Serves(a, h, Owner, left, n, {}, 0))
      /\ ops' = ops + 1
      /\ UNCHANGED <<up, mu, pos, authorised, derived, retired, pinned, rev, retiredBlocks, db, crashes>>
  BY <1>1, RestateEffect DEF CountsOverlap
<1>3. CASE job' = job
  <2>1. Cap!TypeOK'
    BY <1>1, <1>2, <1>3, SameTypes
  <2>2. QED
    BY <1>2, <1>3, <2>1, SupplyStays
<1>4. ASSUME NEW a \in {"reset", "pin"}, NEW left \in Nat,
             NEW k, k = Serves(a, h, Owner, left, n, {}, 0), Becomes(c, k)
      PROVE  SupplyInv'
  <2>1. k.at = a /\ k.rows = {}
    BY <1>4, ServesFields
  <2>2. Cap!TypeOK'
    BY <1>1, <1>2, <1>4, SupplyTypes, SupplyKinds, TypesOn
  <2>3. CallIs(k) /\ StillTrue(k)' /\ \A r \in k.rows : r.rev <= rev'
    BY <2>1 DEF CallIs, StillTrue
  <2>4. job[c].rows = {}
    BY <1>2 DEF SupplyInv, CallIs
  <2>5. \A g \in Owners : Leaves(k, g) /\ ~Unstamped(job[c], g)
    BY <1>2, <2>1 DEF Leaves, Unstamped
  <2>6. rev <= rev'
    BY <1>1, <1>2, SupplyTypes
  <2>7. QED
    BY <1>2, <1>4, <2>2, <2>3, <2>4, <2>5, <2>6, SupplyOn
<1>5. QED
  BY <1>2, <1>3, <1>4

LEMMA KeepsRetire ==
    ASSUME Cap!CapConstants, SupplyInv, NEW c \in Clients, NEW h \in Owners, NEW n \in 1..MaxQuantity,
           Cap!RetireCredits(c, h, n)
    PROVE  SupplyInv'
<1>1. Cap!TypeOK
  BY DEF SupplyInv
<1>2. /\ up /\ job[c].at = "idle" /\ CountsOverlap /\ n \in Nat /\ n > 0
      /\ \/ pos' = pos /\ job' = job
         \/ /\ pos[h] >= n /\ pos' = [pos EXCEPT ![h] = @ - n]
            /\ Becomes(c, Serves("count", h, Owner, n, 0, {}, 0))
      /\ ops' = ops + 1
      /\ UNCHANGED <<up, mu, authorised, derived, retired, pinned, rev, retiredBlocks, db, crashes>>
  BY <1>1, RetireEffect DEF CountsOverlap
<1>3. CASE pos' = pos /\ job' = job
  <2>1. Cap!TypeOK'
    BY <1>1, <1>2, <1>3, SameTypes
  <2>2. QED
    BY <1>2, <1>3, <2>1, SupplyStays
<1>4. ASSUME pos[h] >= n, pos' = [pos EXCEPT ![h] = @ - n], NEW k, k = Serves("count", h, Owner, n, 0, {}, 0), Becomes(c, k)
      PROVE  SupplyInv'
  <2>1. k.at = "count" /\ k.rows = {} /\ k.n = n
    BY <1>4, ServesFields
  <2>2. pos' \in [Owners -> Nat]
    <3>1. pos \in [Owners -> Nat] /\ pos[h] - n \in Nat
      BY <1>1, <1>2, <1>4, SupplyTypes
    <3>2. QED
      BY <1>4, <3>1
  <2>3. Cap!TypeOK'
    BY <1>1, <1>2, <1>4, <2>2, SupplyTypes, SupplyKinds, TypesOn
  <2>4. CallIs(k) /\ StillTrue(k)' /\ \A r \in k.rows : r.rev <= rev'
    BY <1>2, <2>1 DEF CallIs, StillTrue
  <2>5. job[c].rows = {}
    BY <1>2 DEF SupplyInv, CallIs
  <2>6. Retiring'
    <3>1. job'[c] = k
      BY <1>1, <1>4, CallsBecome, SupplyTypes
    <3>2. QED
      BY <2>1, <3>1 DEF Retiring
  <2>7. rev <= rev'
    BY <1>1, <1>2, SupplyTypes
  <2>8. QED
    BY <1>2, <1>4, <2>3, <2>4, <2>5, <2>6, <2>7, SupplyOn
<1>5. QED
  BY <1>2, <1>3, <1>4

LEMMA KeepsCount ==
    ASSUME Cap!CapConstants, SupplyInv, NEW c \in Clients, Cap!RetireCount(c)
    PROVE  SupplyInv'
<1> DEFINE x == job[c]
<1>1. Cap!TypeOK
  BY DEF SupplyInv
<1>2. /\ up /\ x.at = "count" /\ x \in Cap!CallState /\ retired' = retired + x.n
      /\ Becomes(c, Serves("anchor", x.h, x.to, x.n, x.cap, x.rows, x.last))
      /\ UNCHANGED <<up, mu, pos, authorised, derived, pinned, rev, retiredBlocks, db, overlapped, ops, crashes>>
  BY <1>1, CountEffect
<1>3. SUFFICES ASSUME NEW k, k = Serves("anchor", x.h, x.to, x.n, x.cap, x.rows, x.last), Becomes(c, k) PROVE SupplyInv'
  BY <1>2
<1>4. k.at = "anchor" /\ k.rows = x.rows
  BY <1>3, ServesFields
<1>5. x.rows = {} /\ x.n > 0
  BY <1>2 DEF SupplyInv, CallIs
<1>6. retired' \in Nat /\ retired' # 0
  BY <1>1, <1>2, <1>5, EachServes, SupplyTypes
<1>7. Cap!TypeOK'
  BY <1>1, <1>2, <1>3, <1>6, SupplyTypes, SupplyKinds, TypesOn
<1>8. CallIs(k) /\ StillTrue(k)' /\ \A r \in k.rows : r.rev <= rev'
  BY <1>4, <1>5 DEF CallIs, StillTrue
<1>9. OneGoesOn(c) /\ rev <= rev' /\ Retiring'
  BY <1>1, <1>2, <1>6, SupplyTypes DEF OneGoesOn, Retiring
<1>10. QED
  BY <1>2, <1>3, <1>5, <1>6, <1>7, <1>8, <1>9, SupplyOn

LEMMA KeepsAnchor ==
    ASSUME Cap!CapConstants, SupplyInv, NEW c \in Clients, Cap!RetireAnchor(c)
    PROVE  SupplyInv'
<1> DEFINE x == job[c]
<1>1. Cap!TypeOK
  BY DEF SupplyInv
<1>2. /\ up /\ x.at = "anchor" /\ x \in Cap!CallState /\ retiredBlocks' = retiredBlocks + x.n
      /\ Becomes(c, NoCall)
      /\ UNCHANGED <<up, mu, pos, authorised, derived, retired, pinned, rev, db, overlapped, ops, crashes>>
  BY <1>1, AnchorEffect
<1>3. SUFFICES ASSUME NEW k, k = NoCall, Becomes(c, k) PROVE SupplyInv'
  BY <1>2
<1>4. k.at = "idle" /\ k.rows = {}
  BY <1>3, ServesFields DEF NoCall
<1>5. retiredBlocks' \in Nat
  BY <1>1, <1>2, EachServes, SupplyTypes
<1>6. Cap!TypeOK'
  BY <1>1, <1>2, <1>3, <1>5, SupplyTypes, SupplyKinds, TypesOn
<1>7. CallIs(k) /\ StillTrue(k)' /\ \A r \in k.rows : r.rev <= rev'
  BY <1>4 DEF CallIs, StillTrue
<1>8. OneGoesOn(c) /\ rev <= rev' /\ x.at # "count" /\ x.rows = {}
  <2>1. x.rows = {}
    BY <1>2 DEF SupplyInv, CallIs
  <2>2. QED
    BY <1>1, <1>2, <2>1, SupplyTypes DEF OneGoesOn
<1>9. \A g \in Owners : Leaves(k, g) /\ ~Unstamped(x, g)
  BY <1>2, <1>4 DEF Leaves, Unstamped
<1>10. QED
  BY <1>2, <1>3, <1>6, <1>7, <1>8, <1>9, SupplyOn

LEMMA KeepsSettle ==
    ASSUME Cap!CapConstants, SupplyInv, NEW c \in Clients, NEW from \in Owners, NEW to \in Owners,
           NEW n \in 1..MaxQuantity, Cap!Settle(c, from, to, n)
    PROVE  SupplyInv'
<1>1. Cap!TypeOK
  BY DEF SupplyInv
<1>2. /\ up /\ job[c].at = "idle" /\ n \in Nat /\ from # to /\ pos[from] >= n
      /\ pos' = [pos EXCEPT ![from] = @ - n, ![to] = @ + n]
      /\ Becomes(c, Serves("moved", from, to, n, 0, {}, 0))
      /\ mu' = c /\ CountsOverlap /\ ops' = ops + 1
      /\ UNCHANGED <<up, authorised, derived, retired, pinned, rev, retiredBlocks, db, crashes>>
  BY <1>1, SaleEffect DEF CountsOverlap
<1>3. SUFFICES ASSUME NEW k, k = Serves("moved", from, to, n, 0, {}, 0), Becomes(c, k) PROVE SupplyInv'
  BY <1>2
<1>4. k.at = "moved" /\ k.rows = {} /\ k.h = from /\ k.to = to
  BY <1>3, ServesFields
<1>5. pos' \in [Owners -> Nat] /\ \A g \in Owners : g # from /\ g # to => pos'[g] = pos[g]
  <2>1. pos \in [Owners -> Nat] /\ pos[from] - n \in Nat /\ pos[to] + n \in Nat
    BY <1>1, <1>2, SupplyTypes
  <2>2. QED
    BY <1>2, <2>1
<1>6. Cap!TypeOK'
  BY <1>1, <1>2, <1>3, <1>5, SupplyTypes, SupplyKinds, TypesOn
<1>7. CallIs(k) /\ StillTrue(k)' /\ \A r \in k.rows : r.rev <= rev'
  BY <1>2, <1>4 DEF CallIs, StillTrue
<1>8. rev <= rev' /\ job[c].rows = {}
  <2>1. job[c].rows = {}
    BY <1>2 DEF SupplyInv, CallIs
  <2>2. QED
    BY <1>1, <1>2, <2>1, SupplyTypes
<1>9. \A g \in Owners : Unstamped(k, g) \/ (Leaves(k, g) /\ ~Unstamped(job[c], g))
  BY <1>2, <1>4, <1>5 DEF Leaves, Unstamped
<1>10. QED
  BY <1>2, <1>3, <1>6, <1>7, <1>8, <1>9, SupplyOn

LEMMA KeepsMoved ==
    ASSUME Cap!CapConstants, SupplyInv, NEW c \in Clients, Cap!SettleSnap(c)
    PROVE  SupplyInv'
<1> DEFINE x == job[c]
           r == [h |-> x.h, tokens |-> pos[x.h], rev |-> rev + 3]
           s == [h |-> x.to, tokens |-> pos[x.to], rev |-> rev + 4]
<1>1. Cap!TypeOK
  BY DEF SupplyInv
<1>2. /\ up /\ x.at = "moved" /\ x \in Cap!CallState /\ rev' = rev + 5 /\ mu' = Nobody
      /\ Becomes(c, Serves("write", x.h, x.to, x.n, x.cap, {r, s}, rev + 5))
      /\ UNCHANGED <<up, pos, authorised, derived, retired, pinned, retiredBlocks, db, overlapped, ops, crashes>>
  BY <1>1, MovedEffect
<1>3. /\ r.h = x.h /\ r.tokens = pos[x.h] /\ r.rev = rev + 3 /\ rev \in Nat
      /\ s.h = x.to /\ s.tokens = pos[x.to] /\ s.rev = rev + 4
  BY <1>1, SupplyTypes
<1> HIDE DEF r, s
<1>4. SUFFICES ASSUME NEW k, k = Serves("write", x.h, x.to, x.n, x.cap, {r, s}, rev + 5), Becomes(c, k) PROVE SupplyInv'
  BY <1>2
<1>5. k.at = "write" /\ k.rows = {r, s}
  BY <1>4, ServesFields
<1>6. Cap!TypeOK'
  <2>1. rev' \in Nat
    BY <1>2, <1>3
  <2>2. QED
    BY <1>1, <1>2, <1>4, <2>1, SupplyTypes, SupplyKinds, TypesOn
<1>7. x.rows = {} /\ x.h # x.to
  BY <1>2 DEF SupplyInv, CallIs
<1>8. CallIs(k) /\ StillTrue(k)' /\ \A t \in k.rows : t.rev <= rev'
  BY <1>2, <1>3, <1>5, <1>7 DEF CallIs, StillTrue
<1>9. ASSUME NEW g \in Owners PROVE Stamps(k, g) \/ (Leaves(k, g) /\ ~Unstamped(x, g))
  BY <1>2, <1>3, <1>5 DEF Unstamped, Leaves, Stamps
<1>10. OneGoesOn(c) /\ rev <= rev' /\ x.at # "count"
  BY <1>2, <1>3 DEF OneGoesOn
<1>11. QED
  BY <1>2, <1>4, <1>6, <1>7, <1>8, <1>9, <1>10, SupplyOn

LEMMA RowUpdated ==
    ASSUME NEW x, StoresRows(x), NEW h \in Owners, db.position[h] \in Cap!Row, x.rows \in SUBSET [h : Owners, tokens : Nat, rev : Nat]
    PROVE  /\ \/ db'.position[h] = db.position[h]
              \/ db'.position[h] \in RowsOf(x, h) /\ db'.position[h].rev > db.position[h].rev
           /\ \A y \in RowsOf(x, h) : y.rev > db.position[h].rev => db'.position[h] = y
<1>1. ASSUME NEW r \in x.rows, r.h = h, r.rev > db.position[h].rev, db'.position[h] = [tokens |-> r.tokens, rev |-> r.rev]
      PROVE  db'.position[h] \in RowsOf(x, h) /\ db'.position[h].rev > db.position[h].rev
  BY <1>1 DEF RowsOf
<1>2. ASSUME NEW y \in RowsOf(x, h), y.rev > db.position[h].rev PROVE db'.position[h] = y
  <2>1. PICK r \in x.rows : r.h = h /\ y = [tokens |-> r.tokens, rev |-> r.rev]
    BY DEF RowsOf
  <2>2. y.rev = r.rev
    BY <2>1
  <2>3. QED
    BY <1>2, <2>1, <2>2 DEF StoresRows
<1>3. QED
  BY <1>1, <1>2 DEF StoresRows

\* The newest row of a holder survives a write, in the table or on its way.
LEMMA CaughtWritten ==
    ASSUME Cap!TypeOK, RevsInv, crashes = 0, UNCHANGED pos, NEW c, Becomes(c, NoCall), StoresRows(job[c]), job[c].at = "write",
           NEW h \in Owners, Caught(h)
    PROVE  Caught(h)'
<1>1. c \in Clients /\ \A d \in Clients : job'[d] = IF d = c THEN NoCall ELSE job[d]
  BY CallsBecome, SupplyTypes
<1>2. NoCall.rows = {} /\ NoCall.at = "idle"
  BY ServesFields DEF NoCall
<1>3. ASSUME NEW d \in Clients, Unstamped(job[d], h) PROVE Caught(h)'
  <2>1. d # c
    BY <1>3 DEF Unstamped
  <2>2. job'[d] = job[d]
    BY <1>1, <2>1
  <2>3. QED
    BY <1>3, <2>2 DEF Caught, Unstamped
<1>4. ASSUME NEW l \in Stamped(h), Newest(l, Stamped(h)), l.tokens = pos[h] PROVE Caught(h)'
  <2> DEFINE old == db.position[h]
             new == db'.position[h]
  <2>1. /\ new = old \/ (new \in RowsOf(job[c], h) /\ new.rev > old.rev)
        /\ \A y \in RowsOf(job[c], h) : y.rev > old.rev => new = y
    <3>1. job[c] \in Cap!CallState /\ db.position[h] \in Cap!Row
      BY <1>1, SupplyTypes
    <3>2. job[c].rows \in SUBSET [h : Owners, tokens : Nat, rev : Nat]
      BY <3>1, EachServes
    <3>3. QED
      BY <3>1, <3>2, RowUpdated
  <2>2. \A y \in Stamped(h) : y.rev \in Nat
    BY StampedBelow
  <2>3. old \in Stamped(h) /\ RowsOf(job[c], h) \subseteq Stamped(h)
    BY <1>1 DEF Stamped
  <2>4. Stamped(h)' = {new} \cup UNION {RowsOf(job'[d], h) : d \in Clients}
    BY DEF Stamped, RowsOf
  <2>5. \A d \in Clients : RowsOf(job'[d], h) = IF d = c THEN {} ELSE RowsOf(job[d], h)
    BY <1>1, <1>2 DEF RowsOf
  <2> HIDE DEF old, new
  <2>6. Stamped(h)' \subseteq Stamped(h)
    <3>1. \A d \in Clients : RowsOf(job'[d], h) \subseteq Stamped(h)
      BY <2>5 DEF Stamped
    <3>2. new \in Stamped(h)
      BY <2>1, <2>3
    <3>3. QED
      BY <2>4, <3>1, <3>2
  <2>7. l \in Stamped(h)'
    <3>1. CASE l = old
      <4>1. new = l
        BY <1>4, <2>1, <2>2, <2>3, <3>1 DEF Newest
      <4>2. QED
        BY <2>4, <4>1
    <3>2. CASE l # old /\ l \in RowsOf(job[c], h)
      <4>1. ~(l.rev <= old.rev)
        BY <1>4, <2>2, <2>3, <3>2 DEF Newest
      <4>2. new = l
        BY <1>4, <2>1, <2>2, <2>3, <3>2, <4>1
      <4>3. QED
        BY <2>4, <4>2
    <3>3. ASSUME NEW d \in Clients, d # c, l \in RowsOf(job[d], h) PROVE l \in Stamped(h)'
      BY <2>4, <2>5, <3>3
    <3>4. QED
      BY <1>4, <3>1, <3>2, <3>3 DEF Stamped, old
  <2>8. \E y \in Stamped(h)' : Newest(y, Stamped(h)') /\ y.tokens = pos'[h]
    BY <1>4, <2>6, <2>7 DEF Newest
  <2>9. QED
    BY <2>8 DEF Caught, Newest
<1>5. QED
  BY <1>3, <1>4 DEF Caught

LEMMA KeepsWrite ==
    ASSUME Cap!CapConstants, SupplyInv, NEW c \in Clients, Cap!Write(c)
    PROVE  SupplyInv'
<1> DEFINE x == job[c]
<1>1. Cap!TypeOK /\ CallIs(x) /\ RevsInv
  BY DEF SupplyInv
<1>2. /\ up /\ x.at = "write" /\ x \in Cap!CallState /\ Becomes(c, NoCall) /\ StoresRows(x)
      /\ db' \in [position : [Owners -> Cap!Row], other : Nat]
      /\ UNCHANGED <<up, mu, pos, authorised, derived, retired, pinned, rev, retiredBlocks, overlapped, ops, crashes>>
  BY <1>1, RowsWritten
<1>3. NoCall.rows = {} /\ NoCall.at = "idle"
  BY ServesFields DEF NoCall
<1>4. /\ c \in Clients /\ \A d \in Clients : job'[d] = IF d = c THEN NoCall ELSE job[d]
  BY <1>1, <1>2, CallsBecome, SupplyTypes
<1>5. Cap!TypeOK'
  BY <1>1, <1>2, SupplyTypes, SupplyKinds, TypesOn
<1>6. (\A d \in Clients : CallIs(job[d]))' /\ (~up => AllFree)'
  <2>1. CallIs(NoCall)
    BY <1>3 DEF CallIs
  <2>2. \A d \in Clients : CallIs(job[d])
    BY DEF SupplyInv
  <2>3. QED
    BY <1>1, <1>2, <2>1, <2>2, CallsOn
<1>7. RevsInv'
  <2>1. SUFFICES ASSUME crashes = 0 PROVE RevsInv'
    BY <1>2 DEF RevsInv
  <2>2. ASSUME NEW h \in Owners PROVE db'.position[h].rev <= rev
    <3>1. db.position[h].rev <= rev /\ \A r \in x.rows : r.rev <= rev
      BY <1>1, <2>1 DEF RevsInv, BelowRev
    <3>2. ASSUME NEW r \in x.rows, db'.position[h] = [tokens |-> r.tokens, rev |-> r.rev] PROVE db'.position[h].rev <= rev
      <4>1. db'.position[h].rev = r.rev
        BY <3>2
      <4>2. QED
        BY <3>1, <4>1
    <3>3. db'.position[h] = db.position[h] \/ \E r \in x.rows : db'.position[h] = [tokens |-> r.tokens, rev |-> r.rev]
      BY <1>2 DEF StoresRows
    <3>4. QED
      BY <3>1, <3>2, <3>3
  <2>3. ASSUME NEW d \in Clients PROVE \A r \in job'[d].rows : r.rev <= rev
    BY <1>1, <1>3, <1>4, <2>1 DEF RevsInv, BelowRev
  <2>4. QED
    BY <1>2, <2>2, <2>3 DEF RevsInv, BelowRev
<1>8. OneAtATime'
  <2>1. SUFFICES ASSUME NEW k, k = NoCall, Becomes(c, k) PROVE OneAtATime'
    BY <1>2
  <2>2. StillTrue(k)' /\ OneGoesOn(c) /\ OneAtATime
    BY <1>2, <1>3, <2>1 DEF StillTrue, OneGoesOn, SupplyInv
  <2>3. QED
    BY <1>1, <2>1, <2>2, AloneOn
<1>9. ASSUME crashes = 0, ~Retiring', NEW h \in Owners PROVE Caught(h)'
  <2>1. ~Retiring
    BY <1>2, <1>4, <1>9 DEF Retiring
  <2>2. Caught(h)
    BY <1>9, <2>1 DEF SupplyInv
  <2>3. QED
    BY <1>1, <1>2, <1>9, <2>2, CaughtWritten
<1>10. QED
  BY <1>2, <1>5, <1>6, <1>7, <1>8, <1>9 DEF SupplyInv

LEMMA NobodyAlone == AllFree => OneAtATime
BY DEF AllFree, OneAtATime, StillTrue

\* Nobody is being served after a crash, nor when the process boots.
LEMMA KeepsCrash ==
    ASSUME Cap!CapConstants, SupplyInv, Cap!Crash
    PROVE  SupplyInv'
<1>1. Cap!TypeOK
  BY DEF SupplyInv
<1>2. /\ up' = FALSE /\ crashes' = crashes + 1 /\ mu' = Nobody /\ job' = [c \in Clients |-> NoCall]
      /\ pos' = [h \in Owners |-> 0] /\ authorised' = 0 /\ derived' = FALSE /\ retired' = 0 /\ rev' = 0
      /\ UNCHANGED <<pinned, retiredBlocks, db, overlapped, ops>>
  BY IdleIsNoCall DEF Cap!Crash, Cap!count
<1>3. \A c \in Clients : job'[c] = NoCall
  BY <1>2
<1>4. NoCall \in Cap!CallState /\ NoCall.at = "idle" /\ NoCall.rows = {}
  BY NoCallType, ServesFields DEF NoCall
<1>5. Cap!TypeOK'
  <2>1. job' \in [Clients -> Cap!CallState] /\ pos' \in [Owners -> Nat]
    BY <1>2, <1>4
  <2>2. Cap!Row' = Cap!Row /\ Cap!CallState' = Cap!CallState
    BY DEF Cap!Row, Cap!CallState
  <2>3. /\ up' \in BOOLEAN /\ mu' \in Clients \cup {Nobody} /\ authorised' \in Nat /\ derived' \in BOOLEAN
        /\ retired' \in Nat /\ rev' \in Nat /\ crashes' \in Nat
    <3>1. up' \in BOOLEAN /\ derived' \in BOOLEAN
      BY <1>2, Zenon
    <3>2. mu' \in Clients \cup {Nobody} /\ authorised' \in Nat /\ retired' \in Nat /\ rev' \in Nat /\ crashes' \in Nat
      BY <1>1, <1>2, SupplyKinds
    <3>3. QED
      BY <3>1, <3>2
  <2>4. /\ pinned' \in Nat /\ retiredBlocks' \in Nat /\ db' \in [position : [Owners -> Cap!Row], other : Nat]
        /\ overlapped' \in BOOLEAN /\ ops' \in Nat
    BY <1>1, <1>2, SupplyKinds, SupplyTypes
  <2>5. QED
    BY <2>1, <2>2, <2>3, <2>4 DEF Cap!TypeOK
<1>6. AllFree' /\ \A c \in Clients : CallIs(job[c])'
  BY <1>3, <1>4 DEF AllFree, CallIs
<1>7. crashes' # 0
  BY <1>1, <1>2, SupplyKinds
<1>8. OneAtATime'
  BY <1>6, NobodyAlone, PTL
<1>9. QED
  BY <1>5, <1>6, <1>7, <1>8 DEF SupplyInv, RevsInv

LEMMA RestoredSums ==
    ASSUME Cap!CapConstants, Cap!TypeOK, Cap!Boot
    PROVE  /\ Cap!RestoredCap = Total([h \in Owners |-> db.position[h].tokens], Owners) + retiredBlocks
           /\ Cap!RestoredCap \in Nat
<1> DEFINE f == [h \in Owners |-> db.position[h].tokens]
<1>1. DOMAIN f = Owners
  OBVIOUS
<1>2. Total(f, Owners) \in Nat
  <2>1. \A h \in Owners : f[h] \in Nat
    BY SupplyTypes
  <2> HIDE DEF f
  <2>2. QED
    BY <2>1, CapSets, TotalType
<1>3. Cap!RestoredCap = Total(f, Owners) + retiredBlocks
  <2>1. Cap!RestoredCap = Cap!Total(f) + retiredBlocks
    BY DEF Cap!RestoredCap
  <2> HIDE DEF f
  <2>2. QED
    BY <1>1, <2>1, CapTotal
<1>4. retiredBlocks \in Nat
  BY SupplyTypes
<1> HIDE DEF f
<1>5. Cap!RestoredCap \in Nat
  BY <1>2, <1>3, <1>4
<1>6. QED
  BY <1>3, <1>5 DEF f

LEMMA KeepsBoot ==
    ASSUME Cap!CapConstants, SupplyInv, Cap!Boot
    PROVE  SupplyInv'
<1>1. Cap!TypeOK
  BY DEF SupplyInv
<1>2. /\ ~up /\ up' = TRUE /\ pos' = [h \in Owners |-> db.position[h].tokens] /\ authorised' = Cap!RestoredCap
      /\ derived' = (\E h \in Owners : db.position[h].tokens > 0) /\ retired' = retiredBlocks
      /\ rev' = CHOOSE r \in Cap!LoadedRevs : \A q \in Cap!LoadedRevs : q <= r
      /\ UNCHANGED <<mu, pinned, retiredBlocks, db, job, overlapped, ops, crashes>>
  BY DEF Cap!Boot, Cap!count
<1>3. rev' \in Nat
  <2> DEFINE L == Cap!LoadedRevs
             P == {h \in Owners : db.position[h].tokens > 0}
             Q == {db.position[h].rev : h \in P}
  <2>1. IsFiniteSet(Q)
    <3>1. IsFiniteSet(P)
      BY CapSets, FS_Subset
    <3> DEFINE f == [h \in P |-> db.position[h].rev]
    <3>2. Q = {f[h] : h \in P}
      OBVIOUS
    <3> HIDE DEF P, Q, f
    <3>3. QED
      BY <3>1, <3>2, FiniteImage
  <2>2. L = {0, db.other} \cup Q
    BY DEF Cap!LoadedRevs
  <2>3. Q \subseteq Nat /\ db.other \in Nat
    BY <1>1, SupplyTypes
  <2> HIDE DEF L, Q
  <2>4. IsFiniteSet({0, db.other})
    <3>1. IsFiniteSet({db.other} \cup {0})
      <4>1. IsFiniteSet({db.other}) /\ IsFiniteSet({0})
        BY FS_Singleton, Zenon
      <4>2. QED
        BY <4>1, FS_AddElement, Zenon
    <3>2. {0, db.other} = {db.other} \cup {0}
      OBVIOUS
    <3>3. QED
      BY <3>1, <3>2
  <2>5. IsFiniteSet(L) /\ L # {} /\ L \subseteq Nat
    <3>1. IsFiniteSet({0, db.other} \cup Q)
      BY <2>1, <2>4, FS_Union
    <3>2. L \subseteq Nat
      <4>1. ASSUME NEW q \in L PROVE q \in Nat
        <5>1. q = 0 \/ q = db.other \/ q \in Q
          BY <2>2
        <5>2. q \in Q => q \in Nat
          BY <2>3, Zenon
        <5>3. QED
          BY <2>3, <5>1, <5>2
      <4>2. QED
        BY <4>1
    <3>3. 0 \in L
      BY <2>2
    <3>4. IsFiniteSet(L)
      BY <2>2, <3>1, Zenon
    <3>5. QED
      BY <3>2, <3>3, <3>4
  <2>6. \E r \in L : \A q \in L : q <= r
    BY <2>5, HasGreatest
  <2>7. rev' \in L
    BY <1>2, <2>6 DEF L
  <2>8. QED
    BY <2>5, <2>7
<1>4. Cap!TypeOK'
  <2>1. pos' \in [Owners -> Nat]
    BY <1>1, <1>2, SupplyTypes
  <2>2. authorised' \in Nat /\ retired' \in Nat
    BY <1>1, <1>2, RestoredSums, SupplyTypes
  <2>3. derived' \in BOOLEAN
    BY <1>2, Zenon
  <2>4. Cap!Row' = Cap!Row /\ Cap!CallState' = Cap!CallState
    BY DEF Cap!Row, Cap!CallState
  <2>5. /\ mu' \in Clients \cup {Nobody} /\ pinned' \in Nat /\ retiredBlocks' \in Nat
        /\ db' \in [position : [Owners -> Cap!Row], other : Nat] /\ job' \in [Clients -> Cap!CallState]
        /\ overlapped' \in BOOLEAN /\ ops' \in Nat /\ crashes' \in Nat /\ up' \in BOOLEAN
    BY <1>1, <1>2, SupplyKinds, SupplyTypes
  <2>6. QED
    BY <1>3, <2>1, <2>2, <2>3, <2>4, <2>5 DEF Cap!TypeOK
<1>5. AllFree /\ crashes # 0 /\ \A c \in Clients : CallIs(job[c])
  BY <1>2 DEF SupplyInv, RevsInv
<1>6. AllFree' /\ crashes' # 0 /\ \A c \in Clients : CallIs(job[c])'
  BY <1>2, <1>5 DEF AllFree, CallIs
<1>7. OneAtATime'
  BY <1>6, NobodyAlone, PTL
<1>8. QED
  BY <1>4, <1>6, <1>7 DEF SupplyInv, RevsInv

LEMMA SupplyStart == ASSUME Cap!CapConstants, Cap!Init PROVE SupplyInv
<1>1. /\ up = TRUE /\ mu = Nobody /\ pos = [h \in Owners |-> IF h = Owner THEN Opening ELSE 0]
      /\ authorised = Opening /\ derived = FALSE /\ retired = 0 /\ pinned = 0
      /\ rev = (IF Opening > 0 THEN 1 ELSE 0) /\ retiredBlocks = 0
      /\ db = [position |-> [h \in Owners |-> IF h = Owner /\ Opening > 0 THEN [tokens |-> Opening, rev |-> 1]
                                              ELSE [tokens |-> 0, rev |-> 0]], other |-> 0]
      /\ job = [c \in Clients |-> NoCall] /\ overlapped = FALSE /\ ops = 0 /\ crashes = 0
  BY IdleIsNoCall DEF Cap!Init
<1>2. NoCall \in Cap!CallState /\ NoCall.at = "idle" /\ NoCall.rows = {}
  BY NoCallType, ServesFields DEF NoCall
<1>3. Opening \in Nat /\ Owner \in Owners
  BY CapSets
<1>4. db.position \in [Owners -> Cap!Row] /\ db.other = 0 /\ db \in [position : [Owners -> Cap!Row], other : Nat]
  <2> DEFINE p == [h \in Owners |-> IF h = Owner /\ Opening > 0 THEN [tokens |-> Opening, rev |-> 1]
                                    ELSE [tokens |-> 0, rev |-> 0]]
  <2>1. p \in [Owners -> Cap!Row]
    BY <1>3 DEF Cap!Row
  <2> HIDE DEF p
  <2>2. db = [position |-> p, other |-> 0]
    BY <1>1 DEF p
  <2>3. QED
    BY <2>1, <2>2
<1>5. Cap!TypeOK
  <2>1. job \in [Clients -> Cap!CallState] /\ pos \in [Owners -> Nat]
    BY <1>1, <1>2, <1>3
  <2>2. rev \in Nat
    BY <1>1
  <2>3. QED
    BY <1>1, <1>3, <1>4, <2>1, <2>2 DEF Cap!TypeOK
<1>6. AllFree /\ (\A c \in Clients : CallIs(job[c])) /\ \A c \in Clients : BelowRev(job[c]) /\ job[c].rows = {}
  BY <1>1, <1>2 DEF AllFree, CallIs, BelowRev
<1>7. \A h \in Owners : db.position[h].tokens = pos[h] /\ db.position[h].rev \in Nat /\ db.position[h].rev <= rev
  BY <1>1, <1>3
<1>8. ASSUME NEW h \in Owners PROVE Caught(h)
  <2>1. Stamped(h) = {db.position[h]}
    BY <1>6 DEF Stamped, RowsOf
  <2>2. QED
    BY <1>7, <2>1 DEF Caught, Newest
<1>9. OneAtATime
  BY <1>6, NobodyAlone
<1>10. QED
  BY <1>1, <1>5, <1>6, <1>7, <1>8, <1>9 DEF SupplyInv, RevsInv

LEMMA SupplyNext == ASSUME Cap!CapConstants, SupplyInv, [Cap!Next]_Cap!vars PROVE SupplyInv'
<1>1. CASE Cap!Next
  <2>1. ASSUME NEW c \in Clients, NEW h \in Owners, NEW n \in Cap!Quantities,
               \/ \E declared \in {0} \cup Cap!Quantities : Cap!SeedPosition(c, h, n, declared)
               \/ Cap!RestateSupply(c, h, n) \/ Cap!RetireCredits(c, h, n)
               \/ \E to \in Owners : Cap!Settle(c, h, to, n)
        PROVE  SupplyInv'
    <3>1. Cap!Quantities = 1..MaxQuantity
      BY Zenon DEF Cap!Quantities
    <3>2. QED
      BY <2>1, <3>1, KeepsSeed, KeepsRestate, KeepsRetire, KeepsSettle, Zenon
  <2>2. ASSUME NEW c \in Clients,
               \/ Cap!SeedCheck(c) \/ Cap!SeedSet(c) \/ Cap!SeedSnap(c) \/ Cap!RestateSet(c) \/ Cap!RestatePin(c)
               \/ Cap!RetireCount(c) \/ Cap!RetireAnchor(c) \/ Cap!SettleSnap(c) \/ Cap!Write(c)
        PROVE  SupplyInv'
    BY <2>2, KeepsCheck, KeepsSet, KeepsSnap, KeepsCount, KeepsAnchor, KeepsMoved, KeepsWrite, Zenon
  <2>3. QED
    BY <1>1, <2>1, <2>2, KeepsCrash, KeepsBoot, Zenon DEF Cap!Next
<1>2. CASE UNCHANGED Cap!vars
  <2>1. UNCHANGED <<up, mu, pos, authorised, derived, retired, pinned, rev, retiredBlocks, db, job, overlapped, ops, crashes>>
    BY <1>2 DEF Cap!vars
  <2>2. Cap!TypeOK'
    BY <2>1, SameTypes DEF SupplyInv
  <2>3. QED
    BY <2>1, <2>2, SupplyStays
<1>3. QED
  BY <1>1, <1>2
-----------------------------------------------------------------------------
(* The supply: what follows from the invariant, and what every step keeps *)

LEMMA OutstandingChanges ==
    ASSUME Cap!CapConstants, Cap!TypeOK, NEW h \in Owners, NEW n \in Nat, pos' = [pos EXCEPT ![h] = n]
    PROVE  Cap!Outstanding' = Cap!Outstanding + n - pos[h]
<1>1. pos \in [Owners -> Nat] /\ pos' \in [Owners -> Nat] /\ IsFiniteSet(Owners) /\ pos'[h] = n
  BY CapSets, SupplyTypes
<1>2. Cap!Outstanding' = Total(pos', Owners) /\ Cap!Outstanding = Total(pos, Owners)
  <2>1. DOMAIN pos' = Owners
    BY <1>1
  <2>2. Cap!Outstanding' = Cap!Total(pos')
    BY DEF Cap!Outstanding, Cap!Total, Cap!MapThenSumSet, Cap!MapThenFoldSet
  <2>3. Cap!Total(pos') = Total(pos', Owners)
    BY <2>1, CapTotal
  <2>4. QED
    BY <2>2, <2>3, OutstandingType
<1>3. \A g \in Owners : pos[g] \in Int /\ pos'[g] \in Int
  BY <1>1
<1>4. Alike(pos, pos', Owners \ {h})
  BY <1>1 DEF Alike
<1>5. Total(pos', Owners) = Total(pos, Owners) + pos'[h] - pos[h]
  BY <1>1, <1>3, <1>4, ChangedTotal
<1>6. QED
  BY <1>1, <1>2, <1>5

\* A move leaves what there is.
LEMMA MoveKeepsOutstanding ==
    ASSUME Cap!CapConstants, Cap!TypeOK, NEW from \in Owners, NEW to \in Owners, NEW n \in Nat, from # to, pos[from] >= n,
           pos' = [pos EXCEPT ![from] = @ - n, ![to] = @ + n]
    PROVE  Cap!Outstanding' = Cap!Outstanding
<1> DEFINE q == [pos EXCEPT ![from] = @ - n]
<1>1. pos \in [Owners -> Nat] /\ pos[from] - n \in Nat /\ pos[to] + n \in Nat /\ pos[from] \in Nat /\ pos[to] \in Nat
  BY SupplyTypes
<1>2. /\ q \in [Owners -> Nat] /\ q[from] = pos[from] - n /\ q[to] = pos[to]
      /\ pos' \in [Owners -> Nat] /\ pos'[to] = pos[to] + n
      /\ Alike(pos, q, Owners \ {from}) /\ Alike(q, pos', Owners \ {to})
  BY <1>1 DEF Alike
<1>3. Cap!Outstanding' = Total(pos', Owners)
  <2>1. DOMAIN pos' = Owners
    BY <1>2
  <2>2. Cap!Outstanding' = Cap!Total(pos')
    BY DEF Cap!Outstanding, Cap!Total, Cap!MapThenSumSet, Cap!MapThenFoldSet
  <2>3. QED
    BY <2>1, <2>2, CapTotal
<1> HIDE DEF q
<1>4. \A g \in Owners : pos[g] \in Int /\ q[g] \in Int /\ pos'[g] \in Int
  BY <1>1, <1>2
<1>5. Total(q, Owners) = Total(pos, Owners) + q[from] - pos[from]
  BY <1>2, <1>4, CapSets, ChangedTotal
<1>6. Total(pos', Owners) = Total(q, Owners) + pos'[to] - q[to]
  BY <1>2, <1>4, CapSets, ChangedTotal
<1>7. Total(pos, Owners) \in Nat /\ Cap!Outstanding = Total(pos, Owners)
  BY OutstandingType
<1>8. QED
  BY <1>1, <1>2, <1>3, <1>5, <1>6, <1>7

\* What a call has burned and not counted yet.
Burns(x) == IF x.at = "count" THEN x.n ELSE 0
LEMMA BurningType ==
    ASSUME Cap!CapConstants, Cap!TypeOK
    PROVE  Cap!Burning = Total([c \in Clients |-> Burns(job[c])], Clients) /\ Cap!Burning \in Nat
<1> DEFINE f == [c \in Clients |-> Burns(job[c])]
<1>1. DOMAIN f = Clients
  OBVIOUS
<1>2. \A c \in Clients : f[c] \in Nat
  <2>1. ASSUME NEW c \in Clients PROVE job[c].n \in Nat
    BY SupplyTypes, EachServes
  <2>2. QED
    BY <2>1 DEF Burns
<1>3. Cap!Burning = Cap!Total(f)
  BY DEF Cap!Burning, Burns
<1> HIDE DEF f
<1>4. Cap!Burning = Total(f, Clients)
  BY <1>1, <1>3, CapTotal
<1>5. Total(f, Clients) \in Nat
  BY <1>2, CapSets, TotalType
<1>6. QED
  BY <1>4, <1>5 DEF f

LEMMA BurningChanges ==
    ASSUME Cap!CapConstants, Cap!TypeOK, NEW c, NEW k, Becomes(c, k)
    PROVE  Cap!Burning' = Cap!Burning + Burns(k) - Burns(job[c])
<1> DEFINE f == [d \in Clients |-> Burns(job[d])]
           g == [d \in Clients |-> Burns(job'[d])]
<1>1. /\ c \in Clients /\ job' \in [Clients -> Cap!CallState] /\ \A d \in Clients : job'[d] = IF d = c THEN k ELSE job[d]
      /\ job \in [Clients -> Cap!CallState]
  BY CallsBecome, SupplyTypes
<1>2. DOMAIN g = Clients
  OBVIOUS
<1>3. \A d \in Clients : f[d] \in Int /\ g[d] \in Int
  <2>1. ASSUME NEW d \in Clients PROVE job[d].n \in Nat /\ job'[d].n \in Nat
    <3>1. job[d] \in Cap!CallState /\ job'[d] \in Cap!CallState
      BY <1>1
    <3>2. QED
      BY <3>1, EachServes
  <2>2. QED
    BY <2>1 DEF Burns
<1>4. Cap!Burning' = Cap!Total(g)
  BY DEF Cap!Burning, Burns, Cap!Total, Cap!MapThenSumSet, Cap!MapThenFoldSet
<1>5. f[c] = Burns(job[c]) /\ g[c] = Burns(k) /\ Alike(f, g, Clients \ {c})
  BY <1>1 DEF Alike
<1>6. Cap!Burning = Total(f, Clients)
  BY BurningType
<1> HIDE DEF f, g
<1>7. Cap!Burning' = Total(g, Clients)
  BY <1>2, <1>4, CapTotal
<1>8. Total(g, Clients) = Total(f, Clients) + g[c] - f[c]
  BY <1>1, <1>3, <1>5, CapSets, ChangedTotal
<1>9. QED
  BY <1>5, <1>6, <1>7, <1>8

LEMMA OtherCaps ==
    ASSUME [Cap!Next]_Cap!vars
    PROVE  \/ UNCHANGED authorised \/ ~up \/ ~up'
           \/ \E c \in Clients, h \in Owners, n \in Cap!Quantities : \E declared \in {0} \cup Cap!Quantities :
                  Cap!SeedPosition(c, h, n, declared)
           \/ \E c \in Clients : Cap!RestatePin(c)
<1>1. CASE UNCHANGED Cap!vars
  BY <1>1 DEF Cap!vars
<1>2. ASSUME NEW c \in Clients, NEW h \in Owners, NEW n \in Cap!Quantities,
             Cap!RestateSupply(c, h, n) \/ Cap!RetireCredits(c, h, n) \/ \E to \in Owners : Cap!Settle(c, h, to, n)
      PROVE  UNCHANGED authorised
  BY <1>2 DEF Cap!RestateSupply, Cap!RetireCredits, Cap!Settle
<1>3. ASSUME NEW c \in Clients,
             \/ Cap!SeedCheck(c) \/ Cap!SeedSet(c) \/ Cap!SeedSnap(c) \/ Cap!RestateSet(c)
             \/ Cap!RetireCount(c) \/ Cap!RetireAnchor(c) \/ Cap!SettleSnap(c) \/ Cap!Write(c)
      PROVE  UNCHANGED authorised
  BY <1>3 DEF Cap!SeedCheck, Cap!SeedSet, Cap!SeedSnap, Cap!RestateSet, Cap!RetireCount, Cap!RetireAnchor, Cap!SettleSnap, Cap!Write
<1>4. Cap!Crash => ~up'
  BY DEF Cap!Crash
<1>5. Cap!Boot => ~up
  BY DEF Cap!Boot
<1>6. QED
  BY <1>1, <1>2, <1>3, <1>4, <1>5, Zenon DEF Cap!Next

LEMMA StoreFollows == SupplyInv => Cap!TypeOK /\ Cap!StoreMatchesBook
<1> SUFFICES ASSUME SupplyInv PROVE Cap!TypeOK /\ Cap!StoreMatchesBook
  OBVIOUS
<1>1. ASSUME Cap!Quiet, crashes = 0, retired = 0, NEW h \in Owners PROVE db.position[h].tokens = pos[h]
  <2>1. \A c \in Clients : job[c].at = "idle" /\ job[c].rows = {}
    BY <1>1 DEF Cap!Quiet, SupplyInv, CallIs
  <2>2. ~Retiring /\ \A c \in Clients : ~Unstamped(job[c], h)
    BY <1>1, <2>1 DEF Retiring, Unstamped
  <2>3. \E l \in Stamped(h) : Newest(l, Stamped(h)) /\ l.tokens = pos[h]
    BY <1>1, <2>2 DEF SupplyInv, Caught
  <2>4. Stamped(h) = {db.position[h]}
    BY <2>1 DEF Stamped, RowsOf
  <2>5. QED
    BY <2>3, <2>4
<1>2. QED
  BY <1>1 DEF Cap!StoreMatchesBook, SupplyInv

\* A seed writes no more than the cap leaves room for, if nobody else was being served.
LEMMA SeedFits ==
    ASSUME Cap!CapConstants, SupplyInv PROVE Cap!SeedStaysWithinCap
<1>1. Cap!TypeOK /\ OneAtATime
  BY DEF SupplyInv
<1>2. SUFFICES ASSUME NEW c \in Clients, Cap!SeedSet(c), ~overlapped PROVE Cap!Outstanding' <= authorised
  BY DEF Cap!SeedStaysWithinCap
<1>3. SUFFICES ASSUME NEW x, x = job[c] PROVE Cap!Outstanding' <= authorised
  OBVIOUS
<1>4. /\ x \in Cap!CallState /\ pos' = [pos EXCEPT ![x.h] = x.n] /\ x.at = "set"
  <2>1. pos' = [pos EXCEPT ![x.h] = x.n] /\ x.at = "set"
    BY <1>2, <1>3 DEF Cap!SeedSet, Cap!Is
  <2>2. QED
    BY <1>1, <1>3, <2>1, SupplyTypes
<1>5. x.h \in Owners /\ x.n \in Nat /\ x.cap \in Nat
  BY <1>4, EachServes
<1>6. x.cap = authorised /\ Cap!Others(x.h) + x.n <= x.cap
  BY <1>1, <1>2, <1>3, <1>4 DEF OneAtATime, StillTrue
<1>7. Cap!Outstanding' = Cap!Outstanding + x.n - pos[x.h]
  BY <1>1, <1>4, <1>5, OutstandingChanges
<1>8. Cap!Others(x.h) = Cap!Outstanding - pos[x.h] /\ Cap!Outstanding \in Nat /\ pos[x.h] \in Nat
  BY <1>1, <1>5, OutstandingType, SupplyTypes
<1>9. QED
  BY <1>5, <1>6, <1>7, <1>8

\* A cap that was declared changes by a restatement only, an inferred one once more.
LEMMA CapIsFinal ==
    ASSUME Cap!CapConstants, SupplyInv, [Cap!Next]_Cap!vars PROVE Cap!DeclaredIsFinal
<1>1. Cap!TypeOK
  BY DEF SupplyInv
<1>2. SUFFICES ASSUME up, up', authorised # 0, authorised' # authorised
               PROVE  ~derived' /\ (derived \/ pinned' = authorised')
  BY DEF Cap!DeclaredIsFinal
<1>3. ASSUME NEW c \in Clients, NEW h \in Owners, NEW n \in Cap!Quantities,
             NEW declared \in {0} \cup Cap!Quantities, Cap!SeedPosition(c, h, n, declared)
      PROVE  ~derived' /\ (derived \/ pinned' = authorised')
  <2>1. ~Cap!Redeclares(declared)
    BY <1>2, <1>3 DEF Cap!SeedPosition
  <2>2. authorised' = Cap!CapAfter(n, declared) /\ derived' = Cap!DerivedAfter(declared)
    BY <1>3, <2>1 DEF Cap!SeedPosition
  <2>3. declared # 0 /\ declared # authorised
    BY <1>2, <2>2 DEF Cap!CapAfter
  <2>4. derived
    BY <1>2, <2>1, <2>3, Zenon DEF Cap!Redeclares
  <2>5. derived' = FALSE
    BY <2>2, <2>3, Zenon DEF Cap!DerivedAfter
  <2>6. QED
    BY <2>4, <2>5, Zenon
<1>4. ASSUME NEW c \in Clients, Cap!RestatePin(c) PROVE ~derived' /\ pinned' = authorised'
  BY <1>4, Zenon DEF Cap!RestatePin
<1>5. QED
  BY <1>2, <1>3, <1>4, OtherCaps, Zenon

LEMMA Balance ==
    ASSUME NEW o, NEW t, NEW b, NEW p, NEW q, NEW s, NEW u, NEW v,
           v = u + p - q, u \in Nat, p \in Nat, q \in Nat, o \in Nat, t \in Nat, s \in Int, b \in Nat, s + b + p = o + t + q
    PROVE  (s + b) + v = (o + t) + u
OBVIOUS
\* What is held, retired or burned and not counted yet, when a call goes on.
LEMMA AccountOf ==
    ASSUME Cap!CapConstants, Cap!TypeOK, NEW c, NEW k, Becomes(c, k), retired' \in Nat, Cap!Outstanding' \in Int,
           Cap!Outstanding' + retired' + Burns(k) = Cap!Outstanding + retired + Burns(job[c])
    PROVE  Cap!Accounted' = Cap!Accounted
<1>1. Cap!Burning' = Cap!Burning + Burns(k) - Burns(job[c]) /\ Cap!Burning \in Nat
  BY BurningChanges, BurningType
<1>2. Burns(k) \in Nat /\ Burns(job[c]) \in Nat
  <2>1. k \in Cap!CallState /\ job[c] \in Cap!CallState
    BY SupplyTypes DEF Becomes
  <2>2. k.n \in Nat /\ job[c].n \in Nat
    BY <2>1, EachServes
  <2>3. QED
    BY <2>2 DEF Burns
<1>3. Cap!Outstanding \in Nat /\ retired \in Nat
  BY OutstandingType, SupplyTypes
<1>4. Cap!Accounted = (Cap!Outstanding + retired) + Cap!Burning /\ Cap!Accounted' = (Cap!Outstanding' + retired') + Cap!Burning'
  BY Zenon DEF Cap!Accounted
<1>5. QED
  <2>1. ASSUME NEW o, NEW t, NEW b, NEW p, NEW q, NEW s, NEW u, NEW v,
               o = Cap!Outstanding, t = retired, b = retired', p = Burns(k), q = Burns(job[c]), s = Cap!Outstanding',
               u = Cap!Burning, v = Cap!Burning'
        PROVE  Cap!Accounted' = Cap!Accounted
    <3>1. v = u + p - q /\ u \in Nat /\ p \in Nat /\ q \in Nat /\ o \in Nat /\ t \in Nat /\ s \in Int /\ b \in Nat
      BY <1>1, <1>2, <1>3, <2>1, Zenon
    <3>2. s + b + p = o + t + q
      BY <2>1, Zenon
    <3>3. (s + b) + v = (o + t) + u
      BY <3>1, <3>2, SMTT(60)
    <3>4. QED
      BY <1>4, <2>1, <3>3, Zenon
  <2>2. QED
    BY <2>1, Zenon

LEMMA AccountStays ==
    ASSUME Cap!CapConstants, Cap!TypeOK, UNCHANGED <<pos, retired>>,
           job' = job \/ (\E c, k : Becomes(c, k) /\ Burns(k) = Burns(job[c]))
    PROVE  Cap!Accounted' = Cap!Accounted
<1>1. Cap!Outstanding' = Cap!Outstanding
  BY DEF Cap!Outstanding
<1>2. CASE job' = job
  <2>1. Cap!Burning' = Cap!Burning
    BY <1>2 DEF Cap!Burning
  <2>2. QED
    BY <1>1, <2>1 DEF Cap!Accounted
<1>3. ASSUME NEW c, NEW k, Becomes(c, k), Burns(k) = Burns(job[c]) PROVE Cap!Accounted' = Cap!Accounted
  <2>1. Cap!Burning' = Cap!Burning + Burns(k) - Burns(job[c]) /\ Cap!Burning \in Nat
    BY <1>3, BurningChanges, BurningType
  <2>2. Burns(k) \in Nat
    <3>1. k.n \in Nat
      BY <1>3, EachServes DEF Becomes
    <3>2. QED
      BY <3>1 DEF Burns
  <2>3. Cap!Burning' = Cap!Burning
    BY <1>3, <2>1, <2>2
  <2>4. QED
    BY <1>1, <2>3 DEF Cap!Accounted
<1>4. QED
  BY <1>2, <1>3

LEMMA AccountRetire ==
    ASSUME Cap!CapConstants, Cap!TypeOK, NEW c \in Clients, NEW h \in Owners, NEW n \in 1..MaxQuantity,
           Cap!RetireCredits(c, h, n)
    PROVE  Cap!Accounted' = Cap!Accounted
<1>1. /\ job[c].at = "idle" /\ n \in Nat /\ retired' = retired
      /\ \/ pos' = pos /\ job' = job
         \/ /\ pos[h] >= n /\ pos' = [pos EXCEPT ![h] = @ - n]
            /\ Becomes(c, Serves("count", h, Owner, n, 0, {}, 0))
  BY RetireEffect
<1>2. CASE pos' = pos /\ job' = job
  BY <1>1, <1>2, AccountStays
<1>3. ASSUME pos[h] >= n, pos' = [pos EXCEPT ![h] = @ - n], NEW k, k = Serves("count", h, Owner, n, 0, {}, 0), Becomes(c, k)
      PROVE  Cap!Accounted' = Cap!Accounted
  <2>1. Burns(k) = n /\ Burns(job[c]) = 0
    BY <1>1, <1>3, ServesFields DEF Burns
  <2>2. pos[h] \in Nat /\ pos[h] - n \in Nat
    BY <1>1, <1>3, SupplyTypes
  <2>3. Cap!Outstanding' = Cap!Outstanding + (pos[h] - n) - pos[h] /\ Cap!Outstanding \in Nat
    BY <1>3, <2>2, OutstandingChanges, OutstandingType
  <2>4. retired \in Nat
    BY SupplyTypes
  <2>5. Cap!Outstanding' + retired' + Burns(k) = Cap!Outstanding + retired + Burns(job[c]) /\ Cap!Outstanding' \in Int
    BY <1>1, <2>1, <2>2, <2>3, <2>4
  <2>6. QED
    BY <1>1, <1>3, <2>4, <2>5, AccountOf
<1>4. QED
  BY <1>1, <1>2, <1>3

LEMMA AccountCount ==
    ASSUME Cap!CapConstants, Cap!TypeOK, NEW c \in Clients, Cap!RetireCount(c)
    PROVE  Cap!Accounted' = Cap!Accounted
<1> DEFINE x == job[c]
<1>1. /\ x.at = "count" /\ x \in Cap!CallState /\ retired' = retired + x.n /\ pos' = pos
      /\ Becomes(c, Serves("anchor", x.h, x.to, x.n, x.cap, x.rows, x.last))
  BY CountEffect
<1>2. SUFFICES ASSUME NEW k, k = Serves("anchor", x.h, x.to, x.n, x.cap, x.rows, x.last), Becomes(c, k)
               PROVE  Cap!Accounted' = Cap!Accounted
  BY <1>1
<1>3. Burns(k) = 0 /\ Burns(x) = x.n /\ x.n \in Nat
  <2>1. k.at = "anchor"
    BY <1>2, ServesFields
  <2>2. QED
    BY <1>1, <2>1, EachServes DEF Burns
<1>4. Cap!Outstanding' = Cap!Outstanding /\ Cap!Outstanding \in Nat /\ retired \in Nat
  BY <1>1, OutstandingType, SupplyTypes DEF Cap!Outstanding
<1>5. Cap!Outstanding' + retired' + Burns(k) = Cap!Outstanding + retired + Burns(x) /\ retired' \in Nat /\ Cap!Outstanding' \in Int
  BY <1>1, <1>3, <1>4
<1>6. QED
  BY <1>2, <1>5, AccountOf

LEMMA AccountSettle ==
    ASSUME Cap!CapConstants, Cap!TypeOK, NEW c \in Clients, NEW from \in Owners, NEW to \in Owners,
           NEW n \in 1..MaxQuantity, Cap!Settle(c, from, to, n)
    PROVE  Cap!Accounted' = Cap!Accounted
<1>1. /\ job[c].at = "idle" /\ n \in Nat /\ from # to /\ pos[from] >= n
      /\ pos' = [pos EXCEPT ![from] = @ - n, ![to] = @ + n]
      /\ Becomes(c, Serves("moved", from, to, n, 0, {}, 0)) /\ retired' = retired
  BY SaleEffect
<1>2. Cap!Outstanding' = Cap!Outstanding
  BY <1>1, MoveKeepsOutstanding
<1>3. SUFFICES ASSUME NEW k, k = Serves("moved", from, to, n, 0, {}, 0), Becomes(c, k)
               PROVE  Cap!Accounted' = Cap!Accounted
  BY <1>1
<1>4. Burns(k) = 0 /\ Burns(job[c]) = 0
  BY <1>1, <1>3, ServesFields DEF Burns
<1>5. retired \in Nat /\ Cap!Outstanding \in Nat
  BY SupplyTypes, OutstandingType
<1>6. QED
  BY <1>1, <1>2, <1>3, <1>4, <1>5, AccountOf
-----------------------------------------------------------------------------
(* The supply: what every step keeps *)

\* The steps that burn nothing and count nothing.
LEMMA AccountWaits ==
    ASSUME Cap!CapConstants, Cap!TypeOK, NEW c \in Clients, CallIs(job[c]),
           \/ Cap!SeedCheck(c) \/ Cap!SeedSnap(c) \/ Cap!RestatePin(c) \/ Cap!RetireAnchor(c)
           \/ Cap!SettleSnap(c) \/ Cap!Write(c)
    PROVE  Cap!Accounted' = Cap!Accounted
<1>1. SUFFICES ASSUME NEW x, x = job[c] PROVE Cap!Accounted' = Cap!Accounted
  OBVIOUS
<1>2. /\ UNCHANGED <<pos, retired>> /\ x.at # "count"
      /\ \/ Becomes(c, NoCall)
         \/ \E a \in {"set", "write"} : \E r, l : Becomes(c, Serves(a, x.h, x.to, x.n, x.cap, r, l))
  <2>1. CASE Cap!SeedCheck(c)
    BY <1>1, <2>1, CheckEffect
  <2>2. CASE Cap!SeedSnap(c) \/ Cap!RestatePin(c)
    <3>1. /\ x.at \in {"snap", "pin"} /\ UNCHANGED <<pos, retired>>
          /\ Becomes(c, Serves("write", x.h, x.to, x.n, x.cap, {[h |-> x.h, tokens |-> pos[x.h], rev |-> rev + 1]}, x.last))
      BY <1>1, <2>2, SnapEffect
    <3>2. QED
      BY <3>1
  <2>3. CASE Cap!RetireAnchor(c)
    BY <1>1, <2>3, AnchorEffect
  <2>4. CASE Cap!SettleSnap(c)
    <3>1. /\ x.at = "moved" /\ UNCHANGED <<pos, retired>>
          /\ Becomes(c, Serves("write", x.h, x.to, x.n, x.cap,
                               {[h |-> x.h, tokens |-> pos[x.h], rev |-> rev + 3],
                                [h |-> x.to, tokens |-> pos[x.to], rev |-> rev + 4]}, rev + 5))
      BY <1>1, <2>4, MovedEffect
    <3>2. QED
      BY <3>1
  <2>5. CASE Cap!Write(c)
    BY <1>1, <2>5, RowsWritten
  <2>6. QED
    BY <2>1, <2>2, <2>3, <2>4, <2>5
<1>3. Burns(x) = 0 /\ Burns(NoCall) = 0
  BY <1>2, ServesFields DEF Burns, NoCall
<1>4. ASSUME NEW a \in {"set", "write"}, NEW r, NEW l PROVE Burns(Serves(a, x.h, x.to, x.n, x.cap, r, l)) = 0
  BY ServesFields DEF Burns
<1>5. \E k : Becomes(c, k) /\ Burns(k) = Burns(job[c])
  BY <1>1, <1>2, <1>3, <1>4, Zenon
<1>6. QED
  BY <1>2, <1>5, AccountStays

LEMMA AccountBegins ==
    ASSUME Cap!CapConstants, Cap!TypeOK, NEW c \in Clients, NEW h \in Owners, NEW n \in 1..MaxQuantity,
           \/ \E declared \in {0} \cup 1..MaxQuantity : Cap!SeedPosition(c, h, n, declared)
           \/ Cap!RestateSupply(c, h, n)
    PROVE  Cap!Accounted' = Cap!Accounted
<1>1. /\ UNCHANGED <<pos, retired>> /\ job[c].at = "idle"
      /\ \/ job' = job
         \/ \E a \in {"check", "reset", "pin"} : \E m, p : Becomes(c, Serves(a, h, Owner, m, p, {}, 0))
  <2>1. ASSUME NEW declared \in {0} \cup 1..MaxQuantity, Cap!SeedPosition(c, h, n, declared)
        PROVE  /\ UNCHANGED <<pos, retired>> /\ job[c].at = "idle"
               /\ job' = job \/ (\E p : Becomes(c, Serves("check", h, Owner, n, p, {}, 0)))
    BY <2>1, SeedEffect
  <2>2. CASE Cap!RestateSupply(c, h, n)
    BY <2>2, RestateEffect
  <2>3. QED
    BY <2>1, <2>2
<1>2. Burns(job[c]) = 0
  BY <1>1 DEF Burns
<1>3. ASSUME NEW a \in {"check", "reset", "pin"}, NEW m, NEW p PROVE Burns(Serves(a, h, Owner, m, p, {}, 0)) = 0
  BY ServesFields DEF Burns
<1>4. job' = job \/ (\E k : Becomes(c, k) /\ Burns(k) = Burns(job[c]))
  BY <1>1, <1>2, <1>3, Zenon
<1>5. QED
  BY <1>1, <1>4, AccountStays

\* Nothing is created or consumed twice but by a seed's or a restatement's write.
LEMMA RetiredOnce ==
    ASSUME Cap!CapConstants, SupplyInv, [Cap!Next]_Cap!vars PROVE Cap!RetirementIsExact
<1>1. Cap!TypeOK /\ Cap!Quantities = 1..MaxQuantity /\ \A c \in Clients : CallIs(job[c])
  BY Zenon DEF SupplyInv, Cap!Quantities
<1>2. SUFFICES ASSUME up, up', ~\E c \in Clients : Cap!SeedSet(c) \/ Cap!RestateSet(c)
               PROVE  Cap!Accounted' = Cap!Accounted
  BY DEF Cap!RetirementIsExact
<1>3. ASSUME NEW c \in Clients, NEW h \in Owners, NEW n \in Cap!Quantities,
             \/ \E declared \in {0} \cup Cap!Quantities : Cap!SeedPosition(c, h, n, declared)
             \/ Cap!RestateSupply(c, h, n) \/ Cap!RetireCredits(c, h, n)
             \/ \E to \in Owners : Cap!Settle(c, h, to, n)
      PROVE  Cap!Accounted' = Cap!Accounted
  BY <1>1, <1>3, AccountBegins, AccountRetire, AccountSettle, Zenon
<1>4. ASSUME NEW c \in Clients,
             \/ Cap!SeedCheck(c) \/ Cap!SeedSnap(c) \/ Cap!RestatePin(c)
             \/ Cap!RetireCount(c) \/ Cap!RetireAnchor(c) \/ Cap!SettleSnap(c) \/ Cap!Write(c)
      PROVE  Cap!Accounted' = Cap!Accounted
  BY <1>1, <1>4, AccountWaits, AccountCount, Zenon
<1>5. ~Cap!Crash /\ ~Cap!Boot
  BY <1>2 DEF Cap!Crash, Cap!Boot
<1>6. CASE UNCHANGED Cap!vars
  <2>1. UNCHANGED <<pos, retired>> /\ job' = job
    BY <1>6 DEF Cap!vars
  <2>2. QED
    BY <1>1, <2>1, AccountStays
<1>7. QED
  BY <1>2, <1>3, <1>4, <1>5, <1>6, Zenon DEF Cap!Next

\* A restart reads the retirements back and leaves room for them under the cap.
LEMMA RetiredCounts ==
    ASSUME Cap!CapConstants, SupplyInv, [Cap!Next]_Cap!vars PROVE Cap!RetiredSurvives
<1>1. Cap!TypeOK
  BY DEF SupplyInv
<1>2. SUFFICES ASSUME ~up, up' PROVE retired' = retiredBlocks /\ Cap!Total(pos') + retired' <= authorised'
  BY DEF Cap!RetiredSurvives
<1>3. Cap!Boot
  <2>1. ASSUME NEW c \in Clients, NEW h \in Owners, NEW n \in Cap!Quantities,
               \/ \E declared \in {0} \cup Cap!Quantities : Cap!SeedPosition(c, h, n, declared)
               \/ Cap!RestateSupply(c, h, n) \/ Cap!RetireCredits(c, h, n)
               \/ \E to \in Owners : Cap!Settle(c, h, to, n)
        PROVE  up
    BY <2>1 DEF Cap!SeedPosition, Cap!RestateSupply, Cap!RetireCredits, Cap!Settle, Cap!Begin
  <2>2. ASSUME NEW c \in Clients,
               \/ Cap!SeedCheck(c) \/ Cap!SeedSet(c) \/ Cap!SeedSnap(c) \/ Cap!RestateSet(c) \/ Cap!RestatePin(c)
               \/ Cap!RetireCount(c) \/ Cap!RetireAnchor(c) \/ Cap!SettleSnap(c) \/ Cap!Write(c)
        PROVE  up
    BY <2>2 DEF Cap!SeedCheck, Cap!SeedSet, Cap!SeedSnap, Cap!RestateSet, Cap!RestatePin, Cap!RetireCount,
                Cap!RetireAnchor, Cap!SettleSnap, Cap!Write, Cap!Is
  <2>3. UNCHANGED Cap!vars => up' = up
    BY DEF Cap!vars
  <2>4. QED
    BY <1>2, <2>1, <2>2, <2>3, Zenon DEF Cap!Next, Cap!Crash
<1>4. /\ pos' = [h \in Owners |-> db.position[h].tokens] /\ retired' = retiredBlocks
      /\ authorised' = Cap!RestoredCap
  BY <1>3 DEF Cap!Boot
<1>5. Cap!Total(pos') + retired' = Cap!RestoredCap /\ Cap!RestoredCap \in Nat
  <2>1. Cap!RestoredCap = Cap!Total([h \in Owners |-> db.position[h].tokens]) + retiredBlocks
    BY DEF Cap!RestoredCap
  <2>2. QED
    BY <1>1, <1>3, <1>4, <2>1, RestoredSums
<1>6. QED
  BY <1>4, <1>5

LEMMA StepKept ==
    ASSUME Cap!CapConstants, SupplyInv, [Cap!Next]_Cap!vars PROVE Cap!SupplyStep
BY SeedFits, CapIsFinal, RetiredOnce, RetiredCounts DEF Cap!SupplyStep
-----------------------------------------------------------------------------
(* The offers: the book that the blocks tell *)

NoOffers == [id \in Book!Ids |-> Book!NoOffer]
Last(s) == CHOOSE x \in s : \A y \in s : x >= y

\* What the fold over the blocks goes through, as far as the sets of positions in D.
Replays(ch, D, F) == F = [s \in D |-> IF s = {} THEN NoOffers ELSE Book!Replay(F[s \ {Last(s)}], ch[Last(s)])]
Plays(ch, S, F) == Replays(ch, SUBSET S, F)
Retold(ch, n) == (CHOOSE F : Plays(ch, 1..n, F))[1..n]

LEMMA ProjectIsReplay ==
    ASSUME DOMAIN chain = 1..Len(chain) PROVE Book!ProjectOffers = Retold(chain, Len(chain))
BY Zenon DEF Book!ProjectOffers, Book!FoldLeft, Book!MapThenFoldSet, Book!Max, Retold, Plays, Replays, NoOffers, Last

LEMMA LastIsIn ==
    ASSUME NEW S, IsFiniteSet(S), S \subseteq Nat, NEW s \in SUBSET S, s # {}
    PROVE  Last(s) \in s /\ \A y \in s : Last(s) >= y
<1>1. IsFiniteSet(s) /\ s \subseteq Nat
  BY FS_Subset
<1>2. \E x \in s : \A y \in s : y <= x
  BY <1>1, HasGreatest
<1>3. \E x \in s : \A y \in s : x >= y
  BY <1>1, <1>2
<1>4. QED
  BY <1>3 DEF Last

\* There is such a function, and only one on what two of them have in common.
LEMMA ReplaysExists ==
    ASSUME NEW f, NEW S, IsFiniteSet(S), S \subseteq Nat PROVE \E F : Plays(f, S, F)
<1> DEFINE Upto(T) == {s \in SUBSET S : Cardinality(s) < Cardinality(T)}
           Bad == {T \in SUBSET S : \A F : ~Replays(f, Upto(T), F)}
<1>1. \A s \in SUBSET S : /\ IsFiniteSet(s) /\ Cardinality(s) \in Nat
                          /\ s = {} <=> Cardinality(s) = 0
                          /\ \A x \in s : Cardinality(s \ {x}) = Cardinality(s) - 1
  BY FS_Subset, FS_CardinalityType, FS_EmptySet, FS_RemoveElement
<1>2. Bad = {}
  <2>1. SUFFICES ASSUME Bad # {} PROVE FALSE
    OBVIOUS
  <2>2. PICK T : Smallest(T, Bad)
    <3>1. Bad \in SUBSET SUBSET S
      OBVIOUS
    <3> HIDE DEF Bad
    <3>2. QED
      BY <2>1, <3>1, SmallestSet
  <2>0. T \in Bad /\ T \in SUBSET S /\ \A U \in Bad : U \subseteq T => U = T
    BY <2>2 DEF Smallest
  <2>3. T # {}
    <3>1. SUFFICES ASSUME T = {} PROVE FALSE
      OBVIOUS
    <3>2. Upto(T) = {}
      BY <1>1, <3>1
    <3>3. Replays(f, Upto(T), [s \in {} |-> NoOffers])
      BY <3>2 DEF Plays, Replays
    <3>4. QED
      BY <2>0, <3>3
  <2>4. Last(T) \in T /\ T \ {Last(T)} \in SUBSET S /\ T \ {Last(T)} \notin Bad
    BY <2>0, <2>3, LastIsIn
  <2>5. PICK F : Replays(f, Upto(T \ {Last(T)}), F)
    BY <2>4
  <2> DEFINE D == Upto(T \ {Last(T)})
             E == Upto(T)
  <2>6. D \subseteq E /\ \A s \in E : s # {} => s \ {Last(s)} \in D
    <3>1. Cardinality(T \ {Last(T)}) = Cardinality(T) - 1 /\ Cardinality(T) \in Nat
      BY <1>1, <2>0, <2>4
    <3>2. ASSUME NEW s \in E, s # {} PROVE s \ {Last(s)} \in D
      <4>1. Last(s) \in s
        BY <3>2, LastIsIn
      <4>2. Cardinality(s \ {Last(s)}) = Cardinality(s) - 1 /\ Cardinality(s) \in Nat
        BY <1>1, <4>1
      <4>3. QED
        <5>1. Cardinality(s) < Cardinality(T) /\ s \ {Last(s)} \in SUBSET S
          OBVIOUS
        <5>2. SUFFICES Cardinality(s \ {Last(s)}) < Cardinality(T \ {Last(T)})
          BY <5>1
        <5> HIDE DEF D, E, Bad
        <5>3. QED
          BY <3>1, <4>2, <5>1
    <3>3. D \subseteq E
      BY <1>1, <3>1
    <3>4. QED
      BY <3>2, <3>3
  <2> HIDE DEF D, E, Bad
  <2>7. F = [s \in D |-> IF s = {} THEN NoOffers ELSE Book!Replay(F[s \ {Last(s)}], f[Last(s)])]
    BY <2>5 DEF Replays, D
  <2> DEFINE G == [s \in E |-> IF s = {} THEN NoOffers ELSE Book!Replay(F[s \ {Last(s)}], f[Last(s)])]
  <2>8. \A s \in D : G[s] = F[s]
    <3>1. TAKE s \in D
    <3>2. F[s] = IF s = {} THEN NoOffers ELSE Book!Replay(F[s \ {Last(s)}], f[Last(s)])
      BY <2>7, Zenon
    <3>3. QED
      BY <2>6, <3>2
  <2>9. G = [s \in E |-> IF s = {} THEN NoOffers ELSE Book!Replay(G[s \ {Last(s)}], f[Last(s)])]
    <3>1. \A s \in E : s # {} => G[s \ {Last(s)}] = F[s \ {Last(s)}]
      BY <2>6, <2>8
    <3> HIDE DEF G
    <3>2. G = [s \in E |-> IF s = {} THEN NoOffers ELSE Book!Replay(F[s \ {Last(s)}], f[Last(s)])]
      BY DEF G
    <3>3. QED
      BY <3>1, <3>2
  <2>10. Replays(f, Upto(T), G)
    BY <2>9, Zenon DEF Replays, E
  <2>11. QED
    BY <2>0, <2>10 DEF Bad
<1>3. \E F : Replays(f, Upto(S), F)
  BY <1>2
<1>4. PICK F : Replays(f, Upto(S), F)
  BY <1>3
<1> DEFINE D == Upto(S)
<1>5. \A s \in SUBSET S : s # {} => s \ {Last(s)} \in D
  <2>1. TAKE s \in SUBSET S
  <2>0. HAVE s # {}
  <2>3. Last(s) \in s
    BY <2>0, LastIsIn
  <2>4. Cardinality(s \ {Last(s)}) = Cardinality(s) - 1 /\ Cardinality(s) \in Nat
    BY <1>1, <2>3
  <2>5. Cardinality(s) <= Cardinality(S) /\ Cardinality(S) \in Nat
    BY FS_Subset, FS_CardinalityType
  <2>6. s \ {Last(s)} \in SUBSET S
    OBVIOUS
  <2>7. SUFFICES Cardinality(s \ {Last(s)}) < Cardinality(S)
    BY <2>6
  <2> HIDE DEF D
  <2>8. QED
    BY <2>4, <2>5
<1> HIDE DEF D
<1>6. F = [s \in D |-> IF s = {} THEN NoOffers ELSE Book!Replay(F[s \ {Last(s)}], f[Last(s)])]
  BY <1>4 DEF Replays, D
<1> DEFINE G == [s \in SUBSET S |-> IF s = {} THEN NoOffers ELSE Book!Replay(F[s \ {Last(s)}], f[Last(s)])]
<1>7. \A s \in D : G[s] = F[s]
  <2>1. TAKE s \in D
  <2>0. F[s] = IF s = {} THEN NoOffers ELSE Book!Replay(F[s \ {Last(s)}], f[Last(s)])
    BY <1>6, Zenon
  <2>3. s \in SUBSET S
    BY DEF D
  <2>4. QED
    BY <2>0, <2>3
<1>8. \A s \in SUBSET S : s # {} => G[s \ {Last(s)}] = F[s \ {Last(s)}]
  BY <1>5, <1>7
<1>9. G = [s \in SUBSET S |-> IF s = {} THEN NoOffers ELSE Book!Replay(F[s \ {Last(s)}], f[Last(s)])]
  BY Zenon
<1> HIDE DEF G
<1>10. G = [s \in SUBSET S |-> IF s = {} THEN NoOffers ELSE Book!Replay(G[s \ {Last(s)}], f[Last(s)])]
  BY <1>8, <1>9
<1>11. QED
  BY <1>10, Zenon DEF Plays, Replays

Countable(S) == IsFiniteSet(S) /\ S \subseteq Nat
LEMMA ReplaysAgree ==
    ASSUME NEW f, NEW g, NEW S, Countable(S), NEW T, T \in SUBSET S, NEW F, NEW G,
           Plays(f, S, F), Plays(g, T, G), Alike(f, g, T)
    PROVE  F[T] = G[T]
<1>12. IsFiniteSet(S) /\ S \subseteq Nat
  BY DEF Countable
<1> DEFINE Bad == {U \in SUBSET T : F[U] # G[U]}
<1>1. SUFFICES ASSUME Bad # {} PROVE FALSE
  OBVIOUS
<1>2. IsFiniteSet(T)
  BY <1>12, FS_Subset
<1>3. PICK U : Smallest(U, Bad)
  <2>1. Bad \in SUBSET SUBSET T
    OBVIOUS
  <2> HIDE DEF Bad
  <2>2. QED
    BY <1>1, <1>2, <2>1, SmallestSet
<1>0. U \in Bad /\ \A V \in Bad : V \subseteq U => V = U
  BY <1>3 DEF Smallest
<1> HIDE DEF Bad
<1>11. U \in SUBSET S /\ U \in SUBSET T /\ F[U] # G[U]
  BY <1>0 DEF Bad
<1>4. /\ F[U] = IF U = {} THEN NoOffers ELSE Book!Replay(F[U \ {Last(U)}], f[Last(U)])
      /\ G[U] = IF U = {} THEN NoOffers ELSE Book!Replay(G[U \ {Last(U)}], g[Last(U)])
  <2>1. U \in SUBSET S /\ U \in SUBSET T
    BY <1>11
  <2>2. F = [s \in SUBSET S |-> IF s = {} THEN NoOffers ELSE Book!Replay(F[s \ {Last(s)}], f[Last(s)])]
    BY DEF Plays, Replays
  <2>3. G = [s \in SUBSET T |-> IF s = {} THEN NoOffers ELSE Book!Replay(G[s \ {Last(s)}], g[Last(s)])]
    BY DEF Plays, Replays
  <2>4. F[U] = IF U = {} THEN NoOffers ELSE Book!Replay(F[U \ {Last(U)}], f[Last(U)])
    BY <2>1, <2>2, Zenon
  <2>5. G[U] = IF U = {} THEN NoOffers ELSE Book!Replay(G[U \ {Last(U)}], g[Last(U)])
    BY <2>1, <2>3, Zenon
  <2>6. QED
    BY <2>4, <2>5
<1>5. U # {}
  BY <1>11, <1>4
<1>6. Last(U) \in U
  BY <1>5, <1>11, <1>12, LastIsIn
<1>7. U \ {Last(U)} \in SUBSET T /\ U \ {Last(U)} \subseteq U /\ U \ {Last(U)} # U
  BY <1>6, <1>11
<1>8. F[U \ {Last(U)}] = G[U \ {Last(U)}]
  BY <1>0, <1>7 DEF Bad
<1>9. f[Last(U)] = g[Last(U)]
  BY <1>6, <1>11 DEF Alike
<1>10. QED
  BY <1>11, <1>4, <1>5, <1>8, <1>9
LEMMA ReplayedSame ==
    ASSUME NEW f, NEW g, NEW n \in Nat, Alike(f, g, 1..n) PROVE Retold(f, n) = Retold(g, n)
<1> DEFINE S == 1..n
           F == CHOOSE F : Plays(f, S, F)
           G == CHOOSE G : Plays(g, S, G)
<1>1. IsFiniteSet(S) /\ S \subseteq Nat
  BY FS_Interval
<1>2. Alike(f, g, S)
  OBVIOUS
<1> HIDE DEF S
<1>3. Plays(f, S, F) /\ Plays(g, S, G)
  BY <1>1, ReplaysExists
<1> HIDE DEF F, G
<1>4. S \in SUBSET S /\ Countable(S)
  BY <1>1 DEF Countable
<1>5. F[S] = G[S]
  BY <1>2, <1>3, <1>4, ReplaysAgree
<1>6. QED
  BY <1>5 DEF Retold, F, G, S

LEMMA ReplayedNone == ASSUME NEW f PROVE Retold(f, 0) = NoOffers
<1> DEFINE F == CHOOSE F : Plays(f, 1..0, F)
<1>1. IsFiniteSet(1..0) /\ 1..0 \subseteq Nat /\ 1..0 = {}
  BY FS_Interval
<1>2. Plays(f, 1..0, F)
  BY <1>1, ReplaysExists
<1> HIDE DEF F
<1>3. F = [s \in SUBSET (1..0) |-> IF s = {} THEN NoOffers ELSE Book!Replay(F[s \ {Last(s)}], f[Last(s)])]
  BY <1>2 DEF Plays, Replays
<1>4. F[1..0] = NoOffers
  <2>1. 1..0 \in SUBSET (1..0)
    OBVIOUS
  <2>2. QED
    BY <1>1, <1>3, <2>1, Zenon
<1>5. QED
  BY <1>4 DEF Retold, F

\* One block at a time, the newest last.
LEMMA ReplayedNext ==
    ASSUME NEW f, NEW n \in Nat PROVE Retold(f, n + 1) = Book!Replay(Retold(f, n), f[n + 1])
<1> DEFINE S == 1..(n + 1)
           T == 1..n
           F == CHOOSE F : Plays(f, S, F)
           G == CHOOSE G : Plays(f, T, G)
<1>1. IsFiniteSet(S) /\ S \subseteq Nat /\ S # {} /\ IsFiniteSet(T) /\ T \subseteq Nat
  <2>1. n + 1 \in Int /\ n \in Int /\ 1 \in Int /\ 1 \in S
    OBVIOUS
  <2>2. IsFiniteSet(S) /\ IsFiniteSet(T)
    BY <2>1, FS_Interval
  <2>3. S \subseteq Nat /\ T \subseteq Nat
    OBVIOUS
  <2>4. QED
    BY <2>1, <2>2, <2>3
<1>2. Last(S) = n + 1
  <2>1. Last(S) \in S /\ \A y \in S : Last(S) >= y
    BY <1>1, LastIsIn
  <2>2. n + 1 \in S
    OBVIOUS
  <2>3. QED
    BY <2>1, <2>2
<1>3. S \ {n + 1} = T /\ T \subseteq S
  OBVIOUS
<1> HIDE DEF S, T
<1>4. Plays(f, S, F) /\ Plays(f, T, G)
  BY <1>1, ReplaysExists
<1> HIDE DEF F, G
<1>5. F = [s \in SUBSET S |-> IF s = {} THEN NoOffers ELSE Book!Replay(F[s \ {Last(s)}], f[Last(s)])]
  BY <1>4 DEF Plays, Replays
<1>6. F[S] = Book!Replay(F[S \ {Last(S)}], f[Last(S)])
  <2>1. S \in SUBSET S
    OBVIOUS
  <2>2. QED
    BY <1>1, <1>5, <2>1, Zenon
<1>7. F[T] = G[T]
  <2>1. Alike(f, f, T) /\ T \in SUBSET S /\ Countable(S)
    BY <1>1, <1>3 DEF Alike, Countable
  <2>2. QED
    BY <1>4, <2>1, ReplaysAgree
<1>8. F[S] = Book!Replay(G[T], f[n + 1])
  BY <1>2, <1>3, <1>6, <1>7, Zenon
<1>9. QED
  BY <1>8 DEF Retold, F, G, S, T

\* What a block adds to what the blocks before it tell.
Told == Book!ProjectOffers
LEMMA ToldIsReplay == DOMAIN chain = 1..Len(chain) => Told = Retold(chain, Len(chain))
BY ProjectIsReplay DEF Told
LEMMA ToldBlock ==
    ASSUME NEW B, chain \in Seq(B), NEW blk \in B, chain' = Append(chain, blk)
    PROVE  Told' = Book!Replay(Told, blk)
<1>1. chain' \in Seq(B) /\ DOMAIN chain = 1..Len(chain) /\ DOMAIN chain' = 1..Len(chain')
      /\ Len(chain) \in Nat /\ Len(chain') = Len(chain) + 1 /\ chain'[Len(chain) + 1] = blk
      /\ Alike(chain', chain, 1..Len(chain))
  BY DEF Alike
<1>2. Told = Retold(chain, Len(chain))
  BY <1>1, ProjectIsReplay DEF Told
<1>3. Told' = Retold(chain', Len(chain'))
  <2>1. (DOMAIN chain = 1..Len(chain) => Told = Retold(chain, Len(chain)))'
    BY ToldIsReplay, PTL
  <2>2. QED
    BY <1>1, <2>1
<1>4. Retold(chain', Len(chain) + 1) = Book!Replay(Retold(chain', Len(chain)), blk)
  BY <1>1, ReplayedNext
<1>5. Retold(chain', Len(chain)) = Retold(chain, Len(chain))
  BY <1>1, ReplayedSame
<1>6. QED
  BY <1>1, <1>2, <1>3, <1>4, <1>5
LEMMA ToldStays == ASSUME chain' = chain PROVE Told' = Told
BY Zenon DEF Told, Book!ProjectOffers, Book!FoldLeft, Book!MapThenFoldSet
LEMMA ToldNothing == ASSUME chain = <<>> PROVE Told = NoOffers
<1>1. DOMAIN chain = 1..Len(chain) /\ Len(chain) = 0
  OBVIOUS
<1>2. QED
  BY <1>1, ProjectIsReplay, ReplayedNone DEF Told
-----------------------------------------------------------------------------
(* The offers: what stays true of them *)

OfferState == [seller : Owners, total : Nat, remaining : Nat, status : Book!Statuses]
Requests == [at : Book!Points, id : 0..MaxOffers, who : Owners, tokens : Nat, dryRun : BOOLEAN, seen : Nat]
Blocks == [type : {"LISTED", "CANCELLED", "TAKEN"}, id : Book!Ids, seller : Owners, tokens : Nat, status : Book!Statuses]

BookTypes ==
    /\ offers \in [Book!Ids -> OfferState] /\ Told \in [Book!Ids -> OfferState]
    /\ seq \in 0..MaxOffers /\ held \in [Owners -> Nat]
    /\ chain \in Seq(Blocks) /\ \A i \in DOMAIN chain : chain[i].id \in 1..seq
    /\ job \in [Clients -> Requests] /\ sold \in [Book!Ids -> Nat] /\ withdrawn \subseteq 1..seq
    /\ overlapped \in BOOLEAN /\ crashes \in Nat /\ trades \in Nat

\* An identifier is given out with the offer, in the book and in the blocks.
GivenOut(id, o, t) ==
    IF id <= seq THEN o.status # "NONE" /\ t.status # "NONE" ELSE o = Book!NoOffer /\ t = Book!NoOffer

\* A take is of an offer of somebody else's, a listing and a take are of something.
Taking == {"settle", "fill", "restore"}
Asked(r) ==
    /\ r.at = "list" => r.tokens > 0
    /\ r.at \in Taking => r.tokens > 0 /\ r.id \in 1..seq /\ r.who # offers[r.id].seller

\* Units a take holds: neither in the offer nor settled.
TakenUp(r, id) == IF r.at \in {"settle", "restore"} /\ r.id = id THEN r.tokens ELSE 0
AllHeld(id) == Total([c \in Clients |-> TakenUp(job[c], id)], Clients)
Counted(id) ==
    /\ offers[id].remaining + sold[id] + AllHeld(id) = offers[id].total
    /\ offers[id].status = "FILLED" => offers[id].remaining = 0
    /\ offers[id].status = "OPEN" /\ offers[id].remaining = 0 => ~Book!Quiet(id)

\* What the blocks say of an offer that is being taken: as before the take.
Before(r, o, t) ==
    /\ o.seller = t.seller /\ o.total = t.total /\ o.status = t.status /\ t.status # "FILLED"
    /\ t.remaining = o.remaining + r.tokens
Agreed(id) ==
    /\ Book!Quiet(id) => offers[id] = Told[id]
    /\ \A c \in Clients : Book!Touches(c, id) => Before(job[c], offers[id], Told[id])
OneRequest == \A b, c \in Clients : job[b].at # "idle" /\ job[c].at # "idle" => b = c

\* What a seller has on offer, and what is held for a take of it, is there.
CoveredBy(r, h) ==
    /\ r.at \in {"settle", "restore"} /\ offers[r.id].seller = h => Book!Committed(h) + r.tokens <= held[h]
    /\ r.at = "list" /\ r.who = h => r.seen = held[h]
CoveredAll(h) == Book!Committed(h) <= held[h] /\ \A c \in Clients : CoveredBy(job[c], h)

AllGiven == \A j \in Book!Ids : GivenOut(j, offers[j], Told[j])
AllAsked == \A c \in Clients : Asked(job[c])
AllCounted == crashes = 0 => \A j \in Book!Ids : Counted(j)
AllAgreed == ~overlapped => OneRequest /\ \A j \in Book!Ids : Agreed(j)
AllCovered == ~overlapped /\ trades = 0 /\ crashes = 0 => \A h \in Owners : CoveredAll(h)
BookInv == BookTypes /\ AllGiven /\ AllAsked /\ AllCounted /\ AllAgreed /\ AllCovered
-----------------------------------------------------------------------------
(* The offers: an offer, a request, and how their fields are set *)

Offer(s, t, r, x) == [seller |-> s, total |-> t, remaining |-> r, status |-> x]
LEMMA OfferFields ==
    ASSUME NEW s, NEW t, NEW r, NEW x
    PROVE  LET o == Offer(s, t, r, x) IN o.seller = s /\ o.total = t /\ o.remaining = r /\ o.status = x
BY DEF Offer
LEMMA OfferType ==
    ASSUME NEW s \in Owners, NEW t \in Nat, NEW r \in Nat, NEW x \in Book!Statuses PROVE Offer(s, t, r, x) \in OfferState
BY DEF Offer, OfferState
LEMMA EachOffer ==
    ASSUME NEW o \in OfferState
    PROVE  /\ o = Offer(o.seller, o.total, o.remaining, o.status)
           /\ o.seller \in Owners /\ o.total \in Nat /\ o.remaining \in Nat /\ o.status \in Book!Statuses
BY DEF Offer, OfferState
LEMMA SetRemaining ==
    ASSUME NEW s, NEW t, NEW r, NEW x, NEW v
    PROVE  [Offer(s, t, r, x) EXCEPT !.remaining = v] = Offer(s, t, v, x)
BY DEF Offer
LEMMA SetStatus ==
    ASSUME NEW s, NEW t, NEW r, NEW x, NEW v
    PROVE  [Offer(s, t, r, x) EXCEPT !.status = v] = Offer(s, t, r, v)
BY DEF Offer
LEMMA LeavesOver ==
    ASSUME NEW o \in OfferState, NEW v PROVE [o EXCEPT !.remaining = v] = Offer(o.seller, o.total, v, o.status)
<1>1. o = Offer(o.seller, o.total, o.remaining, o.status)
  BY EachOffer
<1>2. [Offer(o.seller, o.total, o.remaining, o.status) EXCEPT !.remaining = v] = Offer(o.seller, o.total, v, o.status)
  BY SetRemaining
<1>3. QED
  BY <1>1, <1>2, Zenon
LEMMA TurnsTo ==
    ASSUME NEW o \in OfferState, NEW v PROVE [o EXCEPT !.status = v] = Offer(o.seller, o.total, o.remaining, v)
<1>1. o = Offer(o.seller, o.total, o.remaining, o.status)
  BY EachOffer
<1>2. [Offer(o.seller, o.total, o.remaining, o.status) EXCEPT !.status = v] = Offer(o.seller, o.total, o.remaining, v)
  BY SetStatus
<1>3. QED
  BY <1>1, <1>2, Zenon
LEMMA LeavesAndTurns ==
    ASSUME NEW o \in OfferState, NEW v, NEW w
    PROVE  [o EXCEPT !.remaining = v, !.status = w] = Offer(o.seller, o.total, v, w)
<1>1. [o EXCEPT !.remaining = v] = Offer(o.seller, o.total, v, o.status)
  BY LeavesOver
<1>2. [Offer(o.seller, o.total, v, o.status) EXCEPT !.status = w] = Offer(o.seller, o.total, v, w)
  BY SetStatus
<1>3. QED
  BY <1>1, <1>2, Zenon

Asks(a, i, w, n, d, s) == [at |-> a, id |-> i, who |-> w, tokens |-> n, dryRun |-> d, seen |-> s]
LEMMA AsksFields ==
    ASSUME NEW a, NEW i, NEW w, NEW n, NEW d, NEW s
    PROVE  LET k == Asks(a, i, w, n, d, s) IN k.at = a /\ k.id = i /\ k.who = w /\ k.tokens = n /\ k.dryRun = d /\ k.seen = s
BY DEF Asks
LEMMA AsksType ==
    ASSUME NEW a \in Book!Points, NEW i \in 0..MaxOffers, NEW w \in Owners, NEW n \in Nat, NEW d \in BOOLEAN, NEW s \in Nat
    PROVE  Asks(a, i, w, n, d, s) \in Requests
BY DEF Asks, Requests
LEMMA EachAsks ==
    ASSUME NEW k \in Requests
    PROVE  /\ k = Asks(k.at, k.id, k.who, k.tokens, k.dryRun, k.seen)
           /\ k.at \in Book!Points /\ k.id \in 0..MaxOffers /\ k.who \in Owners /\ k.tokens \in Nat
           /\ k.dryRun \in BOOLEAN /\ k.seen \in Nat
BY DEF Asks, Requests
LEMMA AsksAt ==
    ASSUME NEW a, NEW i, NEW w, NEW n, NEW d, NEW s, NEW v
    PROVE  [Asks(a, i, w, n, d, s) EXCEPT !.at = v] = Asks(v, i, w, n, d, s)
BY DEF Asks
LEMMA AsksAbout ==
    ASSUME NEW a, NEW i, NEW w, NEW n, NEW d, NEW s, NEW v
    PROVE  [Asks(a, i, w, n, d, s) EXCEPT !.id = v] = Asks(a, v, w, n, d, s)
BY DEF Asks
LEMMA AsksFor ==
    ASSUME NEW a, NEW i, NEW w, NEW n, NEW d, NEW s, NEW v
    PROVE  [Asks(a, i, w, n, d, s) EXCEPT !.who = v] = Asks(a, i, v, n, d, s)
BY DEF Asks
LEMMA AsksTokens ==
    ASSUME NEW a, NEW i, NEW w, NEW n, NEW d, NEW s, NEW v
    PROVE  [Asks(a, i, w, n, d, s) EXCEPT !.tokens = v] = Asks(a, i, w, v, d, s)
BY DEF Asks
LEMMA AsksDry ==
    ASSUME NEW a, NEW i, NEW w, NEW n, NEW d, NEW s, NEW v
    PROVE  [Asks(a, i, w, n, d, s) EXCEPT !.dryRun = v] = Asks(a, i, w, n, v, s)
BY DEF Asks
LEMMA AsksSeen ==
    ASSUME NEW a, NEW i, NEW w, NEW n, NEW d, NEW s, NEW v
    PROVE  [Asks(a, i, w, n, d, s) EXCEPT !.seen = v] = Asks(a, i, w, n, d, v)
BY DEF Asks
Wet == FALSE
NoAsk == Asks("idle", 0, Book!Someone, 0, Wet, 0)
LEMMA IdleIsNoAsk == Book!Idle = NoAsk
BY DEF Book!Idle, NoAsk, Asks, Wet
LEMMA AsksToList ==
    ASSUME NEW w, NEW n, NEW s
    PROVE  [Book!Idle EXCEPT !.at = "list", !.who = w, !.tokens = n, !.seen = s] = Asks("list", 0, w, n, Wet, s)
<1>1. [Book!Idle EXCEPT !.at = "list"] = Asks("list", 0, Book!Someone, 0, Wet, 0)
  BY AsksAt, IdleIsNoAsk DEF NoAsk
<1>2. [Asks("list", 0, Book!Someone, 0, Wet, 0) EXCEPT !.who = w] = Asks("list", 0, w, 0, Wet, 0)
  BY AsksFor
<1>3. [Asks("list", 0, w, 0, Wet, 0) EXCEPT !.tokens = n] = Asks("list", 0, w, n, Wet, 0)
  BY AsksTokens
<1>4. [Asks("list", 0, w, n, Wet, 0) EXCEPT !.seen = s] = Asks("list", 0, w, n, Wet, s)
  BY AsksSeen
<1>5. QED
  BY <1>1, <1>2, <1>3, <1>4, Zenon
LEMMA AsksToTake ==
    ASSUME NEW i, NEW w, NEW n, NEW d
    PROVE  [Book!Idle EXCEPT !.at = "settle", !.id = i, !.who = w, !.tokens = n, !.dryRun = d] = Asks("settle", i, w, n, d, 0)
<1>1. [Book!Idle EXCEPT !.at = "settle"] = Asks("settle", 0, Book!Someone, 0, Wet, 0)
  BY AsksAt, IdleIsNoAsk DEF NoAsk
<1>2. [Asks("settle", 0, Book!Someone, 0, Wet, 0) EXCEPT !.id = i] = Asks("settle", i, Book!Someone, 0, Wet, 0)
  BY AsksAbout
<1>3. [Asks("settle", i, Book!Someone, 0, Wet, 0) EXCEPT !.who = w] = Asks("settle", i, w, 0, Wet, 0)
  BY AsksFor
<1>4. [Asks("settle", i, w, 0, Wet, 0) EXCEPT !.tokens = n] = Asks("settle", i, w, n, Wet, 0)
  BY AsksTokens
<1>5. [Asks("settle", i, w, n, Wet, 0) EXCEPT !.dryRun = d] = Asks("settle", i, w, n, d, 0)
  BY AsksDry
<1>6. [Book!Idle EXCEPT !.at = "settle", !.id = i, !.who = w] = Asks("settle", i, w, 0, Wet, 0)
  BY <1>1, <1>2, <1>3, Zenon
<1>7. [Book!Idle EXCEPT !.at = "settle", !.id = i, !.who = w, !.tokens = n] = Asks("settle", i, w, n, Wet, 0)
  BY <1>4, <1>6, Zenon
<1>8. QED
  BY <1>5, <1>7, Zenon
LEMMA AsksNow ==
    ASSUME NEW k \in Requests, NEW a
    PROVE  [k EXCEPT !.at = a] = Asks(a, k.id, k.who, k.tokens, k.dryRun, k.seen)
<1>1. k = Asks(k.at, k.id, k.who, k.tokens, k.dryRun, k.seen)
  BY EachAsks
<1>2. [Asks(k.at, k.id, k.who, k.tokens, k.dryRun, k.seen) EXCEPT !.at = a] = Asks(a, k.id, k.who, k.tokens, k.dryRun, k.seen)
  BY AsksAt
<1>3. QED
  BY <1>1, <1>2, Zenon

\* An offer becomes o, what the blocks tell of it becomes t, a request goes on to k.
OfferIs(i, o) == i \in Book!Ids /\ o \in OfferState /\ offers' = [offers EXCEPT ![i] = o]
ToldIs(i, t) == i \in Book!Ids /\ t \in OfferState /\ Told' = [Told EXCEPT ![i] = t]
AskIs(c, k) == c \in Clients /\ k \in Requests /\ job' = [job EXCEPT ![c] = k]
LEMMA OffersBecome ==
    ASSUME NEW i, NEW o, OfferIs(i, o), offers \in [Book!Ids -> OfferState]
    PROVE  /\ i \in Book!Ids /\ o \in OfferState /\ offers' \in [Book!Ids -> OfferState]
           /\ \A j \in Book!Ids : offers'[j] = IF j = i THEN o ELSE offers[j]
BY DEF OfferIs
LEMMA ToldBecomes ==
    ASSUME NEW i, NEW t, ToldIs(i, t), Told \in [Book!Ids -> OfferState]
    PROVE  /\ i \in Book!Ids /\ t \in OfferState /\ Told' \in [Book!Ids -> OfferState]
           /\ \A j \in Book!Ids : Told'[j] = IF j = i THEN t ELSE Told[j]
BY DEF ToldIs
LEMMA AsksBecome ==
    ASSUME NEW c, NEW k, AskIs(c, k), job \in [Clients -> Requests]
    PROVE  /\ c \in Clients /\ k \in Requests /\ job' \in [Clients -> Requests]
           /\ \A d \in Clients : job'[d] = IF d = c THEN k ELSE job[d]
BY DEF AskIs
-----------------------------------------------------------------------------
(* The offers: what each action does *)

LEMMA BookSets ==
    ASSUME Book!BookConstants
    PROVE  /\ Owners # {} /\ Book!Someone \in Owners /\ IsFiniteSet(Clients) /\ Supply \in Nat /\ MaxOffers \in Nat
           /\ IsFiniteSet(Book!Ids) /\ Book!Ids = 1..MaxOffers
<1>1. Owners # {} /\ IsFiniteSet(Clients) /\ Supply \in Nat /\ MaxOffers \in Nat
  BY Zenon DEF Book!BookConstants, Book!IsFiniteSet, IsFiniteSet
<1>2. Book!Someone \in Owners
  BY <1>1 DEF Book!Someone
<1>3. Book!Ids = 1..MaxOffers
  BY DEF Book!Ids
<1>4. IsFiniteSet(1..MaxOffers)
  BY <1>1, FS_Interval
<1>5. QED
  BY <1>1, <1>2, <1>3, <1>4

LEMMA NoAskType ==
    ASSUME Book!BookConstants PROVE NoAsk \in Requests /\ NoAsk.at = "idle"
<1>1. "idle" \in Book!Points /\ 0 \in 0..MaxOffers /\ Book!Someone \in Owners
  BY BookSets DEF Book!Points
<1>2. Wet \in BOOLEAN
  BY Zenon DEF Wet
<1>3. NoAsk \in Requests
  BY <1>1, <1>2, AsksType DEF NoAsk
<1>4. QED
  BY <1>3, AsksFields DEF NoAsk

LEMMA BookKinds ==
    ASSUME BookTypes
    PROVE  /\ offers \in [Book!Ids -> OfferState] /\ Told \in [Book!Ids -> OfferState]
           /\ seq \in 0..MaxOffers /\ held \in [Owners -> Nat]
           /\ chain \in Seq(Blocks) /\ \A i \in DOMAIN chain : chain[i].id \in 1..seq
           /\ job \in [Clients -> Requests] /\ sold \in [Book!Ids -> Nat] /\ withdrawn \subseteq 1..seq
           /\ overlapped \in BOOLEAN /\ crashes \in Nat /\ trades \in Nat
BY DEF BookTypes

\* What a request is.
LEMMA AskKinds ==
    ASSUME Book!BookConstants, BookTypes, NEW c \in Clients, NEW x, x = job[c]
    PROVE  /\ x \in Requests /\ x.at \in Book!Points /\ x.id \in 0..MaxOffers /\ x.who \in Owners /\ x.tokens \in Nat
           /\ x.dryRun \in BOOLEAN /\ x.seen \in Nat
<1>1. x \in Requests
  BY BookKinds
<1>2. QED
  BY <1>1, EachAsks

LEMMA CreateEffect ==
    ASSUME Book!BookConstants, BookTypes, NEW c \in Clients, NEW h \in Owners, NEW n \in 1..Supply,
           Book!CreateOffer(c, h, n)
    PROVE  /\ job[c].at = "idle" /\ n \in Nat /\ n > 0 /\ AskIs(c, Asks("list", 0, h, n, Wet, held[h]))
           /\ ~overlapped' => ~overlapped /\ AllFree
           /\ overlapped' \in BOOLEAN /\ Told' = Told
           /\ UNCHANGED <<offers, seq, chain, held, sold, withdrawn, trades, crashes>>
<1>1. /\ job[c].at = "idle" /\ overlapped' = (overlapped \/ \E b \in Clients : job[b].at # "idle")
      /\ job' = [job EXCEPT ![c] = [Book!Idle EXCEPT !.at = "list", !.who = h, !.tokens = n, !.seen = held[h]]]
      /\ UNCHANGED <<offers, seq, chain, held, sold, withdrawn, trades, crashes>>
  BY Zenon DEF Book!CreateOffer, Book!Begin, Book!book, Book!history
<1>2. job' = [job EXCEPT ![c] = Asks("list", 0, h, n, Wet, held[h])]
  <2>1. [Book!Idle EXCEPT !.at = "list", !.who = h, !.tokens = n, !.seen = held[h]] = Asks("list", 0, h, n, Wet, held[h])
    BY AsksToList
  <2>2. QED
    BY <1>1, <2>1, Zenon
<1>3. Asks("list", 0, h, n, Wet, held[h]) \in Requests /\ n \in Nat /\ n > 0
  <2>1. "list" \in Book!Points /\ 0 \in 0..MaxOffers /\ n \in Nat /\ n > 0 /\ held[h] \in Nat
    BY BookSets, BookKinds DEF Book!Points
  <2>2. Wet \in BOOLEAN
    BY Zenon DEF Wet
  <2>3. QED
    BY <2>1, <2>2, AsksType
<1>4. (~overlapped' => ~overlapped /\ AllFree) /\ overlapped' \in BOOLEAN
  BY <1>1, Zenon DEF AllFree
<1>5. QED
  BY <1>1, <1>2, <1>3, <1>4, ToldStays DEF AskIs

LEMMA TakeEffect ==
    ASSUME Book!BookConstants, BookTypes, NEW c \in Clients, NEW i \in Book!Ids, NEW h \in Owners, NEW n \in 1..Supply,
           NEW d \in BOOLEAN, Book!Take(c, i, h, n, d), NEW o, o = offers[i]
    PROVE  /\ job[c].at = "idle" /\ n \in Nat /\ n > 0 /\ AskIs(c, Asks("settle", i, h, n, d, 0))
           /\ o \in OfferState /\ o.status = "OPEN" /\ o.seller # h /\ n <= o.remaining
           /\ OfferIs(i, Offer(o.seller, o.total, o.remaining - n, o.status))
           /\ ~overlapped' => ~overlapped /\ AllFree
           /\ overlapped' \in BOOLEAN /\ Told' = Told
           /\ UNCHANGED <<seq, chain, held, sold, withdrawn, trades, crashes>>
<1>1. /\ job[c].at = "idle" /\ overlapped' = (overlapped \/ \E b \in Clients : job[b].at # "idle")
      /\ job' = [job EXCEPT ![c] = [Book!Idle EXCEPT !.at = "settle", !.id = i, !.who = h, !.tokens = n, !.dryRun = d]]
      /\ offers[i].status = "OPEN" /\ offers[i].seller # h /\ n <= offers[i].remaining
      /\ UNCHANGED <<seq, chain, held, sold, withdrawn, trades, crashes>>
  BY Zenon DEF Book!Take, Book!Begin, Book!Takes, Book!history
<1>2. offers' = [offers EXCEPT ![i].remaining = @ - n]
  BY DEF Book!Take
<1>3. job' = [job EXCEPT ![c] = Asks("settle", i, h, n, d, 0)]
  <2>1. [Book!Idle EXCEPT !.at = "settle", !.id = i, !.who = h, !.tokens = n, !.dryRun = d] = Asks("settle", i, h, n, d, 0)
    BY AsksToTake
  <2>2. QED
    BY <1>1, <2>1, Zenon
<1>4. Asks("settle", i, h, n, d, 0) \in Requests /\ n \in Nat /\ n > 0
  <2>1. "settle" \in Book!Points /\ i \in 0..MaxOffers /\ n \in Nat /\ n > 0
    BY BookSets DEF Book!Points
  <2>2. QED
    BY <2>1, AsksType
<1>5. o \in OfferState /\ o.seller \in Owners /\ o.total \in Nat /\ o.remaining \in Nat /\ o.status \in Book!Statuses
  <2>1. o \in OfferState
    BY BookKinds
  <2>2. QED
    BY <2>1, EachOffer
<1>6. [o EXCEPT !.remaining = o.remaining - n] = Offer(o.seller, o.total, o.remaining - n, o.status)
  BY <1>5, LeavesOver
<1>7. offers' = [offers EXCEPT ![i] = [o EXCEPT !.remaining = o.remaining - n]]
  BY <1>2, BookKinds
<1>8. OfferIs(i, Offer(o.seller, o.total, o.remaining - n, o.status))
  <2>1. o.remaining - n \in Nat
    BY <1>1, <1>4, <1>5
  <2>2. Offer(o.seller, o.total, o.remaining - n, o.status) \in OfferState
    BY <1>5, <2>1, OfferType
  <2>3. QED
    BY <1>6, <1>7, <2>2, Zenon DEF OfferIs
<1>9. (~overlapped' => ~overlapped /\ AllFree) /\ overlapped' \in BOOLEAN
  BY <1>1, Zenon DEF AllFree
<1>10. QED
  BY <1>1, <1>3, <1>4, <1>5, <1>8, <1>9, ToldStays DEF AskIs
-----------------------------------------------------------------------------
(* The offers: the blocks, and what each of them adds *)

BlockOf(t, i, o) == [type |-> t, id |-> i, seller |-> o.seller, tokens |-> o.remaining, status |-> o.status]
LEMMA BlockIsOf == ASSUME NEW t, NEW i, NEW o PROVE Book!Block(t, i, o) = BlockOf(t, i, o)
BY DEF Book!Block, BlockOf
LEMMA BlockFields ==
    ASSUME NEW t, NEW i, NEW o
    PROVE  LET b == BlockOf(t, i, o) IN
           b.type = t /\ b.id = i /\ b.seller = o.seller /\ b.tokens = o.remaining /\ b.status = o.status
BY DEF BlockOf
LEMMA BlockType ==
    ASSUME NEW t \in {"LISTED", "CANCELLED", "TAKEN"}, NEW i \in Book!Ids, NEW o \in OfferState
    PROVE  BlockOf(t, i, o) \in Blocks
BY EachOffer DEF BlockOf, Blocks

ChainIs(m) == chain' \in Seq(Blocks) /\ \A j \in DOMAIN chain' : chain'[j].id \in 1..m
LEMMA BlocksGrow ==
    ASSUME Book!BookConstants, BookTypes, NEW b \in Blocks, chain' = Append(chain, b),
           NEW m \in Nat, seq <= m, b.id \in 1..m
    PROVE  ChainIs(m)
<1>1. chain \in Seq(Blocks) /\ (\A j \in DOMAIN chain : chain[j].id \in 1..seq) /\ seq \in Nat
  BY BookKinds, BookSets
<1>2. chain' \in Seq(Blocks) /\ Len(chain') = Len(chain) + 1 /\ Len(chain) \in Nat
  BY <1>1
<1>3. ASSUME NEW j \in DOMAIN chain' PROVE chain'[j].id \in 1..m
  <2>1. CASE j = Len(chain) + 1
    <3>1. chain'[j] = b
      BY <1>1, <2>1
    <3>2. QED
      BY <3>1
  <2>2. CASE j # Len(chain) + 1
    <3>1. j \in DOMAIN chain /\ chain'[j] = chain[j]
      BY <1>1, <1>2, <2>2
    <3>2. chain[j].id \in 1..seq
      BY <1>1, <3>1
    <3>3. QED
      BY <1>1, <3>1, <3>2
  <2>3. QED
    BY <2>1, <2>2
<1>4. QED
  BY <1>2, <1>3 DEF ChainIs

LEMMA ToldGrows ==
    ASSUME BookTypes, NEW b \in Blocks, chain' = Append(chain, b) PROVE Told' = Book!Replay(Told, b)
BY BookKinds, ToldBlock

LEMMA ListedTold ==
    ASSUME Book!BookConstants, BookTypes, NEW i \in Book!Ids, NEW o \in OfferState,
           chain' = Append(chain, BlockOf("LISTED", i, o))
    PROVE  ToldIs(i, Offer(o.seller, o.remaining, o.remaining, "OPEN"))
<1>1. SUFFICES ASSUME NEW b \in Blocks, b = BlockOf("LISTED", i, o)
               PROVE  ToldIs(i, Offer(o.seller, o.remaining, o.remaining, "OPEN"))
  BY BlockType
<1>2. b.type = "LISTED" /\ b.id = i /\ b.seller = o.seller /\ b.tokens = o.remaining
  BY <1>1, BlockFields
<1>3. Told' = Book!Replay(Told, b)
  BY <1>1, ToldGrows
<1>4. Book!Listed(o.seller, o.remaining) = Offer(o.seller, o.remaining, o.remaining, "OPEN")
  BY DEF Book!Listed, Offer
<1>5. Told' = [Told EXCEPT ![i] = Offer(o.seller, o.remaining, o.remaining, "OPEN")]
  BY <1>2, <1>3, <1>4, Zenon DEF Book!Replay
<1>6. Offer(o.seller, o.remaining, o.remaining, "OPEN") \in OfferState
  BY EachOffer, OfferType DEF Book!Statuses
<1>7. QED
  BY <1>5, <1>6, Zenon DEF ToldIs

LEMMA TakenTold ==
    ASSUME Book!BookConstants, BookTypes, NEW i \in Book!Ids, NEW o \in OfferState, NEW t, t = Told[i],
           chain' = Append(chain, BlockOf("TAKEN", i, o))
    PROVE  ToldIs(i, Offer(t.seller, t.total, o.remaining, o.status))
<1>1. SUFFICES ASSUME NEW b \in Blocks, b = BlockOf("TAKEN", i, o)
               PROVE  ToldIs(i, Offer(t.seller, t.total, o.remaining, o.status))
  BY BlockType
<1>2. b.type = "TAKEN" /\ b.id = i /\ b.tokens = o.remaining /\ b.status = o.status
  BY <1>1, BlockFields
<1>3. Told' = Book!Replay(Told, b)
  BY <1>1, ToldGrows
<1>4. Told' = [Told EXCEPT ![i].remaining = o.remaining, ![i].status = o.status]
  <2>1. b.type # "LISTED"
    BY <1>2
  <2>2. QED
    BY <1>2, <1>3, <2>1, Zenon DEF Book!Replay
<1>5. Told \in [Book!Ids -> OfferState] /\ t \in OfferState
  BY BookKinds
<1>6. Told' = [Told EXCEPT ![i] = [t EXCEPT !.remaining = o.remaining, !.status = o.status]]
  BY <1>4, <1>5
<1>7. [t EXCEPT !.remaining = o.remaining, !.status = o.status] = Offer(t.seller, t.total, o.remaining, o.status)
  <2>1. [t EXCEPT !.remaining = o.remaining] = Offer(t.seller, t.total, o.remaining, t.status)
    BY <1>5, LeavesOver
  <2>2. [Offer(t.seller, t.total, o.remaining, t.status) EXCEPT !.status = o.status] = Offer(t.seller, t.total, o.remaining, o.status)
    BY SetStatus
  <2>3. QED
    BY <2>1, <2>2, Zenon
<1>8. Offer(t.seller, t.total, o.remaining, o.status) \in OfferState
  BY <1>5, EachOffer, OfferType
<1>9. QED
  BY <1>6, <1>7, <1>8, Zenon DEF ToldIs

LEMMA CancelledTold ==
    ASSUME Book!BookConstants, BookTypes, NEW i \in Book!Ids, NEW o \in OfferState, NEW t, t = Told[i],
           chain' = Append(chain, BlockOf("CANCELLED", i, o))
    PROVE  ToldIs(i, Offer(t.seller, t.total, t.remaining, "CANCELLED"))
<1>1. SUFFICES ASSUME NEW b \in Blocks, b = BlockOf("CANCELLED", i, o)
               PROVE  ToldIs(i, Offer(t.seller, t.total, t.remaining, "CANCELLED"))
  BY BlockType
<1>2. b.type = "CANCELLED" /\ b.id = i
  BY <1>1, BlockFields
<1>3. Told' = Book!Replay(Told, b)
  BY <1>1, ToldGrows
<1>4. Told' = [Told EXCEPT ![i].status = "CANCELLED"]
  <2>1. b.type # "LISTED" /\ b.type # "TAKEN"
    BY <1>2
  <2>2. QED
    BY <1>2, <1>3, <2>1, Zenon DEF Book!Replay
<1>5. Told \in [Book!Ids -> OfferState] /\ t \in OfferState
  BY BookKinds
<1>6. Told' = [Told EXCEPT ![i] = [t EXCEPT !.status = "CANCELLED"]]
  BY <1>4, <1>5
<1>7. [t EXCEPT !.status = "CANCELLED"] = Offer(t.seller, t.total, t.remaining, "CANCELLED")
  BY <1>5, TurnsTo
<1>8. Offer(t.seller, t.total, t.remaining, "CANCELLED") \in OfferState
  BY <1>5, EachOffer, OfferType DEF Book!Statuses
<1>9. QED
  BY <1>6, <1>7, <1>8, Zenon DEF ToldIs
-----------------------------------------------------------------------------
(* The offers: a listing, a withdrawal, a settlement *)

LEMMA RegisterEffect ==
    ASSUME Book!BookConstants, BookTypes, NEW c \in Clients, Book!Register(c), NEW k, k = job[c], NEW o,
           o = Offer(k.who, k.tokens, k.tokens, "OPEN")
    PROVE  /\ k \in Requests /\ k.at = "list" /\ k.tokens \in Nat /\ k.seen \in Nat /\ k.who \in Owners
           /\ AskIs(c, NoAsk) /\ UNCHANGED <<held, sold, withdrawn, overlapped, trades, crashes>>
           /\ \/ Told' = Told /\ UNCHANGED <<offers, seq, chain>>
              \/ /\ ~(k.seen < Book!Committed(k.who) + k.tokens)
                 /\ seq + 1 \in Book!Ids /\ seq' = seq + 1 /\ ChainIs(seq + 1)
                 /\ OfferIs(seq + 1, o) /\ ToldIs(seq + 1, o)
<1>1. /\ k.at = "list" /\ job' = [job EXCEPT ![c] = Book!Idle]
      /\ UNCHANGED <<held, sold, withdrawn, overlapped, trades, crashes>>
      /\ \/ UNCHANGED <<offers, seq, chain>>
         \/ /\ ~(k.seen < Book!Committed(k.who) + k.tokens)
            /\ seq < MaxOffers /\ seq' = seq + 1 /\ offers' = [offers EXCEPT ![seq + 1] = Book!Listed(k.who, k.tokens)]
            /\ chain' = Append(chain, Book!Block("LISTED", seq + 1, Book!Listed(k.who, k.tokens)))
  BY Zenon DEF Book!Register, Book!Finish, Book!book, Book!history, Book!budget, Book!reqs, Book!committedLocked
<1>2. k \in Requests /\ k.tokens \in Nat /\ k.seen \in Nat /\ k.who \in Owners
  BY AskKinds
<1>3. AskIs(c, NoAsk)
  BY <1>1, IdleIsNoAsk, NoAskType, Zenon DEF AskIs
<1>4. CASE UNCHANGED <<offers, seq, chain>>
  BY <1>1, <1>2, <1>3, <1>4, ToldStays
<1>5. CASE /\ ~(k.seen < Book!Committed(k.who) + k.tokens)
           /\ seq < MaxOffers /\ seq' = seq + 1 /\ offers' = [offers EXCEPT ![seq + 1] = Book!Listed(k.who, k.tokens)]
           /\ chain' = Append(chain, Book!Block("LISTED", seq + 1, Book!Listed(k.who, k.tokens)))
  <2>1. Book!Listed(k.who, k.tokens) = o
    BY DEF Book!Listed, Offer
  <2>2. o \in OfferState /\ o.seller = k.who /\ o.remaining = k.tokens /\ o.total = k.tokens /\ o.status = "OPEN"
    BY <1>2, OfferType, OfferFields DEF Book!Statuses
  <2>3. seq \in Nat /\ seq <= seq + 1 /\ seq + 1 \in 1..(seq + 1) /\ seq + 1 \in Book!Ids /\ seq + 1 \in Nat
    BY <1>5, BookSets, BookKinds
  <2>4. chain' = Append(chain, BlockOf("LISTED", seq + 1, o))
    BY <1>5, <2>1, BlockIsOf, Zenon
  <2>5. OfferIs(seq + 1, o)
    BY <1>5, <2>1, <2>2, <2>3, Zenon DEF OfferIs
  <2>6. ToldIs(seq + 1, o)
    <3>1. ToldIs(seq + 1, Offer(o.seller, o.remaining, o.remaining, "OPEN"))
      BY <2>2, <2>3, <2>4, ListedTold
    <3>2. QED
      BY <2>2, <3>1, Zenon
  <2>7. ChainIs(seq + 1)
    <3>1. BlockOf("LISTED", seq + 1, o) \in Blocks
      BY <2>2, <2>3, BlockType
    <3>2. BlockOf("LISTED", seq + 1, o).id = seq + 1
      BY BlockFields
    <3>3. QED
      BY <2>3, <2>4, <3>1, <3>2, BlocksGrow
  <2>8. QED
    BY <1>1, <1>2, <1>3, <1>5, <2>3, <2>5, <2>6, <2>7
<1>6. QED
  BY <1>1, <1>4, <1>5

LEMMA CancelEffect ==
    ASSUME Book!BookConstants, BookTypes, NEW i \in Book!Ids, NEW h \in Owners, Book!CancelOffer(i, h),
           AllGiven, NEW o, o = offers[i], NEW t, t = Told[i]
    PROVE  /\ i \in 1..seq /\ o \in OfferState /\ t \in OfferState /\ o.status = "OPEN"
           /\ OfferIs(i, Offer(o.seller, o.total, o.remaining, "CANCELLED"))
           /\ ToldIs(i, Offer(t.seller, t.total, t.remaining, "CANCELLED"))
           /\ ChainIs(seq) /\ withdrawn' = withdrawn \cup {i}
           /\ UNCHANGED <<seq, held, job, sold, overlapped, trades, crashes>>
<1>1. /\ o.status = "OPEN" /\ offers' = [offers EXCEPT ![i].status = "CANCELLED"]
      /\ chain' = Append(chain, Book!Block("CANCELLED", i, offers'[i]))
      /\ withdrawn' = withdrawn \cup {i}
      /\ UNCHANGED <<seq, held, job, sold, overlapped, trades, crashes>>
  BY Zenon DEF Book!CancelOffer, Book!budget, Book!reqs
<1>2. o \in OfferState /\ t \in OfferState /\ seq \in Nat /\ i \in Nat /\ i >= 1 /\ offers \in [Book!Ids -> OfferState]
  BY BookKinds, BookSets
<1>3. i \in 1..seq
  <2>1. o # Book!NoOffer
    BY <1>1 DEF Book!NoOffer
  <2>2. i <= seq
    BY <2>1, Zenon DEF AllGiven, GivenOut
  <2>3. QED
    BY <1>2, <2>2
<1>4. DEFINE p == Offer(o.seller, o.total, o.remaining, "CANCELLED")
<1>5. p \in OfferState
  BY <1>2, EachOffer, OfferType DEF Book!Statuses
<1>6. offers' = [offers EXCEPT ![i] = p]
  <2>1. offers' = [offers EXCEPT ![i] = [o EXCEPT !.status = "CANCELLED"]]
    BY <1>1, <1>2
  <2>2. [o EXCEPT !.status = "CANCELLED"] = p
    BY <1>2, TurnsTo
  <2>3. QED
    BY <2>1, <2>2, Zenon
<1> HIDE DEF p
<1>7. offers'[i] = p
  BY <1>2, <1>5, <1>6
<1>8. chain' = Append(chain, BlockOf("CANCELLED", i, p))
  BY <1>1, <1>7, BlockIsOf, Zenon
<1>9. ToldIs(i, Offer(t.seller, t.total, t.remaining, "CANCELLED"))
  BY <1>5, <1>8, CancelledTold
<1>10. ChainIs(seq)
  <2>1. BlockOf("CANCELLED", i, p) \in Blocks
    BY <1>5, BlockType
  <2>2. BlockOf("CANCELLED", i, p).id = i
    BY BlockFields
  <2>3. seq <= seq
    BY <1>2
  <2>4. QED
    BY <1>2, <1>3, <1>8, <2>1, <2>2, <2>3, BlocksGrow
<1>11. OfferIs(i, Offer(o.seller, o.total, o.remaining, "CANCELLED"))
  BY <1>5, <1>6, Zenon DEF OfferIs, p
<1>12. QED
  BY <1>1, <1>2, <1>3, <1>9, <1>10, <1>11

LEMMA MovesEffect ==
    ASSUME BookTypes, NEW g \in Owners, NEW h \in Owners, NEW n \in Nat, Book!Moves(g, h, n)
    PROVE  /\ held' \in [Owners -> Nat]
           /\ \A x \in Owners : x # g => held'[x] >= held[x]
           /\ g # h => held'[g] = held[g] - n
<1>1. held \in [Owners -> Nat] /\ n <= held[g] /\ held' = [held EXCEPT ![g] = @ - n, ![h] = @ + n]
  BY BookKinds, Zenon DEF Book!Moves
<1>2. QED
  BY <1>1

LEMMA DealEffect ==
    ASSUME Book!BookConstants, BookTypes, NEW c \in Clients, Book!SettleDvP(c), NEW k, k = job[c], Asked(k)
    PROVE  /\ k \in Requests /\ k.at = "settle" /\ k.tokens \in Nat /\ k.tokens > 0 /\ k.id \in Book!Ids
           /\ UNCHANGED <<offers, seq, chain, withdrawn, overlapped, trades, crashes>> /\ Told' = Told
           /\ \/ /\ AskIs(c, Asks("fill", k.id, k.who, k.tokens, k.dryRun, k.seen))
                 /\ sold' \in [Book!Ids -> Nat] /\ held' \in [Owners -> Nat]
                 /\ \A j \in Book!Ids : sold'[j] = sold[j] + (IF j = k.id THEN k.tokens ELSE 0)
                 /\ \A x \in Owners : x # offers[k.id].seller => held'[x] >= held[x]
                 /\ held'[offers[k.id].seller] = held[offers[k.id].seller] - k.tokens
              \/ AskIs(c, Asks("restore", k.id, k.who, k.tokens, k.dryRun, k.seen)) /\ UNCHANGED <<held, sold>>
<1>1. /\ k.at = "settle" /\ UNCHANGED <<offers, seq, chain, withdrawn, overlapped, trades, crashes>>
      /\ \/ /\ Book!Moves(offers[k.id].seller, k.who, k.tokens) /\ sold' = [sold EXCEPT ![k.id] = @ + k.tokens]
            /\ job' = [job EXCEPT ![c].at = "fill"]
         \/ job' = [job EXCEPT ![c].at = "restore"] /\ UNCHANGED <<held, sold>>
  BY Zenon DEF Book!SettleDvP, Book!Goes, Book!book, Book!budget, Book!reqs
<1>2. k \in Requests /\ k.tokens \in Nat /\ k.who \in Owners /\ k.id \in 0..MaxOffers /\ k.seen \in Nat /\ k.dryRun \in BOOLEAN
      /\ job \in [Clients -> Requests]
  BY AskKinds, BookKinds
<1>3. k.tokens > 0 /\ k.id \in 1..seq /\ k.who # offers[k.id].seller
  BY <1>1 DEF Asked, Taking
<1>4. k.id \in Book!Ids
  BY <1>3, BookSets, BookKinds
<1>5. offers[k.id].seller \in Owners
  BY <1>4, BookKinds, EachOffer
<1>6. ASSUME NEW a \in {"fill", "restore"}, job' = [job EXCEPT ![c].at = a]
      PROVE  AskIs(c, Asks(a, k.id, k.who, k.tokens, k.dryRun, k.seen))
  <2>1. job' = [job EXCEPT ![c] = [k EXCEPT !.at = a]]
    BY <1>2, <1>6
  <2>2. [k EXCEPT !.at = a] = Asks(a, k.id, k.who, k.tokens, k.dryRun, k.seen)
    BY <1>2, AsksNow
  <2>3. a \in Book!Points
    BY DEF Book!Points
  <2>4. Asks(a, k.id, k.who, k.tokens, k.dryRun, k.seen) \in Requests
    BY <1>2, <2>3, AsksType
  <2>5. QED
    BY <2>1, <2>2, <2>4, Zenon DEF AskIs
<1>7. Told' = Told
  BY <1>1, ToldStays
<1>8. CASE /\ Book!Moves(offers[k.id].seller, k.who, k.tokens) /\ sold' = [sold EXCEPT ![k.id] = @ + k.tokens]
           /\ job' = [job EXCEPT ![c].at = "fill"]
  <2>1. /\ held' \in [Owners -> Nat] /\ \A x \in Owners : x # offers[k.id].seller => held'[x] >= held[x]
        /\ held'[offers[k.id].seller] = held[offers[k.id].seller] - k.tokens
    BY <1>2, <1>3, <1>5, <1>8, MovesEffect
  <2>2. sold' \in [Book!Ids -> Nat] /\ \A j \in Book!Ids : sold'[j] = sold[j] + (IF j = k.id THEN k.tokens ELSE 0)
    BY <1>2, <1>4, <1>8, BookKinds
  <2>3. AskIs(c, Asks("fill", k.id, k.who, k.tokens, k.dryRun, k.seen))
    BY <1>6, <1>8
  <2>4. QED
    BY <1>1, <1>2, <1>3, <1>4, <1>7, <2>1, <2>2, <2>3, Zenon
<1>9. CASE job' = [job EXCEPT ![c].at = "restore"] /\ UNCHANGED <<held, sold>>
  <2>1. AskIs(c, Asks("restore", k.id, k.who, k.tokens, k.dryRun, k.seen))
    BY <1>6, <1>9
  <2>2. QED
    BY <1>1, <1>2, <1>3, <1>4, <1>7, <1>9, <2>1, Zenon
<1>10. QED
  BY <1>1, <1>8, <1>9, Zenon
-----------------------------------------------------------------------------
(* The offers: a take that failed or was filled, a trade, a restart *)

LEMMA TakenBy ==
    ASSUME Book!BookConstants, BookTypes, NEW c \in Clients, NEW k, k = job[c], Asked(k), k.at \in Taking, NEW o, o = offers[k.id]
    PROVE  /\ k \in Requests /\ k.tokens \in Nat /\ k.tokens > 0 /\ k.id \in Book!Ids /\ k.id \in 1..seq /\ k.who # o.seller
           /\ o \in OfferState /\ o.seller \in Owners /\ o.total \in Nat /\ o.remaining \in Nat /\ o.status \in Book!Statuses
<1>1. k \in Requests /\ k.tokens \in Nat
  BY AskKinds
<1>2. k.tokens > 0 /\ k.id \in 1..seq /\ k.who # o.seller
  BY DEF Asked
<1>3. k.id \in Book!Ids
  BY <1>2, BookSets, BookKinds
<1>4. o \in OfferState
  BY <1>3, BookKinds
<1>5. QED
  BY <1>1, <1>2, <1>3, <1>4, EachOffer

Reopens(x) == IF x = "FILLED" THEN "OPEN" ELSE x
LEMMA ReopensTo ==
    ASSUME NEW x \in Book!Statuses
    PROVE  /\ Reopens(x) \in Book!Statuses /\ Reopens(x) # "FILLED"
           /\ Reopens(x) = "NONE" => x = "NONE"
           /\ x # "FILLED" => Reopens(x) = x
BY DEF Reopens, Book!Statuses
LEMMA RestoredIs ==
    ASSUME NEW o \in OfferState, NEW n \in Nat
    PROVE  Book!Restored(o, n) = Offer(o.seller, o.total, o.remaining + n, Reopens(o.status))
<1>1. Book!Restored(o, n) = [o EXCEPT !.remaining = o.remaining + n, !.status = Reopens(o.status)]
  BY Zenon DEF Book!Restored, Reopens
<1>2. [o EXCEPT !.remaining = o.remaining + n] = Offer(o.seller, o.total, o.remaining + n, o.status)
  BY LeavesOver
<1>3. [Offer(o.seller, o.total, o.remaining + n, o.status) EXCEPT !.status = Reopens(o.status)]
      = Offer(o.seller, o.total, o.remaining + n, Reopens(o.status))
  BY SetStatus
<1>4. QED
  BY <1>1, <1>2, <1>3, Zenon

LEMMA RestoreEffect ==
    ASSUME Book!BookConstants, BookTypes, NEW c \in Clients, Book!Restore(c), NEW k, k = job[c], Asked(k),
           NEW o, o = offers[k.id]
    PROVE  /\ k.at = "restore" /\ AskIs(c, NoAsk) /\ Told' = Told
           /\ OfferIs(k.id, Offer(o.seller, o.total, o.remaining + k.tokens, Reopens(o.status)))
           /\ UNCHANGED <<seq, chain, held, sold, withdrawn, overlapped, trades, crashes>>
<1>1. /\ k.at = "restore" /\ job' = [job EXCEPT ![c] = Book!Idle]
      /\ UNCHANGED <<seq, chain, held, sold, withdrawn, overlapped, trades, crashes>>
  BY Zenon DEF Book!Restore, Book!Finish, Book!history, Book!budget, Book!reqs
<1>2. offers' = [offers EXCEPT ![k.id] = Book!Restored(@, k.tokens)]
  BY DEF Book!Restore
<1>3. /\ k.tokens \in Nat /\ k.id \in Book!Ids
      /\ o \in OfferState /\ o.seller \in Owners /\ o.total \in Nat /\ o.remaining \in Nat /\ o.status \in Book!Statuses
  BY <1>1, TakenBy DEF Taking
<1>4. offers' = [offers EXCEPT ![k.id] = Book!Restored(o, k.tokens)]
  BY <1>2, <1>3, BookKinds
<1>5. OfferIs(k.id, Offer(o.seller, o.total, o.remaining + k.tokens, Reopens(o.status)))
  <2>1. Book!Restored(o, k.tokens) = Offer(o.seller, o.total, o.remaining + k.tokens, Reopens(o.status))
    BY <1>3, RestoredIs
  <2>2. o.remaining + k.tokens \in Nat /\ Reopens(o.status) \in Book!Statuses
    BY <1>3, ReopensTo
  <2>3. Offer(o.seller, o.total, o.remaining + k.tokens, Reopens(o.status)) \in OfferState
    BY <1>3, <2>2, OfferType
  <2>4. QED
    BY <1>3, <1>4, <2>1, <2>3, Zenon DEF OfferIs
<1>6. AskIs(c, NoAsk)
  BY <1>1, IdleIsNoAsk, NoAskType, Zenon DEF AskIs
<1>7. QED
  BY <1>1, <1>5, <1>6, ToldStays

Closes(n, x) == IF n = 0 THEN "FILLED" ELSE x
LEMMA ClosesTo ==
    ASSUME NEW n \in Nat, NEW x \in Book!Statuses
    PROVE  /\ Closes(n, x) \in Book!Statuses
           /\ Closes(n, x) = "NONE" => x = "NONE"
           /\ n = 0 => Closes(n, x) = "FILLED"
           /\ n # 0 => Closes(n, x) = x
BY DEF Closes, Book!Statuses
LEMMA FilledIs ==
    ASSUME NEW o \in OfferState PROVE Book!Filled(o) = Offer(o.seller, o.total, o.remaining, Closes(o.remaining, o.status))
<1>1. o = Offer(o.seller, o.total, o.remaining, o.status)
  BY EachOffer
<1>2. [o EXCEPT !.status = "FILLED"] = Offer(o.seller, o.total, o.remaining, "FILLED")
  BY TurnsTo
<1>3. QED
  BY <1>1, <1>2, Zenon DEF Book!Filled, Closes

LEMMA FillEffect ==
    ASSUME Book!BookConstants, BookTypes, NEW c \in Clients, Book!Fill(c), NEW k, k = job[c], Asked(k),
           NEW o, o = offers[k.id], NEW t, t = Told[k.id]
    PROVE  /\ k.at = "fill" /\ AskIs(c, NoAsk) /\ t \in OfferState
           /\ OfferIs(k.id, Offer(o.seller, o.total, o.remaining, Closes(o.remaining, o.status)))
           /\ ToldIs(k.id, Offer(t.seller, t.total, o.remaining, Closes(o.remaining, o.status)))
           /\ ChainIs(seq) /\ UNCHANGED <<seq, held, sold, withdrawn, overlapped, trades, crashes>>
<1>1. /\ k.at = "fill" /\ job' = [job EXCEPT ![c] = Book!Idle]
      /\ chain' = Append(chain, Book!Block("TAKEN", k.id, offers'[k.id]))
      /\ UNCHANGED <<seq, held, sold, withdrawn, overlapped, trades, crashes>>
  BY Zenon DEF Book!Fill, Book!Finish, Book!history, Book!budget, Book!reqs
<1>2. offers' = [offers EXCEPT ![k.id] = Book!Filled(@)]
  BY DEF Book!Fill
<1>3. /\ k.id \in Book!Ids /\ k.id \in 1..seq
      /\ o \in OfferState /\ o.seller \in Owners /\ o.total \in Nat /\ o.remaining \in Nat /\ o.status \in Book!Statuses
  BY <1>1, TakenBy DEF Taking
<1>4. DEFINE p == Offer(o.seller, o.total, o.remaining, Closes(o.remaining, o.status))
<1>5. p \in OfferState
  BY <1>3, ClosesTo, OfferType
<1>6. p.remaining = o.remaining /\ p.status = Closes(o.remaining, o.status)
  BY OfferFields
<1>7. Book!Filled(o) = p
  BY <1>3, FilledIs
<1> HIDE DEF p
<1>8. offers' = [offers EXCEPT ![k.id] = p] /\ offers'[k.id] = p
  BY <1>2, <1>3, <1>7, BookKinds
<1>9. chain' = Append(chain, BlockOf("TAKEN", k.id, p))
  BY <1>1, <1>8, BlockIsOf, Zenon
<1>10. ToldIs(k.id, Offer(t.seller, t.total, o.remaining, Closes(o.remaining, o.status)))
  <2>1. ToldIs(k.id, Offer(t.seller, t.total, p.remaining, p.status))
    BY <1>3, <1>5, <1>9, TakenTold
  <2>2. QED
    BY <1>6, <2>1, Zenon
<1>11. ChainIs(seq)
  <2>1. BlockOf("TAKEN", k.id, p) \in Blocks
    BY <1>3, <1>5, BlockType
  <2>2. BlockOf("TAKEN", k.id, p).id = k.id
    BY BlockFields
  <2>3. seq <= seq /\ seq \in Nat
    BY BookKinds, BookSets
  <2>4. QED
    BY <1>3, <1>9, <2>1, <2>2, <2>3, BlocksGrow
<1>12. OfferIs(k.id, Offer(o.seller, o.total, o.remaining, Closes(o.remaining, o.status)))
  BY <1>3, <1>5, <1>8, Zenon DEF OfferIs, p
<1>13. AskIs(c, NoAsk) /\ t \in OfferState
  BY <1>1, <1>3, IdleIsNoAsk, NoAskType, BookKinds DEF AskIs
<1>14. QED
  BY <1>1, <1>10, <1>11, <1>12, <1>13

LEMMA TradeEffect ==
    ASSUME Book!BookConstants, BookTypes, NEW g \in Owners, NEW h \in Owners, NEW n \in 1..Supply, Book!Trade(g, h, n)
    PROVE  /\ held' \in [Owners -> Nat] /\ trades' \in Nat /\ trades' # 0 /\ Told' = Told
           /\ UNCHANGED <<offers, seq, chain, job, sold, withdrawn, overlapped, crashes>>
<1>1. /\ trades' = trades + 1 /\ Book!Moves(g, h, n)
      /\ UNCHANGED <<offers, seq, chain, job, sold, withdrawn, overlapped, crashes>>
  BY Zenon DEF Book!Trade, Book!book, Book!history, Book!reqs
<1>2. trades \in Nat /\ n \in Nat
  BY BookKinds
<1>3. QED
  BY <1>1, <1>2, MovesEffect, ToldStays

LEMMA GreatestGiven ==
    ASSUME NEW n \in Nat, NEW S, S = {0} \cup 1..n PROVE Book!Max(S) = n
<1>1. n \in S /\ \A y \in S : n >= y
  OBVIOUS
<1>2. \A x \in S : (\A y \in S : x >= y) => x = n
  BY <1>1
<1>3. QED
  BY <1>1, <1>2, Zenon DEF Book!Max

LEMMA RestartEffect ==
    ASSUME Book!BookConstants, BookTypes, AllGiven, Book!Restart
    PROVE  /\ offers' = Told /\ Told' = Told /\ job' = [c \in Clients |-> NoAsk]
           /\ crashes' \in Nat /\ crashes' # 0
           /\ UNCHANGED <<seq, chain, held, sold, withdrawn, overlapped, trades>>
<1>1. /\ offers' = Told /\ seq' = Book!Max({0} \cup {j \in Book!Ids : Told[j] # Book!NoOffer})
      /\ job' = [c \in Clients |-> Book!Idle] /\ crashes' = crashes + 1
      /\ UNCHANGED <<chain, held, sold, withdrawn, overlapped, trades>>
  BY Zenon DEF Book!Restart, Told, Book!history, Book!reqs
<1>2. seq \in 0..MaxOffers /\ seq \in Nat /\ crashes \in Nat
  BY BookKinds, BookSets
<1>3. {j \in Book!Ids : Told[j] # Book!NoOffer} = 1..seq
  <2>1. Book!Ids = 1..MaxOffers /\ MaxOffers \in Nat
    BY BookSets
  <2>2. ASSUME NEW j \in Book!Ids PROVE Told[j] # Book!NoOffer <=> j <= seq
    <3>1. Book!NoOffer.status = "NONE"
      BY DEF Book!NoOffer
    <3>2. QED
      BY <3>1, Zenon DEF AllGiven, GivenOut
  <2>3. QED
    BY <1>2, <2>1, <2>2
<1>4. seq' = seq
  <2>1. Book!Max({0} \cup 1..seq) = seq
    BY <1>2, GreatestGiven
  <2>2. QED
    BY <1>1, <1>3, <2>1, Zenon
<1>5. crashes' \in Nat /\ crashes' # 0
  BY <1>1, <1>2
<1>6. QED
  BY <1>1, <1>4, <1>5, IdleIsNoAsk, ToldStays, Zenon
-----------------------------------------------------------------------------
(* The offers: what a holder has on offer, and what the takes hold, as sums *)

Share(o, h) == IF o.status = "OPEN" /\ o.seller = h THEN o.remaining ELSE 0
OnSale(h) == [j \in Book!Ids |-> Share(offers[j], h)]
OpenOf(h) == {j \in Book!Ids : offers[j].status = "OPEN" /\ offers[j].seller = h}
LEMMA ShareType == ASSUME NEW o \in OfferState, NEW h PROVE Share(o, h) \in Nat
BY EachOffer DEF Share

OfferSums(S, F) == F = [s \in SUBSET S |-> IF s = {} THEN 0 ELSE offers[Pick(s)].remaining + F[s \ {Pick(s)}]]
LEMMA CommittedIsFold == \A x : Book!Committed(x) = (CHOOSE F : OfferSums(OpenOf(x), F))[OpenOf(x)]
BY Zenon DEF Book!Committed, Book!MapThenSumSet, Book!MapThenFoldSet, OfferSums, OpenOf, Pick

LEMMA CommittedIsTotal ==
    Book!BookConstants /\ BookTypes => \A x \in Owners : Book!Committed(x) = Total(OnSale(x), Book!Ids)
<1>1. SUFFICES ASSUME Book!BookConstants, BookTypes, NEW h \in Owners PROVE Book!Committed(h) = Total(OnSale(h), Book!Ids)
  OBVIOUS
<1>2. DEFINE S == OpenOf(h)
             f == [j \in Book!Ids |-> offers[j].remaining]
<1>3. IsFiniteSet(Book!Ids) /\ S \in SUBSET Book!Ids /\ IsFiniteSet(S)
  <2>1. S \in SUBSET Book!Ids
    BY DEF OpenOf
  <2>2. QED
    BY <1>1, <2>1, BookSets, FS_Subset
<1>4. \A x \in S : f[x] = offers[x].remaining
  BY <1>3
<1>5. ASSUME NEW F PROVE OfferSums(S, F) <=> Sums(f, S, F)
  <2>1. ASSUME NEW s \in SUBSET S
        PROVE  (IF s = {} THEN 0 ELSE offers[Pick(s)].remaining + F[s \ {Pick(s)}])
               = (IF s = {} THEN 0 ELSE f[Pick(s)] + F[s \ {Pick(s)}])
    <3>1. CASE s = {}
      BY <3>1
    <3>2. CASE s # {}
      <4>1. Pick(s) \in S
        BY <3>2, PickIsIn
      <4>2. QED
        BY <1>4, <4>1
    <3>3. QED
      BY <3>1, <3>2
  <2>2. [s \in SUBSET S |-> IF s = {} THEN 0 ELSE offers[Pick(s)].remaining + F[s \ {Pick(s)}]]
        = [s \in SUBSET S |-> IF s = {} THEN 0 ELSE f[Pick(s)] + F[s \ {Pick(s)}]]
    BY <2>1, Zenon
  <2>3. QED
    BY <2>2, Zenon DEF OfferSums, Sums, Adds
<1> HIDE DEF S, f
<1>6. PICK G : Sums(f, S, G)
  BY <1>3, AddsExists
<1>7. DEFINE F == CHOOSE F : OfferSums(S, F)
<1>8. OfferSums(S, F)
  BY <1>5, <1>6, Zenon
<1>9. Sums(f, S, F) /\ Book!Committed(h) = F[S]
  BY <1>5, <1>8, CommittedIsFold, Zenon DEF S
<1> HIDE DEF F
<1>10. Book!Committed(h) = Total(f, S)
  BY <1>3, <1>9, PartOfFold
<1>11. Total(f, S) = Total(OnSale(h), S)
  <2>1. Alike(f, OnSale(h), S)
    BY <1>3 DEF Alike, OnSale, Share, OpenOf, f, S
  <2>2. QED
    BY <1>3, <2>1, SameTotal
<1>12. Total(OnSale(h), Book!Ids) = Total(OnSale(h), S)
  <2>1. \A x \in Book!Ids : OnSale(h)[x] \in Int
    <3>1. ASSUME NEW x \in Book!Ids PROVE OnSale(h)[x] \in Int
      <4>1. Share(offers[x], h) \in Nat
        BY <1>1, BookKinds, ShareType
      <4>2. QED
        BY <4>1 DEF OnSale
    <3>2. QED
      BY <3>1
  <2>2. \A x \in Book!Ids \ S : OnSale(h)[x] = 0
    BY DEF OnSale, Share, OpenOf, S
  <2>3. QED
    BY <1>3, <2>1, <2>2, WiderTotal
<1>13. QED
  BY <1>10, <1>11, <1>12

SumsUp == Book!BookConstants /\ BookTypes => \A x \in Owners : Book!Committed(x) = Total(OnSale(x), Book!Ids)
LEMMA CommittedSumsUp == SumsUp
BY CommittedIsTotal, Zenon DEF SumsUp

LEMMA CommittedType ==
    ASSUME Book!BookConstants, BookTypes, NEW h \in Owners PROVE Book!Committed(h) \in Nat
<1>1. ASSUME NEW x \in Book!Ids PROVE OnSale(h)[x] \in Nat
  <2>1. Share(offers[x], h) \in Nat
    BY BookKinds, ShareType
  <2>2. QED
    BY <2>1 DEF OnSale
<1>2. Total(OnSale(h), Book!Ids) \in Nat
  BY <1>1, BookSets, TotalType
<1>3. QED
  BY <1>2, CommittedIsTotal

LEMMA CommittedChanges ==
    ASSUME Book!BookConstants, BookTypes, BookTypes', NEW i, NEW o, OfferIs(i, o), NEW h \in Owners
    PROVE  Book!Committed(h)' = Book!Committed(h) + Share(o, h) - Share(offers[i], h)
<1>1. /\ i \in Book!Ids /\ o \in OfferState /\ offers' \in [Book!Ids -> OfferState]
      /\ \A j \in Book!Ids : offers'[j] = IF j = i THEN o ELSE offers[j]
  BY BookKinds, OffersBecome
<1>2. SumsUp'
  BY CommittedSumsUp, PTL
<1>3. Book!BookConstants'
  BY DEF Book!BookConstants
<1>4. Book!Committed(h)' = Total(OnSale(h)', Book!Ids)
  BY <1>2, <1>3 DEF SumsUp
<1>5. Book!Committed(h) = Total(OnSale(h), Book!Ids)
  BY CommittedIsTotal
<1>6. SUFFICES ASSUME NEW f, f = OnSale(h), NEW g, g = OnSale(h)'
               PROVE  Total(g, Book!Ids) = Total(f, Book!Ids) + Share(o, h) - Share(offers[i], h)
  BY <1>4, <1>5
<1>7. \A j \in Book!Ids : f[j] = Share(offers[j], h) /\ g[j] = Share(offers'[j], h)
  BY <1>6, Zenon DEF OnSale
<1>8. \A j \in Book!Ids : f[j] \in Int /\ g[j] \in Int
  <2>1. ASSUME NEW j \in Book!Ids PROVE Share(offers[j], h) \in Nat /\ Share(offers'[j], h) \in Nat
    BY <1>1, BookKinds, ShareType
  <2>2. QED
    BY <1>7, <2>1
<1>9. Alike(f, g, Book!Ids \ {i}) /\ g[i] = Share(o, h) /\ f[i] = Share(offers[i], h)
  BY <1>1, <1>7 DEF Alike
<1>10. Total(g, Book!Ids) = Total(f, Book!Ids) + g[i] - f[i]
  BY <1>1, <1>8, <1>9, BookSets, ChangedTotal
<1>11. QED
  BY <1>9, <1>10

LEMMA CommittedStays ==
    ASSUME UNCHANGED offers, NEW h PROVE Book!Committed(h)' = Book!Committed(h)
<1>1. OpenOf(h)' = OpenOf(h)
  BY Zenon DEF OpenOf
<1>2. (\A x : Book!Committed(x) = (CHOOSE F : OfferSums(OpenOf(x), F))[OpenOf(x)])'
  BY CommittedIsFold, PTL
<1>3. QED
  BY <1>1, <1>2, CommittedIsFold, Zenon DEF OfferSums

HeldBy(j) == [c \in Clients |-> TakenUp(job[c], j)]
LEMMA HoldsType == ASSUME Book!BookConstants, NEW k \in Requests, NEW j PROVE TakenUp(k, j) \in Nat
BY EachAsks DEF TakenUp
LEMMA HeldType ==
    ASSUME Book!BookConstants, BookTypes, NEW j PROVE AllHeld(j) \in Nat /\ AllHeld(j) = Total(HeldBy(j), Clients)
<1>1. ASSUME NEW x \in Clients PROVE HeldBy(j)[x] \in Nat
  <2>1. TakenUp(job[x], j) \in Nat
    BY BookKinds, HoldsType
  <2>2. QED
    BY <2>1 DEF HeldBy
<1>2. Total(HeldBy(j), Clients) \in Nat
  BY <1>1, BookSets, TotalType
<1>3. QED
  BY <1>2 DEF AllHeld, HeldBy
LEMMA HeldChanges ==
    ASSUME Book!BookConstants, BookTypes, NEW c, NEW k, AskIs(c, k), NEW j
    PROVE  AllHeld(j)' = AllHeld(j) + TakenUp(k, j) - TakenUp(job[c], j)
<1>1. c \in Clients /\ k \in Requests /\ job' \in [Clients -> Requests]
      /\ \A d \in Clients : job'[d] = IF d = c THEN k ELSE job[d]
  BY BookKinds, AsksBecome
<1>2. SUFFICES ASSUME NEW f, f = HeldBy(j), NEW g, g = HeldBy(j)'
               PROVE  Total(g, Clients) = Total(f, Clients) + TakenUp(k, j) - TakenUp(job[c], j)
  BY Zenon DEF AllHeld, HeldBy
<1>3. \A d \in Clients : f[d] = TakenUp(job[d], j) /\ g[d] = TakenUp(job'[d], j)
  BY <1>2, Zenon DEF HeldBy
<1>4. \A d \in Clients : f[d] \in Int /\ g[d] \in Int
  <2>1. ASSUME NEW d \in Clients PROVE TakenUp(job[d], j) \in Nat /\ TakenUp(job'[d], j) \in Nat
    BY <1>1, BookKinds, HoldsType
  <2>2. QED
    BY <1>3, <2>1
<1>5. Alike(f, g, Clients \ {c}) /\ g[c] = TakenUp(k, j) /\ f[c] = TakenUp(job[c], j)
  BY <1>1, <1>3 DEF Alike
<1>6. Total(g, Clients) = Total(f, Clients) + g[c] - f[c]
  BY <1>1, <1>4, <1>5, BookSets, ChangedTotal
<1>7. QED
  BY <1>5, <1>6

LEMMA HeldStays == ASSUME UNCHANGED job, NEW j PROVE AllHeld(j)' = AllHeld(j)
BY Zenon DEF AllHeld

\* Nothing is held of an offer that nobody is taking.
LEMMA NothingHeld ==
    ASSUME Book!BookConstants, BookTypes, NEW j, Book!Quiet(j) PROVE AllHeld(j) = 0
<1>1. ASSUME NEW x \in Clients PROVE HeldBy(j)[x] = 0
  BY DEF HeldBy, TakenUp, Book!Quiet, Book!Touches
<1>2. Total(HeldBy(j), Clients) = 0 * Cardinality(Clients)
  BY <1>1, BookSets, ConstantTotal
<1>3. Cardinality(Clients) \in Nat
  BY BookSets, FS_CardinalityType
<1>4. QED
  BY <1>2, <1>3, HeldType
-----------------------------------------------------------------------------
(* The offers: what does not change where a step does nothing *)

\* An offer given out keeps its number and its seller.
SellersStay == \A j \in 1..seq : j \in 1..seq' /\ offers'[j].seller = offers[j].seller

LEMMA TypesNext ==
    ASSUME offers' \in [Book!Ids -> OfferState], Told' \in [Book!Ids -> OfferState],
           seq' \in 0..MaxOffers, held' \in [Owners -> Nat], ChainIs(seq'),
           job' \in [Clients -> Requests], sold' \in [Book!Ids -> Nat], withdrawn' \subseteq 1..seq',
           overlapped' \in BOOLEAN, crashes' \in Nat, trades' \in Nat
    PROVE  BookTypes'
BY DEF BookTypes, ChainIs
LEMMA ChainStays ==
    ASSUME BookTypes, UNCHANGED <<chain, seq>> PROVE ChainIs(seq') /\ ChainIs(seq)
BY BookKinds DEF ChainIs

LEMMA GivenNext ==
    ASSUME Book!BookConstants, BookTypes, AllGiven, NEW i \in 1..seq',
           seq' = seq \/ (seq' = seq + 1 /\ i = seq + 1),
           \A j \in Book!Ids : j # i => offers'[j] = offers[j] /\ Told'[j] = Told[j],
           offers'[i].status # "NONE", Told'[i].status # "NONE"
    PROVE  AllGiven'
<1>1. seq \in Nat /\ \A j \in Book!Ids : j \in Nat
  BY BookSets, BookKinds
<1>2. ASSUME NEW j \in Book!Ids PROVE GivenOut(j, offers[j], Told[j])'
  <2>1. CASE j = i
    <3>1. j <= seq'
      BY <2>1
    <3>2. QED
      BY <2>1, <3>1 DEF GivenOut
  <2>2. CASE j # i
    <3>1. GivenOut(j, offers[j], Told[j]) /\ offers'[j] = offers[j] /\ Told'[j] = Told[j]
      BY <2>2 DEF AllGiven
    <3>2. j <= seq' <=> j <= seq
      BY <1>1, <2>2
    <3>3. QED
      BY <3>1, <3>2 DEF GivenOut
  <2>3. QED
    BY <2>1, <2>2
<1>3. QED
  BY <1>2 DEF AllGiven
LEMMA GivenStays == ASSUME AllGiven, Told' = Told, UNCHANGED <<offers, seq>> PROVE AllGiven' /\ SellersStay
BY DEF AllGiven, GivenOut, SellersStay

LEMMA AskedNext ==
    ASSUME AllAsked, SellersStay, \A d \in Clients : job'[d] = job[d] \/ Asked(job[d])'
    PROVE  AllAsked'
<1>1. SUFFICES ASSUME NEW d \in Clients, job'[d] = job[d] PROVE Asked(job[d])'
  BY Zenon DEF AllAsked
<1>2. Asked(job[d])
  BY DEF AllAsked
<1>3. QED
  BY <1>1, <1>2 DEF Asked, SellersStay, Taking
LEMMA NothingAsked == ASSUME Book!BookConstants, NEW d, job'[d] = NoAsk PROVE Asked(job[d])'
BY NoAskType DEF Asked, Taking

\* A request is of an offer.
About(r, j) == r.at \in Taking /\ r.id = j
LEMMA TouchesIs == ASSUME NEW b, NEW j PROVE Book!Touches(b, j) <=> About(job[b], j)
BY DEF Book!Touches, About, Taking
LEMMA TouchesIsNext == ASSUME NEW b, NEW j PROVE Book!Touches(b, j)' <=> About(job'[b], j)
BY DEF Book!Touches, About, Taking
LEMMA QuietIs == ASSUME NEW j PROVE Book!Quiet(j) <=> \A b \in Clients : ~About(job[b], j)
BY TouchesIs, Zenon DEF Book!Quiet
LEMMA QuietIsNext == ASSUME NEW j PROVE Book!Quiet(j)' <=> \A b \in Clients : ~About(job'[b], j)
BY TouchesIsNext, Zenon DEF Book!Quiet
LEMMA QuietWhenSame ==
    ASSUME NEW j, \A b \in Clients : About(job'[b], j) <=> About(job[b], j) PROVE Book!Quiet(j)' <=> Book!Quiet(j)
BY QuietIs, QuietIsNext, Zenon

LEMMA CountedSame ==
    ASSUME NEW j, Counted(j), offers'[j] = offers[j], sold'[j] = sold[j], AllHeld(j)' = AllHeld(j),
           Book!Quiet(j)' => Book!Quiet(j)
    PROVE  Counted(j)'
BY DEF Counted
LEMMA AgreedSame ==
    ASSUME NEW j, Agreed(j), offers'[j] = offers[j], Told'[j] = Told[j], \A b \in Clients : About(job[b], j) <=> About(job'[b], j),
           \A b \in Clients : job'[b].tokens = job[b].tokens \/ ~About(job'[b], j)
    PROVE  Agreed(j)'
<1>1. Book!Quiet(j)' <=> Book!Quiet(j)
  BY QuietWhenSame
<1>2. ASSUME NEW b \in Clients, Book!Touches(b, j)' PROVE Before(job[b], offers[j], Told[j])'
  <2>1. About(job'[b], j) /\ About(job[b], j)
    BY <1>2, TouchesIsNext
  <2>2. Book!Touches(b, j) /\ job'[b].tokens = job[b].tokens
    BY <2>1, TouchesIs
  <2>3. Before(job[b], offers[j], Told[j])
    BY <2>2 DEF Agreed
  <2>4. QED
    BY <2>2, <2>3 DEF Before
<1>3. QED
  BY <1>1, <1>2 DEF Agreed

\* Who is being served, when requests come one at a time.
OthersIdle(c) == \A b \in Clients : b # c => job[b].at = "idle" /\ job'[b].at = "idle" /\ job'[b] = job[b]
LEMMA OnlyThisOne ==
    ASSUME BookTypes, NEW c, NEW k, AskIs(c, k), AllFree \/ (OneRequest /\ job[c].at # "idle")
    PROVE  OneRequest' /\ OthersIdle(c)
<1>1. /\ c \in Clients
      /\ \A d \in Clients : job'[d] = IF d = c THEN k ELSE job[d]
  BY BookKinds, AsksBecome
<1>2. \A b \in Clients : b # c => job[b].at = "idle"
  BY <1>1 DEF AllFree, OneRequest
<1>3. \A b \in Clients : b # c => job'[b].at = "idle" /\ job'[b] = job[b]
  BY <1>1, <1>2
<1>4. QED
  BY <1>2, <1>3, Zenon DEF OneRequest, OthersIdle

LEMMA IdleCovered == ASSUME NEW r, r.at = "idle", NEW h PROVE CoveredBy(r, h)
BY DEF CoveredBy
LEMMA CoveredNext ==
    ASSUME NEW c, OthersIdle(c), NEW h, Book!Committed(h)' <= held'[h], CoveredBy(job[c], h)'
    PROVE  CoveredAll(h)'
<1>1. ASSUME NEW b \in Clients PROVE CoveredBy(job[b], h)'
  <2>1. CASE b = c
    BY <2>1
  <2>2. CASE b # c
    <3>1. job'[b].at = "idle"
      BY <2>2 DEF OthersIdle
    <3>2. QED
      BY <3>1 DEF CoveredBy
  <2>3. QED
    BY <2>1, <2>2
<1>2. QED
  BY <1>1, Zenon DEF CoveredAll

\* A request of which nothing is held.
LEMMA HeldOfNothing ==
    ASSUME NEW r, r.at \notin {"settle", "restore"}, NEW j PROVE TakenUp(r, j) = 0
BY DEF TakenUp
LEMMA HeldOfOthers == ASSUME NEW r, NEW j, r.id # j PROVE TakenUp(r, j) = 0
BY DEF TakenUp
LEMMA HeldOfIt == ASSUME NEW r, r.at \in {"settle", "restore"} PROVE TakenUp(r, r.id) = r.tokens
BY DEF TakenUp
LEMMA HeldSame ==
    ASSUME Book!BookConstants, BookTypes, NEW c, NEW k, AskIs(c, k), NEW j, TakenUp(k, j) = TakenUp(job[c], j)
    PROVE  AllHeld(j)' = AllHeld(j)
<1>1. AllHeld(j)' = AllHeld(j) + TakenUp(k, j) - TakenUp(job[c], j) /\ AllHeld(j) \in Nat
  BY HeldChanges, HeldType
<1>2. c \in Clients /\ job[c] \in Requests
  BY BookKinds, AsksBecome
<1>3. TakenUp(job[c], j) \in Nat
  BY <1>2, HoldsType
<1>4. QED
  BY <1>1, <1>3
LEMMA AboutSame ==
    ASSUME BookTypes, NEW c, NEW k, AskIs(c, k), NEW j, About(k, j) <=> About(job[c], j)
    PROVE  \A b \in Clients : About(job[b], j) <=> About(job'[b], j)
<1>1. \A d \in Clients : job'[d] = IF d = c THEN k ELSE job[d]
  BY BookKinds, AsksBecome
<1>2. QED
  BY <1>1

LEMMA OpenGiven ==
    ASSUME Book!BookConstants, BookTypes, AllGiven, NEW i \in Book!Ids, offers[i].status # "NONE" PROVE i \in 1..seq
<1>1. Book!NoOffer.status = "NONE"
  BY DEF Book!NoOffer
<1>2. i <= seq
  BY <1>1, Zenon DEF AllGiven, GivenOut
<1>3. QED
  BY <1>2, BookSets, BookKinds

LEMMA KeepsCreate ==
    ASSUME Book!BookConstants, BookInv, NEW c \in Clients, NEW h \in Owners, NEW n \in 1..Supply, Book!CreateOffer(c, h, n)
    PROVE  BookInv'
<1>0. BookTypes /\ AllGiven /\ AllAsked /\ AllCounted /\ AllAgreed /\ AllCovered
  BY DEF BookInv
<1>1. SUFFICES ASSUME NEW k, k = Asks("list", 0, h, n, Wet, held[h]) PROVE BookInv'
  OBVIOUS
<1>2. /\ job[c].at = "idle" /\ n \in Nat /\ n > 0 /\ AskIs(c, k)
      /\ ~overlapped' => ~overlapped /\ AllFree
      /\ overlapped' \in BOOLEAN /\ Told' = Told
      /\ UNCHANGED <<offers, seq, chain, held, sold, withdrawn, trades, crashes>>
  BY <1>0, <1>1, CreateEffect
<1>3. k.at = "list" /\ k.who = h /\ k.tokens = n /\ k.seen = held[h]
  BY <1>1, AsksFields
<1>4. /\ job' \in [Clients -> Requests] /\ k \in Requests
      /\ \A d \in Clients : job'[d] = IF d = c THEN k ELSE job[d]
  BY <1>0, <1>2, BookKinds, AsksBecome
<1>5. BookTypes'
  <2>1. ChainIs(seq')
    BY <1>0, <1>2, ChainStays
  <2>2. QED
    BY <1>0, <1>2, <1>4, <2>1, BookKinds, TypesNext
<1>6. AllGiven' /\ SellersStay
  BY <1>0, <1>2, GivenStays
<1>7. AllAsked'
  <2>1. Asked(job[c])'
    BY <1>2, <1>3, <1>4 DEF Asked, Taking
  <2>2. QED
    BY <1>0, <1>4, <1>6, <2>1, AskedNext
<1>8. ASSUME NEW j PROVE /\ \A b \in Clients : About(job[b], j) <=> About(job'[b], j)
                         /\ AllHeld(j)' = AllHeld(j)
                         /\ Book!Quiet(j)' <=> Book!Quiet(j)
  <2>1. ~About(k, j) /\ ~About(job[c], j)
    BY <1>2, <1>3 DEF About, Taking
  <2>2. TakenUp(k, j) = TakenUp(job[c], j)
    BY <1>2, <1>3, HeldOfNothing
  <2>3. QED
    BY <1>0, <1>2, <2>1, <2>2, HeldSame, AboutSame, QuietWhenSame
<1>9. AllCounted'
  <2>1. ASSUME crashes' = 0, NEW j \in Book!Ids PROVE Counted(j)'
    <3>1. Counted(j)
      BY <1>0, <1>2, <2>1 DEF AllCounted
    <3>2. QED
      BY <1>2, <1>8, <3>1, CountedSame
  <2>2. QED
    BY <2>1 DEF AllCounted
<1>10. ~overlapped' => OneRequest' /\ OthersIdle(c)
  BY <1>0, <1>2, OnlyThisOne
<1>11. AllAgreed'
  <2>1. ASSUME ~overlapped', NEW j \in Book!Ids PROVE Agreed(j)'
    <3>1. Agreed(j)
      BY <1>0, <1>2, <2>1 DEF AllAgreed
    <3>2. \A b \in Clients : job'[b].tokens = job[b].tokens \/ ~About(job'[b], j)
      BY <1>3, <1>4 DEF About, Taking
    <3>3. QED
      BY <1>2, <1>8, <3>1, <3>2, AgreedSame
  <2>2. QED
    BY <1>10, <2>1 DEF AllAgreed
<1>12. AllCovered'
  <2>1. ASSUME ~overlapped' /\ trades' = 0 /\ crashes' = 0, NEW x \in Owners PROVE CoveredAll(x)'
    <3>1. CoveredAll(x)
      BY <1>0, <1>2, <2>1 DEF AllCovered
    <3>2. Book!Committed(x)' <= held'[x]
      BY <1>2, <3>1, CommittedStays DEF CoveredAll
    <3>3. CoveredBy(job[c], x)'
      BY <1>2, <1>3, <1>4 DEF CoveredBy
    <3>4. QED
      BY <1>10, <2>1, <3>2, <3>3, CoveredNext
  <2>2. QED
    BY <2>1 DEF AllCovered
<1>13. QED
  BY <1>5, <1>6, <1>7, <1>9, <1>11, <1>12 DEF BookInv
-----------------------------------------------------------------------------
(* The offers: a listing goes in, a take holds its units *)

LEMMA KeepsRegister ==
    ASSUME Book!BookConstants, BookInv, NEW c \in Clients, Book!Register(c) PROVE BookInv'
<1>0. BookTypes /\ AllGiven /\ AllAsked /\ AllCounted /\ AllAgreed /\ AllCovered
  BY DEF BookInv
<1>1. SUFFICES ASSUME NEW k, k = job[c], NEW o, o = Offer(k.who, k.tokens, k.tokens, "OPEN"), NEW i, i = seq + 1 PROVE BookInv'
  OBVIOUS
<1>2. /\ k \in Requests /\ k.at = "list" /\ k.tokens \in Nat /\ k.seen \in Nat /\ k.who \in Owners
      /\ AskIs(c, NoAsk) /\ UNCHANGED <<held, sold, withdrawn, overlapped, trades, crashes>>
      /\ \/ Told' = Told /\ UNCHANGED <<offers, seq, chain>>
         \/ /\ ~(k.seen < Book!Committed(k.who) + k.tokens)
            /\ i \in Book!Ids /\ seq' = i /\ ChainIs(i)
            /\ OfferIs(i, o) /\ ToldIs(i, o)
  BY <1>0, <1>1, RegisterEffect
<1>3. k.tokens > 0
  BY <1>0, <1>1, <1>2 DEF AllAsked, Asked
<1>4. /\ job' \in [Clients -> Requests] /\ NoAsk \in Requests /\ NoAsk.at = "idle"
      /\ \A d \in Clients : job'[d] = IF d = c THEN NoAsk ELSE job[d]
  BY <1>0, <1>2, BookKinds, AsksBecome, NoAskType
<1>5. Asked(job[c])'
  BY <1>4, NothingAsked
<1>6. ASSUME NEW j PROVE /\ \A b \in Clients : About(job[b], j) <=> About(job'[b], j)
                         /\ AllHeld(j)' = AllHeld(j)
                         /\ Book!Quiet(j)' <=> Book!Quiet(j)
                         /\ \A b \in Clients : job'[b].tokens = job[b].tokens \/ ~About(job'[b], j)
  <2>1. ~About(NoAsk, j) /\ ~About(job[c], j)
    BY <1>1, <1>2, <1>4 DEF About, Taking
  <2>2. TakenUp(NoAsk, j) = TakenUp(job[c], j)
    BY <1>1, <1>2, <1>4, HeldOfNothing
  <2>3. \A b \in Clients : About(job[b], j) <=> About(job'[b], j)
    BY <1>0, <1>2, <2>1, AboutSame
  <2>4. QED
    BY <1>0, <1>2, <1>4, <2>1, <2>2, <2>3, HeldSame, QuietWhenSame
<1>7. ~overlapped' => OneRequest /\ OneRequest' /\ OthersIdle(c)
  <2>1. ~overlapped' => OneRequest
    BY <1>0, <1>2 DEF AllAgreed
  <2>2. QED
    BY <1>0, <1>1, <1>2, <2>1, OnlyThisOne
<1>8. \A x \in Owners : CoveredBy(job[c], x)'
  BY <1>4 DEF CoveredBy
<1>9. seq \in Nat /\ seq \in 0..MaxOffers /\ MaxOffers \in Nat
  BY <1>0, BookSets, BookKinds
<1>10. CASE Told' = Told /\ UNCHANGED <<offers, seq, chain>>
  <2>1. BookTypes'
    <3>1. ChainIs(seq')
      BY <1>0, <1>10, ChainStays
    <3>2. QED
      BY <1>0, <1>2, <1>4, <1>10, <3>1, BookKinds, TypesNext
  <2>2. AllGiven' /\ SellersStay
    BY <1>0, <1>10, GivenStays
  <2>3. AllAsked'
    BY <1>0, <1>4, <1>5, <2>2, AskedNext
  <2>4. ASSUME crashes' = 0, NEW j \in Book!Ids PROVE Counted(j)'
    <3>1. Counted(j)
      BY <1>0, <1>2, <2>4 DEF AllCounted
    <3>2. QED
      BY <1>2, <1>6, <1>10, <3>1, CountedSame
  <2>5. ASSUME ~overlapped', NEW j \in Book!Ids PROVE Agreed(j)'
    <3>1. Agreed(j)
      BY <1>0, <1>2, <2>5 DEF AllAgreed
    <3>2. QED
      BY <1>6, <1>10, <3>1, AgreedSame
  <2>6. ASSUME ~overlapped' /\ trades' = 0 /\ crashes' = 0, NEW x \in Owners PROVE CoveredAll(x)'
    <3>1. CoveredAll(x)
      BY <1>0, <1>2, <2>6 DEF AllCovered
    <3>2. Book!Committed(x)' <= held'[x]
      BY <1>2, <1>10, <3>1, CommittedStays DEF CoveredAll
    <3>3. QED
      BY <1>7, <1>8, <2>6, <3>2, CoveredNext
  <2>7. QED
    BY <1>7, <2>1, <2>2, <2>3, <2>4, <2>5, <2>6 DEF BookInv, AllCounted, AllAgreed, AllCovered
<1>11. CASE /\ ~(k.seen < Book!Committed(k.who) + k.tokens)
            /\ i \in Book!Ids /\ seq' = i /\ ChainIs(i)
            /\ OfferIs(i, o) /\ ToldIs(i, o)
  <2>1. /\ o.seller = k.who /\ o.total = k.tokens /\ o.remaining = k.tokens /\ o.status = "OPEN"
    BY <1>1, OfferFields
  <2>2. /\ o \in OfferState /\ offers' \in [Book!Ids -> OfferState]
        /\ \A j \in Book!Ids : offers'[j] = IF j = i THEN o ELSE offers[j]
    BY <1>0, <1>11, BookKinds, OffersBecome
  <2>3. /\ Told' \in [Book!Ids -> OfferState]
        /\ \A j \in Book!Ids : Told'[j] = IF j = i THEN o ELSE Told[j]
    BY <1>0, <1>11, BookKinds, ToldBecomes
  <2>4. /\ seq' \in 0..MaxOffers /\ seq' = seq + 1 /\ i = seq + 1 /\ i \in 1..seq' /\ ~(i <= seq)
        /\ \A j \in 1..seq : j \in 1..seq' /\ j # i /\ j \in Book!Ids
    BY <1>1, <1>9, <1>11, BookSets
  <2>5. BookTypes'
    <3>1. withdrawn' \subseteq 1..seq'
      BY <1>0, <1>2, <2>4, BookKinds
    <3>2. QED
      BY <1>0, <1>2, <1>4, <1>11, <2>2, <2>3, <2>4, <3>1, BookKinds, TypesNext
  <2>6. AllGiven'
    BY <1>0, <1>11, <2>1, <2>2, <2>3, <2>4, GivenNext
  <2>7. SellersStay
    BY <2>2, <2>4 DEF SellersStay
  <2>8. AllAsked'
    BY <1>0, <1>4, <1>5, <2>7, AskedNext
  <2>9. offers[i] = Book!NoOffer
    BY <1>0, <1>11, <2>4, Zenon DEF AllGiven, GivenOut
  <2>10. Book!NoOffer.remaining = 0 /\ Book!NoOffer.total = 0 /\ Book!NoOffer.status = "NONE"
    BY DEF Book!NoOffer
  <2>11. ASSUME crashes' = 0, NEW j \in Book!Ids PROVE Counted(j)'
    <3>1. Counted(j)
      BY <1>0, <1>2, <2>11 DEF AllCounted
    <3>2. CASE j # i
      <4>1. offers'[j] = offers[j]
        BY <2>2, <3>2
      <4>2. QED
        BY <1>2, <1>6, <3>1, <4>1, CountedSame
    <3>3. CASE j = i
      <4>1. sold[i] \in Nat /\ AllHeld(i) \in Nat
        BY <1>0, <1>11, BookKinds, HeldType
      <4>2. sold[i] = 0 /\ AllHeld(i) = 0
        BY <2>9, <2>10, <3>1, <3>3, <4>1 DEF Counted
      <4>3. offers'[i] = o /\ sold'[i] = 0 /\ AllHeld(i)' = 0
        BY <1>2, <1>6, <1>11, <2>2, <4>2
      <4>4. QED
        BY <1>2, <1>3, <2>1, <3>3, <4>3 DEF Counted
    <3>4. QED
      BY <3>2, <3>3
  <2>12. ASSUME ~overlapped', NEW j \in Book!Ids PROVE Agreed(j)'
    <3>1. Agreed(j)
      BY <1>0, <1>2, <2>12 DEF AllAgreed
    <3>2. CASE j # i
      <4>1. offers'[j] = offers[j] /\ Told'[j] = Told[j]
        BY <2>2, <2>3, <3>2
      <4>2. QED
        BY <1>6, <3>1, <4>1, AgreedSame
    <3>3. CASE j = i
      <4>1. offers'[j] = Told'[j]
        BY <2>2, <2>3, <3>3
      <4>2. ASSUME NEW b \in Clients PROVE ~Book!Touches(b, j)'
        <5>1. ~About(job[b], i)
          BY <1>0, <2>4 DEF About, AllAsked, Asked
        <5>2. QED
          BY <1>6, <3>3, <5>1, TouchesIsNext
      <4>3. QED
        BY <4>1, <4>2 DEF Agreed
    <3>4. QED
      BY <3>2, <3>3
  <2>13. ASSUME ~overlapped' /\ trades' = 0 /\ crashes' = 0, NEW x \in Owners PROVE CoveredAll(x)'
    <3>1. CoveredAll(x)
      BY <1>0, <1>2, <2>13 DEF AllCovered
    <3>2. Book!Committed(x)' = Book!Committed(x) + Share(o, x) - Share(offers[i], x)
      BY <1>0, <1>11, <2>5, CommittedChanges
    <3>3. Share(offers[i], x) = 0
      BY <2>9, <2>10 DEF Share
    <3>4. Share(o, x) = IF k.who = x THEN k.tokens ELSE 0
      BY <2>1 DEF Share
    <3>5. Book!Committed(x) <= held[x] /\ (k.who = x => k.seen = held[x])
      BY <1>1, <1>2, <3>1 DEF CoveredAll, CoveredBy
    <3>6. Book!Committed(x) \in Nat /\ held[x] \in Nat
      BY <1>0, CommittedType, BookKinds
    <3>7. Book!Committed(x)' <= held'[x]
      <4>1. CASE k.who = x
        BY <1>2, <1>11, <3>2, <3>3, <3>4, <3>5, <3>6, <4>1
      <4>2. CASE k.who # x
        BY <1>2, <3>2, <3>3, <3>4, <3>5, <3>6, <4>2
      <4>3. QED
        BY <4>1, <4>2
    <3>8. QED
      BY <1>7, <1>8, <2>13, <3>7, CoveredNext
  <2>14. QED
    BY <1>7, <2>5, <2>6, <2>8, <2>11, <2>12, <2>13 DEF BookInv, AllCounted, AllAgreed, AllCovered
<1>12. QED
  BY <1>2, <1>10, <1>11

LEMMA KeepsTake ==
    ASSUME Book!BookConstants, BookInv, NEW c \in Clients, NEW i \in Book!Ids, NEW h \in Owners, NEW n \in 1..Supply,
           NEW d \in BOOLEAN, Book!Take(c, i, h, n, d)
    PROVE  BookInv'
<1>0. BookTypes /\ AllGiven /\ AllAsked /\ AllCounted /\ AllAgreed /\ AllCovered
  BY DEF BookInv
<1>1. SUFFICES ASSUME NEW o, o = offers[i], NEW p, p = Offer(o.seller, o.total, o.remaining - n, o.status),
                      NEW k, k = Asks("settle", i, h, n, d, 0)
               PROVE  BookInv'
  OBVIOUS
<1>2. /\ job[c].at = "idle" /\ n \in Nat /\ n > 0 /\ AskIs(c, k)
      /\ o \in OfferState /\ o.status = "OPEN" /\ o.seller # h /\ n <= o.remaining
      /\ OfferIs(i, p)
      /\ ~overlapped' => ~overlapped /\ AllFree
      /\ overlapped' \in BOOLEAN /\ Told' = Told
      /\ UNCHANGED <<seq, chain, held, sold, withdrawn, trades, crashes>>
  BY <1>0, <1>1, TakeEffect
<1>3. k.at = "settle" /\ k.id = i /\ k.who = h /\ k.tokens = n
  BY <1>1, AsksFields
<1>4. /\ job' \in [Clients -> Requests] /\ k \in Requests
      /\ \A b \in Clients : job'[b] = IF b = c THEN k ELSE job[b]
  BY <1>0, <1>2, BookKinds, AsksBecome
<1>5. /\ p.seller = o.seller /\ p.total = o.total /\ p.remaining = o.remaining - n /\ p.status = "OPEN"
  BY <1>1, <1>2, OfferFields
<1>6. /\ p \in OfferState /\ offers' \in [Book!Ids -> OfferState]
      /\ \A j \in Book!Ids : offers'[j] = IF j = i THEN p ELSE offers[j]
  BY <1>0, <1>2, BookKinds, OffersBecome
<1>7. o.remaining \in Nat /\ o.total \in Nat /\ o.seller \in Owners /\ seq \in Nat /\ seq \in 0..MaxOffers
  BY <1>0, <1>2, EachOffer, BookKinds, BookSets
<1>8. i \in 1..seq /\ Told[i].status # "NONE"
  <2>1. i \in 1..seq
    BY <1>0, <1>1, <1>2, OpenGiven
  <2>2. i <= seq
    BY <1>7, <2>1
  <2>3. QED
    BY <1>0, <2>1, <2>2, Zenon DEF AllGiven, GivenOut
<1>9. BookTypes'
  <2>1. ChainIs(seq')
    BY <1>0, <1>2, ChainStays
  <2>2. QED
    BY <1>0, <1>2, <1>4, <1>6, <2>1, BookKinds, TypesNext
<1>10. AllGiven'
  BY <1>0, <1>2, <1>5, <1>6, <1>8, GivenNext
<1>11. SellersStay
  <2>1. \A j \in 1..seq : j \in Book!Ids
    BY <1>7, BookSets
  <2>2. QED
    BY <1>1, <1>2, <1>5, <1>6, <2>1 DEF SellersStay
<1>12. AllAsked'
  <2>1. Asked(job[c])'
    BY <1>2, <1>3, <1>4, <1>5, <1>6, <1>8 DEF Asked, Taking
  <2>2. QED
    BY <1>0, <1>4, <1>11, <2>1, AskedNext
<1>13. ASSUME NEW j, j # i PROVE /\ \A b \in Clients : About(job[b], j) <=> About(job'[b], j)
                                 /\ AllHeld(j)' = AllHeld(j)
                                 /\ Book!Quiet(j)' <=> Book!Quiet(j)
                                 /\ \A b \in Clients : job'[b].tokens = job[b].tokens \/ ~About(job'[b], j)
  <2>1. ~About(k, j) /\ ~About(job[c], j)
    BY <1>2, <1>3, <1>13 DEF About, Taking
  <2>2. TakenUp(k, j) = 0 /\ TakenUp(job[c], j) = 0
    BY <1>2, <1>3, <1>13, HeldOfNothing, HeldOfOthers
  <2>3. \A b \in Clients : About(job[b], j) <=> About(job'[b], j)
    BY <1>0, <1>2, <2>1, AboutSame
  <2>4. QED
    BY <1>0, <1>2, <1>4, <2>1, <2>2, <2>3, HeldSame, QuietWhenSame
<1>14. AllHeld(i)' = AllHeld(i) + n /\ ~Book!Quiet(i)'
  <2>1. TakenUp(k, i) = n /\ TakenUp(job[c], i) = 0
    BY <1>2, <1>3, HeldOfIt, HeldOfNothing
  <2>2. AllHeld(i)' = AllHeld(i) + TakenUp(k, i) - TakenUp(job[c], i) /\ AllHeld(i) \in Nat
    BY <1>0, <1>2, HeldChanges, HeldType
  <2>3. About(job'[c], i)
    BY <1>3, <1>4 DEF About, Taking
  <2>4. QED
    BY <1>2, <2>1, <2>2, <2>3, QuietIsNext
<1>15. ASSUME crashes' = 0, NEW j \in Book!Ids PROVE Counted(j)'
  <2>1. Counted(j)
    BY <1>0, <1>2, <1>15 DEF AllCounted
  <2>2. CASE j # i
    <3>1. offers'[j] = offers[j]
      BY <1>6, <2>2
    <3>2. QED
      BY <1>2, <1>13, <2>1, <2>2, <3>1, CountedSame
  <2>3. CASE j = i
    <3>1. o.remaining + sold[i] + AllHeld(i) = o.total
      BY <1>1, <2>1, <2>3 DEF Counted
    <3>2. sold[i] \in Nat /\ AllHeld(i) \in Nat
      BY <1>0, BookKinds, HeldType
    <3>3. offers'[i] = p /\ sold'[i] = sold[i]
      BY <1>2, <1>6
    <3>4. p.remaining + sold[i] + AllHeld(i)' = p.total
      BY <1>2, <1>5, <1>7, <1>14, <3>1, <3>2
    <3>5. QED
      BY <1>5, <1>14, <2>3, <3>3, <3>4 DEF Counted
  <2>4. QED
    BY <2>2, <2>3
<1>16. ~overlapped' => ~overlapped /\ AllFree /\ OneRequest' /\ OthersIdle(c)
  BY <1>0, <1>2, OnlyThisOne
<1>17. ASSUME ~overlapped', NEW j \in Book!Ids PROVE Agreed(j)'
  <2>1. Agreed(j)
    BY <1>0, <1>2, <1>17 DEF AllAgreed
  <2>2. CASE j # i
    <3>1. offers'[j] = offers[j] /\ Told'[j] = Told[j]
      BY <1>2, <1>6, <2>2
    <3>2. QED
      BY <1>13, <2>1, <2>2, <3>1, AgreedSame
  <2>3. CASE j = i
    <3>1. o = Told[i]
      <4>1. Book!Quiet(i)
        BY <1>16, <1>17, QuietIs DEF AllFree, About, Taking
      <4>2. QED
        BY <1>1, <2>1, <2>3, <4>1 DEF Agreed
    <3>2. Told[i].remaining = (o.remaining - n) + n
      BY <1>2, <1>7, <3>1
    <3>3. ASSUME NEW b \in Clients, Book!Touches(b, j)' PROVE Before(job[b], offers[j], Told[j])'
      <4>1. b = c
        BY <1>16, <1>17, <3>3, TouchesIsNext DEF OthersIdle, About, Taking
      <4>2. job'[b] = k /\ offers'[j] = p /\ Told'[j] = Told[i]
        BY <1>2, <1>4, <1>6, <2>3, <4>1
      <4>3. QED
        BY <1>2, <1>3, <1>5, <3>1, <3>2, <4>2 DEF Before
    <3>4. QED
      BY <1>14, <2>3, <3>3 DEF Agreed
  <2>4. QED
    BY <2>2, <2>3
<1>18. ASSUME ~overlapped' /\ trades' = 0 /\ crashes' = 0, NEW x \in Owners PROVE CoveredAll(x)'
  <2>1. CoveredAll(x)
    BY <1>0, <1>2, <1>18 DEF AllCovered
  <2>2. Book!Committed(x)' = Book!Committed(x) + Share(p, x) - Share(o, x)
    BY <1>0, <1>1, <1>2, <1>9, CommittedChanges
  <2>3. Share(p, x) - Share(o, x) = IF o.seller = x THEN 0 - n ELSE 0
    <3>1. CASE o.seller = x
      <4>1. Share(p, x) = o.remaining - n /\ Share(o, x) = o.remaining
        BY <1>2, <1>5, <3>1 DEF Share
      <4>2. QED
        BY <1>2, <1>7, <3>1, <4>1
    <3>2. CASE o.seller # x
      <4>1. Share(p, x) = 0 /\ Share(o, x) = 0
        BY <1>2, <1>5, <3>2 DEF Share
      <4>2. QED
        BY <3>2, <4>1
    <3>3. QED
      BY <3>1, <3>2
  <2>4. Share(p, x) \in Nat /\ Share(o, x) \in Nat
    BY <1>2, <1>6, ShareType
  <2>5. Book!Committed(x) <= held[x] /\ Book!Committed(x) \in Nat /\ held[x] \in Nat
    BY <1>0, <2>1, CommittedType, BookKinds DEF CoveredAll
  <2>6. Book!Committed(x)' = Book!Committed(x) + (IF o.seller = x THEN 0 - n ELSE 0)
    BY <2>2, <2>3, <2>4, <2>5
  <2>7. Book!Committed(x)' <= held'[x] /\ (o.seller = x => Book!Committed(x)' + n <= held'[x])
    BY <1>2, <2>5, <2>6
  <2>8. CoveredBy(job[c], x)'
    <3>1. job'[c] = k /\ offers'[k.id].seller = o.seller
      BY <1>3, <1>4, <1>5, <1>6
    <3>2. QED
      BY <1>3, <2>7, <3>1 DEF CoveredBy
  <2>9. QED
    BY <1>16, <1>18, <2>7, <2>8, CoveredNext
<1>19. QED
  BY <1>9, <1>10, <1>12, <1>15, <1>16, <1>17, <1>18 DEF BookInv, AllCounted, AllAgreed, AllCovered
-----------------------------------------------------------------------------
(* The offers: a withdrawal, a settlement *)

LEMMA KeepsCancel ==
    ASSUME Book!BookConstants, BookInv, NEW i \in Book!Ids, NEW h \in Owners, Book!CancelOffer(i, h) PROVE BookInv'
<1>0. BookTypes /\ AllGiven /\ AllAsked /\ AllCounted /\ AllAgreed /\ AllCovered
  BY DEF BookInv
<1>1. SUFFICES ASSUME NEW o, o = offers[i], NEW p, p = Offer(o.seller, o.total, o.remaining, "CANCELLED"),
                      NEW t, t = Told[i], NEW q, q = Offer(t.seller, t.total, t.remaining, "CANCELLED")
               PROVE  BookInv'
  OBVIOUS
<1>2. /\ i \in 1..seq /\ o \in OfferState /\ t \in OfferState /\ o.status = "OPEN"
      /\ OfferIs(i, p) /\ ToldIs(i, q)
      /\ ChainIs(seq) /\ withdrawn' = withdrawn \cup {i}
      /\ UNCHANGED <<seq, held, job, sold, overlapped, trades, crashes>>
  BY <1>0, <1>1, CancelEffect
<1>3. /\ p.seller = o.seller /\ p.total = o.total /\ p.remaining = o.remaining /\ p.status = "CANCELLED"
      /\ q.seller = t.seller /\ q.total = t.total /\ q.remaining = t.remaining /\ q.status = "CANCELLED"
  BY <1>1, OfferFields
<1>4. /\ p \in OfferState /\ offers' \in [Book!Ids -> OfferState]
      /\ \A j \in Book!Ids : offers'[j] = IF j = i THEN p ELSE offers[j]
  BY <1>0, <1>2, BookKinds, OffersBecome
<1>5. /\ Told' \in [Book!Ids -> OfferState]
      /\ \A j \in Book!Ids : Told'[j] = IF j = i THEN q ELSE Told[j]
  BY <1>0, <1>2, BookKinds, ToldBecomes
<1>6. seq \in Nat /\ seq \in 0..MaxOffers /\ \A j \in 1..seq : j \in Book!Ids
  BY <1>0, BookKinds, BookSets
<1>7. BookTypes'
  <2>1. withdrawn' \subseteq 1..seq' /\ ChainIs(seq')
    BY <1>0, <1>2, BookKinds
  <2>2. QED
    BY <1>0, <1>2, <1>4, <1>5, <2>1, BookKinds, TypesNext
<1>8. AllGiven'
  BY <1>0, <1>2, <1>3, <1>4, <1>5, GivenNext
<1>9. SellersStay
  BY <1>1, <1>2, <1>3, <1>4, <1>6 DEF SellersStay
<1>10. AllAsked'
  BY <1>0, <1>2, <1>9, AskedNext
<1>11. ASSUME NEW j PROVE /\ \A b \in Clients : About(job[b], j) <=> About(job'[b], j)
                          /\ AllHeld(j)' = AllHeld(j)
                          /\ Book!Quiet(j)' <=> Book!Quiet(j)
                          /\ \A b \in Clients : job'[b].tokens = job[b].tokens \/ ~About(job'[b], j)
  BY <1>2, HeldStays, QuietWhenSame
<1>12. ASSUME crashes' = 0, NEW j \in Book!Ids PROVE Counted(j)'
  <2>1. Counted(j)
    BY <1>0, <1>2, <1>12 DEF AllCounted
  <2>2. CASE j # i
    <3>1. offers'[j] = offers[j]
      BY <1>4, <2>2
    <3>2. QED
      BY <1>2, <1>11, <2>1, <3>1, CountedSame
  <2>3. CASE j = i
    <3>1. offers'[i] = p /\ sold'[i] = sold[i] /\ AllHeld(i)' = AllHeld(i)
      BY <1>2, <1>4, <1>11
    <3>2. QED
      BY <1>1, <1>3, <2>1, <2>3, <3>1 DEF Counted
  <2>4. QED
    BY <2>2, <2>3
<1>13. ASSUME ~overlapped', NEW j \in Book!Ids PROVE Agreed(j)'
  <2>1. Agreed(j)
    BY <1>0, <1>2, <1>13 DEF AllAgreed
  <2>2. CASE j # i
    <3>1. offers'[j] = offers[j] /\ Told'[j] = Told[j]
      BY <1>4, <1>5, <2>2
    <3>2. QED
      BY <1>11, <2>1, <3>1, AgreedSame
  <2>3. CASE j = i
    <3>1. offers'[i] = p /\ Told'[i] = q
      BY <1>4, <1>5, <2>3
    <3>2. ASSUME Book!Quiet(i)' PROVE p = q
      <4>1. o = t
        BY <1>1, <1>11, <2>1, <2>3, <3>2 DEF Agreed
      <4>2. QED
        BY <1>1, <4>1
    <3>3. ASSUME NEW b \in Clients, Book!Touches(b, i)' PROVE Before(job[b], offers[i], Told[i])'
      <4>1. Book!Touches(b, i)
        BY <1>11, <3>3, TouchesIs, TouchesIsNext
      <4>2. Before(job[b], o, t)
        BY <1>1, <2>1, <2>3, <4>1 DEF Agreed
      <4>3. QED
        BY <1>2, <1>3, <3>1, <4>2 DEF Before
    <3>4. QED
      BY <2>3, <3>1, <3>2, <3>3 DEF Agreed
  <2>4. QED
    BY <2>2, <2>3
<1>14. ~overlapped' => OneRequest'
  BY <1>0, <1>2 DEF AllAgreed, OneRequest
<1>15. ASSUME ~overlapped' /\ trades' = 0 /\ crashes' = 0, NEW x \in Owners PROVE CoveredAll(x)'
  <2>1. CoveredAll(x)
    BY <1>0, <1>2, <1>15 DEF AllCovered
  <2>2. Book!Committed(x)' = Book!Committed(x) + Share(p, x) - Share(o, x)
    BY <1>0, <1>1, <1>2, <1>7, CommittedChanges
  <2>3. Share(p, x) = 0
    BY <1>3 DEF Share
  <2>4. Share(o, x) \in Nat
    BY <1>2, ShareType
  <2>5. Book!Committed(x) <= held[x] /\ Book!Committed(x) \in Nat /\ held[x] \in Nat
    BY <1>0, <2>1, CommittedType, BookKinds DEF CoveredAll
  <2>6. Book!Committed(x)' <= Book!Committed(x) /\ Book!Committed(x)' <= held'[x] /\ Book!Committed(x)' \in Int
    BY <1>2, <2>2, <2>3, <2>4, <2>5
  <2>7. ASSUME NEW b \in Clients PROVE CoveredBy(job[b], x)'
    <3>1. CoveredBy(job[b], x) /\ Asked(job[b])
      BY <1>0, <2>1 DEF CoveredAll, AllAsked
    <3>2. job[b].tokens \in Nat
      BY <1>0, AskKinds
    <3>3. job[b].at \in {"settle", "restore"} => offers'[job[b].id].seller = offers[job[b].id].seller
      BY <1>9, <3>1 DEF Asked, Taking, SellersStay
    <3>4. job[b].at \in {"settle", "restore"} /\ offers[job[b].id].seller = x => Book!Committed(x)' + job[b].tokens <= held[x]
      BY <2>5, <2>6, <3>1, <3>2 DEF CoveredBy
    <3>5. QED
      BY <1>2, <3>1, <3>3, <3>4 DEF CoveredBy
  <2>8. QED
    BY <2>6, <2>7 DEF CoveredAll
<1>16. QED
  BY <1>7, <1>8, <1>10, <1>12, <1>13, <1>14, <1>15 DEF BookInv, AllCounted, AllAgreed, AllCovered

LEMMA KeepsDeal ==
    ASSUME Book!BookConstants, BookInv, NEW c \in Clients, Book!SettleDvP(c) PROVE BookInv'
<1>0. BookTypes /\ AllGiven /\ AllAsked /\ AllCounted /\ AllAgreed /\ AllCovered
  BY DEF BookInv
<1>1. SUFFICES ASSUME NEW k, k = job[c], NEW s, s = offers[k.id].seller PROVE BookInv'
  OBVIOUS
<1>2. /\ k \in Requests /\ k.at = "settle" /\ k.tokens \in Nat /\ k.tokens > 0 /\ k.id \in Book!Ids
      /\ UNCHANGED <<offers, seq, chain, withdrawn, overlapped, trades, crashes>> /\ Told' = Told
      /\ \/ /\ AskIs(c, Asks("fill", k.id, k.who, k.tokens, k.dryRun, k.seen))
            /\ sold' \in [Book!Ids -> Nat] /\ held' \in [Owners -> Nat]
            /\ \A j \in Book!Ids : sold'[j] = sold[j] + (IF j = k.id THEN k.tokens ELSE 0)
            /\ \A x \in Owners : x # s => held'[x] >= held[x]
            /\ held'[s] = held[s] - k.tokens
         \/ AskIs(c, Asks("restore", k.id, k.who, k.tokens, k.dryRun, k.seen)) /\ UNCHANGED <<held, sold>>
  <2>1. Asked(k)
    BY <1>0, <1>1 DEF AllAsked
  <2>2. QED
    BY <1>0, <1>1, <2>1, DealEffect
<1>3. PICK m : /\ AskIs(c, m) /\ m.id = k.id /\ m.who = k.who /\ m.tokens = k.tokens /\ m.at \in {"fill", "restore"}
               /\ m.at = "fill" => /\ sold' \in [Book!Ids -> Nat] /\ held' \in [Owners -> Nat]
                                   /\ \A j \in Book!Ids : sold'[j] = sold[j] + (IF j = k.id THEN k.tokens ELSE 0)
                                   /\ \A x \in Owners : x # s => held'[x] >= held[x]
                                   /\ held'[s] = held[s] - k.tokens
               /\ m.at = "restore" => UNCHANGED <<held, sold>>
  <2>1. ASSUME NEW a, NEW m, m = Asks(a, k.id, k.who, k.tokens, k.dryRun, k.seen)
        PROVE  m.at = a /\ m.id = k.id /\ m.who = k.who /\ m.tokens = k.tokens
    BY <2>1, AsksFields
  <2>2. CASE /\ AskIs(c, Asks("fill", k.id, k.who, k.tokens, k.dryRun, k.seen))
             /\ sold' \in [Book!Ids -> Nat] /\ held' \in [Owners -> Nat]
             /\ \A j \in Book!Ids : sold'[j] = sold[j] + (IF j = k.id THEN k.tokens ELSE 0)
             /\ \A x \in Owners : x # s => held'[x] >= held[x]
             /\ held'[s] = held[s] - k.tokens
    <3>1. SUFFICES ASSUME NEW m, m = Asks("fill", k.id, k.who, k.tokens, k.dryRun, k.seen)
                   PROVE  AskIs(c, m) /\ m.id = k.id /\ m.who = k.who /\ m.tokens = k.tokens /\ m.at = "fill"
      BY <2>2
    <3>2. QED
      BY <2>1, <2>2, <3>1
  <2>3. CASE AskIs(c, Asks("restore", k.id, k.who, k.tokens, k.dryRun, k.seen)) /\ UNCHANGED <<held, sold>>
    <3>1. SUFFICES ASSUME NEW m, m = Asks("restore", k.id, k.who, k.tokens, k.dryRun, k.seen)
                   PROVE  AskIs(c, m) /\ m.id = k.id /\ m.who = k.who /\ m.tokens = k.tokens /\ m.at = "restore"
      BY <2>3
    <3>2. QED
      BY <2>1, <2>3, <3>1
  <2>4. QED
    BY <1>2, <2>2, <2>3
<1>4. /\ job' \in [Clients -> Requests] /\ m \in Requests
      /\ \A b \in Clients : job'[b] = IF b = c THEN m ELSE job[b]
  BY <1>0, <1>3, BookKinds, AsksBecome
<1>5. BookTypes'
  <2>1. ChainIs(seq')
    BY <1>0, <1>2, ChainStays
  <2>2. sold' \in [Book!Ids -> Nat] /\ held' \in [Owners -> Nat]
    BY <1>0, <1>3, BookKinds
  <2>3. QED
    BY <1>0, <1>2, <1>4, <2>1, <2>2, BookKinds, TypesNext
<1>6. AllGiven' /\ SellersStay
  BY <1>0, <1>2, GivenStays
<1>7. AllAsked'
  <2>1. Asked(k)
    BY <1>0, <1>1 DEF AllAsked
  <2>2. Asked(job[c])'
    BY <1>2, <1>3, <1>4, <2>1 DEF Asked, Taking
  <2>3. QED
    BY <1>0, <1>4, <1>6, <2>2, AskedNext
<1>8. ASSUME NEW j PROVE /\ \A b \in Clients : About(job[b], j) <=> About(job'[b], j)
                         /\ Book!Quiet(j)' <=> Book!Quiet(j)
                         /\ \A b \in Clients : job'[b].tokens = job[b].tokens \/ ~About(job'[b], j)
  <2>1. About(m, j) <=> About(job[c], j)
    BY <1>1, <1>2, <1>3 DEF About, Taking
  <2>2. \A b \in Clients : About(job[b], j) <=> About(job'[b], j)
    BY <1>0, <1>3, <2>1, AboutSame
  <2>3. QED
    BY <1>1, <1>3, <1>4, <2>2, QuietWhenSame
<1>9. ASSUME NEW j PROVE AllHeld(j)' = AllHeld(j) - (IF m.at = "fill" /\ j = k.id THEN k.tokens ELSE 0)
  <2>1. AllHeld(j)' = AllHeld(j) + TakenUp(m, j) - TakenUp(k, j) /\ AllHeld(j) \in Nat
    BY <1>0, <1>1, <1>3, HeldChanges, HeldType
  <2>2. CASE j # k.id
    <3>1. TakenUp(m, j) = 0 /\ TakenUp(k, j) = 0
      BY <1>3, <2>2, HeldOfOthers
    <3>2. QED
      BY <2>1, <2>2, <3>1
  <2>3. CASE j = k.id
    <3>1. TakenUp(k, j) = k.tokens
      BY <1>2, <2>3, HeldOfIt
    <3>2. TakenUp(m, j) = IF m.at = "fill" THEN 0 ELSE k.tokens
      BY <1>3, <2>3 DEF TakenUp
    <3>3. QED
      BY <1>2, <1>3, <2>1, <2>3, <3>1, <3>2
  <2>4. QED
    BY <2>2, <2>3
<1>10. ASSUME crashes' = 0, NEW j \in Book!Ids PROVE Counted(j)'
  <2>1. Counted(j)
    BY <1>0, <1>2, <1>10 DEF AllCounted
  <2>2. sold'[j] = sold[j] + (IF m.at = "fill" /\ j = k.id THEN k.tokens ELSE 0)
    <3>1. sold[j] \in Nat
      BY <1>0, BookKinds
    <3>2. CASE m.at = "fill"
      BY <1>3, <3>2
    <3>3. CASE m.at # "fill"
      BY <1>3, <3>1, <3>3
    <3>4. QED
      BY <3>2, <3>3
  <2>3. offers[j].remaining \in Nat /\ sold[j] \in Nat /\ AllHeld(j) \in Nat
    BY <1>0, BookKinds, EachOffer, HeldType
  <2>4. offers'[j].remaining + sold'[j] + AllHeld(j)' = offers[j].remaining + sold[j] + AllHeld(j)
    <3>1. offers'[j].remaining = offers[j].remaining
      BY <1>2
    <3>2. AllHeld(j)' = AllHeld(j) - (IF m.at = "fill" /\ j = k.id THEN k.tokens ELSE 0)
      BY <1>9
    <3>3. CASE m.at = "fill" /\ j = k.id
      BY <1>2, <2>2, <2>3, <3>1, <3>2, <3>3
    <3>4. CASE ~(m.at = "fill" /\ j = k.id)
      BY <2>2, <2>3, <3>1, <3>2, <3>4
    <3>5. QED
      BY <3>3, <3>4
  <2>5. QED
    BY <1>2, <1>8, <2>1, <2>4 DEF Counted
<1>11. ~overlapped' => OneRequest' /\ OthersIdle(c)
  <2>1. ~overlapped' => OneRequest
    BY <1>0, <1>2 DEF AllAgreed
  <2>2. QED
    BY <1>0, <1>1, <1>2, <1>3, <2>1, OnlyThisOne
<1>12. ASSUME ~overlapped', NEW j \in Book!Ids PROVE Agreed(j)'
  <2>1. Agreed(j)
    BY <1>0, <1>2, <1>12 DEF AllAgreed
  <2>2. QED
    BY <1>2, <1>8, <2>1, AgreedSame
<1>13. ASSUME ~overlapped' /\ trades' = 0 /\ crashes' = 0, NEW x \in Owners PROVE CoveredAll(x)'
  <2>1. CoveredAll(x) /\ Book!Committed(x)' = Book!Committed(x)
    BY <1>0, <1>2, <1>13, CommittedStays DEF AllCovered
  <2>2. Book!Committed(x) <= held[x] /\ Book!Committed(x) \in Nat /\ held[x] \in Nat
    BY <1>0, <2>1, CommittedType, BookKinds DEF CoveredAll
  <2>3. x = s => Book!Committed(x) + k.tokens <= held[x]
    BY <1>1, <1>2, <2>1 DEF CoveredAll, CoveredBy
  <2>4. Book!Committed(x)' <= held'[x]
    <3>1. CASE m.at = "restore"
      BY <1>3, <2>1, <2>2, <3>1
    <3>2. CASE m.at = "fill" /\ x = s
      BY <1>2, <1>3, <2>1, <2>2, <2>3, <3>2
    <3>3. CASE m.at = "fill" /\ x # s
      <4>1. held'[x] >= held[x] /\ held'[x] \in Nat
        BY <1>3, <3>3
      <4>2. QED
        BY <2>1, <2>2, <4>1
    <3>4. QED
      BY <1>3, <3>1, <3>2, <3>3
  <2>5. CoveredBy(job[c], x)'
    BY <1>1, <1>2, <1>3, <1>4, <2>1, <2>3 DEF CoveredBy
  <2>6. QED
    BY <1>11, <1>13, <2>4, <2>5, CoveredNext
<1>14. QED
  BY <1>5, <1>6, <1>7, <1>10, <1>11, <1>12, <1>13 DEF BookInv, AllCounted, AllAgreed, AllCovered
-----------------------------------------------------------------------------
(* The offers: the end of a take *)

LEMMA KeepsRestore ==
    ASSUME Book!BookConstants, BookInv, NEW c \in Clients, Book!Restore(c) PROVE BookInv'
<1>0. BookTypes /\ AllGiven /\ AllAsked /\ AllCounted /\ AllAgreed /\ AllCovered
  BY DEF BookInv
<1>1. SUFFICES ASSUME NEW k, k = job[c], NEW o, o = offers[k.id], NEW t, t = Told[k.id],
                      NEW p, p = Offer(o.seller, o.total, o.remaining + k.tokens, Reopens(o.status))
               PROVE  BookInv'
  OBVIOUS
<1>2. Asked(k)
  BY <1>0, <1>1 DEF AllAsked
<1>3. /\ k.at = "restore" /\ AskIs(c, NoAsk) /\ Told' = Told /\ OfferIs(k.id, p)
      /\ UNCHANGED <<seq, chain, held, sold, withdrawn, overlapped, trades, crashes>>
  BY <1>0, <1>1, <1>2, RestoreEffect
<1>4. /\ k \in Requests /\ k.tokens \in Nat /\ k.tokens > 0 /\ k.id \in Book!Ids /\ k.id \in 1..seq /\ k.who # o.seller
      /\ o \in OfferState /\ o.seller \in Owners /\ o.total \in Nat /\ o.remaining \in Nat /\ o.status \in Book!Statuses
      /\ t \in OfferState
  <2>1. k.at \in Taking
    BY <1>3 DEF Taking
  <2>2. /\ k \in Requests /\ k.tokens \in Nat /\ k.tokens > 0 /\ k.id \in Book!Ids /\ k.id \in 1..seq /\ k.who # o.seller
        /\ o \in OfferState /\ o.seller \in Owners /\ o.total \in Nat /\ o.remaining \in Nat /\ o.status \in Book!Statuses
    BY <1>0, <1>1, <1>2, <2>1, TakenBy
  <2>3. QED
    BY <1>0, <1>1, <2>2, BookKinds
<1>5. /\ p.seller = o.seller /\ p.total = o.total /\ p.remaining = o.remaining + k.tokens /\ p.status = Reopens(o.status)
  <2>1. PICK n, x : n = o.remaining + k.tokens /\ x = Reopens(o.status) /\ p = Offer(o.seller, o.total, n, x)
    BY <1>1, Zenon
  <2>2. p.seller = o.seller /\ p.total = o.total /\ p.remaining = n /\ p.status = x
    BY <2>1, OfferFields, SMTT(30)
  <2>3. QED
    BY <2>1, <2>2, Zenon
<1>6. /\ p \in OfferState /\ offers' \in [Book!Ids -> OfferState]
      /\ \A j \in Book!Ids : offers'[j] = IF j = k.id THEN p ELSE offers[j]
  BY <1>0, <1>3, BookKinds, OffersBecome
<1>7. /\ job' \in [Clients -> Requests] /\ NoAsk \in Requests /\ NoAsk.at = "idle"
      /\ \A d \in Clients : job'[d] = IF d = c THEN NoAsk ELSE job[d]
  BY <1>0, <1>3, BookKinds, AsksBecome, NoAskType
<1>8. seq \in Nat /\ seq \in 0..MaxOffers /\ \A j \in 1..seq : j \in Book!Ids
  BY <1>0, BookKinds, BookSets
<1>9. BookTypes'
  <2>1. ChainIs(seq')
    BY <1>0, <1>3, ChainStays
  <2>2. QED
    BY <1>0, <1>3, <1>6, <1>7, <2>1, BookKinds, TypesNext
<1>10. AllGiven'
  <2>1. k.id <= seq
    BY <1>4, <1>8
  <2>2. o.status # "NONE" /\ t.status # "NONE"
    BY <1>0, <1>1, <1>4, <2>1, Zenon DEF AllGiven, GivenOut
  <2>3. p.status # "NONE"
    BY <1>4, <1>5, <2>2, ReopensTo
  <2>4. QED
    BY <1>0, <1>1, <1>3, <1>4, <1>6, <2>2, <2>3, GivenNext
<1>11. SellersStay
  BY <1>1, <1>3, <1>4, <1>5, <1>6, <1>8 DEF SellersStay
<1>12. AllAsked'
  <2>1. Asked(job[c])'
    BY <1>7, NothingAsked
  <2>2. QED
    BY <1>0, <1>7, <1>11, <2>1, AskedNext
<1>13. ASSUME NEW j, j # k.id
       PROVE  /\ \A b \in Clients : About(job[b], j) <=> About(job'[b], j)
              /\ AllHeld(j)' = AllHeld(j)
              /\ Book!Quiet(j)' <=> Book!Quiet(j)
              /\ \A b \in Clients : job'[b].tokens = job[b].tokens \/ ~About(job'[b], j)
  <2>1. ~About(NoAsk, j) /\ ~About(job[c], j)
    BY <1>1, <1>7, <1>13 DEF About, Taking
  <2>2. TakenUp(NoAsk, j) = 0 /\ TakenUp(job[c], j) = 0
    BY <1>1, <1>7, <1>13, HeldOfNothing, HeldOfOthers
  <2>3. \A b \in Clients : About(job[b], j) <=> About(job'[b], j)
    BY <1>0, <1>3, <2>1, AboutSame
  <2>4. QED
    BY <1>0, <1>3, <1>7, <2>1, <2>2, <2>3, HeldSame, QuietWhenSame
<1>14. AllHeld(k.id)' = AllHeld(k.id) - k.tokens
  <2>1. TakenUp(NoAsk, k.id) = 0 /\ TakenUp(job[c], k.id) = k.tokens
    BY <1>1, <1>3, <1>7, HeldOfIt, HeldOfNothing
  <2>2. AllHeld(k.id)' = AllHeld(k.id) + TakenUp(NoAsk, k.id) - TakenUp(job[c], k.id) /\ AllHeld(k.id) \in Nat
    BY <1>0, <1>3, HeldChanges, HeldType
  <2>3. QED
    BY <1>4, <2>1, <2>2
<1>15. ASSUME crashes' = 0, NEW j \in Book!Ids PROVE Counted(j)'
  <2>1. Counted(j)
    BY <1>0, <1>3, <1>15 DEF AllCounted
  <2>2. CASE j # k.id
    <3>1. offers'[j] = offers[j]
      BY <1>6, <2>2
    <3>2. QED
      BY <1>3, <1>13, <2>1, <2>2, <3>1, CountedSame
  <2>3. CASE j = k.id
    <3>1. o.remaining + sold[j] + AllHeld(j) = o.total
      BY <1>1, <2>1, <2>3 DEF Counted
    <3>2. sold[j] \in Nat /\ AllHeld(j) \in Nat
      BY <1>0, BookKinds, HeldType
    <3>3. offers'[j] = p /\ sold'[j] = sold[j]
      BY <1>3, <1>6, <2>3
    <3>4. p.remaining + sold[j] + AllHeld(j)' = p.total /\ p.remaining # 0
      BY <1>4, <1>5, <1>14, <2>3, <3>1, <3>2
    <3>5. p.status # "FILLED"
      BY <1>4, <1>5, ReopensTo
    <3>6. QED
      BY <2>3, <3>3, <3>4, <3>5 DEF Counted
  <2>4. QED
    BY <2>2, <2>3
<1>16. ~overlapped' => ~overlapped /\ OneRequest' /\ OthersIdle(c)
  <2>1. ~overlapped' => ~overlapped /\ OneRequest
    BY <1>0, <1>3 DEF AllAgreed
  <2>2. QED
    BY <1>0, <1>1, <1>3, <2>1, OnlyThisOne
<1>17. ASSUME ~overlapped'
       PROVE  Before(k, o, t) /\ p = t /\ p.status = o.status
  <2>1. Agreed(k.id)
    BY <1>0, <1>4, <1>16, <1>17 DEF AllAgreed
  <2>2. Book!Touches(c, k.id)
    BY <1>1, <1>3, TouchesIs DEF About, Taking
  <2>3. Before(k, o, t)
    BY <1>1, <2>1, <2>2 DEF Agreed
  <2>4. Reopens(o.status) = o.status
    BY <1>4, <2>3, ReopensTo DEF Before
  <2>5. t = Offer(t.seller, t.total, t.remaining, t.status)
    BY <1>4, EachOffer
  <2>6. p = Offer(t.seller, t.total, t.remaining, t.status)
    BY <1>1, <2>3, <2>4, Zenon DEF Before
  <2>7. QED
    BY <1>5, <2>3, <2>4, <2>5, <2>6, Zenon
<1>18. ASSUME ~overlapped', NEW j \in Book!Ids PROVE Agreed(j)'
  <2>1. Agreed(j)
    BY <1>0, <1>16, <1>18 DEF AllAgreed
  <2>2. CASE j # k.id
    <3>1. offers'[j] = offers[j] /\ Told'[j] = Told[j]
      BY <1>3, <1>6, <2>2
    <3>2. QED
      BY <1>13, <2>1, <2>2, <3>1, AgreedSame
  <2>3. CASE j = k.id
    <3>1. offers'[j] = Told'[j]
      BY <1>1, <1>3, <1>6, <1>17, <1>18, <2>3
    <3>2. ASSUME NEW b \in Clients PROVE ~Book!Touches(b, j)'
      <4>1. job'[b].at = "idle"
        BY <1>7, <1>16, <1>18 DEF OthersIdle
      <4>2. QED
        BY <4>1, TouchesIsNext DEF About, Taking
    <3>3. QED
      BY <3>1, <3>2 DEF Agreed
  <2>4. QED
    BY <2>2, <2>3
<1>19. ASSUME ~overlapped' /\ trades' = 0 /\ crashes' = 0, NEW x \in Owners PROVE CoveredAll(x)'
  <2>1. CoveredAll(x) /\ p.status = o.status
    BY <1>0, <1>3, <1>17, <1>19 DEF AllCovered
  <2>2. Book!Committed(x)' = Book!Committed(x) + Share(p, x) - Share(o, x)
    BY <1>0, <1>1, <1>3, <1>9, CommittedChanges
  <2>3. Book!Committed(x) <= held[x] /\ Book!Committed(x) \in Nat /\ held[x] \in Nat
    BY <1>0, <2>1, CommittedType, BookKinds DEF CoveredAll
  <2>4. Book!Committed(x)' <= held'[x]
    <3>1. CASE o.status = "OPEN" /\ o.seller = x
      <4>1. Share(p, x) = o.remaining + k.tokens /\ Share(o, x) = o.remaining
        BY <1>5, <2>1, <3>1 DEF Share
      <4>2. Book!Committed(x) + k.tokens <= held[x]
        BY <1>1, <1>3, <2>1, <3>1 DEF CoveredAll, CoveredBy
      <4>3. QED
        BY <1>3, <1>4, <2>2, <2>3, <4>1, <4>2
    <3>2. CASE ~(o.status = "OPEN" /\ o.seller = x)
      <4>1. Share(p, x) = 0 /\ Share(o, x) = 0
        BY <1>5, <2>1, <3>2 DEF Share
      <4>2. QED
        BY <1>3, <2>2, <2>3, <4>1
    <3>3. QED
      BY <3>1, <3>2
  <2>5. CoveredBy(job[c], x)'
    BY <1>7 DEF CoveredBy
  <2>6. QED
    BY <1>16, <1>19, <2>4, <2>5, CoveredNext
<1>20. QED
  BY <1>9, <1>10, <1>12, <1>15, <1>16, <1>18, <1>19 DEF BookInv, AllCounted, AllAgreed, AllCovered

\* What the filled mark makes of an offer (o) and of what the blocks say of it (t).
FilledUp(o, t, p, q) ==
    /\ p.seller = o.seller /\ p.total = o.total /\ p.remaining = o.remaining /\ q.status = p.status
    /\ o.remaining = 0 => p.status = "FILLED"
    /\ o.remaining # 0 => p.status = o.status
    /\ p.status = "NONE" => o.status = "NONE"
    /\ o.seller = t.seller /\ o.total = t.total => p = q
LEMMA FillFields ==
    ASSUME NEW o \in OfferState, NEW t, NEW p, NEW q,
           p = Offer(o.seller, o.total, o.remaining, Closes(o.remaining, o.status)),
           q = Offer(t.seller, t.total, o.remaining, Closes(o.remaining, o.status))
    PROVE  FilledUp(o, t, p, q)
<1>1. o.remaining \in Nat /\ o.status \in Book!Statuses
  BY EachOffer
<1>2. PICK x : x = Closes(o.remaining, o.status)
  OBVIOUS
<1>3. /\ x = "NONE" => o.status = "NONE"
      /\ o.remaining = 0 => x = "FILLED"
      /\ o.remaining # 0 => x = o.status
  BY <1>1, <1>2, ClosesTo
<1>4. p = Offer(o.seller, o.total, o.remaining, x) /\ q = Offer(t.seller, t.total, o.remaining, x)
  BY <1>2
<1>5. p.seller = o.seller /\ p.total = o.total /\ p.remaining = o.remaining /\ p.status = x
  BY <1>4 DEF Offer
<1>6. q.status = x
  BY <1>4 DEF Offer
<1>7. o.seller = t.seller /\ o.total = t.total => p = q
  BY <1>4
<1>8. QED
  BY <1>3, <1>5, <1>6, <1>7 DEF FilledUp

LEMMA KeepsFill ==
    ASSUME Book!BookConstants, BookInv, NEW c \in Clients, Book!Fill(c) PROVE BookInv'
<1>0. BookTypes /\ AllGiven /\ AllAsked /\ AllCounted /\ AllAgreed /\ AllCovered
  BY DEF BookInv
<1>1. PICK k, o, t : k = job[c] /\ o = offers[k.id] /\ t = Told[k.id]
  OBVIOUS
<1>2. Asked(k)
  BY <1>0, <1>1 DEF AllAsked
<1>3. /\ k.at = "fill" /\ AskIs(c, NoAsk) /\ t \in OfferState
      /\ ChainIs(seq) /\ UNCHANGED <<seq, held, sold, withdrawn, overlapped, trades, crashes>>
  BY <1>0, <1>1, <1>2, FillEffect
<1>4. /\ k \in Requests /\ k.tokens \in Nat /\ k.tokens > 0 /\ k.id \in Book!Ids /\ k.id \in 1..seq
      /\ o \in OfferState /\ o.seller \in Owners /\ o.total \in Nat /\ o.remaining \in Nat /\ o.status \in Book!Statuses
  <2>1. k.at \in Taking
    BY <1>3 DEF Taking
  <2>2. QED
    BY <1>0, <1>1, <1>2, <2>1, TakenBy
<1>filled. PICK p, q : FilledUp(o, t, p, q) /\ OfferIs(k.id, p) /\ ToldIs(k.id, q)
  <2>1. PICK p, q : /\ p = Offer(o.seller, o.total, o.remaining, Closes(o.remaining, o.status))
                    /\ q = Offer(t.seller, t.total, o.remaining, Closes(o.remaining, o.status))
    BY Zenon
  <2>2. OfferIs(k.id, p) /\ ToldIs(k.id, q)
    <3>1. /\ OfferIs(k.id, Offer(o.seller, o.total, o.remaining, Closes(o.remaining, o.status)))
          /\ ToldIs(k.id, Offer(t.seller, t.total, o.remaining, Closes(o.remaining, o.status)))
      BY <1>0, <1>1, <1>2, FillEffect
    <3>2. QED
      BY <2>1, <3>1, Zenon
  <2>3. FilledUp(o, t, p, q)
    BY <1>4, <2>1, FillFields
  <2>4. QED
    BY <2>2, <2>3
<1>5. /\ p.seller = o.seller /\ p.total = o.total /\ p.remaining = o.remaining /\ q.status = p.status
      /\ o.remaining = 0 => p.status = "FILLED"
      /\ o.remaining # 0 => p.status = o.status
      /\ p.status = "NONE" => o.status = "NONE"
      /\ o.seller = t.seller /\ o.total = t.total => p = q
  BY <1>filled, Zenon DEF FilledUp
<1>6. /\ p \in OfferState /\ offers' \in [Book!Ids -> OfferState]
      /\ \A j \in Book!Ids : offers'[j] = IF j = k.id THEN p ELSE offers[j]
  BY <1>0, <1>3, <1>filled, BookKinds, OffersBecome
<1>7. /\ Told' \in [Book!Ids -> OfferState]
      /\ \A j \in Book!Ids : Told'[j] = IF j = k.id THEN q ELSE Told[j]
  BY <1>0, <1>3, <1>filled, BookKinds, ToldBecomes
<1>8. /\ job' \in [Clients -> Requests] /\ NoAsk \in Requests /\ NoAsk.at = "idle"
      /\ \A d \in Clients : job'[d] = IF d = c THEN NoAsk ELSE job[d]
  BY <1>0, <1>3, BookKinds, AsksBecome, NoAskType
<1>9. seq \in Nat /\ seq \in 0..MaxOffers /\ \A j \in 1..seq : j \in Book!Ids
  BY <1>0, BookKinds, BookSets
<1>10. BookTypes'
  BY <1>0, <1>3, <1>6, <1>7, <1>8, BookKinds, TypesNext
<1>11. AllGiven'
  <2>1. k.id <= seq
    BY <1>4, <1>9
  <2>2. o.status # "NONE"
    BY <1>0, <1>1, <1>4, <2>1, Zenon DEF AllGiven, GivenOut
  <2>3. p.status # "NONE" /\ q.status # "NONE"
    BY <1>5, <2>2
  <2>4. QED
    BY <1>0, <1>3, <1>4, <1>6, <1>7, <2>3, GivenNext
<1>12. SellersStay
  <2>1. ASSUME NEW j \in 1..seq PROVE offers'[j].seller = offers[j].seller
    <3>1. j \in Book!Ids
      BY <1>9, <2>1
    <3>2. CASE j = k.id
      BY <1>1, <1>5, <1>6, <3>1, <3>2
    <3>3. CASE j # k.id
      BY <1>6, <3>1, <3>3
    <3>4. QED
      BY <3>2, <3>3
  <2>2. QED
    BY <1>3, <2>1 DEF SellersStay
<1>13. AllAsked'
  <2>1. Asked(job[c])'
    BY <1>8, NothingAsked
  <2>2. QED
    BY <1>0, <1>8, <1>12, <2>1, AskedNext
<1>14. ASSUME NEW j PROVE AllHeld(j)' = AllHeld(j)
  <2>1. TakenUp(NoAsk, j) = TakenUp(job[c], j)
    BY <1>1, <1>3, <1>8, HeldOfNothing
  <2>2. QED
    BY <1>0, <1>3, <2>1, HeldSame
<1>15. ASSUME NEW j, j # k.id
       PROVE  /\ \A b \in Clients : About(job[b], j) <=> About(job'[b], j)
              /\ Book!Quiet(j)' <=> Book!Quiet(j)
              /\ \A b \in Clients : job'[b].tokens = job[b].tokens \/ ~About(job'[b], j)
  <2>1. ~About(NoAsk, j) /\ ~About(job[c], j)
    BY <1>1, <1>8, <1>15 DEF About, Taking
  <2>2. \A b \in Clients : About(job[b], j) <=> About(job'[b], j)
    BY <1>0, <1>3, <2>1, AboutSame
  <2>3. QED
    BY <1>0, <1>3, <1>8, <2>1, <2>2, QuietWhenSame
<1>16. ASSUME crashes' = 0, NEW j \in Book!Ids PROVE Counted(j)'
  <2>1. Counted(j)
    BY <1>0, <1>3, <1>16 DEF AllCounted
  <2>2. CASE j # k.id
    <3>1. offers'[j] = offers[j]
      BY <1>6, <2>2
    <3>2. QED
      BY <1>3, <1>14, <1>15, <2>1, <2>2, <3>1, CountedSame
  <2>3. CASE j = k.id
    <3>1. /\ o.remaining + sold[j] + AllHeld(j) = o.total
          /\ o.status = "FILLED" => o.remaining = 0
      BY <1>1, <2>1, <2>3 DEF Counted
    <3>2. offers'[j] = p /\ sold'[j] = sold[j] /\ AllHeld(j)' = AllHeld(j)
      BY <1>3, <1>6, <1>14, <2>3
    <3>3. p.status = "FILLED" => p.remaining = 0
      BY <1>5, <3>1
    <3>4. ~(p.status = "OPEN" /\ p.remaining = 0)
      BY <1>5
    <3>5. QED
      BY <1>5, <2>3, <3>1, <3>2, <3>3, <3>4 DEF Counted
  <2>4. QED
    BY <2>2, <2>3
<1>17. ~overlapped' => ~overlapped /\ OneRequest' /\ OthersIdle(c)
  <2>1. ~overlapped' => ~overlapped /\ OneRequest
    BY <1>0, <1>3 DEF AllAgreed
  <2>2. QED
    BY <1>0, <1>1, <1>3, <2>1, OnlyThisOne
<1>18. ASSUME ~overlapped', NEW j \in Book!Ids PROVE Agreed(j)'
  <2>1. Agreed(j)
    BY <1>0, <1>17, <1>18 DEF AllAgreed
  <2>2. CASE j # k.id
    <3>1. offers'[j] = offers[j] /\ Told'[j] = Told[j]
      BY <1>6, <1>7, <2>2
    <3>2. QED
      BY <1>15, <2>1, <2>2, <3>1, AgreedSame
  <2>3. CASE j = k.id
    <3>1. Book!Touches(c, k.id)
      BY <1>1, <1>3, TouchesIs DEF About, Taking
    <3>2. o.seller = t.seller /\ o.total = t.total
      <4>1. Before(k, o, t)
        BY <1>1, <2>1, <2>3, <3>1, Zenon DEF Agreed
      <4>2. QED
        BY <4>1, Zenon DEF Before
    <3>3. offers'[j] = Told'[j]
      BY <1>5, <1>6, <1>7, <2>3, <3>2
    <3>4. ASSUME NEW b \in Clients PROVE ~Book!Touches(b, j)'
      <4>1. job'[b].at = "idle"
        BY <1>8, <1>17, <1>18 DEF OthersIdle
      <4>2. QED
        BY <4>1, TouchesIsNext DEF About, Taking
    <3>5. QED
      BY <3>3, <3>4 DEF Agreed
  <2>4. QED
    BY <2>2, <2>3
<1>19. ASSUME ~overlapped' /\ trades' = 0 /\ crashes' = 0, NEW h \in Owners PROVE CoveredAll(h)'
  <2>1. CoveredAll(h)
    BY <1>0, <1>3, <1>19 DEF AllCovered
  <2>2. Book!Committed(h)' = Book!Committed(h) + Share(p, h) - Share(o, h)
    BY <1>0, <1>1, <1>3, <1>4, <1>filled, <1>10, CommittedChanges
  <2>3. Book!Committed(h) <= held[h] /\ Book!Committed(h) \in Nat /\ held[h] \in Nat
    BY <1>0, <2>1, CommittedType, BookKinds DEF CoveredAll
  <2>4. Share(p, h) = Share(o, h) /\ Share(o, h) \in Nat
    <3>1. Share(o, h) \in Nat
      BY <1>4, ShareType
    <3>2. CASE o.remaining = 0
      BY <1>5, <3>1, <3>2 DEF Share
    <3>3. CASE o.remaining # 0
      BY <1>5, <3>1, <3>3 DEF Share
    <3>4. QED
      BY <3>2, <3>3
  <2>5. Book!Committed(h)' <= held'[h]
    BY <1>3, <2>2, <2>3, <2>4
  <2>6. CoveredBy(job[c], h)'
    BY <1>8 DEF CoveredBy
  <2>7. QED
    BY <1>17, <1>19, <2>5, <2>6, CoveredNext
<1>20. QED
  BY <1>10, <1>11, <1>13, <1>16, <1>17, <1>18, <1>19 DEF BookInv, AllCounted, AllAgreed, AllCovered
-----------------------------------------------------------------------------
(* The offers: the rest of the rail, a restart, and every step *)

LEMMA KeepsTrade ==
    ASSUME Book!BookConstants, BookInv, NEW g \in Owners, NEW h \in Owners, NEW n \in 1..Supply, Book!Trade(g, h, n)
    PROVE  BookInv'
<1>0. BookTypes /\ AllGiven /\ AllAsked /\ AllCounted /\ AllAgreed
  BY DEF BookInv
<1>1. /\ held' \in [Owners -> Nat] /\ trades' \in Nat /\ trades' # 0 /\ Told' = Told
      /\ UNCHANGED <<offers, seq, chain, job, sold, withdrawn, overlapped, crashes>>
  BY <1>0, TradeEffect
<1>2. BookTypes'
  <2>1. ChainIs(seq')
    BY <1>0, <1>1, ChainStays
  <2>2. QED
    BY <1>0, <1>1, <2>1, BookKinds, TypesNext
<1>3. AllGiven' /\ SellersStay
  BY <1>0, <1>1, GivenStays
<1>4. AllAsked'
  BY <1>0, <1>1, <1>3, AskedNext
<1>5. ASSUME NEW j PROVE /\ AllHeld(j)' = AllHeld(j)
                         /\ Book!Quiet(j)' <=> Book!Quiet(j)
  BY <1>1, HeldStays, QuietWhenSame
<1>6. AllCounted'
  <2>1. ASSUME crashes' = 0, NEW j \in Book!Ids PROVE Counted(j)'
    <3>1. Counted(j)
      BY <1>0, <1>1, <2>1 DEF AllCounted
    <3>2. QED
      BY <1>1, <1>5, <3>1, CountedSame
  <2>2. QED
    BY <2>1 DEF AllCounted
<1>7. AllAgreed'
  <2>1. ASSUME ~overlapped', NEW j \in Book!Ids PROVE Agreed(j)'
    <3>1. Agreed(j)
      BY <1>0, <1>1, <2>1 DEF AllAgreed
    <3>2. QED
      BY <1>1, <3>1, AgreedSame
  <2>2. ~overlapped' => OneRequest'
    BY <1>0, <1>1 DEF AllAgreed, OneRequest
  <2>3. QED
    BY <2>1, <2>2 DEF AllAgreed
<1>8. AllCovered'
  BY <1>1 DEF AllCovered
<1>9. QED
  BY <1>2, <1>3, <1>4, <1>6, <1>7, <1>8 DEF BookInv

LEMMA KeepsRestart ==
    ASSUME Book!BookConstants, BookInv, Book!Restart PROVE BookInv'
<1>0. BookTypes /\ AllGiven /\ AllAsked
  BY DEF BookInv
<1>1. /\ offers' = Told /\ Told' = Told /\ job' = [c \in Clients |-> NoAsk]
      /\ crashes' \in Nat /\ crashes' # 0
      /\ UNCHANGED <<seq, chain, held, sold, withdrawn, overlapped, trades>>
  BY <1>0, RestartEffect
<1>2. NoAsk \in Requests /\ NoAsk.at = "idle" /\ \A c \in Clients : job'[c] = NoAsk
  BY <1>1, NoAskType
<1>3. BookTypes'
  <2>1. ChainIs(seq') /\ job' \in [Clients -> Requests]
    BY <1>0, <1>1, <1>2, ChainStays
  <2>2. QED
    BY <1>0, <1>1, <2>1, BookKinds, TypesNext
<1>4. AllGiven'
  BY <1>0, <1>1 DEF AllGiven, GivenOut
<1>5. AllAsked'
  BY <1>2 DEF AllAsked, Asked, Taking
<1>6. AllCounted' /\ AllCovered'
  BY <1>1 DEF AllCounted, AllCovered
<1>7. AllAgreed'
  <2>1. OneRequest'
    BY <1>2 DEF OneRequest
  <2>2. ASSUME NEW j \in Book!Ids PROVE Agreed(j)'
    <3>1. offers'[j] = Told'[j]
      BY <1>1
    <3>2. ASSUME NEW b \in Clients PROVE ~Book!Touches(b, j)'
      BY <1>2, TouchesIsNext DEF About, Taking
    <3>3. QED
      BY <3>1, <3>2 DEF Agreed
  <2>3. QED
    BY <2>1, <2>2 DEF AllAgreed
<1>8. QED
  BY <1>3, <1>4, <1>5, <1>6, <1>7 DEF BookInv

LEMMA BookSame == ASSUME BookInv, UNCHANGED Book!vars PROVE BookInv'
<1>1. UNCHANGED <<offers, seq, chain, held, job, sold, withdrawn, overlapped, trades, crashes>>
  BY Zenon DEF Book!vars, Book!book, Book!history, Book!budget, Book!reqs
<1>2. Told' = Told
  BY <1>1, ToldStays
<1>3. BookTypes' /\ AllGiven' /\ AllAsked'
  BY <1>1, <1>2 DEF BookInv, BookTypes, AllGiven, GivenOut, AllAsked, Asked
<1>4. ASSUME NEW j PROVE /\ AllHeld(j)' = AllHeld(j)
                         /\ Book!Quiet(j)' <=> Book!Quiet(j)
  BY <1>1, HeldStays, QuietWhenSame
<1>5. AllCounted'
  BY <1>1, <1>4, CountedSame DEF BookInv, AllCounted
<1>6. AllAgreed'
  <2>1. ASSUME NEW j, Agreed(j) PROVE Agreed(j)'
    BY <1>1, <1>2, <2>1, AgreedSame
  <2>2. QED
    BY <1>1, <2>1 DEF BookInv, AllAgreed, OneRequest
<1>7. AllCovered'
  <2>1. ASSUME NEW h, CoveredAll(h) PROVE CoveredAll(h)'
    <3>1. Book!Committed(h)' = Book!Committed(h)
      BY <1>1, CommittedStays
    <3>2. QED
      BY <1>1, <2>1, <3>1 DEF CoveredAll, CoveredBy
  <2>2. QED
    BY <1>1, <2>1 DEF BookInv, AllCovered
<1>8. QED
  BY <1>3, <1>5, <1>6, <1>7 DEF BookInv

LEMMA BookNext ==
    ASSUME Book!BookConstants, BookInv, [Book!Next]_Book!vars PROVE BookInv'
<1>1. CASE UNCHANGED Book!vars
  BY <1>1, BookSame
<1>2. CASE Book!Next
  <2>1. ASSUME NEW c \in Clients, NEW h \in Owners, NEW n \in 1..Supply, Book!CreateOffer(c, h, n) PROVE BookInv'
    BY <2>1, KeepsCreate
  <2>2. ASSUME NEW c \in Clients, Book!Register(c) PROVE BookInv'
    BY <2>2, KeepsRegister
  <2>3. ASSUME NEW c \in Clients, NEW i \in Book!Ids, NEW h \in Owners, NEW n \in 1..Supply, NEW d \in BOOLEAN,
               Book!Take(c, i, h, n, d)
        PROVE  BookInv'
    BY <2>3, KeepsTake
  <2>4. ASSUME NEW c \in Clients, Book!SettleDvP(c) \/ Book!Restore(c) \/ Book!Fill(c) PROVE BookInv'
    BY <2>4, KeepsDeal, KeepsRestore, KeepsFill
  <2>5. ASSUME NEW i \in Book!Ids, NEW h \in Owners, Book!CancelOffer(i, h) PROVE BookInv'
    BY <2>5, KeepsCancel
  <2>6. ASSUME NEW g \in Owners, NEW h \in Owners, NEW n \in 1..Supply, Book!Trade(g, h, n) PROVE BookInv'
    BY <2>6, KeepsTrade
  <2>7. ASSUME Book!Restart PROVE BookInv'
    BY <2>7, KeepsRestart
  <2>8. QED
    BY <1>2, <2>1, <2>2, <2>3, <2>4, <2>5, <2>6, <2>7, Zenon DEF Book!Next
<1>3. QED
  BY <1>1, <1>2

LEMMA BookInit == ASSUME Book!BookConstants, Book!Init PROVE BookInv
<1>0. /\ offers = NoOffers /\ seq = 0 /\ chain = <<>> /\ held = [h \in Owners |-> Supply]
      /\ job = [c \in Clients |-> NoAsk] /\ sold = [j \in Book!Ids |-> 0] /\ withdrawn = {}
      /\ overlapped = FALSE /\ trades = 0 /\ crashes = 0
  BY IdleIsNoAsk, Zenon DEF Book!Init, NoOffers
<1>1. Told = NoOffers
  BY <1>0, ToldNothing
<1>2. /\ Book!NoOffer \in OfferState /\ Book!NoOffer.remaining = 0 /\ Book!NoOffer.total = 0
      /\ Book!NoOffer.status = "NONE"
  <2>1. Book!NoOffer = Offer(Book!Someone, 0, 0, "NONE")
    BY DEF Book!NoOffer, Offer
  <2>2. "NONE" \in Book!Statuses
    BY DEF Book!Statuses
  <2>3. Book!NoOffer \in OfferState
    BY <2>1, <2>2, OfferType, BookSets
  <2>4. QED
    BY <2>3 DEF Book!NoOffer
<1>3. \A j \in Book!Ids : offers[j] = Book!NoOffer /\ Told[j] = Book!NoOffer /\ sold[j] = 0
  BY <1>0, <1>1 DEF NoOffers
<1>4. NoAsk \in Requests /\ NoAsk.at = "idle" /\ \A c \in Clients : job[c] = NoAsk
  BY <1>0, NoAskType
<1>5. BookTypes
  <2>1. offers \in [Book!Ids -> OfferState] /\ Told \in [Book!Ids -> OfferState]
    BY <1>0, <1>1, <1>2 DEF NoOffers
  <2>2. chain \in Seq(Blocks) /\ \A i \in DOMAIN chain : chain[i].id \in 1..seq
    BY <1>0
  <2>3. seq \in 0..MaxOffers /\ held \in [Owners -> Nat] /\ job \in [Clients -> Requests] /\ sold \in [Book!Ids -> Nat]
    BY <1>0, <1>4, BookSets
  <2>4. withdrawn \subseteq 1..seq /\ overlapped \in BOOLEAN /\ crashes \in Nat /\ trades \in Nat
    BY <1>0
  <2>5. QED
    BY <2>1, <2>2, <2>3, <2>4 DEF BookTypes
<1>6. AllGiven
  <2>1. \A j \in Book!Ids : ~(j <= seq)
    BY <1>0, BookSets
  <2>2. QED
    BY <1>3, <2>1 DEF AllGiven, GivenOut
<1>7. AllAsked
  BY <1>4 DEF AllAsked, Asked, Taking
<1>8. \A j : Book!Quiet(j)
  BY <1>4, QuietIs DEF About, Taking
<1>9. AllCounted
  <2>1. ASSUME NEW j \in Book!Ids PROVE Counted(j)
    <3>1. AllHeld(j) = 0
      BY <1>5, <1>8, NothingHeld
    <3>2. QED
      BY <1>2, <1>3, <3>1 DEF Counted
  <2>2. QED
    BY <2>1 DEF AllCounted
<1>10. AllAgreed
  <2>1. ASSUME NEW j \in Book!Ids PROVE Agreed(j)
    BY <1>3, <1>8 DEF Agreed, Book!Quiet
  <2>2. QED
    BY <1>4, <2>1 DEF AllAgreed, OneRequest
<1>11. AllCovered
  <2>1. ASSUME NEW h \in Owners PROVE CoveredAll(h)
    <3>1. Book!Committed(h) = 0
      <4>1. \A j \in Book!Ids : OnSale(h)[j] = 0
        BY <1>2, <1>3 DEF OnSale, Share
      <4>2. Total(OnSale(h), Book!Ids) = 0 * Cardinality(Book!Ids)
        BY <4>1, BookSets, ConstantTotal
      <4>3. Cardinality(Book!Ids) \in Nat
        BY BookSets, FS_CardinalityType
      <4>4. Book!Committed(h) = Total(OnSale(h), Book!Ids)
        BY <1>5, CommittedIsTotal
      <4>5. QED
        BY <4>2, <4>3, <4>4
    <3>2. held[h] \in Nat
      BY <1>5, BookKinds
    <3>3. \A c \in Clients : CoveredBy(job[c], h)
      BY <1>4, IdleCovered
    <3>4. QED
      BY <3>1, <3>2, <3>3 DEF CoveredAll
  <2>2. QED
    BY <2>1 DEF AllCovered
<1>12. QED
  BY <1>5, <1>6, <1>7, <1>9, <1>10, <1>11 DEF BookInv

\* What the invariant says of the offers.
LEMMA BookIsTrue ==
    ASSUME Book!BookConstants, BookInv
    PROVE  Book!TypeOK /\ Book!NeverOversold /\ Book!StatusFollowsUnits /\ Book!OffersBacked /\ Book!LedgerAgrees
<1>1. BookTypes /\ AllGiven /\ AllAsked /\ AllCounted /\ AllAgreed /\ AllCovered
  BY DEF BookInv
<1>2. ASSUME NEW j \in Book!Ids
      PROVE  offers[j].remaining \in Nat /\ sold[j] \in Nat /\ AllHeld(j) \in Nat
  BY <1>1, BookKinds, EachOffer, HeldType
<1>3. Book!TypeOK
  BY <1>1 DEF BookTypes, Book!TypeOK, OfferState, Requests
<1>4. Book!NeverOversold
  <2>1. ASSUME crashes = 0, NEW j \in Book!Ids PROVE sold[j] <= offers[j].total
    <3>1. offers[j].remaining + sold[j] + AllHeld(j) = offers[j].total
      BY <1>1, <2>1 DEF AllCounted, Counted
    <3>2. QED
      BY <1>2, <3>1
  <2>2. QED
    BY <2>1 DEF Book!NeverOversold
<1>5. Book!StatusFollowsUnits
  <2>1. ASSUME crashes = 0, NEW j \in 1..seq, Book!Quiet(j)
        PROVE  /\ offers[j].remaining + sold[j] = offers[j].total
               /\ offers[j].status = "FILLED" => offers[j].remaining = 0
               /\ offers[j].status = "OPEN" => offers[j].remaining > 0
    <3>1. j \in Book!Ids
      BY <1>1, BookSets, BookKinds
    <3>2. Counted(j)
      BY <1>1, <2>1, <3>1 DEF AllCounted
    <3>3. AllHeld(j) = 0
      BY <1>1, <2>1, NothingHeld
    <3>4. QED
      BY <1>2, <2>1, <3>1, <3>2, <3>3 DEF Counted
  <2>2. QED
    BY <2>1, Zenon DEF Book!StatusFollowsUnits
<1>6. Book!OffersBacked
  BY <1>1, Zenon DEF AllCovered, CoveredAll, Book!OffersBacked
<1>7. Book!LedgerAgrees
  BY <1>1, Zenon DEF AllAgreed, Agreed, Book!LedgerAgrees, Told
<1>8. QED
  BY <1>3, <1>4, <1>5, <1>6, <1>7

-----------------------------------------------------------------------------
(* Behaviours about the supply, about the tables and about the offers *)

LEMMA CapStart == ASSUME MCInit, topic = "supply" PROVE Cap!Init
BY Zenon DEF MCInit, SupplyBegins

LEMMA CapGoesOn ==
    ASSUME [MCNext]_everything
    PROVE  topic' = topic /\ (topic = "supply" => [Cap!Next]_Cap!vars)
<1>1. CASE MCNext
  BY <1>1, Zenon DEF MCNext
<1>2. CASE UNCHANGED everything
  <2>1. UNCHANGED <<topic, keys, faults, crashes, rail, supply, market, shared>>
    BY <1>2, Zenon DEF everything
  <2>2. UNCHANGED Cap!vars
    BY <2>1 DEF Cap!vars, supply, shared
  <2>3. QED
    BY <2>1, <2>2
<1>3. QED
  BY <1>1, <1>2

TablesInv ==
    /\ topic = "rail" => RailInv
    /\ topic = "supply" => SupplyInv

LEMMA TablesBegin == MCInit => TablesInv
BY RailStart, TablesInit, RailIsSetUp, CapStart, SupplyStart, SupplyIsSetUp DEF TablesInv

LEMMA TablesGoOn == TablesInv /\ [MCNext]_everything => TablesInv'
<1> SUFFICES ASSUME TablesInv, [MCNext]_everything PROVE TablesInv'
  OBVIOUS
<1>1. topic' = topic
  BY RailGoesOn
<1>2. CASE topic = "rail"
  <2>1. [Rail!Next]_Rail!vars /\ RailInv
    BY <1>2, RailGoesOn DEF TablesInv
  <2>2. RailInv'
    BY <2>1, RailNext, RailIsSetUp
  <2>3. QED
    BY <1>1, <1>2, <2>2 DEF TablesInv
<1>3. CASE topic = "supply"
  <2>1. [Cap!Next]_Cap!vars /\ SupplyInv
    BY <1>3, CapGoesOn DEF TablesInv
  <2>2. SupplyInv'
    BY <2>1, SupplyNext, SupplyIsSetUp
  <2>3. QED
    BY <1>1, <1>3, <2>2 DEF TablesInv
<1>4. CASE topic # "rail" /\ topic # "supply"
  BY <1>1, <1>4 DEF TablesInv
<1>5. QED
  BY <1>2, <1>3, <1>4

\* The tables catch up with memory however the requests interleave and their writes are delayed or
\* fail: the mirror, the settlements and the revisions of the rail (umi_store.go, persist), and the
\* positions of an asset whose calls have ended (snapPositions and the guard on rev).
THEOREM TablesDoCatchUp == MCSpec => []TablesCatchUp
<1>1. TablesInv => TablesCatchUp
  BY TablesAreRight, StoreFollows DEF TablesInv, TablesCatchUp
<1>2. QED
  BY <1>1, TablesBegin, TablesGoOn, PTL DEF MCSpec

\* However the calls on one asset interleave, crash and restart: a seed alone with the book stays
\* within the cap, a declared cap is final, a retirement takes its tokens once, and a restart gives
\* none of the room back (SeedPosition, RestateSupply, RetireCredits).
THEOREM SupplyStaysKept == MCSpec => SupplyIsKept
<1>1. TablesInv /\ [MCNext]_everything => [topic = "supply" => Cap!SupplyStep]_everything
  BY CapGoesOn, StepKept, SupplyIsSetUp DEF TablesInv
<1>2. QED
  BY <1>1, TablesBegin, TablesGoOn, PTL DEF MCSpec, SupplyIsKept

LEMMA BookBegins == ASSUME MCInit, topic = "offers" PROVE Book!Init
BY Zenon DEF MCInit, MarketBegins

LEMMA BookGoesOn ==
    ASSUME [MCNext]_everything
    PROVE  topic' = topic /\ (topic = "offers" => [Book!Next]_Book!vars)
<1>1. CASE MCNext
  BY <1>1, Zenon DEF MCNext
<1>2. CASE UNCHANGED everything
  <2>1. UNCHANGED <<topic, keys, faults, crashes, rail, supply, market, shared>>
    BY <1>2, Zenon DEF everything
  <2>2. UNCHANGED Book!vars
    BY <2>1 DEF Book!vars, Book!book, Book!history, Book!budget, Book!reqs, market, shared
  <2>3. QED
    BY <2>1, <2>2
<1>3. QED
  BY <1>1, <1>2

\* However listings, takes, withdrawals, trades and restarts interleave: no offer is oversold before a
\* restart and each says what is left of it; and while requests come one at a time the open offers
\* are covered by what their sellers hold, and are what the blocks tell (marketplace.go, chainstate.go).
THEOREM OffersStayTrue == MCSpec => []OffersAreTrue
<1> DEFINE Inv == topic = "offers" => BookInv
<1>1. MCInit => Inv
  BY BookBegins, BookInit, OffersAreSetUp
<1>2. Inv /\ [MCNext]_everything => Inv'
  BY BookGoesOn, BookNext, OffersAreSetUp
<1>3. Inv => OffersAreTrue
  BY BookIsTrue, OffersAreSetUp DEF OffersAreTrue
<1>4. QED
  BY <1>1, <1>2, <1>3, PTL DEF MCSpec
=============================================================================
