------------------------- MODULE Settlement_proofs -------------------------
(***************************************************************************)
(* What a trade goes through on the Go side, for any number of everything: *)
(* the idempotency keys and the settlement rail (the supply and the offers *)
(* are in TokenBooks_proofs).  A behaviour of MCSettlement is about one of *)
(* its four parts, its topic.                                              *)
(*                                                                         *)
(* Keys (KeysAreDecided).  A key that its store decides alone moves money  *)
(* at most once and is answered with one result, its own.  The argument is *)
(* about one key at a time.  Of the calls on a key at most one holds it:   *)
(* it made the record, and the record stays unfinished while it runs.      *)
(* Money has moved only if the holder has its result, and an answer is out *)
(* only if there is no holder; as the record then never goes away, no      *)
(* later call can hold the key.                                            *)
(*                                                                         *)
(* Rail (NothingIsMadeOrLost, by MoneyInv).  No request makes or loses     *)
(* money or tokens.  A distribution fixes its shares before it takes the   *)
(* lock, so the invariant says what each request carries: the weights it   *)
(* read leave the payer out and do not add up to nothing, and the tables   *)
(* are finite.                                                             *)
(*                                                                         *)
(* Rail's tables (TablesDoCatchUp, by RailInv).  What is left of a request *)
(* is one of fifteen lists of steps (Plans), and the list says what the    *)
(* request has in hand (JobsInv).  Of the rows of a wallet or a position,  *)
(* in the store or in some request's hands, the newest says what memory    *)
(* says (MirrorInv); none is above the process's revision (RevInv); and    *)
(* what is stored has its rows and names its block (StoredInv).            *)
(***************************************************************************)
EXTENDS MCSettlement, FiniteSums, Sequences, TLAPS
-----------------------------------------------------------------------------
(* The keys: what decides them *)

\* What decides a key: its row, or its entry in memory.
Decides(k) == IF durable THEN table[k] ELSE mem[k]

\* Where a call on a key that is decided alone can be.
Ways == IF durable THEN Points \ {"idle", "memory"} ELSE {"memory", "run", "complete", "release"}

On(c, k) == call[c].at # "idle" /\ call[c].key = k
InHand == {"won", "run", "complete", "record", "release", "drop"}
HasResult == {"complete", "record"}
Holds(c, k) == call[c].key = k /\ call[c].at \in InHand

\* The holder is alone, and the record is its own and unfinished.
OneHolder(k) ==
    /\ \A c \in Clients : On(c, k) => call[c].at \in Ways
    /\ \A c, d \in Clients : Holds(c, k) /\ Holds(d, k) => c = d
    /\ \A c \in Clients : Holds(c, k) =>
          /\ Decides(k) # NoRecord /\ ~Decides(k).done
          /\ Decides(k).fingerprint = call[c].body
          /\ call[c].at \in HasResult => call[c].result.body = call[c].body

\* Money has moved once at most, and then the holder, if any, has its result.
Moved(k) ==
    /\ settled[k] \in {0, 1}
    /\ settled[k] = 1 =>
          Decides(k) # NoRecord /\ \A c \in Clients : Holds(c, k) => call[c].at \in HasResult

\* What has been answered is the record's, and nobody holds the key any more.
Answered(k) ==
    /\ Decides(k) # NoRecord /\ Decides(k).done => Decides(k).result.body = Decides(k).fingerprint
    /\ \A a \in answers : a.key = k =>
          /\ Decides(k) # NoRecord /\ \A c \in Clients : ~Holds(c, k)
          /\ a.asked = Decides(k).fingerprint /\ a.result.body = a.asked
          /\ Decides(k).done => a.result = Decides(k).result
    /\ \A a, b \in answers : a.key = k /\ b.key = k => a.result = b.result

\* What an update does to the record of its key, if there is one.
Updated(rec, new, r) ==
    rec # NoRecord => new # NoRecord /\ new.done /\ new.result = r /\ new.fingerprint = rec.fingerprint

Alone(k) == OneHolder(k) /\ Moved(k) /\ Answered(k)
KeyInv(k) == Decided(k) => Alone(k)

IInv == TypeOK /\ \A k \in Keys : KeyInv(k)
-----------------------------------------------------------------------------
(* The keys: type correctness *)

LEMMA NoResultIsResult == NoResult \in Result
  BY DEF Result

LEMMA FreshIsRecord ==
  ASSUME NEW b \in Bodies
  PROVE  Fresh(b) \in IdemRecord
  BY NoResultIsResult DEF Fresh, IdemRecord

\* A call that is on its way has a key, a body and a result.
LEMMA OnItsWay ==
  ASSUME TypeOK, NEW c \in Clients, call[c].at # "idle"
  PROVE  /\ call[c].at \in Points \ {"idle"} /\ call[c].key \in Keys /\ call[c].body \in Bodies
         /\ call[c].result \in Result
         /\ call[c] \in [at : Points \ {"idle"}, key : Keys, body : Bodies, result : Result]
  <1>1. call[c] \in [at : Points \ {"idle"}, key : Keys, body : Bodies, result : Result] \cup {Idle}
    BY DEF TypeOK, Call
  <1>2. call[c] # Idle
    BY DEF Idle
  <1> QED
    BY <1>1, <1>2

LEMMA GoesTyped ==
  ASSUME TypeOK, NEW c \in Clients, NEW to \in Call, Goes(c, to)
  PROVE  call' \in [Clients -> Call]
  BY DEF TypeOK, Goes

LEMMA ThenTyped ==
  ASSUME TypeOK, NEW c \in Clients, call[c].at # "idle", NEW step \in Points \ {"idle"}, Then(c, step)
  PROVE  call' \in [Clients -> Call]
  <1>1. [call[c] EXCEPT !.at = step] \in Call
    BY OnItsWay DEF Call
  <1> QED
    BY <1>1, GoesTyped DEF Then

LEMMA IdleTyped ==
  ASSUME TypeOK, NEW c \in Clients, Goes(c, Idle)
  PROVE  call' \in [Clients -> Call]
  BY GoesTyped DEF Call

LEMMA UpdateTyped ==
  ASSUME NEW f \in [Keys -> IdemRecord \cup {NoRecord}], NEW k \in Keys, NEW r \in Result
  PROVE  Update(f, k, r) \in [Keys -> IdemRecord \cup {NoRecord}]
  <1>1. CASE f[k] = NoRecord
    BY <1>1 DEF Update
  <1>2. CASE f[k] # NoRecord
    <2>1. f[k] \in IdemRecord
      BY <1>2
    <2>2. [[f[k] EXCEPT !.done = TRUE] EXCEPT !.result = r] \in IdemRecord
      BY <2>1 DEF IdemRecord
    <2>3. Update(f, k, r) = [f EXCEPT ![k] = [[f[k] EXCEPT !.done = TRUE] EXCEPT !.result = r]]
      BY <1>2, <2>1 DEF Update, IdemRecord
    <2> QED
      BY <2>2, <2>3
  <1> QED
    BY <1>1, <1>2

LEMMA UpdateOne ==
  ASSUME NEW f \in [Keys -> IdemRecord \cup {NoRecord}], NEW k \in Keys, NEW r \in Result
  PROVE  Updated(f[k], Update(f, k, r)[k], r)
  <1> SUFFICES ASSUME f[k] # NoRecord
               PROVE  LET new == Update(f, k, r)[k] IN
                      new # NoRecord /\ new.done /\ new.result = r /\ new.fingerprint = f[k].fingerprint
    BY DEF Updated
  <1>1. f[k] \in IdemRecord
    OBVIOUS
  <1>2. Update(f, k, r)[k] = [[f[k] EXCEPT !.done = TRUE] EXCEPT !.result = r]
    BY <1>1 DEF Update, IdemRecord
  <1>3. LET new == [[f[k] EXCEPT !.done = TRUE] EXCEPT !.result = r] IN
        new \in IdemRecord /\ new.done /\ new.result = r /\ new.fingerprint = f[k].fingerprint
    BY <1>1 DEF IdemRecord
  <1> QED
    BY <1>2, <1>3, IdemConstants

LEMMA DroppedTyped ==
  ASSUME NEW f \in [Keys -> IdemRecord \cup {NoRecord}], NEW k \in Keys
  PROVE  Dropped(f, k) \in [Keys -> IdemRecord \cup {NoRecord}]
  BY DEF Dropped

LEMMA ClassifiedTyped ==
  ASSUME TypeOK, NEW c \in Clients, call[c].at # "idle", NEW rec \in IdemRecord, Classified(c, rec)
  PROVE  /\ call' \in [Clients -> Call]
         /\ answers' \subseteq [key : Keys, asked : Bodies, result : Result]
  <1>1. call' \in [Clients -> Call]
    BY IdleTyped DEF Classified
  <1>2. [key |-> call[c].key, asked |-> call[c].body, result |-> rec.result]
          \in [key : Keys, asked : Bodies, result : Result]
    BY OnItsWay DEF IdemRecord
  <1> QED
    BY <1>1, <1>2 DEF Classified, TypeOK

LEMMA AnswerTyped ==
  ASSUME TypeOK, NEW c \in Clients, call[c].at # "idle", Answer(c)
  PROVE  /\ call' \in [Clients -> Call]
         /\ answers' \subseteq [key : Keys, asked : Bodies, result : Result]
  <1>1. call' \in [Clients -> Call]
    BY IdleTyped DEF Answer
  <1>2. [key |-> call[c].key, asked |-> call[c].body, result |-> call[c].result]
          \in [key : Keys, asked : Bodies, result : Result]
    BY OnItsWay
  <1> QED
    BY <1>1, <1>2 DEF Answer, TypeOK

LEMMA InitTypeOK == Init => TypeOK
  BY DEF Init, TypeOK, Call

LEMMA NextTypeOK == TypeOK /\ [Next]_vars => TypeOK'
  <1> SUFFICES ASSUME TypeOK, [Next]_vars PROVE TypeOK'
    OBVIOUS
  <1> USE DEF Is, Fault, store, told, budget
  <1>1. ASSUME NEW c \in Clients, NEW k \in Keys, NEW b \in Bodies, Request(c, k, b) PROVE TypeOK'
    <2>1. [Idle EXCEPT !.at = IF durable THEN "claim" ELSE "memory", !.key = k, !.body = b] \in Call
      BY NoResultIsResult DEF Idle, Call, Points
    <2>2. call' \in [Clients -> Call]
      BY <1>1, <2>1, GoesTyped DEF Request
    <2> QED
      BY <1>1, <2>2 DEF Request, TypeOK
  <1>2. ASSUME NEW c \in Clients, Claim(c) PROVE TypeOK'
    <2>1. call' \in [Clients -> Call]
      BY <1>2, ThenTyped DEF Claim, Points
    <2>2. table' \in [Keys -> IdemRecord \cup {NoRecord}]
      BY <1>2, OnItsWay, FreshIsRecord DEF Claim, TypeOK
    <2> QED
      BY <1>2, <2>1, <2>2 DEF Claim, TypeOK
  <1>3. ASSUME NEW c \in Clients, ClaimFails(c) PROVE TypeOK'
    <2>1. call' \in [Clients -> Call]
      BY <1>3, ThenTyped DEF ClaimFails, Points
    <2>2. table' \in [Keys -> IdemRecord \cup {NoRecord}]
      BY <1>3, OnItsWay, FreshIsRecord DEF ClaimFails, TypeOK
    <2>3. fellBack' \subseteq Keys
      BY <1>3, OnItsWay DEF ClaimFails, TypeOK
    <2> QED
      BY <1>3, <2>1, <2>2, <2>3 DEF ClaimFails, TypeOK
  <1>4. ASSUME NEW c \in Clients, Mirror(c) PROVE TypeOK'
    <2>1. call' \in [Clients -> Call]
      BY <1>4, ThenTyped DEF Mirror, Points
    <2>2. mem' \in [Keys -> IdemRecord \cup {NoRecord}]
      BY <1>4, OnItsWay, FreshIsRecord DEF Mirror, TypeOK
    <2> QED
      BY <1>4, <2>1, <2>2 DEF Mirror, TypeOK
  <1>5. ASSUME NEW c \in Clients, Get(c) PROVE TypeOK'
    <2>1. CASE table[call[c].key] # NoRecord /\ Classified(c, table[call[c].key])
      <3>1. table[call[c].key] \in IdemRecord
        BY <1>5, <2>1, OnItsWay DEF Get, TypeOK
      <3>2. /\ call' \in [Clients -> Call]
            /\ answers' \subseteq [key : Keys, asked : Bodies, result : Result]
        BY <1>5, <2>1, <3>1, ClassifiedTyped DEF Get
      <3> QED
        BY <1>5, <2>1, <3>2 DEF Get, Classified, TypeOK
    <2>2. CASE table[call[c].key] = NoRecord
      <3>1. call' \in [Clients -> Call]
        BY <1>5, <2>2, ThenTyped DEF Get, Points
      <3>2. fellBack' \subseteq Keys
        BY <1>5, <2>2, OnItsWay DEF Get, TypeOK
      <3> QED
        BY <1>5, <2>2, <3>1, <3>2 DEF Get, TypeOK
    <2> QED
      BY <1>5, <2>1, <2>2 DEF Get
  <1>6. ASSUME NEW c \in Clients, Memory(c) PROVE TypeOK'
    <2>1. CASE ~Free(mem[call[c].key]) /\ Classified(c, mem[call[c].key])
      <3>1. mem[call[c].key] \in IdemRecord
        BY <1>6, <2>1, OnItsWay DEF Memory, Free, TypeOK
      <3>2. /\ call' \in [Clients -> Call]
            /\ answers' \subseteq [key : Keys, asked : Bodies, result : Result]
        BY <1>6, <2>1, <3>1, ClassifiedTyped DEF Memory
      <3> QED
        BY <1>6, <2>1, <3>2 DEF Memory, Classified, TypeOK
    <2>2. CASE Free(mem[call[c].key])
      <3>1. call' \in [Clients -> Call]
        BY <1>6, <2>2, ThenTyped DEF Memory, Points
      <3>2. mem' \in [Keys -> IdemRecord \cup {NoRecord}]
        BY <1>6, <2>2, OnItsWay, FreshIsRecord DEF Memory, TypeOK
      <3> QED
        BY <1>6, <2>2, <3>1, <3>2 DEF Memory, TypeOK
    <2> QED
      BY <1>6, <2>1, <2>2 DEF Memory
  <1>7. ASSUME NEW c \in Clients, NEW outcome \in Outcomes, Run(c, outcome) PROVE TypeOK'
    <2>1. [call[c] EXCEPT !.at = "complete", !.result = [body |-> call[c].body, outcome |-> outcome]] \in Call
      BY <1>7, OnItsWay DEF Run, Call, Points, Result
    <2>2. call' \in [Clients -> Call]
      BY <1>7, <2>1, GoesTyped DEF Run
    <2>3. settled[call[c].key] + 1 \in Nat
      BY <1>7, OnItsWay DEF Run, TypeOK
    <2>4. settled' \in [Keys -> Nat]
      BY <1>7, <2>3 DEF Run, TypeOK
    <2> QED
      BY <1>7, <2>2, <2>4 DEF Run, TypeOK
  <1>8. ASSUME NEW c \in Clients, Refuse(c) PROVE TypeOK'
    <2>1. call' \in [Clients -> Call]
      BY <1>8, ThenTyped DEF Refuse, Points
    <2> QED
      BY <1>8, <2>1 DEF Refuse, TypeOK
  <1>9. ASSUME NEW c \in Clients, Complete(c) PROVE TypeOK'
    <2>1. mem' \in [Keys -> IdemRecord \cup {NoRecord}]
      BY <1>9, OnItsWay, UpdateTyped DEF Complete, TypeOK
    <2>2. CASE durable
      <3>1. call' \in [Clients -> Call]
        BY <1>9, <2>2, ThenTyped DEF Complete, Points
      <3> QED
        BY <1>9, <2>1, <2>2, <3>1 DEF Complete, TypeOK
    <2>3. CASE ~durable
      BY <1>9, <2>1, <2>3, AnswerTyped DEF Complete, TypeOK
    <2> QED
      BY <2>2, <2>3
  <1>10. ASSUME NEW c \in Clients, Record(c) PROVE TypeOK'
    <2>1. table' \in [Keys -> IdemRecord \cup {NoRecord}]
      BY <1>10, OnItsWay, UpdateTyped DEF Record, TypeOK
    <2>2. /\ call' \in [Clients -> Call]
          /\ answers' \subseteq [key : Keys, asked : Bodies, result : Result]
      BY <1>10, AnswerTyped DEF Record
    <2> QED
      BY <1>10, <2>1, <2>2 DEF Record, TypeOK
  <1>11. ASSUME NEW c \in Clients, Release(c) PROVE TypeOK'
    <2>1. mem' \in [Keys -> IdemRecord \cup {NoRecord}]
      BY <1>11, OnItsWay, DroppedTyped DEF Release, TypeOK
    <2>2. call' \in [Clients -> Call]
      BY <1>11, ThenTyped, IdleTyped DEF Release, Points
    <2> QED
      BY <1>11, <2>1, <2>2 DEF Release, TypeOK
  <1>12. ASSUME NEW c \in Clients, Drop(c) PROVE TypeOK'
    <2>1. table' \in [Keys -> IdemRecord \cup {NoRecord}]
      BY <1>12, OnItsWay, DroppedTyped DEF Drop, TypeOK
    <2>2. call' \in [Clients -> Call]
      BY <1>12, IdleTyped DEF Drop
    <2> QED
      BY <1>12, <2>1, <2>2 DEF Drop, TypeOK
  <1>13. ASSUME NEW k \in Keys, Expire(k) PROVE TypeOK'
    BY <1>13 DEF Expire, TypeOK
  <1>14. ASSUME Crash PROVE TypeOK'
    <2>1. call' \in [Clients -> Call]
      BY <1>14 DEF Crash, Call
    <2>2. /\ durable' \in BOOLEAN /\ fellBack' \subseteq Keys
          /\ mem' \in [Keys -> IdemRecord \cup {NoRecord}]
      BY <1>14 DEF Crash, TypeOK
    <2>3. faults' \in Nat /\ crashes' \in Nat
      BY <1>14 DEF Crash, TypeOK
    <2> QED
      BY <1>14, <2>1, <2>2, <2>3 DEF Crash, TypeOK
  <1>15. ASSUME UNCHANGED vars PROVE TypeOK'
    BY <1>15 DEF vars, TypeOK
  <1> QED
    BY <1>1, <1>2, <1>3, <1>4, <1>5, <1>6, <1>7, <1>8, <1>9, <1>10, <1>11, <1>12, <1>13, <1>14, <1>15 DEF Next

\* The store, the calls, what was told and what was counted keep their types, for any
\* number of keys, clients and requests.  (idempotency.go)
THEOREM TypeCorrect == Spec => []TypeOK
  BY InitTypeOK, NextTypeOK, PTL DEF Spec
-----------------------------------------------------------------------------
(* The keys: what a step does to the calls *)

LEMMA GoesTo ==
  ASSUME TypeOK, NEW c \in Clients, NEW to, Goes(c, to)
  PROVE  /\ call'[c] = to
         /\ \A d \in Clients \ {c} : call'[d] = call[d]
  BY DEF TypeOK, Goes

LEMMA ThenTo ==
  ASSUME TypeOK, NEW c \in Clients, NEW step, call[c].at # "idle", Then(c, step)
  PROVE  /\ call'[c].at = step /\ call'[c].key = call[c].key /\ call'[c].body = call[c].body
         /\ call'[c].result = call[c].result
         /\ \A d \in Clients \ {c} : call'[d] = call[d]
  <1>1. call'[c] = [call[c] EXCEPT !.at = step] /\ \A d \in Clients \ {c} : call'[d] = call[d]
    BY GoesTo DEF Then
  <1> QED
    BY <1>1, OnItsWay

-----------------------------------------------------------------------------
(* The keys: one key, step by step *)

\* Everything of the key stays, but that calls on it go on or leave.
LEMMA Undisturbed ==
  ASSUME NEW k \in Keys, KeyInv(k),
         Decided(k)' => Decided(k), Decides(k)' = Decides(k), settled'[k] = settled[k],
         \A a \in answers' : a.key = k => a \in answers,
         \A d \in Clients : On(d, k)' => (call[d].at \in Ways => call'[d].at \in Ways'),
         \A d \in Clients : On(d, k)' => On(d, k) \/ call'[d].at \in Ways',
         \A d \in Clients : Holds(d, k)' =>
            /\ Holds(d, k) /\ call'[d].body = call[d].body /\ call'[d].result = call[d].result
            /\ call'[d].at \in HasResult <=> call[d].at \in HasResult
  PROVE  KeyInv(k)'
  <1> SUFFICES ASSUME Decided(k)' PROVE Alone(k)'
    BY DEF KeyInv
  <1>1. Alone(k)
    BY DEF KeyInv
  <1>2. OneHolder(k)'
    <2>1. ASSUME NEW d \in Clients, On(d, k)' PROVE call'[d].at \in Ways'
      BY <1>1, <2>1 DEF Alone, OneHolder
    <2>2. ASSUME NEW d \in Clients, NEW e \in Clients, Holds(d, k)', Holds(e, k)' PROVE d = e
      BY <1>1, <2>2 DEF Alone, OneHolder
    <2>3. ASSUME NEW d \in Clients, Holds(d, k)'
          PROVE  /\ Decides(k)' # NoRecord /\ ~Decides(k)'.done
                 /\ Decides(k)'.fingerprint = call'[d].body
                 /\ call'[d].at \in HasResult => call'[d].result.body = call'[d].body
      BY <1>1, <2>3 DEF Alone, OneHolder
    <2> QED
      BY <2>1, <2>2, <2>3 DEF OneHolder
  <1>3. Moved(k)'
    BY <1>1 DEF Alone, Moved
  <1>4. Answered(k)'
    BY <1>1 DEF Alone, Answered
  <1> QED
    BY <1>2, <1>3, <1>4 DEF Alone

\* The key was free, and a call takes it.
LEMMA Taken ==
  ASSUME NEW k \in Keys, NEW c \in Clients, KeyInv(k), Decided(k)' => Decided(k), durable' = durable,
         Decides(k) = NoRecord, settled'[k] = settled[k], answers' = answers,
         Decides(k)' # NoRecord, ~Decides(k)'.done, Decides(k)'.fingerprint = call'[c].body,
         call'[c].at \in {"won", "run"}, call'[c].at \in Ways, call'[c].key = k,
         \A d \in Clients \ {c} : call'[d] = call[d]
  PROVE  KeyInv(k)'
  <1> SUFFICES ASSUME Decided(k)' PROVE Alone(k)'
    BY DEF KeyInv
  <1>1. OneHolder(k) /\ Moved(k) /\ Answered(k)
    BY DEF KeyInv, Alone
  <1>2. \A d \in Clients : ~Holds(d, k)
    BY <1>1 DEF OneHolder
  <1>3. \A d \in Clients : Holds(d, k)' => d = c
    BY <1>2 DEF Holds
  <1>4. OneHolder(k)'
    <2>1. ASSUME NEW d \in Clients, On(d, k)' PROVE call'[d].at \in Ways'
      BY <1>1, <2>1 DEF OneHolder, On, Ways
    <2>2. ASSUME NEW d \in Clients, Holds(d, k)' PROVE call'[d].at \notin HasResult
      BY <1>3, <2>2 DEF HasResult
    <2> QED
      BY <1>3, <2>1, <2>2 DEF OneHolder
  <1>5. settled'[k] = 0 /\ Moved(k)'
    BY <1>1 DEF Moved
  <1>6. Answered(k)'
    BY <1>1 DEF Answered
  <1> QED
    BY <1>4, <1>5, <1>6 DEF Alone

\* The holder's request is settled, or fails, and has its result.
LEMMA Ran ==
  ASSUME NEW k \in Keys, NEW c \in Clients, KeyInv(k), Decided(k)' => Decided(k), durable' = durable,
         Decides(k)' = Decides(k), answers' = answers, settled'[k] \in {settled[k], settled[k] + 1},
         call[c].at = "run", call[c].key = k,
         call'[c].at = "complete", call'[c].key = k, call'[c].body = call[c].body,
         call'[c].result.body = call[c].body,
         \A d \in Clients \ {c} : call'[d] = call[d]
  PROVE  KeyInv(k)'
  <1> SUFFICES ASSUME Decided(k)' PROVE Alone(k)'
    BY DEF KeyInv
  <1>1. OneHolder(k) /\ Moved(k) /\ Answered(k)
    BY DEF KeyInv, Alone
  <1>2. Holds(c, k)
    BY DEF Holds, InHand
  <1>3. \A d \in Clients : Holds(d, k)' => d = c
    BY <1>1, <1>2 DEF OneHolder, Holds
  <1>4. OneHolder(k)'
    <2>1. ASSUME NEW d \in Clients, On(d, k)' PROVE call'[d].at \in Ways'
      BY <1>1, <2>1 DEF OneHolder, On, Ways, Points
    <2>2. Decides(k) # NoRecord /\ ~Decides(k).done /\ Decides(k).fingerprint = call[c].body
      BY <1>1, <1>2 DEF OneHolder
    <2> QED
      BY <1>3, <2>1, <2>2 DEF OneHolder
  <1>5. settled[k] = 0
    BY <1>1, <1>2 DEF Moved, HasResult
  <1>6. Moved(k)'
    <2>1. settled'[k] \in {0, 1}
      BY <1>5
    <2>2. Decides(k)' # NoRecord
      BY <1>1, <1>2 DEF OneHolder
    <2>3. \A d \in Clients : Holds(d, k)' => call'[d].at \in HasResult
      BY <1>3 DEF HasResult
    <2> QED
      BY <2>1, <2>2, <2>3 DEF Moved
  <1>7. \A a \in answers : a.key # k
    BY <1>1, <1>2 DEF Answered
  <1>8. Answered(k)'
    BY <1>1, <1>7 DEF Answered
  <1> QED
    BY <1>4, <1>6, <1>8 DEF Alone

\* The holder answers, and its result is recorded, or the write fails.
LEMMA Finished ==
  ASSUME NEW k \in Keys, NEW c \in Clients, KeyInv(k), Decided(k)' => Decided(k), durable' = durable,
         call[c].at \in HasResult, call[c].key = k, call'[c] = Idle, settled'[k] = settled[k],
         Decides(k)' = Decides(k) \/ Updated(Decides(k), Decides(k)', call[c].result),
         answers' = answers \cup {[key |-> k, asked |-> call[c].body, result |-> call[c].result]},
         \A d \in Clients \ {c} : call'[d] = call[d]
  PROVE  KeyInv(k)'
  <1> SUFFICES ASSUME Decided(k)' PROVE Alone(k)'
    BY DEF KeyInv
  <1>1. OneHolder(k) /\ Moved(k) /\ Answered(k)
    BY DEF KeyInv, Alone
  <1>2. Holds(c, k)
    BY DEF Holds, InHand, HasResult
  <1>3. \A d \in Clients : ~Holds(d, k)'
    BY <1>1, <1>2 DEF OneHolder, Holds, InHand, Idle
  <1>4. /\ Decides(k) # NoRecord /\ ~Decides(k).done /\ Decides(k).fingerprint = call[c].body
        /\ call[c].result.body = call[c].body
    BY <1>1, <1>2 DEF OneHolder
  <1>5. \A a \in answers : a.key # k
    BY <1>1, <1>2 DEF Answered
  <1>6. \A a \in answers' : a.key = k => a = [key |-> k, asked |-> call[c].body, result |-> call[c].result]
    BY <1>5
  <1>7. Decides(k)' # NoRecord /\ Decides(k)'.fingerprint = call[c].body
    BY <1>4 DEF Updated
  <1>8. Decides(k)'.done => Decides(k)'.result = call[c].result
    BY <1>4 DEF Updated
  <1>9. OneHolder(k)'
    <2>1. ASSUME NEW d \in Clients, On(d, k)' PROVE call'[d].at \in Ways'
      BY <1>1, <2>1 DEF OneHolder, On, Ways, Idle
    <2> QED
      BY <1>3, <2>1 DEF OneHolder
  <1>10. Moved(k)'
    BY <1>1, <1>3, <1>7 DEF Moved
  <1>11. Answered(k)'
    BY <1>3, <1>4, <1>6, <1>7, <1>8 DEF Answered
  <1> QED
    BY <1>9, <1>10, <1>11 DEF Alone

\* The holder refused its request and gives the key back, or the delete fails.
LEMMA GivenBack ==
  ASSUME NEW k \in Keys, NEW c \in Clients, KeyInv(k), Decided(k)' => Decided(k), durable' = durable,
         call[c].at \in {"release", "drop"}, call[c].key = k, call'[c] = Idle, settled'[k] = settled[k],
         Decides(k)' \in {NoRecord, Decides(k)}, answers' = answers,
         \A d \in Clients \ {c} : call'[d] = call[d]
  PROVE  KeyInv(k)'
  <1> SUFFICES ASSUME Decided(k)' PROVE Alone(k)'
    BY DEF KeyInv
  <1>1. OneHolder(k) /\ Moved(k) /\ Answered(k)
    BY DEF KeyInv, Alone
  <1>2. Holds(c, k)
    BY DEF Holds, InHand
  <1>3. \A d \in Clients : ~Holds(d, k)'
    BY <1>1, <1>2 DEF OneHolder, Holds, InHand, Idle
  <1>4. ~Decides(k).done
    BY <1>1, <1>2 DEF OneHolder
  <1>5. \A a \in answers : a.key # k
    BY <1>1, <1>2 DEF Answered
  <1>6. settled[k] = 0
    BY <1>1, <1>2 DEF Moved, HasResult
  <1>7. OneHolder(k)'
    <2>1. ASSUME NEW d \in Clients, On(d, k)' PROVE call'[d].at \in Ways'
      BY <1>1, <2>1 DEF OneHolder, On, Ways, Idle
    <2> QED
      BY <1>3, <2>1 DEF OneHolder
  <1>8. Moved(k)'
    BY <1>6 DEF Moved
  <1>9. Answered(k)'
    BY <1>4, <1>5 DEF Answered
  <1> QED
    BY <1>7, <1>8, <1>9 DEF Alone

\* A call finds a record of its own body that is done, and is answered with it.
LEMMA Replayed ==
  ASSUME NEW k \in Keys, NEW c \in Clients, KeyInv(k), Decided(k)' => Decided(k), durable' = durable,
         Decides(k) # NoRecord, Decides(k).done, Decides(k).fingerprint = call[c].body, Decides(k)' = Decides(k),
         call'[c] = Idle, settled'[k] = settled[k],
         answers' = answers \cup {[key |-> k, asked |-> call[c].body, result |-> Decides(k).result]},
         \A d \in Clients \ {c} : call'[d] = call[d]
  PROVE  KeyInv(k)'
  <1> SUFFICES ASSUME Decided(k)' PROVE Alone(k)'
    BY DEF KeyInv
  <1>1. OneHolder(k) /\ Moved(k) /\ Answered(k)
    BY DEF KeyInv, Alone
  <1>2. \A d \in Clients : ~Holds(d, k)
    BY <1>1 DEF OneHolder
  <1>3. \A d \in Clients : ~Holds(d, k)'
    BY <1>2 DEF Holds, InHand, Idle
  <1>4. OneHolder(k)'
    <2>1. ASSUME NEW d \in Clients, On(d, k)' PROVE call'[d].at \in Ways'
      BY <1>1, <2>1 DEF OneHolder, On, Ways, Idle
    <2> QED
      BY <1>3, <2>1 DEF OneHolder
  <1>5. Moved(k)'
    BY <1>1, <1>3 DEF Moved
  <1>6. \A a \in answers' : a.key = k =>
           a.asked = Decides(k).fingerprint /\ a.result = Decides(k).result
    BY <1>1 DEF Answered
  <1>7. Decides(k).result.body = Decides(k).fingerprint
    BY <1>1 DEF Answered
  <1>8. Answered(k)'
    BY <1>3, <1>6, <1>7 DEF Answered
  <1> QED
    BY <1>4, <1>5, <1>8 DEF Alone
-----------------------------------------------------------------------------
(* The keys: every step keeps every key *)

\* A step of one call, which leaves the record of another key alone.
LEMMA AnotherKey ==
  ASSUME TypeOK, NEW k \in Keys, NEW c \in Clients, KeyInv(k), call[c].at # "idle", call[c].key # k,
         durable' = durable, crashes' = crashes, k \notin fellBack' => k \notin fellBack,
         mem'[k] = mem[k], table'[k] = table[k], settled'[k] = settled[k],
         \A a \in answers' : a.key = k => a \in answers,
         call'[c].at = "idle" \/ call'[c].key = call[c].key,
         \A d \in Clients \ {c} : call'[d] = call[d]
  PROVE  KeyInv(k)'
  <1>1. Decided(k)' => Decided(k)
    BY DEF Decided
  <1>2. Decides(k)' = Decides(k) /\ Ways' = Ways
    BY DEF Decides, Ways
  <1>3. \A d \in Clients : On(d, k)' => d # c /\ call'[d] = call[d] /\ On(d, k)
    BY DEF On
  <1>4. \A d \in Clients : Holds(d, k)' => call'[d] = call[d] /\ Holds(d, k)
    BY <1>3 DEF Holds, On, InHand
  <1> QED
    BY <1>1, <1>2, <1>3, <1>4, Undisturbed

\* A step of one call on the key, which only brings it to another place that holds the key no
\* more than it did.
LEMMA OneMoves ==
  ASSUME TypeOK, NEW k \in Keys, NEW c \in Clients, KeyInv(k), call[c].at # "idle", call[c].key = k,
         Decided(k)' => Decided(k), durable' = durable, Decides(k)' = Decides(k), settled'[k] = settled[k],
         \A a \in answers' : a.key = k => a \in answers,
         \/ call'[c] = Idle
         \/ /\ call'[c].at \in Ways /\ call'[c].body = call[c].body /\ call'[c].result = call[c].result
            /\ call'[c].at \in InHand => call[c].at \in InHand
            /\ call'[c].at \in HasResult <=> call[c].at \in HasResult,
         \A d \in Clients \ {c} : call'[d] = call[d]
  PROVE  KeyInv(k)'
  <1>1. Ways' = Ways
    BY DEF Ways
  <1>2. \A d \in Clients : On(d, k)' => (call[d].at \in Ways => call'[d].at \in Ways')
    BY <1>1 DEF On, Idle
  <1>3. \A d \in Clients : On(d, k)' => On(d, k) \/ call'[d].at \in Ways'
    BY <1>1 DEF On
  <1>4. \A d \in Clients : Holds(d, k)' =>
          /\ Holds(d, k) /\ call'[d].body = call[d].body /\ call'[d].result = call[d].result
          /\ call'[d].at \in HasResult <=> call[d].at \in HasResult
    BY DEF Holds, InHand, Idle
  <1> QED
    BY <1>2, <1>3, <1>4, Undisturbed

LEMMA Fallen ==
  ASSUME NEW k \in Keys, k \in fellBack'
  PROVE  KeyInv(k)'
  BY DEF KeyInv, Decided

\* A found record is classified, and the call is over.
LEMMA ClassifiedStep ==
  ASSUME TypeOK, NEW k \in Keys, NEW c \in Clients, KeyInv(k), call[c].at # "idle",
         durable' = durable, crashes' = crashes,
         call[c].key = k => Decides(k) # NoRecord /\ Classified(c, Decides(k)),
         NEW rec, Classified(c, rec)
  PROVE  KeyInv(k)'
  <1>1. call'[c] = Idle /\ \A d \in Clients \ {c} : call'[d] = call[d]
    BY GoesTo DEF Classified
  <1>2. Decided(k)' <=> Decided(k)
    BY DEF Classified, Decided
  <1>3. Decides(k)' = Decides(k) /\ settled'[k] = settled[k]
    BY DEF Classified, Decides, store
  <1>4. CASE call[c].key # k
    <2>1. \A a \in answers' : a.key = k => a \in answers
      BY <1>4 DEF Classified
    <2>2. mem' = mem /\ table' = table /\ settled' = settled /\ fellBack' = fellBack
      BY DEF Classified, store
    <2> QED
      BY <1>1, <1>4, <2>1, <2>2, AnotherKey DEF Idle
  <1>5. CASE call[c].key = k /\ classify(Decides(k), call[c].body) # "replay"
    <2>1. answers' = answers
      BY <1>5 DEF Classified
    <2> QED
      BY <1>1, <1>2, <1>3, <1>5, <2>1, OneMoves
  <1>6. CASE call[c].key = k /\ classify(Decides(k), call[c].body) = "replay"
    <2>1. Decides(k).done /\ Decides(k).fingerprint = call[c].body
      BY <1>6 DEF classify
    <2>2. answers' = answers \cup {[key |-> k, asked |-> call[c].body, result |-> Decides(k).result]}
      BY <1>6 DEF Classified
    <2> QED
      BY <1>1, <1>2, <1>3, <1>6, <2>1, <2>2, Replayed
  <1> QED
    BY <1>4, <1>5, <1>6

LEMMA Placed ==
  ASSUME NEW k \in Keys, NEW c \in Clients, KeyInv(k), Decided(k), call[c].at # "idle", call[c].key = k
  PROVE  /\ call[c].at \in Ways
         /\ call[c].at \in InHand => Decides(k) # NoRecord /\ Decides(k).fingerprint = call[c].body
  BY DEF KeyInv, Alone, OneHolder, On, Holds

LEMMA KeyNext ==
  ASSUME TypeOK, [Next]_vars, NEW k \in Keys, KeyInv(k)
  PROVE  KeyInv(k)'
  <1> USE DEF store, told, budget
  <1>1. ASSUME NEW c \in Clients, NEW j \in Keys, NEW b \in Bodies, Request(c, j, b) PROVE KeyInv(k)'
    <2>1. /\ call'[c].at = IF durable THEN "claim" ELSE "memory"
          /\ \A d \in Clients \ {c} : call'[d] = call[d]
      <3>1. call'[c] = [Idle EXCEPT !.at = IF durable THEN "claim" ELSE "memory", !.key = j, !.body = b]
            /\ \A d \in Clients \ {c} : call'[d] = call[d]
        BY <1>1, GoesTo DEF Request
      <3> QED
        BY <3>1 DEF Idle
    <2>2. /\ Decided(k)' => Decided(k)
          /\ Decides(k)' = Decides(k) /\ Ways' = Ways /\ settled' = settled /\ answers' = answers
      BY <1>1 DEF Request, Decided, Decides, Ways
    <2>3. call'[c].at \in Ways /\ call'[c].at \notin InHand
      BY <2>1 DEF Ways, InHand, Points
    <2>4. \A d \in Clients : Holds(d, k)' => d # c
      BY <2>3 DEF Holds
    <2>5. \A d \in Clients : On(d, k)' => On(d, k) \/ call'[d].at \in Ways'
      BY <2>1, <2>2, <2>3 DEF On
    <2>6. \A d \in Clients : On(d, k)' => (call[d].at \in Ways => call'[d].at \in Ways')
      BY <2>1, <2>2, <2>3
    <2>7. \A d \in Clients : Holds(d, k)' => Holds(d, k) /\ call'[d] = call[d]
      BY <2>1, <2>4 DEF Holds
    <2> QED
      BY <2>2, <2>5, <2>6, <2>7, Undisturbed
  <1>2. ASSUME NEW c \in Clients, Claim(c) PROVE KeyInv(k)'
    <2>1. call[c].at = "claim" /\ durable' = durable /\ mem' = mem /\ UNCHANGED <<told, crashes>>
      BY <1>2 DEF Claim, Is
    <2>2. PICK step \in {"won", "get"} :
            /\ call'[c].at = step /\ call'[c].key = call[c].key /\ call'[c].body = call[c].body
            /\ call'[c].result = call[c].result
            /\ \A d \in Clients \ {c} : call'[d] = call[d]
            /\ step = "won" => /\ table[call[c].key] = NoRecord
                              /\ table' = [table EXCEPT ![call[c].key] = Fresh(call[c].body)]
            /\ step = "get" => table' = table
      BY <1>2, <2>1, ThenTo DEF Claim, Free
    <2>3. CASE call[c].key # k
      <3>1. table'[k] = table[k]
        BY <2>2, <2>3 DEF TypeOK
      <3> QED
        BY <2>1, <2>2, <2>3, <3>1, AnotherKey
    <2>4. CASE call[c].key = k /\ ~Decided(k)
      BY <2>1, <2>4 DEF KeyInv, Decided
    <2>5. CASE call[c].key = k /\ Decided(k)
      <3>1. durable /\ Decided(k)'
        BY <2>1, <2>5, Placed DEF Ways, Decided
      <3>2. CASE step = "won"
        <4>1. call[c].body \in Bodies
          BY <2>1, OnItsWay
        <4>2. table'[k] = Fresh(call[c].body)
          BY <2>2, <2>5, <3>2 DEF TypeOK
        <4>3. Decides(k)' = Fresh(call[c].body) /\ Decides(k) = NoRecord
          BY <2>1, <2>2, <2>5, <3>1, <3>2, <4>2 DEF Decides
        <4>4. Fresh(call[c].body) # NoRecord
          BY <4>1, FreshIsRecord, IdemConstants
        <4>5. ~Decides(k)'.done /\ Decides(k)'.fingerprint = call[c].body
          BY <4>3 DEF Fresh
        <4> QED
          BY <2>1, <2>2, <2>5, <3>1, <3>2, <4>3, <4>4, <4>5, Taken DEF Ways, Points
      <3>3. CASE step = "get"
        <4>1. Decides(k)' = Decides(k)
          BY <2>1, <2>2, <3>3 DEF Decides
        <4>2. "get" \in Ways /\ "get" \notin InHand /\ "get" \notin HasResult /\ "claim" \notin HasResult
          BY <3>1 DEF Ways, Points, InHand, HasResult
        <4> QED
          BY <2>1, <2>2, <2>5, <3>1, <3>3, <4>1, <4>2, OneMoves
      <3> QED
        BY <3>2, <3>3
    <2> QED
      BY <2>3, <2>4, <2>5
  <1>3. ASSUME NEW c \in Clients, ClaimFails(c) PROVE KeyInv(k)'
    <2>1. CASE call[c].key = k
      BY <1>3, <2>1, Fallen DEF ClaimFails
    <2>2. CASE call[c].key # k
      <3>1. call[c].at # "idle" /\ Then(c, "memory") /\ fellBack' = fellBack \cup {call[c].key}
            /\ UNCHANGED <<durable, crashes, mem, settled, answers>>
        BY <1>3 DEF ClaimFails, Fault
      <3>2. table'[k] = table[k]
        BY <1>3, <2>2 DEF ClaimFails, TypeOK
      <3> QED
        BY <2>2, <3>1, <3>2, ThenTo, AnotherKey
    <2> QED
      BY <2>1, <2>2
  <1>4. ASSUME NEW c \in Clients, Mirror(c) PROVE KeyInv(k)'
    <2>1. /\ call[c].at = "won" /\ Then(c, "run") /\ UNCHANGED <<durable, table, told, crashes>>
          /\ mem' = [mem EXCEPT ![call[c].key] = Fresh(call[c].body)]
      BY <1>4 DEF Mirror, Is
    <2>2. CASE call[c].key # k
      <3>1. mem'[k] = mem[k]
        BY <2>1, <2>2 DEF TypeOK
      <3> QED
        BY <2>1, <2>2, <3>1, ThenTo, AnotherKey
    <2>3. CASE call[c].key = k /\ ~Decided(k)
      BY <2>1, <2>3 DEF KeyInv, Decided
    <2>4. CASE call[c].key = k /\ Decided(k)
      <3>1. durable
        BY <2>1, <2>4, Placed DEF Ways
      <3>2. Decides(k)' = Decides(k) /\ Decided(k)'
        BY <2>1, <2>4, <3>1 DEF Decides, Decided
      <3>3. "run" \in Ways /\ "won" \in InHand /\ "run" \notin HasResult /\ "won" \notin HasResult
        BY <3>1 DEF Ways, Points, InHand, HasResult
      <3> QED
        BY <2>1, <2>4, <3>2, <3>3, ThenTo, OneMoves
    <2> QED
      BY <2>2, <2>3, <2>4
  <1>5. ASSUME NEW c \in Clients, Get(c) PROVE KeyInv(k)'
    <2>1. call[c].at = "get" /\ UNCHANGED <<durable, crashes, mem, table>>
      BY <1>5 DEF Get, Is, Classified
    <2>2. CASE table[call[c].key] # NoRecord /\ Classified(c, table[call[c].key])
      <3>1. CASE call[c].key # k
        BY <2>1, <2>2, <3>1, ClassifiedStep
      <3>2. CASE call[c].key = k /\ ~Decided(k)
        BY <2>1, <2>2, <3>2 DEF KeyInv, Decided, Classified
      <3>3. CASE call[c].key = k /\ Decided(k)
        <4>1. Decides(k) = table[k]
          BY <2>1, <3>3, Placed DEF Ways, Decides
        <4> QED
          BY <2>1, <2>2, <3>3, <4>1, ClassifiedStep
      <3> QED
        BY <3>1, <3>2, <3>3
    <2>3. CASE table[call[c].key] = NoRecord
      <3>1. Then(c, "memory") /\ fellBack' = fellBack \cup {call[c].key} /\ UNCHANGED <<settled, answers>>
        BY <1>5, <2>3 DEF Get
      <3>2. CASE call[c].key = k
        BY <3>1, <3>2, Fallen
      <3>3. CASE call[c].key # k
        BY <2>1, <3>1, <3>3, ThenTo, AnotherKey
      <3> QED
        BY <3>2, <3>3
    <2> QED
      BY <1>5, <2>2, <2>3 DEF Get
  <1>6. ASSUME NEW c \in Clients, Memory(c) PROVE KeyInv(k)'
    <2>1. call[c].at = "memory" /\ UNCHANGED <<durable, crashes, table>>
      BY <1>6 DEF Memory, Is, Classified
    <2>2. CASE mem[call[c].key] # NoRecord /\ Classified(c, mem[call[c].key])
      <3>1. CASE call[c].key # k
        BY <2>1, <2>2, <3>1, ClassifiedStep
      <3>2. CASE call[c].key = k /\ ~Decided(k)
        BY <2>1, <2>2, <3>2 DEF KeyInv, Decided, Classified
      <3>3. CASE call[c].key = k /\ Decided(k)
        <4>1. Decides(k) = mem[k]
          BY <2>1, <3>3, Placed DEF Ways, Decides
        <4> QED
          BY <2>1, <2>2, <3>3, <4>1, ClassifiedStep
      <3> QED
        BY <3>1, <3>2, <3>3
    <2>3. CASE mem[call[c].key] = NoRecord
      <3>1. /\ Then(c, "run") /\ mem' = [mem EXCEPT ![call[c].key] = Fresh(call[c].body)]
            /\ UNCHANGED <<table, settled, answers, fellBack>>
        BY <1>6, <2>3 DEF Memory, Free
      <3>2. CASE call[c].key # k
        <4>1. mem'[k] = mem[k]
          BY <3>1, <3>2 DEF TypeOK
        <4> QED
          BY <2>1, <3>1, <3>2, <4>1, ThenTo, AnotherKey
      <3>3. CASE call[c].key = k /\ ~Decided(k)
        BY <2>1, <3>1, <3>3 DEF KeyInv, Decided
      <3>4. CASE call[c].key = k /\ Decided(k)
        <4>1. ~durable /\ Decided(k)'
          BY <2>1, <3>1, <3>4, Placed DEF Ways, Decided
        <4>2. call[c].body \in Bodies
          BY <2>1, OnItsWay
        <4>3. mem'[k] = Fresh(call[c].body)
          BY <3>1, <3>4 DEF TypeOK
        <4>4. Decides(k)' = Fresh(call[c].body) /\ Decides(k) = NoRecord
          BY <2>1, <2>3, <3>4, <4>1, <4>3 DEF Decides
        <4>5. Fresh(call[c].body) # NoRecord
          BY <4>2, FreshIsRecord, IdemConstants
        <4>6. ~Decides(k)'.done /\ Decides(k)'.fingerprint = call[c].body
          BY <4>4 DEF Fresh
        <4>7. "run" \in Ways
          BY <4>1 DEF Ways
        <4> QED
          BY <2>1, <3>1, <3>4, <4>1, <4>4, <4>5, <4>6, <4>7, ThenTo, Taken
      <3> QED
        BY <3>2, <3>3, <3>4
    <2> QED
      BY <1>6, <2>2, <2>3 DEF Memory, Free
  <1>7. ASSUME NEW c \in Clients, NEW outcome \in Outcomes, Run(c, outcome) PROVE KeyInv(k)'
    <2>1. call[c].at = "run" /\ UNCHANGED <<durable, crashes, store, answers, fellBack>>
      BY <1>7 DEF Run, Is
    <2>2. /\ call'[c].at = "complete" /\ call'[c].key = call[c].key /\ call'[c].body = call[c].body
          /\ call'[c].result.body = call[c].body
          /\ \A d \in Clients \ {c} : call'[d] = call[d]
      <3>1. /\ call'[c] = [call[c] EXCEPT !.at = "complete",
                                        !.result = [body |-> call[c].body, outcome |-> outcome]]
            /\ \A d \in Clients \ {c} : call'[d] = call[d]
        BY <1>7, GoesTo DEF Run
      <3> QED
        BY <2>1, <3>1, OnItsWay
    <2>3. Decided(k)' = Decided(k) /\ Decides(k)' = Decides(k)
      BY <2>1 DEF Decided, Decides
    <2>4. CASE call[c].key # k
      <3>1. settled'[k] = settled[k]
        BY <1>7, <2>4 DEF Run, TypeOK
      <3> QED
        BY <2>1, <2>2, <2>4, <3>1, AnotherKey
    <2>5. CASE call[c].key = k
      <3>1. settled'[k] \in {settled[k], settled[k] + 1}
        BY <1>7, <2>5 DEF Run, TypeOK
      <3> QED
        BY <2>1, <2>2, <2>3, <2>5, <3>1, Ran
    <2> QED
      BY <2>4, <2>5
  <1>8. ASSUME NEW c \in Clients, Refuse(c) PROVE KeyInv(k)'
    <2>1. call[c].at = "run" /\ Then(c, "release") /\ UNCHANGED <<durable, crashes, store, told>>
      BY <1>8 DEF Refuse, Is
    <2>2. Decided(k)' = Decided(k) /\ Decides(k)' = Decides(k)
      BY <2>1 DEF Decided, Decides
    <2>3. CASE call[c].key # k
      BY <2>1, <2>3, ThenTo, AnotherKey
    <2>4. CASE call[c].key = k
      <3>1. "release" \in Ways /\ "run" \in InHand /\ "release" \notin HasResult /\ "run" \notin HasResult
        BY DEF Ways, Points, InHand, HasResult
      <3> QED
        BY <2>1, <2>2, <2>4, <3>1, ThenTo, OneMoves
    <2> QED
      BY <2>3, <2>4
  <1>9. ASSUME NEW c \in Clients, Complete(c) PROVE KeyInv(k)'
    <2>1. /\ call[c].at = "complete" /\ UNCHANGED <<durable, crashes, table, settled, fellBack>>
          /\ mem' = Update(mem, call[c].key, call[c].result)
      BY <1>9 DEF Complete, Is
    <2>2. Decided(k)' = Decided(k)
      BY <2>1 DEF Decided
    <2>3. CASE durable
      <3>1. Then(c, "record") /\ answers' = answers
        BY <1>9, <2>3 DEF Complete
      <3>2. CASE call[c].key # k
        <4>1. mem'[k] = mem[k]
          BY <2>1, <3>2 DEF Update, TypeOK
        <4> QED
          BY <2>1, <3>1, <3>2, <4>1, ThenTo, AnotherKey
      <3>3. CASE call[c].key = k
        <4>1. "record" \in Ways /\ "complete" \in InHand /\ {"record", "complete"} \subseteq HasResult
          BY <2>3 DEF Ways, Points, InHand, HasResult
        <4>2. Decides(k)' = Decides(k)
          BY <2>1, <2>3 DEF Decides
        <4> QED
          BY <2>1, <2>2, <3>1, <3>3, <4>1, <4>2, ThenTo, OneMoves
      <3> QED
        BY <3>2, <3>3
    <2>4. CASE ~durable
      <3>1. /\ call'[c] = Idle /\ \A d \in Clients \ {c} : call'[d] = call[d]
            /\ answers' = answers \cup {[key |-> call[c].key, asked |-> call[c].body, result |-> call[c].result]}
        BY <1>9, <2>4, GoesTo DEF Complete, Answer
      <3>2. CASE call[c].key # k
        <4>1. mem'[k] = mem[k]
          BY <2>1, <3>2 DEF Update, TypeOK
        <4>2. \A a \in answers' : a.key = k => a \in answers
          BY <3>1, <3>2
        <4> QED
          BY <2>1, <3>1, <3>2, <4>1, <4>2, AnotherKey DEF Idle
      <3>3. CASE call[c].key = k
        <4>1. Decides(k) = mem[k] /\ Decides(k)' = mem'[k] /\ durable' = durable
          BY <2>1, <2>4 DEF Decides
        <4>2. Updated(mem[k], mem'[k], call[c].result)
          BY <2>1, <3>3, OnItsWay, UpdateOne DEF TypeOK
        <4> QED
          BY <2>1, <2>2, <3>1, <3>3, <4>1, <4>2, Finished DEF HasResult
      <3> QED
        BY <3>2, <3>3
    <2> QED
      BY <2>3, <2>4
  <1>10. ASSUME NEW c \in Clients, Record(c) PROVE KeyInv(k)'
    <2>1. /\ call[c].at = "record" /\ UNCHANGED <<durable, crashes, mem, settled, fellBack>>
          /\ table' \in {table, Update(table, call[c].key, call[c].result)}
      BY <1>10 DEF Record, Is, Fault
    <2>2. Decided(k)' = Decided(k)
      BY <2>1 DEF Decided
    <2>3. /\ call'[c] = Idle /\ \A d \in Clients \ {c} : call'[d] = call[d]
          /\ answers' = answers \cup {[key |-> call[c].key, asked |-> call[c].body, result |-> call[c].result]}
      BY <1>10, GoesTo DEF Record, Answer
    <2>4. CASE call[c].key # k
      <3>1. table'[k] = table[k]
        BY <2>1, <2>4 DEF Update, TypeOK
      <3>2. \A a \in answers' : a.key = k => a \in answers
        BY <2>3, <2>4
      <3> QED
        BY <2>1, <2>3, <2>4, <3>1, <3>2, AnotherKey DEF Idle
    <2>5. CASE call[c].key = k /\ ~Decided(k)
      BY <2>2, <2>5 DEF KeyInv
    <2>6. CASE call[c].key = k /\ Decided(k)
      <3>1. durable
        BY <2>1, <2>6, Placed DEF Ways
      <3>2. Decides(k) = table[k] /\ Decides(k)' = table'[k]
        BY <2>1, <3>1 DEF Decides
      <3>3. table' = table \/ Updated(table[k], table'[k], call[c].result)
        BY <2>1, <2>6, OnItsWay, UpdateOne DEF TypeOK
      <3> QED
        BY <2>1, <2>2, <2>3, <2>6, <3>2, <3>3, Finished DEF HasResult
    <2> QED
      BY <2>4, <2>5, <2>6
  <1>11. ASSUME NEW c \in Clients, Release(c) PROVE KeyInv(k)'
    <2>1. /\ call[c].at = "release" /\ UNCHANGED <<durable, crashes, table, told>>
          /\ mem' = Dropped(mem, call[c].key)
      BY <1>11 DEF Release, Is
    <2>2. Decided(k)' = Decided(k)
      BY <2>1 DEF Decided
    <2>3. CASE call[c].key # k
      <3>1. mem'[k] = mem[k]
        BY <2>1, <2>3 DEF Dropped, TypeOK
      <3>2. /\ call'[c].at = "idle" \/ call'[c].key = call[c].key
            /\ \A d \in Clients \ {c} : call'[d] = call[d]
        BY <1>11, <2>1, ThenTo, GoesTo DEF Release, Idle
      <3> QED
        BY <2>1, <2>3, <3>1, <3>2, AnotherKey
    <2>4. CASE call[c].key = k /\ durable
      <3>1. "drop" \in Ways /\ "release" \in InHand /\ "drop" \notin HasResult /\ "release" \notin HasResult
        BY <2>4 DEF Ways, Points, InHand, HasResult
      <3>2. Decides(k)' = Decides(k)
        BY <2>1, <2>4 DEF Decides
      <3> QED
        BY <1>11, <2>1, <2>2, <2>4, <3>1, <3>2, ThenTo, OneMoves DEF Release
    <2>5. CASE call[c].key = k /\ ~durable
      <3>1. Decides(k)' \in {NoRecord, Decides(k)}
        BY <2>1, <2>5 DEF Decides, Dropped, TypeOK
      <3> QED
        BY <1>11, <2>1, <2>2, <2>5, <3>1, GoesTo, GivenBack DEF Release
    <2> QED
      BY <2>3, <2>4, <2>5
  <1>12. ASSUME NEW c \in Clients, Drop(c) PROVE KeyInv(k)'
    <2>1. /\ call[c].at = "drop" /\ UNCHANGED <<durable, crashes, mem, told>>
          /\ table' \in {table, Dropped(table, call[c].key)}
          /\ call'[c] = Idle /\ \A d \in Clients \ {c} : call'[d] = call[d]
      BY <1>12, GoesTo DEF Drop, Is, Fault
    <2>2. Decided(k)' = Decided(k)
      BY <2>1 DEF Decided
    <2>3. CASE call[c].key # k
      <3>1. table'[k] = table[k]
        BY <2>1, <2>3 DEF Dropped, TypeOK
      <3> QED
        BY <2>1, <2>3, <3>1, AnotherKey DEF Idle
    <2>4. CASE call[c].key = k
      <3>1. table'[k] \in {NoRecord, table[k]}
        BY <2>1, <2>4 DEF Dropped, TypeOK
      <3>2. Decides(k)' \in {NoRecord, Decides(k)}
        BY <2>1, <3>1 DEF Decides
      <3> QED
        BY <2>1, <2>2, <2>4, <3>2, GivenBack
    <2> QED
      BY <2>3, <2>4
  <1>13. ASSUME NEW j \in Keys, Expire(j) PROVE KeyInv(k)'
    <2>1. UNCHANGED <<call, durable, crashes>>
      BY <1>13 DEF Expire
    <2>2. CASE j # k
      <3>1. mem'[k] = mem[k] /\ table'[k] = table[k] /\ settled'[k] = settled[k]
        BY <1>13, <2>2 DEF Expire, TypeOK
      <3>2. Decided(k)' = Decided(k) /\ Decides(k)' = Decides(k) /\ Ways' = Ways
        BY <1>13, <2>1, <2>2, <3>1 DEF Expire, Decided, Decides, Ways
      <3>3. answers' \subseteq answers
        BY <1>13 DEF Expire
      <3> QED
        BY <2>1, <3>1, <3>2, <3>3, Undisturbed DEF On, Holds
    <2>3. CASE j = k
      <3>1. \A d \in Clients : ~On(d, k)' /\ ~Holds(d, k)'
        BY <1>13, <2>1, <2>3 DEF Expire, On, Holds, InHand
      <3>2. settled'[k] = 0
        BY <1>13, <2>3 DEF Expire, TypeOK
      <3>3. Decides(k)' = NoRecord
        BY <1>13, <2>3 DEF Expire, Decides, TypeOK
      <3>4. \A a \in answers' : a.key # k
        BY <1>13, <2>3 DEF Expire
      <3> QED
        BY <3>1, <3>2, <3>3, <3>4 DEF KeyInv, Alone, OneHolder, Moved, Answered
    <2> QED
      BY <2>2, <2>3
  <1>14. ASSUME Crash PROVE KeyInv(k)'
    <2>1. CASE durable' = durable /\ fellBack' = fellBack
      <3>1. UNCHANGED <<table, settled, answers>> /\ \A d \in Clients : call'[d] = Idle
        BY <1>14 DEF Crash
      <3>2. crashes' # 0
        BY <1>14 DEF Crash, TypeOK
      <3>3. CASE durable
        <4>1. Decided(k)' => Decided(k)
          BY <2>1, <3>3 DEF Decided
        <4>2. Decides(k)' = Decides(k)
          BY <2>1, <3>1, <3>3 DEF Decides
        <4>3. \A d \in Clients : ~On(d, k)' /\ ~Holds(d, k)'
          BY <3>1 DEF On, Holds, InHand, Idle
        <4> QED
          BY <3>1, <4>1, <4>2, <4>3, Undisturbed
      <3>4. CASE ~durable
        BY <2>1, <3>2, <3>4 DEF KeyInv, Decided
      <3> QED
        BY <3>3, <3>4
    <2>2. CASE fellBack' = Keys
      BY <2>2, Fallen
    <2> QED
      BY <1>14, <2>1, <2>2 DEF Crash
  <1>15. ASSUME UNCHANGED vars PROVE KeyInv(k)'
    BY <1>15 DEF vars, KeyInv, Decided, Decides, Alone, OneHolder, Moved, Answered, On, Holds, Ways
  <1> QED
    BY <1>1, <1>2, <1>3, <1>4, <1>5, <1>6, <1>7, <1>8, <1>9, <1>10, <1>11, <1>12, <1>13, <1>14, <1>15 DEF Next
-----------------------------------------------------------------------------
(* The keys: the theorem *)

LEMMA InitInv == Init => IInv
  <1> SUFFICES ASSUME Init PROVE IInv
    OBVIOUS
  <1>1. TypeOK
    BY InitTypeOK
  <1>2. ASSUME NEW k \in Keys PROVE Alone(k)
    <2>1. \A c \in Clients : ~On(c, k) /\ ~Holds(c, k)
      BY DEF Init, Idle, On, Holds, InHand
    <2>2. Decides(k) = NoRecord /\ settled[k] = 0 /\ answers = {}
      BY DEF Init, Decides
    <2> QED
      BY <2>1, <2>2 DEF Alone, OneHolder, Moved, Answered
  <1> QED
    BY <1>1, <1>2 DEF IInv, KeyInv

LEMMA NextInv == IInv /\ [Next]_vars => IInv'
  <1> SUFFICES ASSUME IInv, [Next]_vars PROVE IInv'
    OBVIOUS
  <1>1. TypeOK'
    BY NextTypeOK DEF IInv
  <1>2. ASSUME NEW k \in Keys PROVE KeyInv(k)'
    BY KeyNext DEF IInv
  <1> QED
    BY <1>1, <1>2 DEF IInv

LEMMA InvDecides == IInv => KeysDecide
  <1> SUFFICES ASSUME IInv PROVE KeysDecide
    OBVIOUS
  <1>1. ASSUME NEW a \in answers PROVE a.key \in Keys
    BY DEF IInv, TypeOK
  <1>2. SettlesOnce
    BY DEF IInv, KeyInv, Alone, Moved, SettlesOnce
  <1>3. OneResult
    BY <1>1 DEF IInv, KeyInv, Alone, Answered, OneResult
  <1>4. OwnResult
    BY <1>1 DEF IInv, KeyInv, Alone, Answered, OwnResult
  <1> QED
    BY <1>2, <1>3, <1>4 DEF KeysDecide

\* A key its store decides alone moves money at most once in its 24 hours, and every answer to
\* it is the same result, that of the body it was asked with, however retries race, handlers
\* refuse, calls of other keys fail and processes die.  (IdemClaim, IdemComplete, Begin, finish)
THEOREM KeysAreDecided == Spec => []KeysDecide
  BY InitInv, NextInv, InvDecides, PTL DEF Spec
-----------------------------------------------------------------------------
(* The rail: what is left of a request *)

Funding0 == <<"write", "counters", "write", "block">>
Funding1 == <<"counters", "write", "block">>
Funding2 == <<"write", "block">>
Funding3 == <<"block">>
Settling0 == <<"counters", "block", "write">>
Settling1 == <<"block", "write">>
Writing == <<"write">>
Refusing0 == <<"write", "counters", "write", "block", "write">>
Refusing1 == <<"counters", "write", "block", "write">>
Refusing2 == <<"write", "block", "write">>
Reading == <<"pay">>
Paying0 == <<"counters", "block", "backfill", "write">>
Paying1 == <<"block", "backfill", "write">>
Paying2 == <<"backfill", "write">>

\* The lists of steps a request goes through.
Plans == {<<>>, Funding0, Funding1, Funding2, Funding3, Settling0, Settling1, Writing, Refusing0, Refusing1,
          Refusing2, Reading, Paying0, Paying1, Paying2}
-----------------------------------------------------------------------------
\* No plan is another.
LEMMA PlansDiffer ==
    /\ Funding0 # <<>> /\ Funding0 # Funding1 /\ Funding0 # Funding2 /\ Funding0 # Funding3
    /\ Funding0 # Settling0 /\ Funding0 # Settling1 /\ Funding0 # Writing /\ Funding0 # Refusing0
    /\ Funding0 # Refusing1 /\ Funding0 # Refusing2 /\ Funding0 # Reading /\ Funding0 # Paying0
    /\ Funding0 # Paying1 /\ Funding0 # Paying2 /\ Funding1 # <<>> /\ Funding1 # Funding2
    /\ Funding1 # Funding3 /\ Funding1 # Settling0 /\ Funding1 # Settling1 /\ Funding1 # Writing
    /\ Funding1 # Refusing0 /\ Funding1 # Refusing1 /\ Funding1 # Refusing2 /\ Funding1 # Reading
    /\ Funding1 # Paying0 /\ Funding1 # Paying1 /\ Funding1 # Paying2 /\ Funding2 # <<>>
    /\ Funding2 # Funding3 /\ Funding2 # Settling0 /\ Funding2 # Settling1 /\ Funding2 # Writing
    /\ Funding2 # Refusing0 /\ Funding2 # Refusing1 /\ Funding2 # Refusing2 /\ Funding2 # Reading
    /\ Funding2 # Paying0 /\ Funding2 # Paying1 /\ Funding2 # Paying2 /\ Funding3 # <<>>
    /\ Funding3 # Settling0 /\ Funding3 # Settling1 /\ Funding3 # Writing /\ Funding3 # Refusing0
    /\ Funding3 # Refusing1 /\ Funding3 # Refusing2 /\ Funding3 # Reading /\ Funding3 # Paying0
    /\ Funding3 # Paying1 /\ Funding3 # Paying2 /\ Settling0 # <<>> /\ Settling0 # Settling1
    /\ Settling0 # Writing /\ Settling0 # Refusing0 /\ Settling0 # Refusing1 /\ Settling0 # Refusing2
    /\ Settling0 # Reading /\ Settling0 # Paying0 /\ Settling0 # Paying1 /\ Settling0 # Paying2
    /\ Settling1 # <<>> /\ Settling1 # Writing /\ Settling1 # Refusing0 /\ Settling1 # Refusing1
    /\ Settling1 # Refusing2 /\ Settling1 # Reading /\ Settling1 # Paying0 /\ Settling1 # Paying1
    /\ Settling1 # Paying2 /\ Writing # <<>> /\ Writing # Refusing0 /\ Writing # Refusing1
    /\ Writing # Refusing2 /\ Writing # Reading /\ Writing # Paying0 /\ Writing # Paying1
    /\ Writing # Paying2 /\ Refusing0 # <<>> /\ Refusing0 # Refusing1 /\ Refusing0 # Refusing2
    /\ Refusing0 # Reading /\ Refusing0 # Paying0 /\ Refusing0 # Paying1 /\ Refusing0 # Paying2
    /\ Refusing1 # <<>> /\ Refusing1 # Refusing2 /\ Refusing1 # Reading /\ Refusing1 # Paying0
    /\ Refusing1 # Paying1 /\ Refusing1 # Paying2 /\ Refusing2 # <<>> /\ Refusing2 # Reading
    /\ Refusing2 # Paying0 /\ Refusing2 # Paying1 /\ Refusing2 # Paying2 /\ Reading # <<>>
    /\ Reading # Paying0 /\ Reading # Paying1 /\ Reading # Paying2 /\ Paying0 # <<>> /\ Paying0 # Paying1
    /\ Paying0 # Paying2 /\ Paying1 # <<>> /\ Paying1 # Paying2 /\ Paying2 # <<>>
BY DEF Funding0, Funding1, Funding2, Funding3, Settling0, Settling1, Writing, Refusing0, Refusing1, Refusing2, Reading, Paying0, Paying1, Paying2

\* What is left when the first step of a plan is done.
Leads(t, first, rest) == t # <<>> /\ Head(t) = first /\ Tail(t) = rest /\ (Len(t) = 1 <=> rest = <<>>)
Takes(t, u, v) == t = u /\ Tail(t) = v
LEMMA PlanSteps ==
    ASSUME NEW t \in Plans, t # <<>>
    PROVE  /\ Head(t) = "pay" => Takes(t, Reading, <<>>)
           /\ Head(t) = "counters" => \/ Takes(t, Funding1, Funding2) \/ Takes(t, Settling0, Settling1)
                                      \/ Takes(t, Refusing1, Refusing2) \/ Takes(t, Paying0, Paying1)
           /\ Head(t) = "block" => \/ Takes(t, Funding3, <<>>) \/ Takes(t, Settling1, Writing) \/ Takes(t, Paying1, Paying2)
           /\ Head(t) = "backfill" => Takes(t, Paying2, Writing)
           /\ Head(t) = "write" => \/ Takes(t, Funding0, Funding1) \/ Takes(t, Funding2, Funding3)
                                   \/ Takes(t, Refusing0, Refusing1) \/ Takes(t, Refusing2, Settling1)
                                   \/ Takes(t, Writing, <<>>)
           /\ Len(t) = 1 <=> Tail(t) = <<>>
<1>1. Leads(Funding0, "write", Funding1) /\ Leads(Funding1, "counters", Funding2)
  BY DEF Leads, Funding0, Funding1, Funding2
<1>2. Leads(Funding2, "write", Funding3) /\ Leads(Funding3, "block", <<>>)
  BY DEF Leads, Funding2, Funding3
<1>3. Leads(Settling0, "counters", Settling1) /\ Leads(Settling1, "block", Writing) /\ Leads(Writing, "write", <<>>)
  BY DEF Leads, Settling0, Settling1, Writing
<1>4. Leads(Refusing0, "write", Refusing1) /\ Leads(Refusing1, "counters", Refusing2)
  BY DEF Leads, Refusing0, Refusing1, Refusing2
<1>5. Leads(Refusing2, "write", Settling1) /\ Leads(Reading, "pay", <<>>)
  BY DEF Leads, Refusing2, Settling1, Reading
<1>6. Leads(Paying0, "counters", Paying1) /\ Leads(Paying1, "block", Paying2) /\ Leads(Paying2, "backfill", Writing)
  BY DEF Leads, Paying0, Paying1, Paying2, Writing
<1>7. QED
  BY <1>1, <1>2, <1>3, <1>4, <1>5, <1>6, ZenonT(60) DEF Plans, Leads, Takes

LEMMA InPlans ==
    /\ <<>> \in Plans /\ Funding0 \in Plans /\ Funding1 \in Plans /\ Funding2 \in Plans /\ Funding3 \in Plans
    /\ Settling0 \in Plans /\ Settling1 \in Plans /\ Writing \in Plans
    /\ Refusing0 \in Plans /\ Refusing1 \in Plans /\ Refusing2 \in Plans
    /\ Reading \in Plans /\ Paying0 \in Plans /\ Paying1 \in Plans /\ Paying2 \in Plans
BY Zenon DEF Plans

LEMMA PlansAreSteps == Plans \subseteq Seq(Rail!Steps)
<1> DEFINE S == Rail!Steps
<1>1. "pay" \in S /\ "write" \in S /\ "counters" \in S /\ "block" \in S /\ "backfill" \in S
  BY DEF Rail!Steps
<1> HIDE DEF S
<1>2. Funding0 \in Seq(S) /\ Funding1 \in Seq(S) /\ Funding2 \in Seq(S) /\ Funding3 \in Seq(S)
  BY <1>1 DEF Funding0, Funding1, Funding2, Funding3
<1>3. Settling0 \in Seq(S) /\ Settling1 \in Seq(S) /\ Writing \in Seq(S) /\ Reading \in Seq(S) /\ <<>> \in Seq(S)
  BY <1>1 DEF Settling0, Settling1, Writing, Reading
<1>4. Refusing0 \in Seq(S) /\ Refusing1 \in Seq(S) /\ Refusing2 \in Seq(S)
  BY <1>1 DEF Refusing0, Refusing1, Refusing2
<1>5. Paying0 \in Seq(S) /\ Paying1 \in Seq(S) /\ Paying2 \in Seq(S)
  BY <1>1 DEF Paying0, Paying1, Paying2
<1> QED
  BY <1>2, <1>3, <1>4, <1>5 DEF Plans, S
-----------------------------------------------------------------------------
(* The rail: types, and what the wallets and positions add up to *)

\* The sets of the instance are these sets.
LEMMA RailSets ==
    ASSUME NEW S
    PROVE  (Rail!IsFiniteSet(S) <=> IsFiniteSet(S)) /\ Rail!Cardinality(S) = Cardinality(S)
<1>1. Rail!IsFiniteSet(S) <=> IsFiniteSet(S)
  BY Zenon DEF Rail!IsFiniteSet, IsFiniteSet
<1>2. Rail!Cardinality(S) = Cardinality(S)
  BY <1>1, Zenon DEF Rail!Cardinality, Cardinality
<1>3. QED
  BY <1>1, <1>2

LEMMA Constants ==
    ASSUME Rail!RailConstants
    PROVE  /\ IsFiniteSet(Participants) /\ Participants # {} /\ IsFiniteSet(Assets) /\ Seeded \subseteq Participants
           /\ Holding \in Nat /\ MaxCash \in Nat /\ MaxTokens \in Nat /\ MaxTokenDays \in Nat
BY RailSets DEF Rail!RailConstants

FiniteRows(j) == IsFiniteSet(j.si) /\ IsFiniteSet(j.m.instructions) /\ IsFiniteSet(j.m.servicing)
FiniteTables == IsFiniteSet(db.instructions) /\ IsFiniteSet(db.servicing)
FairShares(j) == \A d \in j.pay : d.weights[d.payer] = 0 /\ Rail!Total(d.weights) # 0

MoneyInv ==
    /\ Rail!TypeOK
    /\ FiniteTables /\ \A c \in Clients : FiniteRows(job[c]) /\ FairShares(job[c])
    /\ crashes = 0 => up
    /\ Rail!CashConserved /\ Rail!TokensConserved

LEMMA RailTotal == ASSUME NEW f PROVE Rail!Total(f) = Total(f, DOMAIN f)
BY Zenon DEF Rail!Total, Rail!MapThenSumSet, Rail!MapThenFoldSet, Total, Sums, Adds, Pick

LEMMA NothingInHand == Rail!EmptyMutation \in Rail!Mutation /\ Rail!Idle \in Rail!Job
<1>1. Rail!EmptyMutation \in Rail!Mutation
  BY DEF Rail!EmptyMutation, Rail!Mutation
<1>2. QED
  BY <1>1 DEF Rail!Idle, Rail!Job

\* What a request carries when it leaves the lock, and how its fields are set.
Carries(t, i, m, s, p, r, b) == [todo |-> t, id |-> i, m |-> m, si |-> s, pay |-> p, recs |-> r, commits |-> b]
Rows(w, t, n) == [wallets |-> w, positions |-> t, isins |-> n, instructions |-> {}, servicing |-> {}, funded |-> 0]

LEMMA SetTodo ==
    ASSUME NEW t, NEW i, NEW m, NEW s, NEW p, NEW r, NEW b, NEW x
    PROVE  [Carries(t, i, m, s, p, r, b) EXCEPT !.todo = x] = Carries(x, i, m, s, p, r, b)
BY DEF Carries
LEMMA SetId ==
    ASSUME NEW t, NEW i, NEW m, NEW s, NEW p, NEW r, NEW b, NEW x
    PROVE  [Carries(t, i, m, s, p, r, b) EXCEPT !.id = x] = Carries(t, x, m, s, p, r, b)
BY DEF Carries
LEMMA SetRows ==
    ASSUME NEW t, NEW i, NEW m, NEW s, NEW p, NEW r, NEW b, NEW x
    PROVE  [Carries(t, i, m, s, p, r, b) EXCEPT !.m = x] = Carries(t, i, x, s, p, r, b)
BY DEF Carries
LEMMA SetSi ==
    ASSUME NEW t, NEW i, NEW m, NEW s, NEW p, NEW r, NEW b, NEW x
    PROVE  [Carries(t, i, m, s, p, r, b) EXCEPT !.si = x] = Carries(t, i, m, x, p, r, b)
BY DEF Carries
LEMMA SetPay ==
    ASSUME NEW t, NEW i, NEW m, NEW s, NEW p, NEW r, NEW b, NEW x
    PROVE  [Carries(t, i, m, s, p, r, b) EXCEPT !.pay = x] = Carries(t, i, m, s, x, r, b)
BY DEF Carries
LEMMA SetRecs ==
    ASSUME NEW t, NEW i, NEW m, NEW s, NEW p, NEW r, NEW b, NEW x
    PROVE  [Carries(t, i, m, s, p, r, b) EXCEPT !.recs = x] = Carries(t, i, m, s, p, x, b)
BY DEF Carries
LEMMA SetCommits ==
    ASSUME NEW t, NEW i, NEW m, NEW s, NEW p, NEW r, NEW b, NEW x
    PROVE  [Carries(t, i, m, s, p, r, b) EXCEPT !.commits = x] = Carries(t, i, m, s, p, r, x)
BY DEF Carries
LEMMA GetRows ==
    ASSUME NEW t, NEW i, NEW m, NEW s, NEW p, NEW r, NEW b PROVE Carries(t, i, m, s, p, r, b).m = m
BY DEF Carries

LEMMA RowsFields ==
    ASSUME NEW w, NEW t, NEW n, NEW x
    PROVE  [Rows(w, t, n) EXCEPT !.isins = x] = Rows(w, t, x) /\ [Rows(w, t, n) EXCEPT !.wallets = x] = Rows(x, t, n)
           /\ [Rows(w, t, n) EXCEPT !.positions = x] = Rows(w, x, n)
BY DEF Rows

None == Rows({}, {}, {})
Yes == TRUE
No == FALSE
LEMMA IdleCarries == Rail!EmptyMutation = None /\ Rail!Idle = Carries(<<>>, 0, None, {}, {}, <<>>, No)
<1>1. Rail!EmptyMutation = None
  BY Zenon DEF Rail!EmptyMutation, None, Rows
<1>2. Rail!Idle = Carries(<<>>, 0, Rail!EmptyMutation, {}, {}, <<>>, No)
  BY Zenon DEF Rail!Idle, Carries, No
<1>3. QED
  BY <1>1, <1>2, Zenon

LEMMA Begun ==
    ASSUME NEW t, NEW i
    PROVE  [Rail!Idle EXCEPT !.todo = t, !.id = i] = Carries(t, i, None, {}, {}, <<>>, No)
<1>1. [Carries(<<>>, 0, None, {}, {}, <<>>, No) EXCEPT !.todo = t] = Carries(t, 0, None, {}, {}, <<>>, No)
  BY SetTodo
<1>2. [Rail!Idle EXCEPT !.todo = t] = Carries(t, 0, None, {}, {}, <<>>, No)
  BY <1>1, IdleCarries, Zenon
<1>3. [Carries(t, 0, None, {}, {}, <<>>, No) EXCEPT !.id = i] = Carries(t, i, None, {}, {}, <<>>, No)
  BY SetId
<1>4. QED
  BY <1>2, <1>3, Zenon

\* The rows of a mutation, set one kind at a time.
LEMMA BegunWith ==
    ASSUME NEW t, NEW i, NEW x
    PROVE  /\ [Rail!Idle EXCEPT !.todo = t, !.id = i, !.m.wallets = x] = Carries(t, i, Rows(x, {}, {}), {}, {}, <<>>, No)
           /\ [Rail!Idle EXCEPT !.todo = t, !.id = i, !.m.isins = x] = Carries(t, i, Rows({}, {}, x), {}, {}, <<>>, No)
           /\ [Rail!Idle EXCEPT !.todo = t, !.id = i, !.m = x] = Carries(t, i, x, {}, {}, <<>>, No)
           /\ [Rail!Idle EXCEPT !.todo = t, !.id = i, !.pay = x] = Carries(t, i, None, {}, x, <<>>, No)
<1> DEFINE C == Carries(t, i, None, {}, {}, <<>>, No)
<1>1. C.m = None /\ [None EXCEPT !.wallets = x] = Rows(x, {}, {}) /\ [None EXCEPT !.isins = x] = Rows({}, {}, x)
  BY GetRows, RowsFields DEF None
<1>2. \A m : [C EXCEPT !.m = m] = Carries(t, i, m, {}, {}, <<>>, No)
  BY SetRows
<1>3. [C EXCEPT !.pay = x] = Carries(t, i, None, {}, x, <<>>, No)
  BY SetPay
<1>4. [Rail!Idle EXCEPT !.todo = t, !.id = i] = C
  BY Begun
<1> HIDE DEF C
<1>5. [Rail!Idle EXCEPT !.todo = t, !.id = i, !.m.wallets = x] = Carries(t, i, Rows(x, {}, {}), {}, {}, <<>>, No)
  <2>1. [Rail!Idle EXCEPT !.todo = t, !.id = i, !.m.wallets = x] = [C EXCEPT !.m = [C.m EXCEPT !.wallets = x]]
    BY <1>4, Zenon
  <2>2. [C EXCEPT !.m = [C.m EXCEPT !.wallets = x]] = Carries(t, i, [C.m EXCEPT !.wallets = x], {}, {}, <<>>, No)
    BY <1>2
  <2>3. QED
    BY <1>1, <2>1, <2>2, Zenon
<1>6. [Rail!Idle EXCEPT !.todo = t, !.id = i, !.m.isins = x] = Carries(t, i, Rows({}, {}, x), {}, {}, <<>>, No)
  <2>1. [Rail!Idle EXCEPT !.todo = t, !.id = i, !.m.isins = x] = [C EXCEPT !.m = [C.m EXCEPT !.isins = x]]
    BY <1>4, Zenon
  <2>2. [C EXCEPT !.m = [C.m EXCEPT !.isins = x]] = Carries(t, i, [C.m EXCEPT !.isins = x], {}, {}, <<>>, No)
    BY <1>2
  <2>3. QED
    BY <1>1, <2>1, <2>2, Zenon
<1>7. [Rail!Idle EXCEPT !.todo = t, !.id = i, !.m = x] = Carries(t, i, x, {}, {}, <<>>, No)
  BY <1>2, <1>4, Zenon
<1>8. [Rail!Idle EXCEPT !.todo = t, !.id = i, !.pay = x] = Carries(t, i, None, {}, x, <<>>, No)
  BY <1>3, <1>4, Zenon
<1>9. QED
  BY <1>5, <1>6, <1>7, <1>8, Zenon

LEMMA BegunSettling ==
    ASSUME NEW t, NEW i, NEW m, NEW s
    PROVE  [Rail!Idle EXCEPT !.todo = t, !.id = i, !.m = m, !.si = s, !.commits = TRUE] = Carries(t, i, m, s, {}, <<>>, Yes)
<1>1. [Rail!Idle EXCEPT !.todo = t, !.id = i, !.m = m] = Carries(t, i, m, {}, {}, <<>>, No)
  BY BegunWith, Zenon
<1>2. [Carries(t, i, m, {}, {}, <<>>, No) EXCEPT !.si = s] = Carries(t, i, m, s, {}, <<>>, No)
  BY SetSi
<1>3. [Carries(t, i, m, s, {}, <<>>, No) EXCEPT !.commits = Yes] = Carries(t, i, m, s, {}, <<>>, Yes)
  BY SetCommits
<1>4. QED
  BY <1>1, <1>2, <1>3, Zenon DEF Yes

LEMMA BegunPaying ==
    ASSUME NEW t, NEW i, NEW w, NEW r
    PROVE  [Rail!Idle EXCEPT !.todo = t, !.id = i, !.m.wallets = w, !.recs = r, !.commits = TRUE]
               = Carries(t, i, Rows(w, {}, {}), {}, {}, r, Yes)
<1>1. [Rail!Idle EXCEPT !.todo = t, !.id = i, !.m.wallets = w] = Carries(t, i, Rows(w, {}, {}), {}, {}, <<>>, No)
  BY BegunWith, Zenon
<1>2. [Carries(t, i, Rows(w, {}, {}), {}, {}, <<>>, No) EXCEPT !.recs = r] = Carries(t, i, Rows(w, {}, {}), {}, {}, r, No)
  BY SetRecs
<1>3. [Carries(t, i, Rows(w, {}, {}), {}, {}, r, No) EXCEPT !.commits = Yes] = Carries(t, i, Rows(w, {}, {}), {}, {}, r, Yes)
  BY SetCommits
<1>4. QED
  BY <1>1, <1>2, <1>3, Zenon DEF Yes

LEMMA RowsType ==
    ASSUME NEW w \in SUBSET Rail!WalletRow, NEW t \in SUBSET Rail!PositionRow, NEW n \in SUBSET Assets
    PROVE  Rows(w, t, n) \in Rail!Mutation
BY DEF Rows, Rail!Mutation

LEMMA Plain == No \in BOOLEAN /\ Yes \in BOOLEAN /\ <<>> \in Seq(Rail!Payout) /\ None \in Rail!Mutation
BY RowsType DEF No, Yes, None

LEMMA CarriesType ==
    ASSUME NEW t \in Plans, NEW i \in Nat, NEW m \in Rail!Mutation, NEW s \in SUBSET Rail!Instruction,
           NEW p \in SUBSET Rail!Distribution, NEW r \in Seq(Rail!Payout), NEW b \in BOOLEAN
    PROVE  Carries(t, i, m, s, p, r, b) \in Rail!Job
<1>1. t \in Seq(Rail!Steps)
  BY PlansAreSteps
<1>2. QED
  BY <1>1 DEF Carries, Rail!Job

\* A request that takes up the record j, or goes on with it.
Gets(c, j) == c \in Clients /\ j \in Rail!Job /\ job' = [job EXCEPT ![c] = j]

LEMMA JobGets ==
    ASSUME NEW c, NEW j, Gets(c, j), job \in [Clients -> Rail!Job]
    PROVE  /\ c \in Clients /\ job' \in [Clients -> Rail!Job]
           /\ \A d \in Clients : job'[d] = IF d = c THEN j ELSE job[d]
BY DEF Gets

\* What stays when a request goes on and no money moves.
LEMMA KeepsMoney ==
    ASSUME MoneyInv, NEW c, NEW j, Gets(c, j), FiniteRows(j), FairShares(j), UNCHANGED <<balance, funded, pos, crashes, up>>,
           FiniteTables'
    PROVE  /\ FiniteTables' /\ \A d \in Clients : FiniteRows(job'[d]) /\ FairShares(job'[d])
           /\ crashes' = 0 => up'
           /\ Rail!CashConserved' /\ Rail!TokensConserved'
<1>1. job \in [Clients -> Rail!Job]
  BY DEF MoneyInv, Rail!TypeOK
<1>2. \A d \in Clients : job'[d] = IF d = c THEN j ELSE job[d]
  BY <1>1, JobGets
<1>3. \A d \in Clients : FiniteRows(job'[d]) /\ FairShares(job'[d])
  BY <1>2 DEF MoneyInv
<1>4. Rail!CashConserved' /\ Rail!TokensConserved'
  BY DEF MoneyInv, Rail!CashConserved, Rail!TokensConserved
<1>5. QED
  BY <1>3, <1>4 DEF MoneyInv
-----------------------------------------------------------------------------
LEMMA FundEffect ==
    ASSUME Rail!RailConstants, MoneyInv, NEW c \in Clients, NEW p \in Participants, NEW paise \in 1..MaxCash,
           Rail!FundWallet(c, p, paise), NEW w, w = [who |-> p, bal |-> balance[p] + paise, rev |-> rev + 1],
           NEW j, j = Carries(Funding0, ops', Rows({w}, {}, {}), {}, {}, <<>>, No)
    PROVE  /\ balance' = [balance EXCEPT ![p] = @ + paise] /\ funded' = funded + paise /\ rev' = rev + 1 /\ ops' = ops + 1
           /\ up /\ job[c].todo = <<>> /\ paise \in Nat
           /\ UNCHANGED <<up, pos, isins, instructions, servicing, persistFailures, chain, db, faults, crashes, blindBoots>>
           /\ Gets(c, j) /\ w \in Rail!WalletRow
<1>0. [Rail!Idle EXCEPT !.todo = Funding0, !.id = ops', !.m.wallets = {w}] = j
  BY BegunWith, ZenonT(60)
<1>1. /\ balance' = [balance EXCEPT ![p] = @ + paise] /\ funded' = funded + paise /\ rev' = rev + 1
      /\ job' = [job EXCEPT ![c] = j] /\ ops' = ops + 1 /\ up /\ job[c].todo = <<>>
      /\ UNCHANGED <<up, pos, isins, instructions, servicing, persistFailures, chain, db, faults, crashes, blindBoots>>
  BY <1>0, Zenon DEF Rail!FundWallet, Rail!Begin, Funding0
<1>2. balance \in [Participants -> Nat] /\ paise \in Nat /\ rev \in Nat /\ ops \in Nat
  BY Constants DEF MoneyInv, Rail!TypeOK
<1>3. w \in Rail!WalletRow
  BY <1>2 DEF Rail!WalletRow
<1>4. ops' \in Nat /\ Rows({w}, {}, {}) \in Rail!Mutation
  BY <1>1, <1>2, <1>3, RowsType
<1>5. j \in Rail!Job
  BY <1>4, CarriesType, InPlans, Plain
<1>6. QED
  BY <1>1, <1>2, <1>3, <1>5 DEF Gets

LEMMA MoneyFund ==
    ASSUME Rail!RailConstants, MoneyInv, NEW c \in Clients, NEW p \in Participants, NEW paise \in 1..MaxCash,
           Rail!FundWallet(c, p, paise)
    PROVE  MoneyInv'
<1> DEFINE w == [who |-> p, bal |-> balance[p] + paise, rev |-> rev + 1]
           j == Carries(Funding0, ops', Rows({w}, {}, {}), {}, {}, <<>>, No)
<1>1. /\ balance' = [balance EXCEPT ![p] = @ + paise] /\ funded' = funded + paise /\ rev' = rev + 1 /\ ops' = ops + 1
      /\ UNCHANGED <<up, pos, isins, instructions, servicing, persistFailures, chain, db, faults, crashes, blindBoots>>
      /\ Gets(c, j)
  BY FundEffect
<1>2. Rail!TypeOK
  BY DEF MoneyInv
<1>3. balance \in [Participants -> Nat] /\ paise \in Nat /\ rev \in Nat /\ ops \in Nat /\ funded \in Nat
  BY <1>2, Constants DEF Rail!TypeOK
<1>4. FiniteRows(j) /\ FairShares(j)
  BY FS_EmptySet DEF FiniteRows, FairShares, Carries, Rows
<1> HIDE DEF j
<1>5. job' \in [Clients -> Rail!Job] /\ \A d \in Clients : job'[d] = IF d = c THEN j ELSE job[d]
  BY <1>1, <1>2, JobGets DEF Rail!TypeOK
<1>6. Rail!TypeOK'
  BY <1>1, <1>2, <1>3, <1>5 DEF Rail!TypeOK
<1>7. \A d \in Clients : FiniteRows(job'[d]) /\ FairShares(job'[d])
  BY <1>4, <1>5 DEF MoneyInv
<1>8. Rail!Total(balance') = Rail!Total(balance) + paise
  <2>1. DOMAIN balance = Participants /\ DOMAIN balance' = Participants
    BY <1>1, <1>3
  <2>2. \A x \in Participants : balance[x] \in Int /\ balance'[x] \in Int
    BY <1>1, <1>3
  <2>3. Alike(balance, balance', Participants \ {p})
    BY <1>1, <1>3 DEF Alike
  <2>4. Total(balance', Participants) = Total(balance, Participants) + balance'[p] - balance[p]
    BY <2>2, <2>3, ChangedTotal, Constants
  <2>5. Total(balance, Participants) \in Int
    BY <2>2, TotalType, Constants
  <2>6. balance'[p] = balance[p] + paise
    BY <1>1, <1>3
  <2>7. QED
    BY <1>3, <2>1, <2>4, <2>5, <2>6, RailTotal
<1>9. Rail!CashConserved' /\ Rail!TokensConserved'
  BY <1>1, <1>8 DEF MoneyInv, Rail!CashConserved, Rail!TokensConserved
<1>10. QED
  BY <1>1, <1>6, <1>7, <1>9 DEF MoneyInv, FiniteTables

LEMMA AssignEffect ==
    ASSUME Rail!RailConstants, MoneyInv, NEW c \in Clients, NEW a \in Assets, Rail!AssignISIN(c, a)
    PROVE  /\ isins' = isins \cup {a} /\ ops' = ops + 1 /\ up /\ job[c].todo = <<>>
           /\ UNCHANGED <<up, balance, funded, pos, instructions, servicing, rev, persistFailures, chain, db, faults,
                          crashes, blindBoots>>
           /\ \/ Gets(c, Rail!Idle)
              \/ Gets(c, Carries(Funding2, ops', Rows({}, {}, {a}), {}, {}, <<>>, No))
<1> DEFINE k == Carries(Funding2, ops', Rows({}, {}, {a}), {}, {}, <<>>, No)
<1>1. [Rail!Idle EXCEPT !.todo = Funding2, !.id = ops', !.m.isins = {a}] = k
  BY BegunWith
<1>2. /\ isins' = isins \cup {a} /\ ops' = ops + 1 /\ up /\ job[c].todo = <<>>
      /\ job' = [job EXCEPT ![c] = Rail!Idle] \/ job' = [job EXCEPT ![c] = k]
      /\ UNCHANGED <<up, balance, funded, pos, instructions, servicing, rev, persistFailures, chain, db, faults,
                     crashes, blindBoots>>
  <2> HIDE DEF k
  <2>1. QED
    BY <1>1, Zenon DEF Rail!AssignISIN, Rail!Begin, Funding2
<1>3. ops' \in Nat /\ Rows({}, {}, {a}) \in Rail!Mutation
  <2>1. ops \in Nat
    BY DEF MoneyInv, Rail!TypeOK
  <2>2. QED
    BY <1>2, <2>1, RowsType
<1>4. k \in Rail!Job /\ Rail!Idle \in Rail!Job
  BY <1>3, CarriesType, InPlans, Plain, NothingInHand
<1> HIDE DEF k
<1>5. Gets(c, Rail!Idle) \/ Gets(c, k)
  BY <1>2, <1>4 DEF Gets
<1>6. QED
  BY <1>2, <1>5 DEF k

LEMMA MoneyAssign ==
    ASSUME Rail!RailConstants, MoneyInv, NEW c \in Clients, NEW a \in Assets, Rail!AssignISIN(c, a)
    PROVE  MoneyInv'
<1> DEFINE k == Carries(Funding2, ops', Rows({}, {}, {a}), {}, {}, <<>>, No)
<1>1. /\ isins' = isins \cup {a} /\ ops' = ops + 1
      /\ UNCHANGED <<up, balance, funded, pos, instructions, servicing, rev, persistFailures, chain, db, faults,
                     crashes, blindBoots>>
      /\ Gets(c, Rail!Idle) \/ Gets(c, k)
  BY AssignEffect
<1>2. FiniteRows(k) /\ FairShares(k) /\ FiniteRows(Rail!Idle) /\ FairShares(Rail!Idle)
  BY FS_EmptySet, IdleCarries DEF FiniteRows, FairShares, Carries, Rows, None
<1> HIDE DEF k
<1>3. PICK j : Gets(c, j) /\ FiniteRows(j) /\ FairShares(j)
  BY <1>1, <1>2
<1>4. Rail!TypeOK
  BY DEF MoneyInv
<1>5. job' \in [Clients -> Rail!Job]
  BY <1>3, <1>4, JobGets DEF Rail!TypeOK
<1>6. Rail!TypeOK'
  BY <1>1, <1>4, <1>5 DEF Rail!TypeOK
<1>7. FiniteTables'
  BY <1>1 DEF FiniteTables, MoneyInv
<1>8. QED
  BY <1>1, <1>3, <1>6, <1>7, KeepsMoney DEF MoneyInv

\* An instruction as SettleDvP records it.
LEMMA InstructionType ==
    ASSUME Rail!RailConstants, MoneyInv, NEW q \in Rail!Request, NEW status \in {"SETTLED", "FAILED"}, NEW r \in Nat
    PROVE  Rail!InstructionOf(q, status, r) \in Rail!Instruction
<1>1. ops \in Nat /\ q.asset \in Assets /\ q.seller \in Participants /\ q.buyer \in Participants
  BY DEF MoneyInv, Rail!TypeOK, Rail!Request
<1>2. QED
  BY <1>1 DEF Rail!InstructionOf, Rail!Instruction, Rail!Parties

\* Two parties, one gives what the other gets.
Gives(f, g, a, b, n) == g = [f EXCEPT ![a] = @ - n, ![b] = @ + n]
LEMMA Transfer ==
    ASSUME NEW f \in [Participants -> Nat], IsFiniteSet(Participants), NEW a \in Participants, NEW b \in Participants,
           a # b, NEW n \in Nat, n <= f[a], NEW g, Gives(f, g, a, b, n)
    PROVE  g \in [Participants -> Nat] /\ Rail!Total(g) = Rail!Total(f)
<1> DEFINE h == [f EXCEPT ![a] = @ - n]
<1>0. g = [f EXCEPT ![a] = @ - n, ![b] = @ + n]
  BY DEF Gives
<1>1. g \in [Participants -> Nat] /\ h \in [Participants -> Nat] /\ g[a] = f[a] - n /\ h[a] = f[a] - n
  BY <1>0
<1>2. g[b] = f[b] + n /\ h[b] = f[b]
  BY <1>0
<1>3. Alike(f, h, Participants \ {a}) /\ Alike(h, g, Participants \ {b})
  BY <1>0 DEF Alike
<1>4. f[a] \in Int /\ f[b] \in Int /\ n \in Int
  OBVIOUS
<1>5. \A x \in Participants : f[x] \in Int /\ g[x] \in Int /\ h[x] \in Int
  BY <1>1
<1> HIDE DEF h
<1>6. Total(h, Participants) = Total(f, Participants) + h[a] - f[a]
  BY <1>3, <1>5, ChangedTotal
<1>7. Total(g, Participants) = Total(h, Participants) + g[b] - h[b]
  BY <1>3, <1>5, ChangedTotal
<1>8. Total(f, Participants) \in Int
  BY <1>5, TotalType
<1>9. Total(g, Participants) = Total(f, Participants)
  BY <1>1, <1>2, <1>4, <1>6, <1>7, <1>8
<1>10. QED
  BY <1>1, <1>9, RailTotal

\* A balance that is paid or received is a number.
LEMMA SettleMoves ==
    ASSUME Rail!RailConstants, MoneyInv, NEW q \in Rail!Request, Rail!Settles(q)
    PROVE  /\ q.asset \in Assets /\ q.seller \in Participants /\ q.buyer \in Participants /\ q.seller # q.buyer
           /\ Rail!Paid(q) \in [Participants -> Nat] /\ Rail!Total(Rail!Paid(q)) = Rail!Total(balance)
           /\ Rail!Moved(q) \in [Assets -> [Participants -> Nat]]
           /\ \A a \in Assets : Rail!Total(Rail!Moved(q)[a]) = Rail!Total(pos[a])
<1>1. /\ q.asset \in Assets /\ q.seller \in Participants /\ q.buyer \in Participants
      /\ q.tokens \in Nat /\ q.cash \in Nat
  BY Constants DEF Rail!Request
<1>2. q.seller # q.buyer
  BY DEF Rail!Settles, Rail!RefusedEarly
<1>3. balance \in [Participants -> Nat] /\ pos \in [Assets -> [Participants -> Nat]]
  BY DEF MoneyInv, Rail!TypeOK
<1>4. q.cash <= balance[q.buyer] /\ q.tokens <= pos[q.asset][q.seller]
  BY <1>1, <1>3 DEF Rail!Settles, Rail!Short
<1>5. Rail!Paid(q) \in [Participants -> Nat] /\ Rail!Total(Rail!Paid(q)) = Rail!Total(balance)
  <2>1. Gives(balance, Rail!Paid(q), q.buyer, q.seller, q.cash)
    BY Zenon DEF Gives, Rail!Paid
  <2>2. QED
    BY <1>1, <1>2, <1>3, <1>4, <2>1, Transfer, Constants
<1> DEFINE f == pos[q.asset]
           g == [f EXCEPT ![q.seller] = @ - q.tokens, ![q.buyer] = @ + q.tokens]
<1>6. f \in [Participants -> Nat] /\ q.tokens <= f[q.seller]
  BY <1>1, <1>3, <1>4
<1>7. g \in [Participants -> Nat] /\ Rail!Total(g) = Rail!Total(f)
  <2>1. Gives(f, g, q.seller, q.buyer, q.tokens)
    BY Zenon DEF Gives
  <2> HIDE DEF f, g
  <2>2. QED
    BY <1>1, <1>2, <1>6, <2>1, Transfer, Constants
<1>8. Rail!Moved(q) = [pos EXCEPT ![q.asset] = g]
  BY <1>1, <1>3 DEF Rail!Moved
<1> HIDE DEF f, g
<1>9. Rail!Moved(q) \in [Assets -> [Participants -> Nat]]
  BY <1>3, <1>7, <1>8
<1>10. ASSUME NEW a \in Assets PROVE Rail!Total(Rail!Moved(q)[a]) = Rail!Total(pos[a])
  <2>1. Rail!Moved(q)[a] = IF a = q.asset THEN g ELSE pos[a]
    BY <1>1, <1>3, <1>8
  <2>2. QED
    BY <1>7, <2>1 DEF f
<1>11. QED
  BY <1>1, <1>2, <1>5, <1>9, <1>10

LEMMA LegsType ==
    ASSUME Rail!RailConstants, MoneyInv, NEW q \in Rail!Request, Rail!Settles(q)
    PROVE  Rail!Legs(q) \in Rail!Mutation /\ Rail!Legs(q).instructions = {} /\ Rail!Legs(q).servicing = {}
           /\ Rail!Legs(q).funded = 0
           /\ Rail!Legs(q).wallets = {[who |-> q.buyer, bal |-> Rail!Paid(q)[q.buyer], rev |-> rev + 1],
                                      [who |-> q.seller, bal |-> Rail!Paid(q)[q.seller], rev |-> rev + 2]}
           /\ Rail!Legs(q).positions =
                  {[asset |-> q.asset, who |-> q.seller, rev |-> rev + 3, tokens |-> Rail!Moved(q)[q.asset][q.seller]],
                   [asset |-> q.asset, who |-> q.buyer, rev |-> rev + 4, tokens |-> Rail!Moved(q)[q.asset][q.buyer]]}
<1> DEFINE W == {[who |-> q.buyer, bal |-> Rail!Paid(q)[q.buyer], rev |-> rev + 1],
                 [who |-> q.seller, bal |-> Rail!Paid(q)[q.seller], rev |-> rev + 2]}
           T == {[asset |-> q.asset, who |-> q.seller, rev |-> rev + 3, tokens |-> Rail!Moved(q)[q.asset][q.seller]],
                 [asset |-> q.asset, who |-> q.buyer, rev |-> rev + 4, tokens |-> Rail!Moved(q)[q.asset][q.buyer]]}
           N == Rail!Registered(q) \ isins
<1>1. rev \in Nat /\ isins \subseteq Assets
  BY DEF MoneyInv, Rail!TypeOK
<1>2. Rail!Paid(q)[q.buyer] \in Nat /\ Rail!Paid(q)[q.seller] \in Nat
  BY SettleMoves
<1>3. Rail!Moved(q)[q.asset][q.seller] \in Nat /\ Rail!Moved(q)[q.asset][q.buyer] \in Nat
  BY SettleMoves
<1>4. W \in SUBSET Rail!WalletRow
  BY <1>1, <1>2, SettleMoves DEF Rail!WalletRow
<1>5. T \in SUBSET Rail!PositionRow
  BY <1>1, <1>3, SettleMoves DEF Rail!PositionRow
<1>6. N \in SUBSET Assets
  BY <1>1, SettleMoves DEF Rail!Registered
<1>7. Rail!Legs(q) = [[[None EXCEPT !.wallets = W] EXCEPT !.positions = T] EXCEPT !.isins = N]
  BY IdleCarries, Zenon DEF Rail!Legs
<1> HIDE DEF W, T, N
<1>8. Rail!Legs(q) = Rows(W, T, N)
  <2>1. [None EXCEPT !.wallets = W] = Rows(W, {}, {})
    BY RowsFields DEF None
  <2>2. [Rows(W, {}, {}) EXCEPT !.positions = T] = Rows(W, T, {})
    BY RowsFields
  <2>3. [Rows(W, T, {}) EXCEPT !.isins = N] = Rows(W, T, N)
    BY RowsFields
  <2>4. QED
    BY <1>7, <2>1, <2>2, <2>3, Zenon
<1>9. Rail!Legs(q) \in Rail!Mutation
  BY <1>4, <1>5, <1>6, <1>8, RowsType
<1>10. Rail!Legs(q).wallets = W /\ Rail!Legs(q).positions = T
  BY <1>8 DEF Rows
<1>11. Rail!Legs(q).instructions = {} /\ Rail!Legs(q).servicing = {} /\ Rail!Legs(q).funded = 0
  BY <1>8 DEF Rows
<1>12. QED
  BY <1>9, <1>10, <1>11 DEF W, T

LEMMA SettleEffect ==
    ASSUME Rail!RailConstants, MoneyInv, NEW c \in Clients, NEW q \in Rail!Request, Rail!SettleDvP(c, q),
           NEW si, si = Rail!InstructionOf(q, "SETTLED", rev + 5),
           NEW j, j = Carries(Settling0, ops', Rail!Legs(q), {si}, {}, <<>>, Yes)
    PROVE  /\ pos' = Rail!Moved(q) /\ balance' = Rail!Paid(q) /\ isins' = Rail!Registered(q) /\ rev' = rev + 5
           /\ instructions' = instructions \cup {si} /\ ops' = ops + 1
           /\ Rail!Settles(q) /\ up /\ job[c].todo = <<>>
           /\ UNCHANGED <<up, funded, servicing, persistFailures, chain, db, faults, crashes, blindBoots>>
           /\ Gets(c, j) /\ si \in Rail!Instruction
           /\ j.todo = Settling0 /\ j.id = ops' /\ j.m = Rail!Legs(q) /\ j.si = {si} /\ j.pay = {} /\ j.recs = <<>>
<1>0. [Rail!Idle EXCEPT !.todo = Settling0, !.id = ops', !.m = Rail!Legs(q), !.si = {si}, !.commits = TRUE] = j
  BY BegunSettling
<1>1. /\ pos' = Rail!Moved(q) /\ balance' = Rail!Paid(q) /\ isins' = Rail!Registered(q) /\ rev' = rev + 5
      /\ instructions' = instructions \cup {si} /\ ops' = ops + 1
      /\ Rail!Settles(q) /\ up /\ job[c].todo = <<>>
      /\ UNCHANGED <<up, funded, servicing, persistFailures, chain, db, faults, crashes, blindBoots>>
      /\ job' = [job EXCEPT ![c] = j]
  BY <1>0, Zenon DEF Rail!SettleDvP, Rail!Begin, Rail!AfterSettling, Settling0
<1>2. rev \in Nat /\ ops \in Nat
  BY DEF MoneyInv, Rail!TypeOK
<1>3. si \in Rail!Instruction
  BY <1>2, InstructionType
<1>4. Rail!Legs(q) \in Rail!Mutation
  BY <1>1, LegsType
<1>5. j \in Rail!Job
  <2>1. {si} \in SUBSET Rail!Instruction /\ ops' \in Nat
    BY <1>1, <1>2, <1>3
  <2>2. Carries(Settling0, ops', Rail!Legs(q), {si}, {}, <<>>, Yes) \in Rail!Job
    BY <1>4, <2>1, CarriesType, InPlans, Plain
  <2>3. QED
    BY <2>2
<1>6. j.todo = Settling0 /\ j.id = ops' /\ j.m = Rail!Legs(q) /\ j.si = {si} /\ j.pay = {} /\ j.recs = <<>>
  BY DEF Carries
<1>7. QED
  BY <1>1, <1>3, <1>5, <1>6 DEF Gets

LEMMA MoneySettle ==
    ASSUME Rail!RailConstants, MoneyInv, NEW c \in Clients, NEW q \in Rail!Request, Rail!SettleDvP(c, q)
    PROVE  MoneyInv'
<1> DEFINE si == Rail!InstructionOf(q, "SETTLED", rev + 5)
           j == Carries(Settling0, ops', Rail!Legs(q), {si}, {}, <<>>, Yes)
<1>1. /\ pos' = Rail!Moved(q) /\ balance' = Rail!Paid(q) /\ isins' = Rail!Registered(q) /\ rev' = rev + 5
      /\ instructions' = instructions \cup {si} /\ ops' = ops + 1 /\ Rail!Settles(q)
      /\ UNCHANGED <<up, funded, servicing, persistFailures, chain, db, faults, crashes, blindBoots>>
      /\ Gets(c, j) /\ si \in Rail!Instruction /\ j.m = Rail!Legs(q) /\ j.si = {si} /\ j.pay = {}
  BY SettleEffect
<1> HIDE DEF j, si
<1>2. Rail!TypeOK
  BY DEF MoneyInv
<1>3. job' \in [Clients -> Rail!Job] /\ \A d \in Clients : job'[d] = IF d = c THEN j ELSE job[d]
  BY <1>1, <1>2, JobGets DEF Rail!TypeOK
<1>4. /\ pos' \in [Assets -> [Participants -> Nat]] /\ balance' \in [Participants -> Nat]
      /\ Rail!Total(balance') = Rail!Total(balance) /\ \A a \in Assets : Rail!Total(pos'[a]) = Rail!Total(pos[a])
      /\ q.asset \in Assets
  BY <1>1, SettleMoves
<1>5. isins' \subseteq Assets /\ instructions' \subseteq Rail!Instruction /\ rev' \in Nat /\ ops' \in Nat
  BY <1>1, <1>2, <1>4 DEF Rail!TypeOK, Rail!Registered
<1>6. Rail!TypeOK'
  BY <1>1, <1>2, <1>3, <1>4, <1>5 DEF Rail!TypeOK
<1>7. FiniteRows(j) /\ FairShares(j)
  <2>1. IsFiniteSet({si}) /\ IsFiniteSet({})
    BY FS_EmptySet, FS_Singleton
  <2>2. QED
    BY <1>1, <2>1, LegsType DEF FiniteRows, FairShares
<1>8. \A d \in Clients : FiniteRows(job'[d]) /\ FairShares(job'[d])
  BY <1>3, <1>7 DEF MoneyInv
<1>9. Rail!CashConserved' /\ Rail!TokensConserved'
  BY <1>1, <1>4 DEF MoneyInv, Rail!CashConserved, Rail!TokensConserved
<1>10. QED
  BY <1>1, <1>6, <1>8, <1>9 DEF MoneyInv, FiniteTables

LEMMA RefuseEffect ==
    ASSUME Rail!RailConstants, MoneyInv, NEW c \in Clients, NEW q \in Rail!Request, Rail!RefuseDvP(c, q),
           NEW si, si = Rail!InstructionOf(q, "FAILED", rev + 1),
           NEW j, j = Carries(Refusing0, ops', Rows({}, {}, Rail!Registered(q) \ isins), {si}, {}, <<>>, No)
    PROVE  /\ isins' = Rail!Registered(q) /\ isins' \subseteq Assets /\ rev' = rev + 1
           /\ instructions' = instructions \cup {si} /\ ops' = ops + 1 /\ up /\ job[c].todo = <<>>
           /\ UNCHANGED <<up, balance, funded, pos, servicing, persistFailures, chain, db, faults, crashes, blindBoots>>
           /\ Gets(c, j) /\ si \in Rail!Instruction
           /\ j.todo = Refusing0 /\ j.id = ops' /\ j.m = Rows({}, {}, Rail!Registered(q) \ isins)
           /\ j.si = {si} /\ j.pay = {} /\ j.recs = <<>>
<1> DEFINE N == Rail!Registered(q) \ isins
<1>0. [Rail!Idle EXCEPT !.todo = Refusing0, !.id = ops', !.m.isins = N, !.si = {si}] = j
  <2> HIDE DEF N
  <2>1. [Rail!Idle EXCEPT !.todo = Refusing0, !.id = ops', !.m.isins = N, !.si = {si}]
            = Carries(Refusing0, ops', Rows({}, {}, N), {si}, {}, <<>>, No)
    <3>1. [Rail!Idle EXCEPT !.todo = Refusing0, !.id = ops', !.m.isins = N]
              = Carries(Refusing0, ops', Rows({}, {}, N), {}, {}, <<>>, No)
      BY BegunWith
    <3>2. [Carries(Refusing0, ops', Rows({}, {}, N), {}, {}, <<>>, No) EXCEPT !.si = {si}]
              = Carries(Refusing0, ops', Rows({}, {}, N), {si}, {}, <<>>, No)
      <4> DEFINE S == {si}
      <4> HIDE DEF S
      <4>1. [Carries(Refusing0, ops', Rows({}, {}, N), {}, {}, <<>>, No) EXCEPT !.si = S]
                = Carries(Refusing0, ops', Rows({}, {}, N), S, {}, <<>>, No)
        BY SetSi
      <4>2. QED
        BY <4>1, Zenon DEF S
    <3>3. QED
      BY <3>1, <3>2, Zenon
  <2>2. QED
    BY <2>1, Zenon DEF N
<1>1. /\ isins' = Rail!Registered(q) /\ rev' = rev + 1
      /\ instructions' = instructions \cup {si} /\ ops' = ops + 1 /\ up /\ job[c].todo = <<>>
      /\ UNCHANGED <<up, balance, funded, pos, servicing, persistFailures, chain, db, faults, crashes, blindBoots>>
      /\ job' = [job EXCEPT ![c] = j]
  BY <1>0, Zenon DEF Rail!RefuseDvP, Rail!Begin, Refusing0
<1>2. rev \in Nat /\ ops \in Nat /\ isins \subseteq Assets
  BY DEF MoneyInv, Rail!TypeOK
<1>3. si \in Rail!Instruction
  BY <1>2, InstructionType
<1>4. q.asset \in Assets
  BY DEF Rail!Request
<1>5. isins' \subseteq Assets /\ N \in SUBSET Assets
  BY <1>1, <1>2, <1>4 DEF Rail!Registered
<1>6. Rows({}, {}, N) \in Rail!Mutation
  BY <1>5, RowsType
<1>7. j \in Rail!Job
  <2>1. {si} \in SUBSET Rail!Instruction /\ ops' \in Nat
    BY <1>1, <1>2, <1>3
  <2> HIDE DEF N
  <2>2. Carries(Refusing0, ops', Rows({}, {}, N), {si}, {}, <<>>, No) \in Rail!Job
    BY <1>6, <2>1, CarriesType, InPlans, Plain
  <2>3. QED
    BY <2>2, Zenon DEF N
<1>8. /\ j.todo = Refusing0 /\ j.id = ops' /\ j.m = Rows({}, {}, N) /\ j.si = {si} /\ j.pay = {} /\ j.recs = <<>>
  BY DEF Carries
<1>9. QED
  BY <1>1, <1>3, <1>5, <1>7, <1>8 DEF Gets

LEMMA MoneyRefuse ==
    ASSUME Rail!RailConstants, MoneyInv, NEW c \in Clients, NEW q \in Rail!Request, Rail!RefuseDvP(c, q)
    PROVE  MoneyInv'
<1> DEFINE si == Rail!InstructionOf(q, "FAILED", rev + 1)
           N == Rail!Registered(q) \ isins
           j == Carries(Refusing0, ops', Rows({}, {}, N), {si}, {}, <<>>, No)
<1>1. /\ isins' \subseteq Assets /\ rev' = rev + 1 /\ instructions' = instructions \cup {si} /\ ops' = ops + 1
      /\ UNCHANGED <<up, balance, funded, pos, servicing, persistFailures, chain, db, faults, crashes, blindBoots>>
      /\ Gets(c, j) /\ si \in Rail!Instruction /\ j.m = Rows({}, {}, N) /\ j.si = {si} /\ j.pay = {}
  BY RefuseEffect
<1> HIDE DEF j, si, N
<1>2. Rail!TypeOK
  BY DEF MoneyInv
<1>3. job' \in [Clients -> Rail!Job]
  BY <1>1, <1>2, JobGets DEF Rail!TypeOK
<1>4. Rail!TypeOK'
  BY <1>1, <1>2, <1>3 DEF Rail!TypeOK
<1>5. FiniteRows(j) /\ FairShares(j)
  <2>1. IsFiniteSet({si}) /\ IsFiniteSet({})
    BY FS_EmptySet, FS_Singleton
  <2>2. j.m.instructions = {} /\ j.m.servicing = {}
    BY <1>1 DEF Rows
  <2>3. QED
    BY <1>1, <2>1, <2>2 DEF FiniteRows, FairShares
<1>6. FiniteTables'
  BY <1>1 DEF FiniteTables, MoneyInv
<1>7. QED
  BY <1>1, <1>4, <1>5, <1>6, KeepsMoney DEF MoneyInv

LEMMA DryRunEffect ==
    ASSUME Rail!RailConstants, MoneyInv, NEW c \in Clients, NEW q \in Rail!Request, Rail!DryRunDvP(c, q)
    PROVE  /\ isins' \subseteq Assets /\ isins \subseteq isins' /\ rev' \in Nat /\ rev <= rev' /\ ops' = ops + 1
           /\ up /\ job[c].todo = <<>>
           /\ UNCHANGED <<up, balance, funded, pos, instructions, servicing, persistFailures, chain, db, faults, crashes,
                          blindBoots>>
           /\ \/ job' = job
              \/ \E N \in SUBSET Assets : Gets(c, Carries(Writing, ops', Rows({}, {}, N), {}, {}, <<>>, No))
<1> DEFINE N == Rail!Registered(q) \ isins
           j == Carries(Writing, ops', Rows({}, {}, N), {}, {}, <<>>, No)
<1>0. [Rail!Idle EXCEPT !.todo = Writing, !.id = ops', !.m.isins = N] = j
  BY BegunWith
<1>1. /\ isins' = Rail!Registered(q) /\ ops' = ops + 1 /\ up /\ job[c].todo = <<>>
      /\ UNCHANGED <<up, balance, funded, pos, instructions, servicing, persistFailures, chain, db, faults, crashes,
                     blindBoots>>
  BY DEF Rail!DryRunDvP, Rail!Begin
<1>2. \/ job' = [job EXCEPT ![c] = j] /\ rev' = rev
      \/ rev' = rev + 1 /\ job' = job
  BY <1>0, Zenon DEF Rail!DryRunDvP, Writing
<1>3. rev \in Nat /\ ops \in Nat /\ isins \subseteq Assets /\ q.asset \in Assets
  BY DEF MoneyInv, Rail!TypeOK, Rail!Request
<1>4. isins' \subseteq Assets /\ N \in SUBSET Assets /\ isins \subseteq isins'
  BY <1>1, <1>3 DEF Rail!Registered
<1> HIDE DEF N
<1>5. Rows({}, {}, N) \in Rail!Mutation
  BY <1>4, RowsType
<1>6. j \in Rail!Job
  <2>1. ops' \in Nat
    BY <1>1, <1>3
  <2>2. QED
    BY <1>5, <2>1, CarriesType, InPlans, Plain
<1>7. job' = [job EXCEPT ![c] = j] => Gets(c, j)
  BY <1>6 DEF Gets
<1>8. \/ job' = job
      \/ \E M \in SUBSET Assets : Gets(c, Carries(Writing, ops', Rows({}, {}, M), {}, {}, <<>>, No))
  BY <1>2, <1>4, <1>7, Zenon
<1>9. rev' \in Nat /\ rev <= rev'
  BY <1>2, <1>3
<1>10. QED
  BY <1>1, <1>4, <1>8, <1>9

LEMMA MoneyDryRun ==
    ASSUME Rail!RailConstants, MoneyInv, NEW c \in Clients, NEW q \in Rail!Request, Rail!DryRunDvP(c, q)
    PROVE  MoneyInv'
<1>1. /\ isins' \subseteq Assets /\ rev' \in Nat /\ ops' = ops + 1
      /\ UNCHANGED <<up, balance, funded, pos, instructions, servicing, persistFailures, chain, db, faults, crashes,
                     blindBoots>>
      /\ \/ job' = job
         \/ \E N \in SUBSET Assets : Gets(c, Carries(Writing, ops', Rows({}, {}, N), {}, {}, <<>>, No))
  BY DryRunEffect
<1>2. Rail!TypeOK
  BY DEF MoneyInv
<1>3. FiniteTables'
  BY <1>1 DEF FiniteTables, MoneyInv
<1>4. CASE job' = job
  <2>1. Rail!TypeOK'
    BY <1>1, <1>2, <1>4 DEF Rail!TypeOK
  <2>2. Rail!CashConserved' /\ Rail!TokensConserved'
    BY <1>1 DEF MoneyInv, Rail!CashConserved, Rail!TokensConserved
  <2>3. QED
    BY <1>1, <1>3, <1>4, <2>1, <2>2 DEF MoneyInv
<1>5. CASE \E N \in SUBSET Assets : Gets(c, Carries(Writing, ops', Rows({}, {}, N), {}, {}, <<>>, No))
  <2>1. PICK N \in SUBSET Assets : Gets(c, Carries(Writing, ops', Rows({}, {}, N), {}, {}, <<>>, No))
    BY <1>5
  <2> DEFINE j == Carries(Writing, ops', Rows({}, {}, N), {}, {}, <<>>, No)
  <2>2. FiniteRows(j) /\ FairShares(j)
    BY FS_EmptySet DEF FiniteRows, FairShares, Carries, Rows
  <2>3. Gets(c, j)
    BY <2>1
  <2> HIDE DEF j
  <2>4. job' \in [Clients -> Rail!Job]
    BY <1>2, <2>3, JobGets DEF Rail!TypeOK
  <2>5. Rail!TypeOK'
    BY <1>1, <1>2, <2>4 DEF Rail!TypeOK
  <2>6. QED
    BY <1>1, <1>3, <2>2, <2>3, <2>5, KeepsMoney DEF MoneyInv
<1>6. QED
  BY <1>1, <1>4, <1>5

\* The weights of a split: numbers, not all zero, and nothing for the payer.
LEMMA Weights ==
    ASSUME Rail!RailConstants, MoneyInv, NEW a \in Assets, NEW payer \in Participants, Rail!Holders(a, payer) # {},
           NEW w \in Rail!WeightsOf(a, payer)
    PROVE  w \in [Participants -> Nat] /\ w[payer] = 0 /\ Rail!Total(w) # 0
<1> DEFINE H == Rail!Holders(a, payer)
           owned == [p \in Participants |-> IF p \in H THEN pos[a][p] ELSE 0]
<1>1. pos[a] \in [Participants -> Nat] /\ H \subseteq Participants \ {payer} /\ \A h \in H : pos[a][h] > 0
  BY DEF MoneyInv, Rail!TypeOK, Rail!Holders
<1>2. CASE w = owned
  <2>1. w \in [Participants -> Nat] /\ w[payer] = 0
    BY <1>1, <1>2
  <2>2. PICK h \in H : TRUE
    OBVIOUS
  <2>3. w[h] # 0 /\ h \in Participants
    BY <1>1, <1>2
  <2>4. Rail!Total(w) = Total(w, Participants)
    BY <2>1, RailTotal
  <2>5. Total(w, Participants) # 0
    BY <2>1, <2>3, ZeroTotal, Constants
  <2>6. QED
    BY <2>1, <2>4, <2>5
<1>3. CASE w \in {v \in [Participants -> 0..MaxTokenDays] : Rail!Total(v) > 0 /\ \A p \in Participants \ H : v[p] = 0}
  <2>1. w \in [Participants -> 0..MaxTokenDays] /\ Rail!Total(w) > 0 /\ \A p \in Participants \ H : w[p] = 0
    BY <1>3
  <2>2. w \in [Participants -> Nat] /\ w[payer] = 0
    BY <1>1, <2>1, Constants
  <2>3. Rail!Total(w) = Total(w, Participants)
    BY <2>2, RailTotal
  <2>4. Total(w, Participants) \in Nat
    BY <2>2, TotalType, Constants
  <2>5. QED
    BY <2>1, <2>2, <2>3, <2>4
<1>4. QED
  BY <1>2, <1>3 DEF Rail!WeightsOf

LEMMA ReadEffect ==
    ASSUME Rail!RailConstants, MoneyInv, NEW c \in Clients, NEW a \in Assets, NEW payer \in Participants,
           NEW gross \in 1..MaxCash, Rail!ReadRegister(c, a, payer, gross)
    PROVE  /\ ops' = ops + 1 /\ up /\ job[c].todo = <<>>
           /\ UNCHANGED <<up, balance, funded, pos, isins, instructions, servicing, rev, persistFailures, chain, db, faults,
                          crashes, blindBoots>>
           /\ \E P \in SUBSET Rail!Distribution :
                 /\ Gets(c, Carries(Reading, ops', None, {}, P, <<>>, No))
                 /\ \A d \in P : d.weights[d.payer] = 0 /\ Rail!Total(d.weights) # 0
<1>1. /\ ops' = ops + 1 /\ up /\ job[c].todo = <<>> /\ Rail!Holders(a, payer) # {}
      /\ UNCHANGED <<up, balance, funded, pos, isins, instructions, servicing, rev, persistFailures, chain, db, faults,
                     crashes, blindBoots>>
  BY DEF Rail!ReadRegister, Rail!Begin, Rail!memory
<1>2. PICK w \in Rail!WeightsOf(a, payer) :
          job' = [job EXCEPT ![c] = [Rail!Idle EXCEPT !.todo = <<"pay">>, !.id = ops',
                    !.pay = {[payer |-> payer, gross |-> gross, weights |-> w]}]]
  BY Zenon DEF Rail!ReadRegister
<1> DEFINE P == {[payer |-> payer, gross |-> gross, weights |-> w]}
<1>3. w \in [Participants -> Nat] /\ w[payer] = 0 /\ Rail!Total(w) # 0
  BY <1>1, Weights
<1>4. P \in SUBSET Rail!Distribution /\ \A d \in P : d.weights[d.payer] = 0 /\ Rail!Total(d.weights) # 0
  BY <1>3, Constants DEF Rail!Distribution
<1>5. job' = [job EXCEPT ![c] = [Rail!Idle EXCEPT !.todo = Reading, !.id = ops', !.pay = P]]
  BY <1>2, Zenon DEF Reading
<1> HIDE DEF P
<1>6. [Rail!Idle EXCEPT !.todo = Reading, !.id = ops', !.pay = P] = Carries(Reading, ops', None, {}, P, <<>>, No)
  BY BegunWith
<1>7. Carries(Reading, ops', None, {}, P, <<>>, No) \in Rail!Job
  <2>1. ops' \in Nat
    BY <1>1 DEF MoneyInv, Rail!TypeOK
  <2>2. QED
    BY <1>4, <2>1, CarriesType, InPlans, Plain
<1>8. Gets(c, Carries(Reading, ops', None, {}, P, <<>>, No))
  BY <1>5, <1>6, <1>7, Zenon DEF Gets
<1>9. QED
  BY <1>1, <1>4, <1>8

LEMMA MoneyRead ==
    ASSUME Rail!RailConstants, MoneyInv, NEW c \in Clients, NEW a \in Assets, NEW payer \in Participants,
           NEW gross \in 1..MaxCash, Rail!ReadRegister(c, a, payer, gross)
    PROVE  MoneyInv'
<1>1. /\ ops' = ops + 1
      /\ UNCHANGED <<up, balance, funded, pos, isins, instructions, servicing, rev, persistFailures, chain, db, faults,
                     crashes, blindBoots>>
  BY ReadEffect
<1>2. PICK P \in SUBSET Rail!Distribution :
          /\ Gets(c, Carries(Reading, ops', None, {}, P, <<>>, No))
          /\ \A d \in P : d.weights[d.payer] = 0 /\ Rail!Total(d.weights) # 0
  BY ReadEffect
<1> DEFINE j == Carries(Reading, ops', None, {}, P, <<>>, No)
<1>3. FiniteRows(j) /\ FairShares(j)
  <2>1. j.si = {} /\ j.m.instructions = {} /\ j.m.servicing = {} /\ j.pay = P
    BY DEF Carries, None, Rows
  <2> HIDE DEF j
  <2>2. QED
    BY <1>2, <2>1, FS_EmptySet DEF FiniteRows, FairShares
<1>4. Gets(c, j)
  BY <1>2
<1> HIDE DEF j
<1>5. Rail!TypeOK
  BY DEF MoneyInv
<1>6. job' \in [Clients -> Rail!Job]
  BY <1>4, <1>5, JobGets DEF Rail!TypeOK
<1>7. Rail!TypeOK'
  BY <1>1, <1>5, <1>6 DEF Rail!TypeOK
<1>8. FiniteTables'
  BY <1>1 DEF FiniteTables, MoneyInv
<1>9. QED
  BY <1>1, <1>3, <1>4, <1>7, <1>8, KeepsMoney DEF MoneyInv

\* A payer who has the amount can pay the shares, and the wallets hold as much as before.
LEMMA Shares ==
    ASSUME Rail!RailConstants, MoneyInv, NEW d \in Rail!Distribution, d.weights[d.payer] = 0, Rail!Total(d.weights) # 0,
           ~(balance[d.payer] < d.gross)
    PROVE  /\ Rail!AfterPaying(d) \in [Participants -> Nat] /\ Rail!Total(Rail!AfterPaying(d)) = Rail!Total(balance)
           /\ IsFiniteSet(Rail!Payees(d)) /\ Rail!Payees(d) \subseteq Participants /\ d.payer \notin Rail!Payees(d)
           /\ d.payer \in Participants
           /\ \A p \in Participants : p # d.payer /\ p \notin Rail!Payees(d) => Rail!AfterPaying(d)[p] = balance[p]
<1> DEFINE S == [p \in Participants |-> Rail!Share(d, p)]
           A == Rail!AfterPaying(d)
<1>1. d.weights \in [Participants -> Nat] /\ d.gross \in Nat /\ d.payer \in Participants
  BY DEF Rail!Distribution
<1>2. balance \in [Participants -> Nat] /\ d.gross <= balance[d.payer]
  BY <1>1 DEF MoneyInv, Rail!TypeOK
<1>3. Rail!Total(d.weights) = Total(d.weights, Participants)
  BY <1>1, RailTotal
<1>4. \A p \in Participants : S[p] = (d.gross * d.weights[p]) \div Total(d.weights, Participants)
  BY <1>3 DEF Rail!Share
<1> HIDE DEF S
<1>5. Total(S, Participants) <= d.gross /\ \A p \in Participants : S[p] \in Nat
  <2> DEFINE w == d.weights
             n == d.gross
  <2>1. /\ \A p \in Participants : w[p] \in Nat
        /\ \A p \in Participants : S[p] = (n * w[p]) \div Total(w, Participants)
        /\ n \in Nat /\ Total(w, Participants) # 0
    BY <1>1, <1>3, <1>4
  <2> HIDE DEF w, n
  <2>2. Total(S, Participants) <= n /\ \A p \in Participants : S[p] \in Nat
    BY <2>1, SharesTotal, Constants
  <2>3. QED
    BY <2>2 DEF n
<1>6. Total(S, Participants) \in Nat
  BY <1>5, TotalType, Constants
<1>7. S[d.payer] = 0
  <2>1. Total(d.weights, Participants) \in Nat
    BY <1>1, TotalType, Constants
  <2>2. S[d.payer] = (d.gross * 0) \div Total(d.weights, Participants)
    BY <1>1, <1>4
  <2>3. QED
    BY <1>1, <1>3, <2>1, <2>2
<1>8. \A p \in Participants : Rail!Share(d, p) = S[p]
  BY DEF S
<1>9. Rail!Payees(d) = {p \in Participants : S[p] > 0}
  BY <1>8 DEF Rail!Payees
<1>10. IsFiniteSet(Rail!Payees(d))
  BY <1>9, FS_Subset, Constants
<1>11. Rail!Debit(d) = Total(S, Participants)
  <2> DEFINE T == [h \in Rail!Payees(d) |-> Rail!Share(d, h)]
  <2>1. Rail!Debit(d) = Total(T, Rail!Payees(d))
    <3>1. DOMAIN T = Rail!Payees(d)
      OBVIOUS
    <3>2. Rail!Debit(d) = Rail!Total(T)
      BY Zenon DEF Rail!Debit
    <3>3. QED
      BY <3>1, <3>2, RailTotal
  <2>2. Alike(T, S, Rail!Payees(d))
    BY <1>8, <1>9 DEF Alike
  <2>3. Total(T, Rail!Payees(d)) = Total(S, Rail!Payees(d))
    BY <1>10, <2>2, SameTotal
  <2>4. \A p \in Participants \ Rail!Payees(d) : S[p] = 0
    BY <1>5, <1>9
  <2>5. Total(S, Participants) = Total(S, Rail!Payees(d))
    BY <1>5, <1>9, <2>4, WiderTotal, Constants
  <2>6. QED
    BY <2>1, <2>3, <2>5
<1> DEFINE B == [balance EXCEPT ![d.payer] = @ - Total(S, Participants)]
<1>12. /\ B \in [Participants -> Nat] /\ B[d.payer] = balance[d.payer] - Total(S, Participants)
       /\ \A p \in Participants : p # d.payer => B[p] = balance[p]
  BY <1>1, <1>2, <1>5, <1>6
<1>13. A = [p \in Participants |-> IF p = d.payer THEN balance[p] - Total(S, Participants) ELSE balance[p] + S[p]]
  BY <1>8, <1>11 DEF Rail!AfterPaying
<1>14. A \in [Participants -> Nat] /\ \A p \in Participants : A[p] = B[p] + S[p]
  BY <1>1, <1>2, <1>5, <1>6, <1>7, <1>12, <1>13
<1> HIDE DEF A, B
<1>15. Total(A, Participants) = Total(B, Participants) + Total(S, Participants)
  BY <1>5, <1>12, <1>14, AddedTotal, Constants
<1>16. Total(B, Participants) = Total(balance, Participants) + B[d.payer] - balance[d.payer]
  <2>1. Alike(balance, B, Participants \ {d.payer})
    BY <1>12 DEF Alike
  <2>2. \A p \in Participants : balance[p] \in Int /\ B[p] \in Int
    BY <1>2, <1>12
  <2>3. QED
    BY <1>1, <2>1, <2>2, ChangedTotal, Constants
<1>17. Total(balance, Participants) \in Nat /\ balance[d.payer] \in Nat
  BY <1>1, <1>2, TotalType, Constants
<1>18. Total(A, Participants) = Total(balance, Participants)
  BY <1>6, <1>12, <1>15, <1>16, <1>17
<1>19. Rail!Total(A) = Rail!Total(balance)
  <2>1. DOMAIN A = Participants /\ DOMAIN balance = Participants
    BY <1>2, <1>14
  <2>2. QED
    BY <1>18, <2>1, RailTotal
<1>20. \A p \in Participants : p # d.payer /\ p \notin Rail!Payees(d) => A[p] = balance[p]
  BY <1>2, <1>5, <1>9, <1>13
<1>21. d.payer \notin Rail!Payees(d)
  BY <1>7, <1>9
<1>22. QED
  BY <1>1, <1>9, <1>10, <1>14, <1>19, <1>20, <1>21 DEF A

\* A listing of a set names each of its elements once.
LEMMA ListedOnce ==
    ASSUME NEW S, IsFiniteSet(S), NEW s \in [1..Rail!Cardinality(S) -> S], Rail!IsListing(s, S)
    PROVE  /\ Cardinality(S) \in Nat /\ Len(s) = Cardinality(S) /\ s \in Seq(S) /\ DOMAIN s = 1..Cardinality(S)
           /\ \A x \in S : \E i \in 1..Cardinality(S) : s[i] = x
           /\ \A i, k \in 1..Cardinality(S) : s[i] = s[k] => i = k
<1> DEFINE n == Cardinality(S)
<1>1. n \in Nat /\ Rail!Cardinality(S) = n
  BY FS_CardinalityType, RailSets
<1> HIDE DEF n
<1>2. s \in [1..n -> S] /\ DOMAIN s = 1..n /\ s \in Seq(S) /\ Len(s) = n
  BY <1>1
<1>3. {s[i] : i \in 1..n} = S
  BY <1>2 DEF Rail!IsListing
<1>4. \A x \in S : \E i \in 1..n : s[i] = x
  BY <1>3
<1>5. s \in Surjection(1..n, S)
  BY <1>2, <1>4 DEF Surjection
<1>6. IsFiniteSet(1..n) /\ Cardinality(1..n) = n
  BY <1>1, FS_Interval
<1>7. s \in Injection(1..n, S)
  BY <1>5, <1>6, FS_Surjection DEF n
<1>8. \A i, k \in 1..n : s[i] = s[k] => i = k
  BY <1>7 DEF Injection, IsInjective
<1>9. QED
  BY <1>1, <1>2, <1>4, <1>8 DEF n

\* What a distribution that is paid out leaves behind, and carries.
Pays(c, W, recs) ==
    /\ balance' \in [Participants -> Nat] /\ Rail!Total(balance') = Rail!Total(balance)
    /\ W \in SUBSET Rail!WalletRow
    /\ \A w \in W : w.bal = balance'[w.who] /\ rev < w.rev /\ w.rev <= rev'
    /\ \A w, x \in W : w.who = x.who => w = x
    /\ \A p \in Participants : balance'[p] = balance[p] \/ \E w \in W : w.who = p
    /\ rev' \in Nat /\ rev <= rev'
    /\ recs \in Seq(Rail!Payout) /\ \A i \in DOMAIN recs : recs[i].run = job[c].id
    /\ servicing' = servicing \o recs
    /\ Gets(c, Carries(Paying0, job[c].id, Rows(W, {}, {}), {}, {}, recs, Yes))

LEMMA PayOutEffect ==
    ASSUME Rail!RailConstants, MoneyInv, NEW c \in Clients, Rail!PayOut(c)
    PROVE  /\ up /\ job[c].todo # <<>> /\ Head(job[c].todo) = "pay"
           /\ UNCHANGED <<up, funded, pos, isins, instructions, persistFailures, chain, db, ops, faults, crashes, blindBoots>>
           /\ \/ Gets(c, Rail!Idle) /\ UNCHANGED <<balance, rev, servicing>>
              \/ \E W, recs : Pays(c, W, recs)
<1>1. /\ up /\ job[c].todo # <<>> /\ Head(job[c].todo) = "pay"
      /\ UNCHANGED <<up, funded, pos, isins, instructions, persistFailures, chain, db, ops, faults, crashes, blindBoots>>
  BY DEF Rail!PayOut, Rail!Comes
<1>2. job \in [Clients -> Rail!Job] /\ rev \in Nat
  BY DEF MoneyInv, Rail!TypeOK
<1>3. job[c].id \in Nat /\ job[c].pay \in SUBSET Rail!Distribution
  BY <1>2 DEF Rail!Job
<1>4. PICK d \in job[c].pay :
        IF balance[d.payer] < d.gross
        THEN job' = [job EXCEPT ![c] = Rail!Idle] /\ UNCHANGED <<balance, rev, servicing>>
        ELSE /\ balance' = Rail!AfterPaying(d)
             /\ \E names \in [1..Rail!Cardinality(Rail!Payees(d)) -> Rail!Payees(d)] :
                LET n == Len(names)
                    row(p, r) == [who |-> p, bal |-> Rail!AfterPaying(d)[p], rev |-> r]
                    recs == [i \in 1..n |-> [run |-> job[c].id, holder |-> names[i],
                                             rev |-> rev + 1 + n + i, block |-> 0]]
                IN /\ Rail!IsListing(names, Rail!Payees(d))
                   /\ rev' = rev + 1 + 2 * n
                   /\ servicing' = servicing \o recs
                   /\ job' = [job EXCEPT ![c] = [Rail!Idle EXCEPT
                          !.todo = <<"counters", "block", "backfill", "write">>, !.id = job[c].id,
                          !.m.wallets = {row(d.payer, rev + 1)}
                              \cup {row(names[i], rev + 1 + i) : i \in 1..n},
                          !.recs = recs, !.commits = TRUE]]
  BY Zenon DEF Rail!PayOut
<1>5. d \in Rail!Distribution /\ d.weights[d.payer] = 0 /\ Rail!Total(d.weights) # 0
  BY <1>3 DEF MoneyInv, FairShares
<1>6. CASE balance[d.payer] < d.gross
  <2>1. job' = [job EXCEPT ![c] = Rail!Idle] /\ UNCHANGED <<balance, rev, servicing>>
    BY <1>4, <1>6
  <2>2. Gets(c, Rail!Idle)
    BY <2>1, NothingInHand DEF Gets
  <2>3. QED
    BY <1>1, <2>1, <2>2
<1>7. CASE ~(balance[d.payer] < d.gross)
  <2> DEFINE P == Rail!Payees(d)
  <2>1. balance' = Rail!AfterPaying(d)
    BY <1>4, <1>7
  <2>2. /\ balance' \in [Participants -> Nat] /\ Rail!Total(balance') = Rail!Total(balance)
        /\ IsFiniteSet(P) /\ P \subseteq Participants /\ d.payer \notin P /\ d.payer \in Participants
        /\ \A p \in Participants : p # d.payer /\ p \notin P => balance'[p] = balance[p]
    BY <1>5, <1>7, <2>1, Shares
  <2>3. PICK names \in [1..Rail!Cardinality(P) -> P] :
            LET n == Len(names)
                row(p, r) == [who |-> p, bal |-> Rail!AfterPaying(d)[p], rev |-> r]
                recs == [i \in 1..n |-> [run |-> job[c].id, holder |-> names[i],
                                             rev |-> rev + 1 + n + i, block |-> 0]]
            IN /\ Rail!IsListing(names, P)
               /\ rev' = rev + 1 + 2 * n
               /\ servicing' = servicing \o recs
               /\ job' = [job EXCEPT ![c] = [Rail!Idle EXCEPT
                          !.todo = <<"counters", "block", "backfill", "write">>, !.id = job[c].id,
                          !.m.wallets = {row(d.payer, rev + 1)}
                              \cup {row(names[i], rev + 1 + i) : i \in 1..n},
                          !.recs = recs, !.commits = TRUE]]
    BY <1>4, <1>7, Zenon
  <2> DEFINE n == Len(names)
             row(p, r) == [who |-> p, bal |-> Rail!AfterPaying(d)[p], rev |-> r]
             W == {row(d.payer, rev + 1)} \cup {row(names[i], rev + 1 + i) : i \in 1..n}
             recs == [i \in 1..n |-> [run |-> job[c].id, holder |-> names[i], rev |-> rev + 1 + n + i, block |-> 0]]
  <2>4. /\ Rail!IsListing(names, P) /\ rev' = rev + 1 + 2 * n /\ servicing' = servicing \o recs
        /\ job' = [job EXCEPT ![c] = [Rail!Idle EXCEPT !.todo = Paying0, !.id = job[c].id, !.m.wallets = W,
                                                       !.recs = recs, !.commits = TRUE]]
    BY <2>3, Zenon DEF Paying0
  <2> HIDE DEF P
  <2>5. /\ n \in Nat /\ DOMAIN names = 1..n /\ \A i \in 1..n : names[i] \in P
        /\ \A x \in P : \E i \in 1..n : names[i] = x
        /\ \A i, k \in 1..n : names[i] = names[k] => i = k
    <3>0. IsFiniteSet(P) /\ names \in [1..Rail!Cardinality(P) -> P] /\ Rail!IsListing(names, P)
      BY <2>2, <2>4
    <3>1. /\ Cardinality(P) \in Nat /\ Len(names) = Cardinality(P) /\ DOMAIN names = 1..Cardinality(P)
          /\ names \in Seq(P) /\ \A x \in P : \E i \in 1..Cardinality(P) : names[i] = x
          /\ \A i, k \in 1..Cardinality(P) : names[i] = names[k] => i = k
      BY <3>0, ListedOnce, ZenonT(60)
    <3>2. n = Cardinality(P)
      BY <3>1
    <3> HIDE DEF n
    <3>3. \A i \in 1..n : names[i] \in P
      BY <3>1, <3>2
    <3>4. QED
      BY <3>1, <3>2, <3>3
  <2> HIDE DEF n
  <2>6. rev' \in Nat /\ rev <= rev' /\ rev + 1 <= rev' /\ \A i \in 1..n : rev + 1 + i <= rev' /\ rev + 1 + i \in Nat
    BY <1>2, <2>4, <2>5
  <2>7. W \in SUBSET Rail!WalletRow
    <3>1. ASSUME NEW p \in Participants, NEW r \in Nat PROVE row(p, r) \in Rail!WalletRow
      BY <2>1, <2>2 DEF Rail!WalletRow
    <3>2. \A i \in 1..n : names[i] \in Participants
      BY <2>2, <2>5
    <3> HIDE DEF row
    <3>3. QED
      BY <1>2, <2>2, <2>6, <3>1, <3>2
  <2>8. \A w \in W : w.bal = balance'[w.who] /\ rev < w.rev /\ w.rev <= rev'
    <3>1. TAKE w \in W
    <3>2. \/ w = row(d.payer, rev + 1)
          \/ \E i \in 1..n : w = row(names[i], rev + 1 + i)
      OBVIOUS
    <3>3. \A p, r : row(p, r).who = p /\ row(p, r).rev = r /\ row(p, r).bal = balance'[p]
      BY <2>1
    <3>4. \A i \in 1..n : rev < rev + 1 + i
      BY <1>2, <2>5
    <3>5. rev < rev + 1
      BY <1>2
    <3> HIDE DEF row, W
    <3>6. QED
      BY <2>6, <3>2, <3>3, <3>4, <3>5
  <2>9. \A w, x \in W : w.who = x.who => w = x
    <3>1. TAKE w, x \in W
    <3>2. HAVE w.who = x.who
    <3>3. w = row(d.payer, rev + 1) \/ \E i \in 1..n : w = row(names[i], rev + 1 + i)
      OBVIOUS
    <3>4. x = row(d.payer, rev + 1) \/ \E i \in 1..n : x = row(names[i], rev + 1 + i)
      OBVIOUS
    <3>5. \A p, r : row(p, r).who = p
      OBVIOUS
    <3> HIDE DEF row, W
    <3>6. QED
      BY <2>2, <2>5, <3>2, <3>3, <3>4, <3>5
  <2>10. \A p \in Participants : balance'[p] = balance[p] \/ \E w \in W : w.who = p
    <3>1. TAKE p \in Participants
    <3>2. CASE p = d.payer
      <4>1. row(d.payer, rev + 1) \in W /\ row(d.payer, rev + 1).who = p
        BY <3>2
      <4> HIDE DEF W, row
      <4>2. QED
        BY <4>1
    <3>3. CASE p \in P
      <4>1. PICK i \in 1..n : names[i] = p
        BY <2>5, <3>3
      <4>2. row(names[i], rev + 1 + i) \in W /\ row(names[i], rev + 1 + i).who = p
        BY <4>1
      <4> HIDE DEF W, row
      <4>3. QED
        BY <4>2
    <3>4. QED
      BY <2>2, <3>2, <3>3
  <2>11. recs \in Seq(Rail!Payout) /\ \A i \in DOMAIN recs : recs[i].run = job[c].id
    <3>1. \A i \in 1..n : recs[i] \in Rail!Payout /\ recs[i].run = job[c].id
      BY <1>2, <1>3, <2>2, <2>5 DEF Rail!Payout
    <3>2. DOMAIN recs = 1..n /\ recs = [i \in 1..n |-> recs[i]]
      OBVIOUS
    <3> HIDE DEF recs
    <3>3. QED
      BY <2>5, <3>1, <3>2
  <2> HIDE DEF W, recs, row
  <2>12. Rows(W, {}, {}) \in Rail!Mutation
    BY <2>7, RowsType
  <2>13. Carries(Paying0, job[c].id, Rows(W, {}, {}), {}, {}, recs, Yes) \in Rail!Job
    BY <1>3, <2>11, <2>12, CarriesType, InPlans, Plain
  <2>14. Gets(c, Carries(Paying0, job[c].id, Rows(W, {}, {}), {}, {}, recs, Yes))
    <3>1. [Rail!Idle EXCEPT !.todo = Paying0, !.id = job[c].id, !.m.wallets = W, !.recs = recs, !.commits = TRUE]
              = Carries(Paying0, job[c].id, Rows(W, {}, {}), {}, {}, recs, Yes)
      BY BegunPaying
    <3>2. QED
      BY <2>4, <2>13, <3>1, Zenon DEF Gets
  <2>15. Pays(c, W, recs)
    BY <2>2, <2>4, <2>6, <2>7, <2>8, <2>9, <2>10, <2>11, <2>14 DEF Pays
  <2>16. QED
    BY <1>1, <2>15
<1>8. QED
  BY <1>6, <1>7

LEMMA MoneyPayOut ==
    ASSUME Rail!RailConstants, MoneyInv, NEW c \in Clients, Rail!PayOut(c)
    PROVE  MoneyInv'
<1>1. UNCHANGED <<up, funded, pos, isins, instructions, persistFailures, chain, db, ops, faults, crashes, blindBoots>>
  BY PayOutEffect
<1>2. Rail!TypeOK /\ FiniteTables'
  BY <1>1 DEF MoneyInv, FiniteTables
<1>3. CASE Gets(c, Rail!Idle) /\ UNCHANGED <<balance, rev, servicing>>
  <2>1. FiniteRows(Rail!Idle) /\ FairShares(Rail!Idle)
    BY FS_EmptySet, IdleCarries DEF FiniteRows, FairShares, Carries, None, Rows
  <2>2. job' \in [Clients -> Rail!Job]
    BY <1>2, <1>3, JobGets DEF Rail!TypeOK
  <2>3. Rail!TypeOK'
    BY <1>1, <1>2, <1>3, <2>2 DEF Rail!TypeOK
  <2>4. QED
    BY <1>1, <1>2, <1>3, <2>1, <2>3, KeepsMoney DEF MoneyInv
<1>4. ASSUME NEW W, NEW recs, Pays(c, W, recs) PROVE MoneyInv'
  <2> DEFINE j == Carries(Paying0, job[c].id, Rows(W, {}, {}), {}, {}, recs, Yes)
  <2>1. Gets(c, j) /\ balance' \in [Participants -> Nat] /\ Rail!Total(balance') = Rail!Total(balance)
    BY <1>4 DEF Pays
  <2>2. j.si = {} /\ j.m.instructions = {} /\ j.m.servicing = {} /\ j.pay = {}
    BY DEF Carries, Rows
  <2> HIDE DEF j
  <2>3. FiniteRows(j) /\ FairShares(j)
    BY <2>2, FS_EmptySet DEF FiniteRows, FairShares
  <2>4. job' \in [Clients -> Rail!Job] /\ \A e \in Clients : job'[e] = IF e = c THEN j ELSE job[e]
    BY <1>2, <2>1, JobGets DEF Rail!TypeOK
  <2>5. servicing' \in Seq(Rail!Payout) /\ rev' \in Nat
    BY <1>2, <1>4 DEF Pays, Rail!TypeOK
  <2>6. Rail!TypeOK'
    BY <1>1, <1>2, <2>1, <2>4, <2>5 DEF Rail!TypeOK
  <2>7. \A e \in Clients : FiniteRows(job'[e]) /\ FairShares(job'[e])
    BY <2>3, <2>4 DEF MoneyInv
  <2>8. Rail!CashConserved' /\ Rail!TokensConserved'
    BY <1>1, <2>1 DEF MoneyInv, Rail!CashConserved, Rail!TokensConserved
  <2>9. QED
    BY <1>1, <1>2, <2>6, <2>7, <2>8 DEF MoneyInv
<1>5. QED
  BY <1>3, <1>4, PayOutEffect
-----------------------------------------------------------------------------
(* The rail: a request goes on *)

Table(w, t, n, i, s, f) == [wallets |-> w, positions |-> t, isins |-> n, instructions |-> i, servicing |-> s, funded |-> f]

LEMMA SetFunded ==
    ASSUME NEW m \in Rail!Mutation, NEW x
    PROVE  [m EXCEPT !.funded = x] = Table(m.wallets, m.positions, m.isins, m.instructions, m.servicing, x)
BY DEF Table, Rail!Mutation
LEMMA SetInstructions ==
    ASSUME NEW m \in Rail!Mutation, NEW x
    PROVE  [m EXCEPT !.instructions = x] = Table(m.wallets, m.positions, m.isins, x, m.servicing, m.funded)
BY DEF Table, Rail!Mutation
LEMMA SetServicing ==
    ASSUME NEW m \in Rail!Mutation, NEW x
    PROVE  [m EXCEPT !.servicing = x] = Table(m.wallets, m.positions, m.isins, m.instructions, x, m.funded)
BY DEF Table, Rail!Mutation

LEMMA JobIsCarried ==
    ASSUME NEW j \in Rail!Job
    PROVE  /\ j = Carries(j.todo, j.id, j.m, j.si, j.pay, j.recs, j.commits)
           /\ j.m = Table(j.m.wallets, j.m.positions, j.m.isins, j.m.instructions, j.m.servicing, j.m.funded)
           /\ j.todo \in Seq(Rail!Steps) /\ j.id \in Nat /\ j.si \in SUBSET Rail!Instruction
           /\ j.pay \in SUBSET Rail!Distribution /\ j.recs \in Seq(Rail!Payout) /\ j.commits \in BOOLEAN
           /\ j.m \in Rail!Mutation
           /\ j.m.wallets \in SUBSET Rail!WalletRow /\ j.m.positions \in SUBSET Rail!PositionRow
           /\ j.m.isins \in SUBSET Assets /\ j.m.instructions \in SUBSET Rail!Instruction
           /\ j.m.servicing \in SUBSET Rail!Payout /\ j.m.funded \in Nat
<1>1. j = Carries(j.todo, j.id, j.m, j.si, j.pay, j.recs, j.commits)
  BY DEF Rail!Job, Carries
<1>2. /\ j.todo \in Seq(Rail!Steps) /\ j.id \in Nat /\ j.si \in SUBSET Rail!Instruction
      /\ j.pay \in SUBSET Rail!Distribution /\ j.recs \in Seq(Rail!Payout) /\ j.commits \in BOOLEAN
      /\ j.m \in Rail!Mutation
  BY DEF Rail!Job
<1> DEFINE m == j.m
<1>3. m \in Rail!Mutation
  BY <1>2
<1> HIDE DEF m
<1>4. /\ m.wallets \in SUBSET Rail!WalletRow /\ m.positions \in SUBSET Rail!PositionRow
      /\ m.isins \in SUBSET Assets /\ m.instructions \in SUBSET Rail!Instruction
      /\ m.servicing \in SUBSET Rail!Payout /\ m.funded \in Nat
  BY <1>3 DEF Rail!Mutation
<1>5. m = Table(m.wallets, m.positions, m.isins, m.instructions, m.servicing, m.funded)
  BY <1>3 DEF Rail!Mutation, Table
<1>6. QED
  BY <1>1, <1>2, <1>4, <1>5 DEF m

LEMMA CarriedType ==
    ASSUME NEW t \in Seq(Rail!Steps), NEW i \in Nat, NEW m \in Rail!Mutation, NEW s \in SUBSET Rail!Instruction,
           NEW p \in SUBSET Rail!Distribution, NEW r \in Seq(Rail!Payout), NEW b \in BOOLEAN
    PROVE  Carries(t, i, m, s, p, r, b) \in Rail!Job
BY DEF Carries, Rail!Job

LEMMA TableType ==
    ASSUME NEW w \in SUBSET Rail!WalletRow, NEW t \in SUBSET Rail!PositionRow, NEW n \in SUBSET Assets,
           NEW i \in SUBSET Rail!Instruction, NEW s \in SUBSET Rail!Payout, NEW f \in Nat
    PROVE  Table(w, t, n, i, s, f) \in Rail!Mutation
BY DEF Table, Rail!Mutation

\* The fields of a record that is carried.
LEMMA Fields ==
    ASSUME NEW t, NEW i, NEW m, NEW s, NEW p, NEW r, NEW b, NEW j, j = Carries(t, i, m, s, p, r, b)
    PROVE  j.todo = t /\ j.id = i /\ j.m = m /\ j.si = s /\ j.pay = p /\ j.recs = r /\ j.commits = b
BY DEF Carries

LEMMA TableFields ==
    ASSUME NEW w, NEW t, NEW n, NEW i, NEW s, NEW f, NEW m, m = Table(w, t, n, i, s, f)
    PROVE  m.wallets = w /\ m.positions = t /\ m.isins = n /\ m.instructions = i /\ m.servicing = s /\ m.funded = f
BY DEF Table

LEMMA DoneCarries ==
    ASSUME NEW j \in Rail!Job
    PROVE  Rail!Done(j) = Carries(Tail(j.todo), j.id, j.m, j.si, j.pay, j.recs, j.commits)
<1> DEFINE C == Carries(j.todo, j.id, j.m, j.si, j.pay, j.recs, j.commits)
<1>1. [C EXCEPT !.todo = Tail(j.todo)] = Carries(Tail(j.todo), j.id, j.m, j.si, j.pay, j.recs, j.commits)
  <2> DEFINE b == j.commits
             t == Tail(j.todo)
  <2> HIDE DEF b, t
  <2>1. [Carries(j.todo, j.id, j.m, j.si, j.pay, j.recs, b) EXCEPT !.todo = t]
            = Carries(t, j.id, j.m, j.si, j.pay, j.recs, b)
    BY SetTodo
  <2>2. QED
    BY <2>1, Zenon DEF b, t
<1>2. j = C
  BY JobIsCarried
<1>3. Rail!Done(j) = [j EXCEPT !.todo = Tail(j.todo)]
  BY Zenon DEF Rail!Done
<1> HIDE DEF C
<1>4. QED
  BY <1>1, <1>2, <1>3, Zenon

LEMMA CountersEffect ==
    ASSUME MoneyInv, NEW c \in Clients, Rail!Counters(c), NEW j, j = job[c]
    PROVE  /\ up /\ j.todo # <<>> /\ Head(j.todo) = "counters"
           /\ UNCHANGED <<up, balance, funded, pos, isins, instructions, servicing, rev, persistFailures, chain, db, ops,
                          faults, crashes, blindBoots>>
           /\ Gets(c, Carries(Tail(j.todo), j.id, Table(j.m.wallets, j.m.positions, j.m.isins, j.m.instructions,
                                                        j.m.servicing, funded), j.si, j.pay, j.recs, j.commits))
<1>1. /\ up /\ j.todo # <<>> /\ Head(j.todo) = "counters"
      /\ UNCHANGED <<up, balance, funded, pos, isins, instructions, servicing, rev, persistFailures, chain, db, ops,
                     faults, crashes, blindBoots>>
      /\ job' = [job EXCEPT ![c] = [Rail!Done(j) EXCEPT !.m.funded = funded]]
  BY Zenon DEF Rail!Counters, Rail!Comes, Rail!memory
<1>2. j \in Rail!Job /\ funded \in Nat
  BY DEF MoneyInv, Rail!TypeOK
<1> DEFINE D == Carries(Tail(j.todo), j.id, j.m, j.si, j.pay, j.recs, j.commits)
           M == Table(j.m.wallets, j.m.positions, j.m.isins, j.m.instructions, j.m.servicing, funded)
           E == Carries(Tail(j.todo), j.id, M, j.si, j.pay, j.recs, j.commits)
<1>3. Rail!Done(j) = D
  BY <1>2, DoneCarries
<1>4. D.m = j.m
  BY Fields
<1>5. [j.m EXCEPT !.funded = funded] = M
  <2>1. j.m \in Rail!Mutation
    BY <1>2, JobIsCarried
  <2>2. QED
    BY <2>1, SetFunded
<1>6. [D EXCEPT !.m = M] = E
  <2> DEFINE b == j.commits
  <2> HIDE DEF b, M
  <2>1. [Carries(Tail(j.todo), j.id, j.m, j.si, j.pay, j.recs, b) EXCEPT !.m = M]
            = Carries(Tail(j.todo), j.id, M, j.si, j.pay, j.recs, b)
    BY SetRows
  <2>2. QED
    BY <2>1, Zenon DEF b
<1>7. [Rail!Done(j) EXCEPT !.m.funded = funded] = E
  <2> HIDE DEF D, M, E
  <2>1. [D EXCEPT !.m.funded = funded] = [D EXCEPT !.m = [D.m EXCEPT !.funded = funded]]
    BY Zenon
  <2>2. QED
    BY <1>3, <1>4, <1>5, <1>6, <2>1, Zenon
<1>8. E \in Rail!Job
  <2>1. M \in Rail!Mutation
    BY <1>2, JobIsCarried, TableType
  <2>2. Tail(j.todo) \in Seq(Rail!Steps)
    <3>1. j.todo \in Seq(Rail!Steps)
      BY <1>2, JobIsCarried
    <3>2. QED
      BY <1>1, <3>1
  <2> HIDE DEF M
  <2>3. QED
    BY <1>2, <2>1, <2>2, JobIsCarried, CarriedType
<1> HIDE DEF D, E
<1>9. Gets(c, E)
  BY <1>1, <1>7, <1>8, Zenon DEF Gets
<1>10. QED
  BY <1>1, <1>9 DEF E, M

\* The images of a finite set are finitely many.
LEMMA FiniteImage ==
    ASSUME NEW D, IsFiniteSet(D), NEW f PROVE IsFiniteSet({f[x] : x \in D})
<1> DEFINE g == [x \in D |-> f[x]]
           T == {f[x] : x \in D}
<1>1. g \in Surjection(D, T)
  BY DEF Surjection
<1> HIDE DEF g, T
<1>2. QED
  BY <1>1, FS_Surjection DEF T

\* Anchored at a height, a record is the same but for its block.
LEMMA AtHeight ==
    ASSUME NEW h \in Nat
    PROVE  /\ \A x \in Rail!Instruction :
                /\ Rail!At(h, x) \in Rail!Instruction /\ Rail!At(h, x).block = h /\ Rail!At(h, x).id = x.id
                /\ Rail!At(h, x).status = x.status /\ Rail!At(h, x).rev = x.rev /\ Rail!At(h, x).asset = x.asset
                /\ Rail!At(h, x).seller = x.seller /\ Rail!At(h, x).buyer = x.buyer
           /\ \A x \in Rail!Payout :
                /\ Rail!At(h, x) \in Rail!Payout /\ Rail!At(h, x).block = h /\ Rail!At(h, x).run = x.run
<1>1. ASSUME NEW x \in Rail!Instruction
      PROVE  /\ Rail!At(h, x).block = h /\ Rail!At(h, x).id = x.id
             /\ Rail!At(h, x).status = x.status /\ Rail!At(h, x).rev = x.rev /\ Rail!At(h, x).asset = x.asset
             /\ Rail!At(h, x).seller = x.seller /\ Rail!At(h, x).buyer = x.buyer
  BY DEF Rail!At, Rail!Instruction
<1>2. ASSUME NEW x \in Rail!Instruction PROVE Rail!At(h, x) \in Rail!Instruction
  BY DEF Rail!At, Rail!Instruction
<1>3. ASSUME NEW x \in Rail!Payout
      PROVE  Rail!At(h, x) \in Rail!Payout /\ Rail!At(h, x).block = h /\ Rail!At(h, x).run = x.run
  BY DEF Rail!At, Rail!Payout
<1>4. QED
  BY <1>1, <1>2, <1>3

At(h, S) == {Rail!At(h, x) : x \in S}
RecsAt(h, r) == [i \in DOMAIN r |-> Rail!At(h, r[i])]
RowsAt(h, r) == {Rail!At(h, r[i]) : i \in DOMAIN r}
Anchors(j, h) ==
    Carries(Tail(j.todo), j.id, Table(j.m.wallets, j.m.positions, j.m.isins, At(h, j.si), RowsAt(h, j.recs), j.m.funded),
            At(h, j.si), j.pay, RecsAt(h, j.recs), j.commits)

LEMMA AnchoredCarries ==
    ASSUME NEW j \in Rail!Job, NEW h \in Nat
    PROVE  Rail!Done(Rail!Anchored(j, h)) = Anchors(j, h)
<1> DEFINE S == At(h, j.si)
           R == RecsAt(h, j.recs)
           V == RowsAt(h, j.recs)
           b == j.commits
           t == Tail(j.todo)
           M == Table(j.m.wallets, j.m.positions, j.m.isins, S, j.m.servicing, j.m.funded)
           N == Table(j.m.wallets, j.m.positions, j.m.isins, S, V, j.m.funded)
           X1 == Carries(j.todo, j.id, j.m, S, j.pay, j.recs, b)
           X2 == Carries(j.todo, j.id, M, S, j.pay, j.recs, b)
           X3 == Carries(j.todo, j.id, M, S, j.pay, R, b)
           X4 == Carries(j.todo, j.id, N, S, j.pay, R, b)
           X5 == Carries(t, j.id, N, S, j.pay, R, b)
<1>1. Rail!Anchored(j, h) = [j EXCEPT !.si = S, !.m.instructions = S, !.recs = R, !.m.servicing = V]
  BY Zenon DEF Rail!Anchored, At, RecsAt, RowsAt
<1>2. j = Carries(j.todo, j.id, j.m, j.si, j.pay, j.recs, b) /\ j.m \in Rail!Mutation
  BY JobIsCarried
<1> HIDE DEF S, R, V, b
<1>3. [Carries(j.todo, j.id, j.m, j.si, j.pay, j.recs, b) EXCEPT !.si = S] = X1
  BY SetSi
<1>4. X1.m = j.m /\ X3.m = M /\ X4.todo = j.todo
  BY Fields
<1>5. [j.m EXCEPT !.instructions = S] = M
  BY <1>2, SetInstructions
<1>6. [M EXCEPT !.servicing = V] = N
  BY DEF Table
<1> HIDE DEF M, N, t
<1>7. [X1 EXCEPT !.m = M] = X2
  BY SetRows
<1>8. [X2 EXCEPT !.recs = R] = X3
  BY SetRecs
<1>9. [X3 EXCEPT !.m = N] = X4
  BY SetRows
<1>10. [X4 EXCEPT !.todo = t] = X5
  BY SetTodo
<1> HIDE DEF X1, X2, X3, X4
<1>11. [j EXCEPT !.si = S, !.m.instructions = S] = X2
  <2>1. [j EXCEPT !.si = S] = X1
    BY <1>2, <1>3, Zenon
  <2>2. [j EXCEPT !.si = S, !.m.instructions = S] = [X1 EXCEPT !.m = [X1.m EXCEPT !.instructions = S]]
    BY <2>1, Zenon
  <2>3. QED
    BY <2>2, <1>4, <1>5, <1>7, Zenon
<1>12. [j EXCEPT !.si = S, !.m.instructions = S, !.recs = R, !.m.servicing = V] = X4
  <2>1. [j EXCEPT !.si = S, !.m.instructions = S, !.recs = R] = X3
    BY <1>8, <1>11, Zenon
  <2>2. [j EXCEPT !.si = S, !.m.instructions = S, !.recs = R, !.m.servicing = V]
            = [X3 EXCEPT !.m = [X3.m EXCEPT !.servicing = V]]
    BY <2>1, Zenon
  <2>3. QED
    BY <2>2, <1>4, <1>6, <1>9, Zenon
<1>13. Rail!Anchored(j, h) = X4
  BY <1>1, <1>12, Zenon
<1>14. Rail!Done(X4) = X5
  <2>1. Rail!Done(X4) = [X4 EXCEPT !.todo = Tail(X4.todo)]
    BY Zenon DEF Rail!Done
  <2>2. QED
    BY <1>4, <1>10, <2>1, Zenon DEF t
<1>15. Anchors(j, h) = X5
  BY Zenon DEF Anchors, N, S, R, V, b, t
<1>16. QED
  BY <1>13, <1>14, <1>15, Zenon

LEMMA AnchorsType ==
    ASSUME NEW j \in Rail!Job, j.todo # <<>>, NEW h \in Nat
    PROVE  /\ Anchors(j, h) \in Rail!Job /\ At(h, j.si) \in SUBSET Rail!Instruction
           /\ RowsAt(h, j.recs) \in SUBSET Rail!Payout /\ IsFiniteSet(RowsAt(h, j.recs))
           /\ IsFiniteSet(j.si) => IsFiniteSet(At(h, j.si))
           /\ RecsAt(h, j.recs) \in Seq(Rail!Payout) /\ DOMAIN RecsAt(h, j.recs) = DOMAIN j.recs
           /\ \A i \in DOMAIN j.recs : RecsAt(h, j.recs)[i].run = j.recs[i].run
<1>1. /\ j.todo \in Seq(Rail!Steps) /\ j.id \in Nat /\ j.si \in SUBSET Rail!Instruction
      /\ j.pay \in SUBSET Rail!Distribution /\ j.recs \in Seq(Rail!Payout) /\ j.commits \in BOOLEAN
      /\ j.m.wallets \in SUBSET Rail!WalletRow /\ j.m.positions \in SUBSET Rail!PositionRow
      /\ j.m.isins \in SUBSET Assets /\ j.m.funded \in Nat
  BY JobIsCarried
<1>2. At(h, j.si) \in SUBSET Rail!Instruction
  BY <1>1, AtHeight DEF At
<1>3. DOMAIN j.recs = 1..Len(j.recs) /\ Len(j.recs) \in Nat /\ \A i \in DOMAIN j.recs : j.recs[i] \in Rail!Payout
  BY <1>1
<1>4. RecsAt(h, j.recs) \in Seq(Rail!Payout) /\ DOMAIN RecsAt(h, j.recs) = DOMAIN j.recs
      /\ \A i \in DOMAIN j.recs : RecsAt(h, j.recs)[i] = Rail!At(h, j.recs[i])
  <2>1. \A i \in 1..Len(j.recs) : Rail!At(h, j.recs[i]) \in Rail!Payout
    BY <1>3, AtHeight
  <2>2. RecsAt(h, j.recs) = [i \in 1..Len(j.recs) |-> Rail!At(h, j.recs[i])]
    BY <1>3 DEF RecsAt
  <2>3. QED
    BY <1>3, <2>1, <2>2
<1>5. RowsAt(h, j.recs) \in SUBSET Rail!Payout
  <2>1. ASSUME NEW s \in RowsAt(h, j.recs) PROVE s \in Rail!Payout
    <3>1. PICK i \in DOMAIN j.recs : s = Rail!At(h, j.recs[i])
      BY <2>1, Zenon DEF RowsAt
    <3>2. Rail!At(h, j.recs[i]) \in Rail!Payout
      BY <1>3, AtHeight
    <3>3. QED
      BY <3>1, <3>2
  <2>2. QED
    BY <2>1
<1>6. IsFiniteSet(RowsAt(h, j.recs))
  <2>1. IsFiniteSet(DOMAIN j.recs)
    BY <1>3, FS_Interval
  <2>2. RowsAt(h, j.recs) = {RecsAt(h, j.recs)[i] : i \in DOMAIN j.recs}
    BY <1>4 DEF RowsAt
  <2>3. QED
    BY <2>1, <2>2, FiniteImage
<1>7. IsFiniteSet(j.si) => IsFiniteSet(At(h, j.si))
  <2> DEFINE f == [x \in j.si |-> Rail!At(h, x)]
  <2>1. At(h, j.si) = {f[x] : x \in j.si}
    BY DEF At
  <2> HIDE DEF f
  <2>2. QED
    BY <2>1, FiniteImage
<1>8. Tail(j.todo) \in Seq(Rail!Steps)
  BY <1>1
<1>9. Table(j.m.wallets, j.m.positions, j.m.isins, At(h, j.si), RowsAt(h, j.recs), j.m.funded) \in Rail!Mutation
  BY <1>1, <1>2, <1>5, TableType
<1>10. Anchors(j, h) \in Rail!Job
  BY <1>1, <1>2, <1>4, <1>8, <1>9, CarriedType DEF Anchors
<1>11. QED
  BY <1>2, <1>3, <1>4, <1>5, <1>6, <1>7, <1>10, AtHeight

LEMMA BlockEffect ==
    ASSUME MoneyInv, NEW c \in Clients, Rail!AppendBlock(c), NEW j, j = job[c], NEW h, h = Len(chain) + 1
    PROVE  /\ up /\ j.todo # <<>> /\ Head(j.todo) = "block" /\ j \in Rail!Job /\ h \in Nat
           /\ chain' = Append(chain, j.id)
           /\ instructions' = (instructions \ j.si) \cup At(h, j.si)
           /\ UNCHANGED <<up, balance, funded, pos, isins, servicing, rev, persistFailures, db, ops, faults, crashes,
                          blindBoots>>
           /\ Gets(c, Anchors(j, h))
<1>1. /\ up /\ j.todo # <<>> /\ Head(j.todo) = "block"
      /\ chain' = Append(chain, j.id)
      /\ instructions' = (instructions \ j.si) \cup At(h, j.si)
      /\ UNCHANGED <<up, balance, funded, pos, isins, servicing, rev, persistFailures, db, ops, faults, crashes, blindBoots>>
      /\ job' = [job EXCEPT ![c] = Rail!Done(Rail!Anchored(j, h))]
  BY Zenon DEF Rail!AppendBlock, Rail!Comes, At
<1>2. j \in Rail!Job /\ h \in Nat
  BY DEF MoneyInv, Rail!TypeOK
<1>3. Rail!Done(Rail!Anchored(j, h)) = Anchors(j, h) /\ Anchors(j, h) \in Rail!Job
  BY <1>1, <1>2, AnchoredCarries, AnchorsType
<1>4. Gets(c, Anchors(j, h))
  BY <1>1, <1>3, Zenon DEF Gets
<1>5. QED
  BY <1>1, <1>2, <1>4

LEMMA BackFillEffect ==
    ASSUME MoneyInv, NEW c \in Clients, Rail!BackFill(c), NEW j, j = job[c]
    PROVE  /\ up /\ j.todo # <<>> /\ Head(j.todo) = "backfill"
           /\ servicing' \in Seq(Rail!Payout)
           /\ UNCHANGED <<up, balance, funded, pos, isins, instructions, rev, persistFailures, chain, db, ops, faults,
                          crashes, blindBoots>>
           /\ Gets(c, Carries(Tail(j.todo), j.id, j.m, j.si, j.pay, j.recs, j.commits))
<1> DEFINE first == Len(servicing) - Len(j.recs) + 1
           s == [i \in DOMAIN servicing |-> IF i >= first THEN Rail!At(j.recs[1].block, servicing[i]) ELSE servicing[i]]
<1>1. /\ up /\ j.todo # <<>> /\ Head(j.todo) = "backfill"
      /\ servicing' = s
      /\ UNCHANGED <<up, balance, funded, pos, isins, instructions, rev, persistFailures, chain, db, ops, faults,
                     crashes, blindBoots>>
      /\ job' = [job EXCEPT ![c] = Rail!Done(j)]
  BY Zenon DEF Rail!BackFill, Rail!Comes
<1>2. j \in Rail!Job /\ servicing \in Seq(Rail!Payout)
  BY DEF MoneyInv, Rail!TypeOK
<1>3. j.recs \in Seq(Rail!Payout) /\ j.todo \in Seq(Rail!Steps)
  BY <1>2, JobIsCarried
<1>4. DOMAIN servicing = 1..Len(servicing) /\ Len(servicing) \in Nat /\ Len(j.recs) \in Nat
  BY <1>2, <1>3
<1>5. ASSUME NEW i \in 1..Len(servicing) PROVE s[i] \in Rail!Payout
  <2>1. servicing[i] \in Rail!Payout
    BY <1>2
  <2>2. CASE i >= first
    <3>1. Len(j.recs) >= 1
      BY <1>4, <2>2
    <3>2. j.recs[1] \in Rail!Payout
      BY <1>3, <3>1
    <3>3. j.recs[1].block \in Nat
      BY <3>2 DEF Rail!Payout
    <3>4. Rail!At(j.recs[1].block, servicing[i]) \in Rail!Payout
      BY <2>1, <3>3, AtHeight
    <3>5. QED
      BY <1>4, <2>2, <3>4
  <2>3. QED
    BY <1>4, <2>1, <2>2
<1>6. s \in Seq(Rail!Payout)
  <2>1. s \in [1..Len(servicing) -> Rail!Payout]
    <3>1. s = [i \in 1..Len(servicing) |-> s[i]]
      BY <1>4
    <3> HIDE DEF s
    <3>2. QED
      BY <1>5, <3>1
  <2> HIDE DEF s
  <2>2. QED
    BY <1>4, <2>1
<1>7. Carries(Tail(j.todo), j.id, j.m, j.si, j.pay, j.recs, j.commits) \in Rail!Job
  <2>1. Tail(j.todo) \in Seq(Rail!Steps)
    BY <1>1, <1>3
  <2>2. QED
    BY <1>2, <2>1, JobIsCarried, CarriedType
<1>8. Gets(c, Carries(Tail(j.todo), j.id, j.m, j.si, j.pay, j.recs, j.commits))
  BY <1>1, <1>2, <1>7, DoneCarries, Zenon DEF Gets
<1> HIDE DEF s
<1>9. QED
  BY <1>1, <1>6, <1>8

\* What a transaction leaves in the tables.
TableRecord == [wallet : [Participants -> Rail!WalletRow], position : [Assets -> [Participants -> Rail!PositionRow]],
                isins : SUBSET Assets, instructions : SUBSET Rail!Instruction, servicing : SUBSET Rail!Payout, funded : Nat]

AppliedWallet(d, m, e, p) ==
    /\ \/ e.wallet[p] = d.wallet[p]
       \/ e.wallet[p] \in m.wallets /\ e.wallet[p].who = p /\ d.wallet[p].rev < e.wallet[p].rev
    /\ \A w \in m.wallets : w.who = p /\ d.wallet[p].rev < w.rev => e.wallet[p] \in m.wallets /\ e.wallet[p].who = p
AppliedPosition(d, m, e, a, p) ==
    /\ \/ e.position[a][p] = d.position[a][p]
       \/ /\ e.position[a][p] \in m.positions /\ e.position[a][p].who = p /\ e.position[a][p].asset = a
          /\ d.position[a][p].rev < e.position[a][p].rev
    /\ \A t \in m.positions : t.asset = a /\ t.who = p /\ d.position[a][p].rev < t.rev =>
          e.position[a][p] \in m.positions /\ e.position[a][p].who = p /\ e.position[a][p].asset = a

LEMMA Applied ==
    ASSUME NEW d \in TableRecord, NEW m \in Rail!Mutation, NEW e, e = Rail!Apply(d, m)
    PROVE  /\ e \in TableRecord
           /\ \A p \in Participants : AppliedWallet(d, m, e, p)
           /\ \A a \in Assets, p \in Participants : AppliedPosition(d, m, e, a, p)
           /\ e.instructions = d.instructions \cup m.instructions /\ e.servicing = d.servicing \cup m.servicing
           /\ e.funded = IF m.funded > d.funded THEN m.funded ELSE d.funded
           /\ e.isins = d.isins \cup m.isins
<1> DEFINE NewW(p) == {w \in m.wallets : w.who = p /\ Rail!Newer(w, d.wallet[p])}
           NewT(a, p) == {t \in m.positions : t.asset = a /\ t.who = p /\ Rail!Newer(t, d.position[a][p])}
           W == [p \in Participants |-> IF NewW(p) = {} THEN d.wallet[p] ELSE CHOOSE w \in NewW(p) : TRUE]
           T == [a \in Assets |-> [p \in Participants |->
                    IF NewT(a, p) = {} THEN d.position[a][p] ELSE CHOOSE t \in NewT(a, p) : TRUE]]
           F == IF m.funded > d.funded THEN m.funded ELSE d.funded
<1>1. e = [wallet |-> W, position |-> T, isins |-> d.isins \cup m.isins,
           instructions |-> d.instructions \cup m.instructions, servicing |-> d.servicing \cup m.servicing, funded |-> F]
  BY Zenon DEF Rail!Apply
<1>2. /\ d.wallet \in [Participants -> Rail!WalletRow] /\ d.position \in [Assets -> [Participants -> Rail!PositionRow]]
      /\ d.isins \in SUBSET Assets /\ d.instructions \in SUBSET Rail!Instruction /\ d.servicing \in SUBSET Rail!Payout
      /\ d.funded \in Nat
  BY DEF TableRecord
<1>3. /\ m.wallets \in SUBSET Rail!WalletRow /\ m.positions \in SUBSET Rail!PositionRow
      /\ m.isins \in SUBSET Assets /\ m.instructions \in SUBSET Rail!Instruction
      /\ m.servicing \in SUBSET Rail!Payout /\ m.funded \in Nat
  BY DEF Rail!Mutation
<1>4. ASSUME NEW p \in Participants
      PROVE  /\ W[p] \in Rail!WalletRow
             /\ \/ W[p] = d.wallet[p]
                \/ W[p] \in m.wallets /\ W[p].who = p /\ d.wallet[p].rev < W[p].rev
             /\ \A w \in m.wallets : w.who = p /\ d.wallet[p].rev < w.rev => W[p] \in m.wallets /\ W[p].who = p
  <2>1. W[p] = IF NewW(p) = {} THEN d.wallet[p] ELSE CHOOSE w \in NewW(p) : TRUE
    OBVIOUS
  <2>2. NewW(p) # {} => (CHOOSE w \in NewW(p) : TRUE) \in NewW(p)
    BY Zenon
  <2>3. (W[p] = d.wallet[p] /\ NewW(p) = {}) \/ W[p] \in NewW(p)
    BY <2>1, <2>2, Zenon
  <2>4. \A w : w \in NewW(p) <=> w \in m.wallets /\ w.who = p /\ d.wallet[p].rev < w.rev
    BY DEF Rail!Newer
  <2>5. d.wallet[p] \in Rail!WalletRow
    BY <1>2
  <2> HIDE DEF W, NewW
  <2>6. CASE W[p] = d.wallet[p] /\ NewW(p) = {}
    <3>1. \A w \in m.wallets : ~(w.who = p /\ d.wallet[p].rev < w.rev)
      <4>1. \A w : ~(w \in NewW(p))
        BY <2>6
      <4>2. QED
        BY <2>4, <4>1, Zenon
    <3>2. QED
      BY <2>5, <2>6, <3>1
  <2>7. CASE W[p] \in NewW(p)
    <3>1. W[p] \in m.wallets /\ W[p].who = p /\ d.wallet[p].rev < W[p].rev
      BY <2>4, <2>7
    <3>2. QED
      BY <1>3, <3>1
  <2>8. QED
    BY <2>3, <2>6, <2>7
<1>5. ASSUME NEW a \in Assets, NEW p \in Participants
      PROVE  /\ T[a][p] \in Rail!PositionRow
             /\ \/ T[a][p] = d.position[a][p]
                \/ T[a][p] \in m.positions /\ T[a][p].who = p /\ T[a][p].asset = a /\ d.position[a][p].rev < T[a][p].rev
             /\ \A t \in m.positions : t.asset = a /\ t.who = p /\ d.position[a][p].rev < t.rev =>
                      T[a][p] \in m.positions /\ T[a][p].who = p /\ T[a][p].asset = a
  <2>1. T[a][p] = IF NewT(a, p) = {} THEN d.position[a][p] ELSE CHOOSE t \in NewT(a, p) : TRUE
    OBVIOUS
  <2>2. NewT(a, p) # {} => (CHOOSE t \in NewT(a, p) : TRUE) \in NewT(a, p)
    BY Zenon
  <2>3. (T[a][p] = d.position[a][p] /\ NewT(a, p) = {}) \/ T[a][p] \in NewT(a, p)
    BY <2>1, <2>2, Zenon
  <2>4. \A t : t \in NewT(a, p) <=> t \in m.positions /\ t.asset = a /\ t.who = p /\ d.position[a][p].rev < t.rev
    BY DEF Rail!Newer
  <2> HIDE DEF T, NewT
  <2>5. QED
    BY <1>2, <1>3, <2>3, <2>4
<1>6. W \in [Participants -> Rail!WalletRow]
  <2>1. W = [p \in Participants |-> W[p]]
    OBVIOUS
  <2> HIDE DEF W
  <2>2. QED
    BY <1>4, <2>1
<1>7. T \in [Assets -> [Participants -> Rail!PositionRow]]
  <2>1. T = [a \in Assets |-> T[a]] /\ \A a \in Assets : T[a] = [p \in Participants |-> T[a][p]]
    OBVIOUS
  <2> HIDE DEF T
  <2>2. \A a \in Assets : T[a] \in [Participants -> Rail!PositionRow]
    <3>1. TAKE a \in Assets
    <3>2. T[a] = [p \in Participants |-> T[a][p]]
      BY <2>1
    <3>3. \A p \in Participants : T[a][p] \in Rail!PositionRow
      BY <1>5
    <3>4. QED
      BY <3>2, <3>3
  <2>3. QED
    BY <2>1, <2>2
<1>8. F \in Nat
  BY <1>2, <1>3
<1> HIDE DEF W, T, F
<1>9. /\ e.wallet = W /\ e.position = T /\ e.isins = d.isins \cup m.isins
      /\ e.instructions = d.instructions \cup m.instructions /\ e.servicing = d.servicing \cup m.servicing /\ e.funded = F
  BY <1>1
<1>10. e \in TableRecord
  BY <1>1, <1>2, <1>3, <1>6, <1>7, <1>8 DEF TableRecord
<1>11. \A p \in Participants : AppliedWallet(d, m, e, p)
  BY <1>4, <1>9 DEF AppliedWallet
<1>12. \A a \in Assets, p \in Participants : AppliedPosition(d, m, e, a, p)
  BY <1>5, <1>9 DEF AppliedPosition
<1>13. e.funded = IF m.funded > d.funded THEN m.funded ELSE d.funded
  BY <1>9 DEF F
<1>14. QED
  BY <1>9, <1>10, <1>11, <1>12, <1>13

LEMMA WriteEffect ==
    ASSUME MoneyInv, NEW c \in Clients, NEW outcome \in {"ok", "failed", "unknown"}, Rail!Write(c, outcome),
           NEW j, j = job[c]
    PROVE  /\ up /\ j.todo # <<>> /\ Head(j.todo) = "write" /\ j \in Rail!Job
           /\ \/ faults' = faults /\ outcome = "ok"
              \/ faults' = faults + 1 /\ outcome # "ok"
           /\ db' = IF outcome = "failed" THEN db ELSE Rail!Apply(db, j.m)
           /\ persistFailures' \in Nat
           /\ UNCHANGED <<up, balance, funded, pos, isins, instructions, servicing, rev, chain, ops, crashes, blindBoots>>
           /\ Gets(c, IF Len(j.todo) = 1 THEN Rail!Idle
                      ELSE Carries(Tail(j.todo), j.id, None, j.si, j.pay, j.recs, j.commits))
<1>1. /\ up /\ j.todo # <<>> /\ Head(j.todo) = "write"
      /\ IF outcome = "ok" THEN faults' = faults ELSE faults < MaxFaults /\ faults' = faults + 1
      /\ db' = IF outcome = "failed" THEN db ELSE Rail!Apply(db, j.m)
      /\ persistFailures' = persistFailures + (IF outcome # "ok" /\ j.commits THEN 1 ELSE 0)
      /\ UNCHANGED <<up, balance, funded, pos, isins, instructions, servicing, rev, chain, ops, crashes, blindBoots>>
      /\ job' = [job EXCEPT ![c] = IF Len(j.todo) = 1 THEN Rail!Idle
                                   ELSE [Rail!Done(j) EXCEPT !.m = Rail!EmptyMutation]]
  BY Zenon DEF Rail!Write, Rail!Comes
<1>2. j \in Rail!Job /\ persistFailures \in Nat /\ faults \in Nat
  BY DEF MoneyInv, Rail!TypeOK
<1>3. [Rail!Done(j) EXCEPT !.m = Rail!EmptyMutation] = Carries(Tail(j.todo), j.id, None, j.si, j.pay, j.recs, j.commits)
  <2> DEFINE b == j.commits
             t == Tail(j.todo)
  <2> HIDE DEF b, t
  <2>1. [Carries(t, j.id, j.m, j.si, j.pay, j.recs, b) EXCEPT !.m = None] = Carries(t, j.id, None, j.si, j.pay, j.recs, b)
    BY SetRows
  <2>2. Rail!Done(j) = Carries(t, j.id, j.m, j.si, j.pay, j.recs, b) /\ Rail!EmptyMutation = None
    BY <1>2, DoneCarries, IdleCarries, Zenon DEF b, t
  <2>3. QED
    BY <2>1, <2>2, Zenon DEF b, t
<1> DEFINE k == IF Len(j.todo) = 1 THEN Rail!Idle
                ELSE Carries(Tail(j.todo), j.id, None, j.si, j.pay, j.recs, j.commits)
<1>4. k \in Rail!Job
  <2>1. j.todo \in Seq(Rail!Steps)
    BY <1>2, JobIsCarried
  <2>2. Tail(j.todo) \in Seq(Rail!Steps)
    BY <1>1, <2>1
  <2>3. Carries(Tail(j.todo), j.id, None, j.si, j.pay, j.recs, j.commits) \in Rail!Job
    BY <1>2, <2>2, JobIsCarried, CarriedType, Plain
  <2>4. QED
    BY <2>3, NothingInHand
<1>5. job' = [job EXCEPT ![c] = k]
  BY <1>1, <1>3, Zenon
<1> HIDE DEF k
<1>6. Gets(c, k)
  BY <1>4, <1>5 DEF Gets
<1>7. persistFailures' \in Nat
  BY <1>1, <1>2
<1>8. QED
  BY <1>1, <1>2, <1>6, <1>7 DEF k

-----------------------------------------------------------------------------
(* The rail: money is conserved *)

LEMMA MoneyCounters ==
    ASSUME MoneyInv, NEW c \in Clients, Rail!Counters(c)
    PROVE  MoneyInv'
<1> DEFINE j == job[c]
           k == Carries(Tail(j.todo), j.id, Table(j.m.wallets, j.m.positions, j.m.isins, j.m.instructions,
                                                  j.m.servicing, funded), j.si, j.pay, j.recs, j.commits)
<1>1. /\ UNCHANGED <<up, balance, funded, pos, isins, instructions, servicing, rev, persistFailures, chain, db, ops,
                     faults, crashes, blindBoots>>
      /\ Gets(c, k)
  BY CountersEffect
<1>2. Rail!TypeOK /\ FiniteTables' /\ FiniteRows(j) /\ FairShares(j)
  BY <1>1 DEF MoneyInv, FiniteTables
<1>3. FiniteRows(k) /\ FairShares(k)
  <2>1. k.si = j.si /\ k.pay = j.pay /\ k.m.instructions = j.m.instructions /\ k.m.servicing = j.m.servicing
    BY DEF Carries, Table
  <2> HIDE DEF k
  <2>2. QED
    BY <1>2, <2>1 DEF FiniteRows, FairShares
<1> HIDE DEF k
<1>4. job' \in [Clients -> Rail!Job]
  BY <1>1, <1>2, JobGets DEF Rail!TypeOK
<1>5. Rail!TypeOK'
  BY <1>1, <1>2, <1>4 DEF Rail!TypeOK
<1>6. QED
  BY <1>1, <1>2, <1>3, <1>5, KeepsMoney DEF MoneyInv

LEMMA MoneyBlock ==
    ASSUME MoneyInv, NEW c \in Clients, Rail!AppendBlock(c)
    PROVE  MoneyInv'
<1> DEFINE j == job[c]
           h == Len(chain) + 1
           k == Anchors(j, h)
<1>1. /\ j.todo # <<>> /\ j \in Rail!Job /\ h \in Nat
      /\ chain' = Append(chain, j.id)
      /\ instructions' = (instructions \ j.si) \cup At(h, j.si)
      /\ UNCHANGED <<up, balance, funded, pos, isins, servicing, rev, persistFailures, db, ops, faults, crashes,
                     blindBoots>>
      /\ Gets(c, k)
  BY BlockEffect
<1>2. Rail!TypeOK /\ FiniteTables' /\ FiniteRows(j) /\ FairShares(j)
  BY <1>1 DEF MoneyInv, FiniteTables
<1>3. /\ At(h, j.si) \in SUBSET Rail!Instruction /\ IsFiniteSet(At(h, j.si)) /\ IsFiniteSet(RowsAt(h, j.recs))
  BY <1>1, <1>2, AnchorsType DEF FiniteRows
<1>4. FiniteRows(k) /\ FairShares(k)
  <2>1. /\ k.si = At(h, j.si) /\ k.pay = j.pay /\ k.m.instructions = At(h, j.si)
        /\ k.m.servicing = RowsAt(h, j.recs)
    BY DEF Anchors, Carries, Table
  <2> HIDE DEF k
  <2>2. QED
    BY <1>2, <1>3, <2>1 DEF FiniteRows, FairShares
<1> HIDE DEF k
<1>5. job' \in [Clients -> Rail!Job]
  BY <1>1, <1>2, JobGets DEF Rail!TypeOK
<1>6. instructions' \subseteq Rail!Instruction
  BY <1>1, <1>2, <1>3 DEF Rail!TypeOK
<1>7. chain' \in Seq(Nat)
  <2>1. j.id \in Nat /\ chain \in Seq(Nat)
    BY <1>1, <1>2, JobIsCarried DEF Rail!TypeOK
  <2>2. QED
    BY <1>1, <2>1
<1>8. Rail!TypeOK'
  BY <1>1, <1>2, <1>5, <1>6, <1>7 DEF Rail!TypeOK
<1>9. QED
  BY <1>1, <1>2, <1>4, <1>8, KeepsMoney DEF MoneyInv

LEMMA MoneyBackFill ==
    ASSUME MoneyInv, NEW c \in Clients, Rail!BackFill(c)
    PROVE  MoneyInv'
<1> DEFINE j == job[c]
           k == Carries(Tail(j.todo), j.id, j.m, j.si, j.pay, j.recs, j.commits)
<1>1. /\ servicing' \in Seq(Rail!Payout)
      /\ UNCHANGED <<up, balance, funded, pos, isins, instructions, rev, persistFailures, chain, db, ops, faults,
                     crashes, blindBoots>>
      /\ Gets(c, k)
  BY BackFillEffect
<1>2. Rail!TypeOK /\ FiniteTables' /\ FiniteRows(j) /\ FairShares(j)
  BY <1>1 DEF MoneyInv, FiniteTables
<1>3. FiniteRows(k) /\ FairShares(k)
  <2>1. k.si = j.si /\ k.pay = j.pay /\ k.m = j.m
    BY Fields
  <2> HIDE DEF k
  <2>2. QED
    BY <1>2, <2>1 DEF FiniteRows, FairShares
<1> HIDE DEF k
<1>4. job' \in [Clients -> Rail!Job]
  BY <1>1, <1>2, JobGets DEF Rail!TypeOK
<1>5. Rail!TypeOK'
  BY <1>1, <1>2, <1>4 DEF Rail!TypeOK
<1>6. QED
  BY <1>1, <1>2, <1>3, <1>5, KeepsMoney DEF MoneyInv

LEMMA MoneyWrite ==
    ASSUME MoneyInv, NEW c \in Clients, NEW outcome \in {"ok", "failed", "unknown"}, Rail!Write(c, outcome)
    PROVE  MoneyInv'
<1> DEFINE j == job[c]
           u == Carries(Tail(j.todo), j.id, None, j.si, j.pay, j.recs, j.commits)
           k == IF Len(j.todo) = 1 THEN Rail!Idle ELSE u
<1>1. /\ j \in Rail!Job
      /\ faults' = faults \/ faults' = faults + 1
      /\ db' = db \/ db' = Rail!Apply(db, j.m)
      /\ persistFailures' \in Nat
      /\ UNCHANGED <<up, balance, funded, pos, isins, instructions, servicing, rev, chain, ops, crashes, blindBoots>>
      /\ Gets(c, k)
  BY WriteEffect
<1>2. Rail!TypeOK /\ FiniteTables /\ FiniteRows(j) /\ FairShares(j)
  BY DEF MoneyInv
<1>3. FiniteRows(k) /\ FairShares(k)
  <2>1. FiniteRows(Rail!Idle) /\ FairShares(Rail!Idle)
    BY FS_EmptySet, IdleCarries DEF FiniteRows, FairShares, Carries, None, Rows
  <2>2. u.si = j.si /\ u.pay = j.pay /\ u.m.instructions = {} /\ u.m.servicing = {}
    BY DEF Carries, None, Rows
  <2> HIDE DEF u
  <2>3. FiniteRows(u) /\ FairShares(u)
    BY <1>2, <2>2, FS_EmptySet DEF FiniteRows, FairShares
  <2>4. QED
    BY <2>1, <2>3
<1> HIDE DEF k
<1>4. job' \in [Clients -> Rail!Job]
  BY <1>1, <1>2, JobGets DEF Rail!TypeOK
<1>5. db' \in TableRecord /\ FiniteTables'
  <2>1. db \in TableRecord
    BY <1>2 DEF Rail!TypeOK, TableRecord
  <2>2. CASE db' = db
    BY <1>2, <2>1, <2>2 DEF FiniteTables
  <2>3. CASE db' = Rail!Apply(db, j.m)
    <3>1. j.m \in Rail!Mutation
      BY <1>1, JobIsCarried
    <3>2. /\ db' \in TableRecord /\ db'.instructions = db.instructions \cup j.m.instructions
          /\ db'.servicing = db.servicing \cup j.m.servicing
      <4> DEFINE e == Rail!Apply(db, j.m)
      <4>1. e = Rail!Apply(db, j.m)
        OBVIOUS
      <4> HIDE DEF e
      <4>2. e \in TableRecord /\ e.instructions = db.instructions \cup j.m.instructions
            /\ e.servicing = db.servicing \cup j.m.servicing
        BY <2>1, <3>1, <4>1, Applied
      <4>3. db' = e
        BY <2>3, <4>1
      <4>4. QED
        BY <4>2, <4>3
    <3>3. IsFiniteSet(db.instructions \cup j.m.instructions) /\ IsFiniteSet(db.servicing \cup j.m.servicing)
      BY <1>2, FS_Union DEF FiniteTables, FiniteRows
    <3>4. QED
      BY <3>2, <3>3 DEF FiniteTables
  <2>4. QED
    BY <1>1, <2>2, <2>3
<1>6. faults' \in Nat
  BY <1>1, <1>2 DEF Rail!TypeOK
<1>7. Rail!TypeOK'
  BY <1>1, <1>2, <1>4, <1>5, <1>6 DEF Rail!TypeOK, TableRecord
<1>8. QED
  BY <1>1, <1>3, <1>5, <1>7, KeepsMoney DEF MoneyInv

LEMMA EmptyTotal == ASSUME Rail!RailConstants PROVE Rail!Total([p \in Participants |-> 0]) = 0
<1> DEFINE f == [p \in Participants |-> 0]
<1>1. DOMAIN f = Participants /\ \A p \in Participants : f[p] = 0
  OBVIOUS
<1> HIDE DEF f
<1>2. Total(f, Participants) = 0 * Cardinality(Participants)
  BY <1>1, Constants, ConstantTotal
<1>3. Cardinality(Participants) \in Nat
  BY Constants, FS_CardinalityType
<1>4. Rail!Total(f) = 0
  BY <1>1, <1>2, <1>3, RailTotal
<1>5. QED
  BY <1>4 DEF f

LEMMA EmptyEffect ==
    ASSUME Rail!Empty
    PROVE  /\ balance' = [p \in Participants |-> 0] /\ funded' = 0
           /\ pos' = [a \in Assets |-> [p \in Participants |-> 0]]
           /\ isins' = {} /\ instructions' = {} /\ servicing' = <<>> /\ rev' = 0 /\ persistFailures' = 0
           /\ balance' \in [Participants -> Nat] /\ pos' \in [Assets -> [Participants -> Nat]]
           /\ servicing' \in Seq(Rail!Payout)
<1>1. /\ balance' = [p \in Participants |-> 0] /\ funded' = 0
      /\ pos' = [a \in Assets |-> [p \in Participants |-> 0]]
      /\ isins' = {} /\ instructions' = {} /\ servicing' = <<>> /\ rev' = 0 /\ persistFailures' = 0
  BY Zenon DEF Rail!Empty
<1>2. QED
  BY <1>1, Plain

LEMMA CrashEffect ==
    ASSUME MoneyInv, Rail!Crash
    PROVE  /\ up /\ up' = FALSE /\ crashes' = crashes + 1 /\ Rail!Empty
           /\ job' \in [Clients -> Rail!Job] /\ \A c \in Clients : job'[c] = Rail!Idle
           /\ UNCHANGED <<chain, db, ops, faults, blindBoots>>
<1>1. /\ up /\ up' = FALSE /\ crashes' = crashes + 1 /\ Rail!Empty
      /\ job' = [c \in Clients |-> Rail!Idle]
      /\ UNCHANGED <<chain, db, ops, faults, blindBoots>>
  BY Zenon DEF Rail!Crash
<1>2. Rail!Idle \in Rail!Job
  BY NothingInHand
<1>3. job' \in [Clients -> Rail!Job] /\ \A c \in Clients : job'[c] = Rail!Idle
  BY <1>1, <1>2
<1>4. QED
  BY <1>1, <1>3

LEMMA MoneyCrash ==
    ASSUME MoneyInv, Rail!Crash
    PROVE  MoneyInv'
<1>1. Rail!TypeOK /\ crashes \in Nat /\ FiniteTables
  BY DEF MoneyInv, Rail!TypeOK
<1>2. crashes' # 0 /\ crashes' \in Nat
  BY <1>1, CrashEffect
<1>3. Rail!TypeOK'
  BY <1>1, <1>2, CrashEffect, EmptyEffect DEF Rail!TypeOK
<1>4. \A c \in Clients : FiniteRows(job'[c]) /\ FairShares(job'[c])
  <2>1. FiniteRows(Rail!Idle) /\ FairShares(Rail!Idle)
    BY FS_EmptySet, IdleCarries DEF FiniteRows, FairShares, Carries, None, Rows
  <2>2. QED
    BY <2>1, CrashEffect
<1>5. Rail!CashConserved' /\ Rail!TokensConserved'
  BY <1>2 DEF Rail!CashConserved, Rail!TokensConserved
<1>6. FiniteTables'
  BY <1>1, CrashEffect DEF FiniteTables
<1>7. QED
  BY <1>2, <1>3, <1>4, <1>5, <1>6 DEF MoneyInv

LEMMA MoneyBlind ==
    ASSUME MoneyInv, Rail!BootBlind
    PROVE  MoneyInv'
<1>1. /\ ~up /\ up' = TRUE /\ blindBoots' = blindBoots + 1 /\ Rail!Empty
      /\ UNCHANGED <<chain, db, job, ops, faults, crashes>>
  BY Zenon DEF Rail!BootBlind
<1>2. Rail!TypeOK /\ crashes' # 0
  BY <1>1 DEF MoneyInv
<1>3. Rail!TypeOK'
  BY <1>1, <1>2, EmptyEffect DEF Rail!TypeOK
<1>4. Rail!CashConserved' /\ Rail!TokensConserved'
  BY <1>2 DEF Rail!CashConserved, Rail!TokensConserved
<1>5. (FiniteTables /\ \A c \in Clients : FiniteRows(job[c]) /\ FairShares(job[c]))'
  BY <1>1 DEF MoneyInv, FiniteTables
<1>6. QED
  BY <1>2, <1>3, <1>4, <1>5 DEF MoneyInv

\* The revisions a boot reads are numbers, finitely many, and there is one.
LEMMA Loaded ==
    ASSUME Rail!RailConstants, Rail!TypeOK, FiniteTables
    PROVE  Rail!LoadedRevs \subseteq Nat /\ IsFiniteSet(Rail!LoadedRevs) /\ Rail!LoadedRevs # {}
<1> DEFINE D == {y \in Assets \X Participants : db.position[y[1]][y[2]].tokens > 0}
           A == {db.wallet[p].rev : p \in Participants}
           B == {db.position[x[1]][x[2]].rev : x \in D}
           C == {s.rev : s \in db.instructions}
           E == {s.rev : s \in db.servicing}
<1>1. Rail!LoadedRevs = A \cup B \cup C \cup E
  BY Zenon DEF Rail!LoadedRevs
<1>2. /\ \A p \in Participants : db.wallet[p] \in Rail!WalletRow
      /\ \A a \in Assets, p \in Participants : db.position[a][p] \in Rail!PositionRow
      /\ db.instructions \in SUBSET Rail!Instruction /\ db.servicing \in SUBSET Rail!Payout
  BY DEF Rail!TypeOK
<1>3. A \subseteq Nat /\ IsFiniteSet(A) /\ A # {}
  <2> DEFINE f == [p \in Participants |-> db.wallet[p].rev]
  <2>1. A = {f[p] : p \in Participants}
    OBVIOUS
  <2>2. A \subseteq Nat
    BY <1>2 DEF Rail!WalletRow
  <2>3. A # {}
    BY Constants
  <2> HIDE DEF A, f
  <2>4. QED
    BY <2>1, <2>2, <2>3, FiniteImage, Constants
<1>4. B \subseteq Nat /\ IsFiniteSet(B)
  <2> DEFINE f == [x \in D |-> db.position[x[1]][x[2]].rev]
  <2>1. B = {f[x] : x \in D}
    OBVIOUS
  <2>2. \A x \in D : f[x] \in Nat
    <3>1. \A a \in Assets, p \in Participants : db.position[a][p].rev \in Nat
      BY <1>2 DEF Rail!PositionRow
    <3>2. QED
      BY <3>1
  <2>3. IsFiniteSet(D)
    <3>1. IsFiniteSet(Assets \X Participants)
      BY FS_Product, Constants
    <3>2. D \in SUBSET (Assets \X Participants)
      OBVIOUS
    <3> HIDE DEF D
    <3>3. QED
      BY <3>1, <3>2, FS_Subset
  <2> HIDE DEF B, D, f
  <2>4. B \subseteq Nat
    BY <2>1, <2>2
  <2>5. QED
    BY <2>1, <2>3, <2>4, FiniteImage
<1>5. C \subseteq Nat /\ IsFiniteSet(C)
  <2> DEFINE f == [s \in db.instructions |-> s.rev]
  <2>1. C = {f[s] : s \in db.instructions}
    OBVIOUS
  <2>2. C \subseteq Nat
    BY <1>2 DEF Rail!Instruction
  <2> HIDE DEF C, f
  <2>3. QED
    BY <2>1, <2>2, FiniteImage DEF FiniteTables
<1>6. E \subseteq Nat /\ IsFiniteSet(E)
  <2> DEFINE f == [s \in db.servicing |-> s.rev]
  <2>1. E = {f[s] : s \in db.servicing}
    OBVIOUS
  <2>2. E \subseteq Nat
    BY <1>2 DEF Rail!Payout
  <2> HIDE DEF E, f
  <2>3. QED
    BY <2>1, <2>2, FiniteImage DEF FiniteTables
<1> HIDE DEF A, B, C, E
<1>7. IsFiniteSet(A \cup B \cup C \cup E)
  BY <1>3, <1>4, <1>5, <1>6, FS_Union
<1>8. QED
  BY <1>1, <1>3, <1>4, <1>5, <1>6, <1>7

LEMMA BootEffect ==
    ASSUME Rail!RailConstants, MoneyInv, Rail!Boot
    PROVE  /\ ~up /\ up'
           /\ balance' \in [Participants -> Nat] /\ \A p \in Participants : balance'[p] = db.wallet[p].bal
           /\ funded' = db.funded
           /\ pos' \in [Assets -> [Participants -> Nat]]
           /\ \A a \in Assets, p \in Participants : pos'[a][p] = db.position[a][p].tokens
           /\ isins' = db.isins /\ instructions' = db.instructions /\ servicing' \in Seq(Rail!Payout)
           /\ rev' \in Nat /\ \A r \in Rail!LoadedRevs : r <= rev'
           /\ persistFailures' = 0
           /\ UNCHANGED <<chain, db, job, ops, faults, crashes, blindBoots>>
<1> DEFINE W == [p \in Participants |-> db.wallet[p].bal]
           T == [a \in Assets |-> [p \in Participants |-> db.position[a][p].tokens]]
<1>1. /\ ~up /\ up' = TRUE /\ balance' = W /\ funded' = db.funded /\ pos' = T
      /\ isins' = db.isins /\ instructions' = db.instructions
      /\ rev' = CHOOSE r \in Rail!LoadedRevs : \A q \in Rail!LoadedRevs : q <= r
      /\ persistFailures' = 0
      /\ UNCHANGED <<chain, db, job, ops, faults, crashes, blindBoots>>
  BY Zenon DEF Rail!Boot
<1>2. \E s \in [1..Rail!Cardinality(db.servicing) -> db.servicing] : Rail!IsListing(s, db.servicing) /\ servicing' = s
  BY Zenon DEF Rail!Boot
<1>3. Rail!TypeOK /\ FiniteTables
  BY DEF MoneyInv
<1>4. /\ \A p \in Participants : db.wallet[p] \in Rail!WalletRow
      /\ \A a \in Assets, p \in Participants : db.position[a][p] \in Rail!PositionRow
      /\ db.servicing \in SUBSET Rail!Payout
  BY <1>3 DEF Rail!TypeOK
<1>5. W \in [Participants -> Nat] /\ \A p \in Participants : W[p] = db.wallet[p].bal
  BY <1>4 DEF Rail!WalletRow
<1>6. T \in [Assets -> [Participants -> Nat]] /\ \A a \in Assets, p \in Participants : T[a][p] = db.position[a][p].tokens
  <2>1. \A a \in Assets, p \in Participants : db.position[a][p].tokens \in Nat
    BY <1>4 DEF Rail!PositionRow
  <2>2. QED
    BY <2>1
<1>7. servicing' \in Seq(Rail!Payout)
  <2>1. PICK s \in [1..Rail!Cardinality(db.servicing) -> db.servicing] :
            Rail!IsListing(s, db.servicing) /\ servicing' = s
    BY <1>2
  <2>2. s \in Seq(db.servicing)
    BY <1>3, <2>1, ListedOnce DEF FiniteTables
  <2>3. QED
    BY <1>4, <2>1, <2>2
<1>8. rev' \in Nat /\ \A r \in Rail!LoadedRevs : r <= rev'
  <2> DEFINE L == Rail!LoadedRevs
             Top(r) == \A q \in L : q <= r
  <2>1. L \subseteq Nat /\ \E x \in L : Top(x)
    BY <1>3, Loaded, HasGreatest
  <2>2. rev' = CHOOSE r \in L : Top(r)
    BY <1>1
  <2> HIDE DEF L, Top
  <2>3. rev' \in L /\ Top(rev')
    BY <2>1, <2>2
  <2>4. QED
    BY <2>1, <2>3 DEF L, Top
<1> HIDE DEF W, T
<1>9. QED
  BY <1>1, <1>5, <1>6, <1>7, <1>8

LEMMA MoneyBoot ==
    ASSUME Rail!RailConstants, MoneyInv, Rail!Boot
    PROVE  MoneyInv'
<1>1. Rail!TypeOK /\ FiniteTables /\ crashes' # 0
  BY BootEffect DEF MoneyInv
<1>2. Rail!TypeOK'
  <2>1. db.funded \in Nat /\ db.isins \subseteq Assets /\ db.instructions \subseteq Rail!Instruction
    BY <1>1 DEF Rail!TypeOK
  <2>2. QED
    BY <1>1, <2>1, BootEffect DEF Rail!TypeOK
<1>3. Rail!CashConserved' /\ Rail!TokensConserved'
  BY <1>1 DEF Rail!CashConserved, Rail!TokensConserved
<1>4. (FiniteTables /\ \A c \in Clients : FiniteRows(job[c]) /\ FairShares(job[c]))'
  BY BootEffect DEF MoneyInv, FiniteTables
<1>5. QED
  BY <1>1, <1>2, <1>3, <1>4 DEF MoneyInv

LEMMA MoneyInit == ASSUME Rail!RailConstants, Rail!Init PROVE MoneyInv
<1> DEFINE B == [p \in Participants |-> 0]
           P == [p \in Participants |-> IF p \in Seeded THEN Holding ELSE 0]
           W == [p \in Participants |-> [who |-> p, bal |-> 0, rev |-> 0]]
           T == [a \in Assets |-> [p \in Participants |->
                    [asset |-> a, who |-> p, tokens |-> pos[a][p], rev |-> IF p \in Seeded THEN 1 ELSE 0]]]
<1>1. /\ up = TRUE /\ balance = B /\ funded = 0 /\ pos = [a \in Assets |-> P]
      /\ isins = {} /\ instructions = {} /\ servicing = <<>> /\ rev = 1 /\ persistFailures = 0 /\ chain = <<>>
      /\ db = [wallet |-> W, position |-> T, isins |-> {}, instructions |-> {}, servicing |-> {}, funded |-> 0]
      /\ job = [c \in Clients |-> Rail!Idle]
      /\ ops = 0 /\ faults = 0 /\ crashes = 0 /\ blindBoots = 0
  BY Zenon DEF Rail!Init
<1>2. P \in [Participants -> Nat]
  BY Constants
<1>3. B \in [Participants -> Nat] /\ pos \in [Assets -> [Participants -> Nat]] /\ \A a \in Assets : pos[a] = P
  <2> HIDE DEF P
  <2>1. QED
    BY <1>1, <1>2
<1>4. W \in [Participants -> Rail!WalletRow]
  BY DEF Rail!WalletRow
<1>5. T \in [Assets -> [Participants -> Rail!PositionRow]]
  <2>1. ASSUME NEW a \in Assets, NEW p \in Participants
        PROVE  [asset |-> a, who |-> p, tokens |-> pos[a][p], rev |-> IF p \in Seeded THEN 1 ELSE 0] \in Rail!PositionRow
    <3>1. pos[a][p] \in Nat
      BY <1>3
    <3>2. QED
      BY <3>1 DEF Rail!PositionRow
  <2>2. QED
    BY <2>1
<1>6. db \in TableRecord /\ db.instructions = {} /\ db.servicing = {}
  <2> HIDE DEF W, T
  <2>1. QED
    BY <1>1, <1>4, <1>5 DEF TableRecord
<1>7. job \in [Clients -> Rail!Job] /\ \A c \in Clients : job[c] = Rail!Idle
  BY <1>1, NothingInHand
<1>8. Rail!TypeOK
  <2>1. <<>> \in Seq(Rail!Payout) /\ <<>> \in Seq(Nat)
    OBVIOUS
  <2> HIDE DEF W, T, P
  <2>2. QED
    BY <1>1, <1>3, <1>6, <1>7, <2>1 DEF Rail!TypeOK, TableRecord
<1>9. Rail!CashConserved
  BY <1>1, EmptyTotal DEF Rail!CashConserved
<1>10. Rail!TokensConserved
  <2>1. DOMAIN P = Participants /\ \A p \in Participants : P[p] = IF p \in Seeded THEN Holding ELSE 0
    OBVIOUS
  <2> HIDE DEF P
  <2>2. IsFiniteSet(Seeded) /\ Seeded \in SUBSET Participants /\ Holding \in Int
    BY Constants, FS_Subset
  <2>3. Total(P, Participants) = Total(P, Seeded)
    BY <2>1, <2>2, Constants, WiderTotal
  <2>4. Total(P, Seeded) = Holding * Cardinality(Seeded)
    BY <2>1, <2>2, ConstantTotal
  <2>5. \A a \in Assets : Rail!Total(pos[a]) = Holding * Rail!Cardinality(Seeded)
    BY <1>3, <2>1, <2>3, <2>4, RailTotal, RailSets
  <2>6. QED
    BY <2>5 DEF Rail!TokensConserved
<1>11. FiniteTables /\ \A c \in Clients : FiniteRows(job[c]) /\ FairShares(job[c])
  <2>1. FiniteRows(Rail!Idle) /\ FairShares(Rail!Idle)
    BY FS_EmptySet, IdleCarries DEF FiniteRows, FairShares, Carries, None, Rows
  <2>2. QED
    BY <1>6, <1>7, <2>1, FS_EmptySet DEF FiniteTables
<1>12. QED
  BY <1>1, <1>8, <1>9, <1>10, <1>11 DEF MoneyInv

LEMMA MoneyNext == ASSUME Rail!RailConstants, MoneyInv, [Rail!Next]_Rail!vars PROVE MoneyInv'
<1>1. CASE UNCHANGED Rail!vars
  <2>1. UNCHANGED <<up, balance, funded, pos, isins, instructions, servicing, rev, persistFailures,
                    chain, db, job, ops, faults, crashes, blindBoots>>
    BY <1>1 DEF Rail!vars
  <2>2. QED
    BY <2>1 DEF MoneyInv, Rail!TypeOK, FiniteTables, FiniteRows, FairShares, Rail!CashConserved, Rail!TokensConserved
<1>2. ASSUME NEW c \in Clients, Rail!UnderLock(c) PROVE MoneyInv'
  <2>1. CASE \E p \in Participants, paise \in 1..MaxCash : Rail!FundWallet(c, p, paise)
    BY <2>1, MoneyFund
  <2>2. CASE \E a \in Assets : Rail!AssignISIN(c, a)
    BY <2>2, MoneyAssign
  <2>3. CASE \E q \in Rail!Request : Rail!SettleDvP(c, q) \/ Rail!RefuseDvP(c, q) \/ Rail!DryRunDvP(c, q)
    BY <2>3, MoneySettle, MoneyRefuse, MoneyDryRun
  <2>4. CASE \E a \in Assets, payer \in Participants, gross \in 1..MaxCash : Rail!ReadRegister(c, a, payer, gross)
    BY <2>4, MoneyRead
  <2>5. CASE Rail!PayOut(c)
    BY <2>5, MoneyPayOut
  <2>6. QED
    BY <1>2, <2>1, <2>2, <2>3, <2>4, <2>5, Zenon DEF Rail!UnderLock
<1>3. ASSUME NEW c \in Clients, Rail!AfterUnlock(c) PROVE MoneyInv'
  <2>1. CASE \E outcome \in {"ok", "failed", "unknown"} : Rail!Write(c, outcome)
    BY <2>1, MoneyWrite
  <2>2. QED
    BY <1>3, <2>1, MoneyCounters, MoneyBlock, MoneyBackFill, Zenon DEF Rail!AfterUnlock
<1>4. QED
  BY <1>1, <1>2, <1>3, MoneyCrash, MoneyBoot, MoneyBlind, Zenon DEF Rail!Next
-----------------------------------------------------------------------------
(* The rail: the tables catch up with its memory *)

\* A request that carries no rows: not begun, about to pay, or with a block left to append.
NoRows == {<<>>, Funding3, Reading}
WillCount == {Funding0, Funding1, Settling0, Refusing0, Refusing1, Paying0}
Settling == {Settling0, Settling1, Writing}
Recording == {Settling0, Settling1, Writing, Refusing0, Refusing1, Refusing2}

\* The rows of a settlement are in the mutation of its request.
LegsAhead(j, s) ==
    /\ j.todo \in Settling
    /\ \E w \in j.m.wallets : w.who = s.buyer /\ w.rev = s.rev - 4
    /\ \E w \in j.m.wallets : w.who = s.seller /\ w.rev = s.rev - 3
    /\ \E t \in j.m.positions : t.asset = s.asset /\ t.who = s.seller /\ t.rev = s.rev - 2
    /\ \E t \in j.m.positions : t.asset = s.asset /\ t.who = s.buyer /\ t.rev = s.rev - 1
OneRowEach(m) ==
    /\ \A w, x \in m.wallets : w.who = x.who => w = x
    /\ \A t, x \in m.positions : t.asset = x.asset /\ t.who = x.who => t = x
NamesItsBlock(height, id) == height \in DOMAIN chain /\ chain[height] = id

\* What a request has in hand is its own, and in the state its plan says.
Plan(j) ==
    /\ j.todo \in Plans
    /\ j.si # {} => j.todo \in Recording
    /\ j.todo \in NoRows => j.m.wallets = {} /\ j.m.positions = {} /\ j.m.funded = 0
    /\ OneRowEach(j.m)
Named(j) ==
    /\ \A s \in j.si : s.id = j.id
    /\ \A i \in DOMAIN j.recs : j.recs[i].run = j.id
    /\ \A s \in j.m.instructions : NamesItsBlock(s.block, s.id)
    /\ \A s \in j.m.servicing : NamesItsBlock(s.block, s.run)
    /\ j.m.instructions \subseteq j.si
    /\ j.todo # Writing => \A s \in j.si : s.block = 0
    /\ j.todo = Writing => j.m.instructions = j.si
Settles(j) ==
    /\ \A s \in j.si : s.status = "SETTLED" => LegsAhead(j, s)
    /\ \A t \in j.m.positions : \E s \in j.si : s.status = "SETTLED" /\ t.rev <= s.rev
JobsInv ==
    /\ \A c \in Clients : Plan(job[c]) /\ Named(job[c]) /\ Settles(job[c])
    /\ ~up => \A c \in Clients : job[c] = Rail!Idle

\* What is stored names its block and has its legs, and a boot finds a revision above that
\* of every position it does not read.
StoredInv ==
    /\ Rail!StoredRowsAreAnchored /\ Rail!StoredSettlementIsWhole
    /\ \A s \in db.instructions : s.status = "SETTLED" => s.seller \in Participants /\ s.buyer \in Participants
    /\ \A a \in Assets, p \in Participants :
          \/ db.position[a][p].tokens > 0 \/ db.position[a][p].rev = 0
          \/ \E s \in db.instructions : db.position[a][p].rev <= s.rev

\* No row, stored or on its way, is above the process's revision.
RevInv ==
    up /\ blindBoots = 0 =>
        /\ \A p \in Participants : db.wallet[p].rev <= rev
        /\ \A a \in Assets, p \in Participants : db.position[a][p].rev <= rev
        /\ \A c \in Clients : (\A w \in job[c].m.wallets : w.rev <= rev) /\ (\A t \in job[c].m.positions : t.rev <= rev)

\* The stored rows and those on their way; the newest of them says what memory says.
WalletRows(p) == {db.wallet[p]} \cup {w \in UNION {job[c].m.wallets : c \in Clients} : w.who = p}
PositionRows(a, p) ==
    {db.position[a][p]} \cup {t \in UNION {job[c].m.positions : c \in Clients} : t.asset = a /\ t.who = p}
Newest(l, R) == \A w \in R : w.rev <= l.rev /\ (w.rev = l.rev => w = l)

Wallets == \A p \in Participants : \E l \in WalletRows(p) : Newest(l, WalletRows(p)) /\ l.bal = balance[p]
Positions == \A a \in Assets, p \in Participants :
    \E l \in PositionRows(a, p) : Newest(l, PositionRows(a, p)) /\ l.tokens = pos[a][p]
Funded ==
    \/ db.funded = funded
    \/ \E c \in Clients : job[c].todo # <<>> /\ (job[c].m.funded = funded \/ job[c].todo \in WillCount)
Below ==
    /\ db.funded <= funded /\ \A c \in Clients : job[c].m.funded <= funded
    /\ db.instructions \subseteq instructions /\ \A c \in Clients : job[c].m.instructions \subseteq instructions
Recorded == \A s \in instructions : s \in db.instructions \/ \E c \in Clients : s \in job[c].si
MirrorInv ==
    /\ up /\ faults = 0 /\ blindBoots = 0 => Wallets /\ Positions /\ Funded
    /\ up /\ blindBoots = 0 => Below
    /\ faults = 0 => Recorded

RailInv == MoneyInv /\ JobsInv /\ StoredInv /\ RevInv /\ MirrorInv
-----------------------------------------------------------------------------
(* The rail's tables: a request that takes up work, or goes on with it *)

\* The chain only grows, so what named its block goes on naming it.
ChainGrows == chain' = chain \/ \E i \in Nat : chain' = Append(chain, i)
LEMMA NamesOn ==
    ASSUME chain \in Seq(Nat), ChainGrows, NEW h, NEW i, NamesItsBlock(h, i)
    PROVE  NamesItsBlock(h, i)'
<1>1. CASE chain' = chain
  BY <1>1 DEF NamesItsBlock
<1>2. ASSUME NEW x \in Nat, chain' = Append(chain, x) PROVE NamesItsBlock(h, i)'
  <2>1. h \in 1..Len(chain) /\ Len(chain) \in Nat
    BY DEF NamesItsBlock
  <2>2. Len(chain') = Len(chain) + 1 /\ chain' \in Seq(Nat) /\ chain'[h] = chain[h]
    BY <1>2, <2>1
  <2>3. h \in DOMAIN chain'
    BY <2>1, <2>2
  <2>4. QED
    BY <2>2, <2>3 DEF NamesItsBlock
<1>3. QED
  BY <1>1, <1>2 DEF ChainGrows

\* The requests stay what they should be, when one of them goes on to k.
LEMMA JobsOn ==
    ASSUME MoneyInv, JobsInv, up, up' = up, ChainGrows, NEW c, NEW k, Gets(c, k), Plan(k), Named(k)', Settles(k)
    PROVE  JobsInv'
<1>1. c \in Clients /\ \A d \in Clients : job'[d] = IF d = c THEN k ELSE job[d]
  BY JobGets DEF MoneyInv, Rail!TypeOK
<1>2. ASSUME NEW d \in Clients, d # c, NEW x, x = job[d] PROVE x = job'[d] /\ Plan(x) /\ Named(x)' /\ Settles(x)
  <2>1. job'[d] = job[d] /\ Plan(x) /\ Named(x) /\ Settles(x)
    BY <1>1, <1>2 DEF JobsInv
  <2>2. \A h, i : NamesItsBlock(h, i) => NamesItsBlock(h, i)'
    BY NamesOn DEF MoneyInv, Rail!TypeOK
  <2>3. Named(x)'
    BY <2>1, <2>2 DEF Named
  <2>4. QED
    BY <1>2, <2>1, <2>3
<1>3. ASSUME NEW d \in Clients PROVE (Plan(job[d]) /\ Named(job[d]) /\ Settles(job[d]))'
  <2>2. \A y : y = job'[d] => Plan(y) /\ Named(y)' /\ Settles(y)
    BY <1>1, <1>2
  <2>3. ASSUME NEW y, y = job'[d] PROVE (Plan(job[d]) /\ Named(job[d]) /\ Settles(job[d]))'
    BY <2>2, <2>3 DEF Plan, Settles, OneRowEach, LegsAhead, Named
  <2>4. QED
    BY <2>3
<1>4. QED
  BY <1>3 DEF JobsInv

LEMMA StoredOn ==
    ASSUME MoneyInv, StoredInv, db' = db, ChainGrows
    PROVE  StoredInv'
<1>1. \A h, i : NamesItsBlock(h, i) => NamesItsBlock(h, i)'
  BY NamesOn DEF MoneyInv, Rail!TypeOK
<1>2. Rail!StoredRowsAreAnchored'
  BY <1>1 DEF StoredInv, Rail!StoredRowsAreAnchored, NamesItsBlock
<1>3. QED
  BY <1>2 DEF StoredInv, Rail!StoredSettlementIsWhole

\* The rows of a request that went from j to k: those it had, and new ones above every
\* revision there was, one for each balance and position that changed.
WalletsOn(j, k) ==
    /\ j.m.wallets \subseteq k.m.wallets
    /\ \A w \in k.m.wallets : w \in j.m.wallets \/ (rev < w.rev /\ w.rev <= rev' /\ w.bal = balance'[w.who])
    /\ \A p \in Participants : balance'[p] = balance[p] \/ \E w \in k.m.wallets : w.who = p /\ w.rev > rev
PositionsOn(j, k) ==
    /\ j.m.positions \subseteq k.m.positions
    /\ \A t \in k.m.positions : t \in j.m.positions \/ (rev < t.rev /\ t.rev <= rev' /\ t.tokens = pos'[t.asset][t.who])
    /\ \A a \in Assets, p \in Participants :
          pos'[a][p] = pos[a][p] \/ \E t \in k.m.positions : t.asset = a /\ t.who = p /\ t.rev > rev
RowsOn(j, k) == WalletsOn(j, k) /\ PositionsOn(j, k)

LEMMA RevOn ==
    ASSUME MoneyInv, RevInv, up, up' = up, UNCHANGED <<db, blindBoots>>, rev' \in Nat, rev <= rev',
           NEW c, NEW k, Gets(c, k), RowsOn(job[c], k)
    PROVE  RevInv'
<1> SUFFICES ASSUME blindBoots = 0 PROVE RevInv'
  BY DEF RevInv
<1>1. c \in Clients /\ k \in Rail!Job /\ \A d \in Clients : job'[d] = IF d = c THEN k ELSE job[d]
  BY JobGets DEF MoneyInv, Rail!TypeOK, Gets
<1>2. /\ rev \in Nat /\ job \in [Clients -> Rail!Job] /\ db.wallet \in [Participants -> Rail!WalletRow]
      /\ db.position \in [Assets -> [Participants -> Rail!PositionRow]]
  BY DEF MoneyInv, Rail!TypeOK
<1>3. /\ \A p \in Participants : db.wallet[p].rev <= rev
      /\ \A a \in Assets, p \in Participants : db.position[a][p].rev <= rev
      /\ \A d \in Clients : (\A w \in job[d].m.wallets : w.rev <= rev) /\ (\A t \in job[d].m.positions : t.rev <= rev)
  BY DEF RevInv
<1>4. \A n \in Nat : n <= rev => n <= rev'
  BY <1>2
<1>5. \A p \in Participants : db.wallet[p].rev <= rev'
  BY <1>2, <1>3, <1>4 DEF Rail!WalletRow
<1>6. \A a \in Assets, p \in Participants : db.position[a][p].rev <= rev'
  BY <1>2, <1>3, <1>4 DEF Rail!PositionRow
<1>7. ASSUME NEW d \in Clients
      PROVE  (\A w \in job'[d].m.wallets : w.rev <= rev') /\ (\A t \in job'[d].m.positions : t.rev <= rev')
  <2>1. /\ job[d] \in Rail!Job /\ job[c] \in Rail!Job
        /\ (\A w \in job[d].m.wallets : w.rev <= rev) /\ (\A t \in job[d].m.positions : t.rev <= rev)
        /\ (\A w \in job[c].m.wallets : w.rev <= rev) /\ (\A t \in job[c].m.positions : t.rev <= rev)
    BY <1>1, <1>2, <1>3
  <2>2. \A w \in job[d].m.wallets \cup job[c].m.wallets : w.rev \in Nat
    BY <2>1, JobIsCarried DEF Rail!WalletRow
  <2>3. \A t \in job[d].m.positions \cup job[c].m.positions : t.rev \in Nat
    BY <2>1, JobIsCarried DEF Rail!PositionRow
  <2>4. CASE d # c
    BY <1>1, <1>4, <2>1, <2>2, <2>3, <2>4
  <2>5. CASE d = c
    BY <1>1, <1>4, <2>1, <2>2, <2>3, <2>5 DEF RowsOn, WalletsOn, PositionsOn
  <2>6. QED
    BY <2>4, <2>5
<1>8. QED
  BY <1>5, <1>6, <1>7 DEF RevInv

\* A row above every other one is the newest.
LEMMA NewRow ==
    ASSUME NEW R, NEW x \in R, NEW r \in Nat, \A y \in R : y.rev \in Nat, r < x.rev, \A y \in R : y = x \/ y.rev <= r
    PROVE  Newest(x, R)
BY DEF Newest

LEMMA RowTypes ==
    ASSUME MoneyInv
    PROVE  /\ rev \in Nat
           /\ \A p \in Participants : db.wallet[p] \in Rail!WalletRow /\ db.wallet[p].rev \in Nat
           /\ \A a \in Assets, p \in Participants : db.position[a][p] \in Rail!PositionRow /\ db.position[a][p].rev \in Nat
           /\ \A c \in Clients : /\ \A w \in job[c].m.wallets : w \in Rail!WalletRow /\ w.rev \in Nat
                                 /\ \A t \in job[c].m.positions : t \in Rail!PositionRow /\ t.rev \in Nat
<1>1. /\ rev \in Nat /\ job \in [Clients -> Rail!Job] /\ db.wallet \in [Participants -> Rail!WalletRow]
      /\ db.position \in [Assets -> [Participants -> Rail!PositionRow]]
  BY DEF MoneyInv, Rail!TypeOK
<1>2. ASSUME NEW c \in Clients
      PROVE  /\ \A w \in job[c].m.wallets : w \in Rail!WalletRow /\ w.rev \in Nat
             /\ \A t \in job[c].m.positions : t \in Rail!PositionRow /\ t.rev \in Nat
  <2>1. job[c] \in Rail!Job
    BY <1>1
  <2>2. job[c].m.wallets \in SUBSET Rail!WalletRow /\ job[c].m.positions \in SUBSET Rail!PositionRow
    BY <2>1, JobIsCarried
  <2>3. QED
    BY <2>2 DEF Rail!WalletRow, Rail!PositionRow
<1>3. QED
  BY <1>1, <1>2 DEF Rail!WalletRow, Rail!PositionRow

\* The rows of a balance: those there were, and new ones.
LEMMA WalletsFollow ==
    ASSUME MoneyInv, RevInv, up, blindBoots = 0, Wallets, db' = db,
           NEW c, NEW k, Gets(c, k), WalletsOn(job[c], k), OneRowEach(k.m)
    PROVE  Wallets'
<1>1. c \in Clients /\ \A d \in Clients : job'[d] = IF d = c THEN k ELSE job[d]
  BY JobGets DEF MoneyInv, Rail!TypeOK
<1>2. SUFFICES ASSUME NEW p \in Participants
               PROVE  \E l \in WalletRows(p)' : Newest(l, WalletRows(p)') /\ l.bal = balance'[p]
  BY DEF Wallets, Newest
<1> DEFINE R == WalletRows(p)
           N == {w \in k.m.wallets : w.who = p /\ w.rev > rev}
<1>3. /\ rev \in Nat /\ \A w \in R : w.rev <= rev /\ w.rev \in Nat
  BY <1>1, RowTypes DEF RevInv, WalletRows
<1>4. WalletRows(p)' = R \cup N
  <2>1. ASSUME NEW w \in WalletRows(p)' PROVE w \in R \cup N
    <3>1. CASE w = db.wallet[p]
      BY <3>1 DEF WalletRows
    <3>2. ASSUME NEW d \in Clients, w \in job'[d].m.wallets, w.who = p PROVE w \in R \cup N
      BY <1>1, <3>2 DEF WalletsOn, WalletRows
    <3>3. QED
      BY <3>1, <3>2, <2>1 DEF WalletRows
  <2>2. ASSUME NEW w \in R PROVE w \in WalletRows(p)'
    <3>1. CASE w = db.wallet[p]
      BY <3>1 DEF WalletRows
    <3>2. ASSUME NEW d \in Clients, w \in job[d].m.wallets, w.who = p PROVE w \in WalletRows(p)'
      <4>1. w \in job'[d].m.wallets
        BY <1>1, <3>2 DEF WalletsOn
      <4>2. QED
        BY <3>2, <4>1 DEF WalletRows
    <3>3. QED
      BY <3>1, <3>2, <2>2 DEF WalletRows
  <2>3. ASSUME NEW w \in N PROVE w \in WalletRows(p)'
    <3>1. w \in job'[c].m.wallets /\ w.who = p
      BY <1>1
    <3>2. QED
      BY <3>1, <1>1 DEF WalletRows
  <2>4. QED
    BY <2>1, <2>2, <2>3
<1>5. \A w \in N : w.rev \in Nat
  <2>1. k.m.wallets \in SUBSET Rail!WalletRow
    BY JobIsCarried DEF Gets
  <2>2. QED
    BY <2>1 DEF Rail!WalletRow
<1>6. CASE N = {}
  <2>1. WalletRows(p)' = R /\ balance'[p] = balance[p]
    BY <1>4, <1>6 DEF WalletsOn
  <2>2. QED
    BY <2>1 DEF Wallets
<1>7. ASSUME NEW x \in N PROVE \E l \in WalletRows(p)' : Newest(l, WalletRows(p)') /\ l.bal = balance'[p]
  <2>1. \A w \in N : w = x
    BY DEF OneRowEach
  <2>2. \A w \in R \cup N : w.rev \in Nat /\ (w = x \/ w.rev <= rev)
    BY <1>3, <1>5, <2>1
  <2>3. rev < x.rev /\ x \in R \cup N
    BY <1>3, <1>5
  <2> HIDE DEF R, N
  <2>4. Newest(x, R \cup N)
    BY <1>3, <2>2, <2>3, NewRow
  <2>5. x.bal = balance'[p]
    <3>1. x \notin job[c].m.wallets
      BY <1>1, <1>3, <2>3, RowTypes DEF RevInv, N
    <3>2. QED
      BY <3>1 DEF WalletsOn, N
  <2>6. QED
    BY <1>4, <2>3, <2>4, <2>5
<1>8. QED
  BY <1>6, <1>7

\* The rows of a position, in the same way.
LEMMA PositionsFollow ==
    ASSUME MoneyInv, RevInv, up, blindBoots = 0, Positions, db' = db,
           NEW c, NEW k, Gets(c, k), PositionsOn(job[c], k), OneRowEach(k.m)
    PROVE  Positions'
<1>1. c \in Clients /\ \A d \in Clients : job'[d] = IF d = c THEN k ELSE job[d]
  BY JobGets DEF MoneyInv, Rail!TypeOK
<1>2. SUFFICES ASSUME NEW a \in Assets, NEW p \in Participants
               PROVE  \E l \in PositionRows(a, p)' : Newest(l, PositionRows(a, p)') /\ l.tokens = pos'[a][p]
  BY DEF Positions, Newest
<1> DEFINE R == PositionRows(a, p)
           N == {t \in k.m.positions : t.asset = a /\ t.who = p /\ t.rev > rev}
<1>3. /\ rev \in Nat /\ \A t \in R : t.rev <= rev /\ t.rev \in Nat
  BY <1>1, RowTypes DEF RevInv, PositionRows
<1>4. PositionRows(a, p)' = R \cup N
  <2>1. ASSUME NEW t \in PositionRows(a, p)' PROVE t \in R \cup N
    <3>1. CASE t = db.position[a][p]
      BY <3>1 DEF PositionRows
    <3>2. ASSUME NEW d \in Clients, t \in job'[d].m.positions, t.asset = a, t.who = p PROVE t \in R \cup N
      BY <1>1, <3>2 DEF PositionsOn, PositionRows
    <3>3. QED
      BY <3>1, <3>2, <2>1 DEF PositionRows
  <2>2. ASSUME NEW t \in R PROVE t \in PositionRows(a, p)'
    <3>1. CASE t = db.position[a][p]
      BY <3>1 DEF PositionRows
    <3>2. ASSUME NEW d \in Clients, t \in job[d].m.positions, t.asset = a, t.who = p PROVE t \in PositionRows(a, p)'
      <4>1. t \in job'[d].m.positions
        BY <1>1, <3>2 DEF PositionsOn
      <4>2. QED
        BY <3>2, <4>1 DEF PositionRows
    <3>3. QED
      BY <3>1, <3>2, <2>2 DEF PositionRows
  <2>3. ASSUME NEW t \in N PROVE t \in PositionRows(a, p)'
    <3>1. t \in job'[c].m.positions /\ t.asset = a /\ t.who = p
      BY <1>1
    <3>2. QED
      BY <3>1, <1>1 DEF PositionRows
  <2>4. QED
    BY <2>1, <2>2, <2>3
<1>5. \A t \in N : t.rev \in Nat
  <2>1. k.m.positions \in SUBSET Rail!PositionRow
    BY JobIsCarried DEF Gets
  <2>2. QED
    BY <2>1 DEF Rail!PositionRow
<1>6. CASE N = {}
  <2>1. PositionRows(a, p)' = R /\ pos'[a][p] = pos[a][p]
    BY <1>4, <1>6 DEF PositionsOn
  <2>2. QED
    BY <2>1 DEF Positions
<1>7. ASSUME NEW x \in N PROVE \E l \in PositionRows(a, p)' : Newest(l, PositionRows(a, p)') /\ l.tokens = pos'[a][p]
  <2>1. \A t \in N : t = x
    BY DEF OneRowEach
  <2>2. \A t \in R \cup N : t.rev \in Nat /\ (t = x \/ t.rev <= rev)
    BY <1>3, <1>5, <2>1
  <2>3. rev < x.rev /\ x \in R \cup N
    BY <1>3, <1>5
  <2> HIDE DEF R, N
  <2>4. Newest(x, R \cup N)
    BY <1>3, <2>2, <2>3, NewRow
  <2>5. x.tokens = pos'[a][p]
    <3>1. x \notin job[c].m.positions
      BY <1>1, <1>3, <2>3, RowTypes DEF RevInv, N
    <3>2. QED
      BY <3>1 DEF PositionsOn, N
  <2>6. QED
    BY <1>4, <2>3, <2>4, <2>5
<1>8. QED
  BY <1>6, <1>7

\* The funded total a request writes, and the instructions it records.
Counts(j) == j.todo # <<>> /\ (j.m.funded = funded \/ j.todo \in WillCount)
FundedOn(j, k) ==
    /\ funded <= funded' /\ k.m.funded <= funded'
    /\ funded' = funded \/ (k.todo # <<>> /\ k.todo \in WillCount)
    /\ funded' = funded /\ Counts(j) => db.funded = funded \/ Counts(k)
RecordsOn(j, k) ==
    /\ k.m.instructions \subseteq instructions'
    /\ \A s \in instructions : s.block # 0 => s \in instructions'
    /\ \A s \in instructions' : s \in k.si \/ (s \in instructions /\ s \notin j.si)

LEMMA FundedFollows ==
    ASSUME Funded, UNCHANGED db, NEW c, NEW k, Gets(c, k), job \in [Clients -> Rail!Job], FundedOn(job[c], k)
    PROVE  Funded'
<1>1. c \in Clients /\ \A d \in Clients : job'[d] = IF d = c THEN k ELSE job[d]
  BY JobGets
<1>2. CASE funded' # funded
  BY <1>1, <1>2 DEF FundedOn, Funded
<1>3. CASE funded' = funded
  <2>1. CASE db.funded = funded
    BY <1>3, <2>1 DEF Funded
  <2>2. ASSUME NEW d \in Clients, Counts(job[d]), d # c PROVE Funded'
    BY <1>1, <1>3, <2>2 DEF Funded, Counts
  <2>3. CASE Counts(job[c])
    <3>1. db.funded = funded \/ Counts(k)
      BY <1>3, <2>3 DEF FundedOn
    <3>2. CASE Counts(k)
      BY <1>1, <1>3, <3>2 DEF Funded, Counts
    <3>3. QED
      BY <2>1, <3>1, <3>2
  <2>4. QED
    BY <2>1, <2>2, <2>3 DEF Funded, Counts
<1>4. QED
  BY <1>2, <1>3

\* What names its block has one.
LEMMA Anchored ==
    ASSUME MoneyInv, StoredInv, JobsInv
    PROVE  /\ \A s \in db.instructions : s.block # 0
           /\ \A c \in Clients : \A s \in job[c].m.instructions : s.block # 0
<1>1. \A h, i : NamesItsBlock(h, i) => h # 0
  BY DEF MoneyInv, Rail!TypeOK, NamesItsBlock
<1>2. \A s \in db.instructions : NamesItsBlock(s.block, s.id)
  BY DEF StoredInv, Rail!StoredRowsAreAnchored, NamesItsBlock
<1>3. QED
  BY <1>1, <1>2 DEF JobsInv, Named

LEMMA BelowFollows ==
    ASSUME MoneyInv, StoredInv, JobsInv, Below, UNCHANGED db, funded' \in Nat,
           NEW c, NEW k, Gets(c, k), FundedOn(job[c], k), RecordsOn(job[c], k)
    PROVE  Below'
<1>1. c \in Clients /\ \A d \in Clients : job'[d] = IF d = c THEN k ELSE job[d]
  BY JobGets DEF MoneyInv, Rail!TypeOK
<1>2. funded \in Nat /\ db.funded \in Nat /\ \A d \in Clients : job[d].m.funded \in Nat
  <2>1. job \in [Clients -> Rail!Job] /\ funded \in Nat /\ db.funded \in Nat
    BY DEF MoneyInv, Rail!TypeOK
  <2>2. QED
    BY <2>1, JobIsCarried
<1>3. db.funded <= funded' /\ \A d \in Clients : job'[d].m.funded <= funded'
  BY <1>1, <1>2 DEF Below, FundedOn
<1>4. db.instructions \subseteq instructions'
  BY Anchored DEF Below, RecordsOn
<1>5. ASSUME NEW d \in Clients PROVE job'[d].m.instructions \subseteq instructions'
  BY <1>1, Anchored DEF Below, RecordsOn
<1>6. QED
  BY <1>3, <1>4, <1>5 DEF Below

LEMMA RecordedFollows ==
    ASSUME Recorded, UNCHANGED db, NEW c, NEW k, Gets(c, k), job \in [Clients -> Rail!Job], RecordsOn(job[c], k)
    PROVE  Recorded'
<1>1. c \in Clients /\ \A d \in Clients : job'[d] = IF d = c THEN k ELSE job[d]
  BY JobGets
<1>2. ASSUME NEW s \in instructions' PROVE s \in db.instructions \/ \E d \in Clients : s \in job'[d].si
  <2>1. CASE s \in k.si
    BY <1>1, <2>1
  <2>2. CASE s \in instructions /\ s \notin job[c].si
    BY <1>1, <2>2 DEF Recorded
  <2>3. QED
    BY <2>1, <2>2 DEF RecordsOn
<1>3. QED
  BY <1>2 DEF Recorded

\* A request goes on: the tables, which nobody writes, stay behind memory by what is on its way.
LEMMA GoesOn ==
    ASSUME RailInv, up, UNCHANGED <<up, db, faults, blindBoots>>, ChainGrows, rev' \in Nat, rev <= rev', funded' \in Nat,
           NEW c, NEW k, Gets(c, k), Plan(k), Named(k)', Settles(k),
           RowsOn(job[c], k), blindBoots = 0 => FundedOn(job[c], k), RecordsOn(job[c], k)
    PROVE  JobsInv' /\ StoredInv' /\ RevInv' /\ MirrorInv'
<1>1. MoneyInv /\ JobsInv /\ StoredInv /\ RevInv /\ MirrorInv
  BY DEF RailInv
<1>2. JobsInv' /\ StoredInv' /\ RevInv'
  BY <1>1, JobsOn, StoredOn, RevOn
<1>3. job \in [Clients -> Rail!Job] /\ OneRowEach(k.m) /\ db' = db
  BY <1>1 DEF MoneyInv, Rail!TypeOK, Plan
<1>4. ASSUME faults = 0, blindBoots = 0 PROVE Wallets' /\ Positions' /\ Funded'
  <2>1. Wallets /\ Positions /\ Funded /\ WalletsOn(job[c], k) /\ PositionsOn(job[c], k)
    BY <1>1, <1>4 DEF MirrorInv, RowsOn
  <2>2. Wallets'
    BY <1>1, <1>3, <1>4, <2>1, WalletsFollow
  <2>3. Positions'
    BY <1>1, <1>3, <1>4, <2>1, PositionsFollow
  <2>4. Funded'
    BY <1>3, <1>4, <2>1, FundedFollows
  <2>5. QED
    BY <2>2, <2>3, <2>4
<1>5. ASSUME blindBoots = 0 PROVE Below'
  BY <1>1, <1>5, BelowFollows DEF MirrorInv
<1>6. ASSUME faults = 0 PROVE Recorded'
  BY <1>1, <1>3, <1>6, RecordedFollows DEF MirrorInv
<1>7. QED
  BY <1>2, <1>4, <1>5, <1>6 DEF MirrorInv
-----------------------------------------------------------------------------
(* The rail's tables: requests under the lock *)

LEMMA PlanKinds ==
    /\ \A t \in NoRows : t \notin Recording /\ t \notin WillCount
    /\ \A t \in WillCount : t # <<>>
    /\ \A t \in Settling : t \in Recording
    /\ Funding0 \in WillCount /\ Funding0 \notin NoRows /\ Funding0 # Writing /\ Funding0 \notin Recording
    /\ Funding1 \in WillCount /\ Funding1 \notin NoRows /\ Funding1 # Writing /\ Funding1 \notin Recording
    /\ Funding2 \notin NoRows /\ Funding2 # Writing /\ Funding2 \notin Recording /\ Funding2 \notin WillCount /\ Funding2 # <<>>
    /\ Funding3 \in NoRows /\ Funding3 # Writing /\ Funding3 # <<>> /\ Reading \in NoRows /\ Reading # Writing /\ <<>> # Writing
    /\ <<>> \in NoRows
    /\ Settling0 \in Settling /\ Settling0 \in WillCount /\ Settling0 \notin NoRows /\ Settling0 # Writing
    /\ Settling1 \in Settling /\ Settling1 \notin NoRows /\ Settling1 # Writing /\ Settling1 \notin WillCount /\ Settling1 # <<>>
    /\ Writing \in Settling /\ Writing \notin NoRows /\ Writing \notin WillCount
    /\ Refusing0 \in WillCount /\ Refusing0 \in Recording /\ Refusing0 \notin Settling /\ Refusing0 \notin NoRows /\ Refusing0 # Writing
    /\ Refusing1 \in WillCount /\ Refusing1 \in Recording /\ Refusing1 \notin Settling /\ Refusing1 \notin NoRows /\ Refusing1 # Writing
    /\ Refusing2 \in Recording /\ Refusing2 \notin Settling /\ Refusing2 \notin NoRows /\ Refusing2 # Writing /\ Refusing2 # <<>>
    /\ Refusing2 \notin WillCount
    /\ Paying0 \in WillCount /\ Paying0 \notin Recording /\ Paying0 \notin NoRows /\ Paying0 # Writing
    /\ Paying1 \notin Recording /\ Paying1 \notin NoRows /\ Paying1 # Writing /\ Paying1 \notin WillCount /\ Paying1 # <<>>
    /\ Paying2 \notin Recording /\ Paying2 \notin NoRows /\ Paying2 # Writing /\ Paying2 \notin WillCount /\ Paying2 # <<>>
BY PlansDiffer, Zenon DEF NoRows, WillCount, Settling, Recording

\* A request that has nothing in hand.
Clear(j) == j.si = {} /\ j.m.wallets = {} /\ j.m.positions = {} /\ j.m.instructions = {} /\ j.m.funded = 0 /\ ~(j.todo \in WillCount)
LEMMA HasNothing ==
    ASSUME JobsInv, NEW c \in Clients, job[c].todo \in NoRows PROVE Clear(job[c])
<1>1. Plan(job[c]) /\ Named(job[c])
  BY DEF JobsInv
<1>2. QED
  BY <1>1, PlanKinds DEF Plan, Named, Clear

\* It has nothing of the funded total to write, unless nothing was funded.
LEMMA ClearCounts ==
    ASSUME MoneyInv, MirrorInv, up, blindBoots = 0, NEW j, Clear(j), Counts(j) PROVE db.funded = funded
BY DEF MoneyInv, Rail!TypeOK, MirrorInv, Below, Clear, Counts

\* A request that moves no money and changes no register but the isins, or is refused.
LEMMA BareOn ==
    ASSUME RailInv, up, UNCHANGED <<up, db, faults, blindBoots, chain, balance, pos, funded>>, rev' \in Nat, rev <= rev',
           NEW c, NEW k, Gets(c, k), job[c].todo \in NoRows, k.todo \in Plans,
           k.recs = <<>>, NEW n, k.m = Rows({}, {}, n),
           \/ k.si = {} /\ instructions' = instructions
           \/ \E s : /\ k.si = {s} /\ k.todo = Refusing0 /\ s.id = k.id /\ s.block = 0 /\ s.status = "FAILED"
                     /\ instructions' = instructions \cup {s}
    PROVE  JobsInv' /\ StoredInv' /\ RevInv' /\ MirrorInv'
<1>1. MoneyInv /\ JobsInv /\ MirrorInv /\ c \in Clients
  BY DEF RailInv, Gets
<1>2. Clear(job[c])
  BY <1>1, HasNothing
<1>3. /\ k.m.wallets = {} /\ k.m.positions = {} /\ k.m.instructions = {} /\ k.m.servicing = {} /\ k.m.funded = 0
      /\ DOMAIN k.recs = {}
  BY DEF Rows
<1>4. Plan(k) /\ Settles(k)
  BY <1>3, PlanKinds DEF Plan, Settles, OneRowEach
<1>5. Named(k)'
  BY <1>3, PlanKinds DEF Named
<1>6. RowsOn(job[c], k) /\ RecordsOn(job[c], k)
  BY <1>2, <1>3 DEF RowsOn, WalletsOn, PositionsOn, RecordsOn, Clear
<1>7. ASSUME blindBoots = 0 PROVE FundedOn(job[c], k)
  BY <1>1, <1>2, <1>3, <1>7, ClearCounts DEF FundedOn, MoneyInv, Rail!TypeOK
<1>8. ChainGrows /\ funded' \in Nat
  BY <1>1 DEF ChainGrows, MoneyInv, Rail!TypeOK
<1>9. QED
  BY <1>4, <1>5, <1>6, <1>7, <1>8, GoesOn

LEMMA TablesFund ==
    ASSUME Rail!RailConstants, RailInv, NEW c \in Clients, NEW p \in Participants, NEW paise \in 1..MaxCash,
           Rail!FundWallet(c, p, paise)
    PROVE  JobsInv' /\ StoredInv' /\ RevInv' /\ MirrorInv'
<1>1. MoneyInv /\ JobsInv /\ c \in Clients
  BY DEF RailInv
<1> SUFFICES ASSUME NEW w, w = [who |-> p, bal |-> balance[p] + paise, rev |-> rev + 1],
                    NEW k, k = Carries(Funding0, ops', Rows({w}, {}, {}), {}, {}, <<>>, No)
             PROVE  JobsInv' /\ StoredInv' /\ RevInv' /\ MirrorInv'
  OBVIOUS
<1>2. /\ balance' = [balance EXCEPT ![p] = @ + paise] /\ funded' = funded + paise /\ rev' = rev + 1 /\ up
      /\ job[c].todo = <<>> /\ paise \in Nat /\ UNCHANGED <<up, pos, instructions, chain, db, faults, blindBoots>>
      /\ Gets(c, k) /\ w \in Rail!WalletRow
  BY <1>1, FundEffect
<1>3. balance \in [Participants -> Nat] /\ rev \in Nat /\ funded \in Nat
  BY <1>1 DEF MoneyInv, Rail!TypeOK
<1>4. w.who = p /\ w.bal = balance'[p] /\ w.rev = rev + 1 /\ \A x \in Participants : x # p => balance'[x] = balance[x]
  BY <1>2, <1>3
<1>5. Clear(job[c])
  BY <1>1, <1>2, HasNothing, PlanKinds
<1>6. /\ k.todo = Funding0 /\ k.id = ops' /\ k.si = {} /\ k.recs = <<>> /\ DOMAIN k.recs = {}
      /\ k.m.wallets = {w} /\ k.m.positions = {} /\ k.m.instructions = {} /\ k.m.servicing = {} /\ k.m.funded = 0
  BY Fields DEF Rows
<1>7. Plan(k) /\ Settles(k) /\ Named(k)'
  <2>1. Plan(k) /\ Settles(k)
    BY <1>6, PlanKinds, InPlans DEF Plan, Settles, OneRowEach
  <2>2. Named(k)'
    BY <1>6, PlanKinds DEF Named
  <2>3. QED
    BY <2>1, <2>2
<1>8. RowsOn(job[c], k) /\ RecordsOn(job[c], k)
  <2>1. WalletsOn(job[c], k)
    <3>1. rev < w.rev /\ w.rev <= rev' /\ w.bal = balance'[w.who]
      BY <1>2, <1>3, <1>4
    <3>2. QED
      BY <1>4, <1>5, <1>6, <3>1 DEF WalletsOn, Clear
  <2>2. QED
    BY <1>2, <1>5, <1>6, <2>1 DEF RowsOn, PositionsOn, RecordsOn, Clear
<1>9. FundedOn(job[c], k)
  <2>1. funded <= funded' /\ 0 <= funded'
    BY <1>2, <1>3
  <2>2. k.todo \in WillCount /\ k.todo # <<>>
    BY <1>6, PlanKinds
  <2>3. QED
    BY <1>6, <2>1, <2>2 DEF FundedOn, Counts
<1>10. ChainGrows /\ funded' \in Nat /\ rev' \in Nat /\ rev <= rev'
  BY <1>2, <1>3 DEF ChainGrows
<1>11. QED
  BY <1>2, <1>7, <1>8, <1>9, <1>10, GoesOn

LEMMA TablesAssign ==
    ASSUME Rail!RailConstants, RailInv, NEW c \in Clients, NEW a \in Assets, Rail!AssignISIN(c, a)
    PROVE  JobsInv' /\ StoredInv' /\ RevInv' /\ MirrorInv'
<1>1. MoneyInv /\ rev \in Nat
  BY DEF RailInv, MoneyInv, Rail!TypeOK
<1> DEFINE k == Carries(Funding2, ops', Rows({}, {}, {a}), {}, {}, <<>>, No)
<1>2. /\ up /\ job[c].todo \in NoRows
      /\ UNCHANGED <<up, balance, funded, pos, instructions, rev, chain, db, faults, blindBoots>>
      /\ Gets(c, Rail!Idle) \/ Gets(c, k)
  BY <1>1, AssignEffect, PlanKinds
<1>3. k.todo = Funding2 /\ k.m = Rows({}, {}, {a}) /\ k.si = {} /\ k.recs = <<>>
  BY Fields
<1>4. Rail!Idle.todo = <<>> /\ Rail!Idle.m = Rows({}, {}, {}) /\ Rail!Idle.si = {} /\ Rail!Idle.recs = <<>>
  BY IdleCarries, Fields DEF None
<1> HIDE DEF k
<1>5. QED
  BY <1>1, <1>2, <1>3, <1>4, BareOn, InPlans

LEMMA TablesRefuse ==
    ASSUME Rail!RailConstants, RailInv, NEW c \in Clients, NEW q \in Rail!Request, Rail!RefuseDvP(c, q)
    PROVE  JobsInv' /\ StoredInv' /\ RevInv' /\ MirrorInv'
<1>1. MoneyInv /\ rev \in Nat
  BY DEF RailInv, MoneyInv, Rail!TypeOK
<1> DEFINE s == Rail!InstructionOf(q, "FAILED", rev + 1)
           N == Rail!Registered(q) \ isins
           k == Carries(Refusing0, ops', Rows({}, {}, N), {s}, {}, <<>>, No)
<1>2. /\ up /\ job[c].todo \in NoRows /\ rev' = rev + 1 /\ instructions' = instructions \cup {s} /\ ops' = ops + 1
      /\ UNCHANGED <<up, balance, funded, pos, chain, db, faults, blindBoots>>
      /\ Gets(c, k)
  BY <1>1, RefuseEffect, PlanKinds
<1>3. k.todo = Refusing0 /\ k.id = ops' /\ k.m = Rows({}, {}, N) /\ k.si = {s} /\ k.recs = <<>>
  BY Fields
<1>4. s.id = ops + 1 /\ s.block = 0 /\ s.status = "FAILED"
  BY DEF Rail!InstructionOf
<1> HIDE DEF k, s, N
<1>5. k.todo \in Plans /\ rev' \in Nat /\ rev <= rev'
  BY <1>1, <1>2, <1>3, InPlans
<1>6. \E x : /\ k.si = {x} /\ k.todo = Refusing0 /\ x.id = k.id /\ x.block = 0 /\ x.status = "FAILED"
             /\ instructions' = instructions \cup {x}
  BY <1>2, <1>3, <1>4
<1>7. QED
  BY <1>2, <1>3, <1>5, <1>6, BareOn

LEMMA TablesDryRun ==
    ASSUME Rail!RailConstants, RailInv, NEW c \in Clients, NEW q \in Rail!Request, Rail!DryRunDvP(c, q)
    PROVE  JobsInv' /\ StoredInv' /\ RevInv' /\ MirrorInv'
<1>1. MoneyInv /\ JobsInv /\ StoredInv /\ RevInv /\ MirrorInv /\ rev \in Nat
  BY DEF RailInv, MoneyInv, Rail!TypeOK
<1>2. /\ up /\ job[c].todo \in NoRows /\ rev' \in Nat /\ rev <= rev'
      /\ UNCHANGED <<up, balance, funded, pos, instructions, chain, db, faults, blindBoots>>
      /\ \/ job' = job
         \/ \E N \in SUBSET Assets : Gets(c, Carries(Writing, ops', Rows({}, {}, N), {}, {}, <<>>, No))
  BY <1>1, DryRunEffect, PlanKinds
<1>3. ASSUME NEW N \in SUBSET Assets, NEW k, k = Carries(Writing, ops', Rows({}, {}, N), {}, {}, <<>>, No), Gets(c, k)
      PROVE  JobsInv' /\ StoredInv' /\ RevInv' /\ MirrorInv'
  <2>1. k.todo = Writing /\ k.m = Rows({}, {}, N) /\ k.si = {} /\ k.recs = <<>>
    BY <1>3, Fields
  <2>2. QED
    BY <1>1, <1>2, <1>3, <2>1, BareOn, InPlans
<1>4. ASSUME job' = job PROVE JobsInv' /\ StoredInv' /\ RevInv' /\ MirrorInv'
  <2> DEFINE k == job[c]
  <2>1. job \in [Clients -> Rail!Job] /\ funded \in Nat
    BY <1>1 DEF MoneyInv, Rail!TypeOK
  <2>2. Gets(c, k)
    BY <1>4, <2>1 DEF Gets
  <2>3. Plan(k) /\ Named(k) /\ Settles(k) /\ Clear(k)
    BY <1>1, <1>2, HasNothing DEF JobsInv
  <2>4. Named(k)'
    BY <1>2, <1>4, <2>3 DEF Named, NamesItsBlock
  <2>5. RowsOn(job[c], k) /\ RecordsOn(job[c], k)
    BY <1>2, <2>3 DEF RowsOn, WalletsOn, PositionsOn, RecordsOn, Clear
  <2>6. FundedOn(job[c], k)
    BY <1>2, <2>1, <2>3 DEF FundedOn, Clear
  <2>7. ChainGrows
    BY <1>2 DEF ChainGrows
  <2>8. ASSUME NEW x, x = k PROVE Plan(x) /\ Named(x)' /\ Settles(x) /\ RowsOn(job[c], x) /\ FundedOn(job[c], x) /\ RecordsOn(job[c], x) /\ Gets(c, x)
    BY <1>4, <2>2, <2>3, <2>4, <2>5, <2>6, <2>8 DEF Named
  <2>9. QED
    BY <1>2, <2>1, <2>7, <2>8, GoesOn
<1>5. QED
  BY <1>2, <1>3, <1>4

LEMMA TablesRead ==
    ASSUME Rail!RailConstants, RailInv, NEW c \in Clients, NEW a \in Assets, NEW payer \in Participants,
           NEW gross \in 1..MaxCash, Rail!ReadRegister(c, a, payer, gross)
    PROVE  JobsInv' /\ StoredInv' /\ RevInv' /\ MirrorInv'
<1>1. MoneyInv /\ rev \in Nat
  BY DEF RailInv, MoneyInv, Rail!TypeOK
<1>2. /\ up /\ job[c].todo \in NoRows
      /\ UNCHANGED <<up, balance, funded, pos, instructions, rev, chain, db, faults, blindBoots>>
      /\ \E P \in SUBSET Rail!Distribution : Gets(c, Carries(Reading, ops', None, {}, P, <<>>, No))
  BY <1>1, ReadEffect, PlanKinds
<1>3. ASSUME NEW P, NEW k, k = Carries(Reading, ops', None, {}, P, <<>>, No), Gets(c, k)
      PROVE  JobsInv' /\ StoredInv' /\ RevInv' /\ MirrorInv'
  <2>1. k.todo = Reading /\ k.m = Rows({}, {}, {}) /\ k.si = {} /\ k.recs = <<>>
    BY <1>3, Fields DEF None
  <2>2. QED
    BY <1>1, <1>2, <1>3, <2>1, BareOn, InPlans
<1>4. QED
  BY <1>2, <1>3

\* What a settlement changes, and what stays.
LEMMA SettleKeeps ==
    ASSUME Rail!RailConstants, MoneyInv, NEW q \in Rail!Request, Rail!Settles(q)
    PROVE  /\ \A p \in Participants : p # q.seller /\ p # q.buyer => Rail!Paid(q)[p] = balance[p]
           /\ \A a \in Assets, p \in Participants :
                 ~(a = q.asset /\ (p = q.seller \/ p = q.buyer)) => Rail!Moved(q)[a][p] = pos[a][p]
<1>1. balance \in [Participants -> Nat] /\ pos \in [Assets -> [Participants -> Nat]]
  BY DEF MoneyInv, Rail!TypeOK
<1>2. q.asset \in Assets /\ q.seller \in Participants /\ q.buyer \in Participants /\ q.seller # q.buyer
  BY SettleMoves
<1>3. \A p \in Participants : p # q.seller /\ p # q.buyer => Rail!Paid(q)[p] = balance[p]
  BY <1>1, <1>2 DEF Rail!Paid
<1>4. \A a \in Assets, p \in Participants :
         ~(a = q.asset /\ (p = q.seller \/ p = q.buyer)) => Rail!Moved(q)[a][p] = pos[a][p]
  BY <1>1, <1>2 DEF Rail!Moved
<1>5. QED
  BY <1>3, <1>4

LEMMA TablesSettle ==
    ASSUME Rail!RailConstants, RailInv, NEW c \in Clients, NEW q \in Rail!Request, Rail!SettleDvP(c, q)
    PROVE  JobsInv' /\ StoredInv' /\ RevInv' /\ MirrorInv'
<1>1. MoneyInv /\ JobsInv
  BY DEF RailInv
<1>0. SUFFICES ASSUME NEW s, s = Rail!InstructionOf(q, "SETTLED", rev + 5),
                    NEW k, k = Carries(Settling0, ops', Rail!Legs(q), {s}, {}, <<>>, Yes)
             PROVE  JobsInv' /\ StoredInv' /\ RevInv' /\ MirrorInv'
  OBVIOUS
<1>2. /\ pos' = Rail!Moved(q) /\ balance' = Rail!Paid(q) /\ rev' = rev + 5 /\ ops' = ops + 1 /\ Rail!Settles(q) /\ up
      /\ job[c].todo = <<>> /\ instructions' = instructions \cup {s}
      /\ UNCHANGED <<up, funded, chain, db, faults, blindBoots>> /\ Gets(c, k)
  BY <1>0, <1>1, SettleEffect
<1>3. /\ q.asset \in Assets /\ q.seller \in Participants /\ q.buyer \in Participants /\ q.seller # q.buyer
      /\ rev \in Nat /\ funded \in Nat
  BY <1>1, <1>2, SettleMoves DEF MoneyInv, Rail!TypeOK
<1> DEFINE w1 == [who |-> q.buyer, bal |-> Rail!Paid(q)[q.buyer], rev |-> rev + 1]
           w2 == [who |-> q.seller, bal |-> Rail!Paid(q)[q.seller], rev |-> rev + 2]
           t1 == [asset |-> q.asset, who |-> q.seller, rev |-> rev + 3, tokens |-> Rail!Moved(q)[q.asset][q.seller]]
           t2 == [asset |-> q.asset, who |-> q.buyer, rev |-> rev + 4, tokens |-> Rail!Moved(q)[q.asset][q.buyer]]
<1>4. /\ k.todo = Settling0 /\ k.id = ops' /\ k.si = {s} /\ k.recs = <<>> /\ DOMAIN k.recs = {}
      /\ k.m = Rail!Legs(q)
  BY <1>0, Fields
<1>5. /\ k.m.wallets = {w1, w2} /\ k.m.positions = {t1, t2}
      /\ k.m.instructions = {} /\ k.m.servicing = {} /\ k.m.funded = 0
  BY <1>1, <1>2, <1>4, LegsType
<1>6. /\ w1.who = q.buyer /\ w1.rev = rev + 1 /\ w1.bal = balance'[q.buyer]
      /\ w2.who = q.seller /\ w2.rev = rev + 2 /\ w2.bal = balance'[q.seller]
      /\ t1.asset = q.asset /\ t1.who = q.seller /\ t1.rev = rev + 3 /\ t1.tokens = pos'[q.asset][q.seller]
      /\ t2.asset = q.asset /\ t2.who = q.buyer /\ t2.rev = rev + 4 /\ t2.tokens = pos'[q.asset][q.buyer]
  BY <1>2
<1>7. /\ s.id = ops + 1 /\ s.block = 0 /\ s.status = "SETTLED" /\ s.rev = rev + 5
      /\ s.asset = q.asset /\ s.seller = q.seller /\ s.buyer = q.buyer
  BY <1>0 DEF Rail!InstructionOf
<1> HIDE DEF w1, w2, t1, t2
<1>8. Clear(job[c])
  BY <1>1, <1>2, HasNothing, PlanKinds
<1>9. Plan(k)
  <2>1. OneRowEach(k.m)
    <3>1. \A w, x \in {w1, w2} : w.who = x.who => w = x
      BY <1>3, <1>6
    <3>2. \A t, x \in {t1, t2} : t.asset = x.asset /\ t.who = x.who => t = x
      BY <1>3, <1>6
    <3>3. QED
      BY <1>5, <3>1, <3>2 DEF OneRowEach
  <2>2. QED
    BY <1>4, <2>1, PlanKinds, InPlans DEF Plan
<1>10. Settles(k)
  <2>1. LegsAhead(k, s)
    <3>1. s.rev - 4 = rev + 1 /\ s.rev - 3 = rev + 2 /\ s.rev - 2 = rev + 3 /\ s.rev - 1 = rev + 4
      BY <1>3, <1>7
    <3>2. k.todo \in Settling
      BY <1>4, PlanKinds
    <3>3. QED
      BY <1>5, <1>6, <1>7, <3>1, <3>2 DEF LegsAhead
  <2>2. t1.rev <= s.rev /\ t2.rev <= s.rev
    BY <1>3, <1>6, <1>7
  <2>3. QED
    BY <1>4, <1>5, <1>7, <2>1, <2>2 DEF Settles
<1>11. Named(k)'
  BY <1>2, <1>4, <1>5, <1>7, PlanKinds DEF Named
<1>12. WalletsOn(job[c], k)
  <2>1. rev < w1.rev /\ w1.rev <= rev' /\ rev < w2.rev /\ w2.rev <= rev'
    BY <1>2, <1>3, <1>6
  <2>2. \A p \in Participants : balance'[p] = balance[p] \/ p = q.seller \/ p = q.buyer
    BY <1>1, <1>2, SettleKeeps
  <2>3. QED
    BY <1>5, <1>6, <1>8, <2>1, <2>2 DEF WalletsOn, Clear
<1>13. PositionsOn(job[c], k)
  <2>1. rev < t1.rev /\ t1.rev <= rev' /\ rev < t2.rev /\ t2.rev <= rev'
    BY <1>2, <1>3, <1>6
  <2>2. \A a \in Assets, p \in Participants :
           pos'[a][p] = pos[a][p] \/ (a = q.asset /\ (p = q.seller \/ p = q.buyer))
    BY <1>1, <1>2, SettleKeeps
  <2>3. \A t \in {t1, t2} : t.tokens = pos'[t.asset][t.who] /\ rev < t.rev /\ t.rev <= rev'
    BY <1>6, <2>1
  <2>4. ASSUME NEW a \in Assets, NEW p \in Participants, pos'[a][p] # pos[a][p]
        PROVE  \E t \in {t1, t2} : t.asset = a /\ t.who = p /\ t.rev > rev
    <3>1. a = q.asset /\ (p = q.seller \/ p = q.buyer)
      BY <2>2, <2>4
    <3>2. t1.rev > rev /\ t2.rev > rev
      BY <1>3, <1>6
    <3>3. QED
      BY <1>6, <3>1, <3>2
  <2>5. QED
    BY <1>5, <1>8, <2>3, <2>4 DEF PositionsOn, Clear
<1>14. RowsOn(job[c], k) /\ RecordsOn(job[c], k)
  BY <1>2, <1>4, <1>5, <1>8, <1>12, <1>13 DEF RowsOn, RecordsOn, Clear
<1>15. FundedOn(job[c], k)
  <2>1. k.todo \in WillCount /\ k.todo # <<>>
    BY <1>4, PlanKinds
  <2>2. funded' = funded /\ funded <= funded' /\ 0 <= funded' /\ ~Counts(job[c])
    BY <1>2, <1>3 DEF Counts
  <2>3. QED
    BY <1>5, <2>1, <2>2 DEF FundedOn
<1>16. ChainGrows /\ funded' \in Nat /\ rev' \in Nat /\ rev <= rev'
  BY <1>2, <1>3 DEF ChainGrows
<1>17. QED
  BY <1>2, <1>9, <1>10, <1>11, <1>14, <1>15, <1>16, GoesOn

LEMMA TablesPayOut ==
    ASSUME Rail!RailConstants, RailInv, NEW c \in Clients, Rail!PayOut(c)
    PROVE  JobsInv' /\ StoredInv' /\ RevInv' /\ MirrorInv'
<1>1. MoneyInv /\ JobsInv /\ MirrorInv /\ rev \in Nat /\ funded \in Nat /\ job \in [Clients -> Rail!Job]
  BY DEF RailInv, MoneyInv, Rail!TypeOK
<1>2. /\ up /\ job[c].todo # <<>> /\ Head(job[c].todo) = "pay"
      /\ UNCHANGED <<up, funded, pos, instructions, chain, db, faults, blindBoots>>
      /\ \/ Gets(c, Rail!Idle) /\ UNCHANGED <<balance, rev>>
         \/ \E W, recs : Pays(c, W, recs)
  BY <1>1, PayOutEffect
<1>3. job[c].todo \in NoRows
  <2>1. job[c].todo \in Plans
    BY <1>1 DEF JobsInv, Plan
  <2>2. QED
    BY <1>2, <2>1, PlanSteps, PlanKinds DEF Takes
<1>4. CASE Gets(c, Rail!Idle) /\ UNCHANGED <<balance, rev>>
  <2>1. Rail!Idle.todo = <<>> /\ Rail!Idle.m = Rows({}, {}, {}) /\ Rail!Idle.si = {} /\ Rail!Idle.recs = <<>>
    BY IdleCarries, Fields DEF None
  <2>2. QED
    BY <1>1, <1>2, <1>3, <1>4, <2>1, BareOn, InPlans
<1>5. ASSUME NEW W, NEW recs, Pays(c, W, recs), NEW k, k = Carries(Paying0, job[c].id, Rows(W, {}, {}), {}, {}, recs, Yes)
      PROVE  JobsInv' /\ StoredInv' /\ RevInv' /\ MirrorInv'
  <2>1. /\ \A w \in W : w.bal = balance'[w.who] /\ rev < w.rev /\ w.rev <= rev'
        /\ \A w, x \in W : w.who = x.who => w = x
        /\ \A p \in Participants : balance'[p] = balance[p] \/ \E w \in W : w.who = p
        /\ rev' \in Nat /\ rev <= rev' /\ W \in SUBSET Rail!WalletRow
        /\ recs \in Seq(Rail!Payout) /\ \A i \in DOMAIN recs : recs[i].run = job[c].id
        /\ Gets(c, k)
    BY <1>5 DEF Pays
  <2>2. /\ k.todo = Paying0 /\ k.id = job[c].id /\ k.si = {} /\ k.recs = recs
        /\ k.m.wallets = W /\ k.m.positions = {} /\ k.m.instructions = {} /\ k.m.servicing = {} /\ k.m.funded = 0
    BY <1>5, Fields DEF Rows
  <2>3. Clear(job[c])
    BY <1>1, <1>3, HasNothing
  <2>4. Plan(k) /\ Settles(k)
    BY <2>1, <2>2, PlanKinds, InPlans DEF Plan, Settles, OneRowEach
  <2>5. Named(k)'
    BY <2>1, <2>2, PlanKinds DEF Named
  <2>6. WalletsOn(job[c], k)
    <3>1. \A w \in W : w.rev > rev
      BY <2>1, <1>1 DEF Rail!WalletRow
    <3>2. QED
      BY <2>1, <2>2, <2>3, <3>1 DEF WalletsOn, Clear
  <2>7. RowsOn(job[c], k) /\ RecordsOn(job[c], k)
    BY <1>2, <2>2, <2>3, <2>6 DEF RowsOn, PositionsOn, RecordsOn, Clear
  <2>8. FundedOn(job[c], k)
    <3>1. k.todo \in WillCount /\ k.todo # <<>>
      BY <2>2, PlanKinds
    <3>2. QED
      BY <1>1, <1>2, <2>2, <3>1 DEF FundedOn, Counts
  <2>9. ChainGrows /\ funded' \in Nat
    BY <1>1, <1>2 DEF ChainGrows
  <2>10. QED
    BY <1>2, <2>1, <2>4, <2>5, <2>7, <2>8, <2>9, GoesOn
<1>6. QED
  BY <1>2, <1>4, <1>5
-----------------------------------------------------------------------------
(* The rail's tables: requests after the unlock *)

\* Until it writes them, the instructions a request recorded have no block and are no rows.
LEMMA NotYet ==
    ASSUME MoneyInv, StoredInv, JobsInv, NEW c \in Clients, job[c].todo # Writing
    PROVE  job[c].m.instructions = {} /\ \A s \in job[c].si : s.block = 0
<1>1. Named(job[c])
  BY DEF JobsInv
<1>2. \A s \in job[c].si : s.block = 0
  BY <1>1 DEF Named
<1>3. \A s \in job[c].m.instructions : s.block # 0 /\ s \in job[c].si
  BY <1>1, Anchored DEF Named
<1>4. QED
  BY <1>2, <1>3

\* The rows stay, and the funded total stays or is brought up to date.
SameRows(j, k) == k.m.wallets = j.m.wallets /\ k.m.positions = j.m.positions
LEMMA SameRowsOn ==
    ASSUME NEW j, NEW k, SameRows(j, k), UNCHANGED <<balance, pos>> PROVE RowsOn(j, k)
BY DEF SameRows, RowsOn, WalletsOn, PositionsOn

LEMMA TablesCounters ==
    ASSUME RailInv, NEW c \in Clients, Rail!Counters(c)
    PROVE  JobsInv' /\ StoredInv' /\ RevInv' /\ MirrorInv'
<1>1. MoneyInv /\ JobsInv /\ StoredInv /\ rev \in Nat /\ funded \in Nat
  BY DEF RailInv, MoneyInv, Rail!TypeOK
<1>0. SUFFICES ASSUME NEW j, j = job[c],
                      NEW k, k = Carries(Tail(j.todo), j.id, Table(j.m.wallets, j.m.positions, j.m.isins, j.m.instructions,
                                                                   j.m.servicing, funded), j.si, j.pay, j.recs, j.commits)
               PROVE  JobsInv' /\ StoredInv' /\ RevInv' /\ MirrorInv'
  OBVIOUS
<1>2. /\ up /\ j.todo # <<>> /\ Head(j.todo) = "counters" /\ Gets(c, k)
      /\ UNCHANGED <<up, balance, funded, pos, instructions, rev, chain, db, faults, blindBoots>>
  BY <1>0, <1>1, CountersEffect
<1>3. /\ k.todo = Tail(j.todo) /\ k.id = j.id /\ k.si = j.si /\ k.recs = j.recs /\ SameRows(j, k)
      /\ k.m.instructions = j.m.instructions /\ k.m.servicing = j.m.servicing /\ k.m.funded = funded
  <2>1. PICK M : M = Table(j.m.wallets, j.m.positions, j.m.isins, j.m.instructions, j.m.servicing, funded)
    OBVIOUS
  <2>2. k = Carries(Tail(j.todo), j.id, M, j.si, j.pay, j.recs, j.commits)
    BY <1>0, <2>1
  <2>3. k.todo = Tail(j.todo) /\ k.id = j.id /\ k.m = M /\ k.si = j.si /\ k.recs = j.recs
    BY <2>2, Fields
  <2>4. /\ M.wallets = j.m.wallets /\ M.positions = j.m.positions /\ M.instructions = j.m.instructions
        /\ M.servicing = j.m.servicing /\ M.funded = funded
    BY <2>1, TableFields
  <2>5. QED
    BY <2>3, <2>4 DEF SameRows
<1>4. Plan(j) /\ Named(j) /\ Settles(j)
  BY <1>0, <1>1 DEF JobsInv
<1>5. \/ j.todo = Funding1 /\ k.todo = Funding2
      \/ j.todo = Settling0 /\ k.todo = Settling1
      \/ j.todo = Refusing1 /\ k.todo = Refusing2
      \/ j.todo = Paying0 /\ k.todo = Paying1
  <2>1. j.todo \in Plans
    BY <1>4 DEF Plan
  <2>2. QED
    BY <1>2, <1>3, <2>1, PlanSteps DEF Takes
<1>6. /\ j.todo # Writing /\ k.todo # Writing /\ k.todo \notin NoRows /\ k.todo \in Plans /\ k.todo # <<>>
      /\ (j.todo \in Recording => k.todo \in Recording) /\ (j.todo \in Settling => k.todo \in Settling)
  BY <1>5, PlanKinds, InPlans
<1>7. Plan(k)
  BY <1>3, <1>4, <1>6 DEF Plan, OneRowEach, SameRows
<1>8. Settles(k)
  BY <1>3, <1>4, <1>6 DEF Settles, LegsAhead, SameRows
<1>9. Named(k)'
  BY <1>2, <1>3, <1>4, <1>6 DEF Named, NamesItsBlock
<1>10. RowsOn(job[c], k)
  BY <1>0, <1>2, <1>3, SameRowsOn
<1>11. RecordsOn(job[c], k)
  <2>1. j.m.instructions = {}
    BY <1>0, <1>1, <1>6, NotYet
  <2>2. QED
    BY <1>0, <1>2, <1>3, <2>1 DEF RecordsOn
<1>12. FundedOn(job[c], k)
  BY <1>1, <1>2, <1>3, <1>6 DEF FundedOn, Counts
<1>13. ChainGrows
  BY <1>2 DEF ChainGrows
<1>14. QED
  BY <1>1, <1>2, <1>7, <1>8, <1>9, <1>10, <1>11, <1>12, <1>13, GoesOn

LEMMA TablesBackFill ==
    ASSUME RailInv, NEW c \in Clients, Rail!BackFill(c)
    PROVE  JobsInv' /\ StoredInv' /\ RevInv' /\ MirrorInv'
<1>1. MoneyInv /\ JobsInv /\ StoredInv /\ MirrorInv /\ rev \in Nat /\ funded \in Nat
  BY DEF RailInv, MoneyInv, Rail!TypeOK
<1>0. SUFFICES ASSUME NEW j, j = job[c], NEW k, k = Carries(Tail(j.todo), j.id, j.m, j.si, j.pay, j.recs, j.commits)
               PROVE  JobsInv' /\ StoredInv' /\ RevInv' /\ MirrorInv'
  OBVIOUS
<1>2. /\ up /\ j.todo # <<>> /\ Head(j.todo) = "backfill" /\ Gets(c, k)
      /\ UNCHANGED <<up, balance, funded, pos, instructions, rev, chain, db, faults, blindBoots>>
  BY <1>0, <1>1, BackFillEffect
<1>3. k.todo = Tail(j.todo) /\ k.id = j.id /\ k.m = j.m /\ k.si = j.si /\ k.recs = j.recs /\ SameRows(j, k)
  BY <1>0, Fields DEF SameRows
<1>4. Plan(j) /\ Named(j) /\ Settles(j)
  BY <1>0, <1>1 DEF JobsInv
<1>5. j.todo = Paying2 /\ k.todo = Writing
  <2>1. j.todo \in Plans
    BY <1>4 DEF Plan
  <2>2. QED
    BY <1>2, <1>3, <2>1, PlanSteps DEF Takes
<1>6. /\ j.todo # Writing /\ j.todo \notin Recording /\ k.todo \notin NoRows /\ k.todo \in Plans /\ k.todo # <<>>
      /\ j.todo \notin WillCount
  BY <1>5, PlanKinds, InPlans
<1>7. j.si = {} /\ j.m.instructions = {}
  BY <1>4, <1>6 DEF Plan, Named
<1>8. Plan(k) /\ Settles(k)
  BY <1>3, <1>4, <1>6, <1>7 DEF Plan, Settles
<1>9. Named(k)'
  BY <1>2, <1>3, <1>4, <1>5, <1>7 DEF Named, NamesItsBlock
<1>10. RowsOn(job[c], k)
  BY <1>0, <1>2, <1>3, SameRowsOn
<1>11. RecordsOn(job[c], k)
  BY <1>0, <1>2, <1>3, <1>7 DEF RecordsOn
<1>12. ASSUME blindBoots = 0 PROVE FundedOn(job[c], k)
  <2>1. j.m.funded <= funded
    BY <1>0, <1>1, <1>2, <1>12 DEF MirrorInv, Below
  <2>2. QED
    BY <1>0, <1>1, <1>2, <1>3, <1>6, <2>1 DEF FundedOn, Counts
<1>13. ChainGrows
  BY <1>2 DEF ChainGrows
<1>14. QED
  BY <1>1, <1>2, <1>8, <1>9, <1>10, <1>11, <1>12, <1>13, GoesOn

LEMMA TablesBlock ==
    ASSUME RailInv, NEW c \in Clients, Rail!AppendBlock(c)
    PROVE  JobsInv' /\ StoredInv' /\ RevInv' /\ MirrorInv'
<1>1. /\ MoneyInv /\ JobsInv /\ StoredInv /\ MirrorInv /\ rev \in Nat /\ funded \in Nat /\ db.funded \in Nat
      /\ chain \in Seq(Nat)
  BY DEF RailInv, MoneyInv, Rail!TypeOK
<1>0. SUFFICES ASSUME NEW j, j = job[c], NEW h, h = Len(chain) + 1, NEW k, k = Anchors(j, h)
               PROVE  JobsInv' /\ StoredInv' /\ RevInv' /\ MirrorInv'
  OBVIOUS
<1>2. /\ up /\ j.todo # <<>> /\ Head(j.todo) = "block" /\ j \in Rail!Job /\ h \in Nat /\ Gets(c, k)
      /\ chain' = Append(chain, j.id) /\ instructions' = (instructions \ j.si) \cup At(h, j.si)
      /\ UNCHANGED <<up, balance, funded, pos, rev, db, faults, blindBoots>>
  BY <1>0, <1>1, BlockEffect
<1>3. /\ k.todo = Tail(j.todo) /\ k.id = j.id /\ k.si = At(h, j.si) /\ k.recs = RecsAt(h, j.recs) /\ SameRows(j, k)
      /\ k.m.instructions = At(h, j.si) /\ k.m.servicing = RowsAt(h, j.recs) /\ k.m.funded = j.m.funded
  <2>1. PICK M : M = Table(j.m.wallets, j.m.positions, j.m.isins, At(h, j.si), RowsAt(h, j.recs), j.m.funded)
    OBVIOUS
  <2>2. k = Carries(Tail(j.todo), j.id, M, At(h, j.si), j.pay, RecsAt(h, j.recs), j.commits)
    BY <1>0, <2>1 DEF Anchors
  <2>3. k.todo = Tail(j.todo) /\ k.id = j.id /\ k.m = M /\ k.si = At(h, j.si) /\ k.recs = RecsAt(h, j.recs)
    BY <2>2, Fields
  <2>4. /\ M.wallets = j.m.wallets /\ M.positions = j.m.positions /\ M.instructions = At(h, j.si)
        /\ M.servicing = RowsAt(h, j.recs) /\ M.funded = j.m.funded
    BY <2>1, TableFields
  <2>5. QED
    BY <2>3, <2>4 DEF SameRows
<1>4. Plan(j) /\ Named(j) /\ Settles(j)
  BY <1>0, <1>1 DEF JobsInv
<1>5. \/ j.todo = Funding3 /\ k.todo = <<>>
      \/ j.todo = Settling1 /\ k.todo = Writing
      \/ j.todo = Paying1 /\ k.todo = Paying2
  <2>1. j.todo \in Plans
    BY <1>4 DEF Plan
  <2>2. QED
    BY <1>2, <1>3, <2>1, PlanSteps DEF Takes
<1>6. /\ j.todo # Writing /\ j.todo \notin WillCount /\ k.todo \in Plans
      /\ (k.todo \in NoRows => j.todo \in NoRows) /\ (k.todo = <<>> => j.todo \in NoRows)
      /\ (j.todo \in Recording => k.todo = Writing) /\ Writing \in Recording /\ Writing \in Settling
      /\ (j.todo \in Settling => k.todo = Writing)
  BY <1>5, PlanKinds, InPlans
<1>7. /\ At(h, j.si) = {} <=> j.si = {}
      /\ \A s \in j.si : s.block = 0
      /\ \A s \in At(h, j.si) : \E x \in j.si :
            /\ s.block = h /\ s.id = x.id /\ s.status = x.status /\ s.rev = x.rev /\ s.asset = x.asset
            /\ s.seller = x.seller /\ s.buyer = x.buyer
      /\ \A x \in j.si : \E s \in At(h, j.si) : s.status = x.status /\ s.rev = x.rev
      /\ \A s \in RowsAt(h, j.recs) : \E i \in DOMAIN j.recs : s.block = h /\ s.run = j.recs[i].run
      /\ DOMAIN k.recs = DOMAIN j.recs /\ \A i \in DOMAIN j.recs : k.recs[i].run = j.recs[i].run
  <2>1. j.si \in SUBSET Rail!Instruction /\ j.recs \in Seq(Rail!Payout)
    BY <1>2, JobIsCarried
  <2>2. \A i \in DOMAIN j.recs : j.recs[i] \in Rail!Payout
    BY <2>1
  <2>3. \A s \in j.si : s.block = 0
    BY <1>4, <1>6 DEF Named
  <2>4. DOMAIN k.recs = DOMAIN j.recs /\ \A i \in DOMAIN j.recs : k.recs[i].run = j.recs[i].run
    BY <1>2, <1>3, AnchorsType
  <2>5. /\ \A s \in At(h, j.si) : \E x \in j.si :
              /\ s.block = h /\ s.id = x.id /\ s.status = x.status /\ s.rev = x.rev /\ s.asset = x.asset
              /\ s.seller = x.seller /\ s.buyer = x.buyer
        /\ \A x \in j.si : \E s \in At(h, j.si) : s.status = x.status /\ s.rev = x.rev
    BY <1>2, <2>1, AtHeight DEF At
  <2>6. \A s \in RowsAt(h, j.recs) : \E i \in DOMAIN j.recs : s.block = h /\ s.run = j.recs[i].run
    BY <1>2, <2>2, AtHeight DEF RowsAt
  <2>7. QED
    BY <2>3, <2>4, <2>5, <2>6 DEF At
<1>8. Plan(k)
  BY <1>3, <1>4, <1>6, <1>7 DEF Plan, OneRowEach, SameRows
<1>9. Settles(k)
  <2>1. ASSUME NEW s \in k.si, s.status = "SETTLED" PROVE LegsAhead(k, s)
    <3>1. PICK x \in j.si : /\ s.status = x.status /\ s.rev = x.rev /\ s.asset = x.asset
                            /\ s.seller = x.seller /\ s.buyer = x.buyer
      BY <1>3, <1>7
    <3>2. LegsAhead(j, x)
      BY <1>4, <2>1, <3>1 DEF Settles
    <3>3. QED
      BY <1>3, <1>6, <3>1, <3>2, ZenonT(30) DEF LegsAhead, SameRows
  <2>2. ASSUME NEW t \in k.m.positions PROVE \E s \in k.si : s.status = "SETTLED" /\ t.rev <= s.rev
    <3>1. PICK x \in j.si : x.status = "SETTLED" /\ t.rev <= x.rev
      BY <1>3, <1>4 DEF Settles, SameRows
    <3>2. QED
      BY <1>3, <1>7, <3>1
  <2>3. QED
    BY <2>1, <2>2 DEF Settles
<1>10. Named(k)'
  <2>1. NamesItsBlock(h, j.id)'
    <3>1. j.id \in Nat
      BY <1>2, JobIsCarried
    <3>2. chain'[h] = j.id /\ h \in 1..Len(chain') /\ chain' \in Seq(Nat)
      BY <1>0, <1>1, <1>2, <3>1
    <3>3. h \in DOMAIN chain'
      BY <3>2
    <3>4. QED
      BY <3>2, <3>3 DEF NamesItsBlock
  <2>2. (\A s \in k.si : s.id = k.id /\ s.block = h) /\ \A i \in DOMAIN k.recs : k.recs[i].run = k.id
    BY <1>3, <1>4, <1>7 DEF Named
  <2>3. \A s \in k.m.servicing : s.block = h /\ s.run = k.id
    BY <1>3, <1>4, <1>7 DEF Named
  <2>4. k.m.instructions = k.si /\ (k.todo # Writing => k.si = {})
    BY <1>3, <1>4, <1>6, <1>7 DEF Plan
  <2>5. QED
    BY <1>3, <2>1, <2>2, <2>3, <2>4 DEF Named
<1>11. RowsOn(job[c], k)
  BY <1>0, <1>2, <1>3, SameRowsOn
<1>12. RecordsOn(job[c], k)
  BY <1>0, <1>2, <1>3, <1>7 DEF RecordsOn
<1>13. ASSUME blindBoots = 0 PROVE FundedOn(job[c], k)
  <2>1. j.m.funded <= funded /\ db.funded <= funded
    BY <1>0, <1>1, <1>2, <1>13 DEF MirrorInv, Below
  <2>2. k.todo = <<>> => j.m.funded = 0
    BY <1>4, <1>6 DEF Plan
  <2>3. QED
    BY <1>0, <1>1, <1>2, <1>3, <1>6, <2>1, <2>2 DEF FundedOn, Counts
<1>14. ChainGrows
  <2>1. j.id \in Nat
    BY <1>2, JobIsCarried
  <2>2. QED
    BY <1>2, <2>1 DEF ChainGrows
<1>15. QED
  BY <1>1, <1>2, <1>8, <1>9, <1>10, <1>11, <1>12, <1>13, <1>14, GoesOn

\* What a write leaves: a row of the table, or one of the mutation's that is newer, never an older one.
Merged(m) ==
    /\ \A p \in Participants :
          /\ \/ db'.wallet[p] = db.wallet[p]
             \/ db'.wallet[p] \in m.wallets /\ db'.wallet[p].who = p /\ db.wallet[p].rev < db'.wallet[p].rev
          /\ \A w \in m.wallets : w.who = p => w.rev <= db.wallet[p].rev \/ db'.wallet[p] = w
    /\ \A a \in Assets, p \in Participants :
          /\ \/ db'.position[a][p] = db.position[a][p]
             \/ /\ db'.position[a][p] \in m.positions /\ db'.position[a][p].asset = a /\ db'.position[a][p].who = p
                /\ db.position[a][p].rev < db'.position[a][p].rev
          /\ \A t \in m.positions : t.asset = a /\ t.who = p => t.rev <= db.position[a][p].rev \/ db'.position[a][p] = t
    /\ db'.instructions = db.instructions \cup m.instructions
    /\ db'.servicing = db.servicing \cup m.servicing
    /\ db'.funded = IF m.funded > db.funded THEN m.funded ELSE db.funded

LEMMA WriteMerges ==
    ASSUME MoneyInv, NEW m \in Rail!Mutation, OneRowEach(m), db' = Rail!Apply(db, m)
    PROVE  Merged(m)
<1>1. db \in TableRecord
  BY DEF MoneyInv, Rail!TypeOK, TableRecord
<1>2. /\ \A p \in Participants : db.wallet[p].rev \in Nat
      /\ \A a \in Assets, p \in Participants : db.position[a][p].rev \in Nat
      /\ \A w \in m.wallets : w.rev \in Nat
      /\ \A t \in m.positions : t.rev \in Nat
  BY RowTypes DEF Rail!Mutation, Rail!WalletRow, Rail!PositionRow
<1>3. SUFFICES ASSUME NEW d, d = db, NEW e, e = db'
               PROVE  Merged(m)
  OBVIOUS
<1>a. d \in TableRecord /\ e = Rail!Apply(d, m)
  BY <1>1, <1>3
<1>4. /\ \A p \in Participants : AppliedWallet(d, m, e, p)
      /\ \A a \in Assets, p \in Participants : AppliedPosition(d, m, e, a, p)
      /\ e.instructions = d.instructions \cup m.instructions /\ e.servicing = d.servicing \cup m.servicing
      /\ e.funded = IF m.funded > d.funded THEN m.funded ELSE d.funded
  BY <1>a, Applied
<1>5. ASSUME NEW p \in Participants
      PROVE  /\ \/ e.wallet[p] = d.wallet[p]
                \/ e.wallet[p] \in m.wallets /\ e.wallet[p].who = p /\ d.wallet[p].rev < e.wallet[p].rev
             /\ \A w \in m.wallets : w.who = p => w.rev <= d.wallet[p].rev \/ e.wallet[p] = w
  <2>1. AppliedWallet(d, m, e, p) /\ d.wallet[p].rev \in Nat
    BY <1>2, <1>3, <1>4
  <2>2. ASSUME NEW w \in m.wallets, w.who = p PROVE w.rev <= d.wallet[p].rev \/ e.wallet[p] = w
    <3>1. CASE d.wallet[p].rev < w.rev
      BY <2>1, <2>2, <3>1 DEF AppliedWallet, OneRowEach
    <3>2. QED
      BY <1>2, <2>1, <3>1
  <2>3. QED
    BY <2>1, <2>2 DEF AppliedWallet
<1>6. ASSUME NEW a \in Assets, NEW p \in Participants
      PROVE  /\ \/ e.position[a][p] = d.position[a][p]
                \/ /\ e.position[a][p] \in m.positions /\ e.position[a][p].asset = a /\ e.position[a][p].who = p
                   /\ d.position[a][p].rev < e.position[a][p].rev
             /\ \A t \in m.positions : t.asset = a /\ t.who = p => t.rev <= d.position[a][p].rev \/ e.position[a][p] = t
  <2>1. AppliedPosition(d, m, e, a, p) /\ d.position[a][p].rev \in Nat
    BY <1>2, <1>3, <1>4
  <2>2. ASSUME NEW t \in m.positions, t.asset = a, t.who = p PROVE t.rev <= d.position[a][p].rev \/ e.position[a][p] = t
    <3>1. CASE d.position[a][p].rev < t.rev
      BY <2>1, <2>2, <3>1 DEF AppliedPosition, OneRowEach
    <3>2. QED
      BY <1>2, <2>1, <3>1
  <2>3. QED
    BY <2>1, <2>2 DEF AppliedPosition
<1>7. QED
  BY <1>3, <1>4, <1>5, <1>6 DEF Merged

\* The request after its write: nothing in hand but the instructions still to be written.
WroteOn(j, k) ==
    /\ \/ j.todo = Funding0 /\ k.todo = Funding1
       \/ j.todo = Funding2 /\ k.todo = Funding3
       \/ j.todo = Refusing0 /\ k.todo = Refusing1
       \/ j.todo = Refusing2 /\ k.todo = Settling1
       \/ j.todo = Writing /\ k.todo = <<>>
    /\ k.m.wallets = {} /\ k.m.positions = {} /\ k.m.instructions = {} /\ k.m.servicing = {} /\ k.m.funded = 0
    /\ IF j.todo = Writing THEN k.si = {} /\ DOMAIN k.recs = {} ELSE k.si = j.si /\ k.recs = j.recs /\ k.id = j.id

LEMMA WriteGoesOn ==
    ASSUME MoneyInv, JobsInv, NEW c \in Clients, NEW outcome \in {"ok", "failed", "unknown"}, Rail!Write(c, outcome)
    PROVE  \E k : Gets(c, k) /\ WroteOn(job[c], k)
<1>0. SUFFICES ASSUME NEW j, j = job[c] PROVE \E k : Gets(c, k) /\ WroteOn(j, k)
  OBVIOUS
<1>1. /\ j.todo # <<>> /\ Head(j.todo) = "write"
      /\ Gets(c, IF Len(j.todo) = 1 THEN Rail!Idle ELSE Carries(Tail(j.todo), j.id, None, j.si, j.pay, j.recs, j.commits))
  BY <1>0, WriteEffect
<1>2. j.todo \in Plans
  BY <1>0 DEF JobsInv, Plan
<1> DEFINE x == Tail(j.todo)
<1>3. /\ \/ j.todo = Funding0 /\ x = Funding1
         \/ j.todo = Funding2 /\ x = Funding3
         \/ j.todo = Refusing0 /\ x = Refusing1
         \/ j.todo = Refusing2 /\ x = Settling1
         \/ j.todo = Writing /\ x = <<>>
      /\ Len(j.todo) = 1 <=> x = <<>>
  BY <1>1, <1>2, PlanSteps DEF Takes
<1>4. j.todo = Writing <=> x = <<>>
  BY <1>3, PlansDiffer
<1>5. None.wallets = {} /\ None.positions = {} /\ None.instructions = {} /\ None.servicing = {} /\ None.funded = 0
  BY DEF None, Rows
<1> HIDE DEF x
<1>6. CASE x = <<>>
  <2>1. Gets(c, Rail!Idle)
    BY <1>1, <1>3, <1>6
  <2>2. Rail!Idle.todo = <<>> /\ Rail!Idle.m = None /\ Rail!Idle.si = {} /\ Rail!Idle.recs = <<>>
    BY IdleCarries, Fields
  <2>3. WroteOn(j, Rail!Idle)
    BY <1>4, <1>5, <1>6, <2>2 DEF WroteOn
  <2>4. QED
    BY <2>1, <2>3
<1>7. ASSUME x # <<>>, NEW k, k = Carries(x, j.id, None, j.si, j.pay, j.recs, j.commits)
      PROVE  Gets(c, k) /\ WroteOn(j, k)
  <2>1. Gets(c, k)
    BY <1>1, <1>3, <1>7 DEF x
  <2>2. k.todo = x /\ k.id = j.id /\ k.m = None /\ k.si = j.si /\ k.recs = j.recs
    BY <1>7, Fields
  <2>3. WroteOn(j, k)
    BY <1>3, <1>4, <1>5, <1>7, <2>2 DEF WroteOn
  <2>4. QED
    BY <2>1, <2>3
<1>8. QED
  BY <1>6, <1>7

LEMMA JobsWrite ==
    ASSUME MoneyInv, JobsInv, up, up' = up, chain' = chain, NEW c \in Clients, NEW k, Gets(c, k), WroteOn(job[c], k)
    PROVE  JobsInv'
<1>0. SUFFICES ASSUME NEW j, j = job[c] PROVE JobsInv'
  OBVIOUS
<1>1. Plan(j) /\ Named(j) /\ Settles(j) /\ WroteOn(j, k)
  BY <1>0 DEF JobsInv
<1>2. /\ k.todo \in Plans /\ k.todo # Writing /\ (j.todo \in Settling => j.todo = Writing)
      /\ (j.todo \in Recording /\ j.todo # Writing => k.todo \in Recording)
  BY <1>1, PlanKinds, InPlans DEF WroteOn
<1>3. Plan(k)
  BY <1>1, <1>2 DEF Plan, WroteOn, OneRowEach
<1>4. Settles(k)
  BY <1>1, <1>2 DEF Settles, WroteOn, LegsAhead
<1>5. Named(k)'
  BY <1>1, <1>2 DEF Named, WroteOn
<1>6. ChainGrows
  BY DEF ChainGrows
<1>7. QED
  BY <1>3, <1>4, <1>5, <1>6, JobsOn

LEMMA StoredWrite ==
    ASSUME MoneyInv, JobsInv, StoredInv, chain' = chain, NEW c \in Clients, NEW k, WroteOn(job[c], k), Merged(job[c].m)
    PROVE  StoredInv'
<1>0. SUFFICES ASSUME NEW j, j = job[c], NEW m, m = j.m PROVE StoredInv'
  OBVIOUS
<1>1. Named(j) /\ Settles(j) /\ Merged(m) /\ WroteOn(j, k)
  BY <1>0 DEF JobsInv
<1>2. /\ \A p \in Participants : db.wallet[p].rev \in Nat
      /\ \A a \in Assets, p \in Participants : db.position[a][p].rev \in Nat
      /\ \A w \in m.wallets : w.rev \in Nat /\ w.who \in Participants
      /\ \A t \in m.positions : t.rev \in Nat /\ t.asset \in Assets /\ t.who \in Participants
  BY <1>0, RowTypes DEF Rail!WalletRow, Rail!PositionRow
<1>3. Rail!StoredRowsAreAnchored'
  BY <1>0, <1>1 DEF StoredInv, Rail!StoredRowsAreAnchored, Named, NamesItsBlock, Merged
<1>4. /\ \A p \in Participants : db'.wallet[p].rev >= db.wallet[p].rev
      /\ \A a \in Assets, p \in Participants : db'.position[a][p].rev >= db.position[a][p].rev
      /\ \A w \in m.wallets : db'.wallet[w.who].rev >= w.rev
      /\ \A t \in m.positions : db'.position[t.asset][t.who].rev >= t.rev
  <2>1. ASSUME NEW p \in Participants PROVE db'.wallet[p].rev >= db.wallet[p].rev
    BY <1>1, <1>2 DEF Merged
  <2>2. ASSUME NEW a \in Assets, NEW p \in Participants PROVE db'.position[a][p].rev >= db.position[a][p].rev
    BY <1>1, <1>2 DEF Merged
  <2>3. ASSUME NEW w \in m.wallets PROVE db'.wallet[w.who].rev >= w.rev
    BY <1>1, <1>2 DEF Merged
  <2>4. ASSUME NEW t \in m.positions PROVE db'.position[t.asset][t.who].rev >= t.rev
    BY <1>1, <1>2 DEF Merged
  <2>5. QED
    BY <2>1, <2>2, <2>3, <2>4
<1>5. ASSUME NEW s \in db'.instructions, s.status = "SETTLED"
      PROVE  /\ s.seller \in Participants /\ s.buyer \in Participants
             /\ db'.wallet[s.buyer].rev >= s.rev - 4
             /\ db'.wallet[s.seller].rev >= s.rev - 3
             /\ db'.position[s.asset][s.seller].rev >= s.rev - 2
             /\ db'.position[s.asset][s.buyer].rev >= s.rev - 1
  <2>1. CASE s \in m.instructions
    <3>1. LegsAhead(j, s)
      BY <1>0, <1>1, <1>5, <2>1 DEF Named, Settles
    <3>2. QED
      BY <1>0, <1>2, <1>4, <3>1 DEF LegsAhead
  <2>2. CASE s \in db.instructions
    <3>1. s.asset \in Assets /\ s.rev \in Nat
      BY <2>2 DEF MoneyInv, Rail!TypeOK, Rail!Instruction
    <3>2. /\ s.seller \in Participants /\ s.buyer \in Participants
          /\ db.wallet[s.buyer].rev >= s.rev - 4 /\ db.wallet[s.seller].rev >= s.rev - 3
          /\ db.position[s.asset][s.seller].rev >= s.rev - 2 /\ db.position[s.asset][s.buyer].rev >= s.rev - 1
      BY <1>5, <2>2 DEF StoredInv, Rail!StoredSettlementIsWhole
    <3>3. /\ db'.wallet[s.buyer].rev >= db.wallet[s.buyer].rev /\ db'.wallet[s.seller].rev >= db.wallet[s.seller].rev
          /\ db'.position[s.asset][s.seller].rev >= db.position[s.asset][s.seller].rev
          /\ db'.position[s.asset][s.buyer].rev >= db.position[s.asset][s.buyer].rev
      BY <1>4, <3>1, <3>2
    <3>4. /\ db'.wallet[s.buyer].rev \in Nat /\ db'.wallet[s.seller].rev \in Nat
          /\ db'.position[s.asset][s.seller].rev \in Nat /\ db'.position[s.asset][s.buyer].rev \in Nat
      BY <1>1, <1>2, <3>1, <3>2, SMTT(30) DEF Merged
    <3>5. \A x, y, z \in Int : x >= y /\ y >= z => x >= z
      OBVIOUS
    <3>6. QED
      BY <1>2, <3>1, <3>2, <3>3, <3>4, <3>5
  <2>3. QED
    BY <1>1, <2>1, <2>2 DEF Merged
<1>6. ASSUME NEW a \in Assets, NEW p \in Participants
      PROVE  \/ db'.position[a][p].tokens > 0 \/ db'.position[a][p].rev = 0
             \/ \E s \in db'.instructions : db'.position[a][p].rev <= s.rev
  <2>1. CASE db'.position[a][p] = db.position[a][p]
    BY <1>1, <2>1 DEF StoredInv, Merged
  <2>2. CASE db'.position[a][p] \in m.positions
    <3>1. PICK s \in j.si : s.status = "SETTLED" /\ db'.position[a][p].rev <= s.rev
      BY <1>0, <1>1, <2>2 DEF Settles
    <3>2. j.todo \in Settling
      BY <1>1, <3>1 DEF Settles, LegsAhead
    <3>3. j.todo = Writing
      BY <1>1, <3>2, PlanKinds DEF WroteOn
    <3>4. s \in db'.instructions
      BY <1>0, <1>1, <3>3 DEF Named, Merged
    <3>5. QED
      BY <3>1, <3>4
  <2>3. QED
    BY <1>1, <2>1, <2>2 DEF Merged
<1>7. QED
  BY <1>3, <1>5, <1>6 DEF StoredInv, Rail!StoredSettlementIsWhole

LEMMA RevWrite ==
    ASSUME MoneyInv, RevInv, up, UNCHANGED <<up, blindBoots, rev>>, NEW c \in Clients, NEW k, Gets(c, k),
           WroteOn(job[c], k), Merged(job[c].m) \/ db' = db
    PROVE  RevInv'
<1>1. \A d \in Clients : job'[d] = IF d = c THEN k ELSE job[d]
  BY JobGets DEF MoneyInv, Rail!TypeOK
<1>2. k.m.wallets = {} /\ k.m.positions = {}
  BY DEF WroteOn
<1>3. ASSUME blindBoots = 0
      PROVE  /\ \A p \in Participants : db'.wallet[p].rev <= rev
             /\ \A a \in Assets, p \in Participants : db'.position[a][p].rev <= rev
  BY <1>3 DEF RevInv, Merged
<1>4. ASSUME blindBoots = 0, NEW d \in Clients
      PROVE  (\A w \in job'[d].m.wallets : w.rev <= rev) /\ (\A t \in job'[d].m.positions : t.rev <= rev)
  BY <1>1, <1>2, <1>4 DEF RevInv
<1>5. QED
  BY <1>3, <1>4 DEF RevInv

\* The newest row of a balance survives a write, in the table or on its way.
LEMMA WalletsWritten ==
    ASSUME MoneyInv, JobsInv, Wallets, UNCHANGED balance, NEW c \in Clients, NEW k, Gets(c, k), WroteOn(job[c], k),
           Merged(job[c].m)
    PROVE  Wallets'
<1>1. \A d \in Clients : job'[d] = IF d = c THEN k ELSE job[d]
  BY JobGets DEF MoneyInv, Rail!TypeOK
<1>2. SUFFICES ASSUME NEW p \in Participants
               PROVE  \E l \in WalletRows(p)' : Newest(l, WalletRows(p)') /\ l.bal = balance'[p]
  BY DEF Wallets, Newest
<1>3. PICK l \in WalletRows(p) : Newest(l, WalletRows(p)) /\ l.bal = balance[p]
  BY DEF Wallets
<1>4. /\ \/ db'.wallet[p] = db.wallet[p]
         \/ db'.wallet[p] \in job[c].m.wallets /\ db'.wallet[p].who = p /\ db.wallet[p].rev < db'.wallet[p].rev
      /\ \A w \in job[c].m.wallets : w.who = p => w.rev <= db.wallet[p].rev \/ db'.wallet[p] = w
      /\ k.m.wallets = {}
  BY DEF Merged, WroteOn
<1>5. /\ db.wallet[p].rev \in Nat /\ \A d \in Clients : \A w \in job[d].m.wallets : w.rev \in Nat
      /\ \A w \in WalletRows(p) : w.rev \in Nat
  BY RowTypes DEF WalletRows
<1>6. db'.wallet[p] \in WalletRows(p)
  BY <1>4 DEF WalletRows
<1>7. WalletRows(p)' \subseteq WalletRows(p)
  <2>1. ASSUME NEW d \in Clients, NEW w \in job'[d].m.wallets, w.who = p PROVE w \in WalletRows(p)
    BY <1>1, <1>4, <2>1 DEF WalletRows
  <2>2. QED
    BY <1>6, <2>1 DEF WalletRows
<1>8. l \in WalletRows(p)'
  <2>1. CASE l = db.wallet[p]
    <3>1. db'.wallet[p] = l
      BY <1>3, <1>4, <1>5, <1>6, <2>1 DEF Newest
    <3>2. QED
      BY <3>1 DEF WalletRows
  <2>2. CASE l # db.wallet[p] /\ l \in job[c].m.wallets /\ l.who = p
    <3>1. db.wallet[p] \in WalletRows(p)
      BY DEF WalletRows
    <3>2. ~(l.rev <= db.wallet[p].rev)
      BY <1>3, <1>5, <2>2, <3>1 DEF Newest
    <3>3. db'.wallet[p] = l
      BY <1>4, <2>2, <3>2
    <3>4. QED
      BY <3>3 DEF WalletRows
  <2>3. ASSUME NEW d \in Clients, d # c, l \in job[d].m.wallets, l.who = p PROVE l \in WalletRows(p)'
    <3>1. l \in job'[d].m.wallets
      BY <1>1, <2>3
    <3>2. QED
      BY <2>3, <3>1 DEF WalletRows
  <2>4. QED
    BY <2>1, <2>2, <2>3 DEF WalletRows
<1>9. QED
  BY <1>3, <1>7, <1>8 DEF Newest

\* And so does that of a position.
LEMMA PositionsWritten ==
    ASSUME MoneyInv, JobsInv, Positions, UNCHANGED pos, NEW c \in Clients, NEW k, Gets(c, k), WroteOn(job[c], k),
           Merged(job[c].m)
    PROVE  Positions'
<1>1. \A d \in Clients : job'[d] = IF d = c THEN k ELSE job[d]
  BY JobGets DEF MoneyInv, Rail!TypeOK
<1>2. SUFFICES ASSUME NEW a \in Assets, NEW p \in Participants
               PROVE  \E l \in PositionRows(a, p)' : Newest(l, PositionRows(a, p)') /\ l.tokens = pos'[a][p]
  BY DEF Positions, Newest
<1>3. PICK l \in PositionRows(a, p) : Newest(l, PositionRows(a, p)) /\ l.tokens = pos[a][p]
  BY DEF Positions
<1>4. /\ \/ db'.position[a][p] = db.position[a][p]
         \/ db'.position[a][p] \in job[c].m.positions /\ db'.position[a][p].asset = a /\ db'.position[a][p].who = p /\ db.position[a][p].rev < db'.position[a][p].rev
      /\ \A t \in job[c].m.positions : t.asset = a /\ t.who = p => t.rev <= db.position[a][p].rev \/ db'.position[a][p] = t
      /\ k.m.positions = {}
  BY DEF Merged, WroteOn
<1>5. /\ db.position[a][p].rev \in Nat /\ \A d \in Clients : \A t \in job[d].m.positions : t.rev \in Nat
      /\ \A t \in PositionRows(a, p) : t.rev \in Nat
  BY RowTypes DEF PositionRows
<1>6. db'.position[a][p] \in PositionRows(a, p)
  BY <1>4 DEF PositionRows
<1>7. PositionRows(a, p)' \subseteq PositionRows(a, p)
  <2>1. ASSUME NEW d \in Clients, NEW t \in job'[d].m.positions, t.asset = a, t.who = p PROVE t \in PositionRows(a, p)
    BY <1>1, <1>4, <2>1 DEF PositionRows
  <2>2. QED
    BY <1>6, <2>1 DEF PositionRows
<1>8. l \in PositionRows(a, p)'
  <2>1. CASE l = db.position[a][p]
    <3>1. db'.position[a][p] = l
      BY <1>3, <1>4, <1>5, <1>6, <2>1 DEF Newest
    <3>2. QED
      BY <3>1 DEF PositionRows
  <2>2. CASE l # db.position[a][p] /\ l \in job[c].m.positions /\ l.asset = a /\ l.who = p
    <3>1. db.position[a][p] \in PositionRows(a, p)
      BY DEF PositionRows
    <3>2. ~(l.rev <= db.position[a][p].rev)
      BY <1>3, <1>5, <2>2, <3>1 DEF Newest
    <3>3. db'.position[a][p] = l
      BY <1>4, <2>2, <3>2
    <3>4. QED
      BY <3>3 DEF PositionRows
  <2>3. ASSUME NEW d \in Clients, d # c, l \in job[d].m.positions, l.asset = a, l.who = p PROVE l \in PositionRows(a, p)'
    <3>1. l \in job'[d].m.positions
      BY <1>1, <2>3
    <3>2. QED
      BY <2>3, <3>1 DEF PositionRows
  <2>4. QED
    BY <2>1, <2>2, <2>3 DEF PositionRows
<1>9. QED
  BY <1>3, <1>7, <1>8 DEF Newest

LEMMA FundedWritten ==
    ASSUME MoneyInv, Below, Funded, UNCHANGED funded, NEW c \in Clients, NEW k, Gets(c, k), WroteOn(job[c], k),
           Merged(job[c].m)
    PROVE  Funded'
<1>1. \A d \in Clients : job'[d] = IF d = c THEN k ELSE job[d]
  BY JobGets DEF MoneyInv, Rail!TypeOK
<1>2. funded \in Nat /\ db.funded \in Nat /\ job[c].m.funded \in Nat
  <2>1. job[c] \in Rail!Job /\ funded \in Nat /\ db.funded \in Nat
    BY DEF MoneyInv, Rail!TypeOK
  <2>2. QED
    BY <2>1, JobIsCarried
<1>3. db'.funded = (IF job[c].m.funded > db.funded THEN job[c].m.funded ELSE db.funded)
      /\ db.funded <= funded /\ job[c].m.funded <= funded
  BY DEF Merged, Below
<1>4. CASE db.funded = funded \/ job[c].m.funded = funded
  <2>1. db'.funded = funded
    BY <1>2, <1>3, <1>4
  <2>2. QED
    BY <2>1 DEF Funded
<1>5. CASE job[c].todo \in WillCount
  <2>1. k.todo \in WillCount /\ k.todo # <<>>
    BY <1>5, PlanKinds DEF WroteOn
  <2>2. QED
    BY <1>1, <2>1 DEF Funded
<1>6. ASSUME NEW d \in Clients, d # c, job[d].todo # <<>>, job[d].m.funded = funded \/ job[d].todo \in WillCount
      PROVE  Funded'
  BY <1>1, <1>6 DEF Funded
<1>7. QED
  BY <1>4, <1>5, <1>6 DEF Funded

LEMMA BelowWritten ==
    ASSUME MoneyInv, Below, UNCHANGED <<funded, instructions>>, NEW c \in Clients, NEW k, Gets(c, k), WroteOn(job[c], k),
           Merged(job[c].m) \/ db' = db
    PROVE  Below'
<1>1. \A d \in Clients : job'[d] = IF d = c THEN k ELSE job[d]
  BY JobGets DEF MoneyInv, Rail!TypeOK
<1>2. k.m.funded = 0 /\ k.m.instructions = {} /\ funded \in Nat
  BY DEF WroteOn, MoneyInv, Rail!TypeOK
<1>3. db'.funded <= funded /\ db'.instructions \subseteq instructions
  BY DEF Below, Merged
<1>4. QED
  BY <1>1, <1>2, <1>3 DEF Below

LEMMA RecordedWritten ==
    ASSUME MoneyInv, JobsInv, Recorded, UNCHANGED instructions, NEW c \in Clients, NEW k, Gets(c, k), WroteOn(job[c], k),
           Merged(job[c].m)
    PROVE  Recorded'
<1>1. \A d \in Clients : job'[d] = IF d = c THEN k ELSE job[d]
  BY JobGets DEF MoneyInv, Rail!TypeOK
<1>2. job[c].si \subseteq db'.instructions \/ job[c].si = k.si
  BY DEF JobsInv, Named, Merged, WroteOn
<1>3. db.instructions \subseteq db'.instructions
  BY DEF Merged
<1>4. ASSUME NEW s \in instructions PROVE s \in db'.instructions \/ \E d \in Clients : s \in job'[d].si
  <2>1. CASE s \in db.instructions
    BY <1>3, <2>1
  <2>2. CASE s \in job[c].si
    BY <1>1, <1>2, <2>2
  <2>3. ASSUME NEW d \in Clients, d # c, s \in job[d].si PROVE s \in job'[d].si
    BY <1>1, <2>3
  <2>4. QED
    BY <2>1, <2>2, <2>3 DEF Recorded
<1>5. QED
  BY <1>4 DEF Recorded

LEMMA TablesWrite ==
    ASSUME RailInv, NEW c \in Clients, NEW outcome \in {"ok", "failed", "unknown"}, Rail!Write(c, outcome)
    PROVE  JobsInv' /\ StoredInv' /\ RevInv' /\ MirrorInv'
<1>1. MoneyInv /\ JobsInv /\ StoredInv /\ RevInv /\ MirrorInv /\ faults \in Nat
  BY DEF RailInv, MoneyInv, Rail!TypeOK
<1>2. /\ up /\ job[c] \in Rail!Job
      /\ \/ faults' = faults /\ outcome = "ok"
         \/ faults' = faults + 1 /\ outcome # "ok"
      /\ db' = IF outcome = "failed" THEN db ELSE Rail!Apply(db, job[c].m)
      /\ UNCHANGED <<up, balance, funded, pos, instructions, rev, chain, blindBoots>>
  BY <1>1, WriteEffect
<1>3. PICK k : Gets(c, k) /\ WroteOn(job[c], k)
  BY <1>1, WriteGoesOn
<1>4. outcome # "failed" => Merged(job[c].m)
  <2>1. OneRowEach(job[c].m) /\ job[c].m \in Rail!Mutation
    BY <1>1, <1>2, JobIsCarried DEF JobsInv, Plan
  <2>2. QED
    BY <1>1, <1>2, <2>1, WriteMerges
<1>5. Merged(job[c].m) \/ db' = db
  BY <1>2, <1>4
<1>6. JobsInv'
  BY <1>1, <1>2, <1>3, JobsWrite
<1>7. StoredInv'
  <2>1. CASE Merged(job[c].m)
    BY <1>1, <1>2, <1>3, <2>1, StoredWrite
  <2>2. CASE db' = db
    BY <1>1, <1>2, <2>2, StoredOn DEF ChainGrows
  <2>3. QED
    BY <1>5, <2>1, <2>2
<1>8. RevInv'
  BY <1>1, <1>2, <1>3, <1>5, RevWrite
<1>9. ASSUME blindBoots = 0 PROVE Below'
  BY <1>1, <1>2, <1>3, <1>5, <1>9, BelowWritten DEF MirrorInv
<1>10. ASSUME faults' = 0 PROVE faults = 0 /\ Merged(job[c].m)
  BY <1>1, <1>2, <1>4, <1>10
<1>11. ASSUME faults' = 0 PROVE Recorded'
  BY <1>1, <1>2, <1>3, <1>10, <1>11, RecordedWritten DEF MirrorInv
<1>12. ASSUME faults' = 0, blindBoots = 0 PROVE Wallets' /\ Positions' /\ Funded'
  <2>1. Wallets /\ Positions /\ Funded /\ Below /\ Merged(job[c].m)
    BY <1>1, <1>2, <1>10, <1>12 DEF MirrorInv
  <2>2. Wallets'
    BY <1>1, <1>2, <1>3, <2>1, WalletsWritten
  <2>3. Positions'
    BY <1>1, <1>2, <1>3, <2>1, PositionsWritten
  <2>4. Funded'
    BY <1>1, <1>2, <1>3, <2>1, FundedWritten
  <2>5. QED
    BY <2>2, <2>3, <2>4
<1>13. QED
  BY <1>2, <1>6, <1>7, <1>8, <1>9, <1>11, <1>12 DEF MirrorInv
-----------------------------------------------------------------------------
(* The rail's tables: crashes, boots, the start *)

LEMMA IdleIs ==
    /\ Rail!Idle.todo = <<>> /\ Rail!Idle.si = {} /\ DOMAIN Rail!Idle.recs = {}
    /\ Rail!Idle.m.wallets = {} /\ Rail!Idle.m.positions = {} /\ Rail!Idle.m.instructions = {}
    /\ Rail!Idle.m.servicing = {} /\ Rail!Idle.m.funded = 0
<1>1. Rail!Idle.todo = <<>> /\ Rail!Idle.m = None /\ Rail!Idle.si = {} /\ Rail!Idle.recs = <<>>
  BY IdleCarries, Fields
<1>2. QED
  BY <1>1 DEF None, Rows

\* Nobody is being served: every request is idle.
LEMMA AllIdle == (\A c \in Clients : job[c] = Rail!Idle) => JobsInv
<1> SUFFICES ASSUME \A c \in Clients : job[c] = Rail!Idle PROVE JobsInv
  OBVIOUS
<1>1. ASSUME NEW c \in Clients, NEW j, j = job[c] PROVE Plan(j) /\ Named(j) /\ Settles(j)
  <2>1. /\ j.todo = <<>> /\ j.si = {} /\ DOMAIN j.recs = {} /\ j.m.wallets = {} /\ j.m.positions = {}
        /\ j.m.instructions = {} /\ j.m.servicing = {} /\ j.m.funded = 0
    BY <1>1, IdleIs
  <2>2. QED
    BY <2>1, InPlans, PlanKinds DEF Plan, Named, Settles, OneRowEach
<1>2. QED
  BY <1>1 DEF JobsInv

LEMMA IdleRows ==
    ASSUME \A c \in Clients : job[c] = Rail!Idle
    PROVE  /\ \A p : WalletRows(p) = {db.wallet[p]}
           /\ \A a, p : PositionRows(a, p) = {db.position[a][p]}
<1>1. \A c \in Clients : job[c].m.wallets = {} /\ job[c].m.positions = {}
  BY IdleIs
<1>2. QED
  BY <1>1 DEF WalletRows, PositionRows

LEMMA TablesCrash ==
    ASSUME RailInv, Rail!Crash
    PROVE  JobsInv' /\ StoredInv' /\ RevInv' /\ MirrorInv'
<1>1. MoneyInv /\ StoredInv
  BY DEF RailInv
<1>2. /\ up' = FALSE /\ (\A c \in Clients : job'[c] = Rail!Idle) /\ instructions' = {}
      /\ UNCHANGED <<chain, db>>
  BY <1>1, CrashEffect, EmptyEffect
<1>3. JobsInv'
  <2>1. (\A c \in Clients : job[c] = Rail!Idle)'
    BY <1>2
  <2>2. QED
    BY <2>1, AllIdle, PTL
<1>4. StoredInv'
  BY <1>1, <1>2, StoredOn DEF ChainGrows
<1>5. QED
  BY <1>2, <1>3, <1>4 DEF RevInv, MirrorInv, Recorded

LEMMA TablesBlind ==
    ASSUME RailInv, Rail!BootBlind
    PROVE  JobsInv' /\ StoredInv' /\ RevInv' /\ MirrorInv'
<1>1. MoneyInv /\ StoredInv /\ JobsInv /\ blindBoots \in Nat
  BY DEF RailInv, MoneyInv, Rail!TypeOK
<1>2. /\ ~up /\ up' /\ blindBoots' = blindBoots + 1 /\ UNCHANGED <<chain, db, job>> /\ Rail!Empty
  BY DEF Rail!BootBlind
<1>3. instructions' = {} /\ blindBoots' # 0
  BY <1>1, <1>2, EmptyEffect
<1>4. \A c \in Clients : job[c] = Rail!Idle
  BY <1>1, <1>2 DEF JobsInv
<1>5. JobsInv'
  BY <1>1, <1>2 DEF JobsInv, Named, NamesItsBlock
<1>6. StoredInv'
  BY <1>1, <1>2, StoredOn DEF ChainGrows
<1>7. QED
  BY <1>3, <1>5, <1>6 DEF RevInv, MirrorInv, Recorded

LEMMA TablesBoot ==
    ASSUME Rail!RailConstants, RailInv, Rail!Boot
    PROVE  JobsInv' /\ StoredInv' /\ RevInv' /\ MirrorInv'
<1>1. MoneyInv /\ StoredInv /\ JobsInv
  BY DEF RailInv
<1>2. /\ ~up /\ up' /\ (\A p \in Participants : balance'[p] = db.wallet[p].bal) /\ funded' = db.funded
      /\ (\A a \in Assets, p \in Participants : pos'[a][p] = db.position[a][p].tokens)
      /\ instructions' = db.instructions /\ rev' \in Nat /\ (\A r \in Rail!LoadedRevs : r <= rev')
      /\ UNCHANGED <<chain, db, job, faults, blindBoots>>
  BY <1>1, BootEffect
<1>3. \A c \in Clients : job[c] = Rail!Idle
  BY <1>1, <1>2 DEF JobsInv
<1>4. JobsInv'
  BY <1>1, <1>2 DEF JobsInv, Named, NamesItsBlock
<1>5. StoredInv'
  BY <1>1, <1>2, StoredOn DEF ChainGrows
<1>6. RevInv'
  <2>1. \A p \in Participants : db.wallet[p].rev <= rev'
    BY <1>2 DEF Rail!LoadedRevs
  <2>2. ASSUME NEW a \in Assets, NEW p \in Participants PROVE db.position[a][p].rev <= rev'
    <3>1. CASE db.position[a][p].tokens > 0
      <4>1. <<a, p>> \in {y \in Assets \X Participants : db.position[y[1]][y[2]].tokens > 0}
        BY <3>1
      <4>2. db.position[a][p].rev \in Rail!LoadedRevs
        <5>1. db.position[a][p].rev \in
                 {db.position[y[1]][y[2]].rev : y \in {x \in Assets \X Participants : db.position[x[1]][x[2]].tokens > 0}}
          <6>1. PICK y \in {x \in Assets \X Participants : db.position[x[1]][x[2]].tokens > 0} : y[1] = a /\ y[2] = p
            BY <4>1
          <6>2. db.position[y[1]][y[2]].rev = db.position[a][p].rev
            BY <6>1, Zenon
          <6>3. QED
            BY <6>2, Zenon
        <5>2. QED
          BY <5>1, Zenon DEF Rail!LoadedRevs
      <4>3. QED
        BY <1>2, <4>2
    <3>2. CASE db.position[a][p].rev = 0
      BY <1>2, <3>2
    <3>3. ASSUME NEW s \in db.instructions, db.position[a][p].rev <= s.rev PROVE db.position[a][p].rev <= rev'
      <4>1. s.rev <= rev'
        BY <1>2 DEF Rail!LoadedRevs
      <4>2. s.rev \in Nat /\ db.position[a][p].rev \in Nat
        BY <1>1, RowTypes DEF MoneyInv, Rail!TypeOK, Rail!Instruction
      <4>3. QED
        BY <1>2, <3>3, <4>1, <4>2
    <3>4. QED
      BY <1>1, <3>1, <3>2, <3>3 DEF StoredInv
  <2>3. ASSUME NEW c \in Clients PROVE job[c].m.wallets = {} /\ job[c].m.positions = {}
    BY <1>3, IdleIs
  <2>4. QED
    BY <1>2, <2>1, <2>2, <2>3 DEF RevInv
<1>7. Wallets' /\ Positions' /\ Funded' /\ Below' /\ Recorded'
  <2>1. /\ \A p : WalletRows(p)' = {db.wallet[p]}
        /\ \A a, p : PositionRows(a, p)' = {db.position[a][p]}
    BY <1>2, <1>3, IdleRows DEF WalletRows, PositionRows
  <2>2. Wallets' /\ Positions'
    <3>1. /\ \A p \in Participants : Newest(db.wallet[p], {db.wallet[p]})
          /\ \A a \in Assets, p \in Participants : Newest(db.position[a][p], {db.position[a][p]})
      BY <1>1, RowTypes DEF Newest
    <3>2. Wallets'
      BY <1>2, <2>1, <3>1 DEF Wallets
    <3>3. Positions'
      BY <1>2, <2>1, <3>1 DEF Positions
    <3>4. QED
      BY <3>2, <3>3
  <2>3. \A c \in Clients : job[c].m.funded = 0 /\ job[c].m.instructions = {}
    BY <1>3, IdleIs
  <2>4. db.funded \in Nat
    BY <1>1 DEF MoneyInv, Rail!TypeOK
  <2>5. QED
    BY <1>2, <2>2, <2>3, <2>4 DEF Funded, Below, Recorded
<1>8. QED
  BY <1>4, <1>5, <1>6, <1>7 DEF MirrorInv

LEMMA TablesInit == ASSUME Rail!RailConstants, Rail!Init PROVE RailInv
<1>1. MoneyInv
  BY MoneyInit
<1>2. /\ balance = [p \in Participants |-> 0] /\ funded = 0 /\ up = TRUE /\ rev = 1 /\ chain = <<>> /\ instructions = {}
      /\ pos = [a \in Assets |-> [p \in Participants |-> IF p \in Seeded THEN Holding ELSE 0]]
      /\ db.wallet = [p \in Participants |-> [who |-> p, bal |-> 0, rev |-> 0]]
      /\ db.position = [a \in Assets |-> [p \in Participants |->
             [asset |-> a, who |-> p, tokens |-> pos[a][p], rev |-> IF p \in Seeded THEN 1 ELSE 0]]]
      /\ db.instructions = {} /\ db.servicing = {} /\ db.funded = 0
      /\ \A c \in Clients : job[c] = Rail!Idle
  BY DEF Rail!Init
<1>3. JobsInv
  BY <1>2, AllIdle
<1>4. \A c \in Clients : job[c].m.wallets = {} /\ job[c].m.positions = {} /\ job[c].m.instructions = {} /\ job[c].m.funded = 0
  BY <1>2, IdleIs
<1>5. /\ \A p \in Participants : db.wallet[p].rev = 0 /\ db.wallet[p].bal = balance[p]
      /\ \A a \in Assets, p \in Participants :
            /\ db.position[a][p].rev = IF p \in Seeded THEN 1 ELSE 0
            /\ db.position[a][p].tokens = pos[a][p]
            /\ pos[a][p] = IF p \in Seeded THEN Holding ELSE 0
  BY <1>2
<1>6. StoredInv
  <2>1. Holding \in Nat \ {0}
    BY DEF Rail!RailConstants
  <2>2. Rail!StoredRowsAreAnchored /\ Rail!StoredSettlementIsWhole
    BY <1>2 DEF Rail!StoredRowsAreAnchored, Rail!StoredSettlementIsWhole
  <2>3. \A a \in Assets, p \in Participants : db.position[a][p].tokens > 0 \/ db.position[a][p].rev = 0
    BY <1>5, <2>1
  <2>4. QED
    BY <1>2, <2>2, <2>3 DEF StoredInv
<1>7. RevInv
  BY <1>2, <1>4, <1>5 DEF RevInv
<1>8. Wallets /\ Positions /\ Funded /\ Below /\ Recorded
  <2>1. /\ \A p : WalletRows(p) = {db.wallet[p]}
        /\ \A a, p : PositionRows(a, p) = {db.position[a][p]}
    BY <1>2, IdleRows
  <2>2. Wallets /\ Positions
    BY <1>5, <2>1 DEF Wallets, Positions, Newest
  <2>3. QED
    BY <1>2, <1>4, <2>2 DEF Funded, Below, Recorded
<1>9. QED
  BY <1>1, <1>3, <1>6, <1>7, <1>8 DEF RailInv, MirrorInv

LEMMA TablesStay ==
    ASSUME RailInv, UNCHANGED Rail!vars PROVE JobsInv' /\ StoredInv' /\ RevInv' /\ MirrorInv'
<1>1. UNCHANGED <<up, balance, funded, pos, instructions, rev, chain, db, job, faults, blindBoots>>
  BY DEF Rail!vars
<1>2. JobsInv /\ StoredInv /\ RevInv /\ MirrorInv
  BY DEF RailInv
<1>3. JobsInv'
  BY <1>1, <1>2 DEF JobsInv, Named, NamesItsBlock
<1>4. StoredInv'
  BY <1>1, <1>2 DEF StoredInv, Rail!StoredRowsAreAnchored, Rail!StoredSettlementIsWhole
<1>5. RevInv'
  BY <1>1, <1>2 DEF RevInv
<1>6. Wallets' = Wallets /\ Positions' = Positions
  BY <1>1 DEF Wallets, Positions, WalletRows, PositionRows
<1>7. MirrorInv'
  BY <1>1, <1>2, <1>6 DEF MirrorInv, Funded, Below, Recorded
<1>8. QED
  BY <1>3, <1>4, <1>5, <1>7

LEMMA RailNext == ASSUME Rail!RailConstants, RailInv, [Rail!Next]_Rail!vars PROVE RailInv'
<1>1. MoneyInv'
  BY MoneyNext DEF RailInv
<1>2. ASSUME NEW c \in Clients, Rail!UnderLock(c) PROVE JobsInv' /\ StoredInv' /\ RevInv' /\ MirrorInv'
  BY <1>2, TablesFund, TablesAssign, TablesSettle, TablesRefuse, TablesDryRun, TablesRead, TablesPayOut, Zenon
     DEF Rail!UnderLock
<1>3. ASSUME NEW c \in Clients, Rail!AfterUnlock(c) PROVE JobsInv' /\ StoredInv' /\ RevInv' /\ MirrorInv'
  BY <1>3, TablesCounters, TablesBlock, TablesBackFill, TablesWrite, Zenon DEF Rail!AfterUnlock
<1>4. JobsInv' /\ StoredInv' /\ RevInv' /\ MirrorInv'
  BY <1>2, <1>3, TablesCrash, TablesBoot, TablesBlind, TablesStay, Zenon DEF Rail!Next
<1>5. QED
  BY <1>1, <1>4 DEF RailInv

LEMMA TablesAreRight ==
    RailInv => /\ Rail!MirrorCatchesUp /\ Rail!StoredSettlementIsWhole /\ Rail!AnsweredIsStored
               /\ Rail!RevAboveStore /\ Rail!StoredRowsAreAnchored
<1> SUFFICES ASSUME RailInv
             PROVE  /\ Rail!MirrorCatchesUp /\ Rail!StoredSettlementIsWhole /\ Rail!AnsweredIsStored
                    /\ Rail!RevAboveStore /\ Rail!StoredRowsAreAnchored
  OBVIOUS
<1>1. MoneyInv /\ JobsInv /\ StoredInv /\ RevInv /\ MirrorInv
  BY DEF RailInv
<1>2. ASSUME Rail!Quiet, faults = 0, blindBoots = 0 PROVE Rail!Mirrored
  <2>1. up /\ \A c \in Clients : job[c].todo = <<>>
    BY <1>2 DEF Rail!Quiet
  <2>2. \A c \in Clients : Clear(job[c])
    BY <1>1, <2>1, HasNothing, PlanKinds
  <2>3. Wallets /\ Positions /\ Funded /\ Below /\ Recorded
    BY <1>1, <1>2, <2>1 DEF MirrorInv
  <2>4. /\ \A p : WalletRows(p) = {db.wallet[p]}
        /\ \A a, p : PositionRows(a, p) = {db.position[a][p]}
    BY <2>2 DEF WalletRows, PositionRows, Clear
  <2>5. \A p \in Participants : db.wallet[p].bal = balance[p]
    BY <2>3, <2>4 DEF Wallets
  <2>6. \A a \in Assets, p \in Participants : db.position[a][p].tokens = pos[a][p]
    BY <2>3, <2>4 DEF Positions
  <2>7. db.funded = funded
    BY <2>1, <2>3 DEF Funded
  <2>8. db.instructions = instructions
    BY <2>2, <2>3 DEF Below, Recorded, Clear
  <2>9. QED
    BY <2>5, <2>6, <2>7, <2>8 DEF Rail!Mirrored
<1>3. ASSUME faults = 0, NEW s \in instructions
      PROVE  s \in db.instructions \/ \E c \in Clients : job[c].todo # <<>> /\ job[c].id = s.id
  <2>1. ASSUME NEW c \in Clients, s \in job[c].si PROVE job[c].todo # <<>> /\ job[c].id = s.id
    <3>1. Plan(job[c]) /\ Named(job[c])
      BY <1>1 DEF JobsInv
    <3>2. QED
      BY <2>1, <3>1, PlanKinds DEF Plan, Named
  <2>2. QED
    BY <1>1, <1>3, <2>1 DEF MirrorInv, Recorded
<1>4. QED
  BY <1>1, <1>2, <1>3 DEF StoredInv, RevInv, Rail!MirrorCatchesUp, Rail!AnsweredIsStored, Rail!RevAboveStore
-----------------------------------------------------------------------------
(* Behaviours about the rail *)

LEMMA RailStart == ASSUME MCInit, topic = "rail" PROVE Rail!Init
BY Zenon DEF MCInit, RailBegins

LEMMA RailGoesOn ==
    ASSUME [MCNext]_everything
    PROVE  topic' = topic /\ (topic = "rail" => [Rail!Next]_Rail!vars)
<1>1. CASE MCNext
  BY <1>1, Zenon DEF MCNext
<1>2. CASE UNCHANGED everything
  <2>1. UNCHANGED <<topic, keys, faults, crashes, rail, supply, market, shared>>
    BY <1>2, Zenon DEF everything
  <2>2. UNCHANGED Rail!vars
    BY <2>1 DEF Rail!vars, rail, shared
  <2>3. QED
    BY <2>1, <2>2
<1>3. QED
  BY <1>1, <1>2

\* Until a crash no request, in any interleaving, makes or loses money or tokens of an asset (umi.go,
\* SettleDvP and ServicingByBasis under r.mu), for any participants, assets and numbers.
THEOREM NothingIsMadeOrLost == MCSpec => []NothingMadeOrLost
<1> DEFINE Inv == topic = "rail" => MoneyInv
<1>1. MCInit => Inv
  BY RailStart, MoneyInit, RailIsSetUp
<1>2. Inv /\ [MCNext]_everything => Inv'
  BY RailGoesOn, MoneyNext, RailIsSetUp
<1>3. Inv => NothingMadeOrLost
  BY DEF MoneyInv, NothingMadeOrLost
<1>4. QED
  BY <1>1, <1>2, <1>3, PTL DEF MCSpec
=============================================================================
