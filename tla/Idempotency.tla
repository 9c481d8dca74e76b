---------------------------- MODULE Idempotency ----------------------------
(***************************************************************************)
(* Idempotency keys in front of the money-moving endpoints                 *)
(* (idempotency.go, idempotency_http.go, idempotency_store.go): a row per  *)
(* key in Postgres, claimed by one INSERT ... ON CONFLICT DO NOTHING, a    *)
(* map in memory that is written beside it and decides alone when a call   *)
(* to the database fails, and callers that retry a key with the same body, *)
(* or another one, while earlier attempts still run.                       *)
(*                                                                         *)
(* A handler between beginIdem and finish is one step, Run: it refuses     *)
(* early (bad JSON, no authority: tx.release), or it settles or fails the  *)
(* request and records which.  Each database call can fail, before or      *)
(* after taking effect.  A key's 24 hours end only while no call is on it. *)
(***************************************************************************)
EXTENDS Naturals, FiniteSets

CONSTANTS
    Keys, Bodies,
    Clients,      \* requests served at the same time
    NoRecord,
    MaxRequests,  \* bound: requests
    MaxFaults,    \* bound: failed database calls
    MaxCrashes,   \* bound: process crashes
    MaxDays       \* bound: times a key's 24 hours end

Outcomes == {"settled", "failed"}
NoResult == [body |-> NoRecord, outcome |-> "none"]
Result   == [body : Bodies, outcome : Outcomes] \cup {NoResult}
IdemRecord == [fingerprint : Bodies, done : BOOLEAN, result : Result]

ASSUME IdemConstants ==
    /\ Keys # {} /\ Bodies # {} /\ NoRecord \notin IdemRecord
    /\ MaxRequests \in Nat /\ MaxFaults \in Nat /\ MaxCrashes \in Nat /\ MaxDays \in Nat

VARIABLES
    durable,   \* WithPersister attached a database (s.durable)
    mem,       \* IdemStore.mem
    table,     \* umi_idempotency
    call,      \* each client's request
    settled,   \* times a key's request moved money, within its 24 hours (history)
    answers,   \* [key, asked, result]: responses given, replays included (history)
    fellBack,  \* keys a request took from memory although a database is attached (history)
    requests, faults, crashes, days

store == <<mem, table>>
told  == <<settled, answers, fellBack>>
budget == <<faults, crashes, days>>
vars == <<store, call, told, durable, requests, budget>>
-----------------------------------------------------------------------------
Fresh(b) == [fingerprint |-> b, done |-> FALSE, result |-> NoResult]
Points == {"idle", "claim", "won", "get", "memory", "run", "complete", "record", "release", "drop"}
Idle == [at |-> "idle", key |-> NoRecord, body |-> NoRecord, result |-> NoResult]
Call == [at : Points \ {"idle"}, key : Keys, body : Bodies, result : Result] \cup {Idle}

Goes(c, to) == call' = [call EXCEPT ![c] = to]
Then(c, step) == Goes(c, [call[c] EXCEPT !.at = step])
Is(c, step) == call[c].at = step /\ UNCHANGED <<durable, requests>>
Fault == faults < MaxFaults /\ faults' = faults + 1 /\ UNCHANGED <<crashes, days>>
-----------------------------------------------------------------------------
(* Begin *)

\* (mutant: the key alone decides, whatever the body)
classify_KeyOnly(rec, b) == IF rec.done THEN "replay" ELSE "inflight"

classify(rec, b) ==
    IF rec.fingerprint # b THEN "conflict" ELSE IF rec.done THEN "replay" ELSE "inflight"

\* A record was found: 422, 409, or the recorded response.
Classified(c, rec) ==
    /\ Goes(c, Idle)
    /\ answers' = IF classify(rec, call[c].body) = "replay"
                  THEN answers \cup {[key |-> call[c].key, asked |-> call[c].body, result |-> rec.result]}
                  ELSE answers
    /\ UNCHANGED <<store, settled, fellBack>>

Request(c, k, b) ==
    /\ call[c].at = "idle" /\ requests < MaxRequests
    /\ requests' = requests + 1
    /\ Goes(c, [Idle EXCEPT !.at = IF durable THEN "claim" ELSE "memory", !.key = k, !.body = b])
    /\ UNCHANGED <<store, told, durable, budget>>

\* (mutant: a reservation that has not completed is taken over)
Free_NotDone(rec) == IF rec = NoRecord THEN TRUE ELSE ~rec.done

Free(rec) == rec = NoRecord

\* INSERT ... ON CONFLICT (key) DO NOTHING RETURNING key
Claim(c) ==
    /\ Is(c, "claim")
    /\ LET k == call[c].key IN
       IF Free(table[k])
       THEN Then(c, "won") /\ table' = [table EXCEPT ![k] = Fresh(call[c].body)]
       ELSE Then(c, "get") /\ UNCHANGED table
    /\ UNCHANGED <<mem, told, budget>>

\* won: the reservation is mirrored in memory, over whatever is there
Mirror(c) ==
    /\ Is(c, "won")
    /\ mem' = [mem EXCEPT ![call[c].key] = Fresh(call[c].body)]
    /\ Then(c, "run")
    /\ UNCHANGED <<table, told, budget>>

\* the database does not answer: "falling back to memory"; a claim may have been made
ClaimFails(c) ==
    /\ call[c].at \in {"claim", "get"} /\ UNCHANGED <<durable, requests>>
    /\ Fault
    /\ LET k == call[c].key IN
       \/ UNCHANGED table
       \/ /\ call[c].at = "claim" /\ Free(table[k])
          /\ table' = [table EXCEPT ![k] = Fresh(call[c].body)]
    /\ Then(c, "memory")
    /\ fellBack' = fellBack \cup {call[c].key}
    /\ UNCHANGED <<mem, settled, answers>>

\* lost: somebody else's row, unless it went away meanwhile
Get(c) ==
    /\ Is(c, "get")
    /\ LET rec == table[call[c].key] IN
       \/ rec # NoRecord /\ Classified(c, rec)
       \/ /\ rec = NoRecord /\ Then(c, "memory")
          /\ fellBack' = fellBack \cup {call[c].key}
          /\ UNCHANGED <<store, settled, answers>>
    /\ UNCHANGED budget

Memory(c) ==
    /\ Is(c, "memory")
    /\ LET rec == mem[call[c].key] IN
       \/ ~Free(rec) /\ Classified(c, rec)
       \/ /\ Free(rec) /\ Then(c, "run")
          /\ mem' = [mem EXCEPT ![call[c].key] = Fresh(call[c].body)]
          /\ UNCHANGED <<table, told>>
    /\ UNCHANGED budget
-----------------------------------------------------------------------------
(* The handler, finish and release *)

Run(c, outcome) ==
    /\ Is(c, "run")
    /\ settled' = IF outcome = "settled" THEN [settled EXCEPT ![call[c].key] = @ + 1] ELSE settled
    /\ Goes(c, [call[c] EXCEPT !.at = "complete",
                               !.result = [body |-> call[c].body, outcome |-> outcome]])
    /\ UNCHANGED <<store, answers, fellBack, budget>>

Refuse(c) ==
    /\ Is(c, "run")
    /\ Then(c, "release")
    /\ UNCHANGED <<store, told, budget>>

\* (mutant: a failed request frees its key)
Update_FreesFailures(f, k, r) ==
    IF f[k] = NoRecord THEN f
    ELSE IF r.outcome = "failed" THEN [f EXCEPT ![k] = NoRecord]
    ELSE [f EXCEPT ![k].done = TRUE, ![k].result = r]

\* (mutant: an upsert, which knows no fingerprint)
Update_Upsert(f, k, r) == [f EXCEPT ![k] = [done |-> TRUE, result |-> r]]

\* UPDATE ... WHERE key, whoever claimed it
Update(f, k, r) ==
    IF f[k] = NoRecord THEN f ELSE [f EXCEPT ![k].done = TRUE, ![k].result = r]

Answer(c) ==
    /\ answers' = answers \cup {[key |-> call[c].key, asked |-> call[c].body, result |-> call[c].result]}
    /\ Goes(c, Idle)

\* Complete: in memory, then in the table; an error there is logged.
Complete(c) ==
    /\ Is(c, "complete")
    /\ mem' = Update(mem, call[c].key, call[c].result)
    /\ IF durable THEN Then(c, "record") /\ UNCHANGED answers ELSE Answer(c)
    /\ UNCHANGED <<table, settled, fellBack, budget>>

Record(c) ==
    /\ Is(c, "record")
    /\ \/ table' = Update(table, call[c].key, call[c].result) /\ (UNCHANGED budget \/ Fault)
       \/ UNCHANGED table /\ Fault
    /\ Answer(c)
    /\ UNCHANGED <<mem, settled, fellBack>>

\* DELETE ... WHERE key AND done = false
Dropped(f, k) == IF f[k] # NoRecord /\ f[k].done THEN f ELSE [f EXCEPT ![k] = NoRecord]

Release(c) ==
    /\ Is(c, "release")
    /\ mem' = Dropped(mem, call[c].key)
    /\ IF durable THEN Then(c, "drop") ELSE Goes(c, Idle)
    /\ UNCHANGED <<table, told, budget>>

Drop(c) ==
    /\ Is(c, "drop")
    /\ \/ table' = Dropped(table, call[c].key) /\ (UNCHANGED budget \/ Fault)
       \/ UNCHANGED table /\ Fault
    /\ Goes(c, Idle)
    /\ UNCHANGED <<mem, told>>
-----------------------------------------------------------------------------
(* Time, crashes, Next *)

Expire(k) ==
    /\ days < MaxDays /\ days' = days + 1
    /\ \A c \in Clients : call[c].at # "idle" => call[c].key # k
    /\ mem[k] # NoRecord \/ table[k] # NoRecord
    /\ mem' = [mem EXCEPT ![k] = NoRecord] /\ table' = [table EXCEPT ![k] = NoRecord]
    /\ settled' = [settled EXCEPT ![k] = 0]
    /\ answers' = {a \in answers : a.key # k} /\ fellBack' = fellBack \ {k}
    /\ UNCHANGED <<call, durable, requests, faults, crashes>>

\* The process dies and boots again; with a database that does not answer IdemInit,
\* it stays in memory.
Crash ==
    /\ crashes < MaxCrashes /\ crashes' = crashes + 1
    /\ mem' = [k \in Keys |-> NoRecord]
    /\ call' = [c \in Clients |-> Idle]
    /\ \/ UNCHANGED <<durable, fellBack, faults>>
       \/ /\ durable /\ faults < MaxFaults
          /\ durable' = FALSE /\ fellBack' = Keys /\ faults' = faults + 1
    /\ UNCHANGED <<table, settled, answers, requests, days>>

Init ==
    /\ durable \in BOOLEAN
    /\ mem = [k \in Keys |-> NoRecord] /\ table = [k \in Keys |-> NoRecord]
    /\ call = [c \in Clients |-> Idle]
    /\ settled = [k \in Keys |-> 0] /\ answers = {} /\ fellBack = {}
    /\ requests = 0 /\ faults = 0 /\ crashes = 0 /\ days = 0

Next ==
    \/ \E c \in Clients :
        \/ \E k \in Keys, b \in Bodies : Request(c, k, b)
        \/ Claim(c) \/ ClaimFails(c) \/ Mirror(c) \/ Get(c) \/ Memory(c)
        \/ \E outcome \in Outcomes : Run(c, outcome)
        \/ Refuse(c) \/ Complete(c) \/ Record(c) \/ Release(c) \/ Drop(c)
    \/ \E k \in Keys : Expire(k)
    \/ Crash

Spec == Init /\ [][Next]_vars
-----------------------------------------------------------------------------
(* Properties *)

TypeOK ==
    /\ mem \in [Keys -> IdemRecord \cup {NoRecord}]
    /\ table \in [Keys -> IdemRecord \cup {NoRecord}]
    /\ durable \in BOOLEAN
    /\ call \in [Clients -> Call]
    /\ settled \in [Keys -> Nat] /\ fellBack \subseteq Keys
    /\ answers \subseteq [key : Keys, asked : Bodies, result : Result]
    /\ requests \in Nat /\ faults \in Nat /\ crashes \in Nat /\ days \in Nat

\* Its store decides a key alone: the table where there is one, else the map while the
\* process lives.
Decided(k) == k \notin fellBack /\ (durable \/ crashes = 0)

\* A key its store decides alone moves money at most once in its 24 hours, whatever
\* retries race, handlers refuse, calls of other keys fail or, with a table, processes
\* die (IdemClaim; "no second settlement").
SettlesOnce == \A k \in Keys : Decided(k) => settled[k] <= 1

\* Every response given under such a key is the same result, failures included ("Failures
\* are recorded too").
OneResult == \A a, b \in answers : a.key = b.key /\ Decided(a.key) => a.result = b.result

\* A caller is never given the result of another body ("same key, DIFFERENT body: 422").
OwnResult == \A a \in answers : Decided(a.key) => a.result.body = a.asked

\* What a key promises while its store decides it alone.
KeysDecide == SettlesOnce /\ OneResult /\ OwnResult

\* idempotency.go: "replayed verbatim, with no second settlement", with every database
\* call answered and no crash, which is checked and does not hold.
NoSecondSettlement == \A k \in Keys : settled[k] <= 1
=============================================================================
