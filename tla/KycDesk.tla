------------------------------ MODULE KycDesk ------------------------------
(***************************************************************************)
(* Identity verification records (frontend/api/index.js, the same records  *)
(* kept in memory by mock-api-server.js): the fixtures, the record a first *)
(* sign-in creates, an officer's decision, and the simulated DigiLocker    *)
(* flow with the digests it anchors on the rail.  An instance of the API   *)
(* replaces its memory by its file at the start of every request; the mock *)
(* server has no file and no DigiLocker routes.                            *)
(***************************************************************************)
EXTENDS Naturals, FiniteSets

CONSTANTS
    None,
    Fixtures, Newcomers,
    MaxStates      \* bound: DigiLocker states issued

VARIABLES
    server,        \* "api" or "mock"
    records,       \* kycRecords: status of each person, None without a record
    states,        \* idempotency['digi_state_' + n]: whom state n was issued to
    file,          \* /tmp: what saveAllPersisted last wrote
    waiting,       \* a request that has passed initState and not run its handler
    job,           \* a callback that waits for the rail
    evidence,      \* the rail: <<person, document>> anchored
    told,          \* the last answer: person and documents reported anchored
    issued, last, vetted, used  \* every state issued; last decision told; who was ever verified by whom; whose state verified whom (history)

kycVars == <<server, records, states, file, waiting, job, evidence, told, issued, last, vetted, used>>
history == <<issued, last, vetted, used>>

People == Fixtures \cup Newcomers
mockDocs == {"AADHAAR", "PAN"}
Statuses == {"VERIFIED", "SUSPENDED"}  \* of the strings PUT takes, one that lets a person pay and one that does not
NoRequest == [op |-> "none"]
NoJob == [on |-> None]
Nothing == [on |-> None, anchored |-> {}]
NoFile == [records |-> [p \in People |-> None], states |-> [n \in 1..MaxStates |-> None]]

seedDemoKyc(r) == [p \in People |-> IF p \in Fixtures /\ r[p] = None THEN "VERIFIED" ELSE r[p]]
ensureKycRecord(r, p) == IF r[p] = None THEN [r EXCEPT ![p] = "UNVERIFIED"] ELSE r

Init ==
    /\ server \in {"api", "mock"} /\ records = seedDemoKyc(NoFile.records) /\ states = NoFile.states /\ file = NoFile
    /\ waiting = NoRequest /\ job = NoJob /\ evidence = {} /\ told = Nothing
    /\ issued = NoFile.states /\ last = [p \in People |-> None] /\ vetted = {} /\ used = {}
-----------------------------------------------------------------------------
\* loadAllPersisted: a part of the file without entries replaces nothing.
Loaded(kept, now) == IF \E x \in DOMAIN kept : kept[x] # None THEN kept ELSE now
Restore(u) ==
    IF server = "mock" THEN UNCHANGED <<records, states>>
    ELSE /\ records' = ensureKycRecord(seedDemoKyc(Loaded(file.records, records)), u)
         /\ states' = Loaded(file.states, states)

Requests ==
    [op : {"put"}, on : People, status : Statuses]
    \cup IF server = "mock" THEN {}
         ELSE [op : {"init", "pull"}, on : People] \cup [op : {"callback"}, on : People, state : {None} \cup 1..MaxStates]

\* Every request restores first; u signs it. kycSubjectViolation and the
\* officer's gate have let it through (module Gates).
Arrive(u, q) ==
    /\ waiting = NoRequest /\ waiting' = q /\ Restore(u)
    /\ UNCHANGED <<server, file, job, evidence, told, history>>
\* Another request of anyone's, whose handler is not about these records ...
Visit(u) ==
    /\ Restore(u) /\ UNCHANGED <<server, file, waiting, job, evidence, told, history>>
\* ... or that ends, as most writes do, in saveAllPersisted.
saveAllPersisted(r, s) == IF server = "mock" THEN file ELSE [records |-> r, states |-> s]
OtherSave ==
    /\ server = "api" /\ file' = saveAllPersisted(records, states)
    /\ UNCHANGED <<server, records, states, waiting, job, evidence, told, history>>

Serve(op) == waiting.op = op /\ waiting' = NoRequest

PutKyc ==
    /\ Serve("put")
    /\ records' = [records EXCEPT ![waiting.on] = waiting.status]
    /\ last' = [last EXCEPT ![waiting.on] = "officer"]
    /\ vetted' = IF waiting.status = "VERIFIED" THEN vetted \cup {<<waiting.on, "officer">>} ELSE vetted
    /\ UNCHANGED <<server, states, file, job, evidence, told, issued, used>>

DigiLockerInit ==
    /\ Serve("init")
    /\ \E n \in 1..MaxStates : issued[n] = None /\ (\A k \in 1..(n - 1) : issued[k] # None)
         /\ states' = [states EXCEPT ![n] = waiting.on] /\ issued' = [issued EXCEPT ![n] = waiting.on]
         /\ file' = saveAllPersisted(records, states')
    /\ UNCHANGED <<server, records, job, evidence, told, last, vetted, used>>

StateMismatch_Never(p, n) == FALSE \* (mutant: any state will do)
\* A state that is missing, or that this instance does not know, is let through.
StateMismatch(p, n) == n # None /\ states[n] \notin {None, p}

DigiLockerRefused ==
    /\ Serve("callback") /\ StateMismatch(waiting.on, waiting.state)
    /\ UNCHANGED <<server, records, states, file, job, evidence, told, history>>

SavedCallback_MemoryOnly(r) == file \* (mutant: as PUT does)
SavedCallback(r) == saveAllPersisted(r, states)
DigiLockerCallback ==
    /\ Serve("callback") /\ ~StateMismatch(waiting.on, waiting.state) /\ job = NoJob
    /\ records' = [records EXCEPT ![waiting.on] = "VERIFIED"] /\ file' = SavedCallback(records')
    /\ job' = [on |-> waiting.on, asked |-> mockDocs, anchored |-> {}, threw |-> FALSE]
    /\ last' = [last EXCEPT ![waiting.on] = "callback"] /\ vetted' = vetted \cup {<<waiting.on, "digilocker">>}
    /\ used' = used \cup {<<IF waiting.state = None THEN None ELSE issued[waiting.state], waiting.on>>}
    /\ UNCHANGED <<server, states, evidence, told, issued>>

\* POST /umi/documents/digest, one call per document at the same time.
Anchors(d, answered, ok) ==
    /\ job # NoJob /\ d \in job.asked
    /\ evidence' = IF ok THEN evidence \cup {<<job.on, d>>} ELSE evidence
    /\ job' = [job EXCEPT !.asked = @ \ {d}, !.threw = @ \/ ~answered,
                          !.anchored = IF answered /\ ok THEN @ \cup {d} ELSE @]
    /\ UNCHANGED <<server, records, states, file, waiting, told, history>>
\* One call that fails empties the whole list; without a rail it is empty.
Reported_Asked(j) == mockDocs \* (mutant: what was sent is reported)
Reported(j) == IF j.threw THEN {} ELSE j.anchored
CallbackAnswers ==
    /\ job # NoJob /\ (job.asked = {} \/ job.asked = mockDocs \/ job.threw)
    /\ told' = [on |-> job.on, anchored |-> Reported(job)] /\ job' = NoJob
    /\ UNCHANGED <<server, records, states, file, waiting, evidence, history>>

\* Documents for a VERIFIED record, 400 for another: nothing is kept.
PullDocument ==
    /\ Serve("pull")
    /\ UNCHANGED <<server, records, states, file, job, evidence, told, history>>

Next ==
    \/ \E u \in People : Visit(u) \/ \E q \in Requests : Arrive(u, q)
    \/ OtherSave \/ PutKyc \/ DigiLockerInit \/ DigiLockerRefused \/ DigiLockerCallback \/ CallbackAnswers \/ PullDocument
    \/ \E d \in mockDocs, answered, ok \in BOOLEAN : Anchors(d, answered, ok)
-----------------------------------------------------------------------------
TypeOK ==
    /\ records \in [People -> {None, "UNVERIFIED"} \cup Statuses] /\ states \in [1..MaxStates -> {None} \cup People]
    /\ file.records \in [People -> {None, "UNVERIFIED"} \cup Statuses] /\ evidence \subseteq People \X mockDocs

\* Nobody but a fixture is VERIFIED, in memory or on file, who was not
\* verified by a callback that named them or by an officer.
VerifiedWasDecided ==
    \A p \in Newcomers : "VERIFIED" \in {records[p], file.records[p]} =>
        \E how \in {"officer", "digilocker"} : <<p, how>> \in vetted

\* A verification told to somebody outlives every later request that loads
\* the file, until an officer decides otherwise.
CallbackStays == \A p \in People : last[p] = "callback" => records[p] = "VERIFIED" /\ file.records[p] = "VERIFIED"

\* A state issued here for one person never verified another, however the
\* file came and went between.
StateIsHonoured == \A <<owner, p>> \in used : owner \in {None, p}

\* Documents an answer reports as anchored are on the rail.
AnchorsAreReal == \A d \in told.anchored : <<told.on, d>> \in evidence

KycStands == VerifiedWasDecided /\ CallbackStays /\ StateIsHonoured /\ AnchorsAreReal
=============================================================================
