---------------------------- MODULE Verification ----------------------------
(***************************************************************************)
(* The public verification report of a listing (GET                        *)
(* /api/properties/:id/verify in frontend/api/index.js and                 *)
(* mock-api-server.js) and what it reads: the server's own hash chain with *)
(* its tamper demonstration, the listing, and on the rail the document     *)
(* register, filled by calls nobody waits for, and the rail's own chain.   *)
(* The report reads in three steps with two calls to the rail between      *)
(* them, the validator both before and after the second; everything else   *)
(* goes on meanwhile.  A block holds a number for    *)
(* its transactions, the one it was committed with and, once altered, the  *)
(* copy that restoring brings back.  The address check a listing goes      *)
(* through shares no state with the report and has a next-state relation   *)
(* of its own.                                                             *)
(***************************************************************************)
EXTENDS Naturals, Sequences, FiniteSets, SequencesExt

CONSTANTS
    None,
    Listings,
    Hashes,        \* document fingerprints
    Owner,         \* listing -> who registered it
    Validators,
    MaxBlocks, MaxAltered, MaxDocs, \* bounds: length of the chain; content numbers; documents of a listing
    Claims,        \* pincode, city and state as a listing gives them
    Malformed,     \* those whose pincode is no pincode
    Lookups,       \* calls to the directory that may be under way at a time
    PINCODE_TTL,   \* in steps of the clock
    MaxTime

VARIABLES
    blocks,        \* drunixChain
    listed,        \* properties
    checking,      \* registrations between the duplicate guard and the insertion
    filing,        \* documents on their way to the register
    register, railIntact,  \* the rail: documents of each listing, its own chain
    report,        \* the request for a report
    held, missed,  \* facts that were true, and false, at some moment while it was made (history)
    directory,     \* what the directory says of each claim
    now,
    pincodeCache,  \* claim -> verdict and when it was stored
    lookup,        \* the calls under way, and their results
    said           \* what the directory has said, when, of which claim (history)

vars == <<blocks, listed, checking, filing, register, railIntact, report, held, missed>>

Unlisted == [status |-> "none", validatedBy |-> None, hash |-> None]
NoReport == [pc |-> "idle"]
DRUNIX_GENESIS == [kind |-> "GENESIS", about |-> None, committed |-> 0, txns |-> 0, pristine |-> None]

Init ==
    /\ blocks = <<DRUNIX_GENESIS>>
    /\ listed \in [Listings -> {Unlisted} \cup [status : {"VALIDATED"}, validatedBy : {None}, hash : Hashes]]
    /\ checking = [l \in Listings |-> None] /\ filing = {}
    /\ register = [l \in Listings |-> <<>>] /\ railIntact = TRUE
    /\ report = NoReport /\ held = {} /\ missed = {}

Here(l) == listed[l].status # "none"
-----------------------------------------------------------------------------
(* The chain *)
drunixAppend(kind, l, n) ==
    /\ Len(blocks) < MaxBlocks
    /\ blocks' = Append(blocks, [kind |-> kind, about |-> l, committed |-> n, txns |-> n, pristine |-> None])

\* The lowest altered block, or None: hashes and links are those of the committed contents.
drunixVerify(bs) ==
    LET broken == {i \in DOMAIN bs : bs[i].txns # bs[i].committed} IN
    IF broken = {} THEN None ELSE CHOOSE i \in broken : \A j \in broken : i <= j

\* Amounts grow with every alteration; a block without one is only marked.
Altered(b) == IF b.kind = "TOKEN_TRANSFERRED" THEN b.txns + 1 ELSE MaxAltered
Saved_Last(b) == b.txns \* (mutant: the copy is taken again)
Saved(b) == IF b.pristine = None THEN b.txns ELSE b.pristine

\* POST /api/chain/tamper and /restore are let through for supervisors only.
Tamper(i) ==
    /\ blocks[i].kind # "GENESIS" /\ blocks[i].txns < MaxAltered
    /\ blocks' = [blocks EXCEPT ![i].txns = Altered(blocks[i]), ![i].pristine = Saved(blocks[i])]
    /\ UNCHANGED <<listed, checking, filing, register, railIntact, report>>
Restored(b) == IF b.pristine = None THEN b ELSE [b EXCEPT !.txns = b.pristine, !.pristine = None]
RestoreOne(i) ==
    /\ blocks[i].pristine # None /\ blocks' = [blocks EXCEPT ![i] = Restored(@)]
    /\ UNCHANGED <<listed, checking, filing, register, railIntact, report>>
RestoreAll ==
    /\ blocks' = [i \in DOMAIN blocks |-> Restored(blocks[i])]
    /\ UNCHANGED <<listed, checking, filing, register, railIntact, report>>
-----------------------------------------------------------------------------
(* Listings *)

\* POST /api/properties: the guard, the wait for the pincode, the insertion.
Guard(l, h) ==
    /\ ~Here(l) /\ checking[l] = None /\ \A k \in Listings : listed[k].hash # h
    /\ checking' = [checking EXCEPT ![l] = h]
    /\ UNCHANGED <<blocks, listed, filing, register, railIntact, report>>
Insert(l) ==
    /\ checking[l] # None /\ checking' = [checking EXCEPT ![l] = None]
    /\ listed' = [listed EXCEPT ![l] = [status |-> "PENDING", validatedBy |-> None, hash |-> checking[l]]]
    /\ drunixAppend("PROPERTY_REGISTERED", l, 0)
    /\ filing' = filing \cup {<<l, "TITLE_DEED">>}
    /\ UNCHANGED <<register, railIntact, report>>

\* A registrar other than the owner decides, and may decide again while it is a draft.
Validate(l, v, decision) ==
    /\ Here(l) /\ v # Owner[l]
    /\ listed' = [listed EXCEPT ![l].status = decision, ![l].validatedBy = v]
    /\ drunixAppend("PROPERTY_VALIDATED", l, 0)
    /\ filing' = filing \cup {<<l, "VALIDATION_CERTIFICATE">>}
    /\ UNCHANGED <<checking, register, railIntact, report>>
Transfer(l) ==
    /\ Here(l) /\ drunixAppend("TOKEN_TRANSFERRED", l, 1)
    /\ UNCHANGED <<listed, checking, filing, register, railIntact, report>>
-----------------------------------------------------------------------------
(* The rail: anchorDigestOnRail and certifyOnRail are called and not awaited. *)
Filed(f) ==
    /\ f \in filing /\ filing' = filing \ {f}
    /\ \/ Len(register[f[1]]) < MaxDocs /\ register' = [register EXCEPT ![f[1]] = Append(@, "ACTIVE")]
       \/ UNCHANGED register  \* refused, already there, or never reached
    /\ UNCHANGED <<blocks, listed, checking, railIntact, report>>
Withdraw(l, d, how) ==
    /\ register[l][d] = "ACTIVE" /\ register' = [register EXCEPT ![l][d] = how]
    /\ UNCHANGED <<blocks, listed, checking, filing, railIntact, report>>
RailBreaks ==
    /\ railIntact /\ railIntact' = FALSE
    /\ UNCHANGED <<blocks, listed, checking, filing, register, report>>
-----------------------------------------------------------------------------
(* The report *)
Ask(l) ==
    /\ report.pc = "idle" /\ Here(l)
    /\ report' = [pc |-> "railChainVerdict", on |-> l, chain |-> drunixVerify(blocks),
                  rail |-> None, validated |-> FALSE, independent |-> FALSE, unique |-> FALSE]
    /\ UNCHANGED <<blocks, listed, checking, filing, register, railIntact>>

\* An answer within three seconds, or null; the listing is read when it is in.
RailAnswers(answer) ==
    /\ report.pc = "railChainVerdict"
    /\ LET l == report.on  p == listed[l] IN
       report' = [report EXCEPT !.pc = "documentsForAsset", !.rail = answer,
           !.validated = p.status = "VALIDATED",
           !.independent = p.validatedBy \notin {None, Owner[l]},
           !.unique = \A k \in Listings \ {l} : listed[k].hash # p.hash]
    /\ UNCHANGED <<blocks, listed, checking, filing, register, railIntact>>

Active(docs) == "ACTIVE" \in ToSet(docs)
\* named is whether the listing has a validator when the documents are in.
Failed(r, named, docs) ==
    {c \in {"registrar", "independence", "documentRegister", "uniqueness", "chain"} :
        CASE c = "registrar" -> ~r.validated
          [] c = "independence" -> named /\ ~r.independent
          [] c = "documentRegister" -> docs \notin {None, <<>>} /\ ~Active(docs)
          [] c = "uniqueness" -> ~r.unique
          [] c = "chain" -> r.chain # None}
Unproven_FailuresOnly(r, named, docs) == {} \* (mutant: only failures are counted)
Unproven(r, named, docs) ==
    {c \in {"independence", "documentRegister", "chain"} \ Failed(r, named, docs) :
        CASE c = "independence" -> ~named /\ r.validated
          [] c = "documentRegister" -> docs \in {None, <<>>}
          [] c = "chain" -> r.rail = "broken"}

DocumentsAnswer(docs) ==
    /\ report.pc = "documentsForAsset"
    /\ LET named == listed[report.on].validatedBy # None IN
       report' = [pc |-> "answered", on |-> report.on, rail |-> report.rail,
                  failed |-> Failed(report, named, docs), unproven |-> Unproven(report, named, docs)]
    /\ UNCHANGED <<blocks, listed, checking, filing, register, railIntact>>
Read ==
    /\ report.pc = "answered" /\ report' = NoReport
    /\ UNCHANGED <<blocks, listed, checking, filing, register, railIntact>>

\* What each check is about, as it stands; and whether a validator is recorded.
Fact(c, l) ==
    CASE c = "registrar" -> listed[l].status = "VALIDATED"
      [] c = "independence" -> listed[l].validatedBy \notin {None, Owner[l]}
      [] c = "named" -> listed[l].validatedBy # None
      [] c = "documentRegister" -> Active(register[l])
      [] c = "uniqueness" -> \A k \in Listings \ {l} : listed[k].hash # listed[l].hash
      [] c = "chain" -> \A i \in DOMAIN blocks : blocks[i].txns = blocks[i].committed
Facts == {"registrar", "independence", "named", "documentRegister", "uniqueness", "chain"}
Holding == IF report.pc = "idle" THEN {} ELSE {c \in Facts : Fact(c, report.on)}
Failing == IF report.pc = "idle" THEN {} ELSE {c \in Facts : ~Fact(c, report.on)}
Remember ==
    /\ held' = IF report'.pc = "idle" THEN {} ELSE IF report.pc = "answered" THEN held ELSE held \cup Holding'
    /\ missed' = IF report'.pc = "idle" THEN {} ELSE IF report.pc = "answered" THEN missed ELSE missed \cup Failing'

Verdicts == {None, IF railIntact THEN "intact" ELSE "broken"}
Next ==
    /\ \/ \E i \in DOMAIN blocks : Tamper(i) \/ RestoreOne(i)
       \/ RestoreAll
       \/ \E l \in Listings :
            \/ \E h \in Hashes : Guard(l, h)
            \/ Insert(l) \/ Transfer(l) \/ Ask(l)
            \/ \E v \in Validators, d \in {"VALIDATED", "REJECTED"} : Validate(l, v, d)
            \/ \E d \in DOMAIN register[l], how \in {"REVOKED", "SUPERSEDED"} : Withdraw(l, d, how)
       \/ \E f \in filing : Filed(f)
       \/ RailBreaks \/ Read
       \/ \E a \in Verdicts : RailAnswers(a)
       \/ report.pc = "documentsForAsset" /\ \E docs \in {None, register[report.on]} : DocumentsAnswer(docs)
    /\ Remember
-----------------------------------------------------------------------------
\* A report that says every check passed names nothing that was not so at
\* some moment while it was being made, and was not told that the rail's
\* chain is broken; a check it reports as failed did fail at some moment.
\* Nothing ties the moments together: the chain is verified seconds before
\* the documents are read.  "The owner validated their own property" is never
\* so, and is said only of a listing that got its validator while the report
\* was being made.
ReportIsTrue ==
    report.pc = "answered" =>
        /\ report.failed = {} /\ report.unproven = {} => Facts \subseteq held /\ report.rail # "broken"
        /\ report.failed \subseteq missed
        /\ "independence" \in report.failed => "named" \in held \cap missed
        /\ listed[report.on].validatedBy # Owner[report.on]

\* However often a block is altered, restoring it brings back what was
\* committed, and a block without a copy is as it was committed.
TamperingIsUndone ==
    \A i \in DOMAIN blocks : LET b == blocks[i] IN
        (IF b.pristine = None THEN b.txns ELSE b.pristine) = b.committed

ReportsCanBeTrusted == ReportIsTrue /\ TamperingIsUndone
-----------------------------------------------------------------------------
(* verifyPincode: is there a post office at the pincode of a listing, and  *)
(* in its city?  The India Post directory answers, slowly or not at all;   *)
(* what it says is kept for a day, per process.  A listing never waits for *)
(* more than the three seconds, and never fails for it.                    *)
pincodeVars == <<directory, now, pincodeCache, lookup, said>>

AddressVerdicts == {"VERIFIED", "MISMATCH", "NOT_FOUND"}
Unasked == [pc |-> "free"]
NotKept == [status |-> "none", storedAt |-> 0]

PincodeInit ==
    /\ directory \in [Claims -> AddressVerdicts] /\ now = 0
    /\ pincodeCache = [c \in Claims |-> NotKept] /\ lookup = [k \in Lookups |-> Unasked] /\ said = {}

Result(c, status, fresh) == [pc |-> "done", claim |-> c, status |-> status, fresh |-> fresh, at |-> now]
Hit(c) == pincodeCache[c].status # "none" /\ now - pincodeCache[c].storedAt < PINCODE_TTL

verifyPincode(k, c) ==
    /\ lookup[k] = Unasked /\ UNCHANGED <<directory, now, pincodeCache, said>>
    /\ lookup' = [lookup EXCEPT ![k] =
           IF c \in Malformed THEN Result(c, "MALFORMED", FALSE)
           ELSE IF Hit(c) THEN Result(c, pincodeCache[c].status, FALSE)
           ELSE [pc |-> "fetch", claim |-> c]]

\* The directory speaks, and what it said arrives later, if within three seconds.
DirectorySays(k) ==
    /\ lookup[k].pc = "fetch" /\ UNCHANGED <<directory, now, pincodeCache>>
    /\ lookup' = [lookup EXCEPT ![k] = [pc |-> "answered", claim |-> @.claim, status |-> directory[@.claim]]]
    /\ said' = said \cup {<<lookup[k].claim, directory[lookup[k].claim], now>>}
Arrives(k) ==
    /\ lookup[k].pc = "answered" /\ UNCHANGED <<directory, now, said>>
    /\ LET c == lookup[k].claim IN
       /\ pincodeCache' = [pincodeCache EXCEPT ![c] = [status |-> lookup[k].status, storedAt |-> now]]
       /\ lookup' = [lookup EXCEPT ![k] = Result(c, lookup[k].status, TRUE)]

\* A refusal, a timeout, no network: nothing is kept of it.
KeptOnFailure_Unchecked(c) == [pincodeCache EXCEPT ![c] = [status |-> "UNCHECKED", storedAt |-> now]] \* (mutant: failures are kept too)
KeptOnFailure(c) == pincodeCache
Fails(k) ==
    /\ lookup[k].pc \in {"fetch", "answered"} /\ UNCHANGED <<directory, now, said>>
    /\ pincodeCache' = KeptOnFailure(lookup[k].claim) /\ lookup' = [lookup EXCEPT ![k] = Result(@.claim, "UNCHECKED", TRUE)]
Use(k) == lookup[k].pc = "done" /\ lookup' = [lookup EXCEPT ![k] = Unasked] /\ UNCHANGED <<directory, now, pincodeCache, said>>

Moves(c, v) == directory[c] # v /\ directory' = [directory EXCEPT ![c] = v] /\ UNCHANGED <<now, pincodeCache, lookup, said>>
\* A step of the clock is longer than three seconds: no call lasts over two.
Tick ==
    /\ now < MaxTime /\ now' = now + 1 /\ \A k \in Lookups : lookup[k].pc # "answered"
    /\ UNCHANGED <<directory, pincodeCache, lookup, said>>

PincodeNext ==
    \/ \E k \in Lookups : DirectorySays(k) \/ Arrives(k) \/ Fails(k) \/ Use(k) \/ \E c \in Claims : verifyPincode(k, c)
    \/ Tick \/ \E c \in Claims, v \in AddressVerdicts : Moves(c, v)

\* A verdict is one the directory gave of that claim less than a day before,
\* whichever call brought it in; what is kept is what the directory said;
\* "not checked" is said only by a call that itself failed.
AddressChecksAreTrue ==
    /\ \A k \in Lookups : lookup[k].pc = "done" =>
        /\ lookup[k].status \in AddressVerdicts =>
             \E s \in said : s[1] = lookup[k].claim /\ s[2] = lookup[k].status /\ lookup[k].at - s[3] < PINCODE_TTL
        /\ lookup[k].status = "UNCHECKED" => lookup[k].fresh
    /\ \A c \in Claims : pincodeCache[c].status # "none" => <<c, pincodeCache[c].status, pincodeCache[c].storedAt>> \in said
=============================================================================
