----------------------------- MODULE FrontDoor -----------------------------
(***************************************************************************)
(* The life of a request in the serverless API's handler: state restored,  *)
(* headers, the response instrumented, the gates, the route, and the catch *)
(* around it all.  Requests of one instance overlap wherever one awaits,   *)
(* and share the log of failures an operator looks a request id up in.     *)
(*                                                                         *)
(* And, apart from it, what passes through to the Go rail and back:        *)
(* /api/umi/* and /api/drunix/* of both servers, and the local server's    *)
(* event stream, metrics and document fetch.  An answer of the rail is a   *)
(* status and a body of some kind; what arrives is that body untouched,    *)
(* shortened (scrubEndpointSecrets), decoded as text when it was not, or   *)
(* replaced by an error envelope.  Who the rail is told is asking is in    *)
(* Reception.                                                              *)
(***************************************************************************)
EXTENDS Naturals, SequencesExt, FiniteSetsExt

CONSTANTS
    Callers,        \* requests under way at once
    DIAG_MAX,       \* entries kept
    MaxRequests,    \* bound
    MaxChunks       \* of an event stream
VARIABLES
    diag,           \* the instance's log: errors, newest first, counts by code, total
    request,        \* of each caller
    issued,         \* request ids given out
    recorded,       \* all that was ever recorded, in order
    looked,         \* what the last look into the log showed, with what was recorded by then
    site,           \* which server; whether the gateway's address is set
    passing,        \* the request on its way: route, what the rail made of it, or idle
    given,          \* what the caller got
    stream          \* one event stream of the local server

doorVars == <<diag, request, issued, recorded, looked>>

Codes == {"ERR_UNAUTHORIZED", "ERR_NOT_FOUND", "ERR_UNHANDLED"}
\* What becomes of a request: a preflight, a malformed address, refused at a
\* gate, answered well, failing at once or after an await, throwing at once or
\* after an await, ended without a body, a look at the summary or at one id.
Kinds == {"preflight", "malformed", "refused", "fine", "fails", "failsLate", "throws", "throwsLate", "ends", "summary", "lookup"}
Free == [pc |-> "free"]
Nobody == [of |-> 0]

\* diagStore: made on first use.
DoorInit ==
    /\ diag = [errors |-> <<>>, counts |-> [c \in Codes |-> 0], total |-> 0]
    /\ request = [c \in Callers |-> Free] /\ issued = 0 /\ recorded = <<>> /\ looked = Nobody

Truncated_Newest(s) == IF Len(s) > DIAG_MAX THEN Tail(s) ELSE s \* (mutant: drops the newest)
Truncated(s) == IF Len(s) > DIAG_MAX THEN SubSeq(s, 1, DIAG_MAX) ELSE s
recordDiag(d, entry) ==
    [errors |-> Truncated(<<entry>> \o d.errors), counts |-> [d.counts EXCEPT ![entry.code] = @ + 1], total |-> d.total + 1]
-----------------------------------------------------------------------------
\* newRequestId, the headers, then initState is awaited.
Arrive(c, kind, id) ==
    /\ request[c] = Free /\ issued < MaxRequests /\ issued' = issued + 1
    /\ request' = [request EXCEPT ![c] = [pc |-> "restoring", id |-> issued + 1, kind |-> kind, about |-> id, total |-> 0, held |-> 0]]
    /\ UNCHANGED <<diag, recorded, looked>>

Answered(c, failed) == request' = [request EXCEPT ![c] = [@ EXCEPT !.pc = IF failed THEN "failed" ELSE "ok"]]
\* An instrumented answer of 400 or more is recorded for its request, by json
\* and not again by the send that json goes through.
captured_Twice(e) == <<e, e>> \* (mutant: no flag of its own)
captured(e) == <<e>>
Record(entries) == diag' = FoldSeq(LAMBDA e, d : recordDiag(d, e), diag, entries) /\ recorded' = recorded \o entries
Fail(c, code) == Record(captured([id |-> request[c].id, code |-> code])) /\ Answered(c, TRUE)
\* The outer catch records the throw and then answers 500, which is captured
\* in its turn when the response is already instrumented.
Throw(c, instrumented) ==
    LET e == [id |-> request[c].id, code |-> "ERR_UNHANDLED"] IN
    Record(IF instrumented THEN <<e>> \o captured(e) ELSE <<e>>) /\ Answered(c, TRUE)
Fine(c) == Answered(c, FALSE) /\ UNCHANGED <<diag, recorded>>
Await(c) ==
    /\ request' = [request EXCEPT ![c] = [@ EXCEPT !.pc = "awaiting", !.total = diag.total, !.held = Len(diag.errors)]]
    /\ UNCHANGED <<diag, recorded>>

\* From the restored state to the route's answer or its first await.  The
\* summary has read the total and the entries by then, the counts not.
Route(c) ==
    /\ request[c].pc = "restoring"
    /\ LET k == request[c].kind IN
       CASE k \in {"preflight", "fine", "ends"} -> Fine(c)
         [] k = "malformed" -> Throw(c, FALSE)
         [] k = "refused" -> Fail(c, "ERR_UNAUTHORIZED")
         [] k = "fails" -> Fail(c, "ERR_NOT_FOUND")
         [] k = "throws" -> Throw(c, TRUE)
         [] k \in {"failsLate", "throwsLate", "summary"} -> Await(c)
         [] k = "lookup" -> Fine(c)
    /\ looked' = IF request[c].kind # "lookup" THEN looked ELSE
           [of |-> request[c].about, found |-> SelectSeq(diag.errors, LAMBDA e : e.id = request[c].about), by |-> Len(recorded)]
    /\ UNCHANGED issued
Finish(c) ==
    /\ request[c].pc = "awaiting"
    /\ LET k == request[c].kind IN
       CASE k = "failsLate" -> Fail(c, "ERR_NOT_FOUND")
         [] k = "throwsLate" -> Throw(c, TRUE)
         [] k = "summary" -> Fine(c)
    /\ looked' = IF request[c].kind # "summary" THEN looked ELSE
           [of |-> 0, total |-> request[c].total, held |-> request[c].held, byCode |-> diag.counts]
    /\ UNCHANGED issued
Leave(c) == request[c].pc \in {"ok", "failed"} /\ request' = [request EXCEPT ![c] = Free] /\ UNCHANGED <<diag, issued, recorded, looked>>

DoorNext ==
    \E c \in Callers :
        \/ \E k \in Kinds \ {"lookup"} : Arrive(c, k, 0)
        \/ \E id \in 1..issued : Arrive(c, "lookup", id)
        \/ Route(c) \/ Finish(c) \/ Leave(c)
-----------------------------------------------------------------------------
SumCounts(f) == MapThenSumSet(LAMBDA x : f[x], Codes)
Entries(id) == {i \in DOMAIN recorded : recorded[i].id = id}

\* A failed answer's request id is a lookup key: every failure a caller was
\* told of is in the record under its own id, once or, after a throw, twice;
\* the log holds the newest DIAG_MAX records; a look for an id finds all of
\* them that are not older than that; the totals are those of the record.
FailuresAreFound ==
    /\ \A c \in Callers : request[c].pc = "failed" =>
          Cardinality(Entries(request[c].id)) = (IF request[c].kind \in {"throws", "throwsLate"} THEN 2 ELSE 1)
    /\ \A c \in Callers : request[c].pc = "ok" => Entries(request[c].id) = {}
    /\ Len(diag.errors) = (IF Len(recorded) < DIAG_MAX THEN Len(recorded) ELSE DIAG_MAX)
    /\ \A i \in DOMAIN diag.errors : diag.errors[i] = recorded[Len(recorded) + 1 - i]
    /\ diag.total = Len(recorded) /\ SumCounts(diag.counts) = diag.total
    /\ looked.of # 0 => Len(looked.found) = Cardinality({i \in Entries(looked.of) : i <= looked.by /\ i > looked.by - DIAG_MAX})
    /\ looked.of = 0 /\ looked # Nobody => looked.held <= looked.total /\ looked.total <= SumCounts(looked.byCode)
-----------------------------------------------------------------------------
(* The proxies *)
proxyVars == <<site, passing, given, stream>>

Routes == {"umi/config", "umi/credentials", "umi/documents/fetch", "umi/metrics", "drunix/chain"}
\* Bodies: JSON, JSON with a provider's address in it, text, bytes that are no text.
Bodies == {"json", "address", "text", "bytes"}
IsJson(body) == body \in {"json", "address"}
\* A route the rail serves, one it does not know, a refusal, a plain-text failure.
RailAnswers(route) ==
    {[status |-> 200, body |-> b] : b \in CASE route = "umi/metrics" -> {"text"}
                                           [] route = "umi/documents/fetch" -> Bodies
                                           [] OTHER -> {"json", "address"}}
    \cup {[status |-> 404, body |-> "text"], [status |-> 403, body |-> "json"], [status |-> 500, body |-> "text"]}

Idle == [route |-> "none", done |-> FALSE]
NoAnswer == [status |-> 0]
NoStream == [pc |-> "none", client |-> "here", sent |-> 0, got |-> <<>>, closed |-> FALSE, early |-> FALSE]

ProxyInit ==
    /\ site \in [server : {"api", "mock"}, base : BOOLEAN] /\ (site.server = "mock" => site.base)
    /\ passing = Idle /\ given = NoAnswer /\ stream = NoStream
-----------------------------------------------------------------------------
Own(error, status) == [status |-> status, body |-> error, bytes |-> "own"]

Ask(route) ==
    /\ passing = Idle /\ given = NoAnswer /\ UNCHANGED <<site, stream>>
    /\ IF ~site.base THEN given' = Own("ERR_UNAVAILABLE", 503) /\ UNCHANGED passing
       ELSE /\ passing' = [route |-> route, rail |-> NoAnswer, done |-> FALSE]
            /\ UNCHANGED given
RailHears(answer) ==
    /\ passing # Idle /\ ~passing.done /\ passing.rail = NoAnswer /\ passing' = [passing EXCEPT !.rail = answer]
    /\ UNCHANGED <<site, given, stream>>

signedPayload_Never(route) == FALSE \* (mutant: every body is shortened)
signedPayload(route) == route = "umi/credentials"
scrubEndpointSecrets(route, body) == IF body = "address" /\ ~signedPayload(route) THEN "shortened" ELSE "whole"
AsText(body) == IF body = "bytes" THEN "decoded" ELSE "whole"

Wrapped(r) == Own(IF r.status = 404 THEN "ERR_DRUNIX_ROUTE_UNKNOWN" ELSE "ERR_DRUNIX_BAD_RESPONSE", IF r.status = 404 THEN 502 ELSE r.status)
Passed(r, bytes) == [status |-> r.status, body |-> r.body, bytes |-> bytes]

UmiAnswer(route, r) ==
    CASE ~IsJson(r.body) /\ r.status < 400 -> Passed(r, AsText(r.body))
      [] ~IsJson(r.body) /\ r.status >= 400 -> Wrapped(r)
      [] OTHER -> Passed(r, IF site.server = "api" THEN scrubEndpointSecrets(route, r.body) ELSE "whole")
\* The API's drunix proxy calls whatever it got JSON; the local server's wraps as umiProxy does.
DrunixAnswer(route, r) ==
    IF site.server = "api" THEN Passed(r, AsText(r.body)) ELSE UmiAnswer(route, r)
\* The local server has routes of its own for bytes and for metrics.
Untouched(r) == Passed(r, "whole")

Relay ==
    /\ passing # Idle /\ ~passing.done /\ passing.rail # NoAnswer /\ UNCHANGED <<site, stream>>
    /\ given' = CASE site.server = "mock" /\ passing.route \in {"umi/metrics", "umi/documents/fetch"} -> Untouched(passing.rail)
                  [] passing.route = "drunix/chain" -> DrunixAnswer(passing.route, passing.rail)
                  [] OTHER -> UmiAnswer(passing.route, passing.rail)
    /\ passing' = [passing EXCEPT !.done = TRUE]
\* Nothing there, or (on the local server) no headers within eight seconds.
Unreachable ==
    /\ passing # Idle /\ ~passing.done /\ given' = Own("ERR_UNAVAILABLE", 503)
    /\ passing' = [passing EXCEPT !.done = TRUE, !.rail = NoAnswer] /\ UNCHANGED <<site, stream>>
Done == given # NoAnswer /\ given' = NoAnswer /\ passing' = Idle /\ UNCHANGED <<site, stream>>
-----------------------------------------------------------------------------
(* GET /api/umi/events: the rail's stream, copied chunk by chunk. *)
Open ==
    /\ site.server = "mock" /\ stream = NoStream /\ stream' = [stream EXCEPT !.pc = "asked"]
    /\ UNCHANGED <<site, passing, given>>
StreamFails == stream.pc = "asked" /\ stream' = [stream EXCEPT !.pc = "refused"] /\ UNCHANGED <<site, passing, given>>
\* The handler for the client's leaving is set once the rail has answered:
\* of a client that has left by then nothing is heard.
StreamAnswered ==
    /\ stream.pc = "asked" /\ stream' = [stream EXCEPT !.pc = "reading", !.early = stream.client = "gone"]
    /\ UNCHANGED <<site, passing, given>>
RailWrites ==
    /\ stream.pc = "reading" /\ stream.sent < MaxChunks /\ stream' = [stream EXCEPT !.sent = @ + 1]
    /\ UNCHANGED <<site, passing, given>>
Copy ==
    /\ stream.pc = "reading" /\ ~stream.closed /\ Len(stream.got) < stream.sent
    /\ stream' = [stream EXCEPT !.got = Append(@, Len(stream.got) + 1)]
    /\ UNCHANGED <<site, passing, given>>
ClientLeaves ==
    /\ stream.pc # "none" /\ stream.client = "here"
    /\ stream' = [stream EXCEPT !.client = "gone", !.closed = stream.pc = "reading", !.pc = IF @ = "reading" THEN "cancelled" ELSE @]
    /\ UNCHANGED <<site, passing, given>>
RailEnds ==
    /\ stream.pc = "reading" /\ Len(stream.got) = stream.sent /\ stream' = [stream EXCEPT !.pc = "ended"]
    /\ UNCHANGED <<site, passing, given>>

ProxyNext ==
    \/ \E route \in Routes : Ask(route)
    \/ passing # Idle /\ ~passing.done /\ \E a \in RailAnswers(passing.route) : RailHears(a)
    \/ Relay \/ Unreachable \/ Done
    \/ Open \/ StreamFails \/ StreamAnswered \/ RailWrites \/ Copy \/ ClientLeaves \/ RailEnds
-----------------------------------------------------------------------------
\* A failure is never told as a success and a good answer is never replaced.
\* What the rail says with success arrives whole: the bytes of a credential
\* as they were signed, whatever addresses they hold; elsewhere the API
\* shortens addresses, and reads as text what may be none.
AnswersAreTheRails ==
    given # NoAnswer /\ passing # Idle =>
        LET r == passing.rail IN
        /\ given.status < 400 <=> r # NoAnswer /\ r.status < 400
        /\ r # NoAnswer /\ r.status < 400 => given.body = r.body
        /\ given.bytes = "shortened" => site.server = "api" /\ r.body = "address" /\ passing.route # "umi/credentials"
        /\ given.bytes = "decoded" => site.server = "api" /\ r.body = "bytes"

\* The events of a stream are copied in order and none is left out; nothing
\* is read for a client that is gone, unless it left before the rail answered.
StreamIsCopied ==
    /\ stream.got = [n \in 1..Len(stream.got) |-> n]
    /\ stream.pc = "ended" => Len(stream.got) = stream.sent
    /\ stream.pc = "reading" /\ stream.client = "gone" => stream.early

RailIsRelayed == AnswersAreTheRails /\ StreamIsCopied
=============================================================================
