----------------------------- MODULE ApiClient -----------------------------
(***************************************************************************)
(* The web app's ApiClient (lib/api.js): concurrent reads of a path share  *)
(* one request, a read inside TTL_MS is answered from memory, any write    *)
(* empties that memory when it ends, a read whose connection fails is sent *)
(* once more and a write never is.  One path is enough: paths share only   *)
(* invalidate().                                                           *)
(***************************************************************************)
EXTENDS Naturals, FiniteSets

CONSTANTS
    None,
    Screens,         \* components that ask, one call each at a time
    TTL_MS, MaxTime,
    MaxWrites, MaxFaults

VARIABLES
    version,         \* of what the server holds: the writes it has carried out
    cache, inflight, \* the memo of the path, and the screen whose read is shared
    request,         \* screen -> the request it sent
    waits,           \* screen -> the screen whose request it waits for
    handed,          \* the last answer a screen was given
    time, finished,   \* time; writes this client has seen end (history)
    pressed, lost    \* writes asked for; connections lost

apiVars == <<version, cache, inflight, request, waits, handed, time, finished, pressed, lost>>

Quiet == [pc |-> "none"]
ApiInit ==
    /\ version = 0 /\ cache = None /\ inflight = None /\ request = [s \in Screens |-> Quiet]
    /\ waits = [s \in Screens |-> None] /\ handed = None /\ time = 0 /\ finished = 0 /\ pressed = 0 /\ lost = 0

Free(s) == waits[s] = None /\ request[s].pc = "none" /\ handed = None
Sends(s, method) ==
    /\ request' = [request EXCEPT ![s] = [pc |-> "out", method |-> method, tries |-> 1, sent |-> finished, data |-> 0]]
    /\ waits' = [waits EXCEPT ![s] = s]

\* request() for a read: the memo, the read in flight, or a read of one's own;
\* { fresh: true } skips both.
Remembered == IF cache = None THEN FALSE ELSE time - cache.at < TTL_MS
Recalled(s) ==
    /\ Remembered /\ UNCHANGED <<inflight, request, waits>>
    /\ handed' = [screen |-> s, asked |-> finished, data |-> cache.data, sent |-> cache.sent, ended |-> cache.ended,
                  age |-> time - cache.at, memo |-> TRUE]
Joined(s) == ~Remembered /\ inflight # None /\ waits' = [waits EXCEPT ![s] = inflight] /\ UNCHANGED <<inflight, request, handed>>
Get(s, fresh) ==
    /\ Free(s) /\ UNCHANGED <<version, cache, time, finished, pressed, lost>>
    /\ \/ ~fresh /\ (Recalled(s) \/ Joined(s))
       \/ (fresh \/ (~Remembered /\ inflight = None)) /\ Sends(s, "GET") /\ inflight' = s /\ UNCHANGED handed
Put(s) ==
    /\ Free(s) /\ pressed < MaxWrites /\ pressed' = pressed + 1 /\ Sends(s, "POST")
    /\ UNCHANGED <<version, cache, inflight, handed, time, finished, lost>>

----------------------------------------------------------------------------
\* The server carries a request out; its answer is still on the way.
Serve(s) ==
    /\ request[s].pc = "out" /\ version' = IF request[s].method = "POST" THEN version + 1 ELSE version
    /\ request' = [request EXCEPT ![s].pc = "answered", ![s].data = version']
    /\ UNCHANGED <<cache, inflight, waits, handed, time, finished, pressed, lost>>

Dropped == None  \* _inflight.delete(path), whoever's read is there
Ends(s) == request' = [request EXCEPT ![s] = Quiet] /\ waits' = [t \in Screens |-> IF waits[t] = s THEN None ELSE waits[t]]

\* A read's answer fills the memo, whatever has been written since it was sent.
Answered(s) ==
    /\ request[s].pc = "answered" /\ request[s].method = "GET" /\ handed = None /\ Ends(s)
    /\ LET k == request[s] IN
       /\ cache' = [at |-> time, data |-> k.data, sent |-> k.sent, ended |-> finished]
       /\ handed' = [screen |-> s, asked |-> k.sent, data |-> k.data, sent |-> k.sent, ended |-> finished, age |-> 0, memo |-> FALSE]
    /\ inflight' = Dropped /\ UNCHANGED <<version, time, finished, pressed, lost>>

invalidate_Kept == cache \* (mutant: a write leaves the memo as it is)
invalidate == None
WriteEnds(s) ==
    /\ cache' = invalidate /\ finished' = (IF request[s].data > finished THEN request[s].data ELSE finished)
    /\ Ends(s) /\ UNCHANGED <<version, inflight, handed, time, pressed>>
Written(s) == request[s].pc = "answered" /\ request[s].method = "POST" /\ WriteEnds(s) /\ UNCHANGED lost

RetriedOnce_Always(k) == k.tries = 1 \* (mutant: writes are sent again too)
RetriedOnce(k) == k.method = "GET" /\ k.tries = 1
\* The connection fails, or 35 seconds pass, before or after the server acted.
Lost(s) ==
    /\ request[s].pc \in {"out", "answered"} /\ lost < MaxFaults /\ lost' = lost + 1
    /\ \/ /\ RetriedOnce(request[s])
          /\ request' = [request EXCEPT ![s] = [@ EXCEPT !.pc = "out", !.tries = 2]]
          /\ UNCHANGED <<version, cache, inflight, waits, handed, time, finished, pressed>>
       \/ ~RetriedOnce(request[s]) /\ request[s].method = "POST" /\ cache' = invalidate /\ Ends(s)
          /\ UNCHANGED <<version, inflight, handed, time, finished, pressed>>
       \/ ~RetriedOnce(request[s]) /\ request[s].method = "GET" /\ inflight' = Dropped /\ Ends(s)
          /\ UNCHANGED <<version, cache, handed, time, finished, pressed>>

Look == handed # None /\ handed' = None /\ UNCHANGED <<version, cache, inflight, request, waits, time, finished, pressed, lost>>
Tick == time < MaxTime /\ time' = time + 1 /\ UNCHANGED <<version, cache, inflight, request, waits, handed, finished, pressed, lost>>

ApiNext ==
    \/ Look \/ Tick
    \/ \E s \in Screens : Put(s) \/ Serve(s) \/ Answered(s) \/ Written(s) \/ Lost(s) \/ \E fresh \in BOOLEAN : Get(s, fresh)

----------------------------------------------------------------------------
\* An answer from memory was received since this client's last write ended, and
\* within TTL_MS; any answer shows every write that had ended when its read was
\* sent; and a press of a button changes the server at most once, whatever the
\* connection does.  (request, invalidate, _perform)
MemoryIsFresh ==
    /\ handed # None =>
        /\ handed.memo => handed.ended >= handed.asked /\ handed.age < TTL_MS
        /\ handed.data >= handed.sent
    /\ version <= pressed
=============================================================================
