----------------------------- MODULE SigningKeys -----------------------------
(***************************************************************************)
(* The identity provider's signing keys as one instance of the serverless  *)
(* API knows them (frontend/api/lib/clerkjwt.mjs, primed at the top of     *)
(* handler in frontend/api/index.js).  Every request makes sure there are  *)
(* keys and, when its token was signed with a key it has not seen, asks    *)
(* for them again; a fetch under way is shared.  The verdict is then given *)
(* from the cache.  The provider rotates its keys at any time, never using *)
(* a key id twice, and its key set may be unreachable, when the keys of    *)
(* before stay.                                                            *)
(***************************************************************************)
EXTENDS Naturals, FiniteSets

CONSTANTS
    Kids,           \* key ids
    Calls,          \* requests in flight on the instance
    MaxRotations,   \* bound: keys published or retired
    MaxOutages      \* bound: failed fetches

VARIABLES
    published, retired,  \* the provider's key set; the keys it has given up
    cache, stale,\* keys; whether REFRESH_MS have passed since they were fetched
    inflight,    \* the fetch under way, with the keys it will bring once served
    call,        \* requests: where they are, and what was true meanwhile (history)
    rotations, outages

vars == <<published, retired, cache, stale, inflight, call, rotations, outages>>

NoFetch == [on |-> FALSE, served |-> FALSE, keys |-> {}]
NoCall == [pc |-> "idle"]

Init ==
    /\ published \in SUBSET Kids \ {{}} /\ retired = {}
    /\ cache = {} /\ stale = TRUE /\ inflight = NoFetch
    /\ call = [c \in Calls |-> NoCall]
    /\ rotations = 0 /\ outages = 0

\* The provider publishes a key or retires one; requests see it happen.
Seen(k) == call' = [c \in Calls |-> IF call[c].pc = "idle" \/ call[c].kid # k THEN call[c]
                                    ELSE [call[c] EXCEPT !.always = FALSE, !.ever = TRUE]]
Publish(k) ==
    /\ rotations < MaxRotations /\ rotations' = rotations + 1
    /\ k \notin published \cup retired /\ published' = published \cup {k}
    /\ Seen(k) /\ UNCHANGED <<retired, cache, stale, inflight, outages>>
Retire(k) ==
    /\ rotations < MaxRotations /\ rotations' = rotations + 1
    /\ k \in published /\ published # {k}
    /\ published' = published \ {k} /\ retired' = retired \cup {k}
    /\ Seen(k) /\ UNCHANGED <<cache, stale, inflight, outages>>

Age == ~stale /\ stale' = TRUE /\ UNCHANGED <<published, retired, cache, inflight, call, rotations, outages>>

\* A request with a token signed by kid; keys are ensured first.
Arrive(c, k) ==
    /\ call[c].pc = "idle"
    /\ call' = [call EXCEPT ![c] = 
        [pc |-> "ensure", kid |-> k, always |-> k \in published, ever |-> k \in published, own |-> "none", ok |-> FALSE]]
    /\ UNCHANGED <<published, retired, cache, stale, inflight, rotations, outages>>

\* ensureClerkKeys: nothing to do, a fetch to join, or a fetch of its own.
Wait(c, next) ==
    \/ inflight.on /\ call' = [call EXCEPT ![c].pc = next, ![c].own = "joined"] /\ UNCHANGED inflight
    \/ ~inflight.on /\ inflight' = [NoFetch EXCEPT !.on = TRUE]
       /\ call' = [call EXCEPT ![c].pc = next, ![c].own = "started"]
Fresh == ~stale /\ cache # {}

Ensure(c) ==
    /\ call[c].pc = "ensure"
    /\ IF Fresh THEN call' = [call EXCEPT ![c].pc = "look"] /\ UNCHANGED inflight ELSE Wait(c, "first")
    /\ UNCHANGED <<published, retired, cache, stale, rotations, outages>>

hasUnknownKid_Aged(c) == call[c].kid \notin cache /\ stale \* (mutant: unknown keys wait for the next refresh)
hasUnknownKid(c) == call[c].kid \notin cache

Look(c) ==
    /\ call[c].pc = "look"
    /\ IF hasUnknownKid(c) THEN Wait(c, "second")
       ELSE call' = [call EXCEPT ![c].pc = "verify"] /\ UNCHANGED inflight
    /\ UNCHANGED <<published, retired, cache, stale, rotations, outages>>

\* verifyClerkJWT: the signature is checked with the key the cache has.
Verify(c) ==
    /\ call[c].pc = "verify"
    /\ call' = [call EXCEPT ![c].pc = "answered", ![c].ok = call[c].kid \in cache]
    /\ UNCHANGED <<published, retired, cache, stale, inflight, rotations, outages>>
Leave(c) ==
    /\ call[c].pc = "answered" /\ call' = [call EXCEPT ![c] = NoCall]
    /\ UNCHANGED <<published, retired, cache, stale, inflight, rotations, outages>>

\* The provider answers with the keys of that moment; the answer arrives, or never does.
Serve ==
    /\ inflight.on /\ ~inflight.served
    /\ inflight' = [inflight EXCEPT !.served = TRUE, !.keys = published]
    /\ UNCHANGED <<published, retired, cache, stale, call, rotations, outages>>
After(pc) == IF pc = "first" THEN "look" ELSE IF pc = "second" THEN "verify" ELSE pc
Resume(how) == call' = [c \in Calls |-> IF call[c].pc = "idle" THEN call[c] ELSE
    [call[c] EXCEPT !.pc = After(@), !.own = IF call[c].pc \in {"first", "second"} /\ @ = "started" THEN how ELSE @]]

\* fetchKeys replaces the whole set.
Taken_Kept(keys) == keys \cup cache \* (mutant: old keys are kept beside the new)
Taken(keys) == keys
Fetched ==
    /\ inflight.served
    /\ cache' = Taken(inflight.keys) /\ stale' = FALSE /\ inflight' = NoFetch
    /\ Resume("fetched")
    /\ UNCHANGED <<published, retired, rotations, outages>>
FetchFails ==
    /\ inflight.on /\ outages < MaxOutages /\ outages' = outages + 1
    /\ inflight' = NoFetch /\ Resume("failed")
    /\ UNCHANGED <<published, retired, cache, stale, rotations>>

Next ==
    \/ \E k \in Kids : Publish(k) \/ Retire(k)
    \/ Age \/ Serve \/ Fetched \/ FetchFails
    \/ \E c \in Calls : \/ \E k \in Kids : Arrive(c, k)
                        \/ Ensure(c) \/ Look(c) \/ Verify(c) \/ Leave(c)
-----------------------------------------------------------------------------
\* A request whose own fetch came through knows the keys of its time: one
\* that was published all along is accepted, one that was never published
\* while it ran is not.  A request whose key set is there and recent asks
\* again before it refuses, so what else is refused had joined an older
\* fetch, or its own had failed ("that is how key rotation is picked up
\* without a redeploy", index.js).
RotationIsSeen ==
    \A c \in Calls : call[c].pc = "answered" =>
        /\ call[c].own = "fetched" => (call[c].always => call[c].ok) /\ (call[c].ok => call[c].ever)
        /\ call[c].always /\ ~call[c].ok => call[c].own \in {"joined", "failed"}
=============================================================================
