----------------------------- MODULE LivePages -----------------------------
(***************************************************************************)
(* The two parts of the web app that follow the rail's chain: the ledger   *)
(* explorer and the notification bell, both fed by useLedgerStream, which  *)
(* falls back to polling.  Reads of the chain share one request; its memo  *)
(* is ApiClient's.                                                         *)
(***************************************************************************)
EXTENDS Naturals, Sequences, SequencesExt, FiniteSets

CONSTANTS None, People, Window, MaxHeight, MaxErrors

VARIABLES
    height, refusing,   \* the rail: its blocks are 0..height-1; who it refuses
    es, mode, pollTimer, fallbackTimer, stopped,    \* the hook
    chain, oldest, kept, \* the page's list, newest first; how far back; sessionStorage
    loading, older,     \* reads of the newest window, and of older blocks
    seen, crossed,      \* something was on the page; a reload overtook older blocks (history)
    me, deniedFor, items, bell,     \* the bell: who, whom not to ask for, whose items, whom it asks for
    switched, refused,  \* me changed while the bell waited; me was refused (history)
    errors

railVars == <<height, refusing>>
hookVars == <<es, mode, pollTimer, fallbackTimer, stopped>>
pageVars == <<chain, oldest, kept, loading, older, seen, crossed>>
bellVars == <<me, deniedFor, items, bell, switched, refused>>
liveVars == <<height, refusing, es, mode, pollTimer, fallbackTimer, stopped, chain, oldest, kept, loading, older, seen, crossed,
              me, deniedFor, items, bell, switched, refused, errors>>

From(h) == IF h > Window THEN h - Window ELSE 0
Blocks(lo, hi) == [i \in 1..(hi - lo) |-> hi - i]     \* [lo, hi), newest first

LiveInit ==
    /\ height \in 1..(Window + 1) /\ refusing \in SUBSET People
    /\ es = "connecting" /\ mode = "connecting" /\ pollTimer = FALSE /\ fallbackTimer = TRUE /\ stopped = FALSE
    /\ kept \in {None, height - 1} \* an earlier visit's window, or none
    /\ chain = (IF kept = None THEN None ELSE Blocks(From(kept), kept)) /\ oldest = (IF kept = None THEN 0 ELSE From(kept))
    /\ loading = TRUE /\ older = None /\ seen = (kept # None) /\ crossed = FALSE
    /\ me \in People /\ deniedFor = None /\ items = None /\ bell = {me} /\ switched = FALSE /\ refused = FALSE /\ errors = 0

----------------------------------------------------------------------------
\* The hook's callers: the page loads, and the bell asks unless it was refused.
denied_Forgotten == None \* (mutant: a refusal is not remembered)
denied == deniedFor
Load == IF denied = me THEN bell ELSE bell \cup {me}
onBlock == loading' = TRUE /\ bell' = Load
Kept == UNCHANGED <<chain, oldest, kept, older, seen, crossed, me, deniedFor, items, switched, refused>>
startPolling ==
    /\ ~stopped /\ ~pollTimer /\ mode' = "polling" /\ es' = "closed" /\ pollTimer' = TRUE /\ onBlock

Opens == es = "connecting" /\ es' = "open" /\ UNCHANGED <<railVars, mode, pollTimer, fallbackTimer, stopped, loading, bell, errors>> /\ Kept
Hello ==
    /\ es = "open" /\ ~stopped /\ mode' = "live" /\ fallbackTimer' = FALSE
    /\ UNCHANGED <<railVars, es, pollTimer, stopped, loading, bell, errors>> /\ Kept
Fallback == fallbackTimer /\ fallbackTimer' = FALSE /\ startPolling /\ UNCHANGED <<railVars, stopped, errors>> /\ Kept
\* A blip: the browser reconnects by itself. Only a closed stream is given up.
Blip(closed) ==
    /\ es \in {"connecting", "open"} /\ errors < MaxErrors /\ errors' = errors + 1
    /\ IF closed THEN startPolling ELSE es' = "connecting" /\ UNCHANGED <<mode, pollTimer, loading, bell>>
    /\ UNCHANGED <<railVars, fallbackTimer, stopped>> /\ Kept
PollTick == pollTimer /\ ~stopped /\ onBlock /\ UNCHANGED <<railVars, es, mode, pollTimer, fallbackTimer, stopped, errors>> /\ Kept
\* A block is committed; a stream that is open tells the page, one that is not misses it.
Commit ==
    /\ height < MaxHeight /\ height' = height + 1
    /\ IF es = "open" /\ ~stopped THEN onBlock ELSE UNCHANGED <<loading, bell>>
    /\ UNCHANGED <<refusing, hookVars, errors>> /\ Kept
Leave ==
    /\ ~stopped /\ stopped' = TRUE /\ es' = "closed" /\ pollTimer' = FALSE /\ fallbackTimer' = FALSE
    /\ loading' = FALSE /\ older' = None /\ bell' = {}
    /\ UNCHANGED <<railVars, mode, chain, oldest, kept, seen, crossed, me, deniedFor, items, switched, refused, errors>>

----------------------------------------------------------------------------
\* load: the newest window replaces what is there; a failure blanks only an empty page.
Loaded ==
    /\ loading /\ loading' = FALSE /\ chain' = Blocks(From(height), height) /\ oldest' = From(height) /\ kept' = height
    /\ seen' = TRUE /\ crossed' = (older # None)
    /\ UNCHANGED <<railVars, hookVars, older, bellVars, errors>>
LoadFails ==
    /\ loading /\ loading' = FALSE /\ errors < MaxErrors /\ errors' = errors + 1
    /\ UNCHANGED <<railVars, hookVars, chain, oldest, kept, older, seen, crossed, bellVars>>
loadOlder ==
    /\ oldest > 0 /\ older = None /\ ~stopped
    /\ older' = [from |-> IF oldest > Window THEN oldest - Window ELSE 0, to |-> oldest]
    /\ UNCHANGED <<railVars, hookVars, chain, oldest, kept, loading, seen, crossed, bellVars, errors>>
Span_Inclusive(k) == Blocks(k.from, k.to + 1) \* (mutant: the oldest block again)
Span(k) == Blocks(k.from, k.to)
OlderLoaded ==
    /\ older # None /\ older' = None /\ chain' = chain \o Span(older) /\ oldest' = older.from
    /\ UNCHANGED <<railVars, hookVars, kept, loading, seen, crossed, bellVars, errors>>

----------------------------------------------------------------------------
BellAnswers(p) ==
    /\ p \in bell /\ bell' = bell \ {p} /\ UNCHANGED <<me, switched>>
    /\ IF p \in refusing THEN deniedFor' = p /\ items' = None /\ refused' = (refused \/ p = me)
       ELSE items' = p /\ UNCHANGED <<deniedFor, refused>>
    /\ UNCHANGED <<railVars, hookVars, pageVars, errors>>
BellFails(p) ==
    /\ p \in bell /\ bell' = bell \ {p} /\ errors < MaxErrors /\ errors' = errors + 1
    /\ UNCHANGED <<railVars, hookVars, pageVars, me, deniedFor, items, switched, refused>>
\* A new identity deserves a fresh attempt.
Switch(p) ==
    /\ p # me /\ ~stopped /\ me' = p /\ deniedFor' = (IF deniedFor # p THEN None ELSE deniedFor)
    /\ bell' = (IF deniedFor = p THEN bell ELSE bell \cup {p}) /\ switched' = (switched \/ bell # {}) /\ refused' = FALSE
    /\ UNCHANGED <<railVars, hookVars, pageVars, items, errors>>

LiveNext ==
    \/ Opens \/ Hello \/ Fallback \/ PollTick \/ Commit \/ Leave \/ Loaded \/ LoadFails \/ loadOlder \/ OlderLoaded
    \/ \E closed \in BOOLEAN : Blip(closed)
    \/ \E p \in People : BellAnswers(p) \/ BellFails(p) \/ Switch(p)

----------------------------------------------------------------------------
\* The badge says "live" only of a stream that was not given up; the list is blocks
\* the rail has, newest first, none twice, with no gap unless a reload overtook the
\* older blocks; what is on the page stays through a failed refresh; and unless the
\* identity changed under an answer, the bell is of whoever is signed in and a
\* refused identity is not asked for again.
\* (useLedgerStream, LedgerExplorer load and loadOlder, NotificationBell load)
PagesFollowTheRail ==
    /\ ~stopped => /\ mode = "live" => ~pollTimer /\ es # "closed"
                   /\ pollTimer => mode = "polling" /\ es = "closed"
    /\ seen => chain # None
    /\ chain # None => \A i \in DOMAIN chain :
        /\ chain[i] < height
        /\ i > 1 => chain[i] < chain[i - 1] /\ (~crossed => chain[i] = chain[i - 1] - 1)
    /\ ~switched /\ ~stopped => /\ bell = {} /\ errors = 0 => items \in {None, me}
                                /\ refused => me \notin bell
=============================================================================
