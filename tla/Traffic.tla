------------------------------ MODULE Traffic ------------------------------
(***************************************************************************)
(* The page view counters and the register of accounts                    *)
(* (lib/traffic.mjs, lib/track.js).  A page view is four queries of the    *)
(* database; a failure of any of them puts the whole view in a JSON file   *)
(* instead.  A summary is two queries, with the same way out.  The temp    *)
(* directory is taken to be writable.                                      *)
(***************************************************************************)
EXTENDS Naturals, Sequences, SequencesExt, FiniteSetsExt, Functions

CONSTANTS
    Visitors,        \* browser tabs
    Pages,
    Accounts,        \* people who sign in
    Calls,           \* calls of the library in flight at once
    LastDay,
    MaxLoads, MaxSightings, MaxFaults, MaxReads

VARIABLES
    day,
    tab,             \* visitor -> the last path its tab reported, or "none"
    table, file,     \* the two stores
    call,            \* calls in flight
    shown,           \* the last figures shown
    loads,           \* page views reported: [day, page, v] (history)
    sighted,         \* store -> account -> the days written, in order (history)
    faults, reads

trafficVars == <<day, tab, table, file, call, shown, loads, sighted, faults, reads>>

Days == 1..LastDay
NoStore == [hits |-> [x \in Days \X Pages |-> 0], visitors |-> {}, presence |-> [v \in Visitors |-> 0],
            accounts |-> [a \in Accounts |-> [lastDay |-> 0, daysActive |-> 0, sightings |-> 0]]]
Idle == [pc |-> "idle"]
NoFigures == [kind |-> "none"]

TrafficInit ==
    /\ day = 1 /\ tab = [v \in Visitors |-> "none"] /\ table = NoStore /\ file = NoStore
    /\ call = [c \in Calls |-> Idle] /\ shown = NoFigures /\ loads = <<>>
    /\ sighted = [s \in {"table", "file"} |-> [a \in Accounts |-> <<>>]] /\ faults = 0 /\ reads = 0

Free(c) == call[c].pc = "idle"
At(c, pc) == call[c].pc = pc
Becomes(c, r) == call' = [call EXCEPT ![c] = r]
Goes(c, pc) == call' = [call EXCEPT ![c].pc = pc]

----------------------------------------------------------------------------
\* A tab reports a path it did not report last; the visitor's token is of the day.
trackPageview(c, v, p) ==
    /\ Free(c) /\ Len(loads) < MaxLoads /\ tab[v] # p
    /\ tab' = [tab EXCEPT ![v] = p] /\ loads' = Append(loads, [day |-> day, page |-> p, v |-> v])
    /\ Becomes(c, [pc |-> "hits", kind |-> "hit", day |-> day, page |-> p, v |-> v])
    /\ UNCHANGED <<day, table, file, shown, sighted, faults, reads>>

Hit(store, k) == [store EXCEPT !.hits[k.day, k.page] = @ + 1]
Visited(store, k) == [store EXCEPT !.visitors = @ \cup {<<k.day, k.v>>}]
Present(store, k) == [store EXCEPT !.presence[k.v] = k.day]

recordHit(c) ==
    /\ \/ At(c, "hits") /\ table' = Hit(table, call[c]) /\ Goes(c, "visitors")
       \/ At(c, "visitors") /\ table' = Visited(table, call[c]) /\ Goes(c, "presence")
       \/ At(c, "presence") /\ table' = Present(table, call[c]) /\ Becomes(c, Idle)
    /\ UNCHANGED <<day, tab, file, shown, loads, sighted, faults, reads>>

Sighted_EachTime(a, d) == [a EXCEPT !.daysActive = @ + 1, !.lastDay = d, !.sightings = @ + 1] \* (mutant: every request is a day)
\* The database moves the last day back to an older one; only a later day counts.
Sighted(a, d) ==
    [a EXCEPT !.daysActive = @ + (IF a.lastDay < d THEN 1 ELSE 0), !.lastDay = d, !.sightings = @ + 1]
SightedInFile(a, d) ==
    [a EXCEPT !.daysActive = @ + (IF a.lastDay # d THEN 1 ELSE 0), !.lastDay = d, !.sightings = @ + 1]
Write(s, a, d) == sighted' = [sighted EXCEPT ![s][a] = Append(@, d)]

Sees(c, a) ==
    /\ Free(c) /\ FoldFunction(LAMBDA x, n : x.sightings + n, 0, table.accounts) < MaxSightings
    /\ Becomes(c, [pc |-> "account", kind |-> "sighting", day |-> day, a |-> a])
    /\ UNCHANGED <<day, tab, table, file, shown, loads, sighted, faults, reads>>
recordAccountSighting(c) ==
    /\ At(c, "account") /\ Write("table", call[c].a, call[c].day) /\ Becomes(c, Idle)
    /\ table' = [table EXCEPT !.accounts[call[c].a] = Sighted(@, call[c].day)]
    /\ UNCHANGED <<day, tab, file, shown, loads, faults, reads>>

----------------------------------------------------------------------------
Views(store, since) == MapThenSumSet(LAMBDA x : IF x[1] >= since THEN store.hits[x] ELSE 0, Days \X Pages)
VisitorDays(store, since) == Cardinality({x \in store.visitors : x[1] >= since})

\* trafficSummary of today (since = day) and allTimeSummary (since = 1).
Summary(c, since) ==
    /\ Free(c) /\ reads < MaxReads /\ reads' = reads + 1
    /\ Becomes(c, [pc |-> "rows", kind |-> "read", since |-> since, rows |-> 0,
                   least |-> [s \in {"table", "file"} |-> LET x == IF s = "table" THEN table ELSE file IN
                                  [views |-> Views(x, since), visitors |-> VisitorDays(x, since)]]])
    /\ UNCHANGED <<day, tab, table, file, shown, loads, sighted, faults>>
Figures(k, views, visitors, durable) ==
    [kind |-> "figures", since |-> k.since, least |-> k.least[IF durable THEN "table" ELSE "file"],
     totalViews |-> views, uniqueVisitors |-> visitors, durable |-> durable]
trafficSummary(c) ==
    /\ \/ At(c, "rows") /\ Becomes(c, [call[c] EXCEPT !.pc = "visitorRows", !.rows = Views(table, call[c].since)]) /\ UNCHANGED shown
       \/ /\ At(c, "visitorRows") /\ Becomes(c, Idle)
          /\ shown' = Figures(call[c], call[c].rows, VisitorDays(table, call[c].since), TRUE)
    /\ UNCHANGED <<day, tab, table, file, loads, sighted, faults, reads>>

----------------------------------------------------------------------------
FromTheFile_Mixed(k) == Figures(k, k.rows, 0, TRUE) \* (mutant: what the database gave so far is shown)
FromTheFile(k) == Figures(k, Views(file, k.since), VisitorDays(file, k.since), FALSE)
\* A query fails: what the call has written stays written, and it starts over in
\* the file, which is read, changed and written without a pause.
Fails(c) ==
    /\ ~Free(c) /\ faults < MaxFaults /\ faults' = faults + 1 /\ Becomes(c, Idle)
    /\ LET k == call[c] IN
       \/ /\ k.kind = "hit" /\ file' = Present(Visited(Hit(file, k), k), k) /\ UNCHANGED <<shown, sighted>>
       \/ /\ k.kind = "sighting" /\ Write("file", k.a, k.day) /\ UNCHANGED shown
          /\ file' = [file EXCEPT !.accounts[k.a] = SightedInFile(@, k.day)]
       \/ /\ k.kind = "read" /\ shown' = FromTheFile(k) /\ UNCHANGED <<file, sighted>>
    /\ UNCHANGED <<day, tab, table, loads, reads>>

Look == shown.kind # "none" /\ shown' = NoFigures /\ UNCHANGED <<day, tab, table, file, call, loads, sighted, faults, reads>>
Midnight == day < LastDay /\ day' = day + 1 /\ UNCHANGED <<tab, table, file, call, shown, loads, sighted, faults, reads>>

TrafficNext ==
    \/ Look \/ Midnight
    \/ \E c \in Calls :
          \/ recordHit(c) \/ recordAccountSighting(c) \/ trafficSummary(c) \/ Fails(c)
          \/ \E v \in Visitors, p \in Pages : trackPageview(c, v, p)
          \/ \E a \in Accounts : Sees(c, a)
          \/ \E since \in {1, day} : Summary(c, since)

----------------------------------------------------------------------------
LoadsSince(since) == Len(SelectSeq(loads, LAMBDA x : x.day >= since))
InOrder(s) == \A i, j \in DOMAIN s : i < j => s[i] <= s[j]

\* Figures that say where they come from hold what that store held when they were
\* asked for, and never more than the tabs reported, and the file's visitors are
\* no more than its views; no page view is lost between the stores; and a person
\* sighted in the order of the days has as many active days as days.
\* (trafficSummary, allTimeSummary, recordHit, recordAccountSighting)
FiguresAreKept ==
    /\ shown.kind # "none" =>
        /\ shown.totalViews \in shown.least.views..LoadsSince(shown.since)
        /\ shown.uniqueVisitors \in shown.least.visitors..LoadsSince(shown.since)
        /\ ~shown.durable => shown.uniqueVisitors <= shown.totalViews
    /\ \A x \in Days \X Pages :
        LET open == {c \in Calls : call[c].pc = "hits" /\ <<call[c].day, call[c].page>> = x} IN
        table.hits[x] + file.hits[x] + Cardinality(open) >= Len(SelectSeq(loads, LAMBDA l : <<l.day, l.page>> = x))
    /\ \A s \in {"table", "file"}, a \in Accounts :
        LET row == (IF s = "table" THEN table ELSE file).accounts[a] IN
        InOrder(sighted[s][a]) => row.daysActive = Cardinality(ToSet(sighted[s][a]))
=============================================================================
