----------------------------- MODULE MCScreens ------------------------------
(***************************************************************************)
(* Accounts and the browser for TLC.  Of the accounts, the requests about  *)
(* sessions, organisations and codes share no row, and none of them the    *)
(* signing keys; of the browser, the client of the API with its memo, the  *)
(* session of a tab, the live pages, the catalogue and the wallet are each *)
(* given the answers their modules allow.  So a behaviour runs one of the  *)
(* nine.  The variables of those that are not in Accounts are the first of *)
(* the registers v1 to v21, and the others stay None.                      *)
(***************************************************************************)
EXTENDS Accounts, TLC

CONSTANTS ann, Kids, Calls, MaxRotations, MaxOutages
CONSTANT Topics   \* the parts of the system a run is about
VARIABLES topic, v1, v2, v3, v4, v5, v6, v7, v8, v9, v10, v11, v12, v13, v14, v15, v16, v17, v18, v19, v20, v21

registers == <<v1, v2, v3, v4, v5, v6, v7, v8, v9, v10, v11, v12, v13, v14, v15, v16, v17, v18, v19, v20, v21>>

NoClaim == [p \in {ann} |-> None]
Bearer(kind, who, header) == [bearer |-> [kind |-> kind, who |-> who], header |-> header, key |-> FALSE]
MCCallers == {Bearer("demo", "investor1", None), Bearer("session", ann, None), Bearer("session", ann, "investor2")}
MCLetters == {[email |-> ann, pin |-> None, role |-> "admin"], [email |-> ann, pin |-> "investor1", role |-> "member"]}

Keys == INSTANCE SigningKeys WITH
    published <- v1, retired <- v2, cache <- v3, stale <- v4, inflight <- v5, call <- v6, rotations <- v7,
    outages <- v8
Memo == INSTANCE ApiClient WITH Screens <- Slots, TTL_MS <- 2, MaxTime <- 3, MaxWrites <- 2, MaxFaults <- 2,
    version <- v1, cache <- v2, inflight <- v3, request <- v4, waits <- v5, handed <- v6, time <- v7, finished <- v8,
    pressed <- v9, lost <- v10
Tab == INSTANCE WebSession WITH ROLES <- {"investor1", "regulator1"}, Mine <- "u", MaxEvents <- 4,
    demoAuthAllowed <- v1, canSwitchIdentity <- v2, clerk <- v3, stored <- v4, demoIdentity <- v5, internalUser <- v6,
    effect <- v7, asking <- v8, leaving <- v9, late <- v10, events <- v11
Live == INSTANCE LivePages WITH People <- {"a", "b"}, Window <- 2, MaxHeight <- 5, MaxErrors <- 1,
    height <- v1, refusing <- v2, es <- v3, mode <- v4, pollTimer <- v5, fallbackTimer <- v6, stopped <- v7,
    chain <- v8, oldest <- v9, kept <- v10, loading <- v11, older <- v12, seen <- v13, crossed <- v14, me <- v15,
    deniedFor <- v16, items <- v17, bell <- v18, switched <- v19, refused <- v20, errors <- v21
Screens == INSTANCE CachedScreens WITH Ids <- {"a", "b"}, Demo <- "b", MaxReads <- 2, MaxEdits <- 2,
    server <- v1, cache <- v2, removed <- v3, filter <- v4, list <- v5, source <- v6, page <- v7, property <- v8,
    error <- v9, reads <- v10, asked <- v11, latest <- v12, shownBy <- v13, edits <- v14,
    People <- {"a", "b"}, totalTokens <- 2, Amounts <- {1}, MaxBuys <- 2, MaxAsks <- 2, MaxTransfers <- 2,
    rows <- v1, unsold <- v2, bought <- v3, overlay <- v4, me <- v5, shownWallet <- v6, fetches <- v7, fetched <- v8,
    sending <- v9, sentHere <- v10, presses <- v11

Free14 == v15 = None /\ v16 = None /\ v17 = None /\ v18 = None /\ v19 = None /\ v20 = None /\ v21 = None
Free11 == v12 = None /\ v13 = None /\ v14 = None /\ Free14
Free10 == v11 = None /\ Free11
Free8 == v9 = None /\ v10 = None /\ Free10
FreeAll == v1 = None /\ v2 = None /\ v3 = None /\ v4 = None /\ v5 = None /\ v6 = None /\ v7 = None /\ v8 = None /\ Free8
Keep8 == UNCHANGED <<v9, v10, v11, v12, v13, v14, v15, v16, v17, v18, v19, v20, v21>>
Keep10 == UNCHANGED <<v11, v12, v13, v14, v15, v16, v17, v18, v19, v20, v21>>
Keep11 == UNCHANGED <<v12, v13, v14, v15, v16, v17, v18, v19, v20, v21>>
Keep14 == UNCHANGED <<v15, v16, v17, v18, v19, v20, v21>>
----------------------------------------------------------------------------
\* a buys; b's row is not lost, and a's only before the wallet is shown.
WalletNarrow ==
    /\ \A i \in DOMAIN v3' : v3'[i].who = "a"
    /\ v1'["b"] = None => v1["b"] = None
    /\ v1'["a"] = None => v6 = None
\* With a database it is all one where an organisation's request is served.
OnePlace == env.db => \A s, t \in Slots : "idle" \notin {req[s].pc, req[t].pc} => req[s].at = req[t].at
\* In a demo investor1 founds the organisations.  Members are looked up last.
OrgsNarrow == \A s \in Slots : req[s].pc = "start" =>
    /\ req[s].kind = "org" /\ env.demo => req[s].user.id = "investor1"
    /\ req[s].kind = "look" => req[s].no = MaxRequests
Somebody == \A s \in Slots : req[s].pc = "start" => req[s].user.id # None
NobodySupervises == \A s \in Slots : req[s].pc = "start" =>
    req[s].user.role # "regulator" /\ (req[s].kind = "login" => req[s].arg = "investor1")
\* Codes belong to the address they were sent to, whoever asks.
OneAsks == \A s \in Slots : req[s].pc = "start" => req[s].user.id = "investor1"

MCInit ==
    /\ topic \in Topics
    /\ Init
    /\ topic \notin {"sessions", "orgs"} => env.demo
    /\ topic \notin {"sessions", "orgs", "codes"} => env.db
    /\ CASE topic = "keys" -> Keys!Init /\ Free8
         [] topic = "memo" -> Memo!ApiInit /\ Free10
         [] topic = "tab" -> Tab!SessionInit /\ Free11
         [] topic = "live" -> Live!LiveInit
         [] topic = "listings" -> Screens!ScreensInit /\ Free14
         [] topic = "wallet" -> Screens!WalletInit /\ v5 = "a" /\ Free11
         [] OTHER -> FreeAll
MCNext ==
    /\ \/ /\ \E s \in Slots :
               \/ topic = "sessions" /\ SessionSteps(s) /\ NobodySupervises'
               \/ topic = "orgs" /\ OrgSteps(s) /\ Somebody' /\ OnePlace' /\ OrgsNarrow'
               \/ topic = "codes" /\ CodeSteps(s) /\ OneAsks'
               \/ topic \in {"sessions", "orgs", "codes"} /\ Return(s)
               \/ topic \in {"sessions", "orgs"} /\ QueryFails(s)
          /\ UNCHANGED registers
       \/ /\ \/ topic = "keys" /\ Keys!Next /\ Keep8
             \/ topic = "memo" /\ Memo!ApiNext /\ Keep10
             \/ topic = "tab" /\ Tab!SessionNext /\ Keep11
             \/ topic = "live" /\ Live!LiveNext
             \/ topic = "listings" /\ Screens!ScreensNext /\ Keep14
             \/ topic = "wallet" /\ Screens!WalletNext /\ WalletNarrow /\ Keep11
          /\ UNCHANGED vars
    /\ UNCHANGED topic
MCSpec == MCInit /\ [][MCNext]_<<vars, registers, topic>>
MCSymmetry == Permutations(Instances) \cup Permutations(Slots) \cup Permutations(Values)
----------------------------------------------------------------------------
\* A code, an invitation or a session is used once, guesses at a code are rationed,
\* and a token is judged by the signing keys of its time.  (Accounts, SigningKeys)
CredentialsAreGood ==
    IF topic = "keys" THEN Keys!RotationIsSeen ELSE TypeOK /\ UsedOnce /\ GuessesAreRationed

\* A screen is never handed data older than the memo's fifteen seconds allow, pages
\* follow the rail, and catalogue and listing pages show what was asked for.
\* (ApiClient, LivePages, CachedScreens)
PagesAreFresh ==
    CASE topic = "memo" -> Memo!MemoryIsFresh
      [] topic = "live" -> Live!PagesFollowTheRail
      [] topic = "listings" -> Screens!ListingsAreTrue
      [] OTHER -> TRUE

\* The tab is who it says it is, and the wallet shown is the one there is.
\* (WebSession, CachedScreens)
PeopleAreRight ==
    CASE topic = "tab" -> Tab!TabIsWhoItSays
      [] topic = "wallet" -> Screens!WalletsAreReal
      [] OTHER -> TRUE
=============================================================================
