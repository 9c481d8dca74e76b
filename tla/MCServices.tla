----------------------------- MODULE MCServices -----------------------------
(***************************************************************************)
(* The services of the two servers around their payments and markets, for  *)
(* TLC.  They share no state, so a behaviour runs one of them: topic says  *)
(* which.  The variables of a service are the first of the registers v1 to *)
(* v12; the other registers stay None.                                     *)
(***************************************************************************)
EXTENDS Naturals, Sequences, FiniteSets, TLC

CONSTANTS None, ann, k1, k2, k3
CONSTANT Topics   \* the services a run is about
VARIABLES topic, v1, v2, v3, v4, v5, v6, v7, v8, v9, v10, v11, v12

registers == <<topic, v1, v2, v3, v4, v5, v6, v7, v8, v9, v10, v11, v12>>

NoClaim == [p \in {ann} |-> None]
Clerks == {[id |-> "a", email |-> None, supervisor |-> FALSE], [id |-> "b", email |-> <<"b", "x">>, supervisor |-> FALSE],
           [id |-> "r", email |-> None, supervisor |-> TRUE]}

Verified == INSTANCE Verification WITH Listings <- {"a", "b"}, Hashes <- {"h"}, Owner <- [l \in {"a", "b"} |-> "o"],
    Validators <- {"r", "o"}, MaxBlocks <- 3, MaxAltered <- 2, MaxDocs <- 1,
    Claims <- {"good", "bad"}, Malformed <- {"bad"}, Lookups <- {1, 2}, PINCODE_TTL <- 1, MaxTime <- 2,
    blocks <- v1, listed <- v2, checking <- v3, filing <- v4, register <- v5, railIntact <- v6, report <- v7,
    held <- v8, missed <- v9,
    directory <- v1, now <- v2, pincodeCache <- v3, lookup <- v4, said <- v5
Asked == INSTANCE Reception WITH Persons <- {ann}, Named <- {}, Claims <- NoClaim, Aliases <- NoClaim,
    Payments <- {[payer |-> "investor1", payee |-> "originator1"], [payer |-> ann, payee |-> "originator1"]},
    deployment <- v1, asked <- v2, api <- v3, mock <- v4
Kyc == INSTANCE KycDesk WITH Fixtures <- {"investor1"}, Newcomers <- {ann}, MaxStates <- 1,
    server <- v1, records <- v2, states <- v3, file <- v4, waiting <- v5, job <- v6, evidence <- v7, told <- v8,
    issued <- v9, last <- v10, vetted <- v11, used <- v12
Holders == INSTANCE HolderServices WITH People <- {"o", "a", "b"}, Originator <- "o", Supply <- 6, Price <- 200,
    Rents <- {5, 12}, MaxRents <- 2, MaxVotes <- 3, MaxTransfers <- 3,
    PageSizes <- {1, 2},
    balances <- v1, yieldBalances <- v2, creditLoans <- v3, chain <- v4, proposal <- v5, votes <- v6, transfers <- v7,
    clock <- v8, reader <- v9
Screened == INSTANCE Screening WITH Payers <- {"investor1", "investor2"}, Keys <- {k1, k2, k3}, Amounts <- {19, 60},
    velWarn <- 1, velBlock <- 2, structCount <- 2, RecentKept <- 2, MaxPayments <- 3,
    server <- v1, kycStatus <- v2, book <- v3, npciIdem <- v4
Door == INSTANCE FrontDoor WITH Callers <- {"a", "b"}, DIAG_MAX <- 2, MaxRequests <- 3, MaxChunks <- 2,
    diag <- v1, request <- v2, issued <- v3, recorded <- v4, looked <- v5,
    site <- v1, passing <- v2, given <- v3, stream <- v4
Viewed == INSTANCE OperatorViews WITH Instructions <- {"i1", "i2"}, Buyer <- [i \in {"i1", "i2"} |-> "a"],
    Shortfall <- [i \in {"i1", "i2"} |-> IF i = "i1" THEN 4 ELSE 1],
    MaxChanges <- 1,
    site <- v1, books <- v2, umi <- v3, view <- v4, witnessed <- v5, changes <- v6
Members == INSTANCE MockAccounts WITH Callers <- Clerks, Slugs <- {"s"}, Emails <- {<<"a", "x">>, <<"b", "x">>},
    Roles <- {"admin"}, Identifiers <- {"i"}, Values <- {1, 2},
    VERIFICATION_MAX_ATTEMPTS <- 2, MaxRows <- 2,
    demo <- v1, user <- v2, session <- v3, member <- v4, invitation <- v5, organization <- v6, verification <- v7,
    attempts <- v8, told <- v9
Bridge == INSTANCE PaymentBridges WITH Amounts <- {10000, 10005, 9994}, Ids <- {1, 2},
    People <- {"a", "b", "r"}, SUPERVISORY <- {"r"}, PaymentIds <- {1, 2},
    server <- v1, pay <- v2, checkout <- v3, payu <- v4, post <- v5, idem <- v6, asking <- v7, page <- v8,
    refused <- v9, by <- v10,
    testnetPayments <- v1, opened <- v2, shown <- v3, acted <- v4
Visits == INSTANCE Traffic WITH Visitors <- {"v1", "v2"}, Pages <- {"p"}, Accounts <- {"a"}, Calls <- {k1, k2},
    LastDay <- 2, MaxLoads <- 2, MaxSightings <- 0, MaxFaults <- 2, MaxReads <- 1,
    day <- v1, tab <- v2, table <- v3, file <- v4, call <- v5, shown <- v6, loads <- v7, sighted <- v8, faults <- v9,
    reads <- v10
Sightings == INSTANCE Traffic WITH Visitors <- {"v1", "v2"}, Pages <- {"p"}, Accounts <- {"a"}, Calls <- {k1, k2},
    LastDay <- 2, MaxLoads <- 0, MaxSightings <- 3, MaxFaults <- 2, MaxReads <- 0,
    day <- v1, tab <- v2, table <- v3, file <- v4, call <- v5, shown <- v6, loads <- v7, sighted <- v8, faults <- v9,
    reads <- v10
Answers == INSTANCE Assistant WITH Callers <- {"c"}, MODELS <- <<"m1", "m2">>, maxMessages <- 3,
    requestsPerWindow <- 1, windowMs <- 2, MaxTime <- 5, MaxAsked <- 3,
    thread <- v1, chat <- v2, hits <- v3, now <- v4, gone <- v5, exists <- v6, paid <- v7, replies <- v8

Free11 == v12 = None
Free10 == v11 = None /\ Free11
Free9 == v10 = None /\ Free10
Free8 == v9 = None /\ Free9
Free7 == v8 = None /\ Free8
Free6 == v7 = None /\ Free7
Free5 == v6 = None /\ Free6
Free4 == v5 = None /\ Free5
Keep4 == UNCHANGED <<v5, v6, v7, v8, v9, v10, v11, v12>>
Keep5 == UNCHANGED <<v6, v7, v8, v9, v10, v11, v12>>
Keep6 == UNCHANGED <<v7, v8, v9, v10, v11, v12>>
Keep7 == UNCHANGED <<v8, v9, v10, v11, v12>>
Keep8 == UNCHANGED <<v9, v10, v11, v12>>
Keep9 == UNCHANGED <<v10, v11, v12>>
Keep10 == UNCHANGED <<v11, v12>>
----------------------------------------------------------------------------
(* What is left out of each service, to keep the runs short. *)
\* The report is on a; b has no documents and is not decided about; a document is revoked rather than superseded.
ReportNarrow ==
    /\ v7.pc # "idle" => v7.on = "a"
    /\ v5["b"] = <<>> /\ "SUPERSEDED" \notin {v5["a"][i] : i \in DOMAIN v5["a"]}
    /\ v2["b"].validatedBy = None
\* An officer decides about ann; the documents pulled are hers, hers alone reach the rail, and
\* their answers come in one order.
KycNarrow ==
    /\ (v5.op \in {"put", "pull"} => v5.on = ann)
    /\ (v6 # Kyc!NoJob => v6.asked # {"AADHAAR"})
    /\ \A e \in v7 : e[1] = ann
\* Rent and votes are looked at separately; of histories, that of a and of one token at a time.
HoldersNarrow ==
    \/ topic = "rent" /\ v5'.status = "none" /\ v9'.at = "idle" /\ v8' = 0 /\ Len(v7') < 2
    \/ topic = "votes" /\ v2' = v2 /\ v9'.at = "idle" /\ v8' = 0 /\ Len(v7') < 2
\* Everyone's handles are clean but the first payment's, and investor1 pays; or the first is
\* of investor2 from a handle with investor1's name.  A callback may be about the last of three,
\* which it makes pending or confirmed after it had failed.
ScreenedNarrow ==
    /\ \A i \in DOMAIN v3 : (i > 1 => v3[i].vpa = "clean") /\ v3[i].vpa # "mimic"
    /\ Len(v3') > Len(v3) => LET p == v3'[Len(v3')] IN
           \/ p.payer = "investor1" /\ p.local = "nobody"
           \/ v3 = <<>> /\ p.payer = "investor2" /\ p.local = "investor1" /\ p.vpa = "clean" /\ p.amount = 19
    /\ \A i \in DOMAIN v3' : v3'[i].told =>
           /\ i = 3 /\ v3'[i].age = "minutes" /\ v3'[1].local = "nobody"
           /\ v3[i].told \/ (v3[i].status = "FAILED_FRAUD_BLOCKED" /\ v3'[i].status # "FAILED_FRAUD_BLOCKED")
    /\ v2' # v2 => Len(v3) = 1 /\ v2'["investor2"] = v2["investor2"]
\* Orders of organisations have few members and sessions, and pin the first invitation to b.
MembersNarrow ==
    /\ Len(v4) <= 3 /\ Len(v3) <= 1 /\ (v3 # <<>> => v5 = <<>>)
    /\ \A n \in DOMAIN v5 : v5[n].pin \in {None, "b"} /\ (v5[n].pin = "b" => n = 1)
CodesNarrow == \A n \in DOMAIN v7 : v7[n].by # "r"
\* This side writes a payment at PayU MaxHere times at most, the last time as pending, confirmed
\* or declined, and then results have the plain shape and one id; a copy is pending or confirmed.
MaxHere == 2
BridgeNarrow ==
    /\ v11' = IF v2' # v2 /\ v10' = "here" /\ v2'.status # "RELEASED" THEN v11 + 1 ELSE v11
    /\ v11' <= MaxHere /\ UNCHANGED v12
    /\ v11' > 0 => v4'.shape = [additional_charges |-> "", splitInfo |-> ""] /\ \A m \in v5' : m.id = 1
    /\ v11' = MaxHere => v2'.status \in {"PENDING", "CONFIRMED", "RELEASED", "DECLINED", "FAILED_AMOUNT_MISMATCH"}
    /\ v2.status = "none" => v2'.status \in {"none", "PENDING", "CONFIRMED"}
\* Escrows are in favour of a, the second one opened and funded by a as well.
EscrowNarrow == \A i \in {1, 2} : v1[i] # None => v1[i].to = "a" /\ (i = 2 => v1[i].from = "a" /\ v1[i].initiatedBy = "a")
\* The directory knows both claims at first, never calls one a mismatch, and keeps to what it says of "bad".
PinsNarrow == \A c \in {"good", "bad"} : v1[c] # "MISMATCH" /\ (c = "bad" => v1[c] = "VERIFIED")
----------------------------------------------------------------------------
MCInit ==
    /\ topic \in Topics
    /\ CASE topic = "report" -> Verified!Init /\ Free9
         [] topic = "gates" -> Asked!Init /\ Free4
         [] topic = "kyc" -> Kyc!Init
         [] topic \in {"rent", "votes", "history"} -> Holders!HolderInit /\ Free9
         [] topic = "fraud" -> Screened!ScreenInit /\ Free4 /\ v2["investor1"] # "REJECTED" /\ v2["investor2"] = "VERIFIED"
         [] topic = "diagnostics" -> Door!DoorInit /\ Free5
         [] topic = "proxy" -> Door!ProxyInit /\ Free4
         [] topic = "operators" -> Viewed!ViewInit /\ Free6
         [] topic \in {"orgs", "codes"} -> Members!AccountsInit /\ Free9
         [] topic = "payu" -> Bridge!BridgeInit /\ v11 = 0 /\ Free11
         [] topic = "pincode" -> Verified!PincodeInit /\ Free5 /\ PinsNarrow /\ v1["good"] = "VERIFIED"
         [] topic = "escrow" -> Bridge!EscrowInit /\ Free4
         [] topic = "visits" -> Visits!TrafficInit /\ Free10
         [] topic = "sightings" -> Sightings!TrafficInit /\ Free10
         [] topic = "assistant" -> Answers!AssistantInit /\ Free8

Histories == Holders!Open("a") \/ (\E n \in {1, 2} : Holders!ReadPage(n)) \/ Holders!Close
MCNext ==
    /\ \/ topic = "report" /\ Verified!Next /\ ReportNarrow' /\ Keep9
       \/ topic = "gates" /\ Asked!Next /\ Keep4
       \/ topic = "kyc" /\ Kyc!Next /\ KycNarrow'
       \/ topic \in {"rent", "votes"} /\ Holders!HolderNext /\ HoldersNarrow /\ Keep9
       \/ topic = "history" /\ (Histories \/ Holders!Trade) /\ (\A p \in DOMAIN v1 : v1'[p] <= v1[p] + 1) /\ Keep9
       \/ topic = "fraud" /\ Screened!ScreenNext /\ ScreenedNarrow /\ Keep4
       \/ topic = "diagnostics" /\ Door!DoorNext /\ Keep5
       \/ topic = "proxy" /\ Door!ProxyNext /\ Keep4
       \/ topic = "operators" /\ Viewed!ViewNext /\ Keep6
       \/ topic = "orgs" /\ Members!Orgs /\ MembersNarrow' /\ Keep9
       \/ topic = "codes" /\ Members!Codes /\ CodesNarrow' /\ Keep9
       \/ topic = "payu" /\ Bridge!BridgeNext /\ BridgeNarrow
       \/ topic = "pincode" /\ Verified!PincodeNext /\ PinsNarrow' /\ Keep5
       \/ topic = "escrow" /\ Bridge!EscrowNext /\ EscrowNarrow' /\ Keep4
       \/ topic = "visits" /\ Visits!TrafficNext /\ Keep10
       \/ topic = "sightings" /\ Sightings!TrafficNext /\ Keep10
       \/ topic = "assistant" /\ Answers!AssistantNext /\ Keep8
    /\ UNCHANGED topic
MCSpec == MCInit /\ [][MCNext]_registers
MCSymmetry == Permutations({k1, k2, k3})
----------------------------------------------------------------------------
\* A verification report names nothing that was not so, and tampering shown is undone;
\* operators' views and address checks say what was there to read, and what the rail
\* says arrives as it was said.  (modules Verification, OperatorViews, FrontDoor)
ReportsCanBeTrusted ==
    CASE topic = "report" -> Verified!ReportsCanBeTrusted
      [] topic = "operators" -> Viewed!ViewsAreTrue
      [] topic = "pincode" -> Verified!AddressChecksAreTrue
      [] topic = "proxy" -> Door!RailIsRelayed
      [] OTHER -> TRUE

\* People see and change what is theirs: payments and records, their identity
\* verification, their organisations and codes.  (Reception, KycDesk, MockAccounts)
RecordsAreTheirs ==
    CASE topic = "gates" -> Asked!RecordsAreTheirs
      [] topic = "kyc" -> Kyc!TypeOK /\ Kyc!KycStands
      [] topic \in {"orgs", "codes"} -> Members!MockAccountsHold
      [] OTHER -> TRUE

\* Rent is shared out, votes are counted and histories are told as the tokens were
\* held.  (HolderServices)
HoldersAreServed ==
    topic \in {"rent", "votes", "history"} => Holders!HoldersTypeOK /\ Holders!HoldersAreServed

\* Payments go through as the fraud rules, PayU's book and the parties of an escrow
\* have it.  (Screening, PaymentBridges)
PaymentsAreScreened ==
    CASE topic = "fraud" -> Screened!PaymentsAreScreened
      [] topic = "payu" -> Bridge!PaymentsAreAsPayUSays
      [] topic = "escrow" -> Bridge!EscrowsAreTheirs
      [] OTHER -> TRUE

\* What is counted and recorded of the requests themselves is kept: failures, page
\* views and sightings, the questions asked.  (FrontDoor, Traffic, Assistant)
FailuresAreFound ==
    CASE topic = "diagnostics" -> Door!FailuresAreFound
      [] topic = "visits" -> Visits!FiguresAreKept
      [] topic = "sightings" -> Sightings!FiguresAreKept
      [] topic = "assistant" -> Answers!RepliesAreEarned
      [] OTHER -> TRUE
=============================================================================
