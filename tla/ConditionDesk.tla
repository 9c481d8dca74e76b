--------------------------- MODULE ConditionDesk ---------------------------
(***************************************************************************)
(* Conditional settlement (conditional.go) over the rail's wallets and one *)
(* asset's positions.  The desk's lock d.mu and the rail's lock r.mu are   *)
(* both taken and released within a call, never held together, so each     *)
(* locked section is a step of the call and others run in between: the     *)
(* status is read under d.mu, the money moves under r.mu, and the status   *)
(* is written under d.mu without being read again.                         *)
(*                                                                         *)
(* Mandates (mandates.go) appear as one mandate of the agent presenters: a *)
(* limit and what was spent.  Which credential is presented is abstracted  *)
(* to whether it satisfies the condition.  Desk, events and refusal counts *)
(* live in memory only, and a restart empties the desk and every           *)
(* reservation with it, so this module has none.                           *)
(***************************************************************************)
EXTENDS Naturals, FiniteSets

LOCAL INSTANCE FiniteSetsExt

CONSTANTS
    Parties,      \* participants with a wallet
    DeskCalls,    \* calls served at the same time
    Timer,        \* the goroutine that runs Tick every minute
    Terms,        \* [buyer, seller, tokens, cash]: what conditions and DvPs are about
    Limit,        \* LimitPaise of the agents' mandate
    OpeningCash, OpeningTokens,   \* each party's wallet and position at first
    MaxConditions,\* bound: conditions registered
    MaxCalls,     \* bound: calls, Tick excepted
    AtOnce        \* bound: calls in progress at the same time, Tick included

ASSUME DeskConstants ==
    /\ Terms # {} /\ Terms \subseteq [buyer : Parties, seller : Parties, tokens : Nat, cash : Nat]
    /\ Timer \notin DeskCalls
    /\ OpeningCash \in [Parties -> Nat] /\ OpeningTokens \in [Parties -> Nat]
    /\ Limit \in Nat /\ MaxConditions \in Nat \ {0} /\ MaxCalls \in Nat /\ AtOnce \in Nat

Ids == 1..MaxConditions
Callers == DeskCalls \cup {Timer}
Statuses == {"NONE", "OPEN", "RELEASED", "REFUNDED", "EXPIRED"}

VARIABLES
    balance, reserved,  \* CBDCWallet's BalancePaise and ReservedPaise
    position,           \* the securities book, for the asset
    terms, status,      \* d.byID; "NONE": the identifier is not in use yet
    due,                \* conditions whose deadline has passed
    spent,              \* SpentPaise of the agents' mandate
    legs,               \* times the legs of a condition moved (history)
    lapsed,             \* conditions whose delivery once failed (history)
    crossed,            \* conditions two calls were on at once (history)
    call, calls         \* each caller's call; calls begun

money == <<balance, reserved, position>>
desk  == <<terms, status>>
past  == <<legs, lapsed>>
deskVars == <<money, desk, due, spent, past, crossed, call, calls>>
-----------------------------------------------------------------------------
NoTerms == CHOOSE t \in Terms : TRUE
Idle == [at |-> "idle", t |-> NoTerms, i |-> 1, todo |-> {}, agent |-> FALSE, end |-> "OPEN"]
Ends == {"OPEN", "REFUNDED", "EXPIRED"}
Points == {"idle", "reserve", "register", "verify", "settle", "consume", "release",
           "expire", "unreserve", "close"}
Call == [at : Points, t : Terms, i : Ids, todo : SUBSET Ids, agent : BOOLEAN, end : Ends]

InProgress == {c \in Callers : call[c].at # "idle"}
IsFirst(i, S) == i \in S /\ \A j \in S : i <= j
Begin(c) ==
    /\ call[c].at = "idle" /\ Cardinality(InProgress) < AtOnce
    /\ c # Timer /\ calls < MaxCalls
    /\ calls' = calls + 1

\* the condition a call goes on to work on while another call is on it
OnCondition(k) == k.at \notin {"idle", "reserve", "register"}
Crossing(c, to) ==
    {i \in Ids : /\ OnCondition(to) /\ to.i = i
                /\ \E b \in Callers \ {c} : OnCondition(call[b]) /\ call[b].i = i}

Goes(c, to) ==
    /\ call' = [call EXCEPT ![c] = to]
    /\ crossed' = crossed \cup Crossing(c, to)
Then(c, step) == Goes(c, [call[c] EXCEPT !.at = step])
Is(c, step) == call[c].at = step /\ UNCHANGED calls

\* (mutant: without the clamp)
Less_Below(m, n) == m - n

\* ReservedPaise -= n, and never below zero
Less(m, n) == IF m >= n THEN m - n ELSE 0

\* (mutant: what is already reserved is offered again)
Available_Balance(p) == balance[p]

Available(p) == balance[p] - reserved[p]

\* (mutant: whatever has been registered still counts as open)
IsOpen_Known(i) == status[i] # "NONE"

IsOpen(i) == status[i] = "OPEN"
-----------------------------------------------------------------------------
(* Open *)

Opening == {c \in DeskCalls : call[c].at \in {"reserve", "register"}}

Open(c, t) ==
    /\ Begin(c)
    /\ Cardinality({i \in Ids : status[i] # "NONE"}) + Cardinality(Opening) < MaxConditions
    /\ t.seller # t.buyer /\ position[t.seller] >= t.tokens
    /\ Goes(c, [Idle EXCEPT !.at = "reserve", !.t = t])
    /\ UNCHANGED <<money, desk, due, spent, past>>

Reserve(c) ==
    /\ Is(c, "reserve")
    /\ LET t == call[c].t IN
       IF Available(t.buyer) < t.cash
       THEN Goes(c, Idle) /\ UNCHANGED reserved
       ELSE Then(c, "register") /\ reserved' = [reserved EXCEPT ![t.buyer] = @ + t.cash]
    /\ UNCHANGED <<balance, position, desk, due, spent, past>>

Register(c) ==
    /\ Is(c, "register")
    /\ \E i \in Ids :
        /\ status[i] = "NONE" /\ \A j \in Ids : j < i => status[j] # "NONE"
        /\ terms' = [terms EXCEPT ![i] = call[c].t]
        /\ status' = [status EXCEPT ![i] = "OPEN"]
    /\ Goes(c, Idle)
    /\ UNCHANGED <<money, due, spent, past>>
-----------------------------------------------------------------------------
(* Present: by the asserter, or by an agent under the mandate *)

Present(c, i, agent) ==
    /\ Begin(c) /\ IsOpen(i)
    /\ Goes(c, [Idle EXCEPT !.at = "verify", !.t = terms[i], !.i = i, !.agent = agent])
    /\ UNCHANGED <<money, desk, due, spent, past>>

\* The deadline, then MandateRegistry.Authorise, then the credential.
Verify(c, satisfied) ==
    /\ Is(c, "verify")
    /\ CASE call[c].i \in due -> Then(c, "expire")
         [] call[c].i \notin due /\ satisfied
                /\ (call[c].agent => spent + call[c].t.cash <= Limit) -> Then(c, "settle")
         [] OTHER -> Goes(c, Idle)
    /\ UNCHANGED <<money, desk, due, spent, past>>

\* (mutant: the reservation stays behind when the cash moves)
AfterPaying_Kept(t) == reserved

AfterPaying(t) == [reserved EXCEPT ![t.buyer] = Less(@, t.cash)]

\* (mutant: the error of settle is dropped)
Refused_Ignored(c) == [call[c] EXCEPT !.at = "release"]

\* refuse: counted and anchored, and the condition stays open
Refused(c) == Idle

\* settle's two failures; the second one lifts the reservation
SettleRefused(c) ==
    /\ Is(c, "settle")
    /\ LET t == call[c].t IN
       \/ /\ balance[t.buyer] < t.cash
          /\ UNCHANGED <<reserved, lapsed>>
       \/ /\ balance[t.buyer] >= t.cash /\ position[t.seller] < t.tokens
          /\ reserved' = [reserved EXCEPT ![t.buyer] = Less(@, t.cash)]
          /\ lapsed' = lapsed \cup {call[c].i}
    /\ Goes(c, Refused(c))
    /\ UNCHANGED <<balance, position, desk, due, spent, legs>>

Passed(book, from, to, n) ==
    [p \in Parties |-> book[p] + (IF p = to THEN n ELSE 0) - (IF p = from THEN n ELSE 0)]
Pays(t) == balance' = Passed(balance, t.buyer, t.seller, t.cash)
Delivers(t) == position' = Passed(position, t.seller, t.buyer, t.tokens)

Settle(c) ==
    /\ Is(c, "settle")
    /\ LET t == call[c].t IN
       /\ balance[t.buyer] >= t.cash /\ position[t.seller] >= t.tokens
       /\ reserved' = AfterPaying(t)
       /\ Pays(t) /\ Delivers(t)
    /\ legs' = [legs EXCEPT ![call[c].i] = @ + 1]
    /\ Then(c, IF call[c].agent THEN "consume" ELSE "release")
    /\ UNCHANGED <<desk, due, spent, lapsed>>

Consume(c) ==
    /\ Is(c, "consume")
    /\ spent' = spent + call[c].t.cash
    /\ Then(c, "release")
    /\ UNCHANGED <<money, desk, due, past>>

Release(c) ==
    /\ Is(c, "release")
    /\ status' = [status EXCEPT ![call[c].i] = "RELEASED"]
    /\ Goes(c, Idle)
    /\ UNCHANGED <<money, terms, due, spent, past>>
-----------------------------------------------------------------------------
(* Ending without a release: Cancel by a call, expire by Present or Tick *)

Cancel(c, i) ==
    /\ Begin(c) /\ IsOpen(i)
    /\ Goes(c, [Idle EXCEPT !.at = "unreserve", !.t = terms[i], !.i = i, !.end = "REFUNDED"])
    /\ UNCHANGED <<money, desk, due, spent, past>>

\* (mutant: a condition whose reservation is gone is passed over)
Overdue_Backed == {i \in due : IsOpen(i) /\ reserved[terms[i].buyer] >= terms[i].cash}

Overdue == {i \in due : IsOpen(i)}

Tick ==
    /\ call[Timer].at = "idle" /\ Cardinality(InProgress) < AtOnce
    /\ \E i \in Overdue :
        /\ IsFirst(i, Overdue)
        /\ Goes(Timer, [Idle EXCEPT !.at = "expire", !.i = i, !.todo = Overdue \ {i}])
    /\ UNCHANGED <<money, desk, due, spent, past, calls>>

\* the caller is done with the condition: on to Tick's next one, or the end
GoesOn(c) ==
    \/ call[c].todo = {} /\ Goes(c, Idle)
    \/ \E i \in call[c].todo :
        /\ IsFirst(i, call[c].todo)
        /\ Goes(c, [Idle EXCEPT !.at = "expire", !.i = i, !.todo = call[c].todo \ {i}])

Expire(c) ==
    /\ Is(c, "expire")
    /\ LET i == call[c].i IN
       \/ IsOpen(i) /\ Goes(c, [call[c] EXCEPT !.at = "unreserve", !.t = terms[i], !.end = "EXPIRED"])
       \/ ~IsOpen(i) /\ GoesOn(c)
    /\ UNCHANGED <<money, desk, due, spent, past>>

Unreserve(c) ==
    /\ Is(c, "unreserve")
    /\ LET t == call[c].t IN reserved' = [reserved EXCEPT ![t.buyer] = Less(@, t.cash)]
    /\ Then(c, "close")
    /\ UNCHANGED <<balance, position, desk, due, spent, past>>

Close(c) ==
    /\ Is(c, "close")
    /\ status' = [status EXCEPT ![call[c].i] = call[c].end]
    /\ GoesOn(c)
    /\ UNCHANGED <<money, terms, due, spent, past>>
-----------------------------------------------------------------------------
(* The rest of the rail, and time *)

\* UMIRail.SettleDvP: both legs under r.mu, against what is not reserved.
SettleDvP(t) ==
    /\ calls < MaxCalls /\ calls' = calls + 1 /\ Cardinality(InProgress) < AtOnce
    /\ t.seller # t.buyer
    /\ Available(t.buyer) >= t.cash /\ position[t.seller] >= t.tokens
    /\ Pays(t) /\ Delivers(t)
    /\ UNCHANGED <<reserved, desk, due, spent, past, crossed, call>>

Elapse(i) ==
    /\ status[i] = "OPEN" /\ i \notin due
    /\ due' = due \cup {i}
    /\ UNCHANGED <<money, desk, spent, past, crossed, call, calls>>

DeskInit ==
    /\ balance = OpeningCash /\ position = OpeningTokens
    /\ reserved = [p \in Parties |-> 0]
    /\ terms = [i \in Ids |-> NoTerms] /\ status = [i \in Ids |-> "NONE"]
    /\ due = {} /\ spent = 0
    /\ legs = [i \in Ids |-> 0] /\ lapsed = {} /\ crossed = {}
    /\ call = [c \in Callers |-> Idle] /\ calls = 0

Advance(c) ==
    \/ Reserve(c) \/ Register(c)
    \/ \E satisfied \in BOOLEAN : Verify(c, satisfied)
    \/ SettleRefused(c) \/ Settle(c) \/ Consume(c) \/ Release(c)
    \/ Expire(c) \/ Unreserve(c) \/ Close(c)

DeskNext ==
    \/ \E c \in DeskCalls :
        \/ \E t \in Terms : Open(c, t)
        \/ \E i \in Ids : \/ \E agent \in BOOLEAN : Present(c, i, agent)
                          \/ Cancel(c, i)
    \/ \E c \in Callers : Advance(c)
    \/ Tick
    \/ \E t \in Terms : SettleDvP(t)
    \/ \E i \in Ids : Elapse(i)

DeskSpec == DeskInit /\ [][DeskNext]_deskVars

\* Handlers run on once begun, and main.go's goroutine calls Tick every minute.
DeskFairSpec == DeskSpec /\ WF_deskVars(Tick) /\ \A c \in Callers : WF_deskVars(Advance(c))
-----------------------------------------------------------------------------
(* Properties *)

DeskTypeOK ==
    /\ balance \in [Parties -> Nat] /\ reserved \in [Parties -> Nat]
    /\ position \in [Parties -> Nat]
    /\ terms \in [Ids -> Terms] /\ status \in [Ids -> Statuses]
    /\ due \subseteq Ids /\ spent \in Nat
    /\ legs \in [Ids -> Nat] /\ lapsed \subseteq Ids /\ crossed \subseteq Ids
    /\ call \in [Callers -> Call] /\ calls \in 0..MaxCalls

\* Whatever calls race, no wallet has more reserved than it holds: the cash promised
\* to open conditions and spent by settlements is never the same paise twice
\* (CBDCWallet.available, the clamp in unreserve and settle).
ReservedWithinBalance == \A p \in Parties : reserved[p] <= balance[p]

\* A condition recorded as RELEASED has moved its legs (Present settles before it
\* writes the status).
ReleasedHasMoved == \A i \in Ids : status[i] = "RELEASED" => legs[i] > 0

Quiet == InProgress = {}
Promised(p) ==
    MapThenSumSet(LAMBDA i : terms[i].cash, {i \in Ids : status[i] = "OPEN" /\ terms[i].buyer = p})

\* Until a delivery first fails or two calls are on one condition at once, a wallet's
\* reservation is, whenever no call is in progress, the cash of its open conditions.
\* (settle lifts the reservation of a condition that stays OPEN when delivery fails.)
ReservedUntilLapse ==
    Quiet /\ lapsed = {} /\ crossed = {} => \A p \in Parties : reserved[p] = Promised(p)

\* What the record says of a condition is what happened to it, whatever races on the
\* other conditions, if no two calls were ever on this one at once: its legs moved once
\* if it is RELEASED, else never.
RecordIsTrue ==
    \A i \in Ids \ crossed :
        (\A c \in InProgress : call[c].i # i) => legs[i] = IF status[i] = "RELEASED" THEN 1 ELSE 0

\* conditional.go guarantee 3: "A condition cannot strand money. Every condition
\* carries a deadline, Tick refunds anything past it".
NothingStranded == \A i \in Ids : (i \in due) ~> (status[i] # "OPEN")

\* Present: a condition that is no longer OPEN is refused, so its legs move once, which
\* is checked and does not hold.
LegsMoveOnce == \A i \in Ids : legs[i] <= 1
=============================================================================
