------------------------------ MODULE Accounts ------------------------------
(***************************************************************************)
(* Sign-in sessions, organisations, invitations and verification codes of  *)
(* the serverless API: the routes of frontend/api/index.js and the store   *)
(* behind them, frontend/api/lib/authstore.js.  With a database configured *)
(* the instances share its rows and every query is a step of its own,      *)
(* between which other requests run; without one each instance keeps maps  *)
(* of its own and a store function runs to its end once it has started.    *)
(* Wrong codes are counted per instance in both.                           *)
(*                                                                         *)
(* A query may fail: the request answers an error and what it wrote stays. *)
(* Ids the code draws at random (tokens, organisations, invitations,       *)
(* codes) are the number of the request that made them.                    *)
(***************************************************************************)
EXTENDS Gates, Integers, FiniteSets

CONSTANTS
    Instances,
    Slots,          \* requests in flight at once
    Slugs,          \* names organisations ask for
    Identifiers,    \* addresses codes are sent to
    Values,         \* what a code may read
    Callers,        \* credentials requests come with
    Letters,        \* what invitations say: the address, an identity or None, the role
    MaxAttempts,    \* VERIFICATION_MAX_ATTEMPTS
    MaxRequests,    \* bound: requests
    MaxFaults       \* bound: failed queries

ASSUME AccountsConstants ==
    /\ "db" \notin Instances /\ IsFiniteSet(Slots)
    /\ Callers \subseteq Credentials /\ MaxAttempts \in Nat \ {0}
    /\ MaxRequests \in Nat /\ MaxFaults \in Nat

VARIABLES
    env,       \* the deployment, and whether it has a database
    rows,      \* what each store holds: the database, or the maps of an instance
    attempts,  \* instance -> identifier -> wrong codes counted in its window
    req,       \* the requests in flight
    past,      \* what answered requests used up, and verdicts heard (history)
    count, faults

vars == <<env, rows, attempts, req, past, count, faults>>
-----------------------------------------------------------------------------
(* Rows and requests *)
Stores == {"db"} \cup Instances
NoRows == [users |-> {}, sessions |-> {}, orgs |-> {}, members |-> {}, invites |-> {}, codes |-> {}, keys |-> {}]
Quiet == [kind |-> "none", pc |-> "idle"]
StoreOf_Local(i) == i \* (mutant: the maps are used although there is a database)
StoreOf(i) == IF env.db THEN "db" ELSE i
Of(s) == rows[StoreOf(req[s].at)]
Write(s, new) == rows' = [rows EXCEPT ![StoreOf(req[s].at)] = new]
To(s, pc) == req' = [req EXCEPT ![s].pc = pc]
Answer(s, what) == req' = [req EXCEPT ![s].pc = "answered", ![s].result = what]
UsedUp(s, what, n) ==
    req' = [req EXCEPT ![s].pc = "answered", ![s].result = "used", ![s].seen = <<what, StoreOf(req[s].at), n>>]
At(s, kind, pc) == req[s].kind = kind /\ req[s].pc = pc
Row(set, n) == CHOOSE x \in set : x.no = n
Has(set, n) == \E x \in set : x.no = n

\* A request arrives with credentials that get past the gates.
Arrive(s, kind, c, arg) ==
    /\ req[s].pc = "idle" /\ count < MaxRequests
    /\ \/ kind \in {"login", "lookup", "jwks"}
       \/ Verdict(env, [op |-> "invite", cred |-> c, subject |-> None, pay |-> None, signed |-> FALSE]) = 200
    /\ count' = count + 1
    /\ \E i \in Instances :
          req' = [req EXCEPT ![s] = [kind |-> kind, pc |-> "start", at |-> i, no |-> count + 1, result |-> "none",
                                     user |-> getUser(env, c), arg |-> arg, seen |-> None, before |-> past.used]]
    /\ UNCHANGED <<env, rows, attempts, past, faults>>

\* The client has its answer; what the request used up is used up from now on.
Return(s) ==
    /\ req[s].pc = "answered"
    /\ req' = [req EXCEPT ![s] = Quiet]
    /\ past' = IF req[s].result = "used" THEN [past EXCEPT !.used = @ \cup {req[s].seen}] ELSE past
    /\ UNCHANGED <<env, rows, attempts, count, faults>>

\* A query fails, or the instance is taken away: the request gets an error.
QueryFails(s) ==
    /\ env.db /\ faults < MaxFaults /\ req[s].pc \notin {"idle", "answered"}
    /\ faults' = faults + 1
    /\ Answer(s, "error")
    /\ UNCHANGED <<env, rows, attempts, past, count>>
-----------------------------------------------------------------------------
(* Sessions: POST /api/auth/login, GET /api/auth/session, POST logout *)

\* login, in a demo, as whom the body says: the user's row and the account's,
\* then the session's (apart here in memory too).  A login whose rows fail
\* is answered all the same.
Login(s) ==
    /\ At(s, "login", "start") /\ env.demo
    /\ Write(s, [Of(s) EXCEPT !.users = @ \cup {req[s].arg}])
    /\ To(s, "session")
    /\ UNCHANGED <<env, attempts, past, count, faults>>
LoginSession(s) ==
    /\ At(s, "login", "session")
    /\ Write(s, [Of(s) EXCEPT !.sessions = @ \cup {[no |-> req[s].no, who |-> req[s].arg]}])
    /\ Answer(s, "ok")
    /\ UNCHANGED <<env, attempts, past, count, faults>>
LoginRefused(s) == At(s, "login", "start") /\ ~env.demo /\ Answer(s, "404")
                   /\ UNCHANGED <<env, rows, attempts, past, count, faults>>

revokeSession_Kept(set, token) == set \* (mutant: logout only answers)
revokeSession(set, token) == {x \in set : x.no # token}

Logout(s) ==
    /\ At(s, "logout", "start")
    /\ Write(s, [Of(s) EXCEPT !.sessions = revokeSession(@, req[s].arg)])
    /\ UsedUp(s, "session", req[s].arg)
    /\ UNCHANGED <<env, attempts, past, count, faults>>

Lookup(s) ==
    /\ At(s, "lookup", "start")
    /\ Answer(s, IF Has(Of(s).sessions, req[s].arg) THEN "found" ELSE "404")
    /\ UNCHANGED <<env, rows, attempts, past, count, faults>>

\* getOrCreateJwtKeys: the newest key, else a new one.
Jwks(s) ==
    /\ At(s, "jwks", "start")
    /\ IF Of(s).keys # {} THEN Answer(s, "ok") /\ UNCHANGED rows
       ELSE IF env.db THEN To(s, "make") /\ UNCHANGED rows
       ELSE Write(s, [Of(s) EXCEPT !.keys = {req[s].no}]) /\ Answer(s, "ok")
    /\ UNCHANGED <<env, attempts, past, count, faults>>
JwksMake(s) ==
    /\ At(s, "jwks", "make")
    /\ Write(s, [Of(s) EXCEPT !.keys = @ \cup {req[s].no}])
    /\ Answer(s, "ok")
    /\ UNCHANGED <<env, attempts, past, count, faults>>
-----------------------------------------------------------------------------
(* Organisations and who belongs to them *)
RolesIn(set, org, who) == {m.role : m \in {x \in set : x.org = org /\ x.who = who}}
Member(org, u, role, why) == [org |-> org, who |-> u.id, person |-> u.person, role |-> role, why |-> why]

\* POST /api/orgs: the row, with its unique slug...
CreateOrg(s) ==
    /\ At(s, "org", "start")
    /\ IF \E o \in Of(s).orgs : o.slug = req[s].arg
       THEN Answer(s, "400") /\ UNCHANGED rows
       ELSE /\ Write(s, [Of(s) EXCEPT !.orgs = @ \cup {[no |-> req[s].no, slug |-> req[s].arg, by |-> req[s].user.id]}])
            /\ To(s, "owner")
    /\ UNCHANGED <<env, attempts, past, count, faults>>

\* ...then its owner, who cannot have a row in it yet...
AddOwner(s) ==
    /\ At(s, "org", "owner")
    /\ Write(s, [Of(s) EXCEPT !.members = @ \cup {Member(req[s].no, req[s].user, "owner", 0)}])
    /\ To(s, "user")
    /\ UNCHANGED <<env, attempts, past, count, faults>>

\* ...then the user.
AddUser(s) ==
    /\ At(s, "org", "user")
    /\ Write(s, [Of(s) EXCEPT !.users = @ \cup {req[s].user.id}])
    /\ Answer(s, "ok")
    /\ UNCHANGED <<env, attempts, past, count, faults>>

Supervising(u) == u.role \in SUPERVISORY
MayInvite_Member(u, roles) == Supervising(u) \/ roles # {} \* (mutant: any member may)
MayInvite(u, roles) == Supervising(u) \/ roles \cap {"owner", "admin"} # {}

\* POST /api/orgs/:id/invitations: the organisation is there, the caller may, the row.
\* Of several rows a person has in an organisation any may be the one found.
Invite(s) ==
    /\ At(s, "invite", "start")
    /\ LET roles == RolesIn(Of(s).members, req[s].arg.org, req[s].user.id) IN
       IF ~Has(Of(s).orgs, req[s].arg.org) THEN Answer(s, "404")
       ELSE \E role \in IF roles = {} THEN {"none"} ELSE roles :
               IF MayInvite(req[s].user, {role} \ {"none"}) THEN To(s, "row") ELSE Answer(s, "403")
    /\ UNCHANGED <<env, rows, attempts, past, count, faults>>
InviteRow(s) ==
    /\ At(s, "invite", "row")
    /\ Write(s, [Of(s) EXCEPT !.invites = @ \cup {[no |-> req[s].no, org |-> req[s].arg.org, email |-> req[s].arg.email,
                                                   pin |-> IF env.db THEN None ELSE req[s].arg.pin,
                                                   role |-> req[s].arg.role, status |-> "pending", by |-> req[s].user]}])
    /\ Answer(s, "ok")
    /\ UNCHANGED <<env, attempts, past, count, faults>>

\* GET members: for those in it.
Look(s) ==
    /\ At(s, "look", "start")
    /\ Answer(s, IF ~Has(Of(s).orgs, req[s].arg) THEN "404"
                 ELSE IF Supervising(req[s].user) \/ RolesIn(Of(s).members, req[s].arg, req[s].user.id) # {}
                 THEN "found" ELSE "403")
    /\ UNCHANGED <<env, rows, attempts, past, count, faults>>

\* invitationIsFor: pinned to an identity, else the address signed in with,
\* else, in a demo, the identity named in the address.
invitationIsFor_Either(inv, u) == \* (mutant: the identity named in the address is enough)
    inv.pin = u.id \/ inv.email \in {u.person, u.id}
invitationIsFor(inv, u) ==
    IF inv.pin # None THEN inv.pin = u.id
    ELSE IF u.person # None THEN u.person = inv.email
    ELSE env.demo /\ inv.email = u.id

SetStatus(set, n, st) == {IF x.no = n THEN [x EXCEPT !.status = st] ELSE x : x \in set}
Marked_Not(set, n) == set \* (mutant: an accepted invitation stays pending)
Marked(set, n) == SetStatus(set, n, "accepted")

\* acceptInvitation: read and judged; expired ones are marked so.
Accept(s) ==
    /\ At(s, "accept", "start")
    /\ LET n == req[s].arg
           may == Has(Of(s).invites, n) /\ invitationIsFor(Row(Of(s).invites, n), req[s].user)
           st == IF may THEN Row(Of(s).invites, n).status ELSE "refused"
       IN  CASE st \in {"refused", "accepted", "expired"} -> Answer(s, st) /\ UNCHANGED rows
             [] st = "lapsed" -> To(s, "expire") /\ UNCHANGED rows
             [] st = "pending" /\ env.db -> To(s, "mark") /\ UNCHANGED rows
             [] OTHER -> /\ Write(s, [Of(s) EXCEPT !.invites = Marked(@, n)])
                         /\ To(s, "look")
    /\ UNCHANGED <<env, attempts, past, count, faults>>
AcceptExpire(s) ==
    /\ At(s, "accept", "expire")
    /\ Write(s, [Of(s) EXCEPT !.invites = SetStatus(@, req[s].arg, "expired")])
    /\ Answer(s, "expired")
    /\ UNCHANGED <<env, attempts, past, count, faults>>
AcceptMark(s) ==
    /\ At(s, "accept", "mark")
    /\ Write(s, [Of(s) EXCEPT !.invites = Marked(@, req[s].arg)])
    /\ To(s, "look")
    /\ UNCHANGED <<env, attempts, past, count, faults>>

\* addMember: a row that is there already is answered as it is.
Invited(s) == Row(Of(s).invites, req[s].arg)
Joined(s) ==
    /\ Write(s, [Of(s) EXCEPT !.members = @ \cup {Member(Invited(s).org, req[s].user, Invited(s).role, req[s].arg)}])
    /\ UsedUp(s, "invite", req[s].arg)
AcceptLook(s) ==
    /\ At(s, "accept", "look")
    /\ IF RolesIn(Of(s).members, Invited(s).org, req[s].user.id) # {} THEN Answer(s, "already") /\ UNCHANGED rows
       ELSE IF env.db THEN To(s, "join") /\ UNCHANGED rows
       ELSE Joined(s)
    /\ UNCHANGED <<env, attempts, past, count, faults>>
AcceptJoin(s) ==
    /\ At(s, "accept", "join")
    /\ Joined(s)
    /\ UNCHANGED <<env, attempts, past, count, faults>>

\* A pending invitation's week passes.
InviteLapses(h) ==
    /\ \E x \in rows[h].invites :
          /\ x.status = "pending"
          /\ rows' = [rows EXCEPT ![h].invites = SetStatus(@, x.no, "lapsed")]
    /\ UNCHANGED <<env, attempts, req, past, count, faults>>
-----------------------------------------------------------------------------
(* Verification codes *)
LockedOut(i, ident) == attempts[i][ident] >= MaxAttempts
Missed_Forgets(n) == 1 \* (mutant: every miss opens a window of its own)
Missed(n) == n + 1

\* createVerification
Issue(s) ==
    /\ At(s, "issue", "start")
    /\ \E v \in Values :
          Write(s, [Of(s) EXCEPT !.codes = @ \cup {[no |-> req[s].no, ident |-> req[s].arg, value |-> v,
                                                    by |-> req[s].user.id, live |-> TRUE]}])
    /\ Answer(s, "ok")
    /\ UNCHANGED <<env, attempts, past, count, faults>>

Matching(s) == {x \in Of(s).codes : x.ident = req[s].arg.ident /\ x.value = req[s].arg.value}
Usable(x, u) == x.live /\ x.by \in {u.id, None}
Wrong(s) ==
    /\ attempts' = [attempts EXCEPT ![req[s].at][req[s].arg.ident] = Missed(@)]
    /\ past' = [past EXCEPT !.heard[req[s].at][req[s].arg.ident] = @ + 1]
    /\ Answer(s, "wrong")
Right(s, n) ==
    /\ attempts' = [attempts EXCEPT ![req[s].at][req[s].arg.ident] = 0]
    /\ past' = [past EXCEPT !.heard[req[s].at][req[s].arg.ident] = 0, !.uses[n] = @ + 1]
    /\ UsedUp(s, "code", n)

\* What a used code takes with it: in the database every code of its identifier.
Deleted_Never(set, x) == set \* (mutant: the code is left where it was)
Deleted(set, x) == IF env.db THEN {y \in set : y.ident # x.ident} ELSE set \ {x}

\* consumeVerification: not while locked out; then the newest live match, or in
\* memory the first match there is, dead or alive.
Judge(s) ==
    LET found == {x \in Matching(s) : env.db => x.live}
        pick == CHOOSE x \in found : \A y \in found : IF env.db THEN x.no >= y.no ELSE x.no <= y.no
    IN  IF found = {} \/ ~Usable(pick, req[s].user) THEN Wrong(s) /\ UNCHANGED rows
        ELSE IF env.db
        THEN /\ req' = [req EXCEPT ![s].pc = "use", ![s].seen = <<"code", "db", pick.no>>]
             /\ UNCHANGED <<rows, attempts, past>>
        ELSE Write(s, [Of(s) EXCEPT !.codes = Deleted(@, pick)]) /\ Right(s, pick.no)
Verify(s) ==
    /\ At(s, "verify", "start")
    /\ IF LockedOut(req[s].at, req[s].arg.ident) THEN Answer(s, "429") /\ UNCHANGED <<rows, attempts, past>>
       ELSE IF env.db THEN To(s, "query") /\ UNCHANGED <<rows, attempts, past>>
       ELSE Judge(s)
    /\ UNCHANGED <<env, count, faults>>
VerifyQuery(s) ==
    /\ At(s, "verify", "query")
    /\ Judge(s)
    /\ UNCHANGED <<env, count, faults>>
VerifyUse(s) ==
    /\ At(s, "verify", "use")
    /\ Write(s, [Of(s) EXCEPT !.codes = Deleted(@, [no |-> req[s].seen[3], ident |-> req[s].arg.ident])])
    /\ Right(s, req[s].seen[3])
    /\ UNCHANGED <<env, count, faults>>

\* Half an hour passes for a code, fifteen minutes for an instance's misses.
CodeLapses(h) ==
    /\ \E x \in rows[h].codes :
          x.live /\ rows' = [rows EXCEPT ![h].codes = (@ \ {x}) \cup {[x EXCEPT !.live = FALSE]}]
    /\ UNCHANGED <<env, attempts, req, past, count, faults>>
WindowLapses(i, ident) ==
    /\ attempts[i][ident] > 0
    /\ attempts' = [attempts EXCEPT ![i][ident] = 0]
    /\ past' = [past EXCEPT !.heard[i][ident] = 0]
    /\ UNCHANGED <<env, rows, req, count, faults>>
-----------------------------------------------------------------------------
Init ==
    /\ env \in [demo : BOOLEAN, switch : {TRUE}, issuer : {TRUE}, db : BOOLEAN]
    /\ rows = [h \in Stores |-> NoRows]
    /\ attempts = [i \in Instances |-> [d \in Identifiers |-> 0]]
    /\ req = [s \in Slots |-> Quiet]
    /\ past = [used |-> {}, uses |-> [n \in 1..MaxRequests |-> 0],
               heard |-> [i \in Instances |-> [d \in Identifiers |-> 0]]]
    /\ count = 0 /\ faults = 0

Numbers == 1..MaxRequests
Orgs == {o.no : o \in UNION {rows[h].orgs : h \in Stores}}
Sent == {x.no : x \in UNION {rows[h].invites : h \in Stores}}
Tokens == {x.no : x \in UNION {rows[h].sessions : h \in Stores}}
    \cup {u[3] : u \in {x \in past.used : x[1] = "session"}}

SessionSteps(s) ==
    \/ \E c \in Callers : (\E d \in Demo : Arrive(s, "login", c, d)) \/ Arrive(s, "jwks", c, None)
    \/ \E c \in Callers, t \in Tokens : Arrive(s, "logout", c, t) \/ Arrive(s, "lookup", c, t)
    \/ Login(s) \/ LoginSession(s) \/ LoginRefused(s) \/ Logout(s) \/ Lookup(s) \/ Jwks(s) \/ JwksMake(s)

OrgSteps(s) ==
    \/ \E c \in Callers, slug \in Slugs : Arrive(s, "org", c, slug)
    \/ \E c \in Callers, o \in Orgs :
          \/ Arrive(s, "look", c, o)
          \/ \E l \in Letters : Arrive(s, "invite", c, [org |-> o, email |-> l.email, pin |-> l.pin, role |-> l.role])
    \/ \E c \in Callers, n \in Sent : Arrive(s, "accept", c, n)
    \/ CreateOrg(s) \/ AddOwner(s) \/ AddUser(s) \/ Invite(s) \/ InviteRow(s) \/ Look(s)
    \/ Accept(s) \/ AcceptExpire(s) \/ AcceptMark(s) \/ AcceptLook(s) \/ AcceptJoin(s)
    \/ \E h \in Stores : InviteLapses(h)

CodeSteps(s) ==
    \/ \E c \in Callers, d \in Identifiers :
          \/ Arrive(s, "issue", c, d)
          \/ \E v \in Values : Arrive(s, "verify", c, [ident |-> d, value |-> v])
    \/ Issue(s) \/ Verify(s) \/ VerifyQuery(s) \/ VerifyUse(s)
    \/ \E h \in Stores : CodeLapses(h)
    \/ \E i \in Instances, d \in Identifiers : WindowLapses(i, d)

Next == \E s \in Slots : SessionSteps(s) \/ OrgSteps(s) \/ CodeSteps(s) \/ Return(s) \/ QueryFails(s)

Spec == Init /\ [][Next]_vars
-----------------------------------------------------------------------------
(* Properties *)

\* Every store holds rows of the kinds the tables have; requests are at a
\* point of the handler they are for.
TypeOK ==
    /\ \A h \in Stores :
          /\ \A o \in rows[h].orgs : o.no \in Numbers /\ o.slug \in Slugs
          /\ \A x \in rows[h].invites : x.status \in {"pending", "lapsed", "accepted", "expired"}
          /\ \A x \in rows[h].codes : x.ident \in Identifiers /\ x.value \in Values /\ x.live \in BOOLEAN
          /\ (h = "db") # env.db => rows[h] = NoRows
    /\ \A i \in Instances, d \in Identifiers : attempts[i][d] \in 0..MaxRequests
    /\ \A s \in Slots : req[s].pc \in {"idle", "start", "answered", "owner", "user", "row", "expire", "mark",
                                        "look", "join", "query", "use", "make", "session"}

\* Everyone in an organisation founded it, or took up an invitation that is
\* no longer open, was addressed to them and gave the role they have, and
\* only supervisors, owners and admins have sent any ("Knowing an
\* invitation id is not the same as having been invited", authstore.js).
MembersWereAskedIn ==
    \A h \in Stores :
        /\ \A m \in rows[h].members :
              IF m.why = 0 THEN m.role = "owner" /\ \E o \in rows[h].orgs : o.no = m.org /\ o.by = m.who
              ELSE \E x \in rows[h].invites :
                      /\ x.no = m.why /\ x.org = m.org /\ x.role = m.role /\ x.status # "pending"
                      /\ CASE x.pin # None -> m.who = x.pin
                           [] x.pin = None /\ m.person # None -> m.person = x.email
                           [] OTHER -> env.demo /\ m.who = x.email
        /\ \A x \in rows[h].invites :
              \/ x.by.role \in {"regulator", "admin"}
              \/ \E y \in rows[h].members : y.org = x.org /\ y.who = x.by.id /\ y.role \in {"owner", "admin"}

\* A code, an invitation or a session that an answered request used up is
\* not used by a request that comes after it; without a database, where a
\* store function runs to its end, no code verifies and no invitation
\* admits twice even when requests overlap.
UsedOnce ==
    /\ \A s \in Slots : req[s].pc = "answered" =>
          /\ req[s].result = "used" /\ req[s].kind # "logout" => req[s].seen \notin req[s].before
          /\ req[s].result = "found" /\ req[s].kind = "lookup" =>
                <<"session", StoreOf(req[s].at), req[s].arg>> \notin req[s].before
    /\ ~env.db => /\ \A n \in Numbers : past.uses[n] <= 1
                  /\ \A h \in Stores : \A x, y \in rows[h].members : x.why = y.why /\ x.why # 0 => x = y

\* An instance tells a guesser "wrong" at most MaxAttempts times in one
\* window, and with a database at most as many times more as requests were
\* already past the check when the last miss was counted ("Five misses and
\* that identifier stops answering for fifteen minutes", authstore.js).
GuessesAreRationed ==
    \A i \in Instances, d \in Identifiers :
        past.heard[i][d] <= MaxAttempts + (IF env.db THEN Cardinality(Slots) - 1 ELSE 0)
=============================================================================
