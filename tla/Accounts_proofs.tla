--------------------------- MODULE Accounts_proofs ---------------------------
(***************************************************************************)
(* Accounts and signing keys, for any number of instances, requests, codes *)
(* and calls, however their queries interleave and fail.                   *)
(*                                                                         *)
(* Members (MembersAreAskedIn, by AskedInv).  Members were founders or     *)
(* took up an invitation that was for them; what a request has in hand     *)
(* when it adds one is what it found in the rows, and invitations are      *)
(* written after the organisations they are to.                            *)
(*                                                                         *)
(* Credentials (CredentialsStayGood, by CredentialsInv).  Rows are of      *)
(* their kinds (TypedInv).  What was used up stays so in the rows          *)
(* (UsedInv), which with a database excludes a second use: the update says *)
(* whom it found.  Without one the maps of an instance are read and        *)
(* written in one step of the event loop (CodesLone, JoinsLone).  The      *)
(* verdicts an address hears on an instance are at most those counted,     *)
(* and what the requests in flight may still add (GuessInv).  And calls    *)
(* whose own fetch came through, or that found their key, know the keys    *)
(* of their time (KeysInv).                                                *)
(***************************************************************************)
EXTENDS MCScreens, FiniteSetTheorems, WellFoundedInduction, TLAPS

-----------------------------------------------------------------------------
(* Rows and requests *)

Own(s) == StoreOf(req[s].at)
Active(s) == req[s].pc # "idle"

Table(r) == r = [users |-> r.users, sessions |-> r.sessions, orgs |-> r.orgs, members |-> r.members,
                 invites |-> r.invites, codes |-> r.codes, keys |-> r.keys]
Request(kind, pc, at, no, result, user, arg, seen, before) ==
    [kind |-> kind, pc |-> pc, at |-> at, no |-> no, result |-> result, user |-> user, arg |-> arg, seen |-> seen,
     before |-> before]
IsRequest(r) == r = Request(r.kind, r.pc, r.at, r.no, r.result, r.user, r.arg, r.seen, r.before)
Places == {"start", "answered", "owner", "user", "row", "expire", "mark", "look", "join", "query", "use", "make", "session"}

\* Stores hold tables, slots hold requests, and no two requests have a number.
ShapesOK ==
    /\ env.db \in BOOLEAN /\ count \in 0..MaxRequests
    /\ DOMAIN rows = Stores /\ \A h \in Stores : Table(rows[h])
    /\ DOMAIN req = Slots
    /\ \A s \in Slots : \/ req[s] = Quiet
                        \/ /\ IsRequest(req[s]) /\ req[s].at \in Instances
                           /\ req[s].no \in 1..count /\ req[s].pc \in Places
    /\ \A s, t \in Slots : Active(s) /\ Active(t) /\ req[s].no = req[t].no => s = t

\* The request in s is now at pc, with a result and with what it has in hand.
Became(s, pc, result, seen) ==
    /\ DOMAIN req' = Slots /\ \A t \in Slots : t # s => req'[t] = req[t]
    /\ req'[s] = Request(req[s].kind, pc, req[s].at, req[s].no, result, req[s].user, req[s].arg, seen, req[s].before)

\* The store h now holds these tables, beside users and keys.
Turned(h, sessions, orgs, members, invites, codes) ==
    /\ DOMAIN rows' = Stores /\ \A g \in Stores : g # h => rows'[g] = rows[g]
    /\ Table(rows'[h])
    /\ rows'[h].sessions = sessions /\ rows'[h].orgs = orgs /\ rows'[h].members = members
    /\ rows'[h].invites = invites /\ rows'[h].codes = codes

LEMMA OwnIsAStore ==
    ASSUME ShapesOK, NEW s \in Slots, Active(s)
    PROVE  /\ Own(s) \in Stores /\ req[s].at \in Instances /\ IsRequest(req[s]) /\ req[s].no \in 1..count
           /\ req[s].pc \in Places
  <1>1. IsRequest(req[s]) /\ req[s].at \in Instances /\ req[s].no \in 1..count /\ req[s].pc \in Places
    BY DEF ShapesOK, Active, Quiet
  <1> QED  BY <1>1 DEF Own, StoreOf, Stores

LEMMA ToIs ==
    ASSUME ShapesOK, NEW s \in Slots, Active(s), NEW pc, To(s, pc)
    PROVE  Became(s, pc, req[s].result, req[s].seen)
  BY OwnIsAStore DEF To, Became, Request, IsRequest, ShapesOK

LEMMA SetsPc ==
    ASSUME NEW r, IsRequest(r), NEW a
    PROVE  [r EXCEPT !.pc = a] = Request(r.kind, a, r.at, r.no, r.result, r.user, r.arg, r.seen, r.before)
  BY DEF IsRequest, Request
LEMMA SetsResult ==
    ASSUME NEW r, IsRequest(r), NEW a
    PROVE  [r EXCEPT !.result = a] = Request(r.kind, r.pc, r.at, r.no, a, r.user, r.arg, r.seen, r.before)
  BY DEF IsRequest, Request
LEMMA SetsSeen ==
    ASSUME NEW r, IsRequest(r), NEW a
    PROVE  [r EXCEPT !.seen = a] = Request(r.kind, r.pc, r.at, r.no, r.result, r.user, r.arg, a, r.before)
  BY DEF IsRequest, Request
LEMMA FieldsOf ==
    ASSUME NEW a1, NEW a2, NEW a3, NEW a4, NEW a5, NEW a6, NEW a7, NEW a8, NEW a9,
           NEW r, r = Request(a1, a2, a3, a4, a5, a6, a7, a8, a9)
    PROVE  /\ IsRequest(r) /\ r.kind = a1 /\ r.pc = a2 /\ r.at = a3 /\ r.no = a4 /\ r.result = a5 /\ r.user = a6
           /\ r.arg = a7 /\ r.seen = a8 /\ r.before = a9
  BY DEF IsRequest, Request

LEMMA AnswerIs ==
    ASSUME ShapesOK, NEW s \in Slots, Active(s), NEW what, Answer(s, what)
    PROVE  Became(s, "answered", what, req[s].seen)
  <1> DEFINE r1 == [req[s] EXCEPT !.pc = "answered"]
             r2 == [r1 EXCEPT !.result = what]
  <1>1. IsRequest(req[s])  BY OwnIsAStore
  <1>2. r1 = Request(req[s].kind, "answered", req[s].at, req[s].no, req[s].result, req[s].user, req[s].arg,
                     req[s].seen, req[s].before)
    BY <1>1, SetsPc
  <1>3. r2 = Request(req[s].kind, "answered", req[s].at, req[s].no, what, req[s].user, req[s].arg, req[s].seen,
                     req[s].before)
    <2> HIDE DEF r1
    <2>1. IsRequest(r1) /\ r1.kind = req[s].kind /\ r1.pc = "answered" /\ r1.at = req[s].at /\ r1.no = req[s].no
          /\ r1.user = req[s].user /\ r1.arg = req[s].arg /\ r1.seen = req[s].seen /\ r1.before = req[s].before
      BY <1>2, FieldsOf
    <2> QED  BY <2>1, SetsResult
  <1>4. DOMAIN req' = Slots /\ (\A t \in Slots : t # s => req'[t] = req[t]) /\ req'[s] = r2
    BY DEF Answer, ShapesOK
  <1> QED  BY <1>3, <1>4, Zenon DEF Became

LEMMA UsedUpIs ==
    ASSUME ShapesOK, NEW s \in Slots, Active(s), NEW what, NEW n, UsedUp(s, what, n)
    PROVE  Became(s, "answered", "used", <<what, Own(s), n>>)
  <1> DEFINE q == <<what, Own(s), n>>
             r1 == [req[s] EXCEPT !.pc = "answered"]
             r2 == [r1 EXCEPT !.result = "used"]
             r3 == [r2 EXCEPT !.seen = q]
  <1>1. IsRequest(req[s])  BY OwnIsAStore
  <1>2. r1 = Request(req[s].kind, "answered", req[s].at, req[s].no, req[s].result, req[s].user, req[s].arg,
                     req[s].seen, req[s].before)
    BY <1>1, SetsPc
  <1>3. r2 = Request(req[s].kind, "answered", req[s].at, req[s].no, "used", req[s].user, req[s].arg, req[s].seen,
                     req[s].before)
    <2> HIDE DEF r1
    <2>1. IsRequest(r1) /\ r1.kind = req[s].kind /\ r1.pc = "answered" /\ r1.at = req[s].at /\ r1.no = req[s].no
          /\ r1.user = req[s].user /\ r1.arg = req[s].arg /\ r1.seen = req[s].seen /\ r1.before = req[s].before
      BY <1>2, FieldsOf
    <2> QED  BY <2>1, SetsResult
  <1>4. r3 = Request(req[s].kind, "answered", req[s].at, req[s].no, "used", req[s].user, req[s].arg, q, req[s].before)
    <2> HIDE DEF r1, r2, q
    <2>1. IsRequest(r2) /\ r2.kind = req[s].kind /\ r2.pc = "answered" /\ r2.at = req[s].at /\ r2.no = req[s].no
          /\ r2.result = "used" /\ r2.user = req[s].user /\ r2.arg = req[s].arg /\ r2.before = req[s].before
      BY <1>3, FieldsOf
    <2> QED  BY <2>1, SetsSeen
  <1>5. DOMAIN req' = Slots /\ (\A t \in Slots : t # s => req'[t] = req[t]) /\ req'[s] = r3
    BY DEF UsedUp, ShapesOK, Own
  <1> QED  BY <1>4, <1>5, Zenon DEF Became

LEMMA WriteUsers ==
    ASSUME ShapesOK, NEW s \in Slots, Active(s), NEW X, Write(s, [Of(s) EXCEPT !.users = X])
    PROVE  Turned(Own(s), Of(s).sessions, Of(s).orgs, Of(s).members, Of(s).invites, Of(s).codes)
  BY OwnIsAStore DEF Write, Of, Own, Turned, Table, ShapesOK
LEMMA WriteKeys ==
    ASSUME ShapesOK, NEW s \in Slots, Active(s), NEW X, Write(s, [Of(s) EXCEPT !.keys = X])
    PROVE  Turned(Own(s), Of(s).sessions, Of(s).orgs, Of(s).members, Of(s).invites, Of(s).codes)
  BY OwnIsAStore DEF Write, Of, Own, Turned, Table, ShapesOK
LEMMA WriteSessions ==
    ASSUME ShapesOK, NEW s \in Slots, Active(s), NEW X, Write(s, [Of(s) EXCEPT !.sessions = X])
    PROVE  Turned(Own(s), X, Of(s).orgs, Of(s).members, Of(s).invites, Of(s).codes)
  BY OwnIsAStore DEF Write, Of, Own, Turned, Table, ShapesOK
LEMMA WriteOrgs ==
    ASSUME ShapesOK, NEW s \in Slots, Active(s), NEW X, Write(s, [Of(s) EXCEPT !.orgs = X])
    PROVE  Turned(Own(s), Of(s).sessions, X, Of(s).members, Of(s).invites, Of(s).codes)
  BY OwnIsAStore DEF Write, Of, Own, Turned, Table, ShapesOK
LEMMA WriteMembers ==
    ASSUME ShapesOK, NEW s \in Slots, Active(s), NEW X, Write(s, [Of(s) EXCEPT !.members = X])
    PROVE  Turned(Own(s), Of(s).sessions, Of(s).orgs, X, Of(s).invites, Of(s).codes)
  BY OwnIsAStore DEF Write, Of, Own, Turned, Table, ShapesOK
LEMMA WriteInvites ==
    ASSUME ShapesOK, NEW s \in Slots, Active(s), NEW X, Write(s, [Of(s) EXCEPT !.invites = X])
    PROVE  Turned(Own(s), Of(s).sessions, Of(s).orgs, Of(s).members, X, Of(s).codes)
  BY OwnIsAStore DEF Write, Of, Own, Turned, Table, ShapesOK
LEMMA WriteCodes ==
    ASSUME ShapesOK, NEW s \in Slots, Active(s), NEW X, Write(s, [Of(s) EXCEPT !.codes = X])
    PROVE  Turned(Own(s), Of(s).sessions, Of(s).orgs, Of(s).members, Of(s).invites, X)
  BY OwnIsAStore DEF Write, Of, Own, Turned, Table, ShapesOK
LEMMA LapsingInvites ==
    ASSUME ShapesOK, NEW h \in Stores, NEW X, rows' = [rows EXCEPT ![h].invites = X]
    PROVE  Turned(h, rows[h].sessions, rows[h].orgs, rows[h].members, X, rows[h].codes)
  BY DEF Turned, Table, ShapesOK
LEMMA LapsingCodes ==
    ASSUME ShapesOK, NEW h \in Stores, NEW X, rows' = [rows EXCEPT ![h].codes = X]
    PROVE  Turned(h, rows[h].sessions, rows[h].orgs, rows[h].members, rows[h].invites, X)
  BY DEF Turned, Table, ShapesOK

-----------------------------------------------------------------------------
(* What the steps do, one by one *)

\* The rows of a store that only gains users or keys, or nothing.
Settled(h) == Turned(h, rows[h].sessions, rows[h].orgs, rows[h].members, rows[h].invites, rows[h].codes)

LEMMA NothingWritten ==
    ASSUME ShapesOK, NEW h \in Stores, rows' = rows
    PROVE  Settled(h)
  BY DEF ShapesOK, Settled, Turned

LEMMA AtIsActive ==
    ASSUME NEW s \in Slots, NEW kind, NEW pc, pc \in Places, At(s, kind, pc)
    PROVE  Active(s)
  BY DEF At, Active, Places

LEMMA LoginIs ==
    ASSUME ShapesOK, NEW s \in Slots, Login(s)
    PROVE  Became(s, "session", req[s].result, req[s].seen) /\ Settled(Own(s))
  <1>1. Active(s)  BY AtIsActive DEF Login, Places
  <1> QED  BY <1>1, ToIs, WriteUsers DEF Login, Settled, Of, Own

LEMMA LoginSessionIs ==
    ASSUME ShapesOK, NEW s \in Slots, LoginSession(s)
    PROVE  /\ Became(s, "answered", "ok", req[s].seen)
           /\ Turned(Own(s), Of(s).sessions \cup {[no |-> req[s].no, who |-> req[s].arg]}, Of(s).orgs, Of(s).members,
                     Of(s).invites, Of(s).codes)
  <1>1. Active(s)  BY AtIsActive DEF LoginSession, Places
  <1> QED  BY <1>1, AnswerIs, WriteSessions DEF LoginSession

LEMMA LoginRefusedIs ==
    ASSUME ShapesOK, NEW s \in Slots, LoginRefused(s)
    PROVE  Became(s, "answered", "404", req[s].seen) /\ Settled(Own(s))
  <1>1. Active(s)  BY AtIsActive DEF LoginRefused, Places
  <1> QED  BY <1>1, AnswerIs, NothingWritten, OwnIsAStore DEF LoginRefused

LEMMA LogoutIs ==
    ASSUME ShapesOK, NEW s \in Slots, Logout(s)
    PROVE  /\ Became(s, "answered", "used", <<"session", Own(s), req[s].arg>>)
           /\ Turned(Own(s), revokeSession(Of(s).sessions, req[s].arg), Of(s).orgs, Of(s).members, Of(s).invites,
                     Of(s).codes)
  <1>1. Active(s)  BY AtIsActive DEF Logout, Places
  <1> QED  BY <1>1, UsedUpIs, WriteSessions DEF Logout

LEMMA LookupIs ==
    ASSUME ShapesOK, NEW s \in Slots, Lookup(s)
    PROVE  /\ \/ Has(Of(s).sessions, req[s].arg) /\ Became(s, "answered", "found", req[s].seen)
              \/ Became(s, "answered", "404", req[s].seen)
           /\ Settled(Own(s))
  <1>1. Active(s)  BY AtIsActive DEF Lookup, Places
  <1> QED  BY <1>1, AnswerIs, NothingWritten, OwnIsAStore DEF Lookup

LEMMA JwksIs ==
    ASSUME ShapesOK, NEW s \in Slots, Jwks(s)
    PROVE  /\ \/ Became(s, "answered", "ok", req[s].seen)
              \/ Became(s, "make", req[s].result, req[s].seen)
           /\ Settled(Own(s))
  <1>1. Active(s) /\ Own(s) \in Stores  BY AtIsActive, OwnIsAStore DEF Jwks, Places
  <1>2. CASE rows' = rows  BY <1>1, <1>2, AnswerIs, ToIs, NothingWritten DEF Jwks
  <1>3. CASE rows' # rows
    <2>1. Write(s, [Of(s) EXCEPT !.keys = {req[s].no}]) /\ Answer(s, "ok")  BY <1>3 DEF Jwks
    <2> QED  BY <1>1, <2>1, AnswerIs, WriteKeys DEF Settled, Of, Own
  <1> QED  BY <1>2, <1>3

LEMMA JwksMakeIs ==
    ASSUME ShapesOK, NEW s \in Slots, JwksMake(s)
    PROVE  Became(s, "answered", "ok", req[s].seen) /\ Settled(Own(s))
  <1>1. Active(s)  BY AtIsActive DEF JwksMake, Places
  <1> QED  BY <1>1, AnswerIs, WriteKeys DEF JwksMake, Settled, Of, Own

LEMMA CreateOrgIs ==
    ASSUME ShapesOK, NEW s \in Slots, CreateOrg(s)
    PROVE  \/ Became(s, "answered", "400", req[s].seen) /\ Settled(Own(s))
           \/ /\ Became(s, "owner", req[s].result, req[s].seen)
              /\ Turned(Own(s), Of(s).sessions, Of(s).orgs \cup {[no |-> req[s].no, slug |-> req[s].arg, by |-> req[s].user.id]},
                        Of(s).members, Of(s).invites, Of(s).codes)
  <1>1. Active(s) /\ Own(s) \in Stores  BY AtIsActive, OwnIsAStore DEF CreateOrg, Places
  <1>2. CASE Answer(s, "400") /\ UNCHANGED rows  BY <1>1, <1>2, AnswerIs, NothingWritten
  <1>3. CASE /\ Write(s, [Of(s) EXCEPT !.orgs = @ \cup {[no |-> req[s].no, slug |-> req[s].arg, by |-> req[s].user.id]}])
             /\ To(s, "owner")
    BY <1>1, <1>3, ToIs, WriteOrgs
  <1> QED  BY <1>2, <1>3 DEF CreateOrg

LEMMA AddOwnerIs ==
    ASSUME ShapesOK, NEW s \in Slots, AddOwner(s)
    PROVE  /\ Became(s, "user", req[s].result, req[s].seen)
           /\ Turned(Own(s), Of(s).sessions, Of(s).orgs, Of(s).members \cup {Member(req[s].no, req[s].user, "owner", 0)},
                     Of(s).invites, Of(s).codes)
  <1>1. Active(s)  BY AtIsActive DEF AddOwner, Places
  <1> QED  BY <1>1, ToIs, WriteMembers DEF AddOwner

LEMMA AddUserIs ==
    ASSUME ShapesOK, NEW s \in Slots, AddUser(s)
    PROVE  Became(s, "answered", "ok", req[s].seen) /\ Settled(Own(s))
  <1>1. Active(s)  BY AtIsActive DEF AddUser, Places
  <1> QED  BY <1>1, AnswerIs, WriteUsers DEF AddUser, Settled, Of, Own

LEMMA InviteIs ==
    ASSUME ShapesOK, NEW s \in Slots, Invite(s)
    PROVE  /\ \/ \E what \in {"404", "403"} : Became(s, "answered", what, req[s].seen)
              \/ /\ Became(s, "row", req[s].result, req[s].seen)
                 /\ \/ Supervising(req[s].user)
                    \/ RolesIn(Of(s).members, req[s].arg.org, req[s].user.id) \cap {"owner", "admin"} # {}
           /\ Settled(Own(s))
  <1>1. Active(s) /\ Own(s) \in Stores  BY AtIsActive, OwnIsAStore DEF Invite, Places
  <1> DEFINE roles == RolesIn(Of(s).members, req[s].arg.org, req[s].user.id)
  <1>2. Settled(Own(s))  BY <1>1, NothingWritten DEF Invite
  <1>3. \/ Answer(s, "404") \/ Answer(s, "403")
        \/ To(s, "row") /\ \E role \in IF roles = {} THEN {"none"} ELSE roles : MayInvite(req[s].user, {role} \ {"none"})
    BY DEF Invite
  <1>4. CASE Answer(s, "404") \/ Answer(s, "403")  BY <1>1, <1>2, <1>4, AnswerIs
  <1>5. ASSUME To(s, "row"), NEW role \in IF roles = {} THEN {"none"} ELSE roles, MayInvite(req[s].user, {role} \ {"none"})
        PROVE  Supervising(req[s].user) \/ roles \cap {"owner", "admin"} # {}
    BY <1>5 DEF MayInvite
  <1> QED  BY <1>1, <1>2, <1>3, <1>4, <1>5, ToIs

Posted(s) == [no |-> req[s].no, org |-> req[s].arg.org, email |-> req[s].arg.email,
              pin |-> IF env.db THEN None ELSE req[s].arg.pin,
              role |-> req[s].arg.role, status |-> "pending", by |-> req[s].user]
LEMMA InviteRowIs ==
    ASSUME ShapesOK, NEW s \in Slots, InviteRow(s)
    PROVE  /\ Became(s, "answered", "ok", req[s].seen)
           /\ Turned(Own(s), Of(s).sessions, Of(s).orgs, Of(s).members, Of(s).invites \cup {Posted(s)}, Of(s).codes)
  <1>1. Active(s)  BY AtIsActive DEF InviteRow, Places
  <1>2. Write(s, [Of(s) EXCEPT !.invites = Of(s).invites \cup {Posted(s)}])  BY DEF InviteRow, Posted
  <1> QED  BY <1>1, <1>2, AnswerIs, WriteInvites DEF InviteRow

LEMMA LookIs ==
    ASSUME ShapesOK, NEW s \in Slots, Look(s)
    PROVE  (\E what : Became(s, "answered", what, req[s].seen)) /\ Settled(Own(s))
  <1>1. Active(s)  BY AtIsActive DEF Look, Places
  <1>2. PICK what : Answer(s, what)  BY DEF Look
  <1> QED  BY <1>1, <1>2, AnswerIs, NothingWritten, OwnIsAStore DEF Look

\* The invitation a request is about, found and addressed to who asks.
May(s) == Has(Of(s).invites, req[s].arg) /\ invitationIsFor(Row(Of(s).invites, req[s].arg), req[s].user)
Standing(s) == Row(Of(s).invites, req[s].arg).status
LEMMA AcceptIs ==
    ASSUME ShapesOK, NEW s \in Slots, Accept(s)
    PROVE  \/ /\ Settled(Own(s))
              /\ \/ \E st \in {"refused", "accepted", "expired"} : Became(s, "answered", st, req[s].seen)
                 \/ May(s) /\ Became(s, "expire", req[s].result, req[s].seen)
                 \/ May(s) /\ Standing(s) = "pending" /\ env.db /\ Became(s, "mark", req[s].result, req[s].seen)
           \/ /\ May(s) /\ Standing(s) \notin {"refused", "accepted", "expired", "lapsed"}
              /\ Standing(s) = "pending" => ~env.db
              /\ Became(s, "look", req[s].result, req[s].seen)
              /\ Turned(Own(s), Of(s).sessions, Of(s).orgs, Of(s).members, Marked(Of(s).invites, req[s].arg), Of(s).codes)
  <1>1. Active(s) /\ Own(s) \in Stores  BY AtIsActive, OwnIsAStore DEF Accept, Places
  <1> DEFINE st == IF May(s) THEN Standing(s) ELSE "refused"
  <1>2. CASE st \in {"refused", "accepted", "expired"}
    <2>1. Answer(s, st) /\ UNCHANGED rows  BY <1>2 DEF Accept, May, Standing
    <2> QED  BY <1>1, <1>2, <2>1, AnswerIs, NothingWritten
  <1>3. CASE st = "lapsed"
    <2>1. To(s, "expire") /\ UNCHANGED rows  BY <1>3 DEF Accept, May, Standing
    <2> QED  BY <1>1, <1>3, <2>1, ToIs, NothingWritten
  <1>4. CASE st = "pending" /\ env.db
    <2>1. To(s, "mark") /\ UNCHANGED rows  BY <1>4 DEF Accept, May, Standing
    <2> QED  BY <1>1, <1>4, <2>1, ToIs, NothingWritten
  <1>5. CASE st \notin {"refused", "accepted", "expired", "lapsed"} /\ ~(st = "pending" /\ env.db)
    <2>1. Write(s, [Of(s) EXCEPT !.invites = Marked(@, req[s].arg)]) /\ To(s, "look")
      BY <1>5 DEF Accept, May, Standing
    <2> QED  BY <1>1, <1>5, <2>1, ToIs, WriteInvites
  <1> QED  BY <1>2, <1>3, <1>4, <1>5

LEMMA AcceptExpireIs ==
    ASSUME ShapesOK, NEW s \in Slots, AcceptExpire(s)
    PROVE  /\ Became(s, "answered", "expired", req[s].seen)
           /\ Turned(Own(s), Of(s).sessions, Of(s).orgs, Of(s).members, SetStatus(Of(s).invites, req[s].arg, "expired"),
                     Of(s).codes)
  <1>1. Active(s)  BY AtIsActive DEF AcceptExpire, Places
  <1> QED  BY <1>1, AnswerIs, WriteInvites DEF AcceptExpire

LEMMA AcceptMarkIs ==
    ASSUME ShapesOK, NEW s \in Slots, AcceptMark(s)
    PROVE  /\ Became(s, "look", req[s].result, req[s].seen)
           /\ Turned(Own(s), Of(s).sessions, Of(s).orgs, Of(s).members, Marked(Of(s).invites, req[s].arg), Of(s).codes)
  <1>1. Active(s)  BY AtIsActive DEF AcceptMark, Places
  <1> QED  BY <1>1, ToIs, WriteInvites DEF AcceptMark

Newcomer(s) == Member(Invited(s).org, req[s].user, Invited(s).role, req[s].arg)
LEMMA JoinedIs ==
    ASSUME ShapesOK, NEW s \in Slots, Active(s), Joined(s)
    PROVE  /\ Became(s, "answered", "used", <<"invite", Own(s), req[s].arg>>)
           /\ Turned(Own(s), Of(s).sessions, Of(s).orgs, Of(s).members \cup {Newcomer(s)}, Of(s).invites, Of(s).codes)
  <1>1. Write(s, [Of(s) EXCEPT !.members = Of(s).members \cup {Newcomer(s)}])  BY DEF Joined, Newcomer
  <1> QED  BY <1>1, UsedUpIs, WriteMembers DEF Joined

LEMMA AcceptLookIs ==
    ASSUME ShapesOK, NEW s \in Slots, AcceptLook(s)
    PROVE  \/ /\ Settled(Own(s))
              /\ \/ Became(s, "answered", "already", req[s].seen)
                 \/ env.db /\ Became(s, "join", req[s].result, req[s].seen)
           \/ ~env.db /\ Joined(s)
  <1>1. Active(s) /\ Own(s) \in Stores  BY AtIsActive, OwnIsAStore DEF AcceptLook, Places
  <1> QED  BY <1>1, AnswerIs, ToIs, NothingWritten DEF AcceptLook

LEMMA IssueIs ==
    ASSUME ShapesOK, NEW s \in Slots, Issue(s)
    PROVE  /\ Became(s, "answered", "ok", req[s].seen)
           /\ \E v \in Values :
                Turned(Own(s), Of(s).sessions, Of(s).orgs, Of(s).members, Of(s).invites,
                       Of(s).codes \cup {[no |-> req[s].no, ident |-> req[s].arg, value |-> v, by |-> req[s].user.id,
                                          live |-> TRUE]})
  <1>1. Active(s)  BY AtIsActive DEF Issue, Places
  <1>2. PICK v \in Values :
          Write(s, [Of(s) EXCEPT !.codes = @ \cup {[no |-> req[s].no, ident |-> req[s].arg, value |-> v,
                                                    by |-> req[s].user.id, live |-> TRUE]}])
    BY DEF Issue
  <1> QED  BY <1>1, <1>2, AnswerIs, WriteCodes DEF Issue

LEMMA QueryFailsIs ==
    ASSUME ShapesOK, NEW s \in Slots, QueryFails(s)
    PROVE  Active(s) /\ Became(s, "answered", "error", req[s].seen) /\ Settled(Own(s))
  <1>1. Active(s)  BY DEF QueryFails, Active
  <1> QED  BY <1>1, AnswerIs, NothingWritten, OwnIsAStore DEF QueryFails

\* The code a request finds among those that match, the newest or the oldest.
Found(s) == {x \in Matching(s) : env.db => x.live}
Pick(s) == CHOOSE x \in Found(s) : \A y \in Found(s) : IF env.db THEN x.no >= y.no ELSE x.no <= y.no
Unsettled(s) == UNCHANGED <<rows, attempts, past>>

LEMMA WrongIs ==
    ASSUME ShapesOK, NEW s \in Slots, Active(s), Wrong(s)
    PROVE  Became(s, "answered", "wrong", req[s].seen)
  BY AnswerIs DEF Wrong

LEMMA RightIs ==
    ASSUME ShapesOK, NEW s \in Slots, Active(s), NEW n, Right(s, n)
    PROVE  Became(s, "answered", "used", <<"code", Own(s), n>>)
  BY UsedUpIs DEF Right

LEMMA ToUseIs ==
    ASSUME ShapesOK, NEW s \in Slots, Active(s), NEW n,
           req' = [req EXCEPT ![s].pc = "use", ![s].seen = <<"code", "db", n>>]
    PROVE  Became(s, "use", req[s].result, <<"code", "db", n>>)
  <1> DEFINE q == <<"code", "db", n>>
             r1 == [req[s] EXCEPT !.pc = "use"]
             r2 == [r1 EXCEPT !.seen = q]
  <1>1. IsRequest(req[s])  BY OwnIsAStore
  <1>2. r1 = Request(req[s].kind, "use", req[s].at, req[s].no, req[s].result, req[s].user, req[s].arg,
                     req[s].seen, req[s].before)
    BY <1>1, SetsPc
  <1>3. r2 = Request(req[s].kind, "use", req[s].at, req[s].no, req[s].result, req[s].user, req[s].arg, q, req[s].before)
    <2> HIDE DEF r1, q
    <2>1. IsRequest(r1) /\ r1.kind = req[s].kind /\ r1.pc = "use" /\ r1.at = req[s].at /\ r1.no = req[s].no
          /\ r1.result = req[s].result /\ r1.user = req[s].user /\ r1.arg = req[s].arg /\ r1.before = req[s].before
      BY <1>2, FieldsOf
    <2> QED  BY <2>1, SetsSeen
  <1>4. DOMAIN req' = Slots /\ (\A t \in Slots : t # s => req'[t] = req[t]) /\ req'[s] = r2
    BY DEF ShapesOK
  <1> QED  BY <1>3, <1>4, Zenon DEF Became

LEMMA JudgeIs ==
    ASSUME ShapesOK, NEW s \in Slots, Active(s), Judge(s)
    PROVE  \/ Wrong(s) /\ Became(s, "answered", "wrong", req[s].seen) /\ Settled(Own(s))
           \/ /\ env.db /\ Found(s) # {}
              /\ Became(s, "use", req[s].result, <<"code", "db", Pick(s).no>>)
              /\ Settled(Own(s)) /\ UNCHANGED <<attempts, past>>
           \/ /\ ~env.db /\ Found(s) # {}
              /\ Right(s, Pick(s).no) /\ Became(s, "answered", "used", <<"code", Own(s), Pick(s).no>>)
              /\ Turned(Own(s), Of(s).sessions, Of(s).orgs, Of(s).members, Of(s).invites, Deleted(Of(s).codes, Pick(s)))
  <1>1. Own(s) \in Stores  BY OwnIsAStore
  <1>2. CASE Found(s) = {} \/ ~Usable(Pick(s), req[s].user)
    <2>1. Wrong(s) /\ UNCHANGED rows  BY <1>2 DEF Judge, Found, Pick
    <2> QED  BY <1>1, <2>1, WrongIs, NothingWritten
  <1>3. CASE ~(Found(s) = {} \/ ~Usable(Pick(s), req[s].user)) /\ env.db
    <2>1. /\ req' = [req EXCEPT ![s].pc = "use", ![s].seen = <<"code", "db", Pick(s).no>>]
          /\ UNCHANGED <<rows, attempts, past>>
      BY <1>3 DEF Judge, Found, Pick
    <2> QED  BY <1>1, <1>3, <2>1, ToUseIs, NothingWritten
  <1>4. CASE ~(Found(s) = {} \/ ~Usable(Pick(s), req[s].user)) /\ ~env.db
    <2>1. Write(s, [Of(s) EXCEPT !.codes = Deleted(@, Pick(s))]) /\ Right(s, Pick(s).no)
      BY <1>4 DEF Judge, Found, Pick
    <2> QED  BY <1>1, <1>4, <2>1, RightIs, WriteCodes
  <1> QED  BY <1>2, <1>3, <1>4

LEMMA VerifyIs ==
    ASSUME ShapesOK, NEW s \in Slots, Verify(s)
    PROVE  \/ /\ Settled(Own(s)) /\ UNCHANGED <<attempts, past>>
              /\ \/ Became(s, "answered", "429", req[s].seen)
                 \/ /\ env.db /\ ~LockedOut(req[s].at, req[s].arg.ident)
                    /\ Became(s, "query", req[s].result, req[s].seen)
           \/ ~env.db /\ ~LockedOut(req[s].at, req[s].arg.ident) /\ Judge(s)
  <1>1. Active(s) /\ Own(s) \in Stores  BY AtIsActive, OwnIsAStore DEF Verify, Places
  <1> QED  BY <1>1, AnswerIs, ToIs, NothingWritten DEF Verify

LEMMA VerifyUseIs ==
    ASSUME ShapesOK, NEW s \in Slots, VerifyUse(s)
    PROVE  /\ Became(s, "answered", "used", <<"code", Own(s), req[s].seen[3]>>)
           /\ Turned(Own(s), Of(s).sessions, Of(s).orgs, Of(s).members, Of(s).invites,
                     Deleted(Of(s).codes, [no |-> req[s].seen[3], ident |-> req[s].arg.ident]))
  <1>1. Active(s)  BY AtIsActive DEF VerifyUse, Places
  <1> QED  BY <1>1, RightIs, WriteCodes DEF VerifyUse

LEMMA InviteLapsesIs ==
    ASSUME ShapesOK, NEW h \in Stores, InviteLapses(h)
    PROVE  /\ req' = req
           /\ \E x \in rows[h].invites :
                /\ x.status = "pending"
                /\ Turned(h, rows[h].sessions, rows[h].orgs, rows[h].members, SetStatus(rows[h].invites, x.no, "lapsed"),
                          rows[h].codes)
  <1>1. PICK x \in rows[h].invites :
          /\ x.status = "pending"
          /\ rows' = [rows EXCEPT ![h].invites = SetStatus(@, x.no, "lapsed")]
    BY DEF InviteLapses
  <1> QED  BY <1>1, LapsingInvites DEF InviteLapses

LEMMA CodeLapsesIs ==
    ASSUME ShapesOK, NEW h \in Stores, CodeLapses(h)
    PROVE  /\ req' = req
           /\ \E x \in rows[h].codes :
                Turned(h, rows[h].sessions, rows[h].orgs, rows[h].members, rows[h].invites,
                       (rows[h].codes \ {x}) \cup {[x EXCEPT !.live = FALSE]})
  <1>1. PICK x \in rows[h].codes :
          rows' = [rows EXCEPT ![h].codes = (@ \ {x}) \cup {[x EXCEPT !.live = FALSE]}]
    BY DEF CodeLapses
  <1> QED  BY <1>1, LapsingCodes DEF CodeLapses

-----------------------------------------------------------------------------
(* Members were asked in *)

\* What nothing takes back: an invitation keeps what it says, and once it is not open it stays so.
Same(x, y) ==
    /\ y.no = x.no /\ y.org = x.org /\ y.email = x.email /\ y.pin = x.pin /\ y.role = x.role /\ y.by = x.by
    /\ x.status # "pending" => y.status # "pending"
Lasts(h) ==
    /\ rows[h].orgs \subseteq rows'[h].orgs /\ rows[h].members \subseteq rows'[h].members
    /\ \A x \in rows[h].invites : \E y \in rows'[h].invites : Same(x, y)
Stays(h) ==
    /\ rows'[h].orgs = rows[h].orgs /\ rows'[h].members = rows[h].members /\ rows'[h].invites = rows[h].invites

Letter(x) == x = [no |-> x.no, org |-> x.org, email |-> x.email, pin |-> x.pin, role |-> x.role, status |-> x.status, by |-> x.by]
Numbered(h) ==
    /\ \A x \in rows[h].invites : Letter(x) /\ x.no \in 1..count
    /\ \A x, y \in rows[h].invites : x.no = y.no => x = y
\* The number of a request that has yet to write its invitation is on none.
Unwritten(s) == req[s].kind = "invite" /\ req[s].pc \in {"start", "row"}
Fresh(s) == Unwritten(s) => \A h \in Stores : \A x \in rows[h].invites : x.no # req[s].no

Fits(x, m) ==
    CASE x.pin # None -> m.who = x.pin
      [] x.pin = None /\ m.person # None -> m.person = x.email
      [] OTHER -> env.demo /\ m.who = x.email
MemberAsked(h, m) ==
    IF m.why = 0 THEN m.role = "owner" /\ \E o \in rows[h].orgs : o.no = m.org /\ o.by = m.who
    ELSE \E x \in rows[h].invites :
            x.no = m.why /\ x.org = m.org /\ x.role = m.role /\ x.status # "pending" /\ Fits(x, m)
InviteBacked(h, x) ==
    \/ x.by.role \in {"regulator", "admin"}
    \/ \E y \in rows[h].members : y.org = x.org /\ y.who = x.by.id /\ y.role \in {"owner", "admin"}

\* What a request has made sure of on its way.
Accepting(s) ==
    req[s].kind = "accept" =>
        /\ req[s].arg \in 1..count
        /\ req[s].pc \in {"mark", "look", "join"} =>
              \E x \in rows[Own(s)].invites :
                  /\ x.no = req[s].arg /\ invitationIsFor(x, req[s].user)
                  /\ req[s].pc # "mark" => x.status # "pending"
Founding(s) == At(s, "org", "owner") => \E o \in rows[Own(s)].orgs : o.no = req[s].no /\ o.by = req[s].user.id
Inviting(s) ==
    At(s, "invite", "row") =>
        \/ Supervising(req[s].user)
        \/ \E y \in rows[Own(s)].members :
              y.org = req[s].arg.org /\ y.who = req[s].user.id /\ y.role \in {"owner", "admin"}
Underway(s) == Accepting(s) /\ Founding(s) /\ Inviting(s)

AskedInv ==
    /\ ShapesOK
    /\ \A h \in Stores : Numbered(h)
    /\ \A s \in Slots : Fresh(s) /\ Underway(s)
    /\ \A h \in Stores : /\ \A m \in rows[h].members : MemberAsked(h, m)
                         /\ \A x \in rows[h].invites : InviteBacked(h, x)

LEMMA AskedInvSays == AskedInv => MembersWereAskedIn
  BY DEF AskedInv, MembersWereAskedIn, MemberAsked, InviteBacked, Fits

-----------------------------------------------------------------------------
(* Shapes and frames *)

LEMMA ShapesOfInit == Init => ShapesOK
  BY AccountsConstants DEF Init, ShapesOK, Table, NoRows, Quiet, Active

LEMMA ShapesOfStep ==
    ASSUME ShapesOK, NEW s \in Slots, Active(s), env' = env, count' = count,
           NEW pc \in Places, NEW result, NEW seen, Became(s, pc, result, seen),
           NEW h, NEW se, NEW or, NEW me, NEW in, NEW co, Turned(h, se, or, me, in, co)
    PROVE  ShapesOK'
  <1>1. /\ IsRequest(req'[s]) /\ req'[s].at = req[s].at /\ req'[s].no = req[s].no /\ req'[s].pc = pc
    BY FieldsOf DEF Became
  <1>2. req[s].at \in Instances /\ req[s].no \in 1..count  BY OwnIsAStore
  <1>3. DOMAIN rows' = Stores /\ \A g \in Stores : Table(rows'[g])
    BY DEF ShapesOK, Turned
  <1>4. DOMAIN req' = Slots /\ \A t \in Slots : t # s => req'[t] = req[t]  BY DEF Became
  <1>5. \A t \in Slots : \/ req'[t] = Quiet
                         \/ /\ IsRequest(req'[t]) /\ req'[t].at \in Instances
                            /\ req'[t].no \in 1..count' /\ req'[t].pc \in Places
    BY <1>1, <1>2, <1>4 DEF ShapesOK
  <1>6. ASSUME NEW t \in Slots, NEW u \in Slots, req'[t].pc # "idle", req'[u].pc # "idle", req'[t].no = req'[u].no
        PROVE  t = u
    BY <1>1, <1>4, <1>6 DEF ShapesOK, Active
  <1> QED  BY <1>3, <1>4, <1>5, <1>6 DEF ShapesOK, Active, IsRequest, Table

LEMMA ShapesOfLapse ==
    ASSUME ShapesOK, req' = req, env' = env, count' = count,
           NEW h, NEW se, NEW or, NEW me, NEW in, NEW co, Turned(h, se, or, me, in, co)
    PROVE  ShapesOK'
  BY DEF ShapesOK, Turned, Active, Table, IsRequest

LEMMA ShapesOfReturn ==
    ASSUME ShapesOK, NEW s \in Slots, Return(s)
    PROVE  ShapesOK'
  <1>1. DOMAIN req' = Slots /\ (\A t \in Slots : t # s => req'[t] = req[t]) /\ req'[s] = Quiet
    BY DEF Return, ShapesOK
  <1>2. rows' = rows /\ env' = env /\ count' = count  BY DEF Return
  <1>3. \A t \in Slots : \/ req'[t] = Quiet
                         \/ /\ IsRequest(req'[t]) /\ req'[t].at \in Instances
                            /\ req'[t].no \in 1..count' /\ req'[t].pc \in Places
    BY <1>1, <1>2 DEF ShapesOK
  <1>4. \A t, u \in Slots : req'[t].pc # "idle" /\ req'[u].pc # "idle" /\ req'[t].no = req'[u].no => t = u
    BY <1>1 DEF ShapesOK, Active, Quiet
  <1> QED  BY <1>1, <1>2, <1>3, <1>4 DEF ShapesOK, Active, Table, IsRequest

\* A request arrives.
Came(s, kind, i, user, arg) == req'[s] = Request(kind, "start", i, count + 1, "none", user, arg, None, past.used)
LEMMA ArriveIs ==
    ASSUME ShapesOK, NEW s \in Slots, NEW kind, NEW c, NEW arg, Arrive(s, kind, c, arg)
    PROVE  /\ ~Active(s) /\ count < MaxRequests /\ count' = count + 1
           /\ DOMAIN req' = Slots /\ \A t \in Slots : t # s => req'[t] = req[t]
           /\ \E i \in Instances : Came(s, kind, i, getUser(env, c), arg)
           /\ UNCHANGED <<env, rows, attempts, past, faults>>
  <1>1. PICK i \in Instances :
          req' = [req EXCEPT ![s] = [kind |-> kind, pc |-> "start", at |-> i, no |-> count + 1, result |-> "none",
                                     user |-> getUser(env, c), arg |-> arg, seen |-> None, before |-> past.used]]
    BY DEF Arrive
  <1>2. req' = [req EXCEPT ![s] = Request(kind, "start", i, count + 1, "none", getUser(env, c), arg, None, past.used)]
    BY <1>1 DEF Request
  <1>3. /\ DOMAIN req' = Slots /\ \A t \in Slots : t # s => req'[t] = req[t]
        /\ Came(s, kind, i, getUser(env, c), arg)
    BY <1>2 DEF ShapesOK, Came
  <1> QED  BY <1>3 DEF Arrive, Active

LEMMA ShapesOfArrive ==
    ASSUME ShapesOK, NEW s \in Slots, NEW kind, NEW c, NEW arg, Arrive(s, kind, c, arg)
    PROVE  ShapesOK'
  <1>1. PICK i \in Instances : Came(s, kind, i, getUser(env, c), arg)  BY ArriveIs
  <1>2. IsRequest(req'[s]) /\ req'[s].at = i /\ req'[s].no = count + 1 /\ req'[s].pc = "start"
    BY <1>1, FieldsOf DEF Came
  <1>3. /\ count < MaxRequests /\ count' = count + 1 /\ env' = env /\ rows' = rows
        /\ DOMAIN req' = Slots /\ \A t \in Slots : t # s => req'[t] = req[t]
    BY ArriveIs
  <1>4. count \in Nat /\ count + 1 \in 0..MaxRequests  BY <1>3, AccountsConstants DEF ShapesOK
  <1>5. \A t \in Slots : \/ req'[t] = Quiet
                         \/ /\ IsRequest(req'[t]) /\ req'[t].at \in Instances
                            /\ req'[t].no \in 1..count' /\ req'[t].pc \in Places
    <2> TAKE t \in Slots
    <2>1. CASE t = s  BY <1>2, <1>3, <1>4, <2>1 DEF Places
    <2>2. CASE t # s  BY <1>3, <1>4, <2>2 DEF ShapesOK
    <2> QED  BY <2>1, <2>2
  <1>6. ASSUME NEW t \in Slots, NEW u \in Slots, req'[t].pc # "idle", req'[u].pc # "idle", req'[t].no = req'[u].no
        PROVE  t = u
    <2>1. \A v \in Slots : v # s /\ req'[v].pc # "idle" => req'[v] = req[v] /\ Active(v) /\ req[v].no \in 1..count
      BY <1>3, OwnIsAStore DEF Active
    <2>2. CASE t # s /\ u # s  BY <1>6, <2>1, <2>2 DEF ShapesOK
    <2>3. CASE t = s \/ u = s  BY <1>2, <1>4, <1>6, <2>1, <2>3
    <2> QED  BY <2>2, <2>3
  <1> QED  BY <1>3, <1>4, <1>5, <1>6 DEF ShapesOK, Active, IsRequest, Table

LEMMA RestampedIs ==
    ASSUME NEW S, \A x \in S : Letter(x), NEW n, NEW st, st # "pending",
           \A x, y \in S : x.no = y.no => x = y
    PROVE  /\ \A x \in S : \E y \in SetStatus(S, n, st) : Same(x, y) /\ Letter(y) /\ (x.no = n => y.status = st)
           /\ \A y \in SetStatus(S, n, st) : Letter(y) /\ \E x \in S : Same(x, y)
           /\ \A x, y \in SetStatus(S, n, st) : x.no = y.no => x = y
  <1> DEFINE new(x) == IF x.no = n THEN [x EXCEPT !.status = st] ELSE x
  <1>1. ASSUME NEW x \in S
        PROVE  Same(x, new(x)) /\ Letter(new(x)) /\ (x.no = n => new(x).status = st)
    <2>1. CASE x.no # n  BY <2>1 DEF Same
    <2>2. CASE x.no = n
      <3>1. new(x) = [no |-> x.no, org |-> x.org, email |-> x.email, pin |-> x.pin, role |-> x.role, status |-> st,
                      by |-> x.by]
        BY <2>2 DEF Letter
      <3> HIDE DEF new
      <3> QED  BY <3>1 DEF Same, Letter
    <2> QED  BY <2>1, <2>2
  <1>2. SetStatus(S, n, st) = {new(x) : x \in S}  BY DEF SetStatus
  <1> HIDE DEF new
  <1>3. \A x \in S : new(x) \in SetStatus(S, n, st)  BY <1>2
  <1>4. \A y \in SetStatus(S, n, st) : \E x \in S : y = new(x)  BY <1>2
  <1>5. \A x, y \in SetStatus(S, n, st) : x.no = y.no => x = y
    BY <1>1, <1>4 DEF Same
  <1> QED  BY <1>1, <1>3, <1>4, <1>5

\* A letter says the same of whoever asks about it.
LEMMA SameIsForThem ==
    ASSUME env' = env, NEW x, NEW y, NEW u, Same(x, y)
    PROVE  invitationIsFor(y, u)' <=> invitationIsFor(x, u)
  BY DEF Same, invitationIsFor

LEMMA MemberStaysAsked ==
    ASSUME env' = env, NEW h \in Stores, Lasts(h), NEW m, MemberAsked(h, m)
    PROVE  MemberAsked(h, m)'
  <1>1. CASE m.why = 0  BY <1>1 DEF MemberAsked, Lasts
  <1>2. CASE m.why # 0
    <2>1. PICK x \in rows[h].invites :
            x.no = m.why /\ x.org = m.org /\ x.role = m.role /\ x.status # "pending" /\ Fits(x, m)
      BY <1>2 DEF MemberAsked
    <2>2. PICK y \in rows'[h].invites : Same(x, y)  BY DEF Lasts
    <2>3. Fits(y, m)'  BY <2>1, <2>2 DEF Same, Fits
    <2> QED  BY <1>2, <2>1, <2>2, <2>3 DEF MemberAsked, Same
  <1> QED  BY <1>1, <1>2

LEMMA InviteStaysBacked ==
    ASSUME NEW h \in Stores, Lasts(h), NEW x, NEW y, Same(x, y), InviteBacked(h, x)
    PROVE  InviteBacked(h, y)'
  BY DEF InviteBacked, Lasts, Same

LEMMA UnderwayStays ==
    ASSUME ShapesOK, env' = env, count' \in Nat, count <= count', \A h \in Stores : Lasts(h),
           NEW t \in Slots, Active(t) => Underway(t), req'[t] = req[t]
    PROVE  Underway(t)'
  <1>1. CASE ~Active(t)
    <2>1. req[t] = Quiet  BY <1>1 DEF ShapesOK, Active, Places
    <2> QED  BY <2>1 DEF Underway, Accepting, Founding, Inviting, At, Quiet
  <1>2. CASE Active(t)
    <2>1. Own(t)' = Own(t) /\ Own(t) \in Stores  BY <1>2, OwnIsAStore DEF Own, StoreOf
    <2>2. Accepting(t)'
      <3>1. req[t].kind = "accept" => req[t].arg \in 1..count'  BY <1>2 DEF Underway, Accepting, ShapesOK
      <3>2. ASSUME req[t].kind = "accept", req[t].pc \in {"mark", "look", "join"}
            PROVE  \E x \in rows'[Own(t)].invites :
                      /\ x.no = req[t].arg /\ invitationIsFor(x, req[t].user)'
                      /\ req[t].pc # "mark" => x.status # "pending"
        <4>1. PICK x \in rows[Own(t)].invites :
                      /\ x.no = req[t].arg /\ invitationIsFor(x, req[t].user)
                      /\ req[t].pc # "mark" => x.status # "pending"
          BY <1>2, <3>2 DEF Underway, Accepting
        <4>2. PICK y \in rows'[Own(t)].invites : Same(x, y)  BY <2>1 DEF Lasts
        <4>3. invitationIsFor(y, req[t].user)'  
          <5>1. req'[t].user = req[t].user  OBVIOUS
          <5> QED  BY <4>1, <4>2, <5>1 DEF Same, invitationIsFor
        <4> QED  BY <4>1, <4>2, <4>3 DEF Same
      <3> QED  BY <2>1, <3>1, <3>2 DEF Accepting
    <2>3. Founding(t)'  BY <1>2, <2>1 DEF Underway, Founding, At, Lasts
    <2>4. Inviting(t)'  BY <1>2, <2>1 DEF Underway, Inviting, At, Lasts
    <2> QED  BY <2>2, <2>3, <2>4 DEF Underway
  <1> QED  BY <1>1, <1>2

\* A step that takes nothing back.
LEMMA AskedGrows ==
    ASSUME AskedInv, ShapesOK', env' = env, count' = count,
           NEW h \in Stores, NEW se, NEW or, NEW me, NEW in, NEW co, Turned(h, se, or, me, in, co),
           rows[h].orgs \subseteq or, rows[h].members \subseteq me,
           \A x \in rows[h].invites : \E y \in in : Same(x, y),
           \A y \in in : /\ Letter(y) /\ y.no \in 1..count
                         /\ (\E x \in rows[h].invites : Same(x, y)) \/ InviteBacked(h, y)',
           \A x, y \in in : x.no = y.no => x = y,
           \A m \in me : m \in rows[h].members \/ MemberAsked(h, m)',
           \A t \in Slots : Fresh(t)',
           \A t \in Slots : req'[t] = req[t] \/ Underway(t)'
    PROVE  AskedInv'
  <1>2. \A g \in Stores : g # h => rows'[g] = rows[g]  BY DEF Turned
  <1>3. rows'[h].orgs = or /\ rows'[h].members = me /\ rows'[h].invites = in  BY DEF Turned
  <1>4. \A g \in Stores : Lasts(g)
    <2> TAKE g \in Stores
    <2>1. CASE g = h  BY <1>3, <2>1 DEF Lasts
    <2>2. CASE g # h  BY <1>2, <2>2 DEF Lasts, Same
    <2> QED  BY <2>1, <2>2
  <1>6. \A g \in Stores : Numbered(g)'
    <2> TAKE g \in Stores
    <2>1. CASE g = h  BY <1>3, <2>1 DEF Numbered, Letter
    <2>2. CASE g # h  BY <1>2, <2>2 DEF AskedInv, Numbered, Letter
    <2> QED  BY <2>1, <2>2
  <1>9. \A t \in Slots : Underway(t)'
    <2> TAKE t \in Slots
    <2>1. CASE Underway(t)'  BY <2>1
    <2>2. CASE req'[t] = req[t]
      <3>1. count' \in Nat /\ count <= count' /\ ShapesOK  BY DEF AskedInv, ShapesOK
      <3>2. Active(t) => Underway(t)  BY DEF AskedInv
      <3> QED  BY <2>2, <3>1, <3>2, <1>4, UnderwayStays
    <2> QED  BY <2>1, <2>2
  <1>10. \A g \in Stores : \A m \in rows'[g].members : MemberAsked(g, m)'
    <2> TAKE g \in Stores
    <2>1. ASSUME NEW m \in rows[g].members  PROVE MemberAsked(g, m)'
      BY <1>4, MemberStaysAsked DEF AskedInv
    <2>2. CASE g = h  BY <1>3, <2>1, <2>2
    <2>3. CASE g # h  BY <1>2, <2>1, <2>3
    <2> QED  BY <2>2, <2>3
  <1>11. \A g \in Stores : \A y \in rows'[g].invites : InviteBacked(g, y)'
    <2> TAKE g \in Stores
    <2> TAKE y \in rows'[g].invites
    <2>1. ASSUME NEW x \in rows[g].invites, Same(x, y)  PROVE InviteBacked(g, y)'
      BY <1>4, <2>1, InviteStaysBacked DEF AskedInv
    <2>2. CASE g = h  BY <1>3, <2>1, <2>2
    <2>3. CASE g # h  BY <1>2, <2>1, <2>3 DEF Same
    <2> QED  BY <2>2, <2>3
  <1> QED  BY <1>6, <1>9, <1>10, <1>11 DEF AskedInv

\* A step of the request in s that posts no new invitation.
LEMMA AskedOnwards ==
    ASSUME AskedInv, NEW s \in Slots, Active(s), env' = env, count' = count,
           NEW pc \in Places, NEW result, NEW seen, Became(s, pc, result, seen), pc # "start",
           req[s].kind = "invite" /\ pc = "row" => req[s].pc = "start",
           NEW h \in Stores, NEW se, NEW or, NEW me, NEW in, NEW co, Turned(h, se, or, me, in, co),
           rows[h].orgs \subseteq or, rows[h].members \subseteq me,
           \A x \in rows[h].invites : \E y \in in : Same(x, y),
           \A y \in in : Letter(y) /\ \E x \in rows[h].invites : Same(x, y),
           \A x, y \in in : x.no = y.no => x = y,
           \A m \in me : m \in rows[h].members \/ MemberAsked(h, m)',
           Underway(s)'
    PROVE  AskedInv'
  <1>1. ShapesOK'  BY ShapesOfStep DEF AskedInv
  <1>2. \A g \in Stores : g # h => rows'[g] = rows[g]  BY DEF Turned
  <1>3. rows'[h].invites = in  BY DEF Turned
  <1>5. \A g \in Stores : \A y \in rows'[g].invites : \E x \in rows[g].invites : y.no = x.no
    BY <1>2, <1>3 DEF Same
  <1>6. \A y \in in : y.no \in 1..count  BY DEF Same, AskedInv, Numbered
  <1>7. /\ \A t \in Slots : t # s => req'[t] = req[t]
        /\ req'[s].kind = req[s].kind /\ req'[s].pc = pc /\ req'[s].no = req[s].no
    BY FieldsOf DEF Became
  <1>8. \A t \in Slots : Fresh(t)'
    <2> TAKE t \in Slots
    <2>1. Unwritten(t)' => Unwritten(t) /\ req'[t].no = req[t].no  BY <1>7 DEF Unwritten
    <2> QED  BY <1>5, <2>1 DEF AskedInv, Fresh
  <1>9. \A t \in Slots : req'[t] = req[t] \/ Underway(t)'
    <2> TAKE t \in Slots
    <2>1. CASE t = s  BY <2>1
    <2>2. CASE t # s  BY <1>7, <2>2
    <2> QED  BY <2>1, <2>2
  <1> QED  BY <1>1, <1>6, <1>8, <1>9, AskedGrows

Calm == {"answered", "user", "expire", "query", "use", "make", "session"}
\* One that leaves organisations, their members and their invitations alone.
LEMMA AskedAside ==
    ASSUME AskedInv, NEW s \in Slots, Active(s), env' = env, count' = count,
           NEW pc \in Calm, NEW result, NEW seen, Became(s, pc, result, seen),
           NEW h \in Stores, NEW se, NEW co, Turned(h, se, rows[h].orgs, rows[h].members, rows[h].invites, co)
    PROVE  AskedInv'
  <1>1. req'[s].kind = req[s].kind /\ req'[s].pc = pc /\ req'[s].no = req[s].no /\ req'[s].arg = req[s].arg
    BY FieldsOf DEF Became
  <1>2. Underway(s)'
    BY <1>1 DEF Calm, Underway, Accepting, Founding, Inviting, At, AskedInv
  <1>3. /\ \A x \in rows[h].invites : Same(x, x) /\ Letter(x)
        /\ \A x, y \in rows[h].invites : x.no = y.no => x = y
    BY DEF AskedInv, Numbered, Same
  <1>4. pc \in Places /\ pc # "start" /\ pc # "row"  BY DEF Calm, Places
  <1> QED  BY <1>2, <1>3, <1>4, AskedOnwards

LEMMA RowIs ==
    ASSUME NEW set, NEW n, Has(set, n)
    PROVE  Row(set, n) \in set /\ Row(set, n).no = n
  BY DEF Has, Row

LEMMA StatusOfInvites ==
    ASSUME AskedInv, NEW s \in Slots, Active(s), env' = env, count' = count,
           NEW pc \in Places, NEW result, NEW seen, Became(s, pc, result, seen),
           req[s].kind = "accept", pc \in {"look", "answered"},
           NEW st, st \notin {"pending"},
           Turned(Own(s), Of(s).sessions, Of(s).orgs, Of(s).members, SetStatus(Of(s).invites, req[s].arg, st), Of(s).codes),
           pc = "look" => \E x \in Of(s).invites : x.no = req[s].arg /\ invitationIsFor(x, req[s].user)
    PROVE  AskedInv'
  <1> DEFINE in == SetStatus(Of(s).invites, req[s].arg, st)
  <1>1. Own(s) \in Stores /\ Of(s) = rows[Own(s)]  BY OwnIsAStore DEF AskedInv, Of, Own
  <1>2. /\ \A x \in rows[Own(s)].invites : Letter(x)
        /\ \A x, y \in rows[Own(s)].invites : x.no = y.no => x = y
    BY <1>1 DEF AskedInv, Numbered
  <1>3. /\ \A x \in rows[Own(s)].invites : \E y \in in : Same(x, y) /\ Letter(y) /\ (x.no = req[s].arg => y.status = st)
        /\ \A y \in in : Letter(y) /\ \E x \in rows[Own(s)].invites : Same(x, y)
        /\ \A x, y \in in : x.no = y.no => x = y
    BY <1>1, <1>2, RestampedIs
  <1>4. /\ req'[s].kind = "accept" /\ req'[s].pc = pc /\ req'[s].arg = req[s].arg /\ req'[s].user = req[s].user
        /\ req'[s].at = req[s].at
    BY FieldsOf DEF Became
  <1>5. rows'[Own(s)].invites = in  BY <1>1 DEF Turned
  <1> HIDE DEF in
  <1>6. Underway(s)'
    <2>1. req[s].arg \in 1..count  BY DEF AskedInv, Underway, Accepting
    <2>2. ASSUME pc = "look"
          PROVE  \E y \in in : y.no = req[s].arg /\ invitationIsFor(y, req[s].user)' /\ y.status # "pending"
      <3>1. PICK x \in Of(s).invites : x.no = req[s].arg /\ invitationIsFor(x, req[s].user)  BY <2>2
      <3>2. PICK y \in in : Same(x, y) /\ y.status = st  BY <1>1, <1>3, <3>1
      <3> QED  BY <1>4, <3>1, <3>2 DEF Same, invitationIsFor
    <2>3. Own(s)' = Own(s)  BY <1>4 DEF Own, StoreOf
    <2> QED  BY <1>4, <1>5, <2>1, <2>2, <2>3 DEF Underway, Accepting, Founding, Inviting, At
  <1> QED  BY <1>1, <1>3, <1>6, AskedOnwards DEF in

LEMMA AskedAccept ==
    ASSUME AskedInv, NEW s \in Slots, Accept(s)
    PROVE  AskedInv'
  <1>1. ShapesOK /\ Active(s)  BY AtIsActive DEF Accept, AskedInv, Places
  <1>2. Own(s) \in Stores /\ Of(s) = rows[Own(s)]  BY <1>1, OwnIsAStore DEF Of, Own
  <1>3. env' = env /\ count' = count /\ req[s].kind = "accept" /\ req[s].pc = "start"  BY DEF Accept, At
  <1>4. CASE /\ Settled(Own(s))
             /\ \/ \E st \in {"refused", "accepted", "expired"} : Became(s, "answered", st, req[s].seen)
                \/ May(s) /\ Became(s, "expire", req[s].result, req[s].seen)
    BY <1>1, <1>2, <1>3, <1>4, AskedAside DEF Settled, Calm
  <1>5. CASE /\ Settled(Own(s))
             /\ May(s) /\ Standing(s) = "pending" /\ env.db /\ Became(s, "mark", req[s].result, req[s].seen)
    <2>1. /\ req'[s].kind = "accept" /\ req'[s].pc = "mark" /\ req'[s].arg = req[s].arg /\ req'[s].user = req[s].user
          /\ req'[s].at = req[s].at
      BY <1>3, <1>5, FieldsOf DEF Became
    <2>2. rows'[Own(s)].invites = rows[Own(s)].invites  BY <1>2, <1>5 DEF Settled, Turned
    <2>3. \E x \in rows[Own(s)].invites : x.no = req[s].arg /\ invitationIsFor(x, req[s].user)
      BY <1>2, <1>5, RowIs DEF May
    <2>4. req[s].arg \in 1..count  BY <1>3 DEF AskedInv, Underway, Accepting
    <2>5. Own(s)' = Own(s)  BY <1>3, <2>1 DEF Own, StoreOf
    <2>6. \E x \in rows'[Own(s)].invites : x.no = req'[s].arg /\ invitationIsFor(x, req[s].user)'
      <3>1. PICK x \in rows[Own(s)].invites : x.no = req[s].arg /\ invitationIsFor(x, req[s].user)  BY <2>3
      <3> QED  BY <1>3, <2>1, <2>2, <3>1 DEF invitationIsFor
    <2>7. Underway(s)'
      BY <1>3, <2>1, <2>4, <2>5, <2>6 DEF Underway, Accepting, Founding, Inviting, At
    <2>8. /\ \A x \in rows[Own(s)].invites : Same(x, x) /\ Letter(x)
          /\ \A x, y \in rows[Own(s)].invites : x.no = y.no => x = y
      BY <1>2 DEF AskedInv, Numbered, Same
    <2>9. "mark" \in Places  BY DEF Places
    <2> QED  BY <1>1, <1>2, <1>3, <1>5, <2>7, <2>8, <2>9, AskedOnwards, ZenonT(90) DEF Settled
  <1>6. CASE /\ May(s)
             /\ Became(s, "look", req[s].result, req[s].seen)
             /\ Turned(Own(s), Of(s).sessions, Of(s).orgs, Of(s).members, Marked(Of(s).invites, req[s].arg), Of(s).codes)
    <2>1. \E x \in Of(s).invites : x.no = req[s].arg /\ invitationIsFor(x, req[s].user)
      BY <1>6, RowIs DEF May
    <2>2. "look" \in Places  BY DEF Places
    <2> QED  BY <1>1, <1>3, <1>6, <2>1, <2>2, StatusOfInvites DEF Marked
  <1> QED  BY <1>1, <1>4, <1>5, <1>6, AcceptIs

LEMMA AskedAcceptExpire ==
    ASSUME AskedInv, NEW s \in Slots, AcceptExpire(s)
    PROVE  AskedInv'
  <1>1. ShapesOK /\ Active(s)  BY AtIsActive DEF AcceptExpire, AskedInv, Places
  <1>2. env' = env /\ count' = count /\ req[s].kind = "accept" /\ "answered" \in Places  BY DEF AcceptExpire, At, Places
  <1> QED  BY <1>1, <1>2, AcceptExpireIs, StatusOfInvites

LEMMA AskedAcceptMark ==
    ASSUME AskedInv, NEW s \in Slots, AcceptMark(s)
    PROVE  AskedInv'
  <1>1. ShapesOK /\ Active(s)  BY AtIsActive DEF AcceptMark, AskedInv, Places
  <1>2. env' = env /\ count' = count /\ At(s, "accept", "mark") /\ "look" \in Places  BY DEF AcceptMark, Places
  <1>3. \E x \in Of(s).invites : x.no = req[s].arg /\ invitationIsFor(x, req[s].user)
    BY <1>1, <1>2 DEF AskedInv, Underway, Accepting, At, Of, Own
  <1> QED  BY <1>1, <1>2, <1>3, AcceptMarkIs, StatusOfInvites DEF Marked, At

\* Who takes an invitation up is who it was for.
LEMMA AskedJoined ==
    ASSUME AskedInv, NEW s \in Slots, Active(s), env' = env, count' = count, req[s].kind = "accept",
           req[s].pc \in {"look", "join"}, Joined(s)
    PROVE  AskedInv'
  <1>1. Own(s) \in Stores /\ Of(s) = rows[Own(s)]  BY OwnIsAStore DEF AskedInv, Of, Own
  <1>2. /\ Became(s, "answered", "used", <<"invite", Own(s), req[s].arg>>)
        /\ Turned(Own(s), Of(s).sessions, Of(s).orgs, Of(s).members \cup {Newcomer(s)}, Of(s).invites, Of(s).codes)
    BY JoinedIs DEF AskedInv
  <1>3. PICK x \in rows[Own(s)].invites :
          x.no = req[s].arg /\ invitationIsFor(x, req[s].user) /\ x.status # "pending"
    BY DEF AskedInv, Underway, Accepting
  <1>4. Invited(s) = x
    <2>1. Has(Of(s).invites, req[s].arg)  BY <1>1, <1>3 DEF Has
    <2>2. Invited(s) \in rows[Own(s)].invites /\ Invited(s).no = x.no  BY <1>1, <1>3, <2>1, RowIs DEF Invited
    <2> QED  BY <1>1, <2>2 DEF AskedInv, Numbered
  <1>5. /\ Newcomer(s).org = x.org /\ Newcomer(s).who = req[s].user.id /\ Newcomer(s).person = req[s].user.person
        /\ Newcomer(s).role = x.role /\ Newcomer(s).why = req[s].arg
    BY <1>4 DEF Newcomer, Member
  <1>6. req[s].arg # 0  BY DEF AskedInv, Underway, Accepting
  <1>7. rows'[Own(s)].invites = rows[Own(s)].invites  BY <1>1, <1>2 DEF Turned
  <1>8. ASSUME NEW h, h = Own(s), NEW m, m = Newcomer(s)
        PROVE  MemberAsked(h, m)'
    <2>1. /\ m.org = x.org /\ m.who = req[s].user.id /\ m.person = req[s].user.person
          /\ m.role = x.role /\ m.why = req[s].arg
      BY <1>5, <1>8
    <2>2. Fits(x, m)'  BY <1>3, <2>1 DEF Fits, invitationIsFor
    <2> QED  BY <1>3, <1>6, <1>7, <1>8, <2>1, <2>2 DEF MemberAsked
  <1>9. PICK h \in Stores : h = Own(s)  BY <1>1
  <1>10. PICK m : m = Newcomer(s)  OBVIOUS
  <1>11. Turned(h, Of(s).sessions, Of(s).orgs, Of(s).members \cup {m}, Of(s).invites, Of(s).codes) /\ Of(s) = rows[h]
    BY <1>1, <1>2, <1>9, <1>10
  <1>12. /\ \A y \in rows[h].invites : Same(y, y) /\ Letter(y)
         /\ \A y, z \in rows[h].invites : y.no = z.no => y = z
    BY DEF AskedInv, Numbered, Same
  <1>13. Underway(s)'
    <2>1. req'[s].kind = "accept" /\ req'[s].pc = "answered" /\ req'[s].arg = req[s].arg
      BY <1>2, FieldsOf DEF Became
    <2> QED  BY <2>1 DEF Underway, Accepting, Founding, Inviting, At, AskedInv
  <1>14. \A y \in rows[h].members \cup {m} : y \in rows[h].members \/ MemberAsked(h, y)'
    <2>1. MemberAsked(h, m)'  BY <1>8, <1>9, <1>10
    <2> QED  BY <2>1
  <1>15. "answered" \in Places  BY DEF Places
  <1> QED  BY <1>2, <1>11, <1>12, <1>13, <1>14, <1>15, AskedOnwards, ZenonT(90)

LEMMA AskedAcceptLook ==
    ASSUME AskedInv, NEW s \in Slots, AcceptLook(s)
    PROVE  AskedInv'
  <1>1. ShapesOK /\ Active(s)  BY AtIsActive DEF AcceptLook, AskedInv, Places
  <1>2. env' = env /\ count' = count /\ req[s].kind = "accept" /\ req[s].pc = "look"  BY DEF AcceptLook, At
  <1>3. Own(s) \in Stores /\ Of(s) = rows[Own(s)]  BY <1>1, OwnIsAStore DEF Of, Own
  <1>4. CASE Settled(Own(s)) /\ Became(s, "answered", "already", req[s].seen)
    BY <1>1, <1>2, <1>3, <1>4, AskedAside DEF Settled, Calm
  <1>5. CASE Settled(Own(s)) /\ Became(s, "join", req[s].result, req[s].seen)
    <2>1. /\ req'[s].kind = "accept" /\ req'[s].pc = "join" /\ req'[s].arg = req[s].arg /\ req'[s].user = req[s].user
          /\ req'[s].at = req[s].at
      BY <1>2, <1>5, FieldsOf DEF Became
    <2>2. rows'[Own(s)].invites = rows[Own(s)].invites  BY <1>3, <1>5 DEF Settled, Turned
    <2>3. PICK x \in rows[Own(s)].invites :
            x.no = req[s].arg /\ invitationIsFor(x, req[s].user) /\ x.status # "pending"
      BY <1>1, <1>2 DEF AskedInv, Underway, Accepting
    <2>4. req[s].arg \in 1..count  BY <1>2 DEF AskedInv, Underway, Accepting
    <2>5. Own(s)' = Own(s)  BY <1>2, <2>1 DEF Own, StoreOf
    <2>6. invitationIsFor(x, req[s].user)'  BY <1>2, <2>1, <2>3 DEF invitationIsFor
    <2>7. Underway(s)'
      BY <1>2, <2>1, <2>2, <2>3, <2>4, <2>5, <2>6 DEF Underway, Accepting, Founding, Inviting, At
    <2>8. /\ \A y \in rows[Own(s)].invites : Same(y, y) /\ Letter(y)
          /\ \A y, z \in rows[Own(s)].invites : y.no = z.no => y = z
      BY <1>3 DEF AskedInv, Numbered, Same
    <2>9. "join" \in Places  BY DEF Places
    <2> QED  BY <1>1, <1>2, <1>3, <1>5, <2>7, <2>8, <2>9, AskedOnwards DEF Settled
  <1>6. CASE Joined(s)  BY <1>1, <1>2, <1>6, AskedJoined
  <1> QED  BY <1>1, <1>4, <1>5, <1>6, AcceptLookIs

LEMMA AskedAcceptJoin ==
    ASSUME AskedInv, NEW s \in Slots, AcceptJoin(s)
    PROVE  AskedInv'
  <1>1. ShapesOK /\ Active(s)  BY AtIsActive DEF AcceptJoin, AskedInv, Places
  <1> QED  BY <1>1, AskedJoined DEF AcceptJoin, At

LEMMA AskedCreateOrg ==
    ASSUME AskedInv, NEW s \in Slots, CreateOrg(s)
    PROVE  AskedInv'
  <1>1. ShapesOK /\ Active(s)  BY AtIsActive DEF CreateOrg, AskedInv, Places
  <1>2. env' = env /\ count' = count /\ req[s].kind = "org"  BY DEF CreateOrg, At
  <1>3. Own(s) \in Stores /\ Of(s) = rows[Own(s)]  BY <1>1, OwnIsAStore DEF Of, Own
  <1>4. CASE Became(s, "answered", "400", req[s].seen) /\ Settled(Own(s))
    BY <1>1, <1>2, <1>3, <1>4, AskedAside DEF Settled, Calm
  <1>n. PICK new : new = [no |-> req[s].no, slug |-> req[s].arg, by |-> req[s].user.id]  OBVIOUS
  <1>5. CASE /\ Became(s, "owner", req[s].result, req[s].seen)
             /\ Turned(Own(s), Of(s).sessions, Of(s).orgs \cup {new}, Of(s).members, Of(s).invites, Of(s).codes)
    <2>1. /\ req'[s].kind = "org" /\ req'[s].pc = "owner" /\ req'[s].no = req[s].no /\ req'[s].user = req[s].user
          /\ req'[s].at = req[s].at
      BY <1>2, <1>5, FieldsOf DEF Became
    <2>2. new \in rows'[Own(s)].orgs /\ new.no = req[s].no /\ new.by = req[s].user.id  BY <1>3, <1>5, <1>n DEF Turned
    <2>3. Own(s)' = Own(s)  BY <1>2, <2>1 DEF Own, StoreOf
    <2>4. Underway(s)'
      BY <1>2, <2>1, <2>2, <2>3 DEF Underway, Accepting, Founding, Inviting, At
    <2>5. /\ \A y \in rows[Own(s)].invites : Same(y, y) /\ Letter(y)
          /\ \A y, z \in rows[Own(s)].invites : y.no = z.no => y = z
      BY <1>3 DEF AskedInv, Numbered, Same
    <2>6. "owner" \in Places  BY DEF Places
    <2>7. /\ Turned(Own(s), rows[Own(s)].sessions, rows[Own(s)].orgs \cup {new}, rows[Own(s)].members,
                    rows[Own(s)].invites, rows[Own(s)].codes)
          /\ rows[Own(s)].orgs \subseteq rows[Own(s)].orgs \cup {new}
      BY <1>3, <1>5
    <2> QED  BY <1>1, <1>2, <1>3, <1>5, <2>4, <2>5, <2>6, <2>7, AskedOnwards, ZenonT(90)
  <1> QED  BY <1>1, <1>4, <1>5, <1>n, CreateOrgIs

LEMMA AskedAddOwner ==
    ASSUME AskedInv, NEW s \in Slots, AddOwner(s)
    PROVE  AskedInv'
  <1>1. ShapesOK /\ Active(s)  BY AtIsActive DEF AddOwner, AskedInv, Places
  <1>2. env' = env /\ count' = count /\ req[s].kind = "org" /\ req[s].pc = "owner"  BY DEF AddOwner, At
  <1>3. Own(s) \in Stores /\ Of(s) = rows[Own(s)]  BY <1>1, OwnIsAStore DEF Of, Own
  <1>4. PICK h \in Stores : h = Own(s)  BY <1>3
  <1>5. PICK m : m = Member(req[s].no, req[s].user, "owner", 0)  OBVIOUS
  <1>6. /\ Became(s, "user", req[s].result, req[s].seen)
        /\ Turned(h, Of(s).sessions, Of(s).orgs, Of(s).members \cup {m}, Of(s).invites, Of(s).codes)
    BY <1>1, <1>4, <1>5, AddOwnerIs
  <1>7. rows'[h].orgs = rows[h].orgs  BY <1>3, <1>4, <1>6 DEF Turned
  <1>8. \E o \in rows[h].orgs : o.no = req[s].no /\ o.by = req[s].user.id
    BY <1>2, <1>4 DEF AskedInv, Underway, Founding, At
  <1>9. m.why = 0 /\ m.role = "owner" /\ m.org = req[s].no /\ m.who = req[s].user.id  BY <1>5 DEF Member
  <1>10. MemberAsked(h, m)'  BY <1>7, <1>8, <1>9 DEF MemberAsked
  <1>11. Underway(s)'
    <2>1. req'[s].kind = "org" /\ req'[s].pc = "user"  BY <1>2, <1>6, FieldsOf DEF Became
    <2> QED  BY <2>1 DEF Underway, Accepting, Founding, Inviting, At
  <1>12. /\ \A y \in rows[h].invites : Same(y, y) /\ Letter(y)
         /\ \A y, z \in rows[h].invites : y.no = z.no => y = z
    BY DEF AskedInv, Numbered, Same
  <1>13. \A y \in rows[h].members \cup {m} : y \in rows[h].members \/ MemberAsked(h, y)'  BY <1>10
  <1>14. "user" \in Places  BY DEF Places
  <1> QED  BY <1>1, <1>2, <1>3, <1>4, <1>6, <1>11, <1>12, <1>13, <1>14, AskedOnwards, ZenonT(90)

LEMMA AskedInvite ==
    ASSUME AskedInv, NEW s \in Slots, Invite(s)
    PROVE  AskedInv'
  <1>1. ShapesOK /\ Active(s)  BY AtIsActive DEF Invite, AskedInv, Places
  <1>2. env' = env /\ count' = count /\ req[s].kind = "invite" /\ req[s].pc = "start"  BY DEF Invite, At
  <1>3. Own(s) \in Stores /\ Of(s) = rows[Own(s)]  BY <1>1, OwnIsAStore DEF Of, Own
  <1>4. ASSUME NEW what, Became(s, "answered", what, req[s].seen), Settled(Own(s))
        PROVE  AskedInv'
    BY <1>1, <1>2, <1>3, <1>4, AskedAside DEF Settled, Calm
  <1>5. CASE /\ Became(s, "row", req[s].result, req[s].seen) /\ Settled(Own(s))
             /\ \/ Supervising(req[s].user)
                \/ RolesIn(Of(s).members, req[s].arg.org, req[s].user.id) \cap {"owner", "admin"} # {}
    <2>1. /\ req'[s].kind = "invite" /\ req'[s].pc = "row" /\ req'[s].arg = req[s].arg /\ req'[s].user = req[s].user
          /\ req'[s].at = req[s].at
      BY <1>2, <1>5, FieldsOf DEF Became
    <2>2. rows'[Own(s)].members = rows[Own(s)].members  BY <1>3, <1>5 DEF Settled, Turned
    <2>3. \/ Supervising(req[s].user)
          \/ \E y \in rows[Own(s)].members :
                y.org = req[s].arg.org /\ y.who = req[s].user.id /\ y.role \in {"owner", "admin"}
      BY <1>3, <1>5 DEF RolesIn
    <2>4. Own(s)' = Own(s)  BY <1>2, <2>1 DEF Own, StoreOf
    <2>5. Underway(s)'
      BY <2>1, <2>2, <2>3, <2>4 DEF Underway, Accepting, Founding, Inviting, At
    <2>6. /\ \A y \in rows[Own(s)].invites : Same(y, y) /\ Letter(y)
          /\ \A y, z \in rows[Own(s)].invites : y.no = z.no => y = z
      BY <1>3 DEF AskedInv, Numbered, Same
    <2>7. "row" \in Places  BY DEF Places
    <2> QED  BY <1>1, <1>2, <1>3, <1>5, <2>5, <2>6, <2>7, AskedOnwards DEF Settled
  <1> QED  BY <1>1, <1>4, <1>5, InviteIs

LEMMA AskedInviteRow ==
    ASSUME AskedInv, NEW s \in Slots, InviteRow(s)
    PROVE  AskedInv'
  <1>1. ShapesOK /\ Active(s)  BY AtIsActive DEF InviteRow, AskedInv, Places
  <1>2. env' = env /\ count' = count /\ req[s].kind = "invite" /\ req[s].pc = "row"  BY DEF InviteRow, At
  <1>3. Own(s) \in Stores /\ Of(s) = rows[Own(s)] /\ req[s].no \in 1..count  BY <1>1, OwnIsAStore DEF Of, Own
  <1>4. PICK h \in Stores : h = Own(s)  BY <1>3
  <1>5. PICK x : x = Posted(s)  OBVIOUS
  <1>6. /\ Became(s, "answered", "ok", req[s].seen)
        /\ Turned(h, Of(s).sessions, Of(s).orgs, Of(s).members, Of(s).invites \cup {x}, Of(s).codes)
    BY <1>1, <1>4, <1>5, InviteRowIs
  <1>7. Letter(x) /\ x.no = req[s].no /\ x.org = req[s].arg.org /\ x.by = req[s].user
    BY <1>5 DEF Letter, Posted
  <1>8. InviteBacked(h, x)'
    <2>1. \/ Supervising(req[s].user)
          \/ \E y \in rows[h].members : y.org = x.org /\ y.who = x.by.id /\ y.role \in {"owner", "admin"}
      BY <1>2, <1>4, <1>7 DEF AskedInv, Underway, Inviting, At
    <2>2. rows'[h].members = rows[h].members  BY <1>3, <1>4, <1>6 DEF Turned
    <2> QED  BY <1>7, <2>1, <2>2 DEF InviteBacked, Supervising, SUPERVISORY
  <1>9. \A y \in rows[h].invites : Letter(y) /\ y.no \in 1..count /\ y.no # x.no /\ Same(y, y)
    BY <1>2, <1>7 DEF AskedInv, Numbered, Fresh, Unwritten, Same
  <1>10. \A y, z \in rows[h].invites \cup {x} : y.no = z.no => y = z
    BY <1>9 DEF AskedInv, Numbered
  <1>11. /\ \A t \in Slots : t # s => req'[t] = req[t]
         /\ req'[s].kind = "invite" /\ req'[s].pc = "answered" /\ req'[s].arg = req[s].arg
    BY <1>2, <1>6, FieldsOf DEF Became
  <1>12. ShapesOK'
    <2>1. "answered" \in Places  BY DEF Places
    <2> QED  BY <1>1, <1>2, <1>6, <2>1, ShapesOfStep
  <1>13. \A t \in Slots : Fresh(t)'
    <2> TAKE t \in Slots
    <2>1. CASE t = s  BY <1>11, <2>1 DEF Fresh, Unwritten
    <2>2. CASE t # s
      <3>1. Unwritten(t)' => Unwritten(t) /\ req'[t].no = req[t].no  BY <1>11, <2>2 DEF Unwritten
      <3>2. Unwritten(t) => req[t].no # req[s].no
        BY <1>1, <2>2 DEF Unwritten, ShapesOK, Active
      <3>3. \A g \in Stores : \A y \in rows'[g].invites : y = x \/ y \in rows[g].invites
        BY <1>3, <1>4, <1>6 DEF Turned
      <3> QED  BY <1>7, <3>1, <3>2, <3>3 DEF AskedInv, Fresh
    <2> QED  BY <2>1, <2>2
  <1>14. \A t \in Slots : req'[t] = req[t] \/ Underway(t)'
    <2>1. Underway(s)'  BY <1>11 DEF Underway, Accepting, Founding, Inviting, At
    <2> QED  BY <1>11, <2>1
  <1>15. \A y \in rows[h].invites \cup {x} :
           /\ Letter(y) /\ y.no \in 1..count
           /\ (\E z \in rows[h].invites : Same(z, y)) \/ InviteBacked(h, y)'
    <2>1. Letter(x) /\ x.no \in 1..count /\ InviteBacked(h, x)'  BY <1>3, <1>7, <1>8
    <2> QED  BY <1>9, <2>1
  <1>16. \A y \in rows[h].invites : \E z \in rows[h].invites \cup {x} : Same(y, z)  BY <1>9
  <1> QED  BY <1>2, <1>3, <1>4, <1>6, <1>10, <1>12, <1>13, <1>14, <1>15, <1>16, AskedGrows

LEMMA AskedInviteLapses ==
    ASSUME AskedInv, NEW h \in Stores, InviteLapses(h)
    PROVE  AskedInv'
  <1>1. env' = env /\ count' = count /\ req' = req /\ ShapesOK  BY DEF InviteLapses, AskedInv
  <1>2. PICK x \in rows[h].invites :
          Turned(h, rows[h].sessions, rows[h].orgs, rows[h].members, SetStatus(rows[h].invites, x.no, "lapsed"),
                 rows[h].codes)
    BY <1>1, InviteLapsesIs
  <1> DEFINE in == SetStatus(rows[h].invites, x.no, "lapsed")
  <1>3. /\ \A y \in rows[h].invites : Letter(y)
        /\ \A y, z \in rows[h].invites : y.no = z.no => y = z
    BY DEF AskedInv, Numbered
  <1>4. /\ \A y \in rows[h].invites : \E z \in in : Same(y, z)
        /\ \A z \in in : Letter(z) /\ \E y \in rows[h].invites : Same(y, z)
        /\ \A y, z \in in : y.no = z.no => y = z
    BY <1>3, RestampedIs
  <1>5. Turned(h, rows[h].sessions, rows[h].orgs, rows[h].members, in, rows[h].codes)  BY <1>2
  <1> HIDE DEF in
  <1>6. ShapesOK'  BY <1>1, <1>5, ShapesOfLapse
  <1>7. \A z \in in : z.no \in 1..count  BY <1>4 DEF Same, AskedInv, Numbered
  <1>8. \A g \in Stores : \A z \in rows'[g].invites : \E y \in rows[g].invites : y.no = z.no
    BY <1>4, <1>5 DEF Turned, Same
  <1>9. \A t \in Slots : Fresh(t)'  BY <1>1, <1>8 DEF Fresh, Unwritten, AskedInv
  <1>10. \A t \in Slots : req'[t] = req[t]  BY <1>1
  <1> QED  BY <1>1, <1>4, <1>5, <1>6, <1>7, <1>9, <1>10, AskedGrows, ZenonT(90)

\* A step that writes no rows.
LEMMA AskedUnwritten ==
    ASSUME AskedInv, ShapesOK', rows' = rows, env' = env, count' \in Nat, count <= count',
           \A t \in Slots : Fresh(t)', \A t \in Slots : req'[t] = req[t] \/ Underway(t)'
    PROVE  AskedInv'
  <1>1. ShapesOK /\ count \in Nat  BY DEF AskedInv, ShapesOK
  <1>2. \A h \in Stores : Lasts(h)  BY DEF Lasts, Same
  <1>3. \A h \in Stores : Numbered(h)'  BY <1>1 DEF AskedInv, Numbered, Letter
  <1>4. \A t \in Slots : Underway(t)'
    <2> TAKE t \in Slots
    <2>1. CASE Underway(t)'  BY <2>1
    <2>2. CASE req'[t] = req[t]
      <3>1. Active(t) => Underway(t)  BY DEF AskedInv
      <3> QED  BY <1>1, <1>2, <2>2, <3>1, UnderwayStays
    <2> QED  BY <2>1, <2>2
  <1>5. \A h \in Stores : \A m \in rows'[h].members : MemberAsked(h, m)'
    BY <1>2, MemberStaysAsked DEF AskedInv
  <1>6. \A h \in Stores : \A x \in rows'[h].invites : InviteBacked(h, x)'
    BY <1>2, InviteStaysBacked DEF AskedInv, Same
  <1> QED  BY <1>3, <1>4, <1>5, <1>6 DEF AskedInv

LEMMA AskedArrive ==
    ASSUME AskedInv, NEW s \in Slots, NEW kind, NEW c, NEW arg, Arrive(s, kind, c, arg),
           kind = "accept" => arg \in 1..count
    PROVE  AskedInv'
  <1>1. ShapesOK /\ ShapesOK'  BY ShapesOfArrive DEF AskedInv
  <1>2. /\ count' = count + 1 /\ env' = env /\ rows' = rows
        /\ \A t \in Slots : t # s => req'[t] = req[t]
    BY <1>1, ArriveIs
  <1>3. PICK i \in Instances : Came(s, kind, i, getUser(env, c), arg)  BY <1>1, ArriveIs
  <1>4. req'[s].kind = kind /\ req'[s].pc = "start" /\ req'[s].no = count + 1 /\ req'[s].arg = arg
    BY <1>3, FieldsOf DEF Came
  <1>5. count \in Nat  BY <1>1 DEF ShapesOK
  <1>6. \A t \in Slots : Fresh(t)'
    <2> TAKE t \in Slots
    <2>1. CASE t = s  BY <1>2, <1>4, <1>5, <2>1 DEF Fresh, Unwritten, AskedInv, Numbered
    <2>2. CASE t # s  BY <1>2, <2>2 DEF Fresh, Unwritten, AskedInv
    <2> QED  BY <2>1, <2>2
  <1>7. Underway(s)'
    BY <1>2, <1>4, <1>5 DEF Underway, Accepting, Founding, Inviting, At
  <1>8. \A t \in Slots : req'[t] = req[t] \/ Underway(t)'  BY <1>2, <1>7
  <1> QED  BY <1>1, <1>2, <1>5, <1>6, <1>8, AskedUnwritten

LEMMA AskedReturn ==
    ASSUME AskedInv, NEW s \in Slots, Return(s)
    PROVE  AskedInv'
  <1>1. ShapesOK /\ ShapesOK'  BY ShapesOfReturn DEF AskedInv
  <1>2. /\ count' = count /\ env' = env /\ rows' = rows /\ req'[s] = Quiet
        /\ \A t \in Slots : t # s => req'[t] = req[t]
    BY <1>1 DEF Return, ShapesOK
  <1>3. count \in Nat  BY <1>1 DEF ShapesOK
  <1>4. Underway(s)' /\ Fresh(s)'
    BY <1>2 DEF Underway, Accepting, Founding, Inviting, At, Quiet, Fresh, Unwritten
  <1>5. \A t \in Slots : Fresh(t)'  BY <1>2, <1>4 DEF Fresh, Unwritten, AskedInv
  <1>6. \A t \in Slots : req'[t] = req[t] \/ Underway(t)'  BY <1>2, <1>4
  <1> QED  BY <1>1, <1>2, <1>3, <1>5, <1>6, AskedUnwritten

LEMMA AskedSteps ==
    ASSUME AskedInv, NEW s \in Slots,
           \/ Login(s) \/ LoginSession(s) \/ LoginRefused(s) \/ Logout(s) \/ Lookup(s) \/ Jwks(s) \/ JwksMake(s)
           \/ AddUser(s) \/ Look(s) \/ Issue(s) \/ QueryFails(s)
    PROVE  AskedInv'
  <1>1. ShapesOK  BY DEF AskedInv
  <1>2. Active(s) /\ env' = env /\ count' = count
    BY AtIsActive DEF Login, LoginSession, LoginRefused, Logout, Lookup, Jwks, JwksMake, AddUser, Look, Issue,
                      QueryFails, Places, Active
  <1>3. Own(s) \in Stores /\ Of(s) = rows[Own(s)]  BY <1>1, <1>2, OwnIsAStore DEF Of, Own
  <1>4. ASSUME NEW pc \in Calm, NEW result, NEW seen, Became(s, pc, result, seen),
               NEW se, NEW co, Turned(Own(s), se, Of(s).orgs, Of(s).members, Of(s).invites, co)
        PROVE  AskedInv'
    BY <1>2, <1>3, <1>4, AskedAside
  <1>5. ASSUME NEW pc \in Calm, NEW result, NEW seen, Became(s, pc, result, seen), Settled(Own(s))
        PROVE  AskedInv'
    BY <1>3, <1>4, <1>5 DEF Settled
  <1>6. "answered" \in Calm /\ "user" \in Calm /\ "make" \in Calm /\ "session" \in Calm  BY DEF Calm
  <1>a. CASE Login(s)  BY <1>1, <1>5, <1>6, <1>a, LoginIs
  <1>b. CASE LoginSession(s)  BY <1>1, <1>4, <1>6, <1>b, LoginSessionIs
  <1>c. CASE LoginRefused(s)  BY <1>1, <1>5, <1>6, <1>c, LoginRefusedIs
  <1>d. CASE Logout(s)  BY <1>1, <1>4, <1>6, <1>d, LogoutIs
  <1>e. CASE Lookup(s)  BY <1>1, <1>5, <1>6, <1>e, LookupIs
  <1>f. CASE Jwks(s)  BY <1>1, <1>5, <1>6, <1>f, JwksIs
  <1>g. CASE JwksMake(s)  BY <1>1, <1>5, <1>6, <1>g, JwksMakeIs
  <1>h. CASE AddUser(s)  BY <1>1, <1>5, <1>6, <1>h, AddUserIs
  <1>i. CASE Look(s)  BY <1>1, <1>5, <1>6, <1>i, LookIs
  <1>j. CASE Issue(s)  BY <1>1, <1>4, <1>6, <1>j, IssueIs
  <1>k. CASE QueryFails(s)  BY <1>1, <1>5, <1>6, <1>k, QueryFailsIs
  <1> QED  BY <1>a, <1>b, <1>c, <1>d, <1>e, <1>f, <1>g, <1>h, <1>i, <1>j, <1>k

LEMMA AskedJudge ==
    ASSUME AskedInv, NEW s \in Slots, Active(s), env' = env, count' = count, Judge(s)
    PROVE  AskedInv'
  <1>1. ShapesOK  BY DEF AskedInv
  <1>2. Own(s) \in Stores /\ Of(s) = rows[Own(s)]  BY <1>1, OwnIsAStore DEF Of, Own
  <1>3. "answered" \in Calm /\ "use" \in Calm  BY DEF Calm
  <1> QED  BY <1>1, <1>2, <1>3, JudgeIs, AskedAside DEF Settled

LEMMA AskedCodes ==
    ASSUME AskedInv, NEW s \in Slots, Verify(s) \/ VerifyQuery(s) \/ VerifyUse(s)
    PROVE  AskedInv'
  <1>1. ShapesOK  BY DEF AskedInv
  <1>2. Active(s) /\ env' = env /\ count' = count
    BY AtIsActive DEF Verify, VerifyQuery, VerifyUse, Places
  <1>3. Own(s) \in Stores /\ Of(s) = rows[Own(s)]  BY <1>1, <1>2, OwnIsAStore DEF Of, Own
  <1>4. "answered" \in Calm /\ "query" \in Calm  BY DEF Calm
  <1>5. CASE Verify(s)
    <2>1. CASE Judge(s)  BY <1>2, <2>1, AskedJudge
    <2>2. CASE /\ Settled(Own(s))
               /\ Became(s, "answered", "429", req[s].seen) \/ Became(s, "query", req[s].result, req[s].seen)
      BY <1>2, <1>3, <1>4, <2>2, AskedAside DEF Settled
    <2> QED  BY <1>1, <1>5, <2>1, <2>2, VerifyIs
  <1>6. CASE VerifyQuery(s)  BY <1>2, <1>6, AskedJudge DEF VerifyQuery
  <1>7. CASE VerifyUse(s)  BY <1>1, <1>2, <1>3, <1>4, <1>7, VerifyUseIs, AskedAside
  <1> QED  BY <1>5, <1>6, <1>7

LEMMA AskedCodeLapses ==
    ASSUME AskedInv, NEW h \in Stores, CodeLapses(h)
    PROVE  AskedInv'
  <1>1. env' = env /\ count' = count /\ req' = req /\ ShapesOK  BY DEF CodeLapses, AskedInv
  <1>2. PICK co : Turned(h, rows[h].sessions, rows[h].orgs, rows[h].members, rows[h].invites, co)
    BY <1>1, CodeLapsesIs
  <1>3. ShapesOK'  BY <1>1, <1>2, ShapesOfLapse
  <1>4. \A g \in Stores : rows'[g].invites = rows[g].invites  BY <1>2 DEF Turned
  <1>5. \A t \in Slots : Fresh(t)'  BY <1>1, <1>4 DEF Fresh, Unwritten, AskedInv
  <1>6. /\ \A x \in rows[h].invites : Same(x, x) /\ Letter(x) /\ x.no \in 1..count
        /\ \A x, y \in rows[h].invites : x.no = y.no => x = y
    BY DEF AskedInv, Numbered, Same
  <1>7. \A t \in Slots : req'[t] = req[t]  BY <1>1
  <1> QED  BY <1>1, <1>2, <1>3, <1>5, <1>6, <1>7, AskedGrows

LEMMA AskedIdle ==
    ASSUME AskedInv, UNCHANGED <<env, rows, req, count>>
    PROVE  AskedInv'
  <1>1. ShapesOK' /\ count \in Nat  BY DEF AskedInv, ShapesOK, Active, IsRequest, Table
  <1>2. \A t \in Slots : Fresh(t)'  BY DEF Fresh, Unwritten, AskedInv
  <1>3. \A t \in Slots : req'[t] = req[t]  OBVIOUS
  <1> QED  BY <1>1, <1>2, <1>3, AskedUnwritten

LEMMA AskedInit == Init => AskedInv
<1> SUFFICES ASSUME Init PROVE AskedInv
  OBVIOUS
<1>1. ShapesOK  BY ShapesOfInit
<1>2. \A h \in Stores : rows[h].members = {} /\ rows[h].invites = {}  BY DEF Init, NoRows
<1>3. \A s \in Slots : req[s] = Quiet  BY DEF Init
<1> QED
  BY <1>1, <1>2, <1>3 DEF AskedInv, Numbered, Fresh, Unwritten, Underway, Accepting, Founding, Inviting, At, Quiet

LEMMA AskedNext == AskedInv /\ [Next]_vars => AskedInv'
<1> SUFFICES ASSUME AskedInv, [Next]_vars PROVE AskedInv'
  OBVIOUS
<1>1. CASE UNCHANGED vars  BY <1>1, AskedIdle DEF vars
<1>2. ASSUME NEW s \in Slots, SessionSteps(s) PROVE AskedInv'
  <2>1. ASSUME NEW c, NEW arg, NEW kind \in {"login", "jwks", "logout", "lookup"}, Arrive(s, kind, c, arg)
        PROVE  AskedInv'
    BY <2>1, AskedArrive
  <2> QED  BY <1>2, <2>1, AskedSteps DEF SessionSteps
<1>3. ASSUME NEW s \in Slots, OrgSteps(s) PROVE AskedInv'
  <2>1. ASSUME NEW c, NEW arg, NEW kind \in {"org", "look", "invite"}, Arrive(s, kind, c, arg)
        PROVE  AskedInv'
    BY <2>1, AskedArrive
  <2>2. ASSUME NEW c, NEW n \in Sent, Arrive(s, "accept", c, n) PROVE AskedInv'
    <3>1. n \in 1..count  BY DEF Sent, AskedInv, Numbered
    <3> QED  BY <2>2, <3>1, AskedArrive
  <2>3. CASE CreateOrg(s) \/ AddOwner(s) \/ Invite(s) \/ InviteRow(s)
    BY <2>3, AskedCreateOrg, AskedAddOwner, AskedInvite, AskedInviteRow
  <2>4. CASE Accept(s) \/ AcceptExpire(s) \/ AcceptMark(s) \/ AcceptLook(s) \/ AcceptJoin(s)
    BY <2>4, AskedAccept, AskedAcceptExpire, AskedAcceptMark, AskedAcceptLook, AskedAcceptJoin
  <2>5. CASE AddUser(s) \/ Look(s)  BY <2>5, AskedSteps
  <2>6. CASE \E h \in Stores : InviteLapses(h)  BY <2>6, AskedInviteLapses
  <2> QED  BY <1>3, <2>1, <2>2, <2>3, <2>4, <2>5, <2>6 DEF OrgSteps
<1>4. ASSUME NEW s \in Slots, CodeSteps(s) PROVE AskedInv'
  <2>1. ASSUME NEW c, NEW arg, NEW kind \in {"issue", "verify"}, Arrive(s, kind, c, arg)
        PROVE  AskedInv'
    BY <2>1, AskedArrive
  <2>2. CASE \E i \in Instances, d \in Identifiers : WindowLapses(i, d)
    BY <2>2, AskedIdle DEF WindowLapses
  <2>3. CASE Issue(s) \/ Verify(s) \/ VerifyQuery(s) \/ VerifyUse(s)  BY <2>3, AskedSteps, AskedCodes
  <2>4. CASE \E h \in Stores : CodeLapses(h)  BY <2>4, AskedCodeLapses
  <2> QED  BY <1>4, <2>1, <2>2, <2>3, <2>4 DEF CodeSteps
<1>5. ASSUME NEW s \in Slots, Return(s) \/ QueryFails(s) PROVE AskedInv'
  BY <1>5, AskedReturn, AskedSteps
<1> QED
  BY <1>1, <1>2, <1>3, <1>4, <1>5 DEF Next

\* Everyone in an organisation founded it or took up an invitation that was for them, however the
\* requests interleave and fail (createOrg, acceptInvitation and addMember of authstore.js).
THEOREM MembersAreAskedIn == Spec => []MembersWereAskedIn
  BY AskedInit, AskedNext, AskedInvSays, PTL DEF Spec

-----------------------------------------------------------------------------
(* What was used up stays used up *)

\* Requests that are to write a row with their number; that have used something up or are about to;
\* and that are about something with a number.
Makes(s) ==
    \/ req[s].kind = "invite" /\ req[s].pc \in {"start", "row"}
    \/ req[s].kind = "login" /\ req[s].pc \in {"start", "session"}
    \/ req[s].kind = "issue" /\ req[s].pc = "start"
Holding(s) == req[s].pc = "use" \/ (req[s].pc = "answered" /\ req[s].result = "used")
Names(s) == req[s].kind \in {"accept", "logout"}

\* A code, an invitation or a session of a store; and one that nobody can use any more.
Thing(u) == u[1] \in {"code", "invite", "session"} /\ u[2] \in Stores /\ u[3] \in 1..count
Spent(u) ==
    /\ u[1] = "code" => \A x \in rows[u[2]].codes : x.no # u[3]
    /\ u[1] = "session" => \A x \in rows[u[2]].sessions : x.no # u[3]
    /\ u[1] = "invite" => \A x \in rows[u[2]].invites : x.no = u[3] => x.status # "pending"

CodesNumbered(h) ==
    /\ \A x \in rows[h].codes : x.no \in 1..count
    /\ \A x \in rows[h].sessions : x.no \in 1..count
    /\ \A x, y \in rows[h].codes : x.no = y.no => x = y

\* Nothing has the number n yet.
Unseen(n) ==
    /\ \A h \in Stores : /\ \A x \in rows[h].codes : x.no # n
                         /\ \A x \in rows[h].sessions : x.no # n
                         /\ \A x \in rows[h].invites : x.no # n
    /\ \A u \in past.used : u[3] # n
    /\ \A t \in Slots : (Names(t) => req[t].arg # n) /\ (Holding(t) => req[t].seen[3] # n)

\* What is so of a request wherever it is: of what it is about, of what it is to use up, of what it
\* used up, and of what it found.
Aiming(s) ==
    /\ req[s].before \subseteq past.used
    /\ Names(s) => req[s].arg \in 1..count
    /\ req[s].pc \in {"mark", "join", "query"} => env.db
    /\ req[s].kind = "accept" /\ req[s].pc \in {"mark", "look", "join"} =>
          <<"invite", Own(s), req[s].arg>> \notin req[s].before
Using(s) ==
    req[s].pc = "use" =>
        /\ env.db /\ req[s].kind = "verify" /\ req[s].seen = <<"code", "db", req[s].seen[3]>>
        /\ req[s].seen \notin req[s].before
        /\ \A y \in rows["db"].codes : y.no = req[s].seen[3] => y.ident = req[s].arg.ident
Used(s) ==
    req[s].pc = "answered" /\ req[s].result = "used" =>
        Spent(req[s].seen) /\ (req[s].kind # "logout" => req[s].seen \notin req[s].before)
FoundFresh(s) ==
    req[s].pc = "answered" /\ req[s].result = "found" /\ req[s].kind = "lookup" =>
        <<"session", Own(s), req[s].arg>> \notin req[s].before
Way(s) == Aiming(s) /\ (Holding(s) => Thing(req[s].seen)) /\ Using(s) /\ Used(s) /\ FoundFresh(s)

PastOK == past = [used |-> past.used, uses |-> past.uses, heard |-> past.heard]
UsedInv ==
    /\ PastOK
    /\ \A u \in past.used : Thing(u) /\ Spent(u)
    /\ \A h \in Stores : CodesNumbered(h)
    /\ \A s \in Slots : Active(s) => Way(s) /\ (Makes(s) => Unseen(req[s].no))

\* A step brings no code, session or invitation into a store but one numbered n, and opens none again.
Adds(h, n) ==
    /\ \A y \in rows'[h].codes : y.no = n \/ \E x \in rows[h].codes : x.no = y.no /\ x.ident = y.ident
    /\ \A y \in rows'[h].sessions : y.no = n \/ \E x \in rows[h].sessions : x.no = y.no
    /\ \A y \in rows'[h].invites :
          y.no = n \/ \E x \in rows[h].invites : x.no = y.no /\ (y.status = "pending" => x.status = "pending")

LEMMA SpentStays ==
    ASSUME NEW u, NEW n, Adds(u[2], n), u[3] # n, Spent(u)
    PROVE  Spent(u)'
  BY DEF Spent, Adds

LEMMA UnseenStays ==
    ASSUME NEW m, NEW n, n # m, Unseen(m), \A h \in Stores : Adds(h, n), past'.used = past.used,
           \A t \in Slots : (Names(t)' => req'[t].arg # m) /\ (Holding(t)' => req'[t].seen[3] # m)
    PROVE  Unseen(m)'
  BY DEF Unseen, Adds

LEMMA WayStays ==
    ASSUME ShapesOK, NEW t \in Slots, Active(t), req'[t] = req[t], env' = env, count' \in Nat, count <= count',
           past.used \subseteq past'.used, NEW n, \A h \in Stores : Adds(h, n), Holding(t) => req[t].seen[3] # n, Way(t)
    PROVE  Way(t)'
  <1>1. Own(t)' = Own(t) /\ (Holding(t)' <=> Holding(t)) /\ (Names(t)' <=> Names(t)) /\ count \in Nat /\ "db" \in Stores
    BY DEF Own, StoreOf, Holding, Names, ShapesOK, Stores
  <1>2. Aiming(t)'  BY <1>1 DEF Way, Aiming
  <1>3. Holding(t)' => Thing(req[t].seen)'  BY <1>1 DEF Way, Thing
  <1>4. Using(t)'  BY <1>1 DEF Way, Using, Adds, Holding
  <1>5. Used(t)'
    <2>1. PICK u : u = req[t].seen  OBVIOUS
    <2>2. ASSUME req[t].pc = "answered", req[t].result = "used"
          PROVE  Spent(u)'
      <3>1. Holding(t) /\ Thing(u) /\ Spent(u)  BY <2>1, <2>2 DEF Way, Used, Holding
      <3>2. Adds(u[2], n) /\ u[3] # n  BY <2>1, <3>1 DEF Thing
      <3> QED  BY <3>1, <3>2, SpentStays
    <2>3. Used(t)' <=> (req[t].pc = "answered" /\ req[t].result = "used" =>
                          Spent(u)' /\ (req[t].kind # "logout" => u \notin req[t].before))
      BY <2>1 DEF Used, Spent
    <2> QED  BY <2>1, <2>2, <2>3 DEF Way, Used
  <1>6. FoundFresh(t)'  BY <1>1 DEF Way, FoundFresh
  <1>7. req'[t].seen = req[t].seen  OBVIOUS
  <1> QED  BY <1>2, <1>3, <1>4, <1>5, <1>6, <1>7 DEF Way, Thing


\* A step of the request in s; n is the number of the row it writes, or 0.
LEMMA UsedOnwards ==
    ASSUME ShapesOK, ShapesOK', UsedInv, env' = env, count' = count, PastOK', past'.used = past.used,
           NEW s \in Slots, Active(s), NEW pc, NEW result, NEW seen, Became(s, pc, result, seen),
           NEW n, n = 0 \/ (n = req[s].no /\ Makes(s) /\ ~Makes(s)'),
           \A g \in Stores : Adds(g, n), \A g \in Stores : CodesNumbered(g)',
           Makes(s)' => Makes(s), Way(s)',
           Holding(s)' => \A t \in Slots : t # s /\ Makes(t) => seen[3] # req[t].no
    PROVE  UsedInv'
  <1>1. /\ \A t \in Slots : t # s => req'[t] = req[t]
        /\ req'[s].kind = req[s].kind /\ req'[s].no = req[s].no /\ req'[s].arg = req[s].arg /\ req'[s].seen = seen
    BY FieldsOf DEF Became
  <1>2. Makes(s) => Unseen(req[s].no)  BY DEF UsedInv
  <1>3. count \in Nat /\ \A t \in Slots : Active(t) => req[t].no \in 1..count
    BY OwnIsAStore DEF ShapesOK
  <1>4. \A u \in past'.used : Thing(u)' /\ Spent(u)'
    <2> TAKE u \in past'.used
    <2>1. Thing(u) /\ Spent(u)  BY DEF UsedInv
    <2>2. u[3] # n  BY <1>2, <1>3, <2>1 DEF Thing, Unseen
    <2>3. Adds(u[2], n)  BY <2>1 DEF Thing
    <2> QED  BY <2>1, <2>2, <2>3, SpentStays DEF Thing
  <1>5. ASSUME NEW t \in Slots, t # s, Active(t)
        PROVE  Way(t)' /\ (Makes(t)' => Unseen(req[t].no)')
    <2>1. req'[t] = req[t] /\ Way(t)  BY <1>1, <1>5 DEF UsedInv
    <2>2. Holding(t) => req[t].seen[3] # n
      <3>1. Holding(t) => req[t].seen[3] \in 1..count  BY <2>1 DEF Way, Thing
      <3> QED  BY <1>2, <1>3, <3>1 DEF Unseen
    <2>3. Way(t)'  BY <1>3, <2>1, <2>2, <1>5, WayStays
    <2>4. PICK m : m = req[t].no  OBVIOUS
    <2>5. m \in 1..count /\ m # n
      BY <1>3, <1>5, <2>4 DEF ShapesOK
    <2>6. CASE Makes(t)
      <3>1. Unseen(m)  BY <1>5, <2>4, <2>6 DEF UsedInv
      <3>2. \A v \in Slots : (Names(v)' => req'[v].arg # m) /\ (Holding(v)' => req'[v].seen[3] # m)
        <4> TAKE v \in Slots
        <4>1. CASE v = s
          <5>1. Names(s)' => Names(s)  BY <1>1 DEF Names
          <5> QED  BY <1>1, <1>5, <2>4, <2>6, <3>1, <4>1, <5>1 DEF Unseen
        <4>2. CASE v # s  BY <1>1, <3>1, <4>2 DEF Unseen, Names, Holding
        <4> QED  BY <4>1, <4>2
      <3>3. Unseen(m)'  BY <2>5, <3>1, <3>2, UnseenStays
      <3> QED  BY <2>1, <2>3, <2>4, <3>3
    <2>7. CASE ~Makes(t)  BY <2>1, <2>3, <2>7 DEF Makes
    <2> QED  BY <2>6, <2>7
  <1>6. Makes(s)' => Unseen(req[s].no)'
    <2> SUFFICES ASSUME Makes(s)' PROVE Unseen(req[s].no)'
      OBVIOUS
    <2>1. PICK m : m = req[s].no  OBVIOUS
    <2>2. n = 0 /\ Unseen(m) /\ m # n /\ ~Holding(s)'
      BY <1>2, <1>3, <2>1 DEF Makes, Holding
    <2>3. \A v \in Slots : (Names(v)' => req'[v].arg # m) /\ (Holding(v)' => req'[v].seen[3] # m)
      <3> TAKE v \in Slots
      <3>1. CASE v = s  BY <1>1, <2>2, <3>1 DEF Unseen, Names
      <3>2. CASE v # s  BY <1>1, <2>2, <3>2 DEF Unseen, Names, Holding
      <3> QED  BY <3>1, <3>2
    <2>4. Unseen(m)'  BY <2>2, <2>3, UnseenStays
    <2>5. Unseen(m)' <=> Unseen(req[s].no)'  BY <1>1, <2>1 DEF Unseen
    <2> QED  BY <2>1, <2>4, <2>5
  <1>7. \A t \in Slots : Active(t)' => Way(t)' /\ (Makes(t)' => Unseen(req[t].no)')
    <2> TAKE t \in Slots
    <2>1. CASE t = s  BY <1>1, <1>6, <2>1
    <2>2. CASE t # s
      <3>1. req'[t] = req[t]  BY <1>1, <2>2
      <3>2. Active(t)' => Active(t)  BY <3>1 DEF Active
      <3> QED  BY <1>5, <2>2, <3>1, <3>2
    <2> QED  BY <2>1, <2>2
  <1> QED  BY <1>4, <1>7 DEF UsedInv

\* A step of no request, that brings nothing.
LEMMA UsedLapse ==
    ASSUME ShapesOK, UsedInv, UNCHANGED <<env, count, req>>, PastOK', past'.used = past.used,
           \A g \in Stores : Adds(g, 0), \A g \in Stores : CodesNumbered(g)'
    PROVE  UsedInv'
  <1>1. count \in Nat /\ \A t \in Slots : Active(t) => req[t].no \in 1..count
    BY OwnIsAStore DEF ShapesOK
  <1>2. \A u \in past.used : Thing(u)' /\ Spent(u)'
    <2> TAKE u \in past.used
    <2>1. Thing(u) /\ Spent(u)  BY DEF UsedInv
    <2>2. Adds(u[2], 0) /\ u[3] # 0  BY <2>1 DEF Thing
    <2> QED  BY <2>1, <2>2, SpentStays DEF Thing
  <1>3. ASSUME NEW t \in Slots, Active(t)
        PROVE  Way(t)' /\ (Makes(t) => Unseen(req[t].no)')
    <2>1. Way(t) /\ (Makes(t) => Unseen(req[t].no))  BY <1>3 DEF UsedInv
    <2>2. Holding(t) => req[t].seen[3] # 0  BY <2>1 DEF Way, Thing
    <2>3. Way(t)'  BY <1>1, <1>3, <2>1, <2>2, WayStays
    <2>4. PICK m : m = req[t].no  OBVIOUS
    <2>5. Makes(t) => Unseen(m)'
      <3>1. ASSUME Unseen(m)
            PROVE  \A v \in Slots : (Names(v)' => req'[v].arg # m) /\ (Holding(v)' => req'[v].seen[3] # m)
        BY <3>1 DEF Unseen, Names, Holding
      <3> QED  BY <1>1, <1>3, <2>1, <2>4, <3>1, UnseenStays
    <2> QED  BY <2>3, <2>4, <2>5
  <1>4. \A t \in Slots : Active(t)' => Way(t)' /\ (Makes(t)' => Unseen(req[t].no)')
    BY <1>3 DEF Active, Makes
  <1>6. \A u \in past'.used : Thing(u)' /\ Spent(u)'  BY <1>2
  <1> QED  BY <1>4, <1>6 DEF UsedInv


LEMMA AddsThat ==
    ASSUME NEW h, NEW se, NEW or, NEW me, NEW in, NEW co, Turned(h, se, or, me, in, co), NEW n,
           \A y \in co : y.no = n \/ \E x \in rows[h].codes : x.no = y.no /\ x.ident = y.ident,
           \A y \in se : y.no = n \/ \E x \in rows[h].sessions : x.no = y.no,
           \A y \in in :
              y.no = n \/ \E x \in rows[h].invites : x.no = y.no /\ (y.status = "pending" => x.status = "pending")
    PROVE  \A g \in Stores : Adds(g, n)
  <1> TAKE g \in Stores
  <1>1. CASE g = h  BY <1>1 DEF Turned, Adds
  <1>2. CASE g # h  BY <1>2 DEF Turned, Adds
  <1> QED  BY <1>1, <1>2

LEMMA CodesStayNumbered ==
    ASSUME NEW h, NEW se, NEW or, NEW me, NEW in, NEW co, Turned(h, se, or, me, in, co), count' = count,
           \A g \in Stores : CodesNumbered(g),
           \A x \in co : x.no \in 1..count, \A x \in se : x.no \in 1..count,
           \A x, y \in co : x.no = y.no => x = y
    PROVE  \A g \in Stores : CodesNumbered(g)'
  <1> TAKE g \in Stores
  <1>1. CASE g = h  BY <1>1 DEF Turned, CodesNumbered
  <1>2. CASE g # h  BY <1>2 DEF Turned, CodesNumbered
  <1> QED  BY <1>1, <1>2

\* What a request is about stays what it is; what is left to say of it is what its new place asks for.
LEMMA WayOnwards ==
    ASSUME ShapesOK, UsedInv, env' = env, count' = count, past'.used = past.used,
           NEW s \in Slots, Active(s), NEW pc, NEW result, NEW seen, Became(s, pc, result, seen),
           pc \in {"mark", "join", "query"} => env.db,
           req[s].kind = "accept" /\ pc \in {"mark", "look", "join"} => <<"invite", Own(s), req[s].arg>> \notin req[s].before,
           pc = "use" \/ (pc = "answered" /\ result = "used") => Thing(seen),
           Using(s)', Used(s)',
           pc = "answered" /\ result = "found" /\ req[s].kind = "lookup" =>
               <<"session", Own(s), req[s].arg>> \notin req[s].before
    PROVE  Way(s)'
  <1>1. /\ req'[s].kind = req[s].kind /\ req'[s].pc = pc /\ req'[s].at = req[s].at /\ req'[s].no = req[s].no
        /\ req'[s].result = result /\ req'[s].arg = req[s].arg /\ req'[s].seen = seen /\ req'[s].before = req[s].before
    BY FieldsOf DEF Became
  <1>2. Aiming(s) /\ Own(s)' = Own(s)  BY <1>1 DEF UsedInv, Way, Own, StoreOf
  <1>3. Aiming(s)'  BY <1>1, <1>2 DEF Aiming, Names
  <1>4. FoundFresh(s)'  BY <1>1, <1>2 DEF FoundFresh
  <1>5. Holding(s)' => Thing(req[s].seen)'  BY <1>1 DEF Holding, Thing
  <1> QED  BY <1>3, <1>4, <1>5 DEF Way

\* A step after which the request has nothing used up in hand.
LEMMA UsedEmptyHanded ==
    ASSUME ShapesOK, UsedInv, env' = env, count' = count, PastOK', past'.used = past.used,
           NEW s \in Slots, Active(s), NEW pc \in Places, NEW result, NEW seen, Became(s, pc, result, seen),
           pc # "use", pc = "answered" => result # "used",
           pc \in {"mark", "join", "query"} => env.db,
           req[s].kind = "accept" /\ pc \in {"mark", "look", "join"} => <<"invite", Own(s), req[s].arg>> \notin req[s].before,
           pc = "answered" /\ result = "found" /\ req[s].kind = "lookup" =>
               <<"session", Own(s), req[s].arg>> \notin req[s].before,
           NEW n, n = 0 \/ (n = req[s].no /\ Makes(s) /\ ~Makes(s)'), Makes(s)' => Makes(s),
           NEW h, NEW se, NEW or, NEW me, NEW in, NEW co, Turned(h, se, or, me, in, co),
           \A g \in Stores : Adds(g, n), \A g \in Stores : CodesNumbered(g)'
    PROVE  UsedInv'
  <1>1. ShapesOK'  BY ShapesOfStep
  <1>2. req'[s].pc = pc /\ req'[s].result = result  BY FieldsOf DEF Became
  <1>3. Using(s)' /\ Used(s)' /\ ~Holding(s)'  BY <1>2 DEF Using, Used, Holding
  <1>4. Way(s)'  BY <1>3, WayOnwards
  <1> QED  BY <1>1, <1>3, <1>4, UsedOnwards

\* One that leaves codes, sessions and invitations alone.
LEMMA UsedAside ==
    ASSUME ShapesOK, UsedInv, env' = env, count' = count, PastOK', past'.used = past.used,
           NEW s \in Slots, Active(s), NEW pc \in Places, NEW result, NEW seen, Became(s, pc, result, seen),
           pc # "use", pc = "answered" => result # "used",
           pc \in {"mark", "join", "query"} => env.db,
           req[s].kind = "accept" /\ pc \in {"mark", "look", "join"} => <<"invite", Own(s), req[s].arg>> \notin req[s].before,
           pc = "answered" /\ result = "found" /\ req[s].kind = "lookup" =>
               <<"session", Own(s), req[s].arg>> \notin req[s].before,
           Makes(s)' => Makes(s),
           NEW h \in Stores, NEW or, NEW me, Turned(h, rows[h].sessions, or, me, rows[h].invites, rows[h].codes)
    PROVE  UsedInv'
  <1>1. \A g \in Stores : Adds(g, 0)  BY AddsThat
  <1>2. \A g \in Stores : CodesNumbered(g)'
    <2>1. /\ \A x \in rows[h].codes : x.no \in 1..count
          /\ \A x \in rows[h].sessions : x.no \in 1..count
          /\ \A x, y \in rows[h].codes : x.no = y.no => x = y
      BY DEF UsedInv, CodesNumbered
    <2>2. \A g \in Stores : CodesNumbered(g)  BY DEF UsedInv
    <2> QED  BY <2>1, <2>2, CodesStayNumbered
  <1> QED  BY <1>1, <1>2, UsedEmptyHanded


LEMMA PastStays ==
    ASSUME UsedInv, past' = past
    PROVE  PastOK' /\ past'.used = past.used
  BY DEF UsedInv, PastOK

LEMMA UsedCalm ==
    ASSUME ShapesOK, UsedInv, NEW s \in Slots,
           \/ Login(s) \/ LoginRefused(s) \/ Jwks(s) \/ JwksMake(s) \/ CreateOrg(s) \/ AddOwner(s)
           \/ AddUser(s) \/ Look(s) \/ Invite(s) \/ QueryFails(s)
    PROVE  UsedInv'
  <1>1. Active(s) /\ env' = env /\ count' = count /\ past' = past
    BY AtIsActive DEF Login, LoginRefused, Jwks, JwksMake, CreateOrg, AddOwner, AddUser, Look, Invite, QueryFails,
                      Places, Active
  <1>2. Own(s) \in Stores /\ Of(s) = rows[Own(s)]  BY <1>1, OwnIsAStore DEF Of, Own
  <1>3. ASSUME NEW pc \in {"answered", "owner", "user", "row", "make", "session"}, NEW result, NEW seen,
               Became(s, pc, result, seen), pc = "answered" => result \notin {"used", "found"} \/ (req[s].kind = "look" /\ result # "used"),
               NEW or, NEW me, Turned(Own(s), Of(s).sessions, or, me, Of(s).invites, Of(s).codes),
               pc = "row" => At(s, "invite", "start"), pc = "session" => At(s, "login", "start")
        PROVE  UsedInv'
    <2>1. PastOK' /\ past'.used = past.used  BY <1>1, PastStays
    <2>2. pc \in Places  BY DEF Places
    <2>3. req'[s].kind = req[s].kind /\ req'[s].pc = pc  BY <1>3, FieldsOf DEF Became
    <2>4. Makes(s)' => Makes(s)  BY <1>3, <2>3 DEF Makes, At
    <2> QED  BY <1>1, <1>2, <1>3, <2>1, <2>2, <2>4, UsedAside
  <1>4. ASSUME NEW pc \in {"answered", "owner", "user", "row", "make", "session"}, NEW result, NEW seen,
               Became(s, pc, result, seen), pc = "answered" => result \notin {"used", "found"} \/ (req[s].kind = "look" /\ result # "used"),
               Settled(Own(s)),
               pc = "row" => At(s, "invite", "start"), pc = "session" => At(s, "login", "start")
        PROVE  UsedInv'
    BY <1>2, <1>3, <1>4 DEF Settled
  <1>a. CASE Login(s)  BY <1>4, <1>a, LoginIs DEF Login
  <1>b. CASE LoginRefused(s)  BY <1>4, <1>b, LoginRefusedIs
  <1>c. CASE Jwks(s)  BY <1>4, <1>c, JwksIs
  <1>d. CASE JwksMake(s)  BY <1>4, <1>d, JwksMakeIs
  <1>e. CASE CreateOrg(s)  BY <1>3, <1>4, <1>e, CreateOrgIs
  <1>f. CASE AddOwner(s)  BY <1>3, <1>f, AddOwnerIs
  <1>g. CASE AddUser(s)  BY <1>4, <1>g, AddUserIs
  <1>h. CASE Look(s)
    <2>1. PICK what \in {"404", "found", "403"} : Answer(s, what)  BY <1>h DEF Look
    <2>2. Became(s, "answered", what, req[s].seen)  BY <1>1, <2>1, AnswerIs
    <2>3. Settled(Own(s)) /\ req[s].kind = "look"  BY <1>h, LookIs DEF Look, At
    <2> QED  BY <1>4, <2>2, <2>3
  <1>i. CASE Invite(s)
    <2>1. At(s, "invite", "start")  BY <1>i DEF Invite
    <2> QED  BY <1>4, <1>i, <2>1, InviteIs
  <1>j. CASE QueryFails(s)  BY <1>4, <1>j, QueryFailsIs
  <1> QED  BY <1>a, <1>b, <1>c, <1>d, <1>e, <1>f, <1>g, <1>h, <1>i, <1>j

LEMMA UsedLoginSession ==
    ASSUME ShapesOK, UsedInv, NEW s \in Slots, LoginSession(s)
    PROVE  UsedInv'
  <1>1. Active(s) /\ env' = env /\ count' = count /\ past' = past /\ At(s, "login", "session")
    BY AtIsActive DEF LoginSession, Places
  <1>2. Own(s) \in Stores /\ Of(s) = rows[Own(s)] /\ req[s].no \in 1..count  BY <1>1, OwnIsAStore DEF Of, Own
  <1>3. PICK h : h = Own(s)  OBVIOUS
  <1>4. PICK new : new = [no |-> req[s].no, who |-> req[s].arg]  OBVIOUS
  <1>5. PICK n : n = req[s].no  OBVIOUS
  <1>6. /\ Became(s, "answered", "ok", req[s].seen)
        /\ Turned(h, rows[h].sessions \cup {new}, Of(s).orgs, Of(s).members, rows[h].invites, rows[h].codes)
    BY <1>2, <1>3, <1>4, LoginSessionIs
  <1>7. new.no = n /\ n \in 1..count  BY <1>2, <1>4, <1>5
  <1>8. \A g \in Stores : Adds(g, n)
    <2>1. PICK all, or, me : all = rows[h].sessions \cup {new} /\ Turned(h, all, or, me, rows[h].invites, rows[h].codes)  BY <1>6
    <2>2. \A y \in all : y.no = n \/ \E x \in rows[h].sessions : x.no = y.no
      BY <1>7, <2>1
    <2>3. \A y \in rows[h].codes : y.no = n \/ \E x \in rows[h].codes : x.no = y.no /\ x.ident = y.ident  OBVIOUS
    <2>4. \A y \in rows[h].invites :
            y.no = n \/ \E x \in rows[h].invites : x.no = y.no /\ (y.status = "pending" => x.status = "pending")  OBVIOUS
    <2> QED  BY <2>1, <2>2, <2>3, <2>4, AddsThat
  <1>9. \A g \in Stores : CodesNumbered(g)'
    <2>1. /\ \A x \in rows[h].codes : x.no \in 1..count
          /\ \A x \in rows[h].sessions \cup {new} : x.no \in 1..count
          /\ \A x, y \in rows[h].codes : x.no = y.no => x = y
          /\ \A g \in Stores : CodesNumbered(g)
      BY <1>2, <1>3, <1>7 DEF UsedInv, CodesNumbered
    <2> QED  BY <1>1, <1>6, <2>1, CodesStayNumbered
  <1>10. PastOK' /\ past'.used = past.used  BY <1>1, PastStays
  <1>11. n = req[s].no /\ Makes(s) /\ ~Makes(s)' /\ "answered" \in Places
    <2>1. req'[s].kind = req[s].kind /\ req'[s].pc = "answered"  BY <1>6, FieldsOf DEF Became
    <2> QED  BY <1>1, <1>5, <2>1 DEF Makes, At, Places
  <1>12. "answered" # "use" /\ "ok" # "used" /\ "ok" # "found" /\ "answered" \notin {"mark", "join", "query", "look"}
    OBVIOUS
  <1> QED  BY <1>1, <1>6, <1>8, <1>9, <1>10, <1>11, <1>12, UsedEmptyHanded

LEMMA UsedIssue ==
    ASSUME ShapesOK, UsedInv, NEW s \in Slots, Issue(s)
    PROVE  UsedInv'
  <1>1. Active(s) /\ env' = env /\ count' = count /\ past' = past /\ At(s, "issue", "start")
    BY AtIsActive DEF Issue, Places
  <1>2. Own(s) \in Stores /\ Of(s) = rows[Own(s)] /\ req[s].no \in 1..count  BY <1>1, OwnIsAStore DEF Of, Own
  <1>3. PICK h \in Stores : h = Own(s)  BY <1>2
  <1>5. PICK n : n = req[s].no  OBVIOUS
  <1>6. Became(s, "answered", "ok", req[s].seen)  BY IssueIs
  <1>7. PICK new : /\ new.no = n
                   /\ Turned(h, rows[h].sessions, Of(s).orgs, Of(s).members, rows[h].invites, rows[h].codes \cup {new})
    <2>1. PICK v \in Values :
            Turned(Own(s), Of(s).sessions, Of(s).orgs, Of(s).members, Of(s).invites,
                   Of(s).codes \cup {[no |-> req[s].no, ident |-> req[s].arg, value |-> v, by |-> req[s].user.id,
                                      live |-> TRUE]})
      BY IssueIs
    <2>2. PICK new : new = [no |-> req[s].no, ident |-> req[s].arg, value |-> v, by |-> req[s].user.id, live |-> TRUE]
      OBVIOUS
    <2>3. new.no = n  BY <1>5, <2>2
    <2> QED  BY <1>2, <1>3, <2>1, <2>2, <2>3
  <1>8. \A g \in Stores : Adds(g, n)
    <2>1. PICK all, or, me : all = rows[h].codes \cup {new} /\ Turned(h, rows[h].sessions, or, me, rows[h].invites, all)  BY <1>7
    <2>2. \A y \in all : y.no = n \/ \E x \in rows[h].codes : x.no = y.no /\ x.ident = y.ident
      BY <1>7, <2>1
    <2>3. \A y \in rows[h].sessions : y.no = n \/ \E x \in rows[h].sessions : x.no = y.no  OBVIOUS
    <2>4. \A y \in rows[h].invites :
            y.no = n \/ \E x \in rows[h].invites : x.no = y.no /\ (y.status = "pending" => x.status = "pending")  OBVIOUS
    <2> QED  BY <2>1, <2>2, <2>3, <2>4, AddsThat
  <1>9. \A g \in Stores : CodesNumbered(g)'
    <2>1. Unseen(n)  BY <1>1, <1>5 DEF UsedInv, Makes, At
    <2>2. /\ \A x \in rows[h].codes \cup {new} : x.no \in 1..count
          /\ \A x \in rows[h].sessions : x.no \in 1..count
          /\ \A x, y \in rows[h].codes \cup {new} : x.no = y.no => x = y
          /\ \A g \in Stores : CodesNumbered(g)
      BY <1>2, <1>5, <1>7, <2>1 DEF UsedInv, CodesNumbered, Unseen
    <2> QED  BY <1>1, <1>7, <2>2, CodesStayNumbered
  <1>10. PastOK' /\ past'.used = past.used  BY <1>1, PastStays
  <1>11. n = req[s].no /\ Makes(s) /\ ~Makes(s)' /\ "answered" \in Places
    <2>1. req'[s].kind = req[s].kind /\ req'[s].pc = "answered"  BY <1>6, FieldsOf DEF Became
    <2> QED  BY <1>1, <1>5, <2>1 DEF Makes, At, Places
  <1>12. "answered" # "use" /\ "ok" # "used" /\ "ok" # "found" /\ "answered" \notin {"mark", "join", "query", "look"}
    OBVIOUS
  <1> QED  BY <1>1, <1>6, <1>7, <1>8, <1>9, <1>10, <1>11, <1>12, UsedEmptyHanded

LEMMA UsedInviteRow ==
    ASSUME ShapesOK, UsedInv, NEW s \in Slots, InviteRow(s)
    PROVE  UsedInv'
  <1>1. Active(s) /\ env' = env /\ count' = count /\ past' = past /\ At(s, "invite", "row")
    BY AtIsActive DEF InviteRow, Places
  <1>2. Own(s) \in Stores /\ Of(s) = rows[Own(s)] /\ req[s].no \in 1..count  BY <1>1, OwnIsAStore DEF Of, Own
  <1>3. PICK h \in Stores : h = Own(s)  BY <1>2
  <1>4. PICK new : new = Posted(s)  OBVIOUS
  <1>5. PICK n : n = req[s].no  OBVIOUS
  <1>6. /\ Became(s, "answered", "ok", req[s].seen)
        /\ Turned(h, rows[h].sessions, Of(s).orgs, Of(s).members, rows[h].invites \cup {new}, rows[h].codes)
    BY <1>2, <1>3, <1>4, InviteRowIs
  <1>7. new.no = n  BY <1>4, <1>5 DEF Posted
  <1>8. \A g \in Stores : Adds(g, n)
    <2>1. PICK all, or, me : all = rows[h].invites \cup {new} /\ Turned(h, rows[h].sessions, or, me, all, rows[h].codes)  BY <1>6
    <2>2. \A y \in all : y.no = n \/ \E x \in rows[h].invites : x.no = y.no /\ (y.status = "pending" => x.status = "pending")
      BY <1>7, <2>1
    <2>3. \A y \in rows[h].codes : y.no = n \/ \E x \in rows[h].codes : x.no = y.no /\ x.ident = y.ident  OBVIOUS
    <2>4. \A y \in rows[h].sessions : y.no = n \/ \E x \in rows[h].sessions : x.no = y.no  OBVIOUS
    <2> QED  BY <2>1, <2>2, <2>3, <2>4, AddsThat
  <1>9. \A g \in Stores : CodesNumbered(g)'
    <2>1. /\ \A x \in rows[h].codes : x.no \in 1..count
          /\ \A x \in rows[h].sessions : x.no \in 1..count
          /\ \A x, y \in rows[h].codes : x.no = y.no => x = y
          /\ \A g \in Stores : CodesNumbered(g)
      BY <1>3 DEF UsedInv, CodesNumbered
    <2> QED  BY <1>1, <1>6, <2>1, CodesStayNumbered
  <1>10. PastOK' /\ past'.used = past.used  BY <1>1, PastStays
  <1>11. n = req[s].no /\ Makes(s) /\ ~Makes(s)' /\ "answered" \in Places
    <2>1. req'[s].kind = req[s].kind /\ req'[s].pc = "answered"  BY <1>6, FieldsOf DEF Became
    <2> QED  BY <1>1, <1>5, <2>1 DEF Makes, At, Places
  <1>12. "answered" # "use" /\ "ok" # "used" /\ "ok" # "found" /\ "answered" \notin {"mark", "join", "query", "look"}
    OBVIOUS
  <1> QED  BY <1>1, <1>6, <1>8, <1>9, <1>10, <1>11, <1>12, UsedEmptyHanded

LEMMA UsedLookup ==
    ASSUME ShapesOK, UsedInv, NEW s \in Slots, Lookup(s)
    PROVE  UsedInv'
  <1>1. Active(s) /\ env' = env /\ count' = count /\ past' = past /\ At(s, "lookup", "start")
    BY AtIsActive DEF Lookup, Places
  <1>2. Own(s) \in Stores /\ Of(s) = rows[Own(s)]  BY <1>1, OwnIsAStore DEF Of, Own
  <1>3. PastOK' /\ past'.used = past.used  BY <1>1, PastStays
  <1>4. PICK result : /\ Became(s, "answered", result, req[s].seen) /\ result # "used"
                      /\ result = "found" => Has(Of(s).sessions, req[s].arg)
    BY LookupIs
  <1>5. result = "found" => <<"session", Own(s), req[s].arg>> \notin req[s].before
    <2>1. PICK u : u = <<"session", Own(s), req[s].arg>>  OBVIOUS
    <2>2. u[1] = "session" /\ u[2] = Own(s) /\ u[3] = req[s].arg  BY <2>1
    <2>3. ASSUME u \in req[s].before, result = "found"  PROVE FALSE
      <3>1. Spent(u)  BY <1>1, <2>3 DEF UsedInv, Way, Aiming
      <3> QED  BY <1>2, <1>4, <2>2, <2>3, <3>1 DEF Spent, Has
    <2> QED  BY <2>1, <2>3
  <1>6. /\ ~Makes(s)' /\ "answered" \in Places /\ req[s].kind # "accept"
        /\ Turned(Own(s), rows[Own(s)].sessions, rows[Own(s)].orgs, rows[Own(s)].members, rows[Own(s)].invites,
                  rows[Own(s)].codes)
    <2>1. req'[s].pc = "answered"  BY <1>4, FieldsOf DEF Became
    <2> QED  BY <1>1, <2>1, LookupIs DEF Makes, Places, At, Settled
  <1> QED  BY <1>1, <1>2, <1>3, <1>4, <1>5, <1>6, UsedAside

-----------------------------------------------------------------------------
(* Rows are of the kinds the tables have *)

Code(x) == x = [no |-> x.no, ident |-> x.ident, value |-> x.value, by |-> x.by, live |-> x.live]
Kinds(orgs, invites, codes) ==
    /\ \A o \in orgs : o.no \in Numbers /\ o.slug \in Slugs
    /\ \A x \in invites : x.status \in {"pending", "lapsed", "accepted", "expired"}
    /\ \A x \in codes : Code(x) /\ x.ident \in Identifiers /\ x.value \in Values /\ x.live \in BOOLEAN
Bare(h) == (h = "db") # env.db => rows[h] = NoRows
Asks(s) ==
    /\ req[s].kind = "org" => req[s].arg \in Slugs
    /\ req[s].kind = "issue" => req[s].arg \in Identifiers
    /\ req[s].kind = "verify" => req[s].arg.ident \in Identifiers
TypedInv ==
    /\ \A h \in Stores : Kinds(rows[h].orgs, rows[h].invites, rows[h].codes) /\ Bare(h)
    /\ \A s \in Slots : Active(s) => Asks(s)

LEMMA OwnIsTheOne ==
    ASSUME ShapesOK, NEW s \in Slots, Active(s)
    PROVE  (Own(s) = "db") = env.db
  BY OwnIsAStore, AccountsConstants DEF Own, StoreOf, ShapesOK

LEMMA TypedOnwards ==
    ASSUME ShapesOK, TypedInv, env' = env, NEW s \in Slots, Active(s),
           NEW pc, NEW result, NEW seen, Became(s, pc, result, seen),
           NEW se, NEW or, NEW me, NEW in, NEW co, Turned(Own(s), se, or, me, in, co), Kinds(or, in, co)
    PROVE  TypedInv'
  <1>1. PICK h \in Stores : h = Own(s) /\ (h = "db") = env.db  BY OwnIsAStore, OwnIsTheOne
  <1>2. rows'[h].orgs = or /\ rows'[h].invites = in /\ rows'[h].codes = co /\ \A g \in Stores : g # h => rows'[g] = rows[g]
    BY <1>1 DEF Turned
  <1>3. \A g \in Stores : Kinds(rows'[g].orgs, rows'[g].invites, rows'[g].codes) /\ Bare(g)'
    <2> TAKE g \in Stores
    <2>1. CASE g = h  BY <1>1, <1>2, <2>1 DEF Bare
    <2>2. CASE g # h  BY <1>2, <2>2 DEF TypedInv, Bare
    <2> QED  BY <2>1, <2>2
  <1>4. /\ req'[s].kind = req[s].kind /\ req'[s].arg = req[s].arg
        /\ \A t \in Slots : t # s => req'[t] = req[t]
    BY FieldsOf DEF Became
  <1>5. \A t \in Slots : Active(t)' => Asks(t)'
    <2> TAKE t \in Slots
    <2>1. CASE t = s  BY <1>4, <2>1 DEF TypedInv, Asks
    <2>2. CASE t # s  BY <1>4, <2>2 DEF TypedInv, Asks, Active
    <2> QED  BY <2>1, <2>2
  <1> QED  BY <1>3, <1>5 DEF TypedInv, Kinds, Code

\* One that writes no organisation, invitation or code.
LEMMA TypedAside ==
    ASSUME ShapesOK, TypedInv, env' = env, NEW s \in Slots, Active(s),
           NEW pc, NEW result, NEW seen, Became(s, pc, result, seen),
           NEW se, NEW me, Turned(Own(s), se, Of(s).orgs, me, Of(s).invites, Of(s).codes)
    PROVE  TypedInv'
  <1>1. Own(s) \in Stores /\ Of(s) = rows[Own(s)]  BY OwnIsAStore DEF Of, Own
  <1>2. Kinds(Of(s).orgs, Of(s).invites, Of(s).codes)  BY <1>1 DEF TypedInv
  <1> QED  BY <1>2, TypedOnwards

LEMMA TypedCalm ==
    ASSUME ShapesOK, TypedInv, NEW s \in Slots,
           \/ Login(s) \/ LoginSession(s) \/ LoginRefused(s) \/ Logout(s) \/ Lookup(s) \/ Jwks(s) \/ JwksMake(s)
           \/ AddOwner(s) \/ AddUser(s) \/ Look(s) \/ Invite(s) \/ QueryFails(s)
    PROVE  TypedInv'
  <1>1. Active(s) /\ env' = env
    BY AtIsActive DEF Login, LoginSession, LoginRefused, Logout, Lookup, Jwks, JwksMake, AddOwner, AddUser, Look, Invite,
                      QueryFails, Places, Active
  <1>2. Own(s) \in Stores /\ Of(s) = rows[Own(s)]  BY <1>1, OwnIsAStore DEF Of, Own
  <1>3. ASSUME NEW pc, NEW result, NEW seen, Became(s, pc, result, seen),
               NEW se, NEW me, Turned(Own(s), se, Of(s).orgs, me, Of(s).invites, Of(s).codes)
        PROVE  TypedInv'
    BY <1>1, <1>3, TypedAside
  <1>4. ASSUME NEW pc, NEW result, NEW seen, Became(s, pc, result, seen), Settled(Own(s))
        PROVE  TypedInv'
    BY <1>2, <1>3, <1>4 DEF Settled
  <1>a. CASE Login(s)  BY <1>4, <1>a, LoginIs
  <1>b. CASE LoginSession(s)  BY <1>3, <1>b, LoginSessionIs
  <1>c. CASE LoginRefused(s)  BY <1>4, <1>c, LoginRefusedIs
  <1>d. CASE Logout(s)  BY <1>3, <1>d, LogoutIs
  <1>e. CASE Lookup(s)  BY <1>4, <1>e, LookupIs
  <1>f. CASE Jwks(s)  BY <1>4, <1>f, JwksIs
  <1>g. CASE JwksMake(s)  BY <1>4, <1>g, JwksMakeIs
  <1>h. CASE AddOwner(s)  BY <1>3, <1>h, AddOwnerIs
  <1>i. CASE AddUser(s)  BY <1>4, <1>i, AddUserIs
  <1>j. CASE Look(s)  BY <1>4, <1>j, LookIs
  <1>k. CASE Invite(s)  BY <1>4, <1>k, InviteIs
  <1>l. CASE QueryFails(s)  BY <1>4, <1>l, QueryFailsIs
  <1> QED  BY <1>a, <1>b, <1>c, <1>d, <1>e, <1>f, <1>g, <1>h, <1>i, <1>j, <1>k, <1>l

LEMMA TypedCreateOrg ==
    ASSUME ShapesOK, TypedInv, NEW s \in Slots, CreateOrg(s)
    PROVE  TypedInv'
  <1>1. Active(s) /\ env' = env /\ req[s].kind = "org"  BY AtIsActive DEF CreateOrg, At, Places
  <1>2. Own(s) \in Stores /\ Of(s) = rows[Own(s)] /\ req[s].no \in 1..count  BY <1>1, OwnIsAStore DEF Of, Own
  <1>3. CASE Settled(Own(s)) /\ Became(s, "answered", "400", req[s].seen)
    BY <1>1, <1>2, <1>3, TypedAside DEF Settled
  <1>4. ASSUME NEW new, new = [no |-> req[s].no, slug |-> req[s].arg, by |-> req[s].user.id],
               Became(s, "owner", req[s].result, req[s].seen),
               Turned(Own(s), Of(s).sessions, Of(s).orgs \cup {new}, Of(s).members, Of(s).invites, Of(s).codes)
        PROVE  TypedInv'
    <2>1. req[s].no \in Numbers  BY <1>2, AccountsConstants DEF Numbers, ShapesOK
    <2>2. new.no \in Numbers /\ new.slug \in Slugs  BY <1>1, <1>4, <2>1 DEF TypedInv, Asks
    <2>3. Kinds(Of(s).orgs \cup {new}, Of(s).invites, Of(s).codes)
      BY <1>2, <2>2 DEF TypedInv, Kinds
    <2>4. PICK or : or = Of(s).orgs \cup {new}  OBVIOUS
    <2> QED  BY <1>1, <1>4, <2>3, <2>4, TypedOnwards
  <1> QED  BY <1>3, <1>4, CreateOrgIs

LEMMA TypedInviteRow ==
    ASSUME ShapesOK, TypedInv, NEW s \in Slots, InviteRow(s)
    PROVE  TypedInv'
  <1>1. Active(s) /\ env' = env  BY AtIsActive DEF InviteRow, Places
  <1>2. Own(s) \in Stores /\ Of(s) = rows[Own(s)]  BY <1>1, OwnIsAStore DEF Of, Own
  <1>3. PICK in : in = Of(s).invites \cup {Posted(s)}  OBVIOUS
  <1>4. Became(s, "answered", "ok", req[s].seen) /\ Turned(Own(s), Of(s).sessions, Of(s).orgs, Of(s).members, in, Of(s).codes)
    BY <1>3, InviteRowIs
  <1>5. Posted(s).status = "pending"  BY DEF Posted
  <1>6. Kinds(Of(s).orgs, in, Of(s).codes)  BY <1>2, <1>3, <1>5 DEF TypedInv, Kinds
  <1> QED  BY <1>1, <1>4, <1>6, TypedOnwards

LEMMA StatusesOf ==
    ASSUME NEW S, \A x \in S : Letter(x), NEW n, NEW st
    PROVE  \A y \in SetStatus(S, n, st) : y.status = st \/ \E x \in S : y.status = x.status
  BY DEF SetStatus, Letter

LEMMA TypedRestamped ==
    ASSUME AskedInv, TypedInv, env' = env, NEW s \in Slots, Active(s), NEW st \in {"accepted", "expired"},
           NEW pc, NEW result, NEW seen, Became(s, pc, result, seen),
           Turned(Own(s), Of(s).sessions, Of(s).orgs, Of(s).members, SetStatus(Of(s).invites, req[s].arg, st), Of(s).codes)
    PROVE  TypedInv'
  <1>1. Own(s) \in Stores /\ Of(s) = rows[Own(s)]  BY OwnIsAStore DEF Of, Own, AskedInv
  <1>2. PICK in : in = SetStatus(Of(s).invites, req[s].arg, st)  OBVIOUS
  <1>3. \A y \in in : y.status = st \/ \E x \in Of(s).invites : y.status = x.status
    <2>1. \A x \in Of(s).invites : Letter(x)  BY <1>1 DEF AskedInv, Numbered
    <2> QED  BY <1>2, <2>1, StatusesOf
  <1>4. Kinds(Of(s).orgs, in, Of(s).codes)  BY <1>1, <1>3 DEF TypedInv, Kinds
  <1>5. ShapesOK /\ Turned(Own(s), Of(s).sessions, Of(s).orgs, Of(s).members, in, Of(s).codes)  BY <1>2 DEF AskedInv
  <1> QED  BY <1>4, <1>5, TypedOnwards

LEMMA TypedAccepts ==
    ASSUME AskedInv, TypedInv, NEW s \in Slots,
           Accept(s) \/ AcceptExpire(s) \/ AcceptMark(s) \/ AcceptLook(s) \/ AcceptJoin(s)
    PROVE  TypedInv'
  <1>1. Active(s) /\ env' = env
    BY AtIsActive DEF Accept, AcceptExpire, AcceptMark, AcceptLook, AcceptJoin, Places
  <1>2. Own(s) \in Stores /\ Of(s) = rows[Own(s)] /\ ShapesOK  BY <1>1, OwnIsAStore DEF Of, Own, AskedInv
  <1>3. ASSUME NEW pc, NEW result, NEW seen, Became(s, pc, result, seen), Settled(Own(s))
        PROVE  TypedInv'
    BY <1>1, <1>2, <1>3, TypedAside DEF Settled
  <1>4. ASSUME Joined(s) PROVE TypedInv'  BY <1>1, <1>2, <1>4, JoinedIs, TypedAside
  <1>a. CASE Accept(s)  BY <1>1, <1>2, <1>3, <1>a, AcceptIs, TypedRestamped DEF Marked
  <1>b. CASE AcceptExpire(s)  BY <1>1, <1>2, <1>b, AcceptExpireIs, TypedRestamped
  <1>c. CASE AcceptMark(s)  BY <1>1, <1>2, <1>c, AcceptMarkIs, TypedRestamped DEF Marked
  <1>d. CASE AcceptLook(s)  BY <1>2, <1>3, <1>4, <1>d, AcceptLookIs
  <1>e. CASE AcceptJoin(s)  BY <1>4, <1>e DEF AcceptJoin
  <1> QED  BY <1>a, <1>b, <1>c, <1>d, <1>e

LEMMA TypedIssue ==
    ASSUME ShapesOK, TypedInv, NEW s \in Slots, Issue(s)
    PROVE  TypedInv'
  <1>1. Active(s) /\ env' = env /\ req[s].kind = "issue"  BY AtIsActive DEF Issue, At, Places
  <1>2. Own(s) \in Stores /\ Of(s) = rows[Own(s)]  BY <1>1, OwnIsAStore DEF Of, Own
  <1>3. PICK v \in Values :
          Turned(Own(s), Of(s).sessions, Of(s).orgs, Of(s).members, Of(s).invites,
                 Of(s).codes \cup {[no |-> req[s].no, ident |-> req[s].arg, value |-> v, by |-> req[s].user.id,
                                    live |-> TRUE]})
    BY IssueIs
  <1>4. PICK new : new = [no |-> req[s].no, ident |-> req[s].arg, value |-> v, by |-> req[s].user.id, live |-> TRUE]
    OBVIOUS
  <1>5. PICK co : co = Of(s).codes \cup {new}  OBVIOUS
  <1>6. Code(new) /\ new.ident \in Identifiers /\ new.value \in Values /\ new.live \in BOOLEAN
    BY <1>1, <1>4 DEF TypedInv, Asks, Code
  <1>7. Kinds(Of(s).orgs, Of(s).invites, co)  BY <1>2, <1>5, <1>6 DEF TypedInv, Kinds
  <1>8. Turned(Own(s), Of(s).sessions, Of(s).orgs, Of(s).members, Of(s).invites, co)  BY <1>3, <1>4, <1>5
  <1> QED  BY <1>1, <1>7, <1>8, IssueIs, TypedOnwards

LEMMA DeletedAreFewer ==
    ASSUME NEW set, NEW x
    PROVE  Deleted(set, x) \subseteq set
  BY DEF Deleted

LEMMA TypedFewerCodes ==
    ASSUME ShapesOK, TypedInv, env' = env, NEW s \in Slots, Active(s),
           NEW pc, NEW result, NEW seen, Became(s, pc, result, seen), NEW x,
           Turned(Own(s), Of(s).sessions, Of(s).orgs, Of(s).members, Of(s).invites, Deleted(Of(s).codes, x))
    PROVE  TypedInv'
  <1>1. Own(s) \in Stores /\ Of(s) = rows[Own(s)]  BY OwnIsAStore DEF Of, Own
  <1>2. PICK co : co = Deleted(Of(s).codes, x) /\ co \subseteq Of(s).codes  BY DeletedAreFewer
  <1>3. Kinds(Of(s).orgs, Of(s).invites, co)  BY <1>1, <1>2 DEF TypedInv, Kinds
  <1> QED  BY <1>2, <1>3, TypedOnwards

LEMMA TypedJudge ==
    ASSUME ShapesOK, TypedInv, env' = env, NEW s \in Slots, Active(s), Judge(s)
    PROVE  TypedInv'
  <1>1. Own(s) \in Stores /\ Of(s) = rows[Own(s)]  BY OwnIsAStore DEF Of, Own
  <1>2. ASSUME NEW pc, NEW result, NEW seen, Became(s, pc, result, seen), Settled(Own(s))
        PROVE  TypedInv'
    BY <1>1, <1>2, TypedAside DEF Settled
  <1>3. ASSUME Became(s, "answered", "used", <<"code", Own(s), Pick(s).no>>),
               Turned(Own(s), Of(s).sessions, Of(s).orgs, Of(s).members, Of(s).invites, Deleted(Of(s).codes, Pick(s)))
        PROVE  TypedInv'
    BY <1>3, TypedFewerCodes
  <1> QED  BY <1>2, <1>3, JudgeIs

LEMMA TypedCodes ==
    ASSUME ShapesOK, TypedInv, NEW s \in Slots, Verify(s) \/ VerifyQuery(s) \/ VerifyUse(s)
    PROVE  TypedInv'
  <1>1. Active(s) /\ env' = env  BY AtIsActive DEF Verify, VerifyQuery, VerifyUse, Places
  <1>2. Own(s) \in Stores /\ Of(s) = rows[Own(s)]  BY <1>1, OwnIsAStore DEF Of, Own
  <1>3. ASSUME NEW pc, NEW result, NEW seen, Became(s, pc, result, seen), Settled(Own(s))
        PROVE  TypedInv'
    BY <1>1, <1>2, <1>3, TypedAside DEF Settled
  <1>a. CASE Verify(s)  BY <1>1, <1>3, <1>a, VerifyIs, TypedJudge
  <1>b. CASE VerifyQuery(s)  BY <1>1, <1>b, TypedJudge DEF VerifyQuery
  <1>c. CASE VerifyUse(s)  BY <1>1, <1>c, VerifyUseIs, TypedFewerCodes
  <1> QED  BY <1>a, <1>b, <1>c

LEMMA TypedLapse ==
    ASSUME ShapesOK, TypedInv, UNCHANGED <<env, req>>,
           NEW h \in Stores, rows[h] # NoRows,
           NEW se, NEW or, NEW me, NEW in, NEW co, Turned(h, se, or, me, in, co), Kinds(or, in, co)
    PROVE  TypedInv'
  <1>1. rows'[h].orgs = or /\ rows'[h].invites = in /\ rows'[h].codes = co /\ \A g \in Stores : g # h => rows'[g] = rows[g]
    BY DEF Turned
  <1>2. \A g \in Stores : Kinds(rows'[g].orgs, rows'[g].invites, rows'[g].codes) /\ Bare(g)'
    <2> TAKE g \in Stores
    <2>1. CASE g = h  BY <1>1, <2>1 DEF TypedInv, Bare
    <2>2. CASE g # h  BY <1>1, <2>2 DEF TypedInv, Bare
    <2> QED  BY <2>1, <2>2
  <1>3. \A t \in Slots : Active(t)' => Asks(t)'  BY DEF TypedInv, Asks, Active
  <1> QED  BY <1>2, <1>3 DEF TypedInv, Kinds, Code

LEMMA TypedLapses ==
    ASSUME AskedInv, TypedInv, NEW h \in Stores, InviteLapses(h) \/ CodeLapses(h)
    PROVE  TypedInv'
  <1>1. env' = env /\ req' = req /\ ShapesOK  BY DEF InviteLapses, CodeLapses, AskedInv
  <1>2. NoRows.invites = {} /\ NoRows.codes = {}  BY DEF NoRows
  <1>3. Kinds(rows[h].orgs, rows[h].invites, rows[h].codes)  BY DEF TypedInv
  <1>4. CASE InviteLapses(h)
    <2>1. PICK x \in rows[h].invites :
            Turned(h, rows[h].sessions, rows[h].orgs, rows[h].members, SetStatus(rows[h].invites, x.no, "lapsed"),
                   rows[h].codes)
      BY <1>1, <1>4, InviteLapsesIs
    <2>2. PICK in : in = SetStatus(rows[h].invites, x.no, "lapsed")  OBVIOUS
    <2>3. \A y \in in : y.status = "lapsed" \/ \E z \in rows[h].invites : y.status = z.status
      <3>1. \A z \in rows[h].invites : Letter(z)  BY DEF AskedInv, Numbered
      <3> QED  BY <2>2, <3>1, StatusesOf
    <2>4. Kinds(rows[h].orgs, in, rows[h].codes)  BY <1>3, <2>3 DEF Kinds
    <2>5. rows[h] # NoRows  BY <1>2
    <2>6. Turned(h, rows[h].sessions, rows[h].orgs, rows[h].members, in, rows[h].codes)  BY <2>1, <2>2
    <2> QED  BY <1>1, <2>4, <2>5, <2>6, TypedLapse
  <1>5. CASE CodeLapses(h)
    <2>1. PICK x \in rows[h].codes :
            Turned(h, rows[h].sessions, rows[h].orgs, rows[h].members, rows[h].invites,
                   (rows[h].codes \ {x}) \cup {[x EXCEPT !.live = FALSE]})
      BY <1>1, <1>5, CodeLapsesIs
    <2>2. PICK y : y = [x EXCEPT !.live = FALSE]  OBVIOUS
    <2>3. Code(y) /\ y.ident \in Identifiers /\ y.value \in Values /\ y.live \in BOOLEAN
      <3>1. Code(x) /\ x.ident \in Identifiers /\ x.value \in Values  BY <1>3 DEF Kinds
      <3>2. y = [no |-> x.no, ident |-> x.ident, value |-> x.value, by |-> x.by, live |-> FALSE]  BY <2>2, <3>1 DEF Code
      <3> QED  BY <3>1, <3>2 DEF Code
    <2>4. PICK co : co = (rows[h].codes \ {x}) \cup {y}  OBVIOUS
    <2>5. Kinds(rows[h].orgs, rows[h].invites, co)  BY <1>3, <2>3, <2>4 DEF Kinds
    <2>6. rows[h] # NoRows  BY <1>2
    <2>7. Turned(h, rows[h].sessions, rows[h].orgs, rows[h].members, rows[h].invites, co)  BY <2>1, <2>2, <2>4
    <2> QED  BY <1>1, <2>5, <2>6, <2>7, TypedLapse
  <1> QED  BY <1>4, <1>5

LEMMA TypedUnwritten ==
    ASSUME TypedInv, UNCHANGED <<env, rows>>, \A t \in Slots : req'[t] = req[t] \/ (Active(t)' => Asks(t)')
    PROVE  TypedInv'
  <1>1. \A t \in Slots : Active(t)' => Asks(t)'  BY DEF TypedInv, Asks, Active
  <1>2. \A h \in Stores : Kinds(rows'[h].orgs, rows'[h].invites, rows'[h].codes) /\ Bare(h)'
    BY DEF TypedInv, Bare
  <1> QED  BY <1>1, <1>2 DEF TypedInv, Kinds, Code

LEMMA TypedArrive ==
    ASSUME ShapesOK, TypedInv, NEW s \in Slots, NEW kind, NEW c, NEW arg, Arrive(s, kind, c, arg),
           kind = "org" => arg \in Slugs, kind = "issue" => arg \in Identifiers, kind = "verify" => arg.ident \in Identifiers
    PROVE  TypedInv'
  <1>1. PICK i \in Instances : Came(s, kind, i, getUser(env, c), arg)  BY ArriveIs
  <1>2. req'[s].kind = kind /\ req'[s].arg = arg  BY <1>1, FieldsOf DEF Came
  <1>3. UNCHANGED <<env, rows>> /\ \A t \in Slots : t # s => req'[t] = req[t]  BY ArriveIs
  <1>4. Asks(s)'  BY <1>2 DEF Asks
  <1> QED  BY <1>3, <1>4, TypedUnwritten

LEMMA TypedInit == Init => TypedInv
  BY DEF Init, TypedInv, NoRows, Quiet, Active, Kinds, Bare

LEMMA TypedNext == AskedInv /\ TypedInv /\ [Next]_vars => TypedInv'
<1> SUFFICES ASSUME AskedInv, TypedInv, [Next]_vars PROVE TypedInv'
  OBVIOUS
<1>0. ShapesOK  BY DEF AskedInv
<1>1. CASE UNCHANGED vars  BY <1>1, TypedUnwritten DEF vars
<1>2. ASSUME NEW s \in Slots, SessionSteps(s) PROVE TypedInv'
  <2>1. ASSUME NEW c, NEW arg, NEW kind \in {"login", "jwks", "logout", "lookup"}, Arrive(s, kind, c, arg)
        PROVE  TypedInv'
    BY <1>0, <2>1, TypedArrive
  <2> QED  BY <1>0, <1>2, <2>1, TypedCalm DEF SessionSteps
<1>3. ASSUME NEW s \in Slots, OrgSteps(s) PROVE TypedInv'
  <2>1. ASSUME NEW c, NEW arg, NEW kind \in {"look", "invite", "accept"}, Arrive(s, kind, c, arg)
        PROVE  TypedInv'
    BY <1>0, <2>1, TypedArrive
  <2>2. ASSUME NEW c, NEW slug \in Slugs, Arrive(s, "org", c, slug) PROVE TypedInv'
    BY <1>0, <2>2, TypedArrive
  <2>3. CASE CreateOrg(s) \/ InviteRow(s)  BY <1>0, <2>3, TypedCreateOrg, TypedInviteRow
  <2>4. CASE Accept(s) \/ AcceptExpire(s) \/ AcceptMark(s) \/ AcceptLook(s) \/ AcceptJoin(s)
    BY <2>4, TypedAccepts
  <2>5. CASE AddOwner(s) \/ AddUser(s) \/ Look(s) \/ Invite(s)  BY <1>0, <2>5, TypedCalm
  <2>6. CASE \E h \in Stores : InviteLapses(h)  BY <2>6, TypedLapses
  <2> QED  BY <1>3, <2>1, <2>2, <2>3, <2>4, <2>5, <2>6 DEF OrgSteps
<1>4. ASSUME NEW s \in Slots, CodeSteps(s) PROVE TypedInv'
  <2>1. ASSUME NEW c, NEW d \in Identifiers, Arrive(s, "issue", c, d) PROVE TypedInv'
    BY <1>0, <2>1, TypedArrive
  <2>2. ASSUME NEW c, NEW d \in Identifiers, NEW v, Arrive(s, "verify", c, [ident |-> d, value |-> v]) PROVE TypedInv'
    BY <1>0, <2>2, TypedArrive
  <2>3. CASE \E i \in Instances, d \in Identifiers : WindowLapses(i, d)
    BY <2>3, TypedUnwritten DEF WindowLapses
  <2>4. CASE Issue(s) \/ Verify(s) \/ VerifyQuery(s) \/ VerifyUse(s)  BY <1>0, <2>4, TypedIssue, TypedCodes
  <2>5. CASE \E h \in Stores : CodeLapses(h)  BY <2>5, TypedLapses
  <2> QED  BY <1>4, <2>1, <2>2, <2>3, <2>4, <2>5 DEF CodeSteps
<1>5. ASSUME NEW s \in Slots, Return(s) PROVE TypedInv'
  <2>1. UNCHANGED <<env, rows>> /\ req'[s] = Quiet /\ \A t \in Slots : t # s => req'[t] = req[t]
    BY <1>0, <1>5 DEF Return, ShapesOK
  <2>2. ~Active(s)'  BY <2>1 DEF Active, Quiet
  <2> QED  BY <2>1, <2>2, TypedUnwritten
<1>6. ASSUME NEW s \in Slots, QueryFails(s) PROVE TypedInv'  BY <1>0, <1>6, TypedCalm
<1> QED
  BY <1>1, <1>2, <1>3, <1>4, <1>5, <1>6 DEF Next

-----------------------------------------------------------------------------
(* The code that is picked *)

LEMMA LeastOf ==
    ASSUME NEW S, S \subseteq Nat, S # {}
    PROVE  \E x \in S : \A y \in S : x <= y
<1> DEFINE R == {ss \in Nat \X Nat : ss[1] < ss[2]}
<1>1. IsWellFoundedOn(R, Nat)  BY NatLessThanWellFounded DEF OpToRel
<1>2. PICK x \in S : \A y \in S : ~(<<y, x>> \in R)
  <2> HIDE DEF R
  <2> QED  BY <1>1, WFMin
<1>3. \A y \in S : y \in Nat /\ x \in Nat /\ (y < x => <<y, x>> \in R)  OBVIOUS
<1>4. \A y \in S : ~(y < x)
  <2> HIDE DEF R
  <2> QED  BY <1>2, <1>3
<1> QED  BY <1>3, <1>4

LEMMA GreatestOf ==
    ASSUME NEW N \in Nat, NEW S, S \subseteq 0..N, S # {}
    PROVE  \E x \in S : \A y \in S : x >= y
<1> DEFINE D == {N - x : x \in S}
<1>0. \A x \in S : x \in 0..N /\ N - x \in Nat  OBVIOUS
<1>1. D \subseteq Nat /\ D # {}  BY <1>0
<1>2. PICK d \in D : \A y \in D : d <= y  BY <1>1, LeastOf
<1>3. PICK x \in S : d = N - x  OBVIOUS
<1>4. \A y \in S : N - x <= N - y  BY <1>2, <1>3
<1>5. \A y \in S : y \in 0..N  OBVIOUS
<1> QED  BY <1>3, <1>4, <1>5

LEMMA PickIs ==
    ASSUME ShapesOK, NEW s \in Slots, \A x \in Of(s).codes : x.no \in 1..count, Found(s) # {}
    PROVE  Pick(s) \in Found(s) /\ Pick(s) \in Of(s).codes
  <1> DEFINE nos == {x.no : x \in Found(s)}
  <1>1. \A x \in Found(s) : x \in Of(s).codes /\ x.no \in nos  BY DEF Found, Matching
  <1>2. \A n \in nos : n \in 1..count /\ \E x \in Found(s) : x.no = n  BY <1>1
  <1>3. nos \subseteq Nat /\ nos \subseteq 0..count /\ nos # {} /\ count \in Nat  BY <1>1, <1>2 DEF ShapesOK
  <1>4. \E x \in Found(s) : \A y \in Found(s) : IF env.db THEN x.no >= y.no ELSE x.no <= y.no
    <2> HIDE DEF nos
    <2>1. CASE env.db
      <3>1. PICK n \in nos : \A m \in nos : n >= m  BY <1>3, GreatestOf
      <3> QED  BY <1>1, <1>2, <2>1, <3>1
    <2>2. CASE ~env.db
      <3>1. PICK n \in nos : \A m \in nos : n <= m  BY <1>3, LeastOf
      <3> QED  BY <1>1, <1>2, <2>2, <3>1
    <2> QED  BY <2>1, <2>2
  <1>5. Pick(s) \in Found(s)  BY <1>4 DEF Pick
  <1> QED  BY <1>1, <1>5

-----------------------------------------------------------------------------
(* Using something up *)

LEMMA FewerAdd ==
    ASSUME UsedInv, count' = count, NEW h \in Stores,
           NEW se, NEW or, NEW me, NEW in, NEW co, Turned(h, se, or, me, in, co),
           se \subseteq rows[h].sessions, co \subseteq rows[h].codes,
           \A y \in in : \E x \in rows[h].invites : x.no = y.no /\ (y.status = "pending" => x.status = "pending")
    PROVE  /\ \A g \in Stores : Adds(g, 0)
           /\ \A g \in Stores : CodesNumbered(g)'
  <1>1. \A g \in Stores : Adds(g, 0)  BY AddsThat
  <1>2. \A g \in Stores : CodesNumbered(g)'
    <2>1. /\ \A x \in co : x.no \in 1..count
          /\ \A x \in se : x.no \in 1..count
          /\ \A x, y \in co : x.no = y.no => x = y
      BY DEF UsedInv, CodesNumbered
    <2>2. \A g \in Stores : CodesNumbered(g)  BY DEF UsedInv
    <2> QED  BY <2>1, <2>2, CodesStayNumbered
  <1> QED  BY <1>1, <1>2

\* A step after which the request has in hand what it uses up.
LEMMA UsedInHand ==
    ASSUME ShapesOK, UsedInv, env' = env, count' = count, PastOK', past'.used = past.used,
           NEW s \in Slots, Active(s), NEW pc \in {"use", "answered"}, NEW result, NEW seen,
           Became(s, pc, result, seen), Thing(seen), result # "found" \/ pc = "use",
           \A t \in Slots : t # s /\ Makes(t) => seen[3] # req[t].no,
           Using(s)', Used(s)',
           NEW h \in Stores, NEW se, NEW or, NEW me, NEW in, NEW co, Turned(h, se, or, me, in, co),
           se \subseteq rows[h].sessions, co \subseteq rows[h].codes,
           \A y \in in : \E x \in rows[h].invites : x.no = y.no /\ (y.status = "pending" => x.status = "pending")
    PROVE  UsedInv'
  <1>1. pc \in Places  BY DEF Places
  <1>2. ShapesOK'  BY <1>1, ShapesOfStep
  <1>3. (\A g \in Stores : Adds(g, 0)) /\ (\A g \in Stores : CodesNumbered(g)')  BY FewerAdd
  <1>4. Way(s)'
    <2>1. /\ pc \in {"mark", "join", "query"} => env.db
          /\ req[s].kind = "accept" /\ pc \in {"mark", "look", "join"} => <<"invite", Own(s), req[s].arg>> \notin req[s].before
          /\ pc = "use" \/ (pc = "answered" /\ result = "used") => Thing(seen)
          /\ pc = "answered" /\ result = "found" /\ req[s].kind = "lookup" =>
               <<"session", Own(s), req[s].arg>> \notin req[s].before
      OBVIOUS
    <2> QED  BY <2>1, WayOnwards
  <1>5. req'[s].pc = pc  BY FieldsOf DEF Became
  <1>6. ~Makes(s)'  BY <1>5 DEF Makes
  <1>7. Holding(s)' => \A t \in Slots : t # s /\ Makes(t) => seen[3] # req[t].no  OBVIOUS
  <1> QED  BY <1>2, <1>3, <1>4, <1>6, <1>7, UsedOnwards

LEMMA UsedLogout ==
    ASSUME ShapesOK, UsedInv, NEW s \in Slots, Logout(s)
    PROVE  UsedInv'
  <1>1. Active(s) /\ env' = env /\ count' = count /\ past' = past /\ At(s, "logout", "start")
    BY AtIsActive DEF Logout, Places
  <1>2. Own(s) \in Stores /\ Of(s) = rows[Own(s)]  BY <1>1, OwnIsAStore DEF Of, Own
  <1>3. PICK h \in Stores : h = Own(s)  BY <1>2
  <1>4. PICK n : n = req[s].arg  OBVIOUS
  <1>5. PICK u : u = <<"session", h, n>>  OBVIOUS
  <1>6. PICK se, or, me : se = revokeSession(rows[h].sessions, n) /\ or = Of(s).orgs /\ me = Of(s).members  OBVIOUS
  <1>7. Became(s, "answered", "used", u) /\ Turned(h, se, or, me, rows[h].invites, rows[h].codes)
    BY <1>2, <1>3, <1>4, <1>5, <1>6, LogoutIs
  <1>8. se \subseteq rows[h].sessions /\ \A x \in se : x.no # n  BY <1>6 DEF revokeSession
  <1>9. n \in 1..count /\ Names(s)  BY <1>1, <1>4 DEF UsedInv, Way, Aiming, Names, At
  <1>10. u[1] = "session" /\ u[2] = h /\ u[3] = n  BY <1>5
  <1>11. Thing(u) /\ \A t \in Slots : t # s /\ Makes(t) => u[3] # req[t].no
    BY <1>4, <1>9, <1>10 DEF Thing, UsedInv, Unseen, Active, Makes
  <1>12. req'[s].kind = "logout" /\ req'[s].pc = "answered" /\ req'[s].seen = u
    BY <1>1, <1>7, FieldsOf DEF Became, At
  <1>13. Spent(u)'  BY <1>7, <1>8, <1>10 DEF Spent, Turned
  <1>14. Used(s)'
    <2>1. Spent(u)' <=> Spent(req[s].seen)'  BY <1>12 DEF Spent
    <2> QED  BY <1>12, <1>13, <2>1 DEF Used
  <1>15. Using(s)'  BY <1>12 DEF Using
  <1>16. PastOK' /\ past'.used = past.used  BY <1>1, PastStays
  <1>17. \A y \in rows[h].invites :
           \E x \in rows[h].invites : x.no = y.no /\ (y.status = "pending" => x.status = "pending")
    OBVIOUS
  <1> QED  BY <1>1, <1>7, <1>8, <1>11, <1>14, <1>15, <1>16, <1>17, UsedInHand

\* Marking invitations brings none and opens none.
Carried(old, new) == \A y \in new : \E x \in old : x.no = y.no /\ (y.status = "pending" => x.status = "pending")
LEMMA RestampedCarries ==
    ASSUME AskedInv, NEW h \in Stores, NEW n, NEW st, st # "pending"
    PROVE  Carried(rows[h].invites, SetStatus(rows[h].invites, n, st))
  <1>1. /\ \A x \in rows[h].invites : Letter(x)
        /\ \A x, y \in rows[h].invites : x.no = y.no => x = y
    BY DEF AskedInv, Numbered
  <1>2. \A y \in SetStatus(rows[h].invites, n, st) : \E x \in rows[h].invites : Same(x, y)  BY <1>1, RestampedIs
  <1> QED  BY <1>2 DEF Same, Carried

\* An invitation that is open has not been used up.
LEMMA OpenIsUnused ==
    ASSUME UsedInv, NEW s \in Slots, Active(s), NEW x \in rows[Own(s)].invites, x.no = req[s].arg, x.status = "pending"
    PROVE  <<"invite", Own(s), req[s].arg>> \notin req[s].before
  <1>1. PICK u : u = <<"invite", Own(s), req[s].arg>>  OBVIOUS
  <1>2. u[1] = "invite" /\ u[2] = Own(s) /\ u[3] = req[s].arg  BY <1>1
  <1>3. ASSUME u \in req[s].before PROVE FALSE
    <2>1. Spent(u)  BY <1>3 DEF UsedInv, Way, Aiming
    <2> QED  BY <1>2, <2>1 DEF Spent
  <1> QED  BY <1>1, <1>3

\* One that marks the invitation it is about, accepted or expired.
LEMMA UsedRestamped ==
    ASSUME AskedInv, UsedInv, env' = env, count' = count, past' = past, NEW s \in Slots, Active(s),
           req[s].kind = "accept", NEW st \in {"accepted", "expired"},
           NEW pc \in {"look", "answered"}, NEW result, NEW seen, Became(s, pc, result, seen),
           pc = "answered" => result # "used",
           pc = "look" => <<"invite", Own(s), req[s].arg>> \notin req[s].before,
           Turned(Own(s), Of(s).sessions, Of(s).orgs, Of(s).members, SetStatus(Of(s).invites, req[s].arg, st), Of(s).codes)
    PROVE  UsedInv'
  <1>1. ShapesOK  BY DEF AskedInv
  <1>2. Own(s) \in Stores /\ Of(s) = rows[Own(s)]  BY <1>1, OwnIsAStore DEF Of, Own
  <1>3. PICK h \in Stores : h = Own(s)  BY <1>2
  <1>4. PICK or, me, in : or = Of(s).orgs /\ me = Of(s).members /\ in = SetStatus(rows[h].invites, req[s].arg, st)
    OBVIOUS
  <1>5. Turned(h, rows[h].sessions, or, me, in, rows[h].codes)  BY <1>2, <1>3, <1>4
  <1>6. \A y \in in : \E x \in rows[h].invites : x.no = y.no /\ (y.status = "pending" => x.status = "pending")
    BY <1>4, RestampedCarries DEF Carried
  <1>7. (\A g \in Stores : Adds(g, 0)) /\ (\A g \in Stores : CodesNumbered(g)')  BY <1>5, <1>6, FewerAdd
  <1>8. PastOK' /\ past'.used = past.used  BY PastStays
  <1>9. pc \in Places /\ pc # "use" /\ pc \notin {"mark", "join", "query"}  BY DEF Places
  <1>10. Makes(s)' => Makes(s)
    <2>1. req'[s].kind = "accept"  BY FieldsOf DEF Became
    <2> QED  BY <2>1 DEF Makes
  <1>11. /\ req[s].kind = "accept" /\ pc \in {"mark", "look", "join"} => <<"invite", Own(s), req[s].arg>> \notin req[s].before
         /\ pc = "answered" /\ result = "found" /\ req[s].kind = "lookup" =>
               <<"session", Own(s), req[s].arg>> \notin req[s].before
    BY <1>9
  <1> QED  BY <1>1, <1>5, <1>7, <1>8, <1>9, <1>10, <1>11, UsedEmptyHanded

LEMMA UsedJoined ==
    ASSUME AskedInv, UsedInv, env' = env, count' = count, past' = past, NEW s \in Slots, Active(s),
           req[s].kind = "accept", req[s].pc \in {"look", "join"}, Joined(s)
    PROVE  UsedInv'
  <1>1. ShapesOK  BY DEF AskedInv
  <1>2. Own(s) \in Stores /\ Of(s) = rows[Own(s)]  BY <1>1, OwnIsAStore DEF Of, Own
  <1>3. PICK h \in Stores : h = Own(s)  BY <1>2
  <1>4. PICK n : n = req[s].arg  OBVIOUS
  <1>5. PICK u : u = <<"invite", h, n>>  OBVIOUS
  <1>6. PICK or, me : or = Of(s).orgs /\ me = Of(s).members \cup {Newcomer(s)}  OBVIOUS
  <1>7. Became(s, "answered", "used", u) /\ Turned(h, rows[h].sessions, or, me, rows[h].invites, rows[h].codes)
    BY <1>1, <1>2, <1>3, <1>4, <1>5, <1>6, JoinedIs
  <1>9. n \in 1..count /\ Names(s)  BY <1>4 DEF UsedInv, Way, Aiming, Names
  <1>10. u[1] = "invite" /\ u[2] = h /\ u[3] = n  BY <1>5
  <1>11. Thing(u) /\ \A t \in Slots : t # s /\ Makes(t) => u[3] # req[t].no
    BY <1>4, <1>9, <1>10 DEF Thing, UsedInv, Unseen, Active, Makes
  <1>12. req'[s].kind = "accept" /\ req'[s].pc = "answered" /\ req'[s].seen = u /\ req'[s].before = req[s].before
    BY <1>7, FieldsOf DEF Became
  <1>13. Spent(u)'
    <2>1. PICK x \in rows[h].invites : x.no = n /\ x.status # "pending"
      BY <1>3, <1>4 DEF AskedInv, Underway, Accepting
    <2>2. \A y \in rows[h].invites : y.no = n => y = x  BY <2>1 DEF AskedInv, Numbered
    <2> QED  BY <1>7, <1>10, <2>1, <2>2 DEF Spent, Turned
  <1>14. Used(s)'
    <2>1. Spent(u)' <=> Spent(req[s].seen)'  BY <1>12 DEF Spent
    <2>2. u \notin req[s].before  BY <1>3, <1>4, <1>5 DEF UsedInv, Way, Aiming
    <2> QED  BY <1>12, <1>13, <2>1, <2>2 DEF Used
  <1>15. Using(s)'  BY <1>12 DEF Using
  <1>16. PastOK' /\ past'.used = past.used  BY PastStays
  <1>17. \A y \in rows[h].invites :
           \E x \in rows[h].invites : x.no = y.no /\ (y.status = "pending" => x.status = "pending")
    OBVIOUS
  <1> QED  BY <1>1, <1>7, <1>11, <1>14, <1>15, <1>16, <1>17, UsedInHand

LEMMA UsedAccepts ==
    ASSUME AskedInv, TypedInv, UsedInv, NEW s \in Slots,
           Accept(s) \/ AcceptExpire(s) \/ AcceptMark(s) \/ AcceptLook(s) \/ AcceptJoin(s)
    PROVE  UsedInv'
  <1>1. Active(s) /\ env' = env /\ count' = count /\ past' = past /\ req[s].kind = "accept"
    BY AtIsActive DEF Accept, AcceptExpire, AcceptMark, AcceptLook, AcceptJoin, Places, At
  <1>2. Own(s) \in Stores /\ Of(s) = rows[Own(s)] /\ ShapesOK  BY <1>1, OwnIsAStore DEF Of, Own, AskedInv
  <1>3. ASSUME NEW pc \in {"answered", "expire", "mark", "join"}, NEW result, NEW seen, Became(s, pc, result, seen),
               pc = "answered" => result # "used", pc \in {"mark", "join"} => env.db,
               pc \in {"mark", "join"} => <<"invite", Own(s), req[s].arg>> \notin req[s].before,
               Settled(Own(s))
        PROVE  UsedInv'
    <2>1. PastOK' /\ past'.used = past.used  BY <1>1, PastStays
    <2>2. pc \in Places /\ pc # "use" /\ pc # "look"  BY DEF Places
    <2>3. req'[s].kind = "accept"  BY <1>1, <1>3, FieldsOf DEF Became
    <2>4. ~Makes(s)'  BY <2>3 DEF Makes
    <2> QED  BY <1>1, <1>2, <1>3, <2>1, <2>2, <2>4, UsedAside DEF Settled
  <1>4. May(s) => Row(Of(s).invites, req[s].arg) \in rows[Own(s)].invites /\ Row(Of(s).invites, req[s].arg).no = req[s].arg
    BY <1>2, RowIs DEF May
  <1>a. CASE Accept(s)
    <2>1. May(s) /\ Standing(s) = "pending" => <<"invite", Own(s), req[s].arg>> \notin req[s].before
      BY <1>1, <1>4, OpenIsUnused DEF Standing
    <2>2. May(s) => Standing(s) \in {"pending", "lapsed", "accepted", "expired"}
      BY <1>2, <1>4 DEF TypedInv, Kinds, Standing
    <2>3. CASE /\ May(s) /\ Standing(s) \notin {"refused", "accepted", "expired", "lapsed"}
               /\ Became(s, "look", req[s].result, req[s].seen)
               /\ Turned(Own(s), Of(s).sessions, Of(s).orgs, Of(s).members, Marked(Of(s).invites, req[s].arg), Of(s).codes)
      BY <1>1, <2>1, <2>2, <2>3, UsedRestamped DEF Marked
    <2>4. ASSUME Settled(Own(s)), NEW st \in {"refused", "accepted", "expired"}, Became(s, "answered", st, req[s].seen)
          PROVE  UsedInv'
      BY <1>3, <2>4
    <2>5. CASE Settled(Own(s)) /\ Became(s, "expire", req[s].result, req[s].seen)
      BY <1>3, <2>5
    <2>6. CASE /\ Settled(Own(s)) /\ May(s) /\ Standing(s) = "pending" /\ env.db
               /\ Became(s, "mark", req[s].result, req[s].seen)
      BY <1>3, <2>1, <2>6
    <2> QED  BY <1>2, <1>a, <2>3, <2>4, <2>5, <2>6, AcceptIs
  <1>b. CASE AcceptExpire(s)
    <2>1. /\ Became(s, "answered", "expired", req[s].seen)
          /\ Turned(Own(s), Of(s).sessions, Of(s).orgs, Of(s).members, SetStatus(Of(s).invites, req[s].arg, "expired"),
                     Of(s).codes)
      BY <1>2, <1>b, AcceptExpireIs
    <2>2. "expired" \in {"accepted", "expired"} /\ "answered" \in {"look", "answered"} /\ "expired" # "used"
          /\ "answered" # "look"
      OBVIOUS
    <2> QED  BY <1>1, <2>1, <2>2, UsedRestamped
  <1>c. CASE AcceptMark(s)
    <2>1. <<"invite", Own(s), req[s].arg>> \notin req[s].before
      BY <1>1, <1>c DEF AcceptMark, At, UsedInv, Way, Aiming
    <2> QED  BY <1>1, <1>2, <1>c, <2>1, AcceptMarkIs, UsedRestamped DEF Marked
  <1>d. CASE AcceptLook(s)
    <2>1. <<"invite", Own(s), req[s].arg>> \notin req[s].before /\ req[s].pc = "look"
      BY <1>1, <1>d DEF AcceptLook, At, UsedInv, Way, Aiming
    <2>2. CASE Settled(Own(s)) /\ Became(s, "answered", "already", req[s].seen)  BY <1>3, <2>2
    <2>3. CASE Settled(Own(s)) /\ env.db /\ Became(s, "join", req[s].result, req[s].seen)  BY <1>3, <2>1, <2>3
    <2>4. CASE Joined(s)  BY <1>1, <2>1, <2>4, UsedJoined
    <2> QED  BY <1>2, <1>d, <2>2, <2>3, <2>4, AcceptLookIs
  <1>e. CASE AcceptJoin(s)  BY <1>1, <1>e, UsedJoined DEF AcceptJoin, At
  <1> QED  BY <1>a, <1>b, <1>c, <1>d, <1>e

LEMMA WrongPast ==
    ASSUME PastOK, NEW s, Wrong(s)
    PROVE  /\ PastOK' /\ past'.used = past.used /\ past'.uses = past.uses
           /\ past'.heard = [past.heard EXCEPT ![req[s].at][req[s].arg.ident] = @ + 1]
  BY DEF PastOK, Wrong
LEMMA RightPast ==
    ASSUME PastOK, NEW s, NEW n, Right(s, n)
    PROVE  /\ PastOK' /\ past'.used = past.used /\ past'.uses = [past.uses EXCEPT ![n] = @ + 1]
           /\ past'.heard = [past.heard EXCEPT ![req[s].at][req[s].arg.ident] = 0]
  BY DEF PastOK, Right

\* A code that is there has not been used up.
LEMMA CodeIsUnused ==
    ASSUME UsedInv, NEW s \in Slots, Active(s), NEW h, NEW x \in rows[h].codes
    PROVE  <<"code", h, x.no>> \notin req[s].before
  <1>1. PICK u : u = <<"code", h, x.no>>  OBVIOUS
  <1>2. u[1] = "code" /\ u[2] = h /\ u[3] = x.no  BY <1>1
  <1>3. ASSUME u \in req[s].before PROVE FALSE
    <2>1. Spent(u)  BY <1>3 DEF UsedInv, Way, Aiming
    <2> QED  BY <1>2, <2>1 DEF Spent
  <1> QED  BY <1>1, <1>3

LEMMA UsedJudge ==
    ASSUME ShapesOK, UsedInv, env' = env, count' = count, NEW s \in Slots, Active(s), req[s].kind = "verify", Judge(s)
    PROVE  UsedInv'
  <1>1. Own(s) \in Stores /\ Of(s) = rows[Own(s)] /\ (Own(s) = "db") = env.db  BY OwnIsAStore, OwnIsTheOne DEF Of, Own
  <1>2. PICK h \in Stores : h = Own(s)  BY <1>1
  <1>3. PICK x : x = Pick(s)  OBVIOUS
  <1>4. PICK u : u = <<"code", h, x.no>>  OBVIOUS
  <1>5. u[1] = "code" /\ u[2] = h /\ u[3] = x.no  BY <1>4
  <1>6. CASE Wrong(s) /\ Became(s, "answered", "wrong", req[s].seen) /\ Settled(Own(s))
    <2>1. PastOK' /\ past'.used = past.used  BY <1>6, WrongPast DEF UsedInv
    <2>2. req'[s].kind = "verify"  BY <1>6, FieldsOf DEF Became
    <2>3. ~Makes(s)' /\ "answered" \in Places  BY <2>2 DEF Makes, Places
    <2>4. Turned(h, rows[h].sessions, rows[h].orgs, rows[h].members, rows[h].invites, rows[h].codes)
      BY <1>2, <1>6 DEF Settled
    <2>5. "wrong" # "used" /\ "wrong" # "found" /\ "answered" # "use" /\ "answered" \notin {"mark", "join", "query", "look"}
      OBVIOUS
    <2>6. PICK or, me : Turned(h, rows[h].sessions, or, me, rows[h].invites, rows[h].codes)  BY <2>4
    <2> QED  BY <1>6, <2>1, <2>3, <2>5, <2>6, UsedAside
  <1>7. Found(s) # {} => /\ x \in Found(s) /\ x \in rows[h].codes
                         /\ Thing(u) /\ u \notin req[s].before
                         /\ \A t \in Slots : t # s /\ Makes(t) => u[3] # req[t].no
    <2>1. SUFFICES ASSUME Found(s) # {} PROVE x \in Found(s) /\ x \in rows[h].codes /\ Thing(u) /\ u \notin req[s].before
                                              /\ \A t \in Slots : t # s /\ Makes(t) => u[3] # req[t].no
      OBVIOUS
    <2>2. x \in Found(s) /\ x \in rows[h].codes
      <3>1. \A y \in Of(s).codes : y.no \in 1..count  BY <1>1 DEF UsedInv, CodesNumbered
      <3> QED  BY <1>1, <1>2, <1>3, <2>1, <3>1, PickIs
    <2>3. Thing(u)  BY <1>5, <2>2 DEF Thing, UsedInv, CodesNumbered
    <2>4. u \notin req[s].before  BY <1>4, <2>2, CodeIsUnused
    <2>5. \A t \in Slots : t # s /\ Makes(t) => u[3] # req[t].no
      BY <1>5, <2>2 DEF UsedInv, Unseen, Active, Makes
    <2> QED  BY <2>2, <2>3, <2>4, <2>5
  <1>8. CASE /\ env.db /\ Found(s) # {}
             /\ Became(s, "use", req[s].result, <<"code", "db", Pick(s).no>>)
             /\ Settled(Own(s)) /\ UNCHANGED <<attempts, past>>
    <2>1. Became(s, "use", req[s].result, u) /\ h = "db"  BY <1>1, <1>2, <1>3, <1>4, <1>8
    <2>2. /\ req'[s].kind = "verify" /\ req'[s].pc = "use" /\ req'[s].seen = u /\ req'[s].before = req[s].before
          /\ req'[s].arg = req[s].arg
      BY <2>1, FieldsOf DEF Became
    <2>3. \A y \in rows'["db"].codes : y.no = x.no => y.ident = req[s].arg.ident
      <3>1. x.ident = req[s].arg.ident /\ x \in rows[h].codes  BY <1>7, <1>8 DEF Found, Matching
      <3>2. rows'[h].codes = rows[h].codes  BY <1>2, <1>8 DEF Settled, Turned
      <3> QED  BY <2>1, <3>1, <3>2 DEF UsedInv, CodesNumbered
    <2>4. Using(s)' /\ Used(s)'  BY <1>4, <1>5, <1>7, <1>8, <2>1, <2>2, <2>3 DEF Using, Used
    <2>5. PastOK' /\ past'.used = past.used  BY <1>8, PastStays
    <2>6. \A y \in rows[h].invites :
             \E z \in rows[h].invites : z.no = y.no /\ (y.status = "pending" => z.status = "pending")
      OBVIOUS
    <2>7. PICK or, me : Turned(h, rows[h].sessions, or, me, rows[h].invites, rows[h].codes)  BY <1>2, <1>8 DEF Settled
    <2>8. "use" \in {"use", "answered"}  OBVIOUS
    <2> QED  BY <1>7, <1>8, <2>1, <2>4, <2>5, <2>6, <2>7, <2>8, UsedInHand
  <1>9. CASE /\ ~env.db /\ Found(s) # {}
             /\ Right(s, Pick(s).no) /\ Became(s, "answered", "used", <<"code", Own(s), Pick(s).no>>)
             /\ Turned(Own(s), Of(s).sessions, Of(s).orgs, Of(s).members, Of(s).invites, Deleted(Of(s).codes, Pick(s)))
    <2>1. Became(s, "answered", "used", u)  BY <1>2, <1>3, <1>4, <1>9
    <2>2. req'[s].kind = "verify" /\ req'[s].pc = "answered" /\ req'[s].seen = u /\ req'[s].before = req[s].before
      BY <2>1, FieldsOf DEF Became
    <2>3. PICK or, me, co : /\ co = rows[h].codes \ {x}
                            /\ Turned(h, rows[h].sessions, or, me, rows[h].invites, co)
      <3>1. Deleted(Of(s).codes, Pick(s)) = rows[h].codes \ {x}  BY <1>1, <1>2, <1>3, <1>9 DEF Deleted
      <3> QED  BY <1>1, <1>2, <1>9, <3>1
    <2>4. Spent(u)'
      <3>1. \A y \in co : y.no # x.no  BY <1>7, <1>9, <2>3 DEF UsedInv, CodesNumbered
      <3> QED  BY <1>5, <2>3, <3>1 DEF Spent, Turned
    <2>5. Spent(u)' <=> Spent(req[s].seen)'  BY <2>2 DEF Spent
    <2>6. Using(s)' /\ Used(s)'  BY <1>7, <1>9, <2>2, <2>4, <2>5 DEF Using, Used
    <2>7. PastOK' /\ past'.used = past.used  BY <1>9, RightPast DEF UsedInv
    <2>8. \A y \in rows[h].invites :
             \E z \in rows[h].invites : z.no = y.no /\ (y.status = "pending" => z.status = "pending")
      OBVIOUS
    <2>9. co \subseteq rows[h].codes /\ "answered" \in {"use", "answered"} /\ "used" # "found"  BY <2>3
    <2> QED  BY <1>7, <1>9, <2>1, <2>3, <2>6, <2>7, <2>8, <2>9, UsedInHand
  <1> QED  BY <1>6, <1>8, <1>9, JudgeIs

LEMMA UsedVerifyUse ==
    ASSUME ShapesOK, UsedInv, NEW s \in Slots, VerifyUse(s)
    PROVE  UsedInv'
  <1>1. Active(s) /\ env' = env /\ count' = count /\ At(s, "verify", "use")
    BY AtIsActive DEF VerifyUse, Places
  <1>2. Own(s) \in Stores /\ Of(s) = rows[Own(s)] /\ (Own(s) = "db") = env.db
    BY <1>1, OwnIsAStore, OwnIsTheOne DEF Of, Own
  <1>3. PICK h \in Stores : h = Own(s)  BY <1>2
  <1>4. PICK u : u = req[s].seen  OBVIOUS
  <1>5. /\ env.db /\ h = "db" /\ u = <<"code", "db", u[3]>> /\ u \notin req[s].before
        /\ \A y \in rows["db"].codes : y.no = u[3] => y.ident = req[s].arg.ident
    BY <1>1, <1>2, <1>3, <1>4 DEF UsedInv, Way, Using, At
  <1>6. Thing(u) /\ \A t \in Slots : t # s /\ Makes(t) => u[3] # req[t].no
    BY <1>1, <1>4 DEF UsedInv, Way, Holding, Unseen, Active, Makes, At
  <1>7. Became(s, "answered", "used", u)
    <2>1. <<"code", Own(s), req[s].seen[3]>> = u  BY <1>3, <1>4, <1>5
    <2> QED  BY <2>1, VerifyUseIs
  <1>8. /\ req'[s].kind = "verify" /\ req'[s].pc = "answered" /\ req'[s].seen = u /\ req'[s].before = req[s].before
    BY <1>1, <1>7, FieldsOf DEF Became, At
  <1>9. PICK or, me, co : /\ co = {y \in rows[h].codes : y.ident # req[s].arg.ident}
                          /\ Turned(h, rows[h].sessions, or, me, rows[h].invites, co)
    <2>1. Deleted(Of(s).codes, [no |-> req[s].seen[3], ident |-> req[s].arg.ident])
            = {y \in rows[h].codes : y.ident # req[s].arg.ident}
      BY <1>2, <1>3, <1>5 DEF Deleted
    <2> QED  BY <1>2, <1>3, <2>1, VerifyUseIs
  <1>10. Spent(u)'
    <2>1. \A y \in co : y.no # u[3]  BY <1>5, <1>9
    <2> QED  BY <1>5, <1>9, <2>1 DEF Spent, Turned
  <1>11. Spent(u)' <=> Spent(req[s].seen)'  BY <1>8 DEF Spent
  <1>12. Using(s)' /\ Used(s)'  BY <1>5, <1>8, <1>10, <1>11 DEF Using, Used
  <1>13. PastOK' /\ past'.used = past.used  BY RightPast DEF UsedInv, VerifyUse
  <1>14. \A y \in rows[h].invites :
           \E z \in rows[h].invites : z.no = y.no /\ (y.status = "pending" => z.status = "pending")
    OBVIOUS
  <1>15. co \subseteq rows[h].codes /\ "answered" \in {"use", "answered"} /\ "used" # "found"  BY <1>9
  <1> QED  BY <1>1, <1>6, <1>7, <1>9, <1>12, <1>13, <1>14, <1>15, UsedInHand

LEMMA UsedCodes ==
    ASSUME ShapesOK, UsedInv, NEW s \in Slots, Verify(s) \/ VerifyQuery(s) \/ VerifyUse(s)
    PROVE  UsedInv'
  <1>1. Active(s) /\ env' = env /\ count' = count /\ req[s].kind = "verify"
    BY AtIsActive DEF Verify, VerifyQuery, VerifyUse, Places, At
  <1>2. PICK h \in Stores : h = Own(s)  BY <1>1, OwnIsAStore
  <1>3. ASSUME NEW pc \in {"answered", "query"}, NEW result, Became(s, pc, result, req[s].seen),
               pc = "answered" => result = "429", pc = "query" => env.db,
               Settled(Own(s)), past' = past
        PROVE  UsedInv'
    <2>1. PastOK' /\ past'.used = past.used  BY <1>3, PastStays
    <2>2. pc \in Places  BY DEF Places
    <2>3. req'[s].kind = "verify"  BY <1>1, <1>3, FieldsOf DEF Became
    <2>4. ~Makes(s)'  BY <2>3 DEF Makes
    <2>5. PICK or, me : Turned(h, rows[h].sessions, or, me, rows[h].invites, rows[h].codes)  BY <1>2, <1>3 DEF Settled
    <2>6. /\ pc = "answered" => result # "used" /\ result # "found"
          /\ pc # "use" /\ pc \notin {"mark", "look", "join"}
      BY <1>3
    <2> QED  BY <1>1, <1>3, <2>1, <2>2, <2>4, <2>5, <2>6, UsedAside
  <1>a. CASE Verify(s)
    <2>1. CASE /\ Settled(Own(s)) /\ UNCHANGED <<attempts, past>>
               /\ \/ Became(s, "answered", "429", req[s].seen)
                  \/ env.db /\ Became(s, "query", req[s].result, req[s].seen)
      BY <1>3, <2>1
    <2>2. CASE Judge(s)  BY <1>1, <2>2, UsedJudge
    <2>3. \/ /\ Settled(Own(s)) /\ UNCHANGED <<attempts, past>>
             /\ \/ Became(s, "answered", "429", req[s].seen)
                \/ env.db /\ Became(s, "query", req[s].result, req[s].seen)
          \/ Judge(s)
      BY <1>a, VerifyIs
    <2> QED  BY <2>1, <2>2, <2>3
  <1>b. CASE VerifyQuery(s)  BY <1>1, <1>b, UsedJudge DEF VerifyQuery
  <1>c. CASE VerifyUse(s)  BY <1>c, UsedVerifyUse
  <1> QED  BY <1>a, <1>b, <1>c

LEMMA UsedLapses ==
    ASSUME AskedInv, TypedInv, UsedInv, NEW h \in Stores, InviteLapses(h) \/ CodeLapses(h)
    PROVE  UsedInv'
  <1>1. UNCHANGED <<env, count, req>> /\ past' = past /\ ShapesOK  BY DEF InviteLapses, CodeLapses, AskedInv
  <1>2. PastOK' /\ past'.used = past.used  BY <1>1, PastStays
  <1>3. CASE InviteLapses(h)
    <2>1. PICK x \in rows[h].invites :
            Turned(h, rows[h].sessions, rows[h].orgs, rows[h].members, SetStatus(rows[h].invites, x.no, "lapsed"),
                   rows[h].codes)
      BY <1>1, <1>3, InviteLapsesIs
    <2>2. PICK in, or, me : /\ in = SetStatus(rows[h].invites, x.no, "lapsed")
                            /\ Turned(h, rows[h].sessions, or, me, in, rows[h].codes)
      BY <2>1
    <2>3. \A y \in in : \E z \in rows[h].invites : z.no = y.no /\ (y.status = "pending" => z.status = "pending")
      <3>1. Carried(rows[h].invites, SetStatus(rows[h].invites, x.no, "lapsed"))  BY RestampedCarries
      <3> QED  BY <2>2, <3>1 DEF Carried
    <2>4. (\A g \in Stores : Adds(g, 0)) /\ (\A g \in Stores : CodesNumbered(g)')  BY <1>1, <2>2, <2>3, FewerAdd
    <2> QED  BY <1>1, <1>2, <2>4, UsedLapse
  <1>4. CASE CodeLapses(h)
    <2>1. PICK x \in rows[h].codes :
            Turned(h, rows[h].sessions, rows[h].orgs, rows[h].members, rows[h].invites,
                   (rows[h].codes \ {x}) \cup {[x EXCEPT !.live = FALSE]})
      BY <1>1, <1>4, CodeLapsesIs
    <2>2. PICK y : y = [x EXCEPT !.live = FALSE]  OBVIOUS
    <2>3. y.no = x.no /\ y.ident = x.ident
      <3>1. Code(x)  BY DEF TypedInv, Kinds
      <3>2. y = [no |-> x.no, ident |-> x.ident, value |-> x.value, by |-> x.by, live |-> FALSE]
        BY <2>2, <3>1 DEF Code
      <3> QED  BY <3>2
    <2>4. PICK co, or, me : /\ co = (rows[h].codes \ {x}) \cup {y}
                            /\ Turned(h, rows[h].sessions, or, me, rows[h].invites, co)
      BY <2>1, <2>2
    <2>5. \A z \in co : z.no = 0 \/ \E w \in rows[h].codes : w.no = z.no /\ w.ident = z.ident  BY <2>3, <2>4
    <2>6. /\ \A z \in rows[h].sessions : z.no = 0 \/ \E w \in rows[h].sessions : w.no = z.no
          /\ \A z \in rows[h].invites :
               z.no = 0 \/ \E w \in rows[h].invites : w.no = z.no /\ (z.status = "pending" => w.status = "pending")
      OBVIOUS
    <2>7. \A g \in Stores : Adds(g, 0)  BY <2>4, <2>5, <2>6, AddsThat
    <2>8. \A g \in Stores : CodesNumbered(g)'
      <3>1. CodesNumbered(h) /\ \A g \in Stores : CodesNumbered(g)  BY DEF UsedInv
      <3>2. \A z \in co : z = y \/ (z \in rows[h].codes /\ z.no # y.no)  BY <2>3, <2>4, <3>1 DEF CodesNumbered
      <3>3. /\ \A z \in co : z.no \in 1..count
            /\ \A z \in rows[h].sessions : z.no \in 1..count
            /\ \A z, w \in co : z.no = w.no => z = w
        BY <2>3, <3>1, <3>2 DEF CodesNumbered
      <3> QED  BY <1>1, <2>4, <3>1, <3>3, CodesStayNumbered
    <2> QED  BY <1>1, <1>2, <2>7, <2>8, UsedLapse
  <1> QED  BY <1>3, <1>4

LEMMA UsedIdle ==
    ASSUME ShapesOK, UsedInv, UNCHANGED <<env, rows, count, req>>, PastOK', past'.used = past.used
    PROVE  UsedInv'
  <1>1. \A g \in Stores : Adds(g, 0)  BY DEF Adds
  <1>2. \A g \in Stores : CodesNumbered(g)'  BY DEF UsedInv, CodesNumbered
  <1> QED  BY <1>1, <1>2, UsedLapse

\* What a request may be about has been seen.
LEMMA NamedAreSeen ==
    ASSUME AskedInv, UsedInv, NEW n \in Sent \cup Tokens
    PROVE  n \in 1..count /\ \A m : Unseen(m) => n # m
  <1>1. CASE n \in Sent
    <2>1. PICK h \in Stores : \E x \in rows[h].invites : x.no = n  BY <1>1 DEF Sent
    <2> QED  BY <2>1 DEF AskedInv, Numbered, Unseen
  <1>2. CASE \E x \in UNION {rows[h].sessions : h \in Stores} : x.no = n
    <2>1. PICK h \in Stores : \E x \in rows[h].sessions : x.no = n  BY <1>2
    <2> QED  BY <2>1 DEF UsedInv, CodesNumbered, Unseen
  <1>3. CASE \E u \in past.used : u[3] = n  BY <1>3 DEF UsedInv, Thing, Unseen
  <1> QED  BY <1>1, <1>2, <1>3 DEF Tokens

LEMMA UsedArrive ==
    ASSUME AskedInv, UsedInv, NEW s \in Slots, NEW kind, NEW c, NEW arg, Arrive(s, kind, c, arg),
           kind \in {"accept", "logout"} => arg \in Sent \cup Tokens
    PROVE  UsedInv'
  <1>1. ShapesOK /\ count \in Nat  BY DEF AskedInv, ShapesOK
  <1>2. /\ count' = count + 1 /\ env' = env /\ rows' = rows /\ past' = past
        /\ \A t \in Slots : t # s => req'[t] = req[t]
    BY <1>1, ArriveIs
  <1>3. PICK i \in Instances : Came(s, kind, i, getUser(env, c), arg)  BY <1>1, ArriveIs
  <1>4. /\ req'[s].kind = kind /\ req'[s].pc = "start" /\ req'[s].no = count + 1 /\ req'[s].arg = arg
        /\ req'[s].before = past.used
    BY <1>3, FieldsOf DEF Came
  <1>5. PastOK' /\ past'.used = past.used  BY <1>2, PastStays
  <1>6. \A g \in Stores : Adds(g, 0)  BY <1>2 DEF Adds
  <1>7. \A g \in Stores : CodesNumbered(g)'  BY <1>1, <1>2 DEF UsedInv, CodesNumbered
  <1>8. \A u \in past.used : Thing(u)' /\ Spent(u)'  BY <1>1, <1>2 DEF UsedInv, Thing, Spent
  <1>9. Names(s)' => arg \in 1..count /\ \A m : Unseen(m) => arg # m  BY <1>4, NamedAreSeen DEF Names
  <1>10. ~Holding(s)'  BY <1>4 DEF Holding
  <1>11. Way(s)' 
    BY <1>1, <1>2, <1>4, <1>9, <1>10 DEF Way, Aiming, Using, Used, FoundFresh, Names
  <1>12. PICK m : m = count + 1  OBVIOUS
  <1>13. \A t \in Slots : t # s => (Names(t) => req[t].arg \in 1..count) /\ (Holding(t) => req[t].seen[3] \in 1..count)
    <2> TAKE t \in Slots
    <2>1. CASE Active(t)  BY <2>1 DEF UsedInv, Way, Aiming, Thing
    <2>2. CASE ~Active(t)
      <3>1. req[t] = Quiet  BY <1>1, <2>2 DEF ShapesOK, Active, Places
      <3> QED  BY <3>1 DEF Quiet, Names, Holding
    <2> QED  BY <2>1, <2>2
  <1>14. Unseen(m)'
    <2>1. /\ \A h \in Stores : /\ \A x \in rows[h].codes : x.no \in 1..count
                               /\ \A x \in rows[h].sessions : x.no \in 1..count
                               /\ \A x \in rows[h].invites : x.no \in 1..count
          /\ \A u \in past.used : u[3] \in 1..count
      BY DEF UsedInv, CodesNumbered, AskedInv, Numbered, Thing
    <2>2. m \notin 1..count  BY <1>1, <1>12
    <2>3. \A t \in Slots : (Names(t)' => req'[t].arg \in 1..count) /\ (Holding(t)' => req'[t].seen[3] \in 1..count)
      <3> TAKE t \in Slots
      <3>1. CASE t = s  BY <1>4, <1>9, <1>10, <3>1
      <3>2. CASE t # s  BY <1>2, <1>13, <3>2 DEF Names, Holding
      <3> QED  BY <3>1, <3>2
    <2> QED  BY <1>2, <2>1, <2>2, <2>3 DEF Unseen
  <1>15. Unseen(req[s].no)'
    <2>1. Unseen(m)' <=> Unseen(req[s].no)'  BY <1>4, <1>12 DEF Unseen
    <2> QED  BY <1>14, <2>1
  <1>16. ASSUME NEW t \in Slots, t # s, Active(t)
         PROVE  Way(t)' /\ (Makes(t) => Unseen(req[t].no)')
    <2>1. req'[t] = req[t] /\ Way(t)  BY <1>2, <1>16 DEF UsedInv
    <2>2. Holding(t) => req[t].seen[3] # 0  BY <2>1 DEF Way, Thing
    <2>3. Way(t)'  BY <1>1, <1>2, <1>5, <1>6, <1>16, <2>1, <2>2, WayStays
    <2>4. PICK k : k = req[t].no  OBVIOUS
    <2>5. k # 0  BY <1>1, <1>16, <2>4, OwnIsAStore
    <2>6. CASE Makes(t)
      <3>1. Unseen(k)  BY <1>16, <2>4, <2>6 DEF UsedInv
      <3>2. \A v \in Slots : (Names(v)' => req'[v].arg # k) /\ (Holding(v)' => req'[v].seen[3] # k)
        <4> TAKE v \in Slots
        <4>1. CASE v = s  BY <1>4, <1>9, <1>10, <3>1, <4>1
        <4>2. CASE v # s  BY <1>2, <3>1, <4>2 DEF Unseen, Names, Holding
        <4> QED  BY <4>1, <4>2
      <3>3. Unseen(k)'  BY <1>5, <1>6, <2>5, <3>1, <3>2, UnseenStays
      <3> QED  BY <2>1, <2>3, <2>4, <3>3
    <2> QED  BY <2>3, <2>6
  <1>17. \A t \in Slots : Active(t)' => Way(t)' /\ (Makes(t)' => Unseen(req[t].no)')
    <2> TAKE t \in Slots
    <2>1. CASE t = s  BY <1>11, <1>15, <2>1
    <2>2. CASE t # s
      <3>1. req'[t] = req[t]  BY <1>2, <2>2
      <3>2. (Active(t)' <=> Active(t)) /\ (Makes(t)' <=> Makes(t))  BY <3>1 DEF Active, Makes
      <3> QED  BY <1>16, <2>2, <3>1, <3>2
    <2> QED  BY <2>1, <2>2
  <1>18. \A u \in past'.used : Thing(u)' /\ Spent(u)'  BY <1>5, <1>8
  <1> QED  BY <1>5, <1>7, <1>17, <1>18 DEF UsedInv

LEMMA UsedReturn ==
    ASSUME AskedInv, UsedInv, NEW s \in Slots, Return(s)
    PROVE  UsedInv'
  <1>1. ShapesOK /\ count \in Nat  BY DEF AskedInv, ShapesOK
  <1>2. /\ count' = count /\ env' = env /\ rows' = rows /\ req'[s] = Quiet
        /\ \A t \in Slots : t # s => req'[t] = req[t]
    BY <1>1 DEF Return, ShapesOK
  <1>3. PICK u : u = req[s].seen  OBVIOUS
  <1>4. Active(s) /\ req[s].pc = "answered"  BY DEF Return, Active
  <1>5. PastOK' /\ past'.used = (IF req[s].result = "used" THEN past.used \cup {u} ELSE past.used)
    BY <1>3 DEF Return, UsedInv, PastOK
  <1>6. req[s].result = "used" => Holding(s) /\ Thing(u) /\ Spent(u)
    BY <1>3, <1>4 DEF Holding, UsedInv, Way, Used
  <1>7. \A v \in past'.used : v \in past.used \/ (v = u /\ req[s].result = "used")  BY <1>5
  <1>8. \A v \in past'.used : Thing(v)' /\ Spent(v)'
    <2>1. \A v \in past'.used : Thing(v) /\ Spent(v)  BY <1>6, <1>7 DEF UsedInv
    <2> QED  BY <1>2, <2>1 DEF Thing, Spent
  <1>9. \A g \in Stores : Adds(g, 0)  BY <1>2 DEF Adds
  <1>10. \A g \in Stores : CodesNumbered(g)'  BY <1>2 DEF UsedInv, CodesNumbered
  <1>11. ~Active(s)' /\ ~Names(s)' /\ ~Holding(s)'  BY <1>2 DEF Quiet, Active, Names, Holding
  <1>12. past.used \subseteq past'.used  BY <1>5
  <1>13. ASSUME NEW t \in Slots, t # s, Active(t)
         PROVE  Way(t)' /\ (Makes(t) => Unseen(req[t].no)')
    <2>1. req'[t] = req[t] /\ Way(t)  BY <1>2, <1>13 DEF UsedInv
    <2>2. Holding(t) => req[t].seen[3] # 0  BY <2>1 DEF Way, Thing
    <2>3. Way(t)'  BY <1>1, <1>2, <1>9, <1>12, <1>13, <2>1, <2>2, WayStays
    <2>4. PICK k : k = req[t].no  OBVIOUS
    <2>5. CASE Makes(t)
      <3>1. Unseen(k)  BY <1>13, <2>4, <2>5 DEF UsedInv
      <3>2. \A v \in Slots : (Names(v)' => req'[v].arg # k) /\ (Holding(v)' => req'[v].seen[3] # k)
        <4> TAKE v \in Slots
        <4>1. CASE v = s  BY <1>11, <4>1
        <4>2. CASE v # s  BY <1>2, <3>1, <4>2 DEF Unseen, Names, Holding
        <4> QED  BY <4>1, <4>2
      <3>3. \A v \in past'.used : v[3] # k  BY <1>3, <1>6, <1>7, <3>1 DEF Unseen
      <3>4. Unseen(k)'  BY <1>2, <3>1, <3>2, <3>3 DEF Unseen
      <3> QED  BY <2>1, <2>3, <2>4, <3>4
    <2> QED  BY <2>3, <2>5
  <1>14. \A t \in Slots : Active(t)' => Way(t)' /\ (Makes(t)' => Unseen(req[t].no)')
    <2> TAKE t \in Slots
    <2>1. CASE t = s  BY <1>11, <2>1
    <2>2. CASE t # s
      <3>1. req'[t] = req[t]  BY <1>2, <2>2
      <3>2. (Active(t)' <=> Active(t)) /\ (Makes(t)' <=> Makes(t))  BY <3>1 DEF Active, Makes
      <3> QED  BY <1>13, <2>2, <3>1, <3>2
    <2> QED  BY <2>1, <2>2
  <1> QED  BY <1>5, <1>8, <1>10, <1>14 DEF UsedInv

LEMMA UsedInit == Init => UsedInv
  BY DEF Init, UsedInv, PastOK, CodesNumbered, NoRows, Quiet, Active

LEMMA UsedNext == AskedInv /\ TypedInv /\ UsedInv /\ [Next]_vars => UsedInv'
<1> SUFFICES ASSUME AskedInv, TypedInv, UsedInv, [Next]_vars PROVE UsedInv'
  OBVIOUS
<1>0. ShapesOK  BY DEF AskedInv
<1>1. CASE UNCHANGED vars
  <2>1. past' = past /\ UNCHANGED <<env, rows, count, req>>  BY <1>1 DEF vars
  <2> QED  BY <1>0, <2>1, PastStays, UsedIdle
<1>2. ASSUME NEW s \in Slots, SessionSteps(s) PROVE UsedInv'
  <2>1. ASSUME NEW c, NEW arg, NEW kind \in {"login", "jwks", "lookup"}, Arrive(s, kind, c, arg)
        PROVE  UsedInv'
    BY <2>1, UsedArrive
  <2>2. ASSUME NEW c, NEW t \in Tokens, Arrive(s, "logout", c, t) PROVE UsedInv'
    BY <2>2, UsedArrive
  <2> QED  BY <1>0, <1>2, <2>1, <2>2, UsedCalm, UsedLoginSession, UsedLogout, UsedLookup DEF SessionSteps
<1>3. ASSUME NEW s \in Slots, OrgSteps(s) PROVE UsedInv'
  <2>1. ASSUME NEW c, NEW arg, NEW kind \in {"look", "invite", "org"}, Arrive(s, kind, c, arg)
        PROVE  UsedInv'
    BY <2>1, UsedArrive
  <2>2. ASSUME NEW c, NEW n \in Sent, Arrive(s, "accept", c, n) PROVE UsedInv'
    BY <2>2, UsedArrive
  <2>3. CASE CreateOrg(s) \/ AddOwner(s) \/ AddUser(s) \/ Look(s) \/ Invite(s)  BY <1>0, <2>3, UsedCalm
  <2>4. CASE Accept(s) \/ AcceptExpire(s) \/ AcceptMark(s) \/ AcceptLook(s) \/ AcceptJoin(s)
    BY <2>4, UsedAccepts
  <2>5. CASE InviteRow(s)  BY <1>0, <2>5, UsedInviteRow
  <2>6. CASE \E h \in Stores : InviteLapses(h)  BY <2>6, UsedLapses
  <2> QED  BY <1>3, <2>1, <2>2, <2>3, <2>4, <2>5, <2>6 DEF OrgSteps
<1>4. ASSUME NEW s \in Slots, CodeSteps(s) PROVE UsedInv'
  <2>1. ASSUME NEW c, NEW arg, NEW kind \in {"issue", "verify"}, Arrive(s, kind, c, arg) PROVE UsedInv'
    BY <2>1, UsedArrive
  <2>3. CASE \E i \in Instances, d \in Identifiers : WindowLapses(i, d)
    <3>1. PICK i \in Instances, d \in Identifiers : WindowLapses(i, d)  BY <2>3
    <3>2. PastOK' /\ past'.used = past.used  BY <3>1 DEF WindowLapses, UsedInv, PastOK
    <3> QED  BY <1>0, <3>1, <3>2, UsedIdle DEF WindowLapses
  <2>4. CASE Issue(s) \/ Verify(s) \/ VerifyQuery(s) \/ VerifyUse(s)  BY <1>0, <2>4, UsedIssue, UsedCodes
  <2>5. CASE \E h \in Stores : CodeLapses(h)  BY <2>5, UsedLapses
  <2> QED  BY <1>4, <2>1, <2>3, <2>4, <2>5 DEF CodeSteps
<1>5. ASSUME NEW s \in Slots, Return(s) \/ QueryFails(s) PROVE UsedInv'
  BY <1>0, <1>5, UsedReturn, UsedCalm
<1> QED
  BY <1>1, <1>2, <1>3, <1>4, <1>5 DEF Next

-----------------------------------------------------------------------------
(* Steps that are not about codes *)

\* Whoever makes such a step touches no code and no count, and waits for no verdict.
Apart(s) ==
    /\ UNCHANGED <<env, attempts, past, count>>
    /\ \A t \in Slots : t # s => req'[t] = req[t]
    /\ req'[s].kind = req[s].kind /\ req'[s].at = req[s].at /\ req'[s].no = req[s].no /\ req'[s].arg = req[s].arg
    /\ req'[s].kind = "verify" => req'[s].pc = "answered"
    /\ Makes(s)' => Makes(s)
    /\ \A h \in Stores : rows'[h].codes = rows[h].codes

LEMMA ApartFrom ==
    ASSUME ShapesOK, UNCHANGED <<env, attempts, past, count>>, NEW s \in Slots, Active(s),
           NEW pc, NEW result, NEW seen, Became(s, pc, result, seen), pc = "answered" \/ req[s].kind # "verify",
           pc # "start", pc = "row" => At(s, "invite", "start"), pc = "session" => At(s, "login", "start"),
           NEW se, NEW or, NEW me, NEW in, Turned(Own(s), se, or, me, in, Of(s).codes)
    PROVE  Apart(s)
  <1>1. PICK h \in Stores : h = Own(s) /\ Of(s) = rows[h]  BY OwnIsAStore DEF Of, Own
  <1>2. \A g \in Stores : rows'[g].codes = rows[g].codes
    <2> TAKE g \in Stores
    <2>1. CASE g = h  BY <1>1, <2>1 DEF Turned
    <2>2. CASE g # h  BY <1>1, <2>2 DEF Turned
    <2> QED  BY <2>1, <2>2
  <1>3. /\ req'[s].kind = req[s].kind /\ req'[s].pc = pc /\ req'[s].at = req[s].at /\ req'[s].no = req[s].no
        /\ req'[s].arg = req[s].arg
    BY FieldsOf DEF Became
  <1>4. \A t \in Slots : t # s => req'[t] = req[t]  BY DEF Became
  <1>5. Makes(s)' => Makes(s)  BY <1>3 DEF Makes, At
  <1> QED  BY <1>2, <1>3, <1>4, <1>5 DEF Apart

LEMMA SessionsAreApart ==
    ASSUME ShapesOK, NEW s \in Slots,
           \/ Login(s) \/ LoginSession(s) \/ LoginRefused(s) \/ Logout(s) \/ Lookup(s) \/ Jwks(s) \/ JwksMake(s)
           \/ QueryFails(s)
    PROVE  Apart(s)
  <1>1. Active(s) /\ UNCHANGED <<env, attempts, past, count>>
    BY AtIsActive DEF Login, LoginSession, LoginRefused, Logout, Lookup, Jwks, JwksMake, QueryFails, Places, Active
  <1>2. Own(s) \in Stores /\ Of(s) = rows[Own(s)]  BY <1>1, OwnIsAStore DEF Of, Own
  <1>3. ASSUME NEW pc \in {"answered", "session", "make"}, NEW result, NEW seen, Became(s, pc, result, seen),
               pc = "answered" \/ req[s].kind # "verify", pc = "session" => At(s, "login", "start"),
               NEW se, Turned(Own(s), se, Of(s).orgs, Of(s).members, Of(s).invites, Of(s).codes)
        PROVE  Apart(s)
    <2>1. pc # "start" /\ pc # "row"  OBVIOUS
    <2> QED  BY <1>1, <1>3, <2>1, ApartFrom
  <1>4. ASSUME NEW pc \in {"answered", "session", "make"}, NEW result, NEW seen, Became(s, pc, result, seen),
               pc = "answered" \/ req[s].kind # "verify", pc = "session" => At(s, "login", "start"), Settled(Own(s))
        PROVE  Apart(s)
    BY <1>2, <1>3, <1>4 DEF Settled
  <1>a. CASE Login(s)  BY <1>4, <1>a, LoginIs DEF Login, At
  <1>b. CASE LoginSession(s)  BY <1>3, <1>b, LoginSessionIs
  <1>c. CASE LoginRefused(s)  BY <1>4, <1>c, LoginRefusedIs
  <1>d. CASE Logout(s)  BY <1>3, <1>d, LogoutIs
  <1>e. CASE Lookup(s)  BY <1>4, <1>e, LookupIs
  <1>f. CASE Jwks(s)  BY <1>4, <1>f, JwksIs DEF Jwks, At
  <1>g. CASE JwksMake(s)  BY <1>4, <1>g, JwksMakeIs
  <1>h. CASE QueryFails(s)  BY <1>4, <1>h, QueryFailsIs
  <1> QED  BY <1>a, <1>b, <1>c, <1>d, <1>e, <1>f, <1>g, <1>h

LEMMA OrgsAreApart ==
    ASSUME ShapesOK, NEW s \in Slots,
           \/ CreateOrg(s) \/ AddOwner(s) \/ AddUser(s) \/ Invite(s) \/ InviteRow(s) \/ Look(s)
           \/ Accept(s) \/ AcceptExpire(s) \/ AcceptMark(s) \/ AcceptLook(s) \/ AcceptJoin(s)
    PROVE  Apart(s)
  <1>1. Active(s) /\ UNCHANGED <<env, attempts, past, count>> /\ req[s].kind \in {"org", "invite", "look", "accept"}
    BY AtIsActive DEF CreateOrg, AddOwner, AddUser, Invite, InviteRow, Look, Accept, AcceptExpire, AcceptMark,
                      AcceptLook, AcceptJoin, Places, At
  <1>2. Own(s) \in Stores /\ Of(s) = rows[Own(s)]  BY <1>1, OwnIsAStore DEF Of, Own
  <1>3. ASSUME NEW pc \in {"answered", "owner", "user", "row", "expire", "mark", "look", "join"}, NEW result, NEW seen,
               Became(s, pc, result, seen), pc = "row" => At(s, "invite", "start"),
               NEW or, NEW me, NEW in, Turned(Own(s), Of(s).sessions, or, me, in, Of(s).codes)
        PROVE  Apart(s)
    <2>1. pc # "start" /\ pc # "session" /\ req[s].kind # "verify"  BY <1>1
    <2> QED  BY <1>1, <1>3, <2>1, ApartFrom
  <1>4. ASSUME NEW pc \in {"answered", "owner", "user", "row", "expire", "mark", "look", "join"}, NEW result, NEW seen,
               Became(s, pc, result, seen), pc = "row" => At(s, "invite", "start"), Settled(Own(s))
        PROVE  Apart(s)
    BY <1>2, <1>3, <1>4 DEF Settled
  <1>5. ASSUME Joined(s) PROVE Apart(s)  BY <1>1, <1>3, <1>5, JoinedIs
  <1>a. CASE CreateOrg(s)  BY <1>3, <1>4, <1>a, CreateOrgIs
  <1>b. CASE AddOwner(s)  BY <1>3, <1>b, AddOwnerIs
  <1>c. CASE AddUser(s)  BY <1>4, <1>c, AddUserIs
  <1>d. CASE Invite(s)  BY <1>4, <1>d, InviteIs DEF Invite
  <1>e. CASE InviteRow(s)  BY <1>3, <1>e, InviteRowIs
  <1>f. CASE Look(s)  BY <1>4, <1>f, LookIs
  <1>g. CASE Accept(s)  BY <1>3, <1>4, <1>g, AcceptIs
  <1>h. CASE AcceptExpire(s)  BY <1>3, <1>h, AcceptExpireIs
  <1>i. CASE AcceptMark(s)  BY <1>3, <1>i, AcceptMarkIs
  <1>j. CASE AcceptLook(s)  BY <1>4, <1>5, <1>j, AcceptLookIs
  <1>k. CASE AcceptJoin(s)  BY <1>5, <1>k DEF AcceptJoin
  <1> QED  BY <1>a, <1>b, <1>c, <1>d, <1>e, <1>f, <1>g, <1>h, <1>i, <1>j, <1>k

-----------------------------------------------------------------------------
(* Without a database no code verifies twice *)

\* Code n has been used: it is in no store, and nobody is to issue it.
Done(n) ==
    /\ n \in 1..count /\ \A h \in Stores : \A x \in rows[h].codes : x.no # n
    /\ \A t \in Slots : Makes(t) => req[t].no # n
CodesLone ==
    /\ DOMAIN past.uses = Numbers
    /\ ~env.db => /\ \A n \in Numbers : past.uses[n] = 0 \/ (past.uses[n] = 1 /\ Done(n))
                  /\ \A g, h \in Stores : \A x \in rows[g].codes, y \in rows[h].codes : x.no = y.no => g = h

\* A step that uses and issues no code; a request that arrives has a number nothing has.
LEMMA LonesKept ==
    ASSUME CodesLone, env' = env, past'.uses = past.uses, count \in Nat, count' \in Nat, count <= count',
           \A h \in Stores : \A y \in rows'[h].codes : \E x \in rows[h].codes : x.no = y.no,
           \A t \in Slots : Makes(t)' => (Makes(t) /\ req'[t].no = req[t].no) \/ req'[t].no = count + 1
    PROVE  CodesLone'
  <1>1. ASSUME NEW n, Done(n) PROVE Done(n)'
    <2>1. n \in 1..count /\ n \in 1..count' /\ n # count + 1  BY <1>1 DEF Done
    <2> QED  BY <1>1, <2>1 DEF Done
  <1>2. ~env.db => \A g, h \in Stores : \A x \in rows'[g].codes, y \in rows'[h].codes : x.no = y.no => g = h
    <2> SUFFICES ASSUME ~env.db, NEW g \in Stores, NEW h \in Stores, NEW x \in rows'[g].codes, NEW y \in rows'[h].codes,
                        x.no = y.no
                 PROVE  g = h
      OBVIOUS
    <2>1. PICK v \in rows[g].codes : v.no = x.no  OBVIOUS
    <2>2. PICK w \in rows[h].codes : w.no = y.no  OBVIOUS
    <2> QED  BY <2>1, <2>2 DEF CodesLone
  <1>3. ~env.db => \A n \in Numbers : past.uses[n] = 0 \/ (past.uses[n] = 1 /\ Done(n)')  BY <1>1 DEF CodesLone
  <1>4. DOMAIN past'.uses = Numbers  BY DEF CodesLone
  <1> QED  BY <1>2, <1>3, <1>4 DEF CodesLone, Numbers

LEMMA LoneApart ==
    ASSUME ShapesOK, CodesLone, NEW s \in Slots, Apart(s)
    PROVE  CodesLone'
  <1>1. count \in Nat /\ count' = count /\ env' = env /\ past'.uses = past.uses  BY DEF ShapesOK, Apart
  <1>2. \A h \in Stores : \A y \in rows'[h].codes : \E x \in rows[h].codes : x.no = y.no  BY DEF Apart
  <1>3. \A t \in Slots : Makes(t)' => Makes(t) /\ req'[t].no = req[t].no
    <2> TAKE t \in Slots
    <2>1. CASE t = s  BY <2>1 DEF Apart
    <2>2. CASE t # s  BY <2>2 DEF Apart, Makes
    <2> QED  BY <2>1, <2>2
  <1> QED  BY <1>1, <1>2, <1>3, LonesKept

LEMMA LoneArrive ==
    ASSUME ShapesOK, CodesLone, NEW s \in Slots, NEW kind, NEW c, NEW arg, Arrive(s, kind, c, arg)
    PROVE  CodesLone'
  <1>1. /\ count' = count + 1 /\ env' = env /\ rows' = rows /\ past' = past /\ count \in Nat
        /\ \A t \in Slots : t # s => req'[t] = req[t]
    BY ArriveIs DEF ShapesOK
  <1>2. PICK i \in Instances : Came(s, kind, i, getUser(env, c), arg)  BY ArriveIs
  <1>3. req'[s].no = count + 1  BY <1>2, FieldsOf DEF Came
  <1>4. \A t \in Slots : Makes(t)' => (Makes(t) /\ req'[t].no = req[t].no) \/ req'[t].no = count + 1
    <2> TAKE t \in Slots
    <2>1. CASE t = s  BY <1>3, <2>1
    <2>2. CASE t # s  BY <1>1, <2>2 DEF Makes
    <2> QED  BY <2>1, <2>2
  <1> QED  BY <1>1, <1>4, LonesKept

LEMMA LoneReturn ==
    ASSUME ShapesOK, UsedInv, CodesLone, NEW s \in Slots, Return(s)
    PROVE  CodesLone'
  <1>1. /\ count' = count /\ env' = env /\ rows' = rows /\ req'[s] = Quiet /\ count \in Nat
        /\ \A t \in Slots : t # s => req'[t] = req[t]
    BY DEF Return, ShapesOK
  <1>2. past'.uses = past.uses  BY DEF Return, UsedInv, PastOK
  <1>3. \A t \in Slots : Makes(t)' => Makes(t) /\ req'[t].no = req[t].no
    <2> TAKE t \in Slots
    <2>1. CASE t = s  BY <1>1, <2>1 DEF Makes, Quiet
    <2>2. CASE t # s  BY <1>1, <2>2 DEF Makes
    <2> QED  BY <2>1, <2>2
  <1> QED  BY <1>1, <1>2, <1>3, LonesKept

LEMMA LoneIdle ==
    ASSUME ShapesOK, CodesLone, UNCHANGED <<env, count, req>>, past'.uses = past.uses,
           \A h \in Stores : \A y \in rows'[h].codes : \E x \in rows[h].codes : x.no = y.no
    PROVE  CodesLone'
  <1>1. \A t \in Slots : Makes(t)' => Makes(t) /\ req'[t].no = req[t].no  BY DEF Makes
  <1> QED  BY <1>1, LonesKept DEF ShapesOK

LEMMA LoneCodeLapses ==
    ASSUME ShapesOK, TypedInv, CodesLone, NEW h \in Stores, CodeLapses(h)
    PROVE  CodesLone'
  <1>1. PICK x \in rows[h].codes :
          Turned(h, rows[h].sessions, rows[h].orgs, rows[h].members, rows[h].invites,
                 (rows[h].codes \ {x}) \cup {[x EXCEPT !.live = FALSE]})
    BY CodeLapsesIs
  <1>2. PICK z : z = [x EXCEPT !.live = FALSE]  OBVIOUS
  <1>3. z.no = x.no
    <2>1. Code(x)  BY DEF TypedInv, Kinds
    <2>2. z = [no |-> x.no, ident |-> x.ident, value |-> x.value, by |-> x.by, live |-> FALSE]  BY <1>2, <2>1 DEF Code
    <2> QED  BY <2>2
  <1>4. rows'[h].codes = (rows[h].codes \ {x}) \cup {z} /\ \A g \in Stores : g # h => rows'[g] = rows[g]
    BY <1>1, <1>2 DEF Turned
  <1>5. \A g \in Stores : \A y \in rows'[g].codes : \E w \in rows[g].codes : w.no = y.no
    <2> TAKE g \in Stores
    <2>1. CASE g = h  BY <1>3, <1>4, <2>1
    <2>2. CASE g # h  BY <1>4, <2>2
    <2> QED  BY <2>1, <2>2
  <1> QED  BY <1>5, LoneIdle DEF CodeLapses

LEMMA LoneInviteLapses ==
    ASSUME ShapesOK, CodesLone, NEW h \in Stores, InviteLapses(h)
    PROVE  CodesLone'
  <1>1. PICK in : Turned(h, rows[h].sessions, rows[h].orgs, rows[h].members, in, rows[h].codes)  BY InviteLapsesIs
  <1>2. \A g \in Stores : \A y \in rows'[g].codes : \E w \in rows[g].codes : w.no = y.no
    <2> TAKE g \in Stores
    <2>1. CASE g = h  BY <1>1, <2>1 DEF Turned
    <2>2. CASE g # h  BY <1>1, <2>2 DEF Turned
    <2> QED  BY <2>1, <2>2
  <1> QED  BY <1>2, LoneIdle DEF InviteLapses

LEMMA LoneIssue ==
    ASSUME ShapesOK, UsedInv, CodesLone, NEW s \in Slots, Issue(s)
    PROVE  CodesLone'
  <1>1. Active(s) /\ env' = env /\ count' = count /\ past' = past /\ At(s, "issue", "start")
    BY AtIsActive DEF Issue, Places
  <1>2. PICK h \in Stores : h = Own(s) /\ Of(s) = rows[h]  BY <1>1, OwnIsAStore DEF Of, Own
  <1>3. PICK n : n = req[s].no  OBVIOUS
  <1>4. Became(s, "answered", "ok", req[s].seen)  BY IssueIs
  <1>5. PICK new : /\ new.no = n
                   /\ Turned(h, rows[h].sessions, Of(s).orgs, Of(s).members, rows[h].invites, rows[h].codes \cup {new})
    <2>1. PICK v \in Values :
            Turned(Own(s), Of(s).sessions, Of(s).orgs, Of(s).members, Of(s).invites,
                   Of(s).codes \cup {[no |-> req[s].no, ident |-> req[s].arg, value |-> v, by |-> req[s].user.id,
                                      live |-> TRUE]})
      BY IssueIs
    <2>2. PICK new : new = [no |-> req[s].no, ident |-> req[s].arg, value |-> v, by |-> req[s].user.id, live |-> TRUE]
      OBVIOUS
    <2>3. new.no = n  BY <1>3, <2>2
    <2> QED  BY <1>2, <2>1, <2>2, <2>3
  <1>6. Unseen(n) /\ Makes(s)  BY <1>1, <1>3 DEF UsedInv, Makes, At
  <1>7. rows'[h].codes = rows[h].codes \cup {new} /\ \A g \in Stores : g # h => rows'[g] = rows[g]  BY <1>5 DEF Turned
  <1>8. \A g \in Stores : \A y \in rows'[g].codes : (y.no = n /\ g = h) \/ y \in rows[g].codes
    <2> TAKE g \in Stores
    <2>1. CASE g = h  BY <1>5, <1>7, <2>1
    <2>2. CASE g # h  BY <1>7, <2>2
    <2> QED  BY <2>1, <2>2
  <1>9. ~Makes(s)' /\ \A t \in Slots : t # s => req'[t] = req[t]  BY <1>4, FieldsOf DEF Became, Makes
  <1>10. ASSUME NEW m, Done(m) PROVE Done(m)'
    <2>1. m # n  BY <1>3, <1>6, <1>10 DEF Done
    <2>2. \A t \in Slots : Makes(t)' => req'[t].no # m
      <3> TAKE t \in Slots
      <3>1. CASE t = s  BY <1>9, <3>1
      <3>2. CASE t # s  BY <1>9, <1>10, <3>2 DEF Done, Makes
      <3> QED  BY <3>1, <3>2
    <2> QED  BY <1>1, <1>8, <1>10, <2>1, <2>2 DEF Done
  <1>11. ~env.db => \A f, g \in Stores : \A x \in rows'[f].codes, y \in rows'[g].codes : x.no = y.no => f = g
    <2> SUFFICES ASSUME ~env.db, NEW f \in Stores, NEW g \in Stores, NEW x \in rows'[f].codes, NEW y \in rows'[g].codes,
                        x.no = y.no
                 PROVE  f = g
      OBVIOUS
    <2>1. \A e \in Stores : \A z \in rows[e].codes : z.no # n  BY <1>6 DEF Unseen
    <2>2. CASE x.no = n  BY <1>8, <2>1, <2>2
    <2>3. CASE x.no # n
      <3>1. x \in rows[f].codes /\ y \in rows[g].codes  BY <1>8, <2>3
      <3> QED  BY <3>1 DEF CodesLone
    <2> QED  BY <2>2, <2>3
  <1>12. ~env.db => \A m \in Numbers : past.uses[m] = 0 \/ (past.uses[m] = 1 /\ Done(m)')  BY <1>10 DEF CodesLone
  <1>13. DOMAIN past.uses = Numbers  BY DEF CodesLone
  <1> QED  BY <1>1, <1>11, <1>12, <1>13 DEF CodesLone, Numbers

LEMMA LoneRight ==
    ASSUME ShapesOK, UsedInv, CodesLone, env' = env, count' = count, NEW s \in Slots, Active(s), req[s].kind = "verify",
           ~env.db, Found(s) # {}, Right(s, Pick(s).no),
           Turned(Own(s), Of(s).sessions, Of(s).orgs, Of(s).members, Of(s).invites, Deleted(Of(s).codes, Pick(s)))
    PROVE  CodesLone'
  <1>1. PICK h \in Stores : h = Own(s) /\ Of(s) = rows[h]  BY OwnIsAStore DEF Of, Own
  <1>2. PICK x : x = Pick(s)  OBVIOUS
  <1>3. x \in rows[h].codes
    <2>1. \A y \in Of(s).codes : y.no \in 1..count  BY <1>1 DEF UsedInv, CodesNumbered
    <2> QED  BY <1>1, <1>2, <2>1, PickIs
  <1>4. PICK n : n = x.no  OBVIOUS
  <1>5. n \in 1..count /\ n \in Numbers
    <2>1. n \in 1..count  BY <1>3, <1>4 DEF UsedInv, CodesNumbered
    <2> QED  BY <2>1, AccountsConstants DEF ShapesOK, Numbers
  <1>6. past.uses[n] = 0  BY <1>3, <1>4, <1>5 DEF CodesLone, Done
  <1>7. past'.uses = [past.uses EXCEPT ![n] = @ + 1]  BY <1>2, <1>4, RightPast DEF UsedInv
  <1>8. rows'[h].codes = rows[h].codes \ {x} /\ \A g \in Stores : g # h => rows'[g] = rows[g]
    BY <1>1, <1>2 DEF Turned, Deleted
  <1>9. \A g \in Stores : rows'[g].codes \subseteq rows[g].codes
    <2> TAKE g \in Stores
    <2>1. CASE g = h  BY <1>8, <2>1
    <2>2. CASE g # h  BY <1>8, <2>2
    <2> QED  BY <2>1, <2>2
  <1>10. Became(s, "answered", "used", <<"code", Own(s), Pick(s).no>>)  BY RightIs
  <1>11. ~Makes(s)' /\ \A t \in Slots : t # s => req'[t] = req[t]  BY <1>10, FieldsOf DEF Became, Makes
  <1>12. \A t \in Slots : Makes(t)' => Makes(t) /\ req'[t].no = req[t].no
    <2> TAKE t \in Slots
    <2>1. CASE t = s  BY <1>11, <2>1
    <2>2. CASE t # s  BY <1>11, <2>2 DEF Makes
    <2> QED  BY <2>1, <2>2
  <1>13. ASSUME NEW m, Done(m) PROVE Done(m)'  BY <1>9, <1>12, <1>13 DEF Done
  <1>14. Done(n)'
    <2>1. \A g \in Stores : \A y \in rows'[g].codes : y.no # n
      <3> TAKE g \in Stores
      <3>1. CASE g = h
        <4>1. \A y, z \in rows[h].codes : y.no = z.no => y = z  BY DEF UsedInv, CodesNumbered
        <4> QED  BY <1>3, <1>4, <1>8, <3>1, <4>1
      <3>2. CASE g # h  BY <1>3, <1>4, <1>9, <3>2 DEF CodesLone
      <3> QED  BY <3>1, <3>2
    <2>2. \A t \in Slots : Makes(t)' => req'[t].no # n
      <3> TAKE t \in Slots
      <3>1. Makes(t) => Active(t) /\ Unseen(req[t].no)  BY DEF UsedInv, Makes, Active
      <3> QED  BY <1>3, <1>4, <1>12, <3>1 DEF Unseen
    <2> QED  BY <1>5, <2>1, <2>2 DEF Done
  <1>15. DOMAIN past'.uses = Numbers  BY <1>7 DEF CodesLone
  <1>16. \A m \in Numbers : past'.uses[m] = 0 \/ (past'.uses[m] = 1 /\ Done(m)')
    <2> TAKE m \in Numbers
    <2>1. CASE m = n
      <3>1. past'.uses[m] = 1  BY <1>5, <1>6, <1>7, <2>1 DEF CodesLone
      <3> QED  BY <1>14, <2>1, <3>1
    <2>2. CASE m # n
      <3>1. past'.uses[m] = past.uses[m]  BY <1>5, <1>7, <2>2 DEF CodesLone
      <3> QED  BY <1>13, <3>1 DEF CodesLone
    <2> QED  BY <2>1, <2>2
  <1>17. \A f, g \in Stores : \A y \in rows'[f].codes, z \in rows'[g].codes : y.no = z.no => f = g
    BY <1>9 DEF CodesLone
  <1> QED  BY <1>15, <1>16, <1>17 DEF CodesLone, Numbers

LEMMA LoneSettled ==
    ASSUME ShapesOK, CodesLone, env' = env, count' = count, past'.uses = past.uses, NEW s \in Slots, Active(s),
           req[s].kind = "verify", NEW pc, NEW result, NEW seen, Became(s, pc, result, seen), Settled(Own(s))
    PROVE  CodesLone'
  <1>1. PICK h \in Stores : h = Own(s)  BY OwnIsAStore
  <1>2. \A g \in Stores : \A y \in rows'[g].codes : \E w \in rows[g].codes : w.no = y.no
    <2> TAKE g \in Stores
    <2>1. CASE g = h  BY <1>1, <2>1 DEF Settled, Turned
    <2>2. CASE g # h  BY <1>1, <2>2 DEF Settled, Turned
    <2> QED  BY <2>1, <2>2
  <1>3. req'[s].kind = "verify" /\ \A t \in Slots : t # s => req'[t] = req[t]  BY FieldsOf DEF Became
  <1>4. \A t \in Slots : Makes(t)' => Makes(t) /\ req'[t].no = req[t].no
    <2> TAKE t \in Slots
    <2>1. CASE t = s  BY <1>3, <2>1 DEF Makes
    <2>2. CASE t # s  BY <1>3, <2>2 DEF Makes
    <2> QED  BY <2>1, <2>2
  <1> QED  BY <1>2, <1>4, LonesKept DEF ShapesOK

LEMMA LoneJudge ==
    ASSUME ShapesOK, UsedInv, CodesLone, env' = env, count' = count, NEW s \in Slots, Active(s), req[s].kind = "verify",
           Judge(s)
    PROVE  CodesLone'
  <1>1. CASE Wrong(s) /\ Became(s, "answered", "wrong", req[s].seen) /\ Settled(Own(s))
    <2>1. past'.uses = past.uses  BY <1>1, WrongPast DEF UsedInv
    <2> QED  BY <1>1, <2>1, LoneSettled
  <1>2. CASE /\ env.db /\ Found(s) # {}
             /\ Became(s, "use", req[s].result, <<"code", "db", Pick(s).no>>)
             /\ Settled(Own(s)) /\ UNCHANGED <<attempts, past>>
    BY <1>2, LoneSettled
  <1>3. CASE /\ ~env.db /\ Found(s) # {}
             /\ Right(s, Pick(s).no) /\ Became(s, "answered", "used", <<"code", Own(s), Pick(s).no>>)
             /\ Turned(Own(s), Of(s).sessions, Of(s).orgs, Of(s).members, Of(s).invites, Deleted(Of(s).codes, Pick(s)))
    BY <1>3, LoneRight
  <1> QED  BY <1>1, <1>2, <1>3, JudgeIs

LEMMA LoneCodes ==
    ASSUME ShapesOK, UsedInv, CodesLone, NEW s \in Slots, Verify(s) \/ VerifyQuery(s) \/ VerifyUse(s)
    PROVE  CodesLone'
  <1>1. Active(s) /\ env' = env /\ count' = count /\ req[s].kind = "verify"
    BY AtIsActive DEF Verify, VerifyQuery, VerifyUse, Places, At
  <1>a. CASE Verify(s)
    <2>1. CASE /\ Settled(Own(s)) /\ UNCHANGED <<attempts, past>>
               /\ \/ Became(s, "answered", "429", req[s].seen)
                  \/ env.db /\ Became(s, "query", req[s].result, req[s].seen)
      BY <1>1, <2>1, LoneSettled
    <2>2. CASE Judge(s)  BY <1>1, <2>2, LoneJudge
    <2>3. \/ /\ Settled(Own(s)) /\ UNCHANGED <<attempts, past>>
             /\ \/ Became(s, "answered", "429", req[s].seen)
                \/ env.db /\ Became(s, "query", req[s].result, req[s].seen)
          \/ Judge(s)
      BY <1>a, VerifyIs
    <2> QED  BY <2>1, <2>2, <2>3
  <1>b. CASE VerifyQuery(s)  BY <1>1, <1>b, LoneJudge DEF VerifyQuery
  <1>c. CASE VerifyUse(s)
    <2>1. env.db  BY <1>1, <1>c DEF VerifyUse, At, UsedInv, Way, Using
    <2>2. past'.uses = [past.uses EXCEPT ![req[s].seen[3]] = @ + 1]  BY <1>c, RightPast DEF VerifyUse, UsedInv
    <2>3. DOMAIN past'.uses = Numbers  BY <2>2 DEF CodesLone
    <2> QED  BY <1>1, <2>1, <2>3 DEF CodesLone, Numbers
  <1> QED  BY <1>a, <1>b, <1>c

LEMMA LoneInit == Init => CodesLone
<1> SUFFICES ASSUME Init PROVE CodesLone
  OBVIOUS
<1>1. past.uses = [n \in Numbers |-> 0] /\ \A h \in Stores : rows[h].codes = {}  BY DEF Init, NoRows, Numbers
<1> QED  BY <1>1 DEF CodesLone

LEMMA LoneNext == AskedInv /\ TypedInv /\ UsedInv /\ CodesLone /\ [Next]_vars => CodesLone'
<1> SUFFICES ASSUME AskedInv, TypedInv, UsedInv, CodesLone, [Next]_vars PROVE CodesLone'
  OBVIOUS
<1>0. ShapesOK  BY DEF AskedInv
<1>1. CASE UNCHANGED vars
  <2>1. UNCHANGED <<env, count, req>> /\ past'.uses = past.uses /\ rows' = rows  BY <1>1 DEF vars
  <2> QED  BY <1>0, <2>1, LoneIdle
<1>2. ASSUME NEW s \in Slots, SessionSteps(s) PROVE CodesLone'
  <2>1. ASSUME NEW c, NEW arg, NEW kind, Arrive(s, kind, c, arg) PROVE CodesLone'  BY <1>0, <2>1, LoneArrive
  <2> QED  BY <1>0, <1>2, <2>1, SessionsAreApart, LoneApart DEF SessionSteps
<1>3. ASSUME NEW s \in Slots, OrgSteps(s) PROVE CodesLone'
  <2>1. ASSUME NEW c, NEW arg, NEW kind, Arrive(s, kind, c, arg) PROVE CodesLone'  BY <1>0, <2>1, LoneArrive
  <2>2. CASE \E h \in Stores : InviteLapses(h)  BY <1>0, <2>2, LoneInviteLapses
  <2>3. CASE \/ CreateOrg(s) \/ AddOwner(s) \/ AddUser(s) \/ Invite(s) \/ InviteRow(s) \/ Look(s)
             \/ Accept(s) \/ AcceptExpire(s) \/ AcceptMark(s) \/ AcceptLook(s) \/ AcceptJoin(s)
    BY <1>0, <2>3, OrgsAreApart, LoneApart
  <2> QED  BY <1>3, <2>1, <2>2, <2>3 DEF OrgSteps
<1>4. ASSUME NEW s \in Slots, CodeSteps(s) PROVE CodesLone'
  <2>1. ASSUME NEW c, NEW arg, NEW kind, Arrive(s, kind, c, arg) PROVE CodesLone'  BY <1>0, <2>1, LoneArrive
  <2>2. CASE \E i \in Instances, d \in Identifiers : WindowLapses(i, d)
    <3>1. PICK i \in Instances, d \in Identifiers : WindowLapses(i, d)  BY <2>2
    <3>2. past'.uses = past.uses  BY <3>1 DEF WindowLapses, UsedInv, PastOK
    <3> QED  BY <1>0, <3>1, <3>2, LoneIdle DEF WindowLapses
  <2>3. CASE Issue(s) \/ Verify(s) \/ VerifyQuery(s) \/ VerifyUse(s)  BY <1>0, <2>3, LoneIssue, LoneCodes
  <2>4. CASE \E h \in Stores : CodeLapses(h)  BY <1>0, <2>4, LoneCodeLapses
  <2> QED  BY <1>4, <2>1, <2>2, <2>3, <2>4 DEF CodeSteps
<1>5. ASSUME NEW s \in Slots, Return(s) \/ QueryFails(s) PROVE CodesLone'
  BY <1>0, <1>5, LoneReturn, SessionsAreApart, LoneApart
<1> QED
  BY <1>1, <1>2, <1>3, <1>4, <1>5 DEF Next

-----------------------------------------------------------------------------
(* Without a database no invitation admits twice *)

Taking(s) == At(s, "accept", "look")
JoinsLone ==
    ~env.db =>
        /\ \A h \in Stores : \A x, y \in rows[h].members : x.why = y.why /\ x.why # 0 => x = y
        /\ \A s \in Slots : Taking(s) =>
              /\ \A m \in rows[Own(s)].members : m.why # req[s].arg
              /\ \A t \in Slots : Taking(t) /\ Own(t) = Own(s) /\ req[t].arg = req[s].arg => s = t

LEMMA EnvStays == [Next]_vars => env' = env
<1>1. \A s \in Slots : SessionSteps(s) => env' = env
  BY ZenonT(90) DEF SessionSteps, Arrive, Login, LoginSession, LoginRefused, Logout, Lookup, Jwks, JwksMake
<1>2. \A s \in Slots : OrgSteps(s) => env' = env
  <2> TAKE s \in Slots
  <2>1. CreateOrg(s) \/ AddOwner(s) \/ AddUser(s) \/ Invite(s) \/ InviteRow(s) \/ Look(s) => env' = env
    BY DEF CreateOrg, AddOwner, AddUser, Invite, InviteRow, Look
  <2>2. Accept(s) \/ AcceptExpire(s) \/ AcceptMark(s) \/ AcceptLook(s) \/ AcceptJoin(s) => env' = env
    BY DEF Accept, AcceptExpire, AcceptMark, AcceptLook, AcceptJoin
  <2>3. \A h \in Stores : InviteLapses(h) => env' = env  BY DEF InviteLapses
  <2> QED  BY <2>1, <2>2, <2>3 DEF OrgSteps, Arrive
<1>3. \A s \in Slots : CodeSteps(s) => env' = env
  BY DEF CodeSteps, Arrive, Issue, Verify, VerifyQuery, VerifyUse, CodeLapses, WindowLapses
<1> QED  BY <1>1, <1>2, <1>3 DEF Next, vars, Return, QueryFails

\* A step that takes up no invitation.
LEMMA JoinsKept ==
    ASSUME AskedInv, JoinsLone, env' = env,
           \A h \in Stores : \A m \in rows'[h].members : m \in rows[h].members \/ m.why = 0,
           \A t \in Slots : Taking(t)' => req'[t] = req[t]
    PROVE  JoinsLone'
  <1> SUFFICES ASSUME ~env.db PROVE JoinsLone'
    BY DEF JoinsLone
  <1>1. \A h \in Stores : \A x, y \in rows'[h].members : x.why = y.why /\ x.why # 0 => x = y  BY DEF JoinsLone
  <1>2. \A t \in Slots : Taking(t)' => Taking(t) /\ req'[t] = req[t] /\ Own(t)' = Own(t)
    BY DEF Taking, At, Own, StoreOf
  <1>3. \A t \in Slots : Taking(t) => Own(t) \in Stores /\ req[t].arg # 0
    <2> TAKE t \in Slots
    <2> SUFFICES ASSUME Taking(t) PROVE Own(t) \in Stores /\ req[t].arg # 0
      OBVIOUS
    <2>1. Active(t)  BY AtIsActive DEF Taking, Places
    <2>2. req[t].arg \in 1..count /\ ShapesOK  BY <2>1 DEF AskedInv, Underway, Accepting, Taking, At
    <2> QED  BY <2>1, <2>2, OwnIsAStore
  <1>4. ASSUME NEW s \in Slots, Taking(s)'
        PROVE  /\ \A m \in rows'[Own(s)].members : m.why # req[s].arg
               /\ \A t \in Slots : Taking(t)' /\ Own(t)' = Own(s) /\ req'[t].arg = req[s].arg => s = t
    <2>1. Taking(s)  BY <1>2, <1>4
    <2>2. PICK h \in Stores : h = Own(s)  BY <1>3, <2>1
    <2>3. \A m \in rows[h].members : m.why # req[s].arg  BY <2>1, <2>2 DEF JoinsLone
    <2>4. \A m \in rows'[h].members : m.why # req[s].arg  BY <1>3, <2>1, <2>3
    <2>5. \A t \in Slots : Taking(t)' /\ Own(t)' = Own(s) /\ req'[t].arg = req[s].arg => s = t
      BY <1>2, <2>1 DEF JoinsLone
    <2> QED  BY <2>2, <2>4, <2>5
  <1>5. \A s \in Slots : Taking(s)' =>
              /\ \A m \in rows'[Own(s)'].members : m.why # req'[s].arg
              /\ \A t \in Slots : Taking(t)' /\ Own(t)' = Own(s)' /\ req'[t].arg = req'[s].arg => s = t
    <2> TAKE s \in Slots
    <2> SUFFICES ASSUME Taking(s)'
                 PROVE  /\ \A m \in rows'[Own(s)'].members : m.why # req'[s].arg
                        /\ \A t \in Slots : Taking(t)' /\ Own(t)' = Own(s)' /\ req'[t].arg = req'[s].arg => s = t
      OBVIOUS
    <2>1. Own(s)' = Own(s) /\ req'[s] = req[s]  BY <1>2
    <2> QED  BY <1>4, <2>1
  <1> QED  BY <1>1, <1>5 DEF JoinsLone

LEMMA JoinsAside ==
    ASSUME AskedInv, JoinsLone, env' = env, NEW s \in Slots, Active(s),
           NEW pc, NEW result, NEW seen, Became(s, pc, result, seen), pc # "look",
           NEW se, NEW or, NEW me, NEW in, NEW co, Turned(Own(s), se, or, me, in, co),
           \A m \in me : m \in Of(s).members \/ m.why = 0
    PROVE  JoinsLone'
  <1>1. PICK h \in Stores : h = Own(s) /\ Of(s) = rows[h]  BY OwnIsAStore DEF Of, Own, AskedInv
  <1>2. \A g \in Stores : \A m \in rows'[g].members : m \in rows[g].members \/ m.why = 0
    <2> TAKE g \in Stores
    <2>1. CASE g = h  BY <1>1, <2>1 DEF Turned
    <2>2. CASE g # h  BY <1>1, <2>2 DEF Turned
    <2> QED  BY <2>1, <2>2
  <1>3. req'[s].pc = pc /\ \A t \in Slots : t # s => req'[t] = req[t]  BY FieldsOf DEF Became
  <1>4. \A t \in Slots : Taking(t)' => req'[t] = req[t]
    <2> TAKE t \in Slots
    <2>1. CASE t = s  BY <1>3, <2>1 DEF Taking, At
    <2>2. CASE t # s  BY <1>3, <2>2
    <2> QED  BY <2>1, <2>2
  <1> QED  BY <1>2, <1>4, JoinsKept

LEMMA JoinsCalm ==
    ASSUME AskedInv, JoinsLone, env' = env, NEW s \in Slots,
           \/ Login(s) \/ LoginSession(s) \/ LoginRefused(s) \/ Logout(s) \/ Lookup(s) \/ Jwks(s) \/ JwksMake(s)
           \/ CreateOrg(s) \/ AddOwner(s) \/ AddUser(s) \/ Invite(s) \/ InviteRow(s) \/ Look(s) \/ AcceptExpire(s)
           \/ Issue(s) \/ QueryFails(s)
    PROVE  JoinsLone'
  <1>0. ShapesOK  BY DEF AskedInv
  <1>1. Active(s)
    BY AtIsActive DEF Login, LoginSession, LoginRefused, Logout, Lookup, Jwks, JwksMake, CreateOrg, AddOwner, AddUser,
                      Invite, InviteRow, Look, AcceptExpire, Issue, QueryFails, Places, Active
  <1>2. Own(s) \in Stores /\ Of(s) = rows[Own(s)]  BY <1>0, <1>1, OwnIsAStore DEF Of, Own
  <1>3. ASSUME NEW pc, NEW result, NEW seen, Became(s, pc, result, seen), pc # "look",
               NEW se, NEW or, NEW in, NEW co, Turned(Own(s), se, or, Of(s).members, in, co)
        PROVE  JoinsLone'
    <2>1. PICK me : me = Of(s).members /\ \A m \in me : m \in Of(s).members \/ m.why = 0  OBVIOUS
    <2>2. Turned(Own(s), se, or, me, in, co)  BY <1>3, <2>1
    <2> QED  BY <1>1, <1>3, <2>1, <2>2, JoinsAside
  <1>4. ASSUME NEW pc, NEW result, NEW seen, Became(s, pc, result, seen), pc # "look", Settled(Own(s))
        PROVE  JoinsLone'
    BY <1>2, <1>3, <1>4 DEF Settled
  <1>a. CASE Login(s)  BY <1>0, <1>4, <1>a, LoginIs
  <1>b. CASE LoginSession(s)  BY <1>0, <1>3, <1>b, LoginSessionIs
  <1>c. CASE LoginRefused(s)  BY <1>0, <1>4, <1>c, LoginRefusedIs
  <1>d. CASE Logout(s)  BY <1>0, <1>3, <1>d, LogoutIs
  <1>e. CASE Lookup(s)  BY <1>0, <1>4, <1>e, LookupIs
  <1>f. CASE Jwks(s)  BY <1>0, <1>4, <1>f, JwksIs
  <1>g. CASE JwksMake(s)  BY <1>0, <1>4, <1>g, JwksMakeIs
  <1>h. CASE CreateOrg(s)  BY <1>0, <1>3, <1>4, <1>h, CreateOrgIs
  <1>i. CASE AddOwner(s)
    <2>1. PICK new : new = Member(req[s].no, req[s].user, "owner", 0)  OBVIOUS
    <2>2. new.why = 0  BY <2>1 DEF Member
    <2>3. PICK me : me = Of(s).members \cup {new} /\ \A m \in me : m \in Of(s).members \/ m.why = 0  BY <2>2
    <2>4. /\ Became(s, "user", req[s].result, req[s].seen)
          /\ Turned(Own(s), Of(s).sessions, Of(s).orgs, me, Of(s).invites, Of(s).codes)
      BY <1>0, <1>i, <2>1, <2>3, AddOwnerIs
    <2>5. "user" # "look"  OBVIOUS
    <2> QED  BY <1>1, <2>3, <2>4, <2>5, JoinsAside
  <1>j. CASE AddUser(s)  BY <1>0, <1>4, <1>j, AddUserIs
  <1>k. CASE Invite(s)  BY <1>0, <1>4, <1>k, InviteIs
  <1>l. CASE InviteRow(s)  BY <1>0, <1>3, <1>l, InviteRowIs
  <1>m. CASE Look(s)  BY <1>0, <1>4, <1>m, LookIs
  <1>n. CASE AcceptExpire(s)  BY <1>0, <1>3, <1>n, AcceptExpireIs
  <1>o. CASE Issue(s)  BY <1>0, <1>3, <1>o, IssueIs
  <1>p. CASE QueryFails(s)  BY <1>0, <1>4, <1>p, QueryFailsIs
  <1> QED
    BY <1>a, <1>b, <1>c, <1>d, <1>e, <1>f, <1>g, <1>h, <1>i, <1>j, <1>k, <1>l, <1>m, <1>n, <1>o, <1>p

LEMMA JoinsJudge ==
    ASSUME AskedInv, JoinsLone, env' = env, NEW s \in Slots, Active(s), Judge(s)
    PROVE  JoinsLone'
  <1>1. ShapesOK /\ Own(s) \in Stores /\ Of(s) = rows[Own(s)]  BY OwnIsAStore DEF Of, Own, AskedInv
  <1>2. PICK me : me = Of(s).members /\ \A m \in me : m \in Of(s).members \/ m.why = 0  OBVIOUS
  <1>3. \E pc, result, seen, co : /\ Became(s, pc, result, seen) /\ pc # "look"
                                  /\ Turned(Own(s), Of(s).sessions, Of(s).orgs, Of(s).members, Of(s).invites, co)
    BY <1>1, JudgeIs DEF Settled
  <1>4. PICK pc, result, seen, co : /\ Became(s, pc, result, seen) /\ pc # "look"
                                    /\ Turned(Own(s), Of(s).sessions, Of(s).orgs, me, Of(s).invites, co)
    BY <1>2, <1>3
  <1> QED  BY <1>2, <1>4, JoinsAside

LEMMA JoinsCodes ==
    ASSUME AskedInv, JoinsLone, env' = env, NEW s \in Slots, Verify(s) \/ VerifyQuery(s) \/ VerifyUse(s)
    PROVE  JoinsLone'
  <1>0. ShapesOK  BY DEF AskedInv
  <1>1. Active(s)  BY AtIsActive DEF Verify, VerifyQuery, VerifyUse, Places
  <1>2. Own(s) \in Stores /\ Of(s) = rows[Own(s)]  BY <1>0, <1>1, OwnIsAStore DEF Of, Own
  <1>3. PICK me : me = Of(s).members /\ \A m \in me : m \in Of(s).members \/ m.why = 0  OBVIOUS
  <1>4. CASE Judge(s)  BY <1>1, <1>4, JoinsJudge
  <1>5. CASE ~Judge(s)
    <2>1. \E pc, result, seen, co : /\ Became(s, pc, result, seen) /\ pc # "look"
                                    /\ Turned(Own(s), Of(s).sessions, Of(s).orgs, Of(s).members, Of(s).invites, co)
      BY <1>0, <1>2, <1>5, VerifyIs, VerifyUseIs DEF Settled, VerifyQuery
    <2>2. PICK pc, result, seen, co : /\ Became(s, pc, result, seen) /\ pc # "look"
                                      /\ Turned(Own(s), Of(s).sessions, Of(s).orgs, me, Of(s).invites, co)
      BY <1>3, <2>1
    <2> QED  BY <1>1, <1>3, <2>2, JoinsAside
  <1> QED  BY <1>4, <1>5

LEMMA JoinsAccept ==
    ASSUME AskedInv, TypedInv, JoinsLone, env' = env, NEW s \in Slots, Accept(s)
    PROVE  JoinsLone'
  <1>0. ShapesOK  BY DEF AskedInv
  <1>1. Active(s) /\ req[s].kind = "accept"  BY AtIsActive DEF Accept, Places, At
  <1>2. PICK h \in Stores : h = Own(s) /\ Of(s) = rows[h]  BY <1>0, <1>1, OwnIsAStore DEF Of, Own
  <1>3. PICK n : n = req[s].arg /\ n # 0  BY <1>1 DEF AskedInv, Underway, Accepting
  <1>4. PICK me : me = Of(s).members /\ \A m \in me : m \in Of(s).members \/ m.why = 0  OBVIOUS
  <1>5. ASSUME NEW pc \in {"answered", "expire", "mark"}, NEW result, NEW seen, Became(s, pc, result, seen), Settled(Own(s))
        PROVE  JoinsLone'
    <2>1. Turned(Own(s), Of(s).sessions, Of(s).orgs, me, Of(s).invites, Of(s).codes) /\ pc # "look"
      BY <1>2, <1>4, <1>5 DEF Settled
    <2> QED  BY <1>1, <1>4, <1>5, <2>1, JoinsAside
  <1>6. CASE env.db  BY <1>6 DEF JoinsLone
  <1>7. ASSUME ~env.db, May(s), Standing(s) \notin {"refused", "accepted", "expired", "lapsed"},
               Became(s, "look", req[s].result, req[s].seen),
               Turned(Own(s), Of(s).sessions, Of(s).orgs, Of(s).members, Marked(Of(s).invites, req[s].arg), Of(s).codes)
        PROVE  JoinsLone'
    <2>1. PICK x \in rows[h].invites : x.no = n /\ x.status = Standing(s)
      BY <1>2, <1>3, <1>7 DEF May, Standing, Has, Row
    <2>2. x.status = "pending"  BY <1>7, <2>1 DEF TypedInv, Kinds
    <2>3. \A z \in rows[h].invites : z.no = n => z.status = "pending"  BY <2>1, <2>2 DEF AskedInv, Numbered
    <2>4. \A m \in rows[h].members : m.why # n
      <3> TAKE m \in rows[h].members
      <3>1. MemberAsked(h, m)  BY DEF AskedInv
      <3> QED  BY <1>3, <2>3, <3>1 DEF MemberAsked
    <2>5. \A t \in Slots : Taking(t) /\ Own(t) = h => req[t].arg # n
      <3> TAKE t \in Slots
      <3>1. Taking(t) => Active(t)  BY AtIsActive DEF Taking, Places
      <3> QED  BY <2>3, <3>1 DEF AskedInv, Underway, Accepting, Taking, At
    <2>6. /\ req'[s].kind = "accept" /\ req'[s].pc = "look" /\ req'[s].arg = n /\ req'[s].at = req[s].at
          /\ \A t \in Slots : t # s => req'[t] = req[t]
      BY <1>1, <1>3, <1>7, FieldsOf DEF Became
    <2>7. Own(s)' = h /\ Taking(s)'  BY <1>2, <2>6 DEF Own, StoreOf, Taking, At
    <2>8. \A t \in Slots : t # s => (Taking(t)' <=> Taking(t)) /\ Own(t)' = Own(t)
      BY <2>6 DEF Taking, At, Own, StoreOf
    <2>9. \A g \in Stores : rows'[g].members = rows[g].members
      <3> TAKE g \in Stores
      <3>1. CASE g = h  BY <1>2, <1>7, <3>1 DEF Turned
      <3>2. CASE g # h  BY <1>2, <1>7, <3>2 DEF Turned
      <3> QED  BY <3>1, <3>2
    <2>10. \A g \in Stores : \A y, z \in rows'[g].members : y.why = z.why /\ y.why # 0 => y = z
      BY <1>7, <2>9 DEF JoinsLone
    <2>11. \A t \in Slots : Taking(t)' =>
              /\ \A m \in rows'[Own(t)'].members : m.why # req'[t].arg
              /\ \A u \in Slots : Taking(u)' /\ Own(u)' = Own(t)' /\ req'[u].arg = req'[t].arg => t = u
      <3> TAKE t \in Slots
      <3> SUFFICES ASSUME Taking(t)'
                   PROVE  /\ \A m \in rows'[Own(t)'].members : m.why # req'[t].arg
                          /\ \A u \in Slots : Taking(u)' /\ Own(u)' = Own(t)' /\ req'[u].arg = req'[t].arg => t = u
        OBVIOUS
      <3>1. CASE t = s
        <4>1. \A m \in rows'[h].members : m.why # n  BY <2>4, <2>9
        <4>2. \A u \in Slots : u # s /\ Taking(u)' /\ Own(u)' = h => req'[u].arg # n  BY <2>5, <2>6, <2>8
        <4> QED  BY <2>6, <2>7, <3>1, <4>1, <4>2
      <3>2. CASE t # s
        <4>1. Taking(t) /\ Own(t)' = Own(t) /\ req'[t] = req[t]  BY <2>6, <2>8, <3>2
        <4>2. Own(t) \in Stores  BY <1>0, <4>1, AtIsActive, OwnIsAStore DEF Taking, Places
        <4>3. \A m \in rows[Own(t)].members : m.why # req[t].arg  BY <1>7, <4>1 DEF JoinsLone
        <4>4. ASSUME NEW u \in Slots, Taking(u)', Own(u)' = Own(t), req'[u].arg = req[t].arg PROVE t = u
          <5>1. CASE u = s
            <6>1. Own(t) = h /\ req[t].arg = n  BY <2>6, <2>7, <4>4, <5>1
            <6> QED  BY <2>5, <4>1, <6>1
          <5>2. CASE u # s
            <6>1. Taking(u) /\ Own(u) = Own(t) /\ req[u].arg = req[t].arg  BY <2>6, <2>8, <4>4, <5>2
            <6> QED  BY <1>7, <4>1, <6>1 DEF JoinsLone
          <5> QED  BY <5>1, <5>2
        <4> QED  BY <2>9, <4>1, <4>2, <4>3, <4>4
      <3> QED  BY <3>1, <3>2
    <2> QED  BY <2>10, <2>11 DEF JoinsLone
  <1>8. ASSUME Settled(Own(s)), NEW st \in {"refused", "accepted", "expired"}, Became(s, "answered", st, req[s].seen)
        PROVE  JoinsLone'
    BY <1>5, <1>8
  <1>9. ASSUME Settled(Own(s)), Became(s, "expire", req[s].result, req[s].seen) PROVE JoinsLone'
    BY <1>5, <1>9
  <1>10. ASSUME Settled(Own(s)), Became(s, "mark", req[s].result, req[s].seen) PROVE JoinsLone'
    BY <1>5, <1>10
  <1> QED  BY <1>0, <1>6, <1>7, <1>8, <1>9, <1>10, AcceptIs

LEMMA JoinsJoined ==
    ASSUME AskedInv, JoinsLone, env' = env, NEW s \in Slots, Taking(s), Joined(s), ~env.db
    PROVE  JoinsLone'
  <1>0. ShapesOK  BY DEF AskedInv
  <1>1. Active(s) /\ req[s].kind = "accept"  BY AtIsActive DEF Taking, Places, At
  <1>2. PICK h \in Stores : h = Own(s) /\ Of(s) = rows[h]  BY <1>0, <1>1, OwnIsAStore DEF Of, Own
  <1>3. PICK n : n = req[s].arg /\ n # 0  BY <1>1 DEF AskedInv, Underway, Accepting
  <1>4. PICK new : new = Newcomer(s) /\ new.why = n
    <2>1. Newcomer(s).why = n  BY <1>3 DEF Newcomer, Member
    <2> QED  BY <2>1
  <1>5. /\ Became(s, "answered", "used", <<"invite", Own(s), req[s].arg>>)
        /\ Turned(h, Of(s).sessions, Of(s).orgs, rows[h].members \cup {new}, Of(s).invites, Of(s).codes)
    BY <1>0, <1>1, <1>2, <1>4, JoinedIs
  <1>6. req'[s].pc = "answered" /\ \A t \in Slots : t # s => req'[t] = req[t]  BY <1>5, FieldsOf DEF Became
  <1>7. rows'[h].members = rows[h].members \cup {new} /\ \A g \in Stores : g # h => rows'[g] = rows[g]
    BY <1>5 DEF Turned
  <1>8. \A m \in rows[h].members : m.why # n  BY <1>2, <1>3 DEF JoinsLone
  <1>9. \A g \in Stores : \A x, y \in rows'[g].members : x.why = y.why /\ x.why # 0 => x = y
    <2> TAKE g \in Stores
    <2>1. \A x, y \in rows[g].members : x.why = y.why /\ x.why # 0 => x = y  BY DEF JoinsLone
    <2>2. CASE g = h  BY <1>4, <1>7, <1>8, <2>1, <2>2
    <2>3. CASE g # h  BY <1>7, <2>1, <2>3
    <2> QED  BY <2>2, <2>3
  <1>10. \A t \in Slots : Taking(t)' => t # s /\ Taking(t) /\ req'[t] = req[t] /\ Own(t)' = Own(t)
    <2> TAKE t \in Slots
    <2>1. CASE t = s  BY <1>6, <2>1 DEF Taking, At
    <2>2. CASE t # s  BY <1>6, <2>2 DEF Taking, At, Own, StoreOf
    <2> QED  BY <2>1, <2>2
  <1>11. \A t \in Slots : Taking(t) => Own(t) \in Stores
    <2> TAKE t \in Slots
    <2>1. Taking(t) => Active(t)  BY AtIsActive DEF Taking, Places
    <2> QED  BY <1>0, <2>1, OwnIsAStore
  <1>12. ASSUME NEW t \in Slots, Taking(t)'
         PROVE  /\ \A m \in rows'[Own(t)].members : m.why # req[t].arg
                /\ \A u \in Slots : Taking(u)' /\ Own(u)' = Own(t) /\ req'[u].arg = req[t].arg => t = u
    <2>1. t # s /\ Taking(t) /\ Own(t) \in Stores  BY <1>10, <1>11, <1>12
    <2>2. \A m \in rows[Own(t)].members : m.why # req[t].arg  BY <2>1 DEF JoinsLone
    <2>3. Own(t) = h => req[t].arg # n  BY <1>2, <1>3, <2>1 DEF JoinsLone
    <2>4. \A m \in rows'[Own(t)].members : m.why # req[t].arg
      <3>1. CASE Own(t) = h  BY <1>4, <1>7, <2>2, <2>3, <3>1
      <3>2. CASE Own(t) # h  BY <1>7, <2>1, <2>2, <3>2
      <3> QED  BY <3>1, <3>2
    <2>5. \A u \in Slots : Taking(u)' /\ Own(u)' = Own(t) /\ req'[u].arg = req[t].arg => t = u
      BY <1>10, <2>1 DEF JoinsLone
    <2> QED  BY <2>4, <2>5
  <1>13. \A t \in Slots : Taking(t)' =>
              /\ \A m \in rows'[Own(t)'].members : m.why # req'[t].arg
              /\ \A u \in Slots : Taking(u)' /\ Own(u)' = Own(t)' /\ req'[u].arg = req'[t].arg => t = u
    <2> TAKE t \in Slots
    <2> SUFFICES ASSUME Taking(t)'
                 PROVE  /\ \A m \in rows'[Own(t)'].members : m.why # req'[t].arg
                        /\ \A u \in Slots : Taking(u)' /\ Own(u)' = Own(t)' /\ req'[u].arg = req'[t].arg => t = u
      OBVIOUS
    <2>1. Own(t)' = Own(t) /\ req'[t] = req[t]  BY <1>10
    <2> QED  BY <1>12, <2>1
  <1> QED  BY <1>9, <1>13 DEF JoinsLone

LEMMA JoinsAccepts ==
    ASSUME AskedInv, TypedInv, UsedInv, JoinsLone, env' = env, NEW s \in Slots,
           Accept(s) \/ AcceptMark(s) \/ AcceptLook(s) \/ AcceptJoin(s)
    PROVE  JoinsLone'
  <1>0. ShapesOK  BY DEF AskedInv
  <1>1. Active(s)  BY AtIsActive DEF Accept, AcceptMark, AcceptLook, AcceptJoin, Places
  <1>2. Own(s) \in Stores /\ Of(s) = rows[Own(s)]  BY <1>0, <1>1, OwnIsAStore DEF Of, Own
  <1>3. CASE env.db  BY <1>3 DEF JoinsLone
  <1>4. CASE ~env.db
    <2>1. ~AcceptMark(s) /\ ~AcceptJoin(s)  BY <1>1, <1>4 DEF AcceptMark, AcceptJoin, At, UsedInv, Way, Aiming
    <2>2. CASE Accept(s)  BY <2>2, JoinsAccept
    <2>3. CASE AcceptLook(s)
      <3>1. CASE Joined(s)  BY <1>4, <2>3, <3>1, JoinsJoined DEF AcceptLook, Taking
      <3>2. CASE Settled(Own(s)) /\ Became(s, "answered", "already", req[s].seen)
        <4>1. PICK me : me = Of(s).members /\ \A m \in me : m \in Of(s).members \/ m.why = 0  OBVIOUS
        <4>2. Turned(Own(s), Of(s).sessions, Of(s).orgs, me, Of(s).invites, Of(s).codes) /\ "answered" # "look"
          BY <1>2, <3>2, <4>1 DEF Settled
        <4> QED  BY <1>1, <3>2, <4>1, <4>2, JoinsAside
      <3> QED  BY <1>0, <1>4, <2>3, <3>1, <3>2, AcceptLookIs
    <2> QED  BY <2>1, <2>2, <2>3
  <1> QED  BY <1>3, <1>4

LEMMA JoinsIdle ==
    ASSUME AskedInv, JoinsLone, env' = env, \A h \in Stores : rows'[h].members = rows[h].members,
           \A t \in Slots : req'[t] = req[t] \/ ~Taking(t)'
    PROVE  JoinsLone'
  BY JoinsKept

LEMMA JoinsArrive ==
    ASSUME AskedInv, JoinsLone, NEW s \in Slots, NEW kind, NEW c, NEW arg, Arrive(s, kind, c, arg)
    PROVE  JoinsLone'
  <1>0. ShapesOK  BY DEF AskedInv
  <1>1. env' = env /\ rows' = rows /\ \A t \in Slots : t # s => req'[t] = req[t]  BY <1>0, ArriveIs
  <1>2. PICK i \in Instances : Came(s, kind, i, getUser(env, c), arg)  BY <1>0, ArriveIs
  <1>3. ~Taking(s)'  BY <1>2, FieldsOf DEF Came, Taking, At
  <1> QED  BY <1>1, <1>3, JoinsIdle

LEMMA JoinsLapses ==
    ASSUME AskedInv, JoinsLone, NEW h \in Stores, InviteLapses(h) \/ CodeLapses(h)
    PROVE  JoinsLone'
  <1>0. ShapesOK  BY DEF AskedInv
  <1>1. env' = env /\ req' = req  BY DEF InviteLapses, CodeLapses
  <1>2. PICK in, co : Turned(h, rows[h].sessions, rows[h].orgs, rows[h].members, in, co)
    BY <1>0, InviteLapsesIs, CodeLapsesIs
  <1>3. \A g \in Stores : rows'[g].members = rows[g].members
    <2> TAKE g \in Stores
    <2>1. CASE g = h  BY <1>2, <2>1 DEF Turned
    <2>2. CASE g # h  BY <1>2, <2>2 DEF Turned
    <2> QED  BY <2>1, <2>2
  <1> QED  BY <1>1, <1>3, JoinsIdle

LEMMA JoinsInit == Init => JoinsLone
  BY DEF Init, JoinsLone, NoRows, Taking, At, Quiet

LEMMA JoinsNext == AskedInv /\ TypedInv /\ UsedInv /\ JoinsLone /\ [Next]_vars => JoinsLone'
<1> SUFFICES ASSUME AskedInv, TypedInv, UsedInv, JoinsLone, [Next]_vars PROVE JoinsLone'
  OBVIOUS
<1>0. env' = env  BY EnvStays
<1>1. CASE UNCHANGED vars  BY <1>1, JoinsIdle DEF vars
<1>2. ASSUME NEW s \in Slots, SessionSteps(s) PROVE JoinsLone'
  <2>1. ASSUME NEW c, NEW arg, NEW kind, Arrive(s, kind, c, arg) PROVE JoinsLone'  BY <2>1, JoinsArrive
  <2> QED  BY <1>0, <1>2, <2>1, JoinsCalm DEF SessionSteps
<1>3. ASSUME NEW s \in Slots, OrgSteps(s) PROVE JoinsLone'
  <2>1. ASSUME NEW c, NEW arg, NEW kind, Arrive(s, kind, c, arg) PROVE JoinsLone'  BY <2>1, JoinsArrive
  <2>2. CASE \E h \in Stores : InviteLapses(h)  BY <2>2, JoinsLapses
  <2>3. CASE CreateOrg(s) \/ AddOwner(s) \/ AddUser(s) \/ Invite(s) \/ InviteRow(s) \/ Look(s) \/ AcceptExpire(s)
    BY <1>0, <2>3, JoinsCalm
  <2>4. CASE Accept(s) \/ AcceptMark(s) \/ AcceptLook(s) \/ AcceptJoin(s)  BY <1>0, <2>4, JoinsAccepts
  <2> QED  BY <1>3, <2>1, <2>2, <2>3, <2>4 DEF OrgSteps
<1>4. ASSUME NEW s \in Slots, CodeSteps(s) PROVE JoinsLone'
  <2>1. ASSUME NEW c, NEW arg, NEW kind, Arrive(s, kind, c, arg) PROVE JoinsLone'  BY <2>1, JoinsArrive
  <2>2. CASE \E i \in Instances, d \in Identifiers : WindowLapses(i, d)  BY <2>2, JoinsIdle DEF WindowLapses
  <2>3. CASE Issue(s) \/ Verify(s) \/ VerifyQuery(s) \/ VerifyUse(s)  BY <1>0, <2>3, JoinsCalm, JoinsCodes
  <2>4. CASE \E h \in Stores : CodeLapses(h)  BY <2>4, JoinsLapses
  <2> QED  BY <1>4, <2>1, <2>2, <2>3, <2>4 DEF CodeSteps
<1>5. ASSUME NEW s \in Slots, Return(s) PROVE JoinsLone'
  <2>1. rows' = rows /\ req'[s] = Quiet /\ \A t \in Slots : t # s => req'[t] = req[t]
    BY <1>5 DEF Return, AskedInv, ShapesOK
  <2>2. ~Taking(s)'  BY <2>1 DEF Taking, At, Quiet
  <2> QED  BY <1>0, <2>1, <2>2, JoinsIdle
<1>6. ASSUME NEW s \in Slots, QueryFails(s) PROVE JoinsLone'  BY <1>0, <1>6, JoinsCalm
<1> QED
  BY <1>1, <1>2, <1>3, <1>4, <1>5, <1>6 DEF Next

-----------------------------------------------------------------------------
(* What was used up once, all in all *)

LEMMA ThingsAreUsedOnce == UsedInv /\ CodesLone /\ JoinsLone => UsedOnce
<1> SUFFICES ASSUME UsedInv, CodesLone, JoinsLone PROVE UsedOnce
  OBVIOUS
<1>1. ASSUME NEW s \in Slots, req[s].pc = "answered"
      PROVE  /\ req[s].result = "used" /\ req[s].kind # "logout" => req[s].seen \notin req[s].before
             /\ req[s].result = "found" /\ req[s].kind = "lookup" =>
                   <<"session", StoreOf(req[s].at), req[s].arg>> \notin req[s].before
  <2>1. Way(s)  BY <1>1 DEF UsedInv, Active
  <2> QED  BY <1>1, <2>1 DEF Way, Used, FoundFresh, Own
<1>2. ASSUME ~env.db PROVE \A n \in Numbers : past.uses[n] <= 1  BY <1>2 DEF CodesLone
<1>3. ASSUME ~env.db PROVE \A h \in Stores : \A x, y \in rows[h].members : x.why = y.why /\ x.why # 0 => x = y
  BY <1>3 DEF JoinsLone
<1> QED  BY <1>1, <1>2, <1>3 DEF UsedOnce

-----------------------------------------------------------------------------
(* Guesses are rationed *)

\* Requests that are past the check of their identifier's misses; and those that have a verdict to come.
Waiting(i, d) ==
    {s \in Slots : req[s].kind = "verify" /\ req[s].pc \in {"query", "use"} /\ req[s].at = i /\ req[s].arg.ident = d}
Trying(i, d) ==
    {s \in Slots : /\ req[s].kind = "verify" /\ req[s].pc \in {"start", "query", "use"}
                   /\ req[s].at = i /\ req[s].arg.ident = d}
Spare == IF env.db THEN Cardinality(Slots) - 1 ELSE 0
GuessInv ==
    /\ attempts \in [Instances -> [Identifiers -> Nat]] /\ past.heard = attempts
    /\ \A i \in Instances, d \in Identifiers :
          /\ attempts[i][d] + Cardinality(Waiting(i, d)) <= MaxAttempts + Spare
          /\ attempts[i][d] + Cardinality(Trying(i, d)) <= count

LEMMA FewerOf ==
    ASSUME NEW A, A \subseteq Slots, NEW B, B \subseteq A
    PROVE  Cardinality(A) \in Nat /\ Cardinality(B) \in Nat /\ Cardinality(B) <= Cardinality(A)
  <1>1. IsFiniteSet(A)  BY AccountsConstants, FS_Subset
  <1> QED  BY <1>1, FS_Subset, FS_CardinalityType

LEMMA OneFewer ==
    ASSUME NEW A, A \subseteq Slots, NEW s \in A, NEW B, B \subseteq A \ {s}
    PROVE  Cardinality(B) \in Nat /\ Cardinality(A) \in Nat /\ Cardinality(B) + 1 <= Cardinality(A)
  <1>1. IsFiniteSet(A)  BY AccountsConstants, FS_Subset
  <1>2. Cardinality(A \ {s}) = Cardinality(A) - 1  BY <1>1, FS_RemoveElement
  <1>3. Cardinality(B) \in Nat /\ Cardinality(A \ {s}) \in Nat /\ Cardinality(B) <= Cardinality(A \ {s})
    BY FewerOf
  <1>4. Cardinality(A) \in Nat  BY <1>1, FS_CardinalityType
  <1> QED  BY <1>2, <1>3, <1>4

LEMMA OneMore ==
    ASSUME NEW A, A \subseteq Slots, NEW s \in Slots, NEW B, B \subseteq A \cup {s}
    PROVE  Cardinality(B) \in Nat /\ Cardinality(A) \in Nat /\ Cardinality(B) <= Cardinality(A) + 1
  <1>1. IsFiniteSet(A)  BY AccountsConstants, FS_Subset
  <1>2. Cardinality(A \cup {s}) \in {Cardinality(A), Cardinality(A) + 1}  BY <1>1, FS_AddElement
  <1>3. Cardinality(B) \in Nat /\ Cardinality(A \cup {s}) \in Nat /\ Cardinality(B) <= Cardinality(A \cup {s})
    BY FewerOf
  <1>4. Cardinality(A) \in Nat  BY <1>1, FS_CardinalityType
  <1> QED  BY <1>2, <1>3, <1>4

LEMMA WaitersAreTrying ==
    ASSUME NEW i, NEW d
    PROVE  /\ Waiting(i, d) \subseteq Trying(i, d) /\ Trying(i, d) \subseteq Slots
           /\ UsedInv /\ ~env.db => Waiting(i, d) = {}
  <1>1. ASSUME NEW s \in Slots, UsedInv, req[s].pc \in {"query", "use"} PROVE env.db
    <2>1. Way(s)  BY <1>1 DEF UsedInv, Active
    <2> QED  BY <1>1, <2>1 DEF Way, Aiming, Using
  <1> QED  BY <1>1 DEF Waiting, Trying

LEMMA RecountedIs ==
    ASSUME NEW f \in [Instances -> [Identifiers -> Nat]], NEW i \in Instances, NEW d \in Identifiers, NEW v \in Nat,
           NEW g, g = [f EXCEPT ![i][d] = v]
    PROVE  /\ g \in [Instances -> [Identifiers -> Nat]] /\ g[i][d] = v
           /\ \A j \in Instances, e \in Identifiers : j # i \/ e # d => g[j][e] = f[j][e]
  OBVIOUS

\* Nothing is counted, and nobody gets past the check.
LEMMA GuessesKept ==
    ASSUME GuessInv, UNCHANGED <<env, attempts>>, past'.heard = past.heard, count \in Nat, count' \in Nat, count <= count',
           \A i, d : Waiting(i, d)' \subseteq Waiting(i, d) /\ Trying(i, d)' \subseteq Trying(i, d)
    PROVE  GuessInv'
  <1>1. ASSUME NEW i \in Instances, NEW d \in Identifiers
        PROVE  /\ attempts[i][d] + Cardinality(Waiting(i, d)') <= MaxAttempts + Spare
               /\ attempts[i][d] + Cardinality(Trying(i, d)') <= count'
    <2>1. PICK w, W, y, Y : w = Waiting(i, d)' /\ W = Waiting(i, d) /\ y = Trying(i, d)' /\ Y = Trying(i, d)  OBVIOUS
    <2>2. W \subseteq Slots /\ Y \subseteq Slots /\ w \subseteq W /\ y \subseteq Y  BY <2>1, WaitersAreTrying
    <2>3. /\ Cardinality(w) \in Nat /\ Cardinality(W) \in Nat /\ Cardinality(w) <= Cardinality(W)
          /\ Cardinality(y) \in Nat /\ Cardinality(Y) \in Nat /\ Cardinality(y) <= Cardinality(Y)
      BY <2>2, FewerOf
    <2>4. Spare \in Int
      <3>1. Cardinality(Slots) \in Nat  BY AccountsConstants, FS_CardinalityType
      <3> QED  BY <3>1 DEF Spare
    <2>5. /\ attempts[i][d] + Cardinality(W) <= MaxAttempts + Spare /\ attempts[i][d] + Cardinality(Y) <= count
          /\ attempts[i][d] \in Nat
      BY <2>1 DEF GuessInv
    <2>6. /\ attempts[i][d] + Cardinality(w) <= MaxAttempts + Spare /\ attempts[i][d] + Cardinality(y) <= count'
      BY <2>3, <2>4, <2>5, AccountsConstants
    <2> QED  BY <2>1, <2>6
  <1>2. Spare' = Spare  BY DEF Spare
  <1> QED  BY <1>1, <1>2 DEF GuessInv

\* A request that is not, or no longer, after a verdict.
LEMMA OutOfIt ==
    ASSUME NEW s \in Slots, \A t \in Slots : t # s => req'[t] = req[t],
           req'[s].kind # "verify" \/ req'[s].pc \notin {"start", "query", "use"}
    PROVE  \A i, d : Waiting(i, d)' \subseteq Waiting(i, d) \ {s} /\ Trying(i, d)' \subseteq Trying(i, d) \ {s}
  BY DEF Waiting, Trying

LEMMA SpareIs == Spare \in Int /\ (~env.db => Spare = 0) /\ (env.db => Spare = Cardinality(Slots) - 1)
                 /\ Cardinality(Slots) \in Nat
  BY AccountsConstants, FS_CardinalityType DEF Spare

\* The count of an identifier at an instance becomes v.
LEMMA GuessRecounted ==
    ASSUME GuessInv, env' = env, count' = count, count \in Nat,
           NEW i \in Instances, NEW d \in Identifiers, NEW v \in Nat,
           attempts' = [attempts EXCEPT ![i][d] = v], past'.heard = attempts',
           \A j, e : Waiting(j, e)' \subseteq Waiting(j, e) /\ Trying(j, e)' \subseteq Trying(j, e),
           v + Cardinality(Waiting(i, d)') <= MaxAttempts + Spare, v + Cardinality(Trying(i, d)') <= count
    PROVE  GuessInv'
  <1>1. /\ attempts' \in [Instances -> [Identifiers -> Nat]] /\ attempts'[i][d] = v
        /\ \A j \in Instances, e \in Identifiers : j # i \/ e # d => attempts'[j][e] = attempts[j][e]
    BY RecountedIs DEF GuessInv
  <1>2. ASSUME NEW j \in Instances, NEW e \in Identifiers
        PROVE  /\ attempts'[j][e] + Cardinality(Waiting(j, e)') <= MaxAttempts + Spare
               /\ attempts'[j][e] + Cardinality(Trying(j, e)') <= count
    <2>1. CASE j = i /\ e = d  BY <1>1, <2>1
    <2>2. CASE j # i \/ e # d
      <3>1. PICK w, W, y, Y : w = Waiting(j, e)' /\ W = Waiting(j, e) /\ y = Trying(j, e)' /\ Y = Trying(j, e)  OBVIOUS
      <3>2. W \subseteq Slots /\ Y \subseteq Slots /\ w \subseteq W /\ y \subseteq Y  BY <3>1, WaitersAreTrying
      <3>3. /\ Cardinality(w) \in Nat /\ Cardinality(W) \in Nat /\ Cardinality(w) <= Cardinality(W)
            /\ Cardinality(y) \in Nat /\ Cardinality(Y) \in Nat /\ Cardinality(y) <= Cardinality(Y)
        BY <3>2, FewerOf
      <3>4. /\ attempts[j][e] + Cardinality(W) <= MaxAttempts + Spare /\ attempts[j][e] + Cardinality(Y) <= count
            /\ attempts[j][e] \in Nat /\ attempts'[j][e] = attempts[j][e]
        BY <1>1, <2>2, <3>1 DEF GuessInv
      <3>5. /\ attempts'[j][e] + Cardinality(w) <= MaxAttempts + Spare /\ attempts'[j][e] + Cardinality(y) <= count
        BY <3>3, <3>4, SpareIs, AccountsConstants
      <3> QED  BY <3>1, <3>5
    <2> QED  BY <2>1, <2>2
  <1>3. Spare' = Spare  BY DEF Spare
  <1> QED  BY <1>1, <1>2, <1>3 DEF GuessInv

LEMMA GuessWrong ==
    ASSUME ShapesOK, TypedInv, UsedInv, GuessInv, env' = env, count' = count, NEW s \in Slots, Active(s),
           req[s].kind = "verify", Wrong(s), Became(s, "answered", "wrong", req[s].seen),
           req[s].pc = "query" \/ (req[s].pc = "start" /\ ~env.db /\ ~LockedOut(req[s].at, req[s].arg.ident))
    PROVE  GuessInv'
  <1>1. PICK i \in Instances, d \in Identifiers : i = req[s].at /\ d = req[s].arg.ident
    BY OwnIsAStore DEF TypedInv, Asks
  <1>2. PICK v \in Nat : v = attempts[i][d] + 1  BY DEF GuessInv
  <1>3. attempts' = [attempts EXCEPT ![i][d] = v] /\ past'.heard = attempts'
    <2>1. attempts' = [attempts EXCEPT ![i][d] = v]  BY <1>1, <1>2 DEF Wrong, Missed
    <2>2. past'.heard = [past.heard EXCEPT ![i][d] = @ + 1]  BY <1>1, WrongPast DEF UsedInv
    <2> QED  BY <1>2, <2>1, <2>2 DEF GuessInv
  <1>4. \A j, e : Waiting(j, e)' \subseteq Waiting(j, e) \ {s} /\ Trying(j, e)' \subseteq Trying(j, e) \ {s}
    <2>1. req'[s].pc = "answered" /\ \A t \in Slots : t # s => req'[t] = req[t]  BY FieldsOf DEF Became
    <2> QED  BY <2>1, OutOfIt
  <1>5. PICK w, W, y, Y : w = Waiting(i, d)' /\ W = Waiting(i, d) /\ y = Trying(i, d)' /\ Y = Trying(i, d)  OBVIOUS
  <1>6. W \subseteq Slots /\ Y \subseteq Slots /\ w \subseteq W \ {s} /\ y \subseteq Y \ {s} /\ s \in Y
    BY <1>1, <1>4, <1>5, WaitersAreTrying DEF Trying
  <1>7. Cardinality(y) \in Nat /\ Cardinality(Y) \in Nat /\ Cardinality(y) + 1 <= Cardinality(Y)
    BY <1>6, OneFewer
  <1>8. /\ attempts[i][d] + Cardinality(W) <= MaxAttempts + Spare /\ attempts[i][d] + Cardinality(Y) <= count
        /\ attempts[i][d] \in Nat /\ count \in Nat
    BY <1>5 DEF GuessInv, ShapesOK
  <1>9. v + Cardinality(w) <= MaxAttempts + Spare
    <2>1. CASE req[s].pc = "query"
      <3>1. s \in W  BY <1>1, <1>5, <2>1 DEF Waiting
      <3>2. Cardinality(w) \in Nat /\ Cardinality(W) \in Nat /\ Cardinality(w) + 1 <= Cardinality(W)
        BY <1>6, <3>1, OneFewer
      <3> QED  BY <1>2, <1>8, <3>2, SpareIs, AccountsConstants
    <2>2. CASE ~env.db /\ ~LockedOut(req[s].at, req[s].arg.ident)
      <3>1. w = {}  BY <1>5, <1>6, <2>2, WaitersAreTrying
      <3>2. Cardinality(w) = 0  BY <3>1, FS_EmptySet
      <3>3. attempts[i][d] < MaxAttempts  BY <1>1, <1>8, <2>2, AccountsConstants DEF LockedOut
      <3> QED  BY <1>2, <1>8, <2>2, <3>2, <3>3, SpareIs, AccountsConstants
    <2> QED  BY <2>1, <2>2
  <1>10. v + Cardinality(y) <= count  BY <1>2, <1>7, <1>8
  <1>11. \A j, e : Waiting(j, e)' \subseteq Waiting(j, e) /\ Trying(j, e)' \subseteq Trying(j, e)  BY <1>4
  <1> QED  BY <1>3, <1>5, <1>8, <1>9, <1>10, <1>11, GuessRecounted

\* A count starts again at zero.
LEMMA GuessReset ==
    ASSUME ShapesOK, UsedInv, GuessInv, env' = env, count' = count, NEW i \in Instances, NEW d \in Identifiers,
           attempts' = [attempts EXCEPT ![i][d] = 0], past'.heard = [past.heard EXCEPT ![i][d] = 0],
           \A j, e : Waiting(j, e)' \subseteq Waiting(j, e) /\ Trying(j, e)' \subseteq Trying(j, e)
    PROVE  GuessInv'
  <1>1. past'.heard = attempts'  BY DEF GuessInv
  <1>2. PICK w, W, y, Y : w = Waiting(i, d)' /\ W = Waiting(i, d) /\ y = Trying(i, d)' /\ Y = Trying(i, d)  OBVIOUS
  <1>3. W \subseteq Slots /\ Y \subseteq Slots /\ w \subseteq W /\ y \subseteq Y /\ w \subseteq Slots
    BY <1>2, WaitersAreTrying
  <1>4. /\ Cardinality(y) \in Nat /\ Cardinality(Y) \in Nat /\ Cardinality(y) <= Cardinality(Y)
        /\ Cardinality(w) \in Nat /\ Cardinality(w) <= Cardinality(Slots)
    BY <1>3, FewerOf
  <1>5. attempts[i][d] + Cardinality(Y) <= count /\ attempts[i][d] \in Nat /\ count \in Nat
    BY <1>2 DEF GuessInv, ShapesOK
  <1>6. 0 + Cardinality(w) <= MaxAttempts + Spare
    <2>1. CASE env.db  BY <1>4, <2>1, SpareIs, AccountsConstants
    <2>2. CASE ~env.db
      <3>1. w = {}  BY <1>2, <1>3, <2>2, WaitersAreTrying
      <3> QED  BY <2>2, <3>1, FS_EmptySet, SpareIs, AccountsConstants
    <2> QED  BY <2>1, <2>2
  <1>7. 0 + Cardinality(y) <= count  BY <1>4, <1>5
  <1>8. 0 \in Nat  OBVIOUS
  <1> QED  BY <1>1, <1>2, <1>5, <1>6, <1>7, <1>8, GuessRecounted

LEMMA GuessRight ==
    ASSUME ShapesOK, TypedInv, UsedInv, GuessInv, env' = env, count' = count, NEW s \in Slots, Active(s),
           req[s].kind = "verify", NEW n, Right(s, n)
    PROVE  GuessInv'
  <1>1. PICK i \in Instances, d \in Identifiers : i = req[s].at /\ d = req[s].arg.ident
    BY OwnIsAStore DEF TypedInv, Asks
  <1>2. attempts' = [attempts EXCEPT ![i][d] = 0] /\ past'.heard = [past.heard EXCEPT ![i][d] = 0]
    BY <1>1, RightPast DEF Right, UsedInv
  <1>3. Became(s, "answered", "used", <<"code", Own(s), n>>)  BY RightIs
  <1>4. req'[s].pc = "answered" /\ \A t \in Slots : t # s => req'[t] = req[t]  BY <1>3, FieldsOf DEF Became
  <1>5. \A j, e : Waiting(j, e)' \subseteq Waiting(j, e) /\ Trying(j, e)' \subseteq Trying(j, e)  BY <1>4, OutOfIt
  <1> QED  BY <1>2, <1>5, GuessReset

\* One more has a verdict to come, and one more request has arrived.
LEMMA GuessArrive ==
    ASSUME ShapesOK, GuessInv, NEW s \in Slots, NEW kind, NEW c, NEW arg, Arrive(s, kind, c, arg)
    PROVE  GuessInv'
  <1>1. /\ count' = count + 1 /\ UNCHANGED <<env, attempts, past>> /\ count \in Nat
        /\ \A t \in Slots : t # s => req'[t] = req[t]
    BY ArriveIs DEF ShapesOK
  <1>2. PICK i \in Instances : Came(s, kind, i, getUser(env, c), arg)  BY ArriveIs
  <1>3. req'[s].pc = "start"  BY <1>2, FieldsOf DEF Came
  <1>4. \A j, e : Waiting(j, e)' \subseteq Waiting(j, e) /\ Trying(j, e)' \subseteq Trying(j, e) \cup {s}
    BY <1>1, <1>3 DEF Waiting, Trying
  <1>5. ASSUME NEW j \in Instances, NEW e \in Identifiers
        PROVE  /\ attempts[j][e] + Cardinality(Waiting(j, e)') <= MaxAttempts + Spare
               /\ attempts[j][e] + Cardinality(Trying(j, e)') <= count'
    <2>1. PICK w, W, y, Y : w = Waiting(j, e)' /\ W = Waiting(j, e) /\ y = Trying(j, e)' /\ Y = Trying(j, e)  OBVIOUS
    <2>2. W \subseteq Slots /\ Y \subseteq Slots /\ w \subseteq W /\ y \subseteq Y \cup {s}
      BY <1>4, <2>1, WaitersAreTrying
    <2>3. Cardinality(w) \in Nat /\ Cardinality(W) \in Nat /\ Cardinality(w) <= Cardinality(W)  BY <2>2, FewerOf
    <2>4. Cardinality(y) \in Nat /\ Cardinality(Y) \in Nat /\ Cardinality(y) <= Cardinality(Y) + 1  BY <2>2, OneMore
    <2>5. /\ attempts[j][e] + Cardinality(W) <= MaxAttempts + Spare /\ attempts[j][e] + Cardinality(Y) <= count
          /\ attempts[j][e] \in Nat
      BY <2>1 DEF GuessInv
    <2>6. attempts[j][e] + Cardinality(w) <= MaxAttempts + Spare /\ attempts[j][e] + Cardinality(y) <= count'
      BY <1>1, <2>3, <2>4, <2>5, SpareIs, AccountsConstants
    <2> QED  BY <2>1, <2>6
  <1>6. Spare' = Spare  BY <1>1 DEF Spare
  <1> QED  BY <1>1, <1>5, <1>6 DEF GuessInv

\* One gets past the check.
LEMMA GuessPasses ==
    ASSUME ShapesOK, TypedInv, GuessInv, UNCHANGED <<env, count, attempts, past>>, NEW s \in Slots, Active(s),
           At(s, "verify", "start"), env.db, ~LockedOut(req[s].at, req[s].arg.ident),
           Became(s, "query", req[s].result, req[s].seen)
    PROVE  GuessInv'
  <1>1. PICK i \in Instances, d \in Identifiers : i = req[s].at /\ d = req[s].arg.ident
    BY OwnIsAStore DEF TypedInv, Asks, At
  <1>2. /\ req'[s].kind = req[s].kind /\ req'[s].pc = "query" /\ req'[s].at = i /\ req'[s].arg.ident = d
        /\ \A t \in Slots : t # s => req'[t] = req[t]
    BY <1>1, FieldsOf DEF Became
  <1>3. /\ \A j, e : Trying(j, e)' \subseteq Trying(j, e)
        /\ \A j, e : j # i \/ e # d => Waiting(j, e)' \subseteq Waiting(j, e)
        /\ Waiting(i, d)' \subseteq Slots
    BY <1>1, <1>2 DEF Waiting, Trying, At
  <1>4. ASSUME NEW j \in Instances, NEW e \in Identifiers
        PROVE  /\ attempts[j][e] + Cardinality(Waiting(j, e)') <= MaxAttempts + Spare
               /\ attempts[j][e] + Cardinality(Trying(j, e)') <= count
    <2>1. PICK w, W, y, Y : w = Waiting(j, e)' /\ W = Waiting(j, e) /\ y = Trying(j, e)' /\ Y = Trying(j, e)  OBVIOUS
    <2>2. W \subseteq Slots /\ Y \subseteq Slots /\ y \subseteq Y /\ (j # i \/ e # d => w \subseteq W)
          /\ (j = i /\ e = d => w \subseteq Slots)
      BY <1>3, <2>1, WaitersAreTrying
    <2>3. /\ attempts[j][e] + Cardinality(W) <= MaxAttempts + Spare /\ attempts[j][e] + Cardinality(Y) <= count
          /\ attempts[j][e] \in Nat /\ count \in Nat
      BY <2>1 DEF GuessInv, ShapesOK
    <2>4. Cardinality(y) \in Nat /\ Cardinality(Y) \in Nat /\ Cardinality(y) <= Cardinality(Y)  BY <2>2, FewerOf
    <2>5. attempts[j][e] + Cardinality(w) <= MaxAttempts + Spare
      <3>1. CASE j = i /\ e = d
        <4>1. Cardinality(w) \in Nat /\ Cardinality(w) <= Cardinality(Slots)  BY <2>2, <3>1, FewerOf
        <4>2. attempts[j][e] < MaxAttempts  BY <1>1, <2>3, <3>1, AccountsConstants DEF LockedOut
        <4> QED  BY <2>3, <4>1, <4>2, SpareIs, AccountsConstants
      <3>2. CASE j # i \/ e # d
        <4>1. Cardinality(w) \in Nat /\ Cardinality(W) \in Nat /\ Cardinality(w) <= Cardinality(W)  BY <2>2, <3>2, FewerOf
        <4> QED  BY <2>3, <4>1, SpareIs, AccountsConstants
      <3> QED  BY <3>1, <3>2
    <2>6. attempts[j][e] + Cardinality(y) <= count  BY <2>3, <2>4
    <2> QED  BY <2>1, <2>5, <2>6
  <1>5. Spare' = Spare  BY DEF Spare
  <1> QED  BY <1>4, <1>5 DEF GuessInv

LEMMA GuessOut ==
    ASSUME ShapesOK, GuessInv, UNCHANGED <<env, attempts>>, past'.heard = past.heard, count' = count, NEW s \in Slots,
           \A t \in Slots : t # s => req'[t] = req[t],
           req'[s].kind # "verify" \/ req'[s].pc \notin {"start", "query", "use"}
    PROVE  GuessInv'
  <1>1. \A i, d : Waiting(i, d)' \subseteq Waiting(i, d) /\ Trying(i, d)' \subseteq Trying(i, d)  BY OutOfIt
  <1> QED  BY <1>1, GuessesKept DEF ShapesOK

LEMMA GuessApart ==
    ASSUME ShapesOK, GuessInv, NEW s \in Slots, Apart(s)
    PROVE  GuessInv'
  BY GuessOut DEF Apart

LEMMA GuessIssue ==
    ASSUME ShapesOK, GuessInv, NEW s \in Slots, Issue(s)
    PROVE  GuessInv'
  <1>1. Became(s, "answered", "ok", req[s].seen)  BY IssueIs
  <1>2. req'[s].pc = "answered" /\ \A t \in Slots : t # s => req'[t] = req[t]  BY <1>1, FieldsOf DEF Became
  <1> QED  BY <1>2, GuessOut DEF Issue

LEMMA GuessReturn ==
    ASSUME ShapesOK, UsedInv, GuessInv, NEW s \in Slots, Return(s)
    PROVE  GuessInv'
  <1>1. req'[s] = Quiet /\ \A t \in Slots : t # s => req'[t] = req[t]  BY DEF Return, ShapesOK
  <1>2. past'.heard = past.heard  BY DEF Return, UsedInv, PastOK
  <1> QED  BY <1>1, <1>2, GuessOut DEF Return, Quiet

LEMMA GuessIdle ==
    ASSUME ShapesOK, GuessInv, UNCHANGED <<env, attempts, req, count>>, past'.heard = past.heard
    PROVE  GuessInv'
  <1>1. \A i, d : Waiting(i, d)' \subseteq Waiting(i, d) /\ Trying(i, d)' \subseteq Trying(i, d)  BY DEF Waiting, Trying
  <1> QED  BY <1>1, GuessesKept DEF ShapesOK

LEMMA GuessWindow ==
    ASSUME ShapesOK, UsedInv, GuessInv, NEW i \in Instances, NEW d \in Identifiers, WindowLapses(i, d)
    PROVE  GuessInv'
  <1>1. \A j, e : Waiting(j, e)' \subseteq Waiting(j, e) /\ Trying(j, e)' \subseteq Trying(j, e)
    BY DEF Waiting, Trying, WindowLapses
  <1>2. past'.heard = [past.heard EXCEPT ![i][d] = 0]  BY DEF WindowLapses, UsedInv, PastOK
  <1> QED  BY <1>1, <1>2, GuessReset DEF WindowLapses

LEMMA GuessVerify ==
    ASSUME ShapesOK, TypedInv, UsedInv, GuessInv, NEW s \in Slots, Verify(s) \/ VerifyQuery(s) \/ VerifyUse(s)
    PROVE  GuessInv'
  <1>1. Active(s) /\ env' = env /\ count' = count /\ req[s].kind = "verify"
    BY AtIsActive DEF Verify, VerifyQuery, VerifyUse, Places, At
  <1>2. ASSUME Judge(s), req[s].pc = "query" \/ (req[s].pc = "start" /\ ~env.db /\ ~LockedOut(req[s].at, req[s].arg.ident))
        PROVE  GuessInv'
    <2>1. CASE Wrong(s) /\ Became(s, "answered", "wrong", req[s].seen)  BY <1>1, <1>2, <2>1, GuessWrong
    <2>2. ASSUME env.db, Became(s, "use", req[s].result, <<"code", "db", Pick(s).no>>), UNCHANGED <<attempts, past>>
          PROVE  GuessInv'
      <3>1. /\ req'[s].kind = req[s].kind /\ req'[s].pc = "use" /\ req'[s].at = req[s].at /\ req'[s].arg = req[s].arg
            /\ \A t \in Slots : t # s => req'[t] = req[t]
        BY <2>2, FieldsOf DEF Became
      <3>2. \A i, d : Waiting(i, d)' \subseteq Waiting(i, d) /\ Trying(i, d)' \subseteq Trying(i, d)
        BY <1>2, <2>2, <3>1 DEF Waiting, Trying
      <3> QED  BY <1>1, <2>2, <3>2, GuessesKept DEF ShapesOK
    <2>3. CASE Right(s, Pick(s).no)  BY <1>1, <2>3, GuessRight
    <2> QED  BY <1>1, <1>2, <2>1, <2>2, <2>3, JudgeIs
  <1>a. CASE Verify(s)
    <2>1. At(s, "verify", "start")  BY <1>a DEF Verify
    <2>2. ASSUME UNCHANGED <<attempts, past>>, Became(s, "answered", "429", req[s].seen) PROVE GuessInv'
      <3>1. req'[s].pc = "answered" /\ \A t \in Slots : t # s => req'[t] = req[t]  BY <2>2, FieldsOf DEF Became
      <3> QED  BY <1>1, <2>2, <3>1, GuessOut
    <2>3. ASSUME UNCHANGED <<attempts, past>>, env.db, ~LockedOut(req[s].at, req[s].arg.ident),
                 Became(s, "query", req[s].result, req[s].seen)
          PROVE  GuessInv'
      BY <1>1, <2>1, <2>3, GuessPasses
    <2>4. ASSUME ~env.db, ~LockedOut(req[s].at, req[s].arg.ident), Judge(s) PROVE GuessInv'
      BY <1>2, <2>1, <2>4 DEF At
    <2> QED  BY <1>a, <2>2, <2>3, <2>4, VerifyIs
  <1>b. CASE VerifyQuery(s)  BY <1>2, <1>b DEF VerifyQuery, At
  <1>c. CASE VerifyUse(s)  BY <1>1, <1>c, GuessRight DEF VerifyUse
  <1> QED  BY <1>a, <1>b, <1>c

LEMMA GuessInit == Init => GuessInv
<1> SUFFICES ASSUME Init PROVE GuessInv
  OBVIOUS
<1>1. /\ attempts = [i \in Instances |-> [d \in Identifiers |-> 0]] /\ past.heard = attempts /\ count = 0
  BY DEF Init
<1>2. \A i, d : Waiting(i, d) = {} /\ Trying(i, d) = {}  BY DEF Init, Waiting, Trying, Quiet
<1>3. Cardinality({}) = 0  BY FS_EmptySet
<1>4. 0 <= MaxAttempts + Spare
  <2>1. CASE env.db  BY <2>1, SpareIs, AccountsConstants
  <2>2. CASE ~env.db  BY <2>2, SpareIs, AccountsConstants
  <2> QED  BY <2>1, <2>2
<1>5. \A i \in Instances, d \in Identifiers :
          /\ attempts[i][d] + Cardinality(Waiting(i, d)) <= MaxAttempts + Spare
          /\ attempts[i][d] + Cardinality(Trying(i, d)) <= count
  BY <1>1, <1>2, <1>3, <1>4, SMTT(40)
<1> QED  BY <1>1, <1>5 DEF GuessInv

LEMMA GuessNext == AskedInv /\ TypedInv /\ UsedInv /\ GuessInv /\ [Next]_vars => GuessInv'
<1> SUFFICES ASSUME AskedInv, TypedInv, UsedInv, GuessInv, [Next]_vars PROVE GuessInv'
  OBVIOUS
<1>0. ShapesOK  BY DEF AskedInv
<1>1. CASE UNCHANGED vars  BY <1>0, <1>1, GuessIdle DEF vars
<1>2. ASSUME NEW s \in Slots, SessionSteps(s) PROVE GuessInv'
  <2>1. ASSUME NEW c, NEW arg, NEW kind, Arrive(s, kind, c, arg) PROVE GuessInv'  BY <1>0, <2>1, GuessArrive
  <2> QED  BY <1>0, <1>2, <2>1, SessionsAreApart, GuessApart DEF SessionSteps
<1>3. ASSUME NEW s \in Slots, OrgSteps(s) PROVE GuessInv'
  <2>1. ASSUME NEW c, NEW arg, NEW kind, Arrive(s, kind, c, arg) PROVE GuessInv'  BY <1>0, <2>1, GuessArrive
  <2>2. CASE \E h \in Stores : InviteLapses(h)  BY <1>0, <2>2, GuessIdle DEF InviteLapses
  <2>3. CASE \/ CreateOrg(s) \/ AddOwner(s) \/ AddUser(s) \/ Invite(s) \/ InviteRow(s) \/ Look(s)
             \/ Accept(s) \/ AcceptExpire(s) \/ AcceptMark(s) \/ AcceptLook(s) \/ AcceptJoin(s)
    BY <1>0, <2>3, OrgsAreApart, GuessApart
  <2> QED  BY <1>3, <2>1, <2>2, <2>3 DEF OrgSteps
<1>4. ASSUME NEW s \in Slots, CodeSteps(s) PROVE GuessInv'
  <2>1. ASSUME NEW c, NEW arg, NEW kind, Arrive(s, kind, c, arg) PROVE GuessInv'  BY <1>0, <2>1, GuessArrive
  <2>2. CASE \E i \in Instances, d \in Identifiers : WindowLapses(i, d)  BY <1>0, <2>2, GuessWindow
  <2>3. CASE Issue(s) \/ Verify(s) \/ VerifyQuery(s) \/ VerifyUse(s)  BY <1>0, <2>3, GuessIssue, GuessVerify
  <2>4. CASE \E h \in Stores : CodeLapses(h)  BY <1>0, <2>4, GuessIdle DEF CodeLapses
  <2> QED  BY <1>4, <2>1, <2>2, <2>3, <2>4 DEF CodeSteps
<1>5. ASSUME NEW s \in Slots, Return(s) \/ QueryFails(s) PROVE GuessInv'
  BY <1>0, <1>5, GuessReturn, SessionsAreApart, GuessApart
<1> QED
  BY <1>1, <1>2, <1>3, <1>4, <1>5 DEF Next

LEMMA GuessesAreCounted == AskedInv /\ GuessInv => GuessesAreRationed
<1> SUFFICES ASSUME AskedInv, GuessInv, NEW i \in Instances, NEW d \in Identifiers
             PROVE  past.heard[i][d] <= MaxAttempts + Spare
  BY DEF GuessesAreRationed, Spare
<1>1. Waiting(i, d) \subseteq Slots  BY WaitersAreTrying
<1>2. Cardinality(Waiting(i, d)) \in Nat  BY <1>1, FewerOf
<1> QED  BY <1>2, SpareIs, AccountsConstants DEF GuessInv

LEMMA RowsAreTyped == AskedInv /\ TypedInv /\ GuessInv => TypeOK
<1> SUFFICES ASSUME AskedInv, TypedInv, GuessInv PROVE TypeOK
  OBVIOUS
<1>1. \A i \in Instances, d \in Identifiers : attempts[i][d] \in 0..MaxRequests
  <2> TAKE i \in Instances, d \in Identifiers
  <2>1. Trying(i, d) \subseteq Slots  BY WaitersAreTrying
  <2>2. Cardinality(Trying(i, d)) \in Nat  BY <2>1, FewerOf
  <2>3. attempts[i][d] + Cardinality(Trying(i, d)) <= count /\ attempts[i][d] \in Nat /\ count \in 0..MaxRequests
    BY DEF GuessInv, AskedInv, ShapesOK
  <2> QED  BY <2>2, <2>3, AccountsConstants
<1>2. \A s \in Slots : req[s].pc \in {"idle", "start", "answered", "owner", "user", "row", "expire", "mark",
                                      "look", "join", "query", "use", "make", "session"}
  BY DEF AskedInv, ShapesOK, Quiet, Places
<1>3. \A h \in Stores : Kinds(rows[h].orgs, rows[h].invites, rows[h].codes) /\ Bare(h)  BY DEF TypedInv
<1> QED  BY <1>1, <1>2, <1>3 DEF TypeOK, Kinds, Bare

-----------------------------------------------------------------------------
(***************************************************************************)
(* The signing keys, on the registers MCScreens gives them: v1 and v2 are  *)
(* published and retired, v3 the cache, v5 the fetch under way and v6 the  *)
(* calls.                                                                  *)
(***************************************************************************)
CallPcs == {"ensure", "first", "look", "second", "verify", "answered"}
Owns == {"none", "joined", "started", "fetched", "failed"}
CallRecords ==
    [pc : CallPcs, kid : Kids, always : BOOLEAN, ever : BOOLEAN, own : Owns, ok : BOOLEAN]

\* A key id is not used again once it is given up; the cache, and the answer
\* on its way, hold keys that were published once; and the answer has each
\* cached key that is still published.
RingOK(published, retired, cache, fetch) ==
    /\ published \cap retired = {} /\ cache \subseteq published \cup retired
    /\ fetch = [on |-> fetch.on, served |-> fetch.served, keys |-> fetch.keys] /\ fetch.served \in BOOLEAN
    /\ fetch.served => fetch.keys \subseteq published \cup retired /\ cache \cap published \subseteq fetch.keys

\* Keys of the time of r: a key published all along is among them, and one
\* among them was published at some time.
Timely(r, keys) == (r.always => r.kid \in keys) /\ (r.kid \in keys => r.ever)

\* A call whose own fetch came through, and one that found its key, know the
\* keys of their time, and so does the fetch a call has started.
CallOK(r, published, cache, fetch) ==
    /\ r \in CallRecords
    /\ Timely(r, published)
    /\ r.pc = "ensure" => r.own = "none"
    /\ r.pc \in {"first", "second"} => r.own \in {"joined", "started"}
    /\ r.pc \in {"look", "verify", "answered"} => r.own # "started"
    /\ r.pc \in {"look", "verify"} /\ r.own = "fetched" => Timely(r, cache)
    /\ r.pc # "answered" /\ r.own \in {"started", "fetched"} /\ fetch.served => Timely(r, fetch.keys)
    /\ r.pc = "verify" /\ r.own = "none" /\ r.always => r.kid \in cache
    /\ r.pc = "answered" /\ r.own = "fetched" => (r.always => r.ok) /\ (r.ok => r.ever)
    /\ r.pc = "answered" /\ r.always /\ ~r.ok => r.own \in {"joined", "failed"}

KeysInv ==
    /\ RingOK(v1, v2, v3, v5)
    /\ DOMAIN v6 = Calls
    /\ v6 = [c \in Calls |-> v6[c]]
    /\ \A c \in Calls : v6[c] = Keys!NoCall \/ CallOK(v6[c], v1, v3, v5)


\* A call that saw its key published or retired.
Saw(r) == [r EXCEPT !.always = FALSE, !.ever = TRUE]
\* A call that a fetch answered.
Resumed(r, how) ==
    [r EXCEPT !.pc = Keys!After(@), !.own = IF r.pc \in {"first", "second"} /\ @ = "started" THEN how ELSE @]

LEMMA CallFields ==
    ASSUME NEW r \in CallRecords
    PROVE  /\ r.pc \in CallPcs /\ r.kid \in Kids /\ r.always \in BOOLEAN /\ r.ever \in BOOLEAN /\ r.own \in Owns
           /\ r.ok \in BOOLEAN /\ r.pc # "idle" /\ r # Keys!NoCall
  BY DEF CallRecords, CallPcs, Keys!NoCall

LEMMA SawFields ==
    ASSUME NEW r \in CallRecords
    PROVE  /\ Saw(r) \in CallRecords /\ Saw(r).pc = r.pc /\ Saw(r).kid = r.kid /\ Saw(r).own = r.own /\ Saw(r).ok = r.ok
           /\ Saw(r).always = FALSE /\ Saw(r).ever = TRUE
  BY DEF CallRecords, Saw

LEMMA SeeingKeepsACall ==
    ASSUME NEW r, NEW published, NEW cache, NEW fetch, CallOK(r, published, cache, fetch), NEW q, NEW k
    PROVE  /\ CallOK(Saw(r), q, cache, fetch)
           /\ (\A j : j # k => (j \in q <=> j \in published)) /\ r.kid # k => CallOK(r, q, cache, fetch)
  <1>1. r \in CallRecords  BY DEF CallOK
  <1>2. CallOK(Saw(r), q, cache, fetch)
    <2>1. PICK s : s = Saw(r)  OBVIOUS
    <2>2. /\ s \in CallRecords /\ s.pc = r.pc /\ s.kid = r.kid /\ s.own = r.own /\ s.ok = r.ok
          /\ s.always = FALSE /\ s.ever = TRUE
      BY <1>1, <2>1, SawFields
    <2>3. CallOK(s, q, cache, fetch)  BY <2>2 DEF CallOK, Timely
    <2> QED  BY <2>1, <2>3
  <1>3. ASSUME \A j : j # k => (j \in q <=> j \in published), r.kid # k PROVE CallOK(r, q, cache, fetch)
    BY <1>1, <1>3 DEF CallOK, Timely
  <1> QED  BY <1>2, <1>3

LEMMA KeysInitially == Keys!Init => KeysInv
  <1> SUFFICES ASSUME Keys!Init PROVE KeysInv
    OBVIOUS
  <1> QED  BY DEF Keys!Init, KeysInv, RingOK, Keys!NoFetch

\* A key comes or goes: what calls had seen of it is over.
LEMMA KeysTurn ==
    ASSUME KeysInv, NEW k, Keys!Seen(k), v3' = v3, v5' = v5, RingOK(v1', v2', v3', v5'),
           \A j : j # k => (j \in v1' <=> j \in v1)
    PROVE  KeysInv'
  <1>1. DOMAIN v6' = Calls /\ v6' = [c \in Calls |-> v6'[c]]  BY DEF Keys!Seen
  <1>2. ASSUME NEW c \in Calls PROVE v6'[c] = Keys!NoCall \/ CallOK(v6'[c], v1', v3', v5')
    <2>1. CASE v6[c] = Keys!NoCall
      <3>1. v6[c].pc = "idle"  BY <2>1 DEF Keys!NoCall
      <3>2. v6'[c] = v6[c]  BY <3>1 DEF Keys!Seen
      <3> QED  BY <2>1, <3>2
    <2>2. CASE CallOK(v6[c], v1, v3, v5)
      <3>1. v6[c] \in CallRecords  BY <2>2 DEF CallOK
      <3>2. v6[c].pc # "idle"  BY <3>1, CallFields
      <3>3. v6'[c] = IF v6[c].kid # k THEN v6[c] ELSE Saw(v6[c])  BY <3>2 DEF Keys!Seen, Saw
      <3>4. CallOK(Saw(v6[c]), v1', v3', v5') /\ (v6[c].kid # k => CallOK(v6[c], v1', v3', v5'))
        BY <2>2, SeeingKeepsACall
      <3> QED  BY <3>3, <3>4
    <2> QED  BY <2>1, <2>2 DEF KeysInv
  <1> QED  BY <1>1, <1>2 DEF KeysInv

LEMMA KeysRotate == ASSUME KeysInv, NEW k \in Kids, Keys!Publish(k) \/ Keys!Retire(k) PROVE KeysInv'
  <1>1. CASE Keys!Publish(k)
    <2>1. v3' = v3 /\ v5' = v5 /\ v2' = v2 /\ v1' = v1 \cup {k} /\ Keys!Seen(k) /\ k \notin v1 \cup v2
      BY <1>1 DEF Keys!Publish
    <2>2. RingOK(v1', v2', v3', v5')  BY <2>1 DEF RingOK, KeysInv
    <2> QED  BY <2>1, <2>2, KeysTurn
  <1>2. CASE Keys!Retire(k)
    <2>1. v3' = v3 /\ v5' = v5 /\ v2' = v2 \cup {k} /\ v1' = v1 \ {k} /\ Keys!Seen(k) /\ k \in v1
      BY <1>2 DEF Keys!Retire
    <2>2. RingOK(v1', v2', v3', v5')  BY <2>1 DEF RingOK, KeysInv
    <2> QED  BY <2>1, <2>2, KeysTurn
  <1> QED  BY <1>1, <1>2


\* One call goes on, and the keys are what they were.
LEMMA KeysCallMoves ==
    ASSUME KeysInv, NEW c \in Calls, NEW r, v6' = [v6 EXCEPT ![c] = r],
           v1' = v1, v2' = v2, v3' = v3, v5' = v5, r = Keys!NoCall \/ CallOK(r, v1, v3, v5)
    PROVE  KeysInv'
  <1>1. DOMAIN v6' = Calls /\ v6' = [d \in Calls |-> v6'[d]]  BY DEF KeysInv
  <1>2. \A d \in Calls : v6'[d] = IF d = c THEN r ELSE v6[d]  BY DEF KeysInv
  <1> QED  BY <1>1, <1>2 DEF KeysInv

\* A call begins to wait, for the fetch under way or for its own.
LEMMA KeysWaits ==
    ASSUME KeysInv, NEW c \in Calls, NEW next \in {"first", "second"}, Keys!Wait(c, next),
           v6[c].pc \in {"ensure", "look"}, v1' = v1, v2' = v2, v3' = v3
    PROVE  KeysInv'
  <1>0. CallOK(v6[c], v1, v3, v5) /\ v6[c] \in CallRecords  BY DEF KeysInv, CallOK, Keys!NoCall
  <1>f. PICK f : f = [Keys!NoFetch EXCEPT !.on = TRUE]  OBVIOUS
  <1>g. f = [on |-> f.on, served |-> f.served, keys |-> f.keys] /\ f.served = FALSE  BY <1>f DEF Keys!NoFetch
  <1>w. PICK own \in {"joined", "started"} :
          /\ v6' = [v6 EXCEPT ![c].pc = next, ![c].own = own]
          /\ (v5' = v5 /\ own = "joined") \/ v5' = f
    BY <1>f DEF Keys!Wait
  <1>r. PICK r : r = [v6[c] EXCEPT !.pc = next, !.own = own]  OBVIOUS
  <1>1. /\ r \in CallRecords /\ r.pc = next /\ r.own = own /\ r.kid = v6[c].kid /\ r.always = v6[c].always
        /\ r.ever = v6[c].ever /\ r.ok = v6[c].ok
    BY <1>0, <1>r DEF CallRecords, CallPcs, Owns
  <1>2. v6' = [v6 EXCEPT ![c] = r]  BY <1>w, <1>r DEF KeysInv
  <1>3. CASE v5' = v5 /\ own = "joined"
    <2>1. CallOK(r, v1, v3, v5)  BY <1>0, <1>1, <1>3 DEF CallOK, Timely
    <2> QED  BY <2>1, <1>2, <1>3, KeysCallMoves
  <1>4. CASE v5' = f
    <2>1. CallOK(r, v1, v3, f)  BY <1>0, <1>1, <1>g DEF CallOK, Timely
    <2>2. \A d \in Calls : CallOK(v6[d], v1, v3, v5) => CallOK(v6[d], v1, v3, f)  BY <1>g DEF CallOK
    <2>3. RingOK(v1, v2, v3, f)  BY <1>g DEF KeysInv, RingOK
    <2>4. DOMAIN v6' = Calls /\ v6' = [d \in Calls |-> v6'[d]]  BY <1>2 DEF KeysInv
    <2>5. \A d \in Calls : v6'[d] = IF d = c THEN r ELSE v6[d]  BY <1>2 DEF KeysInv
    <2>6. \A d \in Calls : v6'[d] = Keys!NoCall \/ CallOK(v6'[d], v1, v3, f)  BY <2>1, <2>2, <2>5 DEF KeysInv
    <2> QED  BY <2>3, <2>4, <2>6, <1>4 DEF KeysInv
  <1> QED  BY <1>w, <1>3, <1>4

LEMMA KeysCallSteps ==
    ASSUME KeysInv, NEW c \in Calls,
           (\E k \in Kids : Keys!Arrive(c, k)) \/ Keys!Ensure(c) \/ Keys!Look(c) \/ Keys!Verify(c) \/ Keys!Leave(c)
    PROVE  KeysInv'
  <1>s. v1' = v1 /\ v2' = v2 /\ v3' = v3
    BY DEF Keys!Arrive, Keys!Ensure, Keys!Look, Keys!Verify, Keys!Leave
  <1>t. v6[c].pc # "idle" => CallOK(v6[c], v1, v3, v5) /\ v6[c] \in CallRecords
    BY DEF KeysInv, CallOK, Keys!NoCall
  <1>1. ASSUME NEW k \in Kids, Keys!Arrive(c, k) PROVE KeysInv'
    <2>1. PICK r : r = [pc |-> "ensure", kid |-> k, always |-> k \in v1, ever |-> k \in v1, own |-> "none", ok |-> FALSE]
      OBVIOUS
    <2>2. CallOK(r, v1, v3, v5)
      <3>1. r \in CallRecords  BY <2>1 DEF CallRecords, CallPcs, Owns
      <3> QED  BY <2>1, <3>1 DEF CallOK, Timely
    <2>3. v6' = [v6 EXCEPT ![c] = r] /\ v5' = v5  BY <1>1, <2>1 DEF Keys!Arrive
    <2> QED  BY <2>2, <2>3, <1>s, KeysCallMoves
  <1>2. CASE Keys!Ensure(c)
    <2>1. v6[c].pc = "ensure"  BY <1>2 DEF Keys!Ensure
    <2>2. CASE Keys!Fresh
      <3>1. PICK r : r = [v6[c] EXCEPT !.pc = "look"]  OBVIOUS
      <3>2. CallOK(r, v1, v3, v5)
        <4>1. /\ r \in CallRecords /\ r.pc = "look" /\ r.own = v6[c].own /\ r.kid = v6[c].kid
              /\ r.always = v6[c].always /\ r.ever = v6[c].ever /\ r.ok = v6[c].ok
          BY <1>t, <2>1, <3>1 DEF CallRecords, CallPcs
        <4> QED  BY <1>t, <2>1, <4>1 DEF CallOK, Timely
      <3>3. v6' = [v6 EXCEPT ![c] = r] /\ v5' = v5  BY <1>2, <2>2, <3>1 DEF Keys!Ensure, KeysInv
      <3> QED  BY <3>2, <3>3, <1>s, KeysCallMoves
    <2>3. CASE ~Keys!Fresh
      <3>1. Keys!Wait(c, "first")  BY <1>2, <2>3 DEF Keys!Ensure
      <3> QED  BY <2>1, <3>1, <1>s, KeysWaits
    <2> QED  BY <2>2, <2>3
  <1>3. CASE Keys!Look(c)
    <2>1. v6[c].pc = "look"  BY <1>3 DEF Keys!Look
    <2>2. CASE v6[c].kid \in v3
      <3>1. PICK r : r = [v6[c] EXCEPT !.pc = "verify"]  OBVIOUS
      <3>2. CallOK(r, v1, v3, v5)
        <4>1. /\ r \in CallRecords /\ r.pc = "verify" /\ r.own = v6[c].own /\ r.kid = v6[c].kid
              /\ r.always = v6[c].always /\ r.ever = v6[c].ever /\ r.ok = v6[c].ok
          BY <1>t, <2>1, <3>1 DEF CallRecords, CallPcs
        <4> QED  BY <1>t, <2>1, <2>2, <4>1 DEF CallOK, Timely
      <3>3. v6' = [v6 EXCEPT ![c] = r] /\ v5' = v5  BY <1>3, <2>2, <3>1 DEF Keys!Look, Keys!hasUnknownKid, KeysInv
      <3> QED  BY <3>2, <3>3, <1>s, KeysCallMoves
    <2>3. CASE v6[c].kid \notin v3
      <3>1. Keys!Wait(c, "second")  BY <1>3, <2>3 DEF Keys!Look, Keys!hasUnknownKid
      <3> QED  BY <2>1, <3>1, <1>s, KeysWaits
    <2> QED  BY <2>2, <2>3
  <1>4. CASE Keys!Verify(c)
    <2>1. v6[c].pc = "verify"  BY <1>4 DEF Keys!Verify
    <2>b. PICK b \in BOOLEAN : b = (v6[c].kid \in v3)
      <3>1. CASE v6[c].kid \in v3
        <4>1. TRUE = (v6[c].kid \in v3)  BY <3>1
        <4> QED  BY <4>1
      <3>2. CASE v6[c].kid \notin v3
        <4>1. FALSE = (v6[c].kid \in v3)  BY <3>2
        <4> QED  BY <4>1
      <3> QED  BY <3>1, <3>2
    <2>2. PICK r : r = [v6[c] EXCEPT !.pc = "answered", !.ok = b]  OBVIOUS
    <2>3. CallOK(r, v1, v3, v5)
      <3>1. /\ r \in CallRecords /\ r.pc = "answered" /\ r.own = v6[c].own /\ r.kid = v6[c].kid
            /\ r.always = v6[c].always /\ r.ever = v6[c].ever
        BY <1>t, <2>1, <2>2 DEF CallRecords, CallPcs
      <3>2. r.ok <=> v6[c].kid \in v3  BY <1>t, <2>1, <2>2, <2>b DEF CallRecords
      <3>3. v6[c].own \in {"none", "joined", "fetched", "failed"}  BY <1>t, <2>1, CallFields DEF CallOK, Owns
      <3> QED  BY <1>t, <2>1, <3>1, <3>2, <3>3 DEF CallOK, Timely
    <2>4. v6' = [v6 EXCEPT ![c] = r] /\ v5' = v5  BY <1>4, <2>2, <2>b DEF Keys!Verify, KeysInv
    <2> QED  BY <2>3, <2>4, <1>s, KeysCallMoves
  <1>5. CASE Keys!Leave(c)
    BY <1>5, <1>s, KeysCallMoves DEF Keys!Leave
  <1> QED  BY <1>1, <1>2, <1>3, <1>4, <1>5


\* The provider answers with what is published now, which is of every call's time.
LEMMA KeysServe == ASSUME KeysInv, Keys!Serve PROVE KeysInv'
  <1>1. PICK f : f = [v5 EXCEPT !.served = TRUE, !.keys = v1]  OBVIOUS
  <1>2. v5' = f /\ v1' = v1 /\ v2' = v2 /\ v3' = v3 /\ v6' = v6  BY <1>1 DEF Keys!Serve
  <1>3. f = [on |-> f.on, served |-> f.served, keys |-> f.keys] /\ f.served = TRUE /\ f.keys = v1
    BY <1>1 DEF KeysInv, RingOK
  <1>4. RingOK(v1, v2, v3, f)  BY <1>3 DEF KeysInv, RingOK
  <1>5. \A d \in Calls : CallOK(v6[d], v1, v3, v5) => CallOK(v6[d], v1, v3, f)  BY <1>3 DEF CallOK, Timely
  <1> QED  BY <1>2, <1>4, <1>5 DEF KeysInv

\* The fetch is over: each call that waited goes on, against keys that are
\* of its time when it had started the fetch or had one of its own before.
LEMMA ResumedFields ==
    ASSUME NEW r \in CallRecords, NEW how \in {"fetched", "failed"}
    PROVE  /\ Resumed(r, how) \in CallRecords /\ Resumed(r, how).kid = r.kid /\ Resumed(r, how).ok = r.ok
           /\ Resumed(r, how).always = r.always /\ Resumed(r, how).ever = r.ever
           /\ Resumed(r, how).pc = Keys!After(r.pc)
           /\ Resumed(r, how).own = IF r.pc \in {"first", "second"} /\ r.own = "started" THEN how ELSE r.own
  <1>1. PICK own \in Owns : own = IF r.pc \in {"first", "second"} /\ r.own = "started" THEN how ELSE r.own
    BY CallFields DEF Owns
  <1>2. PICK pc \in CallPcs : pc = Keys!After(r.pc)  BY CallFields DEF CallPcs, Keys!After
  <1>3. Resumed(r, how) = [r EXCEPT !.pc = pc, !.own = own]  BY <1>1, <1>2 DEF Resumed, CallRecords
  <1> QED  BY <1>1, <1>2, <1>3 DEF CallRecords

LEMMA ResumingKeepsACall ==
    ASSUME NEW r, NEW published, NEW cache, NEW fetch, CallOK(r, published, cache, fetch),
           NEW how \in {"fetched", "failed"}, NEW keys, NEW over, over.served = FALSE,
           \/ how = "failed" /\ keys = cache
           \/ how = "fetched" /\ fetch.served /\ keys = fetch.keys /\ cache \cap published \subseteq keys
    PROVE  CallOK(Resumed(r, how), published, keys, over)
  <1>1. r \in CallRecords  BY DEF CallOK
  <1>2. PICK s : s = Resumed(r, how)  OBVIOUS
  <1>3. /\ s \in CallRecords /\ s.kid = r.kid /\ s.ok = r.ok /\ s.always = r.always /\ s.ever = r.ever
        /\ s.pc = Keys!After(r.pc)
        /\ s.own = IF r.pc \in {"first", "second"} /\ r.own = "started" THEN how ELSE r.own
    BY <1>1, <1>2, ResumedFields
  <1>4. Timely(s, published)  BY <1>3 DEF CallOK, Timely
  <1>5. CASE r.pc \in {"first", "second"}
    <2>1. s.pc \in {"look", "verify"}  BY <1>3, <1>5 DEF Keys!After
    <2>2. r.own \in {"joined", "started"}  BY <1>5 DEF CallOK
    <2>3. (s.own = "joined") \/ (r.own = "started" /\ s.own = how)
      <3>1. CASE r.own = "joined"  BY <1>3, <3>1
      <3>2. CASE r.own = "started"  BY <1>3, <1>5, <3>2
      <3> QED  BY <2>2, <3>1, <3>2
    <2>4. s.own = "fetched" => Timely(s, keys)  BY <1>3, <1>5, <2>3 DEF CallOK, Timely
    <2>5. s.own \notin {"started", "none"}  BY <2>3
    <2>6. s \in CallRecords /\ s.pc \notin {"ensure", "first", "second", "answered"}  BY <1>3, <2>1
    <2>7. CallOK(s, published, keys, over)  BY <1>4, <2>1, <2>4, <2>5, <2>6 DEF CallOK
    <2> QED  BY <1>2, <2>7
  <1>6. CASE r.pc \notin {"first", "second"}
    <2>1. s.pc = r.pc /\ s.own = r.own  BY <1>3, <1>6 DEF Keys!After
    <2>2. s.pc \in {"look", "verify"} /\ s.own = "fetched" => Timely(s, keys)
      BY <1>3, <2>1 DEF CallOK, Timely
    <2>3. s.pc = "verify" /\ s.own = "none" /\ s.always => s.kid \in keys
      BY <1>3, <2>1 DEF CallOK, Timely
    <2>4. s \in CallRecords /\ s.kid = r.kid /\ s.ok = r.ok /\ s.always = r.always /\ s.ever = r.ever  BY <1>3
    <2>5. s.pc \notin {"first", "second"}  BY <1>6, <2>1
    <2>6. CallOK(s, published, keys, over)  BY <1>4, <2>1, <2>2, <2>3, <2>4, <2>5 DEF CallOK
    <2> QED  BY <1>2, <2>6
  <1> QED  BY <1>2, <1>5, <1>6

LEMMA KeysComeOrFail == ASSUME KeysInv, Keys!Fetched \/ Keys!FetchFails PROVE KeysInv'
  <1>1. PICK how \in {"fetched", "failed"} :
          /\ Keys!Resume(how) /\ v1' = v1 /\ v2' = v2 /\ v5' = Keys!NoFetch
          /\ \/ how = "failed" /\ v3' = v3
             \/ how = "fetched" /\ v5.served /\ v3' = v5.keys /\ v3 \cap v1 \subseteq v5.keys
    BY DEF Keys!Fetched, Keys!FetchFails, Keys!Taken, KeysInv, RingOK
  <1>2. Keys!NoFetch.served = FALSE  BY DEF Keys!NoFetch
  <1>3. RingOK(v1', v2', v3', v5')  BY <1>1, <1>2 DEF KeysInv, RingOK, Keys!NoFetch
  <1>4. DOMAIN v6' = Calls /\ v6' = [c \in Calls |-> v6'[c]]  BY <1>1 DEF Keys!Resume
  <1>5. ASSUME NEW c \in Calls PROVE v6'[c] = Keys!NoCall \/ CallOK(v6'[c], v1', v3', v5')
    <2>1. CASE v6[c] = Keys!NoCall
      <3>1. v6[c].pc = "idle"  BY <2>1 DEF Keys!NoCall
      <3>2. v6'[c] = v6[c]  BY <1>1, <3>1 DEF Keys!Resume
      <3> QED  BY <2>1, <3>2
    <2>2. CASE CallOK(v6[c], v1, v3, v5)
      <3>1. v6[c] \in CallRecords  BY <2>2 DEF CallOK
      <3>2. v6[c].pc # "idle"  BY <3>1, CallFields
      <3>3. v6'[c] = Resumed(v6[c], how)  BY <1>1, <3>2 DEF Keys!Resume, Resumed
      <3>4. CallOK(Resumed(v6[c], how), v1, v3', v5')  BY <1>1, <1>2, <2>2, ResumingKeepsACall
      <3> QED  BY <1>1, <3>3, <3>4
    <2> QED  BY <2>1, <2>2 DEF KeysInv
  <1> QED  BY <1>3, <1>4, <1>5 DEF KeysInv

LEMMA KeysNext == KeysInv /\ [Keys!Next]_(Keys!vars) => KeysInv'
  <1> SUFFICES ASSUME KeysInv, [Keys!Next]_(Keys!vars) PROVE KeysInv'
    OBVIOUS
  <1>1. CASE UNCHANGED Keys!vars \/ Keys!Age  BY <1>1 DEF Keys!vars, Keys!Age, KeysInv
  <1>2. CASE Keys!Next
    <2>1. CASE \E k \in Kids : Keys!Publish(k) \/ Keys!Retire(k)  BY <2>1, KeysRotate
    <2>2. CASE Keys!Age  BY <1>1, <2>2
    <2>3. CASE Keys!Serve  BY <2>3, KeysServe
    <2>4. CASE Keys!Fetched \/ Keys!FetchFails  BY <2>4, KeysComeOrFail
    <2>5. ASSUME NEW c \in Calls,
                 (\E k \in Kids : Keys!Arrive(c, k)) \/ Keys!Ensure(c) \/ Keys!Look(c) \/ Keys!Verify(c) \/ Keys!Leave(c)
          PROVE  KeysInv'
      BY <2>5, KeysCallSteps
    <2> QED  BY <1>2, <2>1, <2>2, <2>3, <2>4, <2>5 DEF Keys!Next
  <1> QED  BY <1>1, <1>2

LEMMA KeysAreSeen == KeysInv => Keys!RotationIsSeen
  <1> SUFFICES ASSUME KeysInv, NEW c \in Calls, v6[c].pc = "answered"
               PROVE  /\ v6[c].own = "fetched" => (v6[c].always => v6[c].ok) /\ (v6[c].ok => v6[c].ever)
                      /\ v6[c].always /\ ~v6[c].ok => v6[c].own \in {"joined", "failed"}
    BY DEF Keys!RotationIsSeen
  <1>1. CallOK(v6[c], v1, v3, v5)  BY DEF KeysInv, Keys!NoCall
  <1> QED  BY <1>1 DEF CallOK

-----------------------------------------------------------------------------
(***************************************************************************)
(* The accounts and the signing keys together.  The parts MCScreens runs   *)
(* beside them leave both alone.                                           *)
(***************************************************************************)
AccountsInv == AskedInv /\ TypedInv /\ UsedInv /\ CodesLone /\ JoinsLone /\ GuessInv

LEMMA AccountsInitially == Init => AccountsInv
  BY AskedInit, TypedInit, UsedInit, LoneInit, JoinsInit, GuessInit DEF AccountsInv

LEMMA AccountsStay == AccountsInv /\ [Next]_vars => AccountsInv'
  BY AskedNext, TypedNext, UsedNext, LoneNext, JoinsNext, GuessNext DEF AccountsInv

\* Sessions, organisations and codes: the requests of a step are those of Next.
LEMMA ARunTakesStepsOfItsParts ==
    [MCNext]_<<vars, registers, topic>> =>
        [Next]_vars /\ topic' = topic /\ (topic = "keys" => [Keys!Next]_(Keys!vars))
  <1> SUFFICES ASSUME [MCNext]_<<vars, registers, topic>>
               PROVE  [Next]_vars /\ topic' = topic /\ (topic = "keys" => [Keys!Next]_(Keys!vars))
    OBVIOUS
  <1>1. topic' = topic  BY DEF MCNext
  <1>2. [Next]_vars  BY DEF MCNext, Next
  <1>3. topic = "keys" => [Keys!Next]_(Keys!vars)
    <2>1. UNCHANGED registers => UNCHANGED Keys!vars  BY DEF registers, Keys!vars
    <2> QED  BY <2>1 DEF MCNext
  <1> QED  BY <1>1, <1>2, <1>3

CredentialsInv == AccountsInv /\ (topic = "keys" => KeysInv)

LEMMA CredentialsInitially == MCInit => CredentialsInv
  <1>1. MCInit /\ topic = "keys" => Keys!Init  BY DEF MCInit
  <1> QED  BY <1>1, AccountsInitially, KeysInitially DEF MCInit, CredentialsInv

LEMMA CredentialsStay == CredentialsInv /\ [MCNext]_<<vars, registers, topic>> => CredentialsInv'
  BY ARunTakesStepsOfItsParts, AccountsStay, KeysNext DEF CredentialsInv

LEMMA CredentialsSay == CredentialsInv => CredentialsAreGood
  BY ThingsAreUsedOnce, GuessesAreCounted, RowsAreTyped, KeysAreSeen DEF CredentialsInv, AccountsInv, CredentialsAreGood

\* A code, an invitation or a session is used once, guesses at a code are rationed,
\* and a token is judged by the signing keys of its time.
THEOREM CredentialsStayGood == MCSpec => []CredentialsAreGood
  BY CredentialsInitially, CredentialsStay, CredentialsSay, PTL DEF MCSpec
=============================================================================
