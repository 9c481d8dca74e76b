---------------------------- MODULE MockAccounts ----------------------------
(***************************************************************************)
(* Accounts of the local server (mock-api-server.js): users, sessions,     *)
(* organisations with members and invitations, and one-time codes, in maps *)
(* of one process whose handlers run one at a time and await nothing.      *)
(* The maps are read in the order of insertion, so each is a sequence and  *)
(* the first row that matches is the one that counts.  The serverless      *)
(* API's accounts, where instances and a database come in, are in module   *)
(* Accounts.                                                               *)
(***************************************************************************)
EXTENDS Naturals, FiniteSets, Sequences, SequencesExt

CONSTANTS
    None,
    Callers,          \* [id, email (<<local part, domain>> or None), supervisor]
    Slugs,
    Emails, Roles,
    Identifiers, Values,
    VERIFICATION_MAX_ATTEMPTS,
    MaxRows           \* of invitations, codes and sessions

VARIABLES
    demo,             \* DEMO_IDENTITIES
    user, session,    \* who has a row; who the token of a login finds
    member, invitation, organization,
    verification, attempts,
    told              \* wrong answers in this window; codes that verified, with whom (history)

accountVars == <<demo, user, session, member, invitation, organization, verification, attempts, told>>
orgVars == <<member, invitation, organization>>
codeVars == <<verification, attempts, told>>

Ids == {c.id : c \in Callers}
NoMiss == [count |-> 0, open |-> FALSE]

AccountsInit ==
    /\ demo \in BOOLEAN /\ user = {} /\ session = <<>>
    /\ member = <<>> /\ invitation = <<>> /\ organization = [s \in Slugs |-> None]
    /\ verification = <<>> /\ attempts = [i \in Identifiers |-> NoMiss]
    /\ told = [wrong |-> [i \in Identifiers |-> 0], right |-> {}]
-----------------------------------------------------------------------------
(* Sessions: a token is found until it is logged out; the gate never asks. *)
Login(c) ==
    /\ Len(session) < MaxRows
    /\ user' = user \cup {c.id} /\ session' = Append(session, [who |-> c.id, live |-> TRUE])
    /\ UNCHANGED <<demo, orgVars, codeVars>>
Logout(n) ==
    /\ session[n].live /\ session' = [session EXCEPT ![n].live = FALSE]
    /\ UNCHANGED <<demo, user, orgVars, codeVars>>
-----------------------------------------------------------------------------
(* Organisations *)
RowsOf(who, org) == {n \in DOMAIN member : member[n].who = who /\ member[n].org = org}
orgRoleOf(who, org) ==
    IF RowsOf(who, org) = {} THEN None ELSE member[CHOOSE n \in RowsOf(who, org) : \A k \in RowsOf(who, org) : n <= k].role

CreateOrg(c, s) ==
    /\ organization[s] = None /\ organization' = [organization EXCEPT ![s] = c.id]
    /\ member' = Append(member, [who |-> c.id, org |-> s, role |-> "owner", why |-> 0])
    /\ user' = user \cup {c.id}
    /\ UNCHANGED <<demo, session, invitation, codeVars>>

MayInvite(c, s) == orgRoleOf(c.id, s) \in {"owner", "admin"} \/ c.supervisor
Invite(c, s, to, pin, role) ==
    /\ organization[s] # None /\ MayInvite(c, s) /\ Len(invitation) < MaxRows
    /\ invitation' = Append(invitation, [org |-> s, to |-> to, pin |-> pin, role |-> role,
                                         status |-> "pending", fresh |-> TRUE, by |-> c])
    /\ UNCHANGED <<demo, user, session, member, organization, codeVars>>

invitationIsFor(inv, c) ==
    IF inv.pin # None THEN inv.pin = c.id
    ELSE IF c.email # None THEN c.email = inv.to
    ELSE demo /\ inv.to[1] = c.id

Used_Still(inv) == inv \* (mutant: an accepted invitation stays pending)
Used(inv) == [inv EXCEPT !.status = "accepted"]
Accept(c, n) ==
    /\ invitationIsFor(invitation[n], c) /\ invitation[n].status = "pending"
    /\ IF invitation[n].fresh
       THEN /\ Len(member) < 2 * MaxRows
            /\ invitation' = [invitation EXCEPT ![n] = Used(@)]
            /\ member' = Append(member, [who |-> c.id, org |-> invitation[n].org, role |-> invitation[n].role, why |-> n])
            /\ user' = user \cup {c.id}
       ELSE invitation' = [invitation EXCEPT ![n].status = "expired"] /\ UNCHANGED <<member, user>>
    /\ UNCHANGED <<demo, session, organization, codeVars>>
-----------------------------------------------------------------------------
(* One-time codes *)
AskForCode(c, i, v) ==
    /\ Len(verification) < MaxRows
    /\ verification' = Append(verification, [identifier |-> i, value |-> v, by |-> c.id, fresh |-> TRUE, live |-> TRUE])
    /\ UNCHANGED <<demo, user, session, orgVars, attempts, told>>

\* A window is fifteen minutes from its first miss.
verificationLockedOut(i) == attempts[i].open /\ attempts[i].count >= VERIFICATION_MAX_ATTEMPTS
noteFailedVerification(i) ==
    /\ attempts' = [attempts EXCEPT ![i] = [count |-> IF @.open THEN @.count + 1 ELSE 1, open |-> TRUE]]
    /\ told' = [told EXCEPT !.wrong[i] = IF attempts[i].open THEN @ + 1 ELSE 1]

Matches(i, v) == {n \in DOMAIN verification : verification[n].live /\ verification[n].identifier = i /\ verification[n].value = v}
Verify(c, i, v) ==
    /\ ~verificationLockedOut(i)
    /\ IF Matches(i, v) = {} THEN noteFailedVerification(i) /\ UNCHANGED verification
       ELSE LET n == CHOOSE k \in Matches(i, v) : \A j \in Matches(i, v) : k <= j IN
            IF ~verification[n].fresh \/ verification[n].by # c.id THEN noteFailedVerification(i) /\ UNCHANGED verification
            ELSE /\ verification' = [verification EXCEPT ![n].live = FALSE]
                 /\ attempts' = [attempts EXCEPT ![i] = NoMiss]
                 /\ told' = [wrong |-> [told.wrong EXCEPT ![i] = 0], right |-> told.right \cup {<<n, c.id, Cardinality(told.right)>>}]
    /\ UNCHANGED <<demo, user, session, orgVars>>
\* Locked out: the answer is 429, and nothing is looked at.
TooMany(i) == verificationLockedOut(i) /\ UNCHANGED accountVars
-----------------------------------------------------------------------------
\* Time: an invitation or a code expires, or a window of misses is over.
InvitationExpires(n) ==
    /\ invitation[n].fresh /\ invitation' = [invitation EXCEPT ![n].fresh = FALSE]
    /\ UNCHANGED <<demo, user, session, member, organization, codeVars>>
CodeExpires(n) ==
    /\ verification[n].fresh /\ verification' = [verification EXCEPT ![n].fresh = FALSE]
    /\ UNCHANGED <<demo, user, session, orgVars, attempts, told>>
WindowEnds(i) ==
    /\ attempts[i].open /\ attempts' = [attempts EXCEPT ![i].open = FALSE]
    /\ UNCHANGED <<demo, user, session, orgVars, verification, told>>

Orgs ==
    \/ \E c \in Callers :
        \/ Login(c)
        \/ \E s \in Slugs :
            \/ CreateOrg(c, s)
            \/ \E to \in Emails, pin \in Ids \cup {None}, role \in Roles : Invite(c, s, to, pin, role)
        \/ \E n \in DOMAIN invitation : Accept(c, n)
    \/ \E n \in DOMAIN session : Logout(n)
    \/ \E n \in DOMAIN invitation : InvitationExpires(n)
Codes ==
    \/ \E i \in Identifiers :
        \/ \E c \in Callers, v \in Values : AskForCode(c, i, v) \/ Verify(c, i, v)
        \/ TooMany(i) \/ WindowEnds(i)
    \/ \E n \in DOMAIN verification : CodeExpires(n)
AccountsNext == Orgs \/ Codes
-----------------------------------------------------------------------------
\* Every member made the organisation or took up an invitation meant for
\* them, which lets one row in; whoever sent it answered for the
\* organisation or supervises the platform; and every member and every
\* session has a user row.
MockMembersWereAskedIn ==
    /\ \A n \in DOMAIN member : LET m == member[n] IN
        /\ m.who \in user
        /\ IF m.why = 0 THEN organization[m.org] = m.who /\ m.role = "owner"
           ELSE LET inv == invitation[m.why] IN
                /\ inv.org = m.org /\ inv.role = m.role
                /\ inv.by.supervisor \/ orgRoleOf(inv.by.id, m.org) \in {"owner", "admin"}
                /\ \A k \in DOMAIN member : member[k].why = m.why => k = n
    /\ \A n \in DOMAIN session : session[n].who \in user

\* In one window no more than the allowed number of wrong answers is given
\* for an identifier, whoever asks and whatever is asked in between; a code
\* verifies once, and only for whoever asked for it.
MockGuessesAreRationed ==
    /\ \A i \in Identifiers : attempts[i].open => told.wrong[i] <= VERIFICATION_MAX_ATTEMPTS
    /\ \A x, y \in told.right : (x[1] = y[1] => x = y) /\ verification[x[1]].by = x[2]

MockAccountsHold == MockMembersWereAskedIn /\ MockGuessesAreRationed
=============================================================================
