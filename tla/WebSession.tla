----------------------------- MODULE WebSession -----------------------------
(***************************************************************************)
(* Who a tab of the web app says it is (App.jsx, Login.jsx): the identity  *)
(* provider's session, the user kept in localStorage that every request's  *)
(* headers are read from, the user on the screen, the role switcher, and   *)
(* the question to /api/auth/me that corrects the browser's guess.  One    *)
(* tab: localStorage is shared with the others.                            *)
(***************************************************************************)
EXTENDS Naturals

CONSTANTS
    None,
    ROLES,          \* the demo identities, investor1 among them
    Mine,           \* the identity the server gives this person
    MaxEvents       \* sign-ins, sign-outs, logins and reloads

VARIABLES
    demoAuthAllowed, canSwitchIdentity,   \* of the build; of the server's verdict
    clerk,          \* [loaded, user]: the provider's session
    stored,         \* localStorage aasthi_user
    demoIdentity,   \* localStorage aasthi_clerk_demo_identity
    internalUser,   \* on the screen
    effect,         \* the session effect has yet to run
    asking,         \* questions to /api/auth/me in flight
    leaving,        \* "Sign out" was pressed and the provider not yet told
    late,           \* an answer came after its session had ended (history)
    events

sessionVars == <<demoAuthAllowed, canSwitchIdentity, clerk, stored, demoIdentity, internalUser, effect, asking, leaving, late, events>>
build == <<demoAuthAllowed, canSwitchIdentity>>

User(id, switch, demo) == [id |-> id, canSwitch |-> switch, isDemo |-> demo, expired |-> FALSE]

SessionInit ==
    /\ demoAuthAllowed \in BOOLEAN /\ canSwitchIdentity \in BOOLEAN /\ clerk = [loaded |-> FALSE, user |-> FALSE]
    /\ stored \in {None, User("investor1", "unknown", FALSE), User(Mine, IF canSwitchIdentity THEN "yes" ELSE "no", FALSE)}
                  \cup IF demoAuthAllowed THEN {User("investor1", "unknown", TRUE)} ELSE {}
    /\ internalUser = stored /\ demoIdentity = None /\ effect = TRUE /\ asking = 0 /\ leaving = FALSE /\ late = FALSE /\ events = 0

\* A demo session of a build without them, and an expired token, are not restored.
Refused(u) == (u.isDemo /\ ~demoAuthAllowed) \/ u.expired
getStoredUser == IF stored = None THEN None ELSE IF Refused(stored) THEN None ELSE stored
clearStoredSession ==
    IF stored # None /\ getStoredUser = None THEN stored' = None /\ demoIdentity' = None ELSE UNCHANGED <<stored, demoIdentity>>
DemoStored == IF getStoredUser = None THEN FALSE ELSE getStoredUser.isDemo

Counts == events < MaxEvents /\ events' = events + 1
Same(u) == stored' = u /\ internalUser' = u

\* The provider reports in: signed in or not, or a changed user object.
ClerkSays(user) ==
    /\ Counts /\ ~leaving /\ clerk' = [loaded |-> TRUE, user |-> user] /\ effect' = TRUE
    /\ UNCHANGED <<build, stored, demoIdentity, internalUser, asking, leaving, late>>

\* The effect on [isLoaded, isSignedIn, clerkUser]: a demo session stays; with no
\* session nobody is shown; otherwise the browser guesses, and asks the server (two
\* questions at once are the bound).
Effect ==
    /\ effect /\ clerk.loaded /\ effect' = FALSE /\ UNCHANGED <<build, clerk, leaving, events>>
    /\ \/ DemoStored /\ internalUser' = getStoredUser /\ UNCHANGED <<stored, demoIdentity, asking, late>>
       \/ /\ ~DemoStored /\ ~clerk.user /\ internalUser' = None /\ late' = FALSE
          /\ clearStoredSession /\ UNCHANGED asking
       \/ /\ ~DemoStored /\ clerk.user /\ asking < 2 /\ asking' = asking + 1 /\ UNCHANGED late
          /\ LET kept == IF stored # None /\ getStoredUser = None THEN None ELSE demoIdentity IN
             demoIdentity' = kept /\ Same(User(IF kept = None THEN "investor1" ELSE kept, "unknown", FALSE))

\* The server's answer replaces whatever is there by then.
MeAnswers ==
    /\ asking > 0 /\ asking' = asking - 1 /\ UNCHANGED <<build, clerk, effect, leaving, events>>
    /\ Same(User(Mine, IF canSwitchIdentity THEN "yes" ELSE "no", FALSE))
    /\ demoIdentity' = IF canSwitchIdentity THEN demoIdentity ELSE None
    /\ late' = (late \/ ~clerk.user \/ leaving)
MeFails == asking > 0 /\ asking' = asking - 1 /\ UNCHANGED <<build, clerk, stored, demoIdentity, internalUser, effect, leaving, late, events>>

SwitchRefused_Never(u) == FALSE \* (mutant: the switcher is a local lie)
SwitchRefused(u) == u.canSwitch = "no"
handleRoleSwitch(r) ==
    /\ internalUser # None /\ UNCHANGED <<build, clerk, effect, asking, leaving, late, events>>
    /\ IF SwitchRefused(internalUser) THEN demoIdentity' = None /\ UNCHANGED <<stored, internalUser>>
       ELSE Same([internalUser EXCEPT !.id = r]) /\ demoIdentity' = r

handleLogout ==
    /\ internalUser # None /\ ~leaving /\ leaving' = TRUE /\ Same(None)
    /\ UNCHANGED <<build, clerk, demoIdentity, effect, asking, late, events>>
\* A page load: what is stored is on the screen until the provider reports.
Load ==
    /\ internalUser' = getStoredUser /\ clearStoredSession /\ effect' = TRUE /\ asking' = 0 /\ UNCHANGED <<build, late>>
SignedOut == leaving /\ leaving' = FALSE /\ clerk' = [loaded |-> FALSE, user |-> FALSE] /\ Load /\ UNCHANGED events
Reload == Counts /\ ~leaving /\ clerk' = [clerk EXCEPT !.loaded = FALSE] /\ Load /\ UNCHANGED leaving
LoadedAgain == ~clerk.loaded /\ clerk' = [clerk EXCEPT !.loaded = TRUE] /\ UNCHANGED <<build, stored, demoIdentity, internalUser, effect, asking, leaving, late, events>>
handleOperatorLock ==
    /\ Counts /\ ~leaving /\ clerk' = [clerk EXCEPT !.loaded = FALSE] /\ demoIdentity' = None
    /\ internalUser' = getStoredUser /\ stored' = getStoredUser /\ effect' = TRUE /\ asking' = 0 /\ UNCHANGED <<build, leaving, late>>

\* The login page: a demo identity of the build, or the provider's session.
handleDemo(r) ==
    /\ Counts /\ demoAuthAllowed /\ internalUser = None /\ ~leaving /\ Same(User(r, "unknown", TRUE)) /\ demoIdentity' = r
    /\ UNCHANGED <<build, clerk, effect, asking, leaving, late>>
doLogin ==
    /\ Counts /\ clerk.loaded /\ clerk.user /\ internalUser = None /\ ~leaving /\ Same(User("investor1", "unknown", FALSE))
    /\ UNCHANGED <<build, clerk, demoIdentity, effect, asking, leaving, late>>
Expires ==
    /\ (IF stored = None THEN FALSE ELSE stored.isDemo /\ ~stored.expired)
    /\ stored' = [stored EXCEPT !.expired = TRUE]
    /\ UNCHANGED <<build, clerk, demoIdentity, internalUser, effect, asking, leaving, late, events>>

SessionNext ==
    \/ Effect \/ MeAnswers \/ MeFails \/ handleLogout \/ SignedOut \/ Reload \/ LoadedAgain \/ handleOperatorLock \/ doLogin \/ Expires
    \/ \E user \in BOOLEAN : ClerkSays(user)
    \/ \E r \in ROLES : handleRoleSwitch(r) \/ handleDemo(r)

----------------------------------------------------------------------------
\* What a tab shows is what its requests say: once the server has said this person
\* may not switch, that is the server's own identity for them; and a tab that has
\* heard there is no session shows none, unless an answer about the ended session
\* came after it.  (handleRoleSwitch, the session effect, handleLogout, getStoredUser)
TabIsWhoItSays ==
    /\ internalUser # None => /\ stored # None /\ stored.id = internalUser.id
                              /\ internalUser.canSwitch = "no" => internalUser.id = Mine
    /\ clerk.loaded /\ ~clerk.user /\ ~effect /\ ~late /\ ~(IF internalUser = None THEN FALSE ELSE internalUser.isDemo)
        => internalUser = None
=============================================================================
