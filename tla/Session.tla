------------------------------ MODULE Session ------------------------------
(***************************************************************************)
(* Who is signed in to the web application: app/src/app.rs, the screens    *)
(* login.rs and register.rs, the logout of shell.rs, and the bearer token  *)
(* of client-core.  A browser has several tabs, which share its local      *)
(* storage; each has a page of its own, with the tokens and the calls of   *)
(* that page.  A token is the account it is for.                           *)
(***************************************************************************)
EXTENDS Naturals

CONSTANTS
    Tabs,
    Accounts,
    MaxUses, \* bound: what the users of the tabs do
    MaxPending \* bound: sign-ins of a tab that are under way

VARIABLES
    storage, \* browser: the token in the local storage
    route, \* of each tab: the screen asked for
    token, \* of each tab: the token the screens go by
    bearer, \* of each tab: the token that its calls carry
    fragment, \* of each tab: the token in the address, after an SSO
    pending, \* of each tab: sign-ins that are not answered yet
    left, \* history: the tabs that were signed out and where nobody has signed in since
    uses

vars == <<storage, route, token, bearer, fragment, pending, left, uses>>

NoOne == "no one"
Routes == {"home", "login", "register", "away"}

\* Of the constants.
SessionAssumption == NoOne \notin Accounts /\ MaxUses \in Nat /\ MaxPending \in Nat

Use == uses < MaxUses /\ uses' = uses + 1

-----------------------------------------------------------------------------
(* A page is opened. *)

\* The stored token is taken, or else that of the address, which is consumed by it.
Token(stored, address) == IF stored # NoOne THEN stored ELSE address

\* Without a token, the route of the new page becomes the login screen.
NewPage(t, address) ==
    LET new == Token(storage, address)
    IN  /\ storage' = new
        /\ token' = [token EXCEPT ![t] = new]
        /\ bearer' = [bearer EXCEPT ![t] = new]
        /\ fragment' = [fragment EXCEPT ![t] = IF storage # NoOne THEN address ELSE NoOne]
        /\ route' = [route EXCEPT ![t] = IF new = NoOne THEN "login" ELSE "home"]
        /\ pending' = [pending EXCEPT ![t] = 0]

Init ==
    /\ storage \in Accounts \cup {NoOne}
    /\ token = [t \in Tabs |-> storage] /\ bearer = token
    /\ fragment = [t \in Tabs |-> NoOne]
    /\ route = [t \in Tabs |-> IF storage = NoOne THEN "login" ELSE "home"]
    /\ pending = [t \in Tabs |-> 0]
    /\ left = {} /\ uses = 0

\* What the page had under way is gone with it.
Reload(t) ==
    /\ Use /\ route[t] # "away"
    /\ NewPage(t, fragment[t])
    /\ left' = IF Token(storage, fragment[t]) = NoOne THEN left ELSE left \ {t}

\* The browser leaves for the identity provider.
StartSso(t) ==
    /\ Use /\ route[t] = "login"
    /\ route' = [route EXCEPT ![t] = "away"]
    /\ pending' = [pending EXCEPT ![t] = 0]
    /\ left' = left \ {t}
    /\ UNCHANGED <<storage, token, bearer, fragment>>

\* It comes back with a token in the address, or with none when the login failed and the user goes back.
SsoReturns(t) ==
    /\ route[t] = "away"
    /\ \E address \in Accounts \cup {NoOne} : NewPage(t, address)
    /\ UNCHANGED <<left, uses>>

-----------------------------------------------------------------------------
(* Signing in and out. *)

\* The stored token, that of the calls and that of the screens are set together.
SetToken(t, a) ==
    /\ storage' = a
    /\ token' = [token EXCEPT ![t] = a]
    /\ bearer' = [bearer EXCEPT ![t] = a]

\* A mutant: calls outlive the screen they were made on.
AfterUnmountKept(n) == n

\* The calls of a screen that are under way when it goes are dropped with it.
AfterUnmount(n) == 0

\* Login, or Let's start with the password repeated: the button can be pressed again meanwhile.
SignIn(t) ==
    /\ Use /\ route[t] \in {"login", "register"} /\ pending[t] < MaxPending
    /\ pending' = [pending EXCEPT ![t] = @ + 1]
    /\ left' = left \ {t}
    /\ UNCHANGED <<storage, route, token, bearer, fragment>>

\* The link of the login screen.
ToRegister(t) ==
    /\ Use /\ route[t] = "login"
    /\ route' = [route EXCEPT ![t] = "register"]
    /\ pending' = [pending EXCEPT ![t] = AfterUnmount(@)]
    /\ UNCHANGED <<storage, token, bearer, fragment, left>>

\* An answer with a token brings the application up.
SignedIn(t) ==
    /\ pending[t] > 0
    /\ \E a \in Accounts : SetToken(t, a)
    /\ route' = [route EXCEPT ![t] = "home"]
    /\ pending' = [pending EXCEPT ![t] = AfterUnmount(@ - 1)]
    /\ UNCHANGED <<fragment, left, uses>>

\* Any other answer is shown.
Refused(t) ==
    /\ pending[t] > 0
    /\ pending' = [pending EXCEPT ![t] = @ - 1]
    /\ UNCHANGED <<storage, route, token, bearer, fragment, left, uses>>

\* The server is not told, nor are the other tabs.
Logout(t) ==
    /\ Use /\ route[t] = "home"
    /\ SetToken(t, NoOne)
    /\ route' = [route EXCEPT ![t] = "login"]
    /\ left' = left \cup {t}
    /\ UNCHANGED <<fragment, pending>>

Next ==
    \E t \in Tabs :
        \/ Reload(t) \/ StartSso(t) \/ SsoReturns(t)
        \/ SignIn(t) \/ ToRegister(t) \/ SignedIn(t) \/ Refused(t) \/ Logout(t)

Spec == Init /\ [][Next]_vars

-----------------------------------------------------------------------------

\* A tab that was signed out has no token, on its screens or on its calls, until someone signs in there
\* or loads a page that finds a token; and no tab shows the application without one, or carries another
\* token than it shows.  Answers to sign-ins may come at any time.
LoggedOutStaysOut ==
    \A t \in Tabs :
        /\ bearer[t] = token[t]
        /\ t \in left => token[t] = NoOne /\ route[t] # "home"
        /\ route[t] = "home" => token[t] # NoOne
=============================================================================
