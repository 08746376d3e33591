--------------------------- MODULE AdminAccounts ---------------------------
(***************************************************************************)
(* The accounts of the appliance's console: first set-up, login, logout    *)
(* and the session that guards the other routes.                           *)
(*                                                                         *)
(* A password is known to the person who chose it; a session cookie is a   *)
(* signed user name in somebody's browser.  The signature is sound and the *)
(* database is not asked when a session is checked.                        *)
(*                                                                         *)
(* A definition D_X is D with a mistake X in it, for checking that the      *)
(* properties would notice; nothing uses it.                               *)
(***************************************************************************)
EXTENDS Naturals

CONSTANTS
    Handlers,   \* threads of the server, each serving one request at a time
    UserNames,
    People,
    Nobody

ASSUME NobodyAssumption == Nobody \notin People

VARIABLES
    admins,    \* admin_users: whose password a user name has
    cookies,   \* session cookies that browsers hold: [user, holder]
    pc,        \* where each handler is
    ask,       \* the request it serves
    before     \* history: whether an admin existed when the request came in

Accounts == {u \in UserNames : admins[u] # Nobody}

\* Requests about accounts.  by is the person who makes the request.
Credentials == [kind : {"setup", "login"}, by : People, user : UserNames]
Logouts == [kind : {"logout"}, by : People]

NoRequest == [kind |-> "none"]

Goto(h, label) == pc' = [pc EXCEPT ![h] = label]
Leave(h) ==
    /\ Goto(h, "idle")
    /\ ask' = [ask EXCEPT ![h] = NoRequest]
By(h) == ask[h].by
User(h) == ask[h].user

AlreadySetUp_SameName(h) == User(h) \in Accounts
AlreadySetUp(h) == Accounts # {}

\* setup, first statement: 409 if there is an admin.
CountAdmins(h) ==
    /\ pc[h] = "setup"
    /\ IF AlreadySetUp(h) THEN Leave(h) ELSE Goto(h, "insert") /\ UNCHANGED ask
    /\ UNCHANGED <<admins, cookies, before>>

\* INSERT and COMMIT; a concurrent set-up may have been faster.
InsertAdmin(h) ==
    /\ pc[h] = "insert"
    /\ User(h) \notin Accounts
    /\ admins' = [admins EXCEPT ![User(h)] = By(h)]
    /\ Goto(h, "cookie")
    /\ UNCHANGED <<cookies, ask, before>>

NameTaken_Ignored(h) ==
    /\ pc[h] = "insert"
    /\ User(h) \in Accounts
    /\ Goto(h, "cookie")
    /\ UNCHANGED <<admins, cookies, ask, before>>

\* The UNIQUE constraint of the names: an error nobody catches.
NameTaken(h) ==
    /\ pc[h] = "insert"
    /\ User(h) \in Accounts
    /\ Leave(h)
    /\ UNCHANGED <<admins, cookies, before>>

\* The answer, with the cookie.
GiveCookie(h) ==
    /\ pc[h] = "cookie"
    /\ cookies' = cookies \cup {[user |-> User(h), holder |-> By(h)]}
    /\ Leave(h)
    /\ UNCHANGED <<admins, before>>

PasswordIsRight(h) == admins[User(h)] = By(h)

\* login: the name is known and the password its own, or 401.
Login(h) ==
    /\ pc[h] = "login"
    /\ IF PasswordIsRight(h) THEN Goto(h, "cookie") /\ UNCHANGED ask ELSE Leave(h)
    /\ UNCHANGED <<admins, cookies, before>>

\* logout takes the cookie from the browser; the server keeps nothing of it.
Logout(h) ==
    /\ pc[h] = "logout"
    /\ cookies' = {k \in cookies : k.holder # By(h)}
    /\ Leave(h)
    /\ UNCHANGED <<admins, before>>

\* require_admin_session: the cookie's signature, and nothing else, is checked.
HasSession(p) == \E k \in cookies : k.holder = p

Account(h) ==
    \/ CountAdmins(h) \/ InsertAdmin(h) \/ NameTaken(h)
    \/ GiveCookie(h) \/ Login(h) \/ Logout(h)
=============================================================================
