---------------------------- MODULE AuthSessions ----------------------------
(***************************************************************************)
(* Accounts and server-side sessions                                       *)
(* (apps/api/app/features/auth/service.py, repository.py, router.py).      *)
(*                                                                         *)
(* Each API call is a coroutine that suspends at its database              *)
(* transactions; calls, time and database failures interleave between      *)
(* them.  A session secret is named by the call that issued it and a       *)
(* password by the registration that chose it.                             *)
(***************************************************************************)
EXTENDS Naturals, FiniteSets

CONSTANTS
    Calls,           \* API calls
    Emails,          \* email addresses, as their blind index
    None,            \* no call
    IdleLimit,       \* session_idle_minutes
    AbsoluteLimit,   \* session_absolute_hours
    MaxTime          \* bound: ticks of the clock

ASSUME NoneAssumption == None \notin Calls
ASSUME LimitAssumption ==
    /\ IdleLimit \in Nat \ {0} /\ AbsoluteLimit \in Nat \ {0}
    /\ MaxTime \in Nat

VARIABLES
    now,        \* the clock
    accounts,   \* for each email the registration that owns it
    sessions,   \* for each call the session row it issued
    calls,      \* where each call stands
    loggedOut   \* history: secrets whose logout has been answered

vars == <<now, accounts, sessions, calls, loggedOut>>

-----------------------------------------------------------------------------
Kind == {"none", "register", "login", "authenticate", "logout"}
Step == {"idle", "creatingAccount", "readingAccount", "creatingSession",
         "readingSession", "touching", "revoking", "done"}
Result == {"none", "issued", "conflict", "invalid", "served", "refused",
           "ended", "error"}

\* `key' is the password given, or the secret sent; `at' the time the call
\* read; `late' tells whether its secret had been logged out when it came.
Call == [step : Step, kind : Kind, email : Emails \cup {None},
         key : Calls \cup {None}, at : 0..MaxTime, late : BOOLEAN,
         result : Result]

Session == [issued : BOOLEAN, email : Emails \cup {None},
            owner : Calls \cup {None}, idle : Nat, absolute : Nat,
            seen : 0..MaxTime, revoked : BOOLEAN]

NoSession == [issued |-> FALSE, email |-> None, owner |-> None, idle |-> 0,
              absolute |-> 0, seen |-> 0, revoked |-> FALSE]

NoCall == [step |-> "idle", kind |-> "none", email |-> None, key |-> None,
           at |-> 0, late |-> FALSE, result |-> "none"]

\* Secrets that a client holds: those a call has answered with.
Secrets == {s \in Calls : calls[s].result = "issued"}

\* Mutant: expiry is left to the client's cookie.
AdmitsExpired(s, time) == sessions[s].issued /\ ~sessions[s].revoked

\* The WHERE clause of get_account_by_session_hash.
Admits(s, time) ==
    /\ sessions[s].issued
    /\ ~sessions[s].revoked
    /\ sessions[s].idle > time
    /\ sessions[s].absolute > time

Init ==
    /\ now = 0
    /\ accounts = [e \in Emails |-> None]
    /\ sessions = [s \in Calls |-> NoSession]
    /\ calls = [c \in Calls |-> NoCall]
    /\ loggedOut = {}

-----------------------------------------------------------------------------
(* Shapes shared by the steps.                                             *)

Begin(c, kind, email, key, step) ==
    /\ calls[c].step = "idle"
    /\ calls' = [calls EXCEPT ![c] =
                   [step |-> step, kind |-> kind, email |-> email, key |-> key,
                    at |-> now, late |-> key \in loggedOut, result |-> "none"]]
    /\ UNCHANGED <<now, accounts, sessions, loggedOut>>

Answer(c, result) ==
    calls' = [calls EXCEPT ![c] =
                [calls[c] EXCEPT !.step = "done", !.result = result]]

\* _issue_session reads the clock and starts its transaction.
Issue(c) ==
    calls' = [calls EXCEPT ![c] =
                [calls[c] EXCEPT !.step = "creatingSession", !.at = now]]

-----------------------------------------------------------------------------
(* Registration and login.                                                 *)

Register(c) == \E e \in Emails : Begin(c, "register", e, c, "creatingAccount")

\* Mutant: an insert that replaces the row of an address already taken.
UpsertAccount(c) ==
    /\ calls[c].step = "creatingAccount"
    /\ accounts' = [accounts EXCEPT ![calls[c].email] = c]
    /\ Issue(c)
    /\ UNCHANGED <<now, sessions, loggedOut>>

\* One transaction writes user, tenant, membership and profile; the unique
\* blind index makes it fail when the email is taken.
CreateAccount(c) ==
    /\ calls[c].step = "creatingAccount"
    /\ IF accounts[calls[c].email] = None
       THEN accounts' = [accounts EXCEPT ![calls[c].email] = c] /\ Issue(c)
       ELSE Answer(c, "conflict") /\ UNCHANGED accounts
    /\ UNCHANGED <<now, sessions, loggedOut>>

Login(c) ==
    \E e \in Emails, password \in Calls :
        Begin(c, "login", e, password, "readingAccount")

\* Mutant: an account is enough, whatever the password.
CheckExistence(c) ==
    /\ calls[c].step = "readingAccount"
    /\ IF accounts[calls[c].email] # None
       THEN Issue(c) ELSE Answer(c, "invalid")
    /\ UNCHANGED <<now, accounts, sessions, loggedOut>>

CheckPassword(c) ==
    /\ calls[c].step = "readingAccount"
    /\ IF accounts[calls[c].email] = calls[c].key
       THEN Issue(c) ELSE Answer(c, "invalid")
    /\ UNCHANGED <<now, accounts, sessions, loggedOut>>

NewSession(c) ==
    [issued |-> TRUE, email |-> calls[c].email, owner |-> calls[c].key,
     idle |-> calls[c].at + IdleLimit, absolute |-> calls[c].at + AbsoluteLimit,
     seen |-> now, revoked |-> FALSE]

CreateSession(c) ==
    /\ calls[c].step = "creatingSession"
    /\ sessions' = [sessions EXCEPT ![c] = NewSession(c)]
    /\ Answer(c, "issued")
    /\ UNCHANGED <<now, accounts, loggedOut>>

-----------------------------------------------------------------------------
(* Authentication of a request and logout.                                 *)

Authenticate(c) ==
    \E s \in Secrets : Begin(c, "authenticate", None, s, "readingSession")

Lookup(c) ==
    /\ calls[c].step = "readingSession"
    /\ IF Admits(calls[c].key, calls[c].at)
       THEN calls' = [calls EXCEPT ![c].step = "touching"]
       ELSE Answer(c, "refused")
    /\ UNCHANGED <<now, accounts, sessions, loggedOut>>

\* Mutant: the row read before is written back as a whole.
TouchWholeRow(c) ==
    /\ calls[c].step = "touching"
    /\ sessions' = [sessions EXCEPT ![calls[c].key].seen = calls[c].at,
                                    ![calls[c].key].revoked = FALSE]
    /\ Answer(c, "served")
    /\ UNCHANGED <<now, accounts, loggedOut>>

\* Mutant: the sliding expiry is written into last_seen_at.
TouchAhead(c) ==
    /\ calls[c].step = "touching"
    /\ sessions' = [sessions EXCEPT
                      ![calls[c].key].seen = calls[c].at + IdleLimit]
    /\ Answer(c, "served")
    /\ UNCHANGED <<now, accounts, loggedOut>>

Touch(c) ==
    /\ calls[c].step = "touching"
    /\ sessions' = [sessions EXCEPT ![calls[c].key].seen = calls[c].at]
    /\ Answer(c, "served")
    /\ UNCHANGED <<now, accounts, loggedOut>>

Logout(c) == \E s \in Secrets : Begin(c, "logout", None, s, "revoking")

Revoke(c) ==
    /\ calls[c].step = "revoking"
    /\ sessions' = [sessions EXCEPT ![calls[c].key].revoked = TRUE]
    /\ Answer(c, "ended")
    /\ loggedOut' = loggedOut \cup {calls[c].key}
    /\ UNCHANGED <<now, accounts>>

-----------------------------------------------------------------------------
(* The environment.                                                        *)

\* The transaction fails for the caller, or the call is cancelled in it; its
\* commit may have taken effect.
CallFails(c) ==
    /\ calls[c].step \notin {"idle", "done"}
    /\ Answer(c, "error")
    /\ \/ UNCHANGED <<accounts, sessions>>
       \/ /\ calls[c].step = "creatingAccount"
          /\ accounts[calls[c].email] = None
          /\ accounts' = [accounts EXCEPT ![calls[c].email] = c]
          /\ UNCHANGED sessions
       \/ /\ calls[c].step = "creatingSession"
          /\ sessions' = [sessions EXCEPT ![c] = NewSession(c)]
          /\ UNCHANGED accounts
       \/ /\ calls[c].step = "touching"
          /\ sessions' = [sessions EXCEPT ![calls[c].key].seen = calls[c].at]
          /\ UNCHANGED accounts
       \/ /\ calls[c].step = "revoking"
          /\ sessions' = [sessions EXCEPT ![calls[c].key].revoked = TRUE]
          /\ UNCHANGED accounts
    /\ UNCHANGED <<now, loggedOut>>

Tick ==
    /\ now < MaxTime
    /\ now' = now + 1
    /\ UNCHANGED <<accounts, sessions, calls, loggedOut>>

Next ==
    \/ \E c \in Calls :
          \/ Register(c) \/ CreateAccount(c) \/ Login(c) \/ CheckPassword(c)
          \/ CreateSession(c) \/ Authenticate(c) \/ Lookup(c) \/ Touch(c)
          \/ Logout(c) \/ Revoke(c) \/ CallFails(c)
    \/ Tick

Spec == Init /\ [][Next]_vars

-----------------------------------------------------------------------------
(* Properties.                                                             *)

\* Every variable has its type.
TypeOK ==
    /\ now \in 0..MaxTime
    /\ accounts \in [Emails -> Calls \cup {None}]
    /\ sessions \in [Calls -> Session]
    /\ calls \in [Calls -> Call]
    /\ loggedOut \subseteq Calls

\* Of several registrations of one address, whatever fails or is repeated,
\* at most one is ever answered with a session, and it is the owner's.
\* (repository.py:69-101: the unique index decides, not an earlier read)
OneRegistrationWins ==
    \A c \in Calls :
        (calls[c].kind = "register" /\ calls[c].result = "issued") =>
            accounts[calls[c].email] = c

\* Every session that exists, even one whose caller was told of an error,
\* opens the account of the address it was asked for with the password of
\* that account's owner.  (service.py:48-77, 97-109)
SessionsBelongToTheirAccount ==
    \A s \in Calls :
        sessions[s].issued =>
            /\ accounts[sessions[s].email] = sessions[s].owner
            /\ sessions[s].owner = calls[s].key

\* Once a logout has been answered, no later call with its secret is served,
\* although lookup, touch and revoke are separate transactions of
\* interleaving calls.  (service.py:79-95, repository.py:108-156)
LoggedOutStaysOut ==
    \A c \in Calls : calls[c].result = "served" => ~calls[c].late

\* A request is served only while its session was younger than both limits
\* when the request came, however late its transactions run.
\* (service.py:83-87, repository.py:119-123)
ServedWithinLimits ==
    \A c \in Calls :
        calls[c].result = "served" =>
            /\ calls[c].at < calls[calls[c].key].at + AbsoluteLimit
            /\ calls[c].at < calls[calls[c].key].at + IdleLimit

\* The inductive invariant behind the theorems: what a call that has begun
\* knows, what a session row records, and what a finished logout left behind.
CallInv(c) ==
    /\ calls[c].kind \in {"register", "login"} =>
          calls[c].email \in Emails /\ calls[c].key \in Calls
    /\ calls[c].kind = "register" => calls[c].key = c
    /\ calls[c].kind \in {"authenticate", "logout"} =>
          calls[c].key \in Calls /\ sessions[calls[c].key].issued
    /\ calls[c].step \in {"creatingAccount", "readingAccount", "creatingSession"} =>
          calls[c].kind \in {"register", "login"}
    /\ calls[c].step = "creatingAccount" => calls[c].kind = "register"
    /\ calls[c].step \in {"readingSession", "touching"} =>
          calls[c].kind = "authenticate"
    /\ calls[c].step = "revoking" => calls[c].kind = "logout"
    /\ calls[c].step # "done" => calls[c].result = "none"
    /\ calls[c].step = "creatingSession" =>
          accounts[calls[c].email] = calls[c].key
    /\ calls[c].result = "issued" =>
          sessions[c].issued /\ calls[c].kind \in {"register", "login"}
    /\ calls[c].late => calls[c].key \in loggedOut
    /\ calls[c].step = "touching" \/ calls[c].result = "served" =>
          /\ calls[c].kind = "authenticate"
          /\ ~calls[c].late
          /\ calls[c].at < sessions[calls[c].key].idle
          /\ calls[c].at < sessions[calls[c].key].absolute

SessionInv(s) ==
    sessions[s].issued =>
        /\ calls[s].step = "done"
        /\ calls[s].kind \in {"register", "login"}
        /\ sessions[s].email = calls[s].email
        /\ sessions[s].owner = calls[s].key
        /\ accounts[calls[s].email] = calls[s].key
        /\ sessions[s].idle = calls[s].at + IdleLimit
        /\ sessions[s].absolute = calls[s].at + AbsoluteLimit

Inductive ==
    /\ TypeOK
    /\ \A c \in Calls : CallInv(c) /\ SessionInv(c)
    /\ \A s \in loggedOut : sessions[s].issued /\ sessions[s].revoked

\* The documented promise: "Sessions enforce idle and absolute expiry and are
\* revoked on logout" (README.md:287).  A session that served a request less
\* than the idle limit ago, inside the absolute limit, is not idle: the next
\* request is admitted.
ActiveSessionsAreAdmitted ==
    \A s, c \in Calls :
        ( /\ calls[c].kind = "authenticate" /\ calls[c].key = s
          /\ calls[c].result = "served"
          /\ now < calls[c].at + IdleLimit
          /\ now < sessions[s].absolute
          /\ ~sessions[s].revoked ) => Admits(s, now)
=============================================================================
