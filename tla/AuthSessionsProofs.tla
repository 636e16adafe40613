------------------------- MODULE AuthSessionsProofs -------------------------
(***************************************************************************)
(* Theorems about AuthSessions, for any calls, addresses and limits.       *)
(***************************************************************************)
EXTENDS AuthSessions, TLAPS

\* A call that begins knows its kind, what it was given and the time.
LEMMA BeginTyped ==
    ASSUME TypeOK, NEW c \in Calls, NEW kind \in Kind,
           NEW email \in Emails \cup {None}, NEW key \in Calls \cup {None},
           NEW step \in Step, Begin(c, kind, email, key, step)
    PROVE  TypeOK'
<1>1. [step |-> step, kind |-> kind, email |-> email, key |-> key,
       at |-> now, late |-> key \in loggedOut, result |-> "none"] \in Call
  BY DEF TypeOK, Call, Result
<1> QED
  BY <1>1 DEF TypeOK, Begin

\* Changed fields of a call and of a session row keep their types.
LEMMA CallUpdates ==
    ASSUME NEW r \in Call, NEW step \in Step, NEW result \in Result,
           NEW t \in 0..MaxTime
    PROVE  /\ [r EXCEPT !.step = step, !.result = result] \in Call
           /\ [r EXCEPT !.step = step, !.at = t] \in Call
BY DEF Call

LEMMA SessionUpdates ==
    ASSUME NEW r \in Session, NEW t \in 0..MaxTime
    PROVE  /\ [r EXCEPT !.seen = t] \in Session
           /\ [r EXCEPT !.revoked = TRUE] \in Session
BY DEF Session

LEMMA AnswerTyped ==
    ASSUME calls \in [Calls -> Call], NEW c \in Calls, NEW result \in Result,
           Answer(c, result)
    PROVE  calls' \in [Calls -> Call]
<1>1. calls[c].at \in 0..MaxTime /\ "done" \in Step
  BY DEF Call, Step
<1>2. [calls[c] EXCEPT !.step = "done", !.result = result] \in Call
  BY <1>1, CallUpdates
<1> QED
  BY <1>2 DEF Answer

LEMMA IssueTyped ==
    ASSUME calls \in [Calls -> Call], now \in 0..MaxTime, NEW c \in Calls,
           Issue(c)
    PROVE  calls' \in [Calls -> Call]
<1>1. calls[c].result \in Result /\ "creatingSession" \in Step
  BY DEF Call, Step
<1>2. [calls[c] EXCEPT !.step = "creatingSession", !.at = now] \in Call
  BY <1>1, CallUpdates
<1> QED
  BY <1>2 DEF Issue

LEMMA NewSessionTyped ==
    ASSUME TypeOK, NEW c \in Calls
    PROVE  NewSession(c) \in Session
<1>1. calls[c].at + IdleLimit \in Nat /\ calls[c].at + AbsoluteLimit \in Nat
  BY LimitAssumption DEF TypeOK, Call
<1> QED
  BY <1>1 DEF TypeOK, Call, NewSession, Session

LEMMA SeenTyped ==
    ASSUME TypeOK, NEW c \in Calls, NEW s \in Calls
    PROVE  /\ [sessions EXCEPT ![s].seen = calls[c].at] \in [Calls -> Session]
           /\ [sessions EXCEPT ![s].revoked = TRUE] \in [Calls -> Session]
<1>1. calls[c].at \in 0..MaxTime /\ sessions[s] \in Session
  BY DEF TypeOK, Call
<1>2. /\ [sessions[s] EXCEPT !.seen = calls[c].at] \in Session
      /\ [sessions[s] EXCEPT !.revoked = TRUE] \in Session
  BY <1>1, SessionUpdates
<1> QED
  BY <1>2 DEF TypeOK

\* Every step of a call keeps the types.
LEMMA TypeStep ==
    ASSUME Inductive, [Next]_vars
    PROVE  TypeOK'
<1> USE NoneAssumption
<1>0. TypeOK /\ \A c \in Calls : CallInv(c)
  BY DEF Inductive
<1>1. CASE UNCHANGED vars
  BY <1>0, <1>1 DEF TypeOK, vars
<1>2. CASE Tick
  BY <1>0, <1>2, LimitAssumption DEF Tick, TypeOK
<1>3. ASSUME NEW c \in Calls, Register(c)
      PROVE  TypeOK'
  <2>1. PICK e \in Emails : Begin(c, "register", e, c, "creatingAccount")
    BY <1>3 DEF Register
  <2> QED
    BY <1>0, <2>1, BeginTyped DEF Kind, Step
<1>4. ASSUME NEW c \in Calls, Login(c)
      PROVE  TypeOK'
  <2>1. PICK e \in Emails, password \in Calls :
           Begin(c, "login", e, password, "readingAccount")
    BY <1>4 DEF Login
  <2> QED
    BY <1>0, <2>1, BeginTyped DEF Kind, Step
<1>5. ASSUME NEW c \in Calls, Authenticate(c)
      PROVE  TypeOK'
  <2>1. PICK s \in Calls : Begin(c, "authenticate", None, s, "readingSession")
    BY <1>5 DEF Authenticate, Secrets
  <2> QED
    BY <1>0, <2>1, BeginTyped DEF Kind, Step
<1>6. ASSUME NEW c \in Calls, Logout(c)
      PROVE  TypeOK'
  <2>1. PICK s \in Calls : Begin(c, "logout", None, s, "revoking")
    BY <1>6 DEF Logout, Secrets
  <2> QED
    BY <1>0, <2>1, BeginTyped DEF Kind, Step
<1>7. ASSUME NEW c \in Calls, CreateAccount(c)
      PROVE  TypeOK'
  <2>1. calls' \in [Calls -> Call]
    BY <1>0, <1>7, AnswerTyped, IssueTyped DEF CreateAccount, TypeOK, Result
  <2>2. accounts' \in [Emails -> Calls \cup {None}]
    BY <1>0, <1>7 DEF CreateAccount, TypeOK
  <2> QED
    BY <1>0, <1>7, <2>1, <2>2 DEF CreateAccount, TypeOK
<1>8. ASSUME NEW c \in Calls, CheckPassword(c)
      PROVE  TypeOK'
  <2>1. calls' \in [Calls -> Call]
    BY <1>0, <1>8, AnswerTyped, IssueTyped DEF CheckPassword, TypeOK, Result
  <2> QED
    BY <1>0, <1>8, <2>1 DEF CheckPassword, TypeOK
<1>9. ASSUME NEW c \in Calls, CreateSession(c)
      PROVE  TypeOK'
  <2>1. calls' \in [Calls -> Call]
    BY <1>0, <1>9, AnswerTyped DEF CreateSession, TypeOK, Result
  <2>2. sessions' \in [Calls -> Session]
    BY <1>0, <1>9, NewSessionTyped DEF CreateSession, TypeOK
  <2> QED
    BY <1>0, <1>9, <2>1, <2>2 DEF CreateSession, TypeOK
<1>10. ASSUME NEW c \in Calls, Lookup(c)
       PROVE  TypeOK'
  <2>1. calls' \in [Calls -> Call]
    <3>1. CASE Answer(c, "refused")
      BY <1>0, <3>1, AnswerTyped DEF TypeOK, Result
    <3>2. CASE calls' = [calls EXCEPT ![c].step = "touching"]
      BY <1>0, <3>2 DEF TypeOK, Call, Step
    <3> QED
      BY <1>10, <3>1, <3>2 DEF Lookup
  <2> QED
    BY <1>0, <1>10, <2>1 DEF Lookup, TypeOK
<1>11. ASSUME NEW c \in Calls, Touch(c)
       PROVE  TypeOK'
  <2>1. calls' \in [Calls -> Call]
    BY <1>0, <1>11, AnswerTyped DEF Touch, TypeOK, Result
  <2>2. calls[c].key \in Calls
    BY <1>0, <1>11 DEF Touch, CallInv
  <2>3. sessions' \in [Calls -> Session]
    BY <1>0, <1>11, <2>2, SeenTyped DEF Touch
  <2> QED
    BY <1>0, <1>11, <2>1, <2>3 DEF Touch, TypeOK
<1>12. ASSUME NEW c \in Calls, Revoke(c)
       PROVE  TypeOK'
  <2>1. calls' \in [Calls -> Call]
    BY <1>0, <1>12, AnswerTyped DEF Revoke, TypeOK, Result
  <2>2. calls[c].key \in Calls
    BY <1>0, <1>12 DEF Revoke, CallInv
  <2>3. sessions' \in [Calls -> Session]
    BY <1>0, <1>12, <2>2, SeenTyped DEF Revoke
  <2> QED
    BY <1>0, <1>12, <2>1, <2>2, <2>3 DEF Revoke, TypeOK
<1>13. ASSUME NEW c \in Calls, CallFails(c)
       PROVE  TypeOK'
  <2>1. calls' \in [Calls -> Call]
    BY <1>0, <1>13, AnswerTyped DEF CallFails, TypeOK, Result
  <2>2. calls[c].step \in {"touching", "revoking"} => calls[c].key \in Calls
    BY <1>0 DEF CallInv
  <2>3. sessions' \in [Calls -> Session]
    BY <1>0, <1>13, <2>2, SeenTyped, NewSessionTyped DEF CallFails, TypeOK
  <2>4. accounts' \in [Emails -> Calls \cup {None}]
    BY <1>0, <1>13 DEF CallFails, TypeOK
  <2> QED
    BY <1>0, <1>13, <2>1, <2>3, <2>4 DEF CallFails, TypeOK
<1> QED
  BY <1>1, <1>2, <1>3, <1>4, <1>5, <1>6, <1>7, <1>8, <1>9, <1>10, <1>11,
     <1>12, <1>13 DEF Next
-----------------------------------------------------------------------------
\* What Answer, Issue and Begin leave of the calls.
LEMMA Answered ==
    ASSUME calls \in [Calls -> Call], NEW c \in Calls, NEW result,
           Answer(c, result)
    PROVE  /\ \A d \in Calls \ {c} : calls'[d] = calls[d]
           /\ calls'[c].step = "done" /\ calls'[c].result = result
           /\ calls'[c].kind = calls[c].kind /\ calls'[c].email = calls[c].email
           /\ calls'[c].key = calls[c].key /\ calls'[c].at = calls[c].at
           /\ calls'[c].late = calls[c].late
BY DEF Answer, Call

LEMMA Issuing ==
    ASSUME calls \in [Calls -> Call], NEW c \in Calls, Issue(c)
    PROVE  /\ \A d \in Calls \ {c} : calls'[d] = calls[d]
           /\ calls'[c].step = "creatingSession"
           /\ calls'[c].result = calls[c].result
           /\ calls'[c].kind = calls[c].kind /\ calls'[c].email = calls[c].email
           /\ calls'[c].key = calls[c].key /\ calls'[c].late = calls[c].late
BY DEF Issue, Call

LEMMA Begun ==
    ASSUME calls \in [Calls -> Call], NEW c \in Calls, NEW kind, NEW email,
           NEW key, NEW step, Begin(c, kind, email, key, step)
    PROVE  /\ \A d \in Calls \ {c} : calls'[d] = calls[d]
           /\ calls[c].step = "idle"
           /\ calls'[c].step = step /\ calls'[c].kind = kind
           /\ calls'[c].email = email /\ calls'[c].key = key
           /\ (calls'[c].late => key \in loggedOut) /\ calls'[c].result = "none"
           /\ UNCHANGED <<accounts, sessions, loggedOut>>
BY DEF Begin, Call

\* A step that changes one call and no row keeps what is known of the others
\* and of the rows they issued.
LEMMA OthersKept ==
    ASSUME Inductive, NEW c \in Calls, calls[c].step # "done",
           \A d \in Calls \ {c} : calls'[d] = calls[d],
           UNCHANGED <<accounts, sessions, loggedOut>>
    PROVE  /\ \A d \in Calls \ {c} : CallInv(d)'
           /\ \A d \in Calls : SessionInv(d)'
           /\ \A s \in loggedOut' : sessions'[s].issued /\ sessions'[s].revoked
<1>1. ASSUME NEW d \in Calls, sessions[d].issued
      PROVE  d # c
  BY <1>1 DEF Inductive, SessionInv
<1> QED
  BY <1>1 DEF Inductive, CallInv, SessionInv

\* A registration or login begins with what it was given; a call with a
\* secret begins only when the session of the secret has been answered.
LEMMA BeginKeeps ==
    ASSUME Inductive, TypeOK', NEW c \in Calls, NEW kind, NEW email, NEW key,
           NEW step, Begin(c, kind, email, key, step),
           \/ /\ kind \in {"register", "login"} /\ email \in Emails
              /\ key \in Calls
              /\ kind = "register" => key = c /\ step = "creatingAccount"
              /\ kind = "login" => step = "readingAccount"
           \/ /\ kind \in {"authenticate", "logout"} /\ key \in Secrets
              /\ kind = "authenticate" => step = "readingSession"
              /\ kind = "logout" => step = "revoking"
    PROVE  Inductive'
<1>1. calls \in [Calls -> Call]
  BY DEF Inductive, TypeOK
<1>2. key \in Secrets => key \in Calls /\ sessions[key].issued
  BY DEF Secrets, Inductive, CallInv
<1>3. /\ \A d \in Calls \ {c} : calls'[d] = calls[d]
      /\ calls[c].step = "idle"
      /\ calls'[c].step = step /\ calls'[c].kind = kind
      /\ calls'[c].email = email /\ calls'[c].key = key
      /\ (calls'[c].late => key \in loggedOut) /\ calls'[c].result = "none"
      /\ UNCHANGED <<accounts, sessions, loggedOut>>
  BY <1>1, Begun
<1>4. CallInv(c)'
  <2>1. CASE kind \in {"register", "login"}
    BY <1>3, <2>1 DEF CallInv
  <2>2. CASE kind \in {"authenticate", "logout"}
    BY <1>2, <1>3, <2>2 DEF CallInv
  <2> QED
    BY <2>1, <2>2
<1>5. /\ \A d \in Calls \ {c} : CallInv(d)'
      /\ \A d \in Calls : SessionInv(d)'
      /\ \A s \in loggedOut' : sessions'[s].issued /\ sessions'[s].revoked
  BY <1>3, OthersKept
<1> QED
  BY <1>4, <1>5 DEF Inductive

\* A step that sets no more than the last use and the revocation of rows keeps
\* what is known of the other calls and of the rows they issued.
LEMMA RowsKept ==
    ASSUME Inductive, NEW c \in Calls, calls[c].step # "done",
           \A d \in Calls \ {c} : calls'[d] = calls[d],
           UNCHANGED accounts, loggedOut \subseteq loggedOut',
           \A r \in Calls :
              /\ sessions'[r].issued = sessions[r].issued
              /\ sessions'[r].email = sessions[r].email
              /\ sessions'[r].owner = sessions[r].owner
              /\ sessions'[r].idle = sessions[r].idle
              /\ sessions'[r].absolute = sessions[r].absolute
    PROVE  /\ \A d \in Calls \ {c} : CallInv(d)'
           /\ \A d \in Calls : SessionInv(d)'
<1>1. ASSUME NEW d \in Calls, sessions[d].issued
      PROVE  d # c
  BY <1>1 DEF Inductive, SessionInv
<1>2. ASSUME NEW d \in Calls \ {c}
      PROVE  CallInv(d)'
  BY <1>2 DEF Inductive, CallInv
<1>3. ASSUME NEW d \in Calls
      PROVE  SessionInv(d)'
  BY <1>1, <1>3 DEF Inductive, SessionInv
<1> QED
  BY <1>2, <1>3

\* Setting the last use or the revocation of a row sets nothing else.
LEMMA RowFields ==
    ASSUME TypeOK, NEW s \in Calls, NEW t \in 0..MaxTime,
           \/ sessions' = [sessions EXCEPT ![s].seen = t]
           \/ sessions' = [sessions EXCEPT ![s].revoked = TRUE]
    PROVE  \A r \in Calls :
              /\ sessions'[r].issued = sessions[r].issued
              /\ sessions'[r].email = sessions[r].email
              /\ sessions'[r].owner = sessions[r].owner
              /\ sessions'[r].idle = sessions[r].idle
              /\ sessions'[r].absolute = sessions[r].absolute
              /\ sessions[r].revoked => sessions'[r].revoked
BY DEF TypeOK, Session

\* A new account is that of an address that had none: no session and no call
\* about to issue one relies on it.
LEMMA AccountMade ==
    ASSUME Inductive, NEW c \in Calls, calls[c].step = "creatingAccount",
           \A d \in Calls \ {c} : calls'[d] = calls[d],
           accounts[calls[c].email] = None,
           accounts' = [accounts EXCEPT ![calls[c].email] = c],
           UNCHANGED <<sessions, loggedOut>>
    PROVE  /\ \A d \in Calls \ {c} : CallInv(d)'
           /\ \A d \in Calls : SessionInv(d)'
           /\ \A s \in loggedOut' : sessions'[s].issued /\ sessions'[s].revoked
           /\ accounts'[calls[c].email] = c
<1>1. /\ calls[c].email \in Emails
      /\ accounts \in [Emails -> Calls \cup {None}]
  BY DEF Inductive, CallInv, TypeOK
<1>2. \A e \in Emails : accounts[e] \in Calls => accounts'[e] = accounts[e]
  BY <1>1, NoneAssumption
<1>3. ASSUME NEW d \in Calls \ {c}
      PROVE  CallInv(d)'
  BY <1>2, <1>3 DEF Inductive, CallInv
<1>4. ASSUME NEW d \in Calls
      PROVE  SessionInv(d)'
  <2>1. SessionInv(d) /\ CallInv(d) /\ SessionInv(c)
    BY DEF Inductive
  <2>2. sessions[d].issued => d # c
    BY <2>1 DEF SessionInv
  <2> QED
    BY <1>2, <2>1, <2>2 DEF SessionInv, CallInv
<1> QED
  BY <1>1, <1>3, <1>4 DEF Inductive

\* A new row is that of a call no other call has the secret of.
LEMMA SessionMade ==
    ASSUME Inductive, NEW c \in Calls, calls[c].step = "creatingSession",
           \A d \in Calls \ {c} : calls'[d] = calls[d],
           sessions' = [sessions EXCEPT ![c] = NewSession(c)],
           calls'[c].step = "done", calls'[c].kind = calls[c].kind,
           calls'[c].email = calls[c].email, calls'[c].key = calls[c].key,
           calls'[c].at = calls[c].at,
           UNCHANGED <<accounts, loggedOut>>
    PROVE  /\ \A d \in Calls \ {c} : CallInv(d)'
           /\ \A d \in Calls : SessionInv(d)'
           /\ \A s \in loggedOut' : sessions'[s].issued /\ sessions'[s].revoked
           /\ sessions'[c].issued
<1>1. ~sessions[c].issued
  BY DEF Inductive, SessionInv
<1>2. /\ sessions \in [Calls -> Session] /\ loggedOut \subseteq Calls
      /\ sessions'[c] = NewSession(c)
      /\ \A d \in Calls \ {c} : sessions'[d] = sessions[d]
  BY DEF Inductive, TypeOK
<1>3. ASSUME NEW d \in Calls \ {c}
      PROVE  CallInv(d)'
  <2>1. CallInv(d)
    BY DEF Inductive
  <2>2. d \in Calls /\ (calls[d].kind = "authenticate" => calls[d].key # c)
                    /\ (calls[d].kind = "logout" => calls[d].key # c)
    BY <1>1, <2>1 DEF CallInv
  <2> QED
    BY <1>2, <1>3, <2>1, <2>2 DEF CallInv
<1>4. ASSUME NEW d \in Calls \ {c}
      PROVE  SessionInv(d)'
  BY <1>2, <1>4 DEF Inductive, SessionInv
<1>5. SessionInv(c)'
  BY <1>2 DEF Inductive, CallInv, SessionInv, NewSession
<1>6. \A s \in loggedOut' : s # c /\ sessions'[s].issued /\ sessions'[s].revoked
  BY <1>1, <1>2 DEF Inductive
<1> QED
  BY <1>2, <1>3, <1>4, <1>5, <1>6 DEF NewSession

\* What is known of a call that has just been answered without a session.
LEMMA AnswerKeeps ==
    ASSUME Inductive, NEW c \in Calls, calls[c].step \notin {"idle", "done"},
           NEW result \in {"conflict", "invalid", "refused", "ended", "error"},
           Answer(c, result), loggedOut \subseteq loggedOut',
           \A r \in Calls : sessions[r].issued => sessions'[r].issued
    PROVE  CallInv(c)'
<1>1. calls \in [Calls -> Call]
  BY DEF Inductive, TypeOK
<1>2. /\ calls'[c].step = "done" /\ calls'[c].result = result
      /\ calls'[c].kind = calls[c].kind /\ calls'[c].email = calls[c].email
      /\ calls'[c].key = calls[c].key
      /\ calls'[c].late = calls[c].late
  BY <1>1, Answered
<1> QED
  BY <1>2 DEF Inductive, CallInv

\* A call that goes on to issue a session has its account.
LEMMA IssueKeeps ==
    ASSUME Inductive, NEW c \in Calls,
           calls[c].step \in {"creatingAccount", "readingAccount"},
           Issue(c), accounts'[calls[c].email] = calls[c].key,
           UNCHANGED <<sessions, loggedOut>>
    PROVE  CallInv(c)'
<1>1. calls \in [Calls -> Call]
  BY DEF Inductive, TypeOK
<1>2. /\ calls'[c].step = "creatingSession"
      /\ calls'[c].result = calls[c].result
      /\ calls'[c].kind = calls[c].kind /\ calls'[c].email = calls[c].email
      /\ calls'[c].key = calls[c].key /\ calls'[c].late = calls[c].late
  BY <1>1, Issuing
<1> QED
  BY <1>2 DEF Inductive, CallInv

\* Every step keeps the inductive invariant.
LEMMA InductiveStep ==
    ASSUME Inductive, [Next]_vars
    PROVE  Inductive'
<1>0. /\ TypeOK' /\ TypeOK /\ calls \in [Calls -> Call]
      /\ \A c \in Calls : CallInv(c) /\ SessionInv(c)
  BY TypeStep DEF Inductive, TypeOK
<1>1. CASE UNCHANGED vars
  BY <1>0, <1>1 DEF Inductive, CallInv, SessionInv, vars
<1>2. CASE Tick
  BY <1>0, <1>2 DEF Inductive, CallInv, SessionInv, Tick
<1>3. ASSUME NEW c \in Calls, Register(c)
      PROVE  Inductive'
  BY <1>0, <1>3, BeginKeeps DEF Register
<1>4. ASSUME NEW c \in Calls, Login(c)
      PROVE  Inductive'
  BY <1>0, <1>4, BeginKeeps DEF Login
<1>5. ASSUME NEW c \in Calls, Authenticate(c)
      PROVE  Inductive'
  BY <1>0, <1>5, BeginKeeps DEF Authenticate
<1>6. ASSUME NEW c \in Calls, Logout(c)
      PROVE  Inductive'
  BY <1>0, <1>6, BeginKeeps DEF Logout
<1>7. ASSUME NEW c \in Calls, CreateAccount(c)
      PROVE  Inductive'
  <2>1. CASE accounts[calls[c].email] = None
    <3>1. /\ Issue(c) /\ calls[c].step = "creatingAccount"
          /\ accounts' = [accounts EXCEPT ![calls[c].email] = c]
          /\ UNCHANGED <<sessions, loggedOut>>
      BY <1>7, <2>1 DEF CreateAccount
    <3>2. /\ \A d \in Calls \ {c} : CallInv(d)'
          /\ \A d \in Calls : SessionInv(d)'
          /\ \A s \in loggedOut' : sessions'[s].issued /\ sessions'[s].revoked
          /\ accounts'[calls[c].email] = c
      BY <1>0, <2>1, <3>1, Issuing, AccountMade
    <3>3. calls[c].key = c
      BY <1>0, <3>1 DEF CallInv
    <3>4. CallInv(c)'
      BY <3>1, <3>2, <3>3, IssueKeeps
    <3> QED
      BY <1>0, <3>2, <3>4 DEF Inductive
  <2>2. CASE accounts[calls[c].email] # None
    <3>1. /\ Answer(c, "conflict") /\ calls[c].step = "creatingAccount"
          /\ UNCHANGED <<accounts, sessions, loggedOut>>
      BY <1>7, <2>2 DEF CreateAccount
    <3>2. CallInv(c)'
      BY <3>1, AnswerKeeps
    <3> QED
      BY <1>0, <3>1, <3>2, Answered, OthersKept DEF Inductive
  <2> QED
    BY <2>1, <2>2
<1>8. ASSUME NEW c \in Calls, CheckPassword(c)
      PROVE  Inductive'
  <2>1. calls[c].step = "readingAccount" /\ UNCHANGED <<accounts, sessions, loggedOut>>
    BY <1>8 DEF CheckPassword
  <2>2. CASE accounts[calls[c].email] = calls[c].key
    <3>1. Issue(c)
      BY <1>8, <2>2 DEF CheckPassword
    <3>2. CallInv(c)'
      BY <2>1, <2>2, <3>1, IssueKeeps
    <3> QED
      BY <1>0, <2>1, <3>1, <3>2, Issuing, OthersKept DEF Inductive
  <2>3. CASE accounts[calls[c].email] # calls[c].key
    <3>1. Answer(c, "invalid")
      BY <1>8, <2>3 DEF CheckPassword
    <3>2. CallInv(c)'
      BY <2>1, <3>1, AnswerKeeps
    <3> QED
      BY <1>0, <2>1, <3>1, <3>2, Answered, OthersKept DEF Inductive
  <2> QED
    BY <2>2, <2>3
<1>9. ASSUME NEW c \in Calls, CreateSession(c)
      PROVE  Inductive'
  <2>1. /\ calls[c].step = "creatingSession" /\ Answer(c, "issued")
        /\ sessions' = [sessions EXCEPT ![c] = NewSession(c)]
        /\ UNCHANGED <<accounts, loggedOut>>
    BY <1>9 DEF CreateSession
  <2>2. /\ \A d \in Calls \ {c} : calls'[d] = calls[d]
        /\ calls'[c].step = "done" /\ calls'[c].result = "issued"
        /\ calls'[c].kind = calls[c].kind /\ calls'[c].email = calls[c].email
        /\ calls'[c].key = calls[c].key /\ calls'[c].at = calls[c].at
        /\ calls'[c].late = calls[c].late
    BY <1>0, <2>1, Answered
  <2>3. /\ \A d \in Calls \ {c} : CallInv(d)'
        /\ \A d \in Calls : SessionInv(d)'
        /\ \A s \in loggedOut' : sessions'[s].issued /\ sessions'[s].revoked
        /\ sessions'[c].issued
    BY <2>1, <2>2, SessionMade
  <2>4. CallInv(c)'
    BY <1>0, <2>1, <2>2, <2>3 DEF CallInv
  <2> QED
    BY <1>0, <2>3, <2>4 DEF Inductive
<1>10. ASSUME NEW c \in Calls, Lookup(c)
       PROVE  Inductive'
  <2>1. calls[c].step = "readingSession" /\ UNCHANGED <<accounts, sessions, loggedOut>>
    BY <1>10 DEF Lookup
  <2>2. CASE Admits(calls[c].key, calls[c].at)
    <3>1. calls' = [calls EXCEPT ![c].step = "touching"]
      BY <1>10, <2>2 DEF Lookup
    <3>2. /\ \A d \in Calls \ {c} : calls'[d] = calls[d]
          /\ calls'[c].step = "touching" /\ calls'[c].result = calls[c].result
          /\ calls'[c].kind = calls[c].kind /\ calls'[c].key = calls[c].key
          /\ calls'[c].at = calls[c].at /\ calls'[c].late = calls[c].late
      BY <1>0, <3>1 DEF Call
    <3>3. /\ calls[c].key \in Calls /\ ~calls[c].late
          /\ calls[c].at < sessions[calls[c].key].idle
          /\ calls[c].at < sessions[calls[c].key].absolute
      <4>1. calls[c].key \in Calls /\ (calls[c].late => calls[c].key \in loggedOut)
        BY <1>0, <2>1 DEF CallInv
      <4>2. ~calls[c].late
        BY <2>2, <4>1 DEF Inductive, Admits
      <4>3. calls[c].at \in Nat /\ sessions[calls[c].key] \in Session
        BY <1>0, <4>1 DEF TypeOK, Call
      <4> QED
        BY <2>2, <4>1, <4>2, <4>3 DEF Admits, Session
    <3>4. CallInv(c)'
      BY <1>0, <2>1, <3>2, <3>3 DEF CallInv
    <3> QED
      BY <1>0, <2>1, <3>2, <3>4, OthersKept DEF Inductive
  <2>3. CASE ~Admits(calls[c].key, calls[c].at)
    <3>1. Answer(c, "refused")
      BY <1>10, <2>3 DEF Lookup
    <3>2. CallInv(c)'
      BY <2>1, <3>1, AnswerKeeps
    <3> QED
      BY <1>0, <2>1, <3>1, <3>2, Answered, OthersKept DEF Inductive
  <2> QED
    BY <2>2, <2>3
<1>11. ASSUME NEW c \in Calls, Touch(c)
       PROVE  Inductive'
  <2>1. /\ calls[c].step = "touching" /\ Answer(c, "served")
        /\ sessions' = [sessions EXCEPT ![calls[c].key].seen = calls[c].at]
        /\ UNCHANGED <<accounts, loggedOut>>
    BY <1>11 DEF Touch
  <2>2. calls[c].key \in Calls /\ calls[c].at \in 0..MaxTime
    BY <1>0, <2>1 DEF CallInv, TypeOK, Call
  <2>3. \A r \in Calls :
           /\ sessions'[r].issued = sessions[r].issued
           /\ sessions'[r].email = sessions[r].email
           /\ sessions'[r].owner = sessions[r].owner
           /\ sessions'[r].idle = sessions[r].idle
           /\ sessions'[r].absolute = sessions[r].absolute
           /\ sessions[r].revoked => sessions'[r].revoked
    BY <1>0, <2>1, <2>2, RowFields
  <2>4. /\ \A d \in Calls \ {c} : calls'[d] = calls[d]
        /\ calls'[c].step = "done" /\ calls'[c].result = "served"
        /\ calls'[c].kind = calls[c].kind /\ calls'[c].email = calls[c].email
        /\ calls'[c].key = calls[c].key /\ calls'[c].at = calls[c].at
        /\ calls'[c].late = calls[c].late
    BY <1>0, <2>1, Answered
  <2>5. /\ \A d \in Calls \ {c} : CallInv(d)'
        /\ \A d \in Calls : SessionInv(d)'
    BY <2>1, <2>3, <2>4, RowsKept
  <2>6. CallInv(c)'
    BY <1>0, <2>1, <2>2, <2>3, <2>4 DEF CallInv
  <2>7. \A s \in loggedOut' : sessions'[s].issued /\ sessions'[s].revoked
    BY <1>0, <2>1, <2>3 DEF Inductive, TypeOK
  <2> QED
    BY <1>0, <2>5, <2>6, <2>7 DEF Inductive
<1>12. ASSUME NEW c \in Calls, Revoke(c)
       PROVE  Inductive'
  <2>1. /\ calls[c].step = "revoking" /\ Answer(c, "ended")
        /\ sessions' = [sessions EXCEPT ![calls[c].key].revoked = TRUE]
        /\ loggedOut' = loggedOut \cup {calls[c].key}
        /\ UNCHANGED accounts
    BY <1>12 DEF Revoke
  <2>2. /\ calls[c].key \in Calls /\ sessions[calls[c].key].issued
        /\ 0 \in 0..MaxTime
    BY <1>0, <2>1, LimitAssumption DEF CallInv
  <2>3. \A r \in Calls :
           /\ sessions'[r].issued = sessions[r].issued
           /\ sessions'[r].email = sessions[r].email
           /\ sessions'[r].owner = sessions[r].owner
           /\ sessions'[r].idle = sessions[r].idle
           /\ sessions'[r].absolute = sessions[r].absolute
           /\ sessions[r].revoked => sessions'[r].revoked
    BY <1>0, <2>1, <2>2, RowFields
  <2>4. \A d \in Calls \ {c} : calls'[d] = calls[d]
    BY <1>0, <2>1, Answered
  <2>5. /\ \A d \in Calls \ {c} : CallInv(d)'
        /\ \A d \in Calls : SessionInv(d)'
    BY <2>1, <2>3, <2>4, RowsKept
  <2>6. CallInv(c)'
    BY <2>1, <2>3, AnswerKeeps
  <2>7. sessions'[calls[c].key].revoked
    BY <1>0, <2>1, <2>2 DEF TypeOK, Session
  <2>8. \A s \in loggedOut' : sessions'[s].issued /\ sessions'[s].revoked
    BY <1>0, <2>1, <2>2, <2>3, <2>7 DEF Inductive, TypeOK
  <2> QED
    BY <1>0, <2>5, <2>6, <2>8 DEF Inductive
<1>13. ASSUME NEW c \in Calls, CallFails(c)
       PROVE  Inductive'
  <2>1. /\ calls[c].step \notin {"idle", "done"} /\ Answer(c, "error")
        /\ UNCHANGED loggedOut
    BY <1>13 DEF CallFails
  <2>2. /\ \A d \in Calls \ {c} : calls'[d] = calls[d]
        /\ calls'[c].step = "done"
        /\ calls'[c].kind = calls[c].kind /\ calls'[c].email = calls[c].email
        /\ calls'[c].key = calls[c].key /\ calls'[c].at = calls[c].at
    BY <1>0, <2>1, Answered
  <2>3. CASE UNCHANGED <<accounts, sessions>>
    <3>1. CallInv(c)'
      BY <2>1, <2>3, AnswerKeeps
    <3> QED
      BY <1>0, <2>1, <2>2, <2>3, <3>1, OthersKept DEF Inductive
  <2>4. CASE /\ calls[c].step = "creatingAccount"
             /\ accounts[calls[c].email] = None
             /\ accounts' = [accounts EXCEPT ![calls[c].email] = c]
             /\ UNCHANGED sessions
    <3>1. CallInv(c)'
      BY <2>1, <2>4, AnswerKeeps
    <3> QED
      BY <1>0, <2>1, <2>2, <2>4, <3>1, AccountMade DEF Inductive
  <2>5. CASE /\ calls[c].step = "creatingSession"
             /\ sessions' = [sessions EXCEPT ![c] = NewSession(c)]
             /\ UNCHANGED accounts
    <3>1. /\ \A d \in Calls \ {c} : CallInv(d)'
          /\ \A d \in Calls : SessionInv(d)'
          /\ \A s \in loggedOut' : sessions'[s].issued /\ sessions'[s].revoked
          /\ sessions'[c].issued
      BY <2>1, <2>2, <2>5, SessionMade
    <3>2. \A r \in Calls : sessions[r].issued => sessions'[r].issued
      BY <1>0, <2>5, <3>1 DEF TypeOK
    <3>3. CallInv(c)'
      BY <2>1, <3>2, AnswerKeeps
    <3> QED
      BY <1>0, <3>1, <3>3 DEF Inductive
  <2>6. CASE /\ calls[c].step \in {"touching", "revoking"}
             /\ \/ sessions' = [sessions EXCEPT ![calls[c].key].seen = calls[c].at]
                \/ sessions' = [sessions EXCEPT ![calls[c].key].revoked = TRUE]
             /\ UNCHANGED accounts
    <3>1. calls[c].key \in Calls /\ calls[c].at \in 0..MaxTime
      BY <1>0, <2>6 DEF CallInv, TypeOK, Call
    <3>2. \A r \in Calls :
             /\ sessions'[r].issued = sessions[r].issued
             /\ sessions'[r].email = sessions[r].email
             /\ sessions'[r].owner = sessions[r].owner
             /\ sessions'[r].idle = sessions[r].idle
             /\ sessions'[r].absolute = sessions[r].absolute
             /\ sessions[r].revoked => sessions'[r].revoked
      BY <1>0, <2>6, <3>1, RowFields
    <3>3. /\ \A d \in Calls \ {c} : CallInv(d)'
          /\ \A d \in Calls : SessionInv(d)'
      BY <2>1, <2>2, <2>6, <3>2, RowsKept
    <3>4. CallInv(c)'
      BY <2>1, <3>2, AnswerKeeps
    <3>5. \A s \in loggedOut' : sessions'[s].issued /\ sessions'[s].revoked
      BY <1>0, <2>1, <3>2 DEF Inductive, TypeOK
    <3> QED
      BY <1>0, <3>3, <3>4, <3>5 DEF Inductive
  <2> QED
    BY <1>13, <2>3, <2>4, <2>5, <2>6 DEF CallFails
<1> QED
  BY <1>1, <1>2, <1>3, <1>4, <1>5, <1>6, <1>7, <1>8, <1>9, <1>10, <1>11,
     <1>12, <1>13 DEF Next

-----------------------------------------------------------------------------
\* The inductive invariant holds of every state.
THEOREM SessionsInductive == Spec => []Inductive
<1>1. Init => Inductive
  <2> SUFFICES ASSUME Init PROVE Inductive
    OBVIOUS
  <2>1. NoSession \in Session /\ NoCall \in Call
    BY LimitAssumption DEF NoSession, Session, NoCall, Call, Kind, Step, Result
  <2>2. TypeOK
    BY <2>1, LimitAssumption DEF Init, TypeOK
  <2>3. \A c \in Calls : CallInv(c) /\ SessionInv(c)
    BY DEF Init, CallInv, SessionInv, NoSession, NoCall
  <2> QED
    BY <2>2, <2>3 DEF Init, Inductive
<1>2. Inductive /\ [Next]_vars => Inductive'
  BY InductiveStep
<1> QED
  BY <1>1, <1>2, PTL DEF Spec

\* Every variable keeps its type.
THEOREM TypesKept == Spec => []TypeOK
<1>1. Inductive => TypeOK
  BY DEF Inductive
<1> QED
  BY <1>1, SessionsInductive, PTL

\* A registration answered with a session owns its address: the unique index
\* of create_account decides.
THEOREM RegistrationIsExclusive == Spec => []OneRegistrationWins
<1>1. Inductive => OneRegistrationWins
  BY DEF Inductive, OneRegistrationWins, CallInv, SessionInv
<1> QED
  BY <1>1, SessionsInductive, PTL

\* A session opens the account whose password was given for it.
THEOREM SessionsAreOwned == Spec => []SessionsBelongToTheirAccount
<1>1. Inductive => SessionsBelongToTheirAccount
  BY DEF Inductive, SessionsBelongToTheirAccount, SessionInv
<1> QED
  BY <1>1, SessionsInductive, PTL

\* A logout that has been answered ends the session for every later call.
THEOREM LogoutIsFinal == Spec => []LoggedOutStaysOut
<1>1. Inductive => LoggedOutStaysOut
  BY DEF Inductive, LoggedOutStaysOut, CallInv
<1> QED
  BY <1>1, SessionsInductive, PTL

\* A served request came within both limits of its session.
THEOREM ServiceIsTimely == Spec => []ServedWithinLimits
<1>1. Inductive => ServedWithinLimits
  <2> SUFFICES ASSUME Inductive, NEW c \in Calls, calls[c].result = "served"
               PROVE  /\ calls[c].at < calls[calls[c].key].at + AbsoluteLimit
                      /\ calls[c].at < calls[calls[c].key].at + IdleLimit
    BY DEF ServedWithinLimits
  <2>1. /\ calls[c].key \in Calls /\ sessions[calls[c].key].issued
        /\ calls[c].at < sessions[calls[c].key].idle
        /\ calls[c].at < sessions[calls[c].key].absolute
    BY DEF Inductive, CallInv
  <2> QED
    BY <2>1 DEF Inductive, SessionInv
<1> QED
  BY <1>1, SessionsInductive, PTL
=============================================================================
