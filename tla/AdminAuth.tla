----------------------------- MODULE AdminAuth -----------------------------
(***************************************************************************)
(* The Web UI's admin login: core/admin_auth_service, called by concurrent *)
(* HTTP workers, and the browser side that follows it (App.svelte,         *)
(* PasswordForm.svelte and lib/api.ts).                                    *)
(*                                                                         *)
(* mutex_ makes every member function one step, except Login(): it counts  *)
(* the attempt, releases the mutex for the PBKDF2 hash, and takes it again *)
(* for the verdict.  The setup route checks IsPasswordSet() before it      *)
(* calls SetInitialPassword(), another two steps.  Passwords stand for     *)
(* themselves: hashing, hex and cookie syntax are abstracted.              *)
(***************************************************************************)
EXTENDS Naturals, FiniteSets

CONSTANTS AuthWorkers,      \* HTTP workers serving setup and login
          Browser,          \* the one of them that serves our browser
          Passwords,        \* passwords anyone may submit
          NoPassword, NoToken,
          MaxFailedLogins,  \* kMaxFailedLoginAttempts
          LockoutDuration,  \* kLoginLockoutDuration
          SessionLifetime,  \* kSessionLifetime
          MaxTime,          \* bound: ticks of the time source
          MaxLogins,        \* bound: login and setup requests
          MaxFetches        \* bound: status requests in flight

ASSUME AdminAuthAssumption ==
    /\ Browser \in AuthWorkers /\ NoPassword \notin Passwords
    /\ MaxFailedLogins \in Nat \ {0}
    /\ {LockoutDuration, SessionLifetime, MaxTime, MaxLogins, MaxFetches} \subseteq Nat

VARIABLES stored_password,  \* the secret kPasswordKey
          sessions,         \* sessions_: token -> expiry
          failed_login_attempts, locked_until,
          auth_now,         \* TimeSource::Now()
          auth_worker,      \* request of each worker, between its steps
          tokens_issued, logins_left,
          guesses,          \* attempts admitted to the hash since a success
          setup_answered,   \* passwords whose setup request was answered 200
          page, cookie, fetches, refused   \* the browser

service == <<stored_password, sessions, failed_login_attempts, locked_until>>
browser == <<page, cookie, fetches, refused>>
auth_vars == <<service, auth_now, auth_worker, tokens_issued, logins_left,
               guesses, setup_answered, browser>>

Free == [kind |-> "free"]
Drop(f, k) == [x \in DOMAIN f \ {k} |-> f[x]]
IsPasswordSet == stored_password # NoPassword
IsLoginLockedOut == auth_now < locked_until

-----------------------------------------------------------------------------
\* SweepExpiredSessions(), then a new token valid for kSessionLifetime.
SweepExpiredSessions == {t \in DOMAIN sessions : auth_now < sessions[t]}

IssueSession ==
    /\ sessions' = [t \in SweepExpiredSessions \cup {tokens_issued + 1} |->
                      IF t = tokens_issued + 1 THEN auth_now + SessionLifetime
                      ELSE sessions[t]]
    /\ tokens_issued' = tokens_issued + 1

\* GenerateSessionToken() may fail: the sweep has been done.
NoTokenToIssue ==
    /\ sessions' = [t \in SweepExpiredSessions |-> sessions[t]]
    /\ UNCHANGED tokens_issued

Request(w, kind, pw) ==
    /\ auth_worker[w] = Free /\ logins_left > 0
    /\ w = Browser => page = kind
    /\ auth_worker' = [auth_worker EXCEPT ![w] =
                         [kind |-> kind, pw |-> pw, stored_hash |-> stored_password]]
    /\ logins_left' = logins_left - 1

\* PasswordForm's handleSubmit(): a 200 sets the cookie and asks the page to
\* load its status again, as a lost race (409) and, through readErrorBody(),
\* a 401 do.  Other answers, and an answer the network loses, are shown in
\* the form.
Answered(w, ok, reload) ==
    /\ auth_worker' = [auth_worker EXCEPT ![w] = Free]
    /\ \/ /\ w = Browser
          /\ cookie' = IF ok THEN tokens_issued + 1 ELSE cookie
          /\ fetches' = IF reload THEN fetches \cup {"sent"} ELSE fetches
          /\ refused' = (refused /\ ~ok)
       \/ UNCHANGED <<cookie, fetches, refused>>
    /\ UNCHANGED page

\* POST /api/auth/setup: the check ...
SetupCheck(w, pw) ==
    /\ ~IsPasswordSet /\ Request(w, "setup", pw)
    /\ UNCHANGED <<service, auth_now, tokens_issued, guesses, setup_answered, browser>>

\* Mutant of SetInitialPassword: it trusts the route's check.
SetInitialPasswordUnchecked(w) ==
    /\ auth_worker[w].kind = "setup"
    /\ stored_password' = auth_worker[w].pw
    /\ IssueSession /\ setup_answered' = setup_answered \cup {auth_worker[w].pw}
    /\ Answered(w, TRUE, TRUE)
    /\ UNCHANGED <<failed_login_attempts, locked_until, auth_now, logins_left, guesses>>

\* ... and SetInitialPassword(), which checks again: the password is stored
\* once.  The secret store or the random source may fail (500, or 409 when
\* the password was stored and only its token is missing).
SetInitialPassword(w) ==
    /\ auth_worker[w].kind = "setup"
    /\ \/ /\ ~IsPasswordSet
          /\ stored_password' = auth_worker[w].pw
          /\ \/ /\ IssueSession /\ Answered(w, TRUE, TRUE)
                /\ setup_answered' = setup_answered \cup {auth_worker[w].pw}
             \/ NoTokenToIssue /\ Answered(w, FALSE, TRUE) /\ UNCHANGED setup_answered
       \/ /\ Answered(w, FALSE, IsPasswordSet)
          /\ UNCHANGED <<stored_password, sessions, tokens_issued, setup_answered>>
    /\ UNCHANGED <<failed_login_attempts, locked_until, auth_now, logins_left, guesses>>

\* Mutant of LoginReserve: the attempt is not counted before the hash.
LoginReserveUncounted(w, pw) ==
    /\ ~IsLoginLockedOut /\ Request(w, "login", pw)
    /\ guesses' = [n |-> guesses.n + 1, last |-> auth_now]
    /\ UNCHANGED <<service, auth_now, tokens_issued, setup_answered, browser>>

\* Login(), first locked section: the attempt is counted, and may lock the
\* service, before the password is hashed.  A locked service answers 429.
LoginReserve(w, pw) ==
    /\ ~IsLoginLockedOut /\ Request(w, "login", pw)
    /\ failed_login_attempts' = failed_login_attempts + 1
    /\ locked_until' = IF failed_login_attempts' >= MaxFailedLogins
                       THEN auth_now + LockoutDuration ELSE locked_until
    /\ guesses' = [n |-> guesses.n + 1, last |-> auth_now]
    /\ UNCHANGED <<stored_password, sessions, auth_now, tokens_issued,
                   setup_answered, browser>>

\* The hash of the submitted password is the stored one; with none stored,
\* or one that does not parse, nobody is.
Authenticated(w) == auth_worker[w].pw = auth_worker[w].stored_hash

\* Login(), after the hash (of the password stored when the attempt began):
\* a correct password clears the count and the lockout and gets a session.
LoginFinish(w) ==
    /\ auth_worker[w].kind = "login"
    /\ IF Authenticated(w)
       THEN /\ failed_login_attempts' = 0 /\ locked_until' = 0
            /\ guesses' = [n |-> 0, last |-> 0]
            /\ \/ IssueSession /\ Answered(w, TRUE, TRUE)
               \/ NoTokenToIssue /\ Answered(w, FALSE, TRUE)
       ELSE /\ Answered(w, FALSE, TRUE)
            /\ UNCHANGED <<sessions, failed_login_attempts, locked_until,
                           tokens_issued, guesses>>
    /\ UNCHANGED <<stored_password, auth_now, logins_left, setup_answered>>

-----------------------------------------------------------------------------
ValidateSession(t) == t \in DOMAIN sessions /\ auth_now < sessions[t]

\* ValidateSession() erases the expired entry it was asked about.
SessionsAfterValidating(t) ==
    IF t \in DOMAIN sessions /\ ~ValidateSession(t) THEN Drop(sessions, t) ELSE sessions

\* App.svelte's loadStatus(): GET /api/auth/status is answered from the
\* state of the service when it is served, and applied when it arrives,
\* in any order and possibly not at all.
ServeStatus ==
    /\ "sent" \in fetches
    /\ fetches' = (fetches \ {"sent"}) \cup
                  {IF ~IsPasswordSet THEN "setup"
                   ELSE IF ValidateSession(cookie) THEN "app" ELSE "login"}
    /\ sessions' = SessionsAfterValidating(cookie)
    /\ UNCHANGED <<stored_password, failed_login_attempts, locked_until, auth_now,
                   auth_worker, tokens_issued, logins_left, guesses,
                   setup_answered, page, cookie, refused>>

ApplyStatus ==
    /\ \E answer \in fetches :
          /\ fetches' = fetches \ {answer}
          /\ page' \in {"error"} \cup (IF answer = "sent" THEN {} ELSE {answer})
    /\ refused' = (refused /\ page' = "app")
    /\ UNCHANGED <<service, auth_now, auth_worker, tokens_issued, logins_left,
                   guesses, setup_answered, cookie>>

\* The Retry button, and the first load of the page.
LoadStatus ==
    /\ page \in {"loading", "error"} /\ "sent" \notin fetches
    /\ Cardinality(fetches) < MaxFetches
    /\ fetches' = fetches \cup {"sent"}
    /\ UNCHANGED <<service, auth_now, auth_worker, tokens_issued, logins_left,
                   guesses, setup_answered, page, cookie, refused>>

\* A request from the authenticated page through RequireAuth(): a 401 makes
\* notifyIfSessionExpired() load the status again.
AuthenticatedRequest ==
    /\ page = "app" /\ Cardinality(fetches) < MaxFetches
    /\ sessions' = SessionsAfterValidating(cookie)
    /\ IF ValidateSession(cookie) THEN UNCHANGED <<refused, fetches>>
       ELSE refused' = TRUE /\ fetches' = fetches \cup {"sent"}
    /\ UNCHANGED <<stored_password, failed_login_attempts, locked_until, auth_now,
                   auth_worker, tokens_issued, logins_left, guesses,
                   setup_answered, page, cookie>>

\* logout(): POST /api/auth/logout, then loadStatus() whatever came of it: the
\* request or its answer may have been lost.
Logout ==
    /\ page = "app" /\ Cardinality(fetches) < MaxFetches
    /\ \/ sessions' = Drop(sessions, cookie) /\ cookie' \in {cookie, NoToken}
       \/ UNCHANGED <<sessions, cookie>>
    /\ fetches' = fetches \cup {"sent"}
    /\ UNCHANGED <<stored_password, failed_login_attempts, locked_until, auth_now,
                   auth_worker, tokens_issued, logins_left, guesses,
                   setup_answered, page, refused>>

AuthTick ==
    /\ auth_now < MaxTime /\ auth_now' = auth_now + 1
    /\ UNCHANGED <<service, auth_worker, tokens_issued, logins_left, guesses,
                   setup_answered, browser>>

\* A restart keeps the secret store only; the browser keeps its page.
AuthRestart ==
    /\ sessions # [t \in {} |-> 0] \/ failed_login_attempts > 0
    /\ sessions' = [t \in {} |-> 0]
    /\ failed_login_attempts' = 0 /\ locked_until' = 0
    /\ guesses' = [n |-> 0, last |-> 0]
    /\ auth_worker' = [w \in AuthWorkers |-> Free]
    /\ UNCHANGED <<stored_password, auth_now, tokens_issued, logins_left,
                   setup_answered, browser>>

AuthInit ==
    /\ stored_password \in Passwords \cup {NoPassword}
    /\ sessions = [t \in {} |-> 0] /\ failed_login_attempts = 0
    /\ locked_until = 0 /\ auth_now = 1
    /\ auth_worker = [w \in AuthWorkers |-> Free]
    /\ tokens_issued = 0 /\ logins_left = MaxLogins
    /\ guesses = [n |-> 0, last |-> 0] /\ setup_answered = {}
    /\ page = "loading" /\ cookie = NoToken /\ fetches = {} /\ refused = FALSE

AuthServer == \E w \in AuthWorkers : SetInitialPassword(w) \/ LoginFinish(w)

AuthNext ==
    \/ \E w \in AuthWorkers, pw \in Passwords : SetupCheck(w, pw) \/ LoginReserve(w, pw)
    \/ AuthServer \/ ServeStatus \/ ApplyStatus \/ LoadStatus
    \/ AuthenticatedRequest \/ Logout \/ AuthTick \/ AuthRestart

AuthFairness == WF_auth_vars(ServeStatus) /\ WF_auth_vars(ApplyStatus)

AuthSpec == AuthInit /\ [][AuthNext]_auth_vars /\ AuthFairness

-----------------------------------------------------------------------------
(***************************************************************************)
(* Properties.                                                             *)
(***************************************************************************)
AuthTypeOK ==
    /\ stored_password \in Passwords \cup {NoPassword}
    /\ DOMAIN sessions \subseteq 1..tokens_issued
    /\ \A t \in DOMAIN sessions : sessions[t] \in 1..(auth_now + SessionLifetime)
    /\ failed_login_attempts \in 0..MaxLogins /\ locked_until \in Nat
    /\ \A w \in AuthWorkers : auth_worker[w].kind \in {"free", "setup", "login"}
    /\ page \in {"loading", "setup", "login", "app", "error"}
    /\ fetches \subseteq {"sent", "setup", "login", "app"} /\ refused \in BOOLEAN

\* However many workers hash at once, after kMaxFailedLoginAttempts attempts
\* without a success every further attempt waits for a whole lockout.
GuessesThrottled ==
    [][guesses'.n = guesses.n + 1 /\ guesses.n >= MaxFailedLogins
          => auth_now - guesses.last >= LockoutDuration]_auth_vars

\* Of the setup requests that race each other at most one succeeds, and its
\* password is the one that is stored.
OneSetupWins == setup_answered \subseteq {stored_password}

\* A login that succeeds lifts the lockout that its own attempt, or others
\* made during its hash, has started: a locked service always stands for
\* kMaxFailedLoginAttempts attempts since the last success.
LoginLiftsLockout == IsLoginLockedOut => guesses.n >= MaxFailedLogins

\* Workers of admin_auth_service.cpp that hash without the mutex leave one
\* password behind, that of the one setup that was told it succeeded, and no
\* lockout that a success should have lifted.
AuthSafe == AuthTypeOK /\ OneSetupWins /\ LoginLiftsLockout

\* A page whose session has ended does not dead-end: once one of its
\* requests is refused it leaves the authenticated view, unless a login
\* that was under way gives it a new session.
RefusedLeavesApp == []<>(refused => page # "app")
=============================================================================
