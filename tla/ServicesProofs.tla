--------------------------- MODULE ServicesProofs ---------------------------
(***************************************************************************)
(* What the services beside the two connections keep true, for any number  *)
(* of workers, images, keys and places: the boot and update sequence, the  *)
(* admin login, the settings routes, the weather provider, the settings    *)
(* pages of the Web UI, the log and the choice of a Kodi.                  *)
(*                                                                         *)
(* Each part strengthens its component's invariant with the facts that     *)
(* relate what a task read in an earlier step to what is stored now.       *)
(***************************************************************************)
EXTENDS DeviceBoot, AdminAuth, SettingsApi, WeatherProvider, SettingsPages, Logger,
        KodiDiscovery, FiniteSetTheorems, SequenceTheorems, TLAPS

-----------------------------------------------------------------------------
(* Booting, update and rollback *)

\* The slot holds an image that has served the Web UI.
Good(s) == slot[s].state = "valid" /\ slot[s].image \in Serving

\* What makes BootSafe inductive: the slot selected for the next boot is the
\* one that ran last, confirmed or on trial beside a confirmed one, or it is
\* a new one beside a confirmed one that ran last; and write_image() runs
\* only in a confirmed image, into the other slot.
BootInv ==
    /\ BootTypeOK
    /\ boot_slot # running => Good(running) /\ slot[boot_slot].state = "new"
    /\ boot_slot = running =>
          \/ Good(running)
          \/ slot[running].state = "pending" /\ Good(Other(running))
    /\ phase = "unusable" =>
          slot[running].state = "pending" /\ Good(Other(running))
    /\ writer # NoWrite =>
          /\ phase = "web_up" /\ Good(running)
          /\ writer.into = Other(running)

LEMMA BootInvInit == BootInit => BootInv
  <1> SUFFICES ASSUME BootInit PROVE BootInv
    OBVIOUS
  <1>1. /\ slot[0] = [image |-> Factory, state |-> "valid"]
        /\ boot_slot = 0 /\ running = 0 /\ phase = "off" /\ writer = NoWrite
    BY DEF BootInit
  <1>2. BootTypeOK
    <2>1. \A x \in 0..1 : (IF x = 0 THEN [image |-> Factory, state |-> "valid"]
                           ELSE [image |-> Blank, state |-> "empty"])
             \in [image : Images \cup {Blank},
                  state : {"empty", "new", "pending", "valid", "aborted"}]
      BY DeviceBootAssumption
    <2>2. slot \in [0..1 -> [image : Images \cup {Blank},
                  state : {"empty", "new", "pending", "valid", "aborted"}]]
      BY <2>1 DEF BootInit
    <2>3. reboot_timer \in BOOLEAN
      BY Zenon DEF BootInit
    <2>4. uploads_left \in 0..MaxUploads
      BY DeviceBootAssumption DEF BootInit
    <2> QED
      BY <1>1, <2>2, <2>3, <2>4 DEF BootTypeOK
  <1>3. Good(running)
    BY <1>1, DeviceBootAssumption DEF Good
  <1> QED
    BY <1>1, <1>2, <1>3 DEF BootInv

LEMMA BootInvImplies == BootInv => BootSafe
  <1> SUFFICES ASSUME BootInv PROVE WorkingImageKept /\ UnusableRollsBack
    BY DEF BootSafe, BootInv
  <1>1. running \in 0..1 /\ Other(running) \in 0..1
    BY DEF BootInv, BootTypeOK, Other
  <1>2. WorkingImageKept
    <2>1. CASE Good(running)
      BY <1>1, <2>1 DEF BootInv, Good, WorkingImageKept
    <2>2. CASE ~Good(running)
      BY <1>1, <2>2 DEF BootInv, Good, WorkingImageKept
    <2> QED
      BY <2>1, <2>2
  <1>3. UnusableRollsBack
    BY DEF BootInv, Good, UnusableRollsBack
  <1> QED
    BY <1>2, <1>3

LEMMA BootInvStep == BootInv /\ [BootNext]_boot_vars => BootInv'
  <1> SUFFICES ASSUME BootInv, [BootNext]_boot_vars PROVE BootInv'
    OBVIOUS
  <1> USE DeviceBootAssumption
  <1>0. /\ running \in 0..1 /\ boot_slot \in 0..1
        /\ Other(running) \in 0..1 /\ Other(running) # running
        /\ Other(boot_slot) \in 0..1 /\ Other(boot_slot) # boot_slot
        /\ boot_slot # running => boot_slot = Other(running)
                                  /\ running = Other(boot_slot)
    BY DEF BootInv, BootTypeOK, Other
  <1>1. CASE Bootloader
    BY <1>0, <1>1 DEF Bootloader, BootInv, BootTypeOK, Good, Other
  <1>2. CASE FinalizeBootAfterWifiConnected
    BY <1>0, <1>2 DEF FinalizeBootAfterWifiConnected, BootInv, BootTypeOK, Good
  <1>3. ASSUME NEW image \in Images, OtaBegin(image) PROVE BootInv'
    BY <1>0, <1>3 DEF OtaBegin, BootInv, BootTypeOK, Good, next_update_partition
  <1>4. CASE OtaWrite
    BY <1>0, <1>4 DEF OtaWrite, BootInv, BootTypeOK, Good, NoWrite
  <1>5. CASE OtaEnd
    BY <1>0, <1>5 DEF OtaEnd, BootInv, BootTypeOK, Good, NoWrite
  <1>6. CASE OtaSetBoot
    BY <1>0, <1>6 DEF OtaSetBoot, BootInv, BootTypeOK, Good, NoWrite
  <1>7. CASE OtaReboot
    BY <1>7 DEF OtaReboot, BootInv, BootTypeOK, Good
  <1>8. CASE RebootTimerFires \/ PowerLoss
    BY <1>8 DEF RebootTimerFires, PowerLoss, Restarted, BootInv, BootTypeOK, Good
  <1>9. CASE UNCHANGED boot_vars
    BY <1>9 DEF boot_vars, BootInv, BootTypeOK, Good
  <1> QED
    BY <1>1, <1>2, <1>3, <1>4, <1>5, <1>6, <1>7, <1>8, <1>9 DEF BootNext

\* Whatever images are uploaded, and whenever power fails or a scheduled
\* reboot fires, a slot with an image that served the Web UI is kept and
\* reached, and FinalizeBootAfterWifiConnected() confirms no other.
THEOREM BootSafeHolds == BootSpec => []BootSafe
  BY BootInvInit, BootInvImplies, BootInvStep, PTL DEF BootSpec

-----------------------------------------------------------------------------
(* The admin login *)

Requests == {Free} \cup [kind : {"setup", "login"}, pw : Passwords,
                         stored_hash : Passwords \cup {NoPassword}]

\* What the service keeps between the two halves of Login(): every attempt
\* admitted to the hash is counted, and at the limit the lockout dates from
\* the last one of them.
ThrottleInv ==
    /\ guesses \in [n : Nat, last : Nat]
    /\ auth_now \in Nat \ {0} /\ locked_until \in Nat
    /\ guesses.n = failed_login_attempts
    /\ IsLoginLockedOut => guesses.n >= MaxFailedLogins
    /\ guesses.n >= MaxFailedLogins
          => locked_until = guesses.last + LockoutDuration
    /\ logins_left \in Nat /\ failed_login_attempts + logins_left <= MaxLogins

\* Who may have been told that the setup succeeded.
SetupInv ==
    /\ auth_worker \in [AuthWorkers -> Requests]
    /\ stored_password \in Passwords \cup {NoPassword}
    /\ setup_answered \subseteq Passwords
    /\ OneSetupWins

\* Tokens are numbered, and none outlives kSessionLifetime.
SessionInv ==
    /\ tokens_issued \in Nat
    /\ DOMAIN sessions \subseteq 1..tokens_issued
    /\ \A t \in DOMAIN sessions : sessions[t] \in 1..(auth_now + SessionLifetime)

BrowserInv ==
    /\ page \in {"loading", "setup", "login", "app", "error"}
    /\ fetches \subseteq {"sent", "setup", "login", "app"} /\ refused \in BOOLEAN

AuthInv == ThrottleInv /\ SetupInv /\ SessionInv /\ BrowserInv

LEMMA AuthInvInit == AuthInit => AuthInv
  <1> SUFFICES ASSUME AuthInit PROVE AuthInv
    OBVIOUS
  <1> USE AdminAuthAssumption
  <1>1. ThrottleInv
    BY DEF AuthInit, ThrottleInv, IsLoginLockedOut
  <1>2. SetupInv
    BY DEF AuthInit, SetupInv, Requests, OneSetupWins
  <1>3. SessionInv
    BY DEF AuthInit, SessionInv
  <1>4. refused \in BOOLEAN
    BY Zenon DEF AuthInit
  <1>5. BrowserInv
    BY <1>4 DEF AuthInit, BrowserInv
  <1> QED
    BY <1>1, <1>2, <1>3, <1>5 DEF AuthInv

LEMMA AuthInvImplies == AuthInv => AuthSafe
  <1> SUFFICES ASSUME AuthInv PROVE AuthTypeOK /\ OneSetupWins /\ LoginLiftsLockout
    BY DEF AuthSafe
  <1>1. failed_login_attempts \in 0..MaxLogins
    BY AdminAuthAssumption DEF AuthInv, ThrottleInv
  <1>2. \A w \in AuthWorkers : auth_worker[w].kind \in {"free", "setup", "login"}
    BY DEF AuthInv, SetupInv, Requests, Free
  <1>3. AuthTypeOK
    BY <1>1, <1>2 DEF AuthInv, SetupInv, ThrottleInv, SessionInv, BrowserInv,
                      AuthTypeOK
  <1> QED
    BY <1>3 DEF AuthInv, SetupInv, ThrottleInv, LoginLiftsLockout

\* Sessions: issued, swept, validated, dropped or all forgotten.
LEMMA SessionInvStep ==
    ASSUME AuthInv, [AuthNext]_auth_vars
    PROVE  SessionInv'
  <1> USE AdminAuthAssumption
  <1>0. /\ tokens_issued \in Nat /\ auth_now \in Nat \ {0} /\ SessionLifetime \in Nat
        /\ auth_now' \in {auth_now, auth_now + 1}
    BY DEF AuthInv, ThrottleInv, SessionInv, AuthNext, AuthServer, SetupCheck,
           LoginReserve, SetInitialPassword, LoginFinish, ServeStatus,
           ApplyStatus, LoadStatus, AuthenticatedRequest, Logout, AuthTick,
           AuthRestart, auth_vars
  <1>1. ASSUME IssueSession PROVE SessionInv'
    BY <1>0, <1>1 DEF IssueSession, SweepExpiredSessions, AuthInv, SessionInv
  <1>2. ASSUME NoTokenToIssue PROVE SessionInv'
    BY <1>0, <1>2 DEF NoTokenToIssue, SweepExpiredSessions, AuthInv, SessionInv
  <1>3. ASSUME UNCHANGED <<sessions, tokens_issued>> PROVE SessionInv'
    BY <1>0, <1>3 DEF AuthInv, SessionInv
  <1>4. ASSUME NEW t, sessions' = SessionsAfterValidating(t),
               UNCHANGED tokens_issued
        PROVE  SessionInv'
    BY <1>0, <1>4 DEF SessionsAfterValidating, Drop, AuthInv, SessionInv
  <1>5. CASE Logout
    BY <1>0, <1>5 DEF Logout, Drop, AuthInv, SessionInv
  <1>6. CASE AuthRestart
    BY <1>0, <1>6 DEF AuthRestart, AuthInv, SessionInv
  <1>7. CASE AuthServer
    BY <1>1, <1>2, <1>3, <1>7
       DEF AuthServer, SetInitialPassword, LoginFinish
  <1>8. CASE ServeStatus \/ AuthenticatedRequest
    BY <1>4, <1>8 DEF ServeStatus, AuthenticatedRequest
  <1>9. ASSUME NEW w \in AuthWorkers, NEW pw \in Passwords,
               SetupCheck(w, pw) \/ LoginReserve(w, pw)
        PROVE  SessionInv'
    BY <1>3, <1>9 DEF SetupCheck, LoginReserve, service
  <1>10. CASE ApplyStatus \/ LoadStatus \/ AuthTick \/ UNCHANGED auth_vars
    BY <1>3, <1>10 DEF ApplyStatus, LoadStatus, AuthTick, auth_vars, service
  <1> QED
    BY <1>5, <1>6, <1>7, <1>8, <1>9, <1>10 DEF AuthNext

LEMMA BrowserInvStep ==
    ASSUME AuthInv, [AuthNext]_auth_vars
    PROVE  BrowserInv'
  <1>1. ASSUME NEW w, NEW ok, NEW reload, Answered(w, ok, reload)
        PROVE  BrowserInv'
    <2>1. refused' \in BOOLEAN
      BY <1>1, Zenon DEF Answered, AuthInv, BrowserInv
    <2> QED
      BY <1>1, <2>1 DEF Answered, AuthInv, BrowserInv
  <1>2. ASSUME UNCHANGED browser PROVE BrowserInv'
    BY <1>2 DEF browser, AuthInv, BrowserInv
  <1>3. CASE AuthServer
    BY <1>1, <1>3 DEF AuthServer, SetInitialPassword, LoginFinish
  <1>4. CASE ApplyStatus
    <2>1. refused' \in BOOLEAN
      BY <1>4, Zenon DEF ApplyStatus, AuthInv, BrowserInv
    <2> QED
      BY <1>4, <2>1 DEF ApplyStatus, AuthInv, BrowserInv
  <1>5. CASE AuthenticatedRequest
    <2>1. refused' \in BOOLEAN
      BY <1>5, Zenon DEF AuthenticatedRequest, AuthInv, BrowserInv
    <2> QED
      BY <1>5, <2>1 DEF AuthenticatedRequest, AuthInv, BrowserInv
  <1>6. CASE ServeStatus
    BY <1>6 DEF ServeStatus, AuthInv, BrowserInv
  <1>7. CASE LoadStatus \/ Logout
    BY <1>7 DEF LoadStatus, Logout, AuthInv, BrowserInv
  <1>8. ASSUME NEW w \in AuthWorkers, NEW pw \in Passwords,
               SetupCheck(w, pw) \/ LoginReserve(w, pw)
        PROVE  BrowserInv'
    BY <1>2, <1>8 DEF SetupCheck, LoginReserve
  <1>9. CASE AuthTick \/ AuthRestart \/ UNCHANGED auth_vars
    BY <1>2, <1>9 DEF AuthTick, AuthRestart, auth_vars
  <1> QED
    BY <1>3, <1>4, <1>5, <1>6, <1>7, <1>8, <1>9 DEF AuthNext

\* A worker's request begins or ends; the password is stored at most once.
LEMMA SetupInvStep ==
    ASSUME AuthInv, [AuthNext]_auth_vars
    PROVE  SetupInv'
  <1> USE AdminAuthAssumption
  <1>1. ASSUME NEW w \in AuthWorkers, NEW pw \in Passwords, NEW kind \in {"setup", "login"},
               Request(w, kind, pw), UNCHANGED <<stored_password, setup_answered>>
        PROVE  SetupInv'
    <2>1. [kind |-> kind, pw |-> pw, stored_hash |-> stored_password] \in Requests
      BY DEF AuthInv, SetupInv, Requests
    <2> QED
      BY <1>1, <2>1 DEF Request, AuthInv, SetupInv, OneSetupWins
  <1>2. ASSUME NEW w \in AuthWorkers, NEW ok, NEW reload, Answered(w, ok, reload)
        PROVE  auth_worker' \in [AuthWorkers -> Requests]
    BY <1>2 DEF Answered, AuthInv, SetupInv, Requests
  <1>3. ASSUME NEW w \in AuthWorkers, SetInitialPassword(w) PROVE SetupInv'
    <2>1. auth_worker' \in [AuthWorkers -> Requests]
      BY <1>2, <1>3 DEF SetInitialPassword
    <2>2. CASE UNCHANGED <<stored_password, setup_answered>>
      BY <2>1, <2>2 DEF AuthInv, SetupInv, OneSetupWins
    <2>3. CASE /\ ~IsPasswordSet /\ stored_password' = auth_worker[w].pw
               /\ setup_answered' \subseteq setup_answered \cup {auth_worker[w].pw}
      <3>1. auth_worker[w].pw \in Passwords
        BY <1>3 DEF SetInitialPassword, AuthInv, SetupInv, Requests, Free
      <3>2. setup_answered = {}
        BY <2>3 DEF IsPasswordSet, AuthInv, SetupInv, OneSetupWins
      <3> QED
        BY <2>1, <2>3, <3>1, <3>2 DEF SetupInv, OneSetupWins
    <2> QED
      BY <1>3, <2>2, <2>3 DEF SetInitialPassword
  <1>4. ASSUME NEW w \in AuthWorkers, LoginFinish(w) PROVE SetupInv'
    <2>1. auth_worker' \in [AuthWorkers -> Requests]
      BY <1>2, <1>4 DEF LoginFinish
    <2> QED
      BY <1>4, <2>1 DEF LoginFinish, AuthInv, SetupInv, OneSetupWins
  <1>5. ASSUME UNCHANGED <<stored_password, setup_answered>>,
               auth_worker' \in {auth_worker, [w \in AuthWorkers |-> Free]}
        PROVE  SetupInv'
    BY <1>5 DEF AuthInv, SetupInv, OneSetupWins, Requests
  <1>6. ASSUME NEW w \in AuthWorkers, NEW pw \in Passwords,
               SetupCheck(w, pw) \/ LoginReserve(w, pw)
        PROVE  SetupInv'
    BY <1>1, <1>6 DEF SetupCheck, LoginReserve, service
  <1>7. CASE \/ ServeStatus \/ ApplyStatus \/ LoadStatus \/ AuthenticatedRequest
             \/ Logout \/ AuthTick \/ AuthRestart \/ UNCHANGED auth_vars
    BY <1>5, <1>7 DEF ServeStatus, ApplyStatus, LoadStatus, AuthenticatedRequest,
                      Logout, AuthTick, AuthRestart, auth_vars, service
  <1> QED
    BY <1>3, <1>4, <1>6, <1>7 DEF AuthNext, AuthServer

\* One attempt more, a success or a restart that forgets them all, the clock.
LEMMA ThrottleInvStep ==
    ASSUME AuthInv, [AuthNext]_auth_vars
    PROVE  /\ ThrottleInv'
           /\ guesses'.n = guesses.n + 1 /\ guesses.n >= MaxFailedLogins
                 => auth_now - guesses.last >= LockoutDuration
  <1> USE AdminAuthAssumption
  <1> DEFINE Throttled == guesses'.n = guesses.n + 1 /\ guesses.n >= MaxFailedLogins
                             => auth_now - guesses.last >= LockoutDuration
  <1>0. ThrottleInv
    BY DEF AuthInv
  <1>1. ASSUME NEW w \in AuthWorkers, NEW pw \in Passwords, LoginReserve(w, pw)
        PROVE  ThrottleInv' /\ Throttled
    BY <1>0, <1>1 DEF LoginReserve, Request, IsLoginLockedOut, ThrottleInv
  <1>2. ASSUME NEW w \in AuthWorkers, NEW pw \in Passwords, SetupCheck(w, pw)
        PROVE  ThrottleInv' /\ Throttled
    BY <1>0, <1>2 DEF SetupCheck, Request, service, IsLoginLockedOut, ThrottleInv
  <1>3. ASSUME NEW w \in AuthWorkers, LoginFinish(w)
        PROVE  ThrottleInv' /\ Throttled
    <2>1. CASE UNCHANGED <<failed_login_attempts, locked_until, guesses, auth_now,
                           logins_left>>
      BY <1>0, <2>1 DEF IsLoginLockedOut, ThrottleInv
    <2>2. CASE /\ failed_login_attempts' = 0 /\ locked_until' = 0
               /\ guesses' = [n |-> 0, last |-> 0] /\ UNCHANGED <<auth_now, logins_left>>
      BY <1>0, <2>2 DEF IsLoginLockedOut, ThrottleInv
    <2> QED
      BY <1>3, <2>1, <2>2 DEF LoginFinish
  <1>4. CASE AuthRestart
    BY <1>0, <1>4 DEF AuthRestart, IsLoginLockedOut, ThrottleInv
  <1>5. CASE AuthTick
    BY <1>0, <1>5 DEF AuthTick, service, IsLoginLockedOut, ThrottleInv
  <1>6. ASSUME UNCHANGED <<failed_login_attempts, locked_until, guesses, auth_now,
                           logins_left>>
        PROVE  ThrottleInv' /\ Throttled
    BY <1>0, <1>6 DEF IsLoginLockedOut, ThrottleInv
  <1>7. ASSUME NEW w \in AuthWorkers, SetInitialPassword(w)
        PROVE  ThrottleInv' /\ Throttled
    BY <1>6, <1>7 DEF SetInitialPassword
  <1>8. CASE \/ ServeStatus \/ ApplyStatus \/ LoadStatus \/ AuthenticatedRequest
             \/ Logout \/ UNCHANGED auth_vars
    BY <1>6, <1>8 DEF ServeStatus, ApplyStatus, LoadStatus, AuthenticatedRequest,
                      Logout, auth_vars, service
  <1> QED
    BY <1>1, <1>2, <1>3, <1>4, <1>5, <1>7, <1>8 DEF AuthNext, AuthServer

LEMMA AuthInvAlways == AuthSpec => []AuthInv
  <1>1. AuthInv /\ [AuthNext]_auth_vars => AuthInv'
    BY SetupInvStep, ThrottleInvStep, SessionInvStep, BrowserInvStep DEF AuthInv
  <1> QED
    BY <1>1, AuthInvInit, PTL DEF AuthSpec

\* For any number of HTTP workers that set up, log in and hash at once: one
\* setup is told it succeeded and its password is the stored one, and a
\* service is locked only while the limit of attempts is reached.
THEOREM AuthSafeHolds == AuthSpec => []AuthSafe
  BY AuthInvAlways, AuthInvImplies, PTL

\* Whatever the number of workers between the halves of Login(), once
\* kMaxFailedLoginAttempts attempts were admitted without a success each
\* further one comes a whole kLoginLockoutDuration after the one before.
THEOREM GuessesThrottledHolds == AuthSpec => GuessesThrottled
  <1> DEFINE Throttled == guesses'.n = guesses.n + 1 /\ guesses.n >= MaxFailedLogins
                             => auth_now - guesses.last >= LockoutDuration
  <1>1. AuthInv /\ [AuthNext]_auth_vars => [Throttled]_auth_vars
    BY ThrottleInvStep
  <1> QED
    BY <1>1, AuthInvAlways, PTL DEF AuthSpec, GuessesThrottled

-----------------------------------------------------------------------------
(* Settings, backup and restore *)

\* The store, the backup made of it and the name resolved from it.
StoreInv ==
    /\ settings \in [SettingKeys -> SettingValues \cup {Unset}]
    /\ StoredValid
    /\ backup \in Seq([key : SettingKeys, value : SettingValues])
    /\ NameOf(settings) \in persisted_names
    /\ NameNeverAhead
    /\ disturbed \subseteq HttpWorkers /\ writes_left \in 0..MaxSettingWrites

Announcements == [kind : {"announce"}, name : SettingValues]

Restores == [kind : {"restore", "answered"}, file : Seq(FileEntries \cup {Junk}),
             next : Nat, applied : Nat, skipped : Nat, failed : Nat, rejected : Nat]

\* How far a restore is: the entries before next are accounted for, and if
\* all of them were applied and nobody else wrote, the store has them.
RestoreSound(r, alone, store) ==
    /\ r.next \in 1..(Len(r.file) + 1)
    /\ r.applied + r.skipped + r.failed + r.rejected = r.next - 1
    /\ r.kind = "answered" => r.next = Len(r.file) + 1
    /\ r.applied = r.next - 1 =>
          \A i \in 1..(r.next - 1) : r.file[i] \in FileEntries
                                     /\ r.file[i].key \in SettingKeys
    /\ r.applied = r.next - 1 /\ alone =>
          \A i \in 1..(r.next - 1) :
             LastOfKey(r.file, i, r.next - 1) => store[r.file[i].key] = r.file[i].value

\* What each worker is in the middle of.
RequestInv ==
    /\ request \in [HttpWorkers -> {Ready} \cup Announcements \cup Restores]
    /\ \A w \in HttpWorkers :
          /\ request[w] \in Announcements => request[w].name \in persisted_names
          /\ request[w] \in Restores =>
                RestoreSound(request[w], w \notin disturbed, settings)

SettingsInv == StoreInv /\ RequestInv

LEMMA SettingsInvInit == SettingsInit => SettingsInv
  <1> SUFFICES ASSUME SettingsInit PROVE SettingsInv
    OBVIOUS
  <1> USE SettingsAssumption
  <1>1. StoreInv
    BY DEF SettingsInit, StoreInv, StoredValid, NameOf, NameNeverAhead
  <1>2. RequestInv
    BY DEF SettingsInit, RequestInv, Ready, Announcements, Restores
  <1> QED
    BY <1>1, <1>2 DEF SettingsInv

LEMMA SeqElement ==
    ASSUME NEW S, NEW q \in Seq(S), NEW i \in 1..Len(q)
    PROVE  q[i] \in S
  OBVIOUS

LEMMA SettingsInvImplies == SettingsInv => SettingsSafe
  <1> SUFFICES ASSUME SettingsInv PROVE SettingsSafe
    OBVIOUS
  <1>1. SettingsTypeOK /\ StoredValid /\ NameNeverAhead
    <2>1. StoreInv
      BY DEF SettingsInv
    <2> DEFINE R == [key : SettingKeys, value : SettingValues]
    <2>2. backup \in Seq(R) /\ \A e \in R : e.key \in SettingKeys
      BY <2>1 DEF StoreInv
    <2> HIDE DEF R
    <2>3. \A i \in 1..Len(backup) : backup[i].key \in SettingKeys
      BY <2>2, SeqElement
    <2> QED
      BY <2>1, <2>3 DEF StoreInv, SettingsTypeOK
  <1>2. ASSUME NEW w \in HttpWorkers, request[w].kind = "answered"
        PROVE  /\ request[w] \in Restores
               /\ RestoreSound(request[w], w \notin disturbed, settings)
    BY <1>2 DEF SettingsInv, RequestInv, Ready, Announcements
  <1>3. RestoreAccounts
    BY <1>2 DEF RestoreAccounts, RestoreSound, Restores
  <1>4. RestoreReproduces
    <2> SUFFICES ASSUME NEW w \in HttpWorkers, request[w].kind = "answered",
                        w \notin disturbed,
                        request[w].applied = Len(request[w].file),
                        NEW i \in 1..Len(request[w].file),
                        LastOfKey(request[w].file, i, Len(request[w].file))
                 PROVE  settings[request[w].file[i].key] = request[w].file[i].value
      BY DEF RestoreReproduces
    <2> DEFINE r == request[w]
    <2>1. r \in Restores /\ RestoreSound(r, w \notin disturbed, settings)
      BY <1>2
    <2>2. Len(r.file) \in Nat /\ r.next \in Nat
      BY <2>1 DEF Restores
    <2> HIDE DEF r
    <2>3. r.next - 1 = Len(r.file)
      BY <2>1, <2>2 DEF RestoreSound, r
    <2> QED
      BY <2>1, <2>3 DEF RestoreSound, r
  <1> QED
    BY <1>1, <1>3, <1>4 DEF SettingsSafe

LEMMA SeqWidens ==
    ASSUME NEW S, NEW T, S \subseteq T, NEW q \in Seq(S)
    PROVE  q \in Seq(T)
  OBVIOUS

\* The library's SetToSeq lists a finite set.
LEMMA SetToSeqLists ==
    ASSUME NEW S, IsFiniteSet(S)
    PROVE  SetToSeq(S) \in Seq(S)
  <1>1. PICK f \in Bijection(1..Cardinality(S), S) : TRUE
    BY FS_CardinalityType DEF ExistsBijection
  <1>2. f \in [1..Cardinality(S) -> S] /\ IsInjective(f)
    BY <1>1 DEF Bijection, Injection
  <1>3. SetToSeq(S) \in [1..Cardinality(S) -> S]
    BY <1>2 DEF SetToSeq
  <1> QED
    BY <1>3, FS_CardinalityType

\* What GET /api/backup answers is a list of settings.
LEMMA BackupTyped ==
    ASSUME StoreInv
    PROVE  ListAllSettings \in Seq([key : SettingKeys, value : SettingValues])
  <1> DEFINE E == {e \in ListAll : ~IsReservedSettingsKey(e.key)}
             f == [e \in E |-> e.key]
  <1>1. E \subseteq [key : SettingKeys, value : SettingValues]
    BY DEF ListAll, StoreInv
  <1>2. \A e \in E : e = [key |-> e.key, value |-> settings[e.key]] /\ e.key \in SettingKeys
    BY DEF ListAll, StoreInv
  <1>3. \A a, b \in E : a.key = b.key => a = b
    BY <1>2
  <1>4. f \in Injection(E, SettingKeys)
    BY <1>2, <1>3 DEF Injection, IsInjective
  <1>5. IsFiniteSet(E)
    BY <1>4, FS_Injection, SettingsAssumption
  <1>6. SetToSeq(E) \in Seq(E)
    BY <1>5, SetToSeqLists
  <1>7. ListAllSettings = SetToSeq(E)
    BY DEF ListAllSettings
  <1> HIDE DEF E
  <1> QED
    BY <1>1, <1>6, <1>7, SeqWidens

\* The routes' variables that are not the store's values.
RouteFrame ==
    /\ backup' = backup /\ advertised' \in {advertised, NameOf(settings)}
    /\ disturbed' \subseteq HttpWorkers /\ writes_left' \in 0..MaxSettingWrites

\* Storage::SetSetting() with a value the key's validator accepts.
LEMMA SetSettingKeeps ==
    ASSUME StoreInv, NEW key \in SettingKeys, NEW value \in ValidFor[key],
           NEW ok \in BOOLEAN, SetSetting(key, value, ok), RouteFrame
    PROVE  /\ StoreInv' /\ persisted_names \subseteq persisted_names'
           /\ ok => settings' = [settings EXCEPT ![key] = value]
  <1> USE SettingsAssumption
  <1> DEFINE new == [settings EXCEPT ![key] = value]
  <1>1. /\ DOMAIN settings \cup {key} = SettingKeys
        /\ key # ReservedKey /\ value \in SettingValues
    BY DEF StoreInv
  <1>2. [k \in DOMAIN settings \cup {key} |-> IF k = key THEN value ELSE settings[k]] = new
    BY <1>1 DEF StoreInv
  <1>3. /\ settings' \in {settings, new}
        /\ ok => settings' = new
        /\ persisted_names' = persisted_names \cup {NameOf(settings')}
    BY <1>1, <1>2 DEF SetSetting, IsReservedSettingsKey, NvsSetBlob
  <1>4. /\ new \in [SettingKeys -> SettingValues \cup {Unset}]
        /\ \A k \in SettingKeys : new[k] \in ValidFor[k] \cup {Unset}
    BY <1>1 DEF StoreInv, StoredValid
  <1>5. settings' \in [SettingKeys -> SettingValues \cup {Unset}] /\ StoredValid'
    BY <1>3, <1>4 DEF StoreInv, StoredValid
  <1>6. NameOf(settings)' \in persisted_names' /\ NameNeverAhead'
    BY <1>3 DEF StoreInv, RouteFrame, NameNeverAhead, NameOf
  <1> QED
    BY <1>3, <1>5, <1>6 DEF StoreInv, RouteFrame

LEMMA EraseKeeps ==
    ASSUME StoreInv, NEW key \in SettingKeys, NvsEraseBlob(key), RouteFrame
    PROVE  StoreInv' /\ persisted_names \subseteq persisted_names'
  <1>1. /\ settings' \in {settings, [settings EXCEPT ![key] = Unset]}
        /\ persisted_names' = persisted_names \cup {NameOf(settings')}
    BY DEF NvsEraseBlob
  <1>2. settings' \in [SettingKeys -> SettingValues \cup {Unset}] /\ StoredValid'
    BY <1>1 DEF StoreInv, StoredValid
  <1>3. NameOf(settings)' \in persisted_names' /\ NameNeverAhead'
    BY <1>1 DEF StoreInv, RouteFrame, NameNeverAhead, NameOf
  <1> QED
    BY <1>1, <1>2, <1>3 DEF StoreInv, RouteFrame

\* A restore that is no longer alone is sound whatever is stored.
LEMMA DisturbedSound ==
    ASSUME NEW r \in Restores, NEW alone, NEW old, NEW new,
           RestoreSound(r, alone, old)
    PROVE  RestoreSound(r, FALSE, new)
  BY DEF RestoreSound

\* Worker w writes the store and goes on with next_request; the restores of
\* the others are disturbed.
LEMMA WriterKeepsRequests ==
    ASSUME RequestInv, NEW w \in HttpWorkers,
           NEW next_request \in {Ready} \cup Announcements \cup Restores,
           request' = [request EXCEPT ![w] = next_request], Writes(w),
           persisted_names \subseteq persisted_names',
           next_request \in Announcements => next_request.name \in persisted_names',
           next_request \in Restores =>
              RestoreSound(next_request, w \notin disturbed', settings')
    PROVE  RequestInv'
  <1>1. request' \in [HttpWorkers -> {Ready} \cup Announcements \cup Restores]
        /\ request'[w] = next_request
        /\ \A v \in HttpWorkers \ {w} : request'[v] = request[v] /\ v \in disturbed'
    BY DEF RequestInv, Writes
  <1>2. ASSUME NEW v \in HttpWorkers \ {w}, request[v] \in Restores
        PROVE  RestoreSound(request[v], FALSE, settings')
    BY <1>2, DisturbedSound DEF RequestInv
  <1>3. ASSUME NEW v \in HttpWorkers
        PROVE  /\ request'[v] \in Announcements => request'[v].name \in persisted_names'
               /\ request'[v] \in Restores =>
                     RestoreSound(request'[v], v \notin disturbed', settings')
    <2>1. CASE v = w
      BY <1>1, <2>1
    <2>2. CASE v # w
      <3>1. (v \notin disturbed') = FALSE
        BY <1>1, <2>2
      <3> QED
        BY <1>1, <1>2, <2>2, <3>1 DEF RequestInv
    <2> QED
      BY <2>1, <2>2
  <1> QED
    BY <1>1, <1>3 DEF RequestInv

\* Worker w goes on with next_request and nobody writes.
LEMMA ReaderKeepsRequests ==
    ASSUME RequestInv, NEW w \in HttpWorkers,
           NEW next_request \in {Ready} \cup Announcements \cup Restores,
           request' = [request EXCEPT ![w] = next_request],
           UNCHANGED <<settings, persisted_names>>,
           disturbed' \in {disturbed, disturbed \ {w}},
           next_request \in Announcements => next_request.name \in persisted_names',
           next_request \in Restores =>
              RestoreSound(next_request, w \notin disturbed', settings')
    PROVE  RequestInv'
  <1>1. request' \in [HttpWorkers -> {Ready} \cup Announcements \cup Restores]
        /\ request'[w] = next_request
        /\ \A v \in HttpWorkers \ {w} :
              request'[v] = request[v] /\ (v \notin disturbed') = (v \notin disturbed)
    BY DEF RequestInv
  <1>2. ASSUME NEW v \in HttpWorkers
        PROVE  /\ request'[v] \in Announcements => request'[v].name \in persisted_names'
               /\ request'[v] \in Restores =>
                     RestoreSound(request'[v], v \notin disturbed', settings')
    <2>1. CASE v = w
      BY <1>1, <2>1
    <2>2. CASE v # w
      BY <1>1, <2>2 DEF RequestInv
    <2> QED
      BY <2>1, <2>2
  <1> QED
    BY <1>1, <1>2 DEF RequestInv

LEMMA CountedTyped ==
    ASSUME NEW r \in Restores, NEW field \in {"applied", "skipped", "failed", "rejected"}
    PROVE  EntryCounted(r, field) \in Restores
  <1> DEFINE m == [r EXCEPT !.next = r.next + 1]
  <1>1. m \in Restores
    BY DEF Restores
  <1>2. m[field] \in Nat /\ m[field] + 1 \in Nat
    BY <1>1, SMTT(30) DEF Restores
  <1>3. EntryCounted(r, field) = [m EXCEPT ![field] = m[field] + 1]
    BY DEF EntryCounted
  <1> HIDE DEF m
  <1>4. \A n \in Nat : [m EXCEPT ![field] = n] \in Restores
    BY <1>1 DEF Restores
  <1> QED
    BY <1>2, <1>3, <1>4, Zenon

LEMMA CountedFields ==
    ASSUME NEW r \in Restores, NEW field \in {"applied", "skipped", "failed", "rejected"}
    PROVE  /\ EntryCounted(r, field).kind = r.kind /\ EntryCounted(r, field).file = r.file
           /\ EntryCounted(r, field).next = r.next + 1
           /\ EntryCounted(r, field).applied =
                 IF field = "applied" THEN r.applied + 1 ELSE r.applied
           /\ EntryCounted(r, field).applied + EntryCounted(r, field).skipped
                + EntryCounted(r, field).failed + EntryCounted(r, field).rejected
              = r.applied + r.skipped + r.failed + r.rejected + 1
  <1> DEFINE c == EntryCounted(r, field)
  <1>1. /\ r.applied \in Nat /\ r.skipped \in Nat /\ r.failed \in Nat
        /\ r.rejected \in Nat
    BY DEF Restores
  <1>2. c.kind = r.kind /\ c.file = r.file /\ c.next = r.next + 1
    BY DEF EntryCounted, Restores
  <1>3. \A f \in {"applied", "skipped", "failed", "rejected"} :
           c[f] = IF f = field THEN r[f] + 1 ELSE r[f]
    BY DEF EntryCounted, Restores
  <1> HIDE DEF c
  <1>4. /\ c.applied = IF field = "applied" THEN r.applied + 1 ELSE r.applied
        /\ c.skipped = IF field = "skipped" THEN r.skipped + 1 ELSE r.skipped
        /\ c.failed = IF field = "failed" THEN r.failed + 1 ELSE r.failed
        /\ c.rejected = IF field = "rejected" THEN r.rejected + 1 ELSE r.rejected
    BY <1>3
  <1>5. c.applied + c.skipped + c.failed + c.rejected
           = r.applied + r.skipped + r.failed + r.rejected + 1
    <2>1. CASE field = "applied"
      BY <1>1, <1>4, <2>1
    <2>2. CASE field = "skipped"
      BY <1>1, <1>4, <2>2
    <2>3. CASE field = "failed"
      BY <1>1, <1>4, <2>3
    <2>4. CASE field = "rejected"
      BY <1>1, <1>4, <2>4
    <2> QED
      BY <2>1, <2>2, <2>3, <2>4
  <1> QED
    BY <1>2, <1>4, <1>5 DEF c

\* What RestoreSound says of the numbers alone.
LEMMA SoundNumbers ==
    ASSUME NEW r \in Restores, NEW alone, NEW store, RestoreSound(r, alone, store)
    PROVE  /\ r.next \in Nat /\ r.next >= 1 /\ r.next <= Len(r.file) + 1
           /\ Len(r.file) \in Nat
           /\ r.applied + r.skipped + r.failed + r.rejected = r.next - 1
           /\ r.applied \in Nat /\ r.skipped \in Nat /\ r.failed \in Nat
           /\ r.rejected \in Nat /\ r.applied <= r.next - 1
  <1>1. /\ Len(r.file) \in Nat /\ r.next \in Nat
        /\ r.applied \in Nat /\ r.skipped \in Nat /\ r.failed \in Nat /\ r.rejected \in Nat
    BY DEF Restores
  <1>2. /\ r.next \in 1..(Len(r.file) + 1)
        /\ r.applied + r.skipped + r.failed + r.rejected = r.next - 1
    BY DEF RestoreSound
  <1> QED
    BY <1>1, <1>2

LEMMA CountsSets ==
    ASSUME NEW w \in HttpWorkers, RequestInv, NEW field, Counts(w, field)
    PROVE  request' = [request EXCEPT ![w] = EntryCounted(request[w], field)]
  BY DEF Counts, RequestInv

\* An entry that was not applied ends what a restore claims of the store.
LEMMA NotAppliedSound ==
    ASSUME NEW r \in Restores, NEW alone \in BOOLEAN, NEW old, NEW new,
           RestoreSound(r, alone, old), r.kind = "restore", r.next <= Len(r.file),
           NEW field \in {"skipped", "failed", "rejected"}
    PROVE  RestoreSound(EntryCounted(r, field), alone, new)
  <1> DEFINE c == EntryCounted(r, field)
  <1>1. /\ c.kind = r.kind /\ c.file = r.file
        /\ c.next = r.next + 1 /\ c.applied = r.applied
        /\ c.applied + c.skipped + c.failed + c.rejected
              = r.applied + r.skipped + r.failed + r.rejected + 1
    BY CountedFields
  <1>2. /\ r.next \in Nat /\ Len(r.file) \in Nat /\ r.next >= 1
        /\ r.applied + r.skipped + r.failed + r.rejected = r.next - 1
        /\ r.applied \in Nat /\ r.applied <= r.next - 1
    BY SoundNumbers
  <1> HIDE DEF c
  <1>3. /\ c.next \in 1..(Len(c.file) + 1)
        /\ c.applied + c.skipped + c.failed + c.rejected = c.next - 1
        /\ c.applied # c.next - 1
    BY <1>1, <1>2
  <1> QED
    BY <1>1, <1>3 DEF RestoreSound, c

\* An entry that was applied joins what the store has.
LEMMA AppliedSound ==
    ASSUME NEW r \in Restores, NEW alone \in BOOLEAN,
           NEW old \in [SettingKeys -> SettingValues \cup {Unset}], NEW new,
           RestoreSound(r, alone, old), r.kind = "restore", r.next <= Len(r.file),
           r.file[r.next] \in FileEntries, r.file[r.next].key \in SettingKeys,
           new = [old EXCEPT ![r.file[r.next].key] = r.file[r.next].value]
    PROVE  RestoreSound(EntryCounted(r, "applied"), alone, new)
  <1> DEFINE c == EntryCounted(r, "applied")
             file == r.file
             n == r.next
  <1>1. /\ c.kind = r.kind /\ c.file = file
        /\ c.next = n + 1 /\ c.applied = r.applied + 1
        /\ c.applied + c.skipped + c.failed + c.rejected
              = r.applied + r.skipped + r.failed + r.rejected + 1
    BY CountedFields
  <1>2. /\ n \in Nat /\ n >= 1 /\ Len(file) \in Nat
        /\ r.applied + r.skipped + r.failed + r.rejected = n - 1
        /\ r.applied \in Nat
    BY SoundNumbers
  <1> HIDE DEF c
  <1>3. /\ c.next \in 1..(Len(c.file) + 1)
        /\ c.applied + c.skipped + c.failed + c.rejected = c.next - 1
        /\ c.applied = c.next - 1 => r.applied = n - 1
        /\ c.next - 1 = n
    BY <1>1, <1>2
  <1>4. ASSUME c.applied = c.next - 1
        PROVE  \A i \in 1..n : file[i] \in FileEntries /\ file[i].key \in SettingKeys
    <2>1. \A i \in 1..(n - 1) : file[i] \in FileEntries /\ file[i].key \in SettingKeys
      BY <1>3, <1>4 DEF RestoreSound
    <2> QED
      BY <1>2, <2>1
  <1>5. ASSUME c.applied = c.next - 1, alone,
               NEW i \in 1..n, LastOfKey(file, i, n)
        PROVE  new[file[i].key] = file[i].value
    <2>1. CASE i = n
      BY <2>1
    <2>2. CASE i # n
      <3>1. i \in 1..(n - 1) /\ n \in (i + 1)..n
        BY <1>2, <2>2
      <3>2. LastOfKey(file, i, n - 1) /\ file[n].key # file[i].key
        BY <1>2, <1>5, <3>1 DEF LastOfKey
      <3>3. old[file[i].key] = file[i].value
        BY <1>3, <1>5, <3>1, <3>2 DEF RestoreSound
      <3>4. file[i].key \in SettingKeys
        BY <1>4, <1>5
      <3> QED
        BY <3>2, <3>3, <3>4
    <2> QED
      BY <2>1, <2>2
  <1> HIDE DEF file, n
  <1> QED
    BY <1>1, <1>3, <1>4, <1>5 DEF RestoreSound, c, file

\* One entry of a restore: passed over, or written like a posted one.
LEMMA RestoreEntryKeeps ==
    ASSUME SettingsInv, NEW w \in HttpWorkers, RestoreEntry(w)
    PROVE  SettingsInv'
  <1> USE SettingsAssumption
  <1> DEFINE r == request[w]
             e == r.file[r.next]
             alone == w \notin disturbed
  <1>1. StoreInv /\ RequestInv
    BY DEF SettingsInv
  <1>2. r \in Restores /\ r.kind = "restore" /\ r.next <= Len(r.file)
        /\ RestoreSound(r, alone, settings)
    BY <1>1 DEF RestoreEntry, RequestInv, Ready, Announcements
  <1>3. e \in FileEntries \cup {Junk}
    <2>1. r.file \in Seq(FileEntries \cup {Junk}) /\ r.next \in 1..Len(r.file)
      BY <1>2, SoundNumbers DEF Restores
    <2> HIDE DEF r
    <2> QED
      BY <2>1, SeqElement
  <1>4. UNCHANGED <<backup, advertised, writes_left>>
    BY DEF RestoreEntry
  <1>5. ASSUME NEW field \in {"skipped", "failed", "rejected"}, Counts(w, field),
               UNCHANGED <<settings, persisted_names, disturbed>>
        PROVE  SettingsInv'
    <2>1. request' = [request EXCEPT ![w] = EntryCounted(r, field)]
      BY <1>1, <1>5, CountsSets
    <2>2. EntryCounted(r, field) \in Restores
      BY <1>2, CountedTyped
    <2>3. RestoreSound(EntryCounted(r, field), w \notin disturbed', settings')
      BY <1>2, <1>5, NotAppliedSound
    <2>4. EntryCounted(r, field) \notin Announcements
      BY <1>2, CountedFields DEF Announcements
    <2>5. RequestInv'
      BY <1>1, <1>5, <2>1, <2>2, <2>3, <2>4, ReaderKeepsRequests
    <2>6. StoreInv'
      BY <1>1, <1>4, <1>5 DEF StoreInv, StoredValid, NameNeverAhead, NameOf
    <2> QED
      BY <2>5, <2>6 DEF SettingsInv
  <1>6. ASSUME NEW ok \in BOOLEAN, SetSetting(e.key, e.value, ok), Writes(w),
               Counts(w, IF ok THEN "applied" ELSE "failed"),
               e # Junk, ~IsReservedSettingsKey(e.key), IsValidStoreSegment(e.key),
               ~Rejects(e)
        PROVE  SettingsInv'
    <2> DEFINE field == IF ok THEN "applied" ELSE "failed"
    <2>1. /\ e \in FileEntries /\ e.key \in SettingKeys
          /\ e.value \in ValidFor[e.key]
      BY <1>3, <1>6 DEF FileEntries, IsReservedSettingsKey, IsValidStoreSegment,
                        Rejects
    <2>2. RouteFrame
      BY <1>1, <1>4, <1>6 DEF RouteFrame, Writes, StoreInv
    <2>3. /\ StoreInv' /\ persisted_names \subseteq persisted_names'
          /\ ok => settings' = [settings EXCEPT ![e.key] = e.value]
      <3> HIDE DEF e
      <3> QED
        BY <1>1, <1>6, <2>1, <2>2, SetSettingKeeps
    <2>4. request' = [request EXCEPT ![w] = EntryCounted(r, field)]
      BY <1>1, <1>6, CountsSets
    <2>5. EntryCounted(r, field) \in Restores
      BY <1>2, CountedTyped
    <2>6. (w \notin disturbed') = alone
      BY <1>6 DEF Writes
    <2>7. RestoreSound(EntryCounted(r, field), w \notin disturbed', settings')
      <3>1. CASE ok
        <4>1. settings \in [SettingKeys -> SettingValues \cup {Unset}]
          BY <1>1 DEF StoreInv
        <4> QED
          BY <1>2, <2>1, <2>3, <2>6, <3>1, <4>1, AppliedSound
      <3>2. CASE ~ok
        BY <1>2, <2>6, <3>2, NotAppliedSound
      <3> QED
        BY <3>1, <3>2
    <2>8. EntryCounted(r, field) \notin Announcements
      BY <1>2, CountedFields DEF Announcements
    <2>9. RequestInv'
      BY <1>1, <1>6, <2>3, <2>4, <2>5, <2>7, <2>8, WriterKeepsRequests
    <2> QED
      BY <2>3, <2>9 DEF SettingsInv
  <1>7. \/ \E field \in {"skipped", "failed", "rejected"} :
              Counts(w, field) /\ UNCHANGED <<settings, persisted_names, disturbed>>
        \/ /\ e # Junk /\ ~Rejects(e)
           /\ IsReservedSettingsKey(e.key) \/ IsValidStoreSegment(e.key)
           /\ \E ok \in BOOLEAN :
                 /\ SetSetting(e.key, e.value, ok) /\ Writes(w)
                 /\ Counts(w, IF ok THEN "applied" ELSE "failed")
    BY DEF RestoreEntry, Entry
  <1>8. ~Rejects(e) => ~IsReservedSettingsKey(e.key)
    BY DEF Rejects
  <1> HIDE DEF e, r
  <1> QED
    BY <1>5, <1>6, <1>7, <1>8

LEMMA SettingsInvStep == SettingsInv /\ [SettingsNext]_settings_vars => SettingsInv'
  <1> SUFFICES ASSUME SettingsInv, [SettingsNext]_settings_vars PROVE SettingsInv'
    OBVIOUS
  <1> USE SettingsAssumption
  <1>0. StoreInv /\ RequestInv
    BY DEF SettingsInv
  <1>1. ASSUME NEW w \in HttpWorkers, NEW k \in SettingKeys, EraseSetting(w, k)
        PROVE  SettingsInv'
    <2>1. RouteFrame
      BY <1>0, <1>1 DEF EraseSetting, RouteFrame, Writes, StoreInv
    <2>2. StoreInv' /\ persisted_names \subseteq persisted_names'
      BY <1>0, <1>1, <2>1, EraseKeeps DEF EraseSetting
    <2>3. Ready \notin Announcements /\ Ready \notin Restores
      BY DEF Ready, Announcements, Restores
    <2>4. RequestInv'
      BY <1>0, <1>1, <2>2, <2>3, WriterKeepsRequests DEF EraseSetting
    <2> QED
      BY <2>2, <2>4 DEF SettingsInv
  <1>2. ASSUME NEW w \in HttpWorkers, NEW k \in SettingKeys, NEW v \in SettingValues,
               PostSetting(w, k, v)
        PROVE  SettingsInv'
    <2>1. PICK ok \in BOOLEAN :
             /\ SetSetting(k, v, ok)
             /\ request' = [request EXCEPT ![w] =
                              IF ok /\ k = DeviceName
                              THEN [kind |-> "announce", name |-> v] ELSE Ready]
      BY <1>2 DEF PostSetting
    <2> DEFINE new == IF ok /\ k = DeviceName
                      THEN [kind |-> "announce", name |-> v] ELSE Ready
    <2>2. RouteFrame /\ v \in ValidFor[k] /\ Writes(w)
      BY <1>0, <1>2 DEF PostSetting, Accepts, RouteFrame, Writes, StoreInv
    <2>3. /\ StoreInv' /\ persisted_names \subseteq persisted_names'
          /\ ok => settings' = [settings EXCEPT ![k] = v]
      BY <1>0, <2>1, <2>2, SetSettingKeeps
    <2>4. new \in {Ready} \cup Announcements /\ new \notin Restores
      BY DEF Ready, Announcements, Restores
    <2>5. ASSUME new \in Announcements PROVE new.name \in persisted_names'
      <3>1. ok /\ k = DeviceName /\ new.name = v
        BY <2>5 DEF Ready, Announcements
      <3>2. settings'[DeviceName] = v /\ v # Unset
        BY <1>0, <2>3, <3>1 DEF StoreInv
      <3>3. NameOf(settings)' = v
        BY <3>2 DEF NameOf
      <3> QED
        BY <2>3, <3>1, <3>3 DEF StoreInv
    <2> HIDE DEF new
    <2>6. RequestInv'
      BY <1>0, <2>1, <2>2, <2>3, <2>4, <2>5, WriterKeepsRequests DEF new
    <2> QED
      BY <2>3, <2>6 DEF SettingsInv
  <1>3. ASSUME NEW k \in SettingKeys, NEW v \in SettingValues, PanelSaves(k, v)
        PROVE  SettingsInv'
    <2>1. PICK ok \in BOOLEAN : SetSetting(k, v, ok)
      BY <1>3 DEF PanelSaves
    <2>2. RouteFrame /\ v \in ValidFor[k]
      BY <1>0, <1>3 DEF PanelSaves, RouteFrame, StoreInv
    <2>3. StoreInv' /\ persisted_names \subseteq persisted_names'
      BY <1>0, <2>1, <2>2, SetSettingKeeps
    <2>4. request' = request /\ disturbed' = HttpWorkers
      BY <1>3 DEF PanelSaves
    <2>5. ASSUME NEW x \in HttpWorkers, request[x] \in Restores
          PROVE  RestoreSound(request[x], x \notin disturbed', settings')
      <3>1. RestoreSound(request[x], FALSE, settings')
        BY <1>0, <2>5, DisturbedSound DEF RequestInv
      <3>2. (x \notin disturbed') = FALSE
        BY <2>4
      <3> QED
        BY <3>1, <3>2
    <2>6. RequestInv'
      BY <1>0, <2>3, <2>4, <2>5 DEF RequestInv
    <2> QED
      BY <2>3, <2>6 DEF SettingsInv
  <1>4. CASE DownloadBackup
    <2>1. StoreInv'
      BY <1>0, <1>4, BackupTyped
         DEF DownloadBackup, StoreInv, StoredValid, NameNeverAhead, NameOf
    <2>2. RequestInv'
      BY <1>0, <1>4 DEF DownloadBackup, RequestInv
    <2> QED
      BY <2>1, <2>2 DEF SettingsInv
  <1>5. ASSUME NEW w \in HttpWorkers, DeviceNameCommitted(w) PROVE SettingsInv'
    <2>1. request[w] \in Announcements
      BY <1>0, <1>5 DEF DeviceNameCommitted, RequestInv, Ready, Restores
    <2>2. StoreInv'
      BY <1>0, <1>5, <2>1
         DEF DeviceNameCommitted, StoreInv, StoredValid, NameNeverAhead, NameOf,
             RequestInv
    <2>3. Ready \notin Announcements /\ Ready \notin Restores
      BY DEF Ready, Announcements, Restores
    <2>4. RequestInv'
      BY <1>0, <1>5, <2>3, ReaderKeepsRequests DEF DeviceNameCommitted
    <2> QED
      BY <2>2, <2>4 DEF SettingsInv
  <1>6. ASSUME NEW w \in HttpWorkers, RestoreEntry(w) PROVE SettingsInv'
    BY <1>6, RestoreEntryKeeps
  <1>7. ASSUME NEW w \in HttpWorkers, RestoreAnswer(w) PROVE SettingsInv'
    <2> DEFINE r == request[w]
               new == [r EXCEPT !.kind = "answered"]
    <2>1. /\ r \in Restores /\ r.next > Len(r.file)
          /\ RestoreSound(r, w \notin disturbed, settings)
      BY <1>0, <1>7 DEF RestoreAnswer, RequestInv, Ready, Announcements
    <2>2. new \in Restores /\ new \notin Announcements
      BY <2>1 DEF Restores, Announcements
    <2>3. /\ new.kind = "answered" /\ new.file = r.file /\ new.next = r.next
          /\ new.applied = r.applied /\ new.skipped = r.skipped
          /\ new.failed = r.failed /\ new.rejected = r.rejected
      BY <2>1 DEF Restores
    <2>4. r.next = Len(r.file) + 1
      BY <2>1, SoundNumbers
    <2>5. request' = [request EXCEPT ![w] = new]
      BY <1>7 DEF RestoreAnswer
    <2>6. UNCHANGED <<settings, backup, advertised, persisted_names, disturbed,
                      writes_left>>
      BY <1>7 DEF RestoreAnswer
    <2> HIDE DEF new
    <2>7. RestoreSound(new, w \notin disturbed, settings)
      BY <2>1, <2>3, <2>4 DEF RestoreSound
    <2>8. RequestInv'
      BY <1>0, <2>2, <2>5, <2>6, <2>7, ReaderKeepsRequests
    <2>9. StoreInv'
      BY <1>0, <2>6 DEF StoreInv, StoredValid, NameNeverAhead, NameOf
    <2> QED
      BY <2>8, <2>9 DEF SettingsInv
  <1>8. ASSUME NEW w \in HttpWorkers, NEW file \in EditedFiles \cup {backup},
               RestoreBegin(w, file)
        PROVE  SettingsInv'
    <2> DEFINE new == [kind |-> "restore", file |-> file, next |-> 1, applied |-> 0,
                       skipped |-> 0, failed |-> 0, rejected |-> 0]
    <2>1. file \in Seq(FileEntries \cup {Junk})
      <3> DEFINE R == [key : SettingKeys, value : SettingValues]
      <3>1. R \subseteq FileEntries \cup {Junk}
        BY DEF FileEntries
      <3>2. backup \in Seq(R)
        BY <1>0 DEF StoreInv
      <3> HIDE DEF R
      <3>3. backup \in Seq(FileEntries \cup {Junk})
        BY <3>1, <3>2, SeqWidens
      <3> QED
        BY <3>3
    <2>2. new \in Restores /\ new \notin Announcements
      BY <2>1 DEF Restores, Announcements
    <2>3. Len(file) \in Nat
      BY <2>1
    <2>4. RestoreSound(new, w \notin disturbed', settings')
      BY <2>3 DEF RestoreSound
    <2>5. /\ request' = [request EXCEPT ![w] = new]
          /\ disturbed' = disturbed \ {w}
          /\ UNCHANGED <<settings, persisted_names>>
      BY <1>8 DEF RestoreBegin
    <2> HIDE DEF new
    <2>6. RequestInv'
      BY <1>0, <2>2, <2>4, <2>5, ReaderKeepsRequests
    <2>7. StoreInv'
      BY <1>0, <1>8 DEF RestoreBegin, StoreInv, StoredValid, NameNeverAhead, NameOf
    <2> QED
      BY <2>6, <2>7 DEF SettingsInv
  <1>9. CASE SettingsReboot
    <2>1. PICK reason \in ValidFor[CrashKey], ok \in BOOLEAN :
             SetSetting(CrashKey, reason, ok)
      BY <1>9 DEF SettingsReboot, LogCrashDiagnostics
    <2>2. RouteFrame
      BY <1>0, <1>9 DEF SettingsReboot, RouteFrame, StoreInv
    <2>3. StoreInv'
      BY <1>0, <2>1, <2>2, SetSettingKeeps
    <2>4. Ready \notin Announcements /\ Ready \notin Restores
      BY DEF Ready, Announcements, Restores
    <2>5. RequestInv'
      BY <1>9, <2>4 DEF SettingsReboot, RequestInv
    <2> QED
      BY <2>3, <2>5 DEF SettingsInv
  <1>10. CASE UNCHANGED settings_vars
    <2>1. StoreInv'
      BY <1>0, <1>10
         DEF settings_vars, StoreInv, StoredValid, NameNeverAhead, NameOf
    <2>2. RequestInv'
      BY <1>0, <1>10 DEF settings_vars, RequestInv
    <2> QED
      BY <2>1, <2>2 DEF SettingsInv
  <1> QED
    BY <1>1, <1>2, <1>3, <1>4, <1>5, <1>6, <1>7, <1>8, <1>9, <1>10 DEF SettingsNext

\* For any settings, files and number of workers, some writes failing: only
\* values their validators accept reach the store, a restore's answer accounts
\* for every entry and what it says was applied is stored, and the advertised
\* name is one that was stored.
THEOREM SettingsSafeHolds == SettingsSpec => []SettingsSafe
  BY SettingsInvInit, SettingsInvImplies, SettingsInvStep, PTL DEF SettingsSpec

-----------------------------------------------------------------------------
(* The weather provider, its settings page and its widget *)

Places == WeatherPlaces \cup {NoPlace}

PagePcs == {"idle", "saving", "refresh"}

PageStates == [pc : PagePcs, results : SUBSET WeatherPlaces, place : Places,
               key : 1..3, failed : BOOLEAN, refreshed : BOOLEAN]

PollPcs == {"latitude", "longitude", "display_name", "fetch", "publish", "waiting"}

\* The poll has read the setting.
HasRead(key) ==
    CASE key = "latitude" -> poll.pc # "latitude"
      [] key = "longitude" -> poll.pc \notin {"latitude", "longitude"}
      [] key = "display_name" -> poll.pc \in {"fetch", "publish", "waiting"}

\* What makes WeatherSafe inductive: after a refresh that no poll has to
\* answer any more, what the poll has read so far is what is stored, and a
\* page that stores or is about to refresh does not count as refreshed.
WeatherInv ==
    /\ location \in [LocationKeys -> Places]
    /\ poll \in [pc : PollPcs, latitude : Places, longitude : Places,
                 display_name : Places]
    /\ weather_page \in PageStates
    /\ weather_page.pc = "saving" => weather_page.place \in WeatherPlaces
    /\ weather_page.pc \in {"saving", "refresh"} => ~weather_page.refreshed
    /\ weather_page.pc = "idle" /\ weather_page.refreshed /\ ~wake_requested =>
          /\ HasRead("latitude") => poll.latitude = location["latitude"]
          /\ HasRead("longitude") => poll.longitude = location["longitude"]
          /\ HasRead("display_name") => poll.display_name = location["display_name"]
    /\ weather.live => weather.has_reading /\ weather.of # NoPlace
    /\ weather.has_reading => weather.configured
    /\ widget.live => widget.of # NoPlace
    /\ WidgetNotBehind

LEMMA LocationKeysAre == LocationKeys = {"latitude", "longitude", "display_name"}
  <1>1. 1..3 = {1, 2, 3}
    OBVIOUS
  <1> QED
    BY <1>1 DEF LocationKeys, Keys

LEMMA WeatherInvInit == WeatherInit => WeatherInv
  BY LocationKeysAre, WeatherAssumption
     DEF WeatherInit, WeatherInv, IdlePage, IdlePoll, Unconfigured, Places, PagePcs,
         PageStates, PollPcs, HasRead, WidgetNotBehind, RefreshWeatherLabels

LEMMA WeatherInvImplies == WeatherInv => WeatherSafe
  <1> SUFFICES ASSUME WeatherInv PROVE WeatherSafe
    OBVIOUS
  <1>1. WeatherTypeOK
    BY LocationKeysAre DEF WeatherInv, WeatherTypeOK, Places, PollPcs
  <1>2. RefreshNotLost
    BY DEF WeatherInv, RefreshNotLost, HasRead, Polled, StoredPlace
  <1> QED
    BY <1>1, <1>2 DEF WeatherSafe, WeatherInv

\* Replacing one field keeps a page state a page state.
LEMMA PageFieldTyped ==
    ASSUME NEW q \in PageStates
    PROVE  /\ \A x \in PagePcs : [q EXCEPT !.pc = x] \in PageStates
           /\ \A x \in Places : [q EXCEPT !.place = x] \in PageStates
           /\ \A x \in 1..3 : [q EXCEPT !.key = x] \in PageStates
           /\ \A x \in BOOLEAN : [q EXCEPT !.failed = x] \in PageStates
           /\ \A x \in BOOLEAN : [q EXCEPT !.refreshed = x] \in PageStates
  <1>1. \A x \in PagePcs : [q EXCEPT !.pc = x] \in PageStates
    BY DEF PageStates
  <1>2. \A x \in Places : [q EXCEPT !.place = x] \in PageStates
    BY DEF PageStates
  <1>3. \A x \in 1..3 : [q EXCEPT !.key = x] \in PageStates
    BY DEF PageStates
  <1>4. \A x \in BOOLEAN : [q EXCEPT !.failed = x] \in PageStates
    BY DEF PageStates
  <1>5. \A x \in BOOLEAN : [q EXCEPT !.refreshed = x] \in PageStates
    BY DEF PageStates
  <1> QED
    BY <1>1, <1>2, <1>3, <1>4, <1>5

\* What SelectLocation and PostKey make of the page.
LEMMA PageStepTyped ==
    ASSUME NEW q \in PageStates, NEW place \in Places, NEW failed \in BOOLEAN
    PROVE  /\ [q EXCEPT !.pc = "saving", !.place = place, !.key = 1, !.failed = FALSE,
                        !.refreshed = FALSE] \in PageStates
           /\ q.key < 3 => [q EXCEPT !.key = q.key + 1, !.failed = failed] \in PageStates
           /\ [q EXCEPT !.pc = "idle", !.failed = TRUE] \in PageStates
           /\ [IdlePage EXCEPT !.pc = "refresh"] \in PageStates
  <1>1. /\ [q EXCEPT !.pc = "saving"] \in PageStates
        /\ [q EXCEPT !.pc = "idle"] \in PageStates
    BY PageFieldTyped DEF PagePcs
  <1>2. [q EXCEPT !.pc = "saving", !.place = place] \in PageStates
    BY <1>1, PageFieldTyped, Zenon
  <1>3. 1 \in 1..3
    OBVIOUS
  <1>4. [q EXCEPT !.pc = "saving", !.place = place, !.key = 1] \in PageStates
    BY <1>2, <1>3, PageFieldTyped, Zenon
  <1>5. [q EXCEPT !.pc = "saving", !.place = place, !.key = 1, !.failed = FALSE]
           \in PageStates
    BY <1>4, PageFieldTyped, Zenon
  <1>6. q.key < 3 => q.key + 1 \in 1..3
    BY DEF PageStates
  <1>7. q.key < 3 => [q EXCEPT !.key = q.key + 1] \in PageStates
    BY <1>6, PageFieldTyped, Zenon
  <1>8. IdlePage \in PageStates
    BY DEF IdlePage, PageStates, PagePcs, Places
  <1>9. [IdlePage EXCEPT !.pc = "refresh"] \in PageStates
    BY <1>8, PageFieldTyped DEF PagePcs
  <1>10. [q EXCEPT !.pc = "saving", !.place = place, !.key = 1, !.failed = FALSE,
                   !.refreshed = FALSE] \in PageStates
    BY <1>5, PageFieldTyped, Zenon
  <1>11. q.key < 3 => [q EXCEPT !.key = q.key + 1, !.failed = failed] \in PageStates
    BY <1>7, PageFieldTyped, Zenon
  <1>12. [q EXCEPT !.pc = "idle", !.failed = TRUE] \in PageStates
    BY <1>1, PageFieldTyped, Zenon
  <1> QED
    BY <1>9, <1>10, <1>11, <1>12

\* The steps of the settings page.
LEMMA WeatherPageSteps ==
    ASSUME WeatherInv, SearchLocation \/ PostKey \/ Refresh \/ RefreshLost
                       \/ \E p \in WeatherPlaces : SelectLocation(p)
    PROVE  WeatherInv'
  <1> USE LocationKeysAre, WeatherAssumption
      DEF WeatherInv, Places, PagePcs, PageStates, PollPcs, HasRead, WidgetNotBehind,
          RefreshWeatherLabels
  <1>1. CASE SearchLocation
    BY <1>1 DEF SearchLocation, Geocode
  <1>2. ASSUME NEW p \in WeatherPlaces, SelectLocation(p) PROVE WeatherInv'
    <2>1. weather_page' \in PageStates
      <3> HIDE DEF PageStates
      <3>1. weather_page' = [weather_page EXCEPT !.pc = "saving", !.place = p, !.key = 1,
                                !.failed = FALSE, !.refreshed = FALSE]
        BY <1>2 DEF SelectLocation
      <3> QED
        BY <3>1, PageStepTyped
    <2>2. /\ weather_page'.pc = "saving" /\ weather_page'.place = p
          /\ ~weather_page'.refreshed
      BY <1>2 DEF SelectLocation
    <2> QED
      BY <1>2, <2>1, <2>2 DEF SelectLocation
  <1>3. CASE PostKey
    <2>1. /\ weather_page.pc = "saving" /\ weather_page.place \in WeatherPlaces
          /\ ~weather_page.refreshed
          /\ UNCHANGED <<poll, wake_requested, weather, widget, widget_pending>>
      BY <1>3 DEF PostKey
    <2>2. location' \in [LocationKeys -> Places]
      BY <1>3, <2>1 DEF PostKey, Keys
    <2>3. weather_page' \in PageStates
      <3> HIDE DEF PageStates
      <3>1. PICK failed \in BOOLEAN :
               \/ /\ weather_page.key < 3
                  /\ weather_page' = [weather_page EXCEPT !.key = weather_page.key + 1,
                                                          !.failed = failed]
               \/ weather_page' = [weather_page EXCEPT !.pc = "idle", !.failed = TRUE]
               \/ weather_page' = [IdlePage EXCEPT !.pc = "refresh"]
        BY <1>3 DEF PostKey
      <3> QED
        BY <2>1, <3>1, PageStepTyped
    <2>4. /\ weather_page'.place = weather_page.place \/ weather_page'.pc = "refresh"
          /\ ~weather_page'.refreshed
      BY <1>3, <2>1 DEF PostKey, IdlePage
    <2> QED
      BY <2>1, <2>2, <2>3, <2>4
  <1>4. CASE Refresh
    BY <1>4 DEF Refresh, TriggerPoll
  <1>5. CASE RefreshLost
    BY <1>5 DEF RefreshLost
  <1> QED
    BY <1>1, <1>2, <1>3, <1>4, <1>5

LEMMA WeatherPollSteps ==
    ASSUME WeatherInv, PollStep
    PROVE  WeatherInv'
  <1> USE LocationKeysAre, WeatherAssumption
      DEF WeatherInv, Places, PagePcs, PageStates, PollPcs, HasRead, WidgetNotBehind,
          RefreshWeatherLabels
  <1>1. CASE PollLoop
    BY <1>1 DEF PollLoop, IdlePoll
  <1>2. CASE ReadSetting
    <2>1. CASE poll.pc = "latitude"
      BY <1>2, <2>1, ZenonT(60) DEF ReadSetting, AfterReading
    <2>2. CASE poll.pc = "longitude"
      BY <1>2, <2>2, ZenonT(60) DEF ReadSetting, AfterReading
    <2>3. CASE poll.pc = "display_name"
      BY <1>2, <2>3, ZenonT(60) DEF ReadSetting, AfterReading
    <2> QED
      BY <1>2, <2>1, <2>2, <2>3 DEF ReadSetting
  <1>3. CASE PollUnconfigured
    BY <1>3 DEF PollUnconfigured, Stores, Unconfigured
  <1>4. CASE FetchSucceeds
    BY <1>4 DEF FetchSucceeds, Stores, Polled, Configured
  <1>5. CASE FetchFails
    BY <1>5 DEF FetchFails, Stores, Fallback
  <1>6. CASE PublishUpdate
    BY <1>6 DEF PublishUpdate
  <1> QED
    BY <1>1, <1>2, <1>3, <1>4, <1>5, <1>6 DEF PollStep

LEMMA WeatherOtherSteps ==
    ASSUME WeatherInv, WidgetUpdate \/ WeatherRestart \/ UNCHANGED weather_vars
    PROVE  WeatherInv'
  <1> USE LocationKeysAre, WeatherAssumption
      DEF WeatherInv, Places, PagePcs, PageStates, PollPcs, HasRead, WidgetNotBehind,
          RefreshWeatherLabels
  <1>1. CASE WidgetUpdate
    BY <1>1 DEF WidgetUpdate, Unconfigured
  <1>2. CASE WeatherRestart
    BY <1>2 DEF WeatherRestart, Unconfigured, IdlePoll
  <1>3. CASE UNCHANGED weather_vars
    BY <1>3 DEF weather_vars
  <1> QED
    BY <1>1, <1>2, <1>3

\* Whatever places there are and however saving, polling and drawing
\* interleave: a refreshed location is the one the last poll used or another
\* poll is due, and with no update under way the widget shows the state.
THEOREM WeatherSafeHolds == WeatherSpec => []WeatherSafe
  <1>1. WeatherInv /\ [WeatherNext]_weather_vars => WeatherInv'
    BY WeatherPageSteps, WeatherPollSteps, WeatherOtherSteps DEF WeatherNext
  <1> QED
    BY <1>1, WeatherInvInit, WeatherInvImplies, PTL DEF WeatherSpec

-----------------------------------------------------------------------------
(* The settings pages *)

\* Taking one request out of those in flight leaves the others.
LEMMA RemoveAtKeeps ==
    ASSUME NEW S, NEW q \in Seq(S), NEW i \in DOMAIN q
    PROVE  /\ RemoveAt(q, i) \in Seq(S) /\ Len(RemoveAt(q, i)) = Len(q) - 1
           /\ \A j \in DOMAIN q :
                 j # i => \E k \in DOMAIN RemoveAt(q, i) : RemoveAt(q, i)[k] = q[j]
  <1> DEFINE a == SubSeq(q, 1, i - 1)
             b == SubSeq(q, i + 1, Len(q))
  <1>1. Len(q) \in Nat /\ DOMAIN q = 1..Len(q) /\ i \in 1..Len(q)
    OBVIOUS
  <1>2. /\ a \in Seq(S) /\ Len(a) = i - 1 /\ \A k \in 1..(i - 1) : a[k] = q[k]
        /\ b \in Seq(S) /\ Len(b) = Len(q) - i /\ \A k \in 1..(Len(q) - i) : b[k] = q[i + k]
    <2>1. \A k \in 1..(i - 1) : q[k] \in S
      BY <1>1
    <2>2. \A k \in (i + 1)..Len(q) : q[k] \in S
      BY <1>1
    <2>3. a \in Seq(S) /\ Len(a) = i - 1 /\ \A k \in 1..(i - 1) : a[k] = q[k]
      BY <1>1, <2>1, SubSeqProperties
    <2>4. b \in Seq(S) /\ Len(b) = Len(q) - i /\ \A k \in 1..(Len(q) - i) : b[k] = q[i + k]
      BY <1>1, <2>2, SubSeqProperties
    <2>. QED  BY <2>3, <2>4
  <1> HIDE DEF a, b
  <1> DEFINE c == a \o b
  <1>3. /\ c \in Seq(S) /\ Len(c) = Len(a) + Len(b)
        /\ \A k \in 1..(Len(a) + Len(b)) :
              c[k] = IF k <= Len(a) THEN a[k] ELSE b[k - Len(a)]
    BY <1>2, ConcatProperties
  <1> HIDE DEF c
  <1>4. Len(c) = Len(q) - 1 /\ DOMAIN c = 1..(Len(q) - 1)
    BY <1>1, <1>2, <1>3
  <1>5. ASSUME NEW j \in DOMAIN q, j # i
        PROVE  \E k \in DOMAIN c : c[k] = q[j]
    <2>1. CASE j < i
      <3>1. j \in 1..(Len(q) - 1) /\ j \in 1..(i - 1)
        BY <1>1, <2>1
      <3>2. c[j] = q[j]
        BY <1>1, <1>2, <1>3, <3>1
      <3>. QED  BY <1>4, <3>1, <3>2
    <2>2. CASE j > i
      <3>1. /\ j - 1 \in 1..(Len(q) - 1) /\ (j - 1) - (i - 1) \in 1..(Len(q) - i)
            /\ i + ((j - 1) - (i - 1)) = j /\ ~(j - 1 <= i - 1)
        BY <1>1, <2>2
      <3>2. c[j - 1] = b[(j - 1) - (i - 1)]
        <4>1. j - 1 \in 1..(Len(a) + Len(b)) /\ ~(j - 1 <= Len(a)) /\ Len(a) = i - 1
          BY <1>1, <1>2, <3>1
        <4>2. c[j - 1] = b[(j - 1) - Len(a)]
          BY <1>3, <4>1
        <4>. QED  BY <4>1, <4>2
      <3>3. b[(j - 1) - (i - 1)] = q[j]
        BY <1>2, <3>1
      <3>. QED  BY <1>4, <3>1, <3>2, <3>3
    <2>. QED  BY <1>1, <1>5, <2>1, <2>2
  <1>6. RemoveAt(q, i) = c
    BY DEF RemoveAt, a, b, c
  <1>. QED  BY <1>3, <1>4, <1>5, <1>6

\* What may be entered, and the forms of the open page, by key.
Words == {Empty, "a", "b", "u", "bad", "homedeck"}
PageKeys == IF page_kind = "kodi" THEN 2 ELSE 1
Forms == [1..PageKeys -> Words]

LoadRequests == [at : {"sent"}] \cup [at : {"answered"}, data : Forms]
StatusRequests == [at : {"sent"}] \cup [at : {"answered"}, data : Forms \X Nat]
ReconnectRequests == [at : {"sent", "ok"}, of : Nat]

\* The types of the requests in flight and of what they carry.
PageTypes ==
    /\ page_kind \in DOMAIN Pages
    /\ page_form \in Forms /\ page_submitted \in Forms
    /\ device_stored \in Forms /\ device_target \in Forms
    /\ device_epoch \in Nat
    /\ page_loads \in Seq(LoadRequests) /\ Len(page_loads) <= 1
    /\ page_statuses \in Seq(StatusRequests) /\ Len(page_statuses) <= 1
    /\ page_reconnects \in Seq(ReconnectRequests)
    /\ page_loaded => page_loads = <<>>
    /\ page_post \in [at : {"idle", "sent", "ok", "failed"}]
    /\ page_saving \in 0..PageKeys
    /\ page_saving = 0 <=> page_post.at = "idle"
    /\ page_save_error \in {"none", "invalid", "failed", "saved_not_cleared"}

PageFlags == {page_loaded, page_error} \subseteq BOOLEAN

\* What makes SavedIsStored and PartialIsTold inductive: while a save is under
\* way nothing is said of it, and the writes before the one in flight, and
\* that one once it is served, are stored.
SaveProgress ==
    /\ page_saved => page_saving = 0 /\ device_stored = page_submitted
    /\ page_save_error = "saved_not_cleared" =>
          page_kind = "kodi" /\ device_stored[1] = page_submitted[1]
    /\ page_saving > 0 =>
          /\ page_save_error = "none"
          /\ \A k \in 1..PageKeys :
                k < page_saving => device_stored[k] = page_submitted[k]
          /\ page_post.at = "ok" => device_stored[page_saving] = page_submitted[page_saving]

\* What makes SaveIsHeard inductive: the reconnect request of the last save
\* has not been served, or it has.
SaveHeard ==
    (page_saved /\ HasService /\ ~page_unheard) =>
        \/ device_target = FormOf(device_stored) \/ device_wake
        \/ \E i \in DOMAIN page_reconnects :
              page_reconnects[i].at = "sent" /\ page_reconnects[i].of = page_epoch

PagesInv == PageTypes /\ PageFlags /\ SaveProgress /\ SaveHeard

LEMMA KindsTyped ==
    /\ DOMAIN Pages = {"device_name", "harmony", "kodi"}
    /\ Pages["device_name"] = DeviceNamePage /\ Pages["harmony"] = HarmonyPage
    /\ Pages["kodi"] = KodiPage
  BY DEF Pages

\* What a page lets the user enter has the page's keys.
LEMMA FormsTyped ==
    ASSUME page_kind \in DOMAIN Pages
    PROVE  Pages[page_kind].forms \subseteq Forms
  <1>1. CASE page_kind = "kodi"
    <2>1. Forms = [1..2 -> Words]
      BY <1>1 DEF Forms, PageKeys
    <2>2. KodiPage.forms \subseteq [1..2 -> Words]
      <3>1. \A x, y \in Words : <<x, y>> \in [1..2 -> Words]
        OBVIOUS
      <3>2. {Empty, "a", "u", "bad"} \subseteq Words
        BY DEF Words
      <3>3. KodiPage.forms = {<<"a", Empty>>, <<Empty, "u">>, <<"bad", Empty>>, <<Empty, Empty>>}
        BY DEF KodiPage
      <3>. QED  BY <3>1, <3>2, <3>3
    <2>. QED  BY <1>1, <2>1, <2>2, KindsTyped
  <1>2. CASE page_kind \in {"device_name", "harmony"}
    <2>1. Forms = [1..1 -> Words]
      BY <1>2 DEF Forms, PageKeys
    <2>2. \A x \in Words : <<x>> \in [1..1 -> Words]
      OBVIOUS
    <2>3. {Empty, "a", "b", "bad"} \subseteq Words
      BY DEF Words
    <2>4. /\ DeviceNamePage.forms = {<<"a">>, <<"b">>, <<"bad">>, <<Empty>>}
          /\ HarmonyPage.forms = {<<"a">>, <<Empty>>, <<"bad">>}
      BY DEF DeviceNamePage, HarmonyPage
    <2>5. /\ DeviceNamePage.forms \subseteq [1..1 -> Words]
          /\ HarmonyPage.forms \subseteq [1..1 -> Words]
      BY <2>2, <2>3, <2>4
    <2>. QED  BY <1>2, <2>1, <2>5, KindsTyped
  <1>. QED  BY <1>1, <1>2, KindsTyped

\* Filling the form from the settings keeps the page's keys.
LEMMA FormOfTyped ==
    ASSUME page_kind \in DOMAIN Pages, NEW stored \in Forms
    PROVE  FormOf(stored) \in Forms
  <1>1. CASE page_kind = "kodi"
    <2>1. Forms = [1..2 -> Words]
      BY <1>1 DEF Forms, PageKeys
    <2>2. <<stored[1], Empty>> \in [1..2 -> Words]
      BY <2>1 DEF Words
    <2>. QED  BY <1>1, <2>1, <2>2 DEF FormOf, KodiForm
  <1>2. CASE page_kind = "device_name"
    <2>1. Forms = [1..1 -> Words]
      BY <1>2 DEF Forms, PageKeys
    <2>2. <<"homedeck">> \in [1..1 -> Words]
      BY DEF Words
    <2>. QED  BY <1>2, <2>1, <2>2 DEF FormOf, DeviceNameForm
  <1>3. CASE page_kind = "harmony"
    BY <1>3 DEF FormOf
  <1>. QED  BY <1>1, <1>2, <1>3, KindsTyped

LEMMA PagesInvInit == PagesInit => PagesInv
  <1> SUFFICES ASSUME PagesInit PROVE PagesInv
    OBVIOUS
  <1>1. page_kind \in DOMAIN Pages /\ device_stored \in Forms
    BY FormsTyped, PagesAssumption DEF PagesInit
  <1>2. device_target \in Forms
    BY <1>1, FormOfTyped DEF PagesInit
  <1>3. page_form \in Forms /\ page_submitted \in Forms
    BY <1>1 DEF PagesInit, Forms, Words
  <1>4. page_loads \in Seq(LoadRequests) /\ Len(page_loads) = 1
    BY DEF PagesInit, LoadRequests
  <1>5. page_statuses \in Seq(StatusRequests) /\ Len(page_statuses) <= 1
    <2>1. [at |-> "sent"] \in StatusRequests
      BY DEF StatusRequests
    <2>2. page_statuses = <<[at |-> "sent"]>> \/ page_statuses = <<>>
      BY DEF PagesInit
    <2>3. CASE page_statuses = <<>>
      BY <2>3
    <2>4. CASE page_statuses = <<[at |-> "sent"]>>
      BY <2>1, <2>4
    <2>. QED  BY <2>2, <2>3, <2>4
  <1>6. page_post \in [at : {"idle", "sent", "ok", "failed"}] /\ page_post.at = "idle"
    BY DEF PagesInit, NoRequest
  <1>7. PageTypes
    BY <1>1, <1>2, <1>3, <1>4, <1>5, <1>6 DEF PagesInit, PageTypes, PageKeys
  <1>8. PageFlags
    BY Zenon DEF PagesInit, PageFlags
  <1>. QED  BY <1>7, <1>8 DEF PagesInit, PagesInv, SaveProgress, SaveHeard

\* The steps that concern what is loaded, entered or asked for.
LEMMA PageSaveFrame ==
    ASSUME PagesInv, UNCHANGED <<page_kind, save_vars, device_vars>>
    PROVE  SaveProgress' /\ SaveHeard'
  BY DEF PagesInv, SaveProgress, SaveHeard, HasService, FormOf, KodiForm, DeviceNameForm, PageKeys,
         save_vars, post_vars, heard_vars, device_vars

\* One request out of at most one.
LEMMA RemoveOnly ==
    ASSUME NEW S, NEW q \in Seq(S), Len(q) <= 1, NEW i \in DOMAIN q
    PROVE  RemoveAt(q, i) = <<>>
  <1>1. RemoveAt(q, i) \in Seq(S) /\ Len(RemoveAt(q, i)) = Len(q) - 1 /\ Len(q) \in Nat
    BY RemoveAtKeeps
  <1>2. Len(RemoveAt(q, i)) = 0
    BY <1>1
  <1>. QED  BY <1>1, <1>2

LEMMA PageLoads ==
    ASSUME PagesInv,
           Retry \/ \E i \in DOMAIN page_loads : ServeLoad(i) \/ LoadArrives(i) \/ LoadFails(i)
    PROVE  PagesInv'
  <1>1. UNCHANGED <<page_kind, save_vars, device_vars, status_vars>>
    BY DEF Retry, ServeLoad, LoadArrives, LoadFails
  <1>2. SaveProgress' /\ SaveHeard'
    BY <1>1, PageSaveFrame
  <1>3. /\ UNCHANGED <<page_kind, page_submitted, device_stored, device_target, device_epoch,
                       page_statuses, page_reconnects, page_post, page_saving, page_save_error>>
        /\ Forms' = Forms
    BY <1>1 DEF save_vars, post_vars, heard_vars, device_vars, status_vars, Forms, PageKeys
  <1>4. /\ page_loads \in Seq(LoadRequests) /\ Len(page_loads) <= 1
        /\ page_loaded \in BOOLEAN /\ page_error \in BOOLEAN
    BY DEF PagesInv, PageTypes, PageFlags
  <1>5. CASE Retry
    <2>1. page_loads = <<>> /\ page_loads' = <<[at |-> "sent"]>> /\ ~page_loaded
      BY <1>5 DEF Retry, tripGuard
    <2>2. page_loads' \in Seq(LoadRequests) /\ Len(page_loads') = 1
      BY <2>1 DEF LoadRequests
    <2>3. UNCHANGED <<page_form, page_loaded, page_error>>
      BY <1>5 DEF Retry
    <2>. QED
      BY <1>2, <1>3, <2>1, <2>2, <2>3
         DEF PagesInv, PageTypes, PageFlags, LoadRequests, StatusRequests, PageKeys
  <1>6. ASSUME NEW i \in DOMAIN page_loads, ServeLoad(i) PROVE PagesInv'
    <2> DEFINE r == [at |-> "answered", data |-> device_stored]
    <2>1. r \in LoadRequests
      BY DEF PagesInv, PageTypes, LoadRequests
    <2>2. page_loads' = [page_loads EXCEPT ![i] = r] /\ page_loads # <<>>
      BY <1>6, <1>4 DEF ServeLoad
    <2> HIDE DEF r
    <2>3. page_loads' \in Seq(LoadRequests) /\ Len(page_loads') <= 1
      BY <1>4, <1>6, <2>1, <2>2
    <2>4. UNCHANGED <<page_form, page_loaded, page_error>> /\ ~page_loaded
      BY <1>6, <2>2 DEF ServeLoad, PagesInv, PageTypes
    <2>. QED
      BY <1>2, <1>3, <2>3, <2>4
         DEF PagesInv, PageTypes, PageFlags, LoadRequests, StatusRequests, PageKeys
  <1>7. ASSUME NEW i \in DOMAIN page_loads, LoadArrives(i) \/ LoadFails(i) PROVE PagesInv'
    <2>1. page_loads' = <<>>
      BY <1>4, <1>7, RemoveOnly DEF LoadArrives, LoadFails
    <2>2. page_form' \in Forms
      <3>1. CASE LoadFails(i)
        BY <3>1 DEF LoadFails, PagesInv, PageTypes
      <3>2. CASE LoadArrives(i)
        <4>1. page_loads[i] \in LoadRequests /\ page_loads[i].at = "answered"
          BY <1>4, <3>2 DEF LoadArrives
        <4>2. page_loads[i].data \in Forms
          BY <4>1 DEF LoadRequests
        <4>. QED  BY <3>2, <4>2, FormOfTyped DEF LoadArrives, PagesInv, PageTypes
      <3>. QED  BY <1>7, <3>1, <3>2
    <2>3. page_loaded' \in BOOLEAN /\ page_error' \in BOOLEAN
      BY <1>4, <1>7, Zenon DEF LoadArrives, LoadFails
    <2>. QED
      BY <1>2, <1>3, <2>1, <2>2, <2>3
         DEF PagesInv, PageTypes, PageFlags, LoadRequests, StatusRequests, PageKeys
  <1>. QED  BY <1>5, <1>6, <1>7

\* Asking for the status, if none is asked for.
LEMMA StatusAskedTyped ==
    ASSUME PagesInv
    PROVE  /\ StatusAsked(page_statuses) \in Seq(StatusRequests)
           /\ Len(StatusAsked(page_statuses)) <= 1
  <1>1. page_statuses \in Seq(StatusRequests) /\ Len(page_statuses) <= 1
    BY DEF PagesInv, PageTypes
  <1>2. [at |-> "sent"] \in StatusRequests
    BY DEF StatusRequests
  <1>3. CASE page_statuses = <<>>
    <2>1. StatusAsked(page_statuses) = <<[at |-> "sent"]>>
      BY <1>3 DEF StatusAsked, tripGuard
    <2>. QED  BY <1>2, <2>1
  <1>4. CASE page_statuses # <<>>
    BY <1>1, <1>4 DEF StatusAsked, tripGuard
  <1>. QED  BY <1>3, <1>4

LEMMA PageStatuses ==
    ASSUME PagesInv,
           Refreshed \/ \E i \in DOMAIN page_statuses :
                           ServePageStatus(i) \/ StatusArrives(i) \/ StatusFails(i)
    PROVE  PagesInv'
  <1>1. UNCHANGED <<page_kind, page_form, save_vars, device_vars, load_vars>>
    BY DEF Refreshed, ServePageStatus, StatusArrives, StatusFails
  <1>2. SaveProgress' /\ SaveHeard'
    BY <1>1, PageSaveFrame
  <1>3. /\ UNCHANGED <<page_kind, page_form, page_submitted, device_stored, device_target,
                       device_epoch, page_loads, page_loaded, page_error, page_reconnects,
                       page_post, page_saving, page_save_error>>
        /\ Forms' = Forms
    BY <1>1 DEF save_vars, post_vars, heard_vars, device_vars, load_vars, Forms, PageKeys
  <1>4. page_statuses \in Seq(StatusRequests) /\ Len(page_statuses) <= 1
    BY DEF PagesInv, PageTypes
  <1>5. page_statuses' \in Seq(StatusRequests) /\ Len(page_statuses') <= 1
    <2>1. CASE Refreshed
      BY <2>1, StatusAskedTyped DEF Refreshed
    <2>2. ASSUME NEW i \in DOMAIN page_statuses, ServePageStatus(i)
          PROVE  page_statuses' \in Seq(StatusRequests) /\ Len(page_statuses') <= 1
      <3> DEFINE r == [at |-> "answered", data |-> <<device_target, device_epoch>>]
      <3>1. r \in StatusRequests
        BY DEF PagesInv, PageTypes, StatusRequests
      <3>2. page_statuses' = [page_statuses EXCEPT ![i] = r]
        BY <2>2 DEF ServePageStatus
      <3> HIDE DEF r
      <3>. QED  BY <1>4, <2>2, <3>1, <3>2
    <2>3. ASSUME NEW i \in DOMAIN page_statuses, StatusArrives(i) \/ StatusFails(i)
          PROVE  page_statuses' \in Seq(StatusRequests) /\ Len(page_statuses') <= 1
      <3>1. page_statuses' = <<>>
        BY <1>4, <2>3, RemoveOnly DEF StatusArrives, StatusFails
      <3>. QED  BY <3>1
    <2>. QED  BY <2>1, <2>2, <2>3
  <1>. QED
    BY <1>2, <1>3, <1>5 DEF PagesInv, PageTypes, PageFlags, LoadRequests, StatusRequests, PageKeys

\* The steps that leave the requests in flight for settings, status and
\* reconnect alone.
LEMMA PageTypesFrame ==
    ASSUME PagesInv, UNCHANGED <<page_kind, load_vars, status_vars, page_reconnects>>,
           page_form' \in Forms, page_submitted' \in Forms, device_stored' \in Forms,
           device_target' \in Forms, device_epoch' \in Nat,
           page_post' \in [at : {"idle", "sent", "ok", "failed"}],
           page_saving' \in 0..PageKeys, page_saving' = 0 <=> page_post'.at = "idle",
           page_save_error' \in {"none", "invalid", "failed", "saved_not_cleared"}
    PROVE  PageTypes' /\ PageFlags'
  BY DEF PagesInv, PageTypes, PageFlags, load_vars, status_vars, Forms, PageKeys, LoadRequests,
         StatusRequests

LEMMA KeysSubmitted ==
    ASSUME PagesInv
    PROVE  PageKeys \in {1, 2} /\ Len(page_submitted) = PageKeys
  <1>1. PageKeys \in {1, 2} /\ page_submitted \in [1..PageKeys -> Words]
    BY DEF PagesInv, PageTypes, Forms, PageKeys
  <1>. QED  BY <1>1

\* Editing the form, a refused save and a new one.
LEMMA PageEdits ==
    ASSUME PagesInv,
           (\E form \in Pages[page_kind].forms : EditForm(form)) \/ SaveInvalid \/ SavePage
    PROVE  PagesInv'
  <1>1. /\ UNCHANGED <<page_kind, load_vars, status_vars, page_reconnects, page_epoch,
                       page_unheard, device_vars>>
        /\ page_saving = 0
    BY DEF EditForm, SaveInvalid, SavePage, heard_vars
  <1>2. UNCHANGED <<device_stored, device_target, device_epoch, device_wake>>
    BY <1>1 DEF device_vars
  <1>3. /\ page_form \in Forms /\ page_submitted \in Forms /\ device_stored \in Forms
        /\ device_target \in Forms /\ device_epoch \in Nat /\ page_kind \in DOMAIN Pages
        /\ page_post \in [at : {"idle", "sent", "ok", "failed"}] /\ page_post.at = "idle"
        /\ page_save_error \in {"none", "invalid", "failed", "saved_not_cleared"}
    BY <1>1 DEF PagesInv, PageTypes
  <1>4. CASE \E form \in Pages[page_kind].forms : EditForm(form)
    <2>1. /\ page_form' \in Forms
          /\ UNCHANGED <<page_saving, page_post, page_submitted>>
          /\ \/ UNCHANGED <<page_saved, page_save_error>>
             \/ page_saved' = FALSE /\ page_save_error' = "none"
      BY <1>3, <1>4, FormsTyped DEF EditForm
    <2>2. PageTypes' /\ PageFlags'
      BY <1>1, <1>2, <1>3, <2>1, PageTypesFrame DEF PageKeys
    <2>3. SaveProgress'
      BY <1>1, <1>2, <2>1 DEF PagesInv, SaveProgress
    <2>4. HasService' = HasService /\ FormOf(device_stored)' = FormOf(device_stored)
      BY <1>1, <1>2 DEF HasService, FormOf, KodiForm, DeviceNameForm
    <2>5. SaveHeard'
      BY <1>1, <1>2, <2>1, <2>4 DEF PagesInv, SaveHeard
    <2>. QED  BY <2>2, <2>3, <2>5 DEF PagesInv
  <1>5. CASE SaveInvalid
    <2>1. /\ UNCHANGED <<page_form, page_saving, page_post, page_submitted>>
          /\ page_saved' = FALSE /\ page_save_error' = "invalid"
      BY <1>5 DEF SaveInvalid
    <2>2. PageTypes' /\ PageFlags'
      BY <1>1, <1>2, <1>3, <2>1, PageTypesFrame DEF PageKeys
    <2>3. SaveProgress' /\ SaveHeard'
      BY <1>1, <1>2, <2>1 DEF PagesInv, SaveProgress, SaveHeard
    <2>. QED  BY <2>2, <2>3 DEF PagesInv
  <1>6. CASE SavePage
    <2>1. /\ page_form' = page_form /\ page_submitted' = page_form
          /\ page_saving' = 1 /\ page_post' = [at |-> "sent"]
          /\ page_saved' = FALSE /\ page_save_error' = "none"
      BY <1>6 DEF SavePage
    <2>2. /\ page_post' \in [at : {"idle", "sent", "ok", "failed"}]
          /\ page_post'.at = "sent" /\ page_saving' \in 0..PageKeys
      BY <2>1, KeysSubmitted
    <2>3. PageTypes' /\ PageFlags'
      BY <1>1, <1>2, <1>3, <2>1, <2>2, PageTypesFrame
    <2>4. SaveProgress' /\ SaveHeard'
      BY <2>1, <2>2, KeysSubmitted DEF SaveProgress, SaveHeard
    <2>. QED  BY <2>3, <2>4 DEF PagesInv
  <1>. QED  BY <1>4, <1>5, <1>6

\* The write in flight: served, refused or lost.
LEMMA PageWrites ==
    ASSUME PagesInv, (\E written \in BOOLEAN : ServePost(written)) \/ PostLost
    PROVE  PagesInv'
  <1>1. /\ UNCHANGED <<page_kind, page_form, load_vars, status_vars, page_reconnects, page_epoch,
                       page_unheard, page_saving, page_saved, page_save_error, page_submitted,
                       device_target, device_wake>>
        /\ page_post.at \in {"sent", "ok"}
    BY DEF ServePost, PostLost, heard_vars, device_vars
  <1>2. /\ page_form \in Forms /\ page_submitted \in Forms /\ device_stored \in Forms
        /\ device_target \in Forms /\ device_epoch \in Nat
        /\ page_saving \in 1..PageKeys /\ page_save_error = "none" /\ ~page_saved
        /\ PageKeys \in {1, 2}
        /\ \A k \in 1..PageKeys : k < page_saving => device_stored[k] = page_submitted[k]
    BY <1>1, KeysSubmitted DEF PagesInv, PageTypes, SaveProgress
  <1>3. CASE \E written \in BOOLEAN : ServePost(written)
    <2>1. CASE page_post' = [at |-> "ok"] /\ device_epoch' = device_epoch + 1
               /\ device_stored' =
                     [device_stored EXCEPT ![page_saving] = page_submitted[page_saving]]
      <3>1. /\ device_stored' \in Forms
            /\ \A k \in 1..PageKeys : k <= page_saving => device_stored'[k] = page_submitted[k]
        BY <1>2, <2>1 DEF Forms
      <3>2. page_post' \in [at : {"idle", "sent", "ok", "failed"}] /\ page_post'.at = "ok"
        BY <2>1
      <3>3. PageTypes' /\ PageFlags'
        BY <1>1, <1>2, <2>1, <3>1, <3>2, PageTypesFrame
      <3>4. SaveProgress' /\ SaveHeard'
        <4>1. PageKeys' = PageKeys
          BY <1>1 DEF PageKeys
        <4>2. device_stored'[page_saving] = page_submitted[page_saving]
          BY <1>2, <3>1
        <4>. QED  BY <1>1, <1>2, <3>1, <4>1, <4>2 DEF SaveProgress, SaveHeard
      <3>. QED  BY <3>3, <3>4 DEF PagesInv
    <2>2. CASE page_post' = [at |-> "failed"] /\ UNCHANGED <<device_stored, device_epoch>>
      <3>1. page_post' \in [at : {"idle", "sent", "ok", "failed"}] /\ page_post'.at = "failed"
        BY <2>2
      <3>2. PageTypes' /\ PageFlags'
        BY <1>1, <1>2, <2>2, <3>1, PageTypesFrame
      <3>3. SaveProgress' /\ SaveHeard'
        BY <1>1, <1>2, <2>2, <3>1 DEF SaveProgress, SaveHeard, PageKeys
      <3>. QED  BY <3>2, <3>3 DEF PagesInv
    <2>. QED  BY <1>3, <2>1, <2>2 DEF ServePost
  <1>4. CASE PostLost
    <2>1. /\ page_post' = [at |-> "failed"]
          /\ UNCHANGED <<device_stored, device_epoch>>
      BY <1>4 DEF PostLost, device_vars
    <2>2. page_post' \in [at : {"idle", "sent", "ok", "failed"}] /\ page_post'.at = "failed"
      BY <2>1
    <2>3. PageTypes' /\ PageFlags'
      BY <1>1, <1>2, <2>1, <2>2, PageTypesFrame
    <2>4. SaveProgress' /\ SaveHeard'
      BY <1>1, <1>2, <2>1, <2>2 DEF SaveProgress, SaveHeard, PageKeys
    <2>. QED  BY <2>3, <2>4 DEF PagesInv
  <1>. QED  BY <1>3, <1>4

\* The outcome of a write arrives.
LEMMA PageOutcomes ==
    ASSUME PagesInv, WriteArrives \/ WriteFails
    PROVE  PagesInv'
  <1>1. /\ UNCHANGED <<page_kind, page_form, load_vars, page_submitted, page_statuses,
                       device_vars>>
        /\ page_post.at \in {"ok", "failed"}
    BY DEF WriteArrives, WriteFails, status_vars
  <1>2. UNCHANGED <<device_stored, device_target, device_epoch, device_wake, page_loads,
                    page_loaded, page_error>> /\ Forms' = Forms /\ PageKeys' = PageKeys
    BY <1>1 DEF device_vars, load_vars, Forms, PageKeys
  <1>3. /\ page_form \in Forms /\ page_submitted \in Forms /\ device_stored \in Forms
        /\ device_target \in Forms /\ device_epoch \in Nat
        /\ page_saving \in 1..PageKeys /\ page_save_error = "none" /\ ~page_saved
        /\ PageKeys \in {1, 2} /\ Len(page_submitted) = PageKeys
        /\ page_reconnects \in Seq(ReconnectRequests)
        /\ \A k \in 1..PageKeys : k < page_saving => device_stored[k] = page_submitted[k]
    BY <1>1, KeysSubmitted DEF PagesInv, PageTypes, SaveProgress
  <1>4. /\ NoRequest \in [at : {"idle", "sent", "ok", "failed"}] /\ NoRequest.at = "idle"
        /\ [at |-> "sent"] \in [at : {"idle", "sent", "ok", "failed"}]
        /\ [at |-> "sent"].at = "sent"
    BY DEF NoRequest
  <1>5. ASSUME page_reconnects' \in Seq(ReconnectRequests),
               page_post' \in [at : {"idle", "sent", "ok", "failed"}],
               page_saving' \in 0..PageKeys, page_saving' = 0 <=> page_post'.at = "idle",
               page_save_error' \in {"none", "invalid", "failed", "saved_not_cleared"}
        PROVE  PageTypes' /\ PageFlags'
    BY <1>1, <1>2, <1>5
       DEF PagesInv, PageTypes, PageFlags, LoadRequests, StatusRequests, PageKeys
  <1>6. CASE WriteFails
    <2>1. /\ page_saving' = 0 /\ page_post' = NoRequest /\ page_saved' = page_saved
          /\ page_save_error' = FailureShown(page_saving)
          /\ UNCHANGED <<page_reconnects, page_epoch, page_unheard>>
      BY <1>6 DEF WriteFails, heard_vars
    <2>2. page_save_error' \in {"failed", "saved_not_cleared"}
          /\ (page_save_error' = "saved_not_cleared" => page_saving = 2)
      BY <1>3, <2>1 DEF FailureShown
    <2>3. PageTypes' /\ PageFlags'
      BY <1>3, <1>4, <1>5, <2>1, <2>2
    <2>4. page_saving = 2 => page_kind = "kodi" /\ device_stored[1] = page_submitted[1]
      BY <1>3 DEF PageKeys
    <2>5. SaveProgress' /\ SaveHeard'
      BY <1>1, <1>2, <1>3, <2>1, <2>2, <2>4 DEF SaveProgress, SaveHeard
    <2>. QED  BY <2>3, <2>5 DEF PagesInv
  <1>7. CASE WriteArrives /\ page_saving # PageKeys
    <2>1. /\ page_saving' = page_saving + 1 /\ page_post' = [at |-> "sent"]
          /\ page_saved' = FALSE /\ page_save_error' = page_save_error
          /\ UNCHANGED <<page_reconnects, page_epoch, page_unheard>>
      BY <1>3, <1>7 DEF WriteArrives, heard_vars
    <2>2. page_saving' \in 1..PageKeys
      BY <1>3, <1>7, <2>1
    <2>3. PageTypes' /\ PageFlags'
      BY <1>3, <1>4, <1>5, <2>1, <2>2
    <2>4. device_stored[page_saving] = page_submitted[page_saving]
      BY <1>3, <1>7 DEF WriteArrives, PagesInv, SaveProgress
    <2>5. \A k \in 1..PageKeys : k < page_saving' => device_stored[k] = page_submitted[k]
      BY <1>3, <2>1, <2>4
    <2>6. SaveProgress' /\ SaveHeard'
      BY <1>1, <1>2, <1>3, <1>4, <2>1, <2>2, <2>5 DEF SaveProgress, SaveHeard
    <2>. QED  BY <2>3, <2>6 DEF PagesInv
  <1>8. CASE WriteArrives /\ page_saving = PageKeys
    <2> DEFINE r == [at |-> "sent", of |-> device_epoch]
    <2>1. /\ page_saving' = 0 /\ page_post' = NoRequest /\ page_saved' = TRUE
          /\ page_save_error' = page_save_error
          /\ page_epoch' = device_epoch /\ page_unheard' = FALSE
          /\ page_reconnects' = IF HasService THEN Append(page_reconnects, r)
                                ELSE page_reconnects
      BY <1>3, <1>8 DEF WriteArrives
    <2>2. r \in ReconnectRequests /\ r.at = "sent" /\ r.of = device_epoch
      BY <1>3 DEF ReconnectRequests
    <2> HIDE DEF r
    <2>3. page_reconnects' \in Seq(ReconnectRequests)
      BY <1>3, <2>1, <2>2
    <2>4. PageTypes' /\ PageFlags'
      BY <1>3, <1>4, <1>5, <2>1, <2>3
    <2>5. device_stored = page_submitted
      <3>1. device_stored[page_saving] = page_submitted[page_saving]
        BY <1>8 DEF WriteArrives, PagesInv, SaveProgress, PageTypes
      <3>2. \A k \in 1..PageKeys : device_stored[k] = page_submitted[k]
        BY <1>3, <1>8, <3>1
      <3>. QED  BY <1>3, <3>2 DEF Forms
    <2>6. SaveProgress'
      BY <1>1, <1>2, <1>3, <2>1, <2>5 DEF SaveProgress
    <2>7. HasService =>
             \E i \in DOMAIN page_reconnects' :
                page_reconnects'[i].at = "sent" /\ page_reconnects'[i].of = device_epoch
      <3> SUFFICES ASSUME HasService
                   PROVE  \E i \in DOMAIN page_reconnects' :
                             /\ page_reconnects'[i].at = "sent"
                             /\ page_reconnects'[i].of = device_epoch
        OBVIOUS
      <3>1. page_reconnects' = Append(page_reconnects, r)
        BY <2>1
      <3>2. /\ Len(page_reconnects) + 1 \in DOMAIN page_reconnects'
            /\ page_reconnects'[Len(page_reconnects) + 1] = r
        BY <1>3, <2>2, <3>1
      <3>. QED  BY <2>2, <3>2
    <2>8. SaveHeard'
      BY <1>1, <2>1, <2>7 DEF SaveHeard, HasService
    <2>. QED  BY <2>4, <2>6, <2>8 DEF PagesInv
  <1>. QED  BY <1>6, <1>7, <1>8

\* A reconnect request is served, answered or lost, and the service reads
\* the settings.
LEMMA PageReconnects ==
    ASSUME PagesInv,
           \/ \E i \in DOMAIN page_reconnects : ServeReconnect(i) \/ ReconnectArrives(i)
           \/ ServiceReads \/ ServiceDrops
    PROVE  PagesInv'
  <1>1. /\ UNCHANGED <<page_kind, page_form, load_vars, post_vars, page_epoch, page_status,
                       device_stored, device_epoch>>
    BY DEF ServeReconnect, ReconnectArrives, ServiceReads, ServiceDrops, save_vars, heard_vars,
           status_vars, device_vars
  <1>2. /\ UNCHANGED <<page_saving, page_post, page_saved, page_save_error, page_submitted,
                       page_loads, page_loaded, page_error>>
        /\ Forms' = Forms /\ PageKeys' = PageKeys /\ HasService' = HasService
        /\ FormOf(device_stored)' = FormOf(device_stored)
    BY <1>1 DEF post_vars, load_vars, Forms, PageKeys, HasService, FormOf, KodiForm, DeviceNameForm
  <1>3. SaveProgress'
    BY <1>1, <1>2 DEF PagesInv, SaveProgress
  <1>4. page_reconnects \in Seq(ReconnectRequests)
    BY DEF PagesInv, PageTypes
  <1>5. ASSUME page_reconnects' \in Seq(ReconnectRequests), device_target' \in Forms,
               page_statuses' \in Seq(StatusRequests), Len(page_statuses') <= 1
        PROVE  PageTypes' /\ PageFlags'
    BY <1>1, <1>2, <1>5
       DEF PagesInv, PageTypes, PageFlags, LoadRequests, StatusRequests, PageKeys
  <1>6. CASE ServiceReads \/ ServiceDrops
    <2>1. /\ device_target' = FormOf(device_stored)
          /\ UNCHANGED <<page_reconnects, page_statuses, page_unheard>>
      BY <1>6 DEF ServiceReads, ServiceDrops, save_vars, heard_vars, status_vars
    <2>2. PageTypes' /\ PageFlags'
      BY <1>4, <1>5, <2>1, FormOfTyped DEF PagesInv, PageTypes
    <2>3. SaveHeard'
      BY <1>1, <1>2, <2>1 DEF SaveHeard
    <2>. QED  BY <1>3, <2>2, <2>3 DEF PagesInv
  <1>7. ASSUME NEW i \in DOMAIN page_reconnects, ServeReconnect(i) PROVE PagesInv'
    <2>1. /\ page_reconnects' = [page_reconnects EXCEPT ![i].at = "ok"] /\ device_wake' = TRUE
          /\ UNCHANGED <<page_statuses, device_target>>
      BY <1>7 DEF ServeReconnect, ReconnectRoute, status_vars
    <2>2. [page_reconnects[i] EXCEPT !.at = "ok"] \in ReconnectRequests
      <3>1. page_reconnects[i] \in ReconnectRequests
        BY <1>4, <1>7
      <3>. QED  BY <3>1 DEF ReconnectRequests
    <2>3. page_reconnects' \in Seq(ReconnectRequests)
      BY <1>4, <1>7, <2>1, <2>2
    <2>4. PageTypes' /\ PageFlags'
      BY <1>5, <2>1, <2>3 DEF PagesInv, PageTypes
    <2>5. SaveHeard'
      BY <2>1 DEF SaveHeard
    <2>. QED  BY <1>3, <2>4, <2>5 DEF PagesInv
  <1>8. ASSUME NEW i \in DOMAIN page_reconnects, ReconnectArrives(i) PROVE PagesInv'
    <2>1. /\ page_reconnects' = RemoveAt(page_reconnects, i)
          /\ page_statuses' = StatusAsked(page_statuses)
          /\ UNCHANGED <<device_target, device_wake>>
      BY <1>8 DEF ReconnectArrives, device_vars
    <2>2. \/ page_reconnects[i].at = "ok" /\ page_unheard' = page_unheard
          \/ page_unheard' = (page_unheard \/ page_reconnects[i].of = page_epoch)
      BY <1>8 DEF ReconnectArrives
    <2>3. PageTypes' /\ PageFlags'
      BY <1>4, <1>5, <1>8, <2>1, RemoveAtKeeps, StatusAskedTyped DEF PagesInv, PageTypes
    <2>4. SaveHeard'
      <3> SUFFICES ASSUME page_saved, HasService, ~page_unheard',
                          ~(device_target = FormOf(device_stored) \/ device_wake)
                   PROVE  \E k \in DOMAIN page_reconnects' :
                             /\ page_reconnects'[k].at = "sent"
                             /\ page_reconnects'[k].of = page_epoch
        BY <1>1, <1>2, <2>1 DEF SaveHeard
      <3>1. ~page_unheard
        BY <2>2
      <3>2. PICK j \in DOMAIN page_reconnects :
               page_reconnects[j].at = "sent" /\ page_reconnects[j].of = page_epoch
        BY <3>1 DEF PagesInv, SaveHeard
      <3>3. j # i
        BY <2>2, <3>2
      <3>4. \E k \in DOMAIN page_reconnects' : page_reconnects'[k] = page_reconnects[j]
        BY <1>4, <1>8, <2>1, <3>3, RemoveAtKeeps
      <3>. QED  BY <3>2, <3>4
    <2>. QED  BY <1>3, <2>3, <2>4 DEF PagesInv
  <1>. QED  BY <1>6, <1>7, <1>8

\* PagesSafe for any pages and any number of clicks, edits and lost requests:
\* "Saved." is said of what is stored; after a failed second write the first
\* key is stored, which is the new selection for a host entered and the
\* clearing of the old one for a discovered instance; and the service hears of
\* every save whose reconnect request came through.
THEOREM PagesSafeHolds == PagesSpec => []PagesSafe
<1>1. PagesInv /\ [PagesNext]_page_vars => PagesInv'
  <2> SUFFICES ASSUME PagesInv, [PagesNext]_page_vars PROVE PagesInv'
    OBVIOUS
  <2>1. CASE UNCHANGED page_vars
    <3>1. UNCHANGED <<page_kind, page_form, load_vars, save_vars, status_vars, device_vars>>
      BY <2>1 DEF page_vars
    <3>2. SaveProgress' /\ SaveHeard'
      BY <3>1, PageSaveFrame
    <3>3. PageTypes' /\ PageFlags'
      BY <3>1 DEF PagesInv, PageTypes, PageFlags, load_vars, save_vars, post_vars, heard_vars,
                  status_vars, device_vars, Forms, PageKeys, LoadRequests, StatusRequests
    <3>. QED  BY <3>2, <3>3 DEF PagesInv
  <2>. QED
    BY <2>1, PageLoads, PageStatuses, PageEdits, PageWrites, PageOutcomes, PageReconnects
       DEF PagesNext
<1>2. PagesInv => PagesSafe
  <2> SUFFICES ASSUME PagesInv PROVE PagesSafe
    OBVIOUS
  <2>1. page_form \in Seq(Words)
    BY KeysSubmitted DEF PagesInv, PageTypes, Forms
  <2>2. page_saving \in 0..Len(page_submitted)
    BY KeysSubmitted DEF PagesInv, PageTypes
  <2>3. page_post.at \in {"idle", "sent", "ok", "failed"}
    BY DEF PagesInv, PageTypes
  <2>4. (page_saving = 0) = (page_post.at = "idle")
    BY DEF PagesInv, PageTypes
  <2>5. PagesTypeOK
    BY <2>1, <2>2, <2>3, <2>4 DEF PagesInv, PageTypes, PageFlags, PagesTypeOK, Words
  <2>6. SavedIsStored /\ PartialIsTold
    <3>1. ASSUME page_save_error = "saved_not_cleared", page_submitted[1] # Empty
          PROVE  FormOf(device_stored) = <<page_submitted[1], Empty>>
      BY <3>1 DEF PagesInv, SaveProgress, FormOf, KodiForm
    <3>. QED  BY <3>1 DEF PagesInv, SaveProgress, SavedIsStored, PartialIsTold
  <2>7. SaveIsHeard
    BY DEF PagesInv, SaveHeard, SaveIsHeard
  <2>. QED  BY <2>5, <2>6, <2>7 DEF PagesSafe
<1>. QED  BY <1>1, <1>2, PagesInvInit, PTL DEF PagesSpec

-----------------------------------------------------------------------------
(* The log's queue, worker and files *)

\* The current log begins with a part of the backup, which is all the two have
\* in common; the rest of it is newer than the whole backup.
Joined(r, c) ==
    \E k \in 0..Len(r) :
        /\ k <= Len(c) /\ \A i \in 1..k : r[i] = c[i]
        /\ \A i \in 1..Len(r), j \in (k + 1)..Len(c) : r[i] < c[j]

\* A file's blob: in order, within the cap, nothing above the last write.
Stored(s, last) ==
    /\ s \in Seq(Nat) /\ Increasing(s) /\ Len(s) <= MaxLogEntries
    /\ \A i \in 1..Len(s) : s[i] <= last

\* The queue behind batch b: in order, and newer than the batch and than
\* everything written.
Queued(q, b, last, newest) ==
    /\ \A i \in 1..Len(q) : q[i] = 0 \/ (last < q[i] /\ q[i] <= newest)
    /\ \A i, j \in 1..Len(q) : i < j /\ q[i] # 0 /\ q[j] # 0 => q[i] < q[j]
    /\ \A i \in 1..Len(b), j \in 1..Len(q) : q[j] # 0 => b[i] < q[j]

\* The entries the worker has popped: in order, and none from the future.
Batched(b, newest) == Increasing(b) /\ \A i \in 1..Len(b) : 0 < b[i] /\ b[i] <= newest

\* Entry n has been written, or will be by the batch.
Taken(n, b, last) == n <= last \/ \E i \in 1..Len(b) : b[i] = n

\* The variables' types.
LogTypes ==
    /\ log_pending \in Seq(Nat) /\ logged \in Nat /\ handled \in Nat /\ handled <= logged
    /\ log_worker \in [pc : {"wait", "drain", "append", "rotate", "restart", "signal"},
                       batch : Seq(Nat), flush : BOOLEAN]
    /\ reader \in [pc : {"none", "waiting", "read_rotated", "read_current", "view"},
                   asked : Nat, rotated : Seq(Nat), view : Seq(Nat)]
    /\ reader.asked <= logged
    /\ faults_left \in Nat /\ faults_left <= MaxLogFaults /\ reads_left \in Nat

\* What WorkerLoop() holds at each of its points: nothing while it waits, only
\* unwritten entries up to the write, and a batch that fits when it appends.
WorkerInv ==
    LET b == log_worker.batch
    IN  /\ log_worker.pc = "wait" => b = <<>> /\ ~log_worker.flush
        /\ log_worker.pc \in {"append", "rotate", "restart"} => b # <<>>
        /\ log_worker.pc \in {"drain", "append", "rotate", "restart"} =>
              \A i \in 1..Len(b) : handled < b[i]
        /\ log_worker.pc = "append" => Len(current) + Len(b) <= MaxLogEntries
        /\ log_worker.pc = "signal" => \A i \in 1..Len(b) : b[i] <= handled

\* The newest entry has been written, or is in the batch or in the queue.
NothingDropped ==
    Taken(logged, log_worker.batch, handled) \/ \E i \in 1..Len(log_pending) : log_pending[i] = logged

\* The entries ReadAll() waits for are in front of its flush request.
WaitInv ==
    /\ reader.pc # "waiting" =>
          ~log_worker.flush /\ \A j \in 1..Len(log_pending) : log_pending[j] # 0
    /\ \A i, j \in 1..Len(log_pending) : log_pending[i] = 0 /\ log_pending[j] = 0 => i = j
    /\ log_worker.flush =>
          /\ Taken(reader.asked, log_worker.batch, handled)
          /\ \A j \in 1..Len(log_pending) : log_pending[j] # 0
    /\ \A j \in 1..Len(log_pending) : log_pending[j] = 0 =>
          \/ Taken(reader.asked, log_worker.batch, handled)
          \/ \E i \in 1..Len(log_pending) : i < j /\ log_pending[i] = reader.asked

\* What makes LogSafe inductive.
LogInv ==
    /\ LogTypes /\ Stored(rotated, handled) /\ Stored(current, handled) /\ Joined(rotated, current)
    /\ Batched(log_worker.batch, logged) /\ Queued(log_pending, log_worker.batch, handled, logged)
    /\ WorkerInv /\ NothingDropped /\ WaitInv /\ NewestStored /\ FlushComplete

-----------------------------------------------------------------------------
\* A part of a file that was being written.
LEMMA PrefixFacts ==
    ASSUME NEW s \in Seq(Nat), NEW x \in Prefixes(s)
    PROVE  x \in Seq(Nat) /\ Len(x) <= Len(s) /\ \A i \in 1..Len(x) : x[i] = s[i]
  <1>1. PICK l \in 0..Len(s) : x = SubSeq(s, 1, l)
    BY DEF Prefixes
  <1>2. x \in Seq(Nat) /\ Len(x) = l /\ \A i \in 1..l : x[i] = s[i]
    BY <1>1
  <1>3. Len(s) \in Nat
    OBVIOUS
  <1>. QED  BY <1>2, <1>3

\* A part of a stored blob is in order and within the cap too.
LEMMA PrefixStored ==
    ASSUME NEW s, NEW last \in Nat, Stored(s, last), NEW x \in Prefixes(s)
    PROVE  Stored(x, last)
  <1>1. x \in Seq(Nat) /\ Len(x) <= Len(s) /\ \A i \in 1..Len(x) : x[i] = s[i]
    BY PrefixFacts DEF Stored
  <1>0. s \in Seq(Nat) /\ Len(s) \in Nat /\ Len(x) \in Nat /\ Len(s) <= MaxLogEntries
    BY <1>1 DEF Stored
  <1>2. 1..Len(x) \subseteq 1..Len(s)
    BY <1>0, <1>1
  <1>3. ASSUME NEW i \in 1..Len(x), NEW j \in 1..Len(x), i < j PROVE x[i] < x[j]
    <2>1. s[i] < s[j]
      BY <1>2, <1>3 DEF Stored, Increasing
    <2>. QED  BY <1>1, <2>1
  <1>4. \A i \in 1..Len(x) : x[i] <= last
    BY <1>1, <1>2 DEF Stored
  <1>5. Len(x) <= MaxLogEntries
    BY <1>0, <1>1, LogAssumption
  <1>. QED  BY <1>1, <1>3, <1>4, <1>5 DEF Stored, Increasing

\* A blob stays well-formed as the worker goes on.
LEMMA StoredLater ==
    ASSUME NEW s, NEW last \in Nat, NEW later \in Nat, last <= later, Stored(s, last)
    PROVE  Stored(s, later)
  BY DEF Stored

\* Arithmetic, for the first-order prover.
LEMMA LessTrans ==
    ASSUME NEW u \in Nat, NEW w \in Nat, NEW v \in Nat, u <= w, w < v
    PROVE  u < v
  OBVIOUS

\* What an unfinished write of the backup leaves.
LEMMA JoinBackup ==
    ASSUME NEW c \in Seq(Nat), Increasing(c), NEW x \in Prefixes(c)
    PROVE  Joined(x, c)
  <1>1. x \in Seq(Nat) /\ Len(x) <= Len(c) /\ \A i \in 1..Len(x) : x[i] = c[i]
    BY PrefixFacts
  <1>2. ASSUME NEW i \in 1..Len(x), NEW j \in (Len(x) + 1)..Len(c) PROVE x[i] < c[j]
    <2>1. i \in 1..Len(c) /\ j \in 1..Len(c) /\ i < j
      BY <1>1
    <2>2. c[i] < c[j]
      BY <2>1 DEF Increasing
    <2>. QED  BY <1>1, <2>2
  <1>. QED  BY <1>1, <1>2 DEF Joined

\* What a write of newer entries alone leaves.
LEMMA JoinNewer ==
    ASSUME NEW r \in Seq(Nat), NEW c \in Seq(Nat), NEW last \in Nat,
           \A i \in 1..Len(r) : r[i] <= last, \A j \in 1..Len(c) : last < c[j]
    PROVE  Joined(r, c)
  <1>1. \A i \in 1..Len(r), j \in (0 + 1)..Len(c) : r[i] < c[j]
    OBVIOUS
  <1>2. 0 \in 0..Len(r) /\ 0 <= Len(c) /\ 1..0 = {}
    OBVIOUS
  <1>. QED  BY <1>1, <1>2 DEF Joined

\* What an unfinished write of the current log with newer entries leaves.
LEMMA JoinAppended ==
    ASSUME NEW r \in Seq(Nat), NEW c \in Seq(Nat), NEW b \in Seq(Nat), NEW last \in Nat,
           \A i \in 1..Len(r) : r[i] <= last, \A j \in 1..Len(b) : last < b[j],
           Joined(r, c), NEW x \in Prefixes(c \o b)
    PROVE  Joined(r, x)
  <1>1. /\ c \o b \in Seq(Nat) /\ Len(c \o b) = Len(c) + Len(b)
        /\ \A i \in 1..Len(c) : (c \o b)[i] = c[i]
        /\ \A i \in (Len(c) + 1)..(Len(c) + Len(b)) : (c \o b)[i] = b[i - Len(c)]
    OBVIOUS
  <1>2. x \in Seq(Nat) /\ Len(x) <= Len(c \o b) /\ \A i \in 1..Len(x) : x[i] = (c \o b)[i]
    BY <1>1, PrefixFacts
  <1>3. PICK k \in 0..Len(r) :
            /\ k <= Len(c) /\ \A i \in 1..k : r[i] = c[i]
            /\ \A i \in 1..Len(r), j \in (k + 1)..Len(c) : r[i] < c[j]
    BY DEF Joined
  <1>0. /\ \A i \in 1..Len(r) : r[i] \in Nat /\ r[i] <= last
        /\ \A j \in 1..Len(b) : b[j] \in Nat /\ last < b[j]
    OBVIOUS
  <1>. DEFINE m == IF k <= Len(x) THEN k ELSE Len(x)
  <1>4. m \in 0..Len(r) /\ m <= Len(x) /\ m <= k
    BY <1>2, <1>3
  <1>5. \A i \in 1..m : r[i] = x[i]
    BY <1>1, <1>2, <1>3, <1>4
  <1>6. ASSUME NEW i \in 1..Len(r), NEW j \in (m + 1)..Len(x) PROVE r[i] < x[j]
    <2>1. m = k /\ j \in (k + 1)..Len(x)
      BY <1>2, <1>3
    <2>2. CASE j <= Len(c)
      BY <1>1, <1>2, <1>3, <2>1, <2>2
    <2>3. CASE j > Len(c)
      <3>0. /\ Len(c) \in Nat /\ Len(b) \in Nat /\ Len(x) \in Nat
            /\ Len(x) <= Len(c) + Len(b) /\ k \in Nat
        BY <1>1, <1>2, <1>3
      <3>1. j \in 1..Len(x) /\ j \in (Len(c) + 1)..(Len(c) + Len(b))
        BY ONLY <3>0, <2>1, <2>3
      <3>2. j - Len(c) \in 1..Len(b)
        BY <3>1
      <3>3. x[j] = b[j - Len(c)]
        BY <1>1, <1>2, <3>1
      <3>4. r[i] \in Nat /\ b[j - Len(c)] \in Nat /\ r[i] <= last /\ last < b[j - Len(c)]
        BY <1>0, <3>2, Zenon
      <3>5. r[i] < b[j - Len(c)]
        BY <3>4, LessTrans, Zenon
      <3>. QED  BY <3>3, <3>5, Zenon
    <2>. QED  BY <2>1, <2>2, <2>3
  <1>. HIDE DEF m
  <1>. QED  BY <1>4, <1>5, <1>6 DEF Joined

\* An appended batch.
LEMMA AppendStored ==
    ASSUME NEW c, NEW b \in Seq(Nat), NEW last \in Nat, NEW newest \in Nat, Stored(c, last),
           Increasing(b), \A j \in 1..Len(b) : last < b[j] /\ b[j] <= newest,
           last <= newest, Len(c) + Len(b) <= MaxLogEntries
    PROVE  Stored(c \o b, newest)
  <1>. DEFINE s == c \o b
  <1>1. /\ s \in Seq(Nat) /\ Len(s) = Len(c) + Len(b) /\ c \in Seq(Nat)
        /\ \A i \in 1..Len(c) : s[i] = c[i] /\ s[i] <= last
        /\ \A i \in (Len(c) + 1)..(Len(c) + Len(b)) :
              s[i] = b[i - Len(c)] /\ i - Len(c) \in 1..Len(b)
    BY DEF Stored
  <1>. HIDE DEF s
  <1>0. Len(c) \in Nat /\ Len(b) \in Nat
    BY <1>1
  <1>b. \A j \in 1..Len(b) : b[j] \in Nat /\ last < b[j]
    OBVIOUS
  <1>2. ASSUME NEW i \in 1..Len(s) PROVE s[i] <= newest
    <2>1. CASE i <= Len(c)
      <3>1. i \in 1..Len(c)
        BY <1>0, <2>1
      <3>2. s[i] <= last /\ s[i] \in Nat
        BY <1>1, <3>1
      <3>. QED  BY <3>2
    <2>2. CASE i > Len(c)
      <3>1. i \in (Len(c) + 1)..(Len(c) + Len(b))
        BY <1>0, <1>1, <2>2
      <3>. QED  BY <1>1, <3>1
    <2>. QED  BY <1>0, <2>1, <2>2
  <1>3. ASSUME NEW i \in 1..Len(s), NEW j \in 1..Len(s), i < j PROVE s[i] < s[j]
    <2>1. CASE j <= Len(c)
      <3>1. i \in 1..Len(c) /\ j \in 1..Len(c)
        BY <1>0, <1>3, <2>1
      <3>2. c[i] < c[j]
        BY <1>3, <3>1 DEF Stored, Increasing
      <3>. QED  BY <1>1, <3>1, <3>2
    <2>2. CASE i <= Len(c) /\ j > Len(c)
      <3>1. i \in 1..Len(c) /\ j \in (Len(c) + 1)..(Len(c) + Len(b))
        BY <1>0, <1>1, <2>2
      <3>2. s[i] <= last /\ s[i] \in Nat /\ s[j] = b[j - Len(c)] /\ j - Len(c) \in 1..Len(b)
        <4>0. s \in Seq(Nat) /\ \A l \in 1..Len(c) : s[l] <= last
          BY <1>1
        <4>1. s[i] <= last
          BY <3>1, <4>0, Zenon
        <4>3. s[i] \in Nat
          BY <4>0
        <4>2. s[j] = b[j - Len(c)] /\ j - Len(c) \in 1..Len(b)
          BY <1>1, <3>1, Zenon
        <4>. QED  BY <4>1, <4>2, <4>3
      <3>3. last < b[j - Len(c)] /\ b[j - Len(c)] \in Nat
        BY <1>b, <3>2, Zenon
      <3>. QED  BY <3>2, <3>3
    <2>3. CASE i > Len(c)
      <3>1. /\ s[i] = b[i - Len(c)] /\ i - Len(c) \in 1..Len(b)
            /\ s[j] = b[j - Len(c)] /\ j - Len(c) \in 1..Len(b)
        <4>1. i \in (Len(c) + 1)..(Len(c) + Len(b)) /\ j \in (Len(c) + 1)..(Len(c) + Len(b))
          BY <1>0, <1>1, <1>3, <2>3
        <4>. QED  BY <1>1, <4>1
      <3>2. i - Len(c) < j - Len(c)
        BY <1>0, <1>3
      <3>. QED  BY <3>1, <3>2 DEF Increasing
    <2>. QED  BY <1>0, <2>1, <2>2, <2>3
  <1>4. Increasing(s)
    BY <1>3 DEF Increasing
  <1>. QED  BY <1>1, <1>2, <1>4 DEF Stored, s

\* The newest entries of a batch, as many as fit.
LEMMA TrimStored ==
    ASSUME NEW b \in Seq(Nat), b # <<>>, NEW last \in Nat, NEW newest \in Nat, Increasing(b),
           \A j \in 1..Len(b) : last < b[j] /\ b[j] <= newest
    PROVE  /\ Stored(TrimToTail(b), newest) /\ TrimToTail(b) # <<>>
           /\ \A j \in 1..Len(TrimToTail(b)) : last < TrimToTail(b)[j]
           /\ Last(TrimToTail(b)) = Last(b)
  <1>0. Len(b) \in Nat \ {0} /\ MaxLogEntries \in Nat \ {0}
    BY LogAssumption, EmptySeq
  <1>1. CASE Len(b) <= MaxLogEntries
    <2>1. TrimToTail(b) = b
      BY <1>1 DEF TrimToTail
    <2>. QED  BY <1>1, <2>1 DEF Stored
  <1>2. CASE Len(b) > MaxLogEntries
    <2>. DEFINE d == Len(b) - MaxLogEntries
                t == SubSeq(b, d + 1, Len(b))
    <2>1. TrimToTail(b) = t
      <3>1. ~(Len(b) <= MaxLogEntries)
        BY <1>0, <1>2
      <3>. QED  BY <3>1 DEF TrimToTail
    <2>2. d \in Nat /\ d + 1 \in 1..Len(b) /\ d + MaxLogEntries = Len(b)
      BY <1>0, <1>2
    <2>3. t \in Seq(Nat) /\ Len(t) = MaxLogEntries /\ \A i \in 1..MaxLogEntries : t[i] = b[d + i]
      <3>1. \A i \in (d + 1)..Len(b) : b[i] \in Nat
        BY <2>2
      <3>2. d + 1 \in Int /\ Len(b) \in Int /\ d + 1 <= Len(b) /\ Len(b) - (d + 1) + 1 = MaxLogEntries
        BY <1>0, <2>2
      <3>. HIDE DEF d
      <3>3. /\ t \in Seq(Nat) /\ Len(t) = (IF d + 1 <= Len(b) THEN Len(b) - (d + 1) + 1 ELSE 0)
            /\ \A i \in 1..(Len(b) - (d + 1) + 1) : t[i] = b[d + 1 + i - 1]
        BY <3>1, <3>2, SubSeqProperties
      <3>4. Len(t) = MaxLogEntries
        BY <3>2, <3>3
      <3>5. \A i \in 1..MaxLogEntries : d + 1 + i - 1 = d + i
        BY <2>2
      <3>6. \A i \in 1..MaxLogEntries : t[i] = b[d + i]
        BY <3>2, <3>3, <3>5, Zenon
      <3>. QED  BY <3>3, <3>4, <3>6
    <2>. HIDE DEF d, t
    <2>4. \A i \in 1..MaxLogEntries : d + i \in 1..Len(b)
      BY <1>0, <2>2
    <2>5. Increasing(t)
      BY <1>0, <2>2, <2>3, <2>4 DEF Increasing
    <2>6. \A i \in 1..Len(t) : last < t[i] /\ t[i] <= newest
      BY <2>3, <2>4
    <2>7. t # <<>> /\ Last(t) = Last(b)
      <3>1. Len(t) \in 1..MaxLogEntries /\ t[Len(t)] = b[d + Len(t)] /\ d + Len(t) = Len(b)
        BY <1>0, <2>2, <2>3
      <3>. QED  BY <3>1 DEF Last
    <2>. QED  BY <1>0, <2>1, <2>3, <2>5, <2>6, <2>7 DEF Stored
  <1>. QED  BY <1>0, <1>1, <1>2

-----------------------------------------------------------------------------
\* The empty log.
LEMMA LogInitInv == LogInit => LogInv
  <1>. SUFFICES ASSUME LogInit PROVE LogInv
    OBVIOUS
  <1>. USE DEF LogInit, Waiting, NoReader
  <1>1. LogTypes
    BY LogAssumption DEF LogTypes
  <1>2. Stored(rotated, handled) /\ Stored(current, handled) /\ Batched(log_worker.batch, logged)
    BY LogAssumption DEF Stored, Batched, Increasing
  <1>3. Joined(rotated, current)
    <2>1. 0 \in 0..Len(rotated) /\ Len(rotated) = 0 /\ Len(current) = 0
      OBVIOUS
    <2>. QED  BY <2>1 DEF Joined
  <1>4. Queued(log_pending, log_worker.batch, handled, logged) /\ WaitInv
    BY DEF Queued, WaitInv
  <1>5. WorkerInv /\ NothingDropped /\ NewestStored /\ FlushComplete
    BY DEF WorkerInv, NothingDropped, Taken, NewestStored, FlushComplete
  <1>. QED  BY <1>1, <1>2, <1>3, <1>4, <1>5 DEF LogInv

\* A cache write ends with the new content, or with the old or a part of the
\* new one and one failure less to come.
LEMMA WriteFacts ==
    ASSUME NEW old, NEW new \in Seq(Nat), NEW result, WriteCache(old, new, result),
           faults_left \in Nat, faults_left <= MaxLogFaults
    PROVE  /\ result \in {old} \cup Prefixes(new)
           /\ faults_left' \in Nat /\ faults_left' <= MaxLogFaults
           /\ faults_left' = MaxLogFaults => faults_left = MaxLogFaults /\ result = new
  <1>1. new \in Prefixes(new)
    <2>1. Len(new) \in 0..Len(new) /\ SubSeq(new, 1, Len(new)) = new
      OBVIOUS
    <2>. QED  BY <2>1 DEF Prefixes
  <1>. QED  BY <1>1, LogAssumption DEF WriteCache

\* A batch written, whole or not: the worker has handled its newest entry.
LEMMA BatchHandled ==
    ASSUME LogInv, log_worker.pc \in {"append", "restart"},
           handled' = Last(log_worker.batch), log_worker' = [log_worker EXCEPT !.pc = "signal"],
           Stored(rotated', handled'), Stored(current', handled'), Joined(rotated', current'),
           faults_left' \in Nat, faults_left' <= MaxLogFaults,
           faults_left' = MaxLogFaults => current' # <<>> /\ Last(current') = handled',
           UNCHANGED <<log_pending, logged, reader, reads_left>>
    PROVE  LogInv'
  <1>. DEFINE b == log_worker.batch
              h == Last(b)
  <1>1. /\ b \in Seq(Nat) /\ Increasing(b) /\ b # <<>>
        /\ \A i \in 1..Len(b) : handled < b[i] /\ 0 < b[i] /\ b[i] <= logged
        /\ handled \in Nat /\ logged \in Nat
    BY DEF LogInv, LogTypes, WorkerInv, Batched
  <1>2. /\ log_worker' \in [pc : {"wait", "drain", "append", "rotate", "restart", "signal"},
                            batch : Seq(Nat), flush : BOOLEAN]
        /\ log_worker'.pc = "signal" /\ log_worker'.batch = b /\ log_worker'.flush = log_worker.flush
    BY DEF LogInv, LogTypes
  <1>3. Len(b) \in 1..Len(b) /\ h = b[Len(b)]
    BY <1>1 DEF Last
  <1>4. h \in Nat /\ handled < h /\ h <= logged
    BY <1>1, <1>3
  <1>5. \A i \in 1..Len(b) : b[i] <= h
    <2>. SUFFICES ASSUME NEW i \in 1..Len(b) PROVE b[i] <= h
      OBVIOUS
    <2>1. CASE i = Len(b)
      BY <1>3, <1>4, <2>1
    <2>2. CASE i # Len(b)
      <3>1. i < Len(b)
        BY <1>1, <2>2
      <3>2. b[i] < b[Len(b)]
        BY <1>1, <1>3, <3>1 DEF Increasing
      <3>3. b[i] \in Nat
        BY <1>1
      <3>. QED  BY <1>3, <1>4, <3>2, <3>3
    <2>. QED  BY <2>1, <2>2
  <1>6. handled' = h
    OBVIOUS
  <1>. HIDE DEF b, h
  <1>7. LogTypes'
    BY <1>2, <1>4, <1>6 DEF LogInv, LogTypes
  <1>8. WorkerInv'
    BY <1>1, <1>2, <1>5, <1>6 DEF WorkerInv
  <1>9. Batched(log_worker'.batch, logged')
    BY <1>2 DEF LogInv, b
  <1>10. Queued(log_pending', log_worker'.batch, handled', logged')
    <2>1. Queued(log_pending, b, handled, logged) /\ log_pending \in Seq(Nat)
      BY DEF LogInv, LogTypes, b
    <2>2. ASSUME NEW i \in 1..Len(log_pending)
          PROVE  log_pending[i] = 0 \/ (h < log_pending[i] /\ log_pending[i] <= logged)
      BY <1>3, <2>1 DEF Queued
    <2>3. Queued(log_pending, b, h, logged)
      BY <2>1, <2>2 DEF Queued
    <2>. QED  BY <1>2, <1>6, <2>3
  <1>11. \A n \in Nat : Taken(n, b, handled) => Taken(n, b, h)
    BY <1>1, <1>4 DEF Taken
  <1>12. NothingDropped'
    BY <1>1, <1>2, <1>6, <1>11 DEF LogInv, NothingDropped, b
  <1>13. WaitInv'
    <2>1. reader.asked \in Nat
      BY DEF LogInv, LogTypes
    <2>2. WaitInv
      BY DEF LogInv
    <2>. QED  BY <1>2, <1>6, <1>11, <2>1, <2>2 DEF WaitInv, b
  <1>14. NewestStored'
    BY DEF NewestStored
  <1>15. FlushComplete'
    <2>1. reader.asked \in Nat /\ FlushComplete
      BY DEF LogInv, LogTypes
    <2>. QED  BY <1>1, <1>4, <1>6, <2>1 DEF FlushComplete
  <1>. QED  BY <1>7, <1>8, <1>9, <1>10, <1>12, <1>13, <1>14, <1>15 DEF LogInv

\* Batch b with an item of the queue added.
WithItem(b, x) == IF x = 0 THEN b ELSE Append(b, x)

\* An item leaves the queue: a flush request is remembered, an entry becomes
\* the newest of the batch.
LEMMA TakeItem ==
    ASSUME NEW q \in Seq(Nat), q # <<>>, NEW b \in Seq(Nat), NEW last \in Nat, NEW newest \in Nat,
           Batched(b, newest), Queued(q, b, last, newest)
    PROVE  LET nb == WithItem(b, Head(q))
           IN  /\ nb \in Seq(Nat) /\ Batched(nb, newest) /\ Queued(Tail(q), nb, last, newest)
               /\ (\A i \in 1..Len(b) : last < b[i]) => \A i \in 1..Len(nb) : last < nb[i]
               /\ \A n \in Nat : Taken(n, b, last) \/ n = Head(q) => Taken(n, nb, last)
  <1>. DEFINE p == Tail(q)
              x == Head(q)
              nb == WithItem(b, Head(q))
  <1>1. /\ p \in Seq(Nat) /\ Len(q) \in Nat /\ Len(q) >= 1 /\ Len(p) = Len(q) - 1 /\ x = q[1] /\ x \in Nat
        /\ \A i \in 1..Len(p) : p[i] = q[i + 1] /\ i + 1 \in 1..Len(q) /\ 1 < i + 1
        /\ 1 \in 1..Len(q)
    <2>1. Len(q) \in Nat /\ Len(q) >= 1
      BY EmptySeq
    <2>. QED  BY <2>1
  <1>0. nb = IF x = 0 THEN b ELSE Append(b, x)
    BY DEF WithItem
  <1>. HIDE DEF p, x, nb
  <1>2. ASSUME NEW i \in 1..Len(p) PROVE p[i] = 0 \/ (last < p[i] /\ p[i] <= newest)
    BY <1>1 DEF Queued
  <1>3. ASSUME NEW i \in 1..Len(p), NEW j \in 1..Len(p), i < j, p[i] # 0, p[j] # 0 PROVE p[i] < p[j]
    <2>1. i + 1 < j + 1
      BY <1>3
    <2>. QED  BY <1>1, <1>3, <2>1 DEF Queued
  <1>4. ASSUME NEW i \in 1..Len(b), NEW j \in 1..Len(p), p[j] # 0 PROVE b[i] < p[j]
    BY <1>1, <1>4 DEF Queued
  <1>5. CASE x = 0
    <2>1. nb = b
      BY <1>0, <1>5
    <2>2. Queued(p, b, last, newest)
      BY <1>2, <1>3, <1>4 DEF Queued
    <2>3. \A n \in Nat : Taken(n, b, last) \/ n = 0 => Taken(n, b, last)
      BY DEF Taken
    <2>. QED  BY <1>5, <2>1, <2>2, <2>3 DEF x, p, nb
  <1>6. CASE x # 0
    <2>1. nb = Append(b, x)
      BY <1>0, <1>6
    <2>2. /\ nb \in Seq(Nat) /\ Len(nb) = Len(b) + 1 /\ Len(b) \in Nat
          /\ \A i \in 1..Len(b) : nb[i] = b[i] /\ i \in 1..Len(nb)
          /\ nb[Len(b) + 1] = x /\ Len(b) + 1 \in 1..Len(nb)
      BY <1>1, <2>1
    <2>3. \A i \in 1..Len(nb) : i \in 1..Len(b) \/ i = Len(b) + 1
      BY <2>2
    <2>4. last < x /\ x <= newest /\ 0 < x /\ \A i \in 1..Len(b) : b[i] < x
      BY <1>1, <1>6 DEF Queued
    <2>5. Batched(nb, newest)
      <3>1. ASSUME NEW i \in 1..Len(nb), NEW j \in 1..Len(nb), i < j PROVE nb[i] < nb[j]
        <4>0. i \in 1..Len(b)
          BY <2>2, <3>1
        <4>1. CASE j \in 1..Len(b)
          BY <2>2, <3>1, <4>0, <4>1 DEF Batched, Increasing
        <4>2. CASE j = Len(b) + 1
          BY <2>2, <2>4, <4>0, <4>2
        <4>. QED  BY <2>3, <4>1, <4>2
      <3>2. \A i \in 1..Len(nb) : 0 < nb[i] /\ nb[i] <= newest
        BY <2>2, <2>3, <2>4 DEF Batched
      <3>. QED  BY <3>1, <3>2 DEF Batched, Increasing
    <2>6. ASSUME NEW i \in 1..Len(nb), NEW j \in 1..Len(p), p[j] # 0 PROVE nb[i] < p[j]
      <3>1. CASE i \in 1..Len(b)
        BY <1>4, <2>2, <2>6, <3>1
      <3>2. CASE i = Len(b) + 1
        <4>1. q[1] < q[j + 1]
          BY <1>1, <1>6, <2>6 DEF Queued
        <4>. QED  BY <1>1, <2>2, <3>2, <4>1
      <3>. QED  BY <2>3, <3>1, <3>2
    <2>7. Queued(p, nb, last, newest)
      BY <1>2, <1>3, <2>6 DEF Queued
    <2>8. (\A i \in 1..Len(b) : last < b[i]) => \A i \in 1..Len(nb) : last < nb[i]
      BY <2>2, <2>3, <2>4
    <2>9. ASSUME NEW n \in Nat, Taken(n, b, last) \/ n = x PROVE Taken(n, nb, last)
      BY <2>2, <2>9 DEF Taken
    <2>. QED  BY <2>2, <2>5, <2>7, <2>8, <2>9 DEF x, p, nb
  <1>. QED  BY <1>5, <1>6

\* Every step of a caller, the worker, a reader or the power keeps LogInv.
LEMMA LogStep == LogInv /\ [LogNext]_log_vars => LogInv'
  <1>. SUFFICES ASSUME LogInv, [LogNext]_log_vars PROVE LogInv'
    OBVIOUS
  <1>. DEFINE w == log_worker
              b == log_worker.batch
              q == log_pending
              Pcs == {"wait", "drain", "append", "rotate", "restart", "signal"}
  <1>0. /\ q \in Seq(Nat) /\ logged \in Nat /\ handled \in Nat /\ handled <= logged
        /\ log_worker \in [pc : Pcs, batch : Seq(Nat), flush : BOOLEAN] /\ b \in Seq(Nat)
        /\ reader \in [pc : {"none", "waiting", "read_rotated", "read_current", "view"},
                       asked : Nat, rotated : Seq(Nat), view : Seq(Nat)]
        /\ reader.asked <= logged /\ reader.asked \in Nat
        /\ faults_left \in Nat /\ faults_left <= MaxLogFaults /\ reads_left \in Nat
    BY DEF LogInv, LogTypes
  <1>F. /\ Stored(rotated, handled) /\ Stored(current, handled) /\ Joined(rotated, current)
        /\ rotated \in Seq(Nat) /\ current \in Seq(Nat) /\ Increasing(current)
        /\ \A i \in 1..Len(rotated) : rotated[i] <= handled
    BY DEF LogInv, Stored
  <1>Q. Batched(b, logged) /\ Queued(q, b, handled, logged)
    BY DEF LogInv
  <1>N. logged \in Nat /\ handled \in Nat
    BY <1>0
  <1>B. \A i \in 1..Len(b) : b[i] \in Nat
    BY <1>0, ElementOfSeq, Zenon
  <1>P. \A i \in 1..Len(q) : q[i] \in Nat
    BY <1>0, ElementOfSeq, Zenon
  <1>W. WorkerInv /\ NothingDropped /\ WaitInv /\ NewestStored /\ FlushComplete
    BY DEF LogInv
  <1>1. CASE Log
    <2>. DEFINE n == logged + 1
                p == Append(q, n)
    <2>1. /\ logged' = n /\ log_pending' = p
          /\ UNCHANGED <<log_worker, rotated, current, handled, reader, faults_left, reads_left>>
      BY <1>1 DEF Log
    <2>2. /\ p \in Seq(Nat) /\ Len(p) = Len(q) + 1 /\ Len(q) \in Nat
          /\ \A i \in 1..Len(q) : p[i] = q[i] /\ i \in 1..Len(p) /\ i < Len(q) + 1
          /\ p[Len(q) + 1] = n /\ n \in Nat /\ n > logged /\ n # 0
      BY <1>0
    <2>3. \A i \in 1..Len(p) : i \in 1..Len(q) \/ i = Len(q) + 1
      BY <2>2
    <2>. HIDE DEF p, n
    <2>4. LogTypes'
      BY <1>0, <2>1, <2>2 DEF LogTypes
    <2>5. Batched(b, n)
      <3>1. Increasing(b) /\ \A i \in 1..Len(b) : 0 < b[i] /\ b[i] <= logged
        BY <1>Q DEF Batched
      <3>2. n \in Nat /\ n > logged
        BY <2>2
      <3>3. \A i \in 1..Len(b) : b[i] <= n
        BY <1>B, <1>N, <3>1, <3>2
      <3>. QED  BY <3>1, <3>3 DEF Batched
    <2>6. Queued(p, b, handled, n)
      <3>1. ASSUME NEW i \in 1..Len(p) PROVE p[i] = 0 \/ (handled < p[i] /\ p[i] <= n)
        <4>1. CASE i \in 1..Len(q)
          <5>1. q[i] \in Nat /\ (q[i] = 0 \/ (handled < q[i] /\ q[i] <= logged)) /\ p[i] = q[i]
            <6>1. q[i] = 0 \/ (handled < q[i] /\ q[i] <= logged)
              BY <1>Q, <4>1 DEF Queued
            <6>2. p[i] = q[i]
              BY <2>2, <4>1
            <6>3. q[i] \in Nat
              BY <1>P, <4>1
            <6>. QED  BY <6>1, <6>2, <6>3
          <5>. QED  BY <1>0, <2>2, <5>1
        <4>2. CASE i = Len(q) + 1
          BY <1>0, <2>2, <4>2
        <4>. QED  BY <2>3, <4>1, <4>2
      <3>2. ASSUME NEW i \in 1..Len(p), NEW j \in 1..Len(p), i < j, p[i] # 0, p[j] # 0
            PROVE  p[i] < p[j]
        <4>0. i \in 1..Len(q)
          BY <2>2, <3>2
        <4>1. CASE j \in 1..Len(q)
          BY <1>Q, <2>2, <3>2, <4>0, <4>1 DEF Queued
        <4>2. CASE j = Len(q) + 1
          <5>1. q[i] \in Nat /\ q[i] <= logged /\ p[i] = q[i] /\ p[j] = n
            <6>1. p[i] = q[i] /\ p[j] = n
              BY <2>2, <4>0, <4>2
            <6>2. q[i] \in Nat
              BY <1>P, <4>0
            <6>3. q[i] = 0 \/ q[i] <= logged
              BY <1>Q, <4>0 DEF Queued
            <6>. QED  BY <3>2, <6>1, <6>2, <6>3
          <5>2. n \in Nat /\ n > logged
            BY <2>2
          <5>. QED  BY <1>N, <5>1, <5>2
        <4>. QED  BY <2>3, <4>1, <4>2
      <3>3. ASSUME NEW i \in 1..Len(b), NEW j \in 1..Len(p), p[j] # 0 PROVE b[i] < p[j]
        <4>1. CASE j \in 1..Len(q)
          BY <1>Q, <2>2, <3>3, <4>1 DEF Queued
        <4>2. CASE j = Len(q) + 1
          <5>1. b[i] \in Nat /\ b[i] <= logged /\ p[j] = n
            <6>1. b[i] <= logged
              BY <1>Q DEF Batched
            <6>2. p[j] = n
              BY <2>2, <4>2
            <6>. QED  BY <1>B, <6>1, <6>2
          <5>2. n \in Nat /\ n > logged
            BY <2>2
          <5>. QED  BY <1>N, <5>1, <5>2
        <4>. QED  BY <2>3, <4>1, <4>2
      <3>. QED  BY <3>1, <3>2, <3>3 DEF Queued
    <2>7. NothingDropped'
      <3>1. Len(q) + 1 \in 1..Len(p) /\ p[Len(q) + 1] = n
        BY <2>2
      <3>. QED  BY <2>1, <3>1 DEF NothingDropped
    <2>8. WaitInv'
      <3>1. reader.pc # "waiting" => ~w.flush /\ \A j \in 1..Len(p) : p[j] # 0
        BY <1>W, <2>2, <2>3 DEF WaitInv
      <3>2. \A i, j \in 1..Len(p) : p[i] = 0 /\ p[j] = 0 => i = j
        BY <1>W, <2>2, <2>3 DEF WaitInv
      <3>3. w.flush => Taken(reader.asked, b, handled) /\ \A j \in 1..Len(p) : p[j] # 0
        BY <1>W, <2>2, <2>3 DEF WaitInv
      <3>4. ASSUME NEW j \in 1..Len(p), p[j] = 0
            PROVE  \/ Taken(reader.asked, b, handled)
                   \/ \E i \in 1..Len(p) : i < j /\ p[i] = reader.asked
        <4>1. j \in 1..Len(q) /\ q[j] = 0
          BY <2>2, <2>3, <3>4
        <4>2. \/ Taken(reader.asked, b, handled)
              \/ \E i \in 1..Len(q) : i < j /\ q[i] = reader.asked
          BY <1>W, <4>1 DEF WaitInv
        <4>. QED  BY <2>2, <4>2
      <3>. QED  BY <2>1, <3>1, <3>2, <3>3, <3>4 DEF WaitInv
    <2>9. WorkerInv' /\ NewestStored' /\ FlushComplete'
      BY <1>W, <2>1 DEF WorkerInv, NewestStored, FlushComplete
    <2>10. Stored(rotated', handled') /\ Stored(current', handled') /\ Joined(rotated', current')
           /\ Batched(log_worker'.batch, logged') /\ Queued(log_pending', log_worker'.batch, handled', logged')
      BY <1>F, <2>1, <2>5, <2>6
    <2>. QED  BY <2>4, <2>7, <2>8, <2>9, <2>10 DEF LogInv
  <1>2. CASE WorkerTakes
    <2>. DEFINE x == Head(q)
                p == Tail(q)
                nb == log_worker'.batch
    <2>1. /\ w.pc \in {"wait", "drain"} /\ q # <<>>
          /\ log_worker' = [pc |-> "drain", batch |-> IF x = 0 THEN b ELSE Append(b, x),
                            flush |-> w.flush \/ x = 0]
          /\ log_pending' = p
          /\ UNCHANGED <<logged, rotated, current, handled, reader, faults_left, reads_left>>
      BY <1>2 DEF WorkerTakes, Consume
    <2>2. /\ p \in Seq(Nat) /\ Len(q) \in Nat /\ Len(q) >= 1 /\ Len(p) = Len(q) - 1 /\ x = q[1] /\ x \in Nat
          /\ \A i \in 1..Len(p) : p[i] = q[i + 1] /\ i + 1 \in 1..Len(q) /\ 1 < i + 1
          /\ 1 \in 1..Len(q)
      <3>1. Len(q) \in Nat /\ Len(q) >= 1
        BY <1>0, <2>1, EmptySeq
      <3>. QED  BY <1>0, <3>1
    <2>3. nb = (IF x = 0 THEN b ELSE Append(b, x)) /\ log_worker'.pc = "drain"
      BY <2>1
    <2>4. log_worker'.flush <=> w.flush \/ x = 0
      BY <2>1
    <2>5. /\ nb \in Seq(Nat) /\ Batched(nb, logged) /\ Queued(p, nb, handled, logged)
          /\ (\A i \in 1..Len(b) : handled < b[i]) => \A i \in 1..Len(nb) : handled < nb[i]
          /\ \A n \in Nat : Taken(n, b, handled) \/ n = x => Taken(n, nb, handled)
      <3>1. PICK m : m = nb
        OBVIOUS
      <3>2. m = WithItem(log_worker.batch, Head(log_pending))
        BY <2>3, <3>1 DEF WithItem
      <3>3. /\ m \in Seq(Nat) /\ Batched(m, logged) /\ Queued(Tail(log_pending), m, handled, logged)
            /\ (\A i \in 1..Len(log_worker.batch) : handled < log_worker.batch[i])
                 => \A i \in 1..Len(m) : handled < m[i]
            /\ \A n \in Nat : Taken(n, log_worker.batch, handled) \/ n = Head(log_pending)
                 => Taken(n, m, handled)
        <4>1. log_pending \in Seq(Nat) /\ log_pending # <<>> /\ log_worker.batch \in Seq(Nat)
              /\ handled \in Nat /\ logged \in Nat
          BY <1>0, <2>1
        <4>2. Batched(log_worker.batch, logged) /\ Queued(log_pending, log_worker.batch, handled, logged)
          BY <1>Q
        <4>. QED  BY ONLY <3>2, <4>1, <4>2, TakeItem
      <3>. QED  BY <3>1, <3>3
    <2>6. log_worker' \in [pc : Pcs, batch : Seq(Nat), flush : BOOLEAN]
      <3>1. (IF x = 0 THEN b ELSE Append(b, x)) \in Seq(Nat)
        BY <2>3, <2>5
      <3>2. w.flush \in BOOLEAN
        BY <1>0
      <3>. QED  BY <2>1, <3>1, <3>2
    <2>. HIDE DEF x, p, nb
    <2>7. LogTypes'
      BY <1>0, <2>1, <2>2, <2>6 DEF LogTypes
    <2>8. \A i \in 1..Len(b) : handled < b[i]
      BY <1>0, <1>W, <2>1 DEF WorkerInv
    <2>9. WorkerInv'
      <3>1. \A i \in 1..Len(nb) : handled < nb[i]
        BY <2>5, <2>8
      <3>. QED  BY <2>1, <2>3, <3>1 DEF WorkerInv, nb
    <2>10. ASSUME NEW n \in Nat, NEW i \in 1..Len(q), q[i] = n
           PROVE  Taken(n, nb, handled) \/ (i - 1 \in 1..Len(p) /\ p[i - 1] = n)
      <3>1. CASE i = 1
        BY <2>2, <2>5, <2>10, <3>1
      <3>2. CASE i # 1
        <4>1. i - 1 \in 1..Len(p) /\ (i - 1) + 1 = i
          BY <2>2, <3>2
        <4>. QED  BY <2>2, <2>10, <4>1
      <3>. QED  BY <3>1, <3>2
    <2>11. NothingDropped'
      <3>1. Taken(logged, nb, handled) \/ \E i \in 1..Len(p) : p[i] = logged
        BY <1>0, <1>W, <2>5, <2>10 DEF NothingDropped
      <3>. QED  BY <2>1, <3>1 DEF NothingDropped, nb
    <2>12. WaitInv'
      <3>1. CASE x = 0
        <4>1. reader.pc = "waiting" /\ (w.flush => FALSE)
          BY <1>W, <2>2, <3>1 DEF WaitInv
        <4>2. ASSUME NEW j \in 1..Len(p) PROVE p[j] # 0
          <5>1. p[j] = q[j + 1] /\ j + 1 \in 1..Len(q) /\ j + 1 # 1
            BY <2>2
          <5>2. q[1] = 0 /\ 1 \in 1..Len(q)
            BY <2>2, <3>1
          <5>. QED  BY <1>W, <5>1, <5>2 DEF WaitInv
        <4>3. Taken(reader.asked, b, handled)
          <5>1. q[1] = 0 /\ 1 \in 1..Len(q)
            BY <2>2, <3>1
          <5>2. \/ Taken(reader.asked, b, handled)
                \/ \E i \in 1..Len(q) : i < 1 /\ q[i] = reader.asked
            BY <1>W, <5>1 DEF WaitInv
          <5>. QED  BY <2>2, <5>2
        <4>4. Taken(reader.asked, nb, handled)
          BY <1>0, <2>5, <4>3
        <4>. QED  BY <2>1, <4>1, <4>2, <4>4 DEF WaitInv, nb
      <3>2. CASE x # 0
        <4>1. log_worker'.flush <=> w.flush
          BY <2>4, <3>2
        <4>2. reader.pc # "waiting" => ~w.flush /\ \A j \in 1..Len(p) : p[j] # 0
          BY <1>W, <2>2 DEF WaitInv
        <4>3. ASSUME NEW i \in 1..Len(p), NEW j \in 1..Len(p), p[i] = 0, p[j] = 0 PROVE i = j
          <5>1. q[i + 1] = 0 /\ i + 1 \in 1..Len(q) /\ q[j + 1] = 0 /\ j + 1 \in 1..Len(q)
            BY <2>2, <4>3
          <5>2. i + 1 = j + 1
            BY <1>W, <5>1 DEF WaitInv
          <5>. QED  BY <5>2
        <4>4. ASSUME w.flush PROVE Taken(reader.asked, nb, handled) /\ \A j \in 1..Len(p) : p[j] # 0
          <5>1. Taken(reader.asked, b, handled) /\ \A j \in 1..Len(q) : q[j] # 0
            BY <1>W, <4>4 DEF WaitInv
          <5>2. Taken(reader.asked, nb, handled)
            BY <1>0, <2>5, <5>1
          <5>. QED  BY <2>2, <5>1, <5>2
        <4>5. ASSUME NEW j \in 1..Len(p), p[j] = 0
              PROVE  \/ Taken(reader.asked, nb, handled)
                     \/ \E i \in 1..Len(p) : i < j /\ p[i] = reader.asked
          <5>1. j + 1 \in 1..Len(q) /\ q[j + 1] = 0
            BY <2>2, <4>5
          <5>2. CASE Taken(reader.asked, b, handled)
            BY <1>0, <2>5, <5>2
          <5>3. CASE \E i \in 1..Len(q) : i < j + 1 /\ q[i] = reader.asked
            <6>1. PICK i \in 1..Len(q) : i < j + 1 /\ q[i] = reader.asked
              BY <5>3
            <6>2. Taken(reader.asked, nb, handled) \/ (i - 1 \in 1..Len(p) /\ p[i - 1] = reader.asked)
              BY <1>0, <2>10, <6>1
            <6>3. i - 1 < j
              BY <6>1
            <6>. QED  BY <6>2, <6>3
          <5>. QED  BY <1>W, <5>1, <5>2, <5>3 DEF WaitInv
        <4>. QED  BY <2>1, <4>1, <4>2, <4>3, <4>4, <4>5 DEF WaitInv, nb
      <3>. QED  BY <3>1, <3>2
    <2>13. NewestStored' /\ FlushComplete'
      BY <1>W, <2>1 DEF NewestStored, FlushComplete
    <2>14. Stored(rotated', handled') /\ Stored(current', handled') /\ Joined(rotated', current')
           /\ Batched(log_worker'.batch, logged') /\ Queued(log_pending', log_worker'.batch, handled', logged')
      BY <1>F, <2>1, <2>5 DEF nb
    <2>. QED  BY <2>7, <2>9, <2>11, <2>12, <2>13, <2>14 DEF LogInv
  <1>3. CASE WorkerDrained
    <2>1. /\ w.pc = "drain"
          /\ log_worker' = [log_worker EXCEPT !.pc =
                IF b = <<>> THEN "signal" ELSE IF Len(current) + Len(b) > MaxLogEntries THEN "rotate"
                ELSE "append"]
          /\ UNCHANGED <<log_pending, logged, rotated, current, handled, reader, faults_left, reads_left>>
      BY <1>3 DEF WorkerDrained
    <2>2. /\ log_worker' \in [pc : Pcs, batch : Seq(Nat), flush : BOOLEAN]
          /\ log_worker'.batch = b /\ log_worker'.flush = w.flush
          /\ log_worker'.pc = IF b = <<>> THEN "signal"
                              ELSE IF Len(current) + Len(b) > MaxLogEntries THEN "rotate" ELSE "append"
      BY <1>0, <2>1
    <2>3. LogTypes'
      BY <1>0, <2>1, <2>2 DEF LogTypes
    <2>4. WorkerInv'
      <3>1. \A i \in 1..Len(b) : handled < b[i]
        BY <1>W, <2>1 DEF WorkerInv
      <3>2. Len(current) + Len(b) \in Nat /\ MaxLogEntries \in Nat
        BY <1>0, <1>F, LogAssumption
      <3>3. CASE b = <<>>
        BY <2>1, <2>2, <3>3 DEF WorkerInv
      <3>4. CASE b # <<>>
        BY <2>1, <2>2, <3>1, <3>2, <3>4 DEF WorkerInv
      <3>. QED  BY <3>3, <3>4
    <2>5. NothingDropped' /\ WaitInv' /\ NewestStored' /\ FlushComplete'
      BY <1>W, <2>1, <2>2 DEF NothingDropped, WaitInv, NewestStored, FlushComplete
    <2>. QED  BY <1>F, <1>Q, <2>1, <2>2, <2>3, <2>4, <2>5 DEF LogInv
  <1>4. CASE Append1
    <2>1. PICK blob : /\ WriteCache(current, current \o b, blob) /\ current' = blob
                      /\ blob \in {current} \cup Prefixes(current \o b)
      BY <1>4 DEF Append1
    <2>2. /\ w.pc = "append" /\ handled' = Last(b) /\ log_worker' = [log_worker EXCEPT !.pc = "signal"]
          /\ UNCHANGED <<log_pending, logged, rotated, reader, reads_left>>
      BY <1>4 DEF Append1
    <2>3. /\ b # <<>> /\ Len(current) + Len(b) <= MaxLogEntries
          /\ \A i \in 1..Len(b) : handled < b[i]
      BY <1>W, <2>2 DEF WorkerInv
    <2>4. Len(b) \in 1..Len(b) /\ Last(b) = b[Len(b)] /\ Last(b) \in Nat /\ handled < Last(b)
      BY <1>0, <2>3 DEF Last
    <2>5. \A i \in 1..Len(b) : b[i] <= Last(b)
      <3>. SUFFICES ASSUME NEW i \in 1..Len(b) PROVE b[i] <= b[Len(b)]
        BY <2>4
      <3>1. b[i] \in Nat /\ (i = Len(b) \/ i < Len(b))
        BY <1>0
      <3>2. i < Len(b) => b[i] < b[Len(b)]
        BY <1>Q, <2>4 DEF Batched, Increasing
      <3>. QED  BY <2>4, <3>1, <3>2
    <2>6. Stored(current \o b, Last(b))
      <3>1. /\ Increasing(b) /\ \A j \in 1..Len(b) : handled < b[j] /\ b[j] <= Last(b)
            /\ handled <= Last(b) /\ Last(b) \in Nat
        BY <1>0, <1>Q, <2>3, <2>4, <2>5 DEF Batched
      <3>2. handled \in Nat /\ b \in Seq(Nat) /\ Stored(current, handled)
            /\ Len(current) + Len(b) <= MaxLogEntries
        BY <1>0, <1>F, <2>3
      <3>. HIDE DEF b
      <3>. QED  BY ONLY <3>1, <3>2, AppendStored
    <2>7. current \o b \in Seq(Nat)
      BY <1>0, <1>F
    <2>8. Stored(rotated, Last(b)) /\ Stored(current, Last(b))
      BY <1>0, <1>F, <2>4, StoredLater
    <2>9. Stored(blob, Last(b)) /\ Joined(rotated, blob)
      <3>1. CASE blob = current
        BY <1>F, <2>8, <3>1
      <3>2. CASE blob \in Prefixes(current \o b)
        <4>1. Stored(blob, Last(b))
          BY <2>4, <2>6, <3>2, PrefixStored
        <4>2. Joined(rotated, blob)
          BY <1>0, <1>F, <2>3, <3>2, JoinAppended
        <4>. QED  BY <4>1, <4>2
      <3>. QED  BY <2>1, <3>1, <3>2
    <2>10. /\ faults_left' \in Nat /\ faults_left' <= MaxLogFaults
           /\ faults_left' = MaxLogFaults => blob = current \o b
      BY <1>0, <2>1, <2>7, WriteFacts
    <2>11. current \o b # <<>> /\ Last(current \o b) = Last(b)
      BY <1>0, <1>F, <2>4 DEF Last
    <2>. QED  BY <2>1, <2>2, <2>8, <2>9, <2>10, <2>11, BatchHandled
  <1>5. CASE RotateBackup
    <2>1. PICK blob : WriteCache(rotated, current, blob) /\ rotated' = blob
                      /\ blob \in {rotated} \cup Prefixes(current)
      BY <1>5 DEF RotateBackup
    <2>2. /\ w.pc = "rotate" /\ log_worker' = [log_worker EXCEPT !.pc = "restart"]
          /\ UNCHANGED <<log_pending, logged, current, handled, reader, reads_left>>
      BY <1>5 DEF RotateBackup
    <2>3. /\ log_worker' \in [pc : Pcs, batch : Seq(Nat), flush : BOOLEAN]
          /\ log_worker'.batch = b /\ log_worker'.flush = w.flush /\ log_worker'.pc = "restart"
      BY <1>0, <2>2
    <2>4. Stored(blob, handled) /\ Joined(blob, current)
      <3>1. CASE blob = rotated
        BY <1>F, <3>1
      <3>2. CASE blob \in Prefixes(current)
        BY <1>0, <1>F, <3>2, PrefixStored, JoinBackup
      <3>. QED  BY <2>1, <3>1, <3>2
    <2>5. /\ faults_left' \in Nat /\ faults_left' <= MaxLogFaults
          /\ faults_left' = MaxLogFaults => faults_left = MaxLogFaults
      BY <1>0, <1>F, <2>1, WriteFacts
    <2>6. LogTypes'
      BY <1>0, <2>2, <2>3, <2>5 DEF LogTypes
    <2>7. WorkerInv'
      BY <1>W, <2>2, <2>3 DEF WorkerInv
    <2>8. NothingDropped' /\ WaitInv' /\ FlushComplete'
      BY <1>W, <2>2, <2>3 DEF NothingDropped, WaitInv, FlushComplete
    <2>9. NewestStored'
      BY <1>W, <2>2, <2>5 DEF NewestStored
    <2>. QED  BY <1>F, <1>Q, <2>1, <2>2, <2>3, <2>4, <2>6, <2>7, <2>8, <2>9 DEF LogInv
  <1>6. CASE RotateRestart
    <2>. DEFINE t == TrimToTail(b)
    <2>1. PICK blob : WriteCache(current, t, blob) /\ current' = blob
                      /\ blob \in {current} \cup Prefixes(t)
      BY <1>6 DEF RotateRestart
    <2>2. /\ w.pc = "restart" /\ handled' = Last(b) /\ log_worker' = [log_worker EXCEPT !.pc = "signal"]
          /\ UNCHANGED <<log_pending, logged, rotated, reader, reads_left>>
      BY <1>6 DEF RotateRestart
    <2>3. b # <<>> /\ \A i \in 1..Len(b) : handled < b[i]
      BY <1>W, <2>2 DEF WorkerInv
    <2>4. Len(b) \in 1..Len(b) /\ Last(b) = b[Len(b)] /\ Last(b) \in Nat /\ handled < Last(b)
      BY <1>0, <2>3 DEF Last
    <2>5. \A i \in 1..Len(b) : b[i] <= Last(b)
      <3>. SUFFICES ASSUME NEW i \in 1..Len(b) PROVE b[i] <= b[Len(b)]
        BY <2>4
      <3>1. b[i] \in Nat /\ (i = Len(b) \/ i < Len(b))
        BY <1>0
      <3>2. i < Len(b) => b[i] < b[Len(b)]
        BY <1>Q, <2>4 DEF Batched, Increasing
      <3>. QED  BY <2>4, <3>1, <3>2
    <2>6. /\ Stored(t, Last(b)) /\ t # <<>> /\ Last(t) = Last(b)
          /\ \A j \in 1..Len(t) : handled < t[j]
      BY <1>0, <1>Q, <2>3, <2>4, <2>5, TrimStored DEF Batched
    <2>7. t \in Seq(Nat)
      BY <2>6 DEF Stored
    <2>. HIDE DEF t
    <2>8. Stored(rotated, Last(b)) /\ Stored(current, Last(b))
      BY <1>0, <1>F, <2>4, StoredLater
    <2>9. Stored(blob, Last(b)) /\ Joined(rotated, blob)
      <3>1. CASE blob = current
        BY <1>F, <2>8, <3>1
      <3>2. CASE blob \in Prefixes(t)
        <4>1. Stored(blob, Last(b))
          BY <2>4, <2>6, <3>2, PrefixStored
        <4>2. blob \in Seq(Nat) /\ \A j \in 1..Len(blob) : handled < blob[j]
          <5>1. blob \in Seq(Nat) /\ Len(blob) <= Len(t) /\ \A i \in 1..Len(blob) : blob[i] = t[i]
            BY <2>7, <3>2, PrefixFacts
          <5>2. 1..Len(blob) \subseteq 1..Len(t)
            BY <2>7, <5>1
          <5>. QED  BY <2>6, <5>1, <5>2
        <4>3. Joined(rotated, blob)
          BY <1>0, <1>F, <4>2, JoinNewer
        <4>. QED  BY <4>1, <4>3
      <3>. QED  BY <2>1, <3>1, <3>2
    <2>10. /\ faults_left' \in Nat /\ faults_left' <= MaxLogFaults
           /\ faults_left' = MaxLogFaults => blob = t
      BY <1>0, <2>1, <2>7, WriteFacts
    <2>. QED  BY <2>1, <2>2, <2>6, <2>8, <2>9, <2>10, BatchHandled
  <1>7. CASE WorkerSignals
    <2>1. /\ w.pc = "signal" /\ log_worker' = Waiting
          /\ reader' = IF w.flush /\ reader.pc = "waiting"
                       THEN [reader EXCEPT !.pc = "read_rotated"] ELSE reader
          /\ UNCHANGED <<log_pending, logged, rotated, current, handled, faults_left, reads_left>>
      BY <1>7 DEF WorkerSignals
    <2>2. /\ log_worker' \in [pc : Pcs, batch : Seq(Nat), flush : BOOLEAN]
          /\ log_worker'.batch = <<>> /\ log_worker'.flush = FALSE /\ log_worker'.pc = "wait"
      BY <2>1 DEF Waiting
    <2>3. \A n \in Nat : Taken(n, b, handled) => n <= handled
      BY <1>0, <1>W, <2>1 DEF Taken, WorkerInv
    <2>4. \A n \in Nat : n <= handled => Taken(n, <<>>, handled)
      BY DEF Taken
    <2>5. Batched(<<>>, logged) /\ Queued(q, <<>>, handled, logged)
      BY <1>Q DEF Batched, Queued, Increasing
    <2>6. NothingDropped'
      BY <1>0, <1>W, <2>1, <2>2, <2>3, <2>4 DEF NothingDropped
    <2>7. WorkerInv' /\ NewestStored'
      BY <1>W, <2>1, <2>2 DEF WorkerInv, NewestStored
    <2>8. reader' \in [pc : {"none", "waiting", "read_rotated", "read_current", "view"},
                       asked : Nat, rotated : Seq(Nat), view : Seq(Nat)]
          /\ reader'.asked = reader.asked
          /\ reader'.pc = IF w.flush /\ reader.pc = "waiting" THEN "read_rotated" ELSE reader.pc
      BY <1>0, <2>1
    <2>9. LogTypes'
      BY <1>0, <2>1, <2>2, <2>8 DEF LogTypes
    <2>10. CASE w.flush
      <3>1. /\ reader.pc = "waiting" /\ reader.asked <= handled
            /\ \A j \in 1..Len(q) : q[j] # 0
        BY <1>0, <1>W, <2>3, <2>10 DEF WaitInv
      <3>2. reader'.pc = "read_rotated"
        BY <2>8, <2>10, <3>1
      <3>3. WaitInv'
        BY <2>1, <2>2, <3>1, <3>2 DEF WaitInv
      <3>4. FlushComplete'
        BY <2>1, <2>8, <3>1 DEF FlushComplete
      <3>. QED  BY <1>F, <2>1, <2>2, <2>5, <2>6, <2>7, <2>9, <3>3, <3>4 DEF LogInv
    <2>11. CASE ~w.flush
      <3>1. reader' = reader
        BY <2>1, <2>11
      <3>2. ASSUME NEW j \in 1..Len(q), q[j] = 0
            PROVE  \/ Taken(reader.asked, <<>>, handled)
                   \/ \E i \in 1..Len(q) : i < j /\ q[i] = reader.asked
        BY <1>0, <1>W, <2>3, <2>4, <3>2 DEF WaitInv
      <3>3. WaitInv'
        BY <1>W, <2>1, <2>2, <3>1, <3>2 DEF WaitInv
      <3>4. FlushComplete'
        BY <1>W, <2>1, <3>1 DEF FlushComplete
      <3>. QED  BY <1>F, <2>1, <2>2, <2>5, <2>6, <2>7, <2>9, <3>3, <3>4 DEF LogInv
    <2>. QED  BY <2>10, <2>11
  <1>8. CASE ReadAllAsks
    <2>. DEFINE p == Append(q, 0)
    <2>1. /\ reader.pc \in {"none", "view"} /\ reads_left > 0 /\ reads_left' = reads_left - 1
          /\ reader' = [NoReader EXCEPT !.pc = "waiting", !.asked = logged] /\ log_pending' = p
          /\ UNCHANGED <<logged, log_worker, rotated, current, handled, faults_left>>
      BY <1>8 DEF ReadAllAsks
    <2>2. /\ p \in Seq(Nat) /\ Len(p) = Len(q) + 1 /\ Len(q) \in Nat
          /\ \A i \in 1..Len(q) : p[i] = q[i] /\ i \in 1..Len(p) /\ i < Len(q) + 1
          /\ p[Len(q) + 1] = 0
      BY <1>0
    <2>3. \A i \in 1..Len(p) : i \in 1..Len(q) \/ i = Len(q) + 1
      BY <2>2
    <2>. HIDE DEF p
    <2>4. /\ reader' \in [pc : {"none", "waiting", "read_rotated", "read_current", "view"},
                          asked : Nat, rotated : Seq(Nat), view : Seq(Nat)]
          /\ reader'.pc = "waiting" /\ reader'.asked = logged
      <3>1. reader' = [pc |-> "waiting", asked |-> logged, rotated |-> <<>>, view |-> <<>>]
        BY <2>1 DEF NoReader
      <3>2. <<>> \in Seq(Nat)
        OBVIOUS
      <3>. QED  BY <1>0, <3>1, <3>2
    <2>5. LogTypes'
      <3>1. reads_left' \in Nat
        BY <1>0, <2>1
      <3>. QED  BY <1>0, <2>1, <2>2, <2>4, <3>1 DEF LogTypes
    <2>6. Queued(p, b, handled, logged)
      <3>1. \A i \in 1..Len(p) : p[i] # 0 => i \in 1..Len(q)
        BY <2>2, <2>3
      <3>. QED  BY <1>Q, <2>2, <3>1 DEF Queued
    <2>7. ~w.flush /\ \A j \in 1..Len(q) : q[j] # 0
      BY <1>W, <2>1 DEF WaitInv
    <2>8. WaitInv'
      <3>1. \A j \in 1..Len(p) : p[j] = 0 => j = Len(q) + 1
        BY <2>2, <2>3, <2>7
      <3>2. \/ Taken(logged, b, handled)
            \/ \E i \in 1..Len(p) : i < Len(q) + 1 /\ p[i] = logged
        BY <1>W, <2>2 DEF NothingDropped
      <3>. QED  BY <2>1, <2>4, <2>7, <3>1, <3>2 DEF WaitInv
    <2>9. NothingDropped'
      BY <1>W, <2>1, <2>2 DEF NothingDropped
    <2>10. WorkerInv' /\ NewestStored' /\ FlushComplete'
      BY <1>W, <2>1, <2>4 DEF WorkerInv, NewestStored, FlushComplete
    <2>. QED  BY <1>F, <1>Q, <2>1, <2>5, <2>6, <2>8, <2>9, <2>10 DEF LogInv
  <1>9. CASE ReadRotated \/ ReadCurrent
    <2>1. /\ reader.pc \in {"read_rotated", "read_current"}
          /\ UNCHANGED <<log_pending, logged, log_worker, rotated, current, handled, faults_left, reads_left>>
      BY <1>9 DEF ReadRotated, ReadCurrent
    <2>2. /\ reader' \in [pc : {"none", "waiting", "read_rotated", "read_current", "view"},
                          asked : Nat, rotated : Seq(Nat), view : Seq(Nat)]
          /\ reader'.pc \in {"read_current", "view"} /\ reader'.asked = reader.asked
      <3>1. reader.rotated \o current \in Seq(Nat)
        BY <1>0, <1>F
      <3>2. CASE ReadRotated
        BY <1>0, <1>F, <3>2 DEF ReadRotated
      <3>3. CASE ReadCurrent
        BY <1>0, <3>1, <3>3 DEF ReadCurrent
      <3>. QED  BY <1>9, <3>2, <3>3
    <2>3. LogTypes'
      BY <1>0, <2>1, <2>2 DEF LogTypes
    <2>4. WaitInv' /\ FlushComplete'
      BY <1>W, <2>1, <2>2 DEF WaitInv, FlushComplete
    <2>5. WorkerInv' /\ NothingDropped' /\ NewestStored'
      BY <1>W, <2>1 DEF WorkerInv, NothingDropped, NewestStored
    <2>. QED  BY <1>F, <1>Q, <2>1, <2>3, <2>4, <2>5 DEF LogInv
  <1>10. CASE LogPowerLoss
    <2>1. /\ faults_left > 0 /\ faults_left' = faults_left - 1
          /\ log_pending' = <<>> /\ log_worker' = Waiting
          /\ handled' = logged /\ reader' = NoReader
          /\ UNCHANGED <<logged, reads_left>>
      BY <1>10 DEF LogPowerLoss
    <2>2. Stored(rotated, logged) /\ Stored(current, logged)
      BY <1>0, <1>F, StoredLater
    <2>3. \A i \in 1..Len(b) : b[i] <= logged
      BY <1>Q DEF Batched
    <2>4. Stored(rotated', logged) /\ Stored(current', logged) /\ Joined(rotated', current')
      <3>1. CASE w.pc = "append" /\ rotated' = rotated /\ current' \in Prefixes(current \o b)
        <4>1. \A i \in 1..Len(b) : handled < b[i]
          BY <1>W, <3>1 DEF WorkerInv
        <4>2. Len(current) + Len(b) <= MaxLogEntries
          BY <1>W, <3>1 DEF WorkerInv
        <4>3. Stored(current \o b, logged)
          BY <1>0, <1>F, <1>Q, <2>3, <4>1, <4>2, AppendStored DEF Batched
        <4>4. Stored(current', logged)
          BY <1>0, <3>1, <4>3, PrefixStored
        <4>5. Joined(rotated, current')
          BY <1>0, <1>F, <3>1, <4>1, JoinAppended
        <4>. QED  BY <2>2, <3>1, <4>4, <4>5
      <3>2. CASE current' = current /\ rotated' \in Prefixes(current)
        BY <1>0, <1>F, <2>2, <3>2, PrefixStored, JoinBackup
      <3>3. CASE w.pc = "restart" /\ rotated' = rotated /\ current' \in Prefixes(TrimToTail(b))
        <4>1. b # <<>> /\ \A i \in 1..Len(b) : handled < b[i]
          BY <1>W, <3>3 DEF WorkerInv
        <4>2. Stored(TrimToTail(b), logged) /\ \A j \in 1..Len(TrimToTail(b)) : handled < TrimToTail(b)[j]
          BY <1>0, <1>Q, <2>3, <4>1, TrimStored DEF Batched
        <4>. PICK t : t = TrimToTail(b)
          OBVIOUS
        <4>3. t \in Seq(Nat) /\ Stored(t, logged) /\ current' \in Prefixes(t) /\ \A j \in 1..Len(t) : handled < t[j]
          BY <3>3, <4>2 DEF Stored
        <4>4. Stored(current', logged)
          BY <1>0, <4>3, PrefixStored
        <4>5. current' \in Seq(Nat) /\ \A j \in 1..Len(current') : handled < current'[j]
          <5>1. current' \in Seq(Nat) /\ Len(current') <= Len(t) /\ \A i \in 1..Len(current') : current'[i] = t[i]
            BY <4>3, PrefixFacts
          <5>2. 1..Len(current') \subseteq 1..Len(t)
            BY <4>3, <5>1
          <5>. QED  BY <4>3, <5>1, <5>2
        <4>6. Joined(rotated, current')
          BY <1>0, <1>F, <4>5, JoinNewer
        <4>. QED  BY <2>2, <3>3, <4>4, <4>6
      <3>4. CASE rotated' = rotated /\ current' = current
        BY <1>F, <2>2, <3>4
      <3>. QED  BY <1>10, <3>1, <3>2, <3>3, <3>4 DEF LogPowerLoss
    <2>5. /\ log_worker' \in [pc : Pcs, batch : Seq(Nat), flush : BOOLEAN]
          /\ log_worker'.batch = <<>> /\ log_worker'.flush = FALSE /\ log_worker'.pc = "wait"
          /\ reader' \in [pc : {"none", "waiting", "read_rotated", "read_current", "view"},
                          asked : Nat, rotated : Seq(Nat), view : Seq(Nat)]
          /\ reader'.pc = "none" /\ reader'.asked = 0
      BY <2>1 DEF Waiting, NoReader
    <2>6. LogTypes'
      <3>1. faults_left' \in Nat /\ faults_left' <= MaxLogFaults
        BY <1>0, <2>1, LogAssumption
      <3>2. log_pending' \in Seq(Nat) /\ handled' \in Nat /\ logged' \in Nat /\ handled' <= logged'
            /\ reads_left' \in Nat /\ reader'.asked <= logged'
        BY <1>0, <2>1, <2>5
      <3>. QED  BY <2>5, <3>1, <3>2 DEF LogTypes
    <2>7. Batched(<<>>, logged) /\ Queued(<<>>, <<>>, logged, logged)
      BY DEF Batched, Queued, Increasing
    <2>8. WorkerInv' /\ NothingDropped' /\ WaitInv' /\ FlushComplete'
      BY <1>0, <2>1, <2>5 DEF WorkerInv, NothingDropped, Taken, WaitInv, FlushComplete
    <2>9. NewestStored'
      BY <1>0, <2>1, LogAssumption DEF NewestStored
    <2>. QED  BY <2>1, <2>4, <2>5, <2>6, <2>7, <2>8, <2>9 DEF LogInv
  <1>11. CASE UNCHANGED log_vars
    <2>1. UNCHANGED <<log_pending, logged, log_worker, rotated, current, handled, reader, faults_left, reads_left>>
      BY <1>11 DEF log_vars
    <2>2. LogTypes'
      BY <1>0, <2>1 DEF LogTypes
    <2>3. WorkerInv' /\ NothingDropped' /\ WaitInv' /\ NewestStored' /\ FlushComplete'
      BY <1>W, <2>1 DEF WorkerInv, NothingDropped, WaitInv, NewestStored, FlushComplete
    <2>. QED  BY <1>F, <1>Q, <2>1, <2>2, <2>3 DEF LogInv
  <1>. QED
    BY <1>1, <1>2, <1>3, <1>4, <1>5, <1>6, <1>7, <1>8, <1>9, <1>10, <1>11 DEF LogNext, WorkerStep

\* The two files joined are what LogInOrder says of them.
LEMMA JoinedInOrder ==
    ASSUME NEW r \in Seq(Nat), NEW c \in Seq(Nat), Increasing(r), Increasing(c), Joined(r, c)
    PROVE  \E k \in 0..Len(r) :
             /\ IsPrefix(SubSeq(r, 1, k), c)
             /\ Increasing(r \o SubSeq(c, k + 1, Len(c)))
  <1>1. PICK k \in 0..Len(r) :
            /\ k <= Len(c) /\ \A i \in 1..k : r[i] = c[i]
            /\ \A i \in 1..Len(r), j \in (k + 1)..Len(c) : r[i] < c[j]
    BY DEF Joined
  <1>. DEFINE a == SubSeq(r, 1, k)
              z == SubSeq(c, k + 1, Len(c))
              s == r \o z
  <1>0. Len(r) \in Nat /\ Len(c) \in Nat /\ k \in Nat
    OBVIOUS
  <1>2. a \in Seq(Nat) /\ Len(a) = k /\ \A i \in 1..k : a[i] = r[i]
    BY <1>0
  <1>3. IsPrefix(a, c)
    <2>1. SubSeq(a, 1, k) = SubSeq(c, 1, k)
      BY <1>0, <1>1, <1>2
    <2>. QED  BY <1>1, <1>2, <2>1 DEF IsPrefix
  <1>4. z \in Seq(Nat) /\ Len(z) = Len(c) - k /\ \A i \in 1..Len(z) : z[i] = c[k + i] /\ k + i \in (k + 1)..Len(c)
    BY <1>0, <1>1
  <1>. HIDE DEF a, z
  <1>5. /\ s \in Seq(Nat) /\ Len(s) = Len(r) + Len(z) /\ Len(z) \in Nat
        /\ \A i \in 1..Len(r) : s[i] = r[i]
        /\ \A i \in (Len(r) + 1)..(Len(r) + Len(z)) : s[i] = z[i - Len(r)] /\ i - Len(r) \in 1..Len(z)
    <2>1. z \in Seq(Nat)
      BY <1>4
    <2>2. s \in Seq(Nat) /\ Len(s) = Len(r) + Len(z) /\ Len(z) \in Nat
      BY <2>1
    <2>3. \A i \in 1..Len(r) : s[i] = r[i]
      BY <2>1
    <2>4. ASSUME NEW i \in (Len(r) + 1)..(Len(r) + Len(z))
          PROVE  s[i] = z[i - Len(r)] /\ i - Len(r) \in 1..Len(z)
      BY <2>1
    <2>. QED  BY <2>2, <2>3, <2>4
  <1>. HIDE DEF s
  <1>6. ASSUME NEW i \in 1..Len(s), NEW j \in 1..Len(s), i < j PROVE s[i] < s[j]
    <2>1. CASE j <= Len(r)
      <3>1. i \in 1..Len(r) /\ j \in 1..Len(r)
        BY <1>0, <1>6, <2>1
      <3>2. r[i] < r[j]
        BY <1>6, <3>1 DEF Increasing
      <3>. QED  BY <1>5, <3>1, <3>2
    <2>2. CASE i <= Len(r) /\ j > Len(r)
      <3>1. i \in 1..Len(r) /\ j \in (Len(r) + 1)..(Len(r) + Len(z))
        BY <1>0, <1>5, <2>2
      <3>2. PICK n \in 1..Len(z) : n = j - Len(r) /\ s[j] = z[n]
        BY <1>5, <3>1, Zenon
      <3>3. z[n] = c[k + n] /\ k + n \in (k + 1)..Len(c)
        BY <1>4
      <3>4. r[i] < c[k + n]
        BY <1>1, <3>1, <3>3
      <3>. QED  BY <1>5, <3>1, <3>2, <3>3, <3>4
    <2>3. CASE i > Len(r)
      <3>1. i \in (Len(r) + 1)..(Len(r) + Len(z)) /\ j \in (Len(r) + 1)..(Len(r) + Len(z))
        BY <1>0, <1>5, <1>6, <2>3
      <3>2. PICK n \in 1..Len(z) : n = j - Len(r) /\ s[j] = z[n]
        BY <1>5, <3>1, Zenon
      <3>3. PICK m \in 1..Len(z) : m = i - Len(r) /\ s[i] = z[m]
        BY <1>5, <3>1, Zenon
      <3>4. z[n] = c[k + n] /\ z[m] = c[k + m]
        BY <1>4
      <3>5. k + n \in 1..Len(c) /\ k + m \in 1..Len(c) /\ k + m < k + n
        <4>1. k + n \in (k + 1)..Len(c) /\ k + m \in (k + 1)..Len(c)
          BY <1>4
        <4>2. i \in Int /\ j \in Int /\ m < n
          BY <1>0, <1>6, <3>2, <3>3
        <4>. QED  BY <1>0, <4>1, <4>2
      <3>6. c[k + m] < c[k + n]
        BY <3>5 DEF Increasing
      <3>. QED  BY <3>2, <3>3, <3>4, <3>6
    <2>. QED  BY <1>0, <2>1, <2>2, <2>3
  <1>7. Increasing(s)
    BY <1>6 DEF Increasing
  <1>. QED  BY <1>3, <1>7 DEF a, s, z

\* For every cap, number of entries, of failures and of readers: the files are
\* in order and within the cap but for a common beginning, the newest entry
\* is stored as long as nothing fails, and ReadAll() reads only once what was
\* logged before it has been through the worker (Logger::WorkerLoop,
\* WriteBatch, ReadAll).
THEOREM LogSafeHolds == LogSpec => []LogSafe
  <1>1. LogInv => LogSafe
    <2>. SUFFICES ASSUME LogInv PROVE LogSafe
      OBVIOUS
    <2>1. LogTypeOK
      BY DEF LogInv, LogTypes, Stored, LogTypeOK
    <2>2. LogInOrder
      BY JoinedInOrder DEF LogInOrder, LogInv, Stored
    <2>. QED  BY <2>1, <2>2 DEF LogSafe, LogInv
  <1>2. LogSpec => []LogInv
    BY LogInitInv, LogStep, PTL DEF LogSpec
  <1>. QED  BY <1>1, <1>2, PTL

-----------------------------------------------------------------------------
(* Which Kodi is connected to *)

\* Where DeduplicateInstances() is after answer a: u holds an instance once,
\* only what was heard, and of every record heard one at least as good.
Folded(a, u) ==
    /\ u \in Seq(Records)
    /\ \A i, j \in 1..Len(u) : Key(u[i]) = Key(u[j]) => i = j
    /\ \A i \in 1..Len(u) : \E k \in 1..Len(a) : a[k] = u[i] /\ IsUsable(a[k])
    /\ \A k \in 1..Len(a) : IsUsable(a[k]) =>
          \E i \in 1..Len(u) : Key(u[i]) = Key(a[k]) /\ Rank(a[k]) <= Rank(u[i])

\* The requests a save has still to make, to host h and instance i.
Flows(h, i) ==
    {<<>>, << <<"reconnect">> >>, << <<"uuid", i>>, <<"reconnect">> >>,
     << <<"host", h>>, <<"uuid", i>>, <<"reconnect">> >>}

\* The variables' types.
DiscoveryTypes ==
    /\ host \in Hosts \cup {None} /\ instance_uuid \in Devices \cup {None}
    /\ answer \in Seq(Records) /\ Len(answer) <= MaxRecords
    /\ discovered \in Seq(Records)
    /\ \A i, j \in 1..Len(discovered) : Key(discovered[i]) = Key(discovered[j]) => i = j
    /\ target \in Hosts \cup Records \cup {None}
    /\ selected_uuid \in Devices \cup {None}
    /\ pc \in {"read_host", "browse", "choose", "connect", "connected", "sleep"}
    /\ saves \in 0..MaxTargetSaves
    /\ \E h \in Hosts \cup {None}, i \in Devices \cup {None} : flow \in Flows(h, i)

\* The Boolean ones.
DiscoveryFlags == target_configured \in BOOLEAN /\ requested \in BOOLEAN /\ applied \in BOOLEAN

\* No save is under way and the last one's trigger has been consumed.
Settled == flow = <<>> /\ applied /\ ~requested

\* A resolution that began after the last save works on its settings.
ResolvesSaved ==
    /\ flow # <<>> => ~applied
    /\ pc \in {"browse", "choose"} /\ Settled => host = None
    /\ pc \in {"connect", "connected"} => target # None /\ (Settled => AsSaved)

\* What makes DiscoverySafe inductive.
DiscoveryInv ==
    /\ DiscoveryTypes /\ DiscoveryFlags /\ Folded(answer, instances)
    /\ NeverGuesses /\ SelectedFound /\ ResolvesSaved

-----------------------------------------------------------------------------
\* A rank is 0, 1 or 2.
LEMMA RankTyped == ASSUME NEW r \in Records PROVE Rank(r) \in 0..2
  BY DEF Rank

\* Adding a record keeps the instances apart and loses none.
LEMMA AddInstanceFolds ==
    ASSUME NEW u \in Seq(Records), NEW r \in Records,
           \A i, j \in 1..Len(u) : Key(u[i]) = Key(u[j]) => i = j
    PROVE  LET v == AddInstance(u, r)
           IN  /\ v \in Seq(Records)
               /\ \A i, j \in 1..Len(v) : Key(v[i]) = Key(v[j]) => i = j
               /\ \A i \in 1..Len(v) : v[i] = r \/ (i \in 1..Len(u) /\ v[i] = u[i])
               /\ \A i \in 1..Len(u) : /\ i \in 1..Len(v) /\ Key(v[i]) = Key(u[i])
                                       /\ Rank(u[i]) <= Rank(v[i])
               /\ \E i \in 1..Len(v) : Key(v[i]) = Key(r) /\ Rank(r) <= Rank(v[i])
  <1>. DEFINE v == AddInstance(u, r)
              same == {i \in DOMAIN u : Key(u[i]) = Key(r)}
  <1>1. Len(u) \in Nat /\ DOMAIN u = 1..Len(u) /\ \A i \in 1..Len(u) : u[i] \in Records
    BY ElementOfSeq
  <1>2. Rank(r) \in Nat /\ \A i \in 1..Len(u) : Rank(u[i]) \in Nat
    BY <1>1, RankTyped
  <1>3. CASE same = {}
    <2>1. v = Append(u, r)
      BY <1>3 DEF AddInstance
    <2>2. v \in Seq(Records) /\ Len(v) = Len(u) + 1 /\ v[Len(u) + 1] = r
          /\ \A i \in 1..Len(u) : v[i] = u[i]
      BY <2>1, <1>1
    <2>3. \A i \in 1..Len(u) : Key(u[i]) # Key(r)
      BY <1>1, <1>3
    <2>4. ASSUME NEW i \in 1..Len(v), NEW j \in 1..Len(v), Key(v[i]) = Key(v[j]) PROVE i = j
      <3>1. i \in 1..Len(u) \/ i = Len(u) + 1
        BY <1>1, <2>2
      <3>2. j \in 1..Len(u) \/ j = Len(u) + 1
        BY <1>1, <2>2
      <3>. QED  BY <3>1, <3>2, <2>2, <2>3, <2>4
    <2>5. \A i \in 1..Len(v) : v[i] = r \/ (i \in 1..Len(u) /\ v[i] = u[i])
      BY <1>1, <2>2
    <2>6. \A i \in 1..Len(u) : i \in 1..Len(v) /\ Key(v[i]) = Key(u[i]) /\ Rank(u[i]) <= Rank(v[i])
      BY <1>1, <1>2, <2>2
    <2>7. Len(u) + 1 \in 1..Len(v) /\ Key(v[Len(u) + 1]) = Key(r) /\ Rank(r) <= Rank(v[Len(u) + 1])
      BY <1>1, <1>2, <2>2
    <2>. HIDE DEF v
    <2>. QED  BY <2>2, <2>4, <2>5, <2>6, <2>7 DEF v
  <1>4. CASE same # {}
    <2>1. v = [i \in 1..Len(u) |-> IF i \in same /\ Rank(r) > Rank(u[i]) THEN r ELSE u[i]]
      BY <1>1, <1>4 DEF AddInstance
    <2>2. v \in Seq(Records) /\ Len(v) = Len(u)
      BY <2>1, <1>1
    <2>3. \A i \in 1..Len(u) : v[i] = u[i] \/ (v[i] = r /\ Key(u[i]) = Key(r) /\ Rank(r) > Rank(u[i]))
      BY <2>1, <1>1
    <2>4. \A i \in 1..Len(u) : Key(v[i]) = Key(u[i]) /\ Rank(u[i]) <= Rank(v[i])
      BY <2>3, <1>2
    <2>5. PICK k \in 1..Len(u) : Key(u[k]) = Key(r)
      BY <1>1, <1>4
    <2>6. Key(v[k]) = Key(r) /\ Rank(r) <= Rank(v[k])
      <3>1. CASE Rank(r) > Rank(u[k])
        BY <3>1, <2>1, <2>5, <1>1, <1>2
      <3>2. CASE ~(Rank(r) > Rank(u[k]))
        BY <3>2, <2>1, <2>5, <1>1, <1>2
      <3>. QED  BY <3>1, <3>2
    <2>. HIDE DEF v, same
    <2>. QED  BY <2>2, <2>3, <2>4, <2>5, <2>6 DEF v
  <1>. QED  BY <1>3, <1>4

\* Hearing one more record.
LEMMA FoldedNext ==
    ASSUME NEW a \in Seq(Records), NEW u, NEW r \in Records, Folded(a, u)
    PROVE  Folded(Append(a, r), IF IsUsable(r) THEN AddInstance(u, r) ELSE u)
  <1>. DEFINE b == Append(a, r)
              n == Len(a) + 1
  <1>1. Len(a) \in Nat /\ b \in Seq(Records) /\ Len(b) = n /\ b[n] = r
        /\ \A k \in 1..Len(a) : b[k] = a[k] /\ k \in 1..n
    OBVIOUS
  <1>2. n \in 1..Len(b) /\ \A k \in 1..Len(b) : k \in 1..Len(a) \/ k = n
    BY <1>1
  <1>3. u \in Seq(Records) /\ Len(u) \in Nat /\ \A i \in 1..Len(u) : u[i] \in Records
    BY ElementOfSeq DEF Folded
  <1>. HIDE DEF b, n
  <1>4. CASE ~IsUsable(r)
    <2>1. \A i \in 1..Len(u) : \E k \in 1..Len(b) : b[k] = u[i] /\ IsUsable(b[k])
      BY <1>1, <1>2 DEF Folded
    <2>2. \A k \in 1..Len(b) : IsUsable(b[k]) =>
             \E i \in 1..Len(u) : Key(u[i]) = Key(b[k]) /\ Rank(b[k]) <= Rank(u[i])
      BY <1>1, <1>2, <1>4 DEF Folded
    <2>3. Folded(b, u)
      BY <2>1, <2>2 DEF Folded
    <2>. QED  BY <1>4, <2>3 DEF b
  <1>5. CASE IsUsable(r)
    <2>. DEFINE v == AddInstance(u, r)
    <2>1. /\ v \in Seq(Records)
          /\ \A i, j \in 1..Len(v) : Key(v[i]) = Key(v[j]) => i = j
          /\ \A i \in 1..Len(v) : v[i] = r \/ (i \in 1..Len(u) /\ v[i] = u[i])
          /\ \A i \in 1..Len(u) : /\ i \in 1..Len(v) /\ Key(v[i]) = Key(u[i])
                                  /\ Rank(u[i]) <= Rank(v[i])
          /\ \E i \in 1..Len(v) : Key(v[i]) = Key(r) /\ Rank(r) <= Rank(v[i])
      BY <1>3, AddInstanceFolds DEF Folded
    <2>. HIDE DEF v
    <2>2. ASSUME NEW i \in 1..Len(v)
          PROVE  \E k \in 1..Len(b) : b[k] = v[i] /\ IsUsable(b[k])
      <3>1. CASE v[i] = r
        BY <1>1, <1>2, <1>5, <3>1
      <3>2. CASE i \in 1..Len(u) /\ v[i] = u[i]
        <4>1. PICK k \in 1..Len(a) : a[k] = u[i] /\ IsUsable(a[k])
          BY <3>2 DEF Folded
        <4>2. k \in 1..Len(b) /\ b[k] = a[k]
          BY <1>1
        <4>. QED  BY <3>2, <4>1, <4>2
      <3>. QED  BY <2>1, <3>1, <3>2
    <2>3. ASSUME NEW k \in 1..Len(b), IsUsable(b[k])
          PROVE  \E i \in 1..Len(v) : Key(v[i]) = Key(b[k]) /\ Rank(b[k]) <= Rank(v[i])
      <3>1. CASE k = n
        BY <1>1, <2>1, <3>1
      <3>2. CASE k \in 1..Len(a)
        <4>1. b[k] = a[k] /\ IsUsable(a[k]) /\ a[k] \in Records
          BY <1>1, <2>3, <3>2, ElementOfSeq
        <4>2. PICK i \in 1..Len(u) : Key(u[i]) = Key(a[k]) /\ Rank(a[k]) <= Rank(u[i])
          BY <4>1, <3>2 DEF Folded
        <4>3. i \in 1..Len(v) /\ Key(v[i]) = Key(b[k]) /\ Rank(u[i]) <= Rank(v[i])
          BY <2>1, <4>1, <4>2
        <4>4. Rank(a[k]) \in 0..2 /\ Rank(u[i]) \in 0..2 /\ Rank(v[i]) \in 0..2
          BY RankTyped, <4>1, <4>3, <1>3, <2>1, ElementOfSeq
        <4>5. Rank(b[k]) <= Rank(v[i])
          BY <4>1, <4>2, <4>3, <4>4
        <4>. QED  BY <4>3, <4>5
      <3>. QED  BY <1>2, <3>1, <3>2
    <2>4. Folded(b, v)
      BY <2>1, <2>2, <2>3 DEF Folded
    <2>. QED  BY <2>4, <1>5 DEF b, v
  <1>. QED  BY <1>4, <1>5

\* The invariant holds before the first resolution.
LEMMA DiscoveryInitInv == DiscoveryInit => DiscoveryInv
  <1>. SUFFICES ASSUME DiscoveryInit PROVE DiscoveryInv
    OBVIOUS
  <1>1. DiscoveryTypes
    <2>1. flow \in Flows(None, None)
      BY DEF DiscoveryInit, Flows
    <2>. QED  BY <2>1, DiscoveryAssumption DEF DiscoveryInit, DiscoveryTypes
  <1>2. DiscoveryFlags
    BY Zenon DEF DiscoveryInit, DiscoveryFlags
  <1>3. Folded(answer, instances)
    BY DEF DiscoveryInit, Folded
  <1>4. NeverGuesses /\ SelectedFound /\ ResolvesSaved
    BY DEF DiscoveryInit, NeverGuesses, SelectedFound, ResolvesSaved, Heard
  <1>. QED  BY <1>1, <1>2, <1>3, <1>4 DEF DiscoveryInv

\* The best record of an instance heard, and what Heard says of the answer.
LEMMA FoldedHeard ==
    ASSUME DiscoveryInv
    PROVE  /\ \A i \in 1..Len(instances) : instances[i] \in Heard
           /\ \A r \in Heard : \E i \in 1..Len(instances) :
                 Key(instances[i]) = Key(r) /\ Rank(r) <= Rank(instances[i])
           /\ Heard \subseteq Records
  <1>1. answer \in Seq(Records) /\ DOMAIN answer = 1..Len(answer)
        /\ \A k \in 1..Len(answer) : answer[k] \in Records
    BY ElementOfSeq DEF DiscoveryInv, DiscoveryTypes
  <1>2. Heard = {answer[k] : k \in {j \in 1..Len(answer) : IsUsable(answer[j])}}
    BY <1>1 DEF Heard
  <1>3. ASSUME NEW i \in 1..Len(instances) PROVE instances[i] \in Heard
    <2>1. PICK k \in 1..Len(answer) : answer[k] = instances[i] /\ IsUsable(answer[k])
      BY DEF DiscoveryInv, Folded
    <2>. QED  BY <1>2, <2>1
  <1>4. ASSUME NEW r \in Heard
        PROVE  \E i \in 1..Len(instances) : Key(instances[i]) = Key(r) /\ Rank(r) <= Rank(instances[i])
    <2>1. PICK k \in 1..Len(answer) : r = answer[k] /\ IsUsable(answer[k])
      BY <1>2
    <2>. QED  BY <2>1 DEF DiscoveryInv, Folded
  <1>5. Heard \subseteq Records
    BY <1>1, <1>2
  <1>. QED  BY <1>3, <1>4, <1>5

\* Two records have one key exactly if uuid and device agree.
LEMMA KeyFacts ==
    ASSUME NEW r, NEW s
    PROVE  Key(r) = Key(s) <=> r.uuid = s.uuid /\ r.device = s.device
  BY DEF Key

\* A record at least as good as one with an address has an address.
LEMMA AddressRank ==
    ASSUME NEW r \in Records, NEW s \in Records, Rank(r) <= Rank(s), HasAddress(r)
    PROVE  HasAddress(s)
  BY DEF Rank, HasAddress

\* ResolveTarget() reads the host setting.
LEMMA HostRead ==
    ASSUME DiscoveryInv, ReadHost PROVE DiscoveryInv'
  <1>. USE DEF ReadHost, settingVars
  <1>4. host \in Hosts \cup {None} /\ None \notin Hosts
    BY DiscoveryAssumption DEF DiscoveryInv, DiscoveryTypes
  <1>1. DiscoveryTypes'
    <2>1. /\ answer' \in Seq(Records) /\ Len(answer') = 0 /\ discovered' \in Seq(Records)
          /\ (discovered' = <<>> \/ discovered' = discovered)
      <3>1. answer' = <<>> /\ (discovered' = <<>> \/ discovered' = discovered)
        OBVIOUS
      <3>2. discovered \in Seq(Records)
        BY DEF DiscoveryInv, DiscoveryTypes
      <3>3. <<>> \in Seq(Records) /\ Len(<<>>) = 0
        OBVIOUS
      <3>. QED  BY <3>1, <3>2, <3>3, Zenon
    <2>2. \A i, j \in 1..Len(discovered') : Key(discovered'[i]) = Key(discovered'[j]) => i = j
      BY <2>1 DEF DiscoveryInv, DiscoveryTypes
    <2>3. target' \in Hosts \cup Records \cup {None} /\ selected_uuid' \in Devices \cup {None}
          /\ pc' \in {"browse", "connect"}
      BY <1>4 DEF DiscoveryInv, DiscoveryTypes
    <2>. QED  BY <2>1, <2>2, <2>3, DiscoveryAssumption DEF DiscoveryInv, DiscoveryTypes
  <1>2. DiscoveryFlags'
    BY Zenon DEF DiscoveryInv, DiscoveryFlags
  <1>3. Folded(answer, instances)'
    BY DEF Folded
  <1>5. NeverGuesses' /\ SelectedFound'
    BY <1>4 DEF NeverGuesses, SelectedFound
  <1>6. ResolvesSaved'
    BY <1>4 DEF DiscoveryInv, ResolvesSaved, Settled, AsSaved
  <1>. QED  BY <1>1, <1>2, <1>3, <1>5, <1>6 DEF DiscoveryInv

\* A record is heard, or the browse ends.
LEMMA BrowseHears ==
    ASSUME DiscoveryInv, HearRecord \/ Browse PROVE DiscoveryInv'
  <1>. USE DEF settingVars, targetVars
  <1>1. CASE HearRecord
    <2>1. PICK r \in Records :
             /\ answer' = Append(answer, r)
             /\ instances' = IF IsUsable(r) THEN AddInstance(instances, r) ELSE instances
      BY <1>1 DEF HearRecord
    <2>2. Folded(answer, instances)'
      BY <2>1, FoldedNext DEF DiscoveryInv, DiscoveryTypes
    <2>3. answer' \in Seq(Records) /\ Len(answer') <= MaxRecords
      BY <1>1, <2>1, DiscoveryAssumption DEF HearRecord, DiscoveryInv, DiscoveryTypes
    <2>4. DiscoveryTypes'
      BY <1>1, <2>3 DEF HearRecord, DiscoveryInv, DiscoveryTypes
    <2>5. DiscoveryFlags'
      BY <1>1, Zenon DEF HearRecord, DiscoveryInv, DiscoveryFlags
    <2>6. NeverGuesses' /\ SelectedFound' /\ ResolvesSaved'
      BY <1>1 DEF HearRecord, DiscoveryInv, NeverGuesses, SelectedFound, ResolvesSaved, Settled, AsSaved
    <2>. QED  BY <2>2, <2>4, <2>5, <2>6 DEF DiscoveryInv
  <1>2. CASE Browse
    <2>1. DiscoveryTypes'
      BY <1>2 DEF Browse, DiscoveryInv, DiscoveryTypes
    <2>2. DiscoveryFlags'
      BY <1>2, Zenon DEF Browse, DiscoveryInv, DiscoveryFlags
    <2>3. Folded(answer, instances)'
      BY <1>2 DEF Browse, DiscoveryInv
    <2>4. NeverGuesses' /\ SelectedFound' /\ ResolvesSaved'
      BY <1>2 DEF Browse, DiscoveryInv, NeverGuesses, SelectedFound, ResolvesSaved, Settled, AsSaved
    <2>. QED  BY <2>1, <2>2, <2>3, <2>4 DEF DiscoveryInv
  <1>. QED  BY <1>1, <1>2

\* ResolveTarget() reads instance_uuid and chooses.
LEMMA InstanceChosen ==
    ASSUME DiscoveryInv, ChooseInstance PROVE DiscoveryInv'
  <1>. DEFINE chosen == {i \in Candidates : HasAddress(instances[i])}
  <1>1. /\ pc = "choose"
        /\ target' = IF chosen = {} THEN None ELSE instances[CHOOSE i \in chosen : TRUE]
        /\ discovered' = instances
        /\ target_configured' = (instance_uuid # None)
        /\ selected_uuid' = instance_uuid
        /\ pc' = IF target' = None THEN "sleep" ELSE "connect"
        /\ answer' = answer /\ instances' = instances /\ requested' = requested
        /\ host' = host /\ instance_uuid' = instance_uuid /\ flow' = flow
        /\ applied' = applied /\ saves' = saves
    BY DEF ChooseInstance, settingVars
  <1>2. /\ instances \in Seq(Records) /\ Len(instances) \in Nat
        /\ DOMAIN instances = 1..Len(instances)
        /\ \A i \in 1..Len(instances) : instances[i] \in Records
    BY ElementOfSeq DEF DiscoveryInv, Folded
  <1>3. chosen \subseteq 1..Len(instances)
    BY <1>2 DEF Candidates
  <1>4. Heard' = Heard
    BY <1>1 DEF Heard
  <1>5. /\ None \notin Devices /\ None \notin Records /\ Hosts \cap Records = {}
        /\ \A r \in Records : r.device \in Devices /\ r.uuid \in BOOLEAN
    BY DiscoveryAssumption
  <1>6. ASSUME chosen = {}
        PROVE  NeverGuesses' /\ SelectedFound' /\ ResolvesSaved' /\ target' \in Hosts \cup Records \cup {None}
    <2>1. target' = None /\ pc' = "sleep"
      BY <1>1, <1>6
    <2>2. ASSUME NEW r \in Heard, r.uuid, r.device = instance_uuid, HasAddress(r) PROVE FALSE
      <3>1. r \in Records /\ instance_uuid # None
        BY <2>2, FoldedHeard, <1>5
      <3>2. PICK i \in 1..Len(instances) : Key(instances[i]) = Key(r) /\ Rank(r) <= Rank(instances[i])
        BY FoldedHeard
      <3>3. instances[i].uuid /\ instances[i].device = instance_uuid
        BY <2>2, <3>2, KeyFacts
      <3>4. HasAddress(instances[i])
        BY <1>2, <2>2, <3>1, <3>2, AddressRank
      <3>5. i \in chosen
        BY <1>2, <3>1, <3>3, <3>4 DEF Candidates
      <3>. QED  BY <1>6, <3>5
    <2>3. SelectedFound'
      BY <1>1, <1>4, <2>2 DEF SelectedFound
    <2>4. NeverGuesses'
      BY <2>1 DEF NeverGuesses
    <2>5. ResolvesSaved'
      BY <1>1, <2>1 DEF DiscoveryInv, ResolvesSaved, Settled
    <2>6. target' \in Hosts \cup Records \cup {None}
      BY <2>1
    <2>. QED  BY <2>3, <2>4, <2>5, <2>6
  <1>7. ASSUME chosen # {}
        PROVE  NeverGuesses' /\ SelectedFound' /\ ResolvesSaved' /\ target' \in Hosts \cup Records \cup {None}
    <2>1. PICK i \in chosen : target' = instances[i]
      BY <1>1, <1>7
    <2>2. i \in 1..Len(instances) /\ HasAddress(instances[i]) /\ target' \in Records
          /\ target' \in Heard /\ target' # None /\ target' \notin Hosts /\ pc' = "connect"
      BY <1>1, <1>2, <1>3, <1>5, <2>1, FoldedHeard
    <2>3. ASSUME NEW r \in Heard, Key(r) = Key(target') PROVE Rank(r) <= Rank(target')
      <3>1. PICK j \in 1..Len(instances) : Key(instances[j]) = Key(r) /\ Rank(r) <= Rank(instances[j])
        BY FoldedHeard
      <3>2. Key(instances[j]) = Key(instances[i])
        BY <2>1, <2>3, <3>1
      <3>3. j = i
        BY <2>2, <3>2 DEF DiscoveryInv, Folded
      <3>. QED  BY <2>1, <3>1, <3>3
    <2>4. \/ (target').device = instance_uuid
          \/ /\ instance_uuid = None
             /\ \A r \in Heard : r.device = (target').device
      <3>1. CASE instance_uuid # None
        BY <2>1, <2>2, <3>1 DEF Candidates
      <3>2. CASE instance_uuid = None
        <4>1. Len(instances) = 1 /\ i = 1
          BY <2>1, <3>2 DEF Candidates
        <4>2. ASSUME NEW r \in Heard PROVE r.device = instances[1].device
          <5>1. PICK j \in 1..Len(instances) : Key(instances[j]) = Key(r)
            BY FoldedHeard
          <5>2. j = 1
            BY <4>1, <5>1
          <5>. QED  BY <5>1, <5>2, KeyFacts
        <4>. QED  BY <2>1, <3>2, <4>1, <4>2
      <3>. QED  BY <3>1, <3>2
    <2>5. NeverGuesses'
      BY <1>1, <1>4, <2>1, <2>2, <2>3, <2>4 DEF NeverGuesses
    <2>6. SelectedFound'
      BY <2>2 DEF SelectedFound
    <2>7. ResolvesSaved'
      BY <1>1, <2>2 DEF DiscoveryInv, ResolvesSaved, Settled, AsSaved
    <2>8. target' \in Hosts \cup Records \cup {None}
      BY <2>2
    <2>. QED  BY <2>5, <2>6, <2>7, <2>8
  <1>8. NeverGuesses' /\ SelectedFound' /\ ResolvesSaved' /\ target' \in Hosts \cup Records \cup {None}
    BY <1>6, <1>7
  <1>9. DiscoveryTypes'
    <2>1. pc' \in {"sleep", "connect"}
      BY <1>1
    <2>2. discovered' \in Seq(Records)
          /\ \A i, j \in 1..Len(discovered') : Key(discovered'[i]) = Key(discovered'[j]) => i = j
      BY <1>1, <1>2 DEF DiscoveryInv, Folded
    <2>. HIDE DEF chosen
    <2>. QED  BY <1>1, <1>8, <2>1, <2>2 DEF DiscoveryInv, DiscoveryTypes
  <1>10. DiscoveryFlags'
    BY <1>1, Zenon DEF DiscoveryInv, DiscoveryFlags
  <1>11. Folded(answer, instances)'
    BY <1>1 DEF DiscoveryInv
  <1>. QED  BY <1>8, <1>9, <1>10, <1>11 DEF DiscoveryInv

\* Connecting, waiting and losing the connection.
LEMMA LoopWaits ==
    ASSUME DiscoveryInv, Connects \/ ConnectFails \/ Sleep \/ ConnectedWait \/ ConnectionDrops
    PROVE  DiscoveryInv'
  <1>. USE DEF Connects, ConnectFails, Sleep, ConnectedWait, ConnectionDrops, settingVars, targetVars,
               KeepTrigger, WaitReturns, WakeReason, AfterWait
  <1>1. DiscoveryTypes'
    BY DEF DiscoveryInv, DiscoveryTypes
  <1>2. DiscoveryFlags'
    BY Zenon DEF DiscoveryInv, DiscoveryFlags
  <1>3. Folded(answer, instances)'
    BY DEF DiscoveryInv
  <1>4. NeverGuesses' /\ SelectedFound'
    BY DEF DiscoveryInv, NeverGuesses, SelectedFound, Heard, ResolvesSaved
  <1>5. ResolvesSaved'
    BY DEF DiscoveryInv, ResolvesSaved, Settled, AsSaved
  <1>. QED  BY <1>1, <1>2, <1>3, <1>4, <1>5 DEF DiscoveryInv

\* The requests of a save, and their failure.
LEMMA SaveSteps ==
    ASSUME DiscoveryInv, SaveNext PROVE DiscoveryInv'
  <1>1. PICK h \in Hosts \cup {None}, i \in Devices \cup {None} : flow \in Flows(h, i)
    BY DEF DiscoveryInv, DiscoveryTypes
  <1>2. /\ answer' = answer /\ instances' = instances /\ target' = target
        /\ discovered' = discovered /\ selected_uuid' = selected_uuid /\ pc' = pc
        /\ target_configured' = target_configured
    BY DEF SaveNext, Save, WriteHost, WriteUuid, Reconnect, RequestFails, targetVars
  <1>3. /\ host' \in Hosts \cup {None} /\ instance_uuid' \in Devices \cup {None}
        /\ saves' \in 0..MaxTargetSaves
        /\ \E g \in Hosts \cup {None}, j \in Devices \cup {None} : flow' \in Flows(g, j)
        /\ flow' # <<>> => ~applied'
        /\ ~Settled'
    <2>1. /\ host \in Hosts \cup {None} /\ instance_uuid \in Devices \cup {None}
          /\ saves \in 0..MaxTargetSaves
      BY DEF DiscoveryInv, DiscoveryTypes
    <2>2. flow # <<>> => ~applied
      BY Zenon DEF DiscoveryInv, ResolvesSaved
    <2>3. ASSUME NEW g \in Hosts \cup {None}, NEW j \in Devices \cup {None}, Save(g, j) 
          PROVE  /\ host' \in Hosts \cup {None} /\ instance_uuid' \in Devices \cup {None}
                 /\ saves' \in 0..MaxTargetSaves
                 /\ \E g1 \in Hosts \cup {None}, j1 \in Devices \cup {None} : flow' \in Flows(g1, j1)
                 /\ flow' # <<>> => ~applied'
                 /\ ~Settled'
      <3>1. flow' = << <<"host", g>>, <<"uuid", j>>, <<"reconnect">> >> /\ ~applied'
        BY <2>3, Zenon DEF Save
      <3>2. flow' \in Flows(g, j) /\ flow' # <<>>
        BY <3>1 DEF Flows
      <3>3. saves' \in 0..MaxTargetSaves /\ host' = host /\ instance_uuid' = instance_uuid
        BY <2>1, <2>3, DiscoveryAssumption DEF Save
      <3>4. ~Settled'
        BY <3>2, Zenon DEF Settled
      <3>. QED  BY <2>1, <3>1, <3>2, <3>3, <3>4, Zenon
    <2>4. CASE WriteHost
      <3>1. flow = << <<"host", h>>, <<"uuid", i>>, <<"reconnect">> >>
        BY <1>1, <2>4 DEF WriteHost, Flows
      <3>2. host' = h /\ flow' = << <<"uuid", i>>, <<"reconnect">> >>
        BY <2>4, <3>1 DEF WriteHost
      <3>3. flow # <<>> /\ flow' # <<>> /\ flow' \in Flows(h, i)
        BY <3>1, <3>2 DEF Flows
      <3>4. instance_uuid' = instance_uuid /\ saves' = saves /\ applied' = applied
        BY <2>4, Zenon DEF WriteHost
      <3>5. ~applied' /\ ~Settled'
        BY <2>2, <3>3, <3>4, Zenon DEF Settled
      <3>. QED  BY <2>1, <3>2, <3>3, <3>4, <3>5, Zenon
    <2>5. CASE WriteUuid
      <3>1. flow = << <<"uuid", i>>, <<"reconnect">> >>
        BY <1>1, <2>5 DEF WriteUuid, Flows
      <3>2. instance_uuid' = i /\ flow' = << <<"reconnect">> >>
        BY <2>5, <3>1 DEF WriteUuid
      <3>3. flow # <<>> /\ flow' # <<>> /\ flow' \in Flows(h, i)
        BY <3>1, <3>2 DEF Flows
      <3>4. host' = host /\ saves' = saves /\ applied' = applied
        BY <2>5, Zenon DEF WriteUuid
      <3>5. ~applied' /\ ~Settled'
        BY <2>2, <3>3, <3>4, Zenon DEF Settled
      <3>. QED  BY <2>1, <3>2, <3>3, <3>4, <3>5, Zenon
    <2>6. CASE Reconnect \/ RequestFails
      <3>1. flow # <<>> /\ flow' = <<>> /\ host' = host /\ instance_uuid' = instance_uuid /\ saves' = saves
        BY <2>6, Zenon DEF Reconnect, RequestFails
      <3>2. flow' \in Flows(h, i)
        BY <3>1 DEF Flows
      <3>3. ~Settled'
        BY <2>2, <2>6, <3>1, Zenon DEF Reconnect, RequestFails, Trigger, Settled
      <3>. QED  BY <2>1, <3>1, <3>2, <3>3, Zenon
    <2>7. CASE \E g \in Hosts \cup {None}, j \in Devices \cup {None} : Save(g, j)
      BY <2>3, <2>7
    <2>8. SaveNext => \/ \E g \in Hosts \cup {None}, j \in Devices \cup {None} : Save(g, j)
                      \/ WriteHost \/ WriteUuid \/ Reconnect \/ RequestFails
      BY DEF SaveNext
    <2>. QED  BY <2>4, <2>5, <2>6, <2>7, <2>8
  <1>4. DiscoveryFlags'
    BY <1>2, Zenon DEF SaveNext, Save, WriteHost, WriteUuid, Reconnect, RequestFails, DiscoveryInv, DiscoveryFlags, Trigger
  <1>5. DiscoveryTypes'
    BY <1>2, <1>3 DEF DiscoveryInv, DiscoveryTypes
  <1>6. Folded(answer, instances)'
    BY <1>2 DEF DiscoveryInv
  <1>7. NeverGuesses' /\ SelectedFound'
    BY <1>2 DEF DiscoveryInv, NeverGuesses, SelectedFound, Heard
  <1>8. ResolvesSaved'
    BY <1>2, <1>3 DEF DiscoveryInv, ResolvesSaved
  <1>. QED  BY <1>4, <1>5, <1>6, <1>7, <1>8 DEF DiscoveryInv

\* Whatever a browse hears, in whatever order, and at whatever point of a
\* resolution a target is saved: KodiClient connects to the Kodi that was
\* asked for at its best address, never to a guess (KodiClient::ResolveTarget,
\* DeduplicateInstances, ConnectionLoop).
THEOREM DiscoverySafeHolds == DiscoverySpec => []DiscoverySafe
  <1>1. DiscoveryInv => DiscoverySafe
    <2>. SUFFICES ASSUME DiscoveryInv PROVE DiscoverySafe
      OBVIOUS
    <2>1. Len(flow) <= 3
      <3>1. PICK h \in Hosts \cup {None}, i \in Devices \cup {None} : flow \in Flows(h, i)
        BY DEF DiscoveryInv, DiscoveryTypes
      <3>2. \/ flow = <<>> \/ flow = << <<"reconnect">> >>
            \/ flow = << <<"uuid", i>>, <<"reconnect">> >>
            \/ flow = << <<"host", h>>, <<"uuid", i>>, <<"reconnect">> >>
        BY <3>1 DEF Flows
      <3>3. CASE flow = <<>>
        BY <3>3
      <3>4. CASE flow = << <<"reconnect">> >>
        BY <3>4
      <3>5. CASE flow = << <<"uuid", i>>, <<"reconnect">> >>
        BY <3>5
      <3>6. CASE flow = << <<"host", h>>, <<"uuid", i>>, <<"reconnect">> >>
        BY <3>6
      <3>. QED  BY <3>2, <3>3, <3>4, <3>5, <3>6
    <2>2. DOMAIN discovered = 1..Len(discovered) /\ instances \in Seq(Records)
      BY DEF DiscoveryInv, DiscoveryTypes, Folded
    <2>3. DiscoveryTypeOK
      BY <2>1, <2>2 DEF DiscoveryInv, DiscoveryTypes, DiscoveryFlags, DiscoveryTypeOK
    <2>4. SavedTargetUsed
      BY DEF DiscoveryInv, ResolvesSaved, Settled, SavedTargetUsed
    <2>. QED  BY <2>3, <2>4 DEF DiscoverySafe, DiscoveryInv
  <1>2. DiscoveryInv /\ [DiscoveryNext]_discovery_vars => DiscoveryInv'
    <2>. SUFFICES ASSUME DiscoveryInv, [DiscoveryNext]_discovery_vars PROVE DiscoveryInv'
      OBVIOUS
    <2>1. CASE UNCHANGED discovery_vars
      <3>. USE <2>1 DEF discovery_vars, settingVars, targetVars
      <3>1. DiscoveryTypes'
        BY DEF DiscoveryInv, DiscoveryTypes
      <3>2. DiscoveryFlags'
        BY Zenon DEF DiscoveryInv, DiscoveryFlags
      <3>3. Folded(answer, instances)'
        BY DEF DiscoveryInv
      <3>4. NeverGuesses' /\ SelectedFound'
        BY DEF DiscoveryInv, NeverGuesses, SelectedFound, Heard
      <3>5. ResolvesSaved'
        BY DEF DiscoveryInv, ResolvesSaved, Settled, AsSaved
      <3>. QED  BY <3>1, <3>2, <3>3, <3>4, <3>5 DEF DiscoveryInv
    <2>2. CASE DiscoveryNext
      BY <2>2, HostRead, BrowseHears, InstanceChosen, LoopWaits, SaveSteps DEF DiscoveryNext, LoopNext
    <2>. QED  BY <2>1, <2>2
  <1>3. DiscoverySpec => []DiscoveryInv
    BY DiscoveryInitInv, <1>2, PTL DEF DiscoverySpec
  <1>. QED  BY <1>1, <1>3, PTL
=============================================================================
