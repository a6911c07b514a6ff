------------------------------ MODULE Accounts ------------------------------
(***************************************************************************)
(* One user's account: registration and its verification, login with a     *)
(* challenge for unknown devices, refresh tokens, password changes, the    *)
(* administrator's status changes and the nightly cleanup.  AuthService    *)
(* runs every statement on its own: a call reads rows, decides, and writes *)
(* later, while other calls for the same account do the same.  Of the      *)
(* one-time codes (OneTimeCodes) it is kept whether a type has a usable    *)
(* one; after one was used or expired, an older one may still be usable.   *)
(***************************************************************************)
EXTENDS Integers, Sequences, FiniteSets, FiniteSetsExt

CONSTANTS
    Calls,        \* concurrent API calls and cleanup jobs about this account
    Devices,      \* device hashes of login requests
    NoDevice,     \* deviceHash NULL
    MaxSessions, MaxPasswords  \* bounds: rows ever inserted, password changes

ASSUME AccountsAssumption ==
    /\ NoDevice \notin Devices
    /\ IsFiniteSet(Calls) /\ Calls # {}
    /\ MaxSessions \in Nat /\ MaxPasswords \in Nat \ {0}

VARIABLES
    account,    \* the User row: status, locked (lockedUntil is in the future),
                \* password (how often it was set)
    usable,     \* types of which a code can be used
    sessions,   \* Session rows ever created, open until deleted
    call,       \* what each running call read and where it stands
    revoked,    \* the latest password whose change deleted the older sessions
    challenged  \* devices from which a login challenge was answered

vars == <<account, usable, sessions, call, revoked, challenged>>

Statuses == {"none", "PENDING", "ACTIVE", "SUSPENDED", "deleted"}
Types    == {"EMAIL_VERIFICATION", "LOGIN_CHALLENGE", "PASSWORD_RESET"}
Steps    == {"idle", "insertUser", "updateUser", "invalidate", "insertCode", "accept", "user",
             "activate", "count", "device", "session",
             "consume", "drop", "password", "revoke", "deleteCodes", "deleteUser"}

Idle == [pc |-> "idle", type |-> "EMAIL_VERIFICATION", device |-> NoDevice,
         row |-> 0, password |-> 0]

TypeOK ==
    /\ account \in [status : Statuses, locked : BOOLEAN, password : 0..MaxPasswords]
    /\ usable \subseteq Types
    /\ sessions \in Seq([open : BOOLEAN, device : Devices \cup {NoDevice},
                         password : 0..MaxPasswords, from : 0..MaxSessions])
    /\ Len(sessions) <= MaxSessions
    /\ call \in [Calls -> [pc : Steps, type : Types, device : Devices \cup {NoDevice},
                           row : 0..MaxSessions, password : 0..MaxPasswords]]
    /\ revoked \in 0..MaxPasswords
    /\ challenged \subseteq Devices

Init ==
    /\ account = [status |-> "none", locked |-> FALSE, password |-> 0]
    /\ usable = {}
    /\ sessions = <<>>
    /\ call = [c \in Calls |-> Idle]
    /\ revoked = 0
    /\ challenged = {}

Exists == account.status \notin {"none", "deleted"}
At(c, step) == call[c].pc = step
Go(c, step) == call' = [call EXCEPT ![c].pc = step]
Start(c, step, type) == At(c, "idle") /\ call' = [call EXCEPT ![c] = [Idle EXCEPT !.pc = step, !.type = type]]
End(c) == call' = [call EXCEPT ![c] = Idle]
-----------------------------------------------------------------------------
(* One-time codes                                                          *)

InvalidateCodes(c) ==
    /\ At(c, "invalidate")
    /\ usable' = usable \ {call[c].type}
    /\ Go(c, "insertCode")
    /\ UNCHANGED <<account, sessions, revoked, challenged>>

\* create; it refuses when another request has just inserted a code.
CreateCode(c) ==
    /\ At(c, "insertCode")
    /\ usable' = usable \cup {call[c].type}
    /\ End(c)
    /\ UNCHANGED <<account, sessions, revoked, challenged>>

\* verify has found the guess to match the code it read.
MatchCode(c, t, d) ==
    /\ At(c, "idle")
    /\ Exists /\ t \in usable
    /\ call' = [call EXCEPT ![c] = [Idle EXCEPT !.pc = "accept", !.type = t, !.device = d]]
    /\ UNCHANGED <<account, usable, sessions, revoked, challenged>>

VerifyEmailOtp(c) == MatchCode(c, "EMAIL_VERIFICATION", NoDevice)
VerifyLoginOtp(c) == \E d \in Devices : MatchCode(c, "LOGIN_CHALLENGE", d)
ResetPassword(c)  == MatchCode(c, "PASSWORD_RESET", NoDevice)

CodeGone(t) == usable' \in {usable, usable \ {t}}

ConsumeCode(c) ==
    /\ At(c, "accept")
    /\ CodeGone(call[c].type)
    /\ challenged' = IF call[c].type = "LOGIN_CHALLENGE" THEN challenged \cup {call[c].device} ELSE challenged
    /\ Go(c, IF call[c].type = "PASSWORD_RESET" THEN "password" ELSE "user")
    /\ UNCHANGED <<account, sessions, revoked>>

\* A code expires or is locked by wrong guesses.
LoseCode(t) ==
    /\ t \in usable
    /\ CodeGone(t)
    /\ UNCHANGED <<account, sessions, call, revoked, challenged>>
-----------------------------------------------------------------------------
(* Registration and verification                                           *)

Register(c) ==
    /\ \/ account.status = "none" /\ Start(c, "insertUser", "EMAIL_VERIFICATION")
       \/ account.status = "PENDING" /\ Start(c, "updateUser", "EMAIL_VERIFICATION")
    /\ UNCHANGED <<account, usable, sessions, revoked, challenged>>

\* The email is unique: the second of two inserts throws.
InsertUser(c) ==
    /\ At(c, "insertUser")
    /\ IF account.status = "none"
       THEN account' = [account EXCEPT !.status = "PENDING", !.password = 1] /\ Go(c, "invalidate")
       ELSE End(c) /\ UNCHANGED account
    /\ UNCHANGED <<usable, sessions, revoked, challenged>>

\* The row read as PENDING gets the new password, whatever its status is now.
UpdateUser(c) ==
    /\ At(c, "updateUser")
    /\ IF Exists
       THEN /\ account.password < MaxPasswords
            /\ account' = [account EXCEPT !.password = @ + 1]
            /\ Go(c, "invalidate")
       ELSE End(c) /\ UNCHANGED account
    /\ UNCHANGED <<usable, sessions, revoked, challenged>>

ResendOtp(c) ==
    /\ account.status = "PENDING"
    /\ Start(c, "invalidate", "EMAIL_VERIFICATION")
    /\ UNCHANGED <<account, usable, sessions, revoked, challenged>>

ForgotPassword(c) ==
    /\ Exists
    /\ Start(c, "invalidate", "PASSWORD_RESET")
    /\ UNCHANGED <<account, usable, sessions, revoked, challenged>>

\* verifyEmailOtp and verifyLoginOtp read the user after the code is consumed.
ReadUser(c) ==
    /\ At(c, "user")
    /\ LET step == IF call[c].type = "LOGIN_CHALLENGE" THEN "session" ELSE "activate"
       IN  IF account.status = (IF step = "session" THEN "ACTIVE" ELSE "PENDING")
           THEN call' = [call EXCEPT ![c].pc = step, ![c].password = account.password]
           ELSE End(c)
    /\ UNCHANGED <<account, usable, sessions, revoked, challenged>>

Activate(c) ==
    /\ At(c, "activate")
    /\ IF Exists
       THEN account' = [account EXCEPT !.status = "ACTIVE"] /\ Go(c, "session")
       ELSE End(c) /\ UNCHANGED account
    /\ UNCHANGED <<usable, sessions, revoked, challenged>>

\* The session of a deleted user violates its foreign key.
CreateSession(c) ==
    /\ At(c, "session")
    /\ Len(sessions) < MaxSessions
    /\ sessions' = IF ~Exists THEN sessions
                   ELSE Append(sessions, [open |-> TRUE, device |-> call[c].device,
                                          password |-> call[c].password, from |-> call[c].row])
    /\ End(c)
    /\ UNCHANGED <<account, usable, revoked, challenged>>
-----------------------------------------------------------------------------
(* Login and sessions                                                      *)

\* A wrong password is logged, then the failures of the last 15 minutes are
\* counted; whether this makes them enough to suspend the account is left open.
LoginFails(c) ==
    /\ Exists /\ ~account.locked /\ account.status # "SUSPENDED"
    /\ Start(c, "count", "LOGIN_CHALLENGE")
    /\ UNCHANGED <<account, usable, sessions, revoked, challenged>>

SuspendAfterFailures(c) ==
    /\ At(c, "count")
    /\ Exists
    /\ account' = [account EXCEPT !.status = "SUSPENDED", !.locked = TRUE]
    /\ End(c)
    /\ UNCHANGED <<usable, sessions, revoked, challenged>>

Login(c, d) ==
    /\ At(c, "idle")
    /\ account.status = "ACTIVE" /\ ~account.locked
    /\ call' = [call EXCEPT ![c] = [Idle EXCEPT !.pc = "device", !.type = "LOGIN_CHALLENGE",
                                                !.device = d, !.password = account.password]]
    /\ UNCHANGED <<account, usable, sessions, revoked, challenged>>

\* Mutant: any session of the user makes the device known.
KnownAnyDevice(d) == \E i \in DOMAIN sessions : sessions[i].open

KnownDevice(d) == \E i \in DOMAIN sessions : sessions[i].open /\ sessions[i].device = d

CheckDevice(c) ==
    /\ At(c, "device")
    /\ IF KnownDevice(call[c].device) THEN Go(c, "session")
       ELSE call' = [call EXCEPT ![c] = [Idle EXCEPT !.pc = "invalidate", !.type = "LOGIN_CHALLENGE"]]
    /\ UNCHANGED <<account, usable, sessions, revoked, challenged>>

\* refresh reads the session with its user; logout only the session.  Any
\* session may be found expired: its age is not kept.  Nothing else deletes
\* expired sessions: the worker of security.queue runs another processor.
Refresh(c, i) ==
    /\ At(c, "idle")
    /\ sessions[i].open
    /\ \E expired \in BOOLEAN :
           IF ~expired /\ account.status = "ACTIVE"
           THEN call' = [call EXCEPT ![c] = [Idle EXCEPT !.pc = "consume", !.row = i, !.password = sessions[i].password]]
           ELSE call' = [call EXCEPT ![c] = [Idle EXCEPT !.pc = "drop", !.row = i]]
    /\ UNCHANGED <<account, usable, sessions, revoked, challenged>>

Logout(c, i) ==
    /\ At(c, "idle")
    /\ sessions[i].open
    /\ call' = [call EXCEPT ![c] = [Idle EXCEPT !.pc = "drop", !.row = i]]
    /\ UNCHANGED <<account, usable, sessions, revoked, challenged>>

Closed(S) ==
    [i \in DOMAIN sessions |->
        IF i \notin S THEN sessions[i]
        ELSE [open |-> FALSE, device |-> NoDevice, password |-> 0, from |-> sessions[i].from]]

\* Mutant: deleteMany instead of delete, which does not mind a missing row.
DeletedOrMissing(i) == TRUE

\* session.delete throws when the row is gone (P2025).
Deleted(i) == sessions[i].open

ConsumeSession(c) ==
    /\ At(c, "consume")
    /\ sessions' = Closed({call[c].row})
    /\ IF Deleted(call[c].row) THEN Go(c, "session") ELSE End(c)
    /\ UNCHANGED <<account, usable, revoked, challenged>>

DropSession(c) ==
    /\ At(c, "drop")
    /\ sessions' = Closed({call[c].row})
    /\ End(c)
    /\ UNCHANGED <<account, usable, revoked, challenged>>

\* changePassword checks the current password of the authenticated user.
ChangePassword(c) ==
    /\ account.status = "ACTIVE"
    /\ Start(c, "password", "PASSWORD_RESET")
    /\ UNCHANGED <<account, usable, sessions, revoked, challenged>>

\* changePassword and resetPassword write the hash, then delete the sessions.
SetPassword(c) ==
    /\ At(c, "password")
    /\ IF Exists
       THEN /\ account.password < MaxPasswords
            /\ account' = [account EXCEPT !.password = @ + 1]
            /\ call' = [call EXCEPT ![c].pc = "revoke", ![c].password = account.password + 1]
       ELSE End(c) /\ UNCHANGED account
    /\ UNCHANGED <<usable, sessions, revoked, challenged>>

\* Mutant: the sessions bound to a device are forgotten.
SessionsWithoutDevice == {i \in DOMAIN sessions : sessions[i].device = NoDevice}

SessionsOfUser == DOMAIN sessions

RevokeSessions(c) ==
    /\ At(c, "revoke")
    /\ sessions' = Closed(SessionsOfUser)
    /\ revoked' = Max({revoked, call[c].password})
    /\ End(c)
    /\ UNCHANGED <<account, usable, challenged>>
-----------------------------------------------------------------------------
(* Administration, cleanup of pending users, time and failures             *)

\* updateUserStatus and verifyUser write the status whatever it was.
SetStatus(status) ==
    /\ Exists
    /\ account' = [account EXCEPT !.status = status]
    /\ UNCHANGED <<usable, sessions, call, revoked, challenged>>

\* The job reads the ids of the PENDING users, then deletes codes and users.
\* A call about to consume a deleted code throws (P2025).
FindPendingUser(c) ==
    /\ account.status = "PENDING"
    /\ Start(c, "deleteCodes", "EMAIL_VERIFICATION")
    /\ UNCHANGED <<account, usable, sessions, revoked, challenged>>

DeleteCodes(c) ==
    /\ At(c, "deleteCodes")
    /\ usable' = {}
    /\ call' = [k \in Calls |-> IF k = c THEN [call[k] EXCEPT !.pc = "deleteUser"]
                                ELSE IF At(k, "accept") THEN Idle ELSE call[k]]
    /\ UNCHANGED <<account, sessions, revoked, challenged>>

DeleteUser(c) ==
    /\ At(c, "deleteUser")
    /\ account' = [account EXCEPT !.status = "deleted"]
    /\ sessions' = Closed(DOMAIN sessions)
    /\ End(c)
    /\ UNCHANGED <<usable, revoked, challenged>>

LockElapses ==
    /\ account.locked
    /\ account' = [account EXCEPT !.locked = FALSE]
    /\ UNCHANGED <<usable, sessions, call, revoked, challenged>>

\* The server dies, a statement throws, the new password is too weak, or the
\* failures counted are too few.
Interrupt(c) ==
    /\ ~At(c, "idle")
    /\ End(c)
    /\ UNCHANGED <<account, usable, sessions, revoked, challenged>>

CallStep(c) ==
    \/ InvalidateCodes(c) \/ CreateCode(c) \/ ConsumeCode(c)
    \/ InsertUser(c) \/ UpdateUser(c)
    \/ ReadUser(c) \/ Activate(c) \/ CreateSession(c) \/ SuspendAfterFailures(c)
    \/ CheckDevice(c) \/ ConsumeSession(c) \/ DropSession(c)
    \/ SetPassword(c) \/ RevokeSessions(c) \/ DeleteCodes(c) \/ DeleteUser(c)

Next ==
    \/ \E c \in Calls :
        \/ CallStep(c) \/ Interrupt(c)
        \/ Register(c) \/ ResendOtp(c) \/ ForgotPassword(c)
        \/ VerifyEmailOtp(c) \/ VerifyLoginOtp(c) \/ ResetPassword(c)
        \/ LoginFails(c) \/ ChangePassword(c) \/ FindPendingUser(c)
        \/ \E d \in Devices : Login(c, d)
        \/ \E i \in DOMAIN sessions : Refresh(c, i) \/ Logout(c, i)
    \/ \E t \in usable : LoseCode(t)
    \/ \E status \in {"ACTIVE", "SUSPENDED", "PENDING"} : SetStatus(status)
    \/ LockElapses

Spec == Init /\ [][Next]_vars
-----------------------------------------------------------------------------
\* Each session row is replaced by at most one other, however often its refresh
\* token is presented at once (AuthService.refresh): the delete decides.
ReplacedOnce ==
    \A i \in DOMAIN sessions :
        Cardinality({j \in DOMAIN sessions : sessions[j].from = i})
          + Cardinality({c \in Calls : At(c, "session") /\ call[c].row = i}) <= 1

\* After a password change deleted all sessions, sessions opened under an older
\* password come only from the calls that were in flight, one from each: they
\* do not multiply (resetPassword, changePassword against login and refresh).
StaleSessionsBounded ==
    Cardinality({i \in DOMAIN sessions : sessions[i].open /\ sessions[i].password < revoked})
      + Cardinality({c \in Calls : /\ call[c].pc \in {"activate", "session", "device"}
                                   /\ call[c].password < revoked})
        < Cardinality(Calls)

\* A session carries a device only if a login challenge was answered from that
\* device: login trusts no device it did not challenge, whatever was refreshed,
\* deleted or reset in between (login, verifyLoginOtp).
KnownDeviceWasChallenged ==
    \A i \in DOMAIN sessions : sessions[i].device \in challenged \cup {NoDevice}

\* The following are not true of the code; the README names the configuration
\* that shows each of them violated.

\* The cleanup of PENDING users deletes no account that was verified.
CleanupKeepsVerified == [][account'.status = "deleted" => account.status \in {"PENDING", "deleted"}]_vars

\* A repeated registration changes the password of a PENDING account only.
RegistrationKeepsActive ==
    [][\A c \in Calls : UpdateUser(c) => account.status \in {"PENDING", "deleted"}]_vars
=============================================================================
