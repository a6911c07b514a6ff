--------------------------- MODULE IdentityProofs ---------------------------
(***************************************************************************)
(* Proofs about Accounts, for any number of devices and of calls at once,  *)
(* and about OneTimeCodes, for any finite number of requests at once and   *)
(* any limit of guesses.                                                   *)
(***************************************************************************)
EXTENDS Accounts, OneTimeCodes, TLAPS, FiniteSetTheorems, SequenceTheorems, FunctionTheorems,
        WellFoundedInduction

(* Accounts                                                                *)

SessionRecords ==
    [open : BOOLEAN, device : Devices \cup {NoDevice}, password : 0..MaxPasswords, from : 0..MaxSessions]

CallRecords ==
    [pc : Steps, type : Types, device : Devices \cup {NoDevice}, row : 0..MaxSessions, password : 0..MaxPasswords]

\* A row is remembered by those about to delete it, and by the one that did.
RowsNamed ==
    /\ \A i \in DOMAIN sessions : sessions[i].from \in 0..Len(sessions)
    /\ \A c \in Calls :
        /\ call[c].row # 0 => call[c].pc \in {"consume", "drop", "session"} /\ call[c].row \in DOMAIN sessions
        /\ call[c].pc \in {"consume", "drop"} => call[c].row # 0

\* Who replaces a row, or has replaced it, did so alone, and the row is deleted.
ReplacedAlone ==
    /\ \A i, j \in DOMAIN sessions : sessions[i].from # 0 /\ sessions[i].from = sessions[j].from => i = j
    /\ \A c, k \in Calls :
           At(c, "session") /\ At(k, "session") /\ call[c].row # 0 /\ call[c].row = call[k].row => c = k
    /\ \A i \in DOMAIN sessions, c \in Calls :
           At(c, "session") /\ call[c].row # 0 => sessions[i].from # call[c].row
    /\ \A i \in DOMAIN sessions : sessions[i].open =>
           /\ \A j \in DOMAIN sessions : sessions[j].from # i
           /\ \A c \in Calls : At(c, "session") => call[c].row # i

\* Where a call has a device that its session will carry, it was challenged.
CarriesKnown(c) ==
    /\ call[c].pc \in {"user", "activate", "session"} => call[c].device \in challenged \cup {NoDevice}
    /\ At(c, "accept") => call[c].device \in (IF call[c].type = "LOGIN_CHALLENGE" THEN Devices ELSE {NoDevice})
    /\ At(c, "consume") => call[c].device = NoDevice

DevicesInv == KnownDeviceWasChallenged /\ \A c \in Calls : CarriesKnown(c)

\* No password is newer than the account's, and a refresh goes on under the
\* password of the session it replaces.
PasswordsKnown ==
    /\ account.status = "none" => account.password = 0
    /\ revoked <= account.password
    /\ \A c \in Calls :
        /\ At(c, "revoke") => call[c].password <= account.password
        /\ At(c, "consume") /\ sessions[call[c].row].open => call[c].password = sessions[call[c].row].password

AccountsInv == TypeOK /\ RowsNamed /\ ReplacedAlone /\ DevicesInv /\ PasswordsKnown /\ StaleSessionsBounded

LEMMA Typed ==
    ASSUME TypeOK
    PROVE  /\ account.status \in Statuses /\ account.locked \in BOOLEAN /\ account.password \in 0..MaxPasswords
           /\ sessions \in Seq(SessionRecords) /\ Len(sessions) \in Nat /\ DOMAIN sessions = 1..Len(sessions)
           /\ \A i \in DOMAIN sessions : sessions[i] \in SessionRecords
           /\ call \in [Calls -> CallRecords] /\ \A c \in Calls : call[c] \in CallRecords
           /\ MaxPasswords \in Nat /\ MaxSessions \in Nat /\ revoked \in 0..MaxPasswords
<1>1. sessions \in Seq(SessionRecords) /\ call \in [Calls -> CallRecords]
  BY DEF TypeOK, SessionRecords, CallRecords
<1> QED BY <1>1, AccountsAssumption DEF TypeOK

\* Only one call moves, to where the fields say.
Stands(c, pc, type, device, row, password) ==
    /\ call' \in [Calls -> CallRecords]
    /\ \A k \in Calls \ {c} : call'[k] = call[k]
    /\ call'[c].pc = pc /\ call'[c].type = type /\ call'[c].device = device
    /\ call'[c].row = row /\ call'[c].password = password

LEMMA Standing ==
    ASSUME TypeOK, NEW c \in Calls, NEW r \in CallRecords, call' = [call EXCEPT ![c] = r]
    PROVE  Stands(c, r.pc, r.type, r.device, r.row, r.password)
<1>1. call \in [Calls -> CallRecords]
  BY Typed
<1> QED BY <1>1 DEF Stands

LEMMA IdleTyped ==
    /\ Idle \in CallRecords
    /\ Idle.pc = "idle" /\ Idle.type = "EMAIL_VERIFICATION" /\ Idle.device = NoDevice
    /\ Idle.row = 0 /\ Idle.password = 0
BY AccountsAssumption DEF Idle, CallRecords, Steps, Types

LEMMA Ending ==
    ASSUME TypeOK, NEW c \in Calls, End(c)
    PROVE  Stands(c, "idle", "EMAIL_VERIFICATION", NoDevice, 0, 0)
<1>1. call' = [call EXCEPT ![c] = Idle]
  BY DEF End
<1> QED BY <1>1, IdleTyped, Standing

LEMMA Going ==
    ASSUME TypeOK, NEW c \in Calls, NEW step \in Steps, Go(c, step)
    PROVE  Stands(c, step, call[c].type, call[c].device, call[c].row, call[c].password)
<1> DEFINE r == [call[c] EXCEPT !.pc = step]
<1>1. call[c] \in CallRecords /\ call \in [Calls -> CallRecords]
  BY Typed
<1>2. /\ r \in CallRecords /\ r.pc = step /\ r.type = call[c].type /\ r.device = call[c].device
      /\ r.row = call[c].row /\ r.password = call[c].password
  BY <1>1 DEF CallRecords
<1>3. call' = [call EXCEPT ![c] = r]
  BY <1>1 DEF Go
<1> HIDE DEF r
<1> QED BY <1>2, <1>3, Standing

LEMMA GoingWith ==
    ASSUME TypeOK, NEW c \in Calls, NEW step \in Steps, NEW password \in 0..MaxPasswords,
           call' = [call EXCEPT ![c].pc = step, ![c].password = password]
    PROVE  Stands(c, step, call[c].type, call[c].device, call[c].row, password)
<1> DEFINE r == [call[c] EXCEPT !.pc = step, !.password = password]
<1>1. call[c] \in CallRecords /\ call \in [Calls -> CallRecords]
  BY Typed
<1>2. /\ r \in CallRecords /\ r.pc = step /\ r.type = call[c].type /\ r.device = call[c].device
      /\ r.row = call[c].row /\ r.password = password
  BY <1>1 DEF CallRecords
<1>3. call' = [call EXCEPT ![c] = r]
  BY <1>1
<1> HIDE DEF r
<1> QED BY <1>2, <1>3, Standing

\* A call that begins: what it has read of the request and of the rows.
LEMMA Beginning ==
    ASSUME TypeOK, NEW c \in Calls, NEW step \in Steps, NEW type \in Types, NEW device \in Devices \cup {NoDevice},
           NEW row \in 0..MaxSessions, NEW password \in 0..MaxPasswords
    PROVE  /\ Start(c, step, type) => At(c, "idle") /\ Stands(c, step, type, NoDevice, 0, 0)
           /\ call' = [call EXCEPT ![c] = [Idle EXCEPT !.pc = step, !.type = type, !.device = device]]
                  => Stands(c, step, type, device, 0, 0)
           /\ call' = [call EXCEPT ![c] = [Idle EXCEPT !.pc = step, !.type = type]]
                  => Stands(c, step, type, NoDevice, 0, 0)
           /\ call' = [call EXCEPT ![c] = [Idle EXCEPT !.pc = step, !.type = type, !.device = device,
                                                       !.password = password]]
                  => Stands(c, step, type, device, 0, password)
           /\ call' = [call EXCEPT ![c] = [Idle EXCEPT !.pc = step, !.row = row, !.password = password]]
                  => Stands(c, step, "EMAIL_VERIFICATION", NoDevice, row, password)
           /\ call' = [call EXCEPT ![c] = [Idle EXCEPT !.pc = step, !.row = row]]
                  => Stands(c, step, "EMAIL_VERIFICATION", NoDevice, row, 0)
<1> DEFINE r1 == [Idle EXCEPT !.pc = step, !.type = type]
           r2 == [Idle EXCEPT !.pc = step, !.type = type, !.device = device]
           r3 == [Idle EXCEPT !.pc = step, !.type = type, !.device = device, !.password = password]
           r4 == [Idle EXCEPT !.pc = step, !.row = row, !.password = password]
           r5 == [Idle EXCEPT !.pc = step, !.row = row]
<1>1. /\ r1 \in CallRecords /\ r1.pc = step /\ r1.type = type /\ r1.device = NoDevice /\ r1.row = 0 /\ r1.password = 0
  BY IdleTyped DEF CallRecords
<1>2. /\ r2 \in CallRecords /\ r2.pc = step /\ r2.type = type /\ r2.device = device /\ r2.row = 0 /\ r2.password = 0
  BY IdleTyped DEF CallRecords
<1>3. /\ r3 \in CallRecords /\ r3.pc = step /\ r3.type = type /\ r3.device = device /\ r3.row = 0
      /\ r3.password = password
  BY IdleTyped DEF CallRecords
<1>4. /\ r4 \in CallRecords /\ r4.pc = step /\ r4.type = "EMAIL_VERIFICATION" /\ r4.device = NoDevice
      /\ r4.row = row /\ r4.password = password
  BY IdleTyped DEF CallRecords
<1>5. /\ r5 \in CallRecords /\ r5.pc = step /\ r5.type = "EMAIL_VERIFICATION" /\ r5.device = NoDevice
      /\ r5.row = row /\ r5.password = 0
  BY IdleTyped DEF CallRecords
<1>6. Start(c, step, type) => At(c, "idle") /\ call' = [call EXCEPT ![c] = r1]
  BY DEF Start
<1> HIDE DEF r1, r2, r3, r4, r5
<1>7. Start(c, step, type) => At(c, "idle") /\ Stands(c, step, type, NoDevice, 0, 0)
  BY <1>1, <1>6, Standing
<1>8. call' = [call EXCEPT ![c] = r2] => Stands(c, step, type, device, 0, 0)
  BY <1>2, Standing
<1>9. call' = [call EXCEPT ![c] = r1] => Stands(c, step, type, NoDevice, 0, 0)
  BY <1>1, Standing
<1>10. call' = [call EXCEPT ![c] = r3] => Stands(c, step, type, device, 0, password)
  BY <1>3, Standing
<1>11. call' = [call EXCEPT ![c] = r4] => Stands(c, step, "EMAIL_VERIFICATION", NoDevice, row, password)
  BY <1>4, Standing
<1>12. call' = [call EXCEPT ![c] = r5] => Stands(c, step, "EMAIL_VERIFICATION", NoDevice, row, 0)
  BY <1>5, Standing
<1> QED BY <1>7, <1>8, <1>9, <1>10, <1>11, <1>12 DEF r1, r2, r3, r4, r5

\* Rows that are deleted keep only what they replaced.
Closes(S) ==
    /\ sessions' \in Seq(SessionRecords) /\ Len(sessions') = Len(sessions) /\ DOMAIN sessions' = DOMAIN sessions
    /\ \A i \in DOMAIN sessions \ S : sessions'[i] = sessions[i]
    /\ \A i \in S : /\ ~sessions'[i].open /\ sessions'[i].device = NoDevice
                    /\ sessions'[i].from = sessions[i].from

LEMMA Closing ==
    ASSUME TypeOK, NEW S \in SUBSET DOMAIN sessions, sessions' = Closed(S)
    PROVE  Closes(S)
<1> DEFINE gone(i) == [open |-> FALSE, device |-> NoDevice, password |-> 0, from |-> sessions[i].from]
<1>1. \A i \in DOMAIN sessions : gone(i) \in SessionRecords
  BY Typed DEF SessionRecords
<1>2. /\ DOMAIN sessions' = 1..Len(sessions)
      /\ \A i \in DOMAIN sessions : sessions'[i] = IF i \notin S THEN sessions[i] ELSE gone(i)
      /\ sessions' = [i \in 1..Len(sessions) |-> IF i \notin S THEN sessions[i] ELSE gone(i)]
  BY Typed DEF Closed
<1> HIDE DEF gone
<1>3. sessions' \in [1..Len(sessions) -> SessionRecords]
  BY <1>1, <1>2, Typed
<1>4. sessions' \in Seq(SessionRecords) /\ Len(sessions') = Len(sessions)
  BY <1>2, <1>3, Typed
<1> QED BY <1>2, <1>4, Typed DEF Closes, gone

\* The types, where the account, the calls and the rows are what they can be.
LEMMA AccountTypes ==
    ASSUME TypeOK, account' \in [status : Statuses, locked : BOOLEAN, password : 0..MaxPasswords],
           usable' \subseteq Types, sessions' \in Seq(SessionRecords), Len(sessions') <= MaxSessions,
           call' \in [Calls -> CallRecords], revoked' \in 0..MaxPasswords, challenged' \subseteq Devices
    PROVE  TypeOK'
BY DEF TypeOK, SessionRecords, CallRecords

StaleRows  == {i \in DOMAIN sessions : sessions[i].open /\ sessions[i].password < revoked}
StaleCalls == {c \in Calls : call[c].pc \in {"activate", "session", "device"} /\ call[c].password < revoked}

LEMMA StaleCounts ==
    ASSUME TypeOK
    PROVE  /\ IsFiniteSet(StaleRows) /\ IsFiniteSet(StaleCalls) /\ IsFiniteSet(Calls)
           /\ Cardinality(StaleRows) \in Nat /\ Cardinality(StaleCalls) \in Nat
           /\ Cardinality(Calls) \in Nat \ {0}
           /\ (StaleSessionsBounded <=> Cardinality(StaleRows) + Cardinality(StaleCalls) < Cardinality(Calls))
<1>1. IsFiniteSet(DOMAIN sessions)
  BY Typed, FS_Interval
<1>2. IsFiniteSet(StaleRows) /\ IsFiniteSet(StaleCalls) /\ IsFiniteSet(Calls)
  BY <1>1, AccountsAssumption, FS_Subset DEF StaleRows, StaleCalls
<1>3. Cardinality(Calls) # 0
  BY <1>2, AccountsAssumption, FS_EmptySet
<1> QED BY <1>2, <1>3, FS_CardinalityType DEF StaleSessionsBounded, StaleRows, StaleCalls

\* What a step may do to a call without making more of the rows or passwords it
\* knows: it waits, forgets, has just read, or goes on with what it knew.
Harmless(k) ==
    \/ call'[k] = call[k]
    \/ /\ \/ call'[k].row = 0
          \/ call'[k].pc \in {"consume", "drop"} /\ call'[k].row \in DOMAIN sessions
       /\ CarriesKnown(k)'
       /\ call'[k].pc = "revoke" => call'[k].password <= account'.password
       /\ call'[k].pc \in {"consume", "drop"} => call'[k].row # 0
       /\ call'[k].pc = "consume" =>
              /\ sessions' = sessions
              /\ call'[k].password = sessions[call'[k].row].password
       /\ call'[k].pc \in {"activate", "session", "device"} =>
              \/ call'[k].password >= revoked
              \/ call[k].pc \in {"activate", "session", "device"} /\ call'[k].password = call[k].password

LEMMA Quiet ==
    ASSUME AccountsInv, TypeOK', NEW S \in SUBSET DOMAIN sessions, Closes(S) \/ sessions' = sessions,
           \A k \in Calls : Harmless(k),
           account.password <= account'.password, account'.status = "none" => account'.password = 0,
           revoked' = revoked, challenged \subseteq challenged'
    PROVE  AccountsInv'
<1> USE DEF AccountsInv
<1>r. /\ DOMAIN sessions' = DOMAIN sessions /\ Len(sessions') = Len(sessions)
      /\ \A i \in DOMAIN sessions : \/ sessions'[i] = sessions[i]
                                    \/ ~sessions'[i].open /\ sessions'[i].device = NoDevice
      /\ \A i \in DOMAIN sessions : sessions'[i].from = sessions[i].from
      /\ \A i \in DOMAIN sessions : sessions'[i].open => sessions'[i] = sessions[i]
  BY DEF Closes
<1>1. RowsNamed'
  <2>1. ASSUME NEW k \in Calls, call'[k].row # 0
        PROVE  call'[k].pc \in {"consume", "drop", "session"} /\ call'[k].row \in DOMAIN sessions
    BY <2>1 DEF Harmless, RowsNamed
  <2>2. ASSUME NEW k \in Calls, call'[k].pc \in {"consume", "drop"}
        PROVE  call'[k].row # 0
    BY <2>2 DEF Harmless, RowsNamed
  <2> QED BY <2>1, <2>2, <1>r DEF RowsNamed
<1>2. \A k \in Calls : call'[k].pc = "session" /\ call'[k].row # 0 => call'[k] = call[k]
  BY DEF Harmless
<1>3. ReplacedAlone'
  <2>1. \A i, j \in DOMAIN sessions' : sessions'[i].from # 0 /\ sessions'[i].from = sessions'[j].from => i = j
    BY <1>r DEF ReplacedAlone
  <2>2. \A c, k \in Calls :
           call'[c].pc = "session" /\ call'[k].pc = "session" /\ call'[c].row # 0
           /\ call'[c].row = call'[k].row => c = k
    BY <1>2 DEF ReplacedAlone, At
  <2>3. \A i \in DOMAIN sessions', c \in Calls :
           call'[c].pc = "session" /\ call'[c].row # 0 => sessions'[i].from # call'[c].row
    BY <1>2, <1>r DEF ReplacedAlone, At
  <2>4. ASSUME NEW i \in DOMAIN sessions', sessions'[i].open
        PROVE  /\ \A j \in DOMAIN sessions' : sessions'[j].from # i
               /\ \A c \in Calls : call'[c].pc = "session" => call'[c].row # i
    <3>1. i \in DOMAIN sessions /\ sessions[i].open /\ i # 0
      BY <2>4, <1>r, Typed
    <3> QED BY <3>1, <1>2, <1>r DEF ReplacedAlone, At
  <2> QED BY <2>1, <2>2, <2>3, <2>4 DEF ReplacedAlone, At
<1>4. DevicesInv'
  <2>1. KnownDeviceWasChallenged'
    BY <1>r DEF DevicesInv, KnownDeviceWasChallenged
  <2>2. \A k \in Calls : CarriesKnown(k)'
    BY DEF DevicesInv, Harmless, CarriesKnown, At
  <2> QED BY <2>1, <2>2 DEF DevicesInv
<1>n. account.password \in Nat /\ account'.password \in Nat /\ revoked \in Nat
  BY Typed, AccountsAssumption DEF TypeOK
<1>5. PasswordsKnown'
  <2>1. account'.status = "none" => account'.password = 0
    OBVIOUS
  <2>2. revoked' <= account'.password
    BY <1>n DEF PasswordsKnown
  <2>3. ASSUME NEW c \in Calls, call'[c].pc = "revoke"
        PROVE  call'[c].password <= account'.password
    <3>1. CASE call'[c] = call[c]
      <4>1. call[c].password \in Nat /\ call[c].password <= account.password
        BY <2>3, <3>1, Typed, AccountsAssumption DEF PasswordsKnown, At, CallRecords
      <4> QED BY <3>1, <4>1, <1>n
    <3> QED BY <3>1, <2>3 DEF Harmless
  <2>4. ASSUME NEW c \in Calls, call'[c].pc = "consume"
        PROVE  sessions'[call'[c].row].open => call'[c].password = sessions'[call'[c].row].password
    <3>1. CASE call'[c] = call[c]
      <4>1. call[c].row # 0 /\ call[c].row \in DOMAIN sessions
        BY <2>4, <3>1 DEF RowsNamed
      <4> QED BY <2>4, <3>1, <4>1, <1>r DEF PasswordsKnown, At
    <3>2. CASE call'[c] # call[c]
      <4>1. sessions' = sessions /\ call'[c].password = sessions[call'[c].row].password
        BY <2>4, <3>2 DEF Harmless
      <4> QED BY <4>1
    <3> QED BY <3>1, <3>2
  <2> QED BY <2>1, <2>2, <2>3, <2>4 DEF PasswordsKnown, At
<1>6. StaleSessionsBounded'
  <2>1. StaleRows' \subseteq StaleRows
    BY <1>r DEF StaleRows
  <2>2. StaleCalls' \subseteq StaleCalls
    <3> SUFFICES ASSUME NEW c \in Calls, call'[c].pc \in {"activate", "session", "device"},
                        call'[c].password < revoked
                 PROVE  call[c].pc \in {"activate", "session", "device"} /\ call[c].password < revoked
      BY DEF StaleCalls
    <3>1. call'[c].password \in Nat
      BY AccountsAssumption DEF TypeOK
    <3> QED BY <3>1, <1>n DEF Harmless
  <2>3. Cardinality(StaleRows') <= Cardinality(StaleRows) /\ Cardinality(StaleCalls') <= Cardinality(StaleCalls)
    BY <2>1, <2>2, StaleCounts, FS_Subset
  <2>4. /\ Cardinality(StaleRows') \in Nat /\ Cardinality(StaleCalls') \in Nat
        /\ (StaleSessionsBounded' <=> Cardinality(StaleRows') + Cardinality(StaleCalls') < Cardinality(Calls))
    <3> DEFINE rows == StaleRows'
               calls == StaleCalls'
    <3>1. IsFiniteSet(rows) /\ IsFiniteSet(calls)
      BY <2>1, <2>2, StaleCounts, FS_Subset
    <3>2. Cardinality(rows) \in Nat /\ Cardinality(calls) \in Nat
      BY <3>1, FS_CardinalityType
    <3> QED BY <3>2 DEF StaleSessionsBounded, StaleRows, StaleCalls
  <2> QED BY <2>3, <2>4, StaleCounts
<1> QED BY <1>1, <1>3, <1>4, <1>5, <1>6

LEMMA StaleCountsNext ==
    ASSUME TypeOK'
    PROVE  /\ IsFiniteSet(StaleRows') /\ IsFiniteSet(StaleCalls')
           /\ Cardinality(StaleRows') \in Nat /\ Cardinality(StaleCalls') \in Nat
           /\ (StaleSessionsBounded' <=> Cardinality(StaleRows') + Cardinality(StaleCalls') < Cardinality(Calls))
<1> DEFINE rows == StaleRows'
           calls == StaleCalls'
<1>1. DOMAIN sessions' = 1..Len(sessions') /\ Len(sessions') \in Nat
  BY DEF TypeOK
<1>2. IsFiniteSet(DOMAIN sessions')
  BY <1>1, FS_Interval
<1>3. IsFiniteSet(rows) /\ IsFiniteSet(calls)
  BY <1>2, AccountsAssumption, FS_Subset DEF StaleRows, StaleCalls
<1>4. Cardinality(rows) \in Nat /\ Cardinality(calls) \in Nat
  BY <1>3, FS_CardinalityType
<1> QED BY <1>3, <1>4 DEF StaleSessionsBounded, StaleRows, StaleCalls

\* One call moves; the rows stay.
LEMMA QuietTurn ==
    ASSUME AccountsInv, NEW c \in Calls,
           call' \in [Calls -> CallRecords], \A k \in Calls \ {c} : call'[k] = call[k],
           sessions' = sessions, revoked' = revoked,
           account' \in [status : Statuses, locked : BOOLEAN, password : 0..MaxPasswords],
           usable' \subseteq Types, challenged \subseteq challenged', challenged' \subseteq Devices,
           account.password <= account'.password, account'.status = "none" => account'.password = 0,
           call'[c].row = 0 \/ (call'[c].pc \in {"consume", "drop"} /\ call'[c].row \in DOMAIN sessions),
           CarriesKnown(c)',
           call'[c].pc \in {"consume", "drop"} => call'[c].row # 0,
           call'[c].pc = "consume" => call'[c].password = sessions[call'[c].row].password,
           call'[c].pc = "revoke" => call'[c].password <= account'.password,
           call'[c].pc \in {"activate", "session", "device"} =>
               \/ call'[c].password >= revoked
               \/ call[c].pc \in {"activate", "session", "device"} /\ call'[c].password = call[c].password
    PROVE  AccountsInv'
<1>1. TypeOK'
  BY AccountTypes, Typed DEF AccountsInv, TypeOK
<1>2. ASSUME NEW k \in Calls
      PROVE  Harmless(k)
  <2>1. CASE k # c
    BY <2>1 DEF Harmless
  <2>2. CASE k = c
    BY <2>2 DEF Harmless
  <2> QED BY <2>1, <2>2
<1>3. {} \in SUBSET DOMAIN sessions
  OBVIOUS
<1> QED BY <1>1, <1>2, <1>3, Quiet

\* Only the account or the codes change.
LEMMA QuietAccount ==
    ASSUME AccountsInv, UNCHANGED <<sessions, call, revoked, challenged>>, usable' \subseteq Types,
           account' \in [status : Statuses, locked : BOOLEAN, password : 0..MaxPasswords],
           account.password = account'.password, account'.status = "none" => account'.password = 0
    PROVE  AccountsInv'
<1>1. TypeOK'
  BY AccountTypes, Typed DEF AccountsInv, TypeOK
<1>2. {} \in SUBSET DOMAIN sessions /\ \A k \in Calls : Harmless(k)
  BY DEF Harmless
<1>3. account.password <= account'.password
  BY Typed, AccountsAssumption DEF AccountsInv
<1> QED BY <1>1, <1>2, <1>3, Quiet

\* A call that ends changes nothing else it stands for.
LEMMA QuietEnd ==
    ASSUME AccountsInv, NEW c \in Calls, End(c), UNCHANGED <<sessions, revoked, challenged>>,
           usable' \subseteq Types,
           account' \in [status : Statuses, locked : BOOLEAN, password : 0..MaxPasswords],
           account.password <= account'.password, account'.status = "none" => account'.password = 0
    PROVE  AccountsInv'
<1>1. Stands(c, "idle", "EMAIL_VERIFICATION", NoDevice, 0, 0) /\ challenged' \subseteq Devices
  BY Ending DEF AccountsInv, TypeOK
<1> QED BY <1>1, QuietTurn DEF Stands, CarriesKnown, At

\* One call goes on; only the account or the codes change.
LEMMA QuietGo ==
    ASSUME AccountsInv, NEW c \in Calls, NEW step \in Steps, Go(c, step), UNCHANGED <<sessions, revoked, challenged>>,
           usable' \subseteq Types,
           account' \in [status : Statuses, locked : BOOLEAN, password : 0..MaxPasswords],
           account.password <= account'.password, account'.status = "none" => account'.password = 0,
           call[c].pc \notin {"consume", "drop", "session"},
           \/ step \notin {"user", "activate", "session", "accept", "consume", "drop", "revoke", "device"}
           \/ step = "session" /\ call[c].pc = "activate"
    PROVE  AccountsInv'
<1>1. Stands(c, step, call[c].type, call[c].device, call[c].row, call[c].password) /\ challenged' \subseteq Devices
  BY Going DEF AccountsInv, TypeOK
<1>2. call[c].row = 0 /\ CarriesKnown(c)
  BY DEF AccountsInv, RowsNamed, DevicesInv
<1>3. CarriesKnown(c)'
  BY <1>1, <1>2 DEF Stands, CarriesKnown, At
<1> QED BY <1>1, <1>2, <1>3, QuietTurn DEF Stands

\* A call begins; only it changes.
LEMMA QuietStart ==
    ASSUME AccountsInv, NEW c \in Calls, NEW step \in Steps, NEW type \in Types, Start(c, step, type),
           UNCHANGED <<account, usable, sessions, revoked, challenged>>,
           step \notin {"accept", "user", "activate", "session", "consume", "drop", "revoke", "device"}
    PROVE  AccountsInv'
<1>1. NoDevice \in Devices \cup {NoDevice} /\ 0 \in 0..MaxSessions /\ 0 \in 0..MaxPasswords
  BY AccountsAssumption
<1>2. Stands(c, step, type, NoDevice, 0, 0)
  BY <1>1, Beginning DEF AccountsInv
<1>3. account.password <= account'.password /\ (account'.status = "none" => account'.password = 0)
      /\ account' \in [status : Statuses, locked : BOOLEAN, password : 0..MaxPasswords]
      /\ usable' \subseteq Types /\ challenged' \subseteq Devices
  BY Typed, AccountsAssumption DEF AccountsInv, PasswordsKnown, TypeOK
<1> QED BY <1>2, <1>3, QuietTurn DEF Stands, CarriesKnown, At

\* A call that ends deletes rows.
LEMMA QuietClose ==
    ASSUME AccountsInv, NEW c \in Calls, End(c), NEW S \in SUBSET DOMAIN sessions, sessions' = Closed(S),
           UNCHANGED <<usable, revoked, challenged>>,
           account' \in [status : Statuses, locked : BOOLEAN, password : 0..MaxPasswords],
           account'.password = account.password, account'.status = "none" => account'.password = 0
    PROVE  AccountsInv'
<1>1. Stands(c, "idle", "EMAIL_VERIFICATION", NoDevice, 0, 0)
  BY Ending DEF AccountsInv
<1>2. Closes(S)
  BY Closing DEF AccountsInv
<1>3. TypeOK'
  BY <1>1, <1>2, AccountTypes DEF AccountsInv, TypeOK, Stands, Closes
<1>4. ASSUME NEW k \in Calls
      PROVE  Harmless(k)
  <2>1. CASE k # c
    BY <1>1, <2>1 DEF Stands, Harmless
  <2>2. CASE k = c
    BY <1>1, <2>2 DEF Stands, Harmless, CarriesKnown, At
  <2> QED BY <2>1, <2>2
<1>5. account.password <= account'.password
  BY Typed, AccountsAssumption DEF AccountsInv
<1> QED BY <1>2, <1>3, <1>4, <1>5, Quiet

\* A row is opened: by a call that stood for it, and for the row it replaces.
LEMMA SessionOpened ==
    ASSUME AccountsInv, NEW c \in Calls, CreateSession(c), Exists
    PROVE  AccountsInv'
<1> DEFINE n == Len(sessions)
           new == [open |-> TRUE, device |-> call[c].device, password |-> call[c].password, from |-> call[c].row]
<1> USE DEF AccountsInv
<1>t. /\ sessions \in Seq(SessionRecords) /\ n \in Nat /\ DOMAIN sessions = 1..n
      /\ call[c] \in CallRecords /\ call[c].pc = "session" /\ call[c].row \in Nat /\ call[c].password \in Nat
  BY Typed DEF CreateSession, At, CallRecords
<1>n. /\ new \in SessionRecords /\ new.open /\ new.device = call[c].device /\ new.password = call[c].password
      /\ new.from = call[c].row
  BY <1>t DEF CallRecords, SessionRecords
<1>1. sessions' = Append(sessions, new) /\ n < MaxSessions
      /\ UNCHANGED <<account, usable, revoked, challenged>>
  BY DEF CreateSession
<1>2. Stands(c, "idle", "EMAIL_VERIFICATION", NoDevice, 0, 0)
  BY Ending DEF CreateSession
<1> HIDE DEF new
<1>3. /\ sessions' \in Seq(SessionRecords) /\ Len(sessions') = n + 1 /\ DOMAIN sessions' = 1..(n + 1)
      /\ \A i \in DOMAIN sessions : sessions'[i] = sessions[i] /\ i # n + 1 /\ i \in DOMAIN sessions'
      /\ sessions'[n + 1] = new /\ n + 1 \notin DOMAIN sessions
      /\ \A i \in DOMAIN sessions' : i \in DOMAIN sessions \/ i = n + 1
  BY <1>t, <1>n, <1>1
<1>4. TypeOK'
  <2>1. Len(sessions') <= MaxSessions
    BY <1>t, <1>1, <1>3, AccountsAssumption
  <2> QED BY <2>1, <1>1, <1>2, <1>3, AccountTypes DEF TypeOK, Stands
<1>5. /\ \A k \in Calls \ {c} : call'[k] = call[k]
      /\ call'[c].pc = "idle" /\ call'[c].row = 0
  BY <1>2 DEF Stands
<1>f. /\ call[c].row \in 0..n
      /\ \A i \in DOMAIN sessions : call[c].row # 0 => sessions[i].from # call[c].row
      /\ \A i \in DOMAIN sessions : sessions[i].from \in 0..n
  BY <1>t DEF RowsNamed, ReplacedAlone, At
<1>6. RowsNamed'
  <2>1. \A i \in DOMAIN sessions' : sessions'[i].from \in 0..(n + 1)
    BY <1>t, <1>n, <1>3, <1>f
  <2>2. \A k \in Calls : call'[k].row # 0 =>
            call'[k].pc \in {"consume", "drop", "session"} /\ call'[k].row \in DOMAIN sessions'
    BY <1>3, <1>5 DEF RowsNamed
  <2>3. \A k \in Calls : call'[k].pc \in {"consume", "drop"} => call'[k].row # 0
    BY <1>5 DEF RowsNamed
  <2> QED BY <2>1, <2>2, <2>3, <1>3 DEF RowsNamed
<1>s. \A k \in Calls : call'[k].pc = "session" => k # c /\ call'[k] = call[k]
  BY <1>5
<1>7. ReplacedAlone'
  <2>1. ASSUME NEW i \in DOMAIN sessions', NEW j \in DOMAIN sessions', sessions'[i].from # 0,
               sessions'[i].from = sessions'[j].from
        PROVE  i = j
    <3>1. CASE i \in DOMAIN sessions /\ j \in DOMAIN sessions
      BY <3>1, <2>1, <1>3 DEF ReplacedAlone
    <3>2. CASE i = n + 1 /\ j \in DOMAIN sessions
      BY <3>2, <2>1, <1>3, <1>n, <1>f
    <3>3. CASE j = n + 1 /\ i \in DOMAIN sessions
      BY <3>3, <2>1, <1>3, <1>n, <1>f
    <3> QED BY <3>1, <3>2, <3>3, <1>3
  <2>2. \A k, l \in Calls :
           call'[k].pc = "session" /\ call'[l].pc = "session" /\ call'[k].row # 0
           /\ call'[k].row = call'[l].row => k = l
    BY <1>s DEF ReplacedAlone, At
  <2>3. ASSUME NEW i \in DOMAIN sessions', NEW k \in Calls, call'[k].pc = "session", call'[k].row # 0
        PROVE  sessions'[i].from # call'[k].row
    <3>1. CASE i \in DOMAIN sessions
      BY <3>1, <2>3, <1>s, <1>3 DEF ReplacedAlone, At
    <3>2. CASE i = n + 1
      BY <3>2, <2>3, <1>s, <1>3, <1>n, <1>t DEF ReplacedAlone, At
    <3> QED BY <3>1, <3>2, <1>3
  <2>4. ASSUME NEW i \in DOMAIN sessions', sessions'[i].open
        PROVE  /\ \A j \in DOMAIN sessions' : sessions'[j].from # i
               /\ \A k \in Calls : call'[k].pc = "session" => call'[k].row # i
    <3>1. CASE i \in DOMAIN sessions
      <4>1. /\ \A j \in DOMAIN sessions : sessions[j].from # i
            /\ \A k \in Calls : call[k].pc = "session" => call[k].row # i
        BY <3>1, <2>4, <1>3 DEF ReplacedAlone, At
      <4> QED BY <4>1, <1>3, <1>n, <1>s, <1>t
    <3>2. CASE i = n + 1
      <4>1. \A j \in DOMAIN sessions' : sessions'[j].from \in 0..n
        BY <1>3, <1>n, <1>f
      <4>2. \A k \in Calls : call'[k].pc = "session" => call'[k].row \in 0..n
        BY <1>s, <1>t DEF RowsNamed
      <4> QED BY <3>2, <4>1, <4>2, <1>t
    <3> QED BY <3>1, <3>2, <1>3
  <2> QED BY <2>1, <2>2, <2>3, <2>4 DEF ReplacedAlone, At
<1>8. DevicesInv'
  <2>1. \A k \in Calls : CarriesKnown(k)'
    BY <1>1, <1>5 DEF DevicesInv, CarriesKnown, At
  <2>2. call[c].device \in challenged \cup {NoDevice}
    BY <1>t DEF DevicesInv, CarriesKnown
  <2>3. KnownDeviceWasChallenged'
    BY <2>2, <1>1, <1>3, <1>n DEF DevicesInv, KnownDeviceWasChallenged
  <2> QED BY <2>1, <2>3 DEF DevicesInv
<1>9. PasswordsKnown'
  <2>1. \A k \in Calls : call'[k].pc = "consume" =>
            (sessions'[call'[k].row].open => call'[k].password = sessions'[call'[k].row].password)
    <3>1. \A k \in Calls : call'[k].pc = "consume" => call'[k] = call[k] /\ call[k].row \in DOMAIN sessions
      BY <1>5 DEF RowsNamed
    <3> QED BY <3>1, <1>3 DEF PasswordsKnown, At
  <2> QED BY <2>1, <1>1, <1>5 DEF PasswordsKnown, At
<1>10. StaleSessionsBounded'
  <2>c. /\ IsFiniteSet(StaleRows) /\ IsFiniteSet(StaleCalls) /\ IsFiniteSet(StaleRows') /\ IsFiniteSet(StaleCalls')
        /\ Cardinality(StaleRows) \in Nat /\ Cardinality(StaleCalls) \in Nat /\ Cardinality(Calls) \in Nat
        /\ Cardinality(StaleRows') \in Nat /\ Cardinality(StaleCalls') \in Nat
        /\ Cardinality(StaleRows) + Cardinality(StaleCalls) < Cardinality(Calls)
    BY <1>4, StaleCounts, StaleCountsNext
  <2>1. CASE call[c].password < revoked
    <3>1. c \in StaleCalls /\ StaleCalls' = StaleCalls \ {c}
      BY <2>1, <1>t, <1>5, <1>1 DEF StaleCalls
    <3>2. StaleRows' = StaleRows \cup {n + 1} /\ n + 1 \notin StaleRows
      BY <2>1, <1>3, <1>n, <1>1 DEF StaleRows
    <3>3. /\ Cardinality(StaleRows') = Cardinality(StaleRows) + 1
          /\ Cardinality(StaleCalls') = Cardinality(StaleCalls) - 1
      BY <3>1, <3>2, <2>c, FS_AddElement, FS_RemoveElement
    <3> QED BY <3>3, <2>c, <1>4, StaleCountsNext
  <2>2. CASE ~(call[c].password < revoked)
    <3>1. StaleCalls' \subseteq StaleCalls
      BY <1>5, <1>1 DEF StaleCalls
    <3>2. StaleRows' \subseteq StaleRows
      BY <2>2, <1>3, <1>n, <1>1 DEF StaleRows
    <3>3. Cardinality(StaleRows') <= Cardinality(StaleRows) /\ Cardinality(StaleCalls') <= Cardinality(StaleCalls)
      BY <3>1, <3>2, <2>c, FS_Subset
    <3> QED BY <3>3, <2>c, <1>4, StaleCountsNext
  <2> QED BY <2>1, <2>2
<1> QED BY <1>4, <1>6, <1>7, <1>8, <1>9, <1>10

\* refresh has deleted its session and goes on under its password; it was the
\* only call that could, for the row was open.
LEMMA SessionConsumed ==
    ASSUME AccountsInv, NEW c \in Calls, ConsumeSession(c), Deleted(call[c].row)
    PROVE  AccountsInv'
<1> DEFINE i == call[c].row
<1> USE DEF AccountsInv
<1>t. /\ call[c] \in CallRecords /\ call[c].pc = "consume" /\ i \in DOMAIN sessions /\ sessions[i].open /\ i # 0
      /\ call[c].password = sessions[i].password /\ call[c].device = NoDevice
  BY Typed DEF ConsumeSession, At, RowsNamed, Deleted, PasswordsKnown, DevicesInv, CarriesKnown
<1>1. Stands(c, "session", call[c].type, NoDevice, i, call[c].password)
  <2>1. Go(c, "session") /\ "session" \in Steps
    BY DEF ConsumeSession, Steps
  <2> QED BY <2>1, <1>t, Going
<1>2. Closes({i}) /\ UNCHANGED <<account, usable, revoked, challenged>>
  BY <1>t, Closing DEF ConsumeSession
<1>3. TypeOK'
  BY <1>1, <1>2, AccountTypes DEF TypeOK, Stands, Closes
<1> HIDE DEF i
<1>5. /\ \A k \in Calls \ {c} : call'[k] = call[k]
      /\ call'[c].pc = "session" /\ call'[c].row = i /\ call'[c].device = NoDevice
      /\ call'[c].password = call[c].password
  BY <1>1 DEF Stands
<1>r. /\ DOMAIN sessions' = DOMAIN sessions /\ Len(sessions') = Len(sessions) /\ ~sessions'[i].open
      /\ \A j \in DOMAIN sessions : sessions'[j].from = sessions[j].from
      /\ \A j \in DOMAIN sessions : sessions'[j].open => j # i /\ sessions'[j] = sessions[j]
      /\ \A j \in DOMAIN sessions : sessions'[j].device \in {sessions[j].device, NoDevice}
  BY <1>2, <1>t DEF Closes
<1>a. /\ \A j \in DOMAIN sessions : sessions[j].from # i
      /\ \A k \in Calls : call[k].pc = "session" => call[k].row # i
  BY <1>t DEF ReplacedAlone, At
<1>6. RowsNamed'
  BY <1>5, <1>r, <1>t DEF RowsNamed
<1>7. ReplacedAlone'
  <2>1. \A j, l \in DOMAIN sessions' : sessions'[j].from # 0 /\ sessions'[j].from = sessions'[l].from => j = l
    BY <1>r DEF ReplacedAlone
  <2>2. ASSUME NEW k \in Calls, NEW l \in Calls, call'[k].pc = "session", call'[l].pc = "session",
               call'[k].row # 0, call'[k].row = call'[l].row
        PROVE  k = l
    <3>1. CASE k = c \/ l = c
      BY <3>1, <2>2, <1>5, <1>a
    <3>2. CASE k # c /\ l # c
      BY <3>2, <2>2, <1>5 DEF ReplacedAlone, At
    <3> QED BY <3>1, <3>2
  <2>3. ASSUME NEW j \in DOMAIN sessions', NEW k \in Calls, call'[k].pc = "session", call'[k].row # 0
        PROVE  sessions'[j].from # call'[k].row
    <3>1. CASE k = c
      BY <3>1, <1>5, <1>a, <1>r
    <3>2. CASE k # c
      BY <3>2, <2>3, <1>5, <1>r DEF ReplacedAlone, At
    <3> QED BY <3>1, <3>2
  <2>4. ASSUME NEW j \in DOMAIN sessions', sessions'[j].open
        PROVE  /\ \A l \in DOMAIN sessions' : sessions'[l].from # j
               /\ \A k \in Calls : call'[k].pc = "session" => call'[k].row # j
    <3>1. j \in DOMAIN sessions /\ j # i /\ sessions[j].open
      BY <2>4, <1>r
    <3>2. /\ \A l \in DOMAIN sessions : sessions[l].from # j
          /\ \A k \in Calls : call[k].pc = "session" => call[k].row # j
      BY <3>1 DEF ReplacedAlone, At
    <3> QED BY <3>1, <3>2, <1>5, <1>r
  <2> QED BY <2>1, <2>2, <2>3, <2>4 DEF ReplacedAlone, At
<1>8. DevicesInv'
  <2>1. \A k \in Calls : CarriesKnown(k)'
    BY <1>2, <1>5 DEF DevicesInv, CarriesKnown, At
  <2>2. KnownDeviceWasChallenged'
    BY <1>2, <1>r DEF DevicesInv, KnownDeviceWasChallenged
  <2> QED BY <2>1, <2>2 DEF DevicesInv
<1>9. PasswordsKnown'
  <2>1. \A k \in Calls : call'[k].pc = "consume" =>
            (sessions'[call'[k].row].open => call'[k].password = sessions'[call'[k].row].password)
    <3>1. \A k \in Calls : call'[k].pc = "consume" => call'[k] = call[k] /\ call[k].row \in DOMAIN sessions
      BY <1>5 DEF RowsNamed
    <3> QED BY <3>1, <1>r DEF PasswordsKnown, At
  <2> QED BY <2>1, <1>2, <1>5 DEF PasswordsKnown, At
<1>10. StaleSessionsBounded'
  <2>c. /\ IsFiniteSet(StaleRows) /\ IsFiniteSet(StaleCalls) /\ IsFiniteSet(StaleRows') /\ IsFiniteSet(StaleCalls')
        /\ Cardinality(StaleRows) \in Nat /\ Cardinality(StaleCalls) \in Nat /\ Cardinality(Calls) \in Nat
        /\ Cardinality(StaleRows') \in Nat /\ Cardinality(StaleCalls') \in Nat
        /\ Cardinality(StaleRows) + Cardinality(StaleCalls) < Cardinality(Calls)
    BY <1>3, StaleCounts, StaleCountsNext
  <2>r. StaleRows' \subseteq StaleRows \ {i}
    BY <1>2, <1>r DEF StaleRows
  <2>1. CASE call[c].password < revoked
    <3>1. i \in StaleRows
      BY <2>1, <1>t DEF StaleRows, i
    <3>2. StaleCalls' \subseteq StaleCalls \cup {c}
      BY <1>5, <1>2 DEF StaleCalls
    <3>3. c \notin StaleCalls
      BY <1>t DEF StaleCalls
    <3>4. /\ Cardinality(StaleRows \ {i}) = Cardinality(StaleRows) - 1 /\ IsFiniteSet(StaleRows \ {i})
          /\ Cardinality(StaleCalls \cup {c}) = Cardinality(StaleCalls) + 1 /\ IsFiniteSet(StaleCalls \cup {c})
      BY <3>1, <3>3, <2>c, FS_AddElement, FS_RemoveElement
    <3>5. /\ Cardinality(StaleRows') <= Cardinality(StaleRows \ {i})
          /\ Cardinality(StaleCalls') <= Cardinality(StaleCalls \cup {c})
      BY <3>2, <3>4, <2>r, FS_Subset
    <3> QED BY <3>4, <3>5, <2>c, <1>3, StaleCountsNext
  <2>2. CASE ~(call[c].password < revoked)
    <3>1. StaleCalls' \subseteq StaleCalls
      BY <2>2, <1>5, <1>2 DEF StaleCalls
    <3>3. Cardinality(StaleRows') <= Cardinality(StaleRows) /\ Cardinality(StaleCalls') <= Cardinality(StaleCalls)
      BY <3>1, <2>r, <2>c, FS_Subset
    <3> QED BY <3>3, <2>c, <1>3, StaleCountsNext
  <2> QED BY <2>1, <2>2
<1> QED BY <1>3, <1>6, <1>7, <1>8, <1>9, <1>10

\* A password change deletes all rows: what is older now is at most the other calls.
LEMMA SessionsRevoked ==
    ASSUME AccountsInv, NEW c \in Calls, RevokeSessions(c)
    PROVE  AccountsInv'
<1> USE DEF AccountsInv
<1>t. /\ call[c] \in CallRecords /\ call[c].pc = "revoke" /\ call[c].password \in 0..MaxPasswords
      /\ revoked \in 0..MaxPasswords /\ account.password \in Nat
      /\ call[c].password <= account.password /\ revoked <= account.password
  BY Typed, AccountsAssumption DEF RevokeSessions, At, CallRecords, PasswordsKnown
<1>1. Stands(c, "idle", "EMAIL_VERIFICATION", NoDevice, 0, 0)
  BY Ending DEF RevokeSessions
<1>2. Closes(DOMAIN sessions) /\ UNCHANGED <<account, usable, challenged>>
  BY Closing DEF RevokeSessions, SessionsOfUser
<1>3. revoked' \in {revoked, call[c].password}
  <2>1. revoked \in Int /\ call[c].password \in Int
    BY <1>t, AccountsAssumption
  <2>2. revoked' = Max({revoked, call[c].password})
    BY DEF RevokeSessions
  <2>3. \A a, b \in Int : Max({a, b}) \in {a, b}
    <3> SUFFICES ASSUME NEW a \in Int, NEW b \in Int PROVE Max({a, b}) \in {a, b}
      OBVIOUS
    <3>1. \E x \in {a, b} : \A y \in {a, b} : x >= y
      OBVIOUS
    <3> QED BY <3>1 DEF Max
  <2> QED BY <2>1, <2>2, <2>3
<1>4. TypeOK'
  <2>1. revoked' \in 0..MaxPasswords
    BY <1>3, <1>t
  <2> QED BY <2>1, <1>1, <1>2, AccountTypes DEF TypeOK, Stands, Closes
<1>5. /\ \A k \in Calls \ {c} : call'[k] = call[k]
      /\ call'[c].pc = "idle" /\ call'[c].row = 0
  BY <1>1 DEF Stands
<1>r. /\ DOMAIN sessions' = DOMAIN sessions /\ Len(sessions') = Len(sessions)
      /\ \A j \in DOMAIN sessions : /\ ~sessions'[j].open /\ sessions'[j].device = NoDevice
                                    /\ sessions'[j].from = sessions[j].from
  BY <1>2 DEF Closes
<1>6. RowsNamed'
  BY <1>5, <1>r DEF RowsNamed
<1>7. ReplacedAlone'
  <2>1. \A k \in Calls : call'[k].pc = "session" => k # c /\ call'[k] = call[k]
    BY <1>5
  <2> QED BY <2>1, <1>r DEF ReplacedAlone, At
<1>8. DevicesInv'
  <2>1. \A k \in Calls : CarriesKnown(k)'
    BY <1>2, <1>5 DEF DevicesInv, CarriesKnown, At
  <2> QED BY <2>1, <1>r DEF DevicesInv, KnownDeviceWasChallenged
<1>9. PasswordsKnown'
  <2>1. revoked' <= account'.password
    BY <1>2, <1>3, <1>t
  <2>2. \A k \in Calls : call'[k].pc = "consume" => call[k].row \in DOMAIN sessions /\ call'[k] = call[k]
    BY <1>5 DEF RowsNamed
  <2> QED BY <2>1, <2>2, <1>2, <1>5, <1>r DEF PasswordsKnown, At
<1>10. StaleSessionsBounded'
  <2>1. StaleRows' = {}
    BY <1>r DEF StaleRows
  <2>2. StaleCalls' \subseteq Calls \ {c}
    BY <1>5 DEF StaleCalls
  <2>3. Cardinality(Calls \ {c}) = Cardinality(Calls) - 1 /\ IsFiniteSet(Calls \ {c}) /\ Cardinality(Calls) \in Nat
    BY StaleCounts, FS_RemoveElement
  <2>4. Cardinality(StaleCalls') <= Cardinality(Calls \ {c}) /\ Cardinality(StaleRows') = 0
    BY <2>1, <2>2, <2>3, FS_Subset, FS_EmptySet
  <2> QED BY <2>3, <2>4, <1>4, StaleCountsNext
<1> QED BY <1>4, <1>6, <1>7, <1>8, <1>9, <1>10

\* The account as it is, with what a write changes of it.
LEMMA AccountWrites ==
    ASSUME TypeOK
    PROVE  /\ \A status \in Statuses, locked \in BOOLEAN :
                  /\ [account EXCEPT !.status = status].password = account.password
                  /\ [account EXCEPT !.status = status].status = status
                  /\ [account EXCEPT !.status = status]
                         \in [status : Statuses, locked : BOOLEAN, password : 0..MaxPasswords]
                  /\ [account EXCEPT !.status = status, !.locked = locked].password = account.password
                  /\ [account EXCEPT !.status = status, !.locked = locked].status = status
                  /\ [account EXCEPT !.status = status, !.locked = locked]
                         \in [status : Statuses, locked : BOOLEAN, password : 0..MaxPasswords]
                  /\ [account EXCEPT !.locked = locked].password = account.password
                  /\ [account EXCEPT !.locked = locked].status = account.status
                  /\ [account EXCEPT !.locked = locked]
                         \in [status : Statuses, locked : BOOLEAN, password : 0..MaxPasswords]
           /\ \A status \in Statuses, password \in 0..MaxPasswords :
                  /\ [account EXCEPT !.status = status, !.password = password].password = password
                  /\ [account EXCEPT !.status = status, !.password = password].status = status
                  /\ [account EXCEPT !.status = status, !.password = password]
                         \in [status : Statuses, locked : BOOLEAN, password : 0..MaxPasswords]
                  /\ [account EXCEPT !.password = password].password = password
                  /\ [account EXCEPT !.password = password].status = account.status
                  /\ [account EXCEPT !.password = password]
                         \in [status : Statuses, locked : BOOLEAN, password : 0..MaxPasswords]
BY DEF TypeOK

\* Every statement of every call keeps the account's promises.
LEMMA AccountsStep == AccountsInv /\ [Next]_vars => AccountsInv'
<1> SUFFICES ASSUME AccountsInv, [Next]_vars PROVE AccountsInv'
  OBVIOUS
<1> DEFINE UserRows == [status : Statuses, locked : BOOLEAN, password : 0..MaxPasswords]
<1>t. /\ TypeOK /\ account \in UserRows /\ usable \subseteq Types
      /\ account.status \in Statuses /\ account.locked \in BOOLEAN /\ account.password \in 0..MaxPasswords
      /\ account.password \in Nat /\ revoked \in Nat /\ revoked <= account.password
      /\ account.status = "none" => account.password = 0
      /\ challenged \subseteq Devices /\ MaxPasswords \in Nat \ {0} /\ MaxSessions \in Nat
      /\ call \in [Calls -> CallRecords] /\ \A c \in Calls : call[c] \in CallRecords
      /\ sessions \in Seq(SessionRecords)
      /\ \A i \in DOMAIN sessions : i \in 0..MaxSessions /\ i # 0 /\ sessions[i] \in SessionRecords
      /\ NoDevice \in Devices \cup {NoDevice} /\ 0 \in 0..MaxSessions /\ 0 \in 0..MaxPasswords
  <2>1. TypeOK /\ MaxPasswords \in Nat \ {0} /\ MaxSessions \in Nat
    BY AccountsAssumption DEF AccountsInv
  <2>2. /\ account \in UserRows /\ usable \subseteq Types /\ challenged \subseteq Devices
        /\ Len(sessions) <= MaxSessions
    BY <2>1 DEF TypeOK
  <2>3. /\ account.password \in Nat /\ revoked \in Nat /\ revoked <= account.password
        /\ account.status = "none" => account.password = 0
    BY <2>1, Typed DEF AccountsInv, PasswordsKnown
  <2>4. \A i \in DOMAIN sessions : i \in 0..MaxSessions /\ i # 0 /\ sessions[i] \in SessionRecords
    BY <2>1, <2>2, Typed
  <2> QED BY <2>1, <2>2, <2>3, <2>4, Typed
<1>s. /\ {"idle", "insertUser", "updateUser", "invalidate", "insertCode", "accept", "user", "activate", "count",
          "device", "session", "consume", "drop", "password", "revoke", "deleteCodes", "deleteUser"} \subseteq Steps
      /\ {"EMAIL_VERIFICATION", "LOGIN_CHALLENGE", "PASSWORD_RESET"} \subseteq Types
      /\ {"none", "PENDING", "ACTIVE", "SUSPENDED", "deleted"} \subseteq Statuses
  BY DEF Steps, Types, Statuses
<1>k. \A c \in Calls : call[c].pc \notin {"consume", "drop", "session"} => call[c].row = 0
  BY DEF AccountsInv, RowsNamed
<1>e. ASSUME NEW c \in Calls, End(c), UNCHANGED <<account, sessions, revoked, challenged>>, usable' \subseteq Types
      PROVE  AccountsInv'
  BY <1>e, <1>t, QuietEnd
<1>g. ASSUME NEW c \in Calls, NEW step \in Steps, Go(c, step), UNCHANGED <<account, sessions, revoked, challenged>>,
             usable' \subseteq Types, call[c].pc \notin {"consume", "drop", "session"},
             step \notin {"user", "activate", "session", "accept", "consume", "drop", "revoke", "device"}
      PROVE  AccountsInv'
  BY <1>g, <1>t, QuietGo
<1>1. CASE UNCHANGED vars
  BY <1>1, <1>t, QuietAccount DEF vars
<1>2. ASSUME NEW c \in Calls, InvalidateCodes(c) \/ CreateCode(c)
      PROVE  AccountsInv'
  BY <1>2, <1>e, <1>g, <1>s, <1>t DEF InvalidateCodes, CreateCode, At, CallRecords
<1>3. ASSUME NEW c \in Calls, NEW type \in Types, NEW d \in Devices \cup {NoDevice}, MatchCode(c, type, d),
             d \in (IF type = "LOGIN_CHALLENGE" THEN Devices ELSE {NoDevice})
      PROVE  AccountsInv'
  <2>1. Stands(c, "accept", type, d, 0, 0)
    BY <1>3, <1>s, <1>t, Beginning DEF MatchCode
  <2>2. /\ call' \in [Calls -> CallRecords] /\ \A k \in Calls \ {c} : call'[k] = call[k]
        /\ call'[c].row = 0 /\ call'[c].pc = "accept" /\ CarriesKnown(c)'
    BY <2>1, <1>3 DEF Stands, CarriesKnown, At
  <2> QED BY <2>2, <1>3, <1>t, QuietTurn DEF MatchCode
<1>4. ASSUME NEW c \in Calls, VerifyEmailOtp(c) \/ VerifyLoginOtp(c) \/ ResetPassword(c)
      PROVE  AccountsInv'
  <2>1. CASE VerifyEmailOtp(c)
    BY <2>1, <1>3, <1>s, <1>t DEF VerifyEmailOtp
  <2>2. CASE VerifyLoginOtp(c)
    <3>1. PICK d \in Devices : MatchCode(c, "LOGIN_CHALLENGE", d)
      BY <2>2 DEF VerifyLoginOtp
    <3>2. d \in Devices \cup {NoDevice} /\ "LOGIN_CHALLENGE" \in Types
      BY <1>s
    <3> QED BY <3>1, <3>2, <1>3
  <2>3. CASE ResetPassword(c)
    BY <2>3, <1>3, <1>s, <1>t DEF ResetPassword
  <2> QED BY <1>4, <2>1, <2>2, <2>3
<1>5. ASSUME NEW c \in Calls, ConsumeCode(c)
      PROVE  AccountsInv'
  <2> DEFINE step == IF call[c].type = "PASSWORD_RESET" THEN "password" ELSE "user"
  <2>1. call[c].pc = "accept" /\ call[c].row = 0 /\ CarriesKnown(c) /\ Go(c, step) /\ step \in Steps
        /\ step \in {"password", "user"}
    BY <1>5, <1>k, <1>s DEF ConsumeCode, At, AccountsInv, DevicesInv
  <2>2. Stands(c, step, call[c].type, call[c].device, 0, call[c].password)
    <3> HIDE DEF step
    <3> QED BY <2>1, <1>t, Going
  <2>3. /\ challenged \subseteq challenged' /\ usable' \subseteq Types
        /\ call[c].type = "LOGIN_CHALLENGE" => challenged' = challenged \cup {call[c].device}
        /\ UNCHANGED <<account, sessions, revoked>>
        /\ call[c].device \in Devices \cup {NoDevice}
    BY <1>5, <1>t DEF ConsumeCode, CodeGone, CallRecords
  <2>4. /\ call' \in [Calls -> CallRecords] /\ \A k \in Calls \ {c} : call'[k] = call[k]
        /\ call'[c].row = 0 /\ call'[c].pc = step /\ CarriesKnown(c)'
    <3> HIDE DEF step
    <3> QED BY <2>1, <2>2, <2>3 DEF Stands, CarriesKnown, At
  <2>5. challenged' \subseteq Devices
    BY <1>5, <1>t, <2>1, <2>3 DEF ConsumeCode, CarriesKnown, At
  <2> HIDE DEF step
  <2> QED BY <2>1, <2>3, <2>4, <2>5, <1>t, QuietTurn
<1>6. ASSUME NEW t \in usable, LoseCode(t)
      PROVE  AccountsInv'
  BY <1>6, <1>t, QuietAccount DEF LoseCode, CodeGone
<1>7. ASSUME NEW status \in {"ACTIVE", "SUSPENDED", "PENDING"}, SetStatus(status)
      PROVE  AccountsInv'
  <2>1. status \in Statuses /\ status # "none" /\ account' = [account EXCEPT !.status = status]
    BY <1>7, <1>s DEF SetStatus
  <2>2. account' \in UserRows /\ account'.password = account.password /\ account'.status # "none"
    BY <2>1, <1>t, AccountWrites
  <2> QED BY <1>7, <2>2, <1>t, QuietAccount DEF SetStatus
<1>8. CASE LockElapses
  <2>1. account' = [account EXCEPT !.locked = FALSE] /\ FALSE \in BOOLEAN
    BY <1>8 DEF LockElapses
  <2>2. account' \in UserRows /\ account'.password = account.password /\ account'.status = account.status
    BY <2>1, <1>t, <1>s, AccountWrites
  <2> QED BY <1>8, <2>2, <1>t, QuietAccount DEF LockElapses
<1>9. ASSUME NEW c \in Calls, \/ Register(c) \/ ResendOtp(c) \/ ForgotPassword(c)
                              \/ LoginFails(c) \/ ChangePassword(c) \/ FindPendingUser(c)
      PROVE  AccountsInv'
  <2>1. \E step \in Steps, type \in Types :
            /\ Start(c, step, type)
            /\ step \notin {"accept", "user", "activate", "session", "consume", "drop", "revoke", "device"}
    BY <1>9, <1>s DEF Register, ResendOtp, ForgotPassword, LoginFails, ChangePassword, FindPendingUser
  <2>2. UNCHANGED <<account, usable, sessions, revoked, challenged>>
    BY <1>9 DEF Register, ResendOtp, ForgotPassword, LoginFails, ChangePassword, FindPendingUser
  <2> QED BY <2>1, <2>2, QuietStart
\* A new password: the account's row and one call change.
<1>w. ASSUME NEW c \in Calls, account' \in UserRows, account.password <= account'.password,
             account'.status = "none" => account'.password = 0,
             usable' = usable, UNCHANGED <<sessions, revoked, challenged>>
      PROVE  /\ End(c) => AccountsInv'
             /\ \A step \in Steps :
                  /\ Go(c, step) /\ call[c].pc \notin {"consume", "drop", "session"}
                  /\ \/ step \notin {"user", "activate", "session", "accept", "consume", "drop", "revoke", "device"}
                     \/ step = "session" /\ call[c].pc = "activate"
                  => AccountsInv'
  BY <1>w, <1>t, QuietEnd, QuietGo
<1>10. ASSUME NEW c \in Calls, InsertUser(c)
       PROVE  AccountsInv'
  <2>1. CASE account.status # "none"
    BY <1>10, <2>1, <1>e, <1>t DEF InsertUser
  <2>2. CASE account.status = "none"
    <3>1. account' = [account EXCEPT !.status = "PENDING", !.password = 1] /\ 1 \in 0..MaxPasswords
      BY <1>10, <2>2, <1>t DEF InsertUser
    <3>2. account' \in UserRows /\ account'.password = 1 /\ account'.status = "PENDING"
      BY <3>1, <1>t, <1>s, AccountWrites
    <3>3. Go(c, "invalidate") /\ usable' = usable /\ UNCHANGED <<sessions, revoked, challenged>>
          /\ call[c].pc = "insertUser"
      BY <1>10, <2>2 DEF InsertUser, At
    <3>4. account.password <= account'.password
      BY <3>2, <2>2, <1>t
    <3> QED BY <3>2, <3>3, <3>4, <1>w, <1>s
  <2> QED BY <2>1, <2>2
<1>11. ASSUME NEW c \in Calls, UpdateUser(c)
       PROVE  AccountsInv'
  <2>1. CASE ~Exists
    BY <1>11, <2>1, <1>e, <1>t DEF UpdateUser
  <2>2. CASE Exists
    <3>1. account' = [account EXCEPT !.password = account.password + 1] /\ account.password + 1 \in 0..MaxPasswords
      BY <1>11, <2>2, <1>t DEF UpdateUser
    <3>2. account' \in UserRows /\ account'.password = account.password + 1 /\ account'.status = account.status
      BY <3>1, <1>t, AccountWrites
    <3>3. Go(c, "invalidate") /\ usable' = usable /\ UNCHANGED <<sessions, revoked, challenged>>
          /\ call[c].pc = "updateUser" /\ account.status # "none"
      BY <1>11, <2>2 DEF UpdateUser, At, Exists
    <3>4. account.password <= account'.password
      BY <3>2, <1>t
    <3> QED BY <3>2, <3>3, <3>4, <1>w, <1>s
  <2> QED BY <2>1, <2>2
<1>12. ASSUME NEW c \in Calls, ReadUser(c)
       PROVE  AccountsInv'
  <2> DEFINE step == IF call[c].type = "LOGIN_CHALLENGE" THEN "session" ELSE "activate"
  <2>1. CASE End(c)
    BY <1>12, <2>1, <1>e, <1>t DEF ReadUser
  <2>2. CASE call' = [call EXCEPT ![c].pc = step, ![c].password = account.password]
    <3>1. step \in Steps /\ step \in {"session", "activate"}
      BY <1>s
    <3> HIDE DEF step
    <3>2. Stands(c, step, call[c].type, call[c].device, call[c].row, account.password)
      BY <2>2, <3>1, <1>t, GoingWith
    <3>3. call[c].pc = "user" /\ call[c].row = 0 /\ CarriesKnown(c)
          /\ UNCHANGED <<account, usable, sessions, revoked, challenged>>
      BY <1>12, <1>k DEF ReadUser, At, AccountsInv, DevicesInv
    <3>4. /\ call' \in [Calls -> CallRecords] /\ \A k \in Calls \ {c} : call'[k] = call[k]
          /\ call'[c].row = 0 /\ call'[c].pc \in {"session", "activate"} /\ call'[c].password = account.password
          /\ CarriesKnown(c)'
      BY <3>1, <3>2, <3>3 DEF Stands, CarriesKnown, At
    <3> QED BY <3>3, <3>4, <1>t, QuietTurn
  <2> QED BY <1>12, <2>1, <2>2 DEF ReadUser
<1>13. ASSUME NEW c \in Calls, Activate(c)
       PROVE  AccountsInv'
  <2>1. CASE ~Exists
    BY <1>13, <2>1, <1>e, <1>t DEF Activate
  <2>2. CASE Exists
    <3>1. account' = [account EXCEPT !.status = "ACTIVE"] /\ Go(c, "session") /\ call[c].pc = "activate"
          /\ usable' = usable /\ UNCHANGED <<sessions, revoked, challenged>>
      BY <1>13, <2>2 DEF Activate, At
    <3>2. account' \in UserRows /\ account'.password = account.password /\ account'.status = "ACTIVE"
      BY <3>1, <1>t, <1>s, AccountWrites
    <3> QED BY <3>1, <3>2, <1>t, <1>w, <1>s
  <2> QED BY <2>1, <2>2
<1>14. ASSUME NEW c \in Calls, CreateSession(c)
       PROVE  AccountsInv'
  <2>1. CASE ~Exists
    BY <1>14, <2>1, <1>e, <1>t DEF CreateSession
  <2> QED BY <1>14, <2>1, SessionOpened
<1>15. ASSUME NEW c \in Calls, SuspendAfterFailures(c)
       PROVE  AccountsInv'
  <2>1. account' = [account EXCEPT !.status = "SUSPENDED", !.locked = TRUE] /\ TRUE \in BOOLEAN
    BY <1>15 DEF SuspendAfterFailures
  <2>2. account' \in UserRows /\ account'.password = account.password /\ account'.status = "SUSPENDED"
    BY <2>1, <1>t, <1>s, AccountWrites
  <2> QED BY <1>15, <2>2, <1>t, <1>w DEF SuspendAfterFailures
<1>16. ASSUME NEW c \in Calls, NEW d \in Devices, Login(c, d)
       PROVE  AccountsInv'
  <2>1. Stands(c, "device", "LOGIN_CHALLENGE", d, 0, account.password)
    <3>1. d \in Devices \cup {NoDevice}
      OBVIOUS
    <3> QED BY <1>16, <3>1, <1>s, <1>t, Beginning DEF Login
  <2>2. /\ call' \in [Calls -> CallRecords] /\ \A k \in Calls \ {c} : call'[k] = call[k]
        /\ call'[c].row = 0 /\ call'[c].pc = "device" /\ call'[c].password = account.password /\ CarriesKnown(c)'
    BY <2>1 DEF Stands, CarriesKnown, At
  <2> QED BY <1>16, <2>2, <1>t, QuietTurn DEF Login
<1>17. ASSUME NEW c \in Calls, CheckDevice(c)
       PROVE  AccountsInv'
  <2>0. call[c].pc = "device" /\ call[c].row = 0 /\ UNCHANGED <<account, usable, sessions, revoked, challenged>>
    BY <1>17, <1>k DEF CheckDevice, At
  <2>1. CASE KnownDevice(call[c].device)
    <3>1. Stands(c, "session", call[c].type, call[c].device, 0, call[c].password)
      BY <1>17, <2>0, <2>1, <1>s, <1>t, Going DEF CheckDevice
    <3>2. call[c].device \in challenged \cup {NoDevice}
      BY <2>1 DEF KnownDevice, AccountsInv, DevicesInv, KnownDeviceWasChallenged
    <3>3. /\ call' \in [Calls -> CallRecords] /\ \A k \in Calls \ {c} : call'[k] = call[k]
          /\ call'[c].row = 0 /\ call'[c].pc = "session" /\ call'[c].password = call[c].password /\ CarriesKnown(c)'
      BY <2>0, <3>1, <3>2 DEF Stands, CarriesKnown, At
    <3> QED BY <2>0, <3>3, <1>t, QuietTurn
  <2>2. CASE ~KnownDevice(call[c].device)
    <3>1. Stands(c, "invalidate", "LOGIN_CHALLENGE", NoDevice, 0, 0)
      BY <1>17, <2>2, <1>s, <1>t, Beginning DEF CheckDevice
    <3>2. /\ call' \in [Calls -> CallRecords] /\ \A k \in Calls \ {c} : call'[k] = call[k]
          /\ call'[c].row = 0 /\ call'[c].pc = "invalidate" /\ CarriesKnown(c)'
      BY <3>1 DEF Stands, CarriesKnown, At
    <3> QED BY <2>0, <3>2, <1>t, QuietTurn
  <2> QED BY <2>1, <2>2
<1>18. ASSUME NEW c \in Calls, NEW i \in DOMAIN sessions, Refresh(c, i) \/ Logout(c, i)
       PROVE  AccountsInv'
  <2>0. UNCHANGED <<account, usable, sessions, revoked, challenged>> /\ i \in 0..MaxSessions /\ i # 0
        /\ sessions[i].password \in 0..MaxPasswords
    BY <1>18, <1>t DEF Refresh, Logout, SessionRecords
  <2>1. \/ Stands(c, "consume", "EMAIL_VERIFICATION", NoDevice, i, sessions[i].password)
        \/ Stands(c, "drop", "EMAIL_VERIFICATION", NoDevice, i, 0)
    BY <1>18, <2>0, <1>s, <1>t, Beginning DEF Refresh, Logout
  <2>2. /\ call' \in [Calls -> CallRecords] /\ \A k \in Calls \ {c} : call'[k] = call[k]
        /\ call'[c].row = i /\ call'[c].pc \in {"consume", "drop"} /\ CarriesKnown(c)'
        /\ call'[c].pc = "consume" => call'[c].password = sessions[i].password
    BY <2>1 DEF Stands, CarriesKnown, At
  <2> QED BY <2>0, <2>2, <1>t, QuietTurn
<1>19. ASSUME NEW c \in Calls, ConsumeSession(c) \/ DropSession(c) \/ DeleteUser(c)
       PROVE  AccountsInv'
  <2>1. CASE ConsumeSession(c) /\ Deleted(call[c].row)
    BY <2>1, SessionConsumed
  <2>2. CASE (ConsumeSession(c) /\ ~Deleted(call[c].row)) \/ DropSession(c)
    <3>1. {call[c].row} \in SUBSET DOMAIN sessions
      BY <2>2 DEF ConsumeSession, DropSession, At, AccountsInv, RowsNamed
    <3>2. /\ End(c) /\ sessions' = Closed({call[c].row})
          /\ UNCHANGED <<account, usable, revoked, challenged>>
      BY <2>2 DEF ConsumeSession, DropSession
    <3> QED BY <3>1, <3>2, <1>t, QuietClose
  <2>3. CASE DeleteUser(c)
    <3>1. account' = [account EXCEPT !.status = "deleted"]
      BY <2>3 DEF DeleteUser
    <3>2. account' \in UserRows /\ account'.password = account.password /\ account'.status = "deleted"
      BY <3>1, <1>t, <1>s, AccountWrites
    <3>3. DOMAIN sessions \in SUBSET DOMAIN sessions
      OBVIOUS
    <3> QED BY <2>3, <3>2, <3>3, <1>t, QuietClose DEF DeleteUser
  <2> QED BY <1>19, <2>1, <2>2, <2>3
<1>20. ASSUME NEW c \in Calls, SetPassword(c)
       PROVE  AccountsInv'
  <2>1. CASE ~Exists
    BY <1>20, <2>1, <1>e, <1>t DEF SetPassword
  <2>2. CASE Exists
    <3>1. /\ account' = [account EXCEPT !.password = account.password + 1]
          /\ account.password + 1 \in 0..MaxPasswords
          /\ call' = [call EXCEPT ![c].pc = "revoke", ![c].password = account.password + 1]
      BY <1>20, <2>2, <1>t DEF SetPassword
    <3>0. account' \in UserRows /\ account'.password = account.password + 1 /\ account'.status = account.status
      BY <3>1, <1>t, AccountWrites
    <3>2. account' \in UserRows /\ account'.password = account.password + 1 /\ account'.status = account.status
          /\ account.password <= account'.password
      BY <3>0, <1>t
    <3>3. call[c].pc = "password" /\ call[c].row = 0 /\ UNCHANGED <<usable, sessions, revoked, challenged>>
          /\ account.status # "none"
      BY <1>20, <2>2, <1>k DEF SetPassword, At, Exists
    <3>4. Stands(c, "revoke", call[c].type, call[c].device, 0, account.password + 1)
      BY <3>1, <3>3, <1>s, <1>t, GoingWith
    <3>5. /\ call' \in [Calls -> CallRecords] /\ \A k \in Calls \ {c} : call'[k] = call[k]
          /\ call'[c].row = 0 /\ call'[c].pc = "revoke" /\ call'[c].password <= account'.password /\ CarriesKnown(c)'
      BY <3>2, <3>4, <1>t DEF Stands, CarriesKnown, At
    <3> QED BY <3>2, <3>3, <3>5, <1>t, QuietTurn
  <2> QED BY <2>1, <2>2
<1>21. ASSUME NEW c \in Calls, RevokeSessions(c)
       PROVE  AccountsInv'
  BY <1>21, SessionsRevoked
<1>22. ASSUME NEW c \in Calls, DeleteCodes(c)
       PROVE  AccountsInv'
  <2> DEFINE r == [call[c] EXCEPT !.pc = "deleteUser"]
  <2>1. r \in CallRecords /\ r.pc = "deleteUser" /\ r.row = call[c].row
    BY <1>t, <1>s DEF CallRecords
  <2>2. /\ call' = [k \in Calls |-> IF k = c THEN r ELSE IF At(k, "accept") THEN Idle ELSE call[k]]
        /\ call[c].row = 0 /\ UNCHANGED <<account, sessions, revoked, challenged>> /\ usable' \subseteq Types
    BY <1>22, <1>k DEF DeleteCodes, At
  <2> HIDE DEF r
  <2>3. call' \in [Calls -> CallRecords]
    BY <2>1, <2>2, <1>t, IdleTyped
  <2>4. TypeOK'
    BY <2>2, <2>3, <1>t, AccountTypes DEF TypeOK
  <2>5. ASSUME NEW k \in Calls
        PROVE  Harmless(k)
    <3>1. call'[k] = Idle \/ call'[k] = call[k] \/ (call'[k] = r /\ k = c)
      BY <2>2
    <3>2. CASE call'[k] = r /\ k = c
      BY <3>2, <2>1, <2>2 DEF Harmless, CarriesKnown, At
    <3>3. CASE call'[k] = Idle
      BY <3>3, IdleTyped DEF Harmless, CarriesKnown, At
    <3>4. CASE call'[k] = call[k]
      BY <3>4 DEF Harmless
    <3> QED BY <3>1, <3>2, <3>3, <3>4
  <2>6. {} \in SUBSET DOMAIN sessions
    OBVIOUS
  <2>7. account.password <= account'.password
    BY <2>2, <1>t
  <2> QED BY <2>2, <2>4, <2>5, <2>6, <2>7, <1>t, Quiet
<1>23. ASSUME NEW c \in Calls, Interrupt(c)
       PROVE  AccountsInv'
  BY <1>23, <1>e, <1>t DEF Interrupt
<1> QED
  BY <1>1, <1>2, <1>4, <1>5, <1>6, <1>7, <1>8, <1>9, <1>10, <1>11, <1>12, <1>13, <1>14, <1>15, <1>16, <1>17,
     <1>18, <1>19, <1>20, <1>21, <1>22, <1>23
  DEF Next, CallStep

LEMMA AccountsInductive == Spec => []AccountsInv
<1>1. Init => AccountsInv
  <2> SUFFICES ASSUME Init PROVE AccountsInv
    OBVIOUS
  <2>1. /\ \A c \in Calls : call[c].pc = "idle" /\ call[c].row = 0 /\ call[c].password = 0
        /\ sessions = <<>> /\ DOMAIN sessions = {} /\ revoked = 0
    BY IdleTyped DEF Init
  <2>2. TypeOK
    BY IdleTyped, AccountsAssumption DEF Init, TypeOK, CallRecords, Statuses
  <2>3. RowsNamed /\ ReplacedAlone /\ DevicesInv /\ PasswordsKnown
    BY <2>1 DEF Init, RowsNamed, ReplacedAlone, DevicesInv, KnownDeviceWasChallenged, CarriesKnown, PasswordsKnown, At
  <2>4. StaleRows = {} /\ StaleCalls = {}
    BY <2>1 DEF StaleRows, StaleCalls
  <2>5. StaleSessionsBounded
    BY <2>2, <2>4, StaleCounts, FS_EmptySet
  <2> QED BY <2>2, <2>3, <2>5 DEF AccountsInv
<1> QED BY <1>1, AccountsStep, PTL DEF Spec

\* The types of the account's state.
THEOREM AccountsTypeCorrect == Spec => []TypeOK
<1>1. AccountsInv => TypeOK
  BY DEF AccountsInv
<1> QED BY <1>1, AccountsInductive, PTL

\* One session row has one successor at most, whatever number of refreshes present
\* its token at once: the delete of the row decides (AuthService.refresh).
THEOREM EachReplacedOnce == Spec => []ReplacedOnce
<1>1. AccountsInv => ReplacedOnce
  <2> SUFFICES ASSUME AccountsInv, NEW i \in DOMAIN sessions
               PROVE  Cardinality({j \in DOMAIN sessions : sessions[j].from = i})
                        + Cardinality({c \in Calls : At(c, "session") /\ call[c].row = i}) <= 1
    BY DEF ReplacedOnce
  <2> DEFINE rows  == {j \in DOMAIN sessions : sessions[j].from = i}
             calls == {c \in Calls : At(c, "session") /\ call[c].row = i}
  <2>1. i # 0 /\ i \in Nat
    BY Typed DEF AccountsInv
  <2>a. /\ \A j, k \in DOMAIN sessions : sessions[j].from # 0 /\ sessions[j].from = sessions[k].from => j = k
        /\ \A c, k \in Calls : call[c].pc = "session" /\ call[k].pc = "session" /\ call[c].row # 0
                                 /\ call[c].row = call[k].row => c = k
        /\ \A j \in DOMAIN sessions, c \in Calls :
               call[c].pc = "session" /\ call[c].row # 0 => sessions[j].from # call[c].row
    BY DEF AccountsInv, ReplacedAlone, At
  <2>b. rows = {} \/ \E j : rows = {j}
    <3>1. \A j, k \in rows : j = k
      BY <2>1, <2>a
    <3> QED BY <3>1
  <2>c. calls = {} \/ \E c : calls = {c}
    <3>1. \A c, k \in calls : c = k
      BY <2>1, <2>a DEF At
    <3> QED BY <3>1
  <2>d. rows = {} \/ calls = {}
    BY <2>1, <2>a DEF At
  <2>2. \/ rows = {} /\ (calls = {} \/ \E c : calls = {c})
        \/ calls = {} /\ \E j : rows = {j}
    BY <2>b, <2>c, <2>d
  <2>3. Cardinality({}) = 0
    BY FS_EmptySet
  <2> HIDE DEF rows, calls
  <2>4. Cardinality(rows) + Cardinality(calls) <= 1
    <3>1. CASE rows = {} /\ calls = {}
      BY <3>1, <2>3
    <3>2. CASE rows = {} /\ \E c : calls = {c}
      <4>1. PICK c : calls = {c}
        BY <3>2
      <4>2. Cardinality(calls) = 1
        BY <4>1, FS_Singleton
      <4> QED BY <3>2, <4>2, <2>3
    <3>3. CASE calls = {} /\ \E j : rows = {j}
      <4>1. PICK j : rows = {j}
        BY <3>3
      <4>2. Cardinality(rows) = 1
        BY <4>1, FS_Singleton
      <4> QED BY <3>3, <4>2, <2>3
    <3> QED BY <2>2, <3>1, <3>2, <3>3
  <2> QED BY <2>4 DEF rows, calls
<1> QED BY <1>1, AccountsInductive, PTL

\* Sessions opened under an older password do not multiply: after a password
\* change there are fewer of them than calls that run at once (resetPassword and
\* changePassword against login, verifyEmailOtp and refresh).
THEOREM StaleSessionsAreFew == Spec => []StaleSessionsBounded
<1>1. AccountsInv => StaleSessionsBounded
  BY DEF AccountsInv
<1> QED BY <1>1, AccountsInductive, PTL

\* No session carries a device that has not answered a login challenge, for any
\* devices and any number of calls (login, verifyLoginOtp, refresh).
THEOREM DevicesWereChallenged == Spec => []KnownDeviceWasChallenged
<1>1. AccountsInv => KnownDeviceWasChallenged
  BY DEF AccountsInv, DevicesInv
<1> QED BY <1>1, AccountsInductive, PTL

-----------------------------------------------------------------------------
(* OneTimeCodes                                                            *)

CodeRecords ==
    [state : {"young", "old", "spent"}, locked : BOOLEAN, attempts : 0..MaxAttempts,
     guesses : Nat, accepted : 0..Cardinality(Requests)]

RequestRecords ==
    [pc : {"idle", "cooldown", "insert", "compare"}, row : 0..MaxCodes, attempts : 0..(MaxAttempts - 1)]

Counters == 0..(MaxAttempts - 1)

Creating     == {c \in Requests : request[c].pc \in {"cooldown", "insert"}}
Comparing(i) == {c \in Requests : In(c, "compare") /\ request[c].row = i}

\* The counter a wrong guess of the request would start from, if it came now or
\* after reading the code now, whichever is lower.
Reach(c, i) ==
    IF c \in Comparing(i) /\ request[c].attempts < codes[i].attempts THEN request[c].attempts ELSE codes[i].attempts

Reaches(i) == [c \in Requests |-> Reach(c, i)]

\* How the requests are spread over the counters.
SpreadOf(R) == [v \in Counters |-> Cardinality({c \in Requests : R[c] <= v})]

\* The spreads that come before in the order of the first counter that differs.
LessAt(f, g, v) == f[v] < g[v] /\ \A u \in Counters : u < v => f[u] = g[u]
Lower(f)        == {g \in Spreads : \E v \in Counters : LessAt(g, f, v)}

\* A wrong guess takes a spread away, until the code is locked; then it takes one
\* of the requests away that had read the code.
CodeInv(i) ==
    /\ codes[i].accepted + Cardinality(Comparing(i)) <= Cardinality(Requests)
    /\ codes[i].state # "spent" => codes[i].accepted = 0
    /\ ~codes[i].locked =>
           /\ codes[i].attempts < MaxAttempts
           /\ codes[i].guesses + Cardinality(Lower(SpreadOf(Reaches(i)))) <= Cardinality(Spreads) - 1
    /\ codes[i].locked =>
           codes[i].guesses + Cardinality(Comparing(i)) <= Cardinality(Spreads) + Cardinality(Requests) - 1

CodesInv ==
    /\ CodesTypeOK
    /\ \A c \in Requests : In(c, "compare") => request[c].row \in DOMAIN codes
    /\ Cardinality(Unused) + Cardinality(Creating) <= Cardinality(Requests)
    /\ \A i \in DOMAIN codes : CodeInv(i)

LEMMA CountersTyped ==
    /\ MaxAttempts \in Nat \ {0} /\ MaxAttempts - 1 \in Counters /\ MaxCodes \in Nat /\ Counters \subseteq Nat
    /\ IsFiniteSet(Requests) /\ Cardinality(Requests) \in Nat
<1>1. Cardinality(Requests) \in Nat
  BY CodesAssumption, FS_CardinalityType
<1> QED BY <1>1, CodesAssumption DEF Counters

\* A spread is known by the pairs of a counter and a number.
LEMMA SpreadsFinite == IsFiniteSet(Spreads) /\ Cardinality(Spreads) \in Nat
<1> DEFINE N == 0..Cardinality(Requests)
           Pairs(f) == {p \in Counters \X N : f[p[1]] = p[2]}
           G == [f \in Spreads |-> Pairs(f)]
<1>1. IsFiniteSet(SUBSET (Counters \X N))
  <2>1. IsFiniteSet(Counters)
    <3>1. 0 \in Int /\ MaxAttempts - 1 \in Int
      BY CountersTyped
    <3> QED BY <3>1, FS_Interval DEF Counters
  <2>2. IsFiniteSet(N)
    <3>1. 0 \in Int /\ Cardinality(Requests) \in Int
      BY CountersTyped
    <3> QED BY <3>1, FS_Interval
  <2> HIDE DEF N
  <2>3. IsFiniteSet(Counters \X N)
    BY <2>1, <2>2, FS_Product
  <2> QED BY <2>3, FS_SUBSET
<1>2. \A f \in Spreads : f \in [Counters -> N]
  BY DEF Spreads, Counters
<1> HIDE DEF N
<1>3. G \in [Spreads -> SUBSET (Counters \X N)]
  OBVIOUS
<1>4. ASSUME NEW f \in Spreads, NEW g \in Spreads, G[f] = G[g]
      PROVE  f = g
  <2>1. ASSUME NEW v \in Counters
        PROVE  f[v] = g[v]
    <3>1. <<v, f[v]>> \in Counters \X N /\ <<v, f[v]>> \in Pairs(f)
      BY <1>2
    <3>2. <<v, f[v]>> \in Pairs(g)
      BY <3>1, <1>4
    <3> QED BY <3>2
  <2> QED BY <2>1, <1>2
<1>5. G \in Injection(Spreads, SUBSET (Counters \X N))
  <2> HIDE DEF G
  <2> QED BY <1>3, <1>4, Fun_IsInj
<1>6. IsFiniteSet(Spreads)
  <2> HIDE DEF G
  <2> QED BY <1>1, <1>5, FS_Injection
<1> QED BY <1>6, FS_CardinalityType

LEMMA LowerCounts ==
    ASSUME NEW f \in Spreads
    PROVE  /\ IsFiniteSet(Lower(f)) /\ Cardinality(Lower(f)) \in Nat
           /\ Cardinality(Lower(f)) <= Cardinality(Spreads) - 1
<1>1. f \notin Lower(f) /\ Lower(f) \subseteq Spreads \ {f}
  <2>1. \A v \in Counters : f[v] \in Nat
    BY CountersTyped DEF Spreads, Counters
  <2> QED BY <2>1 DEF Lower, LessAt
<1>2. IsFiniteSet(Spreads \ {f}) /\ Cardinality(Spreads \ {f}) = Cardinality(Spreads) - 1
  BY SpreadsFinite, FS_RemoveElement
<1>3. IsFiniteSet(Lower(f)) /\ Cardinality(Lower(f)) <= Cardinality(Spreads \ {f})
  BY <1>1, <1>2, FS_Subset
<1> QED BY <1>2, <1>3, FS_CardinalityType

\* The order is transitive, so that a lower spread has fewer below it.
LEMMA LowerFewer ==
    ASSUME NEW f \in Spreads, NEW g \in Spreads, NEW v \in Counters, LessAt(g, f, v)
    PROVE  Cardinality(Lower(g)) + 1 <= Cardinality(Lower(f))
<1>t. \A h \in Spreads, u \in Counters : h[u] \in Nat /\ u \in Nat
  BY CountersTyped DEF Spreads, Counters
<1>1. g \in Lower(f) /\ g \notin Lower(g)
  BY <1>t DEF Lower, LessAt
<1>2. ASSUME NEW h \in Lower(g)
      PROVE  h \in Lower(f)
  <2>1. PICK w \in Counters : LessAt(h, g, w)
    BY DEF Lower
  <2>2. h \in Spreads
    BY DEF Lower
  <2>3. CASE w < v
    <3>1. LessAt(h, f, w)
      <4>1. h[w] < g[w] /\ g[w] = f[w]
        BY <2>1, <2>3 DEF LessAt
      <4>2. \A u \in Counters : u < w => u < v /\ h[u] = g[u] /\ g[u] = f[u]
        BY <2>1, <2>3, <1>t DEF LessAt
      <4> QED BY <4>1, <4>2 DEF LessAt
    <3> QED BY <3>1, <2>2 DEF Lower
  <2>4. CASE ~(w < v)
    <3>1. h[v] < f[v]
      <4>1. CASE w = v
        BY <4>1, <2>1, <2>2, <1>t DEF LessAt
      <4>2. CASE w # v
        <5>1. v < w
          BY <4>2, <2>4, <1>t
        <5> QED BY <5>1, <2>1 DEF LessAt
      <4> QED BY <4>1, <4>2
    <3>2. \A u \in Counters : u < v => u < w /\ h[u] = g[u] /\ g[u] = f[u]
      BY <2>1, <2>4, <1>t DEF LessAt
    <3>3. LessAt(h, f, v)
      BY <3>1, <3>2 DEF LessAt
    <3> QED BY <3>3, <2>2 DEF Lower
  <2> QED BY <2>3, <2>4
<1>3. Lower(g) \cup {g} \subseteq Lower(f)
  BY <1>1, <1>2
<1>4. Cardinality(Lower(g) \cup {g}) = Cardinality(Lower(g)) + 1
  BY <1>1, LowerCounts, FS_AddElement
<1>5. Cardinality(Lower(g) \cup {g}) <= Cardinality(Lower(f))
  BY <1>3, LowerCounts, FS_Subset
<1> QED BY <1>4, <1>5

LEMMA SpreadTyped ==
    ASSUME NEW R \in [Requests -> Counters]
    PROVE  /\ SpreadOf(R) \in Spreads
           /\ \A v \in Counters : /\ SpreadOf(R)[v] = Cardinality({c \in Requests : R[c] <= v})
                                  /\ IsFiniteSet({c \in Requests : R[c] <= v})
<1>1. \A c \in Requests : R[c] \in Nat /\ R[c] <= MaxAttempts - 1
  BY CountersTyped DEF Counters
<1>2. ASSUME NEW v \in Counters
      PROVE  /\ IsFiniteSet({c \in Requests : R[c] <= v})
             /\ Cardinality({c \in Requests : R[c] <= v}) \in 0..Cardinality(Requests)
  <2>1. {c \in Requests : R[c] <= v} \in SUBSET Requests
    OBVIOUS
  <2>2. /\ IsFiniteSet({c \in Requests : R[c] <= v})
        /\ Cardinality({c \in Requests : R[c] <= v}) <= Cardinality(Requests)
    BY <2>1, CountersTyped, FS_Subset
  <2>3. Cardinality({c \in Requests : R[c] <= v}) \in Nat
    BY <2>2, FS_CardinalityType
  <2> QED BY <2>2, <2>3, CountersTyped
<1>3. SpreadOf(R) \in [Counters -> 0..Cardinality(Requests)]
  BY <1>2 DEF SpreadOf
<1>4. SpreadOf(R)[MaxAttempts - 1] = Cardinality(Requests)
  <2>1. {c \in Requests : R[c] <= MaxAttempts - 1} = Requests
    BY <1>1
  <2> QED BY <2>1, CountersTyped DEF SpreadOf
<1>5. ASSUME NEW u \in Counters, NEW v \in Counters, u <= v
      PROVE  SpreadOf(R)[u] <= SpreadOf(R)[v]
  <2>1. {c \in Requests : R[c] <= u} \in SUBSET {c \in Requests : R[c] <= v}
    BY <1>1, <1>5, CountersTyped
  <2>2. Cardinality({c \in Requests : R[c] <= u}) <= Cardinality({c \in Requests : R[c] <= v})
    BY <2>1, <1>2, FS_Subset
  <2> QED BY <2>2 DEF SpreadOf
<1> QED BY <1>2, <1>3, <1>4, <1>5 DEF Spreads, SpreadOf, Counters

\* A request starts higher than it did; the others start where they did, or not
\* below that request, and now above.
LEMMA SpreadFalls ==
    ASSUME NEW R \in [Requests -> Counters], NEW S \in [Requests -> Counters], NEW c \in Requests, S[c] > R[c],
           \A k \in Requests : S[k] = R[k] \/ (S[k] > R[c] /\ R[k] >= R[c])
    PROVE  Cardinality(Lower(SpreadOf(S))) + 1 <= Cardinality(Lower(SpreadOf(R)))
<1> DEFINE v == R[c]
           at(Q, u) == {k \in Requests : Q[k] <= u}
<1>t. v \in Counters /\ v \in Nat /\ \A k \in Requests : R[k] \in Nat /\ S[k] \in Nat
  BY CountersTyped
<1>1. \A u \in Counters : u < v => at(S, u) = at(R, u)
  <2> SUFFICES ASSUME NEW u \in Counters, u < v, NEW k \in Requests
               PROVE  S[k] <= u <=> R[k] <= u
    OBVIOUS
  <2>1. u \in Nat
    BY CountersTyped
  <2>2. S[k] = R[k] \/ (S[k] > v /\ R[k] >= v)
    OBVIOUS
  <2> HIDE DEF v
  <2> QED BY <2>1, <2>2, <1>t
<1>2. at(S, v) \subseteq at(R, v) \ {c} /\ c \in at(R, v)
  BY <1>t
<1>3. IsFiniteSet(at(R, v)) /\ IsFiniteSet(at(S, v))
  BY <1>t, SpreadTyped
<1> HIDE DEF at, v
<1>4. /\ IsFiniteSet(at(R, v) \ {c}) /\ Cardinality(at(R, v) \ {c}) = Cardinality(at(R, v)) - 1
  BY <1>2, <1>3, FS_RemoveElement
<1>5. Cardinality(at(S, v)) <= Cardinality(at(R, v) \ {c})
  BY <1>2, <1>4, FS_Subset
<1>6. Cardinality(at(R, v)) \in Nat /\ Cardinality(at(S, v)) \in Nat
  BY <1>3, FS_CardinalityType
<1>7. \A u \in Counters : SpreadOf(S)[u] = Cardinality(at(S, u)) /\ SpreadOf(R)[u] = Cardinality(at(R, u))
  BY SpreadTyped DEF at
<1>8. LessAt(SpreadOf(S), SpreadOf(R), v)
  BY <1>t, <1>1, <1>4, <1>5, <1>6, <1>7 DEF LessAt
<1> QED BY <1>t, <1>8, SpreadTyped, LowerFewer

LEMMA CodesTyped ==
    ASSUME CodesTypeOK
    PROVE  /\ codes \in Seq(CodeRecords) /\ Len(codes) \in Nat /\ DOMAIN codes = 1..Len(codes)
           /\ \A i \in DOMAIN codes : codes[i] \in CodeRecords
           /\ request \in [Requests -> RequestRecords] /\ \A c \in Requests : request[c] \in RequestRecords
<1>1. codes \in Seq(CodeRecords) /\ request \in [Requests -> RequestRecords]
  BY DEF CodesTypeOK, CodeRecords, RequestRecords
<1> QED BY <1>1

LEMMA ReachesTyped ==
    ASSUME CodesTypeOK, NEW i \in DOMAIN codes
    PROVE  /\ IsFiniteSet(Comparing(i)) /\ Cardinality(Comparing(i)) \in Nat
           /\ Cardinality(Comparing(i)) <= Cardinality(Requests)
           /\ codes[i].attempts < MaxAttempts => Reaches(i) \in [Requests -> Counters]
<1>1. Comparing(i) \in SUBSET Requests
  BY DEF Comparing
<1>2. /\ IsFiniteSet(Comparing(i)) /\ Cardinality(Comparing(i)) <= Cardinality(Requests)
  BY <1>1, CountersTyped, FS_Subset
<1>3. ASSUME codes[i].attempts < MaxAttempts, NEW c \in Requests
      PROVE  Reach(c, i) \in Counters
  <2>1. codes[i].attempts \in Counters
    BY <1>3, CodesTyped, CountersTyped DEF CodeRecords, Counters
  <2>2. request[c].attempts \in Counters
    BY CodesTyped DEF RequestRecords, Counters
  <2> QED BY <2>1, <2>2 DEF Reach
<1> QED BY <1>2, <1>3, FS_CardinalityType DEF Reaches

\* The numbers of a code as it was.
LEMMA CodeNumbers ==
    ASSUME CodesInv, NEW i \in DOMAIN codes
    PROVE  /\ codes[i].guesses \in Nat /\ codes[i].accepted \in Nat /\ codes[i].attempts \in Nat
           /\ codes[i].locked \in BOOLEAN /\ CodeInv(i)
           /\ Cardinality(Comparing(i)) \in Nat /\ Cardinality(Comparing(i)) <= Cardinality(Requests)
           /\ Cardinality(Requests) \in Nat /\ Cardinality(Spreads) \in Nat /\ IsFiniteSet(Comparing(i))
           /\ ~codes[i].locked =>
                  /\ Reaches(i) \in [Requests -> Counters]
                  /\ Cardinality(Lower(SpreadOf(Reaches(i)))) \in Nat
<1>1. CodeInv(i) /\ CodesTypeOK
  BY DEF CodesInv
<1>2. codes[i] \in CodeRecords
  BY <1>1, CodesTyped
<1>3. ~codes[i].locked => Reaches(i) \in [Requests -> Counters]
  BY <1>1, ReachesTyped DEF CodeInv
<1>4. ~codes[i].locked => Cardinality(Lower(SpreadOf(Reaches(i)))) \in Nat
  BY <1>3, SpreadTyped, LowerCounts
<1> QED BY <1>1, <1>2, <1>3, <1>4, ReachesTyped, CountersTyped, SpreadsFinite DEF CodeRecords

\* Nobody starts or ends comparing with the code; it may be spent.
LEMMA CodeSame ==
    ASSUME CodesInv, NEW i \in DOMAIN codes,
           codes'[i].guesses = codes[i].guesses, codes'[i].accepted = codes[i].accepted,
           codes'[i].locked = codes[i].locked, codes'[i].attempts = codes[i].attempts,
           codes'[i].state # "spent" => codes[i].state # "spent",
           \A c \in Requests : /\ c \in Comparing(i)' <=> c \in Comparing(i)
                               /\ c \in Comparing(i) => request'[c].attempts = request[c].attempts
    PROVE  CodeInv(i)'
<1>1. Comparing(i)' = Comparing(i)
  BY DEF Comparing
<1>2. Reaches(i)' = Reaches(i)
  <2>1. \A c \in Requests : Reach(c, i)' = Reach(c, i)
    BY <1>1 DEF Reach
  <2> QED BY <2>1 DEF Reaches
<1> QED BY <1>1, <1>2, CodeNumbers DEF CodeInv

\* A request is done with the code: it was accepted, or it threw.
LEMMA CodeLeft ==
    ASSUME CodesInv, NEW i \in DOMAIN codes, NEW c \in Comparing(i), ~In(c, "compare")',
           codes'[i].guesses = codes[i].guesses,
           codes'[i].locked = codes[i].locked, codes'[i].attempts = codes[i].attempts,
           \/ codes'[i].accepted = codes[i].accepted /\ codes'[i].state = codes[i].state
           \/ codes'[i].accepted = codes[i].accepted + 1 /\ codes'[i].state = "spent",
           \A k \in Requests \ {c} : request'[k] = request[k]
    PROVE  CodeInv(i)'
<1>n. /\ codes[i].guesses \in Nat /\ codes[i].accepted \in Nat /\ codes[i].attempts \in Nat
      /\ codes[i].locked \in BOOLEAN /\ CodeInv(i)
      /\ Cardinality(Comparing(i)) \in Nat /\ Cardinality(Requests) \in Nat /\ Cardinality(Spreads) \in Nat
      /\ IsFiniteSet(Comparing(i))
      /\ ~codes[i].locked => /\ Reaches(i) \in [Requests -> Counters]
                             /\ Cardinality(Lower(SpreadOf(Reaches(i)))) \in Nat
  BY CodeNumbers
<1>0. c \in Requests
  BY DEF Comparing
<1>1. Comparing(i)' = Comparing(i) \ {c}
  BY DEF Comparing, In
<1>2. Cardinality(Comparing(i)') = Cardinality(Comparing(i)) - 1
  BY <1>1, <1>n, FS_RemoveElement
<1>3. ASSUME ~codes[i].locked
      PROVE  Cardinality(Lower(SpreadOf(Reaches(i)'))) <= Cardinality(Lower(SpreadOf(Reaches(i))))
             /\ Cardinality(Lower(SpreadOf(Reaches(i)'))) \in Nat
  <2> DEFINE R == Reaches(i)
             S == Reaches(i)'
  <2>1. codes[i].attempts < MaxAttempts
    BY <1>3, <1>n DEF CodeInv
  <2>2. codes[i].attempts \in Counters
    BY <2>1, <1>n, CountersTyped DEF Counters
  <2>3. R \in [Requests -> Counters] /\ \A k \in Requests : R[k] = Reach(k, i)
    BY <1>3, <1>n DEF Reaches
  <2>4. \A k \in Requests \ {c} : Reach(k, i)' = Reach(k, i)
    BY <1>1 DEF Reach, Comparing
  <2>5. Reach(c, i)' = codes[i].attempts
    BY <1>1 DEF Reach
  <2>6. S \in [Requests -> Counters] /\ S[c] = codes[i].attempts /\ \A k \in Requests \ {c} : S[k] = R[k]
    <3>1. S = [k \in Requests |-> Reach(k, i)']
      BY DEF Reaches
    <3>2. S[c] = codes[i].attempts /\ \A k \in Requests \ {c} : S[k] = R[k]
      BY <1>0, <3>1, <2>3, <2>4, <2>5
    <3>3. \A k \in Requests : S[k] \in Counters
      BY <3>2, <2>2, <2>3
    <3> HIDE DEF R
    <3> QED BY <3>1, <3>2, <3>3
  <2>7. R[c] <= codes[i].attempts /\ R[c] \in Nat
    <3>1. R[c] = Reach(c, i) /\ R[c] \in Nat
      BY <1>0, <2>3, CountersTyped
    <3>2. Reach(c, i) = codes[i].attempts \/ Reach(c, i) < codes[i].attempts
      BY DEF Reach
    <3> HIDE DEF R
    <3> QED BY <3>1, <3>2, <1>n
  <2> HIDE DEF R, S
  <2>8. CASE R[c] = codes[i].attempts
    <3>1. R = S
      BY <2>8, <2>3, <2>6, <1>0
    <3> QED BY <3>1, <1>3, <1>n DEF R, S
  <2>9. CASE R[c] < codes[i].attempts
    <3>0. S[c] > R[c] /\ \A k \in Requests : S[k] = R[k] \/ (S[k] > R[c] /\ R[k] >= R[c])
      BY <2>9, <2>6, <2>7, <1>0, <1>n
    <3>1. Cardinality(Lower(SpreadOf(S))) + 1 <= Cardinality(Lower(SpreadOf(R)))
      BY <3>0, <2>3, <2>6, <1>0, SpreadFalls
    <3>2. Cardinality(Lower(SpreadOf(S))) \in Nat /\ Cardinality(Lower(SpreadOf(R))) \in Nat
      BY <2>3, <2>6, SpreadTyped, LowerCounts
    <3>3. Cardinality(Lower(SpreadOf(S))) <= Cardinality(Lower(SpreadOf(R)))
      BY <3>1, <3>2
    <3> QED BY <3>2, <3>3 DEF R, S
  <2> QED BY <2>7, <2>8, <2>9, <1>n
<1> QED BY <1>2, <1>3, <1>n DEF CodeInv

\* A request guesses wrong.
LEMMA CodeGuessed ==
    ASSUME CodesInv, NEW i \in DOMAIN codes, NEW c \in Comparing(i), ~In(c, "compare")',
           codes'[i].attempts = request[c].attempts + 1, codes'[i].guesses = codes[i].guesses + 1,
           codes'[i].locked = LockedBy(request[c].attempts + 1, codes[i]),
           codes'[i].accepted = codes[i].accepted, codes'[i].state = codes[i].state,
           \A k \in Requests \ {c} : request'[k] = request[k]
    PROVE  CodeInv(i)'
<1>n. /\ codes[i].guesses \in Nat /\ codes[i].accepted \in Nat /\ codes[i].attempts \in Nat
      /\ codes[i].locked \in BOOLEAN /\ CodeInv(i)
      /\ Cardinality(Comparing(i)) \in Nat /\ Cardinality(Comparing(i)) <= Cardinality(Requests)
      /\ Cardinality(Requests) \in Nat /\ Cardinality(Spreads) \in Nat
      /\ IsFiniteSet(Comparing(i))
      /\ ~codes[i].locked => /\ Reaches(i) \in [Requests -> Counters]
                             /\ Cardinality(Lower(SpreadOf(Reaches(i)))) \in Nat
  BY CodeNumbers
<1>0. c \in Requests /\ \A k \in Requests : request[k].attempts \in Nat
  BY CodesTyped, CountersTyped DEF Comparing, CodesInv, RequestRecords, Counters
<1>1. Comparing(i)' = Comparing(i) \ {c}
  BY DEF Comparing, In
<1>2. Cardinality(Comparing(i)') = Cardinality(Comparing(i)) - 1
  BY <1>1, <1>n, FS_RemoveElement
<1>l. codes'[i].locked <=> codes[i].locked \/ request[c].attempts + 1 >= MaxAttempts
  BY <1>n DEF LockedBy
<1>3. ASSUME ~codes'[i].locked
      PROVE  /\ Cardinality(Lower(SpreadOf(Reaches(i)'))) + 1 <= Cardinality(Lower(SpreadOf(Reaches(i))))
             /\ Cardinality(Lower(SpreadOf(Reaches(i)'))) \in Nat
  <2> DEFINE R == Reaches(i)
             S == Reaches(i)'
             a == request[c].attempts
             A == codes[i].attempts
  <2>1. ~codes[i].locked /\ a + 1 < MaxAttempts /\ a \in Nat /\ A \in Nat /\ A < MaxAttempts
    BY <1>3, <1>0, <1>l, <1>n, CountersTyped DEF CodeInv
  <2>3. R \in [Requests -> Counters] /\ \A k \in Requests : R[k] = Reach(k, i)
    BY <2>1, <1>n DEF Reaches
  <2>4. R[c] = IF a < A THEN a ELSE A
    BY <1>0, <2>3 DEF Reach
  <2>5. \A k \in Requests : Reach(k, i)' =
            IF k \in Comparing(i) /\ k # c /\ request[k].attempts < a + 1 THEN request[k].attempts ELSE a + 1
    BY <1>1 DEF Reach, Comparing
  <2>6. \A k \in Requests : R[k] = IF k \in Comparing(i) /\ request[k].attempts < A THEN request[k].attempts ELSE A
    BY <2>3 DEF Reach
  <2>7. S = [k \in Requests |-> Reach(k, i)']
    BY DEF Reaches
  <2>8. \A k \in Requests : /\ S[k] = IF k \in Comparing(i) /\ k # c /\ request[k].attempts < a + 1
                                      THEN request[k].attempts ELSE a + 1
                            /\ request[k].attempts \in Nat
    BY <1>0, <2>5, <2>7
  <2>9. S \in [Requests -> Counters]
    <3>1. a + 1 \in Counters /\ \A k \in Requests : request[k].attempts < a + 1 => request[k].attempts \in Counters
      BY <1>0, <2>1, CountersTyped DEF Counters
    <3> QED BY <2>5, <2>7, <3>1
  <2> HIDE DEF R, S, a, A
  <2>10. S[c] > R[c]
    BY <1>0, <2>1, <2>4, <2>8
  <2>11. \A k \in Requests : S[k] = R[k] \/ (S[k] > R[c] /\ R[k] >= R[c])
    <3> SUFFICES ASSUME NEW k \in Requests PROVE S[k] = R[k] \/ (S[k] > R[c] /\ R[k] >= R[c])
      OBVIOUS
    <3> DEFINE b == request[k].attempts
    <3>1. /\ S[k] = (IF k \in Comparing(i) /\ k # c /\ b < a + 1 THEN b ELSE a + 1)
          /\ R[k] = (IF k \in Comparing(i) /\ b < A THEN b ELSE A)
          /\ b \in Nat
      BY <2>6, <2>8
    <3>2. k = c => S[k] = a + 1
      BY <3>1
    <3> HIDE DEF b
    <3>3. CASE k = c
      BY <3>2, <3>3, <2>1, <2>4
    <3>4. CASE k # c /\ k \in Comparing(i)
      BY <3>1, <3>4, <2>1, <2>4
    <3>5. CASE k \notin Comparing(i)
      BY <3>1, <3>5, <2>1, <2>4
    <3> QED BY <3>3, <3>4, <3>5
  <2>12. Cardinality(Lower(SpreadOf(S))) + 1 <= Cardinality(Lower(SpreadOf(R)))
    BY <1>0, <2>3, <2>9, <2>10, <2>11, SpreadFalls
  <2>13. Cardinality(Lower(SpreadOf(S))) \in Nat
    BY <2>9, SpreadTyped, LowerCounts
  <2> QED BY <2>12, <2>13 DEF R, S
<1>4. ~codes'[i].locked => ~codes[i].locked /\ codes'[i].attempts < MaxAttempts
  BY <1>0, <1>l, CountersTyped
<1>5. codes'[i].accepted + Cardinality(Comparing(i)') <= Cardinality(Requests)
  BY <1>2, <1>n DEF CodeInv
<1>6. codes'[i].locked =>
          codes'[i].guesses + Cardinality(Comparing(i)') <= Cardinality(Spreads) + Cardinality(Requests) - 1
  <2>1. CASE codes[i].locked
    BY <2>1, <1>2, <1>n DEF CodeInv
  <2>2. CASE ~codes[i].locked
    <3>1. codes[i].guesses <= Cardinality(Spreads) - 1
      BY <2>2, <1>n DEF CodeInv
    <3> QED BY <3>1, <1>2, <1>n
  <2> QED BY <2>1, <2>2
<1>7. ~codes'[i].locked =>
          codes'[i].guesses + Cardinality(Lower(SpreadOf(Reaches(i)'))) <= Cardinality(Spreads) - 1
  BY <1>3, <1>4, <1>n DEF CodeInv
<1>8. codes'[i].state # "spent" => codes'[i].accepted = 0
  BY <1>n DEF CodeInv
<1> QED BY <1>4, <1>5, <1>6, <1>7, <1>8 DEF CodeInv

\* A nonempty set of rows has a newest one: there is one with the fewest above it,
\* because proper subsets of a finite set are well-founded.
LEMMA NewestOf ==
    ASSUME NEW n \in Nat, NEW T \in SUBSET (1..n), T # {}
    PROVE  Max(T) \in T
<1> DEFINE Above(m) == {k \in T : k > m}
           F == {Above(m) : m \in T}
<1>1. IsFiniteSet(T)
  <2>1. IsFiniteSet(1..n)
    BY FS_Interval
  <2> QED BY <2>1, FS_Subset
<1>2. IsWellFoundedOn(StrictSubsetOrdering(T), SUBSET T)
  <2>1. IsWellFoundedOn(StrictSubsetOrdering(T), FiniteSubsetsOf(T))
    BY FS_StrictSubsetOrderingWellFounded
  <2> QED BY <1>1, <2>1, FS_FiniteSubsetsOfFinite
<1>3. F \subseteq SUBSET T /\ F # {}
  OBVIOUS
<1>4. PICK S \in F : \A R \in F : <<R, S>> \notin StrictSubsetOrdering(T)
  <2> HIDE DEF F
  <2> QED BY <1>2, <1>3, WFMin
<1>5. PICK m \in T : S = Above(m)
  OBVIOUS
<1>6. T \subseteq Int
  OBVIOUS
<1>7. ASSUME NEW k \in T, k > m
      PROVE  FALSE
  <2>1. Above(k) \in F
    OBVIOUS
  <2>2. Above(k) \subseteq S /\ k \in S /\ k \notin Above(k)
    <3>1. \A x \in T : x > k => x > m
      BY <1>6, <1>7
    <3>2. ~ (k > k)
      BY <1>6
    <3> QED BY <3>1, <3>2, <1>5, <1>7
  <2> QED BY <2>1, <2>2, <1>3, <1>4 DEF StrictSubsetOrdering
<1>8. \E x \in T : \A y \in T : x >= y
  BY <1>5, <1>6, <1>7
<1> QED BY <1>8 DEF Max

LEMMA UnusedFinite ==
    ASSUME CodesTypeOK
    PROVE  /\ IsFiniteSet(Unused) /\ Cardinality(Unused) \in Nat /\ Unused \subseteq DOMAIN codes
           /\ Unused # {} => Max(Unused) \in Unused
           /\ IsFiniteSet(Creating) /\ Cardinality(Creating) \in Nat /\ Cardinality(Creating) <= Cardinality(Requests)
<1>1. Unused \in SUBSET (1..Len(codes)) /\ Len(codes) \in Nat
  BY CodesTyped DEF Unused
<1>2. IsFiniteSet(1..Len(codes))
  BY <1>1, FS_Interval
<1>3. IsFiniteSet(Unused)
  BY <1>1, <1>2, FS_Subset
<1>4. Unused # {} => Max(Unused) \in Unused
  BY <1>1, NewestOf
<1>5. Creating \in SUBSET Requests
  BY DEF Creating
<1>6. IsFiniteSet(Creating) /\ Cardinality(Creating) <= Cardinality(Requests)
  BY <1>5, CountersTyped, FS_Subset
<1> QED BY <1>3, <1>4, <1>6, FS_CardinalityType DEF Unused

\* No more unused codes and no more requests for one than there were.
LEMMA NoMoreUnused ==
    ASSUME CodesInv, Unused' \subseteq Unused, Creating' \subseteq Creating
    PROVE  Cardinality(Unused') + Cardinality(Creating') <= Cardinality(Requests)
<1>1. CodesTypeOK /\ Cardinality(Unused) + Cardinality(Creating) <= Cardinality(Requests)
  BY DEF CodesInv
<1>2. /\ IsFiniteSet(Unused) /\ Cardinality(Unused) \in Nat
      /\ IsFiniteSet(Creating) /\ Cardinality(Creating) \in Nat
  BY <1>1, UnusedFinite
<1>3. IsFiniteSet(Unused') /\ Cardinality(Unused') <= Cardinality(Unused)
  BY <1>2, FS_Subset
<1>4. IsFiniteSet(Creating') /\ Cardinality(Creating') <= Cardinality(Creating)
  BY <1>2, FS_Subset
<1>5. Cardinality(Unused') \in Nat /\ Cardinality(Creating') \in Nat
  BY <1>3, <1>4, FS_CardinalityType
<1> QED BY <1>1, <1>2, <1>3, <1>4, <1>5, CountersTyped

LEMMA Answers ==
    ASSUME CodesTypeOK, NEW c \in Requests, Answer(c)
    PROVE  /\ request' \in [Requests -> RequestRecords] /\ request'[c] = NoRequest
           /\ \A k \in Requests \ {c} : request'[k] = request[k]
           /\ ~In(c, "compare")' /\ Creating' = Creating \ {c}
<1>1. NoRequest \in RequestRecords
  BY CountersTyped DEF NoRequest, RequestRecords
<1>2. request' \in [Requests -> RequestRecords] /\ request'[c] = NoRequest
      /\ \A k \in Requests \ {c} : request'[k] = request[k]
  BY <1>1, CodesTyped DEF Answer
<1>3. NoRequest.pc = "idle"
  BY DEF NoRequest
<1> QED BY <1>2, <1>3 DEF In, Creating

LEMMA Proceeds ==
    ASSUME CodesTypeOK, NEW c \in Requests, NEW step \in {"cooldown", "insert"}, Proceed(c, step), ~In(c, "compare")
    PROVE  /\ request' \in [Requests -> RequestRecords]
           /\ \A k \in Requests : /\ request'[k].row = request[k].row /\ request'[k].attempts = request[k].attempts
                                  /\ In(k, "compare")' <=> In(k, "compare")
           /\ Creating' = Creating \cup {c}
           /\ \A i : Comparing(i)' = Comparing(i)
<1> DEFINE r == [request[c] EXCEPT !.pc = step]
<1>1. request[c] \in RequestRecords
  BY CodesTyped
<1>2. r \in RequestRecords /\ r.pc = step /\ r.row = request[c].row /\ r.attempts = request[c].attempts
  BY <1>1 DEF RequestRecords
<1>3. request' = [request EXCEPT ![c] = r]
  BY DEF Proceed
<1> HIDE DEF r
<1>4. request' \in [Requests -> RequestRecords] /\ request'[c] = r /\ \A k \in Requests \ {c} : request'[k] = request[k]
  BY <1>2, <1>3, CodesTyped
<1>5. \A k \in Requests : /\ request'[k].row = request[k].row /\ request'[k].attempts = request[k].attempts
                          /\ In(k, "compare")' <=> In(k, "compare")
  BY <1>2, <1>4 DEF In
<1>6. Creating' = Creating \cup {c}
  BY <1>2, <1>4 DEF Creating
<1> QED BY <1>4, <1>5, <1>6 DEF Comparing

LEMMA Spends ==
    ASSUME CodesTypeOK, NEW S
    PROVE  /\ Spend(S) \in Seq(CodeRecords) /\ Len(Spend(S)) = Len(codes) /\ DOMAIN Spend(S) = DOMAIN codes
           /\ \A i \in DOMAIN codes :
                  /\ Spend(S)[i].guesses = codes[i].guesses /\ Spend(S)[i].accepted = codes[i].accepted
                  /\ Spend(S)[i].locked = codes[i].locked /\ Spend(S)[i].attempts = codes[i].attempts
                  /\ Spend(S)[i].state = IF i \in S THEN "spent" ELSE codes[i].state
<1>1. \A i \in DOMAIN codes : codes[i] \in CodeRecords
  BY CodesTyped
<1>2. ASSUME NEW i \in DOMAIN codes
      PROVE  LET x == IF i \in S THEN [codes[i] EXCEPT !.state = "spent"] ELSE codes[i]
             IN  /\ x \in CodeRecords
                 /\ x.guesses = codes[i].guesses /\ x.accepted = codes[i].accepted
                 /\ x.locked = codes[i].locked /\ x.attempts = codes[i].attempts
                 /\ x.state = IF i \in S THEN "spent" ELSE codes[i].state
  BY <1>1, <1>2 DEF CodeRecords
<1> DEFINE Y(i) == IF i \in S THEN [codes[i] EXCEPT !.state = "spent"] ELSE codes[i]
<1>3. Spend(S) = [i \in DOMAIN codes |-> Y(i)]
  BY DEF Spend
<1>4. \A i \in DOMAIN codes : Y(i) \in CodeRecords
  BY <1>2
<1> HIDE DEF Y
<1>5. Spend(S) \in Seq(CodeRecords) /\ Len(Spend(S)) = Len(codes)
  BY <1>3, <1>4, CodesTyped
<1>6. DOMAIN Spend(S) = DOMAIN codes /\ \A i \in DOMAIN codes : Spend(S)[i] = Y(i)
  BY <1>3
<1> QED BY <1>2, <1>5, <1>6 DEF Y

\* The rows stay; nobody starts comparing.
LEMMA RowsStay ==
    ASSUME CodesInv, codes' \in Seq(CodeRecords), Len(codes') = Len(codes),
           request' \in [Requests -> RequestRecords],
           \A k \in Requests : In(k, "compare")' => In(k, "compare") /\ request'[k].row = request[k].row,
           Cardinality(Unused') + Cardinality(Creating') <= Cardinality(Requests),
           \A i \in DOMAIN codes : CodeInv(i)'
    PROVE  CodesInv'
<1>1. CodesTypeOK
  BY DEF CodesInv
<1>2. DOMAIN codes' = DOMAIN codes
  BY <1>1, CodesTyped
<1>3. CodesTypeOK'
  BY <1>1 DEF CodesTypeOK, CodeRecords, RequestRecords
<1>4. \A k \in Requests : In(k, "compare")' => request'[k].row \in DOMAIN codes'
  BY <1>2 DEF CodesInv
<1> QED BY <1>2, <1>3, <1>4 DEF CodesInv

\* Nobody starts or ends comparing; codes may be spent.
LEMMA ComparersStay ==
    ASSUME CodesInv, codes' \in Seq(CodeRecords), Len(codes') = Len(codes),
           request' \in [Requests -> RequestRecords],
           \A i \in DOMAIN codes :
               /\ codes'[i].guesses = codes[i].guesses /\ codes'[i].accepted = codes[i].accepted
               /\ codes'[i].locked = codes[i].locked /\ codes'[i].attempts = codes[i].attempts
               /\ codes'[i].state # "spent" => codes[i].state # "spent",
           \A k \in Requests : /\ In(k, "compare")' <=> In(k, "compare")
                               /\ In(k, "compare") => /\ request'[k].row = request[k].row
                                                      /\ request'[k].attempts = request[k].attempts,
           Cardinality(Unused') + Cardinality(Creating') <= Cardinality(Requests)
    PROVE  CodesInv'
<1>1. ASSUME NEW i \in DOMAIN codes
      PROVE  CodeInv(i)'
  <2>1. \A k \in Requests : /\ k \in Comparing(i)' <=> k \in Comparing(i)
                            /\ k \in Comparing(i) => request'[k].attempts = request[k].attempts
    BY DEF Comparing
  <2> QED BY <2>1, CodeSame
<1> QED BY <1>1, RowsStay

\* A request ends comparing with a row and may write to it; the others stay.
LEMMA ComparingEnds ==
    ASSUME CodesInv, NEW i \in DOMAIN codes, NEW c \in Comparing(i), Answer(c),
           codes' \in Seq(CodeRecords), Len(codes') = Len(codes),
           \A j \in DOMAIN codes \ {i} : codes'[j] = codes[j],
           codes'[i].state # "spent" => codes[i].state # "spent",
           CodeInv(i)'
    PROVE  CodesInv'
<1>1. CodesTypeOK /\ c \in Requests /\ In(c, "compare") /\ request[c].row = i
  BY DEF CodesInv, Comparing
<1>2. /\ request' \in [Requests -> RequestRecords]
      /\ \A k \in Requests \ {c} : request'[k] = request[k]
      /\ ~In(c, "compare")' /\ Creating' = Creating \ {c}
  BY <1>1, Answers
<1>3. Unused' \subseteq Unused
  <2>1. DOMAIN codes' = DOMAIN codes
    BY <1>1, CodesTyped
  <2> QED BY <2>1 DEF Unused
<1>4. Cardinality(Unused') + Cardinality(Creating') <= Cardinality(Requests)
  BY <1>2, <1>3, NoMoreUnused
<1>5. \A k \in Requests : In(k, "compare")' => In(k, "compare") /\ request'[k].row = request[k].row
  BY <1>2 DEF In
<1>6. ASSUME NEW j \in DOMAIN codes \ {i}
      PROVE  CodeInv(j)'
  <2>1. c \notin Comparing(j) /\ c \notin Comparing(j)'
    BY <1>2, <1>6 DEF Comparing
  <2>2. \A k \in Requests : /\ k \in Comparing(j)' <=> k \in Comparing(j)
                            /\ k \in Comparing(j) => request'[k].attempts = request[k].attempts
    BY <1>2, <2>1 DEF Comparing, In
  <2> QED BY <1>6, <2>2, CodeSame
<1> QED BY <1>2, <1>4, <1>5, <1>6, RowsStay

LEMMA InvalidateKept ==
    ASSUME CodesInv, NEW c \in Requests, InvalidatePrevious(c)
    PROVE  CodesInv'
<1>1. CodesTypeOK /\ ~In(c, "compare") /\ codes' = Spend(Unused) /\ Proceed(c, "cooldown")
  BY DEF CodesInv, InvalidatePrevious, In
<1>2. /\ request' \in [Requests -> RequestRecords]
      /\ \A k \in Requests : /\ request'[k].row = request[k].row /\ request'[k].attempts = request[k].attempts
                             /\ In(k, "compare")' <=> In(k, "compare")
      /\ Creating' = Creating \cup {c}
  BY <1>1, Proceeds
<1>3. /\ codes' \in Seq(CodeRecords) /\ Len(codes') = Len(codes) /\ DOMAIN codes' = DOMAIN codes
      /\ \A i \in DOMAIN codes :
             /\ codes'[i].guesses = codes[i].guesses /\ codes'[i].accepted = codes[i].accepted
             /\ codes'[i].locked = codes[i].locked /\ codes'[i].attempts = codes[i].attempts
             /\ codes'[i].state = IF i \in Unused THEN "spent" ELSE codes[i].state
  BY <1>1, Spends
<1>4. \A i \in DOMAIN codes : codes'[i].state = "spent"
  BY <1>3 DEF Unused
<1>5. Unused' = {}
  BY <1>3, <1>4 DEF Unused
<1>6. Cardinality(Unused') + Cardinality(Creating') <= Cardinality(Requests)
  <2>1. Creating' \in SUBSET Requests
    BY DEF Creating
  <2>2. IsFiniteSet(Creating') /\ Cardinality(Creating') <= Cardinality(Requests)
    BY <2>1, CountersTyped, FS_Subset
  <2>3. Cardinality(Unused') = 0 /\ Cardinality(Creating') \in Nat
    BY <1>5, <2>2, FS_EmptySet, FS_CardinalityType
  <2> QED BY <2>2, <2>3
<1> QED BY <1>2, <1>3, <1>4, <1>6, ComparersStay

LEMMA CooldownInv ==
    ASSUME CodesInv, NEW c \in Requests, CheckCooldown(c)
    PROVE  CodesInv'
<1>1. CodesTypeOK /\ ~In(c, "compare") /\ In(c, "cooldown") /\ codes' = codes
      /\ (Answer(c) \/ Proceed(c, "insert"))
  BY DEF CodesInv, CheckCooldown, In
<1>2. codes \in Seq(CodeRecords) /\ c \in Creating /\ Unused' \subseteq Unused
  BY <1>1, CodesTyped DEF Creating, In, Unused
<1>3. /\ request' \in [Requests -> RequestRecords] /\ Creating' \subseteq Creating
      /\ \A k \in Requests : /\ In(k, "compare")' <=> In(k, "compare")
                             /\ In(k, "compare") => /\ request'[k].row = request[k].row
                                                    /\ request'[k].attempts = request[k].attempts
  <2>1. CASE Answer(c)
    BY <2>1, <1>1, Answers DEF In
  <2>2. CASE Proceed(c, "insert")
    BY <2>2, <1>1, <1>2, Proceeds
  <2> QED BY <1>1, <2>1, <2>2
<1>4. Cardinality(Unused') + Cardinality(Creating') <= Cardinality(Requests)
  BY <1>2, <1>3, NoMoreUnused
<1> QED BY <1>1, <1>2, <1>3, <1>4, ComparersStay

LEMMA AgeKept ==
    ASSUME CodesInv, NEW i \in Unused, CodeAges(i)
    PROVE  CodesInv'
<1>1. CodesTypeOK /\ i \in DOMAIN codes /\ request' = request
  BY DEF CodesInv, CodeAges, Unused
<1>2. codes \in Seq(CodeRecords) /\ codes[i] \in CodeRecords /\ request \in [Requests -> RequestRecords]
      /\ Len(codes) \in Nat /\ DOMAIN codes = 1..Len(codes) /\ \A j \in DOMAIN codes : codes[j] \in CodeRecords
  BY <1>1, CodesTyped
<1>3. /\ codes' \in Seq(CodeRecords) /\ Len(codes') = Len(codes) /\ DOMAIN codes' = DOMAIN codes
      /\ \A j \in DOMAIN codes :
             /\ codes'[j].guesses = codes[j].guesses /\ codes'[j].accepted = codes[j].accepted
             /\ codes'[j].locked = codes[j].locked /\ codes'[j].attempts = codes[j].attempts
             /\ codes'[j].state # "spent" => codes[j].state # "spent"
  <2>1. CASE codes[i].state = "young"
    <3> DEFINE r == [codes[i] EXCEPT !.state = "old"]
    <3>1. /\ r \in CodeRecords /\ r.guesses = codes[i].guesses /\ r.accepted = codes[i].accepted
          /\ r.locked = codes[i].locked /\ r.attempts = codes[i].attempts
      BY <1>2 DEF CodeRecords
    <3>2. codes' = [codes EXCEPT ![i] = r]
      BY <2>1 DEF CodeAges
    <3> HIDE DEF r
    <3>3. codes' \in Seq(CodeRecords) /\ Len(codes') = Len(codes)
      BY <3>1, <3>2, <1>1, <1>2
    <3>4. DOMAIN codes' = DOMAIN codes /\ codes'[i] = r /\ \A j \in DOMAIN codes \ {i} : codes'[j] = codes[j]
      BY <3>2, <1>1
    <3> QED BY <3>1, <3>3, <3>4, <2>1
  <2>2. CASE codes[i].state # "young"
    <3>1. codes' = Spend({i})
      BY <2>2 DEF CodeAges
    <3> QED BY <3>1, <1>1, Spends
  <2> QED BY <2>1, <2>2
<1>4. Unused' \subseteq Unused /\ Creating' = Creating
  BY <1>1, <1>3 DEF Unused, Creating
<1>5. Cardinality(Unused') + Cardinality(Creating') <= Cardinality(Requests)
  BY <1>4, NoMoreUnused
<1> QED BY <1>1, <1>2, <1>3, <1>5, ComparersStay DEF In

LEMMA InsertKept ==
    ASSUME CodesInv, NEW c \in Requests, InsertCode(c)
    PROVE  CodesInv'
<1> DEFINE new == [state |-> "young", locked |-> FALSE, attempts |-> 0, guesses |-> 0, accepted |-> 0]
<1>1. CodesTypeOK /\ In(c, "insert") /\ Len(codes) < MaxCodes /\ codes' = Append(codes, new) /\ Answer(c)
  BY DEF CodesInv, InsertCode
<1>2. /\ codes \in Seq(CodeRecords) /\ Len(codes) \in Nat /\ DOMAIN codes = 1..Len(codes)
      /\ \A j \in DOMAIN codes : codes[j] \in CodeRecords
  BY <1>1, CodesTyped
<1>n. PICK n \in Nat : n = Len(codes) + 1
  BY <1>2
<1>3. /\ request' \in [Requests -> RequestRecords] /\ \A k \in Requests \ {c} : request'[k] = request[k]
      /\ ~In(c, "compare")' /\ Creating' = Creating \ {c}
  BY <1>1, Answers
<1>4. new \in CodeRecords
  BY CountersTyped DEF CodeRecords
<1> HIDE DEF new
<1>5. /\ codes' \in Seq(CodeRecords) /\ Len(codes') = n /\ DOMAIN codes' = 1..n /\ codes'[n] = new
      /\ \A i \in DOMAIN codes : codes'[i] = codes[i]
  BY <1>1, <1>2, <1>4, <1>n
<1>6. CodesTypeOK'
  <2>1. Len(codes') <= MaxCodes
    BY <1>1, <1>2, <1>5, <1>n, CountersTyped
  <2> QED BY <2>1, <1>3, <1>5 DEF CodesTypeOK, CodeRecords, RequestRecords
<1>7. \A k \in Requests : In(k, "compare")' => In(k, "compare") /\ request'[k] = request[k]
  BY <1>3 DEF In
<1>8. \A k \in Requests : In(k, "compare")' => request'[k].row \in DOMAIN codes
  BY <1>7 DEF CodesInv
<1>9. Cardinality(Unused') + Cardinality(Creating') <= Cardinality(Requests)
  <2>1. Unused' \subseteq Unused \cup {n} /\ c \in Creating
    BY <1>1, <1>2, <1>5, <1>n DEF Unused, Creating, In
  <2>2. /\ IsFiniteSet(Unused) /\ Cardinality(Unused) \in Nat /\ Unused \subseteq DOMAIN codes
        /\ IsFiniteSet(Creating) /\ Cardinality(Creating) \in Nat
    BY <1>1, UnusedFinite
  <2>3. n \notin Unused
    BY <2>2, <1>2, <1>n
  <2>4. IsFiniteSet(Unused \cup {n}) /\ Cardinality(Unused \cup {n}) = Cardinality(Unused) + 1
    BY <2>2, <2>3, FS_AddElement
  <2>5. IsFiniteSet(Unused') /\ Cardinality(Unused') <= Cardinality(Unused) + 1
    BY <2>1, <2>4, FS_Subset
  <2>6. Cardinality(Creating') = Cardinality(Creating) - 1 /\ Cardinality(Unused') \in Nat
    BY <1>3, <2>1, <2>2, <2>5, FS_RemoveElement, FS_CardinalityType
  <2>7. Cardinality(Unused) + Cardinality(Creating) <= Cardinality(Requests)
    BY DEF CodesInv
  <2> QED BY <2>2, <2>5, <2>6, <2>7, CountersTyped
<1>10. ASSUME NEW i \in DOMAIN codes
       PROVE  CodeInv(i)'
  <2>1. \A k \in Requests : /\ k \in Comparing(i)' <=> k \in Comparing(i)
                            /\ k \in Comparing(i) => request'[k].attempts = request[k].attempts
    BY <1>1, <1>3 DEF Comparing, In
  <2> QED BY <2>1, <1>5, CodeSame
<1>11. CodeInv(n)'
  <2>1. n \notin DOMAIN codes
    BY <1>2, <1>n
  <2>2. Comparing(n)' = {}
    <3>1. \A k \in Requests : In(k, "compare")' => request'[k].row # n
      BY <1>8, <2>1
    <3> QED BY <3>1 DEF Comparing
  <2>3. /\ codes'[n].state = "young" /\ codes'[n].locked = FALSE /\ codes'[n].attempts = 0
        /\ codes'[n].guesses = 0 /\ codes'[n].accepted = 0
    BY <1>5 DEF new
  <2>4. Cardinality(Comparing(n)') = 0
    BY <2>2, FS_EmptySet
  <2>5. Cardinality(Lower(SpreadOf(Reaches(n)'))) <= Cardinality(Spreads) - 1
        /\ Cardinality(Lower(SpreadOf(Reaches(n)'))) \in Nat
    <3>1. \A k \in Requests : Reach(k, n)' = 0
      BY <2>2, <2>3 DEF Reach
    <3>2. Reaches(n)' = [k \in Requests |-> 0]
      BY <3>1 DEF Reaches
    <3>3. 0 \in Counters
      BY CountersTyped DEF Counters
    <3>4. Reaches(n)' \in [Requests -> Counters]
      BY <3>2, <3>3
    <3> HIDE DEF Reaches
    <3> QED BY <3>4, SpreadTyped, LowerCounts
  <2>6. 0 < MaxAttempts
    BY CountersTyped
  <2> QED BY <2>3, <2>4, <2>5, <2>6, CountersTyped, SpreadsFinite DEF CodeInv
<1>12. \A i \in DOMAIN codes' : CodeInv(i)'
  <2>1. DOMAIN codes' = DOMAIN codes \cup {n}
    BY <1>2, <1>5, <1>n
  <2> QED BY <2>1, <1>10, <1>11
<1>13. \A k \in Requests : In(k, "compare")' => request'[k].row \in DOMAIN codes'
  BY <1>2, <1>5, <1>8, <1>n
<1> QED BY <1>6, <1>9, <1>12, <1>13 DEF CodesInv

\* A request has read an unused code that is not locked, and so nobody has been
\* accepted with it.
LEMMA CodeRead ==
    ASSUME CodesInv, NEW i \in DOMAIN codes, NEW c \in Requests, In(c, "idle"),
           codes[i].state # "spent", ~codes[i].locked, codes' = codes,
           request'[c].attempts = codes[i].attempts,
           Comparing(i)' = Comparing(i) \cup {c}, \A k \in Requests \ {c} : request'[k] = request[k]
    PROVE  CodeInv(i)'
<1>n. /\ codes[i].guesses \in Nat /\ codes[i].accepted \in Nat /\ codes[i].attempts \in Nat
      /\ codes[i].locked \in BOOLEAN /\ CodeInv(i)
      /\ Cardinality(Requests) \in Nat /\ Cardinality(Spreads) \in Nat
  BY CodeNumbers
<1>1. Reaches(i)' = Reaches(i)
  <2>1. c \notin Comparing(i)
    BY DEF Comparing, In
  <2>2. Reach(c, i)' = codes[i].attempts /\ Reach(c, i) = codes[i].attempts
    BY <1>n, <2>1 DEF Reach
  <2>3. \A k \in Requests \ {c} : Reach(k, i)' = Reach(k, i)
    BY DEF Reach
  <2>4. \A k \in Requests : Reach(k, i)' = Reach(k, i)
    BY <2>2, <2>3
  <2> QED BY <2>4 DEF Reaches
<1>2. codes[i].accepted = 0
  BY <1>n DEF CodeInv
<1>3. Cardinality(Comparing(i)') \in Nat /\ Cardinality(Comparing(i)') <= Cardinality(Requests)
  <2>1. Comparing(i)' \in SUBSET Requests
    BY DEF Comparing
  <2>2. IsFiniteSet(Comparing(i)') /\ Cardinality(Comparing(i)') <= Cardinality(Requests)
    BY <2>1, CountersTyped, FS_Subset
  <2> QED BY <2>2, FS_CardinalityType
<1> QED BY <1>1, <1>2, <1>3, <1>n DEF CodeInv

LEMMA ReadKept ==
    ASSUME CodesInv, NEW c \in Requests, ReadCode(c)
    PROVE  CodesInv'
<1>1. CodesTypeOK /\ In(c, "idle") /\ Unused # {} /\ codes' = codes
  BY DEF CodesInv, ReadCode
<1>2. Max(Unused) \in Unused
  BY <1>1, UnusedFinite
<1>3. PICK i \in Unused : i = Max(Unused)
  BY <1>2
<1>4. i \in DOMAIN codes /\ codes[i].state # "spent" /\ ~codes[i].locked
      /\ request' = [request EXCEPT ![c] = [pc |-> "compare", row |-> i, attempts |-> codes[i].attempts]]
  BY <1>3 DEF ReadCode, Unused
<1> DEFINE r == [pc |-> "compare", row |-> i, attempts |-> codes[i].attempts]
<1>5. /\ codes \in Seq(CodeRecords) /\ Len(codes) \in Nat /\ DOMAIN codes = 1..Len(codes)
      /\ codes[i] \in CodeRecords /\ Len(codes) <= MaxCodes
  BY <1>1, <1>4, CodesTyped DEF CodesTypeOK
<1>6. codes[i].attempts \in 0..(MaxAttempts - 1) /\ i \in 0..MaxCodes
  <2>1. CodeInv(i) /\ codes[i].attempts \in Nat
    BY <1>4, CodeNumbers
  <2>2. codes[i].attempts < MaxAttempts
    BY <1>4, <2>1 DEF CodeInv
  <2> QED BY <2>1, <2>2, <1>4, <1>5, CountersTyped
<1>7. r \in RequestRecords
  BY <1>6 DEF RequestRecords
<1>8. r.pc = "compare" /\ r.row = i /\ r.attempts = codes[i].attempts
  OBVIOUS
<1>9. request' = [request EXCEPT ![c] = r]
  BY <1>4
<1> HIDE DEF r
<1>10. /\ request' \in [Requests -> RequestRecords] /\ request'[c] = r
       /\ \A k \in Requests \ {c} : request'[k] = request[k]
  BY <1>1, <1>7, <1>9, CodesTyped
<1>11. CodesTypeOK'
  BY <1>1, <1>10 DEF CodesTypeOK, RequestRecords
<1>12. \A k \in Requests : In(k, "compare")' => request'[k].row \in DOMAIN codes'
  <2>1. \A k \in Requests \ {c} : In(k, "compare")' => request'[k].row \in DOMAIN codes
    BY <1>10 DEF CodesInv, In
  <2> QED BY <2>1, <1>1, <1>4, <1>8, <1>10
<1>13. Cardinality(Unused') + Cardinality(Creating') <= Cardinality(Requests)
  <2>1. Unused' = Unused /\ Creating' = Creating
    BY <1>1, <1>8, <1>10 DEF Unused, Creating, In
  <2> QED BY <2>1, NoMoreUnused
<1>14. CodeInv(i)'
  <2>1. Comparing(i)' = Comparing(i) \cup {c}
    BY <1>8, <1>10 DEF Comparing, In
  <2> QED BY <2>1, <1>1, <1>4, <1>8, <1>10, CodeRead
<1>15. ASSUME NEW j \in DOMAIN codes, j # i
       PROVE  CodeInv(j)'
  <2>1. \A k \in Requests : /\ k \in Comparing(j)' <=> k \in Comparing(j)
                            /\ k \in Comparing(j) => request'[k].attempts = request[k].attempts
    BY <1>1, <1>8, <1>10, <1>15 DEF Comparing, In
  <2> QED BY <2>1, <1>1, CodeSame
<1> QED BY <1>1, <1>11, <1>12, <1>13, <1>14, <1>15 DEF CodesInv

LEMMA RejectKept ==
    ASSUME CodesInv, NEW c \in Requests, RejectCode(c)
    PROVE  CodesInv'
<1>1. CodesTypeOK /\ In(c, "compare") /\ Answer(c) /\ request[c].row \in DOMAIN codes
  BY DEF CodesInv, RejectCode
<1>2. PICK i \in DOMAIN codes : i = request[c].row
  BY <1>1
<1> DEFINE locked == LockedBy(request[c].attempts + 1, codes[i])
           r == [codes[i] EXCEPT !.attempts = request[c].attempts + 1, !.guesses = codes[i].guesses + 1,
                                 !.locked = locked]
<1>3. /\ codes \in Seq(CodeRecords) /\ Len(codes) \in Nat /\ DOMAIN codes = 1..Len(codes)
      /\ codes[i] \in CodeRecords /\ request[c] \in RequestRecords
  BY <1>1, CodesTyped
<1>4. codes' = [codes EXCEPT ![i] = r]
  BY <1>2 DEF RejectCode
<1>5. locked \in BOOLEAN
  BY <1>3 DEF LockedBy, CodeRecords
<1>6. request[c].attempts + 1 \in 0..MaxAttempts
  BY <1>3, CountersTyped DEF RequestRecords
<1>7. /\ r \in CodeRecords /\ r.attempts = request[c].attempts + 1 /\ r.guesses = codes[i].guesses + 1
      /\ r.locked = LockedBy(request[c].attempts + 1, codes[i])
      /\ r.accepted = codes[i].accepted /\ r.state = codes[i].state
  <2>1. PICK x \in CodeRecords : x = codes[i]
    BY <1>3
  <2>2. PICK a \in 0..MaxAttempts : a = request[c].attempts + 1
    BY <1>6
  <2> HIDE DEF locked
  <2>3. PICK l \in BOOLEAN : l = locked
    BY <1>5
  <2>g. PICK g \in Nat : g = x.guesses + 1
    BY <2>1 DEF CodeRecords
  <2> DEFINE s == [x EXCEPT !.attempts = a, !.guesses = g, !.locked = l]
  <2>4. /\ s \in CodeRecords /\ s.attempts = a /\ s.guesses = g
        /\ s.locked = l /\ s.accepted = x.accepted /\ s.state = x.state
    BY DEF CodeRecords
  <2>5. r = s
    BY <2>1, <2>2, <2>3, <2>g
  <2> HIDE DEF r, s
  <2> QED BY <2>1, <2>2, <2>3, <2>g, <2>4, <2>5 DEF locked
<1> HIDE DEF r
<1>8. /\ codes' \in Seq(CodeRecords) /\ Len(codes') = Len(codes) /\ codes'[i] = r
      /\ \A j \in DOMAIN codes \ {i} : codes'[j] = codes[j]
  BY <1>3, <1>4, <1>7
<1>9. c \in Comparing(i) /\ ~In(c, "compare")' /\ \A k \in Requests \ {c} : request'[k] = request[k]
  BY <1>1, <1>2, Answers DEF Comparing
<1>10. CodeInv(i)'
  BY <1>7, <1>8, <1>9, CodeGuessed
<1> QED BY <1>1, <1>7, <1>8, <1>9, <1>10, ComparingEnds

LEMMA AcceptKept ==
    ASSUME CodesInv, NEW c \in Requests, AcceptCode(c)
    PROVE  CodesInv'
<1>1. CodesTypeOK /\ In(c, "compare") /\ Answer(c) /\ request[c].row \in DOMAIN codes
  BY DEF CodesInv, AcceptCode
<1>2. PICK i \in DOMAIN codes : i = request[c].row
  BY <1>1
<1>s. PICK spent \in Seq(CodeRecords) : spent = Spend({i})
  BY <1>1, Spends
<1> DEFINE r == [spent[i] EXCEPT !.accepted = spent[i].accepted + 1]
<1>3. /\ Len(codes) \in Nat /\ DOMAIN codes = 1..Len(codes) /\ \A j \in DOMAIN codes : codes[j] \in CodeRecords
  BY <1>1, CodesTyped
<1>4. /\ Len(spent) = Len(codes) /\ DOMAIN spent = DOMAIN codes
      /\ spent[i].guesses = codes[i].guesses /\ spent[i].accepted = codes[i].accepted
      /\ spent[i].locked = codes[i].locked /\ spent[i].attempts = codes[i].attempts
      /\ spent[i].state = "spent" /\ spent[i] \in CodeRecords
  BY <1>1, <1>s, Spends
<1>5. \A j \in DOMAIN codes \ {i} : spent[j] = codes[j]
  BY <1>s DEF Spend
<1>6. codes' = [spent EXCEPT ![i] = r]
  BY <1>2, <1>s DEF AcceptCode, Consumed
<1>7. c \in Comparing(i) /\ ~In(c, "compare")' /\ \A k \in Requests \ {c} : request'[k] = request[k]
  BY <1>1, <1>2, Answers DEF Comparing
<1>8. codes[i].accepted + 1 \in 0..Cardinality(Requests)
  <2>1. Cardinality(Comparing(i)) \in Nat \ {0}
    <3>1. Comparing(i) # {}
      BY <1>7
    <3> QED BY <3>1, CodeNumbers, FS_EmptySet
  <2>2. codes[i].accepted + Cardinality(Comparing(i)) <= Cardinality(Requests) /\ codes[i].accepted \in Nat
    BY CodeNumbers DEF CodeInv
  <2> QED BY <2>1, <2>2, CountersTyped
<1>9. /\ r \in CodeRecords /\ r.attempts = codes[i].attempts /\ r.guesses = codes[i].guesses
      /\ r.locked = codes[i].locked /\ r.accepted = codes[i].accepted + 1 /\ r.state = "spent"
  BY <1>4, <1>8 DEF CodeRecords
<1> HIDE DEF r
<1>10. /\ codes' \in Seq(CodeRecords) /\ Len(codes') = Len(codes) /\ codes'[i] = r
       /\ \A j \in DOMAIN codes \ {i} : codes'[j] = codes[j]
  <2>1. \A j \in DOMAIN codes : spent[j] \in CodeRecords
    BY <1>3, <1>4, <1>5
  <2>2. codes' \in Seq(CodeRecords) /\ Len(codes') = Len(codes)
    BY <1>3, <1>4, <1>6, <1>9, <2>1
  <2>3. codes'[i] = r /\ \A j \in DOMAIN codes \ {i} : codes'[j] = codes[j]
    BY <1>4, <1>5, <1>6
  <2> QED BY <2>2, <2>3
<1>11. CodeInv(i)'
  BY <1>7, <1>9, <1>10, CodeLeft
<1> QED BY <1>1, <1>7, <1>9, <1>10, <1>11, ComparingEnds

LEMMA ThrowKept ==
    ASSUME CodesInv, NEW c \in Requests, RequestThrows(c)
    PROVE  CodesInv'
<1>1. CodesTypeOK /\ Answer(c) /\ codes' = codes /\ (In(c, "compare") => request[c].row \in DOMAIN codes)
  BY DEF CodesInv, RequestThrows
<1>2. codes \in Seq(CodeRecords)
  BY <1>1, CodesTyped
<1>3. /\ request' \in [Requests -> RequestRecords]
      /\ \A k \in Requests \ {c} : request'[k] = request[k]
      /\ ~In(c, "compare")' /\ Creating' = Creating \ {c}
  BY <1>1, Answers
<1>4. CASE In(c, "compare")
  <2>1. PICK i \in DOMAIN codes : i = request[c].row
    BY <1>1, <1>4
  <2>2. c \in Comparing(i)
    BY <1>4, <2>1 DEF Comparing
  <2>3. CodeInv(i)'
    BY <1>1, <1>3, <2>2, CodeLeft
  <2> QED BY <1>1, <1>2, <2>2, <2>3, ComparingEnds
<1>5. CASE ~In(c, "compare")
  <2>1. Unused' \subseteq Unused
    BY <1>1 DEF Unused
  <2>2. Cardinality(Unused') + Cardinality(Creating') <= Cardinality(Requests)
    BY <1>3, <2>1, NoMoreUnused
  <2>3. \A k \in Requests : /\ In(k, "compare")' <=> In(k, "compare")
                            /\ In(k, "compare") => /\ request'[k].row = request[k].row
                                                   /\ request'[k].attempts = request[k].attempts
    BY <1>3, <1>5 DEF In
  <2> QED BY <1>1, <1>2, <1>3, <2>2, <2>3, ComparersStay
<1> QED BY <1>4, <1>5

\* A stuttering step keeps the invariant, because it has no other state.
LEMMA CodesStutter == CodesInv /\ UNCHANGED codeVars => CodesInv'
<1> SUFFICES ASSUME CodesInv, UNCHANGED codeVars PROVE CodesInv'
  OBVIOUS
<1>1. codes' = codes /\ request' = request /\ CodesTypeOK
  BY DEF codeVars, CodesInv
<1>2. codes \in Seq(CodeRecords) /\ request \in [Requests -> RequestRecords]
  BY <1>1, CodesTyped
<1>3. Unused' \subseteq Unused /\ Creating' \subseteq Creating
  BY <1>1 DEF Unused, Creating
<1>4. Cardinality(Unused') + Cardinality(Creating') <= Cardinality(Requests)
  BY <1>3, NoMoreUnused
<1> QED BY <1>1, <1>2, <1>4, ComparersStay DEF In

LEMMA CodesStart == CodesInit => CodesInv
<1> SUFFICES ASSUME CodesInit PROVE CodesInv
  OBVIOUS
<1>1. codes = <<>> /\ request = [c \in Requests |-> NoRequest] /\ NoRequest.pc = "idle"
  BY DEF CodesInit, NoRequest
<1>2. NoRequest \in RequestRecords
  BY CountersTyped DEF NoRequest, RequestRecords
<1>3. CodesTypeOK
  <2>1. codes \in Seq(CodeRecords) /\ Len(codes) = 0 /\ request \in [Requests -> RequestRecords]
    BY <1>1, <1>2
  <2> QED BY <2>1, CountersTyped DEF CodesTypeOK, CodeRecords, RequestRecords
<1>4. Unused = {} /\ Creating = {} /\ DOMAIN codes = {} /\ \A c \in Requests : ~In(c, "compare")
  BY <1>1 DEF Unused, Creating, In
<1>5. Cardinality(Unused) + Cardinality(Creating) <= Cardinality(Requests)
  BY <1>4, FS_EmptySet, CountersTyped
<1> QED BY <1>3, <1>4, <1>5 DEF CodesInv

LEMMA CodesInductive == CodesSpec => []CodesInv
<1>1. CodesInv /\ [CodesNext]_codeVars => CodesInv'
  <2> SUFFICES ASSUME CodesInv, CodesNext PROVE CodesInv'
    BY CodesStutter
  <2>1. ASSUME NEW c \in Requests,
               \/ InvalidatePrevious(c) \/ CheckCooldown(c) \/ InsertCode(c)
               \/ ReadCode(c) \/ RejectCode(c) \/ AcceptCode(c) \/ RequestThrows(c)
        PROVE  CodesInv'
    BY <2>1, InvalidateKept, CooldownInv, InsertKept, ReadKept, RejectKept, AcceptKept, ThrowKept
  <2>2. ASSUME NEW i \in Unused, CodeAges(i)
        PROVE  CodesInv'
    BY <2>2, AgeKept
  <2> QED BY <2>1, <2>2 DEF CodesNext
<1> QED BY <1>1, CodesStart, PTL DEF CodesSpec

\* The rows of the codes and what a request keeps of the row it read have their
\* types: the counter of a row is never above MaxAttempts, and a request that
\* compares read one below it (OtpService.verify).
THEOREM CodesTypeCorrect == CodesSpec => []CodesTypeOK
<1>1. CodesInv => CodesTypeOK
  BY DEF CodesInv
<1> QED BY <1>1, CodesInductive, PTL

\* However requests for codes and verifications overlap, there are never more
\* unused codes, and one code is never accepted more often, than requests run at
\* once; and a code that was accepted is spent (OtpService.create and verify).
THEOREM CodesAreUsedOnce == CodesSpec => []OneTimeUse
<1>1. CodesInv => OneTimeUse
  <2> SUFFICES ASSUME CodesInv PROVE OneTimeUse
    OBVIOUS
  <2>1. UsableCodesBounded
    <3>1. CodesTypeOK /\ Cardinality(Unused) + Cardinality(Creating) <= Cardinality(Requests)
      BY DEF CodesInv
    <3> QED BY <3>1, UnusedFinite, CountersTyped DEF UsableCodesBounded
  <2>2. AcceptedByOverlapOnly
    <3> SUFFICES ASSUME NEW i \in DOMAIN codes
                 PROVE  /\ codes[i].accepted <= Cardinality(Requests)
                        /\ codes[i].state # "spent" => codes[i].accepted = 0
      BY DEF AcceptedByOverlapOnly
    <3> QED BY CodeNumbers DEF CodeInv
  <2> QED BY <2>1, <2>2 DEF OneTimeUse
<1> QED BY <1>1, CodesInductive, PTL

\* One code takes a bounded number of wrong guesses, for every number of requests
\* and every limit: a late guess sets the counter back, but the requests that
\* still hold a low counter get fewer with each (OtpService.verify).
THEOREM GuessesAreBounded == CodesSpec => []GuessesBounded
<1>1. CodesInv => GuessesBounded
  <2> SUFFICES ASSUME CodesInv, NEW i \in DOMAIN codes
               PROVE  codes[i].guesses <= Cardinality(Spreads) + Cardinality(Requests) - 1
    BY DEF GuessesBounded
  <2> QED BY CodeNumbers DEF CodeInv
<1> QED BY <1>1, CodesInductive, PTL
=============================================================================
