---------------------------- MODULE OneTimeCodes ----------------------------
(***************************************************************************)
(* The one-time codes of one user and one type (OtpService): every query   *)
(* filters by both, so other users and types do not interfere.  Requests   *)
(* for a new code (register, resend, login challenge, forgotten password)  *)
(* mark the unused codes as used and insert a new one; verifications read  *)
(* the newest usable code, compare, and write.  No statement is in a       *)
(* transaction, and several requests run at once.                          *)
(***************************************************************************)
EXTENDS Integers, Sequences, FiniteSets, FiniteSetsExt

CONSTANTS
    Requests,     \* requests running at once
    MaxAttempts,  \* MAX_ATTEMPTS (at least 1): wrong guesses that lock a code
    MaxCodes      \* bound: rows ever inserted

ASSUME CodesAssumption ==
    /\ IsFiniteSet(Requests)
    /\ MaxAttempts \in Nat \ {0} /\ MaxCodes \in Nat

VARIABLES
    codes,   \* OtpCode rows in the order of createdAt; state "spent" is used or
             \* expired; guesses and accepted count what verify answered
    request  \* where each request stands, the row and the counter it read

codeVars == <<codes, request>>

NoRequest == [pc |-> "idle", row |-> 0, attempts |-> 0]

CodesTypeOK ==
    /\ codes \in Seq([state : {"young", "old", "spent"}, locked : BOOLEAN, attempts : 0..MaxAttempts,
                      guesses : Nat, accepted : 0..Cardinality(Requests)])
    /\ Len(codes) <= MaxCodes
    /\ request \in [Requests -> [pc : {"idle", "cooldown", "insert", "compare"},
                              row : 0..MaxCodes, attempts : 0..(MaxAttempts - 1)]]

CodesInit == codes = <<>> /\ request = [c \in Requests |-> NoRequest]

In(c, step) == request[c].pc = step
Proceed(c, step) == request' = [request EXCEPT ![c].pc = step]
Answer(c)   == request' = [request EXCEPT ![c] = NoRequest]
Unused      == {i \in DOMAIN codes : codes[i].state # "spent"}
Spend(S)    == [i \in DOMAIN codes |-> IF i \in S THEN [codes[i] EXCEPT !.state = "spent"] ELSE codes[i]]

InvalidatePrevious(c) ==
    /\ In(c, "idle")
    /\ codes' = Spend(Unused)
    /\ Proceed(c, "cooldown")

\* create refuses while the newest unused code is young, but the caller has
\* just marked the unused codes as used.
CheckCooldown(c) ==
    /\ In(c, "cooldown")
    /\ IF Unused # {} /\ codes[Max(Unused)].state = "young" THEN Answer(c) ELSE Proceed(c, "insert")
    /\ UNCHANGED codes

InsertCode(c) ==
    /\ In(c, "insert")
    /\ Len(codes) < MaxCodes
    /\ codes' = Append(codes, [state |-> "young", locked |-> FALSE, attempts |-> 0, guesses |-> 0, accepted |-> 0])
    /\ Answer(c)

\* verify reads the newest code that can be used; a locked one ends the call.
ReadCode(c) ==
    /\ In(c, "idle")
    /\ Unused # {}
    /\ LET i == Max(Unused)
       IN  /\ ~codes[i].locked
           /\ request' = [request EXCEPT ![c] = [pc |-> "compare", row |-> i, attempts |-> codes[i].attempts]]
    /\ UNCHANGED codes

\* Mutant: the update writes lockedUntil every time, NULL below the limit.
LockedAnew(attempts, code) == attempts >= MaxAttempts

LockedBy(attempts, code) == code.locked \/ attempts >= MaxAttempts

\* The counter is written from the value read; lockedUntil only at the limit.
RejectCode(c) ==
    /\ In(c, "compare")
    /\ LET i == request[c].row
           attempts == request[c].attempts + 1
       IN  codes' = [codes EXCEPT ![i].attempts = attempts, ![i].guesses = @ + 1,
                                  ![i].locked = LockedBy(attempts, codes[i])]
    /\ Answer(c)

\* Mutant: the code is left for the rest of its ten minutes.
ConsumedLater(i) == Spend({})

Consumed(i) == Spend({i})

\* A matching code is marked as used by id, whatever happened to it meanwhile.
AcceptCode(c) ==
    /\ In(c, "compare")
    /\ codes' = [Consumed(request[c].row) EXCEPT ![request[c].row].accepted = @ + 1]
    /\ Answer(c)

\* A minute passes, or ten.  The lock of 15 minutes outlives the code.
CodeAges(i) ==
    /\ codes' = IF codes[i].state = "young" THEN [codes EXCEPT ![i].state = "old"] ELSE Spend({i})
    /\ UNCHANGED request

\* A statement throws or the server dies.
RequestThrows(c) == ~In(c, "idle") /\ Answer(c) /\ UNCHANGED codes

CodesNext ==
    \/ \E c \in Requests :
        \/ InvalidatePrevious(c) \/ CheckCooldown(c) \/ InsertCode(c)
        \/ ReadCode(c) \/ RejectCode(c) \/ AcceptCode(c) \/ RequestThrows(c)
    \/ \E i \in Unused : CodeAges(i)

CodesSpec == CodesInit /\ [][CodesNext]_codeVars
-----------------------------------------------------------------------------
\* There are at most as many unused codes as concurrent requests, although
\* invalidatePrevious and create are separate statements.
UsableCodesBounded == Cardinality(Unused) <= Cardinality(Requests)

\* One code is accepted again only by requests that overlapped the first: never
\* more often than requests run at once (OtpService.verify).
AcceptedByOverlapOnly ==
    \A i \in DOMAIN codes :
        /\ codes[i].accepted <= Cardinality(Requests)
        /\ codes[i].state # "spent" => codes[i].accepted = 0

\* Both: however requests for codes and verifications overlap, no more codes and
\* no more uses of one code than requests at once.
OneTimeUse == UsableCodesBounded /\ AcceptedByOverlapOnly

\* How the requests can be spread over the counters of a code that is not locked:
\* for each counter, how many hold that or a lower one.  Their number is the
\* binomial coefficient of n + MaxAttempts - 1 over n, for n requests.
Spreads ==
    {f \in [0..(MaxAttempts - 1) -> 0..Cardinality(Requests)] :
        /\ f[MaxAttempts - 1] = Cardinality(Requests)
        /\ \A u, v \in 0..(MaxAttempts - 1) : u <= v => f[u] <= f[v]}

\* Requests at once that guess wrong from the same counter count as one, and a
\* late one sets the counter back; but each guess leaves fewer requests to start
\* as low, so that no spread comes twice, and after the lock only those that had
\* read the code before it still guess (verify).
GuessesBounded ==
    \A i \in DOMAIN codes :
        codes[i].guesses <= Cardinality(Spreads) + Cardinality(Requests) - 1

\* Not true of the code: a code takes at most MaxAttempts wrong guesses.
GuessLimit == \A i \in DOMAIN codes : codes[i].guesses <= MaxAttempts

\* Not true of the code: a new code is inserted only when none that is younger
\* than a minute was inserted before.
CooldownKept ==
    [][Len(codes') > Len(codes) => \A i \in DOMAIN codes : codes[i].state # "young"]_codeVars
=============================================================================
