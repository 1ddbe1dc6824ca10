-------------------------------- MODULE Lockout --------------------------------
(***************************************************************************)
(* Logins with a password to one account, by the user (AuthService) or as  *)
(* an admin (AdminAuthService): both keep the failures in the same row of  *)
(* auth_metadata, made by the first login, and lock it for an hour at the  *)
(* fifth. What a login has read of the row is old by the time the password *)
(* is compared. The session that follows is module Accounts'.              *)
(***************************************************************************)
EXTENDS Naturals, FiniteSets

CONSTANTS
    Requests,       \* requests in progress
    Limit,          \* MAX_FAILED_LOGIN_ATTEMPTS
    MaxFaults       \* bound on the queries that fail

VARIABLES
    row,            \* the row exists
    failed,         \* its failed_attempts, counted up to one more than Limit
    locked,         \* its locked_until is to come
    pc,             \* what each request does next
    admin,          \* the requests to log in as an admin
    guesses,        \* wrong passwords compared since the last login or the last lock's end
    missed          \* wrong passwords whose count or lock was lost, in all

vars == <<row, failed, locked, pc, admin, guesses, missed>>

Init ==
    /\ row = FALSE /\ failed = 0 /\ locked = FALSE
    /\ pc = [r \in Requests |-> "idle"]
    /\ admin = {}
    /\ guesses = 0 /\ missed = 0

Goto(r, from, to) ==
    /\ pc[r] = from
    /\ pc' = [pc EXCEPT ![r] = to]

\* Without a user, a password or, for an admin, the role it ends here.
Ask(r) ==
    /\ Goto(r, "idle", "reading")
    /\ admin' \in {admin \cup {r}, admin \ {r}}
    /\ UNCHANGED <<row, failed, locked, guesses, missed>>

\* ensureAuthMetadata and throwIfLocked.
ReadMetadata(r) ==
    /\ \/ row /\ locked /\ Goto(r, "reading", "idle")
       \/ row /\ ~locked /\ Goto(r, "reading", "comparing")
       \/ ~row /\ Goto(r, "reading", "creating")
    /\ UNCHANGED <<row, failed, locked, admin, guesses, missed>>

\* The second INSERT violates the index on user_id: a user reads again, an admin is
\* refused.
CreateMetadata(r) ==
    /\ \/ ~row /\ Goto(r, "creating", "comparing")
       \/ row /\ Goto(r, "creating", IF r \in admin THEN "idle" ELSE "reading")
    /\ row' = TRUE
    /\ UNCHANGED <<failed, locked, admin, guesses, missed>>

ComparePassword(r) ==
    /\ \/ Goto(r, "comparing", "resetting") /\ UNCHANGED guesses
       \/ Goto(r, "comparing", "counting") /\ guesses' = guesses + 1
    /\ UNCHANGED <<row, failed, locked, admin, missed>>

\* Mutant of ReachesLimit: one failure too late.
PassesLimit(count) == count > Limit

ReachesLimit(count) == count >= Limit

\* incrementFailedAttempts, in one UPDATE.
CountFailure(r) ==
    /\ failed' = IF failed > Limit THEN failed ELSE failed + 1
    /\ Goto(r, "counting", IF ReachesLimit(failed') THEN "locking" ELSE "idle")
    /\ UNCHANGED <<row, locked, admin, guesses, missed>>

LockAccount(r) ==
    /\ Goto(r, "locking", "idle")
    /\ locked' = TRUE
    /\ UNCHANGED <<row, failed, admin, guesses, missed>>

\* The hour is over; failed_attempts stays.
LockEnds ==
    /\ locked
    /\ locked' = FALSE /\ guesses' = 0
    /\ UNCHANGED <<row, failed, pc, admin, missed>>

\* recordSuccessfulLogin, whatever others have counted or locked meanwhile.
RecordSuccess(r) ==
    /\ Goto(r, "resetting", "idle")
    /\ failed' = 0 /\ locked' = FALSE /\ guesses' = 0
    /\ UNCHANGED <<row, admin, missed>>

\* A query throws, or the process dies.
Fail(r) ==
    /\ pc[r] # "idle"
    /\ pc' = [pc EXCEPT ![r] = "idle"]
    /\ IF pc[r] \in {"counting", "locking"}
       THEN missed < MaxFaults /\ missed' = missed + 1
       ELSE UNCHANGED missed
    /\ UNCHANGED <<row, failed, locked, admin, guesses>>

Next ==
    \/ \E r \in Requests :
          \/ Ask(r) \/ ReadMetadata(r) \/ CreateMetadata(r) \/ ComparePassword(r)
          \/ CountFailure(r) \/ LockAccount(r) \/ RecordSuccess(r) \/ Fail(r)
    \/ LockEnds

Spec == Init /\ [][Next]_vars

-----------------------------------------------------------------------------
(* Properties *)

\* Until the user logs in or a lock has run out, no more than Limit wrong passwords
\* are compared, and those of requests that were at work at the Limit's, however
\* reads, comparisons, counts and locks of user and admin logins interleave; only a
\* failing query lets one more through (recordFailedLogin, throwIfLocked).
GuessesBounded == guesses <= (Limit - 1) + Cardinality(Requests) + missed

-----------------------------------------------------------------------------
(* The inductive invariant *)

\* The requests that may compare one more password.
Comparing == {r \in Requests : pc[r] = "comparing"}

\* Those with a wrong password to count, or the account to lock for one.
Owing == {r \in Requests : pc[r] \in {"counting", "locking"}}

\* The failures that have not locked the account.
Tolerated == IF failed < Limit THEN failed ELSE Limit - 1

TypeOK ==
    /\ row \in BOOLEAN /\ locked \in BOOLEAN
    /\ failed \in Nat /\ guesses \in Nat /\ missed \in Nat
    /\ pc \in [Requests -> {"idle", "reading", "creating", "comparing", "resetting",
                            "counting", "locking"}]

\* A row that is locked is there: no login creates it again and goes on to compare.
RowInv ==
    /\ locked => row
    /\ \A r \in Requests : pc[r] \in {"comparing", "resetting", "counting", "locking"} => row

\* Where each wrong password has gone: as long as nothing is locked, to the row, to a
\* request that has yet to count it or to lock the account, or it was missed. Once
\* the account is locked only the requests that had passed the lock may guess.
CountInv ==
    /\ ~locked => guesses <= Tolerated + Cardinality(Owing) + missed
    /\ locked => guesses + Cardinality(Comparing)
                     <= (Limit - 1) + Cardinality(Requests) + missed

\* The inductive invariant of both logins.
IInv == TypeOK /\ RowInv /\ CountInv
=============================================================================
