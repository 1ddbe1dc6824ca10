-------------------------------- MODULE Codes --------------------------------
(***************************************************************************)
(* The one-time codes of one user, to verify the e-mail address or to      *)
(* reset the password (AuthService). A code is a row of otp_tokens, found  *)
(* and deleted by user and type; sending one replaces the rows it sees. A  *)
(* verification holds a lock of 30 s in Redis; a reset leaves the id of a  *)
(* reset token in Redis, which resetPassword takes with GETDEL. The counts *)
(* of attempts only refuse.                                                *)
(***************************************************************************)
EXTENDS Naturals

CONSTANTS
    Requests,       \* requests in progress
    None,           \* nobody holds the lock
    MaxCodes        \* bound on the codes that are sent

Codes == 1..MaxCodes

VARIABLES
    kind,           \* "verify" or "reset"
    verified,       \* is_verified of the user
    codes,          \* the codes whose rows there are
    stale,          \* those that have expired
    sent,           \* how many were sent
    lock,           \* the request whose token the lock holds
    overran,        \* the lock has run out under a request at work
    pc,             \* what each request does next
    code,           \* the code it sends or was given
    seen,           \* the rows it is about to replace
    granted,        \* how often each code verified the user or got a reset token
    issued,         \* how many reset tokens were issued
    id,             \* the reset token that counts, 0 for none
    spent           \* how often each reset token was accepted

tokenVars == <<issued, id, spent>>
vars == <<kind, verified, codes, stale, sent, lock, overran, pc, code, seen, granted,
          tokenVars>>

Init ==
    /\ kind \in {"verify", "reset"}
    /\ verified = (kind = "reset")
    /\ codes = {} /\ stale = {} /\ sent = 0
    /\ lock = None /\ overran = FALSE
    /\ pc = [r \in Requests |-> "idle"]
    /\ code = [r \in Requests |-> 0]
    /\ seen = [r \in Requests |-> {}]
    /\ granted = [c \in Codes |-> 0]
    /\ issued = 0 /\ id = 0
    /\ spent = [t \in Codes |-> 0]

Goto(r, from, to) ==
    /\ pc[r] = from
    /\ pc' = [pc EXCEPT ![r] = to]

-----------------------------------------------------------------------------
\* The user is read; a verified one needs no code to become it. What happens before
\* the next step of the request goes unnoticed.
Ask(r) ==
    /\ kind = "verify" => ~verified
    /\ Goto(r, "idle", "asked")
    /\ UNCHANGED <<kind, verified, codes, stale, sent, lock, overran, code, seen, granted,
                   tokenVars>>

\* replaceToken: a transaction that deletes the rows it sees ...
Send(r) ==
    /\ sent < MaxCodes
    /\ Goto(r, "asked", "replacing")
    /\ sent' = sent + 1
    /\ code' = [code EXCEPT ![r] = sent + 1]
    /\ seen' = [seen EXCEPT ![r] = codes]
    /\ UNCHANGED <<kind, verified, codes, stale, lock, overran, granted, tokenVars>>

\* ... and inserts another; no index keeps it to one row.
Replace(r) ==
    /\ Goto(r, "replacing", "idle")
    /\ codes' = (codes \ seen[r]) \cup {code[r]}
    /\ UNCHANGED <<kind, verified, stale, sent, lock, overran, code, seen, granted, tokenVars>>

\* Mutant of LockFree: SET without NX.
LockTaken == TRUE

\* SET NX, which refuses the request if the lock is taken
LockFree == lock = None

Verify(r, c) ==
    /\ c <= sent
    /\ LockFree
    /\ lock' = r
    /\ Goto(r, "asked", "reading")
    /\ code' = [code EXCEPT ![r] = c]
    /\ UNCHANGED <<kind, verified, codes, stale, sent, overran, seen, granted, tokenVars>>

\* findByUserAndType takes any of the rows.
ReadCode(r) ==
    /\ \/ /\ codes = {}
          /\ Goto(r, "reading", "releasing")
       \/ \E c \in codes :
             \/ /\ c \in stale
                /\ Goto(r, "reading", "dropping")
             \/ /\ c \notin stale /\ c # code[r]
                /\ Goto(r, "reading", "releasing")
             \/ /\ c \notin stale /\ c = code[r]
                /\ Goto(r, "reading", "deleting")
    /\ UNCHANGED <<kind, verified, codes, stale, sent, lock, overran, code, seen, granted,
                   tokenVars>>

\* By user and type: a code that was sent meanwhile goes as well.
DeleteCodes(r) ==
    /\ \/ Goto(r, "dropping", "releasing")
       \/ Goto(r, "deleting", "granting")
    /\ codes' = {}
    /\ UNCHANGED <<kind, verified, stale, sent, lock, overran, code, seen, granted, tokenVars>>

Grant(r) == granted' = [granted EXCEPT ![code[r]] = @ + 1]

MarkVerified(r) ==
    /\ kind = "verify"
    /\ Goto(r, "granting", "releasing")
    /\ verified' = TRUE
    /\ Grant(r)
    /\ UNCHANGED <<kind, codes, stale, sent, lock, overran, code, seen, tokenVars>>

\* The SET of the id may fail without a word.
IssueToken(r) ==
    /\ kind = "reset" /\ issued < MaxCodes
    /\ Goto(r, "granting", "releasing")
    /\ issued' = issued + 1
    /\ id' \in {issued + 1, id}
    /\ Grant(r)
    /\ UNCHANGED <<kind, verified, codes, stale, sent, lock, overran, code, seen, spent>>

\* A statement throws: the finally block releases the lock.
Throw(r) ==
    /\ \E from \in {"reading", "dropping", "deleting", "granting"} : Goto(r, from, "releasing")
    /\ UNCHANGED <<kind, verified, codes, stale, sent, lock, overran, code, seen, granted,
                   tokenVars>>

\* releaseLock: GET and compare, then DEL; errors leave the lock to expire.
CompareLock(r) ==
    /\ \/ lock = r /\ Goto(r, "releasing", "unlocking")
       \/ Goto(r, "releasing", "idle")
    /\ UNCHANGED <<kind, verified, codes, stale, sent, lock, overran, code, seen, granted,
                   tokenVars>>

Unlock(r) ==
    /\ Goto(r, "unlocking", "idle")
    /\ lock' = None
    /\ UNCHANGED <<kind, verified, codes, stale, sent, overran, code, seen, granted, tokenVars>>

\* The process dies, or the request is refused before its first write.
Crash(r) ==
    /\ pc[r] # "idle"
    /\ pc' = [pc EXCEPT ![r] = "idle"]
    /\ UNCHANGED <<kind, verified, codes, stale, sent, lock, overran, code, seen, granted,
                   tokenVars>>

ExpireLock ==
    /\ lock # None
    /\ lock' = None
    /\ overran' = (overran \/ pc[lock] \notin {"idle", "asked", "replacing"})
    /\ UNCHANGED <<kind, verified, codes, stale, sent, pc, code, seen, granted, tokenVars>>

ExpireCode(c) ==
    /\ c \in codes \ stale
    /\ stale' = stale \cup {c}
    /\ UNCHANGED <<kind, verified, codes, sent, lock, overran, pc, code, seen, granted,
                   tokenVars>>

-----------------------------------------------------------------------------
\* Mutant of TakeId: GET instead of GETDEL.
PeekId == UNCHANGED id

\* GETDEL, whichever token it is compared with afterwards.
TakeId == id' = 0

ResetPassword(t) ==
    /\ t <= issued /\ id # 0
    /\ TakeId
    /\ spent' = [spent EXCEPT ![t] = IF id = t THEN @ + 1 ELSE @]
    /\ UNCHANGED <<kind, verified, codes, stale, sent, lock, overran, pc, code, seen, granted,
                   issued>>

ExpireId ==
    /\ id # 0
    /\ id' = 0
    /\ UNCHANGED <<kind, verified, codes, stale, sent, lock, overran, pc, code, seen, granted,
                   issued, spent>>

Next ==
    \/ \E r \in Requests :
          \/ Ask(r) \/ Send(r) \/ Replace(r) \/ ReadCode(r) \/ DeleteCodes(r)
          \/ MarkVerified(r) \/ IssueToken(r) \/ Throw(r) \/ CompareLock(r) \/ Unlock(r) \/ Crash(r)
          \/ \E c \in Codes : Verify(r, c)
    \/ \E c \in Codes : ExpireCode(c) \/ ResetPassword(c)
    \/ ExpireLock \/ ExpireId

Spec == Init /\ [][Next]_vars

-----------------------------------------------------------------------------
(* Properties *)

\* As long as no lock runs out under its holder, a code verifies the user, or
\* gets a reset token, once, however often and at whatever pace it is entered
\* (verifyOtp, verifyResetOtp).
CodeOnce == overran \/ \A c \in Codes : granted[c] <= 1

\* A reset token changes the password once, whatever was issued, lost or expired
\* meanwhile: "atomically consumed" (resetPassword).
ResetOnce == \A t \in Codes : spent[t] <= 1

-----------------------------------------------------------------------------
(* The inductive invariant *)

\* The steps of a request that has taken the lock.
Locked == {"reading", "dropping", "deleting", "granting", "releasing", "unlocking"}

\* The steps of a request whose code is its own.
Owning == {"replacing", "deleting", "granting"}

TypeOK ==
    /\ sent \in Nat /\ sent <= MaxCodes
    /\ codes \subseteq 1..sent
    /\ pc \in [Requests -> Locked \cup {"idle", "asked", "replacing"}]
    /\ code \in [Requests -> 0..sent]
    /\ \A r \in Requests : pc[r] \notin {"idle", "asked"} => code[r] # 0
    /\ granted \in [Codes -> Nat]
    /\ issued \in Nat /\ issued <= MaxCodes /\ id \in 0..issued
    /\ spent \in [Codes -> Nat]

\* Whoever is past the lock holds it.
LockInv == \A r \in Requests : pc[r] \in Locked => lock = r

\* A code has one owner, is in no row while that owner stores or uses it, and was
\* not used before.
OwnerInv ==
    \A r \in Requests : pc[r] \in Owning =>
        /\ granted[code[r]] = 0
        /\ pc[r] \in {"replacing", "granting"} => code[r] \notin codes
        /\ \A q \in Requests \ {r} : pc[q] \in Owning => code[q] # code[r]

\* A code that was used is in no row.
GrantedInv ==
    \A c \in Codes : granted[c] # 0 => granted[c] = 1 /\ c <= sent /\ c \notin codes

\* The token that counts has not been spent, nor have those to come.
TokenInv ==
    \A t \in Codes :
        /\ spent[t] <= 1
        /\ t = id \/ t > issued => spent[t] = 0

\* The inductive invariant of sendOtp, verifyOtp, verifyResetOtp and resetPassword.
IInv == TypeOK /\ TokenInv /\ (overran \/ (LockInv /\ OwnerInv /\ GrantedInv))
=============================================================================
