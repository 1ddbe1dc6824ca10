------------------------------- MODULE Accounts -------------------------------
(***************************************************************************)
(* One account and its sessions. A session is a row of user_sessions and a *)
(* key sess:<user>:<session> in Redis; the guards look at the key and the  *)
(* user, a refresh looks at the row. Requests that open, refresh and close *)
(* sessions overlap, and what they read may be old when they write:        *)
(*   - login, verified e-mail, Google, accepted invitation: a new session; *)
(*   - refresh and logout of a session;                                    *)
(*   - change and reset of the password, which revoke session by session;  *)
(*   - removal of a team member, deletion by the user or by an admin, the  *)
(*     purge 30 days later, removal at once;                               *)
(*   - suspension and reactivation by an admin.                            *)
(*                                                                         *)
(* A refused request (wrong password, rate limit, lock-out) changes none   *)
(* of this. bcrypt compares 72 bytes, which all refresh tokens of a user   *)
(* have in common: the comparison asks whether a token was stored.         *)
(*                                                                         *)
(* A definition marked "Mutant" is a mistake the code could contain; no    *)
(* behaviour uses it.                                                      *)
(***************************************************************************)
CONSTANTS
    Sessions,       \* the session ids there may ever be
    Requests,       \* requests in progress
    None            \* no session

ASSUME AccountConstants == None \notin Sessions

VARIABLES
    account,        \* deleted_at and is_active of the user
    purge,          \* is the hard-delete job on its queue?
    row,            \* the session's row; "gone" after the purge
    hashed,         \* the row holds a refresh token, not the placeholder
    key,            \* is the session's key in Redis?
    pc,             \* what each request does next
    task,           \* what it is
    on,             \* the session it opens, refreshes or closes
    todo,           \* what it has still to store of that session
    list,           \* the sessions it has found and has still to revoke
    drop,           \* the sessions whose keys it has still to delete
    before          \* the sessions that were open when it wrote the password

userVars == <<account, purge>>
sessionVars == <<row, hashed, key>>
localVars == <<pc, task, on, todo, list, drop, before>>
vars == <<userVars, sessionVars, localVars>>

Present == {"active", "suspended"}
Tasks == {"enter", "refresh", "logout", "change", "reset", "member", "delete", "status"}

TypeOK ==
    /\ account \in Present \cup {"deleted", "purged"}
    /\ purge \in BOOLEAN
    /\ row \in [Sessions -> {"none", "open", "revoked", "gone"}]
    /\ hashed \in [Sessions -> BOOLEAN]
    /\ key \in [Sessions -> BOOLEAN]
    /\ pc \in [Requests -> {"idle", "creating", "finding", "storing", "writing",
                            "listing", "revoking", "selecting", "closing", "scanning",
                            "dropping", "queueing", "judging", "answering"}]
    /\ task \in [Requests -> Tasks \cup {"none"}]
    /\ on \in [Requests -> Sessions \cup {None}]
    /\ todo \in [Requests -> SUBSET {"hash", "key"}]
    /\ list \in [Requests -> SUBSET Sessions]
    /\ drop \in [Requests -> SUBSET Sessions]
    /\ before \in [Requests -> SUBSET Sessions]

Init ==
    /\ account = "active" /\ purge = FALSE
    /\ row = [s \in Sessions |-> "none"]
    /\ hashed = [s \in Sessions |-> FALSE]
    /\ key = [s \in Sessions |-> FALSE]
    /\ pc = [r \in Requests |-> "idle"]
    /\ task = [r \in Requests |-> "none"]
    /\ on = [r \in Requests |-> None]
    /\ todo = [r \in Requests |-> {}]
    /\ list = [r \in Requests |-> {}]
    /\ drop = [r \in Requests |-> {}]
    /\ before = [r \in Requests |-> {}]

-----------------------------------------------------------------------------
Open == {s \in Sessions : row[s] = "open"}

\* The guards: the key is in Redis and the user is there, active and not deleted.
Authorised(s) == key[s] /\ account = "active"

Begin(r, t, to) ==
    /\ pc[r] = "idle"
    /\ pc' = [pc EXCEPT ![r] = to]
    /\ task' = [task EXCEPT ![r] = t]

Goto(r, from, to) ==
    /\ pc[r] = from
    /\ pc' = [pc EXCEPT ![r] = to]

\* The answer, or the end of a request that throws or whose process dies.
Forget(r) ==
    /\ pc' = [pc EXCEPT ![r] = "idle"]
    /\ task' = [task EXCEPT ![r] = "none"]
    /\ on' = [on EXCEPT ![r] = None]
    /\ todo' = [todo EXCEPT ![r] = {}]
    /\ list' = [list EXCEPT ![r] = {}]
    /\ drop' = [drop EXCEPT ![r] = {}]
    /\ before' = [before EXCEPT ![r] = {}]

End(r) ==
    /\ pc[r] # "idle"
    /\ Forget(r)
    /\ UNCHANGED <<userVars, sessionVars>>

-----------------------------------------------------------------------------
(* issueTokens: login, verifyOtp, handleOAuthLogin, acceptInvite, refresh *)

\* The credentials are checked against the user as it is read; is_active is not.
Enter(r) ==
    /\ account \in Present
    /\ Begin(r, "enter", "creating")
    /\ UNCHANGED <<userVars, sessionVars, on, todo, list, drop, before>>

CreateSession(r) ==
    /\ Goto(r, "creating", "storing")
    /\ account # "purged"
    /\ \E s \in Sessions :
          /\ row[s] = "none"
          /\ row' = [row EXCEPT ![s] = "open"]
          /\ on' = [on EXCEPT ![r] = s]
    /\ todo' = [todo EXCEPT ![r] = {"hash", "key"}]
    /\ UNCHANGED <<userVars, hashed, key, task, list, drop, before>>

\* Mutant of Refreshable: is_revoked is not looked at.
RefreshableAny(s) == row[s] \in {"open", "revoked"} /\ hashed[s]

Refreshable(s) == row[s] = "open" /\ hashed[s]

Refresh(r, s) ==
    /\ Refreshable(s)
    /\ Begin(r, "refresh", "finding")
    /\ on' = [on EXCEPT ![r] = s]
    /\ UNCHANGED <<userVars, sessionVars, todo, list, drop, before>>

\* usersService.findById, after the session or a reset token was accepted.
FindUser(r) ==
    /\ account \in Present
    /\ Goto(r, "finding", IF task[r] = "refresh" THEN "storing" ELSE "writing")
    /\ todo' = [todo EXCEPT ![r] = IF task[r] = "refresh" THEN {"hash", "key"} ELSE {}]
    /\ UNCHANGED <<userVars, sessionVars, task, on, list, drop, before>>

\* persistRefreshToken and persistRedisSession run side by side.
Store(r, what) ==
    /\ pc[r] = "storing" /\ what \in todo[r]
    /\ IF todo[r] = {what}
       THEN Forget(r)
       ELSE /\ todo' = [todo EXCEPT ![r] = @ \ {what}]
            /\ UNCHANGED <<pc, task, on, list, drop, before>>

\* Mutant of WriteHash: the entity that was read is saved as a whole.
SaveWholeSession(s) ==
    /\ hashed' = [hashed EXCEPT ![s] = TRUE]
    /\ row' = [row EXCEPT ![s] = "open"]

\* UPDATE ... SET refresh_token, whatever became of the session.
WriteHash(s) ==
    /\ hashed' = [hashed EXCEPT ![s] = TRUE]
    /\ UNCHANGED row

StoreHash(r) ==
    /\ Store(r, "hash")
    /\ WriteHash(on[r])
    /\ UNCHANGED <<userVars, key>>

StoreKey(r) ==
    /\ Store(r, "key")
    /\ key' = [key EXCEPT ![on[r]] = TRUE]
    /\ UNCHANGED <<userVars, row, hashed>>

\* The key lives as long as an access token; a refresh writes it again.
ExpireKey(s) ==
    /\ key[s]
    /\ key' = [key EXCEPT ![s] = FALSE]
    /\ UNCHANGED <<userVars, row, hashed, localVars>>

-----------------------------------------------------------------------------
(* logout, changePassword, resetPassword *)

Logout(r, s) ==
    /\ Authorised(s)
    /\ Begin(r, "logout", "revoking")
    /\ on' = [on EXCEPT ![r] = s]
    /\ list' = [list EXCEPT ![r] = {s}]
    /\ drop' = [drop EXCEPT ![r] = {s}]
    /\ UNCHANGED <<userVars, sessionVars, todo, before>>

ChangePassword(r, s) ==
    /\ Authorised(s)
    /\ Begin(r, "change", "writing")
    /\ UNCHANGED <<userVars, sessionVars, on, todo, list, drop, before>>

\* A reset token was taken out of Redis (module Codes).
ResetPassword(r) ==
    /\ Begin(r, "reset", "finding")
    /\ UNCHANGED <<userVars, sessionVars, on, todo, list, drop, before>>

\* Mutant of WritePassword: the sessions are looked up before it.
ListBeforeWrite(r) ==
    \/ /\ Goto(r, "writing", "listing") /\ list[r] = {}
       /\ list' = [list EXCEPT ![r] = Open]
       /\ UNCHANGED <<userVars, sessionVars, task, on, todo, drop, before>>
    \/ /\ Goto(r, "listing", "revoking")
       /\ before' = [before EXCEPT ![r] = Open]
       /\ UNCHANGED <<userVars, sessionVars, task, on, todo, list, drop>>

\* The user's row, and then password_changed_at.
WritePassword(r) ==
    /\ Goto(r, "writing", "listing")
    /\ before' = [before EXCEPT ![r] = Open]
    /\ UNCHANGED <<userVars, sessionVars, task, on, todo, list, drop>>

\* Mutant of ListSessions: only sessions that hold a refresh token are found.
ListStored(r) ==
    /\ Goto(r, "listing", "revoking")
    /\ list' = [list EXCEPT ![r] = {s \in Open : hashed[s]}]
    /\ UNCHANGED <<userVars, sessionVars, task, on, todo, drop, before>>

ListSessions(r) ==
    /\ Goto(r, "listing", "revoking")
    /\ list' = [list EXCEPT ![r] = Open]
    /\ UNCHANGED <<userVars, sessionVars, task, on, todo, drop, before>>

Revoked(S) ==
    [s \in Sessions |-> IF s \in S /\ row[s] = "open" THEN "revoked" ELSE row[s]]

\* A reset goes through its list one by one, the others all at once; a logout
\* deletes the key without waiting for the row.
RevokeListed(r, s) ==
    /\ pc[r] = "revoking" /\ s \in list[r]
    /\ task[r] = "reset" => drop[r] = {}
    /\ row' = Revoked({s})
    /\ list' = [list EXCEPT ![r] = @ \ {s}]
    /\ drop' = [drop EXCEPT ![r] = IF task[r] = "logout" THEN @ ELSE @ \cup {s}]
    /\ UNCHANGED <<userVars, hashed, key, pc, task, on, todo, before>>

\* redisService.del; its errors are logged and forgotten.
DropKey(r, s) ==
    /\ pc[r] = "revoking" /\ s \in drop[r]
    /\ \E failed \in BOOLEAN : key' = [key EXCEPT ![s] = @ /\ failed]
    /\ drop' = [drop EXCEPT ![r] = @ \ {s}]
    /\ UNCHANGED <<userVars, row, hashed, pc, task, on, todo, list, before>>

FinishRevoking(r) ==
    /\ pc[r] = "revoking"
    /\ list[r] = {} /\ drop[r] = {}
    /\ IF task[r] \in {"change", "reset"}
       THEN /\ Goto(r, "revoking", IF task[r] = "reset" THEN "creating" ELSE "answering")
            /\ UNCHANGED <<task, on, todo, list, drop, before>>
       ELSE Forget(r)
    /\ UNCHANGED <<userVars, sessionVars>>

\* An admin's own password: one transaction, which leaves the keys to expire.
ChangeAdminPassword(s) ==
    /\ Authorised(s) /\ Open # {}
    /\ row' = Revoked(Open)
    /\ UNCHANGED <<userVars, hashed, key, localVars>>

-----------------------------------------------------------------------------
(* revokeMember, deleteAccount, deleteUser, updateUserStatus, the purge *)

RemoveMember(r) ==
    /\ account # "purged"
    /\ Begin(r, "member", "selecting")
    /\ UNCHANGED <<userVars, sessionVars, on, todo, list, drop, before>>

\* By the user, in a session, or by an admin.
DeleteAccount(r) ==
    /\ account \in Present
    /\ Begin(r, "delete", "selecting")
    /\ UNCHANGED <<userVars, sessionVars, on, todo, list, drop, before>>

\* revokeAllUserSessionsInDb: the ids first; without any there is no UPDATE.
SelectIds(r) ==
    /\ pc[r] = "selecting"
    /\ IF task[r] = "member" /\ Open = {}
       THEN Forget(r)
       ELSE /\ Goto(r, "selecting", "closing")
            /\ list' = [list EXCEPT ![r] = Open]
            /\ UNCHANGED <<task, on, todo, drop, before>>
    /\ UNCHANGED <<userVars, sessionVars>>

\* The UPDATE takes every session that is open by now, the keys go by the ids.
RevokeForMember(r) ==
    /\ task[r] = "member"
    /\ Goto(r, "closing", "revoking")
    /\ row' = Revoked(Open)
    /\ drop' = [drop EXCEPT ![r] = list[r]]
    /\ list' = [list EXCEPT ![r] = {}]
    /\ UNCHANGED <<userVars, hashed, key, task, on, todo, before>>

\* COMMIT of the user's deleted_at and of the same UPDATE.
CommitDeletion(r) ==
    /\ task[r] = "delete" /\ account # "purged"
    /\ Goto(r, "closing", IF list[r] = {} THEN "queueing" ELSE "scanning")
    /\ account' = "deleted"
    /\ row' = IF list[r] = {} THEN row ELSE Revoked(Open)
    /\ list' = [list EXCEPT ![r] = {}]
    /\ UNCHANGED <<purge, hashed, key, task, on, todo, drop, before>>

\* delByPattern: SCAN, then one DEL; its errors are logged and forgotten.
ScanKeys(r) ==
    /\ Goto(r, "scanning", "dropping")
    /\ drop' = [drop EXCEPT ![r] = {s \in Sessions : key[s]}]
    /\ UNCHANGED <<userVars, sessionVars, task, on, todo, list, before>>

DropScanned(r) ==
    /\ Goto(r, "dropping", "queueing")
    /\ \/ key' = [s \in Sessions |-> key[s] /\ s \notin drop[r]]
       \/ UNCHANGED key
    /\ drop' = [drop EXCEPT ![r] = {}]
    /\ UNCHANGED <<userVars, row, hashed, task, on, todo, list, before>>

\* queue.add; when it throws the request is answered all the same.
QueuePurge(r) ==
    /\ pc[r] = "queueing"
    /\ purge' \in {TRUE, purge}
    /\ Forget(r)
    /\ UNCHANGED <<account, sessionVars>>

\* handleHardDelete, in one transaction; it does not look at the user first.
Purge ==
    /\ purge
    /\ account' = "purged"
    /\ purge' = FALSE
    /\ row' = [s \in Sessions |-> IF row[s] = "none" THEN "none" ELSE "gone"]
    /\ UNCHANGED <<hashed, key, localVars>>

\* remove (DELETE /users/:id), which looked for the user before: the sessions go with
\* it, their keys are left.
Remove ==
    /\ account # "purged"
    /\ account' = "purged"
    /\ row' = [s \in Sessions |-> IF row[s] = "none" THEN "none" ELSE "gone"]
    /\ UNCHANGED <<purge, hashed, key, localVars>>

\* updateUserStatus reads the user, unless it is deleted ...
ReadForStatus(r) ==
    /\ account \in Present
    /\ Begin(r, "status", "judging")
    /\ UNCHANGED <<userVars, sessionVars, on, todo, list, drop, before>>

\* ... and writes is_active and the deleted_at it has read.
WriteStatus(r) ==
    /\ account # "purged"
    /\ pc[r] = "judging"
    /\ account' \in Present
    /\ Forget(r)
    /\ UNCHANGED <<purge, sessionVars>>

-----------------------------------------------------------------------------
SessionStep(r) ==
    \/ Enter(r) \/ CreateSession(r) \/ FindUser(r) \/ StoreHash(r) \/ StoreKey(r)
    \/ \E s \in Sessions : Refresh(r, s) \/ Logout(r, s)

PasswordStep(r) ==
    \/ \E s \in Sessions : ChangePassword(r, s) \/ RevokeListed(r, s) \/ DropKey(r, s)
    \/ ResetPassword(r) \/ WritePassword(r) \/ ListSessions(r) \/ FinishRevoking(r)

AccountStep(r) ==
    \/ RemoveMember(r) \/ DeleteAccount(r) \/ SelectIds(r) \/ RevokeForMember(r)
    \/ CommitDeletion(r) \/ ScanKeys(r) \/ DropScanned(r) \/ QueuePurge(r)
    \/ ReadForStatus(r) \/ WriteStatus(r)

Next ==
    \/ \E r \in Requests : SessionStep(r) \/ PasswordStep(r) \/ AccountStep(r) \/ End(r)
    \/ \E s \in Sessions : ExpireKey(s) \/ ChangeAdminPassword(s)
    \/ Purge \/ Remove

Spec == Init /\ [][Next]_vars

-----------------------------------------------------------------------------
(* Properties *)

\* Somebody may still write the session's key: an open or a refresh in progress.
InHand(s) ==
    \E r \in Requests :
       /\ on[r] = s
       /\ pc[r] = "finding" \/ (pc[r] = "storing" /\ "key" \in todo[r])

Closed(s) == row[s] \in {"revoked", "gone"} /\ ~key[s] /\ ~InHand(s)

\* A session whose row is revoked, whose key is gone and which nobody has in hand
\* is refused for good: no refresh, late write of a refresh token, password change
\* or deletion opens it again (refresh, issueTokens, the guards).
ClosedForGood == [][\A s \in Sessions : Closed(s) => Closed(s)']_vars

\* When a change or a reset of the password has gone through, every session that
\* was open when the password was written has been revoked, whatever was opened,
\* refreshed or closed meanwhile (changePassword, resetPassword).
PasswordClosesSessions ==
    \A r \in Requests :
       task[r] \in {"change", "reset"} /\ pc[r] \in {"creating", "storing", "answering"}
          => before[r] \cap Open = {}
=============================================================================
