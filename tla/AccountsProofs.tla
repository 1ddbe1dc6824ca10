---------------------------- MODULE AccountsProofs ----------------------------
(***************************************************************************)
(* The safety properties of Accounts for every set of sessions and of      *)
(* requests in progress. One lemma per part of IInv, with a step per       *)
(* action.                                                                 *)
(***************************************************************************)
EXTENDS AccountsInv, TLAPS

\* Nobody has logged in.
LEMMA InitInv == Init => IInv
<1> USE AccountConstants DEF Init
<1>1. Init => TypeOK
  <2>1. Init => account \in Present /\ purge \in BOOLEAN
    BY DEF Present
  <2>2. Init => /\ row \in [Sessions -> {"none", "open", "revoked", "gone"}]
                /\ hashed \in [Sessions -> BOOLEAN] /\ key \in [Sessions -> BOOLEAN]
    OBVIOUS
  <2> QED
    BY <2>1, <2>2 DEF TypeOK, Tasks, Present
<1>2. Init => SessionInv /\ PasswordInv
  BY DEF SessionInv, PasswordInv, Open
<1> QED
  BY <1>1, <1>2 DEF IInv

\* Every action keeps the types; what is stored belongs to a session.
LEMMA TypeStep ==
  TypeOK /\ SessionInv /\ [Next]_vars => TypeOK'
<1> SUFFICES ASSUME TypeOK, SessionInv, [Next]_vars PROVE TypeOK'
  OBVIOUS
<1> USE AccountConstants DEF TypeOK, SessionInv, Open, Tasks, Present, userVars,
      sessionVars, localVars
<1>1. ASSUME NEW r \in Requests, SessionStep(r) PROVE TypeOK'
  <2>1. CASE Enter(r)
    BY <2>1 DEF Enter, Begin
  <2>2. CASE CreateSession(r)
    BY <2>2 DEF CreateSession, Goto
  <2>3. CASE FindUser(r)
    BY <2>3 DEF FindUser, Goto
  <2>4. CASE StoreHash(r)
    <3>1. CASE todo[r] = {"hash"}
      BY SMTT(30), <2>4, <3>1 DEF StoreHash, Store, WriteHash, Forget
    <3>2. CASE todo[r] # {"hash"}
      <4>1. todo' \in [Requests -> SUBSET {"hash", "key"}]
        BY <2>4, <3>2 DEF StoreHash, Store
      <4>2. on[r] \in Sessions
        BY <2>4 DEF StoreHash, Store
      <4> QED
        BY <2>4, <3>2, <4>1, <4>2 DEF StoreHash, Store, WriteHash
    <3> QED
      BY <3>1, <3>2
  <2>5. CASE StoreKey(r)
    <3>1. CASE todo[r] = {"key"}
      BY SMTT(30), <2>5, <3>1 DEF StoreKey, Store, Forget
    <3>2. CASE todo[r] # {"key"}
      <4>1. todo' \in [Requests -> SUBSET {"hash", "key"}]
        BY <2>5, <3>2 DEF StoreKey, Store
      <4>2. on[r] \in Sessions
        BY <2>5 DEF StoreKey, Store
      <4> QED
        BY <2>5, <3>2, <4>1, <4>2 DEF StoreKey, Store
    <3> QED
      BY <3>1, <3>2
  <2>6. ASSUME NEW s \in Sessions, Refresh(r, s) PROVE TypeOK'
    BY <2>6 DEF Refresh, Begin, Refreshable
  <2>7. ASSUME NEW s \in Sessions, Logout(r, s) PROVE TypeOK'
    BY <2>7 DEF Logout, Begin, Authorised
  <2> QED
    BY <1>1, <2>1, <2>2, <2>3, <2>4, <2>5, <2>6, <2>7 DEF SessionStep
<1>2. ASSUME NEW r \in Requests, PasswordStep(r) PROVE TypeOK'
  <2>1. CASE ResetPassword(r)
    BY <2>1 DEF ResetPassword, Begin
  <2>2. CASE WritePassword(r)
    BY <2>2 DEF WritePassword, Goto
  <2>3. CASE ListSessions(r)
    BY <2>3 DEF ListSessions, Goto
  <2>4. CASE FinishRevoking(r)
    <3>1. CASE task[r] \in {"change", "reset"}
      <4>1. pc' \in [Requests -> {"idle", "creating", "finding", "storing", "writing",
                                 "listing", "revoking", "selecting", "closing", "scanning",
                                 "dropping", "queueing", "judging", "answering"}]
        BY <2>4, <3>1 DEF FinishRevoking, Goto
      <4>2. UNCHANGED <<userVars, sessionVars, task, on, todo, list, drop, before>>
        BY <2>4, <3>1 DEF FinishRevoking
      <4> QED
        BY <4>1, <4>2
    <3>2. CASE task[r] \notin {"change", "reset"}
      BY SMTT(30), <2>4, <3>2 DEF FinishRevoking, Forget
    <3> QED
      BY <3>1, <3>2
  <2>5. ASSUME NEW s \in Sessions, ChangePassword(r, s) PROVE TypeOK'
    BY <2>5 DEF ChangePassword, Begin, Authorised
  <2>6. ASSUME NEW s \in Sessions, RevokeListed(r, s) PROVE TypeOK'
    BY <2>6 DEF RevokeListed, Revoked
  <2>7. ASSUME NEW s \in Sessions, DropKey(r, s) PROVE TypeOK'
    BY <2>7 DEF DropKey
  <2> QED
    BY <1>2, <2>1, <2>2, <2>3, <2>4, <2>5, <2>6, <2>7 DEF PasswordStep
<1>3. ASSUME NEW r \in Requests, AccountStep(r) PROVE TypeOK'
  <2>1. CASE RemoveMember(r)
    BY <2>1 DEF RemoveMember, Begin
  <2>2. CASE DeleteAccount(r)
    BY <2>2 DEF DeleteAccount, Begin
  <2>3. CASE SelectIds(r)
    <3>1. CASE task[r] = "member" /\ Open = {}
      BY <2>3, <3>1 DEF SelectIds, Forget
    <3>2. CASE ~(task[r] = "member" /\ Open = {})
      <4>1. Open \in SUBSET Sessions
        BY DEF Open
      <4> HIDE DEF Open
      <4> QED
        BY <2>3, <3>2, <4>1 DEF SelectIds, Goto
    <3> QED
      BY <3>1, <3>2
  <2>4. CASE RevokeForMember(r)
    BY <2>4 DEF RevokeForMember, Goto, Revoked
  <2>5. CASE CommitDeletion(r)
    BY <2>5 DEF CommitDeletion, Goto, Revoked
  <2>6. CASE ScanKeys(r)
    BY <2>6 DEF ScanKeys, Goto
  <2>7. CASE DropScanned(r)
    <3>1. pc' = [pc EXCEPT ![r] = "queueing"] /\ drop' = [drop EXCEPT ![r] = {}]
      BY <2>7 DEF DropScanned, Goto
    <3>2. key' \in [Sessions -> BOOLEAN]
      <4>1. \/ key' = [t \in Sessions |-> key[t] /\ t \notin drop[r]]
            \/ key' = key
        BY <2>7 DEF DropScanned
      <4>2. CASE key' = [t \in Sessions |-> key[t] /\ t \notin drop[r]]
        BY <4>2
      <4>3. CASE key' = key
        BY <4>3
      <4> QED
        BY <4>1, <4>2, <4>3
    <3>3. UNCHANGED <<userVars, row, hashed, task, on, todo, list, before>>
      BY <2>7 DEF DropScanned
    <3> QED
      BY <3>1, <3>2, <3>3
  <2>8. CASE QueuePurge(r)
    BY <2>8 DEF QueuePurge, Forget
  <2>9. CASE ReadForStatus(r)
    BY <2>9 DEF ReadForStatus, Begin
  <2>10. CASE WriteStatus(r)
    BY <2>10 DEF WriteStatus, Forget
  <2> QED
    BY <1>3, <2>1, <2>2, <2>3, <2>4, <2>5, <2>6, <2>7, <2>8, <2>9, <2>10 DEF
          AccountStep
<1>4. ASSUME NEW r \in Requests, End(r) PROVE TypeOK'
  BY <1>4 DEF End, Forget
<1>5. ASSUME NEW s \in Sessions, ExpireKey(s) PROVE TypeOK'
  BY <1>5 DEF ExpireKey
<1>6. ASSUME NEW s \in Sessions, ChangeAdminPassword(s) PROVE TypeOK'
  BY <1>6 DEF ChangeAdminPassword, Authorised, Revoked
<1>7. CASE Purge
  BY <1>7 DEF Purge
<1>8. CASE Remove
  BY <1>8 DEF Remove
<1>9. CASE UNCHANGED vars
  BY <1>9 DEF vars
<1> QED
  BY <1>1, <1>2, <1>3, <1>4, <1>5, <1>6, <1>7, <1>8, <1>9 DEF Next

\* A session comes into hands only with its row, and a row stays.
LEMMA SessionStepKeeps ==
  TypeOK /\ SessionInv /\ [Next]_vars => SessionInv'
<1> SUFFICES ASSUME TypeOK, SessionInv, [Next]_vars PROVE SessionInv'
  OBVIOUS
<1> USE AccountConstants DEF TypeOK, SessionInv, Open, Present, userVars,
      sessionVars, localVars
<1>1. ASSUME NEW r \in Requests, SessionStep(r) PROVE SessionInv'
  <2>1. CASE Enter(r)
    BY <2>1 DEF Enter, Begin
  <2>2. CASE CreateSession(r)
    BY <2>2 DEF CreateSession, Goto
  <2>3. CASE FindUser(r)
    BY <2>3 DEF FindUser, Goto
  <2>4. CASE StoreHash(r)
    BY <2>4 DEF StoreHash, Store, WriteHash, Forget
  <2>5. CASE StoreKey(r)
    BY <2>5 DEF StoreKey, Store, Forget
  <2>6. ASSUME NEW s \in Sessions, Refresh(r, s) PROVE SessionInv'
    BY <2>6 DEF Refresh, Begin, Refreshable
  <2>7. ASSUME NEW s \in Sessions, Logout(r, s) PROVE SessionInv'
    BY <2>7 DEF Logout, Begin, Authorised
  <2> QED
    BY <1>1, <2>1, <2>2, <2>3, <2>4, <2>5, <2>6, <2>7 DEF SessionStep
<1>2. ASSUME NEW r \in Requests, PasswordStep(r) PROVE SessionInv'
  <2>1. CASE ResetPassword(r)
    BY <2>1 DEF ResetPassword, Begin
  <2>2. CASE WritePassword(r)
    BY <2>2 DEF WritePassword, Goto
  <2>3. CASE ListSessions(r)
    BY <2>3 DEF ListSessions, Goto
  <2>4. CASE FinishRevoking(r)
    BY <2>4 DEF FinishRevoking, Goto, Forget
  <2>5. ASSUME NEW s \in Sessions, ChangePassword(r, s) PROVE SessionInv'
    BY <2>5 DEF ChangePassword, Begin, Authorised
  <2>6. ASSUME NEW s \in Sessions, RevokeListed(r, s) PROVE SessionInv'
    BY <2>6 DEF RevokeListed, Revoked
  <2>7. ASSUME NEW s \in Sessions, DropKey(r, s) PROVE SessionInv'
    BY <2>7 DEF DropKey
  <2> QED
    BY <1>2, <2>1, <2>2, <2>3, <2>4, <2>5, <2>6, <2>7 DEF PasswordStep
<1>3. ASSUME NEW r \in Requests, AccountStep(r) PROVE SessionInv'
  <2>1. CASE RemoveMember(r)
    BY <2>1 DEF RemoveMember, Begin
  <2>2. CASE DeleteAccount(r)
    BY <2>2 DEF DeleteAccount, Begin
  <2>3. CASE SelectIds(r)
    BY <2>3 DEF SelectIds, Goto, Forget
  <2>4. CASE RevokeForMember(r)
    BY <2>4 DEF RevokeForMember, Goto, Revoked
  <2>5. CASE CommitDeletion(r)
    BY <2>5 DEF CommitDeletion, Goto, Revoked
  <2>6. CASE ScanKeys(r)
    BY <2>6 DEF ScanKeys, Goto
  <2>7. CASE DropScanned(r)
    BY <2>7 DEF DropScanned, Goto
  <2>8. CASE QueuePurge(r)
    BY <2>8 DEF QueuePurge, Forget
  <2>9. CASE ReadForStatus(r)
    BY <2>9 DEF ReadForStatus, Begin
  <2>10. CASE WriteStatus(r)
    BY <2>10 DEF WriteStatus, Forget
  <2> QED
    BY <1>3, <2>1, <2>2, <2>3, <2>4, <2>5, <2>6, <2>7, <2>8, <2>9, <2>10 DEF
          AccountStep
<1>4. ASSUME NEW r \in Requests, End(r) PROVE SessionInv'
  BY <1>4 DEF End, Forget
<1>5. ASSUME NEW s \in Sessions, ExpireKey(s) PROVE SessionInv'
  BY <1>5 DEF ExpireKey
<1>6. ASSUME NEW s \in Sessions, ChangeAdminPassword(s) PROVE SessionInv'
  BY <1>6 DEF ChangeAdminPassword, Authorised, Revoked
<1>7. CASE Purge
  BY <1>7 DEF Purge
<1>8. CASE Remove
  BY <1>8 DEF Remove
<1>9. CASE UNCHANGED vars
  BY <1>9 DEF vars
<1> QED
  BY <1>1, <1>2, <1>3, <1>4, <1>5, <1>6, <1>7, <1>8, <1>9 DEF Next

\* A session of before the password is listed, or revoked, and never opened again.
LEMMA PasswordStepKeeps ==
  TypeOK /\ PasswordInv /\ [Next]_vars => PasswordInv'
<1> SUFFICES ASSUME TypeOK, PasswordInv, [Next]_vars PROVE PasswordInv'
  OBVIOUS
<1> USE AccountConstants DEF TypeOK, PasswordInv, Open, Present, userVars,
      sessionVars, localVars
<1>1. ASSUME NEW r \in Requests, SessionStep(r) PROVE PasswordInv'
  <2>1. CASE Enter(r)
    BY <2>1 DEF Enter, Begin
  <2>2. CASE CreateSession(r)
    BY <2>2 DEF CreateSession, Goto
  <2>3. CASE FindUser(r)
    BY <2>3 DEF FindUser, Goto
  <2>4. CASE StoreHash(r)
    BY <2>4 DEF StoreHash, Store, WriteHash, Forget
  <2>5. CASE StoreKey(r)
    BY <2>5 DEF StoreKey, Store, Forget
  <2>6. ASSUME NEW s \in Sessions, Refresh(r, s) PROVE PasswordInv'
    BY <2>6 DEF Refresh, Begin, Refreshable
  <2>7. ASSUME NEW s \in Sessions, Logout(r, s) PROVE PasswordInv'
    BY <2>7 DEF Logout, Begin, Authorised
  <2> QED
    BY <1>1, <2>1, <2>2, <2>3, <2>4, <2>5, <2>6, <2>7 DEF SessionStep
<1>2. ASSUME NEW r \in Requests, PasswordStep(r) PROVE PasswordInv'
  <2>1. CASE ResetPassword(r)
    BY <2>1 DEF ResetPassword, Begin
  <2>2. CASE WritePassword(r)
    BY <2>2 DEF WritePassword, Goto
  <2>3. CASE ListSessions(r)
    BY <2>3 DEF ListSessions, Goto
  <2>4. CASE FinishRevoking(r)
    BY <2>4 DEF FinishRevoking, Goto, Forget
  <2>5. ASSUME NEW s \in Sessions, ChangePassword(r, s) PROVE PasswordInv'
    BY <2>5 DEF ChangePassword, Begin, Authorised
  <2>6. ASSUME NEW s \in Sessions, RevokeListed(r, s) PROVE PasswordInv'
    BY <2>6 DEF RevokeListed, Revoked
  <2>7. ASSUME NEW s \in Sessions, DropKey(r, s) PROVE PasswordInv'
    BY <2>7 DEF DropKey
  <2> QED
    BY <1>2, <2>1, <2>2, <2>3, <2>4, <2>5, <2>6, <2>7 DEF PasswordStep
<1>3. ASSUME NEW r \in Requests, AccountStep(r) PROVE PasswordInv'
  <2>1. CASE RemoveMember(r)
    BY <2>1 DEF RemoveMember, Begin
  <2>2. CASE DeleteAccount(r)
    BY <2>2 DEF DeleteAccount, Begin
  <2>3. CASE SelectIds(r)
    BY <2>3 DEF SelectIds, Goto, Forget
  <2>4. CASE RevokeForMember(r)
    BY <2>4 DEF RevokeForMember, Goto, Revoked
  <2>5. CASE CommitDeletion(r)
    BY <2>5 DEF CommitDeletion, Goto, Revoked
  <2>6. CASE ScanKeys(r)
    BY <2>6 DEF ScanKeys, Goto
  <2>7. CASE DropScanned(r)
    BY <2>7 DEF DropScanned, Goto
  <2>8. CASE QueuePurge(r)
    BY <2>8 DEF QueuePurge, Forget
  <2>9. CASE ReadForStatus(r)
    BY <2>9 DEF ReadForStatus, Begin
  <2>10. CASE WriteStatus(r)
    BY <2>10 DEF WriteStatus, Forget
  <2> QED
    BY <1>3, <2>1, <2>2, <2>3, <2>4, <2>5, <2>6, <2>7, <2>8, <2>9, <2>10 DEF
          AccountStep
<1>4. ASSUME NEW r \in Requests, End(r) PROVE PasswordInv'
  BY <1>4 DEF End, Forget
<1>5. ASSUME NEW s \in Sessions, ExpireKey(s) PROVE PasswordInv'
  BY <1>5 DEF ExpireKey
<1>6. ASSUME NEW s \in Sessions, ChangeAdminPassword(s) PROVE PasswordInv'
  BY <1>6 DEF ChangeAdminPassword, Authorised, Revoked
<1>7. CASE Purge
  BY <1>7 DEF Purge
<1>8. CASE Remove
  BY <1>8 DEF Remove
<1>9. CASE UNCHANGED vars
  BY <1>9 DEF vars
<1> QED
  BY <1>1, <1>2, <1>3, <1>4, <1>5, <1>6, <1>7, <1>8, <1>9 DEF Next

\* A step's rule of ClosedForGood, for one step.
StaysClosed == \A s \in Sessions : Closed(s) => Closed(s)'

\* No action opens a closed session, action by action.
LEMMA ClosedStep ==
  TypeOK /\ SessionInv /\ [Next]_vars => StaysClosed
<1> SUFFICES ASSUME TypeOK, SessionInv, [Next]_vars PROVE StaysClosed
  OBVIOUS
<1> USE AccountConstants DEF TypeOK, SessionInv, Open, Present, StaysClosed, Closed,
      InHand, userVars, sessionVars, localVars
<1>1. ASSUME NEW r \in Requests, SessionStep(r) PROVE StaysClosed
  <2>1. CASE Enter(r)
    BY <2>1 DEF Enter, Begin
  <2>2. CASE CreateSession(r)
    BY <2>2 DEF CreateSession, Goto
  <2>3. CASE FindUser(r)
    BY <2>3 DEF FindUser, Goto
  <2>4. CASE StoreHash(r)
    BY <2>4 DEF StoreHash, Store, WriteHash, Forget
  <2>5. CASE StoreKey(r)
    BY <2>5 DEF StoreKey, Store, Forget
  <2>6. ASSUME NEW s \in Sessions, Refresh(r, s) PROVE StaysClosed
    BY <2>6 DEF Refresh, Begin, Refreshable
  <2>7. ASSUME NEW s \in Sessions, Logout(r, s) PROVE StaysClosed
    BY <2>7 DEF Logout, Begin, Authorised
  <2> QED
    BY <1>1, <2>1, <2>2, <2>3, <2>4, <2>5, <2>6, <2>7 DEF SessionStep
<1>2. ASSUME NEW r \in Requests, PasswordStep(r) PROVE StaysClosed
  <2>1. CASE ResetPassword(r)
    BY <2>1 DEF ResetPassword, Begin
  <2>2. CASE WritePassword(r)
    BY <2>2 DEF WritePassword, Goto
  <2>3. CASE ListSessions(r)
    BY <2>3 DEF ListSessions, Goto
  <2>4. CASE FinishRevoking(r)
    BY <2>4 DEF FinishRevoking, Goto, Forget
  <2>5. ASSUME NEW s \in Sessions, ChangePassword(r, s) PROVE StaysClosed
    BY <2>5 DEF ChangePassword, Begin, Authorised
  <2>6. ASSUME NEW s \in Sessions, RevokeListed(r, s) PROVE StaysClosed
    BY <2>6 DEF RevokeListed, Revoked
  <2>7. ASSUME NEW s \in Sessions, DropKey(r, s) PROVE StaysClosed
    BY <2>7 DEF DropKey
  <2> QED
    BY <1>2, <2>1, <2>2, <2>3, <2>4, <2>5, <2>6, <2>7 DEF PasswordStep
<1>3. ASSUME NEW r \in Requests, AccountStep(r) PROVE StaysClosed
  <2>1. CASE RemoveMember(r)
    BY <2>1 DEF RemoveMember, Begin
  <2>2. CASE DeleteAccount(r)
    BY <2>2 DEF DeleteAccount, Begin
  <2>3. CASE SelectIds(r)
    BY <2>3 DEF SelectIds, Goto, Forget
  <2>4. CASE RevokeForMember(r)
    BY <2>4 DEF RevokeForMember, Goto, Revoked
  <2>5. CASE CommitDeletion(r)
    BY <2>5 DEF CommitDeletion, Goto, Revoked
  <2>6. CASE ScanKeys(r)
    BY <2>6 DEF ScanKeys, Goto
  <2>7. CASE DropScanned(r)
    BY <2>7 DEF DropScanned, Goto
  <2>8. CASE QueuePurge(r)
    BY <2>8 DEF QueuePurge, Forget
  <2>9. CASE ReadForStatus(r)
    BY <2>9 DEF ReadForStatus, Begin
  <2>10. CASE WriteStatus(r)
    BY <2>10 DEF WriteStatus, Forget
  <2> QED
    BY <1>3, <2>1, <2>2, <2>3, <2>4, <2>5, <2>6, <2>7, <2>8, <2>9, <2>10 DEF
          AccountStep
<1>4. ASSUME NEW r \in Requests, End(r) PROVE StaysClosed
  BY <1>4 DEF End, Forget
<1>5. ASSUME NEW s \in Sessions, ExpireKey(s) PROVE StaysClosed
  BY <1>5 DEF ExpireKey
<1>6. ASSUME NEW s \in Sessions, ChangeAdminPassword(s) PROVE StaysClosed
  BY <1>6 DEF ChangeAdminPassword, Authorised, Revoked
<1>7. CASE Purge
  BY <1>7 DEF Purge
<1>8. CASE Remove
  BY <1>8 DEF Remove
<1>9. CASE UNCHANGED vars
  BY <1>9 DEF vars
<1> QED
  BY <1>1, <1>2, <1>3, <1>4, <1>5, <1>6, <1>7, <1>8, <1>9 DEF Next

\* Every reachable state satisfies IInv.
THEOREM Invariance == Spec => []IInv
<1>1. IInv /\ [Next]_vars => IInv'
  BY TypeStep, SessionStepKeeps, PasswordStepKeeps DEF IInv
<1> QED
  BY InitInv, <1>1, PTL DEF Spec

\* A change or a reset of the password that has gone through has revoked every
\* session that was open when the password was written.
THEOREM PasswordCloses == Spec => []PasswordClosesSessions
<1>1. IInv => PasswordClosesSessions
  BY DEF IInv, PasswordInv, PasswordClosesSessions
<1> QED
  BY Invariance, <1>1, PTL

\* A session that is revoked, without key and in nobody's hands stays refused.
THEOREM ClosedStays == Spec => ClosedForGood
<1>1. IInv /\ [Next]_vars => [\A s \in Sessions : Closed(s) => Closed(s)']_vars
  BY ClosedStep DEF IInv, StaysClosed
<1> QED
  BY Invariance, <1>1, PTL DEF Spec, ClosedForGood
=============================================================================
