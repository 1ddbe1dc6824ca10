--------------------------- MODULE CredentialsProofs ---------------------------
(***************************************************************************)
(* What lets a user in, proved for any number of requests, codes, accounts *)
(* and identities: a one-time code and a reset token are good once, few    *)
(* passwords are guessed, and an account keeps its identity. Each service  *)
(* has an inductive invariant in its own module; a step of the services is *)
(* a step of it or leaves its variables alone.                             *)
(***************************************************************************)
EXTENDS Services, FiniteSetTheorems, TLAPS

LEMMA CredentialsFrames ==
  ASSUME [Next]_vars
  PROVE  [C!Next]_codesVars /\ [L!Next]_lockoutVars /\ [G!Next]_googleVars
BY DEF Next, vars, CodesNext, WizardNext, TeamsNext, VoiceNext, ContentNext, AvatarNext,
       PreferencesNext, LockoutNext, GoogleNext, MilestoneNext, codesVars, lockoutVars,
       googleVars

-----------------------------------------------------------------------------
(* One-time codes: whoever is past the lock holds it; a code that a request is about *)
(* to store, or has matched and not yet used, is known to no other such request and  *)
(* has not been used; and the reset token that counts has not been spent.            *)

LEMMA CodesInitInv == ASSUME MaxCodes \in Nat PROVE C!Init => C!IInv
BY DEF C!Init, C!IInv, C!TypeOK, C!TokenInv, C!LockInv, C!OwnerInv, C!GrantedInv, C!Locked,
       C!Owning, C!Codes

\* Steps that touch neither codes nor their use.
LEMMA CodesQuietStep ==
  ASSUME C!IInv, NEW r \in Requests, NEW p \in (C!Locked \ C!Owning) \cup {"idle", "asked"},
         codesPc' = [codesPc EXCEPT ![r] = p],
         p \in C!Locked => codesPc[r] \in C!Locked,
         UNCHANGED <<sent, codes, code, granted, lock, overran, C!tokenVars>>
  PROVE  C!IInv'
<1>1. C!TypeOK' /\ C!TokenInv'
  BY DEF C!IInv, C!TypeOK, C!TokenInv, C!tokenVars, C!Locked, C!Owning
<1>2. CASE overran
  BY <1>1, <1>2 DEF C!IInv
<1>3. CASE ~overran
  <2>1. C!LockInv'
    BY <1>3 DEF C!IInv, C!TypeOK, C!LockInv, C!Locked, C!Owning
  <2>2. C!OwnerInv'
    BY <1>3 DEF C!IInv, C!TypeOK, C!OwnerInv, C!Locked, C!Owning
  <2>3. C!GrantedInv'
    BY <1>3 DEF C!IInv, C!GrantedInv
  <2> QED
    BY <1>1, <2>1, <2>2, <2>3 DEF C!IInv
<1> QED
  BY <1>2, <1>3

LEMMA CodesSendStep ==
  ASSUME MaxCodes \in Nat, C!IInv, NEW r \in Requests, C!Send(r)
  PROVE  C!IInv'
<1>1. /\ sent < MaxCodes
      /\ codesPc[r] = "asked"
      /\ codesPc' = [codesPc EXCEPT ![r] = "replacing"]
      /\ sent' = sent + 1 /\ code' = [code EXCEPT ![r] = sent + 1]
      /\ UNCHANGED <<codes, lock, overran, granted, issued, id, spent>>
  BY DEF C!Send, C!Goto, C!tokenVars
<1>2. C!TypeOK' /\ C!TokenInv'
  BY <1>1 DEF C!IInv, C!TypeOK, C!TokenInv
<1>3. CASE overran
  BY <1>1, <1>2, <1>3 DEF C!IInv
<1>4. CASE ~overran
  <2>1. C!LockInv'
    BY <1>1, <1>4 DEF C!IInv, C!TypeOK, C!LockInv, C!Locked
  <2>2. C!OwnerInv'
    <3> SUFFICES ASSUME NEW o \in Requests, codesPc'[o] \in C!Owning
                 PROVE  /\ granted'[code'[o]] = 0
                        /\ codesPc'[o] \in {"replacing", "granting"} => code'[o] \notin codes'
                        /\ \A q \in Requests \ {o} :
                              codesPc'[q] \in C!Owning => code'[q] # code'[o]
      BY DEF C!OwnerInv
    <3>1. CASE o = r
      BY <1>1, <1>4, <3>1 DEF C!IInv, C!TypeOK, C!OwnerInv, C!GrantedInv, C!Codes, C!Owning
    <3>2. CASE o # r
      BY <1>1, <1>4, <3>2 DEF C!IInv, C!TypeOK, C!OwnerInv, C!Owning
    <3> QED
      BY <3>1, <3>2
  <2>3. C!GrantedInv'
    BY <1>1, <1>4 DEF C!IInv, C!TypeOK, C!GrantedInv, C!Codes
  <2> QED
    BY <1>2, <2>1, <2>2, <2>3 DEF C!IInv
<1> QED
  BY <1>3, <1>4

LEMMA CodesReplaceStep ==
  ASSUME MaxCodes \in Nat, C!IInv, NEW r \in Requests, C!Replace(r)
  PROVE  C!IInv'
<1>1. /\ codesPc[r] = "replacing" /\ codesPc' = [codesPc EXCEPT ![r] = "idle"]
      /\ codes' = (codes \ seen[r]) \cup {code[r]}
      /\ UNCHANGED <<sent, code, lock, overran, granted, issued, id, spent>>
  BY DEF C!Replace, C!Goto, C!tokenVars
<1>2. C!TypeOK' /\ C!TokenInv'
  <2>1. code[r] \in 1..sent
    BY <1>1 DEF C!IInv, C!TypeOK
  <2>2. codes' \subseteq 1..sent
    BY <1>1, <2>1 DEF C!IInv, C!TypeOK
  <2> QED
    BY <1>1, <2>2 DEF C!IInv, C!TypeOK, C!TokenInv
<1>3. CASE overran
  BY <1>1, <1>2, <1>3 DEF C!IInv
<1>4. CASE ~overran
  <2> DEFINE c == code[r]
  <2>1. c \in 1..sent /\ granted[c] = 0 /\ c \in C!Codes
    BY <1>1, <1>4 DEF C!IInv, C!TypeOK, C!OwnerInv, C!Owning, C!Codes
  <2>2. \A q \in Requests : codesPc'[q] \in C!Owning =>
           codesPc[q] \in C!Owning /\ codesPc'[q] = codesPc[q] /\ code[q] # c
    BY <1>1, <1>4 DEF C!IInv, C!TypeOK, C!OwnerInv, C!Owning
  <2>3. codes' \subseteq codes \cup {c}
    BY <1>1
  <2> HIDE DEF c
  <2>4. C!LockInv'
    BY <1>1, <1>4 DEF C!IInv, C!TypeOK, C!LockInv, C!Locked
  <2>5. C!OwnerInv'
    BY <1>1, <1>4, <2>2, <2>3 DEF C!IInv, C!OwnerInv
  <2>6. C!GrantedInv'
    BY <1>1, <1>4, <2>1, <2>3 DEF C!IInv, C!GrantedInv
  <2> QED
    BY <1>2, <2>4, <2>5, <2>6 DEF C!IInv
<1> QED
  BY <1>3, <1>4

\* The lock is free, so nobody is past it.
LEMMA CodesVerifyStep ==
  ASSUME None \notin Requests, C!IInv, NEW r \in Requests, NEW c \in C!Codes, C!Verify(r, c)
  PROVE  C!IInv'
<1>1. /\ c <= sent
      /\ lock = None
      /\ codesPc[r] = "asked"
      /\ codesPc' = [codesPc EXCEPT ![r] = "reading"]
      /\ code' = [code EXCEPT ![r] = c] /\ lock' = r
      /\ UNCHANGED <<sent, codes, overran, granted, issued, id, spent>>
  BY DEF C!Verify, C!LockFree, C!Goto, C!tokenVars
<1>2. C!TypeOK' /\ C!TokenInv'
  BY <1>1 DEF C!IInv, C!TypeOK, C!TokenInv, C!Locked, C!Codes
<1>3. CASE overran
  BY <1>1, <1>2, <1>3 DEF C!IInv
<1>4. CASE ~overran
  <2>1. \A q \in Requests : codesPc[q] \notin C!Locked
    BY <1>1, <1>4 DEF C!IInv, C!LockInv
  <2>2. C!LockInv'
    BY <1>1, <2>1 DEF C!IInv, C!TypeOK, C!LockInv
  <2>3. C!OwnerInv'
    BY <1>1, <1>4 DEF C!IInv, C!TypeOK, C!OwnerInv, C!Owning
  <2>4. C!GrantedInv'
    BY <1>1, <1>4 DEF C!IInv, C!GrantedInv
  <2> QED
    BY <1>2, <2>2, <2>3, <2>4 DEF C!IInv
<1> QED
  BY <1>3, <1>4

\* A code that is matched is in its row: it has not been used, and no other request
\* owns it.
LEMMA CodesReadStep ==
  ASSUME MaxCodes \in Nat, C!IInv, NEW r \in Requests, C!ReadCode(r)
  PROVE  C!IInv'
<1>1. UNCHANGED <<sent, codes, code, lock, overran, granted, issued, id, spent>>
  BY DEF C!ReadCode, C!tokenVars
<1>2. /\ codesPc[r] = "reading"
      /\ \E p \in {"releasing", "dropping", "deleting"} :
            codesPc' = [codesPc EXCEPT ![r] = p]
  BY DEF C!ReadCode, C!Goto
<1>3. codesPc'[r] = "deleting" => code[r] \in codes
  BY <1>2 DEF C!ReadCode, C!Goto, C!IInv, C!TypeOK
<1>4. C!TypeOK' /\ C!TokenInv'
  BY <1>1, <1>2 DEF C!IInv, C!TypeOK, C!TokenInv, C!Locked
<1>5. CASE overran
  BY <1>1, <1>4, <1>5 DEF C!IInv
<1>6. CASE ~overran
  <2>1. C!LockInv'
    BY <1>1, <1>2, <1>6 DEF C!IInv, C!TypeOK, C!LockInv, C!Locked
  <2>2. \A q \in Requests \ {r} : codesPc'[q] = codesPc[q] /\
           codesPc[q] \notin C!Locked \ {"reading", "dropping", "releasing", "unlocking"}
    BY <1>2, <1>6 DEF C!IInv, C!TypeOK, C!LockInv, C!Locked
  <2>3. \A q \in Requests \ {r} : codesPc'[q] \in C!Owning =>
           codesPc[q] = "replacing" /\ code[q] \notin codes
    BY <2>2, <1>6 DEF C!IInv, C!OwnerInv, C!Owning, C!Locked
  <2>4. codesPc'[r] \in C!Owning =>
           code[r] \in codes /\ granted[code[r]] = 0 /\ codesPc'[r] = "deleting"
    BY <1>2, <1>3, <1>6 DEF C!IInv, C!TypeOK, C!GrantedInv, C!Owning, C!Codes
  <2>5. C!OwnerInv'
    BY <1>1, <1>6, <2>2, <2>3, <2>4 DEF C!IInv, C!OwnerInv, C!Owning
  <2>6. C!GrantedInv'
    BY <1>1, <1>6 DEF C!IInv, C!GrantedInv
  <2> QED
    BY <1>4, <2>1, <2>5, <2>6 DEF C!IInv
<1> QED
  BY <1>5, <1>6

LEMMA CodesDeleteStep ==
  ASSUME C!IInv, NEW r \in Requests, C!DeleteCodes(r)
  PROVE  C!IInv'
<1>1. /\ codes' = {}
      /\ \/ codesPc[r] = "dropping" /\ codesPc' = [codesPc EXCEPT ![r] = "releasing"]
         \/ codesPc[r] = "deleting" /\ codesPc' = [codesPc EXCEPT ![r] = "granting"]
      /\ UNCHANGED <<sent, code, lock, overran, granted, issued, id, spent>>
  BY DEF C!DeleteCodes, C!Goto, C!tokenVars
<1>2. C!TypeOK' /\ C!TokenInv'
  BY <1>1 DEF C!IInv, C!TypeOK, C!TokenInv, C!Locked
<1>3. CASE overran
  BY <1>1, <1>2, <1>3 DEF C!IInv
<1>4. CASE ~overran
  <2>1. C!LockInv'
    BY <1>1, <1>4 DEF C!IInv, C!TypeOK, C!LockInv, C!Locked
  <2>2. C!OwnerInv'
    BY <1>1, <1>4 DEF C!IInv, C!TypeOK, C!OwnerInv, C!Owning
  <2>3. C!GrantedInv'
    BY <1>1, <1>4 DEF C!IInv, C!GrantedInv
  <2> QED
    BY <1>2, <2>1, <2>2, <2>3 DEF C!IInv
<1> QED
  BY <1>3, <1>4

LEMMA CodesGrantStep ==
  ASSUME MaxCodes \in Nat, C!IInv, NEW r \in Requests, C!MarkVerified(r) \/ C!IssueToken(r)
  PROVE  C!IInv'
<1>1. /\ codesPc[r] = "granting" /\ codesPc' = [codesPc EXCEPT ![r] = "releasing"]
      /\ granted' = [granted EXCEPT ![code[r]] = @ + 1]
      /\ UNCHANGED <<sent, codes, code, lock, overran, spent>>
  BY DEF C!MarkVerified, C!IssueToken, C!Grant, C!Goto, C!tokenVars
<1>2. \/ UNCHANGED <<issued, id>>
      \/ issued < MaxCodes /\ issued' = issued + 1 /\ id' \in {issued + 1, id}
  BY DEF C!MarkVerified, C!IssueToken, C!tokenVars
<1>3. C!TypeOK'
  <2>1. code[r] \in C!Codes
    BY <1>1 DEF C!IInv, C!TypeOK, C!Codes
  <2>2. granted' \in [C!Codes -> Nat]
    BY <1>1, <2>1 DEF C!IInv, C!TypeOK
  <2> QED
    BY <1>1, <1>2, <2>2 DEF C!IInv, C!TypeOK, C!Locked
<1>4. C!TokenInv'
  BY <1>1, <1>2 DEF C!IInv, C!TypeOK, C!TokenInv, C!Codes
<1>5. CASE overran
  BY <1>1, <1>3, <1>4, <1>5 DEF C!IInv
<1>6. CASE ~overran
  <2> DEFINE c == code[r]
  <2>1. c \in 1..sent /\ c \in C!Codes /\ granted[c] = 0 /\ c \notin codes
    BY <1>1, <1>6 DEF C!IInv, C!TypeOK, C!OwnerInv, C!Owning, C!Codes
  <2>2. \A q \in Requests : codesPc'[q] \in C!Owning =>
           codesPc[q] \in C!Owning /\ codesPc'[q] = codesPc[q] /\ code[q] # c
    BY <1>1, <1>6 DEF C!IInv, C!TypeOK, C!OwnerInv, C!Owning
  <2>3. granted' = [granted EXCEPT ![c] = 1]
    BY <1>1, <2>1 DEF C!IInv, C!TypeOK
  <2> HIDE DEF c
  <2>4. C!LockInv'
    BY <1>1, <1>6 DEF C!IInv, C!TypeOK, C!LockInv, C!Locked
  <2>5. C!OwnerInv'
    BY <1>1, <1>6, <2>2, <2>3 DEF C!IInv, C!TypeOK, C!OwnerInv
  <2>6. C!GrantedInv'
    BY <1>1, <1>6, <2>1, <2>3 DEF C!IInv, C!TypeOK, C!GrantedInv
  <2> QED
    BY <1>3, <1>4, <2>4, <2>5, <2>6 DEF C!IInv
<1> QED
  BY <1>5, <1>6

\* Whoever removes the lock has compared it, and holds it still unless it ran out.
LEMMA CodesUnlockStep ==
  ASSUME C!IInv, NEW r \in Requests, C!Unlock(r)
  PROVE  C!IInv'
<1>1. /\ codesPc[r] = "unlocking" /\ codesPc' = [codesPc EXCEPT ![r] = "idle"]
      /\ UNCHANGED <<sent, codes, code, overran, granted, issued, id, spent>>
  BY DEF C!Unlock, C!Goto, C!tokenVars
<1>2. C!TypeOK' /\ C!TokenInv'
  BY <1>1 DEF C!IInv, C!TypeOK, C!TokenInv
<1>3. CASE overran
  BY <1>1, <1>2, <1>3 DEF C!IInv
<1>4. CASE ~overran
  <2>1. \A q \in Requests \ {r} : codesPc[q] \notin C!Locked
    BY <1>1, <1>4 DEF C!IInv, C!LockInv, C!Locked
  <2>2. C!LockInv'
    BY <1>1, <2>1 DEF C!IInv, C!TypeOK, C!LockInv, C!Locked
  <2>3. C!OwnerInv'
    BY <1>1, <1>4 DEF C!IInv, C!TypeOK, C!OwnerInv, C!Owning
  <2>4. C!GrantedInv'
    BY <1>1, <1>4 DEF C!IInv, C!GrantedInv
  <2> QED
    BY <1>2, <2>2, <2>3, <2>4 DEF C!IInv
<1> QED
  BY <1>3, <1>4

LEMMA CodesExpireLockStep ==
  ASSUME None \notin Requests, C!IInv, C!ExpireLock
  PROVE  C!IInv'
<1>1. /\ lock # None /\ lock' = None
      /\ overran' = (overran \/ codesPc[lock] \notin {"idle", "asked", "replacing"})
      /\ UNCHANGED <<sent, codes, codesPc, code, granted, issued, id, spent>>
  BY DEF C!ExpireLock, C!tokenVars
<1>2. C!TypeOK' /\ C!TokenInv'
  BY <1>1 DEF C!IInv, C!TypeOK, C!TokenInv
<1>3. CASE overran'
  BY <1>2, <1>3 DEF C!IInv
<1>4. CASE ~overran'
  <2>1. ~overran /\ codesPc[lock] \in {"idle", "asked", "replacing"}
    BY <1>1, <1>4
  <2>2. C!LockInv'
    BY <1>1, <2>1 DEF C!IInv, C!LockInv, C!Locked
  <2>3. C!OwnerInv' /\ C!GrantedInv'
    BY <1>1, <2>1 DEF C!IInv, C!OwnerInv, C!GrantedInv
  <2> QED
    BY <1>2, <2>2, <2>3 DEF C!IInv
<1> QED
  BY <1>3, <1>4

\* A token is spent only while it counts, and does not count any more afterwards.
LEMMA CodesTokenStep ==
  ASSUME MaxCodes \in Nat, C!IInv, (\E t \in C!Codes : C!ResetPassword(t)) \/ C!ExpireId
  PROVE  C!IInv'
<1>1. UNCHANGED <<sent, codes, codesPc, code, lock, overran, granted, issued>> /\ id' = 0
  BY DEF C!ResetPassword, C!TakeId, C!ExpireId
<1>2. \/ UNCHANGED spent
      \/ \E t \in C!Codes : spent' = [spent EXCEPT ![t] = IF id = t THEN @ + 1 ELSE @]
  BY DEF C!ResetPassword, C!ExpireId
<1>3. C!TypeOK'
  BY <1>1, <1>2 DEF C!IInv, C!TypeOK
<1>4. C!TokenInv'
  <2>1. CASE UNCHANGED spent
    BY <1>1, <2>1 DEF C!IInv, C!TypeOK, C!TokenInv, C!Codes
  <2>2. ASSUME NEW t \in C!Codes, spent' = [spent EXCEPT ![t] = IF id = t THEN @ + 1 ELSE @]
        PROVE  C!TokenInv'
    <3>1. t = id => spent[t] = 0 /\ t <= issued
      BY DEF C!IInv, C!TypeOK, C!TokenInv, C!Codes
    <3>2. ASSUME NEW u \in C!Codes PROVE spent'[u] <= 1 /\ (u > issued => spent'[u] = 0) /\ u # 0
      BY <2>2, <3>1 DEF C!IInv, C!TypeOK, C!TokenInv, C!Codes
    <3> QED
      BY <1>1, <3>2 DEF C!TokenInv
  <2> QED
    BY <1>2, <2>1, <2>2
<1>5. (C!LockInv /\ C!OwnerInv /\ C!GrantedInv) => (C!LockInv /\ C!OwnerInv /\ C!GrantedInv)'
  BY <1>1 DEF C!LockInv, C!OwnerInv, C!GrantedInv
<1> QED
  BY <1>1, <1>3, <1>4, <1>5 DEF C!IInv

\* Every step keeps the inductive invariant.
LEMMA CodesNextStep ==
  ASSUME MaxCodes \in Nat, None \notin Requests, C!IInv, [C!Next]_codesVars
  PROVE  C!IInv'
<1>1. ASSUME NEW r \in Requests, C!Ask(r) \/ C!Throw(r) \/ C!CompareLock(r) \/ C!Crash(r)
      PROVE  C!IInv'
  <2>1. /\ \E p \in {"releasing", "unlocking", "idle", "asked"} :
              codesPc' = [codesPc EXCEPT ![r] = p] /\ (p \in C!Locked => codesPc[r] \in C!Locked)
        /\ UNCHANGED <<sent, codes, code, granted, lock, overran, C!tokenVars>>
    BY <1>1 DEF C!Ask, C!Throw, C!CompareLock, C!Crash, C!Goto, C!Locked
  <2> QED
    BY <2>1, CodesQuietStep DEF C!Locked, C!Owning
<1>2. ASSUME NEW r \in Requests, NEW c \in C!Codes, C!Verify(r, c) PROVE C!IInv'
  BY <1>2, CodesVerifyStep
<1>3. ASSUME NEW r \in Requests, C!Send(r) \/ C!Replace(r) \/ C!ReadCode(r) \/ C!DeleteCodes(r)
      PROVE  C!IInv'
  BY <1>3, CodesSendStep, CodesReplaceStep, CodesReadStep, CodesDeleteStep
<1>4. ASSUME NEW r \in Requests, C!MarkVerified(r) \/ C!IssueToken(r) \/ C!Unlock(r)
      PROVE  C!IInv'
  BY <1>4, CodesGrantStep, CodesUnlockStep
<1>5. CASE (\E c \in C!Codes : C!ExpireCode(c)) \/ UNCHANGED codesVars
  <2>1. UNCHANGED <<sent, codes, codesPc, code, lock, overran, granted, issued, id, spent>>
    BY <1>5 DEF C!ExpireCode, codesVars, C!tokenVars
  <2> QED
    BY <2>1 DEF C!IInv, C!TypeOK, C!TokenInv, C!LockInv, C!OwnerInv, C!GrantedInv
<1>6. CASE (\E c \in C!Codes : C!ResetPassword(c)) \/ C!ExpireLock \/ C!ExpireId
  BY <1>6, CodesExpireLockStep, CodesTokenStep
<1> QED
  BY <1>1, <1>2, <1>3, <1>4, <1>5, <1>6 DEF C!Next

\* What the codes, the lock and the requests know of one another holds in every
\* reachable state.
THEOREM CodesInvariance == Spec => []C!IInv
<1>1. Init => C!IInv
  BY CodesInitInv, ServicesAssumption DEF Init
<1>2. C!IInv /\ [Next]_vars => C!IInv'
  BY CodesNextStep, CredentialsFrames, ServicesAssumption
<1> QED
  BY <1>1, <1>2, PTL DEF Spec

\* A one-time code verifies the user, or gets a reset token, once, as long as no lock
\* runs out under its holder (verifyOtp, verifyResetOtp).
THEOREM CodesAreOneTime == Spec => []CodeOnce
<1>1. C!IInv => CodeOnce
  BY DEF C!IInv, C!TypeOK, C!GrantedInv, CodeOnce, C!CodeOnce
<1> QED
  BY <1>1, CodesInvariance, PTL

\* A reset token changes the password once (resetPassword, GETDEL).
THEOREM ResetsAreOneTime == Spec => []ResetOnce
<1>1. C!IInv => ResetOnce
  BY DEF C!IInv, C!TokenInv, ResetOnce, C!ResetOnce
<1> QED
  BY <1>1, CodesInvariance, PTL

-----------------------------------------------------------------------------
(* Logins with a password: every wrong password that was compared is counted in the  *)
(* row, is about to be, or was missed, until the account is locked; from then on the *)
(* requests that had passed the lock may each compare one.                           *)

\* Module Lockout's Cardinality is this module's.
LEMMA LockoutCardinality == \A R : L!Cardinality(R) = Cardinality(R)
BY DEF L!Cardinality, Cardinality

\* A set in which one element may come or go.
LEMMA OneMoves ==
  ASSUME NEW before, IsFiniteSet(before), NEW r,
         NEW after, \A q : q # r => (q \in after <=> q \in before)
  PROVE  /\ r \in before /\ r \notin after => Cardinality(after) = Cardinality(before) - 1
         /\ r \notin before /\ r \in after => Cardinality(after) = Cardinality(before) + 1
         /\ (r \in before <=> r \in after) => after = before
<1>1. ASSUME r \in before, r \notin after PROVE Cardinality(after) = Cardinality(before) - 1
  <2>1. after = before \ {r}
    BY <1>1
  <2> QED
    BY <1>1, <2>1, FS_RemoveElement
<1>2. ASSUME r \notin before, r \in after PROVE Cardinality(after) = Cardinality(before) + 1
  <2>1. after = before \cup {r}
    BY <1>2
  <2> QED
    BY <1>2, <2>1, FS_AddElement
<1>3. (r \in before <=> r \in after) => after = before
  OBVIOUS
<1> QED
  BY <1>1, <1>2, <1>3

LEMMA LockoutCounts ==
  ASSUME L!TypeOK
  PROVE  /\ Cardinality(L!Owing) \in Nat /\ Cardinality(L!Comparing) \in Nat
         /\ Cardinality(Requests) \in Nat
         /\ Cardinality(L!Owing) + Cardinality(L!Comparing) <= Cardinality(Requests)
<1>1. /\ IsFiniteSet(L!Owing) /\ IsFiniteSet(L!Comparing) /\ IsFiniteSet(Requests)
      /\ Cardinality(L!Owing \cup L!Comparing) <= Cardinality(Requests)
  <2>1. L!Owing \subseteq Requests /\ L!Comparing \subseteq Requests
    BY DEF L!Owing, L!Comparing
  <2>2. L!Owing \cup L!Comparing \subseteq Requests
    BY <2>1
  <2> QED
    BY <2>1, <2>2, FS_Subset, ServicesAssumption
<1>2. L!Owing \cap L!Comparing = {}
  BY DEF L!Owing, L!Comparing
<1>3. Cardinality(L!Owing \cup L!Comparing) = Cardinality(L!Owing) + Cardinality(L!Comparing)
                                              - Cardinality(L!Owing \cap L!Comparing)
  BY <1>1, FS_Union
<1>4. /\ Cardinality(L!Owing) \in Nat /\ Cardinality(L!Comparing) \in Nat
      /\ Cardinality(Requests) \in Nat
  BY <1>1, FS_CardinalityType
<1>5. Cardinality(L!Owing \cap L!Comparing) = 0
  BY <1>2, FS_EmptySet
<1> QED
  BY <1>1, <1>3, <1>4, <1>5

\* What a step of a request does to the two sets.
LEMMA LockoutMoves ==
  ASSUME NEW r \in Requests, \A q \in Requests \ {r} : lockoutPc'[q] = lockoutPc[q]
  PROVE  /\ (lockoutPc[r] \in {"counting", "locking"}
             <=> lockoutPc'[r] \in {"counting", "locking"}) =>
               L!Owing' = L!Owing
         /\ lockoutPc[r] \in {"counting", "locking"}
            /\ lockoutPc'[r] \notin {"counting", "locking"} =>
               Cardinality(L!Owing') = Cardinality(L!Owing) - 1
         /\ lockoutPc[r] \notin {"counting", "locking"}
            /\ lockoutPc'[r] \in {"counting", "locking"} =>
               Cardinality(L!Owing') = Cardinality(L!Owing) + 1
         /\ (lockoutPc[r] = "comparing" <=> lockoutPc'[r] = "comparing") =>
               L!Comparing' = L!Comparing
         /\ lockoutPc[r] = "comparing" /\ lockoutPc'[r] # "comparing" =>
               Cardinality(L!Comparing') = Cardinality(L!Comparing) - 1
<1>1. IsFiniteSet(L!Owing) /\ IsFiniteSet(L!Comparing)
  <2>1. L!Owing \subseteq Requests /\ L!Comparing \subseteq Requests
    BY DEF L!Owing, L!Comparing
  <2> QED
    BY <2>1, FS_Subset, ServicesAssumption
<1>2. /\ \A q : q # r => (q \in L!Owing' <=> q \in L!Owing)
      /\ r \in L!Owing <=> lockoutPc[r] \in {"counting", "locking"}
      /\ r \in L!Owing' <=> lockoutPc'[r] \in {"counting", "locking"}
  BY DEF L!Owing
<1>3. /\ \A q : q # r => (q \in L!Comparing' <=> q \in L!Comparing)
      /\ r \in L!Comparing <=> lockoutPc[r] = "comparing"
      /\ r \in L!Comparing' <=> lockoutPc'[r] = "comparing"
  BY DEF L!Comparing
<1>4. /\ r \in L!Owing /\ r \notin L!Owing' => Cardinality(L!Owing') = Cardinality(L!Owing) - 1
      /\ r \notin L!Owing /\ r \in L!Owing' => Cardinality(L!Owing') = Cardinality(L!Owing) + 1
      /\ (r \in L!Owing <=> r \in L!Owing') => L!Owing' = L!Owing
  BY <1>1, <1>2, OneMoves
<1>5. /\ r \in L!Comparing /\ r \notin L!Comparing' =>
            Cardinality(L!Comparing') = Cardinality(L!Comparing) - 1
      /\ (r \in L!Comparing <=> r \in L!Comparing') => L!Comparing' = L!Comparing
  BY <1>1, <1>3, OneMoves
<1> QED
  BY <1>2, <1>3, <1>4, <1>5

LEMMA LockoutInit == L!Init => L!IInv
<1> SUFFICES ASSUME L!Init PROVE L!IInv
  OBVIOUS
<1>1. L!TypeOK /\ L!RowInv
  BY DEF L!Init, L!TypeOK, L!RowInv
<1> QED
  BY LockoutCardinality, <1>1, LockoutCounts, ServicesAssumption
     DEF L!Init, L!IInv, L!CountInv, L!Tolerated

\* Steps before the password is compared: only an account that is not locked gets a
\* request to compare one.
LEMMA LockoutLook ==
  ASSUME L!IInv, NEW r \in Requests, L!Ask(r) \/ L!ReadMetadata(r) \/ L!CreateMetadata(r)
  PROVE  L!IInv'
<1>1. PICK p \in {"idle", "reading", "creating", "comparing"} :
         lockoutPc' = [lockoutPc EXCEPT ![r] = p] /\ (p = "comparing" => ~locked /\ metadata')
  BY DEF L!Ask, L!ReadMetadata, L!CreateMetadata, L!Goto, L!IInv, L!RowInv, L!TypeOK
<1>2. /\ lockoutPc[r] \in {"idle", "reading", "creating"} /\ (metadata => metadata')
      /\ UNCHANGED <<failed, locked, guesses, faults>>
  BY DEF L!Ask, L!ReadMetadata, L!CreateMetadata, L!Goto
<1>3. L!TypeOK'
  <2>1. metadata' \in BOOLEAN
    BY DEF L!Ask, L!ReadMetadata, L!CreateMetadata, L!IInv, L!TypeOK
  <2> QED
    BY <1>1, <1>2, <2>1 DEF L!IInv, L!TypeOK
<1>4. L!RowInv'
  BY <1>1, <1>2 DEF L!IInv, L!TypeOK, L!RowInv
<1>5. L!CountInv'
  <2>1. L!Owing' = L!Owing /\ (locked => L!Comparing' = L!Comparing)
    BY <1>1, <1>2, LockoutMoves DEF L!IInv, L!TypeOK
  <2>2. L!Tolerated' = L!Tolerated
    BY <1>2 DEF L!Tolerated
  <2> QED
    BY LockoutCardinality, <1>2, <2>1, <2>2 DEF L!IInv, L!CountInv
<1> QED
  BY <1>3, <1>4, <1>5 DEF L!IInv

LEMMA LockoutCompare ==
  ASSUME L!IInv, NEW r \in Requests, L!ComparePassword(r)
  PROVE  L!IInv'
<1>1. /\ lockoutPc[r] = "comparing"
      /\ \/ lockoutPc' = [lockoutPc EXCEPT ![r] = "resetting"] /\ UNCHANGED guesses
         \/ lockoutPc' = [lockoutPc EXCEPT ![r] = "counting"] /\ guesses' = guesses + 1
      /\ UNCHANGED <<metadata, failed, locked, faults>>
  BY DEF L!ComparePassword, L!Goto
<1>2. L!TypeOK' /\ L!RowInv'
  BY <1>1 DEF L!IInv, L!TypeOK, L!RowInv
<1>3. L!CountInv'
  <2>1. Cardinality(L!Comparing') = Cardinality(L!Comparing) - 1
    BY <1>1, LockoutMoves DEF L!IInv, L!TypeOK
  <2>2. \/ guesses' = guesses /\ L!Owing' = L!Owing
        \/ guesses' = guesses + 1 /\ Cardinality(L!Owing') = Cardinality(L!Owing) + 1
    BY <1>1, LockoutMoves DEF L!IInv, L!TypeOK
  <2>3. L!Tolerated' = L!Tolerated /\ L!Tolerated \in Nat
    BY <1>1, ServicesAssumption DEF L!IInv, L!TypeOK, L!Tolerated
  <2>4. /\ guesses \in Nat /\ faults \in Nat /\ Cardinality(L!Owing) \in Nat
        /\ Cardinality(L!Comparing) \in Nat /\ Cardinality(Requests) \in Nat
    BY LockoutCounts DEF L!IInv, L!TypeOK
  <2>5. ~locked' => guesses' <= L!Tolerated' + Cardinality(L!Owing') + faults'
    BY LockoutCardinality, <1>1, <2>2, <2>3, <2>4 DEF L!IInv, L!CountInv
  <2>6. locked' => guesses' + Cardinality(L!Comparing')
                      <= (Limit - 1) + Cardinality(Requests) + faults'
    BY LockoutCardinality, <1>1, <2>1, <2>2, <2>4, ServicesAssumption DEF L!IInv, L!CountInv
  <2> QED
    BY LockoutCardinality, <2>5, <2>6 DEF L!CountInv
<1> QED
  BY <1>2, <1>3 DEF L!IInv

\* A failure is counted in the row, or the request owes the lock for it.
LEMMA LockoutCount ==
  ASSUME L!IInv, NEW r \in Requests, L!CountFailure(r)
  PROVE  L!IInv'
<1>1. /\ lockoutPc[r] = "counting"
      /\ failed' = IF failed > Limit THEN failed ELSE failed + 1
      /\ lockoutPc' = [lockoutPc EXCEPT ![r] = IF failed' >= Limit THEN "locking" ELSE "idle"]
      /\ UNCHANGED <<metadata, locked, guesses, faults>>
  BY DEF L!CountFailure, L!Goto, L!ReachesLimit
<1>2. L!TypeOK'
  BY <1>1 DEF L!IInv, L!TypeOK
<1>3. L!RowInv'
  BY <1>1 DEF L!IInv, L!TypeOK, L!RowInv
<1>4. L!CountInv'
  <2>1. L!Comparing' = L!Comparing
    BY <1>1, LockoutMoves DEF L!IInv, L!TypeOK
  <2>2. /\ guesses \in Nat /\ faults \in Nat /\ failed \in Nat /\ Cardinality(L!Owing) \in Nat
        /\ Limit \in Nat \ {0}
    BY LockoutCounts, ServicesAssumption DEF L!IInv, L!TypeOK
  <2>3. \/ failed' >= Limit /\ L!Owing' = L!Owing
        \/ failed' < Limit /\ Cardinality(L!Owing') = Cardinality(L!Owing) - 1
    BY <1>1, <2>2, LockoutMoves DEF L!IInv, L!TypeOK
  <2>4. \/ failed' >= Limit /\ L!Tolerated' >= L!Tolerated
        \/ failed' < Limit /\ L!Tolerated' = L!Tolerated + 1
    BY <1>1, <2>2 DEF L!Tolerated
  <2>5. L!Tolerated \in Nat /\ L!Tolerated' \in Nat /\ failed' \in Nat
    BY <1>1, <2>2 DEF L!Tolerated
  <2>6. ~locked' => guesses' <= L!Tolerated' + Cardinality(L!Owing') + faults'
    BY LockoutCardinality, <1>1, <2>2, <2>3, <2>4, <2>5 DEF L!IInv, L!CountInv
  <2> QED
    BY LockoutCardinality, <1>1, <2>1, <2>6 DEF L!IInv, L!CountInv
<1> QED
  BY <1>2, <1>3, <1>4 DEF L!IInv

\* Nobody but those past the lock is left to compare a password.
LEMMA LockoutLock ==
  ASSUME L!IInv, NEW r \in Requests, L!LockAccount(r)
  PROVE  L!IInv'
<1>1. /\ lockoutPc[r] = "locking" /\ lockoutPc' = [lockoutPc EXCEPT ![r] = "idle"]
      /\ locked' = TRUE /\ UNCHANGED <<metadata, failed, guesses, faults>>
  BY DEF L!LockAccount, L!Goto
<1>2. L!TypeOK' /\ L!RowInv'
  BY <1>1 DEF L!IInv, L!TypeOK, L!RowInv
<1>3. L!CountInv'
  <2>1. L!Comparing' = L!Comparing
    BY <1>1, LockoutMoves DEF L!IInv, L!TypeOK
  <2>2. L!Tolerated <= Limit - 1 /\ L!Tolerated \in Nat
    BY ServicesAssumption DEF L!IInv, L!TypeOK, L!Tolerated
  <2>3. guesses + Cardinality(L!Comparing) <= (Limit - 1) + Cardinality(Requests) + faults
    BY LockoutCardinality, <2>2, LockoutCounts, ServicesAssumption
       DEF L!IInv, L!TypeOK, L!CountInv
  <2> QED
    BY LockoutCardinality, <1>1, <2>1, <2>3 DEF L!CountInv
<1> QED
  BY <1>2, <1>3 DEF L!IInv

\* The count of guesses starts again.
LEMMA LockoutRestart ==
  ASSUME L!IInv, L!LockEnds \/ \E r \in Requests : L!RecordSuccess(r)
  PROVE  L!IInv'
<1>1. /\ locked' = FALSE /\ guesses' = 0 /\ (failed' = failed \/ failed' = 0)
      /\ metadata' = metadata /\ faults' = faults
  BY DEF L!LockEnds, L!RecordSuccess
<1>2. /\ L!TypeOK'
      /\ \A r \in Requests : lockoutPc'[r] \in {lockoutPc[r], "idle"}
  <2>1. \/ UNCHANGED lockoutPc
        \/ \E r \in Requests : lockoutPc' = [lockoutPc EXCEPT ![r] = "idle"]
    BY DEF L!LockEnds, L!RecordSuccess, L!Goto
  <2>2. lockoutPc' \in [Requests -> {"idle", "reading", "creating", "comparing", "resetting",
                                     "counting", "locking"}]
    BY <2>1 DEF L!IInv, L!TypeOK
  <2>3. \A r \in Requests : lockoutPc'[r] \in {lockoutPc[r], "idle"}
    BY <2>1 DEF L!IInv, L!TypeOK
  <2>4. failed' \in Nat /\ guesses' \in Nat /\ faults' \in Nat
    BY <1>1 DEF L!IInv, L!TypeOK
  <2>5. metadata' \in BOOLEAN /\ locked' \in BOOLEAN
    BY <1>1 DEF L!IInv, L!TypeOK
  <2> QED
    BY <2>2, <2>3, <2>4, <2>5 DEF L!TypeOK
<1>3. L!RowInv'
  BY <1>1, <1>2 DEF L!IInv, L!RowInv
<1>4. L!CountInv'
  <2>1. Cardinality(L!Owing') \in Nat
    <3>1. L!Owing' \subseteq Requests
      BY DEF L!Owing
    <3>2. IsFiniteSet(L!Owing')
      BY <3>1, FS_Subset, ServicesAssumption
    <3> QED
      BY <3>2, FS_CardinalityType
  <2>2. L!Tolerated' \in Nat /\ faults' \in Nat
    BY <1>2, ServicesAssumption DEF L!TypeOK, L!Tolerated
  <2> QED
    BY LockoutCardinality, <1>1, <2>1, <2>2 DEF L!CountInv
<1> QED
  BY <1>2, <1>3, <1>4 DEF L!IInv

LEMMA LockoutFail ==
  ASSUME L!IInv, NEW r \in Requests, L!Fail(r)
  PROVE  L!IInv'
<1>1. /\ lockoutPc' = [lockoutPc EXCEPT ![r] = "idle"]
      /\ IF lockoutPc[r] \in {"counting", "locking"}
         THEN faults' = faults + 1
         ELSE UNCHANGED faults
      /\ UNCHANGED <<metadata, failed, locked, guesses>>
  BY DEF L!Fail
<1>2. L!TypeOK'
  BY <1>1 DEF L!IInv, L!TypeOK
<1>3. L!RowInv'
  BY <1>1 DEF L!IInv, L!TypeOK, L!RowInv
<1>4. L!CountInv'
  <2>1. \/ faults' = faults /\ L!Owing' = L!Owing
        \/ faults' = faults + 1 /\ Cardinality(L!Owing') = Cardinality(L!Owing) - 1
    BY <1>1, LockoutMoves DEF L!IInv, L!TypeOK
  <2>2. \/ L!Comparing' = L!Comparing
        \/ Cardinality(L!Comparing') = Cardinality(L!Comparing) - 1
    BY <1>1, LockoutMoves DEF L!IInv, L!TypeOK
  <2>3. L!Tolerated' = L!Tolerated /\ L!Tolerated \in Nat
    BY <1>1, ServicesAssumption DEF L!IInv, L!TypeOK, L!Tolerated
  <2>4. /\ guesses \in Nat /\ faults \in Nat /\ Cardinality(L!Owing) \in Nat
        /\ Cardinality(L!Comparing) \in Nat /\ Cardinality(Requests) \in Nat
    BY LockoutCounts DEF L!IInv, L!TypeOK
  <2>5. ~locked' => guesses' <= L!Tolerated' + Cardinality(L!Owing') + faults'
    BY LockoutCardinality, <1>1, <2>1, <2>3, <2>4 DEF L!IInv, L!CountInv
  <2>6. locked' => guesses' + Cardinality(L!Comparing')
                      <= (Limit - 1) + Cardinality(Requests) + faults'
    BY LockoutCardinality, <1>1, <2>1, <2>2, <2>4, ServicesAssumption DEF L!IInv, L!CountInv
  <2> QED
    BY LockoutCardinality, <2>5, <2>6 DEF L!CountInv
<1> QED
  BY <1>2, <1>3, <1>4 DEF L!IInv

LEMMA LockoutNextStep ==
  ASSUME L!IInv, [L!Next]_lockoutVars
  PROVE  L!IInv'
<1>1. ASSUME NEW r \in Requests, L!Ask(r) \/ L!ReadMetadata(r) \/ L!CreateMetadata(r)
      PROVE  L!IInv'
  BY <1>1, LockoutLook
<1>2. ASSUME NEW r \in Requests, L!ComparePassword(r) \/ L!CountFailure(r) \/ L!LockAccount(r)
      PROVE  L!IInv'
  BY <1>2, LockoutCompare, LockoutCount, LockoutLock
<1>3. ASSUME NEW r \in Requests, L!RecordSuccess(r) \/ L!Fail(r)
      PROVE  L!IInv'
  BY <1>3, LockoutRestart, LockoutFail
<1>4. CASE L!LockEnds
  BY <1>4, LockoutRestart
<1>5. CASE UNCHANGED lockoutVars
  BY LockoutCardinality, <1>5
     DEF lockoutVars, L!IInv, L!TypeOK, L!RowInv, L!CountInv, L!Tolerated, L!Owing,
              L!Comparing
<1> QED
  BY <1>1, <1>2, <1>3, <1>4, <1>5 DEF L!Next

\* Where each wrong password has gone holds in every reachable state.
THEOREM LockoutInvariance == Spec => []L!IInv
<1>1. Init => L!IInv
  BY LockoutInit DEF Init
<1>2. L!IInv /\ [Next]_vars => L!IInv'
  BY LockoutNextStep, CredentialsFrames
<1> QED
  BY <1>1, <1>2, PTL DEF Spec

\* However user and admin logins interleave, no more wrong passwords are compared before
\* a lock than the limit allows and requests were at work, failing queries aside
\* (recordFailedLogin, throwIfLocked).
THEOREM GuessesAreBounded == Spec => []GuessesBounded
<1>1. L!IInv => GuessesBounded
  <2> SUFFICES ASSUME L!IInv PROVE GuessesBounded
    OBVIOUS
  <2>1. L!Tolerated <= Limit - 1 /\ L!Tolerated \in Nat
    BY ServicesAssumption DEF L!IInv, L!TypeOK, L!Tolerated
  <2> QED
    BY LockoutCardinality, <2>1, LockoutCounts, ServicesAssumption
       DEF L!IInv, L!TypeOK, L!CountInv, GuessesBounded, L!GuessesBounded
<1> QED
  BY <1>1, LockoutInvariance, PTL

-----------------------------------------------------------------------------
(* Registrations and sign-ins with Google: an account that was found to be linked    *)
(* keeps its id for itself, and until it is linked or gone it stays a Google account *)
(* without another identity, unless a deletion lets go of one.                       *)

LEMMA GoogleIds ==
  ASSUME G!IInv
  PROVE  /\ made \in Nat /\ 0 \in 0..made /\ 0..made \subseteq 0..(made + 1)
         /\ made + 1 \in 0..(made + 1)
         /\ found \in [Requests -> 0..made] /\ profile \in [Requests -> Profiles \cup {None}]
<1>1. made \in Nat
  BY DEF G!IInv, G!TypeOK
<1>2. 0 \in 0..made /\ 0..made \subseteq 0..(made + 1) /\ made + 1 \in 0..(made + 1)
  BY <1>1
<1> QED
  BY <1>1, <1>2 DEF G!IInv, G!TypeOK

\* The account as a link or a deletion leaves it, field by field.
LEMMA GoogleFields ==
  ASSUME G!TypeOK, NEW p, NEW d, NEW u,
         \/ googleAccount' = [googleAccount EXCEPT !.provider = p, !.sub = u]
               /\ d = googleAccount.deleted
         \/ googleAccount' = [googleAccount EXCEPT !.deleted = d, !.sub = u]
               /\ p = googleAccount.provider
         \/ googleAccount' = [googleAccount EXCEPT !.deleted = d]
               /\ p = googleAccount.provider /\ u = googleAccount.sub
  PROVE  googleAccount' = [id |-> googleAccount.id, provider |-> p, sub |-> u, deleted |-> d]
<1> DEFINE a == googleAccount
<1>1. a = [id |-> a.id, provider |-> a.provider, sub |-> a.sub, deleted |-> a.deleted]
  BY DEF G!TypeOK
<1> QED
  BY <1>1

LEMMA GoogleInit == G!Init => G!IInv
BY DEF G!Init, G!NoRow, G!IInv, G!TypeOK, G!ProfileInv, G!UnlinkedInv, G!LinkInv

\* Steps of a request that find nothing to link and change no row.
LEMMA GoogleQuiet ==
  ASSUME G!IInv, NEW r \in Requests,
         NEW p \in {"idle", "looking", "registering", "finding", "checking", "creating",
                    "finding again"},
         googlePc' = [googlePc EXCEPT ![r] = p],
         UNCHANGED <<googleAccount, made, letGo>>,
         p \in {"finding", "checking", "creating", "finding again"} => profile'[r] \in Profiles,
         \A q \in Requests \ {r} : profile'[q] = profile[q] /\ found'[q] = found[q],
         profile' \in [Requests -> Profiles \cup {None}], found' \in [Requests -> 0..made]
  PROVE  G!IInv'
<1>1. G!TypeOK'
  BY DEF G!IInv, G!TypeOK
<1>2. G!ProfileInv'
  BY DEF G!IInv, G!TypeOK, G!ProfileInv
<1>3. G!UnlinkedInv'
  BY DEF G!IInv, G!UnlinkedInv
<1>4. G!LinkInv'
  BY DEF G!IInv, G!TypeOK, G!LinkInv
<1> QED
  BY <1>1, <1>2, <1>3, <1>4 DEF G!IInv

LEMMA GoogleLook ==
  ASSUME G!IInv, NEW r \in Requests,
         \/ G!AskToRegister(r) \/ G!LookUpEmail(r) \/ G!AskGoogle(r) \/ G!FindDeleted(r)
         \/ G!Fail(r)
  PROVE  G!IInv'
<1>1. /\ UNCHANGED <<googleAccount, made, letGo>>
      /\ profile' \in [Requests -> Profiles \cup {None}] /\ found' \in [Requests -> 0..made]
      /\ \A q \in Requests \ {r} : profile'[q] = profile[q] /\ found'[q] = found[q]
  <2>1. \/ UNCHANGED profile
        \/ \E p \in Profiles \cup {None} : profile' = [profile EXCEPT ![r] = p]
    BY DEF G!AskToRegister, G!LookUpEmail, G!AskGoogle, G!FindDeleted, G!Fail
  <2>2. UNCHANGED found \/ found' = [found EXCEPT ![r] = 0]
    BY DEF G!AskToRegister, G!LookUpEmail, G!AskGoogle, G!FindDeleted, G!Fail
  <2>3. /\ profile' \in [Requests -> Profiles \cup {None}]
        /\ \A q \in Requests \ {r} : profile'[q] = profile[q]
    BY <2>1 DEF G!IInv, G!TypeOK
  <2>4. found' \in [Requests -> 0..made] /\ \A q \in Requests \ {r} : found'[q] = found[q]
    BY <2>2, GoogleIds
  <2>5. UNCHANGED <<googleAccount, made, letGo>>
    BY DEF G!AskToRegister, G!LookUpEmail, G!AskGoogle, G!FindDeleted, G!Fail
  <2> QED
    BY <2>3, <2>4, <2>5
<1>2. PICK p \in {"idle", "looking", "registering", "finding", "creating"} :
         /\ googlePc' = [googlePc EXCEPT ![r] = p]
         /\ p \in {"finding", "creating"} => profile'[r] \in Profiles
  BY DEF G!AskToRegister, G!LookUpEmail, G!AskGoogle, G!FindDeleted, G!Fail, G!Goto, G!IInv,
         G!TypeOK, G!ProfileInv
<1> QED
  BY <1>1, <1>2, GoogleQuiet

\* An account that is found is live, and a Google account; it is the row as it is now.
LEMMA GoogleFind ==
  ASSUME G!IInv, NEW r \in Requests, G!FindUser(r) \/ G!FindWinner(r)
  PROVE  G!IInv'
<1>1. /\ UNCHANGED <<googleAccount, made, profile, letGo>>
      /\ found' = [found EXCEPT ![r] = IF googlePc'[r] = "linking" THEN googleAccount.id ELSE 0]
  BY DEF G!FindUser, G!FindWinner
<1>2. /\ googlePc[r] \in {"finding", "finding again"}
      /\ \E p \in {"idle", "checking", "linking"} :
            /\ googlePc' = [googlePc EXCEPT ![r] = p]
            /\ p = "linking" => G!Live(googleAccount) /\ G!MayLink(googleAccount, profile[r])
  BY DEF G!FindUser, G!FindWinner, G!Goto, G!MayLink, G!MayLinkAfterConflict
<1>3. googleAccount.id \in 0..made /\ profile[r] \in Profiles
  BY <1>2 DEF G!IInv, G!TypeOK, G!ProfileInv
<1>4. CASE googlePc'[r] # "linking"
  <2>1. /\ profile' \in [Requests -> Profiles \cup {None}] /\ found' \in [Requests -> 0..made]
        /\ \A q \in Requests \ {r} : profile'[q] = profile[q] /\ found'[q] = found[q]
    <3>1. found' = [found EXCEPT ![r] = 0] /\ profile' = profile
      BY <1>1, <1>4
    <3> QED
      BY <3>1, GoogleIds
  <2>2. \E p \in {"idle", "checking"} : googlePc' = [googlePc EXCEPT ![r] = p]
    BY <1>2, <1>4 DEF G!IInv, G!TypeOK
  <2> QED
    BY <1>1, <1>3, <2>1, <2>2, GoogleQuiet
<1>5. CASE googlePc'[r] = "linking"
  <2>1. /\ googlePc' = [googlePc EXCEPT ![r] = "linking"]
        /\ G!Live(googleAccount) /\ G!MayLink(googleAccount, profile[r])
    BY <1>2, <1>5 DEF G!IInv, G!TypeOK
  <2>2. found' = [found EXCEPT ![r] = googleAccount.id]
    BY <1>1, <1>5
  <2>3. /\ googleAccount.id # 0 /\ googleAccount.provider = "google"
        /\ googleAccount.sub = profile[r] \/ googleAccount.id \in letGo
    BY <2>1 DEF G!Live, G!MayLink, G!IInv, G!UnlinkedInv
  <2>4. G!TypeOK'
    BY <1>1, <1>3, <2>1, <2>2 DEF G!IInv, G!TypeOK
  <2>5. G!ProfileInv' /\ G!UnlinkedInv'
    BY <1>1, <1>3, <2>1 DEF G!IInv, G!TypeOK, G!ProfileInv, G!UnlinkedInv
  <2>6. G!LinkInv'
    BY <1>1, <2>1, <2>2, <2>3 DEF G!IInv, G!TypeOK, G!LinkInv
  <2> QED
    BY <2>4, <2>5, <2>6 DEF G!IInv
<1> QED
  BY <1>4, <1>5

\* A new account has an id that nobody has found.
LEMMA GoogleInsert ==
  ASSUME G!IInv, NEW r \in Requests, G!Register(r) \/ G!CreateAccount(r)
  PROVE  G!IInv'
<1>1. /\ UNCHANGED <<profile, found, letGo>>
      /\ googlePc[r] \in {"registering", "creating"}
      /\ \E p \in {"idle", "finding again"} :
            /\ googlePc' = [googlePc EXCEPT ![r] = p]
            /\ p = "finding again" => googlePc[r] = "creating"
  BY DEF G!Register, G!CreateAccount, G!Goto
<1>2. googlePc'[r] = "finding again" => profile[r] \in Profiles
  BY <1>1 DEF G!IInv, G!TypeOK, G!ProfileInv
<1>3. CASE UNCHANGED <<googleAccount, made>>
  BY <1>1, <1>2, <1>3, GoogleQuiet DEF G!IInv, G!TypeOK
<1>4. ASSUME NEW provider \in {"local", "google"}, NEW sub \in Profiles \cup {None},
             provider = "google" => sub \in Profiles, G!Insert(provider, sub)
      PROVE  G!IInv'
  <2>1. /\ made' = made + 1
        /\ googleAccount' = [id |-> made + 1, provider |-> provider, sub |-> sub,
                             deleted |-> FALSE]
    BY <1>4 DEF G!Insert
  <2>2. G!TypeOK'
    <3>1. made \in Nat /\ made' \in Nat /\ 0..made \subseteq 0..made' /\ made + 1 \in 0..made'
      BY <2>1, GoogleIds
    <3>2. found' \in [Requests -> 0..made']
      BY <1>1, <3>1 DEF G!IInv, G!TypeOK
    <3>3. googleAccount' \in [id : 0..made', provider : {"local", "google"},
                              sub : Profiles \cup {None}, deleted : BOOLEAN]
      BY <2>1, <3>1
    <3> QED
      BY <1>1, <3>1, <3>2, <3>3 DEF G!IInv, G!TypeOK
  <2>3. G!ProfileInv'
    BY <1>1, <1>2 DEF G!IInv, G!TypeOK, G!ProfileInv
  <2>4. G!UnlinkedInv'
    BY <1>4, <2>1, ServicesAssumption DEF G!UnlinkedInv
  <2>5. G!LinkInv'
    <3> SUFFICES ASSUME NEW q \in Requests, googlePc'[q] = "linking"
                 PROVE  found'[q] # 0 /\ googleAccount'.id # found'[q]
      BY DEF G!LinkInv
    <3>1. googlePc[q] = "linking" /\ found'[q] = found[q] /\ found[q] \in 0..made /\ made \in Nat
      BY <1>1 DEF G!IInv, G!TypeOK
    <3> QED
      BY <2>1, <3>1 DEF G!IInv, G!LinkInv
  <2> QED
    BY <2>2, <2>3, <2>4, <2>5 DEF G!IInv
<1>5. CASE G!Register(r)
  BY <1>3, <1>4, <1>5 DEF G!Register
<1>6. CASE G!CreateAccount(r)
  <2>1. profile[r] \in Profiles
    BY <1>6 DEF G!CreateAccount, G!Goto, G!IInv, G!ProfileInv
  <2> QED
    BY <1>3, <1>4, <1>6, <2>1 DEF G!CreateAccount
<1> QED
  BY <1>5, <1>6

\* The account that is linked gets the identity it has, unless a deletion had let go of
\* it: whoever is about to link it too had found the same.
LEMMA GoogleLink ==
  ASSUME G!IInv, NEW r \in Requests, G!LinkAccount(r)
  PROVE  G!IInv'
<1>1. /\ googlePc[r] = "linking" /\ googlePc' = [googlePc EXCEPT ![r] = "idle"]
      /\ found' = [found EXCEPT ![r] = 0]
      /\ UNCHANGED <<made, profile, letGo>>
  BY DEF G!LinkAccount, G!Goto
<1>2. /\ profile[r] \in Profiles /\ found[r] # 0
      /\ googleAccount.id = found[r] =>
            /\ googleAccount.provider = "google"
            /\ googleAccount.sub = profile[r] \/ googleAccount.id \in letGo
  BY <1>1 DEF G!IInv, G!ProfileInv, G!LinkInv
<1>3. CASE googleAccount.id # found[r]
  <2>1. googleAccount' = googleAccount
    BY <1>3 DEF G!LinkAccount
  <2>2. /\ profile' \in [Requests -> Profiles \cup {None}] /\ found' \in [Requests -> 0..made]
        /\ \A q \in Requests \ {r} : profile'[q] = profile[q] /\ found'[q] = found[q]
    BY <1>1, GoogleIds
  <2> QED
    BY <1>1, <2>1, <2>2, GoogleQuiet
<1>4. CASE googleAccount.id = found[r]
  <2>1. googleAccount' = [id |-> googleAccount.id, provider |-> "google", sub |-> profile[r],
                          deleted |-> googleAccount.deleted]
    BY <1>4, GoogleFields DEF G!LinkAccount, G!IInv
  <2>2. /\ googleAccount'.id = googleAccount.id /\ googleAccount'.provider = "google"
        /\ googleAccount'.sub = profile[r]
    BY <2>1 DEF G!IInv, G!TypeOK
  <2>3. G!TypeOK'
    <3>1. found' \in [Requests -> 0..made]
      BY <1>1, GoogleIds
    <3> QED
      BY <1>1, <1>2, <2>1, <3>1 DEF G!IInv, G!TypeOK
  <2>4. G!ProfileInv'
    BY <1>1 DEF G!IInv, G!TypeOK, G!ProfileInv
  <2>5. G!UnlinkedInv'
    BY <1>2, <2>2, ServicesAssumption DEF G!UnlinkedInv
  <2>6. G!LinkInv'
    BY <1>1, <1>2, <1>4, <2>2 DEF G!IInv, G!TypeOK, G!LinkInv
  <2> QED
    BY <2>3, <2>4, <2>5, <2>6 DEF G!IInv
<1> QED
  BY <1>3, <1>4

LEMMA GoogleDeleted ==
  ASSUME G!IInv, G!Delete \/ G!Restore
  PROVE  \E u \in {googleAccount.sub, None}, d \in BOOLEAN :
            /\ googleAccount' = [id |-> googleAccount.id, provider |-> googleAccount.provider,
                                 sub |-> u, deleted |-> d]
            /\ u = googleAccount.sub \/ (googleAccount.provider = "google"
                                            /\ googleAccount.id \in letGo')
<1>1. CASE G!Restore
  BY <1>1, GoogleFields DEF G!Restore, G!IInv
<1>2. CASE G!Delete
  <2> DEFINE u == IF googleAccount.provider = "google" THEN None ELSE googleAccount.sub
  <2>1. googleAccount' = [googleAccount EXCEPT !.deleted = TRUE, !.sub = u]
    BY <1>2 DEF G!Delete
  <2>2. googleAccount' = [id |-> googleAccount.id, provider |-> googleAccount.provider,
                          sub |-> u, deleted |-> TRUE]
    BY <2>1, GoogleFields DEF G!IInv
  <2>3. googleAccount.provider = "google" => googleAccount.id \in letGo'
    BY <1>2 DEF G!Delete
  <2> QED
    BY <2>2, <2>3
<1> QED
  BY <1>1, <1>2

\* What others do to the account: it stays what it is, loses its identity, or goes.
LEMMA GoogleOthers ==
  ASSUME G!IInv, G!Delete \/ G!Restore \/ G!Purge
  PROVE  G!IInv'
<1>1. /\ UNCHANGED <<made, googlePc, profile, found>> /\ letGo \subseteq letGo'
      /\ \/ googleAccount' = G!NoRow
         \/ \E u \in {googleAccount.sub, None}, d \in BOOLEAN :
               /\ googleAccount' = [id |-> googleAccount.id, provider |-> googleAccount.provider,
                                    sub |-> u, deleted |-> d]
               /\ \/ u = googleAccount.sub
                  \/ googleAccount.provider = "google" /\ googleAccount.id \in letGo'
  BY GoogleDeleted DEF G!Delete, G!Restore, G!Purge
<1>2. G!TypeOK'
  <2>1. CASE googleAccount' = G!NoRow
    BY <1>1, <2>1, GoogleIds DEF G!NoRow, G!IInv, G!TypeOK
  <2>2. ASSUME NEW u \in {googleAccount.sub, None}, NEW d \in BOOLEAN,
               googleAccount' = [id |-> googleAccount.id, provider |-> googleAccount.provider,
                                 sub |-> u, deleted |-> d]
        PROVE  G!TypeOK'
    BY <1>1, <2>2 DEF G!IInv, G!TypeOK
  <2> QED
    BY <1>1, <2>1, <2>2
<1>3. G!ProfileInv'
  BY <1>1 DEF G!IInv, G!ProfileInv
<1>4. G!UnlinkedInv'
  BY <1>1 DEF G!NoRow, G!IInv, G!UnlinkedInv
<1>5. G!LinkInv'
  BY <1>1 DEF G!NoRow, G!IInv, G!LinkInv
<1> QED
  BY <1>2, <1>3, <1>4, <1>5 DEF G!IInv

LEMMA GoogleNextStep ==
  ASSUME G!IInv, [G!Next]_googleVars
  PROVE  G!IInv'
<1>1. ASSUME NEW r \in Requests,
             \/ G!AskToRegister(r) \/ G!LookUpEmail(r) \/ G!AskGoogle(r)
             \/ G!FindDeleted(r) \/ G!Fail(r)
      PROVE  G!IInv'
  BY <1>1, GoogleLook
<1>2. ASSUME NEW r \in Requests, G!FindUser(r) \/ G!FindWinner(r) PROVE G!IInv'
  BY <1>2, GoogleFind
<1>3. ASSUME NEW r \in Requests, G!Register(r) \/ G!CreateAccount(r) \/ G!LinkAccount(r)
      PROVE  G!IInv'
  BY <1>3, GoogleInsert, GoogleLink
<1>4. CASE G!Delete \/ G!Restore \/ G!Purge
  BY <1>4, GoogleOthers
<1>5. CASE UNCHANGED googleVars
  BY <1>5 DEF googleVars, G!IInv, G!TypeOK, G!ProfileInv, G!UnlinkedInv, G!LinkInv
<1> QED
  BY <1>1, <1>2, <1>3, <1>4, <1>5 DEF G!Next

\* What requests know of the account holds in every reachable state.
THEOREM GoogleInvariance == Spec => []G!IInv
<1>1. Init => G!IInv
  BY GoogleInit DEF Init
<1>2. G!IInv /\ [Next]_vars => G!IInv'
  BY GoogleNextStep, CredentialsFrames
<1> QED
  BY <1>1, <1>2, PTL DEF Spec

\* An account stays local, or with its Google identity until a deletion lets go of it
\* (handleOAuthLogin).
THEOREM IdentitiesStay == Spec => OneIdentity
<1> DEFINE Stays == googleAccount.id # 0 /\ googleAccount'.id = googleAccount.id =>
                       /\ googleAccount'.provider = googleAccount.provider
                       /\ googleAccount'.sub = googleAccount.sub \/ googleAccount.id \in letGo'
<1>1. ASSUME G!IInv, NEW r \in Requests, G!Register(r) \/ G!CreateAccount(r)
      PROVE  Stays
  <2>1. googleAccount' = googleAccount \/ googleAccount = G!NoRow
    BY <1>1 DEF G!Register, G!CreateAccount
  <2> QED
    BY <2>1 DEF G!NoRow
<1>2. ASSUME G!IInv, NEW r \in Requests, G!LinkAccount(r)
      PROVE  Stays
  <2>1. CASE googleAccount.id # found[r]
    BY <1>2, <2>1 DEF G!LinkAccount
  <2>2. CASE googleAccount.id = found[r]
    <3>1. /\ googleAccount' = [id |-> googleAccount.id, provider |-> "google",
                               sub |-> profile[r], deleted |-> googleAccount.deleted]
          /\ letGo' = letGo /\ googlePc[r] = "linking"
      BY <1>2, <2>2, GoogleFields DEF G!LinkAccount, G!Goto, G!IInv
    <3> QED
      BY <1>2, <2>2, <3>1 DEF G!IInv, G!TypeOK, G!LinkInv
  <2> QED
    BY <2>1, <2>2
<1>3. ASSUME G!IInv, G!Delete \/ G!Restore \/ G!Purge
      PROVE  Stays
  BY <1>3, GoogleDeleted DEF G!Purge, G!NoRow
<1>4. ASSUME NEW r \in Requests,
             \/ G!AskToRegister(r) \/ G!LookUpEmail(r) \/ G!AskGoogle(r) \/ G!FindUser(r)
             \/ G!FindDeleted(r) \/ G!FindWinner(r) \/ G!Fail(r)
      PROVE  Stays
  BY <1>4 DEF G!AskToRegister, G!LookUpEmail, G!AskGoogle, G!FindUser, G!FindDeleted,
              G!FindWinner, G!Fail
<1>5. UNCHANGED googleVars => Stays
  BY DEF googleVars
<1>6. G!IInv /\ [Next]_vars => [Stays]_googleVars
  <2> HIDE DEF Stays
  <2> QED
    BY <1>1, <1>2, <1>3, <1>4, <1>5, CredentialsFrames DEF G!Next
<1> QED
  BY <1>6, GoogleInvariance, PTL DEF Spec, OneIdentity, G!OneIdentity, G!vars, googleVars
==============================================================================
