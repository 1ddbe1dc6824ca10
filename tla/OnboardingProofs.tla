--------------------------- MODULE OnboardingProofs ---------------------------
(***************************************************************************)
(* How a user, a team and a business get started, proved for any number of *)
(* requests, sessions, invitations and recordings: one onboarding session  *)
(* is open, a spent invitation admits nobody, and no recording is lost     *)
(* but in the known ways. Each service has an inductive invariant in its   *)
(* own module.                                                             *)
(***************************************************************************)
EXTENDS Services, FiniteSetTheorems, TLAPS

LEMMA OnboardingFrames ==
  ASSUME [Next]_vars
  PROVE  [W!Next]_wizardVars /\ [T!Next]_teamsVars /\ [V!Next]_voiceVars
BY DEF Next, vars, CodesNext, WizardNext, TeamsNext, VoiceNext, ContentNext, AvatarNext,
       PreferencesNext, LockoutNext, GoogleNext, MilestoneNext, wizardVars, teamsVars,
       voiceVars

-----------------------------------------------------------------------------
(* The wizard: one request at a time holds the advisory lock, and when it is about   *)
(* to insert a session it has found none open; what has opened since then was opened *)
(* by a save.                                                                        *)

LEMMA WizardInitInv == W!Init => W!IInv
BY DEF W!Init, W!IInv, W!TypeOK, W!LockInv, W!FoundInv, W!OneOpen, W!Live

\* No session opens but by a save, and the lock stays with whoever has it.
LEMMA WizardNothingOpens ==
  ASSUME W!IInv, W!TypeOK', W!LockInv',
         \A s \in W!Sessions : W!Live(s)' => W!Live(s) \/ s \in reopened',
         reopened \subseteq reopened',
         \A r \in Requests : wizardPc'[r] = "creating" => wizardPc[r] = "creating" \/ W!NoneOpen
  PROVE  W!IInv'
<1>1. W!FoundInv'
  <2> SUFFICES ASSUME NEW r \in Requests, wizardPc'[r] = "creating",
                      NEW s \in W!Sessions, W!Live(s)'
               PROVE  s \in reopened'
    BY DEF W!FoundInv, W!NoneOpen
  <2>1. W!NoneOpen
    BY DEF W!IInv, W!FoundInv
  <2> QED
    BY <2>1 DEF W!NoneOpen
<1>2. W!OneOpen'
  <2> SUFFICES ASSUME NEW s \in W!Sessions, NEW t \in W!Sessions, W!Live(s)', W!Live(t)', s # t
               PROVE  s \in reopened' \/ t \in reopened'
    BY DEF W!OneOpen
  <2> QED
    BY DEF W!IInv, W!OneOpen
<1> QED
  BY <1>1, <1>2 DEF W!IInv

LEMMA WizardStartStep ==
  ASSUME W!IInv, NEW r \in Requests, W!StartSession(r) \/ W!FindActive(r)
  PROVE  W!IInv'
<1>1. UNCHANGED <<wizardStatus, lapsed, reopened>>
  BY DEF W!StartSession, W!FindActive
<1>2. W!TypeOK' /\ W!LockInv'
  BY <1>1 DEF W!StartSession, W!FindActive, W!Goto, W!LockFree, W!IInv, W!TypeOK, W!LockInv
<1>3. \A s \in W!Sessions : W!Live(s)' => W!Live(s)
  BY <1>1 DEF W!Live
<1>4. \A q \in Requests : wizardPc'[q] = "creating" => wizardPc[q] = "creating" \/ W!NoneOpen
  BY DEF W!StartSession, W!FindActive, W!Goto, W!IInv, W!TypeOK, W!NoneOpen
<1> QED
  BY <1>1, <1>2, <1>3, <1>4, WizardNothingOpens

LEMMA WizardCreateStep ==
  ASSUME W!IInv, NEW r \in Requests, W!CreateSession(r)
  PROVE  W!IInv'
<1>1. PICK s \in W!Sessions : wizardStatus' = [wizardStatus EXCEPT ![s] = "in_progress"]
  BY DEF W!CreateSession
<1>2. /\ wizardPc[r] = "creating" /\ wizardPc' = [wizardPc EXCEPT ![r] = "idle"]
      /\ advisory' = advisory \ {r} /\ UNCHANGED <<lapsed, reopened>>
  BY DEF W!CreateSession, W!Goto
<1>3. W!NoneOpen
  BY <1>2 DEF W!IInv, W!FoundInv
<1>4. W!TypeOK' /\ W!LockInv'
  BY <1>1, <1>2 DEF W!IInv, W!TypeOK, W!LockInv
<1>5. \A t \in W!Sessions \ {s} : W!Live(t)' => t \in reopened'
  BY <1>1, <1>2, <1>3 DEF W!IInv, W!TypeOK, W!NoneOpen, W!Live
<1>6. W!OneOpen'
  BY <1>5 DEF W!OneOpen
<1>7. \A q \in Requests : wizardPc'[q] # "creating"
  BY <1>2 DEF W!IInv, W!TypeOK, W!LockInv
<1>8. W!FoundInv'
  BY <1>7 DEF W!FoundInv
<1> QED
  BY <1>4, <1>6, <1>8 DEF W!IInv

\* Saves and completions take no lock.
LEMMA WizardAnswerStep ==
  ASSUME W!IInv, NEW r \in Requests,
         \/ \E s \in W!Sessions : \/ W!ReadForComplete(r, s)
                                  \/ \E n \in W!Steps : W!ReadForSave(r, s, n)
         \/ W!SelectForSave(r) \/ W!WriteSave(r) \/ W!CommitComplete(r)
  PROVE  W!IInv'
<1>1. /\ wizardPc[r] \in {"idle", "selecting", "writing", "completing"}
      /\ \E p \in {"idle", "selecting", "writing", "completing"} :
            wizardPc' = [wizardPc EXCEPT ![r] = p]
      /\ UNCHANGED <<advisory, lapsed>>
  BY DEF W!ReadForComplete, W!ReadForSave, W!SelectForSave, W!WriteSave, W!CommitComplete, W!Goto
<1>2. \/ UNCHANGED <<wizardStatus, reopened>>
      \/ wizardStatus' = [wizardStatus EXCEPT ![target[r]] = "complete"] /\ UNCHANGED reopened
      \/ /\ wizardStatus' = [wizardStatus EXCEPT ![target[r]] = "in_progress"]
         /\ reopened' = reopened \cup {target[r]}
  BY DEF W!ReadForComplete, W!ReadForSave, W!SelectForSave, W!WriteSave, W!CommitComplete
<1>3. W!TypeOK' /\ W!LockInv'
  BY <1>1, <1>2 DEF W!IInv, W!TypeOK, W!LockInv
<1>4. \A s \in W!Sessions : W!Live(s)' => W!Live(s) \/ s \in reopened'
  BY <1>1, <1>2 DEF W!IInv, W!TypeOK, W!Live
<1>5. \A q \in Requests : wizardPc'[q] = "creating" => wizardPc[q] = "creating"
  BY <1>1 DEF W!IInv, W!TypeOK
<1> QED
  BY <1>2, <1>3, <1>4, <1>5, WizardNothingOpens

LEMMA WizardFailStep ==
  ASSUME W!IInv, NEW r \in Requests, W!Fail(r)
  PROVE  W!IInv'
<1>1. /\ wizardPc' = [wizardPc EXCEPT ![r] = "idle"] /\ advisory' = advisory \ {r}
      /\ UNCHANGED <<wizardStatus, lapsed, reopened>>
  BY DEF W!Fail
<1>2. W!TypeOK' /\ W!LockInv'
  BY <1>1 DEF W!IInv, W!TypeOK, W!LockInv
<1>3. \A s \in W!Sessions : W!Live(s)' => W!Live(s)
  BY <1>1 DEF W!Live
<1>4. \A q \in Requests : wizardPc'[q] = "creating" => wizardPc[q] = "creating"
  BY <1>1 DEF W!IInv, W!TypeOK
<1> QED
  BY <1>1, <1>2, <1>3, <1>4, WizardNothingOpens

LEMMA WizardLapseStep ==
  ASSUME W!IInv, (\E s \in W!Sessions : W!Lapse(s)) \/ UNCHANGED wizardVars
  PROVE  W!IInv'
<1>1. UNCHANGED <<wizardStatus, advisory, reopened, wizardPc>> /\ lapsed \subseteq lapsed'
  BY DEF W!Lapse, wizardVars
<1>2. W!TypeOK' /\ W!LockInv'
  BY <1>1 DEF W!IInv, W!TypeOK, W!LockInv
<1>3. \A s \in W!Sessions : W!Live(s)' => W!Live(s)
  BY <1>1 DEF W!Live
<1> QED
  BY <1>1, <1>2, <1>3, WizardNothingOpens

\* Every step keeps the inductive invariant.
LEMMA WizardNextStep ==
  ASSUME W!IInv, [W!Next]_wizardVars
  PROVE  W!IInv'
<1>1. ASSUME NEW r \in Requests,
             W!StartSession(r) \/ W!FindActive(r) \/ W!CreateSession(r) \/ W!Fail(r)
      PROVE  W!IInv'
  BY <1>1, WizardStartStep, WizardCreateStep, WizardFailStep
<1>2. ASSUME NEW r \in Requests,
             \/ \E s \in W!Sessions :
                   W!ReadForComplete(r, s) \/ \E n \in W!Steps : W!ReadForSave(r, s, n)
             \/ W!SelectForSave(r) \/ W!WriteSave(r) \/ W!CommitComplete(r)
      PROVE  W!IInv'
  BY <1>2, WizardAnswerStep
<1> QED
  BY <1>1, <1>2, WizardLapseStep DEF W!Next

\* What the locks and the rows know of one another holds in every reachable state.
THEOREM WizardInvariance == Spec => []W!IInv
<1>1. Init => W!IInv
  BY WizardInitInv DEF Init
<1>2. W!IInv /\ [Next]_vars => W!IInv'
  BY WizardNextStep, OnboardingFrames
<1> QED
  BY <1>1, <1>2, PTL DEF Spec

\* Two onboarding sessions of a user are never open at once, unless a late save opened
\* one of them again (resolveStartWizardSession).
THEOREM OneOpenSession == Spec => []OneOpen
<1>1. W!IInv => OneOpen
  BY DEF W!IInv, OneOpen
<1> QED
  BY <1>1, WizardInvariance, PTL

-----------------------------------------------------------------------------
(* Invitations: whoever is between the claim of an invitation and the COMMIT holds   *)
(* its row, a row that is held is pending, and one that is pending was neither       *)
(* accepted nor revoked.                                                             *)

LEMMA TeamsInitInv == ASSUME None \notin Requests PROVE T!Init => T!IInv
BY DEF T!Init, T!IInv, T!TypeOK, T!ClaimInv, T!PastInv, T!AtWork, T!InTransaction

\* Steps that leave rows, claims and requests at work alone.
LEMMA TeamsQuietStep ==
  ASSUME T!IInv, NEW r \in Requests, NEW p \in {"idle", "inviting", "inserting"},
         teamsPc[r] \in {"idle", "inviting", "inserting"}, teamsPc' = [teamsPc EXCEPT ![r] = p],
         UNCHANGED <<teamsStatus, holder, admitted, revoked, invitation>>
  PROVE  T!IInv'
BY DEF T!IInv, T!TypeOK, T!ClaimInv, T!PastInv, T!AtWork, T!InTransaction

\* Steps from one statement of a transaction to the next.
LEMMA TeamsTransactionStep ==
  ASSUME T!IInv, NEW r \in Requests, NEW p \in T!InTransaction,
         teamsPc[r] \in T!InTransaction, teamsPc' = [teamsPc EXCEPT ![r] = p],
         UNCHANGED <<teamsStatus, holder, admitted, revoked, invitation>>
  PROVE  T!IInv'
BY DEF T!IInv, T!TypeOK, T!ClaimInv, T!PastInv, T!AtWork, T!InTransaction

LEMMA TeamsCreateStep ==
  ASSUME T!IInv, NEW r \in Requests, T!CreateInvitation(r)
  PROVE  T!IInv'
<1>1. teamsPc[r] = "inserting" /\ teamsPc' = [teamsPc EXCEPT ![r] = "idle"]
  BY DEF T!CreateInvitation, T!Goto
<1>2. UNCHANGED <<holder, admitted, revoked, invitation>>
  BY DEF T!CreateInvitation
<1>3. CASE UNCHANGED teamsStatus
  BY <1>1, <1>2, <1>3, TeamsQuietStep
<1>4. ASSUME NEW i \in T!Invitations, teamsStatus[i] = "none",
             teamsStatus' = [teamsStatus EXCEPT ![i] = "pending"]
      PROVE  T!IInv'
  BY <1>1, <1>2, <1>4 DEF T!IInv, T!TypeOK, T!ClaimInv, T!PastInv, T!AtWork, T!InTransaction
<1> QED
  BY <1>3, <1>4 DEF T!CreateInvitation

LEMMA TeamsTakeUpStep ==
  ASSUME None \notin Requests, T!IInv, NEW r \in Requests, NEW i \in T!Invitations,
         T!FindPending(r, i) \/ T!ReadInvitation(r, i)
  PROVE  T!IInv'
<1>1. /\ teamsPc[r] = "idle"
      /\ \E p \in {"revoking", "claiming"} : teamsPc' = [teamsPc EXCEPT ![r] = p]
      /\ invitation' = [invitation EXCEPT ![r] = i]
      /\ UNCHANGED <<teamsStatus, holder, admitted, revoked>>
  BY DEF T!FindPending, T!ReadInvitation, T!Goto
<1> QED
  BY <1>1 DEF T!IInv, T!TypeOK, T!ClaimInv, T!PastInv, T!AtWork, T!InTransaction

LEMMA TeamsRevokeStep ==
  ASSUME None \notin Requests, T!IInv, NEW r \in Requests, T!Revoke(r)
  PROVE  T!IInv'
<1> DEFINE i == invitation[r]
<1>1. i \in T!Invitations /\ holder[i] = None /\ teamsPc[r] = "revoking"
  BY DEF T!Revoke, T!RowFree, T!Goto, T!IInv, T!ClaimInv, T!AtWork
<1>2. /\ teamsPc' = [teamsPc EXCEPT ![r] = "idle"]
      /\ teamsStatus' = [teamsStatus EXCEPT ![i] = "revoked"]
      /\ invitation' = [invitation EXCEPT ![r] = 0]
      /\ revoked' = IF admitted[i] = 0 THEN revoked \cup {i} ELSE revoked
      /\ UNCHANGED <<holder, admitted>>
  BY DEF T!Revoke, T!Goto
<1> HIDE DEF i
<1>3. T!TypeOK'
  BY <1>1, <1>2 DEF T!IInv, T!TypeOK
<1>4. T!ClaimInv'
  BY <1>1, <1>2 DEF T!IInv, T!TypeOK, T!ClaimInv, T!AtWork, T!InTransaction
<1>5. T!PastInv'
  BY <1>1, <1>2 DEF T!IInv, T!TypeOK, T!PastInv
<1> QED
  BY <1>3, <1>4, <1>5 DEF T!IInv

LEMMA TeamsClaimStep ==
  ASSUME None \notin Requests, T!IInv, NEW r \in Requests, T!Claim(r)
  PROVE  T!IInv'
<1> DEFINE i == invitation[r]
<1>1. i \in T!Invitations /\ holder[i] = None /\ teamsPc[r] = "claiming"
  BY DEF T!Claim, T!RowFree, T!IInv, T!ClaimInv, T!AtWork
<1>2. UNCHANGED <<teamsStatus, admitted, revoked>>
  BY DEF T!Claim
<1>3. CASE T!Claimable(i)
  <2>1. /\ teamsPc' = [teamsPc EXCEPT ![r] = "accounting"] /\ holder' = [holder EXCEPT ![i] = r]
        /\ UNCHANGED invitation /\ teamsStatus[i] = "pending"
    BY <1>3 DEF T!Claim, T!Goto, T!Claimable
  <2> QED
    BY <1>1, <1>2, <2>1 DEF T!IInv, T!TypeOK, T!ClaimInv, T!PastInv, T!AtWork, T!InTransaction
<1>4. CASE ~T!Claimable(i)
  <2>1. /\ teamsPc' = [teamsPc EXCEPT ![r] = "idle"]
        /\ invitation' = [invitation EXCEPT ![r] = 0]
        /\ UNCHANGED holder
    BY <1>4 DEF T!Claim, T!Goto
  <2> QED
    BY <1>1, <1>2, <2>1 DEF T!IInv, T!TypeOK, T!ClaimInv, T!PastInv, T!AtWork, T!InTransaction
<1> QED
  BY <1>3, <1>4

LEMMA TeamsAdmitStep ==
  ASSUME None \notin Requests, T!IInv, NEW r \in Requests, T!Admit(r)
  PROVE  T!IInv'
<1> DEFINE i == invitation[r]
<1>1. teamsPc[r] \in {"committing", "enrolling"}
  BY DEF T!Admit, T!Goto
<1>2. i \in T!Invitations /\ holder[i] = r /\ teamsStatus[i] = "pending"
  BY <1>1 DEF T!IInv, T!ClaimInv, T!AtWork, T!InTransaction
<1>3. /\ teamsPc' = [teamsPc EXCEPT ![r] = "idle"]
      /\ teamsStatus' = [teamsStatus EXCEPT ![i] = "accepted"]
      /\ admitted' = [admitted EXCEPT ![i] = @ + 1] /\ holder' = [holder EXCEPT ![i] = None]
      /\ invitation' = [invitation EXCEPT ![r] = 0]
      /\ UNCHANGED revoked
  BY DEF T!Admit, T!Goto
<1> HIDE DEF i
<1>4. admitted[i] = 0 /\ i \notin revoked
  BY <1>2 DEF T!IInv, T!TypeOK, T!PastInv
<1>5. T!TypeOK'
  BY <1>2, <1>3, <1>4 DEF T!IInv, T!TypeOK
<1>6. T!ClaimInv'
  BY <1>1, <1>2, <1>3 DEF T!IInv, T!TypeOK, T!ClaimInv, T!AtWork, T!InTransaction
<1>7. T!PastInv'
  BY <1>2, <1>3, <1>4 DEF T!IInv, T!TypeOK, T!PastInv
<1> QED
  BY <1>5, <1>6, <1>7 DEF T!IInv

LEMMA TeamsFailStep ==
  ASSUME None \notin Requests, T!IInv, NEW r \in Requests, T!Fail(r)
  PROVE  T!IInv'
<1>1. /\ teamsPc' = [teamsPc EXCEPT ![r] = "idle"] /\ invitation' = [invitation EXCEPT ![r] = 0]
      /\ holder' = [i \in T!Invitations |-> IF holder[i] = r THEN None ELSE holder[i]]
      /\ UNCHANGED <<teamsStatus, admitted, revoked>>
  BY DEF T!Fail
<1> QED
  BY <1>1 DEF T!IInv, T!TypeOK, T!ClaimInv, T!PastInv, T!AtWork, T!InTransaction

\* Every step keeps the inductive invariant.
LEMMA TeamsNextStep ==
  ASSUME None \notin Requests, T!IInv, [T!Next]_teamsVars
  PROVE  T!IInv'
<1>1. ASSUME NEW r \in Requests, T!Invite(r) \/ T!CheckMember(r) PROVE T!IInv'
  <2>1. /\ teamsPc[r] \in {"idle", "inviting"}
        /\ \E p \in {"idle", "inviting", "inserting"} : teamsPc' = [teamsPc EXCEPT ![r] = p]
        /\ UNCHANGED <<teamsStatus, holder, admitted, revoked, invitation>>
    BY <1>1 DEF T!Invite, T!CheckMember, T!Goto
  <2> QED
    BY <2>1, TeamsQuietStep
<1>2. ASSUME NEW r \in Requests, T!CreateAccount(r) \/ T!GrantRole(r) \/ T!FindMembership(r)
      PROVE  T!IInv'
  <2>1. /\ teamsPc[r] \in T!InTransaction
        /\ \E p \in T!InTransaction : teamsPc' = [teamsPc EXCEPT ![r] = p]
        /\ UNCHANGED <<teamsStatus, holder, admitted, revoked, invitation>>
    BY <1>2 DEF T!CreateAccount, T!GrantRole, T!FindMembership, T!Goto, T!InTransaction
  <2> QED
    BY <2>1, TeamsTransactionStep
<1>3. ASSUME NEW r \in Requests, NEW i \in T!Invitations, T!FindPending(r,
             i) \/ T!ReadInvitation(r, i)
      PROVE  T!IInv'
  BY <1>3, TeamsTakeUpStep
<1>4. ASSUME NEW r \in Requests, T!CreateInvitation(r) PROVE T!IInv'
  BY <1>4, TeamsCreateStep
<1>5. ASSUME NEW r \in Requests, T!Revoke(r) \/ T!Claim(r) \/ T!Admit(r) \/ T!Fail(r)
      PROVE  T!IInv'
  BY <1>5, TeamsRevokeStep, TeamsClaimStep, TeamsAdmitStep, TeamsFailStep
<1>6. CASE \/ T!RevokeMember \/ T!DeleteTeam \/ (\E i \in T!Invitations : T!Expire(i))
           \/ UNCHANGED teamsVars
  <2>1. UNCHANGED <<teamsStatus, holder, admitted, revoked, teamsPc, invitation>>
    BY <1>6 DEF T!RevokeMember, T!DeleteTeam, T!Expire, teamsVars
  <2> QED
    BY <2>1 DEF T!IInv, T!TypeOK, T!ClaimInv, T!PastInv
<1> QED
  BY <1>1, <1>2, <1>3, <1>4, <1>5, <1>6 DEF T!Next

\* What the requests and the rows know of one another holds in every reachable state.
THEOREM TeamsInvariance == Spec => []T!IInv
<1>1. Init => T!IInv
  BY TeamsInitInv, ServicesAssumption DEF Init
<1>2. T!IInv /\ [Next]_vars => T!IInv'
  BY TeamsNextStep, OnboardingFrames, ServicesAssumption
<1> QED
  BY <1>1, <1>2, PTL DEF Spec

\* An invitation admits once, and never after a revocation that came first
\* (acceptInvite, claimWithManager, revokeInvitation).
THEOREM SpentInvitations == Spec => []SpentAdmitsNobody
<1>1. T!IInv => SpentAdmitsNobody
  BY DEF T!IInv, T!TypeOK, T!PastInv, SpentAdmitsNobody, T!SpentAdmitsNobody
<1> QED
  BY <1>1, TeamsInvariance, PTL

-----------------------------------------------------------------------------
(* Voice sessions: as long as no known loss has happened, a recording is counted as  *)
(* completed once, after its text was put in the list, and a text leaves the list    *)
(* only when it is in a document. Whoever finds as many recordings completed as      *)
(* expected therefore finds the texts of all of them.                                *)

\* Module Voice's Cardinality is this module's.
LEMMA VoiceCardinality == \A R : V!Cardinality(R) = Cardinality(R)
BY DEF V!Cardinality, Cardinality

LEMMA VoiceNoMeta == V!NoMeta \in [live : BOOLEAN, expected : Nat, completed : Nat]
BY DEF V!NoMeta

LEMMA VoiceInit == V!Init => V!IInv
<1> SUFFICES ASSUME V!Init PROVE V!IInv
  OBVIOUS
<1>1. V!TypeOK
  BY DEF V!Init, V!TypeOK, V!NoMeta
<1>2. V!ExpectedInv
  BY VoiceCardinality, FS_EmptySet DEF V!Init, V!ExpectedInv, V!NoMeta
<1>3. V!CompletedInv
  <2>1. V!Past = {}
    BY DEF V!Init, V!Past
  <2> QED
    BY <2>1, VoiceCardinality, FS_EmptySet DEF V!Init, V!CompletedInv, V!NoMeta
<1>4. V!TextInv /\ V!WantedInv
  BY DEF V!Init, V!TextInv, V!WantedInv
<1> QED
  BY <1>1, <1>2, <1>3, <1>4 DEF V!IInv

\* Both sets of recordings are finite, and all that was counted is past when there are
\* as many.
LEMMA VoiceCounts ==
  ASSUME V!TypeOK
  PROVE  /\ IsFiniteSet(counted) /\ IsFiniteSet(V!Past)
         /\ Cardinality(counted) \in Nat /\ Cardinality(V!Past) \in Nat
         /\ Cardinality(V!Past) <= Cardinality(counted)
         /\ Cardinality(counted) = Cardinality(V!Past) => V!Past = counted
<1>1. IsFiniteSet(counted)
  BY FS_Subset, ServicesAssumption DEF V!TypeOK
<1>2. V!Past \in SUBSET counted
  BY DEF V!Past
<1>3. IsFiniteSet(V!Past)
  BY <1>1, <1>2, FS_Subset
<1>4. Cardinality(counted) \in Nat /\ Cardinality(V!Past) \in Nat
  BY <1>1, <1>3, FS_CardinalityType
<1> QED
  BY <1>1, <1>2, <1>3, <1>4, FS_Subset

\* What is past stays past.
LEMMA VoicePast ==
  ASSUME V!TypeOK, V!TypeOK', counted \subseteq counted', appended \subseteq appended',
         \A j \in Recordings : run'[j] \in {"counting", "adding"} =>
            run[j] \in {"counting", "adding"} \/ j \notin appended
  PROVE  /\ Cardinality(V!Past) \in Nat /\ Cardinality(V!Past') \in Nat
         /\ Cardinality(V!Past) <= Cardinality(V!Past')
<1>1. V!Past \in SUBSET (V!Past')
  BY DEF V!Past, V!TypeOK
<1>2. IsFiniteSet(V!Past')
  <2>1. V!Past' \subseteq Recordings
    BY DEF V!Past, V!TypeOK
  <2> QED
    BY <2>1, FS_Subset, ServicesAssumption
<1>3. IsFiniteSet(V!Past)
  BY VoiceCounts
<1> QED
  BY <1>1, <1>2, <1>3, FS_Subset, FS_CardinalityType

\* Steps of an upload or a job that count nothing and append nothing.
LEMMA VoiceQuiet ==
  ASSUME V!IInv, V!TypeOK',
         UNCHANGED <<texts, appended, meta, counted, voicePc, wanted, listed, saved, excused>>,
         \A j \in Recordings : upload[j] = "ended" => upload'[j] = "ended",
         \A j \in Recordings : run'[j] \in {"counting", "adding"} =>
                                run[j] \in {"counting", "adding"}
  PROVE  V!IInv'
<1>1. V!ExpectedInv'
  BY VoiceCardinality DEF V!IInv, V!TypeOK, V!ExpectedInv
<1>2. V!CompletedInv => V!CompletedInv'
  <2>1. /\ Cardinality(V!Past) \in Nat /\ Cardinality(V!Past') \in Nat
        /\ Cardinality(V!Past) <= Cardinality(V!Past')
    BY VoicePast DEF V!IInv
  <2>2. meta.completed \in Nat
    BY DEF V!IInv, V!TypeOK
  <2> QED
    BY <2>1, <2>2, VoiceCardinality DEF V!CompletedInv
<1>3. (V!TextInv => V!TextInv') /\ (V!WantedInv => V!WantedInv')
  BY DEF V!TextInv, V!WantedInv
<1> QED
  BY <1>1, <1>2, <1>3 DEF V!IInv

LEMMA VoiceUpload ==
  ASSUME V!IInv, NEW j \in Recordings, V!StartUpload(j) \/ V!Enqueue(j) \/ V!FailUpload(j)
  PROVE  V!IInv'
<1>1. /\ UNCHANGED <<run, texts, appended, meta, counted, voicePc, wanted, listed, saved,
                     excused>>
      /\ upload[j] \in {"none", "queuing", "counting"}
      /\ \E to \in {"queuing", "counting", "ended"} : upload' = [upload EXCEPT ![j] = to]
  BY DEF V!StartUpload, V!Enqueue, V!FailUpload, V!Upload, V!jobVars, V!doneVars
<1>2. V!TypeOK'
  BY <1>1 DEF V!IInv, V!TypeOK
<1>3. \A k \in Recordings : upload[k] = "ended" => upload'[k] = "ended"
  BY <1>1 DEF V!IInv, V!TypeOK
<1> QED
  BY <1>1, <1>2, <1>3, VoiceQuiet

LEMMA VoiceJob ==
  ASSUME V!IInv, NEW j \in Recordings,
         V!Take(j) \/ V!Load(j) \/ V!Mark(j) \/ V!DropObject(j) \/ V!Break(j)
  PROVE  V!IInv'
<1>1. /\ UNCHANGED <<upload, texts, appended, meta, counted, voicePc, wanted, listed, saved,
                     excused>>
      /\ \E to \in {"idle", "loading", "transcribing", "cleaning"} :
            run' = [run EXCEPT ![j] = to]
  BY DEF V!Take, V!Load, V!Mark, V!DropObject, V!Break, V!Run, V!doneVars
<1>2. V!TypeOK'
  BY <1>1 DEF V!IInv, V!TypeOK
<1>3. \A k \in Recordings : run'[k] \in {"counting", "adding"} =>
                                run[k] \in {"counting", "adding"}
  BY <1>1 DEF V!IInv, V!TypeOK
<1> QED
  BY <1>1, <1>2, <1>3, VoiceQuiet

\* A recording is expected once: it had not been counted.
LEMMA VoiceExpect ==
  ASSUME V!IInv, NEW j \in Recordings, V!CountExpected(j)
  PROVE  V!IInv'
<1>1. /\ upload[j] = "counting" /\ upload' = [upload EXCEPT ![j] = "ended"]
      /\ meta' = [meta EXCEPT !.live = TRUE, !.expected = @ + 1]
      /\ counted' = counted \cup {j}
      /\ UNCHANGED <<run, texts, appended, voicePc, wanted, listed, saved, excused>>
  BY DEF V!CountExpected, V!Upload, V!jobVars, V!doneVars
<1>2. /\ meta'.expected = meta.expected + 1 /\ meta'.completed = meta.completed
      /\ meta' \in [live : BOOLEAN, expected : Nat, completed : Nat]
      /\ meta.expected \in Nat /\ meta.completed \in Nat
  <2>1. meta \in [live : BOOLEAN, expected : Nat, completed : Nat]
    BY DEF V!IInv, V!TypeOK
  <2>2. meta' = [live |-> TRUE, expected |-> meta.expected + 1, completed |-> meta.completed]
    BY <1>1, <2>1
  <2>3. meta.expected \in Nat /\ meta.completed \in Nat
    BY <2>1
  <2> QED
    BY <2>2, <2>3
<1>3. V!TypeOK'
  BY <1>1, <1>2 DEF V!IInv, V!TypeOK
<1>4. V!ExpectedInv'
  <2>1. j \notin counted /\ IsFiniteSet(counted)
    BY <1>1, VoiceCounts DEF V!IInv, V!ExpectedInv
  <2>2. Cardinality(counted') = Cardinality(counted) + 1
    BY <1>1, <2>1, FS_AddElement
  <2>3. \A k \in counted' : upload'[k] = "ended"
    BY <1>1 DEF V!IInv, V!TypeOK, V!ExpectedInv
  <2> QED
    BY <1>2, <2>2, <2>3, VoiceCardinality DEF V!IInv, V!ExpectedInv
<1>5. V!CompletedInv => V!CompletedInv'
  <2>1. /\ Cardinality(V!Past) \in Nat /\ Cardinality(V!Past') \in Nat
        /\ Cardinality(V!Past) <= Cardinality(V!Past')
    BY <1>1, <1>3, VoicePast DEF V!IInv
  <2> QED
    BY <1>1, <1>2, <2>1, VoiceCardinality DEF V!CompletedInv
<1>6. (V!TextInv => V!TextInv') /\ (V!WantedInv => V!WantedInv')
  BY <1>1 DEF V!TextInv, V!WantedInv
<1> QED
  BY <1>1, <1>3, <1>4, <1>5, <1>6 DEF V!IInv

\* A text that is put in the list for the first time.
LEMMA VoiceAppend ==
  ASSUME V!IInv, NEW j \in Recordings, V!Append(j)
  PROVE  V!IInv'
<1>1. /\ run' = [run EXCEPT ![j] = "counting"]
      /\ texts' = texts \cup {j} /\ appended' = appended \cup {j}
      /\ excused' = (excused \/ j \in appended)
      /\ UNCHANGED <<upload, meta, counted, voicePc, wanted, listed, saved>>
  BY DEF V!Append, V!Run, V!doneVars
<1>2. V!TypeOK'
  BY <1>1 DEF V!IInv, V!TypeOK
<1>3. V!ExpectedInv'
  BY <1>1, VoiceCardinality DEF V!IInv, V!ExpectedInv
<1>4. ASSUME ~excused' PROVE V!CompletedInv' /\ V!TextInv' /\ V!WantedInv'
  <2>1. j \notin appended /\ V!CompletedInv /\ V!TextInv /\ V!WantedInv
    BY <1>1, <1>4 DEF V!IInv
  <2>2. /\ \A k \in Recordings : run'[k] \in {"counting", "adding"} =>
              run[k] \in {"counting", "adding"} \/ k \notin appended
        /\ \A k \in Recordings : run'[k] \in {"counting", "adding"} => k \in appended'
    BY <1>1, <2>1 DEF V!IInv, V!TypeOK, V!CompletedInv
  <2>3. /\ Cardinality(V!Past) \in Nat /\ Cardinality(V!Past') \in Nat
        /\ Cardinality(V!Past) <= Cardinality(V!Past')
    BY <1>1, <1>2, <2>2, VoicePast DEF V!IInv
  <2>4. meta.completed \in Nat
    BY DEF V!IInv, V!TypeOK
  <2>5. V!CompletedInv'
    BY <1>1, <2>1, <2>2, <2>3, <2>4, VoiceCardinality DEF V!CompletedInv
  <2>6. V!TextInv' /\ V!WantedInv'
    BY <1>1, <2>1 DEF V!TextInv, V!WantedInv
  <2> QED
    BY <2>5, <2>6
<1> QED
  BY <1>2, <1>3, <1>4 DEF V!IInv

\* The hash is found, and the run goes on to count, or it is not, and the run is past.
LEMMA VoiceFind ==
  ASSUME V!IInv, NEW j \in Recordings, V!FindMeta(j)
  PROVE  V!IInv'
<1>1. /\ run[j] = "counting"
      /\ run' = [run EXCEPT ![j] = "adding"] \/ run' = [run EXCEPT ![j] = "marking"]
      /\ UNCHANGED <<upload, texts, appended, meta, counted, voicePc, wanted, listed, saved,
                     excused>>
  BY DEF V!FindMeta, V!Run, V!doneVars
<1>2. V!TypeOK'
  <2>1. CASE run' = [run EXCEPT ![j] = "adding"]
    BY <1>1, <2>1 DEF V!IInv, V!TypeOK
  <2>2. CASE run' = [run EXCEPT ![j] = "marking"]
    BY <1>1, <2>2 DEF V!IInv, V!TypeOK
  <2> QED
    BY <1>1, <2>1, <2>2
<1>3. \A k \in Recordings : run'[k] \in {"counting", "adding"} =>
                             run[k] \in {"counting", "adding"}
  BY <1>1 DEF V!IInv, V!TypeOK
<1> QED
  BY <1>1, <1>2, <1>3, VoiceQuiet

\* A recording that is counted as completed was not past before, and is now.
LEMMA VoiceComplete ==
  ASSUME V!IInv, NEW j \in Recordings, V!CountCompleted(j)
  PROVE  V!IInv'
<1>1. /\ run[j] = "adding" /\ run' = [run EXCEPT ![j] = "marking"]
      /\ meta' = [meta EXCEPT !.live = TRUE, !.completed = @ + 1]
      /\ excused' = (excused \/ j \notin counted)
      /\ UNCHANGED <<upload, texts, appended, counted, voicePc, wanted, listed, saved>>
  BY DEF V!CountCompleted, V!Run, V!doneVars
<1>2. /\ meta'.expected = meta.expected /\ meta'.completed = meta.completed + 1
      /\ meta' \in [live : BOOLEAN, expected : Nat, completed : Nat]
      /\ meta.completed \in Nat
  <2>1. meta \in [live : BOOLEAN, expected : Nat, completed : Nat]
    BY DEF V!IInv, V!TypeOK
  <2>2. meta' = [live |-> TRUE, expected |-> meta.expected, completed |-> meta.completed + 1]
    BY <1>1, <2>1
  <2>3. meta.expected \in Nat /\ meta.completed \in Nat
    BY <2>1
  <2> QED
    BY <2>2, <2>3
<1>3. V!TypeOK'
  <2>1. excused' \in BOOLEAN
    BY <1>1 DEF V!IInv, V!TypeOK
  <2> QED
    BY <1>1, <1>2, <2>1 DEF V!IInv, V!TypeOK
<1>4. V!ExpectedInv'
  BY <1>1, <1>2, VoiceCardinality DEF V!IInv, V!ExpectedInv
<1>5. ASSUME ~excused' PROVE V!CompletedInv' /\ V!TextInv' /\ V!WantedInv'
  <2>1. j \in counted /\ V!CompletedInv /\ V!TextInv /\ V!WantedInv
    BY <1>1, <1>5 DEF V!IInv
  <2>2. V!Past' = V!Past \cup {j} /\ j \notin V!Past
    BY <1>1, <2>1 DEF V!Past, V!CompletedInv, V!IInv, V!TypeOK
  <2>3. Cardinality(V!Past') = Cardinality(V!Past) + 1 /\ Cardinality(V!Past) \in Nat
    BY <2>2, FS_AddElement, VoiceCounts DEF V!IInv
  <2>4. \A k \in Recordings : run'[k] \in {"counting", "adding"} =>
                               run[k] \in {"counting", "adding"}
    BY <1>1 DEF V!IInv, V!TypeOK
  <2>5. V!CompletedInv'
    BY <1>1, <1>2, <2>1, <2>3, <2>4, VoiceCardinality DEF V!CompletedInv
  <2>6. V!TextInv' /\ V!WantedInv'
    BY <1>1, <2>1 DEF V!TextInv, V!WantedInv
  <2> QED
    BY <2>5, <2>6
<1> QED
  BY <1>3, <1>4, <1>5 DEF V!IInv

\* The count of the completed ones does not change with what documents are made.
LEMMA VoiceSame ==
  ASSUME V!IInv, UNCHANGED <<upload, run, appended, meta, counted>>
  PROVE  V!ExpectedInv' /\ (V!CompletedInv => V!CompletedInv')
BY VoiceCardinality DEF V!IInv, V!ExpectedInv, V!CompletedInv, V!Past

\* As many were completed as were expected: each of them has put its text in the list.
LEMMA VoiceReady ==
  ASSUME V!IInv, NEW c \in Requests, V!CheckReady(c)
  PROVE  V!IInv'
<1>1. /\ V!Ready /\ voicePc' = [voicePc EXCEPT ![c] = "listing"]
      /\ wanted' = [wanted EXCEPT ![c] = counted]
      /\ UNCHANGED <<upload, run, texts, appended, meta, counted, listed, saved, excused>>
  BY DEF V!CheckReady, V!Goto, V!jobVars
<1>2. V!TypeOK'
  BY <1>1 DEF V!IInv, V!TypeOK
<1>3. ASSUME V!CompletedInv, V!WantedInv PROVE V!WantedInv'
  <2>1. Cardinality(counted) <= Cardinality(V!Past)
    BY <1>1, <1>3, VoiceCardinality DEF V!Ready, V!IInv, V!ExpectedInv, V!CompletedInv
  <2>2. V!Past = counted
    BY <2>1, VoiceCounts DEF V!IInv
  <2>3. counted \subseteq appended
    BY <2>2 DEF V!Past
  <2> QED
    BY <1>1, <1>3, <2>3 DEF V!IInv, V!TypeOK, V!WantedInv
<1>4. V!TextInv => V!TextInv'
  BY <1>1 DEF V!TextInv
<1> QED
  BY <1>1, <1>2, <1>3, <1>4, VoiceSame DEF V!IInv

\* The list is read while every text that was put in it is there or in a document.
LEMMA VoiceList ==
  ASSUME V!IInv, NEW c \in Requests, V!ListTexts(c)
  PROVE  V!IInv'
<1>1. /\ listed' = [listed EXCEPT ![c] = texts]
      /\ voicePc[c] = "listing"
      /\ \/ voicePc' = [voicePc EXCEPT ![c] = "idle"]
         \/ voicePc' = [voicePc EXCEPT ![c] = "saving"]
      /\ UNCHANGED <<upload, run, texts, appended, meta, counted, wanted, saved, excused>>
  BY DEF V!ListTexts, V!Goto, V!jobVars
<1>2. V!TypeOK'
  <2>1. listed' \in [Requests -> SUBSET Recordings]
    BY <1>1 DEF V!IInv, V!TypeOK
  <2>2. voicePc' \in [Requests -> {"idle", "listing", "saving", "dropping", "closing"}]
    BY <1>1 DEF V!IInv, V!TypeOK
  <2> QED
    BY <1>1, <2>1, <2>2 DEF V!IInv, V!TypeOK
<1>3. ASSUME V!TextInv, V!WantedInv PROVE V!WantedInv'
  <2>1. wanted[c] \subseteq texts \cup saved
    BY <1>1, <1>3 DEF V!TextInv, V!WantedInv
  <2>2. \A d \in Requests : d # c => voicePc'[d] = voicePc[d] /\ listed'[d] = listed[d]
    BY <1>1 DEF V!IInv, V!TypeOK
  <2>3. listed'[c] = texts /\ voicePc'[c] \in {"idle", "saving"}
    BY <1>1 DEF V!IInv, V!TypeOK
  <2> QED
    BY <1>1, <1>3, <2>1, <2>2, <2>3 DEF V!WantedInv
<1>4. V!TextInv => V!TextInv'
  BY <1>1 DEF V!TextInv
<1> QED
  BY <1>1, <1>2, <1>3, <1>4, VoiceSame DEF V!IInv

\* What was read is now in a document.
LEMMA VoiceDocument ==
  ASSUME V!IInv, NEW c \in Requests, V!CreateDocument(c)
  PROVE  V!IInv'
<1>1. /\ saved' = saved \cup listed[c]
      /\ listed' = [listed EXCEPT ![c] = {}]
      /\ voicePc[c] = "saving" /\ voicePc' = [voicePc EXCEPT ![c] = "dropping"]
      /\ UNCHANGED <<upload, run, texts, appended, meta, counted, wanted, excused>>
  BY DEF V!CreateDocument, V!Goto, V!jobVars
<1>2. V!TypeOK'
  BY <1>1 DEF V!IInv, V!TypeOK
<1>3. ASSUME V!WantedInv PROVE V!WantedInv'
  <2>1. wanted[c] \subseteq saved'
    BY <1>1, <1>3 DEF V!WantedInv
  <2>2. \A d \in Requests : d # c => voicePc'[d] = voicePc[d] /\ listed'[d] = listed[d]
    BY <1>1 DEF V!IInv, V!TypeOK
  <2>3. voicePc'[c] = "dropping"
    BY <1>1 DEF V!IInv, V!TypeOK
  <2> QED
    BY <1>1, <1>3, <2>1, <2>2, <2>3 DEF V!WantedInv
<1>4. V!TextInv => V!TextInv'
  BY <1>1 DEF V!TextInv
<1> QED
  BY <1>1, <1>2, <1>3, <1>4, VoiceSame DEF V!IInv

\* The list goes, with nothing that is not in a document, or a loss is known.
LEMMA VoiceGone ==
  ASSUME V!IInv, V!TypeOK', texts' = {}, excused' = (excused \/ ~(texts \subseteq saved)),
         UNCHANGED <<upload, run, appended, meta, counted, wanted, listed, saved>>,
         V!WantedInv => V!WantedInv'
  PROVE  V!IInv'
<1>1. ASSUME ~excused' PROVE V!TextInv'
  BY <1>1 DEF V!IInv, V!TextInv
<1> QED
  BY <1>1, VoiceSame DEF V!IInv

LEMMA VoiceDropTexts ==
  ASSUME V!IInv, NEW c \in Requests, V!DropTexts(c)
  PROVE  V!IInv'
<1>1. /\ texts' = {} /\ excused' = (excused \/ ~(texts \subseteq saved))
      /\ voicePc[c] = "dropping" /\ voicePc' = [voicePc EXCEPT ![c] = "closing"]
      /\ UNCHANGED <<upload, run, appended, meta, counted, wanted, listed, saved>>
  BY DEF V!DropTexts, V!Goto, V!jobVars
<1>2. V!TypeOK'
  <2>1. excused' \in BOOLEAN
    BY <1>1 DEF V!IInv, V!TypeOK
  <2> QED
    BY <1>1, <2>1 DEF V!IInv, V!TypeOK
<1>3. V!WantedInv => V!WantedInv'
  BY <1>1 DEF V!WantedInv, V!IInv, V!TypeOK
<1> QED
  BY <1>1, <1>2, <1>3, VoiceGone

LEMMA VoiceExpireTexts ==
  ASSUME V!IInv, V!ExpireTexts
  PROVE  V!IInv'
<1>1. /\ texts' = {} /\ excused' = (excused \/ ~(texts \subseteq saved))
      /\ UNCHANGED <<upload, run, appended, meta, counted, voicePc, wanted, listed, saved>>
  BY DEF V!ExpireTexts, V!jobVars, V!doneVars
<1>2. V!TypeOK'
  BY <1>1 DEF V!IInv, V!TypeOK
<1>3. V!WantedInv => V!WantedInv'
  BY <1>1 DEF V!WantedInv
<1> QED
  BY <1>1, <1>2, <1>3, VoiceGone

\* The hash goes, or only the request: nothing is counted any more than before.
LEMMA VoiceClose ==
  ASSUME V!IInv, V!TypeOK',
         UNCHANGED <<upload, run, texts, appended, saved, excused>>,
         \/ meta' = V!NoMeta /\ counted' = {}
         \/ UNCHANGED <<meta, counted>>,
         V!WantedInv => V!WantedInv'
  PROVE  V!IInv'
<1>1. CASE meta' = V!NoMeta /\ counted' = {}
  <2>1. V!ExpectedInv'
    BY <1>1, VoiceCardinality, FS_EmptySet DEF V!ExpectedInv, V!NoMeta
  <2>2. V!Past' = {}
    BY <1>1 DEF V!Past
  <2>3. V!CompletedInv => V!CompletedInv'
    BY <1>1, <2>2, VoiceCardinality, FS_EmptySet DEF V!CompletedInv, V!NoMeta
  <2>4. V!TextInv => V!TextInv'
    BY DEF V!TextInv
  <2> QED
    BY <2>1, <2>3, <2>4 DEF V!IInv
<1>2. CASE UNCHANGED <<meta, counted>>
  <2>1. V!TextInv => V!TextInv'
    BY DEF V!TextInv
  <2> QED
    BY <1>2, <2>1, VoiceSame DEF V!IInv
<1> QED
  BY <1>1, <1>2

LEMMA VoiceEnd ==
  ASSUME V!IInv, NEW c \in Requests, V!DropMeta(c) \/ V!FailComplete(c)
  PROVE  V!IInv'
<1>1. /\ voicePc' = [voicePc EXCEPT ![c] = "idle"]
      /\ wanted' = [wanted EXCEPT ![c] = {}]
      /\ listed' = listed \/ listed' = [listed EXCEPT ![c] = {}]
      /\ (meta' = V!NoMeta /\ counted' = {}) \/ UNCHANGED <<meta, counted>>
      /\ UNCHANGED <<upload, run, texts, appended, saved, excused>>
  BY DEF V!DropMeta, V!FailComplete, V!Goto, V!jobVars
<1>2. V!TypeOK'
  <2>1. listed' \in [Requests -> SUBSET Recordings]
    BY <1>1 DEF V!IInv, V!TypeOK
  <2>2. CASE meta' = V!NoMeta /\ counted' = {}
    BY <1>1, <2>1, <2>2, VoiceNoMeta DEF V!IInv, V!TypeOK
  <2>3. CASE UNCHANGED <<meta, counted>>
    BY <1>1, <2>1, <2>3 DEF V!IInv, V!TypeOK
  <2> QED
    BY <1>1, <2>2, <2>3
<1>3. V!WantedInv => V!WantedInv'
  <2>1. \A d \in Requests : d # c => /\ voicePc'[d] = voicePc[d] /\ listed'[d] = listed[d]
                                     /\ wanted'[d] = wanted[d]
    BY <1>1 DEF V!IInv, V!TypeOK
  <2>2. voicePc'[c] = "idle"
    BY <1>1 DEF V!IInv, V!TypeOK
  <2> QED
    BY <1>1, <2>1, <2>2 DEF V!WantedInv
<1> QED
  BY <1>1, <1>2, <1>3, VoiceClose

LEMMA VoiceExpireMeta ==
  ASSUME V!IInv, V!ExpireMeta
  PROVE  V!IInv'
<1>1. /\ meta' = V!NoMeta /\ counted' = {}
      /\ UNCHANGED <<upload, run, texts, appended, voicePc, wanted, listed, saved, excused>>
  BY DEF V!ExpireMeta, V!jobVars, V!doneVars
<1>2. V!TypeOK'
  BY <1>1, VoiceNoMeta DEF V!IInv, V!TypeOK
<1>3. V!WantedInv => V!WantedInv'
  BY <1>1 DEF V!WantedInv
<1> QED
  BY <1>1, <1>2, <1>3, VoiceClose

LEMMA VoiceStutter ==
  ASSUME V!IInv, UNCHANGED voiceVars
  PROVE  V!IInv'
<1>1. UNCHANGED <<upload, run, texts, appended, meta, counted, voicePc, wanted, listed, saved,
                  excused>>
  BY DEF voiceVars
<1>2. V!TypeOK'
  BY <1>1 DEF V!IInv, V!TypeOK
<1> QED
  BY <1>1, <1>2, VoiceQuiet

LEMMA VoiceNextStep ==
  ASSUME V!IInv, [V!Next]_voiceVars
  PROVE  V!IInv'
BY VoiceUpload, VoiceExpect, VoiceJob, VoiceAppend, VoiceFind, VoiceComplete, VoiceReady,
   VoiceList, VoiceDocument, VoiceDropTexts, VoiceEnd, VoiceExpireTexts, VoiceExpireMeta,
   VoiceStutter
   DEF V!Next

\* What the hash, the list, the jobs and the completions know of one another holds in
\* every reachable state.
THEOREM VoiceInvariance == Spec => []V!IInv
<1>1. Init => V!IInv
  BY VoiceInit DEF Init
<1>2. V!IInv /\ [Next]_vars => V!IInv'
  BY VoiceNextStep, OnboardingFrames
<1> QED
  BY <1>1, <1>2, PTL DEF Spec

\* A completion that is done with its document has saved every recording it had found
\* expected, but for the known losses (completeSession).
THEOREM NoRecordingLost == Spec => []NothingLost
<1>1. V!IInv => NothingLost
  BY DEF V!IInv, V!WantedInv, NothingLost, V!NothingLost
<1> QED
  BY <1>1, VoiceInvariance, PTL
===============================================================================
