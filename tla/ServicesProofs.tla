---------------------------- MODULE ServicesProofs ----------------------------
(***************************************************************************)
(* What the services that write content, avatars, preferences and notices  *)
(* promise, proved for any number of requests, uploads, attempts and       *)
(* tasks. Each service has an inductive invariant in its own module.       *)
(***************************************************************************)
EXTENDS Services, Sequences, FiniteSetTheorems, TLAPS

LEMMA ServicesFrames ==
  ASSUME [Next]_vars
  PROVE  /\ [S!Next]_contentVars /\ [A!Next]_avatarVars
         /\ [P!Next]_preferencesVars /\ [M!Next]_milestoneVars
BY DEF Next, vars, CodesNext, WizardNext, TeamsNext, VoiceNext, ContentNext, AvatarNext,
       PreferencesNext, LockoutNext, GoogleNext, MilestoneNext, contentVars, avatarVars,
       preferencesVars, milestoneVars

-----------------------------------------------------------------------------
(* Content: what is checked are four positions of four, so when no two are the same  *)
(* each of them is there once.                                                       *)

\* Module Content's Cardinality is this module's.
LEMMA ContentCardinality == \A R : S!Cardinality(R) = Cardinality(R)
BY DEF S!Cardinality, Cardinality

\* Four different positions of four: each of them once.
LEMMA DistinctStages ==
  ASSUME NEW s \in [1..4 -> S!Positions], S!Distinct(s), NEW p \in S!Positions
  PROVE  S!Count(s, p) = 1
<1>1. Len(s) = 4
  OBVIOUS
<1>2. PICK i \in 1..4 : s[i] = p
  <2>1. /\ s[1] \in 1..4 /\ s[2] \in 1..4 /\ s[3] \in 1..4 /\ s[4] \in 1..4
        /\ p \in 1..4
    BY DEF S!Positions
  <2>2. /\ s[1] # s[2] /\ s[1] # s[3] /\ s[1] # s[4]
        /\ s[2] # s[3] /\ s[2] # s[4] /\ s[3] # s[4]
    BY <1>1 DEF S!Distinct
  <2>3. p = s[1] \/ p = s[2] \/ p = s[3] \/ p = s[4]
    BY <2>1, <2>2
  <2> QED
    BY <2>3
<1>3. {k \in 1..Len(s) : s[k] = p} = {i}
  BY <1>1, <1>2 DEF S!Distinct
<1> QED
  BY <1>3, ContentCardinality, FS_Singleton DEF S!Count

LEMMA ContentInit == S!Init => S!IInv
BY DEF S!Init, S!IInv, S!TypeOK, S!CheckedInv, S!ContentComplete

\* What a provider answers is refused, or has four stages.
LEMMA ContentAsk ==
  ASSUME S!IInv, S!AskGemini \/ S!AskGroq
  PROVE  S!IInv'
<1>1. /\ step' \in {"checking", "groq", "template"}
      /\ \/ data' = S!Nothing
         \/ \E output \in S!Outputs : S!Accepted(output) /\ data' \in S!Sorted(output)
  BY DEF S!AskGemini, S!AskGroq, S!Ask
<1>2. data' \in {S!Nothing} \cup [1..4 -> S!Positions]
  BY <1>1 DEF S!Accepted, S!Sorted
<1> QED
  BY <1>1, <1>2 DEF S!IInv, S!TypeOK, S!CheckedInv, S!ContentComplete

LEMMA ContentTemplate ==
  ASSUME S!IInv, S!UseTemplate
  PROVE  S!IInv'
<1>1. step' = "checking" /\ data' = <<1, 2, 3, 4>>
  BY DEF S!UseTemplate, S!Template, S!EmergencyTemplate
<1>2. <<1, 2, 3, 4>> \in [1..4 -> 1..4]
  OBVIOUS
<1> QED
  BY <1>1, <1>2 DEF S!IInv, S!TypeOK, S!CheckedInv, S!ContentComplete, S!Positions

LEMMA ContentCheck ==
  ASSUME S!IInv, S!CheckStages
  PROVE  S!IInv'
<1>1. \/ step' = "writing" /\ data' = data /\ Len(data) = 4 /\ S!Distinct(data)
      \/ step' \in {"gemini", "failed"} /\ data' = S!Nothing
  BY DEF S!CheckStages
<1>2. Len(S!Nothing) = 0
  BY DEF S!Nothing
<1> QED
  BY <1>1, <1>2 DEF S!IInv, S!TypeOK, S!CheckedInv, S!ContentComplete

LEMMA ContentWrite ==
  ASSUME S!IInv, S!WriteStages
  PROVE  S!IInv'
<1>1. /\ step = "writing" /\ step' = "written" /\ data' = data
      /\ written' = [p \in S!Positions |-> S!Count(data, p)]
  BY DEF S!WriteStages
<1>2. data \in [1..4 -> S!Positions] /\ S!Distinct(data)
  BY <1>1 DEF S!IInv, S!TypeOK, S!CheckedInv
<1>3. \A p \in S!Positions : written'[p] = 1
  BY <1>1, <1>2, DistinctStages
<1> QED
  BY <1>1, <1>3 DEF S!IInv, S!TypeOK, S!CheckedInv, S!ContentComplete

LEMMA ContentNextStep ==
  ASSUME S!IInv, [S!Next]_contentVars
  PROVE  S!IInv'
<1>1. CASE UNCHANGED contentVars
  BY <1>1 DEF contentVars, S!IInv, S!TypeOK, S!CheckedInv, S!ContentComplete, S!Distinct
<1> QED
  BY <1>1, ContentAsk, ContentTemplate, ContentCheck, ContentWrite DEF S!Next

\* What is written has passed the check: it holds in every reachable state.
THEOREM ContentInvariance == Spec => []S!IInv
<1>1. Init => S!IInv
  BY ContentInit DEF Init
<1>2. S!IInv /\ [Next]_vars => S!IInv'
  BY ContentNextStep, ServicesFrames
<1> QED
  BY <1>1, <1>2, PTL DEF Spec

\* A funnel that is written has each of its four stages, whatever a provider answered
\* (validateLlmOutput, validateStageData).
THEOREM ContentIsComplete == Spec => []ContentComplete
<1>1. S!IInv => ContentComplete
  BY DEF S!IInv, ContentComplete
<1> QED
  BY <1>1, ContentInvariance, PTL

-----------------------------------------------------------------------------
(* Preferences: the row, once seen, goes only with its user.                         *)

\* A request goes on, where the row is as it was or is there by now.
LEMMA PreferencesGo ==
  ASSUME P!IInv, NEW r \in Requests, NEW to,
         preferencesPc' = [preferencesPc EXCEPT ![r] = to],
         to \in {"idle", "finding", "creating", "finding again", "writing", "served", "refused"},
         user' = user, row' \in BOOLEAN, row => row',
         to \in {"finding again", "writing"} => row',
         to = "refused" => ~user
  PROVE  P!IInv'
<1>1. P!TypeOK'
  BY DEF P!IInv, P!TypeOK
<1>2. /\ preferencesPc'[r] = to
      /\ \A q \in Requests : q # r => preferencesPc'[q] = preferencesPc[q]
  BY DEF P!IInv, P!TypeOK
<1>3. ASSUME user', NEW q \in Requests, preferencesPc'[q] \in {"finding again", "writing"}
      PROVE  row'
  <2>1. user /\ (q # r => row)
    BY <1>2, <1>3 DEF P!IInv, P!SeenInv
  <2> QED
    BY <1>2, <1>3, <2>1
<1>4. ASSUME user', NEW q \in Requests
      PROVE  preferencesPc'[q] # "refused"
  BY <1>2, <1>4 DEF P!IInv, P!PreferencesServed
<1> QED
  BY <1>1, <1>3, <1>4 DEF P!IInv, P!SeenInv, P!PreferencesServed

LEMMA PreferencesRequest ==
  ASSUME P!IInv, NEW r \in Requests,
         \/ P!Ask(r) \/ P!Find(r) \/ P!Create(r) \/ P!FindAgain(r) \/ P!Write(r)
         \/ P!Answer(r)
  PROVE  P!IInv'
<1>1. P!Found(r) \in {"writing", "served"}
  BY DEF P!Found
<1>2. user' = user /\ row \in BOOLEAN
  BY DEF P!Ask, P!Find, P!Create, P!FindAgain, P!Write, P!Answer, P!IInv, P!TypeOK
<1>3. CASE P!Ask(r) \/ P!Answer(r)
  <2>1. row' = row
    BY <1>3 DEF P!Ask, P!Answer
  <2>2. \/ preferencesPc' = [preferencesPc EXCEPT ![r] = "finding"]
        \/ preferencesPc' = [preferencesPc EXCEPT ![r] = "idle"]
    BY <1>3 DEF P!Ask, P!Answer, P!Goto
  <2> QED
    BY <1>2, <2>1, <2>2, PreferencesGo
<1>4. CASE P!Find(r)
  <2>1. CASE row /\ P!Goto(r, "finding", P!Found(r)) /\ row' = row
    BY <1>1, <1>2, <2>1, PreferencesGo DEF P!Goto
  <2>2. CASE P!Goto(r, "finding", "creating") /\ row' = row
    BY <1>2, <2>2, PreferencesGo DEF P!Goto
  <2> QED
    BY <1>4, <2>1, <2>2 DEF P!Find
<1>5. CASE P!Create(r)
  <2>1. CASE ~user /\ P!Goto(r, "creating", "refused") /\ row' = row
    BY <1>2, <2>1, PreferencesGo DEF P!Goto
  <2>2. CASE row /\ P!Goto(r, "creating", P!AfterConflict) /\ row' = row
    BY <1>2, <2>2, PreferencesGo DEF P!Goto, P!AfterConflict
  <2>3. CASE P!Goto(r, "creating", P!Found(r)) /\ row' = TRUE
    <3>1. row' \in BOOLEAN /\ row'
      BY <2>3
    <3> QED
      BY <1>1, <1>2, <2>3, <3>1, PreferencesGo DEF P!Goto
  <2> QED
    BY <1>5, <2>1, <2>2, <2>3 DEF P!Create
<1>6. CASE P!FindAgain(r) \/ P!Write(r)
  <2>1. row \/ ~user
    BY <1>6 DEF P!FindAgain, P!Write, P!Goto, P!IInv, P!SeenInv
  <2>2. CASE P!FindAgain(r)
    BY <1>1, <1>2, <2>1, <2>2, PreferencesGo DEF P!FindAgain, P!Goto
  <2>3. CASE P!Write(r)
    BY <1>2, <2>1, <2>3, PreferencesGo DEF P!Write, P!Goto
  <2> QED
    BY <1>6, <2>2, <2>3
<1> QED
  BY <1>3, <1>4, <1>5, <1>6

LEMMA PreferencesNextStep ==
  ASSUME P!IInv, [P!Next]_preferencesVars
  PROVE  P!IInv'
<1>1. CASE P!DeleteUser
  BY <1>1 DEF P!DeleteUser, P!IInv, P!TypeOK, P!SeenInv, P!PreferencesServed
<1>2. CASE UNCHANGED preferencesVars
  BY <1>2 DEF preferencesVars, P!IInv, P!TypeOK, P!SeenInv, P!PreferencesServed
<1> QED
  BY <1>1, <1>2, PreferencesRequest DEF P!Next

\* Who has seen the row finds it again: it holds in every reachable state.
THEOREM PreferencesInvariance == Spec => []P!IInv
<1>1. Init => P!IInv
  BY DEF Init, P!Init, P!IInv, P!TypeOK, P!SeenInv, P!PreferencesServed
<1>2. P!IInv /\ [Next]_vars => P!IInv'
  BY PreferencesNextStep, ServicesFrames
<1> QED
  BY <1>1, <1>2, PTL DEF Spec

\* As long as the user exists, nobody who asks for the preferences is refused, however
\* many ask for the first time at once (getNotificationPreferences).
THEOREM NobodyIsRefused == Spec => []PreferencesServed
<1>1. P!IInv => PreferencesServed
  BY DEF P!IInv, PreferencesServed
<1> QED
  BY <1>1, PreferencesInvariance, PTL

-----------------------------------------------------------------------------
(* Avatars: the path of an upload is its own, and until its UPDATE nobody has seen   *)
(* it. One that has left the row does not return.                                    *)

LEMMA AvatarInit == A!Init => A!IInv
BY DEF A!Init, A!IInv, A!TypeOK, A!PathInv, A!UnseenInv, A!PutInv, A!LeftInv, A!AvatarStored

LEMMA AvatarStartUpload ==
  ASSUME A!IInv, NEW r \in Requests, A!StartUpload(r)
  PROVE  A!IInv'
<1>1. /\ avatarPc[r] = "idle" /\ avatarPc' = [avatarPc EXCEPT ![r] = "putting"]
      /\ uploads' = uploads + 1
      /\ path' = [path EXCEPT ![r] = uploads + 1]
      /\ previous' = [previous EXCEPT ![r] = avatar]
      /\ UNCHANGED <<avatar, objects, broken>>
  BY DEF A!StartUpload, A!Goto
<1>2. /\ uploads \in Nat /\ avatar \in 0..uploads
      /\ \A q \in Requests : path[q] \in 0..uploads /\ previous[q] \in 0..uploads
  BY DEF A!IInv, A!TypeOK
<1>3. /\ avatarPc'[r] = "putting" /\ path'[r] = uploads + 1 /\ previous'[r] = avatar
      /\ \A q \in Requests : q # r => /\ avatarPc'[q] = avatarPc[q] /\ path'[q] = path[q]
                                      /\ previous'[q] = previous[q]
  BY <1>1 DEF A!IInv, A!TypeOK
<1>4. A!TypeOK'
  <2>1. uploads' \in Nat /\ avatar' \in 0..uploads'
    BY <1>1, <1>2
  <2>2. \A q \in Requests : path'[q] \in 0..uploads' /\ previous'[q] \in 0..uploads'
    BY <1>1, <1>2, <1>3
  <2>3. path' \in [Requests -> 0..uploads'] /\ previous' \in [Requests -> 0..uploads']
    BY <1>1, <2>2 DEF A!IInv, A!TypeOK
  <2>4. avatarPc' \in [Requests -> {"idle", "putting", "updating", "cleaning", "undoing",
                                    "removing", "clearing"}]
    BY <1>1 DEF A!IInv, A!TypeOK
  <2> QED
    BY <2>1, <2>3, <2>4 DEF A!TypeOK
<1>5. A!PathInv'
  BY <1>2, <1>3 DEF A!IInv, A!PathInv
<1>6. A!UnseenInv'
  BY <1>1, <1>2, <1>3 DEF A!IInv, A!UnseenInv
<1>7. A!PutInv' /\ A!LeftInv'
  BY <1>1, <1>3 DEF A!IInv, A!PutInv, A!LeftInv
<1>8. A!AvatarStored'
  BY <1>1, <1>3 DEF A!IInv, A!AvatarStored
<1> QED
  BY <1>4, <1>5, <1>6, <1>7, <1>8 DEF A!IInv

\* Steps that leave the paths and what was read alone.
LEMMA AvatarGo ==
  ASSUME A!IInv, NEW r \in Requests, NEW to,
         avatarPc' = [avatarPc EXCEPT ![r] = to],
         to \in {"idle", "putting", "updating", "cleaning", "undoing", "removing", "clearing"},
         UNCHANGED <<uploads, path, previous>>
  PROVE  /\ avatarPc'[r] = to
         /\ \A q \in Requests : q # r => avatarPc'[q] = avatarPc[q]
         /\ avatar' \in 0..uploads => A!TypeOK'
BY DEF A!IInv, A!TypeOK

LEMMA AvatarPut ==
  ASSUME A!IInv, NEW r \in Requests, A!PutObject(r)
  PROVE  A!IInv'
<1>1. /\ avatarPc[r] = "putting" /\ avatarPc' = [avatarPc EXCEPT ![r] = "updating"]
      /\ objects' = objects \cup {path[r]}
      /\ UNCHANGED <<avatar, uploads, path, previous, broken>>
  BY DEF A!PutObject, A!Goto
<1>2. /\ avatarPc'[r] = "updating"
      /\ \A q \in Requests : q # r => avatarPc'[q] = avatarPc[q]
      /\ avatar' \in 0..uploads => A!TypeOK'
  BY <1>1, AvatarGo
<1>3. A!TypeOK'
  BY <1>1, <1>2 DEF A!IInv, A!TypeOK
<1>4. A!PathInv' /\ A!UnseenInv'
  BY <1>1, <1>2 DEF A!IInv, A!PathInv, A!UnseenInv
<1>5. A!PutInv' /\ A!LeftInv'
  BY <1>1, <1>2 DEF A!IInv, A!PutInv, A!LeftInv
<1>6. A!AvatarStored'
  BY <1>1, <1>2 DEF A!IInv, A!AvatarStored
<1> QED
  BY <1>3, <1>4, <1>5, <1>6 DEF A!IInv

\* The path enters the row, with its object in storage.
LEMMA AvatarUpdate ==
  ASSUME A!IInv, NEW r \in Requests, A!UpdateAvatar(r)
  PROVE  A!IInv'
<1>1. /\ avatarPc[r] = "updating" /\ avatar' = path[r]
      /\ \/ avatarPc' = [avatarPc EXCEPT ![r] = "cleaning"] /\ broken' = broken
         \/ avatarPc' = [avatarPc EXCEPT ![r] = "undoing"] /\ broken' = broken \cup {path[r]}
      /\ UNCHANGED <<objects, uploads, path, previous>>
  BY DEF A!UpdateAvatar, A!Goto
<1>2. /\ avatarPc'[r] = "cleaning" \/ (avatarPc'[r] = "undoing" /\ path[r] \in broken')
      /\ \A q \in Requests : q # r => avatarPc'[q] = avatarPc[q]
      /\ avatar' \in 0..uploads => A!TypeOK'
      /\ broken \subseteq broken'
  BY <1>1, AvatarGo
<1>3. A!TypeOK'
  BY <1>1, <1>2 DEF A!IInv, A!TypeOK
<1>4. /\ path[r] # 0 /\ path[r] \in objects
      /\ \A q \in Requests : previous[q] # path[r]
      /\ \A q \in Requests \ {r} :
            avatarPc[q] \in {"putting", "updating", "undoing"} => path[q] # path[r]
  BY <1>1 DEF A!IInv, A!PathInv, A!UnseenInv, A!PutInv
<1>5. A!PathInv'
  BY <1>1, <1>2 DEF A!IInv, A!PathInv
<1>6. A!UnseenInv'
  BY <1>1, <1>2, <1>4 DEF A!IInv, A!UnseenInv
<1>7. A!PutInv'
  BY <1>1, <1>2 DEF A!IInv, A!PutInv
<1>8. A!LeftInv'
  BY <1>1, <1>2, <1>4 DEF A!IInv, A!LeftInv
<1>9. A!AvatarStored'
  BY <1>1, <1>4 DEF A!AvatarStored
<1> QED
  BY <1>3, <1>5, <1>6, <1>7, <1>8, <1>9 DEF A!IInv

\* An object goes whose path is not in the row, or was left there by a failure.
LEMMA AvatarDrop ==
  ASSUME A!IInv, NEW r \in Requests, NEW object,
         avatarPc' = [avatarPc EXCEPT ![r] = "idle"],
         objects' = objects \ {object},
         UNCHANGED <<avatar, uploads, path, previous, broken>>,
         avatarPc[r] # "clearing",
         object # avatar \/ avatar \in {0} \cup broken,
         \A q \in Requests : avatarPc[q] = "updating" => path[q] # object
  PROVE  A!IInv'
<1>1. /\ avatarPc'[r] = "idle"
      /\ \A q \in Requests : q # r => avatarPc'[q] = avatarPc[q]
      /\ avatar' \in 0..uploads => A!TypeOK'
  BY AvatarGo
<1>2. A!TypeOK'
  BY <1>1 DEF A!IInv, A!TypeOK
<1>3. A!PathInv' /\ A!UnseenInv'
  BY <1>1 DEF A!IInv, A!PathInv, A!UnseenInv
<1>4. A!PutInv'
  BY <1>1 DEF A!IInv, A!PutInv
<1>5. A!LeftInv'
  BY <1>1 DEF A!IInv, A!LeftInv
<1>6. A!AvatarStored'
  BY <1>1 DEF A!IInv, A!AvatarStored
<1> QED
  BY <1>2, <1>3, <1>4, <1>5, <1>6 DEF A!IInv

LEMMA AvatarDropPrevious ==
  ASSUME A!IInv, NEW r \in Requests, A!DropPrevious(r)
  PROVE  A!IInv'
<1>1. /\ avatarPc[r] = "cleaning" /\ avatarPc' = [avatarPc EXCEPT ![r] = "idle"]
      /\ objects' = objects \ {previous[r]}
      /\ UNCHANGED <<avatar, uploads, path, previous, broken>>
  BY DEF A!DropPrevious, A!Goto
<1>2. /\ previous[r] # avatar \/ avatar \in {0} \cup broken
      /\ \A q \in Requests : avatarPc[q] = "updating" => path[q] # previous[r]
  BY <1>1 DEF A!IInv, A!LeftInv, A!UnseenInv
<1> QED
  BY <1>1, <1>2, AvatarDrop

LEMMA AvatarUndo ==
  ASSUME A!IInv, NEW r \in Requests, A!Undo(r)
  PROVE  A!IInv'
<1>1. /\ avatarPc[r] = "undoing" /\ avatarPc' = [avatarPc EXCEPT ![r] = "idle"]
      /\ objects' = objects \ {path[r]}
      /\ UNCHANGED <<avatar, uploads, path, previous, broken>>
  BY DEF A!Undo, A!Goto
<1>2. path[r] # avatar \/ avatar \in {0} \cup broken
  BY <1>1 DEF A!IInv, A!LeftInv
<1>3. \A q \in Requests : avatarPc[q] = "updating" => path[q] # path[r]
  BY <1>1 DEF A!IInv, A!PathInv
<1> QED
  BY <1>1, <1>2, <1>3, AvatarDrop

LEMMA AvatarFailUpload ==
  ASSUME A!IInv, NEW r \in Requests, A!FailUpload(r)
  PROVE  A!IInv'
<1>1. /\ \/ avatarPc[r] = "putting" /\ avatarPc' = [avatarPc EXCEPT ![r] = "idle"]
         \/ avatarPc[r] = "updating" /\ avatarPc' = [avatarPc EXCEPT ![r] = "undoing"]
      /\ UNCHANGED <<avatar, objects, uploads, path, previous, broken>>
  BY DEF A!FailUpload, A!Goto
<1>2. /\ \/ avatarPc[r] = "putting" /\ avatarPc'[r] = "idle"
         \/ avatarPc[r] = "updating" /\ avatarPc'[r] = "undoing"
      /\ \A q \in Requests : q # r => avatarPc'[q] = avatarPc[q]
      /\ avatar' \in 0..uploads => A!TypeOK'
  BY <1>1, AvatarGo
<1>3. A!TypeOK'
  BY <1>1, <1>2 DEF A!IInv, A!TypeOK
<1>4. A!PathInv' /\ A!UnseenInv'
  BY <1>1, <1>2 DEF A!IInv, A!PathInv, A!UnseenInv
<1>5. A!PutInv'
  BY <1>1, <1>2 DEF A!IInv, A!PutInv
<1>6. A!LeftInv'
  BY <1>1, <1>2 DEF A!IInv, A!LeftInv, A!UnseenInv
<1>7. A!AvatarStored'
  BY <1>1, <1>2 DEF A!IInv, A!AvatarStored
<1> QED
  BY <1>3, <1>4, <1>5, <1>6, <1>7 DEF A!IInv

LEMMA AvatarStartDelete ==
  ASSUME A!IInv, NEW r \in Requests, A!StartDelete(r)
  PROVE  A!IInv'
<1>1. /\ avatarPc[r] = "idle" /\ avatarPc' = [avatarPc EXCEPT ![r] = "removing"]
      /\ path' = [path EXCEPT ![r] = 0] /\ previous' = [previous EXCEPT ![r] = avatar]
      /\ UNCHANGED <<avatar, objects, uploads, broken>>
  BY DEF A!StartDelete, A!Goto
<1>2. /\ avatarPc'[r] = "removing" /\ previous'[r] = avatar
      /\ \A q \in Requests : q # r => /\ avatarPc'[q] = avatarPc[q] /\ path'[q] = path[q]
                                      /\ previous'[q] = previous[q]
  BY <1>1 DEF A!IInv, A!TypeOK
<1>3. A!TypeOK'
  <2>1. 0 \in 0..uploads
    BY DEF A!IInv, A!TypeOK
  <2> QED
    BY <1>1, <2>1 DEF A!IInv, A!TypeOK
<1>4. A!PathInv' /\ A!UnseenInv'
  BY <1>1, <1>2 DEF A!IInv, A!PathInv, A!UnseenInv
<1>5. A!PutInv' /\ A!LeftInv'
  BY <1>1, <1>2 DEF A!IInv, A!PutInv, A!LeftInv
<1>6. A!AvatarStored'
  BY <1>1, <1>2 DEF A!IInv, A!AvatarStored
<1> QED
  BY <1>3, <1>4, <1>5, <1>6 DEF A!IInv

LEMMA AvatarRemove ==
  ASSUME A!IInv, NEW r \in Requests, A!RemoveObject(r)
  PROVE  A!IInv'
<1>1. /\ avatarPc[r] = "removing" /\ avatarPc' = [avatarPc EXCEPT ![r] = "clearing"]
      /\ objects' = objects \ {previous[r]}
      /\ UNCHANGED <<avatar, uploads, path, previous, broken>>
  BY DEF A!RemoveObject, A!Goto
<1>2. /\ avatarPc'[r] = "clearing"
      /\ \A q \in Requests : q # r => avatarPc'[q] = avatarPc[q]
      /\ avatar' \in 0..uploads => A!TypeOK'
  BY <1>1, AvatarGo
<1>3. A!TypeOK'
  BY <1>1, <1>2 DEF A!IInv, A!TypeOK
<1>4. A!PathInv' /\ A!UnseenInv'
  BY <1>1, <1>2 DEF A!IInv, A!PathInv, A!UnseenInv
<1>5. A!PutInv' /\ A!LeftInv'
  BY <1>1, <1>2 DEF A!IInv, A!PutInv, A!LeftInv, A!UnseenInv
<1>6. A!AvatarStored'
  BY <1>1, <1>2 DEF A!IInv, A!AvatarStored
<1> QED
  BY <1>3, <1>4, <1>5, <1>6 DEF A!IInv

LEMMA AvatarClear ==
  ASSUME A!IInv, NEW r \in Requests, A!ClearAvatar(r)
  PROVE  A!IInv'
<1>1. /\ avatarPc[r] = "clearing" /\ avatarPc' = [avatarPc EXCEPT ![r] = "idle"]
      /\ avatar' = 0
      /\ UNCHANGED <<objects, uploads, path, previous, broken>>
  BY DEF A!ClearAvatar, A!Goto
<1>2. /\ avatarPc'[r] = "idle"
      /\ \A q \in Requests : q # r => avatarPc'[q] = avatarPc[q]
      /\ avatar' \in 0..uploads => A!TypeOK'
  BY <1>1, AvatarGo
<1>3. A!TypeOK'
  <2>1. 0 \in 0..uploads
    BY DEF A!IInv, A!TypeOK
  <2> QED
    BY <1>1, <1>2, <2>1
<1>4. A!PathInv' /\ A!UnseenInv'
  BY <1>1, <1>2 DEF A!IInv, A!PathInv, A!UnseenInv
<1>5. A!PutInv' /\ A!LeftInv'
  BY <1>1, <1>2 DEF A!IInv, A!PutInv, A!LeftInv, A!PathInv
<1>6. A!AvatarStored'
  BY <1>1 DEF A!AvatarStored
<1> QED
  BY <1>3, <1>4, <1>5, <1>6 DEF A!IInv

LEMMA AvatarCrash ==
  ASSUME A!IInv, NEW r \in Requests, A!Crash(r)
  PROVE  A!IInv'
<1>1. /\ avatarPc' = [avatarPc EXCEPT ![r] = "idle"]
      /\ broken \subseteq broken'
      /\ avatarPc[r] = "clearing" => previous[r] \in broken'
      /\ UNCHANGED <<avatar, objects, uploads, path, previous>>
  BY DEF A!Crash, A!Goto
<1>2. /\ avatarPc'[r] = "idle"
      /\ \A q \in Requests : q # r => avatarPc'[q] = avatarPc[q]
      /\ avatar' \in 0..uploads => A!TypeOK'
  BY <1>1, AvatarGo
<1>3. A!TypeOK'
  BY <1>1, <1>2 DEF A!IInv, A!TypeOK
<1>4. A!PathInv' /\ A!UnseenInv'
  BY <1>1, <1>2 DEF A!IInv, A!PathInv, A!UnseenInv
<1>5. A!PutInv' /\ A!LeftInv'
  BY <1>1, <1>2 DEF A!IInv, A!PutInv, A!LeftInv
<1>6. A!AvatarStored'
  BY <1>1, <1>2 DEF A!IInv, A!AvatarStored
<1> QED
  BY <1>3, <1>4, <1>5, <1>6 DEF A!IInv

LEMMA AvatarNextStep ==
  ASSUME A!IInv, [A!Next]_avatarVars
  PROVE  A!IInv'
<1>1. CASE UNCHANGED avatarVars
  BY <1>1 DEF avatarVars, A!IInv, A!TypeOK, A!PathInv, A!UnseenInv, A!PutInv, A!LeftInv,
              A!AvatarStored
<1> QED
  BY <1>1, AvatarStartUpload, AvatarPut, AvatarUpdate, AvatarDropPrevious, AvatarUndo,
     AvatarFailUpload, AvatarStartDelete, AvatarRemove, AvatarClear, AvatarCrash
     DEF A!Next

\* What the requests, the row and the storage know of one another holds in every
\* reachable state.
THEOREM AvatarInvariance == Spec => []A!IInv
<1>1. Init => A!IInv
  BY AvatarInit DEF Init
<1>2. A!IInv /\ [Next]_vars => A!IInv'
  BY AvatarNextStep, ServicesFrames
<1> QED
  BY <1>1, <1>2, PTL DEF Spec

\* The row of the user has no path without its object, but while a deletion is between
\* its two steps, or after a request failed halfway (uploadAvatar, deleteAvatar).
THEOREM AvatarIsStored == Spec => []AvatarStored
<1>1. A!IInv => AvatarStored
  BY DEF A!IInv, AvatarStored
<1> QED
  BY <1>1, AvatarInvariance, PTL

-----------------------------------------------------------------------------
(* The notice: a completion is followed by a listener that counts, and the tasks of  *)
(* a funnel that is gone are gone.                                                   *)

\* Module Milestone's Cardinality is this module's.
LEMMA MilestoneCardinality == \A R : M!Cardinality(R) = Cardinality(R)
BY DEF M!Cardinality, Cardinality

LEMMA TasksCount ==
  /\ IsFiniteSet(M!Tasks) /\ Cardinality(M!Tasks) = MaxTasks
  /\ MaxTasks \in Nat \ {0}
<1>1. MaxTasks \in Nat \ {0}
  BY ServicesAssumption
<1> QED
  BY <1>1, FS_Interval DEF M!Tasks

\* Of fewer tasks there are not more.
LEMMA FewerTasks ==
  ASSUME NEW D, NEW E, D \subseteq E, E \subseteq M!Tasks
  PROVE  /\ Cardinality(D) \in Nat /\ Cardinality(E) \in Nat
         /\ Cardinality(D) <= Cardinality(E)
<1>1. IsFiniteSet(E)
  BY TasksCount, FS_Subset
<1>2. IsFiniteSet(D) /\ Cardinality(D) <= Cardinality(E)
  BY <1>1, FS_Subset
<1> QED
  BY <1>1, <1>2, FS_CardinalityType

LEMMA MilestoneInit == M!Init => M!IInv
<1> SUFFICES ASSUME M!Init PROVE M!IInv
  OBVIOUS
<1>1. 1 \in M!Tasks
  BY TasksCount DEF M!Tasks
<1>2. M!TypeOK
  <2>1. done \subseteq M!Tasks /\ notices \in Nat
    BY DEF M!Init
  <2>2. gone \in BOOLEAN /\ noticed \in BOOLEAN /\ created \in BOOLEAN /\ missed \in BOOLEAN
    BY DEF M!Init
  <2>3. milestonePc \in [Requests -> M!Listening \cup {"idle", "saving"}]
    BY DEF M!Init
  <2>4. task \in [Requests -> M!Tasks]
    BY <1>1 DEF M!Init
  <2> QED
    BY <2>1, <2>2, <2>3, <2>4 DEF M!TypeOK
<1>3. M!KeptInv
  BY DEF M!Init, M!KeptInv
<1>4. ~(2 * Cardinality(done) >= MaxTasks)
  BY TasksCount, FS_EmptySet DEF M!Init
<1> QED
  BY <1>2, <1>3, <1>4, MilestoneCardinality DEF M!IInv, M!HalfWayNoticed

\* Whoever stops listening has missed the notice, knows of it, or has seen that it is too
\* early for it; whoever was not listening has completed nothing, or listens now.
LEMMA MilestoneGo ==
  ASSUME M!IInv, M!TypeOK', M!KeptInv', NEW r \in Requests,
         \A q \in Requests : q # r => milestonePc'[q] = milestonePc[q],
         \/ milestonePc'[r] \in M!Listening
         \/ milestonePc[r] \notin M!Listening /\ done' \subseteq done
         \/ missed' \/ created'
         \/ ~(2 * Cardinality(done') >= MaxTasks),
         missed => missed', created => created'
  PROVE  M!IInv'
<1>1. ASSUME 2 * Cardinality(done') >= MaxTasks, ~missed',
             \A q \in Requests : milestonePc'[q] \notin M!Listening
      PROVE  created'
  <2>1. CASE milestonePc[r] \notin M!Listening /\ done' \subseteq done
    <3>1. \A q \in Requests : milestonePc[q] \notin M!Listening
      BY <1>1, <2>1
    <3>2. 2 * Cardinality(done) >= MaxTasks
      <4>1. /\ Cardinality(done') \in Nat /\ Cardinality(done) \in Nat
            /\ Cardinality(done') <= Cardinality(done)
        BY <2>1, FewerTasks DEF M!IInv, M!TypeOK
      <4> QED
        BY <1>1, <4>1, TasksCount
    <3> QED
      BY <1>1, <3>1, <3>2, MilestoneCardinality DEF M!IInv, M!HalfWayNoticed
  <2> QED
    BY <1>1, <2>1
<1> QED
  BY <1>1, MilestoneCardinality DEF M!IInv, M!HalfWayNoticed

LEMMA MilestoneReadTask ==
  ASSUME M!IInv, NEW r \in Requests, M!ReadTask(r)
  PROVE  M!IInv'
<1>1. /\ milestonePc[r] = "idle" /\ milestonePc' = [milestonePc EXCEPT ![r] = "saving"]
      /\ \E t \in M!Tasks : task' = [task EXCEPT ![r] = t]
      /\ UNCHANGED <<done, gone, noticed, notices, created, missed>>
  BY DEF M!ReadTask, M!Goto
<1>2. M!TypeOK' /\ M!KeptInv'
  BY <1>1 DEF M!IInv, M!TypeOK, M!KeptInv
<1>3. \A q \in Requests : q # r => milestonePc'[q] = milestonePc[q]
  BY <1>1 DEF M!IInv, M!TypeOK
<1>4. milestonePc[r] \notin M!Listening
  BY <1>1 DEF M!Listening
<1> QED
  BY <1>1, <1>2, <1>3, <1>4, MilestoneGo

\* A task that is completed has a listener coming.
LEMMA MilestoneSaveTask ==
  ASSUME M!IInv, NEW r \in Requests, M!SaveTask(r)
  PROVE  M!IInv'
<1>1. /\ milestonePc[r] = "saving"
      /\ \/ milestonePc' = [milestonePc EXCEPT ![r] = "idle"] /\ done' = done
         \/ /\ milestonePc' = [milestonePc EXCEPT ![r] = "idle"]
            /\ done' = done \ {task[r]}
         \/ /\ milestonePc' = [milestonePc EXCEPT ![r] = "emitting"]
            /\ ~gone /\ done' = done \cup {task[r]}
      /\ UNCHANGED <<gone, noticed, notices, task, created, missed>>
  BY DEF M!SaveTask, M!Goto
<1>2. M!TypeOK'
  BY <1>1 DEF M!IInv, M!TypeOK, M!Listening
<1>3. M!KeptInv'
  BY <1>1 DEF M!IInv, M!KeptInv
<1>4. \A q \in Requests : q # r => milestonePc'[q] = milestonePc[q]
  BY <1>1 DEF M!IInv, M!TypeOK
<1>5. \/ milestonePc'[r] \in M!Listening
      \/ milestonePc[r] \notin M!Listening /\ done' \subseteq done
  BY <1>1 DEF M!Listening, M!IInv, M!TypeOK
<1> QED
  BY <1>1, <1>2, <1>3, <1>4, <1>5, MilestoneGo

\* A listener goes on, or stops with one of the reasons of MilestoneGo.
LEMMA MilestoneListen ==
  ASSUME M!IInv, NEW r \in Requests,
         \/ M!Emit(r) \/ M!ReadPreferences(r) \/ M!CountTasks(r) \/ M!FindNotice(r)
         \/ M!Fail(r)
  PROVE  M!IInv'
<1>1. /\ \E p \in M!Listening \cup {"idle"} : milestonePc' = [milestonePc EXCEPT ![r] = p]
      /\ UNCHANGED <<done, gone, noticed, notices, task, created>>
      /\ missed => missed'
      /\ missed' \in BOOLEAN
  <2>1. CASE M!Emit(r)
    BY <2>1 DEF M!Emit, M!Goto, M!Listening, M!IInv, M!TypeOK
  <2>2. CASE M!ReadPreferences(r)
    BY <2>2 DEF M!ReadPreferences, M!Goto, M!Listening, M!IInv, M!TypeOK
  <2>3. CASE M!CountTasks(r)
    BY <2>3 DEF M!CountTasks, M!Goto, M!Listening, M!IInv, M!TypeOK
  <2>4. CASE M!FindNotice(r)
    BY <2>4 DEF M!FindNotice, M!Goto, M!Listening, M!IInv, M!TypeOK
  <2>5. CASE M!Fail(r)
    BY <2>5 DEF M!Fail, M!IInv, M!TypeOK
  <2> QED
    BY <2>1, <2>2, <2>3, <2>4, <2>5
<1>2. M!TypeOK' /\ M!KeptInv'
  BY <1>1 DEF M!IInv, M!TypeOK, M!KeptInv
<1>3. \A q \in Requests : q # r => milestonePc'[q] = milestonePc[q]
  BY <1>1 DEF M!IInv, M!TypeOK
<1>4. \/ milestonePc'[r] \in M!Listening
      \/ milestonePc[r] \notin M!Listening /\ done' \subseteq done
      \/ missed' \/ created'
      \/ ~(2 * Cardinality(done') >= MaxTasks)
  <2>1. CASE M!Emit(r)
    BY <2>1 DEF M!Emit, M!Goto, M!Listening, M!IInv, M!TypeOK
  <2>2. CASE M!ReadPreferences(r)
    <3>1. noticed => milestonePc'[r] = "counting"
      BY <2>2 DEF M!ReadPreferences, M!Goto, M!IInv, M!TypeOK
    <3>2. ~noticed => missed'
      BY <2>2 DEF M!ReadPreferences
    <3> QED
      BY <3>1, <3>2 DEF M!Listening
  <2>3. CASE M!CountTasks(r)
    <3>1. CASE ~gone /\ M!HalfWay
      BY <2>3, <3>1 DEF M!CountTasks, M!Goto, M!Listening, M!IInv, M!TypeOK
    <3>2. CASE gone
      BY <1>1, <3>2, TasksCount, FS_EmptySet DEF M!IInv, M!KeptInv
    <3>3. CASE ~M!HalfWay
      BY <1>1, <3>3, TasksCount, MilestoneCardinality DEF M!HalfWay
    <3> QED
      BY <3>1, <3>2, <3>3
  <2>4. CASE M!FindNotice(r)
    <3>1. CASE notices > 0
      BY <1>1, <3>1 DEF M!IInv, M!KeptInv
    <3>2. CASE ~(notices > 0)
      BY <2>4, <3>2 DEF M!FindNotice, M!Goto, M!Listening, M!IInv, M!TypeOK
    <3> QED
      BY <3>1, <3>2
  <2>5. CASE M!Fail(r)
    BY <1>1, <2>5 DEF M!Fail
  <2> QED
    BY <2>1, <2>2, <2>3, <2>4, <2>5
<1> QED
  BY <1>1, <1>2, <1>3, <1>4, MilestoneGo

LEMMA MilestoneCreate ==
  ASSUME M!IInv, NEW r \in Requests, M!CreateNotice(r)
  PROVE  M!IInv'
<1>1. /\ milestonePc' = [milestonePc EXCEPT ![r] = "idle"]
      /\ notices' = notices + 1 /\ created' = TRUE
      /\ UNCHANGED <<done, gone, noticed, task, missed>>
  BY DEF M!CreateNotice, M!Goto
<1>2. created'
  BY <1>1
<1>3. M!TypeOK'
  BY <1>1 DEF M!IInv, M!TypeOK
<1>4. M!KeptInv'
  BY <1>1, <1>2 DEF M!IInv, M!KeptInv
<1> QED
  BY <1>2, <1>3, <1>4 DEF M!IInv, M!HalfWayNoticed

LEMMA MilestoneElse ==
  ASSUME M!IInv, M!DeleteNotice \/ M!SwitchNotices \/ UNCHANGED milestoneVars
  PROVE  M!IInv'
<1>1. /\ UNCHANGED <<done, gone, milestonePc, task, created, missed>>
      /\ notices' \in Nat /\ noticed' \in BOOLEAN
      /\ notices' > 0 => notices > 0
  <2>1. CASE M!DeleteNotice
    BY <2>1 DEF M!DeleteNotice, M!IInv, M!TypeOK
  <2>2. CASE M!SwitchNotices
    BY <2>2 DEF M!SwitchNotices, M!IInv, M!TypeOK
  <2>3. CASE UNCHANGED milestoneVars
    BY <2>3 DEF milestoneVars, M!IInv, M!TypeOK
  <2> QED
    BY <2>1, <2>2, <2>3
<1>2. M!TypeOK' /\ M!KeptInv'
  BY <1>1 DEF M!IInv, M!TypeOK, M!KeptInv
<1> QED
  BY <1>1, <1>2 DEF M!IInv, M!HalfWayNoticed

\* No task of a funnel that is gone is complete.
LEMMA MilestoneDeleteFunnel ==
  ASSUME M!IInv, M!DeleteFunnel
  PROVE  M!IInv'
<1>1. /\ gone' = TRUE /\ done' = {}
      /\ UNCHANGED <<noticed, notices, milestonePc, task, created, missed>>
  BY DEF M!DeleteFunnel
<1>2. M!TypeOK' /\ M!KeptInv'
  BY <1>1 DEF M!IInv, M!TypeOK, M!KeptInv
<1>3. ~(2 * Cardinality(done') >= MaxTasks)
  BY <1>1, TasksCount, FS_EmptySet
<1> QED
  BY <1>2, <1>3, MilestoneCardinality DEF M!IInv, M!HalfWayNoticed

LEMMA MilestoneNextStep ==
  ASSUME M!IInv, [M!Next]_milestoneVars
  PROVE  M!IInv'
BY MilestoneReadTask, MilestoneSaveTask, MilestoneListen, MilestoneCreate, MilestoneElse,
   MilestoneDeleteFunnel DEF M!Next

\* What the listeners and the notices know of one another holds in every reachable
\* state.
THEOREM MilestoneInvariance == Spec => []M!IInv
<1>1. Init => M!IInv
  BY MilestoneInit DEF Init
<1>2. M!IInv /\ [Next]_vars => M!IInv'
  BY MilestoneNextStep, ServicesFrames
<1> QED
  BY <1>1, <1>2, PTL DEF Spec

\* When half of the tasks are complete and no listener is at work, the notice has been
\* created, unless a listener was lost, failed, or found it unwanted (onTaskCompleted).
THEOREM HalfWayIsNoticed == Spec => []HalfWayNoticed
<1>1. M!IInv => HalfWayNoticed
  BY DEF M!IInv, HalfWayNoticed
<1> QED
  BY <1>1, MilestoneInvariance, PTL
===============================================================================
