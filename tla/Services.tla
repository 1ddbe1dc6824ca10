------------------------------- MODULE Services -------------------------------
(***************************************************************************)
(* The services that share no state with one another nor with the other    *)
(* components, side by side. A behaviour is of one of them, named by       *)
(* "part"; the others stay in an initial state: what they do at the same   *)
(* time is no concern of it.                                               *)
(***************************************************************************)
EXTENDS Naturals, FiniteSets

CONSTANTS Requests, Recordings, Profiles, None, MaxCodes, MaxSessions, MaxInvitations,
          MaxUploads, Attempts, Runs, Limit, MaxFaults, MaxAccounts, MaxTasks

\* Requests and recordings are finite in number, and bounds are numbers; a funnel has
\* tasks, and one failure at least locks an account.
ASSUME ServicesAssumption ==
    /\ IsFiniteSet(Requests) /\ IsFiniteSet(Recordings)
    /\ None \notin Requests /\ None \notin Profiles
    /\ MaxCodes \in Nat /\ MaxUploads \in Nat /\ MaxAccounts \in Nat
    /\ Limit \in Nat \ {0} /\ MaxTasks \in Nat \ {0}

VARIABLE part
VARIABLES kind, verified, codes, stale, sent, lock, overran, codesPc, code, seen,
          granted, issued, id, spent
VARIABLES wizardStatus, answers, lapsed, advisory, reopened, wizardPc, target, entity,
          columns
VARIABLES active, teamsStatus, expired, holder, account, role, member, admitted,
          revoked, teamsPc, invitation
VARIABLES upload, job, runs, run, texts, appended, meta, counted, marked, voicePc,
          wanted, listed, saved, excused
VARIABLES step, data, attempt, written
VARIABLES avatar, objects, uploads, avatarPc, path, previous, broken
VARIABLES user, row, preferencesPc, updating
VARIABLES metadata, failed, locked, lockoutPc, admin, guesses, faults
VARIABLES googleAccount, made, googlePc, profile, found, letGo
VARIABLES done, gone, noticed, notices, milestonePc, task, complete, created, missed

C == INSTANCE Codes WITH pc <- codesPc
W == INSTANCE Wizard WITH status <- wizardStatus, pc <- wizardPc
T == INSTANCE Teams WITH status <- teamsStatus, pc <- teamsPc
V == INSTANCE Voice WITH pc <- voicePc
S == INSTANCE Content
A == INSTANCE Avatar WITH pc <- avatarPc
P == INSTANCE Preferences WITH pc <- preferencesPc
L == INSTANCE Lockout WITH row <- metadata, pc <- lockoutPc, missed <- faults
G == INSTANCE GoogleSignIn WITH row <- googleAccount, pc <- googlePc
M == INSTANCE Milestone WITH wanted <- noticed, pc <- milestonePc

codesVars == <<kind, verified, codes, stale, sent, lock, overran, codesPc, code,
               seen, granted, issued, id, spent>>
wizardVars == <<wizardStatus, answers, lapsed, advisory, reopened, wizardPc, target,
                entity, columns>>
teamsVars == <<active, teamsStatus, expired, holder, account, role, member,
               admitted, revoked, teamsPc, invitation>>
voiceVars == <<upload, job, runs, run, texts, appended, meta, counted, marked,
               voicePc, wanted, listed, saved, excused>>
contentVars == <<step, data, attempt, written>>
avatarVars == <<avatar, objects, uploads, avatarPc, path, previous, broken>>
preferencesVars == <<user, row, preferencesPc, updating>>
lockoutVars == <<metadata, failed, locked, lockoutPc, admin, guesses, faults>>
googleVars == <<googleAccount, made, googlePc, profile, found, letGo>>
milestoneVars == <<done, gone, noticed, notices, milestonePc, task, complete, created,
                   missed>>

\* What an initial state leaves open counts for the part that moves.
Init ==
    /\ part \in {"Codes", "Wizard", "Teams", "Voice", "Content", "Avatar",
                  "Preferences", "Lockout", "GoogleSignIn", "Milestone"}
    /\ C!Init
    /\ W!Init
    /\ T!Init
    /\ V!Init
    /\ S!Init
    /\ A!Init
    /\ P!Init
    /\ L!Init
    /\ G!Init
    /\ M!Init
    /\ part # "Codes" => kind = "verify"
    /\ part # "Teams" => ~account

CodesNext ==
    /\ part = "Codes" /\ C!Next
    /\ UNCHANGED <<part, wizardVars, teamsVars, voiceVars, contentVars, avatarVars,
                   preferencesVars, lockoutVars, googleVars, milestoneVars>>

WizardNext ==
    /\ part = "Wizard" /\ W!Next
    /\ UNCHANGED <<part, codesVars, teamsVars, voiceVars, contentVars, avatarVars,
                   preferencesVars, lockoutVars, googleVars, milestoneVars>>

TeamsNext ==
    /\ part = "Teams" /\ T!Next
    /\ UNCHANGED <<part, codesVars, wizardVars, voiceVars, contentVars, avatarVars,
                   preferencesVars, lockoutVars, googleVars, milestoneVars>>

VoiceNext ==
    /\ part = "Voice" /\ V!Next
    /\ UNCHANGED <<part, codesVars, wizardVars, teamsVars, contentVars, avatarVars,
                   preferencesVars, lockoutVars, googleVars, milestoneVars>>

ContentNext ==
    /\ part = "Content" /\ S!Next
    /\ UNCHANGED <<part, codesVars, wizardVars, teamsVars, voiceVars, avatarVars,
                   preferencesVars, lockoutVars, googleVars, milestoneVars>>

AvatarNext ==
    /\ part = "Avatar" /\ A!Next
    /\ UNCHANGED <<part, codesVars, wizardVars, teamsVars, voiceVars, contentVars,
                   preferencesVars, lockoutVars, googleVars, milestoneVars>>

PreferencesNext ==
    /\ part = "Preferences" /\ P!Next
    /\ UNCHANGED <<part, codesVars, wizardVars, teamsVars, voiceVars, contentVars,
                   avatarVars, lockoutVars, googleVars, milestoneVars>>

LockoutNext ==
    /\ part = "Lockout" /\ L!Next
    /\ UNCHANGED <<part, codesVars, wizardVars, teamsVars, voiceVars, contentVars,
                   avatarVars, preferencesVars, googleVars, milestoneVars>>

GoogleNext ==
    /\ part = "GoogleSignIn" /\ G!Next
    /\ UNCHANGED <<part, codesVars, wizardVars, teamsVars, voiceVars, contentVars,
                   avatarVars, preferencesVars, lockoutVars, milestoneVars>>

MilestoneNext ==
    /\ part = "Milestone" /\ M!Next
    /\ UNCHANGED <<part, codesVars, wizardVars, teamsVars, voiceVars, contentVars,
                   avatarVars, preferencesVars, lockoutVars, googleVars>>

Next ==
    \/ CodesNext \/ WizardNext \/ TeamsNext \/ VoiceNext
    \/ ContentNext \/ AvatarNext \/ PreferencesNext \/ LockoutNext
    \/ GoogleNext \/ MilestoneNext

vars == <<part, codesVars, wizardVars, teamsVars, voiceVars, contentVars, avatarVars,
          preferencesVars, lockoutVars, googleVars, milestoneVars>>

Spec == Init /\ [][Next]_vars

-----------------------------------------------------------------------------
(* The properties of the parts, by the names of their modules *)

\* A one-time code verifies the user, or gets a reset token, once (verifyOtp,
\* verifyResetOtp).
CodeOnce == C!CodeOnce

\* A reset token changes the password once (resetPassword).
ResetOnce == C!ResetOnce

\* A user has one open onboarding session, but for those a late save has opened
\* again (resolveStartWizardSession).
OneOpen == W!OneOpen

\* An invitation that was accepted or revoked admits nobody (acceptInvite).
SpentAdmitsNobody == T!SpentAdmitsNobody

\* No voice recording is missing from the documents, but for the known losses
\* (completeSession).
NothingLost == V!NothingLost

\* A generated funnel has each of its four stages (validateStageData).
ContentComplete == S!ContentComplete

\* The avatar of a user is in storage (uploadAvatar, deleteAvatar).
AvatarStored == A!AvatarStored

\* Nobody is refused the notification preferences (getNotificationPreferences).
PreferencesServed == P!PreferencesServed

\* Few more wrong passwords are compared than failures lock the account
\* (recordFailedLogin).
GuessesBounded == L!GuessesBounded

\* An account stays local, or with its Google identity (handleOAuthLogin).
OneIdentity == G!OneIdentity

\* Who is half way through a funnel gets the notice (onTaskCompleted).
HalfWayNoticed == M!HalfWayNoticed
=============================================================================
