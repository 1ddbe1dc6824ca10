-------------------------------- MODULE Wizard --------------------------------
(***************************************************************************)
(* The onboarding wizard of one user (OnboardingService): starting or      *)
(* resuming a session, answering its three steps in any order the checks   *)
(* allow, and completing it. A save is TypeORM's: it reads the row again   *)
(* and writes the columns in which the entity, loaded before, differs.     *)
(* An answer is valid or refused; only which steps are answered is kept.   *)
(* No code marks a session EXPIRED: it lapses by its expires_at.           *)
(***************************************************************************)
EXTENDS Naturals, FiniteSets

CONSTANTS
    Requests,       \* requests in progress
    MaxSessions     \* bound on the sessions that are started

Sessions == 1..MaxSessions
Steps == 1..3

VARIABLES
    status,         \* of each session: "none", "in_progress", "complete"
    answers,        \* the steps answered, by the row of each session
    lapsed,         \* the sessions past their expires_at
    advisory,       \* the requests that hold the advisory lock of the user
    reopened,       \* sessions a save set back from COMPLETE to IN_PROGRESS
    pc,             \* what each request does next
    target,         \* the session it works on, 0 for none
    entity,         \* the answers of the entity it is about to save
    columns         \* the columns its UPDATE will set

vars == <<status, answers, lapsed, advisory, reopened, pc, target, entity, columns>>

Init ==
    /\ status = [s \in Sessions |-> "none"]
    /\ answers = [s \in Sessions |-> {}]
    /\ lapsed = {} /\ advisory = {} /\ reopened = {}
    /\ pc = [r \in Requests |-> "idle"]
    /\ target = [r \in Requests |-> 0]
    /\ entity = [r \in Requests |-> {}]
    /\ columns = [r \in Requests |-> {}]

Goto(r, from, to) ==
    /\ pc[r] = from
    /\ pc' = [pc EXCEPT ![r] = to]

Live(s) == status[s] = "in_progress" /\ s \notin lapsed

-----------------------------------------------------------------------------
(* resolveStartWizardSession: one transaction *)

\* Mutant of LockFree: no advisory lock.
LockIgnored == TRUE

LockFree == advisory = {}

\* pg_advisory_xact_lock, which waits for the transaction that holds it
StartSession(r) ==
    /\ LockFree
    /\ advisory' = advisory \cup {r}
    /\ Goto(r, "idle", "finding")
    /\ UNCHANGED <<status, answers, lapsed, reopened, target, entity, columns>>

\* A session to resume ends the transaction; without one it inserts.
FindActive(r) ==
    /\ \/ /\ \E s \in Sessions : Live(s)
          /\ Goto(r, "finding", "idle")
          /\ advisory' = advisory \ {r}
       \/ /\ \A s \in Sessions : ~Live(s)
          /\ Goto(r, "finding", "creating")
          /\ UNCHANGED advisory
    /\ UNCHANGED <<status, answers, lapsed, reopened, target, entity, columns>>

\* The INSERT and the COMMIT, which releases the lock.
CreateSession(r) ==
    /\ Goto(r, "creating", "idle")
    /\ \E s \in Sessions :
          /\ status[s] = "none" /\ \A t \in 1..(s - 1) : status[t] # "none"
          /\ status' = [status EXCEPT ![s] = "in_progress"]
    /\ advisory' = advisory \ {r}
    /\ UNCHANGED <<answers, lapsed, reopened, target, entity, columns>>

-----------------------------------------------------------------------------
(* saveStepAnswer *)

\* The guards, on the row as it is read: the steps before must be answered.
ReadForSave(r, s, n) ==
    /\ Live(s)
    /\ \A t \in 1..(n - 1) : t \in answers[s]
    /\ Goto(r, "idle", "selecting")
    /\ target' = [target EXCEPT ![r] = s]
    /\ entity' = [entity EXCEPT ![r] = answers[s] \cup {n}]
    /\ UNCHANGED <<status, answers, lapsed, advisory, reopened, columns>>

\* The SELECT of save(): the same steps may have been answered differently.
SelectForSave(r) ==
    LET s == target[r]
        answersDiffer == IF entity[r] = answers[s] THEN BOOLEAN ELSE {TRUE}
    IN  /\ Goto(r, "selecting", "writing")
        /\ \E differ \in answersDiffer :
              columns' = [columns EXCEPT ![r] =
                  (IF differ THEN {"answers"} ELSE {})
                  \cup (IF status[s] = "in_progress" THEN {} ELSE {"status"})]
        /\ UNCHANGED <<status, answers, lapsed, advisory, reopened, target, entity>>

\* The column takes the answers of the entity, whatever the row holds by now.
WriteSave(r) ==
    LET s == target[r]
    IN  /\ Goto(r, "writing", "idle")
        /\ answers' = IF "answers" \in columns[r]
                      THEN [answers EXCEPT ![s] = entity[r]]
                      ELSE answers
        /\ IF "status" \in columns[r]
           THEN status' = [status EXCEPT ![s] = "in_progress"] /\ reopened' = reopened \cup {s}
           ELSE UNCHANGED <<status, reopened>>
        /\ target' = [target EXCEPT ![r] = 0]
        /\ entity' = [entity EXCEPT ![r] = {}]
        /\ columns' = [columns EXCEPT ![r] = {}]
        /\ UNCHANGED <<lapsed, advisory>>

-----------------------------------------------------------------------------
(* completeOnboarding *)

\* validateAnswers
AllAnswered(s) == answers[s] = Steps

\* The guards, on the row as it is read.
ReadForComplete(r, s) ==
    /\ Live(s)
    /\ AllAnswered(s)
    /\ Goto(r, "idle", "completing")
    /\ target' = [target EXCEPT ![r] = s]
    /\ UNCHANGED <<status, answers, lapsed, advisory, reopened, entity, columns>>

\* The profile of the user and the status of the session, in one transaction.
CommitComplete(r) ==
    /\ Goto(r, "completing", "idle")
    /\ status' = [status EXCEPT ![target[r]] = "complete"]
    /\ target' = [target EXCEPT ![r] = 0]
    /\ UNCHANGED <<answers, lapsed, advisory, reopened, entity, columns>>

-----------------------------------------------------------------------------
\* A request dies or a statement fails; an open transaction is rolled back.
Fail(r) ==
    /\ pc[r] # "idle"
    /\ pc' = [pc EXCEPT ![r] = "idle"]
    /\ advisory' = advisory \ {r}
    /\ target' = [target EXCEPT ![r] = 0]
    /\ entity' = [entity EXCEPT ![r] = {}]
    /\ columns' = [columns EXCEPT ![r] = {}]
    /\ UNCHANGED <<status, answers, lapsed, reopened>>

Lapse(s) ==
    /\ status[s] # "none" /\ s \notin lapsed
    /\ lapsed' = lapsed \cup {s}
    /\ UNCHANGED <<status, answers, advisory, reopened, pc, target, entity, columns>>

Next ==
    \/ \E r \in Requests :
          \/ StartSession(r) \/ FindActive(r) \/ CreateSession(r)
          \/ SelectForSave(r) \/ WriteSave(r) \/ CommitComplete(r) \/ Fail(r)
          \/ \E s \in Sessions :
                ReadForComplete(r, s) \/ \E n \in Steps : ReadForSave(r, s, n)
    \/ \E s \in Sessions : Lapse(s)

Spec == Init /\ [][Next]_vars

-----------------------------------------------------------------------------
(* Properties *)

\* Two sessions of a user are never open at once, however many tabs start one,
\* unless a save that began before the completion opened an old one again
\* (resolveStartWizardSession).
OneOpen == \A s, t \in Sessions : Live(s) /\ Live(t) /\ s # t => s \in reopened \/ t \in reopened

-----------------------------------------------------------------------------
(* The inductive invariant *)

TypeOK ==
    /\ status \in [Sessions -> {"none", "in_progress", "complete"}]
    /\ pc \in [Requests -> {"idle", "finding", "creating", "selecting", "writing",
                            "completing"}]
    /\ advisory \subseteq Requests

\* The lock is held by one request at most, while it looks for a session or makes one.
LockInv ==
    /\ \A r \in Requests : r \in advisory <=> pc[r] \in {"finding", "creating"}
    /\ \A r, q \in advisory : r = q

\* What FindActive has seen outlasts everything but a late save.
NoneOpen == \A s \in Sessions : Live(s) => s \in reopened

FoundInv == \A r \in Requests : pc[r] = "creating" => NoneOpen

\* The inductive invariant of startWizardSession, saveStepAnswer and completeOnboarding.
IInv == TypeOK /\ LockInv /\ FoundInv /\ OneOpen
=============================================================================
