------------------------------- MODULE Milestone -------------------------------
(***************************************************************************)
(* The notice "You are 50% through your funnel" of one funnel: a request   *)
(* that completes a task emits TASK_COMPLETED, whose listener reads the    *)
(* preferences, counts the tasks, looks for the notice and creates it      *)
(* (NotificationListener.onTaskCompleted), after the request is answered   *)
(* and beside other listeners. Which tasks may be completed is module      *)
(* StageProgression's.                                                     *)
(***************************************************************************)
EXTENDS Naturals, FiniteSets

CONSTANTS
    Requests,       \* requests in progress, each with its listener
    MaxTasks        \* tasks of all stages of the funnel

Tasks == 1..MaxTasks

VARIABLES
    done,           \* the tasks that are complete
    gone,           \* the funnel is deleted
    wanted,         \* inapp_task_completed in the preferences
    notices,        \* how many notices there are
    pc,             \* what each request or its listener does next
    task,           \* the task of its request
    complete,       \* the requests to complete it; the others reopen it
    created,        \* the notice has been created
    missed          \* a listener was lost, failed, or found the notice unwanted

vars == <<done, gone, wanted, notices, pc, task, complete, created, missed>>

Listening == {"emitting", "preferences", "counting", "looking", "creating"}

Init ==
    /\ done = {} /\ gone = FALSE /\ wanted = TRUE /\ notices = 0
    /\ pc = [r \in Requests |-> "idle"]
    /\ task = [r \in Requests |-> 1]
    /\ complete = {}
    /\ created = FALSE /\ missed = FALSE

Goto(r, from, to) ==
    /\ pc[r] = from
    /\ pc' = [pc EXCEPT ![r] = to]

-----------------------------------------------------------------------------
(* updateTaskStatus *)

\* findOwnedTask; a task that has the status already is answered.
ReadTask(r) ==
    /\ ~gone
    /\ Goto(r, "idle", "saving")
    /\ \E t \in Tasks :
          /\ task' = [task EXCEPT ![r] = t]
          /\ \/ t \notin done /\ complete' = complete \cup {r}
             \/ t \in done /\ complete' = complete \ {r}
    /\ UNCHANGED <<done, gone, wanted, notices, created, missed>>

\* saveTask; without its stage it throws. Only a completion is for this listener.
SaveTask(r) ==
    /\ \/ gone /\ Goto(r, "saving", "idle") /\ UNCHANGED done
       \/ ~gone /\ r \in complete /\ Goto(r, "saving", "emitting") /\ done' = done \cup {task[r]}
       \/ ~gone /\ r \notin complete /\ Goto(r, "saving", "idle") /\ done' = done \ {task[r]}
    /\ UNCHANGED <<gone, wanted, notices, task, complete, created, missed>>

Emit(r) ==
    /\ Goto(r, "emitting", "preferences")
    /\ UNCHANGED <<done, gone, wanted, notices, task, complete, created, missed>>

-----------------------------------------------------------------------------
(* onTaskCompleted *)

ReadPreferences(r) ==
    /\ Goto(r, "preferences", IF wanted THEN "counting" ELSE "idle")
    /\ missed' = (missed \/ ~wanted)
    /\ UNCHANGED <<done, gone, wanted, notices, task, complete, created>>

\* Mutant of HalfWay: exactly half is not enough.
MoreThanHalf == 2 * Cardinality(done) > Cardinality(Tasks)

HalfWay == 2 * Cardinality(done) >= Cardinality(Tasks)

\* getFunnelTaskProgress; a deleted funnel has no tasks.
CountTasks(r) ==
    /\ Goto(r, "counting", IF ~gone /\ HalfWay THEN "looking" ELSE "idle")
    /\ UNCHANGED <<done, gone, wanted, notices, task, complete, created, missed>>

\* existsForFunnelType
FindNotice(r) ==
    /\ Goto(r, "looking", IF notices > 0 THEN "idle" ELSE "creating")
    /\ UNCHANGED <<done, gone, wanted, notices, task, complete, created, missed>>

CreateNotice(r) ==
    /\ Goto(r, "creating", "idle")
    /\ notices' = notices + 1 /\ created' = TRUE
    /\ UNCHANGED <<done, gone, wanted, task, complete, missed>>

\* A query throws and safely logs it, or the process dies.
Fail(r) ==
    /\ pc[r] # "idle"
    /\ pc' = [pc EXCEPT ![r] = "idle"]
    /\ missed' = (missed \/ pc[r] \in Listening)
    /\ UNCHANGED <<done, gone, wanted, notices, task, complete, created>>

-----------------------------------------------------------------------------
\* deleteNotification
DeleteNotice ==
    /\ notices > 0
    /\ notices' = notices - 1
    /\ UNCHANGED <<done, gone, wanted, pc, task, complete, created, missed>>

\* updateNotificationPreferences
SwitchNotices ==
    /\ wanted' = ~wanted
    /\ UNCHANGED <<done, gone, notices, pc, task, complete, created, missed>>

\* deleteFunnel; the tasks go with it, the notices stay.
DeleteFunnel ==
    /\ ~gone
    /\ gone' = TRUE /\ done' = {}
    /\ UNCHANGED <<wanted, notices, pc, task, complete, created, missed>>

Next ==
    \/ \E r \in Requests :
          \/ ReadTask(r) \/ SaveTask(r) \/ Emit(r) \/ ReadPreferences(r) \/ CountTasks(r)
          \/ FindNotice(r) \/ CreateNotice(r) \/ Fail(r)
    \/ DeleteNotice \/ SwitchNotices \/ DeleteFunnel

Spec == Init /\ [][Next]_vars

-----------------------------------------------------------------------------
(* Properties *)

\* When at least half of the tasks are complete and no listener is at work, the
\* notice has been created, however completions, reopenings and listeners overlap:
\* one of the listeners has counted them all. It may be missed only when a listener
\* was lost, failed, or found the notice unwanted (onTaskCompleted).
HalfWayNoticed ==
    /\ 2 * Cardinality(done) >= MaxTasks /\ ~missed
    /\ \A r \in Requests : pc[r] \notin Listening
    => created

-----------------------------------------------------------------------------
(* The inductive invariant *)

TypeOK ==
    /\ done \subseteq Tasks
    /\ gone \in BOOLEAN /\ wanted \in BOOLEAN /\ created \in BOOLEAN /\ missed \in BOOLEAN
    /\ notices \in Nat
    /\ pc \in [Requests -> Listening \cup {"idle", "saving"}]
    /\ task \in [Requests -> Tasks]

\* The tasks go with the funnel, and no notice is there that was not created.
KeptInv == (gone => done = {}) /\ (notices > 0 => created)

\* The inductive invariant of updateTaskStatus and onTaskCompleted.
IInv == TypeOK /\ KeptInv /\ HalfWayNoticed
=============================================================================
