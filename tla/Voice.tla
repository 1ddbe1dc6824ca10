--------------------------------- MODULE Voice ---------------------------------
(***************************************************************************)
(* One voice session: recordings are uploaded and queued, each is          *)
(* transcribed by a job that appends its text to a Redis list, and the     *)
(* session is completed into a document. A hash counts the recordings      *)
(* expected and completed; list and hash expire each on its own. A marker  *)
(* tells a later run of a job that it is done. The audio object, there     *)
(* from before the job is queued until it is done, is not kept.            *)
(***************************************************************************)
EXTENDS Naturals, FiniteSets

CONSTANTS
    Recordings,     \* the recordings of the session
    Requests,       \* requests to complete it
    Runs            \* bound on the runs of a job: 3 attempts, and one more if its worker dies

VARIABLES
    upload,         \* what the upload of each does next
    job,            \* of each: "none", "waiting", "active", "done", "failed"
    runs,           \* how often it was given out
    run,            \* what the run of each job does next
    texts,          \* the recordings whose text is in the list
    appended,       \* those whose text has been in the list
    meta,           \* the hash: is it there, and its two counts
    counted,        \* the recordings it counts as expected
    marked,         \* the jobs with a marker
    pc,             \* what each completion does next
    wanted,         \* the recordings it found expected and completed
    listed,         \* the texts it read
    saved,          \* the recordings whose text is in a document
    excused         \* one of the known losses has happened (see NothingLost)

jobVars == <<job, runs, run>>
doneVars == <<pc, wanted, listed, saved>>
vars == <<upload, jobVars, texts, appended, meta, counted, marked, doneVars, excused>>

NoMeta == [live |-> FALSE, expected |-> 0, completed |-> 0]

Init ==
    /\ texts = {} /\ appended = {} /\ counted = {} /\ marked = {} /\ saved = {}
    /\ upload = [j \in Recordings |-> "none"]
    /\ job = [j \in Recordings |-> "none"]
    /\ runs = [j \in Recordings |-> 0]
    /\ run = [j \in Recordings |-> "idle"]
    /\ meta = NoMeta
    /\ pc = [c \in Requests |-> "idle"]
    /\ wanted = [c \in Requests |-> {}]
    /\ listed = [c \in Requests |-> {}]
    /\ excused = FALSE

Upload(j, from, to) ==
    /\ upload[j] = from
    /\ upload' = [upload EXCEPT ![j] = to]

Run(j, from, to) ==
    /\ run[j] = from
    /\ run' = [run EXCEPT ![j] = to]

Goto(c, from, to) ==
    /\ pc[c] = from
    /\ pc' = [pc EXCEPT ![c] = to]

-----------------------------------------------------------------------------
(* handleAudioUpload *)

\* The first opens the session; the others must find its hash.
StartUpload(j) ==
    /\ (\A k \in Recordings : upload[k] = "none") \/ meta.live
    /\ Upload(j, "none", "queuing")
    /\ UNCHANGED <<jobVars, texts, appended, meta, counted, marked, doneVars, excused>>

\* The object is put, the job queued.
Enqueue(j) ==
    /\ Upload(j, "queuing", "counting")
    /\ job' = [job EXCEPT ![j] = "waiting"]
    /\ UNCHANGED <<runs, run, texts, appended, meta, counted, marked, doneVars, excused>>

\* HINCRBY, which makes the hash if there is none: after the job was queued.
CountExpected(j) ==
    /\ Upload(j, "counting", "ended")
    /\ meta' = [meta EXCEPT !.live = TRUE, !.expected = @ + 1]
    /\ counted' = counted \cup {j}
    /\ UNCHANGED <<jobVars, texts, appended, marked, doneVars, excused>>

FailUpload(j) ==
    /\ \E from \in {"queuing", "counting"} : Upload(j, from, "ended")
    /\ UNCHANGED <<jobVars, texts, appended, meta, counted, marked, doneVars, excused>>

-----------------------------------------------------------------------------
(* processTranscription *)

Take(j) ==
    /\ job[j] = "waiting"
    /\ job' = [job EXCEPT ![j] = "active"]
    /\ runs' = [runs EXCEPT ![j] = @ + 1]
    /\ Run(j, "idle", "loading")
    /\ UNCHANGED <<upload, texts, appended, meta, counted, marked, doneVars, excused>>

\* The object and the marker; an error of Redis reads as "no marker".
Load(j) ==
    /\ \/ Run(j, "loading", "transcribing")
       \/ j \in marked /\ Run(j, "loading", "cleaning")
    /\ UNCHANGED <<upload, job, runs, texts, appended, meta, counted, marked,
                   doneVars, excused>>

\* RPUSH, after a provider has answered. A run that failed later does it again.
Append(j) ==
    /\ Run(j, "transcribing", "counting")
    /\ texts' = texts \cup {j}
    /\ appended' = appended \cup {j}
    /\ excused' = (excused \/ j \in appended)
    /\ UNCHANGED <<upload, job, runs, meta, counted, marked, doneVars>>

\* EXISTS of the hash; an error of Redis reads as "not there".
FindMeta(j) ==
    /\ \/ meta.live /\ Run(j, "counting", "adding")
       \/ Run(j, "counting", "marking")
    /\ UNCHANGED <<upload, job, runs, texts, appended, meta, counted, marked,
                   doneVars, excused>>

\* HINCRBY, which makes the hash again if it has gone since.
CountCompleted(j) ==
    /\ Run(j, "adding", "marking")
    /\ meta' = [meta EXCEPT !.live = TRUE, !.completed = @ + 1]
    /\ excused' = (excused \/ j \notin counted)
    /\ UNCHANGED <<upload, job, runs, texts, appended, counted, marked, doneVars>>

Mark(j) ==
    /\ Run(j, "marking", "cleaning")
    /\ marked' = marked \cup {j}
    /\ UNCHANGED <<upload, job, runs, texts, appended, meta, counted, doneVars,
                   excused>>

DropObject(j) ==
    /\ Run(j, "cleaning", "idle")
    /\ job' = [job EXCEPT ![j] = "done"]
    /\ UNCHANGED <<upload, runs, texts, appended, meta, counted, marked, doneVars, excused>>

\* A step throws, or the worker dies: Bull gives the job out again, or fails it.
Break(j) ==
    /\ run[j] # "idle"
    /\ Run(j, run[j], "idle")
    /\ \/ runs[j] < Runs /\ job' = [job EXCEPT ![j] = "waiting"]
       \/ job' = [job EXCEPT ![j] = "failed"]
    /\ UNCHANGED <<upload, runs, texts, appended, meta, counted, marked, doneVars, excused>>

-----------------------------------------------------------------------------
(* completeSession *)

\* Mutant of Ready: whether anything is left to transcribe is not asked.
ReadyIfAny == meta.live /\ meta.completed > 0

Ready == meta.live /\ meta.expected > 0 /\ meta.expected = meta.completed

\* HGETALL. The EXISTS before it only words the refusal: what is gone has no counts.
CheckReady(c) ==
    /\ Ready
    /\ Goto(c, "idle", "listing")
    /\ wanted' = [wanted EXCEPT ![c] = counted]
    /\ UNCHANGED <<upload, jobVars, texts, appended, meta, counted, marked, listed, saved,
                   excused>>

\* LRANGE; nothing there ends the request.
ListTexts(c) ==
    /\ \/ texts = {} /\ Goto(c, "listing", "idle")
       \/ texts # {} /\ Goto(c, "listing", "saving")
    /\ listed' = [listed EXCEPT ![c] = texts]
    /\ UNCHANGED <<upload, jobVars, texts, appended, meta, counted, marked, wanted, saved,
                   excused>>

CreateDocument(c) ==
    /\ Goto(c, "saving", "dropping")
    /\ saved' = saved \cup listed[c]
    /\ listed' = [listed EXCEPT ![c] = {}]
    /\ UNCHANGED <<upload, jobVars, texts, appended, meta, counted, marked, wanted, excused>>

\* DEL of the list, with the texts that came since it was read ...
DropTexts(c) ==
    /\ Goto(c, "dropping", "closing")
    /\ texts' = {}
    /\ excused' = (excused \/ ~(texts \subseteq saved))
    /\ UNCHANGED <<upload, jobVars, appended, meta, counted, marked, wanted, listed, saved>>

\* ... then of the hash.
DropMeta(c) ==
    /\ Goto(c, "closing", "idle")
    /\ meta' = NoMeta /\ counted' = {}
    /\ wanted' = [wanted EXCEPT ![c] = {}]
    /\ UNCHANGED <<upload, jobVars, texts, appended, marked, listed, saved, excused>>

\* The request dies or a call throws.
FailComplete(c) ==
    /\ pc[c] # "idle"
    /\ Goto(c, pc[c], "idle")
    /\ wanted' = [wanted EXCEPT ![c] = {}]
    /\ listed' = [listed EXCEPT ![c] = {}]
    /\ UNCHANGED <<upload, jobVars, texts, appended, meta, counted, marked, saved, excused>>

-----------------------------------------------------------------------------
ExpireTexts ==
    /\ texts # {}
    /\ texts' = {}
    /\ excused' = (excused \/ ~(texts \subseteq saved))
    /\ UNCHANGED <<upload, jobVars, appended, meta, counted, marked, doneVars>>

ExpireMeta ==
    /\ meta.live
    /\ meta' = NoMeta /\ counted' = {}
    /\ UNCHANGED <<upload, jobVars, texts, appended, marked, doneVars, excused>>

Next ==
    \/ \E j \in Recordings :
          \/ StartUpload(j) \/ Enqueue(j) \/ CountExpected(j) \/ FailUpload(j)
          \/ Take(j) \/ Load(j) \/ Append(j) \/ FindMeta(j) \/ CountCompleted(j) \/ Mark(j)
          \/ DropObject(j) \/ Break(j)
    \/ \E c \in Requests :
          \/ CheckReady(c) \/ ListTexts(c) \/ CreateDocument(c) \/ DropTexts(c) \/ DropMeta(c)
          \/ FailComplete(c)
    \/ ExpireTexts \/ ExpireMeta

Spec == Init /\ [][Next]_vars

-----------------------------------------------------------------------------
(* Properties *)

\* When a completion is done with its document, a document has the text of every
\* recording it had found expected (completeSession), whatever uploads, jobs and
\* other completions did meanwhile. The known losses aside, each of which sets
\* "excused": a job run twice; a recording counted as completed in a hash that does not
\* count it as expected, not yet, or no longer since the hash expired or was deleted
\* between EXISTS and HINCRBY; a list that expired; a text that came while the list was
\* deleted.
NothingLost ==
    excused \/ \A c \in Requests : pc[c] \in {"dropping", "closing"} => wanted[c] \subseteq saved

-----------------------------------------------------------------------------
(* The inductive invariant *)

\* The recordings counted as expected whose text has been in the list, but for those
\* whose job is about to count it as completed.
Past == {j \in counted : j \in appended /\ run[j] \notin {"counting", "adding"}}

TypeOK ==
    /\ upload \in [Recordings -> {"none", "queuing", "counting", "ended"}]
    /\ run \in [Recordings -> {"idle", "loading", "transcribing", "counting", "adding",
                               "marking", "cleaning"}]
    /\ texts \subseteq Recordings /\ appended \subseteq Recordings
    /\ counted \subseteq Recordings
    /\ meta \in [live : BOOLEAN, expected : Nat, completed : Nat]
    /\ pc \in [Requests -> {"idle", "listing", "saving", "dropping", "closing"}]
    /\ wanted \in [Requests -> SUBSET Recordings]
    /\ listed \in [Requests -> SUBSET Recordings]
    /\ excused \in BOOLEAN

\* A recording is counted as expected once.
ExpectedInv ==
    /\ \A j \in counted : upload[j] = "ended"
    /\ meta.expected = Cardinality(counted)

\* The count of the completed ones is that of texts that have been in the list.
CompletedInv ==
    /\ \A j \in Recordings : run[j] \in {"counting", "adding"} => j \in appended
    /\ meta.completed <= Cardinality(Past)

\* No text leaves the list before it is in a document.
TextInv == appended \subseteq texts \cup saved

\* What each step of a completion knows of the texts it is to save.
WantedInv ==
    \A c \in Requests :
       /\ pc[c] = "listing" => wanted[c] \subseteq appended
       /\ pc[c] = "saving" => wanted[c] \subseteq listed[c] \cup saved
       /\ pc[c] \in {"dropping", "closing"} => wanted[c] \subseteq saved

\* The inductive invariant of handleAudioUpload, processTranscription and
\* completeSession.
IInv == TypeOK /\ ExpectedInv /\ (excused \/ (CompletedInv /\ TextInv /\ WantedInv))
=============================================================================
