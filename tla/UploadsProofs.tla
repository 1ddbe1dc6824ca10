---------------------------- MODULE UploadsProofs ----------------------------
(***************************************************************************)
(* The safety properties of Uploads for every set of documents, workers    *)
(* and sweeps and every number of attempts. First what a save makes of a   *)
(* row, then one lemma per part of IInv, with a step per action.           *)
(***************************************************************************)
EXTENDS UploadsInv, TLAPS

-----------------------------------------------------------------------------
(* Rows *)

\* The rows named in the code are rows.
LEMMA NamedRows ==
  /\ NoRow \in Rows /\ ParsingEntity \in Rows /\ ReadyEntity \in Rows
  /\ [NoRow EXCEPT !.status = "uploading"] \in Rows
  /\ \A r \in Rows : r.status \in Statuses /\ r.percent \in {0, 45, 50, 100}
                     /\ r.text \in BOOLEAN
  BY DEF Rows, NoRow, ParsingEntity, ReadyEntity, Statuses, Pending, Terminal

\* What a SELECT returns is a row.
LEMMA RowTyped ==
  ASSUME TypeOK
  PROVE  \A d \in Docs : Row(d) \in Rows
  BY DEF TypeOK, Row, Rows

\* A save makes a row, and leaves none when there was none to update.
LEMMA SavedTyped ==
  ASSUME TypeOK
  PROVE  \A d \in Docs, before \in Rows, want \in Rows : Saved(d, before, want) \in Rows
  BY NamedRows, RowTyped DEF Saved, Column, Row, Rows

\* A save takes no row away and touches no other.
LEMMA SaveKeepsRow ==
  ASSUME TypeOK, NEW d \in Docs, NEW before, NEW want, want.status # "none",
         WriteRow(d, before, want)
  PROVE  /\ \A e \in Docs : status[e] # "none" => status'[e] # "none"
         /\ \A e \in Docs \ {d} : status'[e] = status[e]
<1>1. status' = [status EXCEPT ![d] = Saved(d, before, want).status]
  BY DEF WriteRow, SetRow
<1>2. Exists(d) => Saved(d, before, want).status # "none"
  BY DEF Saved, Column, Exists
<1> QED
  BY <1>1, <1>2 DEF TypeOK, Exists

\* SetRow sets one row.
LEMMA RowSet ==
  ASSUME TypeOK, NEW d \in Docs, NEW r \in Rows, SetRow(d, r)
  PROVE  /\ Row(d)' = r
         /\ \A e \in Docs \ {d} : Row(e)' = Row(e)
         /\ status' \in [Docs -> Statuses] /\ percent' \in [Docs -> {0, 45, 50, 100}]
         /\ text' \in [Docs -> BOOLEAN]
<1> USE DEF TypeOK, SetRow
<1>1. r.status \in Statuses /\ r.percent \in {0, 45, 50, 100} /\ r.text \in BOOLEAN
  BY NamedRows
<1>2. r = [status |-> r.status, percent |-> r.percent, text |-> r.text]
  BY DEF Rows
<1>3. status'[d] = r.status /\ percent'[d] = r.percent /\ text'[d] = r.text
  OBVIOUS
<1>4. \A e \in Docs \ {d} :
        status'[e] = status[e] /\ percent'[e] = percent[e] /\ text'[e] = text[e]
  OBVIOUS
<1> QED
  BY <1>1, <1>2, <1>3, <1>4 DEF Row

\* A save writes one row, and leaves updated_at when it writes nothing.
LEMMA RowWritten ==
  ASSUME TypeOK, NEW d \in Docs, NEW before \in Rows, NEW want \in Rows,
         WriteRow(d, before, want)
  PROVE  /\ Row(d)' = Saved(d, before, want)
         /\ \A e \in Docs \ {d} : Row(e)' = Row(e)
         /\ status' \in [Docs -> Statuses] /\ percent' \in [Docs -> {0, 45, 50, 100}]
         /\ text' \in [Docs -> BOOLEAN]
         /\ quiet' \in [Docs -> BOOLEAN]
<1>1. Saved(d, before, want) \in Rows /\ SetRow(d, Saved(d, before, want))
  BY SavedTyped DEF WriteRow
<1>2. quiet' \in [Docs -> BOOLEAN]
  <2>1. CASE want = before
    <3>1. quiet' = [quiet EXCEPT ![d] = quiet[d]]
      BY <2>1 DEF WriteRow
    <3> QED
      BY <3>1 DEF TypeOK
  <2>2. CASE want # before
    <3>1. quiet' = [quiet EXCEPT ![d] = FALSE]
      BY <2>2 DEF WriteRow
    <3> QED
      BY <3>1 DEF TypeOK
  <2> QED
    BY <2>1, <2>2
<1> QED
  BY <1>1, <1>2, RowSet

\* A worker that goes idle, and whoever forgets what it has selected, keeps the types.
LEMMA IdleTyped ==
  ASSUME TypeOK, UploadConstants
  PROVE  /\ \A x \in Docs \cup Workers :
               Forget(x) => seen' \in [Docs \cup Workers -> Rows]
         /\ \A w \in Workers : GoIdle(w) =>
               /\ phase' \in [Workers -> {"idle", "finishing", "throwing", "failing",
                                          "reporting", "marking"} \cup RunPhases]
               /\ on' \in [Workers -> Docs \cup {None}]
               /\ copy' \in [Workers -> Rows]
               /\ seen' \in [Docs \cup Workers -> Rows]
<1>1. NoRow \in Rows
  BY NamedRows
<1> QED
  BY <1>1 DEF TypeOK, Forget, GoIdle

\* FailRows fails the rows it is given, and takes no text.
LEMMA RowsFailed ==
  ASSUME TypeOK, RowInv, NEW D \in SUBSET {d \in Docs : status[d] \in Pending},
         FailRows(D)
  PROVE  \A d \in Docs : IF d \in D
                         THEN /\ Exists(d) /\ ~text[d]
                              /\ Row(d)' = Failed(FALSE)
                         ELSE Row(d)' = Row(d)
<1> SUFFICES ASSUME NEW d \in Docs
             PROVE  IF d \in D THEN /\ Exists(d) /\ ~text[d]
                                    /\ Row(d)' = Failed(FALSE)
                    ELSE Row(d)' = Row(d)
  OBVIOUS
<1>1. CASE d \in D
  <2>1. status[d] \in Pending /\ Row(d) \in EarlyRows \cup JobRows
    BY <1>1 DEF RowInv, RowIs
  <2>2. Exists(d) /\ ~text[d]
    BY <2>1
       DEF Row, Exists, Pending, EarlyRows, JobRows, NoRow, ParsingEntity, ReadyEntity,
       Failed
  <2>3. status'[d] = "failed" /\ percent'[d] = 0 /\ text'[d] = FALSE
    BY <1>1, <2>2 DEF FailRows, TypeOK
  <2> QED
    BY <1>1, <2>2, <2>3 DEF Row, Failed
<1>2. CASE d \notin D
  BY <1>2 DEF FailRows, Row, TypeOK
<1> QED
  BY <1>1, <1>2

\* Before the job a row has no text and is not READY.
LEMMA EarlyRow ==
  ASSUME NEW r \in EarlyRows
  PROVE  r.status # "ready" /\ r.percent # 100 /\ r.text = FALSE /\ r # Failed(TRUE)
<1>1. CASE r \in [status : {"uploading", "failed"}, percent : {0, 45}, text : {FALSE}]
  <2>1. r.status \in {"uploading", "failed"} /\ r.percent \in {0, 45} /\ r.text \in {FALSE}
    BY <1>1
  <2>2. r.status # "ready"
    BY <2>1
  <2>3. r.percent # 100
    BY <2>1
  <2>4. r.text = FALSE
    BY <2>1
  <2>5. r # Failed(TRUE)
    BY <2>4 DEF Failed
  <2> QED
    BY <2>2, <2>3, <2>4, <2>5
<1>2. CASE r \in {NoRow, ParsingEntity}
  BY <1>2 DEF NoRow, ParsingEntity, Failed
<1> QED
  BY <1>1, <1>2 DEF EarlyRows

\* A save as READY leaves the row or makes it READY.
LEMMA ReadySaved ==
  ASSUME NEW d \in Docs, Row(d) \in JobRows, NEW before \in JobRows,
         before = Failed(TRUE) /\ Exists(d) => text[d] = TRUE
  PROVE  Saved(d, before, ReadyEntity) \in {Row(d), ReadyEntity}
<1>1. CASE before = NoRow
  BY <1>1 DEF Saved
<1>2. CASE before # NoRow /\ ~Exists(d)
  <2>1. Row(d) = NoRow
    BY <1>2 DEF Row, Exists, JobRows, NoRow, ParsingEntity, ReadyEntity, Failed
  <2> QED
    BY <1>2, <2>1 DEF Saved
<1>3. CASE before # NoRow /\ Exists(d)
  <2> DEFINE s == Column(status[d], before.status, "ready")
             p == Column(percent[d], before.percent, 100)
             t == Column(text[d], before.text, TRUE)
  <2>0. ReadyEntity.status = "ready" /\ ReadyEntity.percent = 100
        /\ ReadyEntity.text = TRUE
    BY DEF ReadyEntity
  <2>1. Saved(d, before, ReadyEntity) = [status |-> s, percent |-> p, text |-> t]
    BY <1>3, <2>0 DEF Saved
  <2>2. CASE before \in {ParsingEntity, Failed(FALSE)}
    <3>1. s = "ready" /\ p = 100 /\ t = TRUE
      BY <2>2 DEF Column, ParsingEntity, Failed
    <3> QED
      BY <2>1, <3>1 DEF ReadyEntity
  <2>3. CASE before = Failed(TRUE)
    <3>1. s = "ready" /\ p = 100 /\ t = text[d] /\ text[d] = TRUE
      BY <1>3, <2>3 DEF Column, Failed
    <3> QED
      BY <2>1, <3>1 DEF ReadyEntity
  <2>4. CASE before = ReadyEntity
    <3>1. s = status[d] /\ p = percent[d] /\ t = text[d]
      BY <2>4 DEF Column, ReadyEntity
    <3> QED
      BY <2>1, <3>1 DEF Row
  <2> QED
    BY <1>3, <2>2, <2>3, <2>4 DEF JobRows
<1> QED
  BY <1>1, <1>2, <1>3

\* The save of the report leaves the row or fails it, with the text it finds.
LEMMA FailedSaved ==
  ASSUME NEW d \in Docs, Row(d) \in JobRows, NEW before \in JobRows,
         before # Failed(TRUE)
  PROVE  Saved(d, before, Failed(FALSE)) \in {Row(d), Failed(TRUE), Failed(FALSE)}
<1>1. CASE before = NoRow
  BY <1>1 DEF Saved
<1>2. CASE before # NoRow /\ ~Exists(d)
  <2>1. Row(d) = NoRow
    BY <1>2 DEF Row, Exists, JobRows, NoRow, ParsingEntity, ReadyEntity, Failed
  <2> QED
    BY <1>2, <2>1 DEF Saved
<1>3. CASE before # NoRow /\ Exists(d)
  <2> DEFINE s == Column(status[d], before.status, "failed")
             p == Column(percent[d], before.percent, 0)
             t == Column(text[d], before.text, FALSE)
  <2>0. Failed(FALSE).status = "failed" /\ Failed(FALSE).percent = 0
        /\ Failed(FALSE).text = FALSE
    BY DEF Failed
  <2>1. Saved(d, before, Failed(FALSE)) = [status |-> s, percent |-> p, text |-> t]
    BY <1>3, <2>0 DEF Saved
  <2>2. CASE before = Failed(FALSE)
    <3>1. s = status[d] /\ p = percent[d] /\ t = text[d]
      BY <2>2 DEF Column, Failed
    <3> QED
      BY <2>1, <3>1 DEF Row
  <2>3. CASE before = ParsingEntity
    <3>1. s = "failed" /\ p = 0 /\ t = text[d]
      BY <2>3 DEF Column, ParsingEntity
    <3>2. text[d] \in {TRUE, FALSE}
      BY DEF Row, JobRows, NoRow, ParsingEntity, ReadyEntity, Failed
    <3> QED
      BY <2>1, <3>1, <3>2 DEF Failed
  <2>4. CASE before = ReadyEntity
    <3>1. s = "failed" /\ p = 0 /\ t = FALSE
      BY <2>4 DEF Column, ReadyEntity
    <3> QED
      BY <2>1, <3>1 DEF Failed
  <2> QED
    BY <1>3, <2>2, <2>3, <2>4 DEF JobRows
<1> QED
  BY <1>1, <1>2, <1>3

\* The save of the request leaves the row or makes it PARSING.
LEMMA ParsingSaved ==
  ASSUME NEW d \in Docs, Row(d) \in EarlyRows, Exists(d),
         NEW before \in EarlyRows \ {NoRow},
         before = ParsingEntity => Row(d) \in JobRows
  PROVE  Saved(d, before, ParsingEntity) \in EarlyRows \cap JobRows
<1> DEFINE s == Column(status[d], before.status, "parsing")
           p == Column(percent[d], before.percent, 50)
           t == Column(text[d], before.text, FALSE)
<1>0. ParsingEntity.status = "parsing" /\ ParsingEntity.percent = 50
      /\ ParsingEntity.text = FALSE
  BY DEF ParsingEntity
<1>1. Saved(d, before, ParsingEntity) = [status |-> s, percent |-> p, text |-> t]
  BY <1>0 DEF Saved
<1>2. CASE before = ParsingEntity
  <2>1. s = status[d] /\ p = percent[d] /\ t = text[d]
    BY <1>2 DEF Column, ParsingEntity
  <2> QED
    BY <1>1, <1>2, <2>1 DEF Row
<1>3. CASE before # ParsingEntity
  <2>1. before \in [status : {"uploading", "failed"}, percent : {0, 45}, text : {FALSE}]
    BY <1>3 DEF EarlyRows
  <2>2. /\ before.status \in {"uploading", "failed"}
        /\ before.percent \in {0, 45}
        /\ before.text \in {FALSE}
    BY <2>1
  <2>3. text[d] = FALSE
    BY DEF Row, EarlyRows, NoRow, ParsingEntity
  <2>4. s = "parsing" /\ p = 50 /\ t = FALSE
    BY <2>2, <2>3 DEF Column
  <2>5. Saved(d, before, ParsingEntity) = ParsingEntity
    BY <1>1, <2>4 DEF ParsingEntity
  <2> QED
    BY <2>5 DEF EarlyRows, JobRows
<1> QED
  BY <1>2, <1>3

-----------------------------------------------------------------------------
(* The parts of IInv *)

\* Nothing has been uploaded.
LEMMA InitInv == Init => IInv
<1> USE UploadConstants DEF Init, Pending, Terminal, Statuses, InFlight, RunPhases
<1>1. Init => TypeOK /\ WorkerInv
  BY NamedRows DEF TypeOK, WorkerInv
<1>2. Init => JobInv /\ RequestInv
  BY DEF JobInv, RequestInv, Exists
<1>3. Init => \A d \in Docs : Row(d) = NoRow
  <2> SUFFICES ASSUME Init, NEW d \in Docs PROVE Row(d) = NoRow
    OBVIOUS
  <2>1. status[d] = "none" /\ percent[d] = 0 /\ text[d] = FALSE
    OBVIOUS
  <2> QED
    BY <2>1 DEF Row, NoRow
<1>4. Init => RowInv
  <2> SUFFICES ASSUME Init, NEW d \in Docs PROVE RowIs(d)
    BY DEF RowInv
  <2>1. Row(d) = NoRow /\ request[d] = "idle" /\ job[d] = "none"
    BY <1>3
  <2>2. NoRow \in EarlyRows \cup JobRows /\ NoRow \in EarlyRows
    BY DEF EarlyRows
  <2> QED
    BY <2>1, <2>2 DEF RowIs
<1>5. Init => ReportInv
  BY <1>3 DEF ReportInv, ReportedHaveFailed, ReportedOnce, ReportedWithoutText,
     TextIsSpent, SelectedJobRows, SelectedTextStays, Reporting, Saving, NoRow, Failed
<1> QED
  BY <1>1, <1>2, <1>4, <1>5 DEF IInv

\* withDbRetry moves its request on, back, or to the roll-back, and counts the attempts.
LEMMA RetryTyped ==
  ASSUME request \in [Docs -> InFlight \cup {"idle", "accepted", "rejected", "lost"}],
         tries \in [Docs -> 0..MaxTries],
         NEW d \in Docs, NEW from, NEW again \in InFlight, NEW done \in InFlight,
         WithDbRetry(d, from, again, done)
  PROVE  /\ request' \in [Docs -> InFlight \cup {"idle", "accepted", "rejected", "lost"}]
         /\ tries' \in [Docs -> 0..MaxTries]
<1>1. \/ /\ request' = [request EXCEPT ![d] = done]
         /\ tries' = [tries EXCEPT ![d] = 0]
      \/ /\ tries[d] + 1 < MaxTries
         /\ request' = [request EXCEPT ![d] = again]
         /\ tries' = [tries EXCEPT ![d] = @ + 1]
      \/ /\ request' = [request EXCEPT ![d] = "undoing"]
         /\ tries' = [tries EXCEPT ![d] = 0]
  BY DEF WithDbRetry, Advance
<1>2. "undoing" \in InFlight
  BY DEF InFlight
<1>3. request' \in [Docs -> InFlight \cup {"idle", "accepted", "rejected", "lost"}]
  BY <1>1, <1>2
<1>4. tries' \in [Docs -> 0..MaxTries]
  BY <1>1, UploadConstants
<1> QED
  BY <1>3, <1>4

\* Every action keeps the types; a job has an attempt left when one is counted.
LEMMA TypeStep ==
  TypeOK /\ WorkerInv /\ JobInv /\ [Next]_vars => TypeOK'
<1> SUFFICES ASSUME TypeOK, WorkerInv, JobInv, [Next]_vars PROVE TypeOK'
  OBVIOUS
<1> USE UploadConstants DEF TypeOK, WorkerInv, JobInv, Exists, Pending, Terminal,
      Statuses, InFlight, RunPhases, requestVars, rowVars, jobVars, workerVars
<1>1. ASSUME NEW d \in Docs, RequestStep(d) PROVE TypeOK'
  <2>1. CASE RejectFile(d)
    BY <2>1 DEF RejectFile, Advance
  <2>2. CASE CreateRow(d)
    <3>1. SetRow(d, [NoRow EXCEPT !.status = "uploading"])
      BY <2>2 DEF CreateRow
    <3>2. status' \in [Docs -> Statuses] /\ percent' \in [Docs -> {0, 45, 50, 100}]
          /\ text' \in [Docs -> BOOLEAN]
      BY <3>1, NamedRows, RowSet
    <3> QED
      BY <2>2, <3>2 DEF CreateRow, Advance
  <2>3. CASE PutObject(d)
    BY <2>3 DEF PutObject, Advance
  <2>4. CASE UpdateProgress(d)
    <3>1. request' \in [Docs -> InFlight \cup {"idle", "accepted", "rejected", "lost"}]
          /\ tries' \in [Docs -> 0..MaxTries]
      BY <2>4, RetryTyped DEF UpdateProgress
    <3>2. percent' \in [Docs -> {0, 45, 50, 100}] /\ quiet' \in [Docs -> BOOLEAN]
      <4>1. CASE Exists(d) /\ percent[d] < 45
        <5>1. percent' = [percent EXCEPT ![d] = 45] /\ quiet' = [quiet EXCEPT ![d] = FALSE]
          BY <2>4, <4>1 DEF UpdateProgress
        <5> QED
          BY <5>1
      <4>2. CASE ~(Exists(d) /\ percent[d] < 45)
        <5>1. UNCHANGED <<percent, quiet>>
          BY <2>4, <4>2 DEF UpdateProgress
        <5> QED
          BY <5>1
      <4> QED
        BY <4>1, <4>2
    <3> QED
      BY <2>4, <3>1, <3>2 DEF UpdateProgress
  <2>5. CASE SelectForParsing(d)
    BY <2>5, RowTyped DEF SelectForParsing, Advance, Select
  <2>6. CASE SaveParsing(d)
    <3>1. ParsingEntity \in Rows /\ seen[d] \in Rows
      BY NamedRows
    <3>2. WriteRow(d, seen[d], ParsingEntity)
      BY <2>6 DEF SaveParsing
    <3>3. status' \in [Docs -> Statuses] /\ percent' \in [Docs -> {0, 45, 50, 100}]
          /\ text' \in [Docs -> BOOLEAN] /\ quiet' \in [Docs -> BOOLEAN]
      BY <3>1, <3>2, RowWritten
    <3>4. request' \in [Docs -> InFlight \cup {"idle", "accepted", "rejected", "lost"}]
          /\ tries' \in [Docs -> 0..MaxTries]
      BY <2>6, RetryTyped DEF SaveParsing
    <3>5. seen' \in [Docs \cup Workers -> Rows]
      BY <2>6, IdleTyped DEF SaveParsing
    <3> QED
      BY <2>6, <3>3, <3>4, <3>5 DEF SaveParsing
  <2>7. CASE Enqueue(d)
    BY <2>7 DEF Enqueue, Advance
  <2>8. CASE ThrowInRequest(d)
    <3>1. request' \in [Docs -> InFlight \cup {"idle", "accepted", "rejected", "lost"}]
          /\ tries' \in [Docs -> 0..MaxTries]
      BY <2>8 DEF ThrowInRequest, Advance
    <3> QED
      BY <2>8, <3>1, IdleTyped DEF ThrowInRequest
  <2>9. CASE UndoObject(d)
    BY <2>9 DEF UndoObject, Advance
  <2>10. CASE UndoRow(d)
    <3>1. request' \in [Docs -> InFlight \cup {"idle", "accepted", "rejected", "lost"}]
      BY <2>10 DEF UndoRow, Advance
    <3>2. CASE SetRow(d, NoRow) /\ quiet' = [quiet EXCEPT ![d] = FALSE]
      BY <2>10, <3>1, <3>2, NamedRows, RowSet DEF UndoRow
    <3>3. CASE UNCHANGED rowVars
      BY <2>10, <3>1, <3>3 DEF UndoRow
    <3> QED
      BY <2>10, <3>2, <3>3 DEF UndoRow
  <2>11. CASE CrashRequest(d)
    BY <2>11, IdleTyped DEF CrashRequest, Advance
  <2> QED
    BY <1>1, <2>1, <2>2, <2>3, <2>4, <2>5, <2>6, <2>7, <2>8, <2>9, <2>10, <2>11
       DEF RequestStep
<1>2. ASSUME NEW d \in Docs, RequeueStalled(d) \/ Age(d) \/ GoQuiet(d) PROVE TypeOK'
  <2>1. CASE RequeueStalled(d)
    BY <2>1 DEF RequeueStalled
  <2>2. CASE Age(d)
    BY <2>2 DEF Age
  <2>3. CASE GoQuiet(d)
    BY <2>3 DEF GoQuiet
  <2> QED
    BY <1>2, <2>1, <2>2, <2>3
<1>3. ASSUME NEW w \in Workers, WorkerStep(w) PROVE TypeOK'
  <2>1. CASE LoadRow(w)
    BY <2>1, RowTyped DEF LoadRow, Goto, AfterLoad
  <2>2. CASE Extract(w)
    BY <2>2 DEF Extract, Goto
  <2>3. CASE SelectForReady(w)
    BY <2>3, RowTyped DEF SelectForReady, Goto, Select
  <2>4. CASE SaveReady(w)
    <3>1. on[w] \in Docs /\ seen[w] \in Rows /\ ReadyEntity \in Rows
      BY <2>4, NamedRows DEF SaveReady
    <3>2. UNCHANGED rowVars \/ WriteRow(on[w], seen[w], ReadyEntity)
      BY <2>4 DEF SaveReady
    <3>3. status' \in [Docs -> Statuses] /\ percent' \in [Docs -> {0, 45, 50, 100}]
          /\ text' \in [Docs -> BOOLEAN] /\ quiet' \in [Docs -> BOOLEAN]
      BY <3>1, <3>2, RowWritten
    <3>5. seen' \in [Docs \cup Workers -> Rows]
      BY <2>4, IdleTyped DEF SaveReady
    <3> QED
      BY <2>4, <3>3, <3>5 DEF SaveReady
  <2>5. CASE CompleteJob(w)
    BY SMTT(30), <2>5, IdleTyped DEF CompleteJob, HoldsLock
  <2>6. CASE FailJob(w)
    <3>1. CASE GoIdle(w)
      <4>1. CASE HoldsLock(w)
        <5>1. job[on[w]] = "active" /\ attempts[on[w]] + 1 \in 0..MaxAttempts
          BY <2>6, <4>1 DEF FailJob, HoldsLock
        <5>2. attempts' \in [Docs -> 0..MaxAttempts]
          BY <2>6, <4>1, <5>1 DEF FailJob
        <5>3. job' \in [Docs -> {"none", "waiting", "active", "completed", "failed"}]
              /\ lock' \in [Docs -> Workers \cup {None}]
          BY SMTT(30), <2>6, <4>1 DEF FailJob
        <5>4. UNCHANGED <<requestVars, rowVars, old, object, stalls, found>>
          BY <2>6 DEF FailJob
        <5> QED
          BY <3>1, <5>2, <5>3, <5>4, IdleTyped
      <4>2. CASE ~HoldsLock(w)
        BY <2>6, <3>1, <4>2, IdleTyped DEF FailJob
      <4> QED
        BY <4>1, <4>2
    <3>2. CASE phase' = [phase EXCEPT ![w] = "failing"] /\ UNCHANGED <<on, copy, seen>>
      BY SMTT(30), <2>6, <3>2 DEF FailJob, HoldsLock, WillRetry
    <3> QED
      BY <2>6, <3>1, <3>2 DEF FailJob
  <2>7. CASE ReadForReport(w)
    <3>1. CASE GoIdle(w)
      BY <2>7, <3>1, IdleTyped DEF ReadForReport
    <3>2. CASE /\ phase' = [phase EXCEPT ![w] = "reporting"]
               /\ copy' = [copy EXCEPT ![w] = Row(on[w])]
               /\ UNCHANGED <<on, seen>>
      BY <2>7, <3>2, RowTyped DEF ReadForReport
    <3> QED
      BY <2>7, <3>1, <3>2 DEF ReadForReport
  <2>8. CASE SelectForReport(w)
    BY <2>8, RowTyped DEF SelectForReport, Goto, Select
  <2>9. CASE ReportFailed(w)
    <3>1. on[w] \in Docs /\ copy[w] \in Rows /\ seen[w] \in Rows
      BY <2>9 DEF ReportFailed
    <3>2. FailedEntity(w) \in Rows
      BY <3>1 DEF FailedEntity, Rows
    <3>3. UNCHANGED rowVars \/ WriteRow(on[w], seen[w], FailedEntity(w))
      BY <2>9 DEF ReportFailed
    <3>4. status' \in [Docs -> Statuses] /\ percent' \in [Docs -> {0, 45, 50, 100}]
          /\ text' \in [Docs -> BOOLEAN] /\ quiet' \in [Docs -> BOOLEAN]
      BY <3>1, <3>2, <3>3, RowWritten
    <3> QED
      BY <2>9, <3>4, IdleTyped DEF ReportFailed
  <2> QED
    BY <1>3, <2>1, <2>2, <2>3, <2>4, <2>5, <2>6, <2>7, <2>8, <2>9 DEF WorkerStep
<1>4. ASSUME NEW w \in Workers, WorkerFault(w) PROVE TypeOK'
  <2>1. CASE ThrowInJob(w)
    BY <2>1, IdleTyped DEF ThrowInJob
  <2>2. CASE CrashWorker(w)
    BY <2>2, IdleTyped DEF CrashWorker
  <2>3. CASE LoseLock(w)
    BY <2>3 DEF LoseLock, HoldsLock
  <2> QED
    BY <1>4, <2>1, <2>2, <2>3 DEF WorkerFault
<1>5. ASSUME NEW w \in Workers, NEW d \in Docs, TakeJob(w, d) PROVE TypeOK'
  BY <1>5 DEF TakeJob, Goto
<1>6. ASSUME NEW s \in Sweeps, SweepStep(s) PROVE TypeOK'
  <2>1. CASE FindStuck(s)
    BY <2>1 DEF FindStuck, Stuck
  <2>2. CASE MarkStuckFailed(s)
    BY <2>2 DEF MarkStuckFailed, Reaped, FailRows
  <2>3. CASE AbandonSweep(s)
    BY <2>3 DEF AbandonSweep
  <2> QED
    BY <1>6, <2>1, <2>2, <2>3 DEF SweepStep
<1>7. CASE Recover
  BY <1>7 DEF Recover, FailRows
<1>8. CASE UNCHANGED vars
  BY <1>8 DEF vars
<1> QED
  BY <1>1, <1>2, <1>3, <1>4, <1>5, <1>6, <1>7, <1>8 DEF Next

\* What a worker has loaded does not change under it.
LEMMA WorkerStepKeeps ==
  TypeOK /\ WorkerInv /\ [Next]_vars => WorkerInv'
<1> SUFFICES ASSUME TypeOK, WorkerInv, [Next]_vars PROVE WorkerInv'
  OBVIOUS
<1> USE UploadConstants DEF TypeOK, WorkerInv, Pending, Terminal, Statuses,
      InFlight, RunPhases, requestVars, rowVars, jobVars, workerVars
<1>1. ASSUME NEW d \in Docs, RequestStep(d) PROVE WorkerInv'
  <2>1. CASE RejectFile(d)
    BY <2>1 DEF RejectFile, Advance
  <2>2. CASE CreateRow(d)
    BY <2>2 DEF CreateRow, Advance
  <2>3. CASE PutObject(d)
    BY <2>3 DEF PutObject, Advance
  <2>4. CASE UpdateProgress(d)
    BY <2>4 DEF UpdateProgress, WithDbRetry, Advance
  <2>5. CASE SelectForParsing(d)
    BY <2>5 DEF SelectForParsing, Advance, Select
  <2>6. CASE SaveParsing(d)
    BY <2>6 DEF SaveParsing, WithDbRetry, Advance, Forget
  <2>7. CASE Enqueue(d)
    BY <2>7 DEF Enqueue, Advance
  <2>8. CASE ThrowInRequest(d)
    BY <2>8 DEF ThrowInRequest, Advance, Forget
  <2>9. CASE UndoObject(d)
    BY <2>9 DEF UndoObject, Advance
  <2>10. CASE UndoRow(d)
    BY <2>10 DEF UndoRow, Advance
  <2>11. CASE CrashRequest(d)
    BY <2>11 DEF CrashRequest, Advance, Forget
  <2> QED
    BY <1>1, <2>1, <2>2, <2>3, <2>4, <2>5, <2>6, <2>7, <2>8, <2>9, <2>10, <2>11
       DEF RequestStep
<1>2. ASSUME NEW d \in Docs, RequeueStalled(d) \/ Age(d) \/ GoQuiet(d)
      PROVE  WorkerInv'
  <2>1. CASE RequeueStalled(d)
    BY <2>1 DEF RequeueStalled
  <2>2. CASE Age(d)
    BY <2>2 DEF Age
  <2>3. CASE GoQuiet(d)
    BY <2>3 DEF GoQuiet
  <2> QED
    BY <1>2, <2>1, <2>2, <2>3
<1>3. ASSUME NEW w \in Workers, WorkerStep(w) PROVE WorkerInv'
  <2>1. CASE LoadRow(w)
    BY <2>1 DEF LoadRow, Goto, AfterLoad, Row
  <2>2. CASE Extract(w)
    BY <2>2 DEF Extract, Goto
  <2>3. CASE SelectForReady(w)
    BY <2>3 DEF SelectForReady, Goto, Select
  <2>4. CASE SaveReady(w)
    BY <2>4 DEF SaveReady, Forget
  <2>5. CASE CompleteJob(w)
    BY <2>5 DEF CompleteJob, GoIdle, Forget, HoldsLock
  <2>6. CASE FailJob(w)
    BY <2>6 DEF FailJob, GoIdle, Forget, HoldsLock, WillRetry
  <2>7. CASE ReadForReport(w)
    BY <2>7 DEF ReadForReport, MayReport, GoIdle, Forget, Row
  <2>8. CASE SelectForReport(w)
    BY <2>8 DEF SelectForReport, Goto, Select
  <2>9. CASE ReportFailed(w)
    BY <2>9 DEF ReportFailed, GoIdle, Forget
  <2> QED
    BY <1>3, <2>1, <2>2, <2>3, <2>4, <2>5, <2>6, <2>7, <2>8, <2>9 DEF WorkerStep
<1>4. ASSUME NEW w \in Workers, WorkerFault(w) PROVE WorkerInv'
  <2>1. CASE ThrowInJob(w)
    BY <2>1 DEF ThrowInJob, Forget
  <2>2. CASE CrashWorker(w)
    BY <2>2 DEF CrashWorker, GoIdle, Forget
  <2>3. CASE LoseLock(w)
    BY <2>3 DEF LoseLock, HoldsLock
  <2> QED
    BY <1>4, <2>1, <2>2, <2>3 DEF WorkerFault
<1>5. ASSUME NEW w \in Workers, NEW d \in Docs, TakeJob(w, d) PROVE WorkerInv'
  BY <1>5 DEF TakeJob, Goto
<1>6. ASSUME NEW s \in Sweeps, SweepStep(s) PROVE WorkerInv'
  <2>1. CASE FindStuck(s)
    BY <2>1 DEF FindStuck, Stuck
  <2>2. CASE MarkStuckFailed(s)
    BY <2>2 DEF MarkStuckFailed, Reaped
  <2>3. CASE AbandonSweep(s)
    BY <2>3 DEF AbandonSweep
  <2> QED
    BY <1>6, <2>1, <2>2, <2>3 DEF SweepStep
<1>7. CASE Recover
  BY <1>7 DEF Recover
<1>8. CASE UNCHANGED vars
  BY <1>8 DEF vars
<1> QED
  BY <1>1, <1>2, <1>3, <1>4, <1>5, <1>6, <1>7, <1>8 DEF Next

\* A job is made once, by a request at the queue.
LEMMA JobStep ==
  TypeOK /\ WorkerInv /\ JobInv /\ [Next]_vars => JobInv'
<1> SUFFICES ASSUME TypeOK, WorkerInv, JobInv, [Next]_vars PROVE JobInv'
  OBVIOUS
<1> USE UploadConstants DEF TypeOK, WorkerInv, JobInv, Pending, Terminal, Statuses,
      InFlight, RunPhases, requestVars, rowVars, jobVars, workerVars
<1>1. ASSUME NEW d \in Docs, RequestStep(d) PROVE JobInv'
  <2>1. CASE RejectFile(d)
    BY <2>1 DEF RejectFile, Advance
  <2>2. CASE CreateRow(d)
    BY <2>2 DEF CreateRow, Advance
  <2>3. CASE PutObject(d)
    BY <2>3 DEF PutObject, Advance
  <2>4. CASE UpdateProgress(d)
    BY <2>4 DEF UpdateProgress, WithDbRetry, Advance
  <2>5. CASE SelectForParsing(d)
    BY <2>5 DEF SelectForParsing, Advance, Select
  <2>6. CASE SaveParsing(d)
    BY SMTT(30), <2>6 DEF SaveParsing, WithDbRetry, Advance, Forget
  <2>7. CASE Enqueue(d)
    BY <2>7 DEF Enqueue, Advance
  <2>8. CASE ThrowInRequest(d)
    BY <2>8 DEF ThrowInRequest, Advance, Forget
  <2>9. CASE UndoObject(d)
    BY <2>9 DEF UndoObject, Advance
  <2>10. CASE UndoRow(d)
    BY <2>10 DEF UndoRow, Advance
  <2>11. CASE CrashRequest(d)
    BY <2>11 DEF CrashRequest, Advance, Forget
  <2> QED
    BY <1>1, <2>1, <2>2, <2>3, <2>4, <2>5, <2>6, <2>7, <2>8, <2>9, <2>10, <2>11
       DEF RequestStep
<1>2. ASSUME NEW d \in Docs, RequeueStalled(d) \/ Age(d) \/ GoQuiet(d) PROVE JobInv'
  <2>1. CASE RequeueStalled(d)
    BY <2>1 DEF RequeueStalled
  <2>2. CASE Age(d)
    BY <2>2 DEF Age
  <2>3. CASE GoQuiet(d)
    BY <2>3 DEF GoQuiet
  <2> QED
    BY <1>2, <2>1, <2>2, <2>3
<1>3. ASSUME NEW w \in Workers, WorkerStep(w) PROVE JobInv'
  <2>1. CASE LoadRow(w)
    BY <2>1 DEF LoadRow, Goto, AfterLoad
  <2>2. CASE Extract(w)
    BY <2>2 DEF Extract, Goto
  <2>3. CASE SelectForReady(w)
    BY <2>3 DEF SelectForReady, Goto, Select
  <2>4. CASE SaveReady(w)
    BY <2>4 DEF SaveReady, Forget
  <2>5. CASE CompleteJob(w)
    BY <2>5 DEF CompleteJob, GoIdle, Forget, HoldsLock
  <2>6. CASE FailJob(w)
    <3>1. on[w] \in Docs /\ on' \in [Workers -> Docs \cup {None}]
          /\ \A v \in Workers : on'[v] \in {on[v], None}
      BY SMTT(30), <2>6 DEF FailJob, GoIdle
    <3>2. HoldsLock(w) => job[on[w]] = "active"
      BY <3>1 DEF HoldsLock
    <3>3. CASE HoldsLock(w)
      BY SMTT(30), <2>6, <3>1, <3>2, <3>3 DEF FailJob, WillRetry
    <3>4. CASE ~HoldsLock(w)
      BY <2>6, <3>1, <3>4 DEF FailJob
    <3> QED
      BY <3>3, <3>4
  <2>7. CASE ReadForReport(w)
    BY <2>7 DEF ReadForReport, MayReport, GoIdle, Forget
  <2>8. CASE SelectForReport(w)
    BY <2>8 DEF SelectForReport, Goto, Select
  <2>9. CASE ReportFailed(w)
    BY <2>9 DEF ReportFailed, GoIdle, Forget
  <2> QED
    BY <1>3, <2>1, <2>2, <2>3, <2>4, <2>5, <2>6, <2>7, <2>8, <2>9 DEF WorkerStep
<1>4. ASSUME NEW w \in Workers, WorkerFault(w) PROVE JobInv'
  <2>1. CASE ThrowInJob(w)
    BY <2>1 DEF ThrowInJob, Forget
  <2>2. CASE CrashWorker(w)
    BY <2>2 DEF CrashWorker, GoIdle, Forget
  <2>3. CASE LoseLock(w)
    BY <2>3 DEF LoseLock, HoldsLock
  <2> QED
    BY <1>4, <2>1, <2>2, <2>3 DEF WorkerFault
<1>5. ASSUME NEW w \in Workers, NEW d \in Docs, TakeJob(w, d) PROVE JobInv'
  BY <1>5 DEF TakeJob, Goto
<1>6. ASSUME NEW s \in Sweeps, SweepStep(s) PROVE JobInv'
  <2>1. CASE FindStuck(s)
    BY <2>1 DEF FindStuck
  <2>2. CASE MarkStuckFailed(s)
    BY <2>2 DEF MarkStuckFailed, Reaped
  <2>3. CASE AbandonSweep(s)
    BY <2>3 DEF AbandonSweep
  <2> QED
    BY <1>6, <2>1, <2>2, <2>3 DEF SweepStep
<1>7. CASE Recover
  BY <1>7 DEF Recover
<1>8. CASE UNCHANGED vars
  BY <1>8 DEF vars
<1> QED
  BY <1>1, <1>2, <1>3, <1>4, <1>5, <1>6, <1>7, <1>8 DEF Next

\* Only a request that gives up takes its row and its object away.
LEMMA RequestStepKeeps ==
  TypeOK /\ WorkerInv /\ JobInv /\ RequestInv /\ [Next]_vars => RequestInv'
<1> SUFFICES ASSUME TypeOK, WorkerInv, JobInv, RequestInv, [Next]_vars PROVE
      RequestInv'
  OBVIOUS
<1> USE UploadConstants DEF TypeOK, WorkerInv, JobInv, RequestInv, Exists, Pending,
      Terminal, Statuses, InFlight, RunPhases, requestVars, rowVars, jobVars, workerVars
<1>1. ASSUME NEW d \in Docs, RequestStep(d) PROVE RequestInv'
  <2>1. CASE RejectFile(d)
    BY <2>1 DEF RejectFile, Advance
  <2>2. CASE CreateRow(d)
    BY <2>2 DEF CreateRow, Advance, SetRow
  <2>3. CASE PutObject(d)
    BY <2>3 DEF PutObject, Advance
  <2>4. CASE UpdateProgress(d)
    BY <2>4 DEF UpdateProgress, WithDbRetry, Advance
  <2>5. CASE SelectForParsing(d)
    BY <2>5 DEF SelectForParsing, Advance, Select
  <2>6. CASE SaveParsing(d)
    <3>1. Exists(d) /\ ParsingEntity.status # "none"
      BY <2>6 DEF SaveParsing, WithDbRetry, Advance, ParsingEntity
    <3>2. WriteRow(d, seen[d], ParsingEntity)
      BY <2>6 DEF SaveParsing
    <3>3. \A e \in Docs : status[e] # "none" => status'[e] # "none"
      BY <3>1, <3>2, SaveKeepsRow
    <3>4. \A e \in Docs \ {d} : status'[e] = status[e]
      BY <3>1, <3>2, SaveKeepsRow
    <3> QED
      BY <2>6, <3>3, <3>4 DEF SaveParsing, WithDbRetry, Advance
  <2>7. CASE Enqueue(d)
    BY <2>7 DEF Enqueue, Advance
  <2>8. CASE ThrowInRequest(d)
    BY <2>8 DEF ThrowInRequest, Advance, Forget
  <2>9. CASE UndoObject(d)
    BY <2>9 DEF UndoObject, Advance
  <2>10. CASE UndoRow(d)
    BY <2>10 DEF UndoRow, Advance, SetRow
  <2>11. CASE CrashRequest(d)
    BY <2>11 DEF CrashRequest, Advance, Forget
  <2> QED
    BY <1>1, <2>1, <2>2, <2>3, <2>4, <2>5, <2>6, <2>7, <2>8, <2>9, <2>10, <2>11
       DEF RequestStep
<1>2. ASSUME NEW d \in Docs, RequeueStalled(d) \/ Age(d) \/ GoQuiet(d)
      PROVE  RequestInv'
  <2>1. CASE RequeueStalled(d)
    BY <2>1 DEF RequeueStalled
  <2>2. CASE Age(d)
    BY <2>2 DEF Age
  <2>3. CASE GoQuiet(d)
    BY <2>3 DEF GoQuiet
  <2> QED
    BY <1>2, <2>1, <2>2, <2>3
<1>3. ASSUME NEW w \in Workers, WorkerStep(w) PROVE RequestInv'
  <2>1. CASE LoadRow(w)
    BY <2>1 DEF LoadRow, Goto, AfterLoad
  <2>2. CASE Extract(w)
    BY <2>2 DEF Extract, Goto
  <2>3. CASE SelectForReady(w)
    BY <2>3 DEF SelectForReady, Goto, Select
  <2>4. CASE SaveReady(w)
    <3>1. on[w] \in Docs /\ ReadyEntity.status # "none" /\ request[on[w]] # "idle"
      BY <2>4 DEF SaveReady, ReadyEntity
    <3>2. UNCHANGED rowVars \/ WriteRow(on[w], seen[w], ReadyEntity)
      BY <2>4 DEF SaveReady
    <3>3. \A d \in Docs : status[d] # "none" => status'[d] # "none"
      BY <3>1, <3>2, SaveKeepsRow
    <3>4. \A d \in Docs \ {on[w]} : status'[d] = status[d]
      BY <3>1, <3>2, SaveKeepsRow
    <3> QED
      BY <2>4, <3>1, <3>3, <3>4 DEF SaveReady
  <2>5. CASE CompleteJob(w)
    BY <2>5 DEF CompleteJob, GoIdle, Forget, HoldsLock
  <2>6. CASE FailJob(w)
    BY <2>6 DEF FailJob, GoIdle, Forget, HoldsLock, WillRetry
  <2>7. CASE ReadForReport(w)
    BY <2>7 DEF ReadForReport, MayReport, GoIdle, Forget
  <2>8. CASE SelectForReport(w)
    BY <2>8 DEF SelectForReport, Goto, Select
  <2>9. CASE ReportFailed(w)
    <3>1. on[w] \in Docs /\ FailedEntity(w).status # "none" /\ request[on[w]] # "idle"
      BY <2>9 DEF ReportFailed, FailedEntity
    <3>2. UNCHANGED rowVars \/ WriteRow(on[w], seen[w], FailedEntity(w))
      BY <2>9 DEF ReportFailed
    <3>3. \A d \in Docs : status[d] # "none" => status'[d] # "none"
      BY <3>1, <3>2, SaveKeepsRow
    <3>4. \A d \in Docs \ {on[w]} : status'[d] = status[d]
      BY <3>1, <3>2, SaveKeepsRow
    <3> QED
      BY <2>9, <3>1, <3>3, <3>4 DEF ReportFailed
  <2> QED
    BY <1>3, <2>1, <2>2, <2>3, <2>4, <2>5, <2>6, <2>7, <2>8, <2>9 DEF WorkerStep
<1>4. ASSUME NEW w \in Workers, WorkerFault(w) PROVE RequestInv'
  <2>1. CASE ThrowInJob(w)
    BY <2>1 DEF ThrowInJob, Forget
  <2>2. CASE CrashWorker(w)
    BY <2>2 DEF CrashWorker, GoIdle, Forget
  <2>3. CASE LoseLock(w)
    BY <2>3 DEF LoseLock, HoldsLock
  <2> QED
    BY <1>4, <2>1, <2>2, <2>3 DEF WorkerFault
<1>5. ASSUME NEW w \in Workers, NEW d \in Docs, TakeJob(w, d) PROVE RequestInv'
  BY <1>5 DEF TakeJob, Goto
<1>6. ASSUME NEW s \in Sweeps, SweepStep(s) PROVE RequestInv'
  <2>1. CASE FindStuck(s)
    BY <2>1 DEF FindStuck
  <2>2. CASE MarkStuckFailed(s)
    BY <2>2 DEF MarkStuckFailed, Reaped, FailRows
  <2>3. CASE AbandonSweep(s)
    BY <2>3 DEF AbandonSweep
  <2> QED
    BY <1>6, <2>1, <2>2, <2>3 DEF SweepStep
<1>7. CASE Recover
  BY <1>7 DEF Recover, FailRows
<1>8. CASE UNCHANGED vars
  BY <1>8 DEF vars
<1> QED
  BY <1>1, <1>2, <1>3, <1>4, <1>5, <1>6, <1>7, <1>8 DEF Next

\* What a worker's save makes of the row it works for.
LEMMA SaveReadyWrites ==
  ASSUME IInv, NEW w \in Workers, NEW d \in Docs, d = on[w], SaveReady(w),
         WriteRow(d, seen[w], ReadyEntity)
  PROVE  /\ Row(d)' \in {Row(d), ReadyEntity}
         /\ \A e \in Docs \ {d} : Row(e)' = Row(e)
<1>1. TypeOK /\ WorkerInv /\ JobInv /\ RowInv /\ ReportInv
  BY DEF IInv
<1>2. phase[w] = "writing" /\ job[d] # "none"
  BY <1>1 DEF SaveReady, JobInv
<1>3. seen[w] \in JobRows /\ (seen[w] = Failed(TRUE) /\ Exists(d) => text[d] = TRUE)
  BY <1>1, <1>2 DEF ReportInv, SelectedJobRows, SelectedTextStays, Saving, HoldsText,
     TypeOK
<1>4. Row(d) \in JobRows
  BY <1>1, <1>2 DEF RowInv, RowIs
<1>5. seen[w] \in Rows /\ ReadyEntity \in Rows
  BY <1>1, NamedRows DEF TypeOK
<1>6. Saved(d, seen[w], ReadyEntity) \in {Row(d), ReadyEntity}
  BY <1>3, <1>4, ReadySaved
<1> QED
  BY <1>1, <1>5, <1>6, RowWritten

\* And the save of its report.
LEMMA ReportFailedWrites ==
  ASSUME IInv, NEW w \in Workers, NEW d \in Docs, d = on[w], ReportFailed(w),
         WriteRow(d, seen[w], FailedEntity(w))
  PROVE  /\ Row(d)' \in {Row(d), Failed(TRUE), Failed(FALSE)}
         /\ \A e \in Docs \ {d} : Row(e)' = Row(e)
<1>1. TypeOK /\ WorkerInv /\ JobInv /\ RowInv /\ ReportInv
  BY DEF IInv
<1>2. phase[w] = "marking" /\ job[d] # "none"
  BY <1>1 DEF ReportFailed, JobInv
<1>3. FailedEntity(w) = Failed(FALSE)
  <2>1. copy[w] \in Rows /\ copy[w].text \in BOOLEAN /\ ~copy[w].text
    BY <1>1, <1>2, NamedRows DEF ReportInv, ReportedWithoutText, TypeOK
  <2>2. copy[w].text = FALSE
    BY <2>1
  <2> QED
    BY <2>2 DEF FailedEntity, Failed
<1>4. seen[w] \in JobRows /\ seen[w] # Failed(TRUE)
  BY <1>1, <1>2 DEF ReportInv, SelectedJobRows, SelectedTextStays, Saving, HoldsText,
     Spent, Reporting
<1>5. Row(d) \in JobRows
  BY <1>1, <1>2 DEF RowInv, RowIs
<1>6. seen[w] \in Rows /\ Failed(FALSE) \in Rows
  BY <1>1 DEF TypeOK, Rows, Failed, Statuses, Terminal
<1>7. Saved(d, seen[w], Failed(FALSE)) \in {Row(d), Failed(TRUE), Failed(FALSE)}
  BY <1>4, <1>5, FailedSaved
<1>8. WriteRow(d, seen[w], Failed(FALSE))
  BY <1>3
<1>9. /\ Row(d)' = Saved(d, seen[w], Failed(FALSE))
      /\ \A e \in Docs \ {d} : Row(e)' = Row(e)
  BY <1>1, <1>6, <1>8, RowWritten
<1> QED
  BY <1>7, <1>9

\* A document whose row stays and whose request does not come to a save keeps RowIs.
LEMMA RowKept ==
  ASSUME NEW d \in Docs, RowIs(d), Row(d)' = Row(d),
         job[d] = "none" <=> job'[d] = "none",
         request'[d] \in {"queueing", "writing"} =>
            request'[d] = request[d] /\ seen'[d] = seen[d]
  PROVE  RowIs(d)'
  BY DEF RowIs

\* The same of every row, when no row is written.
LEMMA RowsKept ==
  ASSUME RowInv, UNCHANGED <<status, percent, text>>,
         \A d \in Docs : job[d] = "none" <=> job'[d] = "none",
         \A d \in Docs : request'[d] \in {"queueing", "writing"} =>
                            request'[d] = request[d] /\ seen'[d] = seen[d]
  PROVE  RowInv'
<1> SUFFICES ASSUME NEW d \in Docs PROVE RowIs(d)'
  BY DEF RowInv
<1>1. Row(d)' = Row(d)
  BY DEF Row
<1> QED
  BY <1>1, RowKept DEF RowInv

\* A row that is written to one of both kinds, with no save of the request open.
LEMMA RowMade ==
  ASSUME NEW d \in Docs,
         Row(d)' \in EarlyRows \/ job'[d] # "none",
         Row(d)' \in JobRows \/ job'[d] = "none",
         request'[d] = "queueing" => Row(d)' \in JobRows,
         request'[d] # "writing"
  PROVE  RowIs(d)'
  BY DEF RowIs

\* Saves write rows of the two kinds, and before the job only those there are then.
LEMMA RowStep ==
  IInv /\ [Next]_vars => RowInv'
<1> SUFFICES ASSUME IInv, [Next]_vars PROVE RowInv'
  OBVIOUS
<1>0. TypeOK /\ WorkerInv /\ JobInv /\ RequestInv /\ RowInv /\ ReportInv
  BY DEF IInv
<1> USE UploadConstants DEF TypeOK, WorkerInv, JobInv, InFlight, RunPhases, requestVars,
      rowVars, jobVars, workerVars

<1>1. ASSUME NEW d \in Docs, RequestStep(d) PROVE RowInv'
  <2>1. CASE RejectFile(d)
    BY <2>1, <1>0, RowsKept DEF RejectFile, Advance
  <2>2. CASE CreateRow(d)
    <3>1. job[d] = "none" /\ job' = job /\ seen' = seen
          /\ request'[d] \in {"storing", "rejected"}
      BY <1>0, <2>2 DEF CreateRow, Advance
    <3>2. SetRow(d, [NoRow EXCEPT !.status = "uploading"])
      BY <2>2 DEF CreateRow
    <3>3. Row(d)' = [NoRow EXCEPT !.status = "uploading"]
          /\ \A e \in Docs \ {d} : Row(e)' = Row(e)
      BY <1>0, <3>2, NamedRows, RowSet
    <3>4. Row(d)' \in EarlyRows
      BY <3>3 DEF EarlyRows, NoRow
    <3>5. \A e \in Docs \ {d} : Row(e)' = Row(e) /\ job'[e] = job[e]
                                /\ request'[e] = request[e] /\ seen'[e] = seen[e]
      BY <1>0, <2>2, <3>1, <3>3 DEF CreateRow, Advance
    <3>6. \A e \in Docs \ {d} : RowIs(e)'
      BY <1>0, <3>5, RowKept DEF RowInv
    <3>7. RowIs(d)'
      BY <3>1, <3>4, RowMade
    <3> QED
      BY <3>6, <3>7 DEF RowInv
  <2>3. CASE PutObject(d)
    BY <2>3, <1>0, RowsKept DEF PutObject, Advance
  <2>4. CASE UpdateProgress(d)
    <3>1. job[d] = "none" /\ job' = job /\ seen' = seen /\ Exists(d)
          /\ request'[d] \in {"progress", "parsing", "undoing"}
      BY <1>0, <2>4 DEF UpdateProgress, WithDbRetry, Advance, RequestInv
    <3>2. Row(d)' \in EarlyRows
      <4>1. Row(d) \in EarlyRows
        BY <1>0, <3>1 DEF RowInv, RowIs
      <4>2. CASE percent[d] < 45
        <5>1. Row(d)' = [status |-> status[d], percent |-> 45, text |-> text[d]]
          BY <1>0, <2>4, <3>1, <4>2 DEF UpdateProgress, Row
        <5>2. status[d] # "none" /\ percent[d] # 50
          BY <3>1, <4>2 DEF Exists
        <5>3. status[d] \in {"uploading", "failed"} /\ text[d] = FALSE
          BY <4>1, <5>2 DEF Row, EarlyRows, NoRow, ParsingEntity
        <5>4. Row(d)' = [status |-> status[d], percent |-> 45, text |-> FALSE]
          BY <5>1, <5>3
        <5>5. Row(d)' \in [status : {"uploading", "failed"}, percent : {0, 45},
                           text : {FALSE}]
          BY <5>3, <5>4
        <5> QED
          BY <5>5 DEF EarlyRows
      <4>3. CASE ~(percent[d] < 45)
        <5>1. Row(d)' = Row(d)
          BY <2>4, <4>3 DEF UpdateProgress, Row
        <5> QED
          BY <4>1, <5>1
      <4> QED
        BY <4>2, <4>3
    <3>3. percent' \in [Docs -> {0, 45, 50, 100}] /\ UNCHANGED <<status, text>>
          /\ \A e \in Docs \ {d} : percent'[e] = percent[e] /\ request'[e] = request[e]
      BY <1>0, <2>4 DEF UpdateProgress, WithDbRetry, Advance
    <3>4. \A e \in Docs \ {d} : Row(e)' = Row(e) /\ job'[e] = job[e]
                                /\ request'[e] = request[e] /\ seen'[e] = seen[e]
      BY <3>1, <3>3 DEF Row
    <3>5. \A e \in Docs \ {d} : RowIs(e)'
      BY <1>0, <3>4, RowKept DEF RowInv
    <3>6. RowIs(d)'
      BY <3>1, <3>2, RowMade
    <3> QED
      BY <3>5, <3>6 DEF RowInv
  <2>5. CASE SelectForParsing(d)
    <3>1. job[d] = "none" /\ job' = job /\ Exists(d) /\ seen'[d] = Row(d)
          /\ UNCHANGED <<status, percent, text>>
      BY <1>0, <2>5 DEF SelectForParsing, Advance, Select, RequestInv
    <3>2. \A e \in Docs : Row(e)' = Row(e)
      BY <3>1 DEF Row
    <3>3. \A e \in Docs \ {d} : job'[e] = job[e] /\ request'[e] = request[e]
                                 /\ seen'[e] = seen[e]
      BY <1>0, <2>5, <3>1 DEF SelectForParsing, Advance, Select
    <3>4. \A e \in Docs \ {d} : RowIs(e)'
      BY <1>0, <3>2, <3>3, RowKept DEF RowInv
    <3>5. Row(d) \in EarlyRows /\ Row(d) # NoRow
      BY <1>0, <3>1 DEF RowInv, RowIs, Exists, Row, NoRow
    <3>6. request'[d] = "writing"
      BY <1>0, <2>5 DEF SelectForParsing, Advance
    <3>7. RowIs(d)'
      BY <3>1, <3>2, <3>5, <3>6
         DEF RowIs, EarlyRows, JobRows, NoRow, ParsingEntity, ReadyEntity, Failed
    <3> QED
      BY <3>4, <3>7 DEF RowInv
  <2>6. CASE SaveParsing(d)
    <3>1. job[d] = "none" /\ job' = job /\ Exists(d) /\ request[d] = "writing"
          /\ request'[d] \in {"parsing", "queueing", "undoing"}
      BY <1>0, <2>6 DEF SaveParsing, WithDbRetry, Advance, RequestInv
    <3>2. WriteRow(d, seen[d], ParsingEntity) /\ seen[d] \in Rows /\ ParsingEntity \in Rows
      BY <1>0, <2>6, NamedRows DEF SaveParsing
    <3>3. Row(d)' = Saved(d, seen[d], ParsingEntity)
          /\ \A e \in Docs \ {d} : Row(e)' = Row(e)
      BY <1>0, <3>2, RowWritten
    <3>4. Row(d)' \in EarlyRows \cap JobRows
      <4>1. Row(d) \in EarlyRows /\ seen[d] \in EarlyRows \ {NoRow}
            /\ (seen[d] = ParsingEntity => Row(d) \in JobRows)
        BY <1>0, <3>1 DEF RowInv, RowIs
      <4> QED
        BY <3>1, <3>3, <4>1, ParsingSaved
    <3>5. \A e \in Docs \ {d} : job'[e] = job[e] /\ request'[e] = request[e]
                                 /\ seen'[e] = seen[e]
      BY <1>0, <2>6, <3>1 DEF SaveParsing, WithDbRetry, Advance, Forget
    <3>6. \A e \in Docs \ {d} : RowIs(e)'
      BY <1>0, <3>3, <3>5, RowKept DEF RowInv
    <3>7. RowIs(d)'
      BY <3>1, <3>4, RowMade
    <3> QED
      BY <3>6, <3>7 DEF RowInv
  <2>7. CASE Enqueue(d)
    <3>1. request[d] = "queueing" /\ request'[d] \in {"accepted", "undoing"}
          /\ job'[d] = "waiting" /\ UNCHANGED <<status, percent, text>>
      BY <1>0, <2>7 DEF Enqueue, Advance
    <3>2. \A e \in Docs : Row(e)' = Row(e)
      BY <3>1 DEF Row
    <3>3. \A e \in Docs \ {d} : job'[e] = job[e] /\ request'[e] = request[e]
                                 /\ seen'[e] = seen[e]
      BY <1>0, <2>7 DEF Enqueue, Advance
    <3>4. \A e \in Docs \ {d} : RowIs(e)'
      BY <1>0, <3>2, <3>3, RowKept DEF RowInv
    <3>5. Row(d)' \in JobRows
      BY <1>0, <3>1, <3>2 DEF RowInv, RowIs
    <3>6. RowIs(d)'
      BY <3>1, <3>5, RowMade
    <3> QED
      BY <3>4, <3>6 DEF RowInv
  <2>8. CASE ThrowInRequest(d)
    BY <2>8, <1>0, RowsKept DEF ThrowInRequest, Advance, Forget
  <2>9. CASE UndoObject(d)
    BY <2>9, <1>0, RowsKept DEF UndoObject, Advance
  <2>10. CASE UndoRow(d)
    <3>1. job' = job /\ seen' = seen /\ request'[d] = "rejected"
          /\ \A e \in Docs \ {d} : request'[e] = request[e]
      BY <1>0, <2>10 DEF UndoRow, Advance
    <3>2. CASE SetRow(d, NoRow)
      <4>1. Row(d)' = NoRow /\ \A e \in Docs \ {d} : Row(e)' = Row(e)
        BY <1>0, <3>2, NamedRows, RowSet
      <4>2. \A e \in Docs \ {d} : RowIs(e)'
        BY <1>0, <3>1, <4>1, RowKept DEF RowInv
      <4>3. Row(d)' \in EarlyRows \cap JobRows
        BY <4>1 DEF EarlyRows, JobRows
      <4>4. RowIs(d)'
        BY <3>1, <4>3, RowMade
      <4> QED
        BY <4>2, <4>4 DEF RowInv
    <3>3. CASE UNCHANGED rowVars
      BY <1>0, <3>1, <3>3, RowsKept
    <3> QED
      BY <2>10, <3>2, <3>3 DEF UndoRow
  <2>11. CASE CrashRequest(d)
    BY <2>11, <1>0, RowsKept DEF CrashRequest, Advance, Forget
  <2> QED
    BY <1>1, <2>1, <2>2, <2>3, <2>4, <2>5, <2>6, <2>7, <2>8, <2>9, <2>10, <2>11
       DEF RequestStep
<1>2. ASSUME NEW d \in Docs, RequeueStalled(d) \/ Age(d) \/ GoQuiet(d) PROVE RowInv'
  <2>1. CASE RequeueStalled(d)
    BY <2>1, <1>0, RowsKept DEF RequeueStalled
  <2>2. CASE Age(d)
    BY <2>2, <1>0, RowsKept DEF Age
  <2>3. CASE GoQuiet(d)
    BY <2>3, <1>0, RowsKept DEF GoQuiet
  <2> QED
    BY <1>2, <2>1, <2>2, <2>3
<1>3. ASSUME NEW w \in Workers, WorkerStep(w) PROVE RowInv'
  <2>1. CASE LoadRow(w)
    BY <2>1, <1>0, RowsKept DEF LoadRow, Goto
  <2>2. CASE Extract(w)
    BY <2>2, <1>0, RowsKept DEF Extract, Goto
  <2>3. CASE SelectForReady(w)
    BY <2>3, <1>0, RowsKept DEF SelectForReady, Goto, Select
  <2>4. CASE SaveReady(w)
    <3>0. PICK d \in Docs : d = on[w]
      BY <1>0, <2>4 DEF SaveReady
    <3>1. job' = job /\ request' = request /\ job[d] # "none"
          /\ request[d] \notin {"queueing", "writing"}
          /\ \A e \in Docs : seen'[e] = seen[e]
      BY <1>0, <3>0, <2>4 DEF SaveReady, GoIdle, Forget
    <3>2. CASE UNCHANGED rowVars
      BY <1>0, <3>1, <3>2, RowsKept
    <3>3. CASE WriteRow(d, seen[w], ReadyEntity)
      <4>1. Row(d)' \in {Row(d), ReadyEntity}
            /\ \A e \in Docs \ {d} : Row(e)' = Row(e)
        BY <3>0, <2>4, <3>3, SaveReadyWrites
      <4>2. \A e \in Docs \ {d} : RowIs(e)'
        BY <1>0, <3>1, <4>1, RowKept DEF RowInv
      <4>3. Row(d)' \in JobRows
        BY <1>0, <3>1, <4>1 DEF RowInv, RowIs, JobRows
      <4>4. RowIs(d)'
        BY <3>1, <4>3, RowMade
      <4> QED
        BY <4>2, <4>4 DEF RowInv
    <3> QED
      BY <2>4, <3>0, <3>2, <3>3 DEF SaveReady
  <2>5. CASE CompleteJob(w)
    BY <2>5, <1>0, RowsKept DEF CompleteJob, GoIdle, Forget, HoldsLock
  <2>6. CASE FailJob(w)
    BY <2>6, <1>0, RowsKept DEF FailJob, GoIdle, Forget, HoldsLock, WillRetry
  <2>7. CASE ReadForReport(w)
    BY <2>7, <1>0, RowsKept DEF ReadForReport, GoIdle, Forget
  <2>8. CASE SelectForReport(w)
    BY <2>8, <1>0, RowsKept DEF SelectForReport, Goto, Select
  <2>9. CASE ReportFailed(w)
    <3>0. PICK d \in Docs : d = on[w]
      BY <1>0, <2>9 DEF ReportFailed
    <3>1. job' = job /\ request' = request /\ job[d] # "none"
          /\ request[d] \notin {"queueing", "writing"}
          /\ \A e \in Docs : seen'[e] = seen[e]
      BY SMTT(30), <1>0, <3>0, <2>9 DEF ReportFailed, GoIdle, Forget
    <3>2. CASE UNCHANGED rowVars
      BY <1>0, <3>1, <3>2, RowsKept
    <3>3. CASE WriteRow(d, seen[w], FailedEntity(w))
      <4>1. Row(d)' \in {Row(d), Failed(TRUE), Failed(FALSE)}
            /\ \A e \in Docs \ {d} : Row(e)' = Row(e)
        BY <3>0, <2>9, <3>3, ReportFailedWrites
      <4>2. \A e \in Docs \ {d} : RowIs(e)'
        BY <1>0, <3>1, <4>1, RowKept DEF RowInv
      <4>3. Row(d)' \in JobRows
        BY <1>0, <3>1, <4>1 DEF RowInv, RowIs, JobRows
      <4>4. RowIs(d)'
        BY <3>1, <4>3, RowMade
      <4> QED
        BY <4>2, <4>4 DEF RowInv
    <3> QED
      BY <2>9, <3>0, <3>2, <3>3 DEF ReportFailed
  <2> QED
    BY <1>3, <2>1, <2>2, <2>3, <2>4, <2>5, <2>6, <2>7, <2>8, <2>9 DEF WorkerStep
<1>4. ASSUME NEW w \in Workers, WorkerFault(w) PROVE RowInv'
  <2>1. CASE ThrowInJob(w)
    BY <2>1, <1>0, RowsKept DEF ThrowInJob, Forget
  <2>2. CASE CrashWorker(w)
    BY <2>2, <1>0, RowsKept DEF CrashWorker, GoIdle, Forget
  <2>3. CASE LoseLock(w)
    BY <2>3, <1>0, RowsKept DEF LoseLock, HoldsLock
  <2> QED
    BY <1>4, <2>1, <2>2, <2>3 DEF WorkerFault
<1>5. ASSUME NEW w \in Workers, NEW d \in Docs, TakeJob(w, d) PROVE RowInv'
  BY <1>0, <1>5, RowsKept DEF TakeJob, Goto
<1>6. ASSUME NEW s \in Sweeps, SweepStep(s) PROVE RowInv'
  <2>1. CASE FindStuck(s)
    BY <2>1, <1>0, RowsKept DEF FindStuck
  <2>2. CASE MarkStuckFailed(s)
    <3>1. FailRows(Reaped(found[s])) /\ job' = job /\ request' = request /\ seen' = seen
      BY <2>2 DEF MarkStuckFailed
    <3>2. Reaped(found[s]) \in SUBSET {d \in Docs : status[d] \in Pending}
      BY <1>0 DEF Reaped, Pending
    <3>3. \A d \in Docs : Row(d)' = Row(d) \/ Row(d)' = Failed(FALSE)
      BY <1>0, <3>1, <3>2, RowsFailed
    <3>4. \A d \in Docs : Row(d)' = Row(d) => RowIs(d)'
      BY <1>0, <3>1, RowKept DEF RowInv
    <3>5. Failed(FALSE) \in EarlyRows \cap JobRows
      BY DEF EarlyRows, JobRows, Failed
    <3>6. \A d \in Docs : Row(d)' = Failed(FALSE) => RowIs(d)'
      BY <1>0, <3>1, <3>5 DEF RowInv, RowIs
    <3> QED
      BY <3>3, <3>4, <3>6 DEF RowInv
  <2>3. CASE AbandonSweep(s)
    BY <2>3, <1>0, RowsKept DEF AbandonSweep
  <2> QED
    BY <1>6, <2>1, <2>2, <2>3 DEF SweepStep
<1>7. CASE Recover
  <2>1. FailRows({d \in Docs : status[d] = "parsing" /\ quiet[d]})
        /\ job' = job /\ request' = request /\ seen' = seen
    BY <1>7 DEF Recover
  <2>2. {d \in Docs : status[d] = "parsing" /\ quiet[d]}
          \in SUBSET {d \in Docs : status[d] \in Pending}
    BY <1>0 DEF Reaped, Pending
  <2>3. \A d \in Docs : Row(d)' = Row(d) \/ Row(d)' = Failed(FALSE)
    BY <1>0, <2>1, <2>2, RowsFailed
  <2>4. \A d \in Docs : Row(d)' = Row(d) => RowIs(d)'
    BY <1>0, <2>1, RowKept DEF RowInv
  <2>5. Failed(FALSE) \in EarlyRows \cap JobRows
    BY DEF EarlyRows, JobRows, Failed
  <2>6. \A d \in Docs : Row(d)' = Failed(FALSE) => RowIs(d)'
    BY <1>0, <2>1, <2>5 DEF RowInv, RowIs
  <2> QED
    BY <2>3, <2>4, <2>6 DEF RowInv
<1>8. CASE UNCHANGED vars
  BY <1>0, <1>8, RowsKept DEF vars
<1> QED
  BY <1>1, <1>2, <1>3, <1>4, <1>5, <1>6, <1>7, <1>8 DEF Next

\* A save in progress keeps what it relies on.
LEMMA SaveKept ==
  ASSUME IInv, \A d \in Docs : HoldsText(d) => HoldsText(d)',
         NEW w \in Workers, Saving(w), seen'[w] = seen[w], on'[w] = on[w]
  PROVE  seen'[w] = Failed(TRUE) => HoldsText(on[w])'
<1> SUFFICES ASSUME seen[w] = Failed(TRUE) PROVE HoldsText(on[w])'
  OBVIOUS
<1>1. PICK d \in Docs : d = on[w]
  BY DEF IInv, WorkerInv, Saving
<1>2. HoldsText(d)
  BY <1>1 DEF IInv, ReportInv, SelectedTextStays
<1>3. HoldsText(d)'
  BY <1>2
<1>4. on'[w] = d
  BY <1>1
<1> QED
  BY <1>3, <1>4 DEF HoldsText, Spent, Exists

\* A step of nobody at a worker: no text is taken from a row that a save has selected
\* as FAILED with text.
LEMMA ReportKept ==
  ASSUME IInv, UNCHANGED <<phase, on, copy>>,
         \A w \in Workers : seen'[w] = seen[w],
         \A d \in Docs : job[d] = "failed" => job'[d] = "failed",
         \A d \in Docs :
            \/ Row(d)' = Row(d)
            \/ /\ Row(d)' # Failed(TRUE)
               /\ job[d] = "none" \/ (Exists(d) /\ ~text[d]) \/ ~Exists(d)'
  PROVE  ReportInv'
<1>1. TypeOK /\ WorkerInv /\ ReportInv
  BY DEF IInv
<1>2. \A d \in Docs : Spent(d) => Spent(d)'
  BY <1>1 DEF Spent, Reporting
<1>3. ASSUME NEW d \in Docs, HoldsText(d) PROVE HoldsText(d)'
  <2>1. Spent(d)'
    BY <1>2, <1>3 DEF HoldsText
  <2>2. Exists(d)' => text'[d]
    <3>1. CASE Row(d)' = Row(d)
      BY <1>3, <3>1 DEF HoldsText, Row, Exists
    <3>2. CASE ~Exists(d)'
      BY <3>2
    <3>3. job[d] # "none" /\ ~(Exists(d) /\ ~text[d])
      BY <1>3 DEF HoldsText, Spent
    <3> QED
      BY <3>1, <3>2, <3>3
  <2> QED
    BY <2>1, <2>2 DEF HoldsText
<1>4. ReportedHaveFailed'
  BY <1>1 DEF ReportInv, ReportedHaveFailed, WorkerInv, Reporting
<1>5. ReportedOnce' /\ ReportedWithoutText'
  BY <1>1 DEF ReportInv, ReportedOnce, ReportedWithoutText, Reporting
<1>6. TextIsSpent'
  BY <1>1, <1>2 DEF ReportInv, TextIsSpent
<1>7. SelectedJobRows'
  BY <1>1 DEF ReportInv, SelectedJobRows, Saving
<1>8. SelectedTextStays'
  BY <1>3, SaveKept DEF SelectedTextStays, Saving
<1> QED
  BY <1>4, <1>5, <1>6, <1>7, <1>8 DEF ReportInv

\* The same of a step that writes no row.
LEMMA ReportUntouched ==
  ASSUME IInv, UNCHANGED <<phase, on, copy, status, percent, text>>,
         \A w \in Workers : seen'[w] = seen[w],
         \A d \in Docs : job[d] = "failed" => job'[d] = "failed"
  PROVE  ReportInv'
<1>1. \A d \in Docs : Row(d)' = Row(d)
  BY DEF Row
<1> QED
  BY <1>1, ReportKept

\* A worker that leaves a save or a report, or comes to neither: it may make the row
\* READY, and the one that reports may make it FAILED with the text that is there.
LEMMA WorkerLeaves ==
  ASSUME IInv, NEW w \in Workers,
         phase'[w] \notin {"writing", "failing", "reporting", "marking"},
         \A v \in Workers \ {w} : phase'[v] = phase[v] /\ on'[v] = on[v]
                                  /\ copy'[v] = copy[v] /\ seen'[v] = seen[v],
         \A d \in Docs : job[d] = "failed" => job'[d] = "failed",
         \A d \in Docs :
            \/ Row(d)' = Row(d)
            \/ Row(d)' = ReadyEntity
            \/ /\ on[w] = d /\ Reporting(w)
               /\ Row(d)' \in {Failed(TRUE), Failed(FALSE)}
  PROVE  ReportInv'
<1>1. TypeOK /\ WorkerInv /\ ReportInv
  BY DEF IInv
<1>2. \A d \in Docs : Spent(d) => Spent(d)'
  BY <1>1 DEF Spent, Reporting
<1>3. \A v \in Workers : Reporting(v)' => v # w /\ Reporting(v) /\ on'[v] = on[v]
  BY DEF Reporting
<1>4. ASSUME NEW d \in Docs, HoldsText(d) PROVE HoldsText(d)'
  <2>1. Spent(d)'
    BY <1>2, <1>4 DEF HoldsText
  <2>2. Exists(d)' => text'[d]
    <3>1. CASE Row(d)' = Row(d)
      BY <1>4, <3>1 DEF HoldsText, Row, Exists
    <3>2. CASE Row(d)' = ReadyEntity
      BY <3>2 DEF Row, ReadyEntity
    <3>3. ~(on[w] = d /\ Reporting(w))
      BY <1>4 DEF HoldsText, Spent
    <3> QED
      BY <3>1, <3>2, <3>3
  <2> QED
    BY <2>1, <2>2 DEF HoldsText
<1>5. ReportedHaveFailed'
  <2> SUFFICES ASSUME NEW v \in Workers, Reporting(v)' PROVE job'[on'[v]] = "failed"
    BY DEF ReportedHaveFailed
  <2>1. Reporting(v) /\ on'[v] = on[v]
    BY <1>3
  <2>2. on[v] \in Docs /\ job[on[v]] = "failed"
    BY <1>1, <2>1 DEF WorkerInv, Reporting, ReportInv, ReportedHaveFailed
  <2> QED
    BY <2>1, <2>2
<1>6. ReportedOnce'
  BY <1>1, <1>3 DEF ReportInv, ReportedOnce
<1>7. ReportedWithoutText'
  BY <1>1 DEF ReportInv, ReportedWithoutText
<1>8. TextIsSpent'
  <2> SUFFICES ASSUME NEW d \in Docs, Row(d)' = Failed(TRUE) PROVE Spent(d)'
    BY DEF TextIsSpent
  <2>1. CASE Row(d)' = Row(d)
    BY <1>1, <1>2, <2>1 DEF ReportInv, TextIsSpent
  <2>2. CASE Row(d)' = ReadyEntity
    BY <2>2 DEF Failed, ReadyEntity
  <2>3. CASE on[w] = d /\ Reporting(w)
    <3>1. job'[d] = "failed"
      BY <1>1, <2>3 DEF ReportInv, ReportedHaveFailed
    <3>2. \A v \in Workers : Reporting(v)' => on'[v] # d
      BY <1>1, <1>3, <2>3 DEF ReportInv, ReportedOnce
    <3> QED
      BY <3>1, <3>2 DEF Spent
  <2> QED
    BY <2>1, <2>2, <2>3
<1>9. \A v \in Workers : Saving(v)' => Saving(v) /\ seen'[v] = seen[v] /\ on'[v] = on[v]
  BY DEF Saving
<1>10. SelectedJobRows'
  BY <1>1, <1>9 DEF ReportInv, SelectedJobRows, JobRows
<1>11. SelectedTextStays'
  BY <1>4, <1>9, SaveKept DEF SelectedTextStays
<1> QED
  BY <1>5, <1>6, <1>7, <1>8, <1>10, <1>11 DEF ReportInv

\* The same of a worker that writes no row.
LEMMA WorkerMoves ==
  ASSUME IInv, NEW w \in Workers, UNCHANGED <<status, percent, text>>,
         phase'[w] \notin {"writing", "failing", "reporting", "marking"},
         \A v \in Workers \ {w} : phase'[v] = phase[v] /\ on'[v] = on[v]
                                  /\ copy'[v] = copy[v] /\ seen'[v] = seen[v],
         \A d \in Docs : job[d] = "failed" => job'[d] = "failed"
  PROVE  ReportInv'
<1>1. \A d \in Docs : Row(d)' = Row(d)
  BY DEF Row
<1> QED
  BY <1>1, WorkerLeaves

\* A job is reported once, and what has been selected since then has the text.
LEMMA ReportStep ==
  IInv /\ [Next]_vars => ReportInv'
<1> SUFFICES ASSUME IInv, [Next]_vars PROVE ReportInv'
  OBVIOUS
<1>0. TypeOK /\ WorkerInv /\ JobInv /\ RequestInv /\ RowInv /\ ReportInv
  BY DEF IInv
<1> USE UploadConstants DEF TypeOK, WorkerInv, JobInv, InFlight, RunPhases, requestVars,
      rowVars, jobVars, workerVars

<1>1. ASSUME NEW d \in Docs, RequestStep(d) PROVE ReportInv'
  <2>1. CASE RejectFile(d)
    BY <2>1, <1>0, ReportUntouched DEF RejectFile, Advance
  <2>2. CASE CreateRow(d)
    <3>1. UNCHANGED <<phase, on, copy>>
      BY <2>2 DEF CreateRow
    <3>2. \A v \in Workers : seen'[v] = seen[v]
      BY <1>0, <2>2 DEF CreateRow
    <3>3. \A e \in Docs : job[e] = "failed" => job'[e] = "failed"
      BY <1>0, <2>2 DEF CreateRow
    <3>4. SetRow(d, [NoRow EXCEPT !.status = "uploading"])
      BY <2>2 DEF CreateRow
    <3>5. Row(d)' = [NoRow EXCEPT !.status = "uploading"]
          /\ \A e \in Docs \ {d} : Row(e)' = Row(e)
      BY <1>0, <3>4, NamedRows, RowSet
    <3>6. job[d] = "none" /\ Row(d)' # Failed(TRUE)
      BY SMTT(30), <1>0, <2>2, <3>5 DEF CreateRow, Advance, NoRow, Failed
    <3> QED
      BY <3>1, <3>2, <3>3, <3>5, <3>6, ReportKept
  <2>3. CASE PutObject(d)
    BY <2>3, <1>0, ReportUntouched DEF PutObject, Advance
  <2>4. CASE UpdateProgress(d)
    <3>1. UNCHANGED <<phase, on, copy>>
      BY <2>4 DEF UpdateProgress
    <3>2. \A v \in Workers : seen'[v] = seen[v]
      BY <1>0, <2>4 DEF UpdateProgress
    <3>3. \A e \in Docs : job[e] = "failed" => job'[e] = "failed"
      BY <1>0, <2>4 DEF UpdateProgress
    <3>4. job[d] = "none" /\ text[d] = FALSE
      BY <1>0, <2>4
         DEF UpdateProgress, WithDbRetry, Advance, RowInv, RowIs, Row, EarlyRows,
         NoRow, ParsingEntity
    <3>5. Row(d)' # Failed(TRUE) /\ \A e \in Docs \ {d} : Row(e)' = Row(e)
      BY <1>0, <2>4, <3>4 DEF UpdateProgress, Row, Failed
    <3> QED
      BY <3>1, <3>2, <3>3, <3>4, <3>5, ReportKept
  <2>5. CASE SelectForParsing(d)
    BY <2>5, <1>0, ReportUntouched DEF SelectForParsing, Advance, Select
  <2>6. CASE SaveParsing(d)
    <3>1. UNCHANGED <<phase, on, copy>>
      BY <2>6 DEF SaveParsing, Forget
    <3>2. \A v \in Workers : seen'[v] = seen[v]
      BY <1>0, <2>6 DEF SaveParsing, Forget
    <3>3. \A e \in Docs : job[e] = "failed" => job'[e] = "failed"
      BY <1>0, <2>6 DEF SaveParsing, Forget
    <3>4. job[d] = "none" /\ job' = job
      BY <1>0, <2>6 DEF SaveParsing, WithDbRetry, Advance
    <3>5. Row(d)' # Failed(TRUE)
      <4>1. RowInv'
        BY RowStep
      <4>2. RowIs(d)'
        BY <4>1 DEF RowInv
      <4>3. Row(d)' \in EarlyRows
        BY <3>4, <4>2 DEF RowIs
      <4> QED
        BY <4>3, EarlyRow
    <3>6. WriteRow(d, seen[d], ParsingEntity) /\ seen[d] \in Rows /\ ParsingEntity \in Rows
      BY <1>0, <2>6, NamedRows DEF SaveParsing
    <3>7. \A e \in Docs \ {d} : Row(e)' = Row(e)
      BY <1>0, <3>6, RowWritten
    <3> QED
      BY <3>1, <3>2, <3>3, <3>4, <3>5, <3>7, ReportKept
  <2>7. CASE Enqueue(d)
    BY <2>7, <1>0, ReportUntouched DEF Enqueue, Advance
  <2>8. CASE ThrowInRequest(d)
    BY <2>8, <1>0, ReportUntouched DEF ThrowInRequest, Advance, Forget
  <2>9. CASE UndoObject(d)
    BY <2>9, <1>0, ReportUntouched DEF UndoObject, Advance
  <2>10. CASE UndoRow(d)
    <3>1. UNCHANGED <<phase, on, copy>>
      BY <2>10 DEF UndoRow
    <3>2. \A v \in Workers : seen'[v] = seen[v]
      BY <1>0, <2>10 DEF UndoRow
    <3>3. \A e \in Docs : job[e] = "failed" => job'[e] = "failed"
      BY <1>0, <2>10 DEF UndoRow
    <3>4. CASE SetRow(d, NoRow)
      <4>1. Row(d)' = NoRow /\ \A e \in Docs \ {d} : Row(e)' = Row(e)
        BY <1>0, <3>4, NamedRows, RowSet
      <4>2. ~Exists(d)' /\ Row(d)' # Failed(TRUE)
        BY <4>1 DEF Row, NoRow, Failed, Exists
      <4> QED
        BY <3>1, <3>2, <3>3, <4>1, <4>2, ReportKept
    <3>5. CASE UNCHANGED rowVars
      <4>1. \A e \in Docs : Row(e)' = Row(e)
        BY <3>5 DEF Row
      <4> QED
        BY <3>1, <3>2, <3>3, <4>1, ReportKept
    <3> QED
      BY <2>10, <3>4, <3>5 DEF UndoRow
  <2>11. CASE CrashRequest(d)
    BY <2>11, <1>0, ReportUntouched DEF CrashRequest, Advance, Forget
  <2> QED
    BY <1>1, <2>1, <2>2, <2>3, <2>4, <2>5, <2>6, <2>7, <2>8, <2>9, <2>10, <2>11
       DEF RequestStep
<1>2. ASSUME NEW d \in Docs, RequeueStalled(d) \/ Age(d) \/ GoQuiet(d)
      PROVE  ReportInv'
  <2>1. CASE RequeueStalled(d)
    BY <2>1, <1>0, ReportUntouched DEF RequeueStalled
  <2>2. CASE Age(d)
    BY <2>2, <1>0, ReportUntouched DEF Age
  <2>3. CASE GoQuiet(d)
    BY <2>3, <1>0, ReportUntouched DEF GoQuiet
  <2> QED
    BY <1>2, <2>1, <2>2, <2>3
<1>3. ASSUME NEW w \in Workers, WorkerStep(w) PROVE ReportInv'
  <2>1. CASE LoadRow(w)
    BY <2>1, <1>0, WorkerMoves DEF LoadRow, Goto, AfterLoad
  <2>2. CASE Extract(w)
    BY <2>2, <1>0, WorkerMoves DEF Extract, Goto
  <2>3. CASE SelectForReady(w)
    <3>0. PICK d \in Docs : d = on[w]
      BY <1>0, <2>3 DEF SelectForReady, Goto, WorkerInv
    <3>1. UNCHANGED <<status, percent, text>> /\ \A e \in Docs : Row(e)' = Row(e)
      BY <2>3 DEF SelectForReady, Row
    <3>2. \A v \in Workers \ {w} : phase'[v] = phase[v] /\ on'[v] = on[v]
                                  /\ copy'[v] = copy[v] /\ seen'[v] = seen[v]
      BY <1>0, <2>3 DEF SelectForReady, Goto, Select
    <3>3. phase[w] = "saving" /\ phase'[w] = "writing" /\ on' = on /\ job' = job
          /\ seen'[w] = Row(d)
      BY <1>0, <2>3, <3>0 DEF SelectForReady, Goto, Select
    <3>4. \A v \in Workers : Reporting(v)' <=> Reporting(v)
      BY <3>2, <3>3 DEF Reporting
    <3>5. \A e \in Docs : Spent(e)' <=> Spent(e)
      BY <3>3, <3>4 DEF Spent
    <3>6. \A e \in Docs : HoldsText(e) => HoldsText(e)'
      BY <3>1, <3>5 DEF HoldsText, Exists
    <3>7. Row(d) \in JobRows
      BY <1>0, <3>0, <3>3 DEF JobInv, RowInv, RowIs
    <3>8. Row(d) = Failed(TRUE) => HoldsText(d)
      BY <1>0 DEF ReportInv, TextIsSpent, HoldsText, Row, Failed
    <3>9. ReportedHaveFailed' /\ ReportedOnce'
      BY <1>0, <3>3, <3>4 DEF ReportInv, ReportedHaveFailed, ReportedOnce
    <3>10. ReportedWithoutText'
      BY <1>0, <3>2, <3>3 DEF ReportInv, ReportedWithoutText
    <3>11. TextIsSpent'
      BY <1>0, <3>1, <3>5 DEF ReportInv, TextIsSpent
    <3>12. \A v \in Workers \ {w} : Saving(v)' => Saving(v)
      BY <3>2 DEF Saving
    <3>13. SelectedJobRows'
      BY <1>0, <3>2, <3>3, <3>7, <3>12 DEF ReportInv, SelectedJobRows, JobRows
    <3>14. SelectedTextStays'
      <4> SUFFICES ASSUME NEW v \in Workers, Saving(v)', seen'[v] = Failed(TRUE)
                   PROVE  HoldsText(on[v])'
        BY DEF SelectedTextStays
      <4>1. CASE v = w
        <5>1. HoldsText(d)' /\ on'[w] = d
          BY <3>0, <3>3, <3>6, <3>8, <4>1
        <5> QED
          BY <4>1, <5>1 DEF HoldsText, Spent, Exists
      <4>2. CASE v # w
        BY <3>2, <3>6, <3>12, <4>2, SaveKept
      <4> QED
        BY <4>1, <4>2
    <3> QED
      BY <3>9, <3>10, <3>11, <3>13, <3>14 DEF ReportInv
  <2>4. CASE SaveReady(w)
    <3>0. PICK d \in Docs : d = on[w]
      BY <1>0, <2>4 DEF SaveReady, WorkerInv
    <3>1. phase[w] = "writing" /\ job' = job
          /\ phase'[w] \notin {"writing", "failing", "reporting", "marking"}
      BY <1>0, <2>4 DEF SaveReady, GoIdle
    <3>2. \A v \in Workers \ {w} : phase'[v] = phase[v] /\ on'[v] = on[v]
                                  /\ copy'[v] = copy[v] /\ seen'[v] = seen[v]
      BY <1>0, <2>4 DEF SaveReady, GoIdle, Forget
    <3>3. CASE UNCHANGED rowVars
      <4>1. \A e \in Docs : Row(e)' = Row(e)
        BY <3>3 DEF Row
      <4> QED
        BY <3>1, <3>2, <4>1, WorkerLeaves
    <3>4. CASE WriteRow(d, seen[w], ReadyEntity)
      <4>1. Row(d)' \in {Row(d), ReadyEntity}
            /\ \A e \in Docs \ {d} : Row(e)' = Row(e)
        BY <3>0, <2>4, <3>4, SaveReadyWrites
      <4> QED
        BY <3>0, <3>1, <3>2, <4>1, WorkerLeaves
    <3> QED
      BY <2>4, <3>0, <3>3, <3>4 DEF SaveReady
  <2>5. CASE CompleteJob(w)
    BY <2>5, <1>0, WorkerMoves DEF CompleteJob, GoIdle, Forget, HoldsLock
  <2>6. CASE FailJob(w)
    <3>0. PICK d \in Docs : d = on[w]
      BY <1>0, <2>6 DEF FailJob, WorkerInv
    <3>1. UNCHANGED <<status, percent, text>> /\ \A e \in Docs : Row(e)' = Row(e)
      BY <2>6 DEF FailJob, Row
    <3>2. \A v \in Workers \ {w} : phase'[v] = phase[v] /\ on'[v] = on[v]
                                  /\ copy'[v] = copy[v] /\ seen'[v] = seen[v]
      BY <1>0, <2>6 DEF FailJob, GoIdle, Forget
    <3>3. CASE ~(HoldsLock(w) /\ ~WillRetry(d))
      <4>1. phase'[w] = "idle"
        BY <1>0, <2>6, <3>0, <3>3 DEF FailJob, GoIdle
      <4>2. \A e \in Docs : job[e] = "failed" => job'[e] = "failed"
        BY <1>0, <2>6, <3>0, <3>3 DEF FailJob, HoldsLock, TypeOK
      <4> QED
        BY <3>1, <3>2, <4>1, <4>2, WorkerLeaves
    <3>4. CASE HoldsLock(w) /\ ~WillRetry(d)
      <4>1. phase[w] = "throwing" /\ phase'[w] = "failing" /\ UNCHANGED <<on, copy, seen>>
            /\ job[d] = "active" /\ job' = [job EXCEPT ![d] = "failed"]
        BY <1>0, <2>6, <3>0, <3>4 DEF FailJob, HoldsLock, TypeOK
      <4>2. \A v \in Workers : Reporting(v)' <=> Reporting(v) \/ v = w
        BY <3>2, <4>1 DEF Reporting
      <4>3. \A e \in Docs : Spent(e) => Spent(e)'
        BY <1>0, <3>0, <4>1, <4>2 DEF Spent
      <4>4. \A e \in Docs : HoldsText(e) => HoldsText(e)'
        BY <3>1, <4>3 DEF HoldsText, Exists
      <4>5. ReportedHaveFailed'
        BY <1>0, <3>0, <4>1, <4>2 DEF ReportInv, ReportedHaveFailed
      <4>6. ReportedOnce'
        BY <1>0, <3>0, <4>1, <4>2 DEF ReportInv, ReportedHaveFailed, ReportedOnce
      <4>7. ReportedWithoutText'
        BY <1>0, <3>2, <4>1 DEF ReportInv, ReportedWithoutText
      <4>8. TextIsSpent'
        BY <1>0, <3>1, <4>3 DEF ReportInv, TextIsSpent
      <4>9. \A v \in Workers : Saving(v)' => Saving(v)
        BY <3>2, <4>1 DEF Saving
      <4>10. SelectedJobRows'
        BY <1>0, <4>1, <4>9 DEF ReportInv, SelectedJobRows, JobRows
      <4>11. SelectedTextStays'
        BY <4>1, <4>4, <4>9, SaveKept DEF SelectedTextStays
      <4> QED
        BY <4>5, <4>6, <4>7, <4>8, <4>10, <4>11 DEF ReportInv
    <3> QED
      BY <3>3, <3>4
  <2>7. CASE ReadForReport(w)
    <3>1. CASE ~MayReport(status[on[w]])
      <4>1. phase'[w] = "idle" /\ job' = job /\ UNCHANGED <<status, percent, text>>
        BY <1>0, <2>7, <3>1 DEF ReadForReport, GoIdle
      <4>2. \A v \in Workers \ {w} : phase'[v] = phase[v] /\ on'[v] = on[v]
                                    /\ copy'[v] = copy[v] /\ seen'[v] = seen[v]
        BY <1>0, <2>7, <3>1 DEF ReadForReport, GoIdle, Forget
      <4>3. \A e \in Docs : Row(e)' = Row(e)
        BY <4>1 DEF Row
      <4> QED
        BY <4>1, <4>2, <4>3, WorkerLeaves
    <3>2. CASE MayReport(status[on[w]])
      <4>0. PICK d \in Docs : d = on[w]
        BY <1>0, <2>7, <3>2 DEF ReadForReport, WorkerInv
      <4>1. UNCHANGED <<status, percent, text>> /\ \A e \in Docs : Row(e)' = Row(e)
        BY <2>7, <3>2 DEF ReadForReport, Row
      <4>2. \A v \in Workers \ {w} : phase'[v] = phase[v] /\ on'[v] = on[v]
                                    /\ copy'[v] = copy[v] /\ seen'[v] = seen[v]
        BY <1>0, <2>7, <3>2 DEF ReadForReport
      <4>3. phase[w] = "failing" /\ phase'[w] = "reporting" /\ on' = on /\ job' = job
            /\ seen' = seen /\ copy'[w] = Row(d)
        BY <1>0, <2>7, <3>2, <4>0 DEF ReadForReport
      <4>4. \A v \in Workers : Reporting(v)' <=> Reporting(v)
        BY <4>2, <4>3 DEF Reporting
      <4>5. \A e \in Docs : Spent(e)' <=> Spent(e)
        BY <4>3, <4>4 DEF Spent
      <4>6. \A e \in Docs : HoldsText(e) => HoldsText(e)'
        BY <4>1, <4>5 DEF HoldsText, Exists
      <4>7. Row(d) \in JobRows
        BY <1>0, <4>0, <4>3 DEF JobInv, RowInv, RowIs
      <4>8. ~Row(d).text
        <5>1. Row(d) # Failed(TRUE)
          BY <1>0, <4>0, <4>3 DEF ReportInv, TextIsSpent, Spent, Reporting
        <5>2. Row(d).status \notin {"none", "ready"}
          BY <4>0, <3>2 DEF MayReport, Row
        <5> QED
          BY <4>7, <5>1, <5>2 DEF JobRows, NoRow, ParsingEntity, ReadyEntity, Failed
      <4>9. ReportedHaveFailed' /\ ReportedOnce'
        BY <1>0, <4>3, <4>4 DEF ReportInv, ReportedHaveFailed, ReportedOnce
      <4>10. ReportedWithoutText'
        BY <1>0, <4>2, <4>3, <4>8 DEF ReportInv, ReportedWithoutText
      <4>11. TextIsSpent'
        BY <1>0, <4>1, <4>5 DEF ReportInv, TextIsSpent
      <4>12. \A v \in Workers : Saving(v)' => Saving(v) /\ v # w
        BY <4>2, <4>3 DEF Saving
      <4>13. SelectedJobRows'
        BY <1>0, <4>2, <4>12 DEF ReportInv, SelectedJobRows, JobRows
      <4>14. SelectedTextStays'
        BY <4>2, <4>6, <4>12, SaveKept DEF SelectedTextStays
      <4> QED
        BY <4>9, <4>10, <4>11, <4>13, <4>14 DEF ReportInv
    <3> QED
      BY <3>1, <3>2
  <2>8. CASE SelectForReport(w)
    <3>0. PICK d \in Docs : d = on[w]
      BY <1>0, <2>8 DEF SelectForReport, Goto, WorkerInv
    <3>1. UNCHANGED <<status, percent, text>> /\ \A e \in Docs : Row(e)' = Row(e)
      BY <2>8 DEF SelectForReport, Row
    <3>2. \A v \in Workers \ {w} : phase'[v] = phase[v] /\ on'[v] = on[v]
                                  /\ copy'[v] = copy[v] /\ seen'[v] = seen[v]
      BY <1>0, <2>8 DEF SelectForReport, Goto, Select
    <3>3. phase[w] = "reporting" /\ phase'[w] = "marking" /\ on' = on /\ job' = job
          /\ seen'[w] = Row(d) /\ copy' = copy
      BY <1>0, <2>8, <3>0 DEF SelectForReport, Goto, Select
    <3>4. \A v \in Workers : Reporting(v)' <=> Reporting(v)
      BY <3>2, <3>3 DEF Reporting
    <3>5. \A e \in Docs : Spent(e)' <=> Spent(e)
      BY <3>3, <3>4 DEF Spent
    <3>6. \A e \in Docs : HoldsText(e) => HoldsText(e)'
      BY <3>1, <3>5 DEF HoldsText, Exists
    <3>7. Row(d) \in JobRows
      BY <1>0, <3>0, <3>3 DEF JobInv, RowInv, RowIs
    <3>8. Row(d) # Failed(TRUE)
      BY <1>0, <3>0, <3>3 DEF ReportInv, TextIsSpent, Spent, Reporting
    <3>9. ReportedHaveFailed' /\ ReportedOnce'
      BY <1>0, <3>3, <3>4 DEF ReportInv, ReportedHaveFailed, ReportedOnce
    <3>10. ReportedWithoutText'
      BY <1>0, <3>2, <3>3 DEF ReportInv, ReportedWithoutText
    <3>11. TextIsSpent'
      BY <1>0, <3>1, <3>5 DEF ReportInv, TextIsSpent
    <3>12. \A v \in Workers \ {w} : Saving(v)' => Saving(v)
      BY <3>2 DEF Saving
    <3>13. SelectedJobRows'
      BY <1>0, <3>2, <3>3, <3>7, <3>12 DEF ReportInv, SelectedJobRows, JobRows
    <3>14. SelectedTextStays'
      <4> SUFFICES ASSUME NEW v \in Workers, Saving(v)', seen'[v] = Failed(TRUE)
                   PROVE  HoldsText(on[v])'
        BY DEF SelectedTextStays
      <4>1. CASE v = w
        BY <3>3, <3>8, <4>1
      <4>2. CASE v # w
        BY <3>2, <3>6, <3>12, <4>2, SaveKept
      <4> QED
        BY <4>1, <4>2
    <3> QED
      BY <3>9, <3>10, <3>11, <3>13, <3>14 DEF ReportInv
  <2>9. CASE ReportFailed(w)
    <3>0. PICK d \in Docs : d = on[w]
      BY <1>0, <2>9 DEF ReportFailed, WorkerInv
    <3>1. phase[w] = "marking" /\ job' = job
          /\ phase'[w] \notin {"writing", "failing", "reporting", "marking"}
      BY <1>0, <2>9 DEF ReportFailed, GoIdle
    <3>2. \A v \in Workers \ {w} : phase'[v] = phase[v] /\ on'[v] = on[v]
                                  /\ copy'[v] = copy[v] /\ seen'[v] = seen[v]
      BY <1>0, <2>9 DEF ReportFailed, GoIdle, Forget
    <3>3. CASE UNCHANGED rowVars
      <4>1. \A e \in Docs : Row(e)' = Row(e)
        BY <3>3 DEF Row
      <4> QED
        BY <3>1, <3>2, <4>1, WorkerLeaves
    <3>4. CASE WriteRow(d, seen[w], FailedEntity(w))
      <4>1. Row(d)' \in {Row(d), Failed(TRUE), Failed(FALSE)}
            /\ \A e \in Docs \ {d} : Row(e)' = Row(e)
        BY <3>0, <2>9, <3>4, ReportFailedWrites
      <4> QED
        BY <3>0, <3>1, <3>2, <4>1, WorkerLeaves DEF Reporting
    <3> QED
      BY <2>9, <3>0, <3>3, <3>4 DEF ReportFailed
  <2> QED
    BY <1>3, <2>1, <2>2, <2>3, <2>4, <2>5, <2>6, <2>7, <2>8, <2>9 DEF WorkerStep
<1>4. ASSUME NEW w \in Workers, WorkerFault(w) PROVE ReportInv'
  <2>1. CASE ThrowInJob(w)
    BY <2>1, <1>0, WorkerMoves DEF ThrowInJob, Forget
  <2>2. CASE CrashWorker(w)
    BY <2>2, <1>0, WorkerMoves DEF CrashWorker, GoIdle, Forget
  <2>3. CASE LoseLock(w)
    BY <2>3, <1>0, ReportUntouched DEF LoseLock, HoldsLock
  <2> QED
    BY <1>4, <2>1, <2>2, <2>3 DEF WorkerFault
<1>5. ASSUME NEW w \in Workers, NEW d \in Docs, TakeJob(w, d) PROVE ReportInv'
  BY <1>0, <1>5, WorkerMoves DEF TakeJob, Goto
<1>6. ASSUME NEW s \in Sweeps, SweepStep(s) PROVE ReportInv'
  <2>1. CASE FindStuck(s)
    BY <2>1, <1>0, ReportUntouched DEF FindStuck
  <2>2. CASE MarkStuckFailed(s)
    <3>1. UNCHANGED <<phase, on, copy>>
      BY <2>2 DEF MarkStuckFailed
    <3>2. \A v \in Workers : seen'[v] = seen[v]
      BY <1>0, <2>2 DEF MarkStuckFailed
    <3>3. \A e \in Docs : job[e] = "failed" => job'[e] = "failed"
      BY <1>0, <2>2 DEF MarkStuckFailed
    <3>4. FailRows(Reaped(found[s]))
      BY <2>2 DEF MarkStuckFailed
    <3>5. Reaped(found[s]) \in SUBSET {d \in Docs : status[d] \in Pending}
      BY <1>0 DEF Reaped, Pending
    <3>6. \A d \in Docs : IF d \in Reaped(found[s])
                          THEN Exists(d) /\ ~text[d] /\ Row(d)' = Failed(FALSE)
                          ELSE Row(d)' = Row(d)
      BY <1>0, <3>4, <3>5, RowsFailed
    <3>7. Failed(FALSE) # Failed(TRUE)
      BY DEF Failed
    <3>8. ASSUME NEW d \in Docs
          PROVE  Row(d)' = Row(d) \/ (Row(d)' # Failed(TRUE) /\ Exists(d) /\ ~text[d])
      <4>1. CASE d \in Reaped(found[s])
        BY <3>6, <3>7, <4>1
      <4>2. CASE d \notin Reaped(found[s])
        BY <3>6, <4>2
      <4> QED
        BY <4>1, <4>2
    <3> QED
      BY <3>1, <3>2, <3>3, <3>8, ReportKept
  <2>3. CASE AbandonSweep(s)
    BY <2>3, <1>0, ReportUntouched DEF AbandonSweep
  <2> QED
    BY <1>6, <2>1, <2>2, <2>3 DEF SweepStep
<1>7. CASE Recover
  <2>1. UNCHANGED <<phase, on, copy>>
    BY <1>7 DEF Recover
  <2>2. \A v \in Workers : seen'[v] = seen[v]
    BY <1>0, <1>7 DEF Recover
  <2>3. \A e \in Docs : job[e] = "failed" => job'[e] = "failed"
    BY <1>0, <1>7 DEF Recover
  <2>4. FailRows({d \in Docs : status[d] = "parsing" /\ quiet[d]})
    BY <1>7 DEF Recover
  <2>5. {d \in Docs : status[d] = "parsing" /\ quiet[d]}
          \in SUBSET {d \in Docs : status[d] \in Pending}
    BY <1>0 DEF Reaped, Pending
  <2>6. \A d \in Docs : IF d \in {e \in Docs : status[e] = "parsing" /\ quiet[e]}
                        THEN Exists(d) /\ ~text[d] /\ Row(d)' = Failed(FALSE)
                        ELSE Row(d)' = Row(d)
    BY <1>0, <2>4, <2>5, RowsFailed
  <2>7. Failed(FALSE) # Failed(TRUE)
    BY DEF Failed
  <2>8. ASSUME NEW d \in Docs
        PROVE  Row(d)' = Row(d) \/ (Row(d)' # Failed(TRUE) /\ Exists(d) /\ ~text[d])
    <3>1. CASE d \in {e \in Docs : status[e] = "parsing" /\ quiet[e]}
      BY <2>6, <2>7, <3>1
    <3>2. CASE d \notin {e \in Docs : status[e] = "parsing" /\ quiet[e]}
      BY <2>6, <3>2
    <3> QED
      BY <3>1, <3>2
  <2> QED
    BY <2>1, <2>2, <2>3, <2>8, ReportKept
<1>8. CASE UNCHANGED vars
  <2>1. \A e \in Docs : Row(e)' = Row(e)
    BY <1>8 DEF vars, Row
  <2> QED
    BY <1>8, <2>1, ReportKept DEF vars
<1> QED
  BY <1>1, <1>2, <1>3, <1>4, <1>5, <1>6, <1>7, <1>8 DEF Next

-----------------------------------------------------------------------------
(* Verdicts *)

Moved ==
  \A d \in Docs :
     status[d] \in Terminal /\ status'[d] # status[d] =>
        \/ request[d] \in {"writing", "undoingRow"}
        \/ \E w \in Workers : /\ on[w] = d
                              /\ phase[w] = "writing" /\ copy[w].status \in Pending
        \/ \E w \in Workers : /\ on[w] = d /\ phase[w] = "marking"
                              /\ copy[w].status # "ready"

\* A save writes the status of its own row only.
LEMMA StatusElsewhere ==
  ASSUME status \in [Docs -> Statuses], NEW d, NEW before, NEW want,
         WriteRow(d, before, want)
  PROVE  \A e \in Docs \ {d} : status'[e] = status[e]
<1>1. status' = [status EXCEPT ![d] = Saved(d, before, want).status]
  BY DEF WriteRow, SetRow
<1> QED
  BY <1>1

\* Who may move a row on from READY or FAILED, action by action.
LEMMA VerdictStep ==
  TypeOK /\ WorkerInv /\ RequestInv /\ [Next]_vars => Moved
<1> SUFFICES ASSUME TypeOK, WorkerInv, RequestInv, [Next]_vars PROVE Moved
  OBVIOUS
<1> USE UploadConstants DEF TypeOK, WorkerInv, RequestInv, Exists, Moved, Pending,
      Terminal, Statuses, InFlight, RunPhases, requestVars, rowVars, jobVars, workerVars

<1>1. ASSUME NEW d \in Docs, RequestStep(d) PROVE Moved
  <2>1. CASE RejectFile(d)
    BY <2>1 DEF RejectFile, Advance
  <2>2. CASE CreateRow(d)
    BY <2>2 DEF CreateRow, Advance, SetRow
  <2>3. CASE PutObject(d)
    BY <2>3 DEF PutObject, Advance
  <2>4. CASE UpdateProgress(d)
    BY <2>4 DEF UpdateProgress, WithDbRetry, Advance
  <2>5. CASE SelectForParsing(d)
    BY <2>5 DEF SelectForParsing, Advance, Select
  <2>6. CASE SaveParsing(d)
    <3>1. request[d] = "writing"
      BY <2>6 DEF SaveParsing, WithDbRetry, Advance
    <3>2. \A e \in Docs \ {d} : status'[e] = status[e]
      BY <2>6 DEF SaveParsing, WriteRow, SetRow
    <3> QED
      BY <3>1, <3>2
  <2>7. CASE Enqueue(d)
    BY <2>7 DEF Enqueue, Advance
  <2>8. CASE ThrowInRequest(d)
    BY <2>8 DEF ThrowInRequest, Advance, Forget
  <2>9. CASE UndoObject(d)
    BY <2>9 DEF UndoObject, Advance
  <2>10. CASE UndoRow(d)
    BY <2>10 DEF UndoRow, Advance, SetRow
  <2>11. CASE CrashRequest(d)
    BY <2>11 DEF CrashRequest, Advance, Forget
  <2> QED
    BY <1>1, <2>1, <2>2, <2>3, <2>4, <2>5, <2>6, <2>7, <2>8, <2>9, <2>10, <2>11
       DEF RequestStep
<1>2. ASSUME NEW d \in Docs, RequeueStalled(d) \/ Age(d) \/ GoQuiet(d) PROVE Moved
  <2>1. CASE RequeueStalled(d)
    BY <2>1 DEF RequeueStalled
  <2>2. CASE Age(d)
    BY <2>2 DEF Age
  <2>3. CASE GoQuiet(d)
    BY <2>3 DEF GoQuiet
  <2> QED
    BY <1>2, <2>1, <2>2, <2>3
<1>3. ASSUME NEW w \in Workers, WorkerStep(w) PROVE Moved
  <2>1. CASE LoadRow(w)
    BY <2>1 DEF LoadRow, Goto, AfterLoad
  <2>2. CASE Extract(w)
    BY <2>2 DEF Extract, Goto
  <2>3. CASE SelectForReady(w)
    BY <2>3 DEF SelectForReady, Goto, Select
  <2>4. CASE SaveReady(w)
    <3>1. on[w] \in Docs /\ phase[w] = "writing" /\ copy[w].status \in Pending
      BY <2>4 DEF SaveReady
    <3>2. UNCHANGED rowVars \/ WriteRow(on[w], seen[w], ReadyEntity)
      BY <2>4 DEF SaveReady
    <3>3. \A e \in Docs \ {on[w]} : status'[e] = status[e]
      BY <3>2, StatusElsewhere
    <3> QED
      BY <3>1, <3>3
  <2>5. CASE CompleteJob(w)
    BY <2>5 DEF CompleteJob, GoIdle, Forget, HoldsLock
  <2>6. CASE FailJob(w)
    BY <2>6 DEF FailJob, GoIdle, Forget, HoldsLock, WillRetry
  <2>7. CASE ReadForReport(w)
    BY <2>7 DEF ReadForReport, MayReport, GoIdle, Forget
  <2>8. CASE SelectForReport(w)
    BY <2>8 DEF SelectForReport, Goto, Select
  <2>9. CASE ReportFailed(w)
    <3>1. on[w] \in Docs /\ phase[w] = "marking" /\ copy[w].status # "ready"
      BY <2>9 DEF ReportFailed
    <3>2. UNCHANGED rowVars \/ WriteRow(on[w], seen[w], FailedEntity(w))
      BY <2>9 DEF ReportFailed
    <3>3. \A e \in Docs \ {on[w]} : status'[e] = status[e]
      BY <3>2, StatusElsewhere
    <3> QED
      BY <3>1, <3>3
  <2> QED
    BY <1>3, <2>1, <2>2, <2>3, <2>4, <2>5, <2>6, <2>7, <2>8, <2>9 DEF WorkerStep
<1>4. ASSUME NEW w \in Workers, WorkerFault(w) PROVE Moved
  <2>1. CASE ThrowInJob(w)
    BY <2>1 DEF ThrowInJob, Forget
  <2>2. CASE CrashWorker(w)
    BY <2>2 DEF CrashWorker, GoIdle, Forget
  <2>3. CASE LoseLock(w)
    BY <2>3 DEF LoseLock, HoldsLock
  <2> QED
    BY <1>4, <2>1, <2>2, <2>3 DEF WorkerFault
<1>5. ASSUME NEW w \in Workers, NEW d \in Docs, TakeJob(w, d) PROVE Moved
  BY <1>5 DEF TakeJob, Goto
<1>6. ASSUME NEW s \in Sweeps, SweepStep(s) PROVE Moved
  <2>1. CASE FindStuck(s)
    BY <2>1 DEF FindStuck
  <2>2. CASE MarkStuckFailed(s)
    BY <2>2 DEF MarkStuckFailed, Reaped, FailRows
  <2>3. CASE AbandonSweep(s)
    BY <2>3 DEF AbandonSweep
  <2> QED
    BY <1>6, <2>1, <2>2, <2>3 DEF SweepStep
<1>7. CASE Recover
  BY <1>7 DEF Recover, FailRows
<1>8. CASE UNCHANGED vars
  BY <1>8 DEF vars
<1> QED
  BY <1>1, <1>2, <1>3, <1>4, <1>5, <1>6, <1>7, <1>8 DEF Next

-----------------------------------------------------------------------------
(* The theorems *)

\* Every reachable state satisfies IInv.
THEOREM Invariance == Spec => []IInv
<1>1. IInv /\ [Next]_vars => IInv'
  BY TypeStep, WorkerStepKeeps, JobStep, RequestStepKeeps, RowStep, ReportStep DEF IInv
<1> QED
  BY InitInv, <1>1, PTL DEF Spec

\* TypeOK holds of every reachable state.
THEOREM TypeCorrect == Spec => []TypeOK
<1>1. IInv => TypeOK
  BY DEF IInv
<1> QED
  BY Invariance, <1>1, PTL

\* A READY document holds its text and stands at 100 %, whoever saved an old entity
\* over its row and whatever that save had selected.
THEOREM TextWithReady == Spec => []ReadyHasText
<1>1. IInv => ReadyHasText
  <2> SUFFICES ASSUME IInv, NEW d \in Docs
               PROVE  /\ status[d] = "ready" => text[d]
                      /\ status[d] = "ready" <=> percent[d] = 100
                      /\ text[d] => status[d] \in Terminal
    BY DEF ReadyHasText
  <2>1. Row(d) \in EarlyRows \cup JobRows
    BY DEF IInv, RowInv, RowIs
  <2>2. \A r \in EarlyRows \cup JobRows :
          /\ r.status = "ready" => r.text
          /\ r.status = "ready" <=> r.percent = 100
          /\ r.text => r.status \in Terminal
    <3>1. \A r \in EarlyRows : r.status # "ready" /\ r.percent # 100 /\ r.text = FALSE
      BY EarlyRow
    <3>2. \A r \in JobRows : /\ r.status = "ready" => r.text
                             /\ r.status = "ready" <=> r.percent = 100
                             /\ r.text => r.status \in Terminal
      BY DEF JobRows, NoRow, ParsingEntity, ReadyEntity, Failed, Terminal
    <3> QED
      BY <3>1, <3>2
  <2>3. Row(d).status = status[d] /\ Row(d).percent = percent[d] /\ Row(d).text = text[d]
    BY DEF Row
  <2> QED
    BY <2>1, <2>2, <2>3
<1> QED
  BY Invariance, <1>1, PTL

\* An accepted upload keeps its row and its object.
THEOREM AcceptedStored == Spec => []AcceptedIsStored
<1>1. IInv => AcceptedIsStored
  BY DEF IInv, RequestInv, AcceptedIsStored
<1> QED
  BY Invariance, <1>1, PTL

\* A verdict is moved on only by somebody who read the row before it.
THEOREM VerdictKept == Spec => VerdictStands
<1>1. IInv /\ [Next]_vars => [Moved]_vars
  BY VerdictStep DEF IInv
<1> QED
  BY Invariance, <1>1, PTL DEF Spec, VerdictStands, Moved
=============================================================================
