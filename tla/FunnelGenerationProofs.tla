----------------------- MODULE FunnelGenerationProofs -----------------------
(***************************************************************************)
(* The safety properties of FunnelGeneration for every number of funnels,  *)
(* users, keys, workers, sweeps and attempts.                              *)
(*                                                                         *)
(* Three invariance lemmas, one per layer of IInv, with a step per action; *)
(* the theorems follow from them. ActiveIsFinal comes for free once the    *)
(* tables are known to implement FunnelLifecycle, whose actions never      *)
(* touch an ACTIVE funnel but to remove it.                                *)
(***************************************************************************)
EXTENDS FunnelGenerationInv, TLAPS

-----------------------------------------------------------------------------
(* Types, locks and attempts *)

\* Nothing has started: no worker, no job, no request.
LEMMA TypeInvInit == Init => TypeInv
  BY ConstantsAssumption
     DEF Init, TypeInv, TypeOK, JobInv, BeforeQueue, Statuses, RequestPhases, WorkerPhases

\* Every action keeps the types, and the counters below their limits: FailJob
\* raises attempts only for the holder of the lock, whose job is active.
LEMMA TypeInvStep ==
  TypeInv /\ [Next]_vars => TypeInv'
<1> SUFFICES ASSUME TypeInv, [Next]_vars PROVE TypeInv'
  OBVIOUS
<1> USE ConstantsAssumption DEF TypeInv, TypeOK, JobInv, BeforeQueue, RequestPhases,
   Statuses, WorkerPhases, RunPhases, FailPhases, requestVars, rowVars, jobVars,
   workerVars, userVars, eventVars
<1>1. ASSUME NEW f \in Funnels, RequestStep(f) PROVE TypeInv'
  <2>1. CASE RejectRequest(f)
    BY <2>1 DEF RejectRequest, Advance
  <2>2. CASE InsertFunnel(f)
    BY <2>2 DEF InsertFunnel, Advance, KeyTaken, Exists
  <2>3. CASE EnqueueJob(f)
    BY <2>3 DEF EnqueueJob, Advance
  <2>4. CASE CommitFunnel(f)
    BY <2>4 DEF CommitFunnel, Advance
  <2>5. CASE RollBackFunnel(f)
    BY <2>5 DEF RollBackFunnel, Advance, OpenTx
  <2>6. ASSUME NEW k \in Keys, LookUpKey(f, k) PROVE TypeInv'
    BY <2>6 DEF LookUpKey, Advance, KeyTaken, Exists
  <2> QED
    BY <1>1, <2>1, <2>2, <2>3, <2>4, <2>5, <2>6 DEF RequestStep
<1>2. ASSUME NEW w \in Workers, WorkerStep(w) PROVE TypeInv'
  <2>1. CASE LoadFunnel(w)
    BY <2>1 DEF LoadFunnel, Goto, AfterLoad, Exists
  <2>2. CASE GenerateContent(w)
    BY <2>2 DEF GenerateContent, Goto
  <2>3. CASE FindStages(w)
    BY <2>3 DEF FindStages, Goto, Exists
  <2>4. CASE WriteStages(w)
    BY <2>4 DEF WriteStages, Goto, Exists
  <2>5. CASE ActivateFunnel(w)
    BY <2>5 DEF ActivateFunnel, Goto, Exists
  <2>6. CASE EmitGenerated(w)
    BY <2>6 DEF EmitGenerated, Goto
  <2>7. CASE CompleteJob(w)
    BY <2>7 DEF CompleteJob, GoIdle, HoldsLock
  <2>8. CASE FailJob(w)
    BY <2>8 DEF FailJob, GoIdle, HoldsLock, WillRetry
  <2>9. CASE OnFailedRead(w)
    BY <2>9 DEF OnFailedRead, GoIdle
  <2>10. CASE MarkFailed(w)
    BY <2>10 DEF MarkFailed, GoIdle, Exists
  <2> QED
    BY <1>2, <2>1, <2>2, <2>3, <2>4, <2>5, <2>6, <2>7, <2>8, <2>9, <2>10 DEF WorkerStep
<1>3. ASSUME NEW w \in Workers, WorkerFault(w) PROVE TypeInv'
  <2>1. CASE ThrowInJob(w)
    BY <2>1 DEF ThrowInJob
  <2>2. CASE Crash(w)
    BY <2>2 DEF Crash, GoIdle
  <2>3. CASE LoseLock(w)
    BY <2>3 DEF LoseLock, HoldsLock
  <2> QED
    BY <1>3, <2>1, <2>2, <2>3 DEF WorkerFault
<1>4. ASSUME NEW w \in Workers, NEW f \in Funnels, TakeJob(w, f) PROVE TypeInv'
  BY <1>4 DEF TakeJob
<1>5. ASSUME NEW f \in Funnels, RequeueStalled(f) PROVE TypeInv'
  BY <1>5 DEF RequeueStalled
<1>6. ASSUME NEW f \in Funnels, Age(f) PROVE TypeInv'
  BY <1>6 DEF Age
<1>7. ASSUME NEW s \in Sweeps, SweepStep(s) PROVE TypeInv'
  <2>1. CASE FindStuck(s)
    BY <2>1 DEF FindStuck, StuckFunnels
  <2>2. CASE MarkStuckFailed(s)
    BY <2>2 DEF MarkStuckFailed, Reaped
  <2>3. CASE AbandonSweep(s)
    BY <2>3 DEF AbandonSweep
  <2> QED
    BY <1>7, <2>1, <2>2, <2>3 DEF SweepStep
<1>8. ASSUME NEW f \in Funnels, DeleteStep(f) PROVE TypeInv'
  <2>1. CASE LockForDelete(f)
    BY <2>1 DEF LockForDelete, Exists
  <2>2. CASE CommitDelete(f)
    BY <2>2 DEF CommitDelete
  <2>3. CASE RollBackDelete(f)
    BY <2>3 DEF RollBackDelete
  <2> QED
    BY <1>8, <2>1, <2>2, <2>3 DEF DeleteStep
<1>9. ASSUME NEW f \in Funnels, RenameStep(f) PROVE TypeInv'
  <2>1. CASE ReadForRename(f)
    BY <2>1 DEF ReadForRename, Exists
  <2>2. CASE SaveRename(f)
    BY <2>2 DEF SaveRename, Exists, KeyTaken
  <2> QED
    BY <1>9, <2>1, <2>2 DEF RenameStep
<1>10. CASE UNCHANGED vars
  BY <1>10 DEF vars
<1> QED
  BY <1>1, <1>2, <1>3, <1>4, <1>5, <1>6, <1>7, <1>8, <1>9, <1>10 DEF Next

-----------------------------------------------------------------------------
(* Rows and keys *)

\* No key is claimed before the first request.
LEMMA KeyInvInit == Init => KeyInv
  BY DEF Init, KeyInv, Claims, Exists, Statuses, OpenTx

\* A second claim on a key would have to pass InsertFunnel, which waits for the
\* open transactions and fails on a committed row.
LEMMA KeyInvStep ==
  TypeInv /\ KeyInv /\ [Next]_vars => KeyInv'
<1> SUFFICES ASSUME TypeInv, KeyInv, [Next]_vars PROVE KeyInv'
  OBVIOUS
<1> USE ConstantsAssumption DEF TypeInv, TypeOK, KeyInv, Claims, SameKey, Exists,
   Statuses, OpenTx, NoOpenInsert, KeyTaken, requestVars, rowVars, jobVars, workerVars,
   userVars, eventVars
<1>1. ASSUME NEW f \in Funnels, RequestStep(f) PROVE KeyInv'
  <2>1. CASE RejectRequest(f)
    BY <2>1 DEF RejectRequest, Advance
  <2>2. CASE InsertFunnel(f)
    BY <2>2 DEF InsertFunnel, Advance
  <2>3. CASE EnqueueJob(f)
    BY <2>3 DEF EnqueueJob, Advance
  <2>4. CASE CommitFunnel(f)
    BY <2>4 DEF CommitFunnel, Advance
  <2>5. CASE RollBackFunnel(f)
    BY <2>5 DEF RollBackFunnel, Advance
  <2>6. ASSUME NEW k \in Keys, LookUpKey(f, k) PROVE KeyInv'
    BY <2>6 DEF LookUpKey, Advance
  <2> QED
    BY <1>1, <2>1, <2>2, <2>3, <2>4, <2>5, <2>6 DEF RequestStep
<1>2. ASSUME NEW w \in Workers, WorkerStep(w) PROVE KeyInv'
  <2>1. CASE LoadFunnel(w)
    BY <2>1 DEF LoadFunnel, Goto
  <2>2. CASE GenerateContent(w)
    BY <2>2 DEF GenerateContent, Goto
  <2>3. CASE FindStages(w)
    BY <2>3 DEF FindStages, Goto
  <2>4. CASE WriteStages(w)
    BY <2>4 DEF WriteStages, Goto
  <2>5. CASE ActivateFunnel(w)
    BY <2>5 DEF ActivateFunnel, Goto
  <2>6. CASE EmitGenerated(w)
    BY <2>6 DEF EmitGenerated, Goto
  <2>7. CASE CompleteJob(w)
    BY <2>7 DEF CompleteJob, GoIdle
  <2>8. CASE FailJob(w)
    BY <2>8 DEF FailJob, GoIdle
  <2>9. CASE OnFailedRead(w)
    BY <2>9 DEF OnFailedRead, GoIdle
  <2>10. CASE MarkFailed(w)
    BY <2>10 DEF MarkFailed, GoIdle
  <2> QED
    BY <1>2, <2>1, <2>2, <2>3, <2>4, <2>5, <2>6, <2>7, <2>8, <2>9, <2>10 DEF WorkerStep
<1>3. ASSUME NEW w \in Workers, WorkerFault(w) PROVE KeyInv'
  <2>1. CASE ThrowInJob(w)
    BY <2>1 DEF ThrowInJob
  <2>2. CASE Crash(w)
    BY <2>2 DEF Crash, GoIdle
  <2>3. CASE LoseLock(w)
    BY <2>3 DEF LoseLock
  <2> QED
    BY <1>3, <2>1, <2>2, <2>3 DEF WorkerFault
<1>4. ASSUME NEW w \in Workers, NEW f \in Funnels, TakeJob(w, f) PROVE KeyInv'
  BY <1>4 DEF TakeJob
<1>5. ASSUME NEW f \in Funnels, RequeueStalled(f) PROVE KeyInv'
  BY <1>5 DEF RequeueStalled
<1>6. ASSUME NEW f \in Funnels, Age(f) PROVE KeyInv'
  BY <1>6 DEF Age
<1>7. ASSUME NEW s \in Sweeps, SweepStep(s) PROVE KeyInv'
  <2>1. CASE FindStuck(s)
    BY <2>1 DEF FindStuck
  <2>2. CASE MarkStuckFailed(s)
    BY <2>2 DEF MarkStuckFailed, Reaped
  <2>3. CASE AbandonSweep(s)
    BY <2>3 DEF AbandonSweep
  <2> QED
    BY <1>7, <2>1, <2>2, <2>3 DEF SweepStep
<1>8. ASSUME NEW f \in Funnels, DeleteStep(f) PROVE KeyInv'
  <2>1. CASE LockForDelete(f)
    BY <2>1 DEF LockForDelete
  <2>2. CASE CommitDelete(f)
    BY <2>2 DEF CommitDelete
  <2>3. CASE RollBackDelete(f)
    BY <2>3 DEF RollBackDelete
  <2> QED
    BY <1>8, <2>1, <2>2, <2>3 DEF DeleteStep
<1>9. ASSUME NEW f \in Funnels, RenameStep(f) PROVE KeyInv'
  <2>1. CASE ReadForRename(f)
    BY <2>1 DEF ReadForRename
  <2>2. CASE SaveRename(f)
    BY <2>2 DEF SaveRename
  <2> QED
    BY <1>9, <2>1, <2>2 DEF RenameStep
<1>10. CASE UNCHANGED vars
  BY <1>10 DEF vars
<1> QED
  BY <1>1, <1>2, <1>3, <1>4, <1>5, <1>6, <1>7, <1>8, <1>9, <1>10 DEF Next

-----------------------------------------------------------------------------
(* Workers and what they have written *)

\* Every worker is idle at first.
LEMMA WorkerInvInit == Init => WorkerInv
  BY DEF Init, WorkerInv, RunPhases, FailPhases

\* A worker takes a waiting job, so nobody else is in the processor with it, and
\* the job leaves "active" only by its own hand: without a lost lock the check
\* for stalled jobs finds only jobs whose worker has died.
LEMMA WorkerInvStep ==
  Undisturbed /\ IInv /\ [Next]_vars => WorkerInv'
<1> SUFFICES ASSUME Undisturbed, IInv, [Next]_vars PROVE WorkerInv'
  OBVIOUS
<1> USE ConstantsAssumption DEF IInv, TypeInv, TypeOK, JobInv, WorkerInv, RunPhases,
   FailPhases, Unfinished, Finished, Exists, Statuses, requestVars, rowVars, jobVars,
   workerVars, userVars, eventVars
<1>1. ASSUME NEW f \in Funnels, RequestStep(f) PROVE WorkerInv'
  <2>1. CASE RejectRequest(f)
    BY <2>1 DEF RejectRequest, Advance
  <2>2. CASE InsertFunnel(f)
    BY <2>2 DEF InsertFunnel, Advance
  <2>3. CASE EnqueueJob(f)
    BY <2>3 DEF EnqueueJob, Advance, BeforeQueue
  <2>4. CASE CommitFunnel(f)
    BY <2>4 DEF CommitFunnel, Advance, KeyInv
  <2>5. CASE RollBackFunnel(f)
    BY <2>5 DEF RollBackFunnel, Advance
  <2>6. ASSUME NEW k \in Keys, LookUpKey(f, k) PROVE WorkerInv'
    BY <2>6 DEF LookUpKey, Advance
  <2> QED
    BY <1>1, <2>1, <2>2, <2>3, <2>4, <2>5, <2>6 DEF RequestStep
<1>2. ASSUME NEW w \in Workers, WorkerStep(w) PROVE WorkerInv'
  <2>1. CASE LoadFunnel(w)
    BY <2>1 DEF LoadFunnel, Goto, AfterLoad
  <2>2. CASE GenerateContent(w)
    BY <2>2 DEF GenerateContent, Goto
  <2>3. CASE FindStages(w)
    BY <2>3 DEF FindStages, Goto
  <2>4. CASE WriteStages(w)
    BY <2>4 DEF WriteStages, Goto
  <2>5. CASE ActivateFunnel(w)
    BY <2>5 DEF ActivateFunnel, Goto
  <2>6. CASE EmitGenerated(w)
    BY <2>6 DEF EmitGenerated, Goto
  <2>7. CASE CompleteJob(w)
    BY <2>7 DEF CompleteJob, GoIdle, HoldsLock
  <2>8. CASE FailJob(w)
    BY <2>8 DEF FailJob, GoIdle, HoldsLock
  <2>9. CASE OnFailedRead(w)
    BY <2>9 DEF OnFailedRead, GoIdle, MayMarkFailed
  <2>10. CASE MarkFailed(w)
    BY <2>10 DEF MarkFailed, GoIdle
  <2> QED
    BY <1>2, <2>1, <2>2, <2>3, <2>4, <2>5, <2>6, <2>7, <2>8, <2>9, <2>10 DEF WorkerStep
<1>3. ASSUME NEW w \in Workers, WorkerFault(w) PROVE WorkerInv'
  <2>1. CASE ThrowInJob(w)
    BY <2>1 DEF ThrowInJob
  <2>2. CASE Crash(w)
    BY <2>2 DEF Crash, GoIdle
  <2>3. CASE LoseLock(w)
    BY <2>3 DEF LoseLock, Undisturbed
  <2> QED
    BY <1>3, <2>1, <2>2, <2>3 DEF WorkerFault
<1>4. ASSUME NEW w \in Workers, NEW f \in Funnels, TakeJob(w, f) PROVE WorkerInv'
  BY <1>4 DEF TakeJob
<1>5. ASSUME NEW f \in Funnels, RequeueStalled(f) PROVE WorkerInv'
  BY <1>5 DEF RequeueStalled
<1>6. ASSUME NEW f \in Funnels, Age(f) PROVE WorkerInv'
  BY <1>6 DEF Age
<1>7. ASSUME NEW s \in Sweeps, SweepStep(s) PROVE WorkerInv'
  <2>1. CASE FindStuck(s)
    BY <2>1 DEF FindStuck
  <2>2. CASE MarkStuckFailed(s)
    BY <2>2 DEF MarkStuckFailed, Reaped
  <2>3. CASE AbandonSweep(s)
    BY <2>3 DEF AbandonSweep
  <2> QED
    BY <1>7, <2>1, <2>2, <2>3 DEF SweepStep
<1>8. ASSUME NEW f \in Funnels, DeleteStep(f) PROVE WorkerInv'
  <2>1. CASE LockForDelete(f)
    BY <2>1 DEF LockForDelete
  <2>2. CASE CommitDelete(f)
    BY <2>2 DEF CommitDelete
  <2>3. CASE RollBackDelete(f)
    BY <2>3 DEF RollBackDelete
  <2> QED
    BY <1>8, <2>1, <2>2, <2>3 DEF DeleteStep
<1>9. ASSUME NEW f \in Funnels, RenameStep(f) PROVE WorkerInv'
  <2>1. CASE ReadForRename(f)
    BY <2>1 DEF ReadForRename, Undisturbed
  <2>2. CASE SaveRename(f)
    BY <2>2 DEF SaveRename, RowInv
  <2> QED
    BY <1>9, <2>1, <2>2 DEF RenameStep
<1>10. CASE UNCHANGED vars
  BY <1>10 DEF vars
<1> QED
  BY <1>1, <1>2, <1>3, <1>4, <1>5, <1>6, <1>7, <1>8, <1>9, <1>10 DEF Next

\* There are neither rows nor tasks nor announcements at first.
LEMMA RowInvInit == Init => RowInv
  BY DEF Init, RowInv, TasksMatchStatus, GeneratedEventsHold

\* Tasks are added only to an unfinished funnel, FAILED is only written to one.
LEMMA RowInvStep ==
  Undisturbed /\ IInv /\ [Next]_vars => RowInv'
<1> SUFFICES ASSUME Undisturbed, IInv, [Next]_vars PROVE RowInv'
  OBVIOUS
<1> USE ConstantsAssumption DEF IInv, TypeInv, TypeOK, JobInv, RowInv, TasksMatchStatus,
   GeneratedEventsHold, Exists, Statuses, requestVars, rowVars, jobVars, workerVars,
   userVars, eventVars
<1>1. ASSUME NEW f \in Funnels, RequestStep(f) PROVE RowInv'
  <2>1. CASE RejectRequest(f)
    BY <2>1 DEF RejectRequest, Advance
  <2>2. CASE InsertFunnel(f)
    BY <2>2 DEF InsertFunnel, Advance
  <2>3. CASE EnqueueJob(f)
    BY <2>3 DEF EnqueueJob, Advance
  <2>4. CASE CommitFunnel(f)
    BY <2>4 DEF CommitFunnel, Advance, KeyInv, WorkerInv, Unfinished, Finished
  <2>5. CASE RollBackFunnel(f)
    BY <2>5 DEF RollBackFunnel, Advance
  <2>6. ASSUME NEW k \in Keys, LookUpKey(f, k) PROVE RowInv'
    BY <2>6 DEF LookUpKey, Advance
  <2> QED
    BY <1>1, <2>1, <2>2, <2>3, <2>4, <2>5, <2>6 DEF RequestStep
<1>2. ASSUME NEW w \in Workers, WorkerStep(w) PROVE RowInv'
  <2>1. CASE LoadFunnel(w)
    BY <2>1 DEF LoadFunnel, Goto
  <2>2. CASE GenerateContent(w)
    BY <2>2 DEF GenerateContent, Goto
  <2>3. CASE FindStages(w)
    BY <2>3 DEF FindStages, Goto
  <2>4. CASE WriteStages(w)
    BY <2>4 DEF WriteStages, Goto
  <2>5. CASE ActivateFunnel(w)
    BY <2>5 DEF ActivateFunnel, Goto, WorkerInv, Unfinished
  <2>6. CASE EmitGenerated(w)
    BY <2>6 DEF EmitGenerated, Goto, WorkerInv, Finished
  <2>7. CASE CompleteJob(w)
    BY <2>7 DEF CompleteJob, GoIdle
  <2>8. CASE FailJob(w)
    BY <2>8 DEF FailJob, GoIdle
  <2>9. CASE OnFailedRead(w)
    BY <2>9 DEF OnFailedRead, GoIdle
  <2>10. CASE MarkFailed(w)
    BY <2>10 DEF MarkFailed, GoIdle, WorkerInv, Unfinished
  <2> QED
    BY <1>2, <2>1, <2>2, <2>3, <2>4, <2>5, <2>6, <2>7, <2>8, <2>9, <2>10 DEF WorkerStep
<1>3. ASSUME NEW w \in Workers, WorkerFault(w) PROVE RowInv'
  <2>1. CASE ThrowInJob(w)
    BY <2>1 DEF ThrowInJob
  <2>2. CASE Crash(w)
    BY <2>2 DEF Crash, GoIdle
  <2>3. CASE LoseLock(w)
    BY <2>3 DEF LoseLock
  <2> QED
    BY <1>3, <2>1, <2>2, <2>3 DEF WorkerFault
<1>4. ASSUME NEW w \in Workers, NEW f \in Funnels, TakeJob(w, f) PROVE RowInv'
  BY <1>4 DEF TakeJob
<1>5. ASSUME NEW f \in Funnels, RequeueStalled(f) PROVE RowInv'
  BY <1>5 DEF RequeueStalled
<1>6. ASSUME NEW f \in Funnels, Age(f) PROVE RowInv'
  BY <1>6 DEF Age
<1>7. ASSUME NEW s \in Sweeps, SweepStep(s) PROVE RowInv'
  <2>1. CASE FindStuck(s)
    BY <2>1 DEF FindStuck
  <2>2. CASE MarkStuckFailed(s)
    BY <2>2 DEF MarkStuckFailed, Reaped
  <2>3. CASE AbandonSweep(s)
    BY <2>3 DEF AbandonSweep
  <2> QED
    BY <1>7, <2>1, <2>2, <2>3 DEF SweepStep
<1>8. ASSUME NEW f \in Funnels, DeleteStep(f) PROVE RowInv'
  <2>1. CASE LockForDelete(f)
    BY <2>1 DEF LockForDelete
  <2>2. CASE CommitDelete(f)
    BY <2>2 DEF CommitDelete
  <2>3. CASE RollBackDelete(f)
    BY <2>3 DEF RollBackDelete
  <2> QED
    BY <1>8, <2>1, <2>2, <2>3 DEF DeleteStep
<1>9. ASSUME NEW f \in Funnels, RenameStep(f) PROVE RowInv'
  <2>1. CASE ReadForRename(f)
    BY <2>1 DEF ReadForRename, Undisturbed
  <2>2. CASE SaveRename(f)
    BY <2>2 DEF SaveRename
  <2> QED
    BY <1>9, <2>1, <2>2 DEF RenameStep
<1>10. CASE UNCHANGED vars
  BY <1>10 DEF vars
<1> QED
  BY <1>1, <1>2, <1>3, <1>4, <1>5, <1>6, <1>7, <1>8, <1>9, <1>10 DEF Next

-----------------------------------------------------------------------------
(* The steps of FunnelLifecycle *)

\* The initial tables are those of FunnelLifecycle.
LEMMA LifecycleInit == Init => Lifecycle!Init
  BY DEF Init, Lifecycle!Init

\* Ask is the lookup, Accept the commit, Complete the worker's commit, Fail the
\* writes of onFailed and of the reaper, Remove the commit of a deletion; every
\* other step leaves the tables alone.
LEMMA LifecycleStep ==
  Undisturbed /\ IInv /\ [Next]_vars => [Lifecycle!Next]_(Lifecycle!lifecycleVars)
<1> SUFFICES ASSUME Undisturbed, IInv, [Next]_vars
             PROVE [Lifecycle!Next]_(Lifecycle!lifecycleVars)
  OBVIOUS
<1> USE DEF IInv, TypeInv, TypeOK, Lifecycle!lifecycleVars

<1>1. ASSUME NEW f \in Funnels, NEW k \in Keys, LookUpKey(f, k)
      PROVE [Lifecycle!Next]_(Lifecycle!lifecycleVars)
  <2>1. funnel[f] = "none" /\ key[f] = "unset"
    BY <1>1 DEF LookUpKey, Advance, KeyInv
  <2>2. Lifecycle!Ask(f, k)
    BY <1>1, <2>1 DEF LookUpKey, rowVars, Lifecycle!Ask
  <2> QED
    BY <2>2 DEF Lifecycle!Next
<1>2. ASSUME NEW f \in Funnels, CommitFunnel(f) PROVE [Lifecycle!Next]_(Lifecycle!lifecycleVars)
  <2>1. funnel[f] = "none" /\ key[f] # "unset"
    BY <1>2 DEF CommitFunnel, Advance, KeyInv
  <2>2. \A g \in Funnels \ {f} : SameKey(f, g) => ~Exists(g)
    BY <1>2 DEF CommitFunnel, Advance, KeyInv, Claims, OpenTx
  <2>3. Lifecycle!Accept(f)
    BY <1>2, <2>1, <2>2
    DEF CommitFunnel, Lifecycle!Accept, SameKey, Exists, Statuses, Lifecycle!SameKey,
       Lifecycle!IsLive
  <2> QED
    BY <2>3 DEF Lifecycle!Next
<1>3. ASSUME NEW f \in Funnels, CommitDelete(f) PROVE [Lifecycle!Next]_(Lifecycle!lifecycleVars)
  <2>1. Lifecycle!Remove(f)
    BY <1>3 DEF CommitDelete, KeyInv, Exists, Statuses, requestVars, Lifecycle!Remove,
       Lifecycle!IsLive
  <2> QED
    BY <2>1 DEF Lifecycle!Next
<1>4. ASSUME NEW f \in Funnels, SaveRename(f) PROVE [Lifecycle!Next]_(Lifecycle!lifecycleVars)
  BY <1>4 DEF SaveRename, RowInv
<1>5. ASSUME NEW w \in Workers, ActivateFunnel(w)
      PROVE [Lifecycle!Next]_(Lifecycle!lifecycleVars)
  <2>1. CASE Exists(on[w])
    <3>1. on[w] \in Funnels /\ Unfinished(on[w])
      BY <1>5 DEF ActivateFunnel, Goto, WorkerInv, JobInv
    <3>2. funnel[on[w]] \in {"GENERATING", "FAILED"} /\ taskSets[on[w]] = 0
      BY <2>1, <3>1 DEF Unfinished, Exists, Statuses, RowInv, TasksMatchStatus
    <3>3. Lifecycle!Complete(on[w])
      BY <1>5, <2>1, <3>2 DEF ActivateFunnel, requestVars, Lifecycle!Complete
    <3> QED
      BY <3>1, <3>3 DEF Lifecycle!Next
  <2>2. CASE ~Exists(on[w])
    BY <1>5, <2>2 DEF ActivateFunnel, requestVars
  <2> QED
    BY <2>1, <2>2
<1>6. ASSUME NEW w \in Workers, MarkFailed(w) PROVE [Lifecycle!Next]_(Lifecycle!lifecycleVars)
  <2>1. on[w] \in Funnels /\ Unfinished(on[w])
    BY <1>6 DEF MarkFailed, WorkerInv, JobInv
  <2>2. CASE funnel[on[w]] = "GENERATING"
    <3>1. Lifecycle!Fail({on[w]})
      BY <1>6, <2>1, <2>2 DEF MarkFailed, Exists, Statuses, requestVars, Lifecycle!Fail
    <3> QED
      BY <2>1, <3>1 DEF Lifecycle!Next
  <2>3. CASE funnel[on[w]] # "GENERATING"
    BY <1>6, <2>1, <2>3 DEF MarkFailed, Unfinished, Exists, Statuses, requestVars
  <2> QED
    BY <2>2, <2>3
<1>7. ASSUME NEW s \in Sweeps, MarkStuckFailed(s)
      PROVE [Lifecycle!Next]_(Lifecycle!lifecycleVars)
  <2>1. Lifecycle!Fail(Reaped(found[s]))
    BY <1>7 DEF MarkStuckFailed, Reaped, requestVars, Lifecycle!Fail
  <2>2. Reaped(found[s]) \in SUBSET Funnels
    BY DEF Reaped
  <2> QED
    BY <2>1, <2>2 DEF Lifecycle!Next
<1>8. ASSUME NEW f \in Funnels,
         RejectRequest(f) \/ InsertFunnel(f) \/ EnqueueJob(f) \/ RollBackFunnel(f)
         \/ RequeueStalled(f) \/ Age(f) \/ LockForDelete(f) \/ RollBackDelete(f) \/ ReadForRename(f)
      PROVE UNCHANGED Lifecycle!lifecycleVars
  BY <1>8 DEF RejectRequest, InsertFunnel, EnqueueJob, RollBackFunnel, RequeueStalled,
     Age, LockForDelete, RollBackDelete, ReadForRename, requestVars, rowVars
<1>9. ASSUME NEW w \in Workers,
         LoadFunnel(w) \/ GenerateContent(w) \/ FindStages(w) \/ WriteStages(w)
         \/ EmitGenerated(w) \/ CompleteJob(w) \/ FailJob(w) \/ OnFailedRead(w) \/ WorkerFault(w)
      PROVE UNCHANGED Lifecycle!lifecycleVars
  BY <1>9 DEF LoadFunnel, GenerateContent, FindStages, WriteStages, EmitGenerated,
     CompleteJob, FailJob, OnFailedRead, ThrowInJob, Crash, LoseLock, WorkerFault,
     requestVars, rowVars
<1>10. ASSUME NEW w \in Workers, NEW f \in Funnels, TakeJob(w, f)
      PROVE UNCHANGED Lifecycle!lifecycleVars
  BY <1>10 DEF TakeJob, requestVars, rowVars
<1>11. ASSUME NEW s \in Sweeps, FindStuck(s) \/ AbandonSweep(s)
      PROVE UNCHANGED Lifecycle!lifecycleVars
  BY <1>11 DEF FindStuck, AbandonSweep, requestVars, rowVars
<1>12. CASE UNCHANGED vars
  BY <1>12 DEF vars, requestVars, rowVars
<1> QED
  BY <1>1, <1>2, <1>3, <1>4, <1>5, <1>6, <1>7, <1>8, <1>9, <1>10, <1>11, <1>12 DEF Next,
     RequestStep, DeleteStep, RenameStep, WorkerStep, WorkerFault, SweepStep

\* No action of FunnelLifecycle takes a funnel out of ACTIVE but Remove.
LEMMA LifecycleKeepsActive ==
  TypeOK /\ [Lifecycle!Next]_(Lifecycle!lifecycleVars) =>
     \A f \in Funnels : funnel[f] = "ACTIVE" => funnel'[f] \in {"ACTIVE", "deleted"}
<1> SUFFICES ASSUME TypeOK, [Lifecycle!Next]_(Lifecycle!lifecycleVars),
                    NEW f \in Funnels, funnel[f] = "ACTIVE"
             PROVE funnel'[f] \in {"ACTIVE", "deleted"}
  OBVIOUS
<1> USE DEF TypeOK
<1>1. ASSUME NEW g \in Funnels, NEW k \in Keys, Lifecycle!Ask(g, k) PROVE funnel'[f] = "ACTIVE"
  BY <1>1 DEF Lifecycle!Ask
<1>2. ASSUME NEW g \in Funnels, Lifecycle!Accept(g) PROVE funnel'[f] = "ACTIVE"
  BY <1>2 DEF Lifecycle!Accept
<1>3. ASSUME NEW g \in Funnels, Lifecycle!Complete(g) PROVE funnel'[f] = "ACTIVE"
  BY <1>3 DEF Lifecycle!Complete
<1>4. ASSUME NEW g \in Funnels, Lifecycle!Remove(g) PROVE funnel'[f] \in {"ACTIVE", "deleted"}
  BY <1>4 DEF Lifecycle!Remove
<1>5. ASSUME NEW F \in SUBSET Funnels, Lifecycle!Fail(F) PROVE funnel'[f] = "ACTIVE"
  BY <1>5 DEF Lifecycle!Fail
<1>6. CASE UNCHANGED Lifecycle!lifecycleVars
  BY <1>6 DEF Lifecycle!lifecycleVars
<1> QED
  BY <1>1, <1>2, <1>3, <1>4, <1>5, <1>6 DEF Lifecycle!Next

-----------------------------------------------------------------------------
(* The theorems *)

\* Types hold whatever the constants are, lost locks and renames included; the
\* attempts of a job never pass its limit.
THEOREM TypeCorrect == Spec => []TypeOK
<1>1. Spec => []TypeInv
  BY TypeInvInit, TypeInvStep, PTL DEF Spec
<1>2. TypeInv => TypeOK
  BY DEF TypeInv
<1> QED
  BY <1>1, <1>2, PTL

\* Resent POSTs never give a user two funnels with one key: createGeneration
\* with the index UQ_funnels_user_idempotency, whatever workers and renames do.
THEOREM IdempotentCreation == Spec => []OneFunnelPerKey
<1>1. Spec => []TypeInv
  BY TypeInvInit, TypeInvStep, PTL DEF Spec
<1>2. Spec => []KeyInv
  BY <1>1, KeyInvInit, KeyInvStep, PTL DEF Spec
<1>3. KeyInv => OneFunnelPerKey
  BY DEF KeyInv, Claims, OneFunnelPerKey
<1> QED
  BY <1>2, <1>3, PTL

\* The inductive invariant, when workers keep their locks and nobody renames.
THEOREM Invariance ==
  ASSUME Undisturbed
  PROVE  Spec => []IInv
<1>1. Init => IInv
  BY TypeInvInit, KeyInvInit, WorkerInvInit, RowInvInit DEF IInv
<1>2. IInv /\ [Next]_vars => IInv'
  BY Undisturbed, TypeInvStep, KeyInvStep, WorkerInvStep, RowInvStep DEF IInv
<1> QED
  BY <1>1, <1>2, PTL DEF Spec

\* The generated tasks are there exactly once, exactly when the funnel is ACTIVE.
THEOREM TasksExactlyOnce ==
  ASSUME Undisturbed
  PROVE  Spec => []TasksMatchStatus
<1>1. IInv => TasksMatchStatus
  BY DEF IInv, RowInv
<1> QED
  BY <1>1, Undisturbed, Invariance, PTL

\* What FUNNEL_GENERATED announced stays true.
THEOREM AnnouncementsHold ==
  ASSUME Undisturbed
  PROVE  Spec => []GeneratedEventsHold
<1>1. IInv => GeneratedEventsHold
  BY DEF IInv, RowInv
<1> QED
  BY <1>1, Undisturbed, Invariance, PTL

\* The tables implement FunnelLifecycle.
THEOREM ImplementsLifecycle ==
  ASSUME Undisturbed
  PROVE  Spec => RefinesLifecycle
<1>1. IInv /\ [Next]_vars => [Lifecycle!Next]_(Lifecycle!lifecycleVars)
  BY Undisturbed, LifecycleStep
<1> QED
  BY <1>1, LifecycleInit, Undisturbed, Invariance, PTL DEF Spec, RefinesLifecycle,
     Lifecycle!Spec

\* An ACTIVE funnel stays ACTIVE until it is deleted: no late FAILED write.
THEOREM ActiveStaysActive ==
  ASSUME Undisturbed
  PROVE  Spec => ActiveIsFinal
<1>1. IInv /\ [Next]_vars =>
         [\A f \in Funnels : funnel[f] = "ACTIVE" => funnel'[f] \in {"ACTIVE", "deleted"}]_vars
  BY Undisturbed, LifecycleStep, LifecycleKeepsActive DEF IInv, TypeInv
<1> QED
  BY <1>1, Undisturbed, Invariance, PTL DEF Spec, ActiveIsFinal
=============================================================================
