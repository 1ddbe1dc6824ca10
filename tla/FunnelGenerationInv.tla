------------------------ MODULE FunnelGenerationInv ------------------------
(***************************************************************************)
(* The inductive invariant behind the safety properties of                 *)
(* FunnelGeneration, in three layers. The first two hold whatever the      *)
(* constants are; the third needs workers that keep the lock of their job  *)
(* and no rename (Undisturbed): the rename run shows what happens without. *)
(***************************************************************************)
EXTENDS FunnelGeneration

BeforeQueue == {"idle", "validating", "inserted"}

\* Every worker in the processor has a funnel, only a running job has a lock,
\* and a job that can still run has attempts left.
JobInv ==
    /\ \A w \in Workers : phase[w] # "idle" => on[w] \in Funnels
    /\ \A f \in Funnels :
          /\ lock[f] # None => job[f] = "active"
          /\ job[f] \in {"none", "waiting", "active"} => attempts[f] < MaxAttempts
          /\ request[f] \in BeforeQueue => job[f] = "none"

TypeInv == TypeOK /\ JobInv

\* A funnel claims its key from the INSERT on, before the row is visible.
Claims(f) == Exists(f) \/ request[f] \in OpenTx

\* There is a row only after the commit, a deletion has locked one, and claims on
\* a key exclude each other.
KeyInv ==
    /\ \A f \in Funnels :
          /\ request[f] # "accepted" => funnel[f] = "none" /\ renaming[f] = None
          /\ (request[f] = "idle") <=> (key[f] = "unset")
    /\ \A f \in deleting : Exists(f)
    /\ \A f, g \in Funnels : f # g /\ SameKey(f, g) => ~(Claims(f) /\ Claims(g))

Undisturbed == ~LockLoss /\ ~Renames

Unfinished(f) == funnel[f] \in {"GENERATING", "FAILED", "deleted"}
Finished(f) == funnel[f] \in {"ACTIVE", "deleted"}

\* A worker in the processor holds the lock of its active job, so no other is
\* there with it; until it writes, the funnel is not ACTIVE, and once it has
\* written, it is.
WorkerInv ==
    \A w \in Workers :
       /\ phase[w] \in RunPhases => job[on[w]] = "active" /\ lock[on[w]] = w
       /\ phase[w] \in FailPhases => job[on[w]] = "failed"
       /\ phase[w] \in {"generating", "writing", "updating", "activating", "marking"} =>
             Unfinished(on[w])
       /\ phase[w] = "written" => Finished(on[w])

RowInv ==
    /\ \A f \in Funnels : renaming[f] = None
    /\ TasksMatchStatus
    /\ GeneratedEventsHold

\* Everything that is known of a reachable state when nothing disturbs the
\* workers: their locks exclude each other, the tables match what the workers
\* are doing and what was announced, and every key has one claimant
\* (handleGenerateFunnel, onFailed, createGeneration).
IInv == TypeInv /\ KeyInv /\ WorkerInv /\ RowInv
=============================================================================
