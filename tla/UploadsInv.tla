----------------------------- MODULE UploadsInv -----------------------------
(* The inductive invariant behind the safety properties of Uploads. *)
EXTENDS Uploads

\* What a worker has loaded when it comes to save.
WorkerInv ==
    \A w \in Workers :
       /\ phase[w] # "idle" => on[w] \in Docs
       /\ phase[w] \in {"fetching", "saving", "writing"} => copy[w].status \in Pending
       /\ phase[w] \in {"reporting", "marking"} => copy[w].status \notin {"none", "ready"}

\* Jobs come from requests that have come as far as the queue; a locked job is
\* active, and one that is still to run has an attempt left.
JobInv ==
    /\ \A d \in Docs : job[d] # "none" =>
          request[d] \in {"accepted", "undoing", "undoingRow", "rejected", "lost"}
    /\ \A w \in Workers : on[w] \in Docs => job[on[w]] # "none"
    /\ \A d \in Docs :
          /\ lock[d] # None => job[d] = "active"
          /\ job[d] \in {"none", "waiting", "active"} => attempts[d] < MaxAttempts

\* Until it gives up, a request has its row, and its object once that is stored.
RequestInv ==
    \A d \in Docs :
       /\ request[d] = "idle" => ~Exists(d)
       /\ request[d] \in (InFlight \ {"undoing", "undoingRow"}) \cup {"accepted"}
             => Exists(d)
       /\ request[d] \in {"progress", "parsing", "writing", "queueing", "accepted"}
             => object[d]

Failed(t) == [status |-> "failed", percent |-> 0, text |-> t]

\* The rows there are before a document's job, and from then on.
EarlyRows ==
    [status : {"uploading", "failed"}, percent : {0, 45}, text : {FALSE}]
       \cup {NoRow, ParsingEntity}
JobRows == {NoRow, ParsingEntity, ReadyEntity, Failed(TRUE), Failed(FALSE)}

\* What one row may be, and what the request's save has selected of it.
RowIs(d) ==
    /\ Row(d) \in EarlyRows \cup JobRows
    /\ job[d] # "none" \/ request[d] = "queueing" => Row(d) \in JobRows
    /\ job[d] = "none" => Row(d) \in EarlyRows
    /\ request[d] = "writing" => seen[d] \in EarlyRows \ {NoRow}
    /\ request[d] = "writing" /\ seen[d] = ParsingEntity => Row(d) \in JobRows

\* No save makes a mixture of two rows that is a row of neither kind.
RowInv == \A d \in Docs : RowIs(d)

Reporting(w) == phase[w] \in {"failing", "reporting", "marking"}

\* The report of a job that failed for good is behind it.
Spent(d) == job[d] = "failed" /\ \A w \in Workers : Reporting(w) => on[w] # d

\* What a save that has selected a FAILED row with text relies on.
HoldsText(d) == Spent(d) /\ (Exists(d) => text[d])

Saving(w) == phase[w] \in {"writing", "marking"}

ReportedHaveFailed == \A w \in Workers : Reporting(w) => job[on[w]] = "failed"

ReportedOnce ==
    \A v, w \in Workers : Reporting(v) /\ Reporting(w) /\ on[v] = on[w] => v = w

ReportedWithoutText ==
    \A w \in Workers : phase[w] \in {"reporting", "marking"} => ~copy[w].text

TextIsSpent == \A d \in Docs : Row(d) = Failed(TRUE) => Spent(d)

SelectedJobRows == \A w \in Workers : Saving(w) => seen[w] \in JobRows

SelectedTextStays ==
    \A w \in Workers : Saving(w) /\ seen[w] = Failed(TRUE) => HoldsText(on[w])

\* A job is reported once, from a row read without text; only that report can leave
\* a FAILED row with text, and whoever selects such a row finds the text there when
\* it writes.
ReportInv ==
    /\ ReportedHaveFailed
    /\ ReportedOnce
    /\ ReportedWithoutText
    /\ TextIsSpent
    /\ SelectedJobRows
    /\ SelectedTextStays

\* Everything that is known of a reachable state: what workers and requests rely on
\* and what the row says (processOneFile, handleExtraction, the sweeps).
IInv ==
    /\ TypeOK
    /\ WorkerInv
    /\ JobInv
    /\ RequestInv
    /\ RowInv
    /\ ReportInv
=============================================================================
