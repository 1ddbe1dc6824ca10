------------------------------ MODULE Preferences ------------------------------
(***************************************************************************)
(* The notification preferences of one user (NotificationsService): made   *)
(* by whoever asks for them first, requests and listeners alike. The index *)
(* on user_id keeps one row; who comes second reads the row of the first.  *)
(***************************************************************************)
CONSTANTS Requests

VARIABLES
    user,           \* the user exists
    row,            \* the row exists
    pc,             \* what each request does next
    updating        \* the requests that update, not only read

vars == <<user, row, pc, updating>>

Init ==
    /\ user = TRUE /\ row = FALSE
    /\ pc = [r \in Requests |-> "idle"]
    /\ updating = {}

Goto(r, from, to) ==
    /\ pc[r] = from
    /\ pc' = [pc EXCEPT ![r] = to]

Ask(r) ==
    /\ Goto(r, "idle", "finding")
    /\ updating' \in {updating \cup {r}, updating \ {r}}
    /\ UNCHANGED <<user, row>>

Found(r) == IF r \in updating THEN "writing" ELSE "served"

Find(r) ==
    /\ \/ row /\ Goto(r, "finding", Found(r))
       \/ ~row /\ Goto(r, "finding", "creating")
    /\ UNCHANGED <<user, row, updating>>

\* Mutant of AfterConflict: the violation of the index is not caught.
AfterConflictThrown == "refused"

AfterConflict == "finding again"

Create(r) ==
    /\ \/ ~user /\ Goto(r, "creating", "refused") /\ UNCHANGED row
       \/ user /\ row /\ Goto(r, "creating", AfterConflict) /\ UNCHANGED row
       \/ user /\ ~row /\ Goto(r, "creating", Found(r)) /\ row' = TRUE
    /\ UNCHANGED <<user, updating>>

FindAgain(r) ==
    /\ \/ row /\ Goto(r, "finding again", Found(r))
       \/ ~row /\ Goto(r, "finding again", "refused")
    /\ UNCHANGED <<user, row, updating>>

\* updateByUserId, of the given columns alone; no row to update is a conflict.
Write(r) ==
    /\ \/ row /\ Goto(r, "writing", "served")
       \/ ~row /\ Goto(r, "writing", "refused")
    /\ UNCHANGED <<user, row, updating>>

Answer(r) ==
    /\ \E from \in {"served", "refused"} : Goto(r, from, "idle")
    /\ UNCHANGED <<user, row, updating>>

\* The row goes with its user (ON DELETE CASCADE).
DeleteUser ==
    /\ user
    /\ user' = FALSE /\ row' = FALSE
    /\ UNCHANGED <<pc, updating>>

Next ==
    \/ \E r \in Requests :
          Ask(r) \/ Find(r) \/ Create(r) \/ FindAgain(r) \/ Write(r) \/ Answer(r)
    \/ DeleteUser

Spec == Init /\ [][Next]_vars

-----------------------------------------------------------------------------
(* Properties *)

\* As long as the user exists, nobody who asks for the preferences is refused, however
\* many ask for the first time at once (getNotificationPreferences).
PreferencesServed == user => \A r \in Requests : pc[r] # "refused"

-----------------------------------------------------------------------------
(* The inductive invariant *)

TypeOK ==
    /\ user \in BOOLEAN /\ row \in BOOLEAN
    /\ pc \in [Requests -> {"idle", "finding", "creating", "finding again", "writing",
                            "served", "refused"}]

\* Who has seen the row, or was told of it by the index, finds it again: it goes only
\* with its user.
SeenInv ==
    user => \A r \in Requests : pc[r] \in {"finding again", "writing"} => row

\* The inductive invariant of getNotificationPreferences and its update.
IInv == TypeOK /\ SeenInv /\ PreferencesServed
=============================================================================
