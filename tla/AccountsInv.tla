----------------------------- MODULE AccountsInv -----------------------------
(* The inductive invariant behind the safety properties of Accounts. *)
EXTENDS Accounts

\* A session in the hands of a request, or with a key, has had its row.
SessionInv ==
    /\ \A r \in Requests :
          /\ pc[r] = "storing" \/ (pc[r] = "finding" /\ task[r] = "refresh")
                => on[r] \in Sessions
          /\ on[r] \in Sessions => row[on[r]] # "none"
          /\ pc[r] = "idle" => on[r] = None
    /\ \A s \in Sessions : key[s] => row[s] # "none"

\* What a request that changes the password has still to revoke.
PasswordInv ==
    \A r \in Requests :
       /\ \A s \in before[r] : row[s] # "none"
       /\ task[r] \in {"change", "reset"} =>
             /\ pc[r] = "revoking" => before[r] \cap Open \subseteq list[r]
             /\ pc[r] \in {"creating", "storing", "answering"} => before[r] \cap Open = {}

\* Everything that is known of a reachable state (issueTokens,
\* revokeAllUserSessions).
IInv == TypeOK /\ SessionInv /\ PasswordInv
=============================================================================
