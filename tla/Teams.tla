--------------------------------- MODULE Teams ---------------------------------
(***************************************************************************)
(* Invitations of one address into one admin team (AdminTeamsService).     *)
(* An invitation is accepted in a transaction that claims its row, while   *)
(* the account and its role are written outside of it. An index keeps one  *)
(* pending invitation per team and address; it says nothing of expiry.     *)
(* Revoking a member closes its sessions as module Accounts has it.        *)
(***************************************************************************)
EXTENDS Naturals

CONSTANTS
    Requests,       \* requests in progress
    None,           \* no transaction holds the row
    MaxInvitations  \* bound on the invitations that are made

Invitations == 1..MaxInvitations

VARIABLES
    active,         \* the team is not deleted
    status,         \* of each invitation: "none", "pending", "accepted", "revoked"
    expired,        \* the invitations past their expires_at
    holder,         \* the transaction that has claimed the row of each, or None
    account,        \* the address has an account
    role,           \* the account has the role of the invitation
    member,         \* it is a member of the team
    admitted,       \* how often each invitation was accepted
    revoked,        \* the invitations revoked before they were accepted
    pc,             \* what each request does next
    invitation      \* the invitation it works on, 0 for none

vars == <<active, status, expired, holder, account, role, member, admitted, revoked, pc,
          invitation>>

Init ==
    /\ active = TRUE
    /\ status = [i \in Invitations |-> "none"]
    /\ expired = {}
    /\ holder = [i \in Invitations |-> None]
    /\ account \in BOOLEAN /\ role = FALSE /\ member = FALSE
    /\ admitted = [i \in Invitations |-> 0]
    /\ revoked = {}
    /\ pc = [r \in Requests |-> "idle"]
    /\ invitation = [r \in Requests |-> 0]

Goto(r, from, to) ==
    /\ pc[r] = from
    /\ pc' = [pc EXCEPT ![r] = to]

\* UPDATEs wait for the transaction that has changed the row.
RowFree(i) == holder[i] = None

-----------------------------------------------------------------------------
(* inviteMembers, for one address *)

\* The team is read active, and no invitation pending.
Invite(r) ==
    /\ active
    /\ \A i \in Invitations : status[i] # "pending"
    /\ Goto(r, "idle", "inviting")
    /\ UNCHANGED <<active, status, expired, holder, account, role, member, admitted, revoked,
                   invitation>>

CheckMember(r) ==
    /\ \/ member /\ Goto(r, "inviting", "idle")
       \/ ~member /\ Goto(r, "inviting", "inserting")
    /\ UNCHANGED <<active, status, expired, holder, account, role, member, admitted, revoked,
                   invitation>>

\* The index refuses a second pending row, once nobody holds the first. The mail
\* may fail: the invitation stays.
CreateInvitation(r) ==
    /\ Goto(r, "inserting", "idle")
    /\ \A i \in Invitations : status[i] = "pending" => RowFree(i)
    /\ IF \E i \in Invitations : status[i] = "pending"
       THEN UNCHANGED status
       ELSE \E i \in Invitations :
               /\ status[i] = "none" /\ \A j \in 1..(i - 1) : status[j] # "none"
               /\ status' = [status EXCEPT ![i] = "pending"]
    /\ UNCHANGED <<active, expired, holder, account, role, member, admitted, revoked,
                   invitation>>

-----------------------------------------------------------------------------
(* revokeInvitation *)

FindPending(r, i) ==
    /\ status[i] = "pending"
    /\ Goto(r, "idle", "revoking")
    /\ invitation' = [invitation EXCEPT ![r] = i]
    /\ UNCHANGED <<active, status, expired, holder, account, role, member, admitted, revoked>>

\* By id alone: over whatever the row has become.
Revoke(r) ==
    LET i == invitation[r]
    IN  /\ Goto(r, "revoking", "idle")
        /\ RowFree(i)
        /\ status' = [status EXCEPT ![i] = "revoked"]
        /\ revoked' = IF admitted[i] = 0 THEN revoked \cup {i} ELSE revoked
        /\ invitation' = [invitation EXCEPT ![r] = 0]
        /\ UNCHANGED <<active, expired, holder, account, role, member, admitted>>

-----------------------------------------------------------------------------
(* acceptInvite *)

\* The checks, before the password is hashed; the team is not looked at.
ReadInvitation(r, i) ==
    /\ status[i] = "pending" /\ i \notin expired
    /\ Goto(r, "idle", "claiming")
    /\ invitation' = [invitation EXCEPT ![r] = i]
    /\ UNCHANGED <<active, status, expired, holder, account, role, member, admitted, revoked>>

\* Mutant of Claimable: the row is claimed by its id.
ClaimableById(i) == TRUE

\* claimWithManager: UPDATE ... WHERE id = $1 AND status = 'pending'
Claimable(i) == status[i] = "pending"

\* The transaction opens with the claim, which nobody sees until it commits.
Claim(r) ==
    LET i == invitation[r]
    IN  /\ pc[r] = "claiming"
        /\ RowFree(i)
        /\ IF Claimable(i)
           THEN /\ Goto(r, "claiming", "accounting")
                /\ holder' = [holder EXCEPT ![i] = r]
                /\ UNCHANGED invitation
           ELSE /\ Goto(r, "claiming", "idle")
                /\ invitation' = [invitation EXCEPT ![r] = 0]
                /\ UNCHANGED holder
        /\ UNCHANGED <<active, status, expired, account, role, member, admitted, revoked>>

\* On other connections: the account, if there is none, and a role above its own.
CreateAccount(r) ==
    /\ Goto(r, "accounting", "granting")
    /\ account' = TRUE
    /\ UNCHANGED <<active, status, expired, holder, role, member, admitted, revoked,
                   invitation>>

GrantRole(r) ==
    /\ Goto(r, "granting", "joining")
    /\ role' = TRUE
    /\ UNCHANGED <<active, status, expired, holder, account, member, admitted, revoked,
                   invitation>>

FindMembership(r) ==
    /\ \/ member /\ Goto(r, "joining", "committing")
       \/ ~member /\ Goto(r, "joining", "enrolling")
    /\ UNCHANGED <<active, status, expired, holder, account, role, member, admitted, revoked,
                   invitation>>

\* The membership it did not find, which an index keeps single, and the COMMIT;
\* the tokens are issued after it.
Admit(r) ==
    LET i == invitation[r]
    IN  /\ \/ Goto(r, "committing", "idle") /\ UNCHANGED member
           \/ Goto(r, "enrolling", "idle") /\ ~member /\ member' = TRUE
        /\ status' = [status EXCEPT ![i] = "accepted"]
        /\ admitted' = [admitted EXCEPT ![i] = @ + 1]
        /\ holder' = [holder EXCEPT ![i] = None]
        /\ invitation' = [invitation EXCEPT ![r] = 0]
        /\ UNCHANGED <<active, expired, account, role, revoked>>

-----------------------------------------------------------------------------
\* A request dies or a statement fails: its transaction is rolled back, the
\* account and the role stay.
Fail(r) ==
    /\ pc[r] # "idle"
    /\ pc' = [pc EXCEPT ![r] = "idle"]
    /\ holder' = [i \in Invitations |-> IF holder[i] = r THEN None ELSE holder[i]]
    /\ invitation' = [invitation EXCEPT ![r] = 0]
    /\ UNCHANGED <<active, status, expired, account, role, member, admitted, revoked>>

\* revokeMember reads the membership before it deletes it; the role stays.
RevokeMember ==
    /\ member
    /\ member' = FALSE
    /\ UNCHANGED <<active, status, expired, holder, account, role, admitted, revoked, pc,
                   invitation>>

\* softDelete leaves members and invitations.
DeleteTeam ==
    /\ active
    /\ active' = FALSE
    /\ UNCHANGED <<status, expired, holder, account, role, member, admitted, revoked, pc,
                   invitation>>

Expire(i) ==
    /\ status[i] # "none" /\ i \notin expired
    /\ expired' = expired \cup {i}
    /\ UNCHANGED <<active, status, holder, account, role, member, admitted, revoked, pc,
                   invitation>>

Next ==
    \/ \E r \in Requests :
          \/ Invite(r) \/ CheckMember(r) \/ CreateInvitation(r) \/ Revoke(r) \/ Claim(r)
          \/ CreateAccount(r) \/ GrantRole(r) \/ FindMembership(r)
          \/ Admit(r) \/ Fail(r)
          \/ \E i \in Invitations : FindPending(r, i) \/ ReadInvitation(r, i)
    \/ \E i \in Invitations : Expire(i)
    \/ RevokeMember \/ DeleteTeam

Spec == Init /\ [][Next]_vars

-----------------------------------------------------------------------------
(* Properties *)

\* An invitation admits once, and never after a revocation that came first, however
\* long the acceptance that read it pending takes (claimWithManager).
SpentAdmitsNobody ==
    \A i \in Invitations : admitted[i] <= 1 /\ (i \in revoked => admitted[i] = 0)

-----------------------------------------------------------------------------
(* The inductive invariant *)

\* The steps of a request between the claim of an invitation and the COMMIT.
InTransaction == {"accounting", "granting", "joining", "enrolling", "committing"}
AtWork == InTransaction \cup {"revoking", "claiming"}

TypeOK ==
    /\ status \in [Invitations -> {"none", "pending", "accepted", "revoked"}]
    /\ holder \in [Invitations -> Requests \cup {None}]
    /\ admitted \in [Invitations -> Nat]
    /\ pc \in [Requests -> AtWork \cup {"idle", "inviting", "inserting"}]
    /\ invitation \in [Requests -> Invitations \cup {0}]
    /\ revoked \subseteq Invitations

\* The claim of a row and the request that has made it.
ClaimInv ==
    /\ \A r \in Requests : pc[r] \in AtWork => invitation[r] \in Invitations
    /\ \A r \in Requests, i \in Invitations :
          holder[i] = r <=> pc[r] \in InTransaction /\ invitation[r] = i
    /\ \A i \in Invitations : holder[i] # None => status[i] = "pending"

\* What the status of an invitation says of the past.
PastInv ==
    \A i \in Invitations :
       /\ admitted[i] <= 1
       /\ admitted[i] = 1 => status[i] \in {"accepted", "revoked"}
       /\ i \in revoked => admitted[i] = 0 /\ status[i] = "revoked"

\* The inductive invariant of acceptInvite, revokeInvitation and inviteMembers.
IInv == TypeOK /\ ClaimInv /\ PastInv
=============================================================================
