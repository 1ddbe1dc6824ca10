----------------------------- MODULE GoogleSignIn -----------------------------
(***************************************************************************)
(* The account of one e-mail address: registered with a password           *)
(* (UsersService.create), or by a sign-in with Google, which finds the     *)
(* account, links it or creates it (AuthService.handleOAuthLogin); deleted *)
(* for thirty days, then purged or, by a status write that raced the       *)
(* deletion, back again. The index on email keeps one row, deleted or not. *)
(***************************************************************************)
EXTENDS Naturals

CONSTANTS
    Requests,       \* requests in progress
    Profiles,       \* Google identities that come with this address
    None,           \* no Google identity
    MaxAccounts     \* bound on the accounts that are made

VARIABLES
    row,            \* the row; its id is 0 when there is none
    made,           \* how many accounts were made
    pc,             \* what each request does next
    profile,        \* the Google identity it comes with, None to register
    found,          \* the id of the account it is about to link, else 0
    letGo           \* accounts whose Google identity a deletion let go of

vars == <<row, made, pc, profile, found, letGo>>

NoRow == [id |-> 0, provider |-> "local", sub |-> None, deleted |-> FALSE]
Live(account) == account.id # 0 /\ ~account.deleted

Init ==
    /\ row = NoRow /\ made = 0
    /\ pc = [r \in Requests |-> "idle"]
    /\ profile = [r \in Requests |-> None]
    /\ found = [r \in Requests |-> 0]
    /\ letGo = {}

Goto(r, from, to) ==
    /\ pc[r] = from
    /\ pc' = [pc EXCEPT ![r] = to]

Insert(provider, sub) ==
    /\ made < MaxAccounts
    /\ made' = made + 1
    /\ row' = [id |-> made + 1, provider |-> provider, sub |-> sub, deleted |-> FALSE]

-----------------------------------------------------------------------------
(* create *)

AskToRegister(r) ==
    /\ Goto(r, "idle", "looking")
    /\ profile' = [profile EXCEPT ![r] = None]
    /\ UNCHANGED <<row, made, found, letGo>>

\* findByEmailWithDeleted; the password is hashed before the INSERT.
LookUpEmail(r) ==
    /\ \/ row = NoRow /\ Goto(r, "looking", "registering")
       \/ row # NoRow /\ Goto(r, "looking", "idle")
    /\ UNCHANGED <<row, made, profile, found, letGo>>

Register(r) ==
    /\ Goto(r, "registering", "idle")
    /\ \/ row = NoRow /\ Insert("local", None)
       \/ row # NoRow /\ UNCHANGED <<row, made>>
    /\ UNCHANGED <<profile, found, letGo>>

-----------------------------------------------------------------------------
(* handleOAuthLogin *)

AskGoogle(r) ==
    /\ Goto(r, "idle", "finding")
    /\ \E p \in Profiles : profile' = [profile EXCEPT ![r] = p]
    /\ UNCHANGED <<row, made, found, letGo>>

MayLink(account, p) == account.provider = "google" /\ account.sub \in {None, p}

\* Mutant of MayLinkAfterConflict: the account that won the race may be a local one.
LinksAnyUnlinked(account, p) == account.sub \in {None, p}

MayLinkAfterConflict(account, p) == account.provider = "google" /\ account.sub \in {None, p}

\* findByEmail does not see deleted rows.
FindUser(r) ==
    /\ \/ Live(row) /\ MayLink(row, profile[r]) /\ Goto(r, "finding", "linking")
       \/ Live(row) /\ ~MayLink(row, profile[r]) /\ Goto(r, "finding", "idle")
       \/ ~Live(row) /\ Goto(r, "finding", "checking")
    /\ found' = [found EXCEPT ![r] = IF pc'[r] = "linking" THEN row.id ELSE 0]
    /\ UNCHANGED <<row, made, profile, letGo>>

FindDeleted(r) ==
    /\ \/ row.deleted /\ Goto(r, "checking", "idle")
       \/ ~row.deleted /\ Goto(r, "checking", "creating")
    /\ UNCHANGED <<row, made, profile, found, letGo>>

\* Tokens follow at once; on a violation of the index the winner is looked up.
CreateAccount(r) ==
    /\ \/ row = NoRow /\ Insert("google", profile[r]) /\ Goto(r, "creating", "idle")
       \/ row # NoRow /\ Goto(r, "creating", "finding again") /\ UNCHANGED <<row, made>>
    /\ UNCHANGED <<profile, found, letGo>>

FindWinner(r) ==
    /\ \/ /\ Live(row) /\ MayLinkAfterConflict(row, profile[r])
          /\ Goto(r, "finding again", "linking")
       \/ /\ ~Live(row) \/ ~MayLinkAfterConflict(row, profile[r])
          /\ Goto(r, "finding again", "idle")
    /\ found' = [found EXCEPT ![r] = IF pc'[r] = "linking" THEN row.id ELSE 0]
    /\ UNCHANGED <<row, made, profile, letGo>>

\* updateGoogleAccount, by the id that was found; tokens follow unless it has gone.
LinkAccount(r) ==
    /\ Goto(r, "linking", "idle")
    /\ row' = IF row.id = found[r]
              THEN [row EXCEPT !.provider = "google", !.sub = profile[r]]
              ELSE row
    /\ found' = [found EXCEPT ![r] = 0]
    /\ UNCHANGED <<made, profile, letGo>>

\* A query throws, or the process dies.
Fail(r) ==
    /\ pc[r] # "idle"
    /\ pc' = [pc EXCEPT ![r] = "idle"]
    /\ found' = [found EXCEPT ![r] = 0]
    /\ UNCHANGED <<row, made, profile, letGo>>

-----------------------------------------------------------------------------
(* What others do to the account *)

\* deleteAccount and deleteUser: a Google identity is let go of.
Delete ==
    /\ Live(row)
    /\ row' = [row EXCEPT !.deleted = TRUE,
                          !.sub = IF row.provider = "google" THEN None ELSE @]
    /\ letGo' = IF row.provider = "google" THEN letGo \cup {row.id} ELSE letGo
    /\ UNCHANGED <<made, pc, profile, found>>

\* A status write of an admin who read the user before (updateUserStatus).
Restore ==
    /\ row.deleted
    /\ row' = [row EXCEPT !.deleted = FALSE]
    /\ UNCHANGED <<made, pc, profile, found, letGo>>

\* The purge job, or remove.
Purge ==
    /\ row # NoRow
    /\ row' = NoRow
    /\ UNCHANGED <<made, pc, profile, found, letGo>>

Next ==
    \/ \E r \in Requests :
          \/ AskToRegister(r) \/ LookUpEmail(r) \/ Register(r)
          \/ AskGoogle(r) \/ FindUser(r) \/ FindDeleted(r) \/ CreateAccount(r)
          \/ FindWinner(r) \/ LinkAccount(r) \/ Fail(r)
    \/ Delete \/ Restore \/ Purge

Spec == Init /\ [][Next]_vars

-----------------------------------------------------------------------------
(* Properties *)

\* As long as an account exists it never turns from a local into a Google account,
\* and it stays with its Google identity unless a deletion has let go of it, whatever
\* registrations, sign-ins, deletions and purges come between the look at the account
\* and its UPDATE (handleOAuthLogin).
OneIdentity ==
    [][row.id # 0 /\ row'.id = row.id =>
          /\ row'.provider = row.provider
          /\ row'.sub = row.sub \/ row.id \in letGo']_vars

-----------------------------------------------------------------------------
(* The inductive invariant *)

TypeOK ==
    /\ made \in Nat
    /\ row \in [id : 0..made, provider : {"local", "google"}, sub : Profiles \cup {None},
                deleted : BOOLEAN]
    /\ pc \in [Requests -> {"idle", "looking", "registering", "finding", "checking",
                            "creating", "finding again", "linking"}]
    /\ profile \in [Requests -> Profiles \cup {None}]
    /\ found \in [Requests -> 0..made]

\* Whoever signs in with Google has an identity.
ProfileInv ==
    \A r \in Requests :
       pc[r] \in {"finding", "checking", "creating", "finding again", "linking"} =>
          profile[r] \in Profiles

\* A Google account without an identity has lost it to a deletion.
UnlinkedInv ==
    row.id # 0 /\ row.provider = "google" /\ row.sub = None => row.id \in letGo

\* What was found may be gone by now; if it is not, it is still the Google account it
\* was, with no identity but this one or for a deletion to have let go of.
LinkInv ==
    \A r \in Requests : pc[r] = "linking" =>
       /\ found[r] # 0
       /\ row.id = found[r] =>
             row.provider = "google" /\ (row.sub = profile[r] \/ row.id \in letGo)

\* The inductive invariant of create and handleOAuthLogin.
IInv == TypeOK /\ ProfileInv /\ UnlinkedInv /\ LinkInv
=============================================================================
