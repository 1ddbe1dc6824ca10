-------------------------------- MODULE Avatar --------------------------------
(***************************************************************************)
(* The avatar of one user (UsersService): an object in storage, under a    *)
(* path of its own for each upload, and its path in the row of the user.   *)
(* No transaction spans the two, and no lock keeps requests apart.         *)
(***************************************************************************)
EXTENDS Naturals

CONSTANTS
    Requests,       \* requests in progress
    MaxUploads      \* bound on the uploads

Paths == 1..MaxUploads

VARIABLES
    avatar,         \* avatar_url of the user, 0 for null
    objects,        \* the objects in storage
    uploads,        \* how many uploads there were
    pc,             \* what each request does next
    path,           \* the path it uploads to, 0 for a deletion
    previous,       \* the avatar it has read
    broken          \* paths in the row at the time a request failed halfway

vars == <<avatar, objects, uploads, pc, path, previous, broken>>

Init ==
    /\ avatar = 0 /\ objects = {} /\ uploads = 0
    /\ pc = [r \in Requests |-> "idle"]
    /\ path = [r \in Requests |-> 0]
    /\ previous = [r \in Requests |-> 0]
    /\ broken = {}

Goto(r, from, to) ==
    /\ pc[r] = from
    /\ pc' = [pc EXCEPT ![r] = to]

-----------------------------------------------------------------------------
(* uploadAvatar *)

\* The file is checked, the user is read.
StartUpload(r) ==
    /\ uploads < MaxUploads
    /\ Goto(r, "idle", "putting")
    /\ uploads' = uploads + 1
    /\ path' = [path EXCEPT ![r] = uploads + 1]
    /\ previous' = [previous EXCEPT ![r] = avatar]
    /\ UNCHANGED <<avatar, objects, broken>>

\* Mutant of PutObject: the previous object is removed at once.
PutInPlace(r) ==
    /\ Goto(r, "putting", "updating")
    /\ objects' = (objects \ {previous[r]}) \cup {path[r]}
    /\ UNCHANGED <<avatar, uploads, path, previous, broken>>

PutObject(r) ==
    /\ Goto(r, "putting", "updating")
    /\ objects' = objects \cup {path[r]}
    /\ UNCHANGED <<avatar, uploads, path, previous, broken>>

\* The UPDATE; its answer may get lost, which reads as a failure.
UpdateAvatar(r) ==
    /\ \/ Goto(r, "updating", "cleaning") /\ UNCHANGED broken
       \/ Goto(r, "updating", "undoing") /\ broken' = broken \cup {path[r]}
    /\ avatar' = path[r]
    /\ UNCHANGED <<objects, uploads, path, previous>>

\* A failure of this one is logged: no later state tells it from a crash.
DropPrevious(r) ==
    /\ Goto(r, "cleaning", "idle")
    /\ objects' = objects \ {previous[r]}
    /\ UNCHANGED <<avatar, uploads, path, previous, broken>>

\* A step before throws.
FailUpload(r) ==
    /\ \/ Goto(r, "putting", "idle")
       \/ Goto(r, "updating", "undoing")
    /\ UNCHANGED <<avatar, objects, uploads, path, previous, broken>>

Undo(r) ==
    /\ Goto(r, "undoing", "idle")
    /\ objects' = objects \ {path[r]}
    /\ UNCHANGED <<avatar, uploads, path, previous, broken>>

-----------------------------------------------------------------------------
(* deleteAvatar *)

StartDelete(r) ==
    /\ avatar # 0
    /\ Goto(r, "idle", "removing")
    /\ path' = [path EXCEPT ![r] = 0]
    /\ previous' = [previous EXCEPT ![r] = avatar]
    /\ UNCHANGED <<avatar, objects, uploads, broken>>

\* The object goes first ...
RemoveObject(r) ==
    /\ Goto(r, "removing", "clearing")
    /\ objects' = objects \ {previous[r]}
    /\ UNCHANGED <<avatar, uploads, path, previous, broken>>

\* ... then the path, whichever it is by now.
ClearAvatar(r) ==
    /\ Goto(r, "clearing", "idle")
    /\ avatar' = 0
    /\ UNCHANGED <<objects, uploads, path, previous, broken>>

-----------------------------------------------------------------------------
\* The request dies; a deletion leaves the path of an object that is gone.
Crash(r) ==
    /\ pc[r] # "idle"
    /\ Goto(r, pc[r], "idle")
    /\ broken' = IF pc[r] = "clearing" THEN broken \cup {previous[r]} ELSE broken
    /\ UNCHANGED <<avatar, objects, uploads, path, previous>>

Next ==
    \E r \in Requests :
        \/ StartUpload(r) \/ PutObject(r) \/ UpdateAvatar(r) \/ DropPrevious(r)
        \/ FailUpload(r) \/ Undo(r) \/ StartDelete(r) \/ RemoveObject(r) \/ ClearAvatar(r)
        \/ Crash(r)

Spec == Init /\ [][Next]_vars

-----------------------------------------------------------------------------
(* Properties *)

\* Uploads and deletions that overlap in any order leave no path without its object
\* in the row of the user: only a deletion may have one for a moment, or for good if
\* it dies between its two steps, as an upload whose UPDATE was done but not
\* answered.
AvatarStored ==
    \/ avatar \in objects \cup {0} \cup broken
    \/ \E r \in Requests : pc[r] = "clearing" /\ previous[r] = avatar

-----------------------------------------------------------------------------
(* The inductive invariant *)

TypeOK ==
    /\ uploads \in Nat
    /\ avatar \in 0..uploads
    /\ pc \in [Requests -> {"idle", "putting", "updating", "cleaning", "undoing", "removing",
                            "clearing"}]
    /\ path \in [Requests -> 0..uploads]
    /\ previous \in [Requests -> 0..uploads]

\* The path of an upload is its own.
PathInv ==
    \A r \in Requests : pc[r] \in {"putting", "updating", "undoing"} =>
       /\ path[r] # 0
       /\ \A q \in Requests \ {r} :
             pc[q] \in {"putting", "updating", "undoing"} => path[q] # path[r]

\* Until the UPDATE nobody has seen it in the row, so nobody removes its object.
UnseenInv ==
    \A r \in Requests : pc[r] \in {"putting", "updating"} =>
       /\ avatar # path[r]
       /\ \A q \in Requests : previous[q] # path[r]

PutInv == \A r \in Requests : pc[r] = "updating" => path[r] \in objects

\* A path that has left the row does not return: its object may go.
LeftInv ==
    /\ \A r \in Requests : pc[r] = "cleaning" => previous[r] # avatar \/ avatar = 0
    /\ \A r \in Requests : pc[r] = "undoing" => path[r] # avatar \/ path[r] \in broken

\* The inductive invariant of uploadAvatar and deleteAvatar.
IInv == TypeOK /\ PathInv /\ UnseenInv /\ PutInv /\ LeftInv /\ AvatarStored
=============================================================================
