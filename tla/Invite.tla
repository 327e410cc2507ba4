------------------------------- MODULE Invite -------------------------------
(***************************************************************************)
(* One Invite: the reconciler of internal/controller/invite.  An invite    *)
(* has a life of its own, for the person invited accepts it or lets it     *)
(* expire at any moment, also between two calls of one reconcile; it has   *)
(* no update, and only while it is pending can it be revoked.              *)
(*                                                                         *)
(* The worker reads the object from a cache that may be old and writes it  *)
(* under an optimistic lock, as in ManagedResource; the name initializer,  *)
(* the finalizer and the pending annotation are one write here.            *)
(***************************************************************************)
EXTENDS Naturals

CONSTANTS
    ID,           \* the identifiers the API gives to invites
    NoName,       \* the external name is not one the API has given
    MaxEdits,     \* bound: writes of the object by others, revocations by hand
    MaxFaults     \* bound: failed calls and restarts

ASSUME NoNameAssumption == NoName \notin ID
ASSUME BoundAssumption  == MaxEdits \in Nat /\ MaxFaults \in Nat

VARIABLES
    obj,        \* the Invite object in the API server
    cache,      \* the object as the manager's cache has it
    synced,     \* the cache holds the newest resourceVersion
    status,     \* the status of each invite in the API
    pc,         \* where the worker is in a reconcile
    work,       \* the worker's copy of the object
    fresh,      \* that copy has the newest resourceVersion
    revoked,    \* the invites of which Delete reported the end
    lost,       \* history: issued, but the reply was lost
    crashed,    \* history: issued, and ended before the name was recorded
    edits, faults

vars   == <<obj, cache, synced, status, pc, work, fresh, revoked, lost, crashed,
            edits, faults>>
object == <<obj, synced>>
bounds == <<edits, faults>>

---------------------------------------------------------------------------
Object ==
    [here: BOOLEAN, deleting: BOOLEAN, name: ID \cup {NoName},
     mark: {"none", "pending", "failed", "succeeded"}]

Status == {"none", "pending", "accepted", "expired", "deleted"}
PC     == {"idle", "read", "absent", "present", "creating", "created", "refused"}

Blank == [here |-> FALSE, deleting |-> FALSE, name |-> NoName, mark |-> "none"]

Init ==
    /\ obj = [Blank EXCEPT !.here = TRUE]
    /\ cache = obj /\ synced = TRUE
    /\ status = [i \in ID |-> "none"]
    /\ pc = "idle" /\ work = Blank /\ fresh = FALSE
    /\ revoked = {} /\ lost = {} /\ crashed = {}
    /\ edits = 0 /\ faults = 0

---------------------------------------------------------------------------
(***************************************************************************)
(* Users, the person invited, and time.                                    *)
(***************************************************************************)
Touch ==
    /\ obj.here /\ edits < MaxEdits
    /\ edits' = edits + 1
    /\ synced' = FALSE /\ fresh' = FALSE
    /\ UNCHANGED <<obj, cache, status, pc, work, revoked, lost, crashed, faults>>

RequestDelete ==
    /\ obj.here /\ ~obj.deleting
    /\ obj' = IF obj.mark = "none" THEN [obj EXCEPT !.here = FALSE]
                                   ELSE [obj EXCEPT !.deleting = TRUE]
    /\ synced' = FALSE /\ fresh' = FALSE
    /\ UNCHANGED <<cache, status, pc, work, revoked, lost, crashed, bounds>>

Becomes(i, s) == status' = [status EXCEPT ![i] = s]

AcceptOrExpire ==
    /\ \E i \in ID, s \in {"accepted", "expired"} : status[i] = "pending" /\ Becomes(i, s)
    /\ UNCHANGED <<object, cache, pc, work, fresh, revoked, lost, crashed, bounds>>

RevokeByHand ==
    /\ edits < MaxEdits
    /\ edits' = edits + 1
    /\ \E i \in ID : status[i] = "pending" /\ Becomes(i, "deleted")
    /\ UNCHANGED <<object, cache, pc, work, fresh, revoked, lost, crashed, faults>>

Sync ==
    /\ ~synced
    /\ cache' = obj /\ synced' = TRUE
    /\ UNCHANGED <<obj, status, pc, work, fresh, revoked, lost, crashed, bounds>>

---------------------------------------------------------------------------
(***************************************************************************)
(* The worker.                                                             *)
(***************************************************************************)
Return == pc' = "idle" /\ work' = Blank /\ fresh' = FALSE

\* An object with a creation that was never concluded waits for a human.
Start ==
    /\ pc = "idle" /\ cache.here /\ cache.mark # "pending"
    /\ pc' = "read" /\ work' = cache /\ fresh' = synced
    /\ UNCHANGED <<object, cache, status, revoked, lost, crashed, bounds>>

\* Mutant of Present: an invite is over once it is not pending.
PresentIfPending(n) == n \in ID /\ status[n] = "pending"

\* Mutant of Present: what Get returns exists.
PresentThoughRevoked(n) == n \in ID /\ status[n] # "none"

\* A revoked invite is taken for absent; an accepted or expired one is not.
Present(n) == n \in ID /\ status[n] \notin {"none", "deleted"}

Observe ==
    /\ pc = "read"
    /\ pc' = IF Present(work.name) THEN "present" ELSE "absent"
    /\ UNCHANGED <<object, cache, status, work, fresh, revoked, lost, crashed, bounds>>

\* An invite has no update and never drifts.
Settle ==
    /\ pc = "present" /\ ~work.deleting
    /\ Return
    /\ synced' \in {synced, FALSE}
    /\ UNCHANGED <<obj, cache, status, revoked, lost, crashed, bounds>>

\* Delete: a pending invite is revoked.  The API refuses to revoke another one,
\* but may say of one revoked before that it is not found.
Revoke ==
    /\ pc = "present" /\ work.deleting
    /\ \/ /\ status[work.name] = "pending" /\ Becomes(work.name, "deleted")
          /\ revoked' = revoked \cup {work.name} /\ Return
       \/ /\ status[work.name] = "deleted" /\ UNCHANGED status
          /\ revoked' = revoked \cup {work.name} /\ Return
       \/ /\ status[work.name] # "pending" /\ pc' = "refused"
          /\ UNCHANGED <<status, work, fresh, revoked>>
    /\ UNCHANGED <<object, cache, lost, crashed, bounds>>

\* The call fails otherwise, before or after it has done its work.
RevokeFails ==
    /\ pc = "present" /\ work.deleting /\ faults < MaxFaults
    /\ faults' = faults + 1
    /\ \/ UNCHANGED status
       \/ status[work.name] = "pending" /\ Becomes(work.name, "deleted")
    /\ pc' = "refused"
    /\ UNCHANGED <<object, cache, work, fresh, revoked, lost, crashed, edits>>

\* Mutant of Recheck: the invite is not read again.
RecheckNothing ==
    /\ pc = "refused"
    /\ revoked' = revoked \cup {work.name}
    /\ Return
    /\ UNCHANGED <<object, cache, status, lost, crashed, bounds>>

\* After an error Delete reads the invite again: one that is not pending has
\* nothing left to revoke, and is reported as deleted.
Recheck ==
    /\ pc = "refused"
    /\ revoked' = IF status[work.name] # "pending" THEN revoked \cup {work.name} ELSE revoked
    /\ Return
    /\ UNCHANGED <<object, cache, status, lost, crashed, bounds>>

Unfinalize ==
    /\ pc = "absent" /\ work.deleting
    /\ IF fresh
       THEN obj' = [work EXCEPT !.here = FALSE] /\ synced' = FALSE
       ELSE UNCHANGED object
    /\ Return
    /\ UNCHANGED <<cache, status, revoked, lost, crashed, bounds>>

MarkPending ==
    /\ pc = "absent" /\ ~work.deleting
    /\ IF fresh
       THEN /\ obj' = [work EXCEPT !.mark = "pending"] /\ synced' = FALSE
            /\ work' = [work EXCEPT !.mark = "pending"]
            /\ pc' = "creating" /\ UNCHANGED fresh
       ELSE Return /\ UNCHANGED object
    /\ UNCHANGED <<cache, status, revoked, lost, crashed, bounds>>

\* The identifiers are opaque: any unused one will do.
Issue(i) ==
    /\ status[i] = "none" /\ i = CHOOSE j \in ID : status[j] = "none"
    /\ Becomes(i, "pending")

\* Mutant of Create: the external name is not set.
CreateForgetsName ==
    /\ pc = "creating"
    /\ \E i \in ID : Issue(i)
    /\ pc' = "created"
    /\ UNCHANGED <<object, cache, work, fresh, revoked, lost, crashed, bounds>>

Create ==
    /\ pc = "creating"
    /\ \E i \in ID : Issue(i) /\ work' = [work EXCEPT !.name = i]
    /\ pc' = "created"
    /\ UNCHANGED <<object, cache, fresh, revoked, lost, crashed, bounds>>

\* The call fails, before or after the invite is sent; the failure is recorded.
CreateFails ==
    /\ pc = "creating" /\ faults < MaxFaults
    /\ faults' = faults + 1
    /\ UNCHANGED <<status, lost>> \/ \E i \in ID : Issue(i) /\ lost' = lost \cup {i}
    /\ obj' = [obj EXCEPT !.mark = "failed"] /\ synced' = FALSE
    /\ Return
    /\ UNCHANGED <<cache, revoked, crashed, edits>>

Record ==
    /\ pc = "created"
    /\ obj' = [obj EXCEPT !.name = work.name, !.mark = "succeeded"] /\ synced' = FALSE
    /\ Return
    /\ UNCHANGED <<cache, status, revoked, lost, crashed, bounds>>

Restart ==
    /\ pc # "idle" /\ faults < MaxFaults
    /\ faults' = faults + 1
    /\ crashed' = IF pc = "created" THEN crashed \cup {work.name} ELSE crashed
    /\ Return
    /\ UNCHANGED <<object, cache, status, revoked, lost, edits>>

---------------------------------------------------------------------------
Environment == Touch \/ RequestDelete \/ AcceptOrExpire \/ RevokeByHand

Worker ==
    \/ Start \/ Observe \/ Settle \/ Revoke \/ Recheck \/ Unfinalize \/ MarkPending
    \/ Create \/ Record

Next == Environment \/ Sync \/ Worker \/ RevokeFails \/ CreateFails \/ Restart

Spec == Init /\ [][Next]_vars

\* The workqueue comes back after every error and poll interval.
FairSpec == Spec /\ WF_vars(Worker) /\ WF_vars(Sync)

---------------------------------------------------------------------------
\* The variables hold what their declarations say.
TypeOK ==
    /\ obj \in Object /\ cache \in Object /\ work \in Object
    /\ synced \in BOOLEAN /\ fresh \in BOOLEAN
    /\ status \in [ID -> Status]
    /\ pc \in PC /\ (pc \in {"present", "refused", "created"} => work.name \in ID)
    /\ revoked \subseteq ID /\ lost \subseteq ID /\ crashed \subseteq ID
    /\ edits \in 0..MaxEdits /\ faults \in 0..MaxFaults

\* Nobody holds an invite, pending or accepted, that no object accounts for; in
\* particular a second e-mail is sent only after the first invite is revoked, or
\* when the outcome of the first call was lost.
InviteAccountedFor ==
    \A i \in ID :
        status[i] \in {"pending", "accepted", "expired"} =>
            \/ obj.here /\ obj.name = i
            \/ pc = "created" /\ work.name = i
            \/ i \in lost \cup crashed

\* When Delete reports success the invite cannot be accepted any more, whatever
\* happened between its two calls.
ReportedIsOver == \A i \in revoked : status[i] # "pending"

Stuck == obj.mark = "pending"

\* A revoked invite is issued again, for as long as the object wants one.
RevokedIsReissued ==
    <>[](\/ ~obj.here \/ Stuck \/ obj.deleting
         \/ obj.name \in ID /\ status[obj.name] \in {"pending", "accepted", "expired"})

\* A deleted object goes, unless its invite was accepted or has expired.
DeletionCompletes ==
    obj.deleting ~> \/ ~obj.here \/ Stuck
                    \/ obj.name \in ID /\ status[obj.name] \in {"accepted", "expired"}

\* "If the invite has already been accepted, expired, or revoked there is nothing
\* left to delete" (invite/reconciler.go:180): then, too, the object goes.
NothingLeftToDelete == obj.deleting ~> ~obj.here \/ Stuck
============================================================================
