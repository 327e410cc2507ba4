--------------------------- MODULE ChildResource ---------------------------
(***************************************************************************)
(* One managed resource that lives inside another: a WorkspaceMember in a  *)
(* workspace, a VaultCredential in a vault, a MemoryStoreMemory in a       *)
(* memory store.  Every call of its external client carries the identifier *)
(* of the parent next to its own, and the parent comes and goes by other   *)
(* hands: it is archived while its children are being reconciled, and when *)
(* it is created anew it has another identifier, while its children keep   *)
(* the one they have resolved.                                             *)
(*                                                                         *)
(* The worker writes the object under an optimistic lock, as in            *)
(* ManagedResource.  To keep to what is new here it reads the object from  *)
(* the API server and not from a cache that may be old; the name           *)
(* initializer, the finalizer and the pending annotation are one write;    *)
(* and all that is compared of a child is one value.                       *)
(***************************************************************************)
EXTENDS Naturals

CONSTANTS
    Parent,       \* the identifiers of the external parents
    ID,           \* external names: identifiers of children, or of users
    NoParent,     \* the object has no parent identifier
    NoName,       \* the external name is not one the API has given
    Val,          \* what the object may ask for, and the API hold
    MaxEdits,     \* bound: acts of users and of other writers
    MaxFaults     \* bound: failed calls and restarts

ASSUME ParentAssumption == NoParent \notin Parent /\ NoName \notin ID
ASSUME SetsAssumption   == Parent # {} /\ ID # {} /\ Val # {}
ASSUME BoundAssumption  == MaxEdits \in Nat /\ MaxFaults \in Nat

VARIABLES
    kind,       \* the external client; never changes
    parent,     \* the state of the external parents
    ref,        \* the identifier in the status of the parent object
    obj,        \* the object in the API server
    readable,   \* the Secrets the object refers to are there
    pc,         \* where the worker is in a reconcile
    work,       \* the worker's copy of the object
    fresh,      \* that copy has the newest resourceVersion
    child,      \* the external children, by parent and name
    removed,    \* history: children of which Delete has reported the end
    left,       \* history: parents the object was pointed away from
    lost,       \* history: children created, the name of which was not recorded
    edits, faults

vars == <<kind, parent, ref, obj, readable, pc, work, fresh, child,
          removed, left, lost, edits, faults>>

others == <<kind, parent, ref, readable, left>>   \* not the worker's to change
worker == <<pc, work, fresh>>
bounds == <<edits, faults>>

---------------------------------------------------------------------------
(***************************************************************************)
(* The external clients.                                                   *)
(*   own          the API gives a child an identifier; else the name of a  *)
(*                membership is that of the user                           *)
(*   tolerant     an error is forgiven when the parent is archived         *)
(*   archivable   an archived child is taken for absent                    *)
(*   removal      what Delete makes of a child, by the deletion policy     *)
(*   secret       the content is read from Secrets                         *)
(***************************************************************************)
MemberClient ==
    [own |-> FALSE, tolerant |-> TRUE, archivable |-> FALSE,
     removal |-> {"deleted"}, secret |-> FALSE]

CredentialClient ==
    [own |-> TRUE, tolerant |-> FALSE, archivable |-> TRUE,
     removal |-> {"archived", "deleted"}, secret |-> TRUE]

MemoryClient ==
    [own |-> TRUE, tolerant |-> FALSE, archivable |-> FALSE,
     removal |-> {"deleted"}, secret |-> TRUE]

Clients == {MemberClient, CredentialClient, MemoryClient}

State == {"none", "live", "archived", "deleted"}
Life  == State \ {"none"}
PC    == {"idle", "read", "resolved", "doubted", "unanswered", "absent", "present",
          "drifted", "unremoved", "unconfirmed", "creating", "created"}

Object ==
    [here: BOOLEAN, deleting: BOOLEAN, byRef: BOOLEAN, name: ID \cup {NoName},
     mark: {"none", "pending", "failed", "succeeded"},
     parent: Parent \cup {NoParent}, val: Val]

Child == [st: State, ours: BOOLEAN, val: Val]

InitVal == CHOOSE v \in Val : TRUE

Blank ==
    [here |-> FALSE, deleting |-> FALSE, byRef |-> FALSE, name |-> NoName,
     mark |-> "none", parent |-> NoParent, val |-> InitVal]

\* The manifest names its parent by reference, or by an identifier.  The parents
\* are opaque, and one that is to be created may as well be live already.
Init ==
    /\ kind \in Clients
    /\ parent = [p \in Parent |-> "live"]
    /\ LET first == CHOOSE p \in Parent : TRUE
       IN  \/ /\ ref \in {first, NoParent}
              /\ obj = [Blank EXCEPT !.here = TRUE, !.byRef = TRUE]
           \/ /\ ref = NoParent
              /\ obj = [Blank EXCEPT !.here = TRUE, !.parent = first]
    /\ readable = TRUE
    /\ pc = "idle" /\ work = Blank /\ fresh = FALSE
    /\ child = [p \in Parent |-> [n \in ID |-> [st |-> "none", ours |-> FALSE, val |-> InitVal]]]
    /\ removed = {} /\ left = {} /\ lost = {}
    /\ edits = 0 /\ faults = 0

---------------------------------------------------------------------------
(***************************************************************************)
(* Users, the controllers of the parents, and edits by hand.               *)
(***************************************************************************)
Overtake(o) ==
    /\ obj.here /\ edits < MaxEdits
    /\ edits' = edits + 1
    /\ obj' = o /\ fresh' = FALSE
    /\ UNCHANGED <<kind, parent, ref, readable, pc, work, child, removed, lost, faults>>

EditVal == \E v \in Val : Overtake([obj EXCEPT !.val = v]) /\ UNCHANGED left

\* The identifier of the parent is replaced, or cleared to be resolved anew.
EditParent ==
    \E p \in (Parent \cup {NoParent}) \ {obj.parent} :
        Overtake([obj EXCEPT !.parent = p]) /\ left' = left \cup ({obj.parent} \ {NoParent})

RequestDelete ==
    /\ obj.here /\ ~obj.deleting
    /\ obj' = IF obj.mark = "none" THEN [obj EXCEPT !.here = FALSE]
                                   ELSE [obj EXCEPT !.deleting = TRUE]
    /\ fresh' = FALSE
    /\ UNCHANGED <<others, pc, work, child, removed, lost, bounds>>

EditSecret ==
    /\ kind.secret /\ edits < MaxEdits
    /\ readable' = ~readable /\ edits' = edits + 1
    /\ UNCHANGED <<kind, parent, ref, left, obj, worker, child, removed,
                   lost, faults>>

\* The parent is archived or deleted: by its own controller, or by hand.
RetireParent ==
    /\ \E p \in Parent, s \in {"archived", "deleted"} :
        parent[p] = "live" /\ parent' = [parent EXCEPT ![p] = s]
    /\ UNCHANGED <<kind, ref, readable, left, obj, worker, child, removed,
                   lost, bounds>>

\* The controller of the parent reports what it has created, for the first time
\* or in place of a parent that is gone.
ReportParent ==
    /\ ref \in Parent => parent[ref] # "live"
    /\ \E p \in Parent : parent[p] = "live" /\ ref' = p
    /\ UNCHANGED <<kind, parent, readable, left, obj, worker, child, removed,
                   lost, bounds>>

\* Somebody changes or removes the child by hand.
OutOfBand ==
    /\ edits < MaxEdits
    /\ edits' = edits + 1
    /\ \E p \in Parent, n \in ID :
        /\ parent[p] = "live" /\ child[p][n].st = "live"
        /\ \/ \E s \in kind.removal : child' = [child EXCEPT ![p][n].st = s]
           \/ \E v \in Val \ {child[p][n].val} : child' = [child EXCEPT ![p][n].val = v]
    /\ UNCHANGED <<others, obj, worker, removed, lost, faults>>

---------------------------------------------------------------------------
(***************************************************************************)
(* The worker.                                                             *)
(***************************************************************************)
Return == pc' = "idle" /\ work' = Blank /\ fresh' = FALSE

\* An object with a creation that was never concluded waits for a human.
Start ==
    /\ pc = "idle" /\ obj.here /\ obj.mark # "pending"
    /\ pc' = "read" /\ work' = obj /\ fresh' = TRUE
    /\ UNCHANGED <<others, obj, child, removed, lost, bounds>>

\* A reference is resolved once, and not for an object to be deleted: the patch
\* is made whatever the object is by now, and answered with what it becomes.
Resolve ==
    /\ pc = "read"
    /\ IF work.deleting \/ ~work.byRef \/ work.parent # NoParent
       THEN pc' = "resolved" /\ UNCHANGED <<obj, work, fresh, left>>
       ELSE IF ref = NoParent \/ ~obj.here
       THEN Return /\ UNCHANGED <<obj, left>>
       ELSE /\ obj' = [obj EXCEPT !.parent = ref]
            /\ left' = left \cup ({obj.parent} \ {NoParent, ref})
            /\ work' = obj' /\ fresh' = TRUE /\ pc' = "resolved"
    /\ UNCHANGED <<kind, parent, ref, readable, child, removed, lost, bounds>>

Addressed == work.name \in ID /\ work.parent \in Parent

This == child[work.parent][work.name]

\* What the API answers: in an archived workspace everything is refused with an
\* error that is not 404; of vaults and memory stores the code says nothing.
Answers ==
    LET look == IF This.st \in {"none", "deleted"} THEN "404" ELSE "found"
    IN  CASE parent[work.parent] = "deleted" -> {"404"}
          [] parent[work.parent] = "live"    -> {look}
          [] OTHER -> IF kind.tolerant THEN {"400"} ELSE {"400", look}

\* An error other than 404, after which a tolerant client looks at the parent.
Refused(next) ==
    IF kind.tolerant THEN pc' = next /\ UNCHANGED <<work, fresh>> ELSE Return

Existing == This.st = "live" \/ (This.st = "archived" /\ ~kind.archivable)

Readable == kind.secret => readable

\* Mutant of Drifted: what is recorded is not compared.
DriftedNever == FALSE

Drifted == This.val # work.val

\* What Observe makes of the answer; the Secrets of what exists are read.
Conclude(answer) ==
    IF answer = "400" THEN Refused("doubted")
    ELSE IF answer = "404" \/ ~Existing THEN pc' = "absent" /\ UNCHANGED <<work, fresh>>
    ELSE IF ~Readable THEN Return
    ELSE pc' = (IF Drifted THEN "drifted" ELSE "present") /\ UNCHANGED <<work, fresh>>

\* Without both names there is nothing to ask for, and nothing exists.
Observe ==
    /\ pc = "resolved"
    /\ \E answer \in IF Addressed THEN Answers ELSE {"404"} : Conclude(answer)
    /\ UNCHANGED <<others, obj, child, removed, lost, bounds>>

\* Mutant of ObserveFails: any error is taken for "not found".
ObserveFailsSilently ==
    /\ pc = "resolved" /\ Addressed /\ kind.tolerant /\ faults < MaxFaults
    /\ faults' = faults + 1
    /\ pc' = "absent"
    /\ UNCHANGED <<others, obj, work, fresh, child, removed, lost, edits>>

\* Get fails for a reason of its own.  (That of an intolerant client: Restart.)
ObserveFails ==
    /\ pc = "resolved" /\ Addressed /\ kind.tolerant /\ faults < MaxFaults
    /\ faults' = faults + 1
    /\ pc' = "unanswered"
    /\ UNCHANGED <<others, obj, work, fresh, child, removed, lost, edits>>

\* Mutant of Gone: a workspace that cannot be read is gone.
GoneIfUnreadable(answered) == ~answered \/ parent[work.parent] # "live"

\* Mutant of Gone: only a workspace that is not found is gone.
GoneUnlessArchived(answered) == answered /\ parent[work.parent] = "deleted"

\* workspaceGone: Get says the workspace is archived, or does not find it.
Gone(answered) == answered /\ parent[work.parent] # "live"

\* The error of Observe or Delete is forgiven when the workspace is gone.
LookAtParent(answered) ==
    /\ \/ /\ pc \in {"doubted", "unanswered"}
          /\ IF Gone(answered) THEN pc' = "absent" /\ UNCHANGED <<work, fresh>> ELSE Return
          /\ UNCHANGED removed
       \/ /\ pc \in {"unremoved", "unconfirmed"}
          /\ removed' = IF Gone(answered) THEN removed \cup {<<work.parent, work.name>>}
                                          ELSE removed
          /\ Return
    /\ UNCHANGED <<others, obj, child, lost, edits>>

ParentAnswers == LookAtParent(TRUE) /\ UNCHANGED faults

\* The second call may fail as the first one did.
ParentFails ==
    /\ LookAtParent(FALSE)
    /\ IF pc \in {"unanswered", "unconfirmed"}
       THEN UNCHANGED faults
       ELSE faults < MaxFaults /\ faults' = faults + 1

\* Archived or deleted, by policy; what is not live any more stays as it is.
Remove ==
    \E s \in kind.removal :
        child' = [child EXCEPT ![work.parent][work.name].st = IF @ = "live" THEN s ELSE @]

\* Observe has found the child, so both names are there.
Delete ==
    /\ pc \in {"present", "drifted"} /\ work.deleting
    /\ \E answer \in Answers :
        \/ answer = "400" /\ Refused("unremoved") /\ UNCHANGED <<child, removed>>
        \/ /\ answer # "400"
           /\ IF answer = "found" THEN Remove ELSE UNCHANGED child
           /\ removed' = removed \cup {<<work.parent, work.name>>}
           /\ Return
    /\ UNCHANGED <<others, obj, lost, bounds>>

\* The call fails otherwise, before or after it has done its work.
DeleteFails ==
    /\ pc \in {"present", "drifted"} /\ work.deleting /\ faults < MaxFaults
    /\ faults' = faults + 1
    /\ UNCHANGED child \/ ("found" \in Answers /\ Remove)
    /\ Refused("unconfirmed")
    /\ UNCHANGED <<others, obj, removed, lost, edits>>

Unfinalize ==
    /\ pc = "absent" /\ work.deleting
    /\ IF fresh
       THEN obj' = [work EXCEPT !.here = FALSE]
       ELSE UNCHANGED obj
    /\ Return
    /\ UNCHANGED <<others, child, removed, lost, bounds>>

MarkPending ==
    /\ pc = "absent" /\ ~work.deleting
    /\ IF fresh
       THEN /\ obj' = [work EXCEPT !.mark = "pending"]
            /\ work' = obj' /\ pc' = "creating" /\ UNCHANGED fresh
       ELSE Return /\ UNCHANGED obj
    /\ UNCHANGED <<others, child, removed, lost, bounds>>

\* The names a new child may get: the next identifier, or the user's.
NewName ==
    IF kind.own
    THEN LET unused == {n \in ID : \A p \in Parent : child[p][n].st = "none"}
         IN  IF unused = {} THEN {} ELSE {CHOOSE n \in unused : TRUE}
    ELSE {CHOOSE n \in ID : TRUE}

\* A member cannot be added twice.
Creatable ==
    /\ work.parent \in Parent /\ parent[work.parent] = "live" /\ Readable
    /\ \A n \in NewName : child[work.parent][n].st # "live"

Add(n) ==
    child' = [child EXCEPT ![work.parent][n] = [st |-> "live", ours |-> TRUE, val |-> work.val]]

\* Mutant of Create: the external name is not set.
CreateForgetsName ==
    /\ pc = "creating" /\ Creatable
    /\ \E n \in NewName : Add(n)
    /\ pc' = "created"
    /\ UNCHANGED <<others, obj, work, fresh, removed, lost, bounds>>

Create ==
    /\ pc = "creating" /\ Creatable
    /\ \E n \in NewName : Add(n) /\ work' = [work EXCEPT !.name = n]
    /\ pc' = "created"
    /\ UNCHANGED <<others, obj, fresh, removed, lost, bounds>>

\* The failure is recorded.
Failed == obj' = [obj EXCEPT !.mark = "failed"] /\ Return

CreateRefused ==
    /\ pc = "creating" /\ ~Creatable
    /\ Failed
    /\ UNCHANGED <<others, child, removed, lost, bounds>>

\* The call fails, before or after the child is created.
CreateFails ==
    /\ pc = "creating" /\ Creatable /\ faults < MaxFaults
    /\ faults' = faults + 1
    /\ \/ UNCHANGED <<child, lost>>
       \/ \E n \in NewName : Add(n) /\ lost' = lost \cup {<<work.parent, n>>}
    /\ Failed
    /\ UNCHANGED <<others, removed, edits>>

\* The name is recorded whatever the object is by now.
Record ==
    /\ pc = "created"
    /\ obj' = [obj EXCEPT !.name = work.name, !.mark = "succeeded"]
    /\ Return
    /\ UNCHANGED <<others, child, removed, lost, bounds>>

Update ==
    /\ pc = "drifted" /\ ~work.deleting
    /\ child' \in IF "found" \in Answers /\ This.st = "live" /\ Readable
                  THEN {[child EXCEPT ![work.parent][work.name].val = work.val]}
                  ELSE {child}
    /\ Return
    /\ UNCHANGED <<others, obj, removed, lost, bounds>>

Settle ==
    /\ pc = "present" /\ ~work.deleting
    /\ Return
    /\ UNCHANGED <<others, obj, child, removed, lost, bounds>>

Restart ==
    /\ pc # "idle" /\ faults < MaxFaults
    /\ faults' = faults + 1
    /\ lost' = IF pc = "created" THEN lost \cup {<<work.parent, work.name>>} ELSE lost
    /\ Return
    /\ UNCHANGED <<others, obj, child, removed, edits>>

---------------------------------------------------------------------------
Environment ==
    \/ EditVal \/ EditParent \/ RequestDelete \/ EditSecret \/ RetireParent \/ ReportParent
    \/ OutOfBand

Worker ==
    \/ Start \/ Resolve \/ Observe \/ ParentAnswers \/ Delete \/ Unfinalize \/ MarkPending
    \/ Create \/ CreateRefused \/ Record \/ Update \/ Settle

Faults == ObserveFails \/ ParentFails \/ DeleteFails \/ CreateFails \/ Restart

Next == Environment \/ Worker \/ Faults

Spec == Init /\ [][Next]_vars

\* The workqueue comes back after every error and poll interval.
FairSpec == Spec /\ WF_vars(Worker)

---------------------------------------------------------------------------
\* The variables hold what their declarations say.
TypeOK ==
    /\ kind \in Clients
    /\ parent \in [Parent -> Life] /\ ref \in Parent \cup {NoParent}
    /\ obj \in Object /\ work \in Object
    /\ fresh \in BOOLEAN /\ readable \in BOOLEAN
    /\ pc \in PC /\ (pc = "created" => work.name \in ID)
    /\ child \in [Parent -> [ID -> Child]]
    /\ removed \subseteq Parent \X ID /\ lost \subseteq Parent \X ID /\ left \subseteq Parent
    /\ edits \in 0..MaxEdits /\ faults \in 0..MaxFaults

\* A child counts for as long as its parent does: in one that is archived it is
\* moot.
Held(p, n) == parent[p] = "live" /\ child[p][n].st = "live"

\* No child is orphaned in a live parent: each one the provider created is the
\* one the object names, or is about to be recorded, or its creation was cut
\* short, or somebody pointed the object away from its parent.
NothingOrphaned ==
    \A p \in Parent, n \in ID :
        child[p][n].ours /\ Held(p, n) =>
            \/ obj.here /\ obj.parent = p /\ obj.name = n
            \/ pc = "created" /\ work.parent = p /\ work.name = n
            \/ <<p, n>> \in lost \/ p \in left

\* When Delete reports success, by itself or because the workspace looked gone
\* after an error, there is no live child in a live parent any more.
ReportedIsMoot == \A r \in removed : ~Held(r[1], r[2])

Stuck == obj.mark = "pending"

\* What the API does with the child is not known for certain.
Unsure == ~kind.tolerant /\ obj.parent \in Parent /\ parent[obj.parent] = "archived"

\* A deleted object goes, also when its workspace was archived first; unless its
\* creation was cut short, or its Secrets were deleted first and there is still
\* something to be removed.
DeletionCompletes ==
    <>[](obj.here /\ obj.deleting =>
            \/ Stuck \/ Unsure
            \/ ~Readable /\ obj.parent \in Parent /\ obj.name \in ID /\ Held(obj.parent, obj.name))

\* The reply to the first creation of a membership was lost, and the membership is
\* there: every later Add is refused.
AlreadyAdded ==
    /\ ~kind.own /\ obj.name = NoName
    /\ \E n \in ID : <<obj.parent, n>> \in lost /\ Held(obj.parent, n)

\* Once users and faults come to rest the child is as asked for, unless there is
\* no live parent under the identifier the object has, or the membership cannot be
\* added a second time.
Converges ==
    <>[](\/ ~obj.here \/ Stuck \/ ~Readable
         \/ obj.parent = NoParent \/ parent[obj.parent] # "live"
         \/ AlreadyAdded
         \/ /\ obj.name \in ID /\ Held(obj.parent, obj.name)
            /\ child[obj.parent][obj.name].val = obj.val)
============================================================================
