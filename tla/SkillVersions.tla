--------------------------- MODULE SkillVersions ---------------------------
(***************************************************************************)
(* One Skill: the reconciler of internal/controller/skill, which uploads   *)
(* the files of a Secret as versions of a skill, and the content-addressed *)
(* directory of internal/capabilities it stages them in.                   *)
(*                                                                         *)
(* The reconciler compares a hash of the Secret with the one it recorded   *)
(* in the status of the object after the last upload; nothing is compared  *)
(* with what the API holds.  So everything hangs on that status being      *)
(* written, and on the staged directory holding what its name says.        *)
(*                                                                         *)
(* As in ManagedResource a single worker reads the object from a cache     *)
(* that may be old, and writes it under an optimistic lock.  The directory *)
(* is on disk and outlives the process.  A hash is represented by the      *)
(* content it is of.                                                       *)
(***************************************************************************)
EXTENDS Naturals

CONSTANTS
    Content,      \* what the Secret may hold
    File,         \* the names of its files, the same in each content
    None,         \* no hash, no skill, no directory
    MaxEdits,     \* bound: acts of users and of other writers
    MaxFaults     \* bound: failed calls and restarts

ASSUME NoneAssumption  ==
    /\ None \notin Content /\ \A S \in SUBSET File : None # S
    /\ \A v \in [of: Content, whole: BOOLEAN] : None # v
ASSUME FileAssumption  == File # {} /\ Content # {}
ASSUME BoundAssumption == MaxEdits \in Nat /\ MaxFaults \in Nat

VARIABLES
    secret,     \* the content of the Secret
    obj,        \* the Skill object in the API server
    cache,      \* the object as the manager's cache has it
    synced,     \* the cache holds the newest resourceVersion
    skill,      \* the latest version of the skill
    count,      \* how many versions it has: none, one or many
    disk,       \* the files of each content that are staged
    pc,         \* where the worker is in a reconcile
    work,       \* the worker's copy of the object
    fresh,      \* that copy has the newest resourceVersion
    data,       \* the content Create or Update has read
    todo,       \* the files StageFiles has still to write
    uploaded,   \* history: the contents uploaded in full
    cut,        \* history: the contents the staging of which was cut short
    unsaved,    \* history: the uploads since the last one recorded of which the
                \* status was not written
    turned,     \* history: the Secret was edited
    edits, faults

vars == <<secret, obj, cache, synced, skill, count, disk, pc, work, fresh, data,
          todo, uploaded, cut, unsaved, turned, edits, faults>>

worker  == <<pc, work, fresh, data, todo>>
object  == <<obj, synced>>
api     == <<skill, count, uploaded>>
stage   == <<disk, cut>>

---------------------------------------------------------------------------
Hash == Content \cup {None}

Object ==
    [here: BOOLEAN, deleting: BOOLEAN, named: BOOLEAN, hash: Hash,
     mark: {"none", "pending", "failed", "succeeded"}]

PC == {"idle", "read", "absent", "outdated", "current", "creating", "updating",
       "created", "recorded", "updated"}

Blank ==
    [here |-> FALSE, deleting |-> FALSE, named |-> FALSE, hash |-> None, mark |-> "none"]

Init ==
    /\ secret \in Content
    /\ obj = [Blank EXCEPT !.here = TRUE]
    /\ cache = obj /\ synced = TRUE
    /\ skill = None /\ count = 0
    /\ disk = [c \in Content |-> None]
    /\ pc = "idle" /\ work = Blank /\ fresh = FALSE /\ data = None /\ todo = {}
    /\ uploaded = {} /\ cut = {} /\ unsaved = {} /\ turned = FALSE
    /\ edits = 0 /\ faults = 0

---------------------------------------------------------------------------
(***************************************************************************)
(* Users, other writers, and whoever deletes skills by hand.               *)
(***************************************************************************)
EditSecret ==
    /\ edits < MaxEdits
    /\ edits' = edits + 1 /\ turned' = TRUE
    /\ \E c \in Content \ {secret} : secret' = c
    /\ UNCHANGED <<object, cache, api, stage, worker, unsaved, faults>>

\* A label, say: the copies of the object that are about are old.
Touch ==
    /\ obj.here /\ edits < MaxEdits
    /\ edits' = edits + 1
    /\ synced' = FALSE /\ fresh' = FALSE
    /\ UNCHANGED <<secret, obj, cache, api, stage, pc, work, data, todo, unsaved,
                   turned, faults>>

\* The finalizer is there from before the first creation on.
RequestDelete ==
    /\ obj.here /\ ~obj.deleting
    /\ obj' = IF obj.mark = "none" THEN [obj EXCEPT !.here = FALSE]
                                   ELSE [obj EXCEPT !.deleting = TRUE]
    /\ synced' = FALSE /\ fresh' = FALSE
    /\ UNCHANGED <<secret, cache, api, stage, pc, work, data, todo, unsaved, turned,
                   edits, faults>>

OutOfBandDelete ==
    /\ skill # None /\ edits < MaxEdits
    /\ edits' = edits + 1
    /\ skill' = None /\ count' = 0
    /\ UNCHANGED <<secret, object, cache, uploaded, stage, worker, unsaved, turned, faults>>

Sync ==
    /\ ~synced
    /\ cache' = obj /\ synced' = TRUE
    /\ UNCHANGED <<secret, obj, api, stage, worker, unsaved, turned, edits, faults>>

---------------------------------------------------------------------------
(***************************************************************************)
(* The worker: before Create or Update.                                    *)
(***************************************************************************)
\* Mutant of Return: the external client outlives the reconcile.
ReturnKeepsTodo ==
    pc' = "idle" /\ work' = Blank /\ fresh' = FALSE /\ data' = None /\ todo' = todo

Return ==
    pc' = "idle" /\ work' = Blank /\ fresh' = FALSE /\ data' = None /\ todo' = {}

\* An object with a creation that was never concluded waits for a human.
Start ==
    /\ pc = "idle" /\ cache.here /\ cache.mark # "pending"
    /\ pc' = "read" /\ work' = cache /\ fresh' = synced
    /\ UNCHANGED <<secret, object, cache, api, stage, data, todo, unsaved, turned,
                   edits, faults>>

\* Mutant of UpToDate: any hash will do.
HashRecorded(hash) == hash # None

UpToDate(hash) == hash = secret

\* Mutant of Observe: no hash means that nothing was uploaded.
ObserveWithoutAdoption ==
    /\ pc = "read"
    /\ IF work.named /\ skill # None
       THEN pc' = IF UpToDate(work.hash) THEN "current" ELSE "outdated"
       ELSE pc' = "absent"
    /\ UNCHANGED <<secret, object, cache, api, stage, work, fresh, data, todo, unsaved,
                   turned, edits, faults>>

\* Mutant of Observe: what is to be deleted is reported as absent.
ObserveSkipsDeleted ==
    /\ pc = "read"
    /\ IF work.named /\ skill # None /\ ~work.deleting
       THEN LET hash == IF work.hash = None THEN secret ELSE work.hash
            IN  /\ work' = [work EXCEPT !.hash = hash]
                /\ pc' = IF UpToDate(hash) THEN "current" ELSE "outdated"
       ELSE pc' = "absent" /\ UNCHANGED work
    /\ UNCHANGED <<secret, object, cache, api, stage, fresh, data, todo, unsaved,
                   turned, edits, faults>>

\* When no hash is recorded the Secret is taken for what was uploaded: the
\* status of a creation may not have reached the cache yet.
Observe ==
    /\ pc = "read"
    /\ IF work.named /\ skill # None
       THEN LET hash == IF work.hash = None THEN secret ELSE work.hash
            IN  /\ work' = [work EXCEPT !.hash = hash]
                /\ pc' = IF UpToDate(hash) THEN "current" ELSE "outdated"
       ELSE pc' = "absent" /\ UNCHANGED work
    /\ UNCHANGED <<secret, object, cache, api, stage, fresh, data, todo, unsaved,
                   turned, edits, faults>>

\* Skills.Delete takes the versions along.
Delete ==
    /\ pc \in {"current", "outdated"} /\ work.deleting
    /\ skill' = None /\ count' = 0
    /\ Return
    /\ UNCHANGED <<secret, object, cache, uploaded, stage, unsaved, turned, edits, faults>>

Unfinalize ==
    /\ pc = "absent" /\ work.deleting
    /\ IF fresh
       THEN obj' = [work EXCEPT !.here = FALSE] /\ synced' = FALSE
       ELSE UNCHANGED object
    /\ Return
    /\ UNCHANGED <<secret, cache, api, stage, unsaved, turned, edits, faults>>

\* The finalizer, and the annotation that Create is about to be called.
MarkPending ==
    /\ pc = "absent" /\ ~work.deleting
    /\ IF fresh
       THEN /\ obj' = [work EXCEPT !.mark = "pending"] /\ synced' = FALSE
            /\ work' = [work EXCEPT !.mark = "pending"] /\ pc' = "creating"
            /\ UNCHANGED <<fresh, data, todo>>
       ELSE Return /\ UNCHANGED object
    /\ UNCHANGED <<secret, cache, api, stage, unsaved, turned, edits, faults>>

BeginUpdate ==
    /\ pc = "outdated" /\ ~work.deleting
    /\ pc' = "updating"
    /\ UNCHANGED <<secret, object, cache, api, stage, work, fresh, data, todo,
                   unsaved, turned, edits, faults>>

---------------------------------------------------------------------------
(***************************************************************************)
(* Create and Update: the Secret is read again, its files are staged and   *)
(* collected from the directory, and uploaded.                             *)
(***************************************************************************)
Uploading == pc \in {"creating", "updating"}

\* A directory that exists is taken as it is.
ToStage(c) == IF disk[c] = None THEN File ELSE {}

ReadSecret ==
    /\ Uploading /\ data = None
    /\ data' = secret /\ todo' = ToStage(secret)
    /\ UNCHANGED <<secret, object, cache, api, stage, pc, work, fresh, unsaved,
                   turned, edits, faults>>

Staged(c) == IF disk[c] = None THEN {} ELSE disk[c]

\* The files are written one by one, in any order.
StageFile ==
    /\ \E f \in todo :
        /\ disk' = [disk EXCEPT ![data] = Staged(data) \cup {f}]
        /\ todo' = todo \ {f}
    /\ UNCHANGED <<secret, object, cache, api, cut, pc, work, fresh, data, unsaved,
                   turned, edits, faults>>

Version(c) == [of |-> c, whole |-> disk[c] = File]

\* Skills.New or Versions.New gets what CollectReaders finds.
NewVersion ==
    /\ pc = "updating" => skill # None
    /\ skill' = Version(data)
    /\ count' = IF count = 2 THEN 2 ELSE count + 1
    /\ uploaded' = IF disk[data] = File THEN uploaded \cup {data} ELSE uploaded

\* Mutant of Upload: the hash is that of the Secret as it is by now.
UploadHashesLate ==
    /\ Uploading /\ data # None /\ todo = {}
    /\ NewVersion
    /\ work' = [work EXCEPT !.hash = secret]
    /\ pc' = IF pc = "creating" THEN "created" ELSE "updated"
    /\ UNCHANGED <<secret, object, cache, stage, fresh, data, todo, unsaved, turned,
                   edits, faults>>

\* Mutant of Upload: the hash is not taken down.
UploadForgetsHash ==
    /\ Uploading /\ data # None /\ todo = {}
    /\ NewVersion
    /\ pc' = IF pc = "creating" THEN "created" ELSE "updated"
    /\ UNCHANGED <<secret, object, cache, stage, work, fresh, data, todo, unsaved,
                   turned, edits, faults>>

Upload ==
    /\ Uploading /\ data # None /\ todo = {}
    /\ NewVersion
    /\ work' = [work EXCEPT !.hash = data]
    /\ pc' = IF pc = "creating" THEN "created" ELSE "updated"
    /\ UNCHANGED <<secret, object, cache, stage, fresh, data, todo, unsaved, turned,
                   edits, faults>>

\* Create or Update returns an error; that of Create is recorded.
Failed ==
    /\ IF pc = "creating"
       THEN obj' = [obj EXCEPT !.mark = "failed"] /\ synced' = FALSE
       ELSE UNCHANGED object
    /\ Return

\* The API may refuse an incomplete set of files, and does refuse a version of
\* a skill that is gone.
Refuse ==
    /\ Uploading /\ data # None /\ todo = {}
    /\ disk[data] # File \/ (pc = "updating" /\ skill = None)
    /\ Failed
    /\ UNCHANGED <<secret, cache, api, stage, unsaved, turned, edits, faults>>

\* A file is not written, or not in full, but its directory may be there.
StageFails ==
    /\ todo # {} /\ faults < MaxFaults
    /\ faults' = faults + 1
    /\ \/ UNCHANGED disk
       \/ disk' = [disk EXCEPT ![data] = Staged(data)]
    /\ cut' = IF disk'[data] = None THEN cut ELSE cut \cup {data}
    /\ Failed
    /\ UNCHANGED <<secret, cache, api, unsaved, turned, edits>>

\* The upload fails, or its reply is lost.  (What becomes of a skill of which
\* the creation is not known to have happened is for ManagedResource to say.)
UploadFails ==
    /\ Uploading /\ data # None /\ todo = {} /\ faults < MaxFaults
    /\ faults' = faults + 1
    /\ \/ UNCHANGED <<api, unsaved>>
       \/ pc = "updating" /\ NewVersion /\ unsaved' = unsaved \cup {"update"}
    /\ Failed
    /\ UNCHANGED <<secret, cache, stage, turned, edits>>

---------------------------------------------------------------------------
(***************************************************************************)
(* The worker: after Create or Update.                                     *)
(***************************************************************************)

\* What the copy has for a hash when the annotations are written: the answer of
\* the API server, with the status as it is stored, is read into the copy, so the
\* hash of this upload stays only where none was stored; and when the object is
\* not what the worker has, it is read again altogether.
Kept == IF fresh /\ obj.hash = None THEN work.hash ELSE obj.hash

\* A new skill is of no hash yet, or of the one recorded for an earlier skill.
Creation == IF obj.hash = None THEN "create" ELSE "recreate"

\* The critical annotations are written whatever the object is by now.
Record ==
    /\ pc = "created"
    /\ obj' = [obj EXCEPT !.named = TRUE, !.mark = "succeeded"]
    /\ synced' = FALSE
    /\ work' = [obj' EXCEPT !.hash = Kept]
    /\ unsaved' = IF Kept = work.hash THEN unsaved ELSE unsaved \cup {Creation}
    /\ fresh' = TRUE /\ pc' = "recorded"
    /\ UNCHANGED <<secret, cache, api, stage, data, todo, turned, edits, faults>>

\* The uploads of which the status has still to be written.
Unsaved ==
    CASE pc = "recorded" /\ work.hash # obj.hash -> {Creation}
      [] pc = "updated"                          -> {"update"}
      [] OTHER                                   -> {}

\* The status, with the hash, is written under the optimistic lock.  That of an
\* update makes good for all uploads before.
Save ==
    /\ pc \in {"recorded", "updated"} \/ (pc = "current" /\ ~work.deleting)
    /\ IF fresh
       THEN /\ obj' = [obj EXCEPT !.hash = work.hash]
            /\ synced' = FALSE
       ELSE UNCHANGED object
    /\ unsaved' = IF ~fresh THEN unsaved \cup Unsaved
                  ELSE IF pc = "updated" THEN {} ELSE unsaved
    /\ Return
    /\ UNCHANGED <<secret, cache, api, stage, turned, edits, faults>>

\* The process is restarted, or a call fails that is not one of Create's.
Restart ==
    /\ pc # "idle" /\ faults < MaxFaults
    /\ faults' = faults + 1
    /\ cut' = IF todo # {} /\ disk[data] # None THEN cut \cup {data} ELSE cut
    /\ unsaved' = unsaved \cup Unsaved
    /\ Return
    /\ UNCHANGED <<secret, object, cache, api, disk, turned, edits>>

---------------------------------------------------------------------------
Environment == EditSecret \/ Touch \/ RequestDelete \/ OutOfBandDelete

Worker ==
    \/ Start \/ Observe \/ Delete \/ Unfinalize \/ MarkPending \/ BeginUpdate
    \/ ReadSecret \/ StageFile \/ Upload \/ Refuse \/ Record \/ Save

Next == Environment \/ Sync \/ Worker \/ StageFails \/ UploadFails \/ Restart

Spec == Init /\ [][Next]_vars

\* The workqueue comes back after every error and poll interval.
FairSpec == Spec /\ WF_vars(Worker) /\ WF_vars(Sync)

---------------------------------------------------------------------------
\* The variables hold what their declarations say.
TypeOK ==
    /\ secret \in Content
    /\ obj \in Object /\ cache \in Object /\ work \in Object
    /\ synced \in BOOLEAN /\ fresh \in BOOLEAN
    /\ skill \in {None} \cup [of: Content, whole: BOOLEAN] /\ count \in 0..2
    /\ disk \in [Content -> {None} \cup SUBSET File]
    /\ pc \in PC /\ data \in Hash
    /\ todo \subseteq File /\ (todo # {} => data # None)
    /\ uploaded \subseteq Content /\ cut \subseteq Content
    /\ unsaved \subseteq {"create", "recreate", "update"} /\ turned \in BOOLEAN
    /\ edits \in 0..MaxEdits /\ faults \in 0..MaxFaults

\* The hash in the status is that of a content uploaded in full, whatever is
\* edited, read late or overtaken in between, unless the status of the first
\* creation was lost or the staging of that content was cut short.
HashIsOfAnUpload ==
    obj.hash # None /\ "create" \notin unsaved => obj.hash \in uploaded \cup cut

\* "so we don't create a spurious extra SkillVersion" (skill/reconciler.go:155):
\* while nobody edits the Secret its skill has one version, whatever fails, is
\* read late or has to be repeated.
NoSpuriousVersion == ~turned => count <= 1

\* The object goes only when its skill has gone.
SkillGoesFirst == ~obj.here => skill = None

\* Once users and faults come to rest the last version holds the files of the
\* Secret, all of them, and the status says so; unless the object is gone or
\* waits for a human, or staging was cut short, or the status of an upload was
\* lost and none has been recorded since.  (The hash is then that of an earlier
\* upload.  If the Secret goes back to that one, the provider believes it is up to
\* date, and is not.)  To create a skill anew is always to lose a status, unless
\* the files are those of the skill before.
Converges ==
    <>[](\/ ~obj.here \/ obj.mark = "pending"
         \/ skill = [of |-> secret, whole |-> TRUE] /\ obj.hash = secret
         \/ unsaved # {} \/ cut # {})

\* It stops uploading in any case.
ComesToRest == <>[][~Upload]_vars

\* "FilesSha256 is the full 64-char hex SHA-256 of the canonical encoding of
\* Secret.Data at the time of the last successful upload" (skill_types.go:94).
HashAsDocumented == obj.hash # None => obj.hash \in uploaded

\* "StageFiles writes all entries from data into the content-addressed cache
\* directory" (fs.go:92), "content-addressed dirs are immutable" (fs.go:43): when
\* it returns, the directory holds every file.
StagedInFull == data # None /\ todo = {} => disk[data] = File
============================================================================
