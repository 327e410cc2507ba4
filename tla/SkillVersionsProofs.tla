------------------------ MODULE SkillVersionsProofs ------------------------
(***************************************************************************)
(* Theorems about SkillVersions, for any contents, any number of files,    *)
(* edits and faults.                                                       *)
(***************************************************************************)
EXTENDS SkillVersions, TLAPS

(***************************************************************************)
(* What makes the safety properties inductive.                             *)
(***************************************************************************)

\* A current copy is the object itself; once an upload has begun, but for the hash.
Alike(o, p) ==
    o.here = p.here /\ o.deleting = p.deleting /\ o.named = p.named /\ o.mark = p.mark

CopiesAgree ==
    /\ synced => cache = obj
    /\ fresh => Alike(work, obj)
    /\ fresh /\ pc \in {"read", "absent", "creating"} => work = obj

\* The content was uploaded in full, or its directory was left incomplete.
Vouched(c) == c \in uploaded \cup cut

\* A directory is whole, unless it is being staged, or that was cut short.
StageSound ==
    /\ todo # {} => Uploading /\ Staged(data) \cup todo = File
    /\ \A c \in Content : disk[c] \in {None, File} \/ c \in cut \/ (c = data /\ todo # {})
    /\ data # None /\ todo = {} => disk[data] = File \/ data \in cut

\* An object that names a skill has a hash, or is about to get one, and the hash
\* that is about to be written can be vouched for.
HashSound ==
    /\ HashIsOfAnUpload
    /\ pc \in {"created", "updated"} => Vouched(work.hash)
    /\ "create" \notin unsaved =>
        /\ obj.named /\ obj.hash = None => pc = "recorded"
        /\ pc = "recorded" \/ (pc = "current" /\ fresh) => Vouched(work.hash)

\* There is a skill only while the object is there, and names it or has the mark.
SkillHeld ==
    /\ skill # None => obj.here /\ (obj.named \/ obj.mark = "pending")
    /\ obj.named => obj.mark # "none"
    /\ pc \in {"creating", "created"} => obj.here /\ obj.mark = "pending"
    /\ pc = "creating" => skill = None
    /\ pc \in {"read", "absent"} => work.here /\ work.mark # "pending"
    /\ pc = "absent" => skill = None \/ ~work.named

\* While nobody edits the Secret there is one hash to be seen, and nothing to update.
OneHash ==
    /\ skill = None => count = 0
    /\ ~turned =>
        /\ {obj.hash, cache.hash, work.hash, data} \subseteq {None, secret}
        /\ pc \notin {"outdated", "updating", "updated"}
        /\ count <= 1

IInv == TypeOK /\ CopiesAgree /\ StageSound /\ HashSound /\ SkillHeld /\ OneHash


---------------------------------------------------------------------------
(***************************************************************************)
(* Types.                                                                  *)
(***************************************************************************)
LEMMA BlankTyped == Blank \in Object
BY DEF Blank, Object, Hash

LEMMA TypeInit == Init => TypeOK
<1> SUFFICES ASSUME Init PROVE TypeOK
    OBVIOUS
<1>1. obj \in Object /\ cache \in Object /\ work \in Object
    BY BlankTyped DEF Init, Object
<1>2. edits \in 0..MaxEdits /\ faults \in 0..MaxFaults
    BY BoundAssumption DEF Init
<1>3. disk \in [Content -> {None} \cup SUBSET File]
    BY DEF Init
<1>4. todo = {} /\ uploaded = {} /\ cut = {} /\ unsaved = {}
    BY DEF Init
<1>5. pc \in PC /\ data \in Hash /\ skill = None /\ count \in 0..2
    BY DEF Init, PC, Hash
<1>6. secret \in Content /\ synced \in BOOLEAN /\ fresh \in BOOLEAN /\ turned \in BOOLEAN
    BY DEF Init
<1> QED
    BY <1>1, <1>2, <1>3, <1>4, <1>5, <1>6 DEF TypeOK

LEMMA Counted ==
    ASSUME NEW n \in 0..MaxEdits, NEW m \in 0..MaxFaults
    PROVE  (n < MaxEdits => n + 1 \in 0..MaxEdits) /\ (m < MaxFaults => m + 1 \in 0..MaxFaults)
BY BoundAssumption

LEMMA VersionTyped ==
    ASSUME TypeOK, data # None, NewVersion
    PROVE  /\ skill' \in [of: Content, whole: BOOLEAN] /\ skill'.of = data
           /\ count' \in 1..2
           /\ uploaded' \subseteq Content
BY DEF TypeOK, NewVersion, Version, Hash

LEMMA FailedTyped ==
    ASSUME TypeOK, Failed
    PROVE  /\ obj' \in Object /\ synced' \in BOOLEAN /\ work' \in Object /\ pc' = "idle"
           /\ fresh' = FALSE /\ data' = None /\ todo' = {}
<1>1. obj' \in Object /\ synced' \in BOOLEAN
    <2>1. CASE pc = "creating"
        <3>1. obj' = [obj EXCEPT !.mark = "failed"] /\ synced' = FALSE
            BY <2>1 DEF Failed
        <3> QED
            BY <3>1 DEF TypeOK, Object
    <2>2. CASE pc # "creating"
        BY <2>2 DEF TypeOK, Failed, object
    <2> QED
        BY <2>1, <2>2
<1> QED
    BY <1>1, BlankTyped DEF Failed, Return

LEMMA TypeNext ==
    ASSUME TypeOK, [Next]_vars
    PROVE  TypeOK'
<1> USE DEF TypeOK
<1>1. CASE EditSecret
    BY <1>1, Counted DEF EditSecret, object, api, stage, worker
<1>2. CASE Touch
    BY <1>2, Counted DEF Touch, api, stage
<1>3. CASE RequestDelete
    <2>1. obj' \in Object
        BY <1>3 DEF RequestDelete, Object
    <2> QED
        BY <1>3, <2>1 DEF RequestDelete, api, stage
<1>4. CASE OutOfBandDelete
    BY <1>4, Counted DEF OutOfBandDelete, object, stage, worker
<1>5. CASE Sync
    BY <1>5 DEF Sync, api, stage, worker
<1>6. CASE Start
    BY <1>6 DEF Start, object, api, stage, PC
<1>7. CASE Observe
    <2>1. work' \in Object
        BY <1>7 DEF Observe, Object, Hash
    <2> QED
        BY <1>7, <2>1 DEF Observe, object, api, stage, PC
<1>8. CASE Delete
    <2>1. work' \in Object /\ pc' = "idle" /\ data' \in Hash /\ todo' = {} /\ fresh' = FALSE
        BY <1>8, BlankTyped DEF Delete, Return, Hash
    <2>2. skill' = None /\ count' \in 0..2 /\ UNCHANGED <<uploaded, disk, cut, obj, synced>>
        BY <1>8 DEF Delete, object, stage
    <2> QED
        BY <1>8, <2>1, <2>2 DEF Delete, PC
<1>9. CASE Unfinalize
    <2>1. obj' \in Object /\ synced' \in BOOLEAN
        BY <1>9 DEF Unfinalize, Object, object
    <2> QED
        BY <1>9, <2>1, BlankTyped DEF Unfinalize, Return, api, stage, PC, Hash
<1>10. CASE MarkPending
    <2>1. [work EXCEPT !.mark = "pending"] \in Object
        BY DEF Object
    <2> QED
        BY <1>10, <2>1, BlankTyped DEF MarkPending, Return, object, api, stage, PC, Hash
<1>11. CASE BeginUpdate
    BY <1>11 DEF BeginUpdate, object, api, stage, PC
<1>12. CASE ReadSecret
    BY <1>12, NoneAssumption DEF ReadSecret, ToStage, object, api, stage, Hash
<1>13. CASE StageFile
    <2>1. PICK f \in todo : /\ disk' = [disk EXCEPT ![data] = Staged(data) \cup {f}]
                            /\ todo' = todo \ {f}
        BY <1>13 DEF StageFile
    <2>2. Staged(data) \subseteq File
        BY <2>1 DEF Staged, Hash
    <2>3. disk' \in [Content -> {None} \cup SUBSET File]
        BY <2>1, <2>2
    <2> QED
        BY <1>13, <2>1, <2>3 DEF StageFile, object, api
<1>14. CASE Upload
    <2>1. work' \in Object
        BY <1>14 DEF Upload, Object
    <2> QED
        BY <1>14, <2>1, VersionTyped DEF Upload, object, stage, PC
<1>15. CASE Refuse
    BY <1>15, FailedTyped DEF Refuse, api, stage, PC, Hash
<1>16. CASE Record
    <2>1. obj' \in Object
        BY <1>16 DEF Record, Object
    <2>2. work' \in Object
        BY <1>16, <2>1 DEF Record, Kept, Object
    <2>3. unsaved' \subseteq {"create", "recreate", "update"}
        BY <1>16 DEF Record, Creation
    <2> QED
        BY <1>16, <2>1, <2>2, <2>3 DEF Record, api, stage, PC
<1>17. CASE Save
    <2>1. obj' \in Object /\ synced' \in BOOLEAN
        BY <1>17 DEF Save, Object, object
    <2>2. unsaved' \subseteq {"create", "recreate", "update"}
        BY <1>17 DEF Save, Unsaved, Creation
    <2> QED
        BY <1>17, <2>1, <2>2, BlankTyped DEF Save, Return, api, stage, PC, Hash
<1>18. CASE StageFails
    <2>1. Staged(data) \subseteq File
        BY <1>18 DEF StageFails, Staged, Hash
    <2>2. disk' \in [Content -> {None} \cup SUBSET File] /\ cut' \subseteq Content
        BY <1>18, <2>1 DEF StageFails, Hash
    <2> QED
        BY <1>18, <2>2, FailedTyped, Counted DEF StageFails, api, PC, Hash
<1>19. CASE UploadFails
    <2>1. unsaved' \subseteq {"create", "recreate", "update"}
        BY <1>19 DEF UploadFails
    <2>2. skill' \in {None} \cup [of: Content, whole: BOOLEAN] /\ count' \in 0..2
            /\ uploaded' \subseteq Content
        BY <1>19, VersionTyped DEF UploadFails, api
    <2> QED
        BY <1>19, <2>1, <2>2, FailedTyped, Counted DEF UploadFails, stage, PC, Hash
<1>20. CASE Restart
    <2>1. unsaved' \subseteq {"create", "recreate", "update"}
        BY <1>20 DEF Restart, Unsaved, Creation
    <2>2. cut' \subseteq Content
        BY <1>20 DEF Restart, Hash
    <2> QED
        BY <1>20, <2>1, <2>2, BlankTyped, Counted DEF Restart, Return, object, api, PC, Hash
<1>21. CASE UNCHANGED vars
    BY <1>21 DEF vars
<1> QED
    BY <1>1, <1>2, <1>3, <1>4, <1>5, <1>6, <1>7, <1>8, <1>9, <1>10, <1>11, <1>12, <1>13, <1>14,
       <1>15, <1>16, <1>17, <1>18, <1>19, <1>20, <1>21 DEF Next, Environment, Worker


---------------------------------------------------------------------------
(***************************************************************************)
(* The copies: what is fresh is the object, which is what the optimistic   *)
(* lock buys.                                                              *)
(***************************************************************************)
LEMMA CopiesNext ==
    ASSUME IInv, [Next]_vars
    PROVE  CopiesAgree'
<1>0. TypeOK /\ CopiesAgree
    BY DEF IInv
<1>1. CASE Return
    <2>1. fresh' = FALSE
        BY <1>1 DEF Return
    <2>2. synced' => cache' = obj'
        BY <1>0, <1>1, BlankTyped
        DEF Next, Environment, Worker, CopiesAgree, EditSecret, Touch, RequestDelete, OutOfBandDelete,
            Sync, Start, Observe, Delete, Unfinalize, MarkPending, BeginUpdate, ReadSecret,
            StageFile, Upload, Refuse, Record, Save, StageFails, UploadFails, Restart, Failed,
            object, worker, vars
    <2> QED
        BY <2>1, <2>2 DEF CopiesAgree
<1>2. CASE ~Return
    <2>1. CASE Touch \/ RequestDelete
        BY <1>0, <2>1 DEF Touch, RequestDelete, CopiesAgree
    <2>2. CASE Sync
        BY <1>0, <2>2 DEF Sync, worker, CopiesAgree, Alike
    <2>3. CASE Start
        BY <1>0, <2>3 DEF Start, object, CopiesAgree, Alike
    <2>4. CASE Observe
        <3>1. Alike(work', work) /\ (pc' = "absent" => work' = work)
            BY <1>0, <2>4 DEF Observe, Alike, TypeOK, Object
        <3>2. pc' \in {"absent", "current", "outdated"} /\ UNCHANGED <<obj, synced, cache, fresh>>
            BY <2>4 DEF Observe, object
        <3> QED
            BY <1>0, <2>4, <3>1, <3>2 DEF Observe, CopiesAgree, Alike
    <2>5. CASE MarkPending
        <3>1. fresh /\ work = obj
            BY <1>0, <1>2, <2>5 DEF MarkPending, CopiesAgree
        <3> QED
            BY <2>5, <3>1 DEF MarkPending, CopiesAgree, Alike
    <2>6. CASE Upload
        <3>1. Alike(work', work)
            BY <1>0, <2>6 DEF Upload, Alike, TypeOK, Object
        <3> QED
            BY <1>0, <2>6, <3>1 DEF Upload, object, CopiesAgree, Alike
    <2>7. CASE Record
        <3>1. obj' \in Object
            BY <1>0, <2>7 DEF Record, TypeOK, Object
        <3> QED
            BY <2>7, <3>1 DEF Record, CopiesAgree, Alike, Object
    <2>8. CASE BeginUpdate
        BY <1>0, <2>8 DEF BeginUpdate, object, CopiesAgree
    <2>9. CASE EditSecret \/ OutOfBandDelete \/ ReadSecret \/ StageFile \/ UNCHANGED vars
        BY <1>0, <2>9 DEF EditSecret, OutOfBandDelete, ReadSecret, StageFile, vars, object, worker,
                          CopiesAgree
    <2> QED
        BY <1>2, <2>1, <2>2, <2>3, <2>4, <2>5, <2>6, <2>7, <2>8, <2>9
        DEF Next, Environment, Worker, Delete, Unfinalize, Refuse, Save, StageFails, UploadFails,
            Restart, Failed
<1> QED
    BY <1>1, <1>2

---------------------------------------------------------------------------
(***************************************************************************)
(* The staging directory.                                                  *)
(***************************************************************************)
LEMMA StageNext ==
    ASSUME IInv, [Next]_vars
    PROVE  StageSound'
<1>0. TypeOK /\ StageSound
    BY DEF IInv
<1>1. CASE ReadSecret
    <2>1. data' = secret /\ todo' = ToStage(secret) /\ UNCHANGED <<disk, cut, pc>>
        BY <1>1 DEF ReadSecret, stage
    <2>2. todo = {}
        BY <1>0, <1>1 DEF ReadSecret, TypeOK
    <2>3. CASE disk[secret] = None
        <3>1. todo' = File /\ Staged(data)' = {}
            BY <2>1, <2>3 DEF ToStage, Staged
        <3>2. Uploading'
            BY <1>1, <2>1 DEF ReadSecret, Uploading
        <3>3. \A c \in Content : disk[c] \in {None, File} \/ c \in cut
            BY <1>0, <2>2 DEF StageSound
        <3> QED
            BY <2>1, <3>1, <3>2, <3>3, FileAssumption DEF StageSound
    <2>4. CASE disk[secret] # None
        BY <1>0, <1>1, <2>1, <2>2, <2>4 DEF ReadSecret, ToStage, Staged, StageSound, Uploading, TypeOK
    <2> QED
        BY <2>3, <2>4
<1>2. CASE StageFile
    <2>1. PICK f \in todo : /\ disk' = [disk EXCEPT ![data] = Staged(data) \cup {f}]
                            /\ todo' = todo \ {f}
        BY <1>2 DEF StageFile
    <2>2. UNCHANGED <<cut, pc, data>>
        BY <1>2 DEF StageFile
    <2>3. data \in Content /\ Staged(data) \cup todo = File /\ Uploading
        BY <1>0, <2>1 DEF StageSound, TypeOK, Hash
    <2>4. disk'[data] = Staged(data) \cup {f}
        BY <1>0, <2>1, <2>3 DEF TypeOK
    <2>5. disk'[data] # None
        BY <1>0, <2>1, <2>3, <2>4, NoneAssumption DEF TypeOK
    <2>6. disk'[data] \cup todo' = File /\ (todo' = {} => disk'[data] = File)
        BY <2>1, <2>3, <2>4
    <2>7. \A c \in Content : c # data => disk'[c] = disk[c]
        BY <1>0, <2>1 DEF TypeOK
    <2> QED
        BY <1>0, <2>2, <2>3, <2>5, <2>6, <2>7 DEF StageSound, Staged, Uploading
<1>3. CASE StageFails
    <2>1. todo' = {} /\ data' = None
        BY <1>3 DEF StageFails, Failed, Return
    <2>2. data \in Content
        BY <1>0, <1>3 DEF StageFails, TypeOK, Hash
    <2>3. \A c \in Content : c # data => disk'[c] = disk[c]
        BY <1>0, <1>3 DEF StageFails, TypeOK
    <2>4. disk'[data] = None \/ data \in cut'
        BY <1>3 DEF StageFails
    <2>5. cut \subseteq cut'
        BY <1>3 DEF StageFails
    <2> QED
        BY <1>0, <2>1, <2>2, <2>3, <2>4, <2>5 DEF StageSound
<1>4. CASE Restart
    <2>1. todo' = {} /\ data' = None /\ disk' = disk /\ cut \subseteq cut'
        BY <1>4 DEF Restart, Return
    <2>2. todo # {} => disk[data] = None \/ data \in cut'
        BY <1>4 DEF Restart
    <2> QED
        BY <1>0, <2>1, <2>2 DEF StageSound
<1>5. CASE todo = {} /\ todo' = {} /\ UNCHANGED <<disk, cut>> /\ data' \in {data, None}
    BY <1>0, <1>5 DEF StageSound
<1>6. CASE UNCHANGED <<todo, disk, cut, data, pc>>
    BY <1>0, <1>6 DEF StageSound, Staged, Uploading
<1> QED
    BY <1>0, <1>1, <1>2, <1>3, <1>4, <1>5, <1>6
    DEF Next, Environment, Worker, StageSound, Uploading, EditSecret, Touch, RequestDelete,
        OutOfBandDelete, Sync, Start, Observe, Delete, Unfinalize, MarkPending, BeginUpdate,
        Upload, Refuse, Record, Save, UploadFails, Failed, Return, stage, worker, vars

LEMMA UploadVouched ==
    ASSUME IInv, data # None, todo = {}, NewVersion, cut' = cut
    PROVE  data \in uploaded' \cup cut'
<1>1. disk[data] = File \/ data \in cut
    BY DEF IInv, StageSound
<1> QED
    BY <1>1 DEF NewVersion


---------------------------------------------------------------------------
(***************************************************************************)
(* The hash.                                                               *)
(***************************************************************************)
\* What was uploaded stays uploaded.
LEMMA Grows ==
    ASSUME [Next]_vars
    PROVE  /\ uploaded \subseteq uploaded' /\ cut \subseteq cut'
           /\ \A c : Vouched(c) => Vouched(c)'
<1>1. uploaded \subseteq uploaded'
    BY DEF Next, Environment, Worker, EditSecret, Touch, RequestDelete, OutOfBandDelete, Sync,
           Start, Observe, Delete, Unfinalize, MarkPending, BeginUpdate, ReadSecret, StageFile,
           Upload, Refuse, Record, Save, StageFails, UploadFails, Restart, NewVersion, api, vars
<1>2. cut \subseteq cut'
    BY DEF Next, Environment, Worker, EditSecret, Touch, RequestDelete, OutOfBandDelete, Sync,
           Start, Observe, Delete, Unfinalize, MarkPending, BeginUpdate, ReadSecret, StageFile,
           Upload, Refuse, Record, Save, StageFails, UploadFails, Restart, stage, vars
<1> QED
    BY <1>1, <1>2 DEF Vouched

\* What can be vouched for is a content.
LEMMA NothingVouched ==
    ASSUME TypeOK
    PROVE  ~Vouched(None)
BY NoneAssumption DEF TypeOK, Vouched

LEMMA HashNext ==
    ASSUME IInv, [Next]_vars
    PROVE  HashSound'
<1>0. TypeOK /\ CopiesAgree /\ HashSound
    BY DEF IInv
<1>1. CASE Observe
    <2>1. UNCHANGED <<obj, uploaded, cut, unsaved, fresh>>
        BY <1>1 DEF Observe, object, api, stage
    <2>2. pc = "read" /\ pc' \in {"absent", "current", "outdated"}
        BY <1>1 DEF Observe
    <2>3. ASSUME fresh, pc' = "current", "create" \notin unsaved PROVE Vouched(work'.hash)
        <3>1. work = obj /\ work.named
            BY <1>0, <1>1, <2>3 DEF Observe, CopiesAgree
        <3>2. work.hash # None
            BY <1>0, <2>2, <2>3, <3>1 DEF HashSound
        <3>3. work'.hash = work.hash
            BY <1>0, <1>1, <2>3, <3>2 DEF Observe, TypeOK, Object
        <3> QED
            BY <1>0, <2>3, <3>1, <3>2, <3>3 DEF HashSound, HashIsOfAnUpload, Vouched
    <2> QED
        BY <1>0, <2>1, <2>2, <2>3 DEF HashSound, HashIsOfAnUpload, Vouched
<1>2. CASE Upload
    <2>1. work'.hash = data /\ pc' \in {"created", "updated"} /\ UNCHANGED <<obj, unsaved, cut>>
        BY <1>0, <1>2 DEF Upload, TypeOK, Object, object, stage
    <2>2. data \in uploaded' \cup cut'
        BY <1>2, <2>1, UploadVouched DEF Upload
    <2>3. pc # "recorded"
        BY <1>2 DEF Upload, Uploading
    <2> QED
        BY <1>0, <2>1, <2>2, <2>3, Grows DEF HashSound, HashIsOfAnUpload, Vouched
<1>3. CASE Record
    <2>1. obj' = [obj EXCEPT !.named = TRUE, !.mark = "succeeded"] /\ pc' = "recorded"
            /\ UNCHANGED <<uploaded, cut>>
        BY <1>3 DEF Record, api, stage
    <2>2. obj' \in Object /\ obj'.hash = obj.hash
        BY <1>0, <2>1 DEF TypeOK, Object
    <2>3. work'.hash = Kept
        BY <1>3, <2>2 DEF Record, Object
    <2>4. Vouched(work.hash) /\ work.hash # None
        BY <1>0, <1>3, NothingVouched DEF Record, HashSound
    <2>5. CASE obj.hash # None
        <3>1. work'.hash = obj.hash /\ unsaved' \subseteq unsaved \cup {"recreate"}
                /\ unsaved \subseteq unsaved'
            BY <1>3, <2>3, <2>5 DEF Record, Kept, Creation
        <3> QED
            BY <1>0, <2>1, <2>2, <2>5, <3>1 DEF HashSound, HashIsOfAnUpload, Vouched
    <2>6. CASE obj.hash = None /\ fresh
        <3>1. work'.hash = work.hash /\ unsaved' = unsaved
            BY <1>3, <2>3, <2>6 DEF Record, Kept
        <3> QED
            BY <1>0, <2>1, <2>2, <2>4, <3>1 DEF HashSound, HashIsOfAnUpload, Vouched
    <2>7. CASE obj.hash = None /\ ~fresh
        <3>1. "create" \in unsaved'
            BY <1>3, <2>4, <2>7 DEF Record, Kept, Creation
        <3> QED
            BY <2>1, <3>1 DEF HashSound, HashIsOfAnUpload
    <2> QED
        BY <2>5, <2>6, <2>7
<1>4. CASE Save
    <2>1. pc' = "idle" /\ UNCHANGED <<uploaded, cut>>
        BY <1>4 DEF Save, Return, api, stage
    <2>2. CASE fresh
        <3>1. obj'.hash = work.hash /\ obj'.named = obj.named
                /\ (pc # "updated" => unsaved' = unsaved)
            BY <1>0, <1>4, <2>2 DEF Save, TypeOK, Object
        <3>2. "create" \in unsaved' \/ Vouched(work.hash)
            BY <1>0, <1>4, <2>2, <3>1 DEF Save, HashSound
        <3> QED
            BY <2>1, <3>1, <3>2, NothingVouched, <1>0 DEF HashSound, HashIsOfAnUpload, Vouched
    <2>3. CASE ~fresh
        <3>1. obj' = obj /\ unsaved' = unsaved \cup Unsaved
            BY <1>4, <2>3 DEF Save, object
        <3>2. pc = "recorded" => obj.hash # None \/ "create" \in unsaved'
            BY <1>0, <3>1, NothingVouched DEF HashSound, Unsaved, Creation
        <3> QED
            BY <1>0, <2>1, <3>1, <3>2 DEF HashSound, HashIsOfAnUpload, Vouched
    <2> QED
        BY <2>2, <2>3
<1>5. CASE Restart
    <2>1. pc' = "idle" /\ obj' = obj /\ unsaved' = unsaved \cup Unsaved
        BY <1>5 DEF Restart, Return, object
    <2>2. pc = "recorded" => obj.hash # None \/ "create" \in unsaved'
        BY <1>0, <2>1, NothingVouched DEF HashSound, Unsaved, Creation
    <2> QED
        BY <1>0, <2>1, <2>2, Grows DEF HashSound, HashIsOfAnUpload, Vouched
<1>6. CASE Unfinalize \/ MarkPending
    <2>1. obj'.named = obj.named /\ obj'.hash = obj.hash
        BY <1>0, <1>6 DEF Unfinalize, MarkPending, CopiesAgree, TypeOK, Object, object
    <2>2. pc = "absent" /\ pc' \in {"idle", "creating"} /\ UNCHANGED <<uploaded, cut, unsaved>>
        BY <1>6 DEF Unfinalize, MarkPending, Return, api, stage
    <2> QED
        BY <1>0, <2>1, <2>2 DEF HashSound, HashIsOfAnUpload, Vouched
<1>7. CASE Refuse \/ StageFails \/ UploadFails \/ Delete \/ RequestDelete
    <2>1. obj'.named = obj.named /\ obj'.hash = obj.hash
        BY <1>0, <1>7 DEF Refuse, StageFails, UploadFails, Delete, RequestDelete, Failed, TypeOK,
                          Object, object
    <2>2. RequestDelete \/ (pc' = "idle" /\ pc # "recorded")
        BY <1>0, <1>7 DEF Refuse, StageFails, UploadFails, Delete, Failed, Return, Uploading, IInv,
                          StageSound
    <2>3. RequestDelete => UNCHANGED <<pc, work>> /\ fresh' = FALSE
        BY DEF RequestDelete
    <2>4. unsaved \subseteq unsaved'
        BY <1>7 DEF Refuse, StageFails, UploadFails, Delete, RequestDelete
    <2> QED
        BY <1>0, <2>1, <2>2, <2>3, <2>4, Grows DEF HashSound, HashIsOfAnUpload, Vouched
<1>8. CASE EditSecret \/ Touch \/ OutOfBandDelete \/ Sync \/ ReadSecret \/ StageFile \/ UNCHANGED vars
    <2>1. UNCHANGED <<obj, work, pc, uploaded, cut, unsaved>> /\ (fresh' => fresh)
        BY <1>8 DEF EditSecret, Touch, OutOfBandDelete, Sync, ReadSecret, StageFile, vars, object,
                    worker, api, stage
    <2> QED
        BY <1>0, <2>1 DEF HashSound, HashIsOfAnUpload, Vouched
<1>9. CASE Start \/ BeginUpdate
    <2>1. UNCHANGED <<obj, uploaded, cut, unsaved>> /\ pc # "recorded" /\ pc' \in {"read", "updating"}
        BY <1>9 DEF Start, BeginUpdate, object, api, stage
    <2> QED
        BY <1>0, <2>1 DEF HashSound, HashIsOfAnUpload, Vouched
<1> QED
    BY <1>1, <1>2, <1>3, <1>4, <1>5, <1>6, <1>7, <1>8, <1>9 DEF Next, Environment, Worker

---------------------------------------------------------------------------
(***************************************************************************)
(* The skill and its object.                                               *)
(***************************************************************************)
LEMMA SkillNext ==
    ASSUME IInv, [Next]_vars
    PROVE  SkillHeld'
<1>0. TypeOK /\ CopiesAgree /\ SkillHeld
    BY DEF IInv
<1>1. CASE RequestDelete
    <2>1. obj.mark # "none" => obj' = [obj EXCEPT !.deleting = TRUE]
        BY <1>1 DEF RequestDelete
    <2>2. obj'.named = obj.named /\ obj'.mark = obj.mark /\ (obj.mark # "none" => obj'.here = obj.here)
        BY <1>0, <1>1 DEF RequestDelete, TypeOK, Object
    <2>3. UNCHANGED <<skill, pc, work>>
        BY <1>1 DEF RequestDelete, api
    <2> QED
        BY <1>0, <2>2, <2>3 DEF SkillHeld
<1>2. CASE Unfinalize
    <2>1. pc' = "idle" /\ skill' = skill
        BY <1>2 DEF Unfinalize, Return, api
    <2>2. CASE fresh
        <3>1. work = obj /\ obj' = [obj EXCEPT !.here = FALSE]
            BY <1>0, <1>2, <2>2 DEF Unfinalize, CopiesAgree
        <3>2. skill = None
            BY <1>0, <1>2, <3>1 DEF Unfinalize, SkillHeld
        <3> QED
            BY <1>0, <2>1, <3>1, <3>2 DEF SkillHeld, TypeOK, Object
    <2>3. CASE ~fresh
        BY <1>0, <1>2, <2>1, <2>3 DEF Unfinalize, SkillHeld, object
    <2> QED
        BY <2>2, <2>3
<1>3. CASE MarkPending
    <2>1. skill' = skill
        BY <1>3 DEF MarkPending, api
    <2>2. CASE fresh
        <3>1. work = obj /\ obj' = [obj EXCEPT !.mark = "pending"] /\ pc' = "creating"
            BY <1>0, <1>3, <2>2 DEF MarkPending, CopiesAgree
        <3>2. skill = None
            BY <1>0, <1>3, <3>1 DEF MarkPending, SkillHeld
        <3>3. obj.here
            BY <1>0, <1>3, <3>1 DEF MarkPending, SkillHeld
        <3> QED
            BY <1>0, <2>1, <3>1, <3>2, <3>3 DEF SkillHeld, TypeOK, Object
    <2>3. CASE ~fresh
        BY <1>0, <1>3, <2>1, <2>3 DEF MarkPending, Return, SkillHeld, object
    <2> QED
        BY <2>2, <2>3
<1>4. CASE Start
    BY <1>0, <1>4 DEF Start, object, api, SkillHeld
<1>5. CASE Observe
    <2>1. UNCHANGED <<obj, skill>> /\ pc' \in {"absent", "current", "outdated"}
        BY <1>5 DEF Observe, object, api
    <2>2. pc' = "absent" => work' = work /\ (skill = None \/ ~work.named)
        BY <1>0, <1>5 DEF Observe
    <2>3. pc = "read"
        BY <1>5 DEF Observe
    <2> QED
        BY <1>0, <2>1, <2>2, <2>3 DEF SkillHeld
<1>6. CASE Upload
    <2>1. UNCHANGED obj /\ Uploading /\ pc' \in {"created", "updated"}
            /\ (pc' = "created" => pc = "creating")
        BY <1>6 DEF Upload, object
    <2>2. pc = "updating" => skill # None
        BY <1>6 DEF Upload, NewVersion
    <2> QED
        BY <1>0, <2>1, <2>2 DEF SkillHeld, Uploading
<1>7. CASE Record
    <2>1. obj'.here = obj.here /\ obj'.named /\ obj'.mark = "succeeded" /\ pc' = "recorded"
            /\ skill' = skill
        BY <1>0, <1>7 DEF Record, TypeOK, Object, api
    <2>2. obj.here
        BY <1>0, <1>7 DEF Record, SkillHeld
    <2> QED
        BY <2>1, <2>2 DEF SkillHeld
<1>8. CASE Refuse \/ StageFails \/ UploadFails
    <2>1. Failed /\ pc' = "idle"
        BY <1>8 DEF Refuse, StageFails, UploadFails, Failed, Return
    <2>2. CASE pc = "creating"
        <3>1. skill' = None
            BY <1>0, <1>8, <2>2 DEF Refuse, StageFails, UploadFails, api, SkillHeld
        <3>2. obj'.named = obj.named /\ obj'.mark = "failed"
            BY <1>0, <2>1, <2>2 DEF Failed, TypeOK, Object
        <3> QED
            BY <2>1, <3>1, <3>2 DEF SkillHeld
    <2>3. CASE pc # "creating"
        <3>1. obj' = obj
            BY <2>1, <2>3 DEF Failed, object
        <3>2. skill' # None => skill # None
            BY <1>8, <2>3 DEF Refuse, StageFails, UploadFails, NewVersion, api
        <3> QED
            BY <1>0, <2>1, <3>1, <3>2 DEF SkillHeld
    <2> QED
        BY <2>2, <2>3
<1>9. CASE Delete \/ Save \/ Restart
    <2>1. pc' = "idle" /\ skill' \in {skill, None}
        BY <1>9 DEF Delete, Save, Restart, Return, api
    <2>2. obj'.here = obj.here /\ obj'.named = obj.named /\ obj'.mark = obj.mark
        BY <1>0, <1>9 DEF Delete, Save, Restart, TypeOK, Object, object
    <2> QED
        BY <1>0, <2>1, <2>2 DEF SkillHeld
<1>10. CASE BeginUpdate
    BY <1>0, <1>10 DEF BeginUpdate, object, api, SkillHeld
<1>11. CASE EditSecret \/ Touch \/ OutOfBandDelete \/ Sync \/ ReadSecret \/ StageFile \/ UNCHANGED vars
    <2>1. UNCHANGED <<obj, work, pc>> /\ skill' \in {skill, None}
        BY <1>11 DEF EditSecret, Touch, OutOfBandDelete, Sync, ReadSecret, StageFile, vars, object,
                     worker, api
    <2> QED
        BY <1>0, <2>1 DEF SkillHeld
<1> QED
    BY <1>1, <1>2, <1>3, <1>4, <1>5, <1>6, <1>7, <1>8, <1>9, <1>10, <1>11
    DEF Next, Environment, Worker

---------------------------------------------------------------------------
(***************************************************************************)
(* The versions.                                                           *)
(***************************************************************************)
LEMMA OneHashNext ==
    ASSUME IInv, [Next]_vars
    PROVE  OneHash'
<1>0. TypeOK /\ SkillHeld /\ OneHash
    BY DEF IInv
<1>1. skill' = None => count' = 0
    <2>1. CASE Upload \/ UploadFails
        <3>1. CASE NewVersion
            <4>1. data # None
                BY <2>1 DEF Upload, UploadFails
            <4> QED
                BY <1>0, <3>1, <4>1, VersionTyped, NoneAssumption
        <3>2. CASE ~NewVersion
            BY <1>0, <2>1, <3>2 DEF Upload, UploadFails, api, OneHash
        <3> QED
            BY <3>1, <3>2
    <2>2. CASE ~Upload /\ ~UploadFails
        BY <1>0, <2>2
        DEF Next, Environment, Worker, EditSecret, Touch, RequestDelete, OutOfBandDelete, Sync,
            Start, Observe, Delete, Unfinalize, MarkPending, BeginUpdate, ReadSecret, StageFile,
            Refuse, Record, Save, StageFails, Restart, api, vars, OneHash
    <2> QED
        BY <2>1, <2>2
<1>2. SUFFICES ASSUME ~turned'
               PROVE  /\ {obj'.hash, cache'.hash, work'.hash, data'} \subseteq {None, secret'}
                      /\ pc' \notin {"outdated", "updating", "updated"}
                      /\ count' <= 1
    BY <1>1 DEF OneHash
<1>3. ~turned /\ secret' = secret
    BY <1>2
    DEF Next, Environment, Worker, EditSecret, Touch, RequestDelete, OutOfBandDelete, Sync, Start,
        Observe, Delete, Unfinalize, MarkPending, BeginUpdate, ReadSecret, StageFile, Upload, Refuse,
        Record, Save, StageFails, UploadFails, Restart, vars
<1>4. /\ {obj.hash, cache.hash, work.hash, data} \subseteq {None, secret}
      /\ pc \notin {"outdated", "updating", "updated"} /\ count <= 1
    BY <1>0, <1>3 DEF OneHash
<1>5. Blank.hash = None
    BY DEF Blank
<1>6. CASE Touch \/ OutOfBandDelete \/ Sync \/ Start \/ ReadSecret \/ StageFile \/ UNCHANGED vars
    BY <1>3, <1>4, <1>6
    DEF Touch, OutOfBandDelete, Sync, Start, ReadSecret, StageFile, vars, object, worker, api
<1>7. CASE RequestDelete
    <2>1. obj'.hash = obj.hash
        BY <1>0, <1>7 DEF RequestDelete, TypeOK, Object
    <2> QED
        BY <1>3, <1>4, <1>7, <2>1 DEF RequestDelete, api
<1>8. CASE Observe
    <2>1. work'.hash \in {None, secret} /\ pc' # "outdated"
        BY <1>0, <1>4, <1>8 DEF Observe, UpToDate, TypeOK, Object
    <2> QED
        BY <1>3, <1>4, <1>8, <2>1 DEF Observe, object, api
<1>9. CASE Delete \/ Unfinalize \/ Save \/ Restart
    <2>1. obj'.hash \in {obj.hash, work.hash}
        BY <1>0, <1>9 DEF Delete, Unfinalize, Save, Restart, object, TypeOK, Object
    <2>2. Return /\ cache' = cache /\ count' \in {count, 0}
        BY <1>9 DEF Delete, Unfinalize, Save, Restart, object, api
    <2> QED
        BY <1>3, <1>4, <1>5, <2>1, <2>2 DEF Return
<1>10. CASE MarkPending
    <2>1. obj'.hash \in {obj.hash, work.hash} /\ work'.hash \in {work.hash, None}
        BY <1>0, <1>5, <1>10 DEF MarkPending, Return, object, TypeOK, Object
    <2>2. pc' \in {"creating", "idle"} /\ data' \in {data, None}
        BY <1>10 DEF MarkPending, Return
    <2> QED
        BY <1>3, <1>4, <1>10, <2>1, <2>2 DEF MarkPending, api
<1>11. CASE BeginUpdate
    BY <1>4, <1>11 DEF BeginUpdate
<1>12. CASE Upload
    <2>1. pc = "creating" /\ pc' = "created"
        BY <1>4, <1>12 DEF Upload, Uploading
    <2>2. count' = 1
        BY <1>0, <1>12, <2>1 DEF Upload, NewVersion, SkillHeld, OneHash
    <2>3. work'.hash = data
        BY <1>0, <1>12 DEF Upload, TypeOK, Object
    <2> QED
        BY <1>3, <1>4, <1>12, <2>1, <2>2, <2>3 DEF Upload, object
<1>13. CASE Refuse \/ StageFails \/ UploadFails
    <2>1. obj'.hash = obj.hash
        BY <1>0, <1>13 DEF Refuse, StageFails, UploadFails, Failed, object, TypeOK, Object
    <2>2. Return /\ cache' = cache /\ count' = count
        BY <1>4, <1>13 DEF Refuse, StageFails, UploadFails, Failed, api
    <2> QED
        BY <1>3, <1>4, <1>5, <2>1, <2>2 DEF Return
<1>14. CASE Record
    <2>1. obj'.hash = obj.hash /\ work'.hash \in {obj.hash, work.hash}
        BY <1>0, <1>14 DEF Record, Kept, TypeOK, Object
    <2> QED
        BY <1>3, <1>4, <1>14, <2>1 DEF Record, api
<1>15. ~EditSecret
    BY <1>2 DEF EditSecret
<1> QED
    BY <1>6, <1>7, <1>8, <1>9, <1>10, <1>11, <1>12, <1>13, <1>14, <1>15
    DEF Next, Environment, Worker

---------------------------------------------------------------------------
(***************************************************************************)
(* The theorems.                                                           *)
(***************************************************************************)
LEMMA IInvInit == Init => IInv
<1> SUFFICES ASSUME Init PROVE IInv
    OBVIOUS
<1>1. work = Blank /\ obj.hash = None /\ cache = obj /\ ~obj.named /\ ~Blank.named
        /\ Blank.hash = None
    BY DEF Init, Blank
<1>2. CopiesAgree /\ StageSound
    BY DEF Init, CopiesAgree, StageSound
<1>3. HashSound /\ SkillHeld
    BY <1>1 DEF Init, HashSound, HashIsOfAnUpload, SkillHeld
<1>4. OneHash
    BY <1>1 DEF Init, OneHash
<1> QED
    BY <1>2, <1>3, <1>4, TypeInit DEF IInv

LEMMA IInvNext == IInv /\ [Next]_vars => IInv'
BY TypeNext, CopiesNext, StageNext, HashNext, SkillNext, OneHashNext DEF IInv

\* The strengthened invariant always holds.
THEOREM IInvAlways == Spec => []IInv
BY IInvInit, IInvNext, PTL DEF Spec

\* The variables keep their types; files are staged only for a content that was read.
THEOREM TypeCorrect == Spec => []TypeOK
<1>1. IInv => TypeOK
    BY DEF IInv
<1> QED
    BY <1>1, IInvAlways, PTL

\* Observe, StageFiles and the write of the status together: the hash that decides
\* whether anything is uploaded again is of what was uploaded, unless the status of
\* a creation was lost or staging was cut short.
THEOREM HashIsTrue == Spec => []HashIsOfAnUpload
<1>1. IInv => HashIsOfAnUpload
    BY DEF IInv, HashSound
<1> QED
    BY <1>1, IInvAlways, PTL

\* Observe adopts the Secret when no hash is recorded, so repeating what failed or
\* was read late makes no second version of it.
THEOREM OneVersion == Spec => []NoSpuriousVersion
<1>1. IInv => NoSpuriousVersion
    BY DEF IInv, OneHash, NoSpuriousVersion
<1> QED
    BY <1>1, IInvAlways, PTL

\* Delete and the finalizer: an object never goes before its skill.
THEOREM SkillOutlivedByObject == Spec => []SkillGoesFirst
<1>1. IInv => SkillGoesFirst
    BY DEF IInv, SkillHeld, SkillGoesFirst
<1> QED
    BY <1>1, IInvAlways, PTL
=============================================================================
