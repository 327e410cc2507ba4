----------------------- MODULE ManagedResourceProofs -----------------------
(***************************************************************************)
(* Proofs of the safety properties of ManagedResource, for every set of    *)
(* kinds, identifiers and values and any number of edits and faults.       *)
(***************************************************************************)
EXTENDS ManagedResource, TLAPS

\* What Observe and Update compute is made of slots of the kind and of values.
LEMMA DesiredType ==
    ASSUME TypeOK, Readable, NEW o \in Object
    PROVE  Desired(o) \in [kind.slots -> Value]
BY DEF TypeOK, Readable, Object, Desired

LEMMA ApplyType ==
    ASSUME TypeOK, Readable, NEW o \in Object, NEW S, NEW val \in [kind.slots -> Value]
    PROVE  Apply(o, S, val) \in [kind.slots -> Value]
BY DesiredType DEF Apply

LEMMA KindFacts ==
    ASSUME TypeOK
    PROVE  /\ kind \in KindType
           /\ kind.slots \subseteq Slot
           /\ kind.removal \subseteq {"archive", "delete"}
           /\ NoName \in Name /\ ObjectName \in Name /\ ID \subseteq Name
           /\ Unset \in Value /\ InitVal \in Value
           /\ Blank(kind) \in Object
           /\ NoExternal(kind) \in External
           /\ NotSeen(kind) \in Observation
BY KindsAssumption, ValAssumption
   DEF TypeOK, KindType, ByPolicy, ArchiveOnly, DeleteOnly, Name, Value, Blank, NoExternal,
       NotSeen, Object, External, Observation, Mark, State

---------------------------------------------------------------------------
(***************************************************************************)
(* Types.                                                                  *)
(***************************************************************************)

LEMMA ReplaceType ==
    ASSUME TypeOK, NEW i \in ID, NEW e \in External, Replace(i, e)
    PROVE  ext' \in [ID -> External]
BY DEF TypeOK, Replace

LEMMA ChangedType ==
    ASSUME TypeOK, NEW e \in External, NEW val \in [kind.slots -> Value]
    PROVE  Changed(e, val) \in External
<1>1. e.ver \in Nat /\ e.ver + 1 \in Nat
    BY DEF External
<1>2. CASE val = e.val
    BY <1>1, <1>2 DEF Changed, External
<1>3. CASE val # e.val
    BY <1>1, <1>3 DEF Changed, External
<1> QED
    BY <1>2, <1>3

LEMMA RemovedType ==
    ASSUME NEW e \in External, NEW p
    PROVE  Removed(e, p) \in External
BY DEF Removed, External, State

LEMMA SendType ==
    ASSUME TypeOK, Readable, NEW S, Send(S)
    PROVE  ext' \in [ID -> External]
<1>1. CASE Live(work.name)
    <2>1. ext[work.name] \in External /\ work \in Object /\ work.name \in ID
        BY <1>1 DEF Live, TypeOK
    <2>2. Apply(work, S, ext[work.name].val) \in [kind.slots -> Value]
        BY <2>1, ApplyType DEF External
    <2>3. Changed(ext[work.name], Apply(work, S, ext[work.name].val)) \in External
        BY <2>1, <2>2, ChangedType
    <2> QED
        BY <1>1, <2>1, <2>3, ReplaceType DEF Send, TypeOK
<1>2. CASE ~Live(work.name)
    BY <1>2 DEF Send, TypeOK
<1> QED
    BY <1>1, <1>2

LEMMA TypeInit == Init => TypeOK
<1> SUFFICES ASSUME Init PROVE TypeOK
    OBVIOUS
<1>1. kind \in Kinds /\ kind \in KindType
    BY KindsAssumption DEF Init
<1>2. Blank(kind) \in Object /\ NoExternal(kind) \in External /\ NotSeen(kind) \in Observation
    BY <1>1 DEF Blank, NoExternal, NotSeen, Object, External, Observation, Name, Mark, State, Value
<1>3. Imported \in ID
    BY NamesAssumption DEF Imported
<1>4. PICK n \in {NoName, Imported}, v \in Val :
        /\ obj = [Blank(kind) EXCEPT !.here = TRUE, !.name = n,
                     !.spec = [s \in kind.slots |-> IF s = "secret" THEN Unset ELSE InitVal]]
        /\ ext = [i \in ID |->
                    IF i = n
                    THEN [NoExternal(kind) EXCEPT !.st = "live",
                              !.val = [s \in kind.slots |-> v]]
                    ELSE NoExternal(kind)]
    BY DEF Init
<1>5. obj \in Object
    BY <1>2, <1>3, <1>4, ValAssumption DEF Object, Name, Value
<1>6. ext \in [ID -> External]
    BY <1>2, <1>4, ValAssumption DEF External, State, Value
<1>7. edits \in 0..MaxEdits /\ faults \in 0..MaxFaults
    BY BoundAssumption DEF Init
<1>8. /\ secret \in Value \cup {Missing} /\ synced \in BOOLEAN /\ fresh \in BOOLEAN /\ pc \in PC /\ pc # "created"
      /\ cache = obj /\ work = Blank(kind) /\ seen = NotSeen(kind)
      /\ lost = {} /\ crashed = {}
    BY ValAssumption DEF Init, PC, Value
<1> QED
    BY <1>1, <1>2, <1>5, <1>6, <1>7, <1>8 DEF TypeOK

LEMMA ReturnType ==
    ASSUME TypeOK, Return, kind' = kind
    PROVE  work' \in Object' /\ pc' \in PC /\ pc' # "created" /\ fresh' \in BOOLEAN /\ seen' \in Observation'
BY KindFacts DEF Return, PC, Object, Observation

LEMMA WriteType ==
    ASSUME TypeOK, kind' = kind, NEW o \in Object, NEW next \in PC, Write(o, next)
    PROVE  /\ obj' \in Object' /\ work' \in Object' /\ pc' \in PC /\ pc' \in {"idle", next}
           /\ fresh' \in BOOLEAN /\ synced' \in BOOLEAN /\ seen' \in Observation'
<1>1. CASE fresh
    BY <1>1 DEF Write, TypeOK, Object, Observation
<1>2. CASE ~fresh
    BY <1>2, ReturnType DEF Write, Return, TypeOK, Object
<1> QED
    BY <1>1, <1>2

\* A counter below its bound may be incremented.
LEMMA CounterType ==
    ASSUME NEW n \in Nat, NEW c \in 0..n, c < n
    PROVE  c + 1 \in 0..n
OBVIOUS

\* The types depend on the kind, which does not change.
LEMMA SameSets ==
    ASSUME kind' = kind
    PROVE  Object' = Object /\ External' = External /\ Observation' = Observation
BY DEF Object, External, Observation

LEMMA TypeNext == TypeOK /\ [Next]_vars => TypeOK'
<1> SUFFICES ASSUME TypeOK, [Next]_vars PROVE TypeOK'
    OBVIOUS
<1> USE KindFacts
<1>1. CASE EditSpec
    <2>1. PICK s \in kind.slots \ {"secret"}, v \in Value : Overtake([obj EXCEPT !.spec[s] = v])
        BY <1>1 DEF EditSpec
    <2>2. [obj EXCEPT !.spec[s] = v] \in Object
        BY <2>1 DEF TypeOK, Object
    <2>3. edits' \in 0..MaxEdits
        BY <2>1, BoundAssumption, CounterType DEF Overtake, TypeOK
    <2> QED
        BY <2>1, <2>2, <2>3 DEF Overtake, TypeOK, Object, External, Observation
<1>2. CASE Touch
    <2>1. edits' \in 0..MaxEdits
        BY <1>2, BoundAssumption, CounterType DEF Touch, Overtake, TypeOK
    <2>2. kind' = kind
        BY <1>2 DEF Touch, Overtake
    <2> QED
        BY <1>2, <2>1, <2>2, SameSets DEF Touch, Overtake, TypeOK
<1>3. CASE EditSecret
    BY <1>3, BoundAssumption DEF EditSecret, TypeOK, Object, External, Observation
<1>4. CASE RequestDelete
    <2>1. obj' \in Object
        BY <1>4 DEF RequestDelete, TypeOK, Object
    <2>2. kind' = kind
        BY <1>4 DEF RequestDelete
    <2> QED
        BY <1>4, <2>1, <2>2, SameSets DEF RequestDelete, TypeOK
<1>5. CASE OutOfBand
    <2>1. ext' \in [ID -> External]
        <3>1. PICK i \in ID :
                \/ \E s \in kind.slots, v \in Value :
                        Replace(i, Changed(ext[i], [ext[i].val EXCEPT ![s] = v]))
                \/ \E p \in kind.removal : Replace(i, Removed(ext[i], p))
            BY <1>5 DEF OutOfBand
        <3>2. CASE \E s \in kind.slots, v \in Value :
                        Replace(i, Changed(ext[i], [ext[i].val EXCEPT ![s] = v]))
            <4>1. PICK s \in kind.slots, v \in Value :
                        Replace(i, Changed(ext[i], [ext[i].val EXCEPT ![s] = v]))
                BY <3>2
            <4>2. ext[i] \in External
                BY DEF TypeOK
            <4>3. [ext[i].val EXCEPT ![s] = v] \in [kind.slots -> Value]
                BY <4>2 DEF External
            <4> QED
                BY <4>1, <4>2, <4>3, ChangedType, ReplaceType
        <3>3. CASE \E p \in kind.removal : Replace(i, Removed(ext[i], p))
            BY <3>3, RemovedType, ReplaceType DEF TypeOK
        <3> QED
            BY <3>1, <3>2, <3>3
    <2> QED
        BY <1>5, <2>1, BoundAssumption DEF OutOfBand, TypeOK, Object, External, Observation
<1>6. CASE Sync
    BY <1>6 DEF Sync, TypeOK, Object, External, Observation
<1>7. CASE Start
    BY <1>7 DEF Start, TypeOK, Object, External, Observation, PC
<1>8. CASE Initialize
    <2>1. CASE Rewrite("initialized")
        BY <1>8, <2>1, ReturnType
        DEF Initialize, Rewrite, TypeOK, Object, External, Observation, PC
    <2>2. CASE Write([work EXCEPT !.name = ObjectName], "initialized")
        <3>1. [work EXCEPT !.name = ObjectName] \in Object
            BY DEF TypeOK, Object
        <3> QED
            BY <1>8, <2>2, <3>1, WriteType
            DEF Initialize, TypeOK, Object, External, PC
    <2>3. CASE pc' = "initialized" /\ UNCHANGED <<obj, synced, work, fresh, seen>>
        BY <1>8, <2>3 DEF Initialize, TypeOK, Object, External, Observation, PC
    <2> QED
        BY <1>8, <2>1, <2>2, <2>3 DEF Initialize
<1>9. CASE RefuseIncomplete
    BY <1>9, ReturnType DEF RefuseIncomplete, TypeOK, Object, External
<1>10. CASE Observe
    <2>1. seen' \in Observation
        BY <1>10 DEF Observe, Sight, Named, Drift, TypeOK, External, Observation, Slot
    <2> QED
        BY <1>10, <2>1 DEF Observe, TypeOK, Object, External, Observation, PC
<1>11. CASE Delete
    <2>1. ext' \in [ID -> External]
        <3>1. work.name \in ID => ext[work.name] \in External
            BY DEF TypeOK
        <3>2. work.name \notin ID => \A e : Replace(work.name, e) => ext' = ext
            BY DEF Replace, TypeOK
        <3> QED
            <4>1. PICK p : Replace(work.name, Removed(ext[work.name], p))
                BY <1>11 DEF Delete
            <4>2. CASE work.name \in ID
                BY <4>1, <4>2, <3>1, RemovedType, ReplaceType
            <4>3. CASE work.name \notin ID
                BY <4>1, <4>3, <3>2 DEF TypeOK
            <4> QED
                BY <4>2, <4>3
    <2> QED
        BY <1>11, <2>1, ReturnType DEF Delete, TypeOK, Object, External
<1>12. CASE Unfinalize
    BY <1>12, ReturnType DEF Unfinalize, TypeOK, Object, External
<1>13. CASE AddFinalizer
    <2>1. CASE work.fin
        BY <1>13, <2>1 DEF AddFinalizer, TypeOK, Object, External, Observation, PC
    <2>2. CASE ~work.fin
        <3>1. [work EXCEPT !.fin = TRUE] \in Object
            BY DEF TypeOK, Object
        <3> QED
            BY <1>13, <2>2, <3>1, WriteType DEF AddFinalizer, TypeOK, Object, External, PC
    <2> QED
        BY <2>1, <2>2
<1>14. CASE MarkPending
    <2>1. [work EXCEPT !.mark = "pending"] \in Object
        BY DEF TypeOK, Object, Mark
    <2> QED
        BY <1>14, <2>1, WriteType DEF MarkPending, TypeOK, Object, External, PC
<1>15. ASSUME Readable PROVE NewExternal \in External
    <2>1. Default \in [kind.slots -> Value] /\ work \in Object
        BY ValAssumption DEF Default, Value, TypeOK
    <2>2. Apply(work, kind.slots \ {"late", "switch"}, Default) \in [kind.slots -> Value]
        BY <1>15, <2>1, ApplyType
    <2> QED
        BY <2>2 DEF NewExternal, External, State
<1>16. CASE Create
    <2>1. PICK i \in ID : Replace(i, NewExternal) /\ work' = [work EXCEPT !.name = i]
        BY <1>16 DEF Create
    <2>2. work' \in Object /\ ext' \in [ID -> External]
        BY <1>16, <2>1, <1>15, ReplaceType DEF Create, TypeOK, Object
    <2>3. work'.name \in ID
        BY <2>1 DEF TypeOK, Object
    <2> QED
        BY <1>16, <2>2, <2>3 DEF Create, TypeOK, Object, External, Observation, PC
<1>17. CASE CreateFails
    <2>1. ext' \in [ID -> External] /\ lost' \subseteq ID
        BY <1>17, <1>15, ReplaceType DEF CreateFails, TypeOK
    <2> QED
        BY <1>17, <2>1, BoundAssumption DEF CreateFails, TypeOK, Object, External, Observation, PC
<1>18. CASE Record
    <2>1. obj' \in Object
        BY <1>18 DEF Record, TypeOK, Object, Mark
    <2> QED
        BY <1>18, <2>1, ReturnType DEF Record, TypeOK, Object, External
<1>19. CASE Update
    <2>1. ext' \in [ID -> External]
        BY <1>19, SendType DEF Update
    <2> QED
        BY <1>19, <2>1, ReturnType DEF Update, TypeOK, Object, External
<1>20. CASE Settle
    BY <1>20, ReturnType DEF Settle, TypeOK, Object, External
<1>21. CASE Abandon
    <2>1. faults' \in 0..MaxFaults
        BY <1>21, BoundAssumption, CounterType DEF Abandon, TypeOK
    <2>2. crashed' \subseteq ID
        BY <1>21 DEF Abandon, TypeOK
    <2> QED
        BY <1>21, <2>1, <2>2, ReturnType DEF Abandon, TypeOK, Object, External
<1>22. CASE UpdateFails
    <2>1. ext' \in [ID -> External]
        BY <1>22, SendType DEF UpdateFails
    <2>2. faults' \in 0..MaxFaults
        BY <1>22, BoundAssumption, CounterType DEF UpdateFails, TypeOK
    <2> QED
        BY <1>22, <2>1, <2>2, ReturnType DEF UpdateFails, TypeOK, Object, External
<1>23. CASE SecretMissing
    BY <1>23, ReturnType DEF SecretMissing, TypeOK, Object, External
<1>24. CASE CreateRefused
    BY <1>24 DEF CreateRefused, TypeOK, Object, External, Observation, PC
<1>25. CASE UNCHANGED vars
    BY <1>25 DEF vars, TypeOK, Object, External, Observation
<1> QED
    BY <1>1, <1>2, <1>3, <1>4, <1>5, <1>6, <1>7, <1>8, <1>9, <1>10, <1>11, <1>12, <1>13,
       <1>14, <1>16, <1>17, <1>18, <1>19, <1>20, <1>21, <1>22,
       <1>23, <1>24, <1>25
    DEF Next, Environment, Worker

\* The variables always hold what they are declared to hold.
THEOREM TypeCorrect == Spec => []TypeOK
BY TypeInit, TypeNext, PTL DEF Spec

---------------------------------------------------------------------------
(***************************************************************************)
(* The inductive invariant.                                                *)
(***************************************************************************)

\* What the API forgets only in one direction: nothing is revived, and no
\* identifier becomes free again.
Ages ==
    \A i \in ID :
        /\ ext'[i].ours = ext[i].ours
        /\ ext'[i].st = "live" => ext[i].st = "live"
        /\ ext'[i].st = "none" => ext[i].st = "none"

LEMMA AgesSame == TypeOK /\ ext' = ext => Ages
BY DEF Ages

LEMMA ReplaceEffect ==
    ASSUME TypeOK, NEW n, NEW e, Replace(n, e)
    PROVE  \A i \in ID : ext'[i] = IF i = n THEN e ELSE ext[i]
BY DEF TypeOK, Replace

LEMMA ChangedAges ==
    ASSUME NEW e \in External, NEW val
    PROVE  Changed(e, val).ours = e.ours /\ Changed(e, val).st = e.st
BY DEF External, Changed

LEMMA RemovedAges ==
    ASSUME NEW e \in External, NEW p
    PROVE  /\ Removed(e, p).ours = e.ours
           /\ Removed(e, p).st = "live" => e.st = "live"
           /\ Removed(e, p).st = "none" => e.st = "none"
BY DEF External, Removed

\* Edits and removals, by hand or by the worker, let resources age.
LEMMA EditsAge ==
    ASSUME TypeOK, OutOfBand \/ Delete \/ Update \/ UpdateFails
    PROVE  Ages
<1> USE DEF Ages
<1>1. \A i \in ID : ext[i] \in External
    BY DEF TypeOK
<1>2. CASE OutOfBand
    <2>1. PICK i \in ID :
            \E e : /\ Replace(i, e)
                   /\ e.ours = ext[i].ours
                   /\ e.st = "live" => ext[i].st = "live"
                   /\ e.st = "none" => ext[i].st = "none"
        <3>1. PICK i \in ID :
                \/ \E s \in kind.slots, v \in Value :
                        Replace(i, Changed(ext[i], [ext[i].val EXCEPT ![s] = v]))
                \/ \E p \in kind.removal : Replace(i, Removed(ext[i], p))
            BY <1>2 DEF OutOfBand
        <3>2. CASE \E val : Replace(i, Changed(ext[i], val))
            BY <1>1, <3>2, ChangedAges
        <3>3. CASE \E p : Replace(i, Removed(ext[i], p))
            BY <1>1, <3>3, RemovedAges
        <3> QED
            BY <3>1, <3>2, <3>3
    <2> QED
        BY <2>1, ReplaceEffect
<1>3. CASE Delete
    BY <1>1, <1>3, ReplaceEffect, ChangedAges, RemovedAges DEF Delete
<1>4. ASSUME NEW S, Send(S)
      PROVE  Ages
    <2>1. CASE UNCHANGED ext
        BY <2>1
    <2>2. CASE Live(work.name) /\ ext' # ext
        <3> DEFINE val == Apply(work, S, ext[work.name].val)
        <3>1. Replace(work.name, Changed(ext[work.name], val)) /\ work.name \in ID
            BY <1>4, <2>2 DEF Send, Live
        <3> HIDE DEF val
        <3> QED
            BY <1>1, <3>1, ReplaceEffect, ChangedAges
    <2> QED
        BY <1>4, <2>1, <2>2 DEF Send
<1>5. CASE Update \/ UpdateFails
    BY <1>4, <1>5 DEF Update, UpdateFails
<1> QED
    BY <1>2, <1>3, <1>5

\* A reconcile that ends, or fails, without having written the object.
LEMMA ReturnKeeps ==
    ASSUME Inv, Return, Ages, pc # "created",
           UNCHANGED <<kind, obj, cache, lost, crashed>>, synced' => synced
    PROVE  /\ CopiesAgree' /\ NamesUsed' /\ WorkerKnows' /\ CreateHeld'
           /\ CreatedIsFinalized' /\ NoSecondCopy' /\ Tracked' /\ CrashBlocksCreation'
<1>1. pc' = "idle" /\ fresh' = FALSE /\ work'.name = NoName /\ ~InCreate'
    BY DEF Return, Blank, InCreate
<1>2. CopiesAgree'
    BY <1>1 DEF Inv, CopiesAgree
<1>6. WorkerKnows' /\ CreateHeld' /\ NoSecondCopy'
    BY <1>1 DEF WorkerKnows, CreateHeld, NoSecondCopy
<1>3. NamesUsed'
    BY <1>1, NamesAssumption DEF Inv, NamesUsed, Used, Ages
<1>4. CreatedIsFinalized' /\ CrashBlocksCreation'
    BY <1>1 DEF Inv, CreatedIsFinalized, CrashBlocksCreation, Ages
<1>5. Tracked'
    BY <1>1 DEF Inv, Tracked, Ages
<1> QED
    BY <1>2, <1>3, <1>4, <1>5, <1>6

\* Steps of others on the external resources only.
LEMMA OutOfBandKeeps ==
    ASSUME Inv, Ages,
           UNCHANGED <<kind, obj, cache, synced, pc, work, fresh, seen, lost, crashed>>
    PROVE  /\ CopiesAgree' /\ NamesUsed' /\ WorkerKnows' /\ CreateHeld'
           /\ CreatedIsFinalized' /\ NoSecondCopy' /\ Tracked' /\ CrashBlocksCreation'
<1>1. InCreate' = InCreate
    BY DEF InCreate
<1>2. CopiesAgree' /\ CreateHeld' /\ CrashBlocksCreation'
    BY <1>1 DEF Inv, CopiesAgree, CreateHeld, CrashBlocksCreation
<1>3. WorkerKnows' /\ NoSecondCopy'
    BY <1>1 DEF Inv, WorkerKnows, NoSecondCopy, Live, Ages
<1>4. NamesUsed' /\ CreatedIsFinalized' /\ Tracked'
    BY <1>1 DEF Inv, NamesUsed, Used, CreatedIsFinalized, Tracked, Ages
<1> QED
    BY <1>2, <1>3, <1>4

\* A write of the object's own copy that keeps what the invariant is about.
LEMMA WriteKeeps ==
    ASSUME Inv, fresh, pc # "created", ~InCreate, ~InCreate', pc' \notin {"idle", "created"},
           NEW o \in Object, obj' = o, work' = o,
           o.here, obj.fin => o.fin, o.mark = obj.mark,
           o.name = obj.name \/ (obj.name \notin ID /\ o.name \notin ID),
           WorkerKnows',
           synced' = FALSE, UNCHANGED <<kind, cache, ext, lost, crashed>>
    PROVE  /\ CopiesAgree' /\ NamesUsed' /\ WorkerKnows' /\ CreateHeld'
           /\ CreatedIsFinalized' /\ NoSecondCopy' /\ Tracked' /\ CrashBlocksCreation'
<1>1. CopiesAgree' /\ CreateHeld' /\ NoSecondCopy'
    BY DEF CopiesAgree, CreateHeld, NoSecondCopy
<1>2. NamesUsed' /\ WorkerKnows'
    BY DEF Inv, NamesUsed, Used
<1>3. work = obj /\ obj.here
    BY DEF Inv, CopiesAgree, WorkerKnows
<1>4. CreatedIsFinalized' /\ CrashBlocksCreation'
    BY <1>3 DEF Inv, CreatedIsFinalized, CrashBlocksCreation
<1>5. Tracked'
    BY <1>3 DEF Inv, Tracked
<1> QED
    BY <1>1, <1>2, <1>4, <1>5

LEMMA InvInit == Init => Inv
<1> SUFFICES ASSUME Init PROVE Inv
    OBVIOUS
<1>1. TypeOK
    BY TypeInit
<1>2. PICK n \in {NoName, Imported} :
        /\ obj.here /\ obj.name = n /\ obj.mark = "none" /\ obj.fin = FALSE
        /\ \A i \in ID : ext[i].ours = FALSE /\ (i = n => ext[i].st = "live")
    BY DEF Init, Blank, NoExternal
<1>3. work.name = NoName /\ NoName \notin ID /\ cache = obj /\ pc = "idle" /\ fresh = FALSE /\ crashed = {}
    BY NamesAssumption DEF Init, Blank
<1>4. ~InCreate
    BY <1>3 DEF InCreate
<1>5. NamesUsed
    BY <1>2, <1>3 DEF NamesUsed, Used
<1>6. CopiesAgree /\ WorkerKnows /\ CreateHeld /\ NoSecondCopy /\ CrashBlocksCreation
    BY <1>3, <1>4 DEF CopiesAgree, WorkerKnows, CreateHeld, NoSecondCopy, CrashBlocksCreation
<1>7. CreatedIsFinalized /\ Tracked
    BY <1>2, <1>3 DEF CreatedIsFinalized, Tracked
<1> QED
    BY <1>1, <1>5, <1>6, <1>7 DEF Inv

Parts ==
    /\ CopiesAgree /\ NamesUsed /\ WorkerKnows /\ CreateHeld
    /\ CreatedIsFinalized /\ NoSecondCopy /\ Tracked /\ CrashBlocksCreation

LEMMA EnvironmentKeeps == Inv /\ Environment => Parts'
<1> SUFFICES ASSUME Inv, Environment PROVE Parts'
    OBVIOUS
<1> USE DEF Parts
<1>0. obj \in Object /\ TypeOK
    BY DEF Inv, TypeOK
<1>1. ASSUME NEW o \in Object, Overtake(o), o.here = obj.here, o.fin = obj.fin,
             o.mark = obj.mark, o.name = obj.name
      PROVE  Parts'
    <2>1. InCreate' = InCreate
        BY <1>1 DEF Overtake, InCreate
    <2>2. CopiesAgree' /\ NamesUsed' /\ WorkerKnows'
        BY <1>1 DEF Overtake, Inv, CopiesAgree, NamesUsed, Used, WorkerKnows, Live
    <2>3. CreateHeld' /\ CreatedIsFinalized' /\ CrashBlocksCreation'
        BY <1>1, <2>1 DEF Overtake, Inv, CreateHeld, CreatedIsFinalized, CrashBlocksCreation
    <2>4. NoSecondCopy' /\ Tracked'
        BY <1>1, <2>1 DEF Overtake, Inv, NoSecondCopy, Tracked, Live
    <2> QED
        BY <2>2, <2>3, <2>4
<1>2. CASE EditSpec
    <2>1. PICK s \in kind.slots \ {"secret"}, v \in Value : Overtake([obj EXCEPT !.spec[s] = v])
        BY <1>2 DEF EditSpec
    <2>2. [obj EXCEPT !.spec[s] = v] \in Object
        BY <1>0 DEF Object
    <2> QED
        BY <1>0, <1>1, <2>1, <2>2 DEF Object
<1>3. CASE Touch
    BY <1>0, <1>1, <1>3 DEF Touch
<1>4. CASE EditSecret
    BY <1>0, <1>4, AgesSame, OutOfBandKeeps DEF EditSecret
<1>5. CASE RequestDelete
    <2>1. InCreate' = InCreate
        BY <1>5 DEF RequestDelete, InCreate
    <2>2. /\ obj'.fin = obj.fin /\ obj'.mark = obj.mark /\ obj'.name = obj.name
          /\ obj'.here = obj.fin
        BY <1>0, <1>5 DEF RequestDelete, Object
    <2>3. CopiesAgree' /\ NamesUsed' /\ WorkerKnows'
        BY <1>5, <2>2 DEF RequestDelete, Inv, CopiesAgree, NamesUsed, Used, WorkerKnows, Live
    <2>4. CreateHeld' /\ CreatedIsFinalized' /\ CrashBlocksCreation'
        BY <1>5, <2>1, <2>2
        DEF RequestDelete, Inv, CreateHeld, CreatedIsFinalized, CrashBlocksCreation
    <2>5. NoSecondCopy' /\ Tracked'
        BY <1>5, <2>1, <2>2
        DEF RequestDelete, Inv, NoSecondCopy, Tracked, CreatedIsFinalized, Live
    <2> QED
        BY <2>3, <2>4, <2>5
<1>6. CASE OutOfBand
    BY <1>0, <1>6, EditsAge, OutOfBandKeeps DEF OutOfBand
<1> QED
    BY <1>2, <1>3, <1>4, <1>5, <1>6 DEF Environment

LEMMA CreateKeeps == Inv /\ (MarkPending \/ Create \/ CreateRefused \/ CreateFails \/ Record) => Parts'
<1> SUFFICES ASSUME Inv, MarkPending \/ Create \/ CreateRefused \/ CreateFails \/ Record PROVE Parts'
    OBVIOUS
<1> USE DEF Parts
<1>0. /\ TypeOK /\ obj \in Object /\ work \in Object
      /\ \A i \in ID : ext[i] \in External
    BY DEF Inv, TypeOK
<1>1. NewExternal.st = "live" /\ NewExternal.ours = TRUE
    BY <1>0, KindFacts DEF NewExternal, External
<1>2. CASE MarkPending /\ fresh
    <2>1. work = obj /\ obj.here /\ obj.fin /\ obj.mark # "pending" /\ ~Live(obj.name)
        BY <1>2 DEF MarkPending, Inv, CopiesAgree, WorkerKnows
    <2>2. /\ obj' = work' /\ obj'.here /\ obj'.fin /\ obj'.mark = "pending" /\ obj'.name = obj.name
          /\ pc' = "creating" /\ synced' = FALSE /\ UNCHANGED <<kind, cache, ext, lost, crashed>>
        BY <1>0, <1>2, <2>1 DEF MarkPending, Write, Object
    <2>3. crashed = {}
        BY <2>1 DEF Inv, CrashBlocksCreation
    <2>4. CopiesAgree' /\ NamesUsed' /\ WorkerKnows'
        BY <2>1, <2>2 DEF Inv, CopiesAgree, NamesUsed, Used, WorkerKnows
    <2>5. CreateHeld' /\ CreatedIsFinalized' /\ CrashBlocksCreation'
        BY <2>2, <2>3 DEF CreateHeld, CreatedIsFinalized, CrashBlocksCreation
    <2>6. NoSecondCopy' /\ Tracked'
        BY <1>2, <2>1, <2>2 DEF MarkPending, Inv, NoSecondCopy, Tracked, Live
    <2> QED
        BY <2>4, <2>5, <2>6
<1>3. CASE MarkPending /\ ~fresh
    BY <1>0, <1>3, AgesSame, ReturnKeeps DEF MarkPending, Write
<1>4. CASE Create
    <2>1. PICK i \in ID : ext[i].st = "none" /\ Replace(i, NewExternal) /\ work' = [work EXCEPT !.name = i]
        BY <1>4 DEF Create, Unused
    <2>2. /\ pc = "creating" /\ pc' = "created" /\ InCreate /\ InCreate'
          /\ UNCHANGED <<kind, obj, cache, synced, lost, crashed>>
        BY <1>4 DEF Create, InCreate
    <2>3. \A j \in ID : ext'[j] = IF j = i THEN NewExternal ELSE ext[j]
        BY <1>0, <2>1, ReplaceEffect
    <2>4. work'.name = i /\ work'.here = work.here
        BY <1>0, <2>1 DEF Object
    <2>5. obj.name # i /\ cache.name # i
        BY <2>1 DEF Inv, NamesUsed, Used
    <2>6. CopiesAgree' /\ NamesUsed' /\ WorkerKnows'
        BY <1>1, <2>1, <2>2, <2>3, <2>4, <2>5 DEF Inv, CopiesAgree, NamesUsed, Used, WorkerKnows
    <2>7. CreateHeld' /\ CreatedIsFinalized' /\ CrashBlocksCreation'
        BY <2>2 DEF Inv, CreateHeld, CreatedIsFinalized, CrashBlocksCreation
    <2>8. NoSecondCopy' /\ Tracked'
        BY <1>1, <2>2, <2>3, <2>4, <2>5 DEF Inv, NoSecondCopy, Tracked, Live
    <2> QED
        BY <2>6, <2>7, <2>8
<1>5. CASE CreateFails \/ CreateRefused
    <2>1. /\ pc = "creating" /\ pc' = "createfailed" /\ InCreate /\ InCreate'
          /\ UNCHANGED <<kind, obj, cache, synced, work, fresh, crashed>>
        BY <1>5 DEF CreateFails, CreateRefused, InCreate
    <2>2. /\ \A j \in ID : ext'[j] = ext[j] \/ (ext[j].st = "none" /\ ext'[j] = NewExternal /\ j \in lost')
          /\ lost \subseteq lost'
        <3>1. CASE UNCHANGED <<ext, lost>>
            BY <3>1
        <3>2. CASE \E i \in ID : Unused(i) /\ Replace(i, NewExternal) /\ lost' = lost \cup {i}
            BY <1>0, <3>2, ReplaceEffect DEF Unused
        <3> QED
            BY <1>5, <3>1, <3>2 DEF CreateFails, CreateRefused
    <2>3. CopiesAgree' /\ WorkerKnows'
        BY <2>1 DEF Inv, CopiesAgree, WorkerKnows
    <2>4. NamesUsed'
        BY <1>1, <2>1, <2>2 DEF Inv, NamesUsed, Used
    <2>5. CreateHeld' /\ CreatedIsFinalized' /\ CrashBlocksCreation'
        BY <2>1 DEF Inv, CreateHeld, CreatedIsFinalized, CrashBlocksCreation
    <2>6. NoSecondCopy'
        BY <2>1, <2>2 DEF Inv, NoSecondCopy, Live, NamesUsed, Used
    <2>7. Tracked'
        BY <2>1, <2>2 DEF Inv, Tracked
    <2> QED
        BY <2>3, <2>4, <2>5, <2>6, <2>7
<1>6. CASE Record
    <2>1. /\ InCreate /\ pc' = "idle" /\ ~InCreate' /\ fresh' = FALSE /\ synced' = FALSE
          /\ work'.name = NoName /\ UNCHANGED <<kind, cache, ext, lost, crashed>>
        BY <1>6 DEF Record, Return, Blank, InCreate
    <2>2. obj'.here = obj.here /\ obj'.fin = obj.fin /\ obj'.name = work.name
        BY <1>0, <1>6 DEF Record, Object
    <2>3. CopiesAgree' /\ WorkerKnows' /\ CreateHeld' /\ NoSecondCopy'
        BY <2>1 DEF CopiesAgree, WorkerKnows, CreateHeld, NoSecondCopy
    <2>4. NamesUsed'
        BY <2>1, <2>2, NamesAssumption DEF Inv, NamesUsed, Used
    <2>5. CreatedIsFinalized' /\ CrashBlocksCreation'
        BY <2>1, <2>2 DEF Inv, CreateHeld, CreatedIsFinalized, CrashBlocksCreation
    <2>6. Tracked'
        BY <2>1, <2>2 DEF Inv, CreateHeld, NoSecondCopy, Tracked, Live
    <2> QED
        BY <2>3, <2>4, <2>5, <2>6
<1> QED
    BY <1>2, <1>3, <1>4, <1>5, <1>6

LEMMA WorkerKeeps ==
    Inv /\ (Start \/ Initialize \/ RefuseIncomplete \/ SecretMissing \/ Observe \/ Delete \/ Unfinalize
            \/ AddFinalizer \/ Update \/ UpdateFails \/ Settle \/ Abandon \/ Sync) => Parts'
<1> SUFFICES ASSUME Inv, Start \/ Initialize \/ RefuseIncomplete \/ SecretMissing \/ Observe \/ Delete \/ Unfinalize
                         \/ AddFinalizer \/ Update \/ UpdateFails \/ Settle \/ Abandon \/ Sync
             PROVE  Parts'
    OBVIOUS
<1> USE DEF Parts
<1>0. TypeOK /\ obj \in Object /\ work \in Object /\ cache \in Object
    BY DEF Inv, TypeOK
<1>1. CASE Start
    <2>1. /\ pc = "idle" /\ pc' = "read" /\ ~InCreate /\ ~InCreate' /\ work' = cache /\ fresh' = synced
          /\ cache.here /\ UNCHANGED <<kind, obj, cache, synced, ext, lost, crashed>>
        BY <1>1 DEF Start, InCreate
    <2>2. CopiesAgree' /\ NamesUsed' /\ WorkerKnows'
        BY <2>1 DEF Inv, CopiesAgree, NamesUsed, Used, WorkerKnows
    <2>3. CreateHeld' /\ CreatedIsFinalized' /\ NoSecondCopy' /\ Tracked' /\ CrashBlocksCreation'
        BY <2>1 DEF Inv, CreateHeld, CreatedIsFinalized, NoSecondCopy, Tracked, CrashBlocksCreation
    <2> QED
        BY <2>2, <2>3
<1>2. ASSUME ~InCreate, pc # "idle", pc' \in {"initialized", "observed", "finalized"},
             pc' \in {"observed", "finalized"} =>
                work.mark # "pending" /\ (~seen'.exists => ~Live(work.name)),
             pc' = "finalized" => work.fin,
             synced' => synced, UNCHANGED <<kind, obj, cache, work, fresh, ext, lost, crashed>>
      PROVE  Parts'
    <2>1. ~InCreate' /\ pc # "created"
        BY <1>2 DEF InCreate
    <2>2. CopiesAgree' /\ NamesUsed'
        BY <1>2, <2>1 DEF Inv, CopiesAgree, NamesUsed, Used
    <2>3. WorkerKnows'
        BY <1>2 DEF Inv, WorkerKnows, Live
    <2>4. CreateHeld' /\ CreatedIsFinalized' /\ NoSecondCopy' /\ Tracked' /\ CrashBlocksCreation'
        BY <1>2, <2>1 DEF Inv, CreateHeld, CreatedIsFinalized, NoSecondCopy, Tracked, CrashBlocksCreation
    <2> QED
        BY <2>2, <2>3, <2>4
<1>3. CASE Initialize
    <2>1. pc = "read" /\ ~InCreate /\ UNCHANGED <<kind, cache, ext, lost, crashed>>
        BY <1>3 DEF Initialize, InCreate
    <2>2. CASE Rewrite("initialized") /\ fresh
        BY <1>2, <2>1, <2>2 DEF Rewrite
    <2>3. CASE Rewrite("initialized") /\ ~fresh
        BY <1>0, <2>1, <2>3, AgesSame, ReturnKeeps DEF Rewrite
    <2>4. CASE work.name = NoName /\ Write([work EXCEPT !.name = ObjectName], "initialized") /\ fresh
        <3> DEFINE o == [work EXCEPT !.name = ObjectName]
        <3>1. /\ o \in Object /\ o.name = ObjectName /\ o.here = work.here /\ o.fin = work.fin
              /\ o.mark = work.mark
            BY <1>0, KindFacts DEF Object
        <3>2. work = obj /\ work.here
            BY <2>1, <2>4 DEF Inv, CopiesAgree, WorkerKnows
        <3>3. obj' = o /\ work' = o /\ pc' = "initialized" /\ synced' = FALSE /\ ~InCreate'
            BY <2>4 DEF Write, InCreate
        <3> HIDE DEF o
        <3>4. WorkerKnows'
            BY <3>1, <3>2, <3>3 DEF WorkerKnows
        <3> QED
            BY <2>1, <2>4, <3>1, <3>2, <3>3, <3>4, WriteKeeps, NamesAssumption
    <2>5. CASE Write([work EXCEPT !.name = ObjectName], "initialized") /\ ~fresh
        BY <1>0, <2>1, <2>5, AgesSame, ReturnKeeps DEF Write
    <2>6. CASE pc' = "initialized" /\ UNCHANGED <<obj, synced, work, fresh, seen>>
        BY <1>2, <2>1, <2>6
    <2> QED
        BY <1>3, <2>2, <2>3, <2>4, <2>5, <2>6 DEF Initialize
<1>4. CASE RefuseIncomplete \/ SecretMissing
    BY <1>0, <1>4, AgesSame, ReturnKeeps DEF RefuseIncomplete, SecretMissing
<1>5. CASE Observe
    <2>1. /\ pc = "initialized" /\ ~InCreate /\ pc' = "observed" /\ work.mark # "pending"
          /\ UNCHANGED <<kind, obj, cache, synced, work, fresh, ext, lost, crashed>>
        BY <1>5 DEF Observe, InCreate
    <2>2. ~seen'.exists => ~Live(work.name)
        BY <1>5 DEF Observe, Sight, Named, Exists, Live, NotSeen
    <2> QED
        BY <1>2, <2>1, <2>2
<1>6. CASE Delete
    <2>1. Ages
        BY <1>0, <1>6, EditsAge DEF Delete
    <2>2. synced' => synced
        BY <1>6 DEF Delete
    <2> QED
        BY <1>6, <2>1, <2>2, ReturnKeeps DEF Delete
<1>7. CASE Unfinalize /\ fresh
    <2>1. /\ work = obj /\ obj.mark # "pending" /\ ~Live(obj.name) /\ ~InCreate
        BY <1>7 DEF Unfinalize, Inv, CopiesAgree, WorkerKnows, InCreate
    <2>2. /\ obj'.here = FALSE /\ obj'.name = obj.name /\ synced' = FALSE
          /\ UNCHANGED <<kind, cache, ext, lost, crashed>>
        BY <1>0, <1>7, <2>1 DEF Unfinalize, Object
    <2>3. pc' = "idle" /\ ~InCreate' /\ fresh' = FALSE /\ work'.name = NoName
        BY <1>7 DEF Unfinalize, Return, Blank, InCreate
    <2>4. CopiesAgree' /\ WorkerKnows' /\ CreateHeld' /\ NoSecondCopy' /\ CreatedIsFinalized'
        BY <2>2, <2>3 DEF CopiesAgree, WorkerKnows, CreateHeld, NoSecondCopy, CreatedIsFinalized
    <2>5. NamesUsed'
        BY <2>2, <2>3, NamesAssumption DEF Inv, NamesUsed, Used
    <2>6. CrashBlocksCreation'
        BY <2>1, <2>2 DEF Inv, CrashBlocksCreation
    <2>7. Tracked'
        BY <1>7, <2>1, <2>2 DEF Unfinalize, Inv, Tracked, Live
    <2> QED
        BY <2>4, <2>5, <2>6, <2>7
<1>8. CASE Unfinalize /\ ~fresh
    BY <1>0, <1>8, AgesSame, ReturnKeeps DEF Unfinalize
<1>9. CASE AddFinalizer
    <2>1. /\ pc = "observed" /\ ~InCreate /\ work.mark # "pending" /\ (~seen.exists => ~Live(work.name))
          /\ UNCHANGED <<kind, cache, ext, lost, crashed>>
        BY <1>9 DEF AddFinalizer, InCreate, Inv, WorkerKnows
    <2>2. CASE work.fin
        BY <1>2, <1>9, <2>1, <2>2 DEF AddFinalizer
    <2>3. CASE ~work.fin /\ fresh
        <3> DEFINE o == [work EXCEPT !.fin = TRUE]
        <3>1. /\ o \in Object /\ o.name = work.name /\ o.here = work.here /\ o.fin = TRUE
              /\ o.mark = work.mark
            BY <1>0 DEF Object
        <3>2. work = obj /\ work.here
            BY <2>1, <2>3 DEF Inv, CopiesAgree, WorkerKnows
        <3>3. obj' = o /\ work' = o /\ pc' = "finalized" /\ synced' = FALSE /\ ~InCreate' /\ seen' = seen
            BY <1>9, <2>3 DEF AddFinalizer, Write, InCreate
        <3> HIDE DEF o
        <3>4. WorkerKnows'
            BY <2>1, <3>1, <3>2, <3>3 DEF WorkerKnows, Live
        <3> QED
            BY <2>1, <2>3, <3>1, <3>2, <3>3, <3>4, WriteKeeps
    <2>4. CASE ~work.fin /\ ~fresh
        BY <1>0, <1>9, <2>1, <2>4, AgesSame, ReturnKeeps DEF AddFinalizer, Write
    <2> QED
        BY <2>2, <2>3, <2>4
<1>10. CASE Update \/ UpdateFails
    <2>1. Ages
        BY <1>0, <1>10, EditsAge
    <2>2. synced' => synced
        BY <1>10 DEF Update, UpdateFails
    <2> QED
        BY <1>10, <2>1, <2>2, ReturnKeeps DEF Update, UpdateFails
<1>11. CASE Settle
    <2>1. Ages
        BY <1>0, <1>11, AgesSame DEF Settle
    <2>2. synced' => synced
        BY <1>11 DEF Settle
    <2> QED
        BY <1>11, <2>1, <2>2, ReturnKeeps DEF Settle
<1>12. CASE Abandon /\ pc # "created"
    BY <1>0, <1>12, AgesSame, ReturnKeeps DEF Abandon
<1>13. CASE Abandon /\ pc = "created"
    <2>1. /\ pc' = "idle" /\ ~InCreate' /\ fresh' = FALSE /\ work'.name = NoName
          /\ UNCHANGED <<kind, obj, cache, synced, ext, lost>>
        BY <1>13 DEF Abandon, Return, Blank, InCreate
    <2>2. /\ work.name \in ID /\ obj.here /\ obj.fin /\ obj.mark = "pending" /\ crashed = {}
          /\ crashed' = {work.name}
        BY <1>13 DEF Abandon, Inv, TypeOK, CreateHeld, InCreate
    <2>3. CopiesAgree' /\ WorkerKnows' /\ CreateHeld' /\ NoSecondCopy'
        BY <2>1 DEF Inv, CopiesAgree, WorkerKnows, CreateHeld, NoSecondCopy
    <2>4. NamesUsed'
        BY <2>1, NamesAssumption DEF Inv, NamesUsed, Used
    <2>5. CreatedIsFinalized' /\ CrashBlocksCreation'
        BY <2>1, <2>2 DEF CreatedIsFinalized, CrashBlocksCreation
    <2>6. Tracked'
        BY <2>1, <2>2 DEF Inv, Tracked
    <2> QED
        BY <2>3, <2>4, <2>5, <2>6
<1>14. CASE Sync
    <2>1. /\ cache' = obj /\ ~synced /\ InCreate' = InCreate
          /\ UNCHANGED <<kind, obj, pc, work, fresh, seen, ext, lost, crashed>>
        BY <1>14 DEF Sync, InCreate
    <2>2. CopiesAgree' /\ NamesUsed' /\ WorkerKnows'
        BY <2>1 DEF Inv, CopiesAgree, NamesUsed, Used, WorkerKnows, Live
    <2>3. CreateHeld' /\ CreatedIsFinalized' /\ NoSecondCopy' /\ Tracked' /\ CrashBlocksCreation'
        BY <2>1 DEF Inv, CreateHeld, CreatedIsFinalized, NoSecondCopy, Tracked, CrashBlocksCreation, Live
    <2> QED
        BY <2>2, <2>3
<1> QED
    BY <1>1, <1>3, <1>4, <1>5, <1>6, <1>7, <1>8, <1>9, <1>10, <1>11, <1>12, <1>13, <1>14

LEMMA InvNext == Inv /\ [Next]_vars => Inv'
<1> SUFFICES ASSUME Inv, [Next]_vars PROVE Inv'
    OBVIOUS
<1>1. TypeOK'
    BY TypeNext DEF Inv
<1>2. CASE Next
    <2>1. Parts'
        BY <1>2, EnvironmentKeeps, WorkerKeeps, CreateKeeps DEF Next, Worker
    <2> QED
        BY <1>1, <2>1 DEF Inv, Parts
<1>3. CASE UNCHANGED vars
    <2>1. Ages /\ UNCHANGED <<kind, obj, cache, synced, pc, work, fresh, seen, lost, crashed>>
        BY <1>3 DEF vars, Ages
    <2> QED
        BY <1>1, <2>1, OutOfBandKeeps DEF Inv
<1> QED
    BY <1>2, <1>3

---------------------------------------------------------------------------
(***************************************************************************)
(* The theorems.                                                           *)
(***************************************************************************)

THEOREM InvAlways == Spec => []Inv
BY InvInit, InvNext, PTL DEF Spec

\* What the provider created and is still live is never leaked, but for a
\* creation that a lost reply or a restart cut short.
THEOREM NothingLeaks == Spec => []Tracked
<1>1. Inv => Tracked
    BY DEF Inv
<1> QED
    BY <1>1, InvAlways, PTL

\* Create is called only when nothing is live under the object's name.
THEOREM NothingDuplicated == Spec => []NoSecondCopy
<1>1. Inv => NoSecondCopy
    BY DEF Inv
<1> QED
    BY <1>1, InvAlways, PTL

\* A creation whose name was lost in a restart is never repeated.
THEOREM CrashBlocks == Spec => []CrashBlocksCreation
<1>1. Inv => CrashBlocksCreation
    BY DEF Inv
<1> QED
    BY <1>1, InvAlways, PTL

\* The finalizer is held as long as something is live under the object's name.
THEOREM FinalizerHeld == Spec => FinalizerGuards
<1>1. Inv /\ [Next]_vars => [obj.fin /\ ~obj'.fin => ~Live(obj.name)]_vars
    <2> SUFFICES ASSUME Inv, Next, obj.fin, ~obj'.fin PROVE ~Live(obj.name)
        BY DEF vars
    <2>0. obj \in Object /\ work \in Object
        BY DEF Inv, TypeOK
    <2>1. CASE Environment
        BY <2>0, <2>1 DEF Environment, EditSpec, Touch, Overtake, EditSecret, RequestDelete, OutOfBand, Object
    <2>2. CASE Unfinalize
        BY <2>2 DEF Unfinalize, Inv, CopiesAgree, WorkerKnows
    <2>3. CASE Initialize
        <3>1. fresh => work = obj
            BY <2>3 DEF Initialize, Inv, CopiesAgree
        <3> QED
            BY <2>0, <2>3, <3>1 DEF Initialize, Write, Rewrite, Object
    <2>4. CASE AddFinalizer
        BY <2>0, <2>4 DEF AddFinalizer, Write, Object
    <2>5. CASE MarkPending
        <3>1. fresh => work = obj
            BY <2>5 DEF MarkPending, Inv, CopiesAgree
        <3> QED
            BY <2>0, <2>5, <3>1 DEF MarkPending, Write, Object
    <2>6. CASE Record
        BY <2>0, <2>6 DEF Record, Object
    <2>7. CASE Sync \/ Start \/ RefuseIncomplete \/ SecretMissing \/ Observe \/ Delete \/ Create
               \/ CreateRefused \/ Update \/ UpdateFails \/ Settle \/ CreateFails \/ Abandon
        BY <2>7 DEF Sync, Start, RefuseIncomplete, SecretMissing, Observe, Delete, Create, CreateRefused, Update, UpdateFails, Settle,
                    CreateFails, Abandon
    <2> QED
        BY <2>1, <2>2, <2>3, <2>4, <2>5, <2>6, <2>7 DEF Next, Worker
<1> QED
    BY <1>1, InvAlways, PTL DEF Spec, FinalizerGuards

---------------------------------------------------------------------------
(***************************************************************************)
(* The version lock: TypeOK suffices to make SeenAtVersion inductive.      *)
(***************************************************************************)

\* Whatever changes the values of an external resource changes its version.
LEMMA ChangedVersion ==
    ASSUME NEW e \in External, NEW val
    PROVE  /\ Changed(e, val).ver >= e.ver
           /\ Changed(e, val).ver = e.ver => Changed(e, val).val = e.val
<1>1. e.ver \in Nat
    BY DEF External
<1>2. CASE val = e.val
    BY <1>1, <1>2 DEF Changed, External
<1>3. CASE val # e.val
    <2>1. Changed(e, val).ver = e.ver + 1
        BY <1>3 DEF Changed, External
    <2> QED
        BY <1>1, <2>1
<1> QED
    BY <1>2, <1>3

LEMMA OutOfBandVersion ==
    ASSUME TypeOK, OutOfBand
    PROVE  \A i \in ID : /\ ext'[i].ver >= ext[i].ver
                         /\ ext'[i].ver = ext[i].ver => ext'[i].val = ext[i].val
<1>1. \A i \in ID : ext[i] \in External /\ ext[i].ver \in Nat
    BY DEF TypeOK, External
<1>2. \A i \in ID : ext[i].ver >= ext[i].ver
    BY <1>1
<1>3. PICK i \in ID :
        \/ \E s \in kind.slots, v \in Value :
                Replace(i, Changed(ext[i], [ext[i].val EXCEPT ![s] = v]))
        \/ \E p \in kind.removal : Replace(i, Removed(ext[i], p))
    BY DEF OutOfBand
<1>4. CASE \E s \in kind.slots, v \in Value :
                Replace(i, Changed(ext[i], [ext[i].val EXCEPT ![s] = v]))
    <2>1. PICK val : Replace(i, Changed(ext[i], val))
        BY <1>4
    <2>2. \A j \in ID : ext'[j] = IF j = i THEN Changed(ext[i], val) ELSE ext[j]
        BY <2>1, ReplaceEffect
    <2>3. /\ Changed(ext[i], val).ver >= ext[i].ver
          /\ Changed(ext[i], val).ver = ext[i].ver => Changed(ext[i], val).val = ext[i].val
        BY <1>1, <1>3, ChangedVersion
    <2> QED
        BY <1>2, <2>2, <2>3
<1>5. CASE \E p \in kind.removal : Replace(i, Removed(ext[i], p))
    <2>1. PICK p : Replace(i, Removed(ext[i], p))
        BY <1>5
    <2>2. \A j \in ID : ext'[j] = IF j = i THEN Removed(ext[i], p) ELSE ext[j]
        BY <2>1, ReplaceEffect
    <2>3. Removed(ext[i], p).ver = ext[i].ver /\ Removed(ext[i], p).val = ext[i].val
        BY <1>1, <1>3 DEF Removed, External
    <2> QED
        BY <1>2, <2>2, <2>3
<1> QED
    BY <1>3, <1>4, <1>5

LEMMA SeenNext == TypeOK /\ SeenAtVersion /\ [Next]_vars => SeenAtVersion'
<1> SUFFICES ASSUME TypeOK, SeenAtVersion, [Next]_vars PROVE SeenAtVersion'
    OBVIOUS
<1>0. work \in Object /\ \A i \in ID : ext[i].ver \in Nat /\ ext[i].ver >= ext[i].ver
    BY DEF TypeOK, External
<1>1. ASSUME pc' \notin {"observed", "finalized"} PROVE SeenAtVersion'
    BY <1>1 DEF SeenAtVersion
<1>2. CASE UNCHANGED <<pc, work, seen, ext>>
    BY <1>2 DEF SeenAtVersion
<1>3. CASE OutOfBand
    <2>1. UNCHANGED <<pc, work, seen>>
        BY <1>3 DEF OutOfBand
    <2>2. CASE pc \in {"observed", "finalized"} /\ seen.exists
        <3>1. /\ work.name \in ID /\ ext[work.name].ver >= seen.ver
              /\ ext[work.name].ver = seen.ver => ext[work.name].val = seen.val
            BY <2>2 DEF SeenAtVersion
        <3>2. /\ ext'[work.name].ver >= ext[work.name].ver
              /\ ext'[work.name].ver = ext[work.name].ver => ext'[work.name].val = ext[work.name].val
            <4>1. \A i \in ID : /\ ext'[i].ver >= ext[i].ver
                                /\ ext'[i].ver = ext[i].ver => ext'[i].val = ext[i].val
                BY <1>3, OutOfBandVersion
            <4> QED
                BY <3>1, <4>1
        <3>3. ext[work.name].ver \in Nat /\ ext'[work.name].ver \in Nat /\ seen.ver \in Nat
            BY <3>1, TypeNext DEF TypeOK, External, Observation
        <3>4. /\ ext'[work.name].ver >= seen.ver
              /\ ext'[work.name].ver = seen.ver => ext[work.name].ver = seen.ver
            BY <3>1, <3>2, <3>3
        <3> QED
            BY <2>1, <3>1, <3>2, <3>4 DEF SeenAtVersion
    <2> QED
        BY <2>1, <2>2 DEF SeenAtVersion
<1>4. CASE Observe
    BY <1>0, <1>4 DEF Observe, Sight, Named, NotSeen, SeenAtVersion
<1>5. CASE AddFinalizer
    <2>1. pc = "observed" /\ ext' = ext
        BY <1>5 DEF AddFinalizer
    <2>2. pc' = "finalized" => seen' = seen /\ work'.name = work.name
        BY <1>0, <1>5 DEF AddFinalizer, Write, Return, Object
    <2>3. pc' \in {"finalized", "idle"}
        BY <1>5 DEF AddFinalizer, Write, Return
    <2> QED
        BY <2>1, <2>2, <2>3 DEF SeenAtVersion
<1>6. CASE Start \/ Initialize \/ RefuseIncomplete \/ SecretMissing \/ Delete \/ Unfinalize
           \/ MarkPending \/ Create \/ CreateRefused \/ CreateFails \/ Record
           \/ Update \/ UpdateFails \/ Settle \/ Abandon
    <2>1. pc' \notin {"observed", "finalized"}
        BY <1>6 DEF Start, Initialize, RefuseIncomplete, SecretMissing, Delete, Unfinalize,
                    MarkPending, Create, CreateRefused, CreateFails, Record, Update,
                    UpdateFails, Settle, Abandon, Write, Rewrite, Return
    <2> QED
        BY <1>1, <2>1
<1>7. CASE EditSpec \/ Touch \/ EditSecret \/ RequestDelete \/ Sync
    BY <1>2, <1>7 DEF EditSpec, Touch, Overtake, EditSecret, RequestDelete, Sync
<1>8. CASE UNCHANGED vars
    BY <1>2, <1>8 DEF vars
<1> QED
    BY <1>3, <1>4, <1>5, <1>6, <1>7, <1>8 DEF Next, Environment, Worker

\* An update that names the version it has seen overwrites only what it has seen.
THEOREM LockHolds == Spec => NoBlindOverwrite
<1>1. Init => SeenAtVersion
    BY DEF Init, SeenAtVersion
<1>2. /\ TypeOK /\ SeenAtVersion /\ [Next]_vars
      => [kind.locked /\ pc = "finalized" /\ pc' = "idle" =>
            \A i \in ID : ext'[i].val = ext[i].val \/ ext[i].val = seen.val]_vars
    <2> SUFFICES ASSUME TypeOK, SeenAtVersion, Next, kind.locked, pc = "finalized",
                        pc' = "idle", NEW i \in ID
                 PROVE  ext'[i].val = ext[i].val \/ ext[i].val = seen.val
        BY DEF vars
    <2>1. ASSUME NEW S, seen.exists, Send(S)
          PROVE  ext'[i].val = ext[i].val \/ ext[i].val = seen.val
        <3>1. ext[work.name].ver = seen.ver => ext[work.name].val = seen.val
            BY <2>1 DEF SeenAtVersion
        <3>2. CASE i = work.name
            BY <2>1, <3>1, <3>2 DEF Send
        <3>3. CASE i # work.name
            BY <2>1, <3>3, ReplaceEffect DEF Send
        <3> QED
            BY <3>2, <3>3
    <2>2. CASE Update \/ UpdateFails
        BY <2>1, <2>2 DEF Update, UpdateFails
    <2>3. CASE ~(Update \/ UpdateFails)
        <3>1. ext' = ext
            BY <2>3 DEF Next, Environment, Worker, EditSpec, Touch, Overtake, EditSecret,
                        RequestDelete, OutOfBand, Sync, Start, Initialize, RefuseIncomplete,
                        Observe, SecretMissing, Delete, Unfinalize, AddFinalizer, MarkPending,
                        Create, CreateRefused, CreateFails, Record, Settle, Abandon
        <3> QED
            BY <3>1
    <2> QED
        BY <2>2, <2>3
<1> QED
    BY <1>1, <1>2, SeenNext, TypeCorrect, PTL DEF Spec, NoBlindOverwrite

---------------------------------------------------------------------------
(***************************************************************************)
(* ManagedResource implements Stewardship, for every set of kinds,         *)
(* identifiers and values and any number of edits and faults: every step   *)
(* is one that Stewardship allows under the mapping Steward, or leaves     *)
(* alone what Stewardship speaks of.                                       *)
(***************************************************************************)
Created == {i \in ID : ext[i].st = "live" /\ ext[i].ours}

\* What a lost reply or a restart has orphaned was created, and a creation that
\* failed leaves the worker's copy with the name that the object has.
Losses ==
    /\ \A i \in lost \cup crashed : ext[i].st # "none"
    /\ pc \in {"creating", "createfailed"} => work.name = obj.name

\* A step that Stewardship does not see.
LEMMA Unseen ==
    ASSUME obj'.here = obj.here, Holds' = Holds, Created' = Created,
           lost' = lost, crashed' = crashed
    PROVE  UNCHANGED Steward!svars
BY DEF Steward!svars, Created

\* Removing and changing are all that happens to what exists, and neither makes
\* anything live.
LEMMA Retires ==
    ASSUME TypeOK, OutOfBand \/ Delete
    PROVE  Created' = Created \/ \E i \in Created : Created' = Created \ {i}
<1>0. \A i \in ID : ext[i] \in External
    BY DEF TypeOK
<1>1. PICK n, e :
        /\ Replace(n, e)
        /\ n \in ID => /\ e.ours = ext[n].ours
                       /\ e.st = "live" => ext[n].st = "live"
    <2>1. CASE OutOfBand
        <3>1. PICK i \in ID :
                \/ \E s \in kind.slots, v \in Value :
                        Replace(i, Changed(ext[i], [ext[i].val EXCEPT ![s] = v]))
                \/ \E p \in kind.removal : Replace(i, Removed(ext[i], p))
            BY <2>1 DEF OutOfBand
        <3>2. CASE \E val : Replace(i, Changed(ext[i], val))
            BY <1>0, <3>2, ChangedAges
        <3>3. CASE \E p : Replace(i, Removed(ext[i], p))
            BY <1>0, <3>3, RemovedAges
        <3> QED
            BY <3>1, <3>2, <3>3
    <2>2. CASE Delete
        BY <1>0, <2>2, RemovedAges DEF Delete
    <2> QED
        BY <2>1, <2>2
<1>2. \A i \in ID : ext'[i] = IF i = n THEN e ELSE ext[i]
    BY <1>1, ReplaceEffect
<1>3. CASE n \in Created /\ e.st # "live"
    BY <1>1, <1>2, <1>3 DEF Created
<1>4. CASE ~(n \in Created /\ e.st # "live")
    <2>1. CASE n \notin ID
        BY <1>2, <2>1 DEF Created
    <2>2. CASE n \in ID /\ n \notin Created
        BY <1>1, <1>2, <2>2 DEF Created
    <2>3. CASE n \in Created /\ e.st = "live"
        BY <1>1, <1>2, <2>3 DEF Created
    <2> QED
        BY <1>4, <2>1, <2>2, <2>3
<1> QED
    BY <1>3, <1>4

\* An update changes values, not what is live.
LEMMA UpdatesKeep ==
    ASSUME TypeOK, Update \/ UpdateFails
    PROVE  Created' = Created
<1>1. PICK S : Send(S)
    BY DEF Update, UpdateFails
<1>2. CASE ext' = ext
    BY <1>2 DEF Created
<1>3. CASE Live(work.name) /\ ext' # ext
    <2> DEFINE val == Apply(work, S, ext[work.name].val)
    <2>1. Replace(work.name, Changed(ext[work.name], val)) /\ ext[work.name] \in External
        BY <1>1, <1>3 DEF Send, Live, TypeOK
    <2> HIDE DEF val
    <2>2. \A i \in ID : ext'[i].st = ext[i].st /\ ext'[i].ours = ext[i].ours
        BY <2>1, ReplaceEffect, ChangedAges
    <2> QED
        BY <2>2 DEF Created
<1> QED
    BY <1>1, <1>2, <1>3 DEF Send

\* A resource comes into being live, and as one of ours.
LEMMA Creates ==
    ASSUME TypeOK, NEW i \in ID, Unused(i), Replace(i, NewExternal)
    PROVE  /\ Created' = Created \cup {i} /\ i \notin Created
           /\ \A j \in ID : ext[j].st # "none" => ext'[j].st # "none"
           /\ ext'[i].st # "none"
<1>1. NewExternal.st = "live" /\ NewExternal.ours = TRUE
    BY KindFacts DEF NewExternal, External
<1>2. \A j \in ID : ext'[j] = IF j = i THEN NewExternal ELSE ext[j]
    BY ReplaceEffect
<1> QED
    BY <1>1, <1>2 DEF Unused, Created

LEMMA LossesInit == Init => Losses
BY DEF Init, Losses

LEMMA LossesNext == Inv /\ Losses /\ [Next]_vars => Losses'
<1> SUFFICES ASSUME Inv, Losses, [Next]_vars PROVE Losses'
    OBVIOUS
<1>0. TypeOK /\ obj \in Object /\ work \in Object /\ lost \subseteq ID /\ crashed \subseteq ID
    BY DEF Inv, TypeOK
<1>1. ASSUME Ages, UNCHANGED <<lost, crashed>>, pc' \notin {"creating", "createfailed"}
      PROVE  Losses'
    BY <1>0, <1>1 DEF Losses, Ages
<1>2. CASE EditSpec
    <2>1. PICK s \in kind.slots \ {"secret"}, v \in Value : Overtake([obj EXCEPT !.spec[s] = v])
        BY <1>2 DEF EditSpec
    <2> QED
        BY <1>0, <2>1 DEF Overtake, Losses, Object
<1>3. CASE Touch \/ EditSecret \/ Sync \/ UNCHANGED vars
    BY <1>3 DEF Touch, Overtake, EditSecret, Sync, vars, Losses
<1>4. CASE RequestDelete
    BY <1>0, <1>4 DEF RequestDelete, Losses, Object
<1>5. CASE OutOfBand
    <2>1. Ages /\ UNCHANGED <<obj, pc, work, lost, crashed>>
        BY <1>0, <1>5, EditsAge DEF OutOfBand
    <2> QED
        BY <1>0, <2>1 DEF Losses, Ages
<1>6. CASE Start \/ Initialize \/ RefuseIncomplete \/ Observe \/ SecretMissing \/ Unfinalize
           \/ AddFinalizer \/ Settle \/ Record
    <2>1. UNCHANGED <<ext, lost, crashed>>
        BY <1>6 DEF Start, Initialize, RefuseIncomplete, Observe, SecretMissing, Unfinalize,
                    AddFinalizer, Settle, Record
    <2>2. pc' \notin {"creating", "createfailed"}
        BY <1>6 DEF Start, Initialize, RefuseIncomplete, Observe, SecretMissing, Unfinalize,
                    AddFinalizer, Settle, Record, Write, Rewrite, Return
    <2> QED
        BY <1>0, <1>1, <2>1, <2>2, AgesSame
<1>7. CASE Delete \/ Update \/ UpdateFails
    <2>1. Ages
        BY <1>0, <1>7, EditsAge
    <2>2. UNCHANGED <<lost, crashed>> /\ pc' = "idle"
        BY <1>7 DEF Delete, Update, UpdateFails, Return
    <2> QED
        BY <1>1, <2>1, <2>2
<1>8. CASE MarkPending
    <2>1. pc' = "creating" => work' = obj'
        BY <1>8 DEF MarkPending, Write, Return
    <2>2. UNCHANGED <<ext, lost, crashed>> /\ pc' # "createfailed"
        BY <1>8 DEF MarkPending, Write, Return
    <2> QED
        BY <2>1, <2>2 DEF Losses
<1>9. CASE Create
    <2>1. PICK i \in ID : Unused(i) /\ Replace(i, NewExternal)
        BY <1>9 DEF Create
    <2>2. UNCHANGED <<lost, crashed>> /\ pc' = "created"
        BY <1>9 DEF Create
    <2> QED
        BY <1>0, <2>1, <2>2, Creates DEF Losses
<1>10. CASE CreateRefused
    BY <1>10 DEF CreateRefused, Losses
<1>11. CASE CreateFails
    <2>1. pc = "creating" /\ UNCHANGED <<obj, work, crashed>>
        BY <1>11 DEF CreateFails
    <2>2. CASE UNCHANGED <<ext, lost>>
        BY <2>1, <2>2 DEF Losses
    <2>3. CASE \E i \in ID : Unused(i) /\ Replace(i, NewExternal) /\ lost' = lost \cup {i}
        BY <1>0, <2>1, <2>3, Creates DEF Losses
    <2> QED
        BY <1>11, <2>2, <2>3 DEF CreateFails
<1>12. CASE Abandon
    <2>1. pc' = "idle" /\ UNCHANGED <<ext, lost>> /\ crashed' \subseteq crashed \cup {work.name}
        BY <1>12 DEF Abandon, Return
    <2>2. pc # "created" => crashed' = crashed
        BY <1>12 DEF Abandon
    <2>3. pc = "created" => work.name \in ID /\ ext[work.name].st # "none"
        BY DEF Inv, TypeOK, NamesUsed, Used
    <2> QED
        BY <2>1, <2>2, <2>3 DEF Losses
<1> QED
    BY <1>2, <1>3, <1>4, <1>5, <1>6, <1>7, <1>8, <1>9, <1>10, <1>11, <1>12
    DEF Next, Environment, Worker

LEMMA StewardInit == Init => Steward!Init
<1> SUFFICES ASSUME Init PROVE Steward!Init
    OBVIOUS
<1>1. /\ obj.here = TRUE /\ lost = {} /\ crashed = {} /\ pc = "idle"
      /\ \A i \in ID : ext[i].ours = FALSE
    BY DEF Init, Blank, NoExternal
<1>2. Holds \in ID \cup {NoName}
    BY <1>1 DEF Holds
<1> QED
    BY <1>1, <1>2 DEF Steward!Init

\* While something may be created, nothing that was created is held.
LEMMA NothingHeld ==
    ASSUME Inv, Losses
    PROVE  /\ pc \in {"creating", "createfailed"} => Holds \notin Created
           /\ pc = "created" => obj.name \notin Created
BY NamesAssumption DEF Inv, NoSecondCopy, InCreate, Live, Holds, Created

LEMMA StewardNext == Inv /\ Losses /\ [Next]_vars => [Steward!Next]_(Steward!svars)
<1> SUFFICES ASSUME Inv, Losses, [Next]_vars PROVE [Steward!Next]_(Steward!svars)
    OBVIOUS
<1>0. TypeOK /\ obj \in Object /\ work \in Object
    BY DEF Inv, TypeOK
<1>1. CASE EditSpec
    <2>1. PICK s \in kind.slots \ {"secret"}, v \in Value : Overtake([obj EXCEPT !.spec[s] = v])
        BY <1>1 DEF EditSpec
    <2>2. obj'.here = obj.here /\ obj'.name = obj.name
        BY <1>0, <2>1 DEF Overtake, Object
    <2>3. UNCHANGED <<pc, work, ext, lost, crashed>>
        BY <2>1 DEF Overtake
    <2> QED
        BY <2>2, <2>3, Unseen DEF Holds, Created
<1>2. CASE Touch \/ EditSecret \/ Sync \/ UNCHANGED vars
    BY <1>2, Unseen DEF Touch, Overtake, EditSecret, Sync, vars, Holds, Created
<1>3. CASE RequestDelete
    <2>1. UNCHANGED <<pc, work, ext, lost, crashed>> /\ obj.here
        BY <1>3 DEF RequestDelete
    <2>2. CASE obj.fin
        <3>1. obj'.here = obj.here /\ obj'.name = obj.name
            BY <1>0, <1>3, <2>2 DEF RequestDelete, Object
        <3> QED
            BY <2>1, <3>1, Unseen DEF Holds, Created
    <2>3. CASE ~obj.fin
        <3>1. obj'.here = FALSE /\ obj'.name = obj.name
            BY <1>0, <1>3, <2>3 DEF RequestDelete, Object
        <3>2. Created = {} /\ Created' = Created
            BY <2>1, <2>3 DEF Inv, CreatedIsFinalized, Created
        <3>3. Holds' = Holds
            BY <2>1, <3>1 DEF Holds
        <3>4. Steward!LetGo
            BY <1>0, <2>1, <3>1, <3>2, <3>3 DEF Steward!LetGo, Created, Object
        <3> QED
            BY <3>4 DEF Steward!Next
    <2> QED
        BY <2>2, <2>3
<1>4. CASE OutOfBand \/ Delete
    <2>1. UNCHANGED <<obj, lost, crashed>>
        BY <1>4 DEF OutOfBand, Delete
    <2>2. Holds' = Holds
        BY <1>4 DEF OutOfBand, Delete, Return, Holds
    <2>3. CASE Created' = Created
        BY <2>1, <2>2, <2>3, Unseen
    <2>4. CASE \E i \in Created : Created' = Created \ {i}
        <3>1. PICK i \in Created : Created' = Created \ {i}
            BY <2>4
        <3>2. i \in ID /\ Steward!Retire(i)
            BY <2>1, <2>2, <3>1 DEF Steward!Retire, Created
        <3> QED
            BY <3>2 DEF Steward!Next
    <2> QED
        BY <1>0, <1>4, <2>3, <2>4, Retires
<1>5. CASE Start \/ RefuseIncomplete \/ Observe \/ SecretMissing \/ Settle \/ CreateRefused
    <2>1. UNCHANGED <<obj, ext, lost, crashed>> /\ pc # "created" /\ pc' # "created"
        BY <1>5 DEF Start, RefuseIncomplete, Observe, SecretMissing, Settle, CreateRefused, Return
    <2> QED
        BY <2>1, Unseen DEF Holds, Created
<1>6. CASE Update \/ UpdateFails
    <2>1. UNCHANGED <<obj, lost, crashed>> /\ pc # "created" /\ pc' # "created"
        BY <1>6 DEF Update, UpdateFails, Return
    <2>2. Created' = Created
        BY <1>0, <1>6, UpdatesKeep
    <2> QED
        BY <2>1, <2>2, Unseen DEF Holds
<1>7. CASE Initialize \/ AddFinalizer \/ MarkPending
    <2>1. UNCHANGED <<ext, lost, crashed>> /\ pc # "created" /\ pc' # "created"
        BY <1>7 DEF Initialize, AddFinalizer, MarkPending, Write, Rewrite, Return
    <2>2. obj' = obj \/ (fresh /\ obj' \in {[work EXCEPT !.fin = TRUE], [work EXCEPT !.mark = "pending"]})
                     \/ (fresh /\ work.name = NoName /\ obj' = [work EXCEPT !.name = ObjectName])
        BY <1>7 DEF Initialize, AddFinalizer, MarkPending, Write, Rewrite
    <2>3. fresh => work = obj
        BY <2>1 DEF Inv, CopiesAgree
    <2>4. obj'.here = obj.here /\ (obj'.name = obj.name \/ (obj.name = NoName /\ obj'.name = ObjectName))
        BY <1>0, <2>2, <2>3 DEF Object
    <2>5. Holds' = Holds
        BY <2>1, <2>4, NamesAssumption DEF Holds
    <2> QED
        BY <2>1, <2>4, <2>5, Unseen DEF Created
<1>8. CASE Unfinalize
    <2>1. UNCHANGED <<ext, lost, crashed>> /\ pc = "observed" /\ pc' = "idle"
        BY <1>8 DEF Unfinalize, Return
    <2>2. CASE fresh
        <3>1. work = obj /\ obj.here /\ ~Live(obj.name)
            BY <1>8, <2>1, <2>2 DEF Unfinalize, Inv, CopiesAgree, WorkerKnows
        <3>2. obj'.here = FALSE /\ obj'.name = obj.name
            BY <1>0, <1>8, <2>2, <3>1 DEF Unfinalize, Object
        <3>3. Holds' = Holds /\ Holds \notin Created
            BY <2>1, <3>1, <3>2, NamesAssumption DEF Holds, Live, Created
        <3>4. Steward!LetGo
            BY <1>0, <2>1, <3>1, <3>2, <3>3 DEF Steward!LetGo, Created, Object
        <3> QED
            BY <3>4 DEF Steward!Next
    <2>3. CASE ~fresh
        BY <1>8, <2>1, <2>3, Unseen DEF Unfinalize, Holds, Created
    <2> QED
        BY <2>2, <2>3
<1>9. ASSUME NEW i \in ID, pc = "creating", Unused(i), Replace(i, NewExternal),
             UNCHANGED <<obj, crashed>>,
             \/ Holds' = i /\ UNCHANGED lost
             \/ Holds' = Holds /\ lost' = lost \cup {i}
      PROVE  Steward!Create(i)
    <2>1. Created' = Created \cup {i} /\ i \notin Created
        BY <1>0, <1>9, Creates
    <2>2. i \notin lost \cup crashed
        BY <1>9 DEF Losses, Unused
    <2>3. obj.here /\ crashed = {}
        BY <1>9 DEF Inv, CreateHeld, InCreate
    <2>4. Holds \notin Created
        BY <1>9, NothingHeld
    <2> QED
        BY <1>9, <2>1, <2>2, <2>3, <2>4 DEF Steward!Create, Created
<1>10. CASE Create
    <2>1. PICK i \in ID : Unused(i) /\ Replace(i, NewExternal) /\ work' = [work EXCEPT !.name = i]
        BY <1>10 DEF Create
    <2>2. /\ pc = "creating" /\ pc' = "created" /\ UNCHANGED <<obj, lost, crashed>>
          /\ work'.name = i
        BY <1>0, <1>10, <2>1 DEF Create, Object
    <2>3. Steward!Create(i)
        BY <1>9, <2>1, <2>2 DEF Holds
    <2> QED
        BY <2>3 DEF Steward!Next
<1>11. CASE CreateFails
    <2>1. pc = "creating" /\ pc' = "createfailed" /\ UNCHANGED <<obj, work, crashed>>
        BY <1>11 DEF CreateFails
    <2>2. Holds' = Holds
        BY <2>1 DEF Holds
    <2>3. CASE UNCHANGED <<ext, lost>>
        BY <2>1, <2>2, <2>3, Unseen DEF Created
    <2>4. CASE \E i \in ID : Unused(i) /\ Replace(i, NewExternal) /\ lost' = lost \cup {i}
        <3>1. \E i \in ID : Steward!Create(i)
            BY <1>9, <2>1, <2>2, <2>4
        <3> QED
            BY <3>1 DEF Steward!Next
    <2> QED
        BY <1>11, <2>3, <2>4 DEF CreateFails
<1>12. CASE Record
    <2>1. /\ pc \in {"created", "createfailed"} /\ pc' = "idle"
          /\ UNCHANGED <<ext, lost, crashed>>
        BY <1>12 DEF Record, Return
    <2>2. obj'.here = obj.here /\ obj'.name = work.name
        BY <1>0, <1>12 DEF Record, Object
    <2>3. pc = "createfailed" => work.name = obj.name
        BY DEF Losses
    <2>4. pc = "created" => work.name \in ID
        BY <1>0 DEF TypeOK
    <2>5. Holds' = Holds
        BY <2>1, <2>2, <2>3, <2>4 DEF Holds
    <2> QED
        BY <2>1, <2>2, <2>5, Unseen DEF Created
<1>13. CASE Abandon /\ pc # "created"
    BY <1>13, Unseen DEF Abandon, Return, Holds, Created
<1>14. CASE Abandon /\ pc = "created"
    <2>1. /\ pc' = "idle" /\ UNCHANGED <<obj, ext, lost>> /\ crashed' = crashed \cup {work.name}
        BY <1>14 DEF Abandon, Return
    <2>2. obj.here /\ crashed = {} /\ obj.name \notin Created
        BY <1>14, NothingHeld DEF Inv, CreateHeld, InCreate
    <2>3. Holds = work.name /\ Holds' \in (ID \cup {NoName}) \ Created
        BY <1>14, <2>1, <2>2, NamesAssumption DEF Holds, Created
    <2>4. Steward!Crash
        BY <2>1, <2>2, <2>3 DEF Steward!Crash, Created
    <2> QED
        BY <2>4 DEF Steward!Next
<1> QED
    BY <1>1, <1>2, <1>3, <1>4, <1>5, <1>6, <1>7, <1>8, <1>10, <1>11, <1>12, <1>13, <1>14
    DEF Next, Environment, Worker

\* The reconcilers keep the promise of Stewardship: an object stands for one
\* external resource, creates another only when that one is not live any more,
\* and goes only after it.
THEOREM Implements == Spec => KeepsPromise
BY InvAlways, LossesInit, LossesNext, StewardInit, StewardNext, PTL
   DEF Spec, KeepsPromise, Steward!Spec
============================================================================
