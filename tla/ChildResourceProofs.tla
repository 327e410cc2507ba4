------------------------ MODULE ChildResourceProofs ------------------------
(***************************************************************************)
(* Theorems about ChildResource, for each of the three external clients    *)
(* and any number of parents, identifiers, values, edits and faults.       *)
(***************************************************************************)
EXTENDS ChildResource, TLAPS

(***************************************************************************)
(* What makes the safety properties inductive.                             *)
(***************************************************************************)

\* A current copy is the object itself, until Create has put a name into it; and
\* an object that is being deleted stays so.
CopiesAgree ==
    /\ fresh /\ pc # "created" => work = obj
    /\ work.deleting => obj.deleting
    /\ removed # {} => obj.deleting
    /\ obj.mark = "none" => obj.name = NoName

\* What the worker has established before it goes on.
WorkerKnows ==
    /\ pc \in {"doubted", "unanswered", "present", "drifted", "unremoved", "unconfirmed"} =>
           Addressed
    /\ pc \in {"unremoved", "unconfirmed"} => work.deleting
    /\ pc = "absent" /\ Addressed => ~Held(work.parent, work.name)
    /\ pc = "created" => work.parent \in Parent

\* What the worker looks at was there when it was read.
WorkedOnIsHere ==
    pc \in {"read", "resolved", "doubted", "unanswered", "absent"} => work.here

Creating == pc \in {"creating", "created"}

\* The child is ours, and there.
Ours(p, n) == child[p][n].ours /\ Held(p, n)

\* While Create runs the object is there and marked, nothing was reported as
\* removed, and the object is still in the parent Create is about, unless it was
\* pointed away from it.
CreateHeld ==
    Creating =>
        /\ obj.here /\ obj.mark = "pending" /\ removed = {}
        /\ work.parent \in {obj.parent, NoParent} \cup left

\* Meanwhile the name the object has is of nothing that counts: what there is of
\* ours is new, or lost, or was left.
OnlyTheNewOne ==
    Creating =>
        \A p \in Parent, n \in ID :
            Ours(p, n) => \/ pc = "created" /\ work.parent = p /\ work.name = n
                          \/ <<p, n>> \in lost \/ p \in left

IInv == TypeOK /\ CopiesAgree /\ WorkerKnows /\ WorkedOnIsHere /\ CreateHeld /\ OnlyTheNewOne
            /\ NothingOrphaned /\ ReportedIsMoot


---------------------------------------------------------------------------
(***************************************************************************)
(* What the clients have in common, and what becomes of the children.      *)
(***************************************************************************)
LEMMA Counted ==
    ASSUME NEW n \in 0..MaxEdits, NEW m \in 0..MaxFaults
    PROVE  (n < MaxEdits => n + 1 \in 0..MaxEdits) /\ (m < MaxFaults => m + 1 \in 0..MaxFaults)
BY BoundAssumption

LEMMA BlankTyped == Blank \in Object /\ ~Blank.deleting /\ Blank.name = NoName
<1>1. InitVal \in Val
    BY SetsAssumption DEF InitVal
<1> QED
    BY <1>1 DEF Blank, Object

LEMMA Removals ==
    ASSUME kind \in Clients
    PROVE  kind.removal \subseteq {"archived", "deleted"}
BY DEF Clients, MemberClient, CredentialClient, MemoryClient

\* Nothing comes to life: what is live and ours was so before.
NoneBorn ==
    \A p \in Parent, n \in ID :
        child'[p][n].ours = child[p][n].ours /\ (child'[p][n].st = "live" => child[p][n].st = "live")

LEMMA ChangeState ==
    ASSUME TypeOK, NEW p \in Parent, NEW n \in ID, NEW s \in State, s # "live",
           child' = [child EXCEPT ![p][n].st = s]
    PROVE  child' \in [Parent -> [ID -> Child]] /\ NoneBorn /\ child'[p][n].st = s
<1>1. child \in [Parent -> [ID -> [st: State, ours: BOOLEAN, val: Val]]]
    BY DEF TypeOK, Child
<1> QED
    BY <1>1 DEF NoneBorn, Child

LEMMA ChangeVal ==
    ASSUME TypeOK, NEW p \in Parent, NEW n \in ID, NEW v \in Val,
           child' = [child EXCEPT ![p][n].val = v]
    PROVE  child' \in [Parent -> [ID -> Child]] /\ NoneBorn
<1>1. child \in [Parent -> [ID -> [st: State, ours: BOOLEAN, val: Val]]]
    BY DEF TypeOK, Child
<1> QED
    BY <1>1 DEF NoneBorn, Child

LEMMA RemoveEffect ==
    ASSUME TypeOK, Addressed, Remove
    PROVE  /\ child' \in [Parent -> [ID -> Child]] /\ NoneBorn
           /\ child'[work.parent][work.name].st # "live"
<1>1. PICK p \in Parent, n \in ID : p = work.parent /\ n = work.name
    BY DEF Addressed
<1>2. PICK s \in kind.removal :
          child' = [child EXCEPT ![work.parent][work.name].st = IF @ = "live" THEN s ELSE @]
    BY DEF Remove
<1>3. This.st \in State
    BY <1>1 DEF TypeOK, Child, This
<1>4. s \in State /\ s # "live"
    BY Removals DEF TypeOK, State
<1>5. PICK t \in State : t # "live" /\ t = (IF This.st = "live" THEN s ELSE This.st)
    BY <1>3, <1>4
<1>6. child' = [child EXCEPT ![p][n].st = t]
    BY <1>1, <1>2, <1>5 DEF This
<1>7. t \in State /\ t # "live"
    BY <1>5
<1>8. child' \in [Parent -> [ID -> Child]] /\ NoneBorn /\ child'[p][n].st = t
    BY <1>6, <1>7, ChangeState
<1> QED
    BY <1>1, <1>7, <1>8

LEMMA OutOfBandEffect ==
    ASSUME TypeOK, OutOfBand
    PROVE  child' \in [Parent -> [ID -> Child]] /\ NoneBorn
<1>1. PICK p \in Parent, n \in ID :
        \/ \E s \in kind.removal : child' = [child EXCEPT ![p][n].st = s]
        \/ \E v \in Val \ {child[p][n].val} : child' = [child EXCEPT ![p][n].val = v]
    BY DEF OutOfBand
<1>2. \A s \in kind.removal : s \in State /\ s # "live"
    BY Removals DEF TypeOK, State
<1> QED
    BY <1>1, <1>2, ChangeState, ChangeVal

LEMMA UpdateEffect ==
    ASSUME TypeOK, WorkerKnows, Update
    PROVE  child' \in [Parent -> [ID -> Child]] /\ NoneBorn
<1>1. work.parent \in Parent /\ work.name \in ID /\ work.val \in Val
    BY DEF Update, WorkerKnows, Addressed, TypeOK, Object
<1>2. child' = child \/ child' = [child EXCEPT ![work.parent][work.name].val = work.val]
    BY DEF Update
<1>3. CASE child' = child
    BY <1>3 DEF NoneBorn, TypeOK
<1> QED
    BY <1>1, <1>2, <1>3, ChangeVal

LEMMA NamesAreIDs ==
    ASSUME NEW n \in NewName
    PROVE  n \in ID
BY SetsAssumption DEF NewName

LEMMA AddEffect ==
    ASSUME TypeOK, work.parent \in Parent, NEW n \in ID, Add(n)
    PROVE  /\ child' \in [Parent -> [ID -> Child]]
           /\ \A p \in Parent, m \in ID :
                  <<p, m>> # <<work.parent, n>> => child'[p][m] = child[p][m]
<1>1. child \in [Parent -> [ID -> Child]] /\ work.val \in Val
    BY DEF TypeOK, Object
<1>2. [st |-> "live", ours |-> TRUE, val |-> work.val] \in Child
    BY <1>1 DEF Child, State
<1> QED
    BY <1>1, <1>2 DEF Add

---------------------------------------------------------------------------
(***************************************************************************)
(* Types.                                                                  *)
(***************************************************************************)
LEMMA TypeInit == Init => TypeOK
<1> SUFFICES ASSUME Init PROVE TypeOK
    OBVIOUS
<1>1. Blank \in Object /\ work = Blank
    BY BlankTyped DEF Init
<1>2. (CHOOSE p \in Parent : TRUE) \in Parent
    BY SetsAssumption
<1>3. obj \in Object /\ ref \in Parent \cup {NoParent}
    BY <1>1, <1>2 DEF Init, Object
<1>4. InitVal \in Val
    BY SetsAssumption DEF InitVal
<1>5. child \in [Parent -> [ID -> Child]]
    BY <1>4 DEF Init, Child, State
<1>6. parent \in [Parent -> Life] /\ kind \in Clients
    BY DEF Init, Life, State
<1>7. edits \in 0..MaxEdits /\ faults \in 0..MaxFaults
    BY BoundAssumption DEF Init
<1> QED
    BY <1>1, <1>3, <1>5, <1>6, <1>7 DEF Init, TypeOK, PC

LEMMA TypeNext ==
    ASSUME TypeOK, WorkerKnows, [Next]_vars
    PROVE  TypeOK'
<1> USE DEF TypeOK
<1>1. CASE EditVal
    <2>1. PICK v \in Val : Overtake([obj EXCEPT !.val = v])
        BY <1>1 DEF EditVal
    <2>2. [obj EXCEPT !.val = v] \in Object
        BY DEF Object
    <2> QED
        BY <1>1, <2>1, <2>2, Counted DEF EditVal, Overtake
<1>2. CASE EditParent
    <2>1. PICK p \in Parent \cup {NoParent} :
              /\ Overtake([obj EXCEPT !.parent = p])
              /\ left' = left \cup ({obj.parent} \ {NoParent})
        BY <1>2 DEF EditParent
    <2>2. [obj EXCEPT !.parent = p] \in Object /\ left' \subseteq Parent
        BY <2>1 DEF Object
    <2> QED
        BY <2>1, <2>2, Counted DEF Overtake
<1>3. CASE RequestDelete
    <2>1. obj' \in Object
        BY <1>3 DEF RequestDelete, Object
    <2> QED
        BY <1>3, <2>1 DEF RequestDelete, others, bounds
<1>4. CASE EditSecret
    BY <1>4, Counted DEF EditSecret, worker
<1>5. CASE RetireParent
    BY <1>5 DEF RetireParent, worker, bounds, Life, State
<1>6. CASE ReportParent
    BY <1>6 DEF ReportParent, worker, bounds
<1>7. CASE OutOfBand
    BY <1>7, OutOfBandEffect, Counted DEF OutOfBand, others, worker
<1>8. CASE Start
    BY <1>8 DEF Start, others, bounds, PC
<1>9. CASE Resolve
    <2>1. obj' \in Object /\ work' \in Object /\ left' \subseteq Parent
        BY <1>9, BlankTyped DEF Resolve, Return, Object
    <2>2. pc' \in PC /\ pc' # "created" /\ fresh' \in BOOLEAN
        BY <1>9 DEF Resolve, Return, PC
    <2> QED
        BY <1>9, <2>1, <2>2 DEF Resolve, bounds
<1>10. CASE Observe
    <2>1. work' \in Object /\ pc' \in PC /\ pc' # "created" /\ fresh' \in BOOLEAN
        BY <1>10, BlankTyped DEF Observe, Conclude, Refused, Return, PC
    <2> QED
        BY <1>10, <2>1 DEF Observe, others, bounds
<1>11. CASE ObserveFails
    BY <1>11, Counted DEF ObserveFails, others, PC
<1>12. ASSUME NEW a \in BOOLEAN, LookAtParent(a)
       PROVE  /\ work' \in Object /\ pc' \in PC /\ pc' # "created" /\ fresh' \in BOOLEAN
              /\ removed' \subseteq Parent \X ID
    <2>1. work' \in Object /\ pc' \in PC /\ pc' # "created" /\ fresh' \in BOOLEAN
        BY <1>12, BlankTyped DEF LookAtParent, Return, PC
    <2>2. removed' \subseteq Parent \X ID
        BY <1>12 DEF LookAtParent, WorkerKnows, Addressed
    <2> QED
        BY <2>1, <2>2
<1>13. CASE ParentAnswers
    BY <1>12, <1>13 DEF ParentAnswers, LookAtParent, others
<1>14. CASE ParentFails
    <2>1. faults' \in 0..MaxFaults
        BY <1>14, Counted DEF ParentFails
    <2> QED
        BY <1>12, <1>14, <2>1 DEF ParentFails, LookAtParent, others
<1>15. CASE Delete
    <2>1. Addressed
        BY <1>15 DEF Delete, WorkerKnows
    <2>2. child' \in [Parent -> [ID -> Child]]
        BY <1>15, <2>1, RemoveEffect DEF Delete
    <2>3. removed' \subseteq Parent \X ID
        BY <1>15, <2>1 DEF Delete, Addressed
    <2>4. work' \in Object /\ pc' \in PC /\ pc' # "created" /\ fresh' \in BOOLEAN
        BY <1>15, BlankTyped DEF Delete, Refused, Return, PC
    <2> QED
        BY <1>15, <2>2, <2>3, <2>4 DEF Delete, others, bounds
<1>16. CASE DeleteFails
    <2>1. Addressed
        BY <1>16 DEF DeleteFails, WorkerKnows
    <2>2. child' \in [Parent -> [ID -> Child]]
        BY <1>16, <2>1, RemoveEffect DEF DeleteFails
    <2>3. work' \in Object /\ pc' \in PC /\ pc' # "created" /\ fresh' \in BOOLEAN
        BY <1>16, BlankTyped DEF DeleteFails, Refused, Return, PC
    <2> QED
        BY <1>16, <2>2, <2>3, Counted DEF DeleteFails, others
<1>17. CASE Unfinalize
    <2>1. obj' \in Object
        BY <1>17 DEF Unfinalize, Object
    <2> QED
        BY <1>17, <2>1, BlankTyped DEF Unfinalize, Return, others, bounds, PC
<1>18. CASE MarkPending
    <2>1. obj' \in Object
        BY <1>18 DEF MarkPending, Object
    <2>2. work' \in Object /\ pc' \in PC /\ pc' # "created" /\ fresh' \in BOOLEAN
        BY <1>18, <2>1, BlankTyped DEF MarkPending, Return, PC
    <2> QED
        BY <1>18, <2>1, <2>2 DEF MarkPending, others, bounds
<1>19. CASE Create
    <2>1. PICK n \in NewName : Add(n) /\ work' = [work EXCEPT !.name = n]
        BY <1>19 DEF Create
    <2>2. n \in ID /\ work' \in Object /\ work'.name = n
        BY <2>1, NamesAreIDs DEF Object
    <2>3. child' \in [Parent -> [ID -> Child]]
        BY <1>19, <2>1, <2>2, AddEffect DEF Create, Creatable
    <2> QED
        BY <1>19, <2>2, <2>3 DEF Create, others, bounds, PC
<1>20. ASSUME Failed PROVE obj' \in Object /\ work' \in Object /\ pc' = "idle" /\ fresh' = FALSE
    BY <1>20, BlankTyped DEF Failed, Return, Object
<1>21. CASE CreateRefused
    BY <1>20, <1>21 DEF CreateRefused, others, bounds, PC
<1>22. CASE CreateFails
    <2>1. work.parent \in Parent
        BY <1>22 DEF CreateFails, Creatable
    <2>2. child' \in [Parent -> [ID -> Child]] /\ lost' \subseteq Parent \X ID
        BY <1>22, <2>1, NamesAreIDs, AddEffect DEF CreateFails
    <2> QED
        BY <1>20, <1>22, <2>2, Counted DEF CreateFails, others, PC
<1>23. CASE Record
    <2>1. obj' \in Object
        BY <1>23 DEF Record, Object
    <2> QED
        BY <1>23, <2>1, BlankTyped DEF Record, Return, others, bounds, PC
<1>24. CASE Update
    BY <1>24, UpdateEffect, BlankTyped DEF Update, Return, others, bounds, PC
<1>25. CASE Settle
    BY <1>25, BlankTyped DEF Settle, Return, others, bounds, PC
<1>26. CASE Restart
    <2>1. lost' \subseteq Parent \X ID
        BY <1>26 DEF Restart, WorkerKnows
    <2> QED
        BY <1>26, <2>1, BlankTyped, Counted DEF Restart, Return, others, PC
<1>27. CASE UNCHANGED vars
    BY <1>27 DEF vars
<1> QED
    BY <1>1, <1>2, <1>3, <1>4, <1>5, <1>6, <1>7, <1>8, <1>9, <1>10, <1>11, <1>13, <1>14, <1>15,
       <1>16, <1>17, <1>18, <1>19, <1>21, <1>22, <1>23, <1>24, <1>25, <1>26, <1>27
    DEF Next, Environment, Worker, Faults


---------------------------------------------------------------------------
(***************************************************************************)
(* Only Create makes a child, and no parent comes back.                    *)
(***************************************************************************)
LEMMA NothingBorn ==
    ASSUME TypeOK, WorkerKnows, [Next]_vars, ~Create, ~CreateFails
    PROVE  \A p \in Parent, n \in ID : (Held(p, n)' => Held(p, n)) /\ (Ours(p, n)' => Ours(p, n))
<1>1. NoneBorn
    <2>1. CASE OutOfBand
        BY <2>1, OutOfBandEffect
    <2>2. CASE Update
        BY <2>2, UpdateEffect
    <2>3. CASE child' = child
        BY <2>3 DEF NoneBorn
    <2>4. CASE Delete \/ DeleteFails
        <3>1. Addressed
            BY <2>4 DEF Delete, DeleteFails, WorkerKnows
        <3>2. child' = child \/ Remove
            BY <2>4 DEF Delete, DeleteFails
        <3> QED
            BY <2>3, <3>1, <3>2, RemoveEffect
    <2> QED
        BY <2>1, <2>2, <2>3, <2>4
        DEF Next, Environment, Worker, Faults, EditVal, EditParent, Overtake, RequestDelete,
            EditSecret, RetireParent, ReportParent, Start, Resolve, Observe, ObserveFails,
            ParentAnswers, ParentFails, LookAtParent, Unfinalize, MarkPending, CreateRefused,
            Record, Settle, Restart, vars
<1>2. \A p \in Parent : parent'[p] = "live" => parent[p] = "live"
    <2>1. CASE RetireParent
        BY <2>1 DEF RetireParent, TypeOK
    <2>2. CASE ~RetireParent
        <3>1. parent' = parent
            BY <2>2
            DEF Next, Environment, Worker, Faults, EditVal, EditParent, Overtake, RequestDelete,
                EditSecret, ReportParent, OutOfBand, Start, Resolve, Observe, ObserveFails,
                ParentAnswers, ParentFails, LookAtParent, Delete, DeleteFails, Unfinalize,
                MarkPending, CreateRefused, Record, Update, Settle, Restart, others, vars
        <3> QED
            BY <3>1
    <2> QED
        BY <2>1, <2>2
<1> QED
    BY <1>1, <1>2 DEF NoneBorn, Held, Ours

---------------------------------------------------------------------------
(***************************************************************************)
(* The copies.                                                             *)
(***************************************************************************)
LEMMA CopiesNext ==
    ASSUME IInv, [Next]_vars
    PROVE  CopiesAgree'
<1>0. TypeOK /\ CopiesAgree /\ WorkerKnows
    BY DEF IInv
<1>1. CASE EditVal \/ EditParent
    <2>1. /\ obj'.deleting = obj.deleting /\ obj'.mark = obj.mark /\ obj'.name = obj.name
          /\ fresh' = FALSE /\ UNCHANGED <<work, removed>>
        BY <1>0, <1>1 DEF EditVal, EditParent, Overtake, TypeOK, Object
    <2> QED
        BY <1>0, <2>1 DEF CopiesAgree
<1>2. CASE RequestDelete
    <2>1. /\ obj'.deleting = obj.deleting \/ obj'.deleting
          /\ obj'.mark = obj.mark /\ obj'.name = obj.name
          /\ fresh' = FALSE /\ UNCHANGED <<work, removed>>
        BY <1>0, <1>2 DEF RequestDelete, TypeOK, Object
    <2> QED
        BY <1>0, <2>1 DEF CopiesAgree
<1>3. CASE Resolve
    <2>1. obj'.deleting = obj.deleting /\ obj'.mark = obj.mark /\ obj'.name = obj.name
        BY <1>0, <1>3 DEF Resolve, TypeOK, Object
    <2>2. \/ work' = Blank /\ fresh' = FALSE
          \/ work' = work /\ obj' = obj /\ fresh' = fresh /\ pc # "created"
          \/ work' = obj'
        BY <1>3 DEF Resolve, Return
    <2> QED
        BY <1>0, <1>3, <2>1, <2>2, BlankTyped DEF Resolve, CopiesAgree
<1>4. ASSUME NEW a, LookAtParent(a) PROVE CopiesAgree'
    <2>1. removed' # {} => removed # {} \/ work.deleting
        BY <1>0, <1>4 DEF LookAtParent, WorkerKnows
    <2>2. UNCHANGED obj /\ (Return \/ (UNCHANGED <<work, fresh>> /\ pc # "created"))
        BY <1>4 DEF LookAtParent, others
    <2> QED
        BY <1>0, <2>1, <2>2, BlankTyped DEF CopiesAgree, Return
<1>5. CASE Delete
    <2>1. UNCHANGED obj /\ (Return \/ (UNCHANGED <<work, fresh>> /\ pc # "created"))
        BY <1>5 DEF Delete, Refused, others
    <2>2. work.deleting
        BY <1>5 DEF Delete
    <2> QED
        BY <1>0, <2>1, <2>2, BlankTyped DEF CopiesAgree, Return
<1>6. CASE Unfinalize
    <2>1. obj'.deleting = obj.deleting /\ obj'.mark = obj.mark /\ obj'.name = obj.name
        BY <1>0, <1>6 DEF Unfinalize, CopiesAgree, TypeOK, Object
    <2> QED
        BY <1>0, <1>6, <2>1, BlankTyped DEF Unfinalize, Return, CopiesAgree
<1>7. CASE MarkPending
    <2>1. CASE fresh
        <3>1. work = obj /\ obj' = [obj EXCEPT !.mark = "pending"] /\ work' = obj'
            BY <1>0, <1>7, <2>1 DEF MarkPending, CopiesAgree
        <3>2. obj'.deleting = obj.deleting /\ obj'.mark = "pending"
            BY <1>0, <3>1 DEF TypeOK, Object
        <3> QED
            BY <1>0, <1>7, <3>1, <3>2 DEF MarkPending, CopiesAgree
    <2>2. CASE ~fresh
        BY <1>0, <1>7, <2>2, BlankTyped DEF MarkPending, Return, CopiesAgree
    <2> QED
        BY <2>1, <2>2
<1>8. CASE Create
    <2>1. work'.deleting = work.deleting
        BY <1>0, <1>8 DEF Create, TypeOK, Object
    <2> QED
        BY <1>0, <1>8, <2>1 DEF Create, CopiesAgree
<1>9. CASE CreateRefused \/ CreateFails \/ Record
    <2>1. obj'.deleting = obj.deleting /\ obj'.mark # "none"
        BY <1>0, <1>9 DEF CreateRefused, CreateFails, Record, Failed, TypeOK, Object
    <2>2. Return /\ removed' = removed
        BY <1>9 DEF CreateRefused, CreateFails, Record, Failed
    <2> QED
        BY <1>0, <2>1, <2>2, BlankTyped DEF Return, CopiesAgree
<1>10. CASE Start
    BY <1>0, <1>10 DEF Start, CopiesAgree
<1>11. CASE Observe \/ ObserveFails \/ DeleteFails \/ Update \/ Settle \/ Restart
    <2>1. UNCHANGED <<obj, removed>>
        BY <1>11 DEF Observe, ObserveFails, DeleteFails, Update, Settle, Restart
    <2>2. Return \/ (UNCHANGED <<work, fresh>> /\ pc # "created")
        BY <1>11
        DEF Observe, Conclude, Refused, ObserveFails, DeleteFails, Update, Settle, Restart
    <2> QED
        BY <1>0, <2>1, <2>2, BlankTyped DEF Return, CopiesAgree
<1>12. CASE EditSecret \/ RetireParent \/ ReportParent \/ OutOfBand \/ UNCHANGED vars
    BY <1>0, <1>12 DEF EditSecret, RetireParent, ReportParent, OutOfBand, worker, vars, CopiesAgree
<1> QED
    BY <1>1, <1>2, <1>3, <1>4, <1>5, <1>6, <1>7, <1>8, <1>9, <1>10, <1>11, <1>12
    DEF Next, Environment, Worker, Faults, ParentAnswers, ParentFails

---------------------------------------------------------------------------
(***************************************************************************)
(* What the worker knows.                                                  *)
(***************************************************************************)
\* The answer that makes Observe report nothing is never that of a child that counts.
LEMMA AbsentIsTrue ==
    ASSUME Addressed, NEW answer \in Answers, answer = "404" \/ ~Existing
    PROVE  ~Held(work.parent, work.name)
BY DEF Answers, Existing, This, Held

LEMMA WorkerNext ==
    ASSUME IInv, [Next]_vars
    PROVE  WorkerKnows'
<1>0. TypeOK /\ WorkerKnows
    BY DEF IInv
<1>1. CASE pc' \in {"idle", "read", "resolved", "creating"}
    BY <1>1 DEF WorkerKnows
<1>2. CASE Observe
    <2>1. UNCHANGED <<parent, child>>
        BY <1>2 DEF Observe, others
    <2>2. (pc' \in {"doubted", "absent", "drifted", "present"} /\ work' = work) \/ pc' = "idle"
        BY <1>2 DEF Observe, Conclude, Refused, Return
    <2>3. CASE Addressed
        <3>1. PICK answer \in Answers : Conclude(answer)
            BY <1>2, <2>3 DEF Observe
        <3>2. pc' = "absent" => answer = "404" \/ ~Existing
            BY <3>1 DEF Conclude, Refused, Return
        <3>3. pc' = "absent" => ~Held(work.parent, work.name)
            BY <2>3, <3>2, AbsentIsTrue
        <3> QED
            BY <2>1, <2>2, <2>3, <3>3 DEF WorkerKnows, Addressed, Held
    <2>4. CASE ~Addressed
        <3>1. pc' = "absent"
            BY <1>2, <2>4 DEF Observe, Conclude
        <3> QED
            BY <2>2, <2>4, <3>1 DEF WorkerKnows, Addressed
    <2> QED
        BY <2>3, <2>4
<1>3. ASSUME NEW a \in BOOLEAN, LookAtParent(a) PROVE WorkerKnows'
    <2>1. pc' = "idle" \/ (pc' = "absent" /\ Gone(a) /\ work' = work /\ parent' = parent)
        BY <1>3 DEF LookAtParent, Return, others
    <2>2. Gone(a) => parent[work.parent] # "live"
        BY DEF Gone
    <2> QED
        BY <2>1, <2>2 DEF WorkerKnows, Held
<1>4. CASE Create
    <2>1. pc' = "created" /\ work'.parent = work.parent /\ work.parent \in Parent
        BY <1>0, <1>4 DEF Create, Creatable, TypeOK, Object
    <2> QED
        BY <2>1 DEF WorkerKnows
<1>5. CASE Delete \/ DeleteFails
    <2>1. pc' = "idle" \/ (pc' \in {"unremoved", "unconfirmed"} /\ work' = work)
        BY <1>5 DEF Delete, DeleteFails, Refused, Return
    <2>2. Addressed /\ work.deleting
        BY <1>0, <1>5 DEF Delete, DeleteFails, WorkerKnows
    <2> QED
        BY <2>1, <2>2 DEF WorkerKnows, Addressed
<1>6. CASE ObserveFails
    BY <1>6 DEF ObserveFails, WorkerKnows, Addressed
<1>7. CASE UNCHANGED <<pc, work>> /\ ~Create /\ ~CreateFails
    <2>1. ASSUME pc = "absent", Addressed PROVE ~Held(work.parent, work.name)'
        BY <1>0, <1>7, <2>1, NothingBorn DEF WorkerKnows, Addressed
    <2> QED
        BY <1>0, <1>7, <2>1 DEF WorkerKnows, Addressed
<1> QED
    BY <1>1, <1>2, <1>3, <1>4, <1>5, <1>6, <1>7
    DEF Next, Environment, Worker, Faults, EditVal, EditParent, Overtake, RequestDelete, EditSecret,
        RetireParent, ReportParent, OutOfBand, Start, Resolve, ParentAnswers, ParentFails,
        Unfinalize, MarkPending, Create, CreateRefused, CreateFails, Failed, Record, Update, Settle,
        Restart, Return, worker, vars


LEMMA HereNext ==
    ASSUME IInv, [Next]_vars
    PROVE  WorkedOnIsHere'
<1>0. TypeOK /\ WorkedOnIsHere
    BY DEF IInv
<1>1. CASE Start
    BY <1>1 DEF Start, WorkedOnIsHere
<1>2. CASE Resolve
    BY <1>0, <1>2 DEF Resolve, Return, WorkedOnIsHere, TypeOK, Object
<1>3. CASE Observe \/ ObserveFails
    BY <1>0, <1>3 DEF Observe, Conclude, Refused, Return, ObserveFails, WorkedOnIsHere
<1>4. CASE ParentAnswers \/ ParentFails
    BY <1>0, <1>4 DEF ParentAnswers, ParentFails, LookAtParent, Return, WorkedOnIsHere
<1>5. CASE Environment \/ UNCHANGED vars
    BY <1>0, <1>5 DEF Environment, EditVal, EditParent, Overtake, RequestDelete, EditSecret,
                      RetireParent, ReportParent, OutOfBand, worker, vars, WorkedOnIsHere
<1>6. CASE pc' \in {"idle", "creating", "created", "unremoved", "unconfirmed"}
    BY <1>6 DEF WorkedOnIsHere
<1> QED
    BY <1>1, <1>2, <1>3, <1>4, <1>5, <1>6
    DEF Next, Worker, Faults, Delete, DeleteFails, Refused, Unfinalize, MarkPending, Create,
        CreateRefused, CreateFails, Failed, Record, Update, Settle, Restart, Return

---------------------------------------------------------------------------
(***************************************************************************)
(* While Create runs.                                                      *)
(***************************************************************************)
\* How a step may begin, continue and end a creation.
LEMMA CreatingNext ==
    ASSUME TypeOK, [Next]_vars, Creating'
    PROVE  \/ MarkPending /\ fresh
           \/ Create
           \/ Creating /\ UNCHANGED <<pc, work, removed, lost>> /\ Environment
           \/ UNCHANGED vars
<1>1. CASE MarkPending
    BY <1>1 DEF MarkPending, Return, Creating
<1>2. CASE Environment
    BY <1>2 DEF Environment, EditVal, EditParent, Overtake, RequestDelete, EditSecret, RetireParent,
                ReportParent, OutOfBand, others, worker, Creating
<1> QED
    BY <1>1, <1>2
    DEF Next, Worker, Faults, Creating, Start, Resolve, Observe, Conclude, Refused, ObserveFails,
        ParentAnswers, ParentFails, LookAtParent, Delete, DeleteFails, Unfinalize, CreateRefused,
        CreateFails, Failed, Record, Update, Settle, Restart, Return

\* Whoever points the object elsewhere leaves a trace of where it was.
LEMMA LeftNext ==
    ASSUME IInv, Environment
    PROVE  /\ left \subseteq left' /\ obj'.name = obj.name /\ obj'.mark = obj.mark
           /\ obj'.parent = obj.parent \/ obj.parent \in left' \cup {NoParent}
           /\ obj.mark # "none" => obj'.here = obj.here
<1>0. TypeOK
    BY DEF IInv
<1>1. CASE EditVal
    BY <1>0, <1>1 DEF EditVal, Overtake, TypeOK, Object
<1>2. CASE EditParent
    BY <1>0, <1>2 DEF EditParent, Overtake, TypeOK, Object
<1>3. CASE RequestDelete
    BY <1>0, <1>3 DEF RequestDelete, others, TypeOK, Object
<1>4. CASE EditSecret \/ RetireParent \/ ReportParent \/ OutOfBand
    BY <1>4 DEF EditSecret, RetireParent, ReportParent, OutOfBand, others
<1> QED
    BY <1>1, <1>2, <1>3, <1>4 DEF Environment

LEMMA CreateNext ==
    ASSUME IInv, [Next]_vars
    PROVE  CreateHeld'
<1>0. TypeOK /\ CopiesAgree /\ CreateHeld
    BY DEF IInv
<1> SUFFICES ASSUME Creating'
             PROVE  /\ obj'.here /\ obj'.mark = "pending" /\ removed' = {}
                    /\ work'.parent \in {obj'.parent, NoParent} \cup left'
    BY DEF CreateHeld
<1>1. CASE MarkPending /\ fresh
    <2>1. work = obj /\ obj' = [obj EXCEPT !.mark = "pending"] /\ work' = obj' /\ ~obj.deleting
            /\ removed' = removed
        BY <1>0, <1>1 DEF MarkPending, CopiesAgree
    <2>2. removed = {}
        BY <1>0, <2>1 DEF CopiesAgree
    <2>3. work.here
        BY <1>1 DEF MarkPending, IInv, WorkedOnIsHere
    <2> QED
        BY <1>0, <2>1, <2>2, <2>3 DEF TypeOK, Object
<1>2. CASE Create
    <2>1. work'.parent = work.parent /\ Creating /\ UNCHANGED <<obj, removed, left>>
        BY <1>0, <1>2 DEF Create, Creating, others, TypeOK, Object
    <2> QED
        BY <1>0, <2>1 DEF CreateHeld
<1>3. CASE Creating /\ UNCHANGED <<pc, work, removed, lost>> /\ Environment
    BY <1>0, <1>3, LeftNext DEF CreateHeld
<1>4. CASE UNCHANGED vars
    BY <1>0, <1>4 DEF vars, CreateHeld, Creating
<1> QED
    BY <1>0, <1>1, <1>2, <1>3, <1>4, CreatingNext

\* The child that Add makes is the only one of ours that is new.
LEMMA OneBorn ==
    ASSUME TypeOK, work.parent \in Parent, NEW n \in ID, Add(n), parent' = parent
    PROVE  \A p \in Parent, m \in ID :
               Ours(p, m)' => Ours(p, m) \/ (p = work.parent /\ m = n)
BY AddEffect DEF Ours, Held

LEMMA OnlyNext ==
    ASSUME IInv, [Next]_vars
    PROVE  OnlyTheNewOne'
<1>0. TypeOK /\ WorkerKnows /\ CopiesAgree /\ OnlyTheNewOne
    BY DEF IInv
<1> SUFFICES ASSUME Creating', NEW p \in Parent, NEW m \in ID, Ours(p, m)'
             PROVE  \/ pc' = "created" /\ work'.parent = p /\ work'.name = m
                    \/ <<p, m>> \in lost' \/ p \in left'
    BY DEF OnlyTheNewOne
<1>1. CASE MarkPending /\ fresh
    <2>1. Ours(p, m)
        BY <1>0, <1>1, NothingBorn DEF MarkPending, Create, CreateFails
    <2>2. work = obj /\ pc = "absent" /\ UNCHANGED <<lost, left>>
        BY <1>0, <1>1 DEF MarkPending, CopiesAgree, others
    <2>3. ~(obj.parent = p /\ obj.name = m)
        BY <1>0, <2>1, <2>2 DEF WorkerKnows, Addressed, Ours
    <2> QED
        BY <2>1, <2>2, <2>3 DEF IInv, NothingOrphaned, Ours
<1>2. CASE Create
    <2>1. PICK n \in NewName : Add(n) /\ work' = [work EXCEPT !.name = n]
        BY <1>2 DEF Create
    <2>2. work'.parent = work.parent /\ work'.name = n /\ n \in ID /\ work.parent \in Parent
        BY <1>0, <1>2, <2>1, NamesAreIDs DEF Create, Creatable, TypeOK, Object
    <2>3. UNCHANGED <<lost, left, parent>> /\ pc = "creating" /\ pc' = "created"
        BY <1>2 DEF Create, others
    <2>4. Ours(p, m) \/ (p = work.parent /\ m = n)
        BY <1>0, <2>1, <2>2, <2>3, OneBorn
    <2> QED
        BY <1>0, <2>2, <2>3, <2>4 DEF OnlyTheNewOne, Creating
<1>3. CASE Creating /\ UNCHANGED <<pc, work, removed, lost>> /\ Environment
    <2>1. Ours(p, m)
        BY <1>0, <1>3, NothingBorn DEF Create, CreateFails, Failed, Return, Creating
    <2> QED
        BY <1>0, <1>3, <2>1, LeftNext DEF OnlyTheNewOne
<1>4. CASE UNCHANGED vars
    BY <1>0, <1>4 DEF vars, OnlyTheNewOne, Creating, Ours, Held
<1> QED
    BY <1>0, <1>1, <1>2, <1>3, <1>4, CreatingNext

---------------------------------------------------------------------------
(***************************************************************************)
(* Nothing is orphaned, and what is reported as removed stays removed.     *)
(***************************************************************************)
LEMMA OrphanedNext ==
    ASSUME IInv, [Next]_vars
    PROVE  NothingOrphaned'
<1>0. TypeOK /\ WorkerKnows /\ CopiesAgree /\ CreateHeld /\ OnlyTheNewOne /\ NothingOrphaned
    BY DEF IInv
<1> SUFFICES ASSUME NEW p \in Parent, NEW m \in ID, Ours(p, m)'
             PROVE  \/ obj'.here /\ obj'.parent = p /\ obj'.name = m
                    \/ pc' = "created" /\ work'.parent = p /\ work'.name = m
                    \/ <<p, m>> \in lost' \/ p \in left'
    BY DEF NothingOrphaned, Ours
<1>1. CASE Create
    BY <1>0, <1>1, OnlyNext DEF OnlyTheNewOne, Create, Creating
<1>2. CASE CreateFails
    <2>1. UNCHANGED <<parent, left>> /\ pc = "creating" /\ lost \subseteq lost'
        BY <1>2 DEF CreateFails, others
    <2>2. work.parent \in Parent
        BY <1>2 DEF CreateFails, Creatable
    <2>3. CASE child' = child
        BY <1>0, <2>1, <2>3 DEF OnlyTheNewOne, Creating, Ours, Held
    <2>4. CASE \E n \in NewName : Add(n) /\ lost' = lost \cup {<<work.parent, n>>}
        <3>1. PICK n \in ID : Add(n) /\ lost' = lost \cup {<<work.parent, n>>}
            BY <2>4, NamesAreIDs
        <3>2. Ours(p, m) \/ (p = work.parent /\ m = n)
            BY <1>0, <2>1, <2>2, <3>1, OneBorn
        <3> QED
            BY <1>0, <2>1, <3>1, <3>2 DEF OnlyTheNewOne, Creating
    <2> QED
        BY <1>2, <2>3, <2>4 DEF CreateFails
<1>3. CASE ~Create /\ ~CreateFails
    <2>1. Ours(p, m)
        BY <1>0, <1>3, NothingBorn
    <2>2. \/ obj.here /\ obj.parent = p /\ obj.name = m
          \/ pc = "created" /\ work.parent = p /\ work.name = m
          \/ <<p, m>> \in lost \/ p \in left
        BY <1>0, <2>1 DEF NothingOrphaned, Ours
    <2>3. CASE Environment
        <3>1. UNCHANGED <<pc, work, lost>>
            BY <2>3 DEF Environment, EditVal, EditParent, Overtake, RequestDelete, EditSecret,
                        RetireParent, ReportParent, OutOfBand, others, worker
        <3>2. obj.mark = "none" => obj.name # m
            BY <1>0, ParentAssumption DEF CopiesAgree
        <3>3. p # NoParent
            BY ParentAssumption
        <3> QED
            BY <2>2, <2>3, <3>1, <3>2, <3>3, LeftNext
    <2>4. CASE Resolve
        <3>1. UNCHANGED lost /\ left \subseteq left' /\ pc # "created"
            BY <2>4 DEF Resolve
        <3>2. obj'.here = obj.here /\ obj'.name = obj.name
                /\ (obj'.parent = obj.parent \/ obj.parent \in left' \cup {NoParent})
            BY <1>0, <2>4 DEF Resolve, TypeOK, Object
        <3> QED
            BY <2>2, <3>1, <3>2, ParentAssumption
    <2>5. CASE Unfinalize
        <3>1. UNCHANGED <<lost, left>> /\ pc = "absent"
            BY <2>5 DEF Unfinalize, others
        <3>2. fresh => work = obj /\ ~(obj.parent = p /\ obj.name = m)
            BY <1>0, <2>1, <3>1 DEF CopiesAgree, WorkerKnows, Addressed, Ours
        <3>3. ~fresh => obj' = obj
            BY <2>5 DEF Unfinalize
        <3> QED
            BY <2>2, <3>1, <3>2, <3>3
    <2>6. CASE MarkPending
        <3>1. UNCHANGED <<lost, left>> /\ pc = "absent"
            BY <2>6 DEF MarkPending, others
        <3>2. obj'.here = obj.here /\ obj'.parent = obj.parent /\ obj'.name = obj.name
            BY <1>0, <2>6 DEF MarkPending, CopiesAgree, TypeOK, Object
        <3> QED
            BY <2>2, <3>1, <3>2
    <2>7. CASE CreateRefused
        <3>1. UNCHANGED <<lost, left>> /\ pc = "creating"
            BY <2>7 DEF CreateRefused, others
        <3> QED
            BY <1>0, <2>1, <3>1 DEF OnlyTheNewOne, Creating
    <2>8. CASE Record
        <3>1. UNCHANGED <<lost, left>> /\ pc = "created"
            BY <2>8 DEF Record, others
        <3>2. obj'.here = obj.here /\ obj'.parent = obj.parent /\ obj'.name = work.name
            BY <1>0, <2>8 DEF Record, TypeOK, Object
        <3>3. obj.here /\ work.parent \in {obj.parent} \cup left
            BY <1>0, <3>1, ParentAssumption DEF CreateHeld, Creating, WorkerKnows
        <3> QED
            BY <1>0, <2>1, <3>1, <3>2, <3>3 DEF OnlyTheNewOne, Creating
    <2>9. CASE Restart
        BY <2>2, <2>9 DEF Restart, others
    <2>10. CASE \/ Start \/ Observe \/ ObserveFails \/ ParentAnswers \/ ParentFails \/ Delete
                \/ DeleteFails \/ Update \/ Settle
        <3>1. UNCHANGED <<obj, lost, left>> /\ pc # "created"
            BY <2>10 DEF Start, Observe, ObserveFails, ParentAnswers, ParentFails, LookAtParent,
                         Delete, DeleteFails, Update, Settle, others
        <3> QED
            BY <2>2, <3>1
    <2>11. CASE UNCHANGED vars
        BY <2>2, <2>11 DEF vars
    <2> QED
        BY <1>3, <2>3, <2>4, <2>5, <2>6, <2>7, <2>8, <2>9, <2>10, <2>11 DEF Next, Worker, Faults
<1> QED
    BY <1>1, <1>2, <1>3

LEMMA MootNext ==
    ASSUME IInv, [Next]_vars
    PROVE  ReportedIsMoot'
<1>0. TypeOK /\ WorkerKnows /\ CreateHeld /\ ReportedIsMoot
    BY DEF IInv
<1>1. CASE Create \/ CreateFails
    <2>1. removed = {} /\ removed' = removed
        BY <1>0, <1>1 DEF Create, CreateFails, CreateHeld, Creating
    <2> QED
        BY <2>1 DEF ReportedIsMoot
<1>2. CASE ~Create /\ ~CreateFails
    <2>1. \A r \in removed : ~Held(r[1], r[2])'
        <3> SUFFICES ASSUME NEW r \in removed PROVE ~Held(r[1], r[2])'
            OBVIOUS
        <3>1. r[1] \in Parent /\ r[2] \in ID
            BY <1>0 DEF TypeOK
        <3> QED
            BY <1>0, <1>2, <3>1, NothingBorn DEF ReportedIsMoot
    <2>2. CASE Delete
        <3>1. Addressed /\ UNCHANGED parent
            BY <1>0, <2>2 DEF Delete, WorkerKnows, others
        <3>2. \/ removed' = removed
              \/ /\ removed' = removed \cup {<<work.parent, work.name>>}
                 /\ \E answer \in Answers :
                        /\ answer # "400"
                        /\ IF answer = "found" THEN Remove ELSE UNCHANGED child
            BY <2>2 DEF Delete
        <3>3. PICK p \in Parent, n \in ID : p = work.parent /\ n = work.name
            BY <3>1 DEF Addressed
        <3>4. ASSUME removed' # removed PROVE ~Held(p, n)'
            <4>1. PICK answer \in Answers :
                      /\ answer # "400"
                      /\ IF answer = "found" THEN Remove ELSE UNCHANGED child
                BY <3>2, <3>4
            <4>2. CASE answer = "found"
                BY <1>0, <3>1, <3>3, <4>1, <4>2, RemoveEffect DEF Held
            <4>3. CASE answer # "found"
                <5>1. answer = "404" /\ UNCHANGED child
                    BY <4>1, <4>3 DEF Answers
                <5>2. ~Held(work.parent, work.name)
                    BY <3>1, <5>1, AbsentIsTrue
                <5> QED
                    BY <3>1, <3>3, <5>1, <5>2 DEF Held
            <4> QED
                BY <4>2, <4>3
        <3> QED
            BY <2>1, <3>2, <3>3, <3>4 DEF ReportedIsMoot
    <2>3. ASSUME NEW a \in BOOLEAN, LookAtParent(a) PROVE ReportedIsMoot'
        <3>1. CASE removed' = removed
            BY <2>1, <3>1 DEF ReportedIsMoot
        <3>2. CASE removed' # removed
            <4>1. Gone(a) /\ removed' = removed \cup {<<work.parent, work.name>>} /\ Addressed
                BY <1>0, <2>3, <3>2 DEF LookAtParent, WorkerKnows
            <4>2. PICK p \in Parent, n \in ID : p = work.parent /\ n = work.name
                BY <4>1 DEF Addressed
            <4>3. ~Held(p, n)'
                BY <2>3, <4>1, <4>2 DEF Gone, LookAtParent, Held, others
            <4> QED
                BY <2>1, <4>1, <4>2, <4>3 DEF ReportedIsMoot
        <3> QED
            BY <3>1, <3>2
    <2>4. CASE removed' = removed
        BY <2>1, <2>4 DEF ReportedIsMoot
    <2> QED
        BY <1>2, <2>2, <2>3, <2>4
        DEF Next, Environment, Worker, Faults, EditVal, EditParent, Overtake, RequestDelete,
            EditSecret, RetireParent, ReportParent, OutOfBand, Start, Resolve, Observe, ObserveFails,
            ParentAnswers, ParentFails, DeleteFails, Unfinalize, MarkPending, CreateRefused, Record,
            Update, Settle, Restart, vars
<1> QED
    BY <1>1, <1>2

---------------------------------------------------------------------------
(***************************************************************************)
(* The theorems.                                                           *)
(***************************************************************************)
LEMMA IInvInit == Init => IInv
<1> SUFFICES ASSUME Init PROVE IInv
    OBVIOUS
<1>1. obj.mark = "none" /\ obj.name = NoName /\ ~work.deleting
    BY DEF Init, Blank
<1>2. CopiesAgree /\ WorkerKnows /\ WorkedOnIsHere /\ CreateHeld /\ OnlyTheNewOne
    BY <1>1 DEF Init, CopiesAgree, WorkerKnows, WorkedOnIsHere, CreateHeld, OnlyTheNewOne, Creating
<1>3. NothingOrphaned /\ ReportedIsMoot
    BY DEF Init, NothingOrphaned, ReportedIsMoot
<1> QED
    BY <1>2, <1>3, TypeInit DEF IInv

LEMMA IInvNext == IInv /\ [Next]_vars => IInv'
BY TypeNext, CopiesNext, WorkerNext, HereNext, CreateNext, OnlyNext, OrphanedNext, MootNext DEF IInv

\* The strengthened invariant always holds.
THEOREM IInvAlways == Spec => []IInv
BY IInvInit, IInvNext, PTL DEF Spec

\* The variables keep their types; a child that was created has an identifier.
THEOREM TypeCorrect == Spec => []TypeOK
<1>1. IInv => TypeOK
    BY DEF IInv
<1> QED
    BY <1>1, IInvAlways, PTL

\* Observe, Create and the resolver together: no child is left behind in a live
\* parent, unless its creation was cut short or the object was pointed elsewhere.
THEOREM NoOrphans == Spec => []NothingOrphaned
<1>1. IInv => NothingOrphaned
    BY DEF IInv
<1> QED
    BY <1>1, IInvAlways, PTL

\* Delete and workspaceGone: what is reported as removed is so, also when the error
\* was forgiven because the workspace looked archived.
THEOREM ForgivenIsMoot == Spec => []ReportedIsMoot
<1>1. IInv => ReportedIsMoot
    BY DEF IInv
<1> QED
    BY <1>1, IInvAlways, PTL
=============================================================================
