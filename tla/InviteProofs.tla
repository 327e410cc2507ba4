---------------------------- MODULE InviteProofs ----------------------------
(***************************************************************************)
(* Theorems about Invite, for any number of identifiers, edits and faults. *)
(***************************************************************************)
EXTENDS Invite, TLAPS

\* An invite that somebody holds, or held until it expired.
Held(n) == n \in ID /\ status[n] \in {"pending", "accepted", "expired"}

(***************************************************************************)
(* What makes the safety properties inductive.                             *)
(***************************************************************************)

\* A current copy is the object itself, until Create has put a name into it.
CopiesAgree ==
    /\ synced => cache = obj
    /\ fresh /\ pc # "created" => work = obj

\* A name that is an identifier has been given out; without a mark there is none.
Sound(o) == /\ o.name \in ID => status[o.name] # "none"
            /\ o.mark = "none" => o.name = NoName

NamesSound == Sound(obj) /\ Sound(cache) /\ (pc # "created" => Sound(work))
                /\ (pc = "created" => status[work.name] # "none")

\* What the worker has established before it goes on.
WorkerKnows ==
    /\ pc # "idle" => work.here
    /\ pc = "absent" => ~Held(work.name)

\* While Create runs the object is there, marked, and its name is of no invite
\* that somebody holds.
CreateHeld ==
    pc \in {"creating", "created"} => obj.here /\ obj.mark = "pending" /\ ~Held(obj.name)

\* What was reported as revoked had been issued, and is over.
ReportedWasIssued == \A i \in revoked : status[i] \notin {"none", "pending"}

\* What was lost had been issued.
LostWasIssued == \A i \in lost \cup crashed : status[i] # "none"

\* Once a name was lost in a restart the object is marked for good, and nothing is
\* created any more: no reconcile begins with the mark, and a copy from before it
\* is too old to be written.
CrashStops ==
    /\ crashed # {} => obj.mark = "pending" /\ pc \notin {"creating", "created"}
    /\ pc \notin {"idle", "creating", "created"} => work.mark # "pending"

IInv == TypeOK /\ CopiesAgree /\ NamesSound /\ WorkerKnows /\ CreateHeld /\ ReportedWasIssued
            /\ InviteAccountedFor /\ LostWasIssued /\ CrashStops

---------------------------------------------------------------------------
LEMMA BlankTyped == Blank \in Object
BY DEF Blank, Object

LEMMA TypeInit == Init => TypeOK
<1> SUFFICES ASSUME Init PROVE TypeOK
    OBVIOUS
<1>1. obj \in Object /\ cache \in Object /\ work \in Object
    BY BlankTyped DEF Init, Object
<1>2. edits \in 0..MaxEdits /\ faults \in 0..MaxFaults
    BY BoundAssumption DEF Init
<1> QED
    BY <1>1, <1>2 DEF Init, TypeOK, Status, PC

LEMMA Counted ==
    ASSUME NEW n \in 0..MaxEdits, NEW m \in 0..MaxFaults
    PROVE  (n < MaxEdits => n + 1 \in 0..MaxEdits) /\ (m < MaxFaults => m + 1 \in 0..MaxFaults)
BY BoundAssumption

LEMMA TypeNext ==
    ASSUME TypeOK, [Next]_vars
    PROVE  TypeOK'
<1> USE DEF TypeOK
<1>1. ASSUME Touch PROVE TypeOK'
    BY <1>1, Counted DEF Touch
<1>2. ASSUME RequestDelete PROVE TypeOK'
    <2>1. obj' \in Object
        BY <1>2 DEF RequestDelete, Object
    <2> QED
        BY <1>2, <2>1 DEF RequestDelete, bounds
<1>3. ASSUME AcceptOrExpire PROVE TypeOK'
    BY <1>3 DEF AcceptOrExpire, Becomes, Status, object, bounds
<1>4. ASSUME RevokeByHand PROVE TypeOK'
    BY <1>4, Counted DEF RevokeByHand, Becomes, Status, object
<1>5. ASSUME Sync PROVE TypeOK'
    BY <1>5 DEF Sync, bounds
<1>6. ASSUME Start PROVE TypeOK'
    BY <1>6 DEF Start, PC, object, bounds
<1>7. ASSUME Observe PROVE TypeOK'
    BY <1>7 DEF Observe, Present, PC, object, bounds
<1>8. ASSUME Settle PROVE TypeOK'
    BY <1>8, BlankTyped DEF Settle, Return, PC, bounds
<1>9. ASSUME Revoke PROVE TypeOK'
    BY <1>9, BlankTyped DEF Revoke, Return, Becomes, Status, PC, object, bounds
<1>10. ASSUME RevokeFails PROVE TypeOK'
    BY <1>10, Counted DEF RevokeFails, Becomes, Status, PC, object
<1>11. ASSUME Recheck PROVE TypeOK'
    BY <1>11, BlankTyped DEF Recheck, Return, PC, object, bounds
<1>12. ASSUME Unfinalize PROVE TypeOK'
    <2>1. obj' \in Object /\ synced' \in BOOLEAN
        BY <1>12 DEF Unfinalize, Object, object
    <2> QED
        BY <1>12, <2>1, BlankTyped DEF Unfinalize, Return, PC, bounds
<1>13. ASSUME MarkPending PROVE TypeOK'
    <2>1. [work EXCEPT !.mark = "pending"] \in Object
        BY DEF Object
    <2> QED
        BY <1>13, <2>1, BlankTyped DEF MarkPending, Return, PC, object, bounds
<1>14. ASSUME Create PROVE TypeOK'
    <2>1. PICK i \in ID : Issue(i) /\ work' = [work EXCEPT !.name = i]
        BY <1>14 DEF Create
    <2>2. work' \in Object /\ work'.name = i
        BY <2>1 DEF Object
    <2>3. status' \in [ID -> Status]
        BY <2>1 DEF Issue, Becomes, Status
    <2> QED
        BY <1>14, <2>2, <2>3 DEF Create, PC, object, bounds
<1>15. ASSUME CreateFails PROVE TypeOK'
    <2>1. obj' \in Object
        BY <1>15 DEF CreateFails, Object
    <2>2. status' \in [ID -> Status] /\ lost' \subseteq ID
        BY <1>15 DEF CreateFails, Issue, Becomes, Status
    <2> QED
        BY <1>15, <2>1, <2>2, BlankTyped, Counted DEF CreateFails, Return, PC
<1>16. ASSUME Record PROVE TypeOK'
    <2>1. obj' \in Object
        BY <1>16 DEF Record, Object
    <2> QED
        BY <1>16, <2>1, BlankTyped DEF Record, Return, PC, bounds
<1>17. ASSUME Restart PROVE TypeOK'
    BY <1>17, BlankTyped, Counted DEF Restart, Return, PC, object
<1>18. ASSUME UNCHANGED vars PROVE TypeOK'
    BY <1>18 DEF vars
<1> QED
    BY <1>1, <1>2, <1>3, <1>4, <1>5, <1>6, <1>7, <1>8, <1>9, <1>10, <1>11, <1>12, <1>13,
       <1>14, <1>15, <1>16, <1>17, <1>18 DEF Next, Environment, Worker

---------------------------------------------------------------------------
(***************************************************************************)
(* The life of an invite: issued once, and over for good once it is not    *)
(* pending any more.                                                       *)
(***************************************************************************)
Aged(i) ==
    \/ status'[i] = status[i]
    \/ status[i] = "pending" /\ status'[i] \in {"accepted", "expired", "deleted"}

Issued(i) == status[i] = "none" /\ status'[i] = "pending"

LEMMA Revoking ==
    ASSUME TypeOK, NEW i \in ID, status[i] = "pending",
           NEW s \in {"accepted", "expired", "deleted"}, Becomes(i, s)
    PROVE  \A j \in ID : Aged(j)
BY DEF TypeOK, Becomes, Aged

LEMMA Issuing ==
    ASSUME TypeOK, NEW i \in ID, Issue(i)
    PROVE  Issued(i) /\ \A j \in ID : j # i => status'[j] = status[j]
BY DEF TypeOK, Becomes, Issue, Issued

LEMMA StatusAges ==
    ASSUME TypeOK, [Next]_vars
    PROVE  \/ \A i \in ID : Aged(i)
           \/ Create /\ \E i \in ID : /\ Issued(i) /\ work' = [work EXCEPT !.name = i]
                                      /\ \A j \in ID : j # i => status'[j] = status[j]
           \/ CreateFails /\ \E i \in ID : /\ Issued(i) /\ lost' = lost \cup {i}
                                           /\ \A j \in ID : j # i => status'[j] = status[j]
<1>1. CASE UNCHANGED status
    BY <1>1 DEF Aged
<1>2. CASE AcceptOrExpire
    BY <1>2, Revoking DEF AcceptOrExpire
<1>3. CASE RevokeByHand
    BY <1>3, Revoking DEF RevokeByHand
<1>4. CASE Revoke
    BY <1>1, <1>4, Revoking DEF Revoke, TypeOK
<1>5. CASE RevokeFails
    BY <1>1, <1>5, Revoking DEF RevokeFails, TypeOK
<1>6. CASE Create
    BY <1>6, Issuing DEF Create
<1>7. CASE CreateFails
    BY <1>1, <1>7, Issuing DEF CreateFails
<1> QED
    BY <1>1, <1>2, <1>3, <1>4, <1>5, <1>6, <1>7
    DEF Next, Environment, Worker, Touch, RequestDelete, Sync, Start, Observe, Settle, Recheck,
        Unfinalize, MarkPending, Record, Restart, vars

\* What has been given out stays so, and nobody comes to hold an old invite.
LEMMA StatusKept ==
    ASSUME TypeOK, [Next]_vars, NEW i \in ID, status[i] # "none"
    PROVE  /\ status'[i] # "none"
           /\ status[i] # "pending" => status'[i] = status[i]
           /\ ~Held(i) => ~Held(i)'
<1>1. Aged(i)
    BY StatusAges DEF Aged, Issued
<1> QED
    BY <1>1 DEF Aged, Held

---------------------------------------------------------------------------
(***************************************************************************)
(* The parts of the invariant.                                             *)
(***************************************************************************)
LEMMA CopiesNext ==
    ASSUME TypeOK, CopiesAgree, [Next]_vars
    PROVE  CopiesAgree'
<1> USE DEF CopiesAgree
<1>1. CASE Environment
    BY <1>1 DEF Environment, Touch, RequestDelete, AcceptOrExpire, RevokeByHand, object
<1>2. CASE Sync \/ UNCHANGED vars
    BY <1>2 DEF Sync, vars
<1>3. CASE Start \/ Observe
    BY <1>3 DEF Start, Observe, object
<1>4. CASE Settle \/ Recheck
    <2>1. obj' = obj /\ cache' = cache /\ fresh' = FALSE
        BY <1>4 DEF Settle, Recheck, Return, object
    <2>2. synced' = synced \/ synced' = FALSE
        BY <1>4 DEF Settle, Recheck, object
    <2> QED
        BY <2>1, <2>2
<1>5. CASE Revoke
    BY <1>5 DEF Revoke, Return, object
<1>6. CASE RevokeFails
    BY <1>6 DEF RevokeFails, object
<1>7. CASE Unfinalize \/ MarkPending
    BY <1>7 DEF Unfinalize, MarkPending, Return, object
<1>8. CASE Create
    BY <1>8 DEF Create, object
<1>9. CASE CreateFails \/ Record \/ Restart
    BY <1>9 DEF CreateFails, Record, Restart, Return, object
<1> QED
    BY <1>1, <1>2, <1>3, <1>4, <1>5, <1>6, <1>7, <1>8, <1>9 DEF Next, Worker

\* Names go from the worker to the object, to the cache, to the worker.
LEMMA NamesNext ==
    ASSUME TypeOK, CopiesAgree, NamesSound, [Next]_vars
    PROVE  NamesSound'
<1>0. TypeOK'
    BY TypeNext
<1>1. \A i \in ID : status[i] # "none" => status'[i] # "none"
    BY StatusKept
<1>2. Blank.name = NoName /\ NoName \notin ID
    BY NoNameAssumption DEF Blank
<1>3. CASE UNCHANGED <<obj, cache, work, pc>>
    BY <1>1, <1>3 DEF NamesSound, Sound, TypeOK
<1>4. CASE UNCHANGED <<obj, cache>> /\ Return
    BY <1>1, <1>2, <1>4 DEF NamesSound, Sound, TypeOK, Return
<1>5. CASE RequestDelete
    <2>1. obj'.name = obj.name /\ obj'.mark = obj.mark /\ UNCHANGED <<cache, work, pc>>
        BY <1>5 DEF RequestDelete, TypeOK, Object
    <2> QED
        BY <1>1, <2>1 DEF NamesSound, Sound, TypeOK
<1>6. CASE Sync
    BY <1>1, <1>6 DEF Sync, NamesSound, Sound, TypeOK
<1>7. CASE Start
    BY <1>1, <1>7 DEF Start, object, NamesSound, Sound, TypeOK
<1>8. CASE UNCHANGED <<obj, cache, work>> /\ pc # "created" /\ pc' # "created"
    BY <1>1, <1>8 DEF NamesSound, Sound, TypeOK
<1>9. CASE Unfinalize
    <2>1. obj' = obj \/ obj' = [work EXCEPT !.here = FALSE]
        BY <1>9 DEF Unfinalize, object
    <2>2. Sound(work) /\ cache' = cache /\ Return
        BY <1>9 DEF Unfinalize, NamesSound
    <2> QED
        BY <1>1, <1>2, <2>1, <2>2 DEF NamesSound, Sound, TypeOK, Object, Return
<1>10. CASE MarkPending /\ ~Return
    <2>1. LET w == [work EXCEPT !.mark = "pending"] IN
            obj' = w /\ work' = w /\ cache' = cache /\ pc' = "creating"
        BY <1>10 DEF MarkPending
    <2>2. Sound(work) /\ work \in Object
        BY <1>10 DEF MarkPending, NamesSound, TypeOK
    <2>3. /\ obj'.name = work.name /\ obj'.mark = "pending"
          /\ work'.name = work.name /\ work'.mark = "pending"
        BY <2>1, <2>2 DEF Object
    <2> QED
        BY <1>1, <2>1, <2>2, <2>3 DEF NamesSound, Sound, TypeOK
<1>11. CASE Create
    <2>1. PICK i \in ID : Issued(i) /\ work' = [work EXCEPT !.name = i]
        BY <1>11, Issuing DEF Create
    <2>2. work'.name = i
        BY <2>1 DEF TypeOK, Object
    <2> QED
        BY <1>1, <1>11, <2>1, <2>2 DEF Create, object, Issued, NamesSound, Sound, TypeOK
<1>12. CASE CreateFails
    <2>1. /\ obj'.name = obj.name /\ obj'.mark = "failed" /\ cache' = cache /\ Return
        BY <1>12 DEF CreateFails, TypeOK, Object
    <2> QED
        BY <1>1, <1>2, <2>1 DEF NamesSound, Sound, TypeOK, Return
<1>13. CASE Record
    <2>1. /\ obj'.name = work.name /\ obj'.mark = "succeeded" /\ cache' = cache /\ Return
          /\ status[work.name] # "none" /\ work.name \in ID
        BY <1>13 DEF Record, NamesSound, TypeOK, Object
    <2> QED
        BY <1>1, <1>2, <2>1 DEF NamesSound, Sound, TypeOK, Return
<1>14. CASE Touch \/ AcceptOrExpire \/ RevokeByHand \/ UNCHANGED vars
    BY <1>3, <1>14 DEF Touch, AcceptOrExpire, RevokeByHand, object, vars
<1>15. CASE Observe \/ RevokeFails
    BY <1>8, <1>15 DEF Observe, RevokeFails, object
<1>16. CASE Revoke
    BY <1>4, <1>8, <1>16 DEF Revoke, object
<1>17. CASE Settle \/ Recheck \/ Restart
    BY <1>4, <1>17 DEF Settle, Recheck, Restart, object
<1>18. CASE MarkPending
    <2>1. CASE Return
        <3>1. UNCHANGED <<obj, cache>>
            BY <1>18, <2>1 DEF MarkPending, Return, object
        <3> QED
            BY <1>4, <2>1, <3>1
    <2> QED
        BY <1>10, <1>18, <2>1
<1> QED
    BY <1>5, <1>6, <1>7, <1>9, <1>11, <1>12, <1>13, <1>14, <1>15, <1>16, <1>17, <1>18
    DEF Next, Environment, Worker

LEMMA WorkerNext ==
    ASSUME TypeOK, NamesSound, WorkerKnows, [Next]_vars
    PROVE  WorkerKnows'
<1>1. CASE UNCHANGED <<work, pc>>
    <2>1. pc = "absent" => ~Held(work.name)'
        BY <1>1, StatusKept DEF WorkerKnows, NamesSound, Sound, Held
    <2> QED
        BY <1>1, <2>1 DEF WorkerKnows
<1>2. CASE Return
    BY <1>2 DEF Return, WorkerKnows
<1>3. CASE Start
    BY <1>3 DEF Start, WorkerKnows
<1>4. CASE Observe
    <2>1. pc' = "absent" => ~Held(work.name)
        BY <1>4 DEF Observe, Present, Held, TypeOK, Status
    <2> QED
        BY <1>4, <2>1 DEF Observe, WorkerKnows, Held, TypeOK
<1>5. CASE work'.here = work.here /\ pc # "idle" /\ pc' # "absent"
    BY <1>5 DEF WorkerKnows
<1>6. CASE MarkPending \/ Create
    <2>1. Return \/ (work'.here = work.here /\ pc # "idle" /\ pc' # "absent")
        BY <1>6 DEF MarkPending, Create, TypeOK, Object
    <2> QED
        BY <1>2, <1>5, <2>1
<1> QED
    BY <1>1, <1>2, <1>3, <1>4, <1>5, <1>6
    DEF Next, Environment, Worker, Touch, RequestDelete, AcceptOrExpire, RevokeByHand, Sync, Settle,
        Revoke, RevokeFails, Recheck, Unfinalize, CreateFails, Record, Restart, vars

LEMMA CreateNext ==
    ASSUME TypeOK, CopiesAgree, NamesSound, WorkerKnows, CreateHeld, [Next]_vars
    PROVE  CreateHeld'
<1>1. CASE pc' \notin {"creating", "created"}
    BY <1>1 DEF CreateHeld
<1>2. CASE pc \in {"creating", "created"} /\ obj' = obj
    <2>1. ~Held(obj.name)'
        BY <1>2, StatusKept DEF CreateHeld, NamesSound, Sound, Held
    <2> QED
        BY <1>2, <2>1 DEF CreateHeld
<1>3. CASE RequestDelete
    <2>1. CASE pc \in {"creating", "created"}
        <3>1. obj'.here /\ obj'.mark = "pending" /\ obj'.name = obj.name /\ status' = status
            BY <1>3, <2>1 DEF RequestDelete, CreateHeld, TypeOK, Object
        <3> QED
            BY <2>1, <3>1 DEF CreateHeld, Held
    <2> QED
        BY <1>1, <1>3, <2>1 DEF RequestDelete
<1>4. CASE MarkPending
    <2>1. CASE fresh
        <3>1. obj' = [work EXCEPT !.mark = "pending"] /\ status' = status
            BY <1>4, <2>1 DEF MarkPending
        <3>2. work.here /\ ~Held(work.name) /\ work \in Object
            BY <1>4 DEF MarkPending, WorkerKnows, TypeOK
        <3>3. obj'.here /\ obj'.mark = "pending" /\ obj'.name = work.name
            BY <3>1, <3>2 DEF Object
        <3> QED
            BY <3>1, <3>2, <3>3 DEF CreateHeld, Held
    <2> QED
        BY <1>1, <1>4, <2>1 DEF MarkPending, Return
<1> QED
    BY <1>1, <1>2, <1>3, <1>4
    DEF Next, Environment, Worker, Touch, AcceptOrExpire, RevokeByHand, Sync, Start, Observe, Settle,
        Revoke, RevokeFails, Recheck, Unfinalize, Create, CreateFails, Record, Restart, Return,
        object, vars

LEMMA ReportedNext ==
    ASSUME TypeOK, NamesSound, ReportedWasIssued, [Next]_vars
    PROVE  ReportedWasIssued'
<1>1. \A i \in revoked : status'[i] \notin {"none", "pending"}
    BY StatusKept DEF ReportedWasIssued, TypeOK
<1>2. CASE revoked' = revoked
    BY <1>1, <1>2 DEF ReportedWasIssued
<1>3. CASE Revoke /\ revoked' # revoked
    <2>1. revoked' = revoked \cup {work.name} /\ status'[work.name] = "deleted"
        BY <1>3 DEF Revoke, Becomes, TypeOK
    <2> QED
        BY <1>1, <2>1 DEF ReportedWasIssued
<1>4. CASE Recheck
    <2>1. status[work.name] # "none" /\ status' = status
        BY <1>4 DEF Recheck, NamesSound, Sound, TypeOK
    <2> QED
        BY <1>1, <1>4, <2>1 DEF Recheck, ReportedWasIssued
<1> QED
    BY <1>2, <1>3, <1>4
    DEF Next, Environment, Worker, Touch, RequestDelete, AcceptOrExpire, RevokeByHand, Sync, Start,
        Observe, Settle, Revoke, RevokeFails, Unfinalize, MarkPending, Create, CreateFails, Record,
        Restart, vars

\* An invite is accounted for by the object, by the worker until it is recorded, or
\* its loss is.
LEMMA AccountedNext ==
    ASSUME IInv, [Next]_vars
    PROVE  InviteAccountedFor'
<1> DEFINE Accounted(i) == (obj.here /\ obj.name = i) \/ (pc = "created" /\ work.name = i)
                          \/ i \in lost \cup crashed
<1>0. TypeOK /\ \A i \in ID : Held(i) => Accounted(i)
    BY DEF IInv, InviteAccountedFor, Held
<1> SUFFICES ASSUME NEW i \in ID, Held(i)'
             PROVE  Accounted(i)'
    BY DEF InviteAccountedFor, Held
<1>1. CASE ~Held(i)
    <2>1. status[i] = "none"
        BY <1>0, <1>1, StatusKept
    <2>2. Issued(i) /\ (Create \/ CreateFails)
        BY <1>0, <2>1, StatusAges DEF Aged, Held, Issued
    <2>3. CASE Create
        <3>1. pc' = "created" /\ work' = [work EXCEPT !.name = i]
            BY <1>0, <2>1, <2>2, <2>3, Issuing DEF Create, Issued
        <3> QED
            BY <1>0, <3>1 DEF TypeOK, Object
    <2>4. CASE CreateFails
        BY <1>0, <2>1, <2>2, <2>4, Issuing DEF CreateFails, Issued
    <2> QED
        BY <2>2, <2>3, <2>4
<1>2. CASE Held(i) /\ i \in lost \cup crashed
    BY <1>2 DEF Next, Environment, Worker, Touch, RequestDelete, AcceptOrExpire, RevokeByHand, Sync,
        Start, Observe, Settle, Revoke, RevokeFails, Recheck, Unfinalize, MarkPending, Create,
        CreateFails, Record, Restart, vars
<1>3. CASE pc = "created" /\ work.name = i
    <2>1. CASE Record
        <3>1. obj'.here /\ obj'.name = i
            BY <1>0, <1>3, <2>1 DEF Record, IInv, CreateHeld, TypeOK, Object
        <3> QED
            BY <3>1
    <2>2. CASE Restart
        BY <1>3, <2>2 DEF Restart
    <2> QED
        BY <1>3, <2>1, <2>2 DEF Next, Environment, Worker, Touch, RequestDelete, AcceptOrExpire,
            RevokeByHand, Sync, Start, Observe, Settle, Revoke, RevokeFails, Recheck, Unfinalize,
            MarkPending, Create, CreateFails, vars
<1>4. CASE Held(i) /\ obj.here /\ obj.name = i
    <2>1. CASE obj' = obj
        BY <1>4, <2>1
    <2>2. CASE RequestDelete
        <3>1. obj.mark # "none"
            BY <1>4, NoNameAssumption DEF IInv, NamesSound, Sound
        <3> QED
            BY <1>0, <1>4, <2>2, <3>1 DEF RequestDelete, TypeOK, Object
    <2>3. CASE Unfinalize /\ fresh
        <3>1. work = obj /\ ~Held(work.name)
            BY <2>3 DEF Unfinalize, IInv, CopiesAgree, WorkerKnows
        <3> QED
            BY <1>4, <3>1
    <2>4. CASE MarkPending /\ fresh
        <3>1. work = obj /\ ~Held(work.name)
            BY <2>4 DEF MarkPending, IInv, CopiesAgree, WorkerKnows
        <3> QED
            BY <1>4, <3>1
    <2>5. CASE CreateFails
        <3>1. obj'.here = obj.here /\ obj'.name = obj.name
            BY <1>0, <2>5 DEF CreateFails, TypeOK, Object
        <3> QED
            BY <1>4, <3>1
    <2>6. CASE Record
        BY <1>4, <2>6 DEF Record, IInv, CreateHeld
    <2> QED
        BY <2>1, <2>2, <2>3, <2>4, <2>5, <2>6
        DEF Next, Environment, Worker, Touch, AcceptOrExpire, RevokeByHand, Sync, Start, Observe,
            Settle, Revoke, RevokeFails, Recheck, Unfinalize, MarkPending, Create, Restart, object, vars
<1> QED
    BY <1>0, <1>1, <1>2, <1>3, <1>4

LEMMA LostNext ==
    ASSUME TypeOK, NamesSound, LostWasIssued, [Next]_vars
    PROVE  LostWasIssued'
<1>1. \A i \in lost \cup crashed : status'[i] # "none"
    BY StatusKept DEF LostWasIssued, TypeOK
<1>2. CASE UNCHANGED <<lost, crashed>>
    BY <1>1, <1>2 DEF LostWasIssued
<1>3. CASE CreateFails
    <2>1. crashed' = crashed /\ (lost' = lost \/ \E i \in ID : Issue(i) /\ lost' = lost \cup {i})
        BY <1>3 DEF CreateFails
    <2> QED
        BY <1>1, <2>1, Issuing DEF LostWasIssued, Issued
<1>4. CASE Restart
    <2>1. /\ lost' = lost /\ status' = status
          /\ crashed' = crashed \/ (pc = "created" /\ crashed' = crashed \cup {work.name})
        BY <1>4 DEF Restart
    <2> QED
        BY <1>1, <2>1 DEF LostWasIssued, NamesSound
<1> QED
    BY <1>2, <1>3, <1>4
    DEF Next, Environment, Worker, Touch, RequestDelete, AcceptOrExpire, RevokeByHand, Sync, Start,
        Observe, Settle, Revoke, RevokeFails, Recheck, Unfinalize, MarkPending, Create, Record, vars

LEMMA CrashNext ==
    ASSUME IInv, [Next]_vars
    PROVE  CrashStops'
<1>0. TypeOK /\ CopiesAgree /\ CreateHeld /\ CrashStops
    BY DEF IInv
<1>1. CASE UNCHANGED <<obj, crashed, pc, work>>
    BY <1>0, <1>1 DEF CrashStops
<1>2. CASE RequestDelete
    BY <1>0, <1>2 DEF RequestDelete, CrashStops, TypeOK, Object
<1>3. CASE Start
    BY <1>0, <1>3 DEF Start, object, CrashStops
<1>4. CASE Observe \/ Settle \/ Revoke \/ RevokeFails \/ Recheck
    <2>1. UNCHANGED <<obj, crashed>> /\ pc \notin {"idle", "creating", "created"}
        BY <1>4 DEF Observe, Settle, Revoke, RevokeFails, Recheck, object
    <2>2. pc' = "idle" \/ (work' = work /\ pc' \notin {"idle", "creating", "created"})
        BY <1>4 DEF Observe, Settle, Revoke, RevokeFails, Recheck, Return
    <2> QED
        BY <1>0, <2>1, <2>2 DEF CrashStops
<1>5. CASE Unfinalize \/ MarkPending
    <2>1. crashed' = crashed /\ pc = "absent" /\ pc' \in {"idle", "creating"}
        BY <1>5 DEF Unfinalize, MarkPending, Return
    <2>2. CASE fresh
        <3>1. crashed = {}
            BY <1>0, <2>1, <2>2 DEF CrashStops, CopiesAgree
        <3> QED
            BY <2>1, <3>1 DEF CrashStops
    <2>3. CASE ~fresh
        <3>1. obj' = obj /\ pc' = "idle"
            BY <1>5, <2>3 DEF Unfinalize, MarkPending, Return, object
        <3> QED
            BY <1>0, <2>1, <3>1 DEF CrashStops
    <2> QED
        BY <2>2, <2>3
<1>6. CASE Create
    BY <1>0, <1>6 DEF Create, CrashStops
<1>7. CASE CreateFails \/ Record
    <2>1. pc \in {"creating", "created"} /\ crashed' = crashed /\ pc' = "idle"
        BY <1>7 DEF CreateFails, Record, Return
    <2> QED
        BY <1>0, <2>1 DEF CrashStops
<1>8. CASE Restart
    <2>1. UNCHANGED obj /\ pc' = "idle" /\ (pc # "created" => crashed' = crashed)
        BY <1>8 DEF Restart, Return, object
    <2> QED
        BY <1>0, <2>1 DEF CrashStops, CreateHeld
<1> QED
    BY <1>1, <1>2, <1>3, <1>4, <1>5, <1>6, <1>7, <1>8
    DEF Next, Environment, Worker, Touch, AcceptOrExpire, RevokeByHand, Sync, object, vars

---------------------------------------------------------------------------
(***************************************************************************)
(* The theorems.                                                           *)
(***************************************************************************)
LEMMA IInvInit == Init => IInv
<1> SUFFICES ASSUME Init PROVE IInv
    OBVIOUS
<1>1. obj.name = NoName /\ cache.name = NoName /\ work.name = NoName /\ NoName \notin ID
    BY NoNameAssumption DEF Init, Blank
<1>2. NamesSound
    BY <1>1 DEF Init, NamesSound, Sound
<1> QED
    BY <1>2, TypeInit DEF Init, IInv, CopiesAgree, WorkerKnows, CreateHeld, ReportedWasIssued,
                          InviteAccountedFor, LostWasIssued, CrashStops

LEMMA IInvNext == IInv /\ [Next]_vars => IInv'
BY TypeNext, CopiesNext, NamesNext, WorkerNext, CreateNext, ReportedNext, AccountedNext,
   LostNext, CrashNext DEF IInv

\* The strengthened invariant always holds.
THEOREM IInvAlways == Spec => []IInv
BY IInvInit, IInvNext, PTL DEF Spec

\* The variables keep their types; a worker that has found or created an invite
\* knows its identifier.
THEOREM TypeCorrect == Spec => []TypeOK
<1>1. IInv => TypeOK
    BY DEF IInv
<1> QED
    BY <1>1, IInvAlways, PTL

\* Observe, Create and Delete together: no invite is out that the object does not
\* name, so nobody is left with a stray one, unless a reply or a name was lost.
THEOREM AllAccountedFor == Spec => []InviteAccountedFor
<1>1. IInv => InviteAccountedFor
    BY DEF IInv
<1> QED
    BY <1>1, IInvAlways, PTL

\* Delete, with its second look: an invite reported as deleted cannot be accepted
\* any more.
THEOREM ReportsAreTrue == Spec => []ReportedIsOver
<1>1. IInv => ReportedIsOver
    BY DEF IInv, ReportedWasIssued, ReportedIsOver
<1> QED
    BY <1>1, IInvAlways, PTL

---------------------------------------------------------------------------
(***************************************************************************)
(* Invite implements Stewardship: somebody holds the invite the object     *)
(* names, or the one just created for it, and no other.                    *)
(***************************************************************************)
Holds == IF pc = "created" THEN work.name ELSE obj.name

Out == {i \in ID : status[i] \in {"pending", "accepted", "expired"}}

Steward ==
    INSTANCE Stewardship
        WITH None    <- NoName,
             here    <- obj.here,
             held    <- Holds,
             live    <- Out,
             orphans <- lost \cup crashed,
             stopped <- crashed # {}

\* A step that Stewardship does not see.
LEMMA Unseen ==
    ASSUME obj'.here = obj.here, Holds' = Holds, Out' = Out, UNCHANGED <<lost, crashed>>
    PROVE  UNCHANGED Steward!svars
BY DEF Steward!svars, Out

\* What becomes of an invite: accepted or expired it is still out, revoked it is not.
LEMMA Retires ==
    ASSUME TypeOK, NEW i \in ID, status[i] = "pending",
           NEW s \in {"accepted", "expired", "deleted"}, Becomes(i, s)
    PROVE  IF s = "deleted" THEN i \in Out /\ Out' = Out \ {i} ELSE Out' = Out
BY DEF TypeOK, Becomes, Out

LEMMA StewardInit == Init => Steward!Init
<1> SUFFICES ASSUME Init PROVE Steward!Init
    OBVIOUS
<1>1. obj.here = TRUE /\ obj.name = NoName /\ pc = "idle" /\ Out = {}
    BY DEF Init, Blank, Out
<1>2. Holds = NoName /\ crashed = {} /\ lost = {}
    BY <1>1 DEF Init, Holds
<1> QED
    BY <1>1, <1>2 DEF Steward!Init, Out

\* An invite is issued while the object holds none.
LEMMA Creates ==
    ASSUME IInv, pc = "creating", NEW i \in ID, Issue(i), UNCHANGED crashed, obj'.here = obj.here,
           \/ Holds' = i /\ UNCHANGED lost
           \/ Holds' = Holds /\ lost' = lost \cup {i}
    PROVE  Steward!Create(i)
<1>1. TypeOK /\ status[i] = "none" /\ \A j \in ID : status'[j] = IF j = i THEN "pending" ELSE status[j]
    BY Issuing DEF IInv, Issue, Issued
<1>2. Out' = Out \cup {i} /\ i \notin Out
    BY <1>1 DEF Out
<1>3. i \notin lost \cup crashed
    BY <1>1 DEF IInv, LostWasIssued
<1>4. obj.here /\ crashed = {} /\ Holds \notin Out
    BY DEF IInv, CreateHeld, CrashStops, Holds, Held, Out
<1> QED
    BY <1>2, <1>3, <1>4 DEF Steward!Create, Out

LEMMA StewardNext == IInv /\ [Next]_vars => [Steward!Next]_(Steward!svars)
<1> SUFFICES ASSUME IInv, [Next]_vars PROVE [Steward!Next]_(Steward!svars)
    OBVIOUS
<1>0. TypeOK /\ obj \in Object /\ work \in Object
    BY DEF IInv, TypeOK
<1>1. CASE UNCHANGED <<obj, status, work, pc, lost, crashed>>
    BY <1>1, Unseen DEF Holds, Out
<1>2. CASE RequestDelete
    <2>1. UNCHANGED <<pc, work, status, lost, crashed>> /\ obj.here /\ obj'.name = obj.name
        BY <1>0, <1>2 DEF RequestDelete, Object
    <2>2. Holds' = Holds
        BY <2>1 DEF Holds
    <2>3. CASE obj.mark # "none"
        <3>1. obj'.here = obj.here
            BY <1>0, <1>2, <2>3 DEF RequestDelete, Object
        <3> QED
            BY <2>1, <2>2, <3>1, Unseen DEF Out
    <2>4. CASE obj.mark = "none"
        <3>1. obj'.here = FALSE
            BY <1>0, <1>2, <2>4 DEF RequestDelete, Object
        <3>2. obj.name = NoName /\ pc # "created"
            BY <2>4 DEF IInv, NamesSound, Sound, CreateHeld
        <3>3. Holds \notin Out
            BY <3>2, NoNameAssumption DEF Holds, Out
        <3>4. Steward!LetGo
            BY <1>0, <2>1, <2>2, <3>1, <3>3 DEF Steward!LetGo, Out, Object
        <3> QED
            BY <3>4 DEF Steward!Next
    <2> QED
        BY <2>3, <2>4
<1>3. CASE AcceptOrExpire \/ RevokeByHand \/ Revoke \/ RevokeFails
    <2>1. UNCHANGED <<obj, lost, crashed>> /\ Holds' = Holds
        BY <1>3 DEF AcceptOrExpire, RevokeByHand, Revoke, RevokeFails, Return, object, Holds
    <2>2. status' = status \/ \E i \in ID, s \in {"accepted", "expired", "deleted"} :
                                status[i] = "pending" /\ Becomes(i, s)
        BY <1>0, <1>3 DEF AcceptOrExpire, RevokeByHand, Revoke, RevokeFails, TypeOK
    <2>3. Out' = Out \/ \E i \in Out : Out' = Out \ {i}
        <3>1. CASE status' = status
            BY <3>1 DEF Out
        <3>2. CASE status' # status
            <4>1. PICK i \in ID, s \in {"accepted", "expired", "deleted"} :
                    status[i] = "pending" /\ Becomes(i, s)
                BY <2>2, <3>2
            <4> QED
                BY <1>0, <4>1, Retires
        <3> QED
            BY <3>1, <3>2
    <2>4. CASE Out' = Out
        BY <2>1, <2>4, Unseen
    <2>5. CASE \E i \in Out : Out' = Out \ {i}
        <3>1. PICK i \in Out : Out' = Out \ {i}
            BY <2>5
        <3>2. i \in ID /\ Steward!Retire(i)
            BY <2>1, <3>1 DEF Steward!Retire, Out
        <3> QED
            BY <3>2 DEF Steward!Next
    <2> QED
        BY <2>3, <2>4, <2>5
<1>4. CASE Start \/ Observe \/ Settle \/ Recheck
    <2>1. UNCHANGED <<obj, status, lost, crashed>> /\ pc # "created" /\ pc' # "created"
        BY <1>4 DEF Start, Observe, Settle, Recheck, Return, object
    <2> QED
        BY <2>1, Unseen DEF Holds, Out
<1>5. CASE Unfinalize /\ fresh
    <2>1. /\ pc = "absent" /\ pc' = "idle" /\ obj' = [work EXCEPT !.here = FALSE]
          /\ UNCHANGED <<status, lost, crashed>>
        BY <1>5 DEF Unfinalize, Return
    <2>2. work = obj /\ obj.here /\ ~Held(obj.name)
        BY <1>5, <2>1 DEF IInv, CopiesAgree, WorkerKnows
    <2>3. obj'.here = FALSE /\ obj'.name = obj.name
        BY <1>0, <2>1, <2>2 DEF Object
    <2>4. Holds' = Holds /\ Holds \notin Out
        BY <2>1, <2>2, <2>3 DEF Holds, Held, Out
    <2>5. Steward!LetGo
        BY <1>0, <2>1, <2>2, <2>3, <2>4 DEF Steward!LetGo, Out, Object
    <2> QED
        BY <2>5 DEF Steward!Next
<1>6. CASE MarkPending /\ fresh
    <2>1. /\ pc = "absent" /\ pc' = "creating" /\ obj' = [work EXCEPT !.mark = "pending"]
          /\ UNCHANGED <<status, lost, crashed>>
        BY <1>6 DEF MarkPending
    <2>2. work = obj
        BY <1>6, <2>1 DEF IInv, CopiesAgree
    <2>3. obj'.here = obj.here /\ obj'.name = obj.name
        BY <1>0, <2>1, <2>2 DEF Object
    <2> QED
        BY <2>1, <2>3, Unseen DEF Holds, Out
<1>7. CASE (Unfinalize \/ MarkPending) /\ ~fresh
    <2>1. UNCHANGED <<obj, status, lost, crashed>> /\ pc = "absent" /\ pc' = "idle"
        BY <1>7 DEF Unfinalize, MarkPending, Return, object
    <2> QED
        BY <2>1, Unseen DEF Holds, Out
<1>8. CASE Create
    <2>1. PICK i \in ID : Issue(i) /\ work' = [work EXCEPT !.name = i]
        BY <1>8 DEF Create
    <2>2. /\ pc = "creating" /\ pc' = "created" /\ UNCHANGED <<obj, lost, crashed>>
          /\ work'.name = i
        BY <1>0, <1>8, <2>1 DEF Create, object, Object
    <2>3. Steward!Create(i)
        BY <2>1, <2>2, Creates DEF Holds
    <2> QED
        BY <2>3 DEF Steward!Next
<1>9. CASE CreateFails
    <2>1. /\ pc = "creating" /\ pc' = "idle" /\ UNCHANGED crashed
          /\ obj'.here = obj.here /\ obj'.name = obj.name
        BY <1>0, <1>9 DEF CreateFails, Return, Object
    <2>2. Holds' = Holds
        BY <2>1 DEF Holds
    <2>3. CASE UNCHANGED <<status, lost>>
        BY <2>1, <2>2, <2>3, Unseen DEF Out
    <2>4. CASE \E i \in ID : Issue(i) /\ lost' = lost \cup {i}
        <3>1. \E i \in ID : Steward!Create(i)
            BY <2>1, <2>2, <2>4, Creates
        <3> QED
            BY <3>1 DEF Steward!Next
    <2> QED
        BY <1>9, <2>3, <2>4 DEF CreateFails
<1>10. CASE Record
    <2>1. /\ pc = "created" /\ pc' = "idle" /\ UNCHANGED <<status, lost, crashed>>
          /\ obj'.here = obj.here /\ obj'.name = work.name
        BY <1>0, <1>10 DEF Record, Return, Object
    <2> QED
        BY <2>1, Unseen DEF Holds, Out
<1>11. CASE Restart /\ pc # "created"
    <2>1. UNCHANGED <<obj, status, lost, crashed>> /\ pc' = "idle"
        BY <1>11 DEF Restart, Return, object
    <2> QED
        BY <1>11, <2>1, Unseen DEF Holds, Out
<1>12. CASE Restart /\ pc = "created"
    <2>1. /\ pc' = "idle" /\ UNCHANGED <<obj, status, lost>> /\ crashed' = crashed \cup {work.name}
        BY <1>12 DEF Restart, Return, object
    <2>2. obj.here /\ crashed = {} /\ obj.name \notin Out
        BY <1>12 DEF IInv, CreateHeld, CrashStops, Held, Out
    <2>3. Holds = work.name /\ Holds' \in (ID \cup {NoName}) \ Out
        BY <1>0, <1>12, <2>1, <2>2 DEF Holds, Object
    <2>4. Steward!Crash
        BY <2>1, <2>2, <2>3 DEF Steward!Crash, Out
    <2> QED
        BY <2>4 DEF Steward!Next
<1> QED
    BY <1>1, <1>2, <1>3, <1>4, <1>5, <1>6, <1>7, <1>8, <1>9, <1>10, <1>11, <1>12
    DEF Next, Environment, Worker, Touch, Sync, vars

\* The reconciler of invites keeps the promise of Stewardship too: an object has
\* one invite out, issues another only when that was revoked, and goes only after
\* it was.
THEOREM Implements == Spec => Steward!Spec
BY IInvAlways, StewardInit, StewardNext, PTL DEF Spec, Steward!Spec
=============================================================================
