-------------------------- MODULE ManagedResource --------------------------
(***************************************************************************)
(* One managed resource of a kind without a parent, from the moment its    *)
(* manifest is applied until its object is gone: the reconciler of         *)
(* internal/controller/<kind>/reconciler.go driven by the managed          *)
(* reconciler of crossplane-runtime (external), the Kubernetes API server  *)
(* with its optimistic lock, the manager's cache the worker reads from,    *)
(* and the Anthropic API the external client calls.                        *)
(*                                                                         *)
(* A single worker reconciles the object (MaxConcurrentReconciles is 1 and *)
(* a leader is elected); users, other controllers and whoever edits        *)
(* Anthropic resources by hand act between any two of its steps, and the   *)
(* process may fail or be restarted between any two of them.               *)
(*                                                                         *)
(* The line numbers of the agent stand for all kinds where the reconcilers *)
(* agree; where they differ, the difference is a field of kind.            *)
(*                                                                         *)
(* The object has the default management policy, everything; one that is   *)
(* only observed, or orphaned when it is deleted, is not modelled.         *)
(***************************************************************************)
EXTENDS Kinds, Naturals

CONSTANTS
    Kinds,        \* the behaviours of kinds to consider
    ID,           \* the identifiers the API gives to external resources
    NoName,       \* the external-name annotation is absent
    ObjectName,   \* the external name that is the name of the object itself
    Val,          \* the values of a field
    Unset,        \* the field is absent
    Missing,      \* the Secret, or its key, is not there
    InitVal,      \* the value every field of the applied manifest has
    Active,       \* the value of the switch that the API starts with
    MaxEdits,     \* bound: edits by others, of object and external resource
    MaxFaults     \* bound: failed calls and restarts

ASSUME KindsAssumption == Kinds \subseteq KindType
ASSUME NamesAssumption == NoName \notin ID /\ ObjectName \notin ID /\ ID # {}
ASSUME ValAssumption   == Unset \notin Val /\ InitVal \in Val /\ Active \in Val
ASSUME MissingAssumption == Missing \notin Val \cup {Unset}
ASSUME BoundAssumption == MaxEdits \in Nat /\ MaxFaults \in Nat

VARIABLES
    kind,      \* the kind of the resource; never changes
    obj,       \* the object in the API server
    secret,    \* what is in the Secret a secret field refers to
    cache,     \* the object as the manager's cache has it
    synced,    \* the cache holds the newest resourceVersion
    pc,        \* where the worker is in a reconcile
    work,      \* the worker's copy of the object
    fresh,     \* that copy has the newest resourceVersion
    seen,      \* what Observe returned
    ext,       \* the external resources
    lost,      \* history: created, but the reply to Create was an error
    crashed,   \* history: created, but the name was never recorded
    edits, faults

vars == <<kind, obj, secret, cache, synced, pc, work, fresh, seen, ext,
          lost, crashed, edits, faults>>

---------------------------------------------------------------------------
Value == Val \cup {Unset}
Name  == ID \cup {NoName, ObjectName}
Mark  == {"none", "pending", "failed", "succeeded"}
State == {"none", "live", "archived", "deleted"}
PC    == {"idle", "read", "initialized", "observed", "finalized",
          "creating", "created", "createfailed"}

Object ==
    [here: BOOLEAN, deleting: BOOLEAN, fin: BOOLEAN, name: Name, mark: Mark,
     spec: [kind.slots -> Value]]

External ==
    [st: State, ours: BOOLEAN, ver: Nat, val: [kind.slots -> Value]]

Observation ==
    [exists: BOOLEAN, drift: SUBSET Slot, ver: Nat, val: [kind.slots -> Value]]

Blank(k) ==
    [here |-> FALSE, deleting |-> FALSE, fin |-> FALSE,
     name |-> NoName, mark |-> "none", spec |-> [s \in k.slots |-> Unset]]

NoExternal(k) ==
    [st |-> "none", ours |-> FALSE, ver |-> 0,
     val |-> [s \in k.slots |-> Unset]]

NotSeen(k) ==
    [exists |-> FALSE, drift |-> {}, ver |-> 0, val |-> [s \in k.slots |-> Unset]]

---------------------------------------------------------------------------
(***************************************************************************)
(* What the external client computes.                                      *)
(***************************************************************************)

\* Mutant of Named: only a name this provider has recorded counts.
NamedIfCreated(o) == o.name \in ID /\ o.mark = "succeeded"

\* The external name is set, and is not the name of the object.
Named(o) == o.name \in ID

Live(n) == n \in ID /\ ext[n].st = "live"

\* Mutant of Exists: ArchivedAt is not looked at.
ExistsThoughArchived(n) == n \in ID /\ ext[n].st \in {"live", "archived"}

\* What Observe takes for an existing external resource.
Exists(n) ==
    /\ n \in ID
    /\ \/ ext[n].st = "live"
       \/ ext[n].st = "archived" /\ ~kind.archivable

\* A secret that is referred to and not there is an error.
Readable == "secret" \in kind.slots => secret # Missing

\* The values asked for; a secret is read when it is needed.
Desired(o) == [s \in kind.slots |-> IF s = "secret" THEN secret ELSE o.spec[s]]

\* An absent field is not sent, and the API leaves it alone; the switch is
\* turned when it was seen in the other position.
Apply(o, slots, val) ==
    [s \in kind.slots |->
        IF /\ s \in slots
           /\ Desired(o)[s] # Unset
           /\ s = "switch" => Desired(o)[s] # seen.val[s]
        THEN Desired(o)[s]
        ELSE val[s]]

\* Mutant of Drift: a field the object does not set is compared as well.
DriftOfAbsent(o, val) ==
    {s \in kind.slots \ {"blind", "late"} : kind.updates /\ Desired(o)[s] # val[s]}

\* The slots a diff of the object against the external values reports.
Drift(o, val) ==
    {s \in kind.slots \ {"blind", "late"} :
        /\ kind.updates
        /\ Desired(o)[s] # Unset
        /\ Desired(o)[s] # val[s]
        /\ s = "sparse" => val[s] # Unset}

---------------------------------------------------------------------------
(***************************************************************************)
(* The environment.                                                        *)
(***************************************************************************)

\* The external resource a manifest may import; the identifiers are opaque.
Imported == CHOOSE i \in ID : TRUE

\* A manifest as the user applies it: new, or importing a live external
\* resource through the external-name annotation.
Init ==
    /\ kind \in Kinds
    /\ \E n \in {NoName, Imported}, v \in Val :
        /\ obj = [Blank(kind) EXCEPT !.here = TRUE, !.name = n,
                     !.spec = [s \in kind.slots |-> IF s = "secret" THEN Unset ELSE InitVal]]
        /\ ext = [i \in ID |->
                    IF i = n
                    THEN [NoExternal(kind) EXCEPT !.st = "live",
                              !.val = [s \in kind.slots |-> v]]
                    ELSE NoExternal(kind)]
    /\ secret = InitVal
    /\ cache = obj /\ synced = TRUE
    /\ pc = "idle" /\ work = Blank(kind) /\ fresh = FALSE /\ seen = NotSeen(kind)
    /\ lost = {} /\ crashed = {}
    /\ edits = 0 /\ faults = 0

\* Somebody else writes the object: the worker's copy and the cache are old.
Overtake(o) ==
    /\ edits < MaxEdits
    /\ edits' = edits + 1
    /\ obj' = o
    /\ synced' = FALSE /\ fresh' = FALSE
    /\ UNCHANGED <<kind, secret, cache, pc, work, seen, ext, lost, crashed, faults>>

\* A user changes a field.
EditSpec ==
    /\ obj.here
    /\ \E s \in kind.slots \ {"secret"}, v \in Value :
        v # obj.spec[s] /\ Overtake([obj EXCEPT !.spec[s] = v])

\* A write that touches nothing modelled here, such as a label.
Touch == obj.here /\ Overtake(obj)

EditSecret ==
    /\ edits < MaxEdits
    /\ "secret" \in kind.slots
    /\ \E v \in (Value \cup {Missing}) \ {secret} : secret' = v
    /\ edits' = edits + 1
    /\ UNCHANGED <<kind, obj, cache, synced, pc, work, fresh, seen, ext, lost,
                   crashed, faults>>

\* kubectl delete: without a finalizer the object goes at once.
RequestDelete ==
    /\ obj.here /\ ~obj.deleting
    /\ obj' = IF obj.fin THEN [obj EXCEPT !.deleting = TRUE] ELSE [obj EXCEPT !.here = FALSE]
    /\ synced' = FALSE /\ fresh' = FALSE
    /\ UNCHANGED <<kind, secret, cache, pc, work, seen, ext, lost, crashed, edits, faults>>

\* The external resource becomes e.
Replace(i, e) == ext' = [ext EXCEPT ![i] = e]

\* The API counts the versions of a resource.
Changed(e, val) ==
    [e EXCEPT !.val = val, !.ver = IF val = e.val THEN @ ELSE @ + 1]

\* To remove what is not live any more changes nothing.
Removed(e, p) ==
    [e EXCEPT !.st = IF @ # "live" THEN @ ELSE IF p = "archive" THEN "archived" ELSE "deleted"]

\* Somebody edits, archives or deletes the external resource by hand.
OutOfBand ==
    /\ edits < MaxEdits
    /\ edits' = edits + 1
    /\ \E i \in ID :
        /\ ext[i].st = "live"
        /\ \/ \E s \in kind.slots, v \in Value :
                /\ v # ext[i].val[s] /\ (s = "switch" => v # Unset)
                /\ Replace(i, Changed(ext[i], [ext[i].val EXCEPT ![s] = v]))
           \/ \E p \in kind.removal : Replace(i, Removed(ext[i], p))
    /\ UNCHANGED <<kind, obj, secret, cache, synced, pc, work, fresh, seen, lost,
                   crashed, faults>>

\* The watch brings the cache up to date.
Sync ==
    /\ ~synced
    /\ cache' = obj /\ synced' = TRUE
    /\ UNCHANGED <<kind, obj, secret, pc, work, fresh, seen, ext, lost, crashed,
                   edits, faults>>

---------------------------------------------------------------------------
(***************************************************************************)
(* The worker.                                                             *)
(***************************************************************************)

\* The reconcile ends, by returning or by failing; the next one starts over.
Return ==
    /\ pc' = "idle" /\ work' = Blank(kind) /\ fresh' = FALSE /\ seen' = NotSeen(kind)

\* The worker writes its copy, as o: a conflict unless the copy is current.
Write(o, next) ==
    IF fresh
    THEN /\ obj' = o /\ work' = o /\ pc' = next
         /\ synced' = FALSE
         /\ UNCHANGED <<fresh, seen>>
    ELSE Return /\ UNCHANGED <<obj, synced>>

\* As Write, of a copy that may be what the API server has already.
Rewrite(next) ==
    IF fresh
    THEN pc' = next /\ synced' \in {synced, FALSE} /\ UNCHANGED <<obj, work, fresh, seen>>
    ELSE Return /\ UNCHANGED <<obj, synced>>

Start ==
    /\ pc = "idle" /\ cache.here
    /\ pc' = "read" /\ work' = cache /\ fresh' = synced
    /\ UNCHANGED <<kind, obj, secret, cache, synced, seen, ext, lost, crashed,
                   edits, faults>>

\* The tags initializer always writes, the same tags each time; the default one
\* only when it has a name to give.
Initialize ==
    /\ pc = "read"
    /\ \/ kind.tagged /\ Rewrite("initialized")
       \/ ~kind.tagged /\ work.name = NoName
            /\ Write([work EXCEPT !.name = ObjectName], "initialized")
       \/ ~kind.tagged /\ work.name # NoName
            /\ pc' = "initialized" /\ UNCHANGED <<obj, synced, work, fresh, seen>>
    /\ UNCHANGED <<kind, secret, cache, ext, lost, crashed, edits, faults>>

\* A creation whose end was never recorded: a human has to look.
RefuseIncomplete ==
    /\ pc = "initialized" /\ work.mark = "pending"
    /\ Return
    /\ UNCHANGED <<kind, obj, secret, cache, synced, ext, lost, crashed, edits, faults>>

\* Get finds the resource, and the object is compared with it; or it does not.
Sight(o) ==
    IF Named(o) /\ Exists(o.name)
    THEN [exists |-> TRUE, drift |-> Drift(o, ext[o.name].val),
          ver |-> ext[o.name].ver, val |-> ext[o.name].val]
    ELSE NotSeen(kind)

\* Mutant of Observe: the pending annotation is not looked at.
ObserveThoughPending ==
    /\ pc = "initialized"
    /\ Sight(work).exists => Readable
    /\ pc' = "observed" /\ seen' = Sight(work)
    /\ UNCHANGED <<kind, obj, secret, cache, synced, work, fresh, ext, lost,
                   crashed, edits, faults>>

\* Mutant of Observe: any error of Get is taken for "not found".
ObserveSwallowsErrors ==
    /\ pc = "initialized" /\ work.mark # "pending"
    /\ Sight(work).exists => Readable
    /\ pc' = "observed" /\ seen' \in {NotSeen(kind), Sight(work)}
    /\ UNCHANGED <<kind, obj, secret, cache, synced, work, fresh, ext, lost,
                   crashed, edits, faults>>

\* Connect and Observe.
Observe ==
    /\ pc = "initialized" /\ work.mark # "pending"
    /\ Sight(work).exists => Readable
    /\ pc' = "observed" /\ seen' = Sight(work)
    /\ UNCHANGED <<kind, obj, secret, cache, synced, work, fresh, ext, lost,
                   crashed, edits, faults>>

\* The secret of what exists is read too, also for an object to be deleted; and
\* it is read again to be sent.
SecretMissing ==
    /\ ~Readable
    /\ \/ pc = "initialized" /\ work.mark # "pending" /\ Sight(work).exists
       \/ pc = "finalized" /\ seen.exists /\ seen.drift # {}
    /\ Return
    /\ UNCHANGED <<kind, obj, secret, cache, synced, ext, lost, crashed, edits, faults>>

\* Delete archives or deletes, by kind and policy; to find nothing is fine.
Delete ==
    /\ pc = "observed" /\ work.deleting /\ seen.exists
    /\ \E p \in kind.removal : Replace(work.name, Removed(ext[work.name], p))
    /\ Return
    /\ synced' \in {synced, FALSE}
    /\ UNCHANGED <<kind, obj, secret, cache, lost, crashed, edits, faults>>

\* Nothing is left outside: the finalizer goes, and the object with it.
Unfinalize ==
    /\ pc = "observed" /\ work.deleting /\ ~seen.exists
    /\ IF fresh
       THEN /\ obj' = [work EXCEPT !.fin = FALSE, !.here = FALSE]
            /\ synced' = FALSE
       ELSE UNCHANGED <<obj, synced>>
    /\ Return
    /\ UNCHANGED <<kind, secret, cache, ext, lost, crashed, edits, faults>>

AddFinalizer ==
    /\ pc = "observed" /\ ~work.deleting
    /\ IF work.fin
       THEN pc' = "finalized" /\ UNCHANGED <<obj, synced, work, fresh, seen>>
       ELSE Write([work EXCEPT !.fin = TRUE], "finalized")
    /\ UNCHANGED <<kind, secret, cache, ext, lost, crashed, edits, faults>>

\* The object is annotated before Create is called.
MarkPending ==
    /\ pc = "finalized" /\ ~seen.exists
    /\ Write([work EXCEPT !.mark = "pending"], "creating")
    /\ UNCHANGED <<kind, secret, cache, ext, lost, crashed, edits, faults>>

\* What an external resource has of what is not sent.
Default == [s \in kind.slots |-> IF s = "switch" THEN Active ELSE Unset]

NewExternal ==
    [NoExternal(kind) EXCEPT !.st = "live", !.ours = TRUE,
        !.val = Apply(work, kind.slots \ {"late", "switch"}, Default)]

Unused(i) == ext[i].st = "none"

\* Mutant of Create: the external name is not set.
CreateForgetsName ==
    /\ pc = "creating" /\ Readable
    /\ \E i \in ID :
        /\ Unused(i)
        /\ i = CHOOSE j \in ID : Unused(j)
        /\ Replace(i, NewExternal)
    /\ pc' = "created"
    /\ UNCHANGED <<kind, obj, secret, cache, synced, work, fresh, seen, lost,
                   crashed, edits, faults>>

Create ==
    /\ pc = "creating" /\ Readable
    /\ \E i \in ID :
        /\ Unused(i)
        /\ i = CHOOSE j \in ID : Unused(j)
        /\ Replace(i, NewExternal)
        /\ work' = [work EXCEPT !.name = i]
    /\ pc' = "created"
    /\ UNCHANGED <<kind, obj, secret, cache, synced, fresh, seen, lost, crashed,
                   edits, faults>>

\* Without its secret nothing is created.
CreateRefused ==
    /\ pc = "creating" /\ ~Readable
    /\ pc' = "createfailed"
    /\ UNCHANGED <<kind, obj, secret, cache, synced, work, fresh, seen, ext, lost,
                   crashed, edits, faults>>

\* The call fails before, or after, the API has created the resource.
CreateFails ==
    /\ pc = "creating" /\ faults < MaxFaults
    /\ faults' = faults + 1
    /\ pc' = "createfailed"
    /\ \/ UNCHANGED <<ext, lost>>
       \/ \E i \in ID :
            /\ Readable /\ Unused(i)
            /\ i = CHOOSE j \in ID : Unused(j)
            /\ Replace(i, NewExternal)
            /\ lost' = lost \cup {i}
    /\ UNCHANGED <<kind, obj, secret, cache, synced, work, fresh, seen, crashed, edits>>

\* The critical annotations are written over whatever the object is by now.
Record ==
    /\ pc \in {"created", "createfailed"}
    /\ obj' = [obj EXCEPT !.name = work.name,
                  !.mark = IF pc = "created" THEN "succeeded" ELSE "failed"]
    /\ synced' = FALSE
    /\ Return
    /\ UNCHANGED <<kind, secret, cache, ext, lost, crashed, edits, faults>>

\* Mutant of Send: the version seen is not sent.
SendUnlocked(slots) ==
    IF Live(work.name)
    THEN Replace(work.name,
                 Changed(ext[work.name], Apply(work, slots, ext[work.name].val)))
    ELSE UNCHANGED ext

\* Mutant of Send: the secret is not resolved, so not sent.
SendWithoutSecret(slots) ==
    IF Live(work.name) /\ (kind.locked => ext[work.name].ver = seen.ver)
    THEN Replace(work.name,
                 Changed(ext[work.name],
                         Apply(work, slots \ {"secret"}, ext[work.name].val)))
    ELSE UNCHANGED ext

\* A locked kind names the version seen, and a resource that is not live, or
\* at another version, is not changed.
Send(slots) ==
    IF Live(work.name) /\ (kind.locked => ext[work.name].ver = seen.ver)
    THEN Replace(work.name,
                 Changed(ext[work.name], Apply(work, slots, ext[work.name].val)))
    ELSE UNCHANGED ext

\* Update sends every field it knows.
Update ==
    /\ pc = "finalized" /\ seen.exists /\ seen.drift # {} /\ Readable
    /\ Send(kind.slots \ {"frozen"})
    /\ Return
    /\ synced' \in {synced, FALSE}
    /\ UNCHANGED <<kind, obj, secret, cache, lost, crashed, edits, faults>>

\* The switch has an endpoint of its own, called last: that call may fail.
UpdateFails ==
    /\ pc = "finalized" /\ seen.exists /\ seen.drift # {}
    /\ faults < MaxFaults /\ "switch" \in kind.slots /\ Readable
    /\ faults' = faults + 1
    /\ Send(kind.slots \ {"frozen", "switch"})
    /\ Return
    /\ UNCHANGED <<kind, obj, secret, cache, synced, lost, crashed, edits>>

\* Nothing to do but to report the status.
Settle ==
    /\ pc = "finalized" /\ seen.exists /\ seen.drift = {}
    /\ Return
    /\ synced' \in {synced, FALSE}
    /\ UNCHANGED <<kind, obj, secret, cache, ext, lost, crashed, edits, faults>>

\* A call fails, or the process is restarted, anywhere in a reconcile.
Abandon ==
    /\ pc # "idle" /\ faults < MaxFaults
    /\ faults' = faults + 1
    /\ crashed' = IF pc = "created" THEN crashed \cup {work.name} ELSE crashed
    /\ Return
    /\ UNCHANGED <<kind, obj, secret, cache, synced, ext, lost, edits>>

---------------------------------------------------------------------------
Environment == EditSpec \/ Touch \/ EditSecret \/ RequestDelete \/ OutOfBand

Worker ==
    \/ Start \/ Initialize \/ RefuseIncomplete \/ Observe \/ SecretMissing \/ Delete
    \/ Unfinalize \/ AddFinalizer \/ MarkPending \/ Create \/ CreateRefused \/ Record
    \/ Update \/ Settle

Next == Environment \/ Sync \/ Worker \/ CreateFails \/ UpdateFails \/ Abandon

Spec == Init /\ [][Next]_vars

(***************************************************************************)
(* The workqueue comes back to the object after every error, poll interval *)
(* and resync, and the watch stays connected.                              *)
(***************************************************************************)
FairSpec == Spec /\ WF_vars(Worker) /\ WF_vars(Sync)
---------------------------------------------------------------------------
(***************************************************************************)
(* Properties.                                                             *)
(***************************************************************************)

\* The variables hold what their declarations say.
TypeOK ==
    /\ kind \in Kinds
    /\ obj \in Object /\ cache \in Object /\ work \in Object
    /\ secret \in Value \cup {Missing}
    /\ synced \in BOOLEAN /\ fresh \in BOOLEAN
    /\ pc \in PC /\ (pc = "created" => work.name \in ID)
    /\ seen \in Observation
    /\ ext \in [ID -> External]
    /\ lost \subseteq ID /\ crashed \subseteq ID
    /\ edits \in 0..MaxEdits /\ faults \in 0..MaxFaults

\* Create may be called, or its outcome is not recorded yet.
InCreate == pc \in {"creating", "created", "createfailed"}

\* No external resource is leaked: each one the provider created and that is
\* still live is the one the object names, or is about to be recorded as such,
\* or its creation was cut short by a lost reply or a restart.  In particular
\* no second one is created while the first is live.
Tracked ==
    \A i \in ID :
        ext[i].st = "live" /\ ext[i].ours =>
            \/ obj.here /\ obj.name = i
            \/ pc = "created" /\ work.name = i
            \/ i \in lost \cup crashed

\* A creation of which the name was not recorded is never repeated, nor is the
\* object let go: the pending annotation written before Create was called
\* stops every later reconcile, so at most one resource is orphaned this way.
CrashBlocksCreation ==
    crashed # {} =>
        /\ obj.here /\ obj.mark = "pending"
        /\ ~InCreate
        /\ \E i \in ID : crashed = {i}

\* Nothing live, created or imported, is under the object's external name from
\* the moment Create may be called until the new name replaces it.
NoSecondCopy ==
    InCreate => ~Live(obj.name)

\* The finalizer is given up only when nothing is left under the object's
\* external name, though the observation that says so may be old by then.
FinalizerGuards == [][obj.fin /\ ~obj'.fin => ~Live(obj.name)]_vars

\* An update of a kind with a version lock (the agent) overwrites only the
\* values the same reconcile has observed: an edit made by hand in between is
\* not lost unseen.
NoBlindOverwrite ==
    [][kind.locked /\ pc = "finalized" /\ pc' = "idle" =>
        \A i \in ID : ext'[i].val = ext[i].val \/ ext[i].val = seen.val]_vars

Stuck == obj.mark = "pending"

Converged ==
    /\ Live(obj.name) /\ ~obj.deleting
    /\ kind.updates =>
        \A s \in kind.slots \cap {"plain", "sparse", "secret", "switch"} :
            \/ Desired(obj)[s] \in {Unset, ext[obj.name].val[s]}
            \/ s = "sparse" /\ ext[obj.name].val[s] = Unset

\* An object that is to be deleted goes, unless a creation was cut short, or the
\* Secret it refers to was deleted first: Observe needs it even then, but only as
\* long as there is an external resource to be removed.
DeletionCompletes == <>[](obj.here /\ obj.deleting => Stuck \/ (~Readable /\ Exists(obj.name)))

\* Once users and faults come to rest, so does the provider: the object is
\* gone, or waits for a human or for its Secret, or its external resource is live
\* and has every value asked for that the diff can tell.
Converges == <>[](~obj.here \/ Stuck \/ ~Readable \/ Converged)

\* And it stops calling Update, unless the kind has fields that are compared
\* and never sent.
ComesToRest == "frozen" \notin kind.slots => <>[][~Update]_vars

\* "Immutable fields ... are included in the diff but never reported as drift
\* because the API ensures they never change after creation"
\* (session/reconciler.go:229), of the sessions this provider created.
FrozenNeverDrifts ==
    seen.exists /\ ext[work.name].ours => "frozen" \notin seen.drift

---------------------------------------------------------------------------
(***************************************************************************)
(* What makes the safety properties inductive.                             *)
(***************************************************************************)

\* A current copy is the object itself.
CopiesAgree ==
    /\ synced => cache = obj
    /\ fresh /\ pc # "created" => pc # "idle" /\ work = obj

\* A name that is an identifier has been used: Create cannot give it out again.
Used(n) == n \in ID => ext[n].st # "none"

NamesUsed == Used(obj.name) /\ Used(cache.name) /\ Used(work.name)

\* What the worker has established before it goes on.
WorkerKnows ==
    /\ pc # "idle" => work.here
    /\ pc \in {"observed", "finalized"} =>
        work.mark # "pending" /\ (~seen.exists => ~Live(work.name))
    /\ pc = "finalized" => work.fin

\* While Create runs the object is held by its finalizer and marked.
CreateHeld ==
    InCreate => obj.here /\ obj.fin /\ obj.mark = "pending" /\ crashed = {}

\* Nothing is created for an object without a finalizer.
CreatedIsFinalized ==
    obj.here /\ (crashed # {} \/ \E i \in ID : ext[i].ours) => obj.fin

Inv ==
    /\ TypeOK /\ CopiesAgree /\ NamesUsed /\ WorkerKnows /\ CreateHeld
    /\ CreatedIsFinalized /\ NoSecondCopy /\ Tracked /\ CrashBlocksCreation

\* The external resource is at the version observed or at a later one, and at
\* that version it has the values observed.
SeenAtVersion ==
    pc \in {"observed", "finalized"} /\ seen.exists =>
        /\ work.name \in ID
        /\ ext[work.name].ver >= seen.ver
        /\ ext[work.name].ver = seen.ver => ext[work.name].val = seen.val

---------------------------------------------------------------------------
(***************************************************************************)
(* The promise of module Stewardship, seen here: the resource the object   *)
(* stands for is the one it names, or the one just created for it.         *)
(***************************************************************************)
Holds == IF pc = "created" THEN work.name ELSE IF obj.name \in ID THEN obj.name ELSE NoName

Steward ==
    INSTANCE Stewardship
        WITH None    <- NoName,
             here    <- obj.here,
             held    <- Holds,
             live    <- {i \in ID : ext[i].st = "live" /\ ext[i].ours},
             orphans <- lost \cup crashed,
             stopped <- crashed # {}

\* The reconcilers keep the promise, whatever is stale, fails or is interrupted:
\* every step is one that Stewardship allows, or changes nothing it speaks of.
KeepsPromise == Steward!Spec
============================================================================
