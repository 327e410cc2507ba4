# A verification project for provider-anthropic

provider-anthropic is a Crossplane provider: a Kubernetes operator that keeps
resources of the Anthropic API (agents, sessions, workspaces, ...) as Kubernetes
objects ask for them. This directory holds TLA+ models of its controllers, the
TLC runs that check them on small instances, and machine-checked proofs: of the
safety properties of every controller's model, for all sizes of the instance; that
the controller most kinds share, and that of invites, implement one short abstract
specification of what a managed resource promises; and, for manifests of any size,
that the conversions put secrets where they belong and make nothing up.

Paths are relative to `src/`. `PROJECT.json` says for every definition which
lines it stands for.

## 1. The system

A user applies an object (say an `Agent`). One controller per kind runs the
*managed reconciler* of crossplane-runtime (external), which calls the external
client of that kind (`internal/controller/<kind>/reconciler.go`): `Connect`,
`Observe`, then one of `Create`, `Update`, `Delete`. What the provider knows of
an external resource is kept in the object: the `external-name` annotation (the
identifier the API gave), the external-create annotations (pending, succeeded,
failed), the finalizer, and `status.atProvider` (the last observation).

| Part | Code | State it keeps | What it does | What makes it correct |
|---|---|---|---|---|
| 12 kinds without a parent: agent, deployment, dream, environment, externalkey, federationissuer, federationrule, memorystore, serviceaccount, session, vault, workspace | `internal/controller/<kind>`, `apis/*/v1beta1/<kind>_conversion.go` | the object | one create, read, update, archive or delete; a diff of JSON | one external resource per object; nothing leaked; the finalizer holds until it is gone; it becomes what is asked for; updates end |
| skill | `internal/controller/skill`, `internal/capabilities/fs.go` | the object, with a hash; a directory on disk | uploads the files of a Secret as versions of a skill | the hash is of what was uploaded; no needless version; the last version is the Secret's |
| invite | `internal/controller/invite` | the object | issues and revokes invites, which others accept | nobody holds a stray invite; what is reported as revoked cannot be accepted |
| 3 children: workspacemember, vaultcredential, memorystorememory | `internal/controller/<kind>` | the object, with the identifier of its parent | as above, inside a parent | no orphan in a live parent; deletion ends also when the parent went first |
| conversions | `apis/*/v1beta1/<kind>_conversion.go` | none | make requests of manifests and statuses of answers, union by union | nothing made up, nothing dropped; secrets where they belong |
| drift comparison | `internal/clients/diff.go` | none | `IsSubsetEqual(desired, observed)` | reports what Update can repair, and all of it |
| secrets | `internal/clients/secrets.go` | none | reads a Secret at each use | the newest value is sent in the end |
| API client | `internal/clients/anthropic.go` | one client per federation identity; a usage per object | reads the ProviderConfig, records its use, builds a client | a one-use token is exchanged once; calls go where the ProviderConfig says |
| initializer | `internal/initializer/metadata.go` | the object | writes default tags before anything else | idempotent; a conflict is harmless |
| references | `internal/extractors`, `apis/*/v1beta1/zz_generated.resolvers.go` | the object | copies the identifier of another object | nothing is sent unresolved; followed as the policy says; not for deletion |
| set-up | `internal/controller/setup.go`, `cmd/provider/main.go` | none | registers controllers, each when its CRD is there | one worker, one leader |
| providerconfig | `internal/controller/providerconfig` | the ProviderConfig's finalizer | registers crossplane-runtime's reconciler | a ProviderConfig outlives its uses, and goes after them |

**How they interact.** The object in the API server is shared by users, by other
controllers and by the worker, under an optimistic lock (`resourceVersion`); the
worker reads it from a cache that may be old. The external resource is shared by
the worker and by whoever uses the console; only agents have a version lock. A
Secret is read afresh at each use. The staging directory of a skill is on disk
and outlives the process. A child reads the status of its parent's object, once.

A reconcile passes through the components in this order: the references of the
object are resolved from the statuses of others and written to it; `Connect` has
`NewClient` read the ProviderConfig, record the use and build or take a client;
the first call of a client exchanges the token file; then the managed reconciler
goes its way, and the conversions and the comparison run inside it. Two
controllers share nothing but the process-wide map of clients, the token files
that the kubelet rotates, the ProviderConfigs and the statuses they read of each
other's objects.

**What is hard.** There is one worker per controller, so controllers do not race
themselves. Everything else moves between any two of its steps: the object is
edited, deleted, or read stale; the external resource is edited, archived or
deleted by hand; the Secret changes or disappears; a call fails after it has
done its work; the process restarts. Nothing is transactional: a creation is
recorded after it has happened, an upload is hashed into a status that may be
lost, a deployment is updated in two calls. `PROJECT.json` lists these places
under `hazards`.

## 2. The modules

| Module | Models | Runs and proofs |
|---|---|---|
| `Kinds` | what the external clients and conversions of the 12 kinds do differently | used by `ManagedResource` |
| `ManagedResource` | one object of one kind, its controller, the API server, the cache and the Anthropic API | `MCManagedResource*`, `ManagedResourceProofs` |
| `MCManagedResource` | the instances of it for TLC | |
| `ManagedResourceProofs` | theorems about `ManagedResource`, and that it implements `Stewardship` | TLAPS |
| `SkillVersions` | one skill, its Secret, the staging directory | `MCSkillVersions*`, `SkillVersionsProofs` |
| `Invite` | one invite and the person invited | `MCInvite*`, `InviteProofs` |
| `ChildResource` | one child of three kinds and its parents | `MCChildResource`, `ChildResourceProofs` |
| `Stewardship` | the promise: at most one live resource, never lost sight of but by two faults | abstract specification of `ManagedResource` and `Invite` |
| `Trees` | nested values as JSON has them, and the drift comparison | used by the next four |
| `AgentConversion`, `DeploymentConversion`, `CredentialConversion` | the conversions of agent; of deployment, session and environment; of vault credential | used by `Conversion` |
| `Conversion` | one resource of these kinds between manifest and API, at full depth | `MCConversion`, `ConversionProofs`, `UpdateProofs`, `SettlingProofs` |
| `MCConversion` | its manifests for TLC: every variant of every union; the comparison as the code recurses | |
| `ConversionProofs`, `UpdateProofs`, `SettlingProofs` | theorems about `Conversion`: what is sent, what an update would change, and that one request is enough | TLAPS |
| `ProviderAccess` | ProviderConfigs, clients, token files | used by `Dependencies` |
| `Dependencies` | several objects that refer to one another, each with its controller, over `ProviderAccess` | `MCDependencies`, `DependenciesProofs` |
| `MCDependencies` | two objects and two ProviderConfigs for TLC | |
| `SkillVersionsProofs`, `InviteProofs`, `ChildResourceProofs`, `DependenciesProofs` | theorems about these four modules | TLAPS |

An operator whose comment begins "Mutant of X" is X with a plausible bug; it is
no part of the specification. Each property is broken by one of them, which
shows that the property depends on that piece of code.

### Kinds and ManagedResource

The twelve reconcilers are one program written twelve times. `<Kind>Client`
records what a reconciler does (is `ArchivedAt` looked at, does Delete archive or
delete or let the policy choose, is there an update, is it locked, is the
initializer replaced), `<Kind>Fields` how the conversions treat each field. Fields
treated alike cannot be told apart by the reconciler, so a kind keeps one
representative, a *slot*, of each treatment that occurs in it: `plain`; `sparse`
(an empty external value leaves no key to compare with); `frozen` (compared,
never sent again); `blind` (sent, never compared); `late` (sent by Update only);
`switch` (the pause state, with endpoints of its own); `secret`. The many
parameters of the conversions come down to these sets of names.

State: `obj` is the object in the API server (present, being deleted, finalizer,
external name, external-create annotation, `spec.forProvider`); `cache` what the
informer has, with `synced`; `work` the worker's copy, with `fresh` saying that
its resourceVersion is current; `secret`; `ext` the external resources, by
identifier; `pc` and `seen` where the reconcile is and what Observe returned.
`lost` and `crashed` are history: resources created of which the reply, or the
record, was lost.

| Action | Code |
|---|---|
| `Start`, `RefuseIncomplete`, `AddFinalizer`, `MarkPending`, `Record`, `Unfinalize`, `Settle` | crossplane-runtime, in its order |
| `Initialize` | the tags initializer, or the default one that seeds the name (`Setup` of each kind) |
| `Observe`, `SecretMissing` | `external.Observe`, from `external.Connect` on |
| `Create`, `CreateRefused`, `CreateFails` | `external.Create`: it succeeds, lacks its Secret, fails before or after the API has acted |
| `Update`, `UpdateFails` | `external.Update`; the second call of a deployment may fail |
| `Delete` | `external.Delete`, by policy |
| `Abandon` | any other error, a timeout, a restart, anywhere |
| `EditSpec`, `Touch`, `EditSecret`, `RequestDelete`, `OutOfBand`, `Sync` | users, other writers, the console, the watch |

Abstractions: a value is one of two, or absent; the status subresource is not
kept, because Observe overwrites it before anything reads it (`synced'` may become
false where it is written); writes of the same content are not conflicts; 409,
429 and 5xx are one kind of failure; the resource tokens that deployments and
sessions read from Secrets only ever make a call fail, which `CreateFails` and
`Abandon` cover. To remove a resource that is archived already is taken to
succeed or to find nothing. The API is assumed never to give an identifier twice.

### SkillVersions

The content of the Secret stands for its own hash. `disk[c]` is the set of files
staged under the hash of `c`, or `None` when the directory does not exist;
`StageFile` writes one file, in any order (the code ranges over a map), and
`StageFails` and `Restart` may stop between two. `Upload` sends what
`CollectReaders` finds. `Record` and `Save` are the two writes after Create (the
annotations, then the status), `Save` alone the one after Update: the first is
retried on a conflict with a copy that is read again, and loses the status; the
second is not retried. The first loses the status also without any conflict when a
skill is created anew, because Create sets the hash in memory only
(`skill/reconciler.go:208`) and the answer of the API server, read into the same
object, brings back the hash recorded for the skill before (`Kept`). `unsaved`
remembers the uploads since the last recorded one of which the status was lost,
`cut` that staging stopped half way. The finalizer and the pending annotation are one write here, and a missing
Secret is left to the other modules.

### Invite

`status[i]` is the API's. `AcceptOrExpire` may happen at any moment; `Revoke`,
`RevokeFails` and `Recheck` are the two calls of Delete. The name initializer, the
finalizer and the pending annotation are one write. `lost` and `crashed` are history,
as in `ManagedResource`: invites of which the reply, or the record, was lost.

### ChildResource

The parent is `live`, `archived` or `deleted`; `ref` is the identifier that the
parent's object reports, which the child copies once (`Resolve`). An archived
workspace refuses calls about its members with an error other than 404
(`workspacemember/reconciler.go:130`), after which the client looks at the
workspace (`LookAtParent`). What archived vaults and memory stores answer the
code does not say, so the model allows both. To keep to what is new, the worker
reads the API server and not an old cache, all that is compared is one value, and
a child is created rather than imported.

### Stewardship

Five variables: the object is `here`, the resource it stands for is `held`, the
resources created for it and `live`, the `orphans`, and `stopped`. It creates a
resource only when the one it holds is not live, goes only when the one it holds
is not live, and loses sight of one only when the reply to the creation is lost
(`Create`, second disjunct) or the process ends before the identifier is recorded
(`Crash`), after which it creates nothing any more. Caches, locks, copies,
annotations and finalizers are the implementation's. `Steward` at the end of
`ManagedResource` is the refinement mapping: `held` is the identifier in the
object, or that in the worker's copy between `Create` and `Record`; the orphans
are the history variables `lost` and `crashed`. `KeepsPromise` is the abstract
specification under that mapping.

The mapping of `Invite` is at the end of `InviteProofs`: an invite is `live` while it
is pending, accepted or expired, because then the controller takes it for the
object's and issues no other; only a revoked one makes room for the next.
`ChildResource` does not implement `Stewardship`, and should not: a user may point an
object at another parent, and the child in the old one is then live and named by
nobody, without any fault. `NothingOrphaned` names that exception.

### Trees, the conversions and Conversion

In `ManagedResource` a value is one of two; here it is a tree, as
`spec.forProvider` and the parameters of a request are in JSON: the set of its
nodes, each a path from the root and a text, with marks for maps and lists. A
field that is nil is a path that is not there; the keys of a list are its
positions. So every operator is set algebra over nodes, none is recursive, and a
statement about all values of all sizes is a statement about any one node, which
is what makes the proofs possible. `Fields`, `Variant`, `Sub`, `Each`, `Given` and `NonEmpty`
are the shapes the Go code is written in: a required string is sent as "" when it
is nil, an optional one is left out; a union is a map with the fields of its
variant, and `Nothing` is one without any, which the API rejects. Each function of
the `*_conversion.go` files is an operator of the same name.

`IsSubsetEqual` descends in the code from key to key; `Trees` has what it compares
on the way, two nodes at one path, and requires that all agree. The assumption
`ComparisonAsInTheCode` of `MCConversion` checks it against `diff`, which recurses
as `diff.go` does, on all pairs of some two hundred small trees with every
combination of scalars, maps and lists, one inside another.

`Manifest` is what the API server admits: one text for every path, the enumerations of
the CRD, a map where the Go type is a struct and a scalar where it is a string, no
`type` where the Go struct has none, and no list without elements, since the Go
structs omit those when they are compared. `Base` and `Options`, from
which users edit, are assumed to be such, and that each Secret key a manifest
mentions is known (a missing Secret ends a reconcile before anything is sent,
which `ManagedResource` has).

State of `Conversion`: `spec`, `secrets`, `ext` (the external resource), `work` and
`seen` (what the worker has read and mirrored), `sent` (the last request and the
manifest it was made of), `quiet` (nothing has changed since a request was
accepted). `Create`, `Observe`, `Rest` (up to date) and `Update` are the worker's
steps, `EditSpec`, `Rotate` and `OutOfBand` everybody else's, between any two of
them. What the API does with a request is external and taken from the comments
that describe it: an update merges metadata and some unions and replaces the
rest (`Patch`), defaults are filled in (`Stored*`), an empty list is not there.
Whether the API resolves the default configuration of a tool set is its choice.

### ProviderAccess and Dependencies

`pc[u]` says where the worker of object `u` is: idle, its references resolved, its
ProviderConfig read, connected. `work[u]` is the ProviderConfig it has read,
`clients` the process-wide map of federation clients, `token[f]` who has
exchanged the token in file `f`, `usage` the ProviderConfigUsages, `listed` those of them that
the providerconfig controller has in its cache.

| Action | Code |
|---|---|
| `ResolveReferences` | `ResolveReferences` of the kind, called by crossplane-runtime before `Connect`; `ComputedFieldExtractor`, `IsNoOp` |
| `NewClient`: `resolveProviderConfig`, then `Track` and `buildClientFromSpec` | `clients.NewClient`; `federationKey`, `federationClient` and its cache |
| `Call`, with `Authenticate` | the first call of the SDK client, then one of `Create`, `ObserveAndUpdate`, `Delete`, `LetGo` in one step; their own interleavings are `ManagedResource`'s |
| `Rotate`, `Expire` | the kubelet replaces a projected token; an access token expires |
| `ListUsage`, `Release` | the cache of the providerconfig controller hears of a usage (which matters only while the ProviderConfig is being deleted); that controller, finding none in its cache, takes the finalizer away |
| `Collect` | the usage of an object that is gone is garbage |
| `Deletions`, `Archive`, `EditConfig`, `EditSecret` | users: one object, one ProviderConfig, or a namespace with everything in it |
| `Restart`, `Abandon` | the process restarts, a step fails; the clients are lost, the exchanged token is not given back |

Which fields of an identity make the key of the map is abstracted to two, the
file and the workspace, of which the second stands for organization, rule and
service account as well. The workspace is also where a call goes, so that a call
with somebody else's client shows. A ProviderConfig that has no identity, an unknown
one, or one without its block ends the reconcile as a missing key does, and is not
told apart from that.

## 3. The runs

| Run | Bounds | What it shows |
|---|---|---|
| `mr_safety` | 2 contrasting kinds, 4 identifiers, 2 values, 2 edits, 1 fault | `Tracked`, `NoSecondCopy`, `CrashBlocksCreation`, `FinalizerGuards`, `NoBlindOverwrite`; `KeepsPromise`, the refinement of `Stewardship` |
| `mr_liveness` | all behaviours of the 12 kinds, 3 identifiers, 1 edit, 1 fault | `DeletionCompletes`, `Converges`, `ComesToRest` |
| `skill` | 2 contents, 2 files, 3 edits, 2 faults | `HashIsOfAnUpload`, `NoSpuriousVersion`, `SkillGoesFirst`, `Converges`, `ComesToRest` |
| `invite` | 5 identifiers, 2 edits, 2 faults | `InviteAccountedFor`, `ReportedIsOver`, `RevokedIsReissued`, `DeletionCompletes` |
| `child` | 3 clients, 2 parents, 3 names, 2 values, 1 edit, 1 fault | `NothingOrphaned`, `ReportedIsMoot`, `DeletionCompletes`, `Converges` |
| `conversion` | 5 kinds, every variant of every union; up to 2 optional fields, or one and a takeover; 2 Secret values, 1 edit | `SecretsGoWhereTheyBelong`, `SentAsAsked`, `OneRequestSettles`, `NothingMissed`, `UnaskedUntouched` |
| `dependencies` | 2 objects, 2 ProviderConfigs, 1 token file, 2 workspaces; 3 set-ups (one identity or one key for both objects, or two identities for one token file; edits lead to the others) and 3 graphs of references; 1 edit, 1 fault | `NothingSentUnresolved`, `CallsAsConfigured`, `NoNeedlessReplay`, `ConfigOutlivesUse`, `ComesUp`, `AlwaysFollows`, `EverythingCanGo` |
| `mr_frozen`, `mr_pause`, `skill_hash`, `skill_staged`, `invite_deletion` | the smallest that does | each violates a sentence of the repository's comments, see 5 |

Why the bounds are enough. `MaxEdits` and `MaxFaults` bound what users, the console
and failures do over a whole behaviour; what the worker does, deletion, syncing
the cache, accepting an invite and retiring a parent are not bounded. Each hazard
listed needs at most two edits and one fault in its shortest form (three edits
for a Secret that goes away and comes back while a status is lost, which is why
`skill` has three). Each recreation needs an edit or a fault, so
`1 + MaxEdits + MaxFaults` identifiers never run out, and no run stops for want of
one. Two values tell "as asked" from "not as asked". In `mr_safety` the two kinds
are a locked, archiving, tagged one and one that is none of these: the safety
properties do not depend on the rest. Deadlock is not checked because all these
systems really stop, when the object is gone or waits for a human; in
`conversion`, where an observed resource can always be observed again, it is.

In `conversion` fields are converted one by one, and what two of them have to do
with each other (a roster and the agent's own id, resources and their tokens, a
type and the secrets meant for it) is inside one value or needs two: hence up to
two optional fields besides the required ones. A takeover is the first
edit, so it is checked without another. In `dependencies`, two objects are
enough for a chain and for a cycle of references, two ProviderConfigs for two
identities on the same file (or, after an edit, for one identity, or for an
identity and a key), and one restart, expiry or lost call for a replay of the token. Rotation, expiry, garbage
collection and release are not bounded.

Fairness is weak fairness of the worker as a whole and of the cache. The worker
comes back: the workqueue retries errors, the poll interval is a minute and the
resync ten (`cmd/provider/main.go:94`, `:121`). With one worker per controller
(`MaxConcurrentReconciles: 1`) and a leader elected, its next step is
determined up to what the API answers, so weak fairness asks for nothing but
that it goes on. The watch of the API server reconnects. Nothing is assumed of
users, of the console or of the person invited, and faults need not occur.
In `Dependencies` each controller has weak fairness of its own, and so have the
garbage collector with the providerconfig controller and its cache (`Housekeeping`:
each does a thing once, so all of it is done in the end), and the kubelet, which
rotates a projected token whether it was exchanged or not. That an access token
outlives the rotation is what `README.md:314` says of the deployment ("well inside
the minted token's lifetime") and a guard of `Expire`; expiry need not occur.

The liveness properties have exceptions, and each is a state the code does not
get out of by itself: an object whose creation was cut short waits for a human
(`Stuck`); a Secret that was deleted first stops Observe, and with it deletion,
but only while there is an external resource to be removed; a membership of which
the first Add was answered with an error though it was done is refused for ever
(`AlreadyAdded`), as long as it is there; an invite that was accepted blocks deletion; the parent of a child is gone; a
status that was lost and not made good for by a later one (`unsaved`) or a staging that was cut short (`cut`). In
`dependencies`: there is no way to get a client (`Cut`: the ProviderConfig or its
Secret is gone, or, `Crowded`, another identity in use shares the token file and
may win every rotation); an object waits for one that has not come up (`Waits`),
which in a cycle is for ever. In `conversion`, `Hopeless` names what no update can
bring about, and the property says that exactly this is sent again and again:
an agent that names itself in its roster by id, or as "self" with a version or with
an id, even an empty one, that is not its own; the
immutable fields of a session and of a credential; the version of a deployment's
agent given without the agent; and what is in a union without a type, which the CRD admits and the conversions do not send. `ConfigOutlivesUse` excepts an object whose
usage was recorded after the ProviderConfig had gone, the moment between two calls
that `NewClient` leaves open, or so shortly before that the providerconfig
controller had not heard of it (`late`).

`Tracked` and its relatives except what is `lost` or `crashed` by name: a reply that
never came is the one leak the design accepts, and `CrashBlocksCreation` bounds it.

## 4. What is proved

`ManagedResourceProofs` proves, for every set of kinds, identifiers and values and
for all bounds, from the assumptions `KindsAssumption`, `NamesAssumption`,
`ValAssumption`, `MissingAssumption` and `BoundAssumption` of `ManagedResource`:

- `TypeCorrect`: `Spec => []TypeOK`
- `InvAlways`: `Spec => []Inv`
- `NothingLeaks`, `NothingDuplicated`, `CrashBlocks`: `Spec => []Tracked`,
  `[]NoSecondCopy`, `[]CrashBlocksCreation`
- `FinalizerHeld`: `Spec => FinalizerGuards`
- `LockHolds`: `Spec => NoBlindOverwrite`

`Tracked` is not inductive. That no second resource is created while the first is
live depends on Observe having looked under the right name, so on the worker's
copy being current when it marks the object (`CopiesAgree`: a copy that is `fresh`
*is* the object, which is what the optimistic lock buys), on a resource once seen
to be gone not coming back, so on identifiers not being given again
(`NamesUsed`), and on nobody removing the finalizer or the mark meanwhile
(`CreateHeld`). `WorkerKnows` carries from Observe to the later steps what was
established. `CrashBlocksCreation` needs that an object with a created resource
has its finalizer (`CreatedIsFinalized`). `Inv` is the conjunction; each action is
a lemma, a lemma has one step per conjunct the action can disturb, and the
theorems put them together.

`NoBlindOverwrite` has an invariant of its own, inductive together with `TypeOK`:
from Observe on, the external resource is at the version observed or a later one,
and as long as it is at that version it has the values observed (`SeenAtVersion`).
It rests on the API counting a version with every change of a value.

The same module proves, from the same assumptions,

- `Implements`: `Spec => KeepsPromise`

that every initial state maps to one of `Stewardship` and every step to a step of
it or a stutter, under the mapping given in section 2. `Inv` is not enough for it:
a new identifier must not be among the orphans, so these must be known to have
been used, and a creation that failed must leave the worker's copy with the name
that the object has, so that `Record`, which writes that name over the object,
does not change what is held. `Losses` says both and is inductive together with `Inv`. Most actions are
dealt with by `Unseen` (nothing that `Stewardship` speaks of changes); the rest is
`Retires` (removing and changing never make anything live), `UpdatesKeep`,
`Creates`, and the crash between `Create` and `Record`. Where the abstract
specification asks that what is held is not live, `Inv` supplies it through
`WorkerKnows` and `NoSecondCopy`.

The four smaller models have an invariant each, `IInv`, that is the conjunction
of `TypeOK`, the properties proved and what makes them inductive, and a theorem
for every safety invariant that the runs check (`TypeCorrect` for the types).

`SkillVersionsProofs`, from `NoneAssumption`, `FileAssumption`, `BoundAssumption`:

- `HashIsTrue`: `Spec => []HashIsOfAnUpload`. A directory that exists is whole or
  recorded in `cut` or just being filled (`StageSound`), so what is uploaded is.
  An object that names a skill and has no hash has lost the status of its creation, or is between
  the two writes after Create (`HashSound`); without that, the adoption of the
  Secret's hash in Observe could record a hash nobody uploaded.
- `OneVersion`: `Spec => []NoSpuriousVersion`. Until the Secret is edited every
  hash in the object, the cache and the worker's copy is that of the Secret or
  none (`OneHash`), so nothing is ever outdated.
- `SkillOutlivedByObject`: `Spec => []SkillGoesFirst`. A skill that nobody names
  has an object with the pending mark (`SkillHeld`), and whoever finds nothing has
  looked under the object's name, if its copy is current (`CopiesAgree`).

`InviteProofs`, from `NoNameAssumption` and `BoundAssumption`:

- `AllAccountedFor`: `Spec => []InviteAccountedFor`. What Observe found to be over
  stays over (`WorkerKnows`), names were given out before they are written
  (`NamesSound`), and while Create runs the object's own name is of no invite that
  somebody holds (`CreateHeld`).
- `ReportsAreTrue`: `Spec => []ReportedIsOver`, from `ReportedWasIssued`: an invite
  that is over is never pending again.
- `Implements`: `Spec => Steward!Spec`, the refinement of `Stewardship` under the
  mapping of section 2. That an invite is issued only when none is held is
  `CreateHeld`; that an identifier just given is not among the orphans is
  `LostWasIssued`; that nothing is issued after a name was lost is `CrashStops`.
  Steps that change no invite's being out are dealt with by `Unseen`; an invite
  that is accepted or expires stays out (`Retires`).

`ChildResourceProofs`, from `ParentAssumption`, `SetsAssumption`, `BoundAssumption`:

- `NoOrphans`: `Spec => []NothingOrphaned`. While Create runs, everything of ours
  that is live is new, lost, or in a parent that the object was pointed away from
  (`OnlyTheNewOne`): Observe found nothing under the names the object has, and
  whoever changes its parent meanwhile leaves a trace. `CreateHeld` ties the
  worker's parent to the object's.
- `ForgivenIsMoot`: `Spec => []ReportedIsMoot`. No parent comes back and nothing is
  born but by Create (`NothingBorn`), and after a report of success there is no
  Create any more, since the object is being deleted (`CopiesAgree`).

`DependenciesProofs`, from `SettingAssumption` and `BoundAssumption` of
`ProviderAccess`, and `SetupAssumption` and `GraphAssumption` of `Dependencies`:

- `RightClient`: `Spec => []CallsAsConfigured`, and `NoReplay`:
  `Spec => []NoNeedlessReplay`. Every client in the map is under the key of its own
  setting (`ClientsKeyed`), and a process that has exchanged a token holds a client
  with access (`ExchangedHasAccess`). The second rests on what `Expire` assumes,
  that an access token outlives the projected token it was exchanged for (`README.md:314`).
- `ConfigStays`: `Spec => []ConfigOutlivesUse`. The usage is recorded before
  anything is created (`UsageRecorded`), and where the ProviderConfig is let go in
  spite of it, `late` says so.
- `SentResolved`: `Spec => []NothingSentUnresolved`. A worker past its first step
  has an identifier for every reference of its copy (`ResolvedFirst`).

The proofs about `Conversion` rest on lemmas about trees of any depth: paths,
subtrees, fields, unions and lists, the merge and the comparison. They are the
first part of `ConversionProofs`, which proves, from `KindsAssumption`, `ManifestAssumption`, `TextAssumption` and
`BoundAssumption` of `Conversion`, for manifests of any size and shape that the CRD
admits and any content of the Secrets:

- `TypeCorrect`: `Spec => []TypeOK`
- `SecretsSafe`: `Spec => []SecretsGoWhereTheyBelong`
- `RequestsAsAsked`: `Spec => []SentAsAsked`
- `UnaskedKept`: `Spec => UnaskedUntouched`

The argument is about one node of a request at a time. `Made(w, v, keys, for)` says
of a value `w` converted from `v` that each of its nodes is a node of `v` at the same
place, a secret that the same entry refers to and that is for one of the
purposes `for`, a type or media type the conversion adds of its own accord, or one of the marks
the API rejects. It is preserved by every shape the conversions are built from
(`MadeInto`, `MadeField`, `MadeFields`, `MadeVariant`, `MadeEach`), so each function of the
`*_conversion.go` files has a short lemma of its own (`MadeTool`, `MadeAuth`, ...). The three
places where a value is sent under another name (the model, the agent of a
deployment or session, the blocks of a system message) are dealt with in `Sent`,
which is `Made` with the renamings of `SentAsAsked`; `RequestSent` states it for the
request as a whole. That a repository gets the token of its own position is
`RequestTokens`, by way of `TokenOfRepository`. Which fields an update sends is
`UpdateKeys`, and that all others survive the API's merge and its defaults is
`AfterUntouched`.

The inductive invariant `IInv` is `TypeOK` with: the external resource is a tree that
the API accepts, and in the form it stores (`ResourceKept`, which needs that
defaults are filled in once: `NetworkingSame`, `ConfigSame`, `AuthSame`); the copy of
the worker is a manifest, and there is a resource when it has one (`WorkAdmitted`,
since it is sent later than it was read); and
a request is what the conversions make of its manifest with the Secrets as they
are (`RequestMade`; an edit of a Secret clears `sent`). Trying to prove found what the model had wrong: two arms of the
conversion of a deployment's agent were not exclusive; a networking config without
a type was sent as an empty one; a manifest has to be one that the CRD admits,
since for others the Go code, which is typed, has no counterpart; and `Hopeless` did
not name the entries "self" with a version or an empty id, nor unions without a type,
none of which the manifests of the run had. They have them now.

`UpdateProofs`, from the same assumptions:

- `Unmissed`: `Spec => []NothingMissed`

The comparison looks at the manifest and the status, the property is about the
request that is not sent, what the API would make of it, and what the status would
then show. `Explained(o, p, s)` connects the two: where the manifest `p` and the
present status `s` both have a path, the status `o` after the update shows nothing
there but what `p` or `s` says. If `p` and `s` agree, as the comparison has found,
that is what `s` shows already (`ExplainedAgrees`). `UpdateBack` is `Explained` for
each kind, through the conversion, the merge, the defaults and the mirror:
`AgentBack`, `DeploymentBack`, `SessionBack`, `EnvironmentBack`, `CredentialBack`,
each put together from a lemma for every union (`Echoes`, for those that are
replaced as a whole, says that what comes back is what was asked for or stands
where nothing was asked). For the model and the prompt of an agent, which are compared
apart from the rest (`agentIsUpToDate`), `AgentBack` says that the status would not
change at all. The agent is why `~Hopeless` is needed: a roster that names the agent by
its own id, or "self" otherwise than by id, comes back in other words.

`SettlingProofs`, from the same assumptions:

- `OneIsEnough`: `Spec => []OneRequestSettles`

This is the converse of `Made`: not that nothing is made up, but that what is asked
for arrives. The property is an equivalence, so both directions are proved: nothing
but what is hopeless is found different, and what is hopeless always is.
`Fits(b, p, K)` says that a part `b` of the status passes the comparison with the
manifest `p` on every field that both have, but for the fields `K`. It is preserved
when parts are put together (`FitsBoth`), and decides the comparison as a whole
(`FitsDecides`): the two differ only in `K`. For each kind a lemma takes the
request through merge, defaults and mirror, whatever the resource was before:
`AgentSettled`, `DeploymentSettled`, `SessionSettled`, `EnvironmentSettled`,
`CredentialSettled`. The fields `K` are those the update does not carry, and `Fixed`
names those of a credential. For an agent there are none; what cannot be had is
an entry of its roster, and `TeamDiffers` shows that it is found different.

A part of a union that no request names (the packages of an environment, the
injection location of a credential) is what an earlier request left there, so the
induction needs that it is a map if it is there at all: `Formed`, which every
request has (`FormedRequest`, from `RequestSent`) and merge and defaults preserve
(`FormedAfter`). The invariant `QuietIsSettled` is that the resource is `Formed`;
that since an accepted request, with no edit after it, it compares equal with the
manifest but for what is hopeless (`Settles`); and that the worker, if it has
observed meanwhile, holds this manifest and the status of this resource. It is
inductive together with `IInv`. An update made of a manifest that was edited after
it was read does not count: `Update` sets `quiet` only if its copy is current.

Trying to prove it corrected the model twice more. `Hopeless` compared with the
resource as it was when the property was evaluated and not with the status
the worker had seen, and it left out the version of a deployment's agent that is
given without the agent, which `deploymentAgentUpdateUnion` does not send. And the
manifests had to be narrowed to what the Go types can hold: what a struct is, is a
map (`maxListCost`), and the values of metadata, the flags of an injection location
and the id and version of a roster entry are scalars.

Only model-checked: liveness, which is out of reach of the proof system, with the
fairness it needs. `ComparisonAsInTheCode` relates two definitions, one of them
recursive, and is evaluated by TLC.

## 5. Where code and comments disagree

- `session/reconciler.go:229` says that immutable fields are never reported as
  drift; edited in the object they are, and Update is called for ever (`mr_frozen`).
- `deployment_types.go:237` says that omitting `paused` keeps a deployment active;
  it leaves it as it is (`mr_pause`).
- `skill_types.go:94` says that the hash is of the last upload; Observe may adopt
  one of files never uploaded (`skill_hash`).
- `fs.go:92` says that StageFiles writes all entries; a directory left incomplete
  is taken as it is (`skill_staged`).
- `invite/reconciler.go:180` says that nothing is left to delete once an invite
  was accepted; the object then cannot be deleted (`invite_deletion`).

Two comments are loose rather than wrong, and no run is about them: `diff.go:31`
says that slices are compared with `reflect.DeepEqual`, but maps in them are
compared as subsets; `vaultcredential/reconciler.go:301` says that callers who want
to rotate "must touch the spec to trigger an Update", but a changed reference to
a Secret is no difference and triggers none, only a change of a compared field does.

## 6. What is not modelled

- Selectors, which pick a reference by label, and the Optional resolution
  policy. `FieldExtractor` and `OptionalFieldExtractor` are used by no resolver.
- Dreams, memory stores, vaults and the organization kinds at full depth: they
  are flat, and the slots of `Kinds` have what there is to tell apart.
- Which tags the initializer writes. It writes the same ones each time, so all
  that its write does to the rest is to cost a conflict or a `resourceVersion`,
  which `ManagedResource` has.
- The format of credentials (`clients.Credentials`), and token lifetimes that
  are configured against the advice of `README.md:314`.
- Names of staging directories: which strings collide is a question about text;
  and the memory layer over the disk.
- Rotated secrets of a credential: they are sent by no step, by design, so there
  is no property to state that could hold.
- Management policies. Every `Setup` passes `managed.WithManagementPolicies()`, so
  an object may ask to be observed only (the initializer then writes nothing,
  `internal/initializer/metadata.go:54`), or to leave its external resource behind
  when it is deleted. Everything here, `FinalizerGuards` and the deletion properties
  first of all, is said of objects with the default policy, which allows all actions.
- The scope of an environment of which the API reports none: the status then
  keeps the scope it has (`environment_conversion.go:75`), the model has none.
- Races inside libraries: inside the usage tracker, in the status counter of users, in the
  providerconfig finalizer being added. The gate that starts a controller
  when its CRD is established.
- Connection details: written from what Observe has read, read by nobody here.
- Generated deep copies and accessors, CRD validation rules (the API server
  evaluates them), packaging, examples.

## 7. Plan

Done: `Kinds`, `ManagedResource`, its proofs and its refinement; `SkillVersions`,
`Invite` and `ChildResource` with their proofs, `Invite` with its refinement; the
conversions over trees that can be reasoned about, with their proofs;
`ProviderAccess` and `Dependencies` with theirs. Worth doing next:

1. An abstract specification for `ChildResource`, in which the object may be pointed
   at another parent.
2. The remaining kinds at full depth, as far as their conversions have anything to
   tell apart.
