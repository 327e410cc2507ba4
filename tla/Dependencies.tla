---------------------------- MODULE Dependencies ----------------------------
(***************************************************************************)
(* Managed resources that need one another, and the ProviderConfigs they   *)
(* all need.  A reconcile first resolves the references of its object: it  *)
(* copies the identifier that the status of the other object shows into    *)
(* the manifest, or ends with an error.  Then it gets a client             *)
(* (ProviderAccess), and with that it observes, creates, updates or        *)
(* deletes; that part, with its own interleavings, is module               *)
(* ManagedResource, and is one step here.                                  *)
(*                                                                         *)
(* Identifiers are numbered by resource: ext[u][n] is the workspace the    *)
(* n-th external resource made for u is in.  A field with a reference is   *)
(* one that Update sends, as those of agents and deployments are.          *)
(***************************************************************************)
EXTENDS ProviderAccess, Sequences

CONSTANTS
    Setups,      \* which ProviderConfig each resource refers to, and what it says
    Settings,    \* what users may write into a ProviderConfig
    Graphs,      \* by resource and resource: the policy of a reference, or "none"
    Nowhere      \* an external resource that is archived or deleted

ASSUME SetupAssumption ==
    /\ Setups \subseteq [uses: [User -> Config], specs: [Config -> Setting]]
    /\ Settings \subseteq Setting
ASSUME GraphAssumption ==
    Graphs \subseteq [User -> [User -> {"none", "IfNotPresent", "Always"}]]

VARIABLES
    graph,       \* the references; they never change
    obj,         \* the objects in the API server
    ext,         \* the external resources that have been made for each
    told         \* the identifiers that were sent with the last Create or Update

world == <<graph, obj, ext, told>>
vars  == <<access, bounds, world>>

References(u) == {t \in User : graph[u][t] # "none"}

Init ==
    /\ AccessInit(Setups)
    /\ graph \in Graphs
    /\ obj = [u \in User |-> [here |-> TRUE, deleting |-> FALSE, name |-> 0, reported |-> 0,
                              ids |-> [t \in User |-> 0]]]
    /\ ext = [u \in User |-> <<>>]
    /\ told = [u \in User |-> [t \in User |-> 0]]

---------------------------------------------------------------------------
(***************************************************************************)
(* The references of an object.                                            *)
(***************************************************************************)
\* Mutant of ComputedFieldExtractor: the manifest has no such field.
FieldExtractor(t) == 0

\* The identifier in the status, 0 if there is none.
ComputedFieldExtractor(t) == obj[t].reported

\* Mutant of IsNoOp: a value that is set is kept, whatever the policy.
IsNoOpWhenSet(u, t) == obj[u].ids[t] # 0

\* A value that is set is kept, but for a reference that is always resolved.
IsNoOp(u, t) == obj[u].ids[t] # 0 /\ graph[u][t] # "Always"

\* Mutant of Resolved: what cannot be resolved stays empty.
ResolvedOrEmpty(u, t) == TRUE

Resolved(u, t) == IsNoOp(u, t) \/ (obj[t].here /\ ComputedFieldExtractor(t) # 0)

\* One that cannot be resolved ends the reconcile, and nothing is written; an
\* object to be deleted is left as it is.
ResolveReferences(u) ==
    /\ pc[u] = "idle" /\ obj[u].here
    /\ \/ obj[u].deleting /\ UNCHANGED obj
       \/ /\ ~obj[u].deleting
          /\ \A t \in References(u) : Resolved(u, t)
          /\ obj' = [obj EXCEPT ![u].ids =
                        [t \in User |-> IF t \in References(u) /\ ~IsNoOp(u, t)
                                        THEN ComputedFieldExtractor(t) ELSE @[t]]]
    /\ Goto(u, "resolved")
    /\ UNCHANGED <<setup, token, clients, usage, listed, late, work, bounds, graph, ext, told>>

Connect(u) == NewClient(u) /\ UNCHANGED <<bounds, world>>

---------------------------------------------------------------------------
(***************************************************************************)
(* What the reconcile does with the client, in the workspace it is for.    *)
(***************************************************************************)
Present(u) == obj[u].name # 0 /\ ext[u][obj[u].name] = ClientOf(u).of.workspace

\* Create mirrors the identifier in the status, which may be lost.
Create(u) ==
    /\ ~Present(u) /\ ~obj[u].deleting
    /\ ext' = [ext EXCEPT ![u] = Append(@, ClientOf(u).of.workspace)]
    /\ told' = [told EXCEPT ![u] = obj[u].ids]
    /\ \E r \in {obj[u].reported, Len(ext[u]) + 1} :
            obj' = [obj EXCEPT ![u].name = Len(ext[u]) + 1, ![u].reported = r]

\* Observe mirrors it as well, and an identifier that differs is drift.
ObserveAndUpdate(u) ==
    /\ Present(u) /\ ~obj[u].deleting
    /\ obj' = [obj EXCEPT ![u].reported = obj[u].name]
    /\ told' = [told EXCEPT ![u] = obj[u].ids]
    /\ UNCHANGED ext

Delete(u) ==
    /\ Present(u) /\ obj[u].deleting
    /\ ext' = [ext EXCEPT ![u][obj[u].name] = Nowhere]
    /\ UNCHANGED <<obj, told>>

LetGo(u) ==
    /\ ~Present(u) /\ obj[u].deleting
    /\ obj' = [obj EXCEPT ![u].here = FALSE, ![u].deleting = FALSE]
    /\ UNCHANGED <<ext, told>>

\* Mutant of Call: the worker keeps what it has read.
CallKeepsWork(u) ==
    /\ pc[u] = "connected" /\ Goto(u, "idle") /\ UNCHANGED work
    /\ UNCHANGED <<setup, usage, listed, late, bounds, graph, clients, token, obj, ext, told>>

\* With no valid access token the calls fail, and so does the reconcile.
Call(u) ==
    /\ pc[u] = "connected" /\ Return(u)
    /\ IF Refused(u) THEN UNCHANGED <<clients, token, obj, ext, told>>
       ELSE /\ Authenticate(u)
            /\ Create(u) \/ ObserveAndUpdate(u) \/ Delete(u) \/ LetGo(u)
    /\ UNCHANGED <<setup, usage, listed, late, bounds, graph>>

Worker(u) == ResolveReferences(u) \/ Connect(u) \/ Call(u)

---------------------------------------------------------------------------
(***************************************************************************)
(* Users, the cluster, faults.                                             *)
(***************************************************************************)
\* An object nothing was created for has no finalizer, and goes at once.
RequestDelete(D) ==
    LET gone == {u \in D : obj[u].name = 0} IN
    /\ \A u \in D : obj[u].here /\ ~obj[u].deleting
    /\ obj' = [u \in User |-> CASE u \in gone     -> [obj[u] EXCEPT !.here = FALSE]
                                [] u \in D \ gone -> [obj[u] EXCEPT !.deleting = TRUE]
                                [] OTHER          -> obj[u]]
    /\ pc' = [u \in User |-> IF u \in gone THEN "idle" ELSE pc[u]]
    /\ work' = [u \in User |-> IF u \in gone THEN NoSetting ELSE work[u]]
    /\ UNCHANGED <<uses, secret, token, clients, usage, listed, late, graph, ext, told>>

\* ProviderConfigs are deleted, and stay for as long as their finalizer does.
DeleteConfigs(C) ==
    config' = [c \in Config |-> IF c \in C /\ config[c].here
                                THEN [config[c] EXCEPT !.deleting = TRUE] ELSE config[c]]

\* Somebody archives the resource at Anthropic.
Archive(u) ==
    /\ obj[u].name # 0 /\ ext[u][obj[u].name] # Nowhere
    /\ ext' = [ext EXCEPT ![u][obj[u].name] = Nowhere]
    /\ UNCHANGED <<access, graph, obj, told>>

\* One object or ProviderConfig is deleted, or the namespace with everything.
Deletions ==
    \/ \E u \in User : RequestDelete({u}) /\ UNCHANGED config
    \/ \E c \in Config : RequestDelete({}) /\ DeleteConfigs({c}) /\ config' # config
    \/ RequestDelete(User) /\ DeleteConfigs(Config)

Edits ==
    /\ edits < MaxEdits /\ edits' = edits + 1 /\ UNCHANGED faults
    /\ \/ Deletions
       \/ \E u \in User : Archive(u)
       \/ /\ UNCHANGED world
          /\ \/ \E c \in Config, s \in Settings : EditConfig(c, s)
             \/ \E s \in Source : EditSecret(s)

\* A step of the reconcile fails, or the call does after the exchange.
Abandon(u) ==
    /\ pc[u] # "idle" /\ Return(u)
    /\ IF pc[u] = "connected" /\ ~Refused(u) THEN Authenticate(u) ELSE UNCHANGED <<clients, token>>
    /\ UNCHANGED <<setup, usage, listed, late>>

Faults ==
    /\ faults < MaxFaults /\ faults' = faults + 1 /\ UNCHANGED <<edits, world>>
    /\ Restart \/ \E u \in User : Abandon(u)

\* A usage is garbage once its owner is gone.
Collect(u) ==
    /\ u \in usage /\ ~obj[u].here
    /\ usage' = usage \ {u} /\ listed' = listed \ {u}
    /\ UNCHANGED <<setup, token, clients, late, pc, work, bounds, world>>

\* What the garbage collector, the cache and the controller of ProviderConfigs do:
\* each of these things is done once, so that all of them are done in the end.
Housekeeping ==
    \/ \E u \in User : Collect(u)
    \/ (\E u \in User : ListUsage(u)) /\ UNCHANGED <<bounds, world>>
    \/ (\E c \in Config : Release(c)) /\ UNCHANGED <<bounds, world>>

Cluster ==
    \/ (\E f \in Source : Rotate(f)) /\ UNCHANGED <<bounds, world>>
    \/ Housekeeping

Expiry == (\E k \in Key : Expire(k)) /\ UNCHANGED <<bounds, world>>

Next == (\E u \in User : Worker(u)) \/ Edits \/ Faults \/ Cluster \/ Expiry

Spec == Init /\ [][Next]_vars

\* Every controller goes on, and so do the kubelet and the cluster's controllers.
FairSpec ==
    /\ Spec
    /\ \A u \in User : WF_vars(Worker(u))
    /\ \A f \in Source : WF_vars(Rotate(f) /\ UNCHANGED <<bounds, world>>)
    /\ WF_vars(Housekeeping)

---------------------------------------------------------------------------
(***************************************************************************)
(* Properties.                                                             *)
(***************************************************************************)

Object == [here: BOOLEAN, deleting: BOOLEAN, name: Nat, reported: Nat, ids: [User -> Nat]]

\* The variables hold what their declarations say; a name is that of a resource
\* that was made, and one shown in the status is no newer.
TypeOK ==
    /\ AccessTypeOK
    /\ graph \in Graphs
    /\ obj \in [User -> Object]
    /\ ext \in [User -> Seq(Workspace \cup {Nowhere})]
    /\ told \in [User -> [User -> Nat]]
    /\ \A u \in User :
        /\ obj[u].deleting => obj[u].here
        /\ obj[u].name = Len(ext[u]) /\ obj[u].reported <= obj[u].name

\* Nothing is sent unresolved: what was created for an object carries, for each of
\* its references, an identifier the other object had come to, and never none.
\* So a resource comes up after all it refers to, and two agents with each other
\* in their rosters never do.
NothingSentUnresolved ==
    \A u \in User : obj[u].name # 0 =>
        \A t \in References(u) : told[u][t] \in 1..Len(ext[t])

Exists(u) == obj[u].name # 0 /\ ext[u][obj[u].name] # Nowhere

\* A ProviderConfig outlives the resources that were made with it, without which
\* they could not be deleted; unless it went before the controller of
\* ProviderConfigs could hear of the usage: between the reconcile reading the
\* ProviderConfig and recording the usage, or before that was in the cache.
ConfigOutlivesUse ==
    \A u \in User : obj[u].here /\ Exists(u) => config[uses[u]].here \/ u \in late

\* Another identity uses the same token file: whoever comes first after a
\* rotation is served, and it may always be the other.
Crowded(u) ==
    LET mine == config[uses[u]].spec IN
    \E c \in Config : LET its == config[c].spec IN
        /\ mine.identity = "Federation" /\ its.identity = "Federation"
        /\ its.source = mine.source /\ its.workspace # mine.workspace
        /\ \E v \in User : uses[v] = c /\ obj[v].here

\* There is no way to get a client.
Cut(u) ==
    \/ ~config[uses[u]].here
    \/ config[uses[u]].spec.identity = "APIKey" /\ ~secret[config[uses[u]].spec.source]
    \/ Crowded(u)

Waits(u) ==
    \E t \in References(u) :
        /\ obj[u].ids[t] = 0 \/ graph[u][t] = "Always"
        /\ ~obj[t].here \/ obj[t].reported = 0

Up(u) ==
    /\ obj[u].name # 0 /\ obj[u].reported = obj[u].name
    /\ ext[u][obj[u].name] = config[uses[u]].spec.workspace

\* The provider recovers on its own, from replays after a restart, expired access
\* tokens, moved and archived resources: each resource comes up and is reported,
\* unless there is no way to get a client or it waits for one that is not up.
ComesUp == <>[](\A u \in User : ~obj[u].here \/ Cut(u) \/ Waits(u) \/ Up(u))

\* A reference that is always resolved is followed: in the end the external
\* resource refers to the one the other object shows, were it created anew.
AlwaysFollows ==
    <>[](\A u, t \in User : graph[u][t] = "Always" =>
            ~obj[u].here \/ Cut(u) \/ Waits(u) \/ told[u][t] = obj[t].reported)

\* Everything can go: in the end no object is being deleted, but for want of a way
\* to get a client, and no ProviderConfig, but for objects that still use it.
EverythingCanGo ==
    <>[](/\ \A u \in User : obj[u].deleting => Cut(u)
         /\ \A c \in Config : config[c].deleting => \E u \in User : uses[u] = c /\ obj[u].here)
============================================================================
