--------------------------- MODULE ProviderAccess ---------------------------
(***************************************************************************)
(* How a reconcile gets its API client: clients.NewClient reads the        *)
(* ProviderConfig, records that it is used, and builds a client with an    *)
(* API key from a Secret or, for workload identity federation, takes the   *)
(* one client there is for that identity.  Such a client exchanges the     *)
(* token the kubelet has projected into the pod for an access token; the   *)
(* token endpoint takes every projected token once.                        *)
(*                                                                         *)
(* The managed resources are reconciled by controllers of their own, side  *)
(* by side.  What they do with the client is in module Dependencies.       *)
(***************************************************************************)
EXTENDS Naturals, FiniteSets

CONSTANTS
    User,        \* the managed resources
    Config,      \* the ProviderConfigs
    Source,      \* Secrets with a key, and files with a projected token
    Workspace,
    NoSetting,   \* no ProviderConfig has been read
    MaxEdits,    \* bound: acts of users, and of others at Anthropic
    MaxFaults    \* bound: failed calls and restarts

(***************************************************************************)
(* What a ProviderConfig says.  workspace stands for all that makes two    *)
(* identities with one token file differ: organization, rule and service   *)
(* account as well.                                                        *)
(***************************************************************************)
Setting == [identity: {"APIKey", "Federation"}, source: Source, workspace: Workspace]

ASSUME SettingAssumption == NoSetting \notin Setting
ASSUME BoundAssumption   == MaxEdits \in Nat /\ MaxFaults \in Nat

VARIABLES
    uses,       \* the ProviderConfig a resource refers to; never changes
    config,     \* the ProviderConfigs in the API server
    secret,     \* whether a Secret is there, with a key
    token,      \* the token in a file: who has exchanged it
    clients,    \* the federation clients of the process, by key
    usage,      \* the resources that have a ProviderConfigUsage
    listed,     \* those the controller of ProviderConfigs has in its cache
    late,       \* history: tracked too late for it to keep the ProviderConfig
    pc,         \* where the worker of a resource is in its reconcile
    work,       \* the ProviderConfig as that worker has read it
    edits, faults

setup  == <<uses, config, secret>>
access == <<setup, token, clients, usage, listed, late, pc, work>>
bounds == <<edits, faults>>

PC == {"idle", "resolved", "read", "connected"}

Key      == [file: Source, workspace: Workspace]
NoClient == [of |-> NoSetting, access |-> FALSE]

\* by: the setting of the client that has exchanged it, if any; ours: in this
\* process.
Unspent == [by |-> NoSetting, ours |-> FALSE]

\* Everything is set up, and nothing has happened yet.
AccessInit(Setups) ==
    /\ \E s \in Setups :
        /\ uses = s.uses
        /\ config = [c \in Config |-> [here |-> TRUE, deleting |-> FALSE, spec |-> s.specs[c]]]
    /\ secret = [s \in Source |-> TRUE]
    /\ token = [f \in Source |-> Unspent]
    /\ clients = [k \in Key |-> NoClient]
    /\ usage = {} /\ listed = {} /\ late = {}
    /\ pc = [u \in User |-> "idle"] /\ work = [u \in User |-> NoSetting]
    /\ edits = 0 /\ faults = 0

---------------------------------------------------------------------------
(***************************************************************************)
(* NewClient, in the steps between which others may act.                   *)
(***************************************************************************)
Goto(u, p) == pc' = [pc EXCEPT ![u] = p]
Return(u)  == Goto(u, "idle") /\ work' = [work EXCEPT ![u] = NoSetting]

\* Mutant of Readable: one that is being deleted is not to be used any more.
ReadableUnlessDeleted(c) == config[c].here /\ ~config[c].deleting

\* Any ProviderConfig that can be read will do.
Readable(c) == config[c].here

resolveProviderConfig(u) ==
    /\ pc[u] = "resolved"
    /\ IF Readable(uses[u])
       THEN Goto(u, "read") /\ work' = [work EXCEPT ![u] = config[uses[u]].spec]
       ELSE Return(u)
    /\ UNCHANGED <<setup, token, clients, usage, listed, late>>

\* Mutant of Track: nothing is recorded.
TrackNothing(u) == UNCHANGED <<usage, listed, late>>

\* The usage is recorded without another look at the ProviderConfig.
Track(u) ==
    /\ usage' = usage \cup {u}
    /\ late' = IF config[uses[u]].here THEN late \ {u} ELSE late \cup {u}
    /\ UNCHANGED listed

\* Mutant of federationKey: one client for all workspaces.
keyWithoutWorkspace(s) == [file |-> s.source, workspace |-> CHOOSE w \in Workspace : TRUE]

federationKey(s) == [file |-> s.source, workspace |-> s.workspace]

\* Mutant of federationClient: a client of its own for every reconcile.
freshClient(s) == clients' = [clients EXCEPT ![federationKey(s)] = [of |-> s, access |-> FALSE]]

\* The client there is for the identity, or a new one.
federationClient(s) ==
    IF clients[federationKey(s)] = NoClient
    THEN clients' = [clients EXCEPT ![federationKey(s)] = [of |-> s, access |-> FALSE]]
    ELSE UNCHANGED clients

\* There is a key where the ProviderConfig says.
apiKeyFromCredentials(s) == secret[s.source]

\* A client with an API key is built anew each time, from the Secret as it is.
buildClientFromSpec(u) ==
    \/ /\ work[u].identity = "Federation"
       /\ federationClient(work[u])
       /\ Goto(u, "connected") /\ UNCHANGED work
    \/ /\ work[u].identity = "APIKey" /\ apiKeyFromCredentials(work[u])
       /\ Goto(u, "connected") /\ UNCHANGED <<clients, work>>
    \/ /\ work[u].identity = "APIKey" /\ ~apiKeyFromCredentials(work[u])
       /\ Return(u) /\ UNCHANGED clients

NewClient(u) ==
    \/ resolveProviderConfig(u)
    \/ pc[u] = "read" /\ Track(u) /\ buildClientFromSpec(u) /\ UNCHANGED <<setup, token>>

---------------------------------------------------------------------------
(***************************************************************************)
(* The first call a client makes: it reads the token file and exchanges    *)
(* what is there, unless it has an access token.                           *)
(***************************************************************************)
ClientOf(u) == IF work[u].identity = "Federation" THEN clients[federationKey(work[u])]
               ELSE [of |-> work[u], access |-> TRUE]

Exchanges(u) == pc[u] = "connected" /\ ~ClientOf(u).access
Refused(u)   == Exchanges(u) /\ token[work[u].source] # Unspent

Authenticate(u) ==
    IF Exchanges(u)
    THEN /\ clients' = [clients EXCEPT ![federationKey(work[u])].access = TRUE]
         /\ token' = [token EXCEPT ![work[u].source] =
                        [by |-> ClientOf(u).of, ours |-> TRUE]]
    ELSE UNCHANGED <<clients, token>>

---------------------------------------------------------------------------
(***************************************************************************)
(* Users, the cluster and Anthropic.                                       *)
(***************************************************************************)
\* The kubelet replaces a token; one nobody has exchanged is as good as another.
Rotate(f) ==
    /\ token[f] # Unspent
    /\ token' = [token EXCEPT ![f] = Unspent]
    /\ UNCHANGED <<setup, clients, usage, listed, late, pc, work>>

\* The access token of a client expires, later than the kubelet has replaced the
\* token it was minted for: that one lives for ten minutes, "well inside the
\* minted token's lifetime" (README.md:314).
Expire(k) ==
    /\ clients[k].access /\ token[k.file].by # clients[k].of
    /\ clients' = [clients EXCEPT ![k].access = FALSE]
    /\ UNCHANGED <<setup, token, usage, listed, late, pc, work>>

\* The process is restarted: the clients and access tokens in it are gone, and
\* its caches are filled anew.
Restart ==
    /\ pc' = [u \in User |-> "idle"] /\ work' = [u \in User |-> NoSetting]
    /\ clients' = [k \in Key |-> NoClient]
    /\ token' = [f \in Source |-> [token[f] EXCEPT !.ours = FALSE]]
    /\ listed' = usage
    /\ UNCHANGED <<setup, usage, late>>

SetConfig(c, v) ==
    /\ config' = [config EXCEPT ![c] = v]
    /\ UNCHANGED <<uses, secret, token, clients, usage, listed, pc, work>>

\* A ProviderConfig is edited, or created anew.
EditConfig(c, s) ==
    /\ s # config[c].spec \/ ~config[c].here
    /\ SetConfig(c, [here |-> TRUE, deleting |-> config[c].here /\ config[c].deleting, spec |-> s])
    /\ UNCHANGED late

\* The cache hears of a usage that was recorded.  (Release alone looks at the
\* cache: what it hears before the ProviderConfig is to be deleted it may as well
\* hear then.  A usage that was removed but is still listed only delays Release,
\* and is left out.)
ListUsage(u) ==
    /\ config[uses[u]].deleting
    /\ u \in usage \ listed /\ listed' = listed \cup {u}
    /\ UNCHANGED <<setup, token, clients, usage, late, pc, work>>

\* The controller of ProviderConfigs takes its finalizer away from one that is
\* to be deleted when it finds no usage in its cache.  One that was recorded a
\* moment ago may not be there yet.
Release(c) ==
    /\ config[c].here /\ config[c].deleting
    /\ \A u \in listed : uses[u] # c
    /\ SetConfig(c, [config[c] EXCEPT !.here = FALSE, !.deleting = FALSE])
    /\ late' = late \cup {u \in usage : uses[u] = c}

EditSecret(s) ==
    /\ secret' = [secret EXCEPT ![s] = ~@]
    /\ UNCHANGED <<uses, config, token, clients, usage, listed, late, pc, work>>

---------------------------------------------------------------------------
AccessTypeOK ==
    /\ uses \in [User -> Config]
    /\ config \in [Config -> [here: BOOLEAN, deleting: BOOLEAN, spec: Setting]]
    /\ secret \in [Source -> BOOLEAN]
    /\ token \in [Source -> [by: Setting \cup {NoSetting}, ours: BOOLEAN]]
    /\ clients \in [Key -> [of: Setting \cup {NoSetting}, access: BOOLEAN]]
    /\ usage \subseteq User /\ listed \subseteq usage /\ late \subseteq User
    /\ pc \in [User -> PC] /\ work \in [User -> Setting \cup {NoSetting}]
    /\ \A u \in User : work[u] = NoSetting <=> pc[u] \in {"idle", "resolved"}
    /\ edits \in 0..MaxEdits /\ faults \in 0..MaxFaults

\* A reconcile calls with the client of the ProviderConfig it has read: same
\* identity, same workspace, whatever clients of the same token file were built
\* before and whatever became of the ProviderConfig since.
CallsAsConfigured == \A u \in User : pc[u] = "connected" => ClientOf(u).of = work[u]

\* No exchange is refused needlessly: a client finds the token of its file spent
\* only if another identity or an earlier process has spent it.
NoNeedlessReplay ==
    \A u \in User : Refused(u) =>
        LET t == token[work[u].source] IN t.by # work[u] \/ ~t.ours
============================================================================
