------------------------------- MODULE Kinds -------------------------------
(***************************************************************************)
(* The twelve managed resource kinds of the provider that have no parent:  *)
(* agent, deployment, dream, environment, external key, federation issuer, *)
(* federation rule, memory store, service account, session, vault and      *)
(* workspace.  Their reconcilers are one program written twelve times;     *)
(* what differs is recorded here, and module ManagedResource is that       *)
(* program, parameterised by the record of a kind.                         *)
(*                                                                         *)
(* <Kind>Client says what the external client in reconciler.go does:       *)
(*   archivable   Observe treats an archived external resource as absent   *)
(*   removal      the calls Delete may make, by the deletion policy        *)
(*   updates      the kind has an update endpoint, and Observe diffs       *)
(*   locked       Update carries the observed version                      *)
(*   initializer  Setup replaces the default initializer by the one that   *)
(*                writes tags into spec.forProvider                        *)
(*                                                                         *)
(* <Kind>Fields says how the conversions move each field of                *)
(* spec.forProvider:                                                       *)
(*   sent      by ToAnthropicNew                                           *)
(*   resent    by ToAnthropicUpdate                                        *)
(*   mirrored  by FromAnthropicObservation, under the key the diff uses    *)
(*   sparse    mirrored, but with no key in status.atProvider when the     *)
(*             external value is empty                                     *)
(*   secret    resolved from a Secret, mirrored as a digest                *)
(* The diff compares nested fields one by one, so they are listed here one *)
(* by one where it matters.                                                *)
(* The pause state of a deployment is not sent by a conversion: Update     *)
(* calls an endpoint of its own for it.                                    *)
(***************************************************************************)

Client(archivable, removal, updates, locked, initializer) ==
    [archivable  |-> archivable,
     removal     |-> removal,
     updates     |-> updates,
     locked      |-> locked,
     initializer |-> initializer]

ArchiveOnly == {"archive"}
DeleteOnly  == {"delete"}
ByPolicy    == ArchiveOnly \cup DeleteOnly

---------------------------------------------------------------------------
(* managedagents.anthropic.crossplane.io *)

AgentClient == Client(TRUE, ArchiveOnly, TRUE, TRUE, TRUE)

AgentFields ==
    LET sparse == {"modelEffort", "modelInferenceGeo", "metadata", "multiagent",
                   "mcpServers", "skills", "tools"}
        all    == {"name", "model", "description"} \cup sparse
    IN  [sent |-> all, resent |-> all, mirrored |-> all, sparse |-> sparse,
         secret |-> {"system"}]

DeploymentClient == Client(TRUE, ArchiveOnly, TRUE, FALSE, TRUE)

DeploymentFields ==
    LET seen == {"name", "description", "agentId", "agentVersion", "environmentId",
                 "schedule", "vaultIds", "metadata", "budget"}
        all  == seen \cup {"initialEvents", "resources"}
    IN  [sent |-> all, resent |-> all \cup {"paused"}, mirrored |-> seen \cup {"paused"},
         sparse |-> {"vaultIds", "metadata", "budget"}, secret |-> {}]

DreamClient == Client(TRUE, ArchiveOnly, FALSE, FALSE, FALSE)

DreamFields ==
    LET all == {"inputs", "model", "instructions", "outputBehavior"}
    IN  [sent |-> all, resent |-> {}, mirrored |-> all,
         sparse |-> {"inputs", "outputBehavior"}, secret |-> {}]

EnvironmentClient == Client(TRUE, ByPolicy, TRUE, FALSE, TRUE)

EnvironmentFields ==
    LET sparse == {"metadata", "scope", "allowMcpServers", "allowPackageManagers",
                   "allowedHosts", "packages"}
        all    == {"name", "description", "networkingType"} \cup sparse
    IN  [sent |-> all, resent |-> all, mirrored |-> all, sparse |-> sparse,
         secret |-> {}]

MemoryStoreClient == Client(TRUE, ByPolicy, TRUE, FALSE, TRUE)

MemoryStoreFields ==
    LET all == {"name", "description", "metadata"}
    IN  [sent |-> all, resent |-> all, mirrored |-> all, sparse |-> {"metadata"},
         secret |-> {}]

SessionClient == Client(TRUE, ByPolicy, TRUE, FALSE, TRUE)

SessionFields ==
    LET resent == {"title", "metadata", "budget"}
        seen   == resent \cup {"agentId", "environmentId", "vaultIds"}
    IN  [sent |-> seen \cup {"agentVersion", "resources", "initialEvents"},
         resent |-> resent, mirrored |-> seen,
         sparse |-> {"metadata", "budget", "vaultIds"}, secret |-> {}]

VaultClient == Client(TRUE, ByPolicy, TRUE, FALSE, TRUE)

VaultFields ==
    LET all == {"displayName", "metadata"}
    IN  [sent |-> all, resent |-> all, mirrored |-> all, sparse |-> {"metadata"},
         secret |-> {}]

---------------------------------------------------------------------------
(* organization.anthropic.crossplane.io *)

ExternalKeyClient == Client(FALSE, DeleteOnly, TRUE, FALSE, FALSE)

ExternalKeyFields ==
    LET sparse == {"type", "kmsArn", "region", "keyName", "tenantId", "vaultUri",
                   "clientId"}
        all    == {"displayName", "geo"} \cup sparse
    IN  [sent |-> all, resent |-> all, mirrored |-> all, sparse |-> sparse,
         secret |-> {}]

FederationIssuerClient == Client(TRUE, ArchiveOnly, TRUE, FALSE, FALSE)

FederationIssuerFields ==
    LET sparse == {"type", "discoveryBase", "url", "caCertPem", "keys"}
        all    == {"name", "issuerUrl", "checkJti", "maxJwtLifetimeSeconds"} \cup sparse
    IN  [sent |-> all, resent |-> all \cup {"jwksPollingDisabled"}, mirrored |-> all,
         sparse |-> sparse, secret |-> {}]

FederationRuleClient == Client(TRUE, ArchiveOnly, TRUE, FALSE, FALSE)

FederationRuleFields ==
    LET sparse == {"serviceAccountId", "workspaceId", "subjectPrefix", "audience",
                   "condition", "claims"}
        resent == {"name", "description", "oauthScope", "appliesToAllWorkspaces",
                   "tokenLifetimeSeconds"} \cup sparse
        all    == resent \cup {"issuerId"}
    IN  [sent |-> all, resent |-> resent, mirrored |-> all, sparse |-> sparse,
         secret |-> {}]

ServiceAccountClient == Client(TRUE, ArchiveOnly, TRUE, FALSE, FALSE)

ServiceAccountFields ==
    LET all == {"name", "description", "organizationRole"}
    IN  [sent |-> all, resent |-> all \ {"name"}, mirrored |-> all, sparse |-> {},
         secret |-> {}]

WorkspaceClient == Client(TRUE, ArchiveOnly, TRUE, FALSE, TRUE)

WorkspaceFields ==
    LET resent == {"name", "displayColor", "externalKeyId", "tags",
                   "defaultInferenceGeo", "allowedInferenceGeos"}
        all    == resent \cup {"workspaceGeo"}
    IN  [sent |-> all, resent |-> resent, mirrored |-> all,
         sparse |-> resent \ {"name", "displayColor"}, secret |-> {}]

---------------------------------------------------------------------------
(***************************************************************************)
(* Fields that the conversions and the diff treat alike cannot be told     *)
(* apart by the reconciler, so a kind keeps one representative, a slot,    *)
(* for every way of treating a field that occurs in it.                    *)
(***************************************************************************)
Slot == {"plain", "sparse", "frozen", "blind", "late", "switch", "secret"}

FieldsOf(f) ==
    [plain  |-> (f.sent \cap f.resent \cap f.mirrored) \ f.sparse,
     sparse |-> f.sent \cap f.resent \cap f.sparse,
     frozen |-> (f.sent \cap f.mirrored) \ f.resent,
     blind  |-> (f.sent \cap f.resent) \ f.mirrored,
     late   |-> f.resent \ (f.sent \cup f.mirrored),
     switch |-> (f.resent \cap f.mirrored) \ f.sent,
     secret |-> f.secret]

KindType ==
    [archivable: BOOLEAN, removal: SUBSET ByPolicy, updates: BOOLEAN,
     locked: BOOLEAN, tagged: BOOLEAN, slots: SUBSET Slot]

(***************************************************************************)
(* The behaviour of a kind, under --skip-default-metadata or not.          *)
(***************************************************************************)
Kind(client, fields, skipDefaultMetadata) ==
    [archivable |-> client.archivable,
     removal    |-> client.removal,
     updates    |-> client.updates,
     locked     |-> client.locked,
     tagged     |-> client.initializer /\ ~skipDefaultMetadata,
     slots      |-> {s \in Slot : FieldsOf(fields)[s] # {}}]

AgentsKinds(skip) ==
    {Kind(AgentClient, AgentFields, skip),
     Kind(DeploymentClient, DeploymentFields, skip),
     Kind(DreamClient, DreamFields, skip),
     Kind(EnvironmentClient, EnvironmentFields, skip),
     Kind(MemoryStoreClient, MemoryStoreFields, skip),
     Kind(SessionClient, SessionFields, skip),
     Kind(VaultClient, VaultFields, skip)}

OrganizationKinds(skip) ==
    {Kind(ExternalKeyClient, ExternalKeyFields, skip),
     Kind(FederationIssuerClient, FederationIssuerFields, skip),
     Kind(FederationRuleClient, FederationRuleFields, skip),
     Kind(ServiceAccountClient, ServiceAccountFields, skip),
     Kind(WorkspaceClient, WorkspaceFields, skip)}

AllKinds == UNION {AgentsKinds(skip) \cup OrganizationKinds(skip) : skip \in BOOLEAN}
============================================================================
