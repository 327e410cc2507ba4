---------------------------- MODULE Conversion ----------------------------
(***************************************************************************)
(* One live resource of a kind with nested fields, and what passes between *)
(* manifest, provider and API: Create and Update send what the conversions *)
(* make of the manifest, Observe mirrors what the API answers and compares *)
(* the two, while users edit the manifest and the Secrets it refers to,    *)
(* and others edit the resource at Anthropic.  Module ManagedResource has  *)
(* the life of the resource and the failures of the worker; here the       *)
(* values are as deep as they are in the code.                             *)
(***************************************************************************)
EXTENDS AgentConversion, CredentialConversion

CONSTANTS
    Base,        \* by kind: the manifest with its required fields only
    Options,     \* by kind and field: the values a user may give it
    Key,         \* the keys of Secrets that manifests refer to
    SecretValue, \* what may be stored under a key
    MaxEdits     \* bound: edits of manifest, Secrets and external resource

ASSUME KindsAssumption ==
    DOMAIN Base \subseteq {"agent", "deployment", "session", "environment", "credential"}

---------------------------------------------------------------------------
(***************************************************************************)
(* Manifests.  The API server admits what the CRD allows: what is one of   *)
(* an enumeration is one of those, or not there, what is a struct is a map *)
(* and what is a string is not.                                            *)
(***************************************************************************)
OneOf(e, k, values) == k \in Keys(e) => Text(e, k) \in values

\* What v has under the keys K.
Parts(v, K) == {At(v, k) : k \in K \cap Keys(v)}

\* The toolset's default config, and its configs for single tools.
ToolConfigs(t) == Parts(t, {"defaultConfig"}) \cup Elements(At(t, "configs"))

\* The structs in a field that is mirrored.
Structs(f, v) ==
    CASE f \in {"skills", "mcpServers"} -> Elements(v)
      [] f = "tools"      -> Elements(v) \cup UNION {ToolConfigs(t) : t \in Elements(v)}
      [] f = "multiagent" -> {v} \cup Elements(At(v, "agents"))
      [] f \in {"budget", "schedule", "config", "auth"} ->
            {v} \cup Parts(v, {"networking", "packages", "injectionLocation", "maxListCost"})
      [] OTHER            -> {}

\* The field of a request a secret goes into, the reference it comes from, and
\* the variant of a credential it is for.
SecretFields ==
    [system             |-> [ref |-> "systemSecretRef",             type |-> ""],
     authorizationToken |-> [ref |-> "authorizationTokenSecretRef", type |-> ""],
     token              |-> [ref |-> "tokenSecretRef",        type |-> "static_bearer"],
     accessToken        |-> [ref |-> "accessTokenSecretRef",  type |-> "mcp_oauth"],
     refreshToken       |-> [ref |-> "refreshTokenSecretRef", type |-> "mcp_oauth"],
     clientSecret       |-> [ref |-> "clientSecretSecretRef", type |-> "mcp_oauth"],
     secretValue        |-> [ref |-> "secretValueSecretRef",  type |-> "environment_variable"]]

\* The Secrets that v refers to are there; if not, nothing is sent at all.
Resolvable(v) ==
    \A n \in v : \A s \in DOMAIN SecretFields :
        n[1] # <<>> /\ Last(n[1]) = SecretFields[s].ref => n[2] \in Key \cup {""}

\* The fields are omitted when empty: a list in a manifest has an element.
NoEmptyList(v) ==
    \A n \in v : n[2] = "[]" => \E m \in v : m[1] # <<>> /\ Front(m[1]) = n[1]

Scalar(v) == \A n \in v : n[1] = <<>> /\ n[2] \notin {"{}", "[]"}

\* The type of the networking in v; versions are numbers.
Networked(v)    == OneOf(At(v, "networking"), "type", {"unrestricted", "limited"})
RosterEntry(e)  ==
    /\ OneOf(e, "type", {"agent", "self", "advisor"})
    /\ Scalar(At(e, "id")) /\ Scalar(At(e, "version")) /\ Text(e, "version") # "latest"

Admitted(f, v) ==
    /\ f \notin {"agent", "id", "systemSha256"} /\ Root(v) # {} /\ NoEmptyList(v)
    /\ \A e \in Structs(f, v) : IsMap(e)
    /\ f = "skills" => \A e \in Elements(v) : OneOf(e, "type", {"anthropic", "custom"})
    /\ f = "tools" =>
        \A e \in Elements(v) :
            /\ OneOf(e, "type", {"agent_toolset_20260401", "mcp_toolset", "custom"})
            /\ \A c \in ToolConfigs(e) : OneOf(c, "permissionPolicy", Policies)
    /\ f = "multiagent" => \A e \in Elements(At(v, "agents")) : RosterEntry(e)
    /\ f = "metadata" => IsMap(v) /\ \A e \in Elements(v) : Scalar(e)
    /\ f \in {"config", "auth"} => Networked(v)
    /\ f = "auth" =>
        /\ OneOf(v, "type", {"static_bearer", "mcp_oauth", "environment_variable"})
        /\ Keys(At(v, "injectionLocation")) \subseteq {"body", "header"}
        /\ \A e \in Elements(At(v, "injectionLocation")) : Scalar(e)
    /\ f \in {"multiagent", "budget", "schedule"} => "type" \notin Keys(v)
    /\ f = "mcpServers" => \A e \in Elements(v) : "type" \notin Keys(e)
    /\ f \in {"model", "modelEffort", "modelInferenceGeo", "agentId", "agentVersion"} => Scalar(v)
    /\ f \in {"systemSecretRef", "resources", "auth"} => Resolvable(Field(f, v))

Manifest(p) ==
    /\ IsTree(p) /\ Root(p) = NoField
    /\ \A f \in Keys(p) : Admitted(f, At(p, f))

ASSUME ManifestAssumption ==
    \A k \in DOMAIN Base :
        /\ Manifest(Base[k])
        /\ \A f \in DOMAIN Options[k] : \A v \in Options[k][f] : IsTree(v) /\ Admitted(f, v)

\* A scalar is not a mark.
ASSUME TextAssumption ==
    /\ SecretValue # {} /\ SecretValue \cap {"{}", "[]", "nothing"} = {}
    /\ OwnId \notin {"", "nothing", "{}", "[]"}

ASSUME BoundAssumption == MaxEdits \in Nat \ {0}

---------------------------------------------------------------------------

VARIABLES
    kind,     \* the kind of the resource; never changes
    spec,     \* spec.forProvider
    secrets,  \* the values of the Secrets
    ext,      \* the external resource, or Nothing
    pc,       \* where the worker is in a reconcile
    work,     \* the manifest as the worker has read it
    seen,     \* status.atProvider, as Observe has just set it
    sent,     \* the request just sent and the manifest it was made of, or NoRequest
    quiet,    \* nothing changed since a request was accepted
    edits

vars == <<kind, spec, secrets, ext, pc, work, seen, sent, quiet, edits>>

---------------------------------------------------------------------------
(***************************************************************************)
(* The conversions and the comparison, by kind.                            *)
(***************************************************************************)
System(p, keys) == ResolveLocalSecretKey(p, "systemSecretRef", keys)

ToAnthropicNew(k, p, keys) ==
    CASE k = "agent"       -> agentToAnthropicNew(p, System(p, keys))
      [] k = "deployment"  -> deploymentToAnthropicNew(p, keys)
      [] k = "session"     -> sessionToAnthropicNew(p, keys)
      [] k = "environment" -> environmentToAnthropicNew(p)
      [] k = "credential"  -> credentialToAnthropicNew(p, keys)

ToAnthropicUpdate(k, p, keys) ==
    CASE k = "agent"       -> agentToAnthropicUpdate(p, System(p, keys))
      [] k = "deployment"  -> deploymentToAnthropicUpdate(p, keys)
      [] k = "session"     -> sessionToAnthropicUpdate(p)
      [] k = "environment" -> environmentToAnthropicUpdate(p)
      [] k = "credential"  -> credentialToAnthropicUpdate(p, keys)

FromAnthropicObservation(k, r) ==
    CASE k = "agent"       -> agentFromAnthropicObservation(r)
      [] k = "deployment"  -> deploymentFromAnthropicObservation(r)
      [] k = "session"     -> sessionFromAnthropicObservation(r)
      [] k = "environment" -> environmentFromAnthropicObservation(r)
      [] k = "credential"  -> credentialFromAnthropicObservation(r)

IsUpToDate(p, observed) ==
    IF kind = "agent" THEN agentIsUpToDate(p, observed, System(p, secrets))
    ELSE IsSubsetEqual(p, observed)

---------------------------------------------------------------------------
(***************************************************************************)
(* The API (external).                                                     *)
(***************************************************************************)
Deep == {"metadata", "auth", "refresh", "tokenEndpointAuth", "injectionLocation", "config"}

\* Defaults in what is sent, and in what becomes of a resource.
Filled(params, explicit) ==
    CASE kind = "agent"                    -> StoredAgent(params, explicit)
      [] kind \in {"deployment", "session"} -> Sub(params, "agent", StoredAgentRef) ++ params
      [] OTHER                             -> params

Completed(r) ==
    CASE kind = "environment" -> StoredEnvironment(r)
      [] kind = "credential"  -> StoredCredential(r)
      [] OTHER                -> r

\* A list that is empty is not there.
Stored(r) == Without(Completed(r), EmptyLists(Completed(r)))

\* What is required is there, and a credential keeps its type.
Accepted(params, old) ==
    /\ ~Rejected(params)
    /\ kind = "agent" /\ old = Nothing => "model" \in Keys(params)
    /\ kind = "credential" /\ old # Nothing /\ "auth" \in Keys(params) =>
            Text(At(params, "auth"), "type") = Text(At(old, "auth"), "type")

\* Only for an agent is there a choice.
Answers == IF kind = "agent" THEN BOOLEAN ELSE {FALSE}

\* The resource after a request; explicit is the API's choice.
After(params, old, explicit) ==
    LET new == Filled(params, explicit)
    IN  Stored(IF old = Nothing THEN new ELSE Patch(old, new, Deep))

\* A request, and the manifest it was made of.
Request(params, p) == [params |-> params, of |-> p]
NoRequest          == Request(Nothing, Nothing)

---------------------------------------------------------------------------
(***************************************************************************)
(* Users, and others with access to the resource.                          *)
(***************************************************************************)
FirstSecrets == [r \in Key |-> CHOOSE v \in SecretValue : TRUE]

\* The manifests with one of the optional fields, and the updates that others send.
Simple ==
    [k \in DOMAIN Base |->
        UNION {{Field(f, v) ++ Base[k] : v \in Options[k][f]} : f \in DOMAIN Options[k]}]

OtherUpdates == [k \in DOMAIN Base |-> {ToAnthropicUpdate(k, p, FirstSecrets) : p \in Simple[k]}]

\* A manifest with up to two of the optional fields; or one with one field, that
\* takes over a resource somebody made with another (the external name is given).
Init ==
    /\ kind \in DOMAIN Base
    /\ secrets = FirstSecrets
    /\ \/ /\ \E one \in Simple[kind], f \in DOMAIN Options[kind] : \E v \in Options[kind][f] :
                spec = Field(f, v) ++ one
          /\ ext = Nothing /\ edits = 0
       \/ /\ \E other \in Simple[kind] :
                LET params == ToAnthropicNew(kind, other, FirstSecrets)
                IN  Accepted(params, Nothing) /\ ext = After(params, Nothing, FALSE)
          /\ spec \in Simple[kind] /\ edits = 1
    /\ pc = "idle" /\ work = Nothing /\ seen = Nothing
    /\ sent = NoRequest /\ quiet = FALSE

Edit ==
    /\ edits < MaxEdits
    /\ edits' = edits + 1
    /\ quiet' = FALSE /\ sent' = NoRequest
    /\ UNCHANGED <<kind, pc, work, seen>>

\* The manifest gets another value for a field, or loses an optional one.
EditSpec ==
    /\ \E k \in DOMAIN Options[kind] :
        \/ \E v \in Options[kind][k] : spec' = Field(k, v) ++ spec
        \/ k \notin Keys(Base[kind]) /\ spec' = Without(spec, {k})
    /\ spec' # spec
    /\ Edit
    /\ UNCHANGED <<secrets, ext>>

\* A Secret the manifest refers to gets another value.
Rotate ==
    /\ \E r \in {l[2] : l \in Leaves(spec)} \cap Key : \E v \in SecretValue \ {secrets[r]} :
            secrets' = [secrets EXCEPT ![r] = v]
    /\ Edit
    /\ UNCHANGED <<spec, ext>>

\* Somebody sets a field of the resource, as a manifest would, or clears it.
OutOfBand ==
    /\ ext # Nothing
    /\ \/ \E params \in OtherUpdates[kind] :
            Accepted(params, ext) /\ ext' = After(params, ext, FALSE)
       \/ \E k \in DOMAIN Options[kind] \cap Keys(ext) :
            k \notin Keys(Base[kind]) /\ ext' = Stored(Without(ext, {k}))
    /\ ext' # ext
    /\ Edit
    /\ UNCHANGED <<spec, secrets>>

---------------------------------------------------------------------------
(***************************************************************************)
(* The worker.                                                             *)
(***************************************************************************)
Return == pc' = "idle" /\ work' = Nothing /\ seen' = Nothing

Create ==
    /\ pc = "idle" /\ ext = Nothing
    /\ LET params == ToAnthropicNew(kind, spec, secrets) IN
        /\ sent' = Request(params, spec)
        /\ IF Accepted(params, Nothing)
           THEN \E explicit \in Answers : ext' = After(params, Nothing, explicit) /\ quiet' = TRUE
           ELSE UNCHANGED <<ext, quiet>>
    /\ UNCHANGED <<kind, spec, secrets, pc, work, seen, edits>>

\* Mutant of Observe: the status keeps what it had.
ObserveKeepsStatus ==
    /\ pc = "idle" /\ ext # Nothing
    /\ pc' = "observed" /\ work' = spec /\ sent' = NoRequest
    /\ UNCHANGED <<kind, spec, secrets, ext, seen, quiet, edits>>

Observe ==
    /\ pc = "idle" /\ ext # Nothing
    /\ pc' = "observed" /\ work' = spec /\ sent' = NoRequest
    /\ seen' = FromAnthropicObservation(kind, ext)
    /\ UNCHANGED <<kind, spec, secrets, ext, quiet, edits>>

\* The comparison is part of Observe; secrets are read again for the request.
Rest ==
    /\ pc = "observed" /\ IsUpToDate(work, seen)
    /\ Return /\ sent' = NoRequest
    /\ UNCHANGED <<kind, spec, secrets, ext, quiet, edits>>

Update ==
    /\ pc = "observed" /\ ~IsUpToDate(work, seen)
    /\ LET params == ToAnthropicUpdate(kind, work, secrets) IN
        /\ sent' = Request(params, work)
        /\ IF Accepted(params, ext)
           THEN \E explicit \in Answers :
                    ext' = After(params, ext, explicit) /\ quiet' = (work = spec)
           ELSE UNCHANGED ext /\ quiet' = FALSE
    /\ Return
    /\ UNCHANGED <<kind, spec, secrets, edits>>

Next == EditSpec \/ Rotate \/ OutOfBand \/ Create \/ Observe \/ Rest \/ Update

Spec == Init /\ [][Next]_vars

---------------------------------------------------------------------------
(***************************************************************************)
(* Properties.                                                             *)
(***************************************************************************)

\* The variables hold what their declarations say; the worker has a copy of the
\* manifest and a status just when it has observed.
TypeOK ==
    /\ kind \in DOMAIN Base
    /\ Manifest(spec) /\ Keys(Base[kind]) \subseteq Keys(spec)
    /\ secrets \in [Key -> SecretValue]
    /\ ext = Nothing \/ (IsTree(ext) /\ IsMap(ext) /\ ~Rejected(ext))
    /\ pc \in {"idle", "observed"}
    /\ \A v \in {work, seen} : IsMap(v) <=> pc = "observed"
    /\ quiet \in BOOLEAN /\ edits \in 0..MaxEdits

\* Secrets go where they belong: each one in a request is the value of the key
\* that the same entry of the manifest refers to for that purpose, and is for
\* the variant of the credential; and of the repositories that are sent, each
\* gets its token, though the code matches tokens by position.
SecretsGoWhereTheyBelong ==
    LET params == sent.params  of == sent.of IN
    /\ \A n \in Leaves(params) \ of :
        n[2] \notin {"", "nothing"} /\ n[1] # <<>> /\ Last(n[1]) \in DOMAIN SecretFields =>
            LET origin == SecretFields[Last(n[1])] IN
            /\ \E r \in Key : /\ <<Append(Front(n[1]), origin.ref), r>> \in of
                             /\ n[2] = secrets[r]
            /\ kind = "credential" => Text(At(of, "auth"), "type") = origin.type
    /\ "resources" \in Keys(params) =>
        \A i \in Keys(At(of, "resources")) :
            LET resource == At(At(of, "resources"), i)
                token    == ResolveLocalSecretKey(resource, "authorizationTokenSecretRef", secrets)
            IN  Text(resource, "type") = "github_repository" /\ token # "" =>
                    <<(<<"resources", i, "authorizationToken">>), token>> \in params

\* Where a value that is sent under another name stands in the manifest.
Renamed(path) ==
    CASE path = <<"model", "id">> -> <<"model">>
      [] path \in {<<"model", "modelEffort">>, <<"model", "modelInferenceGeo">>} -> Tail(path)
      [] path \in {<<"agent">>, <<"agent", "id">>} -> <<"agentId">>
      [] path = <<"agent", "version">> -> <<"agentVersion">>
      [] OTHER -> path

\* What the conversions say of their own accord: the variant the manifest does
\* not name, the media type of a plain text, and that a block of a system message
\* is text, whatever the manifest says.
Added(n, of) ==
    \/ Last(n[1]) = "type" /\ n[1] \notin Paths(of)
    \/ n[2] = "text/plain" /\ Last(n[1]) = "mediaType"
    \/ /\ n[2] = "text" /\ Last(n[1]) = "type" /\ Head(n[1]) = "initialEvents"
       /\ Text(At(At(of, "initialEvents"), n[1][2]), "type") = "system.message"

\* Nothing is made up: every value in a request is in the manifest, at the same
\* place of the same entry, but for secrets, and for what makes the API reject
\* the request.
SentAsAsked ==
    \A n \in Leaves(sent.params) :
        \/ n[2] \in {"", "nothing"}
        \/ <<Renamed(n[1]), n[2]>> \in sent.of
        \/ n[1] # <<>> /\ (Last(n[1]) \in DOMAIN SecretFields \/ Added(n, sent.of))

\* Observed otherwise than asked for, in one of the fields K.
Differs(asked, is, K) ==
    \E k \in K \cap Keys(asked) \cap Keys(is) : ~IsSubsetEqual(At(asked, k), At(is, k))

\* What no update can bring about: to name the agent itself in its roster other
\* than as "self", or "self" with a version; to change what is sent on creation
\* only, or a version without its agent; and to change what is in a union that
\* the manifest gives no type.
Hopeless(k, p, observed) ==
    CASE k = "agent" ->
            "multiagent" \in Keys(p) /\
            \E e \in Elements(At(At(p, "multiagent"), "agents")) :
                \/ Text(e, "type") = "agent" /\ Text(e, "id") = OwnId
                \/ Text(e, "type") = "self" /\ ~OneOf(e, "id", {OwnId})
                \/ Text(e, "type") = "self" /\ "version" \in Keys(e)
      [] k = "deployment" ->
            "agentId" \notin Keys(p) /\ Differs(p, observed, {"agentVersion"})
      [] k = "session" -> Differs(p, observed, {"agentId", "environmentId", "vaultIds"})
      [] k = "environment" ->
            LET asked == At(p, "config")  is == At(observed, "config")
            IN  "type" \notin Keys(At(asked, "networking")) /\ Differs(asked, is, {"networking"})
      [] k = "credential" ->
            LET asked   == At(p, "auth")  is == At(observed, "auth")
                untyped == "type" \notin Keys(asked) \/ "type" \notin Keys(At(asked, "networking"))
            IN  \/ Differs(asked, is, {"mcpServerUrl", "secretName"})
                \/ untyped /\ Differs(asked, is, {"networking"})
                \/ "type" \notin Keys(asked) /\ Differs(asked, is, {"injectionLocation"})
      [] OTHER -> FALSE

\* One request is enough: after one that the API has accepted, and with nobody
\* interfering, Observe finds the resource up to date, whatever defaults the API
\* filled in, and no Update follows; but for what is hopeless, which is sent
\* again at every reconcile.
OneRequestSettles ==
    pc = "observed" /\ quiet => (IsUpToDate(work, seen) <=> ~Hopeless(kind, work, seen))

\* Nothing is missed: if the resource is found up to date, an Update would not
\* change any value that the manifest asks for and the status shows, unless what
\* it asks for is hopeless.
NothingMissed ==
    pc = "observed" /\ work = spec /\ seen = FromAnthropicObservation(kind, ext)
        /\ IsUpToDate(work, seen) /\ ~Hopeless(kind, work, seen) =>
        LET params == ToAnthropicUpdate(kind, work, secrets)
            wanted == FromAnthropicObservation(kind, After(params, ext, FALSE))
            asked  == Paths(work) \cup {<<"model", "id">>, <<"systemSha256">>}
        IN  Accepted(params, ext) =>
                \A l \in Leaves(seen) :
                    l[1] \in asked \cap Paths(wanted) => l \in Leaves(wanted)

\* The field of the manifest that a field of the resource is sent from.
AskedBy(k) ==
    CASE k = "model"  -> {"model", "modelEffort", "modelInferenceGeo"}
      [] k = "agent"  -> {"agentId"}
      [] k = "system" -> {"systemSecretRef"}
      [] OTHER        -> {k}

\* An Update leaves alone what the manifest does not mention: a field is managed
\* only if it is set.
UnaskedUntouched ==
    [][pc = "observed" /\ ext # Nothing =>
        \A k \in Keys(ext) :
            AskedBy(k) \cap Keys(work) = {} /\ edits' = edits =>
                k \in Keys(ext') /\ At(ext', k) = At(ext, k)]_vars
============================================================================
