----------------------- MODULE DeploymentConversion -----------------------
(***************************************************************************)
(* What the conversions of deployment, session and environment send and    *)
(* mirror (apis/managedagents/v1beta1/<kind>_conversion.go).  Sessions     *)
(* share the events, resources and budget of deployments.  Module          *)
(* ManagedResource has the pause state of a deployment.                    *)
(***************************************************************************)
EXTENDS Trees

---------------------------------------------------------------------------
(* Initial events. *)

imageSourceToParam(s) ==
    CASE Text(s, "type") = "base64" -> Variant("base64", s, {"data", "mediaType"}, {})
      [] Text(s, "type") = "url"    -> Variant("url", s, {"url"}, {})
      [] Text(s, "type") = "file"   -> Variant("file", s, {"fileId"}, {})
      [] OTHER                      -> Nothing

\* The media type of a plain text is not the manifest's to say.
documentSourceToParam(s) ==
    CASE Text(s, "type") = "base64" -> Variant("base64", s, {"data", "mediaType"}, {})
      [] Text(s, "type") = "text"   ->
            Field("mediaType", Leaf("text/plain")) ++ Variant("text", s, {"data"}, {})
      [] Text(s, "type") = "url"    -> Variant("url", s, {"url"}, {})
      [] Text(s, "type") = "file"   -> Variant("file", s, {"fileId"}, {})
      [] OTHER                      -> Nothing

\* A union field that is required: without a value it has no variant.
Needed(v, k, Op(_)) == Field(k, IF k \in Keys(v) THEN Op(At(v, k)) ELSE Nothing)

contentBlockToParam(cb) ==
    CASE Text(cb, "type") = "text"     -> Variant("text", cb, {"text"}, {})
      [] Text(cb, "type") = "image"    ->
            Variant("image", cb, {}, {}) ++ Needed(cb, "source", imageSourceToParam)
      [] Text(cb, "type") = "document" ->
            Variant("document", cb, {}, {"context", "title"})
                ++ Needed(cb, "source", documentSourceToParam)
      [] OTHER                         -> Nothing

\* A system message has text blocks only, whatever type they claim.
systemBlockToParam(cb) == Variant("text", cb, {"text"}, {})

rubricToParam(r) ==
    CASE Text(r, "type") = "text" -> Variant("text", r, {"content"}, {})
      [] Text(r, "type") = "file" -> Variant("file", r, {"fileId"}, {})
      [] OTHER                    -> Nothing

\* What a session accepts; anything else yields a union the API rejects.
sessionInitialEventToParam(ev) ==
    CASE Text(ev, "type") = "user.message" ->
            Field("type", Leaf("user.message")) ++ Each(ev, "content", contentBlockToParam)
      [] Text(ev, "type") = "user.define_outcome" ->
            Variant("user.define_outcome", ev, {"description"}, {"maxIterations"})
                ++ Needed(ev, "rubric", rubricToParam)
      [] OTHER -> Nothing

\* A deployment accepts system messages as well.
deploymentInitialEventToParam(ev) ==
    IF Text(ev, "type") = "system.message"
    THEN Field("type", Leaf("system.message")) ++ Each(ev, "content", systemBlockToParam)
    ELSE sessionInitialEventToParam(ev)

---------------------------------------------------------------------------
(* Resources.  Tokens are resolved beforehand and matched by position. *)

\* The value of the Secret a field refers to; "" when there is no reference.
ResolveLocalSecretKey(v, ref, secrets) ==
    IF Text(v, ref) # "" THEN secrets[Text(v, ref)] ELSE ""

\* Mutant of ResourceTokens: repositories only, so the positions shift.
TokensOfRepositories(resources, secrets) ==
    LET n            == Cardinality(Keys(resources))
        items        == [i \in 1..n |-> At(resources, ToString(i))]
        repositories == SelectSeq(items, LAMBDA r : Text(r, "type") = "github_repository")
        number(k)    == CHOOSE i \in 1..n : ToString(i) = k
    IN  [k \in {ToString(i) : i \in DOMAIN repositories} |->
            ResolveLocalSecretKey(repositories[number(k)], "authorizationTokenSecretRef", secrets)]

\* One entry for every resource, of whatever type.
ResourceTokens(resources, secrets) ==
    [i \in Keys(resources) |->
        ResolveLocalSecretKey(At(resources, i), "authorizationTokenSecretRef", secrets)]

\* Past the end there is no token.
resourceToken(tokens, i) == IF i \in DOMAIN tokens THEN tokens[i] ELSE ""

\* A checkout that lacks what its type needs is not sent.
checkoutUnion(c) ==
    CASE Text(c, "type") = "branch" /\ "name" \in Keys(c) -> Variant("branch", c, {"name"}, {})
      [] Text(c, "type") = "commit" /\ "sha" \in Keys(c)  -> Variant("commit", c, {"sha"}, {})
      [] OTHER                                            -> NoField

repositoryParams(res, token) ==
    Variant("github_repository", res, {"url"}, {"mountPath"})
        ++ NonEmpty("authorizationToken", Leaf(token))
        ++ Given(res, "checkout", checkoutUnion)

fileResourceParams(res) == Variant("file", res, {"fileId"}, {"mountPath"})

memoryStoreResourceParams(res) ==
    Variant("memory_store", res, {"memoryStoreId"}, {"instructions", "access"})

resourceToParam(res, token) ==
    CASE Text(res, "type") = "github_repository" -> repositoryParams(res, token)
      [] Text(res, "type") = "file"              -> fileResourceParams(res)
      [] Text(res, "type") = "memory_store"      -> memoryStoreResourceParams(res)
      [] OTHER                                   -> Nothing

Resources(p, secrets) ==
    IF "resources" \notin Keys(p) THEN NoField
    ELSE LET rs     == At(p, "resources")
             tokens == ResourceTokens(rs, secrets)
             param  == [i \in Keys(rs) |-> resourceToParam(At(rs, i), resourceToken(tokens, i))]
         IN  Field("resources", Mapped(rs, param))

---------------------------------------------------------------------------
(* Agent, budget, schedule. *)

\* An agent with a version, or the plain id for the latest one.
agentUnion(p) ==
    CASE {"agentId", "agentVersion"} \subseteq Keys(p) ->
            Field("id", At(p, "agentId")) ++ Field("version", At(p, "agentVersion"))
                ++ Field("type", Leaf("agent"))
      [] "agentId" \notin Keys(p) -> Nothing
      [] OTHER                    -> At(p, "agentId")

maxListCost(c) == Fields(c, {"amount", "currency"}, {})

budgetLimitToParam(b) == Field("type", Leaf("limit")) ++ Needed(b, "maxListCost", maxListCost)

budgetLimitFromObservation(b) == Without(b, {"type"})

scheduleToParam(s) == Variant("cron", s, {"expression", "timezone"}, {})

\* There is always a schedule in the status, be it with empty fields.
scheduleFromObservation(r) ==
    Fields(IF "schedule" \in Keys(r) THEN At(r, "schedule") ELSE NoField,
           {"expression", "timezone"}, {})

---------------------------------------------------------------------------
(* Deployments. *)

deploymentCommon(p, secrets) ==
    Only(p, {"description", "metadata", "vaultIds"})
        ++ Sub(p, "budget", budgetLimitToParam) ++ Sub(p, "schedule", scheduleToParam)
        ++ Each(p, "initialEvents", deploymentInitialEventToParam)
        ++ Resources(p, secrets)

deploymentToAnthropicNew(p, secrets) ==
    Field("agent", agentUnion(p)) ++ Fields(p, {"name", "environmentId"}, {})
        ++ deploymentCommon(p, secrets)

\* An update without an agent leaves the agent alone.
agentUpdate(p) == IF "agentId" \in Keys(p) THEN Field("agent", agentUnion(p)) ELSE NoField

deploymentToAnthropicUpdate(p, secrets) ==
    agentUpdate(p) ++ Only(p, {"name", "environmentId"})
        ++ deploymentCommon(p, secrets)

\* Initial events and resources are not mirrored.
deploymentFromAnthropicObservation(r) ==
    Fields(r, {"name", "description", "environmentId"}, {"vaultIds", "metadata"})
        ++ Sub(r, "budget", budgetLimitFromObservation)
        ++ Field("agentId", At(At(r, "agent"), "id"))
        ++ Field("agentVersion", At(At(r, "agent"), "version"))
        ++ Field("schedule", scheduleFromObservation(r))

---------------------------------------------------------------------------
(* Sessions: most fields are sent once and never again. *)

sessionToAnthropicNew(p, secrets) ==
    Field("agent", agentUnion(p))
        ++ Fields(p, {"environmentId"}, {"title", "metadata", "vaultIds"})
        ++ Sub(p, "budget", budgetLimitToParam)
        ++ Each(p, "initialEvents", sessionInitialEventToParam)
        ++ Resources(p, secrets)

\* Mutant of sessionToAnthropicUpdate: a budget that is nil is sent, as empty.
sessionUpdateClearsBudget(p) ==
    Only(p, {"title", "metadata"}) ++ Sub(p, "budget", budgetLimitToParam) ++ Field("budget", NoField)

sessionToAnthropicUpdate(p) ==
    Only(p, {"title", "metadata"}) ++ Sub(p, "budget", budgetLimitToParam)

sessionFromAnthropicObservation(r) ==
    Fields(r, {"title", "environmentId"}, {"vaultIds", "metadata"})
        ++ Sub(r, "budget", budgetLimitFromObservation)
        ++ Field("agentId", At(At(r, "agent"), "id"))

---------------------------------------------------------------------------
(* Environments. *)

Managers == {"apt", "cargo", "gem", "go", "npm", "pip"}

\* A type that is neither yields a union without a variant, which is not sent.
envNetworkingToParam(n) ==
    CASE Text(n, "type") = "unrestricted" -> Variant("unrestricted", n, {}, {})
      [] Text(n, "type") = "limited"      ->
            Variant("limited", n, {}, {"allowMcpServers", "allowPackageManagers", "allowedHosts"})
      [] OTHER                            -> NoField

envPackagesToParam(k) == Only(k, Managers)

envCloudConfigToParam(c) ==
    Given(c, "networking", envNetworkingToParam) ++ Given(c, "packages", envPackagesToParam)

environmentToAnthropicNew(p) ==
    Fields(p, {"name"}, {"description", "metadata", "scope"})
        ++ Sub(p, "config", envCloudConfigToParam)

environmentToAnthropicUpdate(p) ==
    Only(p, {"name", "description", "metadata", "scope"})
        ++ Sub(p, "config", envCloudConfigToParam)

envNetworkingFromObservation(n) ==
    IF Text(n, "type") = "limited"
    THEN Only(n, {"type", "allowMcpServers", "allowPackageManagers", "allowedHosts"})
    ELSE Only(n, {"type"})

\* (If the API reports no scope, the status keeps the one it has; here it is as
\* reported.)
environmentFromAnthropicObservation(r) ==
    Fields(r, {"name", "description"}, {"metadata", "scope"})
        ++ Field("config", Sub(At(r, "config"), "networking", envNetworkingFromObservation)
                               ++ Sub(At(r, "config"), "packages", envPackagesToParam))

---------------------------------------------------------------------------
(***************************************************************************)
(* The API (external).                                                     *)
(***************************************************************************)
StoredAgentRef(a) ==
    IF IsMap(a) THEN a ELSE Field("id", a) ++ Field("version", Leaf("latest"))

StoredNetworking(n) ==
    IF Text(n, "type") # "limited" THEN n
    ELSE n ++ Field("allowMcpServers", Leaf("false"))
           ++ Field("allowPackageManagers", Leaf("false"))

StoredConfig(c) ==
    Sub(c, "networking", StoredNetworking) ++ c
        ++ Field("networking", Variant("unrestricted", c, {}, {})) ++ Field("packages", NoField)

StoredEnvironment(r) ==
    Field("config", StoredConfig(IF "config" \in Keys(r) THEN At(r, "config") ELSE NoField)) ++ r
============================================================================
