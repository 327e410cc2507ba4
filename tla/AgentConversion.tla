-------------------------- MODULE AgentConversion --------------------------
(***************************************************************************)
(* What the agent's conversions send and mirror, field by field            *)
(* (apis/managedagents/v1beta1/agent_conversion.go).  A union is a map     *)
(* with the fields of its variant; the keys are those of the manifest.     *)
(***************************************************************************)
EXTENDS Trees

CONSTANT OwnId    \* the identifier of the resource the manifest is of

---------------------------------------------------------------------------
(* Requests. *)

agentSkillToParam(s) ==
    Variant(IF Text(s, "type") = "anthropic" THEN "anthropic" ELSE "custom",
            s, {"skillId"}, {})

agentRosterEntryToParam(e) ==
    CASE Text(e, "type") = "self"    -> Variant("self", e, {}, {})
      [] Text(e, "type") = "advisor" -> Variant("advisor", e, {"model"}, {})
      [] OTHER                       -> Variant("agent", e, {"id"}, {"version"})

agentMultiagentToParam(m) ==
    Field("type", Leaf("coordinator")) ++ Each(m, "agents", agentRosterEntryToParam)

Policies == {"always_allow", "always_ask", "auto"}

\* A policy that is none of these leaves the union empty, and it is not sent.
toolPermissionPolicy(c) ==
    IF Text(c, "permissionPolicy") \in Policies
    THEN Only(c, {"permissionPolicy"})
    ELSE NoField

toolDefaultConfig(d) == Only(d, {"enabled"}) ++ toolPermissionPolicy(d)

\* Mutant of agentToolOverrideParam: the allowed domains are sent as blocked.
overrideMixesDomains(c) ==
    LET common == Field("name", Leaf(Text(c, "name"))) ++ toolDefaultConfig(c)
    IN  common ++ Only(c, {"maxContentTokens", "userLocation"})
            ++ (IF "allowedDomains" \in Keys(c)
                THEN Field("blockedDomains", At(c, "allowedDomains")) ELSE NoField)

\* The variant is selected by the tool name; an unknown name yields none.
agentToolOverrideParam(c) ==
    LET name   == Text(c, "name")
        common == Field("name", Leaf(name)) ++ toolDefaultConfig(c)
    IN  CASE name \in {"bash", "edit", "read", "write", "glob", "grep"} -> common
          [] name = "web_fetch" ->
                common ++ Only(c, {"allowedDomains", "blockedDomains", "maxContentTokens"})
          [] name = "web_search" ->
                common ++ Only(c, {"allowedDomains", "blockedDomains", "userLocation"})
          [] OTHER -> Nothing

agentToolsetParam(t) ==
    Field("type", Leaf("agent_toolset_20260401"))
        ++ Given(t, "defaultConfig", toolDefaultConfig)
        ++ Each(t, "configs", agentToolOverrideParam)

mcpToolConfig(c) == Fields(c, {"name"}, {}) ++ toolDefaultConfig(c)

mcpToolsetParam(t) ==
    Variant("mcp_toolset", t, {"mcpServerName"}, {})
        ++ Given(t, "defaultConfig", toolDefaultConfig)
        ++ Each(t, "configs", mcpToolConfig)

customToolParam(t) == Variant("custom", t, {"name", "description", "inputSchema"}, {})

\* The same for New and Update.
agentToolToParam(t) ==
    CASE Text(t, "type") = "mcp_toolset" -> mcpToolsetParam(t)
      [] Text(t, "type") = "custom"      -> customToolParam(t)
      [] OTHER                           -> agentToolsetParam(t)

agentMcpServerToParam(s) == Variant("url", s, {"name", "url"}, {})

\* The model is sent whole as soon as one of its three fields is set.
agentModelConfigToParam(p) ==
    IF Keys(p) \cap {"model", "modelEffort", "modelInferenceGeo"} = {} THEN NoField
    ELSE Field("model", Field("id", Leaf(Text(p, "model")))
                            ++ Only(p, {"modelEffort", "modelInferenceGeo"}))

agentTopology(p) ==
    Sub(p, "multiagent", agentMultiagentToParam)
        ++ Each(p, "mcpServers", agentMcpServerToParam)
        ++ Each(p, "skills", agentSkillToParam)
        ++ Each(p, "tools", agentToolToParam)

agentToAnthropicNew(p, system) ==
    Fields(p, {"name"}, {"description", "metadata"})
        ++ agentModelConfigToParam(p) ++ NonEmpty("system", Leaf(system)) ++ agentTopology(p)

\* The version the update is for is in module ManagedResource.
agentToAnthropicUpdate(p, system) ==
    Only(p, {"name", "description", "metadata"})
        ++ agentModelConfigToParam(p) ++ NonEmpty("system", Leaf(system)) ++ agentTopology(p)

---------------------------------------------------------------------------
(* Observations. *)

\* Mutant of rosterEntryFromObservation: as the API has it.
rosterEntryAsIs(e) == Only(e, {"type", "id", "version", "model"})

\* The API resolves an entry "self" to the agent; it is turned back by its id,
\* and so is an entry that names the agent by its id.
rosterEntryFromObservation(e) ==
    IF Text(e, "type") = "advisor" THEN Only(e, {"type", "model"})
    ELSE IF Text(e, "id") = OwnId
         THEN Field("type", Leaf("self")) ++ Only(e, {"id", "version"})
         ELSE Only(e, {"type", "id", "version"})

agentMultiagentFromObservation(m) == Each(m, "agents", rosterEntryFromObservation)

\* Domains, location and limit are left out when they are empty.
agentToolOverrideFromObservation(c) ==
    Only(c, {"name", "enabled", "permissionPolicy", "allowedDomains", "blockedDomains",
             "maxContentTokens", "userLocation"})

\* No default config in the response: none in the status.
toolsetDefaultFromObservation(d) == Only(d, {"enabled", "permissionPolicy"})

agentToolFromObservation(t) ==
    Only(t, {"type"}) ++
    CASE Text(t, "type") = "agent_toolset_20260401" ->
            Sub(t, "defaultConfig", toolsetDefaultFromObservation)
                ++ Each(t, "configs", agentToolOverrideFromObservation)
      [] Text(t, "type") = "mcp_toolset" ->
            Only(t, {"mcpServerName", "configs"})
                ++ Sub(t, "defaultConfig", toolsetDefaultFromObservation)
      [] OTHER -> Only(t, {"name", "description", "inputSchema"})

agentMcpServerFromObservation(s) == Only(s, {"name", "url"})
agentSkillFromObservation(s)     == Only(s, {"skillId", "type"})

\* The prompt is kept as its digest only; distinct prompts, distinct digests.
agentFromAnthropicObservation(r) ==
    Field("id", Leaf(OwnId))
        ++ Fields(r, {"name", "description"}, {"metadata"})
        ++ Field("model", NoField ++ Only(At(r, "model"), {"id"}))
        ++ Only(At(r, "model"), {"modelEffort", "modelInferenceGeo"})
        ++ NonEmpty("systemSha256", Leaf(Text(r, "system")))
        ++ Each(r, "mcpServers", agentMcpServerFromObservation)
        ++ Each(r, "skills", agentSkillFromObservation)
        ++ Each(r, "tools", agentToolFromObservation)
        ++ Sub(r, "multiagent", agentMultiagentFromObservation)

\* Mutant of agentIsUpToDate: the prompt is not compared.
agentIsUpToDateIgnoresDigest(p, observed, system) == IsSubsetEqual(p, observed)

\* The digest is compared apart, and only when there is a prompt.
agentIsUpToDate(p, observed, system) ==
    /\ IsSubsetEqual(p, observed)
    /\ system # "" => Text(observed, "systemSha256") = system

---------------------------------------------------------------------------
(***************************************************************************)
(* The API (external): what it stores of what it is sent.  explicit says   *)
(* whether it spells out the default config of a toolset that has none.    *)
(***************************************************************************)
Enabled(c) == c ++ Field("enabled", Leaf("true")) ++ Field("permissionPolicy", Leaf("always_allow"))

StoredTool(t, explicit) ==
    IF Text(t, "type") = "custom" THEN t
    ELSE Sub(t, "defaultConfig", Enabled) ++ Each(t, "configs", Enabled) ++ t
            ++ (IF explicit THEN Field("defaultConfig", Enabled(NoField)) ELSE NoField)

StoredRosterEntry(e) ==
    CASE Text(e, "type") = "advisor" -> e
      [] Text(e, "type") = "self"    -> Field("id", Leaf(OwnId)) ++ Field("type", Leaf("agent"))
                                            ++ Field("version", Leaf("latest"))
      [] OTHER                       -> e ++ Field("version", Leaf("latest"))

StoredAgent(r, explicit) ==
    LET tool(t)   == StoredTool(t, explicit)
        roster(m) == Each(m, "agents", StoredRosterEntry) ++ m
    IN  Each(r, "tools", tool) ++ Sub(r, "multiagent", roster) ++ r
============================================================================
