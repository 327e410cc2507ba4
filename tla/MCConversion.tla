--------------------------- MODULE MCConversion ---------------------------
(***************************************************************************)
(* Manifests for model checking module Conversion: every variant of every  *)
(* union, with and without its optional fields.                            *)
(***************************************************************************)
EXTENDS Conversion

\* A map of strings, and maps with one nested field.
Flat(r) == NoField \cup UNION {Under(k, Leaf(r[k])) : k \in DOMAIN r}
Strings(s) == List([i \in 1..Len(s) |-> Leaf(s[i])])

MCKey == {"k1", "k2"}
MCSecretValue == {"s1", "s2"}

Url == Leaf("u")
V   == {Leaf("a"), Leaf("b")}
Metadata == {Flat([x |-> "1"]), Flat([x |-> "2", y |-> "1"])}

---------------------------------------------------------------------------
RECURSIVE diff(_, _)
(***************************************************************************)
(* The comparison as the code has it, key by key from the top, to check    *)
(* IsSubsetEqual against on trees of every shape: scalars, maps and lists  *)
(* of them, and lists of those.                                            *)
(***************************************************************************)
diff(desired, observed) ==
    \A k \in Keys(desired) \cap Keys(observed) :
        LET dv == At(desired, k)  ov == At(observed, k) IN
        CASE IsMap(dv)  -> IsMap(ov) /\ diff(dv, ov)
          [] IsList(dv) ->
                /\ IsList(ov) /\ Keys(dv) = Keys(ov)
                /\ \A i \in Keys(dv) :
                    IF IsMap(At(dv, i)) THEN IsMap(At(ov, i)) /\ diff(At(dv, i), At(ov, i))
                    ELSE At(dv, i) = At(ov, i)
          [] OTHER      -> IF IsMap(ov) THEN dv = Leaf(Text(ov, "id")) ELSE dv = ov

Scalars == {Empty, Leaf("a")}
Maps    == {NoField} \cup {Field(k, v) : k \in {"id", "x"}, v \in Scalars}
               \cup {Field("id", v) ++ Field("x", w) : v, w \in Scalars}
Shapes  == Scalars \cup Maps \cup {List(<<>>), List(<<Empty>>), List(<<Leaf("a")>>)}
Samples == Shapes \cup {List(<<v, w>>) : v, w \in Shapes} \cup {List(<<v>>) : v \in Shapes}

ASSUME ComparisonAsInTheCode ==
    \A v, w \in {Field("x", s) : s \in Samples} : IsSubsetEqual(v, w) = diff(v, w)

---------------------------------------------------------------------------
Skills ==
    {List(<<Flat([type |-> "anthropic", skillId |-> "s"]),
            Flat([type |-> "custom", skillId |-> "s"]), Flat([skillId |-> "t"])>>)}

Roster(es) == Field("agents", List(es))

Rosters ==
    {Roster(<<Flat([type |-> "self"]), Flat([type |-> "agent", id |-> "other", version |-> "1"]),
              Flat([type |-> "advisor", model |-> "a"])>>),
     Roster(<<Flat([type |-> "self", id |-> "other"])>>),
     Roster(<<Flat([type |-> "self", id |-> ""])>>),
     Roster(<<Flat([type |-> "self", version |-> "1"])>>),
     Roster(<<Flat([id |-> "own", version |-> "1"])>>)}

Bash   == Flat([name |-> "bash", enabled |-> "false"])
Fetch  == Field("allowedDomains", Strings(<<"d">>))
              ++ Flat([name |-> "web_fetch", permissionPolicy |-> "auto", maxContentTokens |-> "9"])
Search == Field("blockedDomains", Strings(<<"d">>)) ++ Flat([name |-> "web_search"])
              ++ Field("userLocation", Flat([city |-> "c"]))
Schema == Field("inputSchema", Field("properties", Flat([q |-> "string"]))
                                   ++ Field("required", Strings(<<"q">>)))

Tools ==
    {List(<<Flat([type |-> "agent_toolset_20260401"]),
            Field("defaultConfig", Flat([enabled |-> "false"]))
                ++ Field("configs", List(<<Bash, Search, Fetch>>))>>),
     List(<<Field("configs", List(<<Flat([name |-> "unknown"])>>))>>),
     List(<<Flat([type |-> "mcp_toolset", mcpServerName |-> "m"])
                ++ Field("configs", List(<<Flat([name |-> "t", enabled |-> "false"])>>)),
            Flat([type |-> "custom", name |-> "n", description |-> "d"]) ++ Schema>>)}

AgentOptions ==
    [model           |-> {Leaf("a")},
     modelEffort     |-> {Leaf("low"), Leaf("high")},
     metadata        |-> {Flat([x |-> "1"])},
     systemSecretRef |-> {Leaf("k1"), Leaf("k2")},
     mcpServers      |-> {List(<<Flat([name |-> "m", url |-> "u"])>>), List(<<Flat([url |-> "u"])>>)},
     skills          |-> Skills,
     multiagent      |-> Rosters,
     tools           |-> Tools]

---------------------------------------------------------------------------
Content(c) == Field("content", List(c))
Image    == Flat([type |-> "image"])
               ++ Field("source", Flat([type |-> "base64", data |-> "d", mediaType |-> "p"]))
ImageUrl == Flat([type |-> "image"]) ++ Field("source", Flat([type |-> "url", url |-> "u"]))
Document(s) == Flat([type |-> "document", context |-> "c", title |-> "t"]) ++ Field("source", Flat(s))

Events ==
    {List(<<Flat([type |-> "system.message"])
               ++ Content(<<Flat([text |-> "t"]), Flat([type |-> "image", text |-> "t"])>>)>>),
     List(<<Flat([type |-> "user.message"])
               ++ Content(<<Flat([type |-> "text", text |-> "t"]), Image, ImageUrl,
                            Document([type |-> "text", data |-> "d", mediaType |-> "p"]),
                            Document([type |-> "file", fileId |-> "f"])>>),
            Flat([type |-> "user.define_outcome", description |-> "d"])
               ++ Field("rubric", Flat([type |-> "file", fileId |-> "f"]))>>),
     List(<<Flat([type |-> "user.message"]) ++ Content(<<Flat([type |-> "image"])>>)>>)}

Repo(ref, checkout) ==
    Flat([type |-> "github_repository", url |-> "u", authorizationTokenSecretRef |-> ref])
        ++ Field("checkout", Flat(checkout))
File  == Flat([type |-> "file", fileId |-> "f", mountPath |-> "p"])
Store == Flat([type |-> "memory_store", memoryStoreId |-> "m", access |-> "read_only"])

SomeResources ==
    {List(<<File, Repo("k1", [type |-> "branch", name |-> "b"]),
            Repo("k2", [type |-> "commit", sha |-> "s"])>>),
     List(<<Repo("k2", [type |-> "commit"]), Store>>)}

Budgets == {Field("maxListCost", Flat([amount |-> "1", currency |-> "USD"])), NoField}
Vaults  == {Strings(<<"v">>), Strings(<<"v", "w">>)}

DeploymentOptions ==
    [agentId       |-> V,
     agentVersion  |-> {Leaf("1"), Leaf("2")},
     description   |-> {Leaf("a")},
     metadata      |-> Metadata,
     budget        |-> Budgets,
     vaultIds      |-> Vaults,
     schedule      |-> {Flat([expression |-> "e", timezone |-> "z"]), Flat([expression |-> "e"])},
     initialEvents |-> Events,
     resources     |-> SomeResources]

SessionOptions ==
    [agentId       |-> V,
     agentVersion  |-> {Leaf("1")},
     title         |-> V,
     metadata      |-> {Flat([x |-> "1"])},
     budget        |-> Budgets,
     vaultIds      |-> Vaults,
     initialEvents |-> Events,
     resources     |-> SomeResources]

---------------------------------------------------------------------------
EnvironmentOptions ==
    [description |-> {Leaf("a")},
     metadata    |-> Metadata,
     scope       |-> V,
     config      |->
        {Field("networking", Flat([type |-> "unrestricted", allowMcpServers |-> "true"])),
         Field("networking", Flat([type |-> "limited", allowMcpServers |-> "true"])
                                 ++ Field("allowedHosts", Strings(<<"h">>))),
         Field("networking", Flat([allowPackageManagers |-> "true"])),
         Field("packages", Field("apt", Strings(<<"x">>)) ++ Field("pip", Strings(<<"x", "y">>))),
         Field("packages", Field("apt", Strings(<<"x", "y">>)))}]

---------------------------------------------------------------------------
Bearer == Flat([type |-> "static_bearer", mcpServerUrl |-> "u", tokenSecretRef |-> "k1"])
OAuth(t, e) ==
    Flat([type |-> "mcp_oauth", mcpServerUrl |-> "u", accessTokenSecretRef |-> "k1", expiresAt |-> e])
        ++ Field("refresh",
                 Flat([clientId |-> "c", tokenEndpoint |-> "e", refreshTokenSecretRef |-> "k2", scope |-> t])
                     ++ Field("tokenEndpointAuth", Flat([type |-> t, clientSecretSecretRef |-> "k2"])))
Variable(net) ==
    Flat([type |-> "environment_variable", secretName |-> "n", secretValueSecretRef |-> "k2",
          tokenSecretRef |-> "k1"])
        ++ Field("networking", net)

CredentialOptions ==
    [displayName |-> V,
     metadata    |-> Metadata,
     auth        |->
        {Bearer, Flat([mcpServerUrl |-> "w"]) ++ Bearer, Flat([accessTokenSecretRef |-> "k2"]) ++ Bearer,
         OAuth("none", "e"), OAuth("client_secret_post", "soon"),
         Variable(Flat([type |-> "unrestricted"])),
         Variable(Flat([type |-> "limited"]) ++ Field("allowedHosts", Strings(<<"h">>)))
             ++ Field("injectionLocation", Flat([body |-> "true"])),
         Variable(Field("allowedHosts", Strings(<<"i">>))),
         Field("networking", Field("allowedHosts", Strings(<<"i">>)))
             ++ Field("injectionLocation", Flat([header |-> "false"])),
         Flat([secretName |-> "o"]) ++ Variable(Flat([type |-> "unrestricted"]))}]

---------------------------------------------------------------------------
MCBase ==
    [agent       |-> Flat([name |-> "n", model |-> "m"]),
     deployment  |-> Flat([name |-> "n", agentId |-> "a", environmentId |-> "e"]),
     session     |-> Flat([agentId |-> "a", environmentId |-> "e"]),
     environment |-> Flat([name |-> "n"]),
     credential  |-> Field("auth", Bearer)]

MCOptions ==
    [agent       |-> AgentOptions,
     deployment  |-> DeploymentOptions,
     session     |-> SessionOptions,
     environment |-> EnvironmentOptions,
     credential  |-> CredentialOptions]
============================================================================
