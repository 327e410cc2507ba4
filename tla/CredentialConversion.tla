----------------------- MODULE CredentialConversion -----------------------
(***************************************************************************)
(* What the conversions of a vault credential send and mirror              *)
(* (apis/managedagents/v1beta1/vaultcredential_conversion.go).  All the    *)
(* secrets the manifest refers to are resolved first, whatever its type;   *)
(* the conversions pick those of the variant.  Module ChildResource has    *)
(* the life of a credential in its vault.                                  *)
(***************************************************************************)
EXTENDS DeploymentConversion

\* The resolved secrets, by the field of the request they are meant for.
resolveVCContext(auth, secrets) ==
    LET key(v, ref) == ResolveLocalSecretKey(v, ref, secrets)
        refresh     == IF "refresh" \in Keys(auth) THEN At(auth, "refresh") ELSE NoField
        endpoint    == IF "refresh" \in Keys(auth) THEN At(refresh, "tokenEndpointAuth") ELSE NoField
    IN  [token        |-> key(auth, "tokenSecretRef"),
         accessToken  |-> key(auth, "accessTokenSecretRef"),
         secretValue  |-> key(auth, "secretValueSecretRef"),
         refreshToken |-> key(refresh, "refreshTokenSecretRef"),
         clientSecret |-> key(endpoint, "clientSecretSecretRef")]

\* A required secret is sent though it is empty, an optional one is not.
Secret(ctx, k)         == Field(k, Leaf(ctx[k]))
OptionalSecret(ctx, k) == NonEmpty(k, Leaf(ctx[k]))

injectionLocation(il) == Only(il, {"body", "header"})

networkingUnion(n) ==
    CASE Text(n, "type") = "limited"      -> Variant("limited", n, {}, {"allowedHosts"})
      [] Text(n, "type") = "unrestricted" -> Variant("unrestricted", n, {}, {})
      [] OTHER                            -> Nothing

\* On an update there is no variant "none", and what has none is not sent.
Endpoints == {"client_secret_basic", "client_secret_post"}

newTokenEndpoint(a, ctx) ==
    CASE Text(a, "type") = "none"      -> Variant("none", a, {}, {})
      [] Text(a, "type") \in Endpoints -> Only(a, {"type"}) ++ Secret(ctx, "clientSecret")
      [] OTHER                         -> Nothing

updateTokenEndpoint(a, ctx) ==
    IF Text(a, "type") \in Endpoints
    THEN Only(a, {"type"}) ++ OptionalSecret(ctx, "clientSecret")
    ELSE Nothing

newRefresh(r, ctx) ==
    Fields(r, {"clientId", "tokenEndpoint"}, {"resource", "scope"})
        ++ Secret(ctx, "refreshToken")
        ++ Field("tokenEndpointAuth", newTokenEndpoint(At(r, "tokenEndpointAuth"), ctx))

updateRefresh(r, ctx) ==
    Only(r, {"scope"}) ++ OptionalSecret(ctx, "refreshToken")
        ++ NonEmpty("tokenEndpointAuth", updateTokenEndpoint(At(r, "tokenEndpointAuth"), ctx))

\* A time that does not parse, such as "soon", is left out without an error.
Expiry(a) == IF Text(a, "expiresAt") = "soon" THEN {} ELSE {"expiresAt"}

newAuthUnion(a, ctx) ==
    LET refresh(r) == newRefresh(r, ctx)
    IN  CASE Text(a, "type") = "static_bearer" ->
                Variant("static_bearer", a, {"mcpServerUrl"}, {}) ++ Secret(ctx, "token")
          [] Text(a, "type") = "mcp_oauth" ->
                Variant("mcp_oauth", a, {"mcpServerUrl"}, Expiry(a))
                    ++ Secret(ctx, "accessToken") ++ Sub(a, "refresh", refresh)
          [] Text(a, "type") = "environment_variable" ->
                Variant("environment_variable", a, {"secretName"}, {})
                    ++ Secret(ctx, "secretValue") ++ Needed(a, "networking", networkingUnion)
                    ++ Given(a, "injectionLocation", injectionLocation)
          [] OTHER -> Nothing

\* Server URL and secret name are immutable, and not sent again.
updateAuthUnion(a, ctx) ==
    LET refresh(r) == updateRefresh(r, ctx)
    IN  CASE Text(a, "type") = "static_bearer" ->
                Only(a, {"type"}) ++ OptionalSecret(ctx, "token")
          [] Text(a, "type") = "mcp_oauth" ->
                Only(a, {"type"} \cup Expiry(a)) ++ OptionalSecret(ctx, "accessToken")
                    ++ Given(a, "refresh", refresh)
          [] Text(a, "type") = "environment_variable" ->
                Only(a, {"type"}) ++ OptionalSecret(ctx, "secretValue")
                    ++ Given(a, "networking", networkingUnion)
                    ++ Given(a, "injectionLocation", injectionLocation)
          [] OTHER -> Nothing

credentialToAnthropicNew(p, secrets) ==
    Field("auth", newAuthUnion(At(p, "auth"), resolveVCContext(At(p, "auth"), secrets)))
        ++ Only(p, {"displayName", "metadata"})

credentialToAnthropicUpdate(p, secrets) ==
    NonEmpty("auth", updateAuthUnion(At(p, "auth"), resolveVCContext(At(p, "auth"), secrets)))
        ++ Only(p, {"displayName", "metadata"})

\* Only what is not secret, by the variant the API reports.
authFromObservation(a) ==
    IF Text(a, "type") = "environment_variable"
    THEN Only(a, {"type", "secretName", "networking", "injectionLocation"})
    ELSE Fields(a, {"type", "mcpServerUrl"}, {})

credentialFromAnthropicObservation(r) ==
    Fields(r, {"displayName"}, {"metadata"}) ++ Field("auth", authFromObservation(At(r, "auth")))

---------------------------------------------------------------------------
(***************************************************************************)
(* The API (external): an injection location is always reported.           *)
(***************************************************************************)
StoredAuth(a) ==
    IF Text(a, "type") # "environment_variable" THEN a
    ELSE LET given == IF "injectionLocation" \in Keys(a) THEN At(a, "injectionLocation") ELSE NoField
         IN  Field("injectionLocation",
                   given ++ Field("body", Leaf("false")) ++ Field("header", Leaf("true"))) ++ a

StoredCredential(r) == Sub(r, "auth", StoredAuth) ++ r
============================================================================
